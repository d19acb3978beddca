----------------------- MODULE MessageLifecycleProofs -----------------------
(***************************************************************************)
(* Proofs about MessageLifecycle, for any number of messages, workers,     *)
(* recipients, crashes and resends.                                        *)
(***************************************************************************)
EXTENDS MessageLifecycle, TLAPS

(* A thread that is not idle works on a message. *)
BusyHasMessage == \A t \in Threads : thr[t].pc # "idle" => thr[t].m \in Msgs

TypeInv == TypeOK /\ BusyHasMessage

(* Until its row is created, only the handler that received a message      *)
(* knows of it.                                                            *)
Ingest == {"put", "persist", "create"}
Untouched(m) ==
    /\ row[m] = NoRow
    /\ m \notin pushed /\ m \notin relayed /\ m \notin retrieved
    /\ m \notin qlist /\ \A b \in BOOLEAN : <<m, b>> \notin slist

Private(m) ==
    /\ subs[m] = 0 => Untouched(m) /\ \A u \in Threads : thr[u].m # m
    /\ \A t \in Threads : thr[t].m = m /\ thr[t].pc \in Ingest =>
          Untouched(m) /\ \A u \in Threads : thr[u].m = m => u = t

FreshIsPrivate == \A m \in ServerIds : Private(m)

(* Messages with a payload: all but an EAIF message for another system.    *)
Stored(m) == ~(Iface[m] = "EAIF" /\ Dest[m] # "Local")

(* The payload of a message that is about to get its row, or its new path, *)
(* is in the store.                                                        *)
AboutToPoint(m) ==
    \A t \in Threads : thr[t].m = m =>
        /\ At(t, "create") /\ Stored(m) => m \in content
        /\ At(t, "replaceRow") /\ HasRow(m) /\ m \notin expired => m \in content

(* Payloads are removed for messages without a row, or expired ones.       *)
RemovesDeadOnly(m) ==
    /\ \A t \in Threads : thr[t].m = m =>
          /\ At(t, "admContent") => ~HasRow(m)
          /\ thr[t].pc \in {"sweepReport", "sweepContent", "sweepRow"} => m \in expired
    /\ \A b \in BOOLEAN : <<m, b>> \in slist => m \in expired

ContentSafe(m) ==
    /\ AboutToPoint(m) /\ RemovesDeadOnly(m)
    /\ HasRow(m) /\ m \in path /\ m \notin expired => m \in content

ContentInv == TypeInv /\ FreshIsPrivate /\ \A m \in ServerIds : ContentSafe(m)

(* The flag "has a payload" that a deletion works with is right, and the   *)
(* payload is gone, or its loss recorded, when the sweeper deletes a row.  *)
PathIsKnown(m) ==
    /\ Stored(m) =>
          /\ HasRow(m) => m \in path
          /\ <<m, FALSE>> \notin slist
          /\ \A t \in Threads : thr[t].m = m /\
                thr[t].pc \in {"admRow", "sweepReport", "sweepContent"} => thr[t].p
    /\ ~Stored(m) =>
          /\ m \in content \cup path => m \in leaked
          /\ \A t \in Threads : thr[t].m = m =>
                /\ thr[t].pc \notin {"put", "persist"}
                /\ At(t, "replaceRow") => m \in leaked

SweptIsEmpty(m) ==
    \A t \in Threads : At(t, "sweepRow") /\ thr[t].m = m =>
        t = Sweeper /\ (m \notin content \/ m \in leaked)

Accounted(m) ==
    m \in content \ leaked =>
        \/ HasRow(m)
        \/ \E t \in Threads : /\ thr[t].m = m
                             /\ thr[t].pc \in {"persist", "create", "admContent"}

OrphanSafe(m) == PathIsKnown(m) /\ SweptIsEmpty(m) /\ Accounted(m)

OrphanInv == TypeInv /\ FreshIsPrivate /\ \A m \in ServerIds : OrphanSafe(m)

(* A thread that is about to write or report Delivered does so for a       *)
(* message that was reported on.  It needs the senders to choose different *)
(* transaction identifiers.                                                *)
TxnsDistinct == \A m, u \in Msgs : Txn[m] = Txn[u] => m = u

DeliveredSafe(m) ==
    /\ row[m] = "Delivered" \/ <<m, "Delivered">> \in reports => m \in reportedOn
    /\ \A t \in Threads :
          thr[t].m = m /\ thr[t].st = "Delivered"
          /\ thr[t].pc \in {"mtUpdate", "mtRead", "mtReport", "receiptGet",
                            "receiptUpdate", "admStatus", "cancel"} => m \in reportedOn

DeliveredInv == TypeInv /\ \A m \in Msgs : DeliveredSafe(m)

-----------------------------------------------------------------------------
(* Facts about threads.                                                    *)

(* A thread record of its own type: what Finish leaves behind. *)
LEMMA IdleIsState == Idle \in ThreadState
  BY DEF Idle, ThreadState, PCs, Status

(* The initial state is well-typed. *)
LEMMA TypeInit == Init => TypeInv
<1> SUFFICES ASSUME Init PROVE TypeInv
  OBVIOUS
<1> USE DEF Init
<1>1. TypeOK
  BY IdleIsState DEF TypeOK, NoRow
<1>2. BusyHasMessage
  BY DEF BusyHasMessage, Idle
<1> QED
  BY <1>1, <1>2 DEF TypeInv

(* Every step is one of these; the four answers of a UE share one form. *)
LEMMA ActionCases ==
    ASSUME [Next]_vars
    PROVE
    \/ \E t \in Workers, m \in Msgs : Submit(t, m)
    \/ \E t \in Workers : PutContent(t)
    \/ \E t \in Workers : PersistLocalContent(t)
    \/ \E t \in Workers : SubmitFails(t)
    \/ \E t \in Workers : CreateMessage(t)
    \/ \E t \in Threads : PushRecipient(t)
    \/ \E t \in Threads : PushFails(t)
    \/ \E t \in Threads : MarkDelivering(t)
    \/ \E t \in Threads : MarkDeliveringFails(t)
    \/ \E t \in Workers : RelaySucceeds(t)
    \/ \E t \in Workers : RelayFails(t)
    \/ \E t \in Workers : MarkUnreachable(t)
    \/ \E t \in Workers : RejectReport(t)
    \/ \E t \in Workers, m \in Msgs : HandleRetrieve(t, m)
    \/ \E t \in Workers : LoadParts(t)
    \/ \E t \in Workers : ServeRetrieve(t)
    \/ \E t \in Workers, u \in Msgs, m \in Msgs, pc \in {"mtUpdate", "mtRead"}, st \in Status :
          Txn[m] = Txn[u] /\ UEResponse(t, u, m, pc, st)
    \/ \E t \in Workers : ApplyUEResponse(t)
    \/ \E t \in Workers : ReportStatus(t)
    \/ \E t \in Workers, m \in Msgs, st \in Status : ReceiptArrives(t, m, st)
    \/ \E t \in Workers : ReceiptGet(t)
    \/ \E t \in Workers : ReceiptUpdate(t)
    \/ \E t \in Workers, m \in Msgs : HandleCancel(t, m)
    \/ \E t \in Workers, m \in Msgs : HandleReplace(t, m)
    \/ \E t \in Workers : ReplacePut(t)
    \/ \E t \in Workers : UpdateMessageContent(t)
    \/ \E t \in Workers, m \in Msgs, st \in PatchStatus : AdminSetStatus(t, m, st)
    \/ \E t \in Workers, m \in Msgs : AdminDelete(t, m)
    \/ \E t \in Workers : ApplyStatus(t)
    \/ \E t \in Workers : AdminDeleteRow(t)
    \/ \E t \in Workers : AdminDeleteContent(t)
    \/ \E t \in Workers : RepositoryFails(t)
    \/ \E m \in Msgs, st \in Status : PeerReport(m, st)
    \/ QueueList
    \/ QueueNext
    \/ SweepList
    \/ SweepMark
    \/ SweepMarkFails
    \/ SweepReport
    \/ SweepContent
    \/ SweepRow
    \/ SweepRowFails
    \/ \E m \in Msgs : Expire(m)
    \/ Crash
    \/ UNCHANGED vars
<1>1. ASSUME NEW t \in Workers, MM1Step(t)
      PROVE  \/ \E m \in Msgs : HandleRetrieve(t, m)
             \/ LoadParts(t) \/ ServeRetrieve(t) \/ ApplyUEResponse(t) \/ ReportStatus(t)
             \/ \E u \in Msgs, m \in Msgs, pc \in {"mtUpdate", "mtRead"}, st \in Status :
                   Txn[m] = Txn[u] /\ UEResponse(t, u, m, pc, st)
  BY <1>1 DEF MM1Step, HandleNotifyResp, HandleAcknowledge, HandleReadReport,
              HandleDeliveryReport, ByTransactionID, Status
<1>2. ASSUME NEW t \in Workers, SubmitStep(t)
      PROVE  \/ \E m \in Msgs : Submit(t, m)
             \/ PutContent(t) \/ PersistLocalContent(t) \/ SubmitFails(t)
             \/ CreateMessage(t) \/ NotificationStep(t) \/ RelaySucceeds(t)
             \/ RelayFails(t) \/ MarkUnreachable(t) \/ RejectReport(t)
  BY <1>2 DEF SubmitStep
<1>3. \A t : NotificationStep(t) => \/ PushRecipient(t) \/ PushFails(t)
                                  \/ MarkDelivering(t) \/ MarkDeliveringFails(t)
  BY DEF NotificationStep
<1>4. Workers \subseteq Threads /\ Dispatcher \in Threads
  BY DEF Threads
<1>5. CASE \E t \in Workers : \/ SubmitStep(t) \/ MM1Step(t) \/ ReceiptStep(t)
                              \/ VASPStep(t) \/ AdminStep(t) \/ RepositoryFails(t)
  <2> PICK t \in Workers : \/ SubmitStep(t) \/ MM1Step(t) \/ ReceiptStep(t)
                           \/ VASPStep(t) \/ AdminStep(t) \/ RepositoryFails(t)
    BY <1>5
  <2>1. CASE SubmitStep(t)
    BY <2>1, <1>2, <1>3, <1>4
  <2>2. CASE MM1Step(t)
    BY <2>2, <1>1
  <2>3. CASE ReceiptStep(t)
    BY <2>3 DEF ReceiptStep
  <2>4. CASE VASPStep(t)
    BY <2>4 DEF VASPStep
  <2>5. CASE AdminStep(t)
    BY <2>5 DEF AdminStep
  <2>6. CASE RepositoryFails(t)
    BY <2>6
  <2> QED
    BY <2>1, <2>2, <2>3, <2>4, <2>5, <2>6
<1>6. CASE DispatcherStep
  BY <1>6, <1>3, <1>4 DEF DispatcherStep
<1>7. CASE SweeperStep
  BY <1>7 DEF SweeperStep
<1> QED
  BY <1>5, <1>6, <1>7 DEF Next

(* The status of a new row is one of the seven, whatever its interface and *)
(* destination.                                                            *)
LEMMA InitialStatusIsStatus == \A m \in Msgs : InitialStatus(m) \in Status
  BY DEF InitialStatus, Status

(* So is the step that follows the insert. *)
LEMMA AfterCreateIsPC ==
    \A m \in Msgs : AfterCreate(m) \in {"push", "rejectReport", "relay", "idle"}
  BY DEF AfterCreate

(* Every step keeps the types, and keeps a message in every busy thread.   *)
LEMMA TypeStep == TypeInv /\ [Next]_vars => TypeInv'
<1> SUFFICES ASSUME TypeInv, [Next]_vars PROVE TypeInv'
  OBVIOUS
<1> USE ConstantsOK, ThreadsDistinct
    DEF TypeInv, TypeOK, BusyHasMessage, At, Free, Goto, Finish, Begin, HasRow,
        UpdateMessageStatus, SendDeliveryReport, Idle, ThreadState, PCs, Status, NoRow,
        Threads, db, env, history, lists, vars
<1>1. ASSUME NEW t \in Workers, NEW m \in Msgs, Submit(t, m) PROVE TypeInv'
  BY <1>1 DEF Submit, FirstStep
<1>2. ASSUME NEW t \in Workers, PutContent(t) PROVE TypeInv'
  BY <1>2 DEF PutContent
<1>3. ASSUME NEW t \in Workers, PersistLocalContent(t) PROVE TypeInv'
  BY <1>3 DEF PersistLocalContent
<1>4. ASSUME NEW t \in Workers, SubmitFails(t) PROVE TypeInv'
  BY <1>4 DEF SubmitFails
<1>5. ASSUME NEW t \in Workers, CreateMessage(t) PROVE TypeInv'
  <2> DEFINE m == thr[t].m
  <2>1. m \in Msgs /\ row' \in [Msgs -> Status \cup {NoRow}] /\ recv' \in [Msgs -> Nat]
    BY <1>5, InitialStatusIsStatus DEF CreateMessage
  <2>2. thr' \in [Threads -> ThreadState] /\ BusyHasMessage'
    <3>1. CASE AfterCreate(m) = "idle"
      <4>1. Finish(t)
        BY <1>5, <3>1 DEF CreateMessage
      <4> QED
        BY <4>1
    <3>2. CASE AfterCreate(m) # "idle"
      BY <1>5, <2>1, <3>2, AfterCreateIsPC DEF CreateMessage
    <3> QED
      BY <3>1, <3>2
  <2> QED
    BY <1>5, <2>1, <2>2 DEF CreateMessage
<1>6. ASSUME NEW t \in Threads, PushRecipient(t) PROVE TypeInv'
  BY <1>6, SMTT(30) DEF PushRecipient
<1>7. ASSUME NEW t \in Threads, PushFails(t) PROVE TypeInv'
  <2>1. CASE t \in Workers /\ Iface[thr[t].m] \in {"MM7", "EAIF"}
    BY <1>7, <2>1 DEF PushFails, NotificationError
  <2>2. CASE ~(t \in Workers /\ Iface[thr[t].m] \in {"MM7", "EAIF"})
    <3>1. Finish(t)
      BY <1>7, <2>2 DEF PushFails, NotificationError
    <3> QED
      BY <1>7, <3>1 DEF PushFails, NotificationError
  <2> QED
    BY <2>1, <2>2
<1>8. ASSUME NEW t \in Threads, MarkDelivering(t) PROVE TypeInv'
  BY <1>8 DEF MarkDelivering
<1>9. ASSUME NEW t \in Threads, MarkDeliveringFails(t) PROVE TypeInv'
  <2>1. CASE t \in Workers /\ Iface[thr[t].m] \in {"MM7", "EAIF"}
    BY <1>9, <2>1 DEF MarkDeliveringFails, NotificationError
  <2>2. CASE ~(t \in Workers /\ Iface[thr[t].m] \in {"MM7", "EAIF"})
    <3>1. Finish(t)
      BY <1>9, <2>2 DEF MarkDeliveringFails, NotificationError
    <3> QED
      BY <1>9, <3>1 DEF MarkDeliveringFails, NotificationError
  <2> QED
    BY <2>1, <2>2
<1>10. ASSUME NEW t \in Workers, RelaySucceeds(t) PROVE TypeInv'
  BY <1>10 DEF RelaySucceeds
<1>11. ASSUME NEW t \in Workers, RelayFails(t) PROVE TypeInv'
  BY <1>11 DEF RelayFails
<1>12. ASSUME NEW t \in Workers, MarkUnreachable(t) PROVE TypeInv'
  BY <1>12 DEF MarkUnreachable
<1>13. ASSUME NEW t \in Workers, RejectReport(t) PROVE TypeInv'
  BY <1>13 DEF RejectReport
<1>14. ASSUME NEW t \in Workers, NEW m \in Msgs, HandleRetrieve(t, m) PROVE TypeInv'
  BY <1>14 DEF HandleRetrieve
<1>15. ASSUME NEW t \in Workers, LoadParts(t) PROVE TypeInv'
  <2>1. CASE thr[t].p /\ thr[t].m \in content
    BY <1>15, <2>1 DEF LoadParts
  <2>2. CASE ~(thr[t].p /\ thr[t].m \in content)
    <3>1. Finish(t)
      BY <1>15, <2>2 DEF LoadParts
    <3> QED
      BY <1>15, <3>1 DEF LoadParts
  <2> QED
    BY <2>1, <2>2
<1>16. ASSUME NEW t \in Workers, ServeRetrieve(t) PROVE TypeInv'
  BY <1>16 DEF ServeRetrieve
<1>17. ASSUME NEW t \in Workers, NEW u \in Msgs, NEW m \in Msgs, NEW pc \in {"mtUpdate", "mtRead"}, NEW st \in Status,
             UEResponse(t, u, m, pc, st) PROVE TypeInv'
  BY <1>17 DEF UEResponse
<1>18. ASSUME NEW t \in Workers, ApplyUEResponse(t) PROVE TypeInv'
  <2>1. CASE At(t, "mtRead")
    <3>1. Finish(t)
      BY <1>18, <2>1 DEF ApplyUEResponse
    <3> QED
      BY <1>18, <3>1 DEF ApplyUEResponse
  <2>2. CASE ~(At(t, "mtRead"))
    BY <1>18, <2>2 DEF ApplyUEResponse
  <2> QED
    BY <2>1, <2>2
<1>19. ASSUME NEW t \in Workers, ReportStatus(t) PROVE TypeInv'
  BY <1>19 DEF ReportStatus
<1>20. ASSUME NEW t \in Workers, NEW m \in Msgs, NEW st \in Status, ReceiptArrives(t, m, st) PROVE TypeInv'
  BY <1>20 DEF ReceiptArrives
<1>21. ASSUME NEW t \in Workers, ReceiptGet(t) PROVE TypeInv'
  <2>1. CASE HasRow(thr[t].m)
    BY <1>21, <2>1 DEF ReceiptGet
  <2>2. CASE ~(HasRow(thr[t].m))
    <3>1. Finish(t)
      BY <1>21, <2>2 DEF ReceiptGet
    <3> QED
      BY <1>21, <3>1 DEF ReceiptGet
  <2> QED
    BY <2>1, <2>2
<1>22. ASSUME NEW t \in Workers, ReceiptUpdate(t) PROVE TypeInv'
  <2>1. CASE thr[t].st = "Unreachable" /\ thr[t].p
    BY <1>22, <2>1 DEF ReceiptUpdate
  <2>2. CASE ~(thr[t].st = "Unreachable" /\ thr[t].p)
    <3>1. Finish(t)
      BY <1>22, <2>2 DEF ReceiptUpdate
    <3> QED
      BY <1>22, <3>1 DEF ReceiptUpdate
  <2> QED
    BY <2>1, <2>2
<1>23. ASSUME NEW t \in Workers, NEW m \in Msgs, HandleCancel(t, m) PROVE TypeInv'
  BY <1>23 DEF HandleCancel
<1>24. ASSUME NEW t \in Workers, NEW m \in Msgs, HandleReplace(t, m) PROVE TypeInv'
  BY <1>24 DEF HandleReplace
<1>25. ASSUME NEW t \in Workers, ReplacePut(t) PROVE TypeInv'
  BY <1>25 DEF ReplacePut
<1>26. ASSUME NEW t \in Workers, UpdateMessageContent(t) PROVE TypeInv'
  BY <1>26 DEF UpdateMessageContent
<1>27. ASSUME NEW t \in Workers, NEW m \in Msgs, NEW st \in PatchStatus, AdminSetStatus(t, m, st) PROVE TypeInv'
  <2>1. st \in Status /\ t \in Threads
    OBVIOUS
  <2>2. thr' \in [Threads -> ThreadState]
    BY <1>27, <2>1 DEF AdminSetStatus
  <2>3. BusyHasMessage'
    BY <1>27, <2>1 DEF AdminSetStatus
  <2>4. reportedOn' \subseteq Msgs
    BY <1>27 DEF AdminSetStatus
  <2> QED
    BY <1>27, <2>2, <2>3, <2>4 DEF AdminSetStatus
<1>28. ASSUME NEW t \in Workers, NEW m \in Msgs, AdminDelete(t, m) PROVE TypeInv'
  BY <1>28 DEF AdminDelete
<1>29. ASSUME NEW t \in Workers, ApplyStatus(t) PROVE TypeInv'
  BY <1>29 DEF ApplyStatus
<1>30. ASSUME NEW t \in Workers, AdminDeleteRow(t) PROVE TypeInv'
  <2>1. CASE HasRow(thr[t].m) /\ thr[t].p
    BY <1>30, <2>1 DEF AdminDeleteRow
  <2>2. CASE ~(HasRow(thr[t].m) /\ thr[t].p)
    <3>1. Finish(t)
      BY <1>30, <2>2 DEF AdminDeleteRow
    <3> QED
      BY <1>30, <3>1 DEF AdminDeleteRow
  <2> QED
    BY <2>1, <2>2
<1>31. ASSUME NEW t \in Workers, AdminDeleteContent(t) PROVE TypeInv'
  BY <1>31 DEF AdminDeleteContent
<1>32. ASSUME NEW t \in Workers, RepositoryFails(t) PROVE TypeInv'
  BY <1>32 DEF RepositoryFails
<1>33. ASSUME NEW m \in Msgs, NEW st \in Status, PeerReport(m, st) PROVE TypeInv'
  BY <1>33 DEF PeerReport
<1>34. ASSUME QueueList PROVE TypeInv'
  <2>1. NewestQueued \subseteq Msgs
    BY DEF NewestQueued
  <2> QED
    BY <1>34, <2>1 DEF QueueList
<1>35. ASSUME QueueNext PROVE TypeInv'
  <2> PICK m \in qlist :
             /\ Dispatcher \in Threads /\ qlist' = qlist \ {m}
             /\ IF m \in expired THEN UNCHANGED thr
                ELSE Begin(Dispatcher, "push", m, "Queued", FALSE)
             /\ UNCHANGED <<db, content, env, history, leaked, slist>>
    BY <1>35 DEF QueueNext
  <2>1. CASE m \in expired
    BY <2>1
  <2>2. CASE m \notin expired
    <3>1. Begin(Dispatcher, "push", m, "Queued", FALSE)
      BY <2>2
    <3> QED
      BY <3>1
  <2> QED
    BY <2>1, <2>2
<1>36. ASSUME SweepList PROVE TypeInv'
  <2>1. ASSUME NEW m \in ExpiredRows PROVE <<m, m \in path>> \in Msgs \X BOOLEAN
    <3>1. m \in Msgs
      BY DEF ExpiredRows
    <3>2. (m \in path) \in BOOLEAN
      OBVIOUS
    <3> QED
      BY <3>1, <3>2, Zenon
  <2> QED
    BY <1>36, <2>1 DEF SweepList
<1>37. ASSUME SweepMark PROVE TypeInv'
  BY <1>37 DEF SweepMark
<1>38. ASSUME SweepMarkFails PROVE TypeInv'
  BY <1>38 DEF SweepMarkFails
<1>39. ASSUME SweepReport PROVE TypeInv'
  BY <1>39 DEF SweepReport
<1>40. ASSUME SweepContent PROVE TypeInv'
  BY <1>40 DEF SweepContent
<1>41. ASSUME SweepRow PROVE TypeInv'
  BY <1>41 DEF SweepRow
<1>42. ASSUME SweepRowFails PROVE TypeInv'
  BY <1>42 DEF SweepRowFails
<1>43. ASSUME NEW m \in Msgs, Expire(m) PROVE TypeInv'
  BY <1>43 DEF Expire
<1>44. ASSUME Crash PROVE TypeInv'
  BY <1>44 DEF Crash
<1>45. ASSUME UNCHANGED vars PROVE TypeInv'
  BY <1>45
<1> HIDE DEF TypeInv, TypeOK, BusyHasMessage, vars
<1>46. QED
  BY ActionCases, <1>1, <1>2, <1>3, <1>4, <1>5, <1>6, <1>7, <1>8, <1>9, <1>10, <1>11, <1>12,
     <1>13, <1>14, <1>15, <1>16, <1>17, <1>18, <1>19, <1>20, <1>21, <1>22, <1>23,
     <1>24, <1>25, <1>26, <1>27, <1>28, <1>29, <1>30, <1>31, <1>32, <1>33, <1>34,
     <1>35, <1>36, <1>37, <1>38, <1>39, <1>40, <1>41, <1>42, <1>43, <1>44, <1>45

(* Nobody but its own handler can reach a message before its row exists.   *)
LEMMA FreshStep == TypeInv /\ FreshIsPrivate /\ [Next]_vars => FreshIsPrivate'
<1> SUFFICES ASSUME TypeInv, FreshIsPrivate, [Next]_vars, NEW x \in ServerIds
             PROVE  Private(x)'
  BY DEF FreshIsPrivate
<1>a. /\ x \in Msgs /\ Private(x) /\ NoMsg \notin Msgs
      /\ thr \in [Threads -> ThreadState] /\ BusyHasMessage
      /\ row \in [Msgs -> Status \cup {NoRow}] /\ subs \in [Msgs -> Nat]
      /\ slist \subseteq Msgs \X BOOLEAN /\ qlist \subseteq Msgs
  BY ThreadsDistinct DEF FreshIsPrivate, ServerIds, TypeInv, TypeOK
<1>b. Sweeper \in Threads /\ Dispatcher \in Threads /\ Workers \subseteq Threads
  BY DEF Threads
<1> USE <1>a, <1>b
    DEF Private, Untouched, Ingest, BusyHasMessage, At, Free, Goto, Finish, Begin,
        HasRow, UpdateMessageStatus, Idle, ThreadState, NoRow, db, env, history, lists, vars
<1>1. ASSUME NEW t \in Workers, NEW m \in Msgs, Submit(t, m) PROVE Private(x)'
  BY <1>1 DEF Submit, FirstStep
<1>2. ASSUME NEW t \in Workers, PutContent(t) PROVE Private(x)'
  BY <1>2 DEF PutContent
<1>3. ASSUME NEW t \in Workers, PersistLocalContent(t) PROVE Private(x)'
  BY <1>3 DEF PersistLocalContent
<1>4. ASSUME NEW t \in Workers, SubmitFails(t) PROVE Private(x)'
  BY <1>4 DEF SubmitFails
<1>5. ASSUME NEW t \in Workers, CreateMessage(t) PROVE Private(x)'
  <2>1. AfterCreate(thr[t].m) \in {"push", "rejectReport", "relay", "idle"}
    BY <1>5, AfterCreateIsPC DEF CreateMessage
  <2>2. Finish(t) \/ Goto(t, AfterCreate(thr[t].m))
    BY <1>5 DEF CreateMessage
  <2>3. CASE thr[t].m = x
    BY <1>5, <2>1, <2>2, <2>3 DEF CreateMessage
  <2>4. CASE thr[t].m # x
    BY <1>5, <2>1, <2>2, <2>4, SMTT(30) DEF CreateMessage
  <2> QED
    BY <2>3, <2>4
<1>6. ASSUME NEW t \in Threads, PushRecipient(t) PROVE Private(x)'
  BY <1>6 DEF PushRecipient
<1>7. ASSUME NEW t \in Threads, PushFails(t) PROVE Private(x)'
  BY <1>7 DEF PushFails, NotificationError
<1>8. ASSUME NEW t \in Threads, MarkDelivering(t) PROVE Private(x)'
  BY <1>8 DEF MarkDelivering
<1>9. ASSUME NEW t \in Threads, MarkDeliveringFails(t) PROVE Private(x)'
  BY <1>9 DEF MarkDeliveringFails, NotificationError
<1>10. ASSUME NEW t \in Workers, RelaySucceeds(t) PROVE Private(x)'
  BY <1>10 DEF RelaySucceeds
<1>11. ASSUME NEW t \in Workers, RelayFails(t) PROVE Private(x)'
  BY <1>11 DEF RelayFails
<1>12. ASSUME NEW t \in Workers, MarkUnreachable(t) PROVE Private(x)'
  BY <1>12 DEF MarkUnreachable
<1>13. ASSUME NEW t \in Workers, RejectReport(t) PROVE Private(x)'
  BY <1>13 DEF RejectReport
<1>14. ASSUME NEW t \in Workers, NEW m \in Msgs, HandleRetrieve(t, m) PROVE Private(x)'
  BY <1>14 DEF HandleRetrieve
<1>15. ASSUME NEW t \in Workers, LoadParts(t) PROVE Private(x)'
  BY <1>15 DEF LoadParts
<1>16. ASSUME NEW t \in Workers, ServeRetrieve(t) PROVE Private(x)'
  BY <1>16 DEF ServeRetrieve
<1>17. ASSUME NEW t \in Workers, NEW u \in Msgs, NEW m \in Msgs, NEW pc \in {"mtUpdate", "mtRead"}, NEW st \in Status,
             UEResponse(t, u, m, pc, st) PROVE Private(x)'
  BY <1>17 DEF UEResponse
<1>18. ASSUME NEW t \in Workers, ApplyUEResponse(t) PROVE Private(x)'
  BY <1>18 DEF ApplyUEResponse
<1>19. ASSUME NEW t \in Workers, ReportStatus(t) PROVE Private(x)'
  BY <1>19 DEF ReportStatus
<1>20. ASSUME NEW t \in Workers, NEW m \in Msgs, NEW st \in Status,
             ReceiptArrives(t, m, st) PROVE Private(x)'
  BY <1>20 DEF ReceiptArrives
<1>21. ASSUME NEW t \in Workers, ReceiptGet(t) PROVE Private(x)'
  BY <1>21, SMTT(30) DEF ReceiptGet
<1>22. ASSUME NEW t \in Workers, ReceiptUpdate(t) PROVE Private(x)'
  BY <1>22 DEF ReceiptUpdate
<1>23. ASSUME NEW t \in Workers, NEW m \in Msgs, HandleCancel(t, m) PROVE Private(x)'
  BY <1>23 DEF HandleCancel
<1>24. ASSUME NEW t \in Workers, NEW m \in Msgs, HandleReplace(t, m) PROVE Private(x)'
  BY <1>24 DEF HandleReplace
<1>25. ASSUME NEW t \in Workers, ReplacePut(t) PROVE Private(x)'
  BY <1>25 DEF ReplacePut
<1>26. ASSUME NEW t \in Workers, UpdateMessageContent(t) PROVE Private(x)'
  BY <1>26 DEF UpdateMessageContent
<1>27. ASSUME NEW t \in Workers, NEW m \in Msgs, NEW st \in PatchStatus,
             AdminSetStatus(t, m, st) PROVE Private(x)'
  BY <1>27 DEF AdminSetStatus
<1>28. ASSUME NEW t \in Workers, NEW m \in Msgs, AdminDelete(t, m) PROVE Private(x)'
  BY <1>28 DEF AdminDelete
<1>29. ASSUME NEW t \in Workers, ApplyStatus(t) PROVE Private(x)'
  BY <1>29 DEF ApplyStatus
<1>30. ASSUME NEW t \in Workers, AdminDeleteRow(t) PROVE Private(x)'
  BY <1>30, SMTT(30) DEF AdminDeleteRow
<1>31. ASSUME NEW t \in Workers, AdminDeleteContent(t) PROVE Private(x)'
  BY <1>31 DEF AdminDeleteContent
<1>32. ASSUME NEW t \in Workers, RepositoryFails(t) PROVE Private(x)'
  BY <1>32 DEF RepositoryFails
<1>33. ASSUME NEW m \in Msgs, NEW st \in Status, PeerReport(m, st) PROVE Private(x)'
  BY <1>33 DEF PeerReport
<1>34. ASSUME QueueList PROVE Private(x)'
  BY <1>34 DEF QueueList, NewestQueued
<1>35. ASSUME QueueNext PROVE Private(x)'
  BY <1>35 DEF QueueNext
<1>36. ASSUME SweepList PROVE Private(x)'
  BY <1>36 DEF SweepList, ExpiredRows
<1>37. ASSUME SweepMark PROVE Private(x)'
  BY <1>37 DEF SweepMark
<1>38. ASSUME SweepMarkFails PROVE Private(x)'
  BY <1>38 DEF SweepMarkFails
<1>39. ASSUME SweepReport PROVE Private(x)'
  BY <1>39 DEF SweepReport
<1>40. ASSUME SweepContent PROVE Private(x)'
  BY <1>40 DEF SweepContent
<1>41. ASSUME SweepRow PROVE Private(x)'
  BY <1>41 DEF SweepRow
<1>42. ASSUME SweepRowFails PROVE Private(x)'
  BY <1>42 DEF SweepRowFails
<1>43. ASSUME NEW m \in Msgs, Expire(m) PROVE Private(x)'
  BY <1>43 DEF Expire
<1>44. ASSUME Crash PROVE Private(x)'
  BY <1>44 DEF Crash
<1>45. ASSUME UNCHANGED vars PROVE Private(x)'
  BY <1>45
<1> HIDE DEF Private, vars
<1>46. QED
  BY ActionCases, <1>1, <1>2, <1>3, <1>4, <1>5, <1>6, <1>7, <1>8, <1>9, <1>10, <1>11, <1>12,
     <1>13, <1>14, <1>15, <1>16, <1>17, <1>18, <1>19, <1>20, <1>21, <1>22, <1>23,
     <1>24, <1>25, <1>26, <1>27, <1>28, <1>29, <1>30, <1>31, <1>32, <1>33, <1>34,
     <1>35, <1>36, <1>37, <1>38, <1>39, <1>40, <1>41, <1>42, <1>43, <1>44, <1>45

(* No step takes the payload of an unexpired row: deletes of the row come  *)
(* first, and the sweeper holds expired messages only.                     *)
LEMMA ContentStep == ContentInv /\ [Next]_vars => ContentInv'
<1> SUFFICES ASSUME ContentInv, [Next]_vars, NEW x \in ServerIds
             PROVE  ContentSafe(x)'
  BY TypeStep, FreshStep DEF ContentInv
<1>a. /\ x \in Msgs /\ Private(x) /\ ContentSafe(x) /\ NoMsg \notin Msgs
      /\ thr \in [Threads -> ThreadState] /\ BusyHasMessage
      /\ row \in [Msgs -> Status \cup {NoRow}] /\ content \subseteq Msgs
      /\ slist \subseteq Msgs \X BOOLEAN
  BY ThreadsDistinct DEF FreshIsPrivate, ServerIds, TypeInv, TypeOK, ContentInv
<1>b. /\ Sweeper \in Threads /\ Dispatcher \in Threads /\ Workers \subseteq Threads
  BY DEF Threads
<1> USE <1>a, <1>b
    DEF Private, Untouched, Ingest, ContentSafe, AboutToPoint, RemovesDeadOnly, Stored,
        BusyHasMessage, At, Free, Goto, Finish, Begin, HasRow, UpdateMessageStatus, Idle,
        ThreadState, NoRow, db, env, history, lists, vars
<1>1. ASSUME NEW t \in Workers, NEW m \in Msgs, Submit(t, m) PROVE ContentSafe(x)'
  BY <1>1 DEF Submit, FirstStep
<1>2. ASSUME NEW t \in Workers, PutContent(t) PROVE ContentSafe(x)'
  BY <1>2 DEF PutContent
<1>3. ASSUME NEW t \in Workers, PersistLocalContent(t) PROVE ContentSafe(x)'
  BY <1>3 DEF PersistLocalContent
<1>4. ASSUME NEW t \in Workers, SubmitFails(t) PROVE ContentSafe(x)'
  BY <1>4 DEF SubmitFails
<1>5. ASSUME NEW t \in Workers, CreateMessage(t) PROVE ContentSafe(x)'
  <2>1. AfterCreate(thr[t].m) \in {"push", "rejectReport", "relay", "idle"}
    BY <1>5, AfterCreateIsPC DEF CreateMessage
  <2>2. Finish(t) \/ Goto(t, AfterCreate(thr[t].m))
    BY <1>5 DEF CreateMessage
  <2>3. CASE thr[t].m = x
    BY <1>5, <2>1, <2>2, <2>3 DEF CreateMessage
  <2>4. CASE thr[t].m # x
    BY <1>5, <2>1, <2>2, <2>4 DEF CreateMessage
  <2> QED
    BY <2>3, <2>4
<1>6. ASSUME NEW t \in Threads, PushRecipient(t) PROVE ContentSafe(x)'
  BY <1>6 DEF PushRecipient
<1>7. ASSUME NEW t \in Threads, PushFails(t) PROVE ContentSafe(x)'
  <2>1. Goto(t, "markUnreachable") \/ Finish(t)
    BY <1>7 DEF PushFails, NotificationError
  <2>2. CASE Goto(t, "markUnreachable")
    BY <1>7, <2>2 DEF PushFails
  <2>3. CASE Finish(t)
    BY <1>7, <2>3 DEF PushFails
  <2> QED
    BY <2>1, <2>2, <2>3
<1>8. ASSUME NEW t \in Threads, MarkDelivering(t) PROVE ContentSafe(x)'
  BY <1>8 DEF MarkDelivering
<1>9. ASSUME NEW t \in Threads, MarkDeliveringFails(t) PROVE ContentSafe(x)'
  <2>1. Goto(t, "markUnreachable") \/ Finish(t)
    BY <1>9 DEF MarkDeliveringFails, NotificationError
  <2>2. CASE Goto(t, "markUnreachable")
    BY <1>9, <2>2 DEF MarkDeliveringFails
  <2>3. CASE Finish(t)
    BY <1>9, <2>3 DEF MarkDeliveringFails
  <2> QED
    BY <2>1, <2>2, <2>3
<1>10. ASSUME NEW t \in Workers, RelaySucceeds(t) PROVE ContentSafe(x)'
  BY <1>10 DEF RelaySucceeds
<1>11. ASSUME NEW t \in Workers, RelayFails(t) PROVE ContentSafe(x)'
  BY <1>11 DEF RelayFails
<1>12. ASSUME NEW t \in Workers, MarkUnreachable(t) PROVE ContentSafe(x)'
  BY <1>12 DEF MarkUnreachable
<1>13. ASSUME NEW t \in Workers, RejectReport(t) PROVE ContentSafe(x)'
  BY <1>13 DEF RejectReport
<1>14. ASSUME NEW t \in Workers, NEW m \in Msgs, HandleRetrieve(t, m) PROVE ContentSafe(x)'
  BY <1>14 DEF HandleRetrieve
<1>15. ASSUME NEW t \in Workers, LoadParts(t) PROVE ContentSafe(x)'
  BY <1>15 DEF LoadParts
<1>16. ASSUME NEW t \in Workers, ServeRetrieve(t) PROVE ContentSafe(x)'
  BY <1>16 DEF ServeRetrieve
<1>17. ASSUME NEW t \in Workers, NEW u \in Msgs, NEW m \in Msgs, NEW pc \in {"mtUpdate", "mtRead"}, NEW st \in Status,
             UEResponse(t, u, m, pc, st) PROVE ContentSafe(x)'
  BY <1>17 DEF UEResponse
<1>18. ASSUME NEW t \in Workers, ApplyUEResponse(t) PROVE ContentSafe(x)'
  BY <1>18 DEF ApplyUEResponse
<1>19. ASSUME NEW t \in Workers, ReportStatus(t) PROVE ContentSafe(x)'
  BY <1>19 DEF ReportStatus
<1>20. ASSUME NEW t \in Workers, NEW m \in Msgs, NEW st \in Status,
             ReceiptArrives(t, m, st) PROVE ContentSafe(x)'
  BY <1>20 DEF ReceiptArrives
<1>21. ASSUME NEW t \in Workers, ReceiptGet(t) PROVE ContentSafe(x)'
  <2>1. CASE HasRow(thr[t].m)
    BY <1>21, <2>1, SMTT(30) DEF ReceiptGet
  <2>2. CASE ~HasRow(thr[t].m)
    <3>1. Finish(t)
      BY <1>21, <2>2 DEF ReceiptGet
    <3> QED
      BY <1>21, <3>1 DEF ReceiptGet
  <2> QED
    BY <2>1, <2>2
<1>22. ASSUME NEW t \in Workers, ReceiptUpdate(t) PROVE ContentSafe(x)'
  BY <1>22 DEF ReceiptUpdate
<1>23. ASSUME NEW t \in Workers, NEW m \in Msgs, HandleCancel(t, m) PROVE ContentSafe(x)'
  BY <1>23 DEF HandleCancel
<1>24. ASSUME NEW t \in Workers, NEW m \in Msgs, HandleReplace(t, m) PROVE ContentSafe(x)'
  BY <1>24 DEF HandleReplace
<1>25. ASSUME NEW t \in Workers, ReplacePut(t) PROVE ContentSafe(x)'
  BY <1>25 DEF ReplacePut
<1>26. ASSUME NEW t \in Workers, UpdateMessageContent(t) PROVE ContentSafe(x)'
  BY <1>26 DEF UpdateMessageContent
<1>27. ASSUME NEW t \in Workers, NEW m \in Msgs, NEW st \in PatchStatus,
             AdminSetStatus(t, m, st) PROVE ContentSafe(x)'
  BY <1>27 DEF AdminSetStatus
<1>28. ASSUME NEW t \in Workers, NEW m \in Msgs, AdminDelete(t, m) PROVE ContentSafe(x)'
  BY <1>28 DEF AdminDelete
<1>29. ASSUME NEW t \in Workers, ApplyStatus(t) PROVE ContentSafe(x)'
  BY <1>29 DEF ApplyStatus
<1>30. ASSUME NEW t \in Workers, AdminDeleteRow(t) PROVE ContentSafe(x)'
  BY <1>30 DEF AdminDeleteRow
<1>31. ASSUME NEW t \in Workers, AdminDeleteContent(t) PROVE ContentSafe(x)'
  BY <1>31 DEF AdminDeleteContent
<1>32. ASSUME NEW t \in Workers, RepositoryFails(t) PROVE ContentSafe(x)'
  BY <1>32 DEF RepositoryFails
<1>33. ASSUME NEW m \in Msgs, NEW st \in Status, PeerReport(m, st) PROVE ContentSafe(x)'
  BY <1>33 DEF PeerReport
<1>34. ASSUME QueueList PROVE ContentSafe(x)'
  BY <1>34 DEF QueueList, NewestQueued
<1>35. ASSUME QueueNext PROVE ContentSafe(x)'
  BY <1>35 DEF QueueNext
<1>36. ASSUME SweepList PROVE ContentSafe(x)'
  BY <1>36 DEF SweepList, ExpiredRows
<1>37. ASSUME SweepMark PROVE ContentSafe(x)'
  BY <1>37 DEF SweepMark
<1>38. ASSUME SweepMarkFails PROVE ContentSafe(x)'
  BY <1>38 DEF SweepMarkFails
<1>39. ASSUME SweepReport PROVE ContentSafe(x)'
  BY <1>39 DEF SweepReport
<1>40. ASSUME SweepContent PROVE ContentSafe(x)'
  BY <1>40 DEF SweepContent
<1>41. ASSUME SweepRow PROVE ContentSafe(x)'
  BY <1>41 DEF SweepRow
<1>42. ASSUME SweepRowFails PROVE ContentSafe(x)'
  BY <1>42 DEF SweepRowFails
<1>43. ASSUME NEW m \in Msgs, Expire(m) PROVE ContentSafe(x)'
  BY <1>43 DEF Expire
<1>44. ASSUME Crash PROVE ContentSafe(x)'
  BY <1>44 DEF Crash
<1>45. ASSUME UNCHANGED vars PROVE ContentSafe(x)'
  BY <1>45
<1> HIDE DEF ContentSafe, vars
<1>46. QED
  BY ActionCases, <1>1, <1>2, <1>3, <1>4, <1>5, <1>6, <1>7, <1>8, <1>9, <1>10, <1>11, <1>12,
     <1>13, <1>14, <1>15, <1>16, <1>17, <1>18, <1>19, <1>20, <1>21, <1>22, <1>23,
     <1>24, <1>25, <1>26, <1>27, <1>28, <1>29, <1>30, <1>31, <1>32, <1>33, <1>34,
     <1>35, <1>36, <1>37, <1>38, <1>39, <1>40, <1>41, <1>42, <1>43, <1>44, <1>45

(* No step leaves a payload behind unrecorded: whoever deletes the row goes *)
(* on to the payload, or has dealt with it.                                *)
LEMMA OrphanStep == OrphanInv /\ [Next]_vars => OrphanInv'
<1> SUFFICES ASSUME OrphanInv, [Next]_vars, NEW x \in ServerIds
             PROVE  OrphanSafe(x)'
  BY TypeStep, FreshStep DEF OrphanInv
<1>a. /\ x \in Msgs /\ Private(x) /\ OrphanSafe(x) /\ NoMsg \notin Msgs
      /\ thr \in [Threads -> ThreadState] /\ BusyHasMessage
      /\ row \in [Msgs -> Status \cup {NoRow}] /\ content \subseteq Msgs /\ leaked \subseteq Msgs
      /\ slist \subseteq Msgs \X BOOLEAN
  BY ThreadsDistinct DEF FreshIsPrivate, ServerIds, TypeInv, TypeOK, OrphanInv
<1>b. /\ Sweeper \in Threads /\ Dispatcher \in Threads /\ Workers \subseteq Threads
  BY DEF Threads
<1> USE <1>a, <1>b
    DEF Private, Untouched, Ingest, OrphanSafe, PathIsKnown, SweptIsEmpty, Accounted, Stored,
        BusyHasMessage, At, Free, Goto, Finish, Begin, HasRow, UpdateMessageStatus, Idle,
        ThreadState, NoRow, db, env, history, lists, vars
<1>1. ASSUME NEW t \in Workers, NEW m \in Msgs, Submit(t, m) PROVE OrphanSafe(x)'
  BY <1>1 DEF Submit, FirstStep
<1>2. ASSUME NEW t \in Workers, PutContent(t) PROVE OrphanSafe(x)'
  BY <1>2 DEF PutContent
<1>3. ASSUME NEW t \in Workers, PersistLocalContent(t) PROVE OrphanSafe(x)'
  BY <1>3 DEF PersistLocalContent
<1>4. ASSUME NEW t \in Workers, SubmitFails(t) PROVE OrphanSafe(x)'
  BY <1>4 DEF SubmitFails
<1>5. ASSUME NEW t \in Workers, CreateMessage(t) PROVE OrphanSafe(x)'
  <2>1. AfterCreate(thr[t].m) \in {"push", "rejectReport", "relay", "idle"}
    BY <1>5, AfterCreateIsPC DEF CreateMessage
  <2>2. Finish(t) \/ Goto(t, AfterCreate(thr[t].m))
    BY <1>5 DEF CreateMessage
  <2>3. CASE thr[t].m = x
    <3>1. /\ row'[x] # NoRow /\ leaked' = leaked /\ content' = content /\ slist' = slist
          /\ path' = IF Stored(x) THEN path \cup {x} ELSE path \ {x}
      BY <1>5, <2>3, InitialStatusIsStatus DEF CreateMessage, Status
    <3>2. \A u \in Threads : thr'[u].m = x =>
             thr'[u].pc \notin {"admRow", "sweepReport", "sweepContent", "sweepRow", "put", "persist",
                              "replaceRow"}
      BY <1>5, <2>1, <2>2, <2>3 DEF CreateMessage
    <3> QED
      BY <1>5, <2>3, <3>1, <3>2
  <2>4. CASE thr[t].m # x
    BY <1>5, <2>1, <2>2, <2>4, SMTT(30) DEF CreateMessage
  <2> QED
    BY <2>3, <2>4
<1>6. ASSUME NEW t \in Threads, PushRecipient(t) PROVE OrphanSafe(x)'
  BY <1>6, SMTT(30) DEF PushRecipient
<1>7. ASSUME NEW t \in Threads, PushFails(t) PROVE OrphanSafe(x)'
  <2>1. Goto(t, "markUnreachable") \/ Finish(t)
    BY <1>7 DEF PushFails, NotificationError
  <2>2. CASE Goto(t, "markUnreachable")
    BY <1>7, <2>2 DEF PushFails
  <2>3. CASE Finish(t)
    BY <1>7, <2>3 DEF PushFails
  <2> QED
    BY <2>1, <2>2, <2>3
<1>8. ASSUME NEW t \in Threads, MarkDelivering(t) PROVE OrphanSafe(x)'
  BY <1>8 DEF MarkDelivering
<1>9. ASSUME NEW t \in Threads, MarkDeliveringFails(t) PROVE OrphanSafe(x)'
  <2>1. Goto(t, "markUnreachable") \/ Finish(t)
    BY <1>9 DEF MarkDeliveringFails, NotificationError
  <2>2. CASE Goto(t, "markUnreachable")
    BY <1>9, <2>2 DEF MarkDeliveringFails
  <2>3. CASE Finish(t)
    BY <1>9, <2>3 DEF MarkDeliveringFails
  <2> QED
    BY <2>1, <2>2, <2>3
<1>10. ASSUME NEW t \in Workers, RelaySucceeds(t) PROVE OrphanSafe(x)'
  BY <1>10 DEF RelaySucceeds
<1>11. ASSUME NEW t \in Workers, RelayFails(t) PROVE OrphanSafe(x)'
  BY <1>11 DEF RelayFails
<1>12. ASSUME NEW t \in Workers, MarkUnreachable(t) PROVE OrphanSafe(x)'
  BY <1>12 DEF MarkUnreachable
<1>13. ASSUME NEW t \in Workers, RejectReport(t) PROVE OrphanSafe(x)'
  BY <1>13 DEF RejectReport
<1>14. ASSUME NEW t \in Workers, NEW m \in Msgs, HandleRetrieve(t, m) PROVE OrphanSafe(x)'
  BY <1>14 DEF HandleRetrieve
<1>15. ASSUME NEW t \in Workers, LoadParts(t) PROVE OrphanSafe(x)'
  <2>1. Goto(t, "serve") \/ Finish(t)
    BY <1>15 DEF LoadParts
  <2>2. CASE Goto(t, "serve")
    BY <1>15, <2>2 DEF LoadParts
  <2>3. CASE Finish(t)
    BY <1>15, <2>3 DEF LoadParts
  <2> QED
    BY <2>1, <2>2, <2>3
<1>16. ASSUME NEW t \in Workers, ServeRetrieve(t) PROVE OrphanSafe(x)'
  BY <1>16 DEF ServeRetrieve
<1>17. ASSUME NEW t \in Workers, NEW u \in Msgs, NEW m \in Msgs, NEW pc \in {"mtUpdate", "mtRead"}, NEW st \in Status,
             UEResponse(t, u, m, pc, st) PROVE OrphanSafe(x)'
  BY <1>17 DEF UEResponse
<1>18. ASSUME NEW t \in Workers, ApplyUEResponse(t) PROVE OrphanSafe(x)'
  <2>1. Goto(t, "mtReport") \/ Finish(t)
    BY <1>18 DEF ApplyUEResponse, Status
  <2>2. CASE Goto(t, "mtReport")
    BY <1>18, <2>2, SMTT(30) DEF ApplyUEResponse, Status
  <2>3. CASE Finish(t)
    BY <1>18, <2>3 DEF ApplyUEResponse, Status
  <2> QED
    BY <2>1, <2>2, <2>3
<1>19. ASSUME NEW t \in Workers, ReportStatus(t) PROVE OrphanSafe(x)'
  BY <1>19 DEF ReportStatus
<1>20. ASSUME NEW t \in Workers, NEW m \in Msgs, NEW st \in Status,
             ReceiptArrives(t, m, st) PROVE OrphanSafe(x)'
  BY <1>20 DEF ReceiptArrives
<1>21. ASSUME NEW t \in Workers, ReceiptGet(t) PROVE OrphanSafe(x)'
  <2>1. CASE HasRow(thr[t].m)
    BY <1>21, <2>1, SMTT(30) DEF ReceiptGet
  <2>2. CASE ~HasRow(thr[t].m)
    <3>1. Finish(t)
      BY <1>21, <2>2 DEF ReceiptGet
    <3> QED
      BY <1>21, <3>1 DEF ReceiptGet
  <2> QED
    BY <2>1, <2>2
<1>22. ASSUME NEW t \in Workers, ReceiptUpdate(t) PROVE OrphanSafe(x)'
  <2>1. Goto(t, "mtReport") \/ Finish(t)
    BY <1>22 DEF ReceiptUpdate, Status
  <2>2. CASE Goto(t, "mtReport")
    BY <1>22, <2>2 DEF ReceiptUpdate, Status
  <2>3. CASE Finish(t)
    BY <1>22, <2>3 DEF ReceiptUpdate, Status
  <2> QED
    BY <2>1, <2>2, <2>3
<1>23. ASSUME NEW t \in Workers, NEW m \in Msgs, HandleCancel(t, m) PROVE OrphanSafe(x)'
  BY <1>23 DEF HandleCancel
<1>24. ASSUME NEW t \in Workers, NEW m \in Msgs, HandleReplace(t, m) PROVE OrphanSafe(x)'
  BY <1>24 DEF HandleReplace
<1>25. ASSUME NEW t \in Workers, ReplacePut(t) PROVE OrphanSafe(x)'
  <2>1. /\ At(t, "replacePut") /\ Goto(t, "replaceRow")
        /\ UNCHANGED <<row, path, slist>>
        /\ content' = content \cup {thr[t].m}
        /\ leaked' = leaked \cup {m \in {thr[t].m} : MissedByDeletion(m)}
    BY <1>25 DEF ReplacePut
  <2>2. CASE thr[t].m # x
    <3>1. (x \in content' <=> x \in content) /\ (x \in leaked' <=> x \in leaked)
      BY <2>1, <2>2
    <3>2. \A u \in Threads : thr[u].m = x \/ thr'[u].m = x => thr'[u] = thr[u]
      BY <2>1, <2>2
    <3> QED
      BY <2>1, <3>1, <3>2
  <2>3. CASE thr[t].m = x
    <3>1. MissedByDeletion(x) => x \in leaked'
      BY <2>1, <2>3
    <3>2. PathIsKnown(x)'
      BY <2>1, <2>3, <3>1 DEF MissedByDeletion
    <3>3. SweptIsEmpty(x)'
      <4> SUFFICES ASSUME NEW u \in Threads, thr'[u].pc = "sweepRow", thr'[u].m = x
                   PROVE  u = Sweeper /\ x \in leaked'
        OBVIOUS
      <4>1. u # t /\ thr[u].pc = "sweepRow" /\ thr[u].m = x
        BY <2>1
      <4>2. u = Sweeper
        BY <4>1
      <4> QED
        BY <3>1, <4>1, <4>2 DEF MissedByDeletion
    <3>4. Accounted(x)'
      BY <2>1, <2>3, <3>1 DEF MissedByDeletion
    <3> QED
      BY <3>2, <3>3, <3>4
  <2> QED
    BY <2>2, <2>3
<1>26. ASSUME NEW t \in Workers, UpdateMessageContent(t) PROVE OrphanSafe(x)'
  BY <1>26 DEF UpdateMessageContent
<1>27. ASSUME NEW t \in Workers, NEW m \in Msgs, NEW st \in PatchStatus,
             AdminSetStatus(t, m, st) PROVE OrphanSafe(x)'
  BY <1>27 DEF AdminSetStatus
<1>28. ASSUME NEW t \in Workers, NEW m \in Msgs, AdminDelete(t, m) PROVE OrphanSafe(x)'
  BY <1>28 DEF AdminDelete
<1>29. ASSUME NEW t \in Workers, ApplyStatus(t) PROVE OrphanSafe(x)'
  BY <1>29 DEF ApplyStatus, Status
<1>30. ASSUME NEW t \in Workers, AdminDeleteRow(t) PROVE OrphanSafe(x)'
  BY <1>30 DEF AdminDeleteRow
<1>31. ASSUME NEW t \in Workers, AdminDeleteContent(t) PROVE OrphanSafe(x)'
  BY <1>31 DEF AdminDeleteContent
<1>32. ASSUME NEW t \in Workers, RepositoryFails(t) PROVE OrphanSafe(x)'
  BY <1>32 DEF RepositoryFails
<1>33. ASSUME NEW m \in Msgs, NEW st \in Status, PeerReport(m, st) PROVE OrphanSafe(x)'
  BY <1>33 DEF PeerReport
<1>34. ASSUME QueueList PROVE OrphanSafe(x)'
  BY <1>34 DEF QueueList, NewestQueued
<1>35. ASSUME QueueNext PROVE OrphanSafe(x)'
  BY <1>35 DEF QueueNext
<1>36. ASSUME SweepList PROVE OrphanSafe(x)'
  BY <1>36 DEF SweepList, ExpiredRows
<1>37. ASSUME SweepMark PROVE OrphanSafe(x)'
  <2> PICK e \in slist :
             /\ thr[Sweeper].pc = "idle" /\ slist' = slist \ {e}
             /\ UpdateMessageStatus(e[1], "Expired")
             /\ Begin(Sweeper, IF e[1] \in AskReport THEN "sweepReport" ELSE "sweepContent",
                      e[1], "Expired", e[2])
             /\ UNCHANGED <<path, recv, content, env, history, leaked, qlist>>
    BY <1>37 DEF SweepMark
  <2>1. e[1] \in Msgs /\ e[2] \in BOOLEAN /\ e = <<e[1], e[2]>>
    OBVIOUS
  <2>2. CASE e[1] = x
    <3>1. PathIsKnown(x)'
      BY <2>1, <2>2
    <3>2. SweptIsEmpty(x)'
      BY <2>1, <2>2
    <3>3. Accounted(x)'
      BY <2>1, <2>2
    <3> QED
      BY <3>1, <3>2, <3>3
  <2>3. CASE e[1] # x
    BY <2>1, <2>3
  <2> QED
    BY <2>2, <2>3
<1>38. ASSUME SweepMarkFails PROVE OrphanSafe(x)'
  BY <1>38 DEF SweepMarkFails
<1>39. ASSUME SweepReport PROVE OrphanSafe(x)'
  BY <1>39 DEF SweepReport
<1>40. ASSUME SweepContent PROVE OrphanSafe(x)'
  BY <1>40 DEF SweepContent
<1>41. ASSUME SweepRow PROVE OrphanSafe(x)'
  BY <1>41 DEF SweepRow
<1>42. ASSUME SweepRowFails PROVE OrphanSafe(x)'
  BY <1>42 DEF SweepRowFails
<1>43. ASSUME NEW m \in Msgs, Expire(m) PROVE OrphanSafe(x)'
  BY <1>43 DEF Expire
<1>44. ASSUME Crash PROVE OrphanSafe(x)'
  BY <1>44 DEF Crash
<1>45. ASSUME UNCHANGED vars PROVE OrphanSafe(x)'
  BY <1>45
<1> HIDE DEF OrphanSafe, vars
<1>46. QED
  BY ActionCases, <1>1, <1>2, <1>3, <1>4, <1>5, <1>6, <1>7, <1>8, <1>9, <1>10, <1>11, <1>12,
     <1>13, <1>14, <1>15, <1>16, <1>17, <1>18, <1>19, <1>20, <1>21, <1>22, <1>23,
     <1>24, <1>25, <1>26, <1>27, <1>28, <1>29, <1>30, <1>31, <1>32, <1>33, <1>34,
     <1>35, <1>36, <1>37, <1>38, <1>39, <1>40, <1>41, <1>42, <1>43, <1>44, <1>45

(* No row starts its life Delivered. *)
LEMMA InitialIsNotDelivered == \A m \in Msgs : InitialStatus(m) # "Delivered"
  BY DEF InitialStatus

(* A Delivered about to be written or reported stays about a message that  *)
(* was reported on.                                                        *)
LEMMA DeliveredStep ==
    ASSUME TxnsDistinct, DeliveredInv, [Next]_vars
    PROVE  DeliveredInv'
<1> SUFFICES ASSUME NEW x \in Msgs PROVE DeliveredSafe(x)'
  BY TypeStep DEF DeliveredInv
<1>a. /\ DeliveredSafe(x) /\ NoMsg \notin Msgs
      /\ thr \in [Threads -> ThreadState] /\ BusyHasMessage
      /\ row \in [Msgs -> Status \cup {NoRow}]
  BY ThreadsDistinct DEF TypeInv, TypeOK, DeliveredInv
<1>b. Sweeper \in Threads /\ Dispatcher \in Threads /\ Workers \subseteq Threads
  BY DEF Threads
<1> USE <1>a, <1>b
    DEF DeliveredSafe, BusyHasMessage, At, Free, Goto, Finish, Begin, HasRow,
        UpdateMessageStatus, SendDeliveryReport, Idle, ThreadState, NoRow, db, env, history, lists, vars
<1>1. ASSUME NEW t \in Workers, NEW m \in Msgs, Submit(t, m) PROVE DeliveredSafe(x)'
  BY <1>1 DEF Submit, FirstStep
<1>2. ASSUME NEW t \in Workers, PutContent(t) PROVE DeliveredSafe(x)'
  BY <1>2 DEF PutContent
<1>3. ASSUME NEW t \in Workers, PersistLocalContent(t) PROVE DeliveredSafe(x)'
  BY <1>3 DEF PersistLocalContent
<1>4. ASSUME NEW t \in Workers, SubmitFails(t) PROVE DeliveredSafe(x)'
  BY <1>4 DEF SubmitFails
<1>5. ASSUME NEW t \in Workers, CreateMessage(t) PROVE DeliveredSafe(x)'
  <2>1. AfterCreate(thr[t].m) \in {"push", "rejectReport", "relay", "idle"}
    BY <1>5, AfterCreateIsPC DEF CreateMessage
  <2>2. Finish(t) \/ Goto(t, AfterCreate(thr[t].m))
    BY <1>5 DEF CreateMessage
  <2>3. CASE thr[t].m = x
    BY <1>5, <2>1, <2>2, <2>3, InitialIsNotDelivered DEF CreateMessage
  <2>4. CASE thr[t].m # x
    BY <1>5, <2>1, <2>2, <2>4 DEF CreateMessage
  <2> QED
    BY <2>3, <2>4
<1>6. ASSUME NEW t \in Threads, PushRecipient(t) PROVE DeliveredSafe(x)'
  BY <1>6 DEF PushRecipient
<1>7. ASSUME NEW t \in Threads, PushFails(t) PROVE DeliveredSafe(x)'
  <2>1. Goto(t, "markUnreachable") \/ Finish(t)
    BY <1>7 DEF PushFails, NotificationError
  <2>2. CASE Goto(t, "markUnreachable")
    BY <1>7, <2>2 DEF PushFails
  <2>3. CASE Finish(t)
    BY <1>7, <2>3 DEF PushFails
  <2> QED
    BY <2>1, <2>2, <2>3
<1>8. ASSUME NEW t \in Threads, MarkDelivering(t) PROVE DeliveredSafe(x)'
  BY <1>8 DEF MarkDelivering
<1>9. ASSUME NEW t \in Threads, MarkDeliveringFails(t) PROVE DeliveredSafe(x)'
  <2>1. Goto(t, "markUnreachable") \/ Finish(t)
    BY <1>9 DEF MarkDeliveringFails, NotificationError
  <2>2. CASE Goto(t, "markUnreachable")
    BY <1>9, <2>2 DEF MarkDeliveringFails
  <2>3. CASE Finish(t)
    BY <1>9, <2>3 DEF MarkDeliveringFails
  <2> QED
    BY <2>1, <2>2, <2>3
<1>10. ASSUME NEW t \in Workers, RelaySucceeds(t) PROVE DeliveredSafe(x)'
  BY <1>10 DEF RelaySucceeds
<1>11. ASSUME NEW t \in Workers, RelayFails(t) PROVE DeliveredSafe(x)'
  BY <1>11 DEF RelayFails
<1>12. ASSUME NEW t \in Workers, MarkUnreachable(t) PROVE DeliveredSafe(x)'
  BY <1>12 DEF MarkUnreachable
<1>13. ASSUME NEW t \in Workers, RejectReport(t) PROVE DeliveredSafe(x)'
  BY <1>13 DEF RejectReport
<1>14. ASSUME NEW t \in Workers, NEW m \in Msgs,
             HandleRetrieve(t, m) PROVE DeliveredSafe(x)'
  BY <1>14 DEF HandleRetrieve
<1>15. ASSUME NEW t \in Workers, LoadParts(t) PROVE DeliveredSafe(x)'
  BY <1>15 DEF LoadParts
<1>16. ASSUME NEW t \in Workers, ServeRetrieve(t) PROVE DeliveredSafe(x)'
  BY <1>16 DEF ServeRetrieve
<1>17. ASSUME NEW t \in Workers, NEW u \in Msgs, NEW m \in Msgs, NEW pc \in {"mtUpdate", "mtRead"}, NEW st \in Status,
             Txn[m] = Txn[u], UEResponse(t, u, m, pc, st) PROVE DeliveredSafe(x)'
  BY <1>17 DEF UEResponse, TxnsDistinct
<1>18. ASSUME NEW t \in Workers, ApplyUEResponse(t) PROVE DeliveredSafe(x)'
  BY <1>18 DEF ApplyUEResponse
<1>19. ASSUME NEW t \in Workers, ReportStatus(t) PROVE DeliveredSafe(x)'
  BY <1>19 DEF ReportStatus
<1>20. ASSUME NEW t \in Workers, NEW m \in Msgs, NEW st \in Status,
             ReceiptArrives(t, m, st) PROVE DeliveredSafe(x)'
  BY <1>20 DEF ReceiptArrives
<1>21. ASSUME NEW t \in Workers, ReceiptGet(t) PROVE DeliveredSafe(x)'
  <2>1. CASE HasRow(thr[t].m)
    BY <1>21, <2>1 DEF ReceiptGet
  <2>2. CASE ~HasRow(thr[t].m)
    <3>1. Finish(t)
      BY <1>21, <2>2 DEF ReceiptGet
    <3> QED
      BY <1>21, <3>1 DEF ReceiptGet
  <2> QED
    BY <2>1, <2>2
<1>22. ASSUME NEW t \in Workers, ReceiptUpdate(t) PROVE DeliveredSafe(x)'
  BY <1>22 DEF ReceiptUpdate
<1>23. ASSUME NEW t \in Workers, NEW m \in Msgs, HandleCancel(t, m) PROVE DeliveredSafe(x)'
  BY <1>23 DEF HandleCancel
<1>24. ASSUME NEW t \in Workers, NEW m \in Msgs, HandleReplace(t, m) PROVE DeliveredSafe(x)'
  BY <1>24 DEF HandleReplace
<1>25. ASSUME NEW t \in Workers, ReplacePut(t) PROVE DeliveredSafe(x)'
  BY <1>25 DEF ReplacePut
<1>26. ASSUME NEW t \in Workers, UpdateMessageContent(t) PROVE DeliveredSafe(x)'
  BY <1>26 DEF UpdateMessageContent
<1>27. ASSUME NEW t \in Workers, NEW m \in Msgs, NEW st \in PatchStatus,
             AdminSetStatus(t, m, st) PROVE DeliveredSafe(x)'
  BY <1>27 DEF AdminSetStatus
<1>28. ASSUME NEW t \in Workers, NEW m \in Msgs, AdminDelete(t, m) PROVE DeliveredSafe(x)'
  BY <1>28 DEF AdminDelete
<1>29. ASSUME NEW t \in Workers, ApplyStatus(t) PROVE DeliveredSafe(x)'
  BY <1>29 DEF ApplyStatus
<1>30. ASSUME NEW t \in Workers, AdminDeleteRow(t) PROVE DeliveredSafe(x)'
  BY <1>30 DEF AdminDeleteRow
<1>31. ASSUME NEW t \in Workers, AdminDeleteContent(t) PROVE DeliveredSafe(x)'
  BY <1>31 DEF AdminDeleteContent
<1>32. ASSUME NEW t \in Workers, RepositoryFails(t) PROVE DeliveredSafe(x)'
  BY <1>32 DEF RepositoryFails
<1>33. ASSUME NEW m \in Msgs, NEW st \in Status, PeerReport(m, st) PROVE DeliveredSafe(x)'
  BY <1>33 DEF PeerReport
<1>34. ASSUME QueueList PROVE DeliveredSafe(x)'
  BY <1>34 DEF QueueList, NewestQueued
<1>35. ASSUME QueueNext PROVE DeliveredSafe(x)'
  BY <1>35 DEF QueueNext
<1>36. ASSUME SweepList PROVE DeliveredSafe(x)'
  BY <1>36 DEF SweepList, ExpiredRows
<1>37. ASSUME SweepMark PROVE DeliveredSafe(x)'
  BY <1>37 DEF SweepMark
<1>38. ASSUME SweepMarkFails PROVE DeliveredSafe(x)'
  BY <1>38 DEF SweepMarkFails
<1>39. ASSUME SweepReport PROVE DeliveredSafe(x)'
  BY <1>39 DEF SweepReport
<1>40. ASSUME SweepContent PROVE DeliveredSafe(x)'
  BY <1>40 DEF SweepContent
<1>41. ASSUME SweepRow PROVE DeliveredSafe(x)'
  BY <1>41 DEF SweepRow
<1>42. ASSUME SweepRowFails PROVE DeliveredSafe(x)'
  BY <1>42 DEF SweepRowFails
<1>43. ASSUME NEW m \in Msgs, Expire(m) PROVE DeliveredSafe(x)'
  BY <1>43 DEF Expire
<1>44. ASSUME Crash PROVE DeliveredSafe(x)'
  BY <1>44 DEF Crash
<1>45. ASSUME UNCHANGED vars PROVE DeliveredSafe(x)'
  BY <1>45
<1> HIDE DEF DeliveredSafe, vars
<1>46. QED
  BY ActionCases, <1>1, <1>2, <1>3, <1>4, <1>5, <1>6, <1>7, <1>8, <1>9, <1>10, <1>11, <1>12,
     <1>13, <1>14, <1>15, <1>16, <1>17, <1>18, <1>19, <1>20, <1>21, <1>22, <1>23,
     <1>24, <1>25, <1>26, <1>27, <1>28, <1>29, <1>30, <1>31, <1>32, <1>33, <1>34,
     <1>35, <1>36, <1>37, <1>38, <1>39, <1>40, <1>41, <1>42, <1>43, <1>44, <1>45

-----------------------------------------------------------------------------
(* The theorems.                                                           *)

(* Every variable keeps its type: threads work on real messages, rows hold *)
(* one of the seven statuses, whatever the handlers interleave to.         *)
THEOREM TypeCorrect == Spec => []TypeOK
<1>1. Init => TypeInv
  BY TypeInit
<1>2. TypeInv /\ [Next]_vars => TypeInv'
  BY TypeStep
<1>3. TypeInv => TypeOK
  BY DEF TypeInv
<1> QED
  BY <1>1, <1>2, <1>3, PTL DEF Spec

(* Initially nobody knows of any message. *)
LEMMA InitIsFresh == Init => FreshIsPrivate
  BY ThreadsDistinct DEF Init, FreshIsPrivate, ServerIds, Private, Untouched, Ingest, Idle

(* A message that has not expired can be retrieved, whatever deletes,      *)
(* replaces, sweeps and crashes happen.                                    *)
THEOREM UnexpiredContentKept == Spec => []UnexpiredRowHasContent
<1>1. Init => ContentInv
  <2> SUFFICES ASSUME Init PROVE ContentInv
    OBVIOUS
  <2>1. TypeInv /\ FreshIsPrivate
    BY TypeInit, InitIsFresh
  <2>2. \A m \in ServerIds : ContentSafe(m)
    BY DEF Init, ServerIds, ContentSafe, AboutToPoint, RemovesDeadOnly, At, HasRow, Idle
  <2> QED
    BY <2>1, <2>2 DEF ContentInv
<1>2. ContentInv /\ [Next]_vars => ContentInv'
  BY ContentStep
<1>3. ContentInv => UnexpiredRowHasContent
  BY DEF ContentInv, ContentSafe, UnexpiredRowHasContent
<1> QED
  BY <1>1, <1>2, <1>3, PTL DEF Spec

(* The sweeper deletes expired messages only, however old its list is. *)
THEOREM SweptIsExpired == Spec => SweepsOnlyExpired
<1>1. Init => ContentInv
  <2> SUFFICES ASSUME Init PROVE ContentInv
    OBVIOUS
  <2>1. TypeInv /\ FreshIsPrivate
    BY TypeInit, InitIsFresh
  <2>2. \A m \in ServerIds : ContentSafe(m)
    BY DEF Init, ServerIds, ContentSafe, AboutToPoint, RemovesDeadOnly, At, HasRow, Idle
  <2> QED
    BY <2>1, <2>2 DEF ContentInv
<1>2. ContentInv /\ [Next]_vars => ContentInv'
  BY ContentStep
<1>3. ContentInv =>
        \A m \in ServerIds :
            /\ thr[Sweeper].m = m /\ thr[Sweeper].pc \in {"sweepContent", "sweepRow"}
            /\ (HasRow(m) /\ row'[m] = NoRow) \/ (m \in content /\ m \notin content')
            => m \in expired
  BY DEF ContentInv, ContentSafe, RemovesDeadOnly, Threads
<1> QED
  BY <1>1, <1>2, <1>3, PTL DEF Spec, SweepsOnlyExpired

(* No payload is left behind without a reason, for any number of handlers. *)
THEOREM OrphansAccounted == Spec => []OrphanIsAccountedFor
<1>1. Init => OrphanInv
  <2> SUFFICES ASSUME Init PROVE OrphanInv
    OBVIOUS
  <2>1. TypeInv /\ FreshIsPrivate
    BY TypeInit, InitIsFresh
  <2>2. \A m \in ServerIds : OrphanSafe(m)
    BY DEF Init, ServerIds, OrphanSafe, PathIsKnown, SweptIsEmpty, Accounted, At, HasRow, Idle
  <2> QED
    BY <2>1, <2>2 DEF OrphanInv
<1>2. OrphanInv /\ [Next]_vars => OrphanInv'
  BY OrphanStep
<1>3. OrphanInv => OrphanIsAccountedFor
  BY DEF OrphanInv, OrphanSafe, Accounted, OrphanIsAccountedFor
<1> QED
  BY <1>1, <1>2, <1>3, PTL DEF Spec

(* As long as no two messages carry one transaction identifier, no answer  *)
(* of a UE marks or reports another message delivered.                     *)
THEOREM DeliveredIsReported ==
    ASSUME TxnsDistinct
    PROVE  Spec => []DeliveredIsAboutThisMessage
<1>1. Init => DeliveredInv
  <2> SUFFICES ASSUME Init PROVE DeliveredInv
    OBVIOUS
  <2>1. \A m \in Msgs : DeliveredSafe(m)
    BY DEF Init, DeliveredSafe, Idle, NoRow
  <2> QED
    BY <2>1, TypeInit DEF DeliveredInv
<1>2. DeliveredInv /\ [Next]_vars => DeliveredInv'
  BY DeliveredStep
<1>3. DeliveredInv => DeliveredIsAboutThisMessage
  BY DEF DeliveredInv, DeliveredSafe, DeliveredIsAboutThisMessage
<1> QED
  BY <1>1, <1>2, <1>3, PTL DEF Spec

=============================================================================
