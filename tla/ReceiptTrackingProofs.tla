----------------------- MODULE ReceiptTrackingProofs -----------------------
(***************************************************************************)
(* Proofs about ReceiptTracking, for any number of messages, recipients,   *)
(* segments, upstreams, pushers, handlers and crashes.                     *)
(***************************************************************************)
EXTENDS ReceiptTracking, FiniteSetTheorems, TLAPS

(* A busy goroutine works on a message, and knows what it submitted.       *)
PusherIsBusy ==
    \A p \in Pushers :
        /\ pusher[p].pc # "idle" => pusher[p].m \in Msgs
        /\ pusher[p].pc \in {"submit", "track"} => pusher[p].up \in Upstreams
        /\ pusher[p].pc = "track" => pusher[p].id \in Ids

HandlerIsBusy == \A h \in Handlers : handler[h].pc # "idle" => handler[h].m \in Msgs

TypeInv == TypeOK /\ PusherIsBusy /\ HandlerIsBusy

(* A row of smpp_submissions is about the segment the SMSC accepted under  *)
(* its key, and its state is one the SMSC reported.                        *)
SubmissionIsTrue(k) ==
    sub[k] # NoSub =>
        /\ sent[k] = [m |-> sub[k].m, r |-> sub[k].r, s |-> sub[k].s]
        /\ sub[k].count = SegmentCount
        /\ sub[k].state \in {"Delivered", "Failed"} => outcome[k] = sub[k].state

TrackedIsSent(p) ==
    pusher[p].pc = "track" =>
        sent[Key(p)] = [m |-> pusher[p].m, r |-> pusher[p].r, s |-> pusher[p].s]

TableInv ==
    /\ TypeInv
    /\ \A k \in Keys : SubmissionIsTrue(k)
    /\ \A p \in Pushers : TrackedIsSent(p)

(* What the SMSCs did justifies status st of message m.                    *)
SomeSegmentFailed(m) ==
    \E k \in Keys : sent[k] # NoSub /\ sent[k].m = m /\ outcome[k] = "Failed"

Justified(m, st) ==
    /\ st = "Delivered" => SomeRecipientHasAll(m)
    /\ st = "Unreachable" => SomeSegmentFailed(m)

StatusInv ==
    /\ TableInv
    /\ \A m \in Msgs : Justified(m, row[m])
    /\ \A h \in Handlers :
          handler[h].pc \in {"get", "update"} => Justified(handler[h].m, handler[h].st)

(* A handler that will not report knows of one that did, or will.          *)
ToldInv ==
    /\ TypeInv
    /\ FailureIsTold
    /\ \A h \in Handlers :
          /\ handler[h].pc = "update" /\ handler[h].st = "Unreachable" /\ ~handler[h].first
          => Told(handler[h].m)

-----------------------------------------------------------------------------
(* Every step is one of these. *)
LEMMA ActionCases ==
    ASSUME [Next]_vars
    PROVE  \/ \E p \in Pushers, m \in Msgs : StartPush(p, m)
           \/ \E p \in Pushers :
                 \/ ChooseUpstream(p) \/ SubmitSegment(p) \/ SubmitUntracked(p)
                 \/ SubmitFails(p) \/ CreateSMPPSubmission(p) \/ MarkDelivering(p)
                 \/ PusherFails(p)
           \/ \E h \in Handlers :
                 \/ TakeReceipt(h) \/ ListSMPPSubmissions(h) \/ GetMessage(h)
                 \/ UpdateMessageStatus(h) \/ SendDeliveryReport(h) \/ HandlerFails(h)
           \/ \E k \in Keys, res \in {"Delivered", "Failed"} : Conclude(k, res)
           \/ \E m \in Msgs : Requeue(m)
           \/ Crash
           \/ UNCHANGED vars
  BY DEF Next, PusherStep, HandlerStep

(* The initial state is well-typed. *)
LEMMA TypeInit == Init => TypeInv
  BY ConstantsOK DEF Init, TypeInv, TypeOK, PusherIsBusy, HandlerIsBusy, IdlePusher,
        IdleHandler, PusherState, HandlerState, Status, SubmissionState, Segments

(* A pusher that moves on keeps its type. *)
LEMMA MoveTyped ==
    ASSUME TypeInv, NEW p \in Pushers, NEW pc \in {"choose", "submit", "track", "mark"},
           NEW r \in 1 .. Recipients, NEW s \in Segments,
           NEW up \in Upstreams \cup {NoUpstream}, NEW id \in Ids \cup {NoId},
           pusher[p].pc # "idle",
           pc \in {"submit", "track"} => up \in Upstreams,
           pc = "track" => id \in Ids,
           Move(p, pc, r, s, up, id)
    PROVE  pusher' \in [Pushers -> PusherState] /\ PusherIsBusy'
  BY DEF TypeInv, TypeOK, PusherIsBusy, PusherState, Move

(* A push that ends leaves a typed pusher. *)
LEMMA EndTyped ==
    ASSUME TypeInv, NEW p \in Pushers, EndPush(p)
    PROVE  pusher' \in [Pushers -> PusherState] /\ PusherIsBusy'
  BY ConstantsOK DEF TypeInv, TypeOK, PusherIsBusy, PusherState, EndPush, IdlePusher, Segments

(* The next segment and the next recipient are within their bounds. *)
LEMMA AdvanceTyped ==
    ASSUME TypeInv, NEW p \in Pushers, pusher[p].pc \in {"submit", "track"}, Advance(p)
    PROVE  pusher' \in [Pushers -> PusherState] /\ PusherIsBusy'
<1> DEFINE s == pusher[p].s
           r == pusher[p].r
<1>0. s \in Segments /\ r \in 1 .. Recipients /\ pusher[p].up \in Upstreams
  BY DEF TypeInv, TypeOK, PusherIsBusy, PusherState
<1>1. CASE s + 1 < SegmentCount /\ Move(p, "submit", r, s + 1, pusher[p].up, NoId)
  <2>1. s + 1 \in Segments
    BY <1>0, <1>1, ConstantsOK DEF Segments
  <2> QED
    BY <1>0, <1>1, <2>1, MoveTyped
<1>2. CASE r < Recipients /\ Move(p, "choose", r + 1, 0, NoUpstream, NoId)
  <2>1. r + 1 \in 1 .. Recipients /\ 0 \in Segments
    BY <1>0, <1>2, ConstantsOK DEF Segments
  <2> QED
    BY <1>0, <1>2, <2>1, MoveTyped
<1>3. CASE Move(p, "mark", r, s, NoUpstream, NoId)
  BY <1>0, <1>3, MoveTyped
<1> QED
  BY <1>1, <1>2, <1>3 DEF Advance

(* A handler that moves on keeps its type. *)
LEMMA HoldTyped ==
    ASSUME TypeInv, NEW h \in Handlers, NEW pc \in {"list", "get", "update", "report"},
           NEW m \in Msgs, NEW st \in Status, NEW first \in BOOLEAN,
           Hold(h, pc, m, st, first)
    PROVE  handler' \in [Handlers -> HandlerState] /\ HandlerIsBusy'
  BY DEF TypeInv, TypeOK, HandlerIsBusy, HandlerState, Hold

(* A handler that ends is typed. *)
LEMMA EndReceiptTyped ==
    ASSUME TypeInv, NEW h \in Handlers, EndReceipt(h)
    PROVE  handler' \in [Handlers -> HandlerState] /\ HandlerIsBusy'
  BY ConstantsOK DEF TypeInv, TypeOK, HandlerIsBusy, HandlerState, EndReceipt, IdleHandler, Status

(* Every step keeps the types. *)
LEMMA TypeStep == TypeInv /\ [Next]_vars => TypeInv'
<1> SUFFICES ASSUME TypeInv, [Next]_vars PROVE TypeInv'
  OBVIOUS
<1>p. \A p \in Pushers : /\ pusher[p] \in PusherState
                         /\ pusher[p].pc # "idle" => pusher[p].m \in Msgs
                         /\ pusher[p].pc \in {"submit", "track"} => pusher[p].up \in Upstreams
                         /\ pusher[p].pc = "track" => Key(p) \in Keys
  BY DEF TypeInv, TypeOK, PusherIsBusy, Key, Keys
<1>h. \A h \in Handlers : /\ handler[h] \in HandlerState
                          /\ handler[h].pc # "idle" => handler[h].m \in Msgs
  BY DEF TypeInv, TypeOK, HandlerIsBusy
<1> USE DEF table, smsc, bounds, history, vars
<1>1. ASSUME NEW p \in Pushers, NEW m \in Msgs, StartPush(p, m) PROVE TypeInv'
  <2>1. pusher' \in [Pushers -> PusherState] /\ PusherIsBusy'
    BY <1>1, ConstantsOK DEF StartPush, TypeInv, TypeOK, PusherIsBusy, HandlerIsBusy, PusherState, Segments
  <2> QED
    BY <1>1, <2>1 DEF StartPush, TypeInv, TypeOK, PusherIsBusy, HandlerIsBusy
<1>2. ASSUME NEW p \in Pushers, ChooseUpstream(p) PROVE TypeInv'
  <2>1. pusher' \in [Pushers -> PusherState] /\ PusherIsBusy'
    <3>1. CASE EndPush(p)
      BY <3>1, EndTyped
    <3>2. CASE \E up \in Upstreams : Move(p, "submit", pusher[p].r, 0, up, NoId)
      <4>1. pusher[p].r \in 1 .. Recipients /\ 0 \in Segments
        BY <1>p, ConstantsOK DEF PusherState, Segments
      <4> QED
        BY <1>2, <3>2, <4>1, MoveTyped DEF ChooseUpstream
    <3> QED
      BY <1>2, <3>1, <3>2 DEF ChooseUpstream
  <2> QED
    BY <1>2, <2>1 DEF ChooseUpstream, TypeInv, TypeOK, PusherIsBusy, HandlerIsBusy
<1>3. ASSUME NEW p \in Pushers, SubmitSegment(p) PROVE TypeInv'
  <2> PICK id \in Ids :
            /\ Accept(p, <<pusher[p].up, id>>)
            /\ Move(p, "track", pusher[p].r, pusher[p].s, pusher[p].up, id)
    BY <1>3 DEF SubmitSegment
  <2>0. pusher[p].pc = "submit"
    BY <1>3 DEF SubmitSegment
  <2>1. pusher' \in [Pushers -> PusherState] /\ PusherIsBusy'
    <3>1. pusher[p].r \in 1 .. Recipients /\ pusher[p].s \in Segments /\ pusher[p].up \in Upstreams
      BY <1>p, <2>0 DEF PusherState
    <3> QED
      BY <2>0, <3>1, MoveTyped
  <2>2. sent' \in [Keys -> Segment \cup {NoSub}]
    BY <1>p, <2>0 DEF Accept, PusherState, Segment, TypeInv, TypeOK, PusherIsBusy, HandlerIsBusy
  <2> QED
    BY <1>3, <2>1, <2>2 DEF SubmitSegment, TypeInv, TypeOK, PusherIsBusy, HandlerIsBusy
<1>4. ASSUME NEW p \in Pushers, SubmitUntracked(p) PROVE TypeInv'
  <2>1. pusher' \in [Pushers -> PusherState] /\ PusherIsBusy'
    BY <1>4, AdvanceTyped DEF SubmitUntracked
  <2> QED
    BY <1>4, <2>1 DEF SubmitUntracked, TypeInv, TypeOK, PusherIsBusy, HandlerIsBusy
<1>5. ASSUME NEW p \in Pushers, SubmitFails(p) PROVE TypeInv'
  <2>1. pusher' \in [Pushers -> PusherState] /\ PusherIsBusy'
    BY <1>5, EndTyped DEF SubmitFails
  <2>2. sent' \in [Keys -> Segment \cup {NoSub}]
    <3>1. CASE UNCHANGED sent
      BY <3>1 DEF TypeInv, TypeOK, PusherIsBusy, HandlerIsBusy
    <3>2. CASE \E id \in Ids : Accept(p, <<pusher[p].up, id>>)
      <4> PICK id \in Ids : Accept(p, <<pusher[p].up, id>>)
        BY <3>2
      <4>1. /\ pusher[p] \in PusherState /\ pusher[p].m \in Msgs
            /\ <<pusher[p].up, id>> \in Keys
        BY <1>5, <1>p DEF SubmitFails, Keys
      <4> QED
        BY <4>1 DEF Accept, PusherState, Segment, TypeInv, TypeOK, PusherIsBusy, HandlerIsBusy
    <3> QED
      BY <1>5, <3>1, <3>2 DEF SubmitFails
  <2> QED
    BY <1>5, <2>1, <2>2 DEF SubmitFails, TypeInv, TypeOK, PusherIsBusy, HandlerIsBusy
<1>6. ASSUME NEW p \in Pushers, CreateSMPPSubmission(p) PROVE TypeInv'
  <2>1. pusher' \in [Pushers -> PusherState] /\ PusherIsBusy'
    BY <1>6, AdvanceTyped DEF CreateSMPPSubmission
  <2>2. sub' \in [Keys -> Submission \cup {NoSub}]
    BY <1>6, <1>p, ConstantsOK
       DEF CreateSMPPSubmission, PusherState, Submission, SubmissionState, TypeInv, TypeOK, PusherIsBusy, HandlerIsBusy
  <2> QED
    BY <1>6, <2>1, <2>2 DEF CreateSMPPSubmission, TypeInv, TypeOK, PusherIsBusy, HandlerIsBusy
<1>7. ASSUME NEW p \in Pushers, MarkDelivering(p) PROVE TypeInv'
  <2>1. pusher' \in [Pushers -> PusherState] /\ PusherIsBusy'
    BY <1>7, EndTyped DEF MarkDelivering
  <2>2. row' \in [Msgs -> Status]
    BY <1>7 DEF MarkDelivering, Status, TypeInv, TypeOK, PusherIsBusy, HandlerIsBusy
  <2> QED
    BY <1>7, <2>1, <2>2 DEF MarkDelivering, TypeInv, TypeOK, PusherIsBusy, HandlerIsBusy
<1>8. ASSUME NEW p \in Pushers, PusherFails(p) PROVE TypeInv'
  <2>1. pusher' \in [Pushers -> PusherState] /\ PusherIsBusy'
    BY <1>8, EndTyped DEF PusherFails
  <2> QED
    BY <1>8, <2>1 DEF PusherFails, TypeInv, TypeOK, PusherIsBusy, HandlerIsBusy
<1>9. ASSUME NEW h \in Handlers, TakeReceipt(h) PROVE TypeInv'
  <2> PICK e \in Receipts : \E j \in Matching(e[1]) :
            /\ sub' = [sub EXCEPT ![j].state = MapReceiptStatus(e[2])]
            /\ Hold(h, "list", sub[j].m, "Queued", FALSE)
    BY <1>9 DEF TakeReceipt
  <2> PICK j \in Matching(e[1]) :
            /\ sub' = [sub EXCEPT ![j].state = MapReceiptStatus(e[2])]
            /\ Hold(h, "list", sub[j].m, "Queued", FALSE)
    OBVIOUS
  <2>1. j \in Keys /\ sub[j] \in Submission
    BY DEF Matching, TypeInv, TypeOK, PusherIsBusy, HandlerIsBusy
  <2>2. handler' \in [Handlers -> HandlerState] /\ HandlerIsBusy'
    BY <2>1, HoldTyped DEF Submission, Status
  <2>3. MapReceiptStatus(e[2]) \in SubmissionState
    BY DEF MapReceiptStatus, SubmissionState
  <2>4. sub' \in [Keys -> Submission \cup {NoSub}]
    BY <2>1, <2>3 DEF Submission, TypeInv, TypeOK, PusherIsBusy, HandlerIsBusy
  <2> QED
    BY <1>9, <2>2, <2>4 DEF TakeReceipt, TypeInv, TypeOK, PusherIsBusy, HandlerIsBusy
<1>10. ASSUME NEW h \in Handlers, ListSMPPSubmissions(h) PROVE TypeInv'
  <2>1. handler' \in [Handlers -> HandlerState] /\ HandlerIsBusy'
    <3>1. CASE EndReceipt(h)
      BY <3>1, EndReceiptTyped
    <3>2. CASE \E st \in Aggregate(handler[h].m) : Hold(h, "get", handler[h].m, st, FALSE)
      <4>1. Aggregate(handler[h].m) \subseteq Status
        BY DEF Aggregate, Status
      <4>2. handler[h].m \in Msgs
        BY <1>10, <1>h DEF ListSMPPSubmissions
      <4> QED
        BY <3>2, <4>1, <4>2, HoldTyped
    <3> QED
      BY <1>10, <3>1, <3>2 DEF ListSMPPSubmissions
  <2> QED
    BY <1>10, <2>1 DEF ListSMPPSubmissions, TypeInv, TypeOK, PusherIsBusy, HandlerIsBusy
<1>11. ASSUME NEW h \in Handlers, GetMessage(h) PROVE TypeInv'
  <2>1. handler' \in [Handlers -> HandlerState] /\ HandlerIsBusy'
    <3>1. handler[h].m \in Msgs /\ handler[h].st \in Status
      BY <1>11, <1>h DEF GetMessage, HandlerState
    <3>2. (row[handler[h].m] # "Unreachable") \in BOOLEAN
      OBVIOUS
    <3> QED
      BY <1>11, <3>1, <3>2, HoldTyped DEF GetMessage
  <2> QED
    BY <1>11, <2>1 DEF GetMessage, TypeInv, TypeOK, PusherIsBusy, HandlerIsBusy
<1>12. ASSUME NEW h \in Handlers, UpdateMessageStatus(h) PROVE TypeInv'
  <2>0. handler[h].m \in Msgs /\ handler[h].st \in Status
    BY <1>12, <1>h DEF UpdateMessageStatus, HandlerState
  <2>1. handler' \in [Handlers -> HandlerState] /\ HandlerIsBusy'
    <3>1. CASE EndReceipt(h)
      BY <3>1, EndReceiptTyped
    <3>2. CASE Hold(h, "report", handler[h].m, "Unreachable", TRUE)
      BY <3>2, <2>0, HoldTyped DEF Status
    <3> QED
      BY <1>12, <3>1, <3>2 DEF UpdateMessageStatus
  <2>2. row' \in [Msgs -> Status]
    BY <1>12, <2>0 DEF UpdateMessageStatus, TypeInv, TypeOK, PusherIsBusy, HandlerIsBusy
  <2> QED
    BY <1>12, <2>1, <2>2 DEF UpdateMessageStatus, TypeInv, TypeOK, PusherIsBusy, HandlerIsBusy
<1>13. ASSUME NEW h \in Handlers, SendDeliveryReport(h) PROVE TypeInv'
  <2>1. handler' \in [Handlers -> HandlerState] /\ HandlerIsBusy'
    BY <1>13, EndReceiptTyped DEF SendDeliveryReport
  <2>2. handler[h].m \in Msgs
    BY <1>13, <1>h DEF SendDeliveryReport
  <2> QED
    BY <1>13, <2>1, <2>2 DEF SendDeliveryReport, TypeInv, TypeOK, PusherIsBusy, HandlerIsBusy
<1>14. ASSUME NEW h \in Handlers, HandlerFails(h) PROVE TypeInv'
  <2>1. handler' \in [Handlers -> HandlerState] /\ HandlerIsBusy'
    BY <1>14, EndReceiptTyped DEF HandlerFails
  <2> QED
    BY <1>14, <2>1 DEF HandlerFails, TypeInv, TypeOK, PusherIsBusy, HandlerIsBusy
<1>15. ASSUME NEW k \in Keys, NEW res \in {"Delivered", "Failed"}, Conclude(k, res) PROVE TypeInv'
  BY <1>15 DEF Conclude, SubmissionState, TypeInv, TypeOK, PusherIsBusy, HandlerIsBusy
<1>16. ASSUME NEW m \in Msgs, Requeue(m) PROVE TypeInv'
  BY <1>16 DEF Requeue, Status, TypeInv, TypeOK, PusherIsBusy, HandlerIsBusy
<1>17. ASSUME Crash PROVE TypeInv'
  <2>1. pusher' \in [Pushers -> PusherState] /\ PusherIsBusy'
    BY <1>17, ConstantsOK DEF Crash, IdlePusher, PusherState, Segments, TypeInv, TypeOK, PusherIsBusy, HandlerIsBusy
  <2>2. handler' \in [Handlers -> HandlerState] /\ HandlerIsBusy'
    BY <1>17 DEF Crash, IdleHandler, HandlerState, Status, TypeInv, TypeOK, PusherIsBusy, HandlerIsBusy
  <2> QED
    BY <1>17, <2>1, <2>2 DEF Crash, TypeInv, TypeOK, PusherIsBusy, HandlerIsBusy
<1>18. ASSUME UNCHANGED vars PROVE TypeInv'
  BY <1>18 DEF TypeInv, TypeOK, PusherIsBusy, HandlerIsBusy
<1> QED
  BY ActionCases, <1>1, <1>2, <1>3, <1>4, <1>5, <1>6, <1>7, <1>8, <1>9,
     <1>10, <1>11, <1>12, <1>13, <1>14, <1>15, <1>16, <1>17, <1>18

(* Type correctness: every goroutine and every row keeps its type. *)
THEOREM TypeCorrect == Spec => []TypeOK
<1>1. Init => TypeInv
  BY TypeInit
<1>2. TypeInv /\ [Next]_vars => TypeInv'
  BY TypeStep
<1>3. TypeInv => TypeOK
  BY DEF TypeInv
<1> QED
  BY <1>1, <1>2, <1>3, PTL DEF Spec

-----------------------------------------------------------------------------
(* An SMSC does not take back what it accepted or concluded. *)
LEMMA SMSCKeeps ==
    ASSUME TypeInv, [Next]_vars, NEW x \in Keys
    PROVE  /\ sent[x] # NoSub => sent'[x] = sent[x]
           /\ outcome[x] # "Pending" => outcome'[x] = outcome[x]
<1> DEFINE Kept == /\ sent[x] # NoSub => sent'[x] = sent[x]
                   /\ outcome[x] # "Pending" => outcome'[x] = outcome[x]
<1> USE DEF TypeInv, TypeOK, table, smsc, bounds, history, vars
<1>1. ASSUME NEW p \in Pushers, NEW m \in Msgs, StartPush(p, m) PROVE Kept
  BY <1>1 DEF StartPush
<1>2. ASSUME NEW p \in Pushers, ChooseUpstream(p) PROVE Kept
  BY <1>2 DEF ChooseUpstream
<1>3. ASSUME NEW p \in Pushers, SubmitSegment(p) PROVE Kept
  BY <1>3 DEF SubmitSegment, Accept
<1>4. ASSUME NEW p \in Pushers, SubmitUntracked(p) PROVE Kept
  BY <1>4 DEF SubmitUntracked
<1>5. ASSUME NEW p \in Pushers, SubmitFails(p) PROVE Kept
  BY <1>5 DEF SubmitFails, Accept
<1>6. ASSUME NEW p \in Pushers, CreateSMPPSubmission(p) PROVE Kept
  BY <1>6 DEF CreateSMPPSubmission
<1>7. ASSUME NEW p \in Pushers, MarkDelivering(p) PROVE Kept
  BY <1>7 DEF MarkDelivering
<1>8. ASSUME NEW p \in Pushers, PusherFails(p) PROVE Kept
  BY <1>8 DEF PusherFails
<1>9. ASSUME NEW h \in Handlers, TakeReceipt(h) PROVE Kept
  BY <1>9 DEF TakeReceipt
<1>10. ASSUME NEW h \in Handlers, ListSMPPSubmissions(h) PROVE Kept
  BY <1>10 DEF ListSMPPSubmissions
<1>11. ASSUME NEW h \in Handlers, GetMessage(h) PROVE Kept
  BY <1>11 DEF GetMessage
<1>12. ASSUME NEW h \in Handlers, UpdateMessageStatus(h) PROVE Kept
  BY <1>12 DEF UpdateMessageStatus
<1>13. ASSUME NEW h \in Handlers, SendDeliveryReport(h) PROVE Kept
  BY <1>13 DEF SendDeliveryReport
<1>14. ASSUME NEW h \in Handlers, HandlerFails(h) PROVE Kept
  BY <1>14 DEF HandlerFails
<1>15. ASSUME NEW k \in Keys, NEW res \in {"Delivered", "Failed"}, Conclude(k, res) PROVE Kept
  BY <1>15 DEF Conclude
<1>16. ASSUME NEW m \in Msgs, Requeue(m) PROVE Kept
  BY <1>16 DEF Requeue
<1>17. ASSUME Crash PROVE Kept
  BY <1>17 DEF Crash
<1>18. ASSUME UNCHANGED vars PROVE Kept
  BY <1>18
<1> QED
  BY ActionCases, <1>1, <1>2, <1>3, <1>4, <1>5, <1>6, <1>7, <1>8, <1>9,
     <1>10, <1>11, <1>12, <1>13, <1>14, <1>15, <1>16, <1>17, <1>18

(* So what justified a status justifies it for good. *)
LEMMA JustifiedStays ==
    ASSUME TypeInv, [Next]_vars, NEW m \in Msgs, NEW st, Justified(m, st)
    PROVE  Justified(m, st)'
<1>1. ASSUME NEW k \in Keys, sent[k] # NoSub, outcome[k] # "Pending"
      PROVE  sent'[k] = sent[k] /\ outcome'[k] = outcome[k]
  BY <1>1, SMSCKeeps
<1>2. SomeSegmentFailed(m) => SomeSegmentFailed(m)'
  BY <1>1 DEF SomeSegmentFailed
<1>3. SomeRecipientHasAll(m) => SomeRecipientHasAll(m)'
  <2> SUFFICES ASSUME SomeRecipientHasAll(m) PROVE SomeRecipientHasAll(m)'
    OBVIOUS
  <2> PICK r \in 1 .. Recipients : \A s \in Segments : \E k \in Keys :
            sent[k] = [m |-> m, r |-> r, s |-> s] /\ outcome[k] = "Delivered"
    BY DEF SomeRecipientHasAll
  <2>1. ASSUME NEW s \in Segments
        PROVE  \E k \in Keys : sent'[k] = [m |-> m, r |-> r, s |-> s] /\ outcome'[k] = "Delivered"
    <3> PICK k \in Keys : sent[k] = [m |-> m, r |-> r, s |-> s] /\ outcome[k] = "Delivered"
      OBVIOUS
    <3>1. sent[k] \in Segment
      BY DEF Segment
    <3>2. sent[k] # NoSub
      BY <3>1, ConstantsOK
    <3> QED
      BY <1>1, <3>2
  <2> QED
    BY <2>1 DEF SomeRecipientHasAll
<1> QED
  BY <1>2, <1>3 DEF Justified


(* The table keeps telling the truth about the SMSCs: identifiers are      *)
(* unique per upstream, and receipts carry the outcome.                    *)
LEMMA SubmissionStep ==
    ASSUME TableInv, [Next]_vars, NEW x \in Keys
    PROVE  SubmissionIsTrue(x)'
<1>t. TypeInv /\ SubmissionIsTrue(x)
  BY DEF TableInv
<1>s. sub[x] # NoSub => sub[x] \in Submission /\ sent[x] # NoSub
  BY <1>t, ConstantsOK DEF SubmissionIsTrue, TypeInv, TypeOK, Submission, Segment
<1>u. UNCHANGED <<sub, smsc>> => SubmissionIsTrue(x)'
  BY <1>t DEF SubmissionIsTrue, smsc
<1> USE DEF table, smsc, bounds, history, vars
<1>1. ASSUME NEW p \in Pushers, NEW m \in Msgs, StartPush(p, m) PROVE SubmissionIsTrue(x)'
  BY <1>1, <1>u DEF StartPush
<1>2. ASSUME NEW p \in Pushers, ChooseUpstream(p) PROVE SubmissionIsTrue(x)'
  BY <1>2, <1>u DEF ChooseUpstream
<1>3. ASSUME NEW p \in Pushers, SubmitSegment(p) PROVE SubmissionIsTrue(x)'
  <2> PICK id \in Ids : Accept(p, <<pusher[p].up, id>>)
    BY <1>3 DEF SubmitSegment
  <2>1. <<pusher[p].up, id>> \in Keys
    BY <1>3, <1>t DEF SubmitSegment, TypeInv, TypeOK, PusherIsBusy, Keys
  <2> QED
    BY <1>3, <1>t, <1>s, <2>1 DEF SubmitSegment, Accept, SubmissionIsTrue, TypeInv, TypeOK
<1>4. ASSUME NEW p \in Pushers, SubmitUntracked(p) PROVE SubmissionIsTrue(x)'
  BY <1>4, <1>u DEF SubmitUntracked
<1>5. ASSUME NEW p \in Pushers, SubmitFails(p) PROVE SubmissionIsTrue(x)'
  <2>1. CASE UNCHANGED sent
    BY <1>5, <1>u, <2>1 DEF SubmitFails
  <2>2. CASE \E id \in Ids : Accept(p, <<pusher[p].up, id>>)
    <3> PICK id \in Ids : Accept(p, <<pusher[p].up, id>>)
      BY <2>2
    <3>1. <<pusher[p].up, id>> \in Keys
      BY <1>5, <1>t DEF SubmitFails, TypeInv, TypeOK, PusherIsBusy, Keys
    <3> QED
      BY <1>5, <1>t, <1>s, <3>1 DEF SubmitFails, Accept, SubmissionIsTrue, TypeInv, TypeOK
  <2> QED
    BY <1>5, <2>1, <2>2 DEF SubmitFails
<1>6. ASSUME NEW p \in Pushers, CreateSMPPSubmission(p) PROVE SubmissionIsTrue(x)'
  <2>1. TrackedIsSent(p) /\ pusher[p].pc = "track"
    BY <1>6 DEF TableInv, CreateSMPPSubmission
  <2> QED
    BY <1>6, <1>t, <2>1 DEF CreateSMPPSubmission, SubmissionIsTrue, TrackedIsSent, TypeInv, TypeOK
<1>7. ASSUME NEW p \in Pushers, MarkDelivering(p) PROVE SubmissionIsTrue(x)'
  BY <1>7, <1>u DEF MarkDelivering
<1>8. ASSUME NEW p \in Pushers, PusherFails(p) PROVE SubmissionIsTrue(x)'
  BY <1>8, <1>u DEF PusherFails
<1>9. ASSUME NEW h \in Handlers, TakeReceipt(h) PROVE SubmissionIsTrue(x)'
  <2> PICK e \in Receipts : \E j \in Matching(e[1]) :
            /\ sub' = [sub EXCEPT ![j].state = MapReceiptStatus(e[2])]
            /\ Hold(h, "list", sub[j].m, "Queued", FALSE)
    BY <1>9 DEF TakeReceipt
  <2>1. e[1] \in Keys /\ sub[e[1]] # NoSub
        /\ sub' = [sub EXCEPT ![e[1]].state = MapReceiptStatus(e[2])]
    BY DEF Matching, Receipts
  <2>2. MapReceiptStatus(e[2]) \in {"Delivered", "Failed"}
        => outcome[e[1]] = MapReceiptStatus(e[2])
    BY DEF MapReceiptStatus, Receipts
  <2>3. sub[e[1]] \in Submission
    BY <1>t, <2>1 DEF TypeInv, TypeOK
  <2>4. CASE x = e[1]
    BY <1>9, <1>t, <2>1, <2>2, <2>3, <2>4 DEF TakeReceipt, SubmissionIsTrue, Submission, TypeInv, TypeOK
  <2>5. CASE x # e[1]
    BY <1>9, <1>t, <2>1, <2>5 DEF TakeReceipt, SubmissionIsTrue, TypeInv, TypeOK
  <2> QED
    BY <2>4, <2>5
<1>10. ASSUME NEW h \in Handlers, ListSMPPSubmissions(h) PROVE SubmissionIsTrue(x)'
  BY <1>10, <1>u DEF ListSMPPSubmissions
<1>11. ASSUME NEW h \in Handlers, GetMessage(h) PROVE SubmissionIsTrue(x)'
  BY <1>11, <1>u DEF GetMessage
<1>12. ASSUME NEW h \in Handlers, UpdateMessageStatus(h) PROVE SubmissionIsTrue(x)'
  BY <1>12, <1>u DEF UpdateMessageStatus
<1>13. ASSUME NEW h \in Handlers, SendDeliveryReport(h) PROVE SubmissionIsTrue(x)'
  BY <1>13, <1>u DEF SendDeliveryReport
<1>14. ASSUME NEW h \in Handlers, HandlerFails(h) PROVE SubmissionIsTrue(x)'
  BY <1>14, <1>u DEF HandlerFails
<1>15. ASSUME NEW k \in Keys, NEW res \in {"Delivered", "Failed"}, Conclude(k, res) PROVE SubmissionIsTrue(x)'
  BY <1>15, <1>t DEF Conclude, SubmissionIsTrue, TypeInv, TypeOK
<1>16. ASSUME NEW m \in Msgs, Requeue(m) PROVE SubmissionIsTrue(x)'
  BY <1>16, <1>u DEF Requeue
<1>17. ASSUME Crash PROVE SubmissionIsTrue(x)'
  BY <1>17, <1>u DEF Crash
<1>18. ASSUME UNCHANGED vars PROVE SubmissionIsTrue(x)'
  BY <1>18, <1>u
<1> QED
  BY ActionCases, <1>1, <1>2, <1>3, <1>4, <1>5, <1>6, <1>7, <1>8, <1>9,
     <1>10, <1>11, <1>12, <1>13, <1>14, <1>15, <1>16, <1>17, <1>18

(* A pusher tracks the segment that was accepted. *)
LEMMA TrackedStep ==
    ASSUME TableInv, [Next]_vars, NEW y \in Pushers
    PROVE  TrackedIsSent(y)'
<1>t. TypeInv /\ TrackedIsSent(y)
  BY DEF TableInv
<1>k. pusher[y].pc = "track" => Key(y) \in Keys /\ sent[Key(y)] # NoSub
  BY <1>t, ConstantsOK
     DEF TrackedIsSent, TypeInv, TypeOK, PusherIsBusy, PusherState, Key, Keys, Segment
<1>u. UNCHANGED <<sent, pusher>> => TrackedIsSent(y)'
  BY <1>t DEF TrackedIsSent, Key
<1>v. ASSUME NEW p \in Pushers, UNCHANGED sent,
             \/ EndPush(p)
             \/ \E pc \in {"choose", "submit", "mark"} : \E r, s, up, id : Move(p, pc, r, s, up, id)
      PROVE  TrackedIsSent(y)'
  BY <1>t, <1>v DEF TrackedIsSent, Key, EndPush, Move, IdlePusher, TypeInv, TypeOK
<1> USE DEF table, smsc, bounds, history, vars
<1>1. ASSUME NEW p \in Pushers, NEW m \in Msgs, StartPush(p, m) PROVE TrackedIsSent(y)'
  BY <1>1, <1>t DEF StartPush, TrackedIsSent, Key, TypeInv, TypeOK
<1>2. ASSUME NEW p \in Pushers, ChooseUpstream(p) PROVE TrackedIsSent(y)'
  BY <1>2, <1>v DEF ChooseUpstream
<1>3. ASSUME NEW p \in Pushers, SubmitSegment(p) PROVE TrackedIsSent(y)'
  <2> PICK id \in Ids :
            /\ Accept(p, <<pusher[p].up, id>>)
            /\ Move(p, "track", pusher[p].r, pusher[p].s, pusher[p].up, id)
    BY <1>3 DEF SubmitSegment
  <2>1. <<pusher[p].up, id>> \in Keys
    BY <1>3, <1>t DEF SubmitSegment, TypeInv, TypeOK, PusherIsBusy, Keys
  <2>2. CASE y = p
    <3>1. pusher'[p] = [pc |-> "track", m |-> pusher[p].m, r |-> pusher[p].r,
                        s |-> pusher[p].s, up |-> pusher[p].up, id |-> id]
      BY <1>t DEF Move, TypeInv, TypeOK
    <3>2. sent'[<<pusher[p].up, id>>] =
              [m |-> pusher[p].m, r |-> pusher[p].r, s |-> pusher[p].s]
      BY <1>t, <2>1 DEF Accept, TypeInv, TypeOK
    <3> QED
      BY <2>2, <3>1, <3>2 DEF TrackedIsSent, Key
  <2>3. CASE y # p
    <3>1. UNCHANGED pusher[y]
      BY <2>3, <1>t DEF Move, TypeInv, TypeOK
    <3> QED
      BY <1>t, <1>k, <2>1, <3>1 DEF Accept, TrackedIsSent, Key, TypeInv, TypeOK
  <2> QED
    BY <2>2, <2>3
<1>4. ASSUME NEW p \in Pushers, SubmitUntracked(p) PROVE TrackedIsSent(y)'
  BY <1>4, <1>v DEF SubmitUntracked, Advance
<1>5. ASSUME NEW p \in Pushers, SubmitFails(p) PROVE TrackedIsSent(y)'
  <2>1. CASE UNCHANGED sent
    BY <1>5, <1>v, <2>1 DEF SubmitFails
  <2>2. CASE \E id \in Ids : Accept(p, <<pusher[p].up, id>>)
    <3> PICK id \in Ids : Accept(p, <<pusher[p].up, id>>)
      BY <2>2
    <3>1. <<pusher[p].up, id>> \in Keys
      BY <1>5, <1>t DEF SubmitFails, TypeInv, TypeOK, PusherIsBusy, Keys
    <3> QED
      BY <1>5, <1>t, <1>k, <3>1
         DEF SubmitFails, Accept, EndPush, IdlePusher, TrackedIsSent, Key, TypeInv, TypeOK
  <2> QED
    BY <1>5, <2>1, <2>2 DEF SubmitFails
<1>6. ASSUME NEW p \in Pushers, CreateSMPPSubmission(p) PROVE TrackedIsSent(y)'
  BY <1>6, <1>v DEF CreateSMPPSubmission, Advance
<1>7. ASSUME NEW p \in Pushers, MarkDelivering(p) PROVE TrackedIsSent(y)'
  BY <1>7, <1>v DEF MarkDelivering
<1>8. ASSUME NEW p \in Pushers, PusherFails(p) PROVE TrackedIsSent(y)'
  BY <1>8, <1>v DEF PusherFails
<1>9. ASSUME NEW h \in Handlers, TakeReceipt(h) PROVE TrackedIsSent(y)'
  BY <1>9, <1>u DEF TakeReceipt
<1>10. ASSUME NEW h \in Handlers, ListSMPPSubmissions(h) PROVE TrackedIsSent(y)'
  BY <1>10, <1>u DEF ListSMPPSubmissions
<1>11. ASSUME NEW h \in Handlers, GetMessage(h) PROVE TrackedIsSent(y)'
  BY <1>11, <1>u DEF GetMessage
<1>12. ASSUME NEW h \in Handlers, UpdateMessageStatus(h) PROVE TrackedIsSent(y)'
  BY <1>12, <1>u DEF UpdateMessageStatus
<1>13. ASSUME NEW h \in Handlers, SendDeliveryReport(h) PROVE TrackedIsSent(y)'
  BY <1>13, <1>u DEF SendDeliveryReport
<1>14. ASSUME NEW h \in Handlers, HandlerFails(h) PROVE TrackedIsSent(y)'
  BY <1>14, <1>u DEF HandlerFails
<1>15. ASSUME NEW k \in Keys, NEW res \in {"Delivered", "Failed"}, Conclude(k, res) PROVE TrackedIsSent(y)'
  BY <1>15, <1>u DEF Conclude
<1>16. ASSUME NEW m \in Msgs, Requeue(m) PROVE TrackedIsSent(y)'
  BY <1>16, <1>u DEF Requeue
<1>17. ASSUME Crash PROVE TrackedIsSent(y)'
  BY <1>17 DEF Crash, TrackedIsSent, IdlePusher
<1>18. ASSUME UNCHANGED vars PROVE TrackedIsSent(y)'
  BY <1>18, <1>u
<1> QED
  BY ActionCases, <1>1, <1>2, <1>3, <1>4, <1>5, <1>6, <1>7, <1>8, <1>9,
     <1>10, <1>11, <1>12, <1>13, <1>14, <1>15, <1>16, <1>17, <1>18

(* Every step keeps smpp_submissions true of what the SMSCs have. *)
LEMMA TableStep == TableInv /\ [Next]_vars => TableInv'
<1> SUFFICES ASSUME TableInv, [Next]_vars PROVE TableInv'
  OBVIOUS
<1>1. TypeInv'
  BY TypeStep DEF TableInv
<1>2. \A x \in Keys : SubmissionIsTrue(x)'
  BY SubmissionStep
<1>3. \A y \in Pushers : TrackedIsSent(y)'
  BY TrackedStep
<1> QED
  BY <1>1, <1>2, <1>3 DEF TableInv

(* A complete group means that one recipient has every segment: as many    *)
(* distinct indexes as there are segments are all of them.                 *)
LEMMA CompleteHasAll ==
    ASSUME TableInv, NEW m \in Msgs, NEW k \in Submissions(m), Complete(k)
    PROVE  SomeRecipientHasAll(m)
<1> DEFINE G == Group(k)
           D == {sub[j].s : j \in {i \in G : sub[i].state = "Delivered"}}
<1>1. G \subseteq Submissions(m)
  BY DEF Group, Submissions
<1>2. ASSUME NEW j \in Submissions(m)
      PROVE  /\ j \in Keys /\ sub[j] \in Submission /\ sub[j].m = m
             /\ sub[j].count = SegmentCount
             /\ sent[j] = [m |-> m, r |-> sub[j].r, s |-> sub[j].s]
             /\ sub[j].state = "Delivered" => outcome[j] = "Delivered"
  BY DEF Submissions, TableInv, SubmissionIsTrue, TypeInv, TypeOK
<1>3. PICK c \in {sub[j].count : j \in G} : Cardinality(D) = c
  BY DEF Complete
<1>4. Cardinality(D) = SegmentCount
  BY <1>1, <1>2, <1>3
<1>5. D \subseteq Segments
  BY <1>1, <1>2 DEF Submission
<1>6. IsFiniteSet(Segments) /\ Cardinality(Segments) = SegmentCount
  <2>1. 0 \in Int /\ SegmentCount - 1 \in Int /\ SegmentCount >= 1
    BY ConstantsOK
  <2>2. /\ IsFiniteSet(0 .. (SegmentCount - 1))
        /\ Cardinality(0 .. (SegmentCount - 1)) =
              IF 0 > SegmentCount - 1 THEN 0 ELSE (SegmentCount - 1) - 0 + 1
    BY <2>1, FS_Interval, Zenon
  <2>3. (IF 0 > SegmentCount - 1 THEN 0 ELSE (SegmentCount - 1) - 0 + 1) = SegmentCount
    BY ConstantsOK
  <2> QED
    BY <2>2, <2>3 DEF Segments
<1>7. D = Segments
  BY <1>4, <1>5, <1>6, FS_Subset
<1>8. sub[k].r \in 1 .. Recipients
  BY <1>2 DEF Submission
<1>9. ASSUME NEW s \in Segments
      PROVE  \E j \in Keys : /\ sent[j] = [m |-> m, r |-> sub[k].r, s |-> s]
                            /\ outcome[j] = "Delivered"
  <2> PICK j \in G : sub[j].state = "Delivered" /\ sub[j].s = s
    BY <1>7
  <2>1. sub[j].r = sub[k].r
    BY DEF Group
  <2> QED
    BY <1>1, <1>2, <2>1
<1> QED
  BY <1>8, <1>9 DEF SomeRecipientHasAll

(* What the aggregate says of a message is what the SMSCs did.             *)
LEMMA AggregateIsJustified ==
    ASSUME TableInv, NEW m \in Msgs, NEW st \in Aggregate(m)
    PROVE  st \in {"Delivered", "Unreachable"} /\ Justified(m, st)
<1>1. CASE \E k \in Submissions(m) : sub[k].state = "Failed"
  <2> PICK k \in Submissions(m) : sub[k].state = "Failed"
    BY <1>1
  <2>1. k \in Keys /\ sub[k] # NoSub /\ sub[k].m = m
    BY DEF Submissions
  <2>2. /\ sent[k] = [m |-> m, r |-> sub[k].r, s |-> sub[k].s]
        /\ outcome[k] = "Failed" /\ sub[k] \in Submission
    BY <2>1 DEF TableInv, SubmissionIsTrue, TypeInv, TypeOK
  <2>3. sent[k] # NoSub
    BY <2>2, ConstantsOK DEF Segment, Submission
  <2>4. SomeSegmentFailed(m)
    BY <2>1, <2>2, <2>3 DEF SomeSegmentFailed
  <2>5. st = "Unreachable"
    BY <1>1 DEF Aggregate
  <2> QED
    BY <2>4, <2>5 DEF Justified
<1>2. CASE ~\E k \in Submissions(m) : sub[k].state = "Failed"
  <2>1. st = "Delivered" /\ Submissions(m) # {} /\ \A k \in Submissions(m) : Complete(k)
    BY <1>2 DEF Aggregate
  <2>2. SomeRecipientHasAll(m)
    BY <2>1, CompleteHasAll
  <2> QED
    BY <2>1, <2>2 DEF Justified
<1> QED
  BY <1>1, <1>2

(* A row's status stays justified: the handlers write what they hold.      *)
LEMMA RowStep ==
    ASSUME StatusInv, [Next]_vars, NEW x \in Msgs
    PROVE  Justified(x, row[x])'
<1>t. TypeInv /\ TableInv /\ Justified(x, row[x])
  BY DEF StatusInv, TableInv
<1>u. row'[x] = row[x] => Justified(x, row[x])'
  BY <1>t, JustifiedStays DEF TypeInv, TypeOK
<1>v. row'[x] \in {"Queued", "Delivering"} => Justified(x, row[x])'
  BY DEF Justified
<1>m. row \in [Msgs -> Status]
  BY <1>t DEF TypeInv, TypeOK
<1> USE DEF table, smsc, bounds, history, vars
<1>1. ASSUME NEW p \in Pushers, NEW m \in Msgs, StartPush(p, m) PROVE Justified(x, row[x])'
  BY <1>1, <1>u DEF StartPush
<1>2. ASSUME NEW p \in Pushers, ChooseUpstream(p) PROVE Justified(x, row[x])'
  BY <1>2, <1>u DEF ChooseUpstream
<1>3. ASSUME NEW p \in Pushers, SubmitSegment(p) PROVE Justified(x, row[x])'
  BY <1>3, <1>u DEF SubmitSegment
<1>4. ASSUME NEW p \in Pushers, SubmitUntracked(p) PROVE Justified(x, row[x])'
  BY <1>4, <1>u DEF SubmitUntracked
<1>5. ASSUME NEW p \in Pushers, SubmitFails(p) PROVE Justified(x, row[x])'
  BY <1>5, <1>u DEF SubmitFails
<1>6. ASSUME NEW p \in Pushers, CreateSMPPSubmission(p) PROVE Justified(x, row[x])'
  BY <1>6, <1>u DEF CreateSMPPSubmission
<1>7. ASSUME NEW p \in Pushers, MarkDelivering(p) PROVE Justified(x, row[x])'
  BY <1>7, <1>u, <1>v, <1>m DEF MarkDelivering
<1>8. ASSUME NEW p \in Pushers, PusherFails(p) PROVE Justified(x, row[x])'
  BY <1>8, <1>u DEF PusherFails
<1>9. ASSUME NEW h \in Handlers, TakeReceipt(h) PROVE Justified(x, row[x])'
  BY <1>9, <1>u DEF TakeReceipt
<1>10. ASSUME NEW h \in Handlers, ListSMPPSubmissions(h) PROVE Justified(x, row[x])'
  BY <1>10, <1>u DEF ListSMPPSubmissions
<1>11. ASSUME NEW h \in Handlers, GetMessage(h) PROVE Justified(x, row[x])'
  BY <1>11, <1>u DEF GetMessage
<1>12. ASSUME NEW h \in Handlers, UpdateMessageStatus(h) PROVE Justified(x, row[x])'
  <2>1. handler[h].pc = "update" /\ row' = [row EXCEPT ![handler[h].m] = handler[h].st]
    BY <1>12 DEF UpdateMessageStatus
  <2>2. handler[h].m \in Msgs /\ Justified(handler[h].m, handler[h].st)
    BY <1>t, <2>1 DEF StatusInv, TypeInv, HandlerIsBusy
  <2>3. CASE handler[h].m = x
    <3> DEFINE st == handler[h].st
    <3>1. row'[x] = st
      BY <1>m, <2>1, <2>3
    <3>2. st = "Delivered" => SomeRecipientHasAll(x)
      BY <2>2, <2>3 DEF Justified
    <3>3. st = "Unreachable" => SomeSegmentFailed(x)
      BY <2>2, <2>3 DEF Justified
    <3>4. UNCHANGED <<sent, outcome>>
      BY <1>12 DEF UpdateMessageStatus
    <3>5. SomeRecipientHasAll(x) => SomeRecipientHasAll(x)'
      BY <3>4 DEF SomeRecipientHasAll
    <3>6. SomeSegmentFailed(x) => SomeSegmentFailed(x)'
      BY <3>4 DEF SomeSegmentFailed
    <3> QED
      BY <3>1, <3>2, <3>3, <3>5, <3>6 DEF Justified
  <2>4. CASE handler[h].m # x
    BY <1>m, <1>u, <2>1, <2>4
  <2> QED
    BY <2>3, <2>4
<1>13. ASSUME NEW h \in Handlers, SendDeliveryReport(h) PROVE Justified(x, row[x])'
  BY <1>13, <1>u DEF SendDeliveryReport
<1>14. ASSUME NEW h \in Handlers, HandlerFails(h) PROVE Justified(x, row[x])'
  BY <1>14, <1>u DEF HandlerFails
<1>15. ASSUME NEW k \in Keys, NEW res \in {"Delivered", "Failed"}, Conclude(k, res) PROVE Justified(x, row[x])'
  BY <1>15, <1>u DEF Conclude
<1>16. ASSUME NEW m \in Msgs, Requeue(m) PROVE Justified(x, row[x])'
  BY <1>16, <1>u, <1>v, <1>m DEF Requeue
<1>17. ASSUME Crash PROVE Justified(x, row[x])'
  BY <1>17, <1>u DEF Crash
<1>18. ASSUME UNCHANGED vars PROVE Justified(x, row[x])'
  BY <1>18, <1>u
<1> QED
  BY ActionCases, <1>1, <1>2, <1>3, <1>4, <1>5, <1>6, <1>7, <1>8, <1>9,
     <1>10, <1>11, <1>12, <1>13, <1>14, <1>15, <1>16, <1>17, <1>18

(* So does the status a handler holds: it comes from the aggregate.        *)
LEMMA HeldStep ==
    ASSUME StatusInv, [Next]_vars, NEW y \in Handlers, handler'[y].pc \in {"get", "update"}
    PROVE  Justified(handler[y].m, handler[y].st)'
<1>t. TypeInv /\ TableInv
  BY DEF StatusInv, TableInv
<1>a. ASSUME NEW m \in Msgs, NEW st, Justified(m, st),
             handler'[y].m = m, handler'[y].st = st
      PROVE  Justified(handler[y].m, handler[y].st)'
  <2>1. Justified(m, st)'
    BY <1>t, <1>a, JustifiedStays
  <2> QED
    BY <1>a, <2>1 DEF Justified
<1>b. handler[y].pc # "idle" => handler[y].m \in Msgs
  BY <1>t DEF TypeInv, HandlerIsBusy
<1>c. handler[y].pc \in {"get", "update"} => Justified(handler[y].m, handler[y].st)
  BY DEF StatusInv
<1>u. handler'[y] = handler[y] => Justified(handler[y].m, handler[y].st)'
  BY <1>a, <1>b, <1>c
<1>e. ASSUME NEW h \in Handlers, EndReceipt(h)
      PROVE  Justified(handler[y].m, handler[y].st)'
  BY <1>e, <1>t, <1>u DEF EndReceipt, IdleHandler, TypeInv, TypeOK
<1>h. ASSUME NEW h \in Handlers, NEW pc, NEW m, NEW st, NEW first,
             Hold(h, pc, m, st, first), y # h \/ pc \in {"list", "report"}
      PROVE  Justified(handler[y].m, handler[y].st)'
  BY <1>h, <1>t, <1>u DEF Hold, TypeInv, TypeOK
<1> USE DEF table, smsc, bounds, history, vars
<1>1. ASSUME NEW p \in Pushers, NEW m \in Msgs, StartPush(p, m) PROVE Justified(handler[y].m, handler[y].st)'
  BY <1>1, <1>u DEF StartPush
<1>2. ASSUME NEW p \in Pushers, ChooseUpstream(p) PROVE Justified(handler[y].m, handler[y].st)'
  BY <1>2, <1>u DEF ChooseUpstream
<1>3. ASSUME NEW p \in Pushers, SubmitSegment(p) PROVE Justified(handler[y].m, handler[y].st)'
  BY <1>3, <1>u DEF SubmitSegment
<1>4. ASSUME NEW p \in Pushers, SubmitUntracked(p) PROVE Justified(handler[y].m, handler[y].st)'
  BY <1>4, <1>u DEF SubmitUntracked
<1>5. ASSUME NEW p \in Pushers, SubmitFails(p) PROVE Justified(handler[y].m, handler[y].st)'
  BY <1>5, <1>u DEF SubmitFails
<1>6. ASSUME NEW p \in Pushers, CreateSMPPSubmission(p) PROVE Justified(handler[y].m, handler[y].st)'
  BY <1>6, <1>u DEF CreateSMPPSubmission
<1>7. ASSUME NEW p \in Pushers, MarkDelivering(p) PROVE Justified(handler[y].m, handler[y].st)'
  BY <1>7, <1>u DEF MarkDelivering
<1>8. ASSUME NEW p \in Pushers, PusherFails(p) PROVE Justified(handler[y].m, handler[y].st)'
  BY <1>8, <1>u DEF PusherFails
<1>9. ASSUME NEW h \in Handlers, TakeReceipt(h) PROVE Justified(handler[y].m, handler[y].st)'
  <2> PICK e \in Receipts : \E j \in Matching(e[1]) : Hold(h, "list", sub[j].m, "Queued", FALSE)
    BY <1>9 DEF TakeReceipt
  <2> QED
    BY <1>h
<1>10. ASSUME NEW h \in Handlers, ListSMPPSubmissions(h) PROVE Justified(handler[y].m, handler[y].st)'
  <2>1. CASE EndReceipt(h)
    BY <1>e, <2>1
  <2>2. CASE \E st \in Aggregate(handler[h].m) : Hold(h, "get", handler[h].m, st, FALSE)
    <3> PICK st \in Aggregate(handler[h].m) : Hold(h, "get", handler[h].m, st, FALSE)
      BY <2>2
    <3>1. handler[h].m \in Msgs
      BY <1>10, <1>t DEF ListSMPPSubmissions, TypeInv, HandlerIsBusy
    <3>2. Justified(handler[h].m, st)
      BY <1>t, <3>1, AggregateIsJustified
    <3>3. CASE y = h
      <4>1. handler'[y].m = handler[h].m /\ handler'[y].st = st
        BY <1>t, <3>3 DEF Hold, TypeInv, TypeOK
      <4> QED
        BY <1>a, <3>1, <3>2, <4>1
    <3>4. CASE y # h
      BY <1>h, <3>4
    <3> QED
      BY <3>3, <3>4
  <2> QED
    BY <1>10, <2>1, <2>2 DEF ListSMPPSubmissions
<1>11. ASSUME NEW h \in Handlers, GetMessage(h) PROVE Justified(handler[y].m, handler[y].st)'
  <2>1. Hold(h, "update", handler[h].m, handler[h].st, row[handler[h].m] # "Unreachable")
        /\ handler[h].pc = "get"
    BY <1>11 DEF GetMessage
  <2>2. CASE y = h
    <3>1. handler'[y].m = handler[h].m /\ handler'[y].st = handler[h].st
      BY <1>t, <2>1, <2>2 DEF Hold, TypeInv, TypeOK
    <3> QED
      BY <1>a, <1>b, <1>c, <2>1, <2>2, <3>1
  <2>3. CASE y # h
    BY <1>h, <2>1, <2>3
  <2> QED
    BY <2>2, <2>3
<1>12. ASSUME NEW h \in Handlers, UpdateMessageStatus(h) PROVE Justified(handler[y].m, handler[y].st)'
  BY <1>12, <1>e, <1>h DEF UpdateMessageStatus
<1>13. ASSUME NEW h \in Handlers, SendDeliveryReport(h) PROVE Justified(handler[y].m, handler[y].st)'
  BY <1>13, <1>e DEF SendDeliveryReport
<1>14. ASSUME NEW h \in Handlers, HandlerFails(h) PROVE Justified(handler[y].m, handler[y].st)'
  BY <1>14, <1>e DEF HandlerFails
<1>15. ASSUME NEW k \in Keys, NEW res \in {"Delivered", "Failed"}, Conclude(k, res) PROVE Justified(handler[y].m, handler[y].st)'
  BY <1>15, <1>u DEF Conclude
<1>16. ASSUME NEW m \in Msgs, Requeue(m) PROVE Justified(handler[y].m, handler[y].st)'
  BY <1>16, <1>u DEF Requeue
<1>17. ASSUME Crash PROVE Justified(handler[y].m, handler[y].st)'
  BY <1>17 DEF Crash, IdleHandler
<1>18. ASSUME UNCHANGED vars PROVE Justified(handler[y].m, handler[y].st)'
  BY <1>18, <1>u
<1> QED
  BY ActionCases, <1>1, <1>2, <1>3, <1>4, <1>5, <1>6, <1>7, <1>8, <1>9,
     <1>10, <1>11, <1>12, <1>13, <1>14, <1>15, <1>16, <1>17, <1>18

(* Every step keeps the statuses, written and held, justified. *)
LEMMA StatusStep == StatusInv /\ [Next]_vars => StatusInv'
<1> SUFFICES ASSUME StatusInv, [Next]_vars PROVE StatusInv'
  OBVIOUS
<1>1. TableInv'
  BY TableStep DEF StatusInv
<1>2. \A x \in Msgs : Justified(x, row[x])'
  BY RowStep
<1>3. \A y \in Handlers :
        handler'[y].pc \in {"get", "update"} => Justified(handler[y].m, handler[y].st)'
  BY HeldStep
<1> QED
  BY <1>1, <1>2, <1>3 DEF StatusInv

(* Before any submission every status is justified. *)
LEMMA StatusInit == Init => StatusInv
<1> SUFFICES ASSUME Init PROVE StatusInv
  OBVIOUS
<1>1. TypeInv
  BY TypeInit
<1> QED
  BY <1>1 DEF Init, StatusInv, TableInv, SubmissionIsTrue, TrackedIsSent, Justified,
        IdlePusher, IdleHandler

(* A message is Delivered only when the SMSCs delivered every segment to   *)
(* one of its recipients, whatever retries, upstreams, repeated and late   *)
(* receipts there are.                                                     *)
THEOREM DeliveredConfirmed == Spec => []DeliveredIsConfirmed
<1>1. Init => StatusInv
  BY StatusInit
<1>2. StatusInv /\ [Next]_vars => StatusInv'
  BY StatusStep
<1>3. StatusInv => DeliveredIsConfirmed
  BY DEF StatusInv, Justified, DeliveredIsConfirmed
<1> QED
  BY <1>1, <1>2, <1>3, PTL DEF Spec

(* A message is Unreachable by a receipt only when one of its own segments *)
(* failed.                                                                 *)
THEOREM UnreachableConfirmed == Spec => []UnreachableIsConfirmed
<1>1. Init => StatusInv
  BY StatusInit
<1>2. StatusInv /\ [Next]_vars => StatusInv'
  BY StatusStep
<1>3. StatusInv => UnreachableIsConfirmed
  BY DEF StatusInv, Justified, SomeSegmentFailed, UnreachableIsConfirmed
<1> QED
  BY <1>1, <1>2, <1>3, PTL DEF Spec

-----------------------------------------------------------------------------
(* What was told stays told: a report under way is sent, or lost.          *)
LEMMA ToldStays ==
    ASSUME TypeInv, [Next]_vars, NEW x \in Msgs, Told(x)
    PROVE  Told(x)'
<1>t. handler \in [Handlers -> HandlerState]
  BY DEF TypeInv, TypeOK
<1>u. UNCHANGED <<handler, history>> => Told(x)'
  BY DEF Told, history
<1>h. ASSUME NEW h \in Handlers, UNCHANGED history, handler[h].pc # "report",
             \A g \in Handlers \ {h} : handler'[g] = handler[g]
      PROVE  Told(x)'
  BY <1>h DEF Told, history
<1>e. ASSUME NEW h \in Handlers, EndReceipt(h)
      PROVE  \A g \in Handlers \ {h} : handler'[g] = handler[g]
  BY <1>e, <1>t DEF EndReceipt
<1>g. ASSUME NEW h \in Handlers, NEW pc, NEW m, NEW st, NEW first, Hold(h, pc, m, st, first)
      PROVE  \A g \in Handlers \ {h} : handler'[g] = handler[g]
  BY <1>g, <1>t DEF Hold
<1> USE DEF table, smsc, bounds, history, vars
<1>1. ASSUME NEW p \in Pushers, NEW m \in Msgs, StartPush(p, m) PROVE Told(x)'
  BY <1>1, <1>u DEF StartPush
<1>2. ASSUME NEW p \in Pushers, ChooseUpstream(p) PROVE Told(x)'
  BY <1>2, <1>u DEF ChooseUpstream
<1>3. ASSUME NEW p \in Pushers, SubmitSegment(p) PROVE Told(x)'
  BY <1>3, <1>u DEF SubmitSegment
<1>4. ASSUME NEW p \in Pushers, SubmitUntracked(p) PROVE Told(x)'
  BY <1>4, <1>u DEF SubmitUntracked
<1>5. ASSUME NEW p \in Pushers, SubmitFails(p) PROVE Told(x)'
  BY <1>5, <1>u DEF SubmitFails
<1>6. ASSUME NEW p \in Pushers, CreateSMPPSubmission(p) PROVE Told(x)'
  BY <1>6, <1>u DEF CreateSMPPSubmission
<1>7. ASSUME NEW p \in Pushers, MarkDelivering(p) PROVE Told(x)'
  BY <1>7, <1>u DEF MarkDelivering
<1>8. ASSUME NEW p \in Pushers, PusherFails(p) PROVE Told(x)'
  BY <1>8, <1>u DEF PusherFails
<1>9. ASSUME NEW h \in Handlers, TakeReceipt(h) PROVE Told(x)'
  <2> PICK e \in Receipts : \E j \in Matching(e[1]) : Hold(h, "list", sub[j].m, "Queued", FALSE)
    BY <1>9 DEF TakeReceipt
  <2>1. \A g \in Handlers \ {h} : handler'[g] = handler[g]
    BY <1>g
  <2> QED
    BY <1>9, <1>h, <2>1 DEF TakeReceipt
<1>10. ASSUME NEW h \in Handlers, ListSMPPSubmissions(h) PROVE Told(x)'
  <2>1. \A g \in Handlers \ {h} : handler'[g] = handler[g]
    BY <1>10, <1>e, <1>g DEF ListSMPPSubmissions
  <2> QED
    BY <1>10, <1>h, <2>1 DEF ListSMPPSubmissions
<1>11. ASSUME NEW h \in Handlers, GetMessage(h) PROVE Told(x)'
  <2>1. \A g \in Handlers \ {h} : handler'[g] = handler[g]
    BY <1>11, <1>e, <1>g DEF GetMessage
  <2> QED
    BY <1>11, <1>h, <2>1 DEF GetMessage
<1>12. ASSUME NEW h \in Handlers, UpdateMessageStatus(h) PROVE Told(x)'
  <2>1. \A g \in Handlers \ {h} : handler'[g] = handler[g]
    BY <1>12, <1>e, <1>g DEF UpdateMessageStatus
  <2> QED
    BY <1>12, <1>h, <2>1 DEF UpdateMessageStatus
<1>13. ASSUME NEW h \in Handlers, SendDeliveryReport(h) PROVE Told(x)'
  <2>1. \A g \in Handlers \ {h} : handler'[g] = handler[g]
    BY <1>13, <1>e DEF SendDeliveryReport
  <2>2. reported \cup lost \cup {handler[h].m} \subseteq reported' \cup lost'
    BY <1>13 DEF SendDeliveryReport
  <2> QED
    BY <2>1, <2>2 DEF Told
<1>14. ASSUME NEW h \in Handlers, HandlerFails(h) PROVE Told(x)'
  <2>1. \A g \in Handlers \ {h} : handler'[g] = handler[g]
    BY <1>14, <1>e, <1>g DEF HandlerFails
  <2> QED
    BY <1>14, <1>h, <2>1 DEF HandlerFails
<1>15. ASSUME NEW k \in Keys, NEW res \in {"Delivered", "Failed"}, Conclude(k, res) PROVE Told(x)'
  BY <1>15, <1>u DEF Conclude
<1>16. ASSUME NEW m \in Msgs, Requeue(m) PROVE Told(x)'
  BY <1>16, <1>u DEF Requeue
<1>17. ASSUME Crash PROVE Told(x)'
  BY <1>17 DEF Crash, Told
<1>18. ASSUME UNCHANGED vars PROVE Told(x)'
  BY <1>18, <1>u
<1> QED
  BY ActionCases, <1>1, <1>2, <1>3, <1>4, <1>5, <1>6, <1>7, <1>8, <1>9,
     <1>10, <1>11, <1>12, <1>13, <1>14, <1>15, <1>16, <1>17, <1>18

(* The handler that writes Unreachable first reports it; one that does not *)
(* report read a row that was Unreachable already.                         *)
LEMMA FailureToldStep ==
    ASSUME ToldInv, [Next]_vars, NEW x \in Msgs, row'[x] = "Unreachable"
    PROVE  Told(x)'
<1>t. TypeInv /\ row \in [Msgs -> Status] /\ handler \in [Handlers -> HandlerState]
  BY DEF ToldInv, TypeInv, TypeOK
<1>u. row'[x] = row[x] => Told(x)'
  BY <1>t, ToldStays DEF ToldInv, FailureIsTold
<1> USE DEF table, smsc, bounds, history, vars
<1>1. ASSUME NEW p \in Pushers, NEW m \in Msgs, StartPush(p, m) PROVE Told(x)'
  BY <1>1, <1>u DEF StartPush
<1>2. ASSUME NEW p \in Pushers, ChooseUpstream(p) PROVE Told(x)'
  BY <1>2, <1>u DEF ChooseUpstream
<1>3. ASSUME NEW p \in Pushers, SubmitSegment(p) PROVE Told(x)'
  BY <1>3, <1>u DEF SubmitSegment
<1>4. ASSUME NEW p \in Pushers, SubmitUntracked(p) PROVE Told(x)'
  BY <1>4, <1>u DEF SubmitUntracked
<1>5. ASSUME NEW p \in Pushers, SubmitFails(p) PROVE Told(x)'
  BY <1>5, <1>u DEF SubmitFails
<1>6. ASSUME NEW p \in Pushers, CreateSMPPSubmission(p) PROVE Told(x)'
  BY <1>6, <1>u DEF CreateSMPPSubmission
<1>7. ASSUME NEW p \in Pushers, MarkDelivering(p) PROVE Told(x)'
  BY <1>7, <1>t, <1>u DEF MarkDelivering
<1>8. ASSUME NEW p \in Pushers, PusherFails(p) PROVE Told(x)'
  BY <1>8, <1>u DEF PusherFails
<1>9. ASSUME NEW h \in Handlers, TakeReceipt(h) PROVE Told(x)'
  BY <1>9, <1>u DEF TakeReceipt
<1>10. ASSUME NEW h \in Handlers, ListSMPPSubmissions(h) PROVE Told(x)'
  BY <1>10, <1>u DEF ListSMPPSubmissions
<1>11. ASSUME NEW h \in Handlers, GetMessage(h) PROVE Told(x)'
  BY <1>11, <1>u DEF GetMessage
<1>12. ASSUME NEW h \in Handlers, UpdateMessageStatus(h) PROVE Told(x)'
  <2>1. CASE handler[h].m # x
    BY <1>12, <1>t, <1>u, <2>1 DEF UpdateMessageStatus
  <2>2. CASE handler[h].m = x /\ handler[h].first
    <3>1. handler[h].st = "Unreachable"
      BY <1>12, <1>t, <2>2 DEF UpdateMessageStatus
    <3>2. Hold(h, "report", x, "Unreachable", TRUE)
      BY <1>12, <2>2, <3>1 DEF UpdateMessageStatus
    <3> QED
      BY <1>t, <3>2 DEF Hold, Told
  <2>3. CASE handler[h].m = x /\ ~handler[h].first
    <3>1. handler[h].st = "Unreachable" /\ handler[h].pc = "update"
      BY <1>12, <1>t, <2>3 DEF UpdateMessageStatus
    <3> QED
      BY <1>t, <2>3, <3>1, ToldStays DEF ToldInv
  <2> QED
    BY <2>1, <2>2, <2>3
<1>13. ASSUME NEW h \in Handlers, SendDeliveryReport(h) PROVE Told(x)'
  BY <1>13, <1>u DEF SendDeliveryReport
<1>14. ASSUME NEW h \in Handlers, HandlerFails(h) PROVE Told(x)'
  BY <1>14, <1>u DEF HandlerFails
<1>15. ASSUME NEW k \in Keys, NEW res \in {"Delivered", "Failed"}, Conclude(k, res) PROVE Told(x)'
  BY <1>15, <1>u DEF Conclude
<1>16. ASSUME NEW m \in Msgs, Requeue(m) PROVE Told(x)'
  BY <1>16, <1>t, <1>u DEF Requeue
<1>17. ASSUME Crash PROVE Told(x)'
  BY <1>17, <1>u DEF Crash
<1>18. ASSUME UNCHANGED vars PROVE Told(x)'
  BY <1>18, <1>u
<1> QED
  BY ActionCases, <1>1, <1>2, <1>3, <1>4, <1>5, <1>6, <1>7, <1>8, <1>9,
     <1>10, <1>11, <1>12, <1>13, <1>14, <1>15, <1>16, <1>17, <1>18

(* A handler that is not the first knows of a message that was told.       *)
LEMMA NotFirstStep ==
    ASSUME ToldInv, [Next]_vars, NEW y \in Handlers,
           handler'[y].pc = "update", ~handler'[y].first, handler'[y].st = "Unreachable"
    PROVE  Told(handler[y].m)'
<1>t. TypeInv /\ handler \in [Handlers -> HandlerState]
  BY DEF ToldInv, TypeInv, TypeOK
<1>a. ASSUME NEW m \in Msgs, Told(m), handler'[y].m = m PROVE Told(handler[y].m)'
  <2>1. Told(m)'
    BY <1>t, <1>a, ToldStays
  <2> QED
    BY <1>a, <2>1 DEF Told
<1>b. handler[y].pc # "idle" => handler[y].m \in Msgs
  BY <1>t DEF TypeInv, HandlerIsBusy
<1>u. handler'[y] = handler[y] => Told(handler[y].m)'
  BY <1>a, <1>b DEF ToldInv
<1>e. ASSUME NEW h \in Handlers, EndReceipt(h) PROVE Told(handler[y].m)'
  BY <1>e, <1>t, <1>u DEF EndReceipt, IdleHandler
<1>h. ASSUME NEW h \in Handlers, NEW pc, NEW m, NEW st, NEW first,
             Hold(h, pc, m, st, first), y # h \/ pc # "update"
      PROVE  Told(handler[y].m)'
  BY <1>h, <1>t, <1>u DEF Hold
<1> USE DEF table, smsc, bounds, history, vars
<1>1. ASSUME NEW p \in Pushers, NEW m \in Msgs, StartPush(p, m) PROVE Told(handler[y].m)'
  BY <1>1, <1>u DEF StartPush
<1>2. ASSUME NEW p \in Pushers, ChooseUpstream(p) PROVE Told(handler[y].m)'
  BY <1>2, <1>u DEF ChooseUpstream
<1>3. ASSUME NEW p \in Pushers, SubmitSegment(p) PROVE Told(handler[y].m)'
  BY <1>3, <1>u DEF SubmitSegment
<1>4. ASSUME NEW p \in Pushers, SubmitUntracked(p) PROVE Told(handler[y].m)'
  BY <1>4, <1>u DEF SubmitUntracked
<1>5. ASSUME NEW p \in Pushers, SubmitFails(p) PROVE Told(handler[y].m)'
  BY <1>5, <1>u DEF SubmitFails
<1>6. ASSUME NEW p \in Pushers, CreateSMPPSubmission(p) PROVE Told(handler[y].m)'
  BY <1>6, <1>u DEF CreateSMPPSubmission
<1>7. ASSUME NEW p \in Pushers, MarkDelivering(p) PROVE Told(handler[y].m)'
  BY <1>7, <1>u DEF MarkDelivering
<1>8. ASSUME NEW p \in Pushers, PusherFails(p) PROVE Told(handler[y].m)'
  BY <1>8, <1>u DEF PusherFails
<1>9. ASSUME NEW h \in Handlers, TakeReceipt(h) PROVE Told(handler[y].m)'
  <2> PICK e \in Receipts : \E j \in Matching(e[1]) : Hold(h, "list", sub[j].m, "Queued", FALSE)
    BY <1>9 DEF TakeReceipt
  <2> QED
    BY <1>h
<1>10. ASSUME NEW h \in Handlers, ListSMPPSubmissions(h) PROVE Told(handler[y].m)'
  BY <1>10, <1>e, <1>h DEF ListSMPPSubmissions
<1>11. ASSUME NEW h \in Handlers, GetMessage(h) PROVE Told(handler[y].m)'
  <2>1. /\ Hold(h, "update", handler[h].m, handler[h].st, row[handler[h].m] # "Unreachable")
        /\ handler[h].pc = "get"
    BY <1>11 DEF GetMessage
  <2>2. CASE y = h
    <3>1. handler'[y].m = handler[h].m /\ row[handler[h].m] = "Unreachable"
      BY <1>t, <2>1, <2>2 DEF Hold
    <3>2. handler[h].m \in Msgs
      BY <1>b, <2>1, <2>2
    <3> QED
      BY <1>a, <3>1, <3>2 DEF ToldInv, FailureIsTold
  <2>3. CASE y # h
    BY <1>h, <2>1, <2>3
  <2> QED
    BY <2>2, <2>3
<1>12. ASSUME NEW h \in Handlers, UpdateMessageStatus(h) PROVE Told(handler[y].m)'
  BY <1>12, <1>e, <1>h DEF UpdateMessageStatus
<1>13. ASSUME NEW h \in Handlers, SendDeliveryReport(h) PROVE Told(handler[y].m)'
  BY <1>13, <1>e DEF SendDeliveryReport
<1>14. ASSUME NEW h \in Handlers, HandlerFails(h) PROVE Told(handler[y].m)'
  BY <1>14, <1>e DEF HandlerFails
<1>15. ASSUME NEW k \in Keys, NEW res \in {"Delivered", "Failed"}, Conclude(k, res) PROVE Told(handler[y].m)'
  BY <1>15, <1>u DEF Conclude
<1>16. ASSUME NEW m \in Msgs, Requeue(m) PROVE Told(handler[y].m)'
  BY <1>16, <1>u DEF Requeue
<1>17. ASSUME Crash PROVE Told(handler[y].m)'
  BY <1>17 DEF Crash, IdleHandler
<1>18. ASSUME UNCHANGED vars PROVE Told(handler[y].m)'
  BY <1>18, <1>u
<1> QED
  BY ActionCases, <1>1, <1>2, <1>3, <1>4, <1>5, <1>6, <1>7, <1>8, <1>9,
     <1>10, <1>11, <1>12, <1>13, <1>14, <1>15, <1>16, <1>17, <1>18

(* Every step keeps the failures told. *)
LEMMA ToldStep == ToldInv /\ [Next]_vars => ToldInv'
<1> SUFFICES ASSUME ToldInv, [Next]_vars PROVE ToldInv'
  OBVIOUS
<1>1. TypeInv'
  BY TypeStep DEF ToldInv
<1>2. \A x \in Msgs : row'[x] = "Unreachable" => Told(x)'
  BY FailureToldStep
<1>3. \A y \in Handlers :
        /\ handler'[y].pc = "update" /\ handler'[y].st = "Unreachable" /\ ~handler'[y].first
        => Told(handler[y].m)'
  BY NotFirstStep
<1> QED
  BY <1>1, <1>2, <1>3 DEF ToldInv, FailureIsTold

(* A message a receipt made Unreachable is reported to its originator once *)
(* at least, is about to be, or its report was tried and lost, whatever    *)
(* receipts are handled at the same time.                                  *)
THEOREM FailureTold == Spec => []FailureIsTold
<1>1. Init => ToldInv
  <2> SUFFICES ASSUME Init PROVE ToldInv
    OBVIOUS
  <2> QED
    BY TypeInit DEF Init, ToldInv, FailureIsTold, IdleHandler
<1>2. ToldInv /\ [Next]_vars => ToldInv'
  BY ToldStep
<1>3. ToldInv => FailureIsTold
  BY DEF ToldInv
<1> QED
  BY <1>1, <1>2, <1>3, PTL DEF Spec
=============================================================================
