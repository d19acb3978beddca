-------------------------- MODULE MessageLifecycle --------------------------
(***************************************************************************)
(* The life of a message in the MMSC: its row in the messages table, its   *)
(* payload in the content store, and every process that touches them.      *)
(*                                                                         *)
(*   workers     one per request handler or goroutine: MM1/MM7/MM4/MM3     *)
(*               submission, MM1 retrieval and responses, SMPP receipts,   *)
(*               MM7 cancel and replace, the admin API                     *)
(*   Dispatcher  internal/queue, re-sends notifications of Queued rows     *)
(*   Sweeper     internal/sweep, purges rows whose expiry has passed       *)
(*                                                                         *)
(* No lock or transaction spans two of these calls, so each call on the    *)
(* repository, the store, the SMPP manager or a reporter is one step, and  *)
(* steps of different threads interleave.  A thread is a record: where it  *)
(* is, the message it works on, the status it is about to write, how many  *)
(* recipients it has notified and one flag read earlier.                   *)
(***************************************************************************)
EXTENDS Naturals, FiniteSets

CONSTANTS
    Msgs,         \* message identifiers
    Workers,      \* request handlers and goroutines alive at once
    Sweeper, Dispatcher,
    NoMsg,        \* the message of an idle thread
    Iface,        \* interface a message is submitted on
    Dest,         \* destination the routing engine resolves for it
    Txn,          \* X-Mms-Transaction-ID carried by it
    Recipients,   \* number of recipients
    AskReport,    \* messages submitted with X-Mms-Delivery-Report: Yes
    Policy,       \* mm1.delivery_report_policy
    PatchStatus,  \* bound: statuses operators set through the admin API
    QueueLimit,   \* rows one dispatcher pass lists (100 in the code)
    MaxMessages,  \* bound: identifiers submitted in one behaviour
    MaxSubmits,   \* bound: submissions that carry the same identifier
    MaxCrashes    \* bound: process crashes

Interfaces == {"MM1", "MM7", "EAIF", "MM4", "MM3"}
Destinations == {"Local", "MM4", "MM3", "Reject"}
Status == {"Queued", "Delivering", "Delivered", "Expired", "Rejected",
           "Forwarded", "Unreachable"}
NoRow == "NoRow"

ASSUME ConstantsOK ==
    /\ Iface \in [Msgs -> Interfaces]
    /\ Dest \in [Msgs -> Destinations]
    /\ Recipients \in [Msgs -> Nat \ {0}]
    /\ AskReport \subseteq Msgs
    /\ Policy \in {"requested_only", "always_on_failure", "disabled"}
    /\ PatchStatus \subseteq Status
    /\ QueueLimit \in Nat \ {0}
    /\ MaxMessages \in Nat /\ MaxSubmits \in Nat /\ MaxCrashes \in Nat

ASSUME ThreadsDistinct ==
    /\ Sweeper # Dispatcher
    /\ Sweeper \notin Workers /\ Dispatcher \notin Workers
    /\ NoMsg \notin Msgs

(* Only m-send.req and MM4_forward.REQ carry the request; MM7, EAIF and    *)
(* MM3 messages are stored without it.                                     *)
ASSUME AskReportComesInPDU == \A m \in AskReport : Iface[m] \in {"MM1", "MM4"}

(* An MM3 sender is told 550 unless every recipient is local, before       *)
(* anything is stored.                                                     *)
ASSUME MM3IsLocal == \A m \in Msgs : Iface[m] = "MM3" => Dest[m] = "Local"

VARIABLES
    row,        \* messages.status of each identifier, or NoRow
    path,       \* messages whose row has a content_path
    recv,       \* messages.received_at, as a counter
    content,    \* identifiers with a payload in the store
    expired,    \* messages whose stored expiry has passed
    clock,      \* time, counted in rows created
    subs,       \* submissions seen per identifier
    crashes,
    pushed,     \* messages of which some recipient was notified
    relayed,    \* messages a peer MMSC or mail relay accepted
    retrieved,  \* messages a UE retrieved
    reportedOn, \* messages some party reported delivered (UE, SMSC, peer, operator)
    reports,    \* <<message, status>> delivery reports sent to the originator
    leaked,     \* payloads whose clean-up was skipped (see OrphanIsAccountedFor)
    thr,        \* thread states
    slist,      \* rows the sweeper listed and has not processed: <<message, has path>>
    qlist       \* rows the dispatcher listed and has not processed

db      == <<row, path, recv>>
env     == <<expired, clock, subs, crashes>>
history == <<pushed, relayed, retrieved, reportedOn, reports>>
lists   == <<slist, qlist>>
vars    == <<db, content, env, history, leaked, thr, lists>>

Threads == Workers \cup {Sweeper, Dispatcher}

PCs == {"idle", "put", "persist", "create", "rejectReport", "push",
        "markDelivering", "relay", "markUnreachable", "load", "serve",
        "mtUpdate", "mtRead", "mtReport", "cancel", "replacePut", "replaceRow",
        "receiptGet", "receiptUpdate", "admStatus", "admRow", "admContent",
        "sweepReport", "sweepContent", "sweepRow"}

ThreadState == [pc : PCs, m : Msgs \cup {NoMsg}, st : Status, n : Nat, p : BOOLEAN]
Idle == [pc |-> "idle", m |-> NoMsg, st |-> "Queued", n |-> 0, p |-> FALSE]

(* Identifiers the MMSC generates itself; MM4 and MM3 take the             *)
(* identifier from the peer's envelope, so a peer can send it again.       *)
ServerIds == {m \in Msgs : Iface[m] \in {"MM1", "MM7", "EAIF"}}

TypeOK ==
    /\ row \in [Msgs -> Status \cup {NoRow}]
    /\ path \subseteq Msgs
    /\ recv \in [Msgs -> Nat]
    /\ content \subseteq Msgs /\ leaked \subseteq Msgs
    /\ expired \subseteq Msgs
    /\ clock \in Nat /\ subs \in [Msgs -> Nat] /\ crashes \in Nat
    /\ pushed \subseteq Msgs /\ relayed \subseteq Msgs
    /\ retrieved \subseteq Msgs /\ reportedOn \subseteq Msgs
    /\ reports \subseteq Msgs \X Status
    /\ thr \in [Threads -> ThreadState]
    /\ slist \subseteq Msgs \X BOOLEAN
    /\ qlist \subseteq Msgs

Init ==
    /\ row = [m \in Msgs |-> NoRow] /\ path = {} /\ recv = [m \in Msgs |-> 0]
    /\ content = {} /\ leaked = {} /\ expired = {}
    /\ clock = 0 /\ subs = [m \in Msgs |-> 0] /\ crashes = 0
    /\ pushed = {} /\ relayed = {} /\ retrieved = {}
    /\ reportedOn = {} /\ reports = {}
    /\ thr = [t \in Threads |-> Idle]
    /\ slist = {} /\ qlist = {}

-----------------------------------------------------------------------------
(* Helpers.                                                                *)

At(t, pc) == thr[t].pc = pc
Free(t) == t \in Workers /\ At(t, "idle")
Goto(t, pc) == thr' = [thr EXCEPT ![t].pc = pc]
Finish(t) == thr' = [thr EXCEPT ![t] = Idle]
Begin(t, pc, m, st, p) ==
    thr' = [thr EXCEPT ![t] = [pc |-> pc, m |-> m, st |-> st, n |-> 0, p |-> p]]

HasRow(m) == row[m] # NoRow

(* UPDATE ... WHERE id: unconditional on the old status, and a missing row *)
(* is not an error.                                                        *)
UpdateMessageStatus(m, st) ==
    row' = [row EXCEPT ![m] = IF row[m] = NoRow THEN NoRow ELSE st]

(* The row GetMessageByTransactionID returns: the latest received one.     *)
ByTransactionID(x) ==
    {m \in Msgs : /\ HasRow(m) /\ Txn[m] = x
                  /\ \A o \in Msgs : HasRow(o) /\ Txn[o] = x => recv[o] <= recv[m]}

FailureStatus == {"Rejected", "Expired", "Unreachable"}

(* combinedReporter.SendDeliveryReport: MM1 originators by policy, VASPs   *)
(* and peer MMSCs always, mail originators never.                          *)
Reportable(m, st) ==
    \/ Iface[m] \in {"MM7", "EAIF", "MM4"}
    \/ /\ Iface[m] = "MM1"
       /\ Policy # "disabled"
       /\ m \in AskReport \/ (Policy = "always_on_failure" /\ st \in FailureStatus)

SendDeliveryReport(m, st) ==
    reports' = IF Reportable(m, st) THEN reports \cup {<<m, st>>} ELSE reports

-----------------------------------------------------------------------------
(* Submission: MOHandler.Handle, mm7 handleSubmit and handleEAIF, mm4 and  *)
(* mm3 handleDATA.                                                         *)

(* MM4, MM3 and EAIF hold the message in memory until it is stored; an     *)
(* EAIF message is only stored when it is delivered locally.               *)
FirstStep(m) ==
    IF Iface[m] # "EAIF" THEN "put"
    ELSE IF Dest[m] = "Local" THEN "persist" ELSE "create"

Submit(t, m) ==
    /\ Free(t)
    /\ Cardinality({o \in Msgs : subs[o] > 0} \ {m}) < MaxMessages
    /\ subs[m] < IF m \in ServerIds THEN 1 ELSE MaxSubmits
    /\ subs' = [subs EXCEPT ![m] = @ + 1]
    /\ Begin(t, FirstStep(m), m, "Queued", FALSE)
    /\ UNCHANGED <<db, content, expired, clock, crashes, history, leaked, lists>>

(* store.Put of the received payload.  MM1 and MM7 store a second time,    *)
(* after adaptation, when the destination is local.                        *)
PutContent(t) ==
    /\ At(t, "put")
    /\ content' = content \cup {thr[t].m}
    /\ Goto(t, IF Iface[thr[t].m] \in {"MM1", "MM7"} /\ Dest[thr[t].m] = "Local"
               THEN "persist" ELSE "create")
    /\ UNCHANGED <<db, env, history, leaked, lists>>

PersistLocalContent(t) ==
    /\ At(t, "persist")
    /\ content' = content \cup {thr[t].m}
    /\ Goto(t, "create")
    /\ UNCHANGED <<db, env, history, leaked, lists>>

(* Every early return before the row exists: the store or the database     *)
(* fails, routing or adaptation fails, the PDU has no parts, or the        *)
(* identifier is taken.  What was stored stays stored.                     *)
SubmitFails(t) ==
    /\ thr[t].pc \in {"put", "persist", "create"}
    /\ leaked' = leaked \cup ({thr[t].m} \cap content)
    /\ Finish(t)
    /\ UNCHANGED <<db, content, env, history, lists>>

InitialStatus(m) ==
    CASE Dest[m] \in {"MM4", "MM3"} /\ Iface[m] \in {"MM1", "MM7", "EAIF"} -> "Forwarded"
      [] Dest[m] = "Reject" /\ Iface[m] = "MM1" -> "Rejected"
      [] OTHER -> "Queued"

(* What the handler does once the row exists.  An MM4 message that is not  *)
(* local, and an MM7 message the route rejects, are left Queued.           *)
AfterCreate(m) ==
    CASE Dest[m] = "Local" -> "push"
      [] Dest[m] = "Reject" /\ Iface[m] = "MM1" -> "rejectReport"
      [] Dest[m] \in {"MM4", "MM3"} /\ Iface[m] \in {"MM1", "MM7", "EAIF"} -> "relay"
      [] OTHER -> "idle"

CreateMessage(t) ==
    LET m == thr[t].m IN
    /\ At(t, "create")
    /\ ~HasRow(m)
    /\ row' = [row EXCEPT ![m] = InitialStatus(m)]
    /\ path' = IF Iface[m] = "EAIF" /\ Dest[m] # "Local" THEN path \ {m} ELSE path \cup {m}
    /\ clock' = clock + 1
    /\ recv' = [recv EXCEPT ![m] = clock + 1]
    /\ expired' = expired \ {m}
    /\ IF AfterCreate(m) = "idle" THEN Finish(t) ELSE Goto(t, AfterCreate(m))
    /\ UNCHANGED <<content, subs, crashes, history, leaked, lists>>

-----------------------------------------------------------------------------
(* Notification and relay.  dispatchLocalNotification of MM1 (in its own   *)
(* goroutine), MM7, MM4, MM3 and of the queue dispatcher share one shape:  *)
(* a WAP push per recipient, then the status.                              *)

PushRecipient(t) ==
    LET m == thr[t].m IN
    /\ At(t, "push")
    /\ pushed' = pushed \cup {m}
    /\ thr' = [thr EXCEPT ![t].n = @ + 1,
                          ![t].pc = IF thr[t].n + 1 >= Recipients[m]
                                    THEN "markDelivering" ELSE "push"]
    /\ UNCHANGED <<db, content, env, relayed, retrieved, reportedOn, reports, leaked, lists>>

(* Only the MM7 handlers turn a failed notification into Unreachable; the  *)
(* others leave the row as it is, for the dispatcher to try again.         *)
NotificationError(t) ==
    IF t \in Workers /\ Iface[thr[t].m] \in {"MM7", "EAIF"}
    THEN Goto(t, "markUnreachable") ELSE Finish(t)

(* The push fails, or fails after the SMSC accepted a segment of it.       *)
PushFails(t) ==
    /\ At(t, "push")
    /\ pushed' \in {pushed, pushed \cup {thr[t].m}}
    /\ NotificationError(t)
    /\ UNCHANGED <<db, content, env, relayed, retrieved, reportedOn, reports, leaked, lists>>

(* Mutant: a notified message counts as delivered. *)
MarkDelivered(t) ==
    /\ At(t, "markDelivering")
    /\ UpdateMessageStatus(thr[t].m, "Delivered")
    /\ Finish(t)
    /\ UNCHANGED <<path, recv, content, env, history, leaked, lists>>

MarkDelivering(t) ==
    /\ At(t, "markDelivering")
    /\ UpdateMessageStatus(thr[t].m, "Delivering")
    /\ Finish(t)
    /\ UNCHANGED <<path, recv, content, env, history, leaked, lists>>

MarkDeliveringFails(t) ==
    /\ At(t, "markDelivering")
    /\ NotificationError(t)
    /\ UNCHANGED <<db, content, env, history, leaked, lists>>

(* mm4.Outbound.Send or mm3.Outbound.Send; a send can be reported failed   *)
(* after the peer accepted the message.                                    *)
RelaySucceeds(t) ==
    /\ At(t, "relay")
    /\ relayed' = relayed \cup {thr[t].m}
    /\ Finish(t)
    /\ UNCHANGED <<db, content, env, pushed, retrieved, reportedOn, reports, leaked, lists>>

RelayFails(t) ==
    /\ At(t, "relay")
    /\ relayed' \in {relayed, relayed \cup {thr[t].m}}
    /\ Goto(t, "markUnreachable")
    /\ UNCHANGED <<db, content, env, pushed, retrieved, reportedOn, reports, leaked, lists>>

(* The error of this update is dropped: it can be lost to the database or  *)
(* to the request context the failed send already cancelled.               *)
MarkUnreachable(t) ==
    /\ At(t, "markUnreachable")
    /\ \/ UpdateMessageStatus(thr[t].m, "Unreachable")
       \/ row' = row
    /\ Finish(t)
    /\ UNCHANGED <<path, recv, content, env, history, leaked, lists>>

(* dispatchOriginDeliveryReportAsync, for a message the route rejects.     *)
RejectReport(t) ==
    /\ At(t, "rejectReport")
    /\ \/ SendDeliveryReport(thr[t].m, "Rejected")
       \/ reports' = reports
    /\ Finish(t)
    /\ UNCHANGED <<db, content, env, pushed, relayed, retrieved, reportedOn, leaked, lists>>

-----------------------------------------------------------------------------
(* MM1 retrieval and UE responses: MTHandler.                              *)

(* A UE asks for a message it was notified of. *)
HandleRetrieve(t, m) ==
    /\ Free(t) /\ m \in pushed
    /\ HasRow(m)
    /\ Begin(t, "load", m, "Delivering", m \in path)
    /\ UNCHANGED <<db, content, env, history, leaked, lists>>

LoadParts(t) ==
    /\ At(t, "load")
    /\ IF thr[t].p /\ thr[t].m \in content THEN Goto(t, "serve") ELSE Finish(t)
    /\ UNCHANGED <<db, content, env, history, leaked, lists>>

ServeRetrieve(t) ==
    /\ At(t, "serve")
    /\ UpdateMessageStatus(thr[t].m, "Delivering")
    /\ retrieved' = retrieved \cup {thr[t].m}
    /\ Finish(t)
    /\ UNCHANGED <<path, recv, content, env, pushed, relayed, reportedOn, reports, leaked, lists>>

(* The UE of message u answers; the handler applies the answer to the row  *)
(* of message m that it finds for the transaction or message identifier.   *)
UEResponse(t, u, m, pc, st) ==
    /\ Free(t) /\ HasRow(m)
    /\ Begin(t, pc, m, st, FALSE)
    /\ reportedOn' = IF st = "Delivered" THEN reportedOn \cup {u} ELSE reportedOn
    /\ UNCHANGED <<db, content, env, pushed, relayed, retrieved, reports, leaked, lists>>

(* Every status but Rejected, a deferral too, counts as Delivered. *)
HandleNotifyResp(t, u, st) ==
    /\ u \in pushed /\ st \in {"Delivered", "Rejected"}
    /\ \E m \in ByTransactionID(Txn[u]) : UEResponse(t, u, m, "mtUpdate", st)

HandleAcknowledge(t, u) ==
    /\ u \in retrieved
    /\ \E m \in ByTransactionID(Txn[u]) : UEResponse(t, u, m, "mtUpdate", "Delivered")

HandleReadReport(t, u) ==
    /\ u \in retrieved
    /\ \E m \in ByTransactionID(Txn[u]) : UEResponse(t, u, m, "mtRead", "Delivered")

HandleDeliveryReport(t, u) ==
    /\ u \in retrieved
    /\ UEResponse(t, u, u, "mtUpdate", "Delivered")

(* A read report is answered by a read reply, which carries no status.     *)
ApplyUEResponse(t) ==
    /\ thr[t].pc \in {"mtUpdate", "mtRead"}
    /\ UpdateMessageStatus(thr[t].m, thr[t].st)
    /\ IF At(t, "mtRead") THEN Finish(t) ELSE Goto(t, "mtReport")
    /\ UNCHANGED <<path, recv, content, env, history, leaked, lists>>

ReportStatus(t) ==
    /\ At(t, "mtReport")
    /\ \/ SendDeliveryReport(thr[t].m, thr[t].st)
       \/ reports' = reports
    /\ Finish(t)
    /\ UNCHANGED <<db, content, env, pushed, relayed, retrieved, reportedOn, leaked, lists>>

-----------------------------------------------------------------------------
(* Reports from the network.                                               *)

(* handleSMPPDeliveryReceipt, after the receipt was stored and the         *)
(* submissions of the message aggregate to st (see ReceiptTracking).       *)
ReceiptArrives(t, m, st) ==
    /\ Free(t) /\ m \in pushed
    /\ st \in {"Delivered", "Unreachable"}
    /\ Begin(t, "receiptGet", m, st, FALSE)
    /\ reportedOn' = IF st = "Delivered" THEN reportedOn \cup {m} ELSE reportedOn
    /\ UNCHANGED <<db, content, env, pushed, relayed, retrieved, reports, leaked, lists>>

(* GetMessage: the flag keeps whether the row was Unreachable already.     *)
ReceiptGet(t) ==
    LET m == thr[t].m IN
    /\ At(t, "receiptGet")
    /\ IF HasRow(m)
       THEN thr' = [thr EXCEPT ![t].pc = "receiptUpdate",
                              ![t].p = (row[m] # "Unreachable")]
       ELSE Finish(t)
    /\ UNCHANGED <<db, content, env, history, leaked, lists>>

ReceiptUpdate(t) ==
    /\ At(t, "receiptUpdate")
    /\ UpdateMessageStatus(thr[t].m, thr[t].st)
    /\ IF thr[t].st = "Unreachable" /\ thr[t].p THEN Goto(t, "mtReport") ELSE Finish(t)
    /\ UNCHANGED <<path, recv, content, env, history, leaked, lists>>

(* mm4 handleDeliveryReport and handleReadReply: one update, by the        *)
(* identifier in the peer's envelope, without looking the row up.          *)
PeerReport(m, st) ==
    /\ m \in relayed /\ st \in {"Delivered", "Rejected"}
    /\ UpdateMessageStatus(m, st)
    /\ reportedOn' = IF st = "Delivered" THEN reportedOn \cup {m} ELSE reportedOn
    /\ UNCHANGED <<path, recv, content, env, pushed, relayed, retrieved, reports,
                   leaked, thr, lists>>

-----------------------------------------------------------------------------
(* MM7 cancel and replace, by the VASP that submitted the message.         *)

HandleCancel(t, m) ==
    /\ Free(t) /\ HasRow(m) /\ Iface[m] \in {"MM7", "EAIF"}
    /\ Begin(t, "cancel", m, "Rejected", FALSE)
    /\ UNCHANGED <<db, content, env, history, leaked, lists>>

HandleReplace(t, m) ==
    /\ Free(t) /\ HasRow(m) /\ Iface[m] \in {"MM7", "EAIF"}
    /\ Begin(t, "replacePut", m, "Queued", FALSE)
    /\ UNCHANGED <<db, content, env, history, leaked, lists>>

(* A deletion does not come to a payload written now: the row is gone, is  *)
(* about to go, or does not name a payload yet.                            *)
MissedByDeletion(m) ==
    ~HasRow(m) \/ m \notin path \/ (At(Sweeper, "sweepRow") /\ thr[Sweeper].m = m)

(* The payload is written whether or not the row still exists. *)
ReplacePut(t) ==
    /\ At(t, "replacePut")
    /\ content' = content \cup {thr[t].m}
    /\ leaked' = leaked \cup {m \in {thr[t].m} : MissedByDeletion(m)}
    /\ Goto(t, "replaceRow")
    /\ UNCHANGED <<db, env, history, lists>>

UpdateMessageContent(t) ==
    /\ At(t, "replaceRow")
    /\ path' = IF HasRow(thr[t].m) THEN path \cup {thr[t].m} ELSE path
    /\ Finish(t)
    /\ UNCHANGED <<row, recv, content, env, history, leaked, lists>>

-----------------------------------------------------------------------------
(* The admin API on messages.                                              *)

(* patchMessageStatus, and the requeue action (st = Queued). *)
AdminSetStatus(t, m, st) ==
    /\ Free(t) /\ HasRow(m)
    /\ Begin(t, "admStatus", m, st, FALSE)
    /\ reportedOn' = IF st = "Delivered" THEN reportedOn \cup {m} ELSE reportedOn
    /\ UNCHANGED <<db, content, env, pushed, relayed, retrieved, reports, leaked, lists>>

(* The update of handleCancel, patchMessageStatus and requeue. *)
ApplyStatus(t) ==
    /\ thr[t].pc \in {"cancel", "admStatus"}
    /\ UpdateMessageStatus(thr[t].m, thr[t].st)
    /\ Finish(t)
    /\ UNCHANGED <<path, recv, content, env, history, leaked, lists>>

(* Mutant: no look-up before the delete. *)
AdminDeleteUnchecked(t, m) ==
    /\ Free(t)
    /\ Begin(t, "admRow", m, row[m], m \in path)
    /\ UNCHANGED <<db, content, env, history, leaked, lists>>

(* Mutant: the payload goes first, and the row only when that worked. *)
AdminDeletePayloadFirst(t, m) ==
    /\ Free(t) /\ row[m] \in {"Queued", "Delivering"}
    /\ Begin(t, "admContent", m, row[m], m \in path)
    /\ UNCHANGED <<db, content, env, history, leaked, lists>>

(* deleteMessage: the status is checked on a copy of the row. *)
AdminDelete(t, m) ==
    /\ Free(t) /\ row[m] \in {"Queued", "Delivering"}
    /\ Begin(t, "admRow", m, row[m], m \in path)
    /\ UNCHANGED <<db, content, env, history, leaked, lists>>

(* Mutant: the payload is forgotten. *)
AdminDeleteRowOnly(t) ==
    /\ At(t, "admRow")
    /\ row' = [row EXCEPT ![thr[t].m] = NoRow]
    /\ Finish(t)
    /\ UNCHANGED <<path, recv, content, env, history, leaked, lists>>

(* A row that is already gone ends the request before the store is touched. *)
AdminDeleteRow(t) ==
    LET m == thr[t].m IN
    /\ At(t, "admRow")
    /\ row' = [row EXCEPT ![m] = NoRow]
    /\ IF HasRow(m) /\ thr[t].p THEN Goto(t, "admContent") ELSE Finish(t)
    /\ UNCHANGED <<path, recv, content, env, history, leaked, lists>>

AdminDeleteContent(t) ==
    /\ At(t, "admContent")
    /\ \/ content' = content \ {thr[t].m} /\ UNCHANGED leaked
       \/ UNCHANGED content /\ leaked' = leaked \cup {thr[t].m}
    /\ Finish(t)
    /\ UNCHANGED <<db, env, history, lists>>

(* A repository or store call of a worker returns an error: the handler    *)
(* gives up.                                                               *)
RepositoryFails(t) ==
    /\ t \in Workers
    /\ thr[t].pc \in {"load", "serve", "mtUpdate", "mtRead", "receiptGet", "receiptUpdate",
                      "cancel", "replacePut", "replaceRow", "admStatus", "admRow"}
    /\ Finish(t)
    /\ UNCHANGED <<db, content, env, history, leaked, lists>>

-----------------------------------------------------------------------------
(* The queue dispatcher.                                                   *)

Newer(m, S) == {o \in S : recv[o] > recv[m]}

(* Mutant: the limit is off by one. *)
AllButOneQueued ==
    LET queued == {m \in Msgs : row[m] = "Queued"}
    IN  {m \in queued : Cardinality(Newer(m, queued)) + 1 < QueueLimit}

(* ListMessages: the QueueLimit most recently received Queued rows. *)
NewestQueued ==
    LET queued == {m \in Msgs : row[m] = "Queued"}
    IN  {m \in queued : Cardinality(Newer(m, queued)) < QueueLimit}

QueueList ==
    /\ At(Dispatcher, "idle") /\ qlist = {}
    /\ NewestQueued # {}
    /\ qlist' = NewestQueued
    /\ UNCHANGED <<db, content, env, history, leaked, thr, slist>>

(* The listed copy is used: the row may have changed since. *)
QueueNext ==
    \E m \in qlist :
        /\ At(Dispatcher, "idle")
        /\ Newer(m, qlist) = {}
        /\ qlist' = qlist \ {m}
        /\ IF m \in expired THEN UNCHANGED thr
           ELSE Begin(Dispatcher, "push", m, "Queued", FALSE)
        /\ UNCHANGED <<db, content, env, history, leaked, slist>>

-----------------------------------------------------------------------------
(* The expiry sweeper.                                                     *)

(* Mutant: rows are listed whatever their expiry. *)
AllRows == {m \in Msgs : HasRow(m)}

(* Mutant: only undelivered rows are listed. *)
UndeliveredExpiredRows ==
    {m \in Msgs : row[m] \in {"Queued", "Delivering"} /\ m \in expired}

(* ListExpiredMessages: every status. *)
ExpiredRows == {m \in Msgs : HasRow(m) /\ m \in expired}

SweepList ==
    /\ At(Sweeper, "idle") /\ slist = {}
    /\ ExpiredRows # {}
    /\ slist' = {<<m, m \in path>> : m \in ExpiredRows}
    /\ UNCHANGED <<db, content, env, history, leaked, thr, qlist>>

SweepMark ==
    \E e \in slist :
        /\ At(Sweeper, "idle")
        /\ slist' = slist \ {e}
        /\ UpdateMessageStatus(e[1], "Expired")
        /\ Begin(Sweeper, IF e[1] \in AskReport THEN "sweepReport" ELSE "sweepContent",
                 e[1], "Expired", e[2])
        /\ UNCHANGED <<path, recv, content, env, history, leaked, qlist>>

SweepMarkFails ==
    \E e \in slist :
        /\ At(Sweeper, "idle")
        /\ slist' = slist \ {e}
        /\ UNCHANGED <<db, content, env, history, leaked, thr, qlist>>

SweepReport ==
    /\ At(Sweeper, "sweepReport")
    /\ \/ SendDeliveryReport(thr[Sweeper].m, "Expired")
       \/ reports' = reports
    /\ Goto(Sweeper, "sweepContent")
    /\ UNCHANGED <<db, content, env, pushed, relayed, retrieved, reportedOn, leaked, lists>>

(* purge: a store error is logged and the row is deleted all the same. *)
SweepContent ==
    LET m == thr[Sweeper].m IN
    /\ At(Sweeper, "sweepContent")
    /\ IF thr[Sweeper].p
       THEN \/ content' = content \ {m} /\ UNCHANGED leaked
            \/ UNCHANGED content /\ leaked' = leaked \cup {m}
       ELSE UNCHANGED <<content, leaked>>
    /\ Goto(Sweeper, "sweepRow")
    /\ UNCHANGED <<db, env, history, lists>>

SweepRow ==
    /\ At(Sweeper, "sweepRow")
    /\ row' = [row EXCEPT ![thr[Sweeper].m] = NoRow]
    /\ Finish(Sweeper)
    /\ UNCHANGED <<path, recv, content, env, history, leaked, lists>>

SweepRowFails ==
    /\ At(Sweeper, "sweepRow")
    /\ Finish(Sweeper)
    /\ UNCHANGED <<db, content, env, history, leaked, lists>>

-----------------------------------------------------------------------------
(* Environment.                                                            *)

Expire(m) ==
    /\ HasRow(m) /\ m \notin expired
    /\ expired' = expired \cup {m}
    /\ UNCHANGED <<db, content, clock, subs, crashes, history, leaked, thr, lists>>

(* The process stops and starts: memory is lost, rows and payloads stay. *)
Crash ==
    /\ crashes < MaxCrashes
    /\ crashes' = crashes + 1
    /\ leaked' = leaked \cup
          {m \in content : \E t \in Threads : /\ thr[t].m = m
                                             /\ thr[t].pc \in {"persist", "create", "admContent"}}
    /\ thr' = [t \in Threads |-> Idle]
    /\ slist' = {} /\ qlist' = {}
    /\ UNCHANGED <<db, content, expired, clock, subs, history>>

NotificationStep(t) ==
    \/ PushRecipient(t) \/ PushFails(t) \/ MarkDelivering(t) \/ MarkDeliveringFails(t)

SubmitStep(t) ==
    \/ \E m \in Msgs : Submit(t, m)
    \/ PutContent(t) \/ PersistLocalContent(t) \/ SubmitFails(t) \/ CreateMessage(t)
    \/ NotificationStep(t)
    \/ RelaySucceeds(t) \/ RelayFails(t) \/ MarkUnreachable(t) \/ RejectReport(t)

MM1Step(t) ==
    \/ \E m \in Msgs : HandleRetrieve(t, m)
    \/ LoadParts(t) \/ ServeRetrieve(t)
    \/ \E u \in Msgs, st \in Status : HandleNotifyResp(t, u, st)
    \/ \E u \in Msgs : HandleAcknowledge(t, u)
    \/ \E u \in Msgs : HandleReadReport(t, u)
    \/ \E u \in Msgs : HandleDeliveryReport(t, u)
    \/ ApplyUEResponse(t) \/ ReportStatus(t)

ReceiptStep(t) ==
    \/ \E m \in Msgs, st \in Status : ReceiptArrives(t, m, st)
    \/ ReceiptGet(t) \/ ReceiptUpdate(t)

VASPStep(t) ==
    \/ \E m \in Msgs : HandleCancel(t, m)
    \/ \E m \in Msgs : HandleReplace(t, m)
    \/ ReplacePut(t) \/ UpdateMessageContent(t)

AdminStep(t) ==
    \/ \E m \in Msgs, st \in PatchStatus : AdminSetStatus(t, m, st)
    \/ \E m \in Msgs : AdminDelete(t, m)
    \/ ApplyStatus(t) \/ AdminDeleteRow(t) \/ AdminDeleteContent(t)

DispatcherStep == QueueList \/ QueueNext \/ NotificationStep(Dispatcher)

SweeperStep ==
    \/ SweepList \/ SweepMark \/ SweepMarkFails \/ SweepReport
    \/ SweepContent \/ SweepRow \/ SweepRowFails

Next ==
    \/ \E t \in Workers : \/ SubmitStep(t) \/ MM1Step(t) \/ ReceiptStep(t)
                           \/ VASPStep(t) \/ AdminStep(t) \/ RepositoryFails(t)
    \/ \E m \in Msgs, st \in Status : PeerReport(m, st)
    \/ DispatcherStep
    \/ SweeperStep
    \/ \E m \in Msgs : Expire(m)
    \/ Crash

Spec == Init /\ [][Next]_vars

(* Both loops run on a ticker for as long as the process lives, the SMSC   *)
(* answers each submit or closes its connection (a submit has no deadline  *)
(* of its own, see SMPPSession), and a database that fails now and then    *)
(* does not fail for ever.                                                 *)
Fairness ==
    /\ WF_vars(DispatcherStep)
    /\ WF_vars(SweeperStep)
    /\ SF_vars(SweepMark)
    /\ SF_vars(SweepRow)

FairSpec == Spec /\ Fairness

-----------------------------------------------------------------------------
(* Properties.                                                             *)

(* A message that has not expired can be retrieved: as long as its row     *)
(* names a payload, the payload is in the store.  The submission handlers  *)
(* store before they insert, deleteMessage removes the row before the      *)
(* payload, and purge removes payloads of expired messages only.  It is    *)
(* stated for identifiers the MMSC generates.                              *)
UnexpiredRowHasContent ==
    \A m \in ServerIds :
        HasRow(m) /\ m \in path /\ m \notin expired => m \in content

(* A payload outlives its row only while a handler is still at work on it, *)
(* or because a clean-up was skipped: a submission that failed after Put,  *)
(* a store error during a delete, a replace that wrote the payload after a *)
(* deletion had passed it, or a crash between payload and row.             *)
(* It is stated for identifiers the MMSC generates.                        *)
OrphanIsAccountedFor ==
    \A m \in ServerIds \cap (content \ leaked) :
        \/ HasRow(m)
        \/ \E t \in Threads : /\ thr[t].m = m
                             /\ thr[t].pc \in {"persist", "create", "admContent"}

(* A row is Delivered, and an originator is told Delivered, only when some *)
(* party (its UE, the SMSC, a peer, an operator) reported on that message: *)
(* no answer is applied to another message.                                *)
DeliveredIsAboutThisMessage ==
    \A m \in Msgs :
        row[m] = "Delivered" \/ <<m, "Delivered">> \in reports => m \in reportedOn

(* The sweeper deletes every row whose expiry has passed, whatever the     *)
(* other handlers do to it meanwhile.                                      *)
ExpiredIsSwept ==
    \A m \in Msgs : (HasRow(m) /\ m \in expired) ~> ~HasRow(m)

(* A Queued row is tried again: the dispatcher comes to it unless it stops *)
(* being Queued or expires first.                                          *)
QueuedIsRetried ==
    \A m \in Msgs :
        (row[m] = "Queued") ~> \/ row[m] # "Queued" \/ m \in expired
                              \/ thr[Dispatcher].m = m

(* "removes messages that have passed their expiry": what the sweeper      *)
(* deletes, row or payload, is expired, though it works from a list and    *)
(* the row was cancelled, deleted, replaced or answered since.  It is      *)
(* stated for identifiers the MMSC generates: a peer that sends a deleted  *)
(* message again makes the list point to the new one.                      *)
SweepsOnlyExpired ==
    [][\A m \in ServerIds :
          /\ thr[Sweeper].m = m /\ thr[Sweeper].pc \in {"sweepContent", "sweepRow"}
          /\ (HasRow(m) /\ row'[m] = NoRow) \/ (m \in content /\ m \notin content')
          => m \in expired]_vars

-----------------------------------------------------------------------------
=============================================================================
