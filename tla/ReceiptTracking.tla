-------------------------- MODULE ReceiptTracking --------------------------
(***************************************************************************)
(* WAP pushes, the submissions they leave in smpp_submissions, and the     *)
(* SMSC's receipts that decide the status of a message.                    *)
(*                                                                         *)
(* Pushers are the goroutines that notify the recipients of a message: its *)
(* first notification and the retries of the queue dispatcher, which may   *)
(* overlap.  Handlers are the goroutines the SMPP session starts, one per  *)
(* receipt, and so receipts are applied in any order.  One step is one     *)
(* call on the repository, the SMSC or the reporter.                       *)
(***************************************************************************)
EXTENDS Naturals, FiniteSets

CONSTANTS
    Msgs,
    Pushers, Handlers,
    NoMsg,
    Upstreams,      \* SMPP upstreams by name
    NoUpstream,     \* no upstream, as when none is configured
    Ids,            \* bound: message identifiers one SMSC hands out
    NoId, NoSub,    \* no identifier, no submission
    Recipients,     \* recipients of a message are 1 .. Recipients
    SegmentCount,   \* SMS segments of one WAP push
    MaxPushes,      \* bound: pushes of one message
    MaxCrashes      \* bound: process crashes

VARIABLES
    row,       \* messages.status
    sub,       \* smpp_submissions by its key, <<upstream, SMPP message id>>
    sent,      \* segments the SMSCs accepted, by the same key
    outcome,   \* what became of each accepted segment
    pusher, handler,
    pushes,    \* pushes begun per message
    crashes,
    reported,  \* messages whose originator was told Unreachable
    lost       \* messages whose report failed or was lost in a crash

table == <<row, sub>>
smsc  == <<sent, outcome>>
bounds == <<pushes, crashes>>
history == <<reported, lost>>
vars == <<table, smsc, pusher, handler, bounds, history>>

Status == {"Queued", "Delivering", "Delivered", "Unreachable"}
SubmissionState == {"Pending", "Delivered", "Failed"}
Stat == {"ENROUTE", "DELIVRD", "UNDELIV"}  \* one of each kind the code tells apart
Keys == Upstreams \X Ids
Segments == 0 .. SegmentCount - 1

Segment == [m : Msgs, r : 1 .. Recipients, s : Segments]
Submission == [m : Msgs, r : 1 .. Recipients, s : Segments, count : Nat, state : SubmissionState]

ASSUME ConstantsOK ==
    /\ Recipients \in Nat \ {0} /\ SegmentCount \in Nat \ {0}
    /\ NoMsg \notin Msgs /\ NoUpstream \notin Upstreams /\ NoId \notin Ids
    /\ NoSub \notin Segment \cup Submission
    /\ MaxPushes \in Nat /\ MaxCrashes \in Nat

PusherState == [pc : {"idle", "choose", "submit", "track", "mark"}, m : Msgs \cup {NoMsg},
                r : 1 .. Recipients, s : Segments,
                up : Upstreams \cup {NoUpstream}, id : Ids \cup {NoId}]
IdlePusher == [pc |-> "idle", m |-> NoMsg, r |-> 1, s |-> 0, up |-> NoUpstream, id |-> NoId]

HandlerState == [pc : {"idle", "list", "get", "update", "report"}, m : Msgs \cup {NoMsg},
                 st : Status, first : BOOLEAN]
IdleHandler == [pc |-> "idle", m |-> NoMsg, st |-> "Queued", first |-> FALSE]

TypeOK ==
    /\ row \in [Msgs -> Status]
    /\ sub \in [Keys -> Submission \cup {NoSub}]
    /\ sent \in [Keys -> Segment \cup {NoSub}]
    /\ outcome \in [Keys -> SubmissionState]
    /\ pusher \in [Pushers -> PusherState]
    /\ handler \in [Handlers -> HandlerState]
    /\ pushes \in [Msgs -> Nat] /\ crashes \in Nat
    /\ reported \subseteq Msgs /\ lost \subseteq Msgs

Init ==
    /\ row = [m \in Msgs |-> "Queued"]
    /\ sub = [k \in Keys |-> NoSub]
    /\ sent = [k \in Keys |-> NoSub] /\ outcome = [k \in Keys |-> "Pending"]
    /\ pusher = [p \in Pushers |-> IdlePusher]
    /\ handler = [h \in Handlers |-> IdleHandler]
    /\ pushes = [m \in Msgs |-> 0] /\ crashes = 0
    /\ reported = {} /\ lost = {}

-----------------------------------------------------------------------------
(* Pushing a notification: dispatchLocalNotification, then                 *)
(* SubmitWAPPushForMessage per recipient and submitSegment per segment.    *)

Key(p) == <<pusher[p].up, pusher[p].id>>
EndPush(p) == pusher' = [pusher EXCEPT ![p] = IdlePusher]
Move(p, pc, r, s, up, id) ==
    pusher' = [pusher EXCEPT ![p] =
                  [pc |-> pc, m |-> pusher[p].m, r |-> r, s |-> s, up |-> up, id |-> id]]

(* Mutant: one segment too many. *)
AdvancePastTheEnd(p) ==
    LET s == pusher[p].s  r == pusher[p].r IN
    \/ s + 1 <= SegmentCount /\ Move(p, "submit", r, s + 1, pusher[p].up, NoId)
    \/ /\ s + 1 > SegmentCount /\ r < Recipients
       /\ Move(p, "choose", r + 1, 0, NoUpstream, NoId)
    \/ /\ s + 1 > SegmentCount /\ r >= Recipients
       /\ Move(p, "mark", r, s, NoUpstream, NoId)

(* The next segment, the next recipient, or the end of the push. *)
Advance(p) ==
    LET s == pusher[p].s  r == pusher[p].r IN
    \/ s + 1 < SegmentCount /\ Move(p, "submit", r, s + 1, pusher[p].up, NoId)
    \/ /\ s + 1 >= SegmentCount /\ r < Recipients
       /\ Move(p, "choose", r + 1, 0, NoUpstream, NoId)
    \/ /\ s + 1 >= SegmentCount /\ r >= Recipients
       /\ Move(p, "mark", r, s, NoUpstream, NoId)

(* A message that is Queued when it is submitted or listed is pushed by    *)
(* its own handler or by the dispatcher, whatever its status is by the     *)
(* first segment; a retry starts again with the first recipient.           *)
StartPush(p, m) ==
    /\ pusher[p].pc = "idle"
    /\ row[m] = "Queued" /\ pushes[m] < MaxPushes
    /\ pushes' = [pushes EXCEPT ![m] = @ + 1]
    /\ pusher' = [pusher EXCEPT ![p] = [pc |-> "choose", m |-> m, r |-> 1, s |-> 0,
                                         up |-> NoUpstream, id |-> NoId]]
    /\ UNCHANGED <<table, smsc, handler, crashes, history>>

(* The upstream the manager lists first, order[0]; a refresh may change it *)
(* at any time.                                                            *)
ChooseUpstream(p) ==
    /\ pusher[p].pc = "choose"
    /\ \/ EndPush(p)
       \/ \E up \in Upstreams : Move(p, "submit", pusher[p].r, 0, up, NoId)
    /\ UNCHANGED <<table, smsc, handler, bounds, history>>

(* The SMSC takes the segment under an identifier of its own. *)
Accept(p, k) ==
    /\ sent[k] = NoSub
    /\ sent' = [sent EXCEPT ![k] = [m |-> pusher[p].m, r |-> pusher[p].r, s |-> pusher[p].s]]

SubmitSegment(p) ==
    /\ pusher[p].pc = "submit"
    /\ \E id \in Ids :
          /\ Accept(p, <<pusher[p].up, id>>)
          /\ Move(p, "track", pusher[p].r, pusher[p].s, pusher[p].up, id)
    /\ UNCHANGED <<table, outcome, handler, bounds, history>>

(* The response carries no identifier: nothing to track. *)
SubmitUntracked(p) ==
    /\ pusher[p].pc = "submit"
    /\ Advance(p)
    /\ UNCHANGED <<table, smsc, handler, bounds, history>>

(* An error status, a lost connection or a timeout; the SMSC may have the  *)
(* segment all the same.                                                   *)
SubmitFails(p) ==
    /\ pusher[p].pc = "submit"
    /\ \/ UNCHANGED sent
       \/ \E id \in Ids : Accept(p, <<pusher[p].up, id>>)
    /\ EndPush(p)
    /\ UNCHANGED <<table, outcome, handler, bounds, history>>

(* An upsert: a row with this key is overwritten. *)
CreateSMPPSubmission(p) ==
    /\ pusher[p].pc = "track"
    /\ sub' = [sub EXCEPT ![Key(p)] =
                  [m |-> pusher[p].m, r |-> pusher[p].r, s |-> pusher[p].s,
                   count |-> SegmentCount, state |-> "Pending"]]
    /\ Advance(p)
    /\ UNCHANGED <<row, smsc, handler, bounds, history>>

MarkDelivering(p) ==
    /\ pusher[p].pc = "mark"
    /\ row' = [row EXCEPT ![pusher[p].m] = "Delivering"]
    /\ EndPush(p)
    /\ UNCHANGED <<sub, smsc, handler, bounds, history>>

(* The database fails: the push ends in an error and the row stays as it   *)
(* is, although segments were sent.                                        *)
PusherFails(p) ==
    /\ pusher[p].pc \in {"track", "mark"}
    /\ EndPush(p)
    /\ UNCHANGED <<table, smsc, handler, bounds, history>>

-----------------------------------------------------------------------------
(* A receipt: handleSMPPDeliveryReceipt.                                   *)

(* Mutant: an intermediate state counts as a failure. *)
MapUnknownAsFailed(stat) == IF stat = "DELIVRD" THEN "Delivered" ELSE "Failed"

MapReceiptStatus(stat) ==
    CASE stat = "DELIVRD" -> "Delivered"
      [] stat = "UNDELIV" -> "Failed"
      [] OTHER -> "Pending"

EndReceipt(h) == handler' = [handler EXCEPT ![h] = IdleHandler]
Hold(h, pc, m, st, first) ==
    handler' = [handler EXCEPT ![h] = [pc |-> pc, m |-> m, st |-> st, first |-> first]]

(* Mutant: the name of the upstream is not part of the key. *)
MatchingAnyUpstream(k) == {j \in Keys : j[2] = k[2] /\ sub[j] # NoSub}

(* The submissions a receipt for key k updates: at most one.               *)
Matching(k) == {k} \cap {j \in Keys : sub[j] # NoSub}

(* What an SMSC may say of a segment: intermediate states, and then the    *)
(* one outcome.  Each receipt has a goroutine of its own and the SMSC      *)
(* repeats a receipt whose acknowledgement it missed, so a receipt may be  *)
(* applied late, after others, and again.                                  *)
Receipts ==
    {e \in Keys \X Stat :
        /\ sent[e[1]] # NoSub
        /\ \/ e[2] = "ENROUTE"
           \/ e[2] = "DELIVRD" /\ outcome[e[1]] = "Delivered"
           \/ e[2] = "UNDELIV" /\ outcome[e[1]] = "Failed"}

(* UpdateSMPPSubmissionReceipt, whatever the old state.  A receipt without *)
(* a submission, one that comes before it is tracked, changes nothing.     *)
TakeReceipt(h) ==
    /\ handler[h].pc = "idle"
    /\ \E e \in Receipts : \E j \in Matching(e[1]) :
          /\ sub' = [sub EXCEPT ![j].state = MapReceiptStatus(e[2])]
          /\ Hold(h, "list", sub[j].m, "Queued", FALSE)
    /\ UNCHANGED <<row, smsc, pusher, bounds, history>>

(* The submissions of message m, and those to the recipient of one of them *)
(* on the same upstream.                                                   *)
Submissions(m) == {k \in Keys : sub[k] # NoSub /\ sub[k].m = m}
Group(k) == {j \in Submissions(sub[k].m) : j[1] = k[1] /\ sub[j].r = sub[k].r}

(* As many distinct segments of the group are delivered as it expects.     *)
Complete(k) ==
    LET G == Group(k) IN
    \E c \in {sub[j].count : j \in G} :
        /\ \A j \in G : sub[j].count <= c
        /\ Cardinality({sub[j].s : j \in {i \in G : sub[i].state = "Delivered"}}) = c

(* aggregateMessageStatusFromSMPP: a failure anywhere decides.             *)
Aggregate(m) ==
    LET S == Submissions(m) IN
    IF \E k \in S : sub[k].state = "Failed" THEN {"Unreachable"}
    ELSE IF S # {} /\ \A k \in S : Complete(k) THEN {"Delivered"}
    ELSE {}

ListSMPPSubmissions(h) ==
    LET m == handler[h].m IN
    /\ handler[h].pc = "list"
    /\ \/ Aggregate(m) = {} /\ EndReceipt(h)
       \/ \E st \in Aggregate(m) : Hold(h, "get", m, st, FALSE)
    /\ UNCHANGED <<table, smsc, pusher, bounds, history>>

(* Mutant: only a message that was being delivered is reported. *)
GetDelivering(h) ==
    /\ handler[h].pc = "get"
    /\ Hold(h, "update", handler[h].m, handler[h].st, row[handler[h].m] = "Delivering")
    /\ UNCHANGED <<table, smsc, pusher, bounds, history>>

(* The previous status, read before the update. *)
GetMessage(h) ==
    /\ handler[h].pc = "get"
    /\ Hold(h, "update", handler[h].m, handler[h].st, row[handler[h].m] # "Unreachable")
    /\ UNCHANGED <<table, smsc, pusher, bounds, history>>

UpdateMessageStatus(h) ==
    /\ handler[h].pc = "update"
    /\ row' = [row EXCEPT ![handler[h].m] = handler[h].st]
    /\ IF handler[h].st = "Unreachable" /\ handler[h].first
       THEN Hold(h, "report", handler[h].m, "Unreachable", TRUE)
       ELSE EndReceipt(h)
    /\ UNCHANGED <<sub, smsc, pusher, bounds, history>>

SendDeliveryReport(h) ==
    /\ handler[h].pc = "report"
    /\ \/ reported' = reported \cup {handler[h].m} /\ UNCHANGED lost
       \/ lost' = lost \cup {handler[h].m} /\ UNCHANGED reported
    /\ EndReceipt(h)
    /\ UNCHANGED <<table, smsc, pusher, bounds>>

(* The database fails, or the message was deleted meanwhile.               *)
HandlerFails(h) ==
    /\ handler[h].pc \in {"list", "get", "update"}
    /\ EndReceipt(h)
    /\ UNCHANGED <<table, smsc, pusher, bounds, history>>

-----------------------------------------------------------------------------
(* The SMSC, the operator and the process.                                 *)

(* The SMSC delivers a segment, or gives it up. *)
Conclude(k, result) ==
    /\ sent[k] # NoSub /\ outcome[k] = "Pending"
    /\ outcome' = [outcome EXCEPT ![k] = result]
    /\ UNCHANGED <<table, sent, pusher, handler, bounds, history>>

Requeue(m) ==
    /\ row' = [row EXCEPT ![m] = "Queued"]
    /\ pushes[m] < MaxPushes
    /\ UNCHANGED <<sub, smsc, pusher, handler, bounds, history>>

Crash ==
    /\ crashes < MaxCrashes /\ crashes' = crashes + 1
    /\ lost' = lost \cup {m \in Msgs : \E h \in Handlers :
                             handler[h].pc = "report" /\ handler[h].m = m}
    /\ pusher' = [p \in Pushers |-> IdlePusher]
    /\ handler' = [h \in Handlers |-> IdleHandler]
    /\ UNCHANGED <<table, smsc, pushes, reported>>

PusherStep(p) ==
    \/ \E m \in Msgs : StartPush(p, m)
    \/ ChooseUpstream(p) \/ SubmitSegment(p) \/ SubmitUntracked(p) \/ SubmitFails(p)
    \/ CreateSMPPSubmission(p) \/ MarkDelivering(p) \/ PusherFails(p)

HandlerStep(h) ==
    \/ TakeReceipt(h) \/ ListSMPPSubmissions(h) \/ GetMessage(h)
    \/ UpdateMessageStatus(h) \/ SendDeliveryReport(h) \/ HandlerFails(h)

Next ==
    \/ \E p \in Pushers : PusherStep(p)
    \/ \E h \in Handlers : HandlerStep(h)
    \/ \E k \in Keys, result \in {"Delivered", "Failed"} : Conclude(k, result)
    \/ \E m \in Msgs : Requeue(m)
    \/ Crash

Spec == Init /\ [][Next]_vars

-----------------------------------------------------------------------------
(* Properties.                                                             *)

(* Some recipient got every segment: retries, two upstreams, repeated and  *)
(* late receipts never add up to more than the SMSCs delivered.  The       *)
(* segments may come from different attempts, and other recipients may     *)
(* not have been tried yet.                                                *)
SomeRecipientHasAll(m) ==
    \E r \in 1 .. Recipients : \A s \in Segments :
        \E k \in Keys : /\ sent[k] = [m |-> m, r |-> r, s |-> s]
                        /\ outcome[k] = "Delivered"

(* A receipt makes a message Delivered only when the SMSCs delivered every *)
(* segment to one of its recipients at least.                              *)
DeliveredIsConfirmed ==
    \A m \in Msgs : row[m] = "Delivered" => SomeRecipientHasAll(m)

(* A receipt makes a message Unreachable only when a segment of that       *)
(* message failed.                                                         *)
UnreachableIsConfirmed ==
    \A m \in Msgs : row[m] = "Unreachable" =>
        \E k \in Keys : sent[k] # NoSub /\ sent[k].m = m /\ outcome[k] = "Failed"

(* The originator of an Unreachable message was told, is about to be, or   *)
(* the report failed: of several handlers at once, the first one to write  *)
(* Unreachable reports it.                                                 *)
Told(m) ==
    \/ m \in reported \cup lost
    \/ \E h \in Handlers : handler[h].pc = "report" /\ handler[h].m = m

FailureIsTold == \A m \in Msgs : row[m] = "Unreachable" => Told(m)
=============================================================================
