----------------------------- MODULE PeerRelay -----------------------------
(***************************************************************************)
(* Two MMSCs that relay to each other: this one forwards a message over    *)
(* MM4 or MM3, the peer - the same program - stores and notifies it, and   *)
(* over MM4 answers with a forward response and with reports of what       *)
(* became of it (Outbound in mm4/outbound.go and mm3/outbound.go, Handle   *)
(* and handleDATA in mm4/inbound.go and mm3/inbound.go).                   *)
(*                                                                         *)
(* Each mail is sent over connections of its own by the goroutine that     *)
(* caused it; the receiving server handles each in a goroutine too.  No    *)
(* read has a deadline: a peer that stays silent is waited for.            *)
(***************************************************************************)
EXTENDS MailSession, FiniteSets, Functions

CONSTANTS
    Msgs,
    To,             \* its recipients
    PeerTLS,        \* the peer's settings: TLSEnabled
    PeerAuth,       \*   SMTPAuth
    AckRequested,   \* request_forward_acknowledgement
    maxRetries,
    MaxFaults,      \* bound: failures of connections and of the peer
    MaxOutcomes     \* bound: reports of one message

VARIABLES
    via,        \* the interface each message is relayed over; it never changes
    status,     \* of the message's row at this MMSC
    stored,     \* the peer's rows and the recipients of each
    payload,    \* the peer's payloads
    sender,     \* the sending of each mail
    server,     \* the receiving server's part of it
    silent,     \* mails whose connection no longer answers
    faults,
    told,       \* history: what the peer reported of each message
    heard,      \* history: messages a report was handled of
    causes      \* history: stored messages whose sender could not know

peer == <<stored, payload>>
history == <<told, heard, causes>>
vars == <<via, status, peer, sender, server, silent, faults, history>>

ASSUME RelayConstants ==
    /\ \A m \in Msgs : To[m] \in Seq(Range(To[m])) /\ To[m] # <<>>
    /\ {PeerTLS, PeerAuth, AckRequested} \subseteq BOOLEAN
    /\ maxRetries \in Nat \ {0} /\ MaxFaults \in Nat /\ MaxOutcomes \in Nat

Outcomes == {"Delivered", "Rejected", "Expired", "Unreachable"}

Forward(m) == [type |-> "forward", msg |-> m, says |-> ""]
Response(m) == [type |-> "response", msg |-> m, says |-> "Ok"]
ReadReply(m) == [type |-> "read", msg |-> m, says |-> "Read"]

mm4StatusForMessage(st) ==
    CASE st = "Delivered" -> "Retrieved"
      [] st = "Unreachable" -> "Unrecognised"
      [] OTHER -> st

Report(m, st) == [type |-> "report", msg |-> m, says |-> mm4StatusForMessage(st)]

\* Mutant: whatever is not a retrieval is a rejection.
RejectedUnlessRetrieved(says) == IF says \in {"Retrieved", "Read"} THEN "Delivered" ELSE "Rejected"

\* handleDeliveryReport looks for "reject" and "unreach"; anything else, a read
\* reply too, is a delivery.
ReportedStatus(says) == IF says = "Rejected" THEN "Rejected" ELSE "Delivered"

Mails == UNION {{Forward(m), Response(m), ReadReply(m)} \cup {Report(m, st) : st \in Outcomes} : m \in Msgs}

\* A report goes to the originator, and a mail over MM3 is not tried again.
Rcpts(x) == IF x.type = "forward" THEN To[x.msg] ELSE <<"originator">>
Attempts(x) == IF via[x.msg] = "MM4" THEN maxRetries ELSE 1

Ended == {"sent", "failed", "marked"}

SenderState == [pc : {"idle", "dial", "hello", "mail", "rcpt", "data", "body", "reply", "quit", "sleep"} \cup Ended,
                attempt : 0 .. maxRetries]

ServerState == [pc : {"none", "commands", "handle", "put", "create", "respond", "wait", "push", "answer"},
                session : [from : {NoSender, "mmsc"}, rcpts : Seq({"originator"} \cup UNION {Range(To[m]) : m \in Msgs}),
                           tls : BOOLEAN, auth : BOOLEAN],
                code : {0, 250, 550}]

TypeOK ==
    /\ via \in [Msgs -> Ifaces]
    /\ status \in [Msgs -> {"none", "Forwarded", "Delivered", "Rejected", "Unreachable"}]
    /\ DOMAIN stored \subseteq Msgs /\ payload \subseteq Msgs /\ DOMAIN stored \subseteq payload
    /\ sender \in [Mails -> SenderState] /\ server \in [Mails -> ServerState]
    /\ silent \subseteq Mails /\ faults \in Nat
    /\ told \in [Msgs -> SUBSET (Outcomes \cup {"Read"})] /\ heard \subseteq Msgs /\ causes \subseteq Msgs

NoServer == [pc |-> "none", session |-> NewSession, code |-> 0]

Init ==
    /\ via \in [Msgs -> Ifaces]
    /\ status = [m \in Msgs |-> "none"]
    /\ stored = [m \in {} |-> <<>>] /\ payload = {}
    /\ sender = [x \in Mails |-> [pc |-> "idle", attempt |-> 0]]
    /\ server = [x \in Mails |-> NoServer]
    /\ silent = {} /\ faults = 0
    /\ told = [m \in Msgs |-> {}] /\ heard = {} /\ causes = {}

At(x, pc) == sender[x].pc = pc /\ x \notin silent

Goto(x, pc) == sender' = [sender EXCEPT ![x].pc = pc]

Started(x) == [sender EXCEPT ![x] = [pc |-> "dial", attempt |-> 1]]

Fault == faults < MaxFaults /\ faults' = faults + 1

----------------------------------------------------------------------------
(* Outbound: SendEnvelope and sendOnce *)

\* The row is Forwarded before the send begins.
RelayMessage(m) ==
    /\ status[m] = "none"
    /\ status' = [status EXCEPT ![m] = "Forwarded"]
    /\ sender' = Started(Forward(m))
    /\ UNCHANGED <<via, peer, server, silent, faults, history>>

Dial(x) ==
    /\ At(x, "dial")
    /\ Goto(x, "hello")
    /\ server' = [server EXCEPT ![x] = [NoServer EXCEPT !.pc = "commands"]]
    /\ UNCHANGED <<via, status, peer, silent, faults, history>>

\* Mutant: the attempts are not counted.
AfterTransientForEver(x) == "sleep"

\* SendEnvelope tries again after an error it takes for a transient one.
AfterTransient(x) == IF sender[x].attempt < Attempts(x) THEN "sleep" ELSE "failed"

\* "temporary failure in name resolution" is transient, a refused connection is not.
DialFails(x) ==
    /\ At(x, "dial")
    /\ \/ Goto(x, "failed")
       \/ Goto(x, AfterTransient(x))
    /\ UNCHANGED <<via, status, peer, server, silent, faults, history>>

Sleep(x) ==
    /\ At(x, "sleep")
    /\ sender' = [sender EXCEPT ![x] = [pc |-> "dial", attempt |-> IF @.attempt < maxRetries THEN @.attempt + 1 ELSE @.attempt]]
    /\ UNCHANGED <<via, status, peer, server, silent, faults, history>>

\* The server reads one command of the client and answers it.
Sends(x, from, c, to) ==
    /\ At(x, from)
    /\ Goto(x, to)
    /\ server' = [server EXCEPT ![x].session = AfterCommand(via[x.msg], PeerTLS, @, c)]
    /\ UNCHANGED <<via, status, peer, silent, faults, history>>

\* EHLO, STARTTLS and AUTH; net/smtp sends no password in the clear.
UsesAuth(x) == PeerAuth /\ via[x.msg] = "MM4"

Hello(x) ==
    /\ At(x, "hello") /\ (UsesAuth(x) => PeerTLS)
    /\ Goto(x, "mail")
    /\ LET greeted == AfterCommand(via[x.msg], PeerTLS, server[x].session, Command("STARTTLS", ""))
           authenticated == AfterCommand(via[x.msg], PeerTLS, greeted, Command("AUTH", UsesAuth(x))) IN
       server' = [server EXCEPT ![x].session = authenticated]
    /\ UNCHANGED <<via, status, peer, silent, faults, history>>

\* The peer does not offer what the settings ask for, or refuses the password.
HelloFails(x) ==
    /\ At(x, "hello")
    /\ Goto(x, "failed")
    /\ server' = [server EXCEPT ![x] = NoServer]
    /\ IF UsesAuth(x) /\ ~PeerTLS THEN UNCHANGED faults ELSE Fault
    /\ UNCHANGED <<via, status, peer, silent, history>>

Mail(x) == Sends(x, "mail", Command("MAIL", "mmsc"), "rcpt")

\* Mutant: only the first recipient is named.
RcptFirst(x) == Sends(x, "rcpt", Command("RCPT", Rcpts(x)[1]), "data")

Rcpt(x) ==
    LET n == Len(server[x].session.rcpts) + 1 IN
    Sends(x, "rcpt", Command("RCPT", Rcpts(x)[n]), IF n = Len(Rcpts(x)) THEN "data" ELSE "rcpt")

Data(x) == Sends(x, "data", Command("DATA", ""), "body")

Body(x) ==
    /\ At(x, "body")
    /\ Goto(x, "reply")
    /\ server' = [server EXCEPT ![x].pc = "handle"]
    /\ UNCHANGED <<via, status, peer, silent, faults, history>>

Reply(x) ==
    /\ At(x, "reply") /\ server[x].pc = "answer"
    /\ Goto(x, IF server[x].code = 250 THEN "quit" ELSE "failed")
    /\ UNCHANGED <<via, status, peer, server, silent, faults, history>>

\* An orderly end, or one it ignores.
Quit(x) ==
    /\ At(x, "quit")
    /\ Goto(x, "sent")
    /\ server' = [server EXCEPT ![x] = NoServer]
    /\ UNCHANGED <<via, status, peer, silent, faults, history>>

Blames(x) == IF x.type = "forward" /\ sender[x].pc \in {"reply", "quit"} THEN {x.msg} ELSE {}

\* The connection breaks; a handler that has the whole message goes on.
Breaks(x) ==
    /\ At(x, sender[x].pc) /\ sender[x].pc \notin {"idle", "dial", "sleep"} \cup Ended
    /\ Fault
    /\ Goto(x, "failed")
    /\ server' = IF sender[x].pc = "reply" THEN server ELSE [server EXCEPT ![x] = NoServer]
    /\ causes' = causes \cup Blames(x)
    /\ UNCHANGED <<via, status, peer, silent, told, heard>>

\* A mail gateway before the peer closes with 421, even after it passed the message on.
ServiceCloses(x) ==
    /\ At(x, sender[x].pc) /\ sender[x].pc \in {"hello", "mail", "rcpt", "data", "quit"}
    /\ Fault
    /\ Goto(x, AfterTransient(x))
    /\ server' = [server EXCEPT ![x] = NoServer]
    /\ causes' = causes \cup Blames(x)
    /\ UNCHANGED <<via, status, peer, silent, told, heard>>

GoesSilent(x) ==
    /\ At(x, sender[x].pc) /\ sender[x].pc \notin {"idle", "dial", "sleep"} \cup Ended
    /\ Fault
    /\ silent' = silent \cup {x}
    /\ UNCHANGED <<via, status, peer, sender, server, history>>

\* The caller's update after a failed send, which can be lost.
MarkUnreachable(m) ==
    /\ sender[Forward(m)].pc = "failed"
    /\ Goto(Forward(m), "marked")
    /\ status' \in {status, [status EXCEPT ![m] = "Unreachable"]}
    /\ UNCHANGED <<via, peer, server, silent, faults, history>>

----------------------------------------------------------------------------
(* handleDATA *)

ServerAt(x, pc) == server[x].pc = pc
ServerGoes(x, pc) == server' = [server EXCEPT ![x].pc = pc]
Answers(x, code) == server' = [server EXCEPT ![x].pc = "answer", ![x].code = code]

\* What is stored under an identifier that is taken, when the insert fails.
Refuses(x) ==
    /\ server[x].pc \in {"handle", "put", "create"} /\ x.type = "forward"
    /\ Fault
    /\ payload' \in {payload, IF server[x].pc = "put" THEN payload \cup {x.msg} ELSE payload}
    /\ Answers(x, 550)
    /\ UNCHANGED <<via, status, stored, sender, silent, history>>

\* Mutant: the row is written before the payload.
AcceptForRow(x) ==
    /\ ServerAt(x, "handle") /\ x.type = "forward"
    /\ ServerGoes(x, "create")
    /\ UNCHANGED <<via, status, peer, sender, silent, faults, history>>

\* Decoding, routing and adaptation.  An authenticated peer needs no address.
Accept(x) ==
    /\ ServerAt(x, "handle") /\ x.type = "forward"
    /\ Authorized(via[x.msg], server[x].session, FALSE, PeerAuth)
    /\ ServerGoes(x, "put")
    /\ UNCHANGED <<via, status, peer, sender, silent, faults, history>>

Put(x) ==
    /\ ServerAt(x, "put")
    /\ payload' = payload \cup {x.msg}
    /\ ServerGoes(x, "create")
    /\ UNCHANGED <<via, status, stored, sender, silent, faults, history>>

WantsResponse(x) == AckRequested /\ via[x.msg] = "MM4"

CreateMessage(x) ==
    LET m == x.msg IN
    /\ ServerAt(x, "create")
    /\ IF m \in DOMAIN stored
       THEN Answers(x, 550) /\ UNCHANGED stored
       ELSE /\ stored' = [k \in DOMAIN stored \cup {m} |->
                            IF k = m THEN Recipients(via[m], To[m], server[x].session) ELSE stored[k]]
            /\ ServerGoes(x, IF WantsResponse(x) THEN "respond" ELSE "push")
    /\ UNCHANGED <<via, status, payload, sender, silent, faults, history>>

\* The handler sends the response itself, before it answers the message.
SendForwardResponse(x) ==
    /\ ServerAt(x, "respond")
    /\ ServerGoes(x, "wait")
    /\ sender' = Started(Response(x.msg))
    /\ UNCHANGED <<via, status, peer, silent, faults, history>>

\* Mutant: the message is refused when its response failed.
ResponseDecides(x) ==
    /\ ServerAt(x, "wait") /\ sender[Response(x.msg)].pc \in Ended
    /\ IF sender[Response(x.msg)].pc = "sent" THEN ServerGoes(x, "push") ELSE Answers(x, 550)
    /\ UNCHANGED <<via, status, peer, sender, silent, faults, history>>

\* A failed response is only logged.
ResponseEnds(x) ==
    /\ ServerAt(x, "wait") /\ sender[Response(x.msg)].pc \in Ended
    /\ ServerGoes(x, "push")
    /\ UNCHANGED <<via, status, peer, sender, silent, faults, history>>

DispatchLocalNotification(x) ==
    /\ ServerAt(x, "push")
    /\ Answers(x, 250)
    /\ UNCHANGED <<via, status, peer, sender, silent, faults, history>>

\* The row stays, Queued for the dispatcher, and the sender is told 550.
DispatchFails(x) ==
    /\ ServerAt(x, "push")
    /\ Fault
    /\ Answers(x, 550)
    /\ causes' = causes \cup {x.msg}
    /\ UNCHANGED <<via, status, peer, sender, silent, told, heard>>

\* Mutant: the response sets the status of the message.
HandleResponseAsForwarded(x) ==
    /\ ServerAt(x, "handle") /\ x.type = "response"
    /\ status' = [status EXCEPT ![x.msg] = "Forwarded"]
    /\ Answers(x, 250)
    /\ UNCHANGED <<via, peer, sender, silent, faults, history>>

\* A response is accepted and ignored.
HandleResponse(x) ==
    /\ ServerAt(x, "handle") /\ x.type = "response"
    /\ Answers(x, 250)
    /\ UNCHANGED <<via, status, peer, sender, silent, faults, history>>

HandleReport(x) ==
    /\ ServerAt(x, "handle") /\ x.type \in {"report", "read"}
    /\ status' = [status EXCEPT ![x.msg] = ReportedStatus(x.says)]
    /\ heard' = heard \cup {x.msg}
    /\ Answers(x, 250)
    /\ UNCHANGED <<via, peer, sender, silent, faults, told, causes>>

----------------------------------------------------------------------------
(* The peer's reports *)

\* Something came of the stored message; an MM3 originator is not told.
SendDeliveryReport(m, st) ==
    /\ m \in DOMAIN stored /\ via[m] = "MM4"
    /\ st \notin told[m] /\ Cardinality(told[m]) < MaxOutcomes
    /\ told' = [told EXCEPT ![m] = @ \cup {st}]
    /\ sender' = Started(Report(m, st))
    /\ UNCHANGED <<via, status, peer, server, silent, faults, heard, causes>>

\* The phone read it; no delivery need have been reported.
SendReadReply(m) ==
    /\ m \in DOMAIN stored /\ via[m] = "MM4"
    /\ "Read" \notin told[m] /\ Cardinality(told[m]) < MaxOutcomes
    /\ told' = [told EXCEPT ![m] = @ \cup {"Read"}]
    /\ sender' = Started(ReadReply(m))
    /\ UNCHANGED <<via, status, peer, server, silent, faults, heard, causes>>

----------------------------------------------------------------------------

SenderStep(x) ==
    \/ Dial(x) \/ DialFails(x) \/ Sleep(x) \/ Hello(x) \/ Mail(x) \/ Rcpt(x) \/ Data(x)
    \/ Body(x) \/ Reply(x) \/ Quit(x)

ServerStep(x) ==
    \/ Accept(x) \/ Put(x) \/ CreateMessage(x) \/ SendForwardResponse(x) \/ ResponseEnds(x)
    \/ DispatchLocalNotification(x) \/ HandleResponse(x) \/ HandleReport(x)

Faults(x) == HelloFails(x) \/ Breaks(x) \/ ServiceCloses(x) \/ GoesSilent(x) \/ Refuses(x) \/ DispatchFails(x)

Next ==
    \/ \E x \in Mails : SenderStep(x) \/ ServerStep(x) \/ Faults(x)
    \/ \E m \in Msgs :
        \/ RelayMessage(m) \/ MarkUnreachable(m) \/ SendReadReply(m)
        \/ \E st \in Outcomes : SendDeliveryReport(m, st)

Spec == Init /\ [][Next]_vars

\* The two programs run and the connections that are not silent answer or break.
Fairness == WF_vars(\E x \in Mails : SenderStep(x) \/ ServerStep(x))

FairSpec == Spec /\ Fairness

----------------------------------------------------------------------------
(* Properties *)

\* A message whose send succeeded is stored at the peer for all its recipients,
\* whatever was tried before (SendEnvelope, handleDATA).
SentIsStored ==
    \A m \in Msgs : sender[Forward(m)].pc = "sent" => m \in DOMAIN stored /\ stored[m] = To[m]

\* A message marked Unreachable is not at the peer, unless the connection failed
\* once the peer had the text, or the peer could not notify what it had stored.
UnreachableIsNotStored ==
    \A m \in Msgs : status[m] = "Unreachable" /\ m \in DOMAIN stored => m \in causes

\* The status at the originator's MMSC is one the peer told: a rejection only for
\* a rejection, and a delivery for anything else (mm4StatusForMessage there,
\* handleDeliveryReport here).
VerdictIsTold ==
    \A m \in Msgs :
        /\ status[m] = "Rejected" => "Rejected" \in told[m]
        /\ status[m] = "Delivered" => told[m] \ {"Rejected"} # {}

\* A report that was handled is not undone: not by the response that was on its
\* way, not by a send that ends after it, unless the send is one of the above.
ReportIsKept ==
    \A m \in heard : status[m] \in {"Delivered", "Rejected"} \/ m \in causes

\* Every send ends in three attempts, and with it the handler that waits for it,
\* unless a connection, its own or that of the response, goes silent.
SendsEnd ==
    <>[](\A x \in Mails : sender[x].pc \in Ended \cup {"idle"} \/ x \in silent \/ Response(x.msg) \in silent)
=============================================================================
