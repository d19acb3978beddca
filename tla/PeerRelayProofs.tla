--------------------------- MODULE PeerRelayProofs ---------------------------
(***************************************************************************)
(* Proofs about PeerRelay, for any messages, recipients, settings, number  *)
(* of attempts, faults and reports: what the two MMSCs may believe of a    *)
(* message whose mails are lost, late or repeated.                         *)
(***************************************************************************)
EXTENDS PeerRelay, TLAPS

(* The sender talks to a server that waits for its commands, and names one *)
(* recipient after the other; the server handles the text with them all.   *)
Talks(x) ==
    /\ sender[x].pc \in {"hello", "mail", "rcpt", "data", "body"} => server[x].pc = "commands"
    /\ sender[x].pc = "rcpt" =>
        /\ Len(server[x].session.rcpts) < Len(Rcpts(x))
        /\ \A i \in 1 .. Len(server[x].session.rcpts) : server[x].session.rcpts[i] = Rcpts(x)[i]
    /\ sender[x].pc \in {"data", "body"} \/ server[x].pc \in {"handle", "put", "create"} =>
        server[x].session.rcpts = Rcpts(x)

(* A server works on a mail that was sent, and stores only a forward.      *)
Serves(x) ==
    /\ server[x].pc # "none" => sender[x].pc # "idle"
    /\ server[x].pc \in {"put", "create", "respond", "wait", "push"} => x.type = "forward"
    /\ server[x].pc = "create" => x.msg \in payload

(* A report on its way says what the peer has told. *)
Told(x) ==
    sender[x].pc # "idle" =>
        /\ x.type = "report" => \E st \in told[x.msg] : x = Report(x.msg, st)
        /\ x.type = "read" => "Read" \in told[x.msg]

MailInv == \A x \in Mails : Talks(x) /\ Serves(x) /\ Told(x)

(* The peer acknowledges what it stored, and tells of nothing else.        *)
Stored(m) ==
    /\ m \in DOMAIN stored => stored[m] = To[m]
    /\ \/ sender[Forward(m)].pc \in {"quit", "sent"}
       \/ server[Forward(m)].pc \in {"respond", "wait", "push"}
       \/ server[Forward(m)].pc = "answer" /\ server[Forward(m)].code = 250
       => m \in DOMAIN stored
    /\ told[m] # {} => m \in DOMAIN stored
    /\ m \in heard => told[m] # {}

StoredInv == \A m \in Msgs : Stored(m)

(* Unless a failure came too late to know, what is stored has its sender   *)
(* waiting for the answer or content with it.                              *)
Knows(m) ==
    /\ m \in DOMAIN stored => sender[Forward(m)].pc \in {"reply", "quit", "sent"}
    /\ m \in DOMAIN stored /\ sender[Forward(m)].pc = "reply" =>
        \/ server[Forward(m)].pc \in {"respond", "wait", "push"}
        \/ server[Forward(m)].pc = "answer" /\ server[Forward(m)].code = 250
    /\ server[Forward(m)].pc \in {"handle", "put", "create", "respond", "wait", "push"} =>
        sender[Forward(m)].pc = "reply"

Informed(m) == m \notin causes => Knows(m)

KnowledgeInv == \A m \in Msgs : Informed(m)

(* The row of a message whose send began has a status, and Unreachable is  *)
(* written by the caller of a failed send only.                            *)
Status(m) ==
    /\ sender[Forward(m)].pc # "idle" => status[m] # "none"
    /\ status[m] = "Unreachable" => sender[Forward(m)].pc = "marked"

StatusInv == \A m \in Msgs : Status(m)

----------------------------------------------------------------------------
(* Mails and sessions *)

Names == {"originator"} \cup UNION {Range(To[m]) : m \in Msgs}

Session == [from : {NoSender, "mmsc"}, rcpts : Seq(Names), tls : BOOLEAN, auth : BOOLEAN]

SenderPC == {"idle", "dial", "hello", "mail", "rcpt", "data", "body", "reply", "quit", "sleep"} \cup Ended

ServerPC == {"none", "commands", "handle", "put", "create", "respond", "wait", "push", "answer"}

(* The mails there are: one forward of a message, one response, one report *)
(* of each outcome and one read reply.                                     *)
LEMMA MailFacts ==
    /\ \A m \in Msgs :
        /\ Forward(m) \in Mails /\ Forward(m).msg = m /\ Forward(m).type = "forward"
        /\ Response(m) \in Mails /\ Response(m).msg = m /\ Response(m).type = "response"
        /\ ReadReply(m) \in Mails /\ ReadReply(m).msg = m /\ ReadReply(m).type = "read"
        /\ \A st \in Outcomes : Report(m, st) \in Mails
        /\ \A st : Report(m, st).msg = m /\ Report(m, st).type = "report"
    /\ \A x \in Mails :
        /\ x.msg \in Msgs /\ x.type \in {"forward", "response", "read", "report"}
        /\ x.type = "forward" => x = Forward(x.msg)
        /\ x.type = "read" => x = ReadReply(x.msg)
<1>1. \A m \in Msgs :
        /\ Forward(m) \in Mails /\ Response(m) \in Mails /\ ReadReply(m) \in Mails
        /\ \A st \in Outcomes : Report(m, st) \in Mails
  BY DEF Mails
<1>2. ASSUME NEW x \in Mails
      PROVE  \E m \in Msgs :
                \/ x = Forward(m) \/ x = Response(m) \/ x = ReadReply(m)
                \/ \E st \in Outcomes : x = Report(m, st)
  BY DEF Mails
<1>3. \A m :
        /\ Forward(m).msg = m /\ Forward(m).type = "forward"
        /\ Response(m).msg = m /\ Response(m).type = "response"
        /\ ReadReply(m).msg = m /\ ReadReply(m).type = "read"
        /\ \A st : Report(m, st).msg = m /\ Report(m, st).type = "report"
  BY DEF Forward, Response, ReadReply, Report
<1>4. ASSUME NEW x \in Mails
      PROVE  /\ x.msg \in Msgs /\ x.type \in {"forward", "response", "read", "report"}
             /\ x.type = "forward" => x = Forward(x.msg)
             /\ x.type = "read" => x = ReadReply(x.msg)
  <2>1. PICK m \in Msgs : \/ x = Forward(m) \/ x = Response(m) \/ x = ReadReply(m)
                          \/ \E st \in Outcomes : x = Report(m, st)
    BY <1>2
  <2> QED
    BY <2>1, <1>3
<1> QED
  BY <1>1, <1>3, <1>4

(* Every mail has a recipient. *)
LEMMA RcptsFacts ==
    ASSUME NEW x \in Mails
    PROVE  Rcpts(x) \in Seq(Names) /\ Len(Rcpts(x)) \in Nat /\ Len(Rcpts(x)) > 0
<1>1. CASE x.type = "forward"
  <2>1. x.msg \in Msgs
    BY MailFacts
  <2>2. To[x.msg] \in Seq(Range(To[x.msg])) /\ To[x.msg] # <<>>
    BY <2>1, RelayConstants
  <2>3. Range(To[x.msg]) \subseteq Names
    BY <2>1 DEF Names
  <2>4. To[x.msg] \in Seq(Names)
    BY <2>2, <2>3
  <2> QED
    BY <1>1, <2>2, <2>4 DEF Rcpts
<1>2. CASE x.type # "forward"
  BY <1>2 DEF Rcpts, Names
<1> QED
  BY <1>1, <1>2

(* What the commands of a client do to the session. *)
LEMMA SessionFacts ==
    ASSUME NEW s \in Session, NEW iface
    PROVE  /\ NewSession \in Session
           /\ AfterCommand(iface, PeerTLS, s, Command("STARTTLS", "")) \in Session
           /\ \A t \in BOOLEAN : AfterCommand(iface, PeerTLS, s, Command("AUTH", t)) \in Session
           /\ AfterCommand(iface, PeerTLS, s, Command("MAIL", "mmsc")) \in Session
           /\ AfterCommand(iface, PeerTLS, s, Command("MAIL", "mmsc")).rcpts = <<>>
           /\ AfterCommand(iface, PeerTLS, s, Command("DATA", "")) = s
           /\ \A r \in Names :
                /\ AfterCommand(iface, PeerTLS, s, Command("RCPT", r)) \in Session
                /\ AfterCommand(iface, PeerTLS, s, Command("RCPT", r)).rcpts = Append(s.rcpts, r)
<1>1. NewSession \in Session
  BY DEF NewSession, Session, Names
<1>2. \A r \in Session, t \in BOOLEAN : [r EXCEPT !.tls = t] \in Session
  BY DEF Session
<1>3. \A r \in Session, t \in BOOLEAN : [r EXCEPT !.auth = t] \in Session
  BY DEF Session
<1>4. \A r \in Session, f \in {NoSender, "mmsc"}, l \in Seq(Names) :
        [r EXCEPT !.from = f, !.rcpts = l] \in Session /\ [r EXCEPT !.from = f, !.rcpts = l].rcpts = l
  BY DEF Session
<1>5. \A r \in Session, l \in Seq(Names) :
        [r EXCEPT !.rcpts = l] \in Session /\ [r EXCEPT !.rcpts = l].rcpts = l
  BY DEF Session
<1>6. TRUE \in BOOLEAN /\ <<>> \in Seq(Names) /\ "mmsc" \in {NoSender, "mmsc"}
  OBVIOUS
<1>7. StartTLS(s) \in Session /\ [s EXCEPT !.auth = TRUE] \in Session
  BY <1>1, <1>2, <1>3, <1>6, Zenon DEF StartTLS
<1>8. MailFrom(s, "mmsc") \in Session /\ MailFrom(s, "mmsc").rcpts = <<>>
  BY <1>4, <1>6, Zenon DEF MailFrom
<1>9. ASSUME NEW r \in Names
      PROVE  RcptTo(s, r) \in Session /\ RcptTo(s, r).rcpts = Append(s.rcpts, r)
  <2>1. Append(s.rcpts, r) \in Seq(Names)
    BY DEF Session
  <2> QED
    BY <1>5, <2>1 DEF RcptTo
<1>10. AfterCommand(iface, PeerTLS, s, Command("STARTTLS", "")) \in {StartTLS(s), s}
  BY DEF AfterCommand, Command
<1>11. \A t \in BOOLEAN :
         AfterCommand(iface, PeerTLS, s, Command("AUTH", t)) \in {[s EXCEPT !.auth = TRUE], s}
  BY DEF AfterCommand, Command
<1>12. /\ AfterCommand(iface, PeerTLS, s, Command("MAIL", "mmsc")) = MailFrom(s, "mmsc")
       /\ AfterCommand(iface, PeerTLS, s, Command("DATA", "")) = s
       /\ \A r : AfterCommand(iface, PeerTLS, s, Command("RCPT", r)) = RcptTo(s, r)
  BY DEF AfterCommand, Command
<1> QED
  BY <1>1, <1>7, <1>8, <1>9, <1>10, <1>11, <1>12

----------------------------------------------------------------------------
(* What the steps do, mail by mail *)

OthersSend(x) == \A y \in Mails \ {x} : sender'[y] = sender[y]
OthersServed(x) == \A y \in Mails \ {x} : server'[y] = server[y]

(* A sender goes on. *)
LEMMA GotoFacts ==
    ASSUME TypeOK, NEW x \in Mails, NEW pc \in SenderPC, Goto(x, pc)
    PROVE  sender' \in [Mails -> SenderState] /\ sender'[x].pc = pc /\ OthersSend(x)
<1>1. sender \in [Mails -> SenderState]
  BY DEF TypeOK
<1> QED
  BY <1>1 DEF Goto, SenderState, SenderPC, OthersSend

(* A sender begins. *)
LEMMA StartedFacts ==
    ASSUME TypeOK, NEW x \in Mails, sender' = Started(x)
    PROVE  sender' \in [Mails -> SenderState] /\ sender'[x].pc = "dial" /\ OthersSend(x)
<1>1. sender \in [Mails -> SenderState]
  BY DEF TypeOK
<1>2. [pc |-> "dial", attempt |-> 1] \in SenderState
  BY RelayConstants DEF SenderState
<1> QED
  BY <1>1, <1>2 DEF Started, OthersSend

Codes == {0, 250, 550}

(* A server's state, field by field. *)
LEMMA ServerStates ==
    /\ ServerState = [pc : ServerPC, session : Session, code : Codes]
    /\ NoServer \in ServerState /\ NoServer.pc = "none"
<1>1. ServerState = [pc : ServerPC, session : Session, code : Codes]
  BY DEF ServerState, ServerPC, Session, Names, Codes
<1>2. NewSession \in Session
  BY DEF NewSession, Session, Names
<1> QED
  BY <1>1, <1>2 DEF NoServer, ServerPC, Codes

(* Changed fields of their types leave a server's state of its type. *)
LEMMA PcField ==
    ASSUME NEW r \in ServerState, NEW pc \in ServerPC
    PROVE  /\ [r EXCEPT !.pc = pc] \in ServerState
           /\ [r EXCEPT !.pc = pc].pc = pc /\ [r EXCEPT !.pc = pc].session = r.session
  BY ServerStates

LEMMA SessionField ==
    ASSUME NEW r \in ServerState, NEW s \in Session
    PROVE  /\ [r EXCEPT !.session = s] \in ServerState
           /\ [r EXCEPT !.session = s].pc = r.pc /\ [r EXCEPT !.session = s].session = s
  BY ServerStates

LEMMA AnswerFields ==
    ASSUME NEW r \in ServerState, NEW c \in Codes
    PROVE  /\ [r EXCEPT !.pc = "answer", !.code = c] \in ServerState
           /\ [r EXCEPT !.pc = "answer", !.code = c].pc = "answer"
           /\ [r EXCEPT !.pc = "answer", !.code = c].code = c
  BY ServerStates DEF ServerPC

(* A server goes on, answers, begins anew or hears a command. *)
LEMMA ServerFacts ==
    ASSUME TypeOK, NEW x \in Mails
    PROVE  /\ server \in [Mails -> ServerState] /\ server[x].session \in Session
           /\ \A pc \in ServerPC : ServerGoes(x, pc) =>
                /\ server' \in [Mails -> ServerState] /\ OthersServed(x)
                /\ server'[x].pc = pc /\ server'[x].session = server[x].session
           /\ \A c \in Codes : Answers(x, c) =>
                /\ server' \in [Mails -> ServerState] /\ OthersServed(x)
                /\ server'[x].pc = "answer" /\ server'[x].code = c
           /\ server' = [server EXCEPT ![x] = NoServer] =>
                /\ server' \in [Mails -> ServerState] /\ OthersServed(x) /\ server'[x].pc = "none"
           /\ server' = [server EXCEPT ![x] = [NoServer EXCEPT !.pc = "commands"]] =>
                /\ server' \in [Mails -> ServerState] /\ OthersServed(x) /\ server'[x].pc = "commands"
           /\ \A s \in Session : server' = [server EXCEPT ![x].session = s] =>
                /\ server' \in [Mails -> ServerState] /\ OthersServed(x)
                /\ server'[x].pc = server[x].pc /\ server'[x].session = s
<1>1. server \in [Mails -> ServerState] /\ server[x] \in ServerState /\ server[x].session \in Session
  <2>1. server \in [Mails -> ServerState]
    BY DEF TypeOK
  <2>2. server[x] \in ServerState
    BY <2>1
  <2> QED
    BY <2>1, <2>2, ServerStates
<1>2. \A r \in ServerState : server' = [server EXCEPT ![x] = r] =>
        server' \in [Mails -> ServerState] /\ OthersServed(x) /\ server'[x] = r
  BY <1>1 DEF OthersServed
<1>3. ASSUME NEW pc \in ServerPC, ServerGoes(x, pc)
      PROVE  /\ server' \in [Mails -> ServerState] /\ OthersServed(x)
             /\ server'[x].pc = pc /\ server'[x].session = server[x].session
  <2>1. server' = [server EXCEPT ![x] = [server[x] EXCEPT !.pc = pc]]
    BY <1>3 DEF ServerGoes
  <2>2. /\ [server[x] EXCEPT !.pc = pc] \in ServerState
        /\ [server[x] EXCEPT !.pc = pc].pc = pc
        /\ [server[x] EXCEPT !.pc = pc].session = server[x].session
    BY <1>1, PcField, Zenon
  <2> QED
    BY <1>2, <2>1, <2>2
<1>4. ASSUME NEW c \in Codes, Answers(x, c)
      PROVE  /\ server' \in [Mails -> ServerState] /\ OthersServed(x)
             /\ server'[x].pc = "answer" /\ server'[x].code = c
  <2>1. server' = [server EXCEPT ![x] = [server[x] EXCEPT !.pc = "answer", !.code = c]]
    BY <1>1, <1>4 DEF Answers
  <2>2. PICK r \in ServerState : r = server[x]
    BY <1>1
  <2>3. /\ [r EXCEPT !.pc = "answer", !.code = c] \in ServerState
        /\ [r EXCEPT !.pc = "answer", !.code = c].pc = "answer"
        /\ [r EXCEPT !.pc = "answer", !.code = c].code = c
    BY AnswerFields, Zenon
  <2>4. PICK q \in ServerState :
          q = [r EXCEPT !.pc = "answer", !.code = c] /\ q.pc = "answer" /\ q.code = c
    BY <2>3, Zenon
  <2>5. server' = [server EXCEPT ![x] = q]
    BY <2>1, <2>2, <2>4, Zenon
  <2> QED
    BY <1>2, <2>4, <2>5, Zenon
<1>5. ASSUME server' = [server EXCEPT ![x] = NoServer]
      PROVE  server' \in [Mails -> ServerState] /\ OthersServed(x) /\ server'[x].pc = "none"
  BY <1>2, <1>5, ServerStates
<1>6. ASSUME server' = [server EXCEPT ![x] = [NoServer EXCEPT !.pc = "commands"]]
      PROVE  server' \in [Mails -> ServerState] /\ OthersServed(x) /\ server'[x].pc = "commands"
  <2>1. "commands" \in ServerPC
    BY DEF ServerPC
  <2>2. /\ [NoServer EXCEPT !.pc = "commands"] \in ServerState
        /\ [NoServer EXCEPT !.pc = "commands"].pc = "commands"
    BY <2>1, ServerStates, PcField, Zenon
  <2> QED
    BY <1>2, <1>6, <2>2
<1>7. ASSUME NEW s \in Session, server' = [server EXCEPT ![x].session = s]
      PROVE  /\ server' \in [Mails -> ServerState] /\ OthersServed(x)
             /\ server'[x].pc = server[x].pc /\ server'[x].session = s
  <2>1. server' = [server EXCEPT ![x] = [server[x] EXCEPT !.session = s]]
    BY <1>7
  <2>2. /\ [server[x] EXCEPT !.session = s] \in ServerState
        /\ [server[x] EXCEPT !.session = s].pc = server[x].pc
        /\ [server[x] EXCEPT !.session = s].session = s
    BY <1>1, SessionField, Zenon
  <2> QED
    BY <1>2, <2>1, <2>2
<1> QED
  BY <1>1, <1>3, <1>4, <1>5, <1>6, <1>7

----------------------------------------------------------------------------
(* Action by action *)

(* A sender or a server goes on, and no other does. *)
SenderMoves(x, pc) == sender' \in [Mails -> SenderState] /\ sender'[x].pc = pc /\ OthersSend(x)
ServerMoves(x, pc) == server' \in [Mails -> ServerState] /\ server'[x].pc = pc /\ OthersServed(x)

(* A connection is a new session. *)
LEMMA DialEffect ==
    ASSUME TypeOK, NEW x \in Mails, Dial(x)
    PROVE  /\ sender[x].pc = "dial"
           /\ SenderMoves(x, "hello")
           /\ ServerMoves(x, "commands")
           /\ UNCHANGED <<status, stored, payload, told, heard, causes>>
<1>1. /\ sender[x].pc = "dial"
  BY DEF Dial, At, ServerAt
<1>2. Goto(x, "hello")
  BY DEF Dial
<1>3. SenderMoves(x, "hello")
  BY <1>2, GotoFacts DEF SenderPC, Ended, SenderMoves
<1>4. server' = [server EXCEPT ![x] = [NoServer EXCEPT !.pc = "commands"]]
  BY DEF Dial
<1>5. ServerMoves(x, "commands")
  BY <1>4, ServerFacts DEF ServerMoves
<1>6. UNCHANGED <<status, stored, payload, told, heard, causes>>
  BY DEF Dial, peer, history
<1> QED
  BY <1>1, <1>2, <1>3, <1>4, <1>5, <1>6

(* A dial that fails is tried again or the last. *)
LEMMA DialFailsEffect ==
    ASSUME TypeOK, NEW x \in Mails, DialFails(x)
    PROVE  /\ sender[x].pc = "dial"
           /\ SenderMoves(x, "sleep") \/ SenderMoves(x, "failed")
           /\ server' = server /\ server' \in [Mails -> ServerState]
           /\ UNCHANGED <<status, stored, payload, told, heard, causes>>
<1>1. sender[x].pc = "dial"
  BY DEF DialFails, At
<1>2. Goto(x, "sleep") \/ Goto(x, "failed")
  BY DEF DialFails, AfterTransient
<1>3. SenderMoves(x, "sleep") \/ SenderMoves(x, "failed")
  BY <1>2, GotoFacts DEF SenderPC, Ended, SenderMoves
<1>4. server' = server /\ server' \in [Mails -> ServerState]
  BY DEF DialFails, TypeOK
<1>5. UNCHANGED <<status, stored, payload, told, heard, causes>>
  BY DEF DialFails, peer, history
<1> QED
  BY <1>1, <1>3, <1>4, <1>5

(* The next attempt. *)
LEMMA SleepEffect ==
    ASSUME TypeOK, NEW x \in Mails, Sleep(x)
    PROVE  /\ sender[x].pc = "sleep"
           /\ SenderMoves(x, "dial")
           /\ server' = server /\ server' \in [Mails -> ServerState]
           /\ UNCHANGED <<status, stored, payload, told, heard, causes>>
<1>1. sender \in [Mails -> SenderState] /\ sender[x].attempt \in 0 .. maxRetries
  BY DEF TypeOK, SenderState
<1> DEFINE n == IF sender[x].attempt < maxRetries THEN sender[x].attempt + 1 ELSE sender[x].attempt
<1>2. n \in 0 .. maxRetries /\ sender' = [sender EXCEPT ![x] = [pc |-> "dial", attempt |-> n]]
  BY <1>1, RelayConstants DEF Sleep
<1> HIDE DEF n
<1>3. [pc |-> "dial", attempt |-> n] \in SenderState
  BY <1>2 DEF SenderState
<1>4. SenderMoves(x, "dial")
  BY <1>1, <1>2, <1>3 DEF SenderMoves, OthersSend
<1>5. server' = server /\ server' \in [Mails -> ServerState]
  BY DEF Sleep, TypeOK
<1>6. sender[x].pc = "sleep" /\ UNCHANGED <<status, stored, payload, told, heard, causes>>
  BY DEF Sleep, At, peer, history
<1> QED
  BY <1>4, <1>5, <1>6

(* STARTTLS and AUTH. *)
LEMMA HelloEffect ==
    ASSUME TypeOK, NEW x \in Mails, Hello(x)
    PROVE  /\ sender[x].pc = "hello"
           /\ SenderMoves(x, "mail")
           /\ ServerMoves(x, server[x].pc)
           /\ UNCHANGED <<status, stored, payload, told, heard, causes>>
<1>1. sender[x].pc = "hello" /\ Goto(x, "mail")
  BY DEF Hello, At
<1>2. SenderMoves(x, "mail")
  BY <1>1, GotoFacts DEF SenderPC, SenderMoves
<1>3. PICK s : s = AfterCommand(via[x.msg], PeerTLS, server[x].session, Command("STARTTLS", ""))
  OBVIOUS
<1>4. s \in Session
  BY <1>3, ServerFacts, SessionFacts
<1>5. PICK t : t = AfterCommand(via[x.msg], PeerTLS, s, Command("AUTH", UsesAuth(x)))
  OBVIOUS
<1>6. UsesAuth(x) \in BOOLEAN
  BY DEF UsesAuth
<1>7. t \in Session
  BY <1>4, <1>5, <1>6, SessionFacts
<1>8. server' = [server EXCEPT ![x].session = t]
  BY <1>3, <1>5, Zenon DEF Hello
<1>9. ServerMoves(x, server[x].pc)
  BY <1>7, <1>8, ServerFacts DEF ServerMoves
<1>10. UNCHANGED <<status, stored, payload, told, heard, causes>>
  BY DEF Hello, peer, history
<1> QED
  BY <1>1, <1>2, <1>9, <1>10

(* MAIL FROM forgets the recipients of the message before. *)
LEMMA MailEffect ==
    ASSUME TypeOK, NEW x \in Mails, Mail(x)
    PROVE  /\ sender[x].pc = "mail"
           /\ SenderMoves(x, "rcpt")
           /\ ServerMoves(x, server[x].pc) /\ server'[x].session.rcpts = <<>>
           /\ UNCHANGED <<status, stored, payload, told, heard, causes>>
<1>1. Sends(x, "mail", Command("MAIL", "mmsc"), "rcpt")
  BY DEF Mail
<1>2. sender[x].pc = "mail" /\ Goto(x, "rcpt")
  BY <1>1 DEF Sends, At
<1>3. SenderMoves(x, "rcpt")
  BY <1>2, GotoFacts DEF SenderPC, SenderMoves
<1>4. PICK s : s = AfterCommand(via[x.msg], PeerTLS, server[x].session, Command("MAIL", "mmsc"))
  OBVIOUS
<1>5. s \in Session /\ s.rcpts = <<>>
  <2>1. server[x].session \in Session
    BY ServerFacts
  <2> QED
    BY <1>4, <2>1, SessionFacts
<1>6. server' = [server EXCEPT ![x].session = s]
  BY <1>1, <1>4, Zenon DEF Sends
<1>7. ServerMoves(x, server[x].pc) /\ server'[x].session = s
  BY <1>5, <1>6, ServerFacts DEF ServerMoves
<1>8. UNCHANGED <<status, stored, payload, told, heard, causes>>
  BY <1>1 DEF Sends, peer, history
<1> QED
  BY <1>2, <1>3, <1>5, <1>7, <1>8

(* One more recipient, which may be the last. *)
LEMMA RcptEffect ==
    ASSUME TypeOK, MailInv, NEW x \in Mails, Rcpt(x)
    PROVE  /\ sender[x].pc = "rcpt"
           /\ SenderMoves(x, "rcpt") \/ SenderMoves(x, "data")
           /\ ServerMoves(x, server[x].pc)
           /\ Len(server'[x].session.rcpts) = Len(server[x].session.rcpts) + 1
           /\ Len(server'[x].session.rcpts) <= Len(Rcpts(x))
           /\ \A i \in 1 .. Len(server'[x].session.rcpts) : server'[x].session.rcpts[i] = Rcpts(x)[i]
           /\ sender'[x].pc = "rcpt" => Len(server'[x].session.rcpts) < Len(Rcpts(x))
           /\ sender'[x].pc = "data" => server'[x].session.rcpts = Rcpts(x)
           /\ UNCHANGED <<status, stored, payload, told, heard, causes>>
<1> DEFINE l == server[x].session.rcpts
           n == Len(l) + 1
           r == Rcpts(x)[n]
<1>1. Sends(x, "rcpt", Command("RCPT", r), IF n = Len(Rcpts(x)) THEN "data" ELSE "rcpt")
  BY Zenon DEF Rcpt
<1>2. /\ sender[x].pc = "rcpt"
      /\ IF n = Len(Rcpts(x)) THEN Goto(x, "data") ELSE Goto(x, "rcpt")
  BY <1>1 DEF Sends, At
<1>3. IF n = Len(Rcpts(x)) THEN SenderMoves(x, "data") ELSE SenderMoves(x, "rcpt")
  BY <1>2, GotoFacts DEF SenderPC, SenderMoves
<1>4. /\ server[x].session \in Session /\ l \in Seq(Names) /\ Len(l) \in Nat
      /\ Rcpts(x) \in Seq(Names) /\ Len(Rcpts(x)) \in Nat
  BY ServerFacts, RcptsFacts DEF Session
<1>5. /\ Len(l) < Len(Rcpts(x)) /\ \A i \in 1 .. Len(l) : l[i] = Rcpts(x)[i]
  BY <1>2 DEF MailInv, Talks
<1>6. n \in 1 .. Len(Rcpts(x)) /\ r \in Names
  BY <1>4, <1>5
<1>7. PICK s : s = AfterCommand(via[x.msg], PeerTLS, server[x].session, Command("RCPT", r))
  OBVIOUS
<1>8. s \in Session /\ s.rcpts = Append(l, r)
  BY <1>4, <1>6, <1>7, SessionFacts
<1>9. server' = [server EXCEPT ![x].session = s]
  BY <1>1, <1>7, Zenon DEF Sends
<1>10. ServerMoves(x, server[x].pc) /\ server'[x].session = s
  BY <1>8, <1>9, ServerFacts DEF ServerMoves
<1>11. /\ Append(l, r) \in Seq(Names) /\ Len(Append(l, r)) = n
       /\ \A i \in 1 .. n : Append(l, r)[i] = Rcpts(x)[i]
  BY <1>4, <1>5, <1>6
<1>12. n = Len(Rcpts(x)) => Append(l, r) = Rcpts(x)
  BY <1>4, <1>11
<1>13. UNCHANGED <<status, stored, payload, told, heard, causes>>
  BY <1>1 DEF Sends, peer, history
<1>14. server'[x].session.rcpts = Append(l, r)
  BY <1>8, <1>10
<1> HIDE DEF l, n, r
<1>15. /\ Len(server'[x].session.rcpts) = n
       /\ \A i \in 1 .. Len(server'[x].session.rcpts) : server'[x].session.rcpts[i] = Rcpts(x)[i]
       /\ n = Len(Rcpts(x)) => server'[x].session.rcpts = Rcpts(x)
  BY <1>11, <1>12, <1>14
<1>16. n = Len(server[x].session.rcpts) + 1 /\ n <= Len(Rcpts(x)) /\ (n # Len(Rcpts(x)) => n < Len(Rcpts(x)))
  BY <1>4, <1>6 DEF n, l
<1>17. /\ SenderMoves(x, "rcpt") \/ SenderMoves(x, "data")
       /\ sender'[x].pc = "data" => n = Len(Rcpts(x))
       /\ sender'[x].pc = "rcpt" => n # Len(Rcpts(x))
  BY <1>3 DEF SenderMoves
<1> QED
  BY <1>2, <1>10, <1>13, <1>15, <1>16, <1>17

(* DATA. *)
LEMMA DataEffect ==
    ASSUME TypeOK, NEW x \in Mails, Data(x)
    PROVE  /\ sender[x].pc = "data"
           /\ SenderMoves(x, "body")
           /\ ServerMoves(x, server[x].pc) /\ server'[x].session = server[x].session
           /\ UNCHANGED <<status, stored, payload, told, heard, causes>>
<1>1. Sends(x, "data", Command("DATA", ""), "body")
  BY DEF Data
<1>2. sender[x].pc = "data" /\ Goto(x, "body")
  BY <1>1 DEF Sends, At
<1>3. SenderMoves(x, "body")
  BY <1>2, GotoFacts DEF SenderPC, SenderMoves
<1>4. PICK s : s = AfterCommand(via[x.msg], PeerTLS, server[x].session, Command("DATA", ""))
  OBVIOUS
<1>5. s \in Session /\ s = server[x].session
  <2>1. server[x].session \in Session
    BY ServerFacts
  <2> QED
    BY <1>4, <2>1, SessionFacts
<1>6. server' = [server EXCEPT ![x].session = s]
  BY <1>1, <1>4, Zenon DEF Sends
<1>7. ServerMoves(x, server[x].pc) /\ server'[x].session = s
  BY <1>5, <1>6, ServerFacts DEF ServerMoves
<1>8. UNCHANGED <<status, stored, payload, told, heard, causes>>
  BY <1>1 DEF Sends, peer, history
<1> QED
  BY <1>2, <1>3, <1>5, <1>7, <1>8

(* The server has the text. *)
LEMMA BodyEffect ==
    ASSUME TypeOK, NEW x \in Mails, Body(x)
    PROVE  /\ sender[x].pc = "body"
           /\ SenderMoves(x, "reply")
           /\ ServerMoves(x, "handle")
           /\ server'[x].session = server[x].session
           /\ UNCHANGED <<status, stored, payload, told, heard, causes>>
<1>1. /\ sender[x].pc = "body"
  BY DEF Body, At, ServerAt
<1>2. Goto(x, "reply")
  BY DEF Body
<1>3. SenderMoves(x, "reply")
  BY <1>2, GotoFacts DEF SenderPC, Ended, SenderMoves
<1>4. ServerGoes(x, "handle")
  BY DEF Body, ServerGoes
<1>5. ServerMoves(x, "handle") /\ server'[x].session = server[x].session
  BY <1>4, ServerFacts DEF ServerPC, ServerMoves
<1>6. UNCHANGED <<status, stored, payload, told, heard, causes>>
  BY DEF Body, peer, history
<1> QED
  BY <1>1, <1>2, <1>3, <1>4, <1>5, <1>6

(* The sender reads the answer. *)
LEMMA ReplyEffect ==
    ASSUME TypeOK, NEW x \in Mails, Reply(x)
    PROVE  /\ sender[x].pc = "reply"
           /\ server[x].pc = "answer"
           /\ SenderMoves(x, IF server[x].code = 250 THEN "quit" ELSE "failed")
           /\ server' = server /\ server' \in [Mails -> ServerState]
           /\ UNCHANGED <<status, stored, payload, told, heard, causes>>
<1>1. /\ sender[x].pc = "reply"
      /\ server[x].pc = "answer"
  BY DEF Reply, At, ServerAt
<1>2. Goto(x, IF server[x].code = 250 THEN "quit" ELSE "failed")
  BY DEF Reply
<1>3. SenderMoves(x, IF server[x].code = 250 THEN "quit" ELSE "failed")
  BY <1>2, GotoFacts DEF SenderPC, Ended, SenderMoves
<1>4. server' = server /\ server' \in [Mails -> ServerState]
  BY DEF Reply, TypeOK
<1>5. UNCHANGED <<status, stored, payload, told, heard, causes>>
  BY DEF Reply, peer, history
<1> QED
  BY <1>1, <1>2, <1>3, <1>4, <1>5

(* The connection ends. *)
LEMMA QuitEffect ==
    ASSUME TypeOK, NEW x \in Mails, Quit(x)
    PROVE  /\ sender[x].pc = "quit"
           /\ SenderMoves(x, "sent")
           /\ ServerMoves(x, "none")
           /\ UNCHANGED <<status, stored, payload, told, heard, causes>>
<1>1. /\ sender[x].pc = "quit"
  BY DEF Quit, At, ServerAt
<1>2. Goto(x, "sent")
  BY DEF Quit
<1>3. SenderMoves(x, "sent")
  BY <1>2, GotoFacts DEF SenderPC, Ended, SenderMoves
<1>4. server' = [server EXCEPT ![x] = NoServer]
  BY DEF Quit
<1>5. ServerMoves(x, "none")
  BY <1>4, ServerFacts DEF ServerMoves
<1>6. UNCHANGED <<status, stored, payload, told, heard, causes>>
  BY DEF Quit, peer, history
<1> QED
  BY <1>1, <1>2, <1>3, <1>4, <1>5, <1>6

(* The sender gives up. *)
LEMMA HelloFailsEffect ==
    ASSUME TypeOK, NEW x \in Mails, HelloFails(x)
    PROVE  /\ sender[x].pc = "hello"
           /\ SenderMoves(x, "failed")
           /\ ServerMoves(x, "none")
           /\ UNCHANGED <<status, stored, payload, told, heard, causes>>
<1>1. /\ sender[x].pc = "hello"
  BY DEF HelloFails, At, ServerAt
<1>2. Goto(x, "failed")
  BY DEF HelloFails
<1>3. SenderMoves(x, "failed")
  BY <1>2, GotoFacts DEF SenderPC, Ended, SenderMoves
<1>4. server' = [server EXCEPT ![x] = NoServer]
  BY DEF HelloFails
<1>5. ServerMoves(x, "none")
  BY <1>4, ServerFacts DEF ServerMoves
<1>6. UNCHANGED <<status, stored, payload, told, heard, causes>>
  BY DEF HelloFails, peer, history
<1> QED
  BY <1>1, <1>2, <1>3, <1>4, <1>5, <1>6

(* The connection breaks. *)
LEMMA BreaksEffect ==
    ASSUME TypeOK, NEW x \in Mails, Breaks(x)
    PROVE  /\ sender[x].pc \notin {"idle", "dial", "sleep"} \cup Ended
           /\ SenderMoves(x, "failed")
           /\ IF sender[x].pc = "reply" THEN server' = server /\ server' \in [Mails -> ServerState] ELSE ServerMoves(x, "none")
           /\ UNCHANGED <<status, stored, payload, told, heard>>
           /\ causes' = causes \cup Blames(x)
<1>1. /\ sender[x].pc \notin {"idle", "dial", "sleep"} \cup Ended
  BY DEF Breaks, At, ServerAt
<1>2. Goto(x, "failed")
  BY DEF Breaks
<1>3. SenderMoves(x, "failed")
  BY <1>2, GotoFacts DEF SenderPC, Ended, SenderMoves
<1>4. IF sender[x].pc = "reply" THEN server' = server /\ server' \in [Mails -> ServerState] ELSE ServerMoves(x, "none")
  BY ServerFacts DEF Breaks, ServerMoves
<1>5. UNCHANGED <<status, stored, payload, told, heard>>
  BY DEF Breaks, peer, history
<1>6. causes' = causes \cup Blames(x)
  BY DEF Breaks
<1> QED
  BY <1>1, <1>2, <1>3, <1>4, <1>5, <1>6

(* The peer closes the connection. *)
LEMMA ServiceClosesEffect ==
    ASSUME TypeOK, NEW x \in Mails, ServiceCloses(x)
    PROVE  /\ sender[x].pc \in {"hello", "mail", "rcpt", "data", "quit"}
           /\ SenderMoves(x, "sleep") \/ SenderMoves(x, "failed")
           /\ ServerMoves(x, "none")
           /\ causes' = causes \cup Blames(x)
           /\ UNCHANGED <<status, stored, payload, told, heard>>
<1>1. Goto(x, "sleep") \/ Goto(x, "failed")
  BY DEF ServiceCloses, AfterTransient
<1>2. SenderMoves(x, "sleep") \/ SenderMoves(x, "failed")
  BY <1>1, GotoFacts DEF SenderPC, Ended, SenderMoves
<1>3. server' = [server EXCEPT ![x] = NoServer]
  BY DEF ServiceCloses
<1>4. ServerMoves(x, "none")
  BY <1>3, ServerFacts DEF ServerMoves
<1>5. /\ sender[x].pc \in {"hello", "mail", "rcpt", "data", "quit"}
      /\ causes' = causes \cup Blames(x)
      /\ UNCHANGED <<status, stored, payload, told, heard>>
  BY DEF ServiceCloses, At, peer, history
<1> QED
  BY <1>2, <1>4, <1>5

(* A refusal may leave the payload. *)
LEMMA RefusesEffect ==
    ASSUME TypeOK, NEW x \in Mails, Refuses(x)
    PROVE  /\ server[x].pc \in {"handle", "put", "create"}
           /\ x.type = "forward"
           /\ sender' = sender /\ sender' \in [Mails -> SenderState]
           /\ ServerMoves(x, "answer")
           /\ server'[x].code = 550
           /\ UNCHANGED <<status, stored, told, heard, causes>>
           /\ payload \subseteq payload' /\ payload' \subseteq payload \cup {x.msg}
<1>1. /\ server[x].pc \in {"handle", "put", "create"}
      /\ x.type = "forward"
  BY DEF Refuses, At, ServerAt
<1>2. sender' = sender /\ sender' \in [Mails -> SenderState]
  BY DEF Refuses, TypeOK
<1>3. Answers(x, 550)
  BY DEF Refuses
<1>4. ServerMoves(x, "answer") /\ server'[x].code = 550
  BY <1>3, ServerFacts DEF Codes, ServerMoves
<1>5. UNCHANGED <<status, stored, told, heard, causes>>
  BY DEF Refuses, peer, history
<1>6. payload \subseteq payload' /\ payload' \subseteq payload \cup {x.msg}
  BY DEF Refuses
<1> QED
  BY <1>1, <1>2, <1>3, <1>4, <1>5, <1>6

(* The message is decoded. *)
LEMMA AcceptEffect ==
    ASSUME TypeOK, NEW x \in Mails, Accept(x)
    PROVE  /\ server[x].pc = "handle"
           /\ x.type = "forward"
           /\ sender' = sender /\ sender' \in [Mails -> SenderState]
           /\ ServerMoves(x, "put")
           /\ server'[x].session = server[x].session
           /\ UNCHANGED <<status, stored, payload, told, heard, causes>>
<1>1. /\ server[x].pc = "handle"
      /\ x.type = "forward"
  BY DEF Accept, At, ServerAt
<1>2. sender' = sender /\ sender' \in [Mails -> SenderState]
  BY DEF Accept, TypeOK
<1>3. ServerGoes(x, "put")
  BY DEF Accept, ServerGoes
<1>4. ServerMoves(x, "put") /\ server'[x].session = server[x].session
  BY <1>3, ServerFacts DEF ServerPC, ServerMoves
<1>5. UNCHANGED <<status, stored, payload, told, heard, causes>>
  BY DEF Accept, peer, history
<1> QED
  BY <1>1, <1>2, <1>3, <1>4, <1>5

(* The payload is written. *)
LEMMA PutEffect ==
    ASSUME TypeOK, NEW x \in Mails, Put(x)
    PROVE  /\ server[x].pc = "put"
           /\ sender' = sender /\ sender' \in [Mails -> SenderState]
           /\ ServerMoves(x, "create")
           /\ server'[x].session = server[x].session
           /\ UNCHANGED <<status, stored, told, heard, causes>>
           /\ payload' = payload \cup {x.msg}
<1>1. /\ server[x].pc = "put"
  BY DEF Put, At, ServerAt
<1>2. sender' = sender /\ sender' \in [Mails -> SenderState]
  BY DEF Put, TypeOK
<1>3. ServerGoes(x, "create")
  BY DEF Put, ServerGoes
<1>4. ServerMoves(x, "create") /\ server'[x].session = server[x].session
  BY <1>3, ServerFacts DEF ServerPC, ServerMoves
<1>5. UNCHANGED <<status, stored, told, heard, causes>>
  BY DEF Put, peer, history
<1>6. payload' = payload \cup {x.msg}
  BY DEF Put
<1> QED
  BY <1>1, <1>2, <1>3, <1>4, <1>5, <1>6

(* The handler goes on, whatever became of the response. *)
LEMMA ResponseEndsEffect ==
    ASSUME TypeOK, NEW x \in Mails, ResponseEnds(x)
    PROVE  /\ server[x].pc = "wait"
           /\ sender' = sender /\ sender' \in [Mails -> SenderState]
           /\ ServerMoves(x, "push")
           /\ server'[x].session = server[x].session
           /\ UNCHANGED <<status, stored, payload, told, heard, causes>>
<1>1. /\ server[x].pc = "wait"
  BY DEF ResponseEnds, At, ServerAt
<1>2. sender' = sender /\ sender' \in [Mails -> SenderState]
  BY DEF ResponseEnds, TypeOK
<1>3. ServerGoes(x, "push")
  BY DEF ResponseEnds, ServerGoes
<1>4. ServerMoves(x, "push") /\ server'[x].session = server[x].session
  BY <1>3, ServerFacts DEF ServerPC, ServerMoves
<1>5. UNCHANGED <<status, stored, payload, told, heard, causes>>
  BY DEF ResponseEnds, peer, history
<1> QED
  BY <1>1, <1>2, <1>3, <1>4, <1>5

(* The message is acknowledged. *)
LEMMA DispatchLocalNotificationEffect ==
    ASSUME TypeOK, NEW x \in Mails, DispatchLocalNotification(x)
    PROVE  /\ server[x].pc = "push"
           /\ sender' = sender /\ sender' \in [Mails -> SenderState]
           /\ ServerMoves(x, "answer")
           /\ server'[x].code = 250
           /\ UNCHANGED <<status, stored, payload, told, heard, causes>>
<1>1. /\ server[x].pc = "push"
  BY DEF DispatchLocalNotification, At, ServerAt
<1>2. sender' = sender /\ sender' \in [Mails -> SenderState]
  BY DEF DispatchLocalNotification, TypeOK
<1>3. Answers(x, 250)
  BY DEF DispatchLocalNotification
<1>4. ServerMoves(x, "answer") /\ server'[x].code = 250
  BY <1>3, ServerFacts DEF Codes, ServerMoves
<1>5. UNCHANGED <<status, stored, payload, told, heard, causes>>
  BY DEF DispatchLocalNotification, peer, history
<1> QED
  BY <1>1, <1>2, <1>3, <1>4, <1>5

(* The message is stored and refused. *)
LEMMA DispatchFailsEffect ==
    ASSUME TypeOK, NEW x \in Mails, DispatchFails(x)
    PROVE  /\ server[x].pc = "push"
           /\ sender' = sender /\ sender' \in [Mails -> SenderState]
           /\ ServerMoves(x, "answer")
           /\ server'[x].code = 550
           /\ UNCHANGED <<status, stored, payload, told, heard>>
           /\ causes' = causes \cup {x.msg}
<1>1. /\ server[x].pc = "push"
  BY DEF DispatchFails, At, ServerAt
<1>2. sender' = sender /\ sender' \in [Mails -> SenderState]
  BY DEF DispatchFails, TypeOK
<1>3. Answers(x, 550)
  BY DEF DispatchFails
<1>4. ServerMoves(x, "answer") /\ server'[x].code = 550
  BY <1>3, ServerFacts DEF Codes, ServerMoves
<1>5. UNCHANGED <<status, stored, payload, told, heard>>
  BY DEF DispatchFails, peer, history
<1>6. causes' = causes \cup {x.msg}
  BY DEF DispatchFails
<1> QED
  BY <1>1, <1>2, <1>3, <1>4, <1>5, <1>6

(* A response changes nothing. *)
LEMMA HandleResponseEffect ==
    ASSUME TypeOK, NEW x \in Mails, HandleResponse(x)
    PROVE  /\ server[x].pc = "handle"
           /\ x.type = "response"
           /\ sender' = sender /\ sender' \in [Mails -> SenderState]
           /\ ServerMoves(x, "answer")
           /\ server'[x].code = 250
           /\ UNCHANGED <<status, stored, payload, told, heard, causes>>
<1>1. /\ server[x].pc = "handle"
      /\ x.type = "response"
  BY DEF HandleResponse, At, ServerAt
<1>2. sender' = sender /\ sender' \in [Mails -> SenderState]
  BY DEF HandleResponse, TypeOK
<1>3. Answers(x, 250)
  BY DEF HandleResponse
<1>4. ServerMoves(x, "answer") /\ server'[x].code = 250
  BY <1>3, ServerFacts DEF Codes, ServerMoves
<1>5. UNCHANGED <<status, stored, payload, told, heard, causes>>
  BY DEF HandleResponse, peer, history
<1> QED
  BY <1>1, <1>2, <1>3, <1>4, <1>5

(* A report sets the status. *)
LEMMA HandleReportEffect ==
    ASSUME TypeOK, NEW x \in Mails, HandleReport(x)
    PROVE  /\ server[x].pc = "handle"
           /\ x.type \in {"report", "read"}
           /\ sender' = sender /\ sender' \in [Mails -> SenderState]
           /\ ServerMoves(x, "answer")
           /\ server'[x].code = 250
           /\ UNCHANGED <<stored, payload, told, causes>>
           /\ status' = [status EXCEPT ![x.msg] = ReportedStatus(x.says)] /\ heard' = heard \cup {x.msg}
<1>1. /\ server[x].pc = "handle"
      /\ x.type \in {"report", "read"}
  BY DEF HandleReport, At, ServerAt
<1>2. sender' = sender /\ sender' \in [Mails -> SenderState]
  BY DEF HandleReport, TypeOK
<1>3. Answers(x, 250)
  BY DEF HandleReport
<1>4. ServerMoves(x, "answer") /\ server'[x].code = 250
  BY <1>3, ServerFacts DEF Codes, ServerMoves
<1>5. UNCHANGED <<stored, payload, told, causes>>
  BY DEF HandleReport, peer, history
<1>6. status' = [status EXCEPT ![x.msg] = ReportedStatus(x.says)] /\ heard' = heard \cup {x.msg}
  BY DEF HandleReport
<1> QED
  BY <1>1, <1>2, <1>3, <1>4, <1>5, <1>6

(* The row is created once. *)
LEMMA CreateMessageEffect ==
    ASSUME TypeOK, MailInv, NEW x \in Mails, CreateMessage(x)
    PROVE  /\ server[x].pc = "create" /\ x.type = "forward" /\ x.msg \in Msgs /\ x = Forward(x.msg)
           /\ sender' = sender /\ sender' \in [Mails -> SenderState]
           /\ \/ /\ x.msg \in DOMAIN stored /\ stored' = stored
                 /\ ServerMoves(x, "answer") /\ server'[x].code = 550
              \/ /\ x.msg \notin DOMAIN stored /\ DOMAIN stored' = DOMAIN stored \cup {x.msg}
                 /\ stored'[x.msg] = To[x.msg] /\ \A k \in DOMAIN stored : stored'[k] = stored[k]
                 /\ server'[x].session = server[x].session
                 /\ ServerMoves(x, "respond") \/ ServerMoves(x, "push")
           /\ UNCHANGED <<status, payload, told, heard, causes>>
<1>1. server[x].pc = "create" /\ sender' = sender /\ sender' \in [Mails -> SenderState]
  BY DEF CreateMessage, ServerAt, TypeOK
<1>2. x.type = "forward" /\ x.msg \in Msgs /\ x = Forward(x.msg) /\ server[x].session.rcpts = To[x.msg]
  BY <1>1, MailFacts DEF MailInv, Serves, Talks, Rcpts
<1>3. Recipients(via[x.msg], To[x.msg], server[x].session) = To[x.msg]
  BY <1>2 DEF Recipients
<1>4. CASE x.msg \in DOMAIN stored
  <2>1. Answers(x, 550) /\ stored' = stored
    BY <1>4 DEF CreateMessage
  <2> QED
    BY <1>4, <2>1, ServerFacts, <1>1, <1>2 DEF Codes, ServerMoves, CreateMessage, history
<1>5. CASE x.msg \notin DOMAIN stored
  <2>1. stored' = [k \in DOMAIN stored \cup {x.msg} |-> IF k = x.msg THEN To[x.msg] ELSE stored[k]]
    BY <1>3, <1>5 DEF CreateMessage
  <2>2. /\ DOMAIN stored' = DOMAIN stored \cup {x.msg}
        /\ stored'[x.msg] = To[x.msg] /\ \A k \in DOMAIN stored : stored'[k] = stored[k]
    BY <1>5, <2>1
  <2>3. ServerGoes(x, "respond") \/ ServerGoes(x, "push")
    BY <1>5 DEF CreateMessage
  <2>4. /\ server'[x].session = server[x].session
        /\ ServerMoves(x, "respond") \/ ServerMoves(x, "push")
    BY <2>3, ServerFacts DEF ServerPC, ServerMoves
  <2> QED
    BY <1>1, <1>2, <1>5, <2>2, <2>4 DEF CreateMessage, history
<1> QED
  BY <1>4, <1>5

(* The response is sent by the handler. *)
LEMMA SendForwardResponseEffect ==
    ASSUME TypeOK, NEW x \in Mails, SendForwardResponse(x)
    PROVE  /\ server[x].pc = "respond"
           /\ x.msg \in Msgs /\ SenderMoves(Response(x.msg), "dial")
           /\ ServerMoves(x, "wait") /\ server'[x].session = server[x].session
           /\ UNCHANGED <<status, stored, payload, told, heard, causes>>
<1>1. server[x].pc = "respond" /\ ServerGoes(x, "wait") /\ sender' = Started(Response(x.msg))
  BY DEF SendForwardResponse, ServerAt
<1>2. x.msg \in Msgs /\ Response(x.msg) \in Mails
  BY MailFacts
<1>3. SenderMoves(Response(x.msg), "dial")
  BY <1>1, <1>2, StartedFacts DEF SenderMoves
<1>4. ServerMoves(x, "wait") /\ server'[x].session = server[x].session
  BY <1>1, ServerFacts DEF ServerPC, ServerMoves
<1>5. UNCHANGED <<status, stored, payload, told, heard, causes>>
  BY DEF SendForwardResponse, peer, history
<1> QED
  BY <1>1, <1>2, <1>3, <1>4, <1>5

(* The row is Forwarded and the send begins. *)
LEMMA RelayMessageEffect ==
    ASSUME TypeOK, NEW m \in Msgs, RelayMessage(m)
    PROVE  /\ Forward(m) \in Mails /\ SenderMoves(Forward(m), "dial")
           /\ server' = server /\ server' \in [Mails -> ServerState]
           /\ status[m] = "none"
           /\ status' = [status EXCEPT ![m] = "Forwarded"]
           /\ UNCHANGED <<stored, payload, told, heard, causes>>
<1>1. Forward(m) \in Mails /\ sender' = Started(Forward(m))
  BY MailFacts DEF RelayMessage
<1>2. SenderMoves(Forward(m), "dial")
  BY <1>1, StartedFacts DEF SenderMoves
<1>3. server' = server /\ server' \in [Mails -> ServerState]
  BY DEF RelayMessage, TypeOK
<1>4. /\ status[m] = "none"
      /\ status' = [status EXCEPT ![m] = "Forwarded"]
  BY DEF RelayMessage
<1>5. UNCHANGED <<stored, payload, told, heard, causes>>
  BY DEF RelayMessage, peer, history
<1> QED
  BY <1>1, <1>2, <1>3, <1>4, <1>5

(* A report of an outcome. *)
LEMMA SendDeliveryReportEffect ==
    ASSUME TypeOK, NEW m \in Msgs, NEW st \in Outcomes, SendDeliveryReport(m, st)
    PROVE  /\ Report(m, st) \in Mails /\ SenderMoves(Report(m, st), "dial")
           /\ server' = server /\ server' \in [Mails -> ServerState]
           /\ m \in DOMAIN stored
           /\ told' = [told EXCEPT ![m] = @ \cup {st}]
           /\ UNCHANGED <<status, stored, payload, heard, causes>>
<1>1. Report(m, st) \in Mails /\ sender' = Started(Report(m, st))
  BY MailFacts DEF SendDeliveryReport
<1>2. SenderMoves(Report(m, st), "dial")
  BY <1>1, StartedFacts DEF SenderMoves
<1>3. server' = server /\ server' \in [Mails -> ServerState]
  BY DEF SendDeliveryReport, TypeOK
<1>4. /\ m \in DOMAIN stored
      /\ told' = [told EXCEPT ![m] = @ \cup {st}]
  BY DEF SendDeliveryReport
<1>5. UNCHANGED <<status, stored, payload, heard, causes>>
  BY DEF SendDeliveryReport, peer, history
<1> QED
  BY <1>1, <1>2, <1>3, <1>4, <1>5

(* A read reply. *)
LEMMA SendReadReplyEffect ==
    ASSUME TypeOK, NEW m \in Msgs, SendReadReply(m)
    PROVE  /\ ReadReply(m) \in Mails /\ SenderMoves(ReadReply(m), "dial")
           /\ server' = server /\ server' \in [Mails -> ServerState]
           /\ m \in DOMAIN stored
           /\ told' = [told EXCEPT ![m] = @ \cup {"Read"}]
           /\ UNCHANGED <<status, stored, payload, heard, causes>>
<1>1. ReadReply(m) \in Mails /\ sender' = Started(ReadReply(m))
  BY MailFacts DEF SendReadReply
<1>2. SenderMoves(ReadReply(m), "dial")
  BY <1>1, StartedFacts DEF SenderMoves
<1>3. server' = server /\ server' \in [Mails -> ServerState]
  BY DEF SendReadReply, TypeOK
<1>4. /\ m \in DOMAIN stored
      /\ told' = [told EXCEPT ![m] = @ \cup {"Read"}]
  BY DEF SendReadReply
<1>5. UNCHANGED <<status, stored, payload, heard, causes>>
  BY DEF SendReadReply, peer, history
<1> QED
  BY <1>1, <1>2, <1>3, <1>4, <1>5

(* The caller of a failed send. *)
LEMMA MarkUnreachableEffect ==
    ASSUME TypeOK, NEW m \in Msgs, MarkUnreachable(m)
    PROVE  /\ Forward(m) \in Mails /\ sender[Forward(m)].pc = "failed" /\ SenderMoves(Forward(m), "marked")
           /\ server' = server /\ server' \in [Mails -> ServerState]
           /\ status' \in {status, [status EXCEPT ![m] = "Unreachable"]}
           /\ UNCHANGED <<stored, payload, told, heard, causes>>
<1>1. /\ Forward(m) \in Mails /\ sender[Forward(m)].pc = "failed" /\ Goto(Forward(m), "marked")
      /\ status' \in {status, [status EXCEPT ![m] = "Unreachable"]}
  BY MailFacts DEF MarkUnreachable
<1>2. SenderMoves(Forward(m), "marked")
  BY <1>1, GotoFacts DEF SenderPC, Ended, SenderMoves
<1>3. server' = server /\ server' \in [Mails -> ServerState]
  BY DEF MarkUnreachable, TypeOK
<1>4. UNCHANGED <<stored, payload, told, heard, causes>>
  BY DEF MarkUnreachable, peer, history
<1> QED
  BY <1>1, <1>2, <1>3, <1>4

(* A connection that no longer answers. *)
LEMMA GoesSilentEffect ==
    ASSUME TypeOK, NEW x \in Mails, GoesSilent(x)
    PROVE  /\ sender' = sender /\ server' = server
           /\ sender' \in [Mails -> SenderState] /\ server' \in [Mails -> ServerState]
           /\ UNCHANGED <<status, stored, payload, told, heard, causes>>
  BY DEF GoesSilent, peer, history, TypeOK

----------------------------------------------------------------------------
(* What the two ends of a connection know of each other *)

OnlyMail(x) == \A y \in Mails \ {x} : sender'[y] = sender[y] /\ server'[y] = server[y]
Grows == payload \subseteq payload' /\ \A m \in Msgs : told[m] \subseteq told'[m]

(* A mail that no step touches is as it was. *)
LEMMA MailKept ==
    ASSUME MailInv, Grows, NEW y \in Mails, sender'[y] = sender[y], server'[y] = server[y]
    PROVE  Talks(y)' /\ Serves(y)' /\ Told(y)'
<1>1. Talks(y) /\ Serves(y) /\ Told(y) /\ y.msg \in Msgs
  BY MailFacts DEF MailInv
<1>2. Talks(y)'
  BY <1>1 DEF Talks
<1>3. Serves(y)'
  BY <1>1 DEF Serves, Grows
<1>4. Told(y)'
  BY <1>1 DEF Told, Grows
<1> QED
  BY <1>2, <1>3, <1>4

(* No step breaks what the ends of a connection know. *)
LEMMA MailStep ==
    ASSUME TypeOK, MailInv, [Next]_vars
    PROVE  MailInv'
<1>1. ASSUME NEW x \in Mails, Dial(x) PROVE MailInv'
  <2>1. OnlyMail(x) /\ Grows
    BY <1>1, DialEffect DEF OnlyMail, Grows, SenderMoves, ServerMoves, OthersSend, OthersServed
  <2>2. \A y \in Mails \ {x} : Talks(y)' /\ Serves(y)' /\ Told(y)'
    BY <2>1, MailKept DEF OnlyMail
  <2>3. Talks(x) /\ Serves(x) /\ Told(x)
    BY DEF MailInv
  <2>4. Talks(x)'
    BY <1>1, <2>3, DialEffect DEF Talks, SenderMoves, ServerMoves, Ended
  <2>5. Serves(x)'
    BY <1>1, <2>3, DialEffect DEF Serves, SenderMoves, ServerMoves, Ended
  <2>6. Told(x)'
    BY <1>1, <2>3, DialEffect DEF Told, SenderMoves, ServerMoves, Ended
  <2> QED
    BY <2>2, <2>4, <2>5, <2>6 DEF MailInv
<1>2. ASSUME NEW x \in Mails, DialFails(x) PROVE MailInv'
  <2>1. OnlyMail(x) /\ Grows
    BY <1>2, DialFailsEffect
       DEF OnlyMail, Grows, SenderMoves, ServerMoves, OthersSend, OthersServed
  <2>2. \A y \in Mails \ {x} : Talks(y)' /\ Serves(y)' /\ Told(y)'
    BY <2>1, MailKept DEF OnlyMail
  <2>3. Talks(x) /\ Serves(x) /\ Told(x)
    BY DEF MailInv
  <2>4. Talks(x)'
    BY <1>2, <2>3, DialFailsEffect DEF Talks, SenderMoves, ServerMoves, Ended
  <2>5. Serves(x)'
    BY <1>2, <2>3, DialFailsEffect DEF Serves, SenderMoves, ServerMoves, Ended
  <2>6. Told(x)'
    BY <1>2, <2>3, DialFailsEffect DEF Told, SenderMoves, ServerMoves, Ended
  <2> QED
    BY <2>2, <2>4, <2>5, <2>6 DEF MailInv
<1>3. ASSUME NEW x \in Mails, Sleep(x) PROVE MailInv'
  <2>1. OnlyMail(x) /\ Grows
    BY <1>3, SleepEffect DEF OnlyMail, Grows, SenderMoves, ServerMoves, OthersSend, OthersServed
  <2>2. \A y \in Mails \ {x} : Talks(y)' /\ Serves(y)' /\ Told(y)'
    BY <2>1, MailKept DEF OnlyMail
  <2>3. Talks(x) /\ Serves(x) /\ Told(x)
    BY DEF MailInv
  <2>4. Talks(x)'
    BY <1>3, <2>3, SleepEffect DEF Talks, SenderMoves, ServerMoves, Ended
  <2>5. Serves(x)'
    BY <1>3, <2>3, SleepEffect DEF Serves, SenderMoves, ServerMoves, Ended
  <2>6. Told(x)'
    BY <1>3, <2>3, SleepEffect DEF Told, SenderMoves, ServerMoves, Ended
  <2> QED
    BY <2>2, <2>4, <2>5, <2>6 DEF MailInv
<1>4. ASSUME NEW x \in Mails, Hello(x) PROVE MailInv'
  <2>1. OnlyMail(x) /\ Grows
    BY <1>4, HelloEffect DEF OnlyMail, Grows, SenderMoves, ServerMoves, OthersSend, OthersServed
  <2>2. \A y \in Mails \ {x} : Talks(y)' /\ Serves(y)' /\ Told(y)'
    BY <2>1, MailKept DEF OnlyMail
  <2>3. Talks(x) /\ Serves(x) /\ Told(x)
    BY DEF MailInv
  <2>4. Talks(x)'
    BY <1>4, <2>3, HelloEffect DEF Talks, SenderMoves, ServerMoves, Ended
  <2>5. Serves(x)'
    BY <1>4, <2>3, HelloEffect DEF Serves, SenderMoves, ServerMoves, Ended
  <2>6. Told(x)'
    BY <1>4, <2>3, HelloEffect DEF Told, SenderMoves, ServerMoves, Ended
  <2> QED
    BY <2>2, <2>4, <2>5, <2>6 DEF MailInv
<1>5. ASSUME NEW x \in Mails, Mail(x) PROVE MailInv'
  <2>1. OnlyMail(x) /\ Grows
    BY <1>5, MailEffect DEF OnlyMail, Grows, SenderMoves, ServerMoves, OthersSend, OthersServed
  <2>2. \A y \in Mails \ {x} : Talks(y)' /\ Serves(y)' /\ Told(y)'
    BY <2>1, MailKept DEF OnlyMail
  <2>3. Talks(x) /\ Serves(x) /\ Told(x)
    BY DEF MailInv
  <2>4. Talks(x)'
    BY <1>5, <2>3, MailEffect, RcptsFacts DEF Talks, SenderMoves, ServerMoves, Ended
  <2>5. Serves(x)'
    BY <1>5, <2>3, MailEffect DEF Serves, SenderMoves, ServerMoves, Ended
  <2>6. Told(x)'
    BY <1>5, <2>3, MailEffect DEF Told, SenderMoves, ServerMoves, Ended
  <2> QED
    BY <2>2, <2>4, <2>5, <2>6 DEF MailInv
<1>6. ASSUME NEW x \in Mails, Rcpt(x) PROVE MailInv'
  <2>1. OnlyMail(x) /\ Grows
    BY <1>6, RcptEffect DEF OnlyMail, Grows, SenderMoves, ServerMoves, OthersSend, OthersServed
  <2>2. \A y \in Mails \ {x} : Talks(y)' /\ Serves(y)' /\ Told(y)'
    BY <2>1, MailKept DEF OnlyMail
  <2>3. Talks(x) /\ Serves(x) /\ Told(x)
    BY DEF MailInv
  <2>4. Talks(x)'
    BY <1>6, <2>3, RcptEffect DEF Talks, SenderMoves, ServerMoves, Ended
  <2>5. Serves(x)'
    BY <1>6, <2>3, RcptEffect DEF Serves, SenderMoves, ServerMoves, Ended
  <2>6. Told(x)'
    BY <1>6, <2>3, RcptEffect DEF Told, SenderMoves, ServerMoves, Ended
  <2> QED
    BY <2>2, <2>4, <2>5, <2>6 DEF MailInv
<1>7. ASSUME NEW x \in Mails, Data(x) PROVE MailInv'
  <2>1. OnlyMail(x) /\ Grows
    BY <1>7, DataEffect DEF OnlyMail, Grows, SenderMoves, ServerMoves, OthersSend, OthersServed
  <2>2. \A y \in Mails \ {x} : Talks(y)' /\ Serves(y)' /\ Told(y)'
    BY <2>1, MailKept DEF OnlyMail
  <2>3. Talks(x) /\ Serves(x) /\ Told(x)
    BY DEF MailInv
  <2>4. Talks(x)'
    BY <1>7, <2>3, DataEffect DEF Talks, SenderMoves, ServerMoves, Ended
  <2>5. Serves(x)'
    BY <1>7, <2>3, DataEffect DEF Serves, SenderMoves, ServerMoves, Ended
  <2>6. Told(x)'
    BY <1>7, <2>3, DataEffect DEF Told, SenderMoves, ServerMoves, Ended
  <2> QED
    BY <2>2, <2>4, <2>5, <2>6 DEF MailInv
<1>8. ASSUME NEW x \in Mails, Body(x) PROVE MailInv'
  <2>1. OnlyMail(x) /\ Grows
    BY <1>8, BodyEffect DEF OnlyMail, Grows, SenderMoves, ServerMoves, OthersSend, OthersServed
  <2>2. \A y \in Mails \ {x} : Talks(y)' /\ Serves(y)' /\ Told(y)'
    BY <2>1, MailKept DEF OnlyMail
  <2>3. Talks(x) /\ Serves(x) /\ Told(x)
    BY DEF MailInv
  <2>4. Talks(x)'
    BY <1>8, <2>3, BodyEffect DEF Talks, SenderMoves, ServerMoves, Ended
  <2>5. Serves(x)'
    BY <1>8, <2>3, BodyEffect DEF Serves, SenderMoves, ServerMoves, Ended
  <2>6. Told(x)'
    BY <1>8, <2>3, BodyEffect DEF Told, SenderMoves, ServerMoves, Ended
  <2> QED
    BY <2>2, <2>4, <2>5, <2>6 DEF MailInv
<1>9. ASSUME NEW x \in Mails, Reply(x) PROVE MailInv'
  <2>1. OnlyMail(x) /\ Grows
    BY <1>9, ReplyEffect DEF OnlyMail, Grows, SenderMoves, ServerMoves, OthersSend, OthersServed
  <2>2. \A y \in Mails \ {x} : Talks(y)' /\ Serves(y)' /\ Told(y)'
    BY <2>1, MailKept DEF OnlyMail
  <2>3. Talks(x) /\ Serves(x) /\ Told(x)
    BY DEF MailInv
  <2>4. Talks(x)'
    BY <1>9, <2>3, ReplyEffect DEF Talks, SenderMoves, ServerMoves, Ended
  <2>5. Serves(x)'
    BY <1>9, <2>3, ReplyEffect DEF Serves, SenderMoves, ServerMoves, Ended
  <2>6. Told(x)'
    BY <1>9, <2>3, ReplyEffect DEF Told, SenderMoves, ServerMoves, Ended
  <2> QED
    BY <2>2, <2>4, <2>5, <2>6 DEF MailInv
<1>10. ASSUME NEW x \in Mails, Quit(x) PROVE MailInv'
  <2>1. OnlyMail(x) /\ Grows
    BY <1>10, QuitEffect DEF OnlyMail, Grows, SenderMoves, ServerMoves, OthersSend, OthersServed
  <2>2. \A y \in Mails \ {x} : Talks(y)' /\ Serves(y)' /\ Told(y)'
    BY <2>1, MailKept DEF OnlyMail
  <2>3. Talks(x) /\ Serves(x) /\ Told(x)
    BY DEF MailInv
  <2>4. Talks(x)'
    BY <1>10, <2>3, QuitEffect DEF Talks, SenderMoves, ServerMoves, Ended
  <2>5. Serves(x)'
    BY <1>10, <2>3, QuitEffect DEF Serves, SenderMoves, ServerMoves, Ended
  <2>6. Told(x)'
    BY <1>10, <2>3, QuitEffect DEF Told, SenderMoves, ServerMoves, Ended
  <2> QED
    BY <2>2, <2>4, <2>5, <2>6 DEF MailInv
<1>11. ASSUME NEW x \in Mails, Accept(x) PROVE MailInv'
  <2>1. OnlyMail(x) /\ Grows
    BY <1>11, AcceptEffect
       DEF OnlyMail, Grows, SenderMoves, ServerMoves, OthersSend, OthersServed
  <2>2. \A y \in Mails \ {x} : Talks(y)' /\ Serves(y)' /\ Told(y)'
    BY <2>1, MailKept DEF OnlyMail
  <2>3. Talks(x) /\ Serves(x) /\ Told(x)
    BY DEF MailInv
  <2>4. Talks(x)'
    BY <1>11, <2>3, AcceptEffect DEF Talks, SenderMoves, ServerMoves, Ended
  <2>5. Serves(x)'
    BY <1>11, <2>3, AcceptEffect DEF Serves, SenderMoves, ServerMoves, Ended
  <2>6. Told(x)'
    BY <1>11, <2>3, AcceptEffect DEF Told, SenderMoves, ServerMoves, Ended
  <2> QED
    BY <2>2, <2>4, <2>5, <2>6 DEF MailInv
<1>12. ASSUME NEW x \in Mails, Put(x) PROVE MailInv'
  <2>1. OnlyMail(x) /\ Grows
    BY <1>12, PutEffect DEF OnlyMail, Grows, SenderMoves, ServerMoves, OthersSend, OthersServed
  <2>2. \A y \in Mails \ {x} : Talks(y)' /\ Serves(y)' /\ Told(y)'
    BY <2>1, MailKept DEF OnlyMail
  <2>3. Talks(x) /\ Serves(x) /\ Told(x)
    BY DEF MailInv
  <2>4. Talks(x)'
    BY <1>12, <2>3, PutEffect DEF Talks, SenderMoves, ServerMoves, Ended
  <2>5. Serves(x)'
    BY <1>12, <2>3, PutEffect DEF Serves, SenderMoves, ServerMoves, Ended
  <2>6. Told(x)'
    BY <1>12, <2>3, PutEffect DEF Told, SenderMoves, ServerMoves, Ended
  <2> QED
    BY <2>2, <2>4, <2>5, <2>6 DEF MailInv
<1>13. ASSUME NEW x \in Mails, CreateMessage(x) PROVE MailInv'
  <2>1. OnlyMail(x) /\ Grows
    BY <1>13, CreateMessageEffect
       DEF OnlyMail, Grows, SenderMoves, ServerMoves, OthersSend, OthersServed
  <2>2. \A y \in Mails \ {x} : Talks(y)' /\ Serves(y)' /\ Told(y)'
    BY <2>1, MailKept DEF OnlyMail
  <2>3. Talks(x) /\ Serves(x) /\ Told(x)
    BY DEF MailInv
  <2>4. Talks(x)'
    BY <1>13, <2>3, CreateMessageEffect DEF Talks, SenderMoves, ServerMoves, Ended
  <2>5. Serves(x)'
    BY <1>13, <2>3, CreateMessageEffect DEF Serves, SenderMoves, ServerMoves, Ended
  <2>6. Told(x)'
    BY <1>13, <2>3, CreateMessageEffect DEF Told, SenderMoves, ServerMoves, Ended
  <2> QED
    BY <2>2, <2>4, <2>5, <2>6 DEF MailInv
<1>14. ASSUME NEW x \in Mails, SendForwardResponse(x) PROVE MailInv'
  <2>1. /\ server[x].pc = "respond" /\ x.msg \in Msgs /\ SenderMoves(Response(x.msg), "dial")
        /\ ServerMoves(x, "wait") /\ server'[x].session = server[x].session
        /\ UNCHANGED <<stored, payload, told>>
    BY <1>14, SendForwardResponseEffect
  <2>2. PICK y \in Mails : y = Response(x.msg) /\ y.type = "response"
    BY <2>1, MailFacts
  <2>3. Talks(x) /\ Serves(x) /\ Told(x) /\ Talks(y) /\ Serves(y)
    BY DEF MailInv
  <2>4. x.type = "forward" /\ x # y
    BY <2>1, <2>2, <2>3 DEF Serves
  <2>5. sender'[y].pc = "dial" /\ server'[y] = server[y] /\ sender'[x] = sender[x] /\ server'[x].pc = "wait" /\ server'[x].session = server[x].session
    BY <2>1, <2>2, <2>4 DEF SenderMoves, ServerMoves, OthersSend, OthersServed
  <2>6. Talks(x)' /\ Serves(x)' /\ Told(x)'
    BY <2>1, <2>3, <2>4, <2>5 DEF Talks, Serves, Told
  <2>7. Talks(y)' /\ Serves(y)' /\ Told(y)'
    BY <2>1, <2>2, <2>3, <2>5 DEF Talks, Serves, Told
  <2>8. \A z \in Mails \ {x, y} : sender'[z] = sender[z] /\ server'[z] = server[z]
    BY <2>1, <2>2 DEF SenderMoves, ServerMoves, OthersSend, OthersServed
  <2>9. \A z \in Mails \ {x, y} : Talks(z)' /\ Serves(z)' /\ Told(z)'
    BY <2>1, <2>8, MailKept DEF Grows
  <2> QED
    BY <2>6, <2>7, <2>9 DEF MailInv
<1>15. ASSUME NEW x \in Mails, ResponseEnds(x) PROVE MailInv'
  <2>1. OnlyMail(x) /\ Grows
    BY <1>15, ResponseEndsEffect
       DEF OnlyMail, Grows, SenderMoves, ServerMoves, OthersSend, OthersServed
  <2>2. \A y \in Mails \ {x} : Talks(y)' /\ Serves(y)' /\ Told(y)'
    BY <2>1, MailKept DEF OnlyMail
  <2>3. Talks(x) /\ Serves(x) /\ Told(x)
    BY DEF MailInv
  <2>4. Talks(x)'
    BY <1>15, <2>3, ResponseEndsEffect DEF Talks, SenderMoves, ServerMoves, Ended
  <2>5. Serves(x)'
    BY <1>15, <2>3, ResponseEndsEffect DEF Serves, SenderMoves, ServerMoves, Ended
  <2>6. Told(x)'
    BY <1>15, <2>3, ResponseEndsEffect DEF Told, SenderMoves, ServerMoves, Ended
  <2> QED
    BY <2>2, <2>4, <2>5, <2>6 DEF MailInv
<1>16. ASSUME NEW x \in Mails, DispatchLocalNotification(x) PROVE MailInv'
  <2>1. OnlyMail(x) /\ Grows
    BY <1>16, DispatchLocalNotificationEffect
       DEF OnlyMail, Grows, SenderMoves, ServerMoves, OthersSend, OthersServed
  <2>2. \A y \in Mails \ {x} : Talks(y)' /\ Serves(y)' /\ Told(y)'
    BY <2>1, MailKept DEF OnlyMail
  <2>3. Talks(x) /\ Serves(x) /\ Told(x)
    BY DEF MailInv
  <2>4. Talks(x)'
    BY <1>16, <2>3, DispatchLocalNotificationEffect DEF Talks, SenderMoves, ServerMoves, Ended
  <2>5. Serves(x)'
    BY <1>16, <2>3, DispatchLocalNotificationEffect DEF Serves, SenderMoves, ServerMoves, Ended
  <2>6. Told(x)'
    BY <1>16, <2>3, DispatchLocalNotificationEffect DEF Told, SenderMoves, ServerMoves, Ended
  <2> QED
    BY <2>2, <2>4, <2>5, <2>6 DEF MailInv
<1>17. ASSUME NEW x \in Mails, HandleResponse(x) PROVE MailInv'
  <2>1. OnlyMail(x) /\ Grows
    BY <1>17, HandleResponseEffect
       DEF OnlyMail, Grows, SenderMoves, ServerMoves, OthersSend, OthersServed
  <2>2. \A y \in Mails \ {x} : Talks(y)' /\ Serves(y)' /\ Told(y)'
    BY <2>1, MailKept DEF OnlyMail
  <2>3. Talks(x) /\ Serves(x) /\ Told(x)
    BY DEF MailInv
  <2>4. Talks(x)'
    BY <1>17, <2>3, HandleResponseEffect DEF Talks, SenderMoves, ServerMoves, Ended
  <2>5. Serves(x)'
    BY <1>17, <2>3, HandleResponseEffect DEF Serves, SenderMoves, ServerMoves, Ended
  <2>6. Told(x)'
    BY <1>17, <2>3, HandleResponseEffect DEF Told, SenderMoves, ServerMoves, Ended
  <2> QED
    BY <2>2, <2>4, <2>5, <2>6 DEF MailInv
<1>18. ASSUME NEW x \in Mails, HandleReport(x) PROVE MailInv'
  <2>1. OnlyMail(x) /\ Grows
    BY <1>18, HandleReportEffect
       DEF OnlyMail, Grows, SenderMoves, ServerMoves, OthersSend, OthersServed
  <2>2. \A y \in Mails \ {x} : Talks(y)' /\ Serves(y)' /\ Told(y)'
    BY <2>1, MailKept DEF OnlyMail
  <2>3. Talks(x) /\ Serves(x) /\ Told(x)
    BY DEF MailInv
  <2>4. Talks(x)'
    BY <1>18, <2>3, HandleReportEffect DEF Talks, SenderMoves, ServerMoves, Ended
  <2>5. Serves(x)'
    BY <1>18, <2>3, HandleReportEffect DEF Serves, SenderMoves, ServerMoves, Ended
  <2>6. Told(x)'
    BY <1>18, <2>3, HandleReportEffect DEF Told, SenderMoves, ServerMoves, Ended
  <2> QED
    BY <2>2, <2>4, <2>5, <2>6 DEF MailInv
<1>19. ASSUME NEW x \in Mails, HelloFails(x) PROVE MailInv'
  <2>1. OnlyMail(x) /\ Grows
    BY <1>19, HelloFailsEffect
       DEF OnlyMail, Grows, SenderMoves, ServerMoves, OthersSend, OthersServed
  <2>2. \A y \in Mails \ {x} : Talks(y)' /\ Serves(y)' /\ Told(y)'
    BY <2>1, MailKept DEF OnlyMail
  <2>3. Talks(x) /\ Serves(x) /\ Told(x)
    BY DEF MailInv
  <2>4. Talks(x)'
    BY <1>19, <2>3, HelloFailsEffect DEF Talks, SenderMoves, ServerMoves, Ended
  <2>5. Serves(x)'
    BY <1>19, <2>3, HelloFailsEffect DEF Serves, SenderMoves, ServerMoves, Ended
  <2>6. Told(x)'
    BY <1>19, <2>3, HelloFailsEffect DEF Told, SenderMoves, ServerMoves, Ended
  <2> QED
    BY <2>2, <2>4, <2>5, <2>6 DEF MailInv
<1>20. ASSUME NEW x \in Mails, Breaks(x) PROVE MailInv'
  <2>1. OnlyMail(x) /\ Grows
    BY <1>20, BreaksEffect
       DEF OnlyMail, Grows, SenderMoves, ServerMoves, OthersSend, OthersServed
  <2>2. \A y \in Mails \ {x} : Talks(y)' /\ Serves(y)' /\ Told(y)'
    BY <2>1, MailKept DEF OnlyMail
  <2>3. Talks(x) /\ Serves(x) /\ Told(x)
    BY DEF MailInv
  <2>4. Talks(x)'
    BY <1>20, <2>3, BreaksEffect DEF Talks, SenderMoves, ServerMoves, Ended
  <2>5. Serves(x)'
    BY <1>20, <2>3, BreaksEffect DEF Serves, SenderMoves, ServerMoves, Ended
  <2>6. Told(x)'
    BY <1>20, <2>3, BreaksEffect DEF Told, SenderMoves, ServerMoves, Ended
  <2> QED
    BY <2>2, <2>4, <2>5, <2>6 DEF MailInv
<1>21. ASSUME NEW x \in Mails, ServiceCloses(x) PROVE MailInv'
  <2>1. OnlyMail(x) /\ Grows
    BY <1>21, ServiceClosesEffect
       DEF OnlyMail, Grows, SenderMoves, ServerMoves, OthersSend, OthersServed
  <2>2. \A y \in Mails \ {x} : Talks(y)' /\ Serves(y)' /\ Told(y)'
    BY <2>1, MailKept DEF OnlyMail
  <2>3. Talks(x) /\ Serves(x) /\ Told(x)
    BY DEF MailInv
  <2>4. Talks(x)'
    BY <1>21, <2>3, ServiceClosesEffect DEF Talks, SenderMoves, ServerMoves, Ended
  <2>5. Serves(x)'
    BY <1>21, <2>3, ServiceClosesEffect DEF Serves, SenderMoves, ServerMoves, Ended
  <2>6. Told(x)'
    BY <1>21, <2>3, ServiceClosesEffect DEF Told, SenderMoves, ServerMoves, Ended
  <2> QED
    BY <2>2, <2>4, <2>5, <2>6 DEF MailInv
<1>22. ASSUME NEW x \in Mails, GoesSilent(x) PROVE MailInv'
  <2>1. UNCHANGED <<sender, server>> /\ Grows
    BY <1>22, GoesSilentEffect DEF Grows
  <2> QED
    BY <2>1, MailKept DEF MailInv
<1>23. ASSUME NEW x \in Mails, Refuses(x) PROVE MailInv'
  <2>1. OnlyMail(x) /\ Grows
    BY <1>23, RefusesEffect
       DEF OnlyMail, Grows, SenderMoves, ServerMoves, OthersSend, OthersServed
  <2>2. \A y \in Mails \ {x} : Talks(y)' /\ Serves(y)' /\ Told(y)'
    BY <2>1, MailKept DEF OnlyMail
  <2>3. Talks(x) /\ Serves(x) /\ Told(x)
    BY DEF MailInv
  <2>4. Talks(x)'
    BY <1>23, <2>3, RefusesEffect DEF Talks, SenderMoves, ServerMoves, Ended
  <2>5. Serves(x)'
    BY <1>23, <2>3, RefusesEffect DEF Serves, SenderMoves, ServerMoves, Ended
  <2>6. Told(x)'
    BY <1>23, <2>3, RefusesEffect DEF Told, SenderMoves, ServerMoves, Ended
  <2> QED
    BY <2>2, <2>4, <2>5, <2>6 DEF MailInv
<1>24. ASSUME NEW x \in Mails, DispatchFails(x) PROVE MailInv'
  <2>1. OnlyMail(x) /\ Grows
    BY <1>24, DispatchFailsEffect
       DEF OnlyMail, Grows, SenderMoves, ServerMoves, OthersSend, OthersServed
  <2>2. \A y \in Mails \ {x} : Talks(y)' /\ Serves(y)' /\ Told(y)'
    BY <2>1, MailKept DEF OnlyMail
  <2>3. Talks(x) /\ Serves(x) /\ Told(x)
    BY DEF MailInv
  <2>4. Talks(x)'
    BY <1>24, <2>3, DispatchFailsEffect DEF Talks, SenderMoves, ServerMoves, Ended
  <2>5. Serves(x)'
    BY <1>24, <2>3, DispatchFailsEffect DEF Serves, SenderMoves, ServerMoves, Ended
  <2>6. Told(x)'
    BY <1>24, <2>3, DispatchFailsEffect DEF Told, SenderMoves, ServerMoves, Ended
  <2> QED
    BY <2>2, <2>4, <2>5, <2>6 DEF MailInv
<1>25. ASSUME NEW m \in Msgs, RelayMessage(m) PROVE MailInv'
  <2>1. PICK x \in Mails : x = Forward(m)
    BY MailFacts
  <2>2. SenderMoves(x, "dial") /\ server' = server /\ UNCHANGED payload
    BY <1>25, <2>1, RelayMessageEffect
  <2>3. OnlyMail(x) /\ Grows
    BY <1>25, <2>2, RelayMessageEffect
       DEF OnlyMail, Grows, SenderMoves, ServerMoves, OthersSend, OthersServed, TypeOK
  <2>4. \A y \in Mails \ {x} : Talks(y)' /\ Serves(y)' /\ Told(y)'
    BY <2>3, MailKept DEF OnlyMail
  <2>5. Talks(x) /\ Serves(x)
    BY DEF MailInv
  <2>6. Talks(x)' /\ Serves(x)'
    BY <2>2, <2>5 DEF Talks, Serves, SenderMoves
  <2>7. Told(x)'
    BY <2>1, MailFacts DEF Told
  <2> QED
    BY <2>4, <2>6, <2>7 DEF MailInv
<1>26. ASSUME NEW m \in Msgs, MarkUnreachable(m) PROVE MailInv'
  <2>1. PICK x \in Mails : x = Forward(m)
    BY MailFacts
  <2>2. SenderMoves(x, "marked") /\ server' = server /\ UNCHANGED <<payload, told>>
    BY <1>26, <2>1, MarkUnreachableEffect
  <2>3. OnlyMail(x) /\ Grows
    BY <2>2 DEF OnlyMail, Grows, SenderMoves, ServerMoves, OthersSend, OthersServed
  <2>4. \A y \in Mails \ {x} : Talks(y)' /\ Serves(y)' /\ Told(y)'
    BY <2>3, MailKept DEF OnlyMail
  <2>5. Talks(x) /\ Serves(x)
    BY DEF MailInv
  <2>6. Talks(x)' /\ Serves(x)'
    BY <2>2, <2>5 DEF Talks, Serves, SenderMoves
  <2>7. Told(x)'
    BY <2>1, MailFacts DEF Told
  <2> QED
    BY <2>4, <2>6, <2>7 DEF MailInv
<1>27. ASSUME NEW m \in Msgs, SendReadReply(m) PROVE MailInv'
  <2>1. PICK x \in Mails : x = ReadReply(m)
    BY MailFacts
  <2>2. SenderMoves(x, "dial") /\ server' = server /\ UNCHANGED payload
    BY <1>27, <2>1, SendReadReplyEffect
  <2>3. OnlyMail(x) /\ Grows
    BY <1>27, <2>2, SendReadReplyEffect
       DEF OnlyMail, Grows, SenderMoves, ServerMoves, OthersSend, OthersServed, TypeOK
  <2>4. \A y \in Mails \ {x} : Talks(y)' /\ Serves(y)' /\ Told(y)'
    BY <2>3, MailKept DEF OnlyMail
  <2>5. Talks(x) /\ Serves(x)
    BY DEF MailInv
  <2>6. Talks(x)' /\ Serves(x)'
    BY <2>2, <2>5 DEF Talks, Serves, SenderMoves
  <2>7. Told(x)'
    BY <1>27, <2>1, <2>2, SendReadReplyEffect, MailFacts DEF Told, TypeOK
  <2> QED
    BY <2>4, <2>6, <2>7 DEF MailInv
<1>28. ASSUME NEW m \in Msgs, NEW st \in Outcomes, SendDeliveryReport(m, st) PROVE MailInv'
  <2>1. PICK x \in Mails : x = Report(m, st)
    BY MailFacts
  <2>2. SenderMoves(x, "dial") /\ server' = server /\ UNCHANGED payload
    BY <1>28, <2>1, SendDeliveryReportEffect
  <2>3. OnlyMail(x) /\ Grows
    BY <1>28, <2>2, SendDeliveryReportEffect
       DEF OnlyMail, Grows, SenderMoves, ServerMoves, OthersSend, OthersServed, TypeOK
  <2>4. \A y \in Mails \ {x} : Talks(y)' /\ Serves(y)' /\ Told(y)'
    BY <2>3, MailKept DEF OnlyMail
  <2>5. Talks(x) /\ Serves(x)
    BY DEF MailInv
  <2>6. Talks(x)' /\ Serves(x)'
    BY <2>2, <2>5 DEF Talks, Serves, SenderMoves
  <2>7. Told(x)'
    BY <1>28, <2>1, <2>2, SendDeliveryReportEffect, MailFacts DEF Told, TypeOK
  <2> QED
    BY <2>4, <2>6, <2>7 DEF MailInv
<1>29. ASSUME UNCHANGED vars PROVE MailInv'
  <2>1. UNCHANGED <<sender, server>> /\ Grows
    BY <1>29 DEF vars, peer, history, Grows
  <2> QED
    BY <2>1, MailKept DEF MailInv
<1> QED
  BY <1>1, <1>2, <1>3, <1>4, <1>5, <1>6, <1>7, <1>8, <1>9, <1>10,
     <1>11, <1>12, <1>13, <1>14, <1>15, <1>16, <1>17, <1>18, <1>19, <1>20,
     <1>21, <1>22, <1>23, <1>24, <1>25, <1>26, <1>27, <1>28, <1>29
     DEF Next, SenderStep, ServerStep, Faults

----------------------------------------------------------------------------
(* What is stored, and what the sender may know of it *)

(* What the peer acknowledges, or tells of, it has stored for every recipient. *)
LEMMA StoredStep ==
    ASSUME TypeOK, MailInv, StoredInv, [Next]_vars
    PROVE  StoredInv'
<1>1. ASSUME NEW x \in Mails, Dial(x) PROVE StoredInv'
  <2>1. ASSUME NEW m \in Msgs PROVE Stored(m)'
    <3>1. Stored(m) /\ Forward(m) \in Mails /\ Forward(m).msg = m /\ Forward(m).type = "forward"
      BY MailFacts DEF StoredInv
    <3>2. CASE x = Forward(m)
      BY <1>1, <3>1, <3>2, DialEffect DEF Stored, SenderMoves, ServerMoves, Ended, Blames
    <3>3. CASE x # Forward(m)
      BY <1>1, <3>1, <3>3, DialEffect
         DEF Stored, SenderMoves, ServerMoves, OthersSend, OthersServed, Blames
    <3> QED
      BY <3>2, <3>3
  <2> QED
    BY <2>1 DEF StoredInv
<1>2. ASSUME NEW x \in Mails, DialFails(x) PROVE StoredInv'
  <2>1. ASSUME NEW m \in Msgs PROVE Stored(m)'
    <3>1. Stored(m) /\ Forward(m) \in Mails /\ Forward(m).msg = m /\ Forward(m).type = "forward"
      BY MailFacts DEF StoredInv
    <3>2. CASE x = Forward(m)
      BY <1>2, <3>1, <3>2, DialFailsEffect DEF Stored, SenderMoves, ServerMoves, Ended, Blames
    <3>3. CASE x # Forward(m)
      BY <1>2, <3>1, <3>3, DialFailsEffect
         DEF Stored, SenderMoves, ServerMoves, OthersSend, OthersServed, Blames
    <3> QED
      BY <3>2, <3>3
  <2> QED
    BY <2>1 DEF StoredInv
<1>3. ASSUME NEW x \in Mails, Sleep(x) PROVE StoredInv'
  <2>1. ASSUME NEW m \in Msgs PROVE Stored(m)'
    <3>1. Stored(m) /\ Forward(m) \in Mails /\ Forward(m).msg = m /\ Forward(m).type = "forward"
      BY MailFacts DEF StoredInv
    <3>2. CASE x = Forward(m)
      BY <1>3, <3>1, <3>2, SleepEffect DEF Stored, SenderMoves, ServerMoves, Ended, Blames
    <3>3. CASE x # Forward(m)
      BY <1>3, <3>1, <3>3, SleepEffect
         DEF Stored, SenderMoves, ServerMoves, OthersSend, OthersServed, Blames
    <3> QED
      BY <3>2, <3>3
  <2> QED
    BY <2>1 DEF StoredInv
<1>4. ASSUME NEW x \in Mails, Hello(x) PROVE StoredInv'
  <2>1. ASSUME NEW m \in Msgs PROVE Stored(m)'
    <3>1. Stored(m) /\ Forward(m) \in Mails /\ Forward(m).msg = m /\ Forward(m).type = "forward"
      BY MailFacts DEF StoredInv
    <3>2. Talks(x) /\ Serves(x) /\ Told(x) /\ x.msg \in Msgs /\ (x.type = "forward" => x = Forward(x.msg))
      BY MailFacts DEF MailInv
    <3>3. CASE x = Forward(m)
      BY <1>4, <3>1, <3>2, <3>3, HelloEffect
         DEF Stored, SenderMoves, ServerMoves, Ended, Blames, Talks
    <3>4. CASE x # Forward(m)
      BY <1>4, <3>1, <3>2, <3>4, HelloEffect
         DEF Stored, SenderMoves, ServerMoves, OthersSend, OthersServed, Blames
    <3> QED
      BY <3>3, <3>4
  <2> QED
    BY <2>1 DEF StoredInv
<1>5. ASSUME NEW x \in Mails, Mail(x) PROVE StoredInv'
  <2>1. ASSUME NEW m \in Msgs PROVE Stored(m)'
    <3>1. Stored(m) /\ Forward(m) \in Mails /\ Forward(m).msg = m /\ Forward(m).type = "forward"
      BY MailFacts DEF StoredInv
    <3>2. Talks(x) /\ Serves(x) /\ Told(x) /\ x.msg \in Msgs /\ (x.type = "forward" => x = Forward(x.msg))
      BY MailFacts DEF MailInv
    <3>3. CASE x = Forward(m)
      BY <1>5, <3>1, <3>2, <3>3, MailEffect
         DEF Stored, SenderMoves, ServerMoves, Ended, Blames, Talks
    <3>4. CASE x # Forward(m)
      BY <1>5, <3>1, <3>2, <3>4, MailEffect
         DEF Stored, SenderMoves, ServerMoves, OthersSend, OthersServed, Blames
    <3> QED
      BY <3>3, <3>4
  <2> QED
    BY <2>1 DEF StoredInv
<1>6. ASSUME NEW x \in Mails, Rcpt(x) PROVE StoredInv'
  <2>1. ASSUME NEW m \in Msgs PROVE Stored(m)'
    <3>1. Stored(m) /\ Forward(m) \in Mails /\ Forward(m).msg = m /\ Forward(m).type = "forward"
      BY MailFacts DEF StoredInv
    <3>2. Talks(x) /\ Serves(x) /\ Told(x) /\ x.msg \in Msgs /\ (x.type = "forward" => x = Forward(x.msg))
      BY MailFacts DEF MailInv
    <3>3. CASE x = Forward(m)
      BY <1>6, <3>1, <3>2, <3>3, RcptEffect
         DEF Stored, SenderMoves, ServerMoves, Ended, Blames, Talks
    <3>4. CASE x # Forward(m)
      BY <1>6, <3>1, <3>2, <3>4, RcptEffect
         DEF Stored, SenderMoves, ServerMoves, OthersSend, OthersServed, Blames
    <3> QED
      BY <3>3, <3>4
  <2> QED
    BY <2>1 DEF StoredInv
<1>7. ASSUME NEW x \in Mails, Data(x) PROVE StoredInv'
  <2>1. ASSUME NEW m \in Msgs PROVE Stored(m)'
    <3>1. Stored(m) /\ Forward(m) \in Mails /\ Forward(m).msg = m /\ Forward(m).type = "forward"
      BY MailFacts DEF StoredInv
    <3>2. Talks(x) /\ Serves(x) /\ Told(x) /\ x.msg \in Msgs /\ (x.type = "forward" => x = Forward(x.msg))
      BY MailFacts DEF MailInv
    <3>3. CASE x = Forward(m)
      BY <1>7, <3>1, <3>2, <3>3, DataEffect
         DEF Stored, SenderMoves, ServerMoves, Ended, Blames, Talks
    <3>4. CASE x # Forward(m)
      BY <1>7, <3>1, <3>2, <3>4, DataEffect
         DEF Stored, SenderMoves, ServerMoves, OthersSend, OthersServed, Blames
    <3> QED
      BY <3>3, <3>4
  <2> QED
    BY <2>1 DEF StoredInv
<1>8. ASSUME NEW x \in Mails, Body(x) PROVE StoredInv'
  <2>1. ASSUME NEW m \in Msgs PROVE Stored(m)'
    <3>1. Stored(m) /\ Forward(m) \in Mails /\ Forward(m).msg = m /\ Forward(m).type = "forward"
      BY MailFacts DEF StoredInv
    <3>2. CASE x = Forward(m)
      BY <1>8, <3>1, <3>2, BodyEffect DEF Stored, SenderMoves, ServerMoves, Ended, Blames
    <3>3. CASE x # Forward(m)
      BY <1>8, <3>1, <3>3, BodyEffect
         DEF Stored, SenderMoves, ServerMoves, OthersSend, OthersServed, Blames
    <3> QED
      BY <3>2, <3>3
  <2> QED
    BY <2>1 DEF StoredInv
<1>9. ASSUME NEW x \in Mails, Reply(x) PROVE StoredInv'
  <2>1. ASSUME NEW m \in Msgs PROVE Stored(m)'
    <3>1. Stored(m) /\ Forward(m) \in Mails /\ Forward(m).msg = m /\ Forward(m).type = "forward"
      BY MailFacts DEF StoredInv
    <3>2. CASE x = Forward(m)
      BY <1>9, <3>1, <3>2, ReplyEffect DEF Stored, SenderMoves, ServerMoves, Ended, Blames
    <3>3. CASE x # Forward(m)
      BY <1>9, <3>1, <3>3, ReplyEffect
         DEF Stored, SenderMoves, ServerMoves, OthersSend, OthersServed, Blames
    <3> QED
      BY <3>2, <3>3
  <2> QED
    BY <2>1 DEF StoredInv
<1>10. ASSUME NEW x \in Mails, Quit(x) PROVE StoredInv'
  <2>1. ASSUME NEW m \in Msgs PROVE Stored(m)'
    <3>1. Stored(m) /\ Forward(m) \in Mails /\ Forward(m).msg = m /\ Forward(m).type = "forward"
      BY MailFacts DEF StoredInv
    <3>2. CASE x = Forward(m)
      BY <1>10, <3>1, <3>2, QuitEffect DEF Stored, SenderMoves, ServerMoves, Ended, Blames
    <3>3. CASE x # Forward(m)
      BY <1>10, <3>1, <3>3, QuitEffect
         DEF Stored, SenderMoves, ServerMoves, OthersSend, OthersServed, Blames
    <3> QED
      BY <3>2, <3>3
  <2> QED
    BY <2>1 DEF StoredInv
<1>11. ASSUME NEW x \in Mails, Accept(x) PROVE StoredInv'
  <2>1. ASSUME NEW m \in Msgs PROVE Stored(m)'
    <3>1. Stored(m) /\ Forward(m) \in Mails /\ Forward(m).msg = m /\ Forward(m).type = "forward"
      BY MailFacts DEF StoredInv
    <3>2. CASE x = Forward(m)
      BY <1>11, <3>1, <3>2, AcceptEffect DEF Stored, SenderMoves, ServerMoves, Ended, Blames
    <3>3. CASE x # Forward(m)
      BY <1>11, <3>1, <3>3, AcceptEffect
         DEF Stored, SenderMoves, ServerMoves, OthersSend, OthersServed, Blames
    <3> QED
      BY <3>2, <3>3
  <2> QED
    BY <2>1 DEF StoredInv
<1>12. ASSUME NEW x \in Mails, Put(x) PROVE StoredInv'
  <2>1. ASSUME NEW m \in Msgs PROVE Stored(m)'
    <3>1. Stored(m) /\ Forward(m) \in Mails /\ Forward(m).msg = m /\ Forward(m).type = "forward"
      BY MailFacts DEF StoredInv
    <3>2. CASE x = Forward(m)
      BY <1>12, <3>1, <3>2, PutEffect DEF Stored, SenderMoves, ServerMoves, Ended, Blames
    <3>3. CASE x # Forward(m)
      BY <1>12, <3>1, <3>3, PutEffect
         DEF Stored, SenderMoves, ServerMoves, OthersSend, OthersServed, Blames
    <3> QED
      BY <3>2, <3>3
  <2> QED
    BY <2>1 DEF StoredInv
<1>13. ASSUME NEW x \in Mails, CreateMessage(x) PROVE StoredInv'
  <2>1. ASSUME NEW m \in Msgs PROVE Stored(m)'
    <3>1. Stored(m) /\ Forward(m) \in Mails /\ Forward(m).msg = m
      BY MailFacts DEF StoredInv
    <3>2. x = Forward(x.msg) /\ server[x].pc = "create"
      BY <1>13, CreateMessageEffect
    <3>3. CASE x.msg = m
      <4>1. x = Forward(m) /\ UNCHANGED <<sender, told, heard>>
        BY <1>13, <3>2, <3>3, CreateMessageEffect
      <4>2. CASE m \in DOMAIN stored
        <5>1. m \in DOMAIN stored' /\ stored'[m] = stored[m]
          BY <1>13, <3>3, <4>2, CreateMessageEffect
        <5> QED
          BY <3>1, <4>1, <4>2, <5>1 DEF Stored
      <4>3. CASE m \notin DOMAIN stored
        <5>1. DOMAIN stored' = DOMAIN stored \cup {x.msg} /\ stored'[x.msg] = To[x.msg]
          <6>1. x.msg \notin DOMAIN stored
            BY <3>3, <4>3
          <6> QED
            BY <1>13, <6>1, CreateMessageEffect
        <5>2. m \in DOMAIN stored' /\ stored'[m] = To[m]
          BY <3>3, <5>1
        <5> QED
          BY <3>1, <4>1, <5>2 DEF Stored
      <4> QED
        BY <4>2, <4>3
    <3>4. CASE x.msg # m
      <4>1. x # Forward(m) /\ server'[Forward(m)] = server[Forward(m)] /\ sender' = sender
        BY <1>13, <3>1, <3>2, <3>4, CreateMessageEffect DEF ServerMoves, OthersServed
      <4>2. m \in DOMAIN stored <=> m \in DOMAIN stored'
        BY <1>13, <3>4, CreateMessageEffect
      <4>3. m \in DOMAIN stored => stored'[m] = stored[m]
        BY <1>13, CreateMessageEffect
      <4>4. UNCHANGED <<told, heard>>
        BY <1>13, CreateMessageEffect
      <4> QED
        BY <3>1, <4>1, <4>2, <4>3, <4>4 DEF Stored
    <3> QED
      BY <3>3, <3>4
  <2> QED
    BY <2>1 DEF StoredInv
<1>14. ASSUME NEW x \in Mails, SendForwardResponse(x) PROVE StoredInv'
  <2>1. ASSUME NEW m \in Msgs PROVE Stored(m)'
    <3>1. Stored(m) /\ Forward(m) \in Mails /\ Forward(m).msg = m /\ Forward(m).type = "forward"
      BY MailFacts DEF StoredInv
    <3>2. Response(x.msg) # x /\ Response(x.msg) # Forward(m) /\ Response(x.msg) \in Mails /\ x.type = "forward"
      BY <1>14, <3>1, SendForwardResponseEffect, MailFacts DEF MailInv, Serves
    <3>3. CASE x = Forward(m)
      BY <1>14, <3>1, <3>2, <3>3, SendForwardResponseEffect
         DEF Stored, SenderMoves, ServerMoves, Ended, Blames, OthersSend
    <3>4. CASE x # Forward(m)
      BY <1>14, <3>1, <3>2, <3>4, SendForwardResponseEffect
         DEF Stored, SenderMoves, ServerMoves, OthersSend, OthersServed, Blames
    <3> QED
      BY <3>3, <3>4
  <2> QED
    BY <2>1 DEF StoredInv
<1>15. ASSUME NEW x \in Mails, ResponseEnds(x) PROVE StoredInv'
  <2>1. ASSUME NEW m \in Msgs PROVE Stored(m)'
    <3>1. Stored(m) /\ Forward(m) \in Mails /\ Forward(m).msg = m /\ Forward(m).type = "forward"
      BY MailFacts DEF StoredInv
    <3>2. CASE x = Forward(m)
      BY <1>15, <3>1, <3>2, ResponseEndsEffect
         DEF Stored, SenderMoves, ServerMoves, Ended, Blames
    <3>3. CASE x # Forward(m)
      BY <1>15, <3>1, <3>3, ResponseEndsEffect
         DEF Stored, SenderMoves, ServerMoves, OthersSend, OthersServed, Blames
    <3> QED
      BY <3>2, <3>3
  <2> QED
    BY <2>1 DEF StoredInv
<1>16. ASSUME NEW x \in Mails, DispatchLocalNotification(x) PROVE StoredInv'
  <2>1. ASSUME NEW m \in Msgs PROVE Stored(m)'
    <3>1. Stored(m) /\ Forward(m) \in Mails /\ Forward(m).msg = m /\ Forward(m).type = "forward"
      BY MailFacts DEF StoredInv
    <3>2. CASE x = Forward(m)
      BY <1>16, <3>1, <3>2, DispatchLocalNotificationEffect
         DEF Stored, SenderMoves, ServerMoves, Ended, Blames
    <3>3. CASE x # Forward(m)
      BY <1>16, <3>1, <3>3, DispatchLocalNotificationEffect
         DEF Stored, SenderMoves, ServerMoves, OthersSend, OthersServed, Blames
    <3> QED
      BY <3>2, <3>3
  <2> QED
    BY <2>1 DEF StoredInv
<1>17. ASSUME NEW x \in Mails, HandleResponse(x) PROVE StoredInv'
  <2>1. ASSUME NEW m \in Msgs PROVE Stored(m)'
    <3>1. Stored(m) /\ Forward(m) \in Mails /\ Forward(m).msg = m /\ Forward(m).type = "forward"
      BY MailFacts DEF StoredInv
    <3>2. CASE x = Forward(m)
      BY <1>17, <3>1, <3>2, HandleResponseEffect
         DEF Stored, SenderMoves, ServerMoves, Ended, Blames
    <3>3. CASE x # Forward(m)
      BY <1>17, <3>1, <3>3, HandleResponseEffect
         DEF Stored, SenderMoves, ServerMoves, OthersSend, OthersServed, Blames
    <3> QED
      BY <3>2, <3>3
  <2> QED
    BY <2>1 DEF StoredInv
<1>18. ASSUME NEW x \in Mails, HandleReport(x) PROVE StoredInv'
  <2>1. ASSUME NEW m \in Msgs PROVE Stored(m)'
    <3>1. Stored(m) /\ Forward(m) \in Mails /\ Forward(m).msg = m /\ Forward(m).type = "forward"
      BY MailFacts DEF StoredInv
    <3>2. Talks(x) /\ Serves(x) /\ Told(x) /\ x.msg \in Msgs /\ (x.type = "forward" => x = Forward(x.msg))
      BY MailFacts DEF MailInv
    <3>3. CASE x = Forward(m)
      BY <1>18, <3>1, <3>2, <3>3, HandleReportEffect
         DEF Stored, SenderMoves, ServerMoves, Ended, Blames, Talks
    <3>4. CASE x # Forward(m)
      BY <1>18, <3>1, <3>2, <3>4, HandleReportEffect
         DEF Stored, SenderMoves, ServerMoves, OthersSend, OthersServed, Blames, Serves, Told
    <3> QED
      BY <3>3, <3>4
  <2> QED
    BY <2>1 DEF StoredInv
<1>19. ASSUME NEW x \in Mails, HelloFails(x) PROVE StoredInv'
  <2>1. ASSUME NEW m \in Msgs PROVE Stored(m)'
    <3>1. Stored(m) /\ Forward(m) \in Mails /\ Forward(m).msg = m /\ Forward(m).type = "forward"
      BY MailFacts DEF StoredInv
    <3>2. CASE x = Forward(m)
      BY <1>19, <3>1, <3>2, HelloFailsEffect DEF Stored, SenderMoves, ServerMoves, Ended, Blames
    <3>3. CASE x # Forward(m)
      BY <1>19, <3>1, <3>3, HelloFailsEffect
         DEF Stored, SenderMoves, ServerMoves, OthersSend, OthersServed, Blames
    <3> QED
      BY <3>2, <3>3
  <2> QED
    BY <2>1 DEF StoredInv
<1>20. ASSUME NEW x \in Mails, Breaks(x) PROVE StoredInv'
  <2>1. ASSUME NEW m \in Msgs PROVE Stored(m)'
    <3>1. Stored(m) /\ Forward(m) \in Mails /\ Forward(m).msg = m /\ Forward(m).type = "forward"
      BY MailFacts DEF StoredInv
    <3>2. CASE x = Forward(m)
      BY <1>20, <3>1, <3>2, BreaksEffect DEF Stored, SenderMoves, ServerMoves, Ended, Blames
    <3>3. CASE x # Forward(m)
      BY <1>20, <3>1, <3>3, BreaksEffect
         DEF Stored, SenderMoves, ServerMoves, OthersSend, OthersServed, Blames
    <3> QED
      BY <3>2, <3>3
  <2> QED
    BY <2>1 DEF StoredInv
<1>21. ASSUME NEW x \in Mails, ServiceCloses(x) PROVE StoredInv'
  <2>1. ASSUME NEW m \in Msgs PROVE Stored(m)'
    <3>1. Stored(m) /\ Forward(m) \in Mails /\ Forward(m).msg = m /\ Forward(m).type = "forward"
      BY MailFacts DEF StoredInv
    <3>2. CASE x = Forward(m)
      BY <1>21, <3>1, <3>2, ServiceClosesEffect
         DEF Stored, SenderMoves, ServerMoves, Ended, Blames
    <3>3. CASE x # Forward(m)
      BY <1>21, <3>1, <3>3, ServiceClosesEffect
         DEF Stored, SenderMoves, ServerMoves, OthersSend, OthersServed, Blames
    <3> QED
      BY <3>2, <3>3
  <2> QED
    BY <2>1 DEF StoredInv
<1>22. ASSUME NEW x \in Mails, GoesSilent(x) PROVE StoredInv'
  <2>1. ASSUME NEW m \in Msgs PROVE Stored(m)'
    <3>1. Stored(m) /\ Forward(m) \in Mails /\ Forward(m).msg = m /\ Forward(m).type = "forward"
      BY MailFacts DEF StoredInv
    <3>2. CASE x = Forward(m)
      BY <1>22, <3>1, <3>2, GoesSilentEffect DEF Stored, SenderMoves, ServerMoves, Ended, Blames
    <3>3. CASE x # Forward(m)
      BY <1>22, <3>1, <3>3, GoesSilentEffect
         DEF Stored, SenderMoves, ServerMoves, OthersSend, OthersServed, Blames
    <3> QED
      BY <3>2, <3>3
  <2> QED
    BY <2>1 DEF StoredInv
<1>23. ASSUME NEW x \in Mails, Refuses(x) PROVE StoredInv'
  <2>1. ASSUME NEW m \in Msgs PROVE Stored(m)'
    <3>1. Stored(m) /\ Forward(m) \in Mails /\ Forward(m).msg = m /\ Forward(m).type = "forward"
      BY MailFacts DEF StoredInv
    <3>2. CASE x = Forward(m)
      BY <1>23, <3>1, <3>2, RefusesEffect DEF Stored, SenderMoves, ServerMoves, Ended, Blames
    <3>3. CASE x # Forward(m)
      BY <1>23, <3>1, <3>3, RefusesEffect
         DEF Stored, SenderMoves, ServerMoves, OthersSend, OthersServed, Blames
    <3> QED
      BY <3>2, <3>3
  <2> QED
    BY <2>1 DEF StoredInv
<1>24. ASSUME NEW x \in Mails, DispatchFails(x) PROVE StoredInv'
  <2>1. ASSUME NEW m \in Msgs PROVE Stored(m)'
    <3>1. Stored(m) /\ Forward(m) \in Mails /\ Forward(m).msg = m /\ Forward(m).type = "forward"
      BY MailFacts DEF StoredInv
    <3>2. CASE x = Forward(m)
      BY <1>24, <3>1, <3>2, DispatchFailsEffect
         DEF Stored, SenderMoves, ServerMoves, Ended, Blames
    <3>3. CASE x # Forward(m)
      BY <1>24, <3>1, <3>3, DispatchFailsEffect
         DEF Stored, SenderMoves, ServerMoves, OthersSend, OthersServed, Blames
    <3> QED
      BY <3>2, <3>3
  <2> QED
    BY <2>1 DEF StoredInv
<1>25. ASSUME NEW m \in Msgs, RelayMessage(m) PROVE StoredInv'
  <2>1. ASSUME NEW k \in Msgs PROVE Stored(k)'
    <3>1. Stored(k) /\ Forward(k) \in Mails /\ Stored(m)
      BY MailFacts DEF StoredInv
    <3> QED
      BY <1>25, <3>1, RelayMessageEffect, MailFacts
         DEF Stored, SenderMoves, ServerMoves, OthersSend, OthersServed, TypeOK, Ended
  <2> QED
    BY <2>1 DEF StoredInv
<1>26. ASSUME NEW m \in Msgs, MarkUnreachable(m) PROVE StoredInv'
  <2>1. ASSUME NEW k \in Msgs PROVE Stored(k)'
    <3>1. Stored(k) /\ Forward(k) \in Mails /\ Stored(m)
      BY MailFacts DEF StoredInv
    <3> QED
      BY <1>26, <3>1, MarkUnreachableEffect, MailFacts
         DEF Stored, SenderMoves, ServerMoves, OthersSend, OthersServed, TypeOK, Ended
  <2> QED
    BY <2>1 DEF StoredInv
<1>27. ASSUME NEW m \in Msgs, SendReadReply(m) PROVE StoredInv'
  <2>1. ASSUME NEW k \in Msgs PROVE Stored(k)'
    <3>1. Stored(k) /\ Forward(k) \in Mails /\ Stored(m)
      BY MailFacts DEF StoredInv
    <3> QED
      BY <1>27, <3>1, SendReadReplyEffect, MailFacts
         DEF Stored, SenderMoves, ServerMoves, OthersSend, OthersServed, TypeOK, Ended
  <2> QED
    BY <2>1 DEF StoredInv
<1>28. ASSUME NEW m \in Msgs, NEW st \in Outcomes, SendDeliveryReport(m, st) PROVE StoredInv'
  <2>1. ASSUME NEW k \in Msgs PROVE Stored(k)'
    <3>1. Stored(k) /\ Forward(k) \in Mails /\ Stored(m)
      BY MailFacts DEF StoredInv
    <3> QED
      BY <1>28, <3>1, SendDeliveryReportEffect, MailFacts
         DEF Stored, SenderMoves, ServerMoves, OthersSend, OthersServed, TypeOK, Ended
  <2> QED
    BY <2>1 DEF StoredInv
<1>29. ASSUME UNCHANGED vars PROVE StoredInv'
  BY <1>29 DEF vars, peer, history, StoredInv, Stored
<1> QED
  BY <1>1, <1>2, <1>3, <1>4, <1>5, <1>6, <1>7, <1>8, <1>9, <1>10,
     <1>11, <1>12, <1>13, <1>14, <1>15, <1>16, <1>17, <1>18, <1>19, <1>20,
     <1>21, <1>22, <1>23, <1>24, <1>25, <1>26, <1>27, <1>28, <1>29
     DEF Next, SenderStep, ServerStep, Faults

(* Unreachable is written after a failed send only. *)
LEMMA StatusStep ==
    ASSUME TypeOK, MailInv, StatusInv, [Next]_vars
    PROVE  StatusInv'
<1>1. ASSUME NEW x \in Mails, Dial(x) PROVE StatusInv'
  <2>1. ASSUME NEW m \in Msgs PROVE Status(m)'
    <3>1. Status(m) /\ Forward(m) \in Mails /\ Forward(m).msg = m /\ Forward(m).type = "forward"
      BY MailFacts DEF StatusInv
    <3>2. CASE x = Forward(m)
      BY <1>1, <3>1, <3>2, DialEffect DEF Status, SenderMoves, ServerMoves, Ended, Blames
    <3>3. CASE x # Forward(m)
      BY <1>1, <3>1, <3>3, DialEffect
         DEF Status, SenderMoves, ServerMoves, OthersSend, OthersServed, Blames
    <3> QED
      BY <3>2, <3>3
  <2> QED
    BY <2>1 DEF StatusInv
<1>2. ASSUME NEW x \in Mails, DialFails(x) PROVE StatusInv'
  <2>1. ASSUME NEW m \in Msgs PROVE Status(m)'
    <3>1. Status(m) /\ Forward(m) \in Mails /\ Forward(m).msg = m /\ Forward(m).type = "forward"
      BY MailFacts DEF StatusInv
    <3>2. CASE x = Forward(m)
      BY <1>2, <3>1, <3>2, DialFailsEffect DEF Status, SenderMoves, ServerMoves, Ended, Blames
    <3>3. CASE x # Forward(m)
      BY <1>2, <3>1, <3>3, DialFailsEffect
         DEF Status, SenderMoves, ServerMoves, OthersSend, OthersServed, Blames
    <3> QED
      BY <3>2, <3>3
  <2> QED
    BY <2>1 DEF StatusInv
<1>3. ASSUME NEW x \in Mails, Sleep(x) PROVE StatusInv'
  <2>1. ASSUME NEW m \in Msgs PROVE Status(m)'
    <3>1. Status(m) /\ Forward(m) \in Mails /\ Forward(m).msg = m /\ Forward(m).type = "forward"
      BY MailFacts DEF StatusInv
    <3>2. CASE x = Forward(m)
      BY <1>3, <3>1, <3>2, SleepEffect DEF Status, SenderMoves, ServerMoves, Ended, Blames
    <3>3. CASE x # Forward(m)
      BY <1>3, <3>1, <3>3, SleepEffect
         DEF Status, SenderMoves, ServerMoves, OthersSend, OthersServed, Blames
    <3> QED
      BY <3>2, <3>3
  <2> QED
    BY <2>1 DEF StatusInv
<1>4. ASSUME NEW x \in Mails, Hello(x) PROVE StatusInv'
  <2>1. ASSUME NEW m \in Msgs PROVE Status(m)'
    <3>1. Status(m) /\ Forward(m) \in Mails /\ Forward(m).msg = m /\ Forward(m).type = "forward"
      BY MailFacts DEF StatusInv
    <3>2. CASE x = Forward(m)
      BY <1>4, <3>1, <3>2, HelloEffect DEF Status, SenderMoves, ServerMoves, Ended, Blames
    <3>3. CASE x # Forward(m)
      BY <1>4, <3>1, <3>3, HelloEffect
         DEF Status, SenderMoves, ServerMoves, OthersSend, OthersServed, Blames
    <3> QED
      BY <3>2, <3>3
  <2> QED
    BY <2>1 DEF StatusInv
<1>5. ASSUME NEW x \in Mails, Mail(x) PROVE StatusInv'
  <2>1. ASSUME NEW m \in Msgs PROVE Status(m)'
    <3>1. Status(m) /\ Forward(m) \in Mails /\ Forward(m).msg = m /\ Forward(m).type = "forward"
      BY MailFacts DEF StatusInv
    <3>2. CASE x = Forward(m)
      BY <1>5, <3>1, <3>2, MailEffect DEF Status, SenderMoves, ServerMoves, Ended, Blames
    <3>3. CASE x # Forward(m)
      BY <1>5, <3>1, <3>3, MailEffect
         DEF Status, SenderMoves, ServerMoves, OthersSend, OthersServed, Blames
    <3> QED
      BY <3>2, <3>3
  <2> QED
    BY <2>1 DEF StatusInv
<1>6. ASSUME NEW x \in Mails, Rcpt(x) PROVE StatusInv'
  <2>1. ASSUME NEW m \in Msgs PROVE Status(m)'
    <3>1. Status(m) /\ Forward(m) \in Mails /\ Forward(m).msg = m /\ Forward(m).type = "forward"
      BY MailFacts DEF StatusInv
    <3>2. CASE x = Forward(m)
      BY <1>6, <3>1, <3>2, RcptEffect DEF Status, SenderMoves, ServerMoves, Ended, Blames
    <3>3. CASE x # Forward(m)
      BY <1>6, <3>1, <3>3, RcptEffect
         DEF Status, SenderMoves, ServerMoves, OthersSend, OthersServed, Blames
    <3> QED
      BY <3>2, <3>3
  <2> QED
    BY <2>1 DEF StatusInv
<1>7. ASSUME NEW x \in Mails, Data(x) PROVE StatusInv'
  <2>1. ASSUME NEW m \in Msgs PROVE Status(m)'
    <3>1. Status(m) /\ Forward(m) \in Mails /\ Forward(m).msg = m /\ Forward(m).type = "forward"
      BY MailFacts DEF StatusInv
    <3>2. CASE x = Forward(m)
      BY <1>7, <3>1, <3>2, DataEffect DEF Status, SenderMoves, ServerMoves, Ended, Blames
    <3>3. CASE x # Forward(m)
      BY <1>7, <3>1, <3>3, DataEffect
         DEF Status, SenderMoves, ServerMoves, OthersSend, OthersServed, Blames
    <3> QED
      BY <3>2, <3>3
  <2> QED
    BY <2>1 DEF StatusInv
<1>8. ASSUME NEW x \in Mails, Body(x) PROVE StatusInv'
  <2>1. ASSUME NEW m \in Msgs PROVE Status(m)'
    <3>1. Status(m) /\ Forward(m) \in Mails /\ Forward(m).msg = m /\ Forward(m).type = "forward"
      BY MailFacts DEF StatusInv
    <3>2. CASE x = Forward(m)
      BY <1>8, <3>1, <3>2, BodyEffect DEF Status, SenderMoves, ServerMoves, Ended, Blames
    <3>3. CASE x # Forward(m)
      BY <1>8, <3>1, <3>3, BodyEffect
         DEF Status, SenderMoves, ServerMoves, OthersSend, OthersServed, Blames
    <3> QED
      BY <3>2, <3>3
  <2> QED
    BY <2>1 DEF StatusInv
<1>9. ASSUME NEW x \in Mails, Reply(x) PROVE StatusInv'
  <2>1. ASSUME NEW m \in Msgs PROVE Status(m)'
    <3>1. Status(m) /\ Forward(m) \in Mails /\ Forward(m).msg = m /\ Forward(m).type = "forward"
      BY MailFacts DEF StatusInv
    <3>2. CASE x = Forward(m)
      BY <1>9, <3>1, <3>2, ReplyEffect DEF Status, SenderMoves, ServerMoves, Ended, Blames
    <3>3. CASE x # Forward(m)
      BY <1>9, <3>1, <3>3, ReplyEffect
         DEF Status, SenderMoves, ServerMoves, OthersSend, OthersServed, Blames
    <3> QED
      BY <3>2, <3>3
  <2> QED
    BY <2>1 DEF StatusInv
<1>10. ASSUME NEW x \in Mails, Quit(x) PROVE StatusInv'
  <2>1. ASSUME NEW m \in Msgs PROVE Status(m)'
    <3>1. Status(m) /\ Forward(m) \in Mails /\ Forward(m).msg = m /\ Forward(m).type = "forward"
      BY MailFacts DEF StatusInv
    <3>2. CASE x = Forward(m)
      BY <1>10, <3>1, <3>2, QuitEffect DEF Status, SenderMoves, ServerMoves, Ended, Blames
    <3>3. CASE x # Forward(m)
      BY <1>10, <3>1, <3>3, QuitEffect
         DEF Status, SenderMoves, ServerMoves, OthersSend, OthersServed, Blames
    <3> QED
      BY <3>2, <3>3
  <2> QED
    BY <2>1 DEF StatusInv
<1>11. ASSUME NEW x \in Mails, Accept(x) PROVE StatusInv'
  <2>1. ASSUME NEW m \in Msgs PROVE Status(m)'
    <3>1. Status(m) /\ Forward(m) \in Mails /\ Forward(m).msg = m /\ Forward(m).type = "forward"
      BY MailFacts DEF StatusInv
    <3>2. CASE x = Forward(m)
      BY <1>11, <3>1, <3>2, AcceptEffect DEF Status, SenderMoves, ServerMoves, Ended, Blames
    <3>3. CASE x # Forward(m)
      BY <1>11, <3>1, <3>3, AcceptEffect
         DEF Status, SenderMoves, ServerMoves, OthersSend, OthersServed, Blames
    <3> QED
      BY <3>2, <3>3
  <2> QED
    BY <2>1 DEF StatusInv
<1>12. ASSUME NEW x \in Mails, Put(x) PROVE StatusInv'
  <2>1. ASSUME NEW m \in Msgs PROVE Status(m)'
    <3>1. Status(m) /\ Forward(m) \in Mails /\ Forward(m).msg = m /\ Forward(m).type = "forward"
      BY MailFacts DEF StatusInv
    <3>2. CASE x = Forward(m)
      BY <1>12, <3>1, <3>2, PutEffect DEF Status, SenderMoves, ServerMoves, Ended, Blames
    <3>3. CASE x # Forward(m)
      BY <1>12, <3>1, <3>3, PutEffect
         DEF Status, SenderMoves, ServerMoves, OthersSend, OthersServed, Blames
    <3> QED
      BY <3>2, <3>3
  <2> QED
    BY <2>1 DEF StatusInv
<1>13. ASSUME NEW x \in Mails, CreateMessage(x) PROVE StatusInv'
  <2>1. ASSUME NEW m \in Msgs PROVE Status(m)'
    <3>1. Status(m) /\ Forward(m) \in Mails /\ Forward(m).msg = m /\ Forward(m).type = "forward"
      BY MailFacts DEF StatusInv
    <3>2. CASE x = Forward(m)
      BY <1>13, <3>1, <3>2, CreateMessageEffect
         DEF Status, SenderMoves, ServerMoves, Ended, Blames
    <3>3. CASE x # Forward(m)
      BY <1>13, <3>1, <3>3, CreateMessageEffect
         DEF Status, SenderMoves, ServerMoves, OthersSend, OthersServed, Blames
    <3> QED
      BY <3>2, <3>3
  <2> QED
    BY <2>1 DEF StatusInv
<1>14. ASSUME NEW x \in Mails, SendForwardResponse(x) PROVE StatusInv'
  <2>1. ASSUME NEW m \in Msgs PROVE Status(m)'
    <3>1. Status(m) /\ Forward(m) \in Mails /\ Forward(m).msg = m /\ Forward(m).type = "forward"
      BY MailFacts DEF StatusInv
    <3>2. Response(x.msg) # x /\ Response(x.msg) # Forward(m) /\ Response(x.msg) \in Mails /\ x.type = "forward"
      BY <1>14, <3>1, SendForwardResponseEffect, MailFacts DEF MailInv, Serves
    <3>3. CASE x = Forward(m)
      BY <1>14, <3>1, <3>2, <3>3, SendForwardResponseEffect
         DEF Status, SenderMoves, ServerMoves, Ended, Blames, OthersSend
    <3>4. CASE x # Forward(m)
      BY <1>14, <3>1, <3>2, <3>4, SendForwardResponseEffect
         DEF Status, SenderMoves, ServerMoves, OthersSend, OthersServed, Blames
    <3> QED
      BY <3>3, <3>4
  <2> QED
    BY <2>1 DEF StatusInv
<1>15. ASSUME NEW x \in Mails, ResponseEnds(x) PROVE StatusInv'
  <2>1. ASSUME NEW m \in Msgs PROVE Status(m)'
    <3>1. Status(m) /\ Forward(m) \in Mails /\ Forward(m).msg = m /\ Forward(m).type = "forward"
      BY MailFacts DEF StatusInv
    <3>2. CASE x = Forward(m)
      BY <1>15, <3>1, <3>2, ResponseEndsEffect
         DEF Status, SenderMoves, ServerMoves, Ended, Blames
    <3>3. CASE x # Forward(m)
      BY <1>15, <3>1, <3>3, ResponseEndsEffect
         DEF Status, SenderMoves, ServerMoves, OthersSend, OthersServed, Blames
    <3> QED
      BY <3>2, <3>3
  <2> QED
    BY <2>1 DEF StatusInv
<1>16. ASSUME NEW x \in Mails, DispatchLocalNotification(x) PROVE StatusInv'
  <2>1. ASSUME NEW m \in Msgs PROVE Status(m)'
    <3>1. Status(m) /\ Forward(m) \in Mails /\ Forward(m).msg = m /\ Forward(m).type = "forward"
      BY MailFacts DEF StatusInv
    <3>2. CASE x = Forward(m)
      BY <1>16, <3>1, <3>2, DispatchLocalNotificationEffect
         DEF Status, SenderMoves, ServerMoves, Ended, Blames
    <3>3. CASE x # Forward(m)
      BY <1>16, <3>1, <3>3, DispatchLocalNotificationEffect
         DEF Status, SenderMoves, ServerMoves, OthersSend, OthersServed, Blames
    <3> QED
      BY <3>2, <3>3
  <2> QED
    BY <2>1 DEF StatusInv
<1>17. ASSUME NEW x \in Mails, HandleResponse(x) PROVE StatusInv'
  <2>1. ASSUME NEW m \in Msgs PROVE Status(m)'
    <3>1. Status(m) /\ Forward(m) \in Mails /\ Forward(m).msg = m /\ Forward(m).type = "forward"
      BY MailFacts DEF StatusInv
    <3>2. CASE x = Forward(m)
      BY <1>17, <3>1, <3>2, HandleResponseEffect
         DEF Status, SenderMoves, ServerMoves, Ended, Blames
    <3>3. CASE x # Forward(m)
      BY <1>17, <3>1, <3>3, HandleResponseEffect
         DEF Status, SenderMoves, ServerMoves, OthersSend, OthersServed, Blames
    <3> QED
      BY <3>2, <3>3
  <2> QED
    BY <2>1 DEF StatusInv
<1>18. ASSUME NEW x \in Mails, HandleReport(x) PROVE StatusInv'
  <2>1. ASSUME NEW m \in Msgs PROVE Status(m)'
    <3>1. Status(m) /\ UNCHANGED sender
      BY <1>18, HandleReportEffect DEF StatusInv
    <3>2. status'[m] \in {status[m], "Delivered", "Rejected"}
      BY <1>18, HandleReportEffect DEF ReportedStatus, TypeOK
    <3> QED
      BY <3>1, <3>2 DEF Status
  <2> QED
    BY <2>1 DEF StatusInv
<1>19. ASSUME NEW x \in Mails, HelloFails(x) PROVE StatusInv'
  <2>1. ASSUME NEW m \in Msgs PROVE Status(m)'
    <3>1. Status(m) /\ Forward(m) \in Mails /\ Forward(m).msg = m /\ Forward(m).type = "forward"
      BY MailFacts DEF StatusInv
    <3>2. CASE x = Forward(m)
      BY <1>19, <3>1, <3>2, HelloFailsEffect DEF Status, SenderMoves, ServerMoves, Ended, Blames
    <3>3. CASE x # Forward(m)
      BY <1>19, <3>1, <3>3, HelloFailsEffect
         DEF Status, SenderMoves, ServerMoves, OthersSend, OthersServed, Blames
    <3> QED
      BY <3>2, <3>3
  <2> QED
    BY <2>1 DEF StatusInv
<1>20. ASSUME NEW x \in Mails, Breaks(x) PROVE StatusInv'
  <2>1. ASSUME NEW m \in Msgs PROVE Status(m)'
    <3>1. Status(m) /\ Forward(m) \in Mails /\ Forward(m).msg = m /\ Forward(m).type = "forward"
      BY MailFacts DEF StatusInv
    <3>2. CASE x = Forward(m)
      BY <1>20, <3>1, <3>2, BreaksEffect DEF Status, SenderMoves, ServerMoves, Ended, Blames
    <3>3. CASE x # Forward(m)
      BY <1>20, <3>1, <3>3, BreaksEffect
         DEF Status, SenderMoves, ServerMoves, OthersSend, OthersServed, Blames
    <3> QED
      BY <3>2, <3>3
  <2> QED
    BY <2>1 DEF StatusInv
<1>21. ASSUME NEW x \in Mails, ServiceCloses(x) PROVE StatusInv'
  <2>1. ASSUME NEW m \in Msgs PROVE Status(m)'
    <3>1. Status(m) /\ Forward(m) \in Mails /\ Forward(m).msg = m /\ Forward(m).type = "forward"
      BY MailFacts DEF StatusInv
    <3>2. CASE x = Forward(m)
      BY <1>21, <3>1, <3>2, ServiceClosesEffect
         DEF Status, SenderMoves, ServerMoves, Ended, Blames
    <3>3. CASE x # Forward(m)
      BY <1>21, <3>1, <3>3, ServiceClosesEffect
         DEF Status, SenderMoves, ServerMoves, OthersSend, OthersServed, Blames
    <3> QED
      BY <3>2, <3>3
  <2> QED
    BY <2>1 DEF StatusInv
<1>22. ASSUME NEW x \in Mails, GoesSilent(x) PROVE StatusInv'
  <2>1. ASSUME NEW m \in Msgs PROVE Status(m)'
    <3>1. Status(m) /\ Forward(m) \in Mails /\ Forward(m).msg = m /\ Forward(m).type = "forward"
      BY MailFacts DEF StatusInv
    <3>2. CASE x = Forward(m)
      BY <1>22, <3>1, <3>2, GoesSilentEffect DEF Status, SenderMoves, ServerMoves, Ended, Blames
    <3>3. CASE x # Forward(m)
      BY <1>22, <3>1, <3>3, GoesSilentEffect
         DEF Status, SenderMoves, ServerMoves, OthersSend, OthersServed, Blames
    <3> QED
      BY <3>2, <3>3
  <2> QED
    BY <2>1 DEF StatusInv
<1>23. ASSUME NEW x \in Mails, Refuses(x) PROVE StatusInv'
  <2>1. ASSUME NEW m \in Msgs PROVE Status(m)'
    <3>1. Status(m) /\ Forward(m) \in Mails /\ Forward(m).msg = m /\ Forward(m).type = "forward"
      BY MailFacts DEF StatusInv
    <3>2. CASE x = Forward(m)
      BY <1>23, <3>1, <3>2, RefusesEffect DEF Status, SenderMoves, ServerMoves, Ended, Blames
    <3>3. CASE x # Forward(m)
      BY <1>23, <3>1, <3>3, RefusesEffect
         DEF Status, SenderMoves, ServerMoves, OthersSend, OthersServed, Blames
    <3> QED
      BY <3>2, <3>3
  <2> QED
    BY <2>1 DEF StatusInv
<1>24. ASSUME NEW x \in Mails, DispatchFails(x) PROVE StatusInv'
  <2>1. ASSUME NEW m \in Msgs PROVE Status(m)'
    <3>1. Status(m) /\ Forward(m) \in Mails /\ Forward(m).msg = m /\ Forward(m).type = "forward"
      BY MailFacts DEF StatusInv
    <3>2. CASE x = Forward(m)
      BY <1>24, <3>1, <3>2, DispatchFailsEffect
         DEF Status, SenderMoves, ServerMoves, Ended, Blames
    <3>3. CASE x # Forward(m)
      BY <1>24, <3>1, <3>3, DispatchFailsEffect
         DEF Status, SenderMoves, ServerMoves, OthersSend, OthersServed, Blames
    <3> QED
      BY <3>2, <3>3
  <2> QED
    BY <2>1 DEF StatusInv
<1>25. ASSUME NEW m \in Msgs, RelayMessage(m) PROVE StatusInv'
  <2>1. ASSUME NEW k \in Msgs PROVE Status(k)'
    <3>1. Status(k) /\ Forward(k) \in Mails /\ Status(m)
      BY MailFacts DEF StatusInv
    <3> QED
      BY <1>25, <3>1, RelayMessageEffect, MailFacts
         DEF Status, SenderMoves, ServerMoves, OthersSend, OthersServed, TypeOK, Ended
  <2> QED
    BY <2>1 DEF StatusInv
<1>26. ASSUME NEW m \in Msgs, MarkUnreachable(m) PROVE StatusInv'
  <2>1. ASSUME NEW k \in Msgs PROVE Status(k)'
    <3>1. Status(k) /\ Forward(k) \in Mails /\ Status(m)
      BY MailFacts DEF StatusInv
    <3> QED
      BY <1>26, <3>1, MarkUnreachableEffect, MailFacts
         DEF Status, SenderMoves, ServerMoves, OthersSend, OthersServed, TypeOK, Ended
  <2> QED
    BY <2>1 DEF StatusInv
<1>27. ASSUME NEW m \in Msgs, SendReadReply(m) PROVE StatusInv'
  <2>1. ASSUME NEW k \in Msgs PROVE Status(k)'
    <3>1. Status(k) /\ Forward(k) \in Mails /\ Status(m)
      BY MailFacts DEF StatusInv
    <3> QED
      BY <1>27, <3>1, SendReadReplyEffect, MailFacts
         DEF Status, SenderMoves, ServerMoves, OthersSend, OthersServed, TypeOK, Ended
  <2> QED
    BY <2>1 DEF StatusInv
<1>28. ASSUME NEW m \in Msgs, NEW st \in Outcomes, SendDeliveryReport(m, st) PROVE StatusInv'
  <2>1. ASSUME NEW k \in Msgs PROVE Status(k)'
    <3>1. Status(k) /\ Forward(k) \in Mails /\ Status(m)
      BY MailFacts DEF StatusInv
    <3> QED
      BY <1>28, <3>1, SendDeliveryReportEffect, MailFacts
         DEF Status, SenderMoves, ServerMoves, OthersSend, OthersServed, TypeOK, Ended
  <2> QED
    BY <2>1 DEF StatusInv
<1>29. ASSUME UNCHANGED vars PROVE StatusInv'
  BY <1>29 DEF vars, peer, history, StatusInv, Status
<1> QED
  BY <1>1, <1>2, <1>3, <1>4, <1>5, <1>6, <1>7, <1>8, <1>9, <1>10,
     <1>11, <1>12, <1>13, <1>14, <1>15, <1>16, <1>17, <1>18, <1>19, <1>20,
     <1>21, <1>22, <1>23, <1>24, <1>25, <1>26, <1>27, <1>28, <1>29
     DEF Next, SenderStep, ServerStep, Faults

(* The sender of what is stored waits for the answer or is content. *)
LEMMA KnowledgeStep ==
    ASSUME TypeOK, MailInv, StoredInv, StatusInv, KnowledgeInv, [Next]_vars
    PROVE  KnowledgeInv'
<1>1. ASSUME NEW x \in Mails, Dial(x) PROVE KnowledgeInv'
  <2>1. ASSUME NEW m \in Msgs PROVE Informed(m)'
    <3>1. Informed(m) /\ Forward(m) \in Mails /\ Forward(m).msg = m /\ Forward(m).type = "forward"
      BY MailFacts DEF KnowledgeInv
    <3>2. CASE x = Forward(m)
      BY <1>1, <3>1, <3>2, DialEffect
         DEF Informed, Knows, Stored, Status, SenderMoves, ServerMoves, Ended, Blames
    <3>3. CASE x # Forward(m)
      BY <1>1, <3>1, <3>3, DialEffect
         DEF Informed, Knows, Stored, Status, SenderMoves, ServerMoves, OthersSend, OthersServed,
             Blames
    <3> QED
      BY <3>2, <3>3
  <2> QED
    BY <2>1 DEF KnowledgeInv
<1>2. ASSUME NEW x \in Mails, DialFails(x) PROVE KnowledgeInv'
  <2>1. ASSUME NEW m \in Msgs PROVE Informed(m)'
    <3>1. Informed(m) /\ Forward(m) \in Mails /\ Forward(m).msg = m /\ Forward(m).type = "forward"
      BY MailFacts DEF KnowledgeInv
    <3>2. CASE x = Forward(m)
      BY <1>2, <3>1, <3>2, DialFailsEffect
         DEF Informed, Knows, Stored, Status, SenderMoves, ServerMoves, Ended, Blames
    <3>3. CASE x # Forward(m)
      BY <1>2, <3>1, <3>3, DialFailsEffect
         DEF Informed, Knows, Stored, Status, SenderMoves, ServerMoves, OthersSend, OthersServed,
             Blames
    <3> QED
      BY <3>2, <3>3
  <2> QED
    BY <2>1 DEF KnowledgeInv
<1>3. ASSUME NEW x \in Mails, Sleep(x) PROVE KnowledgeInv'
  <2>1. ASSUME NEW m \in Msgs PROVE Informed(m)'
    <3>1. Informed(m) /\ Forward(m) \in Mails /\ Forward(m).msg = m /\ Forward(m).type = "forward"
      BY MailFacts DEF KnowledgeInv
    <3>2. CASE x = Forward(m)
      BY <1>3, <3>1, <3>2, SleepEffect
         DEF Informed, Knows, Stored, Status, SenderMoves, ServerMoves, Ended, Blames
    <3>3. CASE x # Forward(m)
      BY <1>3, <3>1, <3>3, SleepEffect
         DEF Informed, Knows, Stored, Status, SenderMoves, ServerMoves, OthersSend, OthersServed,
             Blames
    <3> QED
      BY <3>2, <3>3
  <2> QED
    BY <2>1 DEF KnowledgeInv
<1>4. ASSUME NEW x \in Mails, Hello(x) PROVE KnowledgeInv'
  <2>1. ASSUME NEW m \in Msgs PROVE Informed(m)'
    <3>1. Informed(m) /\ Forward(m) \in Mails /\ Forward(m).msg = m /\ Forward(m).type = "forward"
      BY MailFacts DEF KnowledgeInv
    <3>2. CASE x = Forward(m)
      BY <1>4, <3>1, <3>2, HelloEffect
         DEF Informed, Knows, Stored, Status, SenderMoves, ServerMoves, Ended, Blames
    <3>3. CASE x # Forward(m)
      BY <1>4, <3>1, <3>3, HelloEffect
         DEF Informed, Knows, Stored, Status, SenderMoves, ServerMoves, OthersSend, OthersServed,
             Blames
    <3> QED
      BY <3>2, <3>3
  <2> QED
    BY <2>1 DEF KnowledgeInv
<1>5. ASSUME NEW x \in Mails, Mail(x) PROVE KnowledgeInv'
  <2>1. ASSUME NEW m \in Msgs PROVE Informed(m)'
    <3>1. Informed(m) /\ Forward(m) \in Mails /\ Forward(m).msg = m /\ Forward(m).type = "forward"
      BY MailFacts DEF KnowledgeInv
    <3>2. CASE x = Forward(m)
      BY <1>5, <3>1, <3>2, MailEffect
         DEF Informed, Knows, Stored, Status, SenderMoves, ServerMoves, Ended, Blames
    <3>3. CASE x # Forward(m)
      BY <1>5, <3>1, <3>3, MailEffect
         DEF Informed, Knows, Stored, Status, SenderMoves, ServerMoves, OthersSend, OthersServed,
             Blames
    <3> QED
      BY <3>2, <3>3
  <2> QED
    BY <2>1 DEF KnowledgeInv
<1>6. ASSUME NEW x \in Mails, Rcpt(x) PROVE KnowledgeInv'
  <2>1. ASSUME NEW m \in Msgs PROVE Informed(m)'
    <3>1. Informed(m) /\ Forward(m) \in Mails /\ Forward(m).msg = m /\ Forward(m).type = "forward"
      BY MailFacts DEF KnowledgeInv
    <3>2. CASE x = Forward(m)
      BY <1>6, <3>1, <3>2, RcptEffect
         DEF Informed, Knows, Stored, Status, SenderMoves, ServerMoves, Ended, Blames
    <3>3. CASE x # Forward(m)
      BY <1>6, <3>1, <3>3, RcptEffect
         DEF Informed, Knows, Stored, Status, SenderMoves, ServerMoves, OthersSend, OthersServed,
             Blames
    <3> QED
      BY <3>2, <3>3
  <2> QED
    BY <2>1 DEF KnowledgeInv
<1>7. ASSUME NEW x \in Mails, Data(x) PROVE KnowledgeInv'
  <2>1. ASSUME NEW m \in Msgs PROVE Informed(m)'
    <3>1. Informed(m) /\ Forward(m) \in Mails /\ Forward(m).msg = m /\ Forward(m).type = "forward"
      BY MailFacts DEF KnowledgeInv
    <3>2. CASE x = Forward(m)
      BY <1>7, <3>1, <3>2, DataEffect
         DEF Informed, Knows, Stored, Status, SenderMoves, ServerMoves, Ended, Blames
    <3>3. CASE x # Forward(m)
      BY <1>7, <3>1, <3>3, DataEffect
         DEF Informed, Knows, Stored, Status, SenderMoves, ServerMoves, OthersSend, OthersServed,
             Blames
    <3> QED
      BY <3>2, <3>3
  <2> QED
    BY <2>1 DEF KnowledgeInv
<1>8. ASSUME NEW x \in Mails, Body(x) PROVE KnowledgeInv'
  <2>1. ASSUME NEW m \in Msgs PROVE Informed(m)'
    <3>1. Informed(m) /\ Forward(m) \in Mails /\ Forward(m).msg = m /\ Forward(m).type = "forward"
      BY MailFacts DEF KnowledgeInv
    <3>2. CASE x = Forward(m)
      BY <1>8, <3>1, <3>2, BodyEffect
         DEF Informed, Knows, Stored, Status, SenderMoves, ServerMoves, Ended, Blames
    <3>3. CASE x # Forward(m)
      BY <1>8, <3>1, <3>3, BodyEffect
         DEF Informed, Knows, Stored, Status, SenderMoves, ServerMoves, OthersSend, OthersServed,
             Blames
    <3> QED
      BY <3>2, <3>3
  <2> QED
    BY <2>1 DEF KnowledgeInv
<1>9. ASSUME NEW x \in Mails, Reply(x) PROVE KnowledgeInv'
  <2>1. ASSUME NEW m \in Msgs PROVE Informed(m)'
    <3>1. Informed(m) /\ Forward(m) \in Mails /\ Forward(m).msg = m /\ Forward(m).type = "forward"
      BY MailFacts DEF KnowledgeInv
    <3>2. CASE x = Forward(m)
      BY <1>9, <3>1, <3>2, ReplyEffect
         DEF Informed, Knows, Stored, Status, SenderMoves, ServerMoves, Ended, Blames
    <3>3. CASE x # Forward(m)
      BY <1>9, <3>1, <3>3, ReplyEffect
         DEF Informed, Knows, Stored, Status, SenderMoves, ServerMoves, OthersSend, OthersServed,
             Blames
    <3> QED
      BY <3>2, <3>3
  <2> QED
    BY <2>1 DEF KnowledgeInv
<1>10. ASSUME NEW x \in Mails, Quit(x) PROVE KnowledgeInv'
  <2>1. ASSUME NEW m \in Msgs PROVE Informed(m)'
    <3>1. Informed(m) /\ Forward(m) \in Mails /\ Forward(m).msg = m /\ Forward(m).type = "forward"
      BY MailFacts DEF KnowledgeInv
    <3>2. CASE x = Forward(m)
      BY <1>10, <3>1, <3>2, QuitEffect
         DEF Informed, Knows, Stored, Status, SenderMoves, ServerMoves, Ended, Blames
    <3>3. CASE x # Forward(m)
      BY <1>10, <3>1, <3>3, QuitEffect
         DEF Informed, Knows, Stored, Status, SenderMoves, ServerMoves, OthersSend, OthersServed,
             Blames
    <3> QED
      BY <3>2, <3>3
  <2> QED
    BY <2>1 DEF KnowledgeInv
<1>11. ASSUME NEW x \in Mails, Accept(x) PROVE KnowledgeInv'
  <2>1. ASSUME NEW m \in Msgs PROVE Informed(m)'
    <3>1. Informed(m) /\ Forward(m) \in Mails /\ Forward(m).msg = m /\ Forward(m).type = "forward"
      BY MailFacts DEF KnowledgeInv
    <3>2. CASE x = Forward(m)
      BY <1>11, <3>1, <3>2, AcceptEffect
         DEF Informed, Knows, Stored, Status, SenderMoves, ServerMoves, Ended, Blames
    <3>3. CASE x # Forward(m)
      BY <1>11, <3>1, <3>3, AcceptEffect
         DEF Informed, Knows, Stored, Status, SenderMoves, ServerMoves, OthersSend, OthersServed,
             Blames
    <3> QED
      BY <3>2, <3>3
  <2> QED
    BY <2>1 DEF KnowledgeInv
<1>12. ASSUME NEW x \in Mails, Put(x) PROVE KnowledgeInv'
  <2>1. ASSUME NEW m \in Msgs PROVE Informed(m)'
    <3>1. Informed(m) /\ Forward(m) \in Mails /\ Forward(m).msg = m /\ Forward(m).type = "forward"
      BY MailFacts DEF KnowledgeInv
    <3>2. CASE x = Forward(m)
      BY <1>12, <3>1, <3>2, PutEffect
         DEF Informed, Knows, Stored, Status, SenderMoves, ServerMoves, Ended, Blames
    <3>3. CASE x # Forward(m)
      BY <1>12, <3>1, <3>3, PutEffect
         DEF Informed, Knows, Stored, Status, SenderMoves, ServerMoves, OthersSend, OthersServed,
             Blames
    <3> QED
      BY <3>2, <3>3
  <2> QED
    BY <2>1 DEF KnowledgeInv
<1>13. ASSUME NEW x \in Mails, CreateMessage(x) PROVE KnowledgeInv'
  <2>1. ASSUME NEW m \in Msgs PROVE Informed(m)'
    <3>1. Informed(m) /\ Forward(m) \in Mails /\ Forward(m).msg = m
      BY MailFacts DEF KnowledgeInv
    <3>2. x = Forward(x.msg) /\ server[x].pc = "create" /\ sender' = sender /\ causes' = causes
      BY <1>13, CreateMessageEffect
    <3>3. CASE x.msg = m
      BY <1>13, <3>1, <3>2, <3>3, CreateMessageEffect DEF Informed, Knows, ServerMoves
    <3>4. CASE x.msg # m
      <4>1. x # Forward(m) /\ server'[Forward(m)] = server[Forward(m)]
        BY <1>13, <3>1, <3>2, <3>4, CreateMessageEffect DEF ServerMoves, OthersServed
      <4>2. m \in DOMAIN stored <=> m \in DOMAIN stored'
        BY <1>13, <3>4, CreateMessageEffect
      <4> QED
        BY <3>1, <3>2, <4>1, <4>2 DEF Informed, Knows
    <3> QED
      BY <3>3, <3>4
  <2> QED
    BY <2>1 DEF KnowledgeInv
<1>14. ASSUME NEW x \in Mails, SendForwardResponse(x) PROVE KnowledgeInv'
  <2>1. ASSUME NEW m \in Msgs PROVE Informed(m)'
    <3>1. Informed(m) /\ Forward(m) \in Mails /\ Forward(m).msg = m /\ Forward(m).type = "forward"
      BY MailFacts DEF KnowledgeInv
    <3>2. Response(x.msg) # x /\ Response(x.msg) # Forward(m) /\ Response(x.msg) \in Mails /\ x.type = "forward"
      BY <1>14, <3>1, SendForwardResponseEffect, MailFacts DEF MailInv, Serves
    <3>3. CASE x = Forward(m)
      BY <1>14, <3>1, <3>2, <3>3, SendForwardResponseEffect
         DEF Informed, Knows, Stored, Status, SenderMoves, ServerMoves, Ended, Blames,
             OthersSend
    <3>4. CASE x # Forward(m)
      BY <1>14, <3>1, <3>2, <3>4, SendForwardResponseEffect
         DEF Informed, Knows, Stored, Status, SenderMoves, ServerMoves, OthersSend, OthersServed,
             Blames
    <3> QED
      BY <3>3, <3>4
  <2> QED
    BY <2>1 DEF KnowledgeInv
<1>15. ASSUME NEW x \in Mails, ResponseEnds(x) PROVE KnowledgeInv'
  <2>1. ASSUME NEW m \in Msgs PROVE Informed(m)'
    <3>1. Informed(m) /\ Forward(m) \in Mails /\ Forward(m).msg = m /\ Forward(m).type = "forward"
      BY MailFacts DEF KnowledgeInv
    <3>2. CASE x = Forward(m)
      BY <1>15, <3>1, <3>2, ResponseEndsEffect
         DEF Informed, Knows, Stored, Status, SenderMoves, ServerMoves, Ended, Blames
    <3>3. CASE x # Forward(m)
      BY <1>15, <3>1, <3>3, ResponseEndsEffect
         DEF Informed, Knows, Stored, Status, SenderMoves, ServerMoves, OthersSend, OthersServed,
             Blames
    <3> QED
      BY <3>2, <3>3
  <2> QED
    BY <2>1 DEF KnowledgeInv
<1>16. ASSUME NEW x \in Mails, DispatchLocalNotification(x) PROVE KnowledgeInv'
  <2>1. ASSUME NEW m \in Msgs PROVE Informed(m)'
    <3>1. Informed(m) /\ Forward(m) \in Mails /\ Forward(m).msg = m /\ Forward(m).type = "forward"
      BY MailFacts DEF KnowledgeInv
    <3>2. CASE x = Forward(m)
      BY <1>16, <3>1, <3>2, DispatchLocalNotificationEffect
         DEF Informed, Knows, Stored, Status, SenderMoves, ServerMoves, Ended, Blames
    <3>3. CASE x # Forward(m)
      BY <1>16, <3>1, <3>3, DispatchLocalNotificationEffect
         DEF Informed, Knows, Stored, Status, SenderMoves, ServerMoves, OthersSend, OthersServed,
             Blames
    <3> QED
      BY <3>2, <3>3
  <2> QED
    BY <2>1 DEF KnowledgeInv
<1>17. ASSUME NEW x \in Mails, HandleResponse(x) PROVE KnowledgeInv'
  <2>1. ASSUME NEW m \in Msgs PROVE Informed(m)'
    <3>1. Informed(m) /\ Forward(m) \in Mails /\ Forward(m).msg = m /\ Forward(m).type = "forward"
      BY MailFacts DEF KnowledgeInv
    <3>2. CASE x = Forward(m)
      BY <1>17, <3>1, <3>2, HandleResponseEffect
         DEF Informed, Knows, Stored, Status, SenderMoves, ServerMoves, Ended, Blames
    <3>3. CASE x # Forward(m)
      BY <1>17, <3>1, <3>3, HandleResponseEffect
         DEF Informed, Knows, Stored, Status, SenderMoves, ServerMoves, OthersSend, OthersServed,
             Blames
    <3> QED
      BY <3>2, <3>3
  <2> QED
    BY <2>1 DEF KnowledgeInv
<1>18. ASSUME NEW x \in Mails, HandleReport(x) PROVE KnowledgeInv'
  <2>1. ASSUME NEW m \in Msgs PROVE Informed(m)'
    <3>1. Informed(m) /\ Forward(m) \in Mails /\ Forward(m).msg = m /\ Forward(m).type = "forward"
      BY MailFacts DEF KnowledgeInv
    <3>2. Talks(x) /\ Serves(x) /\ Told(x) /\ x.msg \in Msgs /\ (x.type = "forward" => x = Forward(x.msg))
      BY MailFacts DEF MailInv
    <3>3. CASE x = Forward(m)
      BY <1>18, <3>1, <3>2, <3>3, HandleReportEffect
         DEF Informed, Knows, Stored, Status, SenderMoves, ServerMoves, Ended, Blames, Talks
    <3>4. CASE x # Forward(m)
      BY <1>18, <3>1, <3>2, <3>4, HandleReportEffect
         DEF Informed, Knows, Stored, Status, SenderMoves, ServerMoves, OthersSend, OthersServed,
             Blames, Serves, Told
    <3> QED
      BY <3>3, <3>4
  <2> QED
    BY <2>1 DEF KnowledgeInv
<1>19. ASSUME NEW x \in Mails, HelloFails(x) PROVE KnowledgeInv'
  <2>1. ASSUME NEW m \in Msgs PROVE Informed(m)'
    <3>1. Informed(m) /\ Forward(m) \in Mails /\ Forward(m).msg = m /\ Forward(m).type = "forward"
      BY MailFacts DEF KnowledgeInv
    <3>2. CASE x = Forward(m)
      BY <1>19, <3>1, <3>2, HelloFailsEffect
         DEF Informed, Knows, Stored, Status, SenderMoves, ServerMoves, Ended, Blames
    <3>3. CASE x # Forward(m)
      BY <1>19, <3>1, <3>3, HelloFailsEffect
         DEF Informed, Knows, Stored, Status, SenderMoves, ServerMoves, OthersSend, OthersServed,
             Blames
    <3> QED
      BY <3>2, <3>3
  <2> QED
    BY <2>1 DEF KnowledgeInv
<1>20. ASSUME NEW x \in Mails, Breaks(x) PROVE KnowledgeInv'
  <2>1. ASSUME NEW m \in Msgs PROVE Informed(m)'
    <3>1. Informed(m) /\ Forward(m) \in Mails /\ Forward(m).msg = m /\ Forward(m).type = "forward"
      BY MailFacts DEF KnowledgeInv
    <3>2. CASE x = Forward(m)
      BY <1>20, <3>1, <3>2, BreaksEffect
         DEF Informed, Knows, Stored, Status, SenderMoves, ServerMoves, Ended, Blames
    <3>3. CASE x # Forward(m)
      BY <1>20, <3>1, <3>3, BreaksEffect
         DEF Informed, Knows, Stored, Status, SenderMoves, ServerMoves, OthersSend, OthersServed,
             Blames
    <3> QED
      BY <3>2, <3>3
  <2> QED
    BY <2>1 DEF KnowledgeInv
<1>21. ASSUME NEW x \in Mails, ServiceCloses(x) PROVE KnowledgeInv'
  <2>1. ASSUME NEW m \in Msgs PROVE Informed(m)'
    <3>1. Informed(m) /\ Forward(m) \in Mails /\ Forward(m).msg = m /\ Forward(m).type = "forward"
      BY MailFacts DEF KnowledgeInv
    <3>2. CASE x = Forward(m)
      BY <1>21, <3>1, <3>2, ServiceClosesEffect
         DEF Informed, Knows, Stored, Status, SenderMoves, ServerMoves, Ended, Blames
    <3>3. CASE x # Forward(m)
      BY <1>21, <3>1, <3>3, ServiceClosesEffect
         DEF Informed, Knows, Stored, Status, SenderMoves, ServerMoves, OthersSend, OthersServed,
             Blames
    <3> QED
      BY <3>2, <3>3
  <2> QED
    BY <2>1 DEF KnowledgeInv
<1>22. ASSUME NEW x \in Mails, GoesSilent(x) PROVE KnowledgeInv'
  <2>1. ASSUME NEW m \in Msgs PROVE Informed(m)'
    <3>1. Informed(m) /\ Forward(m) \in Mails /\ Forward(m).msg = m /\ Forward(m).type = "forward"
      BY MailFacts DEF KnowledgeInv
    <3>2. CASE x = Forward(m)
      BY <1>22, <3>1, <3>2, GoesSilentEffect
         DEF Informed, Knows, Stored, Status, SenderMoves, ServerMoves, Ended, Blames
    <3>3. CASE x # Forward(m)
      BY <1>22, <3>1, <3>3, GoesSilentEffect
         DEF Informed, Knows, Stored, Status, SenderMoves, ServerMoves, OthersSend, OthersServed,
             Blames
    <3> QED
      BY <3>2, <3>3
  <2> QED
    BY <2>1 DEF KnowledgeInv
<1>23. ASSUME NEW x \in Mails, Refuses(x) PROVE KnowledgeInv'
  <2>1. ASSUME NEW m \in Msgs PROVE Informed(m)'
    <3>1. Informed(m) /\ Forward(m) \in Mails /\ Forward(m).msg = m /\ Forward(m).type = "forward"
      BY MailFacts DEF KnowledgeInv
    <3>2. CASE x = Forward(m)
      BY <1>23, <3>1, <3>2, RefusesEffect
         DEF Informed, Knows, Stored, Status, SenderMoves, ServerMoves, Ended, Blames
    <3>3. CASE x # Forward(m)
      BY <1>23, <3>1, <3>3, RefusesEffect
         DEF Informed, Knows, Stored, Status, SenderMoves, ServerMoves, OthersSend, OthersServed,
             Blames
    <3> QED
      BY <3>2, <3>3
  <2> QED
    BY <2>1 DEF KnowledgeInv
<1>24. ASSUME NEW x \in Mails, DispatchFails(x) PROVE KnowledgeInv'
  <2>1. ASSUME NEW m \in Msgs PROVE Informed(m)'
    <3>1. Informed(m) /\ Forward(m) \in Mails /\ Forward(m).msg = m /\ Forward(m).type = "forward"
      BY MailFacts DEF KnowledgeInv
    <3>2. CASE x = Forward(m)
      BY <1>24, <3>1, <3>2, DispatchFailsEffect
         DEF Informed, Knows, Stored, Status, SenderMoves, ServerMoves, Ended, Blames
    <3>3. CASE x # Forward(m)
      BY <1>24, <3>1, <3>3, DispatchFailsEffect
         DEF Informed, Knows, Stored, Status, SenderMoves, ServerMoves, OthersSend, OthersServed,
             Blames
    <3> QED
      BY <3>2, <3>3
  <2> QED
    BY <2>1 DEF KnowledgeInv
<1>25. ASSUME NEW m \in Msgs, RelayMessage(m) PROVE KnowledgeInv'
  <2>1. ASSUME NEW k \in Msgs PROVE Informed(k)'
    <3>1. Informed(k) /\ Forward(k) \in Mails /\ Forward(k).msg = k /\ Forward(m) \in Mails /\ Forward(m).msg = m
      BY MailFacts DEF KnowledgeInv
    <3>2. UNCHANGED <<server, stored, causes>> /\ status[m] = "none"
      BY <1>25, RelayMessageEffect
    <3>3. CASE k = m
      <4>1. sender[Forward(m)].pc = "idle"
        BY <3>2 DEF StatusInv, Status
      <4>2. SenderMoves(Forward(m), "dial")
        BY <1>25, RelayMessageEffect
      <4> QED
        BY <3>1, <3>2, <3>3, <4>1, <4>2 DEF Informed, Knows, SenderMoves
    <3>4. CASE k # m
      <4>1. sender'[Forward(k)] = sender[Forward(k)]
        BY <1>25, <3>1, <3>4, RelayMessageEffect DEF SenderMoves, OthersSend
      <4> QED
        BY <3>1, <3>2, <4>1 DEF Informed, Knows
    <3> QED
      BY <3>3, <3>4
  <2> QED
    BY <2>1 DEF KnowledgeInv
<1>26. ASSUME NEW m \in Msgs, MarkUnreachable(m) PROVE KnowledgeInv'
  <2>1. ASSUME NEW k \in Msgs PROVE Informed(k)'
    <3>1. Informed(k) /\ Forward(k) \in Mails /\ Informed(m)
      BY MailFacts DEF KnowledgeInv
    <3> QED
      BY <1>26, <3>1, MarkUnreachableEffect, MailFacts
         DEF Informed, Knows, Stored, Status, SenderMoves, ServerMoves, OthersSend, OthersServed,
             TypeOK, Ended
  <2> QED
    BY <2>1 DEF KnowledgeInv
<1>27. ASSUME NEW m \in Msgs, SendReadReply(m) PROVE KnowledgeInv'
  <2>1. ASSUME NEW k \in Msgs PROVE Informed(k)'
    <3>1. Informed(k) /\ Forward(k) \in Mails /\ Informed(m)
      BY MailFacts DEF KnowledgeInv
    <3> QED
      BY <1>27, <3>1, SendReadReplyEffect, MailFacts
         DEF Informed, Knows, Stored, Status, SenderMoves, ServerMoves, OthersSend, OthersServed,
             TypeOK, Ended
  <2> QED
    BY <2>1 DEF KnowledgeInv
<1>28. ASSUME NEW m \in Msgs, NEW st \in Outcomes, SendDeliveryReport(m, st) PROVE KnowledgeInv'
  <2>1. ASSUME NEW k \in Msgs PROVE Informed(k)'
    <3>1. Informed(k) /\ Forward(k) \in Mails /\ Informed(m)
      BY MailFacts DEF KnowledgeInv
    <3> QED
      BY <1>28, <3>1, SendDeliveryReportEffect, MailFacts
         DEF Informed, Knows, Stored, Status, SenderMoves, ServerMoves, OthersSend, OthersServed,
             TypeOK, Ended
  <2> QED
    BY <2>1 DEF KnowledgeInv
<1>29. ASSUME UNCHANGED vars PROVE KnowledgeInv'
  BY <1>29 DEF vars, peer, history, KnowledgeInv, Informed, Knows, Stored, Status
<1> QED
  BY <1>1, <1>2, <1>3, <1>4, <1>5, <1>6, <1>7, <1>8, <1>9, <1>10,
     <1>11, <1>12, <1>13, <1>14, <1>15, <1>16, <1>17, <1>18, <1>19, <1>20,
     <1>21, <1>22, <1>23, <1>24, <1>25, <1>26, <1>27, <1>28, <1>29
     DEF Next, SenderStep, ServerStep, Faults

----------------------------------------------------------------------------
(* Types *)

(* The variables no mail has a part of. *)
RowsOK ==
    /\ via \in [Msgs -> Ifaces]
    /\ status \in [Msgs -> {"none", "Forwarded", "Delivered", "Rejected", "Unreachable"}]
    /\ DOMAIN stored \subseteq Msgs /\ payload \subseteq Msgs /\ DOMAIN stored \subseteq payload
    /\ silent \subseteq Mails /\ faults \in Nat
    /\ told \in [Msgs -> SUBSET (Outcomes \cup {"Read"})] /\ heard \subseteq Msgs /\ causes \subseteq Msgs

LEMMA TypeParts ==
    TypeOK <=> sender \in [Mails -> SenderState] /\ server \in [Mails -> ServerState] /\ RowsOK
  BY DEF TypeOK, RowsOK

(* Every step keeps the types. *)
LEMMA TypeStep ==
    ASSUME TypeOK, MailInv, [Next]_vars
    PROVE  TypeOK'
<1>1. ASSUME NEW x \in Mails, Dial(x) PROVE TypeOK'
  <2>1. sender' \in [Mails -> SenderState] /\ server' \in [Mails -> ServerState]
    BY <1>1, DialEffect DEF SenderMoves, ServerMoves
  <2>2. via' = via /\ silent' \subseteq silent \cup Mails /\ faults' \in {faults, faults + 1}
    BY <1>1 DEF Dial, Fault
  <2>3. RowsOK
    BY TypeParts
  <2>4. RowsOK'
    BY <1>1, <2>2, <2>3, DialEffect DEF RowsOK
  <2> QED
    BY <2>1, <2>4 DEF TypeOK, RowsOK
<1>2. ASSUME NEW x \in Mails, DialFails(x) PROVE TypeOK'
  <2>1. sender' \in [Mails -> SenderState] /\ server' \in [Mails -> ServerState]
    BY <1>2, DialFailsEffect DEF SenderMoves, ServerMoves
  <2>2. via' = via /\ silent' \subseteq silent \cup Mails /\ faults' \in {faults, faults + 1}
    BY <1>2 DEF DialFails, Fault
  <2>3. RowsOK
    BY TypeParts
  <2>4. RowsOK'
    BY <1>2, <2>2, <2>3, DialFailsEffect DEF RowsOK
  <2> QED
    BY <2>1, <2>4 DEF TypeOK, RowsOK
<1>3. ASSUME NEW x \in Mails, Sleep(x) PROVE TypeOK'
  <2>1. sender' \in [Mails -> SenderState] /\ server' \in [Mails -> ServerState]
    BY <1>3, SleepEffect DEF SenderMoves, ServerMoves
  <2>2. via' = via /\ silent' \subseteq silent \cup Mails /\ faults' \in {faults, faults + 1}
    BY <1>3 DEF Sleep, Fault
  <2>3. RowsOK
    BY TypeParts
  <2>4. RowsOK'
    BY <1>3, <2>2, <2>3, SleepEffect DEF RowsOK
  <2> QED
    BY <2>1, <2>4 DEF TypeOK, RowsOK
<1>4. ASSUME NEW x \in Mails, Hello(x) PROVE TypeOK'
  <2>1. sender' \in [Mails -> SenderState] /\ server' \in [Mails -> ServerState]
    BY <1>4, HelloEffect DEF SenderMoves, ServerMoves
  <2>2. via' = via /\ silent' \subseteq silent \cup Mails /\ faults' \in {faults, faults + 1}
    BY <1>4 DEF Hello, Fault
  <2>3. RowsOK
    BY TypeParts
  <2>4. RowsOK'
    BY <1>4, <2>2, <2>3, HelloEffect DEF RowsOK
  <2> QED
    BY <2>1, <2>4 DEF TypeOK, RowsOK
<1>5. ASSUME NEW x \in Mails, Mail(x) PROVE TypeOK'
  <2>1. sender' \in [Mails -> SenderState] /\ server' \in [Mails -> ServerState]
    BY <1>5, MailEffect DEF SenderMoves, ServerMoves
  <2>2. via' = via /\ silent' \subseteq silent \cup Mails /\ faults' \in {faults, faults + 1}
    BY <1>5 DEF Mail, Sends, Fault
  <2>3. RowsOK
    BY TypeParts
  <2>4. RowsOK'
    BY <1>5, <2>2, <2>3, MailEffect DEF RowsOK
  <2> QED
    BY <2>1, <2>4 DEF TypeOK, RowsOK
<1>6. ASSUME NEW x \in Mails, Rcpt(x) PROVE TypeOK'
  <2>1. sender' \in [Mails -> SenderState] /\ server' \in [Mails -> ServerState]
    BY <1>6, RcptEffect DEF SenderMoves, ServerMoves
  <2>2. via' = via /\ silent' \subseteq silent \cup Mails /\ faults' \in {faults, faults + 1}
    BY <1>6 DEF Rcpt, Sends, Fault
  <2>3. RowsOK
    BY TypeParts
  <2>4. RowsOK'
    BY <1>6, <2>2, <2>3, RcptEffect DEF RowsOK
  <2> QED
    BY <2>1, <2>4 DEF TypeOK, RowsOK
<1>7. ASSUME NEW x \in Mails, Data(x) PROVE TypeOK'
  <2>1. sender' \in [Mails -> SenderState] /\ server' \in [Mails -> ServerState]
    BY <1>7, DataEffect DEF SenderMoves, ServerMoves
  <2>2. via' = via /\ silent' \subseteq silent \cup Mails /\ faults' \in {faults, faults + 1}
    BY <1>7 DEF Data, Sends, Fault
  <2>3. RowsOK
    BY TypeParts
  <2>4. RowsOK'
    BY <1>7, <2>2, <2>3, DataEffect DEF RowsOK
  <2> QED
    BY <2>1, <2>4 DEF TypeOK, RowsOK
<1>8. ASSUME NEW x \in Mails, Body(x) PROVE TypeOK'
  <2>1. sender' \in [Mails -> SenderState] /\ server' \in [Mails -> ServerState]
    BY <1>8, BodyEffect DEF SenderMoves, ServerMoves
  <2>2. via' = via /\ silent' \subseteq silent \cup Mails /\ faults' \in {faults, faults + 1}
    BY <1>8 DEF Body, Fault
  <2>3. RowsOK
    BY TypeParts
  <2>4. RowsOK'
    BY <1>8, <2>2, <2>3, BodyEffect DEF RowsOK
  <2> QED
    BY <2>1, <2>4 DEF TypeOK, RowsOK
<1>9. ASSUME NEW x \in Mails, Reply(x) PROVE TypeOK'
  <2>1. sender' \in [Mails -> SenderState] /\ server' \in [Mails -> ServerState]
    BY <1>9, ReplyEffect DEF SenderMoves, ServerMoves
  <2>2. via' = via /\ silent' \subseteq silent \cup Mails /\ faults' \in {faults, faults + 1}
    BY <1>9 DEF Reply, Fault
  <2>3. RowsOK
    BY TypeParts
  <2>4. RowsOK'
    BY <1>9, <2>2, <2>3, ReplyEffect DEF RowsOK
  <2> QED
    BY <2>1, <2>4 DEF TypeOK, RowsOK
<1>10. ASSUME NEW x \in Mails, Quit(x) PROVE TypeOK'
  <2>1. sender' \in [Mails -> SenderState] /\ server' \in [Mails -> ServerState]
    BY <1>10, QuitEffect DEF SenderMoves, ServerMoves
  <2>2. via' = via /\ silent' \subseteq silent \cup Mails /\ faults' \in {faults, faults + 1}
    BY <1>10 DEF Quit, Fault
  <2>3. RowsOK
    BY TypeParts
  <2>4. RowsOK'
    BY <1>10, <2>2, <2>3, QuitEffect DEF RowsOK
  <2> QED
    BY <2>1, <2>4 DEF TypeOK, RowsOK
<1>11. ASSUME NEW x \in Mails, Accept(x) PROVE TypeOK'
  <2>1. sender' \in [Mails -> SenderState] /\ server' \in [Mails -> ServerState]
    BY <1>11, AcceptEffect DEF SenderMoves, ServerMoves
  <2>2. via' = via /\ silent' \subseteq silent \cup Mails /\ faults' \in {faults, faults + 1}
    BY <1>11 DEF Accept, Fault
  <2>3. RowsOK
    BY TypeParts
  <2>4. RowsOK'
    BY <1>11, <2>2, <2>3, AcceptEffect DEF RowsOK
  <2> QED
    BY <2>1, <2>4 DEF TypeOK, RowsOK
<1>12. ASSUME NEW x \in Mails, Put(x) PROVE TypeOK'
  <2>1. sender' \in [Mails -> SenderState] /\ server' \in [Mails -> ServerState]
    BY <1>12, PutEffect DEF SenderMoves, ServerMoves
  <2>2. via' = via /\ silent' \subseteq silent \cup Mails /\ faults' \in {faults, faults + 1}
    BY <1>12 DEF Put, Fault
  <2>3. RowsOK
    BY TypeParts
  <2>4. RowsOK'
    BY <1>12, <2>2, <2>3, PutEffect, MailFacts DEF RowsOK
  <2> QED
    BY <2>1, <2>4 DEF TypeOK, RowsOK
<1>13. ASSUME NEW x \in Mails, CreateMessage(x) PROVE TypeOK'
  <2>1. sender' \in [Mails -> SenderState] /\ server' \in [Mails -> ServerState]
    BY <1>13, CreateMessageEffect DEF SenderMoves, ServerMoves
  <2>2. via' = via /\ silent' \subseteq silent \cup Mails /\ faults' \in {faults, faults + 1}
    BY <1>13 DEF CreateMessage, Fault
  <2>3. RowsOK
    BY TypeParts
  <2>4. x.msg \in payload
    BY <1>13, CreateMessageEffect DEF MailInv, Serves
  <2>5. DOMAIN stored' \subseteq DOMAIN stored \cup {x.msg}
    BY <1>13, CreateMessageEffect
  <2>6. UNCHANGED <<status, payload, told, heard, causes>>
    BY <1>13, CreateMessageEffect
  <2>7. RowsOK'
    BY <2>2, <2>3, <2>4, <2>5, <2>6 DEF RowsOK
  <2> QED
    BY <2>1, <2>7 DEF TypeOK, RowsOK
<1>14. ASSUME NEW x \in Mails, SendForwardResponse(x) PROVE TypeOK'
  <2>1. sender' \in [Mails -> SenderState] /\ server' \in [Mails -> ServerState]
    BY <1>14, SendForwardResponseEffect DEF SenderMoves, ServerMoves
  <2>2. via' = via /\ silent' \subseteq silent \cup Mails /\ faults' \in {faults, faults + 1}
    BY <1>14 DEF SendForwardResponse, Fault
  <2>3. RowsOK
    BY TypeParts
  <2>4. RowsOK'
    BY <1>14, <2>2, <2>3, SendForwardResponseEffect DEF RowsOK
  <2> QED
    BY <2>1, <2>4 DEF TypeOK, RowsOK
<1>15. ASSUME NEW x \in Mails, ResponseEnds(x) PROVE TypeOK'
  <2>1. sender' \in [Mails -> SenderState] /\ server' \in [Mails -> ServerState]
    BY <1>15, ResponseEndsEffect DEF SenderMoves, ServerMoves
  <2>2. via' = via /\ silent' \subseteq silent \cup Mails /\ faults' \in {faults, faults + 1}
    BY <1>15 DEF ResponseEnds, Fault
  <2>3. RowsOK
    BY TypeParts
  <2>4. RowsOK'
    BY <1>15, <2>2, <2>3, ResponseEndsEffect DEF RowsOK
  <2> QED
    BY <2>1, <2>4 DEF TypeOK, RowsOK
<1>16. ASSUME NEW x \in Mails, DispatchLocalNotification(x) PROVE TypeOK'
  <2>1. sender' \in [Mails -> SenderState] /\ server' \in [Mails -> ServerState]
    BY <1>16, DispatchLocalNotificationEffect DEF SenderMoves, ServerMoves
  <2>2. via' = via /\ silent' \subseteq silent \cup Mails /\ faults' \in {faults, faults + 1}
    BY <1>16 DEF DispatchLocalNotification, Fault
  <2>3. RowsOK
    BY TypeParts
  <2>4. RowsOK'
    BY <1>16, <2>2, <2>3, DispatchLocalNotificationEffect DEF RowsOK
  <2> QED
    BY <2>1, <2>4 DEF TypeOK, RowsOK
<1>17. ASSUME NEW x \in Mails, HandleResponse(x) PROVE TypeOK'
  <2>1. sender' \in [Mails -> SenderState] /\ server' \in [Mails -> ServerState]
    BY <1>17, HandleResponseEffect DEF SenderMoves, ServerMoves
  <2>2. via' = via /\ silent' \subseteq silent \cup Mails /\ faults' \in {faults, faults + 1}
    BY <1>17 DEF HandleResponse, Fault
  <2>3. RowsOK
    BY TypeParts
  <2>4. RowsOK'
    BY <1>17, <2>2, <2>3, HandleResponseEffect DEF RowsOK
  <2> QED
    BY <2>1, <2>4 DEF TypeOK, RowsOK
<1>18. ASSUME NEW x \in Mails, HandleReport(x) PROVE TypeOK'
  <2>1. sender' \in [Mails -> SenderState] /\ server' \in [Mails -> ServerState]
    BY <1>18, HandleReportEffect DEF SenderMoves, ServerMoves
  <2>2. via' = via /\ silent' \subseteq silent \cup Mails /\ faults' \in {faults, faults + 1}
    BY <1>18 DEF HandleReport, Fault
  <2>3. RowsOK
    BY TypeParts
  <2>4. RowsOK'
    BY <1>18, <2>2, <2>3, HandleReportEffect, MailFacts DEF RowsOK, ReportedStatus
  <2> QED
    BY <2>1, <2>4 DEF TypeOK, RowsOK
<1>19. ASSUME NEW x \in Mails, HelloFails(x) PROVE TypeOK'
  <2>1. sender' \in [Mails -> SenderState] /\ server' \in [Mails -> ServerState]
    BY <1>19, HelloFailsEffect DEF SenderMoves, ServerMoves
  <2>2. via' = via /\ silent' \subseteq silent \cup Mails /\ faults' \in {faults, faults + 1}
    BY <1>19 DEF HelloFails, Fault
  <2>3. RowsOK
    BY TypeParts
  <2>4. RowsOK'
    BY <1>19, <2>2, <2>3, HelloFailsEffect DEF RowsOK
  <2> QED
    BY <2>1, <2>4 DEF TypeOK, RowsOK
<1>20. ASSUME NEW x \in Mails, Breaks(x) PROVE TypeOK'
  <2>1. sender' \in [Mails -> SenderState] /\ server' \in [Mails -> ServerState]
    BY <1>20, BreaksEffect DEF SenderMoves, ServerMoves
  <2>2. via' = via /\ silent' \subseteq silent \cup Mails /\ faults' \in {faults, faults + 1}
    BY <1>20 DEF Breaks, Fault
  <2>3. RowsOK
    BY TypeParts
  <2>4. UNCHANGED <<status, stored, payload, told, heard>> /\ causes' \subseteq Msgs
    BY <1>20, <2>3, BreaksEffect, MailFacts DEF Blames, RowsOK
  <2>5. RowsOK'
    BY <2>2, <2>3, <2>4 DEF RowsOK
  <2> QED
    BY <2>1, <2>5 DEF TypeOK, RowsOK
<1>21. ASSUME NEW x \in Mails, ServiceCloses(x) PROVE TypeOK'
  <2>1. sender' \in [Mails -> SenderState] /\ server' \in [Mails -> ServerState]
    BY <1>21, ServiceClosesEffect DEF SenderMoves, ServerMoves
  <2>2. via' = via /\ silent' \subseteq silent \cup Mails /\ faults' \in {faults, faults + 1}
    BY <1>21 DEF ServiceCloses, Fault
  <2>3. RowsOK
    BY TypeParts
  <2>4. UNCHANGED <<status, stored, payload, told, heard>> /\ causes' \subseteq Msgs
    BY <1>21, <2>3, ServiceClosesEffect, MailFacts DEF Blames, RowsOK
  <2>5. RowsOK'
    BY <2>2, <2>3, <2>4 DEF RowsOK
  <2> QED
    BY <2>1, <2>5 DEF TypeOK, RowsOK
<1>22. ASSUME NEW x \in Mails, GoesSilent(x) PROVE TypeOK'
  <2>1. sender' \in [Mails -> SenderState] /\ server' \in [Mails -> ServerState]
    BY <1>22, GoesSilentEffect DEF SenderMoves, ServerMoves
  <2>2. via' = via /\ silent' \subseteq silent \cup Mails /\ faults' \in {faults, faults + 1}
    BY <1>22 DEF GoesSilent, Fault
  <2>3. RowsOK
    BY TypeParts
  <2>4. RowsOK'
    BY <1>22, <2>2, <2>3, GoesSilentEffect DEF RowsOK
  <2> QED
    BY <2>1, <2>4 DEF TypeOK, RowsOK
<1>23. ASSUME NEW x \in Mails, Refuses(x) PROVE TypeOK'
  <2>1. sender' \in [Mails -> SenderState] /\ server' \in [Mails -> ServerState]
    BY <1>23, RefusesEffect DEF SenderMoves, ServerMoves
  <2>2. via' = via /\ silent' \subseteq silent \cup Mails /\ faults' \in {faults, faults + 1}
    BY <1>23 DEF Refuses, Fault
  <2>3. RowsOK
    BY TypeParts
  <2>4. RowsOK'
    BY <1>23, <2>2, <2>3, RefusesEffect, MailFacts DEF RowsOK
  <2> QED
    BY <2>1, <2>4 DEF TypeOK, RowsOK
<1>24. ASSUME NEW x \in Mails, DispatchFails(x) PROVE TypeOK'
  <2>1. sender' \in [Mails -> SenderState] /\ server' \in [Mails -> ServerState]
    BY <1>24, DispatchFailsEffect DEF SenderMoves, ServerMoves
  <2>2. via' = via /\ silent' \subseteq silent \cup Mails /\ faults' \in {faults, faults + 1}
    BY <1>24 DEF DispatchFails, Fault
  <2>3. RowsOK
    BY TypeParts
  <2>4. RowsOK'
    BY <1>24, <2>2, <2>3, DispatchFailsEffect, MailFacts DEF RowsOK
  <2> QED
    BY <2>1, <2>4 DEF TypeOK, RowsOK
<1>25. ASSUME NEW m \in Msgs, RelayMessage(m) PROVE TypeOK'
  <2>1. sender' \in [Mails -> SenderState] /\ server' \in [Mails -> ServerState]
    BY <1>25, RelayMessageEffect DEF SenderMoves, ServerMoves
  <2>2. via' = via /\ silent' \subseteq silent \cup Mails /\ faults' \in {faults, faults + 1}
    BY <1>25 DEF RelayMessage, Fault
  <2>3. RowsOK
    BY TypeParts
  <2>4. RowsOK'
    BY <1>25, <2>2, <2>3, RelayMessageEffect DEF RowsOK
  <2> QED
    BY <2>1, <2>4 DEF TypeOK, RowsOK
<1>26. ASSUME NEW m \in Msgs, MarkUnreachable(m) PROVE TypeOK'
  <2>1. sender' \in [Mails -> SenderState] /\ server' \in [Mails -> ServerState]
    BY <1>26, MarkUnreachableEffect DEF SenderMoves, ServerMoves
  <2>2. via' = via /\ silent' \subseteq silent \cup Mails /\ faults' \in {faults, faults + 1}
    BY <1>26 DEF MarkUnreachable, Fault
  <2>3. RowsOK
    BY TypeParts
  <2>4. RowsOK'
    BY <1>26, <2>2, <2>3, MarkUnreachableEffect DEF RowsOK
  <2> QED
    BY <2>1, <2>4 DEF TypeOK, RowsOK
<1>27. ASSUME NEW m \in Msgs, SendReadReply(m) PROVE TypeOK'
  <2>1. sender' \in [Mails -> SenderState] /\ server' \in [Mails -> ServerState]
    BY <1>27, SendReadReplyEffect DEF SenderMoves, ServerMoves
  <2>2. via' = via /\ silent' \subseteq silent \cup Mails /\ faults' \in {faults, faults + 1}
    BY <1>27 DEF SendReadReply, Fault
  <2>3. RowsOK
    BY TypeParts
  <2>4. RowsOK'
    BY <1>27, <2>2, <2>3, SendReadReplyEffect DEF RowsOK
  <2> QED
    BY <2>1, <2>4 DEF TypeOK, RowsOK
<1>28. ASSUME NEW m \in Msgs, NEW st \in Outcomes, SendDeliveryReport(m, st) PROVE TypeOK'
  <2>1. sender' \in [Mails -> SenderState] /\ server' \in [Mails -> ServerState]
    BY <1>28, SendDeliveryReportEffect DEF SenderMoves, ServerMoves
  <2>2. via' = via /\ silent' \subseteq silent \cup Mails /\ faults' \in {faults, faults + 1}
    BY <1>28 DEF SendDeliveryReport, Fault
  <2>3. RowsOK
    BY TypeParts
  <2>4. RowsOK'
    BY <1>28, <2>2, <2>3, SendDeliveryReportEffect DEF RowsOK
  <2> QED
    BY <2>1, <2>4 DEF TypeOK, RowsOK
<1>29. ASSUME UNCHANGED vars PROVE TypeOK'
  BY <1>29 DEF vars, peer, history, TypeOK
<1> QED
  BY <1>1, <1>2, <1>3, <1>4, <1>5, <1>6, <1>7, <1>8, <1>9, <1>10,
     <1>11, <1>12, <1>13, <1>14, <1>15, <1>16, <1>17, <1>18, <1>19, <1>20,
     <1>21, <1>22, <1>23, <1>24, <1>25, <1>26, <1>27, <1>28, <1>29
     DEF Next, SenderStep, ServerStep, Faults

----------------------------------------------------------------------------
(* What the originator's MMSC says of a message *)

(* Every status it reports has a status of the report it was sent. *)
LEMMA ReportFacts ==
    ASSUME NEW x \in Mails, Told(x), sender[x].pc # "idle", x.type \in {"report", "read"}
    PROVE  /\ ReportedStatus(x.says) \in {"Delivered", "Rejected"}
           /\ ReportedStatus(x.says) = "Rejected" => "Rejected" \in told[x.msg]
           /\ ReportedStatus(x.says) = "Delivered" => told[x.msg] \ {"Rejected"} # {}
<1>1. CASE x.type = "report"
  <2>1. PICK st \in told[x.msg] : x = Report(x.msg, st)
    BY <1>1 DEF Told
  <2>2. x.says = mm4StatusForMessage(st)
    BY <2>1 DEF Report
  <2>3. x.says = "Rejected" <=> st = "Rejected"
    BY <2>2 DEF mm4StatusForMessage
  <2> QED
    BY <2>1, <2>3 DEF ReportedStatus
<1>2. CASE x.type = "read"
  <2>1. x.says = "Read"
    BY <1>2, MailFacts DEF ReadReply
  <2> QED
    BY <1>2, <2>1 DEF ReportedStatus, Told
<1> QED
  BY <1>1, <1>2

(* A verdict is one of the peer's. *)
LEMMA VerdictStep ==
    ASSUME TypeOK, MailInv, VerdictIsTold, [Next]_vars
    PROVE  VerdictIsTold'
<1>1. ASSUME NEW x \in Mails, Dial(x) PROVE VerdictIsTold'
  BY <1>1, DialEffect DEF VerdictIsTold, TypeOK
<1>2. ASSUME NEW x \in Mails, DialFails(x) PROVE VerdictIsTold'
  BY <1>2, DialFailsEffect DEF VerdictIsTold, TypeOK
<1>3. ASSUME NEW x \in Mails, Sleep(x) PROVE VerdictIsTold'
  BY <1>3, SleepEffect DEF VerdictIsTold, TypeOK
<1>4. ASSUME NEW x \in Mails, Hello(x) PROVE VerdictIsTold'
  BY <1>4, HelloEffect DEF VerdictIsTold, TypeOK
<1>5. ASSUME NEW x \in Mails, Mail(x) PROVE VerdictIsTold'
  BY <1>5, MailEffect DEF VerdictIsTold, TypeOK
<1>6. ASSUME NEW x \in Mails, Rcpt(x) PROVE VerdictIsTold'
  BY <1>6, RcptEffect DEF VerdictIsTold, TypeOK
<1>7. ASSUME NEW x \in Mails, Data(x) PROVE VerdictIsTold'
  BY <1>7, DataEffect DEF VerdictIsTold, TypeOK
<1>8. ASSUME NEW x \in Mails, Body(x) PROVE VerdictIsTold'
  BY <1>8, BodyEffect DEF VerdictIsTold, TypeOK
<1>9. ASSUME NEW x \in Mails, Reply(x) PROVE VerdictIsTold'
  BY <1>9, ReplyEffect DEF VerdictIsTold, TypeOK
<1>10. ASSUME NEW x \in Mails, Quit(x) PROVE VerdictIsTold'
  BY <1>10, QuitEffect DEF VerdictIsTold, TypeOK
<1>11. ASSUME NEW x \in Mails, Accept(x) PROVE VerdictIsTold'
  BY <1>11, AcceptEffect DEF VerdictIsTold, TypeOK
<1>12. ASSUME NEW x \in Mails, Put(x) PROVE VerdictIsTold'
  BY <1>12, PutEffect DEF VerdictIsTold, TypeOK
<1>13. ASSUME NEW x \in Mails, CreateMessage(x) PROVE VerdictIsTold'
  BY <1>13, CreateMessageEffect DEF VerdictIsTold, TypeOK
<1>14. ASSUME NEW x \in Mails, SendForwardResponse(x) PROVE VerdictIsTold'
  BY <1>14, SendForwardResponseEffect DEF VerdictIsTold, TypeOK
<1>15. ASSUME NEW x \in Mails, ResponseEnds(x) PROVE VerdictIsTold'
  BY <1>15, ResponseEndsEffect DEF VerdictIsTold, TypeOK
<1>16. ASSUME NEW x \in Mails, DispatchLocalNotification(x) PROVE VerdictIsTold'
  BY <1>16, DispatchLocalNotificationEffect DEF VerdictIsTold, TypeOK
<1>17. ASSUME NEW x \in Mails, HandleResponse(x) PROVE VerdictIsTold'
  BY <1>17, HandleResponseEffect DEF VerdictIsTold, TypeOK
<1>18. ASSUME NEW x \in Mails, HandleReport(x) PROVE VerdictIsTold'
  <2>1. Told(x) /\ sender[x].pc # "idle" /\ x.type \in {"report", "read"} /\ x.msg \in Msgs
    BY <1>18, HandleReportEffect, MailFacts DEF MailInv, Serves
  <2>2. PICK v : v = ReportedStatus(x.says)
    OBVIOUS
  <2>3. status' = [status EXCEPT ![x.msg] = v] /\ UNCHANGED told
    BY <1>18, <2>2, HandleReportEffect
  <2>4. /\ v = "Rejected" => "Rejected" \in told[x.msg]
        /\ v = "Delivered" => told[x.msg] \ {"Rejected"} # {}
    BY <2>1, <2>2, ReportFacts
  <2>5. status \in [Msgs -> {"none", "Forwarded", "Delivered", "Rejected", "Unreachable"}]
    BY DEF TypeOK
  <2> QED
    BY <2>1, <2>3, <2>4, <2>5 DEF VerdictIsTold
<1>19. ASSUME NEW x \in Mails, HelloFails(x) PROVE VerdictIsTold'
  BY <1>19, HelloFailsEffect DEF VerdictIsTold, TypeOK
<1>20. ASSUME NEW x \in Mails, Breaks(x) PROVE VerdictIsTold'
  BY <1>20, BreaksEffect DEF VerdictIsTold, TypeOK
<1>21. ASSUME NEW x \in Mails, ServiceCloses(x) PROVE VerdictIsTold'
  BY <1>21, ServiceClosesEffect DEF VerdictIsTold, TypeOK
<1>22. ASSUME NEW x \in Mails, GoesSilent(x) PROVE VerdictIsTold'
  BY <1>22, GoesSilentEffect DEF VerdictIsTold, TypeOK
<1>23. ASSUME NEW x \in Mails, Refuses(x) PROVE VerdictIsTold'
  BY <1>23, RefusesEffect DEF VerdictIsTold, TypeOK
<1>24. ASSUME NEW x \in Mails, DispatchFails(x) PROVE VerdictIsTold'
  BY <1>24, DispatchFailsEffect DEF VerdictIsTold, TypeOK
<1>25. ASSUME NEW m \in Msgs, RelayMessage(m) PROVE VerdictIsTold'
  BY <1>25, RelayMessageEffect DEF VerdictIsTold, TypeOK
<1>26. ASSUME NEW m \in Msgs, MarkUnreachable(m) PROVE VerdictIsTold'
  BY <1>26, MarkUnreachableEffect DEF VerdictIsTold, TypeOK
<1>27. ASSUME NEW m \in Msgs, SendReadReply(m) PROVE VerdictIsTold'
  BY <1>27, SendReadReplyEffect DEF VerdictIsTold, TypeOK
<1>28. ASSUME NEW m \in Msgs, NEW st \in Outcomes, SendDeliveryReport(m, st)
       PROVE  VerdictIsTold'
  BY <1>28, SendDeliveryReportEffect DEF VerdictIsTold, TypeOK
<1>29. ASSUME UNCHANGED vars PROVE VerdictIsTold'
  BY <1>29 DEF vars, history, VerdictIsTold
<1> QED
  BY <1>1, <1>2, <1>3, <1>4, <1>5, <1>6, <1>7, <1>8, <1>9, <1>10,
     <1>11, <1>12, <1>13, <1>14, <1>15, <1>16, <1>17, <1>18, <1>19, <1>20,
     <1>21, <1>22, <1>23, <1>24, <1>25, <1>26, <1>27, <1>28, <1>29
     DEF Next, SenderStep, ServerStep, Faults

(* What was reported is not undone. *)
LEMMA KeptStep ==
    ASSUME TypeOK, MailInv, StoredInv, KnowledgeInv, ReportIsKept, [Next]_vars
    PROVE  ReportIsKept'
<1>1. ASSUME NEW x \in Mails, Dial(x) PROVE ReportIsKept'
  BY <1>1, DialEffect DEF ReportIsKept, TypeOK
<1>2. ASSUME NEW x \in Mails, DialFails(x) PROVE ReportIsKept'
  BY <1>2, DialFailsEffect DEF ReportIsKept, TypeOK
<1>3. ASSUME NEW x \in Mails, Sleep(x) PROVE ReportIsKept'
  BY <1>3, SleepEffect DEF ReportIsKept, TypeOK
<1>4. ASSUME NEW x \in Mails, Hello(x) PROVE ReportIsKept'
  BY <1>4, HelloEffect DEF ReportIsKept, TypeOK
<1>5. ASSUME NEW x \in Mails, Mail(x) PROVE ReportIsKept'
  BY <1>5, MailEffect DEF ReportIsKept, TypeOK
<1>6. ASSUME NEW x \in Mails, Rcpt(x) PROVE ReportIsKept'
  BY <1>6, RcptEffect DEF ReportIsKept, TypeOK
<1>7. ASSUME NEW x \in Mails, Data(x) PROVE ReportIsKept'
  BY <1>7, DataEffect DEF ReportIsKept, TypeOK
<1>8. ASSUME NEW x \in Mails, Body(x) PROVE ReportIsKept'
  BY <1>8, BodyEffect DEF ReportIsKept, TypeOK
<1>9. ASSUME NEW x \in Mails, Reply(x) PROVE ReportIsKept'
  BY <1>9, ReplyEffect DEF ReportIsKept, TypeOK
<1>10. ASSUME NEW x \in Mails, Quit(x) PROVE ReportIsKept'
  BY <1>10, QuitEffect DEF ReportIsKept, TypeOK
<1>11. ASSUME NEW x \in Mails, Accept(x) PROVE ReportIsKept'
  BY <1>11, AcceptEffect DEF ReportIsKept, TypeOK
<1>12. ASSUME NEW x \in Mails, Put(x) PROVE ReportIsKept'
  BY <1>12, PutEffect DEF ReportIsKept, TypeOK
<1>13. ASSUME NEW x \in Mails, CreateMessage(x) PROVE ReportIsKept'
  BY <1>13, CreateMessageEffect DEF ReportIsKept, TypeOK
<1>14. ASSUME NEW x \in Mails, SendForwardResponse(x) PROVE ReportIsKept'
  BY <1>14, SendForwardResponseEffect DEF ReportIsKept, TypeOK
<1>15. ASSUME NEW x \in Mails, ResponseEnds(x) PROVE ReportIsKept'
  BY <1>15, ResponseEndsEffect DEF ReportIsKept, TypeOK
<1>16. ASSUME NEW x \in Mails, DispatchLocalNotification(x) PROVE ReportIsKept'
  BY <1>16, DispatchLocalNotificationEffect DEF ReportIsKept, TypeOK
<1>17. ASSUME NEW x \in Mails, HandleResponse(x) PROVE ReportIsKept'
  BY <1>17, HandleResponseEffect DEF ReportIsKept, TypeOK
<1>18. ASSUME NEW x \in Mails, HandleReport(x) PROVE ReportIsKept'
  <2>1. Told(x) /\ sender[x].pc # "idle" /\ x.type \in {"report", "read"} /\ x.msg \in Msgs
    BY <1>18, HandleReportEffect, MailFacts DEF MailInv, Serves
  <2>2. ReportedStatus(x.says) \in {"Delivered", "Rejected"}
    BY <2>1, ReportFacts
  <2> QED
    BY <1>18, <2>1, <2>2, HandleReportEffect DEF ReportIsKept, TypeOK
<1>19. ASSUME NEW x \in Mails, HelloFails(x) PROVE ReportIsKept'
  BY <1>19, HelloFailsEffect DEF ReportIsKept, TypeOK
<1>20. ASSUME NEW x \in Mails, Breaks(x) PROVE ReportIsKept'
  BY <1>20, BreaksEffect DEF ReportIsKept, TypeOK
<1>21. ASSUME NEW x \in Mails, ServiceCloses(x) PROVE ReportIsKept'
  BY <1>21, ServiceClosesEffect DEF ReportIsKept, TypeOK
<1>22. ASSUME NEW x \in Mails, GoesSilent(x) PROVE ReportIsKept'
  BY <1>22, GoesSilentEffect DEF ReportIsKept, TypeOK
<1>23. ASSUME NEW x \in Mails, Refuses(x) PROVE ReportIsKept'
  BY <1>23, RefusesEffect DEF ReportIsKept, TypeOK
<1>24. ASSUME NEW x \in Mails, DispatchFails(x) PROVE ReportIsKept'
  BY <1>24, DispatchFailsEffect DEF ReportIsKept, TypeOK
<1>25. ASSUME NEW m \in Msgs, RelayMessage(m) PROVE ReportIsKept'
  BY <1>25, RelayMessageEffect DEF ReportIsKept, TypeOK
<1>26. ASSUME NEW m \in Msgs, MarkUnreachable(m) PROVE ReportIsKept'
  <2>1. m \in heard => m \in causes
    BY <1>26, MarkUnreachableEffect DEF StoredInv, Stored, KnowledgeInv, Informed, Knows
  <2> QED
    BY <1>26, <2>1, MarkUnreachableEffect DEF ReportIsKept, TypeOK
<1>27. ASSUME NEW m \in Msgs, SendReadReply(m) PROVE ReportIsKept'
  BY <1>27, SendReadReplyEffect DEF ReportIsKept, TypeOK
<1>28. ASSUME NEW m \in Msgs, NEW st \in Outcomes, SendDeliveryReport(m, st) PROVE ReportIsKept'
  BY <1>28, SendDeliveryReportEffect DEF ReportIsKept, TypeOK
<1>29. ASSUME UNCHANGED vars PROVE ReportIsKept'
  BY <1>29 DEF vars, history, ReportIsKept
<1> QED
  BY <1>1, <1>2, <1>3, <1>4, <1>5, <1>6, <1>7, <1>8, <1>9, <1>10,
     <1>11, <1>12, <1>13, <1>14, <1>15, <1>16, <1>17, <1>18, <1>19, <1>20,
     <1>21, <1>22, <1>23, <1>24, <1>25, <1>26, <1>27, <1>28, <1>29
     DEF Next, SenderStep, ServerStep, Faults

----------------------------------------------------------------------------
(* The theorems *)

RelayInv == TypeOK /\ MailInv /\ StoredInv /\ StatusInv /\ KnowledgeInv /\ VerdictIsTold /\ ReportIsKept

LEMMA RelayInvInit == Init => RelayInv
<1> SUFFICES ASSUME Init PROVE RelayInv
  OBVIOUS
<1>1. /\ \A x \in Mails : sender[x] = [pc |-> "idle", attempt |-> 0] /\ server[x] = NoServer
      /\ DOMAIN stored = {} /\ heard = {} /\ causes = {}
      /\ \A m \in Msgs : status[m] = "none" /\ told[m] = {}
  BY DEF Init
<1>2. \A x \in Mails : sender[x].pc = "idle" /\ server[x].pc = "none"
  BY <1>1, ServerStates
<1>3. TypeOK
  <2>1. [pc |-> "idle", attempt |-> 0] \in SenderState
    BY RelayConstants DEF SenderState
  <2>2. sender \in [Mails -> SenderState] /\ server \in [Mails -> ServerState]
    BY <2>1, ServerStates DEF Init
  <2>3. RowsOK
    BY DEF Init, RowsOK
  <2> QED
    BY <2>2, <2>3, TypeParts
<1>4. MailInv
  BY <1>2, Zenon DEF MailInv, Talks, Serves, Told
<1>5. StoredInv /\ StatusInv /\ KnowledgeInv
  BY <1>1, <1>2, MailFacts
     DEF StoredInv, Stored, StatusInv, Status, KnowledgeInv, Informed, Knows
<1>6. VerdictIsTold /\ ReportIsKept
  BY <1>1 DEF VerdictIsTold, ReportIsKept
<1> QED
  BY <1>3, <1>4, <1>5, <1>6 DEF RelayInv

(* The invariant is inductive. *)
LEMMA RelayInvariant == Spec => []RelayInv
<1>1. RelayInv /\ [Next]_vars => RelayInv'
  BY TypeStep, MailStep, StoredStep, StatusStep, KnowledgeStep, VerdictStep, KeptStep
     DEF RelayInv
<1> QED
  BY <1>1, RelayInvInit, PTL DEF Spec

(* The senders, the sessions, the rows and the payloads of the two MMSCs   *)
(* have their types; a row at the peer has its payload, which is written   *)
(* first (handleDATA).                                                     *)
THEOREM RelayTypes == Spec => []TypeOK
  BY RelayInvariant, PTL DEF RelayInv

(* A message whose send succeeded is at the peer for all its recipients,   *)
(* whatever failed before: the server answers 250 only after CreateMessage,*)
(* and the sender names every recipient in every attempt.                  *)
THEOREM SentMessageIsStored == Spec => []SentIsStored
<1>1. RelayInv => SentIsStored
  BY DEF RelayInv, StoredInv, Stored, SentIsStored
<1> QED
  BY <1>1, RelayInvariant, PTL

(* A message marked Unreachable is not at the peer, unless the connection  *)
(* failed after the text or the peer could not notify what it had stored.  *)
THEOREM UnreachableMessageIsNotStored == Spec => []UnreachableIsNotStored
<1>1. RelayInv => UnreachableIsNotStored
  BY DEF RelayInv, StatusInv, Status, KnowledgeInv, Informed, Knows, UnreachableIsNotStored
<1> QED
  BY <1>1, RelayInvariant, PTL

(* A rejection at the originator's MMSC is one the peer reported, and so   *)
(* is a delivery (mm4StatusForMessage and handleDeliveryReport).           *)
THEOREM RelayedVerdictIsTold == Spec => []VerdictIsTold
  BY RelayInvariant, PTL DEF RelayInv

(* No late response, other report or end of a send takes a reported status *)
(* away, but for the failures above.                                       *)
THEOREM RelayedReportIsKept == Spec => []ReportIsKept
  BY RelayInvariant, PTL DEF RelayInv
=============================================================================
