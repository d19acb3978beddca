---------------------------- MODULE SMPPSession ----------------------------
(***************************************************************************)
(* One SMPP session with its client: Connect, Request and Close of         *)
(* session.go, the write loop of conn.go, a read loop per connection, and  *)
(* the run loop of client.go that keeps the session bound.                 *)
(*                                                                         *)
(* Calls are the goroutines that use the session: one per submit_sm and    *)
(* one per round of the run loop (a ping).  One step is one critical       *)
(* section of Session.mu, one channel operation or one network operation.  *)
(* s.done is made and taken together with s.conn, so it goes by the number *)
(* of its connection; the channel of a request goes by its call.           *)
(***************************************************************************)
EXTENDS Naturals, FiniteSets

CONSTANTS
    Submits, Pings,  \* submit_sm requests; rounds of the run loop
    NoCall,
    MaxConns,        \* bound: connections dialled
    MaxUnbinds       \* bound: unbinds of the SMSC

VARIABLES
    state, conn,     \* Session.state and Session.conn
    pending,         \* Session.pending: whose channel waits for a sequence number
    call,            \* the calls, each with the connection and number it uses
    chan,            \* the channel of each request
    link,            \* the connections, by number
    reader,          \* the read loop of each connection
    closer,          \* the Session.Close calls in progress
    loop,            \* the run loop of the client
    unbinds,         \* unbinds so far
    overlap          \* history: two Connects have dialled at once

session == <<state, conn, pending>>
goroutines == <<call, reader, closer, loop>>
vars == <<session, goroutines, chan, link, unbinds, overlap>>

Calls == Submits \cup Pings
Conns == 1 .. MaxConns
NoConn == 0
Seqs == 1 .. Cardinality(Calls) + 1     \* the bind takes 1, each call one more

SessionState == {"Disconnected", "Connecting", "Bound"}
\* Close is called by the read loop of a connection, by the goroutine that
\* answers an unbind on it, and by the client itself (run loop, Client.Close).
Client == <<"client", NoConn>>
Closers == ({"read", "unbind"} \X Conns) \cup {Client}

ASSUME SessionConstants ==
    /\ IsFiniteSet(Calls) /\ Submits \cap Pings = {} /\ NoCall \notin Calls
    /\ MaxConns \in Nat /\ MaxUnbinds \in Nat

CallState == [pc : {"idle", "connect", "dial", "get", "register", "write", "wait", "ended"},
              at : 0 .. 2,                  \* which of its Connects a call is in
              from : Conns \cup {NoConn},   \* the connection its number is from
              seq : Seqs \cup {0},
              on : Conns \cup {NoConn},     \* the connection it writes to
              got : Calls \cup {NoCall}]    \* whose answer it returned
ChannelState == [state : {"open", "answered", "closed"}, for : Calls \cup {NoCall}]
Link == [used : BOOLEAN, up : BOOLEAN, closed : BOOLEAN, done : BOOLEAN,
         writer : BOOLEAN, next : 1 .. Cardinality(Calls) + 2, sent : SUBSET Calls]
ReaderState == [pc : {"none", "read", "deliver", "gone"},
                hand : Calls \cup {NoCall}, for : Calls \cup {NoCall}]
CloserState == [pc : {"idle", "write", "lock", "finish"},
                conn : Conns \cup {NoConn}, chans : SUBSET Calls]

TypeOK ==
    /\ state \in SessionState
    /\ conn \in Conns \cup {NoConn}
    /\ pending \in [Seqs -> Calls \cup {NoCall}]
    /\ call \in [Calls -> CallState]
    /\ chan \in [Calls -> ChannelState]
    /\ link \in [Conns -> Link]
    /\ reader \in [Conns -> ReaderState]
    /\ closer \in [Closers -> CloserState]
    /\ loop \in {"running", "closed"}
    /\ unbinds \in Nat /\ overlap \in BOOLEAN

NoPending == [s \in Seqs |-> NoCall]
IdleCloser == [pc |-> "idle", conn |-> NoConn, chans |-> {}]
FreshLink == [used |-> FALSE, up |-> FALSE, closed |-> FALSE, done |-> FALSE,
              writer |-> FALSE, next |-> 2, sent |-> {}]

Init ==
    /\ state = "Disconnected" /\ conn = NoConn /\ pending = NoPending
    /\ call = [q \in Calls |-> [pc |-> "idle", at |-> 0, from |-> NoConn, seq |-> 0,
                                on |-> NoConn, got |-> NoCall]]
    /\ chan = [q \in Calls |-> [state |-> "open", for |-> NoCall]]
    /\ link = [c \in Conns |-> FreshLink]
    /\ reader = [c \in Conns |-> [pc |-> "none", hand |-> NoCall, for |-> NoCall]]
    /\ closer = [k \in Closers |-> IdleCloser]
    /\ loop = "running" /\ unbinds = 0 /\ overlap = FALSE

Move(q, pc) == call' = [call EXCEPT ![q].pc = pc]
Active(q) == call[q].pc \notin {"idle", "ended"}
Close(k) == [closer EXCEPT ![k].pc = "lock"]

\* A round that failed after its first Connect closes the session before the next.
CloseAfter(q, at) == IF q \in Pings /\ at > 0 THEN closer' = Close(Client)
                                              ELSE UNCHANGED closer

----------------------------------------------------------------------------
(* Calls *)

\* A submit enters WithConn.
StartSubmit(q) ==
    /\ q \in Submits /\ call[q].pc = "idle"
    /\ call' = [call EXCEPT ![q].pc = "connect", ![q].at = 1]
    /\ UNCHANGED <<session, chan, link, reader, closer, loop, unbinds, overlap>>

\* A round of the run loop: Connect, then EnquireLink.
StartPing(q) ==
    /\ q \in Pings /\ call[q].pc = "idle"
    /\ loop = "running"
    /\ \A p \in Pings : ~Active(p)
    /\ closer[Client].pc = "idle"
    /\ Move(q, "connect")
    /\ UNCHANGED <<session, chan, link, reader, closer, loop, unbinds, overlap>>

\* Where a call goes on when Connect has returned nil.
AfterConnect(q) ==
    CASE call[q].at = 0 -> [call[q] EXCEPT !.pc = "connect", !.at = 1]
      [] call[q].at = 1 -> [call[q] EXCEPT !.pc = "get"]
      [] call[q].at = 2 -> [call[q] EXCEPT !.pc = "register"]

\* Mutant: Connect dials without looking.
NeverBound == FALSE

AlreadyBound == state = "Bound" /\ conn # NoConn

ConnectBound(q) ==
    /\ call[q].pc = "connect" /\ AlreadyBound
    /\ call' = [call EXCEPT ![q] = AfterConnect(q)]
    /\ UNCHANGED <<session, chan, link, reader, closer, loop, unbinds, overlap>>

ConnectDials(q) ==
    /\ call[q].pc = "connect" /\ ~AlreadyBound
    /\ state' = "Connecting"
    /\ overlap' = (overlap \/ \E p \in Calls \ {q} : call[p].pc = "dial")
    /\ Move(q, "dial")
    /\ UNCHANGED <<conn, pending, chan, link, reader, closer, loop, unbinds>>

\* The dial or the bind failed; the state is overwritten whatever it is by now.
DialFails(q) ==
    /\ call[q].pc = "dial"
    /\ state' = "Disconnected"
    /\ Move(q, "ended")
    /\ CloseAfter(q, call[q].at)
    /\ UNCHANGED <<conn, pending, chan, link, reader, loop, unbinds, overlap>>

\* Dialled and bound: the connection replaces whatever connection there is.
DialSucceeds(q) ==
    /\ call[q].pc = "dial"
    /\ \E c \in Conns :
        /\ ~link[c].used /\ \A d \in 1 .. c - 1 : link[d].used
        /\ conn' = c
        /\ link' = [link EXCEPT ![c] = [FreshLink EXCEPT !.used = TRUE, !.up = TRUE,
                                                         !.writer = TRUE]]
        /\ reader' = [reader EXCEPT ![c].pc = "read"]
    /\ state' = "Bound"
    /\ call' = [call EXCEPT ![q] = AfterConnect(q)]
    /\ UNCHANGED <<pending, chan, closer, loop, unbinds, overlap>>

\* Mutant: the sequence number is read and not incremented.
SameSeq(c) == link

NextSeq(c) == [link EXCEPT ![c].next = @ + 1]

\* WithConn reads s.conn; the request takes its number from that connection.
GetConn(q) ==
    /\ call[q].pc = "get" /\ conn # NoConn
    /\ call' = [call EXCEPT ![q].pc = "connect", ![q].at = 2,
                            ![q].from = conn, ![q].seq = link[conn].next]
    /\ link' = NextSeq(conn)
    /\ UNCHANGED <<session, chan, reader, closer, loop, unbinds, overlap>>

NoActiveConnection(q) ==
    /\ call[q].pc \in {"get", "register"} /\ conn = NoConn
    /\ Move(q, "ended")
    /\ CloseAfter(q, 1)
    /\ UNCHANGED <<session, chan, link, reader, loop, unbinds, overlap>>

\* Request registers its channel, over another one of that number if there is one.
Register(q) ==
    /\ call[q].pc = "register" /\ conn # NoConn
    /\ pending' = [pending EXCEPT ![call[q].seq] = q]
    /\ call' = [call EXCEPT ![q].pc = "write", ![q].on = conn]
    /\ UNCHANGED <<state, conn, chan, link, reader, closer, loop, unbinds, overlap>>

\* The entry is deleted by number, whosever it is by now.
UnregisterPending(q) == [pending EXCEPT ![call[q].seq] = NoCall]

EndWithError(q) ==
    /\ pending' = UnregisterPending(q)
    /\ Move(q, "ended")
    /\ CloseAfter(q, 2)
    /\ UNCHANGED <<state, conn, chan, reader, loop, unbinds, overlap>>

\* WritePDU hands the request to the write loop; on a broken link it may still
\* succeed, and nobody will answer.
WriteSucceeds(q) ==
    LET c == call[q].on IN
    /\ call[q].pc = "write"
    /\ link[c].writer /\ ~link[c].closed
    /\ link' = IF link[c].up THEN [link EXCEPT ![c].sent = @ \cup {q}] ELSE link
    /\ Move(q, "wait")
    /\ UNCHANGED <<session, chan, reader, closer, loop, unbinds, overlap>>

\* The write loop ends with the first error, and leaves c.closed open.  A later
\* WritePDU blocks until somebody closes the connection.
WriteFails(q) ==
    LET c == call[q].on IN
    /\ call[q].pc = "write"
    /\ \/ link[c].closed /\ UNCHANGED link
       \/ link[c].writer /\ ~link[c].up /\ link' = [link EXCEPT ![c].writer = FALSE]
    /\ EndWithError(q)

\* A response of another kind, or with an error status, fails the call.
Answered(q) ==
    /\ call[q].pc = "wait" /\ chan[q].state = "answered"
    /\ call' = [call EXCEPT ![q].pc = "ended", ![q].got = chan[q].for]
    /\ \E ok \in BOOLEAN : CloseAfter(q, IF ok /\ chan[q].for \in Pings THEN 0 ELSE 2)
    /\ UNCHANGED <<session, chan, link, reader, loop, unbinds, overlap>>

ChannelClosed(q) ==
    /\ call[q].pc = "wait" /\ chan[q].state = "closed"
    /\ Move(q, "ended")
    /\ CloseAfter(q, 2)
    /\ UNCHANGED <<session, chan, link, reader, loop, unbinds, overlap>>

DoneClosed(q) ==
    /\ call[q].pc = "wait" /\ link[call[q].on].done
    /\ EndWithError(q) /\ UNCHANGED link

\* The context ends: ten seconds for a ping, the caller's own for a submit.
ContextDone(q) ==
    /\ call[q].pc = "wait"
    /\ EndWithError(q) /\ UNCHANGED link

CallStep(q) ==
    \/ ConnectBound(q) \/ ConnectDials(q) \/ DialFails(q) \/ DialSucceeds(q)
    \/ GetConn(q) \/ NoActiveConnection(q) \/ Register(q)
    \/ WriteSucceeds(q) \/ WriteFails(q)
    \/ Answered(q) \/ ChannelClosed(q) \/ DoneClosed(q)

----------------------------------------------------------------------------
(* The read loop of a connection *)

\* Mutant: the answered entry stays in the map.
ReadAnswerKeepsEntry(c, p) ==
    /\ reader[c].pc = "read" /\ ~link[c].closed
    /\ p \in link[c].sent
    /\ link' = [link EXCEPT ![c].sent = @ \ {p}]
    /\ LET s == call[p].seq IN
       reader' = IF pending[s] = NoCall THEN reader
                 ELSE [reader EXCEPT ![c] = [pc |-> "deliver", hand |-> pending[s], for |-> p]]
    /\ UNCHANGED <<session, call, chan, closer, loop, unbinds, overlap>>

\* An answer to p carries p's number.  The loop looks it up and deletes the entry.
ReadAnswer(c, p) ==
    /\ reader[c].pc = "read" /\ ~link[c].closed
    /\ p \in link[c].sent
    /\ link' = [link EXCEPT ![c].sent = @ \ {p}]
    /\ LET s == call[p].seq IN
       /\ pending' = [pending EXCEPT ![s] = NoCall]
       /\ reader' = IF pending[s] = NoCall THEN reader
                    ELSE [reader EXCEPT ![c] = [pc |-> "deliver", hand |-> pending[s], for |-> p]]
    /\ UNCHANGED <<state, conn, call, chan, closer, loop, unbinds, overlap>>

\* The answer goes into the channel, which is then closed.
Deliver(c) ==
    LET q == reader[c].hand IN
    /\ reader[c].pc = "deliver"
    /\ chan' = [chan EXCEPT ![q] = [state |-> "answered", for |-> reader[c].for]]
    /\ reader' = [reader EXCEPT ![c] = [pc |-> "read", hand |-> NoCall, for |-> NoCall]]
    /\ UNCHANGED <<session, call, link, closer, loop, unbinds, overlap>>

\* A read error closes the session, with whatever connection it has by now.
ReadFails(c) ==
    /\ reader[c].pc = "read"
    /\ link[c].closed \/ ~link[c].up
    /\ reader' = [reader EXCEPT ![c].pc = "gone"]
    /\ closer' = Close(<<"read", c>>)
    /\ UNCHANGED <<session, call, chan, link, loop, unbinds, overlap>>

\* An unbind is answered in a goroutine, which then closes the session.
Unbind(c) ==
    /\ reader[c].pc = "read" /\ link[c].up /\ ~link[c].closed
    /\ unbinds < MaxUnbinds /\ closer[<<"unbind", c>>].pc = "idle"
    /\ unbinds' = unbinds + 1
    /\ closer' = [closer EXCEPT ![<<"unbind", c>>].pc = "write"]
    /\ UNCHANGED <<session, call, chan, link, reader, loop, overlap>>

UnbindAnswered(c) ==
    /\ closer[<<"unbind", c>>].pc = "write"
    /\ link[c].closed \/ link[c].writer
    /\ closer' = Close(<<"unbind", c>>)
    /\ UNCHANGED <<session, call, chan, link, reader, loop, unbinds, overlap>>

\* The SMSC or the network ends a connection.
LinkBreaks(c) ==
    /\ link[c].up
    /\ link' = [link EXCEPT ![c].up = FALSE]
    /\ UNCHANGED <<session, goroutines, chan, unbinds, overlap>>

----------------------------------------------------------------------------
(* Session.Close *)

Waiting == {pending[s] : s \in Seqs} \ {NoCall}

Take(k) ==
    closer' = [closer EXCEPT ![k] = IF conn = NoConn /\ Waiting = {} THEN IdleCloser
                ELSE [pc |-> "finish", conn |-> conn, chans |-> Waiting]]

\* Mutant: Close leaves no map behind.
CloseTakesMap(k) ==
    /\ closer[k].pc = "lock"
    /\ Take(k)
    /\ state' = "Disconnected" /\ conn' = NoConn /\ pending' = <<>>
    /\ UNCHANGED <<call, chan, link, reader, loop, unbinds, overlap>>

\* Mutant: Close leaves the connection in place.
CloseKeepsConn(k) ==
    /\ closer[k].pc = "lock"
    /\ Take(k)
    /\ state' = "Disconnected" /\ pending' = NoPending
    /\ UNCHANGED <<conn, call, chan, link, reader, loop, unbinds, overlap>>

CloseTakes(k) ==
    /\ closer[k].pc = "lock"
    /\ Take(k)
    /\ state' = "Disconnected" /\ conn' = NoConn /\ pending' = NoPending
    /\ UNCHANGED <<call, chan, link, reader, loop, unbinds, overlap>>

\* Conn.Close: c.closed, which ends the write loop, and the socket.
ClosedLink(l) == [l EXCEPT !.closed = TRUE, !.up = FALSE, !.writer = FALSE, !.sent = {}]

\* Mutant: Close closes the connection and forgets the callers.
CloseOnlyConn(k) ==
    LET c == closer[k].conn IN
    /\ closer[k].pc = "finish"
    /\ link' = IF c = NoConn THEN link
               ELSE [link EXCEPT ![c] = ClosedLink(@)]
    /\ closer' = [closer EXCEPT ![k] = IdleCloser]
    /\ UNCHANGED <<session, call, chan, reader, loop, unbinds, overlap>>

\* close(done), every channel that was waiting, and the connection.
CloseFinishes(k) ==
    LET c == closer[k].conn IN
    /\ closer[k].pc = "finish"
    /\ link' = IF c = NoConn THEN link
               ELSE [link EXCEPT ![c] = [ClosedLink(@) EXCEPT !.done = TRUE]]
    /\ chan' = [q \in Calls |-> IF q \in closer[k].chans THEN [chan[q] EXCEPT !.state = "closed"]
                                ELSE chan[q]]
    /\ closer' = [closer EXCEPT ![k] = IdleCloser]
    /\ UNCHANGED <<session, call, reader, loop, unbinds, overlap>>

CloserStep(k) == CloseTakes(k) \/ CloseFinishes(k)

\* Client.Close: cancel the run loop, wait until it has returned, close the session.
ClientClose ==
    /\ loop = "running"
    /\ \A p \in Pings : ~Active(p)
    /\ closer[Client].pc = "idle"
    /\ loop' = "closed"
    /\ closer' = Close(Client)
    /\ UNCHANGED <<session, call, chan, link, reader, unbinds, overlap>>

----------------------------------------------------------------------------
Next ==
    \/ \E q \in Calls : StartSubmit(q) \/ StartPing(q) \/ CallStep(q) \/ ContextDone(q)
    \/ \E c \in Conns : Deliver(c) \/ ReadFails(c) \/ Unbind(c) \/ UnbindAnswered(c) \/ LinkBreaks(c)
    \/ \E c \in Conns, p \in Calls : ReadAnswer(c, p)
    \/ \E k \in Closers : CloserStep(k)
    \/ ClientClose

Spec == Init /\ [][Next]_vars

\* Goroutines run, an SMSC answers what it received or the link breaks, and a
\* ping has a deadline.  Submits have none: their callers use context.Background
\* or the dispatcher's context.
Fairness ==
    /\ \A q \in Calls : WF_vars(CallStep(q))
    /\ \A q \in Pings : WF_vars(ContextDone(q))
    /\ \A c \in Conns : WF_vars(Deliver(c)) /\ WF_vars(ReadFails(c)) /\ WF_vars(UnbindAnswered(c))
    /\ \A c \in Conns, p \in Calls : WF_vars(ReadAnswer(c, p))
    /\ \A k \in Closers : WF_vars(CloserStep(k))

FairSpec == Spec /\ Fairness

----------------------------------------------------------------------------
(* Properties *)

\* The places a request's channel can be in: an entry of the pending map, a read
\* loop about to answer it, a Close about to close it.
Places(q) ==
    {<<"pending", s>> : s \in {s \in Seqs : pending[s] = q}}
        \cup {<<"reader", c>> : c \in {c \in Conns : reader[c].hand = q}}
        \cup {<<"closer", k>> : k \in {k \in Closers : q \in closer[k].chans}}

\* No channel is sent to or closed after it was closed, which would panic: a
\* channel is in one place at most, and in none once it was answered or closed
\* (Request, readLoop and Close in session.go).
ChannelHasOneHolder ==
    \A q \in Calls :
        /\ \A x, y \in Places(q) : x = y
        /\ chan[q].state # "open" => Places(q) = {}

\* A connection is closed once: Conn.Close would panic if two callers passed its
\* check together (conn.go), and so no two Closes may hold one connection, nor
\* one that is current or closed.
ConnHasOneCloser ==
    \A k \in Closers : closer[k].conn # NoConn =>
        /\ closer[k].conn # conn
        /\ ~link[closer[k].conn].closed
        /\ \A j \in Closers : closer[j].conn = closer[k].conn => j = k

\* A call gets the answer to another one only if their numbers are equal and come
\* from two connections: on one connection answers are never mixed up, late ones
\* included (the pending map is the session's, the numbers are a connection's).
MixUpNeedsTwoConnections ==
    \A q \in Calls : call[q].got \notin {NoCall, q} =>
        /\ call[call[q].got].seq = call[q].seq
        /\ call[call[q].got].from # call[q].from

Forgotten(c) ==
    /\ c \in Conns /\ link[c].used /\ ~link[c].closed
    /\ c # conn /\ \A k \in Closers : closer[k].conn # c

\* A bound connection that nothing refers to any more, and that is never closed,
\* is left behind only where two Connects dialled at once (session.go, Connect).
ForgottenNeedsOverlap == (\E c \in Conns : Forgotten(c)) => overlap

\* Another call registered its channel under the same number.
Robbed(q) == \E p \in Calls \ {q} : call[p].seq = call[q].seq /\ call[p].on # NoConn

\* A call ends: with its answer, an error, or the close of the session.  It may
\* hang only if another call took its entry of the pending map, or if its
\* connection was forgotten (Request, WritePDU).
CallsEnd ==
    \A q \in Calls : Active(q) ~> (~Active(q) \/ Robbed(q) \/ Forgotten(call[q].on))
=============================================================================
