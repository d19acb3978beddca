------------------------- MODULE SMPPSessionProofs -------------------------
(***************************************************************************)
(* Proofs about SMPPSession, for any number of submits, rounds of the run  *)
(* loop, connections and unbinds.                                          *)
(***************************************************************************)
EXTENDS SMPPSession, FiniteSetTheorems, TLAPS

(* The calls that took their number from a connection. *)
Numbered(c) == {q \in Calls : call[q].from = c}

(* A call gets its connection and its number together, in its second       *)
(* Connect, and needs them from then on.                                   *)
CallNumber(q) ==
    /\ call[q].at = 2 <=> call[q].from # NoConn
    /\ call[q].pc = "idle" => call[q].at = 0
    /\ call[q].pc = "get" => call[q].at = 1
    /\ call[q].pc \in {"register", "write", "wait"} => call[q].at = 2
    /\ call[q].at = 2 => call[q].seq \in Seqs
    /\ call[q].pc \in {"write", "wait"} => call[q].on # NoConn

(* A connection counts the numbers it gave, none of them twice.            *)
NumbersInv ==
    /\ conn # NoConn => link[conn].used
    /\ \A c \in Conns :
        /\ link[c].next = Cardinality(Numbered(c)) + 2
        /\ ~link[c].used => Numbered(c) = {}
        /\ \A p \in link[c].sent : call[p].at = 2
    /\ \A q \in Calls :
        /\ CallNumber(q)
        /\ call[q].from # NoConn => call[q].seq < link[call[q].from].next
    /\ \A p, q \in Calls :
        /\ call[p].from # NoConn /\ call[p].from = call[q].from /\ call[p].seq = call[q].seq
        => p = q

----------------------------------------------------------------------------
(* Constants and cases *)

(* The identities of connections, closers and calls do not meet. *)
LEMMA Constants ==
    /\ NoConn \notin Conns /\ 0 \notin Seqs
    /\ NoCall \notin Calls
    /\ Client \in Closers
    /\ \A c \in Conns :
        /\ <<"read", c>> \in Closers /\ <<"unbind", c>> \in Closers
        /\ <<"read", c>> # Client /\ <<"unbind", c>> # Client
    /\ \A c, d \in Conns : <<"read", c>> # <<"unbind", d>> /\ (<<"read", c>> = <<"read", d>> => c = d)
  BY SessionConstants DEF Conns, NoConn, Seqs, Closers, Client

(* There are finitely many calls, and so finitely many have numbers. *)
LEMMA CallsAreFinite ==
    /\ IsFiniteSet(Calls) /\ Cardinality(Calls) \in Nat
    /\ \A c : IsFiniteSet(Numbered(c)) /\ Cardinality(Numbered(c)) \in Nat
<1>1. IsFiniteSet(Calls) /\ Cardinality(Calls) \in Nat
  BY SessionConstants, FS_CardinalityType
<1>2. ASSUME NEW c PROVE IsFiniteSet(Numbered(c)) /\ Cardinality(Numbered(c)) \in Nat
  BY <1>1, FS_Subset, FS_CardinalityType DEF Numbered
<1> QED
  BY <1>1, <1>2

(* The steps of the specification, one by one. *)
LEMMA ActionCases ==
    ASSUME [Next]_vars
    PROVE  \/ \E q \in Calls :
                 \/ StartSubmit(q) \/ StartPing(q)
                 \/ ConnectBound(q) \/ ConnectDials(q) \/ DialFails(q) \/ DialSucceeds(q)
                 \/ GetConn(q) \/ NoActiveConnection(q) \/ Register(q)
                 \/ WriteSucceeds(q) \/ WriteFails(q)
                 \/ Answered(q) \/ ChannelClosed(q) \/ DoneClosed(q) \/ ContextDone(q)
           \/ \E c \in Conns :
                 \/ Deliver(c) \/ ReadFails(c) \/ Unbind(c) \/ UnbindAnswered(c) \/ LinkBreaks(c)
           \/ \E c \in Conns, p \in Calls : ReadAnswer(c, p)
           \/ \E k \in Closers : CloseTakes(k) \/ CloseFinishes(k)
           \/ ClientClose
           \/ UNCHANGED vars
  BY DEF Next, CallStep, CloserStep

----------------------------------------------------------------------------
(* Type correctness *)

CallPC == {"idle", "connect", "dial", "get", "register", "write", "wait", "ended"}

(* A call that moves on keeps the rest of its state. *)
LEMMA MoveType ==
    ASSUME call \in [Calls -> CallState], NEW q \in Calls, NEW x \in CallPC, Move(q, x)
    PROVE  call' \in [Calls -> CallState]
  BY DEF Move, CallState, CallPC

(* Changed fields of their types leave a record of its type. *)
LEMMA CallFields ==
    ASSUME NEW r \in CallState, NEW x \in CallPC, NEW a \in 0 .. 2,
           NEW c \in Conns \cup {NoConn}, NEW s \in Seqs
    PROVE  [r EXCEPT !.pc = x, !.at = a, !.from = c, !.seq = s] \in CallState
  BY DEF CallState, CallPC

(* A connection that is dialled, or closed, is one. *)
LEMMA LinkFields ==
    ASSUME NEW l \in Link
    PROVE  /\ [FreshLink EXCEPT !.used = TRUE, !.up = TRUE, !.writer = TRUE] \in Link
           /\ [ClosedLink(l) EXCEPT !.done = TRUE] \in Link
<1>1. FreshLink \in Link
  BY CallsAreFinite DEF FreshLink, Link
<1>2. \A r \in Link, t \in BOOLEAN : [r EXCEPT !.used = t, !.up = t, !.writer = t] \in Link
  BY DEF Link
<1>3. \A r \in Link, t \in BOOLEAN, f \in BOOLEAN, Q \in SUBSET Calls :
        [r EXCEPT !.closed = t, !.up = f, !.writer = f, !.sent = Q] \in Link
  BY DEF Link
<1>4. \A r \in Link, t \in BOOLEAN : [r EXCEPT !.done = t] \in Link
  BY DEF Link
<1>5. TRUE \in BOOLEAN /\ FALSE \in BOOLEAN /\ {} \in SUBSET Calls
  OBVIOUS
<1>6. ClosedLink(l) \in Link
  BY <1>3, <1>5, Zenon DEF ClosedLink
<1> QED
  BY <1>1, <1>2, <1>4, <1>5, <1>6, Zenon

(* A call starts its first Connect. *)
LEMMA CallAt ==
    ASSUME NEW r \in CallState
    PROVE  [r EXCEPT !.pc = "connect", !.at = 1] \in CallState
<1>1. \A x \in CallPC, a \in 0 .. 2 : [r EXCEPT !.pc = x, !.at = a] \in CallState
  BY DEF CallState, CallPC
<1>2. "connect" \in CallPC
  BY DEF CallPC
<1>3. 1 \in 0 .. 2
  OBVIOUS
<1> QED
  BY <1>1, <1>2, <1>3, Zenon

(* Connect returns to where the call was. *)
LEMMA AfterConnectType ==
    ASSUME call \in [Calls -> CallState], NEW q \in Calls, call' = [call EXCEPT ![q] = AfterConnect(q)]
    PROVE  call' \in [Calls -> CallState]
<1>1. call[q] \in CallState
  OBVIOUS
<1>2. CASE call[q].at = 0
  <2>1. AfterConnect(q) = [call[q] EXCEPT !.pc = "connect", !.at = 1]
    BY <1>2 DEF AfterConnect
  <2>2. AfterConnect(q) \in CallState
    BY <2>1, <1>1, CallAt, Zenon
  <2> QED
    BY <2>2
<1>3. CASE call[q].at = 1
  <2>1. AfterConnect(q) = [call[q] EXCEPT !.pc = "get"]
    BY <1>3 DEF AfterConnect
  <2>2. AfterConnect(q) \in CallState
    BY <2>1, <1>1 DEF CallState
  <2> QED
    BY <2>2
<1>4. CASE call[q].at = 2
  <2>1. AfterConnect(q) = [call[q] EXCEPT !.pc = "register"]
    BY <1>4 DEF AfterConnect
  <2>2. AfterConnect(q) \in CallState
    BY <2>1, <1>1 DEF CallState
  <2> QED
    BY <2>2
<1> QED
  BY <1>1, <1>2, <1>3, <1>4 DEF CallState

(* Asking for a Close keeps the closers' type. *)
LEMMA CloseType ==
    ASSUME closer \in [Closers -> CloserState], NEW k \in Closers
    PROVE  Close(k) \in [Closers -> CloserState]
  BY DEF Close, CloserState

(* So does the end of a call that may ask for one. *)
LEMMA CloseAfterType ==
    ASSUME closer \in [Closers -> CloserState], NEW q, NEW at, CloseAfter(q, at)
    PROVE  closer' \in [Closers -> CloserState]
  BY CloseType, Constants DEF CloseAfter

(* As long as a call has no number, every connection has one left for it. *)
LEMMA NextIsSeq ==
    ASSUME NumbersInv, NEW q \in Calls, call[q].from = NoConn, NEW c \in Conns
    PROVE  link[c].next \in Seqs
<1>1. Numbered(c) \subseteq Calls \ {q}
  BY Constants DEF Numbered
<1>2. IsFiniteSet(Calls \ {q}) /\ Cardinality(Calls \ {q}) = Cardinality(Calls) - 1
  BY CallsAreFinite, FS_RemoveElement
<1>3. Cardinality(Numbered(c)) <= Cardinality(Calls) - 1
  BY <1>1, <1>2, FS_Subset
<1> QED
  BY <1>3, CallsAreFinite DEF NumbersInv, Seqs

(* Every step keeps the types; that a number is left for every call takes *)
(* the count of the numbers given.                                         *)
LEMMA TypeStep == TypeOK /\ NumbersInv /\ [Next]_vars => TypeOK'
<1> SUFFICES ASSUME TypeOK, NumbersInv, [Next]_vars PROVE TypeOK'
  OBVIOUS
<1>1. call \in [Calls -> CallState]
  BY DEF TypeOK
<1>2. chan \in [Calls -> ChannelState]
  BY DEF TypeOK
<1>3. link \in [Conns -> Link]
  BY DEF TypeOK
<1>4. reader \in [Conns -> ReaderState]
  BY DEF TypeOK
<1>5. closer \in [Closers -> CloserState]
  BY DEF TypeOK
<1>6. pending \in [Seqs -> Calls \cup {NoCall}]
  BY DEF TypeOK
<1>7. /\ conn \in Conns \cup {NoConn} /\ state \in SessionState
      /\ unbinds \in Nat /\ overlap \in BOOLEAN /\ loop \in {"running", "closed"}
  BY DEF TypeOK
<1>8. \A q \in Calls : call[q].pc \in {"register", "write", "wait"} => call[q].seq \in Seqs
  BY DEF NumbersInv, CallNumber
<1>9. \A c \in Conns : \A p \in link[c].sent : p \in Calls => call[p].seq \in Seqs
  BY DEF NumbersInv, CallNumber
<1>10. ASSUME NEW q \in Calls, StartSubmit(q) PROVE TypeOK'
  <2>1. call' \in [Calls -> CallState]
    <3>1. call' = [call EXCEPT ![q] = [call[q] EXCEPT !.pc = "connect", !.at = 1]]
      BY <1>10, <1>1 DEF StartSubmit, CallState
    <3>2. [call[q] EXCEPT !.pc = "connect", !.at = 1] \in CallState
      BY <1>1, CallAt, Zenon
    <3> QED
      BY <3>1, <3>2, <1>1
  <2> QED
    BY <1>10, <2>1, <1>2, <1>3, <1>4, <1>5, <1>6, <1>7
       DEF StartSubmit, TypeOK, session, goroutines, SessionState
<1>11. ASSUME NEW q \in Calls, StartPing(q) PROVE TypeOK'
  <2>1. call' \in [Calls -> CallState]
    BY <1>11, MoveType, <1>1 DEF StartPing, CallPC
  <2> QED
    BY <1>11, <2>1, <1>2, <1>3, <1>4, <1>5, <1>6, <1>7
       DEF StartPing, TypeOK, session, goroutines, SessionState
<1>12. ASSUME NEW q \in Calls, ConnectBound(q) PROVE TypeOK'
  <2>1. call' \in [Calls -> CallState]
    BY <1>12, AfterConnectType, <1>1 DEF ConnectBound
  <2> QED
    BY <1>12, <2>1, <1>2, <1>3, <1>4, <1>5, <1>6, <1>7
       DEF ConnectBound, TypeOK, session, goroutines, SessionState
<1>13. ASSUME NEW q \in Calls, ConnectDials(q) PROVE TypeOK'
  <2>1. call' \in [Calls -> CallState]
    BY <1>13, MoveType, <1>1 DEF ConnectDials, CallPC
  <2> QED
    BY <1>13, <2>1, <1>2, <1>3, <1>4, <1>5, <1>6, <1>7
       DEF ConnectDials, TypeOK, session, goroutines, SessionState
<1>14. ASSUME NEW q \in Calls, DialFails(q) PROVE TypeOK'
  <2>1. call' \in [Calls -> CallState]
    BY <1>14, MoveType, <1>1 DEF DialFails, CallPC
  <2>2. closer' \in [Closers -> CloserState]
    BY <1>14, CloseAfterType, <1>5 DEF DialFails
  <2> QED
    BY <1>14, <2>1, <2>2, <1>2, <1>3, <1>4, <1>6, <1>7
       DEF DialFails, TypeOK, session, goroutines, SessionState
<1>15. ASSUME NEW q \in Calls, DialSucceeds(q) PROVE TypeOK'
  <2>1. call' \in [Calls -> CallState]
    BY <1>15, AfterConnectType, <1>1 DEF DialSucceeds
  <2>2. link' \in [Conns -> Link]
    <3>1. PICK c \in Conns :
            link' = [link EXCEPT ![c] = [FreshLink EXCEPT !.used = TRUE, !.up = TRUE, !.writer = TRUE]]
      BY <1>15 DEF DialSucceeds
    <3>2. [FreshLink EXCEPT !.used = TRUE, !.up = TRUE, !.writer = TRUE] \in Link
      BY <3>1, <1>3, LinkFields, Zenon
    <3> QED
      BY <3>1, <3>2, <1>3
  <2>3. reader' \in [Conns -> ReaderState]
    BY <1>15, <1>4 DEF DialSucceeds, ReaderState
  <2> QED
    BY <1>15, <2>1, <2>2, <2>3, <1>2, <1>5, <1>6, <1>7
       DEF DialSucceeds, TypeOK, session, goroutines, SessionState
<1>16. ASSUME NEW q \in Calls, GetConn(q) PROVE TypeOK'
  <2>1. call' \in [Calls -> CallState]
    <3>1. call[q].from = NoConn
      BY <1>16 DEF GetConn, NumbersInv, CallNumber
    <3>2. link[conn].next \in Seqs
      BY <1>16, <3>1, <1>7, NextIsSeq DEF GetConn
    <3>3. call' = [call EXCEPT ![q] =
                     [call[q] EXCEPT !.pc = "connect", !.at = 2, !.from = conn, !.seq = link[conn].next]]
      BY <1>16, <1>1 DEF GetConn, CallState
    <3>4. [call[q] EXCEPT !.pc = "connect", !.at = 2, !.from = conn, !.seq = link[conn].next] \in CallState
      <4>1. call[q] \in CallState /\ conn \in Conns \cup {NoConn}
        BY <1>1, <1>7
      <4>2. "connect" \in CallPC /\ 2 \in 0 .. 2
        BY DEF CallPC
      <4> QED
        BY <3>2, <4>1, <4>2, CallFields, Zenon
    <3> QED
      BY <3>3, <3>4, <1>1
  <2>2. link' \in [Conns -> Link]
    <3>1. call[q].from = NoConn
      BY <1>16 DEF GetConn, NumbersInv, CallNumber
    <3>2. conn \in Conns /\ link[conn].next \in Seqs
      BY <1>16, <3>1, <1>7, NextIsSeq DEF GetConn
    <3>3. link[conn].next + 1 \in 1 .. Cardinality(Calls) + 2
      BY <3>2, CallsAreFinite DEF Seqs
    <3>4. [link[conn] EXCEPT !.next = link[conn].next + 1] \in Link
      BY <3>2, <3>3, <1>3 DEF Link
    <3>5. link' = [link EXCEPT ![conn] = [link[conn] EXCEPT !.next = link[conn].next + 1]]
      BY <1>16, <3>2, <1>3 DEF GetConn, NextSeq, Link
    <3> QED
      BY <3>2, <3>4, <3>5, <1>3
  <2> QED
    BY <1>16, <2>1, <2>2, <1>2, <1>4, <1>5, <1>6, <1>7
       DEF GetConn, TypeOK, session, goroutines, SessionState
<1>17. ASSUME NEW q \in Calls, NoActiveConnection(q) PROVE TypeOK'
  <2>1. call' \in [Calls -> CallState]
    BY <1>17, MoveType, <1>1 DEF NoActiveConnection, CallPC
  <2>2. closer' \in [Closers -> CloserState]
    BY <1>17, CloseAfterType, <1>5 DEF NoActiveConnection
  <2> QED
    BY <1>17, <2>1, <2>2, <1>2, <1>3, <1>4, <1>6, <1>7
       DEF NoActiveConnection, TypeOK, session, goroutines, SessionState
<1>18. ASSUME NEW q \in Calls, Register(q) PROVE TypeOK'
  <2>1. call' \in [Calls -> CallState]
    <3>1. call' = [call EXCEPT ![q] = [call[q] EXCEPT !.pc = "write", !.on = conn]]
      BY <1>18, <1>1 DEF Register, CallState
    <3>2. [call[q] EXCEPT !.pc = "write", !.on = conn] \in CallState
      BY <1>1, <1>7 DEF CallState
    <3> QED
      BY <3>1, <3>2, <1>1
  <2>2. pending' \in [Seqs -> Calls \cup {NoCall}]
    BY <1>18, <1>8, <1>6 DEF Register
  <2> QED
    BY <1>18, <2>1, <2>2, <1>2, <1>3, <1>4, <1>5, <1>7
       DEF Register, TypeOK, session, goroutines, SessionState
<1>19. ASSUME NEW q \in Calls, WriteSucceeds(q) PROVE TypeOK'
  <2>1. call' \in [Calls -> CallState]
    BY <1>19, MoveType, <1>1 DEF WriteSucceeds, CallPC
  <2>2. link' \in [Conns -> Link]
    <3>1. CASE link' = link
      BY <3>1, <1>3
    <3>2. CASE link' = [link EXCEPT ![call[q].on].sent = @ \cup {q}]
      BY <3>2, <1>3 DEF Link
    <3> QED
      BY <1>19, <3>1, <3>2 DEF WriteSucceeds
  <2> QED
    BY <1>19, <2>1, <2>2, <1>2, <1>4, <1>5, <1>6, <1>7
       DEF WriteSucceeds, TypeOK, session, goroutines, SessionState
<1>20. ASSUME NEW q \in Calls, WriteFails(q) PROVE TypeOK'
  <2>1. call' \in [Calls -> CallState]
    BY <1>20, MoveType, <1>1 DEF WriteFails, EndWithError, CallPC
  <2>2. link' \in [Conns -> Link]
    <3>1. CASE link' = link
      BY <3>1, <1>3
    <3>2. CASE link' = [link EXCEPT ![call[q].on].writer = FALSE]
      BY <3>2, <1>3 DEF Link
    <3> QED
      BY <1>20, <3>1, <3>2 DEF WriteFails
  <2>3. closer' \in [Closers -> CloserState]
    BY <1>20, CloseAfterType, <1>5 DEF WriteFails, EndWithError
  <2>4. pending' \in [Seqs -> Calls \cup {NoCall}]
    BY <1>20, <1>8, <1>6 DEF WriteFails, EndWithError, UnregisterPending, CallState
  <2> QED
    BY <1>20, <2>1, <2>2, <2>3, <2>4, <1>2, <1>4, <1>7
       DEF WriteFails, EndWithError, TypeOK, session, goroutines, SessionState
<1>21. ASSUME NEW q \in Calls, Answered(q) PROVE TypeOK'
  <2>1. call' \in [Calls -> CallState]
    <3>1. call' = [call EXCEPT ![q] = [call[q] EXCEPT !.pc = "ended", !.got = chan[q].for]]
      BY <1>21, <1>1 DEF Answered, CallState
    <3>2. chan[q].for \in Calls \cup {NoCall}
      BY <1>2 DEF ChannelState
    <3>3. [call[q] EXCEPT !.pc = "ended", !.got = chan[q].for] \in CallState
      BY <3>2, <1>1 DEF CallState
    <3> QED
      BY <3>1, <3>3, <1>1
  <2>2. closer' \in [Closers -> CloserState]
    BY <1>21, CloseAfterType, <1>5 DEF Answered
  <2> QED
    BY <1>21, <2>1, <2>2, <1>2, <1>3, <1>4, <1>6, <1>7
       DEF Answered, TypeOK, session, goroutines, SessionState
<1>22. ASSUME NEW q \in Calls, ChannelClosed(q) PROVE TypeOK'
  <2>1. call' \in [Calls -> CallState]
    BY <1>22, MoveType, <1>1 DEF ChannelClosed, CallPC
  <2>2. closer' \in [Closers -> CloserState]
    BY <1>22, CloseAfterType, <1>5 DEF ChannelClosed
  <2> QED
    BY <1>22, <2>1, <2>2, <1>2, <1>3, <1>4, <1>6, <1>7
       DEF ChannelClosed, TypeOK, session, goroutines, SessionState
<1>23. ASSUME NEW q \in Calls, DoneClosed(q) PROVE TypeOK'
  <2>1. call' \in [Calls -> CallState]
    BY <1>23, MoveType, <1>1 DEF DoneClosed, EndWithError, CallPC
  <2>2. closer' \in [Closers -> CloserState]
    BY <1>23, CloseAfterType, <1>5 DEF DoneClosed, EndWithError
  <2>3. pending' \in [Seqs -> Calls \cup {NoCall}]
    BY <1>23, <1>8, <1>6 DEF DoneClosed, EndWithError, UnregisterPending, CallState
  <2> QED
    BY <1>23, <2>1, <2>2, <2>3, <1>2, <1>3, <1>4, <1>7
       DEF DoneClosed, EndWithError, TypeOK, session, goroutines, SessionState
<1>24. ASSUME NEW q \in Calls, ContextDone(q) PROVE TypeOK'
  <2>1. call' \in [Calls -> CallState]
    BY <1>24, MoveType, <1>1 DEF ContextDone, EndWithError, CallPC
  <2>2. closer' \in [Closers -> CloserState]
    BY <1>24, CloseAfterType, <1>5 DEF ContextDone, EndWithError
  <2>3. pending' \in [Seqs -> Calls \cup {NoCall}]
    BY <1>24, <1>8, <1>6 DEF ContextDone, EndWithError, UnregisterPending, CallState
  <2> QED
    BY <1>24, <2>1, <2>2, <2>3, <1>2, <1>3, <1>4, <1>7
       DEF ContextDone, EndWithError, TypeOK, session, goroutines, SessionState
<1>25. ASSUME NEW c \in Conns, Deliver(c) PROVE TypeOK'
  <2>1. chan' \in [Calls -> ChannelState]
    BY <1>25, <1>2, <1>4 DEF Deliver, ReaderState, ChannelState
  <2>2. reader' \in [Conns -> ReaderState]
    BY <1>25, <1>4 DEF Deliver, ReaderState
  <2> QED
    BY <1>25, <2>1, <2>2, <1>1, <1>3, <1>5, <1>6, <1>7
       DEF Deliver, TypeOK, session, goroutines, SessionState
<1>26. ASSUME NEW c \in Conns, ReadFails(c) PROVE TypeOK'
  <2>1. reader' \in [Conns -> ReaderState]
    BY <1>26, <1>4 DEF ReadFails, ReaderState
  <2>2. closer' \in [Closers -> CloserState]
    BY <1>26, CloseType, Constants, <1>5 DEF ReadFails
  <2> QED
    BY <1>26, <2>1, <2>2, <1>1, <1>2, <1>3, <1>6, <1>7
       DEF ReadFails, TypeOK, session, goroutines, SessionState
<1>27. ASSUME NEW c \in Conns, Unbind(c) PROVE TypeOK'
  <2>1. closer' \in [Closers -> CloserState]
    BY <1>27, Constants, <1>5 DEF Unbind, CloserState
  <2> QED
    BY <1>27, <2>1, <1>1, <1>2, <1>3, <1>4, <1>6, <1>7
       DEF Unbind, TypeOK, session, goroutines, SessionState
<1>28. ASSUME NEW c \in Conns, UnbindAnswered(c) PROVE TypeOK'
  <2>1. closer' \in [Closers -> CloserState]
    BY <1>28, CloseType, Constants, <1>5 DEF UnbindAnswered
  <2> QED
    BY <1>28, <2>1, <1>1, <1>2, <1>3, <1>4, <1>6, <1>7
       DEF UnbindAnswered, TypeOK, session, goroutines, SessionState
<1>29. ASSUME NEW c \in Conns, LinkBreaks(c) PROVE TypeOK'
  <2>1. link' \in [Conns -> Link]
    BY <1>29, <1>3 DEF LinkBreaks, Link
  <2> QED
    BY <1>29, <2>1, <1>1, <1>2, <1>4, <1>5, <1>6, <1>7
       DEF LinkBreaks, TypeOK, session, goroutines, SessionState
<1>30. ASSUME NEW c \in Conns, NEW p \in Calls, ReadAnswer(c, p) PROVE TypeOK'
  <2>1. link' \in [Conns -> Link]
    BY <1>30, <1>3 DEF ReadAnswer, Link
  <2>2. reader' \in [Conns -> ReaderState]
    <3>1. CASE reader' = reader
      BY <3>1, <1>4
    <3>2. CASE /\ call[p].seq \in Seqs
               /\ reader' = [reader EXCEPT ![c] = [pc |-> "deliver", hand |-> pending[call[p].seq], for |-> p]]
      BY <3>2, <1>4, <1>6 DEF ReaderState
    <3> QED
      BY <1>30, <3>1, <3>2, <1>9 DEF ReadAnswer
  <2>3. pending' \in [Seqs -> Calls \cup {NoCall}]
    BY <1>30, <1>8, <1>6, <1>1 DEF ReadAnswer, CallState
  <2> QED
    BY <1>30, <2>1, <2>2, <2>3, <1>1, <1>2, <1>5, <1>7
       DEF ReadAnswer, TypeOK, session, goroutines, SessionState
<1>31. ASSUME NEW k \in Closers, CloseTakes(k) PROVE TypeOK'
  <2>1. closer' \in [Closers -> CloserState]
    BY <1>31, <1>5, <1>6, <1>7 DEF CloseTakes, Take, Waiting, IdleCloser, CloserState
  <2>2. pending' \in [Seqs -> Calls \cup {NoCall}]
    BY <1>31, <1>6 DEF CloseTakes, NoPending
  <2> QED
    BY <1>31, <2>1, <2>2, <1>1, <1>2, <1>3, <1>4, <1>7
       DEF CloseTakes, TypeOK, session, goroutines, SessionState
<1>32. ASSUME NEW k \in Closers, CloseFinishes(k) PROVE TypeOK'
  <2>1. chan' \in [Calls -> ChannelState]
    BY <1>32, <1>2, <1>5 DEF CloseFinishes, ChannelState
  <2>2. link' \in [Conns -> Link]
    <3>1. CASE link' = link
      BY <3>1, <1>3
    <3>2. CASE /\ closer[k].conn \in Conns
               /\ link' = [link EXCEPT ![closer[k].conn] = [ClosedLink(@) EXCEPT !.done = TRUE]]
      <4>1. link[closer[k].conn] \in Link
        BY <3>2, <1>3
      <4>2. [ClosedLink(link[closer[k].conn]) EXCEPT !.done = TRUE] \in Link
        BY <4>1, LinkFields, Zenon
      <4> QED
        BY <3>2, <4>2, <1>3
    <3>3. closer[k].conn \in Conns \cup {NoConn}
      BY <1>5 DEF CloserState
    <3> QED
      BY <1>32, <3>1, <3>2, <3>3 DEF CloseFinishes
  <2>3. closer' \in [Closers -> CloserState]
    BY <1>32, <1>5 DEF CloseFinishes, IdleCloser, CloserState
  <2> QED
    BY <1>32, <2>1, <2>2, <2>3, <1>1, <1>4, <1>6, <1>7
       DEF CloseFinishes, TypeOK, session, goroutines, SessionState
<1>33. ASSUME ClientClose PROVE TypeOK'
  <2>1. closer' \in [Closers -> CloserState]
    BY <1>33, CloseType, Constants, <1>5 DEF ClientClose
  <2> QED
    BY <1>33, <2>1, <1>1, <1>2, <1>3, <1>4, <1>6, <1>7
       DEF ClientClose, TypeOK, session, goroutines, SessionState
<1>34. ASSUME UNCHANGED vars PROVE TypeOK'
  BY <1>34 DEF TypeOK, vars, session, goroutines
<1> QED
  BY ActionCases, <1>10, <1>11, <1>12, <1>13, <1>14, <1>15, <1>16, <1>17, <1>18, <1>19, <1>20,
     <1>21, <1>22, <1>23, <1>24, <1>25, <1>26, <1>27, <1>28, <1>29, <1>30, <1>31, <1>32, <1>33,
     <1>34

(* Most steps leave the numbers alone, and connections only come into use. *)
NumbersKept ==
    /\ \A p \in Calls : call'[p].from = call[p].from /\ call'[p].seq = call[p].seq
    /\ \A c \in Conns : link'[c].next = link[c].next /\ (link[c].used => link'[c].used)
    /\ conn' = conn \/ conn' = NoConn \/ link'[conn'].used

(* Then the counts and the order of the numbers stay as they are. *)
LEMMA KeptNumbers ==
    ASSUME TypeOK, NumbersInv, NumbersKept, \A q \in Calls : CallNumber(q)',
           \A c \in Conns : \A p \in link'[c].sent : call'[p].at = 2
    PROVE  NumbersInv'
<1>1. \A c \in Conns : Numbered(c)' = Numbered(c)
  BY DEF Numbered, NumbersKept
<1>2. \A q \in Calls : call[q].from \in Conns \cup {NoConn}
  BY DEF TypeOK, CallState
<1>3. conn \in Conns \cup {NoConn}
  BY DEF TypeOK
<1> QED
  BY <1>1, <1>2, <1>3 DEF NumbersInv, NumbersKept

(* Initially nothing is dialled and no number is given. *)
LEMMA NumbersInit == Init => TypeOK /\ NumbersInv
<1> SUFFICES ASSUME Init PROVE TypeOK /\ NumbersInv
  OBVIOUS
<1>1. FreshLink \in Link
  BY CallsAreFinite DEF FreshLink, Link
<1>2. call \in [Calls -> CallState]
  BY DEF Init, CallState
<1>3. chan \in [Calls -> ChannelState] /\ reader \in [Conns -> ReaderState]
  BY DEF Init, ChannelState, ReaderState
<1>4. closer \in [Closers -> CloserState]
  BY DEF Init, CloserState, IdleCloser
<1>5. TypeOK
  BY <1>1, <1>2, <1>3, <1>4 DEF Init, TypeOK, SessionState, NoPending
<1>6. \A c \in Conns : Numbered(c) = {}
  BY Constants DEF Init, Numbered
<1>7. \A c \in Conns : Cardinality(Numbered(c)) = 0
  BY <1>6, FS_EmptySet
<1>8. \A c \in Conns : link[c].next = 2 /\ link[c].sent = {}
  BY DEF Init, FreshLink
<1>9. \A q \in Calls : CallNumber(q) /\ call[q].from = NoConn
  BY DEF Init, CallNumber
<1>10. conn = NoConn
  BY DEF Init
<1>11. NumbersInv
  BY <1>6, <1>7, <1>8, <1>9, <1>10 DEF NumbersInv
<1> QED
  BY <1>5, <1>11

(* A call that takes its number takes the next one of its connection. *)
LEMMA GetConnNumbers ==
    ASSUME TypeOK, NumbersInv, NEW q \in Calls, GetConn(q)
    PROVE  NumbersInv'
<1> DEFINE n == link[conn].next
<1>1. call \in [Calls -> CallState] /\ link \in [Conns -> Link] /\ conn \in Conns /\ conn' = conn
  BY DEF TypeOK, GetConn, session
<1>2. call[q].from = NoConn /\ call[q].at = 1
  BY DEF GetConn, NumbersInv, CallNumber
<1>3. n \in Seqs
  BY <1>1, <1>2, NextIsSeq
<1>4. /\ call'[q].pc = "connect" /\ call'[q].at = 2
      /\ call'[q].from = conn /\ call'[q].seq = n
  BY <1>1 DEF GetConn, CallState
<1>5. \A p \in Calls \ {q} : call'[p] = call[p]
  BY <1>1 DEF GetConn
<1>6. /\ link'[conn].next = n + 1
      /\ link'[conn].used = link[conn].used /\ link'[conn].sent = link[conn].sent
      /\ \A c \in Conns \ {conn} : link'[c] = link[c]
  BY <1>1 DEF GetConn, NextSeq, Link
<1>7. Numbered(conn)' = Numbered(conn) \cup {q} /\ q \notin Numbered(conn)
  BY <1>1, <1>2, <1>4, <1>5, Constants DEF Numbered
<1>8. Cardinality(Numbered(conn)') = Cardinality(Numbered(conn)) + 1
  BY <1>7, CallsAreFinite, FS_AddElement
<1>9. \A c \in Conns \ {conn} : Numbered(c)' = Numbered(c)
  BY <1>1, <1>2, <1>4, <1>5, Constants DEF Numbered
<1>10. n = Cardinality(Numbered(conn)) + 2 /\ link[conn].used
  BY <1>1, Constants DEF NumbersInv
<1>11. ASSUME NEW c \in Conns
       PROVE  /\ link'[c].next = Cardinality(Numbered(c)') + 2
              /\ ~link'[c].used => Numbered(c)' = {}
              /\ \A p \in link'[c].sent : call'[p].at = 2
  <2>1. \A p \in link[c].sent : p \in Calls /\ call[p].at = 2
    BY <1>1 DEF NumbersInv, Link
  <2>2. \A p \in link'[c].sent : call'[p].at = 2
    BY <2>1, <1>4, <1>5, <1>6
  <2>3. CASE c = conn
    <3>1. Numbered(c)' = Numbered(conn)'
      BY <2>3, <1>1 DEF Numbered
    <3>2. Cardinality(Numbered(conn)) \in Nat
      BY CallsAreFinite
    <3> QED
      BY <2>2, <2>3, <3>1, <3>2, <1>6, <1>8, <1>10
  <2>4. CASE c # conn
    BY <2>2, <2>4, <1>6, <1>9 DEF NumbersInv
  <2> QED
    BY <2>3, <2>4
<1>12. ASSUME NEW p \in Calls
       PROVE  /\ CallNumber(p)'
              /\ call'[p].from # NoConn => call'[p].seq < link'[call'[p].from].next
  <2>1. CASE p = q
    BY <2>1, <1>1, <1>3, <1>4, <1>6, Constants DEF CallNumber, Seqs
  <2>2. CASE p # q
    <3>1. call'[p] = call[p]
      BY <2>2, <1>5
    <3>2. CallNumber(p) /\ CallNumber(p)'
      BY <3>1 DEF NumbersInv, CallNumber
    <3>3. ASSUME call[p].from # NoConn
          PROVE  call[p].seq < link'[call[p].from].next
      <4>1. call[p].from \in Conns /\ call[p].seq \in Nat
        BY <3>3, <1>1, Constants DEF CallState, Seqs
      <4>2. call[p].seq < link[call[p].from].next
        BY <3>3 DEF NumbersInv
      <4> QED
        BY <4>1, <4>2, <1>3, <1>6 DEF Seqs
    <3> QED
      BY <3>1, <3>2, <3>3
  <2> QED
    BY <2>1, <2>2
<1>13. ASSUME NEW p \in Calls, NEW r \in Calls, call'[p].from # NoConn,
              call'[p].from = call'[r].from, call'[p].seq = call'[r].seq
       PROVE  p = r
  <2>1. CASE p # q /\ r # q
    BY <1>13, <2>1, <1>5 DEF NumbersInv
  <2>2. CASE p = q /\ r # q
    BY <1>13, <2>2, <1>1, <1>3, <1>4, <1>5 DEF NumbersInv, Seqs
  <2>3. CASE r = q /\ p # q
    BY <1>13, <2>3, <1>1, <1>3, <1>4, <1>5 DEF NumbersInv, Seqs
  <2> QED
    BY <2>1, <2>2, <2>3
<1>14. conn' # NoConn => link'[conn'].used
  BY <1>6, <1>10 DEF GetConn, session
<1> QED
  BY <1>11, <1>12, <1>13, <1>14 DEF NumbersInv

(* The numbers stay distinct and counted. *)
LEMMA NumbersStep == TypeOK /\ NumbersInv /\ [Next]_vars => NumbersInv'
<1> SUFFICES ASSUME TypeOK, NumbersInv, [Next]_vars PROVE NumbersInv'
  OBVIOUS
<1>1. call \in [Calls -> CallState]
  BY DEF TypeOK
<1>2. link \in [Conns -> Link]
  BY DEF TypeOK
<1>3. /\ \A q \in Calls : CallNumber(q)
      /\ \A c \in Conns : \A p \in link[c].sent : p \in Calls /\ call[p].at = 2
  BY <1>2 DEF NumbersInv, Link
<1>4. ASSUME NEW c \in Conns, Deliver(c) \/ ReadFails(c) \/ Unbind(c) \/ UnbindAnswered(c)
      PROVE  NumbersInv'
  <2>1. UNCHANGED <<call, link>> /\ (conn' = conn \/ conn' = NoConn)
    BY <1>4 DEF Deliver, ReadFails, Unbind, UnbindAnswered, goroutines, session
  <2> QED
    BY <2>1, <1>3, KeptNumbers DEF NumbersKept, CallNumber
<1>5. ASSUME NEW k \in Closers, CloseTakes(k) PROVE NumbersInv'
  <2>1. UNCHANGED <<call, link>> /\ (conn' = conn \/ conn' = NoConn)
    BY <1>5 DEF CloseTakes, goroutines, session
  <2> QED
    BY <2>1, <1>3, KeptNumbers DEF NumbersKept, CallNumber
<1>6. ASSUME ClientClose PROVE NumbersInv'
  <2>1. UNCHANGED <<call, link>> /\ (conn' = conn \/ conn' = NoConn)
    BY <1>6 DEF ClientClose, goroutines, session
  <2> QED
    BY <2>1, <1>3, KeptNumbers DEF NumbersKept, CallNumber
<1>7. ASSUME NEW q \in Calls, StartSubmit(q) PROVE NumbersInv'
  <2>1. /\ \A p \in Calls : call'[p].from = call[p].from /\ call'[p].seq = call[p].seq
        /\ \A p \in Calls : call[p].at = 2 => call'[p].at = 2
        /\ \A p \in Calls : CallNumber(p)'
    BY <1>7, <1>1, <1>3 DEF StartSubmit, session, CallState, CallNumber
  <2>2. link' = link
    BY <1>7 DEF StartSubmit, session
  <2>3. \A c \in Conns : \A p \in link'[c].sent : call'[p].at = 2
    BY <1>3, <2>1, <2>2
  <2>4. conn' = conn \/ conn' = NoConn \/ link'[conn'].used
    BY <1>7 DEF StartSubmit, session
  <2> QED
    BY <2>1, <2>2, <2>3, <2>4, KeptNumbers DEF NumbersKept
<1>8. ASSUME NEW q \in Calls, StartPing(q) PROVE NumbersInv'
  <2>1. /\ \A p \in Calls : call'[p].from = call[p].from /\ call'[p].seq = call[p].seq
        /\ \A p \in Calls : call[p].at = 2 => call'[p].at = 2
        /\ \A p \in Calls : CallNumber(p)'
    BY <1>8, <1>1, <1>3 DEF StartPing, Move, Active, session, CallState, CallNumber
  <2>2. link' = link
    BY <1>8 DEF StartPing, Move, Active, session
  <2>3. \A c \in Conns : \A p \in link'[c].sent : call'[p].at = 2
    BY <1>3, <2>1, <2>2
  <2>4. conn' = conn \/ conn' = NoConn \/ link'[conn'].used
    BY <1>8 DEF StartPing, Move, session
  <2> QED
    BY <2>1, <2>2, <2>3, <2>4, KeptNumbers DEF NumbersKept
<1>9. ASSUME NEW q \in Calls, ConnectBound(q) PROVE NumbersInv'
  <2>1. /\ \A p \in Calls : call'[p].from = call[p].from /\ call'[p].seq = call[p].seq
        /\ \A p \in Calls : call[p].at = 2 => call'[p].at = 2
        /\ \A p \in Calls : CallNumber(p)'
    BY <1>9, <1>1, <1>3
       DEF ConnectBound, AfterConnect, AlreadyBound, session, CallState, CallNumber
  <2>2. link' = link
    BY <1>9 DEF ConnectBound, AfterConnect, AlreadyBound, session
  <2>3. \A c \in Conns : \A p \in link'[c].sent : call'[p].at = 2
    BY <1>3, <2>1, <2>2
  <2>4. conn' = conn \/ conn' = NoConn \/ link'[conn'].used
    BY <1>9 DEF ConnectBound, session
  <2> QED
    BY <2>1, <2>2, <2>3, <2>4, KeptNumbers DEF NumbersKept
<1>10. ASSUME NEW q \in Calls, ConnectDials(q) PROVE NumbersInv'
  <2>1. /\ \A p \in Calls : call'[p].from = call[p].from /\ call'[p].seq = call[p].seq
        /\ \A p \in Calls : call[p].at = 2 => call'[p].at = 2
        /\ \A p \in Calls : CallNumber(p)'
    BY <1>10, <1>1, <1>3 DEF ConnectDials, Move, AlreadyBound, session, CallState, CallNumber
  <2>2. link' = link
    BY <1>10 DEF ConnectDials, Move, AlreadyBound, session
  <2>3. \A c \in Conns : \A p \in link'[c].sent : call'[p].at = 2
    BY <1>3, <2>1, <2>2
  <2>4. conn' = conn \/ conn' = NoConn \/ link'[conn'].used
    BY <1>10 DEF ConnectDials, Move, session
  <2> QED
    BY <2>1, <2>2, <2>3, <2>4, KeptNumbers DEF NumbersKept
<1>11. ASSUME NEW q \in Calls, DialFails(q) PROVE NumbersInv'
  <2>1. /\ \A p \in Calls : call'[p].from = call[p].from /\ call'[p].seq = call[p].seq
        /\ \A p \in Calls : call[p].at = 2 => call'[p].at = 2
        /\ \A p \in Calls : CallNumber(p)'
    BY <1>11, <1>1, <1>3 DEF DialFails, Move, session, CallState, CallNumber
  <2>2. link' = link
    BY <1>11 DEF DialFails, Move, session
  <2>3. \A c \in Conns : \A p \in link'[c].sent : call'[p].at = 2
    BY <1>3, <2>1, <2>2
  <2>4. conn' = conn \/ conn' = NoConn \/ link'[conn'].used
    BY <1>11 DEF DialFails, Move, session
  <2> QED
    BY <2>1, <2>2, <2>3, <2>4, KeptNumbers DEF NumbersKept
<1>12. ASSUME NEW q \in Calls, DialSucceeds(q) PROVE NumbersInv'
  <2>1. /\ \A p \in Calls : call'[p].from = call[p].from /\ call'[p].seq = call[p].seq
        /\ \A p \in Calls : call[p].at = 2 => call'[p].at = 2
        /\ \A p \in Calls : CallNumber(p)'
    BY <1>12, <1>1, <1>3 DEF DialSucceeds, AfterConnect, FreshLink, CallState, CallNumber
  <2>2. \A c \in Conns : link'[c].next = link[c].next /\ (link[c].used => link'[c].used)
    <3>1. PICK c \in Conns :
            /\ ~link[c].used
            /\ link' = [link EXCEPT ![c] = [FreshLink EXCEPT !.used = TRUE, !.up = TRUE, !.writer = TRUE]]
      BY <1>12 DEF DialSucceeds
    <3>2. link[c].next = 2
      <4>1. Numbered(c) = {} /\ link[c].next = Cardinality(Numbered(c)) + 2
        BY <3>1 DEF NumbersInv
      <4> QED
        BY <4>1, FS_EmptySet
    <3>3. link'[c].next = 2
      BY <3>1, <1>2 DEF FreshLink
    <3> QED
      BY <3>1, <3>2, <3>3, <1>2
  <2>3. \A c \in Conns : \A p \in link'[c].sent : call'[p].at = 2
    BY <1>12, <1>2, <1>3, <2>1 DEF DialSucceeds, AfterConnect, FreshLink, Link, CallNumber
  <2>4. conn' = conn \/ conn' = NoConn \/ link'[conn'].used
    BY <1>12, <1>2 DEF DialSucceeds, FreshLink, Link, session
  <2> QED
    BY <2>1, <2>2, <2>3, <2>4, KeptNumbers DEF NumbersKept
<1>13. ASSUME NEW q \in Calls, GetConn(q) PROVE NumbersInv'
  BY <1>13, GetConnNumbers
<1>14. ASSUME NEW q \in Calls, NoActiveConnection(q) PROVE NumbersInv'
  <2>1. /\ \A p \in Calls : call'[p].from = call[p].from /\ call'[p].seq = call[p].seq
        /\ \A p \in Calls : call[p].at = 2 => call'[p].at = 2
        /\ \A p \in Calls : CallNumber(p)'
    BY <1>14, <1>1, <1>3 DEF NoActiveConnection, Move, session, CallState, CallNumber
  <2>2. link' = link
    BY <1>14 DEF NoActiveConnection, Move, session
  <2>3. \A c \in Conns : \A p \in link'[c].sent : call'[p].at = 2
    BY <1>3, <2>1, <2>2
  <2>4. conn' = conn \/ conn' = NoConn \/ link'[conn'].used
    BY <1>14 DEF NoActiveConnection, Move, session
  <2> QED
    BY <2>1, <2>2, <2>3, <2>4, KeptNumbers DEF NumbersKept
<1>15. ASSUME NEW q \in Calls, Register(q) PROVE NumbersInv'
  <2>1. /\ \A p \in Calls : call'[p].from = call[p].from /\ call'[p].seq = call[p].seq
        /\ \A p \in Calls : call[p].at = 2 => call'[p].at = 2
        /\ \A p \in Calls : CallNumber(p)'
    BY <1>15, <1>1, <1>3 DEF Register, session, CallState, CallNumber
  <2>2. link' = link
    BY <1>15 DEF Register, session
  <2>3. \A c \in Conns : \A p \in link'[c].sent : call'[p].at = 2
    BY <1>3, <2>1, <2>2
  <2>4. conn' = conn \/ conn' = NoConn \/ link'[conn'].used
    BY <1>15 DEF Register, session
  <2> QED
    BY <2>1, <2>2, <2>3, <2>4, KeptNumbers DEF NumbersKept
<1>16. ASSUME NEW q \in Calls, WriteSucceeds(q) PROVE NumbersInv'
  <2>1. /\ \A p \in Calls : call'[p].from = call[p].from /\ call'[p].seq = call[p].seq
        /\ \A p \in Calls : call[p].at = 2 => call'[p].at = 2
        /\ \A p \in Calls : CallNumber(p)'
    BY <1>16, <1>1, <1>3 DEF WriteSucceeds, Move, CallState, CallNumber
  <2>2. \A c \in Conns : link'[c].next = link[c].next /\ (link[c].used => link'[c].used)
    BY <1>16, <1>2 DEF WriteSucceeds, Move, Link
  <2>3. \A c \in Conns : \A p \in link'[c].sent : call'[p].at = 2
    BY <1>16, <1>2, <1>3, <2>1 DEF WriteSucceeds, Move, Link, CallNumber
  <2>4. conn' = conn \/ conn' = NoConn \/ link'[conn'].used
    BY <1>16 DEF WriteSucceeds, Move, session
  <2> QED
    BY <2>1, <2>2, <2>3, <2>4, KeptNumbers DEF NumbersKept
<1>17. ASSUME NEW q \in Calls, WriteFails(q) PROVE NumbersInv'
  <2>1. /\ \A p \in Calls : call'[p].from = call[p].from /\ call'[p].seq = call[p].seq
        /\ \A p \in Calls : call[p].at = 2 => call'[p].at = 2
        /\ \A p \in Calls : CallNumber(p)'
    BY <1>17, <1>1, <1>3
       DEF WriteFails, EndWithError, UnregisterPending, Move, CallState, CallNumber
  <2>2. \A c \in Conns : link'[c].next = link[c].next /\ (link[c].used => link'[c].used)
    BY <1>17, <1>2 DEF WriteFails, EndWithError, UnregisterPending, Move, Link
  <2>3. \A c \in Conns : \A p \in link'[c].sent : call'[p].at = 2
    BY <1>17, <1>2, <1>3, <2>1
       DEF WriteFails, EndWithError, UnregisterPending, Move, Link, CallNumber
  <2>4. conn' = conn \/ conn' = NoConn \/ link'[conn'].used
    BY <1>17 DEF WriteFails, EndWithError, Move, session
  <2> QED
    BY <2>1, <2>2, <2>3, <2>4, KeptNumbers DEF NumbersKept
<1>18. ASSUME NEW q \in Calls, Answered(q) PROVE NumbersInv'
  <2>1. /\ \A p \in Calls : call'[p].from = call[p].from /\ call'[p].seq = call[p].seq
        /\ \A p \in Calls : call[p].at = 2 => call'[p].at = 2
        /\ \A p \in Calls : CallNumber(p)'
    BY <1>18, <1>1, <1>3 DEF Answered, session, CallState, CallNumber
  <2>2. link' = link
    BY <1>18 DEF Answered, session
  <2>3. \A c \in Conns : \A p \in link'[c].sent : call'[p].at = 2
    BY <1>3, <2>1, <2>2
  <2>4. conn' = conn \/ conn' = NoConn \/ link'[conn'].used
    BY <1>18 DEF Answered, session
  <2> QED
    BY <2>1, <2>2, <2>3, <2>4, KeptNumbers DEF NumbersKept
<1>19. ASSUME NEW q \in Calls, ChannelClosed(q) PROVE NumbersInv'
  <2>1. /\ \A p \in Calls : call'[p].from = call[p].from /\ call'[p].seq = call[p].seq
        /\ \A p \in Calls : call[p].at = 2 => call'[p].at = 2
        /\ \A p \in Calls : CallNumber(p)'
    BY <1>19, <1>1, <1>3 DEF ChannelClosed, Move, session, CallState, CallNumber
  <2>2. link' = link
    BY <1>19 DEF ChannelClosed, Move, session
  <2>3. \A c \in Conns : \A p \in link'[c].sent : call'[p].at = 2
    BY <1>3, <2>1, <2>2
  <2>4. conn' = conn \/ conn' = NoConn \/ link'[conn'].used
    BY <1>19 DEF ChannelClosed, Move, session
  <2> QED
    BY <2>1, <2>2, <2>3, <2>4, KeptNumbers DEF NumbersKept
<1>20. ASSUME NEW q \in Calls, DoneClosed(q) PROVE NumbersInv'
  <2>1. /\ \A p \in Calls : call'[p].from = call[p].from /\ call'[p].seq = call[p].seq
        /\ \A p \in Calls : call[p].at = 2 => call'[p].at = 2
        /\ \A p \in Calls : CallNumber(p)'
    BY <1>20, <1>1, <1>3
       DEF DoneClosed, EndWithError, UnregisterPending, Move, session, CallState, CallNumber
  <2>2. link' = link
    BY <1>20 DEF DoneClosed, EndWithError, UnregisterPending, Move, session
  <2>3. \A c \in Conns : \A p \in link'[c].sent : call'[p].at = 2
    BY <1>3, <2>1, <2>2
  <2>4. conn' = conn \/ conn' = NoConn \/ link'[conn'].used
    BY <1>20 DEF DoneClosed, EndWithError, Move, session
  <2> QED
    BY <2>1, <2>2, <2>3, <2>4, KeptNumbers DEF NumbersKept
<1>21. ASSUME NEW q \in Calls, ContextDone(q) PROVE NumbersInv'
  <2>1. /\ \A p \in Calls : call'[p].from = call[p].from /\ call'[p].seq = call[p].seq
        /\ \A p \in Calls : call[p].at = 2 => call'[p].at = 2
        /\ \A p \in Calls : CallNumber(p)'
    BY <1>21, <1>1, <1>3
       DEF ContextDone, EndWithError, UnregisterPending, Move, session, CallState, CallNumber
  <2>2. link' = link
    BY <1>21 DEF ContextDone, EndWithError, UnregisterPending, Move, session
  <2>3. \A c \in Conns : \A p \in link'[c].sent : call'[p].at = 2
    BY <1>3, <2>1, <2>2
  <2>4. conn' = conn \/ conn' = NoConn \/ link'[conn'].used
    BY <1>21 DEF ContextDone, EndWithError, Move, session
  <2> QED
    BY <2>1, <2>2, <2>3, <2>4, KeptNumbers DEF NumbersKept
<1>22. ASSUME NEW c \in Conns, LinkBreaks(c) PROVE NumbersInv'
  <2>1. call' = call /\ \A p \in Calls : CallNumber(p)'
    BY <1>22, <1>3 DEF LinkBreaks, goroutines, CallNumber
  <2>2. \A d \in Conns : link'[d].next = link[d].next /\ (link[d].used => link'[d].used)
    BY <1>22, <1>2 DEF LinkBreaks, session, Link
  <2>3. \A d \in Conns : \A p \in link'[d].sent : call'[p].at = 2
    BY <1>22, <1>2, <1>3, <2>1 DEF LinkBreaks, session, Link, CallNumber
  <2>4. conn' = conn \/ conn' = NoConn \/ link'[conn'].used
    BY <1>22 DEF LinkBreaks, session
  <2> QED
    BY <2>1, <2>2, <2>3, <2>4, KeptNumbers DEF NumbersKept
<1>23. ASSUME NEW c \in Conns, NEW p \in Calls, ReadAnswer(c, p) PROVE NumbersInv'
  <2>1. call' = call /\ \A r \in Calls : CallNumber(r)'
    BY <1>23, <1>3 DEF ReadAnswer, goroutines, CallNumber
  <2>2. \A d \in Conns : link'[d].next = link[d].next /\ (link[d].used => link'[d].used)
    BY <1>23, <1>2 DEF ReadAnswer, session, Link
  <2>3. \A d \in Conns : \A r \in link'[d].sent : call'[r].at = 2
    BY <1>23, <1>2, <1>3, <2>1 DEF ReadAnswer, session, Link, CallNumber
  <2>4. conn' = conn \/ conn' = NoConn \/ link'[conn'].used
    BY <1>23 DEF ReadAnswer, session
  <2> QED
    BY <2>1, <2>2, <2>3, <2>4, KeptNumbers DEF NumbersKept
<1>24. ASSUME NEW k \in Closers, CloseFinishes(k) PROVE NumbersInv'
  <2>1. call' = call /\ \A p \in Calls : CallNumber(p)'
    BY <1>24, <1>3 DEF CloseFinishes, goroutines, CallNumber
  <2>2. \A c \in Conns : link'[c].next = link[c].next /\ (link[c].used => link'[c].used)
    BY <1>24, <1>2 DEF CloseFinishes, ClosedLink, IdleCloser, session, Link
  <2>3. \A c \in Conns : \A p \in link'[c].sent : call'[p].at = 2
    BY <1>24, <1>2, <1>3, <2>1
       DEF CloseFinishes, ClosedLink, IdleCloser, session, Link, CallNumber
  <2>4. conn' = conn \/ conn' = NoConn \/ link'[conn'].used
    BY <1>24 DEF CloseFinishes, session
  <2> QED
    BY <2>1, <2>2, <2>3, <2>4, KeptNumbers DEF NumbersKept
<1>25. ASSUME UNCHANGED vars PROVE NumbersInv'
  <2>1. UNCHANGED <<call, link, conn>>
    BY <1>25 DEF vars, goroutines, session
  <2> QED
    BY <2>1, <1>3, KeptNumbers DEF NumbersKept, CallNumber
<1> QED
  BY ActionCases, <1>4, <1>5, <1>6, <1>7, <1>8, <1>9, <1>10, <1>11, <1>12, <1>13, <1>14, <1>15,
     <1>16, <1>17, <1>18, <1>19, <1>20, <1>21, <1>22, <1>23, <1>24, <1>25

----------------------------------------------------------------------------
(* Asking for a Close *)

(* What the Closes hold stays theirs. *)
HoldingsKept == \A k \in Closers : closer'[k].conn = closer[k].conn /\ closer'[k].chans = closer[k].chans

(* Who asks for a Close changes what no Close holds. *)
LEMMA AskKeepsHoldings ==
    ASSUME closer \in [Closers -> CloserState]
    PROVE  /\ \A k \in Closers : closer' = Close(k) => HoldingsKept
           /\ \A q, at : CloseAfter(q, at) => HoldingsKept
           /\ \A c \in Conns : Unbind(c) => HoldingsKept
<1>1. ASSUME NEW k \in Closers, closer' = Close(k) PROVE HoldingsKept
  BY <1>1 DEF HoldingsKept, Close, CloserState
<1>2. ASSUME NEW q, NEW at, CloseAfter(q, at) PROVE HoldingsKept
  BY <1>1, <1>2, Constants DEF CloseAfter, HoldingsKept
<1>3. ASSUME NEW c \in Conns, Unbind(c) PROVE HoldingsKept
  BY <1>3 DEF HoldingsKept, Unbind, CloserState
<1> QED
  BY <1>1, <1>2, <1>3

----------------------------------------------------------------------------
(* A connection is closed once *)

(* A connection that a Close has taken is out of everybody else's reach. *)
ConnInv ==
    /\ conn # NoConn => link[conn].used /\ ~link[conn].closed
    /\ \A k \in Closers : closer[k].conn # NoConn =>
        /\ link[closer[k].conn].used /\ ~link[closer[k].conn].closed
        /\ closer[k].conn # conn
        /\ \A j \in Closers : closer[j].conn = closer[k].conn => j = k

(* A Close takes the current connection, and a new one is current before it *)
(* can be taken.                                                           *)
LEMMA ConnStep == TypeOK /\ ConnInv /\ [Next]_vars => ConnInv'
<1> SUFFICES ASSUME TypeOK, ConnInv, [Next]_vars PROVE ConnInv'
  OBVIOUS
<1>1. conn \in Conns \cup {NoConn}
  BY DEF TypeOK
<1>2. link \in [Conns -> Link]
  BY DEF TypeOK
<1>3. closer \in [Closers -> CloserState]
  BY DEF TypeOK
<1>4. ASSUME NEW q \in Calls,
             StartSubmit(q) \/ StartPing(q) \/ ConnectBound(q) \/ ConnectDials(q) \/ Register(q)
      PROVE  ConnInv'
  <2>1. UNCHANGED <<conn, link, closer>>
    BY <1>4
       DEF StartSubmit, StartPing, ConnectBound, ConnectDials, Register, session, goroutines
  <2> QED
    BY <2>1 DEF ConnInv
<1>5. ASSUME NEW c \in Conns, Deliver(c) PROVE ConnInv'
  <2>1. UNCHANGED <<conn, link, closer>>
    BY <1>5 DEF Deliver, session, goroutines
  <2> QED
    BY <2>1 DEF ConnInv
<1>6. ASSUME NEW q \in Calls, DialFails(q) PROVE ConnInv'
  <2>1. HoldingsKept
    BY <1>6, <1>3, AskKeepsHoldings, Constants DEF DialFails
  <2>2. UNCHANGED <<conn, link>>
    BY <1>6 DEF DialFails, session
  <2> QED
    BY <2>1, <2>2 DEF ConnInv, HoldingsKept
<1>7. ASSUME NEW q \in Calls, DialSucceeds(q) PROVE ConnInv'
  BY <1>7, <1>1, <1>2, <1>3
     DEF DialSucceeds, AfterConnect, FreshLink, session, goroutines, ConnInv, Link, CloserState
<1>8. ASSUME NEW q \in Calls, GetConn(q) PROVE ConnInv'
  BY <1>8, <1>1, <1>2, <1>3
     DEF GetConn, NextSeq, session, goroutines, ConnInv, Link, CloserState
<1>9. ASSUME NEW q \in Calls, NoActiveConnection(q) PROVE ConnInv'
  <2>1. HoldingsKept
    BY <1>9, <1>3, AskKeepsHoldings, Constants DEF NoActiveConnection
  <2>2. UNCHANGED <<conn, link>>
    BY <1>9 DEF NoActiveConnection, session
  <2> QED
    BY <2>1, <2>2 DEF ConnInv, HoldingsKept
<1>10. ASSUME NEW q \in Calls, WriteSucceeds(q) PROVE ConnInv'
  BY <1>10, <1>1, <1>2, <1>3
     DEF WriteSucceeds, Move, session, goroutines, ConnInv, Link, CloserState
<1>11. ASSUME NEW q \in Calls, WriteFails(q) PROVE ConnInv'
  <2>1. HoldingsKept
    BY <1>11, <1>3, AskKeepsHoldings DEF WriteFails, EndWithError
  <2>2. conn' = conn
    BY <1>11 DEF WriteFails, EndWithError
  <2>3. \A c \in Conns : link'[c].used = link[c].used /\ link'[c].closed = link[c].closed
    BY <1>11, <1>2 DEF WriteFails, Link
  <2>4. \A k \in Closers : closer[k].conn \in Conns \cup {NoConn}
    BY <1>3 DEF CloserState
  <2> QED
    BY <2>1, <2>2, <2>3, <2>4, <1>1 DEF ConnInv, HoldingsKept
<1>12. ASSUME NEW q \in Calls, Answered(q) PROVE ConnInv'
  <2>1. HoldingsKept
    BY <1>12, <1>3, AskKeepsHoldings, Constants DEF Answered
  <2>2. UNCHANGED <<conn, link>>
    BY <1>12 DEF Answered, session
  <2> QED
    BY <2>1, <2>2 DEF ConnInv, HoldingsKept
<1>13. ASSUME NEW q \in Calls, ChannelClosed(q) PROVE ConnInv'
  <2>1. HoldingsKept
    BY <1>13, <1>3, AskKeepsHoldings, Constants DEF ChannelClosed
  <2>2. UNCHANGED <<conn, link>>
    BY <1>13 DEF ChannelClosed, session
  <2> QED
    BY <2>1, <2>2 DEF ConnInv, HoldingsKept
<1>14. ASSUME NEW q \in Calls, DoneClosed(q) PROVE ConnInv'
  <2>1. HoldingsKept
    BY <1>14, <1>3, AskKeepsHoldings, Constants DEF DoneClosed, EndWithError
  <2>2. UNCHANGED <<conn, link>>
    BY <1>14 DEF DoneClosed, session, EndWithError
  <2> QED
    BY <2>1, <2>2 DEF ConnInv, HoldingsKept
<1>15. ASSUME NEW q \in Calls, ContextDone(q) PROVE ConnInv'
  <2>1. HoldingsKept
    BY <1>15, <1>3, AskKeepsHoldings, Constants DEF ContextDone, EndWithError
  <2>2. UNCHANGED <<conn, link>>
    BY <1>15 DEF ContextDone, session, EndWithError
  <2> QED
    BY <2>1, <2>2 DEF ConnInv, HoldingsKept
<1>16. ASSUME NEW c \in Conns, ReadFails(c) PROVE ConnInv'
  <2>1. HoldingsKept
    BY <1>16, <1>3, AskKeepsHoldings, Constants DEF ReadFails
  <2>2. UNCHANGED <<conn, link>>
    BY <1>16 DEF ReadFails, session
  <2> QED
    BY <2>1, <2>2 DEF ConnInv, HoldingsKept
<1>17. ASSUME NEW c \in Conns, Unbind(c) PROVE ConnInv'
  <2>1. HoldingsKept
    BY <1>17, <1>3, AskKeepsHoldings, Constants DEF Unbind
  <2>2. UNCHANGED <<conn, link>>
    BY <1>17 DEF Unbind, session
  <2> QED
    BY <2>1, <2>2 DEF ConnInv, HoldingsKept
<1>18. ASSUME NEW c \in Conns, UnbindAnswered(c) PROVE ConnInv'
  <2>1. HoldingsKept
    BY <1>18, <1>3, AskKeepsHoldings, Constants DEF UnbindAnswered
  <2>2. UNCHANGED <<conn, link>>
    BY <1>18 DEF UnbindAnswered, session
  <2> QED
    BY <2>1, <2>2 DEF ConnInv, HoldingsKept
<1>19. ASSUME NEW c \in Conns, LinkBreaks(c) PROVE ConnInv'
  BY <1>19, <1>1, <1>2, <1>3 DEF LinkBreaks, session, goroutines, ConnInv, Link, CloserState
<1>20. ASSUME NEW c \in Conns, NEW p \in Calls, ReadAnswer(c, p) PROVE ConnInv'
  BY <1>20, <1>1, <1>2, <1>3 DEF ReadAnswer, session, goroutines, ConnInv, Link, CloserState
<1>21. ASSUME NEW k \in Closers, CloseTakes(k) PROVE ConnInv'
  BY <1>21, <1>1, <1>2, <1>3
     DEF CloseTakes, Take, Waiting, IdleCloser, NoPending, session, goroutines, ConnInv, Link,
         CloserState
<1>22. ASSUME NEW k \in Closers, CloseFinishes(k) PROVE ConnInv'
  BY <1>22, <1>1, <1>2, <1>3
     DEF CloseFinishes, ClosedLink, IdleCloser, session, goroutines, ConnInv, Link, CloserState
<1>23. ASSUME ClientClose PROVE ConnInv'
  <2>1. HoldingsKept
    BY <1>23, <1>3, AskKeepsHoldings, Constants DEF ClientClose
  <2>2. UNCHANGED <<conn, link>>
    BY <1>23 DEF ClientClose, session
  <2> QED
    BY <2>1, <2>2 DEF ConnInv, HoldingsKept
<1>24. ASSUME UNCHANGED vars PROVE ConnInv'
  <2>1. UNCHANGED <<conn, link, closer>>
    BY <1>24 DEF vars, session, goroutines
  <2> QED
    BY <2>1 DEF ConnInv
<1> QED
  BY ActionCases, <1>4, <1>5, <1>6, <1>7, <1>8, <1>9, <1>10, <1>11, <1>12, <1>13, <1>14, <1>15,
     <1>16, <1>17, <1>18, <1>19, <1>20, <1>21, <1>22, <1>23, <1>24

----------------------------------------------------------------------------
(* A Close is over before it is asked for again *)

(* A read loop ends when it asks for its Close, and rounds of the run loop *)
(* take turns with the client's Close: no Close drops what it holds.       *)
HandsInv ==
    /\ \A c \in Conns :
        /\ ~link[c].used => reader[c].pc = "none"
        /\ closer[<<"read", c>>].pc # "idle" => reader[c].pc = "gone"
    /\ \A k \in Closers : closer[k].pc # "finish" => closer[k].conn = NoConn
    /\ \A p \in Pings : Active(p) => closer[Client].pc = "idle"
    /\ \A p, q \in Pings : Active(p) /\ Active(q) => p = q

(* A call that only goes on asks for nothing. *)
LEMMA GoingOnKeepsHands ==
    ASSUME HandsInv, UNCHANGED <<reader, closer>>,
           \A c \in Conns : link'[c].used = link[c].used,
           \A p \in Pings : Active(p)' => Active(p)
    PROVE  HandsInv'
  BY DEF HandsInv

(* A round that fails is the only one, and nobody closes for the client. *)
LEMMA EndKeepsHands ==
    ASSUME TypeOK, HandsInv, NEW q \in Calls, Active(q), ~Active(q)', NEW at, CloseAfter(q, at),
           reader' = reader, \A c \in Conns : link'[c].used = link[c].used,
           \A p \in Calls \ {q} : call'[p] = call[p]
    PROVE  HandsInv'
<1>1. \A p \in Pings : Active(p)' => Active(p) /\ p # q
  BY DEF Active, Calls
<1>2. CASE closer' = closer
  BY <1>1, <1>2, GoingOnKeepsHands
<1>3. CASE q \in Pings /\ closer' = Close(Client)
  <2>1. closer \in [Closers -> CloserState]
    BY DEF TypeOK
  <2>2. closer[Client].pc = "idle" /\ closer[Client].conn = NoConn
    BY <1>3, Constants DEF HandsInv
  <2>3. closer'[Client].conn = NoConn /\ \A k \in Closers \ {Client} : closer'[k] = closer[k]
    BY <1>3, <2>1, <2>2, Constants DEF Close, CloserState
  <2>4. \A p \in Pings : ~Active(p)'
    BY <1>1, <1>3 DEF HandsInv
  <2>5. \A c \in Conns : closer'[<<"read", c>>] = closer[<<"read", c>>]
    BY <2>3, Constants
  <2>6. \A k \in Closers : closer'[k].pc # "finish" => closer'[k].conn = NoConn
    BY <2>3 DEF HandsInv
  <2> QED
    BY <2>4, <2>5, <2>6 DEF HandsInv
<1> QED
  BY <1>2, <1>3 DEF CloseAfter

(* Every step that asks for a Close finds it idle, or its own unbind's. *)
LEMMA HandsStep == TypeOK /\ HandsInv /\ [Next]_vars => HandsInv'
<1> SUFFICES ASSUME TypeOK, HandsInv, [Next]_vars PROVE HandsInv'
  OBVIOUS
<1>1. call \in [Calls -> CallState]
  BY DEF TypeOK
<1>2. link \in [Conns -> Link]
  BY DEF TypeOK
<1>3. reader \in [Conns -> ReaderState]
  BY DEF TypeOK
<1>4. closer \in [Closers -> CloserState]
  BY DEF TypeOK
<1>5. /\ Client \in Closers /\ Pings \subseteq Calls
      /\ \A c \in Conns : <<"read", c>> \in Closers /\ <<"unbind", c>> \in Closers
      /\ \A c \in Conns : <<"read", c>> # Client /\ <<"unbind", c>> # Client
      /\ \A c, d \in Conns : <<"read", c>> # <<"unbind", d>> /\ (<<"read", c>> = <<"read", d>> => c = d)
  BY Constants DEF Calls
<1>6. ASSUME NEW q \in Calls, StartSubmit(q) PROVE HandsInv'
  <2>1. UNCHANGED <<reader, closer>>
    BY <1>6 DEF StartSubmit
  <2>2. \A c \in Conns : link'[c].used = link[c].used
    BY <1>6 DEF StartSubmit
  <2>3. \A p \in Pings : Active(p)' => Active(p)
    BY <1>6, <1>1, SessionConstants DEF StartSubmit, Active, Calls
  <2> QED
    BY <2>1, <2>2, <2>3, GoingOnKeepsHands
<1>7. ASSUME NEW q \in Calls, StartPing(q) PROVE HandsInv'
  BY <1>7, <1>1, <1>2, <1>3, <1>4
     DEF StartPing, Move, session, goroutines, HandsInv, Active, CallState, Link, ReaderState,
         CloserState
<1>8. ASSUME NEW q \in Calls, ConnectBound(q) PROVE HandsInv'
  <2>1. UNCHANGED <<reader, closer>>
    BY <1>8 DEF ConnectBound
  <2>2. \A c \in Conns : link'[c].used = link[c].used
    BY <1>8 DEF ConnectBound
  <2>3. \A p \in Pings : Active(p)' => Active(p)
    <3>1. Active(q) /\ \A p \in Calls \ {q} : call'[p] = call[p]
      BY <1>8, <1>1 DEF ConnectBound, Active, AfterConnect
    <3> QED
      BY <3>1 DEF Active, Calls
  <2> QED
    BY <2>1, <2>2, <2>3, GoingOnKeepsHands
<1>9. ASSUME NEW q \in Calls, ConnectDials(q) PROVE HandsInv'
  <2>1. UNCHANGED <<reader, closer>>
    BY <1>9 DEF ConnectDials
  <2>2. \A c \in Conns : link'[c].used = link[c].used
    BY <1>9 DEF ConnectDials
  <2>3. \A p \in Pings : Active(p)' => Active(p)
    <3>1. Active(q) /\ \A p \in Calls \ {q} : call'[p] = call[p]
      BY <1>9, <1>1 DEF ConnectDials, Active, Move
    <3> QED
      BY <3>1 DEF Active, Calls
  <2> QED
    BY <2>1, <2>2, <2>3, GoingOnKeepsHands
<1>10. ASSUME NEW q \in Calls, DialFails(q) PROVE HandsInv'
  <2>1. reader' = reader /\ \A c \in Conns : link'[c].used = link[c].used
    BY <1>10 DEF DialFails, Move
  <2>2. Active(q) /\ ~Active(q)' /\ \A p \in Calls \ {q} : call'[p] = call[p]
    BY <1>10, <1>1 DEF DialFails, Active, CallState, Move
  <2>3. \E at : CloseAfter(q, at)
    BY <1>10 DEF DialFails
  <2> QED
    BY <2>1, <2>2, <2>3, EndKeepsHands
<1>11. ASSUME NEW q \in Calls, DialSucceeds(q) PROVE HandsInv'
  BY <1>11, <1>1, <1>2, <1>3, <1>4
     DEF DialSucceeds, AfterConnect, FreshLink, session, goroutines, HandsInv, Active, CallState,
         Link, ReaderState, CloserState
<1>12. ASSUME NEW q \in Calls, GetConn(q) PROVE HandsInv'
  <2>1. UNCHANGED <<reader, closer>>
    BY <1>12 DEF GetConn
  <2>2. \A c \in Conns : link'[c].used = link[c].used
    BY <1>12, <1>2 DEF GetConn, Link, NextSeq
  <2>3. \A p \in Pings : Active(p)' => Active(p)
    <3>1. Active(q) /\ \A p \in Calls \ {q} : call'[p] = call[p]
      BY <1>12, <1>1 DEF GetConn, Active
    <3> QED
      BY <3>1 DEF Active, Calls
  <2> QED
    BY <2>1, <2>2, <2>3, GoingOnKeepsHands
<1>13. ASSUME NEW q \in Calls, NoActiveConnection(q) PROVE HandsInv'
  <2>1. reader' = reader /\ \A c \in Conns : link'[c].used = link[c].used
    BY <1>13 DEF NoActiveConnection, Move
  <2>2. Active(q) /\ ~Active(q)' /\ \A p \in Calls \ {q} : call'[p] = call[p]
    BY <1>13, <1>1 DEF NoActiveConnection, Active, CallState, Move
  <2>3. \E at : CloseAfter(q, at)
    BY <1>13 DEF NoActiveConnection
  <2> QED
    BY <2>1, <2>2, <2>3, EndKeepsHands
<1>14. ASSUME NEW q \in Calls, Register(q) PROVE HandsInv'
  <2>1. UNCHANGED <<reader, closer>>
    BY <1>14 DEF Register
  <2>2. \A c \in Conns : link'[c].used = link[c].used
    BY <1>14 DEF Register
  <2>3. \A p \in Pings : Active(p)' => Active(p)
    <3>1. Active(q) /\ \A p \in Calls \ {q} : call'[p] = call[p]
      BY <1>14, <1>1 DEF Register, Active
    <3> QED
      BY <3>1 DEF Active, Calls
  <2> QED
    BY <2>1, <2>2, <2>3, GoingOnKeepsHands
<1>15. ASSUME NEW q \in Calls, WriteSucceeds(q) PROVE HandsInv'
  <2>1. UNCHANGED <<reader, closer>>
    BY <1>15 DEF WriteSucceeds
  <2>2. \A c \in Conns : link'[c].used = link[c].used
    BY <1>15, <1>2 DEF WriteSucceeds, Link
  <2>3. \A p \in Pings : Active(p)' => Active(p)
    <3>1. Active(q) /\ \A p \in Calls \ {q} : call'[p] = call[p]
      BY <1>15, <1>1 DEF WriteSucceeds, Active, Move
    <3> QED
      BY <3>1 DEF Active, Calls
  <2> QED
    BY <2>1, <2>2, <2>3, GoingOnKeepsHands
<1>16. ASSUME NEW q \in Calls, WriteFails(q) PROVE HandsInv'
  <2>1. reader' = reader /\ \A c \in Conns : link'[c].used = link[c].used
    BY <1>16, <1>2 DEF WriteFails, Link, Move, EndWithError
  <2>2. Active(q) /\ ~Active(q)' /\ \A p \in Calls \ {q} : call'[p] = call[p]
    BY <1>16, <1>1 DEF WriteFails, Active, CallState, Move, EndWithError
  <2>3. \E at : CloseAfter(q, at)
    BY <1>16 DEF WriteFails, EndWithError
  <2> QED
    BY <2>1, <2>2, <2>3, EndKeepsHands
<1>17. ASSUME NEW q \in Calls, Answered(q) PROVE HandsInv'
  <2>1. reader' = reader /\ \A c \in Conns : link'[c].used = link[c].used
    BY <1>17 DEF Answered
  <2>2. Active(q) /\ ~Active(q)' /\ \A p \in Calls \ {q} : call'[p] = call[p]
    BY <1>17, <1>1 DEF Answered, Active, CallState
  <2>3. \E at : CloseAfter(q, at)
    BY <1>17 DEF Answered
  <2> QED
    BY <2>1, <2>2, <2>3, EndKeepsHands
<1>18. ASSUME NEW q \in Calls, ChannelClosed(q) PROVE HandsInv'
  <2>1. reader' = reader /\ \A c \in Conns : link'[c].used = link[c].used
    BY <1>18 DEF ChannelClosed, Move
  <2>2. Active(q) /\ ~Active(q)' /\ \A p \in Calls \ {q} : call'[p] = call[p]
    BY <1>18, <1>1 DEF ChannelClosed, Active, CallState, Move
  <2>3. \E at : CloseAfter(q, at)
    BY <1>18 DEF ChannelClosed
  <2> QED
    BY <2>1, <2>2, <2>3, EndKeepsHands
<1>19. ASSUME NEW q \in Calls, DoneClosed(q) PROVE HandsInv'
  <2>1. reader' = reader /\ \A c \in Conns : link'[c].used = link[c].used
    BY <1>19 DEF DoneClosed, Move, EndWithError
  <2>2. Active(q) /\ ~Active(q)' /\ \A p \in Calls \ {q} : call'[p] = call[p]
    BY <1>19, <1>1 DEF DoneClosed, Active, CallState, Move, EndWithError
  <2>3. \E at : CloseAfter(q, at)
    BY <1>19 DEF DoneClosed, EndWithError
  <2> QED
    BY <2>1, <2>2, <2>3, EndKeepsHands
<1>20. ASSUME NEW q \in Calls, ContextDone(q) PROVE HandsInv'
  <2>1. reader' = reader /\ \A c \in Conns : link'[c].used = link[c].used
    BY <1>20 DEF ContextDone, Move, EndWithError
  <2>2. Active(q) /\ ~Active(q)' /\ \A p \in Calls \ {q} : call'[p] = call[p]
    BY <1>20, <1>1 DEF ContextDone, Active, CallState, Move, EndWithError
  <2>3. \E at : CloseAfter(q, at)
    BY <1>20 DEF ContextDone, EndWithError
  <2> QED
    BY <2>1, <2>2, <2>3, EndKeepsHands
<1>21. ASSUME NEW c \in Conns, Deliver(c) PROVE HandsInv'
  BY <1>21, <1>1, <1>2, <1>3, <1>4
     DEF Deliver, session, goroutines, HandsInv, Active, CallState, Link, ReaderState,
         CloserState
<1>22. ASSUME NEW c \in Conns, ReadFails(c) PROVE HandsInv'
  <2> DEFINE k == <<"read", c>>
  <2>1. UNCHANGED <<call, link>>
    BY <1>22 DEF ReadFails
  <2>2. reader[c].pc = "read" /\ reader'[c].pc = "gone" /\ \A d \in Conns \ {c} : reader'[d] = reader[d]
    BY <1>22, <1>3 DEF ReadFails, ReaderState
  <2>3. k \in Closers /\ closer[k].pc = "idle" /\ closer[k].conn = NoConn
    BY <2>2, <1>5 DEF HandsInv
  <2>4. closer'[k].conn = NoConn /\ \A j \in Closers \ {k} : closer'[j] = closer[j]
    BY <1>22, <2>3, <1>4 DEF ReadFails, Close, CloserState
  <2>5. /\ closer'[Client] = closer[Client]
        /\ \A d \in Conns \ {c} : closer'[<<"read", d>>] = closer[<<"read", d>>]
    BY <2>4, <1>5
  <2>6. \A j \in Closers : closer'[j].pc # "finish" => closer'[j].conn = NoConn
    BY <2>4 DEF HandsInv
  <2> QED
    BY <2>1, <2>2, <2>5, <2>6 DEF HandsInv, Active
<1>23. ASSUME NEW c \in Conns, Unbind(c) PROVE HandsInv'
  <2> DEFINE k == <<"unbind", c>>
  <2>1. UNCHANGED <<call, link, reader>>
    BY <1>23 DEF Unbind
  <2>2. k \in Closers /\ closer[k].pc # "finish" /\ closer[k].conn = NoConn
    BY <1>23, <1>5 DEF Unbind, HandsInv
  <2>3. closer'[k].conn = NoConn /\ \A j \in Closers \ {k} : closer'[j] = closer[j]
    BY <1>23, <2>2, <1>4 DEF Unbind, Close, CloserState
  <2>4. closer'[Client] = closer[Client] /\ \A d \in Conns : closer'[<<"read", d>>] = closer[<<"read", d>>]
    BY <2>3, <1>5
  <2>5. \A j \in Closers : closer'[j].pc # "finish" => closer'[j].conn = NoConn
    BY <2>3 DEF HandsInv
  <2> QED
    BY <2>1, <2>4, <2>5 DEF HandsInv, Active
<1>24. ASSUME NEW c \in Conns, UnbindAnswered(c) PROVE HandsInv'
  <2> DEFINE k == <<"unbind", c>>
  <2>1. UNCHANGED <<call, link, reader>>
    BY <1>24 DEF UnbindAnswered
  <2>2. k \in Closers /\ closer[k].pc # "finish" /\ closer[k].conn = NoConn
    BY <1>24, <1>5 DEF UnbindAnswered, HandsInv
  <2>3. closer'[k].conn = NoConn /\ \A j \in Closers \ {k} : closer'[j] = closer[j]
    BY <1>24, <2>2, <1>4 DEF UnbindAnswered, Close, CloserState
  <2>4. closer'[Client] = closer[Client] /\ \A d \in Conns : closer'[<<"read", d>>] = closer[<<"read", d>>]
    BY <2>3, <1>5
  <2>5. \A j \in Closers : closer'[j].pc # "finish" => closer'[j].conn = NoConn
    BY <2>3 DEF HandsInv
  <2> QED
    BY <2>1, <2>4, <2>5 DEF HandsInv, Active
<1>25. ASSUME NEW c \in Conns, LinkBreaks(c) PROVE HandsInv'
  BY <1>25, <1>1, <1>2, <1>3, <1>4
     DEF LinkBreaks, session, goroutines, HandsInv, Active, CallState, Link, ReaderState,
         CloserState
<1>26. ASSUME NEW c \in Conns, NEW p \in Calls, ReadAnswer(c, p) PROVE HandsInv'
  BY <1>26, <1>1, <1>2, <1>3, <1>4
     DEF ReadAnswer, session, goroutines, HandsInv, Active, CallState, Link, ReaderState,
         CloserState
<1>27. ASSUME NEW k \in Closers, CloseTakes(k) PROVE HandsInv'
  BY <1>27, <1>1, <1>2, <1>3, <1>4
     DEF CloseTakes, Take, Waiting, IdleCloser, NoPending, session, goroutines, HandsInv, Active,
         CallState, Link, ReaderState, CloserState
<1>28. ASSUME NEW k \in Closers, CloseFinishes(k) PROVE HandsInv'
  BY <1>28, <1>1, <1>2, <1>3, <1>4
     DEF CloseFinishes, ClosedLink, IdleCloser, session, goroutines, HandsInv, Active, CallState,
         Link, ReaderState, CloserState
<1>29. ASSUME ClientClose PROVE HandsInv'
  <2>1. UNCHANGED <<call, link, reader>>
    BY <1>29 DEF ClientClose
  <2>2. closer[Client].conn = NoConn /\ \A p \in Pings : ~Active(p)
    BY <1>29, <1>5 DEF ClientClose, HandsInv
  <2>3. closer'[Client].conn = NoConn /\ \A j \in Closers \ {Client} : closer'[j] = closer[j]
    BY <1>29, <2>2, <1>5, <1>4 DEF ClientClose, Close, CloserState
  <2>4. \A d \in Conns : closer'[<<"read", d>>] = closer[<<"read", d>>]
    BY <2>3, <1>5
  <2>5. \A j \in Closers : closer'[j].pc # "finish" => closer'[j].conn = NoConn
    BY <2>3 DEF HandsInv
  <2> QED
    BY <2>1, <2>2, <2>4, <2>5 DEF HandsInv, Active
<1>30. ASSUME UNCHANGED vars PROVE HandsInv'
  <2>1. UNCHANGED <<call, link, reader, closer>>
    BY <1>30 DEF vars, session, goroutines
  <2> QED
    BY <2>1 DEF HandsInv, Active
<1> QED
  BY ActionCases, <1>6, <1>7, <1>8, <1>9, <1>10, <1>11, <1>12, <1>13, <1>14, <1>15, <1>16, <1>17,
     <1>18, <1>19, <1>20, <1>21, <1>22, <1>23, <1>24, <1>25, <1>26, <1>27, <1>28, <1>29, <1>30

----------------------------------------------------------------------------
(* A channel has one holder *)

InPending(q) == \E s \in Seqs : pending[s] = q
InReader(q) == \E c \in Conns : reader[c].hand = q
InCloser(q) == \E k \in Closers : q \in closer[k].chans

(* The channel of a call is registered under its own number while the call *)
(* waits; it goes on to one read loop or to one Close, and then is done.   *)
HolderInv ==
    \A q \in Calls :
        /\ call[q].pc \notin {"write", "wait", "ended"} =>
              chan[q].state = "open" /\ ~InReader(q) /\ ~InCloser(q)
        /\ \A s \in Seqs : pending[s] = q =>
              /\ call[q].pc \in {"write", "wait"} /\ call[q].seq = s
              /\ chan[q].state = "open" /\ ~InReader(q) /\ ~InCloser(q)
        /\ InReader(q) => chan[q].state = "open" /\ ~InCloser(q)
        /\ InCloser(q) => chan[q].state = "open"
        /\ \A c, d \in Conns : reader[c].hand = q /\ reader[d].hand = q => c = d
        /\ \A j, k \in Closers : q \in closer[j].chans /\ q \in closer[k].chans => j = k

(* A call that ends leaves the pending map. *)
LEMMA EndKeepsHolders ==
    ASSUME TypeOK, HolderInv, NEW q \in Calls,
           HoldingsKept, UNCHANGED <<chan, reader>>,
           \A p \in Calls \ {q} : call'[p] = call[p], call'[q].pc = "ended",
           \A s \in Seqs : pending'[s] # q /\ (pending'[s] = pending[s] \/ pending'[s] = NoCall)
    PROVE  HolderInv'
<1>1. NoCall \notin Calls
  BY Constants
<1>2. \A p \in Calls : (InCloser(p)' <=> InCloser(p)) /\ (InReader(p)' <=> InReader(p))
  BY DEF InCloser, InReader, HoldingsKept
<1>3. \A p \in Calls, k \in Closers : p \in closer'[k].chans <=> p \in closer[k].chans
  BY DEF HoldingsKept
<1>4. ASSUME NEW p \in Calls, NEW s \in Seqs, pending'[s] = p
      PROVE  pending[s] = p /\ p # q
  BY <1>1, <1>4
<1> QED
  BY <1>2, <1>3, <1>4 DEF HolderInv

(* A registered call's entry is its own only under its own number. *)
LEMMA UnregisterRemoves ==
    ASSUME TypeOK, NumbersInv, HolderInv, NEW q \in Calls, call[q].pc \in {"write", "wait"},
           EndWithError(q)
    PROVE  \A s \in Seqs : pending'[s] # q /\ (pending'[s] = pending[s] \/ pending'[s] = NoCall)
<1>1. call[q].seq \in Seqs /\ pending \in [Seqs -> Calls \cup {NoCall}] /\ NoCall # q
  BY Constants DEF NumbersInv, CallNumber, TypeOK
<1>2. \A s \in Seqs : pending[s] = q => call[q].seq = s
  BY DEF HolderInv
<1> QED
  BY <1>1, <1>2 DEF EndWithError, UnregisterPending

(* Each step takes a channel from where it is to one other place. *)
LEMMA HolderStep == TypeOK /\ NumbersInv /\ HolderInv /\ [Next]_vars => HolderInv'
<1> SUFFICES ASSUME TypeOK, NumbersInv, HolderInv, [Next]_vars PROVE HolderInv'
  OBVIOUS
<1>1. call \in [Calls -> CallState]
  BY DEF TypeOK
<1>2. chan \in [Calls -> ChannelState]
  BY DEF TypeOK
<1>3. reader \in [Conns -> ReaderState]
  BY DEF TypeOK
<1>4. closer \in [Closers -> CloserState]
  BY DEF TypeOK
<1>5. pending \in [Seqs -> Calls \cup {NoCall}]
  BY DEF TypeOK
<1>6. NoCall \notin Calls
  BY Constants
<1>7. \A q \in Calls : call[q].pc \in {"register", "write", "wait"} => call[q].seq \in Seqs
  BY DEF NumbersInv, CallNumber
<1>8. ASSUME NEW c \in Conns, LinkBreaks(c) PROVE HolderInv'
  <2>1. UNCHANGED <<call, chan, reader, closer, pending>>
    BY <1>8 DEF LinkBreaks, session, goroutines
  <2> QED
    BY <2>1 DEF HolderInv, InPending, InReader, InCloser
<1>9. ASSUME NEW q \in Calls, StartSubmit(q) PROVE HolderInv'
  BY <1>9, <1>1, <1>2, <1>3, <1>4, <1>5
     DEF StartSubmit, session, goroutines, HolderInv, InPending, InReader, InCloser, CallState,
         ChannelState, ReaderState, CloserState
<1>10. ASSUME NEW q \in Calls, StartPing(q) PROVE HolderInv'
  BY <1>10, <1>1, <1>2, <1>3, <1>4, <1>5
     DEF StartPing, Move, Active, session, goroutines, HolderInv, InPending, InReader, InCloser,
         CallState, ChannelState, ReaderState, CloserState
<1>11. ASSUME NEW q \in Calls, ConnectBound(q) PROVE HolderInv'
  BY <1>11, <1>1, <1>2, <1>3, <1>4, <1>5
     DEF ConnectBound, AfterConnect, AlreadyBound, session, goroutines, HolderInv, InPending,
         InReader, InCloser, CallState, ChannelState, ReaderState, CloserState
<1>12. ASSUME NEW q \in Calls, ConnectDials(q) PROVE HolderInv'
  BY <1>12, <1>1, <1>2, <1>3, <1>4, <1>5
     DEF ConnectDials, Move, AlreadyBound, session, goroutines, HolderInv, InPending, InReader,
         InCloser, CallState, ChannelState, ReaderState, CloserState
<1>13. ASSUME NEW q \in Calls, DialFails(q) PROVE HolderInv'
  <2>1. HoldingsKept
    BY <1>13, <1>4, AskKeepsHoldings DEF DialFails
  <2>2. UNCHANGED <<chan, reader, pending>>
    BY <1>13 DEF DialFails, session
  <2>3. call'[q].pc = "ended" /\ \A p \in Calls \ {q} : call'[p] = call[p]
    BY <1>13, <1>1 DEF DialFails, CallState, Move
  <2>4. \A s \in Seqs : pending[s] # q
    BY <1>13 DEF DialFails, HolderInv
  <2> QED
    BY <2>1, <2>2, <2>3, <2>4, EndKeepsHolders
<1>14. ASSUME NEW q \in Calls, DialSucceeds(q) PROVE HolderInv'
  BY <1>14, <1>1, <1>2, <1>3, <1>4, <1>5
     DEF DialSucceeds, AfterConnect, FreshLink, session, goroutines, HolderInv, InPending,
         InReader, InCloser, CallState, ChannelState, ReaderState, CloserState
<1>15. ASSUME NEW q \in Calls, GetConn(q) PROVE HolderInv'
  BY <1>15, <1>1, <1>2, <1>3, <1>4, <1>5
     DEF GetConn, NextSeq, session, goroutines, HolderInv, InPending, InReader, InCloser,
         CallState, ChannelState, ReaderState, CloserState
<1>16. ASSUME NEW q \in Calls, NoActiveConnection(q) PROVE HolderInv'
  <2>1. HoldingsKept
    BY <1>16, <1>4, AskKeepsHoldings DEF NoActiveConnection
  <2>2. UNCHANGED <<chan, reader, pending>>
    BY <1>16 DEF NoActiveConnection, session
  <2>3. call'[q].pc = "ended" /\ \A p \in Calls \ {q} : call'[p] = call[p]
    BY <1>16, <1>1 DEF NoActiveConnection, CallState, Move
  <2>4. \A s \in Seqs : pending[s] # q
    BY <1>16 DEF NoActiveConnection, HolderInv
  <2> QED
    BY <2>1, <2>2, <2>3, <2>4, EndKeepsHolders
<1>17. ASSUME NEW q \in Calls, Register(q) PROVE HolderInv'
  BY <1>17, <1>1, <1>2, <1>3, <1>4, <1>5
     DEF Register, session, goroutines, HolderInv, InPending, InReader, InCloser, CallState,
         ChannelState, ReaderState, CloserState
<1>18. ASSUME NEW q \in Calls, WriteSucceeds(q) PROVE HolderInv'
  BY <1>18, <1>1, <1>2, <1>3, <1>4, <1>5
     DEF WriteSucceeds, Move, session, goroutines, HolderInv, InPending, InReader, InCloser,
         CallState, ChannelState, ReaderState, CloserState
<1>19. ASSUME NEW q \in Calls, WriteFails(q) PROVE HolderInv'
  <2>1. HoldingsKept
    BY <1>19, <1>4, AskKeepsHoldings DEF WriteFails, EndWithError
  <2>2. UNCHANGED <<chan, reader>>
    BY <1>19 DEF WriteFails, EndWithError
  <2>3. call'[q].pc = "ended" /\ \A p \in Calls \ {q} : call'[p] = call[p]
    BY <1>19, <1>1 DEF WriteFails, EndWithError, CallState, Move
  <2>4. \A s \in Seqs : pending'[s] # q /\ (pending'[s] = pending[s] \/ pending'[s] = NoCall)
    BY <1>19, UnregisterRemoves DEF WriteFails
  <2> QED
    BY <2>1, <2>2, <2>3, <2>4, EndKeepsHolders
<1>20. ASSUME NEW q \in Calls, Answered(q) PROVE HolderInv'
  <2>1. HoldingsKept
    BY <1>20, <1>4, AskKeepsHoldings DEF Answered
  <2>2. UNCHANGED <<chan, reader, pending>>
    BY <1>20 DEF Answered, session
  <2>3. call'[q].pc = "ended" /\ \A p \in Calls \ {q} : call'[p] = call[p]
    BY <1>20, <1>1 DEF Answered, CallState
  <2>4. \A s \in Seqs : pending[s] # q
    BY <1>20 DEF Answered, HolderInv
  <2> QED
    BY <2>1, <2>2, <2>3, <2>4, EndKeepsHolders
<1>21. ASSUME NEW q \in Calls, ChannelClosed(q) PROVE HolderInv'
  <2>1. HoldingsKept
    BY <1>21, <1>4, AskKeepsHoldings DEF ChannelClosed
  <2>2. UNCHANGED <<chan, reader, pending>>
    BY <1>21 DEF ChannelClosed, session
  <2>3. call'[q].pc = "ended" /\ \A p \in Calls \ {q} : call'[p] = call[p]
    BY <1>21, <1>1 DEF ChannelClosed, CallState, Move
  <2>4. \A s \in Seqs : pending[s] # q
    BY <1>21 DEF ChannelClosed, HolderInv
  <2> QED
    BY <2>1, <2>2, <2>3, <2>4, EndKeepsHolders
<1>22. ASSUME NEW q \in Calls, DoneClosed(q) PROVE HolderInv'
  <2>1. HoldingsKept
    BY <1>22, <1>4, AskKeepsHoldings DEF DoneClosed, EndWithError
  <2>2. UNCHANGED <<chan, reader>>
    BY <1>22 DEF DoneClosed, EndWithError
  <2>3. call'[q].pc = "ended" /\ \A p \in Calls \ {q} : call'[p] = call[p]
    BY <1>22, <1>1 DEF DoneClosed, EndWithError, CallState, Move
  <2>4. \A s \in Seqs : pending'[s] # q /\ (pending'[s] = pending[s] \/ pending'[s] = NoCall)
    BY <1>22, UnregisterRemoves DEF DoneClosed
  <2> QED
    BY <2>1, <2>2, <2>3, <2>4, EndKeepsHolders
<1>23. ASSUME NEW q \in Calls, ContextDone(q) PROVE HolderInv'
  <2>1. HoldingsKept
    BY <1>23, <1>4, AskKeepsHoldings DEF ContextDone, EndWithError
  <2>2. UNCHANGED <<chan, reader>>
    BY <1>23 DEF ContextDone, EndWithError
  <2>3. call'[q].pc = "ended" /\ \A p \in Calls \ {q} : call'[p] = call[p]
    BY <1>23, <1>1 DEF ContextDone, EndWithError, CallState, Move
  <2>4. \A s \in Seqs : pending'[s] # q /\ (pending'[s] = pending[s] \/ pending'[s] = NoCall)
    BY <1>23, UnregisterRemoves DEF ContextDone
  <2> QED
    BY <2>1, <2>2, <2>3, <2>4, EndKeepsHolders
<1>24. ASSUME NEW c \in Conns, Deliver(c) PROVE HolderInv'
  <2> DEFINE r == reader[c].hand
  <2>1. UNCHANGED <<call, pending, closer>>
    BY <1>24 DEF Deliver, session
  <2>2. reader'[c].hand = NoCall /\ \A d \in Conns \ {c} : reader'[d] = reader[d]
    BY <1>24, <1>3 DEF Deliver
  <2>3. \A p \in Calls : p # r => chan'[p] = chan[p]
    BY <1>24, <1>2 DEF Deliver
  <2>4. \A p \in Calls : p = r => InReader(p) /\ ~InPending(p) /\ ~InCloser(p)
    BY <1>24 DEF HolderInv, InPending, InReader
  <2>5. \A p \in Calls : p = r => ~InReader(p)'
    BY <2>2, <1>6 DEF HolderInv, InReader
  <2>6. \A p \in Calls : p # r => (InReader(p)' <=> InReader(p))
    BY <2>2, <1>6 DEF InReader
  <2>7. \A p \in Calls : InCloser(p)' <=> InCloser(p)
    BY <2>1 DEF InCloser
  <2>8. \A p \in Calls : p = r => call[p].pc \in {"write", "wait", "ended"}
    BY <2>4 DEF HolderInv
  <2> QED
    BY <2>1, <2>2, <2>3, <2>4, <2>5, <2>6, <2>7, <2>8, <1>6 DEF HolderInv, InPending
<1>25. ASSUME NEW c \in Conns, ReadFails(c) PROVE HolderInv'
  <2>1. HoldingsKept
    BY <1>25, <1>4, AskKeepsHoldings, Constants DEF ReadFails
  <2>2. UNCHANGED <<call, chan, pending>>
    BY <1>25 DEF ReadFails, session
  <2>3. \A d \in Conns : reader'[d].hand = reader[d].hand
    BY <1>25, <1>3 DEF ReadFails, ReaderState
  <2> QED
    BY <2>1, <2>2, <2>3 DEF HoldingsKept, HolderInv, InPending, InReader, InCloser
<1>26. ASSUME NEW c \in Conns, Unbind(c) PROVE HolderInv'
  <2>1. HoldingsKept
    BY <1>26, <1>4, AskKeepsHoldings, Constants DEF Unbind
  <2>2. UNCHANGED <<call, chan, pending>>
    BY <1>26 DEF Unbind, session
  <2>3. \A d \in Conns : reader'[d].hand = reader[d].hand
    BY <1>26, <1>3 DEF Unbind, ReaderState
  <2> QED
    BY <2>1, <2>2, <2>3 DEF HoldingsKept, HolderInv, InPending, InReader, InCloser
<1>27. ASSUME NEW c \in Conns, UnbindAnswered(c) PROVE HolderInv'
  <2>1. HoldingsKept
    BY <1>27, <1>4, AskKeepsHoldings, Constants DEF UnbindAnswered
  <2>2. UNCHANGED <<call, chan, pending>>
    BY <1>27 DEF UnbindAnswered, session
  <2>3. \A d \in Conns : reader'[d].hand = reader[d].hand
    BY <1>27, <1>3 DEF UnbindAnswered, ReaderState
  <2> QED
    BY <2>1, <2>2, <2>3 DEF HoldingsKept, HolderInv, InPending, InReader, InCloser
<1>28. ASSUME NEW c \in Conns, NEW p \in Calls, ReadAnswer(c, p) PROVE HolderInv'
  <2> DEFINE s == call[p].seq
              r == pending[s]
  <2>1. UNCHANGED <<call, chan, closer>>
    BY <1>28 DEF ReadAnswer
  <2>2. s \in Seqs
    <3>1. p \in link[c].sent
      BY <1>28 DEF ReadAnswer
    <3> QED
      BY <3>1 DEF NumbersInv, CallNumber
  <2>3. pending'[s] = NoCall /\ \A t \in Seqs \ {s} : pending'[t] = pending[t]
    BY <1>28, <2>2, <1>5 DEF ReadAnswer
  <2>4. \A d \in Conns \ {c} : reader'[d] = reader[d]
    BY <1>28, <1>3 DEF ReadAnswer
  <2>5. r # NoCall => reader'[c].hand = r
    BY <1>28, <1>3 DEF ReadAnswer
  <2>6. r = NoCall => reader' = reader
    BY <1>28 DEF ReadAnswer
  <2>7. \A q \in Calls : InCloser(q)' <=> InCloser(q)
    BY <2>1 DEF InCloser
  <2>8. CASE r = NoCall
    <3>1. \A q \in Calls : InReader(q)' <=> InReader(q)
      BY <2>6, <2>8 DEF InReader
    <3>2. \A q \in Calls, t \in Seqs : pending'[t] = q => pending[t] = q
      BY <2>3, <1>6
    <3> QED
      BY <2>1, <2>6, <2>7, <2>8, <3>1, <3>2 DEF HolderInv
  <2>9. CASE r # NoCall
    <3>1. r \in Calls
      BY <2>2, <2>9, <1>5
    <3>2. ~InReader(r) /\ ~InCloser(r) /\ chan[r].state = "open"
          /\ call[r].pc \in {"write", "wait"} /\ call[r].seq = s
      BY <2>2, <3>1 DEF HolderInv
    <3>3. \A t \in Seqs : pending'[t] # r
      BY <2>2, <2>3, <3>1, <1>6 DEF HolderInv
    <3>4. \A q \in Calls \ {r}, t \in Seqs : pending'[t] = q => pending[t] = q
      BY <2>3, <1>6
    <3>5. \A q \in Calls \ {r} : InReader(q)' => InReader(q)
      BY <2>4, <2>5, <2>9 DEF InReader
    <3>6. \A d \in Conns : reader'[d].hand = r => d = c
      BY <2>4, <3>2 DEF InReader
    <3>7. \A q \in Calls \ {r}, d \in Conns : reader'[d].hand = q => reader[d].hand = q
      BY <2>4, <2>5, <2>9
    <3> QED
      BY <2>1, <2>7, <3>2, <3>3, <3>4, <3>5, <3>6, <3>7 DEF HolderInv
  <2> QED
    BY <2>8, <2>9
<1>29. ASSUME NEW k \in Closers, CloseTakes(k) PROVE HolderInv'
  <2>1. UNCHANGED <<call, chan, reader>>
    BY <1>29 DEF CloseTakes
  <2>2. \A s \in Seqs : pending'[s] = NoCall
    BY <1>29 DEF CloseTakes, NoPending
  <2>3. \A j \in Closers \ {k} : closer'[j] = closer[j]
    BY <1>29, <1>4 DEF CloseTakes, Take
  <2>4. closer'[k].chans \subseteq Waiting
    BY <1>29, <1>4 DEF CloseTakes, Take, IdleCloser
  <2>5. ASSUME NEW q \in Calls, q \in Waiting
        PROVE  ~InReader(q) /\ ~InCloser(q) /\ chan[q].state = "open"
               /\ call[q].pc \in {"write", "wait"}
    BY <2>5 DEF Waiting, HolderInv
  <2>6. \A q \in Calls : InCloser(q)' => InCloser(q) \/ q \in Waiting
    BY <2>3, <2>4 DEF InCloser
  <2>7. \A q \in Calls : InReader(q)' <=> InReader(q)
    BY <2>1 DEF InReader
  <2>8. \A q \in Calls, j \in Closers : q \in closer'[j].chans =>
          (q \in Waiting /\ j = k) \/ q \in closer[j].chans
    BY <2>3, <2>4
  <2>9. \A q \in Calls, j \in Closers : q \in closer[j].chans => InCloser(q)
    BY DEF InCloser
  <2>10. \A q \in Calls, s \in Seqs : pending'[s] # q
    BY <2>2, <1>6
  <2> QED
    BY <2>1, <2>5, <2>6, <2>7, <2>8, <2>9, <2>10 DEF HolderInv
<1>30. ASSUME NEW k \in Closers, CloseFinishes(k) PROVE HolderInv'
  BY <1>30, <1>1, <1>2, <1>3, <1>4, <1>5
     DEF CloseFinishes, ClosedLink, IdleCloser, session, goroutines, HolderInv, InPending,
         InReader, InCloser, CallState, ChannelState, ReaderState, CloserState
<1>31. ASSUME ClientClose PROVE HolderInv'
  BY <1>31, <1>1, <1>2, <1>3, <1>4, <1>5
     DEF ClientClose, Close, Active, session, goroutines, HolderInv, InPending, InReader,
         InCloser, CallState, ChannelState, ReaderState, CloserState
<1>32. ASSUME UNCHANGED vars PROVE HolderInv'
  <2>1. UNCHANGED <<call, chan, reader, closer, pending>>
    BY <1>32 DEF vars, session, goroutines
  <2> QED
    BY <2>1 DEF HolderInv, InPending, InReader, InCloser
<1> QED
  BY ActionCases, <1>8, <1>9, <1>10, <1>11, <1>12, <1>13, <1>14, <1>15, <1>16, <1>17, <1>18,
     <1>19, <1>20, <1>21, <1>22, <1>23, <1>24, <1>25, <1>26, <1>27, <1>28, <1>29, <1>30, <1>31,
     <1>32

----------------------------------------------------------------------------
(* Answers and numbers *)

SameNumber(p, q) ==
    /\ p \in Calls /\ q \in Calls
    /\ call[p].from # NoConn /\ call[q].from # NoConn
    /\ call[p].seq = call[q].seq

(* An answer goes to a call of the same number, at every stage of its way. *)
AnswerInv ==
    /\ \A c \in Conns : reader[c].pc = "deliver" => SameNumber(reader[c].for, reader[c].hand)
    /\ \A q \in Calls : chan[q].for # NoCall => SameNumber(chan[q].for, q)
    /\ \A q \in Calls : call[q].got # NoCall => SameNumber(call[q].got, q)

(* A call that has its number keeps it, and only an answer sets its result. *)
NumberKept(q) ==
    /\ call[q].from # NoConn => call'[q].from = call[q].from /\ call'[q].seq = call[q].seq
    /\ call'[q].got = call[q].got

(* Then every answer still goes to a call of its number. *)
LEMMA KeptAnswers ==
    ASSUME AnswerInv, UNCHANGED chan, \A q \in Calls : NumberKept(q),
           \A c \in Conns : reader'[c] = reader[c] \/ reader'[c].pc # "deliver"
    PROVE  AnswerInv'
<1>1. \A p, q : SameNumber(p, q) => SameNumber(p, q)'
  BY DEF SameNumber, NumberKept
<1> QED
  BY <1>1 DEF AnswerInv, NumberKept

(* An answer is looked up by its number, and a number is kept. *)
LEMMA AnswerStep == TypeOK /\ NumbersInv /\ HolderInv /\ AnswerInv /\ [Next]_vars => AnswerInv'
<1> SUFFICES ASSUME TypeOK, NumbersInv, HolderInv, AnswerInv, [Next]_vars PROVE AnswerInv'
  OBVIOUS
<1>1. call \in [Calls -> CallState]
  BY DEF TypeOK
<1>2. chan \in [Calls -> ChannelState]
  BY DEF TypeOK
<1>3. reader \in [Conns -> ReaderState]
  BY DEF TypeOK
<1>4. \A q \in Calls : CallNumber(q)
  BY DEF NumbersInv
<1>5. ASSUME NEW c \in Conns, Unbind(c) \/ UnbindAnswered(c) \/ LinkBreaks(c) PROVE AnswerInv'
  <2>1. UNCHANGED <<call, chan, reader>>
    BY <1>5 DEF Unbind, UnbindAnswered, LinkBreaks, session, goroutines
  <2> QED
    BY <2>1 DEF AnswerInv, SameNumber
<1>6. ASSUME NEW k \in Closers, CloseTakes(k) PROVE AnswerInv'
  <2>1. UNCHANGED <<call, chan, reader>>
    BY <1>6 DEF CloseTakes, session, goroutines
  <2> QED
    BY <2>1 DEF AnswerInv, SameNumber
<1>7. ASSUME ClientClose PROVE AnswerInv'
  <2>1. UNCHANGED <<call, chan, reader>>
    BY <1>7 DEF ClientClose, session, goroutines
  <2> QED
    BY <2>1 DEF AnswerInv, SameNumber
<1>8. ASSUME NEW q \in Calls, StartSubmit(q) PROVE AnswerInv'
  <2>1. UNCHANGED <<chan, reader>>
    BY <1>8 DEF StartSubmit
  <2>2. \A c \in Conns : reader'[c] = reader[c] \/ reader'[c].pc # "deliver"
    BY <2>1
  <2>3. \A p \in Calls : NumberKept(p)
    BY <1>8, <1>1, <1>4 DEF StartSubmit, NumberKept, CallState, CallNumber
  <2> QED
    BY <2>1, <2>2, <2>3, KeptAnswers
<1>9. ASSUME NEW q \in Calls, StartPing(q) PROVE AnswerInv'
  <2>1. UNCHANGED <<chan, reader>>
    BY <1>9 DEF StartPing
  <2>2. \A c \in Conns : reader'[c] = reader[c] \/ reader'[c].pc # "deliver"
    BY <2>1
  <2>3. \A p \in Calls : NumberKept(p)
    BY <1>9, <1>1, <1>4 DEF StartPing, NumberKept, CallState, CallNumber, Move, Active
  <2> QED
    BY <2>1, <2>2, <2>3, KeptAnswers
<1>10. ASSUME NEW q \in Calls, ConnectBound(q) PROVE AnswerInv'
  <2>1. UNCHANGED <<chan, reader>>
    BY <1>10 DEF ConnectBound
  <2>2. \A c \in Conns : reader'[c] = reader[c] \/ reader'[c].pc # "deliver"
    BY <2>1
  <2>3. \A p \in Calls : NumberKept(p)
    BY <1>10, <1>1, <1>4 DEF ConnectBound, NumberKept, CallState, CallNumber, AfterConnect
  <2> QED
    BY <2>1, <2>2, <2>3, KeptAnswers
<1>11. ASSUME NEW q \in Calls, ConnectDials(q) PROVE AnswerInv'
  <2>1. UNCHANGED <<chan, reader>>
    BY <1>11 DEF ConnectDials
  <2>2. \A c \in Conns : reader'[c] = reader[c] \/ reader'[c].pc # "deliver"
    BY <2>1
  <2>3. \A p \in Calls : NumberKept(p)
    BY <1>11, <1>1, <1>4 DEF ConnectDials, NumberKept, CallState, CallNumber, Move
  <2> QED
    BY <2>1, <2>2, <2>3, KeptAnswers
<1>12. ASSUME NEW q \in Calls, DialFails(q) PROVE AnswerInv'
  <2>1. UNCHANGED <<chan, reader>>
    BY <1>12 DEF DialFails
  <2>2. \A c \in Conns : reader'[c] = reader[c] \/ reader'[c].pc # "deliver"
    BY <2>1
  <2>3. \A p \in Calls : NumberKept(p)
    BY <1>12, <1>1, <1>4 DEF DialFails, NumberKept, CallState, CallNumber, Move
  <2> QED
    BY <2>1, <2>2, <2>3, KeptAnswers
<1>13. ASSUME NEW q \in Calls, DialSucceeds(q) PROVE AnswerInv'
  <2>1. UNCHANGED chan
    BY <1>13 DEF DialSucceeds
  <2>2. \A c \in Conns : reader'[c] = reader[c] \/ reader'[c].pc # "deliver"
    BY <1>13, <1>3 DEF DialSucceeds, ReaderState
  <2>3. \A p \in Calls : NumberKept(p)
    BY <1>13, <1>1, <1>4 DEF DialSucceeds, NumberKept, CallState, CallNumber, AfterConnect
  <2> QED
    BY <2>1, <2>2, <2>3, KeptAnswers
<1>14. ASSUME NEW q \in Calls, GetConn(q) PROVE AnswerInv'
  <2>1. UNCHANGED <<chan, reader>>
    BY <1>14 DEF GetConn
  <2>2. \A c \in Conns : reader'[c] = reader[c] \/ reader'[c].pc # "deliver"
    BY <2>1
  <2>3. \A p \in Calls : NumberKept(p)
    BY <1>14, <1>1, <1>4 DEF GetConn, NumberKept, CallState, CallNumber
  <2> QED
    BY <2>1, <2>2, <2>3, KeptAnswers
<1>15. ASSUME NEW q \in Calls, NoActiveConnection(q) PROVE AnswerInv'
  <2>1. UNCHANGED <<chan, reader>>
    BY <1>15 DEF NoActiveConnection
  <2>2. \A c \in Conns : reader'[c] = reader[c] \/ reader'[c].pc # "deliver"
    BY <2>1
  <2>3. \A p \in Calls : NumberKept(p)
    BY <1>15, <1>1, <1>4 DEF NoActiveConnection, NumberKept, CallState, CallNumber, Move
  <2> QED
    BY <2>1, <2>2, <2>3, KeptAnswers
<1>16. ASSUME NEW q \in Calls, Register(q) PROVE AnswerInv'
  <2>1. UNCHANGED <<chan, reader>>
    BY <1>16 DEF Register
  <2>2. \A c \in Conns : reader'[c] = reader[c] \/ reader'[c].pc # "deliver"
    BY <2>1
  <2>3. \A p \in Calls : NumberKept(p)
    BY <1>16, <1>1, <1>4 DEF Register, NumberKept, CallState, CallNumber
  <2> QED
    BY <2>1, <2>2, <2>3, KeptAnswers
<1>17. ASSUME NEW q \in Calls, WriteSucceeds(q) PROVE AnswerInv'
  <2>1. UNCHANGED <<chan, reader>>
    BY <1>17 DEF WriteSucceeds
  <2>2. \A c \in Conns : reader'[c] = reader[c] \/ reader'[c].pc # "deliver"
    BY <2>1
  <2>3. \A p \in Calls : NumberKept(p)
    BY <1>17, <1>1, <1>4 DEF WriteSucceeds, NumberKept, CallState, CallNumber, Move
  <2> QED
    BY <2>1, <2>2, <2>3, KeptAnswers
<1>18. ASSUME NEW q \in Calls, WriteFails(q) PROVE AnswerInv'
  <2>1. UNCHANGED <<chan, reader>>
    BY <1>18 DEF WriteFails, EndWithError
  <2>2. \A c \in Conns : reader'[c] = reader[c] \/ reader'[c].pc # "deliver"
    BY <2>1
  <2>3. \A p \in Calls : NumberKept(p)
    BY <1>18, <1>1, <1>4 DEF WriteFails, NumberKept, CallState, CallNumber, EndWithError, Move
  <2> QED
    BY <2>1, <2>2, <2>3, KeptAnswers
<1>19. ASSUME NEW q \in Calls, Answered(q) PROVE AnswerInv'
  <2>1. UNCHANGED <<chan, reader>>
    BY <1>19 DEF Answered
  <2>2. \A p, r : SameNumber(p, r) => SameNumber(p, r)'
    BY <1>19, <1>1 DEF Answered, SameNumber, CallState
  <2>3. call'[q].got = chan[q].for /\ \A p \in Calls \ {q} : call'[p].got = call[p].got
    BY <1>19, <1>1 DEF Answered, CallState
  <2> QED
    BY <2>1, <2>2, <2>3 DEF AnswerInv
<1>20. ASSUME NEW q \in Calls, ChannelClosed(q) PROVE AnswerInv'
  <2>1. UNCHANGED <<chan, reader>>
    BY <1>20 DEF ChannelClosed
  <2>2. \A c \in Conns : reader'[c] = reader[c] \/ reader'[c].pc # "deliver"
    BY <2>1
  <2>3. \A p \in Calls : NumberKept(p)
    BY <1>20, <1>1, <1>4 DEF ChannelClosed, NumberKept, CallState, CallNumber, Move
  <2> QED
    BY <2>1, <2>2, <2>3, KeptAnswers
<1>21. ASSUME NEW q \in Calls, DoneClosed(q) PROVE AnswerInv'
  <2>1. UNCHANGED <<chan, reader>>
    BY <1>21 DEF DoneClosed, EndWithError
  <2>2. \A c \in Conns : reader'[c] = reader[c] \/ reader'[c].pc # "deliver"
    BY <2>1
  <2>3. \A p \in Calls : NumberKept(p)
    BY <1>21, <1>1, <1>4 DEF DoneClosed, NumberKept, CallState, CallNumber, EndWithError, Move
  <2> QED
    BY <2>1, <2>2, <2>3, KeptAnswers
<1>22. ASSUME NEW q \in Calls, ContextDone(q) PROVE AnswerInv'
  <2>1. UNCHANGED <<chan, reader>>
    BY <1>22 DEF ContextDone, EndWithError
  <2>2. \A c \in Conns : reader'[c] = reader[c] \/ reader'[c].pc # "deliver"
    BY <2>1
  <2>3. \A p \in Calls : NumberKept(p)
    BY <1>22, <1>1, <1>4 DEF ContextDone, NumberKept, CallState, CallNumber, EndWithError, Move
  <2> QED
    BY <2>1, <2>2, <2>3, KeptAnswers
<1>23. ASSUME NEW c \in Conns, Deliver(c) PROVE AnswerInv'
  <2> DEFINE r == reader[c].hand
  <2>1. UNCHANGED call /\ SameNumber(reader[c].for, r)
    BY <1>23 DEF Deliver, AnswerInv
  <2>2. r \in Calls /\ chan'[r].for = reader[c].for /\ \A q \in Calls \ {r} : chan'[q] = chan[q]
    BY <1>23, <2>1, <1>2 DEF Deliver, SameNumber
  <2>3. \A d \in Conns : reader'[d] = reader[d] \/ reader'[d].pc # "deliver"
    BY <1>23, <1>3 DEF Deliver
  <2>4. \A p, q : SameNumber(p, q)' <=> SameNumber(p, q)
    BY <2>1 DEF SameNumber
  <2> QED
    BY <2>1, <2>2, <2>3, <2>4 DEF AnswerInv
<1>24. ASSUME NEW c \in Conns, ReadFails(c) PROVE AnswerInv'
  <2>1. UNCHANGED <<call, chan>> /\ \A d \in Conns : reader'[d] = reader[d] \/ reader'[d].pc # "deliver"
    BY <1>24, <1>3 DEF ReadFails, ReaderState
  <2> QED
    BY <2>1, KeptAnswers DEF NumberKept
<1>25. ASSUME NEW c \in Conns, NEW p \in Calls, ReadAnswer(c, p) PROVE AnswerInv'
  <2> DEFINE s == call[p].seq
              r == pending[s]
  <2>1. UNCHANGED <<call, chan>>
    BY <1>25 DEF ReadAnswer
  <2>2. s \in Seqs /\ call[p].from # NoConn
    <3>1. p \in link[c].sent
      BY <1>25 DEF ReadAnswer
    <3> QED
      BY <3>1 DEF NumbersInv, CallNumber
  <2>3. \A q, t : SameNumber(q, t)' <=> SameNumber(q, t)
    BY <2>1 DEF SameNumber
  <2>4. CASE r = NoCall
    <3>1. reader' = reader
      BY <1>25, <2>4 DEF ReadAnswer
    <3> QED
      BY <2>1, <2>3, <3>1 DEF AnswerInv
  <2>5. CASE r # NoCall
    <3>1. r \in Calls
      BY <2>2, <2>5 DEF TypeOK
    <3>2. call[r].seq = s /\ call[r].from # NoConn
      BY <2>2, <3>1 DEF HolderInv, NumbersInv, CallNumber
    <3>3. reader'[c].hand = r /\ reader'[c].for = p /\ \A d \in Conns \ {c} : reader'[d] = reader[d]
      BY <1>25, <2>5, <1>3 DEF ReadAnswer
    <3>4. SameNumber(p, r)
      BY <2>2, <3>1, <3>2 DEF SameNumber
    <3> QED
      BY <2>1, <2>3, <3>3, <3>4 DEF AnswerInv
  <2> QED
    BY <2>4, <2>5
<1>26. ASSUME NEW k \in Closers, CloseFinishes(k) PROVE AnswerInv'
  <2>1. UNCHANGED <<call, reader>> /\ \A q \in Calls : chan'[q].for = chan[q].for
    BY <1>26, <1>2 DEF CloseFinishes, ChannelState
  <2>2. \A q, t : SameNumber(q, t)' <=> SameNumber(q, t)
    BY <2>1 DEF SameNumber
  <2> QED
    BY <2>1, <2>2 DEF AnswerInv
<1>27. ASSUME UNCHANGED vars PROVE AnswerInv'
  <2>1. UNCHANGED <<call, chan, reader>>
    BY <1>27 DEF vars, session, goroutines
  <2> QED
    BY <2>1 DEF AnswerInv, SameNumber
<1> QED
  BY ActionCases, <1>5, <1>6, <1>7, <1>8, <1>9, <1>10, <1>11, <1>12, <1>13, <1>14, <1>15, <1>16,
     <1>17, <1>18, <1>19, <1>20, <1>21, <1>22, <1>23, <1>24, <1>25, <1>26, <1>27

----------------------------------------------------------------------------
(* Forgotten connections *)

(* One Connect at a time dials only where no connection is left. *)
OverlapInv ==
    ~overlap =>
        /\ conn # NoConn => state = "Bound"
        /\ \A p \in Calls : call[p].pc = "dial" => conn = NoConn
        /\ \A p, q \in Calls : call[p].pc = "dial" /\ call[q].pc = "dial" => p = q
        /\ \A c \in Conns : ~Forgotten(c)

(* Nobody forgets a connection who leaves the current one and the Closes. *)
LEMMA KeptConnections ==
    ASSUME OverlapInv, UNCHANGED <<conn, state, overlap>>,
           \A k \in Closers : closer'[k].conn = closer[k].conn,
           \A c \in Conns : link'[c].used = link[c].used /\ (link[c].closed => link'[c].closed),
           \A p \in Calls : call'[p].pc = "dial" => call[p].pc = "dial"
    PROVE  OverlapInv'
<1>1. \A c \in Conns : Forgotten(c)' => Forgotten(c)
  BY DEF Forgotten
<1> QED
  BY <1>1 DEF OverlapInv

(* A connection is replaced or dropped only by a second Connect that dials. *)
LEMMA OverlapStep == TypeOK /\ NumbersInv /\ HandsInv /\ OverlapInv /\ [Next]_vars => OverlapInv'
<1> SUFFICES ASSUME TypeOK, NumbersInv, HandsInv, OverlapInv, [Next]_vars PROVE OverlapInv'
  OBVIOUS
<1>1. conn \in Conns \cup {NoConn}
  BY DEF TypeOK
<1>2. call \in [Calls -> CallState]
  BY DEF TypeOK
<1>3. link \in [Conns -> Link]
  BY DEF TypeOK
<1>4. closer \in [Closers -> CloserState]
  BY DEF TypeOK
<1>5. \A q \in Calls : CallNumber(q)
  BY DEF NumbersInv
<1>6. ASSUME NEW c \in Conns, Deliver(c) PROVE OverlapInv'
  <2>1. UNCHANGED <<state, conn, call, link, closer, overlap>>
    BY <1>6 DEF Deliver, session, goroutines
  <2> QED
    BY <2>1 DEF OverlapInv, Forgotten
<1>7. ASSUME NEW q \in Calls, StartSubmit(q) PROVE OverlapInv'
  <2>1. UNCHANGED <<conn, state, overlap>>
    BY <1>7 DEF StartSubmit, session
  <2>2. \A k \in Closers : closer'[k].conn = closer[k].conn
    BY <1>7 DEF StartSubmit, goroutines
  <2>3. \A c \in Conns : link'[c].used = link[c].used /\ (link[c].closed => link'[c].closed)
    BY <1>7 DEF StartSubmit, goroutines
  <2>4. \A p \in Calls : call'[p].pc = "dial" => call[p].pc = "dial"
    BY <1>7, <1>2 DEF StartSubmit, CallState
  <2> QED
    BY <2>1, <2>2, <2>3, <2>4, KeptConnections
<1>8. ASSUME NEW q \in Calls, StartPing(q) PROVE OverlapInv'
  <2>1. UNCHANGED <<conn, state, overlap>>
    BY <1>8 DEF StartPing, session
  <2>2. \A k \in Closers : closer'[k].conn = closer[k].conn
    BY <1>8 DEF StartPing, goroutines
  <2>3. \A c \in Conns : link'[c].used = link[c].used /\ (link[c].closed => link'[c].closed)
    BY <1>8 DEF StartPing, goroutines
  <2>4. \A p \in Calls : call'[p].pc = "dial" => call[p].pc = "dial"
    BY <1>8, <1>2 DEF StartPing, CallState, Move
  <2> QED
    BY <2>1, <2>2, <2>3, <2>4, KeptConnections
<1>9. ASSUME NEW q \in Calls, ConnectBound(q) PROVE OverlapInv'
  <2>1. UNCHANGED <<conn, state, overlap>>
    BY <1>9 DEF ConnectBound, session
  <2>2. \A k \in Closers : closer'[k].conn = closer[k].conn
    BY <1>9 DEF ConnectBound, goroutines
  <2>3. \A c \in Conns : link'[c].used = link[c].used /\ (link[c].closed => link'[c].closed)
    BY <1>9 DEF ConnectBound, goroutines
  <2>4. \A p \in Calls : call'[p].pc = "dial" => call[p].pc = "dial"
    BY <1>9, <1>2, <1>5 DEF ConnectBound, CallState, AfterConnect, AlreadyBound, CallNumber
  <2> QED
    BY <2>1, <2>2, <2>3, <2>4, KeptConnections
<1>10. ASSUME NEW q \in Calls, ConnectDials(q) PROVE OverlapInv'
  <2>1. UNCHANGED <<conn, closer, link>>
    BY <1>10 DEF ConnectDials
  <2>2. call'[q].pc = "dial" /\ \A p \in Calls \ {q} : call'[p] = call[p]
    BY <1>10, <1>2 DEF ConnectDials, Move, CallState
  <2>3. ~overlap' => ~overlap /\ \A p \in Calls \ {q} : call[p].pc # "dial"
    BY <1>10 DEF ConnectDials
  <2>4. ~overlap => conn = NoConn
    BY <1>10 DEF ConnectDials, AlreadyBound, OverlapInv
  <2> QED
    BY <2>1, <2>2, <2>3, <2>4 DEF OverlapInv, Forgotten
<1>11. ASSUME NEW q \in Calls, DialFails(q) PROVE OverlapInv'
  <2>1. UNCHANGED <<conn, overlap, link>>
    BY <1>11 DEF DialFails
  <2>2. \A k \in Closers : closer'[k].conn = closer[k].conn
    BY <1>11, <1>4, AskKeepsHoldings DEF DialFails, HoldingsKept
  <2>3. call'[q].pc = "ended" /\ \A p \in Calls \ {q} : call'[p] = call[p]
    BY <1>11, <1>2 DEF DialFails, Move, CallState
  <2>4. ~overlap => conn = NoConn
    BY <1>11 DEF DialFails, OverlapInv
  <2>5. \A c \in Conns : Forgotten(c)' => Forgotten(c)
    BY <2>1, <2>2 DEF Forgotten
  <2> QED
    BY <2>1, <2>3, <2>4, <2>5 DEF OverlapInv
<1>12. ASSUME NEW q \in Calls, DialSucceeds(q) PROVE OverlapInv'
  <2>1. UNCHANGED <<overlap, closer>> /\ state' = "Bound"
    BY <1>12 DEF DialSucceeds
  <2>2. PICK c \in Conns :
          /\ conn' = c
          /\ link' = [link EXCEPT ![c] = [FreshLink EXCEPT !.used = TRUE, !.up = TRUE, !.writer = TRUE]]
    BY <1>12 DEF DialSucceeds
  <2>3. \A d \in Conns \ {c} : link'[d] = link[d]
    BY <2>2, <1>3
  <2>4. ~overlap => conn = NoConn /\ \A p \in Calls : call[p].pc = "dial" => p = q
    BY <1>12 DEF DialSucceeds, OverlapInv
  <2>5. call'[q].pc # "dial" /\ \A p \in Calls \ {q} : call'[p] = call[p]
    BY <1>12, <1>2 DEF DialSucceeds, AfterConnect, CallState
  <2>6. \A d \in Conns : ~overlap /\ Forgotten(d)' => Forgotten(d)
    BY <2>1, <2>2, <2>3, <2>4, Constants DEF Forgotten
  <2> QED
    BY <2>1, <2>4, <2>5, <2>6 DEF OverlapInv
<1>13. ASSUME NEW q \in Calls, GetConn(q) PROVE OverlapInv'
  <2>1. UNCHANGED <<conn, state, overlap>>
    BY <1>13 DEF GetConn, session
  <2>2. \A k \in Closers : closer'[k].conn = closer[k].conn
    BY <1>13 DEF GetConn, goroutines
  <2>3. \A c \in Conns : link'[c].used = link[c].used /\ (link[c].closed => link'[c].closed)
    BY <1>13, <1>3 DEF GetConn, goroutines, Link, NextSeq
  <2>4. \A p \in Calls : call'[p].pc = "dial" => call[p].pc = "dial"
    BY <1>13, <1>2 DEF GetConn, CallState
  <2> QED
    BY <2>1, <2>2, <2>3, <2>4, KeptConnections
<1>14. ASSUME NEW q \in Calls, NoActiveConnection(q) PROVE OverlapInv'
  <2>1. UNCHANGED <<conn, state, overlap>>
    BY <1>14 DEF NoActiveConnection, session
  <2>2. \A k \in Closers : closer'[k].conn = closer[k].conn
    BY <1>14, <1>4, AskKeepsHoldings, Constants DEF NoActiveConnection, HoldingsKept
  <2>3. \A c \in Conns : link'[c].used = link[c].used /\ (link[c].closed => link'[c].closed)
    BY <1>14 DEF NoActiveConnection, goroutines
  <2>4. \A p \in Calls : call'[p].pc = "dial" => call[p].pc = "dial"
    BY <1>14, <1>2 DEF NoActiveConnection, CallState, Move
  <2> QED
    BY <2>1, <2>2, <2>3, <2>4, KeptConnections
<1>15. ASSUME NEW q \in Calls, Register(q) PROVE OverlapInv'
  <2>1. UNCHANGED <<conn, state, overlap>>
    BY <1>15 DEF Register, session
  <2>2. \A k \in Closers : closer'[k].conn = closer[k].conn
    BY <1>15 DEF Register, goroutines
  <2>3. \A c \in Conns : link'[c].used = link[c].used /\ (link[c].closed => link'[c].closed)
    BY <1>15 DEF Register, goroutines
  <2>4. \A p \in Calls : call'[p].pc = "dial" => call[p].pc = "dial"
    BY <1>15, <1>2 DEF Register, CallState
  <2> QED
    BY <2>1, <2>2, <2>3, <2>4, KeptConnections
<1>16. ASSUME NEW q \in Calls, WriteSucceeds(q) PROVE OverlapInv'
  <2>1. UNCHANGED <<conn, state, overlap>>
    BY <1>16 DEF WriteSucceeds, session
  <2>2. \A k \in Closers : closer'[k].conn = closer[k].conn
    BY <1>16 DEF WriteSucceeds, goroutines
  <2>3. \A c \in Conns : link'[c].used = link[c].used /\ (link[c].closed => link'[c].closed)
    BY <1>16, <1>3 DEF WriteSucceeds, goroutines, Link
  <2>4. \A p \in Calls : call'[p].pc = "dial" => call[p].pc = "dial"
    BY <1>16, <1>2 DEF WriteSucceeds, CallState, Move
  <2> QED
    BY <2>1, <2>2, <2>3, <2>4, KeptConnections
<1>17. ASSUME NEW q \in Calls, WriteFails(q) PROVE OverlapInv'
  <2>1. UNCHANGED <<conn, state, overlap>>
    BY <1>17 DEF WriteFails, session, EndWithError
  <2>2. \A k \in Closers : closer'[k].conn = closer[k].conn
    BY <1>17, <1>4, AskKeepsHoldings, Constants DEF WriteFails, HoldingsKept, EndWithError
  <2>3. \A c \in Conns : link'[c].used = link[c].used /\ (link[c].closed => link'[c].closed)
    BY <1>17, <1>3 DEF WriteFails, goroutines, Link, EndWithError
  <2>4. \A p \in Calls : call'[p].pc = "dial" => call[p].pc = "dial"
    BY <1>17, <1>2 DEF WriteFails, CallState, EndWithError, Move
  <2> QED
    BY <2>1, <2>2, <2>3, <2>4, KeptConnections
<1>18. ASSUME NEW q \in Calls, Answered(q) PROVE OverlapInv'
  <2>1. UNCHANGED <<conn, state, overlap>>
    BY <1>18 DEF Answered, session
  <2>2. \A k \in Closers : closer'[k].conn = closer[k].conn
    BY <1>18, <1>4, AskKeepsHoldings, Constants DEF Answered, HoldingsKept
  <2>3. \A c \in Conns : link'[c].used = link[c].used /\ (link[c].closed => link'[c].closed)
    BY <1>18 DEF Answered, goroutines
  <2>4. \A p \in Calls : call'[p].pc = "dial" => call[p].pc = "dial"
    BY <1>18, <1>2 DEF Answered, CallState
  <2> QED
    BY <2>1, <2>2, <2>3, <2>4, KeptConnections
<1>19. ASSUME NEW q \in Calls, ChannelClosed(q) PROVE OverlapInv'
  <2>1. UNCHANGED <<conn, state, overlap>>
    BY <1>19 DEF ChannelClosed, session
  <2>2. \A k \in Closers : closer'[k].conn = closer[k].conn
    BY <1>19, <1>4, AskKeepsHoldings, Constants DEF ChannelClosed, HoldingsKept
  <2>3. \A c \in Conns : link'[c].used = link[c].used /\ (link[c].closed => link'[c].closed)
    BY <1>19 DEF ChannelClosed, goroutines
  <2>4. \A p \in Calls : call'[p].pc = "dial" => call[p].pc = "dial"
    BY <1>19, <1>2 DEF ChannelClosed, CallState, Move
  <2> QED
    BY <2>1, <2>2, <2>3, <2>4, KeptConnections
<1>20. ASSUME NEW q \in Calls, DoneClosed(q) PROVE OverlapInv'
  <2>1. UNCHANGED <<conn, state, overlap>>
    BY <1>20 DEF DoneClosed, session, EndWithError
  <2>2. \A k \in Closers : closer'[k].conn = closer[k].conn
    BY <1>20, <1>4, AskKeepsHoldings, Constants DEF DoneClosed, HoldingsKept, EndWithError
  <2>3. \A c \in Conns : link'[c].used = link[c].used /\ (link[c].closed => link'[c].closed)
    BY <1>20 DEF DoneClosed, goroutines, EndWithError
  <2>4. \A p \in Calls : call'[p].pc = "dial" => call[p].pc = "dial"
    BY <1>20, <1>2 DEF DoneClosed, CallState, EndWithError, Move
  <2> QED
    BY <2>1, <2>2, <2>3, <2>4, KeptConnections
<1>21. ASSUME NEW q \in Calls, ContextDone(q) PROVE OverlapInv'
  <2>1. UNCHANGED <<conn, state, overlap>>
    BY <1>21 DEF ContextDone, session, EndWithError
  <2>2. \A k \in Closers : closer'[k].conn = closer[k].conn
    BY <1>21, <1>4, AskKeepsHoldings, Constants DEF ContextDone, HoldingsKept, EndWithError
  <2>3. \A c \in Conns : link'[c].used = link[c].used /\ (link[c].closed => link'[c].closed)
    BY <1>21 DEF ContextDone, goroutines, EndWithError
  <2>4. \A p \in Calls : call'[p].pc = "dial" => call[p].pc = "dial"
    BY <1>21, <1>2 DEF ContextDone, CallState, EndWithError, Move
  <2> QED
    BY <2>1, <2>2, <2>3, <2>4, KeptConnections
<1>22. ASSUME NEW c \in Conns, ReadFails(c) PROVE OverlapInv'
  <2>1. UNCHANGED <<conn, state, overlap>>
    BY <1>22 DEF ReadFails, session
  <2>2. \A k \in Closers : closer'[k].conn = closer[k].conn
    BY <1>22, <1>4, AskKeepsHoldings, Constants DEF ReadFails, HoldingsKept
  <2>3. \A d \in Conns : link'[d].used = link[d].used /\ (link[d].closed => link'[d].closed)
    BY <1>22 DEF ReadFails, goroutines
  <2>4. \A p \in Calls : call'[p].pc = "dial" => call[p].pc = "dial"
    BY <1>22 DEF ReadFails, goroutines
  <2> QED
    BY <2>1, <2>2, <2>3, <2>4, KeptConnections
<1>23. ASSUME NEW c \in Conns, Unbind(c) PROVE OverlapInv'
  <2>1. UNCHANGED <<conn, state, overlap>>
    BY <1>23 DEF Unbind, session
  <2>2. \A k \in Closers : closer'[k].conn = closer[k].conn
    BY <1>23, <1>4, AskKeepsHoldings, Constants DEF Unbind, HoldingsKept
  <2>3. \A d \in Conns : link'[d].used = link[d].used /\ (link[d].closed => link'[d].closed)
    BY <1>23 DEF Unbind, goroutines
  <2>4. \A p \in Calls : call'[p].pc = "dial" => call[p].pc = "dial"
    BY <1>23 DEF Unbind, goroutines
  <2> QED
    BY <2>1, <2>2, <2>3, <2>4, KeptConnections
<1>24. ASSUME NEW c \in Conns, UnbindAnswered(c) PROVE OverlapInv'
  <2>1. UNCHANGED <<conn, state, overlap>>
    BY <1>24 DEF UnbindAnswered, session
  <2>2. \A k \in Closers : closer'[k].conn = closer[k].conn
    BY <1>24, <1>4, AskKeepsHoldings, Constants DEF UnbindAnswered, HoldingsKept
  <2>3. \A d \in Conns : link'[d].used = link[d].used /\ (link[d].closed => link'[d].closed)
    BY <1>24 DEF UnbindAnswered, goroutines
  <2>4. \A p \in Calls : call'[p].pc = "dial" => call[p].pc = "dial"
    BY <1>24 DEF UnbindAnswered, goroutines
  <2> QED
    BY <2>1, <2>2, <2>3, <2>4, KeptConnections
<1>25. ASSUME NEW c \in Conns, LinkBreaks(c) PROVE OverlapInv'
  <2>1. UNCHANGED <<conn, state, overlap>>
    BY <1>25 DEF LinkBreaks, session
  <2>2. \A k \in Closers : closer'[k].conn = closer[k].conn
    BY <1>25 DEF LinkBreaks, goroutines
  <2>3. \A d \in Conns : link'[d].used = link[d].used /\ (link[d].closed => link'[d].closed)
    BY <1>25, <1>3 DEF LinkBreaks, goroutines, Link
  <2>4. \A p \in Calls : call'[p].pc = "dial" => call[p].pc = "dial"
    BY <1>25 DEF LinkBreaks, goroutines
  <2> QED
    BY <2>1, <2>2, <2>3, <2>4, KeptConnections
<1>26. ASSUME NEW c \in Conns, NEW p \in Calls, ReadAnswer(c, p) PROVE OverlapInv'
  <2>1. UNCHANGED <<conn, state, overlap>>
    BY <1>26 DEF ReadAnswer, session
  <2>2. \A k \in Closers : closer'[k].conn = closer[k].conn
    BY <1>26 DEF ReadAnswer, goroutines
  <2>3. \A d \in Conns : link'[d].used = link[d].used /\ (link[d].closed => link'[d].closed)
    BY <1>26, <1>3 DEF ReadAnswer, goroutines, Link
  <2>4. \A r \in Calls : call'[r].pc = "dial" => call[r].pc = "dial"
    BY <1>26 DEF ReadAnswer, goroutines
  <2> QED
    BY <2>1, <2>2, <2>3, <2>4, KeptConnections
<1>27. ASSUME NEW k \in Closers, CloseTakes(k) PROVE OverlapInv'
  <2>1. UNCHANGED <<overlap, link, call>> /\ conn' = NoConn
    BY <1>27 DEF CloseTakes
  <2>2. \A j \in Closers \ {k} : closer'[j] = closer[j]
    BY <1>27, <1>4 DEF CloseTakes, Take
  <2>3. closer'[k].conn = conn
    BY <1>27, <1>4 DEF CloseTakes, Take, IdleCloser
  <2>4. closer[k].conn = NoConn
    BY <1>27 DEF CloseTakes, HandsInv
  <2>5. \A c \in Conns : Forgotten(c)' => Forgotten(c)
    BY <2>1, <2>2, <2>3, <2>4, Constants DEF Forgotten
  <2> QED
    BY <2>1, <2>5 DEF OverlapInv
<1>28. ASSUME NEW k \in Closers, CloseFinishes(k) PROVE OverlapInv'
  <2>1. UNCHANGED <<overlap, conn, state, call>>
    BY <1>28 DEF CloseFinishes, session
  <2>2. closer'[k].conn = NoConn /\ \A j \in Closers \ {k} : closer'[j] = closer[j]
    BY <1>28, <1>4 DEF CloseFinishes, IdleCloser
  <2>3. \A c \in Conns : c # closer[k].conn => link'[c] = link[c]
    BY <1>28, <1>3 DEF CloseFinishes
  <2>4. \A c \in Conns : c = closer[k].conn => link'[c].closed
    BY <1>28, <1>3, Constants DEF CloseFinishes, ClosedLink, Link
  <2>5. \A c \in Conns : Forgotten(c)' => Forgotten(c)
    BY <2>1, <2>2, <2>3, <2>4 DEF Forgotten
  <2> QED
    BY <2>1, <2>5 DEF OverlapInv
<1>29. ASSUME ClientClose PROVE OverlapInv'
  <2>1. UNCHANGED <<conn, state, overlap>>
    BY <1>29 DEF ClientClose, session
  <2>2. \A k \in Closers : closer'[k].conn = closer[k].conn
    BY <1>29, <1>4, AskKeepsHoldings, Constants DEF ClientClose, HoldingsKept
  <2>3. \A c \in Conns : link'[c].used = link[c].used /\ (link[c].closed => link'[c].closed)
    BY <1>29 DEF ClientClose, goroutines
  <2>4. \A p \in Calls : call'[p].pc = "dial" => call[p].pc = "dial"
    BY <1>29 DEF ClientClose, goroutines
  <2> QED
    BY <2>1, <2>2, <2>3, <2>4, KeptConnections
<1>30. ASSUME UNCHANGED vars PROVE OverlapInv'
  <2>1. UNCHANGED <<state, conn, call, link, closer, overlap>>
    BY <1>30 DEF vars, session, goroutines
  <2> QED
    BY <2>1 DEF OverlapInv, Forgotten
<1> QED
  BY ActionCases, <1>6, <1>7, <1>8, <1>9, <1>10, <1>11, <1>12, <1>13, <1>14, <1>15, <1>16, <1>17,
     <1>18, <1>19, <1>20, <1>21, <1>22, <1>23, <1>24, <1>25, <1>26, <1>27, <1>28, <1>29, <1>30

----------------------------------------------------------------------------
(* Theorems *)

(* All that the theorems need, and that every step keeps. *)
SessionInv == TypeOK /\ NumbersInv /\ HandsInv /\ HolderInv /\ ConnInv /\ AnswerInv /\ OverlapInv

(* Initially there are no connections and nobody waits. *)
LEMMA SessionInit == Init => SessionInv
<1> SUFFICES ASSUME Init PROVE SessionInv
  OBVIOUS
<1>1. TypeOK /\ NumbersInv
  BY NumbersInit
<1>2. HandsInv
  BY Constants DEF Init, HandsInv, IdleCloser, FreshLink, Active, Calls
<1>3. HolderInv
  BY Constants DEF Init, HolderInv, InPending, InReader, InCloser, NoPending, IdleCloser
<1>4. ConnInv
  BY DEF Init, ConnInv, IdleCloser
<1>5. AnswerInv
  BY DEF Init, AnswerInv
<1>6. OverlapInv
  BY DEF Init, OverlapInv, Forgotten, FreshLink
<1> QED
  BY <1>1, <1>2, <1>3, <1>4, <1>5, <1>6 DEF SessionInv

(* Every step keeps it all. *)
LEMMA SessionStep == SessionInv /\ [Next]_vars => SessionInv'
  BY TypeStep, NumbersStep, HandsStep, HolderStep, ConnStep, AnswerStep, OverlapStep
     DEF SessionInv

(* So it always holds. *)
LEMMA SessionInvariant == Spec => []SessionInv
  BY SessionInit, SessionStep, PTL DEF Spec

(* The session's state is well-typed: no connection runs out of numbers,   *)
(* and nobody writes on a connection there is not.                         *)
THEOREM SessionTypes == Spec => []TypeOK
<1>1. SessionInv => TypeOK
  BY DEF SessionInv
<1> QED
  BY <1>1, SessionInvariant, PTL

(* No channel is answered or closed twice, however the answers, the read   *)
(* errors, the Closes and the calls' ends interleave.                      *)
THEOREM OneHolder == Spec => []ChannelHasOneHolder
<1>1. SessionInv => ChannelHasOneHolder
  <2> SUFFICES ASSUME SessionInv, NEW q \in Calls
               PROVE  /\ \A x, y \in Places(q) : x = y
                      /\ chan[q].state # "open" => Places(q) = {}
    BY DEF ChannelHasOneHolder
  <2>1. HolderInv
    BY DEF SessionInv
  <2>2. ASSUME NEW x \in Places(q)
        PROVE  \/ InPending(q) /\ \E s \in Seqs : x = <<"pending", s>> /\ pending[s] = q
               \/ InReader(q) /\ \E c \in Conns : x = <<"reader", c>> /\ reader[c].hand = q
               \/ InCloser(q) /\ \E k \in Closers : x = <<"closer", k>> /\ q \in closer[k].chans
    BY DEF Places, InPending, InReader, InCloser
  <2>3. /\ InPending(q) => ~InReader(q) /\ ~InCloser(q)
        /\ InReader(q) => ~InCloser(q)
        /\ InPending(q) \/ InReader(q) \/ InCloser(q) => chan[q].state = "open"
    BY <2>1 DEF HolderInv, InPending
  <2>4. ASSUME NEW x \in Places(q), NEW y \in Places(q) PROVE x = y
    <3>1. CASE InPending(q)
      BY <2>1, <2>2, <2>3, <3>1 DEF HolderInv
    <3>2. CASE InReader(q)
      BY <2>1, <2>2, <2>3, <3>2 DEF HolderInv
    <3>3. CASE InCloser(q)
      BY <2>1, <2>2, <2>3, <3>3 DEF HolderInv
    <3> QED
      BY <2>2, <3>1, <3>2, <3>3
  <2> QED
    BY <2>2, <2>3, <2>4
<1> QED
  BY <1>1, SessionInvariant, PTL

(* No connection is closed by two Closes, though every read loop closes    *)
(* whatever connection is current by then.                                 *)
THEOREM OneCloser == Spec => []ConnHasOneCloser
<1>1. SessionInv => ConnHasOneCloser
  BY DEF SessionInv, ConnInv, ConnHasOneCloser
<1> QED
  BY <1>1, SessionInvariant, PTL

(* Answers on one connection are never mixed up.                           *)
THEOREM NoMixUpOnOneConnection == Spec => []MixUpNeedsTwoConnections
<1>1. SessionInv => MixUpNeedsTwoConnections
  <2> SUFFICES ASSUME SessionInv, NEW q \in Calls, call[q].got \notin {NoCall, q}
               PROVE  call[call[q].got].seq = call[q].seq /\ call[call[q].got].from # call[q].from
    BY DEF MixUpNeedsTwoConnections
  <2>1. SameNumber(call[q].got, q)
    BY DEF SessionInv, AnswerInv
  <2> QED
    BY <2>1 DEF SameNumber, SessionInv, NumbersInv
<1> QED
  BY <1>1, SessionInvariant, PTL

(* A connection is left behind open only where two Connects dialled at     *)
(* once: no order of closes, read errors and unbinds does it alone.        *)
THEOREM ForgottenOnlyByOverlap == Spec => []ForgottenNeedsOverlap
<1>1. SessionInv => ForgottenNeedsOverlap
  BY DEF SessionInv, OverlapInv, ForgottenNeedsOverlap
<1> QED
  BY <1>1, SessionInvariant, PTL

=============================================================================
