---------------------------- MODULE SMPPManager ----------------------------
(***************************************************************************)
(* The SMPP manager: it subscribes to the runtime configuration            *)
(* (RuntimeConfig) and keeps one client per active upstream, while         *)
(* submitters pick the default client and use it after the lock is gone.   *)
(*                                                                         *)
(* A client is known by the order of its creation.  Its session is only    *)
(* bound or not (SMPPSession has the rest): Connect binds it, for the run  *)
(* loop and for a submit alike, and Close unbinds it.                      *)
(***************************************************************************)
EXTENDS RuntimeConfig, FiniteSets

CONSTANTS
    Submitters,
    Rank,          \* the order of the names
    MaxClients     \* bound: clients created

VARIABLES
    clients,       \* Manager.clients: the client of each name
    client,        \* every client made so far
    created,
    started,       \* Manager.runCtx is set
    handler,       \* Manager.receiptHandler is set
    submit         \* the submits in progress, with the client each picked

manager == <<clients, client, created, started, handler>>
vars == <<config, manager, submit>>

Ids == 1 .. MaxClients
NoClient == 0

ASSUME ManagerConstants ==
    /\ Rank \in [Names -> Nat] /\ \A m, n \in Names : Rank[m] = Rank[n] => m = n
    /\ Names # {} /\ IsFiniteSet(Names)
    /\ MaxClients \in Nat /\ Cardinality(Names) <= MaxClients

ClientState == [name : Names, cfg : Configs \cup {NoConfig},
                run : {"unborn", "new", "running", "closed"}, bound : BOOLEAN,
                receipts : BOOLEAN]
Unborn == [name |-> CHOOSE n \in Names : TRUE, cfg |-> NoConfig, run |-> "unborn",
           bound |-> FALSE, receipts |-> FALSE]
InUse == {clients[n] : n \in Names} \ {NoClient}
SubmitState == [pc : {"idle", "connect", "request"}, id : Ids \cup {NoClient}]

\* Where a name is among these, in the order of the names.
Position(S, n) == Cardinality({m \in S : Rank[m] <= Rank[n]})

TypeOK ==
    /\ ConfigTypeOK
    /\ clients \in [Names -> Ids \cup {NoClient}]
    /\ client \in [Ids -> ClientState]
    /\ created \in 0 .. MaxClients
    /\ started \in BOOLEAN /\ handler \in BOOLEAN
    /\ submit \in [Submitters -> SubmitState]

----------------------------------------------------------------------------
(* Refresh, under the write lock from its start to its end *)

\* Mutant: a client whose upstream is gone stays.
OutdatedIfStillThere(s) ==
    {n \in Names : clients[n] # NoClient /\ s[n] # NoConfig /\ client[clients[n]].cfg # s[n]}

\* The clients whose upstream is gone or has another configuration are closed.
Outdated(s) == {n \in Names : clients[n] # NoClient /\ client[clients[n]].cfg # s[n]}

\* The active upstreams without a client of their configuration get a new one.
Needed(s) ==
    {n \in Names : s[n] # NoConfig /\ (clients[n] = NoClient \/ n \in Outdated(s))}

\* The new clients are numbered in the order of their names.
NewId(s, n) == created + Position(Needed(s), n)

\* Mutant: a new client gets no receipt handler.
NewClientWithoutHandler(n, c, run, receipts) ==
    [name |-> n, cfg |-> c, run |-> run, bound |-> FALSE, receipts |-> FALSE]

NewClient(n, c, run, receipts) ==
    [name |-> n, cfg |-> c, run |-> run, bound |-> FALSE, receipts |-> receipts]

\* Mutant: Close closes the session and leaves the run loop.
CloseSessionOnly(c) == [c EXCEPT !.bound = FALSE]

CloseClient(c) == [c EXCEPT !.run = "closed", !.bound = FALSE]

Refresh(s) ==
    /\ created + Cardinality(Needed(s)) <= MaxClients
    /\ created' = created + Cardinality(Needed(s))
    /\ clients' = [n \in Names |-> CASE n \in Needed(s) -> NewId(s, n)
                                     [] n \in Outdated(s) \ Needed(s) -> NoClient
                                     [] OTHER -> clients[n]]
    /\ client' = [i \in Ids |->
          IF \E n \in Needed(s) : NewId(s, n) = i
          THEN LET n == CHOOSE n \in Needed(s) : NewId(s, n) = i IN
               NewClient(n, s[n], IF started THEN "running" ELSE "new", handler)
          ELSE IF i \in {clients[n] : n \in Outdated(s)} THEN CloseClient(client[i])
          ELSE client[i]]
    /\ UNCHANGED <<started, handler, submit>>

\* main refreshed the manager with the snapshot it loaded, before it started the watcher.
Init ==
    /\ ConfigInit
    /\ LET active == {n \in Names : db[n] # NoConfig} IN
       /\ created = Cardinality(active)
       /\ clients = [n \in Names |-> IF n \in active THEN Position(active, n) ELSE NoClient]
       /\ client = [i \in Ids |->
             IF \E n \in active : Position(active, n) = i
             THEN LET n == CHOOSE n \in active : Position(active, n) = i IN NewClient(n, db[n], "new", FALSE)
             ELSE Unborn]
    /\ started = FALSE /\ handler = FALSE
    /\ submit = [s \in Submitters |-> [pc |-> "idle", id |-> NoClient]]

----------------------------------------------------------------------------
(* main *)

\* The handler is set on the clients there are, and kept for those to come.
SetDeliveryReceiptHandler ==
    /\ main.pc = "start" /\ ~handler
    /\ handler' = TRUE
    /\ client' = [i \in Ids |-> IF i \in InUse THEN [client[i] EXCEPT !.receipts = TRUE] ELSE client[i]]
    /\ UNCHANGED <<config, clients, created, started, submit>>

\* StartAutoRefresh: the clients there are get their run loops.
Start ==
    /\ main.pc = "subscribed" /\ ~started
    /\ started' = TRUE
    /\ client' = [i \in Ids |-> IF i \in InUse THEN [client[i] EXCEPT !.run = "running"] ELSE client[i]]
    /\ UNCHANGED <<config, clients, created, handler, submit>>

\* Its goroutine: one snapshot, one Refresh.
AutoRefresh ==
    /\ started
    /\ Receive
    /\ Refresh(Head(queue))

----------------------------------------------------------------------------
(* Sessions and submits *)

\* The run loop connects; a connection is lost.
Connect(i) ==
    /\ client[i].run = "running" /\ ~client[i].bound
    /\ client' = [client EXCEPT ![i].bound = TRUE]
    /\ UNCHANGED <<config, clients, created, started, handler, submit>>

Disconnect(i) ==
    /\ client[i].bound
    /\ client' = [client EXCEPT ![i].bound = FALSE]
    /\ UNCHANGED <<config, clients, created, started, handler, submit>>

\* The first name in use.
Default == CHOOSE n \in Names : /\ clients[n] # NoClient
                                /\ \A m \in Names : clients[m] # NoClient => Rank[n] <= Rank[m]

\* The submitter keeps the client when it gives the lock back.
SubmitWAPPush(s) ==
    /\ started /\ submit[s].pc = "idle"
    /\ \E n \in Names : clients[n] # NoClient
    /\ submit' = [submit EXCEPT ![s] = [pc |-> "connect", id |-> clients[Default]]]
    /\ UNCHANGED <<config, manager>>

\* The session dials if it is not bound, also after the client was closed.
SubmitConnects(s) ==
    /\ submit[s].pc = "connect"
    /\ client' = [client EXCEPT ![submit[s].id].bound = TRUE]
    /\ submit' = [submit EXCEPT ![s].pc = "request"]
    /\ UNCHANGED <<config, clients, created, started, handler>>

SubmitEnds(s) ==
    /\ submit[s].pc \in {"connect", "request"}   \* answered, or failed at any point
    /\ submit' = [submit EXCEPT ![s] = [pc |-> "idle", id |-> NoClient]]
    /\ UNCHANGED <<config, manager>>

----------------------------------------------------------------------------
\* main, in its order: the handler, Subscribe, StartAutoRefresh.
MainStep ==
    \/ SetDeliveryReceiptHandler
    \/ handler /\ (Subscribe \/ SubscribeSends) /\ UNCHANGED <<manager, submit>>
    \/ Start

Next ==
    \/ ConfigNext /\ UNCHANGED <<manager, submit>>
    \/ MainStep \/ AutoRefresh
    \/ \E i \in Ids : Connect(i) \/ Disconnect(i)
    \/ \E s \in Submitters : SubmitWAPPush(s) \/ SubmitConnects(s) \/ SubmitEnds(s)

Spec == Init /\ [][Next]_vars

\* main, the watcher and the subscriber's goroutine run; nothing is asked of the
\* database, the network and the submitters.
Fairness ==
    /\ WF_vars(WatcherStep /\ UNCHANGED <<manager, submit>>)
    /\ WF_vars(MainStep)
    /\ WF_vars(AutoRefresh)

FairSpec == Spec /\ Fairness

----------------------------------------------------------------------------
(* Properties *)

\* Two run loops never keep sessions to one upstream, under two configurations or
\* the same: Refresh closes the client it replaces before the new one starts, and
\* what runs is in the map (manager.go, Refresh and Start).
OneRunLoopPerUpstream ==
    \A i \in Ids : client[i].run = "running" => clients[client[i].name] = i

\* A client that runs or is in use once main has subscribed hands its receipts on,
\* whichever of the two places made it (manager.go, SetDeliveryReceiptHandler and Refresh).
ReceiptsAreHandled ==
    \A i \in Ids : client[i].run = "running" \/ (started /\ i \in InUse) => client[i].receipts

Configured(n) == IF clients[n] = NoClient THEN NoConfig ELSE client[clients[n]].cfg

\* Once the configuration stops changing, the manager's clients are those of the
\* database - unless PostgreSQL's change came while nobody listened or its load
\* failed, the channel did not get the newest snapshot last, the watcher died at
\* its start, or main hangs in Subscribe (watcher.go, runtime.go, main.go).
ConfigIsApplied ==
    <>[](\/ \A n \in Names : Configured(n) = db[n]
         \/ missed \/ lost \/ watcher.pc = "dead" \/ MainBlocked)
=============================================================================
