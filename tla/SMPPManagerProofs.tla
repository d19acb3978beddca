-------------------------- MODULE SMPPManagerProofs --------------------------
(***************************************************************************)
(* Proofs about SMPPManager, for any upstreams, configurations, submitters *)
(* and numbers of changes and failures: what Refresh, under its lock,      *)
(* keeps true of the clients whatever main, the watcher, the run loops and *)
(* the submitters do in between.                                           *)
(***************************************************************************)
EXTENDS SMPPManager, FiniteSetTheorems, TLAPS

(* The client of a name was made for it and not closed; what is numbered   *)
(* higher is not made yet.                                                 *)
MapInv ==
    /\ \A n \in Names : clients[n] # NoClient =>
        /\ clients[n] <= created
        /\ client[clients[n]].name = n
        /\ client[clients[n]].run \in {"new", "running"}
    /\ \A i \in Ids : i > created => client[i].run = "unborn"

(* main sets the handler, then subscribes, then starts the run loops; from *)
(* the first on the clients in use have the handler.                       *)
OrderInv ==
    /\ main.pc # "start" => handler
    /\ started => handler
    /\ handler => \A i \in InUse : client[i].receipts
    /\ \A i \in Ids : client[i].run = "running" => started

(* A submit under way holds a client that was made. *)
UseInv == \A s \in Submitters : submit[s].pc # "idle" => submit[s].id \in Ids

ManagerInv == TypeOK /\ MapInv /\ OneRunLoopPerUpstream /\ OrderInv /\ UseInv

----------------------------------------------------------------------------
(* The order of the names *)

LEMMA NamesFacts ==
    /\ IsFiniteSet(Names) /\ Cardinality(Names) \in Nat /\ Cardinality(Names) <= MaxClients
    /\ MaxClients \in Nat /\ Rank \in [Names -> Nat] /\ Names # {}
    /\ \A m, n \in Names : Rank[m] = Rank[n] => m = n
  BY ManagerConstants, FS_CardinalityType

(* Each of some names has a place of its own among them. *)
LEMMA PositionFacts ==
    ASSUME NEW S \in SUBSET Names
    PROVE  /\ Cardinality(S) \in Nat /\ Cardinality(S) <= Cardinality(Names)
           /\ \A n \in S : Position(S, n) \in 1 .. Cardinality(S)
           /\ \A m, n \in S : Position(S, m) = Position(S, n) => m = n
<1> DEFINE T(n) == {m \in S : Rank[m] <= Rank[n]}
<1>1. IsFiniteSet(S) /\ Cardinality(S) \in Nat /\ Cardinality(S) <= Cardinality(Names)
  BY NamesFacts, FS_Subset, FS_CardinalityType
<1>2. ASSUME NEW n \in S
      PROVE  /\ T(n) \subseteq S /\ n \in T(n) /\ IsFiniteSet(T(n))
             /\ Cardinality(T(n)) \in Nat /\ Cardinality(T(n)) <= Cardinality(S) /\ Cardinality(T(n)) # 0
  <2>1. Rank[n] \in Nat
    BY NamesFacts
  <2>2. T(n) \in SUBSET S /\ n \in T(n)
    BY <2>1
  <2> HIDE DEF T
  <2>3. IsFiniteSet(T(n)) /\ Cardinality(T(n)) <= Cardinality(S)
    BY <1>1, <2>2, FS_Subset
  <2>4. Cardinality(T(n)) \in Nat /\ Cardinality(T(n)) # 0
    BY <2>2, <2>3, FS_CardinalityType, FS_EmptySet
  <2> QED
    BY <2>2, <2>3, <2>4
<1>3. ASSUME NEW m \in S, NEW n \in S, Cardinality(T(m)) = Cardinality(T(n)), Rank[m] <= Rank[n]
      PROVE  m = n
  <2>1. Rank[m] \in Nat /\ Rank[n] \in Nat /\ \A k \in S : Rank[k] \in Nat
    BY NamesFacts
  <2>2. T(m) \in SUBSET T(n)
    BY <1>3, <2>1
  <2>3. T(m) = T(n)
    <3> HIDE DEF T
    <3> QED
      BY <1>2, <1>3, <2>2, FS_Subset
  <2>4. n \in T(m)
    BY <1>2, <2>3
  <2>5. Rank[n] <= Rank[m]
    BY <2>4
  <2> QED
    BY <1>3, <2>1, <2>5, NamesFacts
<1>4. \A n \in S : Position(S, n) = Cardinality(T(n))
  BY DEF Position
<1>5. \A m, n \in S : Rank[m] <= Rank[n] \/ Rank[n] <= Rank[m]
  BY NamesFacts
<1> HIDE DEF T
<1>6. \A m, n \in S : Cardinality(T(m)) = Cardinality(T(n)) => m = n
  BY <1>3, <1>5
<1> QED
  BY <1>1, <1>2, <1>4, <1>6

(* A set of numbers has a least one. *)
LEMMA LeastOfNumbers ==
    ASSUME NEW T, T \subseteq Nat, T # {}
    PROVE  \E x \in T : \A y \in T : x <= y
<1> DEFINE F == {0 .. t : t \in T}
<1>1. PICK R : R = StrictSubsetOrdering(Nat)
  OBVIOUS
<1>2. IsWellFoundedOn(R, FiniteSubsetsOf(Nat))
  BY <1>1, FS_StrictSubsetOrderingWellFounded
<1>3. F \subseteq FiniteSubsetsOf(Nat) /\ F # {}
  <2>1. \A t \in T : t \in Nat /\ 0 .. t \subseteq Nat /\ IsFiniteSet(0 .. t)
    BY FS_Interval
  <2> QED
    BY <2>1 DEF FiniteSubsetsOf
<1>4. PICK c \in F : \A d \in F : ~ (<<d, c>> \in R)
  BY <1>2, <1>3, WFMin
<1>5. PICK x \in T : c = 0 .. x
  OBVIOUS
<1>6. ASSUME NEW y \in T, y < x PROVE FALSE
  <2>1. /\ 0 .. y \subseteq 0 .. x /\ x \in 0 .. x /\ x \notin 0 .. y
        /\ 0 .. x \subseteq Nat /\ 0 .. y \subseteq Nat
    BY <1>6
  <2>2. <<0 .. y, 0 .. x>> \in R
    BY <1>1, <2>1 DEF StrictSubsetOrdering
  <2> QED
    BY <1>4, <1>5, <2>2
<1> QED
  BY <1>6

(* There is a first name in use when there is any. *)
LEMMA DefaultFacts ==
    ASSUME \E n \in Names : clients[n] # NoClient
    PROVE  Default \in Names /\ clients[Default] # NoClient
<1> DEFINE T == {Rank[n] : n \in {k \in Names : clients[k] # NoClient}}
<1>1. T \subseteq Nat /\ T # {}
  BY NamesFacts
<1>2. PICK x \in T : \A y \in T : x <= y
  BY <1>1, LeastOfNumbers
<1>3. PICK n \in Names : clients[n] # NoClient /\ Rank[n] = x
  OBVIOUS
<1>4. \A m \in Names : clients[m] # NoClient => Rank[n] <= Rank[m]
  BY <1>2, <1>3
<1> QED
  BY <1>3, <1>4 DEF Default

----------------------------------------------------------------------------
(* The configuration's steps *)

WatcherPC == {"startup", "loaded", "send", "wait", "pause", "dead"}

LEMMA WatcherFields ==
    ASSUME NEW w \in WatcherState
    PROVE  /\ w.snap \in Snapshot /\ w.subscribed \in BOOLEAN
           /\ \A pc \in WatcherPC : [w EXCEPT !.pc = pc] \in WatcherState
           /\ \A s \in Snapshot, f \in BOOLEAN :
                [w EXCEPT !.pc = "loaded", !.snap = s, !.first = f] \in WatcherState
           /\ \A b \in BOOLEAN : [w EXCEPT !.pc = "send", !.subscribed = b] \in WatcherState
  BY DEF WatcherState, WatcherPC

LEMMA GoFacts ==
    ASSUME ConfigTypeOK, NEW pc \in WatcherPC, Go(pc)
    PROVE  watcher' \in WatcherState
<1>1. PICK w \in WatcherState : w = watcher
  BY DEF ConfigTypeOK
<1>2. watcher' = [w EXCEPT !.pc = pc]
  BY <1>1 DEF Go
<1> QED
  BY <1>2, WatcherFields

LEMMA QueueFacts ==
    ASSUME ConfigTypeOK
    PROVE  /\ Len(queue) \in Nat
           /\ \A s \in Snapshot : Append(queue, s) \in Seq(Snapshot) /\ Len(Append(queue, s)) = Len(queue) + 1
           /\ queue # <<>> =>
                /\ Head(queue) \in Snapshot /\ Tail(queue) \in Seq(Snapshot)
                /\ Len(Tail(queue)) = Len(queue) - 1
<1>1. queue \in Seq(Snapshot)
  BY DEF ConfigTypeOK
<1> HIDE DEF Snapshot
<1> QED
  BY <1>1

(* The watcher and the database keep the types, and leave main alone.      *)
LEMMA ConfigNextTypes ==
    ASSUME ConfigTypeOK, ConfigNext
    PROVE  ConfigTypeOK' /\ main' = main
<1>1. ASSUME NEW n \in Names, NEW c \in Configs \cup {NoConfig}, ChangeConfig(n, c)
      PROVE  ConfigTypeOK' /\ main' = main
  <2>1. db' \in Snapshot
    BY <1>1 DEF ChangeConfig, ConfigTypeOK, Snapshot
  <2>2. notified' \in Nat /\ changes' \in Nat /\ missed' \in BOOLEAN
    BY <1>1 DEF ChangeConfig, ConfigTypeOK
  <2> QED
    BY <1>1, <2>1, <2>2 DEF ChangeConfig, ConfigTypeOK, subscription
<1>2. ASSUME Wakes PROVE notified' \in Nat
  BY <1>2 DEF Wakes, ConfigTypeOK
<1>3. ASSUME LoadRuntimeSnapshot PROVE ConfigTypeOK' /\ main' = main
  <2>1. PICK w \in WatcherState : w = watcher
    BY DEF ConfigTypeOK
  <2>2. PICK s \in Snapshot : s = db
    BY DEF ConfigTypeOK
  <2>3. PICK f \in BOOLEAN : f = (watcher.pc = "startup")
    OBVIOUS
  <2>4. watcher' = [w EXCEPT !.pc = "loaded", !.snap = s, !.first = f]
    BY <1>3, <2>1, <2>2, <2>3, Zenon DEF LoadRuntimeSnapshot
  <2>5. watcher' \in WatcherState
    BY <2>4, WatcherFields, Zenon
  <2> QED
    BY <1>2, <1>3, <2>5 DEF LoadRuntimeSnapshot, ConfigTypeOK, subscription
<1>4. ASSUME LoadFails PROVE ConfigTypeOK' /\ main' = main
  <2>1. watcher' \in WatcherState
    BY <1>4, GoFacts DEF LoadFails, WatcherPC
  <2> QED
    BY <1>2, <1>4, <2>1 DEF LoadFails, ConfigTypeOK, subscription
<1>5. ASSUME NothingNew PROVE ConfigTypeOK' /\ main' = main
  <2>1. watcher' \in WatcherState
    BY <1>5, GoFacts DEF NothingNew, AfterReload, WatcherPC
  <2> QED
    BY <1>5, <2>1 DEF NothingNew, ConfigTypeOK, subscription
<1>6. ASSUME Replace PROVE ConfigTypeOK' /\ main' = main
  <2>1. PICK w \in WatcherState : w = watcher
    BY DEF ConfigTypeOK
  <2>2. PICK b \in BOOLEAN : b = (main.pc # "start")
    OBVIOUS
  <2>3. watcher' = [w EXCEPT !.pc = "send", !.subscribed = b]
    BY <1>6, <2>1, <2>2, Zenon DEF Replace
  <2>4. watcher' \in WatcherState
    BY <2>3, WatcherFields, Zenon
  <2>5. store' \in Snapshot
    BY <1>6, <2>1, WatcherFields DEF Replace
  <2> QED
    BY <1>6, <2>4, <2>5 DEF Replace, ConfigTypeOK, subscription
<1>7. ASSUME SendOrDrop PROVE ConfigTypeOK' /\ main' = main
  <2>1. watcher' \in WatcherState
    BY <1>7, GoFacts DEF SendOrDrop, AfterReload, WatcherPC
  <2>2. watcher.snap \in Snapshot
    BY WatcherFields DEF ConfigTypeOK
  <2>3. queue' \in {queue, Append(queue, watcher.snap)} /\ (queue' # queue => Len(queue) < Buffer)
    BY <1>7 DEF SendOrDrop
  <2>4. queue' \in Seq(Snapshot) /\ Len(queue') <= Buffer
    BY <2>2, <2>3, QueueFacts, RuntimeConstants DEF ConfigTypeOK
  <2>5. lost' \in BOOLEAN
    BY <1>7 DEF SendOrDrop, ConfigTypeOK
  <2> QED
    BY <1>7, <2>1, <2>4, <2>5 DEF SendOrDrop, ConfigTypeOK
<1>8. ASSUME Listen PROVE ConfigTypeOK' /\ main' = main
  <2>1. watcher' \in WatcherState
    BY <1>8, GoFacts DEF Listen, WatcherPC
  <2> QED
    BY <1>8, <2>1 DEF Listen, ConfigTypeOK, subscription
<1>9. ASSUME ListenFails PROVE ConfigTypeOK' /\ main' = main
  <2>1. watcher' \in WatcherState
    BY <1>9, GoFacts DEF ListenFails, WatcherPC
  <2>2. failures' = failures + 1 /\ notified' = 0 /\ listening' = FALSE
    BY <1>9 DEF ListenFails
  <2>3. failures' \in Nat /\ notified' \in Nat
    BY <2>2 DEF ConfigTypeOK
  <2>4. missed' \in BOOLEAN /\ listening' \in BOOLEAN
    BY <1>9, Zenon DEF ListenFails
  <2>5. UNCHANGED <<driver, db, changes, store, subscription, lost>>
    BY <1>9 DEF ListenFails
  <2> QED
    BY <2>1, <2>3, <2>4, <2>5 DEF ConfigTypeOK, subscription
<1> QED
  BY <1>1, <1>3, <1>4, <1>5, <1>6, <1>7, <1>8, <1>9 DEF ConfigNext, WatcherStep

(* main's part of the subscription. *)
LEMMA SubscribeTypes ==
    ASSUME ConfigTypeOK, Subscribe \/ SubscribeSends
    PROVE  ConfigTypeOK'
<1>1. CASE Subscribe
  <2>1. main' \in MainState
    BY <1>1 DEF Subscribe, ConfigTypeOK, MainState
  <2> QED
    BY <1>1, <2>1 DEF Subscribe, ConfigTypeOK, watch
<1>2. CASE SubscribeSends
  <2>1. main' \in MainState /\ main.snap \in Snapshot
    BY <1>2 DEF SubscribeSends, ConfigTypeOK, MainState
  <2>2. queue' \in Seq(Snapshot) /\ Len(queue') <= Buffer
    BY <1>2, <2>1, QueueFacts, RuntimeConstants DEF SubscribeSends, ConfigTypeOK
  <2>3. lost' \in BOOLEAN
    BY <1>2 DEF SubscribeSends
  <2> QED
    BY <1>2, <2>1, <2>2, <2>3 DEF SubscribeSends, ConfigTypeOK, watch
<1> QED
  BY <1>1, <1>2

(* The subscriber's goroutine takes a snapshot. *)
LEMMA ReceiveTypes ==
    ASSUME ConfigTypeOK, Receive
    PROVE  ConfigTypeOK' /\ Head(queue) \in Snapshot /\ main' = main
<1>1. queue' \in Seq(Snapshot) /\ Len(queue') <= Buffer /\ Head(queue) \in Snapshot
  BY QueueFacts, RuntimeConstants DEF Receive, ConfigTypeOK
<1> QED
  BY <1>1 DEF Receive, ConfigTypeOK, watch

----------------------------------------------------------------------------
(* The clients *)

LEMMA ClientFields ==
    ASSUME NEW c \in ClientState
    PROVE  /\ c.name \in Names /\ c.cfg \in Configs \cup {NoConfig} /\ c.receipts \in BOOLEAN
           /\ CloseClient(c) \in ClientState
           /\ CloseClient(c).name = c.name /\ CloseClient(c).run = "closed"
           /\ CloseClient(c).receipts = c.receipts
           /\ [c EXCEPT !.receipts = TRUE] \in ClientState
           /\ [c EXCEPT !.run = "running"] \in ClientState
           /\ \A b \in BOOLEAN : [c EXCEPT !.bound = b] \in ClientState
  BY DEF ClientState, CloseClient

LEMMA NewClientFields ==
    ASSUME NEW n \in Names, NEW c \in Configs \cup {NoConfig}, NEW run \in {"new", "running"},
           NEW receipts \in BOOLEAN
    PROVE  /\ NewClient(n, c, run, receipts) \in ClientState
           /\ NewClient(n, c, run, receipts).name = n
           /\ NewClient(n, c, run, receipts).run = run
           /\ NewClient(n, c, run, receipts).receipts = receipts
  BY DEF ClientState, NewClient

(* What Refresh does to each name and to each client.                      *)
Replaced(s) == {clients[n] : n \in Outdated(s)}

LEMMA RefreshEffect ==
    ASSUME TypeOK, NEW s \in Snapshot, Refresh(s)
    PROVE  /\ created' \in 0 .. MaxClients /\ created <= created'
           /\ clients' \in [Names -> Ids \cup {NoClient}]
           /\ \A n \in Needed(s) :
                /\ clients'[n] \in Ids /\ created < clients'[n] /\ clients'[n] <= created'
                /\ client'[clients'[n]] =
                     NewClient(n, s[n], IF started THEN "running" ELSE "new", handler)
           /\ \A n \in Names \ Needed(s) :
                clients'[n] = IF n \in Outdated(s) THEN NoClient ELSE clients[n]
           /\ \A i \in Ids : ~ (\E n \in Needed(s) : clients'[n] = i) =>
                client'[i] = IF i \in Replaced(s) THEN CloseClient(client[i]) ELSE client[i]
           /\ UNCHANGED <<started, handler, submit>>
<1> DEFINE D == Needed(s)
           run == IF started THEN "running" ELSE "new"
<1>1. D \in SUBSET Names
  BY DEF Needed
<1>2. /\ Cardinality(D) \in Nat
      /\ \A n \in D : Position(D, n) \in 1 .. Cardinality(D)
      /\ \A m, n \in D : Position(D, m) = Position(D, n) => m = n
  BY <1>1, PositionFacts
<1>3. created \in 0 .. MaxClients /\ MaxClients \in Nat
  BY NamesFacts DEF TypeOK
<1>4. created' = created + Cardinality(D) /\ created + Cardinality(D) <= MaxClients
  BY DEF Refresh
<1>5. \A n \in D : NewId(s, n) = created + Position(D, n)
  BY DEF NewId
<1>6. clients' = [n \in Names |-> CASE n \in D -> NewId(s, n)
                                    [] n \in Outdated(s) \ D -> NoClient
                                    [] OTHER -> clients[n]]
  BY DEF Refresh
<1>7. client' = [i \in Ids |->
          IF \E n \in D : NewId(s, n) = i
          THEN NewClient(CHOOSE n \in D : NewId(s, n) = i, s[CHOOSE n \in D : NewId(s, n) = i], run, handler)
          ELSE IF i \in Replaced(s) THEN CloseClient(client[i]) ELSE client[i]]
  BY DEF Refresh, Replaced
<1>8. UNCHANGED <<started, handler, submit>>
  BY DEF Refresh
<1> HIDE DEF D, run
<1>9. ASSUME NEW n \in D
      PROVE  NewId(s, n) \in Ids /\ created < NewId(s, n) /\ NewId(s, n) <= created'
  <2>1. Position(D, n) \in 1 .. Cardinality(D)
    BY <1>2
  <2> QED
    BY <1>2, <1>3, <1>4, <1>5, <2>1 DEF Ids
<1>10. \A m, n \in D : NewId(s, m) = NewId(s, n) => m = n
  <2>1. \A n \in D : Position(D, n) \in Nat
    BY <1>2
  <2> QED
    BY <1>2, <1>3, <1>5, <2>1
<1>11. /\ \A n \in D : clients'[n] = NewId(s, n)
       /\ \A n \in Names \ D : clients'[n] = IF n \in Outdated(s) THEN NoClient ELSE clients[n]
  BY <1>1, <1>6
<1>12. ASSUME NEW n \in D
       PROVE  client'[NewId(s, n)] = NewClient(n, s[n], run, handler)
  <2>1. (CHOOSE m \in D : NewId(s, m) = NewId(s, n)) = n
    BY <1>10
  <2>2. \E m \in D : NewId(s, m) = NewId(s, n)
    OBVIOUS
  <2> QED
    BY <1>7, <1>9, <2>1, <2>2
<1>13. ASSUME NEW i \in Ids, ~ (\E n \in D : clients'[n] = i)
       PROVE  client'[i] = IF i \in Replaced(s) THEN CloseClient(client[i]) ELSE client[i]
  BY <1>7, <1>11, <1>13
<1>14. clients' \in [Names -> Ids \cup {NoClient}]
  BY <1>6, <1>9 DEF TypeOK
<1>15. created' \in 0 .. MaxClients /\ created <= created'
  BY <1>2, <1>3, <1>4
<1> USE DEF D, run
<1> QED
  BY <1>8, <1>9, <1>11, <1>12, <1>13, <1>14, <1>15

(* The client that Refresh makes for a name. *)
LEMMA RefreshMakes ==
    ASSUME TypeOK, NEW s \in Snapshot, Refresh(s), NEW n \in Needed(s)
    PROVE  /\ client'[clients'[n]] \in ClientState
           /\ client'[clients'[n]].name = n /\ client'[clients'[n]].run \in {"new", "running"}
           /\ client'[clients'[n]].receipts = handler
<1>1. n \in Names /\ s[n] \in Configs \cup {NoConfig}
  BY DEF Needed, Snapshot
<1>2. PICK run \in {"new", "running"} : run = IF started THEN "running" ELSE "new"
  OBVIOUS
<1>3. PICK c \in Configs \cup {NoConfig} : c = s[n]
  BY <1>1
<1>4. PICK h \in BOOLEAN : h = handler
  BY Zenon DEF TypeOK
<1>5. client'[clients'[n]] = NewClient(n, s[n], IF started THEN "running" ELSE "new", handler)
  BY RefreshEffect
<1>6. client'[clients'[n]] = NewClient(n, c, run, h)
  BY <1>2, <1>3, <1>4, <1>5, Zenon
<1>7. NewClient(n, c, run, h) \in ClientState
  BY <1>1, NewClientFields, Zenon
<1>8. NewClient(n, c, run, h).name = n /\ NewClient(n, c, run, h).run = run
  BY DEF NewClient
<1>9. NewClient(n, c, run, h).receipts = h
  BY DEF NewClient
<1>10. run \in {"new", "running"}
  OBVIOUS
<1> QED
  BY <1>4, <1>6, <1>7, <1>8, <1>9, <1>10, Zenon

(* Refresh keeps the clients' types. *)
LEMMA RefreshTypes ==
    ASSUME TypeOK, NEW s \in Snapshot, Refresh(s)
    PROVE  client' \in [Ids -> ClientState]
<1> USE RefreshEffect
<1>1. \A i \in Ids : client[i] \in ClientState
  BY DEF TypeOK
<1>2. Needed(s) \in SUBSET Names /\ \A n \in Names : s[n] \in Configs \cup {NoConfig}
  BY DEF Needed, Snapshot
<1>3. ASSUME NEW i \in Ids PROVE client'[i] \in ClientState
  <2>1. CASE \E n \in Needed(s) : clients'[n] = i
    <3>1. PICK n \in Needed(s) : clients'[n] = i
      BY <2>1
    <3> QED
      BY <3>1, RefreshMakes
  <2>2. CASE ~ (\E n \in Needed(s) : clients'[n] = i)
    <3>1. client'[i] \in {CloseClient(client[i]), client[i]}
      BY <2>2
    <3> QED
      BY <1>1, <3>1, ClientFields
  <2> QED
    BY <2>1, <2>2
<1>4. client' = [i \in Ids |-> client'[i]]
  BY Zenon DEF Refresh
<1> QED
  BY <1>3, <1>4

(* What the other steps do to the clients. *)
LEMMA HandlerEffect ==
    ASSUME TypeOK, SetDeliveryReceiptHandler
    PROVE  /\ handler' = TRUE /\ client' \in [Ids -> ClientState]
           /\ \A i \in Ids :
                /\ client'[i].name = client[i].name /\ client'[i].run = client[i].run
                /\ i \in InUse => client'[i].receipts
           /\ UNCHANGED <<config, clients, created, started, submit>>
<1>1. client' = [i \in Ids |-> IF i \in InUse THEN [client[i] EXCEPT !.receipts = TRUE] ELSE client[i]]
  BY DEF SetDeliveryReceiptHandler
<1>2. handler' = TRUE /\ UNCHANGED <<config, clients, created, started, submit>>
  BY DEF SetDeliveryReceiptHandler
<1>3. ASSUME NEW i \in Ids
      PROVE  /\ client'[i] \in ClientState
             /\ client'[i].name = client[i].name /\ client'[i].run = client[i].run
             /\ i \in InUse => client'[i].receipts
  <2>1. PICK c \in ClientState : c = client[i]
    BY DEF TypeOK
  <2>2. client'[i] = IF i \in InUse THEN [c EXCEPT !.receipts = TRUE] ELSE c
    BY <1>1, <2>1
  <2> QED
    BY <2>1, <2>2 DEF ClientState
<1> QED
  BY <1>1, <1>2, <1>3

LEMMA StartEffect ==
    ASSUME TypeOK, Start
    PROVE  /\ started' = TRUE /\ main.pc = "subscribed" /\ client' \in [Ids -> ClientState]
           /\ \A i \in Ids :
                /\ client'[i].name = client[i].name /\ client'[i].receipts = client[i].receipts
                /\ client'[i].run = IF i \in InUse THEN "running" ELSE client[i].run
           /\ UNCHANGED <<config, clients, created, handler, submit>>
<1>1. client' = [i \in Ids |-> IF i \in InUse THEN [client[i] EXCEPT !.run = "running"] ELSE client[i]]
  BY DEF Start
<1>2. /\ started' = TRUE /\ main.pc = "subscribed"
      /\ UNCHANGED <<config, clients, created, handler, submit>>
  BY DEF Start
<1>3. ASSUME NEW i \in Ids
      PROVE  /\ client'[i] \in ClientState
             /\ client'[i].name = client[i].name /\ client'[i].receipts = client[i].receipts
             /\ client'[i].run = IF i \in InUse THEN "running" ELSE client[i].run
  <2>1. PICK c \in ClientState : c = client[i]
    BY DEF TypeOK
  <2>2. client'[i] = IF i \in InUse THEN [c EXCEPT !.run = "running"] ELSE c
    BY <1>1, <2>1
  <2> QED
    BY <2>1, <2>2 DEF ClientState
<1> QED
  BY <1>1, <1>2, <1>3

(* Sessions come and go: of a client only whether it is bound changes.     *)
Sessions ==
    /\ client' \in [Ids -> ClientState]
    /\ \A i \in Ids :
         /\ client'[i].name = client[i].name /\ client'[i].run = client[i].run
         /\ client'[i].receipts = client[i].receipts

LEMMA BoundEffect ==
    ASSUME TypeOK, NEW i \in Ids, NEW b \in BOOLEAN, client' = [client EXCEPT ![i].bound = b]
    PROVE  Sessions
<1>1. ASSUME NEW j \in Ids
      PROVE  /\ client'[j] \in ClientState
             /\ client'[j].name = client[j].name /\ client'[j].run = client[j].run
             /\ client'[j].receipts = client[j].receipts
  <2>1. PICK c \in ClientState : c = client[j]
    BY DEF TypeOK
  <2>2. client'[j] = IF j = i THEN [c EXCEPT !.bound = b] ELSE c
    BY <2>1 DEF TypeOK
  <2> QED
    BY <2>1, <2>2 DEF ClientState
<1> QED
  BY <1>1 DEF Sessions, TypeOK

LEMMA ConnectEffect ==
    ASSUME TypeOK, NEW i \in Ids, Connect(i) \/ Disconnect(i)
    PROVE  Sessions /\ UNCHANGED <<config, clients, created, started, handler, submit>>
  BY BoundEffect DEF Connect, Disconnect

(* A submit picks a client of the map, and may bind its session.           *)
LEMMA SubmitWAPPushEffect ==
    ASSUME TypeOK, UseInv, NEW s \in Submitters, SubmitWAPPush(s)
    PROVE  submit' \in [Submitters -> SubmitState] /\ UseInv' /\ UNCHANGED <<config, manager>>
<1>1. Default \in Names /\ clients[Default] # NoClient
  BY DefaultFacts DEF SubmitWAPPush
<1>2. clients[Default] \in Ids
  BY <1>1 DEF TypeOK
<1>3. submit' = [submit EXCEPT ![s] = [pc |-> "connect", id |-> clients[Default]]]
  BY DEF SubmitWAPPush
<1>4. submit' \in [Submitters -> SubmitState]
  BY <1>2, <1>3 DEF TypeOK, SubmitState
<1>5. \A t \in Submitters : submit'[t].pc # "idle" => submit'[t].id \in Ids
  BY <1>2, <1>3 DEF TypeOK, UseInv
<1> QED
  BY <1>4, <1>5 DEF SubmitWAPPush, UseInv

LEMMA SubmitConnectsEffect ==
    ASSUME TypeOK, UseInv, NEW s \in Submitters, SubmitConnects(s)
    PROVE  /\ submit' \in [Submitters -> SubmitState] /\ UseInv' /\ Sessions
           /\ UNCHANGED <<config, clients, created, started, handler>>
<1>1. submit[s].id \in Ids
  BY DEF SubmitConnects, UseInv
<1>2. Sessions
  BY <1>1, BoundEffect DEF SubmitConnects
<1>3. submit' = [submit EXCEPT ![s].pc = "request"]
  BY DEF SubmitConnects
<1>4. submit' \in [Submitters -> SubmitState]
  BY <1>3 DEF TypeOK, SubmitState
<1>5. \A t \in Submitters : submit'[t].pc # "idle" => submit'[t].id \in Ids
  <2>1. \A t \in Submitters : submit'[t].id = submit[t].id /\ (t # s => submit'[t] = submit[t])
    BY <1>3 DEF TypeOK, SubmitState
  <2> QED
    BY <1>1, <2>1 DEF UseInv
<1> QED
  BY <1>2, <1>4, <1>5 DEF SubmitConnects, UseInv

LEMMA SubmitEndsEffect ==
    ASSUME TypeOK, UseInv, NEW s \in Submitters, SubmitEnds(s)
    PROVE  submit' \in [Submitters -> SubmitState] /\ UseInv' /\ UNCHANGED <<config, manager>>
<1>1. submit' = [submit EXCEPT ![s] = [pc |-> "idle", id |-> NoClient]]
  BY DEF SubmitEnds
<1>2. submit' \in [Submitters -> SubmitState]
  BY <1>1 DEF TypeOK, SubmitState
<1>3. \A t \in Submitters : submit'[t].pc # "idle" => submit'[t].id \in Ids
  BY <1>1 DEF TypeOK, UseInv
<1> QED
  BY <1>2, <1>3 DEF SubmitEnds, UseInv

----------------------------------------------------------------------------
(* Each part of the invariant is kept by every step. *)

(* The types. *)
LEMMA TypeStep ==
    ASSUME TypeOK, UseInv, [Next]_vars
    PROVE  TypeOK'
<1>1. ASSUME ConfigNext /\ UNCHANGED <<manager, submit>> PROVE TypeOK'
  <2>1. ConfigTypeOK'
    BY <1>1, ConfigNextTypes DEF TypeOK
  <2> QED
    BY <1>1, <2>1 DEF TypeOK, manager
<1>2. ASSUME SetDeliveryReceiptHandler PROVE TypeOK'
  <2>1. client' \in [Ids -> ClientState] /\ handler' = TRUE
      /\ UNCHANGED <<config, clients, created, started, submit>>
    BY <1>2, HandlerEffect
  <2> QED
    BY <2>1 DEF TypeOK, ConfigTypeOK, config, watch, subscription
<1>3. ASSUME handler /\ (Subscribe \/ SubscribeSends) /\ UNCHANGED <<manager, submit>>
      PROVE  TypeOK'
  <2>1. ConfigTypeOK'
    BY <1>3, SubscribeTypes DEF TypeOK
  <2> QED
    BY <1>3, <2>1 DEF TypeOK, manager
<1>4. ASSUME Start PROVE TypeOK'
  <2>1. client' \in [Ids -> ClientState] /\ started' = TRUE
      /\ UNCHANGED <<config, clients, created, handler, submit>>
    BY <1>4, StartEffect
  <2> QED
    BY <2>1 DEF TypeOK, ConfigTypeOK, config, watch, subscription
<1>5. ASSUME AutoRefresh PROVE TypeOK'
  <2>1. ConfigTypeOK' /\ Head(queue) \in Snapshot
    BY <1>5, ReceiveTypes DEF AutoRefresh, TypeOK
  <2>2. /\ created' \in 0 .. MaxClients /\ clients' \in [Names -> Ids \cup {NoClient}]
        /\ UNCHANGED <<started, handler, submit>>
    BY <1>5, <2>1, RefreshEffect DEF AutoRefresh
  <2>3. client' \in [Ids -> ClientState]
    BY <1>5, <2>1, RefreshTypes DEF AutoRefresh
  <2> QED
    BY <2>1, <2>2, <2>3 DEF TypeOK
<1>6. ASSUME NEW i \in Ids, Connect(i) \/ Disconnect(i) PROVE TypeOK'
  <2>1. /\ client' \in [Ids -> ClientState]
        /\ UNCHANGED <<config, clients, created, started, handler, submit>>
    BY <1>6, ConnectEffect DEF Sessions
  <2> QED
    BY <2>1 DEF TypeOK, ConfigTypeOK, config, watch, subscription
<1>7. ASSUME NEW s \in Submitters, SubmitWAPPush(s) PROVE TypeOK'
  <2>1. submit' \in [Submitters -> SubmitState] /\ UNCHANGED <<config, manager>>
    BY <1>7, SubmitWAPPushEffect
  <2> QED
    BY <2>1 DEF TypeOK, ConfigTypeOK, config, watch, subscription, manager
<1>8. ASSUME NEW s \in Submitters, SubmitConnects(s) PROVE TypeOK'
  <2>1. /\ submit' \in [Submitters -> SubmitState] /\ client' \in [Ids -> ClientState]
        /\ UNCHANGED <<config, clients, created, started, handler>>
    BY <1>8, SubmitConnectsEffect DEF Sessions
  <2> QED
    BY <2>1 DEF TypeOK, ConfigTypeOK, config, watch, subscription
<1>9. ASSUME NEW s \in Submitters, SubmitEnds(s) PROVE TypeOK'
  <2>1. submit' \in [Submitters -> SubmitState] /\ UNCHANGED <<config, manager>>
    BY <1>9, SubmitEndsEffect
  <2> QED
    BY <2>1 DEF TypeOK, ConfigTypeOK, config, watch, subscription, manager
<1>10. ASSUME UNCHANGED vars PROVE TypeOK'
  BY <1>10 DEF vars, TypeOK, ConfigTypeOK, config, watch, subscription, manager
<1> QED
  BY <1>1, <1>2, <1>3, <1>4, <1>5, <1>6, <1>7, <1>8, <1>9, <1>10 DEF Next, MainStep

(* Refresh keeps the map and the clients together: who stays in the map is neither
   replaced nor one of the new ones.                                       *)
LEMMA RefreshKeepsMap ==
    ASSUME TypeOK, MapInv, NEW s \in Snapshot, Refresh(s)
    PROVE  /\ MapInv'
           /\ \A n \in Names \ (Needed(s) \cup Outdated(s)) :
                /\ clients'[n] = clients[n]
                /\ clients[n] # NoClient => client'[clients[n]] = client[clients[n]]
<1> USE RefreshEffect
<1>1. /\ \A n \in Names : clients[n] \in Ids \cup {NoClient}
      /\ \A i \in Ids : client[i] \in ClientState
      /\ created \in Nat /\ created' \in Nat /\ handler \in BOOLEAN /\ Ids \subseteq Nat
  BY NamesFacts DEF TypeOK, Ids
<1>2. Needed(s) \in SUBSET Names /\ Outdated(s) \in SUBSET Names
  BY DEF Needed, Outdated
<1>3. ASSUME NEW n \in Names \ (Needed(s) \cup Outdated(s)), clients[n] # NoClient
      PROVE  client'[clients[n]] = client[clients[n]]
  <2>1. clients[n] \in Ids /\ clients[n] <= created /\ client[clients[n]].name = n
    BY <1>1, <1>3 DEF MapInv
  <2>2. ~ (\E m \in Needed(s) : clients'[m] = clients[n])
    <3>1. ASSUME NEW m \in Needed(s) PROVE clients'[m] # clients[n]
      <4>1. created < clients'[m] /\ clients'[m] \in Nat
        BY <1>1
      <4>2. created \in Nat /\ clients[n] \in Nat
        BY <1>1, <2>1
      <4>3. \A a, b, c \in Nat : a <= b /\ b < c => c # a
        OBVIOUS
      <4> QED
        BY <2>1, <4>1, <4>2, <4>3, Zenon
    <3> QED
      BY <3>1
  <2>3. clients[n] \notin Replaced(s)
    <3>1. ASSUME NEW m \in Outdated(s), clients[m] = clients[n] PROVE FALSE
      <4>1. client[clients[m]].name = m
        BY <1>2, <1>3, <3>1 DEF MapInv
      <4> QED
        BY <2>1, <3>1, <4>1
    <3> QED
      BY <3>1 DEF Replaced
  <2> QED
    BY <2>1, <2>2, <2>3
<1>4. ASSUME NEW n \in Needed(s)
      PROVE  /\ clients'[n] <= created' /\ client'[clients'[n]].name = n
             /\ client'[clients'[n]].run \in {"new", "running"}
  BY RefreshMakes
<1>5. ASSUME NEW n \in Names, clients'[n] # NoClient
      PROVE  /\ clients'[n] <= created' /\ client'[clients'[n]].name = n
             /\ client'[clients'[n]].run \in {"new", "running"}
  <2>1. CASE n \in Needed(s)
    BY <1>4, <2>1
  <2>2. CASE n \notin Needed(s)
    <3>1. n \notin Outdated(s) /\ clients'[n] = clients[n]
      BY <1>5, <2>2
    <3>2. client'[clients[n]] = client[clients[n]]
      BY <1>3, <1>5, <2>2, <3>1
    <3>3. clients[n] <= created /\ clients[n] \in Nat
      BY <1>1, <1>5, <3>1 DEF MapInv
    <3>4. created <= created'
      OBVIOUS
    <3>5. clients[n] <= created'
      BY <1>1, <3>3, <3>4
    <3> QED
      BY <1>5, <3>1, <3>2, <3>5 DEF MapInv
  <2> QED
    BY <2>1, <2>2
<1>6. ASSUME NEW i \in Ids, i > created' PROVE client'[i].run = "unborn"
  <2>1. i > created /\ ~ (\E n \in Needed(s) : clients'[n] = i)
    BY <1>1, <1>6
  <2>2. i \notin Replaced(s)
    <3>1. ASSUME NEW m \in Outdated(s) PROVE clients[m] # i
      <4>1. m \in Names /\ clients[m] # NoClient
        BY DEF Outdated
      <4>2. clients[m] <= created
        BY <4>1 DEF MapInv
      <4> QED
        BY <1>1, <2>1, <4>1, <4>2
    <3> QED
      BY <3>1 DEF Replaced
  <2> QED
    BY <2>1, <2>2 DEF MapInv
<1>7. \A n \in Names \ (Needed(s) \cup Outdated(s)) : clients'[n] = clients[n]
  OBVIOUS
<1>8. MapInv'
  BY <1>5, <1>6 DEF MapInv
<1> QED
  BY <1>3, <1>7, <1>8

(* The map. *)
LEMMA MapStep ==
    ASSUME TypeOK, UseInv, MapInv, [Next]_vars
    PROVE  MapInv'
<1>1. ASSUME ConfigNext /\ UNCHANGED <<manager, submit>> PROVE MapInv'
  <2>1. UNCHANGED <<clients, client, created, started, handler, main>>
    BY <1>1, ConfigNextTypes DEF TypeOK, manager
  <2> QED
    BY <2>1 DEF MapInv
<1>2. ASSUME SetDeliveryReceiptHandler PROVE MapInv'
  <2>1. /\ UNCHANGED <<clients, created>>
        /\ \A i \in Ids : client'[i].name = client[i].name /\ client'[i].run = client[i].run
    BY <1>2, HandlerEffect
  <2>2. \A n \in Names : clients[n] # NoClient => clients[n] \in Ids
    BY DEF TypeOK
  <2> QED
    BY <2>1, <2>2 DEF MapInv
<1>3. ASSUME handler /\ (Subscribe \/ SubscribeSends) /\ UNCHANGED <<manager, submit>>
      PROVE  MapInv'
  <2>1. UNCHANGED <<clients, client, created, started, handler>>
    BY <1>3 DEF manager
  <2> QED
    BY <1>3, <2>1 DEF MapInv
<1>4. ASSUME Start PROVE MapInv'
  <2>1. /\ UNCHANGED <<clients, created>>
        /\ \A i \in Ids : /\ client'[i].name = client[i].name
                          /\ client'[i].run = IF i \in InUse THEN "running" ELSE client[i].run
    BY <1>4, StartEffect
  <2>2. \A n \in Names : clients[n] # NoClient => clients[n] \in Ids
    BY DEF TypeOK
  <2>3. \A i \in Ids : i > created => i \notin InUse
    BY <2>2 DEF MapInv, InUse, TypeOK, Ids
  <2> QED
    BY <2>1, <2>2, <2>3 DEF MapInv
<1>5. ASSUME AutoRefresh PROVE MapInv'
  <2>1. Head(queue) \in Snapshot /\ Refresh(Head(queue)) /\ main' = main
    BY <1>5, ReceiveTypes DEF AutoRefresh, TypeOK
  <2>2. PICK s \in Snapshot : s = Head(queue)
    BY <2>1
  <2>3. Refresh(s)
    BY <2>1, <2>2
  <2> QED
    BY <2>3, RefreshKeepsMap
<1>6. ASSUME NEW i \in Ids, Connect(i) \/ Disconnect(i) PROVE MapInv'
  <2>1. Sessions /\ UNCHANGED <<clients, created, started, handler, main>>
    BY <1>6, ConnectEffect DEF config, subscription
  <2>2. \A n \in Names : clients[n] # NoClient => clients[n] \in Ids
    BY DEF TypeOK
  <2> QED
    BY <2>1, <2>2 DEF MapInv, Sessions
<1>7. ASSUME NEW s \in Submitters, SubmitWAPPush(s) PROVE MapInv'
  <2>1. UNCHANGED <<clients, client, created, started, handler, main>>
    BY <1>7, SubmitWAPPushEffect DEF manager, config, subscription
  <2> QED
    BY <2>1 DEF MapInv
<1>8. ASSUME NEW s \in Submitters, SubmitConnects(s) PROVE MapInv'
  <2>1. Sessions /\ UNCHANGED <<clients, created, started, handler, main>>
    BY <1>8, SubmitConnectsEffect DEF config, subscription
  <2>2. \A n \in Names : clients[n] # NoClient => clients[n] \in Ids
    BY DEF TypeOK
  <2> QED
    BY <2>1, <2>2 DEF MapInv, Sessions
<1>9. ASSUME NEW s \in Submitters, SubmitEnds(s) PROVE MapInv'
  <2>1. UNCHANGED <<clients, client, created, started, handler, main>>
    BY <1>9, SubmitEndsEffect DEF manager, config, subscription
  <2> QED
    BY <2>1 DEF MapInv
<1>10. ASSUME UNCHANGED vars PROVE MapInv'
  <2>1. UNCHANGED <<clients, client, created, started, handler, main>>
    BY <1>10 DEF vars, manager, config, subscription
  <2> QED
    BY <2>1 DEF MapInv
<1> QED
  BY <1>1, <1>2, <1>3, <1>4, <1>5, <1>6, <1>7, <1>8, <1>9, <1>10 DEF Next, MainStep

(* One run loop to an upstream. *)
LEMMA OneRunStep ==
    ASSUME TypeOK, UseInv, MapInv, OneRunLoopPerUpstream, [Next]_vars
    PROVE  OneRunLoopPerUpstream'
<1>1. ASSUME ConfigNext /\ UNCHANGED <<manager, submit>> PROVE OneRunLoopPerUpstream'
  <2>1. UNCHANGED <<clients, client, created, started, handler, main>>
    BY <1>1, ConfigNextTypes DEF TypeOK, manager
  <2> QED
    BY <2>1 DEF OneRunLoopPerUpstream
<1>2. ASSUME SetDeliveryReceiptHandler PROVE OneRunLoopPerUpstream'
  <2>1. /\ UNCHANGED <<clients, created>>
        /\ \A i \in Ids : client'[i].name = client[i].name /\ client'[i].run = client[i].run
    BY <1>2, HandlerEffect
  <2> QED
    BY <2>1 DEF OneRunLoopPerUpstream
<1>3. ASSUME handler /\ (Subscribe \/ SubscribeSends) /\ UNCHANGED <<manager, submit>>
      PROVE  OneRunLoopPerUpstream'
  <2>1. UNCHANGED <<clients, client, created, started, handler>>
    BY <1>3 DEF manager
  <2> QED
    BY <1>3, <2>1 DEF OneRunLoopPerUpstream
<1>4. ASSUME Start PROVE OneRunLoopPerUpstream'
  <2>1. /\ UNCHANGED <<clients, created>>
        /\ \A i \in Ids : /\ client'[i].name = client[i].name
                          /\ client'[i].run = IF i \in InUse THEN "running" ELSE client[i].run
    BY <1>4, StartEffect
  <2>2. \A i \in InUse : clients[client[i].name] = i
    BY DEF MapInv, InUse
  <2> QED
    BY <2>1, <2>2 DEF OneRunLoopPerUpstream
<1>5. ASSUME AutoRefresh PROVE OneRunLoopPerUpstream'
  <2>1. Head(queue) \in Snapshot /\ Refresh(Head(queue)) /\ main' = main
    BY <1>5, ReceiveTypes DEF AutoRefresh, TypeOK
  <2>2. PICK s \in Snapshot : s = Head(queue)
    BY <2>1
  <2>3. Refresh(s)
    BY <2>1, <2>2
  <2>4. ASSUME NEW i \in Ids, client'[i].run = "running" PROVE clients'[client'[i].name] = i
    <3>1. CASE \E n \in Needed(s) : clients'[n] = i
      <4>1. PICK n \in Needed(s) : clients'[n] = i
        BY <3>1
      <4>2. client'[i].name = n
        BY <2>3, <4>1, RefreshMakes
      <4> QED
        BY <4>1, <4>2
    <3>2. CASE ~ (\E n \in Needed(s) : clients'[n] = i)
      <4>1. client'[i] = IF i \in Replaced(s) THEN CloseClient(client[i]) ELSE client[i]
        BY <2>3, <3>2, RefreshEffect
      <4>2. client[i] \in ClientState
        BY DEF TypeOK
      <4>3. i \notin Replaced(s) /\ client'[i] = client[i]
        BY <2>4, <4>1, <4>2, ClientFields
      <4>4. PICK n \in Names : n = client[i].name
        BY <4>2, ClientFields
      <4>5. clients[n] = i /\ clients[n] # NoClient
        BY <2>4, <4>3, <4>4 DEF OneRunLoopPerUpstream, Ids, NoClient
      <4>6. n \notin Outdated(s)
        BY <4>3, <4>5 DEF Replaced
      <4>7. n \notin Needed(s)
        BY <4>5, <4>6 DEF Needed
      <4>8. clients'[n] = clients[n]
        BY <2>3, <4>6, <4>7, RefreshKeepsMap
      <4> QED
        BY <4>3, <4>4, <4>5, <4>8
    <3> QED
      BY <3>1, <3>2
  <2> QED
    BY <2>4 DEF OneRunLoopPerUpstream
<1>6. ASSUME NEW i \in Ids, Connect(i) \/ Disconnect(i) PROVE OneRunLoopPerUpstream'
  <2>1. Sessions /\ UNCHANGED <<clients, created, started, handler, main>>
    BY <1>6, ConnectEffect DEF config, subscription
  <2> QED
    BY <2>1 DEF OneRunLoopPerUpstream, Sessions
<1>7. ASSUME NEW s \in Submitters, SubmitWAPPush(s) PROVE OneRunLoopPerUpstream'
  <2>1. UNCHANGED <<clients, client, created, started, handler, main>>
    BY <1>7, SubmitWAPPushEffect DEF manager, config, subscription
  <2> QED
    BY <2>1 DEF OneRunLoopPerUpstream
<1>8. ASSUME NEW s \in Submitters, SubmitConnects(s) PROVE OneRunLoopPerUpstream'
  <2>1. Sessions /\ UNCHANGED <<clients, created, started, handler, main>>
    BY <1>8, SubmitConnectsEffect DEF config, subscription
  <2> QED
    BY <2>1 DEF OneRunLoopPerUpstream, Sessions
<1>9. ASSUME NEW s \in Submitters, SubmitEnds(s) PROVE OneRunLoopPerUpstream'
  <2>1. UNCHANGED <<clients, client, created, started, handler, main>>
    BY <1>9, SubmitEndsEffect DEF manager, config, subscription
  <2> QED
    BY <2>1 DEF OneRunLoopPerUpstream
<1>10. ASSUME UNCHANGED vars PROVE OneRunLoopPerUpstream'
  <2>1. UNCHANGED <<clients, client, created, started, handler, main>>
    BY <1>10 DEF vars, manager, config, subscription
  <2> QED
    BY <2>1 DEF OneRunLoopPerUpstream
<1> QED
  BY <1>1, <1>2, <1>3, <1>4, <1>5, <1>6, <1>7, <1>8, <1>9, <1>10 DEF Next, MainStep

(* The order of main, and the receipts. *)
LEMMA OrderStep ==
    ASSUME TypeOK, UseInv, MapInv, OrderInv, [Next]_vars
    PROVE  OrderInv'
<1>1. ASSUME ConfigNext /\ UNCHANGED <<manager, submit>> PROVE OrderInv'
  <2>1. UNCHANGED <<clients, client, created, started, handler, main>>
    BY <1>1, ConfigNextTypes DEF TypeOK, manager
  <2> QED
    BY <2>1 DEF OrderInv, InUse
<1>2. ASSUME SetDeliveryReceiptHandler PROVE OrderInv'
  <2>1. /\ handler' = TRUE /\ UNCHANGED <<clients, started, main>>
        /\ \A i \in Ids : client'[i].run = client[i].run /\ (i \in InUse => client'[i].receipts)
    BY <1>2, HandlerEffect DEF config, subscription
  <2>2. InUse \subseteq Ids /\ InUse' = InUse
    BY <2>1 DEF InUse, TypeOK
  <2> QED
    BY <2>1, <2>2 DEF OrderInv
<1>3. ASSUME handler /\ (Subscribe \/ SubscribeSends) /\ UNCHANGED <<manager, submit>>
      PROVE  OrderInv'
  <2>1. UNCHANGED <<clients, client, created, started, handler>> /\ handler
    BY <1>3 DEF manager
  <2> QED
    BY <1>3, <2>1 DEF OrderInv, InUse
<1>4. ASSUME Start PROVE OrderInv'
  <2>1. /\ started' = TRUE /\ main.pc = "subscribed" /\ UNCHANGED <<clients, handler, main>>
        /\ \A i \in Ids : client'[i].receipts = client[i].receipts
    BY <1>4, StartEffect DEF config, subscription
  <2>2. InUse \subseteq Ids /\ InUse' = InUse
    BY <2>1 DEF InUse, TypeOK
  <2> QED
    BY <2>1, <2>2 DEF OrderInv
<1>5. ASSUME AutoRefresh PROVE OrderInv'
  <2>1. Head(queue) \in Snapshot /\ Refresh(Head(queue)) /\ main' = main
    BY <1>5, ReceiveTypes DEF AutoRefresh, TypeOK
  <2>2. PICK s \in Snapshot : s = Head(queue)
    BY <2>1
  <2>3. Refresh(s)
    BY <2>1, <2>2
  <2>4. started /\ UNCHANGED <<main, started, handler>>
    BY <1>5, <2>1, <2>3, RefreshEffect DEF AutoRefresh
  <2>5. handler /\ \A i \in InUse : client[i].receipts
    BY <2>4 DEF OrderInv
  <2>6. ASSUME NEW n \in Names, clients'[n] # NoClient PROVE client'[clients'[n]].receipts
    <3>1. CASE n \in Needed(s)
      BY <2>3, <2>5, <3>1, RefreshMakes
    <3>2. CASE n \notin Needed(s)
      <4>1. n \notin Outdated(s) /\ clients'[n] = clients[n]
        BY <2>3, <2>6, <3>2, RefreshEffect
      <4>2. client'[clients[n]] = client[clients[n]]
        BY <2>3, <2>6, <3>2, <4>1, RefreshKeepsMap
      <4>3. clients[n] \in InUse
        BY <2>6, <4>1 DEF InUse
      <4> QED
        BY <2>5, <4>1, <4>2, <4>3
    <3> QED
      BY <3>1, <3>2
  <2> QED
    BY <2>4, <2>5, <2>6 DEF OrderInv, InUse
<1>6. ASSUME NEW i \in Ids, Connect(i) \/ Disconnect(i) PROVE OrderInv'
  <2>1. Sessions /\ UNCHANGED <<clients, created, started, handler, main>>
    BY <1>6, ConnectEffect DEF config, subscription
  <2>2. InUse \subseteq Ids /\ InUse' = InUse
    BY <2>1 DEF InUse, TypeOK
  <2> QED
    BY <2>1, <2>2 DEF OrderInv, Sessions
<1>7. ASSUME NEW s \in Submitters, SubmitWAPPush(s) PROVE OrderInv'
  <2>1. UNCHANGED <<clients, client, created, started, handler, main>>
    BY <1>7, SubmitWAPPushEffect DEF manager, config, subscription
  <2> QED
    BY <2>1 DEF OrderInv, InUse
<1>8. ASSUME NEW s \in Submitters, SubmitConnects(s) PROVE OrderInv'
  <2>1. Sessions /\ UNCHANGED <<clients, created, started, handler, main>>
    BY <1>8, SubmitConnectsEffect DEF config, subscription
  <2>2. InUse \subseteq Ids /\ InUse' = InUse
    BY <2>1 DEF InUse, TypeOK
  <2> QED
    BY <2>1, <2>2 DEF OrderInv, Sessions
<1>9. ASSUME NEW s \in Submitters, SubmitEnds(s) PROVE OrderInv'
  <2>1. UNCHANGED <<clients, client, created, started, handler, main>>
    BY <1>9, SubmitEndsEffect DEF manager, config, subscription
  <2> QED
    BY <2>1 DEF OrderInv, InUse
<1>10. ASSUME UNCHANGED vars PROVE OrderInv'
  <2>1. UNCHANGED <<clients, client, created, started, handler, main>>
    BY <1>10 DEF vars, manager, config, subscription
  <2> QED
    BY <2>1 DEF OrderInv, InUse
<1> QED
  BY <1>1, <1>2, <1>3, <1>4, <1>5, <1>6, <1>7, <1>8, <1>9, <1>10 DEF Next, MainStep

(* The submits. *)
LEMMA UseStep ==
    ASSUME TypeOK, UseInv, [Next]_vars
    PROVE  UseInv'
<1>1. ASSUME ConfigNext /\ UNCHANGED <<manager, submit>> PROVE UseInv'
  BY <1>1 DEF UseInv
<1>2. ASSUME SetDeliveryReceiptHandler PROVE UseInv'
  BY <1>2, HandlerEffect DEF UseInv
<1>3. ASSUME handler /\ (Subscribe \/ SubscribeSends) /\ UNCHANGED <<manager, submit>>
      PROVE  UseInv'
  BY <1>3 DEF UseInv
<1>4. ASSUME Start PROVE UseInv'
  BY <1>4, StartEffect DEF UseInv
<1>5. ASSUME AutoRefresh PROVE UseInv'
  BY <1>5 DEF AutoRefresh, Refresh, UseInv
<1>6. ASSUME NEW i \in Ids, Connect(i) \/ Disconnect(i) PROVE UseInv'
  BY <1>6, ConnectEffect DEF UseInv
<1>7. ASSUME NEW s \in Submitters, SubmitWAPPush(s) PROVE UseInv'
  BY <1>7, SubmitWAPPushEffect
<1>8. ASSUME NEW s \in Submitters, SubmitConnects(s) PROVE UseInv'
  BY <1>8, SubmitConnectsEffect
<1>9. ASSUME NEW s \in Submitters, SubmitEnds(s) PROVE UseInv'
  BY <1>9, SubmitEndsEffect
<1>10. ASSUME UNCHANGED vars PROVE UseInv'
  BY <1>10 DEF UseInv, vars
<1> QED
  BY <1>1, <1>2, <1>3, <1>4, <1>5, <1>6, <1>7, <1>8, <1>9, <1>10 DEF Next, MainStep

----------------------------------------------------------------------------
(* The initial state: main made a client for each active upstream. *)

Active == {n \in Names : db[n] # NoConfig}

LEMMA InitConfigTypes ==
    ASSUME Init
    PROVE  ConfigTypeOK /\ main.pc = "start"
<1>1. db \in Snapshot
  BY DEF Init, ConfigInit
<1>2. ConfigInit
  BY DEF Init
<1>3. watcher \in WatcherState /\ main \in MainState /\ main.pc = "start"
  BY <1>1, <1>2 DEF ConfigInit, WatcherState, MainState
<1>4. queue \in Seq(Snapshot) /\ Len(queue) <= Buffer
  BY <1>2, RuntimeConstants DEF ConfigInit
<1>5. store \in Snapshot /\ driver \in Drivers
  BY <1>2 DEF ConfigInit
<1>6. changes = 0 /\ failures = 0 /\ notified = 0
  BY <1>2 DEF ConfigInit
<1>7. listening = FALSE /\ missed = FALSE /\ lost = FALSE
  BY <1>2 DEF ConfigInit
<1> QED
  BY <1>1, <1>3, <1>4, <1>5, <1>6, <1>7 DEF ConfigTypeOK

LEMMA InitClients ==
    ASSUME Init
    PROVE  /\ created \in 0 .. MaxClients /\ clients \in [Names -> Ids \cup {NoClient}]
           /\ client \in [Ids -> ClientState]
           /\ \A n \in Names : clients[n] # NoClient =>
                /\ clients[n] <= created /\ client[clients[n]].name = n
                /\ client[clients[n]].run = "new"
           /\ \A i \in Ids : /\ i > created => client[i].run = "unborn"
                             /\ client[i].run # "running"
<1>1. Active \in SUBSET Names /\ db \in Snapshot
  BY DEF Active, Init, ConfigInit
<1>2. /\ Cardinality(Active) \in Nat /\ Cardinality(Active) <= MaxClients
      /\ \A n \in Active : Position(Active, n) \in 1 .. Cardinality(Active)
      /\ \A m, n \in Active : Position(Active, m) = Position(Active, n) => m = n
  <2>1. Cardinality(Active) \in Nat /\ Cardinality(Active) <= Cardinality(Names)
    BY <1>1, PositionFacts
  <2>2. Cardinality(Active) <= MaxClients
    BY <2>1, NamesFacts
  <2> QED
    BY <1>1, <2>1, <2>2, PositionFacts
<1>3. created = Cardinality(Active)
  BY DEF Init, Active
<1>4. clients = [n \in Names |-> IF n \in Active THEN Position(Active, n) ELSE NoClient]
  BY DEF Init, Active
<1>5. client = [i \in Ids |->
          IF \E n \in Active : Position(Active, n) = i
          THEN NewClient(CHOOSE n \in Active : Position(Active, n) = i,
                         db[CHOOSE n \in Active : Position(Active, n) = i], "new", FALSE)
          ELSE Unborn]
  BY DEF Init, Active
<1>6. Unborn \in ClientState /\ Unborn.run = "unborn"
  BY NamesFacts DEF Unborn, ClientState
<1>7. created \in 0 .. MaxClients /\ \A n \in Active : Position(Active, n) \in Ids
  BY <1>2, <1>3, NamesFacts DEF Ids
<1>8. ASSUME NEW n \in Active
      PROVE  client[Position(Active, n)] = NewClient(n, db[n], "new", FALSE)
  <2>1. (CHOOSE m \in Active : Position(Active, m) = Position(Active, n)) = n
    BY <1>2
  <2>2. \E m \in Active : Position(Active, m) = Position(Active, n)
    OBVIOUS
  <2> QED
    BY <1>5, <1>7, <2>1, <2>2
<1>9. ASSUME NEW n \in Active
      PROVE  /\ NewClient(n, db[n], "new", FALSE) \in ClientState
             /\ NewClient(n, db[n], "new", FALSE).name = n
             /\ NewClient(n, db[n], "new", FALSE).run = "new"
  <2>1. n \in Names /\ db[n] \in Configs \cup {NoConfig}
    BY <1>1 DEF Snapshot
  <2> QED
    BY <2>1 DEF NewClient, ClientState
<1>10. ASSUME NEW i \in Ids
       PROVE  /\ client[i] \in ClientState /\ client[i].run # "running"
              /\ i > created => client[i].run = "unborn"
  <2>1. CASE \E n \in Active : Position(Active, n) = i
    <3>1. PICK n \in Active : Position(Active, n) = i
      BY <2>1
    <3>2. client[i] = NewClient(n, db[n], "new", FALSE)
      BY <1>8, <3>1
    <3>3. ~ (i > created)
      BY <1>2, <1>3, <3>1
    <3> QED
      BY <1>9, <3>2, <3>3
  <2>2. CASE ~ (\E n \in Active : Position(Active, n) = i)
    <3>1. client[i] = Unborn
      BY <1>5, <2>2
    <3> QED
      BY <1>6, <3>1
  <2> QED
    BY <2>1, <2>2
<1>11. client \in [Ids -> ClientState]
  BY <1>5, <1>10
<1>12. clients \in [Names -> Ids \cup {NoClient}]
  BY <1>4, <1>7
<1>13. ASSUME NEW n \in Names, clients[n] # NoClient
       PROVE  /\ clients[n] <= created /\ client[clients[n]].name = n
              /\ client[clients[n]].run = "new"
  <2>1. n \in Active /\ clients[n] = Position(Active, n)
    BY <1>4, <1>13
  <2>2. clients[n] <= created
    BY <1>2, <1>3, <2>1
  <2>3. client[clients[n]] = NewClient(n, db[n], "new", FALSE)
    BY <1>8, <2>1
  <2> QED
    BY <1>9, <2>1, <2>2, <2>3
<1> QED
  BY <1>7, <1>10, <1>11, <1>12, <1>13

LEMMA InitManager ==
    ASSUME Init
    PROVE  ManagerInv
<1>1. started = FALSE /\ handler = FALSE
  BY DEF Init
<1>2. submit = [s \in Submitters |-> [pc |-> "idle", id |-> NoClient]]
  BY DEF Init
<1>3. submit \in [Submitters -> SubmitState] /\ UseInv
  BY <1>2 DEF SubmitState, UseInv
<1>4. TypeOK
  BY <1>1, <1>3, InitConfigTypes, InitClients DEF TypeOK
<1>5. MapInv
  BY InitClients DEF MapInv
<1>6. OneRunLoopPerUpstream
  BY InitClients DEF OneRunLoopPerUpstream
<1>7. OrderInv
  BY <1>1, InitConfigTypes, InitClients DEF OrderInv
<1> QED
  BY <1>3, <1>4, <1>5, <1>6, <1>7 DEF ManagerInv

LEMMA ManagerInvariant == Spec => []ManagerInv
<1>1. Init => ManagerInv
  BY InitManager
<1>2. ManagerInv /\ [Next]_vars => ManagerInv'
  BY TypeStep, MapStep, OneRunStep, OrderStep, UseStep DEF ManagerInv
<1> QED
  BY <1>1, <1>2, PTL DEF Spec

----------------------------------------------------------------------------
(* What follows *)

(* Every variable of the manager, the watcher and main keeps its type; the *)
(* channel never holds more than its capacity.                             *)
THEOREM ManagerTypes == Spec => []TypeOK
<1>1. ManagerInv => TypeOK
  BY DEF ManagerInv
<1> QED
  BY <1>1, ManagerInvariant, PTL

(* A client whose run loop keeps sessions is the one the map has for its   *)
(* upstream: Refresh closes what it replaces before the new one starts     *)
(* (manager.go, Refresh and Start).                                        *)
THEOREM OneRunLoopForAnUpstream == Spec => []OneRunLoopPerUpstream
<1>1. ManagerInv => OneRunLoopPerUpstream
  BY DEF ManagerInv
<1> QED
  BY <1>1, ManagerInvariant, PTL

(* What runs, or is in use once main started the manager, hands its        *)
(* receipts on: main sets the handler before it subscribes, and Refresh    *)
(* gives it to the clients it makes (manager.go, main.go).                 *)
THEOREM ReceiptsOfEveryClient == Spec => []ReceiptsAreHandled
<1>1. ManagerInv => ReceiptsAreHandled
  <2>1. ASSUME ManagerInv, NEW i \in Ids, client[i].run = "running" \/ (started /\ i \in InUse)
        PROVE  client[i].receipts
    <3>1. started
      BY <2>1 DEF ManagerInv, OrderInv
    <3>2. client[i].name \in Names
      BY <2>1 DEF ManagerInv, TypeOK, ClientState
    <3>3. i \in InUse
      BY <2>1, <3>2 DEF ManagerInv, OneRunLoopPerUpstream, InUse, Ids, NoClient
    <3> QED
      BY <2>1, <3>1, <3>3 DEF ManagerInv, OrderInv
  <2> QED
    BY <2>1 DEF ReceiptsAreHandled
<1> QED
  BY <1>1, ManagerInvariant, PTL
=============================================================================
