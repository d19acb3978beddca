---------------------------- MODULE RoutingProofs ----------------------------
(***************************************************************************)
(* Proofs about Routing, for any domains, hosts, rules, recipients and     *)
(* number of edits: which rule MatchRoute's loop ends with, whatever the   *)
(* table holds, and what an operator's edits can do to a message that is   *)
(* looked up, recipient by recipient, while they happen.                   *)
(***************************************************************************)
EXTENDS Routing, FiniteSetTheorems, FunctionTheorems, TLAPS

(* The tables of rules there can be: each rule has its own identifier.     *)
Tables == {rs \in SUBSET Routes : IsFiniteSet(rs) /\ \A r, s \in rs : r.id = s.id => r = s}

Matching(a, rs) == {r \in rs : r.active /\ routeMatches(a, r)}

----------------------------------------------------------------------------
(* Numbers and rules *)

(* A set of numbers has a least one. *)
LEMMA LeastOfNumbers ==
    ASSUME NEW T, T \subseteq Nat, T # {}
    PROVE  \E x \in T : \A y \in T : x <= y
<1> DEFINE F == {0 .. t : t \in T}
<1>1. PICK R : R = StrictSubsetOrdering(Nat)
  OBVIOUS
<1>2. IsWellFoundedOn(R, FiniteSubsetsOf(Nat))
  BY <1>1, FS_StrictSubsetOrderingWellFounded
<1>3. F \subseteq FiniteSubsetsOf(Nat) /\ F # {}
  <2>1. \A t \in T : t \in Nat /\ 0 .. t \subseteq Nat /\ IsFiniteSet(0 .. t)
    BY FS_Interval
  <2> QED
    BY <2>1 DEF FiniteSubsetsOf
<1>4. PICK c \in F : \A d \in F : ~ (<<d, c>> \in R)
  BY <1>2, <1>3, WFMin
<1>5. PICK x \in T : c = 0 .. x
  OBVIOUS
<1>6. ASSUME NEW y \in T, y < x PROVE FALSE
  <2>1. /\ 0 .. y \subseteq 0 .. x /\ x \in 0 .. x /\ x \notin 0 .. y
        /\ 0 .. x \subseteq Nat /\ 0 .. y \subseteq Nat
    BY <1>6
  <2>2. <<0 .. y, 0 .. x>> \in R
    BY <1>1, <2>1 DEF StrictSubsetOrdering
  <2> QED
    BY <1>4, <1>5, <2>2
<1> QED
  BY <1>6

LEMMA RouteFields ==
    ASSUME NEW r \in Routes
    PROVE  /\ r.id \in Nat \ {0} /\ r.priority \in Nat /\ r.type \in MatchTypes /\ r.active \in BOOLEAN
           /\ r.egress \in EgressTypes /\ r.target \in Domains \cup {NoDomain}
           /\ Rank[r.type] \in 1 .. 3 /\ PrefixLength(r) \in Nat /\ r # NoRoute
<1>1. /\ r.id \in Nat \ {0} /\ r.priority \in Nat /\ r.type \in MatchTypes
      /\ r.egress \in EgressTypes /\ r.target \in Domains \cup {NoDomain} /\ r.value.number \in Seq(Symbols)
  BY DEF Routes, Addresses
<1>2. r.active \in BOOLEAN
  BY DEF Routes
<1>3. Rank[r.type] \in 1 .. 3
  BY <1>1 DEF Rank, MatchTypes
<1>4. Len(canonicalMSISDN(r.value.number)) \in Nat
  BY <1>1
<1>5. PrefixLength(r) \in Nat
  BY <1>4 DEF PrefixLength
<1>6. r # NoRoute
  BY <1>1 DEF NoRoute
<1> QED
  BY <1>1, <1>2, <1>3, <1>5, <1>6

(* Of two rules with their own identifiers one is the better, and who is   *)
(* better than a rule is better than whatever that is better than.         *)
LEMMA BetterIsAnOrder ==
    ASSUME NEW r \in Routes, NEW s \in Routes
    PROVE  /\ ~ (betterRoute(r, s) /\ betterRoute(s, r))
           /\ r.id # s.id => betterRoute(r, s) \/ betterRoute(s, r)
           /\ \A t \in Routes : betterRoute(r, s) /\ betterRoute(s, t) => betterRoute(r, t)
<1> DEFINE K(q) == Rank[q.type]
           P(q) == PrefixLength(q)
<1>1. \A q \in Routes : K(q) \in Nat /\ P(q) \in Nat /\ q.priority \in Nat /\ q.id \in Nat
  BY RouteFields
<1>2. \A x, y \in Routes : betterRoute(x, y) <=>
          \/ K(x) > K(y)
          \/ K(x) = K(y) /\ P(x) > P(y)
          \/ K(x) = K(y) /\ P(x) = P(y) /\ x.priority > y.priority
          \/ K(x) = K(y) /\ P(x) = P(y) /\ x.priority = y.priority /\ x.id < y.id
  BY <1>1 DEF betterRoute
<1> HIDE DEF K, P
<1> QED
  BY <1>1, <1>2

----------------------------------------------------------------------------
(* The list of the table *)

(* Where a rule is in the list. *)
Place(rs, r) == Cardinality({s \in rs : Before(s, r) \/ s = r})

LEMMA BeforeIsAnOrder ==
    ASSUME NEW rs \in Tables, NEW r \in rs, NEW s \in rs
    PROVE  /\ ~ (Before(r, s) /\ (Before(s, r) \/ r = s))
           /\ r # s => Before(r, s) \/ Before(s, r)
           /\ \A t \in rs : Before(r, s) /\ Before(s, t) => Before(r, t)
<1>1. \A q \in rs : q.priority \in Nat /\ q.id \in Nat
  BY RouteFields DEF Tables
<1>2. r # s => r.id # s.id
  BY DEF Tables
<1> QED
  BY <1>1, <1>2 DEF Before

LEMMA PlaceFacts ==
    ASSUME NEW rs \in Tables
    PROVE  /\ Cardinality(rs) \in Nat
           /\ \A r \in rs : Place(rs, r) \in 1 .. Cardinality(rs)
           /\ \A r, s \in rs : Before(r, s) => Place(rs, r) < Place(rs, s)
<1> DEFINE T(r) == {s \in rs : Before(s, r) \/ s = r}
<1>1. IsFiniteSet(rs) /\ Cardinality(rs) \in Nat
  BY FS_CardinalityType DEF Tables
<1>2. ASSUME NEW r \in rs
      PROVE  /\ T(r) \in SUBSET rs /\ r \in T(r) /\ IsFiniteSet(T(r))
             /\ Cardinality(T(r)) \in Nat /\ Cardinality(T(r)) <= Cardinality(rs) /\ Cardinality(T(r)) # 0
  <2>1. T(r) \in SUBSET rs /\ r \in T(r)
    OBVIOUS
  <2> HIDE DEF T
  <2>2. IsFiniteSet(T(r)) /\ Cardinality(T(r)) <= Cardinality(rs)
    BY <1>1, <2>1, FS_Subset
  <2>3. Cardinality(T(r)) \in Nat /\ Cardinality(T(r)) # 0
    BY <2>1, <2>2, FS_CardinalityType, FS_EmptySet
  <2> QED
    BY <2>1, <2>2, <2>3
<1>3. ASSUME NEW r \in rs, NEW s \in rs, Before(r, s)
      PROVE  Cardinality(T(r)) < Cardinality(T(s))
  <2>1. T(r) \in SUBSET T(s)
    BY <1>3, BeforeIsAnOrder
  <2>2. s \in T(s) /\ s \notin T(r)
    BY <1>3, BeforeIsAnOrder
  <2> HIDE DEF T
  <2>3. Cardinality(T(r)) <= Cardinality(T(s)) /\ Cardinality(T(r)) # Cardinality(T(s))
    BY <1>2, <2>1, <2>2, FS_Subset
  <2> QED
    BY <1>2, <2>3
<1>4. \A r \in rs : Place(rs, r) = Cardinality(T(r))
  BY DEF Place
<1> HIDE DEF T
<1> QED
  BY <1>1, <1>2, <1>3, <1>4

(* The list holds every rule of the table, and nothing else.               *)
LEMMA ListFacts ==
    ASSUME NEW rs \in Tables
    PROVE  /\ Cardinality(rs) \in Nat
           /\ ListMM4Routes(rs) \in [1 .. Cardinality(rs) -> rs]
           /\ \A r \in rs : \E k \in 1 .. Cardinality(rs) : ListMM4Routes(rs)[k] = r
<1> DEFINE n == Cardinality(rs)
           place == [r \in rs |-> Place(rs, r)]
           Sorted(list) == \A j, k \in 1 .. n : j < k => Before(list[j], list[k])
<1>1. IsFiniteSet(rs) /\ n \in Nat
  BY FS_CardinalityType DEF Tables
<1>2. IsFiniteSet(1 .. n) /\ Cardinality(1 .. n) = n
  BY <1>1, FS_Interval
<1>3. place \in [rs -> 1 .. n]
  BY PlaceFacts
<1>4. \A r, s \in rs : place[r] = place[s] => r = s
  <2>1. ASSUME NEW r \in rs, NEW s \in rs, r # s PROVE place[r] # place[s]
    <3>1. Place(rs, r) < Place(rs, s) \/ Place(rs, s) < Place(rs, r)
      BY <2>1, BeforeIsAnOrder, PlaceFacts
    <3>2. Place(rs, r) \in Nat /\ Place(rs, s) \in Nat
      BY PlaceFacts
    <3> QED
      BY <3>1, <3>2
  <2> QED
    BY <2>1
<1>5. \A r, s \in rs : place[r] < place[s] => Before(r, s)
  <2>1. ASSUME NEW r \in rs, NEW s \in rs, ~ Before(r, s) PROVE ~ (place[r] < place[s])
    <3>1. r = s \/ Place(rs, s) < Place(rs, r)
      BY <2>1, BeforeIsAnOrder, PlaceFacts
    <3>2. Place(rs, r) \in Nat /\ Place(rs, s) \in Nat
      BY PlaceFacts
    <3> QED
      BY <3>1, <3>2
  <2> QED
    BY <2>1
<1> HIDE DEF n, place
<1>6. place \in Injection(rs, 1 .. n)
  BY <1>3, <1>4 DEF Injection, IsInjective
<1>7. place \in Surjection(rs, 1 .. n)
  BY <1>1, <1>2, <1>6, FS_Injection DEF n
<1>8. \A k \in 1 .. n : \E r \in rs : place[r] = k
  BY <1>7 DEF Surjection
<1>9. \E list \in [1 .. n -> rs] : Sorted(list)
  <2> DEFINE list == [k \in 1 .. n |-> CHOOSE r \in rs : place[r] = k]
  <2>1. \A k \in 1 .. n : list[k] \in rs /\ place[list[k]] = k
    BY <1>8
  <2>2. list \in [1 .. n -> rs]
    BY <2>1
  <2> HIDE DEF list
  <2>3. Sorted(list)
    BY <1>5, <2>1
  <2> QED
    BY <2>2, <2>3
<1>10. ListMM4Routes(rs) = CHOOSE list \in [1 .. n -> rs] : Sorted(list)
  BY DEF ListMM4Routes, n
<1>11. PICK list \in [1 .. n -> rs] : list = ListMM4Routes(rs) /\ Sorted(list)
  BY <1>9, <1>10
<1>12. \A j, k \in 1 .. n : list[j] = list[k] => j = k
  <2>1. ASSUME NEW j \in 1 .. n, NEW k \in 1 .. n, j < k PROVE list[j] # list[k]
    <3>1. Before(list[j], list[k]) /\ list[j] \in rs /\ list[k] \in rs
      BY <1>11, <2>1
    <3> QED
      BY <3>1, BeforeIsAnOrder
  <2>2. \A j, k \in 1 .. n : j = k \/ j < k \/ k < j
    BY <1>1
  <2> QED
    BY <2>1, <2>2
<1>13. list \in Injection(1 .. n, rs)
  BY <1>12 DEF Injection, IsInjective
<1>14. list \in Surjection(1 .. n, rs)
  BY <1>1, <1>2, <1>13, FS_Injection DEF n
<1>15. \A r \in rs : \E k \in 1 .. n : list[k] = r
  BY <1>14 DEF Surjection
<1> QED
  BY <1>1, <1>11, <1>15 DEF n

----------------------------------------------------------------------------
(* The loop of MatchRoute *)

(* What one turn of the loop does. *)
Turn(a, best, r) ==
    IF r \in Matching(a, {r}) /\ (best = NoRoute \/ betterRoute(r, best)) THEN r ELSE best

(* The fold over a list of n rules is defined: it takes the rules one by   *)
(* one.  FoldLeft goes through the sets of indices, from the largest index *)
(* down; such a function exists for each n.                                *)
Loop(a, list, n, g) ==
    [s \in SUBSET (1 .. n) |->
        IF s = {} THEN NoRoute ELSE Turn(a, g[s \ {Max(s)}], list[Max(s)])]

LEMMA LargestIndex ==
    ASSUME NEW n \in Nat, NEW s \in SUBSET (1 .. n + 1), n + 1 \in s
    PROVE  Max(s) = n + 1
<1>1. \A y \in s : y \in Nat /\ n + 1 >= y
  OBVIOUS
<1>2. \A x \in s : (\A y \in s : x >= y) => x = n + 1
  BY <1>1
<1> QED
  BY <1>1, <1>2 DEF Max

LEMMA LoopIsDefined ==
    ASSUME NEW a, NEW list, NEW n \in Nat
    PROVE  \E g : g = Loop(a, list, n, g)
<1> DEFINE P(m) == \E g : g = Loop(a, list, m, g)
           T == {m \in Nat : ~ P(m)}
<1>1. P(0)
  <2> DEFINE g == [s \in SUBSET (1 .. 0) |-> NoRoute]
  <2>1. 1 .. 0 = {}
    OBVIOUS
  <2>2. \A s \in SUBSET (1 .. 0) : s = {}
    BY <2>1
  <2>3. g = Loop(a, list, 0, g)
    BY <2>2 DEF Loop
  <2> QED
    BY <2>3
<1>2. ASSUME NEW m \in Nat, P(m) PROVE P(m + 1)
  <2>1. PICK f : f = Loop(a, list, m, f)
    BY <1>2
  <2> DEFINE g == [s \in SUBSET (1 .. m + 1) |->
                      IF m + 1 \in s THEN Turn(a, f[s \ {m + 1}], list[m + 1]) ELSE f[s]]
  <2>2. 1 .. m \subseteq 1 .. m + 1 /\ m + 1 \notin 1 .. m
        /\ \A s \in SUBSET (1 .. m + 1) : s \ {m + 1} \in SUBSET (1 .. m)
    OBVIOUS
  <2>3. \A s \in SUBSET (1 .. m) : g[s] = f[s]
    BY <2>2
  <2>4. ASSUME NEW s \in SUBSET (1 .. m + 1)
        PROVE  g[s] = IF s = {} THEN NoRoute ELSE Turn(a, g[s \ {Max(s)}], list[Max(s)])
    <3>1. CASE m + 1 \in s
      <4>1. Max(s) = m + 1
        BY <3>1, LargestIndex
      <4>2. g[s \ {m + 1}] = f[s \ {m + 1}]
        BY <2>2, <2>3
      <4>3. g[s] = Turn(a, f[s \ {m + 1}], list[m + 1])
        BY <3>1
      <4> QED
        BY <3>1, <4>1, <4>2, <4>3
    <3>2. CASE m + 1 \notin s
      <4>1. s \in SUBSET (1 .. m) /\ s \ {Max(s)} \in SUBSET (1 .. m)
        BY <2>2, <3>2
      <4>2. f[s] = IF s = {} THEN NoRoute ELSE Turn(a, f[s \ {Max(s)}], list[Max(s)])
        BY <2>1, <4>1 DEF Loop
      <4>3. g[s] = f[s] /\ g[s \ {Max(s)}] = f[s \ {Max(s)}]
        BY <2>3, <4>1
      <4> QED
        BY <4>2, <4>3
    <3> QED
      BY <3>1, <3>2
  <2>5. g = [s \in SUBSET (1 .. m + 1) |-> g[s]]
    OBVIOUS
  <2> HIDE DEF g
  <2>6. g = Loop(a, list, m + 1, g)
    BY <2>4, <2>5 DEF Loop
  <2> QED
    BY <2>6
<1>3. T = {}
  <2>1. SUFFICES ASSUME T # {} PROVE FALSE
    OBVIOUS
  <2>2. T \subseteq Nat
    OBVIOUS
  <2> HIDE DEF P
  <2>3. PICK x \in T : \A y \in T : x <= y
    <3> HIDE DEF T
    <3> QED
      BY <2>1, <2>2, LeastOfNumbers
  <2>4. x \in Nat /\ ~ P(x) /\ x # 0
    BY <1>1
  <2>5. x - 1 \in Nat /\ x - 1 \notin T /\ x = (x - 1) + 1
    BY <2>3, <2>4
  <2>6. P(x - 1)
    BY <2>5
  <2>7. P((x - 1) + 1)
    BY <1>2, <2>5, <2>6
  <2> QED
    BY <2>4, <2>5, <2>7
<1> QED
  BY <1>3

LEMMA MatchRouteIsTheLoop ==
    ASSUME NEW a, NEW rs \in Tables
    PROVE  \E f : /\ MatchRoute(a, rs) = f[Cardinality(rs)]
                  /\ f[0] = NoRoute
                  /\ \A k \in 1 .. Cardinality(rs) :
                        f[k] = Turn(a, f[k - 1], ListMM4Routes(rs)[k])
<1> DEFINE list == ListMM4Routes(rs)
           n == Cardinality(rs)
<1>1. n \in Nat /\ DOMAIN list = 1 .. n
  BY ListFacts
<1>2. MatchRoute(a, rs) =
        (CHOOSE g : g = [s \in SUBSET (DOMAIN list) |->
            IF s = {} THEN NoRoute ELSE Turn(a, g[s \ {Max(s)}], list[Max(s)])])[DOMAIN list]
  BY DEF MatchRoute, FoldLeft, MapThenFoldSet, Turn, Matching
<1> HIDE DEF list, n
<1>3. MatchRoute(a, rs) = (CHOOSE g : g = Loop(a, list, n, g))[1 .. n]
  BY <1>1, <1>2 DEF Loop
<1>4. PICK g : g = Loop(a, list, n, g) /\ MatchRoute(a, rs) = g[1 .. n]
  BY <1>1, <1>3, LoopIsDefined
<1>5. ASSUME NEW k \in 1 .. n PROVE g[1 .. k] = Turn(a, g[1 .. k - 1], list[k])
  <2>1. 1 .. k \in SUBSET (1 .. n) /\ 1 .. k # {} /\ (1 .. k) \ {k} = 1 .. k - 1
    BY <1>1
  <2>2. k - 1 \in Nat /\ 1 .. k \in SUBSET (1 .. (k - 1) + 1) /\ (k - 1) + 1 \in 1 .. k /\ (k - 1) + 1 = k
    BY <1>1
  <2>3. Max(1 .. k) = k
    BY <2>2, LargestIndex
  <2> QED
    BY <1>4, <2>1, <2>3 DEF Loop
<1>6. g[{}] = NoRoute /\ 1 .. 0 = {}
  BY <1>4 DEF Loop
<1> DEFINE f == [k \in 0 .. n |-> g[1 .. k]]
<1>7. f[0] = NoRoute /\ f[n] = MatchRoute(a, rs)
  BY <1>1, <1>4, <1>6
<1>8. \A k \in 1 .. n : f[k] = Turn(a, f[k - 1], list[k])
  BY <1>1, <1>5
<1> HIDE DEF f
<1> QED
  BY <1>7, <1>8 DEF list, n

(* The loop ends with the best of the rules that match, if any does.       *)
IsBest(a, rs, r) ==
    /\ r \in Matching(a, rs)
    /\ \A s \in Matching(a, rs) : s = r \/ betterRoute(r, s)

LEMMA MatchRouteFacts ==
    ASSUME NEW a, NEW rs \in Tables
    PROVE  IF Matching(a, rs) = {} THEN MatchRoute(a, rs) = NoRoute
                                   ELSE IsBest(a, rs, MatchRoute(a, rs))
<1> DEFINE list == ListMM4Routes(rs)
           n == Cardinality(rs)
           M == Matching(a, rs)
<1>1. n \in Nat /\ \A k \in 1 .. n : list[k] \in rs
  BY ListFacts
<1>2. \A r \in rs : \E k \in 1 .. n : list[k] = r
  BY ListFacts
<1>3. PICK f : /\ MatchRoute(a, rs) = f[n] /\ f[0] = NoRoute
               /\ \A k \in 1 .. n : f[k] = Turn(a, f[k - 1], list[k])
  BY MatchRouteIsTheLoop
<1>4. \A r \in rs : r \in Routes /\ r # NoRoute /\ (r \in Matching(a, {r}) <=> r \in M)
  BY RouteFields DEF Tables, Matching
<1>5. \A r, s \in rs : r = s \/ betterRoute(r, s) \/ betterRoute(s, r)
  BY <1>4, BetterIsAnOrder DEF Tables
<1>6. \A r, s, t \in rs : betterRoute(r, s) /\ betterRoute(s, t) => betterRoute(r, t)
  BY <1>4, BetterIsAnOrder
<1>7. M \subseteq rs
  BY DEF Matching
<1> HIDE DEF list, n, M
<1> DEFINE P(k) == /\ f[k] = NoRoute => \A j \in 1 .. k : list[j] \notin M
                   /\ f[k] # NoRoute =>
                        /\ f[k] \in M
                        /\ \A j \in 1 .. k : list[j] \in M => list[j] = f[k] \/ betterRoute(f[k], list[j])
           T == {k \in 0 .. n : ~ P(k)}
<1>8. P(0)
  <2>1. 1 .. 0 = {}
    OBVIOUS
  <2> QED
    BY <1>3, <2>1
<1>9. ASSUME NEW k \in 1 .. n, P(k - 1) PROVE P(k)
  <2> DEFINE r == list[k]
             best == f[k - 1]
  <2>1. r \in rs /\ r \in Routes /\ r # NoRoute /\ (r \in Matching(a, {r}) <=> r \in M)
    BY <1>1, <1>4
  <2>2. f[k] = IF r \in M /\ (best = NoRoute \/ betterRoute(r, best)) THEN r ELSE best
    BY <1>3, <2>1 DEF Turn
  <2>3. \A j \in 1 .. k : j = k \/ j \in 1 .. k - 1
    BY <1>1
  <2>4. \A j \in 1 .. k : list[j] \in rs
    BY <1>1
  <2> HIDE DEF r, best
  <2>5. CASE r \in M /\ (best = NoRoute \/ betterRoute(r, best))
    <3>1. f[k] = r
      BY <2>2, <2>5
    <3>2. ASSUME NEW j \in 1 .. k, list[j] \in M PROVE list[j] = r \/ betterRoute(r, list[j])
      <4>1. CASE j = k
        BY <4>1 DEF r
      <4>2. CASE j \in 1 .. k - 1
        <5>1. best # NoRoute /\ best \in M /\ betterRoute(r, best)
          BY <1>9, <2>5, <3>2, <4>2 DEF best
        <5>2. list[j] = best \/ betterRoute(best, list[j])
          BY <1>9, <3>2, <4>2, <5>1 DEF best
        <5>3. best \in rs /\ list[j] \in rs
          BY <1>7, <2>4, <5>1
        <5> QED
          BY <1>6, <2>1, <5>1, <5>2, <5>3
      <4> QED
        BY <2>3, <4>1, <4>2
    <3> QED
      BY <2>1, <2>5, <3>1, <3>2
  <2>6. CASE r \in M /\ best # NoRoute /\ ~ betterRoute(r, best)
    <3>1. f[k] = best /\ best \in M /\ best \in rs
      BY <1>7, <1>9, <2>2, <2>6 DEF best
    <3>2. r = best \/ betterRoute(best, r)
      BY <1>5, <2>1, <2>6, <3>1
    <3>3. ASSUME NEW j \in 1 .. k, list[j] \in M
          PROVE  list[j] = best \/ betterRoute(best, list[j])
      <4>1. CASE j = k
        BY <3>2, <4>1 DEF r
      <4>2. CASE j \in 1 .. k - 1
        BY <1>9, <2>6, <3>3, <4>2 DEF best
      <4> QED
        BY <2>3, <4>1, <4>2
    <3> QED
      BY <2>6, <3>1, <3>3
  <2>7. CASE r \notin M
    <3>1. f[k] = best
      BY <2>2, <2>7
    <3>2. \A j \in 1 .. k : list[j] \in M => j \in 1 .. k - 1
      BY <2>3, <2>7 DEF r
    <3> QED
      BY <1>9, <3>1, <3>2 DEF best
  <2> QED
    BY <2>5, <2>6, <2>7
<1> HIDE DEF P
<1>10. T = {}
  <2>1. SUFFICES ASSUME T # {} PROVE FALSE
    OBVIOUS
  <2>2. T \subseteq Nat
    BY <1>1
  <2>3. PICK x \in T : \A y \in T : x <= y
    <3> HIDE DEF T
    <3> QED
      BY <2>1, <2>2, LeastOfNumbers
  <2>4. x \in 1 .. n /\ ~ P(x)
    BY <1>1, <1>8, <2>3
  <2>5. x - 1 \in 0 .. n /\ x - 1 \notin T
    BY <1>1, <2>3, <2>4
  <2> QED
    BY <1>9, <2>4, <2>5
<1>11. P(n)
  BY <1>1, <1>10
<1>12. CASE f[n] = NoRoute
  <2>1. \A j \in 1 .. n : list[j] \notin M
    BY <1>11, <1>12 DEF P
  <2>2. M = {}
    BY <1>2, <1>7, <2>1
  <2> QED
    BY <1>3, <1>12, <2>2 DEF M
<1>13. CASE f[n] # NoRoute
  <2>1. f[n] \in M /\ \A j \in 1 .. n : list[j] \in M => list[j] = f[n] \/ betterRoute(f[n], list[j])
    BY <1>11, <1>13 DEF P
  <2>2. \A s \in M : s = f[n] \/ betterRoute(f[n], s)
    BY <1>2, <1>7, <2>1
  <2> QED
    BY <1>3, <2>1, <2>2 DEF M, IsBest
<1> QED
  BY <1>12, <1>13

(* What MatchRoute finds is a rule of the table, or none.                  *)
LEMMA MatchRouteTypes ==
    ASSUME NEW a, NEW rs \in Tables
    PROVE  MatchRoute(a, rs) \in rs \cup {NoRoute}
  BY MatchRouteFacts DEF IsBest, Matching

(* The best rule is the preferred one, as the properties have it.          *)
PreferredOf(a, rs) ==
    LET matching == Matching(a, rs)
        exact == {r \in matching : r.type = "msisdn_exact"}
        prefix == {r \in matching : r.type = "msisdn_prefix"}
        longest == {r \in prefix : \A s \in prefix : PrefixLength(s) <= PrefixLength(r)}
        kind == IF exact # {} THEN exact ELSE IF prefix # {} THEN longest ELSE matching
        top == {r \in kind : \A s \in kind : s.priority <= r.priority} IN
    {r \in top : \A s \in top : r.id <= s.id}

LEMMA BestIsPreferred ==
    ASSUME NEW a, NEW rs \in Tables, NEW b, IsBest(a, rs, b)
    PROVE  PreferredOf(a, rs) = {b}
<1> DEFINE M == Matching(a, rs)
           exact == {r \in M : r.type = "msisdn_exact"}
           prefix == {r \in M : r.type = "msisdn_prefix"}
           longest == {r \in prefix : \A s \in prefix : PrefixLength(s) <= PrefixLength(r)}
           kind == IF exact # {} THEN exact ELSE IF prefix # {} THEN longest ELSE M
           top == {r \in kind : \A s \in kind : s.priority <= r.priority}
<1>1. \A r \in M : /\ r.id \in Nat /\ r.priority \in Nat /\ PrefixLength(r) \in Nat /\ Rank[r.type] \in 1 .. 3
                   /\ r.type \in MatchTypes
  BY RouteFields DEF Tables, Matching
<1>2. \A r, s \in M : r.id = s.id => r = s
  BY DEF Tables, Matching
<1>3. \A r \in M : /\ r.type = "msisdn_exact" <=> Rank[r.type] = 3
                   /\ r.type = "msisdn_prefix" <=> Rank[r.type] = 2
                   /\ r.type # "msisdn_prefix" => PrefixLength(r) = 0
  BY <1>1 DEF Rank, MatchTypes, PrefixLength
<1>4. b \in M /\ \A s \in M : s # b =>
          \/ Rank[b.type] > Rank[s.type]
          \/ /\ Rank[b.type] = Rank[s.type]
             /\ \/ PrefixLength(b) > PrefixLength(s)
                \/ /\ PrefixLength(b) = PrefixLength(s)
                   /\ b.priority > s.priority \/ (b.priority = s.priority /\ b.id < s.id)
  BY <1>1 DEF IsBest, betterRoute
<1>5. PreferredOf(a, rs) = {r \in top : \A s \in top : r.id <= s.id}
  BY DEF PreferredOf
<1> HIDE DEF M
<1>6. kind \subseteq M /\ b \in kind
      /\ \A s \in kind : Rank[s.type] = Rank[b.type] /\ PrefixLength(s) = PrefixLength(b)
  <2>1. CASE Rank[b.type] = 3
    <3>1. b \in exact /\ kind = exact
      BY <1>3, <1>4, <2>1
    <3> QED
      BY <1>3, <2>1, <3>1
  <2>2. CASE Rank[b.type] = 2
    <3>1. exact = {} /\ b \in prefix
      BY <1>1, <1>3, <1>4, <2>2
    <3>2. \A s \in prefix : PrefixLength(s) <= PrefixLength(b)
      BY <1>1, <1>3, <1>4, <2>2
    <3>3. b \in longest /\ kind = longest
      BY <3>1, <3>2
    <3>4. \A s \in longest : PrefixLength(s) = PrefixLength(b)
      BY <1>1, <3>1, <3>2
    <3> QED
      BY <1>3, <2>2, <3>3, <3>4
  <2>3. CASE Rank[b.type] = 1
    <3>1. \A s \in M : Rank[s.type] = 1
      BY <1>1, <1>4, <2>3
    <3>2. exact = {} /\ prefix = {} /\ kind = M
      BY <1>3, <3>1
    <3>3. \A s \in M : PrefixLength(s) = 0
      BY <1>3, <3>1
    <3> QED
      BY <1>4, <2>3, <3>1, <3>2, <3>3
  <2> QED
    BY <1>1, <1>4, <2>1, <2>2, <2>3
<1> HIDE DEF kind
<1>7. \A s \in kind : s # b => b.priority > s.priority \/ (b.priority = s.priority /\ b.id < s.id)
  BY <1>1, <1>4, <1>6
<1>8. b \in top
  BY <1>1, <1>6, <1>7
<1>9. \A s \in top : s \in M /\ (s # b => b.id < s.id)
  BY <1>1, <1>6, <1>7
<1> HIDE DEF top
<1> QED
  BY <1>1, <1>4, <1>5, <1>8, <1>9

LEMMA NoneIsPreferred ==
    ASSUME NEW a, NEW rs, Matching(a, rs) = {}
    PROVE  PreferredOf(a, rs) = {}
  BY DEF PreferredOf

(* So the whole table answers like the preferred rule alone.               *)
LEMMA PreferredAnswers ==
    ASSUME NEW a, NEW ps, NEW rs \in Tables
    PROVE  Resolve(a, ps, PreferredOf(a, rs)) = Resolve(a, ps, rs)
<1>1. {} \in Tables /\ Matching(a, {}) = {}
  BY FS_EmptySet DEF Tables, Matching
<1>2. MatchRoute(a, PreferredOf(a, rs)) = MatchRoute(a, rs)
  <2>1. CASE Matching(a, rs) = {}
    <3>1. PreferredOf(a, rs) = {}
      BY <2>1, NoneIsPreferred
    <3> QED
      BY <1>1, <2>1, <3>1, MatchRouteFacts
  <2>2. CASE Matching(a, rs) # {}
    <3>1. PICK b : b = MatchRoute(a, rs) /\ IsBest(a, rs, b)
      BY <2>2, MatchRouteFacts
    <3>2. PreferredOf(a, rs) = {b}
      BY <3>1, BestIsPreferred
    <3>3. {b} \in Tables /\ Matching(a, {b}) = {b}
      BY <3>1, FS_Singleton DEF IsBest, Matching, Tables
    <3>4. IsBest(a, {b}, MatchRoute(a, {b}))
      BY <3>3, MatchRouteFacts
    <3> QED
      BY <3>1, <3>2, <3>3, <3>4 DEF IsBest
  <2> QED
    BY <2>1, <2>2
<1> QED
  BY <1>2 DEF Resolve

----------------------------------------------------------------------------
(* What a lookup answers *)

PeerTable(ps) == \E S \in SUBSET Domains : ps \in [S -> PeerRows]

LEMMA PeerFacts ==
    ASSUME NEW ps, PeerTable(ps), NEW d, ActivePeer(d, ps)
    PROVE  d \in Domains /\ ps[d].host \in Hosts /\ d # NoDomain /\ ps[d].host # NoHost
  BY RoutingConstants DEF PeerTable, PeerRows, ActivePeer

LEMMA ResultFacts ==
    /\ \A d \in Dests : d # "MM4" => Result(d) \in Results /\ Result(d).dest = d /\ Result(d).peer = NoPeer
    /\ \A d \in Domains, h \in Hosts :
         LET r == [dest |-> "MM4", peer |-> [domain |-> d, host |-> h]] IN
         r \in Results /\ r.dest = "MM4" /\ r.peer.host = h
  BY RoutingConstants DEF Result, Results, NoPeer, PeerIds, Dests

(* A lookup that ends at a peer names the one the rule stands for.         *)
LEMMA ResolveFacts ==
    ASSUME NEW a, NEW ps, PeerTable(ps), NEW rs \in Tables
    PROVE  /\ Resolve(a, ps, rs) \in Results
           /\ Resolve(a, ps, rs).dest = "MM4" =>
                /\ ResolvePeer(a, ps, rs) = Resolve(a, ps, rs).peer.host
                /\ Resolve(a, ps, rs).peer.host \in Hosts
<1> DEFINE route == MatchRoute(a, rs)
           result == Resolve(a, ps, rs)
<1>1. route \in rs \cup {NoRoute}
  BY MatchRouteTypes
<1>2. route # NoRoute => route.egress \in EgressTypes
  BY <1>1, RouteFields DEF Tables
<1>3. result =
        IF ~HasAt(a) /\ a.number = <<>> THEN Result("Unknown")
        ELSE IF route = NoRoute THEN Result(IF HasAt(a) THEN "Reject" ELSE "Local")
        ELSE
        CASE route.egress = "mm4" ->
                IF ActivePeer(route.target, ps)
                THEN [dest |-> "MM4", peer |-> Peer(route.target, ps)] ELSE Result("Reject")
          [] route.egress = "local" -> Result("Local")
          [] route.egress = "mm3" -> Result("MM3")
          [] route.egress = "reject" -> Result("Reject")
  BY DEF Resolve
<1>4. ResolvePeer(a, ps, rs) =
        IF route # NoRoute /\ route.egress = "mm4" /\ ActivePeer(route.target, ps)
        THEN ps[route.target].host
        ELSE IF ActivePeer(a.domain, ps) THEN ps[a.domain].host ELSE NoHost
  BY DEF ResolvePeer
<1> HIDE DEF route, result
<1>5. \/ \E d \in Dests : d # "MM4" /\ result = Result(d)
      \/ /\ route # NoRoute /\ route.egress = "mm4" /\ ActivePeer(route.target, ps)
         /\ result = [dest |-> "MM4", peer |-> Peer(route.target, ps)]
  <2>1. CASE ~HasAt(a) /\ a.number = <<>>
    BY <1>3, <2>1 DEF Dests
  <2>2. CASE ~ (~HasAt(a) /\ a.number = <<>>) /\ route = NoRoute
    BY <1>3, <2>2 DEF Dests
  <2>3. CASE ~ (~HasAt(a) /\ a.number = <<>>) /\ route # NoRoute
    BY <1>2, <1>3, <2>3 DEF Dests, EgressTypes
  <2> QED
    BY <2>1, <2>2, <2>3
<1>6. CASE \E d \in Dests : d # "MM4" /\ result = Result(d)
  BY <1>6, ResultFacts DEF result
<1>7. CASE /\ route # NoRoute /\ route.egress = "mm4" /\ ActivePeer(route.target, ps)
           /\ result = [dest |-> "MM4", peer |-> Peer(route.target, ps)]
  <2>1. PICK d \in Domains, h \in Hosts : d = route.target /\ h = ps[route.target].host
    BY <1>7, PeerFacts
  <2>2. result = [dest |-> "MM4", peer |-> [domain |-> d, host |-> h]]
    BY <1>7, <2>1 DEF Peer
  <2>3. result \in Results /\ result.peer.host = h
    BY <2>2, ResultFacts
  <2>4. ResolvePeer(a, ps, rs) = h
    BY <1>4, <1>7, <2>1
  <2> QED
    BY <2>3, <2>4 DEF result
<1> QED
  BY <1>5, <1>6, <1>7

----------------------------------------------------------------------------
(* The invariant *)

Now(k) == Resolve(to[k], peers, routes)

(* While a lookup has listed the peers and not the rules, what it will say *)
(* is among what the tables said meanwhile, unless both were edited in     *)
(* the one order that matters.                                             *)
LookupInv == pc = "routes" =>
    /\ lookup.order # "peers, routes" => Resolve(to[i], seen, routes) \in lookup.answers
    /\ lookup.order = "" => seen = peers

(* What the handler has at each point; only a message routed to a peer is  *)
(* handed to the sender.                                                   *)
FlowInv ==
    /\ pc \in {"idle", "peers", "routes"} => outcome = "none" /\ sentTo = NoHost
    /\ pc = "idle" => i = 1
    /\ pc \in {"relayRoutes", "mxPeers", "mxRoutes"} \/ sentTo # NoHost => outcome = "MM4"

(* While nobody edits the tables: the copies are the tables, the           *)
(* recipients before the one at hand agree with the first, the verdict is  *)
(* that of all of them, and the sender needs no second try.                *)
Verdict == IF \A k \in DOMAIN to : Now(k) = Now(1) THEN Now(1).dest ELSE "mixed"

QuietInv == ~edited =>
    /\ pc \in {"routes", "relayRoutes"} => seen = peers
    /\ pc \notin {"mxPeers", "mxRoutes"}
    /\ pc \in {"peers", "routes"} => \A k \in 1 .. i - 1 : Now(k) = Now(1) /\ first = Now(1)
    /\ pc \notin {"idle", "peers", "routes"} /\ outcome # "error" => outcome = Verdict /\ first = Now(1)

RoutingInv ==
    /\ TypeOK /\ IsFiniteSet(routes)
    /\ LookupInv /\ StaleLookupIsARace
    /\ FlowInv /\ QuietInv /\ RelayAgreesWithRouting

LookupState == [answers : SUBSET Results, order : {"", "peers", "peers, routes"},
                stale : {"no", "raced", "unexplained"}]

(* The tables, and the message that is looked up in them. *)
LEMMA StateFacts ==
    ASSUME TypeOK, IsFiniteSet(routes)
    PROVE  /\ PeerTable(peers) /\ PeerTable(seen) /\ routes \in Tables
           /\ to \in Seq(Addresses) /\ Len(to) \in Nat /\ i \in 1 .. Len(to) /\ 1 \in 1 .. Len(to)
           /\ DOMAIN to = 1 .. Len(to) /\ lookup \in LookupState
<1>1. PeerTable(peers) /\ PeerTable(seen)
  BY DEF TypeOK, PeerTable
<1>2. routes \in Tables
  BY DEF TypeOK, Tables
<1>3. to \in Seq(Addresses) /\ i \in 1 .. Len(to)
  BY RoutingConstants DEF TypeOK
<1>4. Len(to) \in Nat /\ DOMAIN to = 1 .. Len(to) /\ 1 \in 1 .. Len(to)
  BY <1>3
<1> QED
  BY <1>1, <1>2, <1>3, <1>4 DEF TypeOK, LookupState

(* What the tables say is a result. *)
LEMMA NowFacts ==
    ASSUME TypeOK, IsFiniteSet(routes)
    PROVE  /\ \A k : Now(k) \in Results
           /\ \A k : Resolve(to[k], seen, routes) \in Results
           /\ \A k : Now(k).dest = "MM4" =>
                /\ ResolvePeer(to[k], peers, routes) = Now(k).peer.host
                /\ Now(k).peer.host \in Hosts
  BY StateFacts, ResolveFacts DEF Now

----------------------------------------------------------------------------
(* The operator *)

LEMMA RowFacts ==
    ASSUME NEW b \in RouteBodies, Acceptable(b), NEW id \in Nat \ {0}
    PROVE  /\ Row(b, id) \in Routes /\ Row(b, id).id = id
           /\ (Row(b, id).egress = "mm4") = (Row(b, id).target # NoDomain)
<1>1. /\ b \in [type : MatchTypes, value : Addresses, egress : EgressTypes \cup {""},
               target : Domains \cup {NoDomain}, priority : Nat, active : BOOLEAN]
  BY RoutingConstants
<1> DEFINE egress == IF b.egress = "" THEN "mm4" ELSE b.egress
           target == IF egress = "mm4" THEN b.target ELSE NoDomain
<1>2. Stored(b).egress = egress /\ Stored(b).target = target
  BY <1>1 DEF Stored
<1>3. egress \in EgressTypes /\ target \in Domains \cup {NoDomain}
  BY <1>1 DEF EgressTypes
<1>4. (egress = "mm4") = (target # NoDomain)
  BY <1>2 DEF Acceptable
<1>5. Row(b, id) = [id |-> id, type |-> b.type, value |-> b.value, egress |-> egress,
                    target |-> target, priority |-> b.priority, active |-> b.active]
  BY <1>2 DEF Row
<1> HIDE DEF egress, target
<1>6. /\ b.type \in MatchTypes /\ b.value \in Addresses /\ b.priority \in Nat /\ b.active \in BOOLEAN
  BY <1>1
<1>7. Row(b, id) \in Routes
  BY <1>3, <1>5, <1>6 DEF Routes
<1> QED
  BY <1>4, <1>5, <1>7

TablesOK(ps, rs, next) ==
    /\ PeerTable(ps) /\ rs \subseteq Routes /\ IsFiniteSet(rs)
    /\ next \in Nat \ {0} /\ \A r \in rs : r.id < next
    /\ \A r, s \in rs : r.id = s.id => r = s
    /\ \A r \in rs : (r.egress = "mm4") = (r.target # NoDomain)

(* One of the two tables changes, and a lookup under way sees it.          *)
EditOf(order) ==
    /\ edited' = TRUE /\ edits' \in 0 .. MaxEdits /\ UNCHANGED handler
    /\ TablesOK(peers', routes', nextId')
    /\ lookup' = IF pc = "routes"
                 THEN [lookup EXCEPT !.answers = @ \cup {Resolve(to[i], peers', routes')}, !.order = order]
                 ELSE lookup

LEMMA OperatorEffect ==
    ASSUME TypeOK, IsFiniteSet(routes), Operator
    PROVE  \/ routes' = routes /\ EditOf(IF lookup.order = "" THEN "peers" ELSE lookup.order)
           \/ peers' = peers /\ EditOf(IF lookup.order = "peers" THEN "peers, routes" ELSE lookup.order)
<1>1. TablesOK(peers, routes, nextId)
  BY DEF TypeOK, TablesOK, PeerTable
<1>2. Edit => edited' = TRUE /\ edits' \in 0 .. MaxEdits /\ UNCHANGED handler
  <2>1. edits \in 0 .. MaxEdits /\ MaxEdits \in Nat
    BY RoutingConstants DEF TypeOK
  <2>2. Edit => edits < MaxEdits /\ edits' = edits + 1
    BY DEF Edit
  <2>3. Edit => edits' \in 0 .. MaxEdits
    BY <2>1, <2>2
  <2> QED
    BY <2>3, Zenon DEF Edit
<1>3. ASSUME EditPeers, PeerTable(peers')
      PROVE  routes' = routes /\ EditOf(IF lookup.order = "" THEN "peers" ELSE lookup.order)
  <2>1. Edit /\ routes' = routes /\ nextId' = nextId
        /\ Overlaps(IF lookup.order = "" THEN "peers" ELSE lookup.order)
    BY <1>3 DEF EditPeers
  <2>2. TablesOK(peers', routes', nextId')
    BY <1>1, <1>3, <2>1 DEF TablesOK
  <2> QED
    BY <1>2, <2>1, <2>2 DEF EditOf, Overlaps
<1>4. ASSUME EditRoutes, TablesOK(peers, routes', nextId')
      PROVE  peers' = peers /\ EditOf(IF lookup.order = "peers" THEN "peers, routes" ELSE lookup.order)
  <2>1. Edit /\ peers' = peers
        /\ Overlaps(IF lookup.order = "peers" THEN "peers, routes" ELSE lookup.order)
    BY <1>4 DEF EditRoutes
  <2> QED
    BY <1>2, <1>4, <2>1 DEF EditOf, Overlaps
<1>5. PICK S \in SUBSET Domains : peers \in [S -> PeerRows]
  BY <1>1 DEF TablesOK, PeerTable
<1>6. ASSUME NEW d \in Domains, NEW row \in PeerRows, UpsertMM4Peer(d, row)
      PROVE  EditPeers /\ PeerTable(peers')
  <2>1. peers' = [e \in S \cup {d} |-> IF e = d THEN row ELSE peers[e]]
    BY <1>5, <1>6 DEF UpsertMM4Peer
  <2>2. peers' \in [S \cup {d} -> PeerRows] /\ S \cup {d} \in SUBSET Domains
    BY <1>5, <2>1
  <2> QED
    BY <1>6, <2>2 DEF UpsertMM4Peer, PeerTable
<1>7. ASSUME NEW d \in Domains, DeleteMM4Peer(d)
      PROVE  EditPeers /\ PeerTable(peers')
  <2>1. peers' = [e \in S \ {d} |-> peers[e]]
    BY <1>5, <1>7 DEF DeleteMM4Peer
  <2>2. peers' \in [S \ {d} -> PeerRows] /\ S \ {d} \in SUBSET Domains
    BY <1>5, <2>1
  <2> QED
    BY <1>7, <2>2 DEF DeleteMM4Peer, PeerTable
<1>8. ASSUME NEW b \in RouteBodies, InsertMM4Route(b)
      PROVE  EditRoutes /\ TablesOK(peers, routes', nextId')
  <2>1. PICK new : new = Row(b, nextId)
    OBVIOUS
  <2>2. /\ new \in Routes /\ new.id = nextId /\ (new.egress = "mm4") = (new.target # NoDomain)
    BY <1>1, <1>8, <2>1, RowFacts DEF InsertMM4Route, TablesOK
  <2>3. routes' = routes \cup {new} /\ nextId' = nextId + 1 /\ EditRoutes
    BY <1>8, <2>1 DEF InsertMM4Route
  <2>4. IsFiniteSet(routes \cup {new})
    BY FS_AddElement
  <2>5. \A r \in routes : r.id \in Nat
    BY <1>1, RouteFields DEF TablesOK
  <2>6. nextId + 1 \in Nat \ {0} /\ \A r \in routes \cup {new} : r.id < nextId + 1
    BY <1>1, <2>2, <2>5 DEF TablesOK
  <2>7. \A r, s \in routes \cup {new} : r.id = s.id => r = s
    BY <1>1, <2>2, <2>5 DEF TablesOK
  <2> QED
    BY <1>1, <2>2, <2>3, <2>4, <2>6, <2>7 DEF TablesOK
<1>9. ASSUME NEW b \in RouteBodies, NEW q \in routes, UpdateMM4Route(q, b)
      PROVE  EditRoutes /\ TablesOK(peers, routes', nextId')
  <2>1. PICK new : new = Row(b, q.id)
    OBVIOUS
  <2>2. q \in Routes /\ q.id \in Nat \ {0} /\ q.id < nextId
    BY <1>1, RouteFields DEF TablesOK
  <2>3. /\ new \in Routes /\ new.id = q.id /\ (new.egress = "mm4") = (new.target # NoDomain)
    BY <1>9, <2>1, <2>2, RowFacts DEF UpdateMM4Route
  <2>4. routes' = (routes \ {q}) \cup {new} /\ nextId' = nextId /\ EditRoutes
    BY <1>9, <2>1 DEF UpdateMM4Route
  <2>5. IsFiniteSet((routes \ {q}) \cup {new})
    BY FS_RemoveElement, FS_AddElement
  <2>6. \A r, s \in (routes \ {q}) \cup {new} : r.id = s.id => r = s
    BY <1>1, <2>3 DEF TablesOK
  <2>7. \A r \in (routes \ {q}) \cup {new} :
            r \in Routes /\ r.id < nextId /\ (r.egress = "mm4") = (r.target # NoDomain)
    BY <1>1, <2>2, <2>3 DEF TablesOK
  <2> QED
    BY <1>1, <2>4, <2>5, <2>6, <2>7 DEF TablesOK
<1>10. ASSUME NEW q \in routes, DeleteMM4Route(q)
       PROVE  EditRoutes /\ TablesOK(peers, routes', nextId')
  <2>1. routes' = routes \ {q} /\ nextId' = nextId /\ EditRoutes
    BY <1>10 DEF DeleteMM4Route
  <2>2. IsFiniteSet(routes \ {q})
    BY FS_RemoveElement
  <2> QED
    BY <1>1, <2>1, <2>2 DEF TablesOK
<1> QED
  BY <1>3, <1>4, <1>6, <1>7, <1>8, <1>9, <1>10 DEF Operator

----------------------------------------------------------------------------
(* The handler *)

(* Whatever the handler does leaves the tables, the message and their      *)
(* answers alone.                                                          *)
HandlerStep ==
    \/ Submit \/ ListPeers \/ ListRoutes \/ ListFails
    \/ RelayListsPeers \/ RelayListsRoutes \/ RelayFails

LEMMA HandlerKeeps ==
    ASSUME HandlerStep
    PROVE  /\ UNCHANGED <<peers, routes, nextId, to, edits>>
           /\ \A k : Now(k)' = Now(k)
           /\ Verdict' = Verdict
<1>1. UNCHANGED <<peers, routes, nextId, to, edits>>
  BY
     DEF HandlerStep, Submit, ListPeers, ListRoutes, ListFails, RelayListsPeers,
         RelayListsRoutes,
         RelayFails, Goto, tables
<1> QED
  BY <1>1 DEF Now, Verdict

(* A lookup takes its first listing, and its second.                       *)
LEMMA ListPeersEffect ==
    ASSUME TypeOK, IsFiniteSet(routes), ListPeers
    PROVE  /\ pc = "peers" /\ pc' = "routes" /\ seen' = peers
           /\ lookup' \in LookupState
           /\ lookup'.answers = {Resolve(to[i], peers, routes)} /\ lookup'.order = ""
           /\ lookup'.stale = lookup.stale
           /\ UNCHANGED <<i, first, outcome, sentTo, edited>>
<1>1. PICK l \in LookupState : l = lookup
  BY StateFacts
<1>2. PICK r \in Results : r = Resolve(to[i], peers, routes)
  BY NowFacts DEF Now
<1>3. lookup' = [l EXCEPT !.answers = {r}, !.order = ""]
  BY <1>1, <1>2, Zenon DEF ListPeers
<1>4. /\ lookup' \in LookupState /\ lookup'.answers = {r} /\ lookup'.order = ""
      /\ lookup'.stale = l.stale
  BY <1>3 DEF LookupState
<1> QED
  BY <1>1, <1>2, <1>4 DEF ListPeers, Goto

LEMMA ListRoutesEffect ==
    ASSUME TypeOK, IsFiniteSet(routes), ListRoutes
    PROVE  LET next == Resolve(to[i], seen, routes)
               head == IF i = 1 THEN next ELSE first IN
           /\ pc = "routes" /\ first' = head /\ head \in Results /\ next \in Results
           /\ lookup' \in LookupState
           /\ lookup'.stale = "unexplained" =>
                \/ lookup.stale = "unexplained"
                \/ next \notin lookup.answers /\ lookup.order # "peers, routes"
           /\ \/ head # next /\ pc' = "end" /\ outcome' = "mixed" /\ i' = i
              \/ head = next /\ i < Len(to) /\ pc' = "peers" /\ i' = i + 1 /\ outcome' = outcome
              \/ head = next /\ i = Len(to) /\ pc' = "routed" /\ outcome' = head.dest /\ i' = i
           /\ UNCHANGED <<seen, sentTo, edited>>
<1> DEFINE next == Resolve(to[i], seen, routes)
           head == IF i = 1 THEN next ELSE first
<1>1. next \in Results /\ head \in Results
  BY NowFacts DEF TypeOK
<1>2. PICK l \in LookupState : l = lookup
  BY StateFacts
<1>3. /\ pc = "routes" /\ first' = head /\ lookup' = Judged(next)
      /\ UNCHANGED <<seen, sentTo, edited>>
  BY DEF ListRoutes
<1>4. IF Differ(head, next) THEN pc' = "end" /\ outcome' = "mixed" /\ UNCHANGED i
      ELSE IF i < Len(to) THEN pc' = "peers" /\ i' = i + 1 /\ UNCHANGED outcome
      ELSE pc' = "routed" /\ outcome' = head.dest /\ UNCHANGED i
  BY DEF ListRoutes, Goto
<1> HIDE DEF next, head
<1>5. Differ(head, next) <=> head # next
  <2>1. PICK r \in Results, s \in Results : r = head /\ s = next
    BY <1>1
  <2>2. Differ(r, s) <=> r # s
    BY DEF Differ, samePeer, Results
  <2> QED
    BY <2>1, <2>2
<1>6. \/ head # next /\ pc' = "end" /\ outcome' = "mixed" /\ i' = i
      \/ head = next /\ i < Len(to) /\ pc' = "peers" /\ i' = i + 1 /\ outcome' = outcome
      \/ head = next /\ ~ (i < Len(to)) /\ pc' = "routed" /\ outcome' = head.dest /\ i' = i
  BY <1>4, <1>5
<1>7. ~ (i < Len(to)) => i = Len(to)
  BY StateFacts
<1>8. PICK st \in {"no", "raced", "unexplained"} :
        /\ lookup' = [l EXCEPT !.stale = st]
        /\ st = "unexplained" =>
             \/ l.stale = "unexplained"
             \/ next \notin l.answers /\ l.order # "peers, routes"
  <2>1. l.stale \in {"no", "raced", "unexplained"}
    BY DEF LookupState
  <2> DEFINE st == IF l.stale = "unexplained" \/ next \in l.answers THEN l.stale
                   ELSE IF l.order = "peers, routes" THEN "raced" ELSE "unexplained"
  <2>2. lookup' = [l EXCEPT !.stale = st]
    BY <1>2, <1>3 DEF Judged
  <2>3. /\ st \in {"no", "raced", "unexplained"}
        /\ st = "unexplained" =>
             \/ l.stale = "unexplained"
             \/ next \notin l.answers /\ l.order # "peers, routes"
    BY <2>1
  <2> QED
    BY <2>2, <2>3
<1>9. lookup' \in LookupState /\ lookup'.stale = st
  BY <1>8 DEF LookupState
<1> QED
  BY <1>1, <1>2, <1>3, <1>6, <1>7, <1>8, <1>9 DEF next, head

(* The sender's answer, and where it sends. *)
LEMMA SenderFacts ==
    ASSUME TypeOK, IsFiniteSet(routes)
    PROVE  ResolvePeer(to[1], seen, routes) \in Hosts \cup {NoHost}
<1>1. PeerTable(seen) /\ routes \in Tables
  BY StateFacts
<1>2. \A d : ActivePeer(d, seen) => seen[d].host \in Hosts
  BY <1>1, PeerFacts
<1> QED
  BY <1>2 DEF ResolvePeer

----------------------------------------------------------------------------
(* Each part of the invariant is kept by every step. *)

(* The types, and a finite table. *)
LEMMA TypeStep ==
    ASSUME TypeOK, IsFiniteSet(routes), [Next]_vars
    PROVE  TypeOK' /\ IsFiniteSet(routes)'
<1>1. ASSUME Operator PROVE TypeOK' /\ IsFiniteSet(routes)'
  <2>1. TablesOK(peers', routes', nextId') /\ edited' = TRUE /\ edits' \in 0 .. MaxEdits
        /\ UNCHANGED handler
    BY <1>1, OperatorEffect DEF EditOf
  <2>2. lookup' \in LookupState
    <3>1. PICK order \in {"", "peers", "peers, routes"} : EditOf(order)
      <4>1. lookup.order \in {"", "peers", "peers, routes"}
        BY StateFacts DEF LookupState
      <4> QED
        BY <1>1, <4>1, OperatorEffect
    <3>2. PICK l \in LookupState : l = lookup
      BY StateFacts
    <3>3. PICK r \in Results : r = Resolve(to[i], peers', routes')
      BY <2>1, ResolveFacts DEF TablesOK, Tables
    <3>4. lookup' = IF pc = "routes" THEN [l EXCEPT !.answers = @ \cup {r}, !.order = order] ELSE l
      BY <3>1, <3>2, <3>3 DEF EditOf
    <3>5. [l EXCEPT !.answers = @ \cup {r}, !.order = order] \in LookupState
      BY <3>1 DEF LookupState
    <3> QED
      BY <3>4, <3>5
  <2>3. IsFiniteSet(routes')
    BY <2>1 DEF TablesOK
  <2>4. edited' \in BOOLEAN
    BY <2>1
  <2>5. UNCHANGED <<to, pc, i, seen, first, outcome, sentTo>>
    BY <2>1 DEF handler
  <2> QED
    BY <2>1, <2>2, <2>3, <2>4, <2>5 DEF TypeOK, TablesOK, PeerTable, LookupState
<1>2. ASSUME Submit PROVE TypeOK' /\ IsFiniteSet(routes)'
  <2>1. UNCHANGED <<peers, routes, nextId, to, edits>>
    BY <1>2, HandlerKeeps DEF HandlerStep
  <2>2. /\ pc' = "peers" /\ edited' = FALSE
        /\ UNCHANGED <<i, seen, first, outcome, sentTo, lookup>>
    BY <1>2 DEF Submit, Goto
  <2> QED
    BY <2>1, <2>2 DEF TypeOK
<1>3. ASSUME ListPeers PROVE TypeOK' /\ IsFiniteSet(routes)'
  <2>1. UNCHANGED <<peers, routes, nextId, to, edits>>
    BY <1>3, HandlerKeeps DEF HandlerStep
  <2>2. pc' = "routes" /\ seen' = peers /\ lookup' \in LookupState
        /\ UNCHANGED <<i, first, outcome, sentTo, edited>>
    BY <1>3, ListPeersEffect
  <2> QED
    BY <2>1, <2>2 DEF TypeOK, LookupState
<1>4. ASSUME ListRoutes PROVE TypeOK' /\ IsFiniteSet(routes)'
  <2>1. UNCHANGED <<peers, routes, nextId, to, edits>>
    BY <1>4, HandlerKeeps DEF HandlerStep
  <2>2. first' \in Results /\ lookup' \in LookupState /\ UNCHANGED <<seen, sentTo, edited>>
    BY <1>4, ListRoutesEffect
  <2>3. pc' \in {"end", "peers", "routed"} /\ outcome' \in Dests \cup {"none", "mixed", "error"}
    <3>1. outcome' \in {"mixed", outcome, first'.dest} /\ pc' \in {"end", "peers", "routed"}
      BY <1>4, ListRoutesEffect
    <3>2. first'.dest \in Dests
      BY <2>2 DEF Results
    <3> QED
      BY <3>1, <3>2 DEF TypeOK
  <2>4. i' \in 1 .. Len(to)
    <3>1. i' = i \/ (i < Len(to) /\ i' = i + 1)
      BY <1>4, ListRoutesEffect
    <3> QED
      BY <3>1, StateFacts
  <2> QED
    BY <2>1, <2>2, <2>3, <2>4 DEF TypeOK, LookupState
<1>5. ASSUME ListFails PROVE TypeOK' /\ IsFiniteSet(routes)'
  <2>1. UNCHANGED <<peers, routes, nextId, to, edits>>
    BY <1>5, HandlerKeeps DEF HandlerStep
  <2>2. /\ pc' = "end" /\ outcome' = "error"
        /\ UNCHANGED <<i, seen, first, sentTo, edited, lookup>>
    BY <1>5 DEF ListFails, Goto
  <2> QED
    BY <2>1, <2>2 DEF TypeOK
<1>6. ASSUME RelayListsPeers PROVE TypeOK' /\ IsFiniteSet(routes)'
  <2>1. UNCHANGED <<peers, routes, nextId, to, edits>>
    BY <1>6, HandlerKeeps DEF HandlerStep
  <2>2. pc' \in {"relayRoutes", "mxRoutes"} /\ seen' = peers
        /\ UNCHANGED <<i, first, outcome, sentTo, edited, lookup>>
    BY <1>6 DEF RelayListsPeers, Goto
  <2> QED
    BY <2>1, <2>2 DEF TypeOK
<1>7. ASSUME RelayListsRoutes PROVE TypeOK' /\ IsFiniteSet(routes)'
  <2>1. UNCHANGED <<peers, routes, nextId, to, edits>>
    BY <1>7, HandlerKeeps DEF HandlerStep
  <2>2. pc' \in {"end", "mxPeers"} /\ UNCHANGED <<i, seen, first, outcome, edited, lookup>>
        /\ sentTo' \in {sentTo, ResolvePeer(to[1], seen, routes), NoHost, MX}
    BY <1>7 DEF RelayListsRoutes, Goto
  <2>3. sentTo' \in Hosts \cup {NoHost, MX}
    BY <2>2, SenderFacts DEF TypeOK
  <2> QED
    BY <2>1, <2>2, <2>3 DEF TypeOK
<1>8. ASSUME RelayFails PROVE TypeOK' /\ IsFiniteSet(routes)'
  <2>1. UNCHANGED <<peers, routes, nextId, to, edits>>
    BY <1>8, HandlerKeeps DEF HandlerStep
  <2>2. pc' = "end" /\ UNCHANGED <<i, seen, first, outcome, sentTo, edited, lookup>>
    BY <1>8 DEF RelayFails, Goto
  <2> QED
    BY <2>1, <2>2 DEF TypeOK
<1>9. ASSUME UNCHANGED vars PROVE TypeOK' /\ IsFiniteSet(routes)'
  BY <1>9 DEF vars, tables, handler, TypeOK
<1> QED
  BY <1>1, <1>2, <1>3, <1>4, <1>5, <1>6, <1>7, <1>8, <1>9 DEF Next

(* What a lookup will say. *)
LEMMA LookupStep ==
    ASSUME TypeOK, IsFiniteSet(routes), LookupInv, StaleLookupIsARace, [Next]_vars
    PROVE  LookupInv' /\ StaleLookupIsARace'
<1>1. ASSUME Operator PROVE LookupInv' /\ StaleLookupIsARace'
  <2>1. PICK l \in LookupState : l = lookup
    BY StateFacts
  <2>2. ASSUME NEW order, EditOf(order)
        PROVE  /\ UNCHANGED <<pc, to, i, seen>> /\ lookup'.stale = lookup.stale
               /\ pc = "routes" => /\ lookup'.answers = lookup.answers \cup {Resolve(to[i], peers', routes')}
                                   /\ lookup'.order = order
    <3>1. PICK r : r = Resolve(to[i], peers', routes')
      OBVIOUS
    <3>2. lookup' = IF pc = "routes" THEN [l EXCEPT !.answers = @ \cup {r}, !.order = order] ELSE l
      BY <2>1, <2>2, <3>1 DEF EditOf
    <3>3. UNCHANGED <<pc, to, i, seen>>
      BY <2>2 DEF EditOf, handler
    <3> QED
      BY <2>1, <3>1, <3>2, <3>3 DEF LookupState
  <2>3. CASE routes' = routes /\ EditOf(IF lookup.order = "" THEN "peers" ELSE lookup.order)
    <3>1. PICK o : o = (IF lookup.order = "" THEN "peers" ELSE lookup.order) /\ EditOf(o)
      BY <2>3
    <3>2. /\ UNCHANGED <<pc, to, i, seen, routes>> /\ lookup'.stale = lookup.stale
          /\ pc = "routes" => /\ lookup.answers \subseteq lookup'.answers
                              /\ lookup'.order = o
      BY <2>2, <2>3, <3>1
    <3>3. o # "" /\ (o # "peers, routes" => lookup.order # "peers, routes")
      BY <3>1
    <3> QED
      BY <3>2, <3>3 DEF LookupInv, StaleLookupIsARace
  <2>4. CASE peers' = peers /\ EditOf(IF lookup.order = "peers" THEN "peers, routes" ELSE lookup.order)
    <3>1. lookup.order \in {"", "peers", "peers, routes"}
      BY <2>1 DEF LookupState
    <3>2. PICK o : o = (IF lookup.order = "peers" THEN "peers, routes" ELSE lookup.order) /\ EditOf(o)
      BY <2>4
    <3>3. /\ UNCHANGED <<pc, to, i, seen, peers>> /\ lookup'.stale = lookup.stale
          /\ pc = "routes" => /\ Resolve(to[i], peers', routes') \in lookup'.answers
                              /\ lookup'.order = o
      BY <2>2, <2>4, <3>2
    <3>4. o # "peers, routes" => lookup.order = ""
      BY <3>1, <3>2
    <3>5. o = "" => lookup.order = ""
      BY <3>2
    <3> QED
      BY <3>3, <3>4, <3>5 DEF LookupInv, StaleLookupIsARace
  <2> QED
    BY <1>1, <2>3, <2>4, OperatorEffect
<1>2. ASSUME Submit PROVE LookupInv' /\ StaleLookupIsARace'
  BY <1>2 DEF Submit, Goto, LookupInv, StaleLookupIsARace
<1>3. ASSUME ListPeers PROVE LookupInv' /\ StaleLookupIsARace'
  <2>1. UNCHANGED <<peers, routes, to>>
    BY <1>3, HandlerKeeps DEF HandlerStep
  <2> QED
    BY <1>3, <2>1, ListPeersEffect DEF LookupInv, StaleLookupIsARace
<1>4. ASSUME ListRoutes PROVE LookupInv' /\ StaleLookupIsARace'
  <2>1. pc = "routes" /\ pc' # "routes" /\ lookup'.stale # "unexplained"
    BY <1>4, ListRoutesEffect DEF LookupInv, StaleLookupIsARace
  <2> QED
    BY <2>1 DEF LookupInv, StaleLookupIsARace
<1>5. ASSUME ListFails PROVE LookupInv' /\ StaleLookupIsARace'
  BY <1>5 DEF ListFails, Goto, LookupInv, StaleLookupIsARace
<1>6. ASSUME RelayListsPeers PROVE LookupInv' /\ StaleLookupIsARace'
  BY <1>6 DEF RelayListsPeers, Goto, LookupInv, StaleLookupIsARace
<1>7. ASSUME RelayListsRoutes PROVE LookupInv' /\ StaleLookupIsARace'
  BY <1>7 DEF RelayListsRoutes, Goto, LookupInv, StaleLookupIsARace
<1>8. ASSUME RelayFails PROVE LookupInv' /\ StaleLookupIsARace'
  BY <1>8 DEF RelayFails, Goto, LookupInv, StaleLookupIsARace
<1>9. ASSUME UNCHANGED vars PROVE LookupInv' /\ StaleLookupIsARace'
  BY <1>9 DEF vars, tables, handler, LookupInv, StaleLookupIsARace
<1> QED
  BY <1>1, <1>2, <1>3, <1>4, <1>5, <1>6, <1>7, <1>8, <1>9 DEF Next

(* Where the handler is. *)
LEMMA FlowStep ==
    ASSUME TypeOK, IsFiniteSet(routes), FlowInv, [Next]_vars
    PROVE  FlowInv'
<1>1. ASSUME Operator PROVE FlowInv'
  <2>1. UNCHANGED handler
    BY <1>1, OperatorEffect DEF EditOf
  <2> QED
    BY <2>1 DEF handler, FlowInv
<1>2. ASSUME Submit PROVE FlowInv'
  BY <1>2 DEF Submit, Goto, FlowInv
<1>3. ASSUME ListPeers PROVE FlowInv'
  BY <1>3, ListPeersEffect DEF FlowInv
<1>4. ASSUME ListRoutes PROVE FlowInv'
  BY <1>4, ListRoutesEffect DEF FlowInv
<1>5. ASSUME ListFails PROVE FlowInv'
  BY <1>5 DEF ListFails, Goto, FlowInv
<1>6. ASSUME RelayListsPeers PROVE FlowInv'
  BY <1>6 DEF RelayListsPeers, Goto, FlowInv
<1>7. ASSUME RelayListsRoutes PROVE FlowInv'
  <2>1. outcome = "MM4" /\ outcome' = outcome /\ pc' \in {"end", "mxPeers"}
    BY <1>7 DEF RelayListsRoutes, Goto, FlowInv
  <2> QED
    BY <2>1 DEF FlowInv
<1>8. ASSUME RelayFails PROVE FlowInv'
  BY <1>8 DEF RelayFails, Goto, FlowInv
<1>9. ASSUME UNCHANGED vars PROVE FlowInv'
  BY <1>9 DEF vars, handler, FlowInv
<1> QED
  BY <1>1, <1>2, <1>3, <1>4, <1>5, <1>6, <1>7, <1>8, <1>9 DEF Next

(* What holds while nobody edits the tables. *)
LEMMA QuietStep ==
    ASSUME TypeOK, IsFiniteSet(routes), FlowInv, QuietInv, RelayAgreesWithRouting, [Next]_vars
    PROVE  QuietInv' /\ RelayAgreesWithRouting'
<1>1. ASSUME Operator PROVE QuietInv' /\ RelayAgreesWithRouting'
  <2>1. edited' = TRUE
    BY <1>1, OperatorEffect DEF EditOf
  <2> QED
    BY <2>1 DEF QuietInv, RelayAgreesWithRouting
<1>2. ASSUME Submit PROVE QuietInv' /\ RelayAgreesWithRouting'
  <2>1. pc' = "peers" /\ i' = 1 /\ sentTo' = NoHost
    BY <1>2 DEF Submit, Goto, FlowInv
  <2>2. 1 .. 1 - 1 = {}
    OBVIOUS
  <2> QED
    BY <2>1, <2>2 DEF QuietInv, RelayAgreesWithRouting
<1>3. ASSUME ListPeers PROVE QuietInv' /\ RelayAgreesWithRouting'
  <2>1. /\ UNCHANGED <<peers, routes, to>> /\ Verdict' = Verdict
        /\ \A k : Now(k)' = Now(k)
    BY <1>3, HandlerKeeps DEF HandlerStep
  <2>2. /\ pc = "peers" /\ pc' = "routes" /\ seen' = peers /\ sentTo = NoHost
        /\ UNCHANGED <<i, first, outcome, sentTo, edited>>
    BY <1>3, ListPeersEffect DEF FlowInv
  <2> QED
    BY <2>1, <2>2 DEF QuietInv, RelayAgreesWithRouting
<1>4. ASSUME ListRoutes PROVE QuietInv' /\ RelayAgreesWithRouting'
  <2>1. /\ UNCHANGED <<peers, routes, to>> /\ Verdict' = Verdict
        /\ \A k : Now(k)' = Now(k)
    BY <1>4, HandlerKeeps DEF HandlerStep
  <2> DEFINE next == Resolve(to[i], seen, routes)
             head == IF i = 1 THEN next ELSE first
  <2>2. /\ pc = "routes" /\ first' = head /\ sentTo' = NoHost /\ edited' = edited
        /\ \/ head # next /\ pc' = "end" /\ outcome' = "mixed" /\ i' = i
           \/ head = next /\ i < Len(to) /\ pc' = "peers" /\ i' = i + 1 /\ outcome' = outcome
           \/ head = next /\ i = Len(to) /\ pc' = "routed" /\ outcome' = head.dest /\ i' = i
    BY <1>4, ListRoutesEffect DEF FlowInv
  <2>3. RelayAgreesWithRouting'
    BY <2>2 DEF RelayAgreesWithRouting
  <2>4. SUFFICES ASSUME ~edited PROVE QuietInv'
    BY <2>2, <2>3 DEF QuietInv
  <2>5. next = Now(i) /\ \A k \in 1 .. i - 1 : Now(k) = Now(1) /\ first = Now(1)
    BY <2>2, <2>4 DEF QuietInv, Now
  <2>6. i \in 1 .. Len(to) /\ DOMAIN to = 1 .. Len(to) /\ Len(to) \in Nat
    BY StateFacts
  <2> HIDE DEF next, head
  <2>7. head = Now(1)
    <3>1. CASE i = 1
      BY <2>5, <3>1 DEF head
    <3>2. CASE i # 1
      <4>1. 1 \in 1 .. i - 1
        BY <2>6, <3>2
      <4> QED
        BY <2>5, <3>2, <4>1 DEF head
    <3> QED
      BY <3>1, <3>2
  <2>8. CASE head # next /\ pc' = "end" /\ outcome' = "mixed"
    <3>1. Verdict = "mixed"
      BY <2>5, <2>6, <2>7, <2>8 DEF Verdict
    <3> QED
      BY <2>1, <2>2, <2>7, <2>8, <3>1 DEF QuietInv
  <2>9. CASE head = next /\ pc' = "peers" /\ i' = i + 1
    <3>1. \A k \in 1 .. i' - 1 : Now(k) = Now(1) /\ first' = Now(1)
      <4>1. \A k \in 1 .. (i + 1) - 1 : k = i \/ k \in 1 .. i - 1
        BY <2>6
      <4> QED
        BY <2>2, <2>5, <2>7, <2>9, <4>1
    <3> QED
      BY <2>1, <2>9, <3>1 DEF QuietInv
  <2>10. CASE head = next /\ i = Len(to) /\ pc' = "routed" /\ outcome' = head.dest
    <3>1. \A k \in DOMAIN to : Now(k) = Now(1)
      <4>1. \A k \in DOMAIN to : k = i \/ k \in 1 .. i - 1
        BY <2>6, <2>10
      <4> QED
        BY <2>5, <2>7, <2>10, <4>1
    <3>2. Verdict = head.dest
      BY <2>7, <3>1 DEF Verdict
    <3> QED
      BY <2>1, <2>2, <2>7, <2>10, <3>2 DEF QuietInv
  <2> QED
    BY <2>2, <2>8, <2>9, <2>10
<1>5. ASSUME ListFails PROVE QuietInv' /\ RelayAgreesWithRouting'
  <2>1. pc' = "end" /\ outcome' = "error" /\ sentTo' = NoHost
    BY <1>5 DEF ListFails, Goto, FlowInv
  <2> QED
    BY <2>1 DEF QuietInv, RelayAgreesWithRouting
<1>6. ASSUME RelayListsPeers PROVE QuietInv' /\ RelayAgreesWithRouting'
  <2>1. /\ UNCHANGED <<peers, routes, to>> /\ Verdict' = Verdict
        /\ \A k : Now(k)' = Now(k)
    BY <1>6, HandlerKeeps DEF HandlerStep
  <2>2. /\ seen' = peers /\ UNCHANGED <<first, outcome, sentTo, edited>>
        /\ (pc = "routed" /\ pc' = "relayRoutes") \/ pc = "mxPeers"
    BY <1>6 DEF RelayListsPeers, Goto
  <2> QED
    BY <2>1, <2>2 DEF QuietInv, RelayAgreesWithRouting
<1>7. ASSUME RelayListsRoutes PROVE QuietInv' /\ RelayAgreesWithRouting'
  <2>1. /\ UNCHANGED <<peers, routes, to>> /\ Verdict' = Verdict
        /\ \A k : Now(k)' = Now(k)
    BY <1>7, HandlerKeeps DEF HandlerStep
  <2>2. /\ UNCHANGED <<first, outcome, edited>> /\ outcome = "MM4"
        /\ pc \in {"relayRoutes", "mxRoutes"}
        /\ \/ ResolvePeer(to[1], seen, routes) # NoHost /\ pc' = "end"
              /\ sentTo' = ResolvePeer(to[1], seen, routes)
           \/ ResolvePeer(to[1], seen, routes) = NoHost
    BY <1>7 DEF RelayListsRoutes, Goto, FlowInv
  <2>3. SUFFICES ASSUME ~edited PROVE QuietInv' /\ RelayAgreesWithRouting'
    BY <2>2 DEF QuietInv, RelayAgreesWithRouting
  <2>4. pc = "relayRoutes" /\ seen = peers /\ outcome = Verdict /\ first = Now(1)
    BY <2>2, <2>3 DEF QuietInv
  <2>5. Now(1).dest = "MM4"
    BY <2>2, <2>4 DEF Verdict
  <2>6. ResolvePeer(to[1], seen, routes) = Now(1).peer.host /\ Now(1).peer.host \in Hosts
    BY <2>4, <2>5, NowFacts
  <2>7. pc' = "end" /\ sentTo' = Now(1).peer.host
    BY <2>2, <2>6, RoutingConstants
  <2> QED
    BY <2>1, <2>2, <2>4, <2>7 DEF QuietInv, RelayAgreesWithRouting
<1>8. ASSUME RelayFails PROVE QuietInv' /\ RelayAgreesWithRouting'
  <2>1. /\ UNCHANGED <<peers, routes, to>> /\ Verdict' = Verdict
        /\ \A k : Now(k)' = Now(k)
    BY <1>8, HandlerKeeps DEF HandlerStep
  <2>2. /\ pc' = "end" /\ UNCHANGED <<first, outcome, sentTo, edited>>
        /\ pc \in {"relayRoutes", "mxPeers", "mxRoutes"}
    BY <1>8 DEF RelayFails, Goto
  <2> QED
    BY <2>1, <2>2 DEF QuietInv, RelayAgreesWithRouting
<1>9. ASSUME UNCHANGED vars PROVE QuietInv' /\ RelayAgreesWithRouting'
  <2>1. UNCHANGED <<peers, routes, to, pc, i, seen, first, outcome, sentTo, edited>>
    BY <1>9 DEF vars, tables, handler
  <2>2. Verdict' = Verdict /\ \A k : Now(k)' = Now(k)
    BY <2>1 DEF Verdict, Now
  <2> QED
    BY <2>1, <2>2 DEF QuietInv, RelayAgreesWithRouting
<1> QED
  BY <1>1, <1>2, <1>3, <1>4, <1>5, <1>6, <1>7, <1>8, <1>9 DEF Next

LEMMA InitRouting ==
    ASSUME Init
    PROVE  RoutingInv
<1>1. PeerTable(peers) /\ PeerTable(seen)
  <2>1. PICK S \in SUBSET Domains : peers \in [S -> [host : Hosts, active : {TRUE}]]
    BY DEF Init
  <2>2. peers \in [S -> PeerRows]
    BY <2>1 DEF PeerRows
  <2>3. seen \in [{} -> PeerRows] /\ {} \in SUBSET Domains
    BY DEF Init, NoPeers
  <2> QED
    BY <2>2, <2>3 DEF PeerTable
<1>2. to \in Recipients /\ to # <<>> /\ to \in Seq(Addresses) /\ i = 1
  BY RoutingConstants DEF Init
<1>3. i \in 1 .. Len(to)
  BY <1>2
<1>4. routes = {} /\ IsFiniteSet(routes) /\ nextId = 1
  BY FS_EmptySet DEF Init
<1>5. first \in Results
  BY ResultFacts DEF Init, Dests
<1>6. lookup \in LookupState /\ lookup.stale = "no"
  BY DEF Init, LookupState
<1>7. /\ pc = "idle" /\ outcome = "none" /\ sentTo = NoHost
  BY DEF Init
<1>8. edits \in 0 .. MaxEdits
  <2>1. edits = 0 /\ MaxEdits \in Nat
    BY RoutingConstants DEF Init
  <2> QED
    BY <2>1
<1>9. edited \in BOOLEAN
  BY DEF Init
<1>10. /\ routes \subseteq Routes /\ nextId \in Nat \ {0} /\ \A r \in routes : r.id < nextId
       /\ \A r, s \in routes : r.id = s.id => r = s
       /\ \A r \in routes : (r.egress = "mm4") = (r.target # NoDomain)
  BY <1>4
<1>11. TypeOK
  BY <1>1, <1>2, <1>3, <1>5, <1>6, <1>7, <1>8, <1>9, <1>10 DEF TypeOK, PeerTable, LookupState
<1> QED
  BY <1>2, <1>4, <1>6, <1>7, <1>11
     DEF RoutingInv, LookupInv, StaleLookupIsARace, FlowInv, QuietInv, RelayAgreesWithRouting

LEMMA RoutingInvariant == Spec => []RoutingInv
<1>1. Init => RoutingInv
  BY InitRouting
<1>2. RoutingInv /\ [Next]_vars => RoutingInv'
  BY TypeStep, LookupStep, FlowStep, QuietStep DEF RoutingInv
<1> QED
  BY <1>1, <1>2, PTL DEF Spec

----------------------------------------------------------------------------
(* What follows *)

(* The tables, the handler and what the lookups say keep their types; no   *)
(* two rules share an identifier, and only MM4 rules have a target.        *)
THEOREM RoutingTypes == Spec => []TypeOK
<1>1. RoutingInv => TypeOK
  BY DEF RoutingInv
<1> QED
  BY <1>1, RoutingInvariant, PTL

(* A lookup answers what the tables said at some moment of it, unless an   *)
(* edit of the peers and then one of the rules fell between its two        *)
(* listings (engine.go, ResolveRoute).                                     *)
THEOREM LookupIsOfSomeMoment == Spec => []StaleLookupIsARace
<1>1. RoutingInv => StaleLookupIsARace
  BY DEF RoutingInv
<1> QED
  BY <1>1, RoutingInvariant, PTL

(* The verdict on a message is that of the preferred rules of all its      *)
(* recipients, whatever rules the table holds, while nobody edits it       *)
(* (engine.go, ResolveRecipients; peer.go, MatchRoute and betterRoute).    *)
THEOREM VerdictIsOfThePreferredRules == Spec => []QuietVerdictIsRight
<1>1. RoutingInv => QuietVerdictIsRight
  <2>1. SUFFICES ASSUME RoutingInv, ~edited, pc \notin {"idle", "peers", "routes"}, outcome # "error"
                 PROVE  outcome = IF \A k \in DOMAIN to : Expected(to[k]) = Expected(to[1])
                                  THEN Expected(to[1]).dest ELSE "mixed"
    BY DEF QuietVerdictIsRight
  <2>2. routes \in Tables
    BY <2>1, StateFacts DEF RoutingInv
  <2>3. \A a : Preferred(a) = PreferredOf(a, routes)
    BY DEF Preferred, PreferredOf, Matching
  <2>4. \A k : Expected(to[k]) = Now(k)
    BY <2>2, <2>3, PreferredAnswers DEF Expected, Now
  <2>5. outcome = Verdict
    BY <2>1 DEF RoutingInv, QuietInv
  <2> QED
    BY <2>4, <2>5 DEF Verdict
<1> QED
  BY <1>1, RoutingInvariant, PTL

(* The sender connects to the peer the message was routed to, while nobody *)
(* edits the tables, though it resolves it in another way (routing.go).    *)
THEOREM SenderAgrees == Spec => []RelayAgreesWithRouting
<1>1. RoutingInv => RelayAgreesWithRouting
  BY DEF RoutingInv
<1> QED
  BY <1>1, RoutingInvariant, PTL
=============================================================================
