------------------------------ MODULE Routing ------------------------------
(***************************************************************************)
(* Where a message goes: the routing engine (ResolveRecipients in          *)
(* routing/engine.go) looks up every recipient in the tables of peers and  *)
(* routing rules, and the MM4 sender (Send in mm4/outbound.go) looks its   *)
(* peer up again (ResolvePeer in mm4/routing.go).  A lookup reads the two  *)
(* tables one after the other, and an operator edits them meanwhile        *)
(* (postMM4Peer, postMM4Route, ... in api/rest/router.go).                 *)
(*                                                                         *)
(* A number is a sequence of symbols.  Domains are compared with their     *)
(* case folded; rows that differ in case only are left out.                *)
(***************************************************************************)
EXTENDS Naturals, FiniteSets, SequencesExt

CONSTANTS
    Digits, Symbols,    \* of a number: the digits, and whatever else, "+" too
    Domains, Hosts,
    RouteBodies,        \* what an operator may submit as a rule
    Recipients,         \* lists of recipients of a message
    MaxEdits            \* bound: edits of the tables

VARIABLES
    peers,      \* table mm4_peers, by domain
    routes,     \* table routing_rules
    nextId,     \* its identifiers
    to, pc, i,  \* the message's recipients, the handler, the recipient at hand
    seen,       \* the peers it listed
    first,      \* the result of the first recipient
    outcome,    \* of ResolveRecipients
    sentTo,     \* the host the sender connected to
    edits,      \* edits so far
    edited,     \* history: an edit since the message came
    lookup      \* history: what the tables said during the lookup at hand

tables == <<peers, routes, nextId>>
handler == <<to, pc, i, seen, first, outcome, sentTo>>
vars == <<tables, handler, edits, edited, lookup>>

NoDomain == ""
NoHost == "none"
MX == "mx"      \* a host the DNS names for a domain

PeerRows == [host : Hosts, active : BOOLEAN]
MatchTypes == {"msisdn_exact", "msisdn_prefix", "recipient_domain"}
EgressTypes == {"local", "mm3", "mm4", "reject"}
Addresses == [number : Seq(Symbols), domain : Domains \cup {NoDomain}]
Routes == [id : Nat \ {0}, type : MatchTypes, value : Addresses, egress : EgressTypes,
           target : Domains \cup {NoDomain}, priority : Nat, active : BOOLEAN]

PeerIds == [domain : Domains \cup {NoDomain}, host : Hosts \cup {NoHost}]
NoPeer == [domain |-> NoDomain, host |-> NoHost]
Peer(d, ps) == [domain |-> d, host |-> ps[d].host]
Result(dest) == [dest |-> dest, peer |-> NoPeer]
Dests == {"Unknown", "Local", "MM4", "MM3", "Reject"}
Results == {r \in [dest : Dests, peer : PeerIds] : (r.dest = "MM4") = (r.peer # NoPeer)}

\* A rule as it is submitted, with neither identifier nor defaults.
ASSUME RoutingConstants ==
    /\ Digits \subseteq Symbols \ {"+"} /\ MX \notin Hosts /\ NoHost \notin Hosts
    /\ NoDomain \notin Domains /\ MaxEdits \in Nat
    /\ RouteBodies \subseteq
         [type : MatchTypes, value : Addresses, egress : EgressTypes \cup {""},
          target : Domains \cup {NoDomain}, priority : Nat, active : BOOLEAN]
    /\ \A r \in Recipients : r # <<>> /\ r \in Seq(Addresses)

----------------------------------------------------------------------------
(* Matching: routing/peer.go *)

HasAt(a) == a.domain # NoDomain

\* The digits, and a plus sign in front.
canonicalMSISDN(number) ==
    LET plus == IF number # <<>> /\ Head(number) = "+" THEN <<"+">> ELSE <<>> IN
    plus \o SelectSeq(number, LAMBDA c : c \in Digits)

routeMatches(a, route) ==
    LET number == canonicalMSISDN(a.number)
        value == canonicalMSISDN(route.value.number) IN
    CASE route.type = "recipient_domain" -> a.domain = route.value.domain
      [] route.type = "msisdn_exact" -> ~HasAt(a) /\ number = value
      [] route.type = "msisdn_prefix" -> ~HasAt(a) /\ IsPrefix(value, number)

Rank == [t \in MatchTypes |->
            CASE t = "msisdn_exact" -> 3 [] t = "msisdn_prefix" -> 2 [] t = "recipient_domain" -> 1]

PrefixLength(route) ==
    IF route.type = "msisdn_prefix" THEN Len(canonicalMSISDN(route.value.number)) ELSE 0

\* Mutant: the length of the prefix does not matter.
BetterByPriority(candidate, current) ==
    \/ Rank[candidate.type] > Rank[current.type]
    \/ Rank[candidate.type] = Rank[current.type] /\ candidate.priority > current.priority

betterRoute(candidate, current) ==
    IF Rank[candidate.type] # Rank[current.type]
    THEN Rank[candidate.type] > Rank[current.type]
    ELSE IF PrefixLength(candidate) # PrefixLength(current)
    THEN PrefixLength(candidate) > PrefixLength(current)
    ELSE IF candidate.priority # current.priority
    THEN candidate.priority > current.priority
    ELSE candidate.id < current.id

NoRoute == [id |-> 0]

\* The order the table is listed in. That the longer of two values of one priority
\* comes first is left out: betterRoute decides, in whatever order rules come.
Before(r, s) == r.priority > s.priority \/ (r.priority = s.priority /\ r.id < s.id)

ListMM4Routes(rs) ==
    CHOOSE list \in [1 .. Cardinality(rs) -> rs] :
        \A j, k \in 1 .. Cardinality(rs) : j < k => Before(list[j], list[k])

MatchRoute(a, rs) ==
    FoldLeft(LAMBDA best, r :
                IF /\ r.active /\ routeMatches(a, r)
                   /\ best = NoRoute \/ betterRoute(r, best)
                THEN r ELSE best,
             NoRoute, ListMM4Routes(rs))

ActivePeer(d, ps) == d \in DOMAIN ps /\ ps[d].active

----------------------------------------------------------------------------
(* Resolving: routing/engine.go and mm4/routing.go *)

\* A rule for a peer that is not there, or not active, rejects.
Resolve(a, ps, rs) ==
    LET route == MatchRoute(a, rs) IN
    IF ~HasAt(a) /\ a.number = <<>> THEN Result("Unknown")
    ELSE IF route = NoRoute THEN Result(IF HasAt(a) THEN "Reject" ELSE "Local")
    ELSE
    CASE route.egress = "mm4" ->
            IF ActivePeer(route.target, ps)
            THEN [dest |-> "MM4", peer |-> Peer(route.target, ps)] ELSE Result("Reject")
      [] route.egress = "local" -> Result("Local")
      [] route.egress = "mm3" -> Result("MM3")
      [] route.egress = "reject" -> Result("Reject")

\* Mutant: any two peers will do.
AnyPeer(a, b) == TRUE

samePeer(a, b) == a = b

\* Mutant: the recipient's own domain comes before the rules.
OwnDomainFirst(a, ps, rs) ==
    LET route == MatchRoute(a, rs) IN
    IF ActivePeer(a.domain, ps) THEN ps[a.domain].host
    ELSE IF route # NoRoute /\ route.egress = "mm4" /\ ActivePeer(route.target, ps)
    THEN ps[route.target].host ELSE NoHost

\* The peer of the rule, or that of the recipient's own domain.
ResolvePeer(a, ps, rs) ==
    LET route == MatchRoute(a, rs) IN
    IF route # NoRoute /\ route.egress = "mm4" /\ ActivePeer(route.target, ps)
    THEN ps[route.target].host
    ELSE IF ActivePeer(a.domain, ps) THEN ps[a.domain].host ELSE NoHost

TypeOK ==
    /\ \E S \in SUBSET Domains : peers \in [S -> PeerRows]
    /\ routes \subseteq Routes /\ nextId \in Nat \ {0} /\ \A r \in routes : r.id < nextId
    /\ \A r, s \in routes : r.id = s.id => r = s
    /\ \A r \in routes : (r.egress = "mm4") = (r.target # NoDomain)
    /\ to \in Recipients /\ i \in 1 .. Len(to)
    /\ pc \in {"idle", "peers", "routes", "routed", "relayRoutes", "mxPeers", "mxRoutes", "end"}
    /\ \E S \in SUBSET Domains : seen \in [S -> PeerRows]
    /\ first \in Results
    /\ outcome \in Dests \cup {"none", "mixed", "error"}
    /\ sentTo \in Hosts \cup {NoHost, MX}
    /\ edits \in 0 .. MaxEdits /\ edited \in BOOLEAN
    /\ lookup \in [answers : SUBSET Results, order : {"", "peers", "peers, routes"},
                  stale : {"no", "raced", "unexplained"}]

NoPeers == [d \in {} |-> [host |-> NoHost, active |-> FALSE]]

\* Bound: the peers an operator begins with are active.
Init ==
    /\ \E S \in SUBSET Domains : peers \in [S -> [host : Hosts, active : {TRUE}]]
    /\ routes = {} /\ nextId = 1
    /\ to \in Recipients /\ pc = "idle" /\ i = 1
    /\ seen = NoPeers /\ first = Result("Unknown") /\ outcome = "none" /\ sentTo = NoHost
    /\ edits = 0 /\ edited = FALSE
    /\ lookup = [answers |-> {}, order |-> "", stale |-> "no"]

----------------------------------------------------------------------------
(* The operator: api/rest/router.go and the upserts of db/sql.go *)

\* What the tables would answer now is an answer the lookup may give.
Overlaps(order) ==
    lookup' = IF pc = "routes"
              THEN [lookup EXCEPT !.answers = @ \cup {Resolve(to[i], peers', routes')}, !.order = order]
              ELSE lookup

Edit ==
    /\ edits < MaxEdits /\ edits' = edits + 1
    /\ edited' = TRUE
    /\ UNCHANGED handler

EditPeers ==
    /\ Edit /\ UNCHANGED <<routes, nextId>>
    /\ Overlaps(IF lookup.order = "" THEN "peers" ELSE lookup.order)

EditRoutes ==
    /\ Edit /\ UNCHANGED peers
    /\ Overlaps(IF lookup.order = "peers" THEN "peers, routes" ELSE lookup.order)

UpsertMM4Peer(d, row) ==
    /\ peers' = [e \in DOMAIN peers \cup {d} |-> IF e = d THEN row ELSE peers[e]]
    /\ EditPeers

\* The rules for the domain stay.
DeleteMM4Peer(d) ==
    /\ d \in DOMAIN peers
    /\ peers' = [e \in DOMAIN peers \ {d} |-> peers[e]]
    /\ EditPeers

\* Mutant: the target of a rule that names no peer is kept.
StoredAsIs(b) == b

\* What is stored of a rule: MM4 is the default, and only its rules have a target.
Stored(b) ==
    LET egress == IF b.egress = "" THEN "mm4" ELSE b.egress IN
    [b EXCEPT !.egress = egress, !.target = IF egress = "mm4" THEN @ ELSE NoDomain]

Acceptable(b) == Stored(b).egress = "mm4" => b.target # NoDomain

Row(b, id) ==
    [id |-> id, type |-> b.type, value |-> b.value, egress |-> Stored(b).egress,
     target |-> Stored(b).target, priority |-> b.priority, active |-> b.active]

InsertMM4Route(b) ==
    /\ Acceptable(b)
    /\ routes' = routes \cup {Row(b, nextId)} /\ nextId' = nextId + 1
    /\ EditRoutes

UpdateMM4Route(r, b) ==
    /\ Acceptable(b)
    /\ routes' = (routes \ {r}) \cup {Row(b, r.id)} /\ UNCHANGED nextId
    /\ EditRoutes

DeleteMM4Route(r) ==
    /\ routes' = routes \ {r} /\ UNCHANGED nextId
    /\ EditRoutes

----------------------------------------------------------------------------
(* The handler: ResolveRecipients *)

Goto(next) == pc' = next /\ UNCHANGED <<tables, to, edits>>

Submit ==
    /\ pc = "idle" /\ Goto("peers")
    /\ edited' = FALSE
    /\ UNCHANGED <<i, seen, first, outcome, sentTo, lookup>>

\* Mutant: the peers are listed for the first recipient only.
ListPeersOnce ==
    /\ pc = "peers" /\ Goto("routes")
    /\ seen' = IF i = 1 THEN peers ELSE seen
    /\ lookup' = [lookup EXCEPT !.answers = {Resolve(to[i], peers, routes)}, !.order = ""]
    /\ UNCHANGED <<i, first, outcome, sentTo, edited>>

ListPeers ==
    /\ pc = "peers" /\ Goto("routes")
    /\ seen' = peers
    /\ lookup' = [lookup EXCEPT !.answers = {Resolve(to[i], peers, routes)}, !.order = ""]
    /\ UNCHANGED <<i, first, outcome, sentTo, edited>>

\* How the answer of a lookup compares with what the tables said meanwhile.
Judged(result) ==
    [lookup EXCEPT !.stale =
        IF @ = "unexplained" \/ result \in lookup.answers THEN @
        ELSE IF lookup.order = "peers, routes" THEN "raced" ELSE "unexplained"]

Differ(a, b) == a.dest # b.dest \/ (a.dest = "MM4" /\ ~samePeer(a.peer, b.peer))

ListRoutes ==
    LET next == Resolve(to[i], seen, routes)
        head == IF i = 1 THEN next ELSE first IN
    /\ pc = "routes"
    /\ first' = head
    /\ lookup' = Judged(next)
    /\ CASE Differ(head, next) -> Goto("end") /\ outcome' = "mixed" /\ UNCHANGED i
         [] ~Differ(head, next) /\ i < Len(to) -> Goto("peers") /\ i' = i + 1 /\ UNCHANGED outcome
         [] OTHER -> Goto("routed") /\ outcome' = head.dest /\ UNCHANGED i
    /\ UNCHANGED <<seen, sentTo, edited>>

ListFails ==
    /\ pc \in {"peers", "routes"} /\ Goto("end")
    /\ outcome' = "error"
    /\ UNCHANGED <<i, seen, first, sentTo, edited, lookup>>

----------------------------------------------------------------------------
(* The sender: Send, ResolvePeer and Resolve, for the first recipient *)

RelayListsPeers ==
    /\ \/ pc = "routed" /\ outcome = "MM4" /\ Goto("relayRoutes")
       \/ pc = "mxPeers" /\ Goto("mxRoutes")
    /\ seen' = peers
    /\ UNCHANGED <<i, first, outcome, sentTo, edited, lookup>>

\* Without a peer it resolves once more, and then asks the DNS for the domain.
RelayListsRoutes ==
    LET host == ResolvePeer(to[1], seen, routes) IN
    /\ \/ /\ pc \in {"relayRoutes", "mxRoutes"} /\ host # NoHost
          /\ Goto("end") /\ sentTo' = host
       \/ /\ pc = "relayRoutes" /\ host = NoHost
          /\ Goto("mxPeers") /\ UNCHANGED sentTo
       \/ /\ pc = "mxRoutes" /\ host = NoHost
          /\ Goto("end") /\ sentTo' \in {NoHost} \cup (IF HasAt(to[1]) THEN {MX} ELSE {})
    /\ UNCHANGED <<i, seen, first, outcome, edited, lookup>>

RelayFails ==
    /\ pc \in {"relayRoutes", "mxPeers", "mxRoutes"} /\ Goto("end")
    /\ UNCHANGED <<i, seen, first, outcome, sentTo, edited, lookup>>

----------------------------------------------------------------------------

Operator ==
    \/ \E d \in Domains : DeleteMM4Peer(d) \/ \E row \in PeerRows : UpsertMM4Peer(d, row)
    \/ \E b \in RouteBodies : InsertMM4Route(b) \/ \E r \in routes : UpdateMM4Route(r, b)
    \/ \E r \in routes : DeleteMM4Route(r)

Next ==
    \/ Operator
    \/ Submit \/ ListPeers \/ ListRoutes \/ ListFails
    \/ RelayListsPeers \/ RelayListsRoutes \/ RelayFails

Spec == Init /\ [][Next]_vars

----------------------------------------------------------------------------
(* Properties *)

\* The rule for an address: an exact one, else one of the longest prefix, else one
\* of the domain; of several that of the highest priority, of these the oldest.
Preferred(a) ==
    LET matching == {r \in routes : r.active /\ routeMatches(a, r)}
        exact == {r \in matching : r.type = "msisdn_exact"}
        prefix == {r \in matching : r.type = "msisdn_prefix"}
        longest == {r \in prefix : \A s \in prefix : PrefixLength(s) <= PrefixLength(r)}
        kind == IF exact # {} THEN exact ELSE IF prefix # {} THEN longest ELSE matching
        top == {r \in kind : \A s \in kind : s.priority <= r.priority} IN
    {r \in top : \A s \in top : r.id <= s.id}

Expected(a) == Resolve(a, peers, Preferred(a))

\* While nobody edits the tables, a message is accepted for the destination that
\* the preferred rule of each of its recipients names, and refused when these
\* differ (MatchRoute's loop and ResolveRecipients' early returns).
QuietVerdictIsRight ==
    ~edited /\ pc \notin {"idle", "peers", "routes"} /\ outcome # "error" =>
        outcome = IF \A k \in DOMAIN to : Expected(to[k]) = Expected(to[1])
                  THEN Expected(to[1]).dest ELSE "mixed"

\* A lookup answers what the tables said at some moment of it, unless an edit of
\* the peers and then one of the rules fell between the two listings: a new peer
\* and the rule for it make the lookup reject (ResolveRoute lists the peers first).
StaleLookupIsARace == lookup.stale # "unexplained"

\* The sender connects to the peer the message was routed to, unless the tables
\* were edited; two packages resolve it, each in its own way.
RelayAgreesWithRouting ==
    ~edited /\ sentTo # NoHost => outcome = "MM4" /\ sentTo = first.peer.host
=============================================================================
