-------------------------- MODULE TieredStoreProofs --------------------------
(***************************************************************************)
(* Proofs about TieredStore, for any identifiers, callers, days and        *)
(* bounds: what keeps an acknowledged body readable, what leaves a copy    *)
(* behind, and that the two tiers are one ObjectStore.                     *)
(***************************************************************************)
EXTENDS TieredStore, TLAPS

(* The identifiers a history excuses from nothing. *)
Clean(i) == i \notin overlapped \cup lost
Pure(i) == Clean(i) /\ i \notin returned \cup strayed

(* The operations that are changing the files of an identifier. *)
Writing(p, i) == proc[p].pc \in {"put", "fill", "delete"} /\ IdOf(proc[p].key) = i

(* Who truncated a file has it, and it is still truncated. *)
HasTornFile(p) ==
    proc[p].linked /\ proc[p].key \in DOMAIN local /\ local[proc[p].key] = Torn

(* Who has a body has its key, and the body was given to Put for it. *)
Holds(p) ==
    /\ proc[p].pc # "idle" => proc[p].key \in Keys
    /\ IF proc[p].pc \in {"put", "cache", "fill"}
       THEN proc[p].body \in offered[IdOf(proc[p].key)] ELSE proc[p].body = None

(* Every body, wherever it is, was given to Put for its identifier.        *)
OfferedInv ==
    /\ \A k \in DOMAIN local : local[k] \in offered[IdOf(k)] \cup {Torn}
    /\ \A k \in DOMAIN remote : remote[k] \in offered[IdOf(k)]
    /\ \A o \in offloads : o.body \in offered[IdOf(o.key)]
    /\ \A i \in Ids : offered[i] \subseteq 1 .. puts
    /\ \A p \in Procs : Holds(p)

(* The body of a Put under way is nowhere else yet. *)
FreshInv ==
    \A p \in Procs : proc[p].pc = "put" =>
        /\ \A k \in DOMAIN remote : remote[k] # proc[p].body
        /\ \A o \in offloads : o.body # proc[p].body
        /\ \A q \in Procs \ {p} : proc[q].body # proc[p].body

(* No key is of a day to come. *)
DaysInv ==
    /\ \A o \in offloads : o.key[2] <= day
    /\ \A p \in Procs : proc[p].pc = "put" => proc[p].key[2] <= day
    /\ \A i \in Ids : row[i] # None => row[i][2] <= day

(* Nobody writes beside another, a writer has its file torn and a deleter  *)
(* has it gone, and outside a write the file of the row is there and holds *)
(* the current body.                                                       *)
Files(i) ==
    /\ \A p, q \in Procs : Writing(p, i) /\ Writing(q, i) => p = q
    /\ \A p \in Procs : Writing(p, i) =>
        /\ proc[p].pc # "delete" => HasTornFile(p)
        /\ proc[p].pc = "fill" => proc[p].body = current[i]
        /\ proc[p].pc = "delete" => proc[p].key = row[i] /\ row[i] \notin DOMAIN local
    /\ row[i] # None /\ (\A p \in Procs : Writing(p, i) => proc[p].pc = "fill" /\ proc[p].key # row[i])
       => row[i] \in DOMAIN local /\ local[row[i]] = current[i]

FileInv == \A i \in Ids : Clean(i) => Files(i)

(* The only copies are under the row's key, and under that of a Put; a     *)
(* fetched body that is current came from there, and no upload that may    *)
(* still land today is under another key.                                  *)
Copied(i) ==
    /\ \A k \in DOMAIN local : IdOf(k) = i =>
        k = row[i] \/ \E p \in Procs : proc[p].pc = "put" /\ proc[p].key = k
    /\ \A k \in DOMAIN remote : IdOf(k) = i => k = row[i]
    /\ \A p \in Procs : proc[p].pc = "cache" /\ IdOf(proc[p].key) = i /\ proc[p].body = current[i]
        => proc[p].key = row[i]
    /\ \A o \in offloads : IdOf(o.key) = i =>
        /\ row[i] # None => o.key[2] <= row[i][2]
        /\ \A p \in Procs : proc[p].pc = "put" /\ IdOf(proc[p].key) = i => o.key[2] <= proc[p].key[2]

CopyInv == \A i \in Ids : Pure(i) => Copied(i)

----------------------------------------------------------------------------
(* What the operations do, key by key and caller by caller *)

LocalGains(k, c) ==
    /\ DOMAIN local' = DOMAIN local \cup {k} /\ local'[k] = c
    /\ \A x \in DOMAIN local \ {k} : local'[x] = local[x]

LocalLoses(k) ==
    /\ DOMAIN local' = DOMAIN local \ {k}
    /\ \A x \in DOMAIN local \ {k} : local'[x] = local[x]

RemoteGains(k, b) ==
    /\ DOMAIN remote' = DOMAIN remote \cup {k} /\ remote'[k] = b
    /\ \A x \in DOMAIN remote \ {k} : remote'[x] = remote[x]

RemoteLoses(k) ==
    /\ DOMAIN remote' = DOMAIN remote \ {k}
    /\ \A x \in DOMAIN remote \ {k} : remote'[x] = remote[x]

OthersWait(p) == \A q \in Procs \ {p} : proc'[q] = proc[q]

(* Who has another file open keeps it; who had this one writes in vain. *)
OthersUnlinked(P, k) ==
    \A q \in P :
        /\ proc'[q].pc = proc[q].pc /\ proc'[q].key = proc[q].key /\ proc'[q].body = proc[q].body
        /\ proc[q].key # k => proc'[q] = proc[q]

(* A key has its identifier, and there is no key None. *)
LEMMA KeyFacts ==
    /\ \A k \in Keys : IdOf(k) \in Ids /\ k[2] \in Days /\ k = <<IdOf(k), k[2]>> /\ k # None
    /\ \A i \in Ids, d \in Days : <<i, d>> \in Keys /\ IdOf(<<i, d>>) = i /\ <<i, d>>[2] = d
    /\ \A j, k \in Keys : IdOf(j) = IdOf(k) /\ j[2] = k[2] => j = k
    /\ None \notin Bodies /\ Torn \notin Bodies
  BY TieredConstants DEF Keys, IdOf

(* One key of a store is written, or removed. *)
LEMMA StoreSteps ==
    /\ \A k, c : local' = With(local, k, c) => LocalGains(k, c)
    /\ \A k : local' = Without(local, k) => LocalLoses(k)
    /\ \A k, c : remote' = With(remote, k, c) => RemoteGains(k, c)
    /\ \A k : remote' = Without(remote, k) => RemoteLoses(k)
<1>1. ASSUME NEW k, NEW c, local' = With(local, k, c) PROVE LocalGains(k, c)
  BY <1>1 DEF With, LocalGains
<1>2. ASSUME NEW k, local' = Without(local, k) PROVE LocalLoses(k)
  BY <1>2 DEF Without, Restrict, LocalLoses
<1>3. ASSUME NEW k, NEW c, remote' = With(remote, k, c) PROVE RemoteGains(k, c)
  BY <1>3 DEF With, RemoteGains
<1>4. ASSUME NEW k, remote' = Without(remote, k) PROVE RemoteLoses(k)
  BY <1>4 DEF Without, Restrict, RemoteLoses
<1> QED
  BY <1>1, <1>2, <1>3, <1>4

(* One caller moves. *)
LEMMA Moves ==
    ASSUME TypeOK, NEW p \in Procs, NEW s, Becomes(p, s)
    PROVE  /\ proc'[p] = s /\ OthersWait(p)
           /\ s \in ProcState => proc' \in [Procs -> ProcState]
<1>1. proc \in [Procs -> ProcState]
  BY DEF TypeOK
<1> QED
  BY <1>1 DEF Becomes, OthersWait

(* Removing a file touches who has it open, and only there. *)
LEMMA UnlinkedFacts ==
    ASSUME TypeOK, NEW k
    PROVE  /\ Unlinked(k) \in [Procs -> ProcState]
           /\ \A q \in Procs :
                /\ Unlinked(k)[q].pc = proc[q].pc /\ Unlinked(k)[q].key = proc[q].key
                /\ Unlinked(k)[q].body = proc[q].body
                /\ proc[q].key # k => Unlinked(k)[q] = proc[q]
<1>1. proc \in [Procs -> ProcState]
  BY DEF TypeOK
<1>2. \A r \in ProcState, t \in BOOLEAN :
        /\ [r EXCEPT !.linked = t] \in ProcState
        /\ [r EXCEPT !.linked = t].pc = r.pc /\ [r EXCEPT !.linked = t].key = r.key
        /\ [r EXCEPT !.linked = t].body = r.body
  BY DEF ProcState
<1>3. FALSE \in BOOLEAN
  OBVIOUS
<1>4. ASSUME NEW q \in Procs
      PROVE  /\ [proc[q] EXCEPT !.linked = FALSE] \in ProcState
             /\ [proc[q] EXCEPT !.linked = FALSE].pc = proc[q].pc
             /\ [proc[q] EXCEPT !.linked = FALSE].key = proc[q].key
             /\ [proc[q] EXCEPT !.linked = FALSE].body = proc[q].body
  BY <1>1, <1>2, <1>3, Zenon
<1>5. \A q \in Procs :
        Unlinked(k)[q] = IF proc[q].key = k THEN [proc[q] EXCEPT !.linked = FALSE] ELSE proc[q]
  BY DEF Unlinked
<1>6. \A q \in Procs : Unlinked(k)[q] \in ProcState
  BY <1>1, <1>4, <1>5
<1>7. Unlinked(k) = [q \in Procs |-> Unlinked(k)[q]]
  BY DEF Unlinked
<1> QED
  BY <1>1, <1>4, <1>5, <1>6, <1>7

(* The states that callers enter. *)
LEMMA States ==
    /\ Idle \in ProcState
    /\ \A x \in {"idle", "put", "open", "remote", "cache", "fill", "delete"},
          k \in Keys \cup {None}, b \in Bodies \cup {None}, t \in BOOLEAN :
            [pc |-> x, key |-> k, body |-> b, linked |-> t] \in ProcState
    /\ \A x, k : /\ [Idle EXCEPT !.pc = x, !.key = k].pc = x
                 /\ [Idle EXCEPT !.pc = x, !.key = k].key = k
                 /\ [Idle EXCEPT !.pc = x, !.key = k].body = None
    /\ \A x \in {"open", "remote", "delete"}, k \in Keys :
            [Idle EXCEPT !.pc = x, !.key = k] \in ProcState
<1>1. Idle \in ProcState
  BY DEF Idle, ProcState
<1>2. \A x \in {"idle", "put", "open", "remote", "cache", "fill", "delete"},
         k \in Keys \cup {None}, b \in Bodies \cup {None}, t \in BOOLEAN :
           [pc |-> x, key |-> k, body |-> b, linked |-> t] \in ProcState
  BY DEF ProcState
<1>3. ASSUME NEW x, NEW k
      PROVE  /\ [Idle EXCEPT !.pc = x, !.key = k].pc = x
             /\ [Idle EXCEPT !.pc = x, !.key = k].key = k
             /\ [Idle EXCEPT !.pc = x, !.key = k].body = None
  BY DEF Idle
<1>4. \A x \in {"open", "remote", "delete"}, k \in Keys :
        [Idle EXCEPT !.pc = x, !.key = k] \in ProcState
  BY <1>1 DEF ProcState
<1> QED
  BY <1>1, <1>2, <1>3, <1>4

(* The steps of the specification, one by one. *)
LEMMA ActionCases ==
    ASSUME [Next]_vars
    PROVE  \/ \E p \in Procs, i \in Ids :
                 PutCreates(p, i) \/ GetLooks(p, i) \/ DeleteLocal(p, i) \/ DeleteLocalFails(p, i)
           \/ \E p \in Procs :
                 \/ PutCopies(p) \/ PutFails(p)
                 \/ GetOpens(p) \/ GetFetches(p) \/ CacheCreates(p) \/ CacheCopies(p)
                 \/ DeleteRemote(p) \/ DeleteFails(p)
           \/ \E o \in offloads : OffloadLands(o) \/ OffloadFails(o)
           \/ \E k \in Keys : FileIsLost(k)
           \/ NextDay \/ Crash
           \/ UNCHANGED vars
  BY DEF Next

(* Put makes a new body and truncates the file of today's key. *)
LEMMA PutCreatesEffect ==
    ASSUME TypeOK, NEW p \in Procs, NEW i \in Ids, PutCreates(p, i)
    PROVE  /\ proc[p].pc = "idle" /\ puts + 1 \in Bodies /\ <<i, day>> \in Keys
           /\ proc' \in [Procs -> ProcState] /\ OthersWait(p)
           /\ proc'[p].pc = "put" /\ proc'[p].key = <<i, day>> /\ proc'[p].body = puts + 1
           /\ proc'[p].linked
           /\ LocalGains(<<i, day>>, Torn)
           /\ offered' \in [Ids -> SUBSET Bodies] /\ offered'[i] = offered[i] \cup {puts + 1}
           /\ \A j \in Ids \ {i} : offered'[j] = offered[j]
<1> DEFINE k == <<i, day>>
           s == [pc |-> "put", key |-> k, body |-> puts + 1, linked |-> TRUE]
<1>1. k \in Keys
  BY KeyFacts DEF TypeOK
<1>2. puts + 1 \in Bodies
  BY TieredConstants DEF PutCreates, TypeOK, Bodies
<1>3. s \in ProcState
  BY <1>1, <1>2, States
<1>4. Becomes(p, s)
  BY DEF PutCreates
<1>5. local' = With(local, k, Torn)
  BY DEF PutCreates
<1>6. LocalGains(k, Torn)
  BY <1>5, StoreSteps
<1>7. offered \in [Ids -> SUBSET Bodies] /\ offered' = [offered EXCEPT ![i] = @ \cup {puts + 1}]
  BY DEF PutCreates, TypeOK
<1>8. offered' \in [Ids -> SUBSET Bodies] /\ offered'[i] = offered[i] \cup {puts + 1}
      /\ \A j \in Ids \ {i} : offered'[j] = offered[j]
  BY <1>2, <1>7
<1> QED
  BY <1>1, <1>2, <1>3, <1>4, <1>6, <1>8, Moves DEF PutCreates

(* A write leaves the file as it was, or fills it, or tears it where it    *)
(* was not torn; nothing is filled that was removed.                       *)
FileFilled(p) ==
    \/ /\ local' = local
       /\ ~proc[p].linked \/ proc[p].key \notin DOMAIN local
    \/ /\ proc[p].linked /\ proc[p].key \in DOMAIN local
       /\ DOMAIN local' = DOMAIN local
       /\ \A x \in DOMAIN local \ {proc[p].key} : local'[x] = local[x]
       /\ \/ local'[proc[p].key] = proc[p].body
          \/ local'[proc[p].key] = Torn /\ local[proc[p].key] # Torn

LEMMA FilledFacts ==
    ASSUME NEW p \in Procs, local' \in Filled(p)
    PROVE  FileFilled(p)
<1>1. CASE ~proc[p].linked \/ proc[p].key \notin DOMAIN local
  BY <1>1 DEF Filled, FileFilled
<1>2. CASE proc[p].linked /\ proc[p].key \in DOMAIN local
  <2>1. PICK c \in {proc[p].body} \cup (IF local[proc[p].key] = Torn THEN {} ELSE {Torn}) :
          local' = With(local, proc[p].key, c)
    BY <1>2 DEF Filled
  <2>2. c = proc[p].body \/ (c = Torn /\ local[proc[p].key] # Torn)
    BY <2>1
  <2>3. LocalGains(proc[p].key, c)
    BY <2>1, StoreSteps
  <2>4. DOMAIN local \cup {proc[p].key} = DOMAIN local
    BY <1>2
  <2> QED
    BY <1>2, <2>2, <2>3, <2>4 DEF FileFilled, LocalGains
<1> QED
  BY <1>1, <1>2

(* Put fills the file, leaves the upload to a timer and gives the key. *)
LEMMA PutCopiesEffect ==
    ASSUME TypeOK, OfferedInv, NEW p \in Procs, PutCopies(p)
    PROVE  /\ proc[p].key \in Keys /\ IdOf(proc[p].key) \in Ids
           /\ proc[p].body \in Bodies /\ proc[p].body \in offered[IdOf(proc[p].key)]
           /\ proc' \in [Procs -> ProcState] /\ OthersWait(p) /\ proc'[p] = Idle
           /\ FileFilled(p)
           /\ row' \in [Ids -> Keys \cup {None}] /\ current' \in [Ids -> Bodies \cup {None}]
           /\ row'[IdOf(proc[p].key)] = proc[p].key /\ current'[IdOf(proc[p].key)] = proc[p].body
           /\ \A j \in Ids \ {IdOf(proc[p].key)} : row'[j] = row[j] /\ current'[j] = current[j]
<1> DEFINE k == proc[p].key
<1>1. k \in Keys /\ proc[p].body \in offered[IdOf(k)]
  BY DEF PutCopies, OfferedInv, Holds
<1>2. IdOf(k) \in Ids
  BY <1>1, KeyFacts
<1>3. proc[p].body \in Bodies
  BY <1>1, <1>2 DEF TypeOK
<1>4. proc' \in [Procs -> ProcState] /\ OthersWait(p) /\ proc'[p] = Idle
  BY Moves, States DEF PutCopies
<1>5. row \in [Ids -> Keys \cup {None}] /\ current \in [Ids -> Bodies \cup {None}]
  BY DEF TypeOK
<1>6. row' = [row EXCEPT ![IdOf(k)] = k] /\ current' = [current EXCEPT ![IdOf(k)] = proc[p].body]
  BY DEF PutCopies
<1>7. FileFilled(p)
  BY FilledFacts DEF PutCopies
<1> HIDE DEF k
<1>8. /\ row' \in [Ids -> Keys \cup {None}] /\ row'[IdOf(k)] = k
      /\ \A j \in Ids \ {IdOf(k)} : row'[j] = row[j]
  BY <1>1, <1>2, <1>5, <1>6
<1>9. /\ current' \in [Ids -> Bodies \cup {None}] /\ current'[IdOf(k)] = proc[p].body
      /\ \A j \in Ids \ {IdOf(k)} : current'[j] = current[j]
  BY <1>2, <1>3, <1>5, <1>6
<1> QED
  BY <1>1, <1>2, <1>3, <1>4, <1>7, <1>8, <1>9 DEF k

(* An upload puts its body under the key of the day it is done. *)
LEMMA OffloadEffect ==
    ASSUME TypeOK, NEW o \in offloads, OffloadLands(o)
    PROVE  /\ NewKey(o) \in Keys /\ IdOf(NewKey(o)) = IdOf(o.key) /\ NewKey(o)[2] = day
           /\ IdOf(o.key) \in Ids /\ o.key \in Keys /\ o.body \in Bodies
           /\ RemoteGains(NewKey(o), o.body)
<1>1. o.key \in Keys /\ o.body \in Bodies
  BY DEF TypeOK, Offload
<1>2. IdOf(o.key) \in Ids
  BY <1>1, KeyFacts
<1>3. NewKey(o) \in Keys /\ IdOf(NewKey(o)) = IdOf(o.key) /\ NewKey(o)[2] = day
  BY <1>2, KeyFacts DEF NewKey, TypeOK
<1> QED
  BY <1>1, <1>2, <1>3, StoreSteps DEF OffloadLands

(* Get looks for the file of the row's key. *)
LEMMA GetLooksEffect ==
    ASSUME TypeOK, NEW p \in Procs, NEW i \in Ids, GetLooks(p, i)
    PROVE  /\ row[i] \in Keys /\ proc[p].pc = "idle"
           /\ proc' \in [Procs -> ProcState] /\ OthersWait(p)
           /\ proc'[p].pc \in {"open", "remote"} /\ proc'[p].key = row[i] /\ proc'[p].body = None
<1> DEFINE x == IF row[i] \in DOMAIN local THEN "open" ELSE "remote"
           s == [Idle EXCEPT !.pc = x, !.key = row[i]]
<1>1. row[i] \in Keys
  BY DEF GetLooks, TypeOK
<1>2. x \in {"open", "remote"}
  OBVIOUS
<1>3. Becomes(p, s) /\ proc[p].pc = "idle"
  BY DEF GetLooks
<1> HIDE DEF x
<1>4. s \in ProcState /\ s.pc = x /\ s.key = row[i] /\ s.body = None
  BY <1>1, <1>2, States
<1> HIDE DEF s
<1> QED
  BY <1>1, <1>2, <1>3, <1>4, Moves

(* Get takes the object, where there is one and it keeps copies. *)
LEMMA GetFetchesEffect ==
    ASSUME TypeOK, OfferedInv, NEW p \in Procs, GetFetches(p)
    PROVE  /\ proc[p].pc = "remote" /\ proc[p].key \in Keys
           /\ proc' \in [Procs -> ProcState] /\ OthersWait(p)
           /\ \/ proc'[p] = Idle
              \/ /\ proc[p].key \in DOMAIN remote /\ proc'[p].pc = "cache"
                 /\ proc'[p].key = proc[p].key /\ proc'[p].body = remote[proc[p].key]
<1>1. proc[p].pc = "remote" /\ proc[p].key \in Keys
  BY DEF GetFetches, OfferedInv, Holds
<1>2. CASE proc[p].key \in DOMAIN remote /\ LocalCache
  <2> DEFINE s == [pc |-> "cache", key |-> proc[p].key, body |-> remote[proc[p].key], linked |-> FALSE]
  <2>1. remote[proc[p].key] \in Bodies
    BY <1>2 DEF TypeOK
  <2>2. s \in ProcState
    BY <1>1, <2>1, States
  <2>3. Becomes(p, s)
    BY <1>2 DEF GetFetches
  <2> QED
    BY <1>1, <1>2, <2>2, <2>3, Moves
<1>3. CASE ~(proc[p].key \in DOMAIN remote /\ LocalCache)
  <2>1. Becomes(p, Idle)
    BY <1>3 DEF GetFetches
  <2> QED
    BY <1>1, <2>1, Moves, States
<1> QED
  BY <1>2, <1>3

(* Get truncates the file to keep what it fetched. *)
LEMMA CacheCreatesEffect ==
    ASSUME TypeOK, OfferedInv, NEW p \in Procs, CacheCreates(p)
    PROVE  /\ proc[p].pc = "cache" /\ proc[p].key \in Keys /\ IdOf(proc[p].key) \in Ids
           /\ proc[p].body \in offered[IdOf(proc[p].key)]
           /\ proc' \in [Procs -> ProcState] /\ OthersWait(p)
           /\ proc'[p].pc = "fill" /\ proc'[p].key = proc[p].key /\ proc'[p].body = proc[p].body
           /\ proc'[p].linked
           /\ LocalGains(proc[p].key, Torn)
<1>1. proc[p].pc = "cache" /\ proc[p].key \in Keys /\ proc[p].body \in offered[IdOf(proc[p].key)]
  BY DEF CacheCreates, OfferedInv, Holds
<1>2. proc[p] \in ProcState
  BY DEF TypeOK
<1> DEFINE s == [proc[p] EXCEPT !.pc = "fill", !.linked = TRUE]
<1>3. s \in ProcState /\ s.pc = "fill" /\ s.key = proc[p].key /\ s.body = proc[p].body /\ s.linked
  BY <1>2 DEF ProcState
<1>4. Becomes(p, s)
  BY DEF CacheCreates
<1> HIDE DEF s
<1>5. LocalGains(proc[p].key, Torn)
  BY StoreSteps DEF CacheCreates
<1> QED
  BY <1>1, <1>3, <1>4, <1>5, KeyFacts, Moves

(* Get fills the file it keeps. *)
LEMMA CacheCopiesEffect ==
    ASSUME TypeOK, OfferedInv, NEW p \in Procs, CacheCopies(p)
    PROVE  /\ proc[p].pc = "fill" /\ proc[p].key \in Keys /\ IdOf(proc[p].key) \in Ids
           /\ proc[p].body \in offered[IdOf(proc[p].key)] /\ proc[p].body \in Bodies
           /\ proc' \in [Procs -> ProcState] /\ OthersWait(p) /\ proc'[p] = Idle
           /\ FileFilled(p)
<1>1. /\ proc[p].pc = "fill" /\ proc[p].key \in Keys /\ IdOf(proc[p].key) \in Ids
      /\ proc[p].body \in offered[IdOf(proc[p].key)]
  BY KeyFacts DEF CacheCopies, OfferedInv, Holds
<1>2. proc[p].body \in Bodies
  BY <1>1 DEF TypeOK
<1> QED
  BY <1>1, <1>2, Moves, States, FilledFacts DEF CacheCopies

(* Delete removes the file of the row's key. *)
LEMMA DeleteLocalEffect ==
    ASSUME TypeOK, NEW p \in Procs, NEW i \in Ids, DeleteLocal(p, i)
    PROVE  /\ row[i] \in Keys /\ IdOf(row[i]) = i /\ proc[p].pc = "idle"
           /\ proc' \in [Procs -> ProcState] /\ OthersUnlinked(Procs \ {p}, row[i])
           /\ proc'[p].pc = "delete" /\ proc'[p].key = row[i] /\ proc'[p].body = None
           /\ LocalLoses(row[i])
<1> DEFINE s == [Idle EXCEPT !.pc = "delete", !.key = row[i]]
<1>1. row[i] \in Keys /\ IdOf(row[i]) = i /\ proc[p].pc = "idle"
  BY DEF DeleteLocal, TypeOK
<1>2. s \in ProcState /\ s.pc = "delete" /\ s.key = row[i] /\ s.body = None
  <2>1. s \in ProcState
    BY <1>1, States
  <2> QED
    BY <2>1 DEF Idle
<1>3. proc' = [Unlinked(row[i]) EXCEPT ![p] = s]
  BY DEF DeleteLocal
<1> HIDE DEF s
<1>4. /\ proc' \in [Procs -> ProcState] /\ proc'[p] = s
      /\ \A q \in Procs \ {p} : proc'[q] = Unlinked(row[i])[q]
  BY <1>2, <1>3, UnlinkedFacts
<1>5. OthersUnlinked(Procs \ {p}, row[i])
  BY <1>4, UnlinkedFacts DEF OthersUnlinked
<1>6. LocalLoses(row[i])
  BY StoreSteps DEF DeleteLocal
<1> QED
  BY <1>1, <1>2, <1>4, <1>5, <1>6

(* Delete finds that the file cannot be removed. *)
LEMMA DeleteLocalFailsEffect ==
    ASSUME TypeOK, NEW p \in Procs, NEW i \in Ids, DeleteLocalFails(p, i)
    PROVE  /\ row[i] \in Keys /\ IdOf(row[i]) = i /\ proc[p].pc = "idle"
           /\ proc' \in [Procs -> ProcState] /\ OthersWait(p)
           /\ proc'[p].pc = "delete" /\ proc'[p].key = row[i] /\ proc'[p].body = None
<1> DEFINE s == [Idle EXCEPT !.pc = "delete", !.key = row[i]]
<1>1. row[i] \in Keys /\ IdOf(row[i]) = i /\ proc[p].pc = "idle"
  BY DEF DeleteLocalFails, TypeOK
<1>2. s \in ProcState /\ s.pc = "delete" /\ s.key = row[i] /\ s.body = None
  <2>1. s \in ProcState
    BY <1>1, States
  <2> QED
    BY <2>1 DEF Idle
<1>3. Becomes(p, s)
  BY DEF DeleteLocalFails
<1> HIDE DEF s
<1> QED
  BY <1>1, <1>2, <1>3, Moves

(* Delete removes the object, and its caller the row. *)
RowDeleted(i) ==
    /\ row' \in [Ids -> Keys \cup {None}] /\ current' \in [Ids -> Bodies \cup {None}]
    /\ row'[i] = None /\ current'[i] = None
    /\ \A j \in Ids \ {i} : row'[j] = row[j] /\ current'[j] = current[j]

LEMMA RowDeletedFacts ==
    ASSUME TypeOK, NEW i \in Ids,
           row' = [row EXCEPT ![i] = None], current' = [current EXCEPT ![i] = None]
    PROVE  RowDeleted(i)
<1>1. row \in [Ids -> Keys \cup {None}] /\ current \in [Ids -> Bodies \cup {None}]
  BY DEF TypeOK
<1> QED
  BY <1>1 DEF RowDeleted

LEMMA DeleteRemoteEffect ==
    ASSUME TypeOK, OfferedInv, NEW p \in Procs, DeleteRemote(p)
    PROVE  /\ proc[p].pc = "delete" /\ proc[p].key \in Keys /\ IdOf(proc[p].key) \in Ids
           /\ proc' \in [Procs -> ProcState] /\ OthersWait(p) /\ proc'[p] = Idle
           /\ RemoteLoses(proc[p].key) /\ RowDeleted(IdOf(proc[p].key))
<1>1. proc[p].pc = "delete" /\ proc[p].key \in Keys /\ IdOf(proc[p].key) \in Ids
  BY KeyFacts DEF DeleteRemote, OfferedInv, Holds
<1>2. RemoteLoses(proc[p].key)
  BY StoreSteps DEF DeleteRemote
<1>3. RowDeleted(IdOf(proc[p].key))
  BY <1>1, RowDeletedFacts DEF DeleteRemote
<1> QED
  BY <1>1, <1>2, <1>3, Moves, States DEF DeleteRemote

(* Delete fails in the bucket; its caller may delete the row all the same. *)
LEMMA DeleteFailsEffect ==
    ASSUME TypeOK, OfferedInv, NEW p \in Procs, DeleteFails(p)
    PROVE  /\ proc[p].pc = "delete" /\ proc[p].key \in Keys /\ IdOf(proc[p].key) \in Ids
           /\ proc' \in [Procs -> ProcState] /\ OthersWait(p) /\ proc'[p] = Idle
           /\ UNCHANGED known \/ RowDeleted(IdOf(proc[p].key))
<1>1. proc[p].pc = "delete" /\ proc[p].key \in Keys /\ IdOf(proc[p].key) \in Ids
  BY KeyFacts DEF DeleteFails, OfferedInv, Holds
<1>2. UNCHANGED known \/ RowDeleted(IdOf(proc[p].key))
  BY <1>1, RowDeletedFacts DEF DeleteFails
<1> QED
  BY <1>1, <1>2, Moves, States DEF DeleteFails

(* A lost file is gone, and who has it open writes in vain. *)
LEMMA FileIsLostEffect ==
    ASSUME TypeOK, NEW k \in Keys, FileIsLost(k)
    PROVE  /\ k \in DOMAIN local /\ LocalLoses(k)
           /\ proc' \in [Procs -> ProcState] /\ OthersUnlinked(Procs, k)
<1>1. k \in DOMAIN local /\ LocalLoses(k)
  BY StoreSteps DEF FileIsLost
<1> QED
  BY <1>1, UnlinkedFacts DEF FileIsLost, OthersUnlinked

----------------------------------------------------------------------------
(* Type correctness *)

(* A store that gains a key keeps its type. *)
LEMMA GainTypes ==
    ASSUME TypeOK, NEW k \in Keys
    PROVE  /\ LocalGains(k, Torn)
              => DOMAIN local' \subseteq Keys /\ \A x \in DOMAIN local' : local'[x] \in Bodies \cup {Torn}
           /\ \A b \in Bodies : RemoteGains(k, b)
              => DOMAIN remote' \subseteq Keys /\ \A x \in DOMAIN remote' : remote'[x] \in Bodies
<1>1. /\ DOMAIN local \subseteq Keys /\ \A x \in DOMAIN local : local[x] \in Bodies \cup {Torn}
      /\ DOMAIN remote \subseteq Keys /\ \A x \in DOMAIN remote : remote[x] \in Bodies
  BY DEF TypeOK
<1>2. ASSUME LocalGains(k, Torn)
      PROVE  DOMAIN local' \subseteq Keys /\ \A x \in DOMAIN local' : local'[x] \in Bodies \cup {Torn}
  BY <1>1, <1>2 DEF LocalGains
<1>3. ASSUME NEW b \in Bodies, RemoteGains(k, b)
      PROVE  DOMAIN remote' \subseteq Keys /\ \A x \in DOMAIN remote' : remote'[x] \in Bodies
  BY <1>1, <1>3 DEF RemoteGains
<1> QED
  BY <1>2, <1>3

(* Every step keeps the types. *)
LEMMA TypeStep ==
    ASSUME TypeOK, OfferedInv, [Next]_vars
    PROVE  TypeOK'
<1>1. ASSUME NEW p \in Procs, NEW i \in Ids, PutCreates(p, i) PROVE TypeOK'
  <2>1. proc' \in [Procs -> ProcState] /\ offered' \in [Ids -> SUBSET Bodies]
    BY <1>1, PutCreatesEffect
  <2>2. UNCHANGED <<day, remote, offloads, row, current, faults, deletes, lost, strayed,
                    returned>>
    BY <1>1 DEF PutCreates, known
  <2>3. puts' \in Nat /\ overlapped' \subseteq Ids
    BY <1>1 DEF PutCreates, Overlaps, TypeOK
  <2>4. DOMAIN local' \subseteq Keys /\ \A x \in DOMAIN local' : local'[x] \in Bodies \cup {Torn}
    BY <1>1, PutCreatesEffect, GainTypes
  <2>5. \A j \in Ids : offered[j] \subseteq offered'[j]
    BY <1>1, PutCreatesEffect
  <2> QED
    BY <2>1, <2>2, <2>3, <2>4, <2>5 DEF TypeOK
<1>2. ASSUME NEW p \in Procs, NEW i \in Ids, GetLooks(p, i) PROVE TypeOK'
  BY <1>2, GetLooksEffect DEF TypeOK, GetLooks, stores, known, bounds, history
<1>3. ASSUME NEW p \in Procs, NEW i \in Ids, DeleteLocal(p, i) PROVE TypeOK'
  <2>1. proc' \in [Procs -> ProcState]
    BY <1>3, DeleteLocalEffect
  <2>2. UNCHANGED <<day, remote, offloads, row, current, puts, faults, offered, lost, strayed,
                    returned>>
    BY <1>3 DEF DeleteLocal, known
  <2>3. deletes' \in Nat /\ overlapped' \subseteq Ids
    BY <1>3 DEF DeleteLocal, Overlaps, TypeOK
  <2>4. DOMAIN local' \subseteq Keys /\ \A x \in DOMAIN local' : local'[x] \in Bodies \cup {Torn}
    BY <1>3, DeleteLocalEffect DEF LocalLoses, TypeOK
  <2> QED
    BY <2>1, <2>2, <2>3, <2>4 DEF TypeOK
<1>4. ASSUME NEW p \in Procs, NEW i \in Ids, DeleteLocalFails(p, i) PROVE TypeOK'
  <2>1. proc' \in [Procs -> ProcState]
    BY <1>4, DeleteLocalFailsEffect
  <2>2. UNCHANGED <<day, local, remote, offloads, row, current, puts, offered, strayed,
                    returned>>
    BY <1>4 DEF DeleteLocalFails, stores, known
  <2>3. deletes' \in Nat /\ faults' \in Nat /\ overlapped' \subseteq Ids /\ lost' \subseteq Ids
    BY <1>4 DEF DeleteLocalFails, Overlaps, TypeOK
  <2> QED
    BY <2>1, <2>2, <2>3 DEF TypeOK
<1>5. ASSUME NEW p \in Procs, PutCopies(p) PROVE TypeOK'
  <2>1. IdOf(proc[p].key) \in Ids
    BY <1>5, PutCopiesEffect
  <2>2. proc' \in [Procs -> ProcState]
        /\ row' \in [Ids -> Keys \cup {None}] /\ current' \in [Ids -> Bodies \cup {None}]
    BY <1>5, PutCopiesEffect
  <2>3. UNCHANGED <<day, remote, puts, faults, deletes, offered, overlapped, lost, returned>>
    BY <1>5 DEF PutCopies, bounds
  <2>4. [key |-> proc[p].key, body |-> proc[p].body] \in Offload
    BY <1>5, PutCopiesEffect DEF Offload
  <2>5. offloads' \subseteq Offload
    BY <1>5, <2>4 DEF PutCopies, TypeOK
  <2>6. strayed' \subseteq Ids
    BY <1>5, <2>1 DEF PutCopies, TypeOK
  <2>7. \A j \in Ids : row'[j] # None => IdOf(row'[j]) = j /\ current'[j] \in offered[j]
    BY <1>5, PutCopiesEffect DEF TypeOK
  <2>8. DOMAIN local' \subseteq Keys /\ \A x \in DOMAIN local' : local'[x] \in Bodies \cup {Torn}
    BY <1>5, PutCopiesEffect DEF TypeOK, FileFilled
  <2> QED
    BY <2>1, <2>2, <2>3, <2>4, <2>5, <2>6, <2>7, <2>8 DEF TypeOK
<1>6. ASSUME NEW p \in Procs, PutFails(p) PROVE TypeOK'
  <2>1. IdOf(proc[p].key) \in Ids
    BY <1>6, KeyFacts DEF PutFails, OfferedInv, Holds
  <2>2. proc' \in [Procs -> ProcState]
    BY <1>6, Moves, States DEF PutFails
  <2>3. UNCHANGED <<day, local, remote, offloads, row, current, puts, deletes, offered,
                    overlapped, strayed, returned>>
    BY <1>6 DEF PutFails, stores, known
  <2>4. faults' \in Nat /\ lost' \subseteq Ids
    BY <1>6, <2>1 DEF PutFails, TypeOK
  <2> QED
    BY <2>1, <2>2, <2>3, <2>4 DEF TypeOK
<1>7. ASSUME NEW p \in Procs, GetOpens(p) PROVE TypeOK'
  BY <1>7, Moves, States DEF TypeOK, GetOpens, stores, known, bounds, history
<1>8. ASSUME NEW p \in Procs, GetFetches(p) PROVE TypeOK'
  BY <1>8, GetFetchesEffect DEF TypeOK, GetFetches, stores, known, bounds, history
<1>9. ASSUME NEW p \in Procs, CacheCreates(p) PROVE TypeOK'
  <2>1. proc' \in [Procs -> ProcState] /\ IdOf(proc[p].key) \in Ids
    BY <1>9, CacheCreatesEffect
  <2>2. UNCHANGED <<day, remote, offloads, row, current, puts, faults, deletes, offered, lost,
                    strayed>>
    BY <1>9 DEF CacheCreates, known, bounds
  <2>3. overlapped' \subseteq Ids /\ returned' \subseteq Ids
    BY <1>9, <2>1 DEF CacheCreates, TypeOK
  <2>4. DOMAIN local' \subseteq Keys /\ \A x \in DOMAIN local' : local'[x] \in Bodies \cup {Torn}
    BY <1>9, CacheCreatesEffect, GainTypes
  <2> QED
    BY <2>1, <2>2, <2>3, <2>4 DEF TypeOK
<1>10. ASSUME NEW p \in Procs, CacheCopies(p) PROVE TypeOK'
  <2>1. \A x \in DOMAIN local' : x \in Keys /\ local'[x] \in Bodies \cup {Torn}
    BY <1>10, CacheCopiesEffect DEF TypeOK, FileFilled
  <2> QED
    BY <1>10, <2>1, CacheCopiesEffect DEF TypeOK, CacheCopies, known, bounds, history
<1>11. ASSUME NEW p \in Procs, DeleteRemote(p) PROVE TypeOK'
  <2>1. proc' \in [Procs -> ProcState] /\ RowDeleted(IdOf(proc[p].key))
    BY <1>11, DeleteRemoteEffect
  <2>2. UNCHANGED <<day, local, offloads, puts, faults, deletes, offered, overlapped, lost,
                    strayed, returned>>
    BY <1>11 DEF DeleteRemote, bounds, history
  <2>3. row' \in [Ids -> Keys \cup {None}] /\ current' \in [Ids -> Bodies \cup {None}]
    BY <2>1 DEF RowDeleted
  <2>4. \A j \in Ids : row'[j] # None => row'[j] = row[j] /\ current'[j] = current[j]
    BY <2>1 DEF RowDeleted
  <2>5. DOMAIN remote' \subseteq Keys /\ \A x \in DOMAIN remote' : remote'[x] \in Bodies
    BY <1>11, DeleteRemoteEffect DEF RemoteLoses, TypeOK
  <2> QED
    BY <2>1, <2>2, <2>3, <2>4, <2>5 DEF TypeOK
<1>12. ASSUME NEW p \in Procs, DeleteFails(p) PROVE TypeOK'
  <2>1. proc' \in [Procs -> ProcState] /\ IdOf(proc[p].key) \in Ids
    BY <1>12, DeleteFailsEffect
  <2>2. UNCHANGED <<day, local, remote, offloads, puts, deletes, offered, overlapped, strayed,
                    returned>>
    BY <1>12 DEF DeleteFails, stores
  <2>3. faults' \in Nat /\ lost' \subseteq Ids
    BY <1>12, <2>1 DEF DeleteFails, TypeOK
  <2>4. row' \in [Ids -> Keys \cup {None}] /\ current' \in [Ids -> Bodies \cup {None}]
    BY <1>12, DeleteFailsEffect DEF RowDeleted, known, TypeOK
  <2>5. \A j \in Ids : row'[j] # None => row'[j] = row[j] /\ current'[j] = current[j]
    BY <1>12, DeleteFailsEffect DEF RowDeleted, known, TypeOK
  <2> QED
    BY <2>1, <2>2, <2>3, <2>4, <2>5 DEF TypeOK
<1>13. ASSUME NEW o \in offloads, OffloadLands(o) PROVE TypeOK'
  <2>1. IdOf(o.key) \in Ids
    BY <1>13, OffloadEffect
  <2>2. UNCHANGED <<day, local, proc, row, current, puts, faults, deletes, offered, overlapped,
                    lost>>
    BY <1>13 DEF OffloadLands, known, bounds
  <2>3. offloads' \subseteq Offload /\ strayed' \subseteq Ids /\ returned' \subseteq Ids
    BY <1>13, <2>1 DEF OffloadLands, TypeOK
  <2>4. DOMAIN remote' \subseteq Keys /\ \A x \in DOMAIN remote' : remote'[x] \in Bodies
    BY <1>13, OffloadEffect, GainTypes
  <2> QED
    BY <2>1, <2>2, <2>3, <2>4 DEF TypeOK
<1>14. ASSUME NEW o \in offloads, OffloadFails(o) PROVE TypeOK'
  BY <1>14 DEF TypeOK, OffloadFails, stores, known, history
<1>15. ASSUME NEW k \in Keys, FileIsLost(k) PROVE TypeOK'
  <2>1. proc' \in [Procs -> ProcState] /\ IdOf(k) \in Ids
    BY <1>15, FileIsLostEffect, KeyFacts
  <2>2. UNCHANGED <<day, remote, offloads, row, current, puts, deletes, offered, overlapped,
                    strayed, returned>>
    BY <1>15 DEF FileIsLost, known
  <2>3. faults' \in Nat /\ lost' \subseteq Ids
    BY <1>15, <2>1 DEF FileIsLost, TypeOK
  <2>4. DOMAIN local' \subseteq Keys /\ \A x \in DOMAIN local' : local'[x] \in Bodies \cup {Torn}
    BY <1>15, FileIsLostEffect DEF LocalLoses, TypeOK
  <2> QED
    BY <2>1, <2>2, <2>3, <2>4 DEF TypeOK
<1>16. ASSUME NextDay PROVE TypeOK'
  BY <1>16, TieredConstants DEF TypeOK, NextDay, Days, stores, known, bounds, history
<1>17. ASSUME Crash PROVE TypeOK'
  <2>1. proc' \in [Procs -> ProcState]
    BY <1>17, States DEF Crash
  <2>2. UNCHANGED <<day, local, remote, row, current, puts, deletes, offered, overlapped,
                    strayed, returned>>
    BY <1>17 DEF Crash, stores, known
  <2>3. faults' \in Nat /\ lost' \subseteq Ids /\ offloads' \subseteq Offload
    BY <1>17 DEF Crash, TypeOK
  <2> QED
    BY <2>1, <2>2, <2>3 DEF TypeOK
<1>18. ASSUME UNCHANGED vars PROVE TypeOK'
  BY <1>18 DEF TypeOK, vars, stores, known, bounds, history
<1> QED
  BY ActionCases, <1>1, <1>2, <1>3, <1>4, <1>5, <1>6, <1>7, <1>8, <1>9,
     <1>10, <1>11, <1>12, <1>13, <1>14, <1>15, <1>16, <1>17, <1>18

----------------------------------------------------------------------------
(* Bodies *)

(* A caller that stays where it is keeps what it has. *)
LEMMA HoldsKept ==
    ASSUME OfferedInv, NEW q \in Procs,
           proc'[q].pc = proc[q].pc, proc'[q].key = proc[q].key, proc'[q].body = proc[q].body,
           \A j \in Ids : offered[j] \subseteq offered'[j]
    PROVE  Holds(q)'
  BY KeyFacts DEF OfferedInv, Holds

(* A caller that is done has nothing. *)
LEMMA IdleHolds ==
    ASSUME NEW q \in Procs, proc'[q] = Idle
    PROVE  Holds(q)'
  BY DEF Holds, Idle

(* Every step moves bodies between places of one identifier. *)
LEMMA OfferedStep ==
    ASSUME TypeOK, OfferedInv, [Next]_vars
    PROVE  OfferedInv'
<1>1. ASSUME NEW p \in Procs, NEW i \in Ids, PutCreates(p, i) PROVE OfferedInv'
  <2>1. UNCHANGED <<remote, offloads>> /\ puts' = puts + 1
    BY <1>1 DEF PutCreates
  <2>2. \A j \in Ids : offered[j] \subseteq offered'[j] /\ offered'[j] \subseteq offered[j] \cup {puts + 1}
    BY <1>1, PutCreatesEffect
  <2>3. \A j \in Ids : offered'[j] \subseteq 1 .. puts'
    BY <2>1, <2>2 DEF OfferedInv, TypeOK
  <2>4. DOMAIN local' \subseteq Keys /\ LocalGains(<<i, day>>, Torn)
    BY <1>1, PutCreatesEffect, GainTypes
  <2>5. \A x \in DOMAIN local' : local'[x] \in offered'[IdOf(x)] \cup {Torn}
    BY <2>2, <2>4, KeyFacts DEF LocalGains, OfferedInv
  <2>6. \A x \in DOMAIN remote' : remote'[x] \in offered'[IdOf(x)]
    BY <2>1, <2>2, KeyFacts DEF OfferedInv, TypeOK
  <2>7. \A u \in offloads : IdOf(u.key) \in Ids
    BY KeyFacts DEF TypeOK, Offload
  <2>8. \A u \in offloads' : u.body \in offered'[IdOf(u.key)]
    BY <2>1, <2>2, <2>7 DEF OfferedInv
  <2>9. \A q \in Procs \ {p} : Holds(q)'
    BY <1>1, <2>2, PutCreatesEffect, HoldsKept DEF OthersWait
  <2>10. <<i, day>> \in Keys /\ IdOf(<<i, day>>) = i
    BY KeyFacts DEF TypeOK
  <2>11. /\ proc'[p].pc = "put" /\ proc'[p].key = <<i, day>>
        /\ proc'[p].body = puts + 1 /\ puts + 1 \in offered'[i]
    BY <1>1, PutCreatesEffect
  <2>12. Holds(p)'
    BY <2>10, <2>11 DEF Holds
  <2> QED
    BY <2>1, <2>2, <2>3, <2>4, <2>5, <2>6, <2>7, <2>8, <2>9, <2>10, <2>11, <2>12 DEF OfferedInv
<1>2. ASSUME NEW p \in Procs, NEW i \in Ids, GetLooks(p, i) PROVE OfferedInv'
  <2>1. UNCHANGED <<local, remote, offloads, offered, puts>>
    BY <1>2 DEF GetLooks, stores, bounds, history
  <2>2. \A q \in Procs \ {p} : Holds(q)'
    BY <1>2, GetLooksEffect, HoldsKept DEF OthersWait, GetLooks, history
  <2>3. Holds(p)'
    BY <1>2, GetLooksEffect DEF Holds
  <2> QED
    BY <2>1, <2>2, <2>3 DEF OfferedInv
<1>3. ASSUME NEW p \in Procs, NEW i \in Ids, DeleteLocal(p, i) PROVE OfferedInv'
  <2>1. UNCHANGED <<remote, offloads, offered, puts>>
    BY <1>3 DEF DeleteLocal
  <2>2. \A x \in DOMAIN local' : local'[x] \in offered'[IdOf(x)] \cup {Torn}
    BY <1>3, <2>1, DeleteLocalEffect DEF LocalLoses, OfferedInv
  <2>3. \A q \in Procs \ {p} : Holds(q)'
    BY <1>3, <2>1, DeleteLocalEffect, HoldsKept DEF OthersUnlinked
  <2>4. Holds(p)'
    BY <1>3, DeleteLocalEffect DEF Holds
  <2> QED
    BY <2>1, <2>2, <2>3, <2>4 DEF OfferedInv
<1>4. ASSUME NEW p \in Procs, NEW i \in Ids, DeleteLocalFails(p, i) PROVE OfferedInv'
  <2>1. UNCHANGED <<local, remote, offloads, offered, puts>>
    BY <1>4 DEF DeleteLocalFails, stores, bounds, history
  <2>2. \A q \in Procs \ {p} : Holds(q)'
    BY <1>4, DeleteLocalFailsEffect, HoldsKept DEF OthersWait, DeleteLocalFails, history
  <2>3. Holds(p)'
    BY <1>4, DeleteLocalFailsEffect DEF Holds
  <2> QED
    BY <2>1, <2>2, <2>3 DEF OfferedInv
<1>5. ASSUME NEW p \in Procs, PutCopies(p) PROVE OfferedInv'
  <2>1. UNCHANGED <<remote, offered, puts>>
    BY <1>5 DEF PutCopies, bounds
  <2>2. FileFilled(p) /\ proc[p].body \in offered[IdOf(proc[p].key)]
    BY <1>5, PutCopiesEffect
  <2>3. \A x \in DOMAIN local' : local'[x] \in offered'[IdOf(x)] \cup {Torn}
    BY <2>1, <2>2 DEF FileFilled, OfferedInv
  <2>4. \A u \in offloads' : u \in offloads \/ (u.key = proc[p].key /\ u.body = proc[p].body)
    BY <1>5 DEF PutCopies
  <2>5. \A u \in offloads' : u.body \in offered'[IdOf(u.key)]
    BY <2>1, <2>2, <2>4 DEF OfferedInv
  <2>6. \A q \in Procs \ {p} : proc'[q] = proc[q]
    BY <1>5, PutCopiesEffect DEF OthersWait
  <2>7. \A q \in Procs \ {p} : Holds(q)'
    BY <2>1, <2>6, HoldsKept
  <2>8. Holds(p)'
    BY <1>5, PutCopiesEffect, IdleHolds
  <2> QED
    BY <2>1, <2>2, <2>3, <2>4, <2>5, <2>6, <2>7, <2>8 DEF OfferedInv
<1>6. ASSUME NEW p \in Procs, PutFails(p) PROVE OfferedInv'
  <2>1. UNCHANGED <<local, remote, offloads, offered, puts>>
    BY <1>6 DEF PutFails, stores
  <2>2. \A q \in Procs \ {p} : Holds(q)'
    BY <1>6, Moves, HoldsKept DEF OthersWait, PutFails
  <2>3. Holds(p)'
    BY <1>6, Moves, IdleHolds DEF PutFails
  <2> QED
    BY <2>1, <2>2, <2>3 DEF OfferedInv
<1>7. ASSUME NEW p \in Procs, GetOpens(p) PROVE OfferedInv'
  <2>1. UNCHANGED <<local, remote, offloads, offered, puts>>
    BY <1>7 DEF GetOpens, stores, bounds, history
  <2>2. \A q \in Procs \ {p} : Holds(q)'
    BY <1>7, Moves, HoldsKept DEF OthersWait, GetOpens, history
  <2>3. Holds(p)'
    BY <1>7, Moves, IdleHolds DEF GetOpens, history
  <2> QED
    BY <2>1, <2>2, <2>3 DEF OfferedInv
<1>8. ASSUME NEW p \in Procs, GetFetches(p) PROVE OfferedInv'
  <2>1. UNCHANGED <<local, remote, offloads, offered, puts>>
    BY <1>8 DEF GetFetches, stores, bounds, history
  <2>2. \A q \in Procs \ {p} : Holds(q)'
    BY <1>8, GetFetchesEffect, HoldsKept DEF OthersWait, GetFetches, history
  <2>3. Holds(p)'
    BY <1>8, <2>1, GetFetchesEffect, IdleHolds DEF Holds, OfferedInv
  <2> QED
    BY <2>1, <2>2, <2>3 DEF OfferedInv
<1>9. ASSUME NEW p \in Procs, CacheCreates(p) PROVE OfferedInv'
  <2>1. UNCHANGED <<remote, offloads, offered, puts>>
    BY <1>9 DEF CacheCreates, bounds
  <2>2. LocalGains(proc[p].key, Torn)
    BY <1>9, CacheCreatesEffect
  <2>3. \A x \in DOMAIN local' : local'[x] \in offered'[IdOf(x)] \cup {Torn}
    BY <2>1, <2>2 DEF LocalGains, OfferedInv
  <2>4. \A q \in Procs \ {p} : Holds(q)'
    BY <1>9, CacheCreatesEffect, HoldsKept DEF OthersWait, CacheCreates
  <2>5. Holds(p)'
    BY <1>9, <2>1, CacheCreatesEffect DEF Holds
  <2> QED
    BY <2>1, <2>2, <2>3, <2>4, <2>5 DEF OfferedInv
<1>10. ASSUME NEW p \in Procs, CacheCopies(p) PROVE OfferedInv'
  <2>1. UNCHANGED <<remote, offloads, offered, puts>>
    BY <1>10 DEF CacheCopies, bounds, history
  <2>2. FileFilled(p) /\ proc[p].body \in offered[IdOf(proc[p].key)]
    BY <1>10, CacheCopiesEffect
  <2>3. \A x \in DOMAIN local' : local'[x] \in offered'[IdOf(x)] \cup {Torn}
    BY <2>1, <2>2 DEF FileFilled, OfferedInv
  <2>4. \A q \in Procs \ {p} : Holds(q)'
    BY <1>10, CacheCopiesEffect, HoldsKept DEF OthersWait, CacheCopies, history
  <2>5. Holds(p)'
    BY <1>10, CacheCopiesEffect, IdleHolds
  <2> QED
    BY <2>1, <2>2, <2>3, <2>4, <2>5 DEF OfferedInv
<1>11. ASSUME NEW p \in Procs, DeleteRemote(p) PROVE OfferedInv'
  <2>1. UNCHANGED <<local, offloads, offered, puts>>
    BY <1>11 DEF DeleteRemote, bounds, history
  <2>2. RemoteLoses(proc[p].key)
    BY <1>11, DeleteRemoteEffect
  <2>3. \A x \in DOMAIN remote' : remote'[x] \in offered'[IdOf(x)]
    BY <2>1, <2>2 DEF RemoteLoses, OfferedInv
  <2>4. \A q \in Procs \ {p} : Holds(q)'
    BY <1>11, DeleteRemoteEffect, HoldsKept DEF OthersWait, DeleteRemote, history
  <2>5. Holds(p)'
    BY <1>11, DeleteRemoteEffect, IdleHolds
  <2> QED
    BY <2>1, <2>2, <2>3, <2>4, <2>5 DEF OfferedInv
<1>12. ASSUME NEW p \in Procs, DeleteFails(p) PROVE OfferedInv'
  <2>1. UNCHANGED <<local, remote, offloads, offered, puts>>
    BY <1>12 DEF DeleteFails, stores
  <2>2. \A q \in Procs \ {p} : Holds(q)'
    BY <1>12, DeleteFailsEffect, HoldsKept DEF OthersWait, DeleteFails
  <2>3. Holds(p)'
    BY <1>12, DeleteFailsEffect, IdleHolds
  <2> QED
    BY <2>1, <2>2, <2>3 DEF OfferedInv
<1>13. ASSUME NEW o \in offloads, OffloadLands(o) PROVE OfferedInv'
  <2>1. UNCHANGED <<local, proc, offered, puts>> /\ offloads' \subseteq offloads
    BY <1>13 DEF OffloadLands, bounds
  <2>2. RemoteGains(NewKey(o), o.body) /\ IdOf(NewKey(o)) = IdOf(o.key)
    BY <1>13, OffloadEffect
  <2>3. o.body \in offered[IdOf(NewKey(o))]
    BY <2>2 DEF OfferedInv
  <2>4. \A x \in DOMAIN remote' : remote'[x] \in offered'[IdOf(x)]
    BY <2>1, <2>2, <2>3 DEF RemoteGains, OfferedInv
  <2>5. \A q \in Procs : Holds(q)'
    BY <2>1, HoldsKept
  <2> QED
    BY <2>1, <2>2, <2>3, <2>4, <2>5 DEF OfferedInv
<1>14. ASSUME NEW o \in offloads, OffloadFails(o) PROVE OfferedInv'
  <2>1. UNCHANGED <<local, remote, proc, offered, puts>> /\ offloads' \subseteq offloads
    BY <1>14 DEF OffloadFails, stores, history
  <2>2. \A q \in Procs : Holds(q)'
    BY <2>1, HoldsKept
  <2> QED
    BY <2>1, <2>2 DEF OfferedInv
<1>15. ASSUME NEW k \in Keys, FileIsLost(k) PROVE OfferedInv'
  <2>1. UNCHANGED <<remote, offloads, offered, puts>>
    BY <1>15 DEF FileIsLost
  <2>2. \A x \in DOMAIN local' : local'[x] \in offered'[IdOf(x)] \cup {Torn}
    BY <1>15, <2>1, FileIsLostEffect DEF LocalLoses, OfferedInv
  <2>3. \A q \in Procs : Holds(q)'
    BY <1>15, <2>1, FileIsLostEffect, HoldsKept DEF OthersUnlinked
  <2> QED
    BY <2>1, <2>2, <2>3 DEF OfferedInv
<1>16. ASSUME NextDay PROVE OfferedInv'
  <2>1. UNCHANGED <<local, remote, proc, offered, puts, offloads>>
    BY <1>16 DEF NextDay, stores, bounds, history
  <2>2. \A q \in Procs : Holds(q)'
    BY <2>1, HoldsKept
  <2> QED
    BY <2>1, <2>2 DEF OfferedInv
<1>17. ASSUME Crash PROVE OfferedInv'
  <2>1. UNCHANGED <<local, remote, offered, puts>> /\ offloads' = {}
    BY <1>17 DEF Crash, stores
  <2>2. \A q \in Procs : Holds(q)'
    BY <1>17, IdleHolds DEF Crash
  <2> QED
    BY <2>1, <2>2 DEF OfferedInv
<1>18. ASSUME UNCHANGED vars PROVE OfferedInv'
  <2>1. UNCHANGED <<local, remote, proc, offered, puts, offloads>>
    BY <1>18 DEF vars, stores, bounds, history
  <2>2. \A q \in Procs : Holds(q)'
    BY <2>1, HoldsKept
  <2> QED
    BY <2>1, <2>2 DEF OfferedInv
<1> QED
  BY ActionCases, <1>1, <1>2, <1>3, <1>4, <1>5, <1>6, <1>7, <1>8, <1>9,
     <1>10, <1>11, <1>12, <1>13, <1>14, <1>15, <1>16, <1>17, <1>18

(* Nothing that was seen before is the body of a Put under way. *)
LEMMA FreshKept ==
    ASSUME TypeOK, OfferedInv, FreshInv,
           \A r \in Procs : proc'[r].pc = "put" => proc[r].pc = "put" /\ proc'[r].body = proc[r].body,
           \A x \in DOMAIN remote' :
             (x \in DOMAIN remote /\ remote'[x] = remote[x]) \/ \E u \in offloads : remote'[x] = u.body,
           \A u \in offloads' :
             u \in offloads \/ \E q \in Procs : proc'[q].pc # "put" /\ u.body = proc[q].body,
           \A q \in Procs :
             \/ proc'[q].body \in {proc[q].body, None}
             \/ \E x \in DOMAIN remote : proc'[q].body = remote[x]
    PROVE  FreshInv'
<1> SUFFICES ASSUME NEW r \in Procs, proc'[r].pc = "put"
             PROVE  /\ \A x \in DOMAIN remote' : remote'[x] # proc'[r].body
                    /\ \A u \in offloads' : u.body # proc'[r].body
                    /\ \A q \in Procs \ {r} : proc'[q].body # proc'[r].body
  BY DEF FreshInv
<1>1. proc[r].pc = "put" /\ proc'[r].body = proc[r].body
  OBVIOUS
<1>2. proc[r].body # None
  BY <1>1, KeyFacts DEF OfferedInv, Holds, TypeOK
<1>3. /\ \A x \in DOMAIN remote : remote[x] # proc[r].body
      /\ \A u \in offloads : u.body # proc[r].body
      /\ \A q \in Procs \ {r} : proc[q].body # proc[r].body
  BY <1>1 DEF FreshInv
<1> QED
  BY <1>1, <1>2, <1>3

(* Nobody else comes by the body of a Put under way. *)
LEMMA FreshStep ==
    ASSUME TypeOK, OfferedInv, FreshInv, [Next]_vars
    PROVE  FreshInv'
<1>1. ASSUME NEW p \in Procs, NEW i \in Ids, PutCreates(p, i) PROVE FreshInv'
  <2>1. UNCHANGED <<remote, offloads>>
    BY <1>1 DEF PutCreates
  <2>2. proc'[p].body = puts + 1 /\ \A q \in Procs \ {p} : proc'[q] = proc[q]
    BY <1>1, PutCreatesEffect DEF OthersWait
  <2>3. \A j \in Ids : puts + 1 \notin offered[j]
    BY DEF OfferedInv, TypeOK
  <2>4. \A q \in Procs : proc[q].body # puts + 1
    <3>1. None # puts + 1
      BY <1>1, PutCreatesEffect, KeyFacts
    <3> QED
      BY <2>3, <3>1, KeyFacts DEF OfferedInv, Holds
  <2>5. \A x \in DOMAIN remote : remote[x] # puts + 1
    BY <2>3, KeyFacts DEF OfferedInv, TypeOK
  <2>6. \A u \in offloads : u.body # puts + 1
    BY <2>3, KeyFacts DEF OfferedInv, TypeOK, Offload
  <2> QED
    BY <2>1, <2>2, <2>4, <2>5, <2>6 DEF FreshInv
<1>2. ASSUME NEW p \in Procs, NEW i \in Ids, GetLooks(p, i) PROVE FreshInv'
  <2>1. UNCHANGED <<remote, offloads>>
    BY <1>2 DEF GetLooks, stores
  <2>2. \A r \in Procs : proc'[r].pc = "put" => proc[r].pc = "put" /\ proc'[r].body = proc[r].body
    BY <1>2, GetLooksEffect DEF OthersWait, Idle
  <2>3. \A q \in Procs :
            \/ proc'[q].body \in {proc[q].body, None}
            \/ \E x \in DOMAIN remote : proc'[q].body = remote[x]
    BY <1>2, GetLooksEffect DEF OthersWait, Idle
  <2> QED
    BY <2>1, <2>2, <2>3, FreshKept
<1>3. ASSUME NEW p \in Procs, NEW i \in Ids, DeleteLocal(p, i) PROVE FreshInv'
  <2>1. UNCHANGED <<remote, offloads>>
    BY <1>3 DEF DeleteLocal
  <2>2. \A r \in Procs : proc'[r].pc = "put" => proc[r].pc = "put" /\ proc'[r].body = proc[r].body
    BY <1>3, DeleteLocalEffect DEF OthersUnlinked, Idle
  <2>3. \A q \in Procs :
            \/ proc'[q].body \in {proc[q].body, None}
            \/ \E x \in DOMAIN remote : proc'[q].body = remote[x]
    BY <1>3, DeleteLocalEffect DEF OthersUnlinked, Idle
  <2> QED
    BY <2>1, <2>2, <2>3, FreshKept
<1>4. ASSUME NEW p \in Procs, NEW i \in Ids, DeleteLocalFails(p, i) PROVE FreshInv'
  <2>1. UNCHANGED <<remote, offloads>>
    BY <1>4 DEF DeleteLocalFails, stores
  <2>2. \A r \in Procs : proc'[r].pc = "put" => proc[r].pc = "put" /\ proc'[r].body = proc[r].body
    BY <1>4, DeleteLocalFailsEffect DEF OthersWait, Idle
  <2>3. \A q \in Procs :
            \/ proc'[q].body \in {proc[q].body, None}
            \/ \E x \in DOMAIN remote : proc'[q].body = remote[x]
    BY <1>4, DeleteLocalFailsEffect DEF OthersWait, Idle
  <2> QED
    BY <2>1, <2>2, <2>3, FreshKept
<1>5. ASSUME NEW p \in Procs, PutCopies(p) PROVE FreshInv'
  <2>1. UNCHANGED remote
    BY <1>5 DEF PutCopies
  <2>2. \A r \in Procs : proc'[r].pc = "put" => proc[r].pc = "put" /\ proc'[r].body = proc[r].body
    BY <1>5, PutCopiesEffect DEF OthersWait, Idle
  <2>3. \A q \in Procs :
            \/ proc'[q].body \in {proc[q].body, None}
            \/ \E x \in DOMAIN remote : proc'[q].body = remote[x]
    BY <1>5, PutCopiesEffect DEF OthersWait, Idle
  <2>4. proc'[p].pc # "put"
    BY <1>5, PutCopiesEffect DEF Idle
  <2>5. \A u \in offloads' : u \in offloads \/ u.body = proc[p].body
    BY <1>5 DEF PutCopies
  <2> QED
    BY <2>1, <2>2, <2>3, <2>4, <2>5, FreshKept
<1>6. ASSUME NEW p \in Procs, PutFails(p) PROVE FreshInv'
  <2>1. UNCHANGED <<remote, offloads>>
    BY <1>6 DEF PutFails, stores
  <2>2. \A r \in Procs : proc'[r].pc = "put" => proc[r].pc = "put" /\ proc'[r].body = proc[r].body
    BY <1>6, Moves DEF OthersWait, Idle, PutFails
  <2>3. \A q \in Procs :
            \/ proc'[q].body \in {proc[q].body, None}
            \/ \E x \in DOMAIN remote : proc'[q].body = remote[x]
    BY <1>6, Moves DEF OthersWait, Idle, PutFails
  <2> QED
    BY <2>1, <2>2, <2>3, FreshKept
<1>7. ASSUME NEW p \in Procs, GetOpens(p) PROVE FreshInv'
  <2>1. UNCHANGED <<remote, offloads>>
    BY <1>7 DEF GetOpens, stores
  <2>2. \A r \in Procs : proc'[r].pc = "put" => proc[r].pc = "put" /\ proc'[r].body = proc[r].body
    BY <1>7, Moves DEF OthersWait, Idle, GetOpens
  <2>3. \A q \in Procs :
            \/ proc'[q].body \in {proc[q].body, None}
            \/ \E x \in DOMAIN remote : proc'[q].body = remote[x]
    BY <1>7, Moves DEF OthersWait, Idle, GetOpens
  <2> QED
    BY <2>1, <2>2, <2>3, FreshKept
<1>8. ASSUME NEW p \in Procs, GetFetches(p) PROVE FreshInv'
  <2>1. UNCHANGED <<remote, offloads>>
    BY <1>8 DEF GetFetches, stores
  <2>2. \A r \in Procs : proc'[r].pc = "put" => proc[r].pc = "put" /\ proc'[r].body = proc[r].body
    BY <1>8, GetFetchesEffect DEF OthersWait, Idle
  <2>3. \A q \in Procs :
            \/ proc'[q].body \in {proc[q].body, None}
            \/ \E x \in DOMAIN remote : proc'[q].body = remote[x]
    BY <1>8, GetFetchesEffect DEF OthersWait, Idle
  <2> QED
    BY <2>1, <2>2, <2>3, FreshKept
<1>9. ASSUME NEW p \in Procs, CacheCreates(p) PROVE FreshInv'
  <2>1. UNCHANGED <<remote, offloads>>
    BY <1>9 DEF CacheCreates
  <2>2. \A r \in Procs : proc'[r].pc = "put" => proc[r].pc = "put" /\ proc'[r].body = proc[r].body
    BY <1>9, CacheCreatesEffect DEF OthersWait, Idle
  <2>3. \A q \in Procs :
            \/ proc'[q].body \in {proc[q].body, None}
            \/ \E x \in DOMAIN remote : proc'[q].body = remote[x]
    BY <1>9, CacheCreatesEffect DEF OthersWait, Idle
  <2> QED
    BY <2>1, <2>2, <2>3, FreshKept
<1>10. ASSUME NEW p \in Procs, CacheCopies(p) PROVE FreshInv'
  <2>1. UNCHANGED <<remote, offloads>>
    BY <1>10 DEF CacheCopies
  <2>2. \A r \in Procs : proc'[r].pc = "put" => proc[r].pc = "put" /\ proc'[r].body = proc[r].body
    BY <1>10, CacheCopiesEffect DEF OthersWait, Idle
  <2>3. \A q \in Procs :
            \/ proc'[q].body \in {proc[q].body, None}
            \/ \E x \in DOMAIN remote : proc'[q].body = remote[x]
    BY <1>10, CacheCopiesEffect DEF OthersWait, Idle
  <2> QED
    BY <2>1, <2>2, <2>3, FreshKept
<1>11. ASSUME NEW p \in Procs, DeleteRemote(p) PROVE FreshInv'
  <2>1. UNCHANGED offloads
    BY <1>11 DEF DeleteRemote
  <2>2. \A r \in Procs : proc'[r].pc = "put" => proc[r].pc = "put" /\ proc'[r].body = proc[r].body
    BY <1>11, DeleteRemoteEffect DEF OthersWait, Idle
  <2>3. \A x \in DOMAIN remote' :
            (x \in DOMAIN remote /\ remote'[x] = remote[x]) \/ \E u \in offloads : remote'[x] = u.body
    BY <1>11, DeleteRemoteEffect DEF RemoteLoses
  <2>4. \A q \in Procs :
            \/ proc'[q].body \in {proc[q].body, None}
            \/ \E x \in DOMAIN remote : proc'[q].body = remote[x]
    BY <1>11, DeleteRemoteEffect DEF OthersWait, Idle
  <2> QED
    BY <2>1, <2>2, <2>3, <2>4, FreshKept
<1>12. ASSUME NEW p \in Procs, DeleteFails(p) PROVE FreshInv'
  <2>1. UNCHANGED <<remote, offloads>>
    BY <1>12 DEF DeleteFails, stores
  <2>2. \A r \in Procs : proc'[r].pc = "put" => proc[r].pc = "put" /\ proc'[r].body = proc[r].body
    BY <1>12, DeleteFailsEffect DEF OthersWait, Idle
  <2>3. \A q \in Procs :
            \/ proc'[q].body \in {proc[q].body, None}
            \/ \E x \in DOMAIN remote : proc'[q].body = remote[x]
    BY <1>12, DeleteFailsEffect DEF OthersWait, Idle
  <2> QED
    BY <2>1, <2>2, <2>3, FreshKept
<1>13. ASSUME NEW o \in offloads, OffloadLands(o) PROVE FreshInv'
  <2>1. UNCHANGED proc /\ offloads' \subseteq offloads
    BY <1>13 DEF OffloadLands
  <2>2. RemoteGains(NewKey(o), o.body)
    BY <1>13, OffloadEffect
  <2>3. \A x \in DOMAIN remote' :
            (x \in DOMAIN remote /\ remote'[x] = remote[x]) \/ \E u \in offloads : remote'[x] = u.body
    BY <2>2 DEF RemoteGains
  <2> QED
    BY <2>1, <2>2, <2>3, FreshKept
<1>14. ASSUME NEW o \in offloads, OffloadFails(o) PROVE FreshInv'
  <2>1. UNCHANGED <<proc, remote>> /\ offloads' \subseteq offloads
    BY <1>14 DEF OffloadFails, stores
  <2> QED
    BY <2>1, FreshKept
<1>15. ASSUME NEW k \in Keys, FileIsLost(k) PROVE FreshInv'
  <2>1. UNCHANGED <<remote, offloads>>
    BY <1>15 DEF FileIsLost
  <2>2. \A r \in Procs : proc'[r].pc = "put" => proc[r].pc = "put" /\ proc'[r].body = proc[r].body
    BY <1>15, FileIsLostEffect DEF OthersUnlinked, Idle
  <2>3. \A q \in Procs :
            \/ proc'[q].body \in {proc[q].body, None}
            \/ \E x \in DOMAIN remote : proc'[q].body = remote[x]
    BY <1>15, FileIsLostEffect DEF OthersUnlinked, Idle
  <2> QED
    BY <2>1, <2>2, <2>3, FreshKept
<1>16. ASSUME NextDay PROVE FreshInv'
  <2>1. UNCHANGED <<proc, remote, offloads>>
    BY <1>16 DEF NextDay, stores
  <2> QED
    BY <2>1, FreshKept
<1>17. ASSUME Crash PROVE FreshInv'
  <2>1. UNCHANGED remote /\ offloads' = {}
    BY <1>17 DEF Crash, stores
  <2>2. \A q \in Procs : proc'[q] = Idle
    BY <1>17 DEF Crash
  <2>3. \A r \in Procs : proc'[r].pc = "put" => proc[r].pc = "put" /\ proc'[r].body = proc[r].body
    BY <2>2 DEF Idle
  <2>4. \A q \in Procs :
            \/ proc'[q].body \in {proc[q].body, None}
            \/ \E x \in DOMAIN remote : proc'[q].body = remote[x]
    BY <2>2 DEF Idle
  <2> QED
    BY <2>1, <2>2, <2>3, <2>4, FreshKept
<1>18. ASSUME UNCHANGED vars PROVE FreshInv'
  <2>1. UNCHANGED <<proc, remote, offloads>>
    BY <1>18 DEF vars, stores
  <2> QED
    BY <2>1, FreshKept
<1> QED
  BY ActionCases, <1>1, <1>2, <1>3, <1>4, <1>5, <1>6, <1>7, <1>8, <1>9,
     <1>10, <1>11, <1>12, <1>13, <1>14, <1>15, <1>16, <1>17, <1>18

(* Days pass, and keys stay. *)
LEMMA DaysKept ==
    ASSUME TypeOK, OfferedInv, DaysInv, day' \in Nat, day <= day',
           offloads' \subseteq offloads,
           \A r \in Procs : proc'[r].pc = "put" => proc[r].pc = "put" /\ proc'[r].key = proc[r].key,
           \A j \in Ids : row'[j] = row[j] \/ row'[j] = None
    PROVE  DaysInv'
<1>1. day \in Nat
  BY DEF TypeOK, Days
<1>2. ASSUME NEW k \in Keys, k[2] <= day PROVE k[2] <= day'
  BY <1>1, <1>2, KeyFacts DEF Days
<1>3. \A u \in offloads' : u.key[2] <= day'
  BY <1>2 DEF DaysInv, TypeOK, Offload
<1>4. \A r \in Procs : proc'[r].pc = "put" => proc'[r].key[2] <= day'
  BY <1>2 DEF DaysInv, OfferedInv, Holds
<1>5. \A j \in Ids : row'[j] # None => row'[j][2] <= day'
  BY <1>2 DEF DaysInv, TypeOK
<1> QED
  BY <1>3, <1>4, <1>5 DEF DaysInv

(* The day is a number. *)
LEMMA DayIsNat == TypeOK => day \in Nat /\ day <= day
  BY DEF TypeOK, Days

(* No step makes a key of a day to come. *)
LEMMA DaysStep ==
    ASSUME TypeOK, OfferedInv, DaysInv, [Next]_vars
    PROVE  DaysInv'
<1>1. ASSUME NEW p \in Procs, NEW i \in Ids, PutCreates(p, i) PROVE DaysInv'
  <2>1. UNCHANGED <<day, row, offloads>>
    BY <1>1 DEF PutCreates, known
  <2>2. proc'[p].key = <<i, day>> /\ \A q \in Procs \ {p} : proc'[q] = proc[q]
    BY <1>1, PutCreatesEffect DEF OthersWait
  <2>3. proc'[p].key[2] <= day
    BY <2>2 DEF TypeOK, Days
  <2> QED
    BY <2>1, <2>2, <2>3 DEF DaysInv
<1>2. ASSUME NEW p \in Procs, NEW i \in Ids, GetLooks(p, i) PROVE DaysInv'
  <2>1. UNCHANGED <<day, row, offloads>>
    BY <1>2 DEF GetLooks, known
  <2>2. \A r \in Procs : proc'[r].pc = "put" => proc[r].pc = "put" /\ proc'[r].key = proc[r].key
    BY <1>2, GetLooksEffect DEF OthersWait, Idle
  <2> QED
    BY <2>1, <2>2, DaysKept, DayIsNat
<1>3. ASSUME NEW p \in Procs, NEW i \in Ids, DeleteLocal(p, i) PROVE DaysInv'
  <2>1. UNCHANGED <<day, row, offloads>>
    BY <1>3 DEF DeleteLocal, known
  <2>2. \A r \in Procs : proc'[r].pc = "put" => proc[r].pc = "put" /\ proc'[r].key = proc[r].key
    BY <1>3, DeleteLocalEffect DEF OthersUnlinked, Idle
  <2> QED
    BY <2>1, <2>2, DaysKept, DayIsNat
<1>4. ASSUME NEW p \in Procs, NEW i \in Ids, DeleteLocalFails(p, i) PROVE DaysInv'
  <2>1. UNCHANGED <<day, row, offloads>>
    BY <1>4 DEF DeleteLocalFails, known
  <2>2. \A r \in Procs : proc'[r].pc = "put" => proc[r].pc = "put" /\ proc'[r].key = proc[r].key
    BY <1>4, DeleteLocalFailsEffect DEF OthersWait, Idle
  <2> QED
    BY <2>1, <2>2, DaysKept, DayIsNat
<1>5. ASSUME NEW p \in Procs, PutCopies(p) PROVE DaysInv'
  <2>1. UNCHANGED day /\ proc[p].key[2] <= day
    BY <1>5 DEF PutCopies, DaysInv
  <2>2. \A u \in offloads' : u \in offloads \/ u.key = proc[p].key
    BY <1>5 DEF PutCopies
  <2>3. proc'[p] = Idle /\ \A q \in Procs \ {p} : proc'[q] = proc[q]
    BY <1>5, PutCopiesEffect DEF OthersWait
  <2>4. \A j \in Ids : row'[j] \in {row[j], proc[p].key}
    BY <1>5, PutCopiesEffect
  <2> QED
    BY <2>1, <2>2, <2>3, <2>4 DEF DaysInv, Idle
<1>6. ASSUME NEW p \in Procs, PutFails(p) PROVE DaysInv'
  <2>1. UNCHANGED <<day, row, offloads>>
    BY <1>6 DEF PutFails, known
  <2>2. \A r \in Procs : proc'[r].pc = "put" => proc[r].pc = "put" /\ proc'[r].key = proc[r].key
    BY <1>6, Moves DEF OthersWait, Idle, PutFails
  <2> QED
    BY <2>1, <2>2, DaysKept, DayIsNat
<1>7. ASSUME NEW p \in Procs, GetOpens(p) PROVE DaysInv'
  <2>1. UNCHANGED <<day, row, offloads>>
    BY <1>7 DEF GetOpens, known
  <2>2. \A r \in Procs : proc'[r].pc = "put" => proc[r].pc = "put" /\ proc'[r].key = proc[r].key
    BY <1>7, Moves DEF OthersWait, Idle, GetOpens
  <2> QED
    BY <2>1, <2>2, DaysKept, DayIsNat
<1>8. ASSUME NEW p \in Procs, GetFetches(p) PROVE DaysInv'
  <2>1. UNCHANGED <<day, row, offloads>>
    BY <1>8 DEF GetFetches, known
  <2>2. \A r \in Procs : proc'[r].pc = "put" => proc[r].pc = "put" /\ proc'[r].key = proc[r].key
    BY <1>8, GetFetchesEffect DEF OthersWait, Idle
  <2> QED
    BY <2>1, <2>2, DaysKept, DayIsNat
<1>9. ASSUME NEW p \in Procs, CacheCreates(p) PROVE DaysInv'
  <2>1. UNCHANGED <<day, row, offloads>>
    BY <1>9 DEF CacheCreates, known
  <2>2. \A r \in Procs : proc'[r].pc = "put" => proc[r].pc = "put" /\ proc'[r].key = proc[r].key
    BY <1>9, CacheCreatesEffect DEF OthersWait, Idle
  <2> QED
    BY <2>1, <2>2, DaysKept, DayIsNat
<1>10. ASSUME NEW p \in Procs, CacheCopies(p) PROVE DaysInv'
  <2>1. UNCHANGED <<day, row, offloads>>
    BY <1>10 DEF CacheCopies, known
  <2>2. \A r \in Procs : proc'[r].pc = "put" => proc[r].pc = "put" /\ proc'[r].key = proc[r].key
    BY <1>10, CacheCopiesEffect DEF OthersWait, Idle
  <2> QED
    BY <2>1, <2>2, DaysKept, DayIsNat
<1>11. ASSUME NEW p \in Procs, DeleteRemote(p) PROVE DaysInv'
  <2>1. UNCHANGED <<day, offloads>>
    BY <1>11 DEF DeleteRemote
  <2>2. \A r \in Procs : proc'[r].pc = "put" => proc[r].pc = "put" /\ proc'[r].key = proc[r].key
    BY <1>11, DeleteRemoteEffect DEF OthersWait, Idle
  <2>3. \A j \in Ids : row'[j] = row[j] \/ row'[j] = None
    BY <1>11, DeleteRemoteEffect DEF RowDeleted, known
  <2> QED
    BY <2>1, <2>2, <2>3, DaysKept, DayIsNat
<1>12. ASSUME NEW p \in Procs, DeleteFails(p) PROVE DaysInv'
  <2>1. UNCHANGED <<day, offloads>>
    BY <1>12 DEF DeleteFails
  <2>2. \A r \in Procs : proc'[r].pc = "put" => proc[r].pc = "put" /\ proc'[r].key = proc[r].key
    BY <1>12, DeleteFailsEffect DEF OthersWait, Idle
  <2>3. \A j \in Ids : row'[j] = row[j] \/ row'[j] = None
    BY <1>12, DeleteFailsEffect DEF RowDeleted, known
  <2> QED
    BY <2>1, <2>2, <2>3, DaysKept, DayIsNat
<1>13. ASSUME NEW o \in offloads, OffloadLands(o) PROVE DaysInv'
  <2>1. UNCHANGED <<day, row, proc>> /\ offloads' \subseteq offloads
    BY <1>13 DEF OffloadLands, known
  <2> QED
    BY <2>1, DaysKept, DayIsNat
<1>14. ASSUME NEW o \in offloads, OffloadFails(o) PROVE DaysInv'
  <2>1. UNCHANGED <<day, row, proc>> /\ offloads' \subseteq offloads
    BY <1>14 DEF OffloadFails, known
  <2> QED
    BY <2>1, DaysKept, DayIsNat
<1>15. ASSUME NEW k \in Keys, FileIsLost(k) PROVE DaysInv'
  <2>1. UNCHANGED <<day, row, offloads>>
    BY <1>15 DEF FileIsLost, known
  <2>2. \A r \in Procs : proc'[r].pc = "put" => proc[r].pc = "put" /\ proc'[r].key = proc[r].key
    BY <1>15, FileIsLostEffect DEF OthersUnlinked, Idle
  <2> QED
    BY <2>1, <2>2, DaysKept, DayIsNat
<1>16. ASSUME NextDay PROVE DaysInv'
  <2>1. UNCHANGED <<row, proc, offloads>> /\ day' \in Nat /\ day <= day'
    BY <1>16 DEF NextDay, known, TypeOK, Days
  <2> QED
    BY <2>1, DaysKept, DayIsNat
<1>17. ASSUME Crash PROVE DaysInv'
  <2>1. UNCHANGED <<day, row>> /\ offloads' = {}
    BY <1>17 DEF Crash, known
  <2>2. \A r \in Procs : proc'[r].pc = "put" => proc[r].pc = "put" /\ proc'[r].key = proc[r].key
    BY <1>17 DEF Crash, Idle
  <2> QED
    BY <2>1, <2>2, DaysKept, DayIsNat
<1>18. ASSUME UNCHANGED vars PROVE DaysInv'
  <2>1. UNCHANGED <<day, row, proc, offloads>>
    BY <1>18 DEF vars, known
  <2> QED
    BY <2>1, DaysKept, DayIsNat
<1> QED
  BY ActionCases, <1>1, <1>2, <1>3, <1>4, <1>5, <1>6, <1>7, <1>8, <1>9,
     <1>10, <1>11, <1>12, <1>13, <1>14, <1>15, <1>16, <1>17, <1>18

----------------------------------------------------------------------------
(* Files *)

(* Whatever happens to other identifiers leaves the files of this one. *)
LEMMA FilesKept ==
    ASSUME TypeOK, OfferedInv, NEW i \in Ids, Files(i),
           row'[i] = row[i], current'[i] = current[i],
           \A q \in Procs :
             (Writing(q, i)' <=> Writing(q, i)) /\ (Writing(q, i) => proc'[q] = proc[q]),
           \A k \in Keys : IdOf(k) = i =>
             (k \in DOMAIN local' <=> k \in DOMAIN local) /\ (k \in DOMAIN local => local'[k] = local[k])
    PROVE  Files(i)'
<1>1. \A q \in Procs : Writing(q, i) => proc[q].key \in Keys /\ IdOf(proc[q].key) = i
  BY DEF OfferedInv, Holds, Writing
<1>2. \A q \in Procs : Writing(q, i)' /\ HasTornFile(q) => HasTornFile(q)'
  BY <1>1 DEF HasTornFile
<1>3. row[i] # None => row[i] \in Keys /\ IdOf(row[i]) = i
  BY DEF TypeOK
<1>4. \A p, q \in Procs : Writing(p, i)' /\ Writing(q, i)' => p = q
  BY DEF Files
<1>5. ASSUME NEW q \in Procs, Writing(q, i)'
      PROVE  /\ proc'[q].pc # "delete" => HasTornFile(q)'
             /\ proc'[q].pc = "fill" => proc'[q].body = current'[i]
             /\ proc'[q].pc = "delete" => proc'[q].key = row'[i] /\ row'[i] \notin DOMAIN local'
  <2>1. Writing(q, i) /\ proc'[q] = proc[q]
    BY <1>5
  <2> QED
    BY <1>1, <1>2, <1>5, <2>1 DEF Files
<1>6. ASSUME row'[i] # None,
             \A q \in Procs : Writing(q, i)' => proc'[q].pc = "fill" /\ proc'[q].key # row'[i]
      PROVE  row'[i] \in DOMAIN local' /\ local'[row'[i]] = current'[i]
  BY <1>3, <1>6 DEF Files
<1> QED
  BY <1>4, <1>5, <1>6 DEF Files

(* No step of a clean identifier tears, fills or removes a file under another's hands. *)
LEMMA FileStep ==
    ASSUME TypeOK, OfferedInv, FileInv, [Next]_vars
    PROVE  FileInv'
<1>1. ASSUME NEW p \in Procs, NEW i \in Ids, PutCreates(p, i) PROVE FileInv'
  <2>1. /\ proc[p].pc = "idle" /\ proc'[p].pc = "put" /\ OthersWait(p)
        /\ proc'[p].linked /\ proc'[p].key = <<i, day>> /\ LocalGains(<<i, day>>, Torn)
    BY <1>1, PutCreatesEffect
  <2>2. IdOf(<<i, day>>) = i
    BY KeyFacts DEF TypeOK
  <2>3. /\ overlapped' = (IF Busy(i) # {} THEN overlapped \cup {i} ELSE overlapped)
        /\ UNCHANGED <<lost, row, current>>
    BY <1>1 DEF PutCreates, Overlaps, known
  <2>4. \A j \in Ids \ {i} : \A q \in Procs :
            (Writing(q, j)' <=> Writing(q, j)) /\ (Writing(q, j) => proc'[q] = proc[q])
    BY <2>1, <2>2 DEF OthersWait, Writing
  <2>5. \A x \in Keys : IdOf(x) # i =>
            (x \in DOMAIN local' <=> x \in DOMAIN local) /\ (x \in DOMAIN local => local'[x] = local[x])
    BY <2>1, <2>2 DEF LocalGains
  <2>6. \A j \in Ids \ {i} : row'[j] = row[j] /\ current'[j] = current[j]
    BY <2>3
  <2>7. \A j \in Ids \ {i} : Clean(j)' => Files(j)'
    BY <2>1, <2>2, <2>3, <2>4, <2>5, <2>6, FilesKept DEF FileInv, Clean
  <2>8. ASSUME Clean(i)' PROVE Files(i)'
    <3>1. \A q \in Procs : ~Writing(q, i)
      BY <2>3, <2>8 DEF Clean, Busy, Writing
    <3>2. \A q \in Procs \ {p} : ~Writing(q, i)'
      BY <2>1, <3>1 DEF OthersWait, Writing
    <3>3. HasTornFile(p)' /\ proc'[p].pc = "put" /\ Writing(p, i)'
      BY <2>1, <2>2 DEF LocalGains, HasTornFile, Writing
    <3> QED
      BY <3>2, <3>3 DEF Files
  <2> QED
    BY <2>1, <2>7, <2>8 DEF FileInv
<1>2. ASSUME NEW p \in Procs, NEW i \in Ids, GetLooks(p, i) PROVE FileInv'
  <2>1. UNCHANGED <<local, row, current, overlapped, lost>>
    BY <1>2 DEF GetLooks, stores, known, history
  <2>2. \A j \in Ids : \A q \in Procs :
            (Writing(q, j)' <=> Writing(q, j)) /\ (Writing(q, j) => proc'[q] = proc[q])
    BY <1>2, GetLooksEffect DEF OthersWait, Writing
  <2> QED
    BY <2>1, <2>2, FilesKept DEF FileInv, Clean
<1>3. ASSUME NEW p \in Procs, NEW i \in Ids, DeleteLocal(p, i) PROVE FileInv'
  <2>1. row[i] \in Keys /\ IdOf(row[i]) = i
    BY <1>3, DeleteLocalEffect
  <2>2. /\ overlapped' = (IF Busy(i) # {} THEN overlapped \cup {i} ELSE overlapped)
        /\ UNCHANGED <<lost, row, current>>
    BY <1>3 DEF DeleteLocal, Overlaps, known
  <2>3. \A j \in Ids \ {i} : \A q \in Procs :
            (Writing(q, j)' <=> Writing(q, j)) /\ (Writing(q, j) => proc'[q] = proc[q])
    BY <1>3, DeleteLocalEffect DEF OthersUnlinked, Writing
  <2>4. \A x \in Keys : IdOf(x) # i =>
            (x \in DOMAIN local' <=> x \in DOMAIN local) /\ (x \in DOMAIN local => local'[x] = local[x])
    BY <1>3, DeleteLocalEffect DEF LocalLoses
  <2>5. \A j \in Ids \ {i} : row'[j] = row[j] /\ current'[j] = current[j]
    BY <2>2
  <2>6. \A j \in Ids \ {i} : Clean(j)' => Files(j)'
    BY <2>1, <2>2, <2>3, <2>4, <2>5, FilesKept DEF FileInv, Clean
  <2>7. ASSUME Clean(i)' PROVE Files(i)'
    <3>1. \A q \in Procs : ~Writing(q, i)
      BY <2>2, <2>7 DEF Clean, Busy, Writing
    <3>2. \A q \in Procs \ {p} : ~Writing(q, i)'
      BY <1>3, <3>1, DeleteLocalEffect DEF OthersUnlinked, Writing
    <3>3. proc'[p].pc = "delete" /\ proc'[p].key = row[i] /\ row[i] \notin DOMAIN local'
      BY <1>3, DeleteLocalEffect DEF LocalLoses
    <3>4. Writing(p, i)' /\ row'[i] = row[i]
      BY <2>1, <2>2, <3>3 DEF Writing
    <3> QED
      BY <3>2, <3>3, <3>4 DEF Files
  <2> QED
    BY <2>1, <2>6, <2>7 DEF FileInv
<1>4. ASSUME NEW p \in Procs, NEW i \in Ids, DeleteLocalFails(p, i) PROVE FileInv'
  <2>1. UNCHANGED local /\ lost' = lost \cup {i} /\ overlapped \subseteq overlapped'
    BY <1>4 DEF DeleteLocalFails, Overlaps, stores
  <2>2. \A j \in Ids \ {i} : \A q \in Procs :
            (Writing(q, j)' <=> Writing(q, j)) /\ (Writing(q, j) => proc'[q] = proc[q])
    BY <1>4, DeleteLocalFailsEffect, KeyFacts DEF OthersWait, Writing
  <2>3. \A j \in Ids \ {i} : row'[j] = row[j] /\ current'[j] = current[j]
    BY <1>4, DeleteLocalFailsEffect DEF DeleteLocalFails, RowDeleted, known
  <2> QED
    BY <2>1, <2>2, <2>3, FilesKept DEF FileInv, Clean
<1>5. ASSUME NEW p \in Procs, PutCopies(p) PROVE FileInv'
  <2>1. PICK i \in Ids : i = IdOf(proc[p].key)
    BY <1>5, PutCopiesEffect
  <2>2. UNCHANGED <<overlapped, lost>>
    BY <1>5 DEF PutCopies
  <2>3. \A j \in Ids \ {i} : \A q \in Procs :
            (Writing(q, j)' <=> Writing(q, j)) /\ (Writing(q, j) => proc'[q] = proc[q])
    BY <1>5, <2>1, PutCopiesEffect DEF OthersWait, Writing, Idle
  <2>4. \A x \in Keys : IdOf(x) # i =>
            (x \in DOMAIN local' <=> x \in DOMAIN local) /\ (x \in DOMAIN local => local'[x] = local[x])
    BY <1>5, <2>1, PutCopiesEffect DEF FileFilled
  <2>5. \A j \in Ids \ {i} : row'[j] = row[j] /\ current'[j] = current[j]
    BY <1>5, <2>1, PutCopiesEffect
  <2>6. \A j \in Ids \ {i} : Clean(j)' => Files(j)'
    BY <2>1, <2>2, <2>3, <2>4, <2>5, FilesKept DEF FileInv, Clean
  <2>7. ASSUME Clean(i)' PROVE Files(i)'
    <3>1. Writing(p, i) /\ proc[p].pc = "put"
      BY <1>5, <2>1 DEF PutCopies, Writing
    <3>2. Files(i)
      BY <2>1, <2>2, <2>7 DEF FileInv, Clean
    <3>3. \A q \in Procs : ~Writing(q, i)'
      BY <1>5, <2>1, <3>1, <3>2, PutCopiesEffect DEF OthersWait, Writing, Files, Idle
    <3>4. HasTornFile(p)
      BY <3>1, <3>2 DEF Files
    <3>5. proc[p].key \in DOMAIN local' /\ local'[proc[p].key] = proc[p].body
      BY <1>5, <2>1, <3>4, PutCopiesEffect DEF FileFilled, HasTornFile
    <3>6. row'[i] = proc[p].key /\ current'[i] = proc[p].body
      BY <1>5, <2>1, PutCopiesEffect
    <3> QED
      BY <3>3, <3>5, <3>6 DEF Files
  <2> QED
    BY <2>1, <2>6, <2>7 DEF FileInv
<1>6. ASSUME NEW p \in Procs, PutFails(p) PROVE FileInv'
  <2>1. IdOf(proc[p].key) \in Ids
    BY <1>6, KeyFacts DEF PutFails, OfferedInv, Holds
  <2>2. UNCHANGED local /\ lost' = lost \cup {IdOf(proc[p].key)} /\ overlapped \subseteq overlapped'
    BY <1>6 DEF PutFails, stores
  <2>3. \A j \in Ids \ {IdOf(proc[p].key)} : \A q \in Procs :
            (Writing(q, j)' <=> Writing(q, j)) /\ (Writing(q, j) => proc'[q] = proc[q])
    BY <1>6, Moves, KeyFacts DEF PutFails, OthersWait, Writing, Idle
  <2>4. \A j \in Ids \ {IdOf(proc[p].key)} : row'[j] = row[j] /\ current'[j] = current[j]
    BY <1>6, Moves DEF PutFails, RowDeleted, known
  <2> QED
    BY <2>1, <2>2, <2>3, <2>4, FilesKept DEF FileInv, Clean
<1>7. ASSUME NEW p \in Procs, GetOpens(p) PROVE FileInv'
  <2>1. UNCHANGED <<local, row, current, overlapped, lost>>
    BY <1>7 DEF GetOpens, stores, known, history
  <2>2. \A j \in Ids : \A q \in Procs :
            (Writing(q, j)' <=> Writing(q, j)) /\ (Writing(q, j) => proc'[q] = proc[q])
    BY <1>7, Moves DEF OthersWait, Writing, Idle, GetOpens
  <2> QED
    BY <2>1, <2>2, FilesKept DEF FileInv, Clean
<1>8. ASSUME NEW p \in Procs, GetFetches(p) PROVE FileInv'
  <2>1. UNCHANGED <<local, row, current, overlapped, lost>>
    BY <1>8 DEF GetFetches, stores, known, history
  <2>2. \A j \in Ids : \A q \in Procs :
            (Writing(q, j)' <=> Writing(q, j)) /\ (Writing(q, j) => proc'[q] = proc[q])
    BY <1>8, GetFetchesEffect DEF OthersWait, Writing, Idle
  <2> QED
    BY <2>1, <2>2, FilesKept DEF FileInv, Clean
<1>9. ASSUME NEW p \in Procs, CacheCreates(p) PROVE FileInv'
  <2>1. PICK i \in Ids : i = IdOf(proc[p].key)
    BY <1>9, CacheCreatesEffect
  <2>2. UNCHANGED <<lost, row, current>> /\ overlapped \subseteq overlapped'
    BY <1>9 DEF CacheCreates, known
  <2>3. \A j \in Ids \ {i} : \A q \in Procs :
            (Writing(q, j)' <=> Writing(q, j)) /\ (Writing(q, j) => proc'[q] = proc[q])
    BY <1>9, <2>1, CacheCreatesEffect DEF OthersWait, Writing
  <2>4. \A x \in Keys : IdOf(x) # i =>
            (x \in DOMAIN local' <=> x \in DOMAIN local) /\ (x \in DOMAIN local => local'[x] = local[x])
    <3>1. LocalGains(proc[p].key, Torn)
      BY <1>9, CacheCreatesEffect
    <3> QED
      BY <2>1, <3>1 DEF LocalGains
  <2>5. \A j \in Ids \ {i} : row'[j] = row[j] /\ current'[j] = current[j]
    BY <2>2
  <2>6. \A j \in Ids \ {i} : Clean(j)' => Files(j)'
    BY <2>1, <2>2, <2>3, <2>4, <2>5, FilesKept DEF FileInv, Clean
  <2>7. ASSUME Clean(i)' PROVE Files(i)'
    <3>1. Busy(i) = {p} /\ current[i] = proc[p].body
      BY <1>9, <2>1, <2>7 DEF CacheCreates, Clean
    <3>2. Files(i)
      BY <2>1, <2>2, <2>7 DEF FileInv, Clean
    <3>3. \A q \in Procs : ~Writing(q, i)
      BY <1>9, <2>1, <3>1, CacheCreatesEffect DEF Busy, Writing
    <3>4. row[i] # None => row[i] \in DOMAIN local /\ local[row[i]] = current[i]
      BY <3>2, <3>3 DEF Files
    <3>5. \A q \in Procs \ {p} : ~Writing(q, i)'
      BY <1>9, <2>1, <3>3, CacheCreatesEffect DEF OthersWait, Writing
    <3>6. HasTornFile(p)' /\ proc'[p].pc = "fill" /\ proc'[p].body = current'[i] /\ Writing(p, i)'
      BY <1>9, <2>1, <2>2, <3>1, CacheCreatesEffect DEF LocalGains, HasTornFile, Writing
    <3>7. row'[i] # None /\ proc'[p].key # row'[i] => row'[i] \in DOMAIN local' /\ local'[row'[i]] = current'[i]
      BY <1>9, <2>1, <2>2, <3>4, CacheCreatesEffect DEF LocalGains
    <3> QED
      BY <3>5, <3>6, <3>7 DEF Files
  <2> QED
    BY <2>1, <2>6, <2>7 DEF FileInv
<1>10. ASSUME NEW p \in Procs, CacheCopies(p) PROVE FileInv'
  <2>1. PICK i \in Ids : i = IdOf(proc[p].key)
    BY <1>10, CacheCopiesEffect
  <2>2. UNCHANGED <<overlapped, lost, row, current>>
    BY <1>10 DEF CacheCopies, known, history
  <2>3. \A j \in Ids \ {i} : \A q \in Procs :
            (Writing(q, j)' <=> Writing(q, j)) /\ (Writing(q, j) => proc'[q] = proc[q])
    BY <1>10, <2>1, CacheCopiesEffect DEF OthersWait, Writing, Idle
  <2>4. \A x \in Keys : IdOf(x) # i =>
            (x \in DOMAIN local' <=> x \in DOMAIN local) /\ (x \in DOMAIN local => local'[x] = local[x])
    BY <1>10, <2>1, CacheCopiesEffect DEF FileFilled
  <2>5. \A j \in Ids \ {i} : row'[j] = row[j] /\ current'[j] = current[j]
    BY <2>2
  <2>6. \A j \in Ids \ {i} : Clean(j)' => Files(j)'
    BY <2>1, <2>2, <2>3, <2>4, <2>5, FilesKept DEF FileInv, Clean
  <2>7. ASSUME Clean(i)' PROVE Files(i)'
    <3>1. Writing(p, i) /\ proc[p].pc = "fill"
      BY <1>10, <2>1 DEF CacheCopies, Writing
    <3>2. Files(i)
      BY <2>1, <2>2, <2>7 DEF FileInv, Clean
    <3>3. \A q \in Procs : (Writing(q, i) => q = p) /\ ~Writing(q, i)'
      BY <1>10, <2>1, <3>1, <3>2, CacheCopiesEffect DEF OthersWait, Writing, Files, Idle
    <3>4. HasTornFile(p) /\ proc[p].body = current[i]
      BY <3>1, <3>2 DEF Files
    <3>5. /\ proc[p].key \in DOMAIN local' /\ local'[proc[p].key] = current[i]
          /\ \A x \in DOMAIN local : x \in DOMAIN local' /\ (x # proc[p].key => local'[x] = local[x])
      BY <1>10, <2>1, <3>4, CacheCopiesEffect DEF FileFilled, HasTornFile
    <3>6. row[i] # None /\ row[i] # proc[p].key => row[i] \in DOMAIN local /\ local[row[i]] = current[i]
      BY <3>1, <3>2, <3>3 DEF Files
    <3>7. row[i] # None => row[i] \in DOMAIN local' /\ local'[row[i]] = current[i]
      BY <3>5, <3>6
    <3> QED
      BY <2>2, <3>3, <3>7 DEF Files
  <2> QED
    BY <2>1, <2>6, <2>7 DEF FileInv
<1>11. ASSUME NEW p \in Procs, DeleteRemote(p) PROVE FileInv'
  <2>1. PICK i \in Ids : i = IdOf(proc[p].key)
    BY <1>11, DeleteRemoteEffect
  <2>2. UNCHANGED <<overlapped, lost, local>>
    BY <1>11 DEF DeleteRemote, history
  <2>3. \A j \in Ids \ {i} : \A q \in Procs :
            (Writing(q, j)' <=> Writing(q, j)) /\ (Writing(q, j) => proc'[q] = proc[q])
    BY <1>11, <2>1, DeleteRemoteEffect DEF OthersWait, Writing, Idle
  <2>4. \A x \in Keys : IdOf(x) # i =>
            (x \in DOMAIN local' <=> x \in DOMAIN local) /\ (x \in DOMAIN local => local'[x] = local[x])
    BY <2>2
  <2>5. \A j \in Ids \ {i} : row'[j] = row[j] /\ current'[j] = current[j]
    BY <1>11, <2>1, DeleteRemoteEffect DEF RowDeleted
  <2>6. \A j \in Ids \ {i} : Clean(j)' => Files(j)'
    BY <2>1, <2>2, <2>3, <2>4, <2>5, FilesKept DEF FileInv, Clean
  <2>7. ASSUME Clean(i)' PROVE Files(i)'
    <3>1. Writing(p, i)
      BY <1>11, <2>1 DEF DeleteRemote, Writing
    <3>2. Files(i)
      BY <2>1, <2>2, <2>7 DEF FileInv, Clean
    <3>3. \A q \in Procs : ~Writing(q, i)'
      BY <1>11, <2>1, <3>1, <3>2, DeleteRemoteEffect DEF OthersWait, Writing, Files, Idle
    <3>4. row'[i] = None
      BY <1>11, <2>1, DeleteRemoteEffect DEF RowDeleted
    <3> QED
      BY <3>3, <3>4 DEF Files
  <2> QED
    BY <2>1, <2>6, <2>7 DEF FileInv
<1>12. ASSUME NEW p \in Procs, DeleteFails(p) PROVE FileInv'
  <2>1. IdOf(proc[p].key) \in Ids
    BY <1>12, DeleteFailsEffect, KeyFacts
  <2>2. UNCHANGED local /\ lost' = lost \cup {IdOf(proc[p].key)} /\ overlapped \subseteq overlapped'
    BY <1>12 DEF DeleteFails, stores
  <2>3. \A j \in Ids \ {IdOf(proc[p].key)} : \A q \in Procs :
            (Writing(q, j)' <=> Writing(q, j)) /\ (Writing(q, j) => proc'[q] = proc[q])
    BY <1>12, DeleteFailsEffect, KeyFacts DEF OthersWait, Writing, Idle
  <2>4. \A j \in Ids \ {IdOf(proc[p].key)} : row'[j] = row[j] /\ current'[j] = current[j]
    BY <1>12, DeleteFailsEffect DEF DeleteFails, RowDeleted, known
  <2> QED
    BY <2>1, <2>2, <2>3, <2>4, FilesKept DEF FileInv, Clean
<1>13. ASSUME NEW o \in offloads, OffloadLands(o) PROVE FileInv'
  <2>1. UNCHANGED <<local, row, current, overlapped, lost>>
    BY <1>13 DEF OffloadLands, known
  <2>2. \A j \in Ids : \A q \in Procs :
            (Writing(q, j)' <=> Writing(q, j)) /\ (Writing(q, j) => proc'[q] = proc[q])
    BY <1>13 DEF OffloadLands, Writing
  <2> QED
    BY <2>1, <2>2, FilesKept DEF FileInv, Clean
<1>14. ASSUME NEW o \in offloads, OffloadFails(o) PROVE FileInv'
  <2>1. UNCHANGED <<local, row, current, overlapped, lost>>
    BY <1>14 DEF OffloadFails, stores, known, history
  <2>2. \A j \in Ids : \A q \in Procs :
            (Writing(q, j)' <=> Writing(q, j)) /\ (Writing(q, j) => proc'[q] = proc[q])
    BY <1>14 DEF OffloadFails, Writing
  <2> QED
    BY <2>1, <2>2, FilesKept DEF FileInv, Clean
<1>15. ASSUME NEW k \in Keys, FileIsLost(k) PROVE FileInv'
  <2>1. IdOf(k) \in Ids
    BY <1>15, KeyFacts
  <2>2. UNCHANGED <<row, current, overlapped>> /\ lost' = lost \cup {IdOf(k)}
    BY <1>15 DEF FileIsLost, known
  <2>3. \A j \in Ids \ {IdOf(k)} : \A q \in Procs :
            (Writing(q, j)' <=> Writing(q, j)) /\ (Writing(q, j) => proc'[q] = proc[q])
    BY <1>15, FileIsLostEffect DEF OthersUnlinked, Writing
  <2>4. \A x \in Keys : IdOf(x) # IdOf(k) =>
            (x \in DOMAIN local' <=> x \in DOMAIN local) /\ (x \in DOMAIN local => local'[x] = local[x])
    BY <1>15, FileIsLostEffect DEF LocalLoses
  <2> QED
    BY <2>1, <2>2, <2>3, <2>4, FilesKept DEF FileInv, Clean
<1>16. ASSUME NextDay PROVE FileInv'
  <2>1. UNCHANGED <<local, row, current, overlapped, lost>>
    BY <1>16 DEF NextDay, stores, known, history
  <2>2. \A j \in Ids : \A q \in Procs :
            (Writing(q, j)' <=> Writing(q, j)) /\ (Writing(q, j) => proc'[q] = proc[q])
    BY <1>16 DEF NextDay, Writing
  <2> QED
    BY <2>1, <2>2, FilesKept DEF FileInv, Clean
<1>17. ASSUME Crash PROVE FileInv'
  <2>1. UNCHANGED <<local, row, current,
                    overlapped>> /\ lost' = lost \cup {i \in Ids : Busy(i) # {}}
    BY <1>17 DEF Crash, stores, known
  <2>2. \A j \in Ids \ lost' : \A q \in Procs : ~Writing(q, j) /\ ~Writing(q, j)'
    BY <1>17, <2>1 DEF Crash, Busy, Writing, Idle
  <2> QED
    BY <2>1, <2>2, FilesKept DEF FileInv, Clean
<1>18. ASSUME UNCHANGED vars PROVE FileInv'
  <2>1. UNCHANGED <<local, row, current, overlapped, lost>>
    BY <1>18 DEF vars, stores, known, history
  <2>2. \A j \in Ids : \A q \in Procs :
            (Writing(q, j)' <=> Writing(q, j)) /\ (Writing(q, j) => proc'[q] = proc[q])
    BY <1>18 DEF vars, Writing
  <2> QED
    BY <2>1, <2>2, FilesKept DEF FileInv, Clean
<1> QED
  BY ActionCases, <1>1, <1>2, <1>3, <1>4, <1>5, <1>6, <1>7, <1>8, <1>9,
     <1>10, <1>11, <1>12, <1>13, <1>14, <1>15, <1>16, <1>17, <1>18

----------------------------------------------------------------------------
(* Copies *)

(* A caller goes on with its Put, or begins neither a Put nor a copy. *)
SameFor(q, i) ==
    /\ proc'[q].pc = "put" /\ IdOf(proc'[q].key) = i => proc[q].pc = "put" /\ proc[q].key = proc'[q].key
    /\ proc[q].pc = "put" /\ IdOf(proc[q].key) = i => proc'[q].pc = "put" /\ proc'[q].key = proc[q].key
    /\ proc'[q].pc = "cache" /\ IdOf(proc'[q].key) = i =>
        proc[q].pc = "cache" /\ proc[q].key = proc'[q].key /\ proc[q].body = proc'[q].body

(* What adds no copy, no upload and no Put for an identifier leaves its    *)
(* copies where they may be.                                               *)
LEMMA CopiedKept ==
    ASSUME TypeOK, NEW i \in Ids, Copied(i),
           row'[i] = row[i], current'[i] = current[i],
           \A k \in Keys : IdOf(k) = i /\ k \in DOMAIN local' => k \in DOMAIN local,
           \A k \in Keys : IdOf(k) = i /\ k \in DOMAIN remote' => k \in DOMAIN remote,
           DOMAIN local' \subseteq Keys, DOMAIN remote' \subseteq Keys,
           \A u \in offloads' : IdOf(u.key) = i => u \in offloads,
           \A q \in Procs : SameFor(q, i)
    PROVE  Copied(i)'
<1>1. \A k \in DOMAIN local' : IdOf(k) = i =>
        k = row'[i] \/ \E p \in Procs : proc'[p].pc = "put" /\ proc'[p].key = k
  BY DEF Copied, SameFor
<1>2. \A k \in DOMAIN remote' : IdOf(k) = i => k = row'[i]
  BY DEF Copied
<1>3. \A p \in Procs : proc'[p].pc = "cache" /\ IdOf(proc'[p].key) = i /\ proc'[p].body = current'[i]
        => proc'[p].key = row'[i]
  BY DEF Copied, SameFor
<1>4. \A u \in offloads' : IdOf(u.key) = i =>
        /\ row'[i] # None => u.key[2] <= row'[i][2]
        /\ \A p \in Procs : proc'[p].pc = "put" /\ IdOf(proc'[p].key) = i => u.key[2] <= proc'[p].key[2]
  BY DEF Copied, SameFor
<1> QED
  BY <1>1, <1>2, <1>3, <1>4 DEF Copied

(* The keys of the stores are keys. *)
LEMMA StoreKeys == TypeOK' => DOMAIN local' \subseteq Keys /\ DOMAIN remote' \subseteq Keys
  BY DEF TypeOK

(* No step of a pure identifier leaves a copy under a key that is not its row's. *)
LEMMA CopyStep ==
    ASSUME TypeOK, OfferedInv, FreshInv, DaysInv, FileInv, CopyInv, TypeOK', [Next]_vars
    PROVE  CopyInv'
<1>1. ASSUME NEW p \in Procs, NEW i \in Ids, PutCreates(p, i) PROVE CopyInv'
  <2>1. /\ proc[p].pc = "idle" /\ proc'[p].pc = "put" /\ OthersWait(p)
        /\ proc'[p].key = <<i, day>> /\ LocalGains(<<i, day>>, Torn)
    BY <1>1, PutCreatesEffect
  <2>2. <<i, day>> \in Keys /\ IdOf(<<i, day>>) = i /\ <<i, day>>[2] = day
    BY KeyFacts DEF TypeOK
  <2>3. UNCHANGED <<row, current, remote, offloads>>
    BY <1>1 DEF PutCreates, known
  <2>4. \A j \in Ids \ {i} : row'[j] = row[j] /\ current'[j] = current[j]
    BY <2>3
  <2>5. \A x \in Keys : IdOf(x) # i /\ x \in DOMAIN local' => x \in DOMAIN local
    BY <2>1, <2>2 DEF LocalGains
  <2>6. \A j \in Ids \ {i} : \A q \in Procs : SameFor(q, j)
    BY <2>1, <2>2 DEF OthersWait, SameFor
  <2>7. \A j \in Ids : Pure(j)' => Pure(j)
    BY <1>1 DEF PutCreates, Overlaps, Pure, Clean
  <2>8. \A j \in Ids \ {i} : Pure(j)' => Copied(j)'
    BY <2>1, <2>2, <2>3, <2>4, <2>5, <2>6, <2>7, CopiedKept, StoreKeys DEF CopyInv
  <2>9. ASSUME Pure(i)' PROVE Copied(i)'
    <3>1. Pure(i) /\ Copied(i)
      BY <2>7, <2>9 DEF CopyInv
    <3>2. \A q \in Procs : ~Writing(q, i)
      BY <1>1, <2>9 DEF PutCreates, Overlaps, Pure, Clean, Busy, Writing
    <3>3. \A x \in DOMAIN local' : IdOf(x) = i =>
            x = row'[i] \/ \E q \in Procs : proc'[q].pc = "put" /\ proc'[q].key = x
      BY <2>1, <2>3, <3>1 DEF LocalGains, OthersWait, Copied
    <3>4. \A q \in Procs \ {p} : proc'[q] = proc[q] /\ ~Writing(q, i)
      BY <2>1, <3>2 DEF OthersWait
    <3>5. \A u \in offloads : u.key[2] <= proc'[p].key[2]
      BY <2>1, <2>2 DEF DaysInv
    <3>6. \A u \in offloads' : IdOf(u.key) = i =>
            /\ row'[i] # None => u.key[2] <= row'[i][2]
            /\ \A q \in Procs : proc'[q].pc = "put" /\ IdOf(proc'[q].key) = i => u.key[2] <= proc'[q].key[2]
      BY <2>3, <3>1, <3>4, <3>5 DEF Copied, Writing
    <3>7. \A q \in Procs : proc'[q].pc = "cache" /\ IdOf(proc'[q].key) = i /\ proc'[q].body = current'[i]
            => proc'[q].key = row'[i]
      BY <2>1, <2>3, <3>1, <3>4 DEF Copied
    <3> QED
      BY <2>3, <3>1, <3>3, <3>6, <3>7 DEF Copied
  <2> QED
    BY <2>1, <2>8, <2>9 DEF CopyInv
<1>2. ASSUME NEW p \in Procs, NEW i \in Ids, GetLooks(p, i) PROVE CopyInv'
  <2>1. UNCHANGED <<row, current>> /\ offloads' \subseteq offloads
    BY <1>2 DEF GetLooks, known
  <2>2. \A j \in Ids : Pure(j)' => Pure(j)
    BY <1>2 DEF GetLooks, Pure, Clean, history, Overlaps
  <2>3. DOMAIN local' \subseteq DOMAIN local
    BY <1>2, GetLooksEffect DEF GetLooks, stores
  <2>4. DOMAIN remote' \subseteq DOMAIN remote
    BY <1>2 DEF GetLooks, stores
  <2>5. \A j \in Ids : \A q \in Procs : SameFor(q, j)
    BY <1>2, GetLooksEffect DEF OthersWait, SameFor, Idle
  <2> QED
    BY <2>1, <2>2, <2>3, <2>4, <2>5, CopiedKept, StoreKeys DEF CopyInv
<1>3. ASSUME NEW p \in Procs, NEW i \in Ids, DeleteLocal(p, i) PROVE CopyInv'
  <2>1. UNCHANGED <<row, current>> /\ offloads' \subseteq offloads
    BY <1>3 DEF DeleteLocal, known
  <2>2. \A j \in Ids : Pure(j)' => Pure(j)
    BY <1>3 DEF DeleteLocal, Pure, Clean, history, Overlaps
  <2>3. DOMAIN local' \subseteq DOMAIN local
    BY <1>3, DeleteLocalEffect DEF DeleteLocal, stores, LocalLoses
  <2>4. DOMAIN remote' \subseteq DOMAIN remote
    BY <1>3 DEF DeleteLocal, stores
  <2>5. \A j \in Ids : \A q \in Procs : SameFor(q, j)
    BY <1>3, DeleteLocalEffect DEF OthersUnlinked, SameFor, Idle
  <2> QED
    BY <2>1, <2>2, <2>3, <2>4, <2>5, CopiedKept, StoreKeys DEF CopyInv
<1>4. ASSUME NEW p \in Procs, NEW i \in Ids, DeleteLocalFails(p, i) PROVE CopyInv'
  <2>1. UNCHANGED <<row, current>> /\ offloads' \subseteq offloads
    BY <1>4 DEF DeleteLocalFails, known
  <2>2. \A j \in Ids : Pure(j)' => Pure(j)
    BY <1>4 DEF DeleteLocalFails, Pure, Clean, history, Overlaps
  <2>3. DOMAIN local' \subseteq DOMAIN local
    BY <1>4, DeleteLocalFailsEffect DEF DeleteLocalFails, stores
  <2>4. DOMAIN remote' \subseteq DOMAIN remote
    BY <1>4 DEF DeleteLocalFails, stores
  <2>5. \A j \in Ids : \A q \in Procs : SameFor(q, j)
    BY <1>4, DeleteLocalFailsEffect DEF OthersWait, SameFor, Idle
  <2> QED
    BY <2>1, <2>2, <2>3, <2>4, <2>5, CopiedKept, StoreKeys DEF CopyInv
<1>5. ASSUME NEW p \in Procs, PutCopies(p) PROVE CopyInv'
  <2>1. PICK i \in Ids : i = IdOf(proc[p].key)
    BY <1>5, PutCopiesEffect
  <2>2. UNCHANGED <<remote, overlapped, lost, returned>> /\ DOMAIN local' = DOMAIN local
    BY <1>5, PutCopiesEffect DEF PutCopies, FileFilled
  <2>3. \A u \in offloads' : u \in offloads \/ u.key = proc[p].key
    BY <1>5 DEF PutCopies
  <2>4. \A j \in Ids \ {i} : row'[j] = row[j] /\ current'[j] = current[j]
    BY <1>5, <2>1, PutCopiesEffect
  <2>5. \A u \in offloads' : IdOf(u.key) # i => u \in offloads
    BY <2>1, <2>3
  <2>6. \A j \in Ids \ {i} : \A q \in Procs : SameFor(q, j)
    <3>1. proc[p].pc = "put" /\ proc'[p] = Idle /\ \A q \in Procs \ {p} : proc'[q] = proc[q]
      BY <1>5, PutCopiesEffect DEF OthersWait, PutCopies
    <3> QED
      BY <2>1, <3>1 DEF SameFor, Idle
  <2>7. \A j \in Ids : Pure(j)' => Pure(j)
    BY <1>5 DEF PutCopies, Pure, Clean
  <2>8. \A j \in Ids \ {i} : Pure(j)' => Copied(j)'
    BY <2>1, <2>2, <2>3, <2>4, <2>5, <2>6, <2>7, CopiedKept, StoreKeys DEF CopyInv
  <2>9. ASSUME Pure(i)' PROVE Copied(i)'
    <3>1. Copied(i) /\ Files(i)
      BY <2>7, <2>9 DEF CopyInv, FileInv, Pure
    <3>2. row[i] \in {None, proc[p].key}
      BY <1>5, <2>1, <2>9 DEF PutCopies, Pure
    <3>3. row'[i] = proc[p].key /\ current'[i] = proc[p].body
      BY <1>5, <2>1, PutCopiesEffect
    <3>4. proc[p].pc = "put" /\ proc'[p] = Idle /\ \A q \in Procs \ {p} : proc'[q] = proc[q]
      BY <1>5, PutCopiesEffect DEF OthersWait, PutCopies
    <3>5. \A q \in Procs : Writing(q, i) => q = p
      BY <2>1, <3>1, <3>4 DEF Files, Writing
    <3>6. DOMAIN local \subseteq Keys /\ DOMAIN remote \subseteq Keys
      BY DEF TypeOK
    <3>7. \A x \in DOMAIN local : IdOf(x) = i => x = proc[p].key
      BY <3>1, <3>2, <3>5, <3>6, KeyFacts DEF Copied, Writing
    <3>8. \A x \in DOMAIN remote : IdOf(x) = i => x = proc[p].key
      BY <3>1, <3>2, <3>6, KeyFacts DEF Copied
    <3>9. \A q \in Procs \ {p} : proc[q].body # proc[p].body
      BY <3>4 DEF FreshInv
    <3>10. \A q \in Procs : proc'[q].pc \in {"put", "cache"} => q # p
      BY <3>4 DEF Idle
    <3>11. \A u \in offloads' : IdOf(u.key) = i => u.key[2] <= proc[p].key[2]
      <4>1. proc[p].key[2] <= proc[p].key[2]
        BY <1>5, PutCopiesEffect, KeyFacts DEF Days
      <4> QED
        BY <2>1, <2>3, <3>1, <3>4, <4>1 DEF Copied
    <3>12. \A q \in Procs : ~(proc'[q].pc = "put" /\ IdOf(proc'[q].key) = i)
      BY <3>4, <3>5, <3>10 DEF Writing
    <3> QED
      BY <2>2, <3>3, <3>4, <3>7, <3>8, <3>9, <3>10, <3>11, <3>12 DEF Copied
  <2> QED
    BY <2>1, <2>8, <2>9 DEF CopyInv
<1>6. ASSUME NEW p \in Procs, PutFails(p) PROVE CopyInv'
  <2>1. PICK i \in Ids : i = IdOf(proc[p].key)
    BY <1>6, KeyFacts DEF PutFails, OfferedInv, Holds
  <2>2. UNCHANGED <<local, remote, offloads>>
    BY <1>6 DEF PutFails, stores
  <2>3. \A j \in Ids \ {i} : row'[j] = row[j] /\ current'[j] = current[j]
    BY <1>6, <2>1 DEF PutFails, RowDeleted, known
  <2>4. \A j \in Ids \ {i} : \A q \in Procs : SameFor(q, j)
    <3>1. proc[p].pc = "put" /\ proc'[p] = Idle /\ \A q \in Procs \ {p} : proc'[q] = proc[q]
      BY <1>6, Moves DEF PutFails, OthersWait
    <3> QED
      BY <2>1, <3>1 DEF SameFor, Idle
  <2>5. \A j \in Ids : Pure(j)' => Pure(j)
    BY <1>6 DEF PutFails, Pure, Clean
  <2>6. \A j \in Ids \ {i} : Pure(j)' => Copied(j)'
    BY <2>1, <2>2, <2>3, <2>4, <2>5, CopiedKept, StoreKeys DEF CopyInv
  <2>7. ASSUME Pure(i)' PROVE Copied(i)'
    BY <1>6, <2>1, <2>7 DEF PutFails, Pure, Clean
  <2> QED
    BY <2>1, <2>6, <2>7 DEF CopyInv
<1>7. ASSUME NEW p \in Procs, GetOpens(p) PROVE CopyInv'
  <2>1. UNCHANGED <<row, current>> /\ offloads' \subseteq offloads
    BY <1>7 DEF GetOpens, known
  <2>2. \A j \in Ids : Pure(j)' => Pure(j)
    BY <1>7 DEF GetOpens, Pure, Clean, history, Overlaps
  <2>3. DOMAIN local' \subseteq DOMAIN local
    BY <1>7, Moves DEF GetOpens, stores
  <2>4. DOMAIN remote' \subseteq DOMAIN remote
    BY <1>7 DEF GetOpens, stores
  <2>5. \A j \in Ids : \A q \in Procs : SameFor(q, j)
    BY <1>7, Moves DEF OthersWait, GetOpens, SameFor, Idle
  <2> QED
    BY <2>1, <2>2, <2>3, <2>4, <2>5, CopiedKept, StoreKeys DEF CopyInv
<1>8. ASSUME NEW p \in Procs, GetFetches(p) PROVE CopyInv'
  <2>1. PICK i \in Ids : i = IdOf(proc[p].key)
    BY <1>8, GetFetchesEffect, KeyFacts
  <2>2. UNCHANGED <<row, current, local, remote, offloads>>
    BY <1>8 DEF GetFetches, known, stores
  <2>3. \A j \in Ids \ {i} : row'[j] = row[j] /\ current'[j] = current[j]
    BY <2>2
  <2>4. \A j \in Ids \ {i} : \A q \in Procs : SameFor(q, j)
    BY <1>8, <2>1, GetFetchesEffect DEF OthersWait, SameFor, Idle
  <2>5. \A j \in Ids : Pure(j)' => Pure(j)
    BY <1>8 DEF GetFetches, history, Pure, Clean
  <2>6. \A j \in Ids \ {i} : Pure(j)' => Copied(j)'
    BY <2>1, <2>2, <2>3, <2>4, <2>5, CopiedKept, StoreKeys DEF CopyInv
  <2>7. ASSUME Pure(i)' PROVE Copied(i)'
    <3>1. Copied(i)
      BY <2>5, <2>7 DEF CopyInv
    <3>2. proc[p].pc = "remote" /\ proc'[p].pc # "put" /\ \A q \in Procs \ {p} : proc'[q] = proc[q]
      BY <1>8, GetFetchesEffect DEF OthersWait, Idle
    <3>3. proc'[p].pc = "cache" => proc'[p].key = row[i]
      BY <1>8, <2>1, <3>1, GetFetchesEffect DEF Copied, Idle
    <3>4. \A x \in DOMAIN local : IdOf(x) = i =>
            x = row[i] \/ \E q \in Procs : proc'[q].pc = "put" /\ proc'[q].key = x
      BY <3>1, <3>2 DEF Copied
    <3>5. \A q \in Procs : proc'[q].pc = "cache" /\ IdOf(proc'[q].key) = i /\ proc'[q].body = current[i]
            => proc'[q].key = row[i]
      BY <3>1, <3>2, <3>3 DEF Copied
    <3>6. \A u \in offloads : IdOf(u.key) = i =>
            /\ row[i] # None => u.key[2] <= row[i][2]
            /\ \A q \in Procs : proc'[q].pc = "put" /\ IdOf(proc'[q].key) = i => u.key[2] <= proc'[q].key[2]
      BY <3>1, <3>2 DEF Copied
    <3> QED
      BY <2>2, <3>1, <3>4, <3>5, <3>6 DEF Copied
  <2> QED
    BY <2>1, <2>6, <2>7 DEF CopyInv
<1>9. ASSUME NEW p \in Procs, CacheCreates(p) PROVE CopyInv'
  <2>1. PICK i \in Ids : i = IdOf(proc[p].key)
    BY <1>9, CacheCreatesEffect
  <2>2. UNCHANGED <<row, current, remote, offloads>> /\ LocalGains(proc[p].key, Torn)
    BY <1>9, CacheCreatesEffect DEF CacheCreates, known
  <2>3. \A j \in Ids \ {i} : row'[j] = row[j] /\ current'[j] = current[j]
    BY <2>2
  <2>4. \A x \in Keys : IdOf(x) # i /\ x \in DOMAIN local' => x \in DOMAIN local
    BY <2>1, <2>2 DEF LocalGains
  <2>5. \A j \in Ids \ {i} : \A q \in Procs : SameFor(q, j)
    BY <1>9, <2>1, CacheCreatesEffect DEF OthersWait, SameFor
  <2>6. \A j \in Ids : Pure(j)' => Pure(j)
    BY <1>9 DEF CacheCreates, Pure, Clean
  <2>7. \A j \in Ids \ {i} : Pure(j)' => Copied(j)'
    BY <2>1, <2>2, <2>3, <2>4, <2>5, <2>6, CopiedKept, StoreKeys DEF CopyInv
  <2>8. ASSUME Pure(i)' PROVE Copied(i)'
    <3>1. Copied(i)
      BY <2>6, <2>8 DEF CopyInv
    <3>2. current[i] = proc[p].body
      BY <1>9, <2>1, <2>8 DEF CacheCreates, Pure, Clean
    <3>3. proc[p].key = row[i]
      BY <1>9, <2>1, <3>1, <3>2, CacheCreatesEffect DEF Copied
    <3>4. proc[p].pc = "cache" /\ proc'[p].pc = "fill" /\ \A q \in Procs \ {p} : proc'[q] = proc[q]
      BY <1>9, CacheCreatesEffect DEF OthersWait
    <3>5. \A x \in DOMAIN local' : IdOf(x) = i =>
            x = row[i] \/ \E q \in Procs : proc'[q].pc = "put" /\ proc'[q].key = x
      BY <2>2, <3>1, <3>3, <3>4 DEF Copied, LocalGains
    <3>6. \A q \in Procs : proc'[q].pc = "cache" /\ IdOf(proc'[q].key) = i /\ proc'[q].body = current[i]
            => proc'[q].key = row[i]
      BY <3>1, <3>4 DEF Copied
    <3>7. \A u \in offloads : IdOf(u.key) = i =>
            /\ row[i] # None => u.key[2] <= row[i][2]
            /\ \A q \in Procs : proc'[q].pc = "put" /\ IdOf(proc'[q].key) = i => u.key[2] <= proc'[q].key[2]
      BY <3>1, <3>4 DEF Copied
    <3> QED
      BY <2>2, <3>1, <3>5, <3>6, <3>7 DEF Copied
  <2> QED
    BY <2>1, <2>7, <2>8 DEF CopyInv
<1>10. ASSUME NEW p \in Procs, CacheCopies(p) PROVE CopyInv'
  <2>1. UNCHANGED <<row, current>> /\ offloads' \subseteq offloads
    BY <1>10 DEF CacheCopies, known
  <2>2. \A j \in Ids : Pure(j)' => Pure(j)
    BY <1>10 DEF CacheCopies, Pure, Clean, history, Overlaps
  <2>3. DOMAIN local' \subseteq DOMAIN local
    BY <1>10, CacheCopiesEffect DEF CacheCopies, stores, FileFilled
  <2>4. DOMAIN remote' \subseteq DOMAIN remote
    BY <1>10 DEF CacheCopies, stores
  <2>5. \A j \in Ids : \A q \in Procs : SameFor(q, j)
    BY <1>10, CacheCopiesEffect DEF OthersWait, SameFor, Idle
  <2> QED
    BY <2>1, <2>2, <2>3, <2>4, <2>5, CopiedKept, StoreKeys DEF CopyInv
<1>11. ASSUME NEW p \in Procs, DeleteRemote(p) PROVE CopyInv'
  <2>1. PICK i \in Ids : i = IdOf(proc[p].key)
    BY <1>11, DeleteRemoteEffect
  <2>2. UNCHANGED <<local, offloads>> /\ RemoteLoses(proc[p].key) /\ RowDeleted(i)
    BY <1>11, <2>1, DeleteRemoteEffect DEF DeleteRemote
  <2>3. \A j \in Ids \ {i} : row'[j] = row[j] /\ current'[j] = current[j]
    BY <2>2 DEF RowDeleted
  <2>4. DOMAIN remote' \subseteq DOMAIN remote
    BY <2>2 DEF RemoteLoses
  <2>5. \A j \in Ids \ {i} : \A q \in Procs : SameFor(q, j)
    BY <1>11, <2>1, DeleteRemoteEffect DEF OthersWait, SameFor, Idle
  <2>6. \A j \in Ids : Pure(j)' => Pure(j)
    BY <1>11 DEF DeleteRemote, Pure, Clean, history
  <2>7. \A j \in Ids \ {i} : Pure(j)' => Copied(j)'
    BY <2>1, <2>2, <2>3, <2>4, <2>5, <2>6, CopiedKept, StoreKeys DEF CopyInv
  <2>8. ASSUME Pure(i)' PROVE Copied(i)'
    <3>1. Copied(i) /\ Files(i)
      BY <2>6, <2>8 DEF CopyInv, FileInv, Pure
    <3>2. row'[i] = None /\ current'[i] = None
      BY <2>2 DEF RowDeleted
    <3>3. proc[p].pc = "delete" /\ proc'[p] = Idle /\ \A q \in Procs \ {p} : proc'[q] = proc[q]
      BY <1>11, DeleteRemoteEffect DEF OthersWait
    <3>4. /\ \A q \in Procs : Writing(q, i) => q = p
          /\ proc[p].key = row[i] /\ row[i] \notin DOMAIN local
      BY <2>1, <3>1, <3>3 DEF Files, Writing
    <3>5. \A q \in Procs : ~(proc[q].pc = "put" /\ IdOf(proc[q].key) = i)
      BY <3>3, <3>4 DEF Writing
    <3>6. \A x \in DOMAIN local : IdOf(x) # i
      BY <3>1, <3>4, <3>5 DEF Copied
    <3>7. \A x \in DOMAIN remote' : IdOf(x) # i
      BY <2>2, <3>1, <3>4 DEF Copied, RemoteLoses
    <3>8. \A q \in Procs : proc[q].pc = "cache" /\ IdOf(proc[q].key) = i => proc[q].body # None
      BY KeyFacts DEF OfferedInv, Holds, TypeOK
    <3>9. \A q \in Procs : proc'[q].pc \in {"put", "cache"} => proc'[q] = proc[q]
      BY <3>3 DEF Idle
    <3> QED
      BY <2>2, <3>2, <3>5, <3>6, <3>7, <3>8, <3>9 DEF Copied
  <2> QED
    BY <2>1, <2>7, <2>8 DEF CopyInv
<1>12. ASSUME NEW p \in Procs, DeleteFails(p) PROVE CopyInv'
  <2>1. PICK i \in Ids : i = IdOf(proc[p].key)
    BY <1>12, DeleteFailsEffect
  <2>2. UNCHANGED <<local, remote, offloads>>
    BY <1>12 DEF DeleteFails, stores
  <2>3. \A j \in Ids \ {i} : row'[j] = row[j] /\ current'[j] = current[j]
    BY <1>12, <2>1, DeleteFailsEffect DEF DeleteFails, RowDeleted, known
  <2>4. \A j \in Ids \ {i} : \A q \in Procs : SameFor(q, j)
    <3>1. proc[p].pc = "delete" /\ proc'[p] = Idle /\ \A q \in Procs \ {p} : proc'[q] = proc[q]
      BY <1>12, DeleteFailsEffect DEF DeleteFails, OthersWait
    <3> QED
      BY <2>1, <3>1 DEF SameFor, Idle
  <2>5. \A j \in Ids : Pure(j)' => Pure(j)
    BY <1>12 DEF DeleteFails, Pure, Clean
  <2>6. \A j \in Ids \ {i} : Pure(j)' => Copied(j)'
    BY <2>1, <2>2, <2>3, <2>4, <2>5, CopiedKept, StoreKeys DEF CopyInv
  <2>7. ASSUME Pure(i)' PROVE Copied(i)'
    BY <1>12, <2>1, <2>7 DEF DeleteFails, Pure, Clean
  <2> QED
    BY <2>1, <2>6, <2>7 DEF CopyInv
<1>13. ASSUME NEW o \in offloads, OffloadLands(o) PROVE CopyInv'
  <2>1. PICK i \in Ids : i = IdOf(o.key)
    BY <1>13, OffloadEffect
  <2>2. UNCHANGED <<local, row, current, proc>> /\ offloads' \subseteq offloads
    BY <1>13 DEF OffloadLands, known
  <2>3. RemoteGains(NewKey(o), o.body) /\ IdOf(NewKey(o)) = i /\ NewKey(o)[2] = day
    BY <1>13, <2>1, OffloadEffect
  <2>4. \A j \in Ids \ {i} : row'[j] = row[j] /\ current'[j] = current[j]
    BY <2>2
  <2>5. \A x \in Keys : IdOf(x) # i /\ x \in DOMAIN remote' => x \in DOMAIN remote
    BY <2>3 DEF RemoteGains
  <2>6. \A j \in Ids \ {i} : \A q \in Procs : SameFor(q, j)
    BY <2>2 DEF SameFor
  <2>7. \A j \in Ids : Pure(j)' => Pure(j)
    BY <1>13 DEF OffloadLands, Pure, Clean
  <2>8. \A j \in Ids \ {i} : Pure(j)' => Copied(j)'
    BY <2>1, <2>2, <2>3, <2>4, <2>5, <2>6, <2>7, CopiedKept, StoreKeys DEF CopyInv
  <2>9. ASSUME Pure(i)' PROVE Copied(i)'
    <3>1. Copied(i)
      BY <2>7, <2>9 DEF CopyInv
    <3>2. NewKey(o) = o.key /\ row[i] # None
      BY <1>13, <2>1, <2>9 DEF OffloadLands, Pure
    <3>3. o.key[2] = day /\ o.key[2] <= row[i][2] /\ row[i][2] <= day
      BY <2>1, <2>3, <3>1, <3>2 DEF Copied, DaysInv
    <3>4. row[i] \in Keys /\ IdOf(row[i]) = i /\ o.key \in Keys
      BY <3>2 DEF TypeOK, Offload
    <3>5. row[i][2] = o.key[2]
      BY <3>3, <3>4, KeyFacts DEF Days
    <3>6. o.key = row[i]
      BY <2>1, <3>4, <3>5, KeyFacts
    <3>7. \A x \in DOMAIN remote' : IdOf(x) = i => x = row[i]
      BY <2>3, <3>1, <3>2, <3>6 DEF Copied, RemoteGains
    <3> QED
      BY <2>2, <3>1, <3>7 DEF Copied
  <2> QED
    BY <2>1, <2>8, <2>9 DEF CopyInv
<1>14. ASSUME NEW o \in offloads, OffloadFails(o) PROVE CopyInv'
  <2>1. UNCHANGED <<row, current>> /\ offloads' \subseteq offloads
    BY <1>14 DEF OffloadFails, known
  <2>2. \A j \in Ids : Pure(j)' => Pure(j)
    BY <1>14 DEF OffloadFails, Pure, Clean, history, Overlaps
  <2>3. DOMAIN local' \subseteq DOMAIN local
    BY <1>14 DEF OffloadFails, stores
  <2>4. DOMAIN remote' \subseteq DOMAIN remote
    BY <1>14 DEF OffloadFails, stores
  <2>5. \A j \in Ids : \A q \in Procs : SameFor(q, j)
    BY <1>14 DEF OffloadFails, SameFor, Idle
  <2> QED
    BY <2>1, <2>2, <2>3, <2>4, <2>5, CopiedKept, StoreKeys DEF CopyInv
<1>15. ASSUME NEW k \in Keys, FileIsLost(k) PROVE CopyInv'
  <2>1. UNCHANGED <<row, current>> /\ offloads' \subseteq offloads
    BY <1>15 DEF FileIsLost, known
  <2>2. \A j \in Ids : Pure(j)' => Pure(j)
    BY <1>15 DEF FileIsLost, Pure, Clean, history, Overlaps
  <2>3. DOMAIN local' \subseteq DOMAIN local
    BY <1>15, FileIsLostEffect DEF FileIsLost, stores, LocalLoses
  <2>4. DOMAIN remote' \subseteq DOMAIN remote
    BY <1>15 DEF FileIsLost, stores
  <2>5. \A j \in Ids : \A q \in Procs : SameFor(q, j)
    BY <1>15, FileIsLostEffect DEF OthersUnlinked, SameFor, Idle
  <2> QED
    BY <2>1, <2>2, <2>3, <2>4, <2>5, CopiedKept, StoreKeys DEF CopyInv
<1>16. ASSUME NextDay PROVE CopyInv'
  <2>1. UNCHANGED <<row, current>> /\ offloads' \subseteq offloads
    BY <1>16 DEF NextDay, known
  <2>2. \A j \in Ids : Pure(j)' => Pure(j)
    BY <1>16 DEF NextDay, Pure, Clean, history, Overlaps
  <2>3. DOMAIN local' \subseteq DOMAIN local
    BY <1>16 DEF NextDay, stores
  <2>4. DOMAIN remote' \subseteq DOMAIN remote
    BY <1>16 DEF NextDay, stores
  <2>5. \A j \in Ids : \A q \in Procs : SameFor(q, j)
    BY <1>16 DEF NextDay, SameFor, Idle
  <2> QED
    BY <2>1, <2>2, <2>3, <2>4, <2>5, CopiedKept, StoreKeys DEF CopyInv
<1>17. ASSUME Crash PROVE CopyInv'
  <2>1. UNCHANGED <<row, current, local, remote>> /\ offloads' = {}
    BY <1>17 DEF Crash, known, stores
  <2>2. \A j \in Ids : Pure(j)' => Pure(j) /\ Busy(j) = {}
    BY <1>17 DEF Crash, Pure, Clean
  <2>3. \A j \in Ids : Pure(j)' => \A q \in Procs : SameFor(q, j)
    BY <1>17, <2>2 DEF Crash, Busy, SameFor, Idle
  <2> QED
    BY <2>1, <2>2, <2>3, CopiedKept, StoreKeys DEF CopyInv
<1>18. ASSUME UNCHANGED vars PROVE CopyInv'
  <2>1. UNCHANGED <<row, current>> /\ offloads' \subseteq offloads
    BY <1>18 DEF vars, known
  <2>2. \A j \in Ids : Pure(j)' => Pure(j)
    BY <1>18 DEF vars, Pure, Clean, history, Overlaps
  <2>3. DOMAIN local' \subseteq DOMAIN local
    BY <1>18 DEF vars, stores
  <2>4. DOMAIN remote' \subseteq DOMAIN remote
    BY <1>18 DEF vars, stores
  <2>5. \A j \in Ids : \A q \in Procs : SameFor(q, j)
    BY <1>18 DEF vars, SameFor, Idle
  <2> QED
    BY <2>1, <2>2, <2>3, <2>4, <2>5, CopiedKept, StoreKeys DEF CopyInv
<1> QED
  BY ActionCases, <1>1, <1>2, <1>3, <1>4, <1>5, <1>6, <1>7, <1>8, <1>9,
     <1>10, <1>11, <1>12, <1>13, <1>14, <1>15, <1>16, <1>17, <1>18

----------------------------------------------------------------------------
(* Theorems *)

(* All that the theorems need, and that every step keeps. *)
StoreInv == TypeOK /\ OfferedInv /\ FreshInv /\ DaysInv /\ FileInv /\ CopyInv

(* Initially nothing is stored and nobody is at work. *)
LEMMA StoreInit == Init => StoreInv
<1> SUFFICES ASSUME Init PROVE StoreInv
  OBVIOUS
<1>1. TypeOK
  <2>1. day \in Days /\ puts \in Nat /\ faults \in Nat /\ deletes \in Nat
    BY TieredConstants DEF Init, Days
  <2>2. DOMAIN local = {} /\ DOMAIN remote = {} /\ offloads = {}
    BY DEF Init, Nothing
  <2>3. proc \in [Procs -> ProcState]
    BY States DEF Init
  <2>4. /\ row \in [Ids -> Keys \cup {None}] /\ current \in [Ids -> Bodies \cup {None}]
        /\ offered \in [Ids -> SUBSET Bodies] /\ \A i \in Ids : row[i] = None
    BY DEF Init
  <2>5. overlapped = {} /\ lost = {} /\ strayed = {} /\ returned = {}
    BY DEF Init
  <2> QED
    BY <2>1, <2>2, <2>3, <2>4, <2>5 DEF TypeOK
<1>2. \A p \in Procs : proc[p].pc = "idle" /\ proc[p].body = None
  BY DEF Init, Idle
<1>3. DOMAIN local = {} /\ DOMAIN remote = {} /\ offloads = {}
  BY DEF Init, Nothing
<1>4. \A i \in Ids : row[i] = None /\ offered[i] = {}
  BY DEF Init
<1>5. OfferedInv
  BY <1>2, <1>3, <1>4 DEF OfferedInv, Holds
<1>6. FreshInv /\ DaysInv
  BY <1>2, <1>3, <1>4 DEF FreshInv, DaysInv
<1>7. FileInv
  BY <1>2, <1>4 DEF FileInv, Files, Writing
<1>8. CopyInv
  BY <1>2, <1>3 DEF CopyInv, Copied
<1> QED
  BY <1>1, <1>5, <1>6, <1>7, <1>8 DEF StoreInv

(* Every step keeps it all. *)
LEMMA StoreStep == StoreInv /\ [Next]_vars => StoreInv'
  BY TypeStep, OfferedStep, FreshStep, DaysStep, FileStep, CopyStep DEF StoreInv

(* So it always holds. *)
LEMMA StoreInvariant == Spec => []StoreInv
  BY StoreInit, StoreStep, PTL DEF Spec

(* The store's state is well-typed: a row holds a key of its message and a *)
(* body that was put for it.                                               *)
THEOREM StoreTypes == Spec => []TypeOK
<1>1. StoreInv => TypeOK
  BY DEF StoreInv
<1> QED
  BY <1>1, StoreInvariant, PTL

(* An acknowledged body is readable under the row's key, through uploads,  *)
(* midnights and restarts, unless a file was lost or operations overlapped *)
(* (tiered.go, Put and asyncOffload).                                      *)
THEOREM AckedBodyIsReadable == Spec => []AckedIsReadable
<1>1. StoreInv => AckedIsReadable
  <2> SUFFICES ASSUME StoreInv, NEW i \in Ids,
                      row[i] # None, Busy(i) = {}, i \notin overlapped \cup lost
               PROVE  Visible(row[i]) = current[i]
    BY DEF AckedIsReadable
  <2>1. Files(i)
    BY DEF StoreInv, FileInv, Clean
  <2>2. \A p \in Procs : ~Writing(p, i)
    BY DEF Busy, Writing
  <2> QED
    BY <2>1, <2>2 DEF Files, Visible
<1> QED
  BY <1>1, StoreInvariant, PTL

(* A deleted message leaves no copy, in either tier, unless an upload or a *)
(* Get brought one after the Delete, midnight came between a Put and its   *)
(* upload, or a fault or an overlap left it (tiered.go, Delete).           *)
THEOREM LeftoverIsExplained == Spec => []LeftoverHasCause
<1>1. StoreInv => LeftoverHasCause
  <2> SUFFICES ASSUME StoreInv, NEW i \in Ids, row[i] = None, Busy(i) = {}, Pure(i)
               PROVE  Copies(i) = {}
    BY DEF LeftoverHasCause, Pure, Clean
  <2>1. Copied(i)
    BY DEF StoreInv, CopyInv
  <2>2. DOMAIN local \cup DOMAIN remote \subseteq Keys
    BY DEF StoreInv, TypeOK
  <2>3. \A p \in Procs : ~(proc[p].pc = "put" /\ IdOf(proc[p].key) = i)
    BY DEF Busy
  <2> QED
    BY <2>1, <2>2, <2>3, KeyFacts DEF Copied, Copies
<1> QED
  BY <1>1, StoreInvariant, PTL

----------------------------------------------------------------------------
(* Refinement *)

(* What is under a key in both tiers shows in the abstract store. *)
LEMMA ShowsOne ==
    ASSUME NEW k \in Keys, NEW c, Visible(k)' = c,
           \A x \in Keys \ {k} : Visible(x)' = Visible(x)
    PROVE  Store!Shows(k, c)
  BY DEF Store!Shows

(* Where nothing comes into view or goes out of it, the abstract store     *)
(* stays as it is.                                                         *)
LEMMA ShowsNone ==
    ASSUME \A x \in Keys : Visible(x)' = Visible(x)
    PROVE  UNCHANGED [k \in Keys |-> Visible(k)]
  OBVIOUS

(* A step of the abstract store, or none. *)
Simulates == Store!Next \/ UNCHANGED <<[k \in Keys |-> Visible(k)], offered>>

LEMMA SameStores ==
    ASSUME UNCHANGED <<local, remote, offered>>
    PROVE  Simulates
<1>1. \A x \in Keys : Visible(x)' = Visible(x)
  BY DEF Visible
<1> QED
  BY <1>1, ShowsNone DEF Simulates

(* A file is filled, torn by a second writer, or written in vain. *)
LEMMA FillRefines ==
    ASSUME TypeOK, NEW p \in Procs, FileFilled(p), UNCHANGED <<remote, offered>>,
           proc[p].key \in Keys, proc[p].body \in offered[IdOf(proc[p].key)]
    PROVE  Simulates
<1>1. CASE local' = local
  BY <1>1, SameStores
<1>2. CASE local' # local
  <2>1. PICK k \in Keys : k = proc[p].key
    OBVIOUS
  <2>2. /\ k \in DOMAIN local /\ DOMAIN local' = DOMAIN local
        /\ \A x \in DOMAIN local \ {k} : local'[x] = local[x]
        /\ local'[k] = proc[p].body \/ local'[k] = Torn
    BY <1>2, <2>1 DEF FileFilled
  <2>3. \A x \in Keys \ {k} : Visible(x)' = Visible(x)
    BY <2>2 DEF Visible
  <2>4. Visible(k)' = local'[k]
    BY <2>2 DEF Visible
  <2>5. CASE local'[k] = proc[p].body
    <3>1. Store!Shows(k, proc[p].body)
      BY <2>3, <2>4, <2>5, ShowsOne
    <3> QED
      BY <2>1, <3>1 DEF Store!Uncover, Store!Offered, Store!Next, Simulates
  <2>6. CASE local'[k] = Torn
    <3>1. Store!Shows(k, Torn)
      BY <2>3, <2>4, <2>6, ShowsOne
    <3> QED
      BY <2>1, <3>1 DEF Store!Rewrite, Store!Offered, Store!Next, Simulates
  <2> QED
    BY <2>2, <2>5, <2>6
<1> QED
  BY <1>1, <1>2

(* A file goes: the object behind it comes into view, if there is one. *)
LEMMA FileGone ==
    ASSUME TypeOK, OfferedInv, NEW k \in Keys, LocalLoses(k), UNCHANGED <<remote, offered>>
    PROVE  Simulates
<1>1. \A x \in Keys \ {k} : Visible(x)' = Visible(x)
  BY DEF LocalLoses, Visible
<1>2. CASE k \in DOMAIN remote
  <2>1. Visible(k)' = remote[k] /\ remote[k] \in offered[IdOf(k)]
    BY <1>2 DEF LocalLoses, Visible, OfferedInv
  <2>2. Store!Shows(k, remote[k])
    BY <1>1, <2>1, ShowsOne
  <2> QED
    BY <2>1, <2>2 DEF Store!Uncover, Store!Offered, Store!Next, Simulates
<1>3. CASE k \notin DOMAIN remote
  <2>1. Visible(k)' = None
    BY <1>3 DEF LocalLoses, Visible
  <2>2. Store!Shows(k, None)
    BY <1>1, <2>1, ShowsOne
  <2> QED
    BY <2>2 DEF Store!Remove, Store!Next, Simulates
<1> QED
  BY <1>2, <1>3

(* Every step is one of the abstract store's, or a stutter: an upload      *)
(* shows where no file hides it, and a file that goes may uncover an       *)
(* object behind it.                                                       *)
LEMMA RefinementStep ==
    ASSUME TypeOK, OfferedInv, [Next]_vars
    PROVE  Simulates
<1>1. ASSUME NEW p \in Procs, NEW i \in Ids, PutCreates(p, i) PROVE Simulates
  <2>1. /\ <<i, day>> \in Keys /\ IdOf(<<i, day>>) = i /\ puts + 1 \in Bodies
        /\ LocalGains(<<i, day>>, Torn) /\ UNCHANGED remote
    BY <1>1, PutCreatesEffect, KeyFacts DEF PutCreates, TypeOK
  <2>2. PICK k \in Keys : k = <<i, day>>
    BY <2>1
  <2>3. Visible(k)' = Torn /\ \A x \in Keys \ {k} : Visible(x)' = Visible(x)
    BY <2>1, <2>2 DEF LocalGains, Visible
  <2>4. Store!Shows(k, Torn)
    BY <2>3, ShowsOne
  <2>5. offered' = [offered EXCEPT ![IdOf(k)] = offered[IdOf(k)] \cup {puts + 1}]
    BY <1>1, <2>1, <2>2 DEF PutCreates
  <2>6. Store!Offer(k, puts + 1)
    BY <2>4, <2>5 DEF Store!Offer
  <2> QED
    BY <2>1, <2>6 DEF Store!Next, Simulates
<1>2. ASSUME NEW p \in Procs, NEW i \in Ids, GetLooks(p, i) PROVE Simulates
  BY <1>2, SameStores DEF GetLooks, stores, history
<1>3. ASSUME NEW p \in Procs, NEW i \in Ids, DeleteLocal(p, i) PROVE Simulates
  <2>1. row[i] \in Keys /\ LocalLoses(row[i]) /\ UNCHANGED <<remote, offered>>
    BY <1>3, DeleteLocalEffect DEF DeleteLocal
  <2>2. PICK x \in Keys : x = row[i]
    BY <2>1
  <2> QED
    BY <2>1, <2>2, FileGone
<1>4. ASSUME NEW p \in Procs, NEW i \in Ids, DeleteLocalFails(p, i) PROVE Simulates
  BY <1>4, SameStores DEF DeleteLocalFails, stores
<1>5. ASSUME NEW p \in Procs, PutCopies(p) PROVE Simulates
  <2>1. /\ FileFilled(p) /\ UNCHANGED <<remote, offered>>
        /\ proc[p].key \in Keys /\ proc[p].body \in offered[IdOf(proc[p].key)]
    BY <1>5, PutCopiesEffect DEF PutCopies
  <2> QED
    BY <2>1, FillRefines
<1>6. ASSUME NEW p \in Procs, PutFails(p) PROVE Simulates
  BY <1>6, SameStores DEF PutFails, stores
<1>7. ASSUME NEW p \in Procs, GetOpens(p) PROVE Simulates
  BY <1>7, SameStores DEF GetOpens, stores, history
<1>8. ASSUME NEW p \in Procs, GetFetches(p) PROVE Simulates
  BY <1>8, SameStores DEF GetFetches, stores, history
<1>9. ASSUME NEW p \in Procs, CacheCreates(p) PROVE Simulates
  <2>1. /\ proc[p].key \in Keys /\ offered[IdOf(proc[p].key)] # {}
        /\ LocalGains(proc[p].key, Torn) /\ UNCHANGED <<remote, offered>>
    BY <1>9, CacheCreatesEffect DEF CacheCreates
  <2>2. PICK k \in Keys : k = proc[p].key
    BY <2>1
  <2>3. Visible(k)' = Torn /\ \A x \in Keys \ {k} : Visible(x)' = Visible(x)
    BY <2>1, <2>2 DEF LocalGains, Visible
  <2>4. Store!Shows(k, Torn)
    BY <2>3, ShowsOne
  <2>5. Store!Rewrite(k)
    BY <2>1, <2>2, <2>4 DEF Store!Rewrite, Store!Offered
  <2> QED
    BY <2>5 DEF Store!Next, Simulates
<1>10. ASSUME NEW p \in Procs, CacheCopies(p) PROVE Simulates
  <2>1. /\ FileFilled(p) /\ UNCHANGED <<remote, offered>>
        /\ proc[p].key \in Keys /\ proc[p].body \in offered[IdOf(proc[p].key)]
    BY <1>10, CacheCopiesEffect DEF CacheCopies, history
  <2> QED
    BY <2>1, FillRefines
<1>11. ASSUME NEW p \in Procs, DeleteRemote(p) PROVE Simulates
  <2>1. proc[p].key \in Keys /\ RemoteLoses(proc[p].key) /\ UNCHANGED <<local, offered>>
    BY <1>11, DeleteRemoteEffect DEF DeleteRemote, history
  <2>2. PICK k \in Keys : k = proc[p].key
    BY <2>1
  <2>3. \A x \in Keys \ {k} : Visible(x)' = Visible(x)
    BY <2>1, <2>2 DEF RemoteLoses, Visible
  <2>4. CASE k \in DOMAIN local
    <3>1. Visible(k)' = Visible(k)
      BY <2>1, <2>4 DEF Visible
    <3> QED
      BY <2>1, <2>3, <3>1, ShowsNone DEF Simulates
  <2>5. CASE k \notin DOMAIN local
    <3>1. Visible(k)' = None
      BY <2>1, <2>2, <2>5 DEF Visible, RemoteLoses
    <3>2. Store!Shows(k, None)
      BY <2>3, <3>1, ShowsOne
    <3> QED
      BY <2>1, <3>2 DEF Store!Remove, Store!Next, Simulates
  <2> QED
    BY <2>4, <2>5
<1>12. ASSUME NEW p \in Procs, DeleteFails(p) PROVE Simulates
  BY <1>12, SameStores DEF DeleteFails, stores
<1>13. ASSUME NEW o \in offloads, OffloadLands(o) PROVE Simulates
  <2>1. /\ NewKey(o) \in Keys /\ IdOf(NewKey(o)) = IdOf(o.key)
        /\ RemoteGains(NewKey(o), o.body) /\ UNCHANGED <<local, offered>>
    BY <1>13, OffloadEffect DEF OffloadLands
  <2>2. PICK k \in Keys : k = NewKey(o)
    BY <2>1
  <2>3. \A x \in Keys \ {k} : Visible(x)' = Visible(x)
    BY <2>1, <2>2 DEF RemoteGains, Visible
  <2>4. CASE k \in DOMAIN local
    <3>1. Visible(k)' = Visible(k)
      BY <2>1, <2>4 DEF Visible
    <3> QED
      BY <2>1, <2>3, <3>1, ShowsNone DEF Simulates
  <2>5. CASE k \notin DOMAIN local
    <3>1. Visible(k)' = o.body
      BY <2>1, <2>2, <2>5 DEF Visible, RemoteGains
    <3>2. Store!Shows(k, o.body)
      BY <2>3, <3>1, ShowsOne
    <3>3. o.body \in offered[IdOf(k)]
      BY <2>1, <2>2 DEF OfferedInv
    <3> QED
      BY <2>1, <3>2, <3>3 DEF Store!Uncover, Store!Offered, Store!Next, Simulates
  <2> QED
    BY <2>4, <2>5
<1>14. ASSUME NEW o \in offloads, OffloadFails(o) PROVE Simulates
  BY <1>14, SameStores DEF OffloadFails, stores, history
<1>15. ASSUME NEW k \in Keys, FileIsLost(k) PROVE Simulates
  <2>1. LocalLoses(k) /\ UNCHANGED <<remote, offered>>
    BY <1>15, FileIsLostEffect DEF FileIsLost
  <2> QED
    BY <2>1, FileGone
<1>16. ASSUME NextDay PROVE Simulates
  BY <1>16, SameStores DEF NextDay, stores, history
<1>17. ASSUME Crash PROVE Simulates
  BY <1>17, SameStores DEF Crash, stores
<1>18. ASSUME UNCHANGED vars PROVE Simulates
  BY <1>18, SameStores DEF vars, stores, history
<1> QED
  BY ActionCases, <1>1, <1>2, <1>3, <1>4, <1>5, <1>6, <1>7, <1>8, <1>9,
     <1>10, <1>11, <1>12, <1>13, <1>14, <1>15, <1>16, <1>17, <1>18

(* The directory and the bucket together are one object store, whatever    *)
(* the tiers, the races, the faults and the days do (tiered.go).           *)
THEOREM TieredStoreIsAnObjectStore == Spec => IsAnObjectStore
<1>1. Init => Store!Init
  <2> SUFFICES ASSUME Init PROVE Store!Init
    OBVIOUS
  <2>1. \A k \in Keys : Visible(k) = None
    BY DEF Init, Nothing, Visible
  <2>2. \A i \in DOMAIN offered : offered[i] = {}
    BY DEF Init
  <2> QED
    BY <2>1, <2>2 DEF Store!Init
<1>2. StoreInv /\ [Next]_vars => [Store!Next]_<<[k \in Keys |-> Visible(k)], offered>>
  BY RefinementStep DEF StoreInv, Simulates
<1> QED
  BY <1>1, <1>2, StoreInvariant, PTL DEF Spec, IsAnObjectStore, Store!Spec

=============================================================================
