---------------------------- MODULE TieredStore ----------------------------
(***************************************************************************)
(* The tiered payload store: a directory in front of an S3 bucket          *)
(* (tiered.go, filesystem.go, s3.go).  Put writes the file and leaves a    *)
(* timer that uploads the body later; Get prefers the file and may keep a  *)
(* copy of what it fetched; Delete removes the file and then the object.   *)
(*                                                                         *)
(* A key is the identifier and the day it was made: Put makes it from its  *)
(* own clock, and so does the upload, later.                               *)
(***************************************************************************)
EXTENDS Naturals, Functions

CONSTANTS
    Ids, Procs,
    LocalCache,   \* the configuration's local_cache
    None, Torn,
    MaxDay,       \* bound: days
    MaxPuts,      \* bound: calls of Put
    MaxFaults,    \* bound: crashes, failed calls, files lost
    MaxDeletes    \* bound: calls of Delete

VARIABLES
    day,
    local,      \* the files there are
    remote,     \* the objects there are
    offloads,   \* timers of asyncOffload
    proc,       \* the callers' operations under way
    row,        \* the key each message's row holds
    current,    \* the body of the Put that gave it
    puts, faults, deletes,
    offered,    \* history: the bodies given to Put
    overlapped, \* history: identifiers two operations changed at once
    lost,       \* history: identifiers a file of which was lost
    strayed,    \* history: identifiers with a copy under another day's key
    returned    \* history: identifiers with a copy made after their Delete

stores == <<local, remote>>
known == <<row, current>>
bounds == <<puts, faults, deletes>>
history == <<offered, overlapped, lost, strayed, returned>>
vars == <<day, stores, offloads, proc, known, bounds, history>>

Days == 1 .. MaxDay
Bodies == 1 .. MaxPuts
Keys == Ids \X Days
IdOf(k) == k[1]

ASSUME TieredConstants ==
    /\ LocalCache \in BOOLEAN /\ None \notin Bodies \cup Keys /\ Torn \notin Bodies
    /\ MaxDay \in Nat \ {0} /\ MaxPuts \in Nat /\ MaxFaults \in Nat /\ MaxDeletes \in Nat

ProcState == [pc : {"idle", "put", "open", "remote", "cache", "fill", "delete"},
              key : Keys \cup {None}, body : Bodies \cup {None}, linked : BOOLEAN]

Offload == [key : Keys, body : Bodies]

TypeOK ==
    /\ day \in Days
    /\ DOMAIN local \subseteq Keys /\ \A k \in DOMAIN local : local[k] \in Bodies \cup {Torn}
    /\ DOMAIN remote \subseteq Keys /\ \A k \in DOMAIN remote : remote[k] \in Bodies
    /\ offloads \subseteq Offload
    /\ proc \in [Procs -> ProcState]
    /\ row \in [Ids -> Keys \cup {None}] /\ current \in [Ids -> Bodies \cup {None}]
    /\ \A i \in Ids : row[i] # None => IdOf(row[i]) = i /\ current[i] \in offered[i]
    /\ puts \in Nat /\ faults \in Nat /\ deletes \in Nat
    /\ offered \in [Ids -> SUBSET Bodies]
    /\ overlapped \subseteq Ids /\ lost \subseteq Ids /\ strayed \subseteq Ids /\ returned \subseteq Ids

Idle == [pc |-> "idle", key |-> None, body |-> None, linked |-> FALSE]
Nothing == [k \in {} |-> None]

Init ==
    /\ day = 1 /\ local = Nothing /\ remote = Nothing /\ offloads = {}
    /\ proc = [p \in Procs |-> Idle]
    /\ row = [i \in Ids |-> None] /\ current = [i \in Ids |-> None]
    /\ puts = 0 /\ faults = 0 /\ deletes = 0
    /\ offered = [i \in Ids |-> {}]
    /\ overlapped = {} /\ lost = {} /\ strayed = {} /\ returned = {}

With(store, k, content) == [x \in DOMAIN store \cup {k} |-> IF x = k THEN content ELSE store[x]]
Without(store, k) == Restrict(store, DOMAIN store \ {k})

Busy(i) == {p \in Procs : proc[p].pc # "idle" /\ IdOf(proc[p].key) = i}

Becomes(p, state) == proc' = [proc EXCEPT ![p] = state]

\* An operation that changes the stores begins: noted when another is under way.
Overlaps(i) == overlapped' = IF Busy(i) # {} THEN overlapped \cup {i} ELSE overlapped

----------------------------------------------------------------------------
(* Put *)

\* os.Create truncates the file that has the name.
PutCreates(p, i) ==
    LET k == <<i, day>>
        b == puts + 1 IN
    /\ proc[p].pc = "idle" /\ puts < MaxPuts
    /\ puts' = puts + 1
    /\ offered' = [offered EXCEPT ![i] = @ \cup {b}]
    /\ local' = With(local, k, Torn)
    /\ Becomes(p, [pc |-> "put", key |-> k, body |-> b, linked |-> TRUE])
    /\ Overlaps(i)
    /\ UNCHANGED <<day, remote, offloads, known, faults, deletes, lost, strayed, returned>>

\* Writers of one file write over each other; one that was removed is written in vain.
Filled(p) ==
    LET k == proc[p].key IN
    IF ~proc[p].linked \/ k \notin DOMAIN local THEN {local}
    ELSE {With(local, k, c) : c \in {proc[p].body} \cup (IF local[k] = Torn THEN {} ELSE {Torn})}

\* The caller stores the key in the row; the upload waits for its timer.
PutCopies(p) ==
    LET k == proc[p].key
        i == IdOf(k) IN
    /\ proc[p].pc = "put"
    /\ local' \in Filled(p)
    /\ offloads' = offloads \cup {[key |-> k, body |-> proc[p].body]}
    /\ row' = [row EXCEPT ![i] = k] /\ current' = [current EXCEPT ![i] = proc[p].body]
    /\ strayed' = IF row[i] \notin {None, k} THEN strayed \cup {i} ELSE strayed
    /\ Becomes(p, Idle)
    /\ UNCHANGED <<day, remote, bounds, offered, overlapped, lost, returned>>

PutFails(p) ==
    /\ proc[p].pc = "put" /\ faults < MaxFaults
    /\ faults' = faults + 1
    /\ lost' = lost \cup {IdOf(proc[p].key)}
    /\ Becomes(p, Idle)
    /\ UNCHANGED <<day, stores, offloads, known, puts, deletes, offered, overlapped, strayed, returned>>

----------------------------------------------------------------------------
(* asyncOffload *)

NewKey(o) == <<IdOf(o.key), day>>

\* Mutant: the upload reads the file when its timer ends.
OffloadReadsFile(o) ==
    /\ o \in offloads
    /\ offloads' = offloads \ {o}
    /\ remote' = With(remote, NewKey(o), IF o.key \in DOMAIN local THEN local[o.key] ELSE o.body)
    /\ strayed' = IF NewKey(o) # o.key THEN strayed \cup {IdOf(o.key)} ELSE strayed
    /\ returned' = IF row[IdOf(o.key)] = None THEN returned \cup {IdOf(o.key)} ELSE returned
    /\ UNCHANGED <<day, local, proc, known, bounds, offered, overlapped, lost>>

\* Mutant: the file is moved to the bucket, as the manual has it.
OffloadMoves(o) ==
    /\ o \in offloads
    /\ offloads' = offloads \ {o}
    /\ remote' = With(remote, NewKey(o), o.body)
    /\ local' = Without(local, o.key)
    /\ strayed' = IF NewKey(o) # o.key THEN strayed \cup {IdOf(o.key)} ELSE strayed
    /\ returned' = IF row[IdOf(o.key)] = None THEN returned \cup {IdOf(o.key)} ELSE returned
    /\ UNCHANGED <<day, proc, known, bounds, offered, overlapped, lost>>

\* The body goes where the day of the upload puts it.
OffloadLands(o) ==
    /\ o \in offloads
    /\ offloads' = offloads \ {o}
    /\ remote' = With(remote, NewKey(o), o.body)
    /\ strayed' = IF NewKey(o) # o.key THEN strayed \cup {IdOf(o.key)} ELSE strayed
    /\ returned' = IF row[IdOf(o.key)] = None THEN returned \cup {IdOf(o.key)} ELSE returned
    /\ UNCHANGED <<day, local, proc, known, bounds, offered, overlapped, lost>>

\* Its error is discarded and nothing tries again.
OffloadFails(o) ==
    /\ o \in offloads /\ faults < MaxFaults
    /\ faults' = faults + 1
    /\ offloads' = offloads \ {o}
    /\ UNCHANGED <<day, stores, proc, known, puts, deletes, history>>

----------------------------------------------------------------------------
(* Get *)

GetLooks(p, i) ==
    /\ proc[p].pc = "idle" /\ row[i] # None
    /\ Becomes(p, [Idle EXCEPT !.pc = IF row[i] \in DOMAIN local THEN "open" ELSE "remote",
                               !.key = row[i]])
    /\ UNCHANGED <<day, stores, offloads, known, bounds, history>>

\* A file that went away after Exists is an error, whatever the bucket has.
GetOpens(p) ==
    /\ proc[p].pc = "open"
    /\ Becomes(p, Idle)
    /\ UNCHANGED <<day, stores, offloads, known, bounds, history>>

\* The object, or an error.
GetFetches(p) ==
    LET k == proc[p].key IN
    /\ proc[p].pc = "remote"
    /\ Becomes(p, IF k \in DOMAIN remote /\ LocalCache
                  THEN [pc |-> "cache", key |-> k, body |-> remote[k], linked |-> FALSE]
                  ELSE Idle)
    /\ UNCHANGED <<day, stores, offloads, known, bounds, history>>

\* writeLocalCachedObject truncates the file ...
CacheCreates(p) ==
    LET k == proc[p].key
        i == IdOf(k) IN
    /\ proc[p].pc = "cache"
    /\ local' = With(local, k, Torn)
    /\ overlapped' = IF Busy(i) # {p} \/ current[i] # proc[p].body THEN overlapped \cup {i} ELSE overlapped
    /\ returned' = IF row[i] = None THEN returned \cup {i} ELSE returned
    /\ Becomes(p, [proc[p] EXCEPT !.pc = "fill", !.linked = TRUE])
    /\ UNCHANGED <<day, remote, offloads, known, bounds, offered, lost, strayed>>

\* ... and writes it.
CacheCopies(p) ==
    /\ proc[p].pc = "fill"
    /\ local' \in Filled(p)
    /\ Becomes(p, Idle)
    /\ UNCHANGED <<day, remote, offloads, known, bounds, history>>

----------------------------------------------------------------------------
(* Delete *)

Unlinked(k) == [q \in Procs |-> IF proc[q].key = k THEN [proc[q] EXCEPT !.linked = FALSE] ELSE proc[q]]

\* Mutant: the emptied directories are removed with what is in them.
DeleteDay(p, i) ==
    /\ proc[p].pc = "idle" /\ row[i] # None /\ deletes < MaxDeletes
    /\ deletes' = deletes + 1
    /\ local' = Restrict(local, {k \in DOMAIN local : k[2] # row[i][2]})
    /\ proc' = [Unlinked(row[i]) EXCEPT ![p] = [Idle EXCEPT !.pc = "delete", !.key = row[i]]]
    /\ Overlaps(i)
    /\ UNCHANGED <<day, remote, offloads, known, puts, faults, offered, lost, strayed, returned>>

DeleteLocal(p, i) ==
    /\ proc[p].pc = "idle" /\ row[i] # None /\ deletes < MaxDeletes
    /\ deletes' = deletes + 1
    /\ local' = Without(local, row[i])
    /\ proc' = [Unlinked(row[i]) EXCEPT ![p] = [Idle EXCEPT !.pc = "delete", !.key = row[i]]]
    /\ Overlaps(i)
    /\ UNCHANGED <<day, remote, offloads, known, puts, faults, offered, lost, strayed, returned>>

\* Its error is discarded: the file stays.
DeleteLocalFails(p, i) ==
    /\ proc[p].pc = "idle" /\ row[i] # None /\ deletes < MaxDeletes /\ faults < MaxFaults
    /\ deletes' = deletes + 1 /\ faults' = faults + 1
    /\ lost' = lost \cup {i}
    /\ Becomes(p, [Idle EXCEPT !.pc = "delete", !.key = row[i]])
    /\ Overlaps(i)
    /\ UNCHANGED <<day, stores, offloads, known, puts, offered, strayed, returned>>

\* Mutant: an object whose file was there is not looked for in the bucket.
DeleteOneTier(p) ==
    LET i == IdOf(proc[p].key) IN
    /\ proc[p].pc = "delete"
    /\ row' = [row EXCEPT ![i] = None] /\ current' = [current EXCEPT ![i] = None]
    /\ Becomes(p, Idle)
    /\ UNCHANGED <<day, stores, offloads, bounds, history>>

\* The caller then deletes the row.
DeleteRemote(p) ==
    LET k == proc[p].key
        i == IdOf(k) IN
    /\ proc[p].pc = "delete"
    /\ remote' = Without(remote, k)
    /\ row' = [row EXCEPT ![i] = None] /\ current' = [current EXCEPT ![i] = None]
    /\ Becomes(p, Idle)
    /\ UNCHANGED <<day, local, offloads, bounds, history>>

\* The admin API keeps the row, the sweeper deletes it all the same.
DeleteFails(p) ==
    LET i == IdOf(proc[p].key) IN
    /\ proc[p].pc = "delete" /\ faults < MaxFaults
    /\ faults' = faults + 1
    /\ lost' = lost \cup {i}
    /\ \/ UNCHANGED known
       \/ row' = [row EXCEPT ![i] = None] /\ current' = [current EXCEPT ![i] = None]
    /\ Becomes(p, Idle)
    /\ UNCHANGED <<day, stores, offloads, puts, deletes, offered, overlapped, strayed, returned>>

----------------------------------------------------------------------------
(* Time and faults *)

NextDay ==
    /\ day < MaxDay
    /\ day' = day + 1
    /\ UNCHANGED <<stores, offloads, proc, known, bounds, history>>

\* The disk is replaced, another node serves the request, an operator makes room.
FileIsLost(k) ==
    /\ k \in DOMAIN local /\ faults < MaxFaults
    /\ faults' = faults + 1
    /\ local' = Without(local, k)
    /\ proc' = Unlinked(k)
    /\ lost' = lost \cup {IdOf(k)}
    /\ UNCHANGED <<day, remote, offloads, known, puts, deletes, offered, overlapped, strayed, returned>>

\* The timers and the operations under way are gone.
Crash ==
    /\ faults < MaxFaults
    /\ faults' = faults + 1
    /\ lost' = lost \cup {i \in Ids : Busy(i) # {}}
    /\ offloads' = {} /\ proc' = [p \in Procs |-> Idle]
    /\ UNCHANGED <<day, stores, known, puts, deletes, offered, overlapped, strayed, returned>>

Next ==
    \/ NextDay \/ Crash \/ \E k \in Keys : FileIsLost(k)
    \/ \E o \in offloads : OffloadLands(o) \/ OffloadFails(o)
    \/ \E p \in Procs :
        \/ \E i \in Ids : PutCreates(p, i) \/ GetLooks(p, i) \/ DeleteLocal(p, i) \/ DeleteLocalFails(p, i)
        \/ PutCopies(p) \/ PutFails(p)
        \/ GetOpens(p) \/ GetFetches(p) \/ CacheCreates(p) \/ CacheCopies(p)
        \/ DeleteRemote(p) \/ DeleteFails(p)

Spec == Init /\ [][Next]_vars

----------------------------------------------------------------------------
(* Properties *)

\* What a Get that runs alone finds.
Visible(k) ==
    IF k \in DOMAIN local THEN local[k]
    ELSE IF k \in DOMAIN remote THEN remote[k] ELSE None

Copies(i) == {k \in DOMAIN local \cup DOMAIN remote : IdOf(k) = i}

\* The key in a row leads to the body of the Put that gave it, through every upload,
\* midnight and restart, unless a file was lost or left half written, or two
\* operations on the message overlapped (tiered.go, Put and asyncOffload).
AckedIsReadable ==
    \A i \in Ids : row[i] # None /\ Busy(i) = {} /\ i \notin overlapped \cup lost
        => Visible(row[i]) = current[i]

\* A copy of a deleted message was uploaded or cached after the Delete, or lies
\* under another day's key, or a fault or an overlap left it (Delete).
LeftoverHasCause ==
    \A i \in Ids : row[i] = None /\ Busy(i) = {} /\ Copies(i) # {}
        => i \in returned \cup strayed \cup lost \cup overlapped

\* Whatever the tiers, the races and the faults do, nobody reads another message's
\* body or one that nobody put, and each step changes what is read under one key.
Store == INSTANCE ObjectStore WITH visible <- [k \in Keys |-> Visible(k)]

IsAnObjectStore == Store!Spec
=============================================================================
