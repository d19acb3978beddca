--------------------------- MODULE BillingExport ---------------------------
(***************************************************************************)
(* The CDR exporter: at each tick it lists the messages received after the *)
(* watermark, writes them to a file, and moves the watermark (exporter.go, *)
(* ListMessagesAfter in sql.go).  Beside it, CreateMessage stamps each row  *)
(* and then inserts it, rows are deleted, cdrc collects the files, and the *)
(* process crashes and starts again.                                       *)
(*                                                                         *)
(* A file is known by its name: the minute it was written in and a number  *)
(* that starts again with the process.                                     *)
(***************************************************************************)
EXTENDS Naturals, FiniteSets, Functions

CONSTANTS
    Msgs,
    ExportLimit,    \* rows of one export
    MinuteLength,   \* clock ticks of a minute
    MaxTime,        \* bound: clock
    MaxCrashes,     \* bound: crashes
    MaxErrors       \* bound: failed writes

VARIABLES
    now,
    received,    \* ReceivedAt of each message, 0 before it is stamped
    row,         \* whether it is in the messages table
    exporter,    \* the goroutine: what it read and is about to write
    watermark,   \* the .watermark file: a time, 0 when missing or unreadable
    files,       \* the export directory: the rows of each file there is
    collected,   \* the messages in the files cdrc took
    crashes, errors,
    written,     \* history: how often a message was written to a finished file
    late, tied,  \* history: inserted behind a listing; at its limit's time
    replays      \* history: watermarks not written after their file

table == <<received, row>>
disk == <<watermark, files>>
bounds == <<now, crashes, errors>>
history == <<written, late, tied, replays>>
vars == <<table, exporter, disk, collected, bounds, history>>

Times == 0 .. MaxTime
Names == Nat \X Nat
NoFile == <<0, 0>>

ASSUME BillingConstants ==
    /\ ExportLimit \in Nat \ {0} /\ MinuteLength \in Nat \ {0}
    /\ MaxTime \in Nat \ {0} /\ MaxCrashes \in Nat /\ MaxErrors \in Nat

ExporterState == [pc : {"wait", "list", "write", "mark"}, after : Times, batch : SUBSET Msgs,
                  last : Times, file : Names \cup {NoFile}, seq : Nat]

TypeOK ==
    /\ now \in Times /\ crashes \in Nat /\ errors \in Nat
    /\ received \in [Msgs -> Times]
    /\ row \in [Msgs -> {"none", "there", "deleted"}]
    /\ exporter \in ExporterState
    /\ exporter.pc \in {"write", "mark"} => exporter.batch # {} /\ exporter.last > exporter.after
    /\ watermark \in Times
    /\ DOMAIN files \subseteq Names /\ \A f \in DOMAIN files : files[f] \subseteq Msgs
    /\ collected \subseteq Msgs /\ written \in [Msgs -> Nat]
    /\ late \subseteq Msgs /\ tied \subseteq Msgs /\ replays \in Nat

Idle == [pc |-> "wait", after |-> 0, batch |-> {}, last |-> 0, file |-> NoFile, seq |-> 0]

Init ==
    /\ now = 1 /\ crashes = 0 /\ errors = 0
    /\ received = [m \in Msgs |-> 0] /\ row = [m \in Msgs |-> "none"]
    /\ exporter = Idle
    /\ watermark = 0 /\ files = [f \in {} |-> {}]
    /\ collected = {} /\ written = [m \in Msgs |-> 0]
    /\ late = {} /\ tied = {} /\ replays = 0

----------------------------------------------------------------------------
(* The rest of the server *)

Tick ==
    /\ now < MaxTime
    /\ now' = now + 1
    /\ UNCHANGED <<table, exporter, disk, collected, crashes, errors, history>>

\* CreateMessage stamps a row ...
StampMessage(m) ==
    /\ received[m] = 0
    /\ received' = [received EXCEPT ![m] = now]
    /\ UNCHANGED <<row, exporter, disk, collected, bounds, history>>

\* ... and the insert takes effect when the database has it, perhaps after one that
\* was stamped later.  Behind is the time up to which an export has listed.
Behind == IF exporter.pc \in {"write", "mark"} THEN exporter.last ELSE watermark

CreateMessage(m) ==
    /\ received[m] # 0 /\ row[m] = "none"
    /\ row' = [row EXCEPT ![m] = "there"]
    /\ late' = IF received[m] <= Behind THEN late \cup {m} ELSE late
    /\ UNCHANGED <<received, exporter, disk, collected, bounds, written, tied, replays>>

DeleteMessage(m) ==
    /\ row[m] = "there"
    /\ row' = [row EXCEPT ![m] = "deleted"]
    /\ UNCHANGED <<received, exporter, disk, collected, bounds, history>>

\* cdrc takes a finished file out of the directory.
Collect(f) ==
    /\ ~(exporter.pc = "write" /\ exporter.file = f)
    /\ files' = Restrict(files, DOMAIN files \ {f})
    /\ collected' = collected \cup files[f]
    /\ UNCHANGED <<table, exporter, watermark, bounds, history>>

----------------------------------------------------------------------------
(* The exporter *)

\* Mutant: Run returns when an export failed.
ReadWatermarkUntilError ==
    /\ exporter.pc = "wait" /\ errors = 0
    /\ exporter' = [exporter EXCEPT !.pc = "list", !.after = watermark]
    /\ UNCHANGED <<table, disk, collected, bounds, history>>

\* A tick of Run's ticker.  Without a readable watermark it starts from the beginning.
ReadWatermark ==
    /\ exporter.pc = "wait"
    /\ exporter' = [exporter EXCEPT !.pc = "list", !.after = watermark]
    /\ UNCHANGED <<table, disk, collected, bounds, history>>

\* Mutant: the watermark's own row again.
AfterOrAt(t) == {m \in Msgs : row[m] = "there" /\ received[m] >= t}

After(t) == {m \in Msgs : row[m] = "there" /\ received[m] > t}

Latest(S) == CHOOSE t \in {received[m] : m \in S} : \A m \in S : received[m] <= t

\* Mutant: the newest rows first, as ListMessages does.
NewestRows(S, limit) ==
    {B \in SUBSET S :
        /\ Cardinality(B) = IF Cardinality(S) < limit THEN Cardinality(S) ELSE limit
        /\ \A m \in B, n \in S \ B : received[m] >= received[n]}

\* The first rows by received_at; the order within one time is the database's.
FirstRows(S, limit) ==
    {B \in SUBSET S :
        /\ Cardinality(B) = IF Cardinality(S) < limit THEN Cardinality(S) ELSE limit
        /\ \A m \in B, n \in S \ B : received[m] <= received[n]}

\* Mutant: a name without the number.
MinuteOnly == <<now \div MinuteLength, 1>>

NextFilename == <<now \div MinuteLength, exporter.seq + 1>>

\* The directory with a file of these rows; os.Create truncates what has its name.
Holding(f, rows) == [g \in DOMAIN files \cup {f} |-> IF g = f THEN rows ELSE files[g]]

\* With nothing listed, or an error, the export ends.  The file is created, and
\* one of that name truncated.
ListMessagesAfter ==
    /\ exporter.pc = "list"
    /\ LET rows == After(exporter.after) IN
       \/ /\ rows = {}
          /\ exporter' = [exporter EXCEPT !.pc = "wait"]
          /\ UNCHANGED <<files, tied>>
       \/ \E B \in FirstRows(rows, ExportLimit) \ {{}} :
          /\ exporter' = [pc |-> "write", after |-> exporter.after, batch |-> B,
                          last |-> Latest(B), file |-> NextFilename, seq |-> exporter.seq + 1]
          /\ files' = Holding(NextFilename, {})
          /\ tied' = tied \cup {m \in rows \ B : received[m] = Latest(B)}
    /\ UNCHANGED <<table, watermark, collected, bounds, written, late, replays>>

WriteCSV ==
    /\ exporter.pc = "write"
    /\ files' = Holding(exporter.file, exporter.batch)
    /\ written' = [m \in Msgs |-> written[m] + IF m \in exporter.batch THEN 1 ELSE 0]
    /\ exporter' = [exporter EXCEPT !.pc = "mark"]
    /\ UNCHANGED <<table, watermark, collected, bounds, late, tied, replays>>

\* Mutant: the watermark that was read is written back.
WriteOldWatermark ==
    /\ exporter.pc = "mark"
    /\ watermark' = exporter.after
    /\ exporter' = [Idle EXCEPT !.seq = exporter.seq]
    /\ UNCHANGED <<table, files, collected, bounds, history>>

WriteWatermark ==
    /\ exporter.pc = "mark"
    /\ watermark' = exporter.last
    /\ exporter' = [Idle EXCEPT !.seq = exporter.seq]
    /\ UNCHANGED <<table, files, collected, bounds, history>>

\* A failed file ends the export and leaves the rows written so far; a failed
\* watermark is only logged, and leaves the file as it was or cut short.
ExportFails ==
    /\ errors < MaxErrors
    /\ errors' = errors + 1
    /\ exporter.pc \in {"list", "write", "mark"}
    /\ exporter' = [Idle EXCEPT !.seq = exporter.seq]
    /\ \/ exporter.pc = "list" /\ UNCHANGED <<disk, replays>>
       \/ /\ exporter.pc = "write"
          /\ \E part \in SUBSET exporter.batch : files' = Holding(exporter.file, part)
          /\ replays' = replays + 1 /\ UNCHANGED watermark
       \/ /\ exporter.pc = "mark"
          /\ watermark' \in {watermark, 0}
          /\ replays' = replays + 1 /\ UNCHANGED files
    /\ UNCHANGED <<table, collected, now, crashes, written, late, tied>>

\* The process ends and starts again: the number of the next file starts again
\* too.  What WriteFile had done of the watermark stays.
Crash ==
    /\ crashes < MaxCrashes
    /\ crashes' = crashes + 1
    /\ exporter' = Idle
    /\ \/ exporter.pc \in {"wait", "list"} /\ UNCHANGED <<disk, replays>>
       \/ /\ exporter.pc = "write"
          /\ \E part \in SUBSET exporter.batch : files' = Holding(exporter.file, part)
          /\ replays' = replays + 1 /\ UNCHANGED watermark
       \/ /\ exporter.pc = "mark"
          /\ watermark' \in {watermark, 0}
          /\ replays' = replays + 1 /\ UNCHANGED files
    /\ UNCHANGED <<table, collected, now, errors, written, late, tied>>

Export == ReadWatermark \/ ListMessagesAfter \/ WriteCSV \/ WriteWatermark

Next ==
    \/ Tick \/ Export \/ ExportFails \/ Crash
    \/ \E m \in Msgs : StampMessage(m) \/ CreateMessage(m) \/ DeleteMessage(m)
    \/ \E f \in DOMAIN files : Collect(f)

Spec == Init /\ [][Next]_vars

\* The ticker goes on; cdrc is part of the deployment and takes what it finds.
Fairness == WF_vars(Export)

FairSpec == Spec /\ Fairness
----------------------------------------------------------------------------
(* Properties *)

Passed(m) == row[m] = "there" /\ received[m] <= watermark

InFile(m) == \E f \in DOMAIN files : m \in files[f]

\* A row is written twice only when a file was written and its watermark was not:
\* after a failed write or a crash between the two (exporter.go, export).
DuplicateNeedsReplay ==
    \A m \in Msgs : written[m] > 1 => replays > 0

\* A row the watermark has passed was written, unless it was inserted when an export
\* had already listed up to its time, or the limit cut through the rows of one
\* time - whatever failed, crashed or was deleted in between (ListMessagesAfter).
SkippedHasCause ==
    \A m \in Msgs : Passed(m) /\ written[m] = 0 => m \in late \cup tied

\* A written row that cdrc did not collect is still in a file, unless the process
\* started again: only then can a name come back within its minute (nextFilename).
LostNeedsRestart ==
    \A m \in Msgs : written[m] > 0 /\ m \notin collected /\ ~InFile(m) => crashes > 0

\* Every row is billed in the end, unless it is deleted first or is one of the
\* skipped: failures and restarts only delay it.
RowIsBilled ==
    \A m \in Msgs : row[m] = "there" ~> written[m] > 0 \/ row[m] = "deleted" \/ m \in late \cup tied

\* The manual (Watermark): "No records are skipped between export runs".
NoRecordIsSkipped ==
    \A m \in Msgs : Passed(m) => written[m] > 0
=============================================================================
