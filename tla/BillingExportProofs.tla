------------------------- MODULE BillingExportProofs -------------------------
(***************************************************************************)
(* Proofs about BillingExport, for any messages, limit of an export,       *)
(* length of a minute, and numbers of crashes and failed writes: what the  *)
(* exporter may write twice, skip or lose, and what it takes for each.     *)
(***************************************************************************)
EXTENDS BillingExport, FiniteSetTheorems, TLAPS

(* Only rows that were stamped and inserted are written.                   *)
RowInv ==
    \A m \in Msgs :
        /\ row[m] # "none" => received[m] # 0
        /\ written[m] > 0 => row[m] # "none"

(* An export works on rows above the watermark it read, up to its last     *)
(* one, and its file is empty until they are all in it.                    *)
ExportInv ==
    /\ exporter.pc \in {"list", "write", "mark"} => exporter.after = watermark
    /\ exporter.pc \in {"write", "mark"} => \A m \in exporter.batch :
          row[m] # "none" /\ exporter.after < received[m] /\ received[m] <= exporter.last
    /\ exporter.pc = "write" => exporter.file \in DOMAIN files /\ files[exporter.file] = {}

(* What an export has listed and not yet written.                          *)
UnderWay == IF exporter.pc = "write" THEN exporter.batch ELSE {}

(* A row that a listing went past has been written, will be by the export  *)
(* under way, or is one of the two kinds that are skipped.                 *)
SkipInv ==
    \A m \in Msgs : row[m] = "there" /\ written[m] = 0 /\ received[m] <= Behind =>
        m \in late \cup tied \cup UnderWay

(* Up to where the rows have been written.                                 *)
Marked == IF exporter.pc = "mark" THEN exporter.last ELSE watermark

(* While every watermark followed its file, nothing above the watermark    *)
(* was written.                                                            *)
OnceInv ==
    replays = 0 => \A m \in Msgs : written[m] <= 1 /\ (written[m] = 1 => received[m] <= Marked)

(* In one life of the process the numbers of the files go up, so that no   *)
(* file is truncated that has rows.                                        *)
FileInv ==
    crashes = 0 =>
        /\ \A f \in DOMAIN files : f[2] <= exporter.seq
        /\ \A m \in Msgs : written[m] > 0 /\ m \notin collected => InFile(m)

----------------------------------------------------------------------------
(* Times and files *)

(* A set of times has a latest one. *)
LEMMA LatestOfTimes ==
    ASSUME NEW n \in Nat, NEW T, T \subseteq 0 .. n, T # {}
    PROVE  \E x \in T : \A y \in T : y <= x
<1> DEFINE F == {t .. n : t \in T}
<1>1. PICK R : R = StrictSubsetOrdering(0 .. n)
  OBVIOUS
<1>2. IsWellFoundedOn(R, FiniteSubsetsOf(0 .. n))
  BY <1>1, FS_StrictSubsetOrderingWellFounded
<1>3. F \subseteq FiniteSubsetsOf(0 .. n) /\ F # {}
  <2>1. \A t \in T : t \in Nat /\ t .. n \subseteq 0 .. n /\ IsFiniteSet(t .. n)
    BY FS_Interval
  <2> QED
    BY <2>1 DEF FiniteSubsetsOf
<1>4. PICK c \in F : \A d \in F : ~ (<<d, c>> \in R)
  BY <1>2, <1>3, WFMin
<1>5. PICK x \in T : c = x .. n
  OBVIOUS
<1>6. ASSUME NEW y \in T, y > x PROVE FALSE
  <2>1. /\ y .. n \subseteq x .. n /\ x \in x .. n /\ x \notin y .. n
        /\ x .. n \subseteq 0 .. n /\ y .. n \subseteq 0 .. n
    BY <1>6
  <2>2. <<y .. n, x .. n>> \in R
    BY <1>1, <2>1 DEF StrictSubsetOrdering
  <2> QED
    BY <1>4, <1>5, <2>2
<1> QED
  BY <1>6

(* The time of the last row of a batch. *)
LEMMA LatestFacts ==
    ASSUME TypeOK, NEW B \in SUBSET Msgs, B # {}
    PROVE  /\ Latest(B) \in Times /\ \E m \in B : received[m] = Latest(B)
           /\ \A m \in B : received[m] <= Latest(B)
<1> DEFINE T == {received[m] : m \in B}
<1>1. T \subseteq 0 .. MaxTime /\ T # {}
  BY DEF TypeOK, Times
<1>2. PICK x \in T : \A y \in T : y <= x
  BY <1>1, LatestOfTimes, BillingConstants
<1>3. \E t \in T : \A m \in B : received[m] <= t
  BY <1>2
<1>4. Latest(B) \in T /\ \A m \in B : received[m] <= Latest(B)
  BY <1>3 DEF Latest
<1> QED
  BY <1>1, <1>4 DEF Times

(* The directory with a file of these rows. *)
LEMMA HoldingFacts ==
    ASSUME NEW f, NEW rows
    PROVE  /\ DOMAIN Holding(f, rows) = DOMAIN files \cup {f}
           /\ Holding(f, rows)[f] = rows
           /\ \A g \in DOMAIN files \ {f} : Holding(f, rows)[g] = files[g]
  BY DEF Holding

(* The exporter reads the watermark, or waits for the next tick. *)
LEMMA ReadFields ==
    ASSUME NEW e \in ExporterState, NEW t \in Times
    PROVE  /\ [e EXCEPT !.pc = "list", !.after = t] \in ExporterState
           /\ [e EXCEPT !.pc = "list", !.after = t].pc = "list"
           /\ [e EXCEPT !.pc = "list", !.after = t].after = t
           /\ [e EXCEPT !.pc = "list", !.after = t].seq = e.seq
  BY DEF ExporterState

LEMMA IdleFields ==
    /\ Idle \in ExporterState /\ Idle.pc = "wait" /\ Idle.seq = 0
    /\ \A n \in Nat :
        /\ [Idle EXCEPT !.seq = n] \in ExporterState
        /\ [Idle EXCEPT !.seq = n].pc = "wait" /\ [Idle EXCEPT !.seq = n].seq = n
  BY BillingConstants DEF Idle, ExporterState, Times, Names, NoFile

LEMMA PcField ==
    ASSUME NEW e \in ExporterState, NEW pc \in {"wait", "mark"}
    PROVE  /\ [e EXCEPT !.pc = pc] \in ExporterState /\ [e EXCEPT !.pc = pc].pc = pc
           /\ [e EXCEPT !.pc = pc].seq = e.seq /\ [e EXCEPT !.pc = pc].after = e.after
           /\ [e EXCEPT !.pc = pc].last = e.last /\ [e EXCEPT !.pc = pc].batch = e.batch
           /\ [e EXCEPT !.pc = pc].file = e.file
  BY DEF ExporterState

LEMMA ExporterFields ==
    ASSUME TypeOK
    PROVE  /\ exporter \in ExporterState /\ exporter.pc \in {"wait", "list", "write", "mark"}
           /\ exporter.after \in Times /\ exporter.last \in Times /\ exporter.seq \in Nat
           /\ exporter.batch \subseteq Msgs /\ exporter.file \in Names \cup {NoFile}
           /\ watermark \in Times
  BY DEF TypeOK, ExporterState

----------------------------------------------------------------------------
(* What the exporter's steps do *)

(* A tick. *)
LEMMA ReadWatermarkEffect ==
    ASSUME TypeOK, ReadWatermark
    PROVE  /\ exporter.pc = "wait"
           /\ exporter' \in ExporterState /\ exporter'.pc = "list" /\ exporter'.after = watermark
           /\ exporter'.seq = exporter.seq
           /\ UNCHANGED <<table, disk, collected, bounds, history>>
<1>1. PICK e \in ExporterState : e = exporter
  BY ExporterFields
<1>2. PICK t \in Times : t = watermark
  BY ExporterFields
<1>3. PICK n : n = [e EXCEPT !.pc = "list", !.after = t]
  OBVIOUS
<1>4. n \in ExporterState /\ n.pc = "list" /\ n.after = t /\ n.seq = e.seq
  BY <1>3, ReadFields, Zenon
<1>5. exporter' = n
  BY <1>1, <1>2, <1>3, Zenon DEF ReadWatermark
<1>6. exporter.pc = "wait" /\ UNCHANGED <<table, disk, collected, bounds, history>>
  BY DEF ReadWatermark
<1> QED
  BY <1>1, <1>2, <1>4, <1>5, <1>6

(* A listing ends the export, or begins a file of its first rows. *)
ListsNothing ==
    /\ exporter' \in ExporterState /\ exporter'.pc = "wait" /\ exporter'.seq = exporter.seq
    /\ UNCHANGED <<files, tied>>

Lists(B) ==
    /\ B # {} /\ B \subseteq Msgs
    /\ exporter' \in ExporterState /\ exporter'.pc = "write" /\ exporter'.after = exporter.after
    /\ exporter'.batch = B /\ exporter'.seq = exporter.seq + 1
    /\ exporter'.file = NextFilename /\ exporter'.file \in Names /\ exporter'.file[2] = exporter.seq + 1
    /\ \A m \in B : row[m] = "there" /\ exporter.after < received[m] /\ received[m] <= exporter'.last
    /\ exporter'.last > exporter.after
    /\ \A m \in Msgs \ B : row[m] = "there" /\ exporter.after < received[m] /\ received[m] <= exporter'.last =>
          m \in tied'
    /\ tied \subseteq tied' /\ tied' \subseteq Msgs
    /\ files' = Holding(NextFilename, {})

LEMMA ListMessagesAfterEffect ==
    ASSUME TypeOK, ListMessagesAfter
    PROVE  /\ exporter.pc = "list"
           /\ ListsNothing \/ \E B \in SUBSET Msgs : Lists(B)
           /\ UNCHANGED <<table, watermark, collected, bounds, written, late, replays>>
<1>1. exporter.pc = "list" /\ UNCHANGED <<table, watermark, collected, bounds, written, late,
                                          replays>>
  BY DEF ListMessagesAfter
<1> DEFINE rows == After(exporter.after)
<1>2. \/ rows = {} /\ exporter' = [exporter EXCEPT !.pc = "wait"] /\ UNCHANGED <<files, tied>>
      \/ \E B \in FirstRows(rows, ExportLimit) \ {{}} :
          /\ exporter' = [pc |-> "write", after |-> exporter.after, batch |-> B,
                          last |-> Latest(B), file |-> NextFilename, seq |-> exporter.seq + 1]
          /\ files' = Holding(NextFilename, {})
          /\ tied' = tied \cup {m \in rows \ B : received[m] = Latest(B)}
  BY Zenon DEF ListMessagesAfter
<1>3. CASE rows = {} /\ exporter' = [exporter EXCEPT !.pc = "wait"] /\ UNCHANGED <<files, tied>>
  <2>1. ListsNothing
    BY <1>3, ExporterFields, PcField DEF ListsNothing
  <2> QED
    BY <1>1, <2>1
<1>4. ASSUME NEW B \in FirstRows(rows, ExportLimit) \ {{}},
             exporter' = [pc |-> "write", after |-> exporter.after, batch |-> B,
                          last |-> Latest(B), file |-> NextFilename, seq |-> exporter.seq + 1],
             files' = Holding(NextFilename, {}),
             tied' = tied \cup {m \in rows \ B : received[m] = Latest(B)}
      PROVE  Lists(B)
  <2>1. B \subseteq rows /\ B # {} /\ \A m \in B, n \in rows \ B : received[m] <= received[n]
    BY DEF FirstRows
  <2>2. rows \subseteq Msgs /\ \A m \in Msgs : m \in rows <=> row[m] = "there" /\ received[m] > exporter.after
    BY DEF After
  <2>3. B \in SUBSET Msgs
    BY <2>1, <2>2
  <2>4. /\ Latest(B) \in Times /\ \A m \in B : received[m] <= Latest(B)
        /\ \E m \in B : received[m] = Latest(B)
    BY <2>1, <2>3, LatestFacts
  <2>5. /\ exporter.seq + 1 \in Nat /\ exporter.after \in Times
        /\ received \in [Msgs -> Nat] /\ exporter.after \in Nat
    BY ExporterFields DEF TypeOK, Times
  <2>6. NextFilename \in Names /\ NextFilename[2] = exporter.seq + 1
    <3>1. now \in Nat /\ MinuteLength \in Nat \ {0}
      BY BillingConstants DEF TypeOK, Times
    <3>2. now \div MinuteLength \in Nat
      BY <3>1
    <3> QED
      BY <2>5, <3>2 DEF NextFilename, Names
  <2>7. PICK l \in Times : l = Latest(B)
    BY <2>4
  <2>8. PICK f \in Names : f = NextFilename
    BY <2>6
  <2>9. exporter' = [pc |-> "write", after |-> exporter.after, batch |-> B,
                     last |-> l, file |-> f, seq |-> exporter.seq + 1]
    BY <1>4, <2>7, <2>8
  <2>10. /\ exporter' \in ExporterState /\ exporter'.pc = "write" /\ exporter'.after = exporter.after
         /\ exporter'.batch = B /\ exporter'.seq = exporter.seq + 1
         /\ exporter'.file = f /\ exporter'.last = l
    BY <2>3, <2>5, <2>9 DEF ExporterState
  <2>11. /\ \A m \in B : row[m] = "there" /\ exporter.after < received[m] /\ received[m] <= l
         /\ l > exporter.after
    BY <2>1, <2>2, <2>4, <2>5, <2>7
  <2>12. ASSUME NEW m \in Msgs \ B, row[m] = "there", exporter.after < received[m], received[m] <= l
         PROVE  m \in tied'
    <3>1. m \in rows \ B
      BY <2>2, <2>5, <2>12
    <3>2. received[m] = l
      BY <2>1, <2>3, <2>4, <2>5, <2>7, <2>12, <3>1 DEF Times
    <3> QED
      BY <1>4, <2>7, <3>1, <3>2
  <2>13. tied \subseteq tied' /\ tied' \subseteq Msgs
    BY <1>4, <2>2 DEF TypeOK
  <2> QED
    BY <1>4, <2>1, <2>3, <2>6, <2>8, <2>10, <2>11, <2>12, <2>13 DEF Lists
<1>5. CASE \E B \in FirstRows(rows, ExportLimit) \ {{}} : Lists(B)
  BY <1>1, <1>5 DEF Lists
<1> QED
  BY <1>2, <1>3, <1>4, <1>5

(* The rows are in the file. *)
LEMMA WriteCSVEffect ==
    ASSUME TypeOK, WriteCSV
    PROVE  /\ exporter.pc = "write"
           /\ exporter' \in ExporterState /\ exporter'.pc = "mark" /\ exporter'.seq = exporter.seq
           /\ exporter'.after = exporter.after /\ exporter'.last = exporter.last
           /\ exporter'.batch = exporter.batch /\ exporter'.file = exporter.file
           /\ files' = Holding(exporter.file, exporter.batch)
           /\ \A m \in Msgs : written'[m] = written[m] + IF m \in exporter.batch THEN 1 ELSE 0
           /\ written' \in [Msgs -> Nat]
           /\ UNCHANGED <<table, watermark, collected, bounds, late, tied, replays>>
<1>1. exporter' = [exporter EXCEPT !.pc = "mark"] /\ exporter.pc = "write"
  BY DEF WriteCSV
<1>2. written' = [m \in Msgs |-> written[m] + IF m \in exporter.batch THEN 1 ELSE 0]
  BY DEF WriteCSV
<1>3. written \in [Msgs -> Nat]
  BY DEF TypeOK
<1>4. /\ \A m \in Msgs : written'[m] = written[m] + IF m \in exporter.batch THEN 1 ELSE 0
      /\ written' \in [Msgs -> Nat]
  BY <1>2, <1>3
<1>5. files' = Holding(exporter.file, exporter.batch)
      /\ UNCHANGED <<table, watermark, collected, bounds, late, tied, replays>>
  BY DEF WriteCSV
<1> QED
  BY <1>1, <1>4, <1>5, ExporterFields, PcField

(* The watermark is the last row's time. *)
LEMMA WriteWatermarkEffect ==
    ASSUME TypeOK, WriteWatermark
    PROVE  /\ exporter.pc = "mark" /\ watermark' = exporter.last
           /\ exporter' \in ExporterState /\ exporter'.pc = "wait" /\ exporter'.seq = exporter.seq
           /\ UNCHANGED <<table, files, collected, bounds, history>>
<1>1. exporter' = [Idle EXCEPT !.seq = exporter.seq] /\ exporter.pc = "mark" /\ watermark' = exporter.last
      /\ UNCHANGED <<table, files, collected, bounds, history>>
  BY DEF WriteWatermark
<1> QED
  BY <1>1, ExporterFields, IdleFields

(* A failure or a crash leaves the rows of the files, and the watermark or *)
(* none.                                                                   *)
Stops ==
    /\ exporter' \in ExporterState /\ exporter'.pc = "wait"
    /\ watermark' \in {watermark, 0} /\ replays' \in Nat /\ replays' >= replays
    /\ IF exporter.pc \in {"write", "mark"} THEN replays' > 0 ELSE watermark' = watermark
    /\ DOMAIN files' = DOMAIN files /\ \A f \in DOMAIN files : files[f] \subseteq files'[f] /\ files'[f] \subseteq Msgs
    /\ crashes' = 0 => crashes = 0 /\ exporter'.seq = exporter.seq
    /\ crashes' \in Nat /\ errors' \in Nat
    /\ UNCHANGED <<table, collected, now, written, late, tied>>

LEMMA StopsEffect ==
    ASSUME TypeOK, ExportInv, ExportFails \/ Crash
    PROVE  Stops
<1>1. /\ \/ exporter.pc \in {"wait", "list"} /\ UNCHANGED <<disk, replays>>
         \/ /\ exporter.pc = "write"
            /\ \E part \in SUBSET exporter.batch : files' = Holding(exporter.file, part)
            /\ replays' = replays + 1 /\ UNCHANGED watermark
         \/ /\ exporter.pc = "mark"
            /\ watermark' \in {watermark, 0}
            /\ replays' = replays + 1 /\ UNCHANGED files
      /\ UNCHANGED <<table, collected, now, written, late, tied>>
  BY DEF ExportFails, Crash
<1>2. replays \in Nat /\ crashes \in Nat /\ errors \in Nat
  BY DEF TypeOK
<1>3. /\ watermark' \in {watermark, 0} /\ replays' \in Nat /\ replays' >= replays
      /\ IF exporter.pc \in {"write", "mark"} THEN replays' > 0 ELSE watermark' = watermark
  BY <1>1, <1>2 DEF disk
<1>4. /\ DOMAIN files' = DOMAIN files
      /\ \A f \in DOMAIN files : files[f] \subseteq files'[f] /\ files'[f] \subseteq Msgs
  <2>1. \A f \in DOMAIN files : files[f] \subseteq Msgs
    BY DEF TypeOK
  <2>2. CASE UNCHANGED files
    BY <2>1, <2>2
  <2>3. CASE exporter.pc = "write" /\ \E part \in SUBSET exporter.batch : files' = Holding(exporter.file, part)
    <3>1. PICK part \in SUBSET exporter.batch : files' = Holding(exporter.file, part)
      BY <2>3
    <3>2. exporter.file \in DOMAIN files /\ files[exporter.file] = {}
      BY <2>3 DEF ExportInv
    <3>3. part \subseteq Msgs
      BY <3>1, ExporterFields
    <3>4. /\ DOMAIN files' = DOMAIN files \cup {exporter.file} /\ files'[exporter.file] = part
          /\ \A g \in DOMAIN files \ {exporter.file} : files'[g] = files[g]
      <4>1. /\ DOMAIN Holding(exporter.file, part) = DOMAIN files \cup {exporter.file}
            /\ Holding(exporter.file, part)[exporter.file] = part
            /\ \A g \in DOMAIN files \ {exporter.file} : Holding(exporter.file, part)[g] = files[g]
        BY DEF Holding
      <4> QED
        BY <3>1, <4>1
    <3>5. ASSUME NEW f \in DOMAIN files
          PROVE  files[f] \subseteq files'[f] /\ files'[f] \subseteq Msgs
      <4>1. CASE f = exporter.file
        BY <3>2, <3>3, <3>4, <4>1
      <4>2. CASE f # exporter.file
        BY <2>1, <3>4, <4>2
      <4> QED
        BY <4>1, <4>2
    <3> QED
      BY <3>2, <3>4, <3>5
  <2> QED
    BY <1>1, <2>2, <2>3 DEF disk
<1>5. /\ exporter' \in ExporterState /\ exporter'.pc = "wait"
      /\ crashes' = 0 => crashes = 0 /\ exporter'.seq = exporter.seq
      /\ crashes' \in Nat /\ errors' \in Nat
  <2>1. CASE ExportFails
    <3>1. exporter' = [Idle EXCEPT !.seq = exporter.seq] /\ crashes' = crashes /\ errors' = errors + 1
      BY <2>1 DEF ExportFails
    <3> QED
      BY <1>2, <3>1, ExporterFields, IdleFields
  <2>2. CASE Crash
    <3>1. exporter' = Idle /\ crashes' = crashes + 1 /\ errors' = errors
      BY <2>2 DEF Crash
    <3> QED
      BY <1>2, <3>1, IdleFields
  <2> QED
    BY <2>1, <2>2
<1> QED
  BY <1>1, <1>3, <1>4, <1>5 DEF Stops

(* A file is taken. *)
LEMMA CollectEffect ==
    ASSUME NEW f \in DOMAIN files, Collect(f)
    PROVE  /\ DOMAIN files' = DOMAIN files \ {f} /\ \A g \in DOMAIN files' : files'[g] = files[g]
           /\ collected' = collected \cup files[f]
           /\ exporter.pc = "write" => exporter.file # f
           /\ UNCHANGED <<table, exporter, watermark, bounds, history>>
<1>1. files' = Restrict(files, DOMAIN files \ {f})
  BY DEF Collect
<1>2. DOMAIN files' = DOMAIN files \ {f} /\ \A g \in DOMAIN files' : files'[g] = files[g]
  BY <1>1 DEF Restrict
<1> QED
  BY <1>2 DEF Collect

(* The steps of the rest of the server. *)
LEMMA RowSteps ==
    ASSUME TypeOK, NEW m \in Msgs
    PROVE  /\ StampMessage(m) =>
                /\ received[m] = 0 /\ received' = [received EXCEPT ![m] = now]
                /\ UNCHANGED <<row, exporter, disk, collected, bounds, history>>
           /\ CreateMessage(m) =>
                /\ received[m] # 0 /\ row[m] = "none" /\ row' = [row EXCEPT ![m] = "there"]
                /\ late' = IF received[m] <= Behind THEN late \cup {m} ELSE late
                /\ UNCHANGED <<received, exporter, disk, collected, bounds, written, tied,
                               replays>>
           /\ DeleteMessage(m) =>
                /\ row[m] = "there" /\ row' = [row EXCEPT ![m] = "deleted"]
                /\ UNCHANGED <<received, exporter, disk, collected, bounds, history>>
  BY DEF StampMessage, CreateMessage, DeleteMessage

----------------------------------------------------------------------------
(* Types *)

(* Every step keeps the types. *)
LEMMA TypeStep ==
    ASSUME TypeOK, ExportInv, [Next]_vars
    PROVE  TypeOK'
<1>1. ASSUME Tick PROVE TypeOK'
  <2>1. now' \in Times
    BY <1>1, BillingConstants DEF TypeOK, Tick, Times
  <2>2. UNCHANGED <<table, exporter, disk, collected, crashes, errors, history>>
    BY <1>1 DEF Tick
  <2> QED
    BY <2>1, <2>2 DEF TypeOK, table, disk, history
<1>2. ASSUME ReadWatermark PROVE TypeOK'
  <2>1. /\ exporter' \in ExporterState /\ exporter'.pc = "list"
        /\ UNCHANGED <<table, disk, collected, bounds, history>>
    BY <1>2, ReadWatermarkEffect
  <2> QED
    BY <2>1 DEF TypeOK, table, disk, bounds, history
<1>3. ASSUME ListMessagesAfter PROVE TypeOK'
  <2>1. UNCHANGED <<table, watermark, collected, bounds, written, late, replays>>
    BY <1>3, ListMessagesAfterEffect
  <2>2. CASE ListsNothing
    BY <2>1, <2>2 DEF ListsNothing, TypeOK, table, bounds
  <2>3. ASSUME NEW B \in SUBSET Msgs, Lists(B) PROVE TypeOK'
    <3>1. DOMAIN files' = DOMAIN files \cup {NextFilename} /\ NextFilename \in Names
      BY <2>3 DEF Lists, Holding
    <3>2. \A f \in DOMAIN files' : files'[f] \subseteq Msgs
      BY <2>3 DEF Lists, Holding, TypeOK
    <3>3. DOMAIN files' \subseteq Names
      BY <3>1 DEF TypeOK
    <3>4. exporter' \in ExporterState /\ exporter'.batch # {} /\ exporter'.last > exporter'.after /\ tied' \subseteq Msgs
      BY <2>3 DEF Lists
    <3> QED
      BY <2>1, <3>2, <3>3, <3>4 DEF TypeOK, table, bounds
  <2> QED
    BY <1>3, <2>2, <2>3, ListMessagesAfterEffect
<1>4. ASSUME WriteCSV PROVE TypeOK'
  <2>1. /\ exporter.pc = "write" /\ exporter' \in ExporterState /\ written' \in [Msgs -> Nat]
        /\ exporter'.after = exporter.after /\ exporter'.last = exporter.last /\ exporter'.batch = exporter.batch
        /\ files' = Holding(exporter.file, exporter.batch)
        /\ UNCHANGED <<table, watermark, collected, bounds, late, tied, replays>>
    BY <1>4, WriteCSVEffect
  <2>2. exporter.file \in DOMAIN files /\ exporter.batch \subseteq Msgs
    BY <2>1, ExporterFields DEF ExportInv
  <2>3. DOMAIN files' = DOMAIN files /\ \A f \in DOMAIN files' : files'[f] \subseteq Msgs
    BY <2>1, <2>2 DEF Holding, TypeOK
  <2> QED
    BY <2>1, <2>3 DEF TypeOK, table, bounds
<1>5. ASSUME WriteWatermark PROVE TypeOK'
  <2>1. /\ exporter' \in ExporterState /\ exporter'.pc = "wait" /\ watermark' \in Times
        /\ UNCHANGED <<table, files, collected, bounds, history>>
    BY <1>5, WriteWatermarkEffect, ExporterFields
  <2> QED
    BY <2>1 DEF TypeOK, table, disk, bounds, history
<1>6. ASSUME ExportFails \/ Crash PROVE TypeOK'
  <2>1. Stops
    BY <1>6, StopsEffect
  <2>2. 0 \in Times
    BY BillingConstants DEF Times
  <2> QED
    BY <2>1, <2>2 DEF Stops, TypeOK, table
<1>7. ASSUME NEW m \in Msgs, StampMessage(m) PROVE TypeOK'
  <2>1. /\ received' = [received EXCEPT ![m] = now]
        /\ UNCHANGED <<row, exporter, disk, collected, bounds, history>>
    BY <1>7, RowSteps
  <2> QED
    BY <2>1 DEF TypeOK, table, disk, bounds, history
<1>8. ASSUME NEW m \in Msgs, CreateMessage(m) PROVE TypeOK'
  <2>1. /\ row' = [row EXCEPT ![m] = "there"] /\ late' \subseteq late \cup {m}
        /\ UNCHANGED <<received, exporter, disk, collected, bounds, written, tied, replays>>
    BY <1>8, RowSteps
  <2> QED
    BY <2>1 DEF TypeOK, disk, bounds
<1>9. ASSUME NEW m \in Msgs, DeleteMessage(m) PROVE TypeOK'
  <2>1. /\ row' = [row EXCEPT ![m] = "deleted"]
        /\ UNCHANGED <<received, exporter, disk, collected, bounds, history>>
    BY <1>9, RowSteps
  <2> QED
    BY <2>1 DEF TypeOK, table, disk, bounds, history
<1>10. ASSUME NEW f \in DOMAIN files, Collect(f) PROVE TypeOK'
  <2>1. /\ DOMAIN files' = DOMAIN files \ {f} /\ \A g \in DOMAIN files' : files'[g] = files[g]
        /\ collected' = collected \cup files[f] /\ UNCHANGED <<table, exporter, watermark, bounds, history>>
    BY <1>10, CollectEffect
  <2> QED
    BY <2>1 DEF TypeOK, table, bounds, history
<1>11. ASSUME UNCHANGED vars PROVE TypeOK'
  BY <1>11 DEF TypeOK, vars, table, disk, bounds, history
<1> QED
  BY <1>1, <1>2, <1>3, <1>4, <1>5, <1>6, <1>7, <1>8, <1>9, <1>10, <1>11 DEF Next, Export

----------------------------------------------------------------------------
(* The exporter's work *)

(* What is written has a row with a time. *)
LEMMA RowStep ==
    ASSUME TypeOK, ExportInv, RowInv, [Next]_vars
    PROVE  RowInv'
<1>1. ASSUME Tick PROVE RowInv'
  BY <1>1 DEF Tick, RowInv, table, disk, bounds, history
<1>2. ASSUME ReadWatermark PROVE RowInv'
  BY <1>2, ReadWatermarkEffect DEF RowInv, table, disk, bounds, history
<1>3. ASSUME ListMessagesAfter PROVE RowInv'
  BY <1>3, ListMessagesAfterEffect DEF RowInv, table
<1>4. ASSUME WriteCSV PROVE RowInv'
  <2>1. \A m \in exporter.batch : row[m] # "none"
    BY <1>4, WriteCSVEffect DEF ExportInv
  <2> QED
    BY <1>4, <2>1, WriteCSVEffect DEF RowInv, TypeOK, table
<1>5. ASSUME WriteWatermark PROVE RowInv'
  BY <1>5, WriteWatermarkEffect DEF RowInv, table, disk, bounds, history
<1>6. ASSUME ExportFails \/ Crash PROVE RowInv'
  BY <1>6, StopsEffect DEF Stops, RowInv, table
<1>7. ASSUME NEW m \in Msgs, StampMessage(m) PROVE RowInv'
  <2>1. row[m] = "none"
    BY <1>7, RowSteps DEF RowInv
  <2> QED
    BY <1>7, <2>1, RowSteps DEF RowInv, table, disk, bounds, history, TypeOK
<1>8. ASSUME NEW m \in Msgs, CreateMessage(m) PROVE RowInv'
  BY <1>8, RowSteps DEF RowInv, TypeOK
<1>9. ASSUME NEW m \in Msgs, DeleteMessage(m) PROVE RowInv'
  BY <1>9, RowSteps DEF RowInv, table, disk, bounds, history, TypeOK
<1>10. ASSUME NEW f \in DOMAIN files, Collect(f) PROVE RowInv'
  BY <1>10, CollectEffect DEF RowInv, table, disk, bounds, history
<1>11. ASSUME UNCHANGED vars PROVE RowInv'
  BY <1>11 DEF vars, RowInv, table, disk, bounds, history
<1> QED
  BY <1>1, <1>2, <1>3, <1>4, <1>5, <1>6, <1>7, <1>8, <1>9, <1>10, <1>11 DEF Next, Export

(* An export's rows are above the watermark it read. *)
LEMMA ExportStep ==
    ASSUME TypeOK, RowInv, ExportInv, [Next]_vars
    PROVE  ExportInv'
<1>1. ASSUME Tick PROVE ExportInv'
  BY <1>1 DEF Tick, ExportInv, table, disk, bounds, history
<1>2. ASSUME ReadWatermark PROVE ExportInv'
  BY <1>2, ReadWatermarkEffect DEF ExportInv, table, disk, bounds, history
<1>3. ASSUME ListMessagesAfter PROVE ExportInv'
  <2>1. exporter.pc = "list" /\ UNCHANGED <<received, row, watermark>>
    BY <1>3, ListMessagesAfterEffect DEF table
  <2>2. exporter.after = watermark
    BY <2>1 DEF ExportInv
  <2>3. CASE ListsNothing
    BY <2>3 DEF ListsNothing, ExportInv
  <2>4. ASSUME NEW B \in SUBSET Msgs, Lists(B) PROVE ExportInv'
    <3>1. exporter'.file \in DOMAIN files' /\ files'[exporter'.file] = {}
      BY <2>4 DEF Lists, Holding
    <3>2. /\ exporter'.pc = "write" /\ exporter'.after = exporter.after /\ exporter'.batch = B
          /\ \A m \in B : row[m] = "there" /\ exporter.after < received[m] /\ received[m] <= exporter'.last
      BY <2>4 DEF Lists
    <3> QED
      BY <2>1, <2>2, <3>1, <3>2 DEF ExportInv
  <2> QED
    BY <1>3, <2>3, <2>4, ListMessagesAfterEffect
<1>4. ASSUME WriteCSV PROVE ExportInv'
  BY <1>4, WriteCSVEffect DEF ExportInv, table
<1>5. ASSUME WriteWatermark PROVE ExportInv'
  BY <1>5, WriteWatermarkEffect DEF ExportInv
<1>6. ASSUME ExportFails \/ Crash PROVE ExportInv'
  BY <1>6, StopsEffect DEF Stops, ExportInv
<1>7. ASSUME NEW m \in Msgs, StampMessage(m) PROVE ExportInv'
  <2>1. /\ received[m] = 0 /\ received' = [received EXCEPT ![m] = now]
        /\ UNCHANGED <<row, exporter, disk, collected, bounds, history>>
    BY <1>7, RowSteps
  <2>2. row[m] = "none"
    BY <2>1 DEF RowInv
  <2>3. exporter.pc \in {"write", "mark"} => m \notin exporter.batch
    BY <2>2 DEF ExportInv
  <2> QED
    BY <2>1, <2>3 DEF ExportInv, disk, TypeOK
<1>8. ASSUME NEW m \in Msgs, CreateMessage(m) PROVE ExportInv'
  <2>1. \A k \in Msgs : row[k] # "none" => row'[k] # "none"
    BY <1>8, RowSteps DEF TypeOK
  <2>2. UNCHANGED <<received, exporter, disk>>
    BY <1>8, RowSteps
  <2>3. exporter.batch \subseteq Msgs
    BY ExporterFields
  <2> QED
    BY <2>1, <2>2, <2>3 DEF ExportInv, disk
<1>9. ASSUME NEW m \in Msgs, DeleteMessage(m) PROVE ExportInv'
  <2>1. \A k \in Msgs : row[k] # "none" => row'[k] # "none"
    BY <1>9, RowSteps DEF TypeOK
  <2>2. UNCHANGED <<received, exporter, disk>>
    BY <1>9, RowSteps
  <2>3. exporter.batch \subseteq Msgs
    BY ExporterFields
  <2> QED
    BY <2>1, <2>2, <2>3 DEF ExportInv, disk
<1>10. ASSUME NEW f \in DOMAIN files, Collect(f) PROVE ExportInv'
  BY <1>10, CollectEffect DEF ExportInv, table, disk, bounds, history
<1>11. ASSUME UNCHANGED vars PROVE ExportInv'
  BY <1>11 DEF vars, ExportInv, table, disk, bounds, history
<1> QED
  BY <1>1, <1>2, <1>3, <1>4, <1>5, <1>6, <1>7, <1>8, <1>9, <1>10, <1>11 DEF Next, Export

----------------------------------------------------------------------------
(* What is skipped, written twice or lost *)

(* What a listing went past is written, or has a cause not to be. *)
LEMMA SkipStep ==
    ASSUME TypeOK, RowInv, ExportInv, SkipInv, [Next]_vars
    PROVE  SkipInv'
<1>1. ASSUME Tick PROVE SkipInv'
  BY <1>1 DEF Tick, SkipInv, Behind, UnderWay, table, disk, bounds, history
<1>2. ASSUME ReadWatermark PROVE SkipInv'
  BY <1>2, ReadWatermarkEffect DEF SkipInv, Behind, UnderWay, table, disk, bounds, history
<1>3. ASSUME ListMessagesAfter PROVE SkipInv'
  <2>1. exporter.pc = "list" /\ UNCHANGED <<received, row, watermark, written, late>>
    BY <1>3, ListMessagesAfterEffect DEF table
  <2>2. exporter.after = watermark
    BY <2>1 DEF ExportInv
  <2>3. CASE ListsNothing
    BY <2>1, <2>3 DEF ListsNothing, SkipInv, Behind, UnderWay
  <2>4. ASSUME NEW B \in SUBSET Msgs, Lists(B) PROVE SkipInv'
    <3>1. /\ exporter'.pc = "write" /\ exporter'.batch = B /\ tied \subseteq tied'
          /\ \A m \in Msgs \ B : row[m] = "there" /\ exporter.after < received[m] /\ received[m] <= exporter'.last =>
                m \in tied'
      BY <2>4 DEF Lists
    <3>2. ASSUME NEW m \in Msgs, row[m] = "there", written[m] = 0, received[m] <= exporter'.last
          PROVE  m \in late \cup tied' \cup B
      <4>1. received[m] \in Nat /\ watermark \in Nat
        BY DEF TypeOK, Times
      <4>2. CASE received[m] <= watermark
        BY <2>1, <3>1, <3>2, <4>2 DEF SkipInv, Behind, UnderWay
      <4>3. CASE watermark < received[m]
        BY <2>2, <3>1, <3>2, <4>3
      <4> QED
        BY <4>1, <4>2, <4>3
    <3> QED
      BY <2>1, <3>1, <3>2 DEF SkipInv, Behind, UnderWay
  <2> QED
    BY <1>3, <2>3, <2>4, ListMessagesAfterEffect
<1>4. ASSUME WriteCSV PROVE SkipInv'
  <2>1. \A m \in exporter.batch : m \in Msgs => written'[m] > 0
    BY <1>4, WriteCSVEffect DEF TypeOK
  <2>2. \A m \in Msgs : written'[m] = 0 => written[m] = 0
    BY <1>4, WriteCSVEffect DEF TypeOK
  <2> QED
    BY <1>4, <2>1, <2>2, WriteCSVEffect DEF SkipInv, Behind, UnderWay, table
<1>5. ASSUME WriteWatermark PROVE SkipInv'
  BY <1>5, WriteWatermarkEffect DEF SkipInv, Behind, UnderWay, table, disk, bounds, history
<1>6. ASSUME ExportFails \/ Crash PROVE SkipInv'
  <2>1. Stops
    BY <1>6, StopsEffect
  <2>2. exporter.pc \in {"write", "mark"} => exporter.last > exporter.after /\ exporter.after = watermark
    BY DEF TypeOK, ExportInv
  <2>3. /\ exporter.pc \in {"wait", "list", "write", "mark"} /\ exporter.last \in Nat /\ exporter.after \in Nat
        /\ watermark \in Nat /\ received \in [Msgs -> Nat]
    BY ExporterFields DEF TypeOK, Times
  <2>4. watermark' <= watermark /\ watermark' \in Nat
    BY <2>1, <2>3 DEF Stops
  <2>5. Behind' = watermark' /\ UnderWay' = {}
    BY <2>1 DEF Stops, Behind, UnderWay
  <2>6. ASSUME NEW m \in Msgs, row[m] = "there", written[m] = 0, received[m] <= watermark'
        PROVE  m \in late \cup tied
    <3>1. received[m] <= watermark /\ received[m] <= Behind
      BY <2>2, <2>3, <2>4, <2>6 DEF Behind
    <3>2. m \notin UnderWay
      BY <2>2, <2>3, <3>1 DEF ExportInv, UnderWay
    <3> QED
      BY <2>6, <3>1, <3>2 DEF SkipInv
  <2> QED
    BY <2>1, <2>5, <2>6 DEF Stops, SkipInv, table
<1>7. ASSUME NEW m \in Msgs, StampMessage(m) PROVE SkipInv'
  <2>1. /\ received[m] = 0 /\ received' = [received EXCEPT ![m] = now]
        /\ UNCHANGED <<row, exporter, disk, collected, bounds, history>>
    BY <1>7, RowSteps
  <2>2. row[m] = "none"
    BY <2>1 DEF RowInv
  <2> QED
    BY <2>1, <2>2 DEF SkipInv, Behind, UnderWay, table, disk, bounds, history, TypeOK
<1>8. ASSUME NEW m \in Msgs, CreateMessage(m) PROVE SkipInv'
  <2>1. /\ row' = [row EXCEPT ![m] = "there"] /\ late' = IF received[m] <= Behind THEN late \cup {m} ELSE late
        /\ UNCHANGED <<received, exporter, disk, collected, bounds, written, tied, replays>>
    BY <1>8, RowSteps
  <2>2. Behind' = Behind /\ UnderWay' = UnderWay
    BY <2>1 DEF Behind, UnderWay, disk
  <2> QED
    BY <2>1, <2>2 DEF SkipInv, TypeOK
<1>9. ASSUME NEW m \in Msgs, DeleteMessage(m) PROVE SkipInv'
  <2>1. /\ row' = [row EXCEPT ![m] = "deleted"]
        /\ UNCHANGED <<received, exporter, disk, collected, bounds, history>>
    BY <1>9, RowSteps
  <2>2. Behind' = Behind /\ UnderWay' = UnderWay
    BY <2>1 DEF Behind, UnderWay, disk
  <2> QED
    BY <2>1, <2>2 DEF SkipInv, TypeOK, history
<1>10. ASSUME NEW f \in DOMAIN files, Collect(f) PROVE SkipInv'
  BY <1>10, CollectEffect DEF SkipInv, Behind, UnderWay, table, disk, bounds, history
<1>11. ASSUME UNCHANGED vars PROVE SkipInv'
  BY <1>11 DEF vars, SkipInv, Behind, UnderWay, table, disk, bounds, history
<1> QED
  BY <1>1, <1>2, <1>3, <1>4, <1>5, <1>6, <1>7, <1>8, <1>9, <1>10, <1>11 DEF Next, Export

(* Without a replay, what is written is not above the watermark. *)
LEMMA OnceStep ==
    ASSUME TypeOK, RowInv, ExportInv, OnceInv, [Next]_vars
    PROVE  OnceInv'
<1>1. ASSUME Tick PROVE OnceInv'
  BY <1>1 DEF Tick, OnceInv, Marked, table, disk, bounds, history
<1>2. ASSUME ReadWatermark PROVE OnceInv'
  BY <1>2, ReadWatermarkEffect DEF OnceInv, Marked, table, disk, bounds, history
<1>3. ASSUME ListMessagesAfter PROVE OnceInv'
  BY <1>3, ListMessagesAfterEffect DEF ListsNothing, Lists, OnceInv, Marked, table
<1>4. ASSUME WriteCSV PROVE OnceInv'
  <2>1. /\ exporter.pc \in {"wait", "list", "write", "mark"} /\ exporter.last \in Nat /\ exporter.after \in Nat
        /\ watermark \in Nat /\ received \in [Msgs -> Nat] /\ written \in [Msgs -> Nat] /\ replays \in Nat
    BY ExporterFields DEF TypeOK, Times
  <2>2. /\ exporter.after = watermark /\ exporter.last > watermark
        /\ \A m \in exporter.batch : watermark < received[m] /\ received[m] <= exporter.last
    BY <1>4, WriteCSVEffect DEF TypeOK, ExportInv
  <2>3. /\ exporter.pc = "write" /\ exporter'.pc = "mark" /\ exporter'.last = exporter.last
        /\ \A m \in Msgs : written'[m] = written[m] + IF m \in exporter.batch THEN 1 ELSE 0
        /\ UNCHANGED <<received, watermark, replays>>
    BY <1>4, WriteCSVEffect DEF table
  <2>4. ASSUME replays = 0, NEW m \in Msgs
        PROVE  written'[m] <= 1 /\ (written'[m] = 1 => received[m] <= exporter.last)
    <3>1. written[m] <= 1 /\ (written[m] = 1 => received[m] <= watermark) /\ written[m] \in Nat
      BY <2>1, <2>3, <2>4 DEF OnceInv, Marked
    <3> QED
      BY <2>1, <2>2, <2>3, <3>1
  <2> QED
    BY <2>3, <2>4 DEF OnceInv, Marked
<1>5. ASSUME WriteWatermark PROVE OnceInv'
  BY <1>5, WriteWatermarkEffect DEF OnceInv, Marked, table, disk, bounds, history
<1>6. ASSUME ExportFails \/ Crash PROVE OnceInv'
  <2>1. /\ exporter.pc \in {"wait", "list", "write", "mark"} /\ exporter.last \in Nat /\ exporter.after \in Nat
        /\ watermark \in Nat /\ received \in [Msgs -> Nat] /\ written \in [Msgs -> Nat] /\ replays \in Nat
    BY ExporterFields DEF TypeOK, Times
  <2>2. Stops
    BY <1>6, StopsEffect
  <2> QED
    BY <2>1, <2>2 DEF Stops, OnceInv, Marked, table
<1>7. ASSUME NEW m \in Msgs, StampMessage(m) PROVE OnceInv'
  <2>1. /\ received[m] = 0 /\ received' = [received EXCEPT ![m] = now]
        /\ UNCHANGED <<row, exporter, disk, collected, bounds, history>>
    BY <1>7, RowSteps
  <2>2. /\ exporter.pc \in {"wait", "list", "write", "mark"} /\ exporter.last \in Nat /\ exporter.after \in Nat
        /\ watermark \in Nat /\ received \in [Msgs -> Nat] /\ written \in [Msgs -> Nat] /\ replays \in Nat
    BY ExporterFields DEF TypeOK, Times
  <2>3. written[m] = 0
    BY <2>1, <2>2 DEF RowInv
  <2> QED
    BY <2>1, <2>2, <2>3 DEF OnceInv, Marked, disk, history
<1>8. ASSUME NEW m \in Msgs, CreateMessage(m) PROVE OnceInv'
  BY <1>8, RowSteps DEF OnceInv, Marked, disk
<1>9. ASSUME NEW m \in Msgs, DeleteMessage(m) PROVE OnceInv'
  BY <1>9, RowSteps DEF OnceInv, Marked, table, disk, bounds, history
<1>10. ASSUME NEW f \in DOMAIN files, Collect(f) PROVE OnceInv'
  BY <1>10, CollectEffect DEF OnceInv, Marked, table, disk, bounds, history
<1>11. ASSUME UNCHANGED vars PROVE OnceInv'
  BY <1>11 DEF vars, OnceInv, Marked, table, disk, bounds, history
<1> QED
  BY <1>1, <1>2, <1>3, <1>4, <1>5, <1>6, <1>7, <1>8, <1>9, <1>10, <1>11 DEF Next, Export

(* Without a restart no file with rows is truncated. *)
LEMMA FileStep ==
    ASSUME TypeOK, ExportInv, FileInv, [Next]_vars
    PROVE  FileInv'
<1>1. ASSUME Tick PROVE FileInv'
  BY <1>1 DEF Tick, FileInv, InFile, table, disk, bounds, history
<1>2. ASSUME ReadWatermark PROVE FileInv'
  BY <1>2, ReadWatermarkEffect DEF FileInv, InFile, table, disk, bounds, history
<1>3. ASSUME ListMessagesAfter PROVE FileInv'
  <2>1. UNCHANGED <<crashes, written, collected>>
    BY <1>3, ListMessagesAfterEffect DEF bounds
  <2>2. CASE ListsNothing
    BY <2>1, <2>2 DEF ListsNothing, FileInv, InFile
  <2>3. ASSUME NEW B \in SUBSET Msgs, Lists(B), crashes = 0 PROVE FileInv'
    <3>1. /\ NextFilename[2] = exporter.seq + 1 /\ exporter'.seq = exporter.seq + 1
          /\ files' = Holding(NextFilename, {})
      BY <2>3 DEF Lists
    <3>2. \A f \in DOMAIN files : f[2] <= exporter.seq /\ f[2] \in Nat
      BY <2>3 DEF FileInv, TypeOK, Names
    <3>3. exporter.seq \in Nat
      BY ExporterFields
    <3>4. NextFilename \notin DOMAIN files
      BY <3>1, <3>2, <3>3
    <3>5. DOMAIN files' = DOMAIN files \cup {NextFilename} /\ \A f \in DOMAIN files : files'[f] = files[f]
      BY <3>1, <3>4 DEF Holding
    <3>6. \A f \in DOMAIN files' : f[2] <= exporter'.seq
      BY <3>1, <3>2, <3>3, <3>5
    <3>7. \A m \in Msgs : written'[m] > 0 /\ m \notin collected' => InFile(m)'
      BY <2>1, <2>3, <3>5 DEF FileInv, InFile
    <3> QED
      BY <3>6, <3>7 DEF FileInv
  <2> QED
    BY <1>3, <2>1, <2>2, <2>3, ListMessagesAfterEffect DEF FileInv
<1>4. ASSUME WriteCSV PROVE FileInv'
  <2>1. /\ exporter.pc = "write" /\ exporter'.seq = exporter.seq /\ files' = Holding(exporter.file, exporter.batch)
        /\ \A m \in Msgs : written'[m] = written[m] + IF m \in exporter.batch THEN 1 ELSE 0
        /\ UNCHANGED <<crashes, collected>>
    BY <1>4, WriteCSVEffect DEF bounds
  <2>2. exporter.file \in DOMAIN files /\ files[exporter.file] = {}
    BY <2>1 DEF ExportInv
  <2>3. /\ DOMAIN files' = DOMAIN files /\ files'[exporter.file] = exporter.batch
        /\ \A f \in DOMAIN files : files[f] \subseteq files'[f]
    <3>1. DOMAIN files' = DOMAIN files /\ files'[exporter.file] = exporter.batch
      BY <2>1, <2>2 DEF Holding
    <3>2. \A f \in DOMAIN files : f # exporter.file => files'[f] = files[f]
      BY <2>1 DEF Holding
    <3>3. ASSUME NEW f \in DOMAIN files PROVE files[f] \subseteq files'[f]
      BY <2>2, <3>1, <3>2
    <3> QED
      BY <3>1, <3>3
  <2>4. \A m \in Msgs : written'[m] > 0 => written[m] > 0 \/ m \in exporter.batch
    BY <2>1 DEF TypeOK
  <2>5. \A m \in Msgs : InFile(m) \/ m \in exporter.batch => InFile(m)'
    BY <2>2, <2>3 DEF InFile
  <2> QED
    BY <2>1, <2>3, <2>4, <2>5 DEF FileInv
<1>5. ASSUME WriteWatermark PROVE FileInv'
  BY <1>5, WriteWatermarkEffect DEF FileInv, InFile, table, disk, bounds, history
<1>6. ASSUME ExportFails \/ Crash PROVE FileInv'
  <2>1. Stops
    BY <1>6, StopsEffect
  <2>2. \A m \in Msgs : InFile(m) => InFile(m)'
    BY <2>1 DEF Stops, InFile
  <2> QED
    BY <2>1, <2>2 DEF Stops, FileInv
<1>7. ASSUME NEW m \in Msgs, StampMessage(m) PROVE FileInv'
  BY <1>7, RowSteps DEF FileInv, InFile, table, disk, bounds, history
<1>8. ASSUME NEW m \in Msgs, CreateMessage(m) PROVE FileInv'
  BY <1>8, RowSteps DEF FileInv, InFile, disk, bounds
<1>9. ASSUME NEW m \in Msgs, DeleteMessage(m) PROVE FileInv'
  BY <1>9, RowSteps DEF FileInv, InFile, table, disk, bounds, history
<1>10. ASSUME NEW f \in DOMAIN files, Collect(f) PROVE FileInv'
  <2>1. /\ DOMAIN files' = DOMAIN files \ {f} /\ \A g \in DOMAIN files' : files'[g] = files[g]
        /\ collected' = collected \cup files[f] /\ UNCHANGED <<exporter, bounds, history>>
    BY <1>10, CollectEffect
  <2>2. \A m \in Msgs : InFile(m) => InFile(m)' \/ m \in collected'
    BY <2>1 DEF InFile
  <2> QED
    BY <2>1, <2>2 DEF FileInv, bounds, history
<1>11. ASSUME UNCHANGED vars PROVE FileInv'
  BY <1>11 DEF vars, FileInv, InFile, table, disk, bounds, history
<1> QED
  BY <1>1, <1>2, <1>3, <1>4, <1>5, <1>6, <1>7, <1>8, <1>9, <1>10, <1>11 DEF Next, Export

----------------------------------------------------------------------------
(* The theorems *)

BillingInv == TypeOK /\ RowInv /\ ExportInv /\ SkipInv /\ OnceInv /\ FileInv

LEMMA BillingInvInit == Init => BillingInv
<1> SUFFICES ASSUME Init PROVE BillingInv
  OBVIOUS
<1>1. exporter \in ExporterState /\ exporter.pc = "wait" /\ exporter.seq = 0
  BY IdleFields DEF Init
<1>2. TypeOK
  <2>1. now \in Times /\ 0 \in Times
    BY BillingConstants DEF Init, Times
  <2> QED
    BY <1>1, <2>1 DEF Init, TypeOK
<1>3. RowInv /\ ExportInv /\ FileInv
  BY <1>1 DEF Init, RowInv, ExportInv, FileInv, InFile
<1>4. SkipInv /\ OnceInv
  BY <1>1 DEF Init, SkipInv, OnceInv
<1> QED
  BY <1>2, <1>3, <1>4 DEF BillingInv

(* The invariant is inductive. *)
LEMMA BillingInvariant == Spec => []BillingInv
<1>1. BillingInv /\ [Next]_vars => BillingInv'
  BY TypeStep, RowStep, ExportStep, SkipStep, OnceStep, FileStep DEF BillingInv
<1> QED
  BY <1>1, BillingInvInit, PTL DEF Spec

(* The exporter, the watermark and the files have their types, and an      *)
(* export that writes has rows and a last one above its watermark.         *)
THEOREM BillingTypes == Spec => []TypeOK
  BY BillingInvariant, PTL DEF BillingInv

(* A row is written twice only if some file was written and its watermark  *)
(* was not (exporter.go, export).                                          *)
THEOREM DuplicateIsAReplay == Spec => []DuplicateNeedsReplay
<1>1. BillingInv => DuplicateNeedsReplay
  <2> SUFFICES ASSUME BillingInv, NEW m \in Msgs, written[m] > 1 PROVE replays > 0
    BY DEF DuplicateNeedsReplay
  <2>1. replays \in Nat /\ written[m] \in Nat
    BY DEF BillingInv, TypeOK
  <2> QED
    BY <2>1 DEF BillingInv, OnceInv
<1> QED
  BY <1>1, BillingInvariant, PTL

(* A row the watermark has passed was written, unless it was inserted      *)
(* behind a listing or the limit cut through its time (ListMessagesAfter). *)
THEOREM SkippedRowHasCause == Spec => []SkippedHasCause
<1>1. BillingInv => SkippedHasCause
  <2> SUFFICES ASSUME BillingInv, NEW m \in Msgs, Passed(m), written[m] = 0 PROVE m \in late \cup tied
    BY DEF SkippedHasCause
  <2>1. /\ exporter.pc \in {"wait", "list", "write", "mark"} /\ exporter.last \in Nat /\ exporter.after \in Nat
        /\ watermark \in Nat /\ received[m] \in Nat
    BY ExporterFields DEF BillingInv, TypeOK, Times
  <2>2. exporter.pc \in {"write", "mark"} => exporter.last > exporter.after /\ exporter.after = watermark
    BY DEF BillingInv, TypeOK, ExportInv
  <2>3. row[m] = "there" /\ received[m] <= watermark
    BY DEF Passed
  <2>4. received[m] <= Behind
    BY <2>1, <2>2, <2>3 DEF Behind
  <2>5. m \notin UnderWay
    BY <2>1, <2>2, <2>3 DEF BillingInv, ExportInv, UnderWay
  <2> QED
    BY <2>3, <2>4, <2>5 DEF BillingInv, SkipInv
<1> QED
  BY <1>1, BillingInvariant, PTL

(* A written row that was not collected is in a file, unless the process   *)
(* started again and a name came back within its minute (nextFilename).    *)
THEOREM LostRowNeedsRestart == Spec => []LostNeedsRestart
<1>1. BillingInv => LostNeedsRestart
  <2> SUFFICES ASSUME BillingInv, NEW m \in Msgs, written[m] > 0, m \notin collected, ~InFile(m) PROVE crashes > 0
    BY DEF LostNeedsRestart
  <2>1. crashes \in Nat
    BY DEF BillingInv, TypeOK
  <2> QED
    BY <2>1 DEF BillingInv, FileInv
<1> QED
  BY <1>1, BillingInvariant, PTL
=============================================================================
