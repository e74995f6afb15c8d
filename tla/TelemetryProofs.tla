------------------------ MODULE TelemetryProofs ------------------------
(***************************************************************************)
(* Proofs about the telemetry that santad writes.                          *)
(*                                                                         *)
(* TelemetryExport and the Spool it extends, for any batchers, sizes,      *)
(* limits and bounds: how many records an error can cost, that the spool   *)
(* stays within its limit, and that no file leaves it before the server    *)
(* has it.  ProcessTree, which annotates the records, for any window,      *)
(* processes and events: a late event still takes effect, nothing leaves   *)
(* the tree early, and the originator is inherited.  The two parts share   *)
(* neither variables nor lemmas.                                           *)
(***************************************************************************)
EXTENDS TelemetryExport, ProcessTree, FiniteSetTheorems, SequenceTheorems,
        WellFoundedInduction, TLAPS

Records == 1..MaxRecords
Files == [recs : SUBSET Records, type : Batchers \cup {"none"}]
Trackers == UNION {[D -> BOOLEAN] : D \in SUBSET Nat}

WriterTypes ==
  /\ batcher \in Batchers
  /\ cache \in SUBSET Records /\ accepted \in SUBSET Records
  /\ fd \in {"closed", "open", "broken"}
  /\ acc \in Nat
  /\ files \in Seq(Files) /\ spool \in SUBSET (DOMAIN files)
  /\ job \in {"none", "flush", "complete", "record"} /\ after \in {"none", "record"}
  /\ records \in 0..MaxRecords /\ (job = "record" \/ after = "record" => records > 0)
  /\ faults \in Nat /\ crashes \in Nat

(* A batch has no more records than bytes were accumulated, and a file that *)
(* is being completed is open if it has records.                            *)
BatchInv ==
  /\ Cardinality(cache) <= acc /\ acc <= Leniency
  /\ fd = "closed" /\ cache # {} => batcher = "any" /\ job # "complete"

Lost == accepted \ (cache \cup Spooled)
LossInv == BatchInv /\ Cardinality(Lost) <= (faults + crashes) * Leniency

(* The estimate is above the limit or covers the directory, and a file is   *)
(* only open when it was below.                                             *)
SpaceInv ==
  /\ est \in Nat
  /\ est > MaxSpool \/ Bytes <= est
  /\ fd # "closed" => est <= MaxSpool
  /\ SpoolBounded

Accounted == received \cup discarded
Completed(t) == {f \in DOMAIN t : t[f]}

ExportInv ==
  /\ tracker \in Trackers /\ acks \in Seq(Trackers)
  /\ reply = "pending" => step = "wait" /\ toAck \subseteq handles
  /\ reply = "running" => toAck \subseteq received
  /\ late \subseteq Accounted
  /\ handles \subseteq Nat /\ toAck \subseteq Nat /\ late \subseteq Nat
  /\ Completed(tracker) \subseteq Accounted
  /\ \A i \in 1..Len(acks) : Completed(acks[i]) \subseteq Accounted
  /\ DOMAIN files \ spool \subseteq Accounted
-----------------------------------------------------------------------------
(* The steps of the writer *)

LEMMA WriterTypesInit == WriterInit => WriterTypes
BY SpoolAssumption DEF WriterInit, WriterTypes

LEMMA NaturalLimits ==
  /\ Threshold \in Nat /\ Leniency \in Nat /\ Threshold > 0 /\ Leniency >= Threshold
  /\ MaxSpool \in Nat /\ MaxRecords \in Nat /\ MaxFailures \in Nat
  /\ Cluster \in Nat /\ Cluster > 0
BY SpoolAssumption DEF SpoolAssumption

LEMMA PublishedTypes ==
  ASSUME WriterTypes, NEW recs \in SUBSET Records, Publish(recs)
  PROVE  /\ files' \in Seq(Files) /\ spool' \in SUBSET (DOMAIN files')
         /\ Len(files') = Len(files) + 1 /\ DOMAIN files' = DOMAIN files \cup {Len(files')}
         /\ \A f \in DOMAIN files : files'[f] = files[f]
         /\ files'[Len(files')].recs = recs
         /\ spool' = spool \cup {Len(files')} /\ Len(files') \notin DOMAIN files
<1> PICK magic \in Batchers \cup {"none"} : files' = Append(files, [recs |-> recs, type |-> magic])
  BY DEF Publish, WriterTypes
<1> DEFINE e == [recs |-> recs, type |-> magic]
<1>1. e \in Files
  BY DEF Files
<1>2. files \in Seq(Files) /\ spool \subseteq DOMAIN files
  BY DEF WriterTypes
<1>3. files' = Append(files, e) /\ spool' = spool \cup {Len(files')}
  BY DEF Publish
<1>4. e.recs = recs
  OBVIOUS
<1> HIDE DEF e
<1>5. files' \in Seq(Files) /\ Len(files') = Len(files) + 1
  BY <1>1, <1>2, <1>3 DEF e
<1>6. Len(files) \in Nat /\ DOMAIN files = 1..Len(files) /\ DOMAIN files' = 1..Len(files')
  BY <1>2, <1>5
<1>7. files'[Len(files')] = e /\ \A f \in DOMAIN files : files'[f] = files[f]
  BY <1>2, <1>3, <1>5, <1>6
<1> QED
  BY <1>2, <1>3, <1>4, <1>5, <1>6, <1>7

LEMMA FinishedTypes ==
  ASSUME WriterTypes, NEW ok \in BOOLEAN, CompleteCurrentSpoolState(ok)
  PROVE  /\ fd' \in {"closed", "open", "broken"} /\ cache' \in SUBSET Records
         /\ faults' \in Nat /\ crashes' \in Nat
         /\ \/ UNCHANGED disk
            \/ \E recs \in SUBSET Records : Publish(recs)
BY DEF CompleteCurrentSpoolState, WriterTypes, Fault, bounds

LEMMA WriterStepDisk ==
  ASSUME WriterTypes, WriterStep \/ BeginWrite \/ BeginFlush
  PROVE  UNCHANGED disk \/ \E recs \in SUBSET Records : Publish(recs)
BY FinishedTypes DEF WriterStep, BeginWrite, BeginFlush, FlushInitialize, FlushComplete, WriteRecord

(* What opening the file can do to its state.                               *)
LEMMA Initialized ==
  ASSUME NEW r \in {"ok", "full", "error"}, InitializeCurrentSpoolStateIfNeeded(r),
         fd \in {"closed", "open", "broken"}
  PROVE  /\ fd' \in {"closed", "open", "broken"} /\ (fd' = "closed" => fd = "closed")
         /\ r = "ok" => (fd' = "closed" => ~NeedToOpenFile)
BY DEF InitializeCurrentSpoolStateIfNeeded

(* A record is accepted or it is dropped.                                   *)
LEMMA WriteRecordEffect ==
  ASSUME WriterTypes, WriteRecord
  PROVE  /\ records \in Records /\ job' = "none" /\ after' = "none"
         /\ (fd' = "closed" => fd = "closed")
         /\ \/ Accept /\ acc < Leniency /\ (batcher # "any" => fd' # "closed")
            \/ UNCHANGED <<cache, acc, accepted>>
<1>1. records \in Records /\ job' = "none" /\ after' = "none"
  BY NaturalLimits DEF WriteRecord, WriterTypes, Records
<1>2. CASE acc < Leniency /\ ~ShouldInitializeBeforeWrite /\ Accept /\ UNCHANGED <<fd, spaceFailed, estimate, bounds>>
  BY <1>1, <1>2 DEF ShouldInitializeBeforeWrite
<1>3. ASSUME acc < Leniency, ShouldInitializeBeforeWrite, NEW r \in {"ok", "full", "error"},
             InitializeCurrentSpoolStateIfNeeded(r),
             IF r = "ok" THEN Accept ELSE UNCHANGED <<cache, acc, accepted>>
      PROVE  /\ (fd' = "closed" => fd = "closed")
             /\ \/ Accept /\ acc < Leniency /\ (batcher # "any" => fd' # "closed")
                \/ UNCHANGED <<cache, acc, accepted>>
  <2>1. (fd' = "closed" => fd = "closed") /\ (r = "ok" => (fd' = "closed" => ~NeedToOpenFile))
    BY <1>3, Initialized DEF WriterTypes
  <2>2. ~NeedToOpenFile => batcher = "any"
    BY DEF NeedToOpenFile
  <2> QED
    BY <1>3, <2>1, <2>2
<1>4. CASE UNCHANGED <<cache, fd, acc, accepted>>
  BY <1>1, <1>4
<1> QED
  <2>1. \/ acc < Leniency /\ ~ShouldInitializeBeforeWrite /\ Accept /\ UNCHANGED <<fd, spaceFailed, estimate, bounds>>
        \/ \E r \in {"ok", "full", "error"} :
              /\ acc < Leniency /\ ShouldInitializeBeforeWrite
              /\ InitializeCurrentSpoolStateIfNeeded(r)
              /\ IF r = "ok" THEN Accept ELSE UNCHANGED <<cache, acc, accepted>>
        \/ UNCHANGED <<cache, fd, acc, accepted>>
    BY DEF WriteRecord
  <2> QED
    BY <1>1, <1>2, <1>3, <1>4, <2>1

LEMMA WriterTypesStep ==
  ASSUME WriterTypes, WriterStep \/ BeginWrite \/ BeginFlush
  PROVE  WriterTypes'
<1>1. files' \in Seq(Files) /\ spool' \in SUBSET (DOMAIN files')
  BY WriterStepDisk, PublishedTypes DEF disk, WriterTypes
<1>2. CASE BeginWrite
  BY <1>1, <1>2, NaturalLimits DEF BeginWrite, WriterTypes, batch, disk, bounds, StartFlush
<1>3. CASE BeginFlush
  BY <1>1, <1>3 DEF BeginFlush, WriterTypes, batch, disk, bounds, StartFlush
<1>4. CASE FlushInitialize
  BY <1>1, <1>4 DEF FlushInitialize, WriterTypes, disk, bounds, Fault, InitializeCurrentSpoolStateIfNeeded
<1>5. CASE FlushComplete
  BY <1>1, <1>5, FinishedTypes DEF FlushComplete, WriterTypes
<1>6. CASE WriteRecord
  <2>1. /\ cache' \in SUBSET Records /\ accepted' \in SUBSET Records /\ acc' \in Nat
        /\ job' = "none" /\ after' = "none"
    BY <1>6, WriteRecordEffect DEF Accept, WriterTypes
  <2>2. fd' \in {"closed", "open", "broken"} /\ faults' \in Nat /\ crashes' \in Nat
    BY <1>6 DEF WriteRecord, WriterTypes, bounds, Fault, InitializeCurrentSpoolStateIfNeeded
  <2> QED
    BY <1>1, <1>6, <2>1, <2>2 DEF WriteRecord, WriterTypes
<1> QED
  BY <1>2, <1>3, <1>4, <1>5, <1>6 DEF WriterStep
-----------------------------------------------------------------------------
(* The batch *)

LEMMA BatchInvInit == WriterInit => BatchInv
BY NaturalLimits, FS_EmptySet DEF WriterInit, BatchInv

LEMMA CacheFinite ==
  ASSUME NEW S \in SUBSET Records
  PROVE  IsFiniteSet(S) /\ Cardinality(S) \in Nat
<1>1. IsFiniteSet(Records)
  BY NaturalLimits, FS_Interval DEF Records
<1>2. IsFiniteSet(S)
  BY <1>1, FS_Subset
<1> QED
  BY <1>2, FS_CardinalityType

LEMMA AcceptKeepsCount ==
  ASSUME WriterTypes, BatchInv, records \in Records, Accept, acc < Leniency
  PROVE  Cardinality(cache') <= acc' /\ acc' <= Leniency
<1>1. IsFiniteSet(cache) /\ Cardinality(cache) \in Nat
  BY CacheFinite DEF WriterTypes
<1>2. Cardinality(cache \cup {records}) \in {Cardinality(cache), Cardinality(cache) + 1}
  BY <1>1, FS_AddElement
<1> QED
  BY <1>1, <1>2, NaturalLimits DEF Accept, WriterTypes, BatchInv

LEMMA BatchInvStep ==
  ASSUME WriterTypes, BatchInv, WriterStep \/ BeginWrite \/ BeginFlush
  PROVE  BatchInv'
<1>1. CASE BeginWrite
  BY <1>1 DEF BeginWrite, BatchInv, batch, StartFlush, ShouldInitializeBeforeWrite
<1>2. CASE BeginFlush
  BY <1>2 DEF BeginFlush, BatchInv, batch, StartFlush, ShouldInitializeBeforeWrite
<1>3. CASE FlushInitialize
  <2>1. PICK r \in {"ok", "full", "error"} :
          InitializeCurrentSpoolStateIfNeeded(r) /\ job' = IF r = "ok" THEN "complete" ELSE after
    BY <1>3 DEF FlushInitialize
  <2>2. (fd' = "closed" => fd = "closed") /\ (r = "ok" => (fd' = "closed" => ~NeedToOpenFile))
    BY <2>1, Initialized DEF WriterTypes
  <2>3. ~NeedToOpenFile => cache = {}
    BY DEF NeedToOpenFile
  <2>4. UNCHANGED <<batcher, cache, acc>> /\ after # "complete"
    BY <1>3 DEF FlushInitialize, WriterTypes
  <2> QED
    BY <2>1, <2>2, <2>3, <2>4 DEF BatchInv
<1>4. CASE FlushComplete
  <2>1. PICK ok \in BOOLEAN : CompleteCurrentSpoolState(ok) /\ acc' = IF ok THEN 0 ELSE acc
    BY <1>4 DEF FlushComplete
  <2>2. job = "complete" /\ job' = after /\ batcher' = batcher /\ after # "complete"
    BY <1>4 DEF FlushComplete, WriterTypes
  <2>3. CASE cache' = {}
    BY <2>1, <2>2, <2>3, FS_EmptySet, NaturalLimits DEF BatchInv, WriterTypes
  <2>4. CASE cache' # {}
    <3>1. ~ok /\ batcher = "any" /\ UNCHANGED cache
      BY <2>1, <2>2, <2>4 DEF CompleteCurrentSpoolState, BatchInv, disk
    <3> QED
      BY <2>1, <2>2, <3>1 DEF BatchInv
  <2> QED
    BY <2>3, <2>4
<1>5. CASE WriteRecord
  <2>1. /\ records \in Records /\ job' = "none" /\ batcher' = batcher
        /\ (fd' = "closed" => fd = "closed")
    BY <1>5, WriteRecordEffect DEF WriteRecord
  <2>2. CASE Accept /\ acc < Leniency /\ (batcher # "any" => fd' # "closed")
    BY <2>1, <2>2, AcceptKeepsCount DEF BatchInv
  <2>3. CASE UNCHANGED <<cache, acc, accepted>>
    BY <2>1, <2>3 DEF BatchInv
  <2> QED
    BY <1>5, <2>2, <2>3, WriteRecordEffect
<1> QED
  BY <1>1, <1>2, <1>3, <1>4, <1>5 DEF WriterStep
-----------------------------------------------------------------------------
(* The loss *)

LEMMA SpooledGrows ==
  ASSUME WriterTypes, NEW recs \in SUBSET Records, Publish(recs)
  PROVE  Spooled' = Spooled \cup recs
<1>1. /\ DOMAIN files' = DOMAIN files \cup {Len(files')}
      /\ \A f \in DOMAIN files : files'[f] = files[f]
      /\ files'[Len(files')].recs = recs
  BY PublishedTypes
<1>2. ASSUME NEW x PROVE x \in Spooled' <=> x \in Spooled \cup recs
  <2>1. x \in Spooled' <=> \E f \in DOMAIN files' : x \in files'[f].recs
    BY DEF Spooled
  <2>2. x \in Spooled <=> \E f \in DOMAIN files : x \in files[f].recs
    BY DEF Spooled
  <2> QED
    BY <1>1, <2>1, <2>2
<1> QED
  BY <1>2

(* One more error pays for one more batch.                                  *)
LEMMA OneBatchMore ==
  ASSUME NEW A \in SUBSET Records, NEW B \in SUBSET Records, NEW C \in SUBSET Records,
         NEW k \in Nat, NEW m \in Nat, C \subseteq A \cup B, m >= k + 1,
         Cardinality(A) <= k * Leniency, Cardinality(B) <= Leniency
  PROVE  Cardinality(C) <= m * Leniency
<1>1. IsFiniteSet(A) /\ IsFiniteSet(B) /\ A \cup B \in SUBSET Records /\ A \cap B \in SUBSET Records
  BY CacheFinite
<1>2. Cardinality(A \cup B) = Cardinality(A) + Cardinality(B) - Cardinality(A \cap B)
  BY <1>1, FS_Union
<1>3. /\ Cardinality(A) \in Nat /\ Cardinality(B) \in Nat /\ Cardinality(C) \in Nat
      /\ Cardinality(A \cup B) \in Nat /\ Cardinality(A \cap B) \in Nat /\ IsFiniteSet(A \cup B)
  BY <1>1, CacheFinite
<1>4. Cardinality(C) <= Cardinality(A \cup B)
  BY <1>3, FS_Subset
<1>5. \A i \in Nat, j \in Nat, l \in Nat : i >= j + 1 => i * l >= j * l + l
  OBVIOUS
<1>6. m * Leniency >= k * Leniency + Leniency /\ k * Leniency \in Nat /\ m * Leniency \in Nat
  BY <1>5, NaturalLimits
<1> HIDE <1>5
<1> QED
  BY <1>2, <1>3, <1>4, <1>6, NaturalLimits

LEMMA NoBatchMore ==
  ASSUME NEW A \in SUBSET Records, NEW C \in SUBSET Records, C \subseteq A,
         NEW k \in Nat, NEW m \in Nat, m >= k, Cardinality(A) <= k * Leniency
  PROVE  Cardinality(C) <= m * Leniency
<1>1. Cardinality(A) \in Nat /\ Cardinality(C) \in Nat /\ Cardinality(C) <= Cardinality(A)
  BY CacheFinite, FS_Subset
<1>2. \A i \in Nat, j \in Nat, l \in Nat : i >= j => i * l >= j * l
  OBVIOUS
<1>3. m * Leniency >= k * Leniency /\ k * Leniency \in Nat /\ m * Leniency \in Nat
  BY <1>2, NaturalLimits
<1> QED
  BY <1>1, <1>3

(* What a flush loses: nothing, or the batch for one error.                 *)
LEMMA FlushLoss ==
  ASSUME WriterTypes, BatchInv, job = "complete", NEW ok \in BOOLEAN, CompleteCurrentSpoolState(ok),
         UNCHANGED accepted
  PROVE  \/ Lost' \subseteq Lost /\ UNCHANGED bounds
         \/ Lost' \subseteq Lost \cup cache /\ faults' = faults + 1 /\ UNCHANGED crashes
<1>1. CASE UNCHANGED <<cache, disk>>
  BY <1>1 DEF Lost, Spooled, disk, CompleteCurrentSpoolState, Fault, bounds
<1>2. CASE Publish(cache) /\ cache' = {} /\ UNCHANGED bounds
  BY <1>2, SpooledGrows DEF Lost, WriterTypes
<1>3. ASSUME NEW part \in SUBSET cache, Publish(part), Fault
      PROVE  Lost' \subseteq Lost \cup cache /\ faults' = faults + 1 /\ UNCHANGED crashes
  <2>1. Spooled' = Spooled \cup part
    BY <1>3, SpooledGrows DEF WriterTypes
  <2> QED
    BY <1>3, <2>1 DEF Lost, Fault
<1>4. CASE UNCHANGED disk /\ Fault
  BY <1>4 DEF Lost, Spooled, disk, Fault
<1> QED
  BY <1>1, <1>2, <1>3, <1>4 DEF CompleteCurrentSpoolState

LEMMA WriterLoss ==
  ASSUME WriterTypes, BatchInv, WriterStep \/ BeginWrite \/ BeginFlush
  PROVE  \/ Lost' \subseteq Lost /\ faults' >= faults /\ UNCHANGED crashes
         \/ Lost' \subseteq Lost \cup cache /\ faults' = faults + 1 /\ UNCHANGED crashes
<1>1. CASE BeginWrite \/ BeginFlush
  BY <1>1 DEF BeginWrite, BeginFlush, Lost, Spooled, batch, disk, bounds, WriterTypes
<1>2. CASE FlushInitialize
  <2>1. UNCHANGED <<files, cache, accepted>>
    BY <1>2 DEF FlushInitialize, disk
  <2>2. faults' >= faults /\ UNCHANGED crashes
    BY <1>2 DEF FlushInitialize, InitializeCurrentSpoolStateIfNeeded, Fault, bounds, WriterTypes
  <2> QED
    BY <2>1, <2>2 DEF Lost, Spooled
<1>3. CASE FlushComplete
  BY <1>3, FlushLoss DEF FlushComplete, bounds, WriterTypes
<1>4. CASE WriteRecord
  <2>1. UNCHANGED files /\ (Accept \/ UNCHANGED <<cache, acc, accepted>>)
    BY <1>4, WriteRecordEffect DEF WriteRecord, disk
  <2>2. Lost' \subseteq Lost
    BY <2>1 DEF Lost, Spooled, Accept
  <2>3. faults' >= faults /\ UNCHANGED crashes
    BY <1>4 DEF WriteRecord, InitializeCurrentSpoolStateIfNeeded, Fault, bounds, WriterTypes
  <2> QED
    BY <2>2, <2>3
<1> QED
  BY <1>1, <1>2, <1>3, <1>4 DEF WriterStep
-----------------------------------------------------------------------------
(* The writer beside the export *)

(* A start of the daemon: the batch is gone, the files stay.                *)
LEMMA RestartKeeps ==
  ASSUME WriterTypes, Restart
  PROVE  /\ WriterTypes' /\ BatchInv' /\ UNCHANGED disk
         /\ Lost' \subseteq Lost \cup cache /\ crashes' = crashes + 1 /\ UNCHANGED faults
<1>1. UNCHANGED disk /\ UNCHANGED <<files, spool>> /\ UNCHANGED <<records, accepted, faults>>
  BY DEF Restart, disk
<1>2. /\ batcher' \in Batchers /\ cache' = {} /\ fd' = "closed" /\ acc' = 0
      /\ job' = "none" /\ after' = "none" /\ crashes' = crashes + 1
  BY DEF Restart
<1>3. WriterTypes'
  BY <1>1, <1>2 DEF WriterTypes
<1>4. BatchInv'
  BY <1>2, NaturalLimits, FS_EmptySet DEF BatchInv
<1>5. Lost' \subseteq Lost \cup cache
  BY <1>1, <1>2 DEF Lost, Spooled
<1> QED
  BY <1>1, <1>2, <1>3, <1>4, <1>5

(* The steps of the export leave the writer alone; one may meet an error,   *)
(* and files may leave the spool.                                           *)
Beside ==
  /\ UNCHANGED <<batcher, cache, fd, acc, est, files, job, after, records, accepted, crashes>>
  /\ spool' \subseteq spool
  /\ faults' \in {faults, faults + 1}

LEMMA ExportBeside ==
  ASSUME WriterTypes, [StartExport \/ Exporting \/ ReplyStarts \/ ReplyAcks \/ LateAcks]_vars
  PROVE  Beside
<1>1. CASE PickFile
  BY <1>1 DEF PickFile, Beside, batch, estimate, disk, block, bounds, Fault
<1>2. CASE FilesExported
  BY <1>2 DEF FilesExported, AckMessages, Beside, batch, estimate, block, bounds, Fault
<1>3. CASE UNCHANGED writerVars
  BY <1>3 DEF writerVars, Beside, batch, estimate, disk, block, bounds
<1> QED
  BY <1>1, <1>2, <1>3 DEF StartExport, Exporting, ReplyStarts, ReplyAcks, LateAcks, PickNone, Send,
     ReplyDone, TimedOut, vars

LEMMA BesideKeeps ==
  ASSUME WriterTypes, Beside
  PROVE  WriterTypes' /\ (BatchInv => BatchInv') /\ Lost' = Lost
<1>1. WriterTypes'
  BY DEF Beside, WriterTypes
<1>2. BatchInv => BatchInv'
  BY DEF Beside, BatchInv
<1>3. Lost' = Lost
  BY DEF Beside, Lost, Spooled
<1> QED
  BY <1>1, <1>2, <1>3

LEMMA NextCases ==
  ASSUME [Next]_vars
  PROVE  \/ (BeginWrite \/ BeginFlush \/ WriterStep) /\ UNCHANGED <<exportState, ghosts>>
         \/ [StartExport \/ Exporting \/ ReplyStarts \/ ReplyAcks \/ LateAcks]_vars
         \/ Crash
BY DEF Next, Writing

LEMMA WriterInvariant == Spec => []WriterTypes
<1>1. Init => WriterTypes
  BY WriterTypesInit DEF Init
<1>2. WriterTypes /\ [Next]_vars => WriterTypes'
  BY NextCases, WriterTypesStep, ExportBeside, BesideKeeps, RestartKeeps DEF Crash
<1> QED
  BY <1>1, <1>2, PTL DEF Spec

LEMMA SumOfErrors ==
  ASSUME faults \in Nat, crashes \in Nat, faults' \in Nat, crashes' \in Nat
  PROVE  /\ faults + crashes \in Nat /\ faults' + crashes' \in Nat
         /\ faults' >= faults /\ crashes' = crashes => faults' + crashes' >= faults + crashes
         /\ faults' = faults + 1 /\ crashes' = crashes => faults' + crashes' >= faults + crashes + 1
         /\ faults' = faults /\ crashes' = crashes + 1 => faults' + crashes' >= faults + crashes + 1
<1>1. \A f, c, g, d \in Nat :
        /\ f + c \in Nat
        /\ g >= f /\ d = c => g + d >= f + c
        /\ g = f + 1 /\ d = c => g + d >= f + c + 1
        /\ g = f /\ d = c + 1 => g + d >= f + c + 1
  OBVIOUS
<1> QED
  BY <1>1, Zenon

LEMMA LossStep ==
  ASSUME WriterTypes, WriterTypes', LossInv, [Next]_vars
  PROVE  LossInv'
<1>1. BatchInv'
  BY NextCases, BatchInvStep, ExportBeside, BesideKeeps, RestartKeeps DEF Crash, LossInv
<1>2. \/ Lost' \subseteq Lost /\ faults' + crashes' >= faults + crashes
      \/ Lost' \subseteq Lost \cup cache /\ faults' + crashes' >= faults + crashes + 1
  <2>1. faults \in Nat /\ crashes \in Nat /\ faults' \in Nat /\ crashes' \in Nat
    BY DEF WriterTypes
  <2>2. BatchInv
    BY DEF LossInv
  <2>3. CASE WriterStep \/ BeginWrite \/ BeginFlush
    BY <2>1, <2>2, <2>3, WriterLoss, SumOfErrors, Zenon
  <2>4. CASE [StartExport \/ Exporting \/ ReplyStarts \/ ReplyAcks \/ LateAcks]_vars
    <3>1. Lost' = Lost /\ faults' \in {faults, faults + 1} /\ crashes' = crashes
      BY <2>4, ExportBeside, BesideKeeps DEF Beside
    <3>2. faults' >= faults /\ crashes' = crashes
      BY <2>1, <3>1
    <3> QED
      BY <2>1, <3>1, <3>2, SumOfErrors, Zenon
  <2>5. CASE Crash
    <3>1. Lost' \subseteq Lost \cup cache /\ crashes' = crashes + 1 /\ faults' = faults
      BY <2>5, RestartKeeps DEF Crash
    <3> QED
      BY <2>1, <3>1, SumOfErrors, Zenon
  <2> QED
    BY <2>3, <2>4, <2>5, NextCases
<1>3. /\ Lost \in SUBSET Records /\ Lost' \in SUBSET Records /\ cache \in SUBSET Records
      /\ faults + crashes \in Nat /\ faults' + crashes' \in Nat
  <2>1. accepted \in SUBSET Records /\ accepted' \in SUBSET Records /\ cache \in SUBSET Records
    BY DEF WriterTypes
  <2>2. faults \in Nat /\ crashes \in Nat /\ faults' \in Nat /\ crashes' \in Nat
    BY DEF WriterTypes
  <2>3. faults + crashes \in Nat /\ faults' + crashes' \in Nat
    BY <2>2, SumOfErrors, Zenon
  <2> QED
    BY <2>1, <2>3 DEF Lost
<1>4. Cardinality(Lost) <= (faults + crashes) * Leniency /\ Cardinality(cache) <= Leniency
  <2>1. Cardinality(cache) \in Nat /\ acc \in Nat /\ Cardinality(cache) <= acc /\ acc <= Leniency
    BY CacheFinite DEF LossInv, BatchInv, WriterTypes
  <2> QED
    BY <2>1, NaturalLimits DEF LossInv
<1>5. Cardinality(Lost') <= (faults' + crashes') * Leniency
  <2>1. CASE Lost' \subseteq Lost /\ faults' + crashes' >= faults + crashes
    BY <1>3, <1>4, <2>1, NoBatchMore
  <2>2. CASE Lost' \subseteq Lost \cup cache /\ faults' + crashes' >= faults + crashes + 1
    BY <1>3, <1>4, <2>2, OneBatchMore
  <2> QED
    BY <1>2, <2>1, <2>2
<1> QED
  BY <1>1, <1>5 DEF LossInv

(* Every record whose Write succeeded is in the batch or in a file of the   *)
(* spool, but for one batch, within the leniency, for each error of the     *)
(* file system and each crash (Spool::Write, CompleteCurrentSpoolState).    *)
THEOREM LossIsAlwaysOneBatch == Spec => []LossIsOneBatch
<1>1. Init => LossInv
  <2> SUFFICES ASSUME Init PROVE LossInv
    OBVIOUS
  <2>1. Lost = {} /\ faults = 0 /\ crashes = 0
    BY DEF Init, WriterInit, Lost
  <2> QED
    BY <2>1, BatchInvInit, FS_EmptySet, NaturalLimits DEF Init, LossInv
<1>2. WriterTypes /\ WriterTypes' /\ LossInv /\ [Next]_vars => LossInv'
  BY LossStep
<1>3. WriterTypes /\ LossInv => LossIsOneBatch
  <2> SUFFICES ASSUME WriterTypes, LossInv PROVE LossIsOneBatch
    OBVIOUS
  <2>1. Cardinality(cache) \in Nat /\ acc \in Nat /\ Cardinality(cache) <= acc /\ acc <= Leniency
    BY CacheFinite DEF LossInv, BatchInv, WriterTypes
  <2> QED
    BY <2>1, NaturalLimits DEF LossInv, LossIsOneBatch, Lost
<1> QED
  BY <1>1, <1>2, <1>3, WriterInvariant, PTL DEF Spec
-----------------------------------------------------------------------------
(* The export *)

LEMMA NothingTracked == NoFiles \in Trackers /\ Completed(NoFiles) = {}
<1>1. NoFiles \in [{} -> BOOLEAN]
  BY DEF NoFiles
<1>2. {} \in SUBSET Nat
  OBVIOUS
<1>3. NoFiles \in Trackers
  BY <1>1, <1>2 DEF Trackers
<1>4. DOMAIN NoFiles = {}
  BY DEF NoFiles
<1> QED
  BY <1>3, <1>4 DEF Completed

LEMMA ExportInvInit == Init => ExportInv
<1> SUFFICES ASSUME Init PROVE ExportInv
  OBVIOUS
<1>1. tracker = NoFiles /\ acks = <<>> /\ reply = "none" /\ toAck = {} /\ handles = {} /\ late = {} /\ files = <<>>
  BY DEF Init, ExportInit, WriterInit
<1>2. DOMAIN files = {} /\ Len(acks) = 0 /\ acks \in Seq(Trackers)
  BY <1>1
<1> QED
  BY <1>1, <1>2, NothingTracked DEF ExportInv

(* Operations of the tracker.                                               *)
LEMMA TrackerType ==
  ASSUME NEW t \in Trackers
  PROVE  DOMAIN t \subseteq Nat /\ \A g \in DOMAIN t : t[g] \in BOOLEAN
BY DEF Trackers

LEMMA Tracked ==
  ASSUME tracker \in Trackers, NEW f \in Nat
  PROVE  /\ Track(f) \in Trackers /\ Completed(Track(f)) = Completed(tracker)
         /\ AckCompleted(f) \in Trackers /\ Completed(AckCompleted(f)) = Completed(tracker) \cup {f}
<1>1. DOMAIN tracker \subseteq Nat /\ \A g \in DOMAIN tracker : tracker[g] \in BOOLEAN
  BY TrackerType
<1>2. DOMAIN tracker \cup {f} \in SUBSET Nat
  BY <1>1
<1>3. Track(f) \in [DOMAIN tracker \cup {f} -> BOOLEAN]
  BY <1>1 DEF Track
<1>4. AckCompleted(f) \in [DOMAIN tracker \cup {f} -> BOOLEAN]
  BY <1>1 DEF AckCompleted
<1>5. Track(f) \in Trackers /\ AckCompleted(f) \in Trackers
  BY <1>2, <1>3, <1>4 DEF Trackers
<1>6. ASSUME NEW g PROVE g \in Completed(Track(f)) <=> g \in Completed(tracker)
  BY <1>1 DEF Completed, Track
<1>7. ASSUME NEW g PROVE g \in Completed(AckCompleted(f)) <=> g \in Completed(tracker) \cup {f}
  BY <1>1 DEF Completed, AckCompleted
<1> QED
  BY <1>5, <1>6, <1>7

LEMMA Drained ==
  ASSUME ExportInv, Drain
  PROVE  /\ tracker' \in Trackers /\ Completed(tracker') = {} /\ acks' \in Seq(Trackers)
         /\ \A i \in 1..Len(acks') : Completed(acks'[i]) \subseteq Accounted
<1>1. tracker' = NoFiles /\ acks' = Append(acks, tracker) /\ acks \in Seq(Trackers) /\ tracker \in Trackers
  BY DEF Drain, ExportInv
<1>2. acks' \in Seq(Trackers) /\ Len(acks') = Len(acks) + 1 /\ Len(acks) \in Nat
  BY <1>1
<1>3. ASSUME NEW i \in 1..Len(acks') PROVE Completed(acks'[i]) \subseteq Accounted
  <2>1. acks'[i] = tracker \/ (i \in 1..Len(acks) /\ acks'[i] = acks[i])
    BY <1>1, <1>2
  <2> QED
    BY <2>1 DEF ExportInv
<1> QED
  BY <1>1, <1>2, <1>3, NothingTracked

LEMMA HandedOver ==
  ASSUME ExportInv, acks # <<>>
  PROVE  /\ Head(acks) \in Trackers /\ Completed(Head(acks)) \subseteq Accounted
         /\ Tail(acks) \in Seq(Trackers)
         /\ \A i \in 1..Len(Tail(acks)) : Completed(Tail(acks)[i]) \subseteq Accounted
<1>1. acks \in Seq(Trackers) /\ Len(acks) \in Nat /\ Len(acks) > 0
  BY DEF ExportInv
<1>2. Head(acks) = acks[1] /\ 1 \in 1..Len(acks) /\ Head(acks) \in Trackers
  BY <1>1
<1>3. Tail(acks) \in Seq(Trackers) /\ Len(Tail(acks)) = Len(acks) - 1
  BY <1>1
<1>4. \A i \in 1..Len(Tail(acks)) : Tail(acks)[i] = acks[i + 1] /\ i + 1 \in 1..Len(acks)
  BY <1>1, <1>3
<1> QED
  BY <1>2, <1>3, <1>4 DEF ExportInv
-----------------------------------------------------------------------------
(* Steps that leave files, spool, tracker and blocks alone, and only learn  *)
(* of more files that are done with.                                        *)
LEMMA AccountedGrows ==
  ASSUME ExportInv, received \subseteq received', discarded \subseteq discarded'
  PROVE  /\ Accounted \subseteq Accounted'
         /\ Completed(tracker) \subseteq Accounted' /\ late \subseteq Accounted'
         /\ \A i \in 1..Len(acks) : Completed(acks[i]) \subseteq Accounted'
         /\ DOMAIN files \ spool \subseteq Accounted'
<1>1. Accounted \subseteq Accounted'
  BY DEF Accounted
<1> QED
  BY <1>1 DEF ExportInv

LEMMA WritingKeeps ==
  ASSUME WriterTypes, ExportInv, WriterStep \/ BeginWrite \/ BeginFlush, UNCHANGED <<exportState, ghosts>>
  PROVE  ExportInv'
<1>1. UNCHANGED <<step, handles, reply, toAck, late, tracker, acks, received, discarded>>
  BY DEF exportState, ghosts
<1>2. DOMAIN files' \ spool' \subseteq DOMAIN files \ spool
  <2>1. CASE UNCHANGED disk
    BY <2>1 DEF disk
  <2>2. CASE \E recs \in SUBSET Records : Publish(recs)
    BY <2>2, PublishedTypes
  <2> QED
    BY <2>1, <2>2, WriterStepDisk
<1>3. Accounted' = Accounted
  BY <1>1 DEF Accounted
<1> QED
  BY <1>1, <1>2, <1>3 DEF ExportInv

LEMMA PickKeeps ==
  ASSUME WriterTypes, ExportInv, PickFile
  PROVE  ExportInv'
<1>1. PICK f \in Takeable :
        \/ tracker' = AckCompleted(f) /\ discarded' = discarded \cup {f} /\ handles' = handles
        \/ tracker' = Track(f) /\ discarded' = discarded /\ handles' \in {handles, handles \cup {f}}
  BY DEF PickFile
<1>2. /\ UNCHANGED <<files, spool, reply, toAck, late, acks, received>>
      /\ f \in DOMAIN files /\ f \in Nat /\ reply # "pending"
  <2>1. f \in DOMAIN files /\ files \in Seq(Files)
    BY <1>1 DEF Takeable, WriterTypes
  <2> QED
    BY <2>1 DEF PickFile, disk, ExportInv
<1>3. /\ tracker' \in Trackers
      /\ Completed(tracker') \subseteq Completed(tracker) \cup (discarded' \cap {f})
  <2>1. tracker \in Trackers
    BY DEF ExportInv
  <2> QED
    BY <1>1, <1>2, <2>1, Tracked
<1>4. handles \subseteq handles' /\ handles' \subseteq Nat /\ discarded \subseteq discarded'
  BY <1>1, <1>2 DEF ExportInv
<1>5. /\ Accounted \subseteq Accounted' /\ discarded' \subseteq Accounted'
      /\ Completed(tracker) \subseteq Accounted' /\ late \subseteq Accounted'
      /\ \A i \in 1..Len(acks) : Completed(acks[i]) \subseteq Accounted'
      /\ DOMAIN files \ spool \subseteq Accounted'
  BY <1>2, <1>4, AccountedGrows DEF Accounted
<1>6. Completed(tracker') \subseteq Accounted'
  BY <1>3, <1>5
<1> QED
  BY <1>2, <1>3, <1>4, <1>5, <1>6 DEF ExportInv

LEMMA SendKeeps ==
  ASSUME WriterTypes, ExportInv, Send
  PROVE  ExportInv'
<1>1. UNCHANGED <<files, spool, handles, late, received, discarded>> /\ Accounted' = Accounted
  BY DEF Send, writerVars, disk, ghosts, Accounted
<1>2. CASE Drain /\ UNCHANGED <<reply, toAck>> /\ step = "send"
  BY <1>1, <1>2, Drained DEF ExportInv
<1>3. CASE reply' = "pending" /\ step' = "wait" /\ toAck' = handles /\ UNCHANGED <<tracker, acks>>
  BY <1>1, <1>3 DEF ExportInv
<1> QED
  BY <1>2, <1>3 DEF Send

LEMMA ReplyStartsKeeps ==
  ASSUME WriterTypes, ExportInv, ReplyStarts
  PROVE  ExportInv'
<1>1. PICK ok \in BOOLEAN :
        /\ received' = IF ok THEN received \cup handles ELSE received
        /\ toAck' = IF ok THEN toAck ELSE {}
  BY DEF ReplyStarts
<1>2. UNCHANGED <<files, spool, handles, late, tracker, acks, discarded>> /\ reply = "pending" /\ reply' = "running"
  BY DEF ReplyStarts, writerVars, disk
<1>3. toAck' \subseteq received' /\ received \subseteq received' /\ toAck' \subseteq Nat
  BY <1>1, <1>2 DEF ExportInv
<1> QED
  BY <1>2, <1>3, AccountedGrows DEF ExportInv

LEMMA ReplyAcksKeeps ==
  ASSUME WriterTypes, ExportInv, ReplyAcks
  PROVE  ExportInv'
<1>1. PICK f \in toAck : reply = "running" /\ tracker' = AckCompleted(f) /\ toAck' = toAck \ {f}
  BY DEF ReplyAcks
<1>2. UNCHANGED <<files, spool, step, handles, reply, late, acks, received, discarded>> /\ Accounted' = Accounted
  BY DEF ReplyAcks, writerVars, disk, ghosts, Accounted
<1>3. f \in Nat /\ f \in Accounted
  BY <1>1 DEF ExportInv, Accounted
<1>4. tracker' \in Trackers /\ Completed(tracker') \subseteq Accounted
  BY <1>1, <1>3, Tracked DEF ExportInv
<1> QED
  BY <1>1, <1>2, <1>4 DEF ExportInv

LEMMA LateAcksKeeps ==
  ASSUME WriterTypes, ExportInv, LateAcks
  PROVE  ExportInv'
<1>1. PICK f \in late : tracker' = AckCompleted(f) /\ late' = late \ {f}
  BY DEF LateAcks
<1>2. UNCHANGED <<files, spool, step, handles, reply, toAck, acks, received, discarded>> /\ Accounted' = Accounted
  BY DEF LateAcks, writerVars, disk, ghosts, Accounted
<1>3. f \in Nat /\ f \in Accounted
  BY <1>1 DEF ExportInv
<1>4. tracker' \in Trackers /\ Completed(tracker') \subseteq Accounted
  BY <1>1, <1>3, Tracked DEF ExportInv
<1> QED
  BY <1>1, <1>2, <1>4 DEF ExportInv

(* The end of a batch, by its reply or its timeout.                         *)
LEMMA NextBatchKeeps ==
  ASSUME WriterTypes, ExportInv, NEW ok, NextBatch(ok), UNCHANGED <<files, spool, discarded>>,
         received \subseteq received', late' = late \/ (reply = "running" /\ late' = late \cup toAck)
  PROVE  ExportInv'
<1>1. /\ tracker' \in Trackers /\ Completed(tracker') = {} /\ acks' \in Seq(Trackers)
      /\ \A i \in 1..Len(acks') : Completed(acks'[i]) \subseteq Accounted
  BY Drained DEF NextBatch
<1>2. reply' = "none" /\ toAck' = {} /\ handles' = {}
  BY DEF NextBatch
<1>3. Accounted \subseteq Accounted' /\ DOMAIN files \ spool \subseteq Accounted'
  BY AccountedGrows
<1>4. late' \subseteq Accounted /\ late' \subseteq Nat
  BY DEF ExportInv, Accounted
<1> QED
  BY <1>1, <1>2, <1>3, <1>4 DEF ExportInv

(* The spool's block: only files that are done leave the directory.         *)
LEMMA FilesExportedKeeps ==
  ASSUME WriterTypes, ExportInv, FilesExported
  PROVE  ExportInv'
<1>1. /\ acks # <<>> /\ acks' = Tail(acks)
      /\ UNCHANGED <<files, step, handles, reply, toAck, late, tracker, received, discarded>>
  BY DEF FilesExported, ghosts
<1>2. spool \ spool' \subseteq Completed(Head(acks))
  BY DEF FilesExported, AckMessages, Completed
<1>3. Accounted' = Accounted
  BY <1>1 DEF Accounted
<1>4. DOMAIN files' \ spool' \subseteq Accounted
  BY <1>1, <1>2, HandedOver DEF ExportInv
<1> QED
  BY <1>1, <1>3, <1>4, HandedOver DEF ExportInv

LEMMA CrashKeeps ==
  ASSUME WriterTypes, ExportInv, Crash
  PROVE  ExportInv'
<1>1. UNCHANGED <<files, spool>>
  BY RestartKeeps DEF Crash, disk
<1>2. /\ handles' = {} /\ reply' = "none" /\ toAck' = {} /\ late' = {} /\ tracker' = NoFiles /\ acks' = <<>>
      /\ Accounted' = Accounted
  BY DEF Crash, ghosts, Accounted
<1>3. acks' \in Seq(Trackers) /\ Len(acks') = 0
  BY <1>2
<1> QED
  BY <1>1, <1>2, <1>3, NothingTracked DEF ExportInv

LEMMA ExportInvStep ==
  ASSUME WriterTypes, ExportInv, [Next]_vars
  PROVE  ExportInv'
<1>1. CASE StartExport
  <2>1. UNCHANGED <<files, spool, reply, toAck, late, tracker, acks, received, discarded>> /\ handles' = {}
    BY <1>1 DEF StartExport, writerVars, disk
  <2>2. reply # "pending"
    BY <1>1 DEF StartExport, ExportInv
  <2> QED
    BY <2>1, <2>2 DEF ExportInv, Accounted
<1>2. CASE PickNone
  BY <1>2 DEF PickNone, writerVars, disk, ghosts, ExportInv, Accounted
<1>3. CASE ReplyDone
  BY <1>3, NextBatchKeeps DEF ReplyDone, writerVars, disk, ghosts
<1>4. CASE TimedOut
  <2>1. UNCHANGED <<files, spool, discarded>>
    BY <1>4 DEF TimedOut, writerVars, disk
  <2>2. PICK ok : NextBatch(ok)
    BY <1>4 DEF TimedOut
  <2>3. received \subseteq received' /\ (late' = late \/ (reply = "running" /\ late' = late \cup toAck))
    BY <1>4 DEF TimedOut
  <2> QED
    BY <2>1, <2>2, <2>3, NextBatchKeeps
<1>5. CASE UNCHANGED vars
  BY <1>5 DEF vars, writerVars, exportState, ghosts, disk, ExportInv, Accounted
<1> QED
  BY <1>1, <1>2, <1>3, <1>4, <1>5, NextCases, WritingKeeps, PickKeeps, SendKeeps, ReplyStartsKeeps,
     ReplyAcksKeeps, LateAcksKeeps, FilesExportedKeeps, CrashKeeps DEF Exporting

(* A file leaves the spool only when the server has it or it cannot be      *)
(* exported at all, whatever times out, fails or crashes meanwhile          *)
(* (ExportTelemetrySerialized, ExportTracker, FilesExported).               *)
THEOREM AlwaysExportedBeforeRemoved == Spec => []ExportedBeforeRemoved
<1>1. WriterTypes /\ ExportInv /\ [Next]_vars => ExportInv'
  BY ExportInvStep
<1>2. ExportInv => ExportedBeforeRemoved
  BY DEF ExportInv, ExportedBeforeRemoved, Accounted
<1> QED
  BY <1>1, <1>2, ExportInvInit, WriterInvariant, PTL DEF Spec
-----------------------------------------------------------------------------
(* Sums over the files of the spool: MapThenSumSet takes the elements one   *)
(* after the other; the results of all subsets are one function g.          *)
Pick(s) == CHOOSE x \in s : TRUE
Adds(g, F, S) ==
  g = [s \in SUBSET S |-> IF s = {} THEN 0 ELSE F[Pick(s)] + g[s \ {Pick(s)}]]

LEMMA PickIn == \A s : s # {} => Pick(s) \in s
BY DEF Pick

LEMMA SmallestNumber ==
  ASSUME NEW T \in SUBSET Nat, T # {}
  PROVE  \E n \in T : \A m \in T : ~(m < n)
<1>1. PICK n \in T : \A m \in T : ~(<<m, n>> \in OpToRel(<, Nat))
  BY NatLessThanWellFounded, WFMin, Zenon
<1> QED
  BY <1>1 DEF OpToRel

(* Of the subsets for which something fails, one is smallest.               *)
LEMMA SmallestSubset ==
  ASSUME NEW S, IsFiniteSet(S), NEW T \in SUBSET SUBSET S, T # {}
  PROVE  \E s \in T : \A t \in T : ~(t \subseteq s /\ t # s)
<1>1. T \subseteq FiniteSubsetsOf(S)
  BY FS_Subset DEF FiniteSubsetsOf
<1>2. PICK s \in T : \A t \in T : ~(<<t, s>> \in StrictSubsetOrdering(S))
  BY <1>1, FS_StrictSubsetOrderingWellFounded, WFMin, Zenon
<1> QED
  BY <1>2 DEF StrictSubsetOrdering

(* There is such a function, on the subsets of at most n elements ...       *)
Partly(g, F, S, n) ==
  /\ g \in [SUBSET S -> Nat]
  /\ \A s \in SUBSET S : Cardinality(s) <= n =>
       g[s] = IF s = {} THEN 0 ELSE F[Pick(s)] + g[s \ {Pick(s)}]

LEMMA PartlyNext ==
  ASSUME NEW S, IsFiniteSet(S), NEW F \in [S -> Nat], NEW n \in Nat, NEW g, Partly(g, F, S, n)
  PROVE  \E h : Partly(h, F, S, n + 1)
<1> DEFINE h == [s \in SUBSET S |->
                   IF Cardinality(s) <= n THEN g[s]
                   ELSE IF s = {} THEN 0 ELSE F[Pick(s)] + g[s \ {Pick(s)}]]
<1>1. \A s \in SUBSET S : s # {} => Pick(s) \in S /\ s \ {Pick(s)} \in SUBSET S
  BY PickIn
<1>2. \A s \in SUBSET S : s # {} => F[Pick(s)] + g[s \ {Pick(s)}] \in Nat
  BY <1>1 DEF Partly
<1>3. h \in [SUBSET S -> Nat]
  BY <1>2 DEF Partly
<1>4. ASSUME NEW s \in SUBSET S, Cardinality(s) <= n + 1
      PROVE  h[s] = IF s = {} THEN 0 ELSE F[Pick(s)] + h[s \ {Pick(s)}]
  <2>1. IsFiniteSet(s) /\ Cardinality(s) \in Nat
    BY FS_Subset, FS_CardinalityType
  <2>2. s # {} => /\ s \ {Pick(s)} \in SUBSET S
                  /\ Cardinality(s \ {Pick(s)}) = Cardinality(s) - 1
    BY <1>1, <2>1, PickIn, FS_RemoveElement
  <2>3. s # {} => h[s \ {Pick(s)}] = g[s \ {Pick(s)}]
    BY <1>4, <2>1, <2>2
  <2>4. CASE Cardinality(s) <= n
    <3>1. h[s] = g[s] /\ g[s] = IF s = {} THEN 0 ELSE F[Pick(s)] + g[s \ {Pick(s)}]
      BY <2>4 DEF Partly
    <3> HIDE DEF h
    <3> QED
      BY <2>3, <3>1
  <2>5. CASE ~(Cardinality(s) <= n)
    <3>1. h[s] = IF s = {} THEN 0 ELSE F[Pick(s)] + g[s \ {Pick(s)}]
      BY <2>5
    <3> HIDE DEF h
    <3> QED
      BY <2>3, <3>1
  <2> QED
    BY <2>4, <2>5
<1> HIDE DEF h
<1> QED
  BY <1>3, <1>4 DEF Partly

LEMMA PartlyAny ==
  ASSUME NEW S, IsFiniteSet(S), NEW F \in [S -> Nat], NEW k \in Nat
  PROVE  \E g : Partly(g, F, S, k)
<1> DEFINE T == {n \in Nat : ~\E g : Partly(g, F, S, n)}
<1>1. ASSUME T # {} PROVE FALSE
  <2>1. T \in SUBSET Nat
    OBVIOUS
  <2>2. PICK n \in T : \A m \in T : ~(m < n)
    <3> HIDE DEF T
    <3> QED
      BY <1>1, <2>1, SmallestNumber
  <2>3. n \in Nat /\ ~\E g : Partly(g, F, S, n)
    OBVIOUS
  <2>4. CASE n = 0
    <3> DEFINE g == [s \in SUBSET S |-> 0]
    <3>1. \A s \in SUBSET S : Cardinality(s) <= 0 => s = {}
      <4> SUFFICES ASSUME NEW s \in SUBSET S, Cardinality(s) <= 0 PROVE s = {}
        OBVIOUS
      <4>1. IsFiniteSet(s) /\ Cardinality(s) \in Nat
        BY FS_Subset, FS_CardinalityType
      <4>2. Cardinality(s) = 0
        BY <4>1
      <4> QED
        BY <4>1, <4>2, FS_EmptySet
    <3>2. Partly(g, F, S, 0)
      BY <3>1 DEF Partly
    <3> QED
      BY <2>3, <2>4, <3>2
  <2>5. CASE n # 0
    <3>1. n - 1 \in Nat /\ n - 1 + 1 = n /\ n - 1 < n
      BY <2>3, <2>5
    <3>2. n - 1 \notin T
      BY <2>2, <3>1
    <3>3. PICK g : Partly(g, F, S, n - 1)
      BY <3>1, <3>2
    <3>4. \E h : Partly(h, F, S, n - 1 + 1)
      <4> HIDE DEF T
      <4> QED
        BY <3>1, <3>3, PartlyNext
    <3> QED
      BY <2>3, <3>1, <3>4
  <2> QED
    BY <2>4, <2>5
<1> QED
  BY <1>1

IsSum(g, F, S) ==
  /\ IsFiniteSet(S) /\ F \in [S -> Nat]
  /\ g \in [SUBSET S -> Nat] /\ Adds(g, F, S)

(* ... and so on all of them.                                               *)
LEMMA SumExists ==
  ASSUME NEW S, IsFiniteSet(S), NEW F \in [S -> Nat]
  PROVE  \E g : IsSum(g, F, S)
<1>1. Cardinality(S) \in Nat /\ \A s \in SUBSET S : Cardinality(s) <= Cardinality(S)
  BY FS_CardinalityType, FS_Subset
<1>2. PICK g : Partly(g, F, S, Cardinality(S))
  BY <1>1, PartlyAny
<1>3. \A s \in SUBSET S : g[s] = IF s = {} THEN 0 ELSE F[Pick(s)] + g[s \ {Pick(s)}]
  BY <1>1, <1>2 DEF Partly
<1>4. g \in [SUBSET S -> Nat]
  BY <1>2 DEF Partly
<1>5. Adds(g, F, S)
  BY <1>3, <1>4 DEF Adds
<1> QED
  BY <1>4, <1>5 DEF IsSum

LEMMA AddsType ==
  ASSUME NEW S, IsFiniteSet(S), NEW F \in [S -> Nat], NEW g, Adds(g, F, S)
  PROVE  IsSum(g, F, S)
<1> DEFINE Bad == {s \in SUBSET S : g[s] \notin Nat}
<1>1. \A s \in SUBSET S : g[s] = IF s = {} THEN 0 ELSE F[Pick(s)] + g[s \ {Pick(s)}]
  BY DEF Adds
<1>2. ASSUME Bad # {} PROVE FALSE
  <2>1. Bad \in SUBSET SUBSET S
    OBVIOUS
  <2>2. PICK s \in Bad : \A t \in Bad : ~(t \subseteq s /\ t # s)
    <3> HIDE DEF Bad
    <3> QED
      BY <1>2, <2>1, SmallestSubset
  <2>3. s \in SUBSET S /\ g[s] \notin Nat
    OBVIOUS
  <2>4. s # {}
    <3>1. g[{}] = 0 /\ 0 \in Nat
      BY DEF Adds
    <3> QED
      BY <2>3, <3>1, Zenon
  <2>5. Pick(s) \in s /\ g[s] = F[Pick(s)] + g[s \ {Pick(s)}]
    BY <1>1, <2>3, <2>4, PickIn
  <2>6. g[s \ {Pick(s)}] \in Nat /\ F[Pick(s)] \in Nat
    BY <2>2, <2>3, <2>5
  <2> QED
    BY <2>3, <2>5, <2>6
<1>3. \A s \in SUBSET S : g[s] \in Nat
  BY <1>2
<1>4. g = [s \in SUBSET S |-> g[s]]
  BY DEF Adds
<1> HIDE DEF Bad
<1> QED
  BY <1>3, <1>4 DEF IsSum

(* The order does not matter: any element may be taken first.               *)
AnyFirst(g, F, S) == \A s \in SUBSET S : \A x \in s : g[s] = F[x] + g[s \ {x}]

LEMMA TakeAny ==
  ASSUME NEW S, NEW F, NEW g, IsSum(g, F, S)
  PROVE  AnyFirst(g, F, S)
<1> USE DEF IsSum
<1> DEFINE Bad == {s \in SUBSET S : \E x \in s : g[s] # F[x] + g[s \ {x}]}
<1>1. \A s \in SUBSET S : s # {} => g[s] = F[Pick(s)] + g[s \ {Pick(s)}]
  BY DEF Adds
<1>2. ASSUME Bad # {} PROVE FALSE
  <2>1. Bad \in SUBSET SUBSET S
    OBVIOUS
  <2>2. PICK s \in Bad : \A t \in Bad : ~(t \subseteq s /\ t # s)
    <3> HIDE DEF Bad
    <3> QED
      BY <1>2, <2>1, SmallestSubset
  <2>3. PICK x \in s : g[s] # F[x] + g[s \ {x}]
    OBVIOUS
  <2> DEFINE p == Pick(s)
  <2>4. s \in SUBSET S /\ p \in s /\ g[s] = F[p] + g[s \ {p}]
    BY <1>1, <2>3, PickIn
  <2>5. p # x
    BY <2>3, <2>4
  <2>6. s \ {p} \notin Bad /\ s \ {x} \notin Bad
    BY <2>2, <2>3, <2>4
  <2>7. /\ s \ {p} \in SUBSET S /\ s \ {x} \in SUBSET S /\ x \in s \ {p} /\ p \in s \ {x}
        /\ (s \ {p}) \ {x} = (s \ {x}) \ {p} /\ (s \ {p}) \ {x} \in SUBSET S
    BY <2>3, <2>4, <2>5
  <2>8. /\ g[s \ {p}] = F[x] + g[(s \ {p}) \ {x}]
        /\ g[s \ {x}] = F[p] + g[(s \ {x}) \ {p}]
    BY <2>6, <2>7
  <2>9. F[p] \in Nat /\ F[x] \in Nat /\ g[(s \ {p}) \ {x}] \in Nat
    BY <2>3, <2>4, <2>7
  <2>10. g[s \ {x}] = F[p] + g[(s \ {p}) \ {x}]
    BY <2>7, <2>8
  <2>11. F[p] + (F[x] + g[(s \ {p}) \ {x}]) = F[x] + (F[p] + g[(s \ {p}) \ {x}])
    BY <2>9
  <2> HIDE DEF p, Bad
  <2> QED
    BY <2>3, <2>4, <2>8, <2>10, <2>11, Zenon
<1> QED
  BY <1>2 DEF AnyFirst

(* A sum of larger numbers is larger.                                       *)
LEMMA LargerSum ==
  ASSUME NEW S, NEW F, NEW g, IsSum(g, F, S), NEW T, NEW G, NEW h, IsSum(h, G, T),
         NEW U \in SUBSET (S \cap T), \A x \in U : F[x] <= G[x]
  PROVE  g[U] <= h[U]
<1> USE DEF IsSum
<1> DEFINE Bad == {s \in SUBSET U : ~(g[s] <= h[s])}
<1>1. ASSUME Bad # {} PROVE FALSE
  <2>1. Bad \in SUBSET SUBSET U /\ IsFiniteSet(U)
    BY FS_Subset
  <2>2. PICK s \in Bad : \A t \in Bad : ~(t \subseteq s /\ t # s)
    <3> HIDE DEF Bad
    <3> QED
      BY <1>1, <2>1, SmallestSubset
  <2>3. s \in SUBSET S /\ s \in SUBSET T /\ s \in SUBSET U /\ ~(g[s] <= h[s])
    OBVIOUS
  <2>4. s # {}
    <3>1. g[{}] = 0 /\ h[{}] = 0 /\ 0 <= 0
      BY DEF Adds
    <3> QED
      BY <2>3, <3>1, Zenon
  <2> DEFINE p == Pick(s)
  <2>5. p \in s /\ g[s] = F[p] + g[s \ {p}] /\ h[s] = G[p] + h[s \ {p}]
    BY <2>3, <2>4, PickIn DEF Adds
  <2>6. g[s \ {p}] <= h[s \ {p}]
    BY <2>2, <2>3, <2>5
  <2>7. /\ F[p] <= G[p] /\ F[p] \in Nat /\ G[p] \in Nat
        /\ g[s \ {p}] \in Nat /\ h[s \ {p}] \in Nat
    BY <2>3, <2>5
  <2> HIDE DEF p, Bad
  <2> QED
    BY <2>3, <2>5, <2>6, <2>7
<1> QED
  BY <1>1

(* A part has a smaller sum.                                                *)
LEMMA SumOfPart ==
  ASSUME NEW S, NEW F, NEW g, IsSum(g, F, S),
         NEW V \in SUBSET S, NEW U \in SUBSET V
  PROVE  g[U] <= g[V]
<1> USE DEF IsSum
<1> DEFINE Bad == {s \in SUBSET V : U \subseteq s /\ ~(g[U] <= g[s])}
<1>1. ASSUME Bad # {} PROVE FALSE
  <2>1. Bad \in SUBSET SUBSET V /\ IsFiniteSet(V)
    BY FS_Subset
  <2>2. PICK s \in Bad : \A t \in Bad : ~(t \subseteq s /\ t # s)
    <3> HIDE DEF Bad
    <3> QED
      BY <1>1, <2>1, SmallestSubset
  <2>3. s \in SUBSET S /\ s \in SUBSET V /\ U \subseteq s /\ ~(g[U] <= g[s])
    OBVIOUS
  <2>4. s # U
    BY <2>3
  <2>5. PICK x \in s : x \notin U
    BY <2>3, <2>4
  <2>6. g[s] = F[x] + g[s \ {x}]
    <3>1. AnyFirst(g, F, S)
      BY TakeAny
    <3> QED
      BY <2>3, <3>1 DEF AnyFirst
  <2>7. g[U] <= g[s \ {x}]
    BY <2>2, <2>3, <2>5
  <2>8. F[x] \in Nat /\ g[s \ {x}] \in Nat /\ g[U] \in Nat
    BY <2>3
  <2> HIDE DEF Bad
  <2> QED
    BY <2>3, <2>6, <2>7, <2>8
<1> QED
  BY <1>1
-----------------------------------------------------------------------------
(* The size of the spool directory *)

BytesOf(fs, D) == MapThenSumSet(LAMBDA f : Cardinality(fs[f].recs), D)
OccupationOf(fs, D) == MapThenSumSet(LAMBDA f : EstimateDiskOccupation(Cardinality(fs[f].recs)), D)

LEMMA BytesAreSum == Bytes = BytesOf(files, spool) /\ Bytes' = BytesOf(files', spool')
<1>1. Bytes = BytesOf(files, spool)
  BY Zenon DEF Bytes, BytesOf, Size, MapThenSumSet, MapThenFoldSet
<1>2. Bytes' = BytesOf(files', spool')
  BY Zenon DEF Bytes, BytesOf, Size, MapThenSumSet, MapThenFoldSet
<1> QED
  BY <1>1, <1>2

LEMMA DirSizeIsSum == DirSize = OccupationOf(files, spool)
BY Zenon DEF DirSize, OccupationOf, Size, MapThenSumSet, MapThenFoldSet

Sizes(fs, D) == [f \in D |-> Cardinality(fs[f].recs)]
Occupations(fs, D) == [f \in D |-> EstimateDiskOccupation(Cardinality(fs[f].recs))]

LEMMA SizesType ==
  ASSUME NEW fs \in Seq(Files), NEW D \in SUBSET (DOMAIN fs)
  PROVE  IsFiniteSet(D) /\ Sizes(fs, D) \in [D -> Nat]
<1>1. \A f \in DOMAIN fs : fs[f].recs \in SUBSET Records
  <2>1. \A f \in DOMAIN fs : fs[f] \in Files
    OBVIOUS
  <2> QED
    BY <2>1 DEF Files
<1>2. IsFiniteSet(D)
  <2>1. DOMAIN fs = 1..Len(fs) /\ Len(fs) \in Nat
    OBVIOUS
  <2>2. IsFiniteSet(1..Len(fs))
    BY <2>1, FS_Interval
  <2> QED
    BY <2>1, <2>2, FS_Subset
<1>3. \A f \in D : Cardinality(fs[f].recs) \in Nat
  BY <1>1, CacheFinite
<1> QED
  BY <1>2, <1>3 DEF Sizes

(* A file occupies at least its size.                                       *)
LEMMA OccupiesItsSize ==
  ASSUME NEW n \in Nat
  PROVE  EstimateDiskOccupation(n) \in Nat /\ EstimateDiskOccupation(n) >= n
<1> DEFINE q == (n + Cluster - 1) \div Cluster
           m == Max({1, q})
<1>1. Cluster \in Nat /\ Cluster > 0
  BY NaturalLimits
<1>2. q \in Nat /\ Cluster * q >= n
  BY <1>1
<1>3. m \in Nat /\ m >= q
  <2> HIDE DEF q
  <2>1. \E x \in {1, q} : \A y \in {1, q} : x >= y
    BY <1>2
  <2>2. m \in {1, q} /\ m >= q
    BY <2>1 DEF Max
  <2> QED
    BY <1>2, <2>2
<1> HIDE DEF q, m
<1>4. Cluster * m \in Nat /\ Cluster * m >= Cluster * q /\ Cluster * q \in Nat
  BY <1>1, <1>2, <1>3
<1>5. Cluster * m >= n
  BY <1>2, <1>4
<1> QED
  BY <1>4, <1>5 DEF EstimateDiskOccupation, m, q

LEMMA OccupationsType ==
  ASSUME NEW fs \in Seq(Files), NEW D \in SUBSET (DOMAIN fs)
  PROVE  /\ Occupations(fs, D) \in [D -> Nat]
         /\ \A f \in D : Sizes(fs, D)[f] <= Occupations(fs, D)[f]
<1>1. Sizes(fs, D) \in [D -> Nat]
  BY SizesType
<1>2. \A f \in D : Cardinality(fs[f].recs) \in Nat
  BY <1>1 DEF Sizes
<1>3. \A f \in D : /\ EstimateDiskOccupation(Cardinality(fs[f].recs)) \in Nat
                   /\ EstimateDiskOccupation(Cardinality(fs[f].recs)) >= Cardinality(fs[f].recs)
  BY <1>2, OccupiesItsSize
<1> QED
  BY <1>2, <1>3 DEF Sizes, Occupations

LEMMA BytesSum ==
  ASSUME NEW fs \in Seq(Files), NEW D \in SUBSET (DOMAIN fs)
  PROVE  \E g : IsSum(g, Sizes(fs, D), D) /\ BytesOf(fs, D) = g[D]
<1> DEFINE Body(g) == [s \in SUBSET D |-> IF s = {} THEN 0 ELSE Cardinality(fs[Pick(s)].recs) + g[s \ {Pick(s)}]]
<1>1. PICK h : IsSum(h, Sizes(fs, D), D)
  BY SizesType, SumExists
<1>2. ASSUME NEW g PROVE (g = Body(g)) <=> Adds(g, Sizes(fs, D), D)
  <2>1. \A s \in SUBSET D : s # {} => Sizes(fs, D)[Pick(s)] = Cardinality(fs[Pick(s)].recs)
    BY PickIn DEF Sizes
  <2> QED
    BY <2>1 DEF Adds
<1>3. h = Body(h)
  BY <1>1, <1>2 DEF IsSum
<1>4. \E g : g = Body(g) /\ BytesOf(fs, D) = g[D]
  BY <1>3, ZenonT(30) DEF BytesOf, MapThenSumSet, MapThenFoldSet, Pick
<1>5. PICK g : g = Body(g) /\ BytesOf(fs, D) = g[D]
  BY <1>4
<1>6. Adds(g, Sizes(fs, D), D)
  BY <1>2, <1>5
<1>7. IsSum(g, Sizes(fs, D), D)
  BY <1>6, AddsType, SizesType
<1> QED
  BY <1>5, <1>7

(* The occupied space is at least the sum of the sizes.                     *)
LEMMA OccupationSum ==
  ASSUME NEW fs \in Seq(Files), NEW D \in SUBSET (DOMAIN fs)
  PROVE  OccupationOf(fs, D) \in Nat /\ OccupationOf(fs, D) >= BytesOf(fs, D)
<1> DEFINE Body(g) == [s \in SUBSET D |-> IF s = {} THEN 0
                         ELSE EstimateDiskOccupation(Cardinality(fs[Pick(s)].recs)) + g[s \ {Pick(s)}]]
           F == Sizes(fs, D)
           G == Occupations(fs, D)
<1>1. /\ IsFiniteSet(D) /\ F \in [D -> Nat] /\ G \in [D -> Nat] /\ \A f \in D : F[f] <= G[f]
  BY SizesType, OccupationsType
<1>2. PICK g : IsSum(g, F, D) /\ BytesOf(fs, D) = g[D]
  BY BytesSum
<1>3. PICK i : IsSum(i, G, D)
  BY <1>1, SumExists
<1>4. ASSUME NEW h PROVE (h = Body(h)) <=> Adds(h, G, D)
  <2>1. \A s \in SUBSET D : s # {} => G[Pick(s)] = EstimateDiskOccupation(Cardinality(fs[Pick(s)].recs))
    BY PickIn DEF Occupations
  <2> QED
    BY <2>1 DEF Adds
<1>5. i = Body(i)
  BY <1>3, <1>4 DEF IsSum
<1>6. \E h : h = Body(h) /\ OccupationOf(fs, D) = h[D]
  BY <1>5, Zenon DEF OccupationOf, MapThenSumSet, MapThenFoldSet, Pick
<1>7. PICK h : h = Body(h) /\ OccupationOf(fs, D) = h[D]
  BY <1>6
<1>8. Adds(h, G, D)
  BY <1>4, <1>7
<1> HIDE DEF Body, F, G
<1>9. IsSum(h, G, D)
  BY <1>1, <1>8, AddsType
<1>10. D \in SUBSET (D \cap D)
  OBVIOUS
<1>11. g[D] <= h[D]
  BY <1>1, <1>2, <1>9, <1>10, LargerSum
<1>12. g[D] \in Nat /\ h[D] \in Nat
  BY <1>2, <1>9 DEF IsSum
<1> QED
  BY <1>2, <1>7, <1>11, <1>12

LEMMA BytesType ==
  ASSUME NEW fs \in Seq(Files), NEW D \in SUBSET (DOMAIN fs)
  PROVE  BytesOf(fs, D) \in Nat
<1>1. PICK g : IsSum(g, Sizes(fs, D), D) /\ BytesOf(fs, D) = g[D]
  BY BytesSum
<1> QED
  BY <1>1 DEF IsSum

(* A file that is published adds its size.                                  *)
LEMMA BytesAdded ==
  ASSUME NEW fs \in Seq(Files), NEW D \in SUBSET (DOMAIN fs), NEW fs2 \in Seq(Files), NEW n \in DOMAIN fs2,
         DOMAIN fs \subseteq DOMAIN fs2, n \notin DOMAIN fs, \A f \in DOMAIN fs : fs2[f] = fs[f]
  PROVE  BytesOf(fs2, D \cup {n}) <= BytesOf(fs, D) + Cardinality(fs2[n].recs)
<1> DEFINE E == D \cup {n}
           F == Sizes(fs, D)
           G == Sizes(fs2, E)
<1>1. E \in SUBSET (DOMAIN fs2) /\ n \in E /\ E \ {n} = D /\ D \in SUBSET E
  OBVIOUS
<1>2. IsFiniteSet(D) /\ F \in [D -> Nat] /\ IsFiniteSet(E) /\ G \in [E -> Nat]
  BY <1>1, SizesType
<1>3. \A f \in D : G[f] = F[f]
  BY DEF Sizes
<1>4. G[n] = Cardinality(fs2[n].recs)
  BY DEF Sizes
<1>5. PICK g : IsSum(g, F, D) /\ BytesOf(fs, D) = g[D]
  BY BytesSum
<1>6. PICK h : IsSum(h, G, E) /\ BytesOf(fs2, E) = h[E]
  BY <1>1, BytesSum
<1> HIDE DEF E, F, G
<1>7. AnyFirst(h, G, E)
  BY <1>6, TakeAny
<1>8. h[E] = G[n] + h[D]
  BY <1>1, <1>7 DEF AnyFirst
<1>9. D \in SUBSET (E \cap D) /\ \A f \in D : G[f] <= F[f]
  BY <1>1, <1>2, <1>3
<1>10. h[D] <= g[D]
  BY <1>5, <1>6, <1>9, LargerSum
<1>11. h[D] \in Nat /\ g[D] \in Nat /\ G[n] \in Nat
  BY <1>1, <1>2, <1>5, <1>6 DEF IsSum
<1>12. h[E] <= g[D] + G[n]
  BY <1>8, <1>10, <1>11
<1> QED
  BY <1>4, <1>5, <1>6, <1>12 DEF E

(* Files that are removed take away at least the size of each of them.      *)
LEMMA BytesRemoved ==
  ASSUME NEW fs \in Seq(Files), NEW D \in SUBSET (DOMAIN fs), NEW E \in SUBSET D
  PROVE  /\ BytesOf(fs, E) <= BytesOf(fs, D)
         /\ \A m \in D \ E : BytesOf(fs, E) + Cardinality(fs[m].recs) <= BytesOf(fs, D)
<1> DEFINE F == Sizes(fs, D)
           G == Sizes(fs, E)
<1>1. E \in SUBSET (DOMAIN fs) /\ E \in SUBSET (E \cap D)
  OBVIOUS
<1>2. IsFiniteSet(D) /\ F \in [D -> Nat] /\ IsFiniteSet(E) /\ G \in [E -> Nat]
  BY <1>1, SizesType
<1>3. \A f \in E : G[f] = F[f]
  BY DEF Sizes
<1>4. \A f \in D : F[f] = Cardinality(fs[f].recs)
  BY DEF Sizes
<1>5. PICK g : IsSum(g, F, D) /\ BytesOf(fs, D) = g[D]
  BY BytesSum
<1>6. PICK h : IsSum(h, G, E) /\ BytesOf(fs, E) = h[E]
  BY <1>1, BytesSum
<1> HIDE DEF F, G
<1>7. \A f \in E : G[f] <= F[f]
  BY <1>2, <1>3
<1>8. h[E] <= g[E]
  BY <1>1, <1>5, <1>6, <1>7, LargerSum
<1>9. D \in SUBSET D
  OBVIOUS
<1>10. g[E] <= g[D]
  BY <1>5, <1>9, SumOfPart
<1>11. h[E] \in Nat /\ g[E] \in Nat /\ g[D] \in Nat
  BY <1>5, <1>6 DEF IsSum
<1>12. BytesOf(fs, E) <= BytesOf(fs, D)
  BY <1>5, <1>6, <1>8, <1>10, <1>11
<1>13. ASSUME NEW m \in D \ E PROVE BytesOf(fs, E) + Cardinality(fs[m].recs) <= BytesOf(fs, D)
  <2>1. D \ {m} \in SUBSET D /\ E \in SUBSET (D \ {m}) /\ m \in D
    OBVIOUS
  <2>2. AnyFirst(g, F, D)
    BY <1>5, TakeAny
  <2>3. g[D] = F[m] + g[D \ {m}]
    BY <1>9, <2>1, <2>2 DEF AnyFirst
  <2>4. g[E] <= g[D \ {m}]
    BY <1>5, <2>1, SumOfPart
  <2>5. g[D \ {m}] \in Nat /\ F[m] \in Nat
    BY <1>2, <1>5, <2>1 DEF IsSum
  <2>6. h[E] + F[m] <= g[D]
    BY <1>8, <1>11, <2>3, <2>4, <2>5
  <2> QED
    BY <1>4, <1>5, <1>6, <2>1, <2>6
<1> QED
  BY <1>12, <1>13
-----------------------------------------------------------------------------
(* The bound of the spool *)

LEMMA LargestFile ==
  ASSUME NEW D \in SUBSET Nat, D # {}, NEW k \in Nat, \A f \in D : f <= k
  PROVE  Max(D) \in D /\ \A f \in D : Max(D) >= f
<1> DEFINE T == {n \in Nat : \A f \in D : f <= n}
<1>1. T \in SUBSET Nat /\ T # {}
  OBVIOUS
<1>2. PICK n \in T : \A m \in T : ~(m < n)
  <2> HIDE DEF T
  <2> QED
    BY <1>1, SmallestNumber
<1>3. n \in D
  <2> SUFFICES ASSUME n \notin D PROVE FALSE
    OBVIOUS
  <2>1. \A f \in D : f <= n /\ f # n /\ f \in Nat
    OBVIOUS
  <2>2. PICK f \in D : TRUE
    OBVIOUS
  <2>3. n \in Nat /\ n - 1 \in Nat /\ n - 1 < n /\ \A g \in D : g <= n - 1
    <3>1. n \in Nat
      OBVIOUS
    <3> HIDE DEF T
    <3> QED
      BY <2>1, <2>2, <3>1
  <2> QED
    BY <1>2, <2>3
<1>4. \E x \in D : \A y \in D : x >= y
  BY <1>3
<1> QED
  BY <1>4 DEF Max

LEMMA LargestIs ==
  ASSUME NEW D \in SUBSET Nat, NEW n \in D, \A f \in D : n >= f
  PROVE  Max(D) = n
<1>1. Max(D) \in D /\ \A f \in D : Max(D) >= f
  BY DEF Max
<1>2. Max(D) \in Nat /\ n \in Nat /\ Max(D) >= n /\ n >= Max(D)
  BY <1>1
<1> QED
  BY <1>2

(* What every check of the space leaves behind.                             *)
LEMMA CheckedSpace ==
  ASSUME WriterTypes, SpaceInv, NEW r \in {"ok", "full", "error"}, InitializeCurrentSpoolStateIfNeeded(r)
  PROVE  est' \in Nat /\ (est' > MaxSpool \/ Bytes <= est') /\ (fd' # "closed" => est' <= MaxSpool)
<1>1. Bytes \in Nat /\ DirSize \in Nat /\ Bytes <= DirSize
  BY BytesAreSum, DirSizeIsSum, BytesType, OccupationSum DEF WriterTypes
<1>2. CASE UNCHANGED <<fd, est>>
  BY <1>2 DEF SpaceInv
<1>3. CASE est' = NewEstimate /\ (SpaceAvailable \/ fd' = fd) /\ fd = "closed"
  <2>1. NewEstimate \in {est, DirSize} /\ (NewEstimate = est \/ NewEstimate = DirSize)
    BY DEF NewEstimate, EstimateSpoolDirSize
  <2>2. est' \in Nat /\ (est' > MaxSpool \/ Bytes <= est')
    BY <1>1, <1>3, <2>1, NaturalLimits DEF SpaceInv
  <2> QED
    BY <1>3, <2>2 DEF SpaceAvailable
<1> QED
  BY <1>2, <1>3 DEF InitializeCurrentSpoolStateIfNeeded, Reestimate, estimate

(* The directory after a file was published.                                *)
LEMMA PublishedSpace ==
  ASSUME WriterTypes, WriterTypes', SpaceInv, fd = "open", NEW recs \in SUBSET cache, Publish(recs),
         est' = est + Cardinality(cache)
  PROVE  est' \in Nat /\ (est' > MaxSpool \/ Bytes' <= est') /\ SpoolBounded'
<1> DEFINE n == Len(files')
<1>1. /\ n \notin DOMAIN files /\ n \in DOMAIN files' /\ DOMAIN files \subseteq DOMAIN files'
      /\ \A f \in DOMAIN files : files'[f] = files[f]
      /\ files'[n].recs = recs /\ spool' = spool \cup {n}
  BY PublishedTypes DEF WriterTypes
<1>2. files \in Seq(Files) /\ files' \in Seq(Files) /\ spool \in SUBSET (DOMAIN files)
  BY DEF WriterTypes
<1>3. Bytes' <= Bytes + Cardinality(recs)
  BY <1>1, <1>2, BytesAdded, BytesAreSum
<1>4. /\ Bytes \in Nat /\ Bytes' \in Nat /\ Cardinality(cache) \in Nat
      /\ Cardinality(recs) \in Nat /\ Cardinality(recs) <= Cardinality(cache)
  <2>1. Bytes \in Nat
    BY <1>2, BytesType, BytesAreSum
  <2>2. spool' \in SUBSET (DOMAIN files')
    BY <1>1, <1>2
  <2>3. Bytes' \in Nat
    BY <1>2, <2>2, BytesType, BytesAreSum
  <2>4. IsFiniteSet(cache) /\ Cardinality(cache) \in Nat /\ Cardinality(recs) \in Nat
    BY CacheFinite DEF WriterTypes
  <2>5. Cardinality(recs) <= Cardinality(cache)
    BY <2>4, FS_Subset
  <2> QED
    BY <2>1, <2>3, <2>4, <2>5
<1>5. est \in Nat /\ est <= MaxSpool /\ Bytes <= est /\ MaxSpool \in Nat
  BY NaturalLimits DEF SpaceInv
<1>6. Max(spool') = n
  <2>1. DOMAIN files' = 1..n /\ n \in Nat /\ spool' \in SUBSET Nat /\ n \in spool' /\ \A f \in spool' : n >= f
    BY <1>1, <1>2
  <2> QED
    BY <2>1, LargestIs
<1>7. Size(Max(spool))' = Cardinality(recs)
  BY <1>1, <1>6 DEF Size
<1> HIDE DEF n
<1>8. SpoolBounded'
  BY <1>3, <1>4, <1>5, <1>7 DEF SpoolBounded
<1>9. est' \in Nat /\ Bytes' <= est'
  BY <1>3, <1>4, <1>5
<1> QED
  BY <1>8, <1>9

(* ... and after files were removed.                                        *)
LEMMA RemovedSpace ==
  ASSUME WriterTypes, SpaceInv, spool' \subseteq spool, UNCHANGED <<files, est, fd>>
  PROVE  SpaceInv'
<1>1. files \in Seq(Files) /\ spool \in SUBSET (DOMAIN files) /\ spool' \in SUBSET spool
  BY DEF WriterTypes
<1>2. /\ DOMAIN files = 1..Len(files) /\ Len(files) \in Nat /\ spool \in SUBSET Nat /\ spool' \in SUBSET Nat
      /\ \A f \in spool : f <= Len(files)
  BY <1>1
<1>3. /\ Bytes' <= Bytes
      /\ \A m \in spool \ spool' : Bytes' + Cardinality(files[m].recs) <= Bytes
  BY <1>1, BytesRemoved, BytesAreSum
<1>4. Bytes \in Nat /\ Bytes' \in Nat
  BY <1>1, BytesType, BytesAreSum
<1>5. \A f \in spool : Size(f) \in Nat /\ Size(f) = Cardinality(files[f].recs)
  <2>1. Sizes(files, spool) \in [spool -> Nat]
    BY <1>1, SizesType
  <2> QED
    BY <2>1 DEF Sizes, Size
<1>6. SpoolBounded'
  <2> SUFFICES ASSUME spool' # {} PROVE Bytes' - Cardinality(files[Max(spool')].recs) <= MaxSpool
    BY DEF SpoolBounded, Size
  <2> DEFINE m == Max(spool)
             k == Max(spool')
  <2>1. m \in spool /\ \A f \in spool : m >= f
    BY <1>1, <1>2, LargestFile
  <2>2. k \in spool'
    BY <1>1, <1>2, LargestFile
  <2>3. Bytes - Size(m) <= MaxSpool
    BY <2>1 DEF SpaceInv, SpoolBounded
  <2>4. CASE m \in spool'
    <3>1. k = m
      BY <1>1, <1>2, <2>1, <2>4, LargestIs
    <3> HIDE DEF m, k
    <3>2. Bytes' - Size(m) <= MaxSpool
      BY <1>3, <1>4, <1>5, <2>1, <2>3, NaturalLimits
    <3> QED
      BY <1>5, <2>1, <3>1, <3>2 DEF k
  <2>5. CASE m \notin spool'
    <3>1. Size(m) \in Nat /\ Size(k) \in Nat /\ Bytes' + Size(m) <= Bytes /\ Size(k) = Cardinality(files[k].recs)
      BY <1>1, <1>3, <1>5, <2>1, <2>2, <2>5
    <3> HIDE DEF m, k
    <3>2. Bytes' - Size(k) <= MaxSpool
      BY <1>4, <2>3, <3>1, NaturalLimits
    <3> QED
      BY <3>1, <3>2 DEF k
  <2> QED
    BY <2>4, <2>5
<1>7. est \in Nat /\ MaxSpool \in Nat
  BY NaturalLimits DEF SpaceInv
<1> QED
  BY <1>3, <1>4, <1>6, <1>7 DEF SpaceInv

LEMMA SameSpace ==
  ASSUME WriterTypes, SpaceInv, UNCHANGED <<files, spool>>,
         est' \in Nat, est' > MaxSpool \/ Bytes <= est', fd' # "closed" => est' <= MaxSpool
  PROVE  SpaceInv'
<1>1. Bytes' = Bytes
  BY BytesAreSum
<1>2. SpoolBounded'
  BY <1>1 DEF SpaceInv, SpoolBounded, Size
<1> QED
  BY <1>1, <1>2 DEF SpaceInv

LEMMA SpaceInvStep ==
  ASSUME WriterTypes, WriterTypes', SpaceInv, [Next]_vars
  PROVE  SpaceInv'
<1>1. CASE BeginWrite \/ BeginFlush
  BY <1>1, RemovedSpace DEF BeginWrite, BeginFlush, batch, estimate, disk
<1>2. CASE FlushInitialize
  <2>1. PICK r \in {"ok", "full", "error"} : InitializeCurrentSpoolStateIfNeeded(r)
    BY <1>2 DEF FlushInitialize
  <2>2. UNCHANGED <<files, spool>>
    BY <1>2 DEF FlushInitialize, disk
  <2> QED
    BY <2>1, <2>2, CheckedSpace, SameSpace
<1>3. CASE FlushComplete
  <2>1. PICK ok \in BOOLEAN : CompleteCurrentSpoolState(ok)
    BY <1>3 DEF FlushComplete
  <2>2. CASE UNCHANGED <<fd, est, disk>>
    BY <2>2, RemovedSpace DEF disk
  <2>3. ASSUME NEW recs \in SUBSET cache, Publish(recs), fd = "open", fd' = "closed", est' = est + Cardinality(cache)
        PROVE  SpaceInv'
    BY <2>3, PublishedSpace DEF SpaceInv
  <2>4. CASE UNCHANGED disk /\ fd' = "closed" /\ est' = est + Cardinality(cache)
    <3>1. Cardinality(cache) \in Nat /\ Bytes \in Nat
      BY CacheFinite, BytesType, BytesAreSum DEF WriterTypes
    <3>2. est' \in Nat /\ (est' > MaxSpool \/ Bytes <= est')
      BY <2>4, <3>1, NaturalLimits DEF SpaceInv
    <3> QED
      BY <2>4, <3>2, SameSpace DEF disk
  <2>5. CASE UNCHANGED <<est, disk>> /\ fd' = "closed"
    BY <2>5, SameSpace DEF disk, SpaceInv
  <2> QED
    BY <2>1, <2>2, <2>3, <2>4, <2>5 DEF CompleteCurrentSpoolState
<1>4. CASE WriteRecord
  <2>1. UNCHANGED <<files, spool>>
    BY <1>4 DEF WriteRecord, disk
  <2>2. CASE UNCHANGED <<fd, est>>
    BY <2>1, <2>2, RemovedSpace
  <2>3. CASE \E r \in {"ok", "full", "error"} : InitializeCurrentSpoolStateIfNeeded(r)
    BY <2>1, <2>3, CheckedSpace, SameSpace
  <2> QED
    BY <1>4, <2>2, <2>3 DEF WriteRecord, estimate
<1>5. CASE [StartExport \/ Exporting \/ ReplyStarts \/ ReplyAcks \/ LateAcks]_vars
  BY <1>5, ExportBeside, RemovedSpace DEF Beside
<1>6. CASE Crash
  <2>1. UNCHANGED <<files, spool>> /\ est' = MaxSpool + 1 /\ fd' = "closed"
    BY <1>6, RestartKeeps DEF Crash, Restart, disk
  <2>2. est' \in Nat /\ est' > MaxSpool
    BY <2>1, NaturalLimits
  <2> QED
    BY <2>1, <2>2, SameSpace
<1> QED
  BY <1>1, <1>2, <1>3, <1>4, <1>5, <1>6, NextCases DEF WriterStep

(* The spool directory never holds more than the limit and one file,        *)
(* although the writer only estimates its size and renews the estimate when *)
(* it is above the limit (SpaceAvailable, EstimateSpoolDirSize).            *)
THEOREM SpoolAlwaysBounded == Spec => []SpoolBounded
<1>1. Init => SpaceInv
  BY NaturalLimits DEF Init, WriterInit, SpaceInv, SpoolBounded
<1>2. WriterTypes /\ WriterTypes' /\ SpaceInv /\ [Next]_vars => SpaceInv'
  BY SpaceInvStep
<1>3. SpaceInv => SpoolBounded
  BY DEF SpaceInv
<1> QED
  BY <1>1, <1>2, <1>3, WriterInvariant, PTL DEF Spec

-----------------------------------------------------------------------------
(***************************************************************************)
(* The process tree, whose annotations the telemetry carries: a late event *)
(* still takes effect, nothing leaves the tree early, and the originator   *)
(* is inherited, for every window, number of processes and of events.      *)
(***************************************************************************)

-----------------------------------------------------------------------------
(* Sequences *)

LEMMA LeastExists ==
  ASSUME NEW T \in SUBSET Nat, T # {}
  PROVE  \E x \in T : \A y \in T : x <= y
<1>1. \E x \in T : \A y \in T : ~(<<y, x>> \in OpToRel(<, Nat))
  BY NatLessThanWellFounded, WFMin, Zenon
<1>2. \A x, y \in T : ~(<<y, x>> \in OpToRel(<, Nat)) => x <= y
  BY DEF OpToRel
<1> QED
  BY <1>1, <1>2

LEMMA RangeIs ==
  ASSUME NEW S, NEW s \in Seq(S)
  PROVE  /\ Range(s) = {s[i] : i \in 1..Len(s)} /\ Range(s) \subseteq S
         /\ \A x : x \in Range(s) <=> \E i \in 1..Len(s) : x = s[i]
BY LenProperties, ElementOfSeq DEF Range

LEMMA RangeConcat ==
  ASSUME NEW S, NEW s \in Seq(S), NEW t \in Seq(S)
  PROVE  s \o t \in Seq(S) /\ Range(s \o t) = Range(s) \union Range(t)
BY ConcatProperties, RangeConcatenation

(* What is left of the removals                                             *)
KeptAt(K, i) ==
  IF i = 0 THEN <<>>
  ELSE IF removeAt[i] \in Due THEN K[i - 1] ELSE Append(K[i - 1], removeAt[i])
Keeps(K, n) == K = [i \in 0..n |-> KeptAt(K, i)]

(* The function that the loop over remove_at_ walks along exists.           *)
LEMMA KeptExists ==
  ASSUME NEW n \in Nat
  PROVE  \E K : Keeps(K, n)
<1> DEFINE Bad == {m \in Nat : ~\E K : Keeps(K, m)}
<1>1. ASSUME Bad # {} PROVE FALSE
  <2>1. Bad \in SUBSET Nat
    OBVIOUS
  <2>2. PICK m \in Bad : \A l \in Bad : m <= l
    <3> HIDE DEF Bad
    <3> QED
      BY <1>1, <2>1, LeastExists
  <2>3. m # 0
    <3> DEFINE K == [i \in 0..0 |-> <<>>]
    <3>1. Keeps(K, 0)
      BY DEF Keeps, KeptAt
    <3> QED
      BY <3>1
  <2>4. m - 1 \in Nat /\ m - 1 \notin Bad
    BY <2>2, <2>3
  <2>5. PICK K : Keeps(K, m - 1)
    BY <2>4
  <2> DEFINE L == [i \in 0..m |-> IF i = m THEN KeptAt(K, m) ELSE K[i]]
  <2>6. \A i \in 0..m : L[i] = KeptAt(L, i)
    <3> SUFFICES ASSUME NEW i \in 0..m PROVE L[i] = KeptAt(L, i)
      OBVIOUS
    <3>1. CASE i = 0
      BY <2>3, <2>4, <2>5, <3>1 DEF Keeps, KeptAt
    <3>2. CASE i # 0
      <4>1. i - 1 \in 0..m /\ i - 1 # m /\ L[i - 1] = K[i - 1]
        BY <2>4, <3>2
      <4>2. L[i] = KeptAt(K, i)
        BY <2>4, <2>5 DEF Keeps
      <4> QED
        BY <3>2, <4>1, <4>2 DEF KeptAt
    <3> QED
      BY <3>1, <3>2
  <2>7. Keeps(L, m)
    BY <2>6 DEF Keeps
  <2> QED
    BY <2>2, <2>7
<1> QED
  BY <1>1

Removals == [ts : Nat, pid : Nat]

LEMMA RemainingIs ==
  ASSUME removeAt \in Seq(Removals)
  PROVE  Remaining \in Seq(Removals) /\ Range(Remaining) = Range(removeAt) \ Due
<1>1. \E K : Keeps(K, Len(removeAt))
  BY KeptExists, LenProperties
<1>2. \E K : Keeps(K, Len(removeAt)) /\ Remaining = K[Len(removeAt)]
  BY <1>1, Zenon DEF Remaining, Keeps, KeptAt
<1>3. PICK K : Keeps(K, Len(removeAt)) /\ Remaining = K[Len(removeAt)]
  BY <1>2
<1> DEFINE Good(i) == K[i] \in Seq(Removals) /\ Range(K[i]) = {removeAt[j] : j \in 1..i} \ Due
           Bad == {i \in 0..Len(removeAt) : ~Good(i)}
<1>4. ASSUME Bad # {} PROVE FALSE
  <2>1. Bad \in SUBSET Nat
    OBVIOUS
  <2>2. PICK i \in Bad : \A j \in Bad : i <= j
    <3> HIDE DEF Bad
    <3> QED
      BY <1>4, <2>1, LeastExists
  <2>3. i \in 0..Len(removeAt) /\ ~Good(i) /\ K[i] = KeptAt(K, i)
    BY <1>3, <2>2 DEF Keeps
  <2>4. CASE i = 0
    <3>1. K[i] = <<>> /\ <<>> \in Seq(Removals) /\ DOMAIN <<>> = {} /\ 1..i = {}
      BY <2>3, <2>4, EmptySeq DEF KeptAt
    <3>2. Range(K[i]) = {}
      BY <3>1 DEF Range
    <3> QED
      BY <2>3, <3>1, <3>2
  <2>5. CASE i # 0
    <3>1. i - 1 \in 0..Len(removeAt) /\ Good(i - 1) /\ removeAt[i] \in Removals
          /\ 1..i = (1..(i - 1)) \union {i}
      BY <2>2, <2>3, <2>5, ElementOfSeq, SMTT(30)
    <3>2. CASE removeAt[i] \in Due
      <4>1. K[i] = K[i - 1]
        BY <2>3, <2>5, <3>2 DEF KeptAt
      <4>2. {removeAt[j] : j \in 1..i} \ Due = {removeAt[j] : j \in 1..(i - 1)} \ Due
        BY <3>1, <3>2
      <4> QED
        BY <2>3, <3>1, <4>1, <4>2
    <3>3. CASE removeAt[i] \notin Due
      <4>1. K[i] = K[i - 1] \o <<removeAt[i]>> /\ <<removeAt[i]>> \in Seq(Removals)
        <5>1. K[i] = Append(K[i - 1], removeAt[i])
          BY <2>3, <2>5, <3>3 DEF KeptAt
        <5> DEFINE s == K[i - 1]
                   x == removeAt[i]
        <5>2. s \in Seq(Removals) /\ x \in Removals
          BY <3>1
        <5> HIDE DEF s, x
        <5>3. Append(s, x) = s \o <<x>> /\ <<x>> \in Seq(Removals)
          BY <5>2, AppendIsConcat
        <5> QED
          BY <5>1, <5>3 DEF s, x
      <4>2. K[i] \in Seq(Removals) /\ Range(K[i]) = Range(K[i - 1]) \union Range(<<removeAt[i]>>)
        <5>1. \A s, t \in Seq(Removals) : s \o t \in Seq(Removals) /\ Range(s \o t) = Range(s) \union Range(t)
          BY RangeConcat
        <5>2. K[i - 1] \in Seq(Removals)
          BY <3>1
        <5> QED
          BY <4>1, <5>1, <5>2, ZenonT(30)
      <4>3. Range(<<removeAt[i]>>) = {removeAt[i]}
        BY DEF Range
      <4>4. {removeAt[j] : j \in 1..i} \ Due = ({removeAt[j] : j \in 1..(i - 1)} \ Due) \union {removeAt[i]}
        BY <3>1, <3>3
      <4> QED
        BY <2>3, <3>1, <4>2, <4>3, <4>4
    <3> QED
      BY <3>2, <3>3
  <2> QED
    BY <2>4, <2>5
<1>5. Good(Len(removeAt))
  <2>1. Len(removeAt) \in 0..Len(removeAt)
    BY LenProperties
  <2> QED
    BY <1>4, <2>1
<1>6. Range(removeAt) = {removeAt[j] : j \in 1..Len(removeAt)}
  BY RangeIs
<1> QED
  BY <1>3, <1>5, <1>6

-----------------------------------------------------------------------------
(* The inductive invariant *)

Events == [type : {"fork", "exec", "exit"}, p : Nat \ {0}, n : Nat]

(* The kernel: what an event makes is new, and a process that executed or   *)
(* exited does nothing afterwards.                                          *)
New(d) == log[d].n # NoPid =>
            \A t \in 1..d : log[t].p # log[d].n /\ (t # d => log[t].n # log[d].n)
Ended(t) == log[t].type \in {"exec", "exit"} =>
              log[t].p \notin alive /\ \A d \in 1..Len(log) : d > t => log[d].p # log[t].p
KernelInv ==
  /\ kproc \in Seq(Range(kproc)) /\ alive \subseteq 1..Len(kproc)
  /\ log \in Seq(Events) /\ pending \subseteq 1..Len(log)
  /\ boot # "subscribed" => log = <<>>
  /\ \A d \in 1..Len(log) :
       /\ log[d].p <= Len(kproc) /\ log[d].n <= Len(kproc)
       /\ log[d].type = "exit" <=> log[d].n = NoPid
       /\ New(d) /\ Ended(d)

(* ES delivers the events of one process in order.                          *)
Ordered == \A d \in pending, t \in Delivered : d < t => Touches(d) \intersect Touches(t) = {}

(* The window is sorted and holds what was delivered, nothing twice.        *)
SeenInv ==
  /\ seen \in [1..W -> Nat]
  /\ \A i \in 1..W : seen[i] = 0 \/ seen[i] \in Delivered
  /\ \A i, j \in 1..W : i < j => seen[i] < seen[j] \/ seen[i] = 0

(* What left the tree or is marked to leave it was removed before the       *)
(* window; what is still to come is not in the tree.                        *)
Old(p) == \E ts \in Delivered : Removal(ts, p) /\ ts < Head(seen)
Shape(r) == r = [program |-> r.program, parent |-> r.parent, ann |-> r.ann,
                 refcnt |-> r.refcnt, tombstoned |-> r.tombstoned]
TreeInv ==
  /\ map \subseteq DOMAIN proc /\ DOMAIN proc \subseteq 1..Len(kproc)
  /\ \A p \in DOMAIN proc : Shape(proc[p])
  /\ removeAt \in Seq(Removals)
  /\ \A r \in Range(removeAt) : r.ts \in Delivered /\ Removal(r.ts, r.pid)
  /\ \A p \in DOMAIN proc : p \notin map \/ proc[p].tombstoned => Old(p)
  /\ \A d \in pending : log[d].n \notin DOMAIN proc

(* LateEventsApplied and OriginatorInherited, event by event.               *)
Gone(p) == p \notin map \/ proc[p].tombstoned \/ \E r \in Range(removeAt) : r.pid = p
Took(ts) ==
  /\ log[ts].type \in {"fork", "exec"} => log[ts].n \in DOMAIN proc
  /\ log[ts].type \in {"exec", "exit"} => Gone(log[ts].p)
Applied == \A ts \in Delivered : log[ts].p \in DOMAIN proc => OutOfWindow(ts) \/ Took(ts)
Handed(ts) ==
  log[ts].n \in DOMAIN proc /\ log[ts].p \in DOMAIN proc /\ proc[log[ts].p].ann # "none"
    => proc[log[ts].n].ann = proc[log[ts].p].ann
Inherited == \A ts \in Delivered : Handed(ts)

TreeStateInv == KernelInv /\ Ordered /\ SeenInv /\ TreeInv /\ Applied /\ Inherited

LEMMA DeliveredType ==
  ASSUME KernelInv
  PROVE  /\ Len(log) \in Nat /\ DOMAIN log = 1..Len(log) /\ Delivered \subseteq 1..Len(log)
         /\ \A d \in 1..Len(log) : log[d] \in Events /\ d \in Nat \ {0}
         /\ Delivered \intersect pending = {} /\ pending \subseteq 1..Len(log)
BY LenProperties, ElementOfSeq DEF KernelInv, Delivered

LEMMA WindowEnds ==
  ASSUME SeenInv
  PROVE  /\ Len(seen) = W /\ Head(seen) = seen[1] /\ Last(seen) = seen[W] /\ W \in Nat \ {0}
         /\ 1 \in 1..W /\ W \in 1..W /\ \A i \in 1..W : seen[i] \in Nat
<1>1. W \in Nat \ {0}
  BY WAssumption
<1>2. seen \in Seq(Nat) /\ Len(seen) = W
  BY <1>1 DEF SeenInv
<1> QED
  BY <1>1, <1>2 DEF SeenInv, Last

LEMMA TreeStateInvInit == TreeInit => TreeStateInv
<1> SUFFICES ASSUME TreeInit PROVE TreeStateInv
  OBVIOUS
<1>1. log = <<>> /\ pending = {} /\ Len(<<>>) = 0 /\ <<>> \in Seq(Events) /\ <<>> \in Seq(Removals)
  BY EmptySeq DEF TreeInit
<1>2. 1..Len(log) = {} /\ Delivered = {}
  BY <1>1 DEF Delivered
<1>3. kproc \in Seq(Range(kproc)) /\ Len(kproc) = 1 /\ alive = {1}
  <2> DEFINE x == [pid |-> 1, ppid |-> 0, prog |-> "other"]
  <2>1. kproc = <<x>> /\ alive = {1}
    BY DEF TreeInit, Root
  <2> HIDE DEF x
  <2>2. Range(kproc) = {x}
    BY <2>1 DEF Range
  <2>3. <<x>> \in Seq({x}) /\ Len(<<x>>) = 1
    OBVIOUS
  <2> QED
    BY <2>1, <2>2, <2>3
<1>4. KernelInv
  BY <1>1, <1>2, <1>3 DEF KernelInv
<1>5. SeenInv
  BY WAssumption DEF SeenInv, TreeInit
<1>6. TreeInv
  <2>1. DOMAIN proc = {} /\ map = {} /\ removeAt = <<>> /\ DOMAIN <<>> = {}
    BY DEF TreeInit
  <2>2. Range(removeAt) = {}
    BY <2>1 DEF Range
  <2> QED
    BY <1>1, <2>1, <2>2 DEF TreeInv
<1> QED
  BY <1>1, <1>2, <1>4, <1>5, <1>6 DEF TreeStateInv, Ordered, Applied, Inherited

-----------------------------------------------------------------------------
(* The kernel *)

(* An event is logged, or nothing is while santad has not subscribed.       *)
Logged(type, p, n) ==
  \/ UNCHANGED <<log, pending>>
  \/ /\ log' = Append(log, [type |-> type, p |-> p, n |-> n])
     /\ pending' = pending \union {Len(log')}

LEMMA LoggedIs ==
  ASSUME KernelInv, NEW type \in {"fork", "exec", "exit"}, NEW p \in Nat \ {0}, NEW n \in Nat,
         Logged(type, p, n)
  PROVE  /\ log' \in Seq(Events) /\ pending' \subseteq 1..Len(log') /\ Len(log') \in Nat
         /\ Delivered' = Delivered
         /\ \A d \in 1..Len(log) : d \in 1..Len(log') /\ log'[d] = log[d]
         /\ \A d \in 1..Len(log') : d \in 1..Len(log) \/ /\ d = Len(log) + 1
                                                         /\ log'[d] = [type |-> type, p |-> p, n |-> n]
         /\ \A d \in pending' : d \in pending \/ d = Len(log) + 1
<1>1. Len(log) \in Nat /\ pending \subseteq 1..Len(log) /\ log \in Seq(Events)
  BY DeliveredType DEF KernelInv
<1>2. CASE UNCHANGED <<log, pending>>
  BY <1>1, <1>2 DEF Delivered
<1>3. CASE /\ log' = Append(log, [type |-> type, p |-> p, n |-> n])
           /\ pending' = pending \union {Len(log')}
  <2> DEFINE e == [type |-> type, p |-> p, n |-> n]
  <2>1. e \in Events
    BY DEF Events
  <2>2. log' = Append(log, e)
    BY <1>3
  <2> HIDE DEF e
  <2>3. /\ log' \in Seq(Events) /\ Len(log') = Len(log) + 1 /\ log'[Len(log) + 1] = e
        /\ \A d \in 1..Len(log) : log'[d] = log[d]
    BY <1>1, <2>1, <2>2, AppendProperties
  <2>4. Delivered' = Delivered
    BY <1>1, <1>3, <2>3 DEF Delivered
  <2>5. e = [type |-> type, p |-> p, n |-> n]
    BY DEF e
  <2>6. /\ Len(log') \in Nat /\ pending' \subseteq 1..Len(log')
        /\ \A d \in 1..Len(log) : d \in 1..Len(log')
        /\ \A d \in 1..Len(log') : d \in 1..Len(log) \/ d = Len(log) + 1
        /\ \A d \in pending' : d \in pending \/ d = Len(log) + 1
    <3> DEFINE L == Len(log)
    <3>1. Len(log') = L + 1 /\ pending' = pending \union {L + 1} /\ L \in Nat /\ pending \subseteq 1..L
      BY <1>1, <1>3, <2>3
    <3> HIDE DEF L
    <3>2. 1..(L + 1) = (1..L) \union {L + 1} /\ L + 1 \in Nat
      BY <3>1
    <3>3. /\ Len(log') \in Nat /\ pending' \subseteq 1..Len(log')
          /\ \A d \in 1..L : d \in 1..Len(log')
          /\ \A d \in 1..Len(log') : d \in 1..L \/ d = L + 1
          /\ \A d \in pending' : d \in pending \/ d = L + 1
      BY <3>1, <3>2
    <3> QED
      BY <3>3 DEF L
  <2>7. \A d : d = Len(log) + 1 => log'[d] = [type |-> type, p |-> p, n |-> n]
    BY <2>3, <2>5, Zenon
  <2> QED
    BY <2>3, <2>4, <2>6, <2>7, Zenon
<1> QED
  BY <1>2, <1>3 DEF Logged

(* What an event may say, and what it does to the incarnations.             *)
Makes(type, p, n) ==
  /\ p \in alive /\ type \in {"fork", "exec", "exit"}
  /\ type = "exit" <=> n = NoPid
  /\ n # NoPid => n = Len(kproc) + 1
  /\ kproc' \in Seq(Range(kproc')) /\ Len(kproc') = IF n = NoPid THEN Len(kproc) ELSE n
  /\ alive' \subseteq (alive \union {n}) \ {NoPid}
  /\ type \in {"exec", "exit"} => p \notin alive'

LEMMA AppendIs ==
  ASSUME NEW S, NEW s \in Seq(S), NEW x
  PROVE  Append(s, x) \in Seq(Range(Append(s, x))) /\ Len(Append(s, x)) = Len(s) + 1
<1> DEFINE T == S \union {x}
<1>1. s \in Seq(T) /\ x \in T
  BY SeqMonotonic
<1> HIDE DEF T
<1>2. Append(s, x) \in Seq(T) /\ Len(Append(s, x)) = Len(s) + 1
  BY <1>1, AppendProperties
<1>3. \A t \in Seq(T) : t \in Seq(Range(t))
  BY SeqOfRange
<1> QED
  BY <1>2, <1>3, Zenon

LEMMA KernelMakes ==
  ASSUME KernelInv, Kernel
  PROVE  \E type, p, n : Makes(type, p, n) /\ Logged(type, p, n) /\ UNCHANGED <<boot, handling, tree, token>>
<1>1. kproc \in Seq(Range(kproc)) /\ Len(kproc) \in Nat /\ alive \subseteq 1..Len(kproc)
  BY LenProperties DEF KernelInv
<1>2. ASSUME NEW type, NEW p, NEW n, Emit(type, p, n)
      PROVE  Logged(type, p, n) /\ UNCHANGED <<boot, handling, tree, token>>
  BY <1>2 DEF Emit, Logged
<1>3. PICK p \in alive : Fork(p) \/ (\E prog \in Program : Exec(p, prog)) \/ Exit(p)
  BY DEF Kernel
<1>4. \A x : Append(kproc, x) \in Seq(Range(Append(kproc, x))) /\ Len(Append(kproc, x)) = Len(kproc) + 1
  BY <1>1, AppendIs
<1>5. CASE Fork(p)
  <2>1. Makes("fork", p, Len(kproc) + 1)
    <3>1. kproc' \in Seq(Range(kproc')) /\ Len(kproc') = Len(kproc) + 1
      BY <1>4, <1>5, Zenon DEF Fork
    <3>2. alive' = alive \union {Len(kproc) + 1}
      BY <1>5 DEF Fork
    <3> QED
      BY <1>1, <3>1, <3>2 DEF Makes, NoPid
  <2>2. Emit("fork", p, Len(kproc) + 1)
    BY <1>5 DEF Fork
  <2> QED
    BY <1>2, <2>1, <2>2
<1>6. CASE \E prog \in Program : Exec(p, prog)
  <2>1. PICK prog \in Program : Exec(p, prog)
    BY <1>6
  <2>2. Makes("exec", p, Len(kproc) + 1)
    <3>1. kproc' \in Seq(Range(kproc')) /\ Len(kproc') = Len(kproc) + 1
      BY <1>4, <2>1, Zenon DEF Exec
    <3>2. alive' = (alive \ {p}) \union {Len(kproc) + 1}
      BY <2>1 DEF Exec
    <3> QED
      BY <1>1, <3>1, <3>2 DEF Makes, NoPid
  <2>3. Emit("exec", p, Len(kproc) + 1)
    BY <2>1 DEF Exec
  <2> QED
    BY <1>2, <2>2, <2>3
<1>7. CASE Exit(p)
  <2>1. Makes("exit", p, NoPid)
    <3> DEFINE f(q) == IF q \in alive /\ kproc[q].ppid = kproc[p].pid
                       THEN [kproc[q] EXCEPT !.ppid = kproc[Root].pid] ELSE kproc[q]
    <3>1. kproc' = [q \in 1..Len(kproc) |-> f(q)]
      BY <1>1, <1>7, LenProperties, Zenon DEF Exit
    <3> HIDE DEF f
    <3>2. kproc' \in Seq({f(q) : q \in 1..Len(kproc)}) /\ Len(kproc') = Len(kproc)
      BY <1>1, <3>1
    <3>3. kproc' \in Seq(Range(kproc'))
      <4>1. \A S : \A s \in Seq(S) : s \in Seq(Range(s))
        BY SeqOfRange
      <4> QED
        BY <3>2, <4>1, Zenon
    <3>4. alive' = alive \ {p}
      BY <1>7 DEF Exit
    <3> QED
      BY <1>1, <3>2, <3>3, <3>4 DEF Makes, NoPid
  <2>2. Emit("exit", p, NoPid)
    BY <1>7 DEF Exit
  <2> QED
    BY <1>2, <2>1, <2>2
<1> QED
  BY <1>3, <1>5, <1>6, <1>7

(* What the tree relies on of the kernel is kept by an event.               *)
LEMMA KernelKeepsKernel ==
  ASSUME KernelInv, NEW type, NEW p, NEW n, Makes(type, p, n), Logged(type, p, n),
         UNCHANGED boot, log' # log => boot = "subscribed"
  PROVE  KernelInv'
<1>1. /\ Len(kproc) \in Nat /\ alive \subseteq 1..Len(kproc) /\ p \in alive
      /\ p \in 1..Len(kproc) /\ n \in Nat /\ type \in {"fork", "exec", "exit"}
      /\ type = "exit" <=> n = NoPid
      /\ n = NoPid \/ n = Len(kproc) + 1
      /\ kproc' \in Seq(Range(kproc')) /\ Len(kproc') = IF n = NoPid THEN Len(kproc) ELSE n
      /\ alive' \subseteq (alive \union {n}) \ {NoPid}
      /\ type \in {"exec", "exit"} => p \notin alive'
  BY LenProperties DEF KernelInv, Makes, NoPid
<1>2. /\ Len(kproc') \in Nat /\ Len(kproc) <= Len(kproc') /\ alive' \subseteq 1..Len(kproc')
      /\ \A q \in 1..Len(kproc) : q \in alive' => q \in alive
      /\ p <= Len(kproc') /\ n <= Len(kproc')
  BY <1>1 DEF NoPid
<1>3. /\ log' \in Seq(Events) /\ pending' \subseteq 1..Len(log') /\ Len(log') \in Nat
      /\ \A d \in 1..Len(log) : d \in 1..Len(log') /\ log'[d] = log[d]
      /\ \A d \in 1..Len(log') :
           d \in 1..Len(log) \/ (d = Len(log) + 1 /\ log'[d] = [type |-> type, p |-> p, n |-> n])
  <2>1. p \in Nat \ {0} /\ n \in Nat
    BY <1>1
  <2> QED
    BY <1>1, <2>1, LoggedIs
<1>4. /\ Len(log) \in Nat
      /\ \A d \in 1..Len(log) :
           /\ log[d] \in Events /\ log[d].p <= Len(kproc) /\ log[d].n <= Len(kproc)
           /\ log[d].type = "exit" <=> log[d].n = NoPid
           /\ New(d) /\ Ended(d)
  BY DeliveredType DEF KernelInv
<1>5. \A d \in 1..Len(log) : log[d].p \in Nat \ {0} /\ log[d].n \in Nat
  BY <1>4 DEF Events
<1>6. ASSUME NEW d \in 1..Len(log')
      PROVE  /\ log'[d].p <= Len(kproc') /\ log'[d].n <= Len(kproc')
             /\ log'[d].type = "exit" <=> log'[d].n = NoPid
             /\ New(d)'
  <2>1. CASE d \in 1..Len(log)
    <3>1. log'[d] = log[d] /\ \A t \in 1..d : t \in 1..Len(log) /\ log'[t] = log[t]
      BY <1>3, <1>4, <2>1
    <3>2. New(d)'
      BY <1>4, <2>1, <3>1 DEF New
    <3> QED
      BY <1>2, <1>4, <1>5, <2>1, <3>1, <3>2
  <2>2. CASE d \notin 1..Len(log)
    <3>1. d = Len(log) + 1 /\ log'[d] = [type |-> type, p |-> p, n |-> n]
      BY <1>3, <2>2
    <3>2. log'[d].p = p /\ log'[d].n = n /\ log'[d].type = type
      BY <3>1
    <3>3. ASSUME n # NoPid, NEW t \in 1..d PROVE log'[t].p # n /\ (t # d => log'[t].n # n)
      <4>1. n = Len(kproc) + 1
        BY <1>1, <3>3
      <4>2. CASE t = d
        BY <1>1, <3>2, <4>1, <4>2
      <4>3. CASE t # d
        <5>1. t \in 1..Len(log) /\ log'[t] = log[t]
          BY <1>3, <1>4, <3>1, <4>3
        <5>2. log[t].p <= Len(kproc) /\ log[t].n <= Len(kproc) /\ log[t].p \in Nat /\ log[t].n \in Nat
          BY <1>4, <1>5, <5>1
        <5> QED
          BY <1>1, <4>1, <5>1, <5>2
      <4> QED
        BY <4>2, <4>3
    <3>4. New(d)'
      BY <3>2, <3>3 DEF New
    <3> QED
      BY <1>1, <1>2, <3>2, <3>4
  <2> QED
    BY <2>1, <2>2
<1>7. ASSUME NEW d \in 1..Len(log') PROVE Ended(d)'
  <2> SUFFICES ASSUME log'[d].type \in {"exec", "exit"}
               PROVE  /\ log'[d].p \notin alive'
                      /\ \A t \in 1..Len(log') : t > d => log'[t].p # log'[d].p
    BY DEF Ended
  <2>1. CASE d \in 1..Len(log)
    <3>1. /\ log'[d] = log[d] /\ log[d].p \notin alive /\ log[d].p \in 1..Len(kproc)
          /\ \A t \in 1..Len(log) : t > d => log[t].p # log[d].p
      BY <1>1, <1>3, <1>4, <1>5, <2>1 DEF Ended
    <3>2. log'[d].p \notin alive'
      BY <1>2, <3>1
    <3>3. ASSUME NEW t \in 1..Len(log'), t > d PROVE log'[t].p # log'[d].p
      <4>1. CASE t \in 1..Len(log)
        BY <1>3, <3>1, <3>3, <4>1
      <4>2. CASE t \notin 1..Len(log)
        <5>1. log'[t].p = p
          BY <1>3, <4>2
        <5> QED
          BY <1>1, <3>1, <5>1
      <4> QED
        BY <4>1, <4>2
    <3> QED
      BY <3>2, <3>3
  <2>2. CASE d \notin 1..Len(log)
    <3>1. d = Len(log) + 1 /\ log'[d].p = p /\ log'[d].type = type
      BY <1>3, <2>2
    <3>2. \A t \in 1..Len(log') : ~(t > d)
      BY <1>3, <1>4, <3>1
    <3> QED
      BY <1>1, <3>1, <3>2
  <2> QED
    BY <2>1, <2>2
<1>8. (boot # "subscribed" => log = <<>>)'
  BY DEF KernelInv
<1> QED
  BY <1>1, <1>2, <1>3, <1>6, <1>7, <1>8 DEF KernelInv

(* The rest of the invariant: the tree does not see the event yet.          *)
LEMMA KernelStep ==
  ASSUME TreeStateInv, Kernel
  PROVE  TreeStateInv'
<1>1. /\ KernelInv /\ Ordered /\ SeenInv /\ TreeInv /\ Applied /\ Inherited
      /\ UNCHANGED <<boot, handling, tree, token>>
  BY KernelMakes DEF TreeStateInv
<1>2. PICK type, p, n : Makes(type, p, n) /\ Logged(type, p, n)
  BY <1>1, KernelMakes
<1>3. log' # log => boot = "subscribed"
  BY DEF Kernel, Fork, Exec, Exit, Emit
<1>4. KernelInv'
  BY <1>1, <1>2, <1>3, KernelKeepsKernel
<1>5. /\ type \in {"fork", "exec", "exit"} /\ p \in Nat \ {0} /\ n \in Nat
      /\ Len(kproc) \in Nat /\ Len(kproc') \in Nat /\ Len(kproc) <= Len(kproc')
      /\ n \notin 1..Len(kproc)
  BY <1>1, <1>2, LenProperties DEF Makes, KernelInv, NoPid
<1>6. /\ Delivered' = Delivered /\ Delivered \subseteq 1..Len(log) /\ Len(log) \in Nat
      /\ \A d \in 1..Len(log) : d \in 1..Len(log') /\ log'[d] = log[d]
      /\ \A d \in 1..Len(log') :
           d \in 1..Len(log) \/ (d = Len(log) + 1 /\ log'[d] = [type |-> type, p |-> p, n |-> n])
      /\ \A d \in pending' : d \in pending \/ d = Len(log) + 1
      /\ pending \subseteq 1..Len(log) /\ pending' \subseteq 1..Len(log')
  BY <1>1, <1>2, <1>5, LoggedIs, DeliveredType, SMTT(30)
<1>7. Ordered'
  <2> SUFFICES ASSUME NEW d \in pending', NEW t \in Delivered', d < t
               PROVE  (Touches(d) \intersect Touches(t) = {})'
    BY DEF Ordered
  <2>0. d < t
    OBVIOUS
  <2>1. t \in Delivered /\ t \in 1..Len(log) /\ d \in pending /\ d \in 1..Len(log)
    <3>1. t \in Delivered /\ t \in 1..Len(log) /\ (d \in pending \/ d = Len(log) + 1)
      BY <1>6
    <3>2. d \in pending
      BY <1>6, <2>0, <3>1
    <3> QED
      BY <1>6, <3>1, <3>2
  <2>2. Touches(d) \intersect Touches(t) = {}
    BY <1>1, <1>6, <2>1 DEF Ordered
  <2>3. log'[d] = log[d] /\ log'[t] = log[t]
    BY <1>6, <2>1
  <2> QED
    BY <2>2, <2>3 DEF Touches
<1>8. SeenInv'
  BY <1>1, <1>6 DEF SeenInv, tree
<1>9. \A t \in Delivered : log'[t] = log[t]
  BY <1>6
<1>10. \A q : Old(q)' <=> Old(q)
  BY <1>1, <1>6, <1>9 DEF Old, Removal, tree
<1>11. TreeInv'
  <2>1. UNCHANGED <<proc, map, removeAt, seen>>
    BY <1>1 DEF tree
  <2>2. map' \subseteq DOMAIN proc' /\ DOMAIN proc' \subseteq 1..Len(kproc') /\ removeAt' \in Seq(Removals)
    BY <1>1, <1>5, <2>1 DEF TreeInv
  <2>3. \A q \in DOMAIN proc' : Shape(proc'[q])
    BY <1>1, <2>1 DEF TreeInv
  <2>4. \A r \in Range(removeAt') : r.ts \in Delivered' /\ Removal(r.ts, r.pid)'
    BY <1>1, <1>6, <1>9, <2>1 DEF TreeInv, Removal
  <2>5. \A q \in DOMAIN proc' : q \notin map' \/ proc'[q].tombstoned => Old(q)'
    BY <1>1, <1>10, <2>1 DEF TreeInv
  <2>6. ASSUME NEW d \in pending' PROVE log'[d].n \notin DOMAIN proc'
    <3>1. CASE d \in pending
      BY <1>1, <1>6, <2>1, <3>1 DEF TreeInv
    <3>2. CASE d \notin pending
      <4>1. d \in 1..Len(log') /\ d \notin 1..Len(log)
        BY <1>6, <3>2
      <4>2. log'[d].n = n
        BY <1>6, <4>1
      <4> QED
        BY <1>1, <1>5, <2>1, <4>2 DEF TreeInv
    <3> QED
      BY <3>1, <3>2
  <2> QED
    BY <2>2, <2>3, <2>4, <2>5, <2>6 DEF TreeInv
<1>12. Applied'
  <2>1. UNCHANGED <<proc, map, removeAt, seen>>
    BY <1>1 DEF tree
  <2>2. \A ts \in Delivered : (OutOfWindow(ts)' <=> OutOfWindow(ts)) /\ (Took(ts)' <=> Took(ts))
    BY <1>6, <1>9, <2>1 DEF OutOfWindow, Took, Gone
  <2> QED
    BY <1>1, <1>6, <1>9, <2>1, <2>2 DEF Applied
<1>13. Inherited'
  BY <1>1, <1>6, <1>9 DEF Inherited, Handed, tree
<1> QED
  BY <1>4, <1>7, <1>8, <1>11, <1>12, <1>13 DEF TreeStateInv

-----------------------------------------------------------------------------
(* Process objects *)

LEMMA ReshapedAnn ==
  ASSUME NEW r, Shape(r), NEW x, NEW u, u = [r EXCEPT !.ann = x]
  PROVE  Shape(u) /\ u.ann = x /\ u.tombstoned = r.tombstoned /\ u.refcnt = r.refcnt
BY DEF Shape

LEMMA ReshapedRefcnt ==
  ASSUME NEW r, Shape(r), NEW x, NEW u, u = [r EXCEPT !.refcnt = x]
  PROVE  Shape(u) /\ u.ann = r.ann /\ u.tombstoned = r.tombstoned
BY DEF Shape

LEMMA ReshapedTombstoned ==
  ASSUME NEW r, Shape(r), NEW x, NEW u, u = [r EXCEPT !.tombstoned = x]
  PROVE  Shape(u) /\ u.ann = r.ann /\ u.tombstoned = x
BY DEF Shape

-----------------------------------------------------------------------------
(* Start-up *)

(* Before santad subscribes nothing was delivered and nothing left the tree. *)
LEMMA Fresh ==
  ASSUME TreeStateInv, boot # "subscribed"
  PROVE  /\ log = <<>> /\ Len(log) = 0 /\ Delivered = {} /\ pending = {} /\ Range(removeAt) = {}
         /\ \A p \in DOMAIN proc : p \in map /\ ~proc[p].tombstoned
<1>1. log = <<>> /\ Len(log) = 0
  BY DEF TreeStateInv, KernelInv
<1>2. Delivered = {} /\ pending = {}
  BY <1>1 DEF TreeStateInv, KernelInv, Delivered
<1> QED
  BY <1>1, <1>2 DEF TreeStateInv, TreeInv, Old

(* A backfill only inserts: what it finds keeps its place.                  *)
LEMMA Backfills ==
  ASSUME TreeStateInv, boot # "subscribed", Backfill, UNCHANGED <<kernel, client, token>>
  PROVE  TreeStateInv'
<1>1. /\ KernelInv /\ Ordered /\ SeenInv /\ TreeInv
      /\ UNCHANGED <<kproc, alive, log, pending, handling, removeAt, seen>>
  BY DEF TreeStateInv, Backfill, kernel, client
<1>2. /\ log = <<>> /\ Len(log) = 0 /\ Delivered = {} /\ pending = {} /\ Range(removeAt) = {}
      /\ \A p \in DOMAIN proc : p \in map /\ ~proc[p].tombstoned
  BY Fresh
<1>3. Delivered' = {} /\ pending' = {} /\ 1..Len(log') = {}
  BY <1>1, <1>2 DEF Delivered
<1>4. KernelInv' /\ Ordered' /\ SeenInv' /\ Applied' /\ Inherited'
  BY <1>1, <1>2, <1>3 DEF KernelInv, Ordered, SeenInv, Applied, Inherited
<1>5. PICK loaded \in SUBSET alive : BackfillInsertChildren(Reached(loaded))
  BY DEF Backfill
<1> DEFINE L == Reached(loaded)
           given == BackfillGiven(L)
           linked(p) == IF kproc[p].ppid = 0 THEN NoPid ELSE AtPid(L, kproc[p].ppid)
<1>6. L \subseteq 1..Len(kproc)
  BY <1>1, <1>5 DEF Reached, KernelInv
<1>7. /\ map' = map \union L
      /\ proc' = [p \in DOMAIN proc \union L |->
            IF p \in map
            THEN IF p \in L THEN [proc[p] EXCEPT !.ann = AnnotateProcess(@, given[kproc[p].pid])]
                 ELSE proc[p]
            ELSE [NewProcess(kproc[p].prog, linked(p)) EXCEPT !.ann = given[kproc[p].pid]]]
  BY <1>5, Zenon DEF BackfillInsertChildren
<1> HIDE DEF L, given, linked
<1>8. ASSUME NEW p \in DOMAIN proc' PROVE Shape(proc'[p]) /\ ~proc'[p].tombstoned /\ p \in map'
  <2>1. p \in DOMAIN proc \union L /\ p \in map'
    BY <1>2, <1>7
  <2>2. CASE p \in map
    <3>1. Shape(proc[p]) /\ ~proc[p].tombstoned
      BY <1>1, <1>2, <2>2 DEF TreeInv
    <3>2. CASE p \in L
      <4>1. proc'[p] = [proc[p] EXCEPT !.ann = AnnotateProcess(proc[p].ann, given[kproc[p].pid])]
        BY <1>7, <2>1, <2>2, <3>2
      <4> QED
        BY <2>1, <3>1, <4>1, ReshapedAnn
    <3>3. CASE p \notin L
      BY <1>7, <2>1, <2>2, <3>1, <3>3
    <3> QED
      BY <3>2, <3>3
  <2>3. CASE p \notin map
    <3>1. proc'[p] = [NewProcess(kproc[p].prog, linked(p)) EXCEPT !.ann = given[kproc[p].pid]]
      BY <1>7, <2>1, <2>3
    <3> DEFINE c == kproc[p].prog
               q == linked(p)
               x == given[kproc[p].pid]
               u == proc'[p]
    <3>2. u = [NewProcess(c, q) EXCEPT !.ann = x]
      BY <3>1
    <3> HIDE DEF c, q, x, u
    <3>3. Shape(u) /\ ~u.tombstoned
      BY <3>2 DEF Shape, NewProcess
    <3> QED
      BY <2>1, <3>3 DEF u
  <2> QED
    BY <2>2, <2>3
<1>9. TreeInv'
  <2>1. map' \subseteq DOMAIN proc' /\ DOMAIN proc' \subseteq 1..Len(kproc')
    BY <1>1, <1>6, <1>7 DEF TreeInv
  <2>2. removeAt' \in Seq(Removals) /\ Range(removeAt') = {}
    BY <1>1, <1>2 DEF TreeInv
  <2> QED
    BY <1>3, <1>8, <2>1, <2>2 DEF TreeInv
<1> QED
  BY <1>4, <1>9 DEF TreeStateInv

(* The subscription changes nothing the tree or the kernel is made of.      *)
LEMMA Subscribes ==
  ASSUME TreeStateInv, boot # "subscribed", Subscribe
  PROVE  TreeStateInv'
<1>1. /\ KernelInv /\ Ordered /\ SeenInv /\ TreeInv
      /\ UNCHANGED <<kproc, alive, log, pending, handling, proc, map, removeAt, seen>>
  BY DEF TreeStateInv, Subscribe, kernel, client, tree
<1>2. Len(log) = 0 /\ Delivered = {} /\ pending = {} /\ Range(removeAt) = {} /\ log = <<>>
  BY Fresh
<1>3. Delivered' = {} /\ pending' = {} /\ 1..Len(log') = {}
  BY <1>1, <1>2 DEF Delivered
<1>4. KernelInv' /\ Ordered' /\ SeenInv' /\ Applied' /\ Inherited'
  BY <1>1, <1>2, <1>3 DEF KernelInv, Ordered, SeenInv, Applied, Inherited
<1>5. TreeInv'
  <2>1. \A p \in DOMAIN proc : p \in map /\ ~proc[p].tombstoned
    BY Fresh
  <2> QED
    BY <1>1, <1>2, <1>3, <2>1 DEF TreeInv
<1> QED
  BY <1>4, <1>5 DEF TreeStateInv

-----------------------------------------------------------------------------
(* Tokens *)

(* A token marks nothing; it takes from the tree only what is marked, and   *)
(* what is marked was removed before the window.                            *)
LEMMA Recounted ==
  ASSUME TreeStateInv, UNCHANGED <<kernel, boot, pending, removeAt, seen>>,
         DOMAIN proc' = DOMAIN proc, map' \subseteq map,
         \A p \in DOMAIN proc : /\ Shape(proc'[p]) /\ proc'[p].ann = proc[p].ann
                                /\ proc'[p].tombstoned = proc[p].tombstoned,
         \A p \in map \ map' : proc[p].tombstoned
  PROVE  TreeStateInv'
<1>1. /\ KernelInv /\ Ordered /\ SeenInv /\ TreeInv /\ Applied /\ Inherited
      /\ UNCHANGED <<kproc, alive, log, boot, pending, removeAt, seen>>
  BY DEF TreeStateInv, kernel
<1>2. Delivered' = Delivered
  BY <1>1 DEF Delivered
<1>3. KernelInv' /\ Ordered' /\ SeenInv'
  <2>1. \A d : New(d)' <=> New(d)
    BY <1>1 DEF New
  <2>2. \A d : Ended(d)' <=> Ended(d)
    BY <1>1 DEF Ended
  <2>3. KernelInv'
    BY <1>1, <2>1, <2>2 DEF KernelInv
  <2>4. \A d : Touches(d)' = Touches(d)
    BY <1>1 DEF Touches
  <2>5. Ordered'
    BY <1>1, <1>2, <2>4 DEF Ordered
  <2>6. SeenInv'
    BY <1>1, <1>2 DEF SeenInv
  <2> QED
    BY <2>3, <2>5, <2>6
<1>4. \A p : Old(p)' <=> Old(p)
  BY <1>1, <1>2 DEF Old, Removal
<1>5. TreeInv'
  <2>1. map' \subseteq DOMAIN proc' /\ DOMAIN proc' \subseteq 1..Len(kproc')
    BY <1>1 DEF TreeInv
  <2>2. \A p \in DOMAIN proc' : Shape(proc'[p])
    OBVIOUS
  <2>3. removeAt' \in Seq(Removals) /\ \A r \in Range(removeAt') : r.ts \in Delivered' /\ Removal(r.ts, r.pid)'
    BY <1>1, <1>2 DEF TreeInv, Removal
  <2>4. \A p \in DOMAIN proc' : p \notin map' \/ proc'[p].tombstoned => Old(p)'
    BY <1>1, <1>4 DEF TreeInv
  <2>5. \A d \in pending' : log'[d].n \notin DOMAIN proc'
    BY <1>1 DEF TreeInv
  <2> QED
    BY <2>1, <2>2, <2>3, <2>4, <2>5 DEF TreeInv
<1>6. \A p \in DOMAIN proc : Gone(p) => Gone(p)'
  BY <1>1 DEF Gone
<1>7. Applied'
  BY <1>1, <1>2, <1>6 DEF Applied, Took, OutOfWindow
<1>8. Inherited'
  BY <1>1, <1>2 DEF Inherited, Handed
<1> QED
  BY <1>3, <1>5, <1>7, <1>8 DEF TreeStateInv

LEMMA RefDeltaIs ==
  ASSUME TreeInv, NEW pids, NEW d
  PROVE  /\ DOMAIN RefDelta(pids, d) = DOMAIN proc
         /\ \A p \in DOMAIN proc : /\ Shape(RefDelta(pids, d)[p])
                                   /\ RefDelta(pids, d)[p].ann = proc[p].ann
                                   /\ RefDelta(pids, d)[p].tombstoned = proc[p].tombstoned
<1> SUFFICES ASSUME NEW p \in DOMAIN proc
             PROVE  /\ Shape(RefDelta(pids, d)[p]) /\ RefDelta(pids, d)[p].ann = proc[p].ann
                    /\ RefDelta(pids, d)[p].tombstoned = proc[p].tombstoned
  BY DEF RefDelta
<1>1. Shape(proc[p])
  BY DEF TreeInv
<1>2. RefDelta(pids, d)[p] = proc[p] \/ RefDelta(pids, d)[p] = [proc[p] EXCEPT !.refcnt = proc[p].refcnt + d]
  BY DEF RefDelta
<1> QED
  BY <1>1, <1>2, ReshapedRefcnt

LEMMA NewTokens ==
  ASSUME TreeStateInv, NewToken
  PROVE  TreeStateInv'
<1>1. /\ UNCHANGED <<kernel, boot, pending, removeAt, seen>> /\ map' = map
      /\ proc' = RefDelta({}, 1)
  BY DEF NewToken, RetainProcess, MovedFrom
<1>2. TreeInv
  BY DEF TreeStateInv
<1> QED
  BY <1>1, <1>2, RefDeltaIs, Recounted

LEMMA TokensDropped ==
  ASSUME TreeStateInv, NEW ts, DropToken(ts)
  PROVE  TreeStateInv'
<1> DEFINE less == RefDelta(token[ts], -1)
<1>1. /\ UNCHANGED <<kernel, boot, client, removeAt, seen>> /\ proc' = less
      /\ map' = map \ {p \in token[ts] \intersect map : less[p].refcnt = 0 /\ less[p].tombstoned}
  BY DEF DropToken, ReleaseProcess
<1>2. TreeInv
  BY DEF TreeStateInv
<1>3. /\ DOMAIN less = DOMAIN proc
      /\ \A p \in DOMAIN proc : /\ Shape(less[p]) /\ less[p].ann = proc[p].ann
                                /\ less[p].tombstoned = proc[p].tombstoned
  BY <1>2, RefDeltaIs, Zenon
<1> HIDE DEF less
<1>4. map' \subseteq map /\ \A p \in map \ map' : proc[p].tombstoned
  BY <1>1, <1>2, <1>3 DEF TreeInv
<1>5. UNCHANGED <<kernel, boot, pending, removeAt, seen>>
  BY <1>1 DEF client
<1> QED
  BY <1>1, <1>3, <1>4, <1>5, Recounted

-----------------------------------------------------------------------------
(* What a handler does to the tree *)

LEMMA MarkedIs ==
  ASSUME TreeInv
  PROVE  /\ DOMAIN Marked = DOMAIN proc
         /\ \A q \in DOMAIN proc : /\ Shape(Marked[q]) /\ Marked[q].ann = proc[q].ann
                                   /\ Marked[q].tombstoned <=> proc[q].tombstoned \/ q \in Tombstoned
<1>1. DOMAIN Marked = DOMAIN proc
  BY DEF Marked
<1>2. ASSUME NEW q \in DOMAIN proc
      PROVE  /\ Shape(Marked[q]) /\ Marked[q].ann = proc[q].ann
             /\ Marked[q].tombstoned <=> proc[q].tombstoned \/ q \in Tombstoned
  <2>1. Shape(proc[q])
    BY DEF TreeInv
  <2>2. CASE q \in Tombstoned
    <3>1. Marked[q] = [proc[q] EXCEPT !.tombstoned = TRUE]
      BY <2>2 DEF Marked
    <3>2. Shape(Marked[q]) /\ Marked[q].ann = proc[q].ann /\ Marked[q].tombstoned = TRUE
      BY <2>1, <3>1, ReshapedTombstoned
    <3> QED
      BY <2>2, <3>2
  <2>3. CASE q \notin Tombstoned
    <3>1. Marked[q] = proc[q]
      BY <2>3 DEF Marked
    <3> QED
      BY <2>1, <2>3, <3>1
  <2> QED
    BY <2>2, <2>3
<1> QED
  BY <1>1, <1>2

(* The effect of each of the three handlers.                                *)
Made(ts) == {log[ts].n} \ {NoPid}
Scheduled(ts) == IF log[ts].type = "fork" THEN <<>> ELSE <<[ts |-> ts, pid |-> log[ts].p]>>
Handled(ts) ==
  /\ Novel(ts)
  /\ seen' = Slide(ts)
  /\ removeAt' = Remaining \o Scheduled(ts)
  /\ map' = (map \ Erased) \union Made(ts)
  /\ DOMAIN proc' = DOMAIN proc \union Made(ts)
  /\ \A q \in DOMAIN proc : /\ Shape(proc'[q]) /\ proc'[q].ann = proc[q].ann
                            /\ proc'[q].tombstoned <=> proc[q].tombstoned \/ q \in Tombstoned
  /\ \A q \in Made(ts) :
       /\ Shape(proc'[q]) /\ ~proc'[q].tombstoned
       /\ proc[log[ts].p].ann # "none" => proc'[q].ann = proc[log[ts].p].ann

(* A new object is emplaced: its Pid is not in the map.                     *)
LEMMA Emplaced ==
  ASSUME TreeInv, NEW n, n \notin DOMAIN proc, NEW p \in DOMAIN proc, NEW new,
         Shape(new), ~new.tombstoned, proc[p].ann # "none" => new.ann = proc[p].ann,
         proc' = Emplace(Marked, map \ Erased, n, new)
  PROVE  /\ DOMAIN proc' = DOMAIN proc \union {n}
         /\ \A q \in DOMAIN proc : proc'[q] = Marked[q]
         /\ Shape(proc'[n]) /\ ~proc'[n].tombstoned
         /\ proc[p].ann # "none" => proc'[n].ann = proc[p].ann
<1>1. n \notin map \ Erased
  BY DEF TreeInv
<1>2. DOMAIN Marked = DOMAIN proc
  BY MarkedIs
<1>3. proc' = [q \in DOMAIN proc \union {n} |-> IF q = n THEN new ELSE Marked[q]]
  BY <1>1, <1>2 DEF Emplace
<1>4. /\ DOMAIN proc' = DOMAIN proc \union {n} /\ proc'[n] = new
      /\ \A q \in DOMAIN proc : proc'[q] = Marked[q]
  BY <1>3
<1> QED
  BY <1>4

LEMMA ForkHandled ==
  ASSUME TreeInv, NEW ts, log[ts].type = "fork", log[ts].n # NoPid, log[ts].p \in map,
         log[ts].n \notin DOMAIN proc, HandleFork(ts, log[ts].p, log[ts].n)
  PROVE  Handled(ts)
<1> DEFINE n == log[ts].n
           p == log[ts].p
<1>1. /\ Novel(ts) /\ seen' = Slide(ts) /\ removeAt' = Remaining \o <<>>
      /\ map' = (map \ Erased) \union {n}
      /\ \E prog, parent, child :
           /\ child = [NewProcess(prog, parent) EXCEPT !.ann = Marked[p].ann]
           /\ proc' = Emplace(Marked, map \ Erased, n, child)
  BY Zenon DEF HandleFork, StepRemovals, AnnotateFork
<1>2. p \in DOMAIN proc /\ Marked[p].ann = proc[p].ann /\ n # NoPid /\ n \notin DOMAIN proc
  BY MarkedIs DEF TreeInv
<1> DEFINE x == Marked[p].ann
<1> HIDE DEF n, p, x
<1>8. PICK prog, parent, child :
        /\ child = [NewProcess(prog, parent) EXCEPT !.ann = x]
        /\ proc' = Emplace(Marked, map \ Erased, n, child)
  BY <1>1, Zenon DEF x
<1>3. Shape(child) /\ child.ann = x /\ ~child.tombstoned
  BY <1>8 DEF Shape, NewProcess
<1>7. proc[p].ann # "none" => child.ann = proc[p].ann
  BY <1>2, <1>3 DEF x
<1>4. /\ DOMAIN proc' = DOMAIN proc \union {n} /\ \A q \in DOMAIN proc : proc'[q] = Marked[q]
      /\ Shape(proc'[n]) /\ ~proc'[n].tombstoned
      /\ proc[p].ann # "none" => proc'[n].ann = proc[p].ann
  BY <1>8, <1>2, <1>3, <1>7, Emplaced
<1>5. Made(ts) = {n} /\ Scheduled(ts) = <<>>
  BY <1>2 DEF Made, Scheduled, n
<1>6. \A q \in DOMAIN proc : /\ Shape(proc'[q]) /\ proc'[q].ann = proc[q].ann
                             /\ proc'[q].tombstoned <=> proc[q].tombstoned \/ q \in Tombstoned
  BY <1>4, MarkedIs
<1> QED
  BY <1>1, <1>4, <1>5, <1>6 DEF Handled, p

LEMMA ExecHandled ==
  ASSUME TreeInv, NEW ts, NEW prog, log[ts].type = "exec", log[ts].n # NoPid, log[ts].p \in map,
         log[ts].n \notin DOMAIN proc, HandleExec(ts, log[ts].p, log[ts].n, prog)
  PROVE  Handled(ts)
<1> DEFINE n == log[ts].n
           p == log[ts].p
<1>1. /\ Novel(ts) /\ seen' = Slide(ts) /\ removeAt' = Remaining \o <<[ts |-> ts, pid |-> p]>>
      /\ map' = (map \ Erased) \union {n}
      /\ \E parent, image :
           /\ image = [NewProcess(prog, parent) EXCEPT !.ann = AnnotateExec(Marked[p].ann, prog)]
           /\ proc' = Emplace(Marked, map \ Erased, n, image)
  BY Zenon DEF HandleExec, StepRemovals
<1>2. p \in DOMAIN proc /\ Marked[p].ann = proc[p].ann /\ n # NoPid /\ n \notin DOMAIN proc
  BY MarkedIs DEF TreeInv
<1> DEFINE x == AnnotateExec(Marked[p].ann, prog)
<1> HIDE DEF n, p, x
<1>8. PICK parent, image :
        /\ image = [NewProcess(prog, parent) EXCEPT !.ann = x]
        /\ proc' = Emplace(Marked, map \ Erased, n, image)
  BY <1>1, Zenon DEF x
<1>3. Shape(image) /\ image.ann = x /\ ~image.tombstoned
  BY <1>8 DEF Shape, NewProcess
<1>4. proc[p].ann # "none" => image.ann = proc[p].ann
  BY <1>2, <1>3 DEF AnnotateExec, x
<1>5. /\ DOMAIN proc' = DOMAIN proc \union {n} /\ \A q \in DOMAIN proc : proc'[q] = Marked[q]
      /\ Shape(proc'[n]) /\ ~proc'[n].tombstoned
      /\ proc[p].ann # "none" => proc'[n].ann = proc[p].ann
  BY <1>8, <1>2, <1>3, <1>4, Emplaced
<1>6. Made(ts) = {n} /\ Scheduled(ts) = <<[ts |-> ts, pid |-> p]>>
  BY <1>2 DEF Made, Scheduled, n, p
<1>7. \A q \in DOMAIN proc : /\ Shape(proc'[q]) /\ proc'[q].ann = proc[q].ann
                             /\ proc'[q].tombstoned <=> proc[q].tombstoned \/ q \in Tombstoned
  BY <1>5, MarkedIs
<1> QED
  BY <1>1, <1>5, <1>6, <1>7 DEF Handled, p

LEMMA ExitHandled ==
  ASSUME TreeInv, NEW ts, log[ts].type = "exit", log[ts].n = NoPid, HandleExit(ts, log[ts].p)
  PROVE  Handled(ts)
<1>1. Made(ts) = {} /\ Scheduled(ts) = <<[ts |-> ts, pid |-> log[ts].p]>>
  BY DEF Made, Scheduled
<1>2. /\ Novel(ts) /\ seen' = Slide(ts) /\ removeAt' = Remaining \o Scheduled(ts)
      /\ proc' = Marked /\ map' = map \ Erased
  BY <1>1 DEF HandleExit, StepRemovals
<1> QED
  BY <1>1, <1>2, MarkedIs DEF Handled

-----------------------------------------------------------------------------
(* Delivery *)

(* ES delivers an event: the earlier ones of its processes were delivered,  *)
(* and the later ones were not.                                             *)
LEMMA Delivers ==
  ASSUME TreeStateInv, NEW ts \in pending, Deliverable(ts),
         pending' = pending \ {ts}, UNCHANGED kernel
  PROVE  /\ Delivered' = Delivered \union {ts} /\ ts \notin Delivered /\ ts \in 1..Len(log)
         /\ ts \in Nat \ {0} /\ log' = log
         /\ Ordered'
<1>1. /\ KernelInv /\ Ordered /\ ts \in 1..Len(log) /\ UNCHANGED <<kproc, alive, log>>
  BY DeliveredType DEF TreeStateInv, kernel
<1>2. Len(log) \in Nat /\ pending \subseteq 1..Len(log) /\ Delivered \subseteq 1..Len(log)
  BY <1>1, DeliveredType
<1>3. Delivered' = Delivered \union {ts} /\ ts \notin Delivered
  BY <1>1 DEF Delivered
<1>4. \A d : Touches(d)' = Touches(d)
  BY <1>1 DEF Touches
<1>5. Ordered'
  <2> SUFFICES ASSUME NEW d \in pending', NEW t \in Delivered', d < t
               PROVE  Touches(d) \intersect Touches(t) = {}
    BY <1>4 DEF Ordered
  <2>1. CASE t = ts
    BY <2>1 DEF Deliverable
  <2>2. CASE t # ts
    BY <1>1, <1>3, <2>2 DEF Ordered
  <2> QED
    BY <2>1, <2>2
<1> QED
  BY <1>1, <1>3, <1>5

(* A process acts no more once it executed or exited, and it acts only      *)
(* after it was made.                                                       *)
LEMMA Firsts ==
  ASSUME TreeStateInv, NEW ts \in pending
  PROVE  /\ log[ts].n # NoPid => /\ log[ts].n # log[ts].p
                                 /\ \A t \in Delivered : log[t].p # log[ts].n /\ log[t].n # log[ts].n
         /\ \A d \in pending : d # ts /\ log[ts].n # NoPid => log[d].n # log[ts].n
         /\ \A t \in Delivered : ~Removal(t, log[ts].p)
<1>1. /\ KernelInv /\ Ordered /\ ts \in 1..Len(log) /\ Len(log) \in Nat
      /\ Delivered \subseteq 1..Len(log) /\ pending \subseteq 1..Len(log)
      /\ Delivered \intersect pending = {}
  BY DeliveredType DEF TreeStateInv
<1>2. log[ts].p # NoPid /\ New(ts)
  BY <1>1, DeliveredType DEF KernelInv, Events, NoPid
<1>3. \A t \in Delivered : t > ts => Touches(ts) \intersect Touches(t) = {}
  BY <1>1 DEF Ordered
<1>4. ASSUME log[ts].n # NoPid, NEW t \in Delivered
      PROVE  log[t].p # log[ts].n /\ log[t].n # log[ts].n
  <2>1. t \in 1..Len(log) /\ t # ts
    BY <1>1
  <2>2. CASE t > ts
    BY <1>3, <1>4, <2>2 DEF Touches
  <2>3. CASE t < ts
    BY <1>1, <1>2, <1>4, <2>1, <2>3 DEF New
  <2> QED
    BY <1>1, <2>1, <2>2, <2>3
<1>5. log[ts].n # NoPid => log[ts].n # log[ts].p
  BY <1>1, <1>2 DEF New
<1>6. ASSUME NEW d \in pending, d # ts, log[ts].n # NoPid PROVE log[d].n # log[ts].n
  <2>1. d \in 1..Len(log) /\ New(d)
    BY <1>1 DEF KernelInv
  <2>2. CASE d < ts
    BY <1>1, <1>2, <1>6, <2>1, <2>2 DEF New
  <2>3. CASE d > ts
    BY <1>1, <1>6, <2>1, <2>3 DEF New
  <2> QED
    BY <1>1, <1>6, <2>1, <2>2, <2>3
<1>7. ASSUME NEW t \in Delivered PROVE ~Removal(t, log[ts].p)
  <2>1. t \in 1..Len(log) /\ t # ts /\ Ended(t)
    BY <1>1 DEF KernelInv
  <2>2. CASE t > ts
    BY <1>2, <1>3, <2>2 DEF Touches, Removal
  <2>3. CASE t < ts
    BY <1>1, <2>1, <2>3 DEF Ended, Removal
  <2> QED
    BY <1>1, <2>1, <2>2, <2>3
<1> QED
  BY <1>4, <1>5, <1>6, <1>7

(* So a process the tree knows is there, unmarked, when its event arrives,  *)
(* and what the event makes is not there yet.                               *)
LEMMA Present ==
  ASSUME TreeStateInv, NEW ts \in pending
  PROVE  /\ log[ts].p \in DOMAIN proc => log[ts].p \in map
         /\ log[ts].n \notin DOMAIN proc
<1>1. TreeInv
  BY DEF TreeStateInv
<1>2. ~Old(log[ts].p)
  BY Firsts DEF Old
<1> QED
  BY <1>1, <1>2 DEF TreeInv

-----------------------------------------------------------------------------
(* The window *)

(* An older event than W others stays one.                                  *)
LEMMA OutOfWindowStays ==
  ASSUME NEW ts, KernelInv, UNCHANGED log,
         Delivered \subseteq Delivered', OutOfWindow(ts)
  PROVE  OutOfWindow(ts)'
<1> DEFINE S == {d \in Delivered : d > ts}
           T == {d \in Delivered' : d > ts}
<1>1. Len(log) \in Nat /\ Delivered' \subseteq 1..Len(log)
  BY DeliveredType DEF Delivered
<1>2. IsFiniteSet(T)
  <2>1. T \subseteq 1..Len(log)
    BY <1>1
  <2>2. IsFiniteSet(1..Len(log))
    <3> DEFINE L == Len(log)
    <3> HIDE DEF L
    <3>1. L \in Int
      BY <1>1 DEF L
    <3>2. IsFiniteSet(1..L)
      BY <3>1, FS_Interval
    <3> QED
      BY <3>2 DEF L
  <2> HIDE DEF T
  <2> QED
    BY <2>1, <2>2, FS_Subset
<1>3. S \subseteq T
  OBVIOUS
<1>4. Cardinality(S) <= Cardinality(T) /\ Cardinality(S) \in Nat /\ Cardinality(T) \in Nat
  BY <1>2, <1>3, FS_Subset, FS_CardinalityType
<1>5. Cardinality(S) >= W
  BY DEF OutOfWindow
<1> HIDE DEF S, T
<1>6. Cardinality(T) >= W
  BY <1>4, <1>5, WAssumption
<1> QED
  BY <1>6, Zenon DEF OutOfWindow, T

(* What Step refuses is older than the W events of the window.              *)
LEMMA RefusedIsOld ==
  ASSUME TreeStateInv, NEW ts \in pending, ~Novel(ts), UNCHANGED log,
         Delivered \subseteq Delivered'
  PROVE  OutOfWindow(ts)'
<1>1. /\ KernelInv /\ SeenInv /\ ts \in 1..Len(log) /\ ts \notin Delivered /\ ts # 0
      /\ Len(log) \in Nat /\ Delivered \subseteq 1..Len(log)
  BY DeliveredType DEF TreeStateInv
<1>2. /\ Head(seen) = seen[1] /\ Last(seen) = seen[W] /\ W \in Nat \ {0}
      /\ 1 \in 1..W /\ \A i \in 1..W : seen[i] \in Nat
  BY <1>1, WindowEnds
<1>3. \A i \in 1..W : seen[i] # ts
  BY <1>1 DEF SeenInv
<1>4. ts < seen[1]
  BY <1>1, <1>2, <1>3 DEF Novel
<1> DEFINE S == {d \in Delivered : d > ts}
<1>5. \A i \in 1..W : seen[i] > ts
  <2> SUFFICES ASSUME NEW i \in 1..W PROVE seen[i] > ts
    OBVIOUS
  <2>1. CASE i = 1
    BY <1>1, <1>2, <1>4, <2>1
  <2>2. CASE i # 1
    <3>1. seen[1] < seen[i] \/ seen[1] = 0
      BY <1>1, <1>2, <2>2 DEF SeenInv
    <3> QED
      BY <1>1, <1>2, <1>4, <3>1
  <2> QED
    BY <2>1, <2>2
<1>6. \A i \in 1..W : seen[i] \in S
  BY <1>1, <1>2, <1>5 DEF SeenInv
<1>7. \A i, j \in 1..W : seen[i] = seen[j] => i = j
  <2> SUFFICES ASSUME NEW i \in 1..W, NEW j \in 1..W, i # j PROVE seen[i] # seen[j]
    OBVIOUS
  <2>1. seen[i] \in Nat /\ seen[j] \in Nat /\ seen[i] # 0 /\ seen[j] # 0
    BY <1>1, <1>2, <1>5
  <2>2. i < j \/ j < i
    OBVIOUS
  <2> QED
    BY <1>1, <2>1, <2>2 DEF SeenInv
<1>8. IsFiniteSet(S)
  <2>1. S \subseteq 1..Len(log)
    BY <1>1
  <2>2. IsFiniteSet(1..Len(log))
    <3> DEFINE L == Len(log)
    <3> HIDE DEF L
    <3>1. L \in Int
      BY <1>1 DEF L
    <3>2. IsFiniteSet(1..L)
      BY <3>1, FS_Interval
    <3> QED
      BY <3>2 DEF L
  <2> HIDE DEF S
  <2> QED
    BY <2>1, <2>2, FS_Subset
<1> HIDE DEF S
<1>9. W <= Cardinality(S)
  <2>1. seen \in [1..W -> S]
    BY <1>1, <1>6 DEF SeenInv
  <2>2. seen \in Injection(1..W, S)
    BY <1>7, <2>1 DEF Injection, IsInjective
  <2>3. Cardinality(1..W) <= Cardinality(S)
    BY <1>8, <2>2, FS_Injection
  <2>4. Cardinality(1..W) = W
    BY <1>2, FS_Interval
  <2> QED
    BY <2>3, <2>4
<1>10. Cardinality(S) \in Nat
  BY <1>8, FS_CardinalityType
<1>11. Cardinality(S) >= W
  BY <1>2, <1>9, <1>10
<1>12. OutOfWindow(ts)
  BY <1>11, Zenon DEF OutOfWindow, S
<1> QED
  BY <1>1, <1>12, OutOfWindowStays

(* A new timestamp slides the window: it stays sorted, and its first entry  *)
(* never goes back.                                                         *)
LEMMA WindowSlides ==
  ASSUME TreeStateInv, NEW ts \in pending, Novel(ts), seen' = Slide(ts),
         Delivered' = Delivered \union {ts}
  PROVE  SeenInv' /\ Head(seen) <= Head(seen') /\ Head(seen) \in Nat /\ Head(seen') \in Nat
<1>1. /\ SeenInv /\ ts \in Nat \ {0} /\ ts \notin Delivered
  BY DeliveredType DEF TreeStateInv
<1>2. /\ Head(seen) = seen[1] /\ Last(seen) = seen[W] /\ W \in Nat \ {0}
      /\ 1 \in 1..W /\ \A i \in 1..W : seen[i] \in Nat
  BY <1>1, WindowEnds
<1>3. \A i \in 1..W : seen[i] # ts
  BY <1>1 DEF SeenInv
<1>4. seen[1] < ts
  BY <1>1, <1>2, <1>3 DEF Novel
<1> DEFINE B == {W - i : i \in {j \in 1..W : seen[j] < ts}}
<1>5. PICK b \in B : \A c \in B : b <= c
  <2>1. B \in SUBSET Nat /\ W - 1 \in B
    BY <1>2, <1>4
  <2> HIDE DEF B
  <2> QED
    BY <2>1, LeastExists
<1>6. PICK i \in 1..W : b = W - i /\ seen[i] < ts
  BY <1>5
<1>7. \A j \in (i + 1)..W : seen[j] >= ts
  <2> SUFFICES ASSUME NEW j \in (i + 1)..W, seen[j] < ts PROVE FALSE
    BY <1>1, <1>2
  <2>1. j \in 1..W /\ W - j \in B
    BY <1>2
  <2>2. b <= W - j
    BY <1>5, <2>1
  <2> QED
    BY <1>2, <1>6, <2>1, <2>2
<1> DEFINE k == InsertPoint(ts)
<1>8. k \in 1..W /\ seen[k] < ts /\ \A j \in (k + 1)..W : seen[j] >= ts
  <2>1. \E l \in 1..W : seen[l] < ts /\ \A j \in (l + 1)..W : seen[j] >= ts
    BY <1>6, <1>7
  <2> QED
    BY <2>1, Zenon DEF InsertPoint
<1>9. seen' = [j \in 1..W |-> IF j < k THEN seen[j + 1] ELSE IF j = k THEN ts ELSE seen[j]]
  BY DEF Slide
<1> HIDE DEF k, B
<1>10. \A j \in 1..W : /\ j < k => j + 1 \in 1..W /\ seen'[j] = seen[j + 1]
                       /\ j = k => seen'[j] = ts
                       /\ j > k => seen'[j] = seen[j] /\ seen[j] > ts
  <2> SUFFICES ASSUME NEW j \in 1..W
               PROVE  /\ j < k => j + 1 \in 1..W /\ seen'[j] = seen[j + 1]
                      /\ j = k => seen'[j] = ts
                      /\ j > k => seen'[j] = seen[j] /\ seen[j] > ts
    OBVIOUS
  <2>1. CASE j < k
    BY <1>2, <1>8, <1>9, <2>1
  <2>2. CASE j = k
    BY <1>8, <1>9, <2>2
  <2>3. CASE j > k
    <3>1. j \in (k + 1)..W /\ ~(j < k) /\ j # k
      BY <1>2, <1>8, <2>3
    <3>2. seen'[j] = seen[j]
      BY <1>9, <3>1
    <3>3. seen[j] >= ts /\ seen[j] # ts /\ seen[j] \in Nat
      BY <1>2, <1>3, <1>8, <3>1
    <3> QED
      BY <1>1, <2>3, <3>1, <3>2, <3>3
  <2> QED
    BY <1>2, <1>8, <2>1, <2>2, <2>3
<1>11. \A j \in 1..W : seen'[j] \in Nat /\ (seen'[j] = 0 \/ seen'[j] \in Delivered')
  BY <1>1, <1>2, <1>8, <1>10 DEF SeenInv
<1>12. \A j \in 1..W : j <= k => seen[j] < ts
  BY <1>1, <1>2, <1>8 DEF SeenInv
<1>13. ASSUME NEW i1 \in 1..W, NEW j1 \in 1..W, i1 < j1
       PROVE  seen'[i1] < seen'[j1] \/ seen'[i1] = 0
  <2>1. CASE j1 < k
    <3>1. /\ seen'[i1] = seen[i1 + 1] /\ seen'[j1] = seen[j1 + 1]
          /\ i1 + 1 \in 1..W /\ j1 + 1 \in 1..W /\ i1 + 1 < j1 + 1
      BY <1>8, <1>10, <1>13, <2>1
    <3> QED
      BY <1>1, <3>1 DEF SeenInv
  <2>2. CASE j1 = k
    <3>1. seen'[i1] = seen[i1 + 1] /\ seen'[j1] = ts /\ i1 + 1 \in 1..W /\ i1 + 1 <= k
      BY <1>8, <1>10, <1>13, <2>2
    <3> QED
      BY <1>12, <3>1
  <2>3. CASE j1 > k /\ i1 < k
    <3>1. seen'[i1] = seen[i1 + 1] /\ seen'[j1] = seen[j1] /\ i1 + 1 \in 1..W /\ i1 + 1 < j1
      BY <1>8, <1>10, <1>13, <2>3
    <3> QED
      BY <1>1, <3>1 DEF SeenInv
  <2>4. CASE j1 > k /\ i1 = k
    BY <1>1, <1>2, <1>10, <2>4
  <2>5. CASE j1 > k /\ i1 > k
    BY <1>1, <1>10, <1>13, <2>5 DEF SeenInv
  <2> QED
    BY <1>8, <2>1, <2>2, <2>3, <2>4, <2>5
<1>14. SeenInv'
  <2>1. seen' \in [1..W -> Nat]
    BY <1>9, <1>11
  <2> QED
    BY <1>11, <1>13, <2>1 DEF SeenInv
<1>15. Head(seen') = seen'[1]
  <2>1. seen' \in Seq(Nat) /\ Len(seen') = W
    BY <1>2, <1>14 DEF SeenInv
  <2> QED
    BY <1>2, <2>1
<1>16. seen[1] <= seen'[1]
  <2>1. CASE k = 1
    BY <1>1, <1>2, <1>4, <1>10, <2>1
  <2>2. CASE k # 1
    <3>1. seen'[1] = seen[1 + 1] /\ 1 + 1 \in 1..W /\ 1 < 1 + 1
      BY <1>2, <1>8, <1>10, <2>2
    <3>2. seen[1] < seen[1 + 1] \/ seen[1] = 0
      BY <1>1, <1>2, <3>1 DEF SeenInv
    <3> QED
      BY <1>2, <3>1, <3>2
  <2> QED
    BY <2>1, <2>2
<1> QED
  BY <1>2, <1>11, <1>14, <1>15, <1>16

-----------------------------------------------------------------------------
(* An event is delivered *)

(* What a delivery keeps whatever the tree does with the event.             *)
LEMMA DeliveryKeepsKernel ==
  ASSUME TreeStateInv, NEW ts \in pending, pending' = pending \ {ts}, UNCHANGED <<kernel, boot>>
  PROVE  KernelInv'
<1>1. KernelInv /\ UNCHANGED <<kproc, alive, log, boot>>
  BY DEF TreeStateInv, kernel
<1>2. \A d : New(d)' <=> New(d)
  BY <1>1 DEF New
<1>3. \A d : Ended(d)' <=> Ended(d)
  BY <1>1 DEF Ended
<1> QED
  BY <1>1, <1>2, <1>3 DEF KernelInv

(* The tree leaves an event alone: of a process it does not know, or too    *)
(* old.                                                                     *)
LEMMA EventIgnored ==
  ASSUME TreeStateInv, NEW ts \in pending, Deliverable(ts), pending' = pending \ {ts},
         UNCHANGED <<kernel, boot, tree>>, log[ts].p \notin map \/ ~Novel(ts)
  PROVE  TreeStateInv'
<1>1. /\ KernelInv /\ Ordered /\ SeenInv /\ TreeInv /\ Applied /\ Inherited
      /\ UNCHANGED <<kproc, alive, log, boot, proc, map, removeAt, seen, kernel>>
  BY DEF TreeStateInv, kernel, tree
<1>2. Delivered' = Delivered \union {ts} /\ Ordered'
  BY <1>1, Delivers
<1>3. KernelInv'
  BY <1>1, DeliveryKeepsKernel
<1>4. SeenInv'
  BY <1>1, <1>2 DEF SeenInv
<1>5. TreeInv'
  <2>1. \A q : Old(q) => Old(q)'
    BY <1>1, <1>2 DEF Old, Removal
  <2>2. map' \subseteq DOMAIN proc' /\ DOMAIN proc' \subseteq 1..Len(kproc') /\ removeAt' \in Seq(Removals)
    BY <1>1 DEF TreeInv
  <2>3. \A q \in DOMAIN proc' : Shape(proc'[q])
    BY <1>1 DEF TreeInv
  <2>4. \A r \in Range(removeAt') : r.ts \in Delivered' /\ Removal(r.ts, r.pid)'
    BY <1>1, <1>2 DEF TreeInv, Removal
  <2>5. \A q \in DOMAIN proc' : q \notin map' \/ proc'[q].tombstoned => Old(q)'
    BY <1>1, <2>1 DEF TreeInv
  <2>6. \A d \in pending' : log'[d].n \notin DOMAIN proc'
    BY <1>1 DEF TreeInv
  <2> QED
    BY <2>2, <2>3, <2>4, <2>5, <2>6 DEF TreeInv
<1>6. Applied'
  <2> SUFFICES ASSUME NEW t \in Delivered', log[t].p \in DOMAIN proc
               PROVE  OutOfWindow(t)' \/ Took(t)'
    BY <1>1 DEF Applied
  <2>1. CASE t = ts
    <3>1. ~Novel(ts)
      BY <2>1, Present
    <3> QED
      BY <1>1, <1>2, <2>1, <3>1, RefusedIsOld
  <2>2. CASE t \in Delivered
    <3>1. OutOfWindow(t) \/ Took(t)
      BY <2>2, <1>1 DEF Applied
    <3>2. OutOfWindow(t) => OutOfWindow(t)'
      BY <1>1, <1>2, OutOfWindowStays
    <3>3. Took(t) => Took(t)'
      BY <1>1 DEF Took, Gone
    <3> QED
      BY <3>1, <3>2, <3>3
  <2> QED
    BY <1>2, <2>1, <2>2
<1>7. Inherited'
  <2> SUFFICES ASSUME NEW t \in Delivered' PROVE Handed(t)'
    BY DEF Inherited
  <2>1. CASE t = ts
    BY <1>1, <2>1, Present DEF Handed
  <2>2. CASE t \in Delivered
    BY <1>1, <2>2 DEF Inherited, Handed
  <2> QED
    BY <1>2, <2>1, <2>2
<1> QED
  BY <1>2, <1>3, <1>4, <1>5, <1>6, <1>7 DEF TreeStateInv

(* The removals after a handler.                                            *)
LEMMA RemovalsAfter ==
  ASSUME TreeInv, NEW ts \in Nat, log[ts] \in Events, removeAt' = Remaining \o Scheduled(ts)
  PROVE  /\ removeAt' \in Seq(Removals)
         /\ \A r \in Range(removeAt) \ Due : r \in Range(removeAt')
         /\ log[ts].type # "fork" => [ts |-> ts, pid |-> log[ts].p] \in Range(removeAt')
         /\ \A r \in Range(removeAt') :
              r \in Range(removeAt) \/ (r = [ts |-> ts, pid |-> log[ts].p] /\ log[ts].type # "fork")
<1>1. Remaining \in Seq(Removals) /\ Range(Remaining) = Range(removeAt) \ Due
  BY RemainingIs DEF TreeInv
<1> DEFINE x == [ts |-> ts, pid |-> log[ts].p]
<1>2. x \in Removals
  BY DEF Removals, Events
<1>3. Scheduled(ts) = IF log[ts].type = "fork" THEN <<>> ELSE <<x>>
  BY DEF Scheduled
<1> HIDE DEF x
<1>4. /\ Scheduled(ts) \in Seq(Removals)
      /\ Range(Scheduled(ts)) = IF log[ts].type = "fork" THEN {} ELSE {x}
  <2>1. <<>> \in Seq(Removals) /\ Range(<<>>) = {}
    BY EmptySeq DEF Range
  <2>2. <<x>> \in Seq(Removals) /\ Range(<<x>>) = {x}
    BY <1>2 DEF Range
  <2> QED
    BY <1>3, <2>1, <2>2
<1>5. /\ removeAt' \in Seq(Removals)
      /\ Range(removeAt') = Range(Remaining) \union Range(Scheduled(ts))
  <2>1. \A s, t \in Seq(Removals) : s \o t \in Seq(Removals) /\ Range(s \o t) = Range(s) \union Range(t)
    BY RangeConcat
  <2> QED
    BY <1>1, <1>4, <2>1, Zenon
<1>6. Range(removeAt') = (Range(removeAt) \ Due) \union (IF log[ts].type = "fork" THEN {} ELSE {x})
  BY <1>1, <1>4, <1>5
<1>7. /\ \A r \in Range(removeAt) \ Due : r \in Range(removeAt')
      /\ log[ts].type # "fork" => x \in Range(removeAt')
      /\ \A r \in Range(removeAt') : r \in Range(removeAt) \/ (r = x /\ log[ts].type # "fork")
  BY <1>6
<1> QED
  BY <1>5, <1>7 DEF x

(* What is due was removed before the window.                               *)
LEMMA DueIsOld ==
  ASSUME TreeInv, NEW q \in DuePids
  PROVE  Old(q)
BY DEF DuePids, Due, TreeInv, Old

(* The tree applies an event.                                               *)
LEMMA EventHandled ==
  ASSUME TreeStateInv, NEW ts \in pending, Deliverable(ts), pending' = pending \ {ts},
         UNCHANGED <<kernel, boot>>, log[ts].p \in map, Handled(ts)
  PROVE  TreeStateInv'
<1>1. /\ KernelInv /\ Ordered /\ SeenInv /\ TreeInv /\ Applied /\ Inherited
      /\ UNCHANGED <<kproc, alive, log, boot, kernel>>
  BY DEF TreeStateInv, kernel
<1>2. /\ Delivered' = Delivered \union {ts} /\ ts \in Nat /\ Ordered'
      /\ ts \in 1..Len(log) /\ Delivered \subseteq 1..Len(log) /\ log[ts] \in Events
  BY <1>1, Delivers, DeliveredType
<1>3. KernelInv'
  BY <1>1, DeliveryKeepsKernel
<1>4. SeenInv' /\ Head(seen) <= Head(seen') /\ Head(seen) \in Nat /\ Head(seen') \in Nat
  BY <1>2, WindowSlides DEF Handled
<1> DEFINE a == log[ts].p
           n == log[ts].n
<1>5. /\ n \notin DOMAIN proc /\ a \in map /\ a \in DOMAIN proc /\ a # n
      /\ \A t \in Delivered : ~Removal(t, a)
      /\ NoPid \notin DOMAIN proc
  <2>1. NoPid \notin DOMAIN proc
    BY <1>1 DEF TreeInv, NoPid
  <2> QED
    BY <1>1, <2>1, Present, Firsts DEF TreeInv
<1>6. /\ DOMAIN proc' = DOMAIN proc \union Made(ts) /\ map' = (map \ Erased) \union Made(ts)
      /\ Made(ts) = {n} \ {NoPid} /\ removeAt' = Remaining \o Scheduled(ts)
      /\ \A q \in DOMAIN proc : /\ Shape(proc'[q]) /\ proc'[q].ann = proc[q].ann
                                /\ proc'[q].tombstoned <=> proc[q].tombstoned \/ q \in Tombstoned
      /\ \A q \in Made(ts) : /\ Shape(proc'[q]) /\ ~proc'[q].tombstoned
                             /\ proc[a].ann # "none" => proc'[q].ann = proc[a].ann
  BY DEF Handled, Made
<1>7. /\ removeAt' \in Seq(Removals)
      /\ \A r \in Range(removeAt) \ Due : r \in Range(removeAt')
      /\ log[ts].type # "fork" => [ts |-> ts, pid |-> a] \in Range(removeAt')
      /\ \A r \in Range(removeAt') :
           r \in Range(removeAt) \/ (r = [ts |-> ts, pid |-> a] /\ log[ts].type # "fork")
  BY <1>1, <1>2, <1>6, RemovalsAfter
<1>8. \A q : Old(q) => Old(q)'
  <2> SUFFICES ASSUME NEW q, Old(q) PROVE Old(q)'
    OBVIOUS
  <2>1. PICK t \in Delivered : Removal(t, q) /\ t < Head(seen)
    BY DEF Old
  <2>2. t \in Delivered' /\ Removal(t, q)' /\ t < Head(seen')
    BY <1>1, <1>2, <1>4, <2>1 DEF Removal
  <2> QED
    BY <2>2 DEF Old
<1>9. \A q \in Erased \union Tombstoned : Old(q)'
  BY <1>1, <1>8, DueIsOld DEF Erased, Tombstoned
<1> HIDE DEF a, n
<1>10. TreeInv'
  <2>1. map' \subseteq DOMAIN proc'
    BY <1>1, <1>6 DEF TreeInv
  <2>2. DOMAIN proc' \subseteq 1..Len(kproc')
    <3>1. n # NoPid => n \in 1..Len(kproc)
      <4>1. n \in Nat /\ n <= Len(kproc)
        BY <1>1, <1>2 DEF KernelInv, Events, n
      <4>2. Len(kproc) \in Nat
        BY <1>1, LenProperties DEF KernelInv
      <4> QED
        BY <4>1, <4>2 DEF NoPid
    <3> QED
      BY <1>1, <1>6, <3>1 DEF TreeInv
  <2>3. \A q \in DOMAIN proc' : Shape(proc'[q])
    BY <1>6
  <2>4. ASSUME NEW r \in Range(removeAt') PROVE r.ts \in Delivered' /\ Removal(r.ts, r.pid)'
    <3>1. CASE r \in Range(removeAt)
      BY <1>1, <1>2, <3>1 DEF TreeInv, Removal
    <3>2. CASE r = [ts |-> ts, pid |-> a] /\ log[ts].type # "fork"
      <4>1. r.ts = ts /\ r.pid = a /\ log[ts].type \in {"exec", "exit"}
        BY <1>2, <3>2 DEF Events
      <4> QED
        BY <1>1, <1>2, <4>1 DEF Removal, a
    <3> QED
      BY <1>7, <3>1, <3>2
  <2>5. ASSUME NEW q \in DOMAIN proc', q \notin map' \/ proc'[q].tombstoned PROVE Old(q)'
    <3>1. q \notin Made(ts)
      BY <1>6, <2>5
    <3>2. q \in DOMAIN proc
      BY <1>6, <3>1
    <3>3. q \notin map \/ proc[q].tombstoned \/ q \in Erased \union Tombstoned
      BY <1>6, <2>5, <3>1, <3>2
    <3> QED
      BY <1>1, <1>8, <1>9, <3>2, <3>3 DEF TreeInv
  <2>6. ASSUME NEW d \in pending' PROVE log'[d].n \notin DOMAIN proc'
    <3>1. d \in pending /\ d # ts /\ log'[d] = log[d] /\ log[d].n \notin DOMAIN proc
      BY <1>1 DEF TreeInv
    <3>2. log[d].n \notin Made(ts)
      BY <1>6, <3>1, Firsts DEF n
    <3> QED
      BY <1>6, <3>1, <3>2
  <2> QED
    BY <1>7, <2>1, <2>2, <2>3, <2>4, <2>5, <2>6 DEF TreeInv
<1>11. \A t \in Delivered : log[t].p \notin Made(ts) /\ log[t].n \notin Made(ts)
  BY <1>6, Firsts DEF n
<1>12. ASSUME NEW q \in DOMAIN proc, Gone(q) PROVE Gone(q)'
  <2>1. q \notin Made(ts)
    BY <1>5, <1>6, <1>12
  <2>2. CASE q \notin map
    BY <1>6, <2>1, <2>2 DEF Gone
  <2>3. CASE proc[q].tombstoned
    BY <1>6, <1>12, <2>3 DEF Gone
  <2>4. CASE \E r \in Range(removeAt) : r.pid = q
    <3>1. PICK r \in Range(removeAt) : r.pid = q
      BY <2>4
    <3>2. CASE r \notin Due
      BY <1>7, <3>1, <3>2 DEF Gone
    <3>3. CASE r \in Due
      <4>1. q \in DuePids
        BY <3>1, <3>3 DEF DuePids
      <4>2. q \in Tombstoned \/ q \in Erased
        BY <4>1 DEF Erased
      <4> QED
        BY <1>6, <1>12, <2>1, <4>2 DEF Gone
    <3> QED
      BY <3>2, <3>3
  <2> QED
    BY <1>12, <2>2, <2>3, <2>4 DEF Gone
<1>13. Applied'
  <2> SUFFICES ASSUME NEW t \in Delivered', log[t].p \in DOMAIN proc'
               PROVE  OutOfWindow(t)' \/ Took(t)'
    BY <1>1 DEF Applied
  <2>1. CASE t = ts
    <3>1. log[ts].type \in {"fork", "exec"} => log[ts].n \in DOMAIN proc'
      <4>1. log[ts].type = "exit" <=> n = NoPid
        BY <1>1, <1>2 DEF KernelInv, n
      <4> QED
        BY <1>6, <4>1 DEF n
    <3>2. log[ts].type \in {"exec", "exit"} => Gone(a)'
      <4> SUFFICES ASSUME log[ts].type \in {"exec", "exit"} PROVE \E r \in Range(removeAt') : r.pid = a
        BY <1>1 DEF Gone, a
      <4>1. log[ts].type # "fork"
        OBVIOUS
      <4>2. [ts |-> ts, pid |-> a] \in Range(removeAt')
        BY <1>7, <4>1, Zenon
      <4> QED
        BY <4>2
    <3> QED
      BY <1>1, <2>1, <3>1, <3>2 DEF Took, a
  <2>2. CASE t \in Delivered
    <3>1. log[t].p \in DOMAIN proc
      BY <1>6, <1>11, <2>2
    <3>2. OutOfWindow(t) \/ Took(t)
      BY <1>1, <2>2, <3>1 DEF Applied
    <3>3. OutOfWindow(t) => OutOfWindow(t)'
      BY <1>1, <1>2, OutOfWindowStays
    <3>4. Took(t) => Took(t)'
      BY <1>1, <1>6, <1>12, <3>1 DEF Took
    <3> QED
      BY <3>2, <3>3, <3>4
  <2> QED
    BY <1>2, <2>1, <2>2
<1>14. Inherited'
  <2> SUFFICES ASSUME NEW t \in Delivered', log[t].n \in DOMAIN proc', log[t].p \in DOMAIN proc',
                      proc'[log[t].p].ann # "none"
               PROVE  proc'[log[t].n].ann = proc'[log[t].p].ann
    BY <1>1 DEF Inherited, Handed
  <2>1. CASE t = ts
    <3>1. n \in Made(ts)
      BY <1>5, <1>6, <2>1 DEF n
    <3> QED
      BY <1>5, <1>6, <2>1, <3>1 DEF n, a
  <2>2. CASE t \in Delivered
    <3>1. log[t].p \in DOMAIN proc /\ log[t].n \in DOMAIN proc
      BY <1>6, <1>11, <2>2
    <3> QED
      BY <1>1, <1>6, <2>2, <3>1 DEF Inherited, Handed
  <2> QED
    BY <1>2, <2>1, <2>2
<1> QED
  BY <1>2, <1>3, <1>4, <1>10, <1>13, <1>14 DEF TreeStateInv

(* The handler informs the tree.                                            *)
LEMMA Informs ==
  ASSUME TreeStateInv, InformTree
  PROVE  TreeStateInv'
<1>1. PICK ts \in pending : /\ Deliverable(ts) /\ InformFromESEvent(ts)
                            /\ pending' = pending \ {ts} /\ UNCHANGED <<kernel, boot, token>>
  BY DEF InformTree
<1>2. KernelInv /\ TreeInv /\ ts \in 1..Len(log) /\ log[ts].n \notin DOMAIN proc
  BY Present, DeliveredType DEF TreeStateInv
<1>3. log[ts].type = "exit" <=> log[ts].n = NoPid
  BY <1>2 DEF KernelInv
<1>4. CASE (log[ts].p \notin map \/ ~Novel(ts)) /\ UNCHANGED tree
  BY <1>1, <1>4, EventIgnored
<1>5. CASE log[ts].p \in map /\ log[ts].type = "fork" /\ HandleFork(ts, log[ts].p, log[ts].n)
  <2>1. Handled(ts)
    BY <1>2, <1>3, <1>5, ForkHandled
  <2> QED
    BY <1>1, <1>5, <2>1, EventHandled
<1>6. CASE /\ log[ts].p \in map /\ log[ts].type = "exec"
           /\ HandleExec(ts, log[ts].p, log[ts].n, kproc[log[ts].n].prog)
  <2>1. Handled(ts)
    <3> DEFINE prog == kproc[log[ts].n].prog
    <3>1. HandleExec(ts, log[ts].p, log[ts].n, prog)
      BY <1>6
    <3> HIDE DEF prog
    <3> QED
      BY <1>2, <1>3, <1>6, <3>1, ExecHandled
  <2> QED
    BY <1>1, <1>6, <2>1, EventHandled
<1>7. CASE log[ts].p \in map /\ log[ts].type = "exit" /\ HandleExit(ts, log[ts].p)
  <2>1. Handled(ts)
    BY <1>2, <1>3, <1>7, ExitHandled
  <2> QED
    BY <1>1, <1>7, <2>1, EventHandled
<1> QED
  BY <1>1, <1>4, <1>5, <1>6, <1>7 DEF InformFromESEvent

LEMMA TreeStateInvStep ==
  ASSUME TreeStateInv, [TreeNext]_treeVars
  PROVE  TreeStateInv'
<1>1. CASE CreateTree
  BY <1>1, Backfills DEF CreateTree
<1>2. CASE FillAgain
  BY <1>2, Backfills DEF FillAgain
<1>3. CASE Subscribe
  BY <1>3, Subscribes DEF Subscribe
<1>4. CASE InformTree
  BY <1>4, Informs
<1>5. CASE NewToken
  BY <1>5, NewTokens
<1>6. CASE \E ts \in DOMAIN token : DropToken(ts)
  BY <1>6, TokensDropped
<1>7. CASE Kernel
  BY <1>7, KernelStep
<1>8. CASE UNCHANGED treeVars
  <2>1. /\ UNCHANGED <<kernel, boot, pending, removeAt, seen>> /\ proc' = proc /\ map' = map
    BY <1>8 DEF treeVars, client, tree
  <2>2. \A p \in DOMAIN proc : Shape(proc'[p])
    BY <2>1 DEF TreeStateInv, TreeInv
  <2> QED
    BY <2>1, <2>2, Recounted
<1> QED
  BY <1>1, <1>2, <1>3, <1>4, <1>5, <1>6, <1>7, <1>8 DEF TreeNext

LEMMA AppliedIs ==
  ASSUME TreeStateInv
  PROVE  WindowKept /\ OriginatorInherited
<1>1. LateEventsApplied
  BY DEF TreeStateInv, Applied, Took, Gone, LateEventsApplied
<1>2. EvictedAreOld
  BY DEF TreeStateInv, TreeInv, Old, EvictedAreOld
<1>3. OriginatorInherited
  BY DEF TreeStateInv, Inherited, Handed, OriginatorInherited
<1> QED
  BY <1>1, <1>2, <1>3 DEF WindowKept

(* Whatever the length of the window and however late events come, an event *)
(* that is not older than the window took effect, and nothing left the tree *)
(* before its exec or exit fell out of the window: HandleFork, HandleExec,  *)
(* HandleExit, Step and the destructors of tokens in any order.             *)
THEOREM LaggingClientsMissNothing == TreeSpec => []WindowKept
<1>1. TreeInit => TreeStateInv
  BY TreeStateInvInit
<1>2. TreeStateInv /\ [TreeNext]_treeVars => TreeStateInv'
  BY TreeStateInvStep
<1>3. TreeStateInv => WindowKept
  BY AppliedIs
<1> QED
  BY <1>1, <1>2, <1>3, PTL DEF TreeSpec

(* AnnotateFork and AnnotateExec hand the originator down along every event *)
(* the tree saw, however the events, the tokens and the backfills interleave. *)
THEOREM OriginatorAlwaysInherited == TreeSpec => []OriginatorInherited
<1>1. TreeInit => TreeStateInv
  BY TreeStateInvInit
<1>2. TreeStateInv /\ [TreeNext]_treeVars => TreeStateInv'
  BY TreeStateInvStep
<1>3. TreeStateInv => OriginatorInherited
  BY AppliedIs
<1> QED
  BY <1>1, <1>2, <1>3, PTL DEF TreeSpec
=============================================================================
