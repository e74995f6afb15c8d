--------------------------------- MODULE Spool ---------------------------------
(***************************************************************************)
(* The telemetry spool: the writer that batches records into files         *)
(* (Writers/Spool.h, FSSpool/fsspool.h, AnyBatcher, StreamBatcher) and the *)
(* reader that hands the files out for export (FsSpoolReader).             *)
(*                                                                         *)
(* Everything runs on one serial queue.  A block of that queue is a few    *)
(* steps (`job` says which is next, `after` what follows a flush), and no  *)
(* other block runs before it ended; a crash may come between any two.     *)
(* A batch is written to a temporary file and renamed into the spool       *)
(* directory when it is complete; temporary files are removed at start.    *)
(* A record is a number and has size 1.                                    *)
(***************************************************************************)
EXTENDS Integers, Sequences, FiniteSets, FiniteSetsExt

CONSTANTS
    Batchers,    \* the batchers a start of the daemon may configure
    Threshold,   \* spool_file_size_threshold_
    Leniency,    \* spool_file_size_threshold_leniency_ (20% above Threshold)
    MaxSpool,    \* max_spool_size_
    Cluster,     \* kDiskClusterSize
    MaxRecords,  \* bound: records logged
    MaxFailures  \* bound: file system errors and crashes

ASSUME SpoolAssumption ==
    /\ Batchers \subseteq {"any", "stream", "gzip", "zstd"}
    /\ {Threshold, Cluster} \subseteq Nat \ {0}
    /\ Leniency \in Nat /\ Leniency >= Threshold
    /\ {MaxSpool, MaxRecords, MaxFailures} \subseteq Nat

VARIABLES
    batcher,      \* the batcher in use
    cache,        \* records of the batch: AnyBatcher's cache_, or streamed out
    fd,           \* current_spool_state_: "closed", "open" or "broken"
    acc,          \* accumulated_bytes_
    spaceFailed,  \* space_check_failure_since_last_flush_
    est,          \* spool_size_estimate_
    lastMtime,    \* spool_dir_last_mtime_ (-1: uninitialised)
    mtime,        \* modification time of the spool directory
    files,        \* every file ever published, its records and its type
    spool,        \* the files in the spool directory
    unacked,      \* unacked_messages_ of the reader
    job, after,   \* what the block that runs on the queue does next
    records,      \* number of records logged so far
    accepted,     \* records whose Write returned OK
    faults, crashes

batch == <<batcher, cache, fd>>
estimate == <<est, lastMtime>>
disk == <<mtime, files, spool>>
block == <<job, after>>
bounds == <<faults, crashes>>
writerVars == <<batch, acc, spaceFailed, estimate, disk, unacked, block, records,
                accepted, bounds>>

Size(f) == Cardinality(files[f].recs)

\* EstimateDiskOccupation: whole clusters, and at least one.
EstimateDiskOccupation(size) ==
    Cluster * Max({1, (size + Cluster - 1) \div Cluster})

\* EstimateDirSize
DirSize == MapThenSumSet(LAMBDA f : EstimateDiskOccupation(Size(f)), spool)

Fault == faults + crashes < MaxFailures /\ faults' = faults + 1 /\ UNCHANGED crashes

\* BatcherInterface: whether the file is opened by Write, or by Flush.
ShouldInitializeBeforeWrite == batcher # "any"
NeedToOpenFile == batcher # "any" \/ cache # {}

(***************************************************************************)
(* InitializeCurrentSpoolStateIfNeeded, with result r                      *)
(***************************************************************************)
\* EstimateSpoolDirSize: the directory is read again only if it changed.
EstimateSpoolDirSize == IF mtime = lastMtime THEN est ELSE DirSize

\* SpaceAvailable: the estimate is renewed only when it is above the limit.
NewEstimate == IF est > MaxSpool THEN EstimateSpoolDirSize ELSE est
SpaceAvailable == NewEstimate <= MaxSpool
Reestimate == est' = NewEstimate /\ lastMtime' = IF est > MaxSpool THEN mtime ELSE lastMtime

InitializeCurrentSpoolStateIfNeeded(r) ==
    \/ /\ fd # "closed" \/ ~NeedToOpenFile
       /\ r = "ok"
       /\ UNCHANGED <<fd, estimate, bounds>>
    \/ /\ fd = "closed" /\ NeedToOpenFile
       /\ \/ r = "error" /\ Fault /\ UNCHANGED <<fd, estimate>>  \* directories
          \/ /\ r = "error" /\ Fault /\ est > MaxSpool  \* the size, after its time was stored
             /\ lastMtime' = mtime /\ UNCHANGED <<fd, est>>
          \/ /\ Reestimate
             /\ \/ r = "full" /\ ~SpaceAvailable /\ UNCHANGED <<fd, bounds>>
                \/ r = "ok" /\ SpaceAvailable /\ fd' = "open" /\ UNCHANGED bounds
                \/ r = "error" /\ SpaceAvailable /\ Fault /\ UNCHANGED fd  \* open
                \/ /\ r = "error" /\ SpaceAvailable /\ Fault   \* no compressor
                   /\ batcher \in {"gzip", "zstd"}
                   /\ fd' = "broken"

(***************************************************************************)
(* CompleteCurrentSpoolState, with result ok                               *)
(***************************************************************************)
\* RenameFile: the batch becomes a file of the spool directory.  Its type is the
\* magic number it begins with: a stream cut short may have none.
Publish(recs) ==
    /\ \E magic \in IF recs = {} THEN {batcher, "none"} ELSE {batcher} :
           files' = Append(files, [recs |-> recs, type |-> magic])
    /\ spool' = spool \cup {Len(files')}
    /\ mtime' = mtime + 1

(* Mutant of CompleteCurrentSpoolState: the temporary file is not renamed. *)
NotRenamed(ok) ==
    \/ fd = "closed" /\ ok /\ UNCHANGED <<cache, fd, est, disk, bounds>>
    \/ /\ fd = "open" /\ ok
       /\ est' = est + Cardinality(cache)
       /\ fd' = "closed" /\ cache' = {} /\ UNCHANGED <<disk, bounds>>

(* Mutant of CompleteCurrentSpoolState: the size of a file is not counted. *)
UncountedBatch(ok) ==
    \/ fd = "closed" /\ ok /\ UNCHANGED <<cache, fd, est, disk, bounds>>
    \/ /\ fd = "open" /\ ok
       /\ Publish(cache)
       /\ fd' = "closed" /\ cache' = {} /\ UNCHANGED <<est, bounds>>

\* The estimate grows by the bytes written, before the rename.
CompleteCurrentSpoolState(ok) ==
    \/ fd = "closed" /\ ok /\ UNCHANGED <<cache, fd, est, disk, bounds>>
    \/ /\ fd = "open"
       /\ fd' = "closed"
       /\ \/ /\ ok /\ Publish(cache)
             /\ est' = est + Cardinality(cache) /\ cache' = {} /\ UNCHANGED bounds
          \/ /\ ok /\ Fault            \* a write failed, which nobody looks at
             /\ \E part \in SUBSET cache : part # cache /\ Publish(part)
             /\ est' = est + Cardinality(cache) /\ cache' = {}
          \/ /\ ~ok /\ Fault           \* the rename failed: the file is removed
             /\ est' = est + Cardinality(cache) /\ cache' = {} /\ UNCHANGED disk
          \/ /\ ~ok /\ Fault /\ batcher = "any"   \* the batch cannot be encoded
             /\ UNCHANGED <<est, cache, disk>>

(***************************************************************************)
(* Spool::Write, Flush and the flush timer                                 *)
(***************************************************************************)
StartFlush == IF ShouldInitializeBeforeWrite THEN "complete" ELSE "flush"

BeginWrite ==
    /\ job = "none" /\ records < MaxRecords
    /\ records' = records + 1
    /\ after' = "record"
    /\ job' = IF acc >= Threshold THEN StartFlush ELSE "record"
    /\ UNCHANGED <<batch, acc, spaceFailed, estimate, disk, unacked, accepted, bounds>>

\* Flush() and the timer of BeginFlushTask (a flush that finds nothing to do
\* changes nothing and is left out)
BeginFlush ==
    /\ job = "none"
    /\ cache # {} \/ fd # "closed" \/ acc > 0 \/ spaceFailed
    /\ after' = "none"
    /\ job' = StartFlush
    /\ UNCHANGED <<batch, acc, spaceFailed, estimate, disk, unacked, records, accepted, bounds>>

\* FlushSerialized, first half: AnyBatcher opens its file now.
FlushInitialize == \E r \in {"ok", "full", "error"} :
    /\ job = "flush"
    /\ InitializeCurrentSpoolStateIfNeeded(r)
    /\ job' = IF r = "ok" THEN "complete" ELSE after
    /\ UNCHANGED <<batcher, cache, acc, spaceFailed, disk, unacked, after, records, accepted>>

\* FlushSerialized, second half
FlushComplete == \E ok \in BOOLEAN :
    /\ job = "complete" /\ fd # "broken"
    /\ CompleteCurrentSpoolState(ok)
    /\ spaceFailed' = FALSE
    /\ acc' = IF ok THEN 0 ELSE acc
    /\ job' = after
    /\ UNCHANGED <<batcher, lastMtime, unacked, after, records, accepted>>

Accept ==
    /\ cache' = cache \cup {records}
    /\ acc' = acc + 1
    /\ accepted' = accepted \cup {records}

\* The record is written if there is room left; a failed flush leaves little.
WriteRecord ==
    /\ job = "record" /\ fd # "broken"
    /\ job' = "none"
    /\ \/ /\ acc < Leniency /\ ~ShouldInitializeBeforeWrite
          /\ Accept
          /\ UNCHANGED <<fd, spaceFailed, estimate, bounds>>
       \/ /\ acc < Leniency /\ ShouldInitializeBeforeWrite /\ ~spaceFailed
          /\ \E r \in {"ok", "full", "error"} :
                /\ InitializeCurrentSpoolStateIfNeeded(r)
                /\ spaceFailed' = (r = "full")
                /\ IF r = "ok" THEN Accept ELSE UNCHANGED <<cache, acc, accepted>>
       \/ /\ acc >= Leniency \/ (ShouldInitializeBeforeWrite /\ spaceFailed)  \* dropped
          /\ UNCHANGED <<cache, fd, acc, spaceFailed, estimate, accepted, bounds>>
    /\ after' = "none"
    /\ UNCHANGED <<batcher, disk, unacked, records>>

(***************************************************************************)
(* FsSpoolReader                                                           *)
(***************************************************************************)
\* BatchMessagePaths(1): a file nobody is working on.
Takeable == spool \ unacked

(* Mutant of AckMessages: the directory's time is that of its newest file. *)
TimeOfNewest(done, kept, failed) ==
    /\ spool' = spool \ (done \ failed)
    /\ UNCHANGED mtime
    /\ unacked' = unacked \ ((done \ failed) \cup kept)

\* AckMessage: a file that was exported is deleted, and forgotten only then.
AckMessages(done, kept, failed) ==
    /\ spool' = spool \ (done \ failed)
    /\ mtime' = IF spool' # spool THEN mtime + 1 ELSE mtime
    /\ unacked' = unacked \ ((done \ failed) \cup kept)

(***************************************************************************)
(* Start and crash                                                         *)
(***************************************************************************)
\* The constructor guesses that the spool is full, so that the first check
\* reads the directory, and removes what a crash left in the temporary one.
\* (lastMtime is not initialised: no directory has the time it holds.)
WriterInit ==
    /\ batcher \in Batchers
    /\ cache = {} /\ fd = "closed" /\ acc = 0 /\ spaceFailed = FALSE
    /\ est = MaxSpool + 1 /\ lastMtime = -1
    /\ mtime = 0 /\ files = <<>> /\ spool = {} /\ unacked = {}
    /\ job = "none" /\ after = "none"
    /\ records = 0 /\ accepted = {} /\ faults = 0 /\ crashes = 0

\* A batch whose compressor could not be created has no stream to write to.
NullStream == fd = "broken" /\ job \in {"record", "complete"}

\* A crash at any time, or a null stream: santad starts again, perhaps with
\* another log type.
Restart ==
    /\ faults + crashes < MaxFailures \/ NullStream
    /\ crashes' = crashes + 1
    /\ batcher' \in Batchers
    /\ cache' = {} /\ fd' = "closed" /\ acc' = 0 /\ spaceFailed' = FALSE
    /\ est' = MaxSpool + 1 /\ lastMtime' = -1 /\ unacked' = {}
    /\ job' = "none" /\ after' = "none"
    /\ UNCHANGED <<disk, records, accepted, faults>>

WriterStep == FlushInitialize \/ FlushComplete \/ WriteRecord

(***************************************************************************)
(* Properties of the writer                                                *)
(***************************************************************************)
Spooled == UNION {files[f].recs : f \in DOMAIN files}
Bytes == MapThenSumSet(Size, spool)

\* The variables have their types; a file is open only for a batch.
WriterTypeOK ==
    /\ batcher \in Batchers
    /\ cache \subseteq 1..MaxRecords /\ accepted \subseteq 1..MaxRecords
    /\ fd \in {"closed", "open", "broken"}
    /\ acc \in Nat /\ est \in Nat /\ lastMtime \in -1..mtime
    /\ spool \subseteq DOMAIN files /\ unacked \subseteq DOMAIN files
    /\ job \in {"none", "flush", "complete", "record"} /\ after \in {"none", "record"}

\* Every record whose Write succeeded is in the current batch or in a published
\* file; an error of the file system or a crash costs one batch, which never
\* holds more than the leniency allows (Spool::Write, CompleteCurrentSpoolState).
LossIsOneBatch ==
    /\ Cardinality(cache) <= Leniency
    /\ Cardinality(accepted \ (cache \cup Spooled)) <= (faults + crashes) * Leniency

\* The spool directory never holds more than the limit and one file, although
\* the writer only estimates its size (SpaceAvailable).
SpoolBounded == spool # {} => Bytes - Size(Max(spool)) <= MaxSpool
================================================================================
