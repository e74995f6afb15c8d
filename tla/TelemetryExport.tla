---------------------------- MODULE TelemetryExport ----------------------------
(***************************************************************************)
(* The export of spooled telemetry (Logger.mm, ExportTelemetrySerialized,  *)
(* and Logger.h, ExportTracker), on top of the spool.                      *)
(*                                                                         *)
(* One export runs at a time, on its own serial queue.  It opens files of  *)
(* one type until the batch is full, sends them to the sync service,       *)
(* waits for the reply or a timeout, and tells the spool which files are   *)
(* done.  The reply runs on an XPC thread and acknowledges the files one   *)
(* by one: a timeout may come while it does.                               *)
(***************************************************************************)
EXTENDS Spool

CONSTANTS
    MaxFiles,    \* export_max_files_per_batch_
    MaxBytes,    \* export_batch_threshold_size_bytes_
    MaxExports   \* bound: exports started

ASSUME ExportAssumption == {MaxFiles, MaxBytes} \subseteq Nat \ {0} /\ MaxExports \in Nat

VARIABLES
    step,        \* "idle", "pick", "send", "wait"
    handles,     \* pathsToHandles: the files of the batch
    curType,     \* cur_log_type
    again,       \* process_another_batch
    success,     \* reply_block_success
    reply,       \* the reply block: "none", "pending", "running", "done"
    toAck,       \* files the running reply block has still to acknowledge
    late,        \* files reply blocks still acknowledge after a timeout
    tracker,     \* file_state_ of the ExportTracker
    acks,        \* blocks FilesExported put on the spool's queue
    received,    \* files the server has (external)
    discarded,   \* files given up: unreadable, or of an unsupported type
    exports

exportState == <<step, handles, curType, again, success, reply, toAck, late, tracker, acks>>
ghosts == <<received, discarded, exports>>
vars == <<writerVars, exportState, ghosts>>

(***************************************************************************)
(* ExportTracker                                                           *)
(***************************************************************************)
NoFiles == [f \in {} |-> FALSE]

\* try_emplace
Track(f) == [g \in DOMAIN tracker \cup {f} |-> IF g \in DOMAIN tracker THEN tracker[g] ELSE FALSE]
\* insert_or_assign
AckCompleted(f) == [g \in DOMAIN tracker \cup {f} |-> IF g = f THEN TRUE ELSE tracker[g]]

\* Drain and FilesExported: one block for the spool's queue.
Drain == tracker' = NoFiles /\ acks' = Append(acks, tracker)

(***************************************************************************)
(* ExportTelemetrySerialized                                               *)
(***************************************************************************)
\* GetLogType: the magic number of the file; AnyBatcher's files have none that is
\* known, and a file that is too short has none at all.
GetLogType(f) == IF files[f].type \in {"any", "none"} THEN "unknown" ELSE files[f].type

\* OnTimer, and santactl's request; without a configuration nothing is done.
StartExport ==
    /\ step = "idle" /\ exports < MaxExports
    /\ exports' = exports + 1
    /\ step' = "pick" /\ success' = TRUE
    /\ handles' = {} /\ curType' = "unknown" /\ again' = FALSE
    /\ UNCHANGED <<writerVars, reply, toAck, late, tracker, acks, received, discarded>>

BatchFull(hs) == Cardinality(hs) >= MaxFiles \/ MapThenSumSet(Size, hs) >= MaxBytes

\* NextFileToExport waits for the spool's queue; the file is opened and looked at.
PickFile == \E f \in Takeable :
    /\ step = "pick" /\ job = "none" /\ acks = <<>>
    /\ unacked' = unacked \cup {f}
    /\ \/ /\ tracker' = AckCompleted(f)                   \* no handle, not a file
          /\ discarded' = discarded \cup {f}
          /\ Fault
          /\ UNCHANGED <<step, handles, curType, again>>
       \/ /\ GetLogType(f) = "unknown"
          /\ tracker' = AckCompleted(f)
          /\ discarded' = discarded \cup {f}
          /\ UNCHANGED <<step, handles, curType, again, bounds>>
       \/ /\ GetLogType(f) # "unknown" /\ curType \in {"unknown", GetLogType(f)}
          /\ tracker' = Track(f)
          /\ handles' = handles \cup {f} /\ curType' = GetLogType(f)
          /\ again' = (again \/ BatchFull(handles'))
          /\ step' = IF BatchFull(handles') THEN "send" ELSE "pick"
          /\ UNCHANGED <<discarded, bounds>>
       \/ /\ GetLogType(f) # "unknown" /\ curType \notin {"unknown", GetLogType(f)}
          /\ tracker' = Track(f)
          /\ again' = TRUE
          /\ UNCHANGED <<step, handles, curType, discarded, bounds>>
    /\ UNCHANGED <<batch, acc, spaceFailed, estimate, disk, block, records, accepted,
                   success, reply, toAck, late, acks, received, exports>>

PickNone ==
    /\ step = "pick" /\ job = "none" /\ acks = <<>> /\ Takeable = {}
    /\ step' = "send"
    /\ UNCHANGED <<writerVars, handles, curType, again, success, reply, toAck, late,
                   tracker, acks, ghosts>>

\* An empty batch ends the export; any other one is sent.
Send ==
    /\ step = "send"
    /\ \/ /\ handles = {}
          /\ Drain
          /\ step' = "idle"
          /\ UNCHANGED <<reply, toAck>>
       \/ /\ handles # {}
          /\ step' = "wait" /\ reply' = "pending" /\ toAck' = handles
          /\ UNCHANGED <<tracker, acks>>
    /\ UNCHANGED <<writerVars, handles, curType, again, success, late, ghosts>>

\* The reply block starts; a second execution finds the semaphore taken.
ReplyStarts == \E ok \in BOOLEAN :
    /\ reply = "pending"
    /\ reply' = "running"
    /\ success' = ok
    /\ received' = IF ok THEN received \cup handles ELSE received
    /\ toAck' = IF ok THEN toAck ELSE {}
    /\ UNCHANGED <<writerVars, step, handles, curType, again, late, tracker, acks,
                   discarded, exports>>

ReplyAcks == \E f \in toAck :
    /\ reply = "running"
    /\ tracker' = AckCompleted(f)
    /\ toAck' = toAck \ {f}
    /\ UNCHANGED <<writerVars, step, handles, curType, again, success, reply, late,
                   acks, ghosts>>

LateAcks == \E f \in late :
    /\ tracker' = AckCompleted(f)
    /\ late' = late \ {f}
    /\ UNCHANGED <<writerVars, step, handles, curType, again, success, reply, toAck,
                   acks, ghosts>>

\* After the reply, or the timeout, the tracker is drained and the loop goes on
\* if the reply was a success and files were left.
NextBatch(ok) ==
    /\ Drain
    /\ reply' = "none" /\ toAck' = {}
    /\ step' = IF ok /\ again THEN "pick" ELSE "idle"
    /\ success' = TRUE
    /\ handles' = {} /\ curType' = "unknown" /\ again' = FALSE

ReplyDone ==
    /\ step = "wait" /\ reply = "running" /\ toAck = {}
    /\ NextBatch(success)
    /\ UNCHANGED <<writerVars, late, ghosts>>

(* Mutant of TimedOut: the files of a batch that timed out count as sent. *)
TimeoutIsSuccess ==
    /\ step = "wait"
    /\ NextBatch(FALSE)
    /\ late' = late \cup handles
    /\ UNCHANGED <<writerVars, ghosts>>

\* The timeout runs the reply block with FALSE, unless the reply has started: it
\* then goes on beside the export.  The files may or may not reach the server.
TimedOut ==
    /\ step = "wait"
    /\ \/ /\ reply = "pending" /\ NextBatch(FALSE) /\ UNCHANGED late
          /\ \E sent \in SUBSET handles :
                sent \in {{}, handles} /\ received' = received \cup sent
       \/ /\ reply = "running" /\ toAck # {}
          /\ NextBatch(success)
          /\ late' = late \cup toAck
          /\ UNCHANGED received
    /\ UNCHANGED <<writerVars, discarded, exports>>

(* Mutant of FilesExported: only files that are done are forgotten. *)
ForgetDoneOnly ==
    /\ job = "none" /\ acks # <<>>
    /\ acks' = Tail(acks)
    /\ AckMessages({f \in DOMAIN Head(acks) : Head(acks)[f]}, {}, {})
    /\ UNCHANGED bounds
    /\ UNCHANGED <<batch, acc, spaceFailed, estimate, files, block, records, accepted,
                   step, handles, curType, again, success, reply, toAck, late, tracker, ghosts>>

\* The block of FilesExported on the spool's queue
FilesExported ==
    /\ job = "none" /\ acks # <<>>
    /\ acks' = Tail(acks)
    /\ LET done == {f \in DOMAIN Head(acks) : Head(acks)[f]}
           kept == DOMAIN Head(acks) \ done
       IN  \/ AckMessages(done, kept, {}) /\ UNCHANGED bounds
           \/ \E f \in done \cap spool : AckMessages(done, kept, {f}) /\ Fault
    /\ UNCHANGED <<batch, acc, spaceFailed, estimate, files, block, records, accepted,
                   step, handles, curType, again, success, reply, toAck, late, tracker, ghosts>>

(***************************************************************************)
(* The specification                                                       *)
(***************************************************************************)
ExportInit ==
    /\ step = "idle" /\ handles = {} /\ curType = "unknown" /\ again = FALSE
    /\ success = TRUE /\ reply = "none" /\ toAck = {} /\ late = {}
    /\ tracker = NoFiles /\ acks = <<>>

Init == WriterInit /\ ExportInit /\ received = {} /\ discarded = {} /\ exports = 0

Crash ==
    /\ Restart
    /\ step' = "idle" /\ handles' = {} /\ curType' = "unknown" /\ again' = FALSE
    /\ success' = TRUE /\ reply' = "none" /\ toAck' = {} /\ late' = {}
    /\ tracker' = NoFiles /\ acks' = <<>>
    /\ UNCHANGED ghosts

Writing == (BeginWrite \/ BeginFlush \/ WriterStep) /\ UNCHANGED <<exportState, ghosts>>

Exporting == PickFile \/ PickNone \/ Send \/ ReplyDone \/ TimedOut \/ FilesExported

Next == Writing \/ StartExport \/ Exporting \/ ReplyStarts \/ ReplyAcks \/ LateAcks \/ Crash

Spec == Init /\ [][Next]_vars

\* Blocks that were dispatched run, a reply that started goes on, the flush timer fires, and the export's wait
\* ends by its timeout; nothing makes the sync service reply.
Fairness ==
    /\ WF_vars(Crash /\ NullStream)
    /\ WF_vars(WriterStep /\ UNCHANGED <<exportState, ghosts>>)
    /\ SF_vars(BeginFlush /\ UNCHANGED <<exportState, ghosts>>)
    /\ SF_vars(PickFile \/ PickNone) /\ WF_vars(Send) /\ SF_vars(FilesExported)
    /\ WF_vars(ReplyAcks) /\ WF_vars(LateAcks) /\ WF_vars(ReplyDone \/ TimedOut)

FairSpec == Spec /\ Fairness

(***************************************************************************)
(* Properties                                                              *)
(***************************************************************************)
\* The variables have their types; an idle export holds nothing.
TypeOK ==
    /\ WriterTypeOK
    /\ handles \subseteq spool /\ toAck \subseteq handles
    /\ DOMAIN tracker \subseteq DOMAIN files
    /\ step = "idle" => handles = {} /\ reply = "none"

\* A file leaves the spool only when the server has it or it cannot be exported
\* at all: timeouts, late replies, failed deletions and crashes lose none.
ExportedBeforeRemoved == \A f \in DOMAIN files :
    f \notin spool => f \in received \cup discarded

\* Every export ends, whatever the service does, and then the reader waits for
\* nobody: each file it handed out came back, to be seen by the next export.  Only
\* a file that could not be deleted stays aside until the next start.
ExportEnds ==
    step # "idle" ~> step = "idle" /\ acks = <<>> /\ Cardinality(unacked) <= faults

\* A record does not stay in memory: a flush publishes it, unless the directory
\* really is too large (BeginFlushTask, and EstimateSpoolDirSize, which renews its
\* estimate only when the directory has changed) or an operation failed.
RecordsLeave == cache # {} ~> cache = {} \/ DirSize > MaxSpool \/ faults > 0
================================================================================
