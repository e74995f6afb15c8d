------------------------------- MODULE Recorder -------------------------------
(***************************************************************************)
(* The recorder: an Endpoint Security client that turns notifications into *)
(* log records.  The handler of the client is serial: it counts the event, *)
(* filters it, enriches it in place and leaves the rest to a concurrent    *)
(* queue, whose blocks look at the telemetry mask once more, serialize and *)
(* write.  Meanwhile the mask, the machine ID and the user directory       *)
(* change, programs are evaluated, a backfill of decisions runs, and       *)
(* counters are flushed to the metric service.                             *)
(*                                                                         *)
(* Left out: what the compiler controller does with an event (RuleTable),  *)
(* the process tree (ProcessTree), the text of a record, files that a      *)
(* compiler is writing (their decisions are replaced by fake ones), and    *)
(* the caches of names becoming full (a name is looked up again).          *)
(***************************************************************************)
EXTENDS PrefixTree, TLC

CONSTANTS
    EventTypes,      \* the event types that happen, some of Subscribed
    Files,           \* files, each a path: a sequence of characters
    Programs,        \* the files that are executed
    RegexMatches,    \* the files that fileChangesRegex matches
    PrefixFilters,   \* fileChangesPrefixFilters
    IgnoreOtherESClients, \* ignoreOtherEndpointSecurityClients
    Masks,           \* telemetry masks that may be configured
    MaxEvents,       \* bound: notifications, delivered or lost
    MaxEvaluations,  \* bound: decisions made by the exec authorizer
    MaxChanges       \* bound: changes of settings and of the directory, flushes, and full caches

None == "none"

-----------------------------------------------------------------------------
(* The event types: those about a file, those that the recorder asks for,    *)
(* and those that the enricher knows (any other ends santad).                *)
FileEvents == {"CLONE", "CLOSE", "COPYFILE", "EXCHANGEDATA", "LINK", "RENAME", "UNLINK"}

Subscribed ==
    {"CLONE", "CLOSE", "COPYFILE", "CS_INVALIDATED", "EXCHANGEDATA", "EXEC", "EXIT", "FORK",
     "LINK", "RENAME", "UNLINK", "AUTHENTICATION", "LOGIN_LOGIN", "LOGIN_LOGOUT",
     "LW_SESSION_LOGIN", "LW_SESSION_LOGOUT", "LW_SESSION_LOCK", "LW_SESSION_UNLOCK",
     "SCREENSHARING_ATTACH", "SCREENSHARING_DETACH", "OPENSSH_LOGIN", "OPENSSH_LOGOUT",
     "BTM_LAUNCH_ITEM_ADD", "BTM_LAUNCH_ITEM_REMOVE", "XP_MALWARE_DETECTED",
     "XP_MALWARE_REMEDIATED", "GATEKEEPER_USER_OVERRIDE", "TCC_MODIFY"}

Enrichable ==
    FileEvents \cup {"EXEC", "EXIT", "FORK", "CS_INVALIDATED", "AUTHENTICATION"}
    \cup {"LW_SESSION_LOGIN", "LW_SESSION_LOGOUT", "LW_SESSION_LOCK", "LW_SESSION_UNLOCK"}
    \cup {"SCREENSHARING_ATTACH", "SCREENSHARING_DETACH", "OPENSSH_LOGIN", "OPENSSH_LOGOUT"}
    \cup {"LOGIN_LOGIN", "LOGIN_LOGOUT", "BTM_LAUNCH_ITEM_ADD", "BTM_LAUNCH_ITEM_REMOVE"}
    \cup {"XP_MALWARE_DETECTED", "XP_MALWARE_REMEDIATED", "GATEKEEPER_USER_OVERRIDE", "TCC_MODIFY"}

(* The bit of the telemetry mask that an event needs.                        *)
TelemetryEvents ==
    {"kNone", "kExecution", "kFork", "kExit", "kClose", "kRename", "kUnlink", "kLink",
     "kExchangeData", "kDisk", "kBundle", "kAllowlist", "kFileAccess",
     "kCodesigningInvalidated", "kLoginWindowSession", "kLoginLogout", "kScreenSharing",
     "kOpenSSH", "kAuthentication", "kClone", "kCopyfile", "kGatekeeperOverride",
     "kLaunchItem", "kTCCModification", "kXProtect"}

ESEventToTelemetryEvent(type) ==
    CASE type = "CLONE" -> "kClone"               [] type = "CLOSE" -> "kClose"
      [] type = "COPYFILE" -> "kCopyfile"         [] type = "CS_INVALIDATED" -> "kCodesigningInvalidated"
      [] type = "EXCHANGEDATA" -> "kExchangeData" [] type = "EXEC" -> "kExecution"
      [] type = "EXIT" -> "kExit"                 [] type = "FORK" -> "kFork"
      [] type = "LINK" -> "kLink"                 [] type = "RENAME" -> "kRename"
      [] type = "UNLINK" -> "kUnlink"             [] type = "AUTHENTICATION" -> "kAuthentication"
      [] type \in {"LOGIN_LOGIN", "LOGIN_LOGOUT"} -> "kLoginLogout"
      [] type \in {"LW_SESSION_LOGIN", "LW_SESSION_LOGOUT", "LW_SESSION_LOCK",
                   "LW_SESSION_UNLOCK"} -> "kLoginWindowSession"
      [] type \in {"SCREENSHARING_ATTACH", "SCREENSHARING_DETACH"} -> "kScreenSharing"
      [] type \in {"OPENSSH_LOGIN", "OPENSSH_LOGOUT"} -> "kOpenSSH"
      [] type \in {"BTM_LAUNCH_ITEM_ADD", "BTM_LAUNCH_ITEM_REMOVE"} -> "kLaunchItem"
      [] type \in {"XP_MALWARE_DETECTED", "XP_MALWARE_REMEDIATED"} -> "kXProtect"
      [] type = "GATEKEEPER_USER_OVERRIDE" -> "kGatekeeperOverride"
      [] type = "TCC_MODIFY" -> "kTCCModification"
      [] OTHER -> "kNone"

(* Whatever the recorder subscribes to can be enriched (otherwise santad     *)
(* exits) and has a bit of its own (otherwise no mask could leave it out).   *)
ASSUME TablesAssumption ==
    /\ EventTypes \subseteq Subscribed
    /\ Subscribed \subseteq Enrichable
    /\ \A t \in Subscribed : ESEventToTelemetryEvent(t) \in TelemetryEvents \ {"kNone"}
    /\ Programs \subseteq Files
    /\ \A mask \in Masks : mask \subseteq TelemetryEvents

ASSUME BoundsAssumption ==
    /\ MaxEvents \in Nat /\ MaxChanges \in Nat
    /\ IgnoreOtherESClients \in BOOLEAN

-----------------------------------------------------------------------------
VARIABLES
    seq,        \* kernel: per type, the next sequence number
    lostClose,  \* programs with a close that was not delivered, or ignored
    handler,    \* the handler's step and event
    tasks,      \* blocks of the notify queue: enriched messages being logged
    refs,       \* per message, its retain count in Endpoint Security
    received,   \* per type, messages that the handler got
    ignored,    \* messages that are not counted on purpose
    dropCache,  \* drop_cache_: per type and globally, next_seq_num and drops
    counts,     \* event_counts_cache_, the sum over types
    exported,   \* what the metric service was told: drops and counts
    mask,       \* telemetry_mask_
    machine,    \* EnableMachineIDDecoration and MachineID, and what a serializer has of them
    directory,  \* the user and the group directory: the name of the one id
    names,      \* username_cache_ and groupname_cache_
    given,      \* names that the directories have ever had
    auth,       \* AuthResultCache: "none", "fresh", or "old" when the file changed since
    decisions,  \* SNTDecisionCache: 0, or the number of the decision
    made,       \* per file, the number of its last decision
    cleared,    \* programs whose decision was cleared from the full cache
    backfill,   \* the file that the backfill found without a decision, if any
    changes     \* what is left of MaxChanges

kernelVars == <<seq, lostClose>>
metricVars == <<received, ignored, dropCache, counts, exported>>
nameVars == <<directory, names, given>>
decisionVars == <<auth, decisions, made, cleared, backfill>>
vars == <<kernelVars, handler, tasks, refs, metricVars, mask, machine, nameVars, decisionVars, changes>>

Init ==
    /\ seq = [t \in EventTypes \cup {"LAST"} |-> 0]
    /\ lostClose = {}
    /\ handler = [step |-> "idle"]
    /\ tasks = {}
    /\ refs = [n \in 1..MaxEvents |-> 0]
    /\ received = seq /\ ignored = 0
    /\ dropCache = [t \in EventTypes \cup {"LAST"} |-> [next_seq_num |-> 0, drops |-> 0]]
    /\ counts = [processed |-> 0, dropped |-> 0]
    /\ exported = [drops |-> seq, processed |-> 0, dropped |-> 0]
    /\ mask \in Masks
    /\ machine = [wanted |-> None, previous |-> None, updating |-> FALSE, enabled |-> FALSE, id |-> ""]
    /\ directory = [k \in {"user", "group"} |-> None] /\ names = directory
    /\ given = [k \in {"user", "group"} |-> {}]
    /\ auth = [f \in Programs |-> "none"]
    /\ decisions = [f \in Programs |-> 0] /\ made = decisions
    /\ cleared = {} /\ backfill = {}
    /\ changes = MaxChanges

Change == changes > 0 /\ changes' = changes - 1

-----------------------------------------------------------------------------
(* The kernel.  Sequence numbers count per type and over all types; an event *)
(* may be dropped.                                                           *)
Count(type) == seq' = [seq EXCEPT ![type] = @ + 1, !["LAST"] = @ + 1]

\* A file whose contents changed: what was answered for it is out of date.
Written(f) == [g \in Programs |-> IF g = f /\ auth[g] # "none" THEN "old" ELSE auth[g]]

\* The old answer for it stays.
MissClose(f) == lostClose' = lostClose \cup {g \in Programs : g = f /\ auth'[g] = "old"}

LoseEvent(type) ==
    /\ seq["LAST"] < MaxEvents
    /\ Count(type)
    /\ IF type = "CLOSE"
       THEN \E f \in Files : auth' = Written(f) /\ MissClose(f)
       ELSE UNCHANGED <<lostClose, auth>>
    /\ UNCHANGED <<handler, tasks, refs, metricVars, mask, machine, nameVars, decisions, made, cleared,
                   backfill, changes>>

(* The exec authorizer evaluates a program.                                  *)
Evaluate(f) ==
    /\ MapThenSumSet(LAMBDA g : made[g], Programs) < MaxEvaluations
    /\ made' = [made EXCEPT ![f] = @ + 1]
    /\ decisions' = [decisions EXCEPT ![f] = made'[f]]
    /\ auth' = [auth EXCEPT ![f] = "fresh"]
    /\ UNCHANGED <<kernelVars, handler, tasks, refs, metricVars, mask, machine, nameVars, cleared, backfill,
                   changes>>

(* A decision about some other program finds SNTDecisionCache at its limit:  *)
(* SantaCache clears it first.                                               *)
EvaluateOther ==
    /\ Change
    /\ decisions' = [f \in Programs |-> 0]
    /\ cleared' = cleared \cup {f \in Programs : decisions[f] # 0}
    /\ UNCHANGED <<kernelVars, handler, tasks, refs, metricVars, mask, machine, nameVars, auth, made, backfill>>

-----------------------------------------------------------------------------
(* Metrics.                                                                  *)

UpdateEventStats(type) ==
    LET stats(k) ==
            [next_seq_num |-> seq[k] + 1,
             drops |-> dropCache[k].drops + (seq[k] - dropCache[k].next_seq_num)]
    IN  dropCache' = [k \in DOMAIN dropCache |->
                        IF k \in {type, "LAST"} THEN stats(k) ELSE dropCache[k]]

SetEventMetrics(disposition) == counts' = [counts EXCEPT ![disposition] = @ + 1]

(* Mutant of FlushedDrops: the sequence numbers are reset too.               *)
FlushedAll == [k \in DOMAIN dropCache |-> [next_seq_num |-> 0, drops |-> 0]]

(* Sequence numbers stay.                                                    *)
FlushedDrops == [k \in DOMAIN dropCache |-> [dropCache[k] EXCEPT !.drops = 0]]

(* The counts are passed on and reset.  The timer, and the settings that     *)
(* start and stop it, only choose when.                                      *)
FlushMetrics ==
    /\ Change
    /\ exported' = [drops |-> [k \in DOMAIN dropCache |-> exported.drops[k] + dropCache[k].drops],
                    processed |-> exported.processed + counts.processed,
                    dropped |-> exported.dropped + counts.dropped]
    /\ counts' = [processed |-> 0, dropped |-> 0]
    /\ dropCache' = FlushedDrops
    /\ UNCHANGED <<kernelVars, handler, tasks, refs, received, ignored, mask, machine, nameVars, decisionVars>>

-----------------------------------------------------------------------------
(* The handler.                                                              *)

Retain(n, count) == refs' = [refs EXCEPT ![n] = @ + count]

(* The file that an event is about, if any.                                  *)
About(type) == IF type \in FileEvents THEN Files ELSE IF type = "EXEC" THEN Programs ELSE {None}

(* An event arrives: its sequence number is looked at, the message is        *)
(* retained by the callback, and by the block that records metrics.          *)
Receive(type) ==
    /\ handler.step = "idle" /\ seq["LAST"] < MaxEvents
    /\ Count(type)
    /\ received' = [received EXCEPT ![type] = @ + 1, !["LAST"] = @ + 1]
    /\ UpdateEventStats(type)
    /\ Retain(received'["LAST"], 2)
    /\ \E f \in About(type), special \in BOOLEAN :
        /\ type \notin {"CLOSE", "AUTHENTICATION"} => ~special
        \* special: a modified file, or an authentication of an unknown kind
        /\ auth' = IF type = "CLOSE" /\ special THEN Written(f) ELSE auth
        /\ handler' = [step |-> "filter", type |-> type, file |-> f, special |-> special,
                       n |-> received'["LAST"], due |-> IF f \in Programs THEN made[f] ELSE 0]
    /\ UNCHANGED <<lostClose, tasks, ignored, counts, exported, mask, machine, nameVars, decisions, made,
                   cleared, backfill, changes>>

(* The handler returns without passing the message on.                       *)
Return ==
    /\ handler' = [step |-> "idle"]
    /\ Retain(handler.n, -2)

ShouldLog(type) == {ESEventToTelemetryEvent(type)} \ {"kNone"} \subseteq mask

RemoveFromCache(f) == auth' = [g \in Programs |-> IF g = f THEN "none" ELSE auth[g]]

(* The tree of prefixes is filled once, at start-up.                         *)
FilterTree ==
    FoldSet(LAMBDA p, t : InsertPrefix(t, p, "unit"), EmptyTree,
            {<<"/", ".">>, <<"/", "d", "e", "v", "/">>} \cup PrefixFilters)

Unchanged(e) == e.type = "CLOSE" /\ ~e.special
Unmatched(e) == e.type \in FileEvents /\ e.file \notin RegexMatches
Filtered(e) == e.type \in FileEvents /\ HasPrefixLocked(FilterTree, e.file)

(* Mutant of Invalidate: after the mask was looked at.                       *)
InvalidateLogged(e) ==
    IF e.type = "CLOSE" /\ e.special /\ ShouldLog(e.type) THEN RemoveFromCache(e.file) ELSE UNCHANGED auth

Invalidate(e) == IF e.type = "CLOSE" /\ e.special THEN RemoveFromCache(e.file) ELSE UNCHANGED auth

(* Whatever a client of Endpoint Security does may be ignored: it is dropped *)
(* before handleMessage, and a file that it modified stays in the cache of   *)
(* answers.  Whether the process is such a client is left open.              *)
IgnoreMessage ==
    /\ handler.step = "filter" /\ IgnoreOtherESClients
    /\ Return
    /\ SetEventMetrics("dropped")
    /\ UNCHANGED auth
    /\ IF handler.type = "CLOSE" /\ handler.special THEN MissClose(handler.file) ELSE UNCHANGED lostClose
    /\ UNCHANGED <<seq, tasks, received, ignored, dropCache, exported, mask, machine, nameVars, decisions, made,
                   cleared, backfill, changes>>

(* handleMessage up to the enrichment.  A close of a file that was not       *)
(* modified, and a change of a file that the expression does not match, are  *)
(* not counted; what the mask or a prefix leaves out is counted as dropped.  *)
(* A modified file leaves the cache of answers whatever the mask says.       *)
Filter ==
    LET e == handler
    IN  /\ e.step = "filter"
        /\ Invalidate(e)
        /\ \/ /\ Unchanged(e) \/ (ShouldLog(e.type) /\ Unmatched(e))
              /\ Return
              /\ ignored' = ignored + 1 /\ UNCHANGED counts
           \/ /\ ~Unchanged(e)
              /\ ~ShouldLog(e.type) \/ (~Unmatched(e) /\ Filtered(e))
              /\ Return
              /\ SetEventMetrics("dropped") /\ UNCHANGED ignored
           \/ /\ ~Unchanged(e) /\ ShouldLog(e.type) /\ ~Unmatched(e) /\ ~Filtered(e)
              /\ handler' = [handler EXCEPT !.step = "enrich"]
              /\ UNCHANGED <<refs, ignored, counts>>
        /\ UNCHANGED <<kernelVars, tasks, received, dropCache, exported, mask, machine, nameVars, decisions, made,
                       cleared, backfill, changes>>

(* UsernameForUID and UsernameForGID: the cached name, or the directory's.   *)
(* Only a name that was found is cached.                                     *)
NameFor(kind) == IF names[kind] # None THEN names[kind] ELSE directory[kind]

\* Every event names the user and the group of the process that caused it.
NewNames == [k \in DOMAIN names |-> NameFor(k)]

InForce == {machine.wanted} \cup (IF machine.updating THEN {machine.previous} ELSE {})

(* Mutant of HandOver: the message that was moved is released as well.       *)
ReleaseMoved(n) == Retain(n, -2 + 1)

(* The enriched message takes the callback's message over; the block retains *)
(* one of its own, and the handler's block releases its.                     *)
HandOver(n) == Retain(n, -1 + 1)

(* The event is enriched and left to the notify queue.  An authentication of *)
(* a kind that the build does not know is dropped.                           *)
Enrich ==
    /\ handler.step = "enrich"
    /\ IF handler.special /\ handler.type = "AUTHENTICATION"
       THEN /\ Return /\ SetEventMetrics("dropped") /\ UNCHANGED <<tasks, names>>
       ELSE /\ names' = NewNames
            /\ tasks' = tasks \cup
                    {[n |-> handler.n, type |-> handler.type, file |-> handler.file, due |-> handler.due,
                      step |-> "queued", names |-> NewNames, had |-> directory,
                      decision |-> 0, id |-> None, ids |-> {}]}
            /\ handler' = [step |-> "idle"]
            /\ HandOver(handler.n)
            /\ UNCHANGED counts
    /\ UNCHANGED <<kernelVars, received, ignored, dropCache, exported, mask, machine, directory, given,
                   decisionVars, changes>>

-----------------------------------------------------------------------------
(* A block of the notify queue: Logger::Log and the serializer.              *)

Advance(t, u) == tasks' = (tasks \ {t}) \cup {u}

(* The block ends: it counts the event and its messages are released.        *)
Finish(t) ==
    /\ tasks' = tasks \ {t}
    /\ SetEventMetrics("processed")
    /\ Retain(t.n, -2)

(* The mask is looked at again: an event that it leaves out by now counts as *)
(* processed all the same.                                                   *)
Log(t) ==
    /\ t.step = "queued"
    /\ IF ShouldLog(t.type)
       THEN /\ Advance(t, [t EXCEPT !.step = "decision", !.ids = InForce])
            /\ UNCHANGED <<refs, counts>>
       ELSE Finish(t)
    /\ UNCHANGED <<kernelVars, handler, received, ignored, dropCache, exported, mask, machine, nameVars,
                   decisionVars, changes>>

(* SerializeMessageTemplate: an exec record gets the decision that is cached *)
(* for the file by now.                                                      *)
LookUpDecision(t) ==
    /\ t.step = "decision"
    /\ Advance(t, [t EXCEPT !.step = "decorate", !.decision = IF t.type = "EXEC" THEN decisions[t.file] ELSE 0])
    /\ UNCHANGED <<kernelVars, handler, refs, metricVars, mask, machine, nameVars, decisionVars, changes>>

EnableMachineIDDecoration(t) ==
    /\ t.step = "decorate"
    /\ Advance(t, [t EXCEPT !.step = IF machine.enabled THEN "id" ELSE "write"])
    /\ UNCHANGED <<kernelVars, handler, refs, metricVars, mask, machine, nameVars, decisionVars, changes>>

MachineID(t) ==
    /\ t.step = "id"
    /\ Advance(t, [t EXCEPT !.step = "write", !.id = machine.id])
    /\ UNCHANGED <<kernelVars, handler, refs, metricVars, mask, machine, nameVars, decisionVars, changes>>

Write(t) ==
    /\ t.step = "write"
    /\ Finish(t)
    /\ UNCHANGED <<kernelVars, handler, received, ignored, dropCache, exported, mask, machine, nameVars,
                   decisionVars, changes>>

-----------------------------------------------------------------------------
(* What changes meanwhile.                                                   *)

SetTelemetryMask(m) ==
    /\ Change
    /\ m # mask /\ mask' = m
    /\ UNCHANGED <<kernelVars, handler, tasks, refs, metricVars, machine, nameVars, decisionVars>>

(* Mutant of StoreMachineID: the flag is stored first.                       *)
StoreFlagFirst(id) == [machine EXCEPT !.enabled = (id # None)]

(* UpdateMachineID: the ID is stored, then the flag.                         *)
StoreMachineID(id) == [machine EXCEPT !.id = IF id = None THEN @ ELSE id]

ChangeMachineID(id) ==
    /\ Change
    /\ ~machine.updating /\ id # machine.wanted
    /\ machine' = [StoreMachineID(id) EXCEPT !.wanted = id, !.previous = machine.wanted, !.updating = TRUE]
    /\ tasks' = {[t EXCEPT !.ids = IF t.step = "queued" THEN {} ELSE @ \cup {id}] : t \in tasks}
    /\ UNCHANGED <<kernelVars, handler, refs, metricVars, mask, nameVars, decisionVars>>

StoreEnabled ==
    /\ machine.updating
    /\ machine' = [machine EXCEPT !.updating = FALSE, !.enabled = (machine.wanted # None)]
    /\ UNCHANGED <<kernelVars, handler, tasks, refs, metricVars, mask, nameVars, decisionVars, changes>>

(* A user or group is created, renamed or removed.                           *)
ChangeDirectory(kind, name) ==
    /\ Change
    /\ name # directory[kind]
    /\ directory' = [directory EXCEPT ![kind] = name]
    /\ given' = [given EXCEPT ![kind] = IF name = None THEN @ ELSE @ \cup {name}]
    /\ UNCHANGED <<kernelVars, handler, tasks, refs, metricVars, mask, machine, names, decisionVars>>

(* The backfill of decisions for processes that run already: a pseudo        *)
(* decision (-1) for a file that has none, set only if it still has none.    *)
BackfillFind(f) ==
    /\ backfill = {} /\ decisions[f] = 0
    /\ backfill' = {f}
    /\ UNCHANGED <<kernelVars, handler, tasks, refs, metricVars, mask, machine, nameVars, auth, decisions, made,
                   cleared, changes>>

cacheDecisionIfNotSet(f) == decisions' = [decisions EXCEPT ![f] = IF @ = 0 THEN -1 ELSE @]

BackfillStore ==
    /\ \E f \in backfill : cacheDecisionIfNotSet(f)
    /\ backfill' = {}
    /\ UNCHANGED <<kernelVars, handler, tasks, refs, metricVars, mask, machine, nameVars, auth, made, cleared,
                   changes>>

-----------------------------------------------------------------------------
Block(t) ==
    \/ Log(t) \/ LookUpDecision(t) \/ EnableMachineIDDecoration(t) \/ MachineID(t) \/ Write(t)

Next ==
    \/ \E type \in EventTypes : LoseEvent(type) \/ Receive(type)
    \/ IgnoreMessage \/ Filter \/ Enrich
    \/ \E t \in tasks : Block(t)
    \/ FlushMetrics
    \/ \E f \in Programs : Evaluate(f) \/ BackfillFind(f)
    \/ EvaluateOther
    \/ BackfillStore
    \/ \E m \in Masks : SetTelemetryMask(m)
    \/ \E id \in {None, "a", "b"} : ChangeMachineID(id)
    \/ StoreEnabled
    \/ \E kind \in {"user", "group"}, name \in {None, "n"} : ChangeDirectory(kind, name)

Spec == Init /\ [][Next]_vars

-----------------------------------------------------------------------------
(* Types.                                                                    *)
TypeOK ==
    /\ handler.step \in {"idle", "filter", "enrich"}
    /\ \A t \in tasks : t.step \in {"queued", "decision", "decorate", "id", "write"}
    /\ refs \in [1..MaxEvents -> Nat]
    /\ mask \in Masks
    /\ names \in [{"user", "group"} -> {None, "n"}]
    /\ auth \in [Programs -> {"none", "fresh", "old"}]
    /\ changes \in 0..MaxChanges

(* A message is retained while the handler or a block holds it, once for     *)
(* each holder, and released when they end, on every path                    *)
(* (Message.mm, the moves and copies in the client and the recorder).        *)
MessagesOwned ==
    \A n \in 1..MaxEvents :
        refs[n] = IF (handler.step # "idle" /\ handler.n = n) \/ \E t \in tasks : t.n = n THEN 2 ELSE 0

(* Every event that was lost before the last one that arrived is reported,   *)
(* per type and over all types, exactly once, across flushes                 *)
(* (Metrics::UpdateEventStats and FlushMetrics).                             *)
DropsCounted ==
    \A k \in DOMAIN seq :
        exported.drops[k] + dropCache[k].drops = dropCache[k].next_seq_num - received[k]

(* Every event is counted once: one that was lost as above, one that arrived *)
(* as processed, as dropped or on purpose not at all, or it is on its way.   *)
EventsCounted ==
    /\ DropsCounted
    /\ received["LAST"] =
          exported.processed + exported.dropped + counts.processed + counts.dropped + ignored
          + Cardinality(tasks) + (IF handler.step = "idle" THEN 0 ELSE 1)

(* Once the handler has seen that a file was modified, no answer from before *)
(* is left in the cache, whatever the mask leaves out; only a close that the *)
(* kernel did not deliver, or that another client of Endpoint Security made  *)
(* and the settings ignore, leaves one (SNTEndpointSecurityRecorder.mm:114). *)
StaleAnswersGo ==
    \A f \in Programs :
        auth[f] = "old" => \/ f \in lostClose
                           \/ handler.step = "filter" /\ handler.type = "CLOSE" /\ handler.file = f

(* A record has the name that the directory once had for the id; it lacks    *)
(* one only if the directory had none when the event was enriched: a failed  *)
(* lookup is not remembered (Enricher.mm).                                   *)
NamesJustified ==
    \A t \in tasks, k \in {"user", "group"} :
        IF t.names[k] = None THEN t.had[k] = None ELSE t.names[k] \in given[k]

(* A record is decorated with an ID that was in force while it was           *)
(* serialized, and left plain only if decoration was off at some time        *)
(* meanwhile, although flag and ID are two atomics (Serializer.mm:47).       *)
DecorationInForce == \A t \in tasks : t.step = "write" => t.id \in t.ids

(* The record of an exec has a decision about the file that is no older than *)
(* the one that let it run: the backfill does not replace a real one.  Only  *)
(* a cache that became full may have lost it, to no decision or to a pseudo  *)
(* one.                                                                      *)
DecisionCurrent ==
    \A t \in tasks :
        t.step \in {"decorate", "id", "write"} /\ t.type = "EXEC" /\ t.due > 0 =>
            t.decision >= t.due \/ (t.decision <= 0 /\ t.file \in cleared)

(* What a record says was true while it was made, although names, machine ID *)
(* and decision come from three caches that others write meanwhile.          *)
RecordsJustified == NamesJustified /\ DecorationInForce /\ DecisionCurrent
=============================================================================
