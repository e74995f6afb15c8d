# Santa in TLA+

This directory specifies the parts of Santa whose correctness depends on the order in
which concurrent things happen: the decision caches and the authorization of
executions, the rule database and what it has to invalidate, the prompts that hold a
process until a user answers, file access rules and the clients that enforce them,
Temporary Monitor Mode, the process tree, the sync service and the settings it brings,
and telemetry from an event to the exported file. TLC checks each specification on small
instances; TLAPS proves the properties that matter most for every value of the constants.

Contents: [the system](#the-system) · [modules](#modules-and-code) ·
[runs](#runs) · [fairness](#fairness) · [proofs](#proofs) ·
[disagreements](#disagreements-between-code-and-comments) ·
[not modelled](#not-modelled) · [plan](#plan)

## The system

Santa consists of a daemon and its helpers. `santad` is a client (several clients, in
fact) of macOS's Endpoint Security framework (ES). ES sends an AUTH message for every
execution and for file accesses; `santad` must answer each before a deadline.
`santasyncservice` talks to a sync server and brings rules, settings and events across;
the GUI shows what was blocked and asks the user; `santactl` is the command line.

| Component | State | Operations | Hard because |
|---|---|---|---|
| `SantaCache` (common/SantaCache.h) | buckets with a lock bit each, `count_`, `clear_bucket_` | get, contains, set, compare-and-swap set, update, remove, foreach, clear, bucket_counts | lock per bucket, purge of a full table while others insert |
| Exec authorizer and ES client | a handler per message, two semaphores per message | processMessage, postAction, respond, the deadline block | handlers poll each other's requests; the deadline answers while the handler still decides |
| `AuthResultCache` | two SantaCaches (root, other devices) of actions, the queue that clears ES's cache | AddToCache, CheckCache, RemoveFromCache, FlushCache | entries are a state machine driven by compare-and-swap; flushes race with decisions |
| Execution controller | processes on hold, `procSignalCache`, suspended processes | validateExecEvent, reply block, validateSuspendResumeEvent, standalone rules | hold, suspend, allow, ask, resume or kill, across threads and users |
| Rule table | execution rules, file access rules, static rules, cached hashes, transitive timestamps | add with cleanup, look up, should-flush check, cull, renew | several writers; caches elsewhere depend on it |
| Compiler controller | fake decisions for files being closed | createTransitiveRule | check-then-insert on a shared table |
| Notification queue | ring buffer, `sentToUser`, the GUI's connection | addEvent, flush, setNotifierConnection, invalidation, replies | the GUI comes, goes and crashes; a lost reply leaves a process suspended |
| GUI notification manager | list of windows, silences | queueMessage, windowDidClose | drops duplicates and silenced messages that may carry a reply block |
| File access watch items | three sources, current rules, queue of client updates | SetDBRules, SetConfig, SetConfigPath, OnTimer, UpdateCurrentState | reads outside the lock, callbacks on a queue, a periodic reload |
| Temporary Monitor Mode | the saved session, a timer, a UUID, the mode itself | RequestMinutes, Cancel, Revoke, SecondsRemaining, OnTimer, start-up | a lock and a dispatch queue taken in both orders; restarts; a dialog in the middle |
| File access authorizers, FAA policy processor | per-process policies, reads cache, watched processes, a window of logs | probe, handleMessage, processMessage, ProcessMessage, enable, disable | lookups on a concurrent queue against rules that change; processes that fork and exec meanwhile |
| Set cache, prefix tree, rate limiter | sets per process, a tree of paths, a counter and the end of its window | set, contains, insert, lookup, prune, Decide, ModifySettings | limits: full caches, depth, a window that restarts |
| Process tree | processes, reference counts, seen timestamps, removals that are due | BackfillInsert, HandleFork, HandleExec, HandleExit, Step, retain and release | ES delivers events of unrelated processes in any order; tokens end on any thread |
| Configurator | forced configuration of each process, the sync server's state in memory and on disk | setters, observers, reading back at start | writes are queued on the main queue and saved whole; two processes see a profile change at different times |
| Sync manager, stages, `SNTSyncdQueue` | timers, a limiter, XSRF token, connection, the event database | full sync, rule sync, push sync, event upload, connect and disconnect | overlapping syncs, timeouts, lost connections, cleaning that must not be forgotten |
| Recorder, enricher, metrics, serializers | mask, user names, sequence numbers, machine ID, decisions | handleMessage, enrich, log, flush, backfill | a serial handler, a concurrent queue behind it, and caches others write |
| Spool and telemetry export | batch, estimate of the directory, files handed out, export timer | Write, Flush, NextFileToExport, FilesExported, ExportTelemetry | export timeout racing a late reply; crashes and file system errors between two steps |
| The rest | see `PROJECT.json` | | parsers, formatting, wrappers of operating system calls |

The components interact as follows. The authorizer consults `AuthResultCache` (over
`SantaCache`), asks the execution controller for a decision (which asks the policy
processor, which asks the rule table), stores the result and answers ES. A decision that
needs the user suspends the process and goes through the notification queue to the GUI,
whose answer resumes or kills the process, may add a rule, and removes the Hold entry.
Rule changes come from the sync service, `santactl`, static rules and compilers; whoever
changes rules has to flush the caches. Configuration changes reach the components by
key-value observers in `Santad.mm`. File access rules go from the rule table or the
configuration to the watch items and from there to two further ES clients, which ask the
policy processor about each access. The recorder is one more ES client: it invalidates
the result cache when a file is modified, feeds the compiler controller, and writes
records to the spool, from which the logger exports files through the sync service.
`SNTSyncdQueue` keeps the connection to the sync service, posts events at once and
leaves the others to the next sync.

What makes each part correct:

* the table never hands out freed entries, its count is exact, every call returns, and
  it behaves like an atomic map while it is not full;
* a request or a hold in the cache always belongs to somebody who will replace it;
  a held process does not run before it is approved; caches hold no decision older than
  the last flush; ES caches only decisions that hold for every process;
* the hash of the rules that the server compares describes the database; a cached allow
  is one that the rules still justify;
* every process that waits for a user is answered, whatever happens to the GUI;
* the rules of the database win over the configuration, the clients watch exactly the
  paths of the current rules, and overtaken reloads are repaired;
* a monitor mode session ends, is saved while and only while it runs, is audited, and
  does not survive its revocation;
* a file access is answered by rules in force while it was under way; a process that the
  rules watch stays watched across forks and evictions; the limiter never stops
  reopening its window;
* the process tree applies every event that is not too late, evicts no process that a
  late event may still name, and hands originators down;
* an event leaves the database only after it was sent, cleaning that somebody asked for
  is done before it is forgotten, settings survive a crash, and the service comes back;
* a telemetry record is lost only to a failure, one batch at most for each; a file is
  removed only after it was exported; every export ends;
* a message is released exactly once, lost events are counted exactly once, and a record
  says what was true while it was made.

## Modules and code

`PROJECT.json` maps every definition to the lines it stands for. Mutants (definitions
named after the one they change, each with a comment that starts with "Mutant of") are
used only to show that each property can fail; no specification uses them.

### SantaCache, AtomicMap, SantaCacheHistory, SantaCacheProofs

`SantaCache` models `common/SantaCache.h` at the granularity of its locks. `chain` maps a
bucket to its list, `lock` to the thread that holds bit 7 of its head, `clearLock` is
`clear_bucket_`, `count` is `count_`; `freed` marks buckets whose entries `clear()` deleted
but whose head it has not zeroed. A thread's `pc` names the point in the code, `idx` the
loop index of `clear` and `foreach`, `ret` the result. A set on a full table takes several
steps: `SetAbsent` (unlock), `LockClear`, `Recheck`, `ClearBucket` for each bucket,
`ClearCount`, `ZeroBucket` for each bucket, `Relock`, `Insert`. `remove` is a set of the
zero value, as in the code. The hash function is a constant.

`AtomicMap` is the abstract specification: a map that each operation reads or changes at
one instant between its begin and its end. `SantaCacheHistory` states the refinement,
`ImplementsUntilFull`, with `AbsMap` as mapping (a clear takes effect when it resets
`count_`) and a history variable, `full`, that becomes true when a set finds as many
keys in the table as it may hold. Up to then every step of the table is a step of the
atomic map, results included; in particular no purge comes early, which it would if
`count_` drifted. Afterwards the map promises less (see the disagreements).

### ExecAuth, ExecAuthProofs

One execution is one process and one AUTH_EXEC message. `cache` is the action in
`AuthResultCache` together with the execution that stored it (the code stores no owner; it
is there for the properties), `esCache` is ES's own cache, `pc` the point in the handler,
`timer` the two semaphores of the deadline block, `prompt` the progress of the reply block,
`signal` is `procSignalCache`. The rule of an executable stands for the policy processor's
verdict: plain allow, compiler, deny, a CEL rule that depends on the arguments, unknown in
standalone mode (ask), a rule that requires Touch ID. A client's call is `CheckRules`, which
asks whether the caches have to be flushed, `CommitRules`, which adds the rule, and
`FlushCache`, which clears the two local caches one after the other and queues the clearing
of the ES cache; calls overlap freely (`change` says where each one is). Operations on the
cache are single steps here, which is what `ImplementsUntilFull` justifies while the table
is not full.

`Suspend` may fail: nobody looks at the result of `pid_suspend`. The resume by another
process is two steps: `AnswerResume` looks at `signal` and permits it, which `resume`
remembers, and `ResumeProcess` is the kernel's resume, some time later. `IgnoreMessage` is
`shouldHandleMessage:`, by which a client allows another ES client's execution without a
decision, and lets ES cache that.

`seen`, `flushed`, `esFlushed`, `raced` and `loose` are history variables: they record policy
versions, and the processes that were to be stopped and are not, and change nothing.

### RuleTable (proofs in RuleProofs)

Slots (`Keys`) stand for identifier and type; `IdsOf` lists an executable's slots from the
most specific to the least. A transaction is a step, as SQLite and the table's
queue guarantee; between the steps of `databaseRuleAdd...` (`CheckFlush`, `AddRules` or
`RollBack`, `RemoveOutdated` or `SkipCulling`, `FlushCache`) everybody else runs.
`closer` follows `createTransitiveRule`. An execution is one step, because `ExecAuth`
looks inside it. Two hash inputs are equal exactly if the rules are.

### NotificationQueue (proofs in ExecAuthProofs)

`pending` is the ring buffer, `sent` is `sentToUser`, `conn` the current connection,
`handler` the connections whose invalidation handler is set. The three statements of
`setNotifierConnection:` are three steps, since two GUIs may call it at once; blocks on
`pendingQueue` are single steps. `inbox` and `windows` are the GUI's side. `calls`
records the calls of each reply block. `Unasking` is the loop of `remove_if` that takes
the notifications with a reply block out of the ring buffer.

### WatchItems (proofs in RuleProofs)

`source`, `embedded`, `path` are `data_source_`, `embedded_config_`, `config_path_`;
`current` and `data` the rules in force and their paths; `queue` the blocks on `q_`;
`subscribed`, `watched`, `procEnabled` the two ES clients. A dictionary is a model value
with the paths it names; `onDisk` is what globs can match. Setters release the lock
before they reload, and `embedded_config_` is read again without it (`ReadEmbedded`).
Subscribing and unsubscribing may fail (`Subscribe`). `overlapped` and `failed` are history
variables.

### TemporaryMonitorMode, TemporaryMonitorModeProofs

`lock` is `lock_`; the timer's queue is busy exactly while `callback` is under way. A call
that needs the queue waits in `pc = "timer"`. `saved` survives `Restart`, which models
`SetupFromState` for a restart or a reboot with the deadline far away, near or past.
Durations are left out, so the timer may fire at any moment. Audit events are counted
per session.

### FileAccess, PrefixTree, FileAccessProofs

`PrefixTree` is the tree of watched paths: a node is named by the string that leads to
it, so that insertion, lookup of the longest match and the counter that `PruneLocked`
sizes its stack with are operators on a function. `FileAccess` extends it. `rules` is the
history of loaded dictionaries, the last one in force; `told` is the version the process
client was last told of, on the watch items' queue (`blocks`, `block`). An access goes
through `op[client][process]`: the ES handler asks the reads cache
(`ImmediateResponse`), the concurrent queue looks the policy up, applies it, and the
answer is given, each as a step. `handler` and `probe` are the process client's two ways
to find a policy: for a fork, and for the exec authorizer. A policy applies to a process
by path, team, signing ID and platform, and its decision follows `ApplyPolicy` with the
override of the configuration and, for a process with a broken signature, with the
protection against those (`protect`). `limiter` has the window of logs. The reads cache is
cleared for one process when its set is full, and for all when it holds too many processes
(`AddReads`). A deadline may answer an access before its handler does (`DeadlineResponds`,
`expired`), and an access by another ES client may be allowed without a look at the rules
(`IgnoreMessage`). Loading (`Create`, `Loads`) turns dictionaries into policies and trees, in
every order of the hash table.

### ProcessTree (proofs in TelemetryProofs)

The kernel's side (`kproc`, `alive`, `log`) creates processes and events; `pending` is what
ES has still to deliver, in any order for unrelated processes. `InformTree` is the whole
handler: `Step` decides by `seen` whether the event is new, then the fork, exec or exit is
applied and due removals are carried out; `Remaining` is the loop over `remove_at_` that
keeps those not due. `token` has the processes that each live message retains, `boot` the
two backfills and the subscription. A fork's parent is always in the map when the fork is
applied, so that the entry which `map_[parent]` would make for an unknown one never exists.

### Configurator, Sync, SyncProofs

`Configurator` has both sources of a setting, `configState` (each process reads the profile
for itself) and `syncState` with its `stateFile`; a setter only appends to `mainQueue`, and
the block that runs later changes the state and saves it. Its tables say which of the sync
server's settings a profile may set too, which have a type and survive a restart, and which
are regular expressions. `Sync` extends it with the service, which santad connects to while
there is a server, statistics are collected or telemetry is exported: `run` has the two
threads that can sync at once (the serial queue, and the thread of a push notification),
with the stage, the type and the events of each; `limiter` is `syncLimiter`, `db` the event
table, `posts` the events posted at once. Requests to the server fail or succeed; either
process may crash, a profile may change the server or take it away. `owed` is a history
variable: the cleaning somebody asked for that no sync has performed.

### Recorder, RecorderProofs

Also over `PrefixTree`. `handler` is the serial ES handler, `tasks` the blocks it left to
the concurrent queue, each with what it has put into the record so far; `refs` counts the
retains of each message. `seq` is what the kernel numbers, `dropCache` what `Metrics`
remembers of it, `exported` what was flushed. `machine` has the two atomics of the
machine ID, `names` and `directory` the enricher's cache and what it caches, `decisions`
the decision details, which the exec authorizer and the backfill both write and which are
all cleared when there are too many; `auth` the result cache that the handler invalidates.
An event that another ES client caused may be dropped before the handler sees it
(`IgnoreMessage`). `lostClose` and `cleared` are history variables.

### Spool, TelemetryExport, TelemetryProofs

`Spool` is the writer: a batch (`cache`, `fd`, `acc`), the estimate (`est`, `lastMtime`)
against the directory (`spool`, `mtime`), and the reader's `unacked`. Everything runs on one
serial queue; a block takes several steps, so that a crash or an error can come between
them. The batchers differ in when a file exists. `TelemetryExport` extends it with the
logger's loop: pick files of one type up to a limit, send them, wait for the
acknowledgements or the timeout, hand them back (`tracker`, `acks`). A file's type is told
from its first bytes; one that is empty or without a magic number is unknown. A reply may
come late, in part or never. `received` is what the server has.

## Runs

Deadlock is checked in every run whose system goes on: there a step such as `Finished` or
`QueueQuiet`, which changes nothing, stands for the end of the bounded scenario. It is not
checked for `file_access`, `process_tree`, `process_tokens`, `recorder`, `sync` and
`telemetry`, which just end when their bounds are used up, and for `monitor_mode`, where
the code does deadlock (see below).

| Run | Checks | Instance | Distinct states |
|---|---|---|---|
| `cache` | no use after free, bounded overshoot, termination, an atomic map until full | 2 threads, 3 keys in 2 buckets, capacity 2, 2 operations each | 224 thousand |
| `exec` | ownership of requests and holds, held processes, fresh caches, what ES may cache; every handler returns | 2 executions of one binary, 2 clients that add a rule or flush, fail-open deadlines, 1 ignored ES client | 488 thousand |
| `notify` | no reply is lost, the connection is watched, every question is answered | buffer of 1, 2 notifications of one binary, 2 users' GUIs, overlapping registrations, silences | 368 thousand |
| `rules` | the rules' hash, cached allows | 1 signed binary, arrays of 0 to 2 rules, cleanup, static rules, 1 compiler | 1.6 million |
| `watch_items` | the clients' paths, precedence, repair by the timer | 2 changes among database, key, plist, file, file system, failed calls of ES | 310 thousand |
| `monitor_mode` | an end for every session, saved state, audit, revocation | 2 callers, 2 servers, 2 requests, 2 outside events | 118 thousand |
| `file_access` | answers, watched processes, trees, the limiter | 2 processes, 2 files, 4 kinds of access, 3 dictionaries, caches of 1, 3 inputs, deadlines of both clients | 1.5 million |
| `process_tree` | the window, eviction, originators | window of 2, 4 processes, 6 events | 386 thousand |
| `process_tokens` | (fails) a token retains its processes | window of 1, 3 processes, 4 events | |
| `sync` | the limiter, events, cleaning, settings after a crash; events arrive | 5 settings, 3 profiles, 1 event, 2 disturbances | 660 thousand |
| `recorder` | ownership of messages, counters, invalidation, contents of records | 3 types of events, 3 files, 2 events, 1 evaluation, 2 changes, ignored ES clients | 1.5 million |
| `telemetry` | losses, size of the spool, exported before removed; exports end, records leave | 2 batchers, 3 records, threshold 2, 1 failure, 2 exports | 130 thousand |

Each module also defines `TypeOK` (`QueueTypeOK`, `WatchTypeOK`, `TreeTypeOK`), which says what its variables hold. It is proved for
`ExecAuth`, `NotificationQueue`, `TemporaryMonitorMode` and `Recorder`; it is an invariant
of every instance above, and can be added to any of the configurations.

Why the bounds are enough to be interesting: two threads in the same bucket and in different
ones already give every conflict of two lock holders; a third key overflows a table of two,
with both threads past the size check. Two executions of one binary are one decider and one
poller; one of them has a deadline that may pass, a process that others try to resume and a
probe, the other may be another ES client's (`Slow`, `Targets`, `Probed`, `ByESClients`). One
policy change is enough for a decision to be old, and a second call overlaps it; `Starts`
lists the rules to start with and what the calls do. A buffer of one overflows at
the second notification. Two changes of the file access configuration are enough for one to
overtake the other. Two sessions, with a restart and a change between them, cover refreshes
and resumption. Two processes are a process and what it forks or executes, and caches of one
evict at the second entry. A window of two holds an event that is late by one, and loses one
that is late by two. Two disturbances are enough for a crash in the sync that follows a
failure; the event can be posted at once, uploaded by either thread, or dropped. Two
notifications are one being handled while the other's block runs. Three records fill a batch
and start the next; two exports are one that times out and one that meets its late reply.
What a bound cuts off is mostly repetition of the same races; the theorems below do not have
the bounds.

### What the conditions in the properties say

Several properties name an exception, because the code makes one:

* `SizeBound`: the table may exceed its size by one entry for each other thread.
* `FreshUnlessRaced`: a handler that decided before a flush may store after it (`raced`).
* `HeldUntilApproved`: a daemon that fails open allows the process at the deadline, until
  its handler, still deciding, suspends it; and a process may be `loose`: `pid_suspend`
  failed, or a resume that was permitted before the process was protected, or without a look
  at the protection (by the fail-open deadline, or as the request of an ignored ES client),
  came after it.
* `ESCachesPlainAllows`: the answers for ES clients that are ignored are cached, although
  nothing decided them.
* `CachedAllowsJustified`: culled transitive rules leave their cached results, and rules
  changed between check and transaction may miss their flush.
* `DatabaseWins`: an observer that overlaps the first rule of the database may set its
  own source afterwards.
* `RevokedMeansOver`: a request that is waiting for the user begins its session although
  the policy was revoked meanwhile (`late`).
* `SessionsEndUnlessStuck`: the deadlock of timer and lock.
* `UnsilencedAnswered`: notifications nobody silences, GUIs that register one at a time.
* `ClientsMatch`: after a failed subscription, removing all rules leaves paths watched
  (`failed`).
* `AnswersJustified`: a policy that the process client looked up before it was told of new
  rules and cached afterwards stays (`raced`). The property is about what handlers answer:
  the answers of deadlines, those under the override to disable and those to ES clients that
  are ignored have no rule behind them.
* `WatchKept`: the override to disable makes the client ignore forks and execs, and a
  disable that comes between two changes forgets the watched processes (`missed`).
* `PermitsConserved`: a full sync whose request santad does not acknowledge within its
  timeout returns without giving its place back; the property counts these (`leaked`).
  `EventsArrive` excepts the state in which all places are gone, and an
  expired token, which is not fetched again by a service that has one.
* `EventsKept`: a clean sync may drop events without sending them (`dropped`).
* `LossIsOneBatch`, `ExportEnds` and `RecordsLeave` count the failures of the file system
  (`faults`).
* `StaleAnswersGo`: a close that the kernel dropped, or that was ignored because another ES
  client made it, invalidates nothing (`lostClose`).
* `RecordsJustified`: a cache of decisions that became too full was cleared, so that a record
  may have no decision, or that of the backfill (`cleared`).

## Fairness

Weak fairness is assumed of: a thread that is inside an operation (`SantaCache`, where a
spinning thread keeps trying and lock holders are never blocked), dispatched blocks and
handlers (libdispatch runs what is queued), an armed deadline or timer (libdispatch fires
it), the periodic timers of the watch items and of full syncs. `TelemetryExport` needs
strong fairness of three blocks, flush, pick and acknowledge: they wait for the spool's
serial queue, which is first in, first out, so that a block that was queued runs although
others are queued in between; and a daemon that dereferences a missing stream ends, which
the model says by a fair crash. In `Sync` fairness covers santad's own steps and the
service's timer and serial queue; nothing is assumed of the thread that delivers push
notifications. Requests to the server are not assumed to succeed, but the bound on
disturbances means that they fail only so often.

Nothing is assumed of users, of new executions or events, of expiry, or of restarts — with
one exception: `UnsilencedAnswered` asks what happens when users do answer the windows they
are shown, so `CloseWindow` is weakly fair. For `Termination` weak fairness suffices because
the number of operations is bounded, so no lock is contended forever. `rules`,
`file_access`, `process_tree` and `recorder` check safety only, without fairness.

## Proofs

Every safety invariant and action property that a passing run checks is also a theorem.
All theorems are about a component's `Spec` (for the refinement, `FullSpec`, which adds the
history variable) for arbitrary constants that satisfy the named assumptions. The assumptions
are evaluated by TLC in the runs.

Three proof modules extend two components each: `RuleProofs` also has `WatchItems`,
`ExecAuthProofs` has `NotificationQueue`, and `TelemetryProofs` has `ProcessTree`. The two
specifications share no variables, and the theorems about one use nothing of the other. So
that they can be extended together, the second one's initial states, steps and specification
have names of their own (`WatchSpec`, `QueueSpec`, `TreeSpec`).

* `SantaCacheProofs`. `LockingDiscipline`: `LockInv` is inductive; it says which bucket
  locks each `pc` holds (a range of buckets for `clear` and `foreach`) and that a freed
  bucket is locked by the clear that freed it. `FreedListsUnreachable` (`NoUseAfterFree`)
  follows, as two threads cannot hold one lock. `OvershootBounded` (`SizeBound`): the bound
  is not inductive; `SizeInv` adds the threads that passed the size check and have not
  inserted to the count, and each step either adds nothing to the sum, has just checked the
  size, or turns an announced insertion into an entry. `AtomicUntilFull`
  (`ImplementsUntilFull`) is the refinement of `AtomicMap`, step by step: the invariant
  `Settled` says that every list has distinct keys of its bucket and no zero values, that
  `count_` is the number of keys of the map, that an operation under way has taken no effect
  yet, and that the key a thread is about to insert is absent. The lemmas `Prepended`,
  `Replaced` and `Removed` say what the three changes of a list do to the value of each key;
  `OneKey`, what they do to the map; and each action is then a step of the map or leaves it
  alone. Only the set that finds no room is neither, and it makes `full` true.
* `ExecAuthProofs`. `ExecInv` strengthens the two ownership properties to name the owner
  that the entry records, and `HeldUntilApproved` to the states of prompt, signal,
  suspension and timer at each point of the handler. From it `TypeCorrect`,
  `RequestsAlwaysOwned`, `HoldsAlwaysOwned`, both together (`EntriesAlwaysOwned`), and
  `HeldProcessesWait`. `CachesAlwaysFresh` (`FreshUnlessRaced`) needs `FreshInv`, which
  carries freshness from the decision of a handler to the entry it stores and the answer ES
  caches, and orders the four versions of a flush; `ESAlwaysCachesPlainAllows` follows from
  its part about ES. `NoReplyIsLost` (`NoReplyLost`) is about the notification queue. The
  property alone is not inductive: it does not say that a question has one window, so that
  nobody can take back a decision that santad has not passed on yet. `ReplyInv` has three
  parts: `QueueInv`, what asks is answered, or among what was sent, or its user has just
  decided, and it never stays in the ring buffer between two blocks; `LinkInv`, the current
  connection has an invalidation handler or the registration that made it current will still
  set one; and `HeldRepliesInv`, a notification is with one GUI at most, once, in its inbox
  or its windows, and nobody has replied to it there. The lemmas on `Unasking` say that it
  keeps the order and only what does not ask. `NotificationTypes` follows.
* `RuleProofs`. `HashAlwaysCurrent`: every transaction that changes what is hashed forgets
  the hash; culling does not forget it and need not, because outdated rules are transitive
  (the strengthening says so) and transitive rules are not hashed.
  `CachedAllowsAlwaysJustified`: `FlushInv` adds that an adder that decided not to flush
  carries no cleanup, hence only rules that cannot take an allow away; that no more specific
  rule goes unnoticed is the least index in a binary's slots. `DatabaseAlwaysWins` and
  `ClientsAlwaysMatch` are about the watch items: the invariant `TurnInv` says that as long
  as nobody overlapped, at most one observer or database client is under way, and relates
  its progress to the source that is set. For the clients, blocks overtake nothing on `q_`
  but carry the difference of their own update, so `BlocksInv` says that the last queued
  block that mentions a path has it right, that a path nobody mentions is watched exactly if
  it should be, and that the counts in force are those of the last update.
* `TemporaryMonitorModeProofs`. `ModeInv` combines types, who holds the lock and the queue
  at each step, which session a call names, and what ends a session. From it `TypeCorrect`,
  `SessionsAlwaysHaveEnd`, `SavedAlwaysRunning`, both together (`SessionsAlwaysTracked`),
  and `EventsAlwaysNamed`. `RevokedAlwaysOver` uses `RevokeInv`: a call that began after the
  last revocation saw a policy in force. `AuditAlwaysComplete` uses `AuditInv`: the session
  that is ending was not reported as left, sessions are numbered in the order they were
  asked for, and no two calls ask for one.
* `RecorderProofs`. `MessagesAlwaysOwned`: the holders are counted as a set, and each step
  adds or takes away one of them with its retain or release. `EventsAlwaysCounted` counts
  the tasks and the handler as events on their way. `StaleAnswersAlwaysGo`: an old answer is
  left only while the handler has the close of that file before the filter (`StaleInv`).
  `RecordsAlwaysJustified`: `NamesInv`, `FlagInv`, `DecorationInv` and `DecisionInv`, one
  for each cache that a record reads. And `TypeCorrect`.
* `SyncProofs`. `PermitsAlwaysConserved`: `PermitInv` is an equation, free places plus
  leaked ones plus full syncs queued and running. `EventsAlwaysKept` and
  `RestartAlwaysKeepsSettings` are inductive with types. `CleaningAlwaysKept`: `CleaningInv`
  says that the last update of `SyncTypeRequired` in the queue, or else both memory and
  file, ask for what is owed, and that a sync that has read the setting asks for no less
  until its rules are added.
* `FileAccessProofs`. `AlwaysRateLimited`: `RateInv` relates count, reset and window of the
  limiter. `WatchAlwaysKept`: `KeepInv` adds that the process the handler works on does not
  end meanwhile, that what it is about to store was looked up in rules that are or were in
  force, and that a process with a probe has not started. `TreesAlwaysSound` is a statement
  about the pure operators: trees are built by a fold over any order, so it goes by least
  counterexample on the number of insertions (`WellFoundedInduction` has the least element
  as a theorem without operator parameters). `AnswersAlwaysJustified`: `AnswerInv` says of
  the two caches, of each step of an access, and of what handler and probe carry between
  their lookup and their store, under which rules it was found.
* `TelemetryProofs`. `LossIsAlwaysOneBatch`: `LossInv` adds that a batch holds no more
  records than bytes were accumulated, and that those are within the leniency, so that what
  one error or crash drops is bounded. `SpoolAlwaysBounded`: `SpaceInv` says that the
  estimate is above the limit or covers what is in the directory, and that a file is open
  only if the estimate was below the limit when it was opened.
  `AlwaysExportedBeforeRemoved`: `ExportInv` follows a file through the tracker, the queued
  acknowledgements and the late replies, and says at each place that what is marked as done
  was received or discarded.

  `LaggingClientsMissNothing` (`WindowKept`) and `OriginatorAlwaysInherited` are about the
  process tree, for any window and any order of delivery that ES keeps to. Both come from
  `TreeStateInv`. Its parts: `KernelInv` and `Ordered`, about the kernel's side: what an
  event makes is new, a process that executed or exited does nothing afterwards, and the
  events of one process are delivered in order; `SeenInv`, the window is sorted and holds
  delivered events only; `TreeInv`, a process that left the tree, or is marked to leave it,
  was removed by an event that is older than the whole window (`Old`), and what a pending
  event makes is not in the tree; `Applied` and `Inherited`, the two properties event by
  event. `RefusedIsOld` is the reason that nothing is dropped early: an event that `Step`
  refuses is older than all entries of the window, so that at least as many newer events
  were delivered as the window has places. `WindowSlides`: the first entry of the window
  never goes back, so what is old stays old.

Assumptions on constants that are more than types: `UnambiguousRules` (`FileAccess`) says
that no two rules of a dictionary name one path and that no path is empty or deeper than the
tree; `WatchItems.mm` rejects paths outside `LenRangeValidator(1, PATH_MAX)` (lines 286,
303, 357), the tree's depth is `PATH_MAX` (`PrefixTree.h:42`), and with two rules for one
path the winner is that of the hash table's order, which no statement about the path can
name. The validator counts UTF-16 units and the tree bytes: a path between the two is
outside the theorem. `RulesAssumption` (`RuleTable`) says that the hash rule of a binary is
no other binary's; `KeysAssumption` (`Configurator`) that each setting of the server is asked
for in one order and that patterns have a type; `SyncKeysAssumption` that the settings the
connection depends on and the type of sync that is required are among the keys.

Only model-checked are the liveness properties (`Termination`, `HandlersReturn`,
`UnsilencedAnswered`, `RulesSettle`, `SessionsEndUnlessStuck`, `ExportEnds`, `RecordsLeave`,
`EventsArrive`), as the prover handles no fairness; and that the operators which are
recursive functions compute what the code's loops do, beyond the facts about them that the
proofs need, is seen by comparing the two.

## Disagreements between code and comments

One is demonstrated by a run whose property TLC refutes. `process_tokens`: the comment at
`process_tree.h:158` says that a token "informs the tree to retain those pids in its map so
any call to ProcessTree::Get() during event processing succeeds", but the constructor
(`process_tree.cc:311`) moves the list of processes into its member and then passes the
list it has moved from to `RetainProcess`, so nothing is retained. The run shows a
process leave the tree while the message of its exit is still being processed. (The destructor
does release what the constructor did not retain.)

Others are stated as definitions next to the properties, without a run; TLC refutes each
of them when it is added to a configuration:

* `FlushDropsOldDecisions` (ExecAuth): a decision made before a rule change can be stored after
  the flush that the change caused. The handler evaluates; the rule is committed and
  the caches are flushed; a second handler creates a new RequestBinary entry; the first
  handler's compare-and-swap from RequestBinary succeeds, because all requests have the
  same value. An ALLOW stored this way has no time limit. `UserOverridesNoBlock`: an approval
  replaces a block rule that was added while the prompt was open. `PerProcessNotShared`: a
  denial that depends on arguments is cached for 1.5 seconds. Without its exception `loose`,
  `HeldUntilApproved` is what the comment at `SNTExecutionController.mm:275` says ("Any
  attempts to resume the paused binary outside of the auth flow will be blocked"): a resume
  that was permitted a moment before is carried out afterwards.
* `EveryoneAnswered` (NotificationQueue): the GUI drops a notification for a silenced binary
  without calling its reply block, so the process stays suspended, and further executions
  of the binary are denied by its Hold entry, until the GUI's connection ends.
  `RepliedOnce`: a late reply follows the answer that the end of another connection caused.
* `SessionsEnd` (TemporaryMonitorMode): a call that holds `lock_` waits for the timer's queue
  while the timer's callback, on that queue, waits for `lock_`.
* `SizeEnforced`, `CASSetsOnlyIfEqual` (SantaCache): the class comment's maximum size, and
  compare-and-swap on a full table, which uses its first look at the key after a purge.
* `NewRulesHonored`, `CachedCompilersCurrent`, `TransitiveLeavesRules`, `UsesAreRecorded`
  (RuleTable): races between the flush check, the transaction and transitive rules; a more
  specific allow rule leaves a cached compiler; details stored during a close are forgotten.
* `PlistUsed` (WatchItems): removing FileAccessPolicy does not bring back the plist.

Noted while reading, for whoever works on these files:

* Execution and rules: a reply acts on the decision that opened the prompt
  (`SNTExecutionController.mm:405`); a cached result survives a newer rule that is more
  specific but not of a kind that flushes (`SNTRuleTable.mm:756`).
* `TemporaryMonitorMode.mm:51` gives the timer's bounds in minutes where seconds are
  expected; `BeginLocked` stores the host of a SyncBaseURL that may be nil by then.
* Process tree: the tree is filled twice (`CreateTree` and `main`), and the second pass
  annotates again (`originator.cc:32`); the destructor of a token that was moved from
  uses its null tree (`Message.mm:67`, `78`).
* File access: `disable` of the data client returns early when it is not subscribed, so that
  after a failed subscription the paths of the last rules are still watched when all rules
  are gone; the data client's reads cache is not cleared when rules change; the override
  to disable ignores forks, execs and exits; a path that two rules name belongs to the one
  the hash table yields last; the number of items a block acts on may be that of a later
  update.
* Sync: syncs by push notification run beside the "serial" queue; a token is fetched only
  when there is none (`SNTSyncStage.mm:323`), not when it has expired;
  `DisableUnknownEventUpload` has no type and does not survive a restart; a regular
  expression comes back anchored; the override `AUDIT_ONLY` from a server is ignored; the
  success of a rule sync is recorded as a full sync (`SNTDaemonControlController.mm:410`); a
  CleanAll asked of a machine that never synced is dropped (`SNTSyncPreflight.mm:144`); a
  clean sync that downloads no rules cleans nothing and resets the requirement; the result
  of the event upload is ignored; `clearSyncState` clears memory only; a full sync whose
  acknowledgement times out keeps its place of the limiter (`SNTSyncManager.mm:219`).
* Telemetry: a file that cannot be opened for export is acknowledged, which deletes it
  (`Logger.mm:284`); `CompleteBatch` ignores the status of `WriteBuffer`; the stream batcher
  uses a stream that may not exist after a failed open.

## Not modelled

`PROJECT.json` lists every component with its status and the reason. In short:

* parsers and wrappers of operating system interfaces (code signatures, certificates, file
  information, keychain and URL sessions, DiskArbitration and remounting, XPC's own
  protocol), which keep no state of their own;
* formatting and drawing (the text of records and metrics, windows, `santactl`'s output),
  generated code;
* the CEL evaluator (a rule's result is a constant of its model), the entitlements filter
  and the TTY writer, which are pure functions of one event;
* tamper resistance, the kill command, statistics and multipart upload, the bundle service:
  short sequences of calls without shared state;
* within modelled components: bundle events, the backoff of posts, certificate and
  CDHash matching of file access rules, wildcards, ES's cache of file accesses, the
  contents of rules.

ES, libdispatch, SQLite, XPC and the file system are modelled only as far as the code relies
on them. Time is abstracted everywhere but in the limiter: what can time out may do so at
any moment.

## Plan

Done: all the modules above, their runs, the refinement of `AtomicMap`, and a proof of every
safety property that a run checks. What would come next:

1. The policy processor's decision as operators against a reference (order of
   precedence, client modes, CEL results), used by `RuleTable` and `ExecAuth`.
2. Durations in `TemporaryMonitorMode`; bundle events and the backoff of posts in `Sync`.
