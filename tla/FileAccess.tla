------------------------------ MODULE FileAccess ------------------------------
(***************************************************************************)
(* How file accesses are answered: the data and the process file access    *)
(* authorizers, the policy processor they share (FAAPolicyProcessor.mm)    *)
(* with its reads cache (SantaSetCache) and rate limiter, and the policies *)
(* they look up (WatchItemPolicy.h, WatchItems.h, PrefixTree.h).           *)
(*                                                                         *)
(* Each authorizer has a serial ES handler that hands accesses to a        *)
(* concurrent queue; rules change at any time, and the clients are told    *)
(* later, on the queue of the watch items.  The exec authorizer probes the *)
(* process client on a thread of its own.  A process is a pid with its     *)
(* pidversion, so that it is used once, and waits for its access.          *)
(***************************************************************************)
EXTENDS PrefixTree, SequencesExt

CONSTANTS
    Procs,       \* processes: numbers, the order in which they come to life
    DataProcs,   \* bound: processes whose accesses the data client sees
    Images,      \* name -> what a process may run: es_process_t's fields
    First,       \* what the first process runs
    IgnoreOtherESClients, \* ignoreOtherEndpointSecurityClients
    Files,       \* paths (sequences of names)
    Accesses,    \* accesses a process may make: records [kind, src, dst]
    Rules,       \* name -> a rule: [path or paths, reads, audit, denied, procs]
    Configs,     \* names of dictionaries of rules
    InitialConfig,
    RulesIn,     \* dictionary -> [data, proc : names of its rules]
    ReadsCap,    \* kPerProcessSetCapacity
    ReadsProcs,  \* kNumProcesses
    PolicyCap,   \* capacity of _procRuleCache
    MaxLogs,     \* max_log_count_total_ of the limiter, when it is on
    Window,      \* reset_duration_ns_
    MaxChanges,  \* bound: changes of rules and of settings
    MaxAccesses, \* bound: accesses
    MaxInputs,   \* bound: accesses and changes together
    Slow         \* bound: clients whose answers may miss the deadline

ASSUME FileAccessAssumption ==
    /\ Procs \subseteq Nat /\ DataProcs \subseteq Procs /\ Files \subseteq Seq(STRING)
    /\ Accesses \subseteq [kind : {"read", "write", "clone", "rename"}, src : Files, dst : Files]
    /\ {ReadsCap, ReadsProcs, PolicyCap, MaxLogs, Window} \subseteq Nat \ {0}
    /\ {MaxChanges, MaxAccesses, MaxInputs} \subseteq Nat /\ IgnoreOtherESClients \in BOOLEAN
    /\ InitialConfig \in Configs /\ NoValue \notin DOMAIN Rules
    /\ RulesIn \in [Configs -> [data : SUBSET DOMAIN Rules, proc : SUBSET DOMAIN Rules]]

Clients == {"data", "process"}
Nobody == 0

VARIABLES
    rules,       \* the dictionaries loaded, the last one in force
    override,    \* OverrideFileAccessAction
    protect,     \* EnableBadSignatureProtection
    blocks,      \* versions whose updates still wait on q_
    block,       \* what the running block does: "none", "enable", "disable"
    told,        \* version for which the process client was last told
    subscribed,  \* isSubscribed of the process client
    watched,     \* processes the process client watches (muting is inverted)
    procCache,   \* _procRuleCache
    reads,       \* reads_cache_: client -> process -> files
    limiter,     \* RateLimiter: [on, count, reset, window : times logged]
    op,          \* client -> process -> its access
    expired,     \* accesses under way that their deadline has answered
    handler,     \* the ES handler of the process client
    probe,       \* the exec authorizer's probe of the process client
    life,        \* process -> "new", "execing", "running", "replaced", "gone"
    image,       \* process -> what it runs
    born,        \* process -> version when it was probed or forked
    changes, accesses,
    raced,       \* a policy was cached that was found before the cache was cleared
    missed       \* events ignored because of the override, or lost to a disable

policies == <<rules, blocks, block, told>>
caches == <<procCache, reads>>
settings == <<override, protect>>
process == <<life, image, born>>
vars == <<policies, settings, subscribed, watched, caches, limiter, op, expired, handler,
          probe, process, changes, accesses, raced, missed>>

(***************************************************************************)
(* Policies                                                                *)
(***************************************************************************)

\* WatchItemProcess::Create: a process dictionary, or nothing if it is invalid.  A
\* signing ID is qualified by the team or the platform, itself or beside it.
Create(d) ==
    LET fromSid == d.sid # "" /\ ~d.platform /\ d.team = ""
        team == IF fromSid THEN d.sidTeam ELSE d.team
        platform == d.platform \/ team = "platform"
    IN  IF \/ d = [path |-> "", sid |-> "", sidTeam |-> "", team |-> "", platform |-> FALSE]
           \/ d.platform /\ d.team \notin {"", "platform"}
           \/ fromSid /\ d.sidTeam = ""
        THEN {}
        ELSE {[path |-> d.path, sid |-> d.sid, platform |-> platform,
               team |-> IF team = "platform" THEN "" ELSE team]}

\* A rule is left out if one of its processes is invalid (ParseConfigSingleWatchItem).
Valid(n) == \A d \in Rules[n].procs : Create(d) # {}
Parsed(names) == {n \in names : Valid(n)}
ProcsOf == [n \in DOMAIN Rules |-> UNION {Create(d) : d \in Rules[n].procs}]

Insert(t, x, value) ==
    IF x.prefix THEN InsertPrefix(t, x.file, value) ELSE InsertLiteral(t, x.file, value)

\* DataWatchItems::Build: the policies come in the order of a hash table, and a
\* path that two of them name keeps the last one.
TreeFrom(paths, values) ==
    LET t[k \in 0..Len(paths)] == IF k = 0 THEN EmptyTree ELSE Insert(t[k - 1], paths[k], values[k])
    IN  t[Len(paths)]
DataTrees(names) == {TreeFrom([k \in DOMAIN s |-> Rules[s[k]].path], s) : s \in SetToSeqs(names)}

\* ProcessWatchItemPolicy: a tree of its own for the paths
TreeOf == [n \in DOMAIN Rules |->
    LET paths == SetToSeq(Rules[n].paths) IN TreeFrom(paths, [k \in DOMAIN paths |-> n])]

\* What UpdateCurrentState stores: data_watch_items_ and proc_watch_items_
Loads(c) == {[data |-> t, procs |-> Parsed(RulesIn[c].proc)] : t \in DataTrees(Parsed(RulesIn[c].data))}

\* No path is empty (LenRangeValidator), no two rules of a dictionary name the same
\* path, nor one rule twice, so that the order in which they are inserted matters for
\* the counters only; and a path that covers a file is not deeper than the tree.
RulePaths == {Rules[n].path : n \in DOMAIN Rules} \cup UNION {Rules[n].paths : n \in DOMAIN Rules}
ASSUME UnambiguousRules ==
    /\ IsFiniteSet(DOMAIN Rules)
    /\ \A x \in RulePaths : /\ x.file \in Seq(STRING) \ {<<>>} /\ x.prefix \in BOOLEAN
                          /\ \A f \in Files : IsPrefix(x.file, f) => Len(x.file) <= MaxDepth
    /\ \A n \in DOMAIN Rules : /\ {Rules[n].reads, Rules[n].audit, Rules[n].denied} \subseteq BOOLEAN
                             /\ IsFiniteSet(Rules[n].paths)
                             /\ \A x, y \in Rules[n].paths : x.file = y.file => x = y
    /\ \A c \in Configs : \A n, m \in Parsed(RulesIn[c].data) :
          Rules[n].path.file = Rules[m].path.file => n = m

Loaded == [c \in Configs |-> CHOOSE r \in Loads(c) : TRUE]
DataRules == [c \in Configs |-> Parsed(RulesIn[c].data)]
Version == Len(rules)
Current == Loaded[rules[Version]]

\* PolicyMatchesProcess, for the signing state and the identifiers of a process
PolicyMatchesProcess(pp, i) ==
    /\ IF i.signed
       THEN /\ pp.platform => i.platform
            /\ pp.team # "" => pp.team = i.team
            /\ pp.sid # "" => pp.sid = i.sid
       ELSE pp.team = "" /\ pp.sid = ""
    /\ pp.path # "" => pp.path = i.path

Lists(n, i) == \E pp \in ProcsOf[n] : PolicyMatchesProcess(pp, Images[i])

\* findPolicyForProcess: the first match of an unordered set
Found(r, i) == {pol \in r.procs : Lists(pol, i)}

(***************************************************************************)
(* Accesses: [kind, src, dst]                                              *)
(***************************************************************************)
\* PopulatePathTargets: an open reads its file, a clone its source.  New names
\* have no file behind them.
Targets(a) ==
    CASE a.kind \in {"read", "write"} -> <<[path |-> a.src, readable |-> TRUE, file |-> TRUE]>>
      [] a.kind = "clone" -> <<[path |-> a.src, readable |-> TRUE, file |-> TRUE],
                               [path |-> a.dst, readable |-> FALSE, file |-> FALSE]>>
      [] a.kind = "rename" -> <<[path |-> a.src, readable |-> FALSE, file |-> TRUE],
                                [path |-> a.dst, readable |-> FALSE, file |-> FALSE]>>

PolicyAllowsReadsForTarget(a, target, pol) ==
    Rules[pol].reads /\ (a.kind = "read" \/ (a.kind = "clone" /\ target.readable))

\* The block of each client that tells whether a policy applies
Applies(c, pol, target, i) ==
    IF c = "data" THEN Lists(pol, i) ELSE ContainsLocked(TreeOf[pol], target.path)

(* Mutant of ApplyPolicy: the lists of denied processes or paths are not inverted. *)
ApplyUninverted(c, a, target, pol, i) ==
    IF pol = NoValue THEN "NoPolicy"
    ELSE IF protect /\ Images[i].signed /\ ~Images[i].valid THEN "DeniedInvalidSignature"
    ELSE IF PolicyAllowsReadsForTarget(a, target, pol) THEN "AllowedReadAccess"
    ELSE IF Applies(c, pol, target, i) THEN "Allowed"
    ELSE IF Rules[pol].audit THEN "AllowedAuditOnly" ELSE "Denied"

ApplyPolicy(c, a, target, pol, i) ==
    IF pol = NoValue THEN "NoPolicy"
    ELSE IF protect /\ Images[i].signed /\ ~Images[i].valid THEN "DeniedInvalidSignature"
    ELSE IF PolicyAllowsReadsForTarget(a, target, pol) THEN "AllowedReadAccess"
    ELSE IF Applies(c, pol, target, i) # Rules[pol].denied THEN "Allowed"
    ELSE IF Rules[pol].audit THEN "AllowedAuditOnly" ELSE "Denied"

IsBlockDecision(d) == d \in {"Denied", "DeniedInvalidSignature"}
ShouldLogDecision(d) == d = "AllowedAuditOnly" \/ IsBlockDecision(d)
ApplyOverrideToDecision(d, o) == IF o = "audit" /\ IsBlockDecision(d) THEN "AllowedAuditOnly" ELSE d

Decisions(c, a, pols, o, i) == [k \in DOMAIN pols |->
    ApplyOverrideToDecision(ApplyPolicy(c, a, Targets(a)[k], pols[k], i), o)]

\* CombinePolicyResults over all targets
AuthResult(ds) == IF \E k \in DOMAIN ds : IsBlockDecision(ds[k]) THEN "deny" ELSE "allow"

(***************************************************************************)
(* The reads cache and the rate limiter                                    *)
(***************************************************************************)
\* ProcessMessage: files whose policy allows reads can be read from now on.
ReadsToCache(a, pols, ds) == {Targets(a)[k].path : k \in {n \in DOMAIN ds :
    /\ ds[n] \notin {"NoPolicy", "DeniedInvalidSignature"}
    /\ Targets(a)[n].readable /\ Targets(a)[n].file /\ Rules[pols[n]].reads}}

\* SantaSetCache::Set: a set that is full is cleared first.
SetCacheAdd(set, v) ==
    IF v \in set THEN set ELSE IF Cardinality(set) >= ReadsCap THEN {v} ELSE set \cup {v}

\* SantaCache::update: a new process clears a cache that is full, the one of both
\* clients.  (No access has two files to read.)
NoReads == [c \in Clients |-> [p \in Procs |-> {}]]
Readers == {e \in Clients \X Procs : reads[e[1]][e[2]] # {}}
AddReads(c, p, fs) ==
    LET full == reads[c][p] = {} /\ Cardinality(Readers) >= ReadsProcs
    IN  IF fs = {} THEN reads
        ELSE [(IF full THEN NoReads ELSE reads) EXCEPT ![c][p] = SetCacheAdd(@, CHOOSE f \in fs : TRUE)]

\* NotifyExit
ForgetReads(c, ps) == [reads EXCEPT ![c] = [p \in Procs |-> IF p \in ps THEN {} ELSE @[p]]]

\* UINT64_MAX: no access comes later.
Never == MaxAccesses + Window + 1

\* RateLimiter::Decide at the time of the access, once for each logged decision
Decide(l, t) ==
    LET r == IF t > l.reset THEN [l EXCEPT !.count = 0, !.reset = t + Window, !.window = 0] ELSE l
    IN  [r EXCEPT !.count = @ + 1,
                  !.window = IF r.on => r.count < MaxLogs THEN @ + 1 ELSE @]

\* One record per target at most, and an access has one or two.
Log(l, ds, k, t) == IF k \in DOMAIN ds /\ ShouldLogDecision(ds[k]) THEN Decide(l, t) ELSE l
LogTelemetry(ds, t) == Log(Log(limiter, ds, 1, t), ds, 2, t)

(* Mutant of ModifySettings: the time of the next reset is kept. *)
ModifyKeepsReset(on) ==
    limiter' = [limiter EXCEPT !.on = on, !.reset = IF on THEN @ ELSE Never]

\* ModifySettingsSerialized: without limits nothing is ever reset; with new ones
\* the next access starts a window.
ModifySettings(on) ==
    limiter' = [limiter EXCEPT !.on = on, !.reset = IF on THEN 0 ELSE Never]

(***************************************************************************)
(* Answering an access                                                     *)
(***************************************************************************)
Idle == [pc |-> "idle"]
SetOp(c, p, o) == op' = [op EXCEPT ![c][p] = o]
\* An access on its way: which rules it saw first, under which override, when.
Started(a, from, pc) == [access |-> a, from |-> from, pc |-> pc, pols |-> <<>>, how |-> "none",
                         override |-> override, time |-> accesses + 1]
Answered(o, how) == [o EXCEPT !.pc = "answer", !.how = how]
SamePolicy(a, pol) == [k \in DOMAIN Targets(a) |-> pol]

\* Only an open that cannot write is answered from the reads cache.
ImmediateResponse(c, p, a) == a.kind = "read" /\ a.src \in reads[c][p]

\* handleMessage of the data client
HandleData(p, a) ==
    LET o == Started(a, Version, "queued")
    IN  /\ SetOp("data", p, IF override = "disable" THEN Answered(o, "off")
                            ELSE IF ImmediateResponse("data", p, a) THEN Answered(o, "reads")
                            ELSE o)
        /\ UNCHANGED handler

\* handleMessage of the process client, up to the lookup of a policy
HandleProcess(p, a) ==
    LET o == Started(a, told, "queued")
    IN  /\ handler.pc = "idle"
        /\ \/ /\ override = "disable"
              /\ SetOp("process", p, Answered(o, "off")) /\ UNCHANGED handler
           \/ /\ override # "disable" /\ ImmediateResponse("process", p, a)
              /\ SetOp("process", p, Answered(o, "reads")) /\ UNCHANGED handler
           \/ /\ override # "disable" /\ ~ImmediateResponse("process", p, a)
              /\ IF procCache[p] # NoValue
                 THEN /\ SetOp("process", p, [o EXCEPT !.pc = "decide", !.pols = SamePolicy(a, procCache[p])])
                      /\ UNCHANGED handler
                 ELSE /\ SetOp("process", p, [o EXCEPT !.pc = "finding"])
                      /\ handler' = [pc |-> "find", proc |-> p]

\* shouldHandleMessage of a process that may be a client of Endpoint Security: its
\* accesses are allowed as they come, its other events dropped.
MayIgnore(p) == IgnoreOtherESClients /\ Images[image[p]].es
IgnoreMessage(c, p, a) ==
    /\ MayIgnore(p) /\ (c = "process" => handler.pc = "idle")
    /\ SetOp(c, p, Answered(Started(a, Version, "queued"), "ignored"))
    /\ UNCHANGED handler

FileAccess(c, p, a) ==
    /\ life[p] = "running" /\ accesses < MaxAccesses /\ accesses + changes < MaxInputs
    /\ op[c][p].pc = "idle"
    /\ IF c = "process" THEN subscribed /\ p \in watched ELSE p \in DataProcs
    /\ \/ IgnoreMessage(c, p, a)
       \/ IF c = "data" THEN HandleData(p, a) ELSE HandleProcess(p, a)
    /\ accesses' = accesses + 1
    /\ UNCHANGED <<policies, settings, subscribed, watched, caches, limiter, expired, probe,
                   process, changes, raced, missed>>

\* findPoliciesForTargets: one lookup of all targets under the lock
LookupData(p) ==
    LET o == op["data"][p]
    IN  /\ o.pc = "queued"
        /\ SetOp("data", p, [o EXCEPT !.pc = "decide",
                !.pols = [k \in DOMAIN Targets(o.access) |->
                    LookupLongestMatchingPrefix(Current.data, Targets(o.access)[k].path)]])
        /\ UNCHANGED <<policies, settings, subscribed, watched, caches, limiter, expired,
                       handler, probe, process, changes, accesses, raced, missed>>

ProcessMessage(c, p) ==
    LET o == op[c][p]
        ds == Decisions(c, o.access, o.pols, o.override, image[p])
    IN  /\ o.pc = "decide"
        /\ reads' = AddReads(c, p, ReadsToCache(o.access, o.pols, ds))
        /\ limiter' = LogTelemetry(ds, o.time)
        /\ SetOp(c, p, Answered(o, AuthResult(ds)))
        /\ UNCHANGED <<policies, settings, subscribed, watched, procCache, expired, handler,
                       probe, process, changes, accesses, raced, missed>>

\* processMessage:handler: an access that was handed to the queue is answered at its
\* deadline, as FailClosed says.  The handler goes on, but its answer comes too late.
DeadlineResponds(c, p) ==
    /\ op[c][p].pc \in {"queued", "decide"} /\ <<c, p>> \notin expired /\ c \in Slow
    /\ expired' = expired \cup {<<c, p>>}
    /\ UNCHANGED <<policies, settings, subscribed, watched, caches, limiter, op, handler,
                   probe, process, changes, accesses, raced, missed>>

Respond(c, p) ==
    /\ op[c][p].pc = "answer"
    /\ SetOp(c, p, Idle) /\ expired' = expired \ {<<c, p>>}
    /\ UNCHANGED <<policies, settings, subscribed, watched, caches, limiter, handler, probe,
                   process, changes, accesses, raced, missed>>

(***************************************************************************)
(* The process client's cache of policies                                  *)
(***************************************************************************)

\* SantaCache::set: a full table is emptied first.
PutPolicy(p, pol) == procCache' =
    [q \in Procs |-> IF q = p THEN pol
        ELSE IF procCache[p] = NoValue
                /\ Cardinality({x \in Procs : procCache[x] # NoValue}) >= PolicyCap
             THEN NoValue ELSE procCache[q]]

\* The policy was found in rules older than those the cache was last cleared for.
Stale(version) == raced' = (raced \/ version < told)

\* The cache had no policy: look for one among the rules, under their lock.
FindPolicy ==
    /\ handler.pc = "find"
    /\ LET found == Found(Current, image[handler.proc])
       IN  \E pol \in IF found = {} THEN {NoValue} ELSE found :
              handler' = [pc |-> "store", proc |-> handler.proc, pol |-> pol, version |-> Version]
    /\ UNCHANGED <<policies, settings, subscribed, watched, caches, limiter, op, expired,
                   probe, process, changes, accesses, raced, missed>>

\* stopWatching
StopWatching(ps) == watched' = watched \ ps /\ reads' = ForgetReads("process", ps)

\* What was found is cached; a process without a policy is let go.
StorePolicy ==
    LET p == handler.proc
        o == op["process"][p]
    IN  /\ handler.pc = "store"
        /\ handler' = [pc |-> "idle"]
        /\ \/ /\ handler.pol # NoValue
              /\ PutPolicy(p, handler.pol) /\ Stale(handler.version)
              /\ SetOp("process", p, [o EXCEPT !.pc = "decide", !.pols = SamePolicy(o.access, handler.pol)])
              /\ UNCHANGED <<watched, reads>>
           \/ /\ handler.pol = NoValue
              /\ StopWatching({p})
              /\ SetOp("process", p, Answered(o, "nopolicy"))
              /\ UNCHANGED <<procCache, raced>>
        /\ UNCHANGED <<policies, settings, subscribed, limiter, expired, probe, process,
                       changes, accesses, missed>>

(* Mutant of StartWatching: a process is watched only with a policy. *)
WatchWithPolicy(p, pol, version) ==
    IF pol # NoValue THEN watched' = watched \cup {p} /\ PutPolicy(p, pol) /\ Stale(version)
    ELSE UNCHANGED <<watched, procCache, raced>>

\* startWatching
StartWatching(p, pol, version) ==
    /\ watched' = watched \cup {p}
    /\ IF pol # NoValue THEN PutPolicy(p, pol) /\ Stale(version) ELSE UNCHANGED <<procCache, raced>>

(***************************************************************************)
(* Processes: forks, execs with their probe, exits                         *)
(***************************************************************************)
NextProc == CHOOSE p \in Procs : life[p] = "new" /\ \A q \in Procs : life[q] = "new" => p <= q
HasNext == \E p \in Procs : life[p] = "new"
Waiting(p) == \E c \in Clients : op[c][p].pc # "idle" /\ <<c, p>> \notin expired
Heard(p) == subscribed /\ p \in watched   \* events of p reach the process client

\* NOTIFY_FORK: the policy of the parent is read ...
Fork(p) ==
    /\ life[p] = "running" /\ HasNext /\ handler.pc = "idle"
    /\ life' = [life EXCEPT ![NextProc] = "running"]
    /\ image' = [image EXCEPT ![NextProc] = image[p]]
    /\ \/ /\ Heard(p) /\ override # "disable"
          /\ handler' = [pc |-> "fork", proc |-> NextProc, pol |-> procCache[p], version |-> told]
       \/ (Heard(p) /\ override # "disable" => MayIgnore(p)) /\ UNCHANGED handler
    /\ UNCHANGED <<policies, settings, subscribed, watched, caches, limiter, op, expired,
                   probe, born, changes, accesses, raced, missed>>

\* ... and given to the child, which is watched in any case.
ForkStart ==
    /\ handler.pc = "fork"
    /\ StartWatching(handler.proc, handler.pol, handler.version)
    /\ born' = [born EXCEPT ![handler.proc] = Version]
    /\ handler' = [pc |-> "idle"]
    /\ UNCHANGED <<policies, settings, subscribed, reads, limiter, op, expired, probe, life,
                   image, changes, accesses, missed>>

\* AUTH_EXEC: the exec authorizer asks the process client before it answers.
Exec(p, i) ==
    /\ life[p] = "running" /\ ~Waiting(p) /\ HasNext /\ probe.pc = "idle"
    /\ handler.pc = "fork" => handler.proc # p
    /\ life' = [life EXCEPT ![NextProc] = "execing"]
    /\ image' = [image EXCEPT ![NextProc] = i]
    /\ \/ subscribed /\ probe' = [pc |-> "find", from |-> p, proc |-> NextProc]
       \/ (subscribed => MayIgnore(p)) /\ probe' = [pc |-> "done", from |-> p, proc |-> NextProc]
    /\ UNCHANGED <<policies, settings, subscribed, watched, caches, limiter, op, expired,
                   handler, born, changes, accesses, raced, missed>>

ProbeInterest ==
    /\ probe.pc = "find"
    /\ LET found == Found(Current, image[probe.proc])
       IN  \/ /\ found = {}
              /\ probe' = [pc |-> "done", from |-> probe.from, proc |-> probe.proc]
           \/ \E pol \in found :
                 probe' = [pc |-> "start", from |-> probe.from, proc |-> probe.proc,
                           pol |-> pol, version |-> Version]
    /\ UNCHANGED <<policies, settings, subscribed, watched, caches, limiter, op, expired,
                   handler, process, changes, accesses, raced, missed>>

ProbeStart ==
    /\ probe.pc = "start"
    /\ StartWatching(probe.proc, probe.pol, probe.version)
    /\ born' = [born EXCEPT ![probe.proc] = probe.version]
    /\ probe' = [pc |-> "done", from |-> probe.from, proc |-> probe.proc]
    /\ UNCHANGED <<policies, settings, subscribed, reads, limiter, op, expired, handler,
                   life, image, changes, accesses, missed>>

\* NOTIFY_EXEC, NOTIFY_EXIT: what is known of the process is removed.
Forget(p) ==
    IF Heard(p) /\ override # "disable"
    THEN /\ procCache' = [procCache EXCEPT ![p] = NoValue]
         /\ reads' = ForgetReads("process", {p})
    ELSE UNCHANGED caches

Execed ==
    /\ probe.pc = "done" /\ handler.pc = "idle"
    /\ probe' = [pc |-> "idle"]
    /\ life' = [life EXCEPT ![probe.proc] = "running", ![probe.from] = "gone"]
    /\ \/ Forget(probe.from)
       \/ MayIgnore(probe.from) /\ UNCHANGED caches
    /\ watched' = watched \ {probe.from}   \* (Endpoint Security forgets it)
    /\ UNCHANGED <<policies, settings, subscribed, limiter, op, expired, handler, image,
                   born, changes, accesses, raced, missed>>

Exit(p) ==
    /\ life[p] = "running" /\ ~Waiting(p) /\ handler.pc = "idle"
    /\ probe.pc # "idle" => probe.from # p
    /\ life' = [life EXCEPT ![p] = "gone"]
    /\ watched' = watched \ {p}
    /\ \/ (override # "disable" => MayIgnore(p)) /\ UNCHANGED caches
       \/ /\ override # "disable"
          /\ procCache' = IF Heard(p) THEN [procCache EXCEPT ![p] = NoValue] ELSE procCache
          /\ reads' = [c \in Clients |-> IF c = "data" \/ Heard(p) THEN [reads[c] EXCEPT ![p] = {}] ELSE reads[c]]
    /\ UNCHANGED <<policies, settings, subscribed, limiter, op, expired, handler, probe,
                   image, born, changes, accesses, raced, missed>>

(***************************************************************************)
(* Changes of the rules and of the settings                                *)
(***************************************************************************)
Change == changes < MaxChanges /\ accesses + changes < MaxInputs /\ changes' = changes + 1
Setting == Change /\ changes = Version - 1   \* bound: one change of the settings

\* UpdateCurrentState: the rules are replaced at once, the clients told later.
ChangeRules(c) ==
    /\ Change /\ c # rules[Version]
    /\ rules' = Append(rules, c)
    /\ blocks' = blocks + 1
    /\ UNCHANGED <<block, told, settings, subscribed, watched, caches, limiter, op, expired,
                   handler, probe, process, accesses, raced, missed>>

\* processWatchItemsCount, with the count of the moment
TellCount ==
    /\ blocks > 0 /\ block = "none"
    /\ blocks' = blocks - 1
    /\ block' = IF Current.procs # {} THEN "enable" ELSE "disable"
    /\ UNCHANGED <<rules, told, settings, subscribed, watched, caches, limiter, op, expired,
                   handler, probe, process, changes, accesses, raced, missed>>

Cached == {p \in Procs : procCache[p] # NoValue}

\* enable: the cache is cleared, the processes stay watched.
Enable ==
    /\ block = "enable"
    /\ block' = "none" /\ subscribed' = TRUE /\ told' = Version
    /\ procCache' = [p \in Procs |-> NoValue]
    /\ reads' = ForgetReads("process", Cached)
    /\ UNCHANGED <<rules, blocks, settings, watched, limiter, op, expired, handler, probe,
                   process, changes, accesses, raced, missed>>

\* disable: the processes with a policy are let go.  Rules may have come since
\* the count was read.
Disable ==
    /\ block = "disable"
    /\ block' = "none" /\ subscribed' = FALSE /\ told' = Version
    /\ IF subscribed
       THEN /\ procCache' = [p \in Procs |-> NoValue]
            /\ StopWatching(Cached)
            /\ missed' = IF Current.procs # {} THEN missed \cup Cached ELSE missed
       ELSE UNCHANGED <<caches, watched, missed>>
    /\ UNCHANGED <<rules, blocks, settings, limiter, op, expired, handler, probe, process,
                   changes, accesses, raced>>

SetOverride(o) ==
    /\ Setting /\ o # override /\ override' = o
    /\ UNCHANGED <<policies, protect, subscribed, watched, caches, limiter, op, expired,
                   handler, probe, process, accesses, raced, missed>>

SetProtection(on) ==
    /\ Setting /\ on # protect /\ protect' = on
    /\ UNCHANGED <<policies, override, subscribed, watched, caches, limiter, op, expired,
                   handler, probe, process, accesses, raced, missed>>

SetRateLimit(on) ==
    /\ Setting /\ on # limiter.on
    /\ ModifySettings(on)
    /\ UNCHANGED <<policies, settings, subscribed, watched, caches, op, expired, handler,
                   probe, process, accesses, raced, missed>>

\* The first process was probed when it was executed, under the initial rules.
FirstProc == CHOOSE p \in Procs : \A q \in Procs : p <= q

Init ==
    /\ rules = <<InitialConfig>>
    /\ override = "none" /\ blocks = 0 /\ block = "none" /\ told = 1
    /\ subscribed = (Current.procs # {})
    /\ procCache \in {[p \in Procs |-> IF p = FirstProc THEN pol ELSE NoValue] : pol \in Found(Current, First)}
    /\ watched = {FirstProc}
    /\ reads = NoReads /\ protect = TRUE /\ expired = {}
    /\ limiter = [on |-> FALSE, count |-> 0, reset |-> Never, window |-> 0]
    /\ op = [c \in Clients |-> [p \in Procs |-> Idle]]
    /\ handler = [pc |-> "idle"] /\ probe = [pc |-> "idle"]
    /\ life = [p \in Procs |-> IF p = FirstProc THEN "running" ELSE "new"]
    /\ image = [p \in Procs |-> First]
    /\ born = [p \in Procs |-> IF p = FirstProc THEN 1 ELSE 0]
    /\ changes = 0 /\ accesses = 0 /\ raced = FALSE /\ missed = {}

\* An answer is given in the step that finds it; it stays for one state, in which
\* nothing else happens, so that the properties can look at it.
Answering == \E c \in Clients, p \in Procs : op[c][p].pc = "answer"

Answer(p) == \/ \E c \in Clients, a \in Accesses : FileAccess(c, p, a)
             \/ LookupData(p)
             \/ \E c \in Clients : ProcessMessage(c, p) \/ DeadlineResponds(c, p)
Live(p) == Fork(p) \/ Exit(p) \/ \E i \in DOMAIN Images : Exec(p, i)
Client == FindPolicy \/ StorePolicy \/ ForkStart \/ ProbeInterest \/ ProbeStart \/ Execed
Reconfigure ==
    \/ \E c \in Configs : ChangeRules(c)
    \/ TellCount \/ Enable \/ Disable
    \/ \E o \in {"none", "audit", "disable"} : SetOverride(o)
    \/ \E on \in BOOLEAN : SetProtection(on) \/ SetRateLimit(on)

Next ==
    \/ \E c \in Clients, p \in Procs : Respond(c, p)
    \/ ~Answering /\ (Client \/ Reconfigure \/ \E p \in Procs : Answer(p) \/ Live(p))

Spec == Init /\ [][Next]_vars

(***************************************************************************)
(* What an answer should be                                                *)
(***************************************************************************)
Covers(x, path) == IF x.prefix THEN IsPrefix(x.file, path) ELSE x.file = path

\* The rule for a path: the longest one that covers it.
Governing(c, path) ==
    LET covering == {n \in DataRules[c] : Covers(Rules[n].path, path)}
    IN  {n \in covering : \A m \in covering : Len(Rules[m].path.file) <= Len(Rules[n].path.file)}

\* A rule forbids an access to a target unless it is a permitted read, or only
\* audited, or made as the rule's list says; a broken signature does not help while
\* the protection is on.
Forbids(c, pol, a, target, i) ==
    \/ protect /\ Images[i].signed /\ ~Images[i].valid
    \/ /\ ~(Rules[pol].reads /\ target.readable /\ a.kind \in {"read", "clone"})
       /\ ~Rules[pol].audit
       /\ Rules[pol].denied <=> IF c = "data" THEN Lists(pol, i)
                         ELSE \E x \in Rules[pol].paths : Covers(x, target.path)

\* The answers of version v of the rules
Answers(c, v, a, i) ==
    LET ts == {Targets(a)[k] : k \in DOMAIN Targets(a)}
        found == Found(Loaded[rules[v]], i)
        forbidden == \E t \in ts : \E pol \in Governing(rules[v], t.path) : Forbids(c, pol, a, t, i)
    IN  IF c = "data" THEN {IF forbidden THEN "deny" ELSE "allow"}
        ELSE IF found = {} THEN {"nopolicy"}
        ELSE {IF \E t \in ts : Forbids(c, pol, a, t, i) THEN "deny" ELSE "allow" : pol \in found}

(***************************************************************************)
(* Properties                                                              *)
(***************************************************************************)
\* The variables have their types; the process that is found or forked exists.
TypeOK ==
    /\ rules \in Seq(Configs) /\ told \in 1..Version /\ blocks \in Nat
    /\ block \in {"none", "enable", "disable"} /\ override \in {"none", "audit", "disable"}
    /\ subscribed \in BOOLEAN /\ watched \subseteq {p \in Procs : life[p] # "new"}
    /\ \A c \in Clients, p \in Procs : reads[c][p] \subseteq Files /\ Cardinality(reads[c][p]) <= ReadsCap
    /\ Cardinality(Cached) <= PolicyCap
    /\ handler.pc \in {"idle", "find", "store", "fork"} /\ probe.pc \in {"idle", "find", "start", "done"}

\* The answer of the reads cache: to a read, of a file that rules loaded since
\* santad started have let the process read.
ReadJustified(c, p) ==
    LET o == op[c][p]
    IN  /\ o.access.kind = "read"
        /\ \E v \in 1..Version : \E pol \in IF c = "data" THEN Governing(rules[v], o.access.src)
                                            ELSE Found(Loaded[rules[v]], image[p]) : Rules[pol].reads

\* Whatever is loaded while an access is under way, its answer is the one of rules
\* that were in force between its arrival and the answer; for the process client,
\* since it was last told of new rules, unless it cached a policy that it found
\* before it was told (handleMessage, processMessage, ProcessMessage); or it is a
\* read that was let through before (ImmediateResponse).  That is what the handlers
\* answer: an access that its deadline answers, one that comes while the override
\* is "disable" or from another ES client that is to be ignored, is no matter of
\* rules (DeadlineResponds, HandleData, HandleProcess, IgnoreMessage).
AnswersJustified == \A c \in Clients, p \in Procs :
    LET o == op[c][p]
    IN  /\ o.pc = "answer" /\ o.how = "reads" => ReadJustified(c, p)
        /\ o.pc = "answer" /\ o.how \in {"allow", "deny", "nopolicy"} /\ (c = "process" => ~raced) =>
              \E v \in o.from..Version :
                 \/ o.override = "none" /\ o.how \in Answers(c, v, o.access, image[p])
                 \/ o.override = "audit" /\ o.how # "deny"

\* A process that came to be watched stays watched while the rules keep a policy
\* for it, through evictions, changes and forks (startWatching, stopWatching).
WatchKept == \A p \in Procs :
    /\ life[p] = "running" /\ born[p] > 0 /\ p \notin missed
    /\ \A v \in born[p]..Version : Found(Loaded[rules[v]], image[p]) # {}
    => p \in watched

\* The trees find what the rules say, for every file, in whatever order the rules
\* were inserted, and pruning one never needs more room than its counter gives
\* (InsertLocked, LookupLongestMatchingPrefix, PruneLocked).
SoundConfigs == {c \in Configs : \A r \in Loads(c) :
    /\ StackFits(r.data)
    /\ \A f \in Files :
          LookupLongestMatchingPrefix(r.data, f) \in
             IF Governing(c, f) = {} THEN {NoValue} ELSE Governing(c, f)}
TreesSound == rules[Version] \in SoundConfigs

\* Switching the limits off and on never leaves the limiter without a next window,
\* and a window logs no more than the limit (ModifySettingsSerialized, Decide).
RateLimited == limiter.on => limiter.reset # Never /\ (limiter.reset = 0 \/ limiter.window <= MaxLogs)
================================================================================
