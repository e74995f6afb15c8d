----------------------------- MODULE WatchItems -----------------------------
(***************************************************************************)
(* Where file access rules come from and how they reach the ES clients:    *)
(* the file access half of the rule database and its callback              *)
(* (SNTRuleTable.mm, SantadDeps.mm), the observers of the FileAccessPolicy *)
(* and FileAccessPolicyPlist keys (Santad.mm), the watch items with their  *)
(* periodic reload (WatchItems.mm), and the clients that are told of       *)
(* changes (SNTEndpointSecurityDataFileAccessAuthorizer.mm and its         *)
(* process counterpart).                                                   *)
(*                                                                         *)
(* The timer, the observers and the clients of the database are threads;   *)
(* a step is the code between two accesses to shared state.  embedded_     *)
(* config_ is read without the lock after it was written under it, which   *)
(* the model keeps.  Expanding globs is part of the update that uses it.   *)
(***************************************************************************)
EXTENDS Naturals, Sequences, FiniteSets

CONSTANTS
  Configs,       \* dictionaries of file access rules
  DbConfigs,     \* those that the database may hold
  EmptyRules,    \* the dictionary made of an empty database
  Policies,      \* values of FileAccessPolicy
  FileConfigs,   \* contents of the plist file
  Invalid,       \* dictionaries that do not parse
  Paths,         \* paths that may be watched
  PathsOf,       \* dictionary -> paths its data rules name
  ProcConfigs,   \* dictionaries with process rules
  Writers,       \* clients that change the rules of the database
  MaxChanges,    \* bound: changes of configuration, database and files
  Nil

ASSUME ConfigsAssumption ==
  /\ DbConfigs \union Policies \union FileConfigs \union Invalid \union ProcConfigs \subseteq Configs
  /\ EmptyRules \in Configs \ (Invalid \union ProcConfigs)
  /\ PathsOf \in [Configs -> SUBSET Paths] /\ PathsOf[EmptyRules] = {}
  /\ Nil \notin Configs /\ {"timer", "observer"} \intersect Writers = {} /\ MaxChanges \in Nat

Threads == Writers \union {"timer", "observer"}

VARIABLES
  faaDb,       \* rules in the database
  policy,      \* FileAccessPolicy
  plist,       \* FileAccessPolicyPlist is set
  file,        \* what the plist file holds
  onDisk,      \* paths that exist, so that globs match them
  changes,     \* number of changes so far
  source,      \* data_source_
  embedded,    \* embedded_config_
  path,        \* config_path_ is set
  current,     \* current_config_
  data,        \* paths of data_watch_items_
  queue,       \* blocks on q_: paths to watch and to stop watching
  subscribed,  \* the data client is subscribed
  watched,     \* its (inverted) muted target paths
  procEnabled, \* the process client is subscribed
  failed,      \* a call that subscribes or unsubscribes a client failed
  job,         \* thread -> what it is doing
  overlapped   \* a change came while an observer or a client of the database was under way

outside == <<faaDb, policy, plist, file, onDisk, changes, overlapped>>
items == <<source, embedded, path>>
state == <<current, data, queue>>
clients == <<subscribed, watched, procEnabled, failed>>
watchVars == <<outside, items, state, clients, job>>

Pcs == {"idle", "count", "callback", "set", "read", "file", "update"}
Targets == {"none", "database", "embedded", "plist", "noplist"}
Idle == [pc |-> "idle", to |-> "none", config |-> Nil]
Step(t, pc, to, config) == job' = [job EXCEPT ![t] = [pc |-> pc, to |-> to, config |-> config]]
Done(t) == job' = [job EXCEPT ![t] = Idle]

(* What reading the configured plist gives. *)
FileContent(set) == IF set THEN file ELSE Nil

(* A configured path, or none: both are the detached source. *)
PlistOrNone(set) == IF set THEN "plist" ELSE "noplist"
SourceOf(to) == IF to \in {"plist", "noplist"} THEN "detached" ELSE to

(* The order of precedence of the sources. *)
Source == IF faaDb # Nil THEN "database" ELSE IF policy # Nil THEN "embedded" ELSE "detached"

WatchInit ==
  /\ faaDb \in DbConfigs \union {Nil} /\ policy \in Policies \union {Nil} /\ plist \in BOOLEAN
  /\ file \in FileConfigs \union {Nil} /\ onDisk = Paths /\ changes = 0
  /\ source = Source
  /\ embedded = IF faaDb # Nil THEN faaDb ELSE policy
  /\ path = (source = "detached" /\ plist)
  /\ current = Nil /\ data = {} /\ queue = <<>>
  /\ subscribed = FALSE /\ watched = {} /\ procEnabled = FALSE /\ failed = FALSE
  /\ job = [t \in Threads |-> Idle] /\ overlapped = FALSE

-----------------------------------------------------------------------------
(* WatchItems *)

(* SetDBRules, SetConfig and SetConfigPath, up to the release of the lock. *)
(* Of them only SetConfigPath reads what to load before that.              *)
Set(t) ==
  LET j == job[t]
  IN  /\ j.pc = "set"
      /\ source' = SourceOf(j.to)
      /\ path' = (j.to = "plist")
      /\ embedded' = j.config
      /\ IF source' = "detached" THEN Step(t, "update", "none", FileContent(path'))
                                 ELSE Step(t, "read", "none", Nil)
      /\ UNCHANGED <<outside, state, clients>>

(* The argument of ReloadConfig is embedded_config_ as it is now. *)
ReadEmbedded(t) ==
  /\ job[t].pc = "read"
  /\ Step(t, "update", "none", embedded)
  /\ UNCHANGED <<outside, items, state, clients>>

(* Mutant of OnTimer: only the file is read again. *)
OnTimerFileOnly ==
  /\ job["timer"].pc = "idle"
  /\ IF embedded = Nil THEN Step("timer", "file", "none", Nil) ELSE UNCHANGED job
  /\ UNCHANGED <<outside, items, state, clients>>

(* OnTimer: embedded_config_, or else what ReadConfig returns. *)
OnTimer ==
  /\ job["timer"].pc = "idle"
  /\ IF embedded # Nil THEN Step("timer", "update", "none", embedded)
                       ELSE Step("timer", "file", "none", Nil)
  /\ UNCHANGED <<outside, items, state, clients>>

ReadConfig ==
  /\ job["timer"].pc = "file"
  /\ Step("timer", "update", "none", FileContent(path))
  /\ UNCHANGED <<outside, items, state, clients>>

(* Mutant of UpdateCurrentState: paths that are watched already are told   *)
(* again, paths that are no longer watched are not.                        *)
UpdateForgetsRemoved(t, config, paths) ==
  /\ current' = config
  /\ data' = paths
  /\ queue' = Append(queue, [add |-> paths, remove |-> {}])

(* UpdateCurrentState, when there is something to update. *)
UpdateCurrentState(t, config, paths) ==
  /\ current' = config
  /\ data' = paths
  /\ queue' = Append(queue, [add |-> paths \ data, remove |-> data \ paths])

(* ParseConfig refuses a dictionary as a whole for its top level keys; a    *)
(* rule it cannot use is left out of the paths.                             *)
Parses(config) == config \notin Invalid

(* The paths of a dictionary, with globs expanded to what exists now. *)
PathsToWatch(config) == IF config = Nil THEN {} ELSE PathsOf[config] \intersect onDisk

(* ReloadConfig: a dictionary that does not parse changes nothing. *)
ReloadConfig(t) ==
  LET config == job[t].config
      paths == PathsToWatch(config)
  IN  /\ job[t].pc = "update"
      /\ Done(t)
      /\ IF Parses(config) /\ (config # current \/ paths # data)
         THEN UpdateCurrentState(t, config, paths) ELSE UNCHANGED state
      /\ UNCHANGED <<outside, items, clients>>

(* Every change of the configuration, the database and the files counts,    *)
(* and every call of ES that fails.                                         *)
Change == changes < MaxChanges /\ changes' = changes + 1

(* enable and disable: ES is called if the client is not yet as it should   *)
(* be; a call that fails is made again when the next block runs.            *)
Subscribe(on, proc) ==
  \/ subscribed' = on /\ procEnabled' = proc /\ UNCHANGED <<changes, failed>>
  \/ /\ subscribed' \in {subscribed, on} /\ procEnabled' \in {procEnabled, proc}
     /\ <<subscribed', procEnabled'>> # <<on, proc>>
     /\ Change /\ failed' = TRUE

(* The blocks of an update, for both clients: the paths are those of the   *)
(* update, the counts those of the moment the blocks run.                  *)
NotifyClients ==
  /\ queue # <<>>
  /\ queue' = Tail(queue)
  /\ Subscribe(data # {}, current \in ProcConfigs)
  /\ watched' = IF data # {} THEN (watched \ Head(queue).remove) \union Head(queue).add
                ELSE IF subscribed THEN {} ELSE watched
  /\ UNCHANGED <<faaDb, policy, plist, file, onDisk, overlapped, items, current, data, job>>

-----------------------------------------------------------------------------
(* What changes the rules *)

Settled == \A t \in Threads \ {"timer"} : job[t].pc = "idle"
Starts(t) == job[t].pc = "idle" /\ overlapped' = (overlapped \/ ~Settled)

(* The observer of FileAccessPolicy. *)
PolicyChanged(p) ==
  /\ Starts("observer") /\ Change /\ p # policy
  /\ policy' = p
  /\ Step("observer", "count", "embedded", p)
  /\ UNCHANGED <<faaDb, plist, file, onDisk, items, state, clients>>

(* The observer of FileAccessPolicyPlist ignores it if there is a policy.  *)
PlistChanged ==
  /\ Starts("observer") /\ Change
  /\ plist' = ~plist
  /\ IF policy # Nil THEN UNCHANGED job
     ELSE Step("observer", "count", PlistOrNone(plist'), Nil)
  /\ UNCHANGED <<faaDb, policy, file, onDisk, items, state, clients>>

(* Mutant of CheckCount: rules in the database are no reason to stop. *)
CheckCountSkipped ==
  LET j == job["observer"]
  IN  /\ j.pc = "count"
      /\ Step("observer", "set", j.to, j.config)
      /\ UNCHANGED <<outside, items, state, clients>>

(* Both observers ignore the change if the database has rules. *)
CheckCount ==
  LET j == job["observer"]
  IN  /\ j.pc = "count"
      /\ IF faaDb # Nil THEN Done("observer") ELSE Step("observer", "set", j.to, j.config)
      /\ UNCHANGED <<outside, items, state, clients>>

(* A transaction changes the rules: the callback gets their number.        *)
AddFileAccessRules(a, c) ==
  /\ Starts(a) /\ Change /\ c # faaDb
  /\ faaDb' = c
  /\ Step(a, "callback", IF c # Nil THEN "database" ELSE "none", Nil)
  /\ UNCHANGED <<policy, plist, file, onDisk, items, state, clients>>

(* fileAccessRulesChangedCallback *)
RulesChanged(a) ==
  LET j == job[a]
  IN  /\ j.pc = "callback"
      /\ \/ j.to = "database" /\ Step(a, "set", "database", IF faaDb # Nil THEN faaDb ELSE EmptyRules)
         \/ j.to = "none" /\ policy # Nil /\ Step(a, "set", "embedded", policy)
         \/ j.to = "none" /\ policy = Nil /\ Step(a, "set", PlistOrNone(plist), Nil)
      /\ UNCHANGED <<outside, items, state, clients>>

(* Somebody rewrites the plist file, or creates or removes a watched path. *)
FileChanged(c) ==
  /\ Change /\ c # file
  /\ file' = c
  /\ UNCHANGED <<faaDb, policy, plist, onDisk, overlapped, items, state, clients, job>>

PathChanged(p) ==
  /\ Change
  /\ onDisk' = IF p \in onDisk THEN onDisk \ {p} ELSE onDisk \union {p}
  /\ UNCHANGED <<faaDb, policy, plist, file, overlapped, items, state, clients, job>>

-----------------------------------------------------------------------------
Thread(t) == Set(t) \/ ReadEmbedded(t) \/ ReloadConfig(t)

WatchNext ==
  \/ \E t \in Threads : Thread(t)
  \/ OnTimer \/ ReadConfig \/ NotifyClients
  \/ \E p \in Policies \union {Nil} : PolicyChanged(p)
  \/ PlistChanged \/ CheckCount
  \/ \E a \in Writers : RulesChanged(a) \/ \E c \in DbConfigs \union {Nil} : AddFileAccessRules(a, c)
  \/ \E c \in FileConfigs \union {Nil} : FileChanged(c)
  \/ \E p \in Paths : PathChanged(p)

WatchSpec == WatchInit /\ [][WatchNext]_watchVars

(* Threads and dispatch queues run what they have started or been given,   *)
(* and the timer fires again and again.                                    *)
WatchFairSpec ==
  /\ WatchSpec
  /\ \A t \in Threads : WF_watchVars(Thread(t))
  /\ WF_watchVars(OnTimer) /\ WF_watchVars(ReadConfig)
  /\ WF_watchVars(NotifyClients) /\ WF_watchVars(CheckCount)
  /\ \A a \in Writers : WF_watchVars(RulesChanged(a))

-----------------------------------------------------------------------------
(* Every variable has its type, and a dictionary and a path are never both *)
(* configured, which CreateInternal refuses and the setters avoid.         *)
WatchTypeOK ==
  /\ {faaDb, policy, file, embedded, current} \subseteq Configs \union {Nil}
  /\ plist \in BOOLEAN /\ path \in BOOLEAN /\ onDisk \subseteq Paths /\ changes \in 0..MaxChanges
  /\ source \in {"database", "embedded", "detached"} /\ ~(path /\ embedded # Nil)
  /\ data \subseteq Paths /\ queue \in Seq([add : SUBSET Paths, remove : SUBSET Paths])
  /\ subscribed \in BOOLEAN /\ watched \subseteq Paths /\ {procEnabled, failed, overlapped} \subseteq BOOLEAN
  /\ job \in [Threads -> [pc : Pcs, to : Targets, config : Configs \union {Nil}]]

(* Once the queued blocks have run the data client watches every path of    *)
(* the rules, although each block applies the paths of its own update and   *)
(* the count of whatever update came last; if no call of ES failed it       *)
(* watches no other, and both clients are subscribed as the rules say       *)
(* (UpdateCurrentState, watchItemsCount:newPaths:removedPaths:,             *)
(* processWatchItemsCount:).  After a failed subscribe, removing all rules  *)
(* leaves the paths watched: disable looks only at isSubscribed.            *)
ClientsMatch ==
  queue = <<>> => /\ data \subseteq watched
                  /\ ~failed => /\ watched = data /\ subscribed = (data # {})
                                /\ procEnabled = (current \in ProcConfigs)

(* Rules of the database come first (SantadDeps.mm): when nobody is        *)
(* changing anything, they are what is loaded if there are any, provided   *)
(* that observers and clients of the database never overlapped (Santad.mm  *)
(* looks at the number of rules before it sets another source).            *)
DatabaseWins == Settled /\ ~overlapped /\ faaDb # Nil => source = "database" /\ embedded = faaDb

(* FileAccessPolicyPlist is used when there is neither a rule in the       *)
(* database nor a FileAccessPolicy (SantadDeps.mm, SNTConfigurator.h).     *)
PlistUsed == Settled /\ faaDb = Nil /\ policy = Nil /\ plist => path

(* Whatever reload was overtaken by another one, the timer makes the rules *)
(* of the configured source the ones that are enforced, on the paths that  *)
(* exist by then, unless they do not parse (OnTimer, ReloadConfig).        *)
Loaded == IF embedded # Nil THEN embedded ELSE FileContent(path)
Enforced ==
  Parses(Loaded) =>
    current = Loaded /\ data = PathsToWatch(Loaded)
RulesSettle == <>[]Enforced
=============================================================================
