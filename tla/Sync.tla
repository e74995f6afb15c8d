--------------------------------- MODULE Sync ---------------------------------
(***************************************************************************)
(* The sync service: SNTSyncManager and its stages in santasyncservice,    *)
(* SNTSyncdQueue in santad that starts and stops the service and posts     *)
(* events at once, the event database, and the settings they share         *)
(* (Configurator).                                                         *)
(*                                                                         *)
(* A full sync runs preflight, event upload, rule download and postflight  *)
(* on the serial syncQueue; syncLimiter admits two.  A rule sync runs the  *)
(* download on the same queue.  A push notification runs all stages, or    *)
(* the preflight alone, on the thread that delivered it: the second        *)
(* "thread" below.                                                         *)
(*                                                                         *)
(* A timer may fire at any time: intervals, rescheduling and reachability  *)
(* only choose when.  Requests to the server fail or succeed as a whole    *)
(* (their five attempts included).                                         *)
(***************************************************************************)
EXTENDS Configurator, Naturals, SequencesExt

CONSTANTS
    Events,                      \* blocked executions of one binary
    EnableCleanSyncEventUpload,  \* the setting of that name
    MaxDisturbances,             \* bound: profiles installed, syncs a user asks for, push
                                 \* notifications, crashes, failed requests and timeouts
    MaxPending                   \* bound: blocks on the main queue when more are added

kMaxEnqueuedSyncs == 2

(* The settings the service runs for: any of them will do.                   *)
ServiceKeys == {"SyncBaseURL", "EnableStatsCollection", "EnableTelemetryExport"}

(* They are followed, and so is the one that a sync asks for.                *)
ASSUME SyncKeysAssumption == ServiceKeys \cup {"SyncTypeRequired"} \subseteq Keys

SyncTypes == {"Normal", "Clean", "CleanAll"}

Rank(t) == CASE t = "Normal" -> 0 [] t = "Clean" -> 1 [] t = "CleanAll" -> 2

Threads == {"syncQueue", "push"}

VARIABLES
    connected,    \* santad: syncConnection.isConnected, and the service runs
    reassess,     \* santad: the timer of reassessSyncServiceConnection is set
    previousURL,  \* santad: previousSyncBaseURL
    clearing,     \* santad: clearSyncState is due ten minutes after
    posts,        \* events posted to the service and not answered
    limiter,      \* service: value of syncLimiter
    jobs,         \* service: blocks of syncQueue that did not start
    ruleTimer,    \* service: ruleSyncTimer is set
    token,        \* service: the XSRF token ("none", "good", "expired")
    run,          \* service: per thread, the sync that runs and its SNTSyncState
    made,         \* events that happened
    db,           \* the event table
    sent,         \* events that the server got
    dropped,      \* events that a clean sync removed without sending them
    leaked,       \* places of the limiter that timeouts did not give back
    owed,         \* the cleaning a user asked for and nothing did yet
    left          \* what is left of MaxDisturbances

daemonVars == <<connected, reassess, previousURL, clearing>>
eventVars == <<posts, made, db, sent, dropped>>
serviceVars == <<limiter, jobs, ruleTimer, token, run, leaked>>
vars == <<configVars, daemonVars, eventVars, serviceVars, owed, left>>

(* A sync: what started it, its stage, the type performed, the events read,  *)
(* whether rules were added, and, of a cleaning one, whether no request for  *)
(* cleaning came since the preflight read the type required.                 *)
Idle == [kind |-> "none", stage |-> "idle", syncType |-> "Normal", events |-> {},
         added |-> FALSE, current |-> FALSE]

Disturb == left > 0 /\ left' = left - 1

(* createSyncStateWithStatus: without a server there is no sync.             *)
CanSync == syncBaseURL("santasyncservice") # None

(* A request for cleaning, or the end of one, that santad did not apply yet. *)
TypeUpdates == {i \in DOMAIN mainQueue : mainQueue[i].key = "SyncTypeRequired"}

TypePending == TypeUpdates # {}

(* A request is answered unless the server refuses the token: a token is     *)
(* fetched only by a session that has none.                                  *)
Authorized == token # "expired"

-----------------------------------------------------------------------------
(* The service starts with a full timer, an empty queue and no token.        *)
ServiceStart ==
    /\ limiter' = kMaxEnqueuedSyncs
    /\ jobs' = <<>>
    /\ ruleTimer' = FALSE
    /\ token' = "none"
    /\ run' = [t \in Threads |-> Idle]
    /\ leaked' = 0

(* The first profile names a server; later ones need not.                    *)
SyncInit ==
    /\ ConfigInit
    /\ profile["SyncBaseURL"] # None
    /\ connected = FALSE /\ reassess = TRUE /\ previousURL = None /\ clearing = FALSE
    /\ posts = {}
    /\ limiter = kMaxEnqueuedSyncs /\ jobs = <<>> /\ ruleTimer = FALSE
    /\ token = "none" /\ run = [t \in Threads |-> Idle] /\ leaked = 0
    /\ made = {} /\ db = {} /\ sent = {} /\ dropped = {}
    /\ owed = "Normal"
    /\ left = MaxDisturbances

(* The connection breaks and the service is gone, with what it was asked.    *)
(* Its invalidation handler reassesses the connection.                       *)
Disconnect ==
    /\ connected' = FALSE
    /\ reassess' = TRUE
    /\ posts' = {}
    /\ ServiceStart

-----------------------------------------------------------------------------
(* santad: the timer of reassessSyncServiceConnection fires.                 *)

Wanted ==
    \/ syncBaseURL("santad") # None
    \/ enableStatsCollection("santad")
    \/ enableTelemetryExport("santad")

(* A server changed under a running service: the service is stopped, and     *)
(* its end reassesses the connection.                                        *)
Bounce ==
    /\ reassess
    /\ previousURL \notin {None, syncBaseURL("santad")} /\ connected
    /\ Disconnect
    /\ UNCHANGED <<configVars, previousURL, clearing, made, db, sent, dropped, owed, left>>

(* The connection is made, or times out and is invalidated.  A pending       *)
(* clearSyncState is cancelled if it was registered on this thread.          *)
Establish ==
    /\ reassess
    /\ previousURL \in {None, syncBaseURL("santad")} \/ ~connected
    /\ Wanted
    /\ previousURL' = syncBaseURL("santad")
    /\ clearing' \in IF syncBaseURL("santad") # None THEN {FALSE, clearing} ELSE {clearing}
    /\ \/ connected /\ reassess' = FALSE
          /\ UNCHANGED <<connected, serviceVars, configVars, left>>
       \/ ~connected /\ connected' = TRUE /\ reassess' = FALSE
          /\ ServiceStart
          /\ configState' = [configState EXCEPT !["santasyncservice"] = profile]
          /\ UNCHANGED <<profile, syncState, stateFile, mainQueue, unsaved, left>>
       \/ ~connected /\ Disturb /\ UNCHANGED <<connected, reassess, serviceVars, configVars>>
    /\ UNCHANGED <<eventVars, owed>>

(* Nothing needs the service: it is stopped, and the sync state is to be     *)
(* forgotten in ten minutes.                                                 *)
TearDown ==
    /\ reassess
    /\ previousURL \in {None, syncBaseURL("santad")} \/ ~connected
    /\ ~Wanted
    /\ previousURL' = None
    /\ clearing' = TRUE
    /\ IF connected THEN Disconnect
       ELSE reassess' = FALSE /\ UNCHANGED <<connected, posts, serviceVars>>
    /\ UNCHANGED <<configVars, made, db, sent, dropped, owed, left>>

(* The ten minutes are over.  What a user asked for is forgotten too; the    *)
(* empty state asks for everything to be cleaned.                            *)
Clear ==
    /\ clearing
    /\ clearing' = FALSE
    /\ ClearSyncState
    /\ owed' = "Normal"
    /\ UNCHANGED <<connected, reassess, previousURL, eventVars, serviceVars, left>>

(* A profile changes; santad's observers of the server, of statistics        *)
(* collection and of telemetry export reassess the connection.               *)
Install ==
    /\ Disturb
    /\ \E p \in Profiles : InstallProfile(p)
    /\ UNCHANGED <<daemonVars, eventVars, serviceVars, owed>>

NoticeProfile(p) ==
    /\ p = "santasyncservice" => connected
    /\ HandleChange(p)
    /\ reassess' = \/ reassess
                   \/ /\ p = "santad"
                      /\ \E k \in ServiceKeys : configState'[p][k] # configState[p][k]
    /\ UNCHANGED <<connected, previousURL, clearing, eventVars, serviceVars, owed, left>>

(* The main queue runs a block.  A request that cannot be saved because no   *)
(* server is configured any more is only kept in memory.                     *)
MainQueueRuns ==
    /\ ApplyUpdate
    /\ owed' = IF Head(mainQueue).key = "SyncTypeRequired" /\ ~SyncStateAccessAuthorized
               THEN "Normal" ELSE owed
    /\ UNCHANGED <<daemonVars, eventVars, serviceVars, left>>

(* santad dies and starts again; the service exits when its connection is    *)
(* lost.  A request that was not saved is lost, and so is every one if the   *)
(* file is not read.                                                         *)
SantadCrash ==
    /\ Disturb
    /\ StartConfigurator
    /\ Disconnect
    /\ previousURL' = None /\ clearing' = FALSE
    /\ owed' = IF TypePending \/ profile["SyncBaseURL"] = None THEN "Normal" ELSE owed
    /\ UNCHANGED <<made, db, sent, dropped>>

ServiceCrash ==
    /\ connected
    /\ Disturb
    /\ Disconnect
    /\ UNCHANGED <<configVars, previousURL, clearing, made, db, sent, dropped, owed>>

-----------------------------------------------------------------------------
(* Events: a blocked execution is stored, and posted to the service unless   *)
(* its binary was posted in the last ten minutes (uploadBackoff, which       *)
(* decides nothing else).  A message to a connection that is not there is    *)
(* not sent, and its reply never comes.                                      *)
AddStoredEvent(e) ==
    /\ e \notin made
    /\ made' = made \cup {e}
    /\ db' = db \cup {e}
    /\ posts' \in IF connected THEN {posts, posts \cup {e}} ELSE {posts}
    /\ UNCHANGED <<configVars, daemonVars, serviceVars, sent, dropped, owed, left>>

(* postEventsToSyncServer: no sync state and no reply; or the events are     *)
(* sent and removed; or the request fails.                                   *)
PostEvents(e) ==
    /\ e \in posts
    /\ posts' = posts \ {e}
    /\ \/ ~CanSync /\ UNCHANGED <<db, sent, left>>
       \/ /\ CanSync /\ Authorized
          /\ sent' = sent \cup {e}
          /\ db' = db \ {e}
          /\ UNCHANGED <<left>>
       \/ /\ CanSync
          /\ IF Authorized THEN Disturb ELSE UNCHANGED left
          /\ UNCHANGED <<db, sent>>
    /\ UNCHANGED <<configVars, daemonVars, serviceVars, made, dropped, owed>>

-----------------------------------------------------------------------------
(* Accepting syncs.                                                          *)

(* syncType:withReply: with a place in the limiter the sync is queued;       *)
(* without one it is refused.                                                *)
AcceptSync(type) ==
    IF limiter = 0 THEN UNCHANGED <<limiter, jobs>>
    ELSE /\ limiter' = limiter - 1
         /\ jobs' = Append(jobs, [kind |-> "full", type |-> type])

(* Mutant of FullSyncTimer: the timer is not set again after a sync.         *)
FullSyncOnce ==
    /\ connected /\ CanSync /\ token = "none"
    /\ limiter > 0 /\ jobs = <<>> /\ run["syncQueue"] = Idle
    /\ AcceptSync("Normal")
    /\ UNCHANGED <<configVars, daemonVars, eventVars, ruleTimer, token, run, leaked, owed, left>>

(* The interval is ten minutes or more: bounded to one sync at a time.       *)
FullSyncTimer ==
    /\ connected /\ CanSync
    /\ limiter > 0 /\ jobs = <<>> /\ run["syncQueue"] = Idle
    /\ AcceptSync("Normal")
    /\ UNCHANGED <<configVars, daemonVars, eventVars, ruleTimer, token, run, leaked, owed, left>>

(* santactl sync, with cleaning; without, it does what the timer does.       *)
UserSync(type) ==
    /\ connected
    /\ Disturb
    /\ AcceptSync(type)
    /\ UNCHANGED <<configVars, daemonVars, eventVars, ruleTimer, token, run, leaked, owed>>

(* A push notification: a rule sync by its timer, or a sync or a preflight   *)
(* on the thread of the notification.                                        *)
PushNotification(kind) ==
    /\ connected
    /\ Disturb
    /\ \/ /\ kind = "rule"
          /\ ruleTimer' = TRUE
          /\ UNCHANGED run
       \/ /\ kind # "rule" /\ CanSync /\ run["push"] = Idle
          /\ run' = [run EXCEPT !["push"] = [Idle EXCEPT !.kind = kind, !.stage = "preflight"]]
          /\ UNCHANGED ruleTimer
    /\ UNCHANGED <<configVars, daemonVars, eventVars, limiter, jobs, token, leaked, owed>>

RuleSyncTimer ==
    /\ connected /\ CanSync /\ ruleTimer
    /\ ruleTimer' = FALSE
    /\ jobs' = Append(jobs, [kind |-> "rule", type |-> "Normal"])
    /\ UNCHANGED <<configVars, daemonVars, eventVars, limiter, token, run, leaked, owed, left>>

-----------------------------------------------------------------------------
(* Running them.                                                             *)

Go(t, stage) == run' = [run EXCEPT ![t].stage = stage]

(* Mutant of End: a place is given back after a success only.                *)
EndSuccess(t) ==
    /\ run' = [run EXCEPT ![t] = Idle]
    /\ limiter' = IF run[t].kind = "full" /\ run[t].stage = "postflight" THEN limiter + 1 ELSE limiter

(* A sync ends, well or not: the block signals the limiter.                  *)
End(t) ==
    /\ run' = [run EXCEPT ![t] = Idle]
    /\ limiter' = IF run[t].kind = "full" THEN limiter + 1 ELSE limiter

(* updateSyncSettings with the sync type: the user's request reaches santad. *)
RequestType(type) ==
    /\ Enqueue(Update("SyncTypeRequired", type))
    /\ owed' = type
    /\ UNCHANGED <<profile, configState, syncState, stateFile, unsaved>>

(* No sync that runs has seen it.                                            *)
Unseen == [t \in Threads |-> [run[t] EXCEPT !.current = FALSE]]

(* The queue takes a block.  A cleaning request is stored first: if santad   *)
(* does not reply within two seconds the block returns, without signalling   *)
(* the limiter.  Without a server a full sync ends and a rule sync does not  *)
(* start.                                                                    *)
StartJob ==
    LET job == Head(jobs)
        first == IF job.kind = "rule" THEN "download" ELSE "preflight"
        timedOut == job.kind = "full" /\ job.type # "Normal" /\ Disturb
        others == IF job.type = "Normal" THEN run ELSE Unseen
    IN  /\ connected /\ jobs # <<>> /\ run["syncQueue"] = Idle
        /\ Len(mainQueue) <= MaxPending
        /\ jobs' = Tail(jobs)
        /\ IF job.type = "Normal" THEN UNCHANGED <<configVars, owed>> ELSE RequestType(job.type)
        /\ \/ timedOut /\ leaked' = leaked + 1 /\ run' = others /\ UNCHANGED limiter
           \/ /\ IF CanSync
                 THEN /\ run' = [others EXCEPT !["syncQueue"] =
                                    [Idle EXCEPT !.kind = job.kind, !.stage = first]]
                      /\ UNCHANGED limiter
                 ELSE /\ limiter' = IF job.kind = "full" THEN limiter + 1 ELSE limiter
                      /\ run' = others
              /\ UNCHANGED <<leaked, left>>
        /\ UNCHANGED <<daemonVars, eventVars, ruleTimer, token>>

(* A stage's request fails: the run is aborted.                              *)
Abort(t) ==
    /\ run[t].stage \in {"preflight", "download"}
    /\ IF Authorized THEN Disturb ELSE UNCHANGED left
    /\ End(t)
    /\ UNCHANGED <<configVars, daemonVars, eventVars, jobs, ruleTimer, token, leaked, owed>>

(* Mutant of PerformedType: the server decides alone.                        *)
ServerDecides(asked, answer) == answer

(* The table of the preflight: the server's answer, but a client that wants  *)
(* everything removed gets that instead of a clean sync.                     *)
PerformedType(asked, answer) ==
    IF answer = "Clean" /\ asked = "CleanAll" THEN "CleanAll" ELSE answer

(* The preflight reads the required type from santad and asks the server.    *)
Preflight(t, answer) ==
    /\ run[t].stage = "preflight" /\ Authorized
    /\ token' = "good"
    /\ IF run[t].kind = "preflight" THEN End(t)
       ELSE LET type == PerformedType(syncTypeRequired, answer)
            IN  /\ run' = [run EXCEPT ![t].stage = "upload", ![t].syncType = type,
                                      ![t].current = type # "Normal" /\ ~TypePending]
                /\ UNCHANGED limiter
    /\ UNCHANGED <<configVars, daemonVars, eventVars, jobs, ruleTimer, leaked, owed, left>>

(* The server forgets the session.                                           *)
TokenExpires ==
    /\ connected /\ token = "good"
    /\ Disturb
    /\ token' = "expired"
    /\ UNCHANGED <<configVars, daemonVars, eventVars, limiter, jobs, ruleTimer, run, leaked, owed>>

AfterUpload(events) == IF events = {} THEN "download" ELSE "uploading"

ReadPending(t) ==
    /\ run[t].stage = "upload"
    /\ run' = [run EXCEPT ![t].stage = AfterUpload(db), ![t].events = db]
    /\ UNCHANGED <<configVars, daemonVars, eventVars, limiter, jobs, ruleTimer, token, leaked, owed, left>>

(* Mutant of UploadBatch: a batch is removed before it is sent.              *)
RemoveBeforeSending(t) ==
    \E e \in run[t].events :
        /\ run[t].stage = "uploading"
        /\ db' = db \ {e}
        /\ run' = [run EXCEPT ![t].events = @ \ {e}, ![t].stage = AfterUpload(run[t].events \ {e})]
        /\ \/ Authorized /\ sent' = sent \cup {e} /\ UNCHANGED <<left, dropped>>
           \/ Disturb /\ UNCHANGED <<sent, dropped>>
        /\ UNCHANGED <<configVars, daemonVars, posts, made, limiter, jobs, ruleTimer, token, leaked, owed>>

(* A batch of one event is sent and removed from the database.  A clean      *)
(* sync removes it without sending it, unless it is configured to send.      *)
(* A failure ends the upload and is not reported: the sync goes on.          *)
UploadBatch(t) ==
    \E e \in run[t].events :
        /\ run[t].stage = "uploading"
        /\ \/ /\ run[t].syncType = "Normal" \/ EnableCleanSyncEventUpload
              /\ Authorized
              /\ sent' = sent \cup {e} /\ db' = db \ {e}
              /\ run' = [run EXCEPT ![t].events = @ \ {e}, ![t].stage = AfterUpload(run[t].events \ {e})]
              /\ UNCHANGED <<dropped, left>>
           \/ /\ run[t].syncType = "Normal" \/ EnableCleanSyncEventUpload
              /\ IF Authorized THEN Disturb ELSE UNCHANGED left
              /\ run' = [run EXCEPT ![t].events = {}, ![t].stage = "download"]
              /\ UNCHANGED <<sent, db, dropped>>
           \/ /\ run[t].syncType # "Normal" /\ ~EnableCleanSyncEventUpload
              /\ db' = db \ {e}
              /\ dropped' = IF e \in db \ sent THEN dropped \cup {e} ELSE dropped
              /\ run' = [run EXCEPT ![t].events = @ \ {e}, ![t].stage = AfterUpload(run[t].events \ {e})]
              /\ UNCHANGED <<sent, left>>
        /\ UNCHANGED <<configVars, daemonVars, posts, made, limiter, jobs, ruleTimer, token, leaked, owed>>

(* The rules of the server: none, and the stage is over; or some.            *)
Download(t, some) ==
    /\ run[t].stage = "download" /\ Authorized
    /\ IF some THEN Go(t, "add") /\ UNCHANGED limiter
       ELSE IF run[t].kind = "rule" THEN End(t)
       ELSE Go(t, "postflight") /\ UNCHANGED limiter
    /\ UNCHANGED <<configVars, daemonVars, eventVars, jobs, ruleTimer, token, leaked, owed, left>>

LastSuccess == Update("FullSyncLastSuccess", "now") \o Update("RuleSyncLastSuccess", "now")

(* SyncTypeToRuleCleanup: what a sync of that type removes is at least what  *)
(* was owed.                                                                 *)
Cleaned(type) == IF Rank(type) >= Rank(owed) THEN "Normal" ELSE owed

(* santad adds the rules and cleans up in one transaction, and the rule      *)
(* sync is recorded; or the transaction fails; or santad takes more than     *)
(* five minutes, and the service gives up.                                   *)
AddRules(t) ==
    /\ run[t].stage = "add" /\ Len(mainQueue) <= MaxPending
    /\ \/ /\ IF run[t].kind = "rule" THEN End(t)
             ELSE run' = [run EXCEPT ![t].stage = "postflight", ![t].added = TRUE] /\ UNCHANGED limiter
          /\ owed' = Cleaned(run[t].syncType)
          /\ Enqueue(LastSuccess)
          /\ UNCHANGED left
       \/ /\ End(t)
          /\ Disturb
          /\ owed' \in {owed, Cleaned(run[t].syncType)}
          /\ UNCHANGED mainQueue
    /\ UNCHANGED <<profile, configState, syncState, stateFile, unsaved, daemonVars, eventVars, jobs,
                   ruleTimer, token, leaked>>

(* The settings that the server sent with the preflight; a cleaning sync     *)
(* ends the requirement.                                                     *)
PostflightConfigBundle(type) ==
    Update("ClientMode", "Lockdown")
    \o (IF type = "Normal" THEN <<>> ELSE Update("SyncTypeRequired", "Normal"))
    \o Update("AllowedPathRegex", "expression")
    \o Update("DisableUnknownEventUpload", "yes")
    \o LastSuccess

(* The postflight's answer is not looked at.  A request for cleaning that    *)
(* came after the preflight is given up if this sync cleaned on its own, and *)
(* so is any request if the server had no rules to add.                      *)
Postflight(t) ==
    /\ run[t].stage = "postflight" /\ Len(mainQueue) <= MaxPending
    /\ Enqueue(PostflightConfigBundle(run[t].syncType))
    /\ owed' = IF run[t].syncType # "Normal" /\ ~(run[t].added /\ run[t].current)
               THEN "Normal" ELSE owed
    /\ End(t)
    /\ UNCHANGED <<profile, configState, syncState, stateFile, unsaved, daemonVars, eventVars, jobs,
                   ruleTimer, token, leaked, left>>

-----------------------------------------------------------------------------
Stage(t) ==
    \/ Abort(t) \/ ReadPending(t) \/ UploadBatch(t)
    \/ AddRules(t) \/ Postflight(t)
    \/ \E answer \in SyncTypes : Preflight(t, answer)
    \/ \E some \in BOOLEAN : Download(t, some)

Daemon ==
    \/ Bounce \/ Establish \/ TearDown \/ Clear \/ Install \/ MainQueueRuns
    \/ \E p \in Processes : NoticeProfile(p)
    \/ SantadCrash \/ ServiceCrash \/ TokenExpires

Next ==
    \/ Daemon
    \/ \E e \in Events : AddStoredEvent(e) \/ PostEvents(e)
    \/ FullSyncTimer \/ RuleSyncTimer \/ StartJob
    \/ \E type \in {"Clean", "CleanAll"} : UserSync(type)
    \/ \E kind \in {"rule", "push", "preflight"} : PushNotification(kind)
    \/ \E t \in Threads : Stage(t)

(* The timers of santad fire and its main queue runs what it holds; the      *)
(* service's timer fires, its queue runs what it holds and a stage ends      *)
(* (requests have time limits).  Nothing is assumed of the push thread.      *)
Fairness ==
    /\ WF_vars(Bounce \/ Establish \/ TearDown \/ MainQueueRuns \/ \E p \in Processes : NoticeProfile(p))
    /\ WF_vars(FullSyncTimer \/ StartJob \/ Stage("syncQueue"))

Spec == SyncInit /\ [][Next]_vars /\ Fairness

-----------------------------------------------------------------------------
Runs == [kind : {"none", "full", "rule", "push", "preflight"},
         stage : {"idle", "preflight", "upload", "uploading", "download", "add", "postflight"},
         syncType : SyncTypes, events : SUBSET Events, added : BOOLEAN, current : BOOLEAN]

(* Types, and: nothing of the service outlives it.                           *)
TypeOK ==
    /\ {connected, reassess, clearing, ruleTimer, unsaved} \subseteq BOOLEAN
    /\ limiter \in 0..kMaxEnqueuedSyncs /\ leaked \in 0..kMaxEnqueuedSyncs
    /\ run \in [Threads -> Runs]
    /\ token \in {"none", "good", "expired"} /\ owed \in SyncTypes
    /\ posts \subseteq made /\ db \subseteq made /\ sent \subseteq made /\ dropped \subseteq made
    /\ ~connected => posts = {} /\ jobs = <<>> /\ \A t \in Threads : run[t] = Idle

(* A full sync that was accepted holds one place of syncLimiter until it     *)
(* ends, however it ends; the only places missing are those of requests that *)
(* santad did not acknowledge in time (SNTSyncManager.mm:219).               *)
PermitsConserved ==
    limiter + leaked + Cardinality({i \in DOMAIN jobs : jobs[i].kind = "full"})
    + Cardinality({t \in Threads : run[t].kind = "full"}) = kMaxEnqueuedSyncs

(* An event leaves the database only after the server got it, or in a sync   *)
(* that starts from a clean slate: whatever fails, and whichever of the      *)
(* threads and the immediate post gets there first.                          *)
EventsKept == made \ db \subseteq sent \cup dropped

(* Cleaning that a user asked for stays required, across failed syncs and    *)
(* crashes of either process, until rules were added with that much cleaning *)
(* at least: the last update that is queued asks for it, or the setting.     *)
(* (What gives a request up is written where owed is reset.)                 *)
CleaningKept ==
    /\ TypeUpdates = {} => Rank(syncTypeRequired) >= Rank(owed)
    /\ \A i \in TypeUpdates :
         (\A j \in TypeUpdates : j <= i) => Rank(mainQueue[i].value) >= Rank(owed)

(* What santad would read back after a crash is what it has in memory,       *)
(* for every key that has a type, unless memory was changed while no server  *)
(* was configured.  (A regular expression comes back with an anchor.)        *)
RestartKeepsSettings ==
    ~unsaved => \A k \in (Keys \cap SyncServerKeyTypes) \ RegexKeys :
        readSyncStateFromDisk(stateFile)[k] = syncState[k]

HasServer == profile["SyncBaseURL"] # None

(* If a sync server stays configured, a stored event is removed in the end,  *)
(* unless both places of the limiter have leaked or the token has expired:   *)
(* until the service is started again nothing is sent then.                  *)
EventsArrive ==
    <>[]HasServer =>
        \A e \in Events :
            (e \in db) ~> (e \notin db \/ leaked = kMaxEnqueuedSyncs \/ token = "expired")
=============================================================================
