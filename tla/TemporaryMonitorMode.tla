------------------------ MODULE TemporaryMonitorMode ------------------------
(***************************************************************************)
(* Temporary Monitor Mode: a user asks for a while without enforcement,    *)
(* a timer ends it, the user or the sync server may end it earlier, and a  *)
(* restart of santad resumes it (TemporaryMonitorMode.mm over Timer.h, the *)
(* state it saves with SNTConfigurator.mm).                                *)
(*                                                                         *)
(* lock_ serializes the calls; timer_queue_ serializes the timer.  A call  *)
(* holds lock_ while it waits for the queue (dispatch_sync), and the       *)
(* timer's callback holds the queue while it waits for lock_.  Blocks that *)
(* dispatch_sync runs are atomic, so the queue is busy only while the      *)
(* callback is under way.  Time is not modelled: a timer may fire as soon  *)
(* as it is set (an interval of 0 is clamped to 1 second), and a saved     *)
(* deadline may have passed at any restart.  A request refused by          *)
(* Available or by the user changes nothing; SecondsRemaining takes lock_  *)
(* shared in the code, which two readers cannot tell from a lock.          *)
(***************************************************************************)
EXTENDS Naturals, Sequences, FiniteSets, SequencesExt

CONSTANTS
  Callers,      \* threads of XPC calls: santactl, the GUI, the sync service
  Servers,      \* values of SyncBaseURL (hosts)
  Pinned,       \* those that IsDomainPinned accepts
  MaxRequests,  \* bound: calls of RequestMinutes
  MaxChanges,   \* bound: policies received, changes of SyncBaseURL, restarts
  None

Main == "main"
Timer == "timer"
Threads == Callers \union {Main}
Sessions == 1..MaxRequests

ASSUME ConstantsAssumption ==
  /\ {Main, Timer} \intersect Callers = {} /\ None \notin Threads \union {Timer}
  /\ Pinned \subseteq Servers /\ None \notin Servers
  /\ MaxRequests \in Nat /\ MaxChanges \in Nat
  /\ None \notin [server : Servers, session : Sessions]

VARIABLES
  server,    \* SyncBaseURL
  policy,    \* the sync state holds an on-demand mode transition
  updates,   \* blocks of updateSyncStateForKey on the main queue
  saved,     \* savedTemporaryMonitorModeState, on disk
  inMode,    \* inTemporaryMonitorMode
  timer,     \* timer_source_ is set
  callback,  \* progress of TimerCallback
  lock,      \* holder of lock_
  uuid,      \* current_uuid_, 0 for nil
  op,        \* thread -> the call it is executing
  requests, changes,  \* counters of requests, outside events, UUIDs
  entered,   \* sessions with an Enter audit event
  left,      \* session -> number of its Leave audit events
  silent,    \* sessions that ended with a restart and without a Leave event
  late       \* the session began, or was resumed, although the policy was revoked

outside == <<server, policy>>
session == <<saved, inMode, late>>
clock == <<timer, callback>>
audit == <<entered, left, silent>>
counters == <<requests, changes>>
vars == <<outside, updates, session, clock, lock, uuid, op, counters, audit>>

Idle == [pc |-> "idle", what |-> "none", stale |-> FALSE, name |-> 0]
Step(t, pc) == op' = [op EXCEPT ![t].pc = pc]
Start(t, what) == op' = [op EXCEPT ![t] = [Idle EXCEPT !.pc = "lock", !.what = what]]
Done(t) == op' = [op EXCEPT ![t] = Idle]

(* The policy once the blocks on the main queue have run. *)
Effective == IF updates = <<>> THEN policy ELSE Last(updates)

Init ==
  /\ server \in Servers \union {None} /\ policy \in BOOLEAN /\ updates = <<>>
  /\ saved = None /\ inMode = FALSE /\ late = FALSE
  /\ timer = FALSE /\ callback = "idle" /\ lock = None /\ uuid = 0
  /\ op = [t \in Threads |-> Idle]
  /\ requests = 0 /\ changes = 0
  /\ entered = {} /\ left = [s \in Sessions |-> 0] /\ silent = {}

-----------------------------------------------------------------------------
(* Calls *)

Change == changes < MaxChanges /\ changes' = changes + 1

(* Of Available, what the model keeps: there is a policy, and the server is *)
(* pinned.  The client mode may refuse any request.                         *)
Available == policy /\ server \in Pinned

(* RequestMinutes, up to the authorization dialog.  UUIDs are random; the   *)
(* one of the session that the request may begin is its number.             *)
RequestMinutes(c) ==
  /\ op[c] = Idle /\ requests < MaxRequests /\ Available
  /\ requests' = requests + 1
  /\ op' = [op EXCEPT ![c] = [pc |-> "authorize", what |-> "begin", stale |-> ~Effective,
                             name |-> requests']]
  /\ UNCHANGED <<outside, updates, session, clock, lock, uuid, changes, audit>>

(* The user answers the dialog.  Whether there still is a policy decides    *)
(* about the duration only.                                                 *)
Authorize(c) ==
  /\ op[c].pc = "authorize"
  /\ Step(c, "lock") \/ Done(c)
  /\ UNCHANGED <<outside, updates, session, clock, lock, uuid, counters, audit>>

(* The other calls of the XPC interface, up to the lock. *)
Cancel(c) ==
  /\ op[c] = Idle
  /\ Start(c, "cancel")
  /\ UNCHANGED <<outside, updates, session, clock, lock, uuid, counters, audit>>

SecondsRemaining(c) ==
  /\ op[c] = Idle
  /\ Start(c, "remaining")
  /\ UNCHANGED <<outside, updates, session, clock, lock, uuid, counters, audit>>

(* NewModeTransitionReceived: a revocation takes the lock, a policy does    *)
(* not.                                                                     *)
NewModeTransitionReceived(c) ==
  /\ op[c] = Idle /\ Change
  /\ \/ /\ Start(c, "revoke")
        /\ UNCHANGED updates
     \/ /\ updates' = Append(updates, TRUE)
        /\ UNCHANGED op
  /\ UNCHANGED <<outside, session, clock, lock, uuid, requests, audit>>

(* SyncBaseURL changes: the observer revokes, on the main thread. *)
ServerChanged(s) ==
  /\ op[Main] = Idle /\ Change /\ s # server
  /\ server' = s
  /\ Start(Main, "revoke")
  /\ UNCHANGED <<policy, updates, session, clock, lock, uuid, requests, audit>>

(* The main queue runs a block of updateSyncStateForKey. *)
UpdateSyncState ==
  /\ op[Main] = Idle /\ updates # <<>>
  /\ policy' = Head(updates)
  /\ updates' = Tail(updates)
  /\ UNCHANGED <<server, session, clock, lock, uuid, op, counters, audit>>

-----------------------------------------------------------------------------
(* Under the lock *)

(* The lock is taken; RevokeLocked forgets the policy first, by a block on  *)
(* the main queue.  Requests under way do not notice.                       *)
Lock(t) ==
  /\ op[t].pc = "lock" /\ lock = None
  /\ lock' = t
  /\ IF op[t].what = "revoke"
     THEN /\ updates' = Append(updates, FALSE)
          /\ op' = [u \in Threads |-> IF u = t THEN [op[u] EXCEPT !.pc = "timer"]
                                      ELSE [op[u] EXCEPT !.stale = @ \/ op[u].what = "begin"]]
     ELSE Step(t, "timer") /\ UNCHANGED updates
  /\ UNCHANGED <<outside, session, clock, uuid, counters, audit>>

(* dispatch_sync on the timer's queue waits for the callback to finish. *)
OnQueue(t, what) == op[t].pc = "timer" /\ op[t].what = what /\ callback = "idle"

(* Mutant of StartTimer: a refresh gets a new UUID. *)
StartTimerRenames(t) ==
  /\ OnQueue(t, "begin")
  /\ timer' = TRUE
  /\ uuid' = op[t].name
  /\ Step(t, "enter")
  /\ UNCHANGED <<outside, updates, session, callback, lock, counters, audit>>

(* BeginLocked: StartTimerWithInterval starts the timer or sets it again,   *)
(* and a new timer means a new session.                                     *)
StartTimer(t) ==
  /\ OnQueue(t, "begin")
  /\ timer' = TRUE
  /\ IF timer THEN UNCHANGED uuid ELSE uuid' = op[t].name
  /\ Step(t, "enter")
  /\ UNCHANGED <<outside, updates, session, callback, lock, counters, audit>>

(* The state is saved and the mode entered.  Without a SyncBaseURL building *)
(* the dictionary raises an exception, which ends the call.                 *)
EnterMode(t) ==
  /\ op[t].pc = "enter"
  /\ \/ /\ server # None
        /\ saved' = [server |-> server, session |-> uuid]
        /\ inMode' = TRUE /\ late' = op[t].stale
        /\ Step(t, "enterAudit")
        /\ UNCHANGED lock
     \/ /\ server = None
        /\ lock' = None
        /\ Done(t)
        /\ UNCHANGED session
  /\ UNCHANGED <<outside, updates, clock, uuid, counters, audit>>

(* The Enter event ends RequestMinutes. *)
AuditEnter(t) ==
  /\ op[t].pc = "enterAudit"
  /\ entered' = entered \union {uuid}
  /\ lock' = None
  /\ Done(t)
  /\ UNCHANGED <<outside, updates, session, clock, uuid, counters, left, silent>>

(* SecondsRemaining asks whether the timer is started. *)
IsStarted(t) ==
  /\ OnQueue(t, "remaining")
  /\ lock' = None
  /\ Done(t)
  /\ UNCHANGED <<outside, updates, session, clock, uuid, counters, audit>>

(* Mutant of StopTimer: a revocation concerns future sessions only. *)
StopTimerCancelOnly(t) ==
  /\ OnQueue(t, "cancel") \/ OnQueue(t, "revoke")
  /\ IF timer /\ op[t].what = "cancel"
     THEN timer' = FALSE /\ Step(t, "leave") /\ UNCHANGED lock
     ELSE Done(t) /\ lock' = None /\ UNCHANGED timer
  /\ UNCHANGED <<outside, updates, session, callback, uuid, counters, audit>>

(* EndLocked, for Cancel and for Revoke: without a timer there is no        *)
(* session.                                                                 *)
StopTimer(t) ==
  /\ OnQueue(t, "cancel") \/ OnQueue(t, "revoke")
  /\ timer' = FALSE
  /\ IF timer THEN Step(t, "leave") /\ UNCHANGED lock ELSE Done(t) /\ lock' = None
  /\ UNCHANGED <<outside, updates, session, callback, uuid, counters, audit>>

(* leaveTemporaryMonitorMode *)
Leave == inMode' = FALSE /\ saved' = None /\ late' = FALSE

(* The rest of EndLocked. *)
LeaveMode(t) ==
  /\ op[t].pc = "leave"
  /\ Leave
  /\ Step(t, "leaveAudit")
  /\ UNCHANGED <<outside, updates, clock, lock, uuid, counters, audit>>

(* Mutant of AuditLeave: the event is not reported. *)
AuditLeaveSkipped(t) ==
  /\ op[t].pc = "leaveAudit"
  /\ uuid' = 0 /\ lock' = None
  /\ Done(t)
  /\ UNCHANGED <<outside, updates, session, clock, counters, audit>>

(* The Leave event of Cancel and RevokeLocked ends the call. *)
AuditLeave(t) ==
  /\ op[t].pc = "leaveAudit"
  /\ left' = [left EXCEPT ![uuid] = @ + 1]
  /\ uuid' = 0 /\ lock' = None
  /\ Done(t)
  /\ UNCHANGED <<outside, updates, session, clock, counters, entered, silent>>

-----------------------------------------------------------------------------
(* The timer *)

(* TimerCallback: the timer is stopped, then OnTimer waits for the lock ... *)
Fire ==
  /\ timer /\ callback = "idle"
  /\ timer' = FALSE
  /\ callback' = "waiting"
  /\ UNCHANGED <<outside, updates, session, lock, uuid, op, counters, audit>>

(* Mutant of OnTimer: the timer is scheduled again instead. *)
OnTimerReschedules ==
  /\ callback = "waiting" /\ lock = None
  /\ timer' = TRUE /\ callback' = "idle"
  /\ UNCHANGED <<outside, updates, session, lock, uuid, op, counters, audit>>

(* ... leaves the mode ... *)
OnTimer ==
  /\ callback = "waiting" /\ lock = None
  /\ lock' = Timer
  /\ Leave
  /\ callback' = "leaveAudit"
  /\ UNCHANGED <<outside, updates, timer, uuid, op, counters, audit>>

(* ... and reports it. *)
OnTimerAudit ==
  /\ callback = "leaveAudit"
  /\ left' = [left EXCEPT ![uuid] = @ + 1]
  /\ uuid' = 0 /\ lock' = None /\ callback' = "idle"
  /\ UNCHANGED <<outside, updates, session, timer, op, counters, entered, silent>>

-----------------------------------------------------------------------------
(* santad starts again *)

(* What GetSecondsRemainingFromInitialStateLocked finds: the Leave event it *)
(* reports, if any, and whether the session goes on.                        *)
Outcome(rebooted, remaining) ==
  CASE saved = None -> "none"
    [] saved # None /\ rebooted -> "left"
    [] saved # None /\ ~rebooted /\ (server' # saved.server \/ server' \notin Pinned) -> "revoked"
    [] OTHER -> CASE remaining = "plenty" -> "resumed" [] remaining = "few" -> "quiet" [] OTHER -> "left"

(* Everything but the saved state and the sync state is lost, at any point  *)
(* of any call; SetupFromState continues the session or leaves the mode.    *)
Restart(rebooted, remaining) ==
  /\ Change
  /\ server' \in Servers \union {None}
  /\ callback' = "idle" /\ lock' = None /\ op' = [t \in Threads |-> Idle]
  /\ uuid' = IF saved = None THEN 0 ELSE saved.session
  /\ LET out == Outcome(rebooted, remaining)
         known == IF saved = None THEN {} ELSE {saved.session}
         ended == {s \in entered \ known : left[s] = 0}
     IN  /\ updates' = IF out = "revoked" THEN <<FALSE>> ELSE <<>>
         /\ timer' = (out = "resumed") /\ inMode' = (out = "resumed")
         /\ saved' = IF out = "resumed" THEN saved ELSE None
         /\ late' = (out = "resumed" /\ ~policy)
         /\ entered' = IF out = "resumed" THEN entered \union known ELSE entered
         /\ left' = [s \in Sessions |-> left[s] + IF out = "left" /\ s \in known THEN 1 ELSE 0]
         /\ silent' = silent \union ended \union (IF out \in {"revoked", "quiet"} THEN known ELSE {})
  /\ UNCHANGED <<policy, requests>>

-----------------------------------------------------------------------------
Locked(t) ==
  \/ Lock(t) \/ StartTimer(t) \/ EnterMode(t) \/ AuditEnter(t) \/ IsStarted(t)
  \/ StopTimer(t) \/ LeaveMode(t) \/ AuditLeave(t)
Callback == OnTimer \/ OnTimerAudit

Next ==
  \/ \E c \in Callers :
       RequestMinutes(c) \/ Authorize(c) \/ Cancel(c) \/ SecondsRemaining(c) \/ NewModeTransitionReceived(c)
  \/ \E t \in Threads : Locked(t)
  \/ \E s \in Servers \union {None} : ServerChanged(s)
  \/ UpdateSyncState \/ Fire \/ Callback
  \/ \E rebooted \in BOOLEAN, remaining \in {"plenty", "few", "none"} : Restart(rebooted, remaining)

Spec == Init /\ [][Next]_vars

(* Threads and queues run what they have started, and a timer that is set   *)
(* fires.  Nothing is assumed of the user, who may never answer.            *)
FairSpec ==
  /\ Spec
  /\ \A t \in Threads : WF_vars(Locked(t))
  /\ WF_vars(UpdateSyncState) /\ WF_vars(Fire) /\ WF_vars(Callback)

-----------------------------------------------------------------------------
Pcs == {"idle", "authorize", "lock", "timer", "enter", "enterAudit", "leave", "leaveAudit"}
Whats == {"none", "begin", "cancel", "revoke", "remaining"}
Ops == [pc : Pcs, what : Whats, stale : BOOLEAN, name : Sessions \union {0}]

OpType == op \in [Threads -> Ops]
StateType ==
  /\ server \in Servers \union {None}
  /\ saved \in [server : Servers, session : Sessions] \union {None}
  /\ inMode \in BOOLEAN /\ timer \in BOOLEAN
  /\ callback \in {"idle", "waiting", "leaveAudit"}
  /\ lock \in Threads \union {Timer, None} /\ uuid \in Sessions \union {0}
HistoryType ==
  /\ policy \in BOOLEAN /\ updates \in Seq(BOOLEAN) /\ late \in BOOLEAN
  /\ requests \in 0..MaxRequests /\ changes \in 0..MaxChanges
  /\ entered \subseteq Sessions /\ left \in [Sessions -> Nat] /\ silent \subseteq Sessions
(* Every variable has its type: a running session is named by a UUID that *)
(* was generated (BeginLocked).                                            *)
TypeOK == OpType /\ StateType /\ HistoryType

(* A session always has somebody who ends it: the timer, the callback that  *)
(* stopped it, or the call that did (StopTimerSerialized, EndLocked).       *)
SessionsHaveEnd ==
  inMode => timer \/ callback = "waiting" \/ \E t \in Threads : op[t].pc = "leave"

(* What is saved for the next start is the session that is running, and     *)
(* nothing is saved when none is (enterTemporaryMonitorMode and the UUID    *)
(* that BeginLocked generates or keeps).                                    *)
SavedIsRunning == IF inMode THEN saved # None /\ saved.session = uuid ELSE saved = None

(* A session is never lost track of: while santad runs somebody ends it, and *)
(* if santad stops, what it saved says which session to resume.              *)
SessionsTracked == SessionsHaveEnd /\ SavedIsRunning

(* No session is reported as left twice, and a session that was reported as *)
(* entered and is not running any more was reported as left, or ended with  *)
(* a restart (the audit events of Cancel, RevokeLocked, OnTimer and         *)
(* SetupFromState).                                                         *)
AuditComplete ==
  \A s \in Sessions :
    /\ left[s] <= 1
    /\ s \in entered /\ left[s] = 0 => s = uuid \/ s \in silent

Revoking == \E t \in Threads : op[t].what = "revoke" /\ op[t].pc # "lock"

(* After a revocation there is no session, except for one that was asked    *)
(* for before, or resumed by a restart amid the revocation (RevokeLocked,   *)
(* RequestMinutes).                                                         *)
RevokedMeansOver == inMode /\ ~late /\ ~Revoking => Effective

(* The callback waits for the lock, whose holder waits for the callback. *)
Stuck == callback = "waiting" /\ \E t \in Threads : lock = t /\ op[t].pc = "timer"

(* Every session ends, unless the timer and a call wait for each other. *)
SessionsEndUnlessStuck == inMode ~> ~inMode \/ Stuck

(* "Enter Monitor Mode temporarily for the requested duration."             *)
(* (TemporaryMonitorMode.h): every session ends.                            *)
SessionsEnd == inMode ~> ~inMode
=============================================================================
