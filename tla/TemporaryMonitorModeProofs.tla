--------------------- MODULE TemporaryMonitorModeProofs ---------------------
(* Proofs about TemporaryMonitorMode, for any threads, servers, requests    *)
(* and changes: a session that is on has an end to come, a saved one is     *)
(* running, events name their session, a revoked session is over, and the   *)
(* audit reports every session once as entered and once as left.            *)
EXTENDS TemporaryMonitorMode, SequenceTheorems, TLAPS

Held == {"timer", "enter", "enterAudit", "leave", "leaveAudit"}

(* Who is past the lock holds it.                                           *)
LockInv ==
  /\ \A t \in Threads : op[t].pc \in Held <=> lock = t
  /\ callback = "leaveAudit" <=> lock = Timer

(* A timer, a callback and a call that has one of them to deal with know    *)
(* the session; a stopped timer stays stopped until that is done.           *)
NameInv ==
  /\ \A t \in Threads :
       /\ op[t].what = "begin" => op[t].name # 0
       /\ op[t].pc \in {"enter", "enterAudit", "leave", "leaveAudit"} => uuid # 0
       /\ op[t].pc \in {"leave", "leaveAudit"} => ~timer /\ callback = "idle"
  /\ timer \/ callback # "idle" => uuid # 0
  /\ callback # "idle" => ~timer

(* A call that is about to enter the mode has a timer or a callback.        *)
EndInv ==
  /\ SessionsHaveEnd
  /\ \A t \in Threads :
       /\ op[t].pc \in {"enter", "enterAudit"} => timer \/ callback = "waiting"
       /\ op[t].pc = "leaveAudit" => ~inMode
  /\ callback = "leaveAudit" => ~inMode

ModeInv == TypeOK /\ LockInv /\ NameInv /\ EndInv /\ SavedIsRunning

(* Nobody has asked for anything when santad is installed.                  *)
LEMMA ModeInvInit == Init => ModeInv
<1> SUFFICES ASSUME Init PROVE ModeInv
  OBVIOUS
<1>1. \A t \in Threads : op[t] = Idle
  BY DEF Init
<1>2. OpType /\ StateType
  BY <1>1, ConstantsAssumption DEF Init, OpType, StateType, Ops, Pcs, Whats, Idle
<1>3. HistoryType
  <2>1. updates \in Seq(BOOLEAN) /\ left \in [Sessions -> Nat]
    BY DEF Init
  <2>2. requests \in 0..MaxRequests /\ changes \in 0..MaxChanges
    BY ConstantsAssumption DEF Init
  <2> QED
    BY <2>1, <2>2 DEF Init, HistoryType
<1>4. LockInv /\ NameInv
  BY <1>1, ConstantsAssumption DEF Init, LockInv, NameInv, Held, Idle, Threads, Timer, Main
<1>5. EndInv /\ SavedIsRunning
  BY <1>1 DEF Init, EndInv, SessionsHaveEnd, SavedIsRunning, Idle
<1> QED
  BY <1>2, <1>3, <1>4, <1>5 DEF ModeInv, TypeOK

-----------------------------------------------------------------------------
(* What a thread's own step does to the calls.                              *)
LEMMA StepOp ==
  ASSUME OpType, NEW t \in Threads, NEW pc \in Pcs, Step(t, pc)
  PROVE  /\ OpType' /\ op'[t].pc = pc /\ op'[t].what = op[t].what /\ op'[t].name = op[t].name
         /\ \A u \in Threads \ {t} : op'[u] = op[u]
BY DEF OpType, Ops, Step

LEMMA StartOp ==
  ASSUME OpType, NEW t \in Threads, NEW what \in Whats, Start(t, what)
  PROVE  /\ OpType' /\ op'[t].pc = "lock" /\ op'[t].what = what
         /\ \A u \in Threads \ {t} : op'[u] = op[u]
BY DEF OpType, Ops, Start, Idle, Pcs

LEMMA DoneOp ==
  ASSUME OpType, NEW t \in Threads, Done(t)
  PROVE  OpType' /\ op'[t] = Idle /\ \A u \in Threads \ {t} : op'[u] = op[u]
BY DEF OpType, Ops, Done, Idle, Pcs, Whats

LEMMA AppendBool == \A s \in Seq(BOOLEAN), b \in BOOLEAN : Append(s, b) \in Seq(BOOLEAN)
OBVIOUS

LEMMA ChangeCounts ==
  ASSUME changes \in 0..MaxChanges, UNCHANGED changes \/ Change
  PROVE  changes' \in 0..MaxChanges
BY ConstantsAssumption DEF Change

-----------------------------------------------------------------------------
(* Calls that only begin or wait, and the events around them, touch nothing *)
(* the invariant is about but a thread outside the lock.                    *)
LEMMA OutsideLock ==
  ASSUME ModeInv, NEW t \in Threads, op[t].pc \notin Held, op'[t].pc \notin Held,
         op'[t].what = "begin" => op'[t].name # 0,
         \A u \in Threads \ {t} : op'[u] = op[u],
         UNCHANGED <<saved, inMode, timer, callback, lock, uuid>>, server' \in Servers \union {None},
         OpType', HistoryType'
  PROVE  ModeInv'
<1>1. StateType'
  BY DEF ModeInv, TypeOK, StateType
<1>2. LockInv'
  BY DEF ModeInv, LockInv
<1>3. NameInv'
  BY DEF ModeInv, NameInv, Held
<1>4. EndInv'
  BY DEF ModeInv, EndInv, SessionsHaveEnd, Held
<1>5. SavedIsRunning'
  BY DEF ModeInv, SavedIsRunning
<1> QED
  BY <1>1, <1>2, <1>3, <1>4, <1>5 DEF ModeInv, TypeOK

LEMMA CallsKeep ==
  ASSUME ModeInv, NEW c \in Threads,
         RequestMinutes(c) \/ Authorize(c) \/ Cancel(c) \/ SecondsRemaining(c) \/ NewModeTransitionReceived(c)
  PROVE  ModeInv'
<1>1. /\ UNCHANGED <<saved, inMode, timer, callback, lock, uuid, server>>
      /\ OpType /\ StateType /\ HistoryType
  BY DEF RequestMinutes, Authorize, Cancel, SecondsRemaining, NewModeTransitionReceived, outside, session, clock,
         ModeInv, TypeOK
<1>2. server' \in Servers \union {None}
  BY <1>1 DEF StateType
<1>3. CASE RequestMinutes(c)
  <2>1. requests + 1 \in Sessions /\ Effective \in BOOLEAN /\ requests' = requests + 1
    BY <1>1, <1>3, ConstantsAssumption DEF RequestMinutes, HistoryType, Sessions, Effective, Last
  <2>2. HistoryType'
    BY <1>1, <1>3, <2>1, ConstantsAssumption DEF RequestMinutes, HistoryType, outside, session, audit, Sessions
  <2>3. OpType' /\ op'[c].pc = "authorize" /\ op'[c].name = requests + 1 /\ \A u \in Threads \ {c} : op'[u] = op[u]
    BY <1>1, <1>3, <2>1 DEF RequestMinutes, OpType, Ops, Pcs, Whats
  <2>4. op[c].pc \notin Held /\ op'[c].pc \notin Held /\ op'[c].name # 0
    BY <1>3, <2>1, <2>3 DEF RequestMinutes, Idle, Held, Sessions
  <2> QED
    BY <1>1, <1>2, <2>2, <2>3, <2>4, OutsideLock
<1>4. CASE Authorize(c)
  <2>1. HistoryType'
    BY <1>1, <1>4 DEF Authorize, HistoryType, outside, session, counters, audit
  <2>2. /\ OpType' /\ op'[c].pc \in {"lock", "idle"} /\ (op'[c].what = "begin" => op'[c].name # 0)
        /\ \A u \in Threads \ {c} : op'[u] = op[u]
    BY <1>1, <1>4, StepOp, DoneOp DEF Authorize, Idle, ModeInv, NameInv, Pcs
  <2>3. op[c].pc \notin Held /\ op'[c].pc \notin Held
    BY <1>4, <2>2 DEF Authorize, Held
  <2> QED
    BY <1>1, <1>2, <2>1, <2>2, <2>3, OutsideLock
<1>5. CASE Cancel(c) \/ SecondsRemaining(c) \/ NewModeTransitionReceived(c)
  <2>1. HistoryType'
    <3>1. updates' \in Seq(BOOLEAN)
      <4>1. UNCHANGED updates \/ updates' = Append(updates, TRUE)
        BY <1>5 DEF Cancel, SecondsRemaining, NewModeTransitionReceived
      <4> QED
        BY <1>1, <4>1, AppendBool DEF HistoryType
    <3>2. UNCHANGED changes \/ Change
      BY <1>5 DEF Cancel, SecondsRemaining, NewModeTransitionReceived, counters
    <3>3. UNCHANGED <<policy, late, requests, entered, left, silent>>
      BY <1>5 DEF Cancel, SecondsRemaining, NewModeTransitionReceived, outside, session, counters, audit
    <3> QED
      BY <1>1, <3>1, <3>2, <3>3, ChangeCounts DEF HistoryType
  <2>2. op[c] = Idle
    BY <1>5 DEF Cancel, SecondsRemaining, NewModeTransitionReceived
  <2>3. (\E what \in Whats \ {"begin"} : Start(c, what)) \/ UNCHANGED op
    BY <1>5 DEF Cancel, SecondsRemaining, NewModeTransitionReceived, Whats
  <2>4. /\ OpType' /\ op'[c].pc \in {"lock", "idle"} /\ op'[c].what # "begin"
        /\ \A u \in Threads \ {c} : op'[u] = op[u]
    BY <1>1, <2>2, <2>3, StartOp DEF Idle, OpType
  <2>5. op[c].pc \notin Held /\ op'[c].pc \notin Held
    BY <2>2, <2>4 DEF Idle, Held
  <2> QED
    BY <1>1, <1>2, <2>1, <2>4, <2>5, OutsideLock
<1> QED
  BY <1>3, <1>4, <1>5

(* The sync server changes; the main queue updates the sync state.          *)
LEMMA MainKeeps ==
  ASSUME ModeInv, UpdateSyncState \/ \E s \in Servers \union {None} : ServerChanged(s)
  PROVE  ModeInv'
<1>1. /\ UNCHANGED <<saved, inMode, timer, callback, lock, uuid>> /\ op[Main] = Idle /\ Main \in Threads
      /\ OpType /\ StateType /\ HistoryType
  BY DEF UpdateSyncState, ServerChanged, session, clock, ModeInv, TypeOK, Threads
<1>2. server' \in Servers \union {None}
  BY <1>1 DEF UpdateSyncState, ServerChanged, StateType
<1>3. HistoryType'
  <2>1. updates' \in Seq(BOOLEAN) /\ policy' \in BOOLEAN
    BY <1>1, SMTT(20) DEF UpdateSyncState, ServerChanged, HistoryType
  <2>2. UNCHANGED changes \/ Change
    BY DEF UpdateSyncState, ServerChanged, counters
  <2>3. UNCHANGED <<late, requests, entered, left, silent>>
    BY DEF UpdateSyncState, ServerChanged, session, counters, audit
  <2> QED
    BY <1>1, <2>1, <2>2, <2>3, ChangeCounts DEF HistoryType
<1>4. UNCHANGED op \/ Start(Main, "revoke")
  BY DEF UpdateSyncState, ServerChanged
<1>5. /\ OpType' /\ op'[Main].pc \in {"lock", "idle"} /\ op'[Main].what # "begin"
      /\ \A u \in Threads \ {Main} : op'[u] = op[u]
  BY <1>1, <1>4, StartOp DEF Idle, OpType, Whats
<1>6. op[Main].pc \notin Held /\ op'[Main].pc \notin Held
  BY <1>1, <1>5 DEF Idle, Held
<1> QED
  BY <1>1, <1>2, <1>3, <1>5, <1>6, OutsideLock

-----------------------------------------------------------------------------
(* The holder of the lock is the only thread inside.                        *)
LEMMA Holder ==
  ASSUME ModeInv, NEW t \in Threads, op[t].pc \in Held
  PROVE  /\ lock = t /\ t # None /\ t # Timer /\ callback # "leaveAudit"
         /\ \A u \in Threads \ {t} : op[u].pc \notin Held
BY ConstantsAssumption DEF ModeInv, LockInv, Threads, Main, Timer

(* Nobody is inside.                                                        *)
LEMMA Nobody ==
  ASSUME ModeInv, lock = None
  PROVE  callback # "leaveAudit" /\ \A u \in Threads : op[u].pc \notin Held
BY ConstantsAssumption DEF ModeInv, LockInv, Threads, Timer

LEMMA LockKeeps == ASSUME ModeInv, NEW t \in Threads, Lock(t) PROVE ModeInv'
<1>1. OpType /\ StateType /\ HistoryType /\ UNCHANGED <<server, saved, inMode, timer, callback, uuid>>
  BY DEF ModeInv, TypeOK, Lock, outside, session, clock
<1>2. /\ OpType' /\ op'[t].pc = "timer" /\ op'[t].what = op[t].what /\ op'[t].name = op[t].name
      /\ \A u \in Threads \ {t} : op'[u].pc = op[u].pc /\ op'[u].what = op[u].what /\ op'[u].name = op[u].name
  <2>1. CASE op[t].what = "revoke"
    <3> DEFINE IsLate(u) == op[u].stale \/ op[u].what = "begin"
    <3>1. op' = [u \in Threads |-> IF u = t THEN [op[u] EXCEPT !.pc = "timer"] ELSE [op[u] EXCEPT !.stale = IsLate(u)]]
      BY <2>1 DEF Lock
    <3>2. op'[t] = [op[t] EXCEPT !.pc = "timer"]
      BY <3>1
    <3>3. \A u \in Threads : IsLate(u) \in BOOLEAN /\ op[u] \in Ops
      BY <1>1 DEF OpType
    <3> HIDE DEF IsLate
    <3>4. \A u \in Threads \ {t} : op'[u] = [op[u] EXCEPT !.stale = IsLate(u)]
      BY <3>1
    <3>5. op'[t] \in Ops /\ op'[t].pc = "timer" /\ op'[t].what = op[t].what /\ op'[t].name = op[t].name
      BY <3>2, <3>3 DEF Ops, Pcs
    <3>6. \A u \in Threads \ {t} :
            op'[u] \in Ops /\ op'[u].pc = op[u].pc /\ op'[u].what = op[u].what /\ op'[u].name = op[u].name
      BY <3>3, <3>4, ZenonT(30) DEF Ops
    <3>7. OpType'
      BY <3>1, <3>5, <3>6 DEF OpType
    <3> QED
      BY <3>5, <3>6, <3>7
  <2>2. CASE op[t].what # "revoke"
    BY <1>1, <2>2, StepOp DEF Lock, Pcs
  <2> QED
    BY <2>1, <2>2
<1>3. HistoryType'
  <2>1. UNCHANGED updates \/ updates' = Append(updates, FALSE)
    BY DEF Lock
  <2>2. UNCHANGED <<policy, late, requests, changes, entered, left, silent>>
    BY DEF Lock, outside, session, counters, audit
  <2> QED
    BY <1>1, <2>1, <2>2, AppendBool DEF HistoryType
<1>4. lock = None /\ lock' = t /\ op[t].pc = "lock"
  BY DEF Lock
<1>5. StateType'
  BY <1>1, <1>4 DEF StateType
<1>6. LockInv'
  <2>1. \A u \in Threads : op[u].pc \notin Held
    BY <1>4, Nobody
  <2>2. t # Timer /\ callback # "leaveAudit"
    BY <1>4, Nobody, ConstantsAssumption DEF Threads, Main, Timer
  <2> QED
    BY <1>1, <1>2, <1>4, <2>1, <2>2 DEF LockInv, Held
<1>7. NameInv'
  BY <1>1, <1>2 DEF ModeInv, NameInv
<1>8. EndInv' /\ SavedIsRunning'
  BY <1>1, <1>2, <1>4 DEF ModeInv, EndInv, SessionsHaveEnd, SavedIsRunning
<1> QED
  BY <1>2, <1>3, <1>5, <1>6, <1>7, <1>8 DEF ModeInv, TypeOK

(* Most steps under the lock leave the sync state and the audit trail.      *)
LEMMA HistoryStays ==
  ASSUME ModeInv, UNCHANGED <<policy, updates, late, requests, changes, entered, left, silent>>
  PROVE  HistoryType'
BY DEF ModeInv, TypeOK, HistoryType

(* The invariant after a step of the holder t, in terms of its own place.   *)
LEMMA HolderMoves ==
  ASSUME ModeInv, NEW t \in Threads, op[t].pc \in Held, OpType', StateType', HistoryType', SavedIsRunning',
         \A u \in Threads \ {t} : op'[u] = op[u],
         op'[t].pc \in Held => lock' = t,
         op'[t].pc \notin Held => lock' = None,
         UNCHANGED callback,
         op'[t].what = "begin" => op'[t].name # 0,
         op'[t].pc \in {"enter", "enterAudit", "leave", "leaveAudit"} \/ timer' \/ callback # "idle" => uuid' # 0,
         op'[t].pc \in {"leave", "leaveAudit"} => ~timer' /\ callback = "idle",
         callback # "idle" => ~timer',
         inMode' => timer' \/ callback = "waiting" \/ op'[t].pc = "leave",
         op'[t].pc \in {"enter", "enterAudit"} => timer' \/ callback = "waiting",
         op'[t].pc = "leaveAudit" => ~inMode'
  PROVE  ModeInv'
<1>1. /\ lock = t /\ t # None /\ t # Timer /\ callback # "leaveAudit"
      /\ \A u \in Threads \ {t} : op'[u].pc \notin Held
  BY Holder
<1>2. LockInv'
  BY <1>1, ConstantsAssumption DEF LockInv, Timer, Threads
<1>3. NameInv'
  BY <1>1 DEF ModeInv, NameInv, Held
<1>4. EndInv'
  BY <1>1 DEF EndInv, SessionsHaveEnd, Held
<1> QED
  BY <1>2, <1>3, <1>4 DEF ModeInv, TypeOK

(* BeginLocked gives a session a new UUID exactly when it starts the timer; *)
(* then no session can be running.                                          *)
LEMMA StartTimerKeeps == ASSUME ModeInv, NEW t \in Threads, StartTimer(t) PROVE ModeInv'
<1>1. op[t].pc = "timer" /\ op[t].what = "begin" /\ callback = "idle" /\ timer' = TRUE
  BY DEF StartTimer, OnQueue
<1>2. OpType /\ StateType /\ UNCHANGED <<server, saved, inMode, callback, lock>> /\ op[t].pc \in Held
  BY <1>1 DEF StartTimer, ModeInv, TypeOK, outside, session, Held
<1>3. HistoryType'
  BY HistoryStays DEF StartTimer, outside, session, counters, audit
<1>4. /\ OpType' /\ op'[t].pc = "enter" /\ op'[t].what = op[t].what /\ op'[t].name = op[t].name
      /\ \A u \in Threads \ {t} : op'[u] = op[u]
  BY <1>2, StepOp DEF StartTimer, Pcs
<1>5. op[t].name \in Sessions /\ op[t].name # 0
  BY <1>1, <1>2 DEF ModeInv, NameInv, OpType, Ops
<1>6. uuid' \in Sessions \union {0} /\ uuid' # 0
  BY <1>2, <1>5 DEF StartTimer, ModeInv, NameInv, StateType
<1>7. StateType'
  BY <1>1, <1>2, <1>6 DEF StateType
<1>8. lock = t /\ \A u \in Threads \ {t} : op[u].pc \notin Held
  BY <1>2, Holder
<1>9. SavedIsRunning'
  <2>1. CASE timer
    BY <1>2, <2>1 DEF StartTimer, ModeInv, SavedIsRunning
  <2>2. CASE ~timer
    <3>1. ~inMode
      BY <1>1, <1>8, <2>2 DEF ModeInv, EndInv, SessionsHaveEnd, Held
    <3> QED
      BY <1>2, <3>1 DEF ModeInv, SavedIsRunning
  <2> QED
    BY <2>1, <2>2
<1> QED
  BY <1>1, <1>2, <1>3, <1>4, <1>5, <1>6, <1>7, <1>8, <1>9, HolderMoves DEF Held

LEMMA EnterModeKeeps == ASSUME ModeInv, NEW t \in Threads, EnterMode(t) PROVE ModeInv'
<1>1. op[t].pc = "enter" /\ op[t].pc \in Held /\ UNCHANGED <<server, timer, callback, uuid>>
  BY DEF EnterMode, Held, outside, clock
<1>2. OpType /\ StateType /\ HistoryType
  BY DEF ModeInv, TypeOK
<1>3. lock = t
  BY <1>1, Holder
<1>4. uuid \in Sessions /\ uuid # 0 /\ (timer \/ callback = "waiting") /\ (callback # "idle" => ~timer)
  BY <1>1, <1>2 DEF ModeInv, NameInv, EndInv, StateType
<1>5. HistoryType'
  BY <1>2 DEF EnterMode, HistoryType, outside, session, counters, audit, OpType, Ops
<1>6. CASE server # None
  <2>1. saved' = [server |-> server, session |-> uuid] /\ inMode' = TRUE /\ UNCHANGED lock
    BY <1>6 DEF EnterMode
  <2>2. saved' \in [server : Servers, session : Sessions] /\ saved' # None
    BY <1>2, <1>4, <1>6, <2>1, ConstantsAssumption DEF StateType
  <2>3. StateType' /\ SavedIsRunning'
    BY <1>1, <1>2, <2>1, <2>2 DEF StateType, SavedIsRunning
  <2>4. /\ OpType' /\ op'[t].pc = "enterAudit" /\ op'[t].what = op[t].what /\ op'[t].name = op[t].name
        /\ \A u \in Threads \ {t} : op'[u] = op[u]
    BY <1>2, <1>6, StepOp DEF EnterMode, Pcs
  <2>5. op'[t].what = "begin" => op'[t].name # 0
    BY <2>4 DEF ModeInv, NameInv
  <2> QED
    BY <1>1, <1>3, <1>4, <1>5, <2>1, <2>3, <2>4, <2>5, HolderMoves DEF Held
<1>7. CASE server = None
  <2>1. UNCHANGED <<saved, inMode>> /\ lock' = None
    BY <1>7 DEF EnterMode, session
  <2>2. StateType' /\ SavedIsRunning'
    BY <1>1, <1>2, <2>1 DEF StateType, SavedIsRunning, ModeInv
  <2>3. OpType' /\ op'[t].pc = "idle" /\ op'[t].what = "none" /\ \A u \in Threads \ {t} : op'[u] = op[u]
    BY <1>2, <1>7, DoneOp DEF EnterMode, Idle
  <2> QED
    BY <1>1, <1>4, <1>5, <2>1, <2>2, <2>3, HolderMoves DEF Held
<1> QED
  BY <1>6, <1>7

(* The Enter event, and SecondsRemaining: the call ends.                    *)
LEMMA AuditEnterKeeps == ASSUME ModeInv, NEW t \in Threads, AuditEnter(t) PROVE ModeInv'
<1>1. op[t].pc = "enterAudit" /\ op[t].pc \in Held /\ UNCHANGED <<server, saved, inMode, timer, callback, uuid>>
  BY DEF AuditEnter, Held, outside, session, clock
<1>2. OpType /\ StateType /\ HistoryType /\ lock' = None
  BY DEF ModeInv, TypeOK, AuditEnter
<1>3. uuid \in Sessions /\ uuid # 0 /\ (timer \/ callback = "waiting") /\ (callback # "idle" => ~timer)
  BY <1>1, <1>2 DEF ModeInv, NameInv, EndInv, StateType
<1>4. HistoryType'
  BY <1>2, <1>3 DEF AuditEnter, HistoryType, outside, session, counters
<1>5. StateType' /\ SavedIsRunning'
  BY <1>1, <1>2 DEF StateType, SavedIsRunning, ModeInv
<1>6. OpType' /\ op'[t].pc = "idle" /\ op'[t].what = "none" /\ \A u \in Threads \ {t} : op'[u] = op[u]
  BY <1>2, DoneOp DEF AuditEnter, Idle
<1> QED
  BY <1>1, <1>2, <1>3, <1>4, <1>5, <1>6, HolderMoves DEF Held

LEMMA IsStartedKeeps == ASSUME ModeInv, NEW t \in Threads, IsStarted(t) PROVE ModeInv'
<1>1. op[t].pc = "timer" /\ op[t].pc \in Held /\ UNCHANGED <<server, saved, inMode, timer, callback, uuid>>
  BY DEF IsStarted, OnQueue, Held, outside, session, clock
<1>2. OpType /\ StateType /\ lock' = None
  BY DEF ModeInv, TypeOK, IsStarted
<1>3. \A u \in Threads \ {t} : op[u].pc \notin Held
  BY <1>1, Holder
<1>4. (inMode => timer \/ callback = "waiting") /\ (timer \/ callback # "idle" => uuid # 0) /\ (callback # "idle" => ~timer)
  BY <1>1, <1>3 DEF ModeInv, NameInv, EndInv, SessionsHaveEnd, Held
<1>5. HistoryType'
  BY HistoryStays DEF IsStarted, outside, session, counters, audit
<1>6. StateType' /\ SavedIsRunning'
  BY <1>1, <1>2 DEF StateType, SavedIsRunning, ModeInv
<1>7. OpType' /\ op'[t].pc = "idle" /\ op'[t].what = "none" /\ \A u \in Threads \ {t} : op'[u] = op[u]
  BY <1>2, DoneOp DEF IsStarted, Idle
<1> QED
  BY <1>1, <1>2, <1>4, <1>5, <1>6, <1>7, HolderMoves DEF Held

(* EndLocked: the call that stops the timer leaves the mode itself.         *)
LEMMA StopTimerKeeps == ASSUME ModeInv, NEW t \in Threads, StopTimer(t) PROVE ModeInv'
<1>1. /\ op[t].pc = "timer" /\ op[t].what # "begin" /\ callback = "idle" /\ timer' = FALSE /\ op[t].pc \in Held
      /\ UNCHANGED <<server, saved, inMode, callback, uuid>>
  BY DEF StopTimer, OnQueue, Held, outside, session
<1>2. OpType /\ StateType /\ lock = t
  BY <1>1, Holder DEF ModeInv, TypeOK
<1>3. \A u \in Threads \ {t} : op[u].pc \notin Held
  BY <1>1, Holder
<1>4. (inMode => timer) /\ (timer => uuid # 0)
  BY <1>1, <1>3 DEF ModeInv, NameInv, EndInv, SessionsHaveEnd, Held
<1>5. HistoryType'
  BY HistoryStays DEF StopTimer, outside, session, counters, audit
<1>6. CASE timer
  <2>1. UNCHANGED lock /\ Step(t, "leave")
    BY <1>6 DEF StopTimer
  <2>2. StateType' /\ SavedIsRunning'
    BY <1>1, <1>2, <2>1 DEF StateType, SavedIsRunning, ModeInv
  <2>3. OpType' /\ op'[t].pc = "leave" /\ op'[t].what = op[t].what /\ \A u \in Threads \ {t} : op'[u] = op[u]
    BY <1>2, <2>1, StepOp DEF Pcs
  <2> QED
    BY <1>1, <1>2, <1>4, <1>5, <1>6, <2>1, <2>2, <2>3, HolderMoves DEF Held
<1>7. CASE ~timer
  <2>1. lock' = None /\ Done(t)
    BY <1>7 DEF StopTimer
  <2>2. StateType' /\ SavedIsRunning'
    BY <1>1, <1>2, <2>1 DEF StateType, SavedIsRunning, ModeInv
  <2>3. OpType' /\ op'[t].pc = "idle" /\ op'[t].what = "none" /\ \A u \in Threads \ {t} : op'[u] = op[u]
    BY <1>2, <2>1, DoneOp DEF Idle
  <2> QED
    BY <1>1, <1>4, <1>5, <1>7, <2>1, <2>2, <2>3, HolderMoves DEF Held
<1> QED
  BY <1>6, <1>7

LEMMA LeaveModeKeeps == ASSUME ModeInv, NEW t \in Threads, LeaveMode(t) PROVE ModeInv'
<1>1. /\ op[t].pc = "leave" /\ op[t].pc \in Held /\ UNCHANGED <<server, timer, callback, lock, uuid>>
      /\ inMode' = FALSE /\ saved' = None /\ late' = FALSE
  BY DEF LeaveMode, Leave, Held, outside, clock
<1>2. OpType /\ StateType /\ HistoryType /\ lock = t
  BY <1>1, Holder DEF ModeInv, TypeOK
<1>3. uuid # 0 /\ ~timer /\ callback = "idle"
  BY <1>1 DEF ModeInv, NameInv
<1>4. HistoryType'
  BY <1>1, <1>2 DEF LeaveMode, HistoryType, outside, counters, audit
<1>5. StateType' /\ SavedIsRunning'
  BY <1>1, <1>2 DEF StateType, SavedIsRunning
<1>6. /\ OpType' /\ op'[t].pc = "leaveAudit" /\ op'[t].what = op[t].what /\ op'[t].name = op[t].name
      /\ \A u \in Threads \ {t} : op'[u] = op[u]
  BY <1>2, StepOp DEF LeaveMode, Pcs
<1>7. op'[t].what = "begin" => op'[t].name # 0
  BY <1>6 DEF ModeInv, NameInv
<1> QED
  BY <1>1, <1>2, <1>3, <1>4, <1>5, <1>6, <1>7, HolderMoves DEF Held

(* A Leave event of a session that is known.                                *)
LEMMA LeftCounts ==
  ASSUME HistoryType, uuid \in Sessions, left' = [left EXCEPT ![uuid] = @ + 1],
         UNCHANGED <<policy, updates, late, requests, changes, entered, silent>>
  PROVE  HistoryType'
<1>1. left' \in [Sessions -> Nat]
  BY DEF HistoryType
<1> QED
  BY <1>1 DEF HistoryType

LEMMA AuditLeaveKeeps == ASSUME ModeInv, NEW t \in Threads, AuditLeave(t) PROVE ModeInv'
<1>1. /\ op[t].pc = "leaveAudit" /\ op[t].pc \in Held /\ UNCHANGED <<server, saved, inMode, timer, callback>>
      /\ uuid' = 0 /\ lock' = None
  BY DEF AuditLeave, Held, outside, session, clock
<1>2. OpType /\ StateType /\ HistoryType
  BY DEF ModeInv, TypeOK
<1>3. uuid \in Sessions /\ ~timer /\ callback = "idle" /\ ~inMode /\ saved = None
  BY <1>1, <1>2 DEF ModeInv, NameInv, EndInv, SavedIsRunning, StateType
<1>4. HistoryType'
  BY <1>2, <1>3, LeftCounts DEF AuditLeave, outside, session, counters
<1>5. StateType' /\ SavedIsRunning'
  BY <1>1, <1>2, <1>3 DEF StateType, SavedIsRunning
<1>6. OpType' /\ op'[t].pc = "idle" /\ op'[t].what = "none" /\ \A u \in Threads \ {t} : op'[u] = op[u]
  BY <1>2, DoneOp DEF AuditLeave, Idle
<1> QED
  BY <1>1, <1>3, <1>4, <1>5, <1>6, HolderMoves DEF Held

-----------------------------------------------------------------------------
(* The timer fires: no call can be between stopping it and leaving the      *)
(* mode, for it would have stopped it.                                      *)
LEMMA FireKeeps == ASSUME ModeInv, Fire PROVE ModeInv'
<1>1. /\ timer /\ callback = "idle" /\ timer' = FALSE /\ callback' = "waiting"
      /\ UNCHANGED <<server, saved, inMode, lock, uuid, op>>
  BY DEF Fire, outside, session
<1>2. OpType' /\ StateType' /\ SavedIsRunning'
  BY <1>1 DEF ModeInv, TypeOK, OpType, StateType, SavedIsRunning
<1>3. HistoryType'
  BY HistoryStays DEF Fire, outside, session, counters, audit
<1>4. LockInv'
  BY <1>1 DEF ModeInv, LockInv
<1>5. NameInv'
  BY <1>1 DEF ModeInv, NameInv
<1>6. EndInv'
  BY <1>1 DEF ModeInv, NameInv, EndInv, SessionsHaveEnd
<1> QED
  BY <1>2, <1>3, <1>4, <1>5, <1>6 DEF ModeInv, TypeOK

LEMMA OnTimerKeeps == ASSUME ModeInv, OnTimer PROVE ModeInv'
<1>1. /\ callback = "waiting" /\ lock = None /\ lock' = Timer /\ callback' = "leaveAudit"
      /\ inMode' = FALSE /\ saved' = None /\ late' = FALSE /\ UNCHANGED <<server, timer, uuid, op>>
  BY DEF OnTimer, Leave, outside
<1>2. OpType /\ StateType /\ HistoryType
  BY DEF ModeInv, TypeOK
<1>3. OpType' /\ StateType' /\ SavedIsRunning'
  BY <1>1, <1>2 DEF OpType, StateType, SavedIsRunning
<1>4. HistoryType'
  BY <1>1, <1>2 DEF OnTimer, HistoryType, outside, counters, audit
<1>5. \A u \in Threads : op[u].pc \notin Held
  BY <1>1, Nobody
<1>6. LockInv'
  BY <1>1, <1>5, ConstantsAssumption DEF LockInv, Threads, Main, Timer
<1>7. NameInv' /\ EndInv'
  BY <1>1, <1>5 DEF ModeInv, NameInv, EndInv, SessionsHaveEnd, Held
<1> QED
  BY <1>3, <1>4, <1>6, <1>7 DEF ModeInv, TypeOK

LEMMA OnTimerAuditKeeps == ASSUME ModeInv, OnTimerAudit PROVE ModeInv'
<1>1. /\ callback = "leaveAudit" /\ lock' = None /\ callback' = "idle" /\ uuid' = 0
      /\ UNCHANGED <<server, saved, inMode, timer, op>>
  BY DEF OnTimerAudit, outside, session
<1>2. OpType /\ StateType /\ HistoryType
  BY DEF ModeInv, TypeOK
<1>3. uuid \in Sessions /\ ~timer /\ ~inMode /\ saved = None /\ lock = Timer
  BY <1>1, <1>2 DEF ModeInv, NameInv, EndInv, SavedIsRunning, StateType, LockInv
<1>4. \A u \in Threads : op[u].pc \notin Held
  BY <1>3, ConstantsAssumption DEF ModeInv, LockInv, Threads, Main, Timer
<1>5. OpType' /\ StateType' /\ SavedIsRunning'
  BY <1>1, <1>2, <1>3 DEF OpType, StateType, SavedIsRunning
<1>6. HistoryType'
  BY <1>2, <1>3, LeftCounts DEF OnTimerAudit, outside, session, counters
<1>7. LockInv'
  BY <1>1, <1>4, ConstantsAssumption DEF LockInv, Threads, Timer
<1>8. NameInv' /\ EndInv'
  BY <1>1, <1>3, <1>4 DEF ModeInv, NameInv, EndInv, SessionsHaveEnd, Held
<1> QED
  BY <1>5, <1>6, <1>7, <1>8 DEF ModeInv, TypeOK

(* SetupFromState resumes a session with its timer, or leaves the mode.     *)
LEMMA RestartKeeps ==
  ASSUME ModeInv, NEW rebooted, NEW remaining, Restart(rebooted, remaining)
  PROVE  ModeInv'
<1> DEFINE out == Outcome(rebooted, remaining)
           known == IF saved = None THEN {} ELSE {saved.session}
           ended == {s \in entered \ known : left[s] = 0}
<1>1. OpType /\ StateType /\ HistoryType
  BY DEF ModeInv, TypeOK
<1>2. out = "resumed" => saved # None
  BY DEF Outcome
<1>3. saved # None => saved \in [server : Servers, session : Sessions] /\ saved.session \in Sessions /\ saved.session # 0
  BY <1>1 DEF StateType, Sessions
<1>4. known \subseteq Sessions
  BY <1>3
<1> HIDE DEF known
<1>5. ended \subseteq Sessions
  BY <1>1 DEF HistoryType
<1> HIDE DEF ended
<1>6. /\ updates' = (IF out = "revoked" THEN <<FALSE>> ELSE <<>>)
      /\ timer' = (out = "resumed") /\ inMode' = (out = "resumed")
      /\ saved' = (IF out = "resumed" THEN saved ELSE None)
      /\ late' = (out = "resumed" /\ ~policy)
      /\ entered' = (IF out = "resumed" THEN entered \union known ELSE entered)
      /\ left' = [s \in Sessions |-> left[s] + IF out = "left" /\ s \in known THEN 1 ELSE 0]
      /\ silent' = silent \union ended \union (IF out \in {"revoked", "quiet"} THEN known ELSE {})
  BY DEF Restart, known, ended
<1> HIDE DEF out
<1>7. /\ Change /\ server' \in Servers \union {None} /\ callback' = "idle" /\ lock' = None
      /\ op' = [t \in Threads |-> Idle] /\ uuid' = (IF saved = None THEN 0 ELSE saved.session)
      /\ UNCHANGED <<policy, requests>>
  BY DEF Restart
<1>8. \A t \in Threads : op'[t] = Idle
  BY <1>7
<1>9. OpType'
  BY <1>7 DEF OpType, Ops, Pcs, Whats, Idle
<1>10. StateType' /\ SavedIsRunning'
  BY <1>2, <1>3, <1>6, <1>7 DEF StateType, SavedIsRunning
<1>11. HistoryType'
  <2>1. updates' \in Seq(BOOLEAN)
    <3>1. <<>> \in Seq(BOOLEAN) /\ <<FALSE>> \in Seq(BOOLEAN)
      OBVIOUS
    <3> QED
      BY <1>6, <3>1
  <2>2. left' \in [Sessions -> Nat]
    BY <1>1, <1>6 DEF HistoryType
  <2>3. entered' \subseteq Sessions /\ silent' \subseteq Sessions
    BY <1>1, <1>4, <1>5, <1>6 DEF HistoryType
  <2>4. changes' \in 0..MaxChanges
    BY <1>1, <1>7, ChangeCounts DEF HistoryType
  <2>5. late' \in BOOLEAN /\ policy' \in BOOLEAN /\ requests' \in 0..MaxRequests
    BY <1>1, <1>6, <1>7 DEF HistoryType
  <2> QED
    BY <2>1, <2>2, <2>3, <2>4, <2>5 DEF HistoryType
<1>12. LockInv'
  BY <1>7, <1>8, ConstantsAssumption DEF LockInv, Idle, Held, Threads, Timer
<1>13. NameInv' /\ EndInv'
  BY <1>2, <1>3, <1>6, <1>7, <1>8 DEF NameInv, EndInv, SessionsHaveEnd, Idle
<1> QED
  BY <1>9, <1>10, <1>11, <1>12, <1>13 DEF ModeInv, TypeOK

-----------------------------------------------------------------------------
LEMMA StutterKeeps == ASSUME ModeInv, UNCHANGED vars PROVE ModeInv'
<1>1. /\ UNCHANGED <<server, saved, inMode, timer, callback, lock, uuid, op>>
      /\ UNCHANGED <<policy, updates, late, requests, changes, entered, left, silent>>
  BY DEF vars, outside, session, clock, counters, audit
<1>2. OpType' /\ StateType' /\ SavedIsRunning'
  BY <1>1 DEF ModeInv, TypeOK, OpType, StateType, SavedIsRunning
<1>3. HistoryType'
  BY <1>1, HistoryStays
<1>4. LockInv' /\ NameInv' /\ EndInv'
  BY <1>1 DEF ModeInv, LockInv, NameInv, EndInv, SessionsHaveEnd
<1> QED
  BY <1>2, <1>3, <1>4 DEF ModeInv, TypeOK

(* The invariant is inductive.                                              *)
LEMMA ModeInvStep == ModeInv /\ [Next]_vars => ModeInv'
<1> SUFFICES ASSUME ModeInv, [Next]_vars PROVE ModeInv'
  OBVIOUS
<1>1. ASSUME NEW c \in Callers,
             RequestMinutes(c) \/ Authorize(c) \/ Cancel(c) \/ SecondsRemaining(c) \/ NewModeTransitionReceived(c)
      PROVE  ModeInv'
  BY <1>1, CallsKeep DEF Threads
<1>2. ASSUME NEW t \in Threads, Locked(t) PROVE ModeInv'
  BY <1>2, LockKeeps, StartTimerKeeps, EnterModeKeeps, AuditEnterKeeps, IsStartedKeeps, StopTimerKeeps,
     LeaveModeKeeps, AuditLeaveKeeps DEF Locked
<1>3. ASSUME UpdateSyncState \/ \E s \in Servers \union {None} : ServerChanged(s) PROVE ModeInv'
  BY <1>3, MainKeeps
<1>4. CASE Fire \/ Callback
  BY <1>4, FireKeeps, OnTimerKeeps, OnTimerAuditKeeps DEF Callback
<1>5. ASSUME NEW rebooted \in BOOLEAN, NEW remaining \in {"plenty", "few", "none"}, Restart(rebooted, remaining)
      PROVE  ModeInv'
  BY <1>5, RestartKeeps
<1>6. CASE UNCHANGED vars
  BY <1>6, StutterKeeps
<1> QED
  BY <1>1, <1>2, <1>3, <1>4, <1>5, <1>6 DEF Next

(* Type correctness of the mode, the timer and their history.               *)
THEOREM TypeCorrect == Spec => []TypeOK
<1>1. ModeInv => TypeOK
  BY DEF ModeInv
<1> QED
  BY <1>1, ModeInvInit, ModeInvStep, PTL DEF Spec

(* A session always has somebody who ends it: the timer, the callback that  *)
(* stopped it, or the call that did (StopTimerSerialized, EndLocked).       *)
THEOREM SessionsAlwaysHaveEnd == Spec => []SessionsHaveEnd
<1>1. ModeInv => SessionsHaveEnd
  BY DEF ModeInv, EndInv
<1> QED
  BY <1>1, ModeInvInit, ModeInvStep, PTL DEF Spec

(* What is saved for the next start is the session that is running          *)
(* (enterTemporaryMonitorMode, leaveTemporaryMonitorMode).                  *)
THEOREM SavedAlwaysRunning == Spec => []SavedIsRunning
<1>1. ModeInv => SavedIsRunning
  BY DEF ModeInv
<1> QED
  BY <1>1, ModeInvInit, ModeInvStep, PTL DEF Spec

(* A session is never lost track of: somebody ends it, and what is saved    *)
(* says which one it is (the two theorems above).                           *)
THEOREM SessionsAlwaysTracked == Spec => []SessionsTracked
<1>1. SessionsHaveEnd /\ SavedIsRunning => SessionsTracked
  BY DEF SessionsTracked
<1> QED
  BY <1>1, SessionsAlwaysHaveEnd, SavedAlwaysRunning, PTL

(* Whoever is about to report an Enter or a Leave event knows the session's *)
(* UUID.                                                                    *)
EventsNamed ==
  /\ \A t \in Threads : op[t].pc \in {"enterAudit", "leaveAudit"} => uuid \in Sessions
  /\ callback = "leaveAudit" => uuid \in Sessions

(* No audit event is reported without the UUID of its session               *)
(* (current_uuid_ in BeginLocked, Cancel, RevokeLocked and OnTimer).        *)
THEOREM EventsAlwaysNamed == Spec => []EventsNamed
<1>1. ModeInv => EventsNamed
  BY DEF ModeInv, TypeOK, StateType, NameInv, EventsNamed
<1> QED
  BY <1>1, ModeInvInit, ModeInvStep, PTL DEF Spec

-----------------------------------------------------------------------------
(* Revocations: a call to begin that is not stale still has its policy.     *)
CallRules(call) ==
  /\ call.pc \in {"authorize", "enter", "enterAudit"} => call.what = "begin"
  /\ call.pc \in {"leave", "leaveAudit"} => call.what \in {"cancel", "revoke"}
  /\ call.pc = "idle" => call.what = "none"

Fresh(call) == call.what = "begin" /\ ~call.stale

CallInv == \A t \in Threads : CallRules(op[t]) /\ (Fresh(op[t]) => Effective)

RevokeInv == RevokedMeansOver /\ CallInv

(* Audit events: a session with somebody who will report its end was not    *)
(* reported as left; the name of a request is nobody else's until its timer *)
(* starts.                                                                  *)
Ending == timer \/ callback # "idle" \/ \E t \in Threads : op[t].pc \in {"leave", "leaveAudit"}

Asked(call) == call.what = "begin" /\ call.pc \in {"authorize", "lock", "timer"}

NamesFresh ==
  /\ uuid <= requests
  /\ \A s \in Sessions : s > requests => left[s] = 0
  /\ \A t \in Threads :
       Asked(op[t]) => /\ op[t].name \in 1..requests /\ left[op[t].name] = 0 /\ op[t].name # uuid
                       /\ \A u \in Threads \ {t} : Asked(op[u]) => op[u].name # op[t].name

LeftInv ==
  /\ \A s \in Sessions : left[s] <= 1
  /\ Ending => left[uuid] = 0
  /\ \A s \in entered \ silent : left[s] = 0 => s = uuid /\ Ending

AuditInv == LeftInv /\ NamesFresh

-----------------------------------------------------------------------------
(* The policy to come: a block is queued, or runs.                          *)
LEMMA QueuedIsEffective ==
  ASSUME HistoryType, NEW b \in BOOLEAN, updates' = Append(updates, b)
  PROVE  Effective' = b
<1>1. updates \in Seq(BOOLEAN)
  BY DEF HistoryType
<1>2. Append(updates, b) # <<>> /\ Last(Append(updates, b)) = b
  BY <1>1 DEF Last
<1> QED
  BY <1>2 DEF Effective

LEMMA RunIsEffective ==
  ASSUME HistoryType, updates # <<>>, policy' = Head(updates), updates' = Tail(updates)
  PROVE  Effective' = Effective
<1>1. updates \in Seq(BOOLEAN)
  BY DEF HistoryType
<1>2. /\ Tail(updates) \in Seq(BOOLEAN) /\ Len(updates) \in Nat \ {0} /\ Len(Tail(updates)) = Len(updates) - 1
      /\ Head(updates) = updates[1] /\ \A i \in 1..Len(Tail(updates)) : Tail(updates)[i] = updates[i + 1]
  BY <1>1, HeadTailProperties, LenProperties, EmptySeq
<1>3. CASE Len(updates) = 1
  <2>1. Tail(updates) = <<>> /\ Last(updates) = Head(updates)
    BY <1>2, <1>3, EmptySeq DEF Last
  <2> QED
    BY <2>1 DEF Effective
<1>4. CASE Len(updates) # 1
  <2>1. Len(Tail(updates)) \in Nat \ {0} /\ Len(Tail(updates)) + 1 = Len(updates)
    BY <1>2, <1>4
  <2>2. Tail(updates)[Len(Tail(updates))] = updates[Len(updates)]
    BY <1>2, <2>1
  <2>3. Tail(updates) # <<>> /\ Last(Tail(updates)) = Last(updates)
    BY <2>1, <2>2, EmptySeq DEF Last
  <2> QED
    BY <2>3 DEF Effective
<1> QED
  BY <1>3, <1>4

LEMMA SameIsEffective == UNCHANGED <<policy, updates>> => Effective' = Effective
BY DEF Effective

LEMMA EffectiveType == HistoryType => Effective \in BOOLEAN
BY DEF HistoryType, Effective, Last

(* One call takes a step; what is true of the others stays true.            *)
LEMMA OneCall ==
  ASSUME CallInv, NEW t \in Threads, \A u \in Threads \ {t} : op'[u] = op[u],
         CallRules(op'[t]), Fresh(op'[t]) => Effective', Effective => Effective'
  PROVE  CallInv'
BY DEF CallInv

Withdraws(call) == call.what = "revoke" /\ call.pc # "lock"

LEMMA StillOver ==
  ASSUME RevokedMeansOver, NEW t \in Threads, \A u \in Threads \ {t} : op'[u] = op[u],
         inMode' => inMode /\ late' = late, Effective => Effective',
         inMode' /\ Withdraws(op[t]) => Withdraws(op'[t])
  PROVE  RevokedMeansOver'
<1> SUFFICES ASSUME inMode', ~late', ~Revoking' PROVE Effective'
  BY DEF RevokedMeansOver
<1>1. \A u \in Threads : ~Withdraws(op'[u])
  BY DEF Revoking, Withdraws
<1>2. \A u \in Threads : ~Withdraws(op[u])
  BY <1>1
<1>3. ~Revoking
  BY <1>2 DEF Revoking, Withdraws
<1> QED
  BY <1>3 DEF RevokedMeansOver

LEMMA StepStale ==
  ASSUME OpType, NEW t \in Threads, NEW pc, Step(t, pc)
  PROVE  op'[t].stale = op[t].stale
BY DEF OpType, Ops, Step

(* Calls that only begin or wait.                                           *)
LEMMA CallsRevoke ==
  ASSUME ModeInv, RevokeInv, NEW c \in Threads,
         RequestMinutes(c) \/ Authorize(c) \/ Cancel(c) \/ SecondsRemaining(c) \/ NewModeTransitionReceived(c)
  PROVE  RevokeInv'
<1>1. /\ OpType /\ HistoryType /\ UNCHANGED <<inMode, late, policy>> /\ op[c] \in Ops
      /\ CallRules(op[c]) /\ (Fresh(op[c]) => Effective)
  BY DEF RequestMinutes, Authorize, Cancel, SecondsRemaining, NewModeTransitionReceived, outside, session,
         ModeInv, TypeOK, OpType, RevokeInv, CallInv
<1>2. UNCHANGED updates \/ updates' = Append(updates, TRUE)
  BY DEF RequestMinutes, Authorize, Cancel, SecondsRemaining, NewModeTransitionReceived
<1>3. Effective => Effective'
  BY <1>1, <1>2, SameIsEffective, QueuedIsEffective
<1>4. ASSUME \A u \in Threads \ {c} : op'[u] = op[u], CallRules(op'[c]), Fresh(op'[c]) => Effective', ~Withdraws(op[c])
      PROVE  RevokeInv'
  BY <1>1, <1>3, <1>4, OneCall, StillOver DEF RevokeInv
<1>5. CASE RequestMinutes(c)
  <2>1. /\ op[c] = Idle /\ UNCHANGED updates
        /\ op' = [op EXCEPT ![c] = [pc |-> "authorize", what |-> "begin", stale |-> ~Effective, name |-> requests']]
    BY <1>5 DEF RequestMinutes
  <2> DEFINE b == ~Effective
             call == [pc |-> "authorize", what |-> "begin", stale |-> b, name |-> requests']
  <2>2. op' = [op EXCEPT ![c] = call]
    BY <2>1
  <2>3. call.pc = "authorize" /\ call.what = "begin" /\ call.stale = b
    OBVIOUS
  <2> HIDE DEF b, call
  <2>4. op'[c] = call /\ \A u \in Threads \ {c} : op'[u] = op[u]
    BY <1>1, <2>2 DEF OpType
  <2>5. Fresh(op'[c]) => ~b
    BY <2>3, <2>4 DEF Fresh
  <2>6. CallRules(op'[c]) /\ ~Withdraws(op[c])
    BY <2>1, <2>3, <2>4 DEF CallRules, Withdraws, Idle
  <2>7. Fresh(op'[c]) => Effective'
    BY <1>3, <2>5 DEF b
  <2> QED
    BY <1>4, <2>4, <2>6, <2>7
<1>6. CASE Authorize(c)
  <2>1. op[c].pc = "authorize" /\ (Step(c, "lock") \/ Done(c))
    BY <1>6 DEF Authorize
  <2>2. op[c].what = "begin" /\ ~Withdraws(op[c])
    BY <1>1, <2>1 DEF CallRules, Withdraws
  <2>3. CASE Step(c, "lock")
    <3>1. /\ op'[c].pc = "lock" /\ op'[c].what = op[c].what /\ op'[c].stale = op[c].stale
          /\ \A u \in Threads \ {c} : op'[u] = op[u]
      BY <1>1, <2>3, StepOp, StepStale DEF Pcs
    <3>2. CallRules(op'[c]) /\ (Fresh(op'[c]) => Effective')
      BY <1>1, <1>3, <3>1 DEF CallRules, Fresh
    <3> QED
      BY <1>4, <2>2, <3>1, <3>2
  <2>4. CASE Done(c)
    <3>1. op'[c] = Idle /\ \A u \in Threads \ {c} : op'[u] = op[u]
      BY <1>1, <2>4, DoneOp
    <3>2. CallRules(op'[c]) /\ ~Fresh(op'[c])
      BY <3>1 DEF CallRules, Fresh, Idle
    <3> QED
      BY <1>4, <2>2, <3>1, <3>2
  <2> QED
    BY <2>1, <2>3, <2>4
<1>7. CASE Cancel(c) \/ SecondsRemaining(c) \/ NewModeTransitionReceived(c)
  <2>1. op[c] = Idle /\ ((\E what \in Whats \ {"begin"} : Start(c, what)) \/ UNCHANGED op)
    BY <1>7 DEF Cancel, SecondsRemaining, NewModeTransitionReceived, Whats
  <2>2. /\ op'[c] = Idle \/ (op'[c].pc = "lock" /\ op'[c].what # "begin")
        /\ \A u \in Threads \ {c} : op'[u] = op[u]
    BY <1>1, <2>1, StartOp
  <2>3. CallRules(op'[c]) /\ ~Fresh(op'[c]) /\ ~Withdraws(op[c])
    BY <2>1, <2>2 DEF CallRules, Fresh, Idle, Withdraws
  <2> QED
    BY <1>4, <2>2, <2>3
<1> QED
  BY <1>5, <1>6, <1>7

LEMMA MainRevoke ==
  ASSUME ModeInv, RevokeInv, UpdateSyncState \/ \E s \in Servers \union {None} : ServerChanged(s)
  PROVE  RevokeInv'
<1>1. /\ OpType /\ HistoryType /\ UNCHANGED <<inMode, late>> /\ op[Main] = Idle /\ Main \in Threads
  BY DEF UpdateSyncState, ServerChanged, session, ModeInv, TypeOK, Threads
<1>2. Effective' = Effective
  <2>1. CASE UpdateSyncState
    BY <1>1, <2>1, RunIsEffective DEF UpdateSyncState
  <2>2. CASE \E s \in Servers \union {None} : ServerChanged(s)
    BY <2>2, SameIsEffective DEF ServerChanged
  <2> QED
    BY <2>1, <2>2
<1>3. UNCHANGED op \/ Start(Main, "revoke")
  BY DEF UpdateSyncState, ServerChanged
<1>4. /\ op'[Main] = Idle \/ (op'[Main].pc = "lock" /\ op'[Main].what = "revoke")
      /\ \A u \in Threads \ {Main} : op'[u] = op[u]
  BY <1>1, <1>3, StartOp DEF Whats
<1>5. CallRules(op'[Main]) /\ ~Fresh(op'[Main]) /\ ~Withdraws(op[Main])
  BY <1>1, <1>4 DEF CallRules, Fresh, Idle, Withdraws
<1> QED
  BY <1>1, <1>2, <1>4, <1>5, OneCall, StillOver DEF RevokeInv

(* The revocation that gets the lock makes every request under way stale.   *)
LEMMA LockRevoke == ASSUME ModeInv, RevokeInv, NEW t \in Threads, Lock(t) PROVE RevokeInv'
<1>1. /\ OpType /\ HistoryType /\ UNCHANGED <<inMode, late, policy>> /\ op[t] \in Ops /\ op[t].pc = "lock"
      /\ (Fresh(op[t]) => Effective)
  BY DEF Lock, session, outside, ModeInv, TypeOK, OpType, RevokeInv, CallInv
<1>2. CASE op[t].what = "revoke"
  <2> DEFINE IsLate(u) == op[u].stale \/ op[u].what = "begin"
  <2>1. /\ op' = [u \in Threads |-> IF u = t THEN [op[u] EXCEPT !.pc = "timer"] ELSE [op[u] EXCEPT !.stale = IsLate(u)]]
        /\ updates' = Append(updates, FALSE)
    BY <1>2 DEF Lock
  <2>2. op'[t] = [op[t] EXCEPT !.pc = "timer"] /\ \A u \in Threads : op[u] \in Ops
    BY <1>1, <2>1 DEF OpType
  <2>3. ~Effective'
    BY <1>1, <2>1, QueuedIsEffective
  <2>4. op'[t].pc = "timer" /\ op'[t].what = "revoke"
    BY <1>1, <1>2, <2>2 DEF Ops
  <2>5. Revoking'
    BY <2>4 DEF Revoking
  <2>6. ASSUME NEW u \in Threads PROVE CallRules(op'[u]) /\ ~Fresh(op'[u])
    <3>1. CASE u = t
      BY <2>4, <3>1 DEF CallRules, Fresh
    <3>2. CASE u # t
      <4> DEFINE b == IsLate(u)
      <4>1. op'[u] = [op[u] EXCEPT !.stale = b] /\ op[u] \in Ops /\ CallRules(op[u])
        BY <2>1, <2>2, <3>2 DEF RevokeInv, CallInv
      <4>2. op[u].what = "begin" => b
        OBVIOUS
      <4> HIDE DEF b
      <4>3. op'[u].stale = b /\ op'[u].what = op[u].what /\ op'[u].pc = op[u].pc
        BY <4>1 DEF Ops
      <4> QED
        BY <4>1, <4>2, <4>3 DEF CallRules, Fresh
    <3> QED
      BY <3>1, <3>2
  <2> QED
    BY <2>5, <2>6 DEF RevokeInv, CallInv, RevokedMeansOver
<1>3. CASE op[t].what # "revoke"
  <2>1. Step(t, "timer") /\ UNCHANGED updates
    BY <1>3 DEF Lock
  <2>2. /\ op'[t].pc = "timer" /\ op'[t].what = op[t].what /\ op'[t].stale = op[t].stale
        /\ \A u \in Threads \ {t} : op'[u] = op[u]
    BY <1>1, <2>1, StepOp, StepStale DEF Pcs
  <2>3. Effective' = Effective
    BY <1>1, <2>1, SameIsEffective
  <2>4. CallRules(op'[t]) /\ (Fresh(op'[t]) => Effective') /\ ~Withdraws(op[t])
    BY <1>1, <1>3, <2>2, <2>3 DEF CallRules, Fresh, Withdraws
  <2> QED
    BY <1>1, <2>2, <2>3, <2>4, OneCall, StillOver DEF RevokeInv
<1> QED
  BY <1>2, <1>3

(* Under the lock: a call to begin enters the mode with the policy that it  *)
(* has, and a revocation is over when the mode was left.                    *)
LEMMA HolderRevoke ==
  ASSUME ModeInv, RevokeInv, NEW t \in Threads,
         \/ StartTimer(t) \/ EnterMode(t) \/ AuditEnter(t) \/ IsStarted(t)
         \/ StopTimer(t) \/ LeaveMode(t) \/ AuditLeave(t)
  PROVE  RevokeInv'
<1>1. /\ OpType /\ HistoryType /\ op[t] \in Ops /\ CallRules(op[t]) /\ (Fresh(op[t]) => Effective)
      /\ CallInv /\ RevokedMeansOver
  BY DEF ModeInv, TypeOK, OpType, RevokeInv, CallInv
<1>2. Effective' = Effective
  BY SameIsEffective DEF StartTimer, EnterMode, AuditEnter, IsStarted, StopTimer, LeaveMode, AuditLeave, outside
<1>3. ASSUME NEW pc \in Pcs, Step(t, pc),
             pc = "enter" => op[t].what = "begin", pc = "enterAudit" => op[t].what = "begin",
             pc \in {"leave", "leaveAudit"} => op[t].what \in {"cancel", "revoke"}, pc \notin {"idle", "authorize", "lock"}
      PROVE  CallInv' /\ (Withdraws(op[t]) => Withdraws(op'[t])) /\ \A u \in Threads \ {t} : op'[u] = op[u]
  <2>1. /\ op'[t].pc = pc /\ op'[t].what = op[t].what /\ op'[t].stale = op[t].stale
        /\ \A u \in Threads \ {t} : op'[u] = op[u]
    BY <1>1, <1>3, StepOp, StepStale
  <2>2. CallRules(op'[t]) /\ (Fresh(op'[t]) => Effective') /\ (Withdraws(op[t]) => Withdraws(op'[t]))
    BY <1>1, <1>2, <1>3, <2>1 DEF CallRules, Fresh, Withdraws
  <2> QED
    BY <1>1, <1>2, <2>1, <2>2, OneCall
<1>4. ASSUME Done(t) PROVE CallInv' /\ \A u \in Threads \ {t} : op'[u] = op[u]
  <2>1. op'[t] = Idle /\ \A u \in Threads \ {t} : op'[u] = op[u]
    BY <1>1, <1>4, DoneOp
  <2>2. CallRules(op'[t]) /\ ~Fresh(op'[t])
    BY <2>1 DEF CallRules, Fresh, Idle
  <2> QED
    BY <1>1, <1>2, <2>1, <2>2, OneCall
<1>5. CASE StartTimer(t)
  <2>1. Step(t, "enter") /\ op[t].what = "begin" /\ UNCHANGED <<inMode, late>>
    BY <1>5 DEF StartTimer, OnQueue, session
  <2>2. CallInv' /\ (Withdraws(op[t]) => Withdraws(op'[t])) /\ \A u \in Threads \ {t} : op'[u] = op[u]
    BY <1>3, <2>1 DEF Pcs
  <2> QED
    BY <1>1, <1>2, <2>1, <2>2, StillOver DEF RevokeInv
<1>6. CASE EnterMode(t)
  <2>1. op[t].pc = "enter" /\ op[t].what = "begin"
    BY <1>1, <1>6 DEF EnterMode, CallRules
  <2>2. CASE server # None
    <3>1. inMode' = TRUE /\ late' = op[t].stale /\ Step(t, "enterAudit")
      BY <1>6, <2>2 DEF EnterMode
    <3>2. CallInv'
      BY <1>3, <2>1, <3>1 DEF Pcs
    <3>3. ~late' => Effective'
      BY <1>1, <1>2, <2>1, <3>1 DEF Fresh
    <3> QED
      BY <3>2, <3>3 DEF RevokeInv, RevokedMeansOver
  <2>3. CASE server = None
    <3>1. Done(t) /\ UNCHANGED <<inMode, late>>
      BY <1>6, <2>3 DEF EnterMode, session
    <3>2. CallInv' /\ ~Withdraws(op[t]) /\ \A u \in Threads \ {t} : op'[u] = op[u]
      BY <1>4, <2>1, <3>1 DEF Withdraws
    <3> QED
      BY <1>1, <1>2, <3>1, <3>2, StillOver DEF RevokeInv
  <2> QED
    BY <2>2, <2>3
<1>7. CASE AuditEnter(t) \/ IsStarted(t)
  <2>1. Done(t) /\ op[t].what # "revoke" /\ UNCHANGED <<inMode, late>>
    BY <1>1, <1>7 DEF AuditEnter, IsStarted, OnQueue, CallRules, session
  <2>2. CallInv' /\ ~Withdraws(op[t]) /\ \A u \in Threads \ {t} : op'[u] = op[u]
    BY <1>4, <2>1 DEF Withdraws
  <2> QED
    BY <1>1, <1>2, <2>1, <2>2, StillOver DEF RevokeInv
<1>8. CASE StopTimer(t)
  <2>1. op[t].what \in {"cancel", "revoke"} /\ op[t].pc = "timer" /\ callback = "idle" /\ UNCHANGED <<inMode, late>>
    BY <1>8 DEF StopTimer, OnQueue, session
  <2>2. CASE timer
    <3>1. Step(t, "leave")
      BY <1>8, <2>2 DEF StopTimer
    <3>2. CallInv' /\ (Withdraws(op[t]) => Withdraws(op'[t])) /\ \A u \in Threads \ {t} : op'[u] = op[u]
      BY <1>3, <2>1, <3>1 DEF Pcs
    <3> QED
      BY <1>1, <1>2, <2>1, <3>2, StillOver DEF RevokeInv
  <2>3. CASE ~timer
    <3>1. Done(t)
      BY <1>8, <2>3 DEF StopTimer
    <3>2. \A u \in Threads \ {t} : op[u].pc \notin Held
      BY <2>1, Holder DEF Held
    <3>3. ~inMode
      BY <2>1, <2>3, <3>2 DEF ModeInv, EndInv, SessionsHaveEnd, Held
    <3>4. CallInv'
      BY <1>4, <3>1
    <3> QED
      BY <2>1, <3>3, <3>4 DEF RevokeInv, RevokedMeansOver
  <2> QED
    BY <2>2, <2>3
<1>9. CASE LeaveMode(t)
  <2>1. Step(t, "leaveAudit") /\ inMode' = FALSE /\ op[t].what \in {"cancel", "revoke"}
    BY <1>1, <1>9 DEF LeaveMode, Leave, CallRules
  <2>2. CallInv'
    BY <1>3, <2>1 DEF Pcs
  <2> QED
    BY <2>1, <2>2 DEF RevokeInv, RevokedMeansOver
<1>10. CASE AuditLeave(t)
  <2>1. Done(t) /\ inMode' = inMode /\ op[t].pc = "leaveAudit"
    BY <1>10 DEF AuditLeave, session
  <2>2. ~inMode /\ CallInv'
    BY <1>4, <2>1 DEF ModeInv, EndInv
  <2> QED
    BY <2>1, <2>2 DEF RevokeInv, RevokedMeansOver
<1> QED
  BY <1>5, <1>6, <1>7, <1>8, <1>9, <1>10

LEMMA TimerRevoke == ASSUME ModeInv, RevokeInv, Fire \/ Callback PROVE RevokeInv'
<1>1. /\ UNCHANGED op /\ (inMode' => inMode /\ late' = late) /\ Effective' = Effective /\ Main \in Threads
  BY SameIsEffective DEF Fire, Callback, OnTimer, OnTimerAudit, Leave, outside, session, Threads
<1>2. RevokedMeansOver'
  BY <1>1, StillOver DEF RevokeInv
<1> QED
  BY <1>1, <1>2 DEF RevokeInv, CallInv

LEMMA RestartRevoke ==
  ASSUME RevokeInv, NEW rebooted, NEW remaining, Restart(rebooted, remaining)
  PROVE  RevokeInv'
<1> DEFINE out == Outcome(rebooted, remaining)
<1>1. /\ op' = [t \in Threads |-> Idle] /\ policy' = policy
      /\ updates' = (IF out = "revoked" THEN <<FALSE>> ELSE <<>>)
      /\ inMode' = (out = "resumed") /\ late' = (out = "resumed" /\ ~policy)
  BY DEF Restart
<1> HIDE DEF out
<1>2. CallInv'
  BY <1>1 DEF CallInv, CallRules, Fresh, Idle
<1>3. inMode' /\ ~late' => Effective'
  BY <1>1 DEF Effective
<1> QED
  BY <1>2, <1>3 DEF RevokeInv, RevokedMeansOver

LEMMA RevokeInvStep == ModeInv /\ RevokeInv /\ [Next]_vars => RevokeInv'
<1> SUFFICES ASSUME ModeInv, RevokeInv, [Next]_vars PROVE RevokeInv'
  OBVIOUS
<1>1. CASE UNCHANGED vars
  <2>1. UNCHANGED <<op, inMode, late>> /\ Effective' = Effective /\ Main \in Threads
    BY <1>1, SameIsEffective DEF vars, outside, session, Threads
  <2>2. RevokedMeansOver'
    BY <2>1, StillOver DEF RevokeInv
  <2> QED
    BY <2>1, <2>2 DEF RevokeInv, CallInv
<1>2. ASSUME NEW t \in Threads, Locked(t) PROVE RevokeInv'
  BY <1>2, LockRevoke, HolderRevoke DEF Locked
<1>3. ASSUME NEW c \in Callers,
             RequestMinutes(c) \/ Authorize(c) \/ Cancel(c) \/ SecondsRemaining(c) \/ NewModeTransitionReceived(c)
      PROVE  RevokeInv'
  BY <1>3, CallsRevoke DEF Threads
<1>4. ASSUME UpdateSyncState \/ \E s \in Servers \union {None} : ServerChanged(s) PROVE RevokeInv'
  BY <1>4, MainRevoke
<1> QED
  BY <1>1, <1>2, <1>3, <1>4, TimerRevoke, RestartRevoke DEF Next

(* After a revocation there is no session, except for one that was asked    *)
(* for before, or resumed by a restart amid the revocation (RevokeLocked    *)
(* forgets the policy first, BeginLocked has checked it before).            *)
THEOREM RevokedAlwaysOver == Spec => []RevokedMeansOver
<1>1. Init => RevokeInv
  BY DEF Init, RevokeInv, RevokedMeansOver, CallInv, CallRules, Fresh, Idle
<1>2. RevokeInv => RevokedMeansOver
  BY DEF RevokeInv
<1> QED
  BY <1>1, <1>2, ModeInvInit, ModeInvStep, RevokeInvStep, PTL DEF Spec

-----------------------------------------------------------------------------
(* The audit trail.                                                         *)
LEMMA NamesKept ==
  ASSUME ModeInv, NamesFresh, NEW t \in Threads, \A u \in Threads \ {t} : op'[u] = op[u],
         Asked(op'[t]) => Asked(op[t]) /\ op'[t].name = op[t].name,
         requests' = requests,
         uuid' \in {uuid, 0} \/ (Asked(op[t]) /\ ~Asked(op'[t]) /\ uuid' = op[t].name),
         \A s \in Sessions : left'[s] = left[s] \/ s = uuid
  PROVE  NamesFresh'
<1>1. requests \in Nat /\ Sessions \subseteq Nat \ {0} /\ uuid \in Nat /\ uuid <= requests
      /\ requests <= MaxRequests /\ Sessions = 1..MaxRequests
  BY ConstantsAssumption DEF ModeInv, TypeOK, HistoryType, StateType, Sessions, NamesFresh
<1>2. ASSUME NEW v \in Threads, Asked(op[v])
      PROVE  /\ op[v].name \in 1..requests /\ left[op[v].name] = 0 /\ op[v].name # uuid
             /\ \A u \in Threads \ {v} : Asked(op[u]) => op[u].name # op[v].name
  BY <1>2 DEF NamesFresh
<1>3. ASSUME NEW v \in Threads, Asked(op'[v]) PROVE Asked(op[v]) /\ op'[v].name = op[v].name
  BY <1>3
<1>4. uuid' <= requests
  <2>1. CASE uuid' \in {uuid, 0}
    BY <1>1, <2>1
  <2>2. CASE Asked(op[t]) /\ uuid' = op[t].name
    BY <1>1, <1>2, <2>2
  <2> QED
    BY <2>1, <2>2
<1>5. \A s \in Sessions : s > requests => left'[s] = 0
  BY <1>1 DEF NamesFresh
<1>6. ASSUME NEW v \in Threads, Asked(op'[v])
      PROVE  /\ op'[v].name \in 1..requests /\ left'[op'[v].name] = 0 /\ op'[v].name # uuid'
             /\ \A u \in Threads \ {v} : Asked(op'[u]) => op'[u].name # op'[v].name
  <2>1. /\ Asked(op[v]) /\ op'[v].name = op[v].name
        /\ op[v].name \in 1..requests /\ left[op[v].name] = 0 /\ op[v].name # uuid
    BY <1>2, <1>3, <1>6
  <2>2. op[v].name \in Sessions /\ op[v].name # 0
    <3>1. \A r, m \in Nat : r <= m => \A n \in 1..r : n \in 1..m /\ n # 0
      OBVIOUS
    <3> QED
      BY <1>1, <2>1, <3>1, ConstantsAssumption
  <2>3. left'[op[v].name] = 0
    BY <2>1, <2>2
  <2>4. op[v].name # uuid'
    <3>1. CASE uuid' \in {uuid, 0}
      BY <2>1, <2>2, <3>1
    <3>2. CASE Asked(op[t]) /\ ~Asked(op'[t]) /\ uuid' = op[t].name
      <4>1. v # t
        BY <1>6, <3>2
      <4> QED
        BY <1>2, <2>1, <3>2, <4>1
    <3> QED
      BY <3>1, <3>2
  <2>5. ASSUME NEW u \in Threads \ {v}, Asked(op'[u]) PROVE op'[u].name # op'[v].name
    <3>1. Asked(op[u]) /\ op'[u].name = op[u].name
      BY <1>3, <2>5
    <3> QED
      BY <1>2, <2>1, <3>1
  <2> QED
    BY <2>1, <2>3, <2>4, <2>5
<1> QED
  BY <1>1, <1>4, <1>5, <1>6 DEF NamesFresh

(* A step that leaves the trail, and who ends the session, as they are.     *)
LEMMA LeftSame ==
  ASSUME LeftInv, UNCHANGED <<uuid, left, entered, silent>>, Ending' <=> Ending
  PROVE  LeftInv'
BY DEF LeftInv

LEMMA EndingSame ==
  ASSUME NEW t \in Threads, \A u \in Threads \ {t} : op'[u] = op[u], UNCHANGED <<timer, callback>>,
         op[t].pc \in {"leave", "leaveAudit"} <=> op'[t].pc \in {"leave", "leaveAudit"}
  PROVE  Ending' <=> Ending
<1>1. \A u \in Threads : op'[u].pc \in {"leave", "leaveAudit"} <=> op[u].pc \in {"leave", "leaveAudit"}
  OBVIOUS
<1> QED
  BY <1>1 DEF Ending

(* The event of the session's end: nobody is left who could report another. *)
LEMMA Reported ==
  ASSUME ModeInv, LeftInv, uuid \in Sessions, Ending, left' = [left EXCEPT ![uuid] = @ + 1], ~Ending',
         UNCHANGED <<entered, silent>>
  PROVE  LeftInv' /\ \A s \in Sessions : left'[s] = left[s] \/ s = uuid
<1>1. left \in [Sessions -> Nat] /\ left[uuid] = 0 /\ entered \subseteq Sessions
  BY DEF ModeInv, TypeOK, HistoryType, LeftInv
<1>2. left'[uuid] = 1 /\ \A s \in Sessions : s # uuid => left'[s] = left[s]
  BY <1>1
<1>3. \A s \in Sessions : left'[s] <= 1
  BY <1>2 DEF LeftInv
<1>4. \A s \in entered \ silent : left'[s] # 0
  BY <1>1, <1>2 DEF LeftInv
<1> QED
  BY <1>2, <1>3, <1>4 DEF LeftInv

LEMMA CallsAudit ==
  ASSUME ModeInv, AuditInv, NEW c \in Threads,
         RequestMinutes(c) \/ Authorize(c) \/ Cancel(c) \/ SecondsRemaining(c) \/ NewModeTransitionReceived(c)
  PROVE  AuditInv'
<1>1. /\ OpType /\ op[c] \in Ops /\ UNCHANGED <<timer, callback, uuid, left, entered, silent>>
  BY DEF RequestMinutes, Authorize, Cancel, SecondsRemaining, NewModeTransitionReceived, clock, audit,
         ModeInv, TypeOK, OpType
<1>2. ASSUME \A u \in Threads \ {c} : op'[u] = op[u],
             op[c].pc \notin {"leave", "leaveAudit"}, op'[c].pc \notin {"leave", "leaveAudit"}
      PROVE  LeftInv'
  BY <1>1, <1>2, EndingSame, LeftSame DEF AuditInv
<1>3. CASE RequestMinutes(c)
  <2> DEFINE call == [pc |-> "authorize", what |-> "begin", stale |-> ~Effective, name |-> requests']
  <2>1. op[c] = Idle /\ op' = [op EXCEPT ![c] = call] /\ requests' = requests + 1 /\ requests < MaxRequests
    BY <1>3 DEF RequestMinutes
  <2>2. call.pc = "authorize" /\ call.name = requests'
    OBVIOUS
  <2> HIDE DEF call
  <2>3. op'[c] = call /\ \A u \in Threads \ {c} : op'[u] = op[u]
    BY <1>1, <2>1 DEF OpType
  <2>4. LeftInv'
    BY <1>2, <2>1, <2>2, <2>3 DEF Idle
  <2>5. requests \in Nat /\ requests + 1 \in Sessions /\ requests' = requests + 1 /\ Sessions \subseteq Nat /\ uuid \in Nat
    BY <2>1, ConstantsAssumption DEF ModeInv, TypeOK, HistoryType, StateType, Sessions
  <2>6. /\ uuid <= requests /\ \A s \in Sessions : s > requests => left[s] = 0
        /\ \A u \in Threads : Asked(op[u]) =>
             /\ op[u].name \in 1..requests /\ left[op[u].name] = 0 /\ op[u].name # uuid
             /\ \A v \in Threads \ {u} : Asked(op[v]) => op[v].name # op[u].name
    BY DEF AuditInv, NamesFresh
  <2>7. left'[requests + 1] = 0 /\ requests + 1 # uuid
    BY <1>1, <2>5, <2>6
  <2>8. ASSUME NEW u \in Threads, Asked(op'[u])
        PROVE  /\ op'[u].name \in 1..(requests + 1) /\ left'[op'[u].name] = 0 /\ op'[u].name # uuid
               /\ (u # c => op'[u].name # requests + 1)
    <3>1. CASE u = c
      BY <2>2, <2>3, <2>5, <2>7, <3>1
    <3>2. CASE u # c
      <4>1. op'[u] = op[u] /\ Asked(op[u])
        BY <2>3, <2>8, <3>2
      <4>2. op[u].name \in 1..requests /\ left[op[u].name] = 0 /\ op[u].name # uuid
        BY <2>6, <4>1
      <4>3. op[u].name \in 1..(requests + 1) /\ op[u].name # requests + 1
        BY <2>5, <4>2
      <4> QED
        BY <1>1, <4>1, <4>2, <4>3
    <3> QED
      BY <3>1, <3>2
  <2>9. ASSUME NEW u \in Threads, NEW v \in Threads \ {u}, Asked(op'[u]), Asked(op'[v])
        PROVE  op'[v].name # op'[u].name
    <3>1. CASE u = c \/ v = c
      BY <2>2, <2>3, <2>5, <2>8, <2>9, <3>1
    <3>2. CASE u # c /\ v # c
      BY <2>3, <2>6, <2>9, <3>2
    <3> QED
      BY <3>1, <3>2
  <2>10. NamesFresh'
    <3>1. uuid' <= requests' /\ \A s \in Sessions : s > requests' => left'[s] = 0
      BY <1>1, <2>5, <2>6
    <3> QED
      BY <1>1, <2>5, <2>8, <2>9, <3>1 DEF NamesFresh
  <2> QED
    BY <2>4, <2>10 DEF AuditInv
<1>4. CASE Authorize(c)
  <2>1. op[c].pc = "authorize" /\ requests' = requests /\ (Step(c, "lock") \/ Done(c))
    BY <1>4 DEF Authorize, counters
  <2>2. /\ \A u \in Threads \ {c} : op'[u] = op[u]
        /\ op'[c] = Idle \/ (op'[c].pc = "lock" /\ op'[c].what = op[c].what /\ op'[c].name = op[c].name)
    BY <1>1, <2>1, StepOp, DoneOp DEF Pcs
  <2>3. Asked(op'[c]) => Asked(op[c]) /\ op'[c].name = op[c].name
    BY <2>1, <2>2 DEF Asked, Idle
  <2>4. LeftInv'
    BY <1>2, <2>1, <2>2 DEF Idle
  <2> QED
    BY <1>1, <2>1, <2>2, <2>3, <2>4, NamesKept DEF AuditInv
<1>5. CASE Cancel(c) \/ SecondsRemaining(c) \/ NewModeTransitionReceived(c)
  <2>1. /\ op[c] = Idle /\ ((\E what \in Whats \ {"begin"} : Start(c, what)) \/ UNCHANGED op)
        /\ requests' = requests
    BY <1>5 DEF Cancel, SecondsRemaining, NewModeTransitionReceived, Whats, counters
  <2>2. /\ op'[c] = Idle \/ (op'[c].pc = "lock" /\ op'[c].what # "begin")
        /\ \A u \in Threads \ {c} : op'[u] = op[u]
    BY <1>1, <2>1, StartOp
  <2>3. ~Asked(op'[c])
    BY <2>2 DEF Asked, Idle
  <2>4. LeftInv'
    BY <1>2, <2>1, <2>2 DEF Idle
  <2> QED
    BY <1>1, <2>1, <2>2, <2>3, <2>4, NamesKept DEF AuditInv
<1> QED
  BY <1>3, <1>4, <1>5

LEMMA MainAudit ==
  ASSUME ModeInv, AuditInv, UpdateSyncState \/ \E s \in Servers \union {None} : ServerChanged(s)
  PROVE  AuditInv'
<1>1. /\ OpType /\ UNCHANGED <<timer, callback, uuid, left, entered, silent, requests>>
      /\ op[Main] = Idle /\ Main \in Threads /\ (UNCHANGED op \/ Start(Main, "revoke"))
  BY DEF UpdateSyncState, ServerChanged, clock, audit, counters, ModeInv, TypeOK, Threads
<1>2. /\ op'[Main] = Idle \/ (op'[Main].pc = "lock" /\ op'[Main].what = "revoke")
      /\ \A u \in Threads \ {Main} : op'[u] = op[u]
  BY <1>1, StartOp DEF Whats
<1>3. ~Asked(op'[Main]) /\ (op[Main].pc \in {"leave", "leaveAudit"} <=> op'[Main].pc \in {"leave", "leaveAudit"})
  BY <1>1, <1>2 DEF Asked, Idle
<1>4. LeftInv'
  BY <1>1, <1>2, <1>3, EndingSame, LeftSame DEF AuditInv
<1> QED
  BY <1>1, <1>2, <1>3, <1>4, NamesKept DEF AuditInv

(* A revocation that gets the lock changes no name.                         *)
LEMMA LockAudit == ASSUME ModeInv, AuditInv, NEW t \in Threads, Lock(t) PROVE AuditInv'
<1>1. /\ OpType /\ op[t] \in Ops /\ op[t].pc = "lock"
      /\ UNCHANGED <<timer, callback, uuid, left, entered, silent, requests>>
  BY DEF Lock, clock, audit, counters, ModeInv, TypeOK, OpType
<1>2. /\ op'[t].pc = "timer" /\ op'[t].what = op[t].what /\ op'[t].name = op[t].name
      /\ \A u \in Threads \ {t} : op'[u].pc = op[u].pc /\ op'[u].what = op[u].what /\ op'[u].name = op[u].name
  <2>1. CASE op[t].what = "revoke"
    <3> DEFINE IsLate(u) == op[u].stale \/ op[u].what = "begin"
    <3>1. op' = [u \in Threads |-> IF u = t THEN [op[u] EXCEPT !.pc = "timer"] ELSE [op[u] EXCEPT !.stale = IsLate(u)]]
      BY <2>1 DEF Lock
    <3>2. op'[t] = [op[t] EXCEPT !.pc = "timer"] /\ \A u \in Threads : op[u] \in Ops
      BY <1>1, <3>1 DEF OpType
    <3> HIDE DEF IsLate
    <3>3. \A u \in Threads \ {t} : op'[u] = [op[u] EXCEPT !.stale = IsLate(u)]
      BY <3>1
    <3>4. op'[t].pc = "timer" /\ op'[t].what = op[t].what /\ op'[t].name = op[t].name
      BY <3>2 DEF Ops
    <3>5. \A u \in Threads \ {t} : op'[u].pc = op[u].pc /\ op'[u].what = op[u].what /\ op'[u].name = op[u].name
      BY <3>2, <3>3, ZenonT(30) DEF Ops
    <3> QED
      BY <3>4, <3>5
  <2>2. CASE op[t].what # "revoke"
    BY <1>1, <2>2, StepOp DEF Lock, Pcs
  <2> QED
    BY <2>1, <2>2
<1>3. \A u \in Threads :  /\ Asked(op'[u]) <=> Asked(op[u])
                          /\ op'[u].name = op[u].name
                          /\ op'[u].pc \in {"leave", "leaveAudit"} <=> op[u].pc \in {"leave", "leaveAudit"}
  BY <1>1, <1>2 DEF Asked
<1>4. Ending' <=> Ending
  BY <1>1, <1>3 DEF Ending
<1>5. LeftInv'
  BY <1>1, <1>4, LeftSame DEF AuditInv
<1>6. NamesFresh'
  BY <1>1, <1>3 DEF AuditInv, NamesFresh
<1> QED
  BY <1>5, <1>6 DEF AuditInv

(* A step of the holder that reports nothing and keeps the UUID.            *)
LEMMA HolderKeepsTrail ==
  ASSUME ModeInv, AuditInv, NEW t \in Threads, \A u \in Threads \ {t} : op'[u] = op[u],
         Asked(op'[t]) => Asked(op[t]) /\ op'[t].name = op[t].name,
         UNCHANGED <<uuid, left, entered, silent, requests>>, Ending' <=> Ending
  PROVE  AuditInv'
BY LeftSame, NamesKept DEF AuditInv

LEMMA StartTimerAudit == ASSUME ModeInv, AuditInv, NEW t \in Threads, StartTimer(t) PROVE AuditInv'
<1>1. /\ op[t].pc = "timer" /\ op[t].what = "begin" /\ callback = "idle" /\ timer' = TRUE /\ callback' = callback
      /\ UNCHANGED <<left, entered, silent, requests>> /\ uuid' = (IF timer THEN uuid ELSE op[t].name)
  BY DEF StartTimer, OnQueue, audit, counters
<1>2. /\ op'[t].pc = "enter" /\ \A u \in Threads \ {t} : op'[u] = op[u]
  BY StepOp DEF StartTimer, Pcs, ModeInv, TypeOK
<1>3. Asked(op[t]) /\ ~Asked(op'[t]) /\ op[t].pc \in Held
  BY <1>1, <1>2 DEF Asked, Held
<1>4. \A u \in Threads : op[u].pc \notin {"leave", "leaveAudit"}
  BY <1>1, <1>3, Holder DEF Held
<1>5. NamesFresh'
  BY <1>1, <1>2, <1>3, NamesKept DEF AuditInv
<1>6. Ending'
  BY <1>1 DEF Ending
<1>7. CASE timer
  BY <1>1, <1>5, <1>6, <1>7 DEF AuditInv, LeftInv, Ending
<1>8. CASE ~timer
  <2>1. ~Ending
    BY <1>1, <1>4, <1>8 DEF Ending
  <2>2. left[op[t].name] = 0
    BY <1>3 DEF AuditInv, NamesFresh
  <2> QED
    BY <1>1, <1>5, <1>6, <1>8, <2>1, <2>2 DEF AuditInv, LeftInv
<1> QED
  BY <1>7, <1>8

LEMMA HolderAudit ==
  ASSUME ModeInv, AuditInv, NEW t \in Threads,
         EnterMode(t) \/ AuditEnter(t) \/ IsStarted(t) \/ StopTimer(t) \/ LeaveMode(t) \/ AuditLeave(t)
  PROVE  AuditInv'
<1>1. OpType /\ op[t] \in Ops /\ HistoryType /\ LeftInv /\ NamesFresh
  BY DEF ModeInv, TypeOK, OpType, AuditInv
<1>2. ASSUME NEW pc \in Pcs, Step(t, pc), pc \notin {"authorize", "lock", "timer"}
      PROVE  op'[t].pc = pc /\ ~Asked(op'[t]) /\ \A u \in Threads \ {t} : op'[u] = op[u]
  BY <1>1, <1>2, StepOp DEF Asked
<1>3. ASSUME Done(t)
      PROVE  op'[t].pc = "idle" /\ ~Asked(op'[t]) /\ \A u \in Threads \ {t} : op'[u] = op[u]
  BY <1>1, <1>3, DoneOp DEF Asked, Idle
<1>4. CASE EnterMode(t)
  <2>1. op[t].pc = "enter" /\ UNCHANGED <<timer, callback, uuid, left, entered, silent, requests>>
        /\ (Step(t, "enterAudit") \/ Done(t))
    BY <1>4 DEF EnterMode, clock, audit, counters
  <2>2. op'[t].pc \notin {"leave", "leaveAudit"} /\ ~Asked(op'[t]) /\ \A u \in Threads \ {t} : op'[u] = op[u]
    BY <1>2, <1>3, <2>1 DEF Pcs
  <2> QED
    BY <2>1, <2>2, EndingSame, HolderKeepsTrail
<1>5. CASE IsStarted(t)
  <2>1. op[t].pc = "timer" /\ UNCHANGED <<timer, callback, uuid, left, entered, silent, requests>> /\ Done(t)
    BY <1>5 DEF IsStarted, OnQueue, clock, audit, counters
  <2>2. op'[t].pc \notin {"leave", "leaveAudit"} /\ ~Asked(op'[t]) /\ \A u \in Threads \ {t} : op'[u] = op[u]
    BY <1>3, <2>1
  <2> QED
    BY <2>1, <2>2, EndingSame, HolderKeepsTrail
<1>6. CASE LeaveMode(t)
  <2>1. op[t].pc = "leave" /\ UNCHANGED <<timer, callback, uuid, left, entered, silent, requests>> /\ Step(t, "leaveAudit")
    BY <1>6 DEF LeaveMode, clock, audit, counters
  <2>2. op'[t].pc = "leaveAudit" /\ ~Asked(op'[t]) /\ \A u \in Threads \ {t} : op'[u] = op[u]
    BY <1>2, <2>1 DEF Pcs
  <2> QED
    BY <2>1, <2>2, EndingSame, HolderKeepsTrail
<1>7. CASE StopTimer(t)
  <2>1. /\ op[t].pc = "timer" /\ callback = "idle" /\ UNCHANGED <<callback, uuid, left, entered, silent, requests>>
        /\ timer' = FALSE /\ (IF timer THEN Step(t, "leave") ELSE Done(t))
    BY <1>7 DEF StopTimer, OnQueue, audit, counters
  <2>2. /\ op'[t].pc = (IF timer THEN "leave" ELSE "idle") /\ ~Asked(op'[t])
        /\ \A u \in Threads \ {t} : op'[u] = op[u]
    BY <1>2, <1>3, <2>1 DEF Pcs
  <2>3. Ending' <=> Ending
    <3>1. CASE timer
      BY <2>2, <3>1 DEF Ending
    <3>2. CASE ~timer
      <4>1. timer' = timer /\ op[t].pc \notin {"leave", "leaveAudit"} /\ op'[t].pc \notin {"leave", "leaveAudit"}
        BY <2>1, <2>2, <3>2 DEF ModeInv, TypeOK, StateType
      <4> QED
        BY <2>1, <2>2, <4>1, EndingSame
    <3> QED
      BY <3>1, <3>2
  <2> QED
    BY <2>1, <2>2, <2>3, HolderKeepsTrail
<1>8. CASE AuditEnter(t)
  <2>1. /\ op[t].pc = "enterAudit" /\ UNCHANGED <<timer, callback, uuid, left, silent, requests>> /\ Done(t)
        /\ entered' = entered \union {uuid}
    BY <1>8 DEF AuditEnter, clock, counters
  <2>2. op'[t].pc = "idle" /\ ~Asked(op'[t]) /\ \A u \in Threads \ {t} : op'[u] = op[u]
    BY <1>3, <2>1
  <2>3. timer \/ callback = "waiting"
    BY <2>1 DEF ModeInv, EndInv
  <2>4. Ending /\ Ending'
    BY <2>1, <2>3 DEF Ending
  <2>5. LeftInv'
    BY <1>1, <2>1, <2>4 DEF LeftInv
  <2>6. NamesFresh'
    BY <1>1, <2>1, <2>2, NamesKept
  <2> QED
    BY <2>5, <2>6 DEF AuditInv
<1>9. CASE AuditLeave(t)
  <2>1. /\ op[t].pc = "leaveAudit" /\ UNCHANGED <<timer, callback, entered, silent, requests>> /\ Done(t)
        /\ uuid' = 0 /\ left' = [left EXCEPT ![uuid] = @ + 1]
    BY <1>9 DEF AuditLeave, clock, counters
  <2>2. op'[t].pc = "idle" /\ ~Asked(op'[t]) /\ \A u \in Threads \ {t} : op'[u] = op[u]
    BY <1>3, <2>1
  <2>3. uuid \in Sessions /\ ~timer /\ callback = "idle"
    BY <2>1 DEF ModeInv, TypeOK, StateType, NameInv
  <2>4. \A u \in Threads \ {t} : op[u].pc \notin Held
    BY <2>1, Holder DEF Held
  <2>5. Ending /\ ~Ending'
    BY <2>1, <2>2, <2>3, <2>4 DEF Ending, Held
  <2>6. LeftInv' /\ \A s \in Sessions : left'[s] = left[s] \/ s = uuid
    BY <1>1, <2>1, <2>3, <2>5, Reported
  <2>7. NamesFresh'
    BY <1>1, <2>1, <2>2, <2>6, NamesKept
  <2> QED
    BY <2>6, <2>7 DEF AuditInv
<1> QED
  BY <1>4, <1>5, <1>6, <1>7, <1>8, <1>9

(* The timer's callback reports the end of the session that it stopped.     *)
LEMMA TimerAudit == ASSUME ModeInv, AuditInv, Fire \/ Callback PROVE AuditInv'
<1>1. UNCHANGED <<op, requests, entered, silent>> /\ Main \in Threads /\ LeftInv /\ NamesFresh
  BY DEF Fire, Callback, OnTimer, OnTimerAudit, Leave, audit, counters, Threads, AuditInv
<1>2. CASE Fire \/ OnTimer
  <2>1. UNCHANGED <<uuid, left>> /\ (Ending' <=> Ending)
    BY <1>2 DEF Fire, OnTimer, audit, Ending
  <2> QED
    BY <1>1, <2>1, HolderKeepsTrail
<1>3. CASE OnTimerAudit
  <2>1. callback = "leaveAudit" /\ callback' = "idle" /\ timer' = timer /\ uuid' = 0 /\ left' = [left EXCEPT ![uuid] = @ + 1]
    BY <1>3 DEF OnTimerAudit
  <2>2. uuid \in Sessions /\ ~timer /\ lock = Timer
    BY <2>1 DEF ModeInv, TypeOK, StateType, NameInv, LockInv
  <2>3. \A u \in Threads : op[u].pc \notin Held
    BY <2>2, ConstantsAssumption DEF ModeInv, LockInv, Threads, Main, Timer
  <2>4. Ending /\ ~Ending'
    BY <1>1, <2>1, <2>2, <2>3 DEF Ending, Held
  <2>5. LeftInv' /\ \A s \in Sessions : left'[s] = left[s] \/ s = uuid
    BY <1>1, <2>1, <2>2, <2>4, Reported
  <2>6. NamesFresh'
    BY <1>1, <2>1, <2>5, NamesKept
  <2> QED
    BY <2>5, <2>6 DEF AuditInv
<1> QED
  BY <1>2, <1>3 DEF Callback

(* SetupFromState resumes the session, reports its end, or ends it silently.*)
LEMMA RestartAudit ==
  ASSUME ModeInv, AuditInv, NEW rebooted, NEW remaining, Restart(rebooted, remaining)
  PROVE  AuditInv'
<1> DEFINE out == Outcome(rebooted, remaining)
           known == IF saved = None THEN {} ELSE {saved.session}
           ended == {s \in entered \ known : left[s] = 0}
           more(s) == IF out = "left" /\ s \in known THEN 1 ELSE 0
<1>1. /\ timer' = (out = "resumed") /\ callback' = "idle" /\ op' = [t \in Threads |-> Idle] /\ requests' = requests
      /\ uuid' = (IF saved = None THEN 0 ELSE saved.session)
      /\ entered' = (IF out = "resumed" THEN entered \union known ELSE entered)
      /\ left' = [s \in Sessions |-> left[s] + more(s)]
      /\ silent' = silent \union ended \union (IF out \in {"revoked", "quiet"} THEN known ELSE {})
  BY DEF Restart
<1>2. /\ LeftInv /\ NamesFresh /\ left \in [Sessions -> Nat] /\ entered \subseteq Sessions /\ Main \in Threads
      /\ inMode \in BOOLEAN
  BY DEF AuditInv, ModeInv, TypeOK, HistoryType, StateType, Threads
<1>3. saved # None => /\ saved.session = uuid /\ Ending /\ saved.session \in Sessions
                      /\ known = {uuid}
  <2>1. saved # None => inMode /\ saved.session = uuid
    BY DEF ModeInv, SavedIsRunning
  <2>2. inMode => Ending
    BY DEF ModeInv, EndInv, SessionsHaveEnd, Ending
  <2>3. saved # None => saved.session \in Sessions
    BY DEF ModeInv, TypeOK, StateType
  <2> QED
    BY <2>1, <2>2, <2>3
<1>4. saved # None => left[uuid] = 0
  BY <1>2, <1>3 DEF LeftInv
<1>5. out \in {"none", "left", "revoked", "resumed", "quiet"} /\ (out = "none" <=> saved = None)
  BY DEF Outcome
<1>6. ~(\E t \in Threads : op'[t].pc \in {"leave", "leaveAudit"})
  BY <1>1 DEF Idle
<1>7. Ending' <=> out = "resumed"
  BY <1>1, <1>6 DEF Ending
<1> HIDE DEF out
<1>8. \A s \in Sessions : left'[s] = left[s] + more(s) /\ more(s) \in {0, 1} /\ (more(s) = 1 => s \in known /\ out = "left")
  BY <1>1
<1>9. \A s \in Sessions : s \in known => left[s] = 0 /\ s = uuid' /\ s = uuid
  BY <1>1, <1>3, <1>4
<1> HIDE DEF more
<1>10. \A s \in Sessions : left'[s] <= 1
  BY <1>2, <1>8, <1>9 DEF LeftInv
<1>11. Ending' => left'[uuid'] = 0
  <2> SUFFICES ASSUME out = "resumed" PROVE left'[uuid'] = 0
    BY <1>7
  <2>1. saved # None /\ uuid' = uuid /\ uuid \in Sessions
    BY <1>1, <1>3, <1>5
  <2> QED
    BY <1>2, <1>4, <1>8, <2>1
<1>12. ASSUME NEW s \in entered' \ silent', left'[s] = 0 PROVE s = uuid' /\ Ending'
  <2>1. s \in Sessions /\ left[s] = 0 /\ s \notin ended
    <3>1. known \subseteq Sessions
      BY <1>3
    <3>2. s \in Sessions /\ s \notin ended
      BY <1>1, <1>2, <1>12, <3>1
    <3> QED
      BY <1>2, <1>8, <1>12, <3>2
  <2>2. s \in known
    BY <1>1, <1>12, <2>1
  <2>3. out \notin {"revoked", "quiet"}
    BY <1>1, <1>12, <2>2
  <2>4. out # "left"
    <3>1. out = "left" => more(s) = 1
      BY <2>2 DEF more
    <3> QED
      BY <1>2, <1>8, <1>12, <2>1, <3>1
  <2>5. out = "resumed"
    BY <1>5, <2>2, <2>3, <2>4
  <2> QED
    BY <1>7, <1>9, <2>1, <2>2, <2>5
<1>13. NamesFresh'
  <2>1. \A u \in Threads : ~Asked(op'[u])
    BY <1>1 DEF Asked, Idle
  <2>2. uuid' \in {uuid, 0} /\ \A s \in Sessions : left'[s] = left[s] \/ s = uuid
    BY <1>1, <1>2, <1>3, <1>8, <1>9
  <2>3. /\ requests \in Nat /\ \A s \in Sessions : s > requests => left[s] = 0 /\ s # uuid
        /\ uuid <= requests /\ uuid \in Nat
    <3>1. requests \in Nat /\ uuid \in Nat /\ Sessions \subseteq Nat
      BY ConstantsAssumption DEF ModeInv, TypeOK, HistoryType, StateType, Sessions
    <3> QED
      BY <1>2, <3>1 DEF NamesFresh
  <2> QED
    BY <1>1, <2>1, <2>2, <2>3 DEF NamesFresh
<1> QED
  BY <1>10, <1>11, <1>12, <1>13 DEF AuditInv, LeftInv

LEMMA AuditInvStep == ModeInv /\ AuditInv /\ [Next]_vars => AuditInv'
<1> SUFFICES ASSUME ModeInv, AuditInv, [Next]_vars PROVE AuditInv'
  OBVIOUS
<1>1. CASE UNCHANGED vars
  <2>1. UNCHANGED <<op, uuid, left, entered, silent, requests, timer, callback>> /\ Main \in Threads
    BY <1>1 DEF vars, clock, audit, counters, Threads
  <2> QED
    BY <2>1, EndingSame, HolderKeepsTrail
<1>2. ASSUME NEW t \in Threads, Locked(t) PROVE AuditInv'
  BY <1>2, LockAudit, StartTimerAudit, HolderAudit DEF Locked
<1>3. ASSUME NEW c \in Callers,
             RequestMinutes(c) \/ Authorize(c) \/ Cancel(c) \/ SecondsRemaining(c) \/ NewModeTransitionReceived(c)
      PROVE  AuditInv'
  BY <1>3, CallsAudit DEF Threads
<1>4. ASSUME UpdateSyncState \/ \E s \in Servers \union {None} : ServerChanged(s) PROVE AuditInv'
  BY <1>4, MainAudit
<1> QED
  BY <1>1, <1>2, <1>3, <1>4, TimerAudit, RestartAudit DEF Next

LEMMA AuditInvInit == Init => AuditInv
<1> SUFFICES ASSUME Init PROVE AuditInv
  OBVIOUS
<1>1. \A t \in Threads : op[t] = Idle
  BY DEF Init
<1>2. /\ timer = FALSE /\ callback = "idle" /\ uuid = 0 /\ requests = 0 /\ entered = {}
      /\ left = [s \in Sessions |-> 0]
  BY DEF Init
<1>3. ~Ending
  BY <1>1, <1>2 DEF Ending, Idle
<1>4. LeftInv
  BY <1>2, <1>3 DEF LeftInv
<1>5. NamesFresh
  BY <1>1, <1>2 DEF NamesFresh, Asked, Idle
<1> QED
  BY <1>4, <1>5 DEF AuditInv

(* No session is reported as left twice, and a session that was reported as *)
(* entered and is not running any more was reported as left, or ended with  *)
(* a restart (the audit events of Cancel, RevokeLocked, OnTimer and         *)
(* SetupFromState).                                                         *)
THEOREM AuditAlwaysComplete == Spec => []AuditComplete
<1>1. AuditInv => AuditComplete
  BY DEF AuditInv, LeftInv, AuditComplete
<1> QED
  BY <1>1, ModeInvInit, ModeInvStep, AuditInvInit, AuditInvStep, PTL DEF Spec
=============================================================================
