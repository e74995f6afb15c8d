------------------------------ MODULE ExecAuth ------------------------------
(***************************************************************************)
(* Authorization of executions by santad: the Authorizer's handling of an  *)
(* AUTH_EXEC message (SNTEndpointSecurityAuthorizer.mm), the deadline      *)
(* timer of its client (SNTEndpointSecurityClient.mm), the cache of        *)
(* results (AuthResultCache.mm), the evaluation and the hold-and-ask flow  *)
(* (SNTExecutionController.mm), and the rule changes that flush the caches *)
(* (SNTDaemonControlController.mm).                                        *)
(*                                                                         *)
(* Handlers, deadline blocks, user replies and flushes run concurrently.   *)
(* A step is the code between two accesses to the state they share; the    *)
(* cache's own operations are atomic here (see SantaCache).                *)
(***************************************************************************)
EXTENDS Naturals, FiniteSets

CONSTANTS
  Execs,          \* executions: one process and one AUTH_EXEC message each
  Files,          \* executables (vnodes)
  FileOf,         \* execution -> its executable
  RootFiles,      \* executables on the device of "/"
  LongPaths,      \* executions whose path may be too long to be processed
  Unreadable,     \* executions whose file info may not be readable
  Slow,           \* executions whose deadline may expire before the answer
  Targets,        \* executions whose process others try to resume
  Probed,         \* executions a registered probe is interested in
  ByESClients,    \* executions whose caller may be another ES client
  CelAllows,      \* executions whose arguments a per-process CEL rule allows
  IgnoreOtherESClients, FailClosed, \* the configuration keys
  HasPidSuspend,  \* pid_suspend and pid_resume exist on this system
  Changes,        \* calls that add a rule or flush, from any number of clients
  Starts,         \* initial policies (executable -> rule), each with what the
                  \* calls will do (adding "ask" removes the rule)
  None

Rules == {"allow", "compiler", "deny", "cel", "ask", "touchid"}

ASSUME FilesAssumption ==
  /\ FileOf \in [Execs -> Files] /\ RootFiles \subseteq Files /\ None \notin Execs
At(place) == [at |-> place, file |-> None, rule |-> None]
Calls == [at : {"add"}, file : Files, rule : Rules] \union {At("command"), At("done")}
ASSUME RulesAssumption ==
  Starts \subseteq [rule : [Files -> Rules], calls : [Changes -> Calls]]
ASSUME SwitchesAssumption ==
  /\ IgnoreOtherESClients \in BOOLEAN /\ FailClosed \in BOOLEAN
  /\ HasPidSuspend \in BOOLEAN

VARIABLES
  cache,      \* executable -> cached action and the execution that set it
  esCache,    \* executable -> execution whose ALLOW the ES framework cached
  rule,       \* executable -> the rule (or mode) that decides it
  version,    \* policy version, counts commits
  change,     \* call -> where it is, and the rule it is about to add
  esClears,   \* clearCache calls queued for the ES client
  pc,         \* execution -> point in the handler
  action,     \* execution -> SNTAction to post or to apply
  timer,      \* execution -> the two semaphores of the deadline timer
  answer,     \* execution -> first response that reached ES
  suspended, killed, compilers, \* what happened to the processes
  signal,     \* procSignalCache: processes that nobody else may resume
  resume,     \* execution -> permission of another process to resume it
  loose,      \* processes that were to be stopped and are not (Suspend, ResumeProcess)
  prompt,     \* execution -> state of the user prompt and its reply
  seen,       \* execution -> policy version of the decision it uses
  flushed,    \* executable -> policy version guaranteed by its last flush
  esFlushed,  \* the same for the last clearing of the ES cache
  raced,      \* executions that used a decision across a flush
  asked       \* holds because the binary is unknown in standalone mode

policy == <<rule, version, change, esClears, flushed, esFlushed>>
resuming == <<resume, loose>>
procs == <<suspended, killed, compilers, signal, prompt, resuming>>
vars == <<cache, esCache, pc, action, timer, answer, seen, raced, asked, policy, procs>>

Unset == [act |-> "Unset", by |-> None]
Final == {"Allow", "AllowCompiler", "Deny"}

(* Executions that took a decision and have not passed it on yet. *)
Deciding == {e \in Execs : pc[e] \in {"hold", "suspend", "post", "respond"}}

Init ==
  /\ cache = [f \in Files |-> Unset]
  /\ esCache = [f \in Files |-> None]
  /\ \E s \in Starts : rule = s.rule /\ change = s.calls
  /\ version = 0 /\ esClears = 0
  /\ pc = [e \in Execs |-> "idle"]
  /\ action = [e \in Execs |-> "Unset"]
  /\ timer = [e \in Execs |-> "unarmed"]
  /\ answer = [e \in Execs |-> "none"]
  /\ suspended = {} /\ killed = {} /\ compilers = {} /\ signal = {}
  /\ resume = [e \in Execs |-> "none"] /\ loose = {}
  /\ prompt = [e \in Execs |-> "none"]
  /\ seen = [e \in Execs |-> 0]
  /\ flushed = [f \in Files |-> 0] /\ esFlushed = flushed
  /\ raced = {} /\ asked = {}

-----------------------------------------------------------------------------
(* AuthResultCache *)

Goto(e, l) == pc' = [pc EXCEPT ![e] = l]
RemoveFromCache(f) == cache' = [cache EXCEPT ![f] = Unset]

(* Mutant of AddToCache: a final result is stored only if there is no entry. *)
AddToCacheWrongPrev(e, act) ==
  cache' = [cache EXCEPT ![FileOf[e]] = IF @.act = "Unset" THEN [act |-> act, by |-> e] ELSE @]

(* AddToCache: a compare-and-swap out of the state the action may leave. *)
AddToCache(e, act) ==
  LET f == FileOf[e]
      CAS(from) == cache' = [cache EXCEPT ![f] = IF @.act = from THEN [act |-> act, by |-> e] ELSE @]
  IN  \/ act = "RequestBinary" /\ CAS("Unset")
      \/ act \in Final \union {"Hold"} /\ CAS("RequestBinary")
      \/ act \in {"HoldAllowed", "HoldDenied"} /\ RemoveFromCache(f)
      \/ act = "AllowNoCache" /\ UNCHANGED cache

(* A cached DENY outlives its expiry time. *)
DenyExpires(f) ==
  /\ cache[f].act = "Deny"
  /\ cache' = [cache EXCEPT ![f].act = "Expired"]
  /\ UNCHANGED <<esCache, pc, action, timer, answer, seen, raced, asked, policy, procs>>

-----------------------------------------------------------------------------
(* The Endpoint Security framework, as santad uses it: the first response   *)
(* counts, and an ALLOW may be cached.                                      *)

Running(e) == answer[e] = "allow" /\ e \notin suspended \union killed

Answer(e, result, cacheable) ==
  IF answer[e] # "none" THEN UNCHANGED <<answer, esCache>>
  ELSE /\ answer' = [answer EXCEPT ![e] = result]
       /\ esCache' = IF cacheable THEN [esCache EXCEPT ![FileOf[e]] = e] ELSE esCache

(* A process calls exec: ES answers from its cache or sends the message. *)
Exec(e) ==
  /\ pc[e] = "idle"
  /\ \/ /\ esCache[FileOf[e]] # None
        /\ answer' = [answer EXCEPT ![e] = "allow"]
        /\ seen' = [seen EXCEPT ![e] = seen[esCache[FileOf[e]]]]
        /\ Goto(e, "done")
     \/ /\ esCache[FileOf[e]] = None
        /\ Goto(e, "sync")
        /\ UNCHANGED <<answer, seen>>
  /\ UNCHANGED <<cache, esCache, action, timer, raced, asked, policy, procs>>

(* The ES client's queued clearCache runs. *)
ClearESCache ==
  /\ esClears > 0
  /\ esClears' = esClears - 1
  /\ esCache' = [f \in Files |-> None]
  /\ esFlushed' = flushed
  /\ UNCHANGED <<cache, rule, version, change, flushed, pc, action, timer, answer,
                 seen, raced, asked, procs>>

-----------------------------------------------------------------------------
(* The Authorizer's handler *)

(* shouldHandleMessage: the message of another ES client is allowed at once *)
(* if the configuration says so, and ES may cache the answer.               *)
IgnoreMessage(e) ==
  /\ pc[e] = "sync" /\ e \in ByESClients /\ IgnoreOtherESClients
  /\ Answer(e, "allow", TRUE)
  /\ seen' = [seen EXCEPT ![e] = version]
  /\ Goto(e, "done")
  /\ UNCHANGED <<cache, action, timer, raced, asked, policy, procs>>

(* handleMessage: an overlong path is denied on the spot, everything else   *)
(* goes to the queue together with a deadline timer.                        *)
HandleMessage(e) ==
  /\ pc[e] = "sync"
  /\ \/ /\ e \in LongPaths
        /\ action' = [action EXCEPT ![e] = "Deny"]
        /\ seen' = [seen EXCEPT ![e] = version]
        /\ Goto(e, "post")
        /\ UNCHANGED timer
     \/ /\ timer' = [timer EXCEPT ![e] = "armed"]
        /\ Goto(e, "check")
        /\ UNCHANGED <<action, seen>>
  /\ UNCHANGED <<cache, esCache, answer, raced, asked, policy, procs>>

(* CheckCache in processMessage's loop: use a final result, refuse while a  *)
(* prompt is open, poll while another handler evaluates.                    *)
CheckCache(e) ==
  LET c == cache[FileOf[e]]
  IN  /\ pc[e] = "check"
      /\ \/ /\ c.act \in Final
            /\ action' = [action EXCEPT ![e] = c.act]
            /\ seen' = [seen EXCEPT ![e] = seen[c.by]]
            /\ raced' = IF c.by \in raced THEN raced \union {e} ELSE raced
            /\ compilers' = IF c.act = "AllowCompiler" THEN compilers \union {e} ELSE compilers
            /\ Goto(e, "respond")
         \/ /\ c.act = "Hold"
            /\ action' = [action EXCEPT ![e] = "Deny"]
            /\ Goto(e, "respond")
            /\ UNCHANGED <<seen, raced, compilers>>
         \/ /\ c.act = "Expired" /\ Goto(e, "expire")
            /\ UNCHANGED <<action, seen, raced, compilers>>
         \/ /\ c.act = "Unset" /\ Goto(e, "request")
            /\ UNCHANGED <<action, seen, raced, compilers>>
      /\ UNCHANGED <<cache, esCache, timer, answer, asked, policy,
                     suspended, killed, signal, prompt, resuming>>

(* CheckCache removes the expired entry it read, whatever is there now. *)
RemoveExpired(e) ==
  /\ pc[e] = "expire"
  /\ RemoveFromCache(FileOf[e])
  /\ Goto(e, "request")
  /\ UNCHANGED <<esCache, action, timer, answer, seen, raced, asked, policy, procs>>

(* Announce the evaluation; the result of AddToCache is not looked at. *)
RequestBinary(e) ==
  /\ pc[e] = "request"
  /\ AddToCache(e, "RequestBinary")
  /\ Goto(e, "evaluate")
  /\ UNCHANGED <<esCache, action, timer, answer, seen, raced, asked, policy, procs>>

(* The action that validateExecEvent forms from the decision. *)
ActionFor == [allow |-> "Allow", compiler |-> "AllowCompiler", deny |-> "Deny",
              ask |-> "Hold", touchid |-> "Hold"]
Decision(e) ==
  LET r == rule[FileOf[e]]
  IN  IF r = "cel" THEN IF e \in CelAllows THEN "AllowNoCache" ELSE "Deny" ELSE ActionFor[r]

(* File info that cannot be read is decided by the fail-closed switch alone. *)
Verdicts(e) ==
  {Decision(e)} \union
  (IF e \in Unreadable THEN {IF FailClosed THEN "Deny" ELSE "Allow"} ELSE {})

(* validateExecEvent up to the decision. *)
Evaluate(e) ==
  /\ pc[e] = "evaluate"
  /\ \E verdict \in Verdicts(e) :
       /\ action' = [action EXCEPT ![e] = verdict]
       /\ asked' = IF verdict = "Hold" /\ rule[FileOf[e]] = "ask" THEN asked \union {e} ELSE asked
       /\ Goto(e, IF verdict = "Hold" THEN "hold" ELSE "post")
  /\ seen' = [seen EXCEPT ![e] = version]
  /\ UNCHANGED <<cache, esCache, timer, answer, raced, policy, procs>>

(* Mutant of SetSignal: the process is not protected from being resumed. *)
SetSignalSkipped(e) ==
  /\ pc[e] = "hold"
  /\ Goto(e, "suspend")
  /\ UNCHANGED <<cache, esCache, action, timer, answer, seen, raced, asked, policy, procs>>

(* Hold and ask: nobody else may resume the process ... *)
SetSignal(e) ==
  /\ pc[e] = "hold"
  /\ signal' = signal \union {e}
  /\ Goto(e, "suspend")
  /\ UNCHANGED <<cache, esCache, action, timer, answer, seen, raced, asked, policy,
                 suspended, killed, compilers, prompt, resuming>>

(* ... and it is stopped (killed where it cannot be) before ES is answered. *)
(* Whether pid_suspend succeeded is not looked at.                          *)
Suspend(e) ==
  /\ pc[e] = "suspend"
  /\ IF HasPidSuspend
     THEN \/ suspended' = suspended \union {e} /\ UNCHANGED <<killed, loose>>
          \/ loose' = loose \union {e} /\ UNCHANGED <<killed, suspended>>
     ELSE killed' = killed \union {e} /\ UNCHANGED <<suspended, loose>>
  /\ Goto(e, "post")
  /\ UNCHANGED <<cache, esCache, action, timer, answer, seen, raced, asked, policy,
                 compilers, signal, prompt, resume>>

(* postAction up to the response: mark a compiler, update the cache. *)
PostAction(e) ==
  /\ pc[e] = "post"
  /\ IF action[e] = "AllowNoCache" THEN RemoveFromCache(FileOf[e]) ELSE AddToCache(e, action[e])
  /\ compilers' = IF action[e] = "AllowCompiler" THEN compilers \union {e} ELSE compilers
  /\ Goto(e, "respond")
  /\ UNCHANGED <<esCache, action, timer, answer, seen, raced, asked, policy,
                 suspended, killed, signal, prompt, resuming>>

(* Mutant of Respond: compilers' results are cached by ES, too. *)
RespondCachesAll(e) ==
  /\ pc[e] = "respond"
  /\ Answer(e, IF action[e] = "Deny" THEN "deny" ELSE "allow", action[e] # "Deny")
  /\ Goto(e, IF action[e] = "Hold" THEN "notify" ELSE "finish")
  /\ UNCHANGED <<cache, action, timer, seen, raced, asked, policy, procs>>

(* respondToMessage: only a plain ALLOW may be cached by ES, and only if no *)
(* probe watches the process.                                               *)
Respond(e) ==
  /\ pc[e] = "respond"
  /\ Answer(e, IF action[e] = "Deny" THEN "deny" ELSE "allow",
               action[e] = "Allow" /\ e \notin Probed)
  /\ Goto(e, IF action[e] = "Hold" THEN "notify" ELSE "finish")
  /\ UNCHANGED <<cache, action, timer, seen, raced, asked, policy, procs>>

(* Queue the notification with its reply block. *)
Notify(e) ==
  /\ pc[e] = "notify"
  /\ prompt' = [prompt EXCEPT ![e] = "open"]
  /\ Goto(e, "finish")
  /\ UNCHANGED <<cache, esCache, action, timer, answer, seen, raced, asked, policy,
                 suspended, killed, compilers, signal, resuming>>

(* Mutant of Finish: the deadline block does not signal that it answered. *)
FinishUnsignalled(e) ==
  /\ pc[e] = "finish"
  /\ timer[e] \in {"unarmed", "armed"}
  /\ timer' = [timer EXCEPT ![e] = IF @ = "armed" THEN "handled" ELSE @]
  /\ Goto(e, "done")
  /\ UNCHANGED <<cache, esCache, action, answer, seen, raced, asked, policy, procs>>

(* The handler returns: it disarms the timer or waits for the deadline      *)
(* block that was faster (an overlong path never had a timer).              *)
Finish(e) ==
  /\ pc[e] = "finish"
  /\ timer[e] \in {"unarmed", "armed", "answered"}
  /\ timer' = [timer EXCEPT ![e] = IF @ = "armed" THEN "handled" ELSE @]
  /\ Goto(e, "done")
  /\ UNCHANGED <<cache, esCache, action, answer, seen, raced, asked, policy, procs>>

(* The deadline block wins the processing semaphore ... *)
DeadlineFires(e) ==
  /\ e \in Slow /\ timer[e] = "armed"
  /\ timer' = [timer EXCEPT ![e] = "fired"]
  /\ UNCHANGED <<cache, esCache, pc, action, answer, seen, raced, asked, policy, procs>>

(* ... answers on behalf of the handler, and signals it. *)
DeadlineResponds(e) ==
  /\ timer[e] = "fired"
  /\ Answer(e, IF FailClosed THEN "deny" ELSE "allow", FALSE)
  /\ timer' = [timer EXCEPT ![e] = "answered"]
  /\ UNCHANGED <<cache, pc, action, seen, raced, asked, policy, procs>>

-----------------------------------------------------------------------------
(* The reply to a prompt, and attempts to resume a held process. *)

(* The user's answer (or NO from the notification queue); approving an      *)
(* unknown binary in standalone mode adds a rule, without a flush.          *)
UserReplies(e) ==
  /\ prompt[e] = "open"
  /\ \/ /\ prompt' = [prompt EXCEPT ![e] = "approved"]
        /\ rule' = IF e \in asked THEN [rule EXCEPT ![FileOf[e]] = "allow"] ELSE rule
     \/ /\ prompt' = [prompt EXCEPT ![e] = "refused"]
        /\ UNCHANGED rule
  /\ UNCHANGED <<cache, esCache, version, change, esClears, flushed, esFlushed, pc, action, timer,
                 answer, seen, raced, asked, suspended, killed, compilers, signal, resuming>>

(* Resume or kill the process; without pid_resume, approving kills it, too. *)
(* Whether pid_resume succeeded is not looked at.                           *)
ControlProcess(e) ==
  /\ prompt[e] \in {"approved", "refused"}
  /\ IF prompt[e] = "approved" /\ HasPidSuspend
     THEN suspended' = suspended \ {e} /\ UNCHANGED killed
     ELSE killed' = killed \union {e} /\ UNCHANGED suspended
  /\ prompt' = [prompt EXCEPT ![e] = IF @ = "approved" THEN "resumed" ELSE "killed"]
  /\ UNCHANGED <<cache, esCache, pc, action, timer, answer, seen, raced, asked, policy,
                 compilers, signal, resuming>>

(* Drop the protection against being resumed ... *)
ClearSignal(e) ==
  /\ prompt[e] \in {"resumed", "killed"} /\ e \in signal
  /\ signal' = signal \ {e}
  /\ UNCHANGED <<cache, esCache, pc, action, timer, answer, seen, raced, asked, policy,
                 suspended, killed, compilers, prompt, resuming>>

(* ... and post HoldAllowed or HoldDenied, which removes the Hold entry. *)
EndHold(e) ==
  /\ prompt[e] \in {"resumed", "killed"} /\ e \notin signal
  /\ AddToCache(e, IF prompt[e] = "resumed" THEN "HoldAllowed" ELSE "HoldDenied")
  /\ prompt' = [prompt EXCEPT ![e] = "closed"]
  /\ UNCHANGED <<esCache, pc, action, timer, answer, seen, raced, asked, policy,
                 suspended, killed, compilers, signal, resuming>>

(* Another process tries to resume e, which concerns only a process that is *)
(* stopped or about to be.  validateSuspendResumeEvent permits it unless    *)
(* the process is protected; so do, without a look, the deadline of a       *)
(* daemon that fails open and shouldHandleMessage for another ES client.    *)
(* "unguarded": the protection was not there yet, or was not looked at.     *)
AnswerResume(e) ==
  /\ e \in Targets /\ resume[e] = "none" /\ (pc[e] \in {"hold", "suspend"} \/ e \in suspended)
  /\ \/ /\ e \notin signal
        /\ resume' = [resume EXCEPT ![e] = IF pc[e] = "hold" THEN "unguarded" ELSE "granted"]
     \/ /\ ~FailClosed \/ IgnoreOtherESClients
        /\ resume' = [resume EXCEPT ![e] = "unguarded"]
  /\ UNCHANGED <<cache, esCache, pc, action, timer, answer, seen, raced, asked, policy,
                 suspended, killed, compilers, signal, prompt, loose>>

(* The kernel carries out a permitted resume, whatever happened meanwhile.  *)
ResumeProcess(e) ==
  /\ resume[e] # "none"
  /\ suspended' = suspended \ {e}
  /\ loose' = IF resume[e] = "unguarded" THEN loose \union (suspended \intersect {e}) ELSE loose
  /\ resume' = [resume EXCEPT ![e] = "none"]
  /\ UNCHANGED <<cache, esCache, pc, action, timer, answer, seen, raced, asked, policy,
                 killed, compilers, signal, prompt>>

-----------------------------------------------------------------------------
(* Policy changes and flushes *)

(* addedRulesShouldFlushDecisionCache. *)
NeedsFlush(old, new) ==
  \/ new # "allow" /\ new # old
  \/ new = "allow" /\ old = "compiler"

(* databaseRuleAdd decides whether to flush from the rules that are there   *)
(* now (cleaning and file access rules always flush) ...                    *)
CheckRules(c) ==
  /\ change[c].at = "add"
  /\ \E flushes \in {TRUE, NeedsFlush(rule[change[c].file], change[c].rule)} :
       change' = [change EXCEPT ![c].at = IF flushes THEN "replacing" ELSE "adding"]
  /\ UNCHANGED <<cache, esCache, rule, version, esClears, flushed, esFlushed, pc, action, timer,
                 answer, seen, raced, asked, procs>>

(* ... and commits its own, unless the transaction fails, before it flushes. *)
CommitRules(c) ==
  /\ change[c].at \in {"adding", "replacing"}
  /\ rule' \in {rule, [rule EXCEPT ![change[c].file] = change[c].rule]}
  /\ version' = version + 1
  /\ change' = [change EXCEPT ![c] = At(IF @.at = "replacing" THEN "nonroot" ELSE "done")]
  /\ UNCHANGED <<cache, esCache, esClears, flushed, esFlushed, pc, action, timer, answer,
                 seen, raced, asked, procs>>

(* Mutant of FlushCache: only the root device's cache is cleared. *)
FlushCacheRootOnly(c) ==
  /\ change[c].at = "nonroot"
  /\ cache' = [f \in Files |-> IF f \in RootFiles THEN Unset ELSE cache[f]]
  /\ flushed' = [f \in Files |-> version]
  /\ raced' = raced \union Deciding
  /\ change' = [change EXCEPT ![c] = At("done")] /\ esClears' = esClears + 1
  /\ UNCHANGED <<esCache, rule, version, esFlushed, pc, action, timer, answer, seen,
                 asked, procs>>

(* FlushCache(kAllCaches): first the other devices' cache, then the root    *)
(* device's, then queue the clearing of the ES cache.                       *)
FlushCache(c) ==
  LET Cleared == IF change[c].at = "nonroot" THEN Files \ RootFiles ELSE RootFiles
  IN  /\ change[c].at \in {"nonroot", "root"}
      /\ cache' = [f \in Files |-> IF f \in Cleared THEN Unset ELSE cache[f]]
      /\ flushed' = [f \in Files |-> IF f \in Cleared THEN version ELSE flushed[f]]
      /\ raced' = raced \union {e \in Deciding : FileOf[e] \in Cleared}
      /\ change' = [change EXCEPT ![c] = At(IF @.at = "nonroot" THEN "root" ELSE "done")]
      /\ esClears' = IF change[c].at = "root" THEN esClears + 1 ELSE esClears
      /\ UNCHANGED <<esCache, rule, version, esFlushed, pc, action, timer, answer, seen,
                     asked, procs>>

(* santactl flushcache. *)
FlushCommand(c) ==
  /\ change[c].at = "command"
  /\ version' = version + 1
  /\ change' = [change EXCEPT ![c] = At("nonroot")]
  /\ UNCHANGED <<cache, esCache, rule, esClears, flushed, esFlushed, pc, action, timer,
                 answer, seen, raced, asked, procs>>

(* FlushCache(kNonRootOnly): a file system was unmounted. *)
Unmount ==
  /\ \E f \in Files \ RootFiles : cache[f] # Unset
  /\ cache' = [f \in Files |-> IF f \in RootFiles THEN cache[f] ELSE Unset]
  /\ UNCHANGED <<esCache, pc, action, timer, answer, seen, raced, asked, policy, procs>>

-----------------------------------------------------------------------------
Handler(e) ==
  \/ IgnoreMessage(e) \/ HandleMessage(e)
  \/ CheckCache(e) \/ RemoveExpired(e) \/ RequestBinary(e)
  \/ Evaluate(e) \/ SetSignal(e) \/ Suspend(e) \/ PostAction(e) \/ Respond(e)
  \/ Notify(e) \/ Finish(e)

Deadline(e) == DeadlineFires(e) \/ DeadlineResponds(e)
Reply(e) == UserReplies(e) \/ ControlProcess(e) \/ ClearSignal(e) \/ EndHold(e)
Others(e) == AnswerResume(e) \/ ResumeProcess(e)
Change(c) ==
  CheckRules(c) \/ CommitRules(c) \/ FlushCommand(c) \/ FlushCache(c)

(* Every execution was handled and nothing is left to do. *)
Quiet ==
  /\ \A e \in Execs : pc[e] = "done" /\ prompt[e] \in {"none", "closed"}
  /\ \A c \in Changes : change[c] = At("done")
  /\ esClears = 0
  /\ UNCHANGED vars

Next ==
  \/ \E e \in Execs : Exec(e) \/ Handler(e) \/ Deadline(e) \/ Reply(e) \/ Others(e)
  \/ \E c \in Changes : Change(c)
  \/ \E f \in Files : DenyExpires(f)
  \/ Unmount \/ ClearESCache \/ Quiet

Spec == Init /\ [][Next]_vars

(* Dispatch runs every queued block; the timer of an armed deadline fires.  *)
(* Nothing is assumed of users, of callers of exec, or of expiry.           *)
FairSpec == Spec /\ \A e \in Execs : WF_vars(Handler(e) \/ DeadlineResponds(e))

-----------------------------------------------------------------------------
Acts == {"Unset", "RequestBinary", "Hold", "Expired"} \union Final
Adding == [at : {"add", "adding", "replacing"}, file : Files, rule : Rules]

(* Every variable has its type; the clearings of the ES cache that are    *)
(* queued never go below zero (FlushCache).                                *)
TypeOK ==
  /\ cache \in [Files -> [act : Acts, by : Execs \union {None}]]
  /\ esCache \in [Files -> Execs \union {None}]
  /\ rule \in [Files -> Rules] /\ version \in Nat /\ esClears \in Nat
  /\ change \in [Changes -> Adding \union {At(p) : p \in {"command", "nonroot", "root", "done"}}]
  /\ pc \in [Execs -> {"idle", "sync", "check", "expire", "request", "evaluate", "hold",
                       "suspend", "post", "respond", "notify", "finish", "done"}]
  /\ action \in [Execs -> {"Unset", "Hold", "AllowNoCache"} \union Final]
  /\ timer \in [Execs -> {"unarmed", "armed", "handled", "fired", "answered"}]
  /\ answer \in [Execs -> {"none", "allow", "deny"}]
  /\ suspended \subseteq Execs /\ killed \subseteq Execs
  /\ compilers \subseteq Execs /\ signal \subseteq Execs /\ loose \subseteq Execs
  /\ resume \in [Execs -> {"none", "granted", "unguarded"}]
  /\ raced \subseteq Execs /\ asked \subseteq Execs
  /\ prompt \in [Execs -> {"none", "open", "approved", "refused", "resumed", "killed", "closed"}]
  /\ seen \in [Execs -> Nat] /\ flushed \in [Files -> Nat] /\ esFlushed \in [Files -> Nat]

(* A RequestBinary entry always belongs to a handler that is still going to *)
(* replace it: the others poll it, and would poll an abandoned one until    *)
(* their deadlines.                                                         *)
Evaluating(e) == pc[e] \in {"evaluate", "hold", "suspend", "post"}
RequestsOwned ==
  \A f \in Files : cache[f].act = "RequestBinary" =>
    \E e \in Execs : FileOf[e] = f /\ Evaluating(e)

(* A Hold entry, which denies every further execution of the binary, always *)
(* belongs to a prompt whose reply is still going to remove it.             *)
HoldsOwned ==
  \A f \in Files : cache[f].act = "Hold" =>
    \E e \in Execs :
      /\ FileOf[e] = f /\ action[e] = "Hold"
      /\ pc[e] \in {"respond", "notify"} \/ prompt[e] \notin {"none", "closed"}

(* Both kinds of entry that make others wait have somebody who ends them,   *)
(* whatever flushes, expiries and deadlines do in between.                  *)
EntriesOwned == RequestsOwned /\ HoldsOwned

(* A process that awaits approval does not run until the user approves,     *)
(* whoever asks to resume it once it is protected.  The exceptions are the  *)
(* deadline of a daemon that fails open, only until the handler suspends    *)
(* the process, and the loose: pid_suspend failed, or a resume permitted    *)
(* before the protection, or without a look at it, came after pid_suspend.  *)
HeldUntilApproved ==
  \A e \in Execs :
    /\ action[e] = "Hold" /\ prompt[e] \in {"none", "open", "refused", "killed"}
    /\ Running(e)
    => \/ ~FailClosed /\ timer[e] = "answered" /\ pc[e] \in {"hold", "suspend"}
       \/ e \in loose /\ prompt[e] # "killed"

(* After a flush the caches only hold decisions made under the policy of    *)
(* the flush, except those of handlers that had decided before the flush    *)
(* and stored or answered after it.                                         *)
Older(e, v) == seen[e] < v /\ e \notin raced
FreshUnlessRaced ==
  \A f \in Files :
    /\ cache[f].act \in Final => ~Older(cache[f].by, flushed[f])
    /\ esCache[f] # None => ~Older(esCache[f], esFlushed[f])

(* ES caches nothing but final plain ALLOWs and, where other ES clients are *)
(* ignored, the answers for them, which nothing decided ("Unset"): a cached *)
(* compiler would not be marked again, a cached hold, a decision for one    *)
(* process or the answer of a deadline would be reused.                     *)
ESCachesPlainAllows ==
  \A f \in Files : LET e == esCache[f] IN
    e # None =>
      /\ answer[e] = "allow"
      /\ \/ action[e] = "Allow"
         \/ action[e] = "Unset" /\ e \in ByESClients /\ IgnoreOtherESClients

(* Every handler returns, without the help of the deadline: no handler      *)
(* polls the cache forever or waits forever for its deadline block.         *)
HandlersReturn == \A e \in Execs : (pc[e] = "sync") ~> (pc[e] = "done")

-----------------------------------------------------------------------------
(* "If any rules are added that are not plain allowlist rules, then flush   *)
(* decision cache" (databaseRuleAdd): once the flush is done, no decision   *)
(* made before the rule was added is cached.                                *)
FlushDropsOldDecisions ==
  \A f \in Files : cache[f].act \in Final => seen[cache[f].by] >= flushed[f]

(* "Only allow a user in standalone mode to override a block if an explicit *)
(* block rule is not set" (validateExecEvent).                              *)
UserOverridesNoBlock ==
  [][\A e \in Execs : UserReplies(e) /\ rule[FileOf[e]] = "deny" =>
       rule'[FileOf[e]] = "deny"]_vars

(* "This expression will NOT be cacheable" (binary-authorization.md, about  *)
(* an expression over the arguments): an execution whose arguments the      *)
(* expression allows is not denied by the result for another execution.     *)
PerProcessNotShared ==
  \A e \in Execs : rule[FileOf[e]] = "cel" /\ answer[e] = "deny" => e \notin CelAllows
=============================================================================
