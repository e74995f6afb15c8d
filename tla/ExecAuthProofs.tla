--------------------------- MODULE ExecAuthProofs ---------------------------
(***************************************************************************)
(* Proofs about ExecAuth for any number of executions, executables, rules  *)
(* and flushes: the types, that no cache entry is left without the handler *)
(* or the prompt that will replace it, that a held process does not run    *)
(* before it is approved, that a flush leaves no decision behind but those *)
(* of handlers that raced it, and that ES caches plain allows only.  The   *)
(* last part is about NotificationQueue, in which the reply blocks of held *)
(* executions wait: none of them is lost.                                  *)
(***************************************************************************)
EXTENDS ExecAuth, NotificationQueue, WellFoundedInduction, SequenceTheorems, TLAPS

PCs == {"idle", "sync", "check", "expire", "request", "evaluate", "hold",
        "suspend", "post", "respond", "notify", "finish", "done"}

(* The types that the other invariants need. *)
CoreType ==
  /\ cache \in [Files -> [act : Acts, by : Execs \union {None}]]
  /\ rule \in [Files -> Rules]
  /\ change \in [Changes -> Adding \union {At(p) : p \in {"command", "nonroot", "root", "done"}}]
  /\ resume \in [Execs -> {"none", "granted", "unguarded"}]
  /\ pc \in [Execs -> PCs]
  /\ action \in [Execs -> {"Unset", "Hold", "AllowNoCache"} \union Final]
  /\ timer \in [Execs -> {"unarmed", "armed", "handled", "fired", "answered"}]
  /\ answer \in [Execs -> {"none", "allow", "deny"}]
  /\ prompt \in [Execs -> {"none", "open", "approved", "refused", "resumed", "killed", "closed"}]
  \* What is posted is an action that AddToCache knows.
  /\ \A e \in Execs : /\ pc[e] \in {"post", "respond"} => action[e] # "Unset"
                      /\ pc[e] \in {"hold", "suspend", "notify"} => action[e] = "Hold"

LEMMA VerdictType ==
  ASSUME CoreType, NEW e \in Execs
  PROVE  Verdicts(e) \subseteq {"Hold", "AllowNoCache"} \union Final
<1>1. rule[FileOf[e]] \in Rules
  BY FilesAssumption DEF CoreType
<1>2. \A r \in Rules : r # "cel" => ActionFor[r] \in {"Hold"} \union Final
  BY DEF Rules, ActionFor, Final
<1> QED BY <1>1, <1>2, SwitchesAssumption DEF Verdicts, Decision, Final

LEMMA AddToCacheType ==
  ASSUME CoreType, NEW e \in Execs,
         NEW act \in {"RequestBinary", "Hold", "AllowNoCache", "HoldAllowed", "HoldDenied"} \union Final,
         AddToCache(e, act)
  PROVE  /\ cache' \in [Files -> [act : Acts, by : Execs \union {None}]]
         /\ \A f \in Files : f # FileOf[e] => cache'[f] = cache[f]
BY FilesAssumption DEF CoreType, AddToCache, RemoveFromCache, Unset, Acts, Final

(* The owner of an entry that others wait on or are denied by. *)
HoldPending(e) ==
  /\ action[e] = "Hold"
  /\ \/ pc[e] \in {"respond", "notify"}
     \/ pc[e] \in {"finish", "done"} /\ prompt[e] \notin {"none", "closed"}
EntryOwned(f) ==
  LET e == cache[f].by
  IN  /\ cache[f].act # "Unset" => e \in Execs
      /\ cache[f].act = "RequestBinary" => e \in Execs /\ FileOf[e] = f /\ Evaluating(e)
      /\ cache[f].act = "Hold" => e \in Execs /\ FileOf[e] = f /\ HoldPending(e)

(* A prompt belongs to a handler that has answered with a hold. *)
PromptInv(e) == prompt[e] # "none" => pc[e] \in {"finish", "done"} /\ action[e] = "Hold"

(* Before the handler responds, only a deadline that fails open allows; a   *)
(* held process is protected until the reply block is done with it, and it  *)
(* is stopped or killed until it is approved, or it is loose: whoever may   *)
(* resume it was permitted to before it was protected, or was not looked at. *)
HeldInv(e) ==
  /\ pc[e] \in {"idle", "sync"} =>
       timer[e] = "unarmed" /\ answer[e] = "none" /\ action[e] = "Unset"
  /\ pc[e] \notin {"notify", "finish", "done"} /\ answer[e] = "allow"
     => timer[e] = "answered" /\ ~FailClosed
  /\ action[e] = "Hold" => pc[e] \notin {"idle", "sync", "check", "expire", "request", "evaluate"}
  /\ pc[e] = "suspend" => e \in signal
  /\ action[e] = "Hold" /\ pc[e] # "hold" /\ prompt[e] \in {"none", "open", "approved", "refused"}
     => e \in signal /\ resume[e] # "granted"
  /\ action[e] = "Hold" /\ pc[e] \notin {"hold", "suspend"} /\ prompt[e] \in {"none", "open", "refused"}
     => e \in suspended \union killed \union loose
  /\ pc[e] = "hold" \/ action[e] # "Hold" => e \notin suspended /\ resume[e] # "granted"
  /\ prompt[e] = "killed" => e \in killed

ExecInv ==
  /\ CoreType
  /\ \A f \in Files : EntryOwned(f)
  /\ \A e \in Execs : PromptInv(e) /\ HeldInv(e)

LEMMA InitExecInv == Init => ExecInv
<1> SUFFICES ASSUME Init PROVE ExecInv
  OBVIOUS
<1>1. rule \in [Files -> Rules] /\ change \in [Changes -> Calls]
  BY RulesAssumption DEF Init
<1>2. Calls \subseteq Adding \union {At(p) : p \in {"command", "nonroot", "root", "done"}}
  BY DEF Calls, Adding
<1> QED
  BY <1>1, <1>2, FilesAssumption DEF Init, ExecInv, CoreType, EntryOwned, PromptInv, HeldInv, Unset, Acts, PCs, Final

(* Every step of a handler, a deadline block, a reply or another process.   *)
LEMMA ExecStepInv ==
  ASSUME ExecInv, NEW e \in Execs,
         Exec(e) \/ Handler(e) \/ Deadline(e) \/ Reply(e) \/ Others(e)
  PROVE  ExecInv'
<1>1. CASE Exec(e)
  <2>1. CoreType'
    <3>1. pc' \in [Execs -> PCs] /\ answer' \in [Execs -> {"none", "allow", "deny"}]
      BY <1>1 DEF ExecInv, CoreType, PCs, Exec, Goto
    <3>2. ASSUME NEW u \in Execs
          PROVE  pc'[u] = pc[u] \/ pc'[u] \in {"sync", "done"}
      BY <1>1 DEF ExecInv, CoreType, Exec, Goto
    <3> QED BY <1>1, <3>1, <3>2 DEF ExecInv, CoreType, Exec, policy, procs, resuming
  <2>2. ASSUME NEW f \in Files PROVE EntryOwned(f)'
    BY <1>1, FilesAssumption, ZenonT(30) DEF ExecInv, CoreType, PCs, EntryOwned, PromptInv, HeldInv,
       Evaluating, HoldPending, Exec, Goto, policy, procs, resuming
  <2>3. ASSUME NEW u \in Execs PROVE PromptInv(u)'
    BY <1>1 DEF ExecInv, CoreType, PCs, PromptInv, Exec, Goto, policy, procs, resuming
  <2>4. ASSUME NEW u \in Execs PROVE HeldInv(u)'
    BY <1>1, FilesAssumption, SwitchesAssumption DEF ExecInv, CoreType, PCs, PromptInv, HeldInv,
       Exec, Goto, policy, procs, resuming
  <2> QED BY <2>1, <2>2, <2>3, <2>4 DEF ExecInv
<1>20. CASE IgnoreMessage(e)
  <2>1. CoreType'
    <3>1. pc' \in [Execs -> PCs] /\ answer' \in [Execs -> {"none", "allow", "deny"}]
      BY <1>20 DEF ExecInv, CoreType, PCs, IgnoreMessage, Goto, Answer
    <3>2. ASSUME NEW u \in Execs
          PROVE  pc'[u] = pc[u] \/ pc'[u] = "done"
      BY <1>20 DEF ExecInv, CoreType, IgnoreMessage, Goto
    <3> QED BY <1>20, <3>1, <3>2 DEF ExecInv, CoreType, IgnoreMessage, policy, procs, resuming
  <2>2. ASSUME NEW f \in Files PROVE EntryOwned(f)'
    BY <1>20, FilesAssumption, ZenonT(30) DEF ExecInv, CoreType, PCs, EntryOwned, PromptInv, HeldInv,
       Evaluating, HoldPending, IgnoreMessage, Goto, policy, procs, resuming
  <2>3. ASSUME NEW u \in Execs PROVE PromptInv(u)'
    BY <1>20 DEF ExecInv, CoreType, PCs, PromptInv, IgnoreMessage, Goto, policy, procs, resuming
  <2>4. ASSUME NEW u \in Execs PROVE HeldInv(u)'
    BY <1>20, FilesAssumption, SwitchesAssumption DEF ExecInv, CoreType, PCs, PromptInv, HeldInv,
       IgnoreMessage, Answer, Goto, policy, procs, resuming
  <2> QED BY <2>1, <2>2, <2>3, <2>4 DEF ExecInv
<1>2. CASE HandleMessage(e)
  <2>1. CoreType'
    <3>1. /\ pc' \in [Execs -> PCs]
          /\ action' \in [Execs -> {"Unset", "Hold", "AllowNoCache"} \union Final]
          /\ timer' \in [Execs -> {"unarmed", "armed", "handled", "fired", "answered"}]
      BY <1>2 DEF ExecInv, CoreType, PCs, HandleMessage, Goto, Final
    <3>2. ASSUME NEW u \in Execs
          PROVE  /\ pc'[u] \in {"post", "respond"} => action'[u] # "Unset"
                 /\ pc'[u] \in {"hold", "suspend", "notify"} => action'[u] = "Hold"
      BY <1>2 DEF ExecInv, CoreType, PCs, HandleMessage, Goto, Final
    <3> QED BY <1>2, <3>1, <3>2 DEF ExecInv, CoreType, HandleMessage, policy, procs, resuming
  <2>2. ASSUME NEW f \in Files PROVE EntryOwned(f)'
    BY <1>2, FilesAssumption DEF ExecInv, CoreType, PCs, EntryOwned, PromptInv, HeldInv,
       Evaluating, HoldPending, HandleMessage, Goto, Final, policy, procs, resuming
  <2>3. ASSUME NEW u \in Execs PROVE PromptInv(u)'
    BY <1>2 DEF ExecInv, CoreType, PCs, PromptInv, HandleMessage, Goto, Final, policy, procs, resuming
  <2>4. ASSUME NEW u \in Execs PROVE HeldInv(u)'
    BY <1>2, FilesAssumption, SwitchesAssumption DEF ExecInv, CoreType, PCs, PromptInv, HeldInv,
       HandleMessage, Goto, Final, policy, procs, resuming
  <2> QED BY <2>1, <2>2, <2>3, <2>4 DEF ExecInv
<1>3. CASE CheckCache(e)
  <2>1. CoreType'
    <3>1. /\ pc' \in [Execs -> PCs]
          /\ action' \in [Execs -> {"Unset", "Hold", "AllowNoCache"} \union Final]
      BY <1>3 DEF ExecInv, CoreType, PCs, CheckCache, Goto, Final
    <3>2. ASSUME NEW u \in Execs
          PROVE  /\ pc'[u] \in {"post", "respond"} => action'[u] # "Unset"
                 /\ pc'[u] \in {"hold", "suspend", "notify"} => action'[u] = "Hold"
      BY <1>3 DEF ExecInv, CoreType, PCs, CheckCache, Goto, Final
    <3> QED BY <1>3, <3>1, <3>2 DEF ExecInv, CoreType, CheckCache, policy, resuming
  <2>2. ASSUME NEW f \in Files PROVE EntryOwned(f)'
    BY <1>3, FilesAssumption DEF ExecInv, CoreType, PCs, EntryOwned, PromptInv, HeldInv,
       Evaluating, HoldPending, CheckCache, Goto, Final, policy, procs, resuming
  <2>3. ASSUME NEW u \in Execs PROVE PromptInv(u)'
    BY <1>3 DEF ExecInv, CoreType, PCs, PromptInv, CheckCache, Goto, Final, policy, procs, resuming
  <2>4. ASSUME NEW u \in Execs PROVE HeldInv(u)'
    BY <1>3, FilesAssumption, SwitchesAssumption DEF ExecInv, CoreType, PCs, PromptInv, HeldInv,
       CheckCache, Goto, Final, policy, procs, resuming
  <2> QED BY <2>1, <2>2, <2>3, <2>4 DEF ExecInv
<1>4. CASE RemoveExpired(e)
  <2>1. CoreType'
    BY <1>4, FilesAssumption DEF ExecInv, CoreType, PCs, Acts, RemoveExpired, RemoveFromCache, Unset, Goto, Acts, policy, procs, resuming
  <2>2. ASSUME NEW f \in Files PROVE EntryOwned(f)'
    BY <1>4, FilesAssumption DEF ExecInv, CoreType, PCs, EntryOwned, PromptInv, HeldInv,
       Evaluating, HoldPending, RemoveExpired, RemoveFromCache, Unset, Goto, Acts, policy, procs, resuming
  <2>3. ASSUME NEW u \in Execs PROVE PromptInv(u)'
    BY <1>4 DEF ExecInv, CoreType, PCs, PromptInv, RemoveExpired, RemoveFromCache, Unset, Goto, Acts, policy, procs, resuming
  <2>4. ASSUME NEW u \in Execs PROVE HeldInv(u)'
    BY <1>4, FilesAssumption, SwitchesAssumption DEF ExecInv, CoreType, PCs, PromptInv, HeldInv,
       RemoveExpired, RemoveFromCache, Unset, Goto, Acts, policy, procs, resuming
  <2> QED BY <2>1, <2>2, <2>3, <2>4 DEF ExecInv
<1>5. CASE RequestBinary(e)
  <2>1. CoreType'
    BY <1>5, AddToCacheType DEF ExecInv, CoreType, PCs, RequestBinary, Goto, policy, procs, resuming
  <2>2. ASSUME NEW f \in Files PROVE EntryOwned(f)'
    <3>1. /\ cache' = [cache EXCEPT ![FileOf[e]] =
                 IF @.act = "Unset" THEN [act |-> "RequestBinary", by |-> e] ELSE @]
          /\ pc[e] = "request" /\ pc' = [pc EXCEPT ![e] = "evaluate"]
          /\ action' = action /\ prompt' = prompt
      BY <1>5 DEF RequestBinary, AddToCache, Goto, Final, procs
    <3>2. CASE f = FileOf[e] /\ cache[f].act = "Unset"
      BY <3>1, <3>2 DEF ExecInv, CoreType, EntryOwned, Evaluating
    <3>3. CASE cache'[f] = cache[f]
      BY <3>1, <3>3 DEF ExecInv, CoreType, EntryOwned, Evaluating, HoldPending
    <3> QED BY <3>1, <3>2, <3>3 DEF ExecInv, CoreType
  <2>3. ASSUME NEW u \in Execs PROVE PromptInv(u)'
    BY <1>5 DEF ExecInv, CoreType, PCs, PromptInv, RequestBinary, Goto, policy, procs, resuming
  <2>4. ASSUME NEW u \in Execs PROVE HeldInv(u)'
    BY <1>5, FilesAssumption, SwitchesAssumption DEF ExecInv, CoreType, PCs, PromptInv, HeldInv,
       RequestBinary, Goto, policy, procs, resuming
  <2> QED BY <2>1, <2>2, <2>3, <2>4 DEF ExecInv
<1>6. CASE Evaluate(e)
  <2>1. CoreType'
    BY <1>6, FilesAssumption, VerdictType DEF ExecInv, CoreType, PCs, Acts, Evaluate, Goto, Final, policy, procs, resuming
  <2>2. ASSUME NEW f \in Files PROVE EntryOwned(f)'
    BY <1>6, FilesAssumption, VerdictType DEF ExecInv, CoreType, PCs, EntryOwned, PromptInv, HeldInv,
       Evaluating, HoldPending, Evaluate, Goto, Final, policy, procs, resuming
  <2>3. ASSUME NEW u \in Execs PROVE PromptInv(u)'
    BY <1>6 DEF ExecInv, CoreType, PCs, PromptInv, Evaluate, Goto, Final, policy, procs, resuming
  <2>4. ASSUME NEW u \in Execs PROVE HeldInv(u)'
    BY <1>6, FilesAssumption, SwitchesAssumption, VerdictType DEF ExecInv, CoreType, PCs, PromptInv, HeldInv,
       Evaluate, Goto, Final, policy, procs, resuming
  <2> QED BY <2>1, <2>2, <2>3, <2>4 DEF ExecInv
<1>7. CASE SetSignal(e)
  <2>1. CoreType'
    BY <1>7, FilesAssumption DEF ExecInv, CoreType, PCs, Acts, SetSignal, Goto, policy, procs, resuming
  <2>2. ASSUME NEW f \in Files PROVE EntryOwned(f)'
    BY <1>7, FilesAssumption DEF ExecInv, CoreType, PCs, EntryOwned, PromptInv, HeldInv,
       Evaluating, HoldPending, SetSignal, Goto, policy, procs, resuming
  <2>3. ASSUME NEW u \in Execs PROVE PromptInv(u)'
    BY <1>7 DEF ExecInv, CoreType, PCs, PromptInv, SetSignal, Goto, policy, procs, resuming
  <2>4. ASSUME NEW u \in Execs PROVE HeldInv(u)'
    BY <1>7, FilesAssumption, SwitchesAssumption DEF ExecInv, CoreType, PCs, PromptInv, HeldInv,
       SetSignal, Goto, policy, procs, resuming
  <2> QED BY <2>1, <2>2, <2>3, <2>4 DEF ExecInv
<1>8. CASE Suspend(e)
  <2>1. CoreType'
    BY <1>8, FilesAssumption DEF ExecInv, CoreType, PCs, Acts, Suspend, Goto, policy, procs, resuming
  <2>2. ASSUME NEW f \in Files PROVE EntryOwned(f)'
    BY <1>8, FilesAssumption DEF ExecInv, CoreType, PCs, EntryOwned, PromptInv, HeldInv,
       Evaluating, HoldPending, Suspend, Goto, policy, procs, resuming
  <2>3. ASSUME NEW u \in Execs PROVE PromptInv(u)'
    BY <1>8 DEF ExecInv, CoreType, PCs, PromptInv, Suspend, Goto, policy, procs, resuming
  <2>4. ASSUME NEW u \in Execs PROVE HeldInv(u)'
    BY <1>8, FilesAssumption, SwitchesAssumption DEF ExecInv, CoreType, PCs, PromptInv, HeldInv,
       Suspend, Goto, policy, procs, resuming
  <2> QED BY <2>1, <2>2, <2>3, <2>4 DEF ExecInv
<1>9. CASE PostAction(e)
  <2>0. action[e] \in {"Hold", "AllowNoCache"} \union Final
    BY <1>9 DEF ExecInv, CoreType, PostAction
  <2>1. CoreType'
    <3>1. cache' \in [Files -> [act : Acts, by : Execs \union {None}]]
      BY <1>9, <2>0, AddToCacheType DEF ExecInv, CoreType, PostAction, RemoveFromCache, Unset, Acts, Final
    <3> QED BY <1>9, <2>0, <3>1 DEF ExecInv, CoreType, PCs, PostAction, Goto, policy, resuming, Final
  <2>2. ASSUME NEW f \in Files PROVE EntryOwned(f)'
    <3>1. /\ pc[e] = "post" /\ pc' = [pc EXCEPT ![e] = "respond"]
          /\ action' = action /\ prompt' = prompt
      BY <1>9 DEF PostAction, Goto
    <3>2. \/ cache' = [cache EXCEPT ![FileOf[e]] = Unset]
          \/ cache' = [cache EXCEPT ![FileOf[e]] =
                 IF @.act = "RequestBinary" THEN [act |-> action[e], by |-> e] ELSE @]
      BY <1>9, <2>0 DEF PostAction, AddToCache, RemoveFromCache, Final
    <3>3. CASE f = FileOf[e] /\ cache'[f] = Unset
      BY <3>3 DEF EntryOwned, Unset
    <3>4. CASE f = FileOf[e] /\ cache[f].act = "RequestBinary" /\ cache'[f] = [act |-> action[e], by |-> e]
      BY <2>0, <3>1, <3>4 DEF ExecInv, CoreType, EntryOwned, HoldPending, Final
    <3>5. CASE cache'[f] = cache[f] /\ (f # FileOf[e] \/ cache[f].act # "RequestBinary")
      BY <3>1, <3>5 DEF ExecInv, CoreType, EntryOwned, Evaluating, HoldPending
    <3> QED BY <3>2, <3>3, <3>4, <3>5 DEF ExecInv, CoreType
  <2>3. ASSUME NEW u \in Execs PROVE PromptInv(u)'
    BY <1>9 DEF ExecInv, CoreType, PCs, PromptInv, PostAction, Goto, policy, procs, resuming
  <2>4. ASSUME NEW u \in Execs PROVE HeldInv(u)'
    BY <1>9, FilesAssumption, SwitchesAssumption DEF ExecInv, CoreType, PCs, PromptInv, HeldInv,
       PostAction, Goto, policy, procs, resuming
  <2> QED BY <2>1, <2>2, <2>3, <2>4 DEF ExecInv
<1>10. CASE Respond(e)
  <2>1. CoreType'
    BY <1>10, FilesAssumption DEF ExecInv, CoreType, PCs, Acts, Respond, Goto, Answer, policy, procs, resuming
  <2>2. ASSUME NEW f \in Files PROVE EntryOwned(f)'
    BY <1>10, FilesAssumption DEF ExecInv, CoreType, PCs, EntryOwned, PromptInv, HeldInv,
       Evaluating, HoldPending, Respond, Goto, Answer, policy, procs, resuming
  <2>3. ASSUME NEW u \in Execs PROVE PromptInv(u)'
    BY <1>10 DEF ExecInv, CoreType, PCs, PromptInv, Respond, Goto, Answer, policy, procs, resuming
  <2>4. ASSUME NEW u \in Execs PROVE HeldInv(u)'
    BY <1>10, FilesAssumption, SwitchesAssumption DEF ExecInv, CoreType, PCs, PromptInv, HeldInv,
       Respond, Goto, Answer, policy, procs, resuming
  <2> QED BY <2>1, <2>2, <2>3, <2>4 DEF ExecInv
<1>11. CASE Notify(e)
  <2>1. CoreType'
    BY <1>11, FilesAssumption DEF ExecInv, CoreType, PCs, Acts, Notify, Goto, policy, procs, resuming
  <2>2. ASSUME NEW f \in Files PROVE EntryOwned(f)'
    BY <1>11, FilesAssumption DEF ExecInv, CoreType, PCs, EntryOwned, PromptInv, HeldInv,
       Evaluating, HoldPending, Notify, Goto, policy, procs, resuming
  <2>3. ASSUME NEW u \in Execs PROVE PromptInv(u)'
    BY <1>11 DEF ExecInv, CoreType, PCs, PromptInv, Notify, Goto, policy, procs, resuming
  <2>4. ASSUME NEW u \in Execs PROVE HeldInv(u)'
    BY <1>11, FilesAssumption, SwitchesAssumption DEF ExecInv, CoreType, PCs, PromptInv, HeldInv,
       Notify, Goto, policy, procs, resuming
  <2> QED BY <2>1, <2>2, <2>3, <2>4 DEF ExecInv
<1>12. CASE Finish(e)
  <2>1. CoreType'
    BY <1>12, FilesAssumption DEF ExecInv, CoreType, PCs, Acts, Finish, Goto, policy, procs, resuming
  <2>2. ASSUME NEW f \in Files PROVE EntryOwned(f)'
    BY <1>12, FilesAssumption DEF ExecInv, CoreType, PCs, EntryOwned, PromptInv, HeldInv,
       Evaluating, HoldPending, Finish, Goto, policy, procs, resuming
  <2>3. ASSUME NEW u \in Execs PROVE PromptInv(u)'
    BY <1>12 DEF ExecInv, CoreType, PCs, PromptInv, Finish, Goto, policy, procs, resuming
  <2>4. ASSUME NEW u \in Execs PROVE HeldInv(u)'
    BY <1>12, FilesAssumption, SwitchesAssumption DEF ExecInv, CoreType, PCs, PromptInv, HeldInv,
       Finish, Goto, policy, procs, resuming
  <2> QED BY <2>1, <2>2, <2>3, <2>4 DEF ExecInv
<1>13. CASE DeadlineFires(e)
  <2>1. CoreType'
    BY <1>13, FilesAssumption DEF ExecInv, CoreType, PCs, Acts, DeadlineFires, policy, procs, resuming
  <2>2. ASSUME NEW f \in Files PROVE EntryOwned(f)'
    BY <1>13, FilesAssumption DEF ExecInv, CoreType, PCs, EntryOwned, PromptInv, HeldInv,
       Evaluating, HoldPending, DeadlineFires, policy, procs, resuming
  <2>3. ASSUME NEW u \in Execs PROVE PromptInv(u)'
    BY <1>13 DEF ExecInv, CoreType, PCs, PromptInv, DeadlineFires, policy, procs, resuming
  <2>4. ASSUME NEW u \in Execs PROVE HeldInv(u)'
    BY <1>13, FilesAssumption, SwitchesAssumption DEF ExecInv, CoreType, PCs, PromptInv, HeldInv,
       DeadlineFires, policy, procs, resuming
  <2> QED BY <2>1, <2>2, <2>3, <2>4 DEF ExecInv
<1>14. CASE DeadlineResponds(e)
  <2>1. CoreType'
    BY <1>14, FilesAssumption DEF ExecInv, CoreType, PCs, Acts, DeadlineResponds, Answer, policy, procs, resuming
  <2>2. ASSUME NEW f \in Files PROVE EntryOwned(f)'
    BY <1>14, FilesAssumption DEF ExecInv, CoreType, PCs, EntryOwned, PromptInv, HeldInv,
       Evaluating, HoldPending, DeadlineResponds, Answer, policy, procs, resuming
  <2>3. ASSUME NEW u \in Execs PROVE PromptInv(u)'
    BY <1>14 DEF ExecInv, CoreType, PCs, PromptInv, DeadlineResponds, Answer, policy, procs, resuming
  <2>4. ASSUME NEW u \in Execs PROVE HeldInv(u)'
    BY <1>14, FilesAssumption, SwitchesAssumption DEF ExecInv, CoreType, PCs, PromptInv, HeldInv,
       DeadlineResponds, Answer, policy, procs, resuming
  <2> QED BY <2>1, <2>2, <2>3, <2>4 DEF ExecInv
<1>15. CASE UserReplies(e)
  <2>1. CoreType'
    BY <1>15, FilesAssumption, ZenonT(30) DEF ExecInv, CoreType, PCs, Acts, UserReplies, Rules, policy, procs, resuming
  <2>2. ASSUME NEW f \in Files PROVE EntryOwned(f)'
    BY <1>15, FilesAssumption DEF ExecInv, CoreType, PCs, EntryOwned, PromptInv, HeldInv,
       Evaluating, HoldPending, UserReplies, Rules, policy, procs, resuming
  <2>3. ASSUME NEW u \in Execs PROVE PromptInv(u)'
    BY <1>15 DEF ExecInv, CoreType, PCs, PromptInv, UserReplies, Rules, policy, procs, resuming
  <2>4. ASSUME NEW u \in Execs PROVE HeldInv(u)'
    BY <1>15, FilesAssumption, SwitchesAssumption DEF ExecInv, CoreType, PCs, PromptInv, HeldInv,
       UserReplies, Rules, policy, procs, resuming
  <2> QED BY <2>1, <2>2, <2>3, <2>4 DEF ExecInv
<1>16. CASE ControlProcess(e)
  <2>1. CoreType'
    BY <1>16, FilesAssumption DEF ExecInv, CoreType, PCs, Acts, ControlProcess, policy, procs, resuming
  <2>2. ASSUME NEW f \in Files PROVE EntryOwned(f)'
    BY <1>16, FilesAssumption DEF ExecInv, CoreType, PCs, EntryOwned, PromptInv, HeldInv,
       Evaluating, HoldPending, ControlProcess, policy, procs, resuming
  <2>3. ASSUME NEW u \in Execs PROVE PromptInv(u)'
    BY <1>16 DEF ExecInv, CoreType, PCs, PromptInv, ControlProcess, policy, procs, resuming
  <2>4. ASSUME NEW u \in Execs PROVE HeldInv(u)'
    BY <1>16, FilesAssumption, SwitchesAssumption DEF ExecInv, CoreType, PCs, PromptInv, HeldInv,
       ControlProcess, policy, procs, resuming
  <2> QED BY <2>1, <2>2, <2>3, <2>4 DEF ExecInv
<1>17. CASE ClearSignal(e)
  <2>1. CoreType'
    BY <1>17, FilesAssumption DEF ExecInv, CoreType, PCs, Acts, ClearSignal, policy, procs, resuming
  <2>2. ASSUME NEW f \in Files PROVE EntryOwned(f)'
    BY <1>17, FilesAssumption DEF ExecInv, CoreType, PCs, EntryOwned, PromptInv, HeldInv,
       Evaluating, HoldPending, ClearSignal, policy, procs, resuming
  <2>3. ASSUME NEW u \in Execs PROVE PromptInv(u)'
    BY <1>17 DEF ExecInv, CoreType, PCs, PromptInv, ClearSignal, policy, procs, resuming
  <2>4. ASSUME NEW u \in Execs PROVE HeldInv(u)'
    BY <1>17, FilesAssumption, SwitchesAssumption DEF ExecInv, CoreType, PCs, PromptInv, HeldInv,
       ClearSignal, policy, procs, resuming
  <2> QED BY <2>1, <2>2, <2>3, <2>4 DEF ExecInv
<1>18. CASE EndHold(e)
  <2>0. /\ cache' = [cache EXCEPT ![FileOf[e]] = Unset]
        /\ prompt' = [prompt EXCEPT ![e] = "closed"]
        /\ pc' = pc /\ action' = action
    BY <1>18 DEF EndHold, AddToCache, RemoveFromCache, Final
  <2>1. CoreType'
    BY <1>18, <2>0, FilesAssumption DEF ExecInv, CoreType, EndHold, policy, resuming, Unset, Acts
  <2>2. ASSUME NEW f \in Files PROVE EntryOwned(f)'
    <3>1. CASE f = FileOf[e]
      BY <2>0, <3>1 DEF ExecInv, CoreType, EntryOwned, Unset
    <3>2. CASE f # FileOf[e]
      BY <2>0, <3>2 DEF ExecInv, CoreType, EntryOwned, Evaluating, HoldPending
    <3> QED BY <3>1, <3>2
  <2>3. ASSUME NEW u \in Execs PROVE PromptInv(u)'
    BY <1>18 DEF ExecInv, CoreType, PCs, PromptInv, EndHold, policy, procs, resuming
  <2>4. ASSUME NEW u \in Execs PROVE HeldInv(u)'
    BY <1>18, FilesAssumption, SwitchesAssumption DEF ExecInv, CoreType, PCs, PromptInv, HeldInv,
       EndHold, policy, procs, resuming
  <2> QED BY <2>1, <2>2, <2>3, <2>4 DEF ExecInv
<1>19. CASE Others(e)
  <2>0. UNCHANGED <<cache, rule, change, pc, action, timer, answer, killed, signal, prompt>>
    BY <1>19 DEF Others, AnswerResume, ResumeProcess, policy
  <2>1. CoreType'
    <3>1. resume' \in [Execs -> {"none", "granted", "unguarded"}]
      BY <1>19 DEF ExecInv, CoreType, Others, AnswerResume, ResumeProcess
    <3> QED BY <2>0, <3>1 DEF ExecInv, CoreType
  <2>2. ASSUME NEW f \in Files PROVE EntryOwned(f)'
    BY <2>0 DEF ExecInv, EntryOwned, Evaluating, HoldPending
  <2>3. ASSUME NEW u \in Execs PROVE PromptInv(u)'
    BY <2>0 DEF ExecInv, PromptInv
  <2>4. ASSUME NEW u \in Execs PROVE HeldInv(u)'
    <3>1. CASE AnswerResume(e)
      BY <2>0, <3>1 DEF ExecInv, CoreType, PromptInv, HeldInv, AnswerResume
    <3>2. CASE ResumeProcess(e)
      BY <2>0, <3>2 DEF ExecInv, CoreType, PromptInv, HeldInv, ResumeProcess
    <3> QED BY <1>19, <3>1, <3>2 DEF Others
  <2> QED BY <2>1, <2>2, <2>3, <2>4 DEF ExecInv
<1> QED BY <1>1, <1>2, <1>3, <1>4, <1>5, <1>6, <1>7, <1>8, <1>9, <1>10, <1>11, <1>12, <1>13, <1>14, <1>15, <1>16, <1>17, <1>18, <1>19, <1>20
        DEF Handler, Deadline, Reply

(* Steps that only empty entries of the cache, or do not touch what the     *)
(* invariant is about.                                                      *)
LEMMA FlushStepInv ==
  ASSUME ExecInv,
         \/ \E f \in Files : DenyExpires(f)
         \/ \E c \in Changes : Change(c)
         \/ Unmount \/ ClearESCache \/ UNCHANGED vars
  PROVE  ExecInv'
<1> USE DEF Change
<1>1. /\ pc' = pc /\ action' = action /\ timer' = timer /\ answer' = answer /\ prompt' = prompt
      /\ suspended' = suspended /\ killed' = killed /\ signal' = signal /\ resume' = resume /\ loose' = loose
  BY DEF DenyExpires, CheckRules, CommitRules, FlushCommand, FlushCache, Unmount, ClearESCache, vars, procs, resuming
<1> DEFINE Typed == /\ rule' \in [Files -> Rules]
                     /\ change' \in [Changes -> Adding \union {At(p) : p \in {"command", "nonroot", "root", "done"}}]
<1>2. Typed
  <2>1. CASE UNCHANGED <<rule, change>>
    BY <2>1 DEF ExecInv, CoreType
  <2>2. ASSUME NEW c \in Changes, CheckRules(c) PROVE Typed
    BY <2>2 DEF ExecInv, CoreType, CheckRules, Adding, At
  <2>3. ASSUME NEW c \in Changes, CommitRules(c) PROVE Typed
    <3>1. /\ change[c].file \in Files /\ change[c].rule \in Rules
      BY <2>3 DEF ExecInv, CoreType, CommitRules, Adding, At
    <3>2. rule' \in [Files -> Rules]
      BY <2>3, <3>1 DEF ExecInv, CoreType, CommitRules
    <3>3. \E p \in {"nonroot", "done"} : change' = [change EXCEPT ![c] = At(p)]
      BY <2>3 DEF CommitRules
    <3> QED BY <3>2, <3>3 DEF ExecInv, CoreType
  <2>4. ASSUME NEW c \in Changes, FlushCommand(c) \/ FlushCache(c) PROVE Typed
    BY <2>4 DEF ExecInv, CoreType, FlushCommand, FlushCache
  <2> QED BY <2>1, <2>2, <2>3, <2>4 DEF DenyExpires, Unmount, ClearESCache, vars, policy
<1>3. /\ cache' \in [Files -> [act : Acts, by : Execs \union {None}]]
      /\ \A f \in Files : \/ cache'[f] = cache[f]
                          \/ cache'[f].act = "Unset"
                          \/ /\ cache[f].act = "Deny" /\ cache'[f].act = "Expired"
                             /\ cache'[f].by = cache[f].by
  <2>1. CASE cache' = cache
    BY <2>1 DEF ExecInv, CoreType
  <2>2. CASE \E f \in Files : DenyExpires(f)
    BY <2>2 DEF ExecInv, CoreType, DenyExpires, Acts
  <2>3. CASE \E F \in SUBSET Files : cache' = [f \in Files |-> IF f \in F THEN Unset ELSE cache[f]]
    BY <2>3 DEF ExecInv, CoreType, Unset, Acts
  <2>4. ASSUME NEW c \in Changes, FlushCache(c)
        PROVE  \E F \in SUBSET Files : cache' = [f \in Files |-> IF f \in F THEN Unset ELSE cache[f]]
    <3> DEFINE F == IF change[c].at = "nonroot" THEN Files \ RootFiles ELSE RootFiles
    <3>1. F \in SUBSET Files /\ cache' = [f \in Files |-> IF f \in F THEN Unset ELSE cache[f]]
      BY <2>4, FilesAssumption DEF FlushCache
    <3> HIDE DEF F
    <3> QED BY <3>1
  <2>5. CASE Unmount
    BY <2>5 DEF ExecInv, CoreType, Unmount, Unset, Acts
  <2> QED BY <2>1, <2>2, <2>3, <2>4, <2>5
          DEF CheckRules, CommitRules, FlushCommand, ClearESCache, vars
<1>4. CoreType'
  BY <1>1, <1>2, <1>3 DEF ExecInv, CoreType
<1>5. ASSUME NEW f \in Files PROVE EntryOwned(f)'
  BY <1>1, <1>3 DEF ExecInv, EntryOwned, Evaluating, HoldPending
<1>6. ASSUME NEW u \in Execs PROVE PromptInv(u)' /\ HeldInv(u)'
  BY <1>1 DEF ExecInv, PromptInv, HeldInv
<1> QED BY <1>4, <1>5, <1>6 DEF ExecInv

LEMMA NextExecInv == ExecInv /\ [Next]_vars => ExecInv'
BY ExecStepInv, FlushStepInv DEF Next, Quiet

LEMMA SpecExecInv == Spec => []ExecInv
BY InitExecInv, NextExecInv, PTL DEF Spec

(* No handler polls a request that nobody will replace, for any number of   *)
(* executions and flushes: the RequestBinary entry of AuthResultCache       *)
(* belongs to a handler between AddToCache and postAction.                  *)
THEOREM RequestsAlwaysOwned == Spec => []RequestsOwned
<1>1. ExecInv => RequestsOwned
  BY DEF ExecInv, EntryOwned, RequestsOwned
<1> QED BY <1>1, SpecExecInv, PTL

(* No binary stays blocked by a Hold entry without a prompt whose reply     *)
(* removes it.                                                              *)
THEOREM HoldsAlwaysOwned == Spec => []HoldsOwned
<1>1. ExecInv => HoldsOwned
  BY DEF ExecInv, EntryOwned, HoldPending, HoldsOwned
<1> QED BY <1>1, SpecExecInv, PTL

(* Every entry that makes others wait has somebody who ends it (the two     *)
(* theorems above).                                                         *)
THEOREM EntriesAlwaysOwned == Spec => []EntriesOwned
<1>1. RequestsOwned /\ HoldsOwned => EntriesOwned
  BY DEF EntriesOwned
<1> QED BY <1>1, RequestsAlwaysOwned, HoldsAlwaysOwned, PTL

(* A held process runs only after the user approved it, whatever handlers,  *)
(* deadlines, flushes and other processes do, except in the window between  *)
(* a deadline that fails open and the suspension, and if it is loose: the   *)
(* suspension failed, or a resume that was permitted before the protection  *)
(* (validateSuspendResumeEvent) or without a look at it came after it.      *)
THEOREM HeldProcessesWait == Spec => []HeldUntilApproved
<1>1. ASSUME ExecInv, NEW e \in Execs,
             action[e] = "Hold", prompt[e] \in {"none", "open", "refused", "killed"}, Running(e)
      PROVE  \/ ~FailClosed /\ timer[e] = "answered" /\ pc[e] \in {"hold", "suspend"}
             \/ e \in loose /\ prompt[e] # "killed"
  <2>1. HeldInv(e) /\ PromptInv(e)
    BY <1>1 DEF ExecInv
  <2>2. pc[e] \in {"hold", "suspend"} \/ (e \in loose /\ prompt[e] # "killed")
    BY <1>1, <2>1 DEF HeldInv, Running
  <2> QED BY <1>1, <2>1, <2>2 DEF HeldInv, Running
<1>2. ExecInv => HeldUntilApproved
  BY <1>1 DEF HeldUntilApproved
<1> QED BY <1>2, SpecExecInv, PTL

-----------------------------------------------------------------------------
(* The rest of the types. *)
RestType ==
  /\ esCache \in [Files -> Execs \union {None}]
  /\ version \in Nat /\ esClears \in Nat
  /\ suspended \subseteq Execs /\ killed \subseteq Execs
  /\ compilers \subseteq Execs /\ signal \subseteq Execs /\ loose \subseteq Execs
  /\ raced \subseteq Execs /\ asked \subseteq Execs
  /\ seen \in [Execs -> Nat] /\ flushed \in [Files -> Nat] /\ esFlushed \in [Files -> Nat]

LEMMA RestTypeStep ==
  ASSUME ExecInv, RestType, [Next]_vars
  PROVE  RestType'
<1> USE DEF RestType, policy, procs, resuming
<1>1. ASSUME NEW e \in Execs, Exec(e) PROVE RestType'
  BY <1>1, FilesAssumption DEF Exec
<1>2. ASSUME NEW e \in Execs, HandleMessage(e) PROVE RestType'
  BY <1>2 DEF HandleMessage
<1>3. ASSUME NEW e \in Execs, CheckCache(e) PROVE RestType'
  <2>1. cache[FileOf[e]].act \in Final => cache[FileOf[e]].by \in Execs
    BY FilesAssumption DEF ExecInv, EntryOwned, Final
  <2>2. seen' \in [Execs -> Nat] /\ raced' \subseteq Execs /\ compilers' \subseteq Execs
    BY <1>3, <2>1 DEF CheckCache
  <2> QED BY <1>3, <2>2 DEF CheckCache
<1>4. ASSUME NEW e \in Execs,
             \/ RemoveExpired(e) \/ RequestBinary(e) \/ SetSignal(e) \/ Suspend(e)
             \/ PostAction(e) \/ Notify(e) \/ Finish(e) \/ DeadlineFires(e)
      PROVE  RestType'
  BY <1>4 DEF RemoveExpired, RequestBinary, SetSignal, Suspend, PostAction, Notify, Finish, DeadlineFires
<1>5. ASSUME NEW e \in Execs, Evaluate(e) PROVE RestType'
  BY <1>5 DEF Evaluate
<1>6. ASSUME NEW e \in Execs, Respond(e) \/ DeadlineResponds(e) \/ IgnoreMessage(e) PROVE RestType'
  BY <1>6, FilesAssumption DEF Respond, DeadlineResponds, IgnoreMessage, Answer
<1>7. ASSUME NEW e \in Execs, Reply(e) \/ Others(e) PROVE RestType'
  BY <1>7 DEF Reply, UserReplies, ControlProcess, ClearSignal, EndHold, Others, AnswerResume, ResumeProcess
<1>8. ASSUME NEW f \in Files, DenyExpires(f) PROVE RestType'
  BY <1>8 DEF DenyExpires
<1>9. ASSUME NEW c \in Changes, CheckRules(c) \/ CommitRules(c) \/ FlushCommand(c) PROVE RestType'
  BY <1>9 DEF CheckRules, CommitRules, FlushCommand
<1>10. ASSUME NEW c \in Changes, FlushCache(c) PROVE RestType'
  BY <1>10 DEF FlushCache, Deciding
<1>11. CASE Unmount \/ ClearESCache
  BY <1>11 DEF Unmount, ClearESCache, Deciding
<1>12. CASE UNCHANGED vars
  BY <1>12 DEF vars
<1> QED BY <1>1, <1>2, <1>3, <1>4, <1>5, <1>6, <1>7, <1>8, <1>9, <1>10, <1>11, <1>12
        DEF Next, Handler, Deadline, Change, Quiet

LEMMA SpecRestType == Spec => []RestType
<1>1. Init => RestType
  BY DEF Init, RestType
<1>2. ExecInv /\ RestType /\ [Next]_vars => RestType'
  BY RestTypeStep
<1> QED BY <1>1, <1>2, SpecExecInv, PTL DEF Spec

(* Every variable keeps its type, for any constants. *)
THEOREM TypeCorrect == Spec => []TypeOK
<1>1. ExecInv /\ RestType => TypeOK
  BY DEF ExecInv, CoreType, RestType, TypeOK, PCs
<1> QED BY <1>1, SpecExecInv, SpecRestType, PTL

-----------------------------------------------------------------------------
(* Why no decision outlives a flush.  A decision that is under way when a   *)
(* flush passes its executable is marked; one that is taken later knows the *)
(* policy of the flush.  A clearing of the ES cache needs no mark: what ES  *)
(* is answered later is as fresh as the local cache, however many flushes   *)
(* and changes overlap.                                                     *)
Late == {"respond", "notify", "finish", "done"}
Decided(e) == pc[e] \in {"hold", "suspend", "post"} \/ (pc[e] = "respond" /\ action[e] = "Allow")

EntriesFresh ==
  \A f \in Files : cache[f].act \in Final =>
    pc[cache[f].by] \in Late /\ ~Older(cache[f].by, flushed[f])
Cacheable(e) ==
  \/ action[e] = "Allow"
  \/ action[e] = "Unset" /\ e \in ByESClients /\ IgnoreOtherESClients
ESFresh ==
  \A f \in Files : esCache[f] # None =>
    /\ pc[esCache[f]] \in {"finish", "done"}
    /\ answer[esCache[f]] = "allow" /\ Cacheable(esCache[f])
    /\ ~Older(esCache[f], esFlushed[f])
DecisionsFresh == \A e \in Execs : Decided(e) => ~Older(e, flushed[FileOf[e]])
FlushOrder == \A f \in Files : esFlushed[f] <= flushed[f] /\ flushed[f] <= version
FreshInv == EntriesFresh /\ ESFresh /\ DecisionsFresh /\ FlushOrder

LEMMA InitFreshInv == Init => FreshInv
BY FilesAssumption DEF Init, FreshInv, EntriesFresh, ESFresh, DecisionsFresh, FlushOrder, Decided, Unset, Final

(* Steps that decide nothing, store nothing and flush nothing.              *)
LEMMA FreshKept ==
  ASSUME ExecInv, RestType, FreshInv, FlushOrder',
         UNCHANGED <<esCache, seen, raced, flushed, esFlushed>>,
         \A f \in Files : cache'[f].act \in Final => cache'[f] = cache[f],
         \A e \in Execs : /\ pc[e] \in Late => pc'[e] \in Late
                          /\ pc[e] \in {"finish", "done"} =>
                               /\ pc'[e] \in {"finish", "done"} /\ action'[e] = action[e]
                               /\ answer[e] = "allow" => answer'[e] = "allow"
                          /\ Decided(e)' => Decided(e)
  PROVE  FreshInv'
<1>1. EntriesFresh'
  <2>1. ASSUME NEW f \in Files, cache'[f].act \in Final
        PROVE  (pc[cache[f].by] \in Late /\ ~Older(cache[f].by, flushed[f]))'
    <3>1. cache'[f] = cache[f] /\ cache[f].act \in Final /\ cache[f].by \in Execs
      BY <2>1 DEF ExecInv, EntryOwned, Final
    <3> QED
      BY <3>1 DEF FreshInv, EntriesFresh, Older
  <2> QED
    BY <2>1 DEF EntriesFresh, Older
<1>2. ESFresh'
  <2>1. ASSUME NEW f \in Files, esCache[f] # None PROVE esCache[f] \in Execs
    BY <2>1 DEF RestType
  <2> QED
    BY <2>1 DEF FreshInv, ESFresh, Cacheable, Older
<1>3. DecisionsFresh'
  BY DEF FreshInv, DecisionsFresh, Older
<1> QED
  BY <1>1, <1>2, <1>3 DEF FreshInv

(* A decision taken now, or found in the cache, by a handler that had none. *)
LEMMA DecisionTaken ==
  ASSUME ExecInv, RestType, FreshInv, NEW e \in Execs, pc[e] \notin Late, pc'[e] \in PCs,
         UNCHANGED <<cache, esCache, flushed, esFlushed, version>>,
         \A u \in Execs \ {e} : /\ pc'[u] = pc[u] /\ action'[u] = action[u] /\ answer'[u] = answer[u]
                                /\ seen'[u] = seen[u] /\ (u \in raced' <=> u \in raced),
         Decided(e)' => ~Older(e, flushed[FileOf[e]])'
  PROVE  FreshInv'
<1>1. EntriesFresh'
  <2>1. ASSUME NEW f \in Files, cache[f].act \in Final
        PROVE  pc'[cache[f].by] \in Late /\ ~Older(cache[f].by, flushed[f])'
    <3>1. cache[f].by \in Execs /\ pc[cache[f].by] \in Late /\ ~Older(cache[f].by, flushed[f])
      BY <2>1 DEF ExecInv, EntryOwned, Final, FreshInv, EntriesFresh
    <3>2. cache[f].by \in Execs \ {e}
      BY <3>1
    <3> QED
      BY <3>1, <3>2 DEF Older
  <2> QED
    BY <2>1 DEF EntriesFresh, Older
<1>2. ESFresh'
  <2>1. ASSUME NEW f \in Files, esCache[f] # None PROVE esCache[f] \in Execs \ {e}
    BY <2>1 DEF RestType, FreshInv, ESFresh, Late
  <2> QED
    BY <2>1 DEF FreshInv, ESFresh, Cacheable, Older
<1>3. DecisionsFresh'
  <2> SUFFICES ASSUME NEW u \in Execs, Decided(u)' PROVE ~Older(u, flushed[FileOf[u]])'
    BY DEF DecisionsFresh
  <2>1. CASE u = e
    BY <2>1
  <2>2. CASE u # e
    BY <2>2 DEF FreshInv, DecisionsFresh, Older, Decided
  <2> QED
    BY <2>1, <2>2
<1>4. FlushOrder'
  BY DEF FreshInv, FlushOrder
<1> QED
  BY <1>1, <1>2, <1>3, <1>4 DEF FreshInv

(* ES answers from its own cache, or the handler starts.                    *)
LEMMA ExecFresh ==
  ASSUME ExecInv, RestType, FreshInv, NEW e \in Execs, Exec(e) \/ HandleMessage(e) \/ Evaluate(e)
  PROVE  FreshInv'
<1>1. pc \in [Execs -> PCs] /\ action \in [Execs -> {"Unset", "Hold", "AllowNoCache"} \union Final]
      /\ answer \in [Execs -> {"none", "allow", "deny"}] /\ seen \in [Execs -> Nat] /\ flushed \in [Files -> Nat]
  BY DEF ExecInv, CoreType, RestType
<1>2. UNCHANGED <<cache, esCache, flushed, esFlushed, version, raced>>
  BY DEF Exec, HandleMessage, Evaluate, policy
<1>3. \A u \in Execs \ {e} : /\ pc'[u] = pc[u] /\ action'[u] = action[u]
                             /\ answer'[u] = answer[u] /\ seen'[u] = seen[u]
  BY <1>1 DEF Exec, HandleMessage, Evaluate, Goto
<1>4. pc[e] \notin Late
  BY DEF Exec, HandleMessage, Evaluate, Late
<1>5. pc'[e] \in PCs
  BY <1>1 DEF Exec, HandleMessage, Evaluate, Goto, PCs
<1>6. ASSUME Decided(e)' PROVE ~Older(e, flushed[FileOf[e]])'
  <2>1. seen'[e] = version
    BY <1>1, <1>6 DEF Exec, HandleMessage, Evaluate, Goto, Decided
  <2>2. FileOf[e] \in Files /\ flushed[FileOf[e]] <= version /\ version \in Nat
    BY FilesAssumption DEF FreshInv, FlushOrder, RestType
  <2> QED
    BY <1>1, <1>2, <2>1, <2>2 DEF Older
<1> QED
  BY <1>2, <1>3, <1>4, <1>5, <1>6, DecisionTaken

(* A result from the cache is as fresh as the entry, and not fresh if its   *)
(* author was marked.                                                       *)
LEMMA CheckFresh == ASSUME ExecInv, RestType, FreshInv, NEW e \in Execs, CheckCache(e) PROVE FreshInv'
<1> DEFINE f == FileOf[e]
           by == cache[f].by
<1>1. pc \in [Execs -> PCs] /\ action \in [Execs -> {"Unset", "Hold", "AllowNoCache"} \union Final]
      /\ seen \in [Execs -> Nat] /\ f \in Files
  BY FilesAssumption DEF ExecInv, CoreType, RestType
<1>2. UNCHANGED <<cache, esCache, flushed, esFlushed, version, answer>>
  BY DEF CheckCache, policy
<1>3. \A u \in Execs \ {e} : /\ pc'[u] = pc[u] /\ action'[u] = action[u] /\ answer'[u] = answer[u]
                             /\ seen'[u] = seen[u] /\ (u \in raced' <=> u \in raced)
  BY <1>1, <1>2 DEF CheckCache, Goto
<1>4. pc[e] \notin Late /\ pc'[e] \in PCs
  BY <1>1 DEF CheckCache, Late, Goto, PCs
<1>5. ASSUME Decided(e)' PROVE ~Older(e, flushed[FileOf[e]])'
  <2>1. /\ cache[f].act \in Final /\ seen'[e] = seen[by]
        /\ raced' = IF by \in raced THEN raced \union {e} ELSE raced
    BY <1>1, <1>5 DEF CheckCache, Goto, Decided
  <2>2. by \in Execs /\ ~Older(by, flushed[f])
    BY <1>1, <2>1 DEF ExecInv, EntryOwned, Final, FreshInv, EntriesFresh
  <2> QED
    BY <1>2, <2>1, <2>2 DEF Older
<1> QED
  BY <1>2, <1>3, <1>4, <1>5, DecisionTaken

(* The result is stored while the decision is fresh (postAction:).          *)
LEMMA PostFresh == ASSUME ExecInv, RestType, FreshInv, NEW e \in Execs, PostAction(e) PROVE FreshInv'
<1>1. pc \in [Execs -> PCs] /\ cache \in [Files -> [act : Acts, by : Execs \union {None}]]
  BY DEF ExecInv, CoreType
<1>2. /\ pc[e] = "post" /\ pc' = [pc EXCEPT ![e] = "respond"]
      /\ UNCHANGED <<esCache, action, answer, seen, raced, flushed, esFlushed, version>>
  BY DEF PostAction, Goto, policy
<1>3. action[e] \in {"Hold", "AllowNoCache"} \union Final
  BY <1>2 DEF ExecInv, CoreType
<1>4. \/ cache' = [cache EXCEPT ![FileOf[e]] = Unset]
      \/ cache' = [cache EXCEPT ![FileOf[e]] =
             IF @.act = "RequestBinary" THEN [act |-> action[e], by |-> e] ELSE @]
  BY <1>3 DEF PostAction, AddToCache, RemoveFromCache, Final
<1>5. Decided(e) /\ ~Older(e, flushed[FileOf[e]]) /\ pc'[e] = "respond"
      /\ \A u \in Execs \ {e} : pc'[u] = pc[u]
  BY <1>1, <1>2 DEF Decided, FreshInv, DecisionsFresh
<1>6. ASSUME NEW f \in Files, cache'[f].act \in Final
      PROVE  \/ f = FileOf[e] /\ cache'[f].by = e
             \/ cache'[f] = cache[f] /\ cache[f].by \in Execs \ {e}
  <2>1. \/ cache'[f] = cache[f] \/ cache'[f] = Unset
        \/ f = FileOf[e] /\ cache'[f] = [act |-> action[e], by |-> e]
    BY <1>1, <1>4
  <2>2. Unset.act \notin Final
    BY DEF Unset, Final
  <2>3. CASE cache'[f] = cache[f]
    <3>1. cache[f].by \in Execs /\ pc[cache[f].by] \in Late
      BY <1>6, <2>3 DEF ExecInv, EntryOwned, Final, FreshInv, EntriesFresh
    <3> QED
      BY <1>2, <2>3, <3>1 DEF Late
  <2> QED
    BY <1>6, <2>1, <2>2, <2>3
<1>7. EntriesFresh'
  <2>1. ASSUME NEW f \in Files, cache'[f].act \in Final
        PROVE  (pc[cache[f].by] \in Late /\ ~Older(cache[f].by, flushed[f]))'
    <3>1. CASE f = FileOf[e] /\ cache'[f].by = e
      BY <1>2, <1>5, <3>1 DEF Older, Late
    <3>2. CASE cache'[f] = cache[f] /\ cache[f].by \in Execs \ {e}
      BY <1>2, <1>5, <2>1, <3>2 DEF FreshInv, EntriesFresh, Older
    <3> QED
      BY <1>6, <2>1, <3>1, <3>2
  <2> QED
    BY <2>1 DEF EntriesFresh
<1>8. ESFresh'
  <2>1. ASSUME NEW f \in Files, esCache[f] # None PROVE esCache[f] \in Execs \ {e}
    BY <1>2, <2>1 DEF RestType, FreshInv, ESFresh
  <2> QED
    BY <1>2, <1>5, <2>1 DEF FreshInv, ESFresh, Cacheable, Older
<1>9. DecisionsFresh'
  <2>1. \A u \in Execs : Decided(u)' => Decided(u)
    BY <1>2, <1>5 DEF Decided
  <2> QED
    BY <1>2, <2>1 DEF FreshInv, DecisionsFresh, Older
<1>10. FlushOrder'
  BY <1>2 DEF FreshInv, FlushOrder
<1> QED
  BY <1>7, <1>8, <1>9, <1>10 DEF FreshInv

(* ES caches a fresh plain ALLOW (respondToMessage:), or the answer to an   *)
(* ignored message (shouldHandleMessage:).                                  *)
LEMMA RespondFresh ==
  ASSUME ExecInv, RestType, FreshInv, NEW e \in Execs, Respond(e) \/ IgnoreMessage(e)
  PROVE  FreshInv'
<1>1. /\ pc \in [Execs -> PCs] /\ answer \in [Execs -> {"none", "allow", "deny"}]
      /\ action \in [Execs -> {"Unset", "Hold", "AllowNoCache"} \union Final]
      /\ esCache \in [Files -> Execs \union {None}] /\ FileOf[e] \in Files
      /\ seen \in [Execs -> Nat] /\ flushed \in [Files -> Nat] /\ esFlushed \in [Files -> Nat]
  BY FilesAssumption DEF ExecInv, CoreType, RestType
<1>2. /\ pc[e] \in {"sync", "respond"} /\ pc' = [pc EXCEPT ![e] = pc'[e]]
      /\ pc'[e] \in {"notify", "finish", "done"} /\ (action[e] # "Hold" => pc'[e] \in {"finish", "done"})
      /\ UNCHANGED <<cache, action, raced, flushed, esFlushed, version>>
  BY <1>1 DEF Respond, IgnoreMessage, Goto, policy
<1>3. /\ pc'[e] \in Late \ {"respond"}
      /\ \A u \in Execs \ {e} : pc'[u] = pc[u] /\ seen'[u] = seen[u]
      /\ pc[e] = "respond" => seen' = seen
      /\ pc[e] = "sync" => seen'[e] = version /\ action[e] = "Unset" /\ e \in ByESClients /\ IgnoreOtherESClients
  <2>1. pc[e] = "sync" => action[e] = "Unset"
    BY DEF ExecInv, HeldInv
  <2> QED
    BY <1>1, <1>2, <2>1 DEF Respond, IgnoreMessage, Late
<1>4. /\ \A u \in Execs : answer[u] = "allow" => answer'[u] = "allow"
      /\ \/ esCache' = esCache
         \/ /\ esCache' = [esCache EXCEPT ![FileOf[e]] = e]
            /\ pc[e] = "respond" => action[e] = "Allow"
            /\ answer'[e] = "allow"
  BY <1>1 DEF Respond, IgnoreMessage, Answer
<1>5. EntriesFresh'
  <2>1. ASSUME NEW f \in Files, cache[f].act \in Final
        PROVE  cache[f].by \in Execs /\ pc[cache[f].by] \in Late /\ ~Older(cache[f].by, flushed[f])
    BY <2>1 DEF ExecInv, EntryOwned, Final, FreshInv, EntriesFresh
  <2>2. \A u \in Execs : pc[u] \in Late => pc'[u] \in Late /\ seen'[u] = seen[u]
    BY <1>2, <1>3 DEF Late
  <2> QED
    BY <1>2, <2>1, <2>2 DEF EntriesFresh, Older
<1>6. ESFresh'
  <2> SUFFICES ASSUME NEW f \in Files, esCache'[f] # None
               PROVE  (/\ pc[esCache[f]] \in {"finish", "done"}
                       /\ answer[esCache[f]] = "allow" /\ Cacheable(esCache[f])
                       /\ ~Older(esCache[f], esFlushed[f]))'
    BY DEF ESFresh
  <2>1. CASE esCache'[f] = esCache[f]
    <3>1. esCache[f] \in Execs \ {e}
      BY <1>1, <1>2, <2>1 DEF FreshInv, ESFresh
    <3> QED
      BY <1>2, <1>3, <1>4, <2>1, <3>1 DEF FreshInv, ESFresh, Cacheable, Older
  <2>2. CASE f = FileOf[e] /\ esCache'[f] = e /\ (pc[e] = "respond" => action[e] = "Allow") /\ answer'[e] = "allow"
    <3>1. Cacheable(e)' /\ action[e] # "Hold"
      BY <1>2, <1>3, <2>2 DEF Cacheable
    <3>2. esFlushed[f] <= flushed[f] /\ flushed[f] <= version /\ version \in Nat
      BY DEF FreshInv, FlushOrder, RestType
    <3>3. ~Older(e, esFlushed[f])'
      <4>1. CASE pc[e] = "respond"
        <5>1. ~Older(e, flushed[f])
          BY <2>2, <4>1 DEF FreshInv, DecisionsFresh, Decided
        <5> QED
          BY <1>1, <1>2, <1>3, <3>2, <4>1, <5>1 DEF Older
      <4>2. CASE pc[e] = "sync"
        BY <1>1, <1>2, <1>3, <3>2, <4>2 DEF Older
      <4> QED
        BY <1>2, <4>1, <4>2
    <3> QED
      BY <1>2, <2>2, <3>1, <3>3
  <2> QED
    BY <1>1, <1>4, <2>1, <2>2
<1>7. DecisionsFresh'
  <2>1. \A u \in Execs : Decided(u)' => Decided(u) /\ seen'[u] = seen[u]
    BY <1>2, <1>3 DEF Decided, Late
  <2> QED
    BY <1>2, <2>1 DEF FreshInv, DecisionsFresh, Older
<1>8. FlushOrder'
  BY <1>2 DEF FreshInv, FlushOrder
<1> QED
  BY <1>5, <1>6, <1>7, <1>8 DEF FreshInv

(* The other steps of handlers, deadline blocks and replies.                *)
LEMMA OthersFresh ==
  ASSUME ExecInv, RestType, FreshInv, NEW e \in Execs,
         \/ RemoveExpired(e) \/ RequestBinary(e) \/ SetSignal(e) \/ Suspend(e) \/ Notify(e) \/ Finish(e)
         \/ Deadline(e) \/ Reply(e) \/ Others(e)
  PROVE  FreshInv'
<1>1. /\ pc \in [Execs -> PCs] /\ answer \in [Execs -> {"none", "allow", "deny"}]
      /\ cache \in [Files -> [act : Acts, by : Execs \union {None}]] /\ FileOf[e] \in Files
  BY FilesAssumption DEF ExecInv, CoreType
<1>2. UNCHANGED <<esCache, seen, raced, flushed, esFlushed, version, action>>
  BY DEF RemoveExpired, RequestBinary, SetSignal, Suspend, Notify, Finish, Deadline, DeadlineFires,
     DeadlineResponds, Answer, Reply, UserReplies, ControlProcess, ClearSignal, EndHold, Others, AnswerResume, ResumeProcess, policy
<1>3. FlushOrder'
  BY <1>2 DEF FreshInv, FlushOrder
<1>4. \A u \in Execs : answer[u] = "allow" => answer'[u] = "allow"
  BY <1>1 DEF RemoveExpired, RequestBinary, SetSignal, Suspend, Notify, Finish, Deadline, DeadlineFires,
     DeadlineResponds, Answer, Reply, UserReplies, ControlProcess, ClearSignal, EndHold, Others, AnswerResume, ResumeProcess
<1>5. \/ pc' = pc
      \/ \E l \in PCs :
           /\ pc' = [pc EXCEPT ![e] = l]
           /\ \/ pc[e] \in {"expire", "request"} /\ l \in {"request", "evaluate"}
              \/ pc[e] \in {"hold", "suspend"} /\ l \in {"suspend", "post"}
              \/ pc[e] \in {"notify", "finish"} /\ l \in {"finish", "done"}
  BY DEF RemoveExpired, RequestBinary, SetSignal, Suspend, Notify, Finish, Goto, PCs, Deadline, DeadlineFires,
     DeadlineResponds, Reply, UserReplies, ControlProcess, ClearSignal, EndHold, Others, AnswerResume, ResumeProcess
<1>6. \A u \in Execs : /\ pc[u] \in Late => pc'[u] \in Late
                       /\ pc[u] \in {"finish", "done"} => pc'[u] \in {"finish", "done"}
                       /\ Decided(u)' => Decided(u)
  BY <1>1, <1>2, <1>5 DEF Late, Decided
<1>7. \/ cache' = cache \/ cache' = [cache EXCEPT ![FileOf[e]] = Unset]
      \/ cache' = [cache EXCEPT ![FileOf[e]] =
             IF @.act = "Unset" THEN [act |-> "RequestBinary", by |-> e] ELSE @]
  <2>1. CASE RequestBinary(e)
    BY <2>1 DEF RequestBinary, AddToCache, Final
  <2>2. CASE EndHold(e)
    BY <2>2 DEF EndHold, AddToCache, RemoveFromCache, Final
  <2>3. CASE RemoveExpired(e)
    BY <2>3 DEF RemoveExpired, RemoveFromCache
  <2>4. CASE \/ SetSignal(e) \/ Suspend(e) \/ Notify(e) \/ Finish(e) \/ Deadline(e)
             \/ UserReplies(e) \/ ControlProcess(e) \/ ClearSignal(e) \/ Others(e)
    BY <2>4 DEF SetSignal, Suspend, Notify, Finish, Deadline, DeadlineFires, DeadlineResponds,
       UserReplies, ControlProcess, ClearSignal, Others, AnswerResume, ResumeProcess
  <2> QED
    BY <2>1, <2>2, <2>3, <2>4 DEF Reply
<1>8. ASSUME NEW f \in Files, cache'[f].act \in Final PROVE cache'[f] = cache[f]
  <2>1. \/ cache'[f] = cache[f] \/ cache'[f] = Unset
        \/ cache'[f] = [act |-> "RequestBinary", by |-> e]
    BY <1>1, <1>7
  <2> QED
    BY <1>8, <2>1 DEF Unset, Final
<1> QED
  BY <1>2, <1>3, <1>4, <1>6, <1>8, FreshKept

(* FlushCache marks the decisions about the executables it clears.          *)
LEMMA FlushFresh ==
  ASSUME ExecInv, RestType, FreshInv, NEW c \in Changes, FlushCache(c)
  PROVE  FreshInv'
<1> DEFINE Cleared == IF change[c].at = "nonroot" THEN Files \ RootFiles ELSE RootFiles
<1>1. /\ cache' = [f \in Files |-> IF f \in Cleared THEN Unset ELSE cache[f]]
      /\ flushed' = [f \in Files |-> IF f \in Cleared THEN version ELSE flushed[f]]
      /\ raced' = raced \union {e \in Deciding : FileOf[e] \in Cleared}
      /\ UNCHANGED <<esCache, version, esFlushed, pc, action, answer, seen>>
  BY DEF FlushCache
<1> HIDE DEF Cleared
<1>2. /\ version \in Nat /\ flushed \in [Files -> Nat] /\ esFlushed \in [Files -> Nat]
  BY DEF RestType
<1>3. \A f \in Files : cache'[f].act \in Final => f \notin Cleared /\ cache'[f] = cache[f] /\ flushed'[f] = flushed[f]
  BY <1>1 DEF Unset, Final
<1>4. EntriesFresh'
  <2>1. ASSUME NEW f \in Files, cache'[f].act \in Final
        PROVE  (pc[cache[f].by] \in Late /\ ~Older(cache[f].by, flushed[f]))'
    BY <1>1, <1>3, <2>1 DEF FreshInv, EntriesFresh, Older
  <2> QED
    BY <2>1 DEF EntriesFresh
<1>5. ESFresh'
  BY <1>1 DEF FreshInv, ESFresh, Cacheable, Older
<1>6. DecisionsFresh'
  <2> SUFFICES ASSUME NEW e \in Execs, Decided(e), e \notin raced', seen[e] < flushed'[FileOf[e]] PROVE FALSE
    BY <1>1 DEF DecisionsFresh, Decided, Older
  <2>1. FileOf[e] \in Files /\ e \in Deciding
    BY FilesAssumption DEF Decided, Deciding
  <2>2. FileOf[e] \notin Cleared /\ flushed'[FileOf[e]] = flushed[FileOf[e]] /\ e \notin raced
    BY <1>1, <2>1
  <2> QED
    BY <2>2 DEF FreshInv, DecisionsFresh, Older
<1>7. FlushOrder'
  <2> SUFFICES ASSUME NEW f \in Files PROVE esFlushed'[f] <= flushed'[f] /\ flushed'[f] <= version'
    BY DEF FlushOrder
  <2>1. esFlushed[f] <= flushed[f] /\ flushed[f] <= version
    BY DEF FreshInv, FlushOrder
  <2> QED
    BY <1>1, <1>2, <2>1
<1> QED
  BY <1>4, <1>5, <1>6, <1>7 DEF FreshInv

LEMMA ClearFresh == ASSUME ExecInv, RestType, FreshInv, ClearESCache PROVE FreshInv'
<1>1. /\ esCache' = [f \in Files |-> None] /\ esFlushed' = flushed
      /\ UNCHANGED <<cache, pc, action, answer, seen, raced, flushed, version>>
  BY DEF ClearESCache
<1>2. EntriesFresh' /\ DecisionsFresh'
  BY <1>1 DEF FreshInv, EntriesFresh, DecisionsFresh, Older, Decided
<1>3. ESFresh'
  BY <1>1 DEF ESFresh
<1>4. FlushOrder'
  BY <1>1 DEF FreshInv, FlushOrder, RestType
<1> QED
  BY <1>2, <1>3, <1>4 DEF FreshInv

(* A change of the rules only makes the policy newer; an expiry or an       *)
(* unmount only takes entries away.                                         *)
LEMMA ChangesFresh ==
  ASSUME ExecInv, RestType, FreshInv,
         \/ \E f \in Files : DenyExpires(f)
         \/ \E c \in Changes : CheckRules(c) \/ CommitRules(c) \/ FlushCommand(c)
         \/ Unmount \/ UNCHANGED vars
  PROVE  FreshInv'
<1>1. UNCHANGED <<esCache, seen, raced, flushed, esFlushed, pc, action, answer>>
  BY DEF DenyExpires, CheckRules, CommitRules, FlushCommand, Unmount, vars, policy
<1>2. version' = version \/ version' = version + 1
  BY DEF DenyExpires, CheckRules, CommitRules, FlushCommand, Unmount, vars, policy
<1>3. FlushOrder'
  <2> SUFFICES ASSUME NEW f \in Files PROVE esFlushed[f] <= flushed[f] /\ flushed[f] <= version'
    BY <1>1 DEF FlushOrder
  <2>1. esFlushed[f] <= flushed[f] /\ flushed[f] <= version /\ version \in Nat /\ flushed[f] \in Nat
    BY DEF FreshInv, FlushOrder, RestType
  <2> QED
    BY <1>2, <2>1
<1>4. \A f \in Files : cache'[f].act \in Final => cache'[f] = cache[f]
  <2>1. cache \in [Files -> [act : Acts, by : Execs \union {None}]]
    BY DEF ExecInv, CoreType
  <2>2. CASE \E f \in Files : DenyExpires(f)
    BY <2>1, <2>2 DEF DenyExpires, Final
  <2>3. CASE Unmount
    BY <2>3 DEF Unmount, Unset, Final
  <2>4. CASE cache' = cache
    BY <2>4
  <2> QED
    BY <2>2, <2>3, <2>4 DEF CheckRules, CommitRules, FlushCommand, vars
<1>5. \A e \in Execs : Decided(e)' => Decided(e)
  BY <1>1 DEF Decided
<1> QED
  BY <1>1, <1>3, <1>4, <1>5, FreshKept

LEMMA NextFreshInv == ExecInv /\ RestType /\ FreshInv /\ [Next]_vars => FreshInv'
BY ExecFresh, CheckFresh, PostFresh, RespondFresh, OthersFresh, FlushFresh, ClearFresh, ChangesFresh
   DEF Next, Handler, Change, Quiet

LEMMA SpecFreshInv == Spec => []FreshInv
BY InitFreshInv, NextFreshInv, SpecExecInv, SpecRestType, PTL DEF Spec

(* No cached decision is older than the last flush, except those of         *)
(* handlers that had decided before the flush and stored or answered after  *)
(* it (FlushCache, postAction:, respondToMessage:): for any number of       *)
(* executions, executables, rule changes and flushes.                       *)
THEOREM CachesAlwaysFresh == Spec => []FreshUnlessRaced
<1>1. FreshInv => FreshUnlessRaced
  BY DEF FreshInv, EntriesFresh, ESFresh, FreshUnlessRaced
<1> QED BY <1>1, SpecFreshInv, PTL

(* ES caches nothing but final plain ALLOWs that it was answered with       *)
(* (respondToMessage:) and the undecided ones of shouldHandleMessage: for   *)
(* other ES clients, whatever deadlines and prompts do.                     *)
THEOREM ESAlwaysCachesPlainAllows == Spec => []ESCachesPlainAllows
<1>1. FreshInv => ESCachesPlainAllows
  BY DEF FreshInv, ESFresh, Cacheable, ESCachesPlainAllows
<1> QED BY <1>1, SpecFreshInv, PTL

-----------------------------------------------------------------------------
(***************************************************************************)
(* The notification queue, in which the reply block of a held execution    *)
(* waits for the user: no reply block is lost, for all notifications, GUIs *)
(* and connections.                                                        *)
(***************************************************************************)

-----------------------------------------------------------------------------
(* What remove_if leaves *)

KeptAt(q, K, i) ==
  IF i = 0 THEN <<>>
  ELSE IF q[i] \in Asking THEN K[i - 1] ELSE Append(K[i - 1], q[i])
Keeps(q, K, n) == K = [i \in 0..n |-> KeptAt(q, K, i)]

LEMMA LeastExists ==
  ASSUME NEW T \in SUBSET Nat, T # {}
  PROVE  \E x \in T : \A y \in T : x <= y
<1>1. \E x \in T : \A y \in T : ~(<<y, x>> \in OpToRel(<, Nat))
  BY NatLessThanWellFounded, WFMin, Zenon
<1>2. \A x, y \in T : ~(<<y, x>> \in OpToRel(<, Nat)) => x <= y
  BY DEF OpToRel
<1> QED
  BY <1>1, <1>2

(* The function that remove_if walks along exists.                          *)
LEMMA KeptExists ==
  ASSUME NEW q, NEW n \in Nat
  PROVE  \E K : Keeps(q, K, n)
<1> DEFINE Bad == {m \in Nat : ~\E K : Keeps(q, K, m)}
<1>1. ASSUME Bad # {} PROVE FALSE
  <2>1. Bad \in SUBSET Nat
    OBVIOUS
  <2>2. PICK m \in Bad : \A l \in Bad : m <= l
    <3> HIDE DEF Bad
    <3> QED
      BY <1>1, <2>1, LeastExists
  <2>3. m # 0
    <3> DEFINE K == [i \in 0..0 |-> <<>>]
    <3>1. Keeps(q, K, 0)
      BY DEF Keeps, KeptAt
    <3> QED
      BY <3>1
  <2>4. m - 1 \in Nat /\ m - 1 \notin Bad
    BY <2>2, <2>3
  <2>5. PICK K : Keeps(q, K, m - 1)
    BY <2>4
  <2> DEFINE L == [i \in 0..m |-> IF i = m THEN KeptAt(q, K, m) ELSE K[i]]
  <2>6. \A i \in 0..m : L[i] = KeptAt(q, L, i)
    <3> SUFFICES ASSUME NEW i \in 0..m PROVE L[i] = KeptAt(q, L, i)
      OBVIOUS
    <3>1. CASE i = 0
      BY <2>3, <2>4, <2>5, <3>1 DEF Keeps, KeptAt
    <3>2. CASE i # 0
      <4>1. i - 1 \in 0..m /\ i - 1 # m /\ L[i - 1] = K[i - 1]
        BY <2>4, <3>2
      <4>2. L[i] = KeptAt(q, K, i)
        BY <2>4, <2>5 DEF Keeps
      <4> QED
        BY <3>2, <4>1, <4>2 DEF KeptAt
    <3> QED
      BY <3>1, <3>2
  <2>7. Keeps(q, L, m)
    BY <2>6 DEF Keeps
  <2> QED
    BY <2>2, <2>7
<1> QED
  BY <1>1

(* It keeps what has no reply block, and no more than there was.            *)
LEMMA UnaskingKeeps ==
  ASSUME NEW S, NEW q \in Seq(S)
  PROVE  Unasking(q) \in Seq(S \ Asking) /\ Len(Unasking(q)) <= Len(q)
<1>1. \E K : Keeps(q, K, Len(q))
  BY KeptExists
<1>2. \E K : Keeps(q, K, Len(q)) /\ Unasking(q) = K[Len(q)]
  BY <1>1, Zenon DEF Unasking, Keeps, KeptAt
<1>3. PICK K : Keeps(q, K, Len(q)) /\ Unasking(q) = K[Len(q)]
  BY <1>2
<1> DEFINE Good(i) == K[i] \in Seq(S \ Asking) /\ Len(K[i]) <= i
           Bad == {i \in 0..Len(q) : ~Good(i)}
<1>4. ASSUME Bad # {} PROVE FALSE
  <2>1. Bad \in SUBSET Nat
    OBVIOUS
  <2>2. PICK i \in Bad : \A j \in Bad : i <= j
    <3> HIDE DEF Bad
    <3> QED
      BY <1>4, <2>1, LeastExists
  <2>3. i \in 0..Len(q) /\ K[i] = KeptAt(q, K, i)
    BY <1>3, <2>2 DEF Keeps
  <2>4. CASE i = 0
    <3>1. K[i] = <<>> /\ <<>> \in Seq(S \ Asking) /\ Len(<<>>) = 0
      BY <2>3, <2>4 DEF KeptAt
    <3> QED
      BY <2>2, <2>4, <3>1
  <2>5. CASE i # 0
    <3>1. i - 1 \in 0..Len(q) /\ Good(i - 1)
      BY <2>2, <2>3, <2>5
    <3>2. q[i] \in S
      BY <2>3, <2>5
    <3>3. Good(i)
      BY <2>3, <2>5, <3>1, <3>2 DEF KeptAt
    <3> QED
      BY <2>2, <3>3
  <2> QED
    BY <2>4, <2>5
<1>5. Good(Len(q))
  BY <1>4
<1> QED
  BY <1>3, <1>5

-----------------------------------------------------------------------------
(* Windows and messages of a GUI, one after the other *)

LEMMA ShiftedWindow ==
  ASSUME NEW S, NEW w \in Seq(S), NEW b \in Seq(S), b # <<>>
  PROVE  Append(w, Head(b)) \o Tail(b) = w \o b
<1>1. Head(b) \in S /\ Tail(b) \in Seq(S) /\ Len(b) \in Nat \ {0} /\ Len(Tail(b)) = Len(b) - 1
      /\ \A i \in 1..Len(Tail(b)) : Tail(b)[i] = b[i + 1]
  BY HeadTailProperties, EmptySeq
<1>2. Append(w, Head(b)) \in Seq(S) /\ Len(Append(w, Head(b))) = Len(w) + 1 /\ Len(w) \in Nat
      /\ (\A i \in 1..Len(w) : Append(w, Head(b))[i] = w[i])
      /\ Append(w, Head(b))[Len(w) + 1] = b[1]
  BY <1>1
<1> DEFINE l == Append(w, Head(b)) \o Tail(b)
           r == w \o b
<1>3. /\ l \in Seq(S) /\ Len(l) = Len(w) + Len(b)
      /\ \A i \in 1..(Len(w) + Len(b)) :
           l[i] = IF i <= Len(w) + 1 THEN Append(w, Head(b))[i] ELSE Tail(b)[i - (Len(w) + 1)]
  BY <1>1, <1>2, ConcatProperties
<1>4. /\ r \in Seq(S) /\ Len(r) = Len(w) + Len(b)
      /\ \A i \in 1..(Len(w) + Len(b)) : r[i] = IF i <= Len(w) THEN w[i] ELSE b[i - Len(w)]
  BY ConcatProperties
<1> HIDE DEF l, r
<1>5. ASSUME NEW i \in 1..(Len(w) + Len(b)) PROVE l[i] = r[i]
  <2>1. CASE i <= Len(w)
    BY <1>2, <1>3, <1>4, <2>1, SMTT(30)
  <2>2. CASE i = Len(w) + 1
    <3>1. l[i] = b[1] /\ r[i] = b[i - Len(w)] /\ i - Len(w) = 1
      BY <1>2, <1>3, <1>4, <2>2
    <3> QED
      BY <3>1
  <2>3. CASE i > Len(w) + 1
    <3>1. i - (Len(w) + 1) \in 1..Len(Tail(b)) /\ (i - (Len(w) + 1)) + 1 = i - Len(w)
      BY <1>1, <1>2, <2>3
    <3>2. l[i] = b[i - Len(w)]
      BY <1>1, <1>2, <1>3, <2>3, <3>1
    <3> QED
      BY <1>2, <1>4, <2>3, <3>2
  <2> QED
    BY <1>2, <2>1, <2>2, <2>3
<1>6. l = r
  BY <1>3, <1>4, <1>5, SeqEqual
<1> QED
  BY <1>6 DEF l, r

LEMMA FirstRemoved ==
  ASSUME NEW S, NEW w \in Seq(S), NEW b \in Seq(S), w # <<>>
  PROVE  /\ DOMAIN (Tail(w) \o b) = 1..(Len(w \o b) - 1) /\ 1 \in 1..Len(w \o b)
         /\ (w \o b)[1] = Head(w)
         /\ \A i \in 1..(Len(w \o b) - 1) : (Tail(w) \o b)[i] = (w \o b)[i + 1]
<1>1. Tail(w) \in Seq(S) /\ Len(w) \in Nat \ {0} /\ Len(Tail(w)) = Len(w) - 1 /\ Len(b) \in Nat
      /\ \A i \in 1..Len(Tail(w)) : Tail(w)[i] = w[i + 1]
  BY HeadTailProperties, EmptySeq
<1> DEFINE l == Tail(w) \o b
           r == w \o b
<1>2. /\ DOMAIN l = 1..(Len(w) - 1 + Len(b))
      /\ \A i \in 1..(Len(w) - 1 + Len(b)) :
           l[i] = IF i <= Len(w) - 1 THEN Tail(w)[i] ELSE b[i - (Len(w) - 1)]
  BY <1>1, ConcatProperties, LenProperties
<1>3. /\ Len(r) = Len(w) + Len(b)
      /\ \A i \in 1..(Len(w) + Len(b)) : r[i] = IF i <= Len(w) THEN w[i] ELSE b[i - Len(w)]
  BY ConcatProperties
<1> HIDE DEF l, r
<1>4. ASSUME NEW i \in 1..(Len(w) - 1 + Len(b)) PROVE l[i] = r[i + 1]
  <2>1. CASE i <= Len(w) - 1
    BY <1>1, <1>2, <1>3, <2>1
  <2>2. CASE i > Len(w) - 1
    <3>1. i + 1 \in 1..(Len(w) + Len(b)) /\ i + 1 > Len(w) /\ (i + 1) - Len(w) = i - (Len(w) - 1)
      BY <1>1, <2>2
    <3> QED
      BY <1>1, <1>2, <1>3, <2>2, <3>1
  <2> QED
    BY <1>1, <2>1, <2>2
<1>5. Len(r) - 1 = Len(w) - 1 + Len(b) /\ 1 \in 1..Len(r) /\ r[1] = Head(w)
  BY <1>1, <1>3
<1>6. DOMAIN l = 1..(Len(r) - 1) /\ \A i \in 1..(Len(r) - 1) : l[i] = r[i + 1]
  BY <1>2, <1>4, <1>5
<1> QED
  BY <1>5, <1>6 DEF l, r

LEMMA MiddleRemoved ==
  ASSUME NEW S, NEW w \in Seq(S), NEW b \in Seq(S), b # <<>>, NEW k, k = Len(w) + 1
  PROVE  /\ DOMAIN (w \o Tail(b)) = 1..(Len(w \o b) - 1) /\ k \in 1..Len(w \o b)
         /\ (w \o b)[k] = Head(b)
         /\ \A i \in 1..(Len(w \o b) - 1) :
              (w \o Tail(b))[i] = (w \o b)[IF i < k THEN i ELSE i + 1]
<1>1. Tail(b) \in Seq(S) /\ Len(b) \in Nat \ {0} /\ Len(Tail(b)) = Len(b) - 1 /\ Len(w) \in Nat
      /\ \A i \in 1..Len(Tail(b)) : Tail(b)[i] = b[i + 1]
  BY HeadTailProperties, EmptySeq
<1> DEFINE l == w \o Tail(b)
           r == w \o b
<1>2. /\ DOMAIN l = 1..(Len(w) + (Len(b) - 1))
      /\ \A i \in 1..(Len(w) + (Len(b) - 1)) : l[i] = IF i <= Len(w) THEN w[i] ELSE Tail(b)[i - Len(w)]
  BY <1>1, ConcatProperties, LenProperties
<1>3. /\ Len(r) = Len(w) + Len(b)
      /\ \A i \in 1..(Len(w) + Len(b)) : r[i] = IF i <= Len(w) THEN w[i] ELSE b[i - Len(w)]
  BY ConcatProperties
<1> HIDE DEF l, r
<1>4. ASSUME NEW i \in 1..(Len(w) + (Len(b) - 1)) PROVE l[i] = r[IF i < k THEN i ELSE i + 1]
  <2>1. CASE i <= Len(w)
    BY <1>1, <1>2, <1>3, <2>1
  <2>2. CASE i > Len(w)
    <3>1. i - Len(w) \in 1..Len(Tail(b)) /\ (i - Len(w)) + 1 = (i + 1) - Len(w)
          /\ i + 1 \in 1..(Len(w) + Len(b)) /\ i + 1 > Len(w) /\ ~(i < k)
      BY <1>1, <2>2
    <3>2. l[i] = b[(i + 1) - Len(w)]
      BY <1>1, <1>2, <2>2, <3>1
    <3> QED
      BY <1>1, <1>3, <3>1, <3>2
  <2> QED
    BY <1>1, <2>1, <2>2
<1>5. Len(r) - 1 = Len(w) + (Len(b) - 1) /\ k \in 1..Len(r) /\ r[k] = Head(b)
  <2>1. k - Len(w) = 1 /\ k \in 1..(Len(w) + Len(b)) /\ k > Len(w)
    BY <1>1
  <2>2. r[k] = b[1]
    BY <1>1, <1>3, <2>1
  <2> QED
    BY <1>1, <1>3, <2>1, <2>2
<1>6. DOMAIN l = 1..(Len(r) - 1) /\ \A i \in 1..(Len(r) - 1) : l[i] = r[IF i < k THEN i ELSE i + 1]
  BY <1>2, <1>4, <1>5
<1> QED
  BY <1>5, <1>6 DEF l, r

-----------------------------------------------------------------------------
(* The inductive invariant *)

(* What a GUI has, the shown window first and the latest message last.      *)
Held == [g \in Guis |-> windows[g] \o inbox[g]]

(* No notification with a reply block is at two places.                     *)
Once(H) ==
  \A g, h \in Guis : \A i \in DOMAIN H[g], j \in DOMAIN H[h] :
    H[g][i] = H[h][j] /\ H[g][i] \in Asking => g = h /\ i = j

(* Nobody answered a notification that a GUI still has.                     *)
Open(n) == n \in added /\ reply[n] = "none"
AllOpen(H) == \A g \in Guis : \A i \in DOMAIN H[g] : H[g][i] \in Asking => Open(H[g][i])

HeldRepliesInv ==
  /\ inbox \in [Guis -> Seq(added)] /\ windows \in [Guis -> Seq(added)]
  /\ silenced \in [Guis -> SUBSET Hashes]
  /\ Once(Held) /\ AllOpen(Held)

(* A connection that became the current one gets its handler, at the latest *)
(* when the registration goes on.                                           *)
LinkInv ==
  /\ conn \in Conns \union {NoGui} /\ handler \subseteq Conns
  /\ reg \in [Conns -> {"none", "resumed", "assigned", "handled", "done"}]
  /\ link \in [Conns -> {"none", "up", "broken", "lost", "clearing", "down"}]
  /\ runs \in [Conns -> 0..MaxRuns]
  /\ conn # NoGui => conn \in handler \/ reg[conn] = "assigned"

(* What asks never stays in the ring buffer: it is sent or answered, and    *)
(* until then the GUI that has it gave no reply.                            *)
QueueType ==
  /\ added \subseteq Notes /\ sent \subseteq added
  /\ pending \in Seq(added \ Asking) /\ Len(pending) <= Capacity
  /\ pending = <<>> \/ sent = {}
  /\ via \in [Notes -> Conns \union {NoGui}]
  /\ calls \in [Notes -> Seq(BOOLEAN)]
ReplyType ==
  /\ reply \in [Notes -> {"none", "yes", "no", "approve", "refuse", "done"}]
  /\ \A n \in Asking : n \notin added => reply[n] = "none"
Pursued(n) == calls[n] = <<>> => n \in sent \/ reply[n] \in {"approve", "refuse"}
QueueInv == QueueType /\ ReplyType /\ \A n \in Asking \intersect added : Pursued(n)

ReplyInv == QueueInv /\ LinkInv /\ HeldRepliesInv

LEMMA ReplyInvInit == QueueInit => ReplyInv
<1> SUFFICES ASSUME QueueInit PROVE ReplyInv
  OBVIOUS
<1>1. QueueInv
  BY ConstantsAssumption DEF QueueInit, QueueInv, QueueType, ReplyType
<1>2. LinkInv
  BY ConstantsAssumption DEF QueueInit, LinkInv
<1>3. HeldRepliesInv
  <2>1. \A g \in Guis : Held[g] = <<>> \o <<>>
    BY DEF QueueInit, Held
  <2>2. \A g \in Guis : DOMAIN Held[g] = {}
    BY <2>1
  <2>3. Once(Held) /\ AllOpen(Held)
    BY <2>2 DEF Once, AllOpen
  <2> QED
    BY <2>3 DEF QueueInit, HeldRepliesInv
<1> QED
  BY <1>1, <1>2, <1>3 DEF ReplyInv

-----------------------------------------------------------------------------
(* What the GUIs have *)

LEMMA HeldType ==
  ASSUME HeldRepliesInv
  PROVE  /\ Held \in [Guis -> Seq(added)]
         /\ \A g \in Guis : Len(Held[g]) = Len(windows[g]) + Len(inbox[g])
BY DEF HeldRepliesInv, Held

(* One notification leaves: an asking one is nowhere else.                  *)
Without(g, k) ==
  /\ \A h \in Guis : h # g => Held'[h] = Held[h]
  /\ DOMAIN Held'[g] = 1..(Len(Held[g]) - 1)
  /\ \A i \in 1..(Len(Held[g]) - 1) : Held'[g][i] = Held[g][IF i < k THEN i ELSE i + 1]

LEMMA OneLeaves ==
  ASSUME HeldRepliesInv, NEW g \in Guis, NEW k \in 1..Len(Held[g]), Without(g, k)
  PROVE  /\ Once(Held)'
         /\ Held[g][k] \in Asking => \A h \in Guis : \A i \in DOMAIN Held'[h] : Held'[h][i] # Held[g][k]
         /\ \A h \in Guis : \A i \in DOMAIN Held'[h] : \E j \in DOMAIN Held[h] : Held'[h][i] = Held[h][j]
<1> DEFINE was(h, i) == IF h = g /\ ~(i < k) THEN i + 1 ELSE i
<1>0. Held \in [Guis -> Seq(added)] /\ Once(Held)
  BY HeldType DEF HeldRepliesInv
<1>1. ASSUME NEW h \in Guis, NEW i \in DOMAIN Held'[h]
      PROVE  /\ i \in Nat /\ was(h, i) \in DOMAIN Held[h] /\ Held'[h][i] = Held[h][was(h, i)]
             /\ h = g => was(h, i) # k
  <2>1. CASE h = g
    BY <1>0, <1>1, <2>1, SMTT(30) DEF Without
  <2>2. CASE h # g
    <3>1. Held'[h] = Held[h] /\ DOMAIN Held[h] = 1..Len(Held[h]) /\ Len(Held[h]) \in Nat
      BY <1>0, <2>2 DEF Without
    <3> QED
      BY <2>2, <3>1
  <2> QED
    BY <2>1, <2>2
<1>2. k \in DOMAIN Held[g] /\ k \in Nat
  BY <1>0
<1>3. ASSUME NEW h \in Guis, NEW h2 \in Guis, NEW i \in DOMAIN Held'[h], NEW j \in DOMAIN Held'[h2],
             Held'[h][i] = Held'[h2][j], Held'[h][i] \in Asking
      PROVE  h = h2 /\ i = j
  <2>1. h = h2 /\ was(h, i) = was(h2, j)
    <3>1. /\ was(h, i) \in DOMAIN Held[h] /\ was(h2, j) \in DOMAIN Held[h2]
          /\ Held[h][was(h, i)] = Held[h2][was(h2, j)] /\ Held[h][was(h, i)] \in Asking
      BY <1>1, <1>3
    <3> HIDE DEF was
    <3> QED
      BY <1>0, <3>1 DEF Once
  <2>2. i \in Nat /\ j \in Nat
    BY <1>1
  <2> QED
    BY <1>2, <2>1, <2>2
<1>4. ASSUME Held[g][k] \in Asking, NEW h \in Guis, NEW i \in DOMAIN Held'[h], Held'[h][i] = Held[g][k]
      PROVE  FALSE
  <2>1. was(h, i) \in DOMAIN Held[h] /\ Held[h][was(h, i)] = Held[g][k] /\ (h = g => was(h, i) # k)
    BY <1>1, <1>4
  <2> HIDE DEF was
  <2> QED
    BY <1>0, <1>2, <1>4, <2>1 DEF Once
<1> HIDE DEF was
<1> QED
  BY <1>1, <1>3, <1>4 DEF Once

LEMMA AllOpenWithout ==
  ASSUME HeldRepliesInv, NEW g \in Guis, NEW k \in 1..Len(Held[g]), Without(g, k),
         added \subseteq added',
         \A n \in Asking : n # Held[g][k] => reply'[n] = reply[n]
  PROVE  Once(Held)' /\ AllOpen(Held)'
<1>1. /\ Once(Held)'
      /\ Held[g][k] \in Asking => \A h \in Guis : \A i \in DOMAIN Held'[h] : Held'[h][i] # Held[g][k]
      /\ \A h \in Guis : \A i \in DOMAIN Held'[h] : \E j \in DOMAIN Held[h] : Held'[h][i] = Held[h][j]
  BY OneLeaves
<1>2. ASSUME NEW h \in Guis, NEW i \in DOMAIN Held'[h], Held'[h][i] \in Asking
      PROVE  Held'[h][i] \in added' /\ reply'[Held'[h][i]] = "none"
  <2>1. Open(Held'[h][i])
    BY <1>1, <1>2 DEF HeldRepliesInv, AllOpen
  <2>2. Held'[h][i] # Held[g][k]
    BY <1>1, <1>2
  <2> QED
    BY <1>2, <2>1, <2>2 DEF Open
<1> QED
  BY <1>1, <1>2 DEF AllOpen, Open

(* The GUI takes a message into its windows: it still has the same ones.    *)
LEMMA MovedIsHeld ==
  ASSUME HeldRepliesInv, NEW g \in Guis, inbox[g] # <<>>,
         inbox' = [inbox EXCEPT ![g] = Tail(@)],
         windows' = [windows EXCEPT ![g] = Append(@, Head(inbox[g]))]
  PROVE  Held' = Held
<1>1. windows[g] \in Seq(added) /\ inbox[g] \in Seq(added)
  BY DEF HeldRepliesInv
<1>2. Append(windows[g], Head(inbox[g])) \o Tail(inbox[g]) = windows[g] \o inbox[g]
  BY <1>1, ShiftedWindow
<1>3. \A h \in Guis : windows'[h] \o inbox'[h] = windows[h] \o inbox[h]
  BY <1>2 DEF HeldRepliesInv
<1> QED
  BY <1>3 DEF Held

(* The shown window is closed ...                                           *)
LEMMA ClosedLeaves ==
  ASSUME HeldRepliesInv, NEW g \in Guis, windows[g] # <<>>,
         windows' = [windows EXCEPT ![g] = Tail(@)], inbox' = inbox
  PROVE  Without(g, 1) /\ 1 \in 1..Len(Held[g]) /\ Held[g][1] = Head(windows[g])
<1>1. windows[g] \in Seq(added) /\ inbox[g] \in Seq(added) /\ Len(windows[g]) > 0
  BY DEF HeldRepliesInv
<1>2. Held'[g] = Tail(windows[g]) \o inbox[g] /\ Held[g] = windows[g] \o inbox[g]
  BY DEF Held, HeldRepliesInv
<1>3. \A h \in Guis : h # g => Held'[h] = Held[h]
  BY DEF Held, HeldRepliesInv
<1>4. /\ DOMAIN Held'[g] = 1..(Len(Held[g]) - 1) /\ 1 \in 1..Len(Held[g])
      /\ Held[g][1] = Head(windows[g])
      /\ \A i \in 1..(Len(Held[g]) - 1) : Held'[g][i] = Held[g][i + 1]
  <2>1. \A w, b \in Seq(added) :
          w # <<>> => /\ DOMAIN (Tail(w) \o b) = 1..(Len(w \o b) - 1) /\ 1 \in 1..Len(w \o b)
                      /\ (w \o b)[1] = Head(w)
                      /\ \A i \in 1..(Len(w \o b) - 1) : (Tail(w) \o b)[i] = (w \o b)[i + 1]
    BY FirstRemoved
  <2>2. LET w == windows[g]
            b == inbox[g]
        IN  /\ DOMAIN (Tail(w) \o b) = 1..(Len(w \o b) - 1) /\ 1 \in 1..Len(w \o b)
            /\ (w \o b)[1] = Head(w)
            /\ \A i \in 1..(Len(w \o b) - 1) : (Tail(w) \o b)[i] = (w \o b)[i + 1]
    BY <1>1, <2>1, Zenon
  <2> QED
    BY <1>2, <2>2, Zenon
<1> QED
  BY <1>3, <1>4 DEF Without

(* ... or a message is dropped.                                             *)
LEMMA DroppedLeaves ==
  ASSUME HeldRepliesInv, NEW g \in Guis, inbox[g] # <<>>,
         inbox' = [inbox EXCEPT ![g] = Tail(@)], windows' = windows
  PROVE  LET k == Len(windows[g]) + 1
         IN  Without(g, k) /\ k \in 1..Len(Held[g]) /\ Held[g][k] = Head(inbox[g])
<1>1. windows[g] \in Seq(added) /\ inbox[g] \in Seq(added) /\ Len(inbox[g]) > 0
  BY DEF HeldRepliesInv
<1>2. Held'[g] = windows[g] \o Tail(inbox[g]) /\ Held[g] = windows[g] \o inbox[g]
  BY DEF Held, HeldRepliesInv
<1>3. \A h \in Guis : h # g => Held'[h] = Held[h]
  BY DEF Held, HeldRepliesInv
<1> DEFINE k == Len(windows[g]) + 1
<1>4. /\ DOMAIN Held'[g] = 1..(Len(Held[g]) - 1) /\ k \in 1..Len(Held[g])
      /\ Held[g][k] = Head(inbox[g])
      /\ \A i \in 1..(Len(Held[g]) - 1) : Held'[g][i] = Held[g][IF i < k THEN i ELSE i + 1]
  <2>1. \A w, b \in Seq(added) :
          b # <<>> => /\ DOMAIN (w \o Tail(b)) = 1..(Len(w \o b) - 1) /\ Len(w) + 1 \in 1..Len(w \o b)
                      /\ (w \o b)[Len(w) + 1] = Head(b)
                      /\ \A i \in 1..(Len(w \o b) - 1) :
                           (w \o Tail(b))[i] = (w \o b)[IF i < Len(w) + 1 THEN i ELSE i + 1]
    BY MiddleRemoved
  <2>2. LET w == windows[g]
            b == inbox[g]
        IN  /\ DOMAIN (w \o Tail(b)) = 1..(Len(w \o b) - 1) /\ Len(w) + 1 \in 1..Len(w \o b)
            /\ (w \o b)[Len(w) + 1] = Head(b)
            /\ \A i \in 1..(Len(w \o b) - 1) :
                 (w \o Tail(b))[i] = (w \o b)[IF i < Len(w) + 1 THEN i ELSE i + 1]
    BY <1>1, <2>1, Zenon
  <2> QED
    BY <1>2, <2>2, Zenon
<1> QED
  BY <1>3, <1>4 DEF Without

(* The notifications of q arrive at g; only the last one may ask, and       *)
(* nobody has it yet.                                                       *)
LEMMA ArrivedIsHeld ==
  ASSUME HeldRepliesInv, NEW g \in Guis, added \subseteq added', NEW q \in Seq(added'),
         \A i \in 1..(Len(q) - 1) : q[i] \notin Asking,
         \A i \in DOMAIN q : q[i] \in Asking => q[i] \notin added /\ reply[q[i]] = "none",
         inbox' = [inbox EXCEPT ![g] = @ \o q], UNCHANGED <<windows, silenced, reply>>
  PROVE  HeldRepliesInv'
<1>1. windows[g] \in Seq(added) /\ inbox[g] \in Seq(added)
  BY DEF HeldRepliesInv
<1>2. Held' = [Held EXCEPT ![g] = @ \o q] /\ Held \in [Guis -> Seq(added)]
  <2>1. windows[g] \o (inbox[g] \o q) = (windows[g] \o inbox[g]) \o q
    <3>1. windows[g] \in Seq(added') /\ inbox[g] \in Seq(added')
      BY <1>1, SeqMonotonic
    <3>2. \A w, b, c \in Seq(added') : w \o (b \o c) = (w \o b) \o c
      BY ConcatAssociative, SMTT(30)
    <3> QED
      BY <3>1, <3>2
  <2>2. \A h \in Guis : Held'[h] = IF h = g THEN Held[g] \o q ELSE Held[h]
    BY <2>1 DEF Held, HeldRepliesInv
  <2> QED
    BY <2>2, HeldType DEF Held
<1>3. ASSUME NEW h \in Guis, NEW i \in DOMAIN Held'[h]
      PROVE  \/ i \in DOMAIN Held[h] /\ Held'[h][i] = Held[h][i] /\ Held[h][i] \in added
             \/ /\ h = g /\ i - Len(Held[g]) \in DOMAIN q /\ Held'[h][i] = q[i - Len(Held[g])]
                /\ i \in Nat /\ Len(Held[g]) \in Nat
  BY <1>2
<1>4. Once(Held')
  <2> SUFFICES ASSUME NEW h \in Guis, NEW h2 \in Guis,
                      NEW i \in DOMAIN Held'[h], NEW j \in DOMAIN Held'[h2],
                      Held'[h][i] = Held'[h2][j], Held'[h][i] \in Asking
               PROVE  h = h2 /\ i = j
    BY DEF Once
  <2> DEFINE old(b, k) == k \in DOMAIN Held[b] /\ Held'[b][k] = Held[b][k] /\ Held[b][k] \in added
             new(b, k) == /\ b = g /\ k - Len(Held[g]) \in DOMAIN q /\ Held'[b][k] = q[k - Len(Held[g])]
                          /\ k \in Nat /\ Len(Held[g]) \in Nat
  <2>1. (old(h, i) \/ new(h, i)) /\ (old(h2, j) \/ new(h2, j))
    BY <1>3
  <2>2. ASSUME old(h, i), old(h2, j) PROVE h = h2 /\ i = j
    <3>1. Held[h][i] = Held[h2][j] /\ Held[h][i] \in Asking /\ Once(Held)
      BY <2>2 DEF HeldRepliesInv
    <3> QED
      BY <2>2, <3>1 DEF Once
  <2>3. ASSUME NEW b \in Guis, NEW k, NEW b2 \in Guis, NEW k2, old(b, k), new(b2, k2),
               Held'[b][k] = Held'[b2][k2], Held'[b][k] \in Asking
        PROVE  FALSE
    BY <2>3
  <2>4. ASSUME new(h, i), new(h2, j) PROVE h = h2 /\ i = j
    <3>1. q[i - Len(Held[g])] \in Asking /\ q[j - Len(Held[g])] \in Asking
      BY <2>4
    <3>2. \A k \in DOMAIN q : q[k] \in Asking => k = Len(q)
      OBVIOUS
    <3>3. i - Len(Held[g]) = Len(q) /\ j - Len(Held[g]) = Len(q)
      BY <2>4, <3>1, <3>2
    <3> QED
      BY <2>4, <3>3
  <2> HIDE DEF old, new
  <2> QED
    BY <2>1, <2>2, <2>3, <2>4
<1>5. AllOpen(Held)'
  <2> SUFFICES ASSUME NEW h \in Guis, NEW i \in DOMAIN Held'[h], Held'[h][i] \in Asking
               PROVE  Held'[h][i] \in added' /\ reply'[Held'[h][i]] = "none"
    BY DEF AllOpen, Open
  <2>1. CASE i \in DOMAIN Held[h] /\ Held'[h][i] = Held[h][i]
    <3>1. Open(Held[h][i])
      BY <2>1 DEF HeldRepliesInv, AllOpen
    <3> QED
      BY <2>1, <3>1 DEF Open
  <2>2. CASE i - Len(Held[g]) \in DOMAIN q /\ Held'[h][i] = q[i - Len(Held[g])]
    BY <2>2
  <2> QED
    BY <1>3, <2>1, <2>2
<1>6. inbox' \in [Guis -> Seq(added')] /\ windows' \in [Guis -> Seq(added')]
  <2>1. \A h \in Guis : inbox[h] \in Seq(added') /\ windows[h] \in Seq(added')
    BY DEF HeldRepliesInv
  <2>2. inbox[g] \o q \in Seq(added')
    BY <2>1
  <2> QED
    BY <2>1, <2>2 DEF HeldRepliesInv
<1> QED
  BY <1>4, <1>5, <1>6 DEF HeldRepliesInv

-----------------------------------------------------------------------------
(* The blocks on pendingQueue *)

LEMMA CallType ==
  ASSUME NEW f \in [Notes -> Seq(BOOLEAN)], NEW S, NEW value \in BOOLEAN
  PROVE  /\ Call(f, S, value) \in [Notes -> Seq(BOOLEAN)]
         /\ \A n \in Notes : Call(f, S, value)[n] = <<>> => f[n] = <<>>
         /\ \A n \in Notes : n \in S /\ n \in Asking => Call(f, S, value)[n] # <<>>
<1>1. ASSUME NEW n \in Notes
      PROVE  /\ Append(f[n], value) \in Seq(BOOLEAN) /\ Append(f[n], value) # <<>>
  <2>1. f[n] \in Seq(BOOLEAN)
    OBVIOUS
  <2> QED
    BY <2>1, AppendProperties
<1> QED
  BY <1>1 DEF Call

(* What clearAllPendingWithRepliesSerialized and flushQueueSerialized leave *)
(* of a ring buffer q, after the calls f: all that asks is sent or answered.*)
Flushed(q, f) ==
  /\ pending' \in Seq(added' \ Asking) /\ Len(pending') <= Len(q)
  /\ pending' = <<>> \/ sent' = {}
  /\ sent' \subseteq sent \union ToSet(q)
  /\ via' \in [Notes -> Conns \union {NoGui}]
  /\ calls' \in [Notes -> Seq(BOOLEAN)]
  /\ \A n \in Notes : calls'[n] = <<>> => f[n] = <<>>
  /\ \A n \in Asking : n \in sent \union ToSet(q) => n \in sent' \/ calls'[n] # <<>>

LEMMA ClearAllFlushes ==
  ASSUME QueueInv, NEW q \in Seq(added'),
         NEW f \in [Notes -> Seq(BOOLEAN)], ClearAll(q, f)
  PROVE  Flushed(q, f) /\ inbox' = inbox
<1>1. pending' = Unasking(q) /\ pending' \in Seq(added' \ Asking) /\ Len(pending') <= Len(q)
  BY UnaskingKeeps DEF ClearAll
<1>2. calls' = Call(f, sent \union ToSet(q), FALSE) /\ sent' = {} /\ UNCHANGED <<via, inbox>>
  BY DEF ClearAll
<1>3. Asking \subseteq Notes
  BY ConstantsAssumption
<1> QED
  BY <1>1, <1>2, <1>3, CallType DEF Flushed, QueueInv, QueueType

(* The notifications that were sent reach the GUI behind a working          *)
(* connection.                                                              *)
Arrives(q) == inbox' = inbox \/ \E g \in Guis : inbox' = [inbox EXCEPT ![g] = @ \o q]

LEMMA FlushFlushes ==
  ASSUME ReplyInv, NEW q \in Seq(added'),
         NEW f \in [Notes -> Seq(BOOLEAN)], Flush(q, f)
  PROVE  Flushed(q, f) /\ Arrives(q)
<1>1. CASE ~IsConnected(conn)
  <2>1. ClearAll(q, f)
    BY <1>1 DEF Flush
  <2> QED
    BY <2>1, ClearAllFlushes DEF Arrives, ReplyInv
<1>2. CASE IsConnected(conn)
  <2>1. conn \in Conns
    BY <1>2 DEF IsConnected, ReplyInv, LinkInv
  <2>2. /\ pending' = <<>> /\ sent' = sent \union ToSet(q) /\ calls' = f
        /\ via' = [n \in Notes |-> IF n \in ToSet(q) THEN conn ELSE via[n]]
        /\ inbox' = inbox \/ inbox' = [inbox EXCEPT ![GuiOf[conn]] = @ \o q]
    BY <1>2 DEF Flush
  <2>3. via' \in [Notes -> Conns \union {NoGui}]
    BY <2>1, <2>2 DEF ReplyInv, QueueInv, QueueType
  <2>4. pending' \in Seq(added' \ Asking) /\ Len(pending') <= Len(q)
    <3>1. <<>> \in Seq(added' \ Asking) /\ Len(<<>>) = 0 /\ Len(q) \in Nat
      BY EmptySeq, LenProperties
    <3> QED
      BY <2>2, <3>1
  <2>5. Arrives(q)
    BY <2>1, <2>2, ConstantsAssumption DEF Arrives
  <2> QED
    BY <2>2, <2>3, <2>4, <2>5 DEF Flushed
<1> QED
  BY <1>1, <1>2

(* A flush leaves nothing behind that asks.                                 *)
LEMMA FlushedKeepsQueue ==
  ASSUME ReplyInv, NEW q, NEW f, Flushed(q, f), Len(q) <= Capacity, Len(q) \in Nat,
         ToSet(q) \subseteq added', added \subseteq added', added' \subseteq Notes, reply' = reply,
         \A n \in Asking : n \in added' => n \in added \/ n \in ToSet(q),
         \A n \in Asking \intersect added : f[n] = <<>> => calls[n] = <<>>
  PROVE  QueueInv'
<1>1. QueueType'
  <2>1. Len(pending') \in Nat /\ Capacity \in Nat
    BY LenProperties, ConstantsAssumption DEF Flushed
  <2> QED
    BY <2>1 DEF Flushed, QueueType, ReplyInv, QueueInv
<1>2. ReplyType'
  BY DEF ReplyInv, QueueInv, ReplyType
<1>3. ASSUME NEW n \in Asking \intersect added', calls'[n] = <<>>
      PROVE  n \in sent' \/ reply'[n] \in {"approve", "refuse"}
  <2>1. n \in Notes
    OBVIOUS
  <2>2. CASE n \in ToSet(q)
    BY <1>3, <2>2 DEF Flushed
  <2>3. CASE n \in added
    <3>1. f[n] = <<>>
      BY <1>3, <2>1 DEF Flushed
    <3>2. n \in sent \/ reply[n] \in {"approve", "refuse"}
      BY <2>3, <3>1 DEF ReplyInv, QueueInv, Pursued
    <3> QED
      BY <1>3, <3>2 DEF Flushed
  <2> QED
    BY <2>2, <2>3
<1> QED
  BY <1>1, <1>2, <1>3 DEF QueueInv, Pursued

LEMMA LinksKeepLinkInv == ASSUME LinkInv, UNCHANGED links PROVE LinkInv'
BY DEF LinkInv, links

(* The part of the step that concerns the GUIs.                             *)
LEMMA ArrivesKeepsHeld ==
  ASSUME HeldRepliesInv, NEW q \in Seq(added'), Arrives(q), added \subseteq added',
         \A i \in 1..(Len(q) - 1) : q[i] \notin Asking,
         \A i \in DOMAIN q : q[i] \in Asking => q[i] \notin added /\ reply[q[i]] = "none",
         UNCHANGED <<windows, silenced, reply>>
  PROVE  HeldRepliesInv'
<1>1. CASE inbox' = inbox
  <2>1. Held' = Held
    BY <1>1 DEF Held
  <2>2. AllOpen(Held)'
    BY <2>1 DEF HeldRepliesInv, AllOpen, Open
  <2>3. Once(Held)'
    BY <2>1 DEF HeldRepliesInv
  <2>4. inbox' \in [Guis -> Seq(added')] /\ windows' \in [Guis -> Seq(added')]
    <3>1. \A g \in Guis : inbox[g] \in Seq(added') /\ windows[g] \in Seq(added')
      BY SeqMonotonic DEF HeldRepliesInv
    <3> QED
      BY <1>1, <3>1 DEF HeldRepliesInv
  <2> QED
    BY <2>2, <2>3, <2>4 DEF HeldRepliesInv
<1>2. CASE \E g \in Guis : inbox' = [inbox EXCEPT ![g] = @ \o q]
  <2>1. PICK g \in Guis : inbox' = [inbox EXCEPT ![g] = @ \o q]
    BY <1>2
  <2>2. /\ \A i \in 1..(Len(q) - 1) : q[i] \notin Asking
        /\ \A i \in DOMAIN q : q[i] \in Asking => q[i] \notin added /\ reply[q[i]] = "none"
    OBVIOUS
  <2> QED
    BY <2>1, <2>2, ArrivedIsHeld, Zenon
<1> QED
  BY <1>1, <1>2 DEF Arrives

-----------------------------------------------------------------------------
(* The steps *)

(* Enqueue: an overflow loses the oldest one, which does not ask.           *)
LEMMA EnqueueType ==
  ASSUME QueueInv, NEW n \in Notes, added' = added \union {n}
  PROVE  LET q == Enqueue(n)
         IN  /\ q \in Seq(added') /\ Len(q) \in Nat /\ Len(q) <= Capacity
             /\ ToSet(q) \subseteq added' /\ n \in ToSet(q) /\ q[Len(q)] = n
             /\ DOMAIN q = 1..Len(q)
             /\ \A i \in 1..(Len(q) - 1) : q[i] \notin Asking
             /\ Dropped \intersect Asking = {}
<1> DEFINE p == IF Full THEN Tail(pending) ELSE pending
           q == Append(p, n)
<1>1. pending \in Seq(added \ Asking) /\ Len(pending) \in Nat /\ Len(pending) <= Capacity
  BY LenProperties DEF QueueInv, QueueType
<1>2. Capacity \in Nat \ {0}
  BY ConstantsAssumption
<1>3. p \in Seq(added \ Asking) /\ Len(p) \in Nat /\ Len(p) + 1 <= Capacity /\ Dropped \intersect Asking = {}
  <2>1. CASE Full
    <3>1. pending # <<>>
      BY <1>2, <2>1 DEF Full
    <3>2. Tail(pending) \in Seq(added \ Asking) /\ Len(Tail(pending)) = Len(pending) - 1
          /\ Head(pending) \in added \ Asking
      BY <1>1, <3>1, HeadTailProperties
    <3>3. Len(pending) - 1 \in Nat
      BY <1>2, <2>1 DEF Full
    <3> QED
      BY <1>1, <2>1, <3>2, <3>3 DEF Dropped
  <2>2. CASE ~Full
    BY <1>1, <1>2, <2>2 DEF Full, Dropped
  <2> QED
    BY <2>1, <2>2
<1>4. p \in Seq(added')
  BY <1>3, SeqMonotonic
<1> HIDE DEF p
<1>5. /\ q \in Seq(added') /\ Len(q) = Len(p) + 1 /\ q[Len(p) + 1] = n
      /\ \A i \in 1..Len(p) : q[i] = p[i]
  BY <1>4, AppendProperties
<1>6. \A i \in 1..Len(p) : p[i] \notin Asking
  BY <1>3, ElementOfSeq
<1> HIDE DEF q
<1>7. DOMAIN q = 1..Len(q)
  BY <1>5, LenProperties
<1>8. ToSet(q) \subseteq added'
  BY <1>5, <1>7 DEF ToSet
<1>9. n \in ToSet(q)
  BY <1>3, <1>5, <1>7 DEF ToSet
<1> QED
  BY <1>3, <1>5, <1>6, <1>7, <1>8, <1>9 DEF q, p, Enqueue

(* addEvent of a notification that nobody has seen.                         *)
LEMMA AddEventStep ==
  ASSUME ReplyInv, NEW n \in Notes, AddEvent(n)
  PROVE  ReplyInv'
<1>1. n \notin added /\ added' = added \union {n} /\ UNCHANGED <<links, reply, windows, silenced>>
  BY DEF AddEvent
<1>2. LinkInv'
  BY <1>1, LinksKeepLinkInv DEF ReplyInv
<1>3. n \in Asking => reply[n] = "none"
  BY <1>1 DEF ReplyInv, QueueInv, ReplyType
<1>4. added' \subseteq Notes /\ calls \in [Notes -> Seq(BOOLEAN)]
  BY <1>1 DEF ReplyInv, QueueInv, QueueType
<1>5. CASE n \in NoEvent /\ calls' = Call(calls, {n}, FALSE) /\ UNCHANGED <<pending, sent, via, inbox>>
  <2>1. /\ calls' \in [Notes -> Seq(BOOLEAN)]
        /\ \A m \in Notes : calls'[m] = <<>> => calls[m] = <<>>
        /\ n \in Asking => calls'[n] # <<>>
    BY <1>4, <1>5, CallType
  <2>2. QueueType'
    <3>1. pending \in Seq(added' \ Asking)
      BY <1>1, SeqMonotonic DEF ReplyInv, QueueInv, QueueType
    <3> QED
      BY <1>1, <1>4, <1>5, <2>1, <3>1 DEF ReplyInv, QueueInv, QueueType
  <2>3. ReplyType'
    BY <1>1 DEF ReplyInv, QueueInv, ReplyType
  <2>4. \A m \in Asking \intersect added' : Pursued(m)'
    BY <1>1, <1>4, <1>5, <2>1 DEF ReplyInv, QueueInv, Pursued
  <2>5. <<>> \in Seq(added') /\ DOMAIN <<>> = {} /\ Len(<<>>) = 0 /\ Arrives(<<>>)
    BY <1>5, EmptySeq DEF Arrives
  <2>6. HeldRepliesInv'
    <3>1. \A i \in 1..(Len(<<>>) - 1) : <<>>[i] \notin Asking
      BY <2>5
    <3> QED
      BY <1>1, <2>5, <3>1, ArrivesKeepsHeld DEF ReplyInv
  <2> QED
    BY <1>2, <2>2, <2>3, <2>4, <2>6 DEF ReplyInv, QueueInv
<1>6. CASE n \notin NoEvent /\ Flush(Enqueue(n), Call(calls, Dropped, FALSE))
  <2> DEFINE q == Enqueue(n)
             f == Call(calls, Dropped, FALSE)
  <2>1. /\ q \in Seq(added') /\ Len(q) \in Nat /\ Len(q) <= Capacity
        /\ ToSet(q) \subseteq added' /\ n \in ToSet(q) /\ q[Len(q)] = n /\ DOMAIN q = 1..Len(q)
        /\ \A i \in 1..(Len(q) - 1) : q[i] \notin Asking
    BY <1>1, EnqueueType DEF ReplyInv
  <2>2. f \in [Notes -> Seq(BOOLEAN)] /\ \A m \in Notes : f[m] = <<>> => calls[m] = <<>>
    BY <1>4, CallType
  <2>3. Flush(q, f)
    BY <1>6
  <2> HIDE DEF q, f
  <2>4. Flushed(q, f) /\ Arrives(q)
    BY <2>1, <2>2, <2>3, FlushFlushes
  <2>5. QueueInv'
    <3>1. \A m \in Asking : m \in added' => m \in added \/ m \in ToSet(q)
      BY <1>1, <2>1
    <3>2. \A m \in Asking \intersect added : f[m] = <<>> => calls[m] = <<>>
      BY <2>2, <1>1, <1>4
    <3> QED
      BY <1>1, <1>4, <2>1, <2>4, <3>1, <3>2, FlushedKeepsQueue
  <2>6. \A i \in DOMAIN q : q[i] \in Asking => q[i] \notin added /\ reply[q[i]] = "none"
    <3>1. \A i \in DOMAIN q : q[i] \in Asking => i = Len(q)
      BY <2>1
    <3> QED
      BY <1>1, <1>3, <2>1, <3>1
  <2>7. HeldRepliesInv'
    BY <1>1, <2>1, <2>4, <2>6, ArrivesKeepsHeld DEF ReplyInv
  <2> QED
    BY <1>2, <2>5, <2>7 DEF ReplyInv
<1> QED
  BY <1>5, <1>6 DEF AddEvent

(* The flush after a registration, and the one when a connection ends.      *)
LEMMA FlushStep ==
  ASSUME ReplyInv, Flushed(pending, calls), Arrives(pending), LinkInv',
         UNCHANGED <<added, reply, windows, silenced>>
  PROVE  ReplyInv'
<1>1. /\ pending \in Seq(added \ Asking) /\ pending \in Seq(added) /\ Len(pending) \in Nat
      /\ Len(pending) <= Capacity /\ DOMAIN pending = 1..Len(pending) /\ added \subseteq Notes
  BY SeqMonotonic, LenProperties DEF ReplyInv, QueueInv, QueueType
<1>2. \A i \in 1..Len(pending) : pending[i] \in added /\ pending[i] \notin Asking
  BY <1>1, ElementOfSeq
<1>3. ToSet(pending) \subseteq added
  BY <1>1, <1>2 DEF ToSet
<1>4. QueueInv'
  BY <1>1, <1>3, FlushedKeepsQueue
<1>5. HeldRepliesInv'
  <2>1. \A i \in 1..(Len(pending) - 1) : pending[i] \notin Asking
    BY <1>1, <1>2
  <2>2. \A i \in DOMAIN pending : pending[i] \in Asking => pending[i] \notin added /\ reply[pending[i]] = "none"
    BY <1>1, <1>2
  <2> QED
    BY <1>1, <2>1, <2>2, ArrivesKeepsHeld DEF ReplyInv
<1> QED
  BY <1>4, <1>5 DEF ReplyInv

LEMMA RegisterFlushStep ==
  ASSUME ReplyInv, NEW c \in Conns, FlushOnRegister(c)
  PROVE  ReplyInv'
<1>1. UNCHANGED <<added, conn, link, handler, runs, reply, windows, silenced>> /\ reg[c] = "handled"
      /\ reg' = [reg EXCEPT ![c] = "done"] /\ Flush(pending, calls)
  BY DEF FlushOnRegister, SetReg
<1>2. LinkInv'
  BY <1>1 DEF ReplyInv, LinkInv
<1>3. pending \in Seq(added') /\ calls \in [Notes -> Seq(BOOLEAN)]
  BY <1>1, SeqMonotonic DEF ReplyInv, QueueInv, QueueType
<1> QED
  BY <1>1, <1>2, <1>3, FlushFlushes, FlushStep

LEMMA InvalidationClearStep ==
  ASSUME ReplyInv, NEW c \in Conns, ClearOnInvalidation(c)
  PROVE  ReplyInv'
<1>1. UNCHANGED <<added, conn, reg, handler, runs, reply, windows, silenced>>
      /\ link' = [link EXCEPT ![c] = "down"] /\ ClearAll(pending, calls)
  BY DEF ClearOnInvalidation
<1>2. LinkInv'
  BY <1>1 DEF ReplyInv, LinkInv
<1>3. pending \in Seq(added') /\ calls \in [Notes -> Seq(BOOLEAN)] /\ QueueInv
  BY <1>1, SeqMonotonic DEF ReplyInv, QueueInv, QueueType
<1>4. Flushed(pending, calls) /\ Arrives(pending)
  BY <1>1, <1>3, ClearAllFlushes DEF Arrives
<1> QED
  BY <1>1, <1>2, <1>4, FlushStep

(* Registration, invalidation and the end of a connection, up to the clear. *)
LEMMA LinkSteps ==
  ASSUME ReplyInv, NEW c \in Conns,
         Resume(c) \/ Assign(c) \/ SetHandler(c) \/ Invalidated(c) \/ DropConnection(c)
  PROVE  ReplyInv'
<1>1. UNCHANGED <<queue, reply, gui>>
  BY DEF Resume, Assign, SetHandler, Invalidated, DropConnection
<1>2. QueueInv' /\ HeldRepliesInv'
  <2>1. QueueInv'
    BY <1>1 DEF queue, ReplyInv, QueueInv, QueueType, ReplyType, Pursued
  <2>2. Held' = Held
    BY <1>1 DEF gui, Held
  <2>3. AllOpen(Held)' /\ Once(Held)'
    BY <1>1, <2>2 DEF queue, ReplyInv, HeldRepliesInv, AllOpen, Open
  <2> QED
    BY <1>1, <2>1, <2>3 DEF queue, gui, ReplyInv, HeldRepliesInv
<1>3. LinkInv'
  <2>1. CASE Resume(c)
    BY <2>1, ConstantsAssumption DEF Resume, SetReg, ReplyInv, LinkInv
  <2>2. CASE Assign(c)
    BY <2>2, ConstantsAssumption DEF Assign, SetReg, ReplyInv, LinkInv
  <2>3. CASE SetHandler(c)
    BY <2>3, ConstantsAssumption DEF SetHandler, SetReg, ReplyInv, LinkInv
  <2>4. CASE Invalidated(c)
    BY <2>4, ConstantsAssumption DEF Invalidated, ReplyInv, LinkInv
  <2>5. CASE DropConnection(c)
    BY <2>5, ConstantsAssumption DEF DropConnection, ReplyInv, LinkInv
  <2> QED
    BY <2>1, <2>2, <2>3, <2>4, <2>5
<1> QED
  BY <1>2, <1>3 DEF ReplyInv

(* A GUI that exits has nothing.                                            *)
LEMMA GuiQuitsStep == ASSUME ReplyInv, NEW g \in Guis, GuiQuits(g) PROVE ReplyInv'
<1>1. /\ inbox' = [inbox EXCEPT ![g] = <<>>] /\ windows' = [windows EXCEPT ![g] = <<>>]
      /\ UNCHANGED <<queue, conn, reg, handler, runs, reply, silenced>>
      /\ link' = [c \in Conns |-> IF GuiOf[c] = g /\ link[c] = "up" THEN "broken" ELSE link[c]]
  BY DEF GuiQuits
<1>2. QueueInv'
  BY <1>1 DEF queue, ReplyInv, QueueInv, QueueType, ReplyType, Pursued
<1>3. LinkInv'
  BY <1>1 DEF ReplyInv, LinkInv
<1>4. /\ inbox' \in [Guis -> Seq(added)] /\ windows' \in [Guis -> Seq(added)] /\ added' = added
      /\ <<>> \in Seq(added)
  BY <1>1, EmptySeq DEF queue, ReplyInv, HeldRepliesInv
<1>5. \A h \in Guis : \A i \in DOMAIN Held'[h] : i \in DOMAIN Held[h] /\ Held'[h][i] = Held[h][i]
  <2> SUFFICES ASSUME NEW h \in Guis, NEW i \in DOMAIN Held'[h]
               PROVE  i \in DOMAIN Held[h] /\ Held'[h][i] = Held[h][i]
    OBVIOUS
  <2>1. CASE h = g
    <3>1. Held'[h] = <<>> \o <<>>
      BY <1>1, <1>4, <2>1 DEF Held, ReplyInv, HeldRepliesInv
    <3>2. <<>> \o <<>> = <<>>
      BY <1>4, ConcatEmptySeq
    <3> QED
      BY <3>1, <3>2
  <2>2. CASE h # g
    BY <1>1, <2>2 DEF Held, ReplyInv, HeldRepliesInv
  <2> QED
    BY <2>1, <2>2
<1>6. Once(Held)' /\ AllOpen(Held)'
  <2>1. Once(Held) /\ AllOpen(Held) /\ UNCHANGED <<added, reply>>
    BY <1>1 DEF queue, ReplyInv, HeldRepliesInv
  <2>2. Once(Held)'
    BY <1>5, <2>1 DEF Once
  <2>3. AllOpen(Held)'
    BY <1>5, <2>1 DEF AllOpen, Open
  <2> QED
    BY <2>2, <2>3
<1>7. HeldRepliesInv'
  BY <1>1, <1>4, <1>6 DEF HeldRepliesInv, ReplyInv
<1> QED
  BY <1>2, <1>3, <1>7 DEF ReplyInv

(* A reply of the GUI for a notification that it had changes nothing but    *)
(* that reply.                                                              *)
LEMMA AnsweredKeepsQueue ==
  ASSUME QueueInv, NEW n \in added, n \in Asking => Open(n),
         NEW value \in {"yes", "no"}, UserSays(n, value), UNCHANGED queue
  PROVE  QueueInv' /\ \A m \in Notes : m # n => reply'[m] = reply[m]
<1>1. n \in Notes /\ UNCHANGED <<added, pending, sent, via, calls>>
  BY DEF queue, QueueInv, QueueType
<1>2. /\ reply' = [reply EXCEPT ![n] = IF link[via[n]] # "up" THEN "done" ELSE value]
      /\ reply \in [Notes -> {"none", "yes", "no", "approve", "refuse", "done"}]
  BY DEF UserSays, QueueInv, ReplyType
<1>3. QueueType' /\ ReplyType'
  BY <1>1, <1>2 DEF QueueInv, QueueType, ReplyType
<1>4. ASSUME NEW m \in Asking \intersect added PROVE Pursued(m)'
  <2>1. CASE m = n
    BY <1>1, <2>1 DEF Open, QueueInv, Pursued
  <2>2. CASE m # n
    BY <1>1, <1>2, <1>4, <2>2 DEF QueueInv, QueueType, Pursued
  <2> QED
    BY <2>1, <2>2
<1> QED
  BY <1>1, <1>2, <1>3, <1>4 DEF QueueInv

LEMMA QueueMessageStep ==
  ASSUME ReplyInv, NEW g \in Guis, QueueMessage(g)
  PROVE  ReplyInv'
<1> DEFINE n == Head(inbox[g])
           k == Len(windows[g]) + 1
<1>1. /\ inbox[g] # <<>> /\ inbox' = [inbox EXCEPT ![g] = Tail(@)] /\ UNCHANGED <<queue, links, silenced>>
      /\ \/ UserSays(n, "no") /\ UNCHANGED windows
         \/ UNCHANGED <<reply, windows>>
         \/ windows' = [windows EXCEPT ![g] = Append(@, n)] /\ UNCHANGED reply
  BY DEF QueueMessage
<1>2. LinkInv' /\ HeldRepliesInv /\ QueueInv
  BY <1>1, LinksKeepLinkInv DEF ReplyInv
<1>3. /\ inbox[g] \in Seq(added) /\ windows[g] \in Seq(added) /\ n \in added
      /\ Tail(inbox[g]) \in Seq(added) /\ added' = added /\ inbox' \in [Guis -> Seq(added)]
  <2>1. inbox[g] \in Seq(added) /\ windows[g] \in Seq(added)
    BY <1>2 DEF HeldRepliesInv
  <2>2. n \in added /\ Tail(inbox[g]) \in Seq(added)
    BY <1>1, <2>1, HeadTailProperties
  <2> QED
    BY <1>1, <1>2, <2>1, <2>2 DEF queue, HeldRepliesInv
<1>4. CASE UNCHANGED windows /\ (UserSays(n, "no") \/ UNCHANGED reply)
  <2>1. Without(g, k) /\ k \in 1..Len(Held[g]) /\ Held[g][k] = n
    BY <1>1, <1>2, <1>4, DroppedLeaves
  <2>2. n \in Asking => Open(n)
    <3>1. k \in DOMAIN Held[g]
      BY <1>2, <2>1, HeldType
    <3> QED
      BY <1>2, <2>1, <3>1 DEF HeldRepliesInv, AllOpen
  <2>3. QueueInv' /\ \A m \in Notes : m # n => reply'[m] = reply[m]
    <3>1. CASE UserSays(n, "no")
      BY <1>1, <1>2, <1>3, <2>2, <3>1, AnsweredKeepsQueue
    <3>2. CASE UNCHANGED reply
      BY <1>1, <1>2, <3>2 DEF queue, QueueInv, QueueType, ReplyType, Pursued
    <3> QED
      BY <1>4, <3>1, <3>2
  <2> HIDE DEF n, k
  <2>4. Once(Held)' /\ AllOpen(Held)'
    <3>1. \A m \in Asking : m # Held[g][k] => reply'[m] = reply[m]
      BY <2>1, <2>3, ConstantsAssumption
    <3> QED
      BY <1>2, <1>3, <2>1, <3>1, AllOpenWithout
  <2> QED
    BY <1>1, <1>2, <1>3, <1>4, <2>3, <2>4 DEF ReplyInv, HeldRepliesInv
<1>5. CASE windows' = [windows EXCEPT ![g] = Append(@, n)] /\ UNCHANGED reply
  <2>1. Held' = Held
    BY <1>1, <1>2, <1>5, MovedIsHeld
  <2>2. QueueInv'
    BY <1>1, <1>2, <1>5 DEF queue, QueueInv, QueueType, ReplyType, Pursued
  <2>3. Once(Held)' /\ AllOpen(Held)'
    BY <1>2, <1>3, <1>5, <2>1 DEF HeldRepliesInv, AllOpen, Open
  <2>4. Append(windows[g], n) \in Seq(added)
    BY <1>3, AppendProperties
  <2> QED
    BY <1>1, <1>2, <1>3, <1>5, <2>2, <2>3, <2>4 DEF ReplyInv, HeldRepliesInv
<1> QED
  BY <1>1, <1>4, <1>5

LEMMA CloseWindowStep ==
  ASSUME ReplyInv, NEW g \in Guis, CloseWindow(g)
  PROVE  ReplyInv'
<1> DEFINE n == Head(windows[g])
<1>1. /\ windows[g] # <<>> /\ windows' = [windows EXCEPT ![g] = Tail(@)]
      /\ UNCHANGED <<queue, links, inbox>>
      /\ \E value \in {"yes", "no"} : UserSays(n, value)
      /\ silenced' = silenced \/ silenced' = [silenced EXCEPT ![g] = @ \union {HashOf[n]}]
  BY DEF CloseWindow
<1>2. LinkInv' /\ HeldRepliesInv /\ QueueInv
  BY <1>1, LinksKeepLinkInv DEF ReplyInv
<1>3. n \in added /\ added' = added /\ windows' \in [Guis -> Seq(added)] /\ n \in Notes
  <2>1. windows[g] \in Seq(added)
    BY <1>2 DEF HeldRepliesInv
  <2>2. n \in added /\ Tail(windows[g]) \in Seq(added)
    BY <1>1, <2>1, HeadTailProperties
  <2> QED
    BY <1>1, <1>2, <2>1, <2>2 DEF queue, HeldRepliesInv, QueueInv, QueueType
<1>4. silenced' \in [Guis -> SUBSET Hashes]
  <2>1. HashOf[n] \in Hashes
    BY <1>3 DEF Hashes
  <2>2. silenced \in [Guis -> SUBSET Hashes]
    BY <1>2 DEF HeldRepliesInv
  <2> HIDE DEF n
  <2> QED
    BY <1>1, <2>1, <2>2
<1>5. Without(g, 1) /\ 1 \in 1..Len(Held[g]) /\ Held[g][1] = n
  BY <1>1, <1>2, ClosedLeaves
<1>6. n \in Asking => Open(n)
  <2>1. 1 \in DOMAIN Held[g]
    BY <1>2, <1>5, HeldType
  <2> QED
    BY <1>2, <1>5, <2>1 DEF HeldRepliesInv, AllOpen
<1>7. QueueInv' /\ \A m \in Notes : m # n => reply'[m] = reply[m]
  BY <1>1, <1>2, <1>3, <1>6, AnsweredKeepsQueue
<1> HIDE DEF n
<1>8. Once(Held)' /\ AllOpen(Held)'
  <2>1. \A m \in Asking : m # Held[g][1] => reply'[m] = reply[m]
    BY <1>5, <1>7, ConstantsAssumption
  <2> QED
    BY <1>2, <1>3, <1>5, <2>1, AllOpenWithout
<1> QED
  BY <1>1, <1>2, <1>3, <1>4, <1>7, <1>8 DEF ReplyInv, HeldRepliesInv

LEMMA SilenceExpiresStep == ASSUME ReplyInv, NEW g \in Guis, SilenceExpires(g) PROVE ReplyInv'
<1>1. /\ UNCHANGED <<queue, links, reply, inbox, windows>>
      /\ \E h \in silenced[g] : silenced' = [silenced EXCEPT ![g] = @ \ {h}]
  BY DEF SilenceExpires
<1>2. LinkInv' /\ QueueInv'
  BY <1>1, LinksKeepLinkInv DEF queue, ReplyInv, QueueInv, QueueType, ReplyType, Pursued
<1>3. silenced' \in [Guis -> SUBSET Hashes]
  BY <1>1 DEF ReplyInv, HeldRepliesInv
<1>4. Held' = Held
  BY <1>1 DEF Held
<1>5. HeldRepliesInv'
  BY <1>1, <1>3, <1>4 DEF queue, ReplyInv, HeldRepliesInv, AllOpen, Open
<1> QED
  BY <1>2, <1>5 DEF ReplyInv

(* The wrapped reply block: between its two steps the answer is on its way. *)
LEMMA WrappedStep ==
  ASSUME ReplyInv, NEW n \in Notes, Wrapped(n)
  PROVE  ReplyInv'
<1>1. /\ UNCHANGED <<added, pending, via, links, gui>>
      /\ \E r \in {"approve", "refuse", "done"} : reply' = [reply EXCEPT ![n] = r]
      /\ reply[n] # "none" /\ sent' \subseteq sent
  BY DEF Wrapped, Forget, CallReply
<1>2. LinkInv'
  BY <1>1, LinksKeepLinkInv DEF ReplyInv
<1>3. /\ reply' \in [Notes -> {"none", "yes", "no", "approve", "refuse", "done"}]
      /\ \A m \in Notes : m # n => reply'[m] = reply[m]
  BY <1>1 DEF ReplyInv, QueueInv, ReplyType
<1>4. n \in Asking => n \in added
  BY <1>1 DEF ReplyInv, QueueInv, ReplyType
<1>5. ReplyType'
  BY <1>1, <1>3, <1>4, ConstantsAssumption DEF ReplyInv, QueueInv, ReplyType
<1>6. HeldRepliesInv'
  <2>1. Held' = Held
    BY <1>1 DEF gui, Held
  <2>2. AllOpen(Held)'
    <3> SUFFICES ASSUME NEW g \in Guis, NEW i \in DOMAIN Held[g], Held[g][i] \in Asking
                 PROVE  Held[g][i] \in added /\ reply'[Held[g][i]] = "none"
      BY <1>1, <2>1 DEF AllOpen, Open
    <3>1. Open(Held[g][i])
      BY DEF ReplyInv, HeldRepliesInv, AllOpen
    <3> QED
      BY <1>1, <1>3, <3>1, ConstantsAssumption DEF Open
  <2>3. Once(Held)'
    BY <2>1 DEF ReplyInv, HeldRepliesInv
  <2> QED
    BY <1>1, <2>2, <2>3 DEF gui, ReplyInv, HeldRepliesInv
<1>7. QueueType' /\ \A m \in Asking \intersect added : Pursued(m)'
  <2>1. CASE Forget(n)
    <3>1. sent' = sent \ {n} /\ calls' = calls /\ reply'[n] \in {"approve", "refuse"}
      BY <2>1 DEF Forget, ReplyInv, QueueInv, ReplyType
    <3> QED
      BY <1>1, <1>3, <3>1 DEF ReplyInv, QueueInv, QueueType, Pursued
  <2>2. CASE CallReply(n)
    <3> DEFINE approved == reply[n] = "approve"
    <3>1. sent' = sent /\ calls' = Call(calls, {n}, approved) /\ approved \in BOOLEAN
      BY <2>2 DEF CallReply
    <3>2. calls \in [Notes -> Seq(BOOLEAN)]
      BY DEF ReplyInv, QueueInv, QueueType
    <3> HIDE DEF approved
    <3>3. /\ calls' \in [Notes -> Seq(BOOLEAN)]
          /\ \A m \in Notes : calls'[m] = <<>> => calls[m] = <<>>
          /\ n \in Asking => calls'[n] # <<>>
      <4>1. ASSUME NEW v \in BOOLEAN, NEW c, c = Call(calls, {n}, v)
            PROVE  /\ c \in [Notes -> Seq(BOOLEAN)]
                   /\ \A m \in Notes : c[m] = <<>> => calls[m] = <<>>
                   /\ n \in Asking => c[n] # <<>>
        <5>1. /\ Call(calls, {n}, v) \in [Notes -> Seq(BOOLEAN)]
              /\ \A m \in Notes : Call(calls, {n}, v)[m] = <<>> => calls[m] = <<>>
              /\ \A m \in Notes : m \in {n} /\ m \in Asking => Call(calls, {n}, v)[m] # <<>>
          BY <3>2, CallType, Zenon
        <5> QED
          BY <4>1, <5>1
      <4> QED
        BY <3>1, <4>1, Zenon
    <3> QED
      BY <1>1, <1>3, <3>1, <3>3 DEF ReplyInv, QueueInv, QueueType, Pursued
  <2> QED
    BY <2>1, <2>2 DEF Wrapped
<1> QED
  BY <1>1, <1>2, <1>5, <1>6, <1>7 DEF ReplyInv, QueueInv

LEMMA StutterStep == ASSUME ReplyInv, UNCHANGED queueVars PROVE ReplyInv'
<1>1. UNCHANGED <<queue, links, reply, gui>>
  BY DEF queueVars
<1>2. LinkInv' /\ QueueInv'
  BY <1>1, LinksKeepLinkInv DEF queue, ReplyInv, QueueInv, QueueType, ReplyType, Pursued
<1>3. Held' = Held
  BY <1>1 DEF gui, Held
<1>4. HeldRepliesInv'
  BY <1>1, <1>3 DEF queue, gui, ReplyInv, HeldRepliesInv, AllOpen, Open
<1> QED
  BY <1>2, <1>4 DEF ReplyInv

LEMMA ReplyInvStep == ReplyInv /\ [QueueNext]_queueVars => ReplyInv'
<1> SUFFICES ASSUME ReplyInv, [QueueNext]_queueVars PROVE ReplyInv'
  OBVIOUS
<1>1. ASSUME NEW n \in Notes, AddEvent(n) \/ Wrapped(n) PROVE ReplyInv'
  BY <1>1, AddEventStep, WrappedStep
<1>2. ASSUME NEW c \in Conns, Resume(c) \/ Daemon(c) PROVE ReplyInv'
  BY <1>2, LinkSteps, RegisterFlushStep, InvalidationClearStep DEF Daemon
<1>3. ASSUME NEW g \in Guis, GuiQuits(g) \/ QueueMessage(g) \/ CloseWindow(g) \/ SilenceExpires(g)
      PROVE  ReplyInv'
  BY <1>3, GuiQuitsStep, QueueMessageStep, CloseWindowStep, SilenceExpiresStep
<1>4. CASE QueueQuiet \/ UNCHANGED queueVars
  BY <1>4, StutterStep DEF QueueQuiet
<1> QED
  BY <1>1, <1>2, <1>3, <1>4 DEF QueueNext

(* Every variable has its type; the ring buffer stays within its capacity   *)
(* (RingBuffer.h), holds nothing that was sent already, and nobody knows a  *)
(* notification that was not added.                                         *)
THEOREM NotificationTypes == QueueSpec => []QueueTypeOK
<1>1. ReplyInv => QueueTypeOK
  <2> SUFFICES ASSUME ReplyInv PROVE QueueTypeOK
    OBVIOUS
  <2>1. pending \in Seq(added) /\ DOMAIN <<>> = {}
    BY SeqMonotonic, EmptySeq DEF ReplyInv, QueueInv, QueueType
  <2>2. ToSet(pending) \intersect sent = {}
    BY <2>1 DEF ToSet, ReplyInv, QueueInv, QueueType
  <2> QED
    BY <2>1, <2>2 DEF QueueTypeOK, ReplyInv, QueueInv, QueueType, ReplyType, LinkInv, HeldRepliesInv
<1> QED
  BY ReplyInvInit, ReplyInvStep, <1>1, PTL DEF QueueSpec

(* Somebody still has to call the reply block of every held process whose   *)
(* block was not called: it is on its way back (the wrapped block of        *)
(* flushQueueSerialized) or remembered in sentToUser, and then the end of   *)
(* the current connection will answer, because setNotifierConnection sets   *)
(* the handler of whatever the connection is by then.                       *)
THEOREM NoReplyIsLost == QueueSpec => []NoReplyLost
<1>1. ReplyInv => NoReplyLost
  <2> SUFFICES ASSUME ReplyInv, NEW n \in Asking \intersect added, calls[n] = <<>>,
                      reply[n] \notin {"approve", "refuse"}
               PROVE  n \in sent /\ Watched
    BY DEF NoReplyLost
  <2>1. n \in sent
    BY DEF ReplyInv, QueueInv, Pursued
  <2>2. Watched
    BY ConstantsAssumption DEF ReplyInv, LinkInv, Watched, Registering
  <2> QED
    BY <2>1, <2>2
<1> QED
  BY ReplyInvInit, ReplyInvStep, <1>1, PTL DEF QueueSpec
=============================================================================
