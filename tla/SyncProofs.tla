----------------------------- MODULE SyncProofs -----------------------------
(* Proofs about Sync and the settings it shares with santad, for any        *)
(* settings, profiles, events and bounds: the places of the limiter, the    *)
(* events, what survives a crash, and the cleaning a user asked for.        *)
EXTENDS Sync, FiniteSetTheorems, SequenceTheorems, TLAPS

Jobs == [kind : {"full", "rule"}, type : SyncTypes]

Values == {None, "now", "Lockdown", "expression", "^expression", "yes"} \cup SyncTypes

Updates == {u \in [key : Keys, value : Values] : u.key = "SyncTypeRequired" => u.value \in SyncTypes}

Settings == {state \in [Keys -> Values] : state["SyncTypeRequired"] \in SyncTypes \cup {None}}

ServiceType ==
  /\ limiter \in Nat /\ leaked \in Nat
  /\ jobs \in Seq(Jobs)
  /\ run \in [Threads -> Runs]
  /\ made \subseteq Events /\ db \subseteq Events

-----------------------------------------------------------------------------
(* How many blocks of a queue are full syncs.                               *)
FullIn(q) == {i \in DOMAIN q : q[i].kind = "full"}

LEMMA FullFinite ==
  ASSUME NEW S, NEW q \in Seq(S)
  PROVE  IsFiniteSet(FullIn(q)) /\ Cardinality(FullIn(q)) \in Nat /\ FullIn(q) \subseteq 1..Len(q)
<1>1. DOMAIN q = 1..Len(q) /\ Len(q) \in Nat
  BY LenProperties
<1>2. FullIn(q) \subseteq 1..Len(q)
  BY <1>1 DEF FullIn
<1>3. IsFiniteSet(1..Len(q))
  BY <1>1, FS_Interval
<1> QED
  BY <1>2, <1>3, FS_Subset, FS_CardinalityType

LEMMA FullAppend ==
  ASSUME NEW q \in Seq(Jobs), NEW j \in Jobs
  PROVE  Cardinality(FullIn(Append(q, j))) = Cardinality(FullIn(q)) + (IF j.kind = "full" THEN 1 ELSE 0)
<1> DEFINE n == Len(q) + 1
<1>1. /\ DOMAIN q = 1..Len(q) /\ Len(q) \in Nat /\ DOMAIN Append(q, j) = 1..n
      /\ \A i \in 1..Len(q) : Append(q, j)[i] = q[i]
      /\ Append(q, j)[n] = j
  BY LenProperties, AppendProperties
<1>2. IsFiniteSet(FullIn(q)) /\ Cardinality(FullIn(q)) \in Nat /\ FullIn(q) \subseteq 1..Len(q)
  BY FullFinite
<1>3. CASE j.kind = "full"
  <2>1. FullIn(Append(q, j)) = FullIn(q) \cup {n}
    BY <1>1, <1>3 DEF FullIn
  <2>2. n \notin FullIn(q)
    BY <1>1, <1>2
  <2> QED
    BY <1>2, <1>3, <2>1, <2>2, FS_AddElement
<1>4. CASE j.kind # "full"
  <2>1. FullIn(Append(q, j)) = FullIn(q)
    BY <1>1, <1>4 DEF FullIn
  <2> QED
    BY <1>2, <1>4, <2>1
<1> QED
  BY <1>3, <1>4

LEMMA FullTail ==
  ASSUME NEW q \in Seq(Jobs), q # <<>>
  PROVE  Cardinality(FullIn(Tail(q))) = Cardinality(FullIn(q)) - (IF Head(q).kind = "full" THEN 1 ELSE 0)
<1>1. /\ DOMAIN q = 1..Len(q) /\ Len(q) \in Nat \ {0} /\ Head(q) = q[1] /\ Tail(q) \in Seq(Jobs)
      /\ DOMAIN Tail(q) = 1..(Len(q) - 1)
      /\ \A i \in 1..(Len(q) - 1) : Tail(q)[i] = q[i + 1]
  BY LenProperties, HeadTailProperties, EmptySeq
<1>2. /\ IsFiniteSet(FullIn(q)) /\ Cardinality(FullIn(q)) \in Nat
      /\ IsFiniteSet(FullIn(Tail(q))) /\ Cardinality(FullIn(Tail(q))) \in Nat
  BY <1>1, FullFinite
<1> DEFINE later == FullIn(q) \ {1}
           shift == [i \in FullIn(Tail(q)) |-> i + 1]
<1>3. Cardinality(later) = Cardinality(FullIn(Tail(q)))
  <2>1. \A i \in FullIn(Tail(q)) : i \in Nat /\ i + 1 \in later
    BY <1>1 DEF FullIn
  <2>2. \A k \in later : k - 1 \in FullIn(Tail(q)) /\ k - 1 + 1 = k
    BY <1>1 DEF FullIn
  <2>3. shift \in [FullIn(Tail(q)) -> later]
    BY <2>1
  <2>4. \A a, b \in FullIn(Tail(q)) : shift[a] = shift[b] => a = b
    BY <2>1
  <2>5. \A k \in later : \E i \in FullIn(Tail(q)) : shift[i] = k
    BY <2>2
  <2> HIDE DEF shift, later
  <2>6. shift \in Bijection(FullIn(Tail(q)), later)
    BY <2>3, <2>4, <2>5 DEF Bijection, Injection, IsInjective, Surjection
  <2> QED
    BY <1>2, <2>6, FS_Bijection DEF ExistsBijection
<1>4. CASE q[1].kind = "full"
  <2>1. 1 \in FullIn(q)
    BY <1>1, <1>4 DEF FullIn
  <2>2. Cardinality(later) = Cardinality(FullIn(q)) - 1
    BY <1>2, <2>1, FS_RemoveElement
  <2> QED
    BY <1>1, <1>3, <1>4, <2>2
<1>5. CASE q[1].kind # "full"
  <2>1. later = FullIn(q)
    BY <1>5 DEF FullIn
  <2>2. Cardinality(FullIn(Tail(q))) = Cardinality(FullIn(q)) /\ Head(q).kind # "full"
    BY <1>1, <1>3, <1>5, <2>1
  <2> HIDE DEF later
  <2> QED
    BY <1>2, <2>2
<1> QED
  BY <1>4, <1>5

(* How many threads run a full sync.                                        *)
FullRuns(r) == {t \in Threads : r[t].kind = "full"}

Fulls(r) == (IF r["syncQueue"].kind = "full" THEN 1 ELSE 0) + (IF r["push"].kind = "full" THEN 1 ELSE 0)

LEMMA FullRunsCount ==
  ASSUME NEW r
  PROVE  Cardinality(FullRuns(r)) = Fulls(r)
<1>1. CASE r["syncQueue"].kind = "full" /\ r["push"].kind = "full"
  <2>1. FullRuns(r) = {"syncQueue"} \cup {"push"}
    BY <1>1 DEF FullRuns, Threads
  <2>2. IsFiniteSet({"syncQueue"}) /\ Cardinality({"syncQueue"}) = 1 /\ "push" \notin {"syncQueue"}
    BY FS_Singleton
  <2>3. Cardinality(FullRuns(r)) = 2
    BY <2>1, <2>2, FS_AddElement
  <2> QED
    BY <1>1, <2>3 DEF Fulls
<1>2. CASE r["syncQueue"].kind = "full" /\ r["push"].kind # "full"
  <2>1. FullRuns(r) = {"syncQueue"}
    BY <1>2 DEF FullRuns, Threads
  <2> QED
    BY <1>2, <2>1, FS_Singleton DEF Fulls
<1>3. CASE r["syncQueue"].kind # "full" /\ r["push"].kind = "full"
  <2>1. FullRuns(r) = {"push"}
    BY <1>3 DEF FullRuns, Threads
  <2>2. Cardinality({"push"}) = 1
    BY FS_Singleton
  <2> QED
    BY <1>3, <2>1, <2>2 DEF Fulls
<1>4. CASE r["syncQueue"].kind # "full" /\ r["push"].kind # "full"
  <2>1. FullRuns(r) = {}
    BY <1>4 DEF FullRuns, Threads
  <2> QED
    BY <1>4, <2>1, FS_EmptySet DEF Fulls
<1> QED
  BY <1>1, <1>2, <1>3, <1>4

-----------------------------------------------------------------------------
(* What a step does to the syncs.                                           *)
Accepted ==
  \E type \in SyncTypes :
    /\ limiter > 0 /\ limiter' = limiter - 1
    /\ jobs' = Append(jobs, [kind |-> "full", type |-> type])
    /\ UNCHANGED <<run, leaked>>

RuleQueued ==
  jobs' = Append(jobs, [kind |-> "rule", type |-> "Normal"]) /\ UNCHANGED <<limiter, run, leaked>>

Pushed ==
  \E kind \in {"push", "preflight"} :
    /\ run["push"] = Idle
    /\ run' = [run EXCEPT !["push"] = [Idle EXCEPT !.kind = kind, !.stage = "preflight"]]
    /\ UNCHANGED <<limiter, jobs, leaked>>

Ended == \E t \in Threads : End(t) /\ UNCHANGED <<jobs, leaked>>

Advanced ==
  \E t \in Threads, r \in Runs :
    r.kind = run[t].kind /\ run' = [run EXCEPT ![t] = r] /\ UNCHANGED <<limiter, jobs, leaked>>

LEMMA StageSteps ==
  ASSUME ServiceType, NEW t \in Threads, Stage(t)
  PROVE  (Ended \/ Advanced) /\ made' \subseteq Events /\ db' \subseteq Events
<1>1. run \in [Threads -> Runs] /\ run[t] \in Runs /\ db \subseteq Events /\ made \subseteq Events
  BY DEF ServiceType
<1>2. CASE Abort(t)
  BY <1>1, <1>2 DEF Abort, Ended, eventVars
<1>3. CASE ReadPending(t)
  <2> DEFINE r == [run[t] EXCEPT !.stage = AfterUpload(db), !.events = db]
  <2>1. r \in Runs /\ r.kind = run[t].kind
    BY <1>1 DEF Runs, AfterUpload
  <2>2. run' = [run EXCEPT ![t] = r] /\ UNCHANGED <<limiter, jobs, leaked, made, db>>
    BY <1>1, <1>3 DEF ReadPending, eventVars
  <2> QED
    BY <1>1, <2>1, <2>2 DEF Advanced
<1>4. CASE UploadBatch(t)
  <2>1. PICK e \in run[t].events :
          /\ \/ run' = [run EXCEPT ![t].events = @ \ {e}, ![t].stage = AfterUpload(run[t].events \ {e})]
             \/ run' = [run EXCEPT ![t].events = {}, ![t].stage = "download"]
          /\ db' \in {db, db \ {e}}
          /\ UNCHANGED <<limiter, jobs, leaked, made>>
    BY <1>4 DEF UploadBatch
  <2> DEFINE r == [run[t] EXCEPT !.events = @ \ {e}, !.stage = AfterUpload(run[t].events \ {e})]
             f == [run[t] EXCEPT !.events = {}, !.stage = "download"]
  <2>2. r \in Runs /\ r.kind = run[t].kind /\ f \in Runs /\ f.kind = run[t].kind
    BY <1>1 DEF Runs, AfterUpload
  <2>3. run' = [run EXCEPT ![t] = r] \/ run' = [run EXCEPT ![t] = f]
    BY <1>1, <2>1
  <2> QED
    BY <1>1, <2>1, <2>2, <2>3 DEF Advanced
<1>5. CASE AddRules(t)
  <2>1. \/ End(t)
        \/ run' = [run EXCEPT ![t].stage = "postflight", ![t].added = TRUE] /\ UNCHANGED limiter
    BY <1>5 DEF AddRules
  <2>2. UNCHANGED <<jobs, leaked, made, db>>
    BY <1>5 DEF AddRules, eventVars
  <2> DEFINE r == [run[t] EXCEPT !.stage = "postflight", !.added = TRUE]
  <2>3. r \in Runs /\ r.kind = run[t].kind
    BY <1>1 DEF Runs
  <2>4. End(t) \/ (run' = [run EXCEPT ![t] = r] /\ UNCHANGED limiter)
    BY <1>1, <2>1
  <2> QED
    BY <1>1, <2>2, <2>3, <2>4 DEF Advanced, Ended
<1>6. CASE Postflight(t)
  BY <1>1, <1>6 DEF Postflight, Ended, eventVars
<1>7. ASSUME NEW answer \in SyncTypes, Preflight(t, answer)
      PROVE  (Ended \/ Advanced) /\ made' \subseteq Events /\ db' \subseteq Events
  <2>1. UNCHANGED <<jobs, leaked, made, db>>
    BY <1>7 DEF Preflight, eventVars
  <2> DEFINE type == PerformedType(syncTypeRequired, answer)
             now == type # "Normal" /\ ~TypePending
             r == [run[t] EXCEPT !.stage = "upload", !.syncType = type, !.current = now]
  <2>2. End(t) \/ (run' = [run EXCEPT ![t].stage = "upload", ![t].syncType = type, ![t].current = now]
                   /\ UNCHANGED limiter)
    BY <1>7 DEF Preflight
  <2>3. type \in SyncTypes /\ now \in BOOLEAN
    BY DEF PerformedType, SyncTypes
  <2> HIDE DEF type, now
  <2>4. r \in Runs /\ r.kind = run[t].kind
    BY <1>1, <2>3 DEF Runs
  <2>5. End(t) \/ (run' = [run EXCEPT ![t] = r] /\ UNCHANGED limiter)
    BY <1>1, <2>2
  <2> QED
    BY <1>1, <2>1, <2>4, <2>5 DEF Advanced, Ended
<1>8. ASSUME NEW some \in BOOLEAN, Download(t, some)
      PROVE  (Ended \/ Advanced) /\ made' \subseteq Events /\ db' \subseteq Events
  <2>1. UNCHANGED <<jobs, leaked, made, db>>
    BY <1>8 DEF Download, eventVars
  <2>2. End(t) \/ \E stage \in {"add", "postflight"} : Go(t, stage) /\ UNCHANGED limiter
    BY <1>8 DEF Download
  <2>3. ASSUME NEW stage \in {"add", "postflight"}, Go(t, stage), UNCHANGED limiter PROVE Advanced
    <3> DEFINE r == [run[t] EXCEPT !.stage = stage]
    <3>1. r \in Runs /\ r.kind = run[t].kind
      BY <1>1 DEF Runs
    <3>2. run' = [run EXCEPT ![t] = r]
      BY <1>1, <2>3 DEF Go
    <3> QED
      BY <2>1, <2>3, <3>1, <3>2 DEF Advanced
  <2> QED
    BY <1>1, <2>1, <2>2, <2>3 DEF Ended
<1> QED
  BY <1>2, <1>3, <1>4, <1>5, <1>6, <1>7, <1>8 DEF Stage

LEMMA SyncSteps ==
  ASSUME ServiceType, [Next]_vars
  PROVE  /\ \/ ServiceStart \/ Accepted \/ RuleQueued \/ Pushed \/ StartJob \/ Ended \/ Advanced
            \/ UNCHANGED <<limiter, jobs, run, leaked>>
         /\ made' \subseteq Events /\ db' \subseteq Events
<1>1. CASE Daemon
  <2>1. made' = made /\ db' = db
    BY <1>1 DEF Daemon, Bounce, Establish, TearDown, Clear, Install, MainQueueRuns, NoticeProfile,
                SantadCrash, ServiceCrash, TokenExpires, eventVars
  <2>2. ServiceStart \/ UNCHANGED <<limiter, jobs, run, leaked>>
    BY <1>1 DEF Daemon, Bounce, Establish, TearDown, Clear, Install, MainQueueRuns, NoticeProfile,
                SantadCrash, ServiceCrash, TokenExpires, Disconnect, serviceVars
  <2> QED
    BY <2>1, <2>2 DEF ServiceType
<1>2. ASSUME NEW e \in Events, AddStoredEvent(e) \/ PostEvents(e)
      PROVE  UNCHANGED <<limiter, jobs, run, leaked>> /\ made' \subseteq Events /\ db' \subseteq Events
  BY <1>2 DEF AddStoredEvent, PostEvents, serviceVars, ServiceType
<1>3. ASSUME FullSyncTimer \/ \E type \in {"Clean", "CleanAll"} : UserSync(type)
      PROVE  (Accepted \/ UNCHANGED <<limiter, jobs, run, leaked>>) /\ UNCHANGED <<made, db>>
  <2>1. PICK type \in SyncTypes : AcceptSync(type) /\ UNCHANGED <<run, leaked, made, db>>
    BY <1>3 DEF FullSyncTimer, UserSync, SyncTypes, eventVars
  <2> QED
    BY <2>1 DEF AcceptSync, Accepted, ServiceType
<1>4. CASE RuleSyncTimer
  BY <1>4 DEF RuleSyncTimer, RuleQueued, eventVars, ServiceType
<1>5. CASE StartJob
  BY <1>5 DEF StartJob, eventVars, ServiceType
<1>6. ASSUME NEW kind \in {"rule", "push", "preflight"}, PushNotification(kind)
      PROVE  (Pushed \/ UNCHANGED <<limiter, jobs, run, leaked>>) /\ UNCHANGED <<made, db>>
  BY <1>6 DEF PushNotification, Pushed, eventVars
<1>7. CASE UNCHANGED vars
  BY <1>7 DEF vars, serviceVars, eventVars, ServiceType
<1> QED
  BY <1>1, <1>2, <1>3, <1>4, <1>5, <1>6, <1>7, StageSteps DEF Next, ServiceType

-----------------------------------------------------------------------------
(* The places of the limiter.                                               *)
Places == limiter + leaked + Cardinality(FullIn(jobs)) + Fulls(run)

PermitInv == ServiceType /\ Places = kMaxEnqueuedSyncs

LEMMA IdleIsRun == Idle \in Runs /\ Idle.kind = "none" /\ Idle.current = FALSE /\ Idle.added = FALSE
BY DEF Idle, Runs, SyncTypes

LEMMA FullsOf ==
  ASSUME NEW r \in [Threads -> Runs], NEW t \in Threads, NEW s \in Runs
  PROVE  /\ [r EXCEPT ![t] = s] \in [Threads -> Runs]
         /\ Fulls(r) \in Nat
         /\ Fulls([r EXCEPT ![t] = s]) = Fulls(r) + (IF s.kind = "full" THEN 1 ELSE 0)
                                          - (IF r[t].kind = "full" THEN 1 ELSE 0)
<1>1. t \in {"syncQueue", "push"} /\ Threads = {"syncQueue", "push"}
  BY DEF Threads
<1>2. [r EXCEPT ![t] = s] \in [Threads -> Runs]
  OBVIOUS
<1>3. CASE t = "syncQueue"
  <2>1. [r EXCEPT ![t] = s]["syncQueue"] = s /\ [r EXCEPT ![t] = s]["push"] = r["push"]
    BY <1>1, <1>3
  <2> QED
    BY <1>2, <1>3, <2>1 DEF Fulls
<1>4. CASE t = "push"
  <2>1. [r EXCEPT ![t] = s]["push"] = s /\ [r EXCEPT ![t] = s]["syncQueue"] = r["syncQueue"]
    BY <1>1, <1>4
  <2> QED
    BY <1>2, <1>4, <2>1 DEF Fulls
<1> QED
  BY <1>1, <1>3, <1>4

LEMMA StartedEmpty ==
  ASSUME ServiceStart, made' \subseteq Events, db' \subseteq Events
  PROVE  PermitInv'
<1>1. /\ limiter' = 2 /\ leaked' = 0 /\ jobs' = <<>> /\ run' = [t \in Threads |-> Idle]
  BY DEF ServiceStart, kMaxEnqueuedSyncs
<1>2. ServiceType'
  BY <1>1, IdleIsRun DEF ServiceType
<1>3. Fulls(run)' = 0
  BY <1>1, IdleIsRun DEF Fulls, Threads
<1>4. Cardinality(FullIn(jobs))' = 0
  <2>1. FullIn(jobs)' = {}
    BY <1>1 DEF FullIn
  <2> QED
    BY <2>1, FS_EmptySet
<1> QED
  BY <1>1, <1>2, <1>3, <1>4 DEF PermitInv, Places, kMaxEnqueuedSyncs

(* A block of the queue starts: it takes its place along, or gives it back, *)
(* or leaves it behind.                                                     *)
LEMMA StartJobCounts ==
  ASSUME ServiceType, StartJob
  PROVE  /\ limiter' \in Nat /\ leaked' \in Nat /\ jobs' \in Seq(Jobs) /\ run' \in [Threads -> Runs]
         /\ limiter' + leaked' + Fulls(run)' =
              limiter + leaked + Fulls(run) + (IF Head(jobs).kind = "full" THEN 1 ELSE 0)
         /\ jobs # <<>> /\ jobs' = Tail(jobs)
<1>1. /\ jobs # <<>> /\ jobs' = Tail(jobs) /\ run["syncQueue"] = Idle /\ run \in [Threads -> Runs]
      /\ limiter \in Nat /\ leaked \in Nat
  BY DEF StartJob, ServiceType
<1>2. Head(jobs) \in Jobs /\ Tail(jobs) \in Seq(Jobs)
  BY <1>1, HeadTailProperties DEF ServiceType
<1> DEFINE job == Head(jobs)
           others == IF job.type = "Normal" THEN run ELSE Unseen
           next == [Idle EXCEPT !.kind = job.kind, !.stage = IF job.kind = "rule" THEN "download" ELSE "preflight"]
<1>3. \/ job.kind = "full" /\ leaked' = leaked + 1 /\ run' = others /\ UNCHANGED limiter
      \/ run' = [others EXCEPT !["syncQueue"] = next] /\ UNCHANGED <<limiter, leaked>>
      \/ run' = others /\ limiter' = (IF job.kind = "full" THEN limiter + 1 ELSE limiter) /\ UNCHANGED leaked
  BY DEF StartJob
<1>4. others \in [Threads -> Runs] /\ Fulls(others) = Fulls(run) /\ others["syncQueue"].kind = "none"
  <2>1. \A t \in Threads : [run[t] EXCEPT !.current = FALSE] \in Runs /\ [run[t] EXCEPT !.current = FALSE].kind = run[t].kind
    BY <1>1 DEF Runs
  <2>2. Unseen \in [Threads -> Runs] /\ \A t \in Threads : Unseen[t].kind = run[t].kind
    BY <2>1 DEF Unseen
  <2>3. "syncQueue" \in Threads /\ "push" \in Threads
    BY DEF Threads
  <2>4. others \in {run, Unseen}
    OBVIOUS
  <2> HIDE DEF others
  <2>5. others \in [Threads -> Runs] /\ \A t \in Threads : others[t].kind = run[t].kind
    BY <1>1, <2>2, <2>4
  <2> QED
    BY <1>1, <2>3, <2>5, IdleIsRun DEF Fulls
<1>5. next \in Runs /\ next.kind = job.kind
  BY <1>2, IdleIsRun DEF Jobs, Runs
<1>6. "syncQueue" \in Threads
  BY DEF Threads
<1> HIDE DEF others, next
<1>7. /\ [others EXCEPT !["syncQueue"] = next] \in [Threads -> Runs]
      /\ Fulls(run) \in Nat
      /\ Fulls([others EXCEPT !["syncQueue"] = next]) = Fulls(run) + (IF job.kind = "full" THEN 1 ELSE 0)
  <2>1. Fulls(others) \in Nat
    BY <1>4, <1>5, <1>6, FullsOf
  <2>2. /\ [others EXCEPT !["syncQueue"] = next] \in [Threads -> Runs]
        /\ Fulls([others EXCEPT !["syncQueue"] = next])
             = Fulls(others) + (IF next.kind = "full" THEN 1 ELSE 0)
                             - (IF others["syncQueue"].kind = "full" THEN 1 ELSE 0)
    BY <1>4, <1>5, <1>6, FullsOf
  <2> QED
    BY <1>4, <1>5, <2>1, <2>2
<1>8. /\ limiter' \in Nat /\ leaked' \in Nat /\ run' \in [Threads -> Runs]
      /\ limiter' + leaked' + Fulls(run') = limiter + leaked + Fulls(run) + (IF job.kind = "full" THEN 1 ELSE 0)
  <2>1. CASE job.kind = "full" /\ leaked' = leaked + 1 /\ run' = others /\ UNCHANGED limiter
    BY <1>1, <1>4, <1>7, <2>1
  <2>2. CASE run' = [others EXCEPT !["syncQueue"] = next] /\ UNCHANGED <<limiter, leaked>>
    BY <1>1, <1>7, <2>2
  <2>3. CASE run' = others /\ limiter' = (IF job.kind = "full" THEN limiter + 1 ELSE limiter) /\ UNCHANGED leaked
    BY <1>1, <1>4, <1>7, <2>3
  <2> QED
    BY <1>3, <2>1, <2>2, <2>3
<1> QED
  BY <1>1, <1>2, <1>8

LEMMA EndCounts ==
  ASSUME ServiceType, NEW t \in Threads, End(t)
  PROVE  limiter' \in Nat /\ run' \in [Threads -> Runs] /\ limiter' + Fulls(run)' = limiter + Fulls(run)
<1>1. /\ run' = [run EXCEPT ![t] = Idle]
      /\ limiter' = (IF run[t].kind = "full" THEN limiter + 1 ELSE limiter)
  BY DEF End
<1>2. /\ run' \in [Threads -> Runs] /\ Fulls(run) \in Nat
      /\ Fulls(run') = Fulls(run) + 0 - (IF run[t].kind = "full" THEN 1 ELSE 0)
  BY <1>1, IdleIsRun, FullsOf DEF ServiceType
<1>3. CASE run[t].kind = "full"
  BY <1>1, <1>2, <1>3 DEF ServiceType
<1>4. CASE run[t].kind # "full"
  BY <1>1, <1>2, <1>4 DEF ServiceType
<1> QED
  BY <1>3, <1>4

LEMMA PermitsStep == PermitInv /\ [Next]_vars => PermitInv'
<1> SUFFICES ASSUME PermitInv, [Next]_vars PROVE PermitInv'
  OBVIOUS
<1>1. /\ ServiceType /\ limiter \in Nat /\ leaked \in Nat /\ jobs \in Seq(Jobs) /\ run \in [Threads -> Runs]
      /\ made' \subseteq Events /\ db' \subseteq Events
  BY SyncSteps DEF PermitInv, ServiceType
<1>2. limiter + leaked + Cardinality(FullIn(jobs)) + Fulls(run) = 2
  BY DEF PermitInv, Places, kMaxEnqueuedSyncs
<1>3. Fulls(run) \in Nat /\ Cardinality(FullIn(jobs)) \in Nat
  BY <1>1, FullFinite DEF Fulls
<1> DEFINE Kept == /\ limiter' \in Nat /\ leaked' \in Nat /\ jobs' \in Seq(Jobs) /\ run' \in [Threads -> Runs]
                   /\ limiter' + leaked' + Cardinality(FullIn(jobs')) + Fulls(run') = 2
<1>4. Kept => PermitInv'
  BY <1>1 DEF PermitInv, ServiceType, Places, kMaxEnqueuedSyncs
<1>5. CASE ServiceStart
  BY <1>1, <1>5, StartedEmpty
<1>6. CASE Accepted
  <2>1. PICK type \in SyncTypes :
          /\ limiter > 0 /\ limiter' = limiter - 1
          /\ jobs' = Append(jobs, [kind |-> "full", type |-> type])
          /\ UNCHANGED <<run, leaked>>
    BY <1>6 DEF Accepted
  <2>2. [kind |-> "full", type |-> type] \in Jobs
    BY DEF Jobs
  <2>3. jobs' \in Seq(Jobs) /\ Cardinality(FullIn(jobs')) = Cardinality(FullIn(jobs)) + 1
    BY <1>1, <2>1, <2>2, FullAppend, AppendProperties
  <2>4. Kept
    BY <1>1, <1>2, <1>3, <2>1, <2>3
  <2> QED
    BY <1>4, <2>4
<1>7. CASE RuleQueued
  <2>1. [kind |-> "rule", type |-> "Normal"] \in Jobs
    BY DEF Jobs, SyncTypes
  <2>2. jobs' = Append(jobs, [kind |-> "rule", type |-> "Normal"]) /\ UNCHANGED <<limiter, run, leaked>>
    BY <1>7 DEF RuleQueued
  <2>3. jobs' \in Seq(Jobs) /\ Cardinality(FullIn(jobs')) = Cardinality(FullIn(jobs)) + 0
    BY <1>1, <2>1, <2>2, FullAppend, AppendProperties
  <2>4. Kept
    BY <1>1, <1>2, <1>3, <2>2, <2>3
  <2> QED
    BY <1>4, <2>4
<1>8. CASE Pushed
  <2>1. PICK kind \in {"push", "preflight"} :
          /\ run["push"] = Idle
          /\ run' = [run EXCEPT !["push"] = [Idle EXCEPT !.kind = kind, !.stage = "preflight"]]
          /\ UNCHANGED <<limiter, jobs, leaked>>
    BY <1>8 DEF Pushed
  <2> DEFINE r == [Idle EXCEPT !.kind = kind, !.stage = "preflight"]
  <2>2. r \in Runs /\ r.kind # "full" /\ run["push"].kind # "full" /\ "push" \in Threads
    BY <2>1, IdleIsRun DEF Runs, Threads
  <2> HIDE DEF r
  <2>3. run' \in [Threads -> Runs] /\ Fulls(run') = Fulls(run) + 0 - 0
    BY <1>1, <2>1, <2>2, FullsOf DEF r
  <2>4. Kept
    BY <1>1, <1>2, <1>3, <2>1, <2>3
  <2> QED
    BY <1>4, <2>4
<1>9. CASE StartJob
  <2>1. /\ limiter' \in Nat /\ leaked' \in Nat /\ jobs' \in Seq(Jobs) /\ run' \in [Threads -> Runs]
        /\ limiter' + leaked' + Fulls(run') =
              limiter + leaked + Fulls(run) + (IF Head(jobs).kind = "full" THEN 1 ELSE 0)
        /\ jobs # <<>> /\ jobs' = Tail(jobs)
    BY <1>1, <1>9, StartJobCounts
  <2>2. Cardinality(FullIn(jobs')) = Cardinality(FullIn(jobs)) - (IF Head(jobs).kind = "full" THEN 1 ELSE 0)
    BY <1>1, <2>1, FullTail
  <2>3. Fulls(run') \in Nat
    BY <2>1 DEF Fulls
  <2> DEFINE one == IF Head(jobs).kind = "full" THEN 1 ELSE 0
             c == Cardinality(FullIn(jobs))
  <2>4. \A a, b, d, e, a1, b1, d1, one1 \in Int :
          a + b + d + e = 2 /\ a1 + b1 + d1 = a + b + e + one1 => a1 + b1 + (d - one1) + d1 = 2
    OBVIOUS
  <2>5. limiter' + leaked' + (c - one) + Fulls(run') = 2
    <3>1. one \in Int /\ c \in Int /\ limiter' \in Int /\ leaked' \in Int /\ Fulls(run') \in Int
          /\ limiter \in Int /\ leaked \in Int /\ Fulls(run) \in Int
      BY <1>1, <1>3, <2>1, <2>3
    <3>2. limiter + leaked + c + Fulls(run) = 2 /\ limiter' + leaked' + Fulls(run') = limiter + leaked + Fulls(run) + one
      BY <1>2, <2>1
    <3> HIDE DEF one, c
    <3> QED
      BY <2>4, <3>1, <3>2
  <2>6. Cardinality(FullIn(jobs')) = c - one
    BY <2>2
  <2>7. Kept
    BY <2>1, <2>5, <2>6
  <2> QED
    BY <1>4, <2>7
<1>10. CASE Ended
  <2>1. /\ UNCHANGED <<jobs, leaked>>
        /\ limiter' \in Nat /\ run' \in [Threads -> Runs] /\ limiter' + Fulls(run') = limiter + Fulls(run)
    BY <1>1, <1>10, EndCounts DEF Ended
  <2>2. Fulls(run') \in Nat
    BY <2>1 DEF Fulls
  <2>3. Kept
    BY <1>1, <1>2, <1>3, <2>1, <2>2, SMTT(20)
  <2> QED
    BY <1>4, <2>3
<1>11. CASE Advanced
  <2>1. PICK t \in Threads, r \in Runs :
          r.kind = run[t].kind /\ run' = [run EXCEPT ![t] = r] /\ UNCHANGED <<limiter, jobs, leaked>>
    BY <1>11 DEF Advanced
  <2>2. run' \in [Threads -> Runs] /\ Fulls(run') = Fulls(run)
    <3>1. /\ [run EXCEPT ![t] = r] \in [Threads -> Runs]
          /\ Fulls([run EXCEPT ![t] = r]) = Fulls(run) + (IF r.kind = "full" THEN 1 ELSE 0)
                                             - (IF run[t].kind = "full" THEN 1 ELSE 0)
      BY <1>1, FullsOf
    <3>2. Fulls([run EXCEPT ![t] = r]) = Fulls(run)
      BY <1>3, <2>1, <3>1
    <3> QED
      BY <2>1, <3>1, <3>2
  <2>3. Kept
    BY <1>1, <1>2, <2>1, <2>2
  <2> QED
    BY <1>4, <2>3
<1>12. CASE UNCHANGED <<limiter, jobs, run, leaked>>
  BY <1>1, <1>2, <1>4, <1>12
<1> QED
  BY <1>1, <1>5, <1>6, <1>7, <1>8, <1>9, <1>10, <1>11, <1>12, SyncSteps

LEMMA PermitsInit == SyncInit => PermitInv
<1> SUFFICES ASSUME SyncInit PROVE PermitInv
  OBVIOUS
<1>1. /\ limiter = 2 /\ leaked = 0 /\ jobs = <<>> /\ run = [t \in Threads |-> Idle] /\ made = {} /\ db = {}
  BY DEF SyncInit, kMaxEnqueuedSyncs
<1>2. ServiceType
  BY <1>1, IdleIsRun DEF ServiceType
<1>3. Fulls(run) = 0
  BY <1>1, IdleIsRun DEF Fulls, Threads
<1>4. Cardinality(FullIn(jobs)) = 0
  <2>1. FullIn(jobs) = {}
    BY <1>1 DEF FullIn
  <2> QED
    BY <2>1, FS_EmptySet
<1> QED
  BY <1>1, <1>2, <1>3, <1>4 DEF PermitInv, Places, kMaxEnqueuedSyncs

(* A full sync that was accepted holds one place of syncLimiter until it    *)
(* ends; the places missing are those of requests that santad did not       *)
(* acknowledge in time (syncType:withReply:).                               *)
THEOREM PermitsAlwaysConserved == Spec => []PermitsConserved
<1>1. PermitInv => PermitsConserved
  <2> SUFFICES ASSUME PermitInv PROVE PermitsConserved
    OBVIOUS
  <2>1. Cardinality({t \in Threads : run[t].kind = "full"}) = Fulls(run)
    BY FullRunsCount DEF FullRuns
  <2>2. {i \in DOMAIN jobs : jobs[i].kind = "full"} = FullIn(jobs)
    BY DEF FullIn
  <2> QED
    BY <2>1, <2>2 DEF PermitInv, Places, PermitsConserved
<1> QED
  BY <1>1, PermitsInit, PermitsStep, PTL DEF Spec

-----------------------------------------------------------------------------
(* The events: each that leaves the database was sent, or dropped.          *)
LEMMA StageKeepsEvents == ASSUME EventsKept, NEW t \in Threads, Stage(t) PROVE EventsKept'
<1>1. ASSUME UNCHANGED <<made, db, sent, dropped>> PROVE EventsKept'
  BY <1>1 DEF EventsKept
<1>2. CASE UploadBatch(t)
  <2>1. PICK e \in run[t].events :
          /\ \/ sent' = sent \cup {e} /\ db' = db \ {e} /\ UNCHANGED dropped
             \/ UNCHANGED <<sent, db, dropped>>
             \/ db' = db \ {e} /\ dropped' = (IF e \in db \ sent THEN dropped \cup {e} ELSE dropped) /\ UNCHANGED sent
          /\ UNCHANGED made
    BY <1>2 DEF UploadBatch
  <2> QED
    BY <2>1 DEF EventsKept
<1> QED
  BY <1>1, <1>2 DEF Stage, Abort, ReadPending, AddRules, Postflight, Preflight, Download, eventVars

LEMMA EventsStep == EventsKept /\ [Next]_vars => EventsKept'
<1> SUFFICES ASSUME EventsKept, [Next]_vars PROVE EventsKept'
  OBVIOUS
<1>1. ASSUME UNCHANGED <<made, db, sent, dropped>> PROVE EventsKept'
  BY <1>1 DEF EventsKept
<1>2. ASSUME NEW e \in Events, AddStoredEvent(e) PROVE EventsKept'
  BY <1>2 DEF AddStoredEvent, EventsKept
<1>3. ASSUME NEW e \in Events, PostEvents(e) PROVE EventsKept'
  <2>1. \/ UNCHANGED <<db, sent, made, dropped>>
        \/ sent' = sent \cup {e} /\ db' = db \ {e} /\ UNCHANGED <<made, dropped>>
    BY <1>3 DEF PostEvents
  <2> QED
    BY <2>1 DEF EventsKept
<1>4. CASE Daemon
  BY <1>1, <1>4 DEF Daemon, Bounce, Establish, TearDown, Clear, Install, MainQueueRuns, NoticeProfile,
                    SantadCrash, ServiceCrash, TokenExpires, eventVars
<1>5. ASSUME \/ FullSyncTimer \/ RuleSyncTimer \/ StartJob
             \/ \E type \in {"Clean", "CleanAll"} : UserSync(type)
             \/ \E kind \in {"rule", "push", "preflight"} : PushNotification(kind)
             \/ UNCHANGED vars
      PROVE  EventsKept'
  BY <1>1, <1>5 DEF FullSyncTimer, RuleSyncTimer, StartJob, UserSync, PushNotification, vars, eventVars
<1> QED
  BY <1>2, <1>3, <1>4, <1>5, StageKeepsEvents DEF Next

(* An event leaves the database only after the server got it, or in a sync  *)
(* that starts from a clean slate (SNTSyncEventUpload.mm, uploadEvents:).   *)
THEOREM EventsAlwaysKept == Spec => []EventsKept
<1>1. SyncInit => EventsKept
  BY DEF SyncInit, EventsKept
<1> QED
  BY <1>1, EventsStep, PTL DEF Spec

-----------------------------------------------------------------------------
(* What is saved.                                                           *)
StageConfig == UNCHANGED <<profile, configState, syncState, stateFile, unsaved>>

LEMMA StageKeepsConfig == ASSUME NEW t \in Threads, Stage(t) PROVE StageConfig
BY DEF Stage, Abort, ReadPending, UploadBatch, AddRules, Postflight, Preflight, Download, configVars, StageConfig

LEMMA SettingsStep == RestartKeepsSettings /\ [Next]_vars => RestartKeepsSettings'
<1> SUFFICES ASSUME RestartKeepsSettings, [Next]_vars PROVE RestartKeepsSettings'
  OBVIOUS
<1>1. ASSUME UNCHANGED <<syncState, stateFile, unsaved>> PROVE RestartKeepsSettings'
  BY <1>1 DEF RestartKeepsSettings, readSyncStateFromDisk
<1>2. CASE MainQueueRuns
  <2>1. stateFile' = (IF SyncStateAccessAuthorized THEN syncState' ELSE stateFile) /\ unsaved' = ~SyncStateAccessAuthorized
    BY <1>2 DEF MainQueueRuns, ApplyUpdate, Saved
  <2> QED
    BY <2>1 DEF RestartKeepsSettings, readSyncStateFromDisk
<1>3. CASE Clear
  BY <1>3 DEF Clear, ClearSyncState, RestartKeepsSettings
<1>4. CASE SantadCrash
  <2>1. /\ unsaved' = (profile["SyncBaseURL"] = None) /\ UNCHANGED stateFile
        /\ syncState' = IF profile["SyncBaseURL"] # None THEN readSyncStateFromDisk(stateFile) ELSE Empty
    BY <1>4 DEF SantadCrash, StartConfigurator
  <2> QED
    BY <2>1 DEF RestartKeepsSettings
<1>5. ASSUME \/ Bounce \/ Establish \/ TearDown \/ Install \/ ServiceCrash \/ TokenExpires
             \/ \E p \in Processes : NoticeProfile(p)
             \/ \E e \in Events : AddStoredEvent(e) \/ PostEvents(e)
             \/ FullSyncTimer \/ RuleSyncTimer \/ StartJob
             \/ \E type \in {"Clean", "CleanAll"} : UserSync(type)
             \/ \E kind \in {"rule", "push", "preflight"} : PushNotification(kind)
             \/ UNCHANGED vars
      PROVE  UNCHANGED <<syncState, stateFile, unsaved>>
  BY <1>5 DEF Bounce, Establish, TearDown, Install, InstallProfile, ServiceCrash, TokenExpires, NoticeProfile,
              HandleChange, AddStoredEvent, PostEvents, FullSyncTimer, RuleSyncTimer, StartJob, RequestType,
              UserSync, PushNotification, vars, configVars
<1>6. ASSUME NEW t \in Threads, Stage(t) PROVE UNCHANGED <<syncState, stateFile, unsaved>>
  BY <1>6, StageKeepsConfig DEF StageConfig
<1> QED
  BY <1>1, <1>2, <1>3, <1>4, <1>5, <1>6 DEF Next, Daemon

(* What santad would read back after a crash is what it has in memory,      *)
(* unless memory was changed while no server was configured                 *)
(* (saveSyncStateToDisk, readSyncStateFromDisk).                            *)
THEOREM RestartAlwaysKeepsSettings == Spec => []RestartKeepsSettings
<1>1. SyncInit => RestartKeepsSettings
  BY DEF SyncInit, ConfigInit, RestartKeepsSettings, readSyncStateFromDisk, Empty
<1> QED
  BY <1>1, SettingsStep, PTL DEF Spec

-----------------------------------------------------------------------------
(* The updates of the type of sync that are queued.                         *)
TypeUpdatesIn(q) == {i \in DOMAIN q : q[i].key = "SyncTypeRequired"}

(* The last of them asks for at least that much cleaning.                   *)
AsksFor(q, owes) ==
  \A i \in TypeUpdatesIn(q) :
    (\A j \in TypeUpdatesIn(q) : j <= i) => q[i].value \in SyncTypes /\ Rank(q[i].value) >= Rank(owes)

Stored(state, owes) ==
  owes # "Normal" => state["SyncTypeRequired"] \in SyncTypes /\ Rank(state["SyncTypeRequired"]) >= Rank(owes)

(* A sync that cleans and has seen the last request cleans as much as is    *)
(* owed; when its rules were added, nothing is owed.                        *)
Sees(r, owes) ==
  r.current => /\ r.syncType # "Normal" /\ Rank(r.syncType) >= Rank(owes)
               /\ r.added => owes = "Normal"

QueueInv ==
  /\ owed \in SyncTypes /\ mainQueue \in Seq(Updates)
  /\ syncState \in Settings /\ stateFile \in Settings
  /\ AsksFor(mainQueue, owed)
  /\ TypeUpdatesIn(mainQueue) = {} => Stored(syncState, owed) /\ Stored(stateFile, owed)

SeenInv == \A t \in Threads : Sees(run[t], owed) /\ (run[t].added => run[t].stage = "postflight")

CleaningInv == PermitInv /\ QueueInv /\ SeenInv

-----------------------------------------------------------------------------
(* The operators on the queue: a concatenation, the rest of it.             *)
LEMMA UpdateIsUpdates ==
  ASSUME NEW key, NEW value \in Values, key = "SyncTypeRequired" => value \in SyncTypes
  PROVE  /\ Update(key, value) \in Seq(Updates)
         /\ key # "SyncTypeRequired" => TypeUpdatesIn(Update(key, value)) = {}
<1>1. CASE key \in Keys
  <2> DEFINE u == [key |-> key, value |-> value]
  <2>1. u \in Updates /\ Update(key, value) = <<u>> /\ u.key = key
    BY <1>1 DEF Updates, Update
  <2>2. <<u>> \in Seq(Updates) /\ DOMAIN <<u>> = {1} /\ <<u>>[1] = u
    BY <2>1
  <2> QED
    BY <2>1, <2>2 DEF TypeUpdatesIn
<1>2. CASE key \notin Keys
  BY <1>2 DEF Update, TypeUpdatesIn
<1> QED
  BY <1>1, <1>2

LEMMA ConcatUpdates ==
  ASSUME NEW q \in Seq(Updates), NEW u \in Seq(Updates)
  PROVE  /\ q \o u \in Seq(Updates) /\ Len(q) \in Nat /\ DOMAIN q = 1..Len(q)
         /\ \A i \in TypeUpdatesIn(q \o u) :
              \/ i \in TypeUpdatesIn(q) /\ (q \o u)[i] = q[i]
              \/ i - Len(q) \in TypeUpdatesIn(u) /\ (q \o u)[i] = u[i - Len(q)]
         /\ \A i \in TypeUpdatesIn(q) : i \in TypeUpdatesIn(q \o u)
         /\ \A i \in TypeUpdatesIn(u) : i + Len(q) \in TypeUpdatesIn(q \o u)
<1>1. /\ q \o u \in Seq(Updates) /\ Len(q) \in Nat /\ Len(u) \in Nat /\ Len(q \o u) = Len(q) + Len(u)
      /\ DOMAIN q = 1..Len(q) /\ DOMAIN u = 1..Len(u) /\ DOMAIN (q \o u) = 1..(Len(q) + Len(u))
  BY ConcatProperties, LenProperties
<1>2. \A i \in 1..(Len(q) + Len(u)) : (q \o u)[i] = IF i <= Len(q) THEN q[i] ELSE u[i - Len(q)]
  BY ConcatProperties, <1>1
<1>3. \A n, m \in Nat :  /\ \A i \in 1..(n + m) : i \in 1..n \/ (~(i <= n) /\ i - n \in 1..m)
                         /\ \A i \in 1..n : i \in 1..(n + m) /\ i <= n
                         /\ \A i \in 1..m : i + n \in 1..(n + m) /\ ~(i + n <= n) /\ i + n - n = i
  OBVIOUS
<1>4. ASSUME NEW i \in TypeUpdatesIn(q \o u)
      PROVE  \/ i \in TypeUpdatesIn(q) /\ (q \o u)[i] = q[i]
             \/ i - Len(q) \in TypeUpdatesIn(u) /\ (q \o u)[i] = u[i - Len(q)]
  <2>1. i \in 1..(Len(q) + Len(u)) /\ (q \o u)[i].key = "SyncTypeRequired"
    BY <1>1, <1>4 DEF TypeUpdatesIn
  <2>2. CASE i <= Len(q)
    <3>1. i \in 1..Len(q) /\ (q \o u)[i] = q[i]
      BY <1>1, <1>2, <2>1, <2>2
    <3> QED
      BY <1>1, <2>1, <3>1 DEF TypeUpdatesIn
  <2>3. CASE ~(i <= Len(q))
    <3>1. i - Len(q) \in 1..Len(u) /\ (q \o u)[i] = u[i - Len(q)]
      BY <1>1, <1>2, <2>1, <2>3
    <3> QED
      BY <1>1, <2>1, <3>1 DEF TypeUpdatesIn
  <2> QED
    BY <2>2, <2>3
<1>5. ASSUME NEW i \in TypeUpdatesIn(q) PROVE i \in TypeUpdatesIn(q \o u)
  <2>1. i \in 1..Len(q) /\ q[i].key = "SyncTypeRequired"
    BY <1>1, <1>5 DEF TypeUpdatesIn
  <2>2. i \in 1..(Len(q) + Len(u)) /\ (q \o u)[i] = q[i]
    BY <1>1, <1>2, <1>3, <2>1
  <2> QED
    BY <1>1, <2>1, <2>2 DEF TypeUpdatesIn
<1>6. ASSUME NEW i \in TypeUpdatesIn(u) PROVE i + Len(q) \in TypeUpdatesIn(q \o u)
  <2>1. i \in 1..Len(u) /\ u[i].key = "SyncTypeRequired"
    BY <1>1, <1>6 DEF TypeUpdatesIn
  <2>2. i + Len(q) \in 1..(Len(q) + Len(u)) /\ (q \o u)[i + Len(q)] = u[i]
    BY <1>1, <1>2, <1>3, <2>1
  <2> QED
    BY <1>1, <2>1, <2>2 DEF TypeUpdatesIn
<1> QED
  BY <1>1, <1>4, <1>5, <1>6

(* Other updates behind the queue change nothing of what it asks for.       *)
LEMMA QuietConcat ==
  ASSUME NEW q \in Seq(Updates), NEW u \in Seq(Updates), TypeUpdatesIn(u) = {}
  PROVE  /\ q \o u \in Seq(Updates) /\ TypeUpdatesIn(q \o u) = TypeUpdatesIn(q)
         /\ \A owes : AsksFor(q, owes) => AsksFor(q \o u, owes)
<1>1. /\ q \o u \in Seq(Updates)
      /\ \A i \in TypeUpdatesIn(q \o u) : i \in TypeUpdatesIn(q) /\ (q \o u)[i] = q[i]
      /\ \A i \in TypeUpdatesIn(q) : i \in TypeUpdatesIn(q \o u)
  BY ConcatUpdates
<1>2. TypeUpdatesIn(q \o u) = TypeUpdatesIn(q)
  BY <1>1
<1> QED
  BY <1>1, <1>2 DEF AsksFor

(* Updates with a type behind the queue decide what it asks for.            *)
LEMMA LastConcat ==
  ASSUME NEW q \in Seq(Updates), NEW u \in Seq(Updates), TypeUpdatesIn(u) # {}
  PROVE  /\ q \o u \in Seq(Updates) /\ TypeUpdatesIn(q \o u) # {}
         /\ \A owes : AsksFor(u, owes) => AsksFor(q \o u, owes)
<1>1. /\ q \o u \in Seq(Updates) /\ Len(q) \in Nat
      /\ \A i \in TypeUpdatesIn(q \o u) :
           i \in TypeUpdatesIn(q) \/ (i - Len(q) \in TypeUpdatesIn(u) /\ (q \o u)[i] = u[i - Len(q)])
      /\ \A i \in TypeUpdatesIn(u) : i + Len(q) \in TypeUpdatesIn(q \o u)
  BY ConcatUpdates
<1>2. /\ TypeUpdatesIn(q) \subseteq 1..Len(q) /\ TypeUpdatesIn(u) \subseteq Nat \ {0}
      /\ TypeUpdatesIn(q \o u) \subseteq Nat
  BY <1>1, LenProperties DEF TypeUpdatesIn
<1>3. ASSUME NEW owes, AsksFor(u, owes), NEW i \in TypeUpdatesIn(q \o u), \A j \in TypeUpdatesIn(q \o u) : j <= i
      PROVE  (q \o u)[i].value \in SyncTypes /\ Rank((q \o u)[i].value) >= Rank(owes)
  <2>1. \A k \in TypeUpdatesIn(u) : k + Len(q) <= i
    BY <1>1, <1>3
  <2>2. PICK k \in TypeUpdatesIn(u) : TRUE
    OBVIOUS
  <2>3. i \notin TypeUpdatesIn(q)
    <3>1. k + Len(q) <= i /\ k \in Nat \ {0} /\ i \in Nat
      BY <1>2, <2>1, <2>2
    <3> QED
      BY <1>1, <1>2, <3>1
  <2>4. i - Len(q) \in TypeUpdatesIn(u) /\ (q \o u)[i] = u[i - Len(q)]
    BY <1>1, <2>3
  <2>5. \A j \in TypeUpdatesIn(u) : j <= i - Len(q)
    BY <1>1, <1>2, <2>1
  <2> QED
    BY <1>3, <2>4, <2>5 DEF AsksFor
<1>4. TypeUpdatesIn(q \o u) # {}
  BY <1>1
<1> QED
  BY <1>1, <1>3, <1>4 DEF AsksFor

(* A request behind the queue is the last.                                  *)
LEMMA RequestConcat ==
  ASSUME NEW q \in Seq(Updates), NEW type \in SyncTypes
  PROVE  LET p == q \o Update("SyncTypeRequired", type)
         IN  p \in Seq(Updates) /\ TypeUpdatesIn(p) # {} /\ AsksFor(p, type)
<1> DEFINE u == Update("SyncTypeRequired", type)
           e == [key |-> "SyncTypeRequired", value |-> type]
<1>1. u = <<e>> /\ u \in Seq(Updates)
  BY SyncKeysAssumption, UpdateIsUpdates DEF Update, Values
<1>2. DOMAIN <<e>> = {1} /\ <<e>>[1] = e
  OBVIOUS
<1>3. TypeUpdatesIn(u) # {}
  BY <1>1, <1>2 DEF TypeUpdatesIn
<1>4. Rank(type) >= Rank(type)
  BY DEF Rank, SyncTypes
<1>5. AsksFor(u, type)
  BY <1>1, <1>2, <1>4 DEF AsksFor, TypeUpdatesIn
<1>6. u \in Seq(Updates)
  BY <1>1
<1> HIDE DEF u
<1>7. q \o u \in Seq(Updates) /\ TypeUpdatesIn(q \o u) # {} /\ AsksFor(q \o u, type)
  BY <1>3, <1>5, <1>6, LastConcat
<1> QED
  BY <1>7 DEF u

(* The head runs: what is behind it stays, or it was the last.              *)
LEMMA TailUpdates ==
  ASSUME NEW q \in Seq(Updates), q # <<>>
  PROVE  /\ Tail(q) \in Seq(Updates) /\ Head(q) \in Updates
         /\ \A owes : AsksFor(q, owes) => AsksFor(Tail(q), owes)
         /\ TypeUpdatesIn(Tail(q)) = {} =>
              IF Head(q).key = "SyncTypeRequired"
              THEN \A owes : AsksFor(q, owes) => Head(q).value \in SyncTypes /\ Rank(Head(q).value) >= Rank(owes)
              ELSE TypeUpdatesIn(q) = {}
<1>1. /\ DOMAIN q = 1..Len(q) /\ Len(q) \in Nat \ {0} /\ Head(q) = q[1] /\ Tail(q) \in Seq(Updates)
      /\ Head(q) \in Updates /\ DOMAIN Tail(q) = 1..(Len(q) - 1)
      /\ \A i \in 1..(Len(q) - 1) : Tail(q)[i] = q[i + 1]
  BY LenProperties, HeadTailProperties, EmptySeq
<1>2. TypeUpdatesIn(q) \subseteq 1..Len(q) /\ TypeUpdatesIn(Tail(q)) \subseteq 1..(Len(q) - 1)
  BY <1>1 DEF TypeUpdatesIn
<1>3. \A i \in TypeUpdatesIn(Tail(q)) : i + 1 \in TypeUpdatesIn(q) /\ Tail(q)[i] = q[i + 1]
  BY <1>1 DEF TypeUpdatesIn
<1>4. \A i \in TypeUpdatesIn(q) : i = 1 \/ i - 1 \in TypeUpdatesIn(Tail(q))
  BY <1>1 DEF TypeUpdatesIn
<1>5. ASSUME NEW owes, AsksFor(q, owes) PROVE AsksFor(Tail(q), owes)
  <2>1. SUFFICES ASSUME NEW i \in TypeUpdatesIn(Tail(q)), \A j \in TypeUpdatesIn(Tail(q)) : j <= i
                 PROVE  Tail(q)[i].value \in SyncTypes /\ Rank(Tail(q)[i].value) >= Rank(owes)
    BY DEF AsksFor
  <2>2. i + 1 \in TypeUpdatesIn(q) /\ Tail(q)[i] = q[i + 1]
    BY <1>3
  <2>3. \A j \in TypeUpdatesIn(q) : j <= i + 1
    BY <1>1, <1>2, <1>4, <2>1
  <2> QED
    BY <1>5, <2>2, <2>3 DEF AsksFor
<1>6. ASSUME TypeUpdatesIn(Tail(q)) = {}, Head(q).key = "SyncTypeRequired", NEW owes, AsksFor(q, owes)
      PROVE  Head(q).value \in SyncTypes /\ Rank(Head(q).value) >= Rank(owes)
  <2>1. 1 \in TypeUpdatesIn(q) /\ \A j \in TypeUpdatesIn(q) : j <= 1
    <3>1. 1 \in DOMAIN q /\ q[1].key = "SyncTypeRequired"
      BY <1>1, <1>6
    <3>2. 1 \in TypeUpdatesIn(q)
      BY <3>1 DEF TypeUpdatesIn
    <3> QED
      BY <1>4, <1>6, <3>2
  <2>2. q[1].value \in SyncTypes /\ Rank(q[1].value) >= Rank(owes)
    BY <1>6, <2>1 DEF AsksFor
  <2> QED
    BY <1>1, <2>2
<1>7. ASSUME TypeUpdatesIn(Tail(q)) = {}, Head(q).key # "SyncTypeRequired" PROVE TypeUpdatesIn(q) = {}
  BY <1>1, <1>4, <1>7 DEF TypeUpdatesIn
<1> QED
  BY <1>1, <1>5, <1>6, <1>7

-----------------------------------------------------------------------------
(* What a sync saw.                                                         *)
LEMMA Ranks ==
  /\ \A type \in SyncTypes : Rank(type) \in 0..2 /\ (Rank(type) = 0 <=> type = "Normal")
  /\ Rank("Normal") = 0 /\ Rank("Clean") = 1 /\ Rank("CleanAll") = 2
BY DEF SyncTypes, Rank

(* Nothing owed is seen by every sync.                                      *)
LEMMA SeesNormal == ASSUME NEW r \in Runs, r.current => r.syncType # "Normal" PROVE Sees(r, "Normal")
BY Ranks DEF Sees, Runs

(* The sync goes on, or another one takes its place that saw nothing.       *)
Follows(s, r) ==
  \/ ~s.current /\ ~s.added
  \/ ~s.current /\ s.added = r.added /\ s.stage = r.stage
  \/ s.current = r.current /\ s.syncType = r.syncType /\ s.added = r.added /\ (r.added => s.stage = r.stage)

LEMMA FollowingSees ==
  ASSUME ServiceType, SeenInv, owed \in SyncTypes, run' \in [Threads -> Runs], owed' \in {owed, "Normal"},
         \A t \in Threads : Follows(run'[t], run[t])
  PROVE  SeenInv'
<1> SUFFICES ASSUME NEW t \in Threads PROVE Sees(run'[t], owed') /\ (run'[t].added => run'[t].stage = "postflight")
  BY DEF SeenInv
<1> DEFINE r == run[t]
           s == run'[t]
<1>1. /\ r \in Runs /\ s \in Runs /\ Follows(s, r) /\ Sees(r, owed) /\ (r.added => r.stage = "postflight")
      /\ r.added \in BOOLEAN /\ s.added \in BOOLEAN
  BY DEF ServiceType, SeenInv, Runs
<1> HIDE DEF r, s
<1>2. Sees(s, owed) /\ (s.added => s.stage = "postflight")
  BY <1>1 DEF Follows, Sees
<1>3. s.current => s.syncType # "Normal"
  BY <1>2 DEF Sees
<1>4. Sees(s, owed')
  BY <1>1, <1>2, <1>3, SeesNormal
<1> QED
  BY <1>2, <1>4 DEF s

LEMMA IdleFollows == \A r : Follows(Idle, r)
BY IdleIsRun DEF Follows

LEMMA SameFollows == \A r : Follows(r, r)
BY DEF Follows

(* One thread takes a step.                                                 *)
LEMMA ThreadFollows ==
  ASSUME NEW r \in [Threads -> Runs], NEW t \in Threads, NEW s \in Runs, Follows(s, r[t])
  PROVE  [r EXCEPT ![t] = s] \in [Threads -> Runs] /\ \A u \in Threads : Follows([r EXCEPT ![t] = s][u], r[u])
<1>1. \A u \in Threads : [r EXCEPT ![t] = s][u] = IF u = t THEN s ELSE r[u]
  OBVIOUS
<1> QED
  BY <1>1, SameFollows

QueueKept == UNCHANGED <<mainQueue, syncState, stateFile, owed>>

LEMMA QueueSame == ASSUME QueueInv, QueueKept PROVE QueueInv' /\ owed' \in {owed, "Normal"}
BY DEF QueueInv, QueueKept

(* A stage that asks santad for nothing.                                    *)
LEMMA QuietStage ==
  ASSUME ServiceType, SeenInv, NEW t \in Threads,
         \/ Abort(t) \/ ReadPending(t) \/ UploadBatch(t)
         \/ \E some \in BOOLEAN : Download(t, some)
  PROVE  QueueKept /\ \A u \in Threads : Follows(run'[u], run[u])
<1>1. run \in [Threads -> Runs] /\ run[t] \in Runs /\ (run[t].added => run[t].stage = "postflight") /\ db \subseteq Events
  BY DEF ServiceType, SeenInv
<1>2. QueueKept
  BY DEF Abort, ReadPending, UploadBatch, Download, configVars, QueueKept
<1>3. ASSUME NEW s \in Runs, run' = [run EXCEPT ![t] = s], Follows(s, run[t])
      PROVE  \A u \in Threads : Follows(run'[u], run[u])
  BY <1>1, <1>3, ThreadFollows
<1>4. CASE End(t)
  <2>1. run' = [run EXCEPT ![t] = Idle]
    BY <1>4 DEF End
  <2> QED
    BY <1>2, <1>3, <2>1, IdleIsRun, IdleFollows
<1>5. CASE ReadPending(t)
  <2> DEFINE s == [run[t] EXCEPT !.stage = AfterUpload(db), !.events = db]
  <2>1. run' = [run EXCEPT ![t] = s] /\ run[t].stage = "upload"
    BY <1>1, <1>5 DEF ReadPending
  <2>2. s \in Runs
    BY <1>1 DEF Runs, AfterUpload
  <2>3. Follows(s, run[t])
    BY <1>1, <2>1 DEF Follows, Runs
  <2> QED
    BY <1>2, <1>3, <2>1, <2>2, <2>3
<1>6. CASE UploadBatch(t)
  <2>1. PICK e \in run[t].events :
          /\ run[t].stage = "uploading"
          /\ \/ run' = [run EXCEPT ![t].events = @ \ {e}, ![t].stage = AfterUpload(run[t].events \ {e})]
             \/ run' = [run EXCEPT ![t].events = {}, ![t].stage = "download"]
    BY <1>6 DEF UploadBatch
  <2> DEFINE r == [run[t] EXCEPT !.events = @ \ {e}, !.stage = AfterUpload(run[t].events \ {e})]
             f == [run[t] EXCEPT !.events = {}, !.stage = "download"]
  <2>2. r \in Runs /\ f \in Runs
    BY <1>1 DEF Runs, AfterUpload
  <2>3. run' = [run EXCEPT ![t] = r] \/ run' = [run EXCEPT ![t] = f]
    BY <1>1, <2>1
  <2>4. Follows(r, run[t]) /\ Follows(f, run[t])
    BY <1>1, <2>1 DEF Follows, Runs
  <2> HIDE DEF r, f
  <2> QED
    BY <1>2, <1>3, <2>2, <2>3, <2>4
<1>7. ASSUME NEW stage \in {"add", "postflight"}, Go(t, stage), run[t].stage = "download"
      PROVE  \A u \in Threads : Follows(run'[u], run[u])
  <2> DEFINE s == [run[t] EXCEPT !.stage = stage]
  <2>1. run' = [run EXCEPT ![t] = s]
    BY <1>1, <1>7 DEF Go
  <2>2. s \in Runs /\ Follows(s, run[t])
    BY <1>1, <1>7 DEF Follows, Runs
  <2> QED
    BY <1>3, <2>1, <2>2
<1>8. \/ End(t) \/ ReadPending(t) \/ UploadBatch(t)
      \/ run[t].stage = "download" /\ \E stage \in {"add", "postflight"} : Go(t, stage)
  BY DEF Abort, Download
<1> QED
  BY <1>2, <1>4, <1>5, <1>6, <1>7, <1>8

(* The type required that the preflight reads is at least what is owed, if  *)
(* no update of it waits.                                                   *)
LEMMA RequiredCovers ==
  ASSUME QueueInv, TypeUpdatesIn(mainQueue) = {}
  PROVE  syncTypeRequired \in SyncTypes /\ Rank(syncTypeRequired) >= Rank(owed)
<1>1. /\ "SyncTypeRequired" \in Keys /\ Stored(syncState, owed) /\ owed \in SyncTypes
      /\ syncState["SyncTypeRequired"] \in SyncTypes \cup {None}
  BY SyncKeysAssumption DEF QueueInv, Settings
<1>2. syncTypeRequired \in SyncTypes
  BY <1>1 DEF syncTypeRequired, SyncTypes
<1>3. CASE owed # "Normal"
  <2>1. syncState["SyncTypeRequired"] \in SyncTypes /\ Rank(syncState["SyncTypeRequired"]) >= Rank(owed)
    BY <1>1, <1>3 DEF Stored
  <2>2. syncState # Empty /\ syncState["SyncTypeRequired"] # None
    BY <1>1, <2>1 DEF Empty, SyncTypes, None
  <2>3. syncTypeRequired = syncState["SyncTypeRequired"]
    BY <2>2 DEF syncTypeRequired
  <2> QED
    BY <1>2, <2>1, <2>3
<1>4. CASE owed = "Normal"
  BY <1>2, <1>4, Ranks
<1> QED
  BY <1>2, <1>3, <1>4

LEMMA PreflightCleaning ==
  ASSUME ServiceType, QueueInv, SeenInv, NEW t \in Threads, NEW answer \in SyncTypes, Preflight(t, answer)
  PROVE  QueueInv' /\ SeenInv'
<1>1. run \in [Threads -> Runs] /\ run[t] \in Runs /\ (run[t].added => run[t].stage = "postflight")
      /\ owed \in SyncTypes /\ owed' = owed /\ run[t].stage = "preflight"
  BY DEF ServiceType, SeenInv, QueueInv, Preflight
<1>2. QueueInv'
  BY QueueSame DEF Preflight, configVars, QueueKept
<1>3. CASE End(t)
  <2>1. run' = [run EXCEPT ![t] = Idle]
    BY <1>3 DEF End
  <2>2. run' \in [Threads -> Runs] /\ \A u \in Threads : Follows(run'[u], run[u])
    BY <1>1, <2>1, IdleIsRun, IdleFollows, ThreadFollows
  <2> QED
    BY <1>1, <1>2, <2>2, FollowingSees
<1>4. CASE ~End(t)
  <2> DEFINE type == PerformedType(syncTypeRequired, answer)
             now == type # "Normal" /\ ~TypePending
             s == [run[t] EXCEPT !.stage = "upload", !.syncType = type, !.current = now]
  <2>1. type \in SyncTypes /\ now \in BOOLEAN
    BY DEF PerformedType, SyncTypes
  <2>2. run' = [run EXCEPT ![t].stage = "upload", ![t].syncType = type, ![t].current = now]
    BY <1>4 DEF Preflight
  <2>3. now => type # "Normal" /\ Rank(type) >= Rank(owed)
    <3> SUFFICES ASSUME now PROVE type # "Normal" /\ Rank(type) >= Rank(owed)
      OBVIOUS
    <3>1. type # "Normal" /\ TypeUpdatesIn(mainQueue) = {}
      BY DEF TypePending, TypeUpdates, TypeUpdatesIn
    <3>2. syncTypeRequired \in SyncTypes /\ Rank(syncTypeRequired) >= Rank(owed)
      BY <3>1, RequiredCovers
    <3> HIDE DEF now
    <3>3. CASE owed = "CleanAll"
      <4>1. syncTypeRequired = "CleanAll"
        BY <3>2, <3>3, Ranks DEF SyncTypes
      <4>2. type = "CleanAll"
        BY <3>1, <4>1 DEF PerformedType, SyncTypes
      <4> QED
        BY <3>1, <3>3, <4>2, Ranks
    <3>4. CASE owed # "CleanAll"
      <4>1. Rank(owed) <= 1 /\ Rank(type) >= 1
        BY <1>1, <2>1, <3>1, <3>4, Ranks DEF SyncTypes
      <4> QED
        BY <1>1, <2>1, <3>1, <4>1, Ranks
    <3> QED
      BY <3>3, <3>4
  <2> HIDE DEF type, now
  <2>4. run' = [run EXCEPT ![t] = s] /\ s \in Runs
    BY <1>1, <2>1, <2>2 DEF Runs
  <2>5. s.added = run[t].added /\ s.current = now /\ s.syncType = type
    BY <1>1 DEF Runs
  <2>6. Sees(s, owed) /\ ~s.added
    BY <1>1, <2>3, <2>5 DEF Sees, Runs
  <2> HIDE DEF s
  <2>7. \A u \in Threads : run'[u] = IF u = t THEN s ELSE run[u]
    BY <1>1, <2>4
  <2> QED
    BY <1>1, <1>2, <2>6, <2>7 DEF SeenInv
<1> QED
  BY <1>3, <1>4

(* Updates that are no request are queued, and what is owed is dropped or   *)
(* kept.                                                                    *)
LEMMA AskNormal ==
  ASSUME NEW q, NEW owes \in SyncTypes, AsksFor(q, owes)
  PROVE  AsksFor(q, "Normal")
BY Ranks DEF AsksFor

LEMMA StoredNormal == \A state : Stored(state, "Normal")
BY DEF Stored

LEMMA QuietQueue ==
  ASSUME QueueInv, NEW u \in Seq(Updates), TypeUpdatesIn(u) = {}, mainQueue' = mainQueue \o u,
         UNCHANGED <<syncState, stateFile>>, owed' \in {owed, "Normal"}
  PROVE  QueueInv'
<1>1. /\ mainQueue' \in Seq(Updates) /\ TypeUpdatesIn(mainQueue') = TypeUpdatesIn(mainQueue)
      /\ AsksFor(mainQueue', owed)
  BY QuietConcat DEF QueueInv
<1>2. owed \in SyncTypes /\ owed' \in SyncTypes
  BY DEF QueueInv, SyncTypes
<1>3. AsksFor(mainQueue', owed')
  BY <1>1, <1>2, AskNormal
<1>4. TypeUpdatesIn(mainQueue') = {} => Stored(syncState', owed') /\ Stored(stateFile', owed')
  BY <1>1, StoredNormal DEF QueueInv
<1> QED
  BY <1>1, <1>2, <1>3, <1>4 DEF QueueInv

LEMMA LastSuccessQuiet == LastSuccess \in Seq(Updates) /\ TypeUpdatesIn(LastSuccess) = {}
<1> DEFINE a == Update("FullSyncLastSuccess", "now")
           b == Update("RuleSyncLastSuccess", "now")
<1>1. /\ a \in Seq(Updates) /\ TypeUpdatesIn(a) = {}
      /\ b \in Seq(Updates) /\ TypeUpdatesIn(b) = {}
  BY UpdateIsUpdates DEF Values
<1> HIDE DEF a, b
<1>2. a \o b \in Seq(Updates) /\ TypeUpdatesIn(a \o b) = {}
  BY <1>1, QuietConcat
<1> QED
  BY <1>2 DEF a, b, LastSuccess

LEMMA AddRulesCleaning ==
  ASSUME ServiceType, QueueInv, SeenInv, NEW t \in Threads, AddRules(t)
  PROVE  QueueInv' /\ SeenInv'
<1>1. run \in [Threads -> Runs] /\ run[t] \in Runs /\ owed \in SyncTypes /\ Sees(run[t], owed)
  BY DEF ServiceType, SeenInv, QueueInv
<1>2. /\ owed' \in {owed, Cleaned(run[t].syncType)}
      /\ UNCHANGED <<syncState, stateFile>>
      /\ mainQueue' = mainQueue \o LastSuccess \/ mainQueue' = mainQueue
      /\ \/ End(t)
         \/ owed' = Cleaned(run[t].syncType)
            /\ run' = [run EXCEPT ![t].stage = "postflight", ![t].added = TRUE]
  BY DEF AddRules, Enqueue
<1>3. owed' \in {owed, "Normal"}
  BY <1>2 DEF Cleaned
<1>4. QueueInv'
  <2>1. CASE mainQueue' = mainQueue
    <3>1. mainQueue \in Seq(Updates) /\ mainQueue \o <<>> = mainQueue /\ <<>> \in Seq(Updates)
      BY ConcatEmptySeq, EmptySeq DEF QueueInv
    <3>2. TypeUpdatesIn(<<>>) = {}
      BY DEF TypeUpdatesIn
    <3> QED
      BY <1>2, <1>3, <2>1, <3>1, <3>2, QuietQueue
  <2> QED
    BY <1>2, <1>3, <2>1, LastSuccessQuiet, QuietQueue
<1>5. CASE End(t)
  <2>1. run' = [run EXCEPT ![t] = Idle]
    BY <1>5 DEF End
  <2>2. run' \in [Threads -> Runs] /\ \A u \in Threads : Follows(run'[u], run[u])
    BY <1>1, <2>1, IdleIsRun, IdleFollows, ThreadFollows
  <2> QED
    BY <1>1, <1>3, <1>4, <2>2, FollowingSees
<1>6. CASE owed' = Cleaned(run[t].syncType) /\ run' = [run EXCEPT ![t].stage = "postflight", ![t].added = TRUE]
  <2> DEFINE s == [run[t] EXCEPT !.stage = "postflight", !.added = TRUE]
  <2>1. s \in Runs /\ run' = [run EXCEPT ![t] = s]
    BY <1>1, <1>6 DEF Runs
  <2>2. s.stage = "postflight" /\ s.current = run[t].current /\ s.syncType = run[t].syncType
    BY <1>1 DEF Runs
  <2>3. Sees(s, owed')
    <3>1. run[t].current => owed' = "Normal" /\ run[t].syncType # "Normal"
      BY <1>1, <1>6 DEF Sees, Cleaned
    <3> HIDE DEF s
    <3>2. s.current => Sees(s, "Normal")
      BY <2>1, <2>2, <3>1, SeesNormal
    <3> QED
      BY <2>2, <3>1, <3>2 DEF Sees
  <2> HIDE DEF s
  <2>4. \A u \in Threads : run'[u] = IF u = t THEN s ELSE run[u]
    BY <1>1, <2>1
  <2>5. \A u \in Threads : Sees(run[u], owed') /\ (run[u].added => run[u].stage = "postflight")
    BY <1>1, <1>3, SeesNormal DEF SeenInv, Sees
  <2> QED
    BY <1>4, <2>2, <2>3, <2>4, <2>5 DEF SeenInv
<1> QED
  BY <1>2, <1>5, <1>6

LEMMA BundleAsks ==
  ASSUME NEW type \in SyncTypes
  PROVE  /\ PostflightConfigBundle(type) \in Seq(Updates)
         /\ type = "Normal" => TypeUpdatesIn(PostflightConfigBundle(type)) = {}
         /\ type # "Normal" => /\ TypeUpdatesIn(PostflightConfigBundle(type)) # {}
                               /\ AsksFor(PostflightConfigBundle(type), "Normal")
<1> DEFINE a == Update("ClientMode", "Lockdown")
           b == IF type = "Normal" THEN <<>> ELSE Update("SyncTypeRequired", "Normal")
           c == Update("AllowedPathRegex", "expression")
           d == Update("DisableUnknownEventUpload", "yes")
           Good(q) == /\ q \in Seq(Updates)
                      /\ type = "Normal" => TypeUpdatesIn(q) = {}
                      /\ type # "Normal" => TypeUpdatesIn(q) # {} /\ AsksFor(q, "Normal")
<1>1. /\ a \in Seq(Updates) /\ c \in Seq(Updates) /\ d \in Seq(Updates)
      /\ TypeUpdatesIn(a) = {} /\ TypeUpdatesIn(c) = {} /\ TypeUpdatesIn(d) = {}
  BY UpdateIsUpdates DEF Values
<1>2. Good(a \o b)
  <2>1. CASE type = "Normal"
    <3>1. b = <<>> /\ <<>> \in Seq(Updates)
      BY <2>1, EmptySeq
    <3>2. TypeUpdatesIn(b) = {}
      BY <3>1 DEF TypeUpdatesIn
    <3> HIDE DEF a, b
    <3> QED
      BY <1>1, <2>1, <3>1, <3>2, QuietConcat
  <2>2. CASE type # "Normal"
    <3>1. "Normal" \in SyncTypes /\ b = Update("SyncTypeRequired", "Normal")
      BY <2>2 DEF SyncTypes
    <3> HIDE DEF a, b
    <3>2. a \o b \in Seq(Updates) /\ TypeUpdatesIn(a \o b) # {} /\ AsksFor(a \o b, "Normal")
      BY <1>1, <3>1, RequestConcat
    <3> QED
      BY <2>2, <3>2
  <2> QED
    BY <2>1, <2>2
<1>3. ASSUME NEW q, NEW u \in Seq(Updates), Good(q), TypeUpdatesIn(u) = {} PROVE Good(q \o u)
  <2>1. /\ q \o u \in Seq(Updates) /\ TypeUpdatesIn(q \o u) = TypeUpdatesIn(q)
        /\ AsksFor(q, "Normal") => AsksFor(q \o u, "Normal")
    BY <1>3, QuietConcat
  <2> QED
    BY <1>3, <2>1
<1>4. PostflightConfigBundle(type) = a \o b \o c \o d \o LastSuccess
  BY DEF PostflightConfigBundle
<1> HIDE DEF a, b, c, d, Good
<1>5. Good(a \o b \o c \o d \o LastSuccess)
  BY <1>1, <1>2, <1>3, LastSuccessQuiet
<1> QED
  BY <1>4, <1>5 DEF Good

LEMMA PostflightCleaning ==
  ASSUME ServiceType, QueueInv, SeenInv, NEW t \in Threads, Postflight(t)
  PROVE  QueueInv' /\ SeenInv'
<1> DEFINE type == run[t].syncType
           u == PostflightConfigBundle(type)
<1>1. /\ run \in [Threads -> Runs] /\ run[t] \in Runs /\ type \in SyncTypes /\ owed \in SyncTypes
      /\ Sees(run[t], owed) /\ mainQueue \in Seq(Updates)
  BY DEF ServiceType, SeenInv, QueueInv, Runs
<1>2. /\ mainQueue' = mainQueue \o u /\ UNCHANGED <<syncState, stateFile>>
      /\ owed' = (IF type # "Normal" /\ ~(run[t].added /\ run[t].current) THEN "Normal" ELSE owed)
      /\ run' = [run EXCEPT ![t] = Idle]
  BY DEF Postflight, Enqueue, End
<1>3. owed' \in {owed, "Normal"} /\ (type # "Normal" => owed' = "Normal")
  BY <1>1, <1>2 DEF Sees
<1> HIDE DEF type, u
<1>4. QueueInv'
  <2>1. CASE type = "Normal"
    <3>1. u \in Seq(Updates) /\ TypeUpdatesIn(u) = {}
      BY <1>1, <2>1, BundleAsks DEF u
    <3> QED
      BY <1>2, <1>3, <3>1, QuietQueue
  <2>2. CASE type # "Normal"
    <3>1. u \in Seq(Updates) /\ TypeUpdatesIn(u) # {} /\ AsksFor(u, "Normal")
      BY <1>1, <2>2, BundleAsks DEF u
    <3>2. mainQueue' \in Seq(Updates) /\ TypeUpdatesIn(mainQueue') # {} /\ AsksFor(mainQueue', "Normal")
      BY <1>1, <1>2, <3>1, LastConcat
    <3>3. owed' = "Normal" /\ "Normal" \in SyncTypes
      BY <1>3, <2>2 DEF SyncTypes
    <3> QED
      BY <1>2, <3>2, <3>3 DEF QueueInv
  <2> QED
    BY <2>1, <2>2
<1>5. run' \in [Threads -> Runs] /\ \A v \in Threads : Follows(run'[v], run[v])
  BY <1>1, <1>2, IdleIsRun, IdleFollows, ThreadFollows
<1> QED
  BY <1>1, <1>3, <1>4, <1>5, FollowingSees

LEMMA StartJobCleaning ==
  ASSUME ServiceType, QueueInv, SeenInv, StartJob
  PROVE  QueueInv' /\ SeenInv'
<1> DEFINE job == Head(jobs)
           others == IF job.type = "Normal" THEN run ELSE Unseen
           next == [Idle EXCEPT !.kind = job.kind, !.stage = IF job.kind = "rule" THEN "download" ELSE "preflight"]
<1>1. /\ run \in [Threads -> Runs] /\ job \in Jobs /\ "syncQueue" \in Threads /\ mainQueue \in Seq(Updates)
      /\ syncState \in Settings /\ stateFile \in Settings
  <2>1. jobs \in Seq(Jobs) /\ jobs # <<>>
    BY DEF ServiceType, StartJob
  <2> QED
    BY <2>1, HeadTailProperties DEF ServiceType, QueueInv, Threads
<1>2. run' = others \/ run' = [others EXCEPT !["syncQueue"] = next]
  BY DEF StartJob
<1>3. IF job.type = "Normal" THEN QueueKept ELSE RequestType(job.type)
  BY DEF StartJob, configVars, QueueKept
<1>4. next \in Runs /\ ~next.current /\ ~next.added
  BY <1>1, IdleIsRun DEF Jobs, Runs
<1>5. CASE job.type = "Normal"
  <2>1. QueueInv' /\ owed' \in {owed, "Normal"} /\ owed \in SyncTypes
    BY <1>3, <1>5, QueueSame DEF QueueInv
  <2>2. others = run
    BY <1>5
  <2>3. Follows(next, run["syncQueue"])
    BY <1>4 DEF Follows
  <2> HIDE DEF next, others
  <2>4. run' \in [Threads -> Runs] /\ \A u \in Threads : Follows(run'[u], run[u])
    BY <1>1, <1>2, <1>4, <2>2, <2>3, SameFollows, ThreadFollows
  <2> QED
    BY <2>1, <2>4, FollowingSees
<1>6. CASE job.type # "Normal"
  <2>1. /\ mainQueue' = mainQueue \o Update("SyncTypeRequired", job.type) /\ owed' = job.type
        /\ UNCHANGED <<syncState, stateFile>> /\ job.type \in SyncTypes
    BY <1>1, <1>3, <1>6 DEF RequestType, Enqueue, Jobs
  <2>2. mainQueue' \in Seq(Updates) /\ TypeUpdatesIn(mainQueue') # {} /\ AsksFor(mainQueue', owed')
    BY <1>1, <2>1, RequestConcat
  <2>3. QueueInv'
    BY <1>1, <2>1, <2>2 DEF QueueInv
  <2>4. others = Unseen
    BY <1>6
  <2>5. \A u \in Threads : /\ [run[u] EXCEPT !.current = FALSE] \in Runs
                            /\ ~[run[u] EXCEPT !.current = FALSE].current
                            /\ [run[u] EXCEPT !.current = FALSE].added = run[u].added
                            /\ [run[u] EXCEPT !.current = FALSE].stage = run[u].stage
    BY <1>1 DEF Runs
  <2>6. Unseen = [u \in Threads |-> [run[u] EXCEPT !.current = FALSE]]
    BY DEF Unseen
  <2>7. \A u \in Threads : /\ ~others[u].current
                            /\ others[u].added = run[u].added /\ others[u].stage = run[u].stage
    <3> HIDE DEF others
    <3> QED
      BY <2>4, <2>5, <2>6
  <2>8. others \in [Threads -> Runs]
    BY <2>4, <2>6, <2>5
  <2> HIDE DEF next, others
  <2>9. \A u \in Threads : ~run'[u].current /\ (run'[u].added => run'[u].added = run[u].added /\ run'[u].stage = run[u].stage)
    BY <1>2, <1>4, <2>7, <2>8
  <2> QED
    BY <2>3, <2>9 DEF SeenInv, Sees
<1> QED
  BY <1>5, <1>6

LEMMA MainQueueCleaning ==
  ASSUME QueueInv, SeenInv, ServiceType, MainQueueRuns
  PROVE  QueueInv' /\ SeenInv'
<1> DEFINE key == Head(mainQueue).key
           value == Head(mainQueue).value
<1>1. /\ mainQueue # <<>> /\ mainQueue' = Tail(mainQueue) /\ run' = run
      /\ syncState' = [syncState EXCEPT ![key] = value]
      /\ stateFile' = (IF SyncStateAccessAuthorized THEN syncState' ELSE stateFile)
      /\ owed' = (IF key = "SyncTypeRequired" /\ ~SyncStateAccessAuthorized THEN "Normal" ELSE owed)
  BY DEF MainQueueRuns, ApplyUpdate, Saved, serviceVars
<1>2. /\ owed \in SyncTypes /\ mainQueue \in Seq(Updates) /\ AsksFor(mainQueue, owed)
      /\ syncState \in Settings /\ stateFile \in Settings
      /\ "Normal" \in SyncTypes
  BY DEF QueueInv, SyncTypes
<1>3. /\ mainQueue' \in Seq(Updates) /\ Head(mainQueue) \in Updates /\ AsksFor(mainQueue', owed)
      /\ TypeUpdatesIn(mainQueue') = {} =>
           IF key = "SyncTypeRequired" THEN value \in SyncTypes /\ Rank(value) >= Rank(owed)
           ELSE TypeUpdatesIn(mainQueue) = {}
  BY <1>1, <1>2, TailUpdates
<1>4. key \in Keys /\ value \in Values /\ (key = "SyncTypeRequired" => value \in SyncTypes)
  BY <1>3 DEF Updates
<1> HIDE DEF key, value
<1>5. syncState' \in Settings /\ stateFile' \in Settings /\ owed' \in SyncTypes
  <2>1. syncState' \in Settings
    <3>1. syncState \in [Keys -> Values] /\ syncState["SyncTypeRequired"] \in SyncTypes \cup {None}
      BY <1>2 DEF Settings
    <3>2. syncState' \in [Keys -> Values]
      BY <1>1, <1>4, <3>1
    <3>3. syncState'["SyncTypeRequired"] = IF key = "SyncTypeRequired" THEN value ELSE syncState["SyncTypeRequired"]
      BY <1>1, <3>1, SyncKeysAssumption
    <3> QED
      BY <1>4, <3>1, <3>2, <3>3 DEF Settings
  <2> QED
    BY <1>1, <1>2, <2>1
<1>6. AsksFor(mainQueue', owed')
  BY <1>1, <1>2, <1>3, AskNormal
<1>7. ASSUME TypeUpdatesIn(mainQueue') = {}, owed' # "Normal" PROVE Stored(syncState', owed) /\ Stored(stateFile', owed)
  <2>1. owed' = owed
    BY <1>1, <1>7
  <2>2. CASE key = "SyncTypeRequired"
    <3>1. SyncStateAccessAuthorized /\ value \in SyncTypes /\ Rank(value) >= Rank(owed)
      BY <1>1, <1>3, <1>7, <2>2
    <3>2. syncState'["SyncTypeRequired"] = value /\ stateFile' = syncState'
      BY <1>1, <1>2, <1>4, <2>2, <3>1 DEF Settings
    <3> QED
      BY <3>1, <3>2 DEF Stored
  <2>3. CASE key # "SyncTypeRequired"
    <3>1. Stored(syncState, owed) /\ Stored(stateFile, owed)
      BY <1>3, <1>7, <2>3 DEF QueueInv
    <3>2. syncState'["SyncTypeRequired"] = syncState["SyncTypeRequired"] /\ stateFile' \in {stateFile, syncState'}
      BY <1>1, <1>2, <2>3, SyncKeysAssumption
    <3> QED
      BY <3>1, <3>2 DEF Stored
  <2> QED
    BY <2>2, <2>3
<1>8. TypeUpdatesIn(mainQueue') = {} => Stored(syncState', owed') /\ Stored(stateFile', owed')
  BY <1>1, <1>7, StoredNormal
<1>9. QueueInv'
  BY <1>3, <1>5, <1>6, <1>8 DEF QueueInv
<1>10. run' \in [Threads -> Runs] /\ owed' \in {owed, "Normal"} /\ \A u \in Threads : Follows(run'[u], run[u])
  BY <1>1, SameFollows DEF ServiceType
<1> QED
  BY <1>2, <1>9, <1>10, FollowingSees

(* santad reads its file back: a request that was saved is there.           *)
LEMMA EmptyIsSettings == Empty \in Settings
BY SyncKeysAssumption DEF Empty, Values, Settings

LEMMA CrashCleaning == ASSUME QueueInv, SantadCrash PROVE QueueInv'
<1>1. /\ mainQueue' = <<>> /\ stateFile' = stateFile
      /\ syncState' = (IF profile["SyncBaseURL"] # None THEN readSyncStateFromDisk(stateFile) ELSE Empty)
      /\ owed' = (IF TypePending \/ profile["SyncBaseURL"] = None THEN "Normal" ELSE owed)
  BY DEF SantadCrash, StartConfigurator
<1>2. owed \in SyncTypes /\ stateFile \in Settings /\ "Normal" \in SyncTypes
  BY DEF QueueInv, SyncTypes
<1>3. readSyncStateFromDisk(stateFile)["SyncTypeRequired"] = stateFile["SyncTypeRequired"]
  BY SyncKeysAssumption DEF readSyncStateFromDisk, SyncServerKeyTypes, SyncOnly, RegexKeys
<1>4. Empty \in Settings /\ readSyncStateFromDisk(stateFile) \in Settings
  <2>1. stateFile \in [Keys -> Values] /\ stateFile["SyncTypeRequired"] \in SyncTypes \cup {None}
    BY <1>2 DEF Settings
  <2>2. readSyncStateFromDisk(stateFile) \in [Keys -> Values]
    BY <2>1 DEF readSyncStateFromDisk, expressionForPattern, Values
  <2> QED
    BY <1>3, <2>1, <2>2, EmptyIsSettings DEF Settings
<1>5. mainQueue' \in Seq(Updates) /\ TypeUpdatesIn(mainQueue') = {}
  BY <1>1, EmptySeq DEF TypeUpdatesIn
<1>6. AsksFor(mainQueue', owed')
  BY <1>5 DEF AsksFor
<1>7. Stored(syncState', owed') /\ Stored(stateFile', owed')
  <2>1. CASE owed' = "Normal"
    BY <2>1, StoredNormal
  <2>2. CASE owed' # "Normal"
    <3>1. owed' = owed /\ ~TypePending /\ syncState' = readSyncStateFromDisk(stateFile)
      BY <1>1, <2>2
    <3>2. Stored(stateFile, owed)
      BY <3>1 DEF QueueInv, TypePending, TypeUpdates, TypeUpdatesIn
    <3> QED
      BY <1>1, <1>3, <3>1, <3>2 DEF Stored
  <2> QED
    BY <2>1, <2>2
<1> QED
  BY <1>1, <1>2, <1>4, <1>5, <1>6, <1>7 DEF QueueInv

LEMMA DaemonCleaning ==
  ASSUME ServiceType, QueueInv, SeenInv, Daemon
  PROVE  QueueInv' /\ SeenInv'
<1>1. owed \in SyncTypes /\ run \in [Threads -> Runs]
  BY DEF QueueInv, ServiceType
<1>2. run' = run \/ run' = [t \in Threads |-> Idle]
  BY DEF Daemon, Bounce, Establish, TearDown, Clear, Install, MainQueueRuns, NoticeProfile,
         SantadCrash, ServiceCrash, TokenExpires, Disconnect, ServiceStart, serviceVars
<1>3. run' \in [Threads -> Runs] /\ \A u \in Threads : Follows(run'[u], run[u])
  BY <1>1, <1>2, IdleIsRun, IdleFollows, SameFollows
<1>4. ASSUME QueueInv', owed' \in {owed, "Normal"} PROVE QueueInv' /\ SeenInv'
  BY <1>1, <1>3, <1>4, FollowingSees
<1>5. CASE MainQueueRuns
  BY <1>5, MainQueueCleaning
<1>6. CASE SantadCrash
  <2>1. owed' \in {owed, "Normal"}
    BY <1>6 DEF SantadCrash
  <2> QED
    BY <1>4, <1>6, <2>1, CrashCleaning
<1>7. CASE Clear
  <2>1. syncState' = Empty /\ UNCHANGED <<stateFile, mainQueue>> /\ owed' = "Normal"
    BY <1>7 DEF Clear, ClearSyncState
  <2>2. Empty \in Settings /\ "Normal" \in SyncTypes
    BY EmptyIsSettings DEF SyncTypes
  <2>3. AsksFor(mainQueue, "Normal")
    BY <1>1, AskNormal DEF QueueInv
  <2>4. QueueInv'
    BY <2>1, <2>2, <2>3, StoredNormal DEF QueueInv
  <2> QED
    BY <1>4, <2>1, <2>4
<1>8. CASE \/ Bounce \/ Establish \/ TearDown \/ Install \/ ServiceCrash \/ TokenExpires
           \/ \E p \in Processes : NoticeProfile(p)
  <2>1. QueueKept
    BY <1>8 DEF Bounce, Establish, TearDown, Install, InstallProfile, ServiceCrash, TokenExpires, NoticeProfile,
                HandleChange, configVars, QueueKept
  <2> QED
    BY <1>4, <2>1, QueueSame
<1> QED
  BY <1>5, <1>6, <1>7, <1>8 DEF Daemon

LEMMA CleaningStep == CleaningInv /\ [Next]_vars => CleaningInv'
<1> SUFFICES ASSUME CleaningInv, [Next]_vars PROVE CleaningInv'
  OBVIOUS
<1>1. PermitInv' /\ ServiceType /\ QueueInv /\ SeenInv
  BY PermitsStep DEF CleaningInv, PermitInv
<1>2. owed \in SyncTypes /\ run \in [Threads -> Runs]
  BY <1>1 DEF QueueInv, ServiceType
<1>3. ASSUME QueueKept, run' \in [Threads -> Runs], \A u \in Threads : Follows(run'[u], run[u])
      PROVE  QueueInv' /\ SeenInv'
  BY <1>1, <1>2, <1>3, QueueSame, FollowingSees
<1>4. ASSUME QueueKept, run' = run PROVE QueueInv' /\ SeenInv'
  BY <1>2, <1>3, <1>4, SameFollows
<1>5. ASSUME \/ \E e \in Events : AddStoredEvent(e) \/ PostEvents(e)
             \/ FullSyncTimer \/ RuleSyncTimer
             \/ \E type \in {"Clean", "CleanAll"} : UserSync(type)
             \/ UNCHANGED vars
      PROVE  QueueKept /\ run' = run
  BY <1>5 DEF AddStoredEvent, PostEvents, FullSyncTimer, RuleSyncTimer, UserSync, vars, configVars, serviceVars, QueueKept
<1>6. ASSUME NEW kind \in {"rule", "push", "preflight"}, PushNotification(kind) PROVE QueueInv' /\ SeenInv'
  <2> DEFINE r == [Idle EXCEPT !.kind = kind, !.stage = "preflight"]
  <2>1. QueueKept /\ (run' = run \/ (kind # "rule" /\ run' = [run EXCEPT !["push"] = r]))
    BY <1>6 DEF PushNotification, configVars, QueueKept
  <2>2. kind # "rule" => r \in Runs /\ ~r.current /\ ~r.added
    BY IdleIsRun DEF Runs
  <2>3. "push" \in Threads
    BY DEF Threads
  <2> HIDE DEF r
  <2>4. kind # "rule" => Follows(r, run["push"])
    BY <2>2 DEF Follows
  <2>5. CASE run' = run
    BY <1>4, <2>1, <2>5
  <2>6. CASE kind # "rule" /\ run' = [run EXCEPT !["push"] = r]
    <3>1. run' \in [Threads -> Runs] /\ \A u \in Threads : Follows(run'[u], run[u])
      BY <1>2, <2>2, <2>3, <2>4, <2>6, ThreadFollows
    <3> QED
      BY <1>3, <2>1, <3>1
  <2> QED
    BY <2>1, <2>5, <2>6
<1>7. ASSUME NEW t \in Threads, Stage(t) PROVE QueueInv' /\ SeenInv'
  <2>1. ASSUME \/ Abort(t) \/ ReadPending(t) \/ UploadBatch(t)
               \/ \E some \in BOOLEAN : Download(t, some)
        PROVE  QueueInv' /\ SeenInv'
    <3>1. QueueKept /\ \A u \in Threads : Follows(run'[u], run[u])
      BY <1>1, <2>1, QuietStage
    <3>2. run' \in [Threads -> Runs]
      BY <1>1 DEF PermitInv, ServiceType
    <3> QED
      BY <1>3, <3>1, <3>2
  <2> QED
    BY <1>1, <1>7, <2>1, PreflightCleaning, AddRulesCleaning, PostflightCleaning DEF Stage
<1>8. QueueInv' /\ SeenInv'
  BY <1>1, <1>4, <1>5, <1>6, <1>7, DaemonCleaning, StartJobCleaning DEF Next
<1> QED
  BY <1>1, <1>8 DEF CleaningInv

LEMMA CleaningInit == SyncInit => CleaningInv
<1> SUFFICES ASSUME SyncInit PROVE CleaningInv
  OBVIOUS
<1>1. /\ owed = "Normal" /\ mainQueue = <<>> /\ syncState = Empty /\ stateFile = Empty
      /\ run = [t \in Threads |-> Idle]
  BY DEF SyncInit, ConfigInit
<1>2. Empty \in Settings /\ "Normal" \in SyncTypes /\ mainQueue \in Seq(Updates)
  BY <1>1, EmptyIsSettings, EmptySeq DEF SyncTypes
<1>3. TypeUpdatesIn(mainQueue) = {}
  BY <1>1 DEF TypeUpdatesIn
<1>4. AsksFor(mainQueue, owed)
  BY <1>3 DEF AsksFor
<1>5. QueueInv
  BY <1>1, <1>2, <1>4, StoredNormal DEF QueueInv
<1>6. SeenInv
  BY <1>1, IdleIsRun DEF SeenInv, Sees
<1> QED
  BY <1>5, <1>6, PermitsInit DEF CleaningInv

(* Cleaning that a user asked for stays required, across failed syncs and   *)
(* crashes of either process, until rules were added with that much         *)
(* cleaning at least: the last update that is queued asks for it, or the    *)
(* setting that the next preflight reads (syncTypeRequired).                *)
THEOREM CleaningAlwaysKept == Spec => []CleaningKept
<1>1. CleaningInv => CleaningKept
  <2> SUFFICES ASSUME CleaningInv PROVE CleaningKept
    OBVIOUS
  <2>1. QueueInv /\ AsksFor(mainQueue, owed) /\ owed \in SyncTypes
    BY DEF CleaningInv, QueueInv
  <2>2. TypeUpdates = TypeUpdatesIn(mainQueue)
    BY DEF TypeUpdates, TypeUpdatesIn
  <2>3. TypeUpdates = {} => Rank(syncTypeRequired) >= Rank(owed)
    BY <2>1, <2>2, RequiredCovers
  <2>4. \A i \in TypeUpdates :
          (\A j \in TypeUpdates : j <= i) => Rank(mainQueue[i].value) >= Rank(owed)
    BY <2>1, <2>2 DEF AsksFor
  <2> QED
    BY <2>3, <2>4 DEF CleaningKept
<1> QED
  BY <1>1, CleaningInit, CleaningStep, PTL DEF Spec
=============================================================================
