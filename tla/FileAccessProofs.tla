--------------------------- MODULE FileAccessProofs ---------------------------
(***************************************************************************)
(* Proofs about FileAccess, for any rules, processes, files and bounds: the *)
(* rate limiter never runs dry and never logs too much (RateLimited), a    *)
(* watched process stays watched while a policy for it remains             *)
(* (WatchKept), the prefix tree finds a longest rule whatever the order in *)
(* which the rules were inserted (TreesSound), and every answer is the one *)
(* of rules in force during the access or of a cache filled under such     *)
(* rules (AnswersJustified).                                               *)
(***************************************************************************)
EXTENDS FileAccess, FiniteSetTheorems, WellFoundedInduction, TLAPS

(***************************************************************************)
(* Accesses on their way, and the handler that looks up a policy for one   *)
(***************************************************************************)
Keys == {"access", "from", "pc", "pols", "how", "override", "time"}
IsOp(o) == o = [k \in Keys |-> o[k]]
OpOK(o) == o = Idle \/ (IsOp(o) /\ o.time \in 1..MaxAccesses /\ o.pc # "idle")

OpShape == /\ op = [c \in Clients |-> [p \in Procs |-> op[c][p]]]
           /\ \A c \in Clients, p \in Procs : OpOK(op[c][p])
Finding == handler.pc \in {"find", "store"} =>
               /\ handler.proc \in Procs
               /\ op["process"][handler.proc].pc = "finding"
OpInv == accesses \in 0..MaxAccesses /\ OpShape /\ Finding

\* A record of an access keeps its form, and the time of its arrival.
LEMMA OpUpdated ==
    ASSUME NEW o, OpOK(o), o.pc # "idle", NEW pc, pc # "idle", NEW pols, NEW how
    PROVE  /\ OpOK([o EXCEPT !.pc = pc, !.pols = pols])
           /\ OpOK([o EXCEPT !.pc = pc])
           /\ OpOK(Answered(o, how))
  <1>1. IsOp(o) /\ o.time \in 1..MaxAccesses
    BY DEF OpOK, Idle
  <1>2. LET r == [o EXCEPT !.pc = pc, !.pols = pols] IN IsOp(r) /\ r.pc = pc /\ r.time = o.time
    BY <1>1 DEF IsOp, Keys
  <1>3. LET r == [o EXCEPT !.pc = pc] IN IsOp(r) /\ r.pc = pc /\ r.time = o.time
    BY <1>1 DEF IsOp, Keys
  <1>4. LET r == Answered(o, how) IN IsOp(r) /\ r.pc = "answer" /\ r.time = o.time
    BY <1>1 DEF IsOp, Keys, Answered
  <1>. QED
    BY <1>1, <1>2, <1>3, <1>4 DEF OpOK

\* A new access has a time of its own.
LEMMA OpStarted ==
    ASSUME NEW a, NEW from, NEW pc, pc # "idle", NEW pols, NEW how,
           accesses \in 0..MaxAccesses, accesses < MaxAccesses
    PROVE  LET o == Started(a, from, pc)
           IN  /\ OpOK(o)
               /\ OpOK([o EXCEPT !.pc = "decide", !.pols = pols])
               /\ OpOK([o EXCEPT !.pc = "finding"])
               /\ [o EXCEPT !.pc = "finding"].pc = "finding"
               /\ OpOK(Answered(o, how))
  <1>. DEFINE o == Started(a, from, pc)
  <1>1. IsOp(o) /\ o.time = accesses + 1 /\ o.pc = pc
    BY DEF IsOp, Keys, Started
  <1>2. OpOK(o) /\ o.pc # "idle"
    BY <1>1, FileAccessAssumption DEF OpOK
  <1>3. [o EXCEPT !.pc = "finding"].pc = "finding"
    BY <1>1 DEF IsOp, Keys
  <1>. HIDE DEF o
  <1>4. /\ OpOK([o EXCEPT !.pc = "decide", !.pols = pols])
        /\ OpOK([o EXCEPT !.pc = "finding"])
        /\ OpOK(Answered(o, how))
    BY <1>2, OpUpdated
  <1>. QED
    BY <1>2, <1>3, <1>4 DEF o

\* Storing an access leaves the others alone.
LEMMA OpStored ==
    ASSUME OpShape, NEW c \in Clients, NEW p \in Procs, NEW o, OpOK(o), SetOp(c, p, o)
    PROVE  /\ OpShape'
           /\ op'[c][p] = o
           /\ \A d \in Clients, q \in Procs : <<d, q>> # <<c, p>> => op'[d][q] = op[d][q]
  <1>1. op' = [op EXCEPT ![c][p] = o]
    BY DEF SetOp
  <1>2. op = [d \in Clients |-> [q \in Procs |-> op[d][q]]]
    BY DEF OpShape
  <1>3. \A d \in Clients : op'[d] = IF d = c THEN [op[d] EXCEPT ![p] = o] ELSE op[d]
    BY <1>1, <1>2
  <1>4. \A d \in Clients : op[d] = [q \in Procs |-> op[d][q]]
    BY <1>2
  <1>5. \A d \in Clients, q \in Procs : op'[d][q] = IF d = c /\ q = p THEN o ELSE op[d][q]
    BY <1>3, <1>4
  <1>6. \A d \in Clients : op'[d] = [q \in Procs |-> op'[d][q]]
    BY <1>3, <1>4
  <1>7. op' = [d \in Clients |-> op'[d]]
    BY <1>1, <1>2
  <1>8. op' = [d \in Clients |-> [q \in Procs |-> op'[d][q]]]
    BY <1>6, <1>7
  <1>. QED
    BY <1>5, <1>8 DEF OpShape

LEMMA OpInvInit == Init => OpInv
  BY FileAccessAssumption DEF Init, OpInv, OpShape, Finding, OpOK, Idle

\* Which actions touch the accesses on their way.
LEMMA OpRest ==
    ASSUME [Next]_vars
    PROVE  \/ UNCHANGED <<op, handler, accesses>>
           \/ \E c \in Clients, p \in Procs, a \in Accesses : FileAccess(c, p, a)
           \/ \E p \in Procs : LookupData(p) \/ Fork(p)
           \/ \E c \in Clients, p \in Procs : ProcessMessage(c, p) \/ Respond(c, p)
           \/ FindPolicy \/ StorePolicy \/ ForkStart
  <1>1. CASE UNCHANGED vars
    BY <1>1 DEF vars
  <1>2. CASE ProbeInterest \/ ProbeStart \/ Execed
    BY <1>2 DEF ProbeInterest, ProbeStart, Execed
  <1>3. CASE Reconfigure
    BY <1>3 DEF Reconfigure, ChangeRules, TellCount, Enable, Disable, SetOverride, SetProtection,
       SetRateLimit, Change, Setting
  <1>4. CASE \E p \in Procs : Exit(p) \/ \E i \in DOMAIN Images : Exec(p, i)
    BY <1>4 DEF Exit, Exec
  <1>5. CASE \E c \in Clients, p \in Procs : DeadlineResponds(c, p)
    BY <1>5 DEF DeadlineResponds
  <1>. QED
    BY <1>1, <1>2, <1>3, <1>4, <1>5 DEF Next, Client, Answer, Live

LEMMA OpInvFileAccess ==
    ASSUME OpInv, NEW c \in Clients, NEW p \in Procs, NEW a \in Accesses, FileAccess(c, p, a)
    PROVE  OpInv'
  <1>1. accesses \in 0..MaxAccesses /\ accesses < MaxAccesses /\ accesses' = accesses + 1
        /\ op[c][p].pc = "idle" /\ MaxAccesses \in Nat
    BY FileAccessAssumption DEF FileAccess, OpInv
  <1>2. accesses' \in 0..MaxAccesses
    BY <1>1
  <1>3. CASE c = "data"
    <2>1. PICK o : OpOK(o) /\ SetOp("data", p, o) /\ UNCHANGED handler
      <3>1. HandleData(p, a) \/ IgnoreMessage("data", p, a)
        BY <1>3 DEF FileAccess
      <3>2. /\ OpOK(Started(a, Version, "queued"))
            /\ OpOK(Answered(Started(a, Version, "queued"), "off"))
            /\ OpOK(Answered(Started(a, Version, "queued"), "reads"))
            /\ OpOK(Answered(Started(a, Version, "queued"), "ignored"))
        BY <1>1, OpStarted
      <3>. QED
        BY <3>1, <3>2 DEF HandleData, IgnoreMessage
    <2>2. OpShape' /\ \A d \in Clients, q \in Procs : <<d, q>> # <<"data", p>> => op'[d][q] = op[d][q]
      BY <1>3, <2>1, OpStored DEF OpInv
    <2>3. \A q \in Procs : op'["process"][q] = op["process"][q]
      BY <2>2 DEF Clients
    <2>. QED
      BY <1>2, <2>1, <2>2, <2>3 DEF OpInv, Finding
  <1>4. CASE c = "process"
    <2>1. PICK o : /\ OpOK(o) /\ SetOp("process", p, o)
                   /\ \/ UNCHANGED handler
                      \/ handler' = [pc |-> "find", proc |-> p] /\ o.pc = "finding"
      <3>1. HandleProcess(p, a) \/ IgnoreMessage("process", p, a)
        BY <1>4 DEF FileAccess, Clients
      <3>. DEFINE s == Started(a, told, "queued")
                  skipped == Answered(Started(a, Version, "queued"), "ignored")
      <3>2. /\ OpOK(Answered(s, "off"))
            /\ OpOK(Answered(s, "reads"))
            /\ OpOK([s EXCEPT !.pc = "decide", !.pols = SamePolicy(a, procCache[p])])
            /\ OpOK([s EXCEPT !.pc = "finding"]) /\ [s EXCEPT !.pc = "finding"].pc = "finding"
            /\ OpOK(skipped)
        BY <1>1, OpStarted
      <3>. HIDE DEF s, skipped
      <3>3. \/ SetOp("process", p, Answered(s, "off")) /\ UNCHANGED handler
            \/ SetOp("process", p, Answered(s, "reads")) /\ UNCHANGED handler
            \/ SetOp("process", p, [s EXCEPT !.pc = "decide", !.pols = SamePolicy(a, procCache[p])])
               /\ UNCHANGED handler
            \/ /\ SetOp("process", p, [s EXCEPT !.pc = "finding"])
               /\ handler' = [pc |-> "find", proc |-> p]
            \/ SetOp("process", p, skipped) /\ UNCHANGED handler
        BY <3>1 DEF HandleProcess, IgnoreMessage, s, skipped
      <3>. QED
        BY <3>2, <3>3
    <2>2. /\ OpShape' /\ op'["process"][p] = o
          /\ \A q \in Procs : q # p => op'["process"][q] = op["process"][q]
      <3>1. "process" \in Clients /\ OpShape
        BY DEF Clients, OpInv
      <3>2. \A q \in Procs : q # p => <<"process", q>> # <<"process", p>>
        OBVIOUS
      <3>. QED
        BY <2>1, <3>1, <3>2, OpStored
    <2>3. handler.pc = "idle"
      BY <1>4 DEF FileAccess, HandleProcess, IgnoreMessage
    <2>4. Finding'
      BY <2>1, <2>2, <2>3 DEF Finding
    <2>. QED
      BY <1>2, <2>2, <2>4 DEF OpInv
  <1>. QED
    BY <1>3, <1>4 DEF Clients

LEMMA OpInvStep ==
    ASSUME OpInv, [Next]_vars
    PROVE  OpInv'
  <1>1. CASE UNCHANGED <<op, handler, accesses>>
    BY <1>1 DEF OpInv, OpShape, Finding
  <1>2. CASE \E c \in Clients, p \in Procs, a \in Accesses : FileAccess(c, p, a)
    BY <1>2, OpInvFileAccess
  <1>3. ASSUME NEW c \in Clients, NEW p \in Procs, NEW o, OpOK(o), SetOp(c, p, o),
               op[c][p].pc # "finding", UNCHANGED <<handler, accesses>>
        PROVE  OpInv'
    <2>1. OpShape' /\ \A d \in Clients, q \in Procs : <<d, q>> # <<c, p>> => op'[d][q] = op[d][q]
      BY <1>3, OpStored DEF OpInv
    <2>2. Finding'
      <3>1. SUFFICES ASSUME handler.pc \in {"find", "store"}
                     PROVE  op'["process"][handler.proc].pc = "finding" /\ handler.proc \in Procs
        BY <1>3 DEF Finding
      <3>2. handler.proc \in Procs /\ op["process"][handler.proc].pc = "finding" /\ "process" \in Clients
        BY <3>1 DEF OpInv, Finding, Clients
      <3>3. <<"process", handler.proc>> # <<c, p>>
        BY <1>3, <3>2
      <3>. QED
        BY <2>1, <3>2, <3>3
    <2>. QED
      BY <1>3, <2>1, <2>2 DEF OpInv
  <1>4. CASE \E p \in Procs : LookupData(p)
    <2>. PICK p \in Procs : LookupData(p)
      BY <1>4
    <2>1. "data" \in Clients /\ OpOK(op["data"][p]) /\ op["data"][p].pc = "queued"
      BY DEF LookupData, Clients, OpInv, OpShape
    <2>2. PICK pols : SetOp("data", p, [op["data"][p] EXCEPT !.pc = "decide", !.pols = pols])
      BY DEF LookupData
    <2>3. OpOK([op["data"][p] EXCEPT !.pc = "decide", !.pols = pols])
      BY <2>1, OpUpdated
    <2>4. UNCHANGED <<handler, accesses>>
      BY DEF LookupData
    <2>. QED
      BY <1>3, <2>1, <2>2, <2>3, <2>4
  <1>5. CASE \E c \in Clients, p \in Procs : ProcessMessage(c, p)
    <2>. PICK c \in Clients, p \in Procs : ProcessMessage(c, p)
      BY <1>5
    <2>1. OpOK(op[c][p]) /\ op[c][p].pc = "decide"
      BY DEF ProcessMessage, OpInv, OpShape
    <2>2. PICK how : SetOp(c, p, Answered(op[c][p], how))
      BY DEF ProcessMessage
    <2>3. OpOK(Answered(op[c][p], how))
      BY <2>1, OpUpdated
    <2>4. UNCHANGED <<handler, accesses>>
      BY DEF ProcessMessage
    <2>. QED
      BY <1>3, <2>1, <2>2, <2>3, <2>4
  <1>6. CASE \E c \in Clients, p \in Procs : Respond(c, p)
    <2>. PICK c \in Clients, p \in Procs : Respond(c, p)
      BY <1>6
    <2>1. op[c][p].pc = "answer" /\ SetOp(c, p, Idle) /\ UNCHANGED <<handler, accesses>>
      BY DEF Respond
    <2>2. OpOK(Idle)
      BY DEF OpOK
    <2>. QED
      BY <1>3, <2>1, <2>2
  <1>7. CASE FindPolicy
    <2>1. handler'.pc = "store" /\ handler'.proc = handler.proc /\ handler.pc = "find" /\ UNCHANGED <<op, accesses>>
      BY <1>7 DEF FindPolicy
    <2>. QED
      BY <2>1 DEF OpInv, OpShape, Finding
  <1>8. CASE StorePolicy
    <2>. DEFINE p == handler.proc
    <2>1. p \in Procs /\ op["process"][p].pc = "finding" /\ "process" \in Clients /\ OpOK(op["process"][p])
      BY <1>8 DEF StorePolicy, OpInv, OpShape, Finding, Clients
    <2>2. \/ \E pols : SetOp("process", p, [op["process"][p] EXCEPT !.pc = "decide", !.pols = pols])
          \/ SetOp("process", p, Answered(op["process"][p], "nopolicy"))
      BY <1>8 DEF StorePolicy
    <2>3. PICK o : OpOK(o) /\ SetOp("process", p, o)
      BY <2>1, <2>2, OpUpdated
    <2>4. handler'.pc = "idle" /\ UNCHANGED accesses
      BY <1>8 DEF StorePolicy
    <2>. HIDE DEF p
    <2>5. OpShape'
      BY <2>1, <2>3, OpStored DEF OpInv
    <2>. QED
      BY <2>4, <2>5 DEF OpInv, Finding
  <1>9. CASE ForkStart \/ \E p \in Procs : Fork(p)
    <2>1. handler'.pc \notin {"find", "store"} /\ UNCHANGED <<op, accesses>>
      BY <1>9 DEF ForkStart, Fork
    <2>. QED
      BY <2>1 DEF OpInv, OpShape, Finding
  <1>. QED
    BY <1>1, <1>2, <1>4, <1>5, <1>6, <1>7, <1>8, <1>9, OpRest


(***************************************************************************)
(* The rate limiter                                                        *)
(***************************************************************************)
\* A window that will come to an end, and that has logged no more than it may.
Fields == {"on", "count", "reset", "window"}
LimiterOK(l) ==
    /\ l = [k \in Fields |-> l[k]]
    /\ l.on \in BOOLEAN /\ l.count \in Nat /\ l.reset \in Nat /\ l.window \in Nat
    /\ l.on => /\ l.reset <= MaxAccesses + Window
               /\ l.reset = 0 \/ (l.window <= l.count /\ l.window <= MaxLogs)

\* A decision keeps the window in bounds, whether or not it starts a new one (Decide).
LEMMA Decided ==
    ASSUME NEW l, LimiterOK(l), NEW t \in 1..MaxAccesses
    PROVE  LimiterOK(Decide(l, t))
  <1>. DEFINE r == IF t > l.reset THEN [l EXCEPT !.count = 0, !.reset = t + Window, !.window = 0] ELSE l
              w == IF r.on => r.count < MaxLogs THEN r.window + 1 ELSE r.window
  <1>1. MaxAccesses \in Nat /\ Window \in Nat /\ Window > 0 /\ MaxLogs \in Nat /\ MaxLogs > 0
    BY FileAccessAssumption
  <1>2. /\ l = [k \in Fields |-> l[k]]
        /\ l.on \in BOOLEAN /\ l.count \in Nat /\ l.reset \in Nat /\ l.window \in Nat
    BY DEF LimiterOK
  <1>3. /\ r = [k \in Fields |-> r[k]] /\ r.on = l.on
        /\ r.count \in Nat /\ r.reset \in Nat /\ r.window \in Nat
    <2>1. CASE t > l.reset
      <3>1. r = [l EXCEPT !.count = 0, !.reset = t + Window, !.window = 0]
        BY <2>1
      <3>2. r = [k \in Fields |-> IF k = "count" THEN 0 ELSE IF k = "reset" THEN t + Window
                                 ELSE IF k = "window" THEN 0 ELSE l[k]]
        BY <1>2, <3>1 DEF Fields
      <3>. HIDE DEF r
      <3>3. r = [k \in Fields |-> r[k]] /\ r.on = l.on /\ r.count = 0 /\ r.reset = t + Window /\ r.window = 0
        BY <3>2 DEF Fields
      <3>. QED
        BY <1>1, <3>3
    <2>2. CASE ~(t > l.reset)
      BY <1>2, <2>2
    <2>. QED
      BY <2>1, <2>2
  <1>4. l.on => /\ r.reset <= MaxAccesses + Window /\ r.reset > 0
                /\ r.window <= r.count /\ r.window <= MaxLogs
    <2>1. CASE t > l.reset
      <3>1. r = [l EXCEPT !.count = 0, !.reset = t + Window, !.window = 0]
        BY <2>1
      <3>2. r.count = 0 /\ r.reset = t + Window /\ r.window = 0
        BY <1>2, <3>1 DEF Fields
      <3>. QED
        BY <1>1, <3>2
    <2>2. CASE ~(t > l.reset)
      BY <1>1, <1>2, <2>2 DEF LimiterOK
    <2>. QED
      BY <2>1, <2>2
  <1>5. Decide(l, t) = [r EXCEPT !.count = @ + 1, !.window = IF r.on => r.count < MaxLogs THEN @ + 1 ELSE @]
    BY DEF Decide
  <1>. HIDE DEF r
  <1>6. w \in Nat /\ (l.on => w <= r.count + 1 /\ w <= MaxLogs)
    BY <1>1, <1>3, <1>4
  <1>7. Decide(l, t) = [r EXCEPT !.count = r.count + 1, !.window = w]
    BY <1>3, <1>5 DEF Fields
  <1>. HIDE DEF w
  <1>8. LET d == Decide(l, t)
        IN  d = [k \in Fields |-> d[k]] /\ d.on = r.on /\ d.count = r.count + 1 /\ d.reset = r.reset /\ d.window = w
    BY <1>3, <1>7 DEF Fields
  <1>. QED
    BY <1>2, <1>3, <1>4, <1>6, <1>8 DEF LimiterOK

RateInv == OpInv /\ LimiterOK(limiter)

LEMMA RateInvInit == Init => RateInv
  <1>. SUFFICES ASSUME Init
                PROVE  LimiterOK(limiter)
    BY OpInvInit DEF RateInv
  <1>1. limiter = [on |-> FALSE, count |-> 0, reset |-> Never, window |-> 0] /\ Never \in Nat
    BY FileAccessAssumption DEF Init, Never
  <1>. QED
    BY <1>1 DEF LimiterOK, Fields

LEMMA RateInvStep ==
    ASSUME RateInv, [Next]_vars
    PROVE  RateInv'
  <1>1. OpInv'
    BY OpInvStep DEF RateInv
  <1>2. CASE UNCHANGED limiter
    BY <1>1, <1>2 DEF RateInv
  <1>3. CASE \E c \in Clients, p \in Procs : ProcessMessage(c, p)
    <2>. PICK c \in Clients, p \in Procs : ProcessMessage(c, p)
      BY <1>3
    <2>1. op[c][p].time \in 1..MaxAccesses
      BY DEF ProcessMessage, RateInv, OpInv, OpShape, OpOK, Idle
    <2>2. PICK ds : limiter' = LogTelemetry(ds, op[c][p].time)
      BY DEF ProcessMessage
    <2>3. \A l, k : LimiterOK(l) => LimiterOK(Log(l, ds, k, op[c][p].time))
      BY <2>1, Decided DEF Log
    <2>4. LimiterOK(limiter')
      BY <2>2, <2>3 DEF LogTelemetry, RateInv
    <2>. QED
      BY <1>1, <2>4 DEF RateInv
  <1>4. CASE \E on \in BOOLEAN : SetRateLimit(on)
    <2>. PICK on \in BOOLEAN : SetRateLimit(on)
      BY <1>4
    <2>1. limiter' = [limiter EXCEPT !.on = on, !.reset = IF on THEN 0 ELSE Never]
      BY DEF SetRateLimit, ModifySettings
    <2>2. PICK reset : /\ reset = IF on THEN 0 ELSE Never
                       /\ limiter' = [limiter EXCEPT !.on = on, !.reset = reset]
      BY <2>1
    <2>3. reset \in Nat /\ (on => reset = 0)
      BY <2>2, FileAccessAssumption DEF Never
    <2>4. /\ limiter' = [k \in Fields |-> limiter'[k]]
          /\ limiter'.on = on /\ limiter'.reset = reset
          /\ limiter'.count = limiter.count /\ limiter'.window = limiter.window
      BY <2>2 DEF RateInv, LimiterOK, Fields
    <2>5. LimiterOK(limiter')
      BY <2>3, <2>4, FileAccessAssumption DEF RateInv, LimiterOK
    <2>. QED
      BY <1>1, <2>5 DEF RateInv
  <1>5. \/ UNCHANGED limiter
        \/ \E c \in Clients, p \in Procs : ProcessMessage(c, p)
        \/ \E on \in BOOLEAN : SetRateLimit(on)
    <2>1. CASE UNCHANGED vars
      BY <2>1 DEF vars
    <2>2. CASE \/ \E c \in Clients, p \in Procs : Respond(c, p) \/ \E a \in Accesses : FileAccess(c, p, a)
               \/ \E c \in Clients, p \in Procs : DeadlineResponds(c, p)
               \/ \E p \in Procs : LookupData(p)
      BY <2>2 DEF Respond, DeadlineResponds, FileAccess, LookupData
    <2>3. CASE Client
      BY <2>3 DEF Client, FindPolicy, StorePolicy, ForkStart, ProbeInterest, ProbeStart, Execed
    <2>4. CASE \E p \in Procs : Live(p)
      BY <2>4 DEF Live, Fork, Exit, Exec
    <2>5. CASE \/ \E c \in Configs : ChangeRules(c)
               \/ TellCount \/ Enable \/ Disable
               \/ \E o \in {"none", "audit", "disable"} : SetOverride(o)
               \/ \E on \in BOOLEAN : SetProtection(on)
      BY <2>5 DEF ChangeRules, TellCount, Enable, Disable, SetOverride, SetProtection
    <2>. QED
      BY <2>1, <2>2, <2>3, <2>4, <2>5 DEF Next, Answer, Reconfigure
  <1>. QED
    BY <1>2, <1>3, <1>4, <1>5

\* While the limits are on, there is always a next window, and the one that runs
\* has logged no more than it may: whatever the settings were before, whenever
\* the accesses came, and in whatever order they were decided
\* (ModifySettingsSerialized, Decide).
THEOREM AlwaysRateLimited == Spec => []RateLimited
  <1>1. RateInv => RateLimited
    BY FileAccessAssumption DEF RateInv, LimiterOK, RateLimited, Never
  <1>. QED
    BY <1>1, RateInvInit, RateInvStep, PTL DEF Spec

\* There is a first one of a set of numbers.
LEMMA LeastExists ==
    ASSUME NEW T \in SUBSET Nat, T # {}
    PROVE  \E x \in T : \A y \in T : x <= y
  <1>1. \E x \in T : \A y \in T : ~(<<y, x>> \in OpToRel(<, Nat))
    BY NatLessThanWellFounded, WFMin, Zenon
  <1>2. \A x, y \in T : ~(<<y, x>> \in OpToRel(<, Nat)) => x <= y
    BY DEF OpToRel
  <1>. QED
    BY <1>1, <1>2

(***************************************************************************)
(* The trees                                                               *)
(***************************************************************************)
LEMMA PrefixMember ==
    ASSUME NEW S, NEW s \in Seq(S), NEW n
    PROVE  n \in PrefixesOf(s) <=> n \in Seq(S) /\ n # <<>> /\ IsPrefix(n, s)
  <1>1. ASSUME n \in PrefixesOf(s)
        PROVE  n \in Seq(S) /\ n # <<>> /\ IsPrefix(n, s)
    <2>1. PICK k \in 1..Len(s) : n = SubSeq(s, 1, k)
      BY <1>1 DEF PrefixesOf
    <2>2. n \in Seq(S) /\ Len(n) = k
      BY <2>1
    <2>3. SubSeq(n, 1, k) = n
      BY <2>2
    <2>. QED
      BY <2>1, <2>2, <2>3 DEF IsPrefix
  <1>2. ASSUME n \in Seq(S), n # <<>>, IsPrefix(n, s)
        PROVE  n \in PrefixesOf(s)
    <2>1. SubSeq(n, 1, Len(n)) = n /\ Len(n) \in 1..Len(s)
      BY <1>2 DEF IsPrefix
    <2>. QED
      BY <1>2, <2>1 DEF IsPrefix, PrefixesOf
  <1>. QED
    BY <1>1, <1>2

LEMMA PrefixesFinite ==
    ASSUME NEW S, NEW s \in Seq(S)
    PROVE  IsFiniteSet(PrefixesOf(s)) /\ (s # <<>> => s \in PrefixesOf(s))
  <1>. DEFINE f == [k \in 1..Len(s) |-> SubSeq(s, 1, k)]
  <1>1. IsFiniteSet(1..Len(s))
    BY FS_Interval
  <1>2. f \in Surjection(1..Len(s), PrefixesOf(s))
    BY DEF PrefixesOf, Surjection
  <1>3. IsFiniteSet(PrefixesOf(s))
    BY <1>1, <1>2, FS_Surjection
  <1>4. IsPrefix(s, s)
    BY DEF IsPrefix
  <1>. QED
    BY <1>3, <1>4, PrefixMember

\* A prefix of a prefix is a prefix.
LEMMA PrefixOfPrefix ==
    ASSUME NEW S, NEW s \in Seq(S), NEW n \in PrefixesOf(s)
    PROVE  PrefixesOf(n) \subseteq PrefixesOf(s)
  <1>1. PICK k \in 1..Len(s) : n = SubSeq(s, 1, k)
    BY DEF PrefixesOf
  <1>2. n \in Seq(S) /\ Len(n) = k
    BY <1>1
  <1>3. ASSUME NEW j \in 1..Len(n)
        PROVE  SubSeq(n, 1, j) = SubSeq(s, 1, j)
    BY <1>1, <1>2
  <1>4. 1..Len(n) \subseteq 1..Len(s)
    BY <1>2
  <1>. QED
    BY <1>3, <1>4 DEF PrefixesOf

\* What a tree is made of, when the first k of some paths have been inserted: nodes
\* down to max_depth_ and all of their prefixes, no more than the counter says; the
\* ends of the paths that fit, each with its value; and inner nodes.
Fits(x) == Len(x.file) <= MaxDepth
End(x, value) == [type |-> IF x.prefix THEN "prefix" ELSE "literal", value |-> value]
ArePaths(n, paths) == \A i \in 1..n : paths[i].file \in Seq(STRING) \ {<<>>} /\ paths[i].prefix \in BOOLEAN
IsTree(t) ==
    /\ IsFiniteSet(DOMAIN t.nodes) /\ t.count \in Nat /\ Cardinality(DOMAIN t.nodes) <= t.count
    /\ \A s \in DOMAIN t.nodes : s \in Seq(STRING) /\ Len(s) <= MaxDepth /\ PrefixesOf(s) \subseteq DOMAIN t.nodes
Holds(t, k, paths, values) ==
    /\ \A i \in 1..k : Fits(paths[i]) => /\ paths[i].file \in DOMAIN t.nodes
                                        /\ t.nodes[paths[i].file] = End(paths[i], values[i])
    /\ \A s \in DOMAIN t.nodes : (\A i \in 1..k : paths[i].file # s) => t.nodes[s].type = "inner"

\* Inserting a path keeps a tree a tree: the counter covers the new nodes.
LEMMA InsertTree ==
    ASSUME NEW t, IsTree(t), NEW s \in Seq(STRING), s # <<>>, NEW value, NEW type
    PROVE  IsTree(InsertLocked(t, s, value, type))
  <1>. DEFINE u == InsertLocked(t, s, value, type)
              D == DOMAIN t.nodes
              P == PrefixesOf(s)
  <1>1. CASE ~Inserts(t, s)
    BY <1>1 DEF InsertLocked
  <1>2. CASE Inserts(t, s)
    <2>1. u = [count |-> NewCount(t, s),
               nodes |-> [n \in D \cup P |-> IF n = s THEN [type |-> type, value |-> value]
                                           ELSE IF n \in D THEN t.nodes[n]
                                           ELSE [type |-> "inner", value |-> NoValue]]]
      BY <1>2 DEF InsertLocked
    <2>2. u.count = NewCount(t, s) /\ DOMAIN u.nodes = D \cup P
      BY <2>1
    <2>3. IsFiniteSet(D) /\ IsFiniteSet(P) /\ s \in P
      BY PrefixesFinite DEF IsTree
    <2>4. \A n \in D : n \in Seq(STRING) /\ Len(n) <= MaxDepth /\ PrefixesOf(n) \subseteq D
      BY DEF IsTree
    <2>5. \A n \in P : n \in Seq(STRING) /\ Len(n) <= Len(s) /\ PrefixesOf(n) \subseteq P
      BY PrefixMember, PrefixOfPrefix DEF IsPrefix
    <2>6. Len(s) <= MaxDepth
      BY <1>2, <2>4 DEF Inserts
    <2>7. t.count \in Nat /\ Cardinality(D) <= t.count /\ Cardinality(D) \in Nat
      BY <2>3, FS_CardinalityType DEF IsTree
    <2>. HIDE DEF u, D, P
    <2>8. /\ IsFiniteSet(D \cup P)
          /\ NewCount(t, s) \in Nat /\ Cardinality(D \cup P) <= NewCount(t, s)
      <3>1. CASE s \in D
        <4>1. D \cup P = D
          BY <2>4, <3>1 DEF P
        <4>2. NewCount(t, s) = t.count + IF t.nodes[s].type = "inner" THEN 1 ELSE 0
          BY <3>1 DEF NewCount, D
        <4>3. Cardinality(D \cup P) = Cardinality(D) /\ IsFiniteSet(D \cup P)
          BY <2>3, <4>1, Zenon
        <4>. QED
          BY <2>7, <4>2, <4>3
      <3>2. CASE s \notin D
        <4>1. NewCount(t, s) = t.count + Cardinality(P \ D)
          BY <3>2 DEF NewCount, D, P
        <4>. DEFINE N == P \ D
        <4>2. IsFiniteSet(N) /\ Cardinality(N) \in Nat
          BY <2>3, FS_Difference, FS_CardinalityType
        <4>3. D \cap N = {} /\ D \cup P = D \cup N
          OBVIOUS
        <4>. HIDE DEF N
        <4>4. /\ IsFiniteSet(D \cup N)
              /\ Cardinality(D \cup N) = Cardinality(D) + Cardinality(N) - Cardinality(D \cap N)
          BY <2>3, <4>2, FS_Union
        <4>5. Cardinality(D \cap N) = 0
          BY <4>3, FS_EmptySet
        <4>6. Cardinality(D \cup P) = Cardinality(D \cup N) /\ IsFiniteSet(D \cup P)
          BY <4>3, <4>4, Zenon
        <4>7. NewCount(t, s) = t.count + Cardinality(N)
          BY <4>1 DEF N
        <4>. QED
          BY <2>7, <4>2, <4>4, <4>5, <4>6, <4>7
      <3>. QED
        BY <3>1, <3>2
    <2>9. \A n \in D \cup P : n \in Seq(STRING) /\ Len(n) <= MaxDepth /\ PrefixesOf(n) \subseteq D \cup P
      <3>1. \A n \in P : Len(n) \in Nat /\ Len(s) \in Nat
        BY <2>5
      <3>. QED
        BY <2>4, <2>5, <2>6, <3>1, MaxDepthAssumption
    <2>10. IsTree(u)
      BY <2>2, <2>8, <2>9 DEF IsTree
    <2>. QED
      BY <2>10 DEF u
  <1>. QED
    BY <1>1, <1>2

\* The next path gets its end, and nobody else loses one.
LEMMA InsertHolds ==
    ASSUME NEW n \in Nat, NEW paths, NEW values, NEW t, IsTree(t), NEW k \in 1..n,
           ArePaths(n, paths), \A i, j \in 1..n : paths[i].file = paths[j].file => i = j,
           Holds(t, k - 1, paths, values)
    PROVE  LET u == Insert(t, paths[k], values[k]) IN IsTree(u) /\ Holds(u, k, paths, values)
  <1>. DEFINE s == paths[k].file
              type == End(paths[k], values[k]).type
              u == Insert(t, paths[k], values[k])
              D == DOMAIN t.nodes
  <1>1. u = InsertLocked(t, s, values[k], type)
    BY DEF Insert, InsertPrefix, InsertLiteral, End
  <1>2. s \in Seq(STRING) /\ s # <<>>
    BY DEF ArePaths
  <1>3. IsTree(u)
    BY <1>1, <1>2, InsertTree
  <1>4. \A i \in 1..k : i = k \/ (i \in 1..(k - 1) /\ paths[i].file # s)
    OBVIOUS
  <1>5. \A i \in 1..(k - 1) : i \in 1..k
    OBVIOUS
  <1>6. CASE ~Inserts(t, s)
    <2>1. u = t
      BY <1>1, <1>6 DEF InsertLocked
    <2>2. ~Fits(paths[k]) /\ s \notin DOMAIN t.nodes
      BY <1>2, <1>6 DEF Inserts, Fits
    <2>. HIDE DEF u, s
    <2>3. ASSUME NEW i \in 1..k, Fits(paths[i])
          PROVE  paths[i].file \in DOMAIN t.nodes /\ t.nodes[paths[i].file] = End(paths[i], values[i])
      BY <1>4, <2>2, <2>3 DEF Holds
    <2>4. ASSUME NEW m \in DOMAIN t.nodes, \A i \in 1..k : paths[i].file # m
          PROVE  t.nodes[m].type = "inner"
      BY <1>5, <2>4 DEF Holds
    <2>5. Holds(u, k, paths, values)
      BY <2>1, <2>3, <2>4 DEF Holds
    <2>. QED
      BY <1>3, <2>5 DEF u
  <1>7. CASE Inserts(t, s)
    <2>1. u.nodes = [m \in D \cup PrefixesOf(s) |-> IF m = s THEN [type |-> type, value |-> values[k]]
                                                ELSE IF m \in D THEN t.nodes[m]
                                                ELSE [type |-> "inner", value |-> NoValue]]
      BY <1>1, <1>7 DEF InsertLocked
    <2>2. s \in PrefixesOf(s)
      BY <1>2, PrefixesFinite
    <2>3. [type |-> type, value |-> values[k]] = End(paths[k], values[k])
      BY DEF End
    <2>. HIDE DEF u, s, type, D
    <2>4. /\ DOMAIN u.nodes = D \cup PrefixesOf(s)
          /\ u.nodes[s] = End(paths[k], values[k])
          /\ \A m \in DOMAIN u.nodes : m # s => u.nodes[m] = IF m \in D THEN t.nodes[m]
                                                        ELSE [type |-> "inner", value |-> NoValue]
      BY <2>1, <2>2, <2>3
    <2>5. ASSUME NEW i \in 1..k, Fits(paths[i])
          PROVE  paths[i].file \in DOMAIN u.nodes /\ u.nodes[paths[i].file] = End(paths[i], values[i])
      <3>1. CASE i = k
        BY <2>2, <2>4, <3>1 DEF s
      <3>2. CASE i \in 1..(k - 1) /\ paths[i].file # s
        <4>1. paths[i].file \in D /\ t.nodes[paths[i].file] = End(paths[i], values[i])
          BY <2>5, <3>2 DEF Holds, D
        <4>. QED
          BY <2>4, <3>2, <4>1
      <3>. QED
        BY <1>4, <3>1, <3>2
    <2>6. ASSUME NEW m \in DOMAIN u.nodes, \A i \in 1..k : paths[i].file # m
          PROVE  u.nodes[m].type = "inner"
      <3>1. m # s
        BY <2>6 DEF s
      <3>2. CASE m \in D
        <4>1. t.nodes[m].type = "inner"
          BY <1>5, <2>6, <3>2 DEF Holds, D
        <4>. QED
          BY <2>4, <3>1, <3>2, <4>1
      <3>3. CASE m \notin D
        BY <2>4, <3>1, <3>3
      <3>. QED
        BY <3>2, <3>3
    <2>7. Holds(u, k, paths, values)
      BY <2>5, <2>6 DEF Holds
    <2>. QED
      BY <1>3, <2>7 DEF u
  <1>. QED
    BY <1>6, <1>7

\* The trees on the way, one for each path that has been inserted.
Growing(g, m, paths, values) ==
    g = [k \in 0..m |-> IF k = 0 THEN EmptyTree ELSE Insert(g[k - 1], paths[k], values[k])]

LEMMA GrowingExists ==
    ASSUME NEW n \in Nat, NEW paths, NEW values
    PROVE  \E g : Growing(g, n, paths, values)
  <1>. DEFINE T == {m \in 0..n : ~\E g : Growing(g, m, paths, values)}
  <1>1. SUFFICES ASSUME T # {}
                 PROVE  FALSE
    OBVIOUS
  <1>2. PICK m \in T : \A y \in T : m <= y
    <2>. T \in SUBSET Nat
      OBVIOUS
    <2>. HIDE DEF T
    <2>. QED
      BY <1>1, LeastExists
  <1>3. m # 0
    <2>. DEFINE g == [k \in 0..0 |-> EmptyTree]
    <2>1. g = [k \in 0..0 |-> IF k = 0 THEN EmptyTree ELSE Insert(g[k - 1], paths[k], values[k])]
      OBVIOUS
    <2>. HIDE DEF g
    <2>2. Growing(g, 0, paths, values)
      BY <2>1 DEF Growing
    <2>. QED
      BY <2>2
  <1>4. m - 1 \in 0..n /\ m - 1 \notin T /\ m \in 1..n
    BY <1>2, <1>3
  <1>5. PICK g : Growing(g, m - 1, paths, values)
    BY <1>4
  <1>. DEFINE h == [k \in 0..m |-> IF k = m THEN Insert(g[m - 1], paths[m], values[m]) ELSE g[k]]
  <1>6. \A k \in 0..(m - 1) : g[k] = IF k = 0 THEN EmptyTree ELSE Insert(g[k - 1], paths[k], values[k])
    BY <1>4, <1>5 DEF Growing
  <1>7. ASSUME NEW k \in 0..m
        PROVE  h[k] = IF k = 0 THEN EmptyTree ELSE Insert(h[k - 1], paths[k], values[k])
    <2>1. CASE k = 0
      BY <1>4, <1>6, <2>1
    <2>2. CASE k = m
      BY <1>4, <2>2
    <2>3. CASE k \in 1..(m - 1)
      <3>1. h[k] = g[k] /\ h[k - 1] = g[k - 1]
        BY <1>4, <2>3
      <3>. QED
        BY <1>4, <1>6, <2>3, <3>1
    <2>. QED
      BY <1>4, <2>1, <2>2, <2>3
  <1>8. h = [k \in 0..m |-> h[k]]
    OBVIOUS
  <1>. HIDE DEF h
  <1>9. h = [k \in 0..m |-> IF k = 0 THEN EmptyTree ELSE Insert(h[k - 1], paths[k], values[k])]
    BY <1>7, <1>8
  <1>10. Growing(h, m, paths, values)
    BY <1>9 DEF Growing
  <1>. QED
    BY <1>10

\* Every end that was inserted is in the tree, in whatever order they came.
LEMMA TreeFromHolds ==
    ASSUME NEW paths, NEW values, Len(paths) \in Nat,
           ArePaths(Len(paths), paths),
           \A i, j \in 1..Len(paths) : paths[i].file = paths[j].file => i = j
    PROVE  IsTree(TreeFrom(paths, values)) /\ Holds(TreeFrom(paths, values), Len(paths), paths, values)
  <1>. DEFINE n == Len(paths)
  <1>1. \E g : Growing(g, n, paths, values)
    BY GrowingExists
  <1>2. TreeFrom(paths, values) = (CHOOSE g : Growing(g, n, paths, values))[n]
    BY DEF TreeFrom, Growing
  <1>3. PICK g : Growing(g, n, paths, values) /\ TreeFrom(paths, values) = g[n]
    BY <1>1, <1>2
  <1>. DEFINE T == {k \in 0..n : ~(IsTree(g[k]) /\ Holds(g[k], k, paths, values))}
  <1>4. ASSUME T # {}
        PROVE  FALSE
    <2>1. PICK k \in T : \A y \in T : k <= y
      <3>. T \in SUBSET Nat
        OBVIOUS
      <3>. HIDE DEF T
      <3>. QED
        BY <1>4, LeastExists
    <2>2. \A i \in 0..n : g[i] = IF i = 0 THEN EmptyTree ELSE Insert(g[i - 1], paths[i], values[i])
      BY <1>3 DEF Growing
    <2>3. IsTree(EmptyTree) /\ Holds(EmptyTree, 0, paths, values)
      BY FS_EmptySet DEF EmptyTree, IsTree, Holds
    <2>4. k # 0
      BY <2>2, <2>3
    <2>5. k \in 1..n /\ k - 1 \in 0..n /\ k - 1 \notin T
      BY <2>1, <2>4
    <2>6. IsTree(g[k - 1]) /\ Holds(g[k - 1], k - 1, paths, values)
      BY <2>5
    <2>7. IsTree(Insert(g[k - 1], paths[k], values[k])) /\ Holds(Insert(g[k - 1], paths[k], values[k]), k, paths, values)
      BY <2>5, <2>6, InsertHolds
    <2>8. g[k] = Insert(g[k - 1], paths[k], values[k])
      BY <2>2, <2>5
    <2>. QED
      BY <2>1, <2>7, <2>8
  <1>5. n \in 0..n
    OBVIOUS
  <1>6. IsTree(g[n]) /\ Holds(g[n], n, paths, values)
    BY <1>4, <1>5
  <1>. QED
    BY <1>3, <1>6

\* What a lookup may find: the ends that cover the file, and nothing else.
LEMMA MatchingPaths ==
    ASSUME NEW t, NEW n \in Nat, NEW paths, NEW values, IsTree(t), Holds(t, n, paths, values),
           NEW f \in Seq(STRING),
           ArePaths(n, paths), \A i \in 1..n : IsPrefix(paths[i].file, f) => Fits(paths[i])
    PROVE  /\ \A m \in Matching(t, f) : \E i \in 1..n : m = paths[i].file /\ Covers(paths[i], f)
           /\ \A i \in 1..n : Covers(paths[i], f) => /\ paths[i].file \in Matching(t, f)
                                                   /\ t.nodes[paths[i].file] = End(paths[i], values[i])
  <1>1. ASSUME NEW m \in Matching(t, f)
        PROVE  \E i \in 1..n : m = paths[i].file /\ Covers(paths[i], f)
    <2>1. /\ m \in PrefixesOf(f) /\ m \in DOMAIN t.nodes
          /\ t.nodes[m].type = "prefix" \/ (m = f /\ t.nodes[m].type = "literal")
      BY DEF Matching
    <2>2. IsPrefix(m, f)
      BY <2>1, PrefixMember
    <2>3. PICK i \in 1..n : paths[i].file = m
      BY <2>1 DEF Holds
    <2>4. t.nodes[m] = End(paths[i], values[i])
      BY <2>2, <2>3 DEF Holds
    <2>5. t.nodes[m].type = IF paths[i].prefix THEN "prefix" ELSE "literal"
      BY <2>4 DEF End
    <2>6. Covers(paths[i], f)
      BY <2>1, <2>2, <2>3, <2>5 DEF Covers
    <2>. QED
      BY <2>3, <2>6
  <1>2. ASSUME NEW i \in 1..n, Covers(paths[i], f)
        PROVE  paths[i].file \in Matching(t, f) /\ t.nodes[paths[i].file] = End(paths[i], values[i])
    <2>. DEFINE m == paths[i].file
    <2>1. IsPrefix(m, f) /\ (~paths[i].prefix => m = f)
      BY <1>2 DEF Covers, IsPrefix
    <2>2. m \in PrefixesOf(f)
      BY <2>1, PrefixMember DEF ArePaths
    <2>3. m \in DOMAIN t.nodes /\ t.nodes[m] = End(paths[i], values[i])
      BY <2>1 DEF Holds
    <2>4. t.nodes[m].type = IF paths[i].prefix THEN "prefix" ELSE "literal"
      BY <2>3 DEF End
    <2>. QED
      BY <2>1, <2>2, <2>3, <2>4 DEF Matching
  <1>. QED
    BY <1>1, <1>2

\* The value that a lookup finds is that of a longest path that covers the file.
LEMMA LookupLongest ==
    ASSUME NEW t, NEW n \in Nat, NEW paths, NEW values, IsTree(t), Holds(t, n, paths, values),
           NEW f \in Seq(STRING),
           ArePaths(n, paths), \A i \in 1..n : IsPrefix(paths[i].file, f) => Fits(paths[i])
    PROVE  LET v == LookupLongestMatchingPrefix(t, f)
           IN  IF \E i \in 1..n : Covers(paths[i], f)
               THEN \E i \in 1..n : /\ v = values[i] /\ Covers(paths[i], f)
                                   /\ \A j \in 1..n : Covers(paths[j], f) => Len(paths[j].file) <= Len(paths[i].file)
               ELSE v = NoValue
  <1>. DEFINE M == Matching(t, f)
              v == LookupLongestMatchingPrefix(t, f)
  <1>. HIDE DEF v, M
  <1>0. M = Matching(t, f)
    BY DEF M
  <1>1. /\ \A m \in M : \E i \in 1..n : m = paths[i].file /\ Covers(paths[i], f)
        /\ \A i \in 1..n : Covers(paths[i], f) => /\ paths[i].file \in M
                                                /\ t.nodes[paths[i].file] = End(paths[i], values[i])
    <2>1. /\ \A m \in Matching(t, f) : \E i \in 1..n : m = paths[i].file /\ Covers(paths[i], f)
          /\ \A i \in 1..n : Covers(paths[i], f) => /\ paths[i].file \in Matching(t, f)
                                                  /\ t.nodes[paths[i].file] = End(paths[i], values[i])
      BY MatchingPaths
    <2>. QED
      BY <2>1, <1>0
  <1>. USE DEF v, M
  <1>2. CASE M = {}
    BY <1>1, <1>2 DEF LookupLongestMatchingPrefix, ContainsLocked
  <1>3. CASE M # {}
    <2>1. \A m \in M : m \in Seq(STRING) /\ Len(m) \in 0..Len(f)
      BY PrefixMember DEF Matching, IsPrefix
    <2>2. \E m \in M : \A l \in M : Len(l) <= Len(m)
      <3>. DEFINE T == {Len(f) - Len(m) : m \in M}
      <3>1. T \in SUBSET Nat /\ T # {}
        BY <1>3, <2>1
      <3>2. PICK x \in T : \A y \in T : x <= y
        <4>. HIDE DEF T
        <4>. QED
          BY <3>1, LeastExists
      <3>3. PICK m \in M : x = Len(f) - Len(m)
        BY <3>2
      <3>4. \A l \in M : Len(f) - Len(m) <= Len(f) - Len(l)
        BY <3>2, <3>3
      <3>5. \A l \in M : Len(l) \in Nat /\ Len(m) \in Nat /\ Len(f) \in Nat
        BY <2>1
      <3>6. \A l \in M : Len(l) <= Len(m)
        BY <3>4, <3>5
      <3>. QED
        BY <3>6
    <2>3. PICK m : m = CHOOSE x \in M : \A l \in M : Len(l) <= Len(x)
      OBVIOUS
    <2>4. m \in M /\ \A l \in M : Len(l) <= Len(m)
      BY <2>2, <2>3
    <2>5. v = t.nodes[m].value
      BY <1>3, <2>3 DEF LookupLongestMatchingPrefix, ContainsLocked
    <2>. HIDE DEF M, v
    <2>6. PICK i \in 1..n : m = paths[i].file /\ Covers(paths[i], f)
      BY <1>1, <2>4
    <2>7. t.nodes[m] = End(paths[i], values[i])
      BY <1>1, <2>6
    <2>8. v = values[i]
      BY <2>5, <2>7 DEF End
    <2>9. \A j \in 1..n : Covers(paths[j], f) => Len(paths[j].file) <= Len(paths[i].file)
      BY <1>1, <2>4, <2>6
    <2>. QED
      BY <2>6, <2>8, <2>9 DEF v
  <1>. QED
    BY <1>2, <1>3

\* The orders in which a set of rules may come list every rule once.
LEMMA OrdersOfRules ==
    ASSUME NEW N, IsFiniteSet(N), NEW s \in SetToSeqs(N)
    PROVE  /\ Cardinality(N) \in Nat /\ s \in [1..Cardinality(N) -> N]
           /\ \A i, j \in 1..Cardinality(N) : s[i] = s[j] => i = j
           /\ \A x \in N : \E i \in 1..Cardinality(N) : s[i] = x
  <1>. DEFINE n == Cardinality(N)
  <1>1. n \in Nat
    BY FS_CardinalityType
  <1>2. s \in [1..n -> N] /\ \A i, j \in 1..n : i # j => s[i] # s[j]
    BY DEF SetToSeqs
  <1>3. s \in Injection(1..n, N)
    BY <1>2 DEF Injection, IsInjective
  <1>4. IsFiniteSet(1..n) /\ Cardinality(1..n) = n
    <2>1. IsFiniteSet(1..n) /\ Cardinality(1..n) = IF 1 > n THEN 0 ELSE n - 1 + 1
      BY <1>1, FS_Interval
    <2>. QED
      BY <1>1, <2>1
  <1>5. s \in Surjection(1..n, N)
    BY <1>3, <1>4, FS_Injection
  <1>. QED
    BY <1>1, <1>2, <1>5 DEF Surjection

LEMMA DataRulesFinite ==
    ASSUME NEW c \in Configs
    PROVE  /\ Parsed(RulesIn[c].data) \subseteq DOMAIN Rules
           /\ IsFiniteSet(Parsed(RulesIn[c].data))
           /\ DataRules[c] = Parsed(RulesIn[c].data)
  <1>1. Parsed(RulesIn[c].data) \subseteq DOMAIN Rules
    BY FileAccessAssumption DEF Parsed
  <1>. QED
    BY <1>1, UnambiguousRules, FS_Subset DEF DataRules

\* The policies that are loaded are those of the dictionary, and no policy is one.
LEMMA LoadedProcs ==
    ASSUME NEW c \in Configs
    PROVE  /\ Loaded[c] \in Loads(c)
           /\ Loaded[c].procs = Parsed(RulesIn[c].proc)
           /\ \A i : NoValue \notin Found(Loaded[c], i)
  <1>. DEFINE N == Parsed(RulesIn[c].data)
  <1>1. PICK f : f \in Bijection(1..Cardinality(N), N)
    BY DataRulesFinite, FS_CardinalityType DEF ExistsBijection
  <1>2. f \in SetToSeqs(N)
    BY <1>1 DEF Bijection, Injection, IsInjective, SetToSeqs
  <1>3. Loads(c) # {}
    BY <1>2 DEF Loads, DataTrees
  <1>4. Loaded[c] \in Loads(c)
    BY <1>3 DEF Loaded
  <1>5. Loaded[c].procs = Parsed(RulesIn[c].proc)
    BY <1>4 DEF Loads
  <1>6. NoValue \notin Parsed(RulesIn[c].proc)
    BY FileAccessAssumption DEF Parsed
  <1>. QED
    BY <1>4, <1>5, <1>6 DEF Found

ListsRules(c, t, n, s) ==
    LET paths == [k \in 1..n |-> Rules[s[k]].path]
    IN  /\ ArePaths(n, paths) /\ IsTree(t) /\ Holds(t, n, paths, s)
        /\ \A x \in DataRules[c] : \E k \in 1..n : s[k] = x

\* The tree of a dictionary holds its rules, in the order in which they came.
LEMMA LoadedTree ==
    ASSUME NEW c \in Configs, NEW r \in Loads(c)
    PROVE  \E n \in Nat : \E s \in [1..n -> DataRules[c]] : ListsRules(c, r.data, n, s)
  <1>. DEFINE N == Parsed(RulesIn[c].data)
              n == Cardinality(N)
  <1>1. IsFiniteSet(N) /\ DataRules[c] = N /\ N \subseteq DOMAIN Rules
    BY DataRulesFinite
  <1>2. PICK s \in SetToSeqs(N) : r.data = TreeFrom([k \in DOMAIN s |-> Rules[s[k]].path], s)
    BY DEF Loads, DataTrees
  <1>3. /\ n \in Nat /\ s \in [1..n -> N]
        /\ \A i, j \in 1..n : s[i] = s[j] => i = j
        /\ \A x \in N : \E i \in 1..n : s[i] = x
    BY <1>1, OrdersOfRules
  <1>. DEFINE paths == [k \in 1..n |-> Rules[s[k]].path]
  <1>4. r.data = TreeFrom(paths, s)
    BY <1>2, <1>3
  <1>5. \A k \in 1..n : s[k] \in N /\ paths[k] = Rules[s[k]].path
    BY <1>3
  <1>6. Len(paths) = n
    <2>1. paths \in [1..n -> {paths[k] : k \in 1..n}]
      OBVIOUS
    <2>2. paths \in Seq({paths[k] : k \in 1..n})
      BY <1>3, <2>1
    <2>. QED
      BY <1>3, <2>2
  <1>7. ArePaths(n, paths)
    <2>1. \A k \in 1..n : paths[k] \in RulePaths
      BY <1>1, <1>5 DEF RulePaths
    <2>. HIDE DEF paths
    <2>. QED
      BY <2>1, UnambiguousRules DEF ArePaths
  <1>8. \A i, j \in 1..n : paths[i].file = paths[j].file => i = j
    BY <1>3, <1>5, UnambiguousRules
  <1>. HIDE DEF paths
  <1>9. IsTree(r.data) /\ Holds(r.data, n, paths, s)
    BY <1>3, <1>4, <1>6, <1>7, <1>8, TreeFromHolds
  <1>10. \A x \in DataRules[c] : \E k \in 1..n : s[k] = x
    BY <1>1, <1>3
  <1>11. ListsRules(c, r.data, n, s)
    BY <1>7, <1>9, <1>10 DEF ListsRules, paths
  <1>12. n \in Nat /\ s \in [1..n -> DataRules[c]]
    BY <1>1, <1>3
  <1>. HIDE DEF n
  <1>. QED
    BY <1>11, <1>12

\* What a rule for a path is: the lookups of a tree find a longest one.
LEMMA LookupGoverns ==
    ASSUME NEW c \in Configs, NEW r \in Loads(c), NEW f \in Files
    PROVE  LookupLongestMatchingPrefix(r.data, f) \in
               IF Governing(c, f) = {} THEN {NoValue} ELSE Governing(c, f)
  <1>0. PICK n \in Nat : \E s \in [1..n -> DataRules[c]] : ListsRules(c, r.data, n, s)
    BY LoadedTree
  <1>1. PICK s \in [1..n -> DataRules[c]] : ListsRules(c, r.data, n, s)
    BY <1>0
  <1>. DEFINE paths == [k \in 1..n |-> Rules[s[k]].path]
              v == LookupLongestMatchingPrefix(r.data, f)
  <1>2. /\ ArePaths(n, paths) /\ IsTree(r.data) /\ Holds(r.data, n, paths, s)
        /\ \A x \in DataRules[c] : \E k \in 1..n : s[k] = x
    BY <1>1 DEF ListsRules
  <1>3. \A k \in 1..n : paths[k] = Rules[s[k]].path /\ s[k] \in DataRules[c]
    OBVIOUS
  <1>. HIDE DEF paths
  <1>4. f \in Seq(STRING) /\ DataRules[c] \subseteq DOMAIN Rules
    BY FileAccessAssumption, DataRulesFinite
  <1>5. \A k \in 1..n : IsPrefix(paths[k].file, f) => Fits(paths[k])
    <2>1. \A k \in 1..n : paths[k] \in RulePaths
      BY <1>3, <1>4 DEF RulePaths
    <2>. QED
      BY <2>1, UnambiguousRules DEF Fits
  <1>6. IF \E k \in 1..n : Covers(paths[k], f)
        THEN \E k \in 1..n : /\ v = s[k] /\ Covers(paths[k], f)
                            /\ \A j \in 1..n : Covers(paths[j], f) => Len(paths[j].file) <= Len(paths[k].file)
        ELSE v = NoValue
    <2>. HIDE DEF v
    <2>1. v = LookupLongestMatchingPrefix(r.data, f)
      BY DEF v
    <2>. QED
      BY <1>2, <1>4, <1>5, <2>1, LookupLongest, SMTT(20)
  <1>. HIDE DEF v
  <1>. DEFINE C == {x \in DataRules[c] : Covers(Rules[x].path, f)}
  <1>7. Governing(c, f) = {x \in C : \A m \in C : Len(Rules[m].path.file) <= Len(Rules[x].path.file)}
    BY DEF Governing
  <1>8. CASE \E k \in 1..n : Covers(paths[k], f)
    <2>1. PICK k \in 1..n : /\ v = s[k] /\ Covers(paths[k], f)
                            /\ \A j \in 1..n : Covers(paths[j], f) => Len(paths[j].file) <= Len(paths[k].file)
      BY <1>6, <1>8
    <2>2. v \in C
      BY <1>3, <2>1
    <2>3. \A m \in C : Len(Rules[m].path.file) <= Len(Rules[v].path.file)
      BY <1>2, <1>3, <2>1, SMTT(20)
    <2>. HIDE DEF C
    <2>4. v \in Governing(c, f)
      BY <1>7, <2>2, <2>3
    <2>. QED
      BY <2>4 DEF v
  <1>9. CASE ~\E k \in 1..n : Covers(paths[k], f)
    <2>1. C = {}
      BY <1>2, <1>3, <1>9
    <2>2. v = NoValue
      BY <1>6, <1>9
    <2>. QED
      BY <1>7, <2>1, <2>2 DEF v
  <1>. QED
    BY <1>8, <1>9

LEMMA AllConfigsSound == SoundConfigs = Configs
  <1>1. ASSUME NEW c \in Configs, NEW r \in Loads(c)
        PROVE  StackFits(r.data)
    BY LoadedTree DEF ListsRules, IsTree, StackFits
  <1>. QED
    BY <1>1, LookupGoverns DEF SoundConfigs


(***************************************************************************)
(* Who is watched                                                          *)
(***************************************************************************)
LEMMA NextProcIsNew == HasNext => NextProc \in Procs /\ life[NextProc] = "new"
  <1>. SUFFICES ASSUME HasNext
                PROVE  \E p \in Procs : life[p] = "new" /\ \A q \in Procs : life[q] = "new" => p <= q
    BY DEF NextProc
  <1>. DEFINE N == {p \in Procs : life[p] = "new"}
  <1>1. N \in SUBSET Nat /\ N # {}
    BY FileAccessAssumption DEF HasNext
  <1>. QED
    BY <1>1, LeastExists

\* What is remembered of a process that no rule knew of.
Unknown(p, v) == v \in 1..Version /\ born[p] <= v /\ Found(Loaded[rules[v]], image[p]) = {}

\* A lasting policy: some rules under which p lives have none for it.
Let(p) == \E v \in born[p]..Version : Found(Loaded[rules[v]], image[p]) = {}

Living ==
    /\ rules \in Seq(Configs) /\ Version >= 1
    /\ life = [p \in Procs |-> life[p]]
    /\ image = [p \in Procs |-> image[p]]
    /\ born = [p \in Procs |-> born[p]]
    /\ \A p \in Procs : born[p] \in 0..Version /\ (life[p] = "new" => born[p] = 0)
\* The process that the handler is busy with runs, and does not end meanwhile.
Handling == handler.pc # "idle" =>
    /\ handler.proc \in Procs /\ life[handler.proc] = "running"
    /\ handler.pc = "store" /\ handler.pol = NoValue => Unknown(handler.proc, handler.version)
\* The process that is being executed has not started.
Probing == probe.pc # "idle" =>
    /\ probe.proc \in Procs /\ probe.from \in Procs /\ life[probe.proc] = "execing"
    /\ probe.pc = "start" => probe.version \in 1..Version
KeptAt(p) == life[p] # "gone" /\ born[p] > 0 /\ p \notin missed /\ ~Let(p) => p \in watched
Kept == \A p \in Procs : KeptAt(p)
KeepInv == Living /\ Handling /\ Probing /\ Kept

LEMMA KeepInvInit == Init => KeepInv
  <1>. SUFFICES ASSUME Init
                PROVE  KeepInv
    OBVIOUS
  <1>1. rules = <<InitialConfig>> /\ handler.pc = "idle" /\ probe.pc = "idle" /\ watched = {FirstProc}
    BY DEF Init
  <1>2. rules \in Seq(Configs) /\ Version = 1
    BY <1>1, FileAccessAssumption DEF Version
  <1>3. /\ life = [p \in Procs |-> IF p = FirstProc THEN "running" ELSE "new"]
        /\ image = [p \in Procs |-> First]
        /\ born = [p \in Procs |-> IF p = FirstProc THEN 1 ELSE 0]
    BY DEF Init
  <1>4. Living
    BY <1>2, <1>3 DEF Living
  <1>5. Kept
    BY <1>1, <1>3 DEF Kept, KeptAt
  <1>. QED
    BY <1>1, <1>4, <1>5 DEF KeepInv, Handling, Probing

\* A process is kept by what neither replaces the rules nor touches the process.
LEMMA KeptFrame ==
    ASSUME UNCHANGED rules, NEW p \in Procs, KeptAt(p), image'[p] = image[p], born'[p] = born[p],
           life'[p] # "gone" => life[p] # "gone",
           p \in watched => p \in watched', p \in missed => p \in missed'
    PROVE  KeptAt(p)'
  <1>1. Let(p)' <=> Let(p)
    BY DEF Let, Version
  <1>. QED
    BY <1>1 DEF KeptAt

LEMMA KeepInvFrame ==
    ASSUME KeepInv, UNCHANGED <<rules, process, probe>>,
           \A p \in Procs : p \in watched => p \in watched', UNCHANGED missed,
           Handling'
    PROVE  KeepInv'
  <1>1. UNCHANGED <<life, image, born>>
    BY DEF process
  <1>2. Living' /\ Probing'
    BY <1>1 DEF KeepInv, Living, Probing, Version
  <1>3. Kept'
    BY <1>1, KeptFrame DEF KeepInv, Kept
  <1>. QED
    BY <1>2, <1>3 DEF KeepInv

LEMMA HandlingFrame ==
    ASSUME Handling, UNCHANGED <<rules, handler, life, image, born>>
    PROVE  Handling'
  BY DEF Handling, Unknown, Version

LEMMA KeepAccesses ==
    ASSUME KeepInv,
           \/ UNCHANGED vars
           \/ \E c \in Clients, p \in Procs : Respond(c, p) \/ ProcessMessage(c, p) \/ DeadlineResponds(c, p)
           \/ \E c \in Clients, p \in Procs, a \in Accesses : FileAccess(c, p, a)
           \/ \E p \in Procs : LookupData(p)
           \/ TellCount \/ Enable
           \/ \E o \in {"none", "audit", "disable"} : SetOverride(o)
           \/ \E on \in BOOLEAN : SetProtection(on) \/ SetRateLimit(on)
    PROVE  KeepInv'
  <1>1. CASE UNCHANGED <<rules, process, handler, probe, watched, missed>>
    <2>1. Handling'
      BY <1>1, HandlingFrame DEF KeepInv, process
    <2>. QED
      BY <1>1, <2>1, KeepInvFrame
  <1>2. ASSUME NEW c \in Clients, NEW p \in Procs, NEW a \in Accesses, FileAccess(c, p, a)
        PROVE  KeepInv'
    <2>1. UNCHANGED <<rules, process, probe, watched, missed>> /\ life[p] = "running"
      BY <1>2 DEF FileAccess, policies
    <2>2. CASE UNCHANGED handler
      BY <1>1, <2>1, <2>2
    <2>3. CASE handler' = [pc |-> "find", proc |-> p]
      <3>1. Handling'
        BY <2>1, <2>3 DEF Handling, process
      <3>. QED
        BY <2>1, <3>1, KeepInvFrame
    <2>. QED
      BY <1>2, <2>2, <2>3 DEF FileAccess, HandleData, HandleProcess, IgnoreMessage
  <1>3. CASE UNCHANGED vars
    BY <1>1, <1>3 DEF vars, policies
  <1>4. CASE \/ \E c \in Clients, p \in Procs : Respond(c, p) \/ ProcessMessage(c, p)
             \/ \E p \in Procs : LookupData(p)
             \/ \E on \in BOOLEAN : SetRateLimit(on)
    BY <1>1, <1>4, ZenonT(30) DEF Respond, ProcessMessage, LookupData, SetRateLimit, policies
  <1>5. CASE TellCount \/ Enable \/ \E o \in {"none", "audit", "disable"} : SetOverride(o)
    BY <1>1, <1>5 DEF TellCount, Enable, SetOverride, policies
  <1>6. CASE \/ \E c \in Clients, p \in Procs : DeadlineResponds(c, p)
             \/ \E on \in BOOLEAN : SetProtection(on)
    BY <1>1, <1>6 DEF DeadlineResponds, SetProtection, policies
  <1>. QED
    BY <1>2, <1>3, <1>4, <1>5, <1>6

LEMMA KeepFindPolicy ==
    ASSUME KeepInv, FindPolicy
    PROVE  KeepInv'
  <1>. DEFINE q == handler.proc
  <1>1. handler.pc = "find" /\ UNCHANGED <<rules, process, probe, watched, missed>>
    BY DEF FindPolicy, policies
  <1>2. q \in Procs /\ life[q] = "running"
    BY <1>1 DEF KeepInv, Handling
  <1>3. /\ handler'.pc = "store" /\ handler'.proc = q /\ handler'.version = Version
        /\ handler'.pol = NoValue => Found(Current, image[q]) = {} \/ NoValue \in Found(Current, image[q])
    BY DEF FindPolicy
  <1>4. Version \in 1..Version /\ rules[Version] \in Configs /\ born[q] <= Version
    BY <1>2 DEF KeepInv, Living, Version
  <1>5. handler'.pol = NoValue => Found(Loaded[rules[Version]], image[q]) = {}
    BY <1>3, <1>4, LoadedProcs DEF Current
  <1>6. UNCHANGED <<rules, image, life, born>>
    BY <1>1 DEF process
  <1>. HIDE DEF q
  <1>7. Handling'
    BY <1>2, <1>3, <1>4, <1>5, <1>6 DEF Handling, Unknown, Version
  <1>. QED
    BY <1>1, <1>7, KeepInvFrame

LEMMA KeepStorePolicy ==
    ASSUME KeepInv, StorePolicy
    PROVE  KeepInv'
  <1>1. /\ handler.pc = "store" /\ handler'.pc = "idle"
        /\ UNCHANGED <<rules, process, probe, missed>>
    BY DEF StorePolicy, policies
  <1>2. Handling'
    BY <1>1 DEF Handling
  <1>3. CASE UNCHANGED watched
    BY <1>1, <1>2, <1>3, KeepInvFrame
  <1>4. CASE handler.pol = NoValue /\ watched' = watched \ {handler.proc}
    <2>1. PICK q, v : q = handler.proc /\ v = handler.version
      OBVIOUS
    <2>2. q \in Procs /\ Unknown(q, v) /\ born[q] \in 0..Version /\ Version \in Nat
      BY <1>1, <1>4, <2>1 DEF KeepInv, Handling, Living, Version
    <2>3. UNCHANGED <<life, image, born>>
      BY <1>1 DEF process
    <2>4. Living' /\ Probing'
      BY <1>1, <2>3 DEF KeepInv, Living, Probing, Version
    <2>5. Let(q)
      BY <2>2 DEF Let, Unknown
    <2>6. Let(q)'
      BY <1>1, <2>3, <2>5 DEF Let, Version
    <2>7. ASSUME NEW p \in Procs
          PROVE  KeptAt(p)'
      <3>1. CASE p = q
        BY <2>6, <3>1 DEF KeptAt
      <3>2. CASE p # q
        BY <1>1, <1>4, <2>1, <2>3, <3>2, KeptFrame DEF KeepInv, Kept
      <3>. QED
        BY <3>1, <3>2
    <2>. QED
      BY <1>2, <2>4, <2>7 DEF KeepInv, Kept
  <1>. QED
    BY <1>3, <1>4 DEF StorePolicy, StopWatching

\* A process that has not lived is nobody's yet: what it is to run can be chosen.
LEMMA KeepNewProc ==
    ASSUME KeepInv, HasNext, NEW i, NEW l \in {"running", "execing"},
           life' = [life EXCEPT ![NextProc] = l], image' = [image EXCEPT ![NextProc] = i],
           UNCHANGED <<rules, born, watched, missed>>
    PROVE  /\ Living' /\ Kept'
           /\ NextProc \in Procs /\ life[NextProc] = "new" /\ life'[NextProc] = l
           /\ \A p \in Procs : p # NextProc => life'[p] = life[p] /\ image'[p] = image[p]
  <1>. DEFINE n == NextProc
  <1>1. n \in Procs /\ life[n] = "new"
    BY NextProcIsNew
  <1>. HIDE DEF n
  <1>2. life' = [life EXCEPT ![n] = l] /\ image' = [image EXCEPT ![n] = i]
    BY DEF n
  <1>3. /\ life' = [p \in Procs |-> life'[p]] /\ image' = [p \in Procs |-> image'[p]] /\ life'[n] = l
        /\ \A p \in Procs : p # n => life'[p] = life[p] /\ image'[p] = image[p]
    BY <1>1, <1>2 DEF KeepInv, Living
  <1>4. Living'
    BY <1>1, <1>3 DEF KeepInv, Living, Version
  <1>5. ASSUME NEW p \in Procs
        PROVE  KeptAt(p)'
    <2>1. CASE p = n
      BY <1>1, <2>1 DEF KeepInv, Living, KeptAt
    <2>2. CASE p # n
      BY <1>3, <2>2, KeptFrame DEF KeepInv, Kept
    <2>. QED
      BY <2>1, <2>2
  <1>. QED
    BY <1>1, <1>3, <1>4, <1>5 DEF Kept, n

LEMMA KeepFork ==
    ASSUME KeepInv, NEW p \in Procs, Fork(p)
    PROVE  KeepInv'
  <1>1. /\ HasNext /\ handler.pc = "idle"
        /\ life' = [life EXCEPT ![NextProc] = "running"] /\ image' = [image EXCEPT ![NextProc] = image[p]]
        /\ UNCHANGED <<rules, born, watched, missed, probe>>
        /\ \/ handler' = handler
           \/ handler' = [pc |-> "fork", proc |-> NextProc, pol |-> procCache[p], version |-> told]
    BY DEF Fork, policies
  <1>2. /\ Living' /\ Kept'
        /\ NextProc \in Procs /\ life[NextProc] = "new" /\ life'[NextProc] = "running"
        /\ \A q \in Procs : q # NextProc => life'[q] = life[q]
    BY <1>1, KeepNewProc
  <1>3. Handling'
    BY <1>1, <1>2 DEF Handling
  <1>4. Probing'
    BY <1>1, <1>2 DEF KeepInv, Probing, Version
  <1>. QED
    BY <1>2, <1>3, <1>4 DEF KeepInv

LEMMA KeepExec ==
    ASSUME KeepInv, NEW p \in Procs, NEW i, Exec(p, i)
    PROVE  KeepInv'
  <1>1. /\ HasNext /\ probe.pc = "idle"
        /\ life' = [life EXCEPT ![NextProc] = "execing"] /\ image' = [image EXCEPT ![NextProc] = i]
        /\ UNCHANGED <<rules, born, watched, missed, handler>>
        /\ \E to \in {"find", "done"} : probe' = [pc |-> to, from |-> p, proc |-> NextProc]
    BY DEF Exec, policies
  <1>2. /\ Living' /\ Kept'
        /\ NextProc \in Procs /\ life[NextProc] = "new" /\ life'[NextProc] = "execing"
        /\ \A q \in Procs : q # NextProc => life'[q] = life[q] /\ image'[q] = image[q]
    BY <1>1, KeepNewProc
  <1>3. Handling'
    BY <1>1, <1>2 DEF KeepInv, Handling, Unknown, Version
  <1>4. Probing'
    BY <1>1, <1>2 DEF Probing
  <1>. QED
    BY <1>2, <1>3, <1>4 DEF KeepInv

\* A process that starts to be watched is kept, whatever it was born under.
LEMMA KeepStarted ==
    ASSUME KeepInv, NEW q \in Procs, life[q] # "new", NEW v \in 1..Version,
           UNCHANGED <<rules, life, image, missed>>,
           born' = [born EXCEPT ![q] = v], watched' = watched \cup {q}
    PROVE  Living' /\ Kept' /\ \A p \in Procs : p # q => born'[p] = born[p]
  <1>1. /\ born' = [p \in Procs |-> born'[p]] /\ born'[q] = v
        /\ \A p \in Procs : p # q => born'[p] = born[p]
    BY DEF KeepInv, Living
  <1>2. Living'
    BY <1>1 DEF KeepInv, Living, Version
  <1>3. ASSUME NEW p \in Procs
        PROVE  KeptAt(p)'
    <2>1. CASE p = q
      BY <2>1 DEF KeptAt
    <2>2. CASE p # q
      BY <1>1, <2>2, KeptFrame DEF KeepInv, Kept
    <2>. QED
      BY <2>1, <2>2
  <1>. QED
    BY <1>1, <1>2, <1>3 DEF Kept

LEMMA KeepForkStart ==
    ASSUME KeepInv, ForkStart
    PROVE  KeepInv'
  <1>1. /\ handler.pc = "fork" /\ handler'.pc = "idle" /\ watched' = watched \cup {handler.proc}
        /\ born' = [born EXCEPT ![handler.proc] = Version]
        /\ UNCHANGED <<rules, life, image, missed, probe>>
    BY DEF ForkStart, StartWatching, policies
  <1>2. handler.proc \in Procs /\ life[handler.proc] = "running" /\ Version \in 1..Version
    BY <1>1 DEF KeepInv, Handling, Living, Version
  <1>3. Living' /\ Kept'
    BY <1>1, <1>2, KeepStarted
  <1>4. Handling' /\ Probing'
    BY <1>1 DEF KeepInv, Handling, Probing, Version
  <1>. QED
    BY <1>3, <1>4 DEF KeepInv

LEMMA KeepProbeInterest ==
    ASSUME KeepInv, ProbeInterest
    PROVE  KeepInv'
  <1>1. /\ probe.pc # "idle" /\ probe'.proc = probe.proc /\ probe'.from = probe.from
        /\ probe'.pc = "start" => probe'.version = Version
        /\ UNCHANGED <<rules, life, image, born, watched, missed, handler>>
    BY DEF ProbeInterest, policies, process
  <1>2. Version \in 1..Version
    BY DEF KeepInv, Living, Version
  <1>3. Living'
    BY <1>1 DEF KeepInv, Living, Version
  <1>4. Probing'
    BY <1>1, <1>2 DEF KeepInv, Probing, Version
  <1>5. Handling'
    BY <1>1, HandlingFrame DEF KeepInv
  <1>6. Kept'
    BY <1>1, KeptFrame DEF KeepInv, Kept
  <1>. QED
    BY <1>3, <1>4, <1>5, <1>6 DEF KeepInv

LEMMA KeepProbeStart ==
    ASSUME KeepInv, ProbeStart
    PROVE  KeepInv'
  <1>1. /\ probe.pc = "start" /\ watched' = watched \cup {probe.proc}
        /\ born' = [born EXCEPT ![probe.proc] = probe.version]
        /\ probe'.pc = "done" /\ probe'.proc = probe.proc /\ probe'.from = probe.from
        /\ UNCHANGED <<rules, life, image, missed, handler>>
    BY DEF ProbeStart, StartWatching, policies
  <1>2. PICK q : q = probe.proc
    OBVIOUS
  <1>3. q \in Procs /\ life[q] = "execing" /\ probe.version \in 1..Version
    BY <1>1, <1>2 DEF KeepInv, Probing
  <1>4. Living' /\ Kept' /\ \A p \in Procs : p # q => born'[p] = born[p]
    BY <1>1, <1>2, <1>3, KeepStarted
  <1>5. Probing'
    BY <1>1 DEF KeepInv, Probing, Version
  <1>6. Handling'
    <2>1. handler.pc # "idle" => handler.proc # q
      BY <1>3 DEF KeepInv, Handling
    <2>. QED
      BY <1>1, <1>4, <2>1 DEF KeepInv, Handling, Unknown, Version
  <1>. QED
    BY <1>4, <1>5, <1>6 DEF KeepInv

\* A process that is over is no longer to be watched.
LEMMA KeepGone ==
    ASSUME KeepInv, handler.pc = "idle", UNCHANGED <<rules, image, born, missed, handler>>,
           NEW q \in Procs, watched' = watched \ {q},
           life' = [p \in Procs |-> life'[p]], life'[q] = "gone",
           \A p \in Procs : p # q => (life'[p] \in {"gone", "new"} <=> life[p] \in {"gone", "new"})
                                  /\ (life'[p] = "new" <=> life[p] = "new")
    PROVE  Living' /\ Kept' /\ Handling'
  <1>1. Living'
    BY DEF KeepInv, Living, Version
  <1>2. ASSUME NEW p \in Procs
        PROVE  KeptAt(p)'
    <2>1. CASE p = q
      BY <2>1 DEF KeptAt
    <2>2. CASE p # q
      BY <2>2, KeptFrame DEF KeepInv, Kept
    <2>. QED
      BY <2>1, <2>2
  <1>. QED
    BY <1>1, <1>2 DEF Kept, Handling

LEMMA KeepExeced ==
    ASSUME KeepInv, Execed
    PROVE  KeepInv'
  <1>1. PICK q, n : q = probe.from /\ n = probe.proc
    OBVIOUS
  <1>2. /\ probe.pc = "done" /\ handler.pc = "idle" /\ probe'.pc = "idle"
        /\ life' = [life EXCEPT ![n] = "running", ![q] = "gone"] /\ watched' = watched \ {q}
        /\ UNCHANGED <<rules, image, born, missed, handler>>
    BY <1>1 DEF Execed, policies
  <1>3. q \in Procs /\ n \in Procs /\ life[n] = "execing"
    BY <1>1, <1>2 DEF KeepInv, Probing
  <1>4. /\ life' = [p \in Procs |-> life'[p]] /\ life'[q] = "gone"
        /\ \A p \in Procs : p # q => (life'[p] \in {"gone", "new"} <=> life[p] \in {"gone", "new"})
                                  /\ (life'[p] = "new" <=> life[p] = "new")
    BY <1>2, <1>3 DEF KeepInv, Living
  <1>5. Living' /\ Kept' /\ Handling'
    BY <1>2, <1>3, <1>4, KeepGone
  <1>. QED
    BY <1>2, <1>5 DEF KeepInv, Probing

LEMMA KeepExit ==
    ASSUME KeepInv, NEW p \in Procs, Exit(p)
    PROVE  KeepInv'
  <1>1. /\ life[p] = "running" /\ handler.pc = "idle"
        /\ life' = [life EXCEPT ![p] = "gone"] /\ watched' = watched \ {p}
        /\ UNCHANGED <<rules, image, born, missed, handler, probe>>
    BY DEF Exit, policies
  <1>2. /\ life' = [q \in Procs |-> life'[q]] /\ life'[p] = "gone"
        /\ \A q \in Procs : q # p => life'[q] = life[q]
    BY <1>1 DEF KeepInv, Living
  <1>3. Living' /\ Kept' /\ Handling'
    BY <1>1, <1>2, KeepGone
  <1>4. Probing'
    BY <1>1, <1>2 DEF KeepInv, Probing, Version
  <1>. QED
    BY <1>3, <1>4 DEF KeepInv

LEMMA KeepChangeRules ==
    ASSUME KeepInv, NEW c \in Configs, ChangeRules(c)
    PROVE  KeepInv'
  <1>1. rules' = Append(rules, c) /\ UNCHANGED <<life, image, born, watched, missed, handler, probe>>
    BY DEF ChangeRules, process
  <1>2. rules \in Seq(Configs) /\ Version >= 1 /\ Version = Len(rules)
    BY DEF KeepInv, Living, Version
  <1>3. /\ rules' \in Seq(Configs) /\ Version' = Version + 1
        /\ \A v \in 1..Version : rules'[v] = rules[v]
    BY <1>1, <1>2 DEF Version
  <1>4. Living'
    BY <1>1, <1>2, <1>3 DEF KeepInv, Living
  <1>5. Probing'
    BY <1>1, <1>2, <1>3 DEF KeepInv, Probing
  <1>6. Handling'
    BY <1>1, <1>2, <1>3 DEF KeepInv, Handling, Unknown
  <1>7. ASSUME NEW p \in Procs
        PROVE  KeptAt(p)'
    <2>1. ASSUME born[p] > 0, Let(p)
          PROVE  Let(p)'
      <3>1. born[p] \in Nat /\ Version \in Nat
        BY <1>2 DEF KeepInv, Living
      <3>2. PICK v \in born[p]..Version : Found(Loaded[rules[v]], image[p]) = {}
        BY <2>1 DEF Let
      <3>3. v \in 1..Version /\ v \in born[p]..(Version + 1)
        BY <2>1, <3>1
      <3>4. Found(Loaded[rules'[v]], image'[p]) = {}
        BY <1>1, <1>3, <3>2, <3>3
      <3>5. v \in (born[p]..Version)'
        BY <1>1, <1>3, <3>3
      <3>. QED
        BY <3>4, <3>5 DEF Let
    <2>. QED
      BY <1>1, <2>1 DEF KeepInv, Kept, KeptAt
  <1>. QED
    BY <1>4, <1>5, <1>6, <1>7 DEF KeepInv, Kept

LEMMA KeepDisable ==
    ASSUME KeepInv, Disable
    PROVE  KeepInv'
  <1>1. UNCHANGED <<rules, process, probe, handler>>
    BY DEF Disable
  <1>2. CASE UNCHANGED <<watched, missed>>
    <2>1. Handling'
      BY <1>1, HandlingFrame DEF KeepInv, process
    <2>. QED
      BY <1>1, <1>2, <2>1, KeepInvFrame
  <1>3. CASE /\ watched' = watched \ Cached
             /\ missed' = IF Current.procs # {} THEN missed \cup Cached ELSE missed
    <2>1. UNCHANGED <<life, image, born>>
      BY <1>1 DEF process
    <2>2. Living' /\ Probing' /\ Handling'
      BY <1>1, <2>1, HandlingFrame DEF KeepInv, Living, Probing, Version
    <2>3. CASE Current.procs # {}
      <3>1. missed' = missed \cup Cached
        BY <1>3, <2>3
      <3>2. ASSUME NEW p \in Procs
            PROVE  KeptAt(p)'
        <4>1. CASE p \in Cached
          BY <3>1, <4>1 DEF KeptAt
        <4>2. CASE p \notin Cached
          BY <1>1, <1>3, <2>1, <3>1, <4>2, KeptFrame DEF KeepInv, Kept
        <4>. QED
          BY <4>1, <4>2
      <3>. QED
        BY <2>2, <3>2 DEF KeepInv, Kept
    <2>4. CASE Current.procs = {}
      <3>1. \A i : Found(Loaded[rules[Version]], i) = {}
        BY <2>4 DEF Found, Current
      <3>2. ASSUME NEW p \in Procs
            PROVE  Let(p)'
        <4>1. Version \in born[p]..Version
          BY DEF KeepInv, Living, Version
        <4>2. Let(p)
          BY <3>1, <4>1 DEF Let
        <4>. QED
          BY <1>1, <2>1, <4>2 DEF Let, Version
      <3>3. Kept'
        BY <3>2 DEF Kept, KeptAt
      <3>. QED
        BY <2>2, <3>3 DEF KeepInv
    <2>. QED
      BY <2>3, <2>4
  <1>. QED
    BY <1>2, <1>3 DEF Disable, StopWatching

LEMMA KeepInvStep ==
    ASSUME KeepInv, [Next]_vars
    PROVE  KeepInv'
  <1>1. CASE Client
    BY <1>1, KeepFindPolicy, KeepStorePolicy, KeepForkStart, KeepProbeInterest, KeepProbeStart,
       KeepExeced DEF Client
  <1>2. CASE Reconfigure
    BY <1>2, KeepChangeRules, KeepDisable, KeepAccesses DEF Reconfigure
  <1>3. CASE \E p \in Procs : Live(p)
    BY <1>3, KeepFork, KeepExit, KeepExec DEF Live
  <1>4. CASE UNCHANGED vars \/ (\E p \in Procs : Answer(p)) \/ \E c \in Clients, p \in Procs : Respond(c, p)
    BY <1>4, KeepAccesses DEF Answer
  <1>. QED
    BY <1>1, <1>2, <1>3, <1>4 DEF Next

\* Whatever evicts its policy from the cache, and however lookups, forks, probes
\* and changes of the rules interleave, a process that the rules have always had
\* a policy for is watched as long as it runs (startWatching, stopWatching, enable).
THEOREM WatchAlwaysKept == Spec => []WatchKept
  <1>1. KeepInv => WatchKept
    BY DEF KeepInv, Kept, KeptAt, Let, WatchKept
  <1>. QED
    BY <1>1, KeepInvInit, KeepInvStep, PTL DEF Spec

\* Whichever dictionaries are loaded, and in whatever order their rules come out of
\* the hash table, the tree finds for every file a longest rule that covers it and
\* none where there is none, and its counter leaves room for all of its nodes
\* (InsertLocked, LookupLongestMatchingPrefix, PruneLocked).
THEOREM TreesAlwaysSound == Spec => []TreesSound
  <1>1. KeepInv => TreesSound
    BY AllConfigsSound DEF KeepInv, Living, TreesSound, Version
  <1>. QED
    BY <1>1, KeepInvInit, KeepInvStep, PTL DEF Spec

(***************************************************************************)
(* Answers                                                                 *)
(***************************************************************************)
\* Some rules since version w have the policy for what runs image i.
Grants(i, pol, w) == \E v \in w..Version : pol \in Found(Loaded[rules[v]], i)
\* Some rules have let the file be read.
Readable(c, i, f) ==
    \E v \in 1..Version : \E pol \in IF c = "data" THEN Governing(rules[v], f) ELSE Found(Loaded[rules[v]], i) :
        Rules[pol].reads

\* The policies found for an access: those of one version since it came.
Governed(cfg, o) ==
    /\ DOMAIN o.pols = DOMAIN Targets(o.access)
    /\ \A k \in DOMAIN o.pols : LET g == Governing(cfg, Targets(o.access)[k].path)
                               IN  o.pols[k] \in IF g = {} THEN {NoValue} ELSE g
DecideSound(c, i, o) ==
    IF c = "data" THEN \E v \in o.from..Version : Governed(rules[v], o)
    ELSE \E pol \in DOMAIN Rules :
            /\ o.pols = SamePolicy(o.access, pol)
            /\ Grants(i, pol, 1) /\ (~raced => Grants(i, pol, o.from))
AnswerSound(c, i, o) ==
    /\ o.how = "reads" => o.access.kind = "read" /\ Readable(c, i, o.access.src)
    /\ o.how \in {"allow", "deny", "nopolicy"} /\ (c = "process" => ~raced) =>
          \E v \in o.from..Version :
             \/ o.override = "none" /\ o.how \in Answers(c, v, o.access, i)
             \/ o.override = "audit" /\ o.how # "deny"
OpSound(c, i, o) == o.pc # "idle" =>
    /\ o.access \in Accesses /\ o.from \in 1..Version
    /\ o.pc \in {"queued", "finding", "decide"} => o.override \in {"none", "audit"}
    /\ o.pc = "decide" => DecideSound(c, i, o)
    /\ o.pc = "answer" => AnswerSound(c, i, o)

\* What is cached comes from rules; and unless a lookup raced with a change, from
\* rules since the client was last told, while it is subscribed.
CacheSound(p) == procCache[p] # NoValue =>
    /\ life[p] # "new" /\ Grants(image[p], procCache[p], 1)
    /\ subscribed /\ ~raced => Grants(image[p], procCache[p], told)
ReadsSound(c, p) == \A f \in reads[c][p] : life[p] # "new" /\ Readable(c, image[p], f)

CachesInv ==
    /\ told \in 1..Version /\ override \in {"none", "audit", "disable"}
    /\ procCache = [p \in Procs |-> procCache[p]] /\ \A p \in Procs : CacheSound(p)
    /\ reads = [c \in Clients |-> [p \in Procs |-> reads[c][p]]]
    /\ \A c \in Clients, p \in Procs : ReadsSound(c, p)
OpsSound(c, p) == /\ op[c][p].pc # "idle" => life[p] # "new"
                  /\ OpSound(c, image[p], op[c][p])
OpsInv == \A c \in Clients, p \in Procs : OpsSound(c, p)
\* What the handler and the probe carry from one step to the next.
HandlerCarries ==
    /\ handler.pc \in {"store", "fork"} /\ handler.pol # NoValue =>
          /\ Grants(image[handler.proc], handler.pol, 1)
          /\ ~raced => Grants(image[handler.proc], handler.pol, handler.version)
    /\ handler.pc \in {"store", "fork"} => handler.version \in 1..Version
    /\ handler.pc = "store" =>
          /\ op["process"][handler.proc].from <= handler.version
          /\ handler.pol # NoValue => handler.pol \in Found(Loaded[rules[handler.version]], image[handler.proc])
ProbeCarries ==
    probe.pc = "start" => probe.pol \in Found(Loaded[rules[probe.version]], image[probe.proc])
CarryInv == HandlerCarries /\ ProbeCarries
AnswerInv == OpInv /\ KeepInv /\ CachesInv /\ OpsInv /\ CarryInv

\* Two rules of a dictionary never both govern a file.
LEMMA GoverningUnique ==
    ASSUME NEW c \in Configs, NEW f \in Files, NEW m \in Governing(c, f), NEW n \in Governing(c, f)
    PROVE  m = n
  <1>1. /\ m \in DataRules[c] /\ n \in DataRules[c]
        /\ Covers(Rules[m].path, f) /\ Covers(Rules[n].path, f)
        /\ Len(Rules[m].path.file) <= Len(Rules[n].path.file)
        /\ Len(Rules[n].path.file) <= Len(Rules[m].path.file)
    BY DEF Governing
  <1>. DEFINE x == Rules[m].path.file
              y == Rules[n].path.file
  <1>2. x \in Seq(STRING) /\ y \in Seq(STRING) /\ f \in Seq(STRING)
    BY <1>1, DataRulesFinite, UnambiguousRules, FileAccessAssumption DEF RulePaths
  <1>3. IsPrefix(x, f) /\ IsPrefix(y, f)
    BY <1>1 DEF Covers, IsPrefix
  <1>4. Len(x) = Len(y) /\ Len(x) \in Nat
    BY <1>1, <1>2
  <1>. HIDE DEF x, y
  <1>5. SubSeq(x, 1, Len(x)) = SubSeq(y, 1, Len(y))
    BY <1>3, <1>4 DEF IsPrefix
  <1>6. x = y
    BY <1>2, <1>5
  <1>. QED
    BY <1>1, <1>6, DataRulesFinite, UnambiguousRules DEF x, y

\* The tree of a process policy holds exactly its paths (ProcessWatchItemPolicy).
LEMMA TreeOfContains ==
    ASSUME NEW m \in DOMAIN Rules, NEW f \in Files
    PROVE  ContainsLocked(TreeOf[m], f) <=> \E x \in Rules[m].paths : Covers(x, f)
  <1>. DEFINE N == Rules[m].paths
              n == Cardinality(N)
              paths == SetToSeq(N)
              values == [k \in DOMAIN paths |-> m]
  <1>1. IsFiniteSet(N)
    BY UnambiguousRules
  <1>2. \E g \in [1..n -> N] : IsInjective(g)
    <2>1. PICK g : g \in Bijection(1..n, N)
      BY <1>1, FS_CardinalityType DEF ExistsBijection
    <2>. QED
      BY <2>1 DEF Bijection, Injection
  <1>3. paths \in [1..n -> N] /\ IsInjective(paths)
    BY <1>2 DEF SetToSeq
  <1>4. paths \in SetToSeqs(N)
    BY <1>3 DEF SetToSeqs, IsInjective
  <1>. HIDE DEF N, paths
  <1>5. /\ n \in Nat /\ paths \in [1..n -> N]
        /\ \A i, j \in 1..n : paths[i] = paths[j] => i = j
        /\ \A x \in N : \E i \in 1..n : paths[i] = x
    BY <1>1, <1>4, OrdersOfRules
  <1>6. TreeOf[m] = TreeFrom(paths, values)
    BY DEF TreeOf, paths, N
  <1>7. Len(paths) = n
    <2>1. paths \in Seq(N)
      BY <1>5
    <2>. QED
      BY <1>5, <2>1
  <1>8. \A k \in 1..n : paths[k] \in N /\ paths[k] \in RulePaths
    BY <1>5 DEF N, RulePaths
  <1>9. ArePaths(n, paths)
    BY <1>8, UnambiguousRules DEF ArePaths
  <1>10. \A i, j \in 1..n : paths[i].file = paths[j].file => i = j
    BY <1>5, <1>8, UnambiguousRules DEF N
  <1>. HIDE DEF n, values
  <1>11. IsTree(TreeOf[m]) /\ Holds(TreeOf[m], n, paths, values)
    BY <1>5, <1>6, <1>7, <1>9, <1>10, TreeFromHolds
  <1>12. f \in Seq(STRING) /\ \A k \in 1..n : IsPrefix(paths[k].file, f) => Fits(paths[k])
    BY <1>8, UnambiguousRules, FileAccessAssumption DEF Fits
  <1>13. /\ \A z \in Matching(TreeOf[m], f) : \E k \in 1..n : z = paths[k].file /\ Covers(paths[k], f)
         /\ \A k \in 1..n : Covers(paths[k], f) => paths[k].file \in Matching(TreeOf[m], f)
    BY <1>5, <1>9, <1>11, <1>12, MatchingPaths
  <1>14. ContainsLocked(TreeOf[m], f) <=> \E k \in 1..n : Covers(paths[k], f)
    BY <1>13 DEF ContainsLocked
  <1>15. (\E k \in 1..n : Covers(paths[k], f)) <=> \E x \in N : Covers(x, f)
    BY <1>5, <1>8
  <1>. QED
    BY <1>14, <1>15 DEF N

\* What an access may ask for.
LEMMA TargetsOf ==
    ASSUME NEW a \in Accesses
    PROVE  /\ a.kind \in {"read", "write", "clone", "rename"} /\ a.src \in Files
           /\ DOMAIN Targets(a) \in {1..1, 1..2}
  <1>1. /\ a.kind \in {"read", "write", "clone", "rename"} /\ a.src \in Files
    BY FileAccessAssumption
  <1>. QED
    BY <1>1 DEF Targets

LEMMA TargetFields ==
    ASSUME NEW a \in Accesses, NEW k \in DOMAIN Targets(a)
    PROVE  /\ Targets(a)[k].path \in Files
           /\ Targets(a)[k].readable \in BOOLEAN
           /\ a.kind = "read" => Targets(a)[k].readable
  <1>1. /\ a.kind \in {"read", "write", "clone", "rename"} /\ a.src \in Files /\ a.dst \in Files
    BY FileAccessAssumption
  <1>. DEFINE opened == [path |-> a.src, readable |-> TRUE, file |-> TRUE]
              moved == [path |-> a.src, readable |-> FALSE, file |-> TRUE]
              made == [path |-> a.dst, readable |-> FALSE, file |-> FALSE]
  <1>2. \/ Targets(a) = <<opened>>
        \/ Targets(a) = <<opened, made>>
        \/ Targets(a) = <<moved, made>> /\ a.kind = "rename"
    BY <1>1 DEF Targets
  <1>3. /\ opened.path \in Files /\ opened.readable \in BOOLEAN /\ opened.readable
        /\ moved.path \in Files /\ moved.readable \in BOOLEAN
        /\ made.path \in Files /\ made.readable \in BOOLEAN
    BY <1>1
  <1>4. a.kind = "read" => Targets(a) = <<opened>>
    BY DEF Targets
  <1>. HIDE DEF opened, moved, made
  <1>5. \/ Targets(a)[k] = opened
        \/ Targets(a)[k] = moved
        \/ Targets(a)[k] = made
    BY <1>2
  <1>6. a.kind = "read" => Targets(a)[k] = opened
    BY <1>4
  <1>. QED
    BY <1>3, <1>5, <1>6

\* A decision blocks a target just when the rule forbids it (ApplyPolicy).
LEMMA BlocksForbidden ==
    ASSUME NEW c \in Clients, NEW a \in Accesses, NEW k \in DOMAIN Targets(a), NEW pol \in DOMAIN Rules, NEW i
    PROVE  LET d == ApplyPolicy(c, a, Targets(a)[k], pol, i)
           IN  (IsBlockDecision(d) <=> Forbids(c, pol, a, Targets(a)[k], i)) /\ d # "NoPolicy"
  <1>. DEFINE t == Targets(a)[k]
              d == ApplyPolicy(c, a, t, pol, i)
              reads1 == PolicyAllowsReadsForTarget(a, t, pol)
              applies == Applies(c, pol, t, i)
  <1>1. /\ t.path \in Files /\ t.readable \in BOOLEAN /\ (a.kind = "read" => t.readable)
    BY TargetFields
  <1>2. Rules[pol].reads \in BOOLEAN /\ Rules[pol].audit \in BOOLEAN /\ Rules[pol].denied \in BOOLEAN
    BY UnambiguousRules
  <1>3. pol # NoValue
    BY FileAccessAssumption
  <1>4. reads1 <=> Rules[pol].reads /\ t.readable /\ a.kind \in {"read", "clone"}
    BY <1>1 DEF PolicyAllowsReadsForTarget
  <1>5. applies \in BOOLEAN /\ (applies <=> IF c = "data" THEN Lists(pol, i)
                                          ELSE \E x \in Rules[pol].paths : Covers(x, t.path))
    BY <1>1, TreeOfContains DEF Applies, Lists, ContainsLocked
  <1>6. d = IF protect /\ Images[i].signed /\ ~Images[i].valid THEN "DeniedInvalidSignature"
            ELSE IF reads1 THEN "AllowedReadAccess"
            ELSE IF applies # Rules[pol].denied THEN "Allowed"
            ELSE IF Rules[pol].audit THEN "AllowedAuditOnly" ELSE "Denied"
    BY <1>3 DEF ApplyPolicy
  <1>7. Forbids(c, pol, a, t, i) <=>
           \/ protect /\ Images[i].signed /\ ~Images[i].valid
           \/ ~reads1 /\ ~Rules[pol].audit /\ (Rules[pol].denied <=> applies)
    BY <1>4, <1>5 DEF Forbids
  <1>8. (applies # Rules[pol].denied) <=> ~(Rules[pol].denied <=> applies)
    BY <1>2, <1>5
  <1>. HIDE DEF t, d, reads1, applies
  <1>9. (IsBlockDecision(d) <=> Forbids(c, pol, a, t, i)) /\ d # "NoPolicy"
    BY <1>6, <1>7, <1>8 DEF IsBlockDecision
  <1>. QED
    BY <1>9 DEF d, t

\* What the override makes of a decision (ApplyOverrideToDecision).
LEMMA OverrideBlocks ==
    ASSUME NEW d
    PROVE  /\ ~IsBlockDecision(ApplyOverrideToDecision(d, "audit"))
           /\ IsBlockDecision(ApplyOverrideToDecision(d, "none")) <=> IsBlockDecision(d)
           /\ \A o : ApplyOverrideToDecision("NoPolicy", o) = "NoPolicy"
  BY DEF IsBlockDecision, ApplyOverrideToDecision

\* With the policies of one version, the data client answers as that version does.
LEMMA DataAnswer ==
    ASSUME NEW v, rules[v] \in Configs, NEW i, NEW o, o.access \in Accesses,
           o.override \in {"none", "audit"}, Governed(rules[v], o)
    PROVE  LET how == AuthResult(Decisions("data", o.access, o.pols, o.override, i))
           IN  \/ o.override = "none" /\ how \in Answers("data", v, o.access, i)
               \/ o.override = "audit" /\ how # "deny"
  <1>. DEFINE a == o.access
              ds == Decisions("data", a, o.pols, o.override, i)
              Bad(k) == \E pol \in Governing(rules[v], Targets(a)[k].path) : Forbids("data", pol, a, Targets(a)[k], i)
  <1>1. /\ DOMAIN o.pols = DOMAIN Targets(a)
        /\ \A k \in DOMAIN o.pols : LET g == Governing(rules[v], Targets(a)[k].path)
                                   IN  o.pols[k] \in IF g = {} THEN {NoValue} ELSE g
    BY DEF Governed
  <1>2. \A k \in DOMAIN o.pols :
           ds[k] = ApplyOverrideToDecision(ApplyPolicy("data", a, Targets(a)[k], o.pols[k], i), o.override)
    BY DEF Decisions
  <1>3. DOMAIN ds = DOMAIN o.pols
    BY DEF Decisions
  <1>4. AuthResult(ds) = IF \E k \in DOMAIN o.pols : IsBlockDecision(ds[k]) THEN "deny" ELSE "allow"
    BY <1>3 DEF AuthResult
  <1>5. ASSUME NEW k \in DOMAIN Targets(a)
        PROVE  IsBlockDecision(ApplyPolicy("data", a, Targets(a)[k], o.pols[k], i)) <=> Bad(k)
    <2>. DEFINE g == Governing(rules[v], Targets(a)[k].path)
    <2>1. CASE g = {}
      <3>1. o.pols[k] = NoValue
        BY <1>1, <2>1
      <3>. QED
        BY <2>1, <3>1 DEF ApplyPolicy, IsBlockDecision
    <2>2. CASE g # {}
      <3>1. o.pols[k] \in g
        BY <1>1, <2>2
      <3>2. Targets(a)[k].path \in Files
        BY TargetFields
      <3>3. \A pol \in g : pol = o.pols[k]
        BY <3>1, <3>2, GoverningUnique
      <3>4. o.pols[k] \in DOMAIN Rules
        BY <3>1, DataRulesFinite DEF Governing
      <3>. HIDE DEF g
      <3>5. (\E pol \in g : Forbids("data", pol, a, Targets(a)[k], i)) <=> Forbids("data", o.pols[k], a, Targets(a)[k], i)
        BY <3>1, <3>3
      <3>6. IsBlockDecision(ApplyPolicy("data", a, Targets(a)[k], o.pols[k], i))
               <=> Forbids("data", o.pols[k], a, Targets(a)[k], i)
        BY <3>4, BlocksForbidden DEF Clients
      <3>. QED
        BY <3>5, <3>6 DEF g
    <2>. QED
      BY <2>1, <2>2
  <1>6. CASE o.override = "audit"
    <2>1. \A k \in DOMAIN o.pols : ~IsBlockDecision(ds[k])
      BY <1>2, <1>6, OverrideBlocks
    <2>2. AuthResult(ds) # "deny"
      BY <1>4, <2>1
    <2>. QED
      BY <1>6, <2>2
  <1>7. CASE o.override = "none"
    <2>. HIDE DEF ds, Bad, a
    <2>1. \A k \in DOMAIN o.pols : IsBlockDecision(ds[k]) <=> Bad(k)
      BY <1>1, <1>2, <1>5, <1>7, OverrideBlocks
    <2>2. AuthResult(ds) = IF \E k \in DOMAIN Targets(a) : Bad(k) THEN "deny" ELSE "allow"
      BY <1>1, <1>4, <2>1
    <2>3. Answers("data", v, a, i) = {IF \E t \in {Targets(a)[k] : k \in DOMAIN Targets(a)} :
                                           \E pol \in Governing(rules[v], t.path) : Forbids("data", pol, a, t, i)
                                      THEN "deny" ELSE "allow"}
      BY DEF Answers
    <2>4. (\E t \in {Targets(a)[k] : k \in DOMAIN Targets(a)} :
              \E pol \in Governing(rules[v], t.path) : Forbids("data", pol, a, t, i))
          <=> \E k \in DOMAIN Targets(a) : Bad(k)
      BY DEF Bad
    <2>5. AuthResult(ds) \in Answers("data", v, a, i)
      BY <2>2, <2>3, <2>4
    <2>. QED
      BY <1>7, <2>5 DEF ds, a
  <1>. QED
    BY <1>6, <1>7

\* With a policy of one version, the process client answers as that version may.
LEMMA ProcessAnswer ==
    ASSUME NEW v, NEW i, NEW pol \in DOMAIN Rules, pol \in Found(Loaded[rules[v]], i), NEW o, o.access \in Accesses,
           o.override \in {"none", "audit"}, o.pols = SamePolicy(o.access, pol)
    PROVE  LET how == AuthResult(Decisions("process", o.access, o.pols, o.override, i))
           IN  \/ o.override = "none" /\ how \in Answers("process", v, o.access, i)
               \/ o.override = "audit" /\ how # "deny"
  <1>. DEFINE a == o.access
              ds == Decisions("process", a, o.pols, o.override, i)
              Bad(q, k) == Forbids("process", q, a, Targets(a)[k], i)
  <1>1. DOMAIN o.pols = DOMAIN Targets(a) /\ \A k \in DOMAIN o.pols : o.pols[k] = pol
    BY DEF SamePolicy
  <1>2. \A k \in DOMAIN o.pols :
           ds[k] = ApplyOverrideToDecision(ApplyPolicy("process", a, Targets(a)[k], pol, i), o.override)
    BY <1>1 DEF Decisions
  <1>3. DOMAIN ds = DOMAIN o.pols
    BY DEF Decisions
  <1>4. AuthResult(ds) = IF \E k \in DOMAIN o.pols : IsBlockDecision(ds[k]) THEN "deny" ELSE "allow"
    BY <1>3 DEF AuthResult
  <1>5. CASE o.override = "audit"
    <2>1. \A k \in DOMAIN o.pols : ~IsBlockDecision(ds[k])
      BY <1>2, <1>5, OverrideBlocks
    <2>2. AuthResult(ds) # "deny"
      BY <1>4, <2>1
    <2>. QED
      BY <1>5, <2>2
  <1>6. CASE o.override = "none"
    <2>1. \A k \in DOMAIN Targets(a) :
             IsBlockDecision(ApplyPolicy("process", a, Targets(a)[k], pol, i)) <=> Bad(pol, k)
      BY BlocksForbidden DEF Clients
    <2>. HIDE DEF ds, Bad, a
    <2>2. \A k \in DOMAIN o.pols : IsBlockDecision(ds[k]) <=> Bad(pol, k)
      BY <1>1, <1>2, <1>6, <2>1, OverrideBlocks
    <2>3. AuthResult(ds) = IF \E k \in DOMAIN Targets(a) : Bad(pol, k) THEN "deny" ELSE "allow"
      BY <1>1, <1>4, <2>2
    <2>4. (\E t \in {Targets(a)[k] : k \in DOMAIN Targets(a)} : Forbids("process", pol, a, t, i))
          <=> \E k \in DOMAIN Targets(a) : Bad(pol, k)
      BY DEF Bad
    <2>5. Answers("process", v, a, i) =
             {IF \E t \in {Targets(a)[k] : k \in DOMAIN Targets(a)} : Forbids("process", q, a, t, i)
              THEN "deny" ELSE "allow" : q \in Found(Loaded[rules[v]], i)}
      BY DEF Answers
    <2>6. AuthResult(ds) \in Answers("process", v, a, i)
      BY <2>3, <2>4, <2>5
    <2>. QED
      BY <1>6, <2>6 DEF ds, a
  <1>. QED
    BY <1>5, <1>6

\* A file goes to the reads cache only with a policy that lets it be read.
LEMMA ReadsCached ==
    ASSUME NEW c, NEW a, NEW pols, NEW o, NEW i,
           NEW f \in ReadsToCache(a, pols, Decisions(c, a, pols, o, i))
    PROVE  \E k \in DOMAIN pols : f = Targets(a)[k].path /\ pols[k] # NoValue /\ Rules[pols[k]].reads
  <1>. DEFINE ds == Decisions(c, a, pols, o, i)
  <1>1. /\ DOMAIN ds = DOMAIN pols
        /\ \A k \in DOMAIN pols : ds[k] = ApplyOverrideToDecision(ApplyPolicy(c, a, Targets(a)[k], pols[k], i), o)
    BY DEF Decisions
  <1>. HIDE DEF ds
  <1>2. PICK k \in DOMAIN pols : f = Targets(a)[k].path /\ ds[k] # "NoPolicy" /\ Rules[pols[k]].reads
    BY <1>1 DEF ReadsToCache, ds
  <1>3. pols[k] # NoValue
    BY <1>1, <1>2, OverrideBlocks DEF ApplyPolicy
  <1>. QED
    BY <1>2, <1>3

(***************************************************************************)
(* New rules take nothing away from what was right before                  *)
(***************************************************************************)
Extended == /\ Version \in Nat /\ Version' \in Nat /\ Version <= Version'
            /\ \A v \in 1..Version : rules'[v] = rules[v]
            /\ raced => raced'

LEMMA GrowGrants ==
    ASSUME Extended, NEW i, NEW pol, NEW w \in Nat \ {0}, Grants(i, pol, w)
    PROVE  Grants(i, pol, w)'
  <1>1. PICK v \in w..Version : pol \in Found(Loaded[rules[v]], i)
    BY DEF Grants
  <1>2. v \in w..Version' /\ v \in 1..Version
    BY DEF Extended
  <1>3. pol \in Found(Loaded[rules'[v]], i)
    BY <1>1, <1>2 DEF Extended
  <1>. QED
    BY <1>2, <1>3 DEF Grants

LEMMA GrowReadable ==
    ASSUME Extended, NEW c, NEW i, NEW f, Readable(c, i, f)
    PROVE  Readable(c, i, f)'
  <1>. DEFINE Who(cfg) == IF c = "data" THEN Governing(cfg, f) ELSE Found(Loaded[cfg], i)
  <1>1. PICK v \in 1..Version : \E pol \in Who(rules[v]) : Rules[pol].reads
    BY DEF Readable
  <1>2. v \in 1..Version' /\ rules'[v] = rules[v]
    BY DEF Extended
  <1>3. \E pol \in Who(rules'[v]) : Rules[pol].reads
    BY <1>1, <1>2
  <1>. QED
    BY <1>2, <1>3 DEF Readable

LEMMA SameAnswers ==
    ASSUME NEW c, NEW v, NEW a, NEW i, rules'[v] = rules[v], protect' = protect
    PROVE  Answers(c, v, a, i)' = Answers(c, v, a, i)
  BY DEF Answers, Forbids

LEMMA GrowOp ==
    ASSUME Extended, NEW c, NEW i, NEW o, OpSound(c, i, o), o.pc = "answer" => protect' = protect
    PROVE  OpSound(c, i, o)'
  <1>. SUFFICES ASSUME o.pc # "idle"
                PROVE  OpSound(c, i, o)'
    BY DEF OpSound
  <1>1. o.access \in Accesses /\ o.from \in 1..Version /\ o.from \in 1..Version' /\ o.from \in Nat \ {0}
    BY DEF OpSound, Extended
  <1>2. \A v \in o.from..Version : v \in o.from..Version' /\ rules'[v] = rules[v]
    BY <1>1 DEF Extended
  <1>3. DecideSound(c, i, o) => DecideSound(c, i, o)'
    <2>1. CASE c = "data"
      <3>1. ASSUME NEW v \in o.from..Version, Governed(rules[v], o)
            PROVE  DecideSound(c, i, o)'
        <4>1. Governed(rules'[v], o) /\ v \in o.from..Version'
          BY <1>2, <3>1
        <4>. QED
          BY <2>1, <4>1 DEF DecideSound
      <3>. QED
        BY <2>1, <3>1 DEF DecideSound
    <2>2. CASE c # "data"
      <3>1. ASSUME NEW pol \in DOMAIN Rules, o.pols = SamePolicy(o.access, pol),
                   Grants(i, pol, 1), ~raced => Grants(i, pol, o.from)
            PROVE  DecideSound(c, i, o)'
        <4>1. Grants(i, pol, 1)' /\ (~raced' => Grants(i, pol, o.from)')
          BY <1>1, <3>1, GrowGrants DEF Extended
        <4>. QED
          BY <2>2, <3>1, <4>1 DEF DecideSound
      <3>. QED
        BY <2>2, <3>1 DEF DecideSound
    <2>. QED
      BY <2>1, <2>2
  <1>4. o.pc = "answer" /\ AnswerSound(c, i, o) => AnswerSound(c, i, o)'
    <2>. SUFFICES ASSUME AnswerSound(c, i, o), protect' = protect
                  PROVE  AnswerSound(c, i, o)'
      OBVIOUS
    <2>1. (o.how = "reads" => o.access.kind = "read" /\ Readable(c, i, o.access.src))'
      BY GrowReadable DEF AnswerSound
    <2>2. ASSUME o.how \in {"allow", "deny", "nopolicy"}, c = "process" => ~raced'
          PROVE  \E v \in o.from..Version' :
                    \/ o.override = "none" /\ o.how \in Answers(c, v, o.access, i)'
                    \/ o.override = "audit" /\ o.how # "deny"
      <3>1. PICK v \in o.from..Version :
                    \/ o.override = "none" /\ o.how \in Answers(c, v, o.access, i)
                    \/ o.override = "audit" /\ o.how # "deny"
        BY <2>2 DEF AnswerSound, Extended
      <3>2. v \in o.from..Version' /\ Answers(c, v, o.access, i)' = Answers(c, v, o.access, i)
        BY <1>2, SameAnswers
      <3>. QED
        BY <3>1, <3>2
    <2>. QED
      BY <2>1, <2>2 DEF AnswerSound
  <1>. QED
    BY <1>1, <1>3, <1>4 DEF OpSound

\* What has lived keeps its image; rules are only added; a race is remembered; while
\* an answer is looked at, the protection does not change.
Lasting == /\ Extended
           /\ \A p \in Procs : life[p] # "new" => life'[p] # "new" /\ image'[p] = image[p]
           /\ Answering => protect' = protect

LEMMA StepLasts ==
    ASSUME KeepInv, [Next]_vars
    PROVE  Lasting
  <1>1. /\ Version \in Nat /\ rules \in Seq(Configs) /\ Version = Len(rules)
        /\ Answering => protect' = protect
    <2>1. Version \in Nat /\ rules \in Seq(Configs) /\ Version = Len(rules)
      BY DEF KeepInv, Living, Version
    <2>2. ASSUME Answering
          PROVE  protect' = protect
      <3>1. UNCHANGED vars \/ \E c \in Clients, p \in Procs : Respond(c, p)
        BY <2>2 DEF Next
      <3>. QED
        BY <3>1 DEF vars, Respond, settings
    <2>. QED
      BY <2>1, <2>2
  <1>2. CASE UNCHANGED <<rules, life, image>> /\ (raced => raced')
    BY <1>1, <1>2 DEF Lasting, Extended, Version
  <1>3. ASSUME NEW c \in Configs, ChangeRules(c)
        PROVE  Lasting
    <2>1. rules' = Append(rules, c) /\ UNCHANGED <<life, image, raced>>
      BY <1>3 DEF ChangeRules, process
    <2>2. Version' = Version + 1 /\ \A v \in 1..Version : rules'[v] = rules[v]
      BY <1>1, <2>1 DEF Version
    <2>. QED
      BY <1>1, <2>1, <2>2 DEF Lasting, Extended
  <1>4. CASE \E p \in Procs : Fork(p) \/ \E i \in DOMAIN Images : Exec(p, i)
    <2>1. PICK l, i :
             /\ l \in {"running", "execing"} /\ life' = [life EXCEPT ![NextProc] = l] /\ image' = [image EXCEPT ![NextProc] = i]
             /\ HasNext /\ UNCHANGED <<rules, raced, born, watched, missed>>
      BY <1>4 DEF Fork, Exec, policies
    <2>2. /\ NextProc \in Procs /\ life[NextProc] = "new"
          /\ \A p \in Procs : p # NextProc => life'[p] = life[p] /\ image'[p] = image[p]
      BY <2>1, KeepNewProc
    <2>. QED
      BY <1>1, <2>1, <2>2 DEF Lasting, Extended, Version
  <1>5. CASE Execed \/ \E p \in Procs : Exit(p)
    <2>1. UNCHANGED <<rules, image, raced>>
      BY <1>5 DEF Execed, Exit, policies
    <2>2. \A p \in Procs : life[p] # "new" => life'[p] # "new"
      BY <1>5 DEF Execed, Exit, KeepInv, Living, Probing
    <2>. QED
      BY <1>1, <2>1, <2>2 DEF Lasting, Extended, Version
  <1>6. CASE UNCHANGED vars
    BY <1>2, <1>6 DEF vars, policies, process
  <1>7. CASE \/ \E c \in Clients, p \in Procs : Respond(c, p) \/ ProcessMessage(c, p)
             \/ \E c \in Clients, p \in Procs, a \in Accesses : FileAccess(c, p, a)
             \/ \E p \in Procs : LookupData(p)
    BY <1>2, <1>7, ZenonT(30) DEF Respond, ProcessMessage, FileAccess, LookupData, policies, process
  <1>11. CASE \/ \E c \in Clients, p \in Procs : DeadlineResponds(c, p)
              \/ \E on \in BOOLEAN : SetProtection(on)
    BY <1>2, <1>11 DEF DeadlineResponds, SetProtection, policies, process
  <1>8. CASE FindPolicy \/ ProbeInterest
    BY <1>2, <1>8 DEF FindPolicy, ProbeInterest, policies, process
  <1>9. CASE StorePolicy \/ ForkStart \/ ProbeStart
    <2>1. raced => raced'
      BY <1>9 DEF StorePolicy, ForkStart, ProbeStart, StartWatching, Stale
    <2>. QED
      BY <1>2, <1>9, <2>1 DEF StorePolicy, ForkStart, ProbeStart, policies, process
  <1>10. CASE \/ TellCount \/ Enable \/ Disable
              \/ \E o \in {"none", "audit", "disable"} : SetOverride(o)
              \/ \E on \in BOOLEAN : SetRateLimit(on)
    BY <1>2, <1>10 DEF TellCount, Enable, Disable, SetOverride, SetRateLimit, policies, process
  <1>. QED
    BY <1>3, <1>4, <1>5, <1>6, <1>7, <1>8, <1>9, <1>10, <1>11 DEF Next, Client, Reconfigure, Answer, Live

\* The fields of an access that changes.
LEMMA OpNewFields ==
    ASSUME NEW o, IsOp(o), NEW pols, NEW how
    PROVE  /\ LET r == [o EXCEPT !.pc = "decide", !.pols = pols]
              IN  /\ r.access = o.access /\ r.from = o.from /\ r.override = o.override
                  /\ r.pc = "decide" /\ r.pols = pols
           /\ LET r == [o EXCEPT !.pc = "finding"]
              IN  r.access = o.access /\ r.from = o.from /\ r.override = o.override /\ r.pc = "finding"
           /\ LET r == Answered(o, how)
              IN  /\ r.access = o.access /\ r.from = o.from /\ r.override = o.override
                  /\ r.pc = "answer" /\ r.how = how
  BY DEF IsOp, Keys, Answered

LEMMA OpsFrame ==
    ASSUME Lasting, NEW c \in Clients, NEW p \in Procs, OpsSound(c, p), op'[c][p] = op[c][p]
    PROVE  OpsSound(c, p)'
  <1>. PICK o, i : o = op[c][p] /\ i = image[p]
    OBVIOUS
  <1>1. CASE o.pc = "idle"
    BY <1>1 DEF OpsSound, OpSound
  <1>2. CASE o.pc # "idle"
    <2>1. life'[p] # "new" /\ image'[p] = i
      BY <1>2 DEF OpsSound, Lasting
    <2>2. OpSound(c, i, o)'
      BY GrowOp DEF OpsSound, Lasting, Answering
    <2>. QED
      BY <2>1, <2>2 DEF OpsSound
  <1>. QED
    BY <1>1, <1>2

\* One access changes, and is sound.
LEMMA OpsChange ==
    ASSUME Lasting, OpInv, OpsInv, NEW c \in Clients, NEW p \in Procs, NEW o, OpOK(o), SetOp(c, p, o),
           life[p] # "new", OpSound(c, image[p], o), protect' = protect
    PROVE  OpsInv'
  <1>. PICK i : i = image[p]
    OBVIOUS
  <1>1. /\ op'[c][p] = o
        /\ \A d \in Clients, q \in Procs : <<d, q>> # <<c, p>> => op'[d][q] = op[d][q]
    BY OpStored DEF OpInv
  <1>2. OpSound(c, i, o)' /\ image'[p] = i /\ life'[p] # "new"
    BY GrowOp DEF Lasting
  <1>3. OpsSound(c, p)'
    BY <1>1, <1>2 DEF OpsSound
  <1>4. ASSUME NEW d \in Clients, NEW q \in Procs
        PROVE  OpsSound(d, q)'
    <2>1. CASE <<d, q>> = <<c, p>>
      BY <1>3, <2>1
    <2>2. CASE <<d, q>> # <<c, p>>
      BY <1>1, <2>2, OpsFrame DEF OpsInv
    <2>. QED
      BY <2>1, <2>2
  <1>. QED
    BY <1>4 DEF OpsInv

\* The fields of an access that comes.
LEMMA StartedFields ==
    ASSUME NEW a, NEW from, NEW pc, NEW pols, NEW how
    PROVE  LET o == Started(a, from, pc)
           IN  /\ o.access = a /\ o.from = from /\ o.override = override /\ o.pc = pc
               /\ LET r == [o EXCEPT !.pc = "decide", !.pols = pols]
                  IN  /\ r.access = a /\ r.from = from /\ r.override = override
                      /\ r.pc = "decide" /\ r.pols = pols
               /\ LET r == [o EXCEPT !.pc = "finding"]
                  IN  r.access = a /\ r.from = from /\ r.override = override /\ r.pc = "finding"
               /\ LET r == Answered(o, how)
                  IN  r.access = a /\ r.from = from /\ r.pc = "answer" /\ r.how = how
  <1>. DEFINE o == Started(a, from, pc)
  <1>1. IsOp(o) /\ o.access = a /\ o.from = from /\ o.override = override /\ o.pc = pc
    BY DEF IsOp, Keys, Started
  <1>. HIDE DEF o
  <1>2. LET r == [o EXCEPT !.pc = "decide", !.pols = pols]
        IN  /\ r.access = a /\ r.from = from /\ r.override = override
            /\ r.pc = "decide" /\ r.pols = pols
    BY <1>1, OpNewFields
  <1>3. LET r == [o EXCEPT !.pc = "finding"]
        IN  r.access = a /\ r.from = from /\ r.override = override /\ r.pc = "finding"
    BY <1>1, OpNewFields
  <1>4. LET r == Answered(o, how)
        IN  r.access = a /\ r.from = from /\ r.pc = "answer" /\ r.how = how
    BY <1>1, OpNewFields
  <1>. QED
    BY <1>1, <1>2, <1>3, <1>4 DEF o

\* A policy that was found is a rule.
LEMMA GrantedRule ==
    ASSUME KeepInv, NEW v \in 1..Version, NEW i, NEW pol \in Found(Loaded[rules[v]], i)
    PROVE  pol \in DOMAIN Rules /\ pol # NoValue
  <1>1. rules[v] \in Configs
    BY DEF KeepInv, Living, Version
  <1>2. pol \in Parsed(RulesIn[rules[v]].proc)
    BY <1>1, LoadedProcs DEF Found
  <1>3. RulesIn[rules[v]].proc \in SUBSET DOMAIN Rules
    BY <1>1, FileAccessAssumption
  <1>. QED
    BY <1>2, <1>3, FileAccessAssumption DEF Parsed

LEMMA ComesSound ==
    ASSUME AnswerInv, NEW c \in Clients, NEW p \in Procs, NEW a \in Accesses,
           NEW from, from = (IF c = "data" THEN Version ELSE told),
           NEW o, o.access = a /\ o.from = from
    PROVE  /\ o.pc = "answer" /\ o.how = "off" => OpSound(c, image[p], o)
           /\ o.pc = "answer" /\ o.how = "reads" /\ ImmediateResponse(c, p, a) => OpSound(c, image[p], o)
           /\ o.pc \in {"queued", "finding"} /\ o.override = override /\ override # "disable" =>
                 OpSound(c, image[p], o)
           /\ /\ c = "process" /\ subscribed /\ procCache[p] # NoValue /\ override # "disable"
              /\ o.pc = "decide" /\ o.override = override /\ o.pols = SamePolicy(a, procCache[p])
              => OpSound(c, image[p], o)
  <1>1. Version \in Nat /\ Version >= 1
    BY DEF AnswerInv, KeepInv, Living, Version
  <1>2. from \in 1..Version /\ override \in {"none", "audit", "disable"}
    BY <1>1 DEF AnswerInv, CachesInv
  <1>3. o.pc = "answer" /\ o.how = "off" => OpSound(c, image[p], o)
    BY <1>2 DEF OpSound, AnswerSound
  <1>4. o.pc = "answer" /\ o.how = "reads" /\ ImmediateResponse(c, p, a) => OpSound(c, image[p], o)
    <2>. SUFFICES ASSUME o.pc = "answer", o.how = "reads", ImmediateResponse(c, p, a)
                  PROVE  OpSound(c, image[p], o)
      OBVIOUS
    <2>1. a.kind = "read" /\ Readable(c, image[p], a.src)
      BY DEF ImmediateResponse, AnswerInv, CachesInv, ReadsSound
    <2>. QED
      BY <1>2, <2>1 DEF OpSound, AnswerSound
  <1>5. o.pc \in {"queued", "finding"} /\ o.override = override /\ override # "disable" =>
                 OpSound(c, image[p], o)
    BY <1>2 DEF OpSound
  <1>6. ASSUME c = "process", subscribed, procCache[p] # NoValue, override # "disable",
               o.pc = "decide", o.override = override, o.pols = SamePolicy(a, procCache[p])
        PROVE  OpSound(c, image[p], o)
    <2>. DEFINE pol == procCache[p]
    <2>1. Grants(image[p], pol, 1) /\ (~raced => Grants(image[p], pol, told))
      BY <1>6 DEF AnswerInv, CachesInv, CacheSound
    <2>2. pol \in DOMAIN Rules
      BY <2>1, GrantedRule DEF Grants, AnswerInv
    <2>3. from = told
      BY <1>6
    <2>. HIDE DEF pol
    <2>4. DecideSound(c, image[p], o)
      BY <1>6, <2>1, <2>2, <2>3 DEF DecideSound, pol
    <2>. QED
      BY <1>2, <1>6, <2>4 DEF OpSound
  <1>. QED
    BY <1>3, <1>4, <1>5, <1>6

LEMMA OpsFileAccess ==
    ASSUME AnswerInv, Lasting, NEW c \in Clients, NEW p \in Procs, NEW a \in Accesses, FileAccess(c, p, a)
    PROVE  OpsInv'
  <1>1. life[p] # "new" /\ accesses \in 0..MaxAccesses /\ accesses < MaxAccesses /\ protect' = protect
    BY DEF FileAccess, AnswerInv, OpInv, settings
  <1>2. ASSUME NEW o, OpOK(o), SetOp(c, p, o), OpSound(c, image[p], o)
        PROVE  OpsInv'
    BY <1>1, <1>2, OpsChange DEF AnswerInv
  <1>5. CASE IgnoreMessage(c, p, a)
    <2>. DEFINE skipped == Answered(Started(a, Version, "queued"), "ignored")
    <2>1. OpOK(skipped) /\ SetOp(c, p, skipped)
      BY <1>1, <1>5, OpStarted DEF IgnoreMessage
    <2>2. skipped.access = a /\ skipped.from = Version /\ skipped.pc = "answer" /\ skipped.how = "ignored"
      BY StartedFields
    <2>3. Version \in 1..Version
      BY DEF AnswerInv, KeepInv, Living, Version
    <2>. HIDE DEF skipped
    <2>4. OpSound(c, image[p], skipped)
      BY <2>2, <2>3 DEF OpSound, AnswerSound
    <2>. QED
      BY <1>2, <2>1, <2>4
  <1>3. CASE c = "data" /\ ~IgnoreMessage(c, p, a)
    <2>. DEFINE s == Started(a, Version, "queued")
                off == Answered(s, "off")
                read == Answered(s, "reads")
    <2>1. OpOK(s) /\ OpOK(off) /\ OpOK(read)
      BY <1>1, OpStarted
    <2>2. /\ s.access = a /\ s.from = Version /\ s.override = override /\ s.pc = "queued"
          /\ off.access = a /\ off.from = Version /\ off.pc = "answer" /\ off.how = "off"
          /\ read.access = a /\ read.from = Version /\ read.pc = "answer" /\ read.how = "reads"
      BY StartedFields
    <2>3. \/ override = "disable" /\ SetOp(c, p, off)
          \/ ImmediateResponse(c, p, a) /\ SetOp(c, p, read)
          \/ override # "disable" /\ SetOp(c, p, s)
      BY <1>3 DEF FileAccess, HandleData
    <2>. HIDE DEF s, off, read
    <2>4. OpSound(c, image[p], off)
      BY <1>3, <2>2, ComesSound
    <2>5. ImmediateResponse(c, p, a) => OpSound(c, image[p], read)
      BY <1>3, <2>2, ComesSound
    <2>6. override # "disable" => OpSound(c, image[p], s)
      BY <1>3, <2>2, ComesSound
    <2>. QED
      BY <1>2, <2>1, <2>3, <2>4, <2>5, <2>6
  <1>4. CASE c = "process" /\ ~IgnoreMessage(c, p, a)
    <2>. DEFINE s == Started(a, told, "queued")
                off == Answered(s, "off")
                read == Answered(s, "reads")
                cached == [s EXCEPT !.pc = "decide", !.pols = SamePolicy(a, procCache[p])]
                found == [s EXCEPT !.pc = "finding"]
    <2>1. OpOK(off) /\ OpOK(read) /\ OpOK(cached) /\ OpOK(found)
      BY <1>1, OpStarted
    <2>2. /\ off.access = a /\ off.from = told /\ off.pc = "answer" /\ off.how = "off"
          /\ read.access = a /\ read.from = told /\ read.pc = "answer" /\ read.how = "reads"
      BY StartedFields
    <2>3. /\ cached.access = a /\ cached.from = told /\ cached.override = override
          /\ cached.pc = "decide" /\ cached.pols = SamePolicy(a, procCache[p])
          /\ found.access = a /\ found.from = told /\ found.override = override /\ found.pc = "finding"
      BY StartedFields
    <2>4. /\ subscribed
          /\ \/ override = "disable" /\ SetOp(c, p, off)
             \/ ImmediateResponse(c, p, a) /\ SetOp(c, p, read)
             \/ override # "disable" /\ procCache[p] # NoValue /\ SetOp(c, p, cached)
             \/ override # "disable" /\ SetOp(c, p, found)
      BY <1>4 DEF FileAccess, HandleProcess
    <2>. HIDE DEF s, off, read, cached, found
    <2>5. OpSound(c, image[p], off)
      BY <1>4, <2>2, ComesSound
    <2>6. ImmediateResponse(c, p, a) => OpSound(c, image[p], read)
      BY <1>4, <2>2, ComesSound
    <2>7. override # "disable" => OpSound(c, image[p], found)
      BY <1>4, <2>3, ComesSound
    <2>8. override # "disable" /\ procCache[p] # NoValue => OpSound(c, image[p], cached)
      BY <1>4, <2>3, <2>4, ComesSound
    <2>. QED
      BY <1>2, <2>1, <2>4, <2>5, <2>6, <2>7, <2>8
  <1>. QED
    BY <1>3, <1>4, <1>5 DEF Clients

LEMMA OpsLookupData ==
    ASSUME AnswerInv, Lasting, NEW p \in Procs, LookupData(p)
    PROVE  OpsInv'
  <1>. DEFINE o == op["data"][p]
              a == o.access
              pols == [k \in DOMAIN Targets(a) |-> LookupLongestMatchingPrefix(Current.data, Targets(a)[k].path)]
              new == [o EXCEPT !.pc = "decide", !.pols = pols]
  <1>1. "data" \in Clients /\ OpOK(o) /\ o.pc = "queued" /\ IsOp(o)
    <2>1. "data" \in Clients
      BY DEF Clients
    <2>2. OpOK(o) /\ o.pc = "queued"
      BY <2>1 DEF LookupData, AnswerInv, OpInv, OpShape
    <2>. QED
      BY <2>1, <2>2 DEF OpOK, Idle
  <1>2. SetOp("data", p, new) /\ protect' = protect
    BY DEF LookupData, settings
  <1>3. /\ life[p] # "new" /\ a \in Accesses /\ o.from \in 1..Version /\ o.override \in {"none", "audit"}
    BY <1>1 DEF AnswerInv, OpsInv, OpsSound, OpSound
  <1>4. Version \in Nat /\ Version >= 1 /\ rules[Version] \in Configs
    BY DEF AnswerInv, KeepInv, Living, Version
  <1>5. Current \in Loads(rules[Version])
    BY <1>4, LoadedProcs DEF Current
  <1>. HIDE DEF o, a
  <1>6. DOMAIN pols = DOMAIN Targets(a) /\
        \A k \in DOMAIN pols : LET g == Governing(rules[Version], Targets(a)[k].path)
                               IN  pols[k] \in IF g = {} THEN {NoValue} ELSE g
    <2>1. DOMAIN pols = DOMAIN Targets(a)
      OBVIOUS
    <2>2. ASSUME NEW k \in DOMAIN Targets(a)
          PROVE  pols[k] \in IF Governing(rules[Version], Targets(a)[k].path) = {} THEN {NoValue}
                             ELSE Governing(rules[Version], Targets(a)[k].path)
      <3>1. pols[k] = LookupLongestMatchingPrefix(Current.data, Targets(a)[k].path)
        OBVIOUS
      <3>2. Targets(a)[k].path \in Files
        BY <1>3, TargetFields
      <3>. HIDE DEF pols
      <3>. QED
        BY <1>4, <1>5, <3>1, <3>2, LookupGoverns
    <2>. QED
      BY <2>1, <2>2
  <1>. HIDE DEF pols
  <1>7. /\ OpOK(new) /\ new.access = a /\ new.from = o.from /\ new.override = o.override
        /\ new.pc = "decide" /\ new.pols = pols
    <2>1. OpOK(new)
      BY <1>1, OpUpdated
    <2>. QED
      BY <1>1, <2>1, OpNewFields DEF a
  <1>. HIDE DEF new
  <1>8. Governed(rules[Version], new)
    BY <1>6, <1>7 DEF Governed
  <1>9. Version \in o.from..Version
    BY <1>3, <1>4
  <1>10. OpSound("data", image[p], new)
    BY <1>3, <1>7, <1>8, <1>9 DEF OpSound, DecideSound
  <1>. QED
    BY <1>1, <1>2, <1>3, <1>7, <1>10, OpsChange DEF AnswerInv

LEMMA OpsProcessMessage ==
    ASSUME AnswerInv, Lasting, NEW c \in Clients, NEW p \in Procs, ProcessMessage(c, p)
    PROVE  OpsInv'
  <1>. DEFINE o == op[c][p]
              i == image[p]
              how == AuthResult(Decisions(c, o.access, o.pols, o.override, i))
              new == Answered(o, how)
  <1>1. OpOK(o) /\ o.pc = "decide" /\ IsOp(o) /\ SetOp(c, p, new) /\ protect' = protect
    <2>1. OpOK(o) /\ o.pc = "decide"
      BY DEF ProcessMessage, AnswerInv, OpInv, OpShape
    <2>. QED
      BY <2>1 DEF OpOK, Idle, ProcessMessage, settings
  <1>2. /\ life[p] # "new" /\ o.access \in Accesses /\ o.from \in 1..Version
        /\ o.override \in {"none", "audit"} /\ DecideSound(c, i, o)
    BY <1>1 DEF AnswerInv, OpsInv, OpsSound, OpSound
  <1>3. how \in {"allow", "deny"}
    BY DEF AuthResult
  <1>. HIDE DEF o, i
  <1>4. ASSUME c = "process" => ~raced
        PROVE  \E v \in o.from..Version :
                  \/ o.override = "none" /\ how \in Answers(c, v, o.access, i)
                  \/ o.override = "audit" /\ how # "deny"
    <2>1. CASE c = "data"
      <3>1. PICK v \in o.from..Version : Governed(rules[v], o)
        BY <1>2, <2>1 DEF DecideSound
      <3>2. rules[v] \in Configs
        BY <1>2 DEF AnswerInv, KeepInv, Living, Version
      <3>. QED
        BY <1>2, <2>1, <3>1, <3>2, DataAnswer
    <2>2. CASE c = "process"
      <3>1. PICK pol \in DOMAIN Rules : o.pols = SamePolicy(o.access, pol) /\ Grants(i, pol, o.from)
        BY <1>2, <1>4, <2>2 DEF DecideSound
      <3>2. PICK v \in o.from..Version : pol \in Found(Loaded[rules[v]], i)
        BY <3>1 DEF Grants
      <3>. QED
        BY <1>2, <2>2, <3>1, <3>2, ProcessAnswer
    <2>. QED
      BY <2>1, <2>2 DEF Clients
  <1>. HIDE DEF how
  <1>5. /\ OpOK(new) /\ new.access = o.access /\ new.from = o.from /\ new.override = o.override
        /\ new.pc = "answer" /\ new.how = how
    <2>1. OpOK(new)
      BY <1>1, OpUpdated
    <2>. QED
      BY <1>1, <2>1, OpNewFields
  <1>. HIDE DEF new
  <1>6. OpSound(c, i, new)
    BY <1>2, <1>3, <1>4, <1>5 DEF OpSound, AnswerSound
  <1>. QED
    BY <1>1, <1>2, <1>5, <1>6, OpsChange DEF AnswerInv, i

LEMMA OpsStorePolicy ==
    ASSUME AnswerInv, Lasting, StorePolicy
    PROVE  OpsInv'
  <1>. DEFINE p == handler.proc
              o == op["process"][p]
              i == image[p]
              pol == handler.pol
              v == handler.version
              kept == [o EXCEPT !.pc = "decide", !.pols = SamePolicy(o.access, pol)]
              none == Answered(o, "nopolicy")
  <1>1. handler.pc = "store" /\ "process" \in Clients /\ protect' = protect
    BY DEF StorePolicy, Clients, settings
  <1>2. p \in Procs /\ life[p] # "new" /\ o.pc = "finding"
    BY <1>1 DEF AnswerInv, OpInv, Finding, KeepInv, Handling
  <1>3. OpOK(o) /\ IsOp(o)
    <2>1. OpOK(o)
      BY <1>1, <1>2 DEF AnswerInv, OpInv, OpShape
    <2>. QED
      BY <1>2, <2>1 DEF OpOK, Idle
  <1>4. o.access \in Accesses /\ o.from \in 1..Version /\ o.override \in {"none", "audit"}
    BY <1>1, <1>2 DEF AnswerInv, OpsInv, OpsSound, OpSound
  <1>5. /\ v \in 1..Version /\ o.from <= v
        /\ pol # NoValue => pol \in Found(Loaded[rules[v]], i) /\ Grants(i, pol, 1)
        /\ pol = NoValue => Found(Loaded[rules[v]], i) = {}
    BY <1>1 DEF AnswerInv, CarryInv, HandlerCarries, KeepInv, Handling, Unknown
  <1>6. v \in o.from..Version
    BY <1>4, <1>5
  <1>7. \/ pol # NoValue /\ SetOp("process", p, kept)
        \/ pol = NoValue /\ SetOp("process", p, none)
    BY DEF StorePolicy
  <1>. HIDE DEF p, o, i, pol, v
  <1>8. OpOK(kept) /\ OpOK(none)
    BY <1>2, <1>3, OpUpdated
  <1>9. /\ kept.access = o.access /\ kept.from = o.from /\ kept.override = o.override
        /\ kept.pc = "decide" /\ kept.pols = SamePolicy(o.access, pol)
        /\ none.access = o.access /\ none.from = o.from /\ none.override = o.override
        /\ none.pc = "answer" /\ none.how = "nopolicy"
    BY <1>3, OpNewFields
  <1>. HIDE DEF kept, none
  <1>10. pol # NoValue => OpSound("process", i, kept)
    <2>. SUFFICES ASSUME pol # NoValue
                  PROVE  OpSound("process", i, kept)
      OBVIOUS
    <2>1. Grants(i, pol, o.from)
      BY <1>5, <1>6 DEF Grants
    <2>2. pol \in DOMAIN Rules
      BY <1>5, GrantedRule DEF AnswerInv
    <2>3. DecideSound("process", i, kept)
      BY <1>5, <1>9, <2>1, <2>2 DEF DecideSound
    <2>. QED
      BY <1>4, <1>9, <2>3 DEF OpSound
  <1>11. pol = NoValue => OpSound("process", i, none)
    <2>. SUFFICES ASSUME pol = NoValue
                  PROVE  OpSound("process", i, none)
      OBVIOUS
    <2>1. "nopolicy" \in Answers("process", v, o.access, i)
      BY <1>5 DEF Answers
    <2>2. AnswerSound("process", i, none)
      BY <1>4, <1>6, <1>9, <2>1 DEF AnswerSound
    <2>. QED
      BY <1>4, <1>9, <2>2 DEF OpSound
  <1>12. ASSUME NEW n, OpOK(n), SetOp("process", p, n), OpSound("process", i, n)
         PROVE  OpsInv'
    BY <1>1, <1>2, <1>12, OpsChange DEF AnswerInv, i
  <1>. QED
    BY <1>7, <1>8, <1>10, <1>11, <1>12

LEMMA OpsInvStep ==
    ASSUME AnswerInv, [Next]_vars
    PROVE  OpsInv'
  <1>1. Lasting
    BY StepLasts DEF AnswerInv
  <1>2. CASE UNCHANGED op
    BY <1>1, <1>2, OpsFrame DEF OpsInv, AnswerInv
  <1>3. CASE \E c \in Clients, p \in Procs : Respond(c, p)
    <2>. PICK c \in Clients, p \in Procs : Respond(c, p)
      BY <1>3
    <2>1. op[c][p].pc = "answer" /\ SetOp(c, p, Idle) /\ protect' = protect
      BY DEF Respond, settings
    <2>2. OpOK(Idle) /\ OpSound(c, image[p], Idle)
      BY DEF OpOK, OpSound, Idle
    <2>3. life[p] # "new"
      BY <2>1 DEF AnswerInv, OpsInv, OpsSound
    <2>. QED
      BY <1>1, <2>1, <2>2, <2>3, OpsChange DEF AnswerInv
  <1>4. CASE FindPolicy \/ ForkStart \/ \E p \in Procs : Fork(p)
    BY <1>2, <1>4 DEF FindPolicy, ForkStart, Fork
  <1>. QED
    BY <1>1, <1>2, <1>3, <1>4, OpsFileAccess, OpsLookupData, OpsProcessMessage, OpsStorePolicy, OpRest

\* What is cached stays right as long as nothing is cached anew.
LEMMA CachesFrame ==
    ASSUME AnswerInv, Lasting, told' \in 1..Version', override' \in {"none", "audit", "disable"},
           procCache' = [p \in Procs |-> procCache'[p]],
           \A p \in Procs : procCache'[p] \in {procCache[p], NoValue},
           \/ subscribed' => subscribed /\ told' = told
           \/ \A p \in Procs : procCache'[p] = NoValue,
           reads' = [c \in Clients |-> [p \in Procs |-> reads'[c][p]]],
           \A c \in Clients, p \in Procs : reads'[c][p] \subseteq reads[c][p]
    PROVE  CachesInv'
  <1>1. told \in 1..Version /\ Version \in Nat
    BY DEF AnswerInv, CachesInv, Lasting, Extended
  <1>2. ASSUME NEW p \in Procs
        PROVE  CacheSound(p)'
    <2>. SUFFICES ASSUME procCache'[p] # NoValue
                  PROVE  CacheSound(p)'
      BY DEF CacheSound
    <2>. PICK i, pol, w : i = image[p] /\ pol = procCache[p] /\ w = told
      OBVIOUS
    <2>1. procCache'[p] = pol /\ (subscribed' => subscribed /\ told' = w)
      OBVIOUS
    <2>2. life[p] # "new" /\ Grants(i, pol, 1) /\ (subscribed /\ ~raced => Grants(i, pol, w))
      BY <2>1 DEF AnswerInv, CachesInv, CacheSound
    <2>3. life'[p] # "new" /\ image'[p] = i /\ (~raced' => ~raced)
      BY <2>2 DEF Lasting, Extended
    <2>4. Grants(i, pol, 1)' /\ (subscribed /\ ~raced => Grants(i, pol, w)')
      BY <1>1, <2>2, GrowGrants DEF Lasting
    <2>. QED
      BY <2>1, <2>3, <2>4 DEF CacheSound
  <1>3. ASSUME NEW c \in Clients, NEW p \in Procs
        PROVE  ReadsSound(c, p)'
    <2>. PICK i : i = image[p]
      OBVIOUS
    <2>1. ASSUME NEW f \in reads'[c][p]
          PROVE  life'[p] # "new" /\ Readable(c, i, f)' /\ image'[p] = i
      <3>1. life[p] # "new" /\ Readable(c, i, f)
        BY DEF AnswerInv, CachesInv, ReadsSound
      <3>. QED
        BY <3>1, GrowReadable DEF Lasting
    <2>. QED
      BY <2>1 DEF ReadsSound
  <1>. QED
    BY <1>2, <1>3 DEF CachesInv

LEMMA ReadsForgotten ==
    ASSUME reads = [c \in Clients |-> [q \in Procs |-> reads[c][q]]], NEW ps,
           reads' = reads \/ reads' = ForgetReads("process", ps)
    PROVE  /\ reads' = [c \in Clients |-> [q \in Procs |-> reads'[c][q]]]
           /\ \A c \in Clients, q \in Procs : reads'[c][q] \subseteq reads[c][q]
  <1>1. CASE reads' = reads
    BY <1>1
  <1>2. CASE reads' = ForgetReads("process", ps)
    <2>1. \A c \in Clients : reads'[c] = IF c = "process" THEN [q \in Procs |-> IF q \in ps THEN {} ELSE reads[c][q]]
                                          ELSE reads[c]
      BY <1>2 DEF ForgetReads
    <2>2. reads' = [c \in Clients |-> reads'[c]]
      BY <1>2 DEF ForgetReads
    <2>3. \A c \in Clients : reads[c] = [q \in Procs |-> reads[c][q]]
      OBVIOUS
    <2>4. \A c \in Clients : reads'[c] = [q \in Procs |-> reads'[c][q]]
      BY <2>1, <2>3
    <2>5. \A c \in Clients, q \in Procs : reads'[c][q] \subseteq reads[c][q]
      BY <2>1
    <2>. QED
      BY <2>2, <2>4, <2>5
  <1>. QED
    BY <1>1, <1>2

\* A policy is cached under the rules in which it was found, or under newer ones.
LEMMA CachesPut ==
    ASSUME AnswerInv, Lasting, NEW p \in Procs, NEW pol, NEW v \in 1..Version, life[p] # "new",
           Grants(image[p], pol, 1), ~raced => Grants(image[p], pol, v),
           PutPolicy(p, pol), Stale(v), UNCHANGED <<told, override, subscribed>>,
           reads' = reads \/ reads' = ForgetReads("process", {p})
    PROVE  CachesInv'
  <1>. PICK i, w : i = image[p] /\ w = told
    OBVIOUS
  <1>1. /\ w \in 1..Version /\ Version \in Nat /\ Version' \in Nat /\ Version <= Version'
        /\ procCache = [q \in Procs |-> procCache[q]]
        /\ reads = [c \in Clients |-> [q \in Procs |-> reads[c][q]]]
    BY DEF AnswerInv, CachesInv, Lasting, Extended
  <1>2. /\ procCache' = [q \in Procs |-> procCache'[q]] /\ procCache'[p] = pol
        /\ \A q \in Procs : q # p => procCache'[q] \in {procCache[q], NoValue}
    BY DEF PutPolicy
  <1>3. CacheSound(p)'
    <2>1. ~raced' => ~raced /\ w <= v
      <3>1. ~raced' => ~raced /\ ~(v < w)
        BY Zenon DEF Stale
      <3>2. ~(v < w) => w <= v
        BY <1>1
      <3>. QED
        BY <3>1, <3>2
    <2>2. ~raced' => Grants(i, pol, w)
      <3>1. Grants(i, pol, v) /\ w <= v => Grants(i, pol, w)
        BY <1>1 DEF Grants
      <3>. QED
        BY <2>1, <3>1
    <2>3. Grants(i, pol, 1)' /\ (~raced' => Grants(i, pol, w)')
      BY <1>1, <2>2, GrowGrants DEF Lasting
    <2>4. life'[p] # "new" /\ image'[p] = i /\ told' = w
      BY DEF Lasting
    <2>. QED
      BY <1>2, <2>3, <2>4 DEF CacheSound
  <1>4. ASSUME NEW q \in Procs, q # p
        PROVE  CacheSound(q)'
    <2>. SUFFICES ASSUME procCache'[q] # NoValue
                  PROVE  CacheSound(q)'
      BY DEF CacheSound
    <2>. PICK j, other : j = image[q] /\ other = procCache[q]
      OBVIOUS
    <2>1. procCache'[q] = other
      BY <1>2, <1>4
    <2>2. life[q] # "new" /\ Grants(j, other, 1) /\ (subscribed /\ ~raced => Grants(j, other, w))
      BY <2>1 DEF AnswerInv, CachesInv, CacheSound
    <2>3. life'[q] # "new" /\ image'[q] = j /\ (~raced' => ~raced)
      BY <2>2 DEF Lasting, Extended
    <2>4. Grants(j, other, 1)' /\ (subscribed /\ ~raced => Grants(j, other, w)')
      BY <1>1, <2>2, GrowGrants DEF Lasting
    <2>. QED
      BY <2>1, <2>3, <2>4 DEF CacheSound
  <1>5. /\ reads' = [c \in Clients |-> [q \in Procs |-> reads'[c][q]]]
        /\ \A c \in Clients, q \in Procs : reads'[c][q] \subseteq reads[c][q]
    BY <1>1, ReadsForgotten
  <1>6. ASSUME NEW c \in Clients, NEW q \in Procs
        PROVE  ReadsSound(c, q)'
    <2>. PICK j : j = image[q]
      OBVIOUS
    <2>1. ASSUME NEW f \in reads'[c][q]
          PROVE  life'[q] # "new" /\ Readable(c, j, f)' /\ image'[q] = j
      <3>1. life[q] # "new" /\ Readable(c, j, f)
        BY <1>5 DEF AnswerInv, CachesInv, ReadsSound
      <3>. QED
        BY <3>1, GrowReadable DEF Lasting
    <2>. QED
      BY <2>1 DEF ReadsSound
  <1>7. told' \in 1..Version' /\ override' \in {"none", "audit", "disable"}
    BY <1>1 DEF AnswerInv, CachesInv
  <1>. QED
    BY <1>2, <1>3, <1>4, <1>5, <1>6, <1>7 DEF CachesInv

LEMMA CachesProcessMessage ==
    ASSUME AnswerInv, Lasting, NEW c \in Clients, NEW p \in Procs, ProcessMessage(c, p)
    PROVE  CachesInv'
  <1>. DEFINE o == op[c][p]
              i == image[p]
              fs == ReadsToCache(o.access, o.pols, Decisions(c, o.access, o.pols, o.override, i))
              new == IF fs = {} THEN reads[c][p] ELSE SetCacheAdd(reads[c][p], CHOOSE f \in fs : TRUE)
              full == fs # {} /\ reads[c][p] = {} /\ Cardinality(Readers) >= ReadsProcs
              kept == IF full THEN NoReads ELSE reads
  <1>1. /\ o.pc = "decide" /\ reads' = AddReads(c, p, fs)
        /\ UNCHANGED <<rules, told, override, subscribed, procCache, raced, image, life>>
    BY DEF ProcessMessage, policies, settings, process
  <1>2. /\ life[p] # "new" /\ o.access \in Accesses /\ o.from \in 1..Version /\ DecideSound(c, i, o)
    BY <1>1 DEF AnswerInv, OpsInv, OpsSound, OpSound
  <1>3. reads = [d \in Clients |-> [q \in Procs |-> reads[d][q]]]
    BY DEF AnswerInv, CachesInv
  <1>15. /\ kept = [d \in Clients |-> [q \in Procs |-> kept[d][q]]]
         /\ \A d \in Clients, q \in Procs : kept[d][q] \subseteq reads[d][q]
         /\ full => kept[c][p] = reads[c][p]
    BY <1>3 DEF NoReads
  <1>4. reads' = [kept EXCEPT ![c][p] = new]
    <2>1. CASE fs = {}
      <3>1. kept = reads /\ new = reads[c][p] /\ reads' = reads
        BY <1>1, <2>1 DEF AddReads
      <3>. QED
        BY <1>3, <3>1
    <2>2. CASE fs # {}
      <3>1. reads' = [kept EXCEPT ![c][p] = SetCacheAdd(kept[c][p], CHOOSE f \in fs : TRUE)]
        BY <1>1, <2>2 DEF AddReads
      <3>2. kept[c][p] = reads[c][p]
        BY <1>15
      <3>. QED
        BY <2>2, <3>1, <3>2
    <2>. QED
      BY <2>1, <2>2
  <1>5. \A f \in new : f \in reads[c][p] \/ f \in fs
    <2>1. fs # {} => (CHOOSE f \in fs : TRUE) \in fs
      OBVIOUS
    <2>. HIDE DEF fs
    <2>. QED
      BY <2>1 DEF SetCacheAdd
  <1>6. ASSUME NEW f \in fs
        PROVE  Readable(c, i, f)
    <2>1. PICK k \in DOMAIN o.pols : /\ f = Targets(o.access)[k].path
                                     /\ o.pols[k] # NoValue /\ Rules[o.pols[k]].reads
      BY ReadsCached
    <2>. HIDE DEF fs, o, i
    <2>2. CASE c = "data"
      <3>1. PICK v \in o.from..Version : Governed(rules[v], o)
        BY <1>2, <2>2 DEF DecideSound
      <3>2. o.pols[k] \in Governing(rules[v], f)
        BY <2>1, <3>1 DEF Governed
      <3>3. v \in 1..Version
        BY <1>2, <3>1
      <3>. QED
        BY <2>1, <2>2, <3>2, <3>3 DEF Readable
    <2>3. CASE c = "process"
      <3>1. PICK pol \in DOMAIN Rules : o.pols = SamePolicy(o.access, pol) /\ Grants(i, pol, 1)
        BY <1>2, <2>3 DEF DecideSound
      <3>2. o.pols[k] = pol
        BY <2>1, <3>1 DEF SamePolicy
      <3>. QED
        BY <2>1, <2>3, <3>1, <3>2 DEF Readable, Grants
    <2>. QED
      BY <2>2, <2>3 DEF Clients
  <1>. HIDE DEF fs, o, i, new, kept
  <1>7. \A d \in Clients : reads'[d] = IF d = c THEN [kept[d] EXCEPT ![p] = new] ELSE kept[d]
    BY <1>15, <1>4
  <1>8. \A d \in Clients : kept[d] = [q \in Procs |-> kept[d][q]]
    BY <1>15
  <1>9. /\ reads' = [d \in Clients |-> reads'[d]]
        /\ \A d \in Clients : reads'[d] = [q \in Procs |-> reads'[d][q]]
        /\ \A d \in Clients, q \in Procs : reads'[d][q] = IF d = c /\ q = p THEN new ELSE kept[d][q]
    BY <1>15, <1>4, <1>7, <1>8
  <1>10. \A d \in Clients, q \in Procs : ReadsSound(d, q)
    BY DEF AnswerInv, CachesInv
  <1>11. ASSUME NEW d \in Clients, NEW q \in Procs
         PROVE  ReadsSound(d, q)'
    <2>1. ASSUME NEW f \in reads'[d][q]
          PROVE  life[q] # "new" /\ Readable(d, image[q], f)
      <3>1. CASE f \in reads[d][q]
        BY <1>10, <3>1 DEF ReadsSound
      <3>2. CASE f \notin reads[d][q]
        <4>1. d = c /\ q = p /\ f \in fs
          BY <1>5, <1>9, <1>15, <3>2
        <4>. QED
          BY <1>2, <1>6, <4>1 DEF i
      <3>. QED
        BY <3>1, <3>2
    <2>2. UNCHANGED <<rules, image, life>>
      BY <1>1
    <2>3. \A f : Readable(d, image[q], f)' <=> Readable(d, image[q], f)
      BY <2>2 DEF Readable, Version
    <2>. QED
      BY <2>1, <2>2, <2>3 DEF ReadsSound
  <1>12. \A q \in Procs : CacheSound(q)'
    BY <1>1 DEF AnswerInv, CachesInv, CacheSound, Grants, Version
  <1>13. told' \in 1..Version' /\ override' \in {"none", "audit", "disable"}
         /\ procCache' = [q \in Procs |-> procCache'[q]]
    BY <1>1 DEF AnswerInv, CachesInv, Version
  <1>14. reads' = [d \in Clients |-> [q \in Procs |-> reads'[d][q]]]
    BY <1>9
  <1>. QED
    BY <1>11, <1>12, <1>13, <1>14 DEF CachesInv

\* Steps that cache nothing and tell the client nothing.
LEMMA CachesKept ==
    ASSUME AnswerInv, Lasting, UNCHANGED <<told, subscribed>>, override' \in {"none", "audit", "disable"},
           \/ UNCHANGED caches
           \/ /\ procCache' = procCache \/ \E p \in Procs : procCache' = [procCache EXCEPT ![p] = NoValue]
              /\ reads' = [c \in Clients |-> [p \in Procs |-> reads'[c][p]]]
              /\ \A c \in Clients, p \in Procs : reads'[c][p] \subseteq reads[c][p]
    PROVE  CachesInv'
  <1>1. /\ told \in 1..Version /\ Version \in Nat /\ Version' \in Nat /\ Version <= Version'
        /\ procCache = [p \in Procs |-> procCache[p]]
        /\ reads = [c \in Clients |-> [p \in Procs |-> reads[c][p]]]
    BY DEF AnswerInv, CachesInv, Lasting, Extended
  <1>2. /\ reads' = [c \in Clients |-> [p \in Procs |-> reads'[c][p]]]
        /\ \A c \in Clients, p \in Procs : reads'[c][p] \subseteq reads[c][p]
    BY <1>1 DEF caches
  <1>3. /\ procCache' = [p \in Procs |-> procCache'[p]]
        /\ \A p \in Procs : procCache'[p] \in {procCache[p], NoValue}
    BY <1>1 DEF caches
  <1>4. told' \in 1..Version'
    BY <1>1
  <1>. QED
    BY <1>2, <1>3, <1>4, CachesFrame

LEMMA CachesStorePolicy ==
    ASSUME AnswerInv, Lasting, StorePolicy
    PROVE  CachesInv'
  <1>1. /\ handler.pc = "store" /\ UNCHANGED <<told, override, subscribed>>
        /\ \/ /\ handler.pol # NoValue /\ PutPolicy(handler.proc, handler.pol)
              /\ Stale(handler.version) /\ reads' = reads
           \/ procCache' = procCache /\ reads' = ForgetReads("process", {handler.proc})
    BY DEF StorePolicy, policies, settings, StopWatching
  <1>. PICK p, pol, v : p = handler.proc /\ pol = handler.pol /\ v = handler.version
    OBVIOUS
  <1>2. p \in Procs /\ life[p] # "new" /\ v \in 1..Version
    BY <1>1 DEF AnswerInv, KeepInv, Handling, CarryInv, HandlerCarries
  <1>3. pol # NoValue => Grants(image[p], pol, 1) /\ (~raced => Grants(image[p], pol, v))
    BY <1>1 DEF AnswerInv, CarryInv, HandlerCarries
  <1>4. CASE pol # NoValue /\ PutPolicy(p, pol) /\ Stale(v) /\ reads' = reads
    BY <1>1, <1>2, <1>3, <1>4, CachesPut
  <1>5. CASE procCache' = procCache /\ reads' = ForgetReads("process", {p})
    <2>1. /\ reads' = [c \in Clients |-> [q \in Procs |-> reads'[c][q]]]
          /\ \A c \in Clients, q \in Procs : reads'[c][q] \subseteq reads[c][q]
      BY <1>5, ReadsForgotten DEF AnswerInv, CachesInv
    <2>2. override' \in {"none", "audit", "disable"}
      BY <1>1 DEF AnswerInv, CachesInv
    <2>. QED
      BY <1>1, <1>5, <2>1, <2>2, CachesKept
  <1>. QED
    BY <1>1, <1>4, <1>5

LEMMA CachesStarted ==
    ASSUME AnswerInv, Lasting, ForkStart \/ ProbeStart
    PROVE  CachesInv'
  <1>1. UNCHANGED <<told, override, subscribed, reads>>
    BY DEF ForkStart, ProbeStart, policies, settings
  <1>2. PICK p, pol, v :
           /\ StartWatching(p, pol, v) /\ p \in Procs /\ life[p] # "new" /\ v \in 1..Version
           /\ pol # NoValue => Grants(image[p], pol, 1) /\ (~raced => Grants(image[p], pol, v))
    <2>1. CASE ForkStart
      <3>1. handler.pc = "fork" /\ StartWatching(handler.proc, handler.pol, handler.version)
        BY <2>1 DEF ForkStart
      <3>2. handler.proc \in Procs /\ life[handler.proc] # "new" /\ handler.version \in 1..Version
        BY <3>1 DEF AnswerInv, KeepInv, Handling, CarryInv, HandlerCarries
      <3>3. handler.pol # NoValue => /\ Grants(image[handler.proc], handler.pol, 1)
                                     /\ ~raced => Grants(image[handler.proc], handler.pol, handler.version)
        BY <3>1 DEF AnswerInv, CarryInv, HandlerCarries
      <3>. QED
        BY <3>1, <3>2, <3>3
    <2>2. CASE ProbeStart
      <3>1. probe.pc = "start" /\ StartWatching(probe.proc, probe.pol, probe.version)
        BY <2>2 DEF ProbeStart
      <3>2. probe.proc \in Procs /\ life[probe.proc] # "new" /\ probe.version \in 1..Version /\ Version \in Nat
        BY <3>1 DEF AnswerInv, KeepInv, Probing, Lasting, Extended
      <3>3. Grants(image[probe.proc], probe.pol, 1) /\ Grants(image[probe.proc], probe.pol, probe.version)
        <4>1. probe.pol \in Found(Loaded[rules[probe.version]], image[probe.proc])
          BY <3>1 DEF AnswerInv, CarryInv, ProbeCarries
        <4>. QED
          BY <3>2, <4>1 DEF Grants
      <3>. QED
        BY <3>1, <3>2, <3>3
    <2>. QED
      BY <2>1, <2>2
  <1>3. CASE pol # NoValue
    <2>1. PutPolicy(p, pol) /\ Stale(v)
      BY <1>2, <1>3 DEF StartWatching
    <2>. QED
      BY <1>1, <1>2, <1>3, <2>1, CachesPut
  <1>4. CASE pol = NoValue
    <2>1. UNCHANGED procCache
      BY <1>2, <1>4 DEF StartWatching
    <2>2. UNCHANGED caches /\ override' \in {"none", "audit", "disable"}
      BY <1>1, <2>1 DEF caches, AnswerInv, CachesInv
    <2>. QED
      BY <1>1, <2>2, CachesKept
  <1>. QED
    BY <1>3, <1>4

LEMMA CachesGone ==
    ASSUME AnswerInv, Lasting, Execed \/ \E p \in Procs : Exit(p)
    PROVE  CachesInv'
  <1>1. /\ UNCHANGED <<told, override, subscribed>>
        /\ override' \in {"none", "audit", "disable"}
        /\ reads = [c \in Clients |-> [q \in Procs |-> reads[c][q]]]
    BY DEF Execed, Exit, policies, settings, AnswerInv, CachesInv
  <1>2. CASE Execed
    <2>1. probe.from \in Procs
      BY <1>2 DEF Execed, AnswerInv, KeepInv, Probing
    <2>2. \/ UNCHANGED caches
          \/ /\ procCache' = [procCache EXCEPT ![probe.from] = NoValue]
             /\ reads' = ForgetReads("process", {probe.from})
      BY <1>2 DEF Execed, Forget
    <2>3. reads' = ForgetReads("process", {probe.from}) =>
             /\ reads' = [c \in Clients |-> [q \in Procs |-> reads'[c][q]]]
             /\ \A c \in Clients, q \in Procs : reads'[c][q] \subseteq reads[c][q]
      BY <1>1, ReadsForgotten
    <2>. QED
      BY <1>1, <2>1, <2>2, <2>3, CachesKept
  <1>3. ASSUME NEW p \in Procs, Exit(p)
        PROVE  CachesInv'
    <2>. DEFINE known == {c \in Clients : c = "data" \/ Heard(p)}
    <2>1. \/ UNCHANGED caches
          \/ /\ procCache' = procCache \/ procCache' = [procCache EXCEPT ![p] = NoValue]
             /\ reads' = [c \in Clients |-> IF c \in known THEN [reads[c] EXCEPT ![p] = {}] ELSE reads[c]]
      BY <1>3 DEF Exit
    <2>. HIDE DEF known
    <2>2. ASSUME reads' = [c \in Clients |-> IF c \in known THEN [reads[c] EXCEPT ![p] = {}] ELSE reads[c]]
          PROVE  /\ reads' = [c \in Clients |-> [q \in Procs |-> reads'[c][q]]]
                 /\ \A c \in Clients, q \in Procs : reads'[c][q] \subseteq reads[c][q]
      <3>1. \A c \in Clients : reads[c] = [q \in Procs |-> reads[c][q]]
        BY <1>1
      <3>2. \A c \in Clients : reads'[c] = IF c \in known THEN [reads[c] EXCEPT ![p] = {}] ELSE reads[c]
        BY <2>2
      <3>3. \A c \in Clients : reads'[c] = [q \in Procs |-> reads'[c][q]]
        BY <3>1, <3>2
      <3>4. \A c \in Clients, q \in Procs : reads'[c][q] \subseteq reads[c][q]
        BY <3>1, <3>2
      <3>5. reads' = [c \in Clients |-> reads'[c]]
        BY <2>2
      <3>. QED
        BY <3>3, <3>4, <3>5
    <2>. QED
      BY <1>1, <2>1, <2>2, CachesKept
  <1>. QED
    BY <1>2, <1>3

LEMMA CachesTold ==
    ASSUME AnswerInv, Lasting, Enable \/ Disable
    PROVE  CachesInv'
  <1>1. /\ told' = Version /\ UNCHANGED <<rules, override>>
        /\ \/ /\ procCache' = [p \in Procs |-> NoValue]
              /\ reads' = ForgetReads("process", Cached)
           \/ subscribed' = FALSE /\ UNCHANGED caches
    BY DEF Enable, Disable, StopWatching, settings
  <1>2. /\ told' \in 1..Version' /\ override' \in {"none", "audit", "disable"}
        /\ reads = [c \in Clients |-> [q \in Procs |-> reads[c][q]]]
        /\ procCache = [p \in Procs |-> procCache[p]]
    BY <1>1 DEF AnswerInv, CachesInv, Version
  <1>3. CASE procCache' = [p \in Procs |-> NoValue] /\ reads' = ForgetReads("process", Cached)
    <2>1. /\ procCache' = [p \in Procs |-> procCache'[p]]
          /\ \A p \in Procs : procCache'[p] = NoValue
      BY <1>3
    <2>2. /\ reads' = [c \in Clients |-> [q \in Procs |-> reads'[c][q]]]
          /\ \A c \in Clients, q \in Procs : reads'[c][q] \subseteq reads[c][q]
      BY <1>2, <1>3, ReadsForgotten
    <2>. QED
      BY <1>2, <2>1, <2>2, CachesFrame
  <1>4. CASE subscribed' = FALSE /\ UNCHANGED <<procCache, reads>>
    <2>1. ~subscribed'
      BY <1>4
    <2>2. \A p \in Procs : procCache'[p] \in {procCache[p], NoValue}
      BY <1>4
    <2>. QED
      BY <1>2, <1>4, <2>1, <2>2, CachesFrame
  <1>. QED
    BY <1>1, <1>3, <1>4 DEF caches

LEMMA CachesInvStep ==
    ASSUME AnswerInv, [Next]_vars
    PROVE  CachesInv'
  <1>1. Lasting /\ override \in {"none", "audit", "disable"}
    BY StepLasts DEF AnswerInv, CachesInv
  <1>2. CASE UNCHANGED <<told, subscribed, caches>> /\ override' \in {"none", "audit", "disable"}
    BY <1>1, <1>2, CachesKept
  <1>3. CASE UNCHANGED <<told, subscribed, caches, override>>
    BY <1>1, <1>2, <1>3
  <1>4. CASE UNCHANGED vars
    BY <1>3, <1>4 DEF vars, policies, settings
  <1>5. CASE \/ \E c \in Clients, p \in Procs : Respond(c, p) \/ DeadlineResponds(c, p)
             \/ \E c \in Clients, p \in Procs, a \in Accesses : FileAccess(c, p, a)
             \/ \E p \in Procs : LookupData(p)
             \/ FindPolicy \/ ProbeInterest
    BY <1>3, <1>5 DEF Respond, DeadlineResponds, FileAccess, LookupData, FindPolicy, ProbeInterest, policies, settings
  <1>6. CASE \E p \in Procs : Fork(p) \/ \E i \in DOMAIN Images : Exec(p, i)
    BY <1>3, <1>6 DEF Fork, Exec, policies, settings
  <1>7. CASE \/ \E c \in Configs : ChangeRules(c)
             \/ TellCount
             \/ \E o \in {"none", "audit", "disable"} : SetOverride(o)
             \/ \E on \in BOOLEAN : SetProtection(on) \/ SetRateLimit(on)
    BY <1>1, <1>2, <1>7 DEF ChangeRules, TellCount, SetOverride, SetProtection, SetRateLimit, policies, settings
  <1>. QED
    BY <1>1, <1>4, <1>5, <1>6, <1>7, CachesProcessMessage, CachesStorePolicy, CachesStarted, CachesGone,
       CachesTold DEF Next, Client, Reconfigure, Answer, Live

\* The access for which a policy is looked up waits for it.
LEMMA FindingWaits ==
    ASSUME OpInv, [Next]_vars, handler.pc = "store", UNCHANGED handler
    PROVE  op'["process"][handler.proc] = op["process"][handler.proc]
  <1>1. /\ "process" \in Clients /\ handler.proc \in Procs
        /\ op["process"][handler.proc].pc = "finding"
    BY DEF Clients, OpInv, Finding
  <1>2. CASE UNCHANGED op
    BY <1>2
  <1>3. ASSUME NEW c \in Clients, NEW p \in Procs, NEW o, SetOp(c, p, o),
               c # "process" \/ op[c][p].pc # "finding"
        PROVE  op'["process"][handler.proc] = op["process"][handler.proc]
    <2>1. c # "process" \/ p # handler.proc
      BY <1>1, <1>3
    <2>2. op = [d \in Clients |-> [q \in Procs |-> op[d][q]]]
      BY DEF OpInv, OpShape
    <2>3. op'["process"] = IF c = "process" THEN [op["process"] EXCEPT ![p] = o] ELSE op["process"]
      BY <1>1, <1>3, <2>2 DEF SetOp
    <2>. QED
      BY <1>1, <2>1, <2>2, <2>3
  <1>4. ASSUME NEW c \in Clients, NEW p \in Procs, NEW a \in Accesses, FileAccess(c, p, a)
        PROVE  op'["process"][handler.proc] = op["process"][handler.proc]
    <2>1. c = "data"
      BY <1>4 DEF FileAccess, HandleProcess, IgnoreMessage, Clients
    <2>2. \E o : SetOp("data", p, o)
      BY <1>4, <2>1 DEF FileAccess, HandleData, IgnoreMessage
    <2>. QED
      BY <1>3, <2>1, <2>2
  <1>5. CASE \E p \in Procs : LookupData(p)
    <2>1. PICK p \in Procs : \E o : SetOp("data", p, o)
      BY <1>5 DEF LookupData
    <2>2. "data" \in Clients
      BY DEF Clients
    <2>. QED
      BY <1>3, <2>1, <2>2
  <1>6. ASSUME NEW c \in Clients, NEW p \in Procs, ProcessMessage(c, p) \/ Respond(c, p)
        PROVE  op'["process"][handler.proc] = op["process"][handler.proc]
    <2>1. op[c][p].pc # "finding" /\ \E o : SetOp(c, p, o)
      BY <1>6 DEF ProcessMessage, Respond
    <2>. QED
      BY <1>3, <2>1
  <1>7. CASE FindPolicy \/ StorePolicy \/ ForkStart \/ \E p \in Procs : Fork(p)
    <2>1. ~FindPolicy /\ ~ForkStart /\ ~\E p \in Procs : Fork(p)
      BY DEF FindPolicy, ForkStart, Fork
    <2>2. StorePolicy => handler'.pc = "idle"
      BY DEF StorePolicy
    <2>. QED
      BY <1>7, <2>1, <2>2
  <1>. QED
    BY <1>2, <1>4, <1>5, <1>6, <1>7, OpRest

LEMMA HandlerFrame ==
    ASSUME AnswerInv, [Next]_vars, Lasting, UNCHANGED handler
    PROVE  HandlerCarries'
  <1>. SUFFICES ASSUME handler.pc \in {"store", "fork"}
                PROVE  HandlerCarries'
    BY DEF HandlerCarries
  <1>. PICK p, i, pol, v, from :
          /\ p = handler.proc /\ i = image[p] /\ pol = handler.pol /\ v = handler.version
          /\ from = op["process"][p].from
    OBVIOUS
  <1>1. p \in Procs /\ life[p] # "new" /\ image'[p] = i
    BY DEF AnswerInv, KeepInv, Handling, Lasting
  <1>2. v \in 1..Version /\ v \in 1..Version' /\ rules'[v] = rules[v] /\ v \in Nat \ {0} /\ 1 \in Nat \ {0}
    BY DEF AnswerInv, CarryInv, HandlerCarries, Lasting, Extended
  <1>3. pol # NoValue => Grants(i, pol, 1)' /\ (~raced' => Grants(i, pol, v)')
    <2>1. pol # NoValue => Grants(i, pol, 1) /\ (~raced => Grants(i, pol, v))
      BY DEF AnswerInv, CarryInv, HandlerCarries
    <2>2. (~raced' => ~raced) /\ Extended
      BY DEF Lasting, Extended
    <2>. QED
      BY <1>2, <2>1, <2>2, GrowGrants
  <1>4. handler.pc = "store" => /\ from <= v /\ op'["process"][p].from = from
                                /\ pol # NoValue => pol \in Found(Loaded[rules[v]], i)
    BY FindingWaits DEF AnswerInv, CarryInv, HandlerCarries
  <1>. QED
    BY <1>1, <1>2, <1>3, <1>4 DEF HandlerCarries

LEMMA ProbeFrame ==
    ASSUME AnswerInv, Lasting, probe' = probe \/ probe'.pc # "start"
    PROVE  ProbeCarries'
  <1>1. CASE probe' = probe /\ probe.pc = "start"
    <2>1. /\ probe.proc \in Procs /\ life[probe.proc] # "new" /\ probe.version \in 1..Version
          /\ probe.pol \in Found(Loaded[rules[probe.version]], image[probe.proc])
      BY <1>1 DEF AnswerInv, KeepInv, Probing, CarryInv, ProbeCarries
    <2>2. image'[probe.proc] = image[probe.proc] /\ rules'[probe.version] = rules[probe.version]
      BY <2>1 DEF Lasting, Extended
    <2>. QED
      BY <1>1, <2>1, <2>2 DEF ProbeCarries
  <1>. QED
    BY <1>1 DEF ProbeCarries

LEMMA CarryFindPolicy ==
    ASSUME AnswerInv, Lasting, FindPolicy
    PROVE  HandlerCarries'
  <1>. PICK p, i, from : p = handler.proc /\ i = image[p] /\ from = op["process"][p].from
    OBVIOUS
  <1>1. PICK pol : /\ handler' = [pc |-> "store", proc |-> p, pol |-> pol, version |-> Version]
                   /\ pol # NoValue => pol \in Found(Current, i)
    BY DEF FindPolicy
  <1>2. UNCHANGED <<rules, image, op, raced>> /\ handler.pc = "find"
    BY DEF FindPolicy, policies, process
  <1>3. Version \in Nat /\ Version >= 1 /\ Version' = Version
    BY <1>2 DEF AnswerInv, KeepInv, Living, Version
  <1>4. from \in 1..Version
    <2>1. "process" \in Clients /\ p \in Procs /\ op["process"][p].pc = "finding"
      BY <1>2 DEF Clients, AnswerInv, OpInv, Finding
    <2>. QED
      BY <2>1 DEF AnswerInv, OpsInv, OpsSound, OpSound
  <1>5. handler'.pol = pol /\ handler'.version = Version /\ handler'.proc = p /\ handler'.pc = "store"
    BY <1>1
  <1>6. pol # NoValue => /\ pol \in Found(Loaded[rules'[Version]], i)
                         /\ Grants(i, pol, 1)' /\ Grants(i, pol, Version)'
    BY <1>1, <1>2, <1>3 DEF Grants, Current
  <1>. QED
    BY <1>2, <1>3, <1>4, <1>5, <1>6 DEF HandlerCarries

LEMMA CarryFork ==
    ASSUME AnswerInv, [Next]_vars, Lasting, NEW p \in Procs, Fork(p)
    PROVE  HandlerCarries'
  <1>1. CASE UNCHANGED handler
    BY <1>1, HandlerFrame
  <1>2. CASE ~UNCHANGED handler
    <2>. PICK i, pol, w : i = image[p] /\ pol = procCache[p] /\ w = told
      OBVIOUS
    <2>1. /\ subscribed /\ UNCHANGED <<rules, raced>>
          /\ handler' = [pc |-> "fork", proc |-> NextProc, pol |-> pol, version |-> w]
      BY <1>2 DEF Fork, Heard, policies
    <2>2. image'[NextProc] = i
      <3>1. image' = [image EXCEPT ![NextProc] = i] /\ NextProc \in Procs
        BY NextProcIsNew DEF Fork
      <3>. QED
        BY <3>1 DEF AnswerInv, KeepInv, Living
    <2>3. w \in 1..Version /\ Version' = Version
      BY <2>1 DEF AnswerInv, CachesInv, Version
    <2>4. pol # NoValue => Grants(i, pol, 1) /\ (~raced => Grants(i, pol, w))
      BY <2>1 DEF AnswerInv, CachesInv, CacheSound
    <2>5. pol # NoValue => Grants(i, pol, 1)' /\ (~raced' => Grants(i, pol, w)')
      BY <2>1, <2>3, <2>4 DEF Grants
    <2>6. handler'.pc = "fork" /\ handler'.proc = NextProc /\ handler'.pol = pol /\ handler'.version = w
      BY <2>1
    <2>. QED
      BY <2>2, <2>3, <2>5, <2>6 DEF HandlerCarries
  <1>. QED
    BY <1>1, <1>2

LEMMA CarryProbeInterest ==
    ASSUME AnswerInv, Lasting, ProbeInterest
    PROVE  ProbeCarries'
  <1>1. CASE probe'.pc # "start"
    BY <1>1, ProbeFrame
  <1>2. CASE probe'.pc = "start"
    <2>1. PICK pol \in Found(Current, image[probe.proc]) :
             probe' = [pc |-> "start", from |-> probe.from, proc |-> probe.proc, pol |-> pol, version |-> Version]
      BY <1>2 DEF ProbeInterest
    <2>2. UNCHANGED <<rules, image>>
      BY DEF ProbeInterest, policies, process
    <2>. QED
      BY <2>1, <2>2 DEF ProbeCarries, Current
  <1>. QED
    BY <1>1, <1>2

LEMMA CarryInvStep ==
    ASSUME AnswerInv, [Next]_vars
    PROVE  CarryInv'
  <1>1. Lasting
    BY StepLasts DEF AnswerInv
  <1>2. HandlerCarries'
    <2>1. CASE UNCHANGED handler
      BY <1>1, <2>1, HandlerFrame
    <2>2. CASE \E c \in Clients, p \in Procs, a \in Accesses : FileAccess(c, p, a)
      <3>1. UNCHANGED handler \/ handler'.pc = "find"
        BY <2>2 DEF FileAccess, HandleData, HandleProcess, IgnoreMessage
      <3>. QED
        BY <2>1, <3>1 DEF HandlerCarries
    <2>3. CASE \/ \E p \in Procs : LookupData(p)
               \/ \E c \in Clients, p \in Procs : ProcessMessage(c, p) \/ Respond(c, p)
      BY <2>1, <2>3 DEF LookupData, ProcessMessage, Respond
    <2>4. CASE StorePolicy \/ ForkStart
      <3>1. handler'.pc = "idle"
        BY <2>4 DEF StorePolicy, ForkStart
      <3>. QED
        BY <3>1 DEF HandlerCarries
    <2>. QED
      BY <1>1, <2>1, <2>2, <2>3, <2>4, CarryFindPolicy, CarryFork, OpRest
  <1>3. ProbeCarries'
    <2>1. CASE probe' = probe \/ probe'.pc # "start"
      BY <1>1, <2>1, ProbeFrame
    <2>2. CASE UNCHANGED vars
      BY <2>1, <2>2 DEF vars
    <2>3. CASE \E p \in Procs : Answer(p)
      BY <2>1, <2>3 DEF Answer, FileAccess, LookupData, ProcessMessage, DeadlineResponds
    <2>4. CASE \E c \in Clients, p \in Procs : Respond(c, p)
      BY <2>1, <2>4 DEF Respond
    <2>5. CASE \E p \in Procs : Live(p)
      <3>1. probe' = probe \/ probe'.pc # "start"
        BY <2>5 DEF Live, Fork, Exit, Exec
      <3>. QED
        BY <2>1, <3>1
    <2>6. CASE FindPolicy \/ StorePolicy \/ ForkStart
      BY <2>1, <2>6 DEF FindPolicy, StorePolicy, ForkStart
    <2>7. CASE ProbeStart \/ Execed
      <3>1. probe'.pc # "start"
        BY <2>7 DEF ProbeStart, Execed
      <3>. QED
        BY <2>1, <3>1
    <2>8. CASE Reconfigure
      BY <2>1, <2>8 DEF Reconfigure, ChangeRules, TellCount, Enable, Disable, SetOverride, SetProtection,
         SetRateLimit
    <2>. QED
      BY <1>1, <2>2, <2>3, <2>4, <2>5, <2>6, <2>7, <2>8, CarryProbeInterest DEF Next, Client
  <1>. QED
    BY <1>2, <1>3 DEF CarryInv

LEMMA AnswerInvInit == Init => AnswerInv
  <1>. SUFFICES ASSUME Init
                PROVE  AnswerInv
    OBVIOUS
  <1>1. OpInv /\ KeepInv
    BY OpInvInit, KeepInvInit
  <1>2. /\ Version = 1 /\ told = 1 /\ override = "none"
        /\ reads = NoReads
        /\ op = [c \in Clients |-> [p \in Procs |-> Idle]]
        /\ handler.pc = "idle" /\ probe.pc = "idle"
        /\ life = [p \in Procs |-> IF p = FirstProc THEN "running" ELSE "new"]
        /\ image = [p \in Procs |-> First]
    BY DEF Init, Version
  <1>3. PICK pol \in Found(Current, First) : procCache = [p \in Procs |-> IF p = FirstProc THEN pol ELSE NoValue]
    BY DEF Init
  <1>4. Grants(First, pol, 1)
    BY <1>2, <1>3 DEF Grants, Current
  <1>5. \A p \in Procs : CacheSound(p)
    BY <1>2, <1>3, <1>4 DEF CacheSound
  <1>6. CachesInv
    <2>1. procCache = [p \in Procs |-> procCache[p]]
      BY <1>3
    <2>2. reads = [c \in Clients |-> [p \in Procs |-> reads[c][p]]]
      BY <1>2 DEF NoReads
    <2>3. \A c \in Clients, p \in Procs : ReadsSound(c, p)
      BY <1>2 DEF NoReads, ReadsSound
    <2>. QED
      BY <1>2, <1>5, <2>1, <2>2, <2>3 DEF CachesInv
  <1>7. OpsInv
    BY <1>2 DEF OpsInv, OpsSound, OpSound, Idle
  <1>8. CarryInv
    BY <1>2 DEF CarryInv, HandlerCarries, ProbeCarries
  <1>. QED
    BY <1>1, <1>6, <1>7, <1>8 DEF AnswerInv

\* Whichever rules are loaded while accesses are under way, whenever deadlines pass and
\* the protection is switched, what a handler answers is the answer of
\* rules that were in force between the access and the answer (for the process
\* client, since it was last told, unless it cached a policy found before); and
\* what the reads cache lets through was let through by rules before
\* (handleMessage, processMessage, ProcessMessage, ImmediateResponse).
THEOREM AnswersAlwaysJustified == Spec => []AnswersJustified
  <1>1. AnswerInv /\ [Next]_vars => AnswerInv'
    BY OpInvStep, KeepInvStep, CachesInvStep, OpsInvStep, CarryInvStep DEF AnswerInv
  <1>2. AnswerInv => AnswersJustified
    <2>. SUFFICES ASSUME AnswerInv, NEW c \in Clients, NEW p \in Procs, op[c][p].pc = "answer"
                  PROVE  /\ op[c][p].how = "reads" => ReadJustified(c, p)
                         /\ op[c][p].how \in {"allow", "deny", "nopolicy"} /\ (c = "process" => ~raced) =>
                              \E v \in op[c][p].from..Version :
                                 \/ /\ op[c][p].override = "none"
                                    /\ op[c][p].how \in Answers(c, v, op[c][p].access, image[p])
                                 \/ op[c][p].override = "audit" /\ op[c][p].how # "deny"
      BY DEF AnswersJustified
    <2>1. AnswerSound(c, image[p], op[c][p])
      BY DEF AnswerInv, OpsInv, OpsSound, OpSound
    <2>. QED
      BY <2>1 DEF AnswerSound, ReadJustified, Readable
  <1>. QED
    BY <1>1, <1>2, AnswerInvInit, PTL DEF Spec
====
