--------------------------- MODULE RecorderProofs ---------------------------
(* Proofs about Recorder, for any event types, files, programs, masks and   *)
(* bounds: who owns a message, what is counted, what is left in the cache   *)
(* of answers, and what a record says.                                      *)
EXTENDS Recorder, FiniteSetTheorems, TLAPS

Counters == EventTypes \cup {"LAST"}
Kinds == {"user", "group"}
Names == {None, "n"}
IDs == {None, "a", "b"}
StoredIDs == {"", "a", "b"}
Messages == 1..MaxEvents

(* An event that the handler works on, and one that a block logs.           *)
Events ==
  [step : {"filter", "enrich"}, type : EventTypes, file : Files \cup {None}, special : BOOLEAN, n : Messages, due : Nat]

Tasks ==
  [n : Messages, type : EventTypes, file : Files \cup {None}, due : Nat,
   step : {"queued", "decision", "decorate", "id", "write"}, names : [Kinds -> Names], had : [Kinds -> Names],
   decision : Int, id : IDs \cup StoredIDs, ids : SUBSET IDs]

CountType ==
  /\ seq \in [Counters -> Nat] /\ received \in [Counters -> Nat]
  /\ dropCache \in [Counters -> [next_seq_num : Nat, drops : Int]]
  /\ exported \in [drops : [Counters -> Int], processed : Nat, dropped : Nat]
  /\ counts \in [processed : Nat, dropped : Nat]
  /\ ignored \in Nat

MessageType ==
  /\ handler = [step |-> "idle"] \/ handler \in Events
  /\ tasks \in SUBSET Tasks /\ IsFiniteSet(tasks)
  /\ refs \in [Messages -> Int]
  /\ handler.step # "idle" /\ handler.type = "EXEC" => handler.file \in Programs
  /\ \A t \in tasks : t.type = "EXEC" => t.file \in Programs

SettingType ==
  /\ mask \in Masks
  /\ machine \in [wanted : IDs, previous : IDs, updating : BOOLEAN, enabled : BOOLEAN, id : StoredIDs]
  /\ directory \in [Kinds -> Names] /\ names \in [Kinds -> Names] /\ given \in [Kinds -> SUBSET {"n"}]
  /\ changes \in 0..MaxChanges

DecisionType ==
  /\ auth \in [Programs -> {"none", "fresh", "old"}]
  /\ decisions \in [Programs -> Int] /\ made \in [Programs -> Nat]
  /\ backfill \in SUBSET Programs /\ cleared \in SUBSET Programs

Types == CountType /\ MessageType /\ SettingType /\ DecisionType

(* Messages are numbered as they arrive; no two holders have the same one.  *)
Numbered ==
  /\ received["LAST"] <= seq["LAST"] /\ seq["LAST"] <= MaxEvents
  /\ handler.step # "idle" => handler.n <= received["LAST"]
  /\ \A t \in tasks : t.n <= received["LAST"] /\ (handler.step # "idle" => t.n # handler.n)
  /\ \A t, u \in tasks : t.n = u.n => t = u

Holding == Types /\ Numbered /\ MessagesOwned

Counted == Holding /\ EventsCounted

(* An answer from before a modification is left only until the handler has  *)
(* dealt with the close of the modified file.                               *)
StaleInv ==
  \A f \in Programs :
    auth[f] = "old" => \/ f \in lostClose
                       \/ /\ handler.step = "filter" /\ handler.type = "CLOSE"
                          /\ handler.special /\ handler.file = f

(* A name that is cached or in a directory has been given.                  *)
NamesInv ==
  /\ \A k \in Kinds : names[k] # None => names[k] \in given[k]
  /\ \A k \in Kinds : directory[k] # None => directory[k] \in given[k]
  /\ NamesJustified

(* What the two atomics are worth: the flag is that of the ID before the    *)
(* update while one is under way; the ID is the wanted one, or, when none   *)
(* is wanted, the one before.                                               *)
FlagInv ==
  /\ machine.enabled = (IF machine.updating THEN machine.previous # None ELSE machine.wanted # None)
  /\ machine.wanted # None => machine.id = machine.wanted
  /\ machine.updating /\ machine.wanted = None /\ machine.previous # None => machine.id = machine.previous

DecorationInv ==
  \A t \in tasks :
    /\ t.step # "queued" => InForce \subseteq t.ids
    /\ t.step \in {"queued", "decision", "decorate"} => t.id = None
    /\ t.step = "id" => machine.id \in t.ids
    /\ t.step = "write" => t.id \in t.ids

(* A real decision that was made is cached, unless a full cache has lost    *)
(* it; the backfill does not replace it.                                    *)
DecisionInv ==
  /\ \A f \in Programs : made[f] > 0 => decisions[f] = made[f] \/ (decisions[f] <= 0 /\ f \in cleared)
  /\ handler.step # "idle" /\ handler.due > 0 => handler.file \in Programs /\ handler.due <= made[handler.file]
  /\ \A t \in tasks : t.due > 0 => t.file \in Programs /\ t.due <= made[t.file]
  /\ DecisionCurrent

RecordInv == NamesInv /\ FlagInv /\ DecorationInv /\ DecisionInv

-----------------------------------------------------------------------------
(* The global counter is none of the types.                                 *)
LEMMA LastIsNoType == "LAST" \notin EventTypes /\ EventTypes \subseteq Counters /\ "LAST" \in Counters
BY TablesAssumption DEF Subscribed, Counters

LEMMA AboutFiles == About("EXEC") = Programs /\ \A type : About(type) \subseteq Files \cup {None}
BY TablesAssumption DEF About, FileEvents

LEMMA TypesInit == Init => Types
<1> SUFFICES ASSUME Init PROVE Types
  OBVIOUS
<1>1. CountType
  <2>1. seq = [k \in Counters |-> 0] /\ received = seq /\ exported = [drops |-> seq, processed |-> 0, dropped |-> 0]
    BY DEF Init, Counters
  <2>2. dropCache = [k \in Counters |-> [next_seq_num |-> 0, drops |-> 0]]
    BY DEF Init, Counters
  <2>3. counts = [processed |-> 0, dropped |-> 0] /\ ignored = 0
    BY DEF Init
  <2>4. [next_seq_num |-> 0, drops |-> 0] \in [next_seq_num : Nat, drops : Int]
    OBVIOUS
  <2> QED
    BY <2>1, <2>2, <2>3, <2>4 DEF CountType
<1>2. MessageType
  <2>1. handler = [step |-> "idle"] /\ tasks = {} /\ refs = [n \in Messages |-> 0]
    BY DEF Init, Messages
  <2> QED
    BY <2>1, FS_EmptySet DEF MessageType
<1>3. SettingType
  <2>1. /\ mask \in Masks /\ changes = MaxChanges /\ directory = [k \in Kinds |-> None] /\ names = directory
        /\ given = [k \in Kinds |-> {}]
        /\ machine = [wanted |-> None, previous |-> None, updating |-> FALSE, enabled |-> FALSE, id |-> ""]
    BY DEF Init, Kinds
  <2>2. directory \in [Kinds -> Names] /\ names \in [Kinds -> Names] /\ mask \in Masks
    BY <2>1 DEF Names
  <2>4. given \in [Kinds -> SUBSET {"n"}] /\ changes \in 0..MaxChanges
    <3>1. {} \in SUBSET {"n"}
      OBVIOUS
    <3>2. given = [k \in Kinds |-> {}] /\ changes = MaxChanges
      BY <2>1
    <3> QED
      BY <3>1, <3>2, BoundsAssumption
  <2>3. machine \in [wanted : IDs, previous : IDs, updating : BOOLEAN, enabled : BOOLEAN, id : StoredIDs]
    BY <2>1 DEF IDs, StoredIDs
  <2> QED
    BY <2>2, <2>3, <2>4 DEF SettingType
<1>4. DecisionType
  <2>1. /\ auth = [f \in Programs |-> "none"] /\ decisions = [f \in Programs |-> 0] /\ made = decisions
        /\ cleared = {} /\ backfill = {}
    BY DEF Init
  <2> QED
    BY <2>1 DEF DecisionType
<1> QED
  BY <1>1, <1>2, <1>3, <1>4 DEF Types

-----------------------------------------------------------------------------
(* What changes the counters.                                               *)
LEMMA CountKeeps ==
  ASSUME CountType, NEW type \in EventTypes, Count(type)
  PROVE  /\ seq' \in [Counters -> Nat]
         /\ \A k \in Counters : seq'[k] = IF k \in {type, "LAST"} THEN seq[k] + 1 ELSE seq[k]
BY LastIsNoType DEF CountType, Count

LEMMA StatsKeep ==
  ASSUME CountType, NEW type \in EventTypes, UpdateEventStats(type)
  PROVE  /\ dropCache' \in [Counters -> [next_seq_num : Nat, drops : Int]]
         /\ \A k \in Counters :
              IF k \in {type, "LAST"}
              THEN /\ dropCache'[k].next_seq_num = seq[k] + 1
                   /\ dropCache'[k].drops = dropCache[k].drops + seq[k] - dropCache[k].next_seq_num
              ELSE dropCache'[k] = dropCache[k]
<1>1. \A k \in Counters : /\ seq[k] \in Nat /\ dropCache[k].next_seq_num \in Nat /\ dropCache[k].drops \in Int
                          /\ dropCache[k] \in [next_seq_num : Nat, drops : Int]
  BY DEF CountType
<1> DEFINE stats(k) == [next_seq_num |-> seq[k] + 1,
                        drops |-> dropCache[k].drops + (seq[k] - dropCache[k].next_seq_num)]
<1>2. dropCache' = [k \in Counters |-> IF k \in {type, "LAST"} THEN stats(k) ELSE dropCache[k]]
  BY DEF CountType, UpdateEventStats
<1>3. \A k \in Counters : stats(k) \in [next_seq_num : Nat, drops : Int]
  BY <1>1
<1> QED
  BY <1>1, <1>2, <1>3

LEMMA MetricsKeep ==
  ASSUME CountType, NEW d \in {"processed", "dropped"}, SetEventMetrics(d)
  PROVE  /\ counts' \in [processed : Nat, dropped : Nat]
         /\ counts'.processed + counts'.dropped = counts.processed + counts.dropped + 1
<1>1. counts \in [processed : Nat, dropped : Nat]
  BY DEF CountType
<1>2. counts' = [counts EXCEPT ![d] = @ + 1]
  BY DEF SetEventMetrics
<1> QED
  BY <1>1, <1>2

LEMMA FlushKeeps ==
  ASSUME CountType, FlushMetrics
  PROVE  /\ CountType'
         /\ \A k \in Counters : /\ dropCache'[k].next_seq_num = dropCache[k].next_seq_num
                               /\ dropCache'[k].drops = 0
                               /\ exported'.drops[k] = exported.drops[k] + dropCache[k].drops
         /\ exported'.processed = exported.processed + counts.processed
         /\ exported'.dropped = exported.dropped + counts.dropped
         /\ counts'.processed = 0 /\ counts'.dropped = 0
<1>1. \A k \in Counters : dropCache[k] \in [next_seq_num : Nat, drops : Int] /\ exported.drops[k] \in Int
  BY DEF CountType
<1>2. DOMAIN dropCache = Counters
  BY DEF CountType
<1>3. FlushedDrops = [k \in Counters |-> [next_seq_num |-> dropCache[k].next_seq_num, drops |-> 0]]
  BY <1>1, <1>2 DEF FlushedDrops
<1>4. exported' = [drops |-> [k \in Counters |-> exported.drops[k] + dropCache[k].drops],
                   processed |-> exported.processed + counts.processed,
                   dropped |-> exported.dropped + counts.dropped]
  BY <1>2 DEF FlushMetrics
<1>5. exported' \in [drops : [Counters -> Int], processed : Nat, dropped : Nat]
  BY <1>1, <1>4 DEF CountType
<1>6. dropCache' = [k \in Counters |-> [next_seq_num |-> dropCache[k].next_seq_num, drops |-> 0]]
  BY <1>3 DEF FlushMetrics
<1>7. dropCache' \in [Counters -> [next_seq_num : Nat, drops : Int]]
  BY <1>1, <1>6
<1>8. /\ UNCHANGED <<seq, received, ignored>>
      /\ counts' = [processed |-> 0, dropped |-> 0]
  BY DEF FlushMetrics, kernelVars
<1>9. CountType'
  BY <1>5, <1>7, <1>8 DEF CountType
<1> QED
  BY <1>1, <1>4, <1>6, <1>8, <1>9

-----------------------------------------------------------------------------
(* What one block does: it goes on with the same message, or it finishes.   *)
SameMessage(t, u) ==
  u.n = t.n /\ u.type = t.type /\ u.file = t.file /\ u.due = t.due /\ u.names = t.names /\ u.had = t.had

LEMMA BlockSteps ==
  ASSUME Types, NEW t \in tasks, Block(t)
  PROVE  /\ UNCHANGED <<kernelVars, handler, received, ignored, dropCache, exported, mask, machine, nameVars,
                        decisionVars, changes>>
         /\ \/ Finish(t)
            \/ UNCHANGED <<refs, counts>> /\ \E u \in Tasks : Advance(t, u) /\ SameMessage(t, u)
<1>1. /\ t \in Tasks /\ (t.type = "EXEC" => t.file \in Programs)
      /\ machine \in [wanted : IDs, previous : IDs, updating : BOOLEAN, enabled : BOOLEAN, id : StoredIDs]
      /\ decisions \in [Programs -> Int]
  BY DEF Types, MessageType, SettingType, DecisionType
<1>2. CASE Log(t)
  <2>1. CASE ShouldLog(t.type)
    <3>1. InForce \subseteq IDs
      BY <1>1 DEF InForce
    <3>2. [t EXCEPT !.step = "decision", !.ids = InForce] \in Tasks
      BY <1>1, <3>1 DEF Tasks
    <3>3. SameMessage(t, [t EXCEPT !.step = "decision", !.ids = InForce])
      BY <1>1 DEF SameMessage, Tasks
    <3> QED
      BY <1>2, <2>1, <3>2, <3>3 DEF Log
  <2>2. CASE ~ShouldLog(t.type)
    BY <1>2, <2>2 DEF Log
  <2> QED
    BY <2>1, <2>2
<1>3. CASE LookUpDecision(t)
  <2> DEFINE d == IF t.type = "EXEC" THEN decisions[t.file] ELSE 0
             u == [t EXCEPT !.step = "decorate", !.decision = d]
  <2>1. d \in Int
    BY <1>1
  <2> HIDE DEF d
  <2>2. u \in Tasks /\ SameMessage(t, u)
    BY <1>1, <2>1 DEF SameMessage, Tasks
  <2> QED
    BY <1>3, <2>2 DEF LookUpDecision, metricVars, d
<1>4. CASE EnableMachineIDDecoration(t)
  <2> DEFINE u == [t EXCEPT !.step = IF machine.enabled THEN "id" ELSE "write"]
  <2>1. u \in Tasks /\ SameMessage(t, u)
    BY <1>1 DEF SameMessage, Tasks
  <2> QED
    BY <1>4, <2>1 DEF EnableMachineIDDecoration, metricVars
<1>5. CASE MachineID(t)
  <2> DEFINE u == [t EXCEPT !.step = "write", !.id = machine.id]
  <2>1. u \in Tasks /\ SameMessage(t, u)
    BY <1>1 DEF SameMessage, Tasks
  <2> QED
    BY <1>5, <2>1 DEF MachineID, metricVars
<1>6. CASE Write(t)
  BY <1>6 DEF Write
<1> QED
  BY <1>2, <1>3, <1>4, <1>5, <1>6 DEF Block

(* What a change of the machine ID does to the blocks.                      *)
Relabelled(t, id) == [t EXCEPT !.ids = IF t.step = "queued" THEN {} ELSE @ \cup {id}]

LEMMA RelabelKeeps ==
  ASSUME Types, NEW id \in IDs, ChangeMachineID(id)
  PROVE  /\ tasks' = {Relabelled(t, id) : t \in tasks}
         /\ \A t \in tasks : /\ Relabelled(t, id) \in Tasks /\ SameMessage(t, Relabelled(t, id))
                           /\ Relabelled(t, id).step = t.step /\ Relabelled(t, id).id = t.id
                           /\ Relabelled(t, id).decision = t.decision
                           /\ Relabelled(t, id).ids = IF t.step = "queued" THEN {} ELSE t.ids \cup {id}
<1>1. tasks' = {Relabelled(t, id) : t \in tasks}
  BY DEF ChangeMachineID, Relabelled
<1>2. ASSUME NEW t \in tasks
      PROVE  /\ Relabelled(t, id) \in Tasks /\ SameMessage(t, Relabelled(t, id))
             /\ Relabelled(t, id).step = t.step /\ Relabelled(t, id).id = t.id
             /\ Relabelled(t, id).decision = t.decision
             /\ Relabelled(t, id).ids = IF t.step = "queued" THEN {} ELSE t.ids \cup {id}
  <2>1. t \in Tasks
    BY DEF Types, MessageType
  <2> DEFINE new == IF t.step = "queued" THEN {} ELSE t.ids \cup {id}
  <2>2. new \in SUBSET IDs
    BY <2>1 DEF Tasks
  <2>3. Relabelled(t, id) = [t EXCEPT !.ids = new]
    BY DEF Relabelled
  <2> HIDE DEF new
  <2>4. [t EXCEPT !.ids = new] \in Tasks /\ SameMessage(t, [t EXCEPT !.ids = new])
    BY <2>1, <2>2 DEF Tasks, SameMessage
  <2>5. /\ [t EXCEPT !.ids = new].step = t.step /\ [t EXCEPT !.ids = new].id = t.id
        /\ [t EXCEPT !.ids = new].decision = t.decision /\ [t EXCEPT !.ids = new].ids = new
    BY <2>1, <2>2 DEF Tasks
  <2> QED
    BY <2>3, <2>4, <2>5 DEF new
<1> QED
  BY <1>1, <1>2

(* The block that a handler leaves.                                         *)
Queued(n) ==
  [n |-> n, type |-> handler.type, file |-> handler.file, due |-> handler.due, step |-> "queued",
   names |-> NewNames, had |-> directory, decision |-> 0, id |-> None, ids |-> {}]

LEMMA NamesFound ==
  ASSUME Types
  PROVE  NewNames \in [Kinds -> Names] /\ \A k \in Kinds : NewNames[k] = NameFor(k)
BY DEF Types, SettingType, NameFor, NewNames

LEMMA QueuedIsTask ==
  ASSUME Types, handler.step = "enrich"
  PROVE  handler \in Events /\ Queued(handler.n) \in Tasks
<1>1. handler \in Events
  BY DEF Types, MessageType
<1>2. directory \in [Kinds -> Names]
  BY DEF Types, SettingType
<1> DEFINE found == NewNames
<1>3. found \in [Kinds -> Names]
  BY NamesFound
<1> HIDE DEF found
<1>4. Queued(handler.n) = 
        [n |-> handler.n, type |-> handler.type, file |-> handler.file, due |-> handler.due, step |-> "queued",
         names |-> found, had |-> directory, decision |-> 0, id |-> None, ids |-> {}]
  BY DEF Queued, found
<1>5. None \in IDs /\ {} \in SUBSET IDs
  BY DEF IDs
<1> QED
  BY <1>1, <1>2, <1>3, <1>4, <1>5 DEF Events, Tasks

-----------------------------------------------------------------------------
(* Every step keeps the types.                                              *)
Others ==
  \/ \E f \in Programs : Evaluate(f) \/ BackfillFind(f)
  \/ EvaluateOther
  \/ BackfillStore
  \/ \E m \in Masks : SetTelemetryMask(m)
  \/ StoreEnabled
  \/ \E kind \in Kinds, name \in Names : ChangeDirectory(kind, name)
  \/ UNCHANGED vars

LEMMA Steps ==
  ASSUME [Next]_vars
  PROVE  \/ \E type \in EventTypes : LoseEvent(type) \/ Receive(type)
         \/ IgnoreMessage \/ Filter \/ Enrich \/ FlushMetrics
         \/ \E t \in tasks : Block(t)
         \/ \E id \in IDs : ChangeMachineID(id)
         \/ Others
BY DEF Next, Others, IDs, Kinds, Names

(* The steps that only concern settings and decisions.                      *)
LEMMA OthersOutside ==
  ASSUME Others
  PROVE  UNCHANGED <<kernelVars, handler, tasks, refs, metricVars>>
BY DEF Others, Evaluate, EvaluateOther, BackfillFind, BackfillStore, SetTelemetryMask, StoreEnabled, ChangeDirectory, vars, Change,
       kernelVars, metricVars

LEMMA CountTypeStep == ASSUME Types, [Next]_vars PROVE CountType'
<1> USE DEF Types
<1>1. ASSUME NEW type \in EventTypes, LoseEvent(type) PROVE CountType'
  BY <1>1, CountKeeps DEF LoseEvent, CountType, metricVars
<1>2. ASSUME NEW type \in EventTypes, Receive(type) PROVE CountType'
  <2>0. received' = [received EXCEPT ![type] = @ + 1, !["LAST"] = @ + 1]
    BY <1>2 DEF Receive
  <2>1. received' \in [Counters -> Nat]
    BY <2>0, LastIsNoType DEF CountType
  <2>2. UNCHANGED <<ignored, counts, exported>> /\ Count(type) /\ UpdateEventStats(type)
    BY <1>2 DEF Receive
  <2> QED
    BY <2>1, <2>2, CountKeeps, StatsKeep DEF CountType
<1>3. CASE Filter
  <2>1. UNCHANGED <<seq, received, dropCache, exported>>
    BY <1>3 DEF Filter, kernelVars
  <2>2. /\ ignored' = ignored + 1 \/ UNCHANGED ignored
        /\ UNCHANGED counts \/ SetEventMetrics("dropped")
    BY <1>3 DEF Filter
  <2>3. counts' \in [processed : Nat, dropped : Nat] /\ ignored' \in Nat
    BY <2>2, MetricsKeep DEF CountType
  <2> QED
    BY <2>1, <2>3 DEF CountType
<1>9. CASE IgnoreMessage
  <2>1. UNCHANGED <<seq, received, ignored, dropCache, exported>> /\ SetEventMetrics("dropped")
    BY <1>9 DEF IgnoreMessage
  <2> QED
    BY <2>1, MetricsKeep DEF CountType
<1>4. CASE Enrich
  <2>1. UNCHANGED <<seq, received, ignored, dropCache, exported>> /\ (UNCHANGED counts \/ SetEventMetrics("dropped"))
    BY <1>4 DEF Enrich, kernelVars
  <2> QED
    BY <2>1, MetricsKeep DEF CountType
<1>5. CASE FlushMetrics
  BY <1>5, FlushKeeps
<1>6. ASSUME NEW t \in tasks, Block(t) PROVE CountType'
  <2>1. UNCHANGED <<seq, received, ignored, dropCache, exported>> /\ (UNCHANGED counts \/ SetEventMetrics("processed"))
    BY <1>6, BlockSteps DEF Finish, kernelVars
  <2> QED
    BY <2>1, MetricsKeep DEF CountType
<1>7. ASSUME NEW id \in IDs, ChangeMachineID(id) PROVE CountType'
  BY <1>7 DEF ChangeMachineID, CountType, kernelVars, metricVars
<1>8. CASE Others
  BY <1>8, OthersOutside DEF CountType, kernelVars, metricVars
<1> QED
  BY <1>1, <1>2, <1>3, <1>4, <1>5, <1>6, <1>7, <1>8, <1>9, Steps

LEMMA DecisionTypeStep == ASSUME Types, [Next]_vars PROVE DecisionType'
<1> USE DEF Types
<1>0. ASSUME NEW f PROVE Written(f) \in [Programs -> {"none", "fresh", "old"}]
  BY DEF Written, DecisionType
<1>1. ASSUME NEW type \in EventTypes, LoseEvent(type) PROVE DecisionType'
  BY <1>0, <1>1 DEF LoseEvent, DecisionType
<1>2. ASSUME NEW type \in EventTypes, Receive(type) PROVE DecisionType'
  BY <1>0, <1>2 DEF Receive, DecisionType
<1>3. CASE Filter
  <2>1. UNCHANGED auth \/ RemoveFromCache(handler.file)
    BY <1>3 DEF Filter, Invalidate
  <2>2. UNCHANGED <<decisions, made, cleared, backfill>>
    BY <1>3 DEF Filter
  <2>3. auth' \in [Programs -> {"none", "fresh", "old"}]
    BY <2>1 DEF RemoveFromCache, DecisionType
  <2> QED
    BY <2>2, <2>3 DEF DecisionType
<1>4. CASE Enrich
  BY <1>4 DEF Enrich, DecisionType, decisionVars
<1>5. CASE FlushMetrics
  BY <1>5 DEF FlushMetrics, DecisionType, decisionVars
<1>6. ASSUME NEW t \in tasks, Block(t) PROVE DecisionType'
  BY <1>6, BlockSteps DEF DecisionType, decisionVars
<1>7. ASSUME NEW id \in IDs, ChangeMachineID(id) PROVE DecisionType'
  BY <1>7 DEF ChangeMachineID, DecisionType, decisionVars
<1>8. ASSUME NEW f \in Programs, Evaluate(f) PROVE DecisionType'
  BY <1>8 DEF Evaluate, DecisionType
<1>9. ASSUME NEW f \in Programs, BackfillFind(f) PROVE DecisionType'
  BY <1>9 DEF BackfillFind, DecisionType
<1>10. CASE BackfillStore
  <2>1. PICK f \in backfill : cacheDecisionIfNotSet(f)
    BY <1>10 DEF BackfillStore
  <2>2. UNCHANGED <<auth, made, cleared>> /\ backfill' = {}
    BY <1>10 DEF BackfillStore
  <2> QED
    BY <2>1, <2>2 DEF cacheDecisionIfNotSet, DecisionType
<1>11. ASSUME UNCHANGED <<auth, decisions, made, cleared, backfill>> PROVE DecisionType'
  BY <1>11 DEF DecisionType
<1>13. CASE EvaluateOther
  BY <1>13 DEF EvaluateOther, DecisionType
<1>14. CASE IgnoreMessage
  BY <1>14 DEF IgnoreMessage, DecisionType
<1>12. CASE Others
  BY <1>8, <1>9, <1>10, <1>11, <1>12, <1>13
     DEF Others, SetTelemetryMask, StoreEnabled, ChangeDirectory, decisionVars, vars
<1> QED
  BY <1>1, <1>2, <1>3, <1>4, <1>5, <1>6, <1>7, <1>12, <1>14, Steps

LEMMA SettingTypeStep == ASSUME Types, [Next]_vars PROVE SettingType'
<1> USE DEF Types
<1>0. Change => changes' \in 0..MaxChanges
  BY BoundsAssumption DEF Change, SettingType
<1>1. ASSUME NEW type \in EventTypes, LoseEvent(type) \/ Receive(type) PROVE SettingType'
  BY <1>1 DEF LoseEvent, Receive, SettingType, nameVars
<1>3. CASE IgnoreMessage \/ Filter
  BY <1>3 DEF IgnoreMessage, Filter, SettingType, nameVars
<1>4. CASE Enrich
  <2>1. UNCHANGED <<mask, machine, directory, given, changes>> /\ (UNCHANGED names \/ names' = NewNames)
    BY <1>4 DEF Enrich
  <2> QED
    BY <2>1, NamesFound DEF SettingType
<1>5. CASE FlushMetrics
  BY <1>0, <1>5 DEF FlushMetrics, SettingType, nameVars
<1>6. ASSUME NEW t \in tasks, Block(t) PROVE SettingType'
  BY <1>6, BlockSteps DEF SettingType, nameVars
<1>7. ASSUME NEW id \in IDs, ChangeMachineID(id) PROVE SettingType'
  <2>1. id # None => id \in StoredIDs
    BY DEF IDs, StoredIDs
  <2>2. machine' = [machine EXCEPT !.id = IF id = None THEN @ ELSE id, !.wanted = id, !.previous = machine.wanted,
                                   !.updating = TRUE]
    BY <1>7 DEF ChangeMachineID, StoreMachineID, SettingType
  <2>3. machine' \in [wanted : IDs, previous : IDs, updating : BOOLEAN, enabled : BOOLEAN, id : StoredIDs]
    BY <2>1, <2>2 DEF SettingType
  <2>4. UNCHANGED <<mask, directory, names, given>> /\ changes' \in 0..MaxChanges
    BY <1>0, <1>7 DEF ChangeMachineID, nameVars
  <2> QED
    BY <2>3, <2>4 DEF SettingType
<1>8. ASSUME NEW m \in Masks, SetTelemetryMask(m) PROVE SettingType'
  BY <1>0, <1>8 DEF SetTelemetryMask, SettingType, nameVars
<1>9. CASE StoreEnabled
  <2>1. machine' \in [wanted : IDs, previous : IDs, updating : BOOLEAN, enabled : BOOLEAN, id : StoredIDs]
    BY <1>9 DEF StoreEnabled, SettingType
  <2> QED
    BY <1>9, <2>1 DEF StoreEnabled, SettingType, nameVars
<1>10. ASSUME NEW kind \in Kinds, NEW name \in Names, ChangeDirectory(kind, name) PROVE SettingType'
  <2>1. directory' \in [Kinds -> Names] /\ given' \in [Kinds -> SUBSET {"n"}]
    BY <1>10 DEF ChangeDirectory, SettingType, Names
  <2> QED
    BY <1>0, <1>10, <2>1 DEF ChangeDirectory, SettingType
<1>13. CASE EvaluateOther
  BY <1>0, <1>13 DEF EvaluateOther, SettingType, nameVars
<1>11. ASSUME UNCHANGED <<mask, machine, nameVars, changes>> PROVE SettingType'
  BY <1>11 DEF SettingType, nameVars
<1>12. CASE Others
  BY <1>8, <1>9, <1>10, <1>11, <1>12, <1>13 DEF Others, Evaluate, BackfillFind, BackfillStore, vars
<1> QED
  BY <1>1, <1>3, <1>4, <1>5, <1>6, <1>7, <1>12, Steps

-----------------------------------------------------------------------------
(* Every step keeps the holders of the messages, and their number.          *)
Busy == IF handler.step = "idle" THEN 0 ELSE 1

Holders == Cardinality(tasks) + Busy

LEMMA HoldingInit == Init => Holding
<1> SUFFICES ASSUME Init PROVE Holding
  OBVIOUS
<1>1. Types
  BY TypesInit
<1>2. /\ seq = [k \in Counters |-> 0] /\ received = seq /\ handler = [step |-> "idle"] /\ tasks = {}
      /\ refs = [n \in Messages |-> 0]
  BY DEF Init, Counters, Messages
<1>3. Numbered
  BY <1>2, BoundsAssumption, LastIsNoType DEF Numbered
<1>4. MessagesOwned
  BY <1>2 DEF MessagesOwned, Messages
<1> QED
  BY <1>1, <1>3, <1>4 DEF Holding

LEMMA ReceiveHolds ==
  ASSUME Holding, NEW type \in EventTypes, Receive(type)
  PROVE  MessageType' /\ Numbered' /\ MessagesOwned' /\ Holders' = Holders + 1
<1> DEFINE m == received["LAST"] + 1
<1>1. /\ handler = [step |-> "idle"] /\ UNCHANGED tasks
      /\ received \in [Counters -> Nat] /\ seq \in [Counters -> Nat] /\ refs \in [Messages -> Int]
      /\ received["LAST"] <= seq["LAST"] /\ seq["LAST"] < MaxEvents
  BY DEF Holding, Types, MessageType, CountType, Numbered, Receive, Events
<1>2. received' = [received EXCEPT ![type] = @ + 1, !["LAST"] = @ + 1]
  BY DEF Receive
<1>3. received'["LAST"] = m /\ seq'["LAST"] = seq["LAST"] + 1
  BY <1>1, <1>2, LastIsNoType, CountKeeps DEF Receive, Holding, Types
<1>4. m \in Messages
  BY <1>1, BoundsAssumption, LastIsNoType DEF Messages
<1>5. PICK f \in About(type), special \in BOOLEAN :
        /\ handler' = [step |-> "filter", type |-> type, file |-> f, special |-> special,
                       n |-> received'["LAST"], due |-> IF f \in Programs THEN made[f] ELSE 0]
  BY DEF Receive
<1>6. handler' \in Events /\ handler'.n = m /\ handler'.step = "filter" /\ handler'.type = type /\ handler'.file = f
  <2>1. (IF f \in Programs THEN made[f] ELSE 0) \in Nat
    BY DEF Holding, Types, DecisionType
  <2> QED
    BY <1>3, <1>4, <1>5, <2>1, AboutFiles DEF Events
<1>7. refs' = [refs EXCEPT ![m] = @ + 2]
  BY <1>3 DEF Receive, Retain
<1>8. MessageType'
  BY <1>1, <1>4, <1>5, <1>6, <1>7, AboutFiles DEF MessageType, Holding, Types
<1>9. Numbered'
  <2>1. seq'["LAST"] <= MaxEvents /\ m <= seq'["LAST"]
    BY <1>1, <1>3, BoundsAssumption, LastIsNoType
  <2>2. \A t \in tasks : t.n <= m /\ t.n # m
    BY <1>1, LastIsNoType DEF Holding, Numbered, Types, MessageType, Tasks, Messages
  <2>3. \A t, u \in tasks' : t.n = u.n => t = u
    BY <1>1 DEF Holding, Numbered
  <2>4. handler'.n <= received'["LAST"]
    BY <1>1, <1>3, <1>6, LastIsNoType
  <2> QED
    BY <1>1, <1>3, <1>6, <2>1, <2>2, <2>3, <2>4 DEF Numbered
<1>10. MessagesOwned'
  <2>1. \A t \in tasks : t.n # m
    BY <1>1, LastIsNoType DEF Holding, Numbered, Types, MessageType, Tasks, Messages
  <2>2. refs[m] = 0
    BY <1>1, <1>4, <2>1 DEF Holding, MessagesOwned, Messages
  <2> QED
    BY <1>1, <1>4, <1>6, <1>7, <2>1, <2>2 DEF Holding, MessagesOwned, Messages
<1>11. Holders' = Holders + 1
  <2>1. Cardinality(tasks) \in Nat
    BY FS_CardinalityType DEF Holding, Types, MessageType
  <2> QED
    BY <1>1, <1>6, <2>1 DEF Holders, Busy
<1> QED
  BY <1>8, <1>9, <1>10, <1>11

(* The handler ends without passing its message on.                         *)
LEMMA ReturnHolds ==
  ASSUME Holding, handler \in Events, Return, UNCHANGED <<tasks, seq, received>>
  PROVE  MessageType' /\ Numbered' /\ MessagesOwned' /\ Holders' = Holders - 1
<1>1. /\ handler.step # "idle" /\ handler.n \in Messages /\ handler' = [step |-> "idle"]
      /\ refs \in [Messages -> Int] /\ refs' = [refs EXCEPT ![handler.n] = @ + -2]
  BY DEF Return, Retain, Events, Holding, Types, MessageType
<1>2. MessageType'
  BY <1>1 DEF Holding, Types, MessageType
<1>3. Numbered'
  BY <1>1 DEF Holding, Numbered
<1>4. MessagesOwned'
  <2>1. \A t \in tasks : t.n # handler.n
    BY <1>1 DEF Holding, Numbered
  <2>2. refs[handler.n] = 2
    BY <1>1 DEF Holding, MessagesOwned, Messages
  <2> QED
    BY <1>1, <2>1, <2>2 DEF Holding, MessagesOwned, Messages
<1>5. Holders' = Holders - 1
  <2>1. Cardinality(tasks) \in Nat
    BY FS_CardinalityType DEF Holding, Types, MessageType
  <2> QED
    BY <1>1, <2>1 DEF Holders, Busy
<1> QED
  BY <1>2, <1>3, <1>4, <1>5

LEMMA IgnoreHolds ==
  ASSUME Holding, IgnoreMessage
  PROVE  /\ MessageType' /\ Numbered' /\ MessagesOwned' /\ Holders' = Holders - 1
         /\ SetEventMetrics("dropped") /\ UNCHANGED <<ignored, exported, received>>
<1>1. handler \in Events /\ UNCHANGED <<tasks, seq, received, ignored, exported>>
  BY DEF IgnoreMessage, Holding, Types, MessageType, Events
<1> QED
  BY <1>1, ReturnHolds DEF IgnoreMessage

LEMMA FilterHolds ==
  ASSUME Holding, Filter
  PROVE  /\ MessageType' /\ Numbered' /\ MessagesOwned'
         /\ \/ Holders' = Holders - 1 /\ ignored' = ignored + 1 /\ UNCHANGED counts
            \/ Holders' = Holders - 1 /\ SetEventMetrics("dropped") /\ UNCHANGED ignored
            \/ Holders' = Holders /\ UNCHANGED <<ignored, counts>>
<1>1. handler \in Events /\ UNCHANGED <<tasks, seq, received>>
  BY DEF Filter, Holding, Types, MessageType, Events, kernelVars
<1>2. CASE Return
  <2>1. \/ ignored' = ignored + 1 /\ UNCHANGED counts
        \/ SetEventMetrics("dropped") /\ UNCHANGED ignored
    <3>1. handler' = [step |-> "idle"]
      BY <1>2 DEF Return
    <3>2. handler' # [handler EXCEPT !.step = "enrich"]
      BY <1>1, <3>1 DEF Events
    <3> QED
      BY <3>2 DEF Filter
  <2> QED
    BY <1>1, <1>2, <2>1, ReturnHolds
<1>3. CASE handler' = [handler EXCEPT !.step = "enrich"] /\ UNCHANGED <<refs, ignored, counts>>
  <2>1. /\ handler' \in Events /\ handler'.step = "enrich" /\ handler.step # "idle"
        /\ handler'.n = handler.n /\ handler'.type = handler.type /\ handler'.file = handler.file
    BY <1>1, <1>3 DEF Events
  <2>2. MessageType'
    BY <1>1, <1>3, <2>1 DEF Holding, Types, MessageType
  <2>3. Numbered'
    BY <1>1, <2>1 DEF Holding, Numbered
  <2>4. MessagesOwned'
    BY <1>1, <1>3, <2>1 DEF Holding, MessagesOwned
  <2>5. Holders' = Holders
    BY <1>1, <2>1 DEF Holders, Busy
  <2> QED
    BY <1>3, <2>2, <2>3, <2>4, <2>5
<1> QED
  BY <1>2, <1>3 DEF Filter

(* The handler hands its message over to a new block.                       *)
LEMMA EnrichHolds ==
  ASSUME Holding, Enrich
  PROVE  /\ MessageType' /\ Numbered' /\ MessagesOwned'
         /\ \/ Holders' = Holders - 1 /\ SetEventMetrics("dropped")
            \/ Holders' = Holders /\ UNCHANGED counts
<1>1. /\ handler \in Events /\ handler.step = "enrich" /\ UNCHANGED <<seq, received>>
      /\ Queued(handler.n) \in Tasks
  BY QueuedIsTask DEF Enrich, Holding, kernelVars
<1>2. CASE handler.special /\ handler.type = "AUTHENTICATION"
  <2>1. Return /\ SetEventMetrics("dropped") /\ UNCHANGED tasks
    BY <1>2 DEF Enrich
  <2> QED
    BY <1>1, <2>1, ReturnHolds
<1>3. CASE ~(handler.special /\ handler.type = "AUTHENTICATION")
  <2> DEFINE q == Queued(handler.n)
  <2>1. tasks' = tasks \cup {q} /\ handler' = [step |-> "idle"] /\ UNCHANGED counts
    BY <1>3 DEF Enrich, Queued
  <2>2. q.n = handler.n /\ q.type = handler.type /\ q.file = handler.file
    BY DEF Queued
  <2>3. UNCHANGED refs
    BY <1>1, <1>3 DEF Enrich, HandOver, Retain, Holding, Types, MessageType, Events
  <2> HIDE DEF q
  <2>4. IsFiniteSet(tasks') /\ Cardinality(tasks') = Cardinality(tasks) + 1
    <3>1. q \notin tasks
      BY <1>1, <2>2 DEF Holding, Numbered
    <3> QED
      BY <2>1, <3>1, FS_AddElement DEF Holding, Types, MessageType
  <2>5. MessageType'
    BY <1>1, <2>1, <2>2, <2>3, <2>4 DEF Holding, Types, MessageType, q
  <2>6. Numbered'
    BY <1>1, <2>1, <2>2 DEF Holding, Numbered
  <2>7. MessagesOwned'
    BY <1>1, <2>1, <2>2, <2>3 DEF Holding, MessagesOwned
  <2>8. Holders' = Holders
    <3>1. Cardinality(tasks) \in Nat
      BY FS_CardinalityType DEF Holding, Types, MessageType
    <3> QED
      BY <1>1, <2>1, <2>4, <3>1 DEF Holders, Busy
  <2> QED
    BY <2>1, <2>5, <2>6, <2>7, <2>8
<1> QED
  BY <1>2, <1>3

LEMMA BlockHolds ==
  ASSUME Holding, NEW t \in tasks, Block(t)
  PROVE  /\ MessageType' /\ Numbered' /\ MessagesOwned'
         /\ \/ Holders' = Holders - 1 /\ SetEventMetrics("processed")
            \/ Holders' = Holders /\ UNCHANGED counts
<1>1. UNCHANGED <<handler, seq, received>> /\ t \in Tasks /\ IsFiniteSet(tasks) /\ Cardinality(tasks) \in Nat
  BY BlockSteps, FS_CardinalityType DEF Holding, Types, MessageType, kernelVars
<1>2. CASE Finish(t)
  <2>1. tasks' = tasks \ {t} /\ SetEventMetrics("processed") /\ refs' = [refs EXCEPT ![t.n] = @ + -2]
    BY <1>2 DEF Finish, Retain
  <2>2. IsFiniteSet(tasks') /\ Cardinality(tasks') = Cardinality(tasks) - 1
    BY <1>1, <2>1, FS_RemoveElement
  <2>3. t.n \in Messages
    BY <1>1 DEF Tasks
  <2>4. MessageType'
    BY <1>1, <2>1, <2>2, <2>3 DEF Holding, Types, MessageType
  <2>5. Numbered'
    BY <1>1, <2>1 DEF Holding, Numbered
  <2>6. MessagesOwned'
    <3>1. /\ \A u \in tasks' : u.n # t.n
          /\ handler.step # "idle" => handler.n # t.n
      BY <2>1 DEF Holding, Numbered
    <3>2. refs[t.n] = 2 /\ refs'[t.n] = 0
      BY <2>1, <2>3 DEF Holding, MessagesOwned, Messages, Types, MessageType
    <3>3. \A n \in Messages \ {t.n} : refs'[n] = refs[n] /\ ((\E u \in tasks : u.n = n) <=> \E u \in tasks' : u.n = n)
      BY <2>1, <2>3 DEF Holding, Types, MessageType
    <3> QED
      BY <1>1, <3>1, <3>2, <3>3 DEF Holding, MessagesOwned, Messages
  <2>7. Holders' = Holders - 1
    BY <1>1, <2>2 DEF Holders, Busy
  <2> QED
    BY <2>1, <2>4, <2>5, <2>6, <2>7
<1>3. ASSUME UNCHANGED <<refs, counts>>, NEW u \in Tasks, Advance(t, u), SameMessage(t, u)
      PROVE  MessageType' /\ Numbered' /\ MessagesOwned' /\ Holders' = Holders
  <2>1. tasks' = (tasks \ {t}) \cup {u} /\ u.n = t.n /\ u.type = t.type /\ u.file = t.file
    BY <1>3 DEF Advance, SameMessage
  <2>2. u \notin tasks \ {t}
    BY <2>1 DEF Holding, Numbered
  <2>3. IsFiniteSet(tasks \ {t}) /\ Cardinality(tasks \ {t}) = Cardinality(tasks) - 1
    BY <1>1, FS_RemoveElement
  <2>4. IsFiniteSet(tasks') /\ Cardinality(tasks') = Cardinality(tasks)
    <3> DEFINE rest == tasks \ {t}
    <3>1. IsFiniteSet(rest) /\ Cardinality(rest) = Cardinality(tasks) - 1 /\ u \notin rest
      BY <2>2, <2>3
    <3> HIDE DEF rest
    <3>2. IsFiniteSet(rest \cup {u}) /\ Cardinality(rest \cup {u}) = Cardinality(rest) + 1
      BY <3>1, FS_AddElement
    <3>3. tasks' = rest \cup {u}
      BY <2>1 DEF rest
    <3> QED
      BY <1>1, <3>1, <3>2, <3>3
  <2>5. MessageType'
    BY <1>1, <1>3, <2>1, <2>4 DEF Holding, Types, MessageType
  <2>6. Numbered'
    BY <1>1, <2>1 DEF Holding, Numbered
  <2>7. MessagesOwned'
    BY <1>1, <1>3, <2>1 DEF Holding, MessagesOwned
  <2>8. Holders' = Holders
    BY <1>1, <2>4 DEF Holders, Busy
  <2> QED
    BY <2>5, <2>6, <2>7, <2>8
<1> QED
  BY <1>2, <1>3, BlockSteps DEF Holding

LEMMA RelabelHolds ==
  ASSUME Holding, NEW id \in IDs, ChangeMachineID(id)
  PROVE  MessageType' /\ Numbered' /\ MessagesOwned' /\ Holders' = Holders
<1> DEFINE new == [t \in tasks |-> Relabelled(t, id)]
<1>1. UNCHANGED <<handler, refs, seq, received>> /\ IsFiniteSet(tasks)
  BY DEF ChangeMachineID, Holding, Types, MessageType, kernelVars, metricVars
<1>2. /\ tasks' = {new[t] : t \in tasks}
      /\ \A t \in tasks : /\ new[t] \in Tasks
                        /\ new[t].n = t.n /\ new[t].type = t.type /\ new[t].file = t.file
  <2>1. \A t \in tasks : new[t] = Relabelled(t, id)
    OBVIOUS
  <2> HIDE DEF new
  <2>2. Types
    BY DEF Holding
  <2>3. tasks' = {Relabelled(t, id) : t \in tasks}
    BY <2>2, RelabelKeeps
  <2>4. \A t \in tasks : Relabelled(t, id) \in Tasks /\ SameMessage(t, Relabelled(t, id))
    BY <2>2, RelabelKeeps
  <2>5. tasks' = {new[t] : t \in tasks}
    BY <2>1, <2>3
  <2> QED
    BY <2>1, <2>4, <2>5 DEF SameMessage
<1>3. new \in [tasks -> tasks']
  BY <1>2
<1> HIDE DEF new
<1>4. IsFiniteSet(tasks') /\ Cardinality(tasks') = Cardinality(tasks)
  <2>1. \A t, u \in tasks : new[t] = new[u] => t = u
    BY <1>2 DEF Holding, Numbered
  <2>2. new \in Bijection(tasks, tasks')
    BY <1>2, <1>3, <2>1 DEF Bijection, Injection, IsInjective, Surjection
  <2> QED
    BY <1>1, <2>2, FS_Bijection DEF ExistsBijection
<1>5. MessageType'
  <2>1. \A t \in tasks' : t \in Tasks /\ (t.type = "EXEC" => t.file \in Programs)
    BY <1>2 DEF Holding, Types, MessageType
  <2> QED
    BY <1>1, <1>4, <2>1 DEF Holding, Types, MessageType
<1>6. Numbered'
  <2>1. \A t \in tasks' : t.n <= received["LAST"] /\ (handler.step # "idle" => t.n # handler.n)
    BY <1>2 DEF Holding, Numbered
  <2>2. \A t, u \in tasks' : t.n = u.n => t = u
    BY <1>2 DEF Holding, Numbered
  <2> QED
    BY <1>1, <2>1, <2>2 DEF Holding, Numbered
<1>7. MessagesOwned'
  <2>1. \A n \in Messages : (\E t \in tasks : t.n = n) <=> \E t \in tasks' : t.n = n
    BY <1>2
  <2> QED
    BY <1>1, <2>1 DEF Holding, MessagesOwned, Messages
<1>8. Holders' = Holders
  BY <1>1, <1>4 DEF Holders, Busy
<1> QED
  BY <1>5, <1>6, <1>7, <1>8

(* A message that the kernel lost has a number and no holder.               *)
LEMMA LoseHolds ==
  ASSUME Holding, NEW type \in EventTypes, LoseEvent(type)
  PROVE  MessageType' /\ Numbered' /\ MessagesOwned' /\ Holders' = Holders
<1>1. UNCHANGED <<handler, tasks, refs, received>> /\ seq["LAST"] < MaxEvents /\ seq'["LAST"] = seq["LAST"] + 1
  BY CountKeeps, LastIsNoType DEF LoseEvent, metricVars, Holding, Types
<1>2. MessageType'
  BY <1>1 DEF Holding, Types, MessageType
<1>3. Numbered'
  <2>1. seq["LAST"] \in Nat /\ received["LAST"] \in Nat
    BY LastIsNoType DEF Holding, Types, CountType
  <2>2. received'["LAST"] <= seq'["LAST"] /\ seq'["LAST"] <= MaxEvents
    BY <1>1, <2>1, BoundsAssumption DEF Holding, Numbered
  <2> QED
    BY <1>1, <2>2 DEF Holding, Numbered
<1>4. MessagesOwned' /\ Holders' = Holders
  BY <1>1 DEF Holding, MessagesOwned, Holders, Busy
<1> QED
  BY <1>2, <1>3, <1>4

LEMMA RestHolds ==
  ASSUME Holding, UNCHANGED <<handler, tasks, refs, received, seq>>
  PROVE  MessageType' /\ Numbered' /\ MessagesOwned' /\ Holders' = Holders
BY DEF Holding, Types, MessageType, Numbered, MessagesOwned, Holders, Busy

LEMMA HoldingStep == Holding /\ [Next]_vars => Holding'
<1> SUFFICES ASSUME Holding, [Next]_vars PROVE Holding'
  OBVIOUS
<1>1. CountType' /\ SettingType' /\ DecisionType'
  BY CountTypeStep, SettingTypeStep, DecisionTypeStep DEF Holding
<1>2. MessageType' /\ Numbered' /\ MessagesOwned'
  <2>1. ASSUME FlushMetrics \/ Others PROVE UNCHANGED <<handler, tasks, refs, received, seq>>
    BY <2>1, OthersOutside DEF FlushMetrics, kernelVars, metricVars
  <2>2. CASE IgnoreMessage \/ Filter
    BY <2>2, IgnoreHolds, FilterHolds
  <2>3. CASE Enrich
    BY <2>3, EnrichHolds
  <2> QED
    BY <2>1, <2>2, <2>3, Steps, LoseHolds, ReceiveHolds, BlockHolds, RelabelHolds, RestHolds
<1> QED
  BY <1>1, <1>2 DEF Holding, Types

(* A message is retained exactly while somebody holds it, on every path:    *)
(* none leaks and none is released twice (Message.mm).                      *)
THEOREM MessagesAlwaysOwned == Spec => []MessagesOwned
<1>1. Holding => MessagesOwned
  BY DEF Holding
<1> QED
  BY <1>1, HoldingInit, HoldingStep, PTL DEF Spec

LEMMA TypesImplyTypeOK == Holding => TypeOK
<1> SUFFICES ASSUME Holding PROVE TypeOK
  OBVIOUS
<1>1. handler.step \in {"idle", "filter", "enrich"}
  BY DEF Holding, Types, MessageType, Events
<1>2. \A t \in tasks : t.step \in {"queued", "decision", "decorate", "id", "write"}
  BY DEF Holding, Types, MessageType, Tasks
<1>3. refs \in [1..MaxEvents -> Nat]
  <2>1. \A n \in Messages : refs[n] \in {0, 2}
    BY DEF Holding, MessagesOwned, Messages
  <2>2. refs \in [Messages -> Int]
    BY DEF Holding, Types, MessageType
  <2> QED
    BY <2>1, <2>2 DEF Messages
<1>4. /\ mask \in Masks /\ changes \in 0..MaxChanges
      /\ names \in [{"user", "group"} -> {None, "n"}] /\ auth \in [Programs -> {"none", "fresh", "old"}]
  BY DEF Holding, Types, SettingType, DecisionType, Kinds, Names
<1> QED
  BY <1>1, <1>2, <1>3, <1>4 DEF TypeOK

(* Type correctness of the recorder.                                        *)
THEOREM TypeCorrect == Spec => []TypeOK
BY HoldingInit, HoldingStep, TypesImplyTypeOK, PTL DEF Spec

-----------------------------------------------------------------------------
(* Every event is counted.                                                  *)
LEMMA DropsKeep == ASSUME Holding, DropsCounted, [Next]_vars PROVE DropsCounted'
<1>1. CountType /\ CountType' /\ DOMAIN seq = Counters /\ DOMAIN seq' = Counters
  BY CountTypeStep DEF Holding, Types, CountType
<1>2. \A k \in Counters : exported.drops[k] + dropCache[k].drops = dropCache[k].next_seq_num - received[k]
  BY <1>1 DEF DropsCounted
<1> SUFFICES ASSUME NEW k \in Counters
             PROVE  exported'.drops[k] + dropCache'[k].drops = dropCache'[k].next_seq_num - received'[k]
  BY <1>1 DEF DropsCounted
<1>3. /\ exported.drops[k] \in Int /\ dropCache[k].drops \in Int /\ dropCache[k].next_seq_num \in Nat
      /\ received[k] \in Nat /\ seq[k] \in Nat
  BY <1>1 DEF CountType
<1>4. ASSUME NEW type \in EventTypes, Receive(type)
      PROVE  exported'.drops[k] + dropCache'[k].drops = dropCache'[k].next_seq_num - received'[k]
  <2>1. UpdateEventStats(type) /\ UNCHANGED exported /\ received' = [received EXCEPT ![type] = @ + 1, !["LAST"] = @ + 1]
    BY <1>4 DEF Receive
  <2>2. received'[k] = IF k \in {type, "LAST"} THEN received[k] + 1 ELSE received[k]
    BY <1>1, <2>1, LastIsNoType DEF CountType
  <2>3. IF k \in {type, "LAST"}
        THEN /\ dropCache'[k].next_seq_num = seq[k] + 1
             /\ dropCache'[k].drops = dropCache[k].drops + seq[k] - dropCache[k].next_seq_num
        ELSE dropCache'[k] = dropCache[k]
    BY <1>1, <2>1, StatsKeep
  <2>4. exported' = exported
    BY <2>1
  <2>5. CASE k \in {type, "LAST"}
    <3>1. /\ received'[k] = received[k] + 1 /\ dropCache'[k].next_seq_num = seq[k] + 1
          /\ dropCache'[k].drops = dropCache[k].drops + seq[k] - dropCache[k].next_seq_num
      BY <2>2, <2>3, <2>5
    <3> QED
      BY <1>2, <1>3, <2>4, <3>1
  <2>6. CASE k \notin {type, "LAST"}
    BY <1>2, <2>2, <2>3, <2>4, <2>6
  <2> QED
    BY <2>5, <2>6
<1>5. CASE FlushMetrics
  <2>1. UNCHANGED received
    BY <1>5 DEF FlushMetrics
  <2> QED
    BY <1>1, <1>2, <1>3, <1>5, <2>1, FlushKeeps
<1>6. ASSUME UNCHANGED <<exported, dropCache, received>>
      PROVE  exported'.drops[k] + dropCache'[k].drops = dropCache'[k].next_seq_num - received'[k]
  BY <1>2, <1>6
<1>7. ASSUME NEW t \in tasks, Block(t) PROVE UNCHANGED <<exported, dropCache, received>>
  BY <1>7, BlockSteps DEF Holding
<1>8. ASSUME \/ \E type \in EventTypes : LoseEvent(type)
             \/ IgnoreMessage \/ Filter \/ Enrich \/ Others \/ \E id \in IDs : ChangeMachineID(id)
      PROVE  UNCHANGED <<exported, dropCache, received>>
  BY <1>8, OthersOutside DEF LoseEvent, IgnoreMessage, Filter, Enrich, ChangeMachineID, metricVars
<1> QED
  BY <1>4, <1>5, <1>6, <1>7, <1>8, Steps

(* What has been counted.                                                   *)
Total == exported.processed + exported.dropped + counts.processed + counts.dropped + ignored

LEMMA CountedOnce ==
  ASSUME CountType, NEW d \in {"processed", "dropped"}, SetEventMetrics(d), UNCHANGED <<exported, ignored>>
  PROVE  Total' = Total + 1
<1>1. /\ exported.processed \in Nat /\ exported.dropped \in Nat /\ counts.processed \in Nat
      /\ counts.dropped \in Nat /\ ignored \in Nat
  BY DEF CountType
<1>2. /\ counts'.processed \in Nat /\ counts'.dropped \in Nat
      /\ counts'.processed + counts'.dropped = counts.processed + counts.dropped + 1
  <2>1. counts' \in [processed : Nat, dropped : Nat]
    BY MetricsKeep
  <2>2. counts'.processed + counts'.dropped = counts.processed + counts.dropped + 1
    BY MetricsKeep
  <2> QED
    BY <2>1, <2>2
<1>3. \A a, b, c, d1, e, c1, c2 \in Nat : c1 + c2 = c + d1 + 1 => a + b + c1 + c2 + e = a + b + c + d1 + e + 1
  OBVIOUS
<1>4. exported.processed + exported.dropped + counts'.processed + counts'.dropped + ignored
      = exported.processed + exported.dropped + counts.processed + counts.dropped + ignored + 1
  BY <1>1, <1>2, <1>3
<1>5. exported' = exported /\ ignored' = ignored
  OBVIOUS
<1> QED
  BY <1>4, <1>5 DEF Total

LEMMA TotalKeeps ==
  ASSUME Holding, received["LAST"] = Total + Holders, [Next]_vars
  PROVE  received'["LAST"] = Total' + Holders'
<1>1. CountType /\ CountType' /\ Types
  BY CountTypeStep DEF Holding, Types
<1>2. /\ exported.processed \in Nat /\ exported.dropped \in Nat /\ counts.processed \in Nat
      /\ counts.dropped \in Nat /\ ignored \in Nat /\ received["LAST"] \in Nat
      /\ exported'.processed \in Nat /\ exported'.dropped \in Nat /\ counts'.processed \in Nat
      /\ counts'.dropped \in Nat
  BY <1>1, LastIsNoType DEF CountType
<1>3. Holders \in Nat
  BY <1>1, FS_CardinalityType DEF Types, MessageType, Holders, Busy
<1>4. ASSUME NEW type \in EventTypes, Receive(type) PROVE received'["LAST"] = Total' + Holders'
  <2>1. UNCHANGED <<exported, counts, ignored>> /\ received' = [received EXCEPT ![type] = @ + 1, !["LAST"] = @ + 1]
    BY <1>4 DEF Receive
  <2>2. received'["LAST"] = received["LAST"] + 1
    BY <1>1, <2>1, LastIsNoType DEF CountType
  <2> QED
    BY <1>2, <1>3, <1>4, <2>1, <2>2, ReceiveHolds DEF Total
<1>5. CASE Filter
  <2>1. UNCHANGED <<exported, received>>
    BY <1>5 DEF Filter
  <2>2. \/ Holders' = Holders - 1 /\ ignored' = ignored + 1 /\ UNCHANGED counts
        \/ Holders' = Holders - 1 /\ SetEventMetrics("dropped") /\ UNCHANGED ignored
        \/ Holders' = Holders /\ UNCHANGED <<ignored, counts>>
    BY <1>5, FilterHolds
  <2>4. CASE Holders' = Holders - 1 /\ ignored' = ignored + 1 /\ UNCHANGED counts
    BY <1>2, <1>3, <2>1, <2>4 DEF Total
  <2>5. CASE Holders' = Holders - 1 /\ SetEventMetrics("dropped") /\ UNCHANGED ignored
    <3>1. Total' = Total + 1 /\ Total \in Nat
      BY <1>1, <1>2, <2>1, <2>5, CountedOnce DEF Total
    <3> QED
      BY <1>3, <2>1, <2>5, <3>1
  <2>6. CASE Holders' = Holders /\ UNCHANGED <<ignored, counts>>
    BY <2>1, <2>6 DEF Total
  <2> QED
    BY <2>2, <2>4, <2>5, <2>6
<1>12. CASE IgnoreMessage
  <2>1. Total' = Total + 1 /\ Total \in Nat
    BY <1>1, <1>2, <1>12, IgnoreHolds, CountedOnce DEF Total
  <2> QED
    BY <1>2, <1>3, <1>12, <2>1, IgnoreHolds
<1>6. CASE Enrich
  <2>1. UNCHANGED <<exported, received, ignored>>
    BY <1>6 DEF Enrich
  <2>2. \/ Holders' = Holders - 1 /\ SetEventMetrics("dropped")
        \/ Holders' = Holders /\ UNCHANGED counts
    BY <1>6, EnrichHolds
  <2>4. CASE Holders' = Holders - 1 /\ SetEventMetrics("dropped")
    <3>1. Total' = Total + 1 /\ Total \in Nat
      BY <1>1, <1>2, <2>1, <2>4, CountedOnce DEF Total
    <3> QED
      BY <1>3, <2>1, <2>4, <3>1
  <2>5. CASE Holders' = Holders /\ UNCHANGED counts
    BY <2>1, <2>5 DEF Total
  <2> QED
    BY <2>2, <2>4, <2>5
<1>7. ASSUME NEW t \in tasks, Block(t) PROVE received'["LAST"] = Total' + Holders'
  <2>1. UNCHANGED <<exported, received, ignored>>
    BY <1>1, <1>7, BlockSteps
  <2>2. \/ Holders' = Holders - 1 /\ SetEventMetrics("processed")
        \/ Holders' = Holders /\ UNCHANGED counts
    BY <1>7, BlockHolds
  <2>4. CASE Holders' = Holders - 1 /\ SetEventMetrics("processed")
    <3>1. Total' = Total + 1 /\ Total \in Nat
      BY <1>1, <1>2, <2>1, <2>4, CountedOnce DEF Total
    <3> QED
      BY <1>3, <2>1, <2>4, <3>1
  <2>5. CASE Holders' = Holders /\ UNCHANGED counts
    BY <2>1, <2>5 DEF Total
  <2> QED
    BY <2>2, <2>4, <2>5
<1>8. CASE FlushMetrics
  <2>1. UNCHANGED <<handler, tasks, refs, received, seq, ignored>>
    BY <1>8 DEF FlushMetrics, kernelVars
  <2>2. Holders' = Holders
    BY <2>1, RestHolds
  <2> QED
    BY <1>1, <1>2, <1>3, <1>8, <2>1, <2>2, FlushKeeps DEF Total
<1>9. CASE Others
  <2>1. UNCHANGED <<handler, tasks, refs, received, seq, ignored, exported, counts>>
    BY <1>9, OthersOutside DEF kernelVars, metricVars
  <2> QED
    BY <1>2, <2>1, RestHolds DEF Total
<1>10. ASSUME NEW type \in EventTypes, LoseEvent(type) PROVE received'["LAST"] = Total' + Holders'
  <2>1. UNCHANGED <<exported, received, ignored, counts>>
    BY <1>10 DEF LoseEvent, metricVars
  <2> QED
    BY <1>10, <2>1, LoseHolds DEF Total
<1>11. ASSUME NEW id \in IDs, ChangeMachineID(id) PROVE received'["LAST"] = Total' + Holders'
  <2>1. UNCHANGED <<exported, received, ignored, counts>>
    BY <1>11 DEF ChangeMachineID, metricVars
  <2> QED
    BY <1>11, <2>1, RelabelHolds DEF Total
<1> QED
  BY <1>4, <1>5, <1>6, <1>7, <1>8, <1>9, <1>10, <1>11, <1>12, Steps

LEMMA CountedInit == Init => Counted
<1> SUFFICES ASSUME Init PROVE Counted
  OBVIOUS
<1>1. Holding
  BY HoldingInit
<1>2. /\ seq = [k \in Counters |-> 0] /\ received = seq /\ handler = [step |-> "idle"] /\ tasks = {}
      /\ dropCache = [k \in Counters |-> [next_seq_num |-> 0, drops |-> 0]]
      /\ counts = [processed |-> 0, dropped |-> 0] /\ ignored = 0
      /\ exported = [drops |-> seq, processed |-> 0, dropped |-> 0]
  BY DEF Init, Counters
<1>3. DropsCounted
  <2>1. DOMAIN seq = Counters
    BY <1>2
  <2> SUFFICES ASSUME NEW k \in Counters
               PROVE  exported.drops[k] + dropCache[k].drops = dropCache[k].next_seq_num - received[k]
    BY <2>1 DEF DropsCounted
  <2>2. exported.drops[k] = 0 /\ dropCache[k].drops = 0 /\ dropCache[k].next_seq_num = 0 /\ received[k] = 0
    BY <1>2
  <2> QED
    BY <2>2
<1>4. received["LAST"] = 0 /\ Cardinality(tasks) = 0
  BY <1>2, LastIsNoType, FS_EmptySet
<1> QED
  BY <1>1, <1>2, <1>3, <1>4 DEF Counted, EventsCounted

LEMMA CountedStep == Counted /\ [Next]_vars => Counted'
<1> SUFFICES ASSUME Counted, [Next]_vars PROVE Counted'
  OBVIOUS
<1>1. /\ Holding /\ DropsCounted /\ Types
      /\ received["LAST"] = exported.processed + exported.dropped + counts.processed + counts.dropped + ignored
                            + Cardinality(tasks) + Busy
  BY DEF Counted, EventsCounted, Busy, Holding
<1>2. Holding' /\ DropsCounted' /\ Types'
  BY <1>1, HoldingStep, DropsKeep DEF Holding
<1>3. /\ Total \in Nat /\ Cardinality(tasks) \in Nat /\ Busy \in Nat
      /\ Total' \in Nat /\ Cardinality(tasks)' \in Nat /\ Busy' \in Nat
  <2>1. IsFiniteSet(tasks) /\ IsFiniteSet(tasks)'
    BY <1>1, <1>2 DEF Types, MessageType
  <2>2. Cardinality(tasks) \in Nat /\ Cardinality(tasks') \in Nat
    BY <2>1, FS_CardinalityType
  <2>3. Total \in Nat
    BY <1>1 DEF Types, CountType, Total
  <2>4. Total' \in Nat
    BY <1>2 DEF Types, CountType, Total
  <2> QED
    BY <2>2, <2>3, <2>4 DEF Busy
<1>4. received["LAST"] = Total + Holders
  BY <1>1, <1>3 DEF Total, Holders
<1>5. received'["LAST"] = Total' + Holders'
  BY <1>1, <1>4, TotalKeeps
<1>6. received'["LAST"] = Total' + Cardinality(tasks)' + Busy'
  BY <1>3, <1>5 DEF Holders
<1> QED
  BY <1>2, <1>6 DEF Counted, EventsCounted, Total, Busy

(* Every event that happened is accounted for exactly once, whatever is     *)
(* lost, filtered, dropped or flushed in between (Metrics.mm).              *)
THEOREM EventsAlwaysCounted == Spec => []EventsCounted
<1>1. Counted => EventsCounted
  BY DEF Counted
<1> QED
  BY <1>1, CountedInit, CountedStep, PTL DEF Spec

-----------------------------------------------------------------------------
(* Answers about files that were modified.                                  *)
LEMMA StaleKeeps == ASSUME Types, StaleInv, [Next]_vars PROVE StaleInv'
<1>1. auth \in [Programs -> {"none", "fresh", "old"}]
  BY DEF Types, DecisionType
<1>2. ASSUME NEW type \in EventTypes, LoseEvent(type) PROVE StaleInv'
  <2>1. UNCHANGED handler
    BY <1>2 DEF LoseEvent
  <2>2. CASE type = "CLOSE"
    <3>1. PICK f \in Files : MissClose(f) /\ auth' = Written(f)
      BY <1>2, <2>2 DEF LoseEvent
    <3> QED
      BY <1>1, <2>1, <3>1 DEF StaleInv, Written, MissClose
  <2>3. CASE type # "CLOSE"
    BY <1>2, <2>1, <2>3 DEF LoseEvent, StaleInv
  <2> QED
    BY <2>2, <2>3
<1>3. ASSUME NEW type \in EventTypes, Receive(type) PROVE StaleInv'
  <2>1. handler.step = "idle" /\ UNCHANGED lostClose
    BY <1>3 DEF Receive
  <2>2. PICK f \in About(type), special \in BOOLEAN :
          /\ auth' = IF type = "CLOSE" /\ special THEN Written(f) ELSE auth
          /\ handler' = [step |-> "filter", type |-> type, file |-> f, special |-> special,
                         n |-> received'["LAST"], due |-> IF f \in Programs THEN made[f] ELSE 0]
    BY <1>3 DEF Receive
  <2>3. handler'.step = "filter" /\ handler'.type = type /\ handler'.file = f /\ handler'.special = special
    BY <2>2
  <2> QED
    BY <1>1, <2>1, <2>2, <2>3 DEF StaleInv, Written
<1>4. CASE Filter
  <2>1. UNCHANGED lostClose /\ handler.step = "filter"
    BY <1>4 DEF Filter, kernelVars
  <2>2. CASE handler.type = "CLOSE" /\ handler.special
    <3>1. auth' = [g \in Programs |-> IF g = handler.file THEN "none" ELSE auth[g]]
      BY <1>4, <2>2 DEF Filter, Invalidate, RemoveFromCache
    <3> QED
      BY <2>1, <3>1 DEF StaleInv
  <2>3. CASE ~(handler.type = "CLOSE" /\ handler.special)
    <3>1. UNCHANGED auth
      BY <1>4, <2>3 DEF Filter, Invalidate
    <3> QED
      BY <2>1, <2>3, <3>1 DEF StaleInv
  <2> QED
    BY <2>2, <2>3
<1>10. CASE IgnoreMessage
  <2>1. UNCHANGED auth /\ handler.step = "filter"
    BY <1>10 DEF IgnoreMessage
  <2>2. CASE handler.type = "CLOSE" /\ handler.special
    <3>1. MissClose(handler.file)
      BY <1>10, <2>2 DEF IgnoreMessage
    <3> QED
      BY <2>1, <3>1 DEF StaleInv, MissClose
  <2>3. CASE ~(handler.type = "CLOSE" /\ handler.special)
    BY <1>10, <2>1, <2>3 DEF StaleInv, IgnoreMessage
  <2> QED
    BY <2>2, <2>3
<1>5. CASE Enrich
  <2>1. UNCHANGED <<lostClose, auth>> /\ handler.step = "enrich"
    BY <1>5 DEF Enrich, kernelVars, decisionVars
  <2> QED
    BY <2>1 DEF StaleInv
<1>6. ASSUME UNCHANGED <<lostClose, auth, handler>> PROVE StaleInv'
  BY <1>6 DEF StaleInv
<1>7. ASSUME NEW t \in tasks, Block(t) PROVE UNCHANGED <<lostClose, auth, handler>>
  BY <1>7, BlockSteps DEF kernelVars, decisionVars
<1>8. ASSUME NEW f \in Programs, Evaluate(f) PROVE StaleInv'
  <2>1. UNCHANGED <<lostClose, handler>> /\ auth' = [auth EXCEPT ![f] = "fresh"]
    BY <1>8 DEF Evaluate, kernelVars
  <2> QED
    BY <1>1, <2>1 DEF StaleInv
<1>9. ASSUME \/ \E m \in Masks : SetTelemetryMask(m)
             \/ \E f \in Programs : BackfillFind(f)
             \/ \E kind \in Kinds, name \in Names : ChangeDirectory(kind, name)
             \/ StoreEnabled \/ BackfillStore \/ EvaluateOther \/ FlushMetrics \/ \E id \in IDs : ChangeMachineID(id)
             \/ UNCHANGED vars
      PROVE  UNCHANGED <<lostClose, auth, handler>>
  BY <1>9 DEF SetTelemetryMask, BackfillFind, ChangeDirectory, StoreEnabled, BackfillStore, EvaluateOther, FlushMetrics,
              ChangeMachineID, vars, kernelVars, decisionVars
<1> QED
  BY <1>2, <1>3, <1>4, <1>5, <1>6, <1>7, <1>8, <1>9, <1>10, Steps DEF Others

(* Once the handler has dealt with the close of a modified file, no answer  *)
(* from before is left in the cache, whatever the mask leaves out; a close  *)
(* that was not delivered, or one by another client of Endpoint Security    *)
(* that the settings ignore, is the only way that one stays                 *)
(* (SNTEndpointSecurityRecorder.mm:114, SNTEndpointSecurityClient.mm:118).  *)
THEOREM StaleAnswersAlwaysGo == Spec => []StaleAnswersGo
<1>1. Init => Holding /\ StaleInv
  BY HoldingInit DEF Init, StaleInv
<1>2. Holding /\ StaleInv /\ [Next]_vars => Holding' /\ StaleInv'
  BY HoldingStep, StaleKeeps DEF Holding
<1>3. Holding /\ StaleInv => StaleAnswersGo
  BY DEF StaleInv, StaleAnswersGo
<1> QED
  BY <1>1, <1>2, <1>3, PTL DEF Spec

-----------------------------------------------------------------------------
(* What a record says.  Each block is one of before with the same message,  *)
(* or the one that Enrich adds.                                             *)
LEMMA NewTasks ==
  ASSUME Types, [Next]_vars, ~(\E id \in IDs : ChangeMachineID(id)), NEW u \in tasks'
  PROVE  \/ u \in tasks
         \/ Enrich /\ handler.step = "enrich" /\ u = Queued(handler.n)
         \/ \E t \in tasks : Block(t) /\ Advance(t, u)
<1>1. CASE Enrich
  BY <1>1 DEF Enrich, Queued, Return
<1>2. ASSUME NEW t \in tasks, Block(t) PROVE u \in tasks \/ Advance(t, u)
  <2>1. tasks' = tasks \ {t} \/ \E v \in Tasks : Advance(t, v)
    BY <1>2, BlockSteps DEF Finish
  <2>2. ASSUME NEW v, Advance(t, v) PROVE u \in tasks \/ Advance(t, u)
    BY <2>2 DEF Advance
  <2> QED
    BY <2>1, <2>2
<1>3. ASSUME IgnoreMessage \/ Filter \/ FlushMetrics \/ Others \/ \E type \in EventTypes : LoseEvent(type) \/ Receive(type)
      PROVE  UNCHANGED tasks
  BY <1>3, OthersOutside DEF IgnoreMessage, Filter, FlushMetrics, LoseEvent, Receive
<1> QED
  BY <1>1, <1>2, <1>3, Steps

(* Going on keeps what a block took from the event.                         *)
LEMMA OnSameMessage ==
  ASSUME Types, NEW t \in tasks, NEW u, Block(t), Advance(t, u), u \notin tasks
  PROVE  u \in Tasks /\ SameMessage(t, u)
<1>1. tasks' = (tasks \ {t}) \cup {u}
  BY DEF Advance
<1>2. ~Finish(t)
  BY <1>1 DEF Finish
<1>3. PICK v \in Tasks : Advance(t, v) /\ SameMessage(t, v)
  BY <1>2, BlockSteps
<1>4. v = u
  BY <1>1, <1>3 DEF Advance
<1> QED
  BY <1>3, <1>4

(* The names.                                                               *)
LEMMA NamesOnlyGrow ==
  ASSUME Types, [Next]_vars
  PROVE  \A k \in Kinds : given[k] \subseteq given'[k]
<1>1. ASSUME NEW kind \in Kinds, NEW name \in Names, ChangeDirectory(kind, name)
      PROVE  \A k \in Kinds : given[k] \subseteq given'[k]
  BY <1>1 DEF ChangeDirectory, Types, SettingType
<1>2. ASSUME NEW t \in tasks, Block(t) PROVE UNCHANGED given
  BY <1>2, BlockSteps DEF nameVars
<1>3. ASSUME \/ \E type \in EventTypes : LoseEvent(type) \/ Receive(type)
             \/ IgnoreMessage \/ Filter \/ Enrich \/ FlushMetrics \/ \E id \in IDs : ChangeMachineID(id)
             \/ \E f \in Programs : Evaluate(f) \/ BackfillFind(f)
             \/ BackfillStore \/ EvaluateOther \/ StoreEnabled \/ UNCHANGED vars \/ \E m \in Masks : SetTelemetryMask(m)
      PROVE  UNCHANGED given
  BY <1>3 DEF LoseEvent, Receive, IgnoreMessage, Filter, Enrich, FlushMetrics, ChangeMachineID, Evaluate, BackfillFind,
              BackfillStore, EvaluateOther, StoreEnabled, SetTelemetryMask, nameVars, vars
<1> QED
  BY <1>1, <1>2, <1>3, Steps DEF Others

LEMMA CachedNamesKeep ==
  ASSUME Types, NamesInv, [Next]_vars
  PROVE  /\ \A k \in Kinds : names'[k] # None => names'[k] \in given'[k]
         /\ \A k \in Kinds : directory'[k] # None => directory'[k] \in given'[k]
<1>1. CASE Enrich
  <2>1. UNCHANGED <<directory, given>> /\ (UNCHANGED names \/ names' = NewNames)
    BY <1>1 DEF Enrich
  <2>2. \A k \in Kinds : NewNames[k] = NameFor(k)
    BY NamesFound
  <2> QED
    BY <2>1, <2>2 DEF NamesInv, NameFor
<1>2. ASSUME NEW kind \in Kinds, NEW name \in Names, ChangeDirectory(kind, name)
      PROVE  /\ \A k \in Kinds : names'[k] # None => names'[k] \in given'[k]
             /\ \A k \in Kinds : directory'[k] # None => directory'[k] \in given'[k]
  <2>1. /\ directory' = [directory EXCEPT ![kind] = name] /\ UNCHANGED names
        /\ given' = [given EXCEPT ![kind] = IF name = None THEN @ ELSE @ \cup {name}]
    BY <1>2 DEF ChangeDirectory
  <2> QED
    BY <2>1 DEF NamesInv, Types, SettingType
<1>3. ASSUME UNCHANGED <<directory, names, given>>
      PROVE  /\ \A k \in Kinds : names'[k] # None => names'[k] \in given'[k]
             /\ \A k \in Kinds : directory'[k] # None => directory'[k] \in given'[k]
  BY <1>3 DEF NamesInv
<1>4. ASSUME NEW t \in tasks, Block(t) PROVE UNCHANGED <<directory, names, given>>
  BY <1>4, BlockSteps DEF nameVars
<1>5. ASSUME \/ \E type \in EventTypes : LoseEvent(type) \/ Receive(type)
             \/ IgnoreMessage \/ Filter \/ FlushMetrics \/ \E id \in IDs : ChangeMachineID(id)
             \/ \E f \in Programs : Evaluate(f) \/ BackfillFind(f)
             \/ BackfillStore \/ EvaluateOther \/ StoreEnabled \/ UNCHANGED vars \/ \E m \in Masks : SetTelemetryMask(m)
      PROVE  UNCHANGED <<directory, names, given>>
  BY <1>5 DEF LoseEvent, Receive, IgnoreMessage, Filter, FlushMetrics, ChangeMachineID, Evaluate, BackfillFind,
              BackfillStore, EvaluateOther, StoreEnabled, SetTelemetryMask, nameVars, vars
<1> QED
  BY <1>1, <1>2, <1>3, <1>4, <1>5, Steps DEF Others

LEMMA NamesKeep == ASSUME Types, NamesInv, [Next]_vars PROVE NamesInv'
<1> DEFINE Just(t, g) == \A k \in Kinds : IF t.names[k] = None THEN t.had[k] = None ELSE t.names[k] \in g[k]
<1>1. \A t \in tasks : Just(t, given)
  BY DEF NamesInv, NamesJustified, Kinds
<1>2. \A k \in Kinds : given[k] \subseteq given'[k]
  BY NamesOnlyGrow
<1>3. \A t \in tasks : Just(t, given')
  BY <1>1, <1>2
<1>4. \A t \in tasks : \A u : SameMessage(t, u) => Just(u, given')
  BY <1>3 DEF SameMessage
<1>5. handler.step = "enrich" /\ Enrich => Just(Queued(handler.n), given')
  <2>1. DOMAIN names = Kinds /\ (Enrich => UNCHANGED given)
    BY DEF Types, SettingType, Enrich
  <2>2. \A k \in Kinds : /\ Queued(handler.n).names[k] = NameFor(k)
                       /\ Queued(handler.n).had[k] = directory[k]
    BY NamesFound DEF Queued
  <2>3. \A k \in Kinds : IF NameFor(k) = None THEN directory[k] = None ELSE NameFor(k) \in given[k]
    BY DEF NameFor, NamesInv
  <2>4. Just(Queued(handler.n), given)
    <3> SUFFICES ASSUME NEW k \in Kinds
                 PROVE  IF Queued(handler.n).names[k] = None THEN Queued(handler.n).had[k] = None
                        ELSE Queued(handler.n).names[k] \in given[k]
      OBVIOUS
    <3> QED
      BY <2>2, <2>3
  <2> HIDE DEF Just
  <2> QED
    BY <2>1, <2>4
<1>6. \A u \in tasks' : Just(u, given')
  <2> SUFFICES ASSUME NEW u \in tasks' PROVE Just(u, given')
    OBVIOUS
  <2> HIDE DEF Just
  <2>1. ASSUME NEW id \in IDs, ChangeMachineID(id) PROVE Just(u, given')
    <3>1. tasks' = {Relabelled(t, id) : t \in tasks}
      BY <2>1, RelabelKeeps
    <3>2. PICK t \in tasks : u = Relabelled(t, id)
      BY <3>1
    <3>3. SameMessage(t, Relabelled(t, id))
      BY <2>1, RelabelKeeps
    <3> QED
      BY <1>4, <3>2, <3>3
  <2>2. ASSUME NEW t \in tasks, Block(t), Advance(t, u), u \notin tasks PROVE Just(u, given')
    BY <1>4, <2>2, OnSameMessage
  <2> QED
    BY <1>3, <1>5, <2>1, <2>2, NewTasks
<1> QED
  BY <1>6, CachedNamesKeep DEF NamesInv, NamesJustified, Kinds

(* The machine ID: the flag and the ID are in step with what is wanted.     *)
LEMMA FlagKeeps == ASSUME Types, FlagInv, [Next]_vars PROVE FlagInv'
<1>1. machine \in [wanted : IDs, previous : IDs, updating : BOOLEAN, enabled : BOOLEAN, id : StoredIDs]
  BY DEF Types, SettingType
<1>2. ASSUME NEW id \in IDs, ChangeMachineID(id) PROVE FlagInv'
  <2>1. /\ ~machine.updating
        /\ machine' = [machine EXCEPT !.id = IF id = None THEN @ ELSE id, !.wanted = id, !.previous = machine.wanted,
                                      !.updating = TRUE]
    BY <1>2 DEF ChangeMachineID, StoreMachineID
  <2>2. /\ machine'.wanted = id /\ machine'.previous = machine.wanted /\ machine'.updating = TRUE
        /\ machine'.enabled = machine.enabled /\ machine'.id = IF id = None THEN machine.id ELSE id
    BY <1>1, <2>1
  <2> QED
    BY <2>1, <2>2 DEF FlagInv
<1>3. CASE StoreEnabled
  <2>1. machine.updating /\ machine' = [machine EXCEPT !.updating = FALSE, !.enabled = (machine.wanted # None)]
    BY <1>3 DEF StoreEnabled
  <2>2. /\ machine'.wanted = machine.wanted /\ machine'.updating = FALSE /\ machine'.id = machine.id
        /\ machine'.enabled = (machine.wanted # None)
    BY <1>1, <2>1
  <2> QED
    BY <2>2 DEF FlagInv
<1>4. ASSUME UNCHANGED machine PROVE FlagInv'
  BY <1>4 DEF FlagInv
<1>5. ASSUME NEW t \in tasks, Block(t) PROVE UNCHANGED machine
  BY <1>5, BlockSteps
<1>6. ASSUME \/ \E type \in EventTypes : LoseEvent(type) \/ Receive(type)
             \/ IgnoreMessage \/ Filter \/ Enrich \/ FlushMetrics
             \/ \E f \in Programs : Evaluate(f) \/ BackfillFind(f)
             \/ \E kind \in Kinds, name \in Names : ChangeDirectory(kind, name)
             \/ BackfillStore \/ EvaluateOther \/ UNCHANGED vars \/ \E m \in Masks : SetTelemetryMask(m)
      PROVE  UNCHANGED machine
  BY <1>6 DEF LoseEvent, Receive, IgnoreMessage, Filter, Enrich, FlushMetrics, Evaluate, BackfillFind,
              BackfillStore, EvaluateOther, ChangeDirectory, SetTelemetryMask, vars
<1> QED
  BY <1>2, <1>3, <1>4, <1>5, <1>6, Steps DEF Others

(* What is in force is what the flag and the ID say.                        *)
LEMMA FlagSaysWhatIsInForce ==
  ASSUME FlagInv
  PROVE  IF machine.enabled THEN machine.id \in InForce ELSE None \in InForce
BY DEF FlagInv, InForce

Decorated(t) ==
  /\ t.step # "queued" => InForce \subseteq t.ids
  /\ t.step \in {"queued", "decision", "decorate"} => t.id = None
  /\ t.step = "id" => machine.id \in t.ids
  /\ t.step = "write" => t.id \in t.ids

LEMMA BlockDecorates ==
  ASSUME Types, FlagInv, NEW t \in tasks, Decorated(t), Block(t), NEW u, Advance(t, u), u \notin tasks
  PROVE  Decorated(u)
<1>1. t \in Tasks /\ ~Finish(t) /\ tasks' = (tasks \ {t}) \cup {u}
  BY DEF Types, MessageType, Finish, Advance
<1>2. \A v : Advance(t, v) => v = u
  BY <1>1 DEF Advance
<1>3. IF machine.enabled THEN machine.id \in InForce ELSE None \in InForce
  BY FlagSaysWhatIsInForce
<1>4. CASE Log(t)
  <2>1. u = [t EXCEPT !.step = "decision", !.ids = InForce]
    BY <1>1, <1>2, <1>4 DEF Log
  <2>2. t.step = "queued" /\ u.step = "decision" /\ u.ids = InForce /\ u.id = t.id
    BY <1>1, <1>4, <2>1 DEF Log, Tasks
  <2> QED
    BY <2>2 DEF Decorated
<1>5. CASE LookUpDecision(t)
  <2> DEFINE d == IF t.type = "EXEC" THEN decisions[t.file] ELSE 0
  <2>1. u = [t EXCEPT !.step = "decorate", !.decision = d]
    BY <1>2, <1>5 DEF LookUpDecision
  <2> HIDE DEF d
  <2>2. t.step = "decision" /\ u.step = "decorate" /\ u.ids = t.ids /\ u.id = t.id
    BY <1>1, <1>5, <2>1 DEF LookUpDecision, Tasks
  <2> QED
    BY <2>2 DEF Decorated
<1>6. CASE EnableMachineIDDecoration(t)
  <2>1. u = [t EXCEPT !.step = IF machine.enabled THEN "id" ELSE "write"]
    BY <1>2, <1>6 DEF EnableMachineIDDecoration
  <2>2. /\ t.step = "decorate" /\ u.step = (IF machine.enabled THEN "id" ELSE "write") /\ u.ids = t.ids
        /\ u.id = t.id
    BY <1>1, <1>6, <2>1 DEF EnableMachineIDDecoration, Tasks
  <2> QED
    BY <1>3, <2>2 DEF Decorated
<1>7. CASE MachineID(t)
  <2>1. u = [t EXCEPT !.step = "write", !.id = machine.id]
    BY <1>2, <1>7 DEF MachineID
  <2>2. t.step = "id" /\ u.step = "write" /\ u.ids = t.ids /\ u.id = machine.id
    BY <1>1, <1>7, <2>1 DEF MachineID, Tasks
  <2> QED
    BY <2>2 DEF Decorated
<1>8. ~Write(t)
  BY <1>1 DEF Write
<1> QED
  BY <1>4, <1>5, <1>6, <1>7, <1>8 DEF Block

LEMMA DecorationKeeps == ASSUME Types, FlagInv, DecorationInv, [Next]_vars PROVE DecorationInv'
<1>1. \A t \in tasks : Decorated(t)
  BY DEF DecorationInv, Decorated
<1>2. ASSUME NEW id \in IDs, ChangeMachineID(id) PROVE DecorationInv'
  <2>1. machine \in [wanted : IDs, previous : IDs, updating : BOOLEAN, enabled : BOOLEAN, id : StoredIDs]
    BY DEF Types, SettingType
  <2>2. /\ ~machine.updating
        /\ machine' = [machine EXCEPT !.id = IF id = None THEN @ ELSE id, !.wanted = id, !.previous = machine.wanted,
                                      !.updating = TRUE]
    BY <1>2 DEF ChangeMachineID, StoreMachineID
  <2>3. /\ machine'.wanted = id /\ machine'.previous = machine.wanted /\ machine'.updating = TRUE
        /\ machine'.id = IF id = None THEN machine.id ELSE id
    BY <2>1, <2>2
  <2>4. InForce = {machine.wanted} /\ InForce' = {id, machine.wanted}
    BY <2>2, <2>3 DEF InForce
  <2>5. ASSUME NEW t \in tasks PROVE Decorated(Relabelled(t, id))'
    <3>1. /\ Relabelled(t, id).step = t.step /\ Relabelled(t, id).id = t.id
          /\ Relabelled(t, id).ids = IF t.step = "queued" THEN {} ELSE t.ids \cup {id}
      BY <1>2, RelabelKeeps
    <3> QED
      BY <1>1, <2>3, <2>4, <3>1 DEF Decorated
  <2>6. tasks' = {Relabelled(t, id) : t \in tasks}
    BY <1>2, RelabelKeeps
  <2> QED
    BY <2>5, <2>6 DEF DecorationInv, Decorated
<1>3. ASSUME ~(\E id \in IDs : ChangeMachineID(id)) PROVE DecorationInv'
  <2>1. machine'.id = machine.id /\ InForce' \subseteq InForce
    <3>1. CASE StoreEnabled
      <4>1. machine' = [machine EXCEPT !.updating = FALSE, !.enabled = (machine.wanted # None)]
        BY <3>1 DEF StoreEnabled
      <4>2. machine'.wanted = machine.wanted /\ machine'.updating = FALSE /\ machine'.id = machine.id
        BY <4>1 DEF Types, SettingType
      <4> QED
        BY <4>2 DEF InForce
    <3>2. ASSUME NEW t \in tasks, Block(t) PROVE UNCHANGED machine
      BY <3>2, BlockSteps
    <3>3. ASSUME \/ \E type \in EventTypes : LoseEvent(type) \/ Receive(type)
                 \/ IgnoreMessage \/ Filter \/ Enrich \/ FlushMetrics
                 \/ \E f \in Programs : Evaluate(f) \/ BackfillFind(f)
                 \/ \E kind \in Kinds, name \in Names : ChangeDirectory(kind, name)
                 \/ BackfillStore \/ EvaluateOther \/ UNCHANGED vars \/ \E m \in Masks : SetTelemetryMask(m)
          PROVE  UNCHANGED machine
      BY <3>3 DEF LoseEvent, Receive, IgnoreMessage, Filter, Enrich, FlushMetrics, Evaluate, BackfillFind,
                  BackfillStore, EvaluateOther, ChangeDirectory, SetTelemetryMask, vars
    <3>4. ASSUME UNCHANGED machine PROVE machine'.id = machine.id /\ InForce' \subseteq InForce
      BY <3>4 DEF InForce
    <3> QED
      BY <1>3, <3>1, <3>2, <3>3, <3>4, Steps DEF Others
  <2>2. ASSUME NEW u \in tasks' PROVE Decorated(u)
    <3>1. handler.step = "enrich" => Decorated(Queued(handler.n))
      BY DEF Decorated, Queued
    <3> QED
      BY <1>1, <1>3, <3>1, NewTasks, BlockDecorates
  <2>3. ASSUME NEW u \in tasks' PROVE Decorated(u)'
    BY <2>1, <2>2 DEF Decorated
  <2> QED
    BY <2>3 DEF DecorationInv, Decorated
<1> QED
  BY <1>2, <1>3

(* The decisions.                                                           *)
LEMMA MadeOnlyGrows ==
  ASSUME Types, [Next]_vars
  PROVE  \A f \in Programs : made[f] <= made'[f]
<1>0. made \in [Programs -> Nat]
  BY DEF Types, DecisionType
<1>1. ASSUME NEW g \in Programs, Evaluate(g) PROVE \A f \in Programs : made[f] <= made'[f]
  <2>1. made' = [made EXCEPT ![g] = @ + 1]
    BY <1>1 DEF Evaluate
  <2> QED
    BY <1>0, <2>1
<1>2. ASSUME UNCHANGED made PROVE \A f \in Programs : made[f] <= made'[f]
  BY <1>0, <1>2
<1>3. ASSUME NEW t \in tasks, Block(t) PROVE UNCHANGED made
  BY <1>3, BlockSteps DEF decisionVars
<1>4. ASSUME \/ \E type \in EventTypes : LoseEvent(type) \/ Receive(type)
             \/ IgnoreMessage \/ Filter \/ Enrich \/ FlushMetrics \/ \E id \in IDs : ChangeMachineID(id)
             \/ \E f \in Programs : BackfillFind(f)
             \/ \E kind \in Kinds, name \in Names : ChangeDirectory(kind, name)
             \/ BackfillStore \/ EvaluateOther \/ StoreEnabled \/ UNCHANGED vars \/ \E m \in Masks : SetTelemetryMask(m)
      PROVE  UNCHANGED made
  BY <1>4 DEF LoseEvent, Receive, IgnoreMessage, Filter, Enrich, FlushMetrics, ChangeMachineID, BackfillFind, ChangeDirectory,
              BackfillStore, EvaluateOther, StoreEnabled, SetTelemetryMask, decisionVars, vars
<1> QED
  BY <1>1, <1>2, <1>3, <1>4, Steps DEF Others

CachedIsMade ==
  \A f \in Programs : made[f] > 0 => decisions[f] = made[f] \/ (decisions[f] <= 0 /\ f \in cleared)

LEMMA ClearedOnlyGrows == ASSUME [Next]_vars, Types PROVE cleared \subseteq cleared'
<1>1. ASSUME NEW t \in tasks, Block(t) PROVE UNCHANGED cleared
  BY <1>1, BlockSteps DEF decisionVars
<1>2. CASE EvaluateOther
  BY <1>2 DEF EvaluateOther
<1>3. ASSUME \/ \E type \in EventTypes : LoseEvent(type) \/ Receive(type)
             \/ IgnoreMessage \/ Filter \/ Enrich \/ FlushMetrics \/ \E id \in IDs : ChangeMachineID(id)
             \/ \E f \in Programs : Evaluate(f) \/ BackfillFind(f)
             \/ \E kind \in Kinds, name \in Names : ChangeDirectory(kind, name)
             \/ BackfillStore \/ StoreEnabled \/ UNCHANGED vars \/ \E m \in Masks : SetTelemetryMask(m)
      PROVE  UNCHANGED cleared
  BY <1>3 DEF LoseEvent, Receive, IgnoreMessage, Filter, Enrich, FlushMetrics, ChangeMachineID, Evaluate,
              BackfillFind, ChangeDirectory, BackfillStore, StoreEnabled, SetTelemetryMask, decisionVars, vars
<1> QED
  BY <1>1, <1>2, <1>3, Steps DEF Others

LEMMA CachedKeeps == ASSUME Types, CachedIsMade, [Next]_vars PROVE CachedIsMade'
<1>0. made \in [Programs -> Nat] /\ decisions \in [Programs -> Int] /\ backfill \in SUBSET Programs
  BY DEF Types, DecisionType
<1>1. ASSUME NEW g \in Programs, Evaluate(g) PROVE CachedIsMade'
  <2>1. /\ made' = [made EXCEPT ![g] = @ + 1] /\ decisions' = [decisions EXCEPT ![g] = made'[g]]
        /\ UNCHANGED cleared
    BY <1>1 DEF Evaluate
  <2> QED
    BY <1>0, <2>1 DEF CachedIsMade
<1>2. CASE BackfillStore
  <2>1. PICK f \in backfill : decisions' = [decisions EXCEPT ![f] = IF @ = 0 THEN -1 ELSE @]
    BY <1>2 DEF BackfillStore, cacheDecisionIfNotSet
  <2>2. UNCHANGED <<made, cleared>>
    BY <1>2 DEF BackfillStore
  <2> QED
    BY <1>0, <2>1, <2>2 DEF CachedIsMade
<1>6. CASE EvaluateOther
  <2>1. /\ decisions' = [f \in Programs |-> 0] /\ UNCHANGED made
        /\ cleared' = cleared \cup {f \in Programs : decisions[f] # 0}
    BY <1>6 DEF EvaluateOther
  <2> QED
    BY <1>0, <2>1 DEF CachedIsMade
<1>3. ASSUME UNCHANGED <<made, decisions, cleared>> PROVE CachedIsMade'
  BY <1>3 DEF CachedIsMade
<1>4. ASSUME NEW t \in tasks, Block(t) PROVE UNCHANGED <<made, decisions, cleared>>
  BY <1>4, BlockSteps DEF decisionVars
<1>5. ASSUME \/ \E type \in EventTypes : LoseEvent(type) \/ Receive(type)
             \/ IgnoreMessage \/ Filter \/ Enrich \/ FlushMetrics \/ \E id \in IDs : ChangeMachineID(id)
             \/ \E f \in Programs : BackfillFind(f)
             \/ \E kind \in Kinds, name \in Names : ChangeDirectory(kind, name)
             \/ StoreEnabled \/ UNCHANGED vars \/ \E m \in Masks : SetTelemetryMask(m)
      PROVE  UNCHANGED <<made, decisions, cleared>>
  BY <1>5 DEF LoseEvent, Receive, IgnoreMessage, Filter, Enrich, FlushMetrics, ChangeMachineID, BackfillFind, ChangeDirectory,
              StoreEnabled, SetTelemetryMask, decisionVars, vars
<1> QED
  BY <1>1, <1>2, <1>3, <1>4, <1>5, <1>6, Steps DEF Others

(* What an event of a program that was let run is owed.                     *)
Due(t) == t.due > 0 => t.file \in Programs /\ t.due <= made[t.file]

Current(t) ==
  t.step \in {"decorate", "id", "write"} /\ t.type = "EXEC" /\ t.due > 0 =>
    t.decision >= t.due \/ (t.decision <= 0 /\ t.file \in cleared)

LEMMA BlockStaysCurrent ==
  ASSUME Types, CachedIsMade, NEW t \in tasks, Due(t), Current(t), Block(t), NEW u, Advance(t, u), u \notin tasks
  PROVE  Current(u)
<1>1. t \in Tasks /\ ~Finish(t) /\ tasks' = (tasks \ {t}) \cup {u}
  BY DEF Types, MessageType, Finish, Advance
<1>2. \A v : Advance(t, v) => v = u
  BY <1>1 DEF Advance
<1>3. CASE Log(t)
  <2>1. u = [t EXCEPT !.step = "decision", !.ids = InForce]
    BY <1>1, <1>2, <1>3 DEF Log
  <2>2. u.step = "decision"
    BY <1>1, <2>1 DEF Tasks
  <2> QED
    BY <2>2 DEF Current
<1>4. CASE LookUpDecision(t)
  <2> DEFINE d == IF t.type = "EXEC" THEN decisions[t.file] ELSE 0
  <2>1. u = [t EXCEPT !.step = "decorate", !.decision = d]
    BY <1>2, <1>4 DEF LookUpDecision
  <2>2. t.type = "EXEC" /\ t.due > 0 => d >= t.due \/ (d <= 0 /\ t.file \in cleared)
    <3>1. made \in [Programs -> Nat] /\ t.due \in Nat
      BY <1>1 DEF Types, DecisionType, Tasks
    <3> QED
      BY <3>1 DEF Due, CachedIsMade
  <2> HIDE DEF d
  <2>3. u.step = "decorate" /\ u.type = t.type /\ u.due = t.due /\ u.decision = d /\ u.file = t.file
    BY <1>1, <2>1 DEF Tasks
  <2> QED
    BY <2>2, <2>3 DEF Current
<1>5. CASE EnableMachineIDDecoration(t)
  <2>1. u = [t EXCEPT !.step = IF machine.enabled THEN "id" ELSE "write"] /\ t.step = "decorate"
    BY <1>2, <1>5 DEF EnableMachineIDDecoration
  <2>2. u.type = t.type /\ u.due = t.due /\ u.decision = t.decision /\ u.file = t.file
    BY <1>1, <2>1 DEF Tasks
  <2> QED
    BY <2>1, <2>2 DEF Current
<1>6. CASE MachineID(t)
  <2>1. u = [t EXCEPT !.step = "write", !.id = machine.id] /\ t.step = "id"
    BY <1>2, <1>6 DEF MachineID
  <2>2. u.type = t.type /\ u.due = t.due /\ u.decision = t.decision /\ u.file = t.file
    BY <1>1, <2>1 DEF Tasks
  <2> QED
    BY <2>1, <2>2 DEF Current
<1>7. ~Write(t)
  BY <1>1 DEF Write
<1> QED
  BY <1>3, <1>4, <1>5, <1>6, <1>7 DEF Block

(* An event is owed no more than what was decided when it arrived.          *)
LEMMA HandlerOwed ==
  ASSUME Types, handler.step # "idle" => Due(handler), [Next]_vars
  PROVE  handler'.step # "idle" => Due(handler)'
<1>0. \A f \in Programs : made[f] <= made'[f]
  BY MadeOnlyGrows
<1>1. ASSUME UNCHANGED handler PROVE handler'.step # "idle" => Due(handler)'
  <2>1. handler.step # "idle" => handler.due \in Nat
    BY DEF Types, MessageType, Events
  <2>2. \A f \in Programs : made[f] \in Nat /\ made'[f] \in Nat
    BY DecisionTypeStep DEF Types, DecisionType
  <2> QED
    BY <1>0, <1>1, <2>1, <2>2 DEF Due
<1>2. ASSUME NEW type \in EventTypes, Receive(type) PROVE Due(handler)'
  <2>1. PICK f \in About(type) : handler'.file = f /\ handler'.due = IF f \in Programs THEN made[f] ELSE 0
    <3>1. PICK f \in About(type), special \in BOOLEAN :
             handler' = [step |-> "filter", type |-> type, file |-> f, special |-> special,
                         n |-> received'["LAST"], due |-> IF f \in Programs THEN made[f] ELSE 0]
      BY <1>2 DEF Receive
    <3> QED
      BY <3>1
  <2>2. UNCHANGED made /\ \A g \in Programs : made[g] \in Nat
    BY <1>2 DEF Receive, Types, DecisionType
  <2> QED
    BY <2>1, <2>2 DEF Due
<1>3. CASE Filter
  <2>1. handler \in Events /\ UNCHANGED made
    BY <1>3 DEF Filter, Types, MessageType
  <2>2. \/ handler' = [step |-> "idle"]
        \/ handler' = [handler EXCEPT !.step = "enrich"]
    BY <1>3 DEF Filter, Return
  <2>3. handler'.step # "idle" => handler'.due = handler.due /\ handler'.file = handler.file
    BY <2>1, <2>2 DEF Events
  <2> QED
    BY <2>1, <2>3 DEF Due, Events
<1>4. CASE IgnoreMessage \/ Enrich
  BY <1>4 DEF IgnoreMessage, Enrich, Return
<1>5. ASSUME NEW t \in tasks, Block(t) PROVE UNCHANGED handler
  BY <1>5, BlockSteps
<1>6. ASSUME \/ \E type \in EventTypes : LoseEvent(type)
             \/ FlushMetrics \/ Others \/ \E id \in IDs : ChangeMachineID(id)
      PROVE  UNCHANGED handler
  BY <1>6, OthersOutside DEF LoseEvent, FlushMetrics, ChangeMachineID
<1> QED
  BY <1>1, <1>2, <1>3, <1>4, <1>5, <1>6, Steps

LEMMA DecisionsKeep == ASSUME Types, Types', DecisionInv, [Next]_vars PROVE DecisionInv'
<1>1. CachedIsMade /\ (handler.step # "idle" => Due(handler)) /\ \A t \in tasks : Due(t) /\ Current(t)
  BY DEF DecisionInv, DecisionCurrent, CachedIsMade, Due, Current
<1>2. CachedIsMade' /\ (handler'.step # "idle" => Due(handler)')
  BY <1>1, CachedKeeps, HandlerOwed
<1>3. ASSUME NEW t \in tasks, NEW u, SameMessage(t, u) PROVE Due(u)
  BY <1>1, <1>3 DEF SameMessage, Due
<1>4. Enrich => Due(Queued(handler.n)) /\ Current(Queued(handler.n)) /\ Queued(handler.n) \in Tasks
  BY <1>1, QueuedIsTask DEF Enrich, Queued, Due, Current
<1>5. ASSUME NEW u \in tasks' PROVE Due(u) /\ Current(u)
  <2>1. ASSUME NEW id \in IDs, ChangeMachineID(id) PROVE Due(u) /\ Current(u)
    <3>1. tasks' = {Relabelled(t, id) : t \in tasks}
      BY <2>1, RelabelKeeps
    <3>2. PICK t \in tasks : u = Relabelled(t, id)
      BY <3>1
    <3>3. SameMessage(t, u) /\ u.step = t.step /\ u.decision = t.decision
      BY <2>1, <3>2, RelabelKeeps
    <3> QED
      BY <1>1, <1>3, <3>3 DEF Current, SameMessage
  <2>2. ASSUME NEW t \in tasks, Block(t), Advance(t, u), u \notin tasks PROVE Due(u) /\ Current(u)
    BY <1>1, <1>3, <2>2, OnSameMessage, BlockStaysCurrent
  <2> QED
    BY <1>1, <1>4, <2>1, <2>2, NewTasks
<1>7. ASSUME NEW u \in tasks' PROVE Current(u)'
  BY <1>5, ClearedOnlyGrows DEF Current
<1>6. ASSUME NEW u \in tasks' PROVE Due(u)'
  <2>1. u \in Tasks
    BY DEF Types, MessageType
  <2>2. \A f \in Programs : made[f] \in Nat /\ made'[f] \in Nat
    BY DecisionTypeStep DEF Types, DecisionType
  <2> QED
    BY <1>5, <2>1, <2>2, MadeOnlyGrows DEF Due, Tasks
<1> QED
  BY <1>2, <1>6, <1>7 DEF DecisionInv, DecisionCurrent, CachedIsMade, Due, Current

LEMMA RecordInit == Init => RecordInv
<1> SUFFICES ASSUME Init PROVE RecordInv
  OBVIOUS
<1>1. tasks = {} /\ handler = [step |-> "idle"] /\ names = [k \in Kinds |-> None] /\ directory = names
  BY DEF Init, Kinds
<1>2. machine = [wanted |-> None, previous |-> None, updating |-> FALSE, enabled |-> FALSE, id |-> ""]
  BY DEF Init
<1>3. made = [f \in Programs |-> 0]
  BY DEF Init
<1>4. NamesInv
  BY <1>1 DEF NamesInv, NamesJustified
<1>5. FlagInv
  BY <1>2 DEF FlagInv
<1>6. DecorationInv
  BY <1>1 DEF DecorationInv
<1>7. DecisionInv
  BY <1>1, <1>3 DEF DecisionInv, DecisionCurrent
<1> QED
  BY <1>4, <1>5, <1>6, <1>7 DEF RecordInv

(* What a record says was true while it was made, although names, machine   *)
(* ID and decision come from three caches that others write meanwhile; a    *)
(* decision may be missing only after the full cache was cleared            *)
(* (Enricher.mm, Serializer.mm, SNTDecisionCache.mm).                       *)
THEOREM RecordsAlwaysJustified == Spec => []RecordsJustified
<1>1. Init => Holding /\ RecordInv
  BY HoldingInit, RecordInit
<1>2. Holding /\ RecordInv /\ [Next]_vars => Holding' /\ RecordInv'
  <2> SUFFICES ASSUME Holding, RecordInv, [Next]_vars PROVE Holding' /\ RecordInv'
    OBVIOUS
  <2>1. Holding' /\ Types /\ Types'
    BY HoldingStep DEF Holding
  <2> QED
    BY <2>1, NamesKeep, FlagKeeps, DecorationKeeps, DecisionsKeep DEF RecordInv
<1>3. Holding /\ RecordInv => RecordsJustified
  BY DEF RecordInv, NamesInv, DecorationInv, DecisionInv, RecordsJustified, DecorationInForce
<1> QED
  BY <1>1, <1>2, <1>3, PTL DEF Spec
=============================================================================
