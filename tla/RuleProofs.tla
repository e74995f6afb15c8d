----------------------------- MODULE RuleProofs -----------------------------
(***************************************************************************)
(* Proofs about what santad keeps in the rule database.                    *)
(*                                                                         *)
(* Execution rules (RuleTable), for every set of binaries, rules and       *)
(* clients: the cached hash is current, and what the decision caches allow *)
(* is justified.  File access rules (WatchItems), for every set of         *)
(* dictionaries and clients: the database wins over the other sources, and *)
(* once all is quiet the clients watch what the rules say.                 *)
(***************************************************************************)
EXTENDS RuleTable, WatchItems, TLAPS, WellFoundedInduction

(* The hash that is cached is the hash of what is in the database: every    *)
(* transaction that writes rules forgets it, and the only writer that does  *)
(* not, the culling of outdated rules, touches transitive rules only, which *)
(* the hash leaves out.  For that the outdated rules have to be transitive. *)
HashInv ==
  /\ db = [k \in Keys |-> db[k]]
  /\ \A k \in old : k \in Keys /\ db[k] = "transitive"
  /\ HashCurrent

(* Initially nothing is hashed and nothing is outdated (SNTRuleTable.mm).   *)
LEMMA HashInvInit == Init => HashInv
BY DEF Init, HashInv, HashCurrent, NoRules

(* Culling does not change what is hashed (removeOutdatedTransitiveRules).  *)
LEMMA CullingKeepsHash ==
  ASSUME HashInv, NEW a \in Adders, RemoveOutdated(a)
  PROVE  HashInv'
<1>1. db' = [k \in Keys |-> IF k \in old THEN "none" ELSE db[k]] /\ hash' = hash /\ old' = {}
  BY DEF RemoveOutdated
<1>2. HashInput(db)' = HashInput(db)
  <2>1. \A k \in Keys : (IF db'[k] = "transitive" THEN "none" ELSE db'[k])
                          = (IF db[k] = "transitive" THEN "none" ELSE db[k])
    BY <1>1 DEF HashInv
  <2> QED
    BY <2>1 DEF HashInput
<1>3. db' = [k \in Keys |-> db'[k]]
  BY <1>1
<1> QED
  BY <1>1, <1>2, <1>3 DEF HashInv, HashCurrent

(* A transaction that writes one slot and forgets the hash, as the rules of *)
(* compilers and of standalone mode do, keeps the invariant.                *)
LEMMA WritingForgetsHash ==
  ASSUME HashInv, NEW key, NEW s, hash' = <<>>,
         db' = [db EXCEPT ![key] = s], old' = old \ {key}
  PROVE  HashInv'
<1>1. db' = [k \in Keys |-> db'[k]]
  BY DEF HashInv
<1>2. \A k \in old' : k \in Keys /\ db'[k] = "transitive"
  BY DEF HashInv
<1> QED
  BY <1>1, <1>2 DEF HashInv, HashCurrent

(* Every step of every actor keeps HashInv.                                 *)
LEMMA HashInvStep == HashInv /\ [Next]_vars => HashInv'
<1> SUFFICES ASSUME HashInv, [Next]_vars PROVE HashInv'
  OBVIOUS
<1>1. CASE UNCHANGED <<db, old, hash>>
  BY <1>1 DEF HashInv, HashCurrent, HashInput
<1>2. CASE RulesHash
  BY <1>2 DEF RulesHash, HashInv, HashCurrent, HashInput
<1>3. ASSUME NEW a \in Adders, AddRules(a) PROVE HashInv'
  <2>1. hash' = <<>> /\ old' = {b \in old : db'[b] = "transitive"}
    BY <1>3 DEF AddRules
  <2>2. db' = [k \in Keys |-> db'[k]]
    BY <1>3 DEF AddRules, ApplyAll
  <2> QED
    BY <2>1, <2>2 DEF HashInv, HashCurrent
<1>4. ASSUME NEW a \in Adders, RemoveOutdated(a) PROVE HashInv'
  BY <1>4, CullingKeepsHash
<1>5. ASSUME NEW a \in Adders, Adder(a) PROVE HashInv'
  <2>1. CASE \E batch \in Batches, cleanup \in Cleanups, faa \in BOOLEAN : CheckFlush(a, batch, cleanup, faa)
    BY <2>1, <1>1 DEF CheckFlush
  <2>2. CASE RollBack(a) \/ SkipCulling(a) \/ FlushCache(a)
    BY <2>2, <1>1 DEF RollBack, SkipCulling, FlushCache
  <2> QED
    BY <1>5, <2>1, <2>2, <1>3, <1>4 DEF Adder
<1>6. ASSUME NEW b \in Binaries, ExecuteCached(b) \/ Execute(b) PROVE HashInv'
  <2>1. UNCHANGED <<db, hash>> /\ old' \subseteq old
    BY <1>6 DEF ExecuteCached, Execute, Renew
  <2> QED
    BY <2>1 DEF HashInv, HashCurrent, HashInput
<1>7. ASSUME NEW b \in Binaries, Outdate(b) PROVE HashInv'
  BY <1>7 DEF Outdate, HashInv, HashCurrent, HashInput, Keys
<1>8. ASSUME NEW b \in Binaries, ApproveStandalone(b) PROVE HashInv'
  BY <1>8, WritingForgetsHash DEF ApproveStandalone
<1>9. ASSUME NEW c \in Closers, Closer(c) PROVE HashInv'
  <2>1. CASE \E b \in Binaries, close \in BOOLEAN : SaveFakeDecision(c, b, close)
    BY <2>1, <1>1 DEF SaveFakeDecision
  <2>2. CASE NotExecutable(c) \/ LookupPrevious(c) \/ AddTransitiveFails(c) \/ RemoveFakeDecision(c)
    BY <2>2, <1>1 DEF NotExecutable, LookupPrevious, AddTransitiveFails, RemoveFakeDecision
  <2>3. CASE AddTransitive(c)
    BY <2>3, WritingForgetsHash DEF AddTransitive
  <2> QED
    BY <1>9, <2>1, <2>2, <2>3 DEF Closer
<1>10. CASE (\E rules \in StaticRuleSets : UpdateStaticRules(rules)) \/ FlushForStaticRules
  BY <1>10, <1>1 DEF UpdateStaticRules, FlushForStaticRules
<1>11. ASSUME NEW b \in Binaries, Refuse(b) PROVE HashInv'
  BY <1>11, <1>1 DEF Refuse
<1>12. CASE UNCHANGED vars
  BY <1>12, <1>1 DEF vars
<1> QED
  BY <1>2, <1>5, <1>6, <1>7, <1>8, <1>9, <1>10, <1>11, <1>12 DEF Next

(* The hash that the sync service sends to the server always describes the  *)
(* rules in the database (executionRulesHashSerialized), for every number   *)
(* of clients, compilers and executions and every order of their steps.     *)
THEOREM HashAlwaysCurrent == Spec => []HashCurrent
<1>1. Init => HashInv
  BY HashInvInit
<1>2. HashInv /\ [Next]_vars => HashInv'
  BY HashInvStep
<1>3. HashInv => HashCurrent
  BY DEF HashInv
<1> QED
  BY <1>1, <1>2, <1>3, PTL DEF Spec

-----------------------------------------------------------------------------
(* First and last places.                                                   *)
LEMMA LeastExists ==
  ASSUME NEW T \in SUBSET Nat, T # {}
  PROVE  \E x \in T : \A y \in T : x <= y
<1>1. \E x \in T : \A y \in T : ~(<<y, x>> \in OpToRel(<, Nat))
  BY NatLessThanWellFounded, WFMin, Zenon
<1>2. \A x, y \in T : ~(<<y, x>> \in OpToRel(<, Nat)) => x <= y
  BY DEF OpToRel
<1> QED
  BY <1>1, <1>2

LEMMA GreatestExists ==
  ASSUME NEW n \in Nat, NEW T \in SUBSET (1..n), T # {}
  PROVE  \E x \in T : \A y \in T : y <= x
<1> DEFINE U == {n - i : i \in T}
<1>1. U \in SUBSET Nat /\ U # {}
  <2>1. \A i \in T : n - i \in Nat /\ n - i \in U
    OBVIOUS
  <2> QED
    BY <2>1
<1>2. PICK u \in U : \A v \in U : u <= v
  BY <1>1, LeastExists
<1>3. PICK x \in T : u = n - x
  BY <1>2
<1>4. \A y \in T : n - x <= n - y
  BY <1>2, <1>3
<1>5. \A y \in T : n - x <= n - y => y <= x
  OBVIOUS
<1> QED
  BY <1>4, <1>5

(* Where the first rule is.                                                 *)
LEMMA FirstRuleIs ==
  ASSUME NEW ids \in Seq(Keys), NEW rules, Ruled(rules, ids) # {}
  PROVE  \E i \in Ruled(rules, ids) :
           /\ \A j \in Ruled(rules, ids) : i <= j
           /\ FirstRule(rules, ids) = rules[ids[i]]
<1> DEFINE T == Ruled(rules, ids)
           Leads(i) == \A j \in T : i <= j
<1>1. T \in SUBSET Nat /\ T # {}
  BY DEF Ruled
<1>2. \E i \in T : Leads(i)
  BY <1>1, LeastExists
<1>3. FirstRule(rules, ids) = rules[ids[CHOOSE i \in T : Leads(i)]]
  BY DEF FirstRule
<1> HIDE DEF T, Leads
<1>4. (CHOOSE i \in T : Leads(i)) \in T /\ Leads(CHOOSE i \in T : Leads(i))
  BY <1>2
<1> QED
  BY <1>3, <1>4 DEF T, Leads

(* Rules that are written leave a lookup as it was or are its result: a     *)
(* rule of higher precedence is found first (executionRuleForIdentifiers:). *)
LEMMA WritingChangesLookup ==
  ASSUME NEW ids \in Seq(Keys), NEW Written, "none" \notin Written, static' = static,
         \A k \in Keys : db'[k] = db[k] \/ db'[k] \in Written
  PROVE  Lookup(ids)' = Lookup(ids) \/ Lookup(ids)' \in Written
<1>1. CASE Ruled(static, ids) # {}
  BY <1>1 DEF Lookup, FirstRule, Ruled
<1>2. CASE Ruled(static, ids) = {}
  <2>1. Ruled(static', ids) = {}
    BY <1>2 DEF Ruled
  <2>2. \A i \in DOMAIN ids : ids[i] \in Keys /\ i \in Nat
    OBVIOUS
  <2>3. Ruled(db, ids) \subseteq Ruled(db', ids)
    BY <2>2 DEF Ruled
  <2>4. CASE Ruled(db', ids) = {}
    BY <1>2, <2>1, <2>3, <2>4 DEF Lookup
  <2>5. CASE Ruled(db', ids) # {}
    <3>1. PICK i \in Ruled(db', ids) : /\ \A j \in Ruled(db', ids) : i <= j
                                       /\ FirstRule(db', ids) = db'[ids[i]]
      BY <2>5, FirstRuleIs
    <3>2. Lookup(ids)' = db'[ids[i]] /\ i \in DOMAIN ids
      BY <2>1, <2>5, <3>1 DEF Lookup, Ruled
    <3>3. CASE db'[ids[i]] = db[ids[i]]
      <4>1. i \in Ruled(db, ids)
        BY <3>1, <3>3 DEF Ruled
      <4>2. PICK j \in Ruled(db, ids) : /\ \A k \in Ruled(db, ids) : j <= k
                                        /\ FirstRule(db, ids) = db[ids[j]]
        BY <4>1, FirstRuleIs
      <4>3. i <= j /\ j <= i
        BY <2>3, <3>1, <4>1, <4>2
      <4>4. i \in Nat /\ j \in Nat
        BY <2>2, <4>1, <4>2 DEF Ruled
      <4>5. i = j
        BY <4>3, <4>4
      <4>6. Lookup(ids) = db[ids[j]]
        BY <1>2, <4>1, <4>2 DEF Lookup
      <4> QED
        BY <3>2, <3>3, <4>5, <4>6
    <3> QED
      BY <2>2, <3>2, <3>3
  <2> QED
    BY <2>4, <2>5
<1> QED
  BY <1>1, <1>2

(* What does not touch the slots of an executable does not touch its rule.  *)
LEMMA OtherSlotsKeepLookup ==
  ASSUME NEW ids \in Seq(Keys), static' = static, \A i \in DOMAIN ids : db'[ids[i]] = db[ids[i]]
  PROVE  Lookup(ids)' = Lookup(ids)
<1>1. Ruled(db', ids) = Ruled(db, ids) /\ Ruled(static', ids) = Ruled(static, ids)
  BY DEF Ruled
<1>2. ASSUME Ruled(db, ids) # {} PROVE FirstRule(db', ids) = FirstRule(db, ids)
  <2>1. PICK i \in Ruled(db, ids) : /\ \A k \in Ruled(db, ids) : i <= k
                                    /\ FirstRule(db, ids) = db[ids[i]]
    BY <1>2, FirstRuleIs
  <2>2. PICK j \in Ruled(db, ids) : /\ \A k \in Ruled(db, ids) : j <= k
                                    /\ FirstRule(db', ids) = db'[ids[j]]
    BY <1>1, <1>2, FirstRuleIs
  <2>3. i <= j /\ j <= i /\ i \in DOMAIN ids /\ j \in DOMAIN ids /\ i \in Nat /\ j \in Nat
    BY <2>1, <2>2 DEF Ruled
  <2>4. i = j
    BY <2>3
  <2> QED
    BY <2>1, <2>2, <2>3, <2>4
<1> QED
  BY <1>1, <1>2 DEF Lookup, FirstRule

-----------------------------------------------------------------------------
(* Why no stale allow stays in the cache.  A rule that denies reaches the   *)
(* database in a transaction whose adder has decided to flush, or in one    *)
(* that raced with another; what compilers and standalone users write only  *)
(* ever allows; and a culled rule is that of the executable it names alone. *)
AdderType == [pc : {"idle", "add", "cull", "flush"}, batch : Seq(RuleRecord),
              cleanup : CleanupTypes, flush : BOOLEAN]
AdderInv ==
  /\ adder \in [Adders -> AdderType]
  /\ \A a \in Adders : adder[a].pc = "add" /\ ~adder[a].flush => adder[a].cleanup = "None"
StoreType == db = [k \in Keys |-> db[k]] /\ cached = [b \in Binaries |-> cached[b]] /\ old \subseteq Binaries
FlushInv == StoreType /\ AdderInv /\ CachedAllowsJustified

(* Initially nothing is cached and no client adds rules.                    *)
LEMMA FlushInvInit == Init => FlushInv
<1> SUFFICES ASSUME Init PROVE FlushInv
  OBVIOUS
<1>1. StoreType
  BY DEF Init, StoreType, NoRules
<1>2. IdleAdder \in AdderType /\ IdleAdder.pc = "idle"
  BY DEF IdleAdder, AdderType, CleanupTypes
<1>3. AdderInv
  BY <1>2 DEF Init, AdderInv
<1>4. CachedAllowsJustified
  BY DEF Init, CachedAllowsJustified
<1> QED
  BY <1>1, <1>3, <1>4 DEF FlushInv

(* A flush under way stays so while the adder that owes it moves on.        *)
LEMMA OneAdderMoves ==
  ASSUME AdderInv, NEW a \in Adders, NEW r \in AdderType, adder' = [adder EXCEPT ![a] = r],
         r.pc = "add" /\ ~r.flush => r.cleanup = "None",
         adder[a].pc \in {"cull", "flush"} /\ adder[a].flush => r.pc \in {"cull", "flush"} /\ r.flush,
         staticFlush' = staticFlush
  PROVE  AdderInv' /\ (FlushPending => FlushPending') /\ (r.pc \in {"cull", "flush"} /\ r.flush => FlushPending')
<1>1. adder'[a] = r /\ \A b \in Adders \ {a} : adder'[b] = adder[b]
  BY DEF AdderInv
<1>2. AdderInv'
  BY <1>1 DEF AdderInv
<1>3. ASSUME NEW b \in Adders, adder[b].pc \in {"cull", "flush"}, adder[b].flush
      PROVE  adder'[b].pc \in {"cull", "flush"} /\ adder'[b].flush
  BY <1>1, <1>3
<1>4. FlushPending => FlushPending'
  BY <1>3 DEF FlushPending
<1>5. r.pc \in {"cull", "flush"} /\ r.flush => FlushPending'
  BY <1>1 DEF FlushPending
<1> QED
  BY <1>2, <1>4, <1>5

(* Steps that write no rule and cache nothing.                              *)
LEMMA NothingNewCached ==
  ASSUME FlushInv, UNCHANGED <<db, static, cached, culled, raced>>, AdderInv', old' \subseteq old,
         FlushPending => FlushPending'
  PROVE  FlushInv'
<1>1. \A b \in Binaries : Verdict(b)' = Verdict(b)
  BY DEF Verdict, Lookup
<1>2. CachedAllowsJustified'
  BY <1>1 DEF FlushInv, CachedAllowsJustified
<1> QED
  BY <1>2 DEF FlushInv, StoreType

(* Writing rules that allow denies nothing that is cached.                  *)
LEMMA AllowingKeepsJustified ==
  ASSUME FlushInv, UNCHANGED <<static, cached, culled>>, raced => raced', AdderInv', old' \subseteq old,
         FlushPending => FlushPending', db' = [k \in Keys |-> db'[k]],
         \A k \in Keys : db'[k] = db[k] \/ db'[k] \in {"allow", "local", "transitive"}
  PROVE  FlushInv'
<1>1. ASSUME NEW b \in Binaries, Verdict(b) # "deny" PROVE Verdict(b)' # "deny"
  <2>1. IdsOf[b] \in Seq(Keys) /\ "none" \notin {"allow", "local", "transitive"}
    BY RulesAssumption
  <2>2. Lookup(IdsOf[b])' = Lookup(IdsOf[b]) \/ Lookup(IdsOf[b])' \in {"allow", "local", "transitive"}
    BY <2>1, WritingChangesLookup
  <2> QED
    BY <1>1, <2>2 DEF Verdict
<1>2. CachedAllowsJustified'
  BY <1>1 DEF FlushInv, CachedAllowsJustified
<1> QED
  BY <1>2 DEF FlushInv, StoreType

(* A flush leaves nothing to justify (AuthResultCache::FlushCache).         *)
LEMMA EmptyCacheJustified ==
  ASSUME FlushInv, EmptyCache, AdderInv', UNCHANGED <<db, old>>
  PROVE  FlushInv'
<1>1. cached' = [b \in Binaries |-> "none"]
  BY DEF EmptyCache
<1> QED
  BY <1>1 DEF FlushInv, StoreType, CachedAllowsJustified

(* databaseRuleAddExecutionRules: whether to flush is settled first, and a  *)
(* cleanup always flushes.                                                  *)
LEMMA CheckKeepsFlush ==
  ASSUME FlushInv, NEW a \in Adders, NEW batch \in Batches, NEW cleanup \in Cleanups,
         NEW faa \in BOOLEAN, CheckFlush(a, batch, cleanup, faa)
  PROVE  FlushInv'
<1> DEFINE flush == cleanup # "None" \/ faa \/ ShouldFlush(batch)
           r == [pc |-> "add", batch |-> batch, cleanup |-> cleanup, flush |-> flush]
<1>1. adder' = [adder EXCEPT ![a] = r] /\ adder[a].pc = "idle"
  BY DEF CheckFlush
<1>2. UNCHANGED <<db, static, cached, culled, raced, old, staticFlush>>
  BY DEF CheckFlush
<1>3. flush \in BOOLEAN /\ (~flush => cleanup = "None")
  OBVIOUS
<1> HIDE DEF flush
<1>4. batch \in Seq(RuleRecord) /\ cleanup \in CleanupTypes
  BY RulesAssumption DEF RuleRecord
<1>5. r \in AdderType
  BY <1>3, <1>4 DEF AdderType
<1>6. r.pc = "add" /\ (~r.flush => r.cleanup = "None")
  BY <1>3
<1> HIDE DEF r
<1>7. AdderInv' /\ (FlushPending => FlushPending')
  BY <1>1, <1>2, <1>5, <1>6, OneAdderMoves DEF FlushInv
<1> QED
  BY <1>2, <1>7, NothingNewCached

(* What an adder is after its transaction, and after the culling.           *)
LEMMA AfterTransaction ==
  ASSUME AdderInv, NEW a \in Adders, adder[a].pc = "add", Added(a), staticFlush' = staticFlush
  PROVE  AdderInv' /\ (FlushPending => FlushPending') /\ (adder[a].flush => FlushPending')
<1> DEFINE r == [pc |-> "cull", batch |-> <<>>, cleanup |-> "None", flush |-> adder[a].flush]
<1>1. adder' = [adder EXCEPT ![a] = r]
  BY DEF Added
<1>2. adder[a] \in AdderType
  BY DEF AdderInv
<1>3. adder[a].flush \in BOOLEAN
  BY <1>2 DEF AdderType
<1>4. r \in AdderType
  BY <1>3 DEF AdderType, CleanupTypes
<1>5. r.pc = "cull" /\ r.flush = adder[a].flush
  OBVIOUS
<1> HIDE DEF r
<1> QED
  BY <1>1, <1>4, <1>5, OneAdderMoves

LEMMA AfterCulling ==
  ASSUME AdderInv, NEW a \in Adders, adder[a].pc = "cull", NextPc(a), staticFlush' = staticFlush
  PROVE  AdderInv' /\ (FlushPending => FlushPending')
<1> DEFINE r == IF adder[a].flush THEN [adder[a] EXCEPT !.pc = "flush"] ELSE IdleAdder
<1>1. adder' = [adder EXCEPT ![a] = r]
  BY DEF NextPc
<1>2. adder[a] \in AdderType
  BY DEF AdderInv
<1>3. [adder[a] EXCEPT !.pc = "flush"] \in AdderType
  BY <1>2 DEF AdderType
<1>4. [adder[a] EXCEPT !.pc = "flush"].pc = "flush" /\ [adder[a] EXCEPT !.pc = "flush"].flush = adder[a].flush
  BY <1>2 DEF AdderType
<1>5. IdleAdder \in AdderType /\ IdleAdder.pc = "idle"
  BY DEF IdleAdder, AdderType, CleanupTypes
<1>6. r \in AdderType /\ r.pc # "add" /\ (adder[a].flush => r.pc = "flush" /\ r.flush)
  BY <1>3, <1>4, <1>5
<1> HIDE DEF r
<1> QED
  BY <1>1, <1>6, OneAdderMoves

(* The transaction, when nobody will flush: the check that has just been    *)
(* made again says that every rule allows or stands in the database already *)
(* (addedRulesShouldFlushDecisionCache:).                                   *)
LEMMA SlotAfterAllows ==
  ASSUME NEW batch \in Seq(RuleRecord), ~ShouldFlush(batch), NEW k \in Keys
  PROVE  SlotAfter(db, batch, k) = db[k] \/ SlotAfter(db, batch, k) = "allow"
<1> DEFINE Written == {i \in DOMAIN batch : batch[i].key = k /\ batch[i].state # "badcel"}
           Ends(i) == \A j \in Written : j <= i
           last == CHOOSE i \in Written : Ends(i)
<1>1. SlotAfter(db, batch, k) = IF Written = {} THEN db[k]
                                ELSE IF batch[last].state = "remove" THEN "none" ELSE batch[last].state
  BY DEF SlotAfter
<1>2. \A i \in DOMAIN batch : batch[i].state = "allow" \/ (batch[i].state # "remove" /\ db[batch[i].key] = batch[i].state)
  BY DEF ShouldFlush
<1>3. CASE Written = {}
  BY <1>1, <1>3
<1>4. CASE Written # {}
  <2>1. Len(batch) \in Nat /\ Written \in SUBSET (1..Len(batch))
    OBVIOUS
  <2>2. \E i \in Written : Ends(i)
    BY <1>4, <2>1, GreatestExists
  <2> HIDE DEF Ends
  <2>3. last \in Written
    BY <2>2
  <2>4. last \in DOMAIN batch /\ batch[last].key = k
    BY <2>3
  <2> QED
    BY <1>1, <1>2, <1>4, <2>4
<1> QED
  BY <1>3, <1>4

LEMMA AddKeepsFlush == ASSUME FlushInv, NEW a \in Adders, AddRules(a) PROVE FlushInv'
<1> DEFINE batch == adder[a].batch
           cleanup == adder[a].cleanup
<1>1. /\ adder[a].pc = "add" /\ Added(a)
      /\ db' = ApplyAll(CleanUp(db, cleanup), batch)
      /\ raced' = (raced \/ (~adder[a].flush /\ ShouldFlush(batch)))
      /\ UNCHANGED <<static, cached, culled, staticFlush>> /\ old' \subseteq old
  BY DEF AddRules
<1>2. AdderInv' /\ (FlushPending => FlushPending') /\ (adder[a].flush => FlushPending')
  BY <1>1, AfterTransaction DEF FlushInv
<1>3. db' = [k \in Keys |-> SlotAfter(CleanUp(db, cleanup), batch, k)]
  BY <1>1 DEF ApplyAll
<1>4. db' = [k \in Keys |-> db'[k]]
  BY <1>3
<1>5. StoreType'
  BY <1>1, <1>4 DEF FlushInv, StoreType
<1>6. CASE adder[a].flush \/ raced'
  BY <1>2, <1>5, <1>6 DEF FlushInv, CachedAllowsJustified
<1>7. CASE ~adder[a].flush /\ ~raced'
  <2>1. adder[a] \in AdderType /\ cleanup = "None"
    BY <1>1, <1>7 DEF FlushInv, AdderInv
  <2>2. batch \in Seq(RuleRecord) /\ ~ShouldFlush(batch)
    BY <1>1, <1>7, <2>1 DEF AdderType
  <2>3. CleanUp(db, cleanup) = db
    BY <2>1 DEF CleanUp
  <2> HIDE DEF batch
  <2>4. \A k \in Keys : db'[k] = db[k] \/ db'[k] = "allow"
    BY <1>3, <2>2, <2>3, SlotAfterAllows
  <2> QED
    BY <1>1, <1>2, <1>4, <2>4, AllowingKeepsJustified
<1> QED
  BY <1>6, <1>7

(* Culling: a rule that goes is that of the executable it names, and the    *)
(* model remembers whether that was cached (removeOutdatedTransitiveRules). *)
LEMMA CullingKeepsFlush == ASSUME FlushInv, NEW a \in Adders, RemoveOutdated(a) PROVE FlushInv'
<1>1. /\ adder[a].pc = "cull" /\ NextPc(a)
      /\ db' = [k \in Keys |-> IF k \in old THEN "none" ELSE db[k]]
      /\ culled' = culled \union {b \in old : cached[b] # "none"} /\ old' = {}
      /\ UNCHANGED <<static, cached, raced, staticFlush>>
  BY DEF RemoveOutdated
<1>2. AdderInv' /\ (FlushPending => FlushPending')
  BY <1>1, AfterCulling DEF FlushInv
<1>3. StoreType'
  BY <1>1 DEF FlushInv, StoreType
<1>4. ASSUME NEW b \in Binaries, b \notin old PROVE Verdict(b)' = Verdict(b)
  <2>1. IdsOf[b] \in Seq(Keys) /\ \A i \in DOMAIN IdsOf[b] : IdsOf[b][i] \in Binaries => IdsOf[b][i] = b
    BY RulesAssumption
  <2>2. old \subseteq Binaries
    BY DEF FlushInv, StoreType
  <2>3. \A i \in DOMAIN IdsOf[b] : IdsOf[b][i] \in Keys /\ IdsOf[b][i] \notin old
    BY <1>4, <2>1, <2>2
  <2>4. \A i \in DOMAIN IdsOf[b] : db'[IdsOf[b][i]] = db[IdsOf[b][i]]
    BY <1>1, <2>3
  <2>5. Lookup(IdsOf[b])' = Lookup(IdsOf[b])
    BY <1>1, <2>1, <2>4, OtherSlotsKeepLookup
  <2> QED
    BY <2>5 DEF Verdict
<1>5. CachedAllowsJustified'
  <2> SUFFICES ASSUME NEW b \in Binaries, cached'[b] # "none"
               PROVE  Verdict(b)' # "deny" \/ FlushPending' \/ b \in culled' \/ raced'
    BY DEF CachedAllowsJustified
  <2>1. cached[b] # "none"
    BY <1>1
  <2>2. Verdict(b) # "deny" \/ FlushPending \/ b \in culled \/ raced
    BY <2>1 DEF FlushInv, CachedAllowsJustified
  <2>3. CASE b \in old
    BY <1>1, <2>1, <2>3
  <2>4. CASE b \notin old
    BY <1>1, <1>2, <1>4, <2>2, <2>4
  <2> QED
    BY <2>3, <2>4
<1> QED
  BY <1>2, <1>3, <1>5 DEF FlushInv

LEMMA AdderKeepsFlush == ASSUME FlushInv, NEW a \in Adders, Adder(a) PROVE FlushInv'
<1>1. CASE RollBack(a)
  <2>1. adder[a].pc = "add" /\ Added(a) /\ UNCHANGED <<db, static, cached, culled, raced, old, staticFlush>>
    BY <1>1 DEF RollBack
  <2>2. AdderInv' /\ (FlushPending => FlushPending')
    BY <2>1, AfterTransaction DEF FlushInv
  <2> QED
    BY <2>1, <2>2, NothingNewCached
<1>2. CASE SkipCulling(a)
  <2>1. adder[a].pc = "cull" /\ NextPc(a) /\ UNCHANGED <<db, static, cached, culled, raced, old, staticFlush>>
    BY <1>2 DEF SkipCulling
  <2>2. AdderInv' /\ (FlushPending => FlushPending')
    BY <2>1, AfterCulling DEF FlushInv
  <2> QED
    BY <2>1, <2>2, NothingNewCached
<1>3. CASE FlushCache(a)
  <2>1. EmptyCache /\ adder' = [adder EXCEPT ![a] = IdleAdder] /\ UNCHANGED <<db, old>>
    BY <1>3 DEF FlushCache
  <2>2. IdleAdder \in AdderType /\ IdleAdder.pc = "idle"
    BY DEF IdleAdder, AdderType, CleanupTypes
  <2>3. AdderInv'
    BY <2>1, <2>2 DEF FlushInv, AdderInv
  <2> QED
    BY <2>1, <2>3, EmptyCacheJustified
<1> QED
  BY <1>1, <1>2, <1>3, CheckKeepsFlush, AddKeepsFlush, CullingKeepsFlush DEF Adder

(* An execution caches what the rules say now (validateExecEvent:).         *)
LEMMA ExecuteKeepsFlush == ASSUME FlushInv, NEW b \in Binaries, Execute(b) PROVE FlushInv'
<1> DEFINE v == Verdict(b)
<1>1. /\ cached' = [cached EXCEPT ![b] = IF v # "deny" THEN v ELSE "none"]
      /\ culled' = culled \ {b} /\ UNCHANGED <<db, static, adder, staticFlush, raced>> /\ old' \subseteq old
  BY DEF Execute, Renew
<1>2. \A c \in Binaries : Verdict(c)' = Verdict(c)
  BY <1>1 DEF Verdict, Lookup
<1>3. FlushPending' = FlushPending
  BY <1>1 DEF FlushPending
<1>4. StoreType' /\ AdderInv'
  BY <1>1 DEF FlushInv, StoreType, AdderInv
<1>5. cached = [c \in Binaries |-> cached[c]]
  BY DEF FlushInv, StoreType
<1> HIDE DEF v
<1>6. cached'[b] = (IF v # "deny" THEN v ELSE "none") /\ \A c \in Binaries \ {b} : cached'[c] = cached[c]
  BY <1>1, <1>5
<1>7. CachedAllowsJustified'
  <2> SUFFICES ASSUME NEW c \in Binaries, cached'[c] # "none"
               PROVE  Verdict(c)' # "deny" \/ FlushPending' \/ c \in culled' \/ raced'
    BY DEF CachedAllowsJustified
  <2>1. CASE c = b
    BY <1>2, <1>6, <2>1 DEF v
  <2>2. CASE c # b
    BY <1>1, <1>2, <1>3, <1>6, <2>2 DEF FlushInv, CachedAllowsJustified
  <2> QED
    BY <2>1, <2>2
<1> QED
  BY <1>4, <1>7 DEF FlushInv

(* A file that is closed leaves the cache (SNTCompilerController.mm).       *)
LEMMA ClosingKeepsFlush ==
  ASSUME FlushInv, NEW c \in Closers, NEW b \in Binaries, NEW close \in BOOLEAN, SaveFakeDecision(c, b, close)
  PROVE  FlushInv'
<1>1. /\ cached' = IF close THEN [cached EXCEPT ![b] = "none"] ELSE cached
      /\ culled' = IF close THEN culled \ {b} ELSE culled
      /\ UNCHANGED <<db, static, old, adder, staticFlush, raced>>
  BY DEF SaveFakeDecision
<1>2. \A d \in Binaries : Verdict(d)' = Verdict(d)
  BY <1>1 DEF Verdict, Lookup
<1>3. FlushPending' = FlushPending
  BY <1>1 DEF FlushPending
<1>4. StoreType' /\ AdderInv'
  BY <1>1 DEF FlushInv, StoreType, AdderInv
<1>5. \A d \in Binaries : cached'[d] # "none" => cached[d] # "none" /\ (d \in culled => d \in culled')
  BY <1>1 DEF FlushInv, StoreType
<1>6. CachedAllowsJustified'
  BY <1>1, <1>2, <1>3, <1>5 DEF FlushInv, CachedAllowsJustified
<1> QED
  BY <1>4, <1>6 DEF FlushInv

(* The rules of compilers and of standalone users only ever allow.          *)
LEMMA WritingOneKeepsFlush ==
  ASSUME FlushInv, NEW key, NEW s \in {"allow", "local", "transitive"},
         db' = [db EXCEPT ![key] = s], old' \subseteq old,
         UNCHANGED <<static, cached, culled, raced, adder, staticFlush>>
  PROVE  FlushInv'
<1>1. db = [k \in Keys |-> db[k]]
  BY DEF FlushInv, StoreType
<1>2. db' = [k \in Keys |-> db'[k]] /\ \A k \in Keys : db'[k] = db[k] \/ db'[k] = s
  BY <1>1
<1>3. AdderInv' /\ (FlushPending => FlushPending')
  BY DEF FlushInv, AdderInv, FlushPending
<1> QED
  BY <1>2, <1>3, AllowingKeepsJustified

(* Every step of every actor keeps FlushInv.                                *)
LEMMA FlushInvStep == FlushInv /\ [Next]_vars => FlushInv'
<1> SUFFICES ASSUME FlushInv, [Next]_vars PROVE FlushInv'
  OBVIOUS
<1>1. CASE UNCHANGED <<db, static, cached, culled, raced, adder, staticFlush>> /\ old' \subseteq old
  <2>1. AdderInv' /\ (FlushPending => FlushPending')
    BY <1>1 DEF FlushInv, AdderInv, FlushPending
  <2> QED
    BY <1>1, <2>1, NothingNewCached
<1>2. CASE RulesHash \/ \E b \in Binaries : ExecuteCached(b) \/ Refuse(b)
  BY <1>1, <1>2 DEF RulesHash, ExecuteCached, Refuse, Renew
<1>3. ASSUME NEW b \in Binaries, Outdate(b) PROVE FlushInv'
  <2>1. old' \subseteq Binaries /\ UNCHANGED <<db, static, cached, culled, raced, adder, staticFlush>>
    BY <1>3 DEF Outdate, FlushInv, StoreType
  <2>2. \A c \in Binaries : Verdict(c)' = Verdict(c)
    BY <2>1 DEF Verdict, Lookup
  <2>3. CachedAllowsJustified'
    BY <2>1, <2>2 DEF FlushInv, CachedAllowsJustified, FlushPending
  <2> QED
    BY <2>1, <2>3 DEF FlushInv, StoreType, AdderInv
<1>4. CASE \E b \in Binaries : ApproveStandalone(b)
  BY <1>4, WritingOneKeepsFlush DEF ApproveStandalone
<1>5. ASSUME NEW rules \in StaticRuleSets, UpdateStaticRules(rules) PROVE FlushInv'
  <2>1. staticFlush' = TRUE /\ UNCHANGED <<db, cached, old, adder>>
    BY <1>5 DEF UpdateStaticRules
  <2> QED
    BY <2>1 DEF FlushInv, StoreType, AdderInv, CachedAllowsJustified, FlushPending
<1>6. CASE FlushForStaticRules
  <2>1. EmptyCache /\ UNCHANGED <<db, old, adder>>
    BY <1>6 DEF FlushForStaticRules
  <2>2. AdderInv'
    BY <2>1 DEF FlushInv, AdderInv
  <2> QED
    BY <2>1, <2>2, EmptyCacheJustified
<1>7. ASSUME NEW c \in Closers, Closer(c) PROVE FlushInv'
  <2>1. CASE NotExecutable(c) \/ LookupPrevious(c) \/ AddTransitiveFails(c) \/ RemoveFakeDecision(c)
    BY <1>1, <2>1 DEF NotExecutable, LookupPrevious, AddTransitiveFails, RemoveFakeDecision
  <2>2. CASE AddTransitive(c)
    BY <2>2, WritingOneKeepsFlush DEF AddTransitive
  <2> QED
    BY <1>7, <2>1, <2>2, ClosingKeepsFlush DEF Closer
<1>8. CASE UNCHANGED vars
  BY <1>1, <1>8 DEF vars
<1> QED
  BY <1>2, <1>3, <1>4, <1>5, <1>6, <1>7, <1>8, AdderKeepsFlush, ExecuteKeepsFlush DEF Next

(* An execution that the cache allows is one the rules still allow, unless  *)
(* a flush is under way, its rule was culled, or rules changed between an   *)
(* adder's check and its transaction (addedRulesShouldFlushDecisionCache:): *)
(* for any executables, rule arrays, clients and order of their steps.      *)
THEOREM CachedAllowsAlwaysJustified == Spec => []CachedAllowsJustified
<1>1. FlushInv => CachedAllowsJustified
  BY DEF FlushInv
<1> QED
  BY FlushInvInit, FlushInvStep, <1>1, PTL DEF Spec
-----------------------------------------------------------------------------
(***************************************************************************)
(* The file access watch items: which source is in force, and what the     *)
(* clients watch.                                                          *)
(***************************************************************************)

Setters == Threads \ {"timer"}
Wins == faaDb # Nil => source = "database" /\ embedded = faaDb

JobType == job \in [Threads -> [pc : Pcs, to : Targets, config : Configs \union {Nil}]]

Values ==
  /\ faaDb \in Configs \union {Nil} /\ policy \in Configs \union {Nil}
  /\ file \in Configs \union {Nil} /\ embedded \in Configs \union {Nil}

(* Without an overlap at most one of the threads that set a source is under *)
(* way.  Where it is tells what it still has to do for the database.        *)
OneAtATime == \A t, u \in Setters : job[t].pc # "idle" /\ job[u].pc # "idle" => t = u
Progress ==
  \A t \in Setters :
    /\ job[t].pc = "count" => t = "observer" /\ Wins
    /\ job[t].pc = "callback" => (job[t].to = "database" <=> faaDb # Nil) /\ t # "observer"
    /\ job[t].pc = "set" /\ faaDb # Nil => job[t].to = "database" /\ job[t].config = faaDb
    /\ job[t].pc \in {"read", "update"} => Wins
    /\ job[t].pc \in {"idle", "count", "callback", "set", "read", "update"}

TurnInv ==
  /\ JobType /\ Values
  /\ job["timer"].pc \in {"idle", "file", "update"}
  /\ OneAtATime /\ Progress /\ (Settled => Wins)

(* The sources are in order of precedence at startup (SantadDeps.mm).       *)
LEMMA TurnInvInit == ASSUME WatchInit PROVE TurnInv
<1>1. job = [t \in Threads |-> Idle] /\ JobType /\ Values
  BY ConfigsAssumption DEF WatchInit, Idle, JobType, Values, Pcs, Targets
<1>2. \A t \in Threads : job[t].pc = "idle"
  BY <1>1 DEF Idle
<1>3. Wins
  BY DEF WatchInit, Wins, Source
<1> QED
  BY <1>1, <1>2, <1>3 DEF TurnInv, OneAtATime, Progress, Setters, Threads

(* What a thread's own step does to the jobs.                               *)
LEMMA StepChangesOne ==
  ASSUME JobType, NEW t \in Threads, NEW pc \in Pcs, NEW to \in Targets,
         NEW config \in Configs \union {Nil}, Step(t, pc, to, config)
  PROVE  /\ JobType'
         /\ job'[t].pc = pc /\ job'[t].to = to /\ job'[t].config = config
         /\ \A u \in Threads \ {t} : job'[u] = job[u]
BY DEF Step, JobType

LEMMA DoneChangesOne ==
  ASSUME JobType, NEW t \in Threads, Done(t)
  PROVE  JobType' /\ job'[t].pc = "idle" /\ \A u \in Threads \ {t} : job'[u] = job[u]
BY DEF Done, Idle, JobType, Pcs, Targets

(* One setter moves while the others are idle: only its own place matters.  *)
LEMMA OthersIdle ==
  ASSUME TurnInv, NEW t \in Setters, \A u \in Setters \ {t} : job[u].pc = "idle",
         JobType', Values', \A u \in Threads \ {t} : job'[u] = job[u],
         job'[t].pc = "count" => t = "observer" /\ Wins',
         job'[t].pc = "callback" => (job'[t].to = "database" <=> faaDb' # Nil) /\ t # "observer",
         job'[t].pc = "set" /\ faaDb' # Nil => job'[t].to = "database" /\ job'[t].config = faaDb',
         job'[t].pc \in {"read", "update", "idle"} => Wins',
         job'[t].pc # "file"
  PROVE  TurnInv'
<1>1. t \in Threads /\ t # "timer" /\ "timer" \in Threads
  BY DEF Setters, Threads
<1>2. \A u \in Setters \ {t} : job'[u].pc = "idle"
  BY DEF Setters
<1>3. job'["timer"] = job["timer"]
  BY <1>1
<1>4. OneAtATime'
  BY <1>2 DEF OneAtATime
<1>5. job'[t].pc \in Pcs
  BY <1>1 DEF JobType
<1>6. Progress'
  <2> SUFFICES ASSUME NEW u \in Setters
               PROVE  /\ job'[u].pc = "count" => u = "observer" /\ Wins'
                      /\ job'[u].pc = "callback" => (job'[u].to = "database" <=> faaDb' # Nil) /\ u # "observer"
                      /\ job'[u].pc = "set" /\ faaDb' # Nil => job'[u].to = "database" /\ job'[u].config = faaDb'
                      /\ job'[u].pc \in {"read", "update"} => Wins'
                      /\ job'[u].pc \in {"idle", "count", "callback", "set", "read", "update"}
    BY DEF Progress
  <2>1. CASE u = t
    BY <2>1, <1>5 DEF Pcs
  <2>2. CASE u # t
    BY <2>2, <1>2
  <2> QED
    BY <2>1, <2>2
<1>7. Settled' => Wins'
  BY <1>1 DEF Settled, Setters
<1> QED
  BY <1>3, <1>4, <1>6, <1>7 DEF TurnInv

(* A setter that is under way is alone (OneAtATime).                        *)
LEMMA Alone ==
  ASSUME TurnInv, NEW t \in Setters, job[t].pc # "idle"
  PROVE  \A u \in Setters \ {t} : job[u].pc = "idle"
BY DEF TurnInv, OneAtATime

(* Steps that move no setter and leave database and source alone.           *)
LEMMA SettersStay ==
  ASSUME TurnInv, UNCHANGED <<faaDb, source, embedded>>, JobType', Values',
         \A u \in Setters : job'[u] = job[u], job'["timer"].pc \in {"idle", "file", "update"}
  PROVE  TurnInv'
<1>1. Wins' = Wins
  BY DEF Wins
<1>2. Progress'
  BY <1>1 DEF TurnInv, Progress
<1>3. OneAtATime'
  BY DEF TurnInv, OneAtATime
<1>4. Settled' => Wins'
  BY <1>1 DEF TurnInv, Settled, Setters
<1> QED
  BY <1>2, <1>3, <1>4 DEF TurnInv

(* SetDBRules, SetConfig and SetConfigPath: with rules in the database the  *)
(* setter that gets here carries them.                                      *)
LEMMA SetKeepsTurn == ASSUME TurnInv, NEW t \in Threads, Set(t) PROVE TurnInv'
<1>1. t \in Setters /\ job[t].pc = "set" /\ job[t] \in [pc : Pcs, to : Targets, config : Configs \union {Nil}]
  BY DEF Set, TurnInv, JobType, Setters
<1>2. \A u \in Setters \ {t} : job[u].pc = "idle"
  BY <1>1, Alone
<1>3. Values' /\ Wins'
  <2>1. embedded' = job[t].config /\ source' = SourceOf(job[t].to) /\ UNCHANGED <<faaDb, policy, file>>
    BY DEF Set, outside
  <2>2. faaDb # Nil => job[t].to = "database" /\ job[t].config = faaDb
    BY <1>1 DEF TurnInv, Progress
  <2> QED
    BY <1>1, <2>1, <2>2 DEF TurnInv, Values, Wins, SourceOf
<1>4. PICK pc \in {"read", "update"}, config \in Configs \union {Nil} : Step(t, pc, "none", config)
  <2>1. FileContent(path') \in Configs \union {Nil}
    BY DEF FileContent, TurnInv, Values
  <2> QED
    BY <2>1 DEF Set
<1>5. JobType' /\ job'[t].pc = pc /\ \A u \in Threads \ {t} : job'[u] = job[u]
  <2>1. JobType /\ pc \in Pcs /\ "none" \in Targets
    BY DEF TurnInv, Pcs, Targets
  <2> QED
    BY <1>4, <2>1, StepChangesOne
<1> QED
  BY <1>1, <1>2, <1>3, <1>5, OthersIdle

(* ReadEmbedded and ReloadConfig change no source.                          *)
LEMMA ReloadKeepsTurn ==
  ASSUME TurnInv, NEW t \in Threads, ReadEmbedded(t) \/ ReloadConfig(t)
  PROVE  TurnInv'
<1>1. UNCHANGED <<faaDb, policy, file, source, embedded>> /\ job[t].pc \in {"read", "update"}
  BY DEF ReadEmbedded, ReloadConfig, outside, items
<1>2. JobType' /\ job'[t].pc \in {"idle", "update"} /\ \A u \in Threads \ {t} : job'[u] = job[u]
  <2>1. CASE ReadEmbedded(t)
    <3>1. JobType /\ "update" \in Pcs /\ "none" \in Targets /\ embedded \in Configs \union {Nil}
      BY DEF TurnInv, Values, Pcs, Targets
    <3>2. Step(t, "update", "none", embedded)
      BY <2>1 DEF ReadEmbedded
    <3> QED
      BY <3>1, <3>2, StepChangesOne
  <2>2. CASE ReloadConfig(t)
    BY <2>2, DoneChangesOne DEF ReloadConfig, TurnInv
  <2> QED
    BY <2>1, <2>2
<1>3. Values' /\ Wins' = Wins
  BY <1>1 DEF TurnInv, Values, Wins
<1>4. CASE t = "timer"
  <2>1. \A u \in Setters : job'[u] = job[u]
    BY <1>2, <1>4 DEF Setters
  <2> QED
    BY <1>1, <1>2, <1>3, <1>4, <2>1, SettersStay
<1>5. CASE t # "timer"
  <2>1. t \in Setters /\ Wins
    BY <1>1, <1>5 DEF Setters, TurnInv, Progress
  <2>2. \A u \in Setters \ {t} : job[u].pc = "idle"
    BY <1>1, <2>1, Alone
  <2> QED
    BY <1>2, <1>3, <2>1, <2>2, OthersIdle
<1> QED
  BY <1>4, <1>5

(* The periodic reload touches neither the sources nor the setters.         *)
LEMMA TimerKeepsTurn == ASSUME TurnInv, OnTimer \/ ReadConfig PROVE TurnInv'
<1>1. UNCHANGED <<faaDb, policy, file, source, embedded>> /\ "timer" \in Threads /\ Values'
  BY DEF OnTimer, ReadConfig, outside, items, Threads, TurnInv, Values
<1>2. PICK pc \in {"file", "update"}, config \in Configs \union {Nil} : Step("timer", pc, "none", config)
  <2>1. FileContent(path) \in Configs \union {Nil} /\ embedded \in Configs \union {Nil}
    BY DEF FileContent, TurnInv, Values
  <2> QED
    BY <2>1 DEF OnTimer, ReadConfig
<1>3. JobType /\ pc \in Pcs /\ "none" \in Targets
  BY DEF TurnInv, Pcs, Targets
<1>4. JobType' /\ job'["timer"].pc = pc /\ \A u \in Threads \ {"timer"} : job'[u] = job[u]
  BY <1>1, <1>2, <1>3, StepChangesOne
<1> QED
  BY <1>1, <1>4, SettersStay DEF Setters

(* An observer or a transaction starts when no setter is under way.         *)
LEMMA StartKeepsTurn ==
  ASSUME TurnInv, ~overlapped', NEW t \in Setters, Starts(t), JobType', Values',
         \A u \in Threads \ {t} : job'[u] = job[u],
         \/ job'[t].pc = "count" /\ t = "observer" /\ UNCHANGED <<faaDb, source, embedded>>
         \/ job'[t].pc = "callback" /\ t # "observer" /\ (job'[t].to = "database" <=> faaDb' # Nil)
         \/ job'[t].pc = "idle" /\ UNCHANGED <<faaDb, source, embedded>>
  PROVE  TurnInv'
<1>1. \A u \in Setters : job[u].pc = "idle"
  BY DEF Starts, Settled, Setters
<1>2. Wins
  BY <1>1 DEF TurnInv, Settled, Setters
<1>3. UNCHANGED <<faaDb, source, embedded>> => Wins'
  BY <1>2 DEF Wins
<1> QED
  BY <1>1, <1>3, OthersIdle

(* FileAccessPolicy and FileAccessPolicyPlist change.                       *)
LEMMA ObserversKeepTurn ==
  ASSUME TurnInv, ~overlapped',
         PlistChanged \/ \E p \in Policies \union {Nil} : PolicyChanged(p)
  PROVE  TurnInv'
<1>1. "observer" \in Setters /\ "observer" \in Threads /\ Starts("observer")
  BY DEF Setters, Threads, PlistChanged, PolicyChanged
<1>2. JobType /\ UNCHANGED <<faaDb, source, embedded, file>>
  BY DEF TurnInv, PlistChanged, PolicyChanged, items
<1>3. CASE PlistChanged
  <2>1. Values'
    BY <1>2, <1>3 DEF PlistChanged, TurnInv, Values
  <2>2. CASE UNCHANGED job
    <3>1. job'["observer"].pc = "idle" /\ JobType'
      BY <1>1, <1>2, <2>2 DEF Starts, JobType
    <3> QED
      BY <1>1, <1>2, <2>1, <2>2, <3>1, StartKeepsTurn
  <2>3. CASE Step("observer", "count", PlistOrNone(plist'), Nil)
    <3>1. "count" \in Pcs /\ PlistOrNone(plist') \in Targets /\ Nil \in Configs \union {Nil}
      BY DEF Pcs, Targets, PlistOrNone
    <3>2. JobType' /\ job'["observer"].pc = "count" /\ \A u \in Threads \ {"observer"} : job'[u] = job[u]
      BY <1>1, <1>2, <2>3, <3>1, StepChangesOne
    <3> QED
      BY <1>1, <1>2, <2>1, <3>2, StartKeepsTurn
  <2> QED
    BY <1>3, <2>2, <2>3 DEF PlistChanged
<1>4. ASSUME NEW p \in Policies \union {Nil}, PolicyChanged(p) PROVE TurnInv'
  <2>1. Values' /\ p \in Configs \union {Nil}
    BY <1>2, <1>4, ConfigsAssumption DEF PolicyChanged, TurnInv, Values
  <2>2. "count" \in Pcs /\ "embedded" \in Targets /\ Step("observer", "count", "embedded", p)
    BY <1>4 DEF Pcs, Targets, PolicyChanged
  <2>3. JobType' /\ job'["observer"].pc = "count" /\ \A u \in Threads \ {"observer"} : job'[u] = job[u]
    BY <1>1, <1>2, <2>1, <2>2, StepChangesOne
  <2> QED
    BY <1>1, <1>2, <2>1, <2>3, StartKeepsTurn
<1> QED
  BY <1>3, <1>4

(* The observer looks whether the database has rules.                       *)
LEMMA CountKeepsTurn == ASSUME TurnInv, CheckCount PROVE TurnInv'
<1>1. "observer" \in Setters /\ "observer" \in Threads /\ job["observer"].pc = "count"
  BY DEF Setters, Threads, CheckCount
<1>2. UNCHANGED <<faaDb, source, embedded, file, policy>> /\ JobType
  BY DEF CheckCount, items, outside, TurnInv
<1>3. Wins /\ Wins' /\ Values'
  BY <1>1, <1>2 DEF TurnInv, Progress, Wins, Values
<1>4. \A u \in Setters \ {"observer"} : job[u].pc = "idle"
  BY <1>1, Alone
<1>5. CASE faaDb # Nil
  <2>1. JobType' /\ job'["observer"].pc = "idle" /\ \A u \in Threads \ {"observer"} : job'[u] = job[u]
    BY <1>1, <1>2, <1>5, DoneChangesOne DEF CheckCount
  <2> QED
    BY <1>1, <1>3, <1>4, <2>1, OthersIdle
<1>6. CASE faaDb = Nil
  <2>1. Step("observer", "set", job["observer"].to, job["observer"].config)
    BY <1>6 DEF CheckCount
  <2>2. "set" \in Pcs /\ job["observer"].to \in Targets /\ job["observer"].config \in Configs \union {Nil}
    BY <1>1, <1>2 DEF JobType, Pcs
  <2>3. JobType' /\ job'["observer"].pc = "set" /\ \A u \in Threads \ {"observer"} : job'[u] = job[u]
    BY <1>1, <1>2, <2>1, <2>2, StepChangesOne
  <2> QED
    BY <1>1, <1>2, <1>3, <1>4, <1>6, <2>3, OthersIdle
<1> QED
  BY <1>5, <1>6

(* The rules of the database change.                                        *)
LEMMA AddKeepsTurn ==
  ASSUME TurnInv, ~overlapped', NEW a \in Writers, NEW c \in DbConfigs \union {Nil},
         AddFileAccessRules(a, c)
  PROVE  TurnInv'
<1>1. a \in Setters /\ a \in Threads /\ a # "observer" /\ Starts(a)
  BY ConfigsAssumption DEF Setters, Threads, AddFileAccessRules
<1>2. faaDb' = c /\ JobType /\ Values'
  BY ConfigsAssumption DEF AddFileAccessRules, TurnInv, Values, items
<1>3. PICK to \in {"database", "none"} : (to = "database" <=> c # Nil) /\ Step(a, "callback", to, Nil)
  BY DEF AddFileAccessRules
<1>4. "callback" \in Pcs /\ to \in Targets /\ Nil \in Configs \union {Nil}
  BY DEF Pcs, Targets
<1>5. JobType' /\ job'[a].pc = "callback" /\ job'[a].to = to /\ \A u \in Threads \ {a} : job'[u] = job[u]
  BY <1>1, <1>2, <1>3, <1>4, StepChangesOne
<1> QED
  BY <1>1, <1>2, <1>3, <1>5, StartKeepsTurn

(* fileAccessRulesChangedCallback: nobody has changed the database since.   *)
LEMMA CallbackKeepsTurn ==
  ASSUME TurnInv, NEW a \in Writers, RulesChanged(a)
  PROVE  TurnInv'
<1>1. a \in Setters /\ a \in Threads /\ job[a].pc = "callback"
  BY ConfigsAssumption DEF Setters, Threads, RulesChanged
<1>2. UNCHANGED <<faaDb, source, embedded, file, policy>> /\ JobType /\ Values'
  BY DEF RulesChanged, items, outside, TurnInv, Values
<1>3. \A u \in Setters \ {a} : job[u].pc = "idle"
  BY <1>1, Alone
<1>4. job[a].to = "database" <=> faaDb # Nil
  BY <1>1 DEF TurnInv, Progress
<1>5. PICK to \in Targets, config \in Configs \union {Nil} :
        Step(a, "set", to, config) /\ (faaDb # Nil => to = "database" /\ config = faaDb)
  BY <1>4 DEF RulesChanged, PlistOrNone, Targets, TurnInv, Values
<1>6. "set" \in Pcs
  BY DEF Pcs
<1>7. /\ JobType' /\ job'[a].pc = "set" /\ job'[a].to = to /\ job'[a].config = config
      /\ \A u \in Threads \ {a} : job'[u] = job[u]
  BY <1>1, <1>2, <1>5, <1>6, StepChangesOne
<1> QED
  BY <1>1, <1>2, <1>3, <1>5, <1>7, OthersIdle

(* Every step keeps the invariant as long as setters do not overlap.        *)
LEMMA TurnInvStep ==
  ASSUME ~overlapped', TurnInv, [WatchNext]_watchVars
  PROVE  TurnInv'
<1>1. ASSUME NEW t \in Threads, Thread(t) PROVE TurnInv'
  BY <1>1, SetKeepsTurn, ReloadKeepsTurn DEF Thread
<1>2. CASE UNCHANGED <<faaDb, policy, source, embedded, job>> /\ file' \in Configs \union {Nil}
  <2>1. Values' /\ JobType' /\ job'["timer"].pc \in {"idle", "file", "update"}
    BY <1>2 DEF TurnInv, Values, JobType
  <2> QED
    BY <1>2, <2>1, SettersStay
<1>3. CASE NotifyClients \/ \E p \in Paths : PathChanged(p)
  BY <1>2, <1>3 DEF NotifyClients, PathChanged, TurnInv, Values, outside, items
<1>4. CASE \E c \in FileConfigs \union {Nil} : FileChanged(c)
  BY <1>2, <1>4, ConfigsAssumption DEF FileChanged, items
<1>5. CASE UNCHANGED watchVars
  BY <1>2, <1>5 DEF watchVars, outside, items, TurnInv, Values
<1> QED
  BY <1>1, <1>3, <1>4, <1>5, TimerKeepsTurn, ObserversKeepTurn, CountKeepsTurn, AddKeepsTurn,
     CallbackKeepsTurn DEF WatchNext

(* An overlap is remembered.                                                *)
LEMMA OverlapStays == overlapped /\ [WatchNext]_watchVars => overlapped'
<1> SUFFICES ASSUME overlapped, [WatchNext]_watchVars PROVE overlapped'
  OBVIOUS
<1>1. UNCHANGED overlapped => overlapped'
  OBVIOUS
<1>2. CASE PlistChanged \/ \E p \in Policies \union {Nil} : PolicyChanged(p)
  BY <1>2 DEF PlistChanged, PolicyChanged, Starts
<1>3. CASE \E a \in Writers : \E c \in DbConfigs \union {Nil} : AddFileAccessRules(a, c)
  BY <1>3 DEF AddFileAccessRules, Starts
<1> QED
  BY <1>1, <1>2, <1>3
  DEF WatchNext, Thread, Set, ReadEmbedded, ReloadConfig, OnTimer, ReadConfig, NotifyClients, CheckCount,
      RulesChanged, FileChanged, PathChanged, watchVars, outside

TurnsTaken == ~overlapped => TurnInv

(* As long as the observers of the configuration and the clients of the     *)
(* database take turns, the rules of the database are what is loaded        *)
(* whenever there are any and nobody is changing them (SantadDeps.mm,       *)
(* Santad.mm), for any dictionaries and any number of changes and reloads.  *)
THEOREM DatabaseAlwaysWins == WatchSpec => []DatabaseWins
<1>1. WatchInit => TurnsTaken
  BY TurnInvInit DEF TurnsTaken
<1>2. TurnsTaken /\ [WatchNext]_watchVars => TurnsTaken'
  BY TurnInvStep, OverlapStays DEF TurnsTaken
<1>3. TurnsTaken => DatabaseWins
  BY DEF TurnsTaken, TurnInv, DatabaseWins, Wins
<1> QED
  BY <1>1, <1>2, <1>3, PTL DEF WatchSpec

-----------------------------------------------------------------------------
(* What the ES clients watch.  A block on the queue carries the difference  *)
(* between two updates, so what it says of a path holds only if no later    *)
(* block says something else; a path that no block mentions is watched if   *)
(* and only if it should be.                                                *)
Update == [add : SUBSET Paths, remove : SUBSET Paths]
Mentions(block, p) == p \in block.add \union block.remove
Unmentioned(p, from) == \A i \in from..Len(queue) : ~Mentions(queue[i], p)

BlocksType == data \subseteq Paths /\ watched \subseteq Paths /\ onDisk \subseteq Paths /\ queue \in Seq(Update)
SilenceTrue == \A p \in Paths :
  Unmentioned(p, 1) => (p \in data => p \in watched) /\ (p \in watched => failed \/ p \in data)
LastWordTrue ==
  \A p \in Paths, i \in 1..Len(queue) :
    Mentions(queue[i], p) /\ Unmentioned(p, i + 1) => (p \in queue[i].add <=> p \in data)
CountsTrue ==
  queue = <<>> /\ ~failed => subscribed = (data # {}) /\ procEnabled = (current \in ProcConfigs)
BlocksInv ==
  /\ BlocksType /\ SilenceTrue /\ LastWordTrue /\ CountsTrue
  /\ {subscribed, procEnabled, failed} \subseteq BOOLEAN
  /\ ~subscribed /\ ~failed => watched = {}

(* Nothing is watched and nothing is queued at startup (WatchItems.mm).     *)
LEMMA BlocksInvInit == ASSUME WatchInit PROVE BlocksInv
<1>1. /\ queue = <<>> /\ data = {} /\ watched = {} /\ subscribed = FALSE /\ procEnabled = FALSE
      /\ current = Nil /\ onDisk = Paths /\ failed = FALSE
  BY DEF WatchInit
<1>2. queue \in Seq(Update) /\ Len(queue) = 0
  BY <1>1
<1>3. Nil \notin ProcConfigs
  BY ConfigsAssumption
<1>4. BlocksType /\ SilenceTrue
  <2>1. BlocksType
    BY <1>1, <1>2 DEF BlocksType
  <2>2. \A p \in Paths : p \in watched <=> p \in data
    BY <1>1
  <2> QED
    BY <2>1, <2>2 DEF SilenceTrue
<1>5. LastWordTrue
  BY <1>2 DEF LastWordTrue
<1>6. CountsTrue
  <2>1. (data # {}) = FALSE
    BY <1>1
  <2>2. (current \in ProcConfigs) = FALSE
    BY <1>1, <1>3
  <2>3. subscribed = FALSE /\ procEnabled = FALSE
    BY <1>1
  <2> QED
    BY <2>1, <2>2, <2>3, Zenon DEF CountsTrue
<1> QED
  BY <1>1, <1>4, <1>5, <1>6 DEF BlocksInv

(* UpdateCurrentState: the new block has the last word on the paths that    *)
(* change, the blocks before it on all others.                              *)
LEMMA UpdateKeepsBlocks ==
  ASSUME BlocksInv, NEW t, NEW config, NEW paths \in SUBSET Paths,
         UpdateCurrentState(t, config, paths), UNCHANGED <<clients, onDisk>>
  PROVE  BlocksInv'
<1> DEFINE block == [add |-> paths \ data, remove |-> data \ paths]
           n == Len(queue)
<1>1. data' = paths /\ queue' = Append(queue, block) /\ queue \in Seq(Update) /\ data \subseteq Paths
  BY DEF UpdateCurrentState, BlocksInv, BlocksType
<1>2. block \in Update
  BY <1>1 DEF Update
<1>3. /\ n = Len(queue) /\ n \in Nat /\ Len(queue') = n + 1 /\ queue' \in Seq(Update)
      /\ queue'[n + 1] = block /\ \A i \in 1..n : queue'[i] = queue[i]
  BY <1>1, <1>2
<1>4. block.add = paths \ data /\ block.remove = data \ paths
  OBVIOUS
<1>5. \A p \in Paths : /\ Mentions(block, p) <=> ~(p \in paths <=> p \in data)
                       /\ Mentions(block, p) => (p \in block.add <=> p \in paths)
  BY <1>1, <1>4 DEF Mentions
<1> HIDE DEF block, n
<1>6. BlocksType'
  BY <1>1, <1>3 DEF BlocksInv, BlocksType, clients
<1>7. ASSUME NEW p \in Paths, NEW i \in 1..(n + 1), Unmentioned(p, i)'
      PROVE  Unmentioned(p, i) /\ (p \in paths <=> p \in data)
  <2>1. n + 1 \in i..Len(queue') /\ \A j \in i..Len(queue) : j \in i..Len(queue') /\ j \in 1..n
    BY <1>3
  <2>2. ~Mentions(block, p)
    BY <1>3, <1>7, <2>1 DEF Unmentioned
  <2>3. \A j \in i..Len(queue) : ~Mentions(queue[j], p)
    BY <1>3, <1>7, <2>1 DEF Unmentioned
  <2> QED
    BY <1>5, <2>2, <2>3 DEF Unmentioned
<1>8. SilenceTrue'
  <2> SUFFICES ASSUME NEW p \in Paths, Unmentioned(p, 1)'
               PROVE  (p \in data' => p \in watched') /\ (p \in watched' => failed' \/ p \in data')
    BY Zenon DEF SilenceTrue
  <2>1. 1 \in 1..(n + 1)
    BY <1>3
  <2>2. Unmentioned(p, 1) /\ (p \in paths <=> p \in data)
    BY <1>7, <2>1
  <2>3. (p \in data => p \in watched) /\ (p \in watched => failed \/ p \in data)
    BY <2>2 DEF BlocksInv, SilenceTrue
  <2>4. data' = paths /\ watched' = watched /\ failed' = failed
    BY <1>1 DEF clients
  <2> QED
    BY <2>2, <2>3, <2>4
<1>9. LastWordTrue'
  <2> SUFFICES ASSUME NEW p \in Paths, NEW i \in 1..Len(queue'), Mentions(queue'[i], p), Unmentioned(p, i + 1)'
               PROVE  p \in queue'[i].add <=> p \in data'
    BY DEF LastWordTrue
  <2>1. CASE i = n + 1
    BY <1>1, <1>3, <1>5, <2>1
  <2>2. CASE i # n + 1
    <3>1. i \in 1..n /\ i \in 1..Len(queue) /\ i + 1 \in 1..(n + 1)
      BY <1>3, <2>2
    <3>2. Unmentioned(p, i + 1) /\ (p \in paths <=> p \in data)
      BY <1>7, <3>1
    <3>3. queue'[i] = queue[i]
      BY <1>3, <3>1
    <3> QED
      BY <1>1, <3>1, <3>2, <3>3 DEF BlocksInv, LastWordTrue
  <2> QED
    BY <2>1, <2>2
<1>10. CountsTrue'
  BY <1>3 DEF CountsTrue
<1> QED
  BY <1>6, <1>8, <1>9, <1>10 DEF BlocksInv, clients

(* watchItemsCount:newPaths:removedPaths: - what the block does not mention *)
(* is left as it is, and without data rules nothing stays watched.          *)
LEMMA NotifyKeepsBlocks == ASSUME BlocksInv, NotifyClients PROVE BlocksInv'
<1> DEFINE block == Head(queue)
           n == Len(queue)
<1>1. /\ queue # <<>> /\ queue' = Tail(queue) /\ UNCHANGED <<data, current, onDisk>>
      /\ watched' = IF data # {} THEN (watched \ block.remove) \union block.add
                    ELSE IF subscribed THEN {} ELSE watched
  BY DEF NotifyClients
<1>13. {subscribed, procEnabled, failed} \subseteq BOOLEAN
  BY DEF BlocksInv
<1>14. \/ failed' = failed /\ subscribed' = (data # {}) /\ procEnabled' = (current \in ProcConfigs)
       \/ failed' = TRUE /\ {subscribed', procEnabled'} \subseteq BOOLEAN
  <2> DEFINE on == data # {}
             proc == current \in ProcConfigs
  <2>1. Subscribe(on, proc) /\ {on, proc} \subseteq BOOLEAN
    BY DEF NotifyClients
  <2> HIDE DEF on, proc
  <2>2. \/ failed' = failed /\ subscribed' = on /\ procEnabled' = proc
        \/ failed' = TRUE /\ {subscribed', procEnabled'} \subseteq BOOLEAN
    BY <1>13, <2>1 DEF Subscribe
  <2> QED
    BY <2>2 DEF on, proc
<1>15. failed => failed'
  BY <1>14
<1>2. queue \in Seq(Update) /\ data \subseteq Paths /\ watched \subseteq Paths /\ onDisk \subseteq Paths
  BY DEF BlocksInv, BlocksType
<1>3. /\ n = Len(queue) /\ n \in Nat \ {0} /\ Len(queue') = n - 1 /\ queue' \in Seq(Update)
      /\ block = queue[1] /\ \A i \in 1..(n - 1) : queue'[i] = queue[i + 1]
  BY <1>1, <1>2
<1>4. block \in Update
  BY <1>2, <1>3
<1>5. block.add \subseteq Paths
  BY <1>4 DEF Update
<1>6. data = {} /\ ~failed => watched' = {}
  BY <1>1 DEF BlocksInv
<1> HIDE DEF block, n
<1>7. watched' \subseteq Paths
  BY <1>1, <1>2, <1>5
<1>8. \A p \in Paths, i \in 1..n : Unmentioned(p, i)' => Unmentioned(p, i + 1)
  <2> SUFFICES ASSUME NEW p \in Paths, NEW i \in 1..n, Unmentioned(p, i)', NEW j \in (i + 1)..Len(queue)
               PROVE  ~Mentions(queue[j], p)
    BY DEF Unmentioned
  <2>1. j - 1 \in i..Len(queue') /\ j - 1 \in 1..(n - 1) /\ (j - 1) + 1 = j
    BY <1>3
  <2>2. queue'[j - 1] = queue[j]
    BY <1>3, <2>1
  <2> QED
    BY <2>1, <2>2 DEF Unmentioned
<1>9. SilenceTrue'
  <2> SUFFICES ASSUME NEW p \in Paths, Unmentioned(p, 1)', data # {}
               PROVE  (p \in data => p \in watched') /\ (p \in watched' => failed \/ p \in data)
    BY <1>1, <1>6, <1>15 DEF SilenceTrue
  <2>1. 1 \in 1..n /\ 1 \in 1..Len(queue)
    BY <1>3
  <2>2. Unmentioned(p, 2)
    BY <1>8, <2>1
  <2>3. CASE Mentions(block, p)
    <3>1. p \in block.add <=> p \in data
      BY <1>3, <2>1, <2>2, <2>3 DEF BlocksInv, LastWordTrue
    <3> QED
      BY <1>1, <2>3, <3>1 DEF Mentions
  <2>4. CASE ~Mentions(block, p)
    <3>1. \A j \in 1..Len(queue) : j = 1 \/ j \in 2..Len(queue)
      OBVIOUS
    <3>2. Unmentioned(p, 1)
      BY <1>3, <2>2, <2>4, <3>1 DEF Unmentioned
    <3> QED
      BY <1>1, <2>4, <3>2 DEF BlocksInv, SilenceTrue, Mentions
  <2> QED
    BY <2>3, <2>4
<1>10. LastWordTrue'
  <2> SUFFICES ASSUME NEW p \in Paths, NEW i \in 1..Len(queue'), Mentions(queue'[i], p), Unmentioned(p, i + 1)'
               PROVE  p \in queue'[i].add <=> p \in data'
    BY DEF LastWordTrue
  <2>1. i \in 1..(n - 1) /\ i + 1 \in 1..n /\ i + 1 \in 1..Len(queue)
    BY <1>3
  <2>2. queue'[i] = queue[i + 1] /\ Unmentioned(p, (i + 1) + 1)
    BY <1>3, <1>8, <2>1
  <2> QED
    BY <1>1, <2>1, <2>2 DEF BlocksInv, LastWordTrue
<1>11. /\ {subscribed', procEnabled', failed'} \subseteq BOOLEAN
       /\ ~subscribed' /\ ~failed' => watched' = {}
       /\ CountsTrue'
  <2>1. CASE failed' = failed /\ subscribed' = (data # {}) /\ procEnabled' = (current \in ProcConfigs)
    <3>1. {subscribed', procEnabled', failed'} \subseteq BOOLEAN
      BY <1>13, <2>1
    <3>2. ~subscribed' /\ ~failed' => watched' = {}
      BY <1>6, <2>1
    <3>3. CountsTrue'
      BY <1>1, <2>1 DEF CountsTrue
    <3> QED
      BY <3>1, <3>2, <3>3
  <2>2. CASE failed' = TRUE /\ {subscribed', procEnabled'} \subseteq BOOLEAN
    BY <2>2 DEF CountsTrue
  <2> QED
    BY <1>14, <2>1, <2>2
<1>12. BlocksType'
  BY <1>1, <1>2, <1>3, <1>7 DEF BlocksType
<1> QED
  BY <1>9, <1>10, <1>11, <1>12 DEF BlocksInv

(* Every step of every thread keeps the blocks true.                        *)
LEMMA BlocksInvStep == BlocksInv /\ [WatchNext]_watchVars => BlocksInv'
<1> SUFFICES ASSUME BlocksInv, [WatchNext]_watchVars PROVE BlocksInv'
  OBVIOUS
<1>1. CASE UNCHANGED <<state, clients>> /\ onDisk' \subseteq Paths
  BY <1>1 DEF state, clients, BlocksInv, BlocksType, SilenceTrue, LastWordTrue, CountsTrue, Unmentioned
<1>2. onDisk \subseteq Paths
  BY DEF BlocksInv, BlocksType
<1>3. ASSUME NEW t \in Threads, ReloadConfig(t) PROVE BlocksInv'
  <2> DEFINE paths == PathsToWatch(job[t].config)
  <2>1. paths \in SUBSET Paths
    BY <1>2 DEF PathsToWatch
  <2>2. UNCHANGED <<clients, onDisk>>
    BY <1>3 DEF ReloadConfig, outside
  <2>3. UpdateCurrentState(t, job[t].config, paths) \/ UNCHANGED state
    BY <1>3 DEF ReloadConfig
  <2> QED
    BY <1>1, <1>2, <2>1, <2>2, <2>3, UpdateKeepsBlocks
<1>4. ASSUME NEW t \in Threads, Set(t) \/ ReadEmbedded(t) PROVE BlocksInv'
  BY <1>1, <1>2, <1>4 DEF Set, ReadEmbedded, outside
<1>5. CASE OnTimer \/ ReadConfig \/ CheckCount \/ PlistChanged
  BY <1>1, <1>2, <1>5 DEF OnTimer, ReadConfig, CheckCount, PlistChanged, outside
<1>6. CASE \/ \E p \in Policies \union {Nil} : PolicyChanged(p)
           \/ \E a \in Writers : RulesChanged(a)
           \/ \E a \in Writers : \E c \in DbConfigs \union {Nil} : AddFileAccessRules(a, c)
           \/ \E c \in FileConfigs \union {Nil} : FileChanged(c)
  BY <1>1, <1>2, <1>6 DEF PolicyChanged, RulesChanged, AddFileAccessRules, FileChanged, outside
<1>7. CASE \E p \in Paths : PathChanged(p)
  BY <1>1, <1>2, <1>7 DEF PathChanged
<1>8. CASE UNCHANGED watchVars
  BY <1>1, <1>2, <1>8 DEF watchVars, outside
<1> QED
  BY <1>3, <1>4, <1>5, <1>6, <1>7, <1>8, NotifyKeepsBlocks DEF WatchNext, Thread

(* However many updates overtake the blocks that tell the ES clients of     *)
(* them, the clients watch the paths of the last update once the blocks     *)
(* have run, and no others and are subscribed for its rules if no call to   *)
(* subscribe failed (UpdateCurrentState,                                    *)
(* watchItemsCount:newPaths:removedPaths:, enable, disable).                *)
THEOREM ClientsAlwaysMatch == WatchSpec => []ClientsMatch
<1>1. BlocksInv => ClientsMatch
  <2> SUFFICES ASSUME BlocksInv, queue = <<>> PROVE ClientsMatch
    BY DEF ClientsMatch
  <2>1. \A p \in Paths : Unmentioned(p, 1)
    BY DEF Unmentioned
  <2>2. \A p \in Paths : (p \in data => p \in watched) /\ (p \in watched => failed \/ p \in data)
    BY <2>1 DEF BlocksInv, SilenceTrue
  <2>3. data \subseteq watched /\ (~failed => watched = data)
    BY <2>2 DEF BlocksInv, BlocksType
  <2> QED
    BY <2>3 DEF BlocksInv, CountsTrue, ClientsMatch
<1> QED
  BY BlocksInvInit, BlocksInvStep, <1>1, PTL DEF WatchSpec
=============================================================================
