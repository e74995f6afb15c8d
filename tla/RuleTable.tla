----------------------------- MODULE RuleTable ------------------------------
(***************************************************************************)
(* The execution rules of santad and the caches that depend on them: the   *)
(* rule database (SNTRuleTable.mm), the XPC handler that adds rules        *)
(* (SNTDaemonControlController.mm), the rules made for what a compiler     *)
(* writes (SNTCompilerController.mm), the rules a user approves in         *)
(* standalone mode (SNTExecutionController.mm), the static rules of the    *)
(* configuration (Santad.mm) and the details of cached decisions           *)
(* (SNTDecisionCache.mm).                                                  *)
(*                                                                         *)
(* The database runs one transaction at a time, so a transaction is a      *)
(* step; between two of them every other actor may run.  An execution is   *)
(* one step here: what happens inside one is the subject of ExecAuth.      *)
(* File access rules are the subject of WatchItems; here they only decide  *)
(* whether the caches are flushed.                                         *)
(***************************************************************************)
EXTENDS Naturals, Sequences, FiniteSets, SequencesExt

CONSTANTS
  Binaries,        \* executables; each names the slot of its binary rule too
  SigningIDs,      \* slots of signing ID rules
  TeamIDs,         \* slots of certificate and team ID rules
  LaunchdCerts,    \* the slot of the certificate that launchd is signed with
  IdsOf,           \* executable -> its slots, most specific first
  Adders,          \* clients of databaseRuleAdd...: the sync service, santactl
  FromSantactl,    \* the adders that are santactl
  SyncEnabled,     \* SyncBaseURL is set
  Closers,         \* compilers' CLOSE and RENAME events being handled
  Batches,         \* rule arrays an adder may send
  Cleanups,        \* SNTRuleCleanup values it may ask for
  StaticRuleSets,  \* values the StaticRules key may take
  FlushThreshold,  \* number of non-allow rules that is always flushed for
  UnknownAllowed,  \* monitor mode: unknown binaries run
  Standalone       \* standalone mode: the user is asked about them

Keys == Binaries \union SigningIDs \union TeamIDs
Stored == {"allow", "block", "compiler", "transitive", "local", "cel1", "cel2"}
States == Stored \union {"remove", "badcel", "invalid"}
CleanupTypes == {"None", "All", "NonTransitive", "ExecutionRules", "FileAccessRules", "Standalone"}

ASSUME RulesAssumption ==
  /\ IdsOf \in [Binaries -> Seq(Keys)]
  /\ \A b \in Binaries : \A i \in DOMAIN IdsOf[b] : IdsOf[b][i] \in Binaries => IdsOf[b][i] = b
  /\ Batches \subseteq Seq([key : Keys, state : States]) /\ Cleanups \subseteq CleanupTypes
  /\ StaticRuleSets \subseteq [Keys -> Stored \union {"none"}]
ASSUME ModesAssumption ==
  /\ FlushThreshold \in Nat \ {0} /\ FromSantactl \subseteq Adders /\ LaunchdCerts \subseteq TeamIDs
  /\ SyncEnabled \in BOOLEAN /\ UnknownAllowed \in BOOLEAN /\ Standalone \in BOOLEAN

VARIABLES
  db,          \* slot -> state of its rule in the database
  static,      \* slot -> state of its static rule
  hash,        \* executionRulesHash: <<>>, or <<what was hashed>>
  old,         \* executables whose transitive rule has an outdated timestamp
  cached,      \* AuthResultCache: executable -> the allow it caches
  info,        \* SNTDecisionCache: executable -> what is known of its decision
  adder,       \* adder -> its progress
  closer,      \* closer -> its progress
  staticFlush, \* the observer of StaticRules still has to flush
  asks,        \* executables the user is asked about
  culled,      \* executables whose rule was culled while they were cached
  raced        \* rules changed between an adder's check and its transaction

vars == <<db, static, hash, old, cached, info, adder, closer, staticFlush, asks, culled, raced>>

NoRules == [k \in Keys |-> "none"]
IdleAdder == [pc |-> "idle", batch |-> <<>>, cleanup |-> "None", flush |-> FALSE]
IdleCloser == [pc |-> "idle", file |-> "none"]

Init ==
  /\ db = NoRules /\ static \in StaticRuleSets
  /\ hash = <<>> /\ old = {}
  /\ cached = [b \in Binaries |-> "none"] /\ info = [b \in Binaries |-> "none"]
  /\ adder = [a \in Adders |-> IdleAdder]
  /\ closer = [c \in Closers |-> IdleCloser]
  /\ staticFlush = FALSE /\ asks = {} /\ culled = {} /\ raced = FALSE

-----------------------------------------------------------------------------
(* Looking rules up *)

(* The places in ids that have a rule, and the rule of the first of them. *)
Ruled(rules, ids) == {i \in DOMAIN ids : rules[ids[i]] # "none"}
FirstRule(rules, ids) == rules[ids[CHOOSE i \in Ruled(rules, ids) : \A j \in Ruled(rules, ids) : i <= j]]

(* The first slot of ids with a rule, static rules first; without one,     *)
(* what launchd's certificate has signed is allowed.                       *)
Lookup(ids) ==
  IF Ruled(static, ids) # {} THEN FirstRule(static, ids)
  ELSE IF Ruled(db, ids) # {} THEN FirstRule(db, ids)
  ELSE IF \E i \in DOMAIN ids : ids[i] \in LaunchdCerts THEN "allow" ELSE "none"

(* What the policy makes of the rule that was found. *)
Verdict(b) ==
  LET r == Lookup(IdsOf[b])
  IN  CASE r \in {"allow", "local", "cel1"} -> "allow"
        [] r \in {"compiler", "transitive"} -> r
        [] r \in {"block", "cel2"} -> "deny"
        [] r = "none" -> IF UnknownAllowed THEN "allow" ELSE "deny"

(* What executionRulesHash is computed from. *)
HashInput(rules) == [k \in Keys |-> IF rules[k] = "transitive" THEN "none" ELSE rules[k]]

(* executionRulesHashSerialized: compute it unless it is known. *)
RulesHash ==
  /\ hash = <<>>
  /\ hash' = <<HashInput(db)>>
  /\ UNCHANGED <<db, static, old, cached, info, adder, closer, staticFlush, asks, culled, raced>>

-----------------------------------------------------------------------------
(* Adding rules *)

(* Mutant of ShouldFlush: a removal is no reason to flush. *)
ShouldFlushIgnoresRemove(batch) ==
  LET NonAllow == {i \in DOMAIN batch : batch[i].state # "allow"}
  IN  \/ \E i \in NonAllow : batch[i].state # "remove" /\ db[batch[i].key] # batch[i].state
      \/ Cardinality(NonAllow) >= FlushThreshold
      \/ \E i \in DOMAIN batch \ NonAllow :
           batch[i].key \notin TeamIDs /\ db[batch[i].key] = "compiler"

(* addedRulesShouldFlushDecisionCache *)
ShouldFlush(batch) ==
  LET NonAllow == {i \in DOMAIN batch : batch[i].state # "allow"}
  IN  \/ \E i \in NonAllow : batch[i].state = "remove" \/ db[batch[i].key] # batch[i].state
      \/ Cardinality(NonAllow) >= FlushThreshold
      \/ \E i \in DOMAIN batch \ NonAllow :
           batch[i].key \notin TeamIDs /\ db[batch[i].key] = "compiler"

(* What a cleanup leaves. *)
CleanUp(rules, cleanup) ==
  CASE cleanup = "All" -> NoRules
    [] cleanup \in {"NonTransitive", "ExecutionRules"} ->
         [k \in Keys |-> IF rules[k] = "transitive" THEN rules[k] ELSE "none"]
    [] OTHER -> rules

(* The rules of an array are written one after the other, so the last one  *)
(* for a slot stands; a CEL expression that does not compile is skipped.   *)
SlotAfter(rules, batch, k) ==
  LET Written == {i \in DOMAIN batch : batch[i].key = k /\ batch[i].state # "badcel"}
      last == CHOOSE i \in Written : \A j \in Written : j <= i
  IN  IF Written = {} THEN rules[k]
      ELSE IF batch[last].state = "remove" THEN "none" ELSE batch[last].state

ApplyAll(rules, batch) == [k \in Keys |-> SlotAfter(rules, batch, k)]

(* Rules are refused as a whole if one is invalid, or if there are none of *)
(* either kind and nothing to clean up (only those two make an empty array *)
(* flush).                                                                 *)
Refused(a) ==
  LET batch == adder[a].batch
  IN  \/ batch = <<>> /\ ~adder[a].flush
      \/ \E i \in DOMAIN batch : batch[i].state = "invalid"

(* databaseRuleAddExecutionRules: whether to flush is settled first. *)
CheckFlush(a, batch, cleanup, faa) ==
  /\ adder[a].pc = "idle"
  /\ a \in FromSantactl => ~SyncEnabled /\ static = NoRules
  /\ adder' = [adder EXCEPT ![a] = [pc |-> "add", batch |-> batch, cleanup |-> cleanup,
                 flush |-> cleanup # "None" \/ faa \/ ShouldFlush(batch)]]
  /\ UNCHANGED <<db, static, hash, old, cached, info, closer, staticFlush, asks, culled, raced>>

(* The adder has no more use for its rules. *)
Added(a) ==
  adder' = [adder EXCEPT ![a] = [pc |-> "cull", batch |-> <<>>, cleanup |-> "None", flush |-> adder[a].flush]]

(* The array is refused, or a statement fails: the transaction is undone. *)
RollBack(a) ==
  /\ adder[a].pc = "add"
  /\ Added(a)
  /\ UNCHANGED <<db, static, hash, old, cached, info, closer, staticFlush, asks, culled, raced>>

(* The transaction of addExecutionRules. *)
AddRules(a) ==
  LET batch == adder[a].batch
      cleanup == adder[a].cleanup
  IN  /\ adder[a].pc = "add"
      /\ ~Refused(a)
      /\ db' = ApplyAll(CleanUp(db, cleanup), batch)
      /\ hash' = <<>>
      /\ old' = {b \in old : db'[b] = "transitive"}
      /\ raced' = (raced \/ (~adder[a].flush /\ ShouldFlush(batch)))
      /\ Added(a)
      /\ UNCHANGED <<static, cached, info, closer, staticFlush, asks, culled>>

NextPc(a) == adder' = [adder EXCEPT ![a] =
               IF adder[a].flush THEN [@ EXCEPT !.pc = "flush"] ELSE IdleAdder]

(* removeOutdatedTransitiveRules: too soon, or too few rules. *)
SkipCulling(a) ==
  /\ adder[a].pc = "cull"
  /\ NextPc(a)
  /\ UNCHANGED <<db, static, hash, old, cached, info, closer, staticFlush, asks, culled, raced>>

(* removeOutdatedTransitiveRules *)
RemoveOutdated(a) ==
  /\ adder[a].pc = "cull"
  /\ db' = [k \in Keys |-> IF k \in old THEN "none" ELSE db[k]]
  /\ culled' = culled \union {b \in old : cached[b] # "none"}
  /\ old' = {}
  /\ NextPc(a)
  /\ UNCHANGED <<static, hash, cached, info, closer, staticFlush, asks, raced>>

EmptyCache ==
  cached' = [b \in Binaries |-> "none"] /\ culled' = {} /\ raced' = FALSE

FlushCache(a) ==
  /\ adder[a].pc = "flush"
  /\ EmptyCache
  /\ adder' = [adder EXCEPT ![a] = IdleAdder]
  /\ UNCHANGED <<db, static, hash, old, info, closer, staticFlush, asks>>

-----------------------------------------------------------------------------
(* Static rules: the observer stores the new ones, then flushes. *)

UpdateStaticRules(rules) ==
  /\ ~staticFlush /\ static # rules
  /\ static' = rules
  /\ staticFlush' = TRUE
  /\ UNCHANGED <<db, hash, old, cached, info, adder, closer, asks, culled, raced>>

FlushForStaticRules ==
  /\ staticFlush
  /\ staticFlush' = FALSE
  /\ EmptyCache
  /\ UNCHANGED <<db, static, hash, old, info, adder, closer, asks>>

-----------------------------------------------------------------------------
(* Executions *)

(* Logging an execution renews the timestamp of the transitive rule that   *)
(* the details of its decision name.                                       *)
Renew(b, known) == old' = IF known = "transitive" THEN old \ {b} ELSE old

(* An execution the cache allows. *)
ExecuteCached(b) ==
  /\ cached[b] # "none"
  /\ Renew(b, info[b])
  /\ UNCHANGED <<db, static, hash, cached, info, adder, closer, staticFlush, asks, culled, raced>>

(* An execution that is evaluated.  Denials are cached for 1.5 seconds     *)
(* only and not modelled.                                                  *)
Execute(b) ==
  LET v == Verdict(b)
      Allowed == v # "deny"
  IN  /\ cached[b] = "none"
      /\ info' = [info EXCEPT ![b] = v]
      /\ cached' = [cached EXCEPT ![b] = IF Allowed THEN v ELSE "none"]
      /\ culled' = culled \ {b}
      /\ Renew(b, v)
      /\ asks' = IF Standalone /\ Lookup(IdsOf[b]) = "none" /\ ~Allowed THEN asks \union {b} ELSE asks
      /\ UNCHANGED <<db, static, hash, adder, closer, staticFlush, raced>>

(* The user refuses: nothing is recorded. *)
Refuse(b) ==
  /\ b \in asks
  /\ asks' = asks \ {b}
  /\ UNCHANGED <<db, static, hash, old, cached, info, adder, closer, staticFlush, culled, raced>>

(* createRuleForStandaloneModeEvent: a rule for the signing ID of a binary *)
(* that has one, for its hash otherwise; no cache is flushed.              *)
ApproveStandalone(b) ==
  LET Signing == SelectSeq(IdsOf[b], LAMBDA k : k \in SigningIDs)
      key == IF Signing # <<>> THEN Signing[1] ELSE b
  IN  /\ b \in asks
      /\ asks' = asks \ {b}
      /\ db' = [db EXCEPT ![key] = "local"]
      /\ old' = old \ {key}
      /\ hash' = <<>>
      /\ UNCHANGED <<static, cached, info, adder, closer, staticFlush, culled, raced>>

(* Six months without a recorded execution. *)
Outdate(b) ==
  /\ db[b] = "transitive" /\ b \notin old
  /\ old' = old \union {b}
  /\ UNCHANGED <<db, static, hash, cached, info, adder, closer, staticFlush, asks, culled, raced>>

-----------------------------------------------------------------------------
(* createTransitiveRule, for a file a compiler closed or renamed *)

CloserAt(c, l) == closer' = [closer EXCEPT ![c].pc = l]

(* A close also removes the file from the cache of results. *)
SaveFakeDecision(c, b, close) ==
  /\ closer[c].pc = "idle"
  /\ closer' = [closer EXCEPT ![c] = [pc |-> "lookup", file |-> b]]
  /\ cached' = IF close THEN [cached EXCEPT ![b] = "none"] ELSE cached
  /\ culled' = IF close THEN culled \ {b} ELSE culled
  /\ info' = [info EXCEPT ![b] = "pending"]
  /\ UNCHANGED <<db, static, hash, old, adder, staticFlush, asks, raced>>

(* The file is not an executable. *)
NotExecutable(c) ==
  /\ closer[c].pc = "lookup"
  /\ CloserAt(c, "forget")
  /\ UNCHANGED <<db, static, hash, old, cached, info, adder, staticFlush, asks, culled, raced>>

(* Is there a rule for the hash of the file? *)
LookupPrevious(c) ==
  /\ closer[c].pc = "lookup"
  /\ CloserAt(c, IF Lookup(<<closer[c].file>>) \in {"none", "transitive"} THEN "add" ELSE "forget")
  /\ UNCHANGED <<db, static, hash, old, cached, info, adder, staticFlush, asks, culled, raced>>

(* Mutant of AddTransitive: the hash of the rules is not forgotten. *)
AddTransitiveKeepsHash(c) ==
  /\ closer[c].pc = "add"
  /\ db' = [db EXCEPT ![closer[c].file] = "transitive"]
  /\ CloserAt(c, "forget")
  /\ UNCHANGED <<static, hash, old, cached, info, adder, staticFlush, asks, culled, raced>>

AddTransitive(c) ==
  /\ closer[c].pc = "add"
  /\ db' = [db EXCEPT ![closer[c].file] = "transitive"]
  /\ old' = old \ {closer[c].file}
  /\ hash' = <<>>
  /\ CloserAt(c, "forget")
  /\ UNCHANGED <<static, cached, info, adder, staticFlush, asks, culled, raced>>

(* The database fails. *)
AddTransitiveFails(c) ==
  /\ closer[c].pc = "add"
  /\ CloserAt(c, "forget")
  /\ UNCHANGED <<db, static, hash, old, cached, info, adder, staticFlush, asks, culled, raced>>

RemoveFakeDecision(c) ==
  /\ closer[c].pc = "forget"
  /\ info' = [info EXCEPT ![closer[c].file] = "none"]
  /\ closer' = [closer EXCEPT ![c] = IdleCloser]
  /\ UNCHANGED <<db, static, hash, old, cached, adder, staticFlush, asks, culled, raced>>

-----------------------------------------------------------------------------
Adder(a) ==
  \/ \E batch \in Batches, cleanup \in Cleanups, faa \in BOOLEAN : CheckFlush(a, batch, cleanup, faa)
  \/ RollBack(a) \/ AddRules(a)
  \/ SkipCulling(a) \/ RemoveOutdated(a)
  \/ FlushCache(a)

Closer(c) ==
  \/ \E b \in Binaries, close \in BOOLEAN : SaveFakeDecision(c, b, close)
  \/ NotExecutable(c) \/ LookupPrevious(c)
  \/ AddTransitive(c) \/ AddTransitiveFails(c)
  \/ RemoveFakeDecision(c)

Next ==
  \/ RulesHash
  \/ \E a \in Adders : Adder(a)
  \/ \E rules \in StaticRuleSets : UpdateStaticRules(rules)
  \/ FlushForStaticRules
  \/ \E b \in Binaries :
       ExecuteCached(b) \/ Execute(b) \/ Refuse(b) \/ ApproveStandalone(b) \/ Outdate(b)
  \/ \E c \in Closers : Closer(c)

Spec == Init /\ [][Next]_vars

-----------------------------------------------------------------------------
RuleRecord == [key : Keys, state : States]

(* Every variable has its type; only transitive rules have an outdated     *)
(* timestamp that counts (SNTRuleTable.mm, removeOutdatedTransitiveRules). *)
TypeOK ==
  /\ db \in [Keys -> Stored \union {"none"}] /\ static \in StaticRuleSets
  /\ hash = <<>> \/ hash \in {<<h>> : h \in [Keys -> Stored \union {"none"}]}
  /\ old \subseteq {b \in Binaries : db[b] = "transitive"}
  /\ cached \in [Binaries -> {"none", "allow", "compiler", "transitive"}]
  /\ info \in [Binaries -> {"none", "pending", "allow", "compiler", "transitive", "deny"}]
  /\ adder \in [Adders -> [pc : {"idle", "add", "cull", "flush"}, batch : Batches \union {<<>>},
                           cleanup : CleanupTypes, flush : BOOLEAN]]
  /\ closer \in [Closers -> [pc : {"idle", "lookup", "add", "forget"}, file : Binaries \union {"none"}]]
  /\ staticFlush \in BOOLEAN /\ raced \in BOOLEAN
  /\ asks \subseteq Binaries /\ culled \subseteq Binaries

(* executionRulesHash, which the sync service compares with the server's,  *)
(* describes the rules in the database whenever it is set, whichever       *)
(* transactions failed or ran since it was computed.                       *)
HashCurrent == hash # <<>> => hash = <<HashInput(db)>>

FlushPending == staticFlush \/ \E a \in Adders : adder[a].pc \in {"cull", "flush"} /\ adder[a].flush

(* databaseRuleAddExecutionRules flushes whenever it has to: a cached      *)
(* allow is one the rules still give, or a flush is under way, or the rule *)
(* was transitive and culled, or rules changed between the check whether   *)
(* to flush and the transaction.                                           *)
CachedAllowsJustified ==
  \A b \in Binaries : cached[b] # "none" => Verdict(b) # "deny" \/ FlushPending \/ b \in culled \/ raced

(* "To ensure that the new rule is honored" (SNTRuleTable.mm): the cache   *)
(* allows nothing that the rules deny once the flush is over.              *)
NewRulesHonored ==
  \A b \in Binaries : cached[b] # "none" => Verdict(b) # "deny" \/ FlushPending \/ b \in culled

(* "to make sure cached rules of different precedence rules do not impact  *)
(* final decision" (SNTRuleTable.mm): what is cached as a compiler is one  *)
(* by the rule that takes precedence now.                                  *)
CachedCompilersCurrent ==
  \A b \in Binaries : cached[b] = "compiler" => Verdict(b) = "compiler" \/ FlushPending \/ raced

(* "a allowlist or blocklist rule can't be overwritten by a transitive     *)
(* one" (SNTCompilerController.mm).                                        *)
TransitiveLeavesRules ==
  [][\A b \in Binaries : db'[b] = "transitive" => db[b] \in {"none", "transitive"}]_vars

(* "Whenever a cached decision resulting from a transitive allowlist rule  *)
(* is used to allow the execution of a binary, we update the timestamp"    *)
(* (SNTDecisionCache.mm): the details a cached transitive allow needs for  *)
(* that are there, unless the file is being closed or renamed right now.   *)
UsesAreRecorded ==
  \A b \in Binaries :
    cached[b] = "transitive" =>
      info[b] = "transitive" \/ \E c \in Closers : closer[c].pc # "idle" /\ closer[c].file = b
=============================================================================
