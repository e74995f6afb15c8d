---------------------------- MODULE MCRuleTable -----------------------------
(* Instances of RuleTable: a binary with a signing ID, the sync service,    *)
(* static rules that come and go.                                           *)
EXTENDS RuleTable

MCSignedIds == [b \in Binaries |-> <<b>> \o SetToSeq(SigningIDs) \o SetToSeq(TeamIDs)]

MCRules(keys, states) == [key : keys, state : states]
MCSingles(keys, states) == {<<r>> : r \in MCRules(keys, states)}
MCPairs(keys, states) == {<<r, s>> : r, s \in MCRules(keys, states)}

(* Single rules, pairs whose order matters, an array with an invalid rule,  *)
(* the empty array.                                                         *)
MCBatches ==
  {<<>>} \union MCSingles(Binaries, States \ {"transitive", "local", "invalid"})
    \union MCSingles(SigningIDs, {"allow", "block", "compiler", "remove"})
    \union MCPairs(Binaries, {"allow", "block"})
    \union {<<[key |-> b, state |-> "block"], [key |-> k, state |-> "invalid"]>> :
              b \in Binaries, k \in SigningIDs}

MCTwoCleanups == {"None", "NonTransitive"}
MCStaticSets == {NoRules, [k \in Keys |-> IF k \in Binaries THEN "block" ELSE "none"]}
=============================================================================
