----------------------------- MODULE MCFileAccess -----------------------------
(* Instances of FileAccess: rules that differ in what a change may make stale. *)
EXTENDS FileAccess

F1 == <<"a">>
F2 == <<"a", "b">>
MCFiles == {F1, F2}

On(k, f, g) == [kind |-> k, src |-> f, dst |-> g]
MCAccesses == {On("read", F2, F2), On("write", F2, F2), On("clone", F1, F2), On("rename", F1, F2)}

\* Only the tool with the broken signature may become an ES client.
MCImages == [i \in {"tool", "broken"} |-> [path |-> "/tool", sid |-> "s", team |-> "T",
    platform |-> FALSE, signed |-> TRUE, valid |-> i = "tool", es |-> i = "broken"]]

ByTeamSid == [path |-> "", sid |-> "s", sidTeam |-> "T", team |-> "", platform |-> FALSE]
ByBareSid == [path |-> "", sid |-> "s", sidTeam |-> "", team |-> "", platform |-> FALSE]
ByPath == [path |-> "/script", sid |-> "", sidTeam |-> "", team |-> "", platform |-> FALSE]

Rule(path, paths, rd, denied, procs) == [path |-> path, paths |-> paths, reads |-> rd,
    audit |-> FALSE, denied |-> denied, procs |-> procs]
Under(f) == [file |-> f, prefix |-> TRUE]
Just(f) == [file |-> f, prefix |-> FALSE]
MCRules == [n \in {"d1", "d2", "d3", "d4", "p1", "p2"} |->
    CASE n = "d1" -> Rule(Under(F1), {}, TRUE, FALSE, {ByTeamSid})
      [] n = "d2" -> Rule(Under(F1), {}, FALSE, FALSE, {ByPath})
      [] n = "d3" -> Rule(Just(F2), {}, FALSE, TRUE, {ByTeamSid})
      [] n = "d4" -> Rule(Under(F2), {}, FALSE, FALSE, {ByBareSid})
      [] n = "p1" -> Rule(Under(F1), {Under(F1)}, TRUE, FALSE, {ByTeamSid})
      [] n = "p2" -> Rule(Under(F1), {Just(F1)}, FALSE, TRUE, {ByTeamSid})]

MCConfigs == {"open", "strict", "none"}
MCRulesIn == [c \in MCConfigs |->
    CASE c = "open" -> [data |-> {"d1"}, proc |-> {"p1"}]
      [] c = "strict" -> [data |-> {"d2", "d3"}, proc |-> {"p2"}]
      [] c = "none" -> [data |-> {"d4"}, proc |-> {}]]
================================================================================
