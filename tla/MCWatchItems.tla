---------------------------- MODULE MCWatchItems ----------------------------
(* Instances of WatchItems: dictionaries that share a path.                 *)
EXTENDS WatchItems

CONSTANTS d1, d2, pol, f1, bad, empty, p1, p2

MCConfigs == {d1, d2, pol, f1, bad, empty}
MCPathsOf == [c \in Configs |-> CASE c = d1 -> {p1} [] c = d2 -> {p1, p2} [] c = pol -> {p2}
                                  [] c = f1 -> {p1} [] OTHER -> {}]
=============================================================================
