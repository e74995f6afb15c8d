----------------------------- MODULE MCExecAuth -----------------------------
(* Small instances of ExecAuth for TLC.                                     *)
EXTENDS ExecAuth

\* All executions run the same executable.
OneFile == [e \in Execs |-> "f"]

Start(r, call1, call2) == [rule |-> [f \in Files |-> r], calls |-> <<call1, call2>>]
Add(r) == [at |-> "add", file |-> "f", rule |-> r]

\* A policy that changes while somebody flushes, an expression that a rule
\* replaces, and a binary that is unknown in standalone mode.
ThreeStarts ==
  {Start("allow", Add("deny"), At("command")),
   Start("cel", Add("deny"), At("done")),
   Start("ask", At("done"), At("done"))}
=============================================================================
