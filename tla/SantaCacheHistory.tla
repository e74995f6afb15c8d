------------------------- MODULE SantaCacheHistory -------------------------
(***************************************************************************)
(* SantaCache with a history variable, and what it implements: the atomic  *)
(* map, until it is full for the first time.                               *)
(***************************************************************************)
EXTENDS SantaCache

(* Some set has found as many keys in the table as it may hold. *)
VARIABLE full
fullVars == <<vars, full>>

Mapped == {k \in Keys : AbsMap[k] # Zero}

FullInit == Init /\ full = FALSE
FullNext ==
  /\ Next
  /\ full' = (full \/ ((\E t \in Threads : pc'[t] = "overflow") /\ Cardinality(Mapped) >= MaxSize))
FullSpec == FullInit /\ [][FullNext]_fullVars /\ \A t \in Threads : WF_vars(Step(t))

(* Until then the table implements the atomic map with results (set, get,   *)
(* update, contains, clear, foreach); in particular nothing is purged       *)
(* before, as count_ does not drift from the number of entries.             *)
ImplementsUntilFull == Abs!Init /\ [][full' \/ Abs!Next]_<<AbsMap, arg, ret>>
=============================================================================
