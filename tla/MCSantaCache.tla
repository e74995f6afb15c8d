---------------------------- MODULE MCSantaCache ----------------------------
(* Small instances of SantaCache for TLC: three keys, two buckets.         *)
EXTENDS SantaCacheHistory

Apart == [k \in Keys |-> IF k = "b" THEN 2 ELSE 1]
=============================================================================
