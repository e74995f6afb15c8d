----------------------------- MODULE AtomicMap -----------------------------
(***************************************************************************)
(* What Source/common/SantaCache.h promises its callers: a map from keys   *)
(* to values in which every operation takes effect at one instant.  (It    *)
(* promises that only as long as the table is not full.)                   *)
(***************************************************************************)
CONSTANTS Threads, Keys, Values, Zero, NoPrev, Pending, Operations

VARIABLES
  map,     \* the contents, Zero for an absent key
  arg,     \* per thread: the operation it called last
  ret      \* per thread: its result, Pending until it takes effect

vars == <<map, arg, ret>>

(* A set with a previous value takes place only on that value; a set of the *)
(* zero value on an absent key is refused.                                  *)
Accepts(o) ==
  /\ o.prev \in {NoPrev, map[o.key]}
  /\ ~(o.val = Zero /\ map[o.key] = Zero)

Result(o) ==
  CASE o.op = "get"      -> map[o.key]
    [] o.op = "contains" -> map[o.key] = o.val
    [] o.op = "foreach"  -> map
    [] o.op = "clear"    -> TRUE
    [] OTHER             -> Accepts(o)

Effect(o) ==
  CASE o.op \in {"set", "update"} -> IF Accepts(o) THEN [map EXCEPT ![o.key] = o.val] ELSE map
    [] o.op = "clear"             -> [k \in Keys |-> Zero]
    [] OTHER                      -> map

Init ==
  /\ map = [k \in Keys |-> Zero]
  /\ arg = [t \in Threads |-> [op |-> "none"]]
  /\ ret = [t \in Threads |-> Pending]

Call(t, o) ==
  /\ arg' = [arg EXCEPT ![t] = o]
  /\ ret' = [ret EXCEPT ![t] = Pending]
  /\ UNCHANGED map

(* bucket_counts reads one bucket at a time: it promises nothing here. *)
Do(t) ==
  /\ arg[t].op \notin {"none", "bucket_counts"}
  /\ ret[t] = Pending
  /\ ret' = [ret EXCEPT ![t] = Result(arg[t])]
  /\ map' = Effect(arg[t])
  /\ UNCHANGED arg

Next == \E t \in Threads : Do(t) \/ \E o \in Operations : Call(t, o)

Spec == Init /\ [][Next]_vars
=============================================================================
