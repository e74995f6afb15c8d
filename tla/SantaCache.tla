----------------------------- MODULE SantaCache -----------------------------
(***************************************************************************)
(* The concurrent hash table under every decision cache of santad          *)
(* (Source/common/SantaCache.h), at the granularity of its locks: one spin *)
(* lock per bucket, one more (clear_bucket_) that serialises the purge of  *)
(* a full table, and a counter that is read outside every lock of the      *)
(* other buckets.                                                          *)
(*                                                                         *)
(* A bucket's list is only touched by the thread that holds its lock, so a *)
(* step below is the code between two accesses to shared words: a lock, or *)
(* count_.                                                                 *)
(***************************************************************************)
EXTENDS Naturals, Sequences, SequencesExt, FiniteSets

CONSTANTS
  Threads,      \* callers of the cache
  Keys,         \* keys in use
  Values,       \* values other than the zero value
  Zero,         \* zero_: a key with this value is absent
  NoPrev,       \* "has_prev_value is false"
  None,         \* a free lock
  Pending,      \* the result of an operation that has not taken effect
  NumBuckets,   \* bucket_count_
  HashOf,       \* Hasher{}(key) % bucket_count_, counted from 1
  MaxSize,      \* max_size_
  OpKinds,      \* operations the callers use
  MaxOps        \* bound: operations per thread

Buckets == 1..NumBuckets

ASSUME SizesAssumption ==
  /\ NumBuckets \in Nat \ {0}
  /\ MaxSize \in Nat \ {0}
  /\ MaxOps \in Nat
ASSUME HashAssumption == HashOf \in [Keys -> Buckets]
ASSUME NoneAssumption == None \notin Threads
ASSUME ThreadsAssumption == IsFiniteSet(Threads) /\ Threads # {}
ASSUME ZeroAssumption == Zero \notin Values

VARIABLES
  chain,        \* bucket -> list reachable from bucket->head
  freed,        \* buckets whose entries were deleted and not yet zeroed
  lock,         \* bucket -> thread holding bit 7 of bucket->head, or None
  clearLock,    \* holder of clear_bucket_
  count,        \* count_
  pc, arg, idx, \* per thread: point in the code, operation, bucket loop index
  ret,          \* per thread: the operation's result once it took effect
  ops           \* per thread: operations begun

tables == <<chain, freed, count, ret>>
vars == <<chain, freed, lock, clearLock, count, pc, arg, idx, ret, ops>>

PrevValues == Values \union {Zero, NoPrev}
Entries == [key : Keys, val : Values \union {Zero}]
KeyedOps == [op : {"get", "contains", "update"}, key : Keys, val : Values,
             prev : {NoPrev}]
        \union [op : {"set"}, key : Keys, val : Values \union {Zero}, prev : PrevValues]
TableOps == [op : {"clear", "foreach", "bucket_counts"}]
Operations == {o \in KeyedOps \union TableOps : o.op \in OpKinds}

Bucket(t) == HashOf[arg[t].key]

(* Position of the first entry for key k in list s, 0 if there is none. *)
Find(s, k) == SelectInSeq(s, LAMBDA e : e.key = k)

(* What a lookup of k under the bucket's lock returns. *)
Lookup(k) ==
  LET s == chain[HashOf[k]]
      i == Find(s, k)
  IN  IF i = 0 THEN Zero ELSE s[i].val

Entry(k, v) == [key |-> k, val |-> v]

Init ==
  /\ chain = [b \in Buckets |-> <<>>]
  /\ freed = {}
  /\ lock = [b \in Buckets |-> None]
  /\ clearLock = None
  /\ count = 0
  /\ pc = [t \in Threads |-> "idle"]
  /\ arg = [t \in Threads |-> [op |-> "none"]]
  /\ idx = [t \in Threads |-> 1]
  /\ ret = [t \in Threads |-> Pending]
  /\ ops = [t \in Threads |-> 0]

Goto(t, l) == pc' = [pc EXCEPT ![t] = l]
Acquire(t, b) == lock[b] = None /\ lock' = [lock EXCEPT ![b] = t]
Release(b) == lock' = [lock EXCEPT ![b] = None]
Finish(t, result) ==
  /\ Goto(t, "idle")
  /\ ret' = [ret EXCEPT ![t] = result]

(* A caller enters one of the public operations. *)
Begin(t) ==
  /\ pc[t] = "idle"
  /\ ops[t] < MaxOps
  /\ \E o \in Operations :
       /\ arg' = [arg EXCEPT ![t] = o]
       /\ \/ o.op = "clear" /\ Goto(t, "clear")
          \/ o.op = "foreach" /\ Goto(t, "each")
          \/ o.op = "bucket_counts" /\ Goto(t, "counts")
          \/ o.op \notin {"clear", "foreach", "bucket_counts"} /\ Goto(t, "lock")
  /\ idx' = [idx EXCEPT ![t] = 1]
  /\ ops' = [ops EXCEPT ![t] = @ + 1]
  /\ ret' = [ret EXCEPT ![t] = Pending]
  /\ UNCHANGED <<chain, freed, lock, clearLock, count>>

(* lock(bucket) at the head of get, contains and set. *)
LockBucket(t) ==
  /\ pc[t] = "lock"
  /\ Acquire(t, Bucket(t))
  /\ Goto(t, "scan")
  /\ UNCHANGED <<clearLock, arg, idx, ops, tables>>

(* get: the scan of the list under the bucket's lock. *)
Get(t) ==
  /\ pc[t] = "scan" /\ arg[t].op = "get"
  /\ Finish(t, Lookup(arg[t].key))
  /\ Release(Bucket(t))
  /\ UNCHANGED <<chain, freed, clearLock, count, arg, idx, ops>>

(* contains, with the block that accepts the values equal to val. *)
ContainsKey(t) ==
  /\ pc[t] = "scan" /\ arg[t].op = "contains"
  /\ Finish(t, Lookup(arg[t].key) = arg[t].val)
  /\ Release(Bucket(t))
  /\ UNCHANGED <<chain, freed, clearLock, count, arg, idx, ops>>

(* Mutant of SetPresent: the refused CAS returns without unlocking. *)
SetPresentLeaksLock(t) ==
  LET b == Bucket(t)
      i == Find(chain[b], arg[t].key)
  IN  /\ pc[t] = "scan" /\ arg[t].op \in {"set", "update"}
      /\ i # 0
      /\ IF arg[t].prev \notin {NoPrev, chain[b][i].val}
         THEN Finish(t, FALSE) /\ UNCHANGED <<chain, lock>>
         ELSE /\ chain' = [chain EXCEPT ![b][i].val = arg[t].val]
              /\ Finish(t, TRUE) /\ Release(b)
      /\ UNCHANGED <<freed, clearLock, count, arg, idx, ops>>

(* set and update on a key that is present: replace, delete or refuse. *)
SetPresent(t) ==
  LET a == arg[t]
      b == Bucket(t)
      i == Find(chain[b], a.key)
  IN  /\ pc[t] = "scan" /\ a.op \in {"set", "update"}
      /\ i # 0
      /\ \/ /\ a.prev # NoPrev /\ a.prev # chain[b][i].val
            /\ Finish(t, FALSE)
            /\ UNCHANGED <<chain, count>>
         \/ /\ a.prev \in {NoPrev, chain[b][i].val}
            /\ a.val # Zero
            /\ chain' = [chain EXCEPT ![b][i].val = a.val]
            /\ Finish(t, TRUE)
            /\ UNCHANGED count
         \/ /\ a.prev \in {NoPrev, chain[b][i].val}
            /\ a.val = Zero
            /\ chain' = [chain EXCEPT ![b] = RemoveAt(@, i)]
            /\ count' = count - 1
            /\ Finish(t, TRUE)
      /\ Release(b)
      /\ UNCHANGED <<freed, clearLock, arg, idx, ops>>

(* set and update on a key that is absent, up to the check of the size. *)
SetAbsent(t) ==
  LET a == arg[t]
      b == Bucket(t)
      Refused == a.val = Zero \/ a.prev \notin {NoPrev, Zero}
  IN  /\ pc[t] = "scan" /\ a.op \in {"set", "update"}
      /\ Find(chain[b], a.key) = 0
      /\ \/ Refused /\ Finish(t, FALSE) /\ Release(b)
         \/ /\ ~Refused /\ count + 1 > MaxSize
            /\ Goto(t, "overflow") /\ Release(b)
            /\ UNCHANGED ret
         \/ /\ ~Refused /\ count + 1 <= MaxSize
            /\ Goto(t, "insert")
            /\ UNCHANGED <<ret, lock>>
      /\ UNCHANGED <<chain, freed, clearLock, count, arg, idx, ops>>

(* The table was full: wait for clear_bucket_. *)
LockClear(t) ==
  /\ pc[t] = "overflow"
  /\ clearLock = None
  /\ clearLock' = t
  /\ Goto(t, "recheck")
  /\ UNCHANGED <<lock, arg, idx, ops, tables>>

(* Mutant of Recheck: the table is never purged. *)
RecheckKeeps(t) ==
  /\ pc[t] = "recheck"
  /\ Goto(t, "relock")
  /\ UNCHANGED <<lock, clearLock, arg, idx, ops, tables>>

(* Another thread may have purged meanwhile: look at count_ again. *)
Recheck(t) ==
  /\ pc[t] = "recheck"
  /\ Goto(t, IF count + 1 > MaxSize THEN "clear" ELSE "relock")
  /\ idx' = [idx EXCEPT ![t] = 1]
  /\ UNCHANGED <<lock, clearLock, arg, ops, tables>>

(* Mutant of ClearBucket: the bucket is not kept locked until the bzero. *)
ClearBucketUnlocked(t) ==
  /\ pc[t] = "clear" /\ idx[t] <= NumBuckets
  /\ lock[idx[t]] = None
  /\ freed' = freed \union {idx[t]}
  /\ idx' = [idx EXCEPT ![t] = @ + 1]
  /\ UNCHANGED <<chain, lock, clearLock, count, pc, arg, ret, ops>>

(* clear: lock the next bucket and delete its entries; head still points at *)
(* the deleted list until the bzero.                                        *)
ClearBucket(t) ==
  /\ pc[t] = "clear" /\ idx[t] <= NumBuckets
  /\ Acquire(t, idx[t])
  /\ freed' = freed \union {idx[t]}
  /\ idx' = [idx EXCEPT ![t] = @ + 1]
  /\ UNCHANGED <<chain, clearLock, count, pc, arg, ret, ops>>

(* Mutant of ClearCount: count_ is not reset. *)
ClearCountKept(t) ==
  /\ pc[t] = "clear" /\ idx[t] > NumBuckets
  /\ idx' = [idx EXCEPT ![t] = 1]
  /\ Goto(t, "bzero")
  /\ ret' = IF arg[t].op = "clear" THEN [ret EXCEPT ![t] = TRUE] ELSE ret
  /\ UNCHANGED <<chain, freed, lock, clearLock, count, arg, ops>>

(* clear: every lock is held, reset the counter. *)
ClearCount(t) ==
  /\ pc[t] = "clear" /\ idx[t] > NumBuckets
  /\ count' = 0
  /\ idx' = [idx EXCEPT ![t] = 1]
  /\ Goto(t, "bzero")
  /\ ret' = IF arg[t].op = "clear" THEN [ret EXCEPT ![t] = TRUE] ELSE ret
  /\ UNCHANGED <<chain, freed, lock, clearLock, arg, ops>>

(* clear: the bzero empties and unlocks one bucket after the other. *)
ZeroBucket(t) ==
  /\ pc[t] = "bzero" /\ idx[t] <= NumBuckets
  /\ chain' = [chain EXCEPT ![idx[t]] = <<>>]
  /\ freed' = freed \ {idx[t]}
  /\ Release(idx[t])
  /\ idx' = [idx EXCEPT ![t] = @ + 1]
  /\ UNCHANGED <<clearLock, count, pc, arg, ret, ops>>

(* clear returns: to the caller, or to the set that found the table full. *)
ClearDone(t) ==
  /\ pc[t] = "bzero" /\ idx[t] > NumBuckets
  /\ Goto(t, IF arg[t].op = "clear" THEN "idle" ELSE "relock")
  /\ UNCHANGED <<lock, clearLock, arg, idx, ops, tables>>

(* lock(bucket); unlock(&clear_bucket_). *)
Relock(t) ==
  /\ pc[t] = "relock"
  /\ Acquire(t, Bucket(t))
  /\ clearLock' = None
  /\ Goto(t, "insert")
  /\ UNCHANGED <<arg, idx, ops, tables>>

(* Put the new entry at the head of the list. *)
Insert(t) ==
  LET b == Bucket(t)
  IN  /\ pc[t] = "insert"
      /\ chain' = [chain EXCEPT ![b] = <<Entry(arg[t].key, arg[t].val)>> \o @]
      /\ count' = count + 1
      /\ Finish(t, TRUE)
      /\ Release(b)
      /\ UNCHANGED <<freed, clearLock, arg, idx, ops>>

(* foreach: lock every bucket from index 0. *)
EachLock(t) ==
  /\ pc[t] = "each" /\ idx[t] <= NumBuckets
  /\ Acquire(t, idx[t])
  /\ idx' = [idx EXCEPT ![t] = @ + 1]
  /\ UNCHANGED <<clearLock, pc, arg, ops, tables>>

(* foreach: visit all pairs with every lock held. *)
EachVisit(t) ==
  /\ pc[t] = "each" /\ idx[t] > NumBuckets
  /\ idx' = [idx EXCEPT ![t] = 1]
  /\ Goto(t, "unlockall")
  /\ ret' = [ret EXCEPT ![t] = [k \in Keys |-> Lookup(k)]]
  /\ UNCHANGED <<chain, freed, lock, clearLock, count, arg, ops>>

(* foreach: unlock the buckets in the same order. *)
EachUnlock(t) ==
  /\ pc[t] = "unlockall"
  /\ \/ /\ idx[t] <= NumBuckets
        /\ Release(idx[t])
        /\ idx' = [idx EXCEPT ![t] = @ + 1]
        /\ UNCHANGED pc
     \/ /\ idx[t] > NumBuckets
        /\ Goto(t, "idle")
        /\ UNCHANGED <<lock, idx>>
  /\ UNCHANGED <<clearLock, arg, ops, tables>>

(* bucket_counts: visit one bucket after the other under its own lock. *)
BucketCounts(t) ==
  /\ pc[t] = "counts"
  /\ \/ /\ idx[t] <= NumBuckets
        /\ lock[idx[t]] = None
        /\ idx' = [idx EXCEPT ![t] = @ + 1]
        /\ UNCHANGED pc
     \/ /\ idx[t] > NumBuckets
        /\ Goto(t, "idle")
        /\ UNCHANGED idx
  /\ UNCHANGED <<lock, clearLock, arg, ops, tables>>

(* The rest of an operation that has begun. *)
Step(t) ==
  \/ LockBucket(t) \/ Get(t) \/ ContainsKey(t) \/ SetPresent(t) \/ SetAbsent(t)
  \/ LockClear(t) \/ Recheck(t) \/ ClearBucket(t) \/ ClearCount(t)
  \/ ZeroBucket(t) \/ ClearDone(t) \/ Relock(t) \/ Insert(t)
  \/ EachLock(t) \/ EachVisit(t) \/ EachUnlock(t) \/ BucketCounts(t)

(* All callers are done: the only state in which nothing more happens. *)
Finished ==
  /\ \A t \in Threads : pc[t] = "idle" /\ ops[t] = MaxOps
  /\ UNCHANGED vars

Next == (\E t \in Threads : Begin(t) \/ Step(t)) \/ Finished

Spec == Init /\ [][Next]_vars
FairSpec == Spec /\ \A t \in Threads : WF_vars(Step(t))

-----------------------------------------------------------------------------
PCs == {"idle", "lock", "scan", "overflow", "recheck", "clear", "bzero", "relock",
        "insert", "each", "unlockall", "counts"}

(* Every variable has its type; count_, which set and clear change under  *)
(* different locks, never goes below zero.                                 *)
TypeOK ==
  /\ chain \in [Buckets -> Seq(Entries)]
  /\ freed \subseteq Buckets
  /\ lock \in [Buckets -> Threads \union {None}]
  /\ clearLock \in Threads \union {None}
  /\ count \in Nat
  /\ pc \in [Threads -> PCs]
  /\ idx \in [Threads -> 1..NumBuckets + 1]
  /\ ops \in [Threads -> 0..MaxOps]

(* No thread walks a list whose entries a clear has deleted: clear keeps a  *)
(* bucket locked from the delete to the bzero, also while other threads     *)
(* overflow, clear or iterate.                                              *)
NoUseAfterFree ==
  \A t \in Threads :
    /\ pc[t] \in {"scan", "insert"} => Bucket(t) \notin freed
    /\ pc[t] = "each" => \A b \in 1..(idx[t] - 1) : b \notin freed

(* The check of the size and the insertion are not atomic across buckets:   *)
(* every thread may have one insertion under way that was checked against   *)
(* the same count_, and no more than that.                                  *)
Inserting ==
  {t \in Threads : \/ pc[t] \in {"insert", "relock"}
                   \/ pc[t] = "bzero" /\ arg[t].op # "clear"}
SizeBound == count <= MaxSize + Cardinality(Threads) - 1

(* Every operation that begins returns: no thread is left spinning on a     *)
(* bucket lock, on clear_bucket_, or on a lock nobody gives back.           *)
Termination == <>[](\A t \in Threads : pc[t] = "idle")

-----------------------------------------------------------------------------
(* What the operations promise: a map that each operation reads or changes  *)
(* at one instant.  A clear takes effect when it resets count_.             *)
AbsMap ==
  [k \in Keys |->
     IF \E t \in Threads : pc[t] = "bzero" /\ idx[t] <= HashOf[k]
     THEN Zero ELSE Lookup(k)]

Abs == INSTANCE AtomicMap WITH map <- AbsMap

(* "Enforces a maximum size by clearing all entries if a new value is added *)
(* that would go over the maximum size" (class comment).                    *)
SizeEnforced == count <= MaxSize

(* "The new value will only be set if this parameter is equal to the        *)
(* existing value in the cache.  This allows set to become a CAS operation" *)
(* (comment of set with a previous value).                                  *)
CASSetsOnlyIfEqual ==
  [][\A t \in Threads :
       (Insert(t) /\ arg[t].prev # NoPrev) => Lookup(arg[t].key) = arg[t].prev]_vars
=============================================================================
