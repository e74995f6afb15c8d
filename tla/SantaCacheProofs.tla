-------------------------- MODULE SantaCacheProofs --------------------------
(***************************************************************************)
(* Proofs about SantaCache for any number of threads, keys and buckets:    *)
(* the locking discipline, the absence of use after free, the bound on the *)
(* number of entries, and the refinement: until it is full for the first   *)
(* time, the table implements AtomicMap.                                   *)
(***************************************************************************)
EXTENDS SantaCacheHistory, Integers, FiniteSetTheorems, SequenceTheorems, TLAPS

(* The part of the types that the locking discipline needs. *)
CtlType ==
  /\ freed \subseteq Buckets
  /\ lock \in [Buckets -> Threads \union {None}]
  /\ clearLock \in Threads \union {None}
  /\ count \in Int
  /\ DOMAIN pc = Threads /\ DOMAIN arg = Threads
  /\ idx \in [Threads -> Nat \ {0}]

KeyedPCs == {"lock", "scan", "overflow", "recheck", "relock", "insert"}

(* The operation of a thread that works on one key names a key. *)
ArgKeyed(t) ==
  /\ pc[t] \in KeyedPCs => arg[t].key \in Keys /\ arg[t].op # "clear"
  /\ pc[t] \in {"clear", "bzero"} /\ arg[t].op # "clear" => arg[t].key \in Keys

(* The locks that each point of the code holds. *)
Holds(t) ==
  /\ pc[t] \in {"scan", "insert"} => lock[Bucket(t)] = t
  /\ pc[t] \in {"clear", "each"} => \A b \in Buckets : b < idx[t] => lock[b] = t
  /\ pc[t] \in {"bzero", "unlockall"} => \A b \in Buckets : b >= idx[t] => lock[b] = t
  /\ pc[t] \in {"recheck", "relock"} => clearLock = t
  /\ pc[t] \in {"clear", "bzero"} /\ arg[t].op # "clear" => clearLock = t

(* A deleted list belongs to a clear that has not zeroed the bucket yet. *)
Purging(t, b) ==
  \/ pc[t] = "clear" /\ b < idx[t]
  \/ pc[t] = "bzero" /\ b >= idx[t]
FreedByClear ==
  \A b \in Buckets : b \in freed => \E t \in Threads : Purging(t, b)

LockInv ==
  /\ CtlType
  /\ \A t \in Threads : ArgKeyed(t) /\ Holds(t)
  /\ FreedByClear

(* The operations in use, by the shape of their records. *)
LEMMA KeyedOperations ==
  ASSUME NEW o \in Operations, o.op \notin {"clear", "foreach", "bucket_counts"}
  PROVE  o.key \in Keys
BY DEF Operations, KeyedOps, TableOps

LEMMA InitLockInv == Init => LockInv
BY SizesAssumption DEF Init, LockInv, CtlType, ArgKeyed, Holds, FreedByClear, KeyedPCs, Buckets

(* A step of t that leaves u's locals alone and takes none of u's locks     *)
(* away keeps what the invariant says of u.                                 *)
LEMMA OthersKeep ==
  ASSUME LockInv, NEW u \in Threads,
         pc'[u] = pc[u], arg'[u] = arg[u], idx'[u] = idx[u],
         \A b \in Buckets : lock[b] = u => lock'[b] = u,
         clearLock = u => clearLock' = u
  PROVE  ArgKeyed(u)' /\ Holds(u)'
<1>1. ArgKeyed(u)'
  BY DEF LockInv, ArgKeyed
<1>2. pc[u] \in {"scan", "insert"} => Bucket(u) \in Buckets
  BY HashAssumption DEF LockInv, ArgKeyed, KeyedPCs, Bucket
<1>3. Holds(u)'
  BY <1>2 DEF LockInv, Holds, Bucket
<1> QED BY <1>1, <1>3

(* Entering an operation holds no lock and touches no bucket. *)
LEMMA BeginLockInv ==
  ASSUME LockInv, NEW t \in Threads, Begin(t)
  PROVE  LockInv'
<1>1. PICK o \in Operations :
        /\ arg' = [arg EXCEPT ![t] = o]
        /\ \/ o.op = "clear" /\ Goto(t, "clear")
           \/ o.op = "foreach" /\ Goto(t, "each")
           \/ o.op = "bucket_counts" /\ Goto(t, "counts")
           \/ o.op \notin {"clear", "foreach", "bucket_counts"} /\ Goto(t, "lock")
  BY DEF Begin
<1>2. o.op \notin {"clear", "foreach", "bucket_counts"} => o.key \in Keys
  BY KeyedOperations
<1>3. CtlType'
  BY <1>1 DEF LockInv, CtlType, Begin, Goto
<1>4. ASSUME NEW u \in Threads PROVE ArgKeyed(u)' /\ Holds(u)'
  <2>1. CASE u = t
    BY <1>1, <1>2, <2>1, SizesAssumption
       DEF LockInv, CtlType, Begin, Goto, ArgKeyed, Holds, KeyedPCs, Buckets
  <2>2. CASE u # t
    BY <1>1, <2>2, OthersKeep DEF LockInv, CtlType, Begin, Goto
  <2> QED BY <2>1, <2>2
<1>5. FreedByClear'
  BY <1>1 DEF LockInv, CtlType, FreedByClear, Purging, Begin, Goto
<1> QED BY <1>3, <1>4, <1>5 DEF LockInv

(* One bucket's lock is taken, used and given back. *)
LEMMA BucketStepsLockInv ==
  ASSUME LockInv, NEW t \in Threads,
         \/ LockBucket(t) \/ Get(t) \/ ContainsKey(t) \/ SetPresent(t)
         \/ SetAbsent(t) \/ Insert(t) \/ Relock(t)
  PROVE  LockInv'
<1>1. Bucket(t) \in Buckets
  BY HashAssumption DEF LockInv, ArgKeyed, KeyedPCs, Bucket,
     LockBucket, Get, ContainsKey, SetPresent, SetAbsent, Insert, Relock
<1> DEFINE Took == lock[Bucket(t)] = None /\ lock' = [lock EXCEPT ![Bucket(t)] = t]
           Gave == pc[t] \in {"scan", "insert"} /\ lock' = [lock EXCEPT ![Bucket(t)] = None]
<1>2. /\ arg' = arg /\ idx' = idx /\ freed' = freed
      /\ count' \in Int
      /\ \/ /\ pc[t] = "lock" /\ pc' = [pc EXCEPT ![t] = "scan"] /\ Took
            /\ clearLock' = clearLock
         \/ /\ pc[t] = "relock" /\ pc' = [pc EXCEPT ![t] = "insert"] /\ Took
            /\ clearLock' = None
         \/ /\ Gave /\ clearLock' = clearLock
            /\ \/ pc' = [pc EXCEPT ![t] = "idle"]
               \/ pc' = [pc EXCEPT ![t] = "overflow"]
         \/ /\ pc[t] = "scan" /\ pc' = [pc EXCEPT ![t] = "insert"]
            /\ lock' = lock /\ clearLock' = clearLock
  <2>1. CASE LockBucket(t) BY <2>1 DEF LockBucket, Acquire, Goto, LockInv, CtlType, tables
  <2>2. CASE Get(t) BY <2>2 DEF Get, Finish, Release, Goto, LockInv, CtlType
  <2>3. CASE ContainsKey(t) BY <2>3 DEF ContainsKey, Finish, Release, Goto, LockInv, CtlType
  <2>4. CASE SetPresent(t) BY <2>4 DEF SetPresent, Finish, Release, Goto, LockInv, CtlType
  <2>5. CASE SetAbsent(t) BY <2>5 DEF SetAbsent, Finish, Release, Goto, LockInv, CtlType
  <2>6. CASE Insert(t) BY <2>6 DEF Insert, Finish, Release, Goto, LockInv, CtlType
  <2>7. CASE Relock(t) BY <2>7 DEF Relock, Acquire, Goto, LockInv, CtlType, tables
  <2> QED BY <2>1, <2>2, <2>3, <2>4, <2>5, <2>6, <2>7
<1>3. CtlType'
  BY <1>1, <1>2 DEF LockInv, CtlType
<1>4. pc[t] \in {"scan", "insert"} => lock[Bucket(t)] = t
  BY DEF LockInv, Holds
<1>5. pc[t] = "relock" => clearLock = t
  BY DEF LockInv, Holds
<1>6. ArgKeyed(t)' /\ Holds(t)'
  <2>1. ArgKeyed(t)'
    BY <1>2 DEF LockInv, CtlType, ArgKeyed, KeyedPCs
  <2>2. Bucket(t)' = Bucket(t)
    BY <1>2 DEF Bucket
  <2>3. pc'[t] \in {"scan", "insert"} => lock'[Bucket(t)] = t
    BY <1>1, <1>2, <1>4 DEF LockInv, CtlType
  <2>4. pc'[t] \in {"scan", "insert", "idle", "overflow"}
    BY <1>2 DEF LockInv, CtlType
  <2> QED BY <2>1, <2>2, <2>3, <2>4 DEF Holds
<1>7. ASSUME NEW u \in Threads, u # t PROVE ArgKeyed(u)' /\ Holds(u)'
  <2>1. pc'[u] = pc[u] /\ arg'[u] = arg[u] /\ idx'[u] = idx[u]
    BY <1>2, <1>7 DEF LockInv, CtlType
  <2>2. \A b \in Buckets : lock[b] = u => lock'[b] = u
    BY <1>1, <1>2, <1>4, <1>7, NoneAssumption DEF LockInv, CtlType
  <2>3. clearLock = u => clearLock' = u
    BY <1>2, <1>5, <1>7
  <2> QED BY <2>1, <2>2, <2>3, OthersKeep
<1>8. FreedByClear'
  BY <1>2 DEF LockInv, CtlType, FreedByClear, Purging
<1> QED BY <1>3, <1>6, <1>7, <1>8 DEF LockInv

(* The purge and the public clear. *)
LEMMA ClearStepsLockInv ==
  ASSUME LockInv, NEW t \in Threads,
         \/ LockClear(t) \/ Recheck(t) \/ ClearBucket(t) \/ ClearCount(t)
         \/ ZeroBucket(t) \/ ClearDone(t)
  PROVE  LockInv'
<1>1. CASE LockClear(t) \/ Recheck(t)
  <2>1. CtlType'
    BY <1>1 DEF LockClear, Recheck, Goto, tables, LockInv, CtlType
  <2>2. ArgKeyed(t)' /\ Holds(t)'
    <3>1. CASE LockClear(t)
      BY <3>1 DEF LockClear, Goto, tables, LockInv, CtlType, ArgKeyed, Holds, KeyedPCs
    <3>2. CASE Recheck(t)
      BY <3>2, SizesAssumption DEF Recheck, Goto, tables, LockInv, CtlType, ArgKeyed, Holds,
         KeyedPCs, Buckets
    <3> QED BY <1>1, <3>1, <3>2
  <2>3. ASSUME NEW u \in Threads, u # t PROVE ArgKeyed(u)' /\ Holds(u)'
    BY <1>1, <2>3, NoneAssumption, OthersKeep
       DEF LockClear, Recheck, Goto, tables, LockInv, CtlType
  <2>4. FreedByClear'
    BY <1>1 DEF LockClear, Recheck, Goto, tables, LockInv, CtlType, FreedByClear, Purging
  <2> QED BY <2>1, <2>2, <2>3, <2>4 DEF LockInv
<1>2. CASE ClearBucket(t)
  <2>1. idx[t] \in Buckets
    BY <1>2, SizesAssumption DEF ClearBucket, LockInv, CtlType, Buckets
  <2>2. CtlType'
    BY <1>2, <2>1 DEF ClearBucket, Acquire, LockInv, CtlType
  <2>3. ArgKeyed(t)' /\ Holds(t)'
    BY <1>2, <2>1 DEF ClearBucket, Acquire, LockInv, CtlType, ArgKeyed, Holds, KeyedPCs, Buckets
  <2>4. ASSUME NEW u \in Threads, u # t PROVE ArgKeyed(u)' /\ Holds(u)'
    BY <1>2, <2>1, <2>4, NoneAssumption, OthersKeep DEF ClearBucket, Acquire, LockInv, CtlType
  <2>5. FreedByClear'
    <3> SUFFICES ASSUME NEW b \in Buckets, b \in freed'
                 PROVE \E u \in Threads : Purging(u, b)'
      BY DEF FreedByClear
    <3>1. CASE b = idx[t]
      BY <1>2, <2>1, <3>1 DEF ClearBucket, LockInv, CtlType, Buckets, Purging
    <3>2. CASE b \in freed
      <4>1. PICK u \in Threads : Purging(u, b)
        BY <3>2 DEF LockInv, FreedByClear
      <4>2. b \in Int
        BY <3>2, SizesAssumption DEF LockInv, CtlType, Buckets
      <4> QED BY <1>2, <4>1, <4>2 DEF ClearBucket, LockInv, CtlType, Purging
    <3> QED BY <1>2, <3>1, <3>2 DEF ClearBucket
  <2> QED BY <2>2, <2>3, <2>4, <2>5 DEF LockInv
<1>3. CASE ClearCount(t)
  <2>1. CtlType'
    BY <1>3 DEF ClearCount, Goto, LockInv, CtlType
  <2>2. ArgKeyed(t)' /\ Holds(t)'
    BY <1>3, SizesAssumption, SMTT(20) DEF ClearCount, Goto, LockInv, CtlType, ArgKeyed, Holds, KeyedPCs, Buckets
  <2>3. ASSUME NEW u \in Threads, u # t PROVE ArgKeyed(u)' /\ Holds(u)'
    BY <1>3, <2>3, OthersKeep DEF ClearCount, Goto, LockInv, CtlType
  <2>4. FreedByClear'
    BY <1>3, SizesAssumption DEF ClearCount, Goto, LockInv, CtlType, FreedByClear, Purging, Buckets
  <2> QED BY <2>1, <2>2, <2>3, <2>4 DEF LockInv
<1>4. CASE ZeroBucket(t)
  <2>1. idx[t] \in Buckets /\ lock[idx[t]] = t
    BY <1>4, SizesAssumption DEF ZeroBucket, LockInv, CtlType, Holds, Buckets
  <2>2. CtlType'
    BY <1>4, <2>1 DEF ZeroBucket, Release, LockInv, CtlType
  <2>3. ArgKeyed(t)' /\ Holds(t)'
    BY <1>4, <2>1 DEF ZeroBucket, Release, LockInv, CtlType, ArgKeyed, Holds, KeyedPCs, Buckets
  <2>4. ASSUME NEW u \in Threads, u # t PROVE ArgKeyed(u)' /\ Holds(u)'
    BY <1>4, <2>1, <2>4, OthersKeep DEF ZeroBucket, Release, LockInv, CtlType
  <2>5. FreedByClear'
    <3> SUFFICES ASSUME NEW b \in Buckets, b \in freed'
                 PROVE \E u \in Threads : Purging(u, b)'
      BY DEF FreedByClear
    <3>1. b \in freed /\ b # idx[t] /\ b \in Int
      BY <1>4, SizesAssumption DEF ZeroBucket, LockInv, CtlType, Buckets
    <3>2. PICK u \in Threads : Purging(u, b)
      BY <3>1 DEF LockInv, FreedByClear
    <3> QED BY <1>4, <3>1, <3>2 DEF ZeroBucket, LockInv, CtlType, Purging
  <2> QED BY <2>2, <2>3, <2>4, <2>5 DEF LockInv
<1>5. CASE ClearDone(t)
  <2>1. CtlType'
    BY <1>5 DEF ClearDone, Goto, tables, LockInv, CtlType
  <2>2. ArgKeyed(t)' /\ Holds(t)'
    BY <1>5 DEF ClearDone, Goto, tables, LockInv, CtlType, ArgKeyed, Holds, KeyedPCs
  <2>3. ASSUME NEW u \in Threads, u # t PROVE ArgKeyed(u)' /\ Holds(u)'
    BY <1>5, <2>3, OthersKeep DEF ClearDone, Goto, tables, LockInv, CtlType
  <2>4. FreedByClear'
    BY <1>5, SizesAssumption DEF ClearDone, Goto, tables, LockInv, CtlType, FreedByClear, Purging, Buckets
  <2> QED BY <2>1, <2>2, <2>3, <2>4 DEF LockInv
<1> QED BY <1>1, <1>2, <1>3, <1>4, <1>5

(* foreach and bucket_counts. *)
LEMMA IterationLockInv ==
  ASSUME LockInv, NEW t \in Threads,
         EachLock(t) \/ EachVisit(t) \/ EachUnlock(t) \/ BucketCounts(t)
  PROVE  LockInv'
<1>1. CASE EachLock(t)
  <2>1. idx[t] \in Buckets
    BY <1>1, SizesAssumption DEF EachLock, LockInv, CtlType, Buckets
  <2>2. CtlType'
    BY <1>1, <2>1 DEF EachLock, Acquire, tables, LockInv, CtlType
  <2>3. ArgKeyed(t)' /\ Holds(t)'
    BY <1>1, <2>1 DEF EachLock, Acquire, LockInv, CtlType, ArgKeyed, Holds, KeyedPCs, Buckets
  <2>4. ASSUME NEW u \in Threads, u # t PROVE ArgKeyed(u)' /\ Holds(u)'
    BY <1>1, <2>1, <2>4, NoneAssumption, OthersKeep DEF EachLock, Acquire, LockInv, CtlType
  <2>5. FreedByClear'
    BY <1>1 DEF EachLock, tables, LockInv, CtlType, FreedByClear, Purging
  <2> QED BY <2>2, <2>3, <2>4, <2>5 DEF LockInv
<1>2. CASE EachVisit(t)
  <2>1. CtlType'
    BY <1>2 DEF EachVisit, Goto, LockInv, CtlType
  <2>2. ArgKeyed(t)' /\ Holds(t)'
    <3>1. /\ pc[t] = "each" /\ idx[t] > NumBuckets /\ lock' = lock
          /\ pc'[t] = "unlockall" /\ idx'[t] = 1
      BY <1>2 DEF EachVisit, Goto, LockInv, CtlType
    <3>2. \A b \in Buckets : lock[b] = t
      BY <3>1, SizesAssumption DEF LockInv, CtlType, Holds, Buckets
    <3> QED BY <3>1, <3>2 DEF ArgKeyed, Holds, KeyedPCs
  <2>3. ASSUME NEW u \in Threads, u # t PROVE ArgKeyed(u)' /\ Holds(u)'
    BY <1>2, <2>3, OthersKeep DEF EachVisit, Goto, LockInv, CtlType
  <2>4. FreedByClear'
    BY <1>2 DEF EachVisit, Goto, LockInv, CtlType, FreedByClear, Purging
  <2> QED BY <2>1, <2>2, <2>3, <2>4 DEF LockInv
<1>3. CASE EachUnlock(t)
  <2>1. idx[t] <= NumBuckets => idx[t] \in Buckets /\ lock[idx[t]] = t
    BY <1>3, SizesAssumption DEF EachUnlock, LockInv, CtlType, Holds, Buckets
  <2>2. CtlType'
    BY <1>3, <2>1 DEF EachUnlock, Release, Goto, tables, LockInv, CtlType
  <2>3. ArgKeyed(t)' /\ Holds(t)'
    <3>1. CASE idx[t] <= NumBuckets
      <4>1. /\ pc[t] = "unlockall" /\ pc' = pc /\ arg' = arg
            /\ lock' = [lock EXCEPT ![idx[t]] = None] /\ idx' = [idx EXCEPT ![t] = @ + 1]
        BY <1>3, <3>1, SizesAssumption DEF EachUnlock, Release, LockInv, CtlType
      <4>2. \A b \in Buckets : b >= idx'[t] => lock'[b] = t
        BY <2>1, <3>1, <4>1, SizesAssumption DEF LockInv, CtlType, Holds, Buckets
      <4> QED BY <4>1, <4>2 DEF ArgKeyed, Holds, KeyedPCs
    <3>2. CASE ~(idx[t] <= NumBuckets)
      BY <1>3, <3>2 DEF EachUnlock, Goto, LockInv, CtlType, ArgKeyed, Holds, KeyedPCs
    <3> QED BY <3>1, <3>2
  <2>4. ASSUME NEW u \in Threads, u # t PROVE ArgKeyed(u)' /\ Holds(u)'
    BY <1>3, <2>1, <2>4, OthersKeep DEF EachUnlock, Release, Goto, LockInv, CtlType
  <2>5. FreedByClear'
    BY <1>3 DEF EachUnlock, Goto, tables, LockInv, CtlType, FreedByClear, Purging
  <2> QED BY <2>2, <2>3, <2>4, <2>5 DEF LockInv
<1>4. CASE BucketCounts(t)
  <2>1. CtlType'
    BY <1>4 DEF BucketCounts, Goto, tables, LockInv, CtlType
  <2>2. ArgKeyed(t)' /\ Holds(t)'
    BY <1>4 DEF BucketCounts, Goto, LockInv, CtlType, ArgKeyed, Holds, KeyedPCs
  <2>3. ASSUME NEW u \in Threads, u # t PROVE ArgKeyed(u)' /\ Holds(u)'
    BY <1>4, <2>3, OthersKeep DEF BucketCounts, Goto, LockInv, CtlType
  <2>4. FreedByClear'
    BY <1>4 DEF BucketCounts, Goto, tables, LockInv, CtlType, FreedByClear, Purging
  <2> QED BY <2>1, <2>2, <2>3, <2>4 DEF LockInv
<1> QED BY <1>1, <1>2, <1>3, <1>4

LEMMA StutterLockInv == LockInv /\ UNCHANGED vars => LockInv'
BY DEF LockInv, CtlType, ArgKeyed, Holds, FreedByClear, Purging, Bucket, vars

LEMMA NextLockInv == LockInv /\ [Next]_vars => LockInv'
BY BeginLockInv, BucketStepsLockInv, ClearStepsLockInv, IterationLockInv, StutterLockInv
   DEF Next, Step, Finished

(* The locking discipline of SantaCache.h holds in every reachable state:   *)
(* each point of the code holds the bucket locks it needs, and a deleted    *)
(* list is still locked by the clear that deleted it.                       *)
THEOREM LockingDiscipline == Spec => []LockInv
BY InitLockInv, NextLockInv, PTL DEF Spec

(* Two threads never hold the same lock, so a thread that scans or inserts  *)
(* and a thread that purges the same bucket cannot coexist.                 *)
LEMMA LockInvExcludes == LockInv => NoUseAfterFree
<1> SUFFICES ASSUME LockInv, NEW t \in Threads, NEW b \in Buckets, b \in freed,
                    \/ pc[t] \in {"scan", "insert"} /\ b = Bucket(t)
                    \/ pc[t] = "each" /\ b < idx[t]
             PROVE  FALSE
  <2>1. ASSUME NEW t \in Threads, pc[t] \in {"scan", "insert"} PROVE LockInv => Bucket(t) \in Buckets
    BY <2>1, HashAssumption DEF LockInv, ArgKeyed, KeyedPCs, Bucket
  <2>2. ASSUME NEW t \in Threads, LockInv, NEW b \in 1..(idx[t] - 1), b \in freed
        PROVE  b \in Buckets /\ b < idx[t]
    BY <2>2, SizesAssumption DEF LockInv, CtlType, Buckets
  <2> QED BY <2>1, <2>2 DEF NoUseAfterFree
<1>1. PICK u \in Threads : Purging(u, b)
  BY DEF LockInv, FreedByClear
<1>2. lock[b] = u
  BY <1>1 DEF LockInv, Holds, Purging
<1>3. lock[b] = t
  BY DEF LockInv, Holds
<1> QED BY <1>1, <1>2, <1>3 DEF Purging

(* No thread ever walks entries that clear() has deleted, for any number of *)
(* threads, keys and buckets.                                               *)
THEOREM FreedListsUnreachable == Spec => []NoUseAfterFree
BY LockingDiscipline, LockInvExcludes, PTL

-----------------------------------------------------------------------------
(* The threads that have passed the size check use up what count_ leaves.   *)
SizeInv == count + Cardinality(Inserting) <= MaxSize + Cardinality(Threads) - 1

LEMMA InsertingCard ==
  /\ IsFiniteSet(Inserting) /\ Cardinality(Inserting) \in Nat
  /\ Cardinality(Inserting) <= Cardinality(Threads)
  /\ Cardinality(Threads) \in Nat \ {0}
BY ThreadsAssumption, FS_Subset, FS_CardinalityType, FS_EmptySet DEF Inserting

LEMMA InitSizeInv == Init => SizeInv
<1> SUFFICES ASSUME Init PROVE SizeInv
  OBVIOUS
<1>1. Inserting = {}
  BY DEF Init, Inserting
<1>2. Cardinality({}) = 0
  BY FS_EmptySet
<1> QED BY <1>1, <1>2, InsertingCard, SizesAssumption DEF Init, SizeInv

(* What one step can do to the sum: nothing that adds to it, a fresh check  *)
(* of the size (or a purge), or the insertion that the check allowed.       *)
LEMMA SizeStep ==
  ASSUME LockInv, NEW t \in Threads, Begin(t) \/ Step(t)
  PROVE  \/ Inserting' \subseteq Inserting /\ count' <= count
         \/ count' + 1 <= MaxSize
         \/ /\ t \in Inserting /\ Inserting' \subseteq Inserting \ {t}
            /\ count' = count + 1
<1> USE DEF LockInv, CtlType
<1>1. CASE Begin(t) BY <1>1 DEF Begin, Goto, Inserting
<1>2. CASE LockBucket(t) BY <1>2 DEF LockBucket, Goto, Inserting, tables
<1>3. CASE Get(t) BY <1>3 DEF Get, Finish, Goto, Inserting
<1>4. CASE ContainsKey(t) BY <1>4 DEF ContainsKey, Finish, Goto, Inserting
<1>5. CASE SetPresent(t)
  <2>1. count' = count \/ count' = count - 1 BY <1>5, Zenon DEF SetPresent
  <2>2. arg' = arg /\ pc' = [pc EXCEPT ![t] = "idle"] BY <1>5 DEF SetPresent, Finish, Goto
  <2> QED BY <2>1, <2>2 DEF Inserting
<1>6. CASE SetAbsent(t)
  <2>1. \/ count' + 1 <= MaxSize
        \/ /\ count' = count /\ arg' = arg
           /\ \/ pc' = [pc EXCEPT ![t] = "idle"]
              \/ pc' = [pc EXCEPT ![t] = "overflow"]
    BY <1>6 DEF SetAbsent, Finish, Goto
  <2> QED BY <2>1 DEF Inserting
<1>7. CASE LockClear(t) BY <1>7 DEF LockClear, Goto, Inserting, tables
<1>8. CASE Recheck(t)
  <2>1. \/ count' + 1 <= MaxSize
        \/ count' = count /\ arg' = arg /\ pc' = [pc EXCEPT ![t] = "clear"]
    <3>1. CASE count + 1 > MaxSize BY <1>8, <3>1 DEF Recheck, Goto, tables
    <3>2. CASE ~(count + 1 > MaxSize) BY <1>8, <3>2, SizesAssumption DEF Recheck, Goto, tables
    <3> QED BY <3>1, <3>2
  <2> QED BY <2>1 DEF Inserting
<1>9. CASE ClearBucket(t) BY <1>9 DEF ClearBucket, Inserting
<1>10. CASE ClearCount(t) BY <1>10, SizesAssumption DEF ClearCount
<1>11. CASE ZeroBucket(t) BY <1>11 DEF ZeroBucket, Inserting
<1>12. CASE ClearDone(t) BY <1>12 DEF ClearDone, Goto, Inserting, tables
<1>13. CASE Relock(t) BY <1>13 DEF Relock, Goto, Inserting, tables
<1>14. CASE Insert(t) BY <1>14 DEF Insert, Finish, Goto, Inserting
<1>15. CASE EachLock(t) BY <1>15 DEF EachLock, Inserting, tables
<1>16. CASE EachVisit(t) BY <1>16 DEF EachVisit, Goto, Inserting
<1>17. CASE EachUnlock(t) BY <1>17 DEF EachUnlock, Goto, Inserting, tables
<1>18. CASE BucketCounts(t) BY <1>18 DEF BucketCounts, Goto, Inserting, tables
<1> QED BY <1>1, <1>2, <1>3, <1>4, <1>5, <1>6, <1>7, <1>8, <1>9, <1>10, <1>11, <1>12,
        <1>13, <1>14, <1>15, <1>16, <1>17, <1>18 DEF Step

LEMMA RoomLeft ==
  ASSUME NEW a \in Int, NEW c \in Nat, NEW m \in Nat, NEW n \in Nat, a + 1 <= m, c <= n
  PROVE  a + c <= m + n - 1
OBVIOUS

LEMMA NextSizeInv == LockInv /\ SizeInv /\ [Next]_vars => SizeInv'
<1> SUFFICES ASSUME LockInv, SizeInv, [Next]_vars PROVE SizeInv'
  OBVIOUS
<1> DEFINE n == Cardinality(Threads)
<1>1. IsFiniteSet(Inserting') /\ Cardinality(Inserting') \in Nat /\ Cardinality(Inserting') <= n
  BY ThreadsAssumption, FS_Subset, FS_CardinalityType DEF Inserting
<1>2. CASE UNCHANGED vars
  BY <1>2 DEF SizeInv, Inserting, vars
<1>3. ASSUME NEW t \in Threads, Begin(t) \/ Step(t) PROVE SizeInv'
  <2>1. LockInv' BY NextLockInv, <1>3 DEF Next
  <2>2. count \in Int /\ count' \in Int BY <2>1 DEF LockInv, CtlType
  <2>3. CASE Inserting' \subseteq Inserting /\ count' <= count
    <3>1. Cardinality(Inserting') <= Cardinality(Inserting)
      BY <2>3, InsertingCard, FS_Subset
    <3> QED BY <1>1, <2>2, <2>3, <3>1, InsertingCard, SizesAssumption DEF SizeInv
  <2>4. CASE count' + 1 <= MaxSize
    <3>1. n \in Nat BY InsertingCard
    <3>2. count' + Cardinality(Inserting') <= MaxSize + n - 1
      BY <1>1, <2>2, <2>4, <3>1, SizesAssumption, RoomLeft
    <3> QED BY <3>2 DEF SizeInv
  <2>5. CASE /\ t \in Inserting /\ Inserting' \subseteq Inserting \ {t}
             /\ count' = count + 1
    <3>1. IsFiniteSet(Inserting \ {t}) /\ Cardinality(Inserting \ {t}) = Cardinality(Inserting) - 1
      BY <2>5, InsertingCard, FS_RemoveElement
    <3>2. Cardinality(Inserting') <= Cardinality(Inserting \ {t})
      BY <2>5, <3>1, FS_Subset
    <3> QED BY <1>1, <2>2, <2>5, <3>1, <3>2, InsertingCard, SizesAssumption DEF SizeInv
  <2> QED BY <1>3, <2>3, <2>4, <2>5, SizeStep
<1> QED BY <1>2, <1>3 DEF Next, Finished

(* set() may overshoot max_size_ by at most one entry per other thread, for *)
(* any number of threads, although the size is checked under one bucket's   *)
(* lock only.                                                               *)
THEOREM OvershootBounded == Spec => []SizeBound
<1>1. Init => SizeInv BY InitSizeInv
<1>2. LockInv /\ SizeInv /\ [Next]_vars => SizeInv' BY NextSizeInv
<1>3. LockInv /\ SizeInv => SizeBound
  BY InsertingCard, SizesAssumption DEF SizeInv, SizeBound, LockInv, CtlType
<1> QED BY <1>1, <1>2, <1>3, LockingDiscipline, PTL DEF Spec
-----------------------------------------------------------------------------
(* A bucket's list: its keys hash to the bucket, each occurs once, and no   *)
(* entry has the zero value.                                                *)
IsChain(s, b) ==
  /\ s \in Seq(Entries)
  /\ \A i \in 1..Len(s) : HashOf[s[i].key] = b /\ s[i].val # Zero
  /\ \A i, j \in 1..Len(s) : s[i].key = s[j].key => i = j

Val(s, k) == IF Find(s, k) = 0 THEN Zero ELSE s[Find(s, k)].val

(* Find returns the only position of a key, 0 when there is none. *)
LEMMA FindPresent ==
  ASSUME NEW b, NEW s, IsChain(s, b), NEW i \in 1..Len(s)
  PROVE  Find(s, s[i].key) = i
<1> DEFINE k == s[i].key
           I == {j \in 1..Len(s) : s[j].key = k}
<1>1. I = {i}
  BY DEF IsChain
<1>2. Find(s, k) = IF I # {} THEN Min(I) ELSE 0
  BY DEF Find, SelectInSeq
<1>3. Min({i}) = i
  BY DEF Min
<1> QED BY <1>1, <1>2, <1>3

LEMMA FindAbsent ==
  ASSUME NEW s, NEW k, \A i \in 1..Len(s) : s[i].key # k
  PROVE  Find(s, k) = 0
BY DEF Find, SelectInSeq

LEMMA ValPresent ==
  ASSUME NEW b, NEW s, IsChain(s, b), NEW i \in 1..Len(s)
  PROVE  Val(s, s[i].key) = s[i].val /\ s[i].val # Zero
<1>1. Find(s, s[i].key) = i
  BY FindPresent
<1>2. i # 0
  BY DEF IsChain
<1>3. s[i].val # Zero
  BY DEF IsChain
<1> QED BY <1>1, <1>2, <1>3 DEF Val

LEMMA ValAbsent ==
  ASSUME NEW s, NEW k, \A i \in 1..Len(s) : s[i].key # k
  PROVE  Val(s, k) = Zero
BY FindAbsent DEF Val

(* A key has a position, or none. *)
LEMMA FindCases ==
  ASSUME NEW b, NEW s, IsChain(s, b), NEW k
  PROVE  \/ /\ Find(s, k) = 0 /\ Val(s, k) = Zero
            /\ \A i \in 1..Len(s) : s[i].key # k
         \/ /\ Find(s, k) \in 1..Len(s) /\ s[Find(s, k)].key = k
            /\ Val(s, k) = s[Find(s, k)].val /\ Val(s, k) # Zero
<1>1. CASE \E i \in 1..Len(s) : s[i].key = k
  <2>1. PICK i \in 1..Len(s) : s[i].key = k
    BY <1>1
  <2>2. Find(s, k) = i
    BY <2>1, FindPresent
  <2> QED BY <2>1, <2>2, ValPresent
<1>2. CASE \A i \in 1..Len(s) : s[i].key # k
  BY <1>2, FindAbsent, ValAbsent
<1> QED BY <1>1, <1>2

(* Two lists with the same entries for k give k the same value. *)
LEMMA SameVal ==
  ASSUME NEW b, NEW s, NEW r, IsChain(s, b), IsChain(r, b), NEW k,
         \A i \in 1..Len(s) : s[i].key = k => \E j \in 1..Len(r) : r[j] = s[i],
         \A j \in 1..Len(r) : r[j].key = k => \E i \in 1..Len(s) : s[i] = r[j]
  PROVE  Val(r, k) = Val(s, k)
<1>1. CASE \E i \in 1..Len(s) : s[i].key = k
  <2>1. PICK i \in 1..Len(s) : s[i].key = k
    BY <1>1
  <2>2. PICK j \in 1..Len(r) : r[j] = s[i]
    BY <2>1
  <2> QED BY <2>1, <2>2, ValPresent
<1>2. CASE \A i \in 1..Len(s) : s[i].key # k
  <2>1. \A j \in 1..Len(r) : r[j].key # k
    BY <1>2
  <2> QED BY <1>2, <2>1, ValAbsent
<1> QED BY <1>1, <1>2

(* Insert: a new entry at the head. *)
LEMMA Prepended ==
  ASSUME NEW b, NEW s, IsChain(s, b), NEW e \in Entries, HashOf[e.key] = b, e.val # Zero,
         Val(s, e.key) = Zero
  PROVE  /\ IsChain(<<e>> \o s, b)
         /\ Val(<<e>> \o s, e.key) = e.val
         /\ \A k \in Keys : k # e.key => Val(<<e>> \o s, k) = Val(s, k)
<1> DEFINE r == <<e>> \o s
<1>1. /\ s \in Seq(Entries) /\ r \in Seq(Entries)
      /\ Len(s) \in Nat /\ Len(r) = Len(s) + 1
      /\ r[1] = e /\ \A i \in 2..Len(r) : i - 1 \in 1..Len(s) /\ r[i] = s[i - 1]
  BY DEF IsChain
<1>2. \A i \in 1..Len(s) : s[i].key # e.key
  BY ValPresent
<1> HIDE DEF r
<1>3. ASSUME NEW i \in 1..Len(r) PROVE HashOf[r[i].key] = b /\ r[i].val # Zero
  <2>1. CASE i = 1
    BY <1>1, <2>1
  <2>2. CASE i \in 2..Len(r)
    <3>1. i - 1 \in 1..Len(s) /\ r[i] = s[i - 1]
      BY <1>1, <2>2
    <3> QED BY <3>1 DEF IsChain
  <2> QED BY <1>1, <2>1, <2>2
<1>4. ASSUME NEW i \in 1..Len(r), NEW j \in 1..Len(r), r[i].key = r[j].key PROVE i = j
  <2>0. \A n \in 2..Len(r) : r[n].key # e.key
    BY <1>1, <1>2
  <2>1. CASE i = 1 \/ j = 1
    <3>1. i \notin 2..Len(r) /\ j \notin 2..Len(r)
      BY <1>1, <1>4, <2>0, <2>1
    <3> QED BY <1>1, <3>1
  <2>2. CASE i # 1 /\ j # 1
    <3>1. i \in 2..Len(r) /\ j \in 2..Len(r)
      BY <1>1, <2>2
    <3>2. i - 1 = j - 1
      BY <1>1, <1>4, <3>1 DEF IsChain
    <3> QED BY <3>1, <3>2
  <2> QED BY <2>1, <2>2
<1>5. IsChain(r, b)
  BY <1>1, <1>3, <1>4 DEF IsChain
<1>6. Val(r, e.key) = e.val
  <2>1. 1 \in 1..Len(r)
    BY <1>1
  <2> QED BY <1>1, <1>5, <2>1, ValPresent
<1>7. ASSUME NEW k \in Keys, k # e.key PROVE Val(r, k) = Val(s, k)
  <2>1. ASSUME NEW i \in 1..Len(s) PROVE \E j \in 1..Len(r) : r[j] = s[i]
    <3>1. i + 1 \in 2..Len(r) /\ i + 1 \in 1..Len(r) /\ (i + 1) - 1 = i
      BY <1>1
    <3> QED BY <1>1, <3>1
  <2>2. ASSUME NEW j \in 1..Len(r), r[j].key = k PROVE \E i \in 1..Len(s) : s[i] = r[j]
    <3>1. j \in 2..Len(r)
      BY <1>1, <1>7, <2>2
    <3> QED BY <1>1, <3>1
  <2> QED BY <1>5, <2>1, <2>2, SameVal
<1> QED BY <1>5, <1>6, <1>7 DEF r

(* SetPresent: the value of an entry replaced. *)
LEMMA Replaced ==
  ASSUME NEW b, NEW s, IsChain(s, b), NEW n \in 1..Len(s), NEW v \in Values,
         NEW r \in Seq(Entries), Len(r) = Len(s), r[n].key = s[n].key, r[n].val = v,
         \A i \in 1..Len(s) : i # n => r[i] = s[i]
  PROVE  /\ IsChain(r, b)
         /\ Val(r, s[n].key) = v
         /\ \A k \in Keys : k # s[n].key => Val(r, k) = Val(s, k)
<1>1. \A i \in 1..Len(s) : r[i].key = s[i].key
  OBVIOUS
<1>2. IsChain(r, b)
  <2>1. \A i \in 1..Len(r) : HashOf[r[i].key] = b /\ r[i].val # Zero
    BY <1>1, ZeroAssumption DEF IsChain
  <2>2. \A i, j \in 1..Len(r) : r[i].key = r[j].key => i = j
    BY <1>1 DEF IsChain
  <2> QED BY <2>1, <2>2 DEF IsChain
<1>3. Val(r, s[n].key) = v
  <2>1. n \in 1..Len(r)
    OBVIOUS
  <2>2. Val(r, r[n].key) = r[n].val
    BY <1>2, <2>1, ValPresent
  <2> QED BY <2>2
<1>4. ASSUME NEW k \in Keys, k # s[n].key PROVE Val(r, k) = Val(s, k)
  <2>1. \A i \in 1..Len(s) : s[i].key = k => \E j \in 1..Len(r) : r[j] = s[i]
    BY <1>4
  <2>2. \A j \in 1..Len(r) : r[j].key = k => \E i \in 1..Len(s) : s[i] = r[j]
    BY <1>1, <1>4
  <2> QED BY <1>2, <2>1, <2>2, SameVal
<1> QED BY <1>2, <1>3, <1>4

(* SetPresent: an entry removed. *)
LEMMA Removed ==
  ASSUME NEW b, NEW s, IsChain(s, b), NEW n \in 1..Len(s)
  PROVE  /\ IsChain(RemoveAt(s, n), b)
         /\ Val(RemoveAt(s, n), s[n].key) = Zero
         /\ \A k \in Keys : k # s[n].key => Val(RemoveAt(s, n), k) = Val(s, k)
<1> DEFINE r == RemoveAt(s, n)
           from(i) == IF i < n THEN i ELSE i + 1
<1>1. s \in Seq(Entries) /\ Len(s) \in Nat /\ n \in Int
  BY DEF IsChain
<1>2. /\ r \in Seq(Entries) /\ Len(r) = Len(s) - 1
      /\ \A i \in 1..Len(r) : r[i] = s[from(i)]
  <2> DEFINE left == SubSeq(s, 1, n - 1)
             right == SubSeq(s, n + 1, Len(s))
  <2>1. /\ left \in Seq(Entries) /\ Len(left) = n - 1
        /\ \A i \in 1..n - 1 : left[i] = s[i]
    BY <1>1
  <2>2. /\ right \in Seq(Entries) /\ Len(right) = Len(s) - n
        /\ \A i \in 1..Len(s) - n : right[i] = s[i + n]
    BY <1>1
  <2> HIDE DEF left, right
  <2>3. /\ left \o right \in Seq(Entries) /\ Len(left \o right) = Len(s) - 1
        /\ \A i \in 1..Len(s) - 1 :
             (left \o right)[i] = IF i <= n - 1 THEN left[i] ELSE right[i - (n - 1)]
    <3>1. /\ left \o right \in Seq(Entries) /\ Len(left \o right) = Len(left) + Len(right)
          /\ \A i \in 1..Len(left) + Len(right) :
               (left \o right)[i] = IF i <= Len(left) THEN left[i] ELSE right[i - Len(left)]
      BY <2>1, <2>2, ConcatProperties
    <3>2. Len(left) + Len(right) = Len(s) - 1
      BY <1>1, <2>1, <2>2
    <3> QED BY <2>1, <3>1, <3>2
  <2>4. \A i \in 1..Len(s) - 1 : (left \o right)[i] = s[from(i)]
    BY <1>1, <2>1, <2>2, <2>3
  <2>5. r = left \o right
    BY DEF RemoveAt, left, right
  <2> QED BY <2>3, <2>4, <2>5
<1> HIDE DEF r
<1>3. \A i \in 1..Len(r) : from(i) \in 1..Len(s) /\ from(i) # n
  BY <1>1, <1>2
<1>4. \A i, j \in 1..Len(r) : from(i) = from(j) => i = j
  BY <1>1, <1>2
<1>5. \A m \in 1..Len(s) : m # n => \E i \in 1..Len(r) : from(i) = m
  <2> SUFFICES ASSUME NEW m \in 1..Len(s), m # n PROVE \E i \in 1..Len(r) : from(i) = m
    OBVIOUS
  <2>1. CASE m < n
    <3>1. m \in 1..Len(r) /\ from(m) = m
      BY <1>1, <1>2, <2>1
    <3> QED BY <3>1
  <2>2. CASE m > n
    <3>1. m - 1 \in 1..Len(r) /\ from(m - 1) = m
      BY <1>1, <1>2, <2>2
    <3> QED BY <3>1
  <2> QED BY <1>1, <2>1, <2>2
<1> HIDE DEF from
<1>6. IsChain(r, b)
  <2>1. \A i \in 1..Len(r) : HashOf[r[i].key] = b /\ r[i].val # Zero
    BY <1>2, <1>3 DEF IsChain
  <2>2. \A i, j \in 1..Len(r) : r[i].key = r[j].key => i = j
    BY <1>2, <1>3, <1>4 DEF IsChain
  <2> QED BY <1>2, <2>1, <2>2 DEF IsChain
<1>7. Val(r, s[n].key) = Zero
  <2>1. \A i \in 1..Len(r) : r[i].key # s[n].key
    BY <1>2, <1>3 DEF IsChain
  <2> QED BY <2>1, ValAbsent
<1>8. ASSUME NEW k \in Keys, k # s[n].key PROVE Val(r, k) = Val(s, k)
  <2>1. \A i \in 1..Len(s) : s[i].key = k => \E j \in 1..Len(r) : r[j] = s[i]
    BY <1>2, <1>5, <1>8
  <2>2. \A j \in 1..Len(r) : r[j].key = k => \E i \in 1..Len(s) : s[i] = r[j]
    BY <1>2, <1>3
  <2> QED BY <1>6, <2>1, <2>2, SameVal
<1> QED BY <1>6, <1>7, <1>8 DEF r

-----------------------------------------------------------------------------
(* A bucket that a clear has emptied for its callers and not zeroed yet. *)
Dead(b) == \E t \in Threads : pc[t] = "bzero" /\ idx[t] <= b

(* Where a thread is, as long as no set has found the table full: what it   *)
(* has yet to do, and that the key it is about to insert is absent.         *)
Settles(t) ==
  /\ pc[t] \in {"lock", "scan", "insert"} => arg[t] \in KeyedOps /\ ret[t] = Pending
  /\ pc[t] \in {"clear", "bzero"} => arg[t].op = "clear"
  /\ pc[t] = "each" => arg[t].op = "foreach"
  /\ pc[t] \in {"clear", "each"} => ret[t] = Pending
  /\ pc[t] \notin {"overflow", "recheck", "relock"}
  /\ pc[t] = "insert" =>
       /\ arg[t].op \in {"set", "update"}
       /\ arg[t].val # Zero /\ arg[t].prev \in {NoPrev, Zero}
       /\ Val(chain[Bucket(t)], arg[t].key) = Zero

(* Until then the lists are sound and count_ is the number of keys. *)
Settled ==
  /\ chain = [b \in Buckets |-> chain[b]]
  /\ \A b \in Buckets : IsChain(chain[b], b)
  /\ DOMAIN ret = Threads
  /\ \A t \in Threads : Settles(t)
  /\ IsFiniteSet(Mapped) /\ count = Cardinality(Mapped)

LEMMA KeyedFields ==
  ASSUME NEW o \in KeyedOps
  PROVE  /\ o.op \in {"get", "contains", "update", "set"}
         /\ o.key \in Keys
         /\ o.op = "contains" => o.val \in Values
         /\ o.op = "update" => o.val \in Values /\ o.prev = NoPrev
         /\ o.op = "set" => o.val \in Values \union {Zero} /\ o.prev \in PrevValues
BY DEF KeyedOps

LEMMA AbsMapVal ==
  AbsMap = [k \in Keys |-> IF Dead(HashOf[k]) THEN Zero ELSE Val(chain[HashOf[k]], k)]
BY DEF AbsMap, Dead, Lookup, Val

(* A thread that works on a bucket holds its lock: no clear is zeroing it. *)
LEMMA LiveBucket ==
  ASSUME LockInv, NEW t \in Threads, pc[t] \in {"scan", "insert"}
  PROVE  /\ arg[t].key \in Keys /\ Bucket(t) \in Buckets /\ lock[Bucket(t)] = t
         /\ ~Dead(Bucket(t))
<1>1. arg[t].key \in Keys /\ Bucket(t) \in Buckets /\ lock[Bucket(t)] = t
  BY HashAssumption DEF LockInv, ArgKeyed, KeyedPCs, Bucket, Holds
<1>2. ASSUME NEW u \in Threads, pc[u] = "bzero" /\ idx[u] <= Bucket(t) PROVE FALSE
  <2>1. lock[Bucket(t)] = u
    BY <1>1, <1>2, SizesAssumption DEF LockInv, Holds, CtlType, Buckets
  <2> QED BY <1>1, <1>2, <2>1
<1> QED BY <1>1, <1>2 DEF Dead

LEMMA MapOfKey ==
  ASSUME LockInv, NEW t \in Threads, pc[t] \in {"scan", "insert"}
  PROVE  AbsMap[arg[t].key] = Val(chain[Bucket(t)], arg[t].key)
BY LiveBucket, AbsMapVal DEF Bucket

(* A step that touches no list, and no bzero but to leave it at its end,    *)
(* keeps the map.                                                           *)
KeepsDead ==
  \A u \in Threads : pc[u] = "bzero" \/ pc'[u] = "bzero" =>
    \/ pc'[u] = pc[u] /\ idx'[u] = idx[u]
    \/ pc[u] = "bzero" /\ idx[u] > NumBuckets /\ pc'[u] # "bzero"

LEMMA QuietMap ==
  ASSUME LockInv, chain' = chain, KeepsDead
  PROVE  AbsMap' = AbsMap /\ Mapped' = Mapped
<1>1. ASSUME NEW b \in Buckets PROVE Dead(b)' <=> Dead(b)
  <2>1. \A u \in Threads : idx[u] > NumBuckets => ~(idx[u] <= b)
    BY SizesAssumption DEF LockInv, CtlType, Buckets
  <2> QED BY <2>1 DEF Dead, KeepsDead
<1>2. AbsMap' = [k \in Keys |-> IF Dead(HashOf[k])' THEN Zero ELSE Val(chain'[HashOf[k]], k)]
  BY DEF AbsMap, Dead, Lookup, Val
<1>3. AbsMap' = AbsMap
  BY <1>1, <1>2, AbsMapVal, HashAssumption
<1> QED BY <1>3 DEF Mapped

LEMMA OthersSettle ==
  ASSUME NEW u \in Threads, Settles(u), pc'[u] = pc[u], arg'[u] = arg[u], ret'[u] = ret[u],
         pc[u] = "insert" => chain'[Bucket(u)] = chain[Bucket(u)]
  PROVE  Settles(u)'
BY DEF Settles, Bucket

(* Such a step of t that keeps count_ too. *)
LEMMA QuietSettled ==
  ASSUME LockInv, Settled, NEW t \in Threads, chain' = chain, count' = count, KeepsDead,
         \A u \in Threads \ {t} : pc'[u] = pc[u] /\ arg'[u] = arg[u] /\ ret'[u] = ret[u],
         DOMAIN ret' = Threads, Settles(t)'
  PROVE  Settled' /\ AbsMap' = AbsMap
<1>1. AbsMap' = AbsMap /\ Mapped' = Mapped
  BY QuietMap
<1>2. ASSUME NEW u \in Threads PROVE Settles(u)'
  <2>1. CASE u = t
    BY <2>1
  <2>2. CASE u # t
    BY <2>2, OthersSettle DEF Settled
  <2> QED BY <2>1, <2>2
<1> QED BY <1>1, <1>2 DEF Settled

(* A step of t on its own key, under the lock of the key's bucket. *)
LEMMA OneKey ==
  ASSUME LockInv, Settled, NEW t \in Threads, pc[t] \in {"scan", "insert"}, NEW r,
         IsChain(r, Bucket(t)),
         \A k \in Keys : k # arg[t].key => Val(r, k) = Val(chain[Bucket(t)], k),
         chain' = [chain EXCEPT ![Bucket(t)] = r],
         pc' = [pc EXCEPT ![t] = "idle"], NEW result, ret' = [ret EXCEPT ![t] = result],
         arg' = arg, idx' = idx
  PROVE  /\ AbsMap' = [AbsMap EXCEPT ![arg[t].key] = Val(r, arg[t].key)]
         /\ IsFiniteSet(Mapped') /\ count' = Cardinality(Mapped') => Settled'
<1>1. arg[t].key \in Keys /\ Bucket(t) \in Buckets /\ lock[Bucket(t)] = t /\ ~Dead(Bucket(t))
  BY LiveBucket
<1>2. \A b : Dead(b)' <=> Dead(b)
  BY DEF Dead, LockInv, CtlType
<1>3. AbsMap' = [k \in Keys |-> IF Dead(HashOf[k])' THEN Zero ELSE Val(chain'[HashOf[k]], k)]
  BY DEF AbsMap, Dead, Lookup, Val
<1>4. chain'[Bucket(t)] = r /\ \A b \in Buckets : b # Bucket(t) => chain'[b] = chain[b]
  BY <1>1 DEF Settled
<1>5. AbsMap' = [AbsMap EXCEPT ![arg[t].key] = Val(r, arg[t].key)]
  <2>1. ASSUME NEW k \in Keys
        PROVE  AbsMap'[k] = IF k = arg[t].key THEN Val(r, k) ELSE AbsMap[k]
    <3>1. HashOf[k] \in Buckets
      BY HashAssumption
    <3>2. CASE k = arg[t].key
      BY <1>1, <1>2, <1>3, <1>4, <3>2 DEF Bucket
    <3>3. CASE k # arg[t].key /\ HashOf[k] = Bucket(t)
      BY <1>1, <1>2, <1>3, <1>4, <3>3, AbsMapVal
    <3>4. CASE k # arg[t].key /\ HashOf[k] # Bucket(t)
      BY <1>2, <1>3, <1>4, <3>1, <3>4, AbsMapVal
    <3> QED BY <3>2, <3>3, <3>4
  <2>2. AbsMap' = [k \in Keys |-> AbsMap'[k]] /\ AbsMap = [k \in Keys |-> AbsMap[k]]
    BY <1>3, AbsMapVal
  <2> QED BY <1>1, <2>1, <2>2
<1>6. ASSUME NEW u \in Threads PROVE Settles(u)'
  <2>1. CASE u = t
    BY <2>1 DEF Settles, LockInv, CtlType
  <2>2. CASE u # t
    <3>1. pc[u] = "insert" => Bucket(u) \in Buckets /\ Bucket(u) # Bucket(t)
      BY <1>1, <2>2, LiveBucket
    <3>2. pc'[u] = pc[u] /\ ret'[u] = ret[u]
      BY <2>2 DEF Settled, LockInv, CtlType
    <3> QED BY <1>4, <3>1, <3>2, OthersSettle DEF Settled
  <2> QED BY <2>1, <2>2
<1>7. \A b \in Buckets : IsChain(chain'[b], b)
  BY <1>4 DEF Settled
<1>8. chain' = [b \in Buckets |-> chain'[b]]
  BY DEF Settled
<1> QED BY <1>5, <1>6, <1>7, <1>8 DEF Settled

-----------------------------------------------------------------------------
(* A step of the table is one of the map, or changes nothing of it. *)
Follows == Abs!Next \/ UNCHANGED <<AbsMap, arg, ret>>

LEMMA Takes ==
  ASSUME NEW t \in Threads, arg[t].op \notin {"none", "bucket_counts"}, ret[t] = Pending,
         ret' = [ret EXCEPT ![t] = Abs!Result(arg[t])],
         AbsMap' = Abs!Effect(arg[t]), arg' = arg
  PROVE  Follows
BY DEF Follows, Abs!Next, Abs!Do

LEMMA BeginFollows ==
  ASSUME LockInv, Settled, NEW t \in Threads, Begin(t)
  PROVE  Settled' /\ Follows
<1>1. PICK o \in Operations :
        /\ arg' = [arg EXCEPT ![t] = o]
        /\ \/ o.op = "clear" /\ Goto(t, "clear")
           \/ o.op = "foreach" /\ Goto(t, "each")
           \/ o.op = "bucket_counts" /\ Goto(t, "counts")
           \/ o.op \notin {"clear", "foreach", "bucket_counts"} /\ Goto(t, "lock")
  BY DEF Begin
<1>2. /\ pc[t] = "idle" /\ ret' = [ret EXCEPT ![t] = Pending]
      /\ chain' = chain /\ count' = count /\ idx' = [idx EXCEPT ![t] = 1]
  BY DEF Begin
<1>3. o.op \notin {"clear", "foreach", "bucket_counts"} => o \in KeyedOps
  BY DEF Operations, TableOps
<1>4. Settles(t)'
  BY <1>1, <1>2, <1>3 DEF Settles, Goto, LockInv, CtlType, Settled
<1>5. /\ KeepsDead /\ DOMAIN ret' = Threads
      /\ \A u \in Threads \ {t} : pc'[u] = pc[u] /\ arg'[u] = arg[u] /\ ret'[u] = ret[u]
  BY <1>1, <1>2 DEF KeepsDead, Goto, LockInv, CtlType, Settled
<1>6. Settled' /\ AbsMap' = AbsMap
  BY <1>2, <1>4, <1>5, QuietSettled
<1>7. Abs!Call(t, o)
  BY <1>1, <1>2, <1>6 DEF Abs!Call
<1> QED BY <1>6, <1>7 DEF Follows, Abs!Next

LEMMA ReadsFollow ==
  ASSUME LockInv, Settled, NEW t \in Threads, LockBucket(t) \/ Get(t) \/ ContainsKey(t)
  PROVE  Settled' /\ Follows
<1>1. Settles(t)
  BY DEF Settled
<1>2. CASE LockBucket(t)
  <2>1. /\ pc[t] = "lock" /\ pc' = [pc EXCEPT ![t] = "scan"]
        /\ arg' = arg /\ idx' = idx /\ chain' = chain /\ count' = count /\ ret' = ret
    BY <1>2 DEF LockBucket, Goto, tables
  <2>2. Settles(t)'
    BY <1>1, <2>1 DEF Settles, LockInv, CtlType
  <2>3. /\ KeepsDead /\ DOMAIN ret' = Threads
        /\ \A u \in Threads \ {t} : pc'[u] = pc[u] /\ arg'[u] = arg[u] /\ ret'[u] = ret[u]
    BY <2>1 DEF KeepsDead, LockInv, CtlType, Settled
  <2>4. Settled' /\ AbsMap' = AbsMap
    BY <2>1, <2>2, <2>3, QuietSettled
  <2> QED BY <2>1, <2>4 DEF Follows
<1>3. CASE Get(t) \/ ContainsKey(t)
  <2>1. pc[t] = "scan" /\ arg[t] \in KeyedOps /\ arg[t].key \in Keys /\ ret[t] = Pending
    BY <1>1, <1>3, KeyedFields DEF Settles, Get, ContainsKey
  <2>2. AbsMap[arg[t].key] = Lookup(arg[t].key)
    BY <2>1, MapOfKey DEF Lookup, Val, Bucket
  <2>3. /\ pc' = [pc EXCEPT ![t] = "idle"]
        /\ arg' = arg /\ idx' = idx /\ chain' = chain /\ count' = count
    BY <1>3 DEF Get, ContainsKey, Finish, Goto
  <2>4. ret' = [ret EXCEPT ![t] = Abs!Result(arg[t])]
    <3>1. CASE Get(t)
      BY <2>2, <3>1 DEF Get, Finish, Abs!Result
    <3>2. CASE ContainsKey(t)
      <4>1. arg[t].op = "contains" /\ ret' = [ret EXCEPT ![t] = Lookup(arg[t].key) = arg[t].val]
        BY <3>2, Zenon DEF ContainsKey, Finish
      <4>2. Abs!Result(arg[t]) = (AbsMap[arg[t].key] = arg[t].val)
        BY <4>1 DEF Abs!Result
      <4>3. ret' = [ret EXCEPT ![t] = AbsMap[arg[t].key] = arg[t].val]
        BY <2>2, <4>1, Zenon
      <4> QED BY <4>2, <4>3, Zenon
    <3> QED BY <1>3, <3>1, <3>2
  <2>5. arg[t].op \in {"get", "contains"}
    BY <1>3 DEF Get, ContainsKey
  <2>6. Settles(t)'
    BY <2>3 DEF Settles, LockInv, CtlType
  <2>7. /\ KeepsDead /\ DOMAIN ret' = Threads
        /\ \A u \in Threads \ {t} : pc'[u] = pc[u] /\ arg'[u] = arg[u] /\ ret'[u] = ret[u]
    BY <2>1, <2>3, <2>4 DEF KeepsDead, LockInv, CtlType, Settled
  <2>8. Settled' /\ AbsMap' = AbsMap
    BY <2>3, <2>6, <2>7, QuietSettled
  <2>9. Abs!Effect(arg[t]) = AbsMap
    BY <2>5 DEF Abs!Effect
  <2> QED BY <2>1, <2>3, <2>4, <2>5, <2>8, <2>9, Takes
<1> QED BY <1>2, <1>3

(* A set or update that changes nothing: refused by a value or a check.     *)
LEMMA Refuses ==
  ASSUME LockInv, Settled, NEW t \in Threads, pc[t] = "scan", arg[t].op \in {"set", "update"},
         \/ arg[t].prev \notin {NoPrev, AbsMap[arg[t].key]}
         \/ arg[t].val = Zero /\ AbsMap[arg[t].key] = Zero,
         Finish(t, FALSE), arg' = arg, idx' = idx, chain' = chain, count' = count
  PROVE  Settled' /\ Follows
<1>1. pc' = [pc EXCEPT ![t] = "idle"] /\ ret' = [ret EXCEPT ![t] = FALSE]
  BY DEF Finish, Goto
<1>2. Settles(t)'
  BY <1>1 DEF Settles, LockInv, CtlType
<1>3. /\ KeepsDead /\ DOMAIN ret' = Threads
      /\ \A u \in Threads \ {t} : pc'[u] = pc[u] /\ arg'[u] = arg[u] /\ ret'[u] = ret[u]
  BY <1>1 DEF KeepsDead, LockInv, CtlType, Settled
<1>4. Settled' /\ AbsMap' = AbsMap
  BY <1>2, <1>3, QuietSettled
<1>5. Abs!Accepts(arg[t]) = FALSE
  BY Zenon DEF Abs!Accepts
<1>6. Abs!Result(arg[t]) = Abs!Accepts(arg[t]) /\ Abs!Effect(arg[t]) = AbsMap
  BY <1>5 DEF Abs!Result, Abs!Effect
<1>7. ret[t] = Pending
  BY DEF Settled, Settles
<1>8. ret' = [ret EXCEPT ![t] = Abs!Result(arg[t])]
  BY <1>1, <1>5, <1>6, Zenon
<1> QED BY <1>4, <1>6, <1>7, <1>8, Takes

(* A set or update that takes place. *)
LEMMA Sets ==
  ASSUME LockInv, Settled, NEW t \in Threads, pc[t] \in {"scan", "insert"},
         arg[t].op \in {"set", "update"}, arg[t].prev \in {NoPrev, AbsMap[arg[t].key]},
         arg[t].val # Zero \/ AbsMap[arg[t].key] # Zero,
         ret' = [ret EXCEPT ![t] = TRUE], arg' = arg,
         AbsMap' = [AbsMap EXCEPT ![arg[t].key] = arg[t].val]
  PROVE  Follows
<1>1. Abs!Accepts(arg[t]) = TRUE
  BY Zenon DEF Abs!Accepts
<1>2. Abs!Result(arg[t]) = Abs!Accepts(arg[t]) /\ Abs!Effect(arg[t]) = AbsMap'
  BY <1>1 DEF Abs!Result, Abs!Effect
<1>3. ret[t] = Pending
  BY DEF Settled, Settles
<1>4. ret' = [ret EXCEPT ![t] = Abs!Result(arg[t])]
  BY <1>1, <1>2, Zenon
<1> QED BY <1>2, <1>3, <1>4, Takes

(* What a list's change does to the number of keys. *)
LEMMA MappedAfter ==
  ASSUME LockInv, Settled, NEW t \in Threads, pc[t] \in {"scan", "insert"},
         NEW v, AbsMap' = [AbsMap EXCEPT ![arg[t].key] = v]
  PROVE  /\ v = Zero => Mapped' = Mapped \ {arg[t].key}
         /\ v # Zero => Mapped' = Mapped \union {arg[t].key}
<1>1. arg[t].key \in Keys /\ AbsMap = [k \in Keys |-> AbsMap[k]]
  BY LiveBucket, AbsMapVal
<1>2. \A k \in Keys : AbsMap'[k] = IF k = arg[t].key THEN v ELSE AbsMap[k]
  BY <1>1
<1> QED BY <1>1, <1>2 DEF Mapped

LEMMA SetPresentFollows ==
  ASSUME LockInv, Settled, NEW t \in Threads, SetPresent(t)
  PROVE  Settled' /\ Follows
<1> DEFINE a == arg[t]
           b == Bucket(t)
           i == Find(chain[b], a.key)
<1>1. /\ pc[t] = "scan" /\ a.op \in {"set", "update"} /\ i # 0
      /\ arg' = arg /\ idx' = idx
  BY DEF SetPresent
<1>2. a \in KeyedOps
  BY <1>1 DEF Settled, Settles
<1>3. a.key \in Keys /\ b \in Buckets /\ IsChain(chain[b], b)
  BY <1>1, LiveBucket DEF Settled
<1>4. /\ i \in 1..Len(chain[b]) /\ chain[b][i].key = a.key
      /\ AbsMap[a.key] = chain[b][i].val /\ AbsMap[a.key] # Zero
  BY <1>1, <1>3, FindCases, MapOfKey
<1>5. a.key \in Mapped
  BY <1>3, <1>4 DEF Mapped
<1>6. IsFiniteSet(Mapped) /\ count = Cardinality(Mapped)
  BY DEF Settled
<1>7. CASE a.prev # NoPrev /\ a.prev # chain[b][i].val
  <2>1. Finish(t, FALSE) /\ chain' = chain /\ count' = count
    BY <1>7 DEF SetPresent
  <2>2. a.prev \notin {NoPrev, AbsMap[a.key]}
    BY <1>4, <1>7
  <2> HIDE DEF a, b, i
  <2> QED BY <1>1, <2>1, <2>2, Refuses DEF a
<1>8. CASE a.prev \in {NoPrev, chain[b][i].val} /\ a.val # Zero
  <2> DEFINE r == [chain[b] EXCEPT ![i].val = a.val]
  <2>1. /\ chain' = [chain EXCEPT ![b] = r]
        /\ pc' = [pc EXCEPT ![t] = "idle"] /\ ret' = [ret EXCEPT ![t] = TRUE] /\ count' = count
    BY <1>8 DEF SetPresent, Finish, Goto
  <2>2. a.val \in Values
    BY <1>1, <1>2, <1>8, KeyedFields
  <2>3. /\ IsChain(r, b) /\ Val(r, a.key) = a.val
        /\ \A k \in Keys : k # a.key => Val(r, k) = Val(chain[b], k)
    <3>1. chain[b] \in Seq(Entries) /\ chain[b][i] \in Entries
      BY <1>3, <1>4 DEF IsChain
    <3>2. /\ [chain[b][i] EXCEPT !.val = a.val] \in Entries
          /\ [chain[b][i] EXCEPT !.val = a.val].key = a.key
          /\ [chain[b][i] EXCEPT !.val = a.val].val = a.val
      BY <1>4, <2>2, <3>1 DEF Entries
    <3> HIDE DEF a, b, i
    <3>3. /\ r \in Seq(Entries) /\ Len(r) = Len(chain[b])
          /\ r[i].key = a.key /\ r[i].val = a.val
          /\ \A j \in 1..Len(chain[b]) : j # i => r[j] = chain[b][j]
      BY <1>4, <3>1, <3>2
    <3> HIDE DEF r
    <3> QED BY <1>3, <1>4, <2>2, <3>3, Replaced
  <2> HIDE DEF r, i
  <2>4. /\ AbsMap' = [AbsMap EXCEPT ![a.key] = a.val]
        /\ IsFiniteSet(Mapped') /\ count' = Cardinality(Mapped') => Settled'
    <3>1. /\ AbsMap' = [AbsMap EXCEPT ![a.key] = Val(r, a.key)]
          /\ IsFiniteSet(Mapped') /\ count' = Cardinality(Mapped') => Settled'
      BY <1>1, <2>1, <2>3, OneKey
    <3> QED BY <2>3, <3>1
  <2>5. Mapped' = Mapped
    BY <1>1, <1>5, <1>8, <2>4, MappedAfter
  <2>6. Settled'
    BY <1>6, <2>1, <2>4, <2>5
  <2> QED BY <1>1, <1>4, <1>8, <2>1, <2>4, <2>6, Sets
<1>9. CASE a.prev \in {NoPrev, chain[b][i].val} /\ a.val = Zero
  <2> DEFINE r == RemoveAt(chain[b], i)
  <2>1. /\ chain' = [chain EXCEPT ![b] = r]
        /\ pc' = [pc EXCEPT ![t] = "idle"] /\ ret' = [ret EXCEPT ![t] = TRUE] /\ count' = count - 1
    BY <1>9 DEF SetPresent, Finish, Goto
  <2>2. /\ IsChain(r, b) /\ Val(r, a.key) = a.val
        /\ \A k \in Keys : k # a.key => Val(r, k) = Val(chain[b], k)
    BY <1>3, <1>4, <1>9, Removed
  <2> HIDE DEF r, i
  <2>3. /\ AbsMap' = [AbsMap EXCEPT ![a.key] = a.val]
        /\ IsFiniteSet(Mapped') /\ count' = Cardinality(Mapped') => Settled'
    <3>1. /\ AbsMap' = [AbsMap EXCEPT ![a.key] = Val(r, a.key)]
          /\ IsFiniteSet(Mapped') /\ count' = Cardinality(Mapped') => Settled'
      BY <1>1, <2>1, <2>2, OneKey
    <3> QED BY <2>2, <3>1
  <2>4. Mapped' = Mapped \ {a.key}
    BY <1>1, <1>9, <2>3, MappedAfter
  <2>5. Settled'
    BY <1>5, <1>6, <2>1, <2>3, <2>4, FS_RemoveElement
  <2> QED BY <1>1, <1>4, <1>9, <2>1, <2>3, <2>5, Sets
<1> QED BY <1>7, <1>8, <1>9

(* The set that finds the table full: it holds as many keys as it may. *)
LEMMA SetAbsentFollows ==
  ASSUME LockInv, Settled, NEW t \in Threads, SetAbsent(t)
  PROVE  \/ Settled' /\ Follows
         \/ pc'[t] = "overflow" /\ Cardinality(Mapped) >= MaxSize
<1> DEFINE a == arg[t]
           b == Bucket(t)
           Refused == a.val = Zero \/ a.prev \notin {NoPrev, Zero}
<1>1. /\ pc[t] = "scan" /\ a.op \in {"set", "update"} /\ Find(chain[b], a.key) = 0
      /\ arg' = arg /\ idx' = idx /\ chain' = chain /\ count' = count
  BY DEF SetAbsent
<1>2. a \in KeyedOps /\ ret[t] = Pending
  BY <1>1 DEF Settled, Settles
<1>3. Val(chain[b], a.key) = Zero /\ AbsMap[a.key] = Zero
  BY <1>1, MapOfKey DEF Val
<1>4. CASE Refused
  <2>1. Finish(t, FALSE)
    BY <1>4 DEF SetAbsent
  <2>2. a.prev \notin {NoPrev, AbsMap[a.key]} \/ (a.val = Zero /\ AbsMap[a.key] = Zero)
    BY <1>3, <1>4
  <2> QED BY <1>1, <2>1, <2>2, Refuses
<1>5. CASE ~Refused /\ count + 1 > MaxSize
  <2>1. pc' = [pc EXCEPT ![t] = "overflow"]
    <3>1. ~(count + 1 <= MaxSize)
      BY <1>5, SizesAssumption DEF LockInv, CtlType
    <3> QED BY <1>5, <3>1 DEF SetAbsent, Goto
  <2>2. count = Cardinality(Mapped) /\ count \in Int /\ DOMAIN pc = Threads
    BY DEF Settled, LockInv, CtlType
  <2> QED BY <1>5, <2>1, <2>2, SizesAssumption
<1>6. CASE ~Refused /\ ~(count + 1 > MaxSize)
  <2>1. pc' = [pc EXCEPT ![t] = "insert"] /\ ret' = ret
    <3>1. count + 1 <= MaxSize
      BY <1>6, SizesAssumption DEF LockInv, CtlType
    <3> QED BY <1>6, <3>1 DEF SetAbsent, Goto
  <2>2. pc'[t] = "insert" /\ arg'[t] = a /\ ret'[t] = Pending /\ Bucket(t)' = b
    BY <1>1, <1>2, <2>1 DEF LockInv, CtlType, Bucket
  <2>3. Settles(t)'
    BY <1>1, <1>2, <1>3, <1>6, <2>2 DEF Settles
  <2>4. /\ KeepsDead /\ DOMAIN ret' = Threads
        /\ \A u \in Threads \ {t} : pc'[u] = pc[u] /\ arg'[u] = arg[u] /\ ret'[u] = ret[u]
    BY <1>1, <2>1 DEF KeepsDead, LockInv, CtlType, Settled
  <2>5. Settled' /\ AbsMap' = AbsMap
    BY <1>1, <2>3, <2>4, QuietSettled
  <2> QED BY <1>1, <2>1, <2>5 DEF Follows
<1> QED BY <1>4, <1>5, <1>6

LEMMA InsertFollows ==
  ASSUME LockInv, Settled, NEW t \in Threads, Insert(t)
  PROVE  Settled' /\ Follows
<1> DEFINE a == arg[t]
           b == Bucket(t)
           e == Entry(a.key, a.val)
           r == <<e>> \o chain[b]
<1>1. /\ pc[t] = "insert" /\ chain' = [chain EXCEPT ![b] = r]
      /\ pc' = [pc EXCEPT ![t] = "idle"] /\ ret' = [ret EXCEPT ![t] = TRUE]
      /\ count' = count + 1 /\ arg' = arg /\ idx' = idx
  BY DEF Insert, Finish, Goto
<1>2. /\ a \in KeyedOps /\ a.op \in {"set", "update"}
      /\ a.val # Zero /\ a.prev \in {NoPrev, Zero}
      /\ Val(chain[b], a.key) = Zero
  BY <1>1 DEF Settled, Settles
<1>3. a.key \in Keys /\ b \in Buckets /\ IsChain(chain[b], b) /\ AbsMap[a.key] = Zero
  BY <1>1, <1>2, LiveBucket, MapOfKey DEF Settled
<1>4. e \in Entries /\ e.key = a.key /\ e.val = a.val /\ HashOf[a.key] = b
  BY <1>2, <1>3, KeyedFields DEF Entries, Entry, Bucket
<1> HIDE DEF e
<1>5. /\ IsChain(r, b) /\ Val(r, a.key) = a.val
      /\ \A k \in Keys : k # a.key => Val(r, k) = Val(chain[b], k)
  BY <1>2, <1>3, <1>4, Prepended
<1> HIDE DEF r
<1>6. /\ AbsMap' = [AbsMap EXCEPT ![a.key] = a.val]
      /\ IsFiniteSet(Mapped') /\ count' = Cardinality(Mapped') => Settled'
  BY <1>1, <1>5, OneKey
<1>7. Mapped' = Mapped \union {a.key} /\ a.key \notin Mapped
  <2>1. Mapped' = Mapped \union {a.key}
    BY <1>1, <1>2, <1>6, MappedAfter
  <2> QED BY <1>3, <2>1 DEF Mapped
<1>8. Settled'
  BY <1>1, <1>6, <1>7, FS_AddElement DEF Settled
<1> QED BY <1>1, <1>2, <1>3, <1>6, <1>8, Sets

(* clear: the map empties when count_ is reset, under every lock.           *)
LEMMA ClearFollows ==
  ASSUME LockInv, Settled, NEW t \in Threads, ClearBucket(t) \/ ClearCount(t)
  PROVE  Settled' /\ Follows
<1>1. pc[t] = "clear" /\ arg[t].op = "clear" /\ ret[t] = Pending
  BY DEF ClearBucket, ClearCount, Settled, Settles
<1>2. CASE ClearBucket(t)
  <2>1. /\ pc' = pc /\ arg' = arg /\ ret' = ret /\ chain' = chain /\ count' = count
        /\ \A u \in Threads \ {t} : idx'[u] = idx[u]
    BY <1>2 DEF ClearBucket, LockInv, CtlType
  <2>2. Settles(t)'
    BY <1>1, <2>1 DEF Settled, Settles
  <2>3. KeepsDead /\ DOMAIN ret' = Threads
    BY <1>1, <2>1 DEF KeepsDead, Settled
  <2>4. Settled' /\ AbsMap' = AbsMap
    BY <2>1, <2>2, <2>3, QuietSettled
  <2> QED BY <2>1, <2>4 DEF Follows
<1>3. CASE ClearCount(t)
  <2>1. /\ pc' = [pc EXCEPT ![t] = "bzero"] /\ idx' = [idx EXCEPT ![t] = 1]
        /\ arg' = arg /\ chain' = chain /\ count' = 0
        /\ ret' = [ret EXCEPT ![t] = TRUE]
    BY <1>1, <1>3 DEF ClearCount, Goto
  <2>2. pc'[t] = "bzero" /\ idx'[t] = 1
    BY <2>1 DEF LockInv, CtlType
  <2>3. ASSUME NEW b \in Buckets PROVE Dead(b)'
    BY <2>2, SizesAssumption DEF Dead, Buckets
  <2>4. AbsMap' = [k \in Keys |-> IF Dead(HashOf[k])' THEN Zero ELSE Val(chain'[HashOf[k]], k)]
    BY DEF AbsMap, Dead, Lookup, Val
  <2>5. AbsMap' = [k \in Keys |-> Zero]
    BY <2>3, <2>4, HashAssumption
  <2>6. Mapped' = {}
    BY <2>5 DEF Mapped
  <2>7. ASSUME NEW u \in Threads PROVE Settles(u)'
    <3>1. CASE u = t
      BY <1>1, <2>1, <2>2, <3>1 DEF Settles
    <3>2. CASE u # t
      BY <2>1, <3>2, OthersSettle DEF Settled, LockInv, CtlType
    <3> QED BY <3>1, <3>2
  <2>8. Settled'
    BY <2>1, <2>6, <2>7, FS_EmptySet DEF Settled
  <2>9. Abs!Result(arg[t]) = TRUE /\ Abs!Effect(arg[t]) = AbsMap'
    BY <1>1, <2>5 DEF Abs!Result, Abs!Effect
  <2>10. ret' = [ret EXCEPT ![t] = Abs!Result(arg[t])]
    BY <2>1, <2>9, Zenon
  <2> QED BY <1>1, <2>1, <2>8, <2>9, <2>10, Takes
<1> QED BY <1>2, <1>3

(* The bzero: the buckets are given back empty, as the map has it. *)
LEMMA ZeroFollows ==
  ASSUME LockInv, Settled, NEW t \in Threads, ZeroBucket(t)
  PROVE  Settled' /\ Follows
<1> DEFINE b == idx[t]
<1>1. /\ pc[t] = "bzero" /\ b \in Buckets /\ lock[b] = t
      /\ pc' = pc /\ arg' = arg /\ ret' = ret /\ count' = count
      /\ chain' = [chain EXCEPT ![b] = <<>>] /\ idx' = [idx EXCEPT ![t] = @ + 1]
  BY SizesAssumption DEF ZeroBucket, LockInv, CtlType, Holds, Buckets
<1>2. Dead(b)
  BY <1>1, SizesAssumption DEF Dead, Buckets
<1>3. ASSUME NEW d \in Buckets, d # b PROVE Dead(d)' <=> Dead(d)
  <2>1. d \in Int /\ b \in Int /\ (b + 1 <= d <=> b <= d)
    BY <1>1, <1>3, SizesAssumption DEF Buckets
  <2>2. \A u \in Threads : idx'[u] = IF u = t THEN b + 1 ELSE idx[u]
    BY <1>1 DEF LockInv, CtlType
  <2> QED BY <1>1, <2>1, <2>2 DEF Dead
<1>4. chain'[b] = <<>> /\ \A d \in Buckets : d # b => chain'[d] = chain[d]
  BY <1>1 DEF Settled
<1>5. \A k : Val(<<>>, k) = Zero
  BY ValAbsent
<1>6. AbsMap' = [k \in Keys |-> IF Dead(HashOf[k])' THEN Zero ELSE Val(chain'[HashOf[k]], k)]
  BY DEF AbsMap, Dead, Lookup, Val
<1> HIDE DEF b
<1>7. AbsMap' = AbsMap
  <2>1. ASSUME NEW k \in Keys
        PROVE  (IF Dead(HashOf[k])' THEN Zero ELSE Val(chain'[HashOf[k]], k))
               = IF Dead(HashOf[k]) THEN Zero ELSE Val(chain[HashOf[k]], k)
    <3>1. HashOf[k] \in Buckets
      BY HashAssumption
    <3>2. CASE HashOf[k] = b
      BY <1>2, <1>4, <1>5, <3>2
    <3>3. CASE HashOf[k] # b
      BY <1>3, <1>4, <3>1, <3>3
    <3> QED BY <3>2, <3>3
  <2> QED BY <1>6, <2>1, AbsMapVal
<1>8. Mapped' = Mapped
  BY <1>7 DEF Mapped
<1>9. ASSUME NEW u \in Threads PROVE Settles(u)'
  <2>1. CASE u = t
    BY <1>1, <2>1 DEF Settled, Settles
  <2>2. CASE u # t
    <3>1. pc[u] = "insert" => Bucket(u) \in Buckets /\ Bucket(u) # b
      BY <1>1, <2>2, LiveBucket
    <3> QED BY <1>1, <1>4, <3>1, OthersSettle DEF Settled
  <2> QED BY <2>1, <2>2
<1>10. \A d \in Buckets : IsChain(chain'[d], d)
  <2>1. IsChain(<<>>, b)
    BY DEF IsChain
  <2> QED BY <1>4, <2>1 DEF Settled
<1>11. chain' = [d \in Buckets |-> chain'[d]]
  BY <1>1 DEF Settled
<1>12. Settled'
  BY <1>1, <1>8, <1>9, <1>10, <1>11 DEF Settled
<1> QED BY <1>1, <1>7, <1>12 DEF Follows

(* foreach sees the map: with every lock held no clear is zeroing. *)
LEMMA EachVisitFollows ==
  ASSUME LockInv, Settled, NEW t \in Threads, EachVisit(t)
  PROVE  Settled' /\ Follows
<1>1. /\ pc[t] = "each" /\ idx[t] > NumBuckets
      /\ pc' = [pc EXCEPT ![t] = "unlockall"] /\ idx' = [idx EXCEPT ![t] = 1]
      /\ arg' = arg /\ chain' = chain /\ count' = count
      /\ ret' = [ret EXCEPT ![t] = [k \in Keys |-> Lookup(k)]]
  BY DEF EachVisit, Goto
<1>2. arg[t].op = "foreach" /\ ret[t] = Pending
  BY <1>1 DEF Settled, Settles
<1>3. ASSUME NEW b \in Buckets PROVE ~Dead(b)
  <2>1. lock[b] = t
    BY <1>1, SizesAssumption DEF LockInv, Holds, CtlType, Buckets
  <2>2. ASSUME NEW u \in Threads, pc[u] = "bzero" /\ idx[u] <= b PROVE FALSE
    <3>1. lock[b] = u
      BY <2>2, SizesAssumption DEF LockInv, Holds, CtlType, Buckets
    <3> QED BY <1>1, <2>1, <2>2, <3>1
  <2> QED BY <2>2 DEF Dead
<1>4. AbsMap = [k \in Keys |-> Lookup(k)]
  BY <1>3, AbsMapVal, HashAssumption DEF Lookup, Val
<1>5. ret' = [ret EXCEPT ![t] = AbsMap]
  BY <1>1, <1>4
<1>6. Abs!Result(arg[t]) = AbsMap /\ Abs!Effect(arg[t]) = AbsMap
  BY <1>2 DEF Abs!Result, Abs!Effect
<1>7. Settles(t)'
  BY <1>1 DEF Settles, LockInv, CtlType
<1>8. /\ KeepsDead /\ DOMAIN ret' = Threads
      /\ \A u \in Threads \ {t} : pc'[u] = pc[u] /\ arg'[u] = arg[u] /\ ret'[u] = ret[u]
  BY <1>1, <1>5 DEF KeepsDead, LockInv, CtlType, Settled
<1>9. Settled' /\ AbsMap' = AbsMap
  BY <1>1, <1>7, <1>8, QuietSettled
<1> QED BY <1>1, <1>2, <1>5, <1>6, <1>9, Takes

(* The other steps only move a thread and its locks. *)
LEMMA MovesFollow ==
  ASSUME LockInv, Settled, NEW t \in Threads,
         ClearDone(t) \/ EachLock(t) \/ EachUnlock(t) \/ BucketCounts(t)
  PROVE  Settled' /\ Follows
<1>1. /\ arg' = arg /\ chain' = chain /\ count' = count /\ ret' = ret
      /\ \A u \in Threads \ {t} : pc'[u] = pc[u] /\ idx'[u] = idx[u]
      /\ pc'[t] = "idle" \/ (pc'[t] = pc[t] /\ pc[t] \in {"each", "unlockall", "counts"})
      /\ pc[t] = "bzero" => idx[t] > NumBuckets
  <2>1. CASE ClearDone(t)
    <3>1. arg[t].op = "clear"
      BY <2>1 DEF ClearDone, Settled, Settles
    <3> QED BY <2>1, <3>1 DEF ClearDone, Goto, tables, LockInv, CtlType
  <2>2. CASE EachLock(t)
    BY <2>2 DEF EachLock, tables, LockInv, CtlType
  <2>3. CASE EachUnlock(t)
    BY <2>3 DEF EachUnlock, Goto, tables, LockInv, CtlType
  <2>4. CASE BucketCounts(t)
    BY <2>4 DEF BucketCounts, Goto, tables, LockInv, CtlType
  <2> QED BY <2>1, <2>2, <2>3, <2>4
<1>2. Settles(t)'
  BY <1>1 DEF Settled, Settles
<1>3. KeepsDead /\ DOMAIN ret' = Threads
  BY <1>1 DEF KeepsDead, Settled
<1>4. Settled' /\ AbsMap' = AbsMap
  BY <1>1, <1>2, <1>3, QuietSettled
<1> QED BY <1>1, <1>4 DEF Follows

LEMMA InitSettled == Init => Settled /\ Abs!Init
<1> SUFFICES ASSUME Init PROVE Settled /\ Abs!Init
  OBVIOUS
<1>1. \A k : Val(<<>>, k) = Zero
  BY ValAbsent
<1>2. \A b \in Buckets : ~Dead(b)
  BY DEF Init, Dead
<1>3. AbsMap = [k \in Keys |-> Zero]
  BY <1>1, <1>2, AbsMapVal, HashAssumption DEF Init
<1>4. Mapped = {}
  BY <1>3 DEF Mapped
<1>5. \A b \in Buckets : IsChain(chain[b], b)
  BY DEF Init, IsChain
<1>6. Settled
  BY <1>4, <1>5, FS_EmptySet DEF Settled, Settles, Init
<1> QED BY <1>3, <1>6 DEF Abs!Init, Init

(* As long as nothing is full, no thread is on the way to a purge.          *)
LEMMA StepFollows ==
  ASSUME LockInv, Settled, NEW t \in Threads, Begin(t) \/ Step(t)
  PROVE  \/ Settled' /\ Follows
         \/ pc'[t] = "overflow" /\ Cardinality(Mapped) >= MaxSize
<1>1. ~(LockClear(t) \/ Recheck(t) \/ Relock(t))
  BY DEF Settled, Settles, LockClear, Recheck, Relock
<1> QED BY <1>1, BeginFollows, ReadsFollow, SetPresentFollows, SetAbsentFollows, InsertFollows,
        ClearFollows, ZeroFollows, EachVisitFollows, MovesFollow DEF Step

LEMMA StutterSettled ==
  ASSUME Settled, UNCHANGED vars
  PROVE  Settled' /\ Follows
<1>1. AbsMap' = AbsMap /\ Mapped' = Mapped
  BY DEF vars, AbsMap, Lookup, Mapped
<1>2. \A u \in Threads : Settles(u)'
  BY DEF Settled, Settles, vars, Bucket
<1> QED BY <1>1, <1>2 DEF Settled, vars, Follows

LEMMA NextFollows ==
  ASSUME LockInv, full \/ Settled, [FullNext]_fullVars
  PROVE  (full \/ Settled)' /\ [full' \/ Abs!Next]_<<AbsMap, arg, ret>>
<1>1. CASE full'
  BY <1>1
<1>2. CASE ~full'
  <2>1. CASE UNCHANGED fullVars
    <3>1. full' = full /\ UNCHANGED vars
      BY <2>1 DEF fullVars
    <3>2. Settled
      BY <1>2, <3>1
    <3> QED BY <3>1, <3>2, StutterSettled DEF Follows
  <2>2. CASE FullNext
    <3>1. /\ ~full
          /\ ~((\E t \in Threads : pc'[t] = "overflow") /\ Cardinality(Mapped) >= MaxSize)
      BY <1>2, <2>2, Zenon DEF FullNext
    <3>2. ASSUME NEW t \in Threads, Begin(t) \/ Step(t) PROVE Settled' /\ Follows
      BY <3>1, <3>2, StepFollows
    <3>3. Settled' /\ Follows
      BY <2>2, <3>1, <3>2, StutterSettled DEF FullNext, Next, Finished
    <3> QED BY <3>3 DEF Follows
  <2> QED BY <2>1, <2>2
<1> QED BY <1>1, <1>2

(* SantaCache is the atomic map that its callers rely on, for any number of *)
(* threads, keys and buckets, until a set finds as many keys in the table   *)
(* as max_size_: every get, contains, set, update, clear and foreach takes  *)
(* effect at one instant under the locks it holds, with the map's result,   *)
(* and nothing is purged before.                                            *)
THEOREM AtomicUntilFull == FullSpec => ImplementsUntilFull
<1>1. FullInit => LockInv /\ (full \/ Settled) /\ Abs!Init
  BY InitLockInv, InitSettled DEF FullInit
<1>2. LockInv /\ [FullNext]_fullVars => LockInv'
  BY NextLockInv, StutterLockInv DEF FullNext, fullVars
<1>3. LockInv /\ (full \/ Settled) /\ [FullNext]_fullVars
      => (full \/ Settled)' /\ [full' \/ Abs!Next]_<<AbsMap, arg, ret>>
  BY NextFollows
<1> QED BY <1>1, <1>2, <1>3, PTL DEF FullSpec, ImplementsUntilFull
=============================================================================
