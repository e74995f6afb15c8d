SPECIFICATION FullSpec
CONSTANTS
  Threads = {t1, t2}
  Keys = {"a", "b", "c"}
  Values = {v1}
  Zero = Zero
  NoPrev = NoPrev
  None = None
  Pending = Pending
  NumBuckets = 2
  HashOf <- Apart
  MaxSize = 2
  MaxOps = 2
  OpKinds = {"get", "set", "update", "contains", "clear", "foreach", "bucket_counts"}
INVARIANTS NoUseAfterFree SizeBound
PROPERTIES Termination ImplementsUntilFull
