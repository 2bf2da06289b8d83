CONSTANTS
  PoolPages = 20
  MaxTasks = 3
  MaxPayload = 2
  MaxBss = 1
  MaxGap = 1
SPECIFICATION Spec
INVARIANTS EachTaskMapped
