SPECIFICATION Spec
CONSTANTS
  f1 = f1
  f2 = f2
  f3 = f3
  f4 = f4
  f5 = f5
  f6 = f6
  o1 = o1
  o2 = o2
  w1 = w1
  w2 = w2
  t2 = t2
  NULL = NULL
  Tids = {t1, t2}
  Tasks = {}
  Frames = {f1, f2, f3, f4, f5, f6}
  Objs = {o1, o2}
  Types = {y1}
  ToolIds = {toolA}
  Works = {w1, w2}
  MaxCtx = 3
  MaxDepth = 2
  MaxRuns = 2
  RingCap = 0
  CodesAt <- PoolCodes
  MayCall <- PoolCalls
  KeepCoroutines = FALSE
  Freeable = {}
  Collects = {t1}
  MayEnd = {t2}
  Killable = FALSE
  Warm = {o1, o2}
  AgentPid = t1
  TgidOf <- OneProcess
  ChildScopeAll = FALSE
  MaxStack = 4
  MaxStash = 4
  MaxNest = 0
  MaxAgain = 1
INVARIANT WorkerAttributed
CHECK_DEADLOCK FALSE
