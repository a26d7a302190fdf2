SPECIFICATION Spec
CONSTANTS
  f1 = f1
  f2 = f2
  f3 = f3
  o1 = o1
  o2 = o2
  NULL = NULL
  Tids = {t1}
  Tasks = {}
  Frames = {f1, f2, f3}
  Objs = {o1, o2}
  Types = {y1}
  ToolIds = {toolA, toolB}
  Works = {}
  MaxCtx = 2
  MaxDepth = 2
  MaxRuns = 2
  RingCap = 1
  CodesAt <- ToolCodes
  MayCall <- AnyCall
  KeepCoroutines = FALSE
  Freeable = {o1}
  Collects = {t1}
  MayEnd = {}
  Killable = FALSE
  Warm = {}
  AgentPid = t1
  TgidOf <- OneProcess
  ChildScopeAll = FALSE
  MaxStack = 2
  MaxStash = 4
  MaxNest = 0
  MaxAgain = 1
INVARIANT CacheCorrect
CHECK_DEADLOCK FALSE
