SPECIFICATION Spec
CONSTANTS
  f1 = f1
  f2 = f2
  f3 = f3
  o1 = o1
  o2 = o2
  NULL = NULL
  Tids = {t1}
  Tasks = {}
  Frames = {f1, f2, f3}
  Objs = {o1, o2}
  Types = {y1}
  ToolIds = {toolA, toolB}
  Works = {}
  MaxCtx = 3
  MaxDepth = 3
  MaxRuns = 2
  RingCap = 0
  CodesAt <- Packaged
  MayCall <- AnyCall
  KeepCoroutines = FALSE
  Freeable = {}
  Collects = {t1}
  MayEnd = {}
  Killable = FALSE
  Warm = {o1, o2}
  AgentPid = t1
  TgidOf <- OneProcess
  ChildScopeAll = FALSE
  MaxStack = 3
  MaxStash = 4
  MaxNest = 0
  MaxAgain = 1
INVARIANT ToolAttributed
CHECK_DEADLOCK FALSE
