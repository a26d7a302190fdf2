SPECIFICATION Spec
CONSTANTS
  f1 = f1
  f2 = f2
  f3 = f3
  o1 = o1
  o2 = o2
  NULL = NULL
  Tids = {t1}
  Tasks = {k1, k2}
  Frames = {f1, f2, f3}
  Objs = {o1, o2}
  Types = {y1}
  ToolIds = {toolA, toolB}
  Works = {}
  MaxCtx = 2
  MaxDepth = 3
  MaxRuns = 2
  RingCap = 0
  CodesAt <- AllKinds
  MayCall <- AnyCall
  KeepCoroutines = TRUE
  Freeable = {}
  Collects = {t1}
  MayEnd = {}
  Killable = FALSE
  Warm = {o1, o2}
  AgentPid = t1
  TgidOf <- OneProcess
  ChildScopeAll = FALSE
  MaxStack = 3
  MaxStash = 4
  MaxNest = 1
  MaxAgain = 0
SYMMETRY Symmetry
INVARIANT TypeOK CarrierAccounting EventBrackets TaskCtxIsTop StackMatchesFrames
CHECK_DEADLOCK FALSE
