SPECIFICATION DescentSpec
CONSTANTS
  f1 = f1
  f2 = f2
  f3 = f3
  o1 = o1
  o2 = o2
  w1 = w1
  t2 = t2
  NULL = NULL
  Tids = {t1, t2, t3, t4}
  Tasks = {}
  Frames = {f1, f2, f3, f4}
  Objs = {o1, o2}
  Types = {y1}
  ToolIds = {toolA}
  Works = {w1}
  MaxCtx = 2
  MaxDepth = 2
  MaxRuns = 2
  RingCap = 0
  CodesAt <- ForkCodes
  MayCall <- ForkCalls
  KeepCoroutines = FALSE
  Freeable = {}
  Collects = {t1}
  MayEnd = {t1, t2, t3, t4}
  Killable = TRUE
  Warm = {o1, o2}
  AgentPid = t1
  TgidOf <- OneThread
  ChildScopeAll = FALSE
  MaxStack = 2
  MaxStash = 4
  MaxNest = 0
  MaxAgain = 1
INVARIANT CarrierAccounting EventBrackets NoLeak ChildKeepsContext ToolChildrenOnly 
PROPERTY ToolChildGuarded
CHECK_DEADLOCK FALSE
