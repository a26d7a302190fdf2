---------------------------- MODULE AgentProofs -----------------------------
(***************************************************************************)
(* The type invariant of the traced agent and of the kernel maps, and that *)
(* TASK_CTX is always the top of the stack of its task, for every number   *)
(* of threads, tasks, frames and contexts.                                 *)
(***************************************************************************)
EXTENDS Agent, HandlerProofs

(* The kernel maps, and the daemon in the middle of an event: the event it  *)
(* works on stays at the head of the ring.                                  *)
KernelOK ==
  /\ MapsOK(m)
  /\ d \in DaemonType
  /\ d.pc # "next" => m.RESOLVER_EVENTS # <<>>
  /\ d.pc = "insert_obj" => d.tool \in ToolIds
  /\ d.pc \in {"get_ctx", "insert_ctx"} => Event.ctx_id \in CtxIds
  /\ d.pc = "insert_ctx" => d.ctx \in ToolCtx

(* The traced program.                                                      *)
ProgramOK ==
  /\ py \in PyType
  /\ steps \in [Tids -> Seq(StepRec)]
  /\ life \in [Frames -> FrameLife]
  /\ tlife \in [Tasks -> TaskLife]
  /\ chain \in [Tasks -> Seq(Frames)]
  /\ wlife \in [Works -> WorkLife]
  /\ again \in [Tids -> 0..MaxAgain]
  /\ alive \in SUBSET Tids

(* Task steps nest: each starts at a depth of the call stack that is still  *)
(* there when it ends.  A repeated entry probe needs a frame.               *)
StepsNest(s, stack) ==
  /\ \A i \in 1..Len(s) : s[i].base <= Len(stack)
  /\ \A i, j \in 1..Len(s) : i <= j => s[i].base <= s[j].base

NestOK ==
  \A t \in Tids : /\ StepsNest(steps[t], py.stack[t])
                  /\ again[t] > 0 => py.stack[t] # <<>>

IInv == KernelOK /\ ProgramOK /\ NestOK

-----------------------------------------------------------------------------
(* The inductive invariant says what the runs check.                        *)

(* The inductive invariant implies the type invariant and TaskCtxIsTop.     *)
LEMMA InvImplies ==
  ASSUME IInv
  PROVE  TypeOK /\ TaskCtxIsTop
BY DEF IInv, KernelOK, ProgramOK, MapsOK, TypeOK, TaskCtxIsTop

(* Nothing is mapped at first but the cached tools.                         *)
LEMMA EmptyMapsOK ==
  ASSUME NEW cache \in [Objs -> ToolObjCacheEntry \cup {NULL}], NEW protected \in SUBSET Tids
  PROVE  MapsOK(EmptyMaps(cache, protected)) /\ EmptyMaps(cache, protected).RESOLVER_EVENTS = <<>>
<1> DEFINE r == EmptyMaps(cache, protected)
           zero == [start |-> 0, frame_end |-> 0, context_end |-> 0]
<1>1. zero \in EventCounts
  BY DEF EventCounts
<1>2. <<>> \in Stack(CtxIds) /\ <<>> \in Stack(ToolStackEntry) /\ <<>> \in Seq(Frames)
      /\ <<>> \in Seq(ResolverEvent) /\ <<>> \in {q \in Seq(WorkerRunEntry) : Len(q) <= MaxRuns}
  BY BoundsAssumption DEF Stack
<1>3. 0 \in Nat
  OBVIOUS
<1>4. r \in MapsType
  BY <1>1, <1>2, <1>3, Zenon DEF MapsType, EmptyMaps, zero
<1>5. r.TASK_CTX = [k \in Tasks |-> NULL] /\ r.TASK_CTX_STACK = [k \in Tasks |-> <<>>]
      /\ r.RESOLVER_EVENTS = <<>>
  BY Zenon DEF EmptyMaps
<1> QED
  BY <1>4, <1>5 DEF MapsOK, top_or_null

(* The maps are loaded empty but for the warm object cache.                 *)
LEMMA InitOK ==
  ASSUME Init
  PROVE  IInv
<1> DEFINE cache == [o \in Objs |-> IF o \in Warm
                                    THEN [tool_id |-> py.tool[o], type_ptr |-> py.type[o]]
                                    ELSE NULL]
<1>1. NoCode \in Code
  BY DEF NoCode, Code
<1>2. py \in PyType
  <2> DEFINE code == [f \in Frames |-> NoCode]
             prev == [f \in Frames |-> 1]
             local == [f \in Frames |-> NULL]
             stack == [t \in Tids |-> <<>>]
  <2>1. py \in [code : {code}, prev : {prev}, type : [Objs -> Types],
                tool : [Objs -> ToolIds], local : {local}, stack : {stack}]
    BY DEF Init
  <2>2. /\ code \in [Frames -> Code]
        /\ prev \in [Frames -> ParentPtrs]
        /\ local \in [Frames -> Works \cup {NULL}]
        /\ stack \in [Tids -> Seq(Frames)]
    BY <1>1 DEF ParentPtrs
  <2> HIDE DEF code, prev, local, stack
  <2> QED
    BY <2>1, <2>2, Zenon DEF PyType
<1>3. cache \in [Objs -> ToolObjCacheEntry \cup {NULL}]
  BY <1>2, PyObj DEF ToolObjCacheEntry
<1>4. m = EmptyMaps(cache, {AgentPid}) /\ {AgentPid} \in SUBSET Tids
  BY AgentAssumption DEF Init
<1> HIDE DEF cache
<1>5. MapsOK(m)
  BY <1>3, <1>4, EmptyMapsOK
<1>6. KernelOK
  BY <1>5 DEF Init, KernelOK, DaemonIdle, DaemonType
<1>7. ProgramOK
  BY <1>2, AgentAssumption DEF Init, ProgramOK, FrameLife, TaskLife, WorkLife
<1>8. NestOK
  BY DEF Init, NestOK, StepsNest
<1> QED
  BY <1>6, <1>7, <1>8 DEF IInv

(* A handler of the kernel does not disturb the daemon.                     *)
LEMMA HandlerStep ==
  ASSUME KernelOK, d' = d, NEW n \in Nat, Grows(m, m', n)
  PROVE  KernelOK'
BY DEF KernelOK, Grows, Event

-----------------------------------------------------------------------------
(* The daemon.                                                              *)

(* Releasing the ring item keeps the maps consistent.                       *)
LEMMA NextEventOK ==
  ASSUME MapsOK(m), m.RESOLVER_EVENTS # <<>>
  PROVE  MapsOK(NextEvent)
<1> DEFINE q == Tail(m.RESOLVER_EVENTS)
           r == [m EXCEPT !.RESOLVER_EVENTS = q]
<1>1. m \in MapsType
  BY DEF MapsOK
<1>2. NextEvent = r
  BY <1>1, Zenon DEF NextEvent, MapsType
<1>3. q \in Seq(ResolverEvent)
  BY <1>1, MapsFields
<1> HIDE DEF q
<1>4. r \in MapsType /\ r.TASK_CTX = m.TASK_CTX /\ r.TASK_CTX_STACK = m.TASK_CTX_STACK
  BY <1>1, <1>3, Zenon DEF MapsType
<1> QED
  BY <1>2, <1>4 DEF MapsOK

(* The event at the head of the ring is a resolver event.                   *)
LEMMA EventTyped ==
  ASSUME KernelOK, d.pc # "next"
  PROVE  /\ m \in MapsType
         /\ m.RESOLVER_EVENTS # <<>>
         /\ Event \in ResolverEvent
<1>1. m \in MapsType /\ m.RESOLVER_EVENTS # <<>>
  BY DEF KernelOK, MapsOK
<1>2. m.RESOLVER_EVENTS \in Seq(ResolverEvent)
  BY <1>1, MapsFields
<1> QED
  BY <1>1, <1>2 DEF Event

(* GoToCtx drops the event or keeps it for the context it names.            *)
LEMMA GoToCtxOK ==
  ASSUME KernelOK, d.pc # "next", NEW maps, MapsOK(maps),
         maps.RESOLVER_EVENTS = m.RESOLVER_EVENTS,
         NEW tool \in ToolIds \cup {TOOL_IDLE}, GoToCtx(maps, tool)
  PROVE  KernelOK'
<1> DEFINE q == Tail(maps.RESOLVER_EVENTS)
           r == [maps EXCEPT !.RESOLVER_EVENTS = q]
<1>1. /\ m.RESOLVER_EVENTS # <<>>
      /\ Event \in ResolverEvent
  BY EventTyped
<1>2. CASE Event.ctx_id = NULL
  <2>1. maps \in MapsType
    BY DEF MapsOK
  <2>2. m' = r /\ d' = DaemonIdle
    <3>1. m' = [maps EXCEPT !.RESOLVER_EVENTS = Tail(@)] /\ d' = DaemonIdle
      BY <1>2 DEF GoToCtx
    <3> QED
      BY <2>1, <3>1, Zenon DEF MapsType
  <2>3. q \in Seq(ResolverEvent)
    BY <1>1, <2>1, MapsFields
  <2> HIDE DEF q
  <2>4. r \in MapsType /\ r.TASK_CTX = maps.TASK_CTX /\ r.TASK_CTX_STACK = maps.TASK_CTX_STACK
    BY <2>1, <2>3, Zenon DEF MapsType
  <2> HIDE DEF r
  <2>5. MapsOK(m')
    BY <2>2, <2>4 DEF MapsOK
  <2> QED
    BY <2>2, <2>5 DEF KernelOK, DaemonIdle, DaemonType
<1>3. CASE Event.ctx_id # NULL
  <2>1. m' = maps /\ d' = [pc |-> "get_ctx", tool |-> tool, ctx |-> NULL]
    BY <1>3 DEF GoToCtx
  <2>2. Event.ctx_id \in CtxIds
    BY <1>1, <1>3 DEF ResolverEvent
  <2>3. Event' = Event
    BY <2>1 DEF Event
  <2> QED
    BY <1>1, <2>1, <2>2, <2>3 DEF KernelOK, DaemonType
<1> QED
  BY <1>2, <1>3

(* Taking an event, or logging a failed one.                                *)
LEMMA ResolverTakeOK ==
  ASSUME KernelOK, ResolverTake
  PROVE  KernelOK'
<1>1. CASE Event.failed
  <2>1. m' = NextEvent /\ d' = d /\ d.pc = "next" /\ m.RESOLVER_EVENTS # <<>>
    BY <1>1 DEF ResolverTake
  <2>2. MapsOK(m')
    BY <2>1, NextEventOK DEF KernelOK
  <2> QED
    BY <2>1, <2>2 DEF KernelOK
<1>2. CASE ~Event.failed
  <2>1. m' = m /\ d' = [d EXCEPT !.pc = "read_object"] /\ m.RESOLVER_EVENTS # <<>>
    BY <1>2 DEF ResolverTake
  <2>2. d \in DaemonType
    BY DEF KernelOK
  <2>3. d' \in DaemonType /\ d'.pc = "read_object"
    BY <2>1, <2>2 DEF DaemonType
  <2> QED
    BY <2>1, <2>3 DEF KernelOK
<1> QED
  BY <1>1, <1>2

(* Reading the object of the event.                                         *)
LEMMA ResolverReadObjectOK ==
  ASSUME KernelOK, py \in PyType, ResolverReadObject
  PROVE  KernelOK'
<1> DEFINE n == py.tool[Event.self_ptr]
<1>1. m' = m /\ d.pc = "read_object" /\ d' = [d EXCEPT !.pc = "insert_obj", !.tool = n]
  BY DEF ResolverReadObject
<1>2. Event \in ResolverEvent /\ m.RESOLVER_EVENTS # <<>>
  BY <1>1, EventTyped
<1>3. n \in ToolIds
  BY <1>2, PyObj DEF ResolverEvent
<1> HIDE DEF n
<1>4. d \in DaemonType
  BY DEF KernelOK
<1>5. d' \in DaemonType /\ d'.pc = "insert_obj" /\ d'.tool \in ToolIds
  BY <1>1, <1>3, <1>4, Zenon DEF DaemonType
<1> QED
  BY <1>1, <1>2, <1>5 DEF KernelOK

(* The object cannot be read.                                               *)
LEMMA ResolverReadFailsOK ==
  ASSUME KernelOK, ResolverReadFails
  PROVE  KernelOK'
<1>1. d.pc # "next" /\ GoToCtx(m, TOOL_IDLE)
  BY DEF ResolverReadFails
<1> QED
  BY <1>1, GoToCtxOK DEF KernelOK

(* Caching the tool of the object in TOOL_OBJ.                              *)
LEMMA ResolverInsertObjOK ==
  ASSUME KernelOK, ResolverInsertObj
  PROVE  KernelOK'
<1> DEFINE o == Event.self_ptr
           v == [tool_id |-> d.tool, type_ptr |-> Event.type_ptr]
           r == [m EXCEPT !.TOOL_OBJ[o] = v]
<1>1. d.pc = "insert_obj" /\ GoToCtx(r, d.tool)
  BY DEF ResolverInsertObj
<1>2. d.pc # "next" /\ d.tool \in ToolIds
  BY <1>1 DEF KernelOK
<1>3. m \in MapsType /\ Event \in ResolverEvent
  BY <1>2, EventTyped
<1>4. o \in Objs /\ v \in ToolObjCacheEntry
  BY <1>2, <1>3 DEF ResolverEvent, ToolObjCacheEntry
<1> HIDE DEF o, v
<1>5. /\ r \in MapsType
      /\ r.TASK_CTX = m.TASK_CTX
      /\ r.TASK_CTX_STACK = m.TASK_CTX_STACK
      /\ r.RESOLVER_EVENTS = m.RESOLVER_EVENTS
  BY <1>3, <1>4, Zenon DEF MapsType
<1> HIDE DEF r
<1>6. MapsOK(r)
  BY <1>5 DEF KernelOK, MapsOK
<1> QED
  BY <1>1, <1>2, <1>5, <1>6, GoToCtxOK

(* Copying the TOOL_CTX entry of the event.                                 *)
LEMMA ResolverGetCtxOK ==
  ASSUME KernelOK, ResolverGetCtx
  PROVE  KernelOK'
<1>1. d.pc = "get_ctx"
  BY DEF ResolverGetCtx
<1>2. m \in MapsType /\ m.RESOLVER_EVENTS # <<>> /\ d \in DaemonType /\ Event.ctx_id \in CtxIds
  BY <1>1, EventTyped DEF KernelOK
<1>3. CASE ctx_is_live(m, Event.ctx_id)
  <2>1. m' = m /\ d' = [d EXCEPT !.pc = "insert_ctx", !.ctx = m.TOOL_CTX[Event.ctx_id]]
    BY <1>3 DEF ResolverGetCtx
  <2>2. m.TOOL_CTX[Event.ctx_id] \in ToolCtx
    BY <1>2, <1>3, LiveType DEF CtxOrNull
  <2>3. d' \in DaemonType /\ d'.pc = "insert_ctx" /\ d'.ctx \in ToolCtx
    BY <1>2, <2>1, <2>2, Zenon DEF DaemonType
  <2>4. Event' = Event
    BY <2>1 DEF Event
  <2> QED
    BY <1>2, <2>1, <2>3, <2>4 DEF KernelOK
<1>4. CASE ~ctx_is_live(m, Event.ctx_id)
  <2>1. m' = NextEvent /\ d' = DaemonIdle
    BY <1>4 DEF ResolverGetCtx
  <2>2. MapsOK(m')
    BY <1>2, <2>1, NextEventOK DEF KernelOK
  <2> QED
    BY <2>1, <2>2 DEF KernelOK, DaemonIdle, DaemonType
<1> QED
  BY <1>3, <1>4

(* Writing the copy back to TOOL_CTX.                                       *)
LEMMA ResolverInsertCtxOK ==
  ASSUME KernelOK, ResolverInsertCtx
  PROVE  KernelOK'
<1> DEFINE c == Event.ctx_id
           r == NextEvent
           v == [d.ctx EXCEPT !.tool_id = d.tool, !.resolver_error = @ \/ d.tool = TOOL_IDLE]
           s == [r EXCEPT !.TOOL_CTX[c] = v]
<1>1. d.pc = "insert_ctx" /\ m' = s /\ d' = DaemonIdle
  BY DEF ResolverInsertCtx
<1>2. m.RESOLVER_EVENTS # <<>> /\ d \in DaemonType /\ c \in CtxIds /\ d.ctx \in ToolCtx
  BY <1>1, EventTyped DEF KernelOK
<1>3. v \in ToolCtx
  BY <1>2, Zenon DEF DaemonType, ToolCtx
<1>4. MapsOK(r)
  BY <1>2, NextEventOK DEF KernelOK
<1> HIDE DEF c, v, r
<1>5. s \in MapsType /\ s.TASK_CTX = r.TASK_CTX /\ s.TASK_CTX_STACK = r.TASK_CTX_STACK
  <2>1. r \in MapsType
    BY <1>4 DEF MapsOK
  <2> QED
    BY <1>2, <1>3, <2>1, Zenon DEF MapsType
<1> HIDE DEF s
<1>6. MapsOK(m')
  BY <1>1, <1>4, <1>5 DEF MapsOK
<1> QED
  BY <1>1, <1>6 DEF KernelOK, DaemonIdle, DaemonType

(* The daemon does not touch the traced program.                            *)
LEMMA DaemonStepOK ==
  ASSUME IInv, DaemonStep
  PROVE  IInv'
<1>1. KernelOK /\ py \in PyType
  BY DEF IInv, ProgramOK
<1>2. py' = py /\ again' = again /\ penv' = penv
  BY DEF DaemonStep, ResolverTake, ResolverReadObject, ResolverReadFails, ResolverInsertObj,
         ResolverGetCtx, ResolverInsertCtx
<1>3. KernelOK'
  <2>1. CASE ResolverTake
    BY <1>1, <2>1, ResolverTakeOK
  <2>2. CASE ResolverReadObject
    BY <1>1, <2>2, ResolverReadObjectOK
  <2>3. CASE ResolverReadFails
    BY <1>1, <2>3, ResolverReadFailsOK
  <2>4. CASE ResolverInsertObj
    BY <1>1, <2>4, ResolverInsertObjOK
  <2>5. CASE ResolverGetCtx
    BY <1>1, <2>5, ResolverGetCtxOK
  <2>6. CASE ResolverInsertCtx
    BY <1>1, <2>6, ResolverInsertCtxOK
  <2> QED
    BY <2>1, <2>2, <2>3, <2>4, <2>5, <2>6 DEF DaemonStep
<1>4. ProgramOK' /\ NestOK'
  BY <1>2 DEF IInv, ProgramOK, NestOK, penv
<1> QED
  BY <1>3, <1>4 DEF IInv

-----------------------------------------------------------------------------
(* What the steps of the traced program need of its state.                  *)

(* The call stack of a thread is a sequence of frames.                      *)
LEMMA StackTyped ==
  ASSUME IInv, NEW tid \in Tids
  PROVE  /\ py \in PyType
         /\ py.stack \in [Tids -> Seq(Frames)]
         /\ py.stack[tid] \in Seq(Frames)
         /\ py.stack[tid] # <<>> => Last(py.stack[tid]) \in Frames
<1>1. py \in PyType
  BY DEF IInv, ProgramOK
<1>2. py.stack \in [Tids -> Seq(Frames)]
  BY <1>1 DEF PyType
<1>3. py.stack[tid] \in Seq(Frames)
  BY <1>2
<1> QED
  BY <1>1, <1>2, <1>3, FrontType

(* The task steps of a thread nest in its call stack.                       *)
LEMMA StepsTyped ==
  ASSUME IInv, NEW tid \in Tids
  PROVE  /\ steps \in [Tids -> Seq(StepRec)]
         /\ steps[tid] \in Seq(StepRec)
         /\ StepsNest(steps[tid], py.stack[tid])
         /\ steps[tid] # <<>> => /\ Len(steps[tid]) \in 1..Len(steps[tid])
                                 /\ Last(steps[tid]) = steps[tid][Len(steps[tid])]
                                 /\ Last(steps[tid]) \in StepRec
<1>1. steps \in [Tids -> Seq(StepRec)] /\ StepsNest(steps[tid], py.stack[tid])
  BY DEF IInv, ProgramOK, NestOK
<1>2. steps[tid] \in Seq(StepRec)
  BY <1>1
<1>3. steps[tid] # <<>> => Len(steps[tid]) \in 1..Len(steps[tid])
  BY <1>2
<1>4. Last(steps[tid]) = steps[tid][Len(steps[tid])]
  BY DEF Last
<1> QED
  BY <1>1, <1>2, <1>3, <1>4

(* The innermost task step starts at a height the call stack has.           *)
LEMMA BaseTyped ==
  ASSUME IInv, NEW tid \in Tids
  PROVE  Base(tid) \in 0..Len(py.stack[tid])
<1>1. Len(py.stack[tid]) \in Nat
  BY StackTyped
<1>2. CASE steps[tid] = <<>>
  BY <1>1, <1>2 DEF Base
<1>3. CASE steps[tid] # <<>>
  <2>1. Last(steps[tid]).base \in Nat /\ Last(steps[tid]).base <= Len(py.stack[tid])
    BY <1>3, StepsTyped, Zenon DEF StepsNest, StepRec
  <2> QED
    BY <1>1, <1>3, <2>1 DEF Base
<1> QED
  BY <1>2, <1>3

(* A new frame points to a frame or to the entry frame of its C call.       *)
LEMMA PreviousTyped ==
  ASSUME IInv, NEW tid \in Tids
  PROVE  Previous(tid) \in ParentPtrs
<1>1. CASE AtBase(tid)
  <2>1. Len(steps[tid]) \in Nat
    BY StepsTyped
  <2> QED
    BY <1>1, <2>1 DEF Previous, ParentPtrs
<1>2. CASE ~AtBase(tid)
  <2>1. py.stack[tid] # <<>>
    BY <1>2, BaseTyped DEF AtBase
  <2>2. Last(py.stack[tid]) \in Frames
    BY <2>1, StackTyped
  <2> QED
    BY <1>2, <2>2 DEF Previous, ParentPtrs
<1> QED
  BY <1>1, <1>2

(* The guard on CTX_COUNTER leaves the ids that the entry needs.            *)
LEMMA AllocatesFits ==
  ASSUME NEW f \in Frames, m.CTX_COUNTER \in Nat, m.CTX_COUNTER + Allocates(f) <= MaxCtx
  PROVE  EntryFits(m, py', f)
<1> DEFINE kind == py'.code[f].kind
           c == m.FRAME_CTX[f]
           known == cached_frame_self_tool_id(m, py', f) \in {TOOL_IDLE, tool_of(m, c)}
<1>1. Allocates(f) = IF kind = IMPL THEN 2
                     ELSE IF kind \in {LC, LG} THEN IF c # NULL /\ known THEN 0 ELSE 1
                     ELSE 0
  BY DEF Allocates, IMPL, LC, LG
<1>2. LC # IMPL /\ LG # IMPL
  BY DEF IMPL, LC, LG
<1>3. kind = IMPL => m.CTX_COUNTER + 2 <= MaxCtx
  BY <1>1
<1>4. kind \in {LC, LG} /\ ~(c # NULL /\ known) => m.CTX_COUNTER < MaxCtx
  BY <1>1, <1>2, BoundsAssumption
<1> HIDE DEF known
<1>5. \/ kind \notin {LC, LG}
      \/ m.CTX_COUNTER < MaxCtx
      \/ c # NULL /\ known
  BY <1>4
<1> QED
  BY <1>3, <1>5 DEF EntryFits, known

(* The kernel half and the program half of an entry of a frame.             *)
LEMMA EnterOK ==
  ASSUME IInv, NEW tid \in Tids, NEW f \in Frames, NEW code \in Code, Enter(tid, f, code), d' = d
  PROVE  /\ KernelOK'
         /\ py' \in PyType
         /\ py'.stack = [py.stack EXCEPT ![tid] = Append(@, f)]
         /\ life' \in [Frames -> FrameLife]
         /\ again' \in [Tids -> 0..MaxAgain]
         /\ again' = [again EXCEPT ![tid] = MaxAgain]
<1> DEFINE p == Previous(tid)
           s == Append(py.stack[tid], f)
<1>1. KernelOK /\ MapsOK(m) /\ m \in MapsType
  BY DEF IInv, KernelOK, MapsOK
<1>2. py \in PyType /\ py.stack \in [Tids -> Seq(Frames)] /\ p \in ParentPtrs /\ s \in Seq(Frames)
  BY StackTyped, PreviousTyped
<1>3. py' = [py EXCEPT !.code[f] = code, !.prev[f] = p, !.stack[tid] = s]
  <2>1. py' = [py EXCEPT !.code[f] = code, !.prev[f] = Previous(tid), !.stack[tid] = Append(@, f)]
    BY DEF Enter
  <2> QED
    BY <1>2, <2>1, Zenon DEF PyType
<1>4. /\ m.CTX_COUNTER + Allocates(f) <= MaxCtx
      /\ m' = frame_entry(m, py', tid, f, TgidOf[tid])
      /\ life' = [life EXCEPT ![f] = "running"]
      /\ again' = [again EXCEPT ![tid] = MaxAgain]
  BY DEF Enter
<1> HIDE DEF p, s
<1>5. py' \in PyType /\ py'.stack = [py.stack EXCEPT ![tid] = s]
  BY <1>2, <1>3, Zenon DEF PyType
<1>6. EntryFits(m, py', f)
  BY <1>1, <1>4, AllocatesFits, MapsFields
<1>7. Grows(m, m', 2)
  BY <1>1, <1>4, <1>5, <1>6, EntryProbe
<1>8. KernelOK'
  BY <1>1, <1>7, HandlerStep
<1>9. py'.stack = [py.stack EXCEPT ![tid] = Append(@, f)]
  BY <1>2, <1>5 DEF s
<1>10. life' \in [Frames -> FrameLife]
  BY <1>4 DEF IInv, ProgramOK, FrameLife
<1>11. again' \in [Tids -> 0..MaxAgain]
  BY <1>4, AgentAssumption DEF IInv, ProgramOK
<1> QED
  BY <1>4, <1>5, <1>8, <1>9, <1>10, <1>11

(* Nesting depends on the bases of the steps, and a longer stack keeps it.  *)
LEMMA NestMono ==
  ASSUME NEW s \in Seq(StepRec), NEW r, Len(r) = Len(s),
         \A i \in 1..Len(s) : r[i].base = s[i].base,
         NEW a \in Seq(Frames), NEW b \in Seq(Frames), StepsNest(s, a), Len(a) <= Len(b)
  PROVE  StepsNest(r, b)
<1>1. \A i \in 1..Len(s) : s[i] \in StepRec
  OBVIOUS
<1>2. \A i \in 1..Len(s) : s[i].base \in Nat
  BY <1>1 DEF StepRec
<1>3. Len(a) \in Nat /\ Len(b) \in Nat
  OBVIOUS
<1>4. \A i \in 1..Len(r) : r[i].base <= Len(b)
  BY <1>2, <1>3 DEF StepsNest
<1>5. \A i, j \in 1..Len(r) : i <= j => r[i].base <= r[j].base
  BY DEF StepsNest
<1> QED
  BY <1>4, <1>5 DEF StepsNest

(* The stack may shrink to the base of the innermost step.                  *)
LEMMA ShrinkNests ==
  ASSUME NEW s \in Seq(StepRec), NEW a \in Seq(Frames), NEW b \in Seq(Frames), StepsNest(s, a),
         s # <<>> => s[Len(s)].base <= Len(b)
  PROVE  StepsNest(s, b)
<1>1. \A i \in 1..Len(s) : s[i] \in StepRec
  OBVIOUS
<1>2. \A i \in 1..Len(s) : s[i].base \in Nat
  BY <1>1 DEF StepRec
<1>3. Len(b) \in Nat /\ Len(s) \in Nat
  OBVIOUS
<1>4. ASSUME NEW i \in 1..Len(s)
      PROVE  s[i].base <= Len(b)
  <2>1. Len(s) \in 1..Len(s) /\ i <= Len(s) /\ s # <<>>
    BY <1>3
  <2>2. s[i].base <= s[Len(s)].base
    BY <2>1 DEF StepsNest
  <2> QED
    BY <1>2, <1>3, <2>1, <2>2
<1> QED
  BY <1>4 DEF StepsNest

(* Steps nest when one ends.                                                *)
LEMMA PopNests ==
  ASSUME NEW s \in Seq(StepRec), s # <<>>, NEW a, StepsNest(s, a)
  PROVE  Front(s) \in Seq(StepRec) /\ StepsNest(Front(s), a)
<1>1. Front(s) \in Seq(StepRec) /\ Len(Front(s)) = Len(s) - 1
  BY FrontType
<1>2. Len(s) \in Nat
  OBVIOUS
<1>3. \A i \in 1..Len(Front(s)) : i \in 1..Len(s) /\ Front(s)[i] = s[i]
  BY <1>1, <1>2 DEF Front
<1> QED
  BY <1>1, <1>3, Zenon DEF StepsNest

(* Steps nest when one starts.                                              *)
LEMMA AppendNests ==
  ASSUME NEW s \in Seq(StepRec), NEW a \in Seq(Frames), StepsNest(s, a),
         NEW e \in StepRec, e.base = Len(a)
  PROVE  Append(s, e) \in Seq(StepRec) /\ StepsNest(Append(s, e), a)
<1> DEFINE r == Append(s, e)
<1>1. r \in Seq(StepRec) /\ Len(r) = Len(s) + 1 /\ Len(s) \in Nat /\ Len(a) \in Nat
  OBVIOUS
<1>2. \A i \in 1..Len(s) : r[i] = s[i]
  OBVIOUS
<1>3. r[Len(s) + 1] = e
  OBVIOUS
<1> HIDE DEF r
<1>4. \A i \in 1..Len(r) : i \in 1..Len(s) \/ i = Len(s) + 1
  BY <1>1
<1>5. \A i \in 1..Len(r) : r[i].base <= Len(a)
  BY <1>1, <1>2, <1>3, <1>4 DEF StepsNest
<1>6. ASSUME NEW i \in 1..Len(r), NEW j \in 1..Len(r), i <= j
      PROVE  r[i].base <= r[j].base
  <2>1. CASE j = Len(s) + 1
    BY <1>3, <1>5, <2>1
  <2>2. CASE j \in 1..Len(s)
    <3>1. i \in 1..Len(s)
      BY <1>1, <1>6, <2>2
    <3> QED
      BY <1>2, <1>6, <2>2, <3>1 DEF StepsNest
  <2> QED
    BY <1>4, <2>1, <2>2
<1>7. StepsNest(r, a)
  BY <1>5, <1>6 DEF StepsNest
<1> QED
  BY <1>1, <1>7 DEF r

(* Task steps stay nested when a frame is pushed.                           *)
LEMMA PushNests ==
  ASSUME IInv, NEW tid \in Tids, NEW f \in Frames,
         py'.stack = [py.stack EXCEPT ![tid] = Append(@, f)],
         again' = [again EXCEPT ![tid] = MaxAgain],
         \A t \in Tids : /\ Len(steps'[t]) = Len(steps[t])
                         /\ \A i \in 1..Len(steps[t]) : steps'[t][i].base = steps[t][i].base
  PROVE  NestOK'
<1> SUFFICES ASSUME NEW t \in Tids
             PROVE  StepsNest(steps'[t], py'.stack[t]) /\ (again'[t] > 0 => py'.stack[t] # <<>>)
  BY DEF NestOK
<1>1. /\ py.stack \in [Tids -> Seq(Frames)]
      /\ py.stack[t] \in Seq(Frames)
      /\ StepsNest(steps[t], py.stack[t])
      /\ again \in [Tids -> 0..MaxAgain]
      /\ again[t] > 0 => py.stack[t] # <<>>
      /\ steps[t] \in Seq(StepRec)
  BY StackTyped, StepsTyped DEF IInv, NestOK, ProgramOK
<1>2. CASE t = tid
  <2>1. py'.stack[t] = Append(py.stack[t], f)
    BY <1>1, <1>2
  <2>2. py'.stack[t] # <<>> /\ Len(py.stack[t]) <= Len(py'.stack[t]) /\ py'.stack[t] \in Seq(Frames)
    BY <1>1, <2>1
  <2> QED
    BY <1>1, <2>2, NestMono, Zenon
<1>3. CASE t # tid
  <2>1. py'.stack[t] = py.stack[t] /\ again'[t] = again[t]
    BY <1>1, <1>3
  <2>2. Len(py.stack[t]) <= Len(py'.stack[t])
    BY <1>1, <2>1
  <2> QED
    BY <1>1, <2>1, <2>2, NestMono, Zenon
<1> QED
  BY <1>2, <1>3

(* A step that neither calls nor returns, nor starts or ends a task step.   *)
LEMMA QuietStep ==
  ASSUME IInv, NEW tid \in Tids, KernelOK',
         py' \in PyType, py'.stack = py.stack, steps' = steps,
         again' = [again EXCEPT ![tid] = 0],
         life' \in [Frames -> FrameLife], tlife' \in [Tasks -> TaskLife],
         chain' \in [Tasks -> Seq(Frames)], wlife' \in [Works -> WorkLife],
         alive' \in SUBSET Tids
  PROVE  IInv'
<1>1. again \in [Tids -> 0..MaxAgain] /\ steps \in [Tids -> Seq(StepRec)] /\ NestOK
  BY DEF IInv, ProgramOK
<1>2. again' \in [Tids -> 0..MaxAgain]
  BY <1>1, AgentAssumption
<1>3. ProgramOK'
  BY <1>1, <1>2 DEF ProgramOK
<1>4. \A t \in Tids : again'[t] > 0 => again[t] > 0
  BY <1>1
<1>5. NestOK'
  BY <1>1, <1>4 DEF NestOK
<1> QED
  BY <1>3, <1>5 DEF IInv

(* The conjuncts of the inductive invariant.                                *)
LEMMA Unpacked ==
  ASSUME IInv
  PROVE  /\ KernelOK
         /\ MapsOK(m)
         /\ m \in MapsType
         /\ py \in PyType
         /\ steps \in [Tids -> Seq(StepRec)]
         /\ life \in [Frames -> FrameLife]
         /\ tlife \in [Tasks -> TaskLife]
         /\ chain \in [Tasks -> Seq(Frames)]
         /\ wlife \in [Works -> WorkLife]
         /\ again \in [Tids -> 0..MaxAgain]
         /\ alive \in SUBSET Tids
BY DEF IInv, KernelOK, MapsOK, ProgramOK

(* Frames that start to run.                                                *)

(* Running a work object leaves it in a state of its life.                  *)
LEMMA UseWorkOK ==
  ASSUME IInv, NEW tid \in Tids, NEW code \in Code, UseWork(tid, code)
  PROVE  wlife' \in [Works -> WorkLife]
<1>1. wlife \in [Works -> WorkLife]
  BY Unpacked
<1>2. CASE wlife' = wlife
  BY <1>1, <1>2
<1>3. CASE \E x \in {WORKITEM_CTOR, THREAD_CTOR, "running"} :
             wlife' = [wlife EXCEPT ![code.self] = x]
  BY <1>1, <1>3, Zenon DEF WorkLife
<1> QED
  BY <1>2, <1>3 DEF UseWork, WORKITEM_CTOR, THREAD_CTOR, WORKITEM_RUN, THREAD_RUN

(* A function is called.                                                    *)
LEMMA CallOK ==
  ASSUME IInv, NEW tid \in Tids, NEW f \in Frames, NEW code \in Code, Call(tid, f, code)
  PROVE  IInv'
<1>1. /\ Enter(tid, f, code)
      /\ UseWork(tid, code)
      /\ d' = d /\ steps' = steps /\ tlife' = tlife /\ chain' = chain /\ alive' = alive
  BY DEF Call
<1>2. /\ KernelOK'
      /\ py' \in PyType
      /\ py'.stack = [py.stack EXCEPT ![tid] = Append(@, f)]
      /\ life' \in [Frames -> FrameLife]
      /\ again' \in [Tids -> 0..MaxAgain]
      /\ again' = [again EXCEPT ![tid] = MaxAgain]
  BY <1>1, EnterOK
<1>3. wlife' \in [Works -> WorkLife]
  BY <1>1, UseWorkOK
<1>4. ProgramOK'
  BY <1>1, <1>2, <1>3, Unpacked DEF ProgramOK
<1>5. NestOK'
  BY <1>1, <1>2, PushNests, Zenon
<1> QED
  BY <1>2, <1>4, <1>5 DEF IInv

(* A coroutine is awaited for the first time.                               *)
LEMMA AwaitOK ==
  ASSUME IInv, NEW tid \in Tids, NEW f \in Frames, Await(tid, f)
  PROVE  IInv'
<1>1. /\ Enter(tid, f, py.code[f])
      /\ d' = d /\ steps' = steps /\ tlife' = tlife /\ chain' = chain /\ wlife' = wlife
      /\ alive' = alive
  BY DEF Await
<1>2. py.code[f] \in Code
  BY Unpacked, PyFields
<1>3. /\ KernelOK'
      /\ py' \in PyType
      /\ py'.stack = [py.stack EXCEPT ![tid] = Append(@, f)]
      /\ life' \in [Frames -> FrameLife]
      /\ again' \in [Tids -> 0..MaxAgain]
      /\ again' = [again EXCEPT ![tid] = MaxAgain]
  BY <1>1, <1>2, EnterOK
<1>4. ProgramOK'
  BY <1>1, <1>3, Unpacked DEF ProgramOK
<1>5. NestOK'
  BY <1>1, <1>3, PushNests, Zenon
<1> QED
  BY <1>3, <1>4, <1>5 DEF IInv

(* A suspended frame of the step runs on.                                   *)
LEMMA ResumeFrameOK ==
  ASSUME IInv, NEW tid \in Tids, ResumeFrame(tid)
  PROVE  IInv'
<1> DEFINE n == Len(steps[tid])
           todo == steps[tid][n].todo
           f == Head(todo)
           r == Tail(todo)
           v == [steps[tid][n] EXCEPT !.todo = r]
           q == [steps[tid] EXCEPT ![n] = v]
<1>1. /\ ~Resumed(tid)
      /\ Enter(tid, f, py.code[f])
      /\ steps' = [steps EXCEPT ![tid][n].todo = Tail(@)]
      /\ d' = d /\ tlife' = tlife /\ chain' = chain /\ wlife' = wlife /\ alive' = alive
  BY DEF ResumeFrame
<1>2. steps[tid] # <<>> /\ todo # <<>>
  BY <1>1, StepsTyped DEF Resumed
<1>3. steps \in [Tids -> Seq(StepRec)] /\ n \in 1..Len(steps[tid]) /\ steps[tid] \in Seq(StepRec)
  BY <1>2, StepsTyped
<1>4. steps[tid][n] \in StepRec
  BY <1>2, StepsTyped
<1>5. todo \in Seq(Frames)
  BY <1>4 DEF StepRec
<1> HIDE DEF n
<1>6. steps' = [steps EXCEPT ![tid] = q]
  BY <1>1, <1>3, <1>4, Zenon DEF StepRec
<1>7. f \in Frames /\ r \in Seq(Frames)
  BY <1>2, <1>5
<1>8. py.code[f] \in Code
  BY <1>7, Unpacked, PyFields
<1> HIDE DEF f, r, todo
<1>9. /\ KernelOK'
      /\ py' \in PyType
      /\ py'.stack = [py.stack EXCEPT ![tid] = Append(@, f)]
      /\ life' \in [Frames -> FrameLife]
      /\ again' \in [Tids -> 0..MaxAgain]
      /\ again' = [again EXCEPT ![tid] = MaxAgain]
  BY <1>1, <1>7, <1>8, EnterOK
<1>10. v \in StepRec /\ v.base = steps[tid][n].base
  BY <1>4, <1>7 DEF StepRec
<1> HIDE DEF v
<1>11. /\ q \in Seq(StepRec)
       /\ Len(q) = Len(steps[tid])
       /\ \A i \in 1..Len(steps[tid]) : q[i].base = steps[tid][i].base
  BY <1>3, <1>10
<1> HIDE DEF q
<1>12. /\ steps' \in [Tids -> Seq(StepRec)]
       /\ \A t \in Tids : /\ Len(steps'[t]) = Len(steps[t])
                         /\ \A i \in 1..Len(steps[t]) : steps'[t][i].base = steps[t][i].base
  BY <1>3, <1>6, <1>11
<1>13. ProgramOK'
  BY <1>1, <1>9, <1>12, Unpacked DEF ProgramOK
<1>14. NestOK'
  BY <1>7, <1>9, <1>12, PushNests, Zenon
<1> QED
  BY <1>9, <1>13, <1>14 DEF IInv

(* A second probe on the same entry runs the handler again.                 *)
LEMMA EntryProbeAgainOK ==
  ASSUME IInv, NEW tid \in Tids, EntryProbeAgain(tid)
  PROVE  IInv'
<1> DEFINE f == Last(py.stack[tid])
<1>1. /\ again[tid] > 0
      /\ py' = py
      /\ m.CTX_COUNTER + Allocates(f) <= MaxCtx
      /\ m' = frame_entry(m, py, tid, f, TgidOf[tid])
      /\ again' = [again EXCEPT ![tid] = @ - 1]
      /\ d' = d /\ penv' = penv
  BY DEF EntryProbeAgain
<1>2. f \in Frames
  BY <1>1, StackTyped DEF IInv, NestOK
<1> HIDE DEF f
<1>3. EntryFits(m, py, f)
  <2>1. m.CTX_COUNTER \in Nat
    BY Unpacked, MapsFields
  <2>2. EntryFits(m, py', f)
    BY <1>1, <1>2, <2>1, AllocatesFits
  <2> QED
    BY <1>1, <2>2
<1>4. Grows(m, m', 2)
  BY <1>1, <1>2, <1>3, Unpacked, EntryProbe
<1>5. KernelOK'
  BY <1>1, <1>4, Unpacked, HandlerStep
<1>6. again \in [Tids -> 0..MaxAgain]
  BY Unpacked
<1>7. again' \in [Tids -> 0..MaxAgain] /\ \A t \in Tids : again'[t] > 0 => again[t] > 0
  BY <1>1, <1>6, AgentAssumption
<1>8. ProgramOK'
  BY <1>1, <1>7 DEF IInv, ProgramOK, penv
<1>9. NestOK'
  BY <1>1, <1>7 DEF IInv, NestOK, penv
<1> QED
  BY <1>5, <1>8, <1>9 DEF IInv

(* A coroutine function is called.                                          *)
LEMMA CreateOK ==
  ASSUME IInv, NEW tid \in Tids, NEW f \in Frames, NEW code \in Code, Create(tid, f, code)
  PROVE  IInv'
<1>1. /\ py' = [py EXCEPT !.code[f] = code]
      /\ m' = handle_coroutine_creation(m, py', f)
      /\ life' = [life EXCEPT ![f] = "created"]
      /\ again' = [again EXCEPT ![tid] = 0]
      /\ d' = d /\ steps' = steps /\ tlife' = tlife /\ chain' = chain /\ wlife' = wlife
      /\ alive' = alive
  BY DEF Create
<1>2. py' \in PyType /\ py'.stack = py.stack
  BY <1>1, Unpacked, Zenon DEF PyType
<1>3. KernelOK'
  BY <1>1, <1>2, Unpacked, CoroutineCreation, HandlerStep, Zenon
<1>4. life' \in [Frames -> FrameLife]
  BY <1>1, Unpacked DEF FrameLife
<1> QED
  BY <1>1, <1>2, <1>3, <1>4, Unpacked, QuietStep, Zenon

(* asyncio.                                                                 *)

(* A task is made for a coroutine.                                          *)
LEMMA TaskInitStep ==
  ASSUME IInv, NEW tid \in Tids, NEW k \in Tasks, NEW f \in Frames, TaskInit(tid, k, f)
  PROVE  IInv'
<1>1. /\ m' = handle_task_init(m, tid, k)
      /\ tlife' = [tlife EXCEPT ![k] = "fresh"]
      /\ chain' = [chain EXCEPT ![k] = <<f>>]
      /\ life' = [life EXCEPT ![f] = "suspended"]
      /\ again' = [again EXCEPT ![tid] = 0]
      /\ py' = py /\ d' = d /\ steps' = steps /\ wlife' = wlife /\ alive' = alive
  BY DEF TaskInit
<1>2. KernelOK'
  BY <1>1, Unpacked, TaskInitOK, HandlerStep
<1>3. life' \in [Frames -> FrameLife] /\ tlife' \in [Tasks -> TaskLife]
  BY <1>1, Unpacked DEF FrameLife, TaskLife
<1>4. chain' \in [Tasks -> Seq(Frames)]
  BY <1>1, Unpacked
<1> QED
  BY <1>1, <1>2, <1>3, <1>4, Unpacked, QuietStep, Zenon

(* A new step of a task starts at the depth the stack has now.              *)
LEMMA TaskStepOK ==
  ASSUME IInv, NEW tid \in Tids, NEW k \in Tasks, TaskStep(tid, k)
  PROVE  IInv'
<1> DEFINE e == [task |-> k, base |-> Len(py.stack[tid]), todo |-> chain[k]]
           s == Append(steps[tid], e)
<1>1. /\ m' = handle_task_step_entry(m, tid, k)
      /\ steps' = [steps EXCEPT ![tid] = Append(@, e)]
      /\ tlife' = [tlife EXCEPT ![k] = "running"]
      /\ chain' = [chain EXCEPT ![k] = <<>>]
      /\ again' = [again EXCEPT ![tid] = 0]
      /\ py' = py /\ d' = d /\ life' = life /\ wlife' = wlife /\ alive' = alive
  BY DEF TaskStep
<1>2. KernelOK'
  BY <1>1, Unpacked, TaskStepEntryOK, HandlerStep
<1>3. /\ steps \in [Tids -> Seq(StepRec)]
      /\ steps[tid] \in Seq(StepRec)
      /\ StepsNest(steps[tid], py.stack[tid])
      /\ py.stack[tid] \in Seq(Frames)
  BY StepsTyped, StackTyped
<1>4. e \in StepRec /\ e.base = Len(py.stack[tid])
  <2>1. chain[k] \in Seq(Frames) /\ Len(py.stack[tid]) \in Nat
    BY <1>3, Unpacked
  <2> QED
    BY <2>1, Zenon DEF StepRec
<1>5. steps' = [steps EXCEPT ![tid] = s]
  BY <1>1, <1>3
<1> HIDE DEF e
<1>6. s \in Seq(StepRec) /\ StepsNest(s, py.stack[tid])
  BY <1>3, <1>4, AppendNests, Zenon
<1> HIDE DEF s
<1>7. tlife' \in [Tasks -> TaskLife] /\ chain' \in [Tasks -> Seq(Frames)]
      /\ again' \in [Tids -> 0..MaxAgain] /\ steps' \in [Tids -> Seq(StepRec)]
  BY <1>1, <1>3, <1>5, <1>6, Unpacked, AgentAssumption DEF TaskLife
<1>8. ProgramOK'
  BY <1>1, <1>7, Unpacked DEF ProgramOK
<1>9. NestOK'
  <2> SUFFICES ASSUME NEW t \in Tids
               PROVE  StepsNest(steps'[t], py.stack[t]) /\ (again'[t] > 0 => py.stack[t] # <<>>)
    BY <1>1 DEF NestOK
  <2>1. StepsNest(steps[t], py.stack[t]) /\ (again[t] > 0 => py.stack[t] # <<>>)
    BY DEF IInv, NestOK
  <2>2. StepsNest(steps'[t], py.stack[t])
    BY <1>3, <1>5, <1>6, <2>1
  <2>3. again'[t] > 0 => again[t] > 0
    BY <1>1, Unpacked
  <2> QED
    BY <2>1, <2>2, <2>3
<1> QED
  BY <1>2, <1>8, <1>9 DEF IInv

(* The step of a task ends: its frames leave the stack, whose height goes   *)
(* back to the base of the step.                                            *)
LEMMA StepEnds ==
  ASSUME IInv, NEW tid \in Tids, steps[tid] # <<>>, NEW stack \in Seq(Frames),
         Base(tid) <= Len(stack),
         py' \in PyType, py'.stack = [py.stack EXCEPT ![tid] = stack],
         steps' = [steps EXCEPT ![tid] = Front(@)],
         again' = [again EXCEPT ![tid] = 0]
  PROVE  steps' \in [Tids -> Seq(StepRec)] /\ again' \in [Tids -> 0..MaxAgain] /\ NestOK'
<1>1. /\ steps \in [Tids -> Seq(StepRec)]
      /\ steps[tid] \in Seq(StepRec)
      /\ StepsNest(steps[tid], py.stack[tid])
      /\ py.stack \in [Tids -> Seq(Frames)]
      /\ py.stack[tid] \in Seq(Frames)
  BY StepsTyped, StackTyped
<1>2. Base(tid) = steps[tid][Len(steps[tid])].base
  BY StepsTyped DEF Base
<1>3. StepsNest(steps[tid], stack)
  BY <1>1, <1>2, ShrinkNests
<1>4. Front(steps[tid]) \in Seq(StepRec) /\ StepsNest(Front(steps[tid]), stack)
  BY <1>1, <1>3, PopNests
<1>5. /\ steps' \in [Tids -> Seq(StepRec)] /\ again' \in [Tids -> 0..MaxAgain]
      /\ steps'[tid] = Front(steps[tid]) /\ py'.stack[tid] = stack /\ again'[tid] = 0
  BY <1>1, <1>4, Unpacked, AgentAssumption
<1>6. ASSUME NEW t \in Tids
      PROVE  StepsNest(steps'[t], py'.stack[t]) /\ (again'[t] > 0 => py'.stack[t] # <<>>)
  <2>1. CASE t = tid
    BY <1>4, <1>5, <2>1
  <2>2. CASE t # tid
    <3>1. steps'[t] = steps[t] /\ py'.stack[t] = py.stack[t] /\ again'[t] = again[t]
      BY <1>1, <2>2, Unpacked
    <3> QED
      BY <3>1 DEF IInv, NestOK
  <2> QED
    BY <2>1, <2>2
<1>7. NestOK'
  BY <1>6 DEF NestOK
<1> QED
  BY <1>5, <1>7

(* A task step ends in a suspension.                                        *)
LEMMA TaskSuspendOK ==
  ASSUME IInv, NEW tid \in Tids, TaskSuspend(tid)
  PROVE  IInv'
<1> DEFINE k == Last(steps[tid]).task
           frames == SubSeq(py.stack[tid], Base(tid) + 1, Len(py.stack[tid]))
           stack == SubSeq(py.stack[tid], 1, Base(tid))
<1>1. /\ steps[tid] # <<>>
      /\ m' = handle_task_step_return(m, tid, DoneTasks)
      /\ py' = [py EXCEPT !.stack[tid] = SubSeq(@, 1, Base(tid))]
      /\ life' = [f \in Frames |-> IF Contains(frames, f) THEN "suspended" ELSE life[f]]
      /\ chain' = [chain EXCEPT ![k] = frames]
      /\ tlife' = [tlife EXCEPT ![k] = "waiting"]
      /\ steps' = [steps EXCEPT ![tid] = Front(@)]
      /\ again' = [again EXCEPT ![tid] = 0]
      /\ d' = d /\ wlife' = wlife /\ alive' = alive
  BY DEF TaskSuspend
<1>2. py.stack[tid] \in Seq(Frames) /\ py.stack \in [Tids -> Seq(Frames)]
  BY StackTyped
<1>3. Base(tid) \in Nat /\ Base(tid) <= Len(py.stack[tid]) /\ Len(py.stack[tid]) \in Nat
  BY <1>2, BaseTyped
<1>4. stack \in Seq(Frames) /\ Base(tid) <= Len(stack)
  BY <1>2, <1>3
<1>5. frames \in Seq(Frames)
  BY <1>2, <1>3
<1>6. k \in Tasks
  BY <1>1, StepsTyped DEF StepRec
<1>7. py' = [py EXCEPT !.stack[tid] = stack]
  BY <1>1, <1>2, Unpacked, Zenon DEF PyType
<1>8. KernelOK'
  <2>1. DoneTasks \in SUBSET Tasks
    BY DEF DoneTasks
  <2> QED
    BY <1>1, <2>1, Unpacked, TaskStepReturnOK, HandlerStep, Zenon
<1> HIDE DEF k, frames, stack
<1>9. py' \in PyType /\ py'.stack = [py.stack EXCEPT ![tid] = stack]
  BY <1>4, <1>7, Unpacked, Zenon DEF PyType
<1>10. steps' \in [Tids -> Seq(StepRec)] /\ again' \in [Tids -> 0..MaxAgain] /\ NestOK'
  BY <1>1, <1>4, <1>9, StepEnds, Zenon
<1>11. life' \in [Frames -> FrameLife]
  BY <1>1, Unpacked DEF FrameLife
<1>12. tlife' \in [Tasks -> TaskLife] /\ chain' \in [Tasks -> Seq(Frames)]
  BY <1>1, <1>5, Unpacked, Zenon DEF TaskLife
<1>13. ProgramOK'
  BY <1>1, <1>9, <1>10, <1>11, <1>12, Unpacked DEF ProgramOK
<1> QED
  BY <1>8, <1>10, <1>13 DEF IInv

(* A task step ends with the task done.                                     *)
LEMMA TaskDoneOK ==
  ASSUME IInv, NEW tid \in Tids, TaskDone(tid)
  PROVE  IInv'
<1> DEFINE k == Last(steps[tid]).task
<1>1. /\ steps[tid] # <<>>
      /\ tlife' = [tlife EXCEPT ![k] = "done"]
      /\ m' = handle_task_step_return(m, tid, DoneTasks \cup {k})
      /\ steps' = [steps EXCEPT ![tid] = Front(@)]
      /\ again' = [again EXCEPT ![tid] = 0]
      /\ py' = py /\ d' = d /\ life' = life /\ chain' = chain /\ wlife' = wlife /\ alive' = alive
  BY DEF TaskDone, DoneReady
<1>2. py.stack[tid] \in Seq(Frames) /\ py.stack \in [Tids -> Seq(Frames)]
  BY StackTyped
<1>3. k \in Tasks
  BY <1>1, StepsTyped DEF StepRec
<1>4. KernelOK'
  <2>1. DoneTasks \cup {k} \in SUBSET Tasks
    BY <1>3 DEF DoneTasks
  <2> QED
    BY <1>1, <2>1, Unpacked, TaskStepReturnOK, HandlerStep
<1>5. py' \in PyType /\ py'.stack = [py.stack EXCEPT ![tid] = py.stack[tid]]
  BY <1>1, <1>2, Unpacked, Zenon
<1>6. Base(tid) <= Len(py.stack[tid])
  BY <1>2, BaseTyped
<1>7. steps' \in [Tids -> Seq(StepRec)] /\ again' \in [Tids -> 0..MaxAgain] /\ NestOK'
  BY <1>1, <1>2, <1>5, <1>6, StepEnds, Zenon
<1>8. tlife' \in [Tasks -> TaskLife]
  BY <1>1, Unpacked, Zenon DEF TaskLife
<1>9. ProgramOK'
  BY <1>1, <1>7, <1>8, Unpacked DEF ProgramOK
<1> QED
  BY <1>4, <1>7, <1>9 DEF IInv

-----------------------------------------------------------------------------
(* Deallocation, threads, processes and guarded system calls.               *)

(* A deallocation keeps the maps consistent.                                *)
LEMMA DeallocKernel ==
  ASSUME IInv, NEW tid \in Tids, NEW p \in Tasks \cup Frames \cup Objs \cup Works,
         Dealloc(tid, p), d' = d
  PROVE  KernelOK' /\ again' = [again EXCEPT ![tid] = 0]
BY Unpacked, PyobjDealloc, HandlerStep DEF Dealloc

(* The memory of a freed frame is well typed.                               *)
LEMMA FreedTyped ==
  ASSUME NEW f \in Frames, py \in PyType
  PROVE  Freed(f) \in PyType /\ Freed(f).stack = py.stack
<1>1. NoCode \in Code /\ 1 \in ParentPtrs
  BY DEF NoCode, Code, ParentPtrs
<1> QED
  BY <1>1, Zenon DEF Freed, PyType

(* The deallocations of coroutines, tasks, tool objects and work objects.   *)
LEMMA DeallocsOK ==
  ASSUME IInv, NEW tid \in Tids
  PROVE  /\ \A f \in Frames : DeallocFrame(tid, f) => IInv'
         /\ \A k \in Tasks : DeallocTask(tid, k) => IInv'
         /\ \A o \in Objs : DeallocObj(tid, o) => IInv'
         /\ \A w \in Works : DeallocWork(tid, w) => IInv'
<1>1. ASSUME NEW f \in Frames, DeallocFrame(tid, f)
      PROVE  IInv'
  <2>1. /\ Dealloc(tid, f)
        /\ py' = Freed(f)
        /\ life' = [life EXCEPT ![f] = "free"]
        /\ d' = d /\ steps' = steps /\ tlife' = tlife /\ chain' = chain /\ wlife' = wlife
        /\ alive' = alive
    BY <1>1 DEF DeallocFrame
  <2>2. life' \in [Frames -> FrameLife]
    BY <2>1, Unpacked DEF FrameLife
  <2> QED
    BY <2>1, <2>2, DeallocKernel, FreedTyped, Unpacked, QuietStep, Zenon
<1>2. ASSUME NEW k \in Tasks, DeallocTask(tid, k)
      PROVE  IInv'
  <2>1. /\ Dealloc(tid, k)
        /\ tlife' = [tlife EXCEPT ![k] = "none"]
        /\ py' = py /\ d' = d /\ steps' = steps /\ life' = life /\ chain' = chain
        /\ wlife' = wlife /\ alive' = alive
    BY <1>2 DEF DeallocTask
  <2>2. tlife' \in [Tasks -> TaskLife]
    BY <2>1, Unpacked DEF TaskLife
  <2> QED
    BY <2>1, <2>2, DeallocKernel, Unpacked, QuietStep, Zenon
<1>3. ASSUME NEW o \in Objs, DeallocObj(tid, o)
      PROVE  IInv'
  <2>1. /\ Dealloc(tid, o)
        /\ \E y \in Types, n \in ToolIds : py' = [py EXCEPT !.type[o] = y, !.tool[o] = n]
        /\ d' = d /\ steps' = steps /\ life' = life /\ tlife' = tlife /\ chain' = chain
        /\ wlife' = wlife /\ alive' = alive
    BY <1>3, Zenon DEF DeallocObj, penv
  <2>2. PICK y \in Types, n \in ToolIds : py' = [py EXCEPT !.type[o] = y, !.tool[o] = n]
    BY <2>1, Zenon
  <2>3. py' \in PyType /\ py'.stack = py.stack
    BY <2>2, Unpacked, Zenon DEF PyType
  <2> QED
    BY <2>1, <2>3, DeallocKernel, Unpacked, QuietStep, Zenon
<1>4. ASSUME NEW w \in Works, DeallocWork(tid, w)
      PROVE  IInv'
  <2>1. /\ Dealloc(tid, w)
        /\ wlife' = [wlife EXCEPT ![w] = "none"]
        /\ py' = py /\ d' = d /\ steps' = steps /\ life' = life /\ tlife' = tlife
        /\ chain' = chain /\ alive' = alive
    BY <1>4 DEF DeallocWork
  <2>2. wlife' \in [Works -> WorkLife]
    BY <2>1, Unpacked DEF WorkLife
  <2> QED
    BY <2>1, <2>2, DeallocKernel, Unpacked, QuietStep, Zenon
<1> QED
  BY <1>1, <1>2, <1>3, <1>4

(* A pool thread takes and drops a work item.                               *)
LEMMA PoolsOK ==
  ASSUME IInv, NEW tid \in Tids
  PROVE  /\ \A w \in Works : PoolTake(tid, w) => IInv'
         /\ PoolDrop(tid) => IInv'
<1> DEFINE f == Last(py.stack[tid])
<1>1. py.stack[tid] # <<>> => f \in Frames
  BY StackTyped
<1> HIDE DEF f
<1>2. ASSUME NEW w \in Works, PoolTake(tid, w)
      PROVE  IInv'
  <2>1. /\ py.stack[tid] # <<>>
        /\ py' = [py EXCEPT !.local[f] = w]
        /\ again' = [again EXCEPT ![tid] = 0]
        /\ m' = m /\ d' = d /\ steps' = steps /\ life' = life /\ tlife' = tlife
        /\ chain' = chain /\ wlife' = wlife /\ alive' = alive
    BY <1>2 DEF PoolTake, penv, f
  <2>2. py' \in PyType /\ py'.stack = py.stack
    BY <1>1, <2>1, Unpacked, Zenon DEF PyType
  <2>3. KernelOK'
    BY <2>1, Unpacked DEF KernelOK, Event
  <2> QED
    BY <2>1, <2>2, <2>3, Unpacked, QuietStep, Zenon
<1>3. ASSUME PoolDrop(tid)
      PROVE  IInv'
  <2>1. /\ py.stack[tid] # <<>>
        /\ \E w \in Works : Dealloc(tid, w) /\ wlife' = [wlife EXCEPT ![w] = "none"]
        /\ py' = [py EXCEPT !.local[f] = NULL]
        /\ d' = d /\ steps' = steps /\ life' = life /\ tlife' = tlife
        /\ chain' = chain /\ alive' = alive
    BY <1>3, Zenon DEF PoolDrop, f
  <2>2. PICK w \in Works : Dealloc(tid, w) /\ wlife' = [wlife EXCEPT ![w] = "none"]
    BY <2>1, Zenon
  <2>3. py' \in PyType /\ py'.stack = py.stack
    BY <1>1, <2>1, Unpacked, Zenon DEF PyType
  <2>4. wlife' \in [Works -> WorkLife]
    BY <2>2, Unpacked DEF WorkLife
  <2> QED
    BY <2>1, <2>2, <2>3, <2>4, DeallocKernel, Unpacked, QuietStep, Zenon
<1> QED
  BY <1>2, <1>3

(* Forks, exits and guarded system calls.                                   *)
LEMMA ProcessesOK ==
  ASSUME IInv, NEW tid \in Tids
  PROVE  /\ \A child \in Tids : Fork(tid, child) => IInv'
         /\ Exit(tid) => IInv'
         /\ Guard(tid) \/ Monitor(tid) => IInv'
<1>0. ASSUME Steady(m, m'), d' = d
      PROVE  KernelOK'
  BY <1>0, Unpacked, SteadyGrows, HandlerStep
<1>1. ASSUME NEW child \in Tids, Fork(tid, child)
      PROVE  IInv'
  <2>1. /\ \/ wlife' = wlife
           \/ \E w \in Works : wlife' = [wlife EXCEPT ![w] = child]
        /\ m' = handle_sched_fork(m, tid, TgidOf[tid], child, TgidOf[child], ChildScopeAll)
        /\ alive' = alive \cup {child}
        /\ again' = [again EXCEPT ![tid] = 0]
        /\ py' = py /\ d' = d /\ steps' = steps /\ life' = life /\ tlife' = tlife
        /\ chain' = chain
    BY <1>1 DEF Fork
  <2>2. KernelOK'
    BY <1>0, <2>1, Unpacked, SchedFork, AgentAssumption
  <2>3. wlife' \in [Works -> WorkLife] /\ alive' \in SUBSET Tids
    BY <2>1, Unpacked, Zenon DEF WorkLife
  <2> QED
    BY <2>1, <2>2, <2>3, Unpacked, QuietStep, Zenon
<1>2. ASSUME Exit(tid)
      PROVE  IInv'
  <2>1. /\ m' = handle_sched_exit(m, tid, TgidOf[tid])
        /\ alive' = alive \ {tid}
        /\ again' = [again EXCEPT ![tid] = 0]
        /\ py' = py /\ d' = d /\ steps' = steps /\ life' = life /\ tlife' = tlife
        /\ chain' = chain /\ wlife' = wlife
    BY <1>2 DEF Exit
  <2>2. KernelOK'
    BY <1>0, <2>1, Unpacked, SchedExit
  <2>3. alive' \in SUBSET Tids
    BY <2>1, Unpacked
  <2> QED
    BY <2>1, <2>2, <2>3, Unpacked, QuietStep, Zenon
<1>3. ASSUME Guard(tid) \/ Monitor(tid)
      PROVE  IInv'
  <2>1. /\ m' = guard_hook(m, py, tid, TgidOf[tid]) \/ m' = fentry_hook(m, py, tid)
        /\ again' = [again EXCEPT ![tid] = 0]
        /\ py' = py /\ d' = d /\ steps' = steps /\ life' = life /\ tlife' = tlife
        /\ chain' = chain /\ wlife' = wlife /\ alive' = alive
    BY <1>3 DEF Guard, Monitor, penv
  <2>2. KernelOK'
    BY <1>0, <2>1, Unpacked, GuardHook, FentryHook
  <2> QED
    BY <2>1, <2>2, Unpacked, QuietStep, Zenon
<1> QED
  BY <1>1, <1>2, <1>3

(* A frame returns; inside a task step it is above the base of the step.    *)
LEMMA ReturnOK ==
  ASSUME IInv, NEW tid \in Tids, Return(tid)
  PROVE  IInv'
<1> DEFINE f == Last(py.stack[tid])
           code == py.code[f]
           exited == frame_exit(m, tid, py.prev[f])
           freed == code.async /\ ~KeepCoroutines /\ Len(py.stack[tid]) > Base(tid) + 1
           keep == code.async /\ ~freed
           base == IF keep THEN py ELSE Freed(f)
           stack == Front(py.stack[tid])
<1>1. /\ py.stack[tid] # <<>>
      /\ steps[tid] # <<>> => ~AtBase(tid)
      /\ m' = IF freed THEN handle_pyobj_dealloc(exited, tid, f, TgidOf[tid]) ELSE exited
      /\ py' = [base EXCEPT !.stack[tid] = Front(@)]
      /\ life' = [life EXCEPT ![f] = IF keep THEN "finished" ELSE "free"]
      /\ \/ wlife' = [wlife EXCEPT ![code.self] = "ran"]
         \/ wlife' = wlife
      /\ again' = [again EXCEPT ![tid] = 0]
      /\ d' = d /\ steps' = steps /\ tlife' = tlife /\ chain' = chain /\ alive' = alive
  BY Zenon DEF Return, ReturnReady, InCode
<1>2. /\ py.stack \in [Tids -> Seq(Frames)]
      /\ py.stack[tid] \in Seq(Frames)
      /\ f \in Frames
      /\ stack \in Seq(Frames)
      /\ Len(stack) = Len(py.stack[tid]) - 1
  BY <1>1, StackTyped, FrontType, Zenon
<1>3. py.prev[f] \in ParentPtrs
  BY <1>2, Unpacked, Zenon DEF PyType
<1>4. base \in PyType /\ base.stack = py.stack
  BY <1>2, Unpacked, FreedTyped
<1>5. life' \in [Frames -> FrameLife]
  BY <1>1, <1>2, Unpacked, Zenon DEF FrameLife
<1>6. wlife' \in [Works -> WorkLife]
  BY <1>1, Unpacked, Zenon DEF WorkLife
<1>7. KernelOK'
  <2>1. Grows(m, exited, 0) /\ MapsOK(exited)
    BY <1>3, Unpacked, ExitProbe DEF Grows
  <2> HIDE DEF exited, freed, f
  <2>2. Grows(exited, handle_pyobj_dealloc(exited, tid, f, TgidOf[tid]), 0)
    BY <1>2, <2>1, PyobjDealloc
  <2>3. Grows(m, m', 0)
    BY <1>1, <2>1, <2>2, Unpacked, GrowsThenKeeps, Zenon
  <2> QED
    BY <1>1, <2>3, Unpacked, HandlerStep, Zenon
<1>8. py' = [base EXCEPT !.stack[tid] = stack]
  BY <1>1, <1>4, Zenon DEF PyType
<1>9. Base(tid) <= Len(stack) \/ steps[tid] = <<>>
  <2>1. Base(tid) \in 0..Len(py.stack[tid]) /\ Len(py.stack[tid]) \in Nat
    BY <1>2, BaseTyped
  <2>2. steps[tid] # <<>> => Len(py.stack[tid]) # Base(tid)
    BY <1>1, Zenon DEF AtBase
  <2>3. Len(stack) = Len(py.stack[tid]) - 1
    BY <1>2
  <2> HIDE DEF stack
  <2> QED
    BY <2>1, <2>2, <2>3
<1> HIDE DEF base, stack, f
<1>10. py' \in PyType /\ py'.stack = [py.stack EXCEPT ![tid] = stack]
  BY <1>2, <1>4, <1>8, Zenon DEF PyType
<1>11. StepsNest(steps[tid], stack)
  <2>1. /\ steps[tid] \in Seq(StepRec)
        /\ StepsNest(steps[tid], py.stack[tid])
        /\ steps[tid] # <<>> => Base(tid) = steps[tid][Len(steps[tid])].base
    BY StepsTyped DEF Base
  <2> QED
    BY <1>2, <1>9, <2>1, ShrinkNests, Zenon
<1>12. again' \in [Tids -> 0..MaxAgain] /\ again'[tid] = 0
  BY <1>1, Unpacked, AgentAssumption
<1>13. NestOK'
  <2> SUFFICES ASSUME NEW t \in Tids
               PROVE  StepsNest(steps'[t], py'.stack[t]) /\ (again'[t] > 0 => py'.stack[t] # <<>>)
    BY DEF NestOK
  <2>1. CASE t = tid
    BY <1>1, <1>2, <1>10, <1>11, <1>12, <2>1
  <2>2. CASE t # tid
    <3>1. steps'[t] = steps[t] /\ py'.stack[t] = py.stack[t] /\ again'[t] = again[t]
      BY <1>1, <1>2, <1>10, <2>2, Unpacked
    <3> QED
      BY <3>1 DEF IInv, NestOK
  <2> QED
    BY <2>1, <2>2
<1>14. ProgramOK'
  BY <1>1, <1>5, <1>6, <1>10, <1>12, Unpacked DEF ProgramOK
<1> QED
  BY <1>7, <1>13, <1>14 DEF IInv

-----------------------------------------------------------------------------
(* The invariant holds in every state.                                      *)

(* Every step of the agent, of its threads and of the daemon keeps the      *)
(* invariant.                                                               *)
LEMMA NextOK ==
  ASSUME IInv, [Next]_vars
  PROVE  IInv'
<1>1. ASSUME NEW tid \in Tids, NEW f \in Frames, NEW code \in CodesAt[f],
             Call(tid, f, code) \/ Create(tid, f, code)
      PROVE  IInv'
  <2>1. code \in Code
    BY AgentAssumption
  <2> QED
    BY <1>1, <2>1, CallOK, CreateOK
<1>2. ASSUME NEW tid \in Tids,
             \/ EntryProbeAgain(tid) \/ Return(tid)
             \/ ResumeFrame(tid) \/ TaskSuspend(tid) \/ TaskDone(tid)
             \/ \E f \in Frames : Await(tid, f) \/ DeallocFrame(tid, f)
             \/ \E k \in Tasks, f \in Frames : TaskInit(tid, k, f)
             \/ \E k \in Tasks : TaskStep(tid, k) \/ DeallocTask(tid, k)
      PROVE  IInv'
  BY <1>2, EntryProbeAgainOK, ReturnOK, ResumeFrameOK, TaskSuspendOK, TaskDoneOK, AwaitOK,
     DeallocsOK, TaskInitStep, TaskStepOK
<1>3. ASSUME NEW tid \in Tids,
             \/ \E o \in Objs : DeallocObj(tid, o)
             \/ \E w \in Works : DeallocWork(tid, w) \/ PoolTake(tid, w)
             \/ PoolDrop(tid)
             \/ \E child \in Tids : Fork(tid, child)
             \/ Exit(tid) \/ Guard(tid) \/ Monitor(tid)
      PROVE  IInv'
  BY <1>3, DeallocsOK, PoolsOK, ProcessesOK
<1>4. AgentStep => IInv'
  BY <1>1, <1>2, <1>3, Zenon DEF AgentStep, ThreadStep
<1>5. DaemonStep => IInv'
  BY DaemonStepOK
<1>6. UNCHANGED vars => IInv'
  BY Zenon DEF vars, penv, IInv, KernelOK, ProgramOK, NestOK, Event
<1> QED
  BY <1>4, <1>5, <1>6 DEF Next

(* No handler of the tool-context tracker, in any interleaving of threads,  *)
(* tasks, deallocations and the daemon, leaves a map entry out of its type  *)
(* or a stack beyond its bound.                                             *)
THEOREM TypeCorrect == Spec => []TypeOK
<1>1. Init => IInv
  BY InitOK
<1>2. IInv /\ [Next]_vars => IInv'
  BY NextOK
<1>3. IInv => TypeOK
  BY InvImplies
<1> QED
  BY <1>1, <1>2, <1>3, PTL DEF Spec

(* TASK_CTX, which the task probes read, and TASK_CTX_STACK, which the      *)
(* ownership functions keep, never disagree: after every push, removal,     *)
(* clear and hand-over the former is the top of the latter.                 *)
THEOREM TaskCtxAlwaysTop == Spec => []TaskCtxIsTop
<1>1. Init => IInv
  BY InitOK
<1>2. IInv /\ [Next]_vars => IInv'
  BY NextOK
<1>3. IInv => TaskCtxIsTop
  BY InvImplies
<1> QED
  BY <1>1, <1>2, <1>3, PTL DEF Spec
=============================================================================
