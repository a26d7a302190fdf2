------------------------------- MODULE Agent -------------------------------
(***************************************************************************)
(* A traced agent: a CPython process whose threads call and return, create *)
(* and drive coroutines, run asyncio tasks, hand work to other threads and *)
(* fork, and the probe handlers that run at each of those points.  The     *)
(* variable m holds the kernel maps and d the daemon's resolver; every     *)
(* other variable is the state of the traced program (CPython and asyncio, *)
(* external to the repository), modelled from what the probes assume.      *)
(***************************************************************************)
EXTENDS Lifecycle, Resolver

CONSTANTS
  CodesAt,    \* the codes that may run in a frame at each address
  MayCall,    \* the call graph: pairs of kinds of code, caller and callee
  KeepCoroutines, \* whether something refers to a coroutine that was awaited
  Freeable,   \* the tool objects that may be freed
  MayEnd,     \* the threads that may end
  Killable,   \* whether the agent may be killed in the midst of what it does
  Collects,   \* the threads that free coroutines and tasks they do not run
  Warm,       \* the objects whose tool is in the cache from the start
  AgentPid,   \* the traced process, named by its main thread
  TgidOf,     \* the process of each thread
  ChildScopeAll,  \* child_scope = CHILD_SCOPE_ALL
  MaxStack,   \* bound on the call depth of a thread
  MaxStash,   \* bound on FRAME_ENTRY_STASH, which the code leaves unbounded
  MaxNest,    \* bound on eager task starts inside a task step
  MaxAgain    \* extra entry probes that fire for one entry of a frame

ASSUME AgentAssumption ==
  /\ CodesAt \in [Frames -> SUBSET Code]
  /\ AgentPid \in Tids
  /\ TgidOf \in [Tids -> Tids]
  /\ Warm \subseteq Objs
  /\ ChildScopeAll \in BOOLEAN /\ Killable \in BOOLEAN
  /\ MaxAgain \in Nat

VARIABLES
  steps,   \* per thread, the task steps in progress: task, stack base, and
           \* the suspended frames still to be re-entered
  life,    \* of each frame
  tlife,   \* of each task
  chain,   \* per waiting task, its suspended frames, outermost first
  wlife,   \* of each work item or Thread object
  again,   \* per thread, the extra entry probes that may still fire
  alive    \* threads that exist

penv == <<steps, life, tlife, chain, wlife, alive>>
vars == <<m, py, d, again, penv>>

NoCode == [kind |-> PLAIN, async |-> FALSE, self |-> NULL]

Init ==
  /\ py \in [code : {[f \in Frames |-> NoCode]}, prev : {[f \in Frames |-> 1]},
             type : [Objs -> Types],
             tool : [Objs -> ToolIds], local : {[f \in Frames |-> NULL]}, stack : {[t \in Tids |-> <<>>]}]
  /\ m = EmptyMaps([o \in Objs |-> IF o \in Warm
                                   THEN [tool_id |-> py.tool[o], type_ptr |-> py.type[o]]
                                   ELSE NULL], {AgentPid})
  /\ d = DaemonIdle
  /\ steps = [t \in Tids |-> <<>>]
  /\ life = [f \in Frames |-> "free"]
  /\ tlife = [k \in Tasks |-> "none"]
  /\ chain = [k \in Tasks |-> <<>>]
  /\ wlife = [w \in Works |-> "none"]
  /\ again = [t \in Tids |-> 0]
  /\ alive = {AgentPid}

-----------------------------------------------------------------------------
(* A thread of the traced process, and whether it executes Python code.     *)

Idle(tid) ==
  /\ py.stack[tid] = <<>>
  /\ steps[tid] = <<>>
  /\ \A w \in Works : wlife[w] # tid

(* The agent was killed: its main thread is gone, or one that had not come  *)
(* to its end, and the others run no code any more.                         *)
Killed == AgentPid \notin alive \/ \E t \in Tids \ alive : ~Idle(t)
Python(tid) == tid \in alive /\ TgidOf[tid] = AgentPid /\ ~Killed
Base(tid) == IF steps[tid] = <<>> THEN 0 ELSE Last(steps[tid]).base
AtBase(tid) == Len(py.stack[tid]) = Base(tid)
Resumed(tid) == steps[tid] # <<>> => Last(steps[tid]).todo = <<>>
InCode(tid) == /\ Python(tid)
               /\ Resumed(tid)
               /\ steps[tid] # <<>> => ~AtBase(tid)

(* Whether what runs on tid calls code of a kind, makes a task, runs the    *)
(* event loop, or starts a thread or process.  Outside of every frame the   *)
(* main thread is as PLAIN code, and a new thread may do what FORK may.     *)
TASK == "Task"
LOOP == "run_once"
FORK == "fork"
Caller(tid) ==
  IF ~AtBase(tid) THEN py.code[Last(py.stack[tid])].kind
  ELSE IF tid = AgentPid \/ steps[tid] # <<>> THEN PLAIN ELSE FORK
Calls(tid, kind) == <<Caller(tid), kind>> \in MayCall

(* No probe reads the memory of a free frame; keep one value for it.        *)
Freed(f) == [py EXCEPT !.code[f] = NoCode, !.prev[f] = 1]

(* The previous-frame pointer of a frame pushed now.                        *)
Previous(tid) == IF AtBase(tid) THEN Len(steps[tid]) + 1 ELSE Last(py.stack[tid])

(* How many context ids an entry of f may allocate.                         *)
Allocates(f) ==
  LET c == m.FRAME_CTX[f]
      known == cached_frame_self_tool_id(m, py', f) \in {TOOL_IDLE, tool_of(m, c)}
  IN  CASE py'.code[f].kind = IMPL -> 2
        [] py'.code[f].kind \in {LC, LG} -> IF c # NULL /\ known THEN 0 ELSE 1
        [] OTHER -> 0

(* Frame f starts or continues to run code on tid, and its entry probe      *)
(* fires.                                                                   *)
Enter(tid, f, code) ==
  /\ Len(py.stack[tid]) < MaxStack
  /\ Len(m.FRAME_ENTRY_STASH[tid]) + 2 <= MaxStash
  /\ py' = [py EXCEPT !.code[f] = code, !.prev[f] = Previous(tid),
                      !.stack[tid] = Append(@, f)]
  /\ m.CTX_COUNTER + Allocates(f) <= MaxCtx
  /\ m' = frame_entry(m, py', tid, f, TgidOf[tid])
  /\ life' = [life EXCEPT ![f] = "running"]
  /\ again' = [again EXCEPT ![tid] = MaxAgain]

(* What the kind of a called frame requires of, and does to, its work       *)
(* object: constructed once, run once; wlife[w] = tid is a Thread that was  *)
(* started as tid.                                                          *)
UseWork(tid, code) ==
  LET w == code.self
  IN  CASE code.kind \in {WORKITEM_CTOR, THREAD_CTOR} ->
             wlife[w] = "none" /\ wlife' = [wlife EXCEPT ![w] = code.kind]
        [] code.kind = WORKITEM_RUN ->
             wlife[w] = WORKITEM_CTOR /\ wlife' = [wlife EXCEPT ![w] = "running"]
        [] code.kind = THREAD_RUN ->
             wlife[w] = tid /\ wlife' = [wlife EXCEPT ![w] = "running"]
        [] OTHER -> wlife' = wlife

Call(tid, f, code) ==
  /\ InCode(tid)
  /\ life[f] = "free"
  /\ ~code.async
  /\ Calls(tid, code.kind)
  /\ code.kind = WORKITEM_RUN => ~AtBase(tid) /\ py.local[Last(py.stack[tid])] = code.self
  /\ Enter(tid, f, code)
  /\ UseWork(tid, code)
  /\ UNCHANGED <<d, steps, tlife, chain, alive>>

(* Calling a coroutine function only builds the coroutine.                  *)
Create(tid, f, code) ==
  /\ InCode(tid)
  /\ life[f] = "free"
  /\ code.async
  /\ Calls(tid, code.kind)
  /\ py' = [py EXCEPT !.code[f] = code]
  /\ m' = handle_coroutine_creation(m, py', f)
  /\ life' = [life EXCEPT ![f] = "created"]
  /\ again' = [again EXCEPT ![tid] = 0]
  /\ UNCHANGED <<d, steps, tlife, chain, wlife, alive>>

(* A running coroutine awaits another one for the first time.               *)
Await(tid, f) ==
  /\ InCode(tid)
  /\ steps[tid] # <<>>
  /\ py.code[Last(py.stack[tid])].async
  /\ life[f] = "created"
  /\ Calls(tid, py.code[f].kind)
  /\ Enter(tid, f, py.code[f])
  /\ UNCHANGED <<d, steps, tlife, chain, wlife, alive>>

(* start_frame, function-entry and RESUME probes are attached together, so  *)
(* one entry of a frame runs the handler more than once.                    *)
EntryProbeAgain(tid) ==
  /\ again[tid] > 0
  /\ LET f == Last(py.stack[tid])
     IN  /\ Len(m.FRAME_ENTRY_STASH[tid]) + 2 <= MaxStash
         /\ py' = py
         /\ m.CTX_COUNTER + Allocates(f) <= MaxCtx
         /\ m' = frame_entry(m, py, tid, f, TgidOf[tid])
  /\ again' = [again EXCEPT ![tid] = @ - 1]
  /\ UNCHANGED <<d, penv>>

(* The innermost frame returns or is unwound by an exception.  A coroutine  *)
(* that was awaited and that nothing else refers to is freed on the spot;   *)
(* the task of the outermost one of a step keeps it.                        *)
ReturnReady(tid) ==
  /\ InCode(tid)
  /\ py.stack[tid] # <<>>
  /\ py.local[Last(py.stack[tid])] = NULL

Return(tid) ==
  /\ ReturnReady(tid)
  /\ LET f == Last(py.stack[tid])
         code == py.code[f]
         exited == frame_exit(m, tid, py.prev[f])
         freed == code.async /\ ~KeepCoroutines /\ Len(py.stack[tid]) > Base(tid) + 1
     IN  /\ m' = IF freed THEN handle_pyobj_dealloc(exited, tid, f, TgidOf[tid]) ELSE exited
         /\ py' = [IF code.async /\ ~freed THEN py ELSE Freed(f) EXCEPT
                     !.stack[tid] = Front(@)]
         /\ life' = [life EXCEPT ![f] = IF code.async /\ ~freed THEN "finished" ELSE "free"]
         /\ wlife' = IF code.kind \in {WORKITEM_RUN, THREAD_RUN}
                     THEN [wlife EXCEPT ![code.self] = "ran"] ELSE wlife
  /\ again' = [again EXCEPT ![tid] = 0]
  /\ UNCHANGED <<d, steps, tlife, chain, alive>>

-----------------------------------------------------------------------------
(* asyncio.                                                                 *)

TaskInit(tid, k, f) ==
  /\ InCode(tid)
  /\ Calls(tid, TASK)
  /\ tlife[k] = "none"
  /\ life[f] = "created"
  /\ m' = handle_task_init(m, tid, k)
  /\ tlife' = [tlife EXCEPT ![k] = "fresh"]
  /\ chain' = [chain EXCEPT ![k] = <<f>>]
  /\ life' = [life EXCEPT ![f] = "suspended"]
  /\ again' = [again EXCEPT ![tid] = 0]
  /\ UNCHANGED <<py, d, steps, wlife, alive>>

(* The event loop runs a step of a task, or a new task is started eagerly   *)
(* by running code.                                                         *)
StepReady(tid, k) ==
  \/ steps[tid] = <<>> /\ Python(tid) /\ Calls(tid, LOOP) /\ tlife[k] \in {"fresh", "waiting"}
  \/ InCode(tid) /\ Len(steps[tid]) \in 1..MaxNest /\ tlife[k] = "fresh"

TaskStep(tid, k) ==
  /\ StepReady(tid, k)
  /\ m' = handle_task_step_entry(m, tid, k)
  /\ steps' = [steps EXCEPT ![tid] =
                 Append(@, [task |-> k, base |-> Len(py.stack[tid]), todo |-> chain[k]])]
  /\ tlife' = [tlife EXCEPT ![k] = "running"]
  /\ chain' = [chain EXCEPT ![k] = <<>>]
  /\ again' = [again EXCEPT ![tid] = 0]
  /\ UNCHANGED <<py, d, life, wlife, alive>>

(* Resuming a task re-enters its suspended frames from the outermost in.    *)
ResumeFrame(tid) ==
  /\ ~Resumed(tid)
  /\ LET n == Len(steps[tid])
         f == Head(steps[tid][n].todo)
     IN  /\ Enter(tid, f, py.code[f])
         /\ steps' = [steps EXCEPT ![tid][n].todo = Tail(@)]
  /\ UNCHANGED <<d, tlife, chain, wlife, alive>>

DoneTasks == {k \in Tasks : tlife[k] = "done"}

(* The innermost coroutine of the step yields to the event loop; no exit    *)
(* probe fires for the frames that are suspended.                           *)
TaskSuspend(tid) ==
  /\ steps[tid] # <<>>
  /\ InCode(tid)
  /\ LET k == Last(steps[tid]).task
         frames == SubSeq(py.stack[tid], Base(tid) + 1, Len(py.stack[tid]))
     IN  /\ \A i \in DOMAIN frames : py.code[frames[i]].async
         /\ m' = handle_task_step_return(m, tid, DoneTasks)
         /\ py' = [py EXCEPT !.stack[tid] = SubSeq(@, 1, Base(tid))]
         /\ life' = [f \in Frames |-> IF Contains(frames, f) THEN "suspended" ELSE life[f]]
         /\ chain' = [chain EXCEPT ![k] = frames]
         /\ tlife' = [tlife EXCEPT ![k] = "waiting"]
         /\ steps' = [steps EXCEPT ![tid] = Front(@)]
  /\ again' = [again EXCEPT ![tid] = 0]
  /\ UNCHANGED <<d, wlife, alive>>

(* The outermost coroutine of the step has returned or raised: the task is  *)
(* done (finished or cancelled) when its step returns.                      *)
DoneReady(tid) ==
  /\ Python(tid)
  /\ steps[tid] # <<>>
  /\ Resumed(tid)
  /\ AtBase(tid)

TaskDone(tid) ==
  /\ DoneReady(tid)
  /\ LET k == Last(steps[tid]).task
     IN  /\ tlife' = [tlife EXCEPT ![k] = "done"]
         /\ m' = handle_task_step_return(m, tid, DoneTasks \cup {k})
  /\ steps' = [steps EXCEPT ![tid] = Front(@)]
  /\ again' = [again EXCEPT ![tid] = 0]
  /\ UNCHANGED <<py, d, life, chain, wlife, alive>>

-----------------------------------------------------------------------------
(* Deallocation, on whichever thread drops the last reference.              *)

Dealloc(tid, p) ==
  /\ Python(tid)
  /\ m' = handle_pyobj_dealloc(m, tid, p, TgidOf[tid])
  /\ again' = [again EXCEPT ![tid] = 0]

(* A coroutine that ran to its end, or was never awaited.                   *)
DeallocFrame(tid, f) ==
  /\ tid \in Collects
  /\ life[f] \in {"finished", "created"}
  /\ Dealloc(tid, f)
  /\ py' = Freed(f)
  /\ life' = [life EXCEPT ![f] = "free"]
  /\ UNCHANGED <<d, steps, tlife, chain, wlife, alive>>

DoneTask(tid, k) == tid \in Collects /\ Python(tid) /\ tlife[k] = "done"

DeallocTask(tid, k) ==
  /\ DoneTask(tid, k)
  /\ Dealloc(tid, k)
  /\ tlife' = [tlife EXCEPT ![k] = "none"]
  /\ UNCHANGED <<py, d, steps, life, chain, wlife, alive>>

(* A tool object nothing uses is freed; its address is used again, possibly *)
(* for an object of another type.                                           *)
DeallocObj(tid, o) ==
  /\ o \in Freeable
  /\ \A f \in Frames : life[f] # "free" => py.code[f].self # o
  /\ Dealloc(tid, o)
  /\ \E y \in Types, n \in ToolIds : py' = [py EXCEPT !.type[o] = y, !.tool[o] = n]
  /\ UNCHANGED <<d, penv>>

DeallocWork(tid, w) ==
  /\ wlife[w] \in {"ran", WORKITEM_CTOR, THREAD_CTOR}
  /\ \A f \in Frames : life[f] = "running" => w \notin {py.code[f].self, py.local[f]}
  /\ Dealloc(tid, w)
  /\ wlife' = [wlife EXCEPT ![w] = "none"]
  /\ UNCHANGED <<py, d, steps, life, tlife, chain, alive>>

(* concurrent.futures.thread._worker takes a work item from its queue into  *)
(* a local variable.                                                        *)
PoolTake(tid, w) ==
  /\ InCode(tid)
  /\ py.stack[tid] # <<>>
  /\ wlife[w] = WORKITEM_CTOR
  /\ \A g \in Frames : py.local[g] # w /\ (life[g] = "running" => py.code[g].self # w)
  /\ LET f == Last(py.stack[tid])
     IN  /\ py.code[f].kind = POOL
         /\ py.local[f] = NULL
         /\ py' = [py EXCEPT !.local[f] = w]
  /\ again' = [again EXCEPT ![tid] = 0]
  /\ UNCHANGED <<m, d, penv>>

(* When it has run the work item it deletes the variable, which held the    *)
(* last reference.                                                          *)
PoolDrop(tid) ==
  /\ InCode(tid)
  /\ py.stack[tid] # <<>>
  /\ LET f == Last(py.stack[tid])
     IN  /\ \E w \in Works :
              /\ py.local[f] = w
              /\ wlife[w] = "ran"
              /\ Dealloc(tid, w)
              /\ wlife' = [wlife EXCEPT ![w] = "none"]
         /\ py' = [py EXCEPT !.local[f] = NULL]
  /\ UNCHANGED <<d, steps, life, tlife, chain, alive>>

-----------------------------------------------------------------------------
(* Threads and processes.                                                   *)

(* A new process, or a thread for a Thread object.                          *)
Fork(tid, child) ==
  /\ tid \in alive
  /\ child \notin alive \cup {AgentPid}
  /\ TgidOf[tid] = AgentPid => Python(tid)
  /\ Calls(tid, FORK)
  /\ \/ TgidOf[child] = child /\ wlife' = wlife
     \/ /\ TgidOf[child] = TgidOf[tid]
        /\ \E w \in Works : wlife[w] = THREAD_CTOR /\ wlife' = [wlife EXCEPT ![w] = child]
  /\ m' = handle_sched_fork(m, tid, TgidOf[tid], child, TgidOf[child], ChildScopeAll)
  /\ alive' = alive \cup {child}
  /\ again' = [again EXCEPT ![tid] = 0]
  /\ UNCHANGED <<py, d, steps, life, tlife, chain>>

(* A thread ends when its code has, the main thread of a process last; or   *)
(* with a process that is killed, whatever it was doing and in any order.   *)
Exit(tid) ==
  /\ tid \in alive \cap MayEnd
  /\ \/ Idle(tid) /\ \A t \in alive : TgidOf[t] = tid => t = tid
     \/ Killable /\ TgidOf[tid] = AgentPid
  /\ m' = handle_sched_exit(m, tid, TgidOf[tid])
  /\ alive' = alive \ {tid}
  /\ again' = [again EXCEPT ![tid] = 0]
  /\ UNCHANGED <<py, d, steps, life, tlife, chain, wlife>>

(* A guarded system call: file open, exec or connect.                       *)
Guard(tid) ==
  /\ tid \in alive
  /\ m' = guard_hook(m, py, tid, TgidOf[tid])
  /\ again' = [again EXCEPT ![tid] = 0]
  /\ UNCHANGED <<py, d, penv>>

(* The same where the fallback monitors are attached (main.rs attaches them *)
(* when the kernel does not run the LSM hooks).                             *)
Monitor(tid) ==
  /\ tid \in alive
  /\ m' = fentry_hook(m, py, tid)
  /\ again' = [again EXCEPT ![tid] = 0]
  /\ UNCHANGED <<py, d, penv>>

ThreadStep(tid) ==
  \/ \E f \in Frames : \E code \in CodesAt[f] : Call(tid, f, code) \/ Create(tid, f, code)
  \/ \E f \in Frames : Await(tid, f) \/ DeallocFrame(tid, f)
  \/ EntryProbeAgain(tid) \/ Return(tid)
  \/ \E k \in Tasks, f \in Frames : TaskInit(tid, k, f)
  \/ \E k \in Tasks : TaskStep(tid, k) \/ DeallocTask(tid, k)
  \/ ResumeFrame(tid) \/ TaskSuspend(tid) \/ TaskDone(tid)
  \/ \E o \in Objs : DeallocObj(tid, o)
  \/ \E w \in Works : DeallocWork(tid, w) \/ PoolTake(tid, w)
  \/ PoolDrop(tid)
  \/ \E child \in Tids : Fork(tid, child)
  \/ Exit(tid) \/ Guard(tid) \/ Monitor(tid)

AgentStep == \E tid \in Tids : ThreadStep(tid)

(* Between two handlers the daemon may take a step of its own.              *)
DaemonStep ==
  \/ ResolverTake /\ UNCHANGED <<again, penv>>
  \/ ResolverReadObject /\ UNCHANGED <<again, penv>>
  \/ ResolverReadFails /\ UNCHANGED <<again, penv>>
  \/ ResolverInsertObj /\ UNCHANGED <<again, penv>>
  \/ ResolverGetCtx /\ UNCHANGED <<again, penv>>
  \/ ResolverInsertCtx /\ UNCHANGED <<again, penv>>

Next == AgentStep \/ DaemonStep

Spec == Init /\ [][Next]_vars

-----------------------------------------------------------------------------
StepRec == [task : Tasks, base : Nat, todo : Seq(Frames)]
FrameLife == {"free", "created", "running", "suspended", "finished"}
TaskLife == {"none", "fresh", "waiting", "running", "done"}
WorkLife == {"none", WORKITEM_CTOR, THREAD_CTOR, "running", "ran"} \cup Tids

(* Every variable has its type.  No stack of the maps outgrows its bound.   *)
TypeOK ==
  /\ m \in MapsType
  /\ py \in PyType
  /\ d \in DaemonType
  /\ steps \in [Tids -> Seq(StepRec)]
  /\ life \in [Frames -> FrameLife]
  /\ tlife \in [Tasks -> TaskLife]
  /\ chain \in [Tasks -> Seq(Frames)]
  /\ wlife \in [Works -> WorkLife]
  /\ again \in [Tids -> 0..MaxAgain]
  /\ alive \in SUBSET Tids


(* carrier_count is the number of carriers of a live context: it lives as   *)
(* long as something carries it, across every order of close, defer,        *)
(* hand-over, clear and deallocation (ownership.rs, lifecycle.rs), until    *)
(* the agent is killed or ends.                                             *)
CarrierAccounting ==
  ~Killed =>
    \A c \in CtxIds :
      ctx_is_live(m, c) => m.TOOL_CTX[c].carrier_count = Cardinality(carriers(m, c))

(* Nothing carries a context that has ended.                                *)
NoDeadCarrier ==
  \A c \in CtxIds : ~ctx_is_live(m, c) => carriers(m, c) = {}

(* Every context is bracketed in the event stream: it starts at most once,  *)
(* ends after that at most once, and has had its frame end when it ends     *)
(* (the sequence main.rs checks at shutdown).                               *)
EventBrackets ==
  \A c \in CtxIds :
    LET e == m.events[c]
    IN  /\ e.start <= 1
        /\ e.context_end <= e.frame_end
        /\ e.frame_end <= e.start
        /\ ctx_is_live(m, c) => e.start = 1 /\ e.context_end = 0
        /\ e.start = 1 /\ ~ctx_is_live(m, c) => e.context_end = 1

(* The tool of the innermost frame of tid, NULL when that is no tool root.  *)
RunningTool(tid) ==
  IF ~InCode(tid) \/ py.stack[tid] = <<>> THEN NULL
  ELSE LET code == py.code[Last(py.stack[tid])]
       IN  IF code.kind = LC THEN py.tool[code.self] ELSE NULL

(* While a tool root runs, the context active on its thread is alive and    *)
(* has the tool's id, however often tasks were switched in between.         *)
ToolAttributed ==
  \A tid \in Tids : RunningTool(tid) # NULL =>
    tool_of(m, m.THREAD_ACTIVE_CTX[tid]) = RunningTool(tid)

(* The event loop itself, and the ordinary functions it calls, run under no *)
(* context.                                                                 *)
NoContextInEventLoop ==
  \A tid \in Tids :
    /\ steps[tid] = <<>>
    /\ \A i \in DOMAIN py.stack[tid] : py.code[py.stack[tid][i]].kind = PLAIN
    => ~ctx_is_live(m, m.THREAD_ACTIVE_CTX[tid])

(* Every coroutine, call, task and work object has come to its end and been *)
(* freed, and only the agent's first thread is left.                        *)
Quiescent ==
  /\ \A f \in Frames : life[f] = "free"
  /\ \A k \in Tasks : tlife[k] = "none"
  /\ \A w \in Works : wlife[w] = "none"
  /\ alive \subseteq {AgentPid}

(* When all is at rest no context is left, and no stack entry or parked     *)
(* close either: every path of frame_probes.rs and lifecycle.rs that ends a *)
(* tool takes back what its start put there.                                *)
NoLeak ==
  Quiescent =>
    /\ \A c \in CtxIds : ~ctx_is_live(m, c)
    /\ \A k \in Tasks : m.TASK_CTX_STACK[k] = <<>> /\ pending_slots(m, k) = {}
    /\ \A tid \in Tids : m.THREAD_CTX_STACK[tid] = <<>> /\ m.TOOL_STACK[tid] = <<>>

(* TASK_CTX, which task_probes.rs reads, is always the top of the task's    *)
(* stack, which ownership.rs keeps in another map.                          *)
TaskCtxIsTop == \A k \in Tasks : m.TASK_CTX[k] = top_or_null(m.TASK_CTX_STACK[k])

(* A context is on the context stack of a thread, once, exactly while a     *)
(* frame owns it.                                                           *)
StackMatchesFrames ==
  /\ \A tid \in Tids : IsInjective(m.THREAD_CTX_STACK[tid])
  /\ \A c \in CtxIds : (\E tid \in Tids : Contains(m.THREAD_CTX_STACK[tid], c))
                   <=> (\E f \in Frames : m.FRAME_CTX[f] = c)

(* A context handed to another thread is the active one, and alive, there   *)
(* while the work item that carries it runs (handle_run_entry).             *)
WorkerAttributed ==
  \A tid \in Tids : Python(tid) /\ py.stack[tid] # <<>> =>
    LET code == py.code[Last(py.stack[tid])]
        c == m.WORK_CTX["WORKITEM"][code.self]
    IN  code.kind = WORKITEM_RUN /\ c # NULL =>
          m.THREAD_ACTIVE_CTX[tid] = c /\ ctx_is_live(m, c)

(* Between two work items a pool thread runs under no context but the one   *)
(* it inherited when it was made, by the fork or from its Thread object.    *)
IdleWorkerClean ==
  \A tid \in Tids :
    /\ py.stack[tid] # <<>>
    /\ py.code[Last(py.stack[tid])].kind = POOL
    /\ py.local[Last(py.stack[tid])] = NULL
    /\ ctx_is_live(m, m.THREAD_ACTIVE_CTX[tid])
    => \/ m.THREAD_ACTIVE_CTX[tid] = m.FORK_CTX[tid]
       \/ \E w \in Works : /\ w = py.code[Head(py.stack[tid])].self
                           /\ m.THREAD_ACTIVE_CTX[tid] = m.WORK_CTX["THREAD"][w]

(* The runs recorded for a thread are runs in progress on it, innermost     *)
(* last, and only of objects that carry a context.                          *)
RunsInProgress ==
  \A tid \in Tids :
    LET runs == m.WORKER_RUN_STACK[tid]
        frames == SelectSeq(py.stack[tid], LAMBDA f : py.code[f].kind \in {WORKITEM_RUN, THREAD_RUN})
        recorded == [i \in DOMAIN runs |-> runs[i].frame_ptr]
    IN  /\ SelectSeq(frames, LAMBDA f : Contains(recorded, f)) = recorded
        /\ \A i \in DOMAIN runs : m.WORKER_RUN_CARRIER[runs[i].self_obj] = tid

(* A process or thread made inside a tool carries the tool's context until  *)
(* it ends or takes up work of its own, however soon the tool itself        *)
(* returns or the agent is killed; the context is alive, a process runs     *)
(* under it all the time, and it is guarded (handle_sched_fork).            *)
ChildKeepsContext ==
  \A tid \in alive : m.FORK_CTX[tid] # NULL =>
    /\ ctx_is_live(m, m.FORK_CTX[tid])
    /\ TgidOf[tid] = tid => m.THREAD_ACTIVE_CTX[tid] = m.FORK_CTX[tid]
    /\ TgidOf[tid] \in alive => TgidOf[tid] \in m.PROTECTED_TGIDS

(* agent_child_scope: with the wider scope every descendant of the agent is *)
(* guarded, the children of idle code and of other children included,       *)
(* whoever had their ids before (handle_sched_fork, README.md).             *)
DescendantsGuarded ==
  ChildScopeAll => \A tid \in alive : TgidOf[tid] \in m.PROTECTED_TGIDS

(* When every thread of the agent has ended, killed in whatever it was      *)
(* doing, a context lives on with a child process that carries it, or in    *)
(* one of the two ways that reap_thread leaves open: with a work object     *)
(* that nothing will free, and with a thread that was inside a tool of its  *)
(* own and so kept the context it had inherited.                            *)
OrphanedContexts ==
  (\A t \in alive : TgidOf[t] # AgentPid) =>
    \A c \in CtxIds : ctx_is_live(m, c) =>
      \/ \E t \in alive : m.FORK_CTX[t] = c
      \/ \E kind \in RunKinds, w \in Works : m.WORK_CTX[kind][w] = c
      \/ \E t \in Tids \ alive : m.FORK_CTX[t] = c /\ py.stack[t] # <<>>

(* A cache entry the kernel would use names the tool that is really at the  *)
(* address, although the address is used again and the resolver runs beside *)
(* the probes (types.rs, ToolObjCacheEntry).                                *)
CacheCorrect ==
  \A o \in Objs : cache_valid(m, py, o) => m.TOOL_OBJ[o].tool_id = py.tool[o]

(* A frame's context bears the name of the frame's own tool or none.        *)
ContextIdentity ==
  \A f \in Frames : life[f] # "free" /\ py.code[f].kind \in {LC, IMPL} =>
    tool_of(m, m.FRAME_CTX[f]) \in {TOOL_IDLE, py.tool[py.code[f].self]}

(* What the kernel asked the resolver about a context is answered: it gets  *)
(* its tool, or the error mark, unless it ends first.                       *)
ResolverAnswers ==
  \A c \in CtxIds :
    (\E i \in DOMAIN m.RESOLVER_EVENTS : m.RESOLVER_EVENTS[i].ctx_id = c)
      ~> (~ctx_is_live(m, c) \/ tool_of(m, c) # TOOL_IDLE \/ m.TOOL_CTX[c].resolver_error)

(* Every context ends, if what the agent runs comes to its end.             *)
ContextsEnd == \A c \in CtxIds : ctx_is_live(m, c) ~> ~ctx_is_live(m, c)

(* The daemon goes on reading its ring.                                     *)
FairDaemon == Spec /\ WF_vars(DaemonStep)

(* The event loop runs every task again and again, what is called returns   *)
(* some time, and CPython frees what nothing refers to.  Fairness is        *)
(* written out with the guards of the actions where it can be.              *)
FairAgent ==
  /\ Spec
  /\ \A tid \in Tids :
       /\ []<>ReturnReady(tid) => []<><<Return(tid)>>_vars
       /\ <>[]DoneReady(tid) => []<><<TaskDone(tid)>>_vars
       /\ WF_vars(ResumeFrame(tid))
       /\ \A k \in Tasks :
            /\ []<>StepReady(tid, k) => []<><<TaskStep(tid, k)>>_vars
            /\ <>[]DoneTask(tid, k) => []<><<DeallocTask(tid, k)>>_vars
       /\ \A f \in Frames : WF_vars(DeallocFrame(tid, f))
=============================================================================
