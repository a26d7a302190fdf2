------------------------- MODULE AgentLedgerProofs --------------------------
(***************************************************************************)
(* The books of the tracker along a behaviour of the agent: what every     *)
(* step does to them, and what follows for the carriers, the events and    *)
(* the life of a context.                                                  *)
(***************************************************************************)
EXTENDS AgentLife, AgentProofs, LedgerHandlerProofs, FiniteSetTheorems

(* The books of the tracker: the ledger of the contexts, and a thread that  *)
(* does not exist has inherited nothing.                                    *)
NoGhost == \A tid \in Tids \ alive : m.FORK_CTX[tid] = NULL

Books(x) == IInv /\ Ledger(m, x) /\ NoGhost

(* What no handler checks and the books rest on.                            *)

(* The resolver writes an entry back before anybody has touched its count:  *)
(* main.rs copies the entry and inserts the copy.                           *)
CopyCurrent ==
  ResolverInsertCtx => /\ ctx_is_live(m, Event.ctx_id)
                       /\ m.TOOL_CTX[Event.ctx_id].carrier_count = d.ctx.carrier_count

(* A thread ends with nothing on its context stack: reap_thread gives the   *)
(* contexts it finds there up and leaves their frames.                      *)
EndsIdle == \A tid \in Tids : Exit(tid) => m.THREAD_CTX_STACK[tid] = <<>>

(* A task that hands its context on to a new task is not the last to carry  *)
(* it: handle_task_init takes it from the parent first.                     *)
HandsOnShared ==
  \A tid \in Tids, k \in Tasks, f \in Frames : TaskInit(tid, k, f) => Shares(m, tid)

Undisturbed == CopyCurrent /\ EndsIdle /\ HandsOnShared

(* A frame that owns a context is not entered again under another tool:     *)
(* handle_frame_entry would put a new context in the place of the old.      *)
SameTool ==
  \A tid \in Tids, f \in Frames :
    \/ \E code \in Code : Enter(tid, f, code)
    \/ EntryProbeAgain(tid) /\ f = Last(py.stack[tid])
    => Settled(m, py', f)

(* A step of the books: they stay in order, and no id is used twice.        *)
Advance(x) == Booked(m, m', x) /\ NoGhost'

-----------------------------------------------------------------------------
(* What the books say.                                                      *)

(* A context nothing carries has no place.                                  *)
LEMMA NoPlace ==
  ASSUME NEW r \in MapsType, NEW c \in CtxIds, Others(r, c) = {}, ~Owned(r, c)
  PROVE  carriers(r, c) = {}
<1> SUFFICES ASSUME NEW p \in carriers(r, c)
             PROVE  FALSE
  OBVIOUS
<1>1. p \in Places /\ holds(r, p, c)
  BY DEF carriers
<1>2. p[1] = "frame"
  BY DEF Others
<1>3. p[2] \in Frames
  BY <1>1, <1>2 DEF Places
<1>4. r.FRAME_CTX[p[2]] = c
  BY <1>1, <1>2 DEF holds
<1> QED
  BY <1>3, <1>4 DEF Owned

(* What is not alive is carried by nothing, and its events are paired.      *)
LEMMA BooksImply ==
  ASSUME NEW x, Books(x)
  PROVE  NoDeadCarrier /\ EventBrackets
<1>1. m \in MapsType /\ Ledger(m, x)
  BY Unpacked DEF Books
<1>2. NoDeadCarrier
  <2>1. SUFFICES ASSUME NEW c \in CtxIds, ~ctx_is_live(m, c)
                 PROVE  carriers(m, c) = {}
    BY DEF NoDeadCarrier
  <2>2. EndedEntry(m, c)
    BY <1>1, <2>1 DEF Ledger
  <2>3. Others(m, c) = {} /\ ~Owned(m, c)
    BY <1>1, <2>2, EntryTypes DEF EndedEntry
  <2> QED
    BY <1>1, <2>3, NoPlace
<1>3. EventBrackets
  <2>1. SUFFICES ASSUME NEW c \in CtxIds
                 PROVE  LET e == m.events[c]
                        IN  /\ e.start <= 1
                            /\ e.context_end <= e.frame_end
                            /\ e.frame_end <= e.start
                            /\ ctx_is_live(m, c) => e.start = 1 /\ e.context_end = 0
                            /\ e.start = 1 /\ ~ctx_is_live(m, c) => e.context_end = 1
    BY DEF EventBrackets
  <2>2. CASE ctx_is_live(m, c)
    <3>1. LiveEntry(m, c, x)
      BY <1>1, <2>2 DEF Ledger
    <3>2. m.events[c].start = 1 /\ m.events[c].context_end = 0 /\ m.events[c].frame_end \in {0, 1}
      BY <3>1 DEF LiveEntry
    <3> QED
      BY <2>2, <3>2
  <2>3. CASE ~ctx_is_live(m, c)
    <3>1. m.events[c] \in {Unused, Closed}
      BY <1>1, <2>3 DEF Ledger, EndedEntry
    <3> QED
      BY <2>3, <3>1 DEF Unused, Closed
  <2> QED
    BY <2>2, <2>3
<1> QED
  BY <1>2, <1>3

(* What is numbered from 1 to n has n elements.                             *)
LEMMA NumberedCard ==
  ASSUME NEW S, NEW n \in Nat, Numbered(S, n)
  PROVE  Cardinality(S) = n
<1>1. PICK g : Numbering(g, S, n)
  BY DEF Numbered
<1>2. g \in Bijection(1..n, S)
  BY <1>1, Zenon DEF Numbering, Bijection, Injection, Surjection, IsInjective
<1> QED
  BY <1>2, FS_CountingElements, Zenon DEF ExistsBijection

(* When a frame is not entered under another tool, the count of a context   *)
(* is the number of its carriers, and it has one.                           *)
LEMMA CountsImply ==
  ASSUME NEW x, x = TRUE, NEW r \in MapsType, Ledger(r, x), NEW c \in CtxIds, ctx_is_live(r, c)
  PROVE  /\ r.TOOL_CTX[c].carrier_count = Cardinality(carriers(r, c))
         /\ carriers(r, c) # {}
<1> DEFINE n == r.TOOL_CTX[c].carrier_count
           k == n - (1 - r.events[c].frame_end)
<1>1. LiveEntry(r, c, x)
  BY Zenon DEF Ledger
<1>2. n \in Nat \ {0}
  BY EntryTypes, Zenon
<1>3. k \in Nat /\ Numbered(Others(r, c), k)
  BY <1>1 DEF LiveEntry, Sized
<1>4. CASE r.events[c].frame_end = 1
  <2>1. ~Owned(r, c) /\ k = n
    BY <1>1, <1>2, <1>4 DEF LiveEntry
  <2>2. carriers(r, c) = Others(r, c)
    <3>1. SUFFICES ASSUME NEW p \in carriers(r, c), p[1] = "frame"
                   PROVE  FALSE
      BY DEF Others
    <3>2. p[2] \in Frames /\ r.FRAME_CTX[p[2]] = c
      BY <3>1 DEF carriers, Places, holds
    <3> QED
      BY <2>1, <3>2 DEF Owned
  <2> HIDE DEF n, k
  <2> QED
    BY <1>2, <1>3, <2>1, <2>2, NumberedCard, NumberedNone DEF n
<1>5. CASE r.events[c].frame_end = 0
  <2>1. Owned(r, c) /\ k + 1 = n
    BY <1>1, <1>2, <1>5 DEF LiveEntry
  <2>2. PICK f \in Frames : r.FRAME_CTX[f] = c
    BY <2>1 DEF Owned
  <2> DEFINE q == <<"frame", f, 0>>
  <2>3. q \in carriers(r, c)
    BY <2>2 DEF carriers, Places, holds
  <2>4. carriers(r, c) = Others(r, c) \cup {q}
    <3>1. ASSUME NEW p \in carriers(r, c), p[1] = "frame"
          PROVE  p = q
      <4>1. p[2] \in Frames /\ r.FRAME_CTX[p[2]] = c /\ p = <<"frame", p[2], 0>>
        BY <3>1 DEF carriers, Places, holds
      <4>2. p[2] = f
        BY <2>2, <4>1, CtxNotNull DEF Ledger
      <4> QED
        BY <4>1, <4>2
    <3> QED
      BY <2>3, <3>1 DEF Others
  <2>5. q \notin Others(r, c)
    BY DEF Others
  <2> HIDE DEF n, k, q
  <2>6. Numbered(carriers(r, c), n)
    BY <1>3, <2>1, <2>4, <2>5, NumberedAdd, Zenon
  <2> QED
    BY <1>2, <2>3, <2>6, NumberedCard DEF n
<1> QED
  BY <1>1, <1>4, <1>5 DEF LiveEntry

-----------------------------------------------------------------------------
(* Every step keeps the books.                                              *)

(* What all steps start from.                                               *)
LEMMA BooksHold ==
  ASSUME NEW x, Books(x)
  PROVE  IInv /\ MapsOK(m) /\ m \in MapsType /\ py \in PyType /\ Ledger(m, x) /\ NoGhost
BY Unpacked DEF Books

(* A handler that keeps the books, on a thread that lives on.               *)
LEMMA KeptAdvance ==
  ASSUME NEW x, Books(x), Kept(m, m', x), alive' = alive
  PROVE  Advance(x)
<1>1. NoGhost'
  BY BooksHold DEF Kept, Forkless, NoGhost
<1> QED
  BY <1>1 DEF Advance, Kept

(* A step that leaves the carriers and the counts alone.                    *)
LEMMA NeutralAdvance ==
  ASSUME NEW x, Books(x), Neutral(m, m'), alive' = alive
  PROVE  Advance(x)
BY BooksHold, NeutralKept, KeptAdvance

(* The entry probe (frame_entry), under one tool when x.                    *)
LEMMA EnterAdvance ==
  ASSUME NEW x, Books(x), NEW tid \in Tids, NEW f \in Frames, NEW code \in Code,
         Enter(tid, f, code), x => SameTool, d' = d, alive' = alive
  PROVE  Advance(x)
<1>1. IInv /\ MapsOK(m) /\ m \in MapsType /\ Ledger(m, x)
  BY BooksHold
<1>2. py' \in PyType
  BY <1>1, EnterOK, Zenon
<1>3. m.CTX_COUNTER + Allocates(f) <= MaxCtx /\ m' = frame_entry(m, py', tid, f, TgidOf[tid])
  BY DEF Enter
<1>4. EntryFits(m, py', f)
  BY <1>1, <1>3, AllocatesFits, MapsFields
<1>5. x => Settled(m, py', f)
  BY DEF SameTool
<1>6. Kept(m, m', x)
  BY <1>1, <1>2, <1>3, <1>4, <1>5, EntryProbeKept
<1> QED
  BY <1>6, KeptAdvance

(* A call, the first await of a coroutine, a resumed frame.                 *)
LEMMA EntersAdvance ==
  ASSUME NEW x, Books(x), x => SameTool, NEW tid \in Tids
  PROVE  /\ \A f \in Frames, code \in Code : Call(tid, f, code) => Advance(x)
         /\ \A f \in Frames : Await(tid, f) => Advance(x)
         /\ ResumeFrame(tid) => Advance(x)
<1>1. ASSUME NEW f \in Frames, NEW code \in Code, Call(tid, f, code)
      PROVE  Advance(x)
  <2>1. Enter(tid, f, code) /\ d' = d /\ alive' = alive
    BY <1>1 DEF Call
  <2> QED
    BY <2>1, EnterAdvance
<1>2. ASSUME NEW f \in Frames, Await(tid, f)
      PROVE  Advance(x)
  <2>1. Enter(tid, f, py.code[f]) /\ d' = d /\ alive' = alive
    BY <1>2 DEF Await
  <2>2. py.code[f] \in Code
    BY BooksHold, PyFields
  <2> QED
    BY <2>1, <2>2, EnterAdvance
<1>3. ASSUME ResumeFrame(tid)
      PROVE  Advance(x)
  <2> DEFINE n == Len(steps[tid])
             todo == steps[tid][n].todo
             f == Head(todo)
  <2>1. ~Resumed(tid) /\ Enter(tid, f, py.code[f]) /\ d' = d /\ alive' = alive
    BY <1>3 DEF ResumeFrame
  <2>2. IInv /\ py \in PyType
    BY BooksHold
  <2>3. steps[tid] # <<>> /\ todo # <<>>
    BY <2>1, <2>2, StepsTyped DEF Resumed
  <2>4. steps[tid][n] \in StepRec
    BY <2>2, <2>3, StepsTyped
  <2>5. f \in Frames
    BY <2>3, <2>4 DEF StepRec
  <2> HIDE DEF f
  <2>6. py.code[f] \in Code
    BY <2>2, <2>5, PyFields
  <2> QED
    BY <2>1, <2>5, <2>6, EnterAdvance
<1> QED
  BY <1>1, <1>2, <1>3

(* The entry probe of the innermost frame fires again.                      *)
LEMMA AgainAdvance ==
  ASSUME NEW x, Books(x), x => SameTool, NEW tid \in Tids, EntryProbeAgain(tid)
  PROVE  Advance(x)
<1> DEFINE f == Last(py.stack[tid])
<1>1. IInv /\ MapsOK(m) /\ m \in MapsType /\ py \in PyType /\ Ledger(m, x)
  BY BooksHold
<1>2. /\ again[tid] > 0
      /\ py' = py
      /\ m.CTX_COUNTER + Allocates(f) <= MaxCtx
      /\ m' = frame_entry(m, py, tid, f, TgidOf[tid])
      /\ alive' = alive
  BY DEF EntryProbeAgain, penv
<1>3. f \in Frames
  BY <1>1, <1>2, StackTyped DEF IInv, NestOK
<1>4. x => Settled(m, py', f)
  BY <1>3 DEF SameTool
<1> HIDE DEF f
<1>5. EntryFits(m, py', f)
  BY <1>1, <1>2, <1>3, AllocatesFits, MapsFields
<1>6. Kept(m, m', x)
  BY <1>1, <1>2, <1>3, <1>4, <1>5, EntryProbeKept
<1> QED
  BY <1>2, <1>6, KeptAdvance

(* The innermost frame returns, and may be freed.                           *)
LEMMA ReturnAdvance ==
  ASSUME NEW x, Books(x), NEW tid \in Tids, Return(tid)
  PROVE  Advance(x)
<1> DEFINE f == Last(py.stack[tid])
           exited == frame_exit(m, tid, py.prev[f])
<1>1. IInv /\ MapsOK(m) /\ m \in MapsType /\ py \in PyType /\ Ledger(m, x)
  BY BooksHold
<1>2. /\ py.stack[tid] # <<>>
      /\ \/ m' = handle_pyobj_dealloc(exited, tid, f, TgidOf[tid])
         \/ m' = exited
      /\ alive' = alive
  BY Zenon DEF Return, ReturnReady
<1>3. f \in Frames
  BY <1>1, <1>2, StackTyped
<1> HIDE DEF f
<1>4. py.prev[f] \in ParentPtrs
  BY <1>1, <1>3, Zenon DEF PyType
<1>5. MapsOK(exited) /\ Kept(m, exited, x)
  BY <1>1, <1>4, ExitProbe, ExitProbeKept DEF Grows
<1> HIDE DEF exited
<1>6. Ledger(exited, x)
  BY <1>5, KeptFacts
<1>7. Kept(exited, handle_pyobj_dealloc(exited, tid, f, TgidOf[tid]), x)
  BY <1>3, <1>5, <1>6, PyobjDeallocKept
<1>8. Kept(m, m', x)
  BY <1>1, <1>2, <1>5, <1>7, KeptTrans
<1> QED
  BY <1>2, <1>8, KeptAdvance

(* A coroutine is built.                                                    *)
LEMMA CreateAdvance ==
  ASSUME NEW x, Books(x), NEW tid \in Tids, NEW f \in Frames, NEW code \in Code,
         Create(tid, f, code)
  PROVE  Advance(x)
<1>1. /\ py' = [py EXCEPT !.code[f] = code]
      /\ m' = handle_coroutine_creation(m, py', f)
      /\ alive' = alive
  BY DEF Create
<1>2. py' \in PyType
  BY <1>1, BooksHold, Zenon DEF PyType
<1>3. Neutral(m, m')
  BY <1>1, <1>2, BooksHold, CoroutineNeutral
<1> QED
  BY <1>1, <1>3, NeutralAdvance

(* A task is made, steps and ends.                                          *)
LEMMA TasksAdvance ==
  ASSUME NEW x, Books(x), Undisturbed, NEW tid \in Tids
  PROVE  /\ \A k \in Tasks, f \in Frames : TaskInit(tid, k, f) => Advance(x)
         /\ \A k \in Tasks : TaskStep(tid, k) => Advance(x)
         /\ TaskSuspend(tid) \/ TaskDone(tid) => Advance(x)
<1>1. MapsOK(m) /\ m \in MapsType /\ Ledger(m, x) /\ IInv
  BY BooksHold
<1>2. ASSUME NEW k \in Tasks, NEW f \in Frames, TaskInit(tid, k, f)
      PROVE  Advance(x)
  <2>1. Shares(m, tid)
    BY <1>2 DEF Undisturbed, HandsOnShared
  <2>2. m' = handle_task_init(m, tid, k) /\ alive' = alive
    BY <1>2 DEF TaskInit
  <2> QED
    BY <1>1, <2>1, <2>2, TaskInitKept, KeptAdvance
<1>3. ASSUME NEW k \in Tasks, TaskStep(tid, k)
      PROVE  Advance(x)
  <2>1. m' = handle_task_step_entry(m, tid, k) /\ alive' = alive
    BY <1>3 DEF TaskStep
  <2> QED
    BY <1>1, <2>1, StepEntryKept, KeptAdvance
<1>4. ASSUME TaskSuspend(tid)
      PROVE  Advance(x)
  <2>1. m' = handle_task_step_return(m, tid, DoneTasks) /\ alive' = alive
    BY <1>4 DEF TaskSuspend
  <2>2. DoneTasks \in SUBSET Tasks
    BY DEF DoneTasks
  <2> QED
    BY <1>1, <2>1, <2>2, StepReturnKept, KeptAdvance
<1>5. ASSUME TaskDone(tid)
      PROVE  Advance(x)
  <2> DEFINE k == Last(steps[tid]).task
  <2>1. /\ steps[tid] # <<>>
        /\ m' = handle_task_step_return(m, tid, DoneTasks \cup {k})
        /\ alive' = alive
    BY <1>5 DEF TaskDone, DoneReady
  <2>2. Last(steps[tid]) \in StepRec
    BY <1>1, <2>1, StepsTyped
  <2>3. k \in Tasks
    BY <2>2 DEF StepRec
  <2> HIDE DEF k
  <2>4. DoneTasks \cup {k} \in SUBSET Tasks
    BY <2>3 DEF DoneTasks
  <2> QED
    BY <1>1, <2>1, <2>4, StepReturnKept, KeptAdvance
<1> QED
  BY <1>2, <1>3, <1>4, <1>5

(* An object is freed.                                                      *)
LEMMA DeallocAdvance ==
  ASSUME NEW x, Books(x), NEW tid \in Tids, NEW p \in Tasks \cup Frames \cup Objs \cup Works,
         Dealloc(tid, p), alive' = alive
  PROVE  Advance(x)
<1>1. m' = handle_pyobj_dealloc(m, tid, p, TgidOf[tid])
  BY DEF Dealloc
<1> QED
  BY <1>1, BooksHold, PyobjDeallocKept, KeptAdvance

(* A coroutine, a task, a tool object, a work object is freed.              *)
LEMMA DeallocsAdvance ==
  ASSUME NEW x, Books(x), NEW tid \in Tids
  PROVE  /\ \A f \in Frames : DeallocFrame(tid, f) => Advance(x)
         /\ \A k \in Tasks : DeallocTask(tid, k) => Advance(x)
         /\ \A o \in Objs : DeallocObj(tid, o) => Advance(x)
         /\ \A w \in Works : DeallocWork(tid, w) \/ PoolTake(tid, w) => Advance(x)
         /\ PoolDrop(tid) => Advance(x)
<1>1. ASSUME NEW f \in Frames, DeallocFrame(tid, f)
      PROVE  Advance(x)
  BY <1>1, DeallocAdvance DEF DeallocFrame
<1>2. ASSUME NEW k \in Tasks, DeallocTask(tid, k)
      PROVE  Advance(x)
  BY <1>2, DeallocAdvance DEF DeallocTask
<1>3. ASSUME NEW o \in Objs, DeallocObj(tid, o)
      PROVE  Advance(x)
  BY <1>3, DeallocAdvance DEF DeallocObj, penv
<1>4. ASSUME NEW w \in Works, DeallocWork(tid, w)
      PROVE  Advance(x)
  BY <1>4, DeallocAdvance DEF DeallocWork
<1>5. ASSUME NEW w \in Works, PoolTake(tid, w)
      PROVE  Advance(x)
  <2>1. m' = m /\ alive' = alive
    BY <1>5 DEF PoolTake, penv
  <2> QED
    BY <2>1, BooksHold, NeutralSelf, NeutralAdvance
<1>6. ASSUME PoolDrop(tid)
      PROVE  Advance(x)
  <2>1. PICK w \in Works : Dealloc(tid, w)
    BY <1>6 DEF PoolDrop
  <2>2. alive' = alive
    BY <1>6 DEF PoolDrop
  <2> QED
    BY <2>1, <2>2, DeallocAdvance
<1> QED
  BY <1>1, <1>2, <1>3, <1>4, <1>5, <1>6

(* A thread or process starts, ends, or makes a guarded call.               *)
LEMMA ThreadsAdvance ==
  ASSUME NEW x, Books(x), Undisturbed, NEW tid \in Tids
  PROVE  /\ \A child \in Tids : Fork(tid, child) => Advance(x)
         /\ Exit(tid) \/ Guard(tid) \/ Monitor(tid) => Advance(x)
<1>1. m \in MapsType /\ py \in PyType /\ Ledger(m, x) /\ NoGhost
  BY BooksHold
<1>2. ASSUME NEW child \in Tids, Fork(tid, child)
      PROVE  Advance(x)
  <2>1. /\ child \notin alive
        /\ m' = handle_sched_fork(m, tid, TgidOf[tid], child, TgidOf[child], ChildScopeAll)
        /\ alive' = alive \cup {child}
    BY <1>2 DEF Fork
  <2>2. TgidOf[child] \in Tids /\ ChildScopeAll \in BOOLEAN
    BY AgentAssumption
  <2>3. m.FORK_CTX[child] = NULL
    BY <1>1, <2>1 DEF NoGhost
  <2>4. Booked(m, m', x) /\ \A t \in Tids : t # child => m'.FORK_CTX[t] = m.FORK_CTX[t]
    BY <1>1, <2>1, <2>2, <2>3, SchedForkBooked
  <2>5. NoGhost'
    BY <1>1, <2>1, <2>4 DEF NoGhost
  <2> QED
    BY <2>4, <2>5 DEF Advance
<1>3. ASSUME Exit(tid)
      PROVE  Advance(x)
  <2>1. m' = handle_sched_exit(m, tid, TgidOf[tid]) /\ alive' = alive \ {tid}
    BY <1>3 DEF Exit
  <2>2. m.THREAD_CTX_STACK[tid] = <<>>
    BY <1>3 DEF Undisturbed, EndsIdle
  <2>3. Kept(m, m', x) /\ m'.FORK_CTX[tid] = NULL
    BY <1>1, <2>1, <2>2, SchedExitKept
  <2>4. NoGhost'
    BY <1>1, <2>1, <2>3 DEF Kept, Forkless, NoGhost
  <2> QED
    BY <2>3, <2>4 DEF Advance, Kept
<1>4. ASSUME Guard(tid)
      PROVE  Advance(x)
  <2>1. m' = guard_hook(m, py, tid, TgidOf[tid]) /\ alive' = alive
    BY <1>4 DEF Guard, penv
  <2> QED
    BY <1>1, <2>1, GuardKept, KeptAdvance
<1>5. ASSUME Monitor(tid)
      PROVE  Advance(x)
  <2>1. m' = fentry_hook(m, py, tid) /\ alive' = alive
    BY <1>5 DEF Monitor, penv
  <2> QED
    BY <1>1, <2>1, FentryKept, KeptAdvance
<1> QED
  BY <1>2, <1>3, <1>4, <1>5

(* The queue of the resolver and the object cache are not in the books.     *)
LEMMA QueueNeutral ==
  ASSUME NEW r \in MapsType, r.RESOLVER_EVENTS # <<>>
  PROVE  Neutral(r, [r EXCEPT !.RESOLVER_EVENTS = Tail(@)])
<1> DEFINE q == Tail(r.RESOLVER_EVENTS)
           s == [r EXCEPT !.RESOLVER_EVENTS = q]
<1>1. r.RESOLVER_EVENTS \in Seq(ResolverEvent)
  BY Zenon DEF MapsType
<1>2. q \in Seq(ResolverEvent)
  BY <1>1
<1> HIDE DEF q
<1>3. /\ s \in MapsType
      /\ s.CTX_COUNTER = r.CTX_COUNTER
      /\ s.FRAME_CTX = r.FRAME_CTX
      /\ s.TASK_CTX_STACK = r.TASK_CTX_STACK
      /\ s.WORK_CTX = r.WORK_CTX
      /\ s.FORK_CTX = r.FORK_CTX
      /\ s.THREADPOOL_WORKER_CTX = r.THREADPOOL_WORKER_CTX
      /\ s.events = r.events
      /\ s.TOOL_CTX = r.TOOL_CTX
  BY <1>2, Zenon DEF MapsType
<1> HIDE DEF s
<1>4. Neutral(r, s)
  BY <1>3 DEF Neutral, SameCarriers, SameCounts, ctx_is_live
<1>5. s = [r EXCEPT !.RESOLVER_EVENTS = Tail(@)]
  BY Zenon DEF s, q, MapsType
<1> QED
  BY <1>4, <1>5

(* The object cache is not in the books.                                    *)
LEMMA ObjectNeutral ==
  ASSUME NEW r \in MapsType, NEW o \in Objs, NEW v \in ToolObjCacheEntry
  PROVE  Neutral(r, [r EXCEPT !.TOOL_OBJ[o] = v])
<1> DEFINE s == [r EXCEPT !.TOOL_OBJ[o] = v]
<1>1. /\ s \in MapsType
      /\ s.CTX_COUNTER = r.CTX_COUNTER
      /\ s.FRAME_CTX = r.FRAME_CTX
      /\ s.TASK_CTX_STACK = r.TASK_CTX_STACK
      /\ s.WORK_CTX = r.WORK_CTX
      /\ s.FORK_CTX = r.FORK_CTX
      /\ s.THREADPOOL_WORKER_CTX = r.THREADPOOL_WORKER_CTX
      /\ s.events = r.events
      /\ s.TOOL_CTX = r.TOOL_CTX
      /\ s.RESOLVER_EVENTS = r.RESOLVER_EVENTS
  BY Zenon DEF MapsType
<1> HIDE DEF s
<1>2. Neutral(r, s)
  BY <1>1 DEF Neutral, SameCarriers, SameCounts, ctx_is_live
<1> QED
  BY <1>2 DEF s

(* Going on to the context of an event, or to the next event.               *)
LEMMA GoToCtxNeutral ==
  ASSUME NEW r \in MapsType, r.RESOLVER_EVENTS # <<>>, NEW tool, GoToCtx(r, tool)
  PROVE  Neutral(r, m')
<1>1. m' = r \/ m' = [r EXCEPT !.RESOLVER_EVENTS = Tail(@)]
  BY DEF GoToCtx
<1> QED
  BY <1>1, QueueNeutral, NeutralSelf

(* The daemon takes an event, resolves it, caches the tool and writes the   *)
(* context back.                                                            *)
LEMMA DaemonAdvance ==
  ASSUME NEW x, Books(x), Undisturbed, DaemonStep
  PROVE  Advance(x)
<1>1. IInv /\ m \in MapsType /\ KernelOK
  BY BooksHold, Unpacked
<1>2. alive' = alive
  BY DEF DaemonStep, penv
<1>3. ASSUME ResolverTake
      PROVE  Neutral(m, m')
  <2>1. m.RESOLVER_EVENTS # <<>> /\ (m' = m \/ m' = NextEvent)
    BY <1>3 DEF ResolverTake
  <2> QED
    BY <1>1, <2>1, QueueNeutral, NeutralSelf DEF NextEvent
<1>4. ASSUME ResolverReadObject
      PROVE  Neutral(m, m')
  BY <1>1, <1>4, NeutralSelf DEF ResolverReadObject
<1>5. ASSUME ResolverReadFails
      PROVE  Neutral(m, m')
  BY <1>1, <1>5, EventTyped, GoToCtxNeutral DEF ResolverReadFails
<1>6. ASSUME ResolverInsertObj
      PROVE  Neutral(m, m')
  <2> DEFINE o == Event.self_ptr
             v == [tool_id |-> d.tool, type_ptr |-> Event.type_ptr]
             r == [m EXCEPT !.TOOL_OBJ[o] = v]
  <2>1. d.pc = "insert_obj" /\ GoToCtx(r, d.tool)
    BY <1>6 DEF ResolverInsertObj
  <2>2. d.pc # "next" /\ d.tool \in ToolIds
    BY <1>1, <2>1 DEF KernelOK
  <2>3. m.RESOLVER_EVENTS # <<>> /\ Event \in ResolverEvent
    BY <1>1, <2>2, EventTyped
  <2>4. o \in Objs /\ v \in ToolObjCacheEntry
    BY <2>2, <2>3 DEF ResolverEvent, ToolObjCacheEntry
  <2> HIDE DEF o, v
  <2>5. r.RESOLVER_EVENTS = m.RESOLVER_EVENTS
    BY <1>1, Zenon DEF MapsType
  <2>6. Neutral(m, r)
    BY <1>1, <2>4, ObjectNeutral
  <2> HIDE DEF r
  <2>7. r \in MapsType
    BY <2>6 DEF Neutral
  <2>8. Neutral(r, m')
    BY <2>1, <2>3, <2>5, <2>7, GoToCtxNeutral
  <2> QED
    BY <2>6, <2>8, NeutralTrans
<1>7. ASSUME ResolverGetCtx
      PROVE  Neutral(m, m')
  <2>1. d.pc = "get_ctx" /\ (m' = m \/ m' = NextEvent)
    BY <1>7 DEF ResolverGetCtx
  <2>2. m.RESOLVER_EVENTS # <<>>
    BY <1>1, <2>1, EventTyped
  <2> QED
    BY <1>1, <2>1, <2>2, QueueNeutral, NeutralSelf DEF NextEvent
<1>8. ASSUME ResolverInsertCtx
      PROVE  Neutral(m, m')
  <2> DEFINE c == Event.ctx_id
             r == NextEvent
             v == [d.ctx EXCEPT !.tool_id = d.tool, !.resolver_error = @ \/ d.tool = TOOL_IDLE]
  <2>1. d.pc = "insert_ctx" /\ m' = [r EXCEPT !.TOOL_CTX[c] = v]
    BY <1>8 DEF ResolverInsertCtx
  <2>2. m.RESOLVER_EVENTS # <<>> /\ d \in DaemonType /\ c \in CtxIds /\ d.ctx \in ToolCtx
    BY <1>1, <2>1, EventTyped DEF KernelOK
  <2>3. v \in ToolCtx /\ v.carrier_count = d.ctx.carrier_count
    BY <2>2, Zenon DEF DaemonType, ToolCtx
  <2>4. ctx_is_live(m, c) /\ m.TOOL_CTX[c].carrier_count = d.ctx.carrier_count
    BY <1>8 DEF Undisturbed, CopyCurrent
  <2>5. Neutral(m, r)
    BY <1>1, <2>2, QueueNeutral DEF NextEvent
  <2>6. r.TOOL_CTX = m.TOOL_CTX
    BY <1>1, Zenon DEF NextEvent, MapsType
  <2> HIDE DEF c, v, r
  <2>7. ctx_is_live(r, c) /\ v.carrier_count = r.TOOL_CTX[c].carrier_count /\ r \in MapsType
    BY <2>3, <2>4, <2>5, <2>6 DEF ctx_is_live, Neutral
  <2>8. Neutral(r, m')
    BY <2>1, <2>2, <2>3, <2>7, RewriteCtx
  <2> QED
    BY <2>5, <2>8, NeutralTrans
<1>9. Neutral(m, m')
  BY <1>3, <1>4, <1>5, <1>6, <1>7, <1>8 DEF DaemonStep
<1> QED
  BY <1>2, <1>9, NeutralAdvance

(* Every step of the agent, of its threads and of the daemon keeps the      *)
(* books.                                                                   *)
LEMMA NextAdvance ==
  ASSUME NEW x, Books(x), Next, Undisturbed, x => SameTool
  PROVE  Advance(x)
<1>1. ASSUME NEW tid \in Tids, NEW f \in Frames, NEW code \in CodesAt[f],
             Call(tid, f, code) \/ Create(tid, f, code)
      PROVE  Advance(x)
  <2>1. code \in Code
    BY AgentAssumption
  <2> QED
    BY <1>1, <2>1, EntersAdvance, CreateAdvance
<1>2. ASSUME NEW tid \in Tids,
             \/ EntryProbeAgain(tid) \/ Return(tid)
             \/ ResumeFrame(tid) \/ TaskSuspend(tid) \/ TaskDone(tid)
             \/ \E f \in Frames : Await(tid, f) \/ DeallocFrame(tid, f)
             \/ \E k \in Tasks, f \in Frames : TaskInit(tid, k, f)
             \/ \E k \in Tasks : TaskStep(tid, k) \/ DeallocTask(tid, k)
      PROVE  Advance(x)
  BY <1>2, AgainAdvance, ReturnAdvance, EntersAdvance, TasksAdvance, DeallocsAdvance
<1>3. ASSUME NEW tid \in Tids,
             \/ \E o \in Objs : DeallocObj(tid, o)
             \/ \E w \in Works : DeallocWork(tid, w) \/ PoolTake(tid, w)
             \/ PoolDrop(tid)
             \/ \E child \in Tids : Fork(tid, child)
             \/ Exit(tid) \/ Guard(tid) \/ Monitor(tid)
      PROVE  Advance(x)
  BY <1>3, DeallocsAdvance, ThreadsAdvance
<1>4. AgentStep => Advance(x)
  BY <1>1, <1>2, <1>3, Zenon DEF AgentStep, ThreadStep
<1>5. DaemonStep => Advance(x)
  BY DaemonAdvance
<1> QED
  BY <1>4, <1>5 DEF Next

(* The maps are loaded empty: there is no context, and nothing to carry.    *)
LEMMA InitBooks ==
  ASSUME Init, NEW x
  PROVE  Books(x) /\ m.CTX_COUNTER = 0 /\ \A c \in CtxIds : ~ctx_is_live(m, c)
<1>1. IInv /\ m \in MapsType
  BY InitOK, Unpacked
<1>2. /\ m.CTX_COUNTER = 0
      /\ m.TOOL_CTX = [c \in CtxIds |-> NULL]
      /\ m.FRAME_CTX = [f \in Frames |-> NULL]
      /\ m.TASK_CTX_STACK = [k \in Tasks |-> <<>>]
      /\ m.WORK_CTX = [k \in RunKinds |-> [w \in Works |-> NULL]]
      /\ m.FORK_CTX = [t \in Tids |-> NULL]
      /\ m.THREADPOOL_WORKER_CTX = [t \in Tids |-> NULL]
      /\ m.events = [c \in CtxIds |-> Unused]
  BY Zenon DEF Init, EmptyMaps, Unused
<1>3. \A c \in CtxIds : ~ctx_is_live(m, c)
  BY <1>2 DEF ctx_is_live
<1>4. \A c \in CtxIds : Others(m, c) = {} /\ ~Owned(m, c)
  <2> SUFFICES ASSUME NEW c \in CtxIds
               PROVE  Others(m, c) = {} /\ ~Owned(m, c)
    OBVIOUS
  <2>1. c # NULL
    BY CtxNotNull
  <2>2. ~Owned(m, c)
    BY <1>2, <2>1 DEF Owned
  <2>3. ASSUME NEW p \in Others(m, c)
        PROVE  FALSE
    <3>1. p \in Places /\ holds(m, p, c) /\ p[1] # "frame"
      BY <2>3 DEF Others, carriers
    <3>2. CASE p[1] = "task"
      <4>1. p[2] \in Tasks
        BY <3>1, <3>2 DEF Places
      <4> QED
        BY <1>2, <3>1, <3>2, <4>1 DEF holds
    <3>3. CASE p[1] = "work"
      <4>1. p[2] \in Works /\ p[3] \in RunKinds
        BY <3>1, <3>3 DEF Places
      <4> QED
        BY <1>2, <2>1, <3>1, <3>3, <4>1 DEF holds
    <3>4. CASE p[1] \in {"fork", "pool"}
      <4>1. p[2] \in Tids
        BY <3>1, <3>4 DEF Places
      <4> QED
        BY <1>2, <2>1, <3>1, <3>4, <4>1 DEF holds
    <3> QED
      BY <3>1, <3>2, <3>3, <3>4 DEF holds
  <2> QED
    BY <2>2, <2>3
<1>5. \A c \in CtxIds : Sized(m, c, 0)
  BY <1>4, NumberedNone DEF Sized
<1>6. Ledger(m, x)
  BY <1>2, <1>3, <1>4, <1>5 DEF Ledger, EndedEntry
<1>7. NoGhost
  BY <1>1, <1>2, Unpacked DEF NoGhost
<1> QED
  BY <1>1, <1>2, <1>3, <1>6, <1>7 DEF Books

(* A step in which nothing happens.                                         *)
LEMMA StutterAdvance ==
  ASSUME NEW x, Books(x), UNCHANGED vars
  PROVE  Advance(x)
<1>1. m' = m /\ alive' = alive
  BY DEF vars, penv
<1> QED
  BY <1>1, BooksHold, NeutralSelf, NeutralAdvance

(* The books are an inductive invariant of the undisturbed tracker.         *)
LEMMA StepAdvance ==
  ASSUME NEW x, Books(x), [Next]_vars, [Undisturbed]_vars, x => [SameTool]_vars
  PROVE  Advance(x) /\ Books(x)'
<1>1. Advance(x)
  <2>1. CASE UNCHANGED vars
    BY <2>1, StutterAdvance
  <2>2. CASE ~UNCHANGED vars
    BY <2>2, NextAdvance
  <2> QED
    BY <2>1, <2>2
<1>2. IInv'
  BY BooksHold, NextOK
<1>3. Ledger(m', x) /\ NoGhost'
  BY <1>1 DEF Advance, Booked
<1> QED
  BY <1>1, <1>2, <1>3 DEF Books

-----------------------------------------------------------------------------
(* The tracker where nothing comes between, and where, in addition, a frame *)
(* keeps its tool.                                                          *)
UndisturbedSpec == Spec /\ [][Undisturbed]_vars
SettledSpec == UndisturbedSpec /\ [][SameTool]_vars

(* No frame, task, work object, fork or worker keeps a context that has     *)
(* ended: through every hand-over and every order of closes, carrier_dec    *)
(* removes the entry of TOOL_CTX with the last carrier and not before.      *)
THEOREM NeverDeadCarrier == UndisturbedSpec => []NoDeadCarrier
<1>1. Init => Books(FALSE)
  BY InitBooks, Zenon
<1>2. Books(FALSE) /\ [Next]_vars /\ [Undisturbed]_vars => Books(FALSE)'
  BY StepAdvance, Zenon
<1>3. Books(FALSE) => NoDeadCarrier
  BY BooksImply, Zenon
<1> QED
  BY <1>1, <1>2, <1>3, PTL DEF UndisturbedSpec, Spec

(* TOOL_START, FRAME_END and CONTEXT_END are sent once each and in order,   *)
(* CONTEXT_END exactly when the context leaves TOOL_CTX.                    *)
THEOREM EventsAlwaysBracket == UndisturbedSpec => []EventBrackets
<1>1. Init => Books(FALSE)
  BY InitBooks, Zenon
<1>2. Books(FALSE) /\ [Next]_vars /\ [Undisturbed]_vars => Books(FALSE)'
  BY StepAdvance, Zenon
<1>3. Books(FALSE) => EventBrackets
  BY BooksImply, Zenon
<1> QED
  BY <1>1, <1>2, <1>3, PTL DEF UndisturbedSpec, Spec

(* carrier_count of every context is the number of frames, stack slots,     *)
(* work objects, forks and workers that carry it.                           *)
THEOREM CarriersAlwaysCounted == SettledSpec => []CarrierAccounting
<1>1. Init => Books(TRUE)
  BY InitBooks, Zenon
<1>2. Books(TRUE) /\ [Next]_vars /\ [Undisturbed]_vars /\ [SameTool]_vars => Books(TRUE)'
  BY StepAdvance, Zenon
<1>3. Books(TRUE) => CarrierAccounting
  <2> SUFFICES ASSUME Books(TRUE), NEW c \in CtxIds, ctx_is_live(m, c)
               PROVE  m.TOOL_CTX[c].carrier_count = Cardinality(carriers(m, c))
    BY DEF CarrierAccounting
  <2> QED
    BY BooksHold, CountsImply, Zenon
<1> QED
  BY <1>1, <1>2, <1>3, PTL DEF SettledSpec, UndisturbedSpec, Spec

(* A step of the books is a step of the life of every context.              *)
LEMMA LifeStep ==
  ASSUME NEW x, x = TRUE, Books(x), Advance(x)
  PROVE  Life!Next
<1>1. /\ m \in MapsType /\ Ledger(m, x)
      /\ m' \in MapsType /\ Ledger(m', x)
      /\ m.CTX_COUNTER <= m'.CTX_COUNTER
      /\ \A c \in CtxIds : ctx_is_live(m', c) /\ ~ctx_is_live(m, c) => c > m.CTX_COUNTER
  BY BooksHold, Zenon DEF Advance, Booked
<1>2. m.CTX_COUNTER \in Nat /\ m'.CTX_COUNTER \in Nat
  BY <1>1, MapsFields
<1> DEFINE live == {c \in CtxIds : ctx_is_live(m, c)}
           next == {c \in CtxIds : ctx_is_live(m', c)}
           held == [c \in CtxIds |-> carriers(m', c)]
<1>3. ASSUME NEW c \in CtxIds, ctx_is_live(m', c)
      PROVE  carriers(m', c) # {} /\ c <= m'.CTX_COUNTER
  BY <1>1, <1>3, CountsImply, Zenon DEF Ledger, LiveEntry
<1>4. ASSUME NEW c \in CtxIds, ~ctx_is_live(m', c)
      PROVE  carriers(m', c) = {}
  <2>1. EndedEntry(m', c)
    BY <1>1, <1>4 DEF Ledger
  <2>2. Others(m', c) = {} /\ ~Owned(m', c)
    BY <1>1, <2>1, EntryTypes, Zenon DEF EndedEntry
  <2> QED
    BY <1>1, <2>2, NoPlace
<1>5. \A c \in CtxIds : carriers(m', c) \in SUBSET Places
  BY DEF carriers
<1>6. ASSUME NEW c \in CtxIds
      PROVE  \/ c \notin live /\ c \in (m.CTX_COUNTER + 1)..m'.CTX_COUNTER /\ c \in next /\ held[c] # {}
             \/ c \in live /\ c \in next /\ held[c] # {}
             \/ c \in live /\ c \notin next /\ held[c] = {}
             \/ c \notin live /\ c \notin next /\ held[c] = {}
  <2>1. c \in Nat
    BY CtxNotNull
  <2>2. CASE ctx_is_live(m', c)
    <3>1. held[c] # {} /\ c <= m'.CTX_COUNTER /\ c \in next
      BY <1>3, <2>2
    <3>2. c \notin live => c > m.CTX_COUNTER
      BY <1>1, <2>2
    <3> HIDE DEF held, live, next
    <3>3. c \notin live => c \in (m.CTX_COUNTER + 1)..m'.CTX_COUNTER
      BY <1>2, <2>1, <3>1, <3>2
    <3> QED
      BY <3>1, <3>3
  <2>3. CASE ~ctx_is_live(m', c)
    BY <1>4, <2>3
  <2> QED
    BY <2>2, <2>3
<1>7. next \subseteq CtxIds /\ held \in [CtxIds -> SUBSET Places]
  BY <1>5
<1>8. \A c \in CtxIds : Life!Start(c) \/ Life!Pass(c) \/ Life!End(c) \/ Life!Absent(c)
  BY <1>6 DEF Life!Start, Life!Pass, Life!End, Life!Absent
<1> QED
  BY <1>1, <1>2, <1>7, <1>8 DEF Life!Next

(* The maps and probes of the tracker implement the life of a context: it   *)
(* is in TOOL_CTX exactly as long as something carries it, no id is given   *)
(* out twice, and no context comes back.                                    *)
THEOREM TrackerImplementsLife == SettledSpec => ImplementsContextLife
<1>1. Init => Books(TRUE) /\ Life!Init
  <2> SUFFICES ASSUME Init
               PROVE  Books(TRUE) /\ Life!Init
    OBVIOUS
  <2>1. Books(TRUE) /\ m.CTX_COUNTER = 0 /\ \A c \in CtxIds : ~ctx_is_live(m, c)
    BY InitBooks
  <2>2. NoDeadCarrier
    BY <2>1, BooksImply
  <2>3. \A c \in CtxIds : carriers(m, c) = {}
    BY <2>1, <2>2 DEF NoDeadCarrier
  <2> QED
    BY <2>1, <2>3 DEF Life!Init
<1>2. Books(TRUE) /\ [Next]_vars /\ [Undisturbed]_vars /\ [SameTool]_vars
        => Books(TRUE)' /\ [Life!Next]_Life!cvars
  BY StepAdvance, LifeStep
<1> QED
  BY <1>1, <1>2, PTL DEF SettledSpec, UndisturbedSpec, Spec, ImplementsContextLife, Life!Spec
=============================================================================
