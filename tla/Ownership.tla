----------------------------- MODULE Ownership -----------------------------
(***************************************************************************)
(* The kernel-side maps of IronScope (ironscope-ebpf/src/maps.rs) and the  *)
(* helpers of ownership.rs that every probe handler is made of.            *)
(*                                                                         *)
(* All maps live in one record, always called m.  An absent map entry is   *)
(* NULL (or TOOL_IDLE for a tool id); a map-plus-depth pair of maps, such  *)
(* as THREAD_CTX_STACK / THREAD_CTX_DEPTH, is one sequence whose last      *)
(* element is the top of the stack.  A helper that changes maps is an      *)
(* operator from the record to the new record, so a handler is the         *)
(* composition of its calls and an action of a specification is one whole  *)
(* handler: the GIL serialises the Python threads of a process, and a      *)
(* probe program runs to completion on the thread that hit it.             *)
(***************************************************************************)
EXTENDS Stacks

CONSTANTS
  Tids,      \* thread ids of the protected process
  Tasks,     \* addresses of asyncio Task objects
  Frames,    \* addresses of interpreter frames
  Objs,      \* addresses of BaseTool objects
  Types,     \* addresses of Python type objects
  ToolIds,   \* tool ids (hashes of tool names)
  Works,     \* addresses of _WorkItem and threading.Thread objects
  MaxCtx,    \* how many context ids a behaviour may allocate
  MaxDepth,  \* MAX_CTX_STACK_DEPTH = MAX_TASK_CTX_STACK_DEPTH (8 in the code)
  MaxRuns,   \* capacity of WORKER_RUN_STACK per thread (64 in the code)
  RingCap,   \* how many events RESOLVER_EVENTS holds
  NULL       \* an absent map entry, a null pointer, the context id 0

(* The tool id 0.                                                           *)
TOOL_IDLE == NULL

ASSUME BoundsAssumption == /\ MaxCtx \in Nat
                           /\ MaxDepth \in 1..8
                           /\ RingCap \in Nat
                           /\ MaxRuns \in Nat

CtxIds == 1..MaxCtx
Slots == 0..(MaxDepth - 1)

(* struct ToolCtx without its timestamps and generation: last_seen_ns is    *)
(* only ever compared with 0, and the flags are three Booleans of which     *)
(* RESOLVED decides nothing.                                                *)
ToolCtx == [tool_id : ToolIds \cup {TOOL_IDLE}, carrier_count : Nat \ {0},
            async : BOOLEAN, seen : BOOLEAN, resolver_error : BOOLEAN]

(* A parent pointer is a frame or the entry frame of a C call, numbered by  *)
(* nesting.                                                                 *)
ParentPtrs == Frames \cup (Nat \ {0})
ToolStackEntry == [ctx_id : CtxIds, frame_ptr : Frames,
                   parent_ptr : ParentPtrs, tool_id : ToolIds \cup {TOOL_IDLE}]
ToolObjCacheEntry == [tool_id : ToolIds, type_ptr : Types]
ResolverEvent == [failed : BOOLEAN, ctx_id : CtxIds \cup {NULL},
                  self_ptr : Objs, type_ptr : Types]
StepStash == [ctx : CtxIds \cup {NULL}, task : Tasks \cup {NULL}]

(* WorkItem and Thread objects carry a context in two separate maps.        *)
RunKinds == {"WORKITEM", "THREAD"}
WorkerRunEntry == [kind : RunKinds, frame_ptr : Frames, parent_ptr : ParentPtrs,
                   self_obj : Works, prev_ctx : CtxIds \cup {NULL}]
WorkerLocalCtx == [ctx_id : CtxIds, work_item : Works, prev_ctx : CtxIds \cup {NULL}]
PendingWorkerSpawn == [ctx_id : CtxIds, work_item : Works]

(* How often each lifecycle event was emitted for a context.                *)
EventCounts == [start : Nat, frame_end : Nat, context_end : Nat]

(* NULL is no address, id or record, and addresses are not numbers.         *)
ASSUME NullAssumption ==
  /\ NULL \notin Tids \cup Tasks \cup Frames \cup Objs \cup Types \cup ToolIds \cup Works
  /\ NULL \notin Nat
  /\ NULL \notin ToolCtx
  /\ NULL \notin ToolStackEntry
  /\ NULL \notin ToolObjCacheEntry
  /\ NULL \notin StepStash
  /\ NULL \notin WorkerLocalCtx
  /\ NULL \notin PendingWorkerSpawn

Stack(S) == {s \in Seq(S) : Len(s) <= MaxDepth}

MapsType ==
  [CTX_COUNTER : Nat,
   TOOL_CTX : [CtxIds -> ToolCtx \cup {NULL}],
   FRAME_CTX : [Frames -> CtxIds \cup {NULL}],
   THREAD_CTX_STACK : [Tids -> Stack(CtxIds)],
   THREAD_ACTIVE_CTX : [Tids -> CtxIds \cup {NULL}],
   THREAD_ACTIVE_TASK : [Tids -> Tasks \cup {NULL}],
   TASK_CTX : [Tasks -> CtxIds \cup {NULL}],
   TASK_CTX_STACK : [Tasks -> Stack(CtxIds)],
   TOOL_STACK : [Tids -> Stack(ToolStackEntry)],
   PENDING_TOOL_CLOSE : [Tasks -> [Slots -> ToolStackEntry \cup {NULL}]],
   FRAME_ENTRY_STASH : [Tids -> Seq(Frames)],
   TASK_STEP_STASH : [Tids -> StepStash \cup {NULL}],
   TOOL_OBJ : [Objs -> ToolObjCacheEntry \cup {NULL}],
   PENDING_TOOL_RESOLVE : SUBSET Objs,
   RESOLVER_EVENTS : Seq(ResolverEvent),
   WORK_CTX : [RunKinds -> [Works -> CtxIds \cup {NULL}]],
   WORKER_RUN_STACK : [Tids -> {s \in Seq(WorkerRunEntry) : Len(s) <= MaxRuns}],
   WORKER_RUN_CARRIER : [Works -> Tids \cup {NULL}],
   THREADPOOL_WORKER_CTX : [Tids -> WorkerLocalCtx \cup {NULL}],
   THREADPOOL_WORKITEM_THREAD : [Works -> Tids \cup {NULL}],
   PENDING_WORKER_SPAWN : [Tids -> PendingWorkerSpawn \cup {NULL}],
   FORK_CTX : [Tids -> CtxIds \cup {NULL}],
   PROTECTED_TGIDS : SUBSET Tids,
   events : [CtxIds -> EventCounts]]

(* Every map empty, but for the tool-object cache and the protected process *)
(* the arguments give.                                                      *)
EmptyMaps(cache, protected) ==
  [CTX_COUNTER |-> 0,
   TOOL_CTX |-> [c \in CtxIds |-> NULL],
   FRAME_CTX |-> [f \in Frames |-> NULL],
   THREAD_CTX_STACK |-> [t \in Tids |-> <<>>],
   THREAD_ACTIVE_CTX |-> [t \in Tids |-> NULL],
   THREAD_ACTIVE_TASK |-> [t \in Tids |-> NULL],
   TASK_CTX |-> [k \in Tasks |-> NULL],
   TASK_CTX_STACK |-> [k \in Tasks |-> <<>>],
   TOOL_STACK |-> [t \in Tids |-> <<>>],
   PENDING_TOOL_CLOSE |-> [k \in Tasks |-> [i \in Slots |-> NULL]],
   FRAME_ENTRY_STASH |-> [t \in Tids |-> <<>>],
   TASK_STEP_STASH |-> [t \in Tids |-> NULL],
   TOOL_OBJ |-> cache,
   PENDING_TOOL_RESOLVE |-> {},
   RESOLVER_EVENTS |-> <<>>,
   WORK_CTX |-> [k \in RunKinds |-> [w \in Works |-> NULL]],
   WORKER_RUN_STACK |-> [t \in Tids |-> <<>>],
   WORKER_RUN_CARRIER |-> [w \in Works |-> NULL],
   THREADPOOL_WORKER_CTX |-> [t \in Tids |-> NULL],
   THREADPOOL_WORKITEM_THREAD |-> [w \in Works |-> NULL],
   PENDING_WORKER_SPAWN |-> [t \in Tids |-> NULL],
   FORK_CTX |-> [t \in Tids |-> NULL],
   PROTECTED_TGIDS |-> protected,
   events |-> [c \in CtxIds |-> [start |-> 0, frame_end |-> 0, context_end |-> 0]]]

-----------------------------------------------------------------------------
(* Contexts and their carriers.                                             *)

ctx_is_live(m, c) == c # NULL /\ m.TOOL_CTX[c] # NULL

tool_of(m, c) == IF ctx_is_live(m, c) THEN m.TOOL_CTX[c].tool_id ELSE TOOL_IDLE

emit_start(m, c) == [m EXCEPT !.events[c].start = @ + 1]
emit_frame_end(m, c) == [m EXCEPT !.events[c].frame_end = @ + 1]

carrier_inc(m, c) ==
  IF ctx_is_live(m, c) THEN [m EXCEPT !.TOOL_CTX[c].carrier_count = @ + 1] ELSE m

(* Faulty variant: only the last decrement counts.                          *)
carrier_dec_last_only(m, c) ==
  IF ~ctx_is_live(m, c) \/ m.TOOL_CTX[c].carrier_count > 1 THEN m
  ELSE [m EXCEPT !.TOOL_CTX[c] = NULL, !.events[c].context_end = @ + 1]

carrier_dec(m, c) ==
  IF ~ctx_is_live(m, c) THEN m
  ELSE IF m.TOOL_CTX[c].carrier_count > 1
  THEN [m EXCEPT !.TOOL_CTX[c].carrier_count = @ - 1]
  ELSE [m EXCEPT !.TOOL_CTX[c] = NULL, !.events[c].context_end = @ + 1]

set_active(m, tid, c) == [m EXCEPT !.THREAD_ACTIVE_CTX[tid] = c]

(* get_active_ctx forgets an active context that has died: its value is the *)
(* THREAD_ACTIVE_CTX of the record below.                                   *)
get_active_ctx(m, tid) ==
  IF ctx_is_live(m, m.THREAD_ACTIVE_CTX[tid]) THEN m ELSE set_active(m, tid, NULL)

(* The per-CPU counter with the CPU number above it: a fresh id.            *)
alloc_ctx_id(m) == m.CTX_COUNTER + 1

(* What TASK_CTX and THREAD_ACTIVE_CTX are set to from a shortened stack.   *)
top_or_null(s) == IF s = <<>> THEN NULL ELSE Last(s)

-----------------------------------------------------------------------------
(* The per-thread context stack.                                            *)

(* Only the top is looked at: a dead top hides what is below it.            *)
ctx_stack_top(m, tid) ==
  LET c == top_or_null(m.THREAD_CTX_STACK[tid]) IN IF ctx_is_live(m, c) THEN c ELSE NULL

ctx_stack_contains(m, tid, c) ==
  Contains(m.THREAD_CTX_STACK[tid], c) /\ ctx_is_live(m, c)

ctx_stack_full(m, tid) == Len(m.THREAD_CTX_STACK[tid]) >= MaxDepth

ctx_stack_push(m, tid, c) ==
  IF ctx_stack_full(m, tid) THEN m
  ELSE [m EXCEPT !.THREAD_CTX_STACK[tid] = Append(@, c), !.THREAD_ACTIVE_CTX[tid] = c]

(* Faulty variant: the depth is not lowered.                                *)
ctx_stack_remove_keeps_depth(m, tid, c) ==
  IF ~Contains(m.THREAD_CTX_STACK[tid], c) THEN m
  ELSE [m EXCEPT !.THREAD_ACTIVE_CTX[tid] = top_or_null(RemoveFirst(m.THREAD_CTX_STACK[tid], c))]

ctx_stack_remove(m, tid, c) ==
  IF ~Contains(m.THREAD_CTX_STACK[tid], c) THEN m
  ELSE LET rest == RemoveFirst(m.THREAD_CTX_STACK[tid], c)
       IN  [m EXCEPT !.THREAD_CTX_STACK[tid] = rest,
                     !.THREAD_ACTIVE_CTX[tid] = top_or_null(rest)]

-----------------------------------------------------------------------------
(* The per-task context stack; TASK_CTX caches its top.                     *)

task_ctx_contains_tool(m, task, tool) ==
  /\ tool # TOOL_IDLE
  /\ \E i \in DOMAIN m.TASK_CTX_STACK[task] : tool_of(m, m.TASK_CTX_STACK[task][i]) = tool

(* Faulty variant: off by one.                                              *)
task_ctx_full_late(m, task) == Len(m.TASK_CTX_STACK[task]) > MaxDepth

task_ctx_full(m, task) == Len(m.TASK_CTX_STACK[task]) >= MaxDepth

(* Faulty variant: the task is no carrier.                                  *)
task_ctx_push_uncounted(m, tid, task, c) ==
  IF m.TASK_CTX[task] = c THEN set_active(m, tid, c)
  ELSE IF task_ctx_full(m, task) THEN m
  ELSE [m EXCEPT !.TASK_CTX_STACK[task] = Append(@, c), !.TASK_CTX[task] = c,
                 !.THREAD_ACTIVE_CTX[tid] = c]

task_ctx_push(m, tid, task, c) ==
  IF m.TASK_CTX[task] = c THEN set_active(m, tid, c)
  ELSE IF task_ctx_full(m, task) THEN m
  ELSE carrier_inc([m EXCEPT !.TASK_CTX_STACK[task] = Append(@, c),
                             !.TASK_CTX[task] = c,
                             !.THREAD_ACTIVE_CTX[tid] = c], c)

(* The Ok(()) of task_ctx_push.                                             *)
task_ctx_push_ok(m, task, c) == m.TASK_CTX[task] = c \/ ~task_ctx_full(m, task)

(* Faulty variant: TASK_CTX is left behind.                                 *)
task_ctx_remove_stale_top(m, tid, task, c) ==
  IF ~Contains(m.TASK_CTX_STACK[task], c) THEN m
  ELSE LET rest == RemoveFirst(m.TASK_CTX_STACK[task], c)
       IN  carrier_dec([m EXCEPT !.TASK_CTX_STACK[task] = rest,
                                 !.THREAD_ACTIVE_CTX[tid] = top_or_null(rest)], c)

task_ctx_remove(m, tid, task, c) ==
  IF ~Contains(m.TASK_CTX_STACK[task], c) THEN m
  ELSE LET rest == RemoveFirst(m.TASK_CTX_STACK[task], c)
       IN  carrier_dec([m EXCEPT !.TASK_CTX_STACK[task] = rest,
                                 !.TASK_CTX[task] = top_or_null(rest),
                                 !.THREAD_ACTIVE_CTX[tid] = top_or_null(rest)], c)

-----------------------------------------------------------------------------
(* The per-thread stack of running tool roots.  A find_* operator is the    *)
(* index of the first matching entry, 0 when there is none.                 *)

entry(c, f, parent, tool) ==
  [ctx_id |-> c, frame_ptr |-> f, parent_ptr |-> parent, tool_id |-> tool]

(* Silently drops the entry when the stack is full.                         *)
tool_stack_push(m, tid, e) ==
  IF Len(m.TOOL_STACK[tid]) >= MaxDepth THEN m
  ELSE [m EXCEPT !.TOOL_STACK[tid] = Append(@, e)]

find_ctx(m, tid, c) == SelectInSeq(m.TOOL_STACK[tid], LAMBDA e : e.ctx_id = c)

find_frame_ctx(m, tid, f, c) ==
  SelectInSeq(m.TOOL_STACK[tid], LAMBDA e : e.frame_ptr = f /\ e.ctx_id = c)

find_frame_parent(m, tid, f, parent) ==
  SelectInSeq(m.TOOL_STACK[tid], LAMBDA e : e.frame_ptr = f /\ e.parent_ptr = parent)

tool_stack_remove_at(m, tid, i) ==
  IF i = 0 THEN m ELSE [m EXCEPT !.TOOL_STACK[tid] = RemoveAt(@, i)]

tool_stack_refresh(m, tid, e) ==
  LET i == find_frame_ctx(m, tid, e.frame_ptr, e.ctx_id)
  IN  IF i = 0 THEN tool_stack_push(m, tid, e)
      ELSE [m EXCEPT !.TOOL_STACK[tid] = ReplaceAt(@, i, e)]

-----------------------------------------------------------------------------
(* Closing a tool root, at once or deferred on its task.                    *)

(* Faulty variant: does not ask whether the frame is still its own.         *)
finish_tool_close_unchecked(m, tid, e) ==
  carrier_dec(emit_frame_end(
    ctx_stack_remove([m EXCEPT !.FRAME_CTX[e.frame_ptr] = NULL], tid, e.ctx_id),
    e.ctx_id), e.ctx_id)

(* Faulty variant: the end of the frame is not reported.                    *)
finish_tool_close_silent(m, tid, e) ==
  IF m.FRAME_CTX[e.frame_ptr] # e.ctx_id THEN m
  ELSE carrier_dec(ctx_stack_remove([m EXCEPT !.FRAME_CTX[e.frame_ptr] = NULL], tid, e.ctx_id),
                   e.ctx_id)

(* Faulty variant: the frame keeps the context it carried.                  *)
finish_tool_close_keeps_frame(m, tid, e) ==
  IF m.FRAME_CTX[e.frame_ptr] # e.ctx_id THEN m
  ELSE carrier_dec(emit_frame_end(ctx_stack_remove(m, tid, e.ctx_id), e.ctx_id), e.ctx_id)

(* Releases the frame's carrier, if the frame still belongs to the entry.   *)
finish_tool_close(m, tid, e) ==
  IF m.FRAME_CTX[e.frame_ptr] # e.ctx_id THEN m
  ELSE carrier_dec(emit_frame_end(
         ctx_stack_remove([m EXCEPT !.FRAME_CTX[e.frame_ptr] = NULL], tid, e.ctx_id),
         e.ctx_id), e.ctx_id)

(* Parks the entry at the task's current depth, over whatever is there.     *)
defer_tool_close(m, task, e) ==
  LET depth == Len(m.TASK_CTX_STACK[task])
      slot == IF depth = 0 THEN 0 ELSE depth - 1
      parked == [m EXCEPT !.PENDING_TOOL_CLOSE[task][slot] = e]
  IN  IF ctx_is_live(m, e.ctx_id)
      THEN [parked EXCEPT !.TOOL_CTX[e.ctx_id].seen = TRUE] ELSE parked

(* Looks only below the task's current depth; the first match is removed.   *)
cancel_deferred_tool_close(m, task, c, f) ==
  LET hits == {i \in Slots : /\ i < Len(m.TASK_CTX_STACK[task])
                             /\ m.PENDING_TOOL_CLOSE[task][i] # NULL
                             /\ m.PENDING_TOOL_CLOSE[task][i].ctx_id = c
                             /\ m.PENDING_TOOL_CLOSE[task][i].frame_ptr = f}
  IN  IF hits = {} THEN m
      ELSE [m EXCEPT !.PENDING_TOOL_CLOSE[task][Min(hits)] = NULL]

pending_slots(m, task) == {i \in Slots : m.PENDING_TOOL_CLOSE[task][i] # NULL}

(* The highest parked entry of a live context, NULL when there is none.     *)
deferred_tool_ctx_for_worker(m, task) ==
  LET live == {i \in pending_slots(m, task) : ctx_is_live(m, m.PENDING_TOOL_CLOSE[task][i].ctx_id)}
  IN  IF live = {} THEN NULL ELSE m.PENDING_TOOL_CLOSE[task][Max(live)].ctx_id

(* The parked entry restore_deferred_tool_close takes: the highest slot.    *)
deferred_entry(m, task) == m.PENDING_TOOL_CLOSE[task][Max(pending_slots(m, task))]

(* Whether restore_deferred_tool_close returns a context, and what it does. *)
restore_deferred_ok(m, task) ==
  /\ pending_slots(m, task) # {}
  /\ ctx_is_live(m, deferred_entry(m, task).ctx_id)
  /\ task_ctx_push_ok(m, task, deferred_entry(m, task).ctx_id)

restore_deferred_tool_close(m, tid, task) ==
  IF pending_slots(m, task) = {} THEN m
  ELSE LET e == deferred_entry(m, task)
           taken == [m EXCEPT !.PENDING_TOOL_CLOSE[task][Max(pending_slots(m, task))] = NULL]
       IN  IF ~ctx_is_live(m, e.ctx_id) THEN taken
           ELSE task_ctx_push(tool_stack_push(taken, tid, e), tid, task, e.ctx_id)

(* Takes the entry out of a slot and finishes its close.                    *)
finish_pending(m, tid, task, i) ==
  finish_tool_close([m EXCEPT !.PENDING_TOOL_CLOSE[task][i] = NULL],
                    tid, m.PENDING_TOOL_CLOSE[task][i])

finish_deferred_tool_close_at_depth(m, tid, task, i, c) ==
  IF i \in pending_slots(m, task) /\ m.PENDING_TOOL_CLOSE[task][i].ctx_id = c
  THEN finish_pending(m, tid, task, i) ELSE m

(* Closes the tool root of a context on tid, if it has one.                 *)
close_root(m, tid, c) ==
  LET k == find_ctx(m, tid, c)
  IN  IF k = 0 THEN m
      ELSE finish_tool_close(tool_stack_remove_at(m, tid, k), tid, m.TOOL_STACK[tid][k])

(* One turn of the first loop of task_ctx_clear: the top of the task stack, *)
(* at depth i + 1, is released with its deferred close and its tool root.   *)
clear_top(m, tid, task, i) ==
  IF Len(m.TASK_CTX_STACK[task]) # i + 1 THEN m
  ELSE LET c == Last(m.TASK_CTX_STACK[task])
           m2 == close_root(finish_deferred_tool_close_at_depth(m, tid, task, i, c), tid, c)
       IN  carrier_dec([m2 EXCEPT !.TASK_CTX_STACK[task] = Front(@),
                                  !.PENDING_TOOL_CLOSE[task][i] = NULL], c)

(* One turn of its second loop, which finishes what is still parked.        *)
clear_slot(m, tid, task, i) ==
  IF i \in pending_slots(m, task) THEN finish_pending(m, tid, task, i) ELSE m

-----------------------------------------------------------------------------
(* The per-thread stash of entered frames; it has no bound of its own.      *)

frame_stash_push(m, tid, f) == [m EXCEPT !.FRAME_ENTRY_STASH[tid] = Append(@, f)]

frame_stash_pop(m, tid) ==
  IF m.FRAME_ENTRY_STASH[tid] = <<>> THEN m
  ELSE [m EXCEPT !.FRAME_ENTRY_STASH[tid] = Front(@)]

(* One turn of the loop of reap_thread over the stack of a thread that      *)
(* ends (lifecycle.rs).                                                     *)
reap_ctx(m, ctxs, i) ==
  IF i > Len(ctxs) THEN m ELSE carrier_dec(emit_frame_end(m, ctxs[i]), ctxs[i])

-----------------------------------------------------------------------------
(* The map entries that may hold a context: the frames it owns, its places  *)
(* on task stacks, the work objects and the threads that carry it.          *)
Places ==
       ({"frame"} \X Frames \X {0})
  \cup ({"task"} \X Tasks \X (1..MaxDepth))
  \cup ({"work"} \X Works \X RunKinds)
  \cup ({"fork", "pool"} \X Tids \X {0})

holds(m, p, c) ==
  \/ p[1] = "frame" /\ m.FRAME_CTX[p[2]] = c
  \/ p[1] = "task" /\ p[3] \in DOMAIN m.TASK_CTX_STACK[p[2]] /\ m.TASK_CTX_STACK[p[2]][p[3]] = c
  \/ p[1] = "work" /\ m.WORK_CTX[p[3]][p[2]] = c
  \/ p[1] = "fork" /\ m.FORK_CTX[p[2]] = c
  \/ /\ p[1] = "pool"
     /\ m.THREADPOOL_WORKER_CTX[p[2]] # NULL
     /\ m.THREADPOOL_WORKER_CTX[p[2]].ctx_id = c

(* What carries context c.                                                  *)
carriers(m, c) == {p \in Places : holds(m, p, c)}
=============================================================================
