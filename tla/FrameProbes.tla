---------------------------- MODULE FrameProbes ----------------------------
(***************************************************************************)
(* frame_probes.rs: the entry, resume and exit probes of the interpreter   *)
(* loop, which start, re-enter and close tool contexts.                    *)
(***************************************************************************)
EXTENDS ToolIdentity

(* Allocates a context for frame f and makes the frame its first carrier.   *)
new_ctx(m, f, tool, async) ==
  LET c == alloc_ctx_id(m)
  IN  [m EXCEPT !.CTX_COUNTER = c, !.FRAME_CTX[f] = c,
                !.TOOL_CTX[c] = [tool_id |-> tool, carrier_count |-> 1, async |-> async,
                                 seen |-> FALSE, resolver_error |-> FALSE]]

(* Takes the allocation back: no CONTEXT_END is emitted.                    *)
drop_ctx(m, f, c) == [m EXCEPT !.FRAME_CTX[f] = NULL, !.TOOL_CTX[c] = NULL]

(* The two "if let Some(&task_ptr) ... if task_ptr != 0" pushes.            *)
push_on_active_task(m, tid, c) ==
  LET task == m.THREAD_ACTIVE_TASK[tid]
  IN  IF task = NULL THEN m ELSE task_ctx_push(m, tid, task, c)

(* Registers a context as running on its thread and, if any, its task.      *)
begin_tool(m, tid, f, parent, c) ==
  push_on_active_task(
    emit_start(tool_stack_push(m, tid, entry(c, f, parent, tool_of(m, c))), c), tid, c)

start_cached_self_tool_root(m, tid, f, parent, tool, async) ==
  IF tool = TOOL_IDLE THEN m
  ELSE LET c == alloc_ctx_id(m)
           m1 == new_ctx(m, f, tool, async)
       IN  IF ctx_stack_full(m, tid) THEN drop_ctx(m1, f, c)
           ELSE begin_tool(ctx_stack_push(m1, tid, c), tid, f, parent, c)

(* An implementation frame whose tool has become known since it was entered *)
(* gets its context when it calls another implementation frame.             *)
start_cached_parent_tool_if_needed(m, py, tid, parent) ==
  IF \/ parent \notin Frames
     \/ m.FRAME_CTX[parent] # NULL
     \/ py.code[parent].kind # IMPL
     \/ cached_frame_self_tool_id(m, py, parent) = TOOL_IDLE
  THEN m
  ELSE start_cached_self_tool_root(frame_stash_push(m, tid, parent), tid, parent,
         py.prev[parent], cached_frame_self_tool_id(m, py, parent), py.code[parent].async)

(* Faulty variant: the task keeps its carrier when the close is parked.     *)
close_tool_stack_entry_keeps_carrier(m, tid, e) ==
  LET task == m.THREAD_ACTIVE_TASK[tid]
  IN  IF m.FRAME_CTX[e.frame_ptr] # e.ctx_id THEN m
      ELSE IF task = NULL \/ ~m.TOOL_CTX[e.ctx_id].async THEN finish_tool_close(m, tid, e)
      ELSE defer_tool_close(m, task, e)

(* An async tool that returns inside a task is not closed: the close is     *)
(* parked on the task, which gives up its carrier.                          *)
close_tool_stack_entry(m, tid, e) ==
  LET task == m.THREAD_ACTIVE_TASK[tid]
      parks == ctx_is_live(m, e.ctx_id) /\ m.TOOL_CTX[e.ctx_id].async /\ e.tool_id # TOOL_IDLE
  IN  IF m.FRAME_CTX[e.frame_ptr] # e.ctx_id THEN m
      ELSE IF task = NULL THEN finish_tool_close(m, tid, e)
      ELSE IF parks THEN task_ctx_remove(defer_tool_close(m, task, e), tid, task, e.ctx_id)
      ELSE finish_tool_close(task_ctx_remove(m, tid, task, e.ctx_id), tid, e)

(* Removes the TOOL_STACK entry at index i, which exists, and closes it.    *)
close_at(m, tid, i) ==
  close_tool_stack_entry(tool_stack_remove_at(m, tid, i), tid, m.TOOL_STACK[tid][i])

(* Ends the context of a frame that has no TOOL_STACK entry.                *)
end_frame_ctx(m, tid, f, c) ==
  carrier_dec(emit_frame_end(
    ctx_stack_remove([m EXCEPT !.FRAME_CTX[f] = NULL], tid, c), c), c)

(* A frame that has a context is entered again.                             *)
reenter(m, tid, f, parent, c) ==
  LET task == m.THREAD_ACTIVE_TASK[tid]
      m1 == set_active(tool_stack_refresh(m, tid, entry(c, f, parent, tool_of(m, c))), tid, c)
  IN  IF task = NULL THEN m1
      ELSE task_ctx_push(cancel_deferred_tool_close(m1, task, c, f), tid, task, c)

-----------------------------------------------------------------------------
(* handle_tool_frame_entry_for_ptr_inner, by kind of code.  The branches    *)
(* for PENDING_FRAME_TOOL and TOOL_CTX_FLAG_PENDING_START are left out:     *)
(* nothing in the source ever sets either.                                  *)

(* An implementation frame of a tool, once the tool was looked up.          *)
enter_impl(m, py, tid, f, tool) ==
  LET c == m.FRAME_CTX[f]
      Start(r) == start_cached_self_tool_root(frame_stash_push(r, tid, f), tid, f,
                                              py.prev[f], tool, py.code[f].async)
      i == find_frame_ctx(m, tid, f, c)
      act == get_active_ctx(m, tid)
  IN  IF c # NULL
      THEN IF tool # TOOL_IDLE /\ tool # tool_of(m, c)
           THEN Start(IF i = 0 THEN m ELSE close_at(m, tid, i))
           ELSE reenter(m, tid, f, py.prev[f], c)
      ELSE IF tool = TOOL_IDLE THEN m
      ELSE IF tool_of(act, act.THREAD_ACTIVE_CTX[tid]) = tool THEN act
      ELSE Start(act)

resolve_impl(m, py, tid, f) ==
  LET tool == cached_frame_self_tool_id(m, py, f)
  IN  enter_impl(IF tool = TOOL_IDLE THEN emit_frame_self_resolver_candidate(m, py, f) ELSE m,
                 py, tid, f, tool)

(* CODE_KIND_IGNORE with a ._run or ._arun name.                            *)
impl_frame_entry(m, py, tid, f) ==
  resolve_impl(start_cached_parent_tool_if_needed(m, py, tid, py.prev[f]), py, tid, f)

(* CODE_KIND_TOOL_ROOT_LC: the context exists before its tool is known.  Of *)
(* the three duplicate tests only the task's can succeed, because the new   *)
(* context is the active one when they run.                                 *)
start_root_lc(m, py, tid, f) ==
  LET c == alloc_ctx_id(m)
      task == m.THREAD_ACTIVE_TASK[tid]
      m1 == new_ctx(m, f, TOOL_IDLE, py.code[f].async)
      m2 == extract_and_resolve(ctx_stack_push(m1, tid, c), py, f, c)
  IN  IF ctx_stack_full(m, tid) THEN drop_ctx(m1, f, c)
      ELSE IF task # NULL /\ task_ctx_contains_tool(m2, task, tool_of(m2, c))
      THEN drop_ctx(ctx_stack_remove(m2, tid, c), f, c)
      ELSE begin_tool(m2, tid, f, py.prev[f], c)

(* CODE_KIND_TOOL_ROOT_LG: neither TOOL_STACK nor the task learns of it.    *)
start_root_lg(m, py, tid, f) ==
  LET c == alloc_ctx_id(m)
      m1 == new_ctx(m, f, TOOL_IDLE, py.code[f].async)
  IN  IF ctx_stack_full(m, tid) THEN drop_ctx(m1, f, c)
      ELSE emit_start(ctx_stack_push(m1, tid, c), c)

(* CODE_KIND_TOOL_ID_RULE: a name for the context that is running.          *)
apply_id_rule(m, py, tid, f) ==
  LET act == get_active_ctx(m, tid)
      c == act.THREAD_ACTIVE_CTX[tid]
  IN  IF c = NULL THEN act ELSE extract_and_resolve(act, py, f, c)

start_root(m, py, tid, f) ==
  LET kind == py.code[f].kind
      stashed == frame_stash_push(m, tid, f)
  IN  CASE kind = LC -> start_root_lc(stashed, py, tid, f)
        [] kind = LG -> start_root_lg(stashed, py, tid, f)
        [] kind = ID -> apply_id_rule(stashed, py, tid, f)
        [] OTHER -> stashed

(* The rest of the handler: re-entry of a known frame, else a new root.     *)
root_frame_entry(m, py, tid, f) ==
  LET c == m.FRAME_CTX[f]
      tool == cached_frame_self_tool_id(m, py, f)
      i == find_frame_ctx(m, tid, f, c)
  IN  IF c = NULL THEN start_root(m, py, tid, f)
      ELSE IF tool = TOOL_IDLE \/ tool = tool_of(m, c)
      THEN reenter(m, tid, f, py.prev[f], c)
      ELSE start_root(IF i = 0 THEN end_frame_ctx(m, tid, f, c) ELSE close_at(m, tid, i),
                      py, tid, f)

handle_frame_entry(m, py, tid, f) ==
  CASE py.code[f].kind = PLAIN -> m
    [] py.code[f].kind = IMPL -> impl_frame_entry(m, py, tid, f)
    [] OTHER -> root_frame_entry(m, py, tid, f)

(* The first entry of a coroutine function only builds the coroutine object *)
(* (frame_owner = 0): its tool is looked up, no context is made.            *)
handle_coroutine_creation(m, py, f) ==
  IF py.code[f].kind = LC THEN extract_and_resolve(m, py, f, NULL) ELSE m

-----------------------------------------------------------------------------
(* The exit probes fire on every return of every Python frame of the        *)
(* process and do not know which frame died, only its parent.               *)

handle_frame_exit_legacy(m, tid) ==
  LET f == Last(m.FRAME_ENTRY_STASH[tid])
      m1 == frame_stash_pop(m, tid)
      c == m.FRAME_CTX[f]
      i == find_frame_ctx(m1, tid, f, c)
  IN  IF m.FRAME_ENTRY_STASH[tid] = <<>> THEN m
      ELSE IF c = NULL THEN m1
      ELSE IF ctx_is_live(m, c) /\ ~m.TOOL_CTX[c].seen THEN m
      ELSE IF i # 0 THEN close_at(m1, tid, i)
      ELSE end_frame_ctx(m1, tid, f, c)

handle_frame_exit(m, tid, parent) ==
  LET f == Last(m.FRAME_ENTRY_STASH[tid])
      i == find_frame_parent(m, tid, f, parent)
  IN  IF m.FRAME_ENTRY_STASH[tid] # <<>> /\ i # 0
      THEN close_at(frame_stash_pop(m, tid), tid, i)
      ELSE handle_frame_exit_legacy(m, tid)
=============================================================================
