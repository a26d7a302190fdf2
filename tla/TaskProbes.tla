----------------------------- MODULE TaskProbes -----------------------------
(***************************************************************************)
(* task_probes.rs: creation of an asyncio Task, and entry and return of a  *)
(* step of one.                                                            *)
(***************************************************************************)
EXTENDS TaskClear

(* A task made inside a tool carries the tool's context; a parent that      *)
(* carries other contexts below it hands this one over.                     *)
handle_task_init(m, tid, task) ==
  LET act == get_active_ctx(m, tid)
      c == act.THREAD_ACTIVE_CTX[tid]
      parent == act.THREAD_ACTIVE_TASK[tid]
      hands_over == /\ parent # NULL
                    /\ parent # task
                    /\ act.TASK_CTX[parent] = c
                    /\ Len(act.TASK_CTX_STACK[parent]) > 1
  IN  IF c = NULL THEN act
      ELSE task_ctx_push(IF hands_over THEN task_ctx_remove(act, tid, parent, c) ELSE act,
                         tid, task, c)

(* The context a step of the task runs under.                               *)
activate_task(m, tid, task) ==
  LET c == m.TASK_CTX[task]
      top == ctx_stack_top(m, tid)
  IN  IF c # NULL
      THEN IF ~ctx_is_live(m, c) THEN set_active(task_ctx_clear(m, tid, task), tid, NULL)
           ELSE set_active(m, tid, IF ctx_stack_contains(m, tid, c) \/ top = NULL THEN c ELSE top)
      ELSE set_active(restore_deferred_tool_close(m, tid, task), tid,
                      IF restore_deferred_ok(m, task) THEN deferred_entry(m, task).ctx_id ELSE NULL)

(* The thread's active context and task are kept in one slot per thread.    *)
handle_task_step_entry(m, tid, task) ==
  LET act == get_active_ctx(m, tid)
  IN  activate_task([act EXCEPT !.TASK_STEP_STASH[tid] =
                                    [ctx |-> act.THREAD_ACTIVE_CTX[tid],
                                     task |-> act.THREAD_ACTIVE_TASK[tid]],
                                !.THREAD_ACTIVE_TASK[tid] = task], tid, task)

(* What the thread goes back to when a step returns.                        *)
restore_step(m, tid) ==
  LET stash == m.TASK_STEP_STASH[tid]
      prev_ctx == IF stash = NULL THEN NULL ELSE stash.ctx
      prev_task == IF stash = NULL THEN NULL ELSE stash.task
      restore == IF prev_ctx # NULL /\ ctx_stack_contains(m, tid, prev_ctx)
                 THEN prev_ctx ELSE ctx_stack_top(m, tid)
  IN  [m EXCEPT !.THREAD_ACTIVE_CTX[tid] = restore,
                !.THREAD_ACTIVE_TASK[tid] = prev_task,
                !.TASK_STEP_STASH[tid] = NULL]

(* The task is the one the maps call active; done is the set of tasks whose *)
(* task_state is at least 1.                                                *)
handle_task_step_return(m, tid, done) ==
  LET task == m.THREAD_ACTIVE_TASK[tid]
  IN  IF task = NULL THEN m
      ELSE restore_step(IF task \in done THEN task_ctx_clear(m, tid, task) ELSE m, tid)
=============================================================================
