----------------------------- MODULE Lifecycle -----------------------------
(***************************************************************************)
(* lifecycle.rs, fork_probes.rs and the part of lsm_hooks.rs that touches  *)
(* ownership: what happens to contexts when Python frees an object, when a *)
(* process or thread is made or ends, and when a guarded system call asks  *)
(* for the current context.                                                *)
(***************************************************************************)
EXTENDS FrameProbes, TaskProbes, WorkerProbes

(* The frame half and the worker half of an entry probe.                    *)
frame_entry(m, py, tid, f, tgid) ==
  handle_worker_frame(IF py.code[f].kind \in WorkKinds THEN m
                      ELSE handle_frame_entry(m, py, tid, f), py, tid, f, tgid)

(* The end probes: a worker run first, then the tool roots.                 *)
frame_exit(m, tid, parent) ==
  IF run_for_parent(m, tid, parent) # 0 THEN dispatch_exit_for_parent(m, tid, parent)
  ELSE handle_frame_exit(m, tid, parent)

-----------------------------------------------------------------------------
(* handle_pyobj_dealloc, by what lived at the freed address.                *)

(* A Task: only one that still carries a context is cleaned up.             *)
dealloc_task(m, tid, task) ==
  IF m.TASK_CTX[task] = NULL THEN m ELSE task_ctx_clear(m, tid, task)

(* A coroutine, whose frame f is embedded in it: the stacks of the freeing  *)
(* thread are cleaned, whichever thread the coroutine ran on.               *)
dealloc_frame(m, tid, f) ==
  LET c == m.FRAME_CTX[f]
      m1 == [m EXCEPT !.FRAME_CTX[f] = NULL]
      m2 == tool_stack_remove_at(m1, tid, find_frame_ctx(m1, tid, f, c))
  IN  IF c = NULL THEN m
      ELSE carrier_dec(emit_frame_end(ctx_stack_remove(m2, tid, c), c), c)

(* Faulty variant: the cache outlives the object.                           *)
dealloc_obj_keeps_cache(m, o) == [m EXCEPT !.PENDING_TOOL_RESOLVE = @ \ {o}]

(* A tool object loses its cached identity and its pending resolution.      *)
dealloc_obj(m, o) ==
  [m EXCEPT !.TOOL_OBJ[o] = NULL, !.PENDING_TOOL_RESOLVE = @ \ {o}]

(* Faulty variant: the object stays a carrier.                              *)
release_work_uncounted(m, kind, w) ==
  [finalize_worker_run_for_object(m, w) EXCEPT !.WORK_CTX[kind][w] = NULL]

(* Gives up the carrier of work object w in one of the two maps.            *)
release_work(m, kind, w) ==
  LET m1 == finalize_worker_run_for_object(m, w)
  IN  carrier_dec([m1 EXCEPT !.WORK_CTX[kind][w] = NULL], m.WORK_CTX[kind][w])

dealloc_work(m, tid, w) ==
  LET m1 == clear_threadpool_worker_for_object(m, tid, w)
  IN  IF m1.WORK_CTX["WORKITEM"][w] # NULL THEN release_work(m1, "WORKITEM", w)
      ELSE IF m1.WORK_CTX["THREAD"][w] # NULL THEN release_work(m1, "THREAD", w)
      ELSE m1

(* Objects of a process that is not protected are not looked at.            *)
handle_pyobj_dealloc(m, tid, p, tgid) ==
  IF tgid \notin m.PROTECTED_TGIDS THEN m
  ELSE CASE p \in Tasks -> dealloc_task(m, tid, p)
         [] p \in Frames -> dealloc_frame(m, tid, p)
         [] p \in Objs -> dealloc_obj(m, p)
         [] p \in Works -> dealloc_work(m, tid, p)

-----------------------------------------------------------------------------
(* Faulty variant: only the innermost tool of a thread that ends is closed. *)
reap_stack_top(m, tid) ==
  reap_ctx(m, m.THREAD_CTX_STACK[tid], Len(m.THREAD_CTX_STACK[tid]))

(* The contexts on the stack of a thread that ends lose one carrier each;   *)
(* their FRAME_CTX entries stay.                                            *)
reap_stack(m, tid) ==
  LET R(r, i) == reap_ctx(r, m.THREAD_CTX_STACK[tid], i)
  IN  R(R(R(R(R(R(R(R(m, 1), 2), 3), 4), 5), 6), 7), 8)

(* An inherited context is only given up when the stack is empty.           *)
reap_carriers(m, tid) ==
  IF m.THREAD_CTX_STACK[tid] # <<>> THEN reap_stack(m, tid)
  ELSE IF m.FORK_CTX[tid] = NULL THEN m
  ELSE carrier_dec([m EXCEPT !.FORK_CTX[tid] = NULL], m.FORK_CTX[tid])

reap_entries(m, tid) ==
  [m EXCEPT !.THREAD_CTX_STACK[tid] = <<>>, !.THREAD_ACTIVE_CTX[tid] = NULL,
            !.THREAD_ACTIVE_TASK[tid] = NULL, !.PENDING_WORKER_SPAWN[tid] = NULL]

clear_threadpool_worker_for_thread(m, tid) ==
  IF m.THREADPOOL_WORKER_CTX[tid] = NULL THEN m ELSE clear_threadpool_worker_ctx(m, tid)

reap_stashes(m, tid) ==
  [m EXCEPT !.FRAME_ENTRY_STASH[tid] = <<>>, !.TASK_STEP_STASH[tid] = NULL]

(* A thread ends.                                                           *)
reap_thread(m, tid) ==
  LET given == reap_entries(reap_carriers(m, tid), tid)
  IN  clear_worker_runs_for_thread(
        reap_stashes(clear_threadpool_worker_for_thread(given, tid), tid), tid)

(* sched_process_exit: the process is unprotected when its main thread ends. *)
handle_sched_exit(m, tid, tgid) ==
  [reap_thread(m, tid) EXCEPT !.PROTECTED_TGIDS = IF tid = tgid THEN @ \ {tgid} ELSE @]

(* The context a new thread or process inherits.  One that belongs to an    *)
(* async tool is not inherited outside of a worker run; a thread started    *)
(* for a work item takes the work item's context.                           *)
inherited_ctx(m, tid) ==
  LET c == m.THREAD_ACTIVE_CTX[tid]
      p == m.PENDING_WORKER_SPAWN[tid]
  IN  IF c # NULL /\ ~(m.TOOL_CTX[c].async /\ m.WORKER_RUN_STACK[tid] = <<>>) THEN c
      ELSE IF p = NULL THEN NULL
      ELSE IF m.WORK_CTX["WORKITEM"][p.work_item] = p.ctx_id /\ ctx_is_live(m, p.ctx_id)
      THEN p.ctx_id ELSE NULL

(* Whether the inherited context comes from PENDING_WORKER_SPAWN.           *)
spawn_taken(m, tid) ==
  LET c == m.THREAD_ACTIVE_CTX[tid]
  IN  /\ c = NULL \/ (m.TOOL_CTX[c].async /\ m.WORKER_RUN_STACK[tid] = <<>>)
      /\ inherited_ctx(m, tid) # NULL

(* Faulty variant: the child is no carrier.                                 *)
handle_sched_fork_uncounted(m, tid, tgid, child, child_tgid, all) ==
  LET act == get_active_ctx(m, tid)
      c == inherited_ctx(act, tid)
  IN  IF c = NULL THEN act
      ELSE [act EXCEPT !.PROTECTED_TGIDS = @ \cup {child_tgid},
                       !.THREAD_ACTIVE_CTX[child] = c, !.FORK_CTX[child] = c]

(* Faulty variant: protects every child of a protected process.             *)
handle_sched_fork_protects_all(m, tid, tgid, child, child_tgid, all) ==
  LET act == get_active_ctx(m, tid)
      c == inherited_ctx(act, tid)
      m1 == IF tgid \in m.PROTECTED_TGIDS
            THEN [act EXCEPT !.PROTECTED_TGIDS = @ \cup {child_tgid}] ELSE act
  IN  IF c = NULL THEN m1
      ELSE carrier_inc([m1 EXCEPT !.THREAD_ACTIVE_CTX[child] = c, !.FORK_CTX[child] = c], c)

(* Faulty variant: the child is given the outermost tool of the thread.     *)
handle_sched_fork_outermost(m, tid, tgid, child, child_tgid, all) ==
  LET c == IF m.THREAD_CTX_STACK[tid] = <<>> THEN NULL ELSE m.THREAD_CTX_STACK[tid][1]
      m1 == [m EXCEPT !.PROTECTED_TGIDS = @ \cup {child_tgid}]
  IN  IF c = NULL THEN m
      ELSE carrier_inc([m1 EXCEPT !.THREAD_ACTIVE_CTX[child] = c, !.FORK_CTX[child] = c], c)

(* Faulty variant: an idle child is left alone, whatever the scope.         *)
handle_sched_fork_tools_only(m, tid, tgid, child, child_tgid, all) ==
  LET act == get_active_ctx(m, tid)
      c == inherited_ctx(act, tid)
      m1 == [act EXCEPT !.PROTECTED_TGIDS = @ \cup {child_tgid}]
  IN  IF c = NULL THEN act
      ELSE carrier_inc([m1 EXCEPT !.THREAD_ACTIVE_CTX[child] = c, !.FORK_CTX[child] = c], c)

(* all is child_scope = CHILD_SCOPE_ALL.                                    *)
handle_sched_fork(m, tid, tgid, child, child_tgid, all) ==
  LET act == get_active_ctx(m, tid)
      c == inherited_ctx(act, tid)
      m1 == IF spawn_taken(act, tid) THEN [act EXCEPT !.PENDING_WORKER_SPAWN[tid] = NULL] ELSE act
      m2 == [m1 EXCEPT !.PROTECTED_TGIDS = @ \cup {child_tgid}]
  IN  IF c = NULL
      THEN IF tgid \in m.PROTECTED_TGIDS /\ all THEN m2 ELSE m1
      ELSE carrier_inc([m2 EXCEPT !.THREAD_ACTIVE_CTX[child] = c, !.FORK_CTX[child] = c], c)

-----------------------------------------------------------------------------
(* The context a hook decides for or reports: resolve_ctx, then             *)
(* mark_ctx_seen.                                                           *)
resolve_ctx(m, py, tid) == get_active_ctx(refresh_threadpool_worker_context(m, py, tid), tid)

mark_ctx_seen(m, tid) ==
  LET c == m.THREAD_ACTIVE_CTX[tid]
  IN  IF c = NULL THEN m ELSE [m EXCEPT !.TOOL_CTX[c].seen = TRUE]

(* An LSM hook ignores a thread that is neither in a protected process nor in a  *)
(* context (is_protected_subject).                                          *)
guard_hook(m, py, tid, tgid) ==
  LET act == get_active_ctx(m, tid)
  IN  IF tgid \notin m.PROTECTED_TGIDS /\ act.THREAD_ACTIVE_CTX[tid] = NULL THEN act
      ELSE mark_ctx_seen(resolve_ctx(act, py, tid), tid)

(* A fallback monitor, attached where the LSM hooks are not, asks no such   *)
(* question.                                                                *)
fentry_hook(m, py, tid) == mark_ctx_seen(resolve_ctx(m, py, tid), tid)
=============================================================================
