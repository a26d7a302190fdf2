---------------------------- MODULE WorkerProbes ----------------------------
(***************************************************************************)
(* worker_probes.rs: contexts carried into worker threads by thread-pool   *)
(* work items and threading.Thread objects.  WORK_CTX["WORKITEM"] and      *)
(* WORK_CTX["THREAD"] are the maps WORKITEM_CTX and PYTHREAD_OBJ_CTX.      *)
(***************************************************************************)
EXTENDS ToolIdentity, TaskClear

(* The object becomes a carrier of the running context, unless it carries   *)
(* one or the thread only inherited its context.                            *)
carry_active(m, tid, kind, w) ==
  LET c == m.THREAD_ACTIVE_CTX[tid]
      only_inherited == m.THREAD_CTX_STACK[tid] = <<>> /\ m.WORKER_RUN_STACK[tid] = <<>>
  IN  IF c = NULL \/ only_inherited \/ m.WORK_CTX[kind][w] # NULL THEN m
      ELSE carrier_inc([m EXCEPT !.WORK_CTX[kind][w] = c], c)

(* A work item takes over a context whose close is parked on its task, and  *)
(* the close is finished.                                                   *)
carry_deferred(m, tid, task, w, c) ==
  LET old == m.WORK_CTX["WORKITEM"][w]
      bound == carrier_inc([carrier_dec(m, old) EXCEPT
                              !.WORK_CTX["WORKITEM"][w] = c,
                              !.PENDING_WORKER_SPAWN[tid] = [ctx_id |-> c, work_item |-> w]], c)
  IN  finish_deferred_tool_close(IF old = c THEN m ELSE bound, tid, task, c)

(* The constructor of a work item or of a Thread.                           *)
handle_ctor_entry(m, tid, kind, w) ==
  LET task == m.THREAD_ACTIVE_TASK[tid]
      deferred == IF kind = "WORKITEM" /\ task # NULL
                  THEN deferred_tool_ctx_for_worker(m, task) ELSE NULL
  IN  IF deferred = NULL THEN carry_active(get_active_ctx(m, tid), tid, kind, w)
      ELSE carry_deferred(m, tid, task, w, deferred)

(* Faulty variant: the context is not made active.                          *)
handle_run_entry_passive(m, py, tid, kind, f) ==
  LET w == py.code[f].self
  IN  IF m.WORK_CTX[kind][w] = NULL THEN m
      ELSE [m EXCEPT !.WORKER_RUN_STACK[tid] =
                         Append(@, [kind |-> kind, frame_ptr |-> f, parent_ptr |-> py.prev[f],
                                    self_obj |-> w, prev_ctx |-> m.THREAD_ACTIVE_CTX[tid]]),
                     !.WORKER_RUN_CARRIER[w] = tid]

(* Faulty variant: a second probe of the same entry records the run again.  *)
handle_run_entry_twice(m, py, tid, kind, f) ==
  LET w == py.code[f].self
  IN  IF m.WORK_CTX[kind][w] = NULL \/ Len(m.WORKER_RUN_STACK[tid]) >= MaxRuns THEN m
      ELSE [m EXCEPT !.WORKER_RUN_STACK[tid] =
                         Append(@, [kind |-> kind, frame_ptr |-> f, parent_ptr |-> py.prev[f],
                                    self_obj |-> w, prev_ctx |-> m.THREAD_ACTIVE_CTX[tid]]),
                     !.THREAD_ACTIVE_CTX[tid] = m.WORK_CTX[kind][w],
                     !.WORKER_RUN_CARRIER[w] = tid]

(* A work item or Thread starts to run on tid.                              *)
handle_run_entry(m, py, tid, kind, f) ==
  LET w == py.code[f].self
      c == m.WORK_CTX[kind][w]
      act == get_active_ctx(m, tid)
      inherited == act.FORK_CTX[tid] = c
      m1 == IF inherited THEN carrier_dec([act EXCEPT !.FORK_CTX[tid] = NULL], c) ELSE act
      run == [kind |-> kind, frame_ptr |-> f, parent_ptr |-> py.prev[f], self_obj |-> w,
              prev_ctx |-> IF inherited THEN NULL ELSE act.THREAD_ACTIVE_CTX[tid]]
      runs == m1.WORKER_RUN_STACK[tid]
      again == /\ runs # <<>>
               /\ Last(runs).kind = kind
               /\ Last(runs).frame_ptr = f
               /\ Last(runs).self_obj = w
  IN  IF c = NULL THEN m
      ELSE IF again THEN set_active(m1, tid, c)
      ELSE [m1 EXCEPT !.WORKER_RUN_STACK[tid] = IF Len(@) >= MaxRuns THEN @ ELSE Append(@, run),
                      !.THREAD_ACTIVE_CTX[tid] = c,
                      !.WORKER_RUN_CARRIER[w] = tid]

(* The worker half of every frame-entry probe; it needs a protected process. *)
handle_worker_frame(m, py, tid, f, tgid) ==
  LET code == py.code[f]
  IN  IF tgid \notin m.PROTECTED_TGIDS THEN m
      ELSE CASE code.kind = WORKITEM_CTOR -> handle_ctor_entry(m, tid, "WORKITEM", code.self)
             [] code.kind = THREAD_CTOR -> handle_ctor_entry(m, tid, "THREAD", code.self)
             [] code.kind = WORKITEM_RUN -> handle_run_entry(m, py, tid, "WORKITEM", f)
             [] code.kind = THREAD_RUN -> handle_run_entry(m, py, tid, "THREAD", f)
             [] OTHER -> m

-----------------------------------------------------------------------------
(* worker_stack_pop_for_parent looks at the top entry and the one below it. *)
run_for_parent(m, tid, parent) ==
  LET runs == m.WORKER_RUN_STACK[tid]
      n == Len(runs)
  IN  IF n >= 1 /\ runs[n].parent_ptr = parent THEN n
      ELSE IF n >= 2 /\ runs[n - 1].parent_ptr = parent THEN n - 1 ELSE 0

(* Faulty variant: the context before the run is not put back.              *)
dispatch_exit_for_parent_stays(m, tid, parent) ==
  LET i == run_for_parent(m, tid, parent)
      run == m.WORKER_RUN_STACK[tid][i]
      c == m.WORK_CTX[run.kind][run.self_obj]
      m1 == [m EXCEPT !.WORKER_RUN_STACK[tid] = RemoveAt(@, i)]
  IN  IF c = NULL THEN m1
      ELSE carrier_dec([m1 EXCEPT !.WORKER_RUN_CARRIER[run.self_obj] = NULL,
                                  !.WORK_CTX[run.kind][run.self_obj] = NULL], c)

(* What an exit probe does when run_for_parent finds a run; prev_ctx is put *)
(* back without asking whether it is still alive.                           *)
dispatch_exit_for_parent(m, tid, parent) ==
  LET i == run_for_parent(m, tid, parent)
      run == m.WORKER_RUN_STACK[tid][i]
      c == m.WORK_CTX[run.kind][run.self_obj]
      m1 == [m EXCEPT !.WORKER_RUN_STACK[tid] = RemoveAt(@, i)]
      m2 == IF c = NULL THEN m1
            ELSE carrier_dec([m1 EXCEPT !.WORKER_RUN_CARRIER[run.self_obj] = NULL,
                                        !.WORK_CTX[run.kind][run.self_obj] = NULL], c)
  IN  set_active(m2, tid, run.prev_ctx)

-----------------------------------------------------------------------------
(* A pool thread that runs a work item outside of _WorkItem.run is found by *)
(* looking for a mapped work item in its frame chain.                       *)

clear_threadpool_worker_ctx(m, tid) ==
  LET e == m.THREADPOOL_WORKER_CTX[tid]
      m1 == get_active_ctx([m EXCEPT !.THREADPOOL_WORKER_CTX[tid] = NULL,
                                     !.THREADPOOL_WORKITEM_THREAD[e.work_item] = NULL], tid)
      m2 == IF m1.THREAD_ACTIVE_CTX[tid] = e.ctx_id THEN set_active(m1, tid, e.prev_ctx) ELSE m1
  IN  carrier_dec(m2, e.ctx_id)

(* tid is the thread that frees the object, not always the one that ran it. *)
clear_threadpool_worker_for_object(m, tid, w) ==
  LET Holds(t) == m.THREADPOOL_WORKER_CTX[t] # NULL /\ m.THREADPOOL_WORKER_CTX[t].work_item = w
      owner == m.THREADPOOL_WORKITEM_THREAD[w]
  IN  IF Holds(tid) THEN clear_threadpool_worker_ctx(m, tid)
      ELSE IF owner = NULL THEN m
      ELSE IF Holds(owner) THEN clear_threadpool_worker_ctx(m, owner)
      ELSE [m EXCEPT !.THREADPOOL_WORKITEM_THREAD[w] = NULL]

(* The mapped work item frame f gives away: its self while it is            *)
(* _WorkItem.run, or a local of it.                                         *)
mapped_work_item(m, py, f) ==
  CASE py.code[f].kind = WORKITEM_RUN /\ m.WORK_CTX["WORKITEM"][py.code[f].self] # NULL
         -> py.code[f].self
    [] py.code[f].kind = POOL /\ py.local[f] # NULL
         -> IF m.WORK_CTX["WORKITEM"][py.local[f]] # NULL THEN py.local[f] ELSE NULL
    [] OTHER -> NULL

(* How many frames of the chain are looked at.                              *)
MAX_WORKER_FRAME_CHAIN_DEPTH == 8

(* Their positions, the current frame and those below it.                   *)
chain_window(py, tid) ==
  {i \in DOMAIN py.stack[tid] : Len(py.stack[tid]) - i < MAX_WORKER_FRAME_CHAIN_DEPTH}

find_mapped_work_item_in_current_chain(m, py, tid) ==
  LET hits == {i \in chain_window(py, tid) : mapped_work_item(m, py, py.stack[tid][i]) # NULL}
  IN  IF hits = {} THEN NULL ELSE mapped_work_item(m, py, py.stack[tid][Max(hits)])

(* The thread becomes a carrier of the work item's context.                 *)
bind_work_item(m, tid, w) ==
  LET c == m.WORK_CTX["WORKITEM"][w]
      act == get_active_ctx(m, tid)
      prev == act.THREAD_ACTIVE_CTX[tid]
  IN  IF w = NULL THEN m
      ELSE IF ~ctx_is_live(m, c) THEN m
      ELSE IF prev = c THEN act
      ELSE carrier_inc([act EXCEPT !.THREADPOOL_WORKER_CTX[tid] =
                                       [ctx_id |-> c, work_item |-> w, prev_ctx |-> prev],
                                   !.THREADPOOL_WORKITEM_THREAD[w] = tid,
                                   !.THREAD_ACTIVE_CTX[tid] = c], c)

bind_threadpool_worker_context(m, tid, w) ==
  LET e == m.THREADPOOL_WORKER_CTX[tid]
      same == e # NULL /\ w # NULL /\ e.work_item = w /\ ctx_is_live(m, e.ctx_id)
  IN  IF same THEN set_active(m, tid, e.ctx_id)
      ELSE bind_work_item(IF e = NULL THEN m ELSE clear_threadpool_worker_ctx(m, tid), tid, w)

refresh_threadpool_worker_context(m, py, tid) ==
  bind_threadpool_worker_context(m, tid, find_mapped_work_item_in_current_chain(m, py, tid))

-----------------------------------------------------------------------------
(* A work item or Thread object is freed while a run of it is recorded.     *)
finalize_worker_run_for_object(m, w) ==
  LET tid == m.WORKER_RUN_CARRIER[w]
      runs == m.WORKER_RUN_STACK[tid]
      n == Len(runs)
      i == IF n >= 1 /\ runs[n].self_obj = w THEN n
           ELSE IF n >= 2 /\ runs[n - 1].self_obj = w THEN n - 1 ELSE 0
      m1 == [m EXCEPT !.WORKER_RUN_CARRIER[w] = NULL]
  IN  IF tid = NULL THEN m
      ELSE IF i = 0 THEN m1
      ELSE [m1 EXCEPT !.WORKER_RUN_STACK[tid] = RemoveAt(@, i)]

clear_worker_runs_for_thread(m, tid) ==
  LET objs == {m.WORKER_RUN_STACK[tid][i].self_obj : i \in DOMAIN m.WORKER_RUN_STACK[tid]}
  IN  [m EXCEPT !.WORKER_RUN_CARRIER = [w \in Works |-> IF w \in objs THEN NULL ELSE @[w]],
                !.WORKER_RUN_STACK[tid] = <<>>]
=============================================================================
