----------------------------- MODULE TaskClear ------------------------------
(***************************************************************************)
(* The two helpers of ownership.rs that walk over all the closes parked on *)
(* a task, or over its whole stack.                                        *)
(***************************************************************************)
EXTENDS Ownership

finish_deferred_tool_close(m, tid, task, c) ==
  LET F(r, i) == finish_deferred_tool_close_at_depth(r, tid, task, i, c)
  IN  F(F(F(F(F(F(F(F(m, 0), 1), 2), 3), 4), 5), 6), 7)

(* Faulty variant: parked closes are not finished.                          *)
task_ctx_clear_stack_only(m, tid, task) ==
  LET C(r, i) == clear_top(r, tid, task, i)
  IN  [C(C(C(C(C(C(C(C(m, 7), 6), 5), 4), 3), 2), 1), 0) EXCEPT !.TASK_CTX[task] = NULL]

(* Both loops run 8 times in the code; a turn beyond the depth, or on an    *)
(* empty slot, does nothing.                                                *)
task_ctx_clear(m, tid, task) ==
  LET C(r, i) == clear_top(r, tid, task, i)
      P(r, i) == clear_slot(r, tid, task, i)
      stack == C(C(C(C(C(C(C(C(m, 7), 6), 5), 4), 3), 2), 1), 0)
      done == P(P(P(P(P(P(P(P(stack, 0), 1), 2), 3), 4), 5), 6), 7)
  IN  [done EXCEPT !.TASK_CTX[task] = NULL]
=============================================================================
