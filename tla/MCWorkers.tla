----------------------------- MODULE MCWorkers -----------------------------
(* Instances of Agent in which a tool hands work to another thread.         *)
EXTENDS AgentLife

CONSTANTS f1, f2, f3, f4, f5, f6, o1, o2, w1, w2, t2

Work(kind, w) == [kind |-> kind, async |-> FALSE, self |-> w]
Plain == [kind |-> PLAIN, async |-> FALSE, self |-> NULL]

(* A tool, or code outside of any tool, submits a work item w1 to a thread  *)
(* pool, which makes the Thread w2 for its worker.                          *)
PoolCodes == [f \in Frames |->
  CASE f = f1 -> {Work(LC, o1)}
    [] f = f2 -> {Work(WORKITEM_CTOR, w1), Work(THREAD_CTOR, w2)}
    [] f = f3 -> {Work(THREAD_RUN, w2)}
    [] f = f4 -> {Work(POOL, NULL)}
    [] f = f5 -> {Work(WORKITEM_RUN, w1)}
    [] OTHER -> {Work(LC, o2), Plain}]

(* The work item calls a tool itself.                                       *)
PoolCalls ==
  {PLAIN} \X {LC, WORKITEM_CTOR, THREAD_CTOR}
  \cup {<<THREAD_CTOR, FORK>>}
  \cup {LC} \X {WORKITEM_CTOR, THREAD_CTOR}
  \cup {<<FORK, THREAD_RUN>>, <<THREAD_RUN, POOL>>, <<POOL, WORKITEM_RUN>>}
  \cup {WORKITEM_RUN} \X {PLAIN, LC}

(* A coroutine awaits a tool, and it or the tool submits a work item, before *)
(* the tool returned or after.                                              *)
Coroutine(kind, o) == [kind |-> kind, async |-> TRUE, self |-> o]
ExecutorCodes == [f \in Frames |->
  CASE f = f1 -> {Coroutine(PLAIN, NULL)}
    [] f = f2 -> {Coroutine(LC, o1)}
    [] f = f3 -> {Work(WORKITEM_CTOR, w1), Work(THREAD_CTOR, w2)}
    [] f = f4 -> {Work(THREAD_RUN, w2)}
    [] f = f5 -> {Work(POOL, NULL)}
    [] OTHER -> {Work(WORKITEM_RUN, w1)}]

ExecutorCalls ==
  {PLAIN} \X {PLAIN, LC, TASK, LOOP, WORKITEM_CTOR, THREAD_CTOR}
  \cup {LC} \X {WORKITEM_CTOR, THREAD_CTOR} \cup {<<THREAD_CTOR, FORK>>}
  \cup {<<FORK, THREAD_RUN>>, <<THREAD_RUN, POOL>>, <<POOL, WORKITEM_RUN>>}

OneProcess == [t \in Tids |-> AgentPid]
=============================================================================
