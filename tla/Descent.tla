------------------------------ MODULE Descent ------------------------------
(***************************************************************************)
(* Who was made where: a history variable, read off the frames of the       *)
(* traced program alone, beside the maps from which handle_sched_fork       *)
(* decides which processes are guarded.                                     *)
(***************************************************************************)
EXTENDS AgentLife

VARIABLE inside  \* the threads, processes and work objects made inside a tool

descent == <<vars, inside>>

(* A tool's code is on the stack of tid, or the run of an object that was   *)
(* made inside a tool, or tid itself was.                                   *)
InsideTool(tid) ==
  \/ tid \in inside
  \/ \E i \in DOMAIN py.stack[tid] :
       LET code == py.code[py.stack[tid][i]]
       IN  code.kind \in {LC, LG, IMPL} \/ code.self \in inside

Made == (alive' \ alive) \cup {w \in Works : wlife[w] = "none" /\ wlife'[w] # "none"}
Gone == (alive \ alive') \cup {w \in Works : wlife'[w] = "none"}

DescentInit == Init /\ inside = {}

(* The steps of the threads.  The resolver makes no thread, and it has      *)
(* nothing to do where RingCap is 0, as it is in the instance.              *)
DescentNext ==
  \E tid \in Tids : /\ ThreadStep(tid)
                    /\ inside' = (inside \ Gone) \cup (IF InsideTool(tid) THEN Made ELSE {})

DescentSpec == DescentInit /\ [][DescentNext]_descent

-----------------------------------------------------------------------------
(* agent_child_scope: with the narrower scope a child process is guarded    *)
(* only if it was made inside a tool, by the tool's own code, by a thread   *)
(* started there or by such a process (handle_sched_fork, README.md).       *)
ToolChildrenOnly ==
  ~ChildScopeAll =>
    \A tid \in alive \cap m.PROTECTED_TGIDS : tid = AgentPid \/ tid \in inside

(* A process made by the code of a tool that is not async, while its frame  *)
(* owns a context, is guarded and runs under this context and no other,     *)
(* whatever ran on the thread before and whoever had its id before.         *)
ToolChildGuarded ==
  [][\A tid \in Tids, child \in Tids :
       Fork(tid, child) /\ TgidOf[child] = child /\ py.stack[tid] # <<>> =>
         LET c == m.FRAME_CTX[Last(py.stack[tid])]
         IN  c # NULL /\ ~m.TOOL_CTX[c].async =>
               child \in m'.PROTECTED_TGIDS /\ m'.THREAD_ACTIVE_CTX[child] = c]_vars
=============================================================================
