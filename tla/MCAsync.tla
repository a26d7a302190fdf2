------------------------------ MODULE MCAsync ------------------------------
(* Instances of Agent with one event-loop thread and asyncio tasks.         *)
EXTENDS AgentLife, TLC

CONSTANTS f1, f2, f3, o1, o2

Tool(o) == [kind |-> LC, async |-> TRUE, self |-> o]
Plain == [kind |-> PLAIN, async |-> TRUE, self |-> NULL]

(* One coroutine drives two tool coroutines.                                *)
TwoTools == [f \in Frames |->
  CASE f = f1 -> {Plain} [] f = f2 -> {Tool(o1)} [] OTHER -> {Tool(o2)}]

(* One coroutine, a tool coroutine and a tool that is called as a function. *)
SyncAndAsync == [f \in Frames |->
  CASE f = f1 -> {Plain}
    [] f = f2 -> {Tool(o1), [kind |-> LC, async |-> FALSE, self |-> o2]}
    [] OTHER -> {Tool(o2)}]

(* Two tools with a LangGraph root and a tool's _arun.                       *)
AllKinds == [f \in Frames |->
  CASE f = f1 -> {Plain, [kind |-> LG, async |-> TRUE, self |-> NULL]}
    [] f = f2 -> {Tool(o1)}
    [] OTHER -> {Tool(o2), [kind |-> IMPL, async |-> TRUE, self |-> o1]}]

(* Coroutines that await tools which call nothing; and anything else.       *)
LeafTools == {<<PLAIN, PLAIN>>, <<PLAIN, LC>>, <<PLAIN, TASK>>, <<PLAIN, LOOP>>}
AnyCall == {PLAIN, LC, LG, IMPL} \X {PLAIN, LC, LG, IMPL, TASK, LOOP}

OneProcess == [t \in Tids |-> AgentPid]
Symmetry == Permutations(Tasks) \cup Permutations(ToolIds)
=============================================================================
