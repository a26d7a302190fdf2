------------------------------- MODULE MCSync -------------------------------
(* Instances of Agent with one thread and no asyncio.                       *)
EXTENDS AgentLife

CONSTANTS f1, f2, f3, o1, o2

Sync(kind, o) == [kind |-> kind, async |-> FALSE, self |-> o]

(* Every kind of tool code, in frames whose addresses are used again.       *)
AllKinds == [f \in Frames |->
  CASE f = f1 -> {Sync(LC, o1), Sync(IMPL, o1), Sync(PLAIN, NULL)}
    [] f = f2 -> {Sync(IMPL, o2), Sync(IMPL, o1), Sync(ID, o2)}
    [] OTHER -> {Sync(LC, o2), Sync(PLAIN, NULL)}]

(* The packaged rules: BaseTool.run, _run and ordinary functions.           *)
Packaged == [f \in Frames |->
  CASE f = f1 -> {Sync(LC, o1), Sync(IMPL, o1), Sync(PLAIN, NULL)}
    [] f = f2 -> {Sync(IMPL, o2), Sync(IMPL, o1), Sync(LC, o2)}
    [] OTHER -> {Sync(LC, o2), Sync(PLAIN, NULL)}]

AnyCall == {PLAIN, LC, ID, IMPL} \X {PLAIN, LC, ID, IMPL}
OneProcess == [t \in Tids |-> AgentPid]
=============================================================================
