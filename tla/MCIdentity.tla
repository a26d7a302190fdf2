----------------------------- MODULE MCIdentity -----------------------------
(* Instances of Agent with the resolver at work.                            *)
EXTENDS Agent

CONSTANTS f1, f2, f3, o1, o2

(* Two tools, one of them called through its root and through _run.         *)
ToolCodes == [f \in Frames |->
  CASE f = f1 -> {[kind |-> LC, async |-> FALSE, self |-> o1]}
    [] f = f2 -> {[kind |-> k, async |-> FALSE, self |-> o1] : k \in {LC, IMPL}}
    [] OTHER -> {[kind |-> LC, async |-> FALSE, self |-> o2]}]

AnyCall == {PLAIN, LC, IMPL} \X {PLAIN, LC, IMPL}
Forking == AnyCall \cup {PLAIN, FORK} \X {FORK}
Processes == [t \in Tids |-> t]
OneProcess == [t \in Tids |-> AgentPid]
=============================================================================
