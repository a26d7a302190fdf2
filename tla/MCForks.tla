------------------------------ MODULE MCForks ------------------------------
(* An instance of Descent: tools and other code make threads and processes. *)
EXTENDS Descent

CONSTANTS f1, f2, f3, o1, o2, w1, t2

Code1(kind, w) == [kind |-> kind, async |-> FALSE, self |-> w]
Plain == [kind |-> PLAIN, async |-> FALSE, self |-> NULL]

(* A Thread and two processes that are made and started anywhere.           *)
ForkCodes == [f \in Frames |->
  CASE f = f1 -> {Code1(LC, o1)}
    [] f = f2 -> {Code1(THREAD_CTOR, w1), Plain}
    [] f = f3 -> {Code1(THREAD_RUN, w1)}
    [] OTHER -> {Code1(LC, o2), Code1(IMPL, o2), Plain}]

ForkCalls ==
  {PLAIN, LC, IMPL} \X {LC, IMPL, PLAIN, THREAD_CTOR, FORK}
  \cup {THREAD_RUN} \X {LC, IMPL, PLAIN, FORK} \cup {<<FORK, THREAD_RUN>>, <<FORK, FORK>>}
OneThread == [t \in Tids |-> IF t = t2 THEN AgentPid ELSE t]
=============================================================================
