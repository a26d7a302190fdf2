----------------------------- MODULE AgentLife -----------------------------
(***************************************************************************)
(* The tracker implements ContextLife: the contexts in being are the        *)
(* entries of TOOL_CTX, their holders the map entries that stand for a      *)
(* carrier.                                                                 *)
(***************************************************************************)
EXTENDS Agent

Life == INSTANCE ContextLife WITH
          Ids <- CtxIds,
          Holders <- Places,
          last <- m.CTX_COUNTER,
          live <- {c \in CtxIds : ctx_is_live(m, c)},
          holders <- [c \in CtxIds |-> carriers(m, c)]

(* Through every order of entry, await, hand-over to a task or a worker,    *)
(* fork, parked close, clear and deallocation a context that is in TOOL_CTX *)
(* is held by some map entry, one that left it is held by none, it is never *)
(* put back, and no id is given out twice (alloc_ctx_id, carrier_inc,       *)
(* carrier_dec and their callers).                                          *)
ImplementsContextLife == Life!Spec
=============================================================================
