---------------------------- MODULE ToolIdentity ----------------------------
(***************************************************************************)
(* tool_identity.rs: which tool a frame belongs to.  The kernel reads the  *)
(* `self` slot of the frame and looks the object up in TOOL_OBJ; an object *)
(* it does not know is reported once to the user-space resolver.           *)
(*                                                                         *)
(* What a probe reads from the memory of the traced process is the record  *)
(* py: py.code[f] is the code running in frame f (its kind, whether it is  *)
(* a coroutine, its `self`), py.prev[f] the previous-frame pointer of f,   *)
(* py.type[o] the type and py.tool[o] the tool name of object o (its id),  *)
(* py.local[f] the work item held by a local variable of f, and            *)
(* py.stack[tid] the frame chain of a thread.                              *)
(***************************************************************************)
EXTENDS Ownership

(* Code kinds.  IMPL is CODE_KIND_IGNORE with a qualified name that ends in *)
(* ._run or ._arun; PLAIN is any other ignored code.                        *)
LC == "TOOL_ROOT_LC"
LG == "TOOL_ROOT_LG"
ID == "TOOL_ID_RULE"
IMPL == "IMPL"
POOL == "THREADPOOL_WORKER"
WORKITEM_CTOR == "WORKITEM_CTOR"
WORKITEM_RUN == "WORKITEM_RUN"
THREAD_CTOR == "THREAD_CTOR"
THREAD_RUN == "THREAD_RUN"
PLAIN == "PLAIN"

ToolKinds == {LC, LG, ID, IMPL}
WorkKinds == {WORKITEM_CTOR, WORKITEM_RUN, THREAD_CTOR, THREAD_RUN}
Code == [kind : ToolKinds, async : BOOLEAN, self : Objs \cup {NULL}]
        \cup [kind : {POOL, PLAIN}, async : BOOLEAN, self : {NULL}]
        \cup [kind : WorkKinds, async : {FALSE}, self : Works]
PyType == [code : [Frames -> Code], prev : [Frames -> ParentPtrs], type : [Objs -> Types],
           tool : [Objs -> ToolIds], local : [Frames -> Works \cup {NULL}], stack : [Tids -> Seq(Frames)]]

(* A cache entry is good only for an object that still has the type it was  *)
(* resolved for.                                                            *)
cache_valid(m, py, o) == m.TOOL_OBJ[o] # NULL /\ m.TOOL_OBJ[o].type_ptr = py.type[o]

cached_frame_self_tool_id(m, py, f) ==
  LET o == py.code[f].self
  IN  IF o # NULL /\ cache_valid(m, py, o) THEN m.TOOL_OBJ[o].tool_id ELSE TOOL_IDLE

set_ctx_tool_id(m, c, tool) ==
  IF ctx_is_live(m, c) THEN [m EXCEPT !.TOOL_CTX[c].tool_id = tool] ELSE m

mark_resolver_error(m, c) ==
  IF ctx_is_live(m, c) THEN [m EXCEPT !.TOOL_CTX[c].resolver_error = TRUE] ELSE m

(* A reservation in a full ring fails and the event is lost.                *)
resolver_submit(m, e) ==
  IF Len(m.RESOLVER_EVENTS) >= RingCap THEN m
  ELSE [m EXCEPT !.RESOLVER_EVENTS = Append(@, e)]

(* PENDING_TOOL_RESOLVE is set before the reservation is tried.             *)
emit_resolver_candidate(m, py, c, o) ==
  IF o \in m.PENDING_TOOL_RESOLVE THEN m
  ELSE resolver_submit([m EXCEPT !.PENDING_TOOL_RESOLVE = @ \cup {o}],
         [failed |-> FALSE, ctx_id |-> c, self_ptr |-> o, type_ptr |-> py.type[o]])

emit_frame_self_resolver_candidate(m, py, f) ==
  LET o == py.code[f].self
  IN  IF o = NULL \/ m.TOOL_OBJ[o] # NULL THEN m
      ELSE emit_resolver_candidate(m, py, NULL, o)

(* The rules of the packaged framework_rules.yaml all use EXTRACTOR_SLOT_OBJ *)
(* on the self slot.                                                         *)
extract_and_resolve(m, py, f, c) ==
  LET o == py.code[f].self
  IN  IF o = NULL THEN mark_resolver_error(m, c)
      ELSE IF cache_valid(m, py, o) THEN set_ctx_tool_id(m, c, m.TOOL_OBJ[o].tool_id)
      ELSE IF m.TOOL_OBJ[o] = NULL THEN emit_resolver_candidate(m, py, c, o)
      ELSE resolver_submit(
             mark_resolver_error([m EXCEPT !.TOOL_OBJ[o] = NULL,
                                           !.PENDING_TOOL_RESOLVE = @ \ {o}], c),
             [failed |-> TRUE, ctx_id |-> c, self_ptr |-> o, type_ptr |-> py.type[o]])
=============================================================================
