--------------------------- MODULE HandlerProofs ----------------------------
(* Every probe handler keeps the types of the maps and TASK_CTX in step     *)
(* with the stacks of the tasks, and allocates no more context ids than it  *)
(* may.                                                                     *)
EXTENDS Lifecycle, OwnershipProofs

-----------------------------------------------------------------------------
(* The loops over the slots of a task.                                      *)

(* finish_deferred_tool_close, slot by slot, is steady.                     *)
LEMMA FinishDeferred ==
  ASSUME NEW m \in MapsType, NEW tid \in Tids, NEW k \in Tasks, NEW c
  PROVE  Steady(m, finish_deferred_tool_close(m, tid, k, c))
<1> DEFINE F(r, i) == finish_deferred_tool_close_at_depth(r, tid, k, i, c)
<1>1. \A r \in MapsType : \A i : Steady(r, F(r, i))
  BY FinishAtDepth
<1>2. finish_deferred_tool_close(m, tid, k, c)
      = F(F(F(F(F(F(F(F(m, 0), 1), 2), 3), 4), 5), 6), 7)
  BY DEF finish_deferred_tool_close
<1> HIDE DEF F
<1>3. \A r, i : Steady(m, r) => Steady(m, F(r, i))
  BY <1>1, SteadyTrans DEF Steady
<1>4. Steady(m, m)
  BY DEF Steady
<1> QED
  BY <1>2, <1>3, <1>4

(* Eight turns empty any stack, so that TASK_CTX can be removed.            *)
LEMMA TaskCtxClear ==
  ASSUME NEW m, MapsOK(m), NEW tid \in Tids, NEW k \in Tasks
  PROVE  Grows(m, task_ctx_clear(m, tid, k), 0)
<1> DEFINE C(r, i) == clear_top(r, tid, k, i)
           P(r, i) == clear_slot(r, tid, k, i)
           stack == C(C(C(C(C(C(C(C(m, 7), 6), 5), 4), 3), 2), 1), 0)
           done == P(P(P(P(P(P(P(P(stack, 0), 1), 2), 3), 4), 5), 6), 7)
           s == [done EXCEPT !.TASK_CTX[k] = NULL]
<1>1. task_ctx_clear(m, tid, k) = s
  BY DEF task_ctx_clear
<1>2. \A r : \A i \in Nat : Clearing(m, r, k, i + 1) => Clearing(m, C(r, i), k, i)
  BY ClearTop
<1>3. \A r : \A i : Clearing(m, r, k, 0) => Clearing(m, P(r, i), k, 0)
  <2> SUFFICES ASSUME NEW r, NEW i, Clearing(m, r, k, 0)
               PROVE  Clearing(m, clear_slot(r, tid, k, i), k, 0)
    OBVIOUS
  <2>1. Steady(r, clear_slot(r, tid, k, i))
    BY ClearSlot DEF Clearing
  <2> QED
    BY <2>1 DEF Clearing, Steady
<1> HIDE DEF C, P
<1>4. Clearing(m, m, k, 8)
  <2>1. m \in MapsType /\ m.TASK_CTX_STACK[k] \in Stack(CtxIds)
    BY MapsFields DEF MapsOK
  <2> QED
    BY <2>1, BoundsAssumption DEF Clearing, Stack
<1>5. Clearing(m, stack, k, 0)
  <2>1. \A r : /\ Clearing(m, r, k, 8) => Clearing(m, C(r, 7), k, 7)
               /\ Clearing(m, r, k, 7) => Clearing(m, C(r, 6), k, 6)
               /\ Clearing(m, r, k, 6) => Clearing(m, C(r, 5), k, 5)
               /\ Clearing(m, r, k, 5) => Clearing(m, C(r, 4), k, 4)
               /\ Clearing(m, r, k, 4) => Clearing(m, C(r, 3), k, 3)
               /\ Clearing(m, r, k, 3) => Clearing(m, C(r, 2), k, 2)
               /\ Clearing(m, r, k, 2) => Clearing(m, C(r, 1), k, 1)
               /\ Clearing(m, r, k, 1) => Clearing(m, C(r, 0), k, 0)
    <3>1. 7 + 1 = 8 /\ 6 + 1 = 7 /\ 5 + 1 = 6 /\ 4 + 1 = 5 /\ 3 + 1 = 4 /\ 2 + 1 = 3
          /\ 1 + 1 = 2 /\ 0 + 1 = 1
      OBVIOUS
    <3> QED
      BY <1>2, <3>1
  <2> QED
    BY <1>4, <2>1
<1> HIDE DEF stack
<1>6. Clearing(m, done, k, 0)
  BY <1>3, <1>5
<1> HIDE DEF done
<1>7. done \in MapsType /\ done.TASK_CTX = m.TASK_CTX
  BY <1>6 DEF Clearing
<1>8. /\ s \in MapsType
      /\ s.CTX_COUNTER = done.CTX_COUNTER
      /\ s.RESOLVER_EVENTS = done.RESOLVER_EVENTS
      /\ s.TASK_CTX = [done.TASK_CTX EXCEPT ![k] = NULL]
      /\ s.TASK_CTX_STACK = done.TASK_CTX_STACK
  BY <1>7, Zenon DEF MapsType
<1> HIDE DEF s
<1>9. MapsOK(s)
  <2> SUFFICES ASSUME NEW j \in Tasks
               PROVE  s.TASK_CTX[j] = top_or_null(s.TASK_CTX_STACK[j])
    BY <1>8 DEF MapsOK
  <2>1. /\ m.TASK_CTX \in [Tasks -> CtxOrNull]
        /\ m.TASK_CTX[j] = top_or_null(m.TASK_CTX_STACK[j])
    BY MapsFields DEF MapsOK
  <2>2. CASE j = k
    <3>1. done.TASK_CTX_STACK[k] \in Stack(CtxIds) /\ Len(done.TASK_CTX_STACK[k]) <= 0
      BY <1>6, <1>7, MapsFields DEF Clearing
    <3>2. done.TASK_CTX_STACK[k] = <<>>
      BY <3>1 DEF Stack
    <3> QED
      BY <1>7, <1>8, <2>1, <2>2, <3>2 DEF top_or_null
  <2>3. CASE j # k
    BY <1>6, <1>7, <1>8, <2>1, <2>3 DEF Clearing
  <2> QED
    BY <2>2, <2>3
<1>10. Grows(m, s, 0)
  <2>1. m.CTX_COUNTER \in Nat /\ s.CTX_COUNTER = m.CTX_COUNTER
        /\ s.RESOLVER_EVENTS = m.RESOLVER_EVENTS
    BY <1>6, <1>8, MapsFields DEF Clearing, MapsOK
  <2> QED
    BY <1>9, <2>1 DEF Grows
<1> QED
  BY <1>1, <1>10

-----------------------------------------------------------------------------
(* tool_identity.rs.                                                        *)

(* The fields of the process memory that the probes read.                   *)
LEMMA PyFields ==
  ASSUME NEW py \in PyType, NEW f \in Frames
  PROVE  /\ py.code[f] \in Code
         /\ py.code[f].async \in BOOLEAN
         /\ py.prev[f] \in ParentPtrs
         /\ py.local[f] \in Works \cup {NULL}
         /\ py.code[f].kind \in WorkKinds => py.code[f].self \in Works
         /\ py.code[f].kind \notin WorkKinds => py.code[f].self \in Objs \cup {NULL}
<1>1. py.code[f] \in Code /\ py.prev[f] \in ParentPtrs /\ py.local[f] \in Works \cup {NULL}
  BY DEF PyType
<1> DEFINE c == py.code[f]
<1> HIDE DEF c
<1>2. c \in Code
  BY <1>1 DEF c
<1>3. c.async \in BOOLEAN
  BY <1>2, Zenon DEF Code
<1>4. c.kind \in WorkKinds => c.self \in Works
  BY <1>2, Zenon DEF Code, WorkKinds, ToolKinds, LC, LG, ID, IMPL, POOL, PLAIN, WORKITEM_CTOR,
              WORKITEM_RUN, THREAD_CTOR, THREAD_RUN
<1>5. c.kind \notin WorkKinds => c.self \in Objs \cup {NULL}
  BY <1>2, Zenon DEF Code
<1> QED
  BY <1>1, <1>3, <1>4, <1>5, Zenon DEF c

(* A tool object has a type and a tool.                                     *)
LEMMA PyObj ==
  ASSUME NEW py \in PyType, NEW o \in Objs
  PROVE  py.type[o] \in Types /\ py.tool[o] \in ToolIds
BY DEF PyType

(* A tool frame's tool, when it is in the cache.                            *)
LEMMA CachedTool ==
  ASSUME NEW m \in MapsType, NEW py \in PyType, NEW f \in Frames,
         py.code[f].kind \notin WorkKinds
  PROVE  cached_frame_self_tool_id(m, py, f) \in ToolIds \cup {TOOL_IDLE}
<1> DEFINE o == py.code[f].self
<1>1. o \in Objs \cup {NULL}
  BY PyFields
<1>2. m.TOOL_OBJ \in [Objs -> ToolObjCacheEntry \cup {NULL}]
  BY MapsFields
<1>3. cached_frame_self_tool_id(m, py, f) =
        IF o # NULL /\ cache_valid(m, py, o) THEN m.TOOL_OBJ[o].tool_id ELSE TOOL_IDLE
  BY DEF cached_frame_self_tool_id
<1> HIDE DEF o
<1>4. ASSUME o # NULL, cache_valid(m, py, o) PROVE m.TOOL_OBJ[o] \in ToolObjCacheEntry
  BY <1>1, <1>2, <1>4 DEF cache_valid
<1> QED
  BY <1>3, <1>4 DEF ToolObjCacheEntry

(* set_ctx_tool_id is steady.                                               *)
LEMMA SetCtxToolId ==
  ASSUME NEW m \in MapsType, NEW c \in CtxOrNull, NEW tool \in ToolIds \cup {TOOL_IDLE}
  PROVE  Steady(m, set_ctx_tool_id(m, c, tool))
<1> DEFINE v == [m.TOOL_CTX[c] EXCEPT !.tool_id = tool]
<1>1. CASE ~ctx_is_live(m, c)
  BY <1>1 DEF set_ctx_tool_id, Steady
<1>2. CASE ctx_is_live(m, c)
  <2>1. c \in CtxIds /\ m.TOOL_CTX[c] \in ToolCtx
    BY <1>2, LiveType
  <2>2. v \in ToolCtx
    BY <2>1 DEF ToolCtx
  <2>3. set_ctx_tool_id(m, c, tool) = [m EXCEPT !.TOOL_CTX[c] = v]
    BY <1>2 DEF set_ctx_tool_id
  <2> HIDE DEF v
  <2> QED
    BY <2>1, <2>2, <2>3, SetCtx
<1> QED
  BY <1>1, <1>2

(* mark_resolver_error is steady.                                           *)
LEMMA MarkResolverError ==
  ASSUME NEW m \in MapsType, NEW c \in CtxOrNull
  PROVE  Steady(m, mark_resolver_error(m, c))
<1> DEFINE v == [m.TOOL_CTX[c] EXCEPT !.resolver_error = TRUE]
<1>1. CASE ~ctx_is_live(m, c)
  BY <1>1 DEF mark_resolver_error, Steady
<1>2. CASE ctx_is_live(m, c)
  <2>1. c \in CtxIds /\ m.TOOL_CTX[c] \in ToolCtx
    BY <1>2, LiveType
  <2>2. v \in ToolCtx
    BY <2>1, Zenon DEF ToolCtx
  <2>3. mark_resolver_error(m, c) = [m EXCEPT !.TOOL_CTX[c] = v]
    BY <1>2 DEF mark_resolver_error
  <2> HIDE DEF v
  <2> QED
    BY <2>1, <2>2, <2>3, SetCtx
<1> QED
  BY <1>1, <1>2

(* An event goes to the end of the ring; the head of it stays.              *)
LEMMA ResolverSubmit ==
  ASSUME NEW m, MapsOK(m), NEW e \in ResolverEvent
  PROVE  Grows(m, resolver_submit(m, e), 0)
<1> DEFINE q == Append(m.RESOLVER_EVENTS, e)
           r == [m EXCEPT !.RESOLVER_EVENTS = q]
<1>1. m \in MapsType
  BY DEF MapsOK
<1>2. resolver_submit(m, e) = IF Len(m.RESOLVER_EVENTS) >= RingCap THEN m ELSE r
  BY DEF resolver_submit
<1>3. m.RESOLVER_EVENTS \in Seq(ResolverEvent)
  BY <1>1, MapsFields
<1>4. /\ q \in Seq(ResolverEvent)
      /\ m.RESOLVER_EVENTS # <<>> => q # <<>> /\ Head(q) = Head(m.RESOLVER_EVENTS)
  BY <1>3
<1> HIDE DEF q
<1>5. /\ r \in MapsType
      /\ r.CTX_COUNTER = m.CTX_COUNTER
      /\ r.RESOLVER_EVENTS = q
      /\ r.TASK_CTX = m.TASK_CTX
      /\ r.TASK_CTX_STACK = m.TASK_CTX_STACK
  BY <1>1, <1>4, Zenon DEF MapsType
<1> HIDE DEF r
<1>6. Grows(m, r, 0)
  <2>1. m.CTX_COUNTER \in Nat
    BY <1>1, MapsFields
  <2> QED
    BY <1>4, <1>5, <2>1 DEF Grows, MapsOK
<1>7. Grows(m, m, 0)
  BY <1>1, SteadyGrows DEF Steady
<1> QED
  BY <1>2, <1>6, <1>7

(* What emit_resolver_candidate submits is a resolver event.                *)
LEMMA EventType ==
  ASSUME NEW py \in PyType, NEW c \in CtxOrNull, NEW o \in Objs, NEW b \in BOOLEAN
  PROVE  [failed |-> b, ctx_id |-> c, self_ptr |-> o, type_ptr |-> py.type[o]] \in ResolverEvent
BY PyObj DEF ResolverEvent, CtxOrNull

(* Writing the object cache and the debounce set is steady.                 *)
LEMMA SetIdentity ==
  ASSUME NEW m \in MapsType, NEW cache \in [Objs -> ToolObjCacheEntry \cup {NULL}],
         NEW pending \in SUBSET Objs
  PROVE  /\ Steady(m, [m EXCEPT !.PENDING_TOOL_RESOLVE = pending])
         /\ Steady(m, [m EXCEPT !.TOOL_OBJ = cache, !.PENDING_TOOL_RESOLVE = pending])
BY Zenon DEF MapsType, Steady

(* emit_resolver_candidate keeps the task map and the head of the ring.     *)
LEMMA EmitCandidate ==
  ASSUME NEW m, MapsOK(m), NEW py \in PyType, NEW c \in CtxOrNull, NEW o \in Objs
  PROVE  Grows(m, emit_resolver_candidate(m, py, c, o), 0)
<1> DEFINE p == m.PENDING_TOOL_RESOLVE \cup {o}
           r == [m EXCEPT !.PENDING_TOOL_RESOLVE = p]
           e == [failed |-> FALSE, ctx_id |-> c, self_ptr |-> o, type_ptr |-> py.type[o]]
           s == resolver_submit(r, e)
<1>1. m \in MapsType
  BY DEF MapsOK
<1>2. emit_resolver_candidate(m, py, c, o) = IF o \in m.PENDING_TOOL_RESOLVE THEN m ELSE s
  BY DEF emit_resolver_candidate
<1>3. p \in SUBSET Objs /\ m.TOOL_OBJ \in [Objs -> ToolObjCacheEntry \cup {NULL}]
  BY <1>1, MapsFields
<1>4. e \in ResolverEvent
  BY EventType, Zenon
<1> HIDE DEF p, e
<1>5. Steady(m, r)
  BY <1>1, <1>3, SetIdentity, Zenon
<1> HIDE DEF r
<1>6. Grows(m, r, 0)
  BY <1>5, SteadyGrows
<1>7. Grows(r, s, 0)
  BY <1>4, <1>6, ResolverSubmit DEF Grows
<1> HIDE DEF s
<1>8. Grows(m, s, 0)
  BY <1>6, <1>7, KeepsTrans
<1>9. Grows(m, m, 0)
  BY <1>1, SteadyGrows DEF Steady
<1> QED
  BY <1>2, <1>8, <1>9

(* emit_frame_self_resolver_candidate keeps the task map and the head of    *)
(* the ring.                                                                *)
LEMMA EmitFrameSelf ==
  ASSUME NEW m, MapsOK(m), NEW py \in PyType, NEW f \in Frames, py.code[f].kind \notin WorkKinds
  PROVE  Grows(m, emit_frame_self_resolver_candidate(m, py, f), 0)
<1> DEFINE o == py.code[f].self
<1>1. m \in MapsType
  BY DEF MapsOK
<1>2. emit_frame_self_resolver_candidate(m, py, f) =
        IF o = NULL \/ m.TOOL_OBJ[o] # NULL THEN m ELSE emit_resolver_candidate(m, py, NULL, o)
  BY DEF emit_frame_self_resolver_candidate
<1>3. o \in Objs \cup {NULL}
  BY PyFields
<1> HIDE DEF o
<1>4. Grows(m, m, 0)
  BY <1>1, SteadyGrows DEF Steady
<1>5. ASSUME o # NULL PROVE Grows(m, emit_resolver_candidate(m, py, NULL, o), 0)
  BY <1>3, <1>5, EmitCandidate DEF CtxOrNull
<1> QED
  BY <1>2, <1>4, <1>5

(* extract_and_resolve keeps the task map and the head of the ring.         *)
LEMMA ExtractAndResolve ==
  ASSUME NEW m, MapsOK(m), NEW py \in PyType, NEW f \in Frames, NEW c \in CtxOrNull,
         py.code[f].kind \notin WorkKinds
  PROVE  Grows(m, extract_and_resolve(m, py, f, c), 0)
<1> DEFINE o == py.code[f].self
           m1 == mark_resolver_error(m, c)
           m2 == set_ctx_tool_id(m, c, m.TOOL_OBJ[o].tool_id)
           m3 == emit_resolver_candidate(m, py, c, o)
           cache == [m.TOOL_OBJ EXCEPT ![o] = NULL]
           pending == m.PENDING_TOOL_RESOLVE \ {o}
           r == [m EXCEPT !.TOOL_OBJ = cache, !.PENDING_TOOL_RESOLVE = pending]
           s == mark_resolver_error(r, c)
           e == [failed |-> TRUE, ctx_id |-> c, self_ptr |-> o, type_ptr |-> py.type[o]]
           m4 == resolver_submit(s, e)
<1>1. m \in MapsType
  BY DEF MapsOK
<1>2. extract_and_resolve(m, py, f, c) =
        IF o = NULL THEN m1 ELSE IF cache_valid(m, py, o) THEN m2
        ELSE IF m.TOOL_OBJ[o] = NULL THEN m3 ELSE m4
  BY DEF extract_and_resolve
<1>3. o \in Objs \cup {NULL}
  BY PyFields
<1> HIDE DEF o
<1>4. m.TOOL_OBJ \in [Objs -> ToolObjCacheEntry \cup {NULL}] /\ m.PENDING_TOOL_RESOLVE \in SUBSET Objs
  BY <1>1, MapsFields
<1>5. Grows(m, m1, 0)
  BY <1>1, MarkResolverError, SteadyGrows
<1>6. ASSUME o # NULL, cache_valid(m, py, o) PROVE Grows(m, m2, 0)
  <2>1. m.TOOL_OBJ[o] \in ToolObjCacheEntry
    BY <1>3, <1>4, <1>6 DEF cache_valid
  <2>2. m.TOOL_OBJ[o].tool_id \in ToolIds
    BY <2>1 DEF ToolObjCacheEntry
  <2> QED
    BY <1>1, <2>2, SetCtxToolId, SteadyGrows
<1>7. ASSUME o # NULL PROVE Grows(m, m3, 0)
  BY <1>3, <1>7, EmitCandidate
<1>8. ASSUME o # NULL PROVE Grows(m, m4, 0)
  <2>1. o \in Objs /\ cache \in [Objs -> ToolObjCacheEntry \cup {NULL}] /\ pending \in SUBSET Objs
    BY <1>3, <1>4, <1>8
  <2>2. e \in ResolverEvent
    BY <2>1, EventType, Zenon
  <2> HIDE DEF cache, pending, e
  <2>3. Steady(m, r)
    BY <1>1, <2>1, SetIdentity, Zenon
  <2> HIDE DEF r
  <2>4. Steady(r, s)
    BY <2>3, MarkResolverError DEF Steady
  <2> HIDE DEF s
  <2>5. Grows(m, s, 0)
    BY <2>3, <2>4, SteadyTrans, SteadyGrows
  <2>6. Grows(s, m4, 0)
    BY <2>2, <2>5, ResolverSubmit DEF Grows
  <2> HIDE DEF m4
  <2> QED
    BY <2>5, <2>6, KeepsTrans
<1> HIDE DEF m1, m2, m3, m4
<1> QED
  BY <1>2, <1>5, <1>6, <1>7, <1>8

-----------------------------------------------------------------------------
(* frame_probes.rs.                                                         *)

(* Nothing happens.                                                         *)
LEMMA Same ==
  ASSUME NEW m, MapsOK(m)
  PROVE  Grows(m, m, 0)
BY SteadyGrows DEF Steady, MapsOK

(* Creating a context takes one id of the counter.                          *)
LEMMA NewCtx ==
  ASSUME NEW m, MapsOK(m), m.CTX_COUNTER < MaxCtx, NEW f \in Frames,
         NEW tool \in ToolIds \cup {TOOL_IDLE}, NEW async \in BOOLEAN
  PROVE  alloc_ctx_id(m) \in CtxIds /\ Grows(m, new_ctx(m, f, tool, async), 1)
<1> DEFINE c == alloc_ctx_id(m)
           v == [tool_id |-> tool, carrier_count |-> 1, async |-> async,
                 seen |-> FALSE, resolver_error |-> FALSE]
           r == [m EXCEPT !.CTX_COUNTER = c, !.FRAME_CTX[f] = c, !.TOOL_CTX[c] = v]
<1>1. m \in MapsType
  BY DEF MapsOK
<1>2. m.CTX_COUNTER \in Nat
  BY <1>1, MapsFields
<1>3. c \in CtxIds /\ c \in Nat /\ c = m.CTX_COUNTER + 1
  BY <1>2, BoundsAssumption DEF alloc_ctx_id, CtxIds
<1>4. v \in ToolCtx
  BY DEF ToolCtx
<1>5. new_ctx(m, f, tool, async) = r
  BY DEF new_ctx
<1> HIDE DEF c, v
<1>6. /\ r \in MapsType
      /\ r.CTX_COUNTER = c
      /\ r.RESOLVER_EVENTS = m.RESOLVER_EVENTS
      /\ r.TASK_CTX = m.TASK_CTX
      /\ r.TASK_CTX_STACK = m.TASK_CTX_STACK
  BY <1>1, <1>3, <1>4, Zenon DEF MapsType
<1> HIDE DEF r
<1>7. Grows(m, r, 1)
  BY <1>2, <1>3, <1>6 DEF Grows, MapsOK
<1> QED
  BY <1>3, <1>5, <1>7 DEF c

(* Undoing the creation of a context is steady.                             *)
LEMMA DropCtx ==
  ASSUME NEW m \in MapsType, NEW f \in Frames, NEW c \in CtxIds
  PROVE  Steady(m, drop_ctx(m, f, c))
BY Zenon DEF MapsType, Steady, drop_ctx

(* The task recorded for a thread is a task or NULL.                        *)
LEMMA ActiveTask ==
  ASSUME NEW m, MapsOK(m), NEW tid \in Tids
  PROVE  m \in MapsType /\ m.THREAD_ACTIVE_TASK[tid] \in Tasks \cup {NULL}
BY MapsFields DEF MapsOK

(* task_ctx_push on the active task keeps TASK_CTX the top of the stack.    *)
LEMMA PushOnActiveTask ==
  ASSUME NEW m, MapsOK(m), NEW tid \in Tids, NEW c \in CtxIds
  PROVE  Grows(m, push_on_active_task(m, tid, c), 0)
BY ActiveTask, TaskCtxPush, Same DEF push_on_active_task

(* Starting a tool takes one context id at most.                            *)
LEMMA BeginTool ==
  ASSUME NEW m, MapsOK(m), NEW tid \in Tids, NEW f \in Frames, NEW parent \in ParentPtrs,
         NEW c \in CtxIds
  PROVE  Grows(m, begin_tool(m, tid, f, parent, c), 0)
<1> DEFINE e == entry(c, f, parent, tool_of(m, c))
           m1 == tool_stack_push(m, tid, e)
           m2 == emit_start(m1, c)
           m3 == push_on_active_task(m2, tid, c)
<1>1. m \in MapsType
  BY DEF MapsOK
<1>2. begin_tool(m, tid, f, parent, c) = m3
  BY DEF begin_tool
<1>3. e \in ToolStackEntry
  BY <1>1, EntryType, ToolOfType DEF CtxOrNull
<1> HIDE DEF e
<1>4. Steady(m, m1)
  BY <1>1, <1>3, ToolStackPush
<1> HIDE DEF m1
<1>5. Steady(m1, m2)
  BY <1>4, EmitStart DEF Steady
<1> HIDE DEF m2
<1>6. Grows(m, m2, 0)
  BY <1>4, <1>5, SteadyTrans, SteadyGrows
<1>7. Grows(m2, m3, 0)
  BY <1>6, PushOnActiveTask DEF Grows
<1> QED
  BY <1>2, <1>6, <1>7, KeepsTrans

(* A fresh context that finds the stack full is dropped; otherwise it goes  *)
(* on the stack, with the same counter.                                     *)
LEMMA FreshCtx ==
  ASSUME NEW m, MapsOK(m), m.CTX_COUNTER < MaxCtx, NEW tid \in Tids, NEW f \in Frames,
         NEW tool \in ToolIds \cup {TOOL_IDLE}, NEW async \in BOOLEAN
  PROVE  LET c == alloc_ctx_id(m)
             r == new_ctx(m, f, tool, async)
         IN  /\ c \in CtxIds
             /\ Grows(m, drop_ctx(r, f, c), 1)
             /\ Grows(m, ctx_stack_push(r, tid, c), 1)
<1> DEFINE c == alloc_ctx_id(m)
           r == new_ctx(m, f, tool, async)
<1>1. c \in CtxIds /\ Grows(m, r, 1)
  BY NewCtx
<1> HIDE DEF c, r
<1>2. MapsOK(r) /\ r \in MapsType
  BY <1>1 DEF Grows, MapsOK
<1>3. Grows(r, drop_ctx(r, f, c), 0) /\ Grows(r, ctx_stack_push(r, tid, c), 0)
  BY <1>1, <1>2, DropCtx, CtxStackPush, SteadyGrows
<1>4. Grows(m, drop_ctx(r, f, c), 1 + 0) /\ Grows(m, ctx_stack_push(r, tid, c), 1 + 0)
  BY <1>1, <1>3, GrowsTrans
<1> QED
  BY <1>1, <1>4 DEF c, r

(* A handler step that allocates, then one that does not.                   *)
LEMMA GrowsThenKeeps ==
  ASSUME NEW m, MapsOK(m), NEW r, NEW s, NEW a \in Nat, Grows(m, r, a), Grows(r, s, 0)
  PROVE  Grows(m, s, a)
BY GrowsTrans

(* A handler step that does not allocate, then one that may.                *)
LEMMA KeepsThenGrows ==
  ASSUME NEW m, MapsOK(m), NEW r, NEW s, NEW a \in Nat, Grows(m, r, 0), Grows(r, s, a)
  PROVE  Grows(m, s, a)
BY GrowsTrans

(* start_cached_self_tool_root takes one context id at most.                *)
LEMMA StartCached ==
  ASSUME NEW m, MapsOK(m), m.CTX_COUNTER < MaxCtx, NEW tid \in Tids, NEW f \in Frames,
         NEW parent \in ParentPtrs, NEW tool \in ToolIds \cup {TOOL_IDLE}, NEW async \in BOOLEAN
  PROVE  Grows(m, start_cached_self_tool_root(m, tid, f, parent, tool, async), 1)
<1> DEFINE c == alloc_ctx_id(m)
           r == new_ctx(m, f, tool, async)
           m1 == drop_ctx(r, f, c)
           m2 == ctx_stack_push(r, tid, c)
           m3 == begin_tool(m2, tid, f, parent, c)
<1>1. start_cached_self_tool_root(m, tid, f, parent, tool, async) =
        IF tool = TOOL_IDLE THEN m ELSE IF ctx_stack_full(m, tid) THEN m1 ELSE m3
  BY DEF start_cached_self_tool_root
<1>2. c \in CtxIds /\ Grows(m, m1, 1) /\ Grows(m, m2, 1)
  BY FreshCtx
<1> HIDE DEF c, r, m1, m2
<1>3. Grows(m2, m3, 0)
  BY <1>2, BeginTool DEF Grows
<1> HIDE DEF m3
<1>4. Grows(m, m3, 1)
  BY <1>2, <1>3, GrowsThenKeeps
<1>5. Grows(m, m, 1)
  <2>1. m.CTX_COUNTER \in Nat
    BY MapsFields DEF MapsOK
  <2> QED
    BY <2>1, Same DEF Grows
<1> QED
  BY <1>1, <1>2, <1>4, <1>5

(* start_cached_parent_tool_if_needed takes one context id at most.         *)
LEMMA StartParent ==
  ASSUME NEW m, MapsOK(m), m.CTX_COUNTER < MaxCtx, NEW py \in PyType, NEW tid \in Tids,
         NEW parent \in ParentPtrs
  PROVE  Grows(m, start_cached_parent_tool_if_needed(m, py, tid, parent), 1)
<1> DEFINE idle == \/ parent \notin Frames
                   \/ m.FRAME_CTX[parent] # NULL
                   \/ py.code[parent].kind # IMPL
                   \/ cached_frame_self_tool_id(m, py, parent) = TOOL_IDLE
           m1 == frame_stash_push(m, tid, parent)
           prev == py.prev[parent]
           tool == cached_frame_self_tool_id(m, py, parent)
           async == py.code[parent].async
           m2 == start_cached_self_tool_root(m1, tid, parent, prev, tool, async)
<1>1. start_cached_parent_tool_if_needed(m, py, tid, parent) = IF idle THEN m ELSE m2
  BY DEF start_cached_parent_tool_if_needed
<1>2. m \in MapsType /\ m.CTX_COUNTER \in Nat
  BY MapsFields DEF MapsOK
<1>3. Grows(m, m, 1)
  BY <1>2, Same DEF Grows
<1>4. ASSUME ~idle PROVE Grows(m, m2, 1)
  <2>1. parent \in Frames /\ py.code[parent].kind \notin WorkKinds
    BY <1>4 DEF IMPL, WorkKinds, WORKITEM_CTOR, WORKITEM_RUN, THREAD_CTOR, THREAD_RUN
  <2>2. prev \in ParentPtrs /\ async \in BOOLEAN /\ tool \in ToolIds \cup {TOOL_IDLE}
    BY <1>2, <2>1, PyFields, CachedTool
  <2> HIDE DEF idle, prev, async, tool
  <2>3. Steady(m, m1)
    BY <1>2, <2>1, FrameStashPush
  <2>4. Grows(m, m1, 0) /\ m1.CTX_COUNTER = m.CTX_COUNTER
    BY <2>3, SteadyGrows DEF Steady
  <2> HIDE DEF m1
  <2>5. MapsOK(m1) /\ m1.CTX_COUNTER < MaxCtx
    BY <2>4 DEF Grows
  <2>6. Grows(m1, m2, 1)
    BY <2>1, <2>2, <2>5, StartCached
  <2> QED
    BY <2>4, <2>6, KeepsThenGrows
<1> HIDE DEF idle, m2
<1> QED
  BY <1>1, <1>3, <1>4

(* close_tool_stack_entry keeps the task map consistent.                    *)
LEMMA CloseEntry ==
  ASSUME NEW m, MapsOK(m), NEW tid \in Tids, NEW e \in ToolStackEntry
  PROVE  Grows(m, close_tool_stack_entry(m, tid, e), 0)
<1> DEFINE task == m.THREAD_ACTIVE_TASK[tid]
           c == e.ctx_id
           gone == m.FRAME_CTX[e.frame_ptr] # c
           parks == ctx_is_live(m, c) /\ m.TOOL_CTX[c].async /\ e.tool_id # TOOL_IDLE
           m1 == finish_tool_close(m, tid, e)
           m2 == defer_tool_close(m, task, e)
           m3 == task_ctx_remove(m2, tid, task, c)
           m4 == task_ctx_remove(m, tid, task, c)
           m5 == finish_tool_close(m4, tid, e)
<1>1. close_tool_stack_entry(m, tid, e) =
        IF gone THEN m ELSE IF task = NULL THEN m1 ELSE IF parks THEN m3 ELSE m5
  BY DEF close_tool_stack_entry
<1>2. m \in MapsType /\ task \in Tasks \cup {NULL}
  BY ActiveTask
<1>3. c \in CtxIds
  BY DEF ToolStackEntry
<1> HIDE DEF gone, parks, task, c
<1>4. Grows(m, m, 0)
  BY Same
<1>5. Grows(m, m1, 0)
  BY <1>2, FinishToolClose, SteadyGrows
<1>6. ASSUME task # NULL PROVE Grows(m, m3, 0)
  <2>1. Grows(m, m2, 0)
    BY <1>2, <1>6, DeferToolClose, SteadyGrows
  <2> HIDE DEF m2
  <2>2. Grows(m2, m3, 0)
    BY <1>2, <1>3, <1>6, <2>1, TaskCtxRemove DEF Grows
  <2> QED
    BY <2>1, <2>2, KeepsTrans
<1>7. ASSUME task # NULL PROVE Grows(m, m5, 0)
  <2>1. Grows(m, m4, 0)
    BY <1>2, <1>3, <1>7, TaskCtxRemove
  <2> HIDE DEF m4
  <2>2. MapsOK(m4) /\ m4 \in MapsType
    BY <2>1 DEF Grows, MapsOK
  <2>3. Grows(m4, m5, 0)
    BY <2>2, FinishToolClose, SteadyGrows
  <2> QED
    BY <2>1, <2>3, KeepsTrans
<1> HIDE DEF m1, m3, m5
<1> QED
  BY <1>1, <1>4, <1>5, <1>6, <1>7

(* Closing the tool at a position of the tool stack keeps the task map      *)
(* consistent.                                                              *)
LEMMA CloseAt ==
  ASSUME NEW m, MapsOK(m), NEW n, MapsOK(n), NEW tid \in Tids,
         NEW i \in 0..Len(m.TOOL_STACK[tid]), i # 0, n.TOOL_STACK = m.TOOL_STACK
  PROVE  Grows(n, close_at(n, tid, i), 0)
<1> DEFINE r == tool_stack_remove_at(n, tid, i)
           e == n.TOOL_STACK[tid][i]
           s == close_tool_stack_entry(r, tid, e)
<1>1. close_at(n, tid, i) = s
  BY DEF close_at
<1>2. n \in MapsType
  BY DEF MapsOK
<1>3. Steady(n, r) /\ e \in ToolStackEntry
  BY <1>2, ToolStackRemoveAt
<1> HIDE DEF r, e
<1>4. Grows(n, r, 0)
  BY <1>3, SteadyGrows
<1>5. Grows(r, s, 0)
  BY <1>3, <1>4, CloseEntry DEF Grows
<1> QED
  BY <1>1, <1>4, <1>5, KeepsTrans

(* Taking a context from its frame at re-entry keeps the task map           *)
(* consistent.                                                              *)
LEMMA EndFrameCtx ==
  ASSUME NEW m, MapsOK(m), NEW tid \in Tids, NEW f \in Frames, NEW c \in CtxIds
  PROVE  Grows(m, end_frame_ctx(m, tid, f, c), 0)
<1> DEFINE m1 == [m EXCEPT !.FRAME_CTX[f] = NULL]
           m2 == ctx_stack_remove(m1, tid, c)
           m3 == carrier_dec(emit_frame_end(m2, c), c)
<1>1. end_frame_ctx(m, tid, f, c) = m3
  BY DEF end_frame_ctx
<1>2. m \in MapsType
  BY DEF MapsOK
<1>3. Steady(m, m1)
  BY <1>2, ClearFrame, Zenon
<1> HIDE DEF m1
<1>4. Steady(m1, m2)
  BY <1>3, CtxStackRemove DEF Steady
<1> HIDE DEF m2
<1>5. Steady(m2, m3)
  BY <1>4, EndCarrier DEF Steady
<1> HIDE DEF m3
<1> QED
  BY <1>1, <1>3, <1>4, <1>5, SteadyTrans, SteadyGrows

(* A re-entry that finds its context, with or without a new tool, takes no  *)
(* id.                                                                      *)
LEMMA Reenter ==
  ASSUME NEW m, MapsOK(m), NEW tid \in Tids, NEW f \in Frames, NEW parent \in ParentPtrs,
         NEW c \in CtxIds
  PROVE  Grows(m, reenter(m, tid, f, parent, c), 0)
<1> DEFINE task == m.THREAD_ACTIVE_TASK[tid]
           e == entry(c, f, parent, tool_of(m, c))
           m0 == tool_stack_refresh(m, tid, e)
           m1 == set_active(m0, tid, c)
           m2 == cancel_deferred_tool_close(m1, task, c, f)
           m3 == task_ctx_push(m2, tid, task, c)
<1>1. reenter(m, tid, f, parent, c) = IF task = NULL THEN m1 ELSE m3
  BY DEF reenter
<1>2. m \in MapsType /\ task \in Tasks \cup {NULL}
  BY ActiveTask
<1>3. e \in ToolStackEntry
  BY <1>2, EntryType, ToolOfType DEF CtxOrNull
<1> HIDE DEF e, task
<1>4. Steady(m, m0)
  BY <1>2, <1>3, ToolStackRefresh
<1> HIDE DEF m0
<1>5. Steady(m0, m1)
  BY <1>4, SetActive DEF Steady, CtxOrNull
<1> HIDE DEF m1
<1>6. Grows(m, m1, 0) /\ m1 \in MapsType
  BY <1>4, <1>5, SteadyTrans, SteadyGrows DEF Steady
<1>7. ASSUME task # NULL PROVE Grows(m, m3, 0)
  <2>1. Grows(m1, m2, 0)
    BY <1>2, <1>6, <1>7, CancelDeferred, SteadyGrows DEF Grows
  <2> HIDE DEF m2
  <2>2. Grows(m2, m3, 0)
    BY <1>2, <1>7, <2>1, TaskCtxPush DEF Grows
  <2>3. Grows(m, m2, 0)
    BY <1>6, <2>1, KeepsTrans
  <2> QED
    BY <2>2, <2>3, KeepsTrans
<1> HIDE DEF m3
<1> QED
  BY <1>1, <1>6, <1>7

(* The context a frame owns is a context or NULL.                           *)
LEMMA FrameCtxType ==
  ASSUME NEW m, MapsOK(m), NEW f \in Frames
  PROVE  m.FRAME_CTX[f] \in CtxOrNull
BY MapsFields DEF MapsOK

(* A frame is stashed and its context started.                              *)
LEMMA StashAndStart ==
  ASSUME NEW m, MapsOK(m), m.CTX_COUNTER < MaxCtx, NEW tid \in Tids, NEW f \in Frames,
         NEW parent \in ParentPtrs, NEW tool \in ToolIds \cup {TOOL_IDLE}, NEW async \in BOOLEAN
  PROVE  Grows(m, start_cached_self_tool_root(frame_stash_push(m, tid, f), tid, f,
                                              parent, tool, async), 1)
<1> DEFINE r == frame_stash_push(m, tid, f)
<1>1. Grows(m, r, 0) /\ r.CTX_COUNTER < MaxCtx
  BY FrameStashPush, SteadyGrows DEF MapsOK, Steady
<1> HIDE DEF r
<1>2. Grows(r, start_cached_self_tool_root(r, tid, f, parent, tool, async), 1)
  BY <1>1, StartCached DEF Grows
<1>3. Grows(m, start_cached_self_tool_root(r, tid, f, parent, tool, async), 1)
  BY <1>1, <1>2, KeepsThenGrows
<1> QED
  BY <1>3 DEF r

(* The entry of a tool implementation takes two context ids at most.        *)
LEMMA ImplEntry ==
  ASSUME NEW m, MapsOK(m), m.CTX_COUNTER + 2 <= MaxCtx, NEW py \in PyType, NEW tid \in Tids,
         NEW f \in Frames, py.code[f].kind = IMPL
  PROVE  Grows(m, impl_frame_entry(m, py, tid, f), 2)
<1> DEFINE parent == py.prev[f]
           async == py.code[f].async
           m1 == start_cached_parent_tool_if_needed(m, py, tid, parent)
           tool == cached_frame_self_tool_id(m1, py, f)
           m2 == IF tool = TOOL_IDLE THEN emit_frame_self_resolver_candidate(m1, py, f) ELSE m1
           c == m2.FRAME_CTX[f]
           i == find_frame_ctx(m2, tid, f, c)
           Start(r) == start_cached_self_tool_root(frame_stash_push(r, tid, f), tid, f,
                                                   parent, tool, async)
           closed == IF i = 0 THEN m2 ELSE close_at(m2, tid, i)
           re == reenter(m2, tid, f, parent, c)
           act == get_active_ctx(m2, tid)
           changed == tool # TOOL_IDLE /\ tool # tool_of(m2, c)
           same == tool_of(act, act.THREAD_ACTIVE_CTX[tid]) = tool
<1>1. impl_frame_entry(m, py, tid, f) =
        IF c # NULL THEN IF changed THEN Start(closed) ELSE re
        ELSE IF tool = TOOL_IDLE THEN m2 ELSE IF same THEN act ELSE Start(act)
  BY Zenon DEF impl_frame_entry, resolve_impl, enter_impl
<1>2. py.code[f].kind \notin WorkKinds
  BY DEF IMPL, WorkKinds, WORKITEM_CTOR, WORKITEM_RUN, THREAD_CTOR, THREAD_RUN
<1>3. parent \in ParentPtrs /\ async \in BOOLEAN
  BY PyFields
<1>4. m \in MapsType /\ m.CTX_COUNTER \in Nat /\ m.CTX_COUNTER < MaxCtx
  BY MapsFields, BoundsAssumption DEF MapsOK
<1> HIDE DEF parent, async
<1>5. Grows(m, m1, 1)
  BY <1>3, <1>4, StartParent
<1> HIDE DEF m1
<1>6. MapsOK(m1) /\ m1 \in MapsType
  BY <1>5 DEF Grows, MapsOK
<1>7. tool \in ToolIds \cup {TOOL_IDLE}
  BY <1>2, <1>6, CachedTool
<1> HIDE DEF tool
<1>8. Grows(m1, m2, 0)
  BY <1>2, <1>6, EmitFrameSelf, Same
<1> HIDE DEF m2
<1>9. Grows(m, m2, 1) /\ MapsOK(m2) /\ m2 \in MapsType
  BY <1>5, <1>8, GrowsThenKeeps DEF Grows, MapsOK
<1>10. c \in CtxOrNull /\ i \in 0..Len(m2.TOOL_STACK[tid])
  BY <1>9, FrameCtxType, FindFrameCtx
<1> HIDE DEF c, i
<1>11. Grows(m2, closed, 0)
  BY <1>9, <1>10, CloseAt, Same
<1>12. ASSUME c # NULL PROVE Grows(m2, re, 0)
  BY <1>3, <1>9, <1>10, <1>12, Reenter DEF CtxOrNull
<1>13. Grows(m2, act, 0)
  BY <1>9, GetActive, SteadyGrows
<1> HIDE DEF closed, re, act
<1>14. ASSUME NEW r, Grows(m2, r, 0) PROVE Grows(m, Start(r), 2)
  <2>1. Grows(m, r, 1)
    BY <1>9, <1>14, GrowsThenKeeps
  <2>2. MapsOK(r) /\ r.CTX_COUNTER \in Nat /\ r.CTX_COUNTER <= m.CTX_COUNTER + 1
    BY <2>1, MapsFields DEF Grows, MapsOK
  <2>3. r.CTX_COUNTER < MaxCtx
    BY <1>4, <2>2, BoundsAssumption
  <2>4. Grows(r, Start(r), 1)
    BY <1>3, <1>7, <2>2, <2>3, StashAndStart
  <2>5. Grows(m, Start(r), 1 + 1)
    BY <2>1, <2>4, GrowsTrans
  <2> QED
    BY <2>5
<1> HIDE DEF Start
<1>15. ASSUME NEW r, Grows(m2, r, 0) PROVE Grows(m, r, 2)
  <2>1. Grows(m, r, 1)
    BY <1>9, <1>15, GrowsThenKeeps
  <2>2. r.CTX_COUNTER \in Nat
    BY <2>1, MapsFields DEF Grows, MapsOK
  <2> QED
    BY <1>4, <2>1, <2>2 DEF Grows
<1>16. Grows(m2, m2, 0)
  BY <1>9, Same
<1> HIDE DEF changed, same
<1> QED
  BY <1>1, <1>11, <1>12, <1>13, <1>14, <1>15, <1>16

(* A LangChain root takes one context id at most.                           *)
LEMMA StartRootLC ==
  ASSUME NEW m, MapsOK(m), m.CTX_COUNTER < MaxCtx, NEW py \in PyType, NEW tid \in Tids,
         NEW f \in Frames, py.code[f].kind \notin WorkKinds
  PROVE  Grows(m, start_root_lc(m, py, tid, f), 1)
<1> DEFINE c == alloc_ctx_id(m)
           task == m.THREAD_ACTIVE_TASK[tid]
           async == py.code[f].async
           parent == py.prev[f]
           m1 == new_ctx(m, f, TOOL_IDLE, async)
           d1 == drop_ctx(m1, f, c)
           p1 == ctx_stack_push(m1, tid, c)
           m2 == extract_and_resolve(p1, py, f, c)
           r2 == ctx_stack_remove(m2, tid, c)
           d2 == drop_ctx(r2, f, c)
           b2 == begin_tool(m2, tid, f, parent, c)
           dup == task # NULL /\ task_ctx_contains_tool(m2, task, tool_of(m2, c))
<1>1. start_root_lc(m, py, tid, f) =
        IF ctx_stack_full(m, tid) THEN d1 ELSE IF dup THEN d2 ELSE b2
  BY Zenon DEF start_root_lc
<1>2. parent \in ParentPtrs /\ async \in BOOLEAN
  BY PyFields
<1> HIDE DEF parent, async
<1>3. c \in CtxIds /\ Grows(m, d1, 1) /\ Grows(m, p1, 1)
  BY <1>2, FreshCtx
<1> HIDE DEF d1, p1, c
<1>4. Grows(p1, m2, 0)
  BY <1>3, ExtractAndResolve DEF Grows, CtxOrNull
<1> HIDE DEF m2
<1>5. Grows(m, m2, 1) /\ MapsOK(m2) /\ m2 \in MapsType
  BY <1>3, <1>4, GrowsThenKeeps DEF Grows, MapsOK
<1>6. Steady(m2, r2)
  BY <1>3, <1>5, CtxStackRemove DEF CtxOrNull
<1> HIDE DEF r2
<1>7. Steady(r2, d2)
  BY <1>3, <1>6, DropCtx DEF Steady
<1> HIDE DEF d2
<1>8. Grows(m2, d2, 0)
  BY <1>5, <1>6, <1>7, SteadyTrans, SteadyGrows
<1>9. Grows(m2, b2, 0)
  BY <1>2, <1>3, <1>5, BeginTool
<1> HIDE DEF b2
<1>10. Grows(m, d2, 1) /\ Grows(m, b2, 1)
  BY <1>5, <1>8, <1>9, GrowsThenKeeps
<1> HIDE DEF dup
<1> QED
  BY <1>1, <1>3, <1>10

(* A LangGraph root takes one context id at most.                           *)
LEMMA StartRootLG ==
  ASSUME NEW m, MapsOK(m), m.CTX_COUNTER < MaxCtx, NEW py \in PyType, NEW tid \in Tids,
         NEW f \in Frames
  PROVE  Grows(m, start_root_lg(m, py, tid, f), 1)
<1> DEFINE c == alloc_ctx_id(m)
           async == py.code[f].async
           m1 == new_ctx(m, f, TOOL_IDLE, async)
           d1 == drop_ctx(m1, f, c)
           p1 == ctx_stack_push(m1, tid, c)
           e1 == emit_start(p1, c)
<1>1. start_root_lg(m, py, tid, f) = IF ctx_stack_full(m, tid) THEN d1 ELSE e1
  BY DEF start_root_lg
<1>2. async \in BOOLEAN
  BY PyFields
<1> HIDE DEF async
<1>3. c \in CtxIds /\ Grows(m, d1, 1) /\ Grows(m, p1, 1)
  BY <1>2, FreshCtx
<1> HIDE DEF d1, p1, c
<1>4. MapsOK(p1) /\ p1 \in MapsType
  BY <1>3 DEF Grows, MapsOK
<1>5. Grows(p1, e1, 0)
  BY <1>3, <1>4, EmitStart, SteadyGrows
<1> HIDE DEF e1
<1>6. Grows(m, e1, 1)
  BY <1>3, <1>5, GrowsThenKeeps
<1> QED
  BY <1>1, <1>3, <1>6

(* The active context of a thread is a context or NULL.                     *)
LEMMA ActiveCtx ==
  ASSUME NEW m, MapsOK(m), NEW tid \in Tids
  PROVE  m.THREAD_ACTIVE_CTX[tid] \in CtxOrNull
BY MapsFields DEF MapsOK

(* A rule that only identifies takes no context id.                         *)
LEMMA ApplyIdRule ==
  ASSUME NEW m, MapsOK(m), NEW py \in PyType, NEW tid \in Tids,
         NEW f \in Frames, py.code[f].kind \notin WorkKinds
  PROVE  Grows(m, apply_id_rule(m, py, tid, f), 0)
<1> DEFINE act == get_active_ctx(m, tid)
           c == act.THREAD_ACTIVE_CTX[tid]
           r == extract_and_resolve(act, py, f, c)
<1>1. apply_id_rule(m, py, tid, f) = IF c = NULL THEN act ELSE r
  BY DEF apply_id_rule
<1>2. Grows(m, act, 0)
  BY GetActive, SteadyGrows DEF MapsOK
<1> HIDE DEF act
<1>3. MapsOK(act) /\ c \in CtxOrNull
  BY <1>2, ActiveCtx DEF Grows
<1> HIDE DEF c
<1>4. Grows(act, r, 0)
  BY <1>3, ExtractAndResolve
<1> HIDE DEF r
<1>5. Grows(m, r, 0)
  BY <1>2, <1>4, GrowsThenKeeps
<1> QED
  BY <1>1, <1>2, <1>5

(* A root rule of any kind takes one context id at most.                    *)
LEMMA StartRoot ==
  ASSUME NEW m, MapsOK(m), NEW py \in PyType, NEW tid \in Tids,
         NEW f \in Frames, py.code[f].kind \notin WorkKinds,
         py.code[f].kind \in {LC, LG} => m.CTX_COUNTER < MaxCtx
  PROVE  Grows(m, start_root(m, py, tid, f), 1)
<1> DEFINE kind == py.code[f].kind
           s == frame_stash_push(m, tid, f)
           lc == start_root_lc(s, py, tid, f)
           lg == start_root_lg(s, py, tid, f)
           id == apply_id_rule(s, py, tid, f)
<1>1. start_root(m, py, tid, f) =
        IF kind = LC THEN lc ELSE IF kind = LG THEN lg ELSE IF kind = ID THEN id ELSE s
  BY DEF start_root, LC, LG, ID
<1>2. Grows(m, s, 0) /\ s.CTX_COUNTER = m.CTX_COUNTER /\ MapsOK(s)
  BY FrameStashPush, SteadyGrows DEF MapsOK, Steady, Grows
<1> HIDE DEF s
<1>3. ASSUME kind = LC PROVE Grows(s, lc, 1)
  BY <1>2, <1>3, StartRootLC
<1>4. ASSUME kind = LG PROVE Grows(s, lg, 1)
  BY <1>2, <1>4, StartRootLG
<1>5. Grows(s, id, 0)
  BY <1>2, ApplyIdRule
<1> HIDE DEF lc, lg, id
<1>6. (kind = LC => Grows(m, lc, 1)) /\ (kind = LG => Grows(m, lg, 1))
  BY <1>2, <1>3, <1>4, KeepsThenGrows
<1>7. Grows(m, id, 0)
  BY <1>2, <1>5, GrowsThenKeeps
<1>8. ASSUME NEW r, Grows(m, r, 0) PROVE Grows(m, r, 1)
  <2>1. m.CTX_COUNTER \in Nat /\ r.CTX_COUNTER \in Nat
    BY <1>8, MapsFields DEF Grows, MapsOK
  <2> QED
    BY <1>8, <2>1 DEF Grows
<1> QED
  BY <1>1, <1>2, <1>6, <1>7, <1>8

(* A root frame, entered or re-entered, takes one context id at most.       *)
LEMMA RootFrameEntry ==
  ASSUME NEW m, MapsOK(m), NEW py \in PyType, NEW tid \in Tids,
         NEW f \in Frames, py.code[f].kind \notin WorkKinds,
         \/ py.code[f].kind \notin {LC, LG}
         \/ m.CTX_COUNTER < MaxCtx
         \/ /\ m.FRAME_CTX[f] # NULL
            /\ cached_frame_self_tool_id(m, py, f) \in {TOOL_IDLE, tool_of(m, m.FRAME_CTX[f])}
  PROVE  Grows(m, root_frame_entry(m, py, tid, f), 1)
<1> DEFINE c == m.FRAME_CTX[f]
           tool == cached_frame_self_tool_id(m, py, f)
           i == find_frame_ctx(m, tid, f, c)
           known == tool = TOOL_IDLE \/ tool = tool_of(m, c)
           parent == py.prev[f]
           re == reenter(m, tid, f, parent, c)
           ended == end_frame_ctx(m, tid, f, c)
           closed == close_at(m, tid, i)
           m1 == IF i = 0 THEN ended ELSE closed
           s0 == start_root(m, py, tid, f)
           s1 == start_root(m1, py, tid, f)
<1>1. root_frame_entry(m, py, tid, f) = IF c = NULL THEN s0 ELSE IF known THEN re ELSE s1
  BY DEF root_frame_entry
<1>2. c \in CtxOrNull /\ i \in 0..Len(m.TOOL_STACK[tid]) /\ parent \in ParentPtrs
  BY FrameCtxType, FindFrameCtx, PyFields DEF MapsOK
<1>3. c = NULL \/ ~known => (py.code[f].kind \in {LC, LG} => m.CTX_COUNTER < MaxCtx)
  OBVIOUS
<1>4. m.CTX_COUNTER \in Nat
  BY MapsFields DEF MapsOK
<1> HIDE DEF c, i, parent, known
<1>5. ASSUME c # NULL PROVE Grows(m, m1, 0)
  <2>1. CASE i = 0
    BY <1>2, <1>5, <2>1, EndFrameCtx DEF CtxOrNull
  <2>2. CASE i # 0
    BY <1>2, <2>2, CloseAt
  <2> QED
    BY <2>1, <2>2
<1> HIDE DEF m1
<1>6. ASSUME c # NULL PROVE Grows(m, re, 0)
  BY <1>2, <1>6, Reenter DEF CtxOrNull
<1> HIDE DEF re
<1>7. ASSUME NEW r, Grows(m, r, 0) PROVE Grows(m, r, 1)
  <2>1. r.CTX_COUNTER \in Nat
    BY <1>7, MapsFields DEF Grows, MapsOK
  <2> QED
    BY <1>4, <1>7, <2>1 DEF Grows
<1>8. ASSUME c = NULL PROVE Grows(m, s0, 1)
  BY <1>3, <1>8, StartRoot
<1> HIDE DEF s0
<1>9. ASSUME c # NULL, ~known PROVE Grows(m, s1, 1)
  <2>1. MapsOK(m1) /\ m1.CTX_COUNTER <= m.CTX_COUNTER /\ m1.CTX_COUNTER \in Nat
    BY <1>4, <1>5, <1>9, MapsFields DEF Grows, MapsOK
  <2>2. py.code[f].kind \in {LC, LG} => m1.CTX_COUNTER < MaxCtx
    BY <1>3, <1>4, <1>9, <2>1, BoundsAssumption
  <2>3. Grows(m1, s1, 1)
    BY <2>1, <2>2, StartRoot
  <2> QED
    BY <1>5, <1>9, <2>3, KeepsThenGrows
<1> HIDE DEF s1
<1> QED
  BY <1>1, <1>6, <1>7, <1>8, <1>9

(* The entry probe of a frame that is no worker frame.                      *)
LEMMA FrameEntry ==
  ASSUME NEW m, MapsOK(m), NEW py \in PyType, NEW tid \in Tids,
         NEW f \in Frames, py.code[f].kind \notin WorkKinds,
         py.code[f].kind = IMPL => m.CTX_COUNTER + 2 <= MaxCtx,
         \/ py.code[f].kind \notin {LC, LG}
         \/ m.CTX_COUNTER < MaxCtx
         \/ /\ m.FRAME_CTX[f] # NULL
            /\ cached_frame_self_tool_id(m, py, f) \in {TOOL_IDLE, tool_of(m, m.FRAME_CTX[f])}
  PROVE  Grows(m, handle_frame_entry(m, py, tid, f), 2)
<1> DEFINE impl == impl_frame_entry(m, py, tid, f)
           root == root_frame_entry(m, py, tid, f)
           kind == py.code[f].kind
<1>1. handle_frame_entry(m, py, tid, f) =
        IF kind = PLAIN THEN m ELSE IF kind = IMPL THEN impl ELSE root
  BY DEF handle_frame_entry, PLAIN, IMPL
<1>2. kind = IMPL => Grows(m, impl, 2)
  BY ImplEntry
<1>3. Grows(m, root, 1)
  BY RootFrameEntry
<1>4. Grows(m, m, 0)
  BY Same
<1> HIDE DEF impl, root
<1>5. ASSUME NEW r, NEW a \in {0, 1}, Grows(m, r, a) PROVE Grows(m, r, 2)
  <2>1. m.CTX_COUNTER \in Nat /\ r.CTX_COUNTER \in Nat
    BY <1>5, MapsFields DEF Grows, MapsOK
  <2> QED
    BY <1>5, <2>1 DEF Grows
<1> QED
  BY <1>1, <1>2, <1>3, <1>4, <1>5

(* Building a coroutine takes no context id.                                *)
LEMMA CoroutineCreation ==
  ASSUME NEW m, MapsOK(m), NEW py \in PyType, NEW f \in Frames
  PROVE  Grows(m, handle_coroutine_creation(m, py, f), 0)
<1>1. CASE py.code[f].kind = LC
  <2>1. py.code[f].kind \notin WorkKinds
    BY <1>1 DEF LC, WorkKinds, WORKITEM_CTOR, WORKITEM_RUN, THREAD_CTOR, THREAD_RUN
  <2> QED
    BY <1>1, <2>1, ExtractAndResolve DEF CtxOrNull, handle_coroutine_creation
<1>2. CASE py.code[f].kind # LC
  BY <1>2, Same DEF handle_coroutine_creation
<1> QED
  BY <1>1, <1>2

(* The top of the frame entry stash is an entry of it.                      *)
LEMMA StashTop ==
  ASSUME NEW m, MapsOK(m), NEW tid \in Tids, m.FRAME_ENTRY_STASH[tid] # <<>>
  PROVE  Last(m.FRAME_ENTRY_STASH[tid]) \in Frames
<1>1. m.FRAME_ENTRY_STASH[tid] \in Seq(Frames)
  BY MapsFields DEF MapsOK
<1> QED
  BY <1>1 DEF Last

(* Popping the stash leaves the tool stack as it is.                        *)
LEMMA PopKeepsTools ==
  ASSUME NEW m \in MapsType, NEW tid \in Tids
  PROVE  frame_stash_pop(m, tid).TOOL_STACK = m.TOOL_STACK
BY Zenon DEF MapsType, frame_stash_pop

(* The legacy exit path keeps the task map consistent.                      *)
LEMMA FrameExitLegacy ==
  ASSUME NEW m, MapsOK(m), NEW tid \in Tids
  PROVE  Grows(m, handle_frame_exit_legacy(m, tid), 0)
<1> DEFINE f == Last(m.FRAME_ENTRY_STASH[tid])
           m1 == frame_stash_pop(m, tid)
           c == m.FRAME_CTX[f]
           i == find_frame_ctx(m1, tid, f, c)
           closed == close_at(m1, tid, i)
           ended == end_frame_ctx(m1, tid, f, c)
           unseen == ctx_is_live(m, c) /\ ~m.TOOL_CTX[c].seen
<1>1. handle_frame_exit_legacy(m, tid) =
        IF m.FRAME_ENTRY_STASH[tid] = <<>> THEN m
        ELSE IF c = NULL THEN m1
        ELSE IF unseen THEN m
        ELSE IF i # 0 THEN closed ELSE ended
  BY DEF handle_frame_exit_legacy
<1>2. CASE m.FRAME_ENTRY_STASH[tid] = <<>>
  BY <1>2, Same DEF handle_frame_exit_legacy
<1>3. CASE m.FRAME_ENTRY_STASH[tid] # <<>>
  <2>1. f \in Frames
    BY <1>3, StashTop
  <2> HIDE DEF f
  <2>2. c \in CtxOrNull
    BY <2>1, FrameCtxType
  <2> HIDE DEF c
  <2>3. Grows(m, m1, 0) /\ MapsOK(m1) /\ m1 \in MapsType
    BY FrameStashPop, SteadyGrows DEF MapsOK, Steady, Grows
  <2> HIDE DEF m1
  <2>4. i \in 0..Len(m1.TOOL_STACK[tid])
    BY <2>1, <2>2, <2>3, FindFrameCtx
  <2> HIDE DEF i
  <2>5. i # 0 => Grows(m1, closed, 0)
    BY <2>3, <2>4, CloseAt
  <2>6. c # NULL => Grows(m1, ended, 0)
    BY <2>1, <2>2, <2>3, EndFrameCtx DEF CtxOrNull
  <2> HIDE DEF closed, ended, unseen
  <2>7. (i # 0 => Grows(m, closed, 0)) /\ (c # NULL => Grows(m, ended, 0))
    BY <2>3, <2>5, <2>6, GrowsThenKeeps
  <2> QED
    BY <1>1, <2>3, <2>7, Same
<1> QED
  BY <1>2, <1>3

(* The exit of a frame, normal or by an exception, keeps the task map       *)
(* consistent.                                                              *)
LEMMA FrameExit ==
  ASSUME NEW m, MapsOK(m), NEW tid \in Tids, NEW parent \in ParentPtrs
  PROVE  Grows(m, handle_frame_exit(m, tid, parent), 0)
<1> DEFINE f == Last(m.FRAME_ENTRY_STASH[tid])
           i == find_frame_parent(m, tid, f, parent)
           m1 == frame_stash_pop(m, tid)
           closed == close_at(m1, tid, i)
           legacy == handle_frame_exit_legacy(m, tid)
<1>1. handle_frame_exit(m, tid, parent) =
        IF m.FRAME_ENTRY_STASH[tid] # <<>> /\ i # 0 THEN closed ELSE legacy
  BY DEF handle_frame_exit
<1>2. ASSUME m.FRAME_ENTRY_STASH[tid] # <<>>, i # 0 PROVE Grows(m, closed, 0)
  <2>1. f \in Frames
    BY <1>2, StashTop
  <2> HIDE DEF f
  <2>2. i \in 0..Len(m.TOOL_STACK[tid])
    BY <2>1, FindFrameParent DEF MapsOK
  <2> HIDE DEF i
  <2>3. Grows(m, m1, 0) /\ MapsOK(m1) /\ m1.TOOL_STACK = m.TOOL_STACK
    BY FrameStashPop, SteadyGrows, PopKeepsTools DEF MapsOK, Steady, Grows
  <2> HIDE DEF m1
  <2>4. Grows(m1, closed, 0)
    BY <1>2, <2>2, <2>3, CloseAt
  <2> QED
    BY <2>3, <2>4, GrowsThenKeeps
<1>3. Grows(m, legacy, 0)
  BY FrameExitLegacy
<1> HIDE DEF closed, legacy
<1> QED
  BY <1>1, <1>2, <1>3

-----------------------------------------------------------------------------
(* task_probes.rs.                                                          *)

(* get_active_ctx (ownership.rs) as every handler starts with it.           *)
LEMMA GetActiveOK ==
  ASSUME NEW m, MapsOK(m), NEW tid \in Tids
  PROVE  /\ Grows(m, get_active_ctx(m, tid), 0)
         /\ MapsOK(get_active_ctx(m, tid))
         /\ get_active_ctx(m, tid) \in MapsType
         /\ get_active_ctx(m, tid).THREAD_ACTIVE_CTX[tid] \in CtxOrNull
<1> DEFINE r == get_active_ctx(m, tid)
<1>1. Steady(m, r) /\ r.THREAD_ACTIVE_CTX[tid] \in CtxOrNull
  BY GetActive DEF MapsOK
<1> HIDE DEF r
<1>2. Grows(m, r, 0)
  BY <1>1, SteadyGrows
<1>3. Grows(m, r, 0) /\ MapsOK(r) /\ r \in MapsType /\ r.THREAD_ACTIVE_CTX[tid] \in CtxOrNull
  BY <1>1, <1>2 DEF Grows, Steady
<1> QED
  BY <1>3 DEF r

(* handle_task_init, with its hand-over, keeps TASK_CTX the top of the      *)
(* stack.                                                                   *)
LEMMA TaskInitOK ==
  ASSUME NEW m, MapsOK(m), NEW tid \in Tids, NEW task \in Tasks
  PROVE  Grows(m, handle_task_init(m, tid, task), 0)
<1> DEFINE act == get_active_ctx(m, tid)
           c == act.THREAD_ACTIVE_CTX[tid]
           parent == act.THREAD_ACTIVE_TASK[tid]
           hands_over == /\ parent # NULL
                         /\ parent # task
                         /\ act.TASK_CTX[parent] = c
                         /\ Len(act.TASK_CTX_STACK[parent]) > 1
           removed == task_ctx_remove(act, tid, parent, c)
           m1 == IF hands_over THEN removed ELSE act
           m2 == task_ctx_push(m1, tid, task, c)
<1>1. handle_task_init(m, tid, task) = IF c = NULL THEN act ELSE m2
  BY DEF handle_task_init
<1>2. Grows(m, act, 0) /\ MapsOK(act) /\ c \in CtxOrNull
  BY GetActiveOK
<1> HIDE DEF act, c
<1>3. parent \in Tasks \cup {NULL}
  BY <1>2, ActiveTask
<1>4. hands_over => parent # NULL
  OBVIOUS
<1> HIDE DEF parent, hands_over
<1>5. ASSUME c # NULL PROVE Grows(m, m2, 0)
  <2>1. c \in CtxIds
    BY <1>2, <1>5 DEF CtxOrNull
  <2>2. hands_over => Grows(act, removed, 0)
    BY <1>2, <1>3, <1>4, <2>1, TaskCtxRemove
  <2> HIDE DEF removed
  <2>3. Grows(act, m1, 0)
    BY <1>2, <2>2, Same
  <2> HIDE DEF m1
  <2>4. Grows(m1, m2, 0)
    BY <2>1, <2>3, TaskCtxPush DEF Grows
  <2> HIDE DEF m2
  <2> QED
    BY <1>2, <2>3, <2>4, KeepsTrans
<1> HIDE DEF m2
<1> QED
  BY <1>1, <1>2, <1>5

(* Stashing the active task and context of a thread is steady.              *)
LEMMA SetStep ==
  ASSUME NEW m \in MapsType, NEW tid \in Tids, NEW s \in StepStash \cup {NULL},
         NEW task \in Tasks \cup {NULL}, NEW c \in CtxIds \cup {NULL}
  PROVE  /\ Steady(m, [m EXCEPT !.TASK_STEP_STASH[tid] = s, !.THREAD_ACTIVE_TASK[tid] = task])
         /\ Steady(m, [m EXCEPT !.THREAD_ACTIVE_CTX[tid] = c, !.THREAD_ACTIVE_TASK[tid] = task,
                                !.TASK_STEP_STASH[tid] = s])
BY Zenon DEF MapsType, Steady

(* Making a context of a map active after other changes.                    *)
LEMMA ThenActive ==
  ASSUME NEW m, MapsOK(m), NEW r, Grows(m, r, 0), NEW tid \in Tids, NEW c \in CtxOrNull
  PROVE  Grows(m, set_active(r, tid, c), 0)
<1> DEFINE s == set_active(r, tid, c)
<1>1. MapsOK(r) /\ r \in MapsType
  BY DEF Grows, MapsOK
<1>2. Grows(r, s, 0)
  BY <1>1, SetActive, SteadyGrows
<1> HIDE DEF s
<1>3. Grows(m, s, 0)
  BY <1>2, KeepsTrans
<1> QED
  BY <1>3 DEF s

(* handle_task_step_entry keeps the task map consistent.                    *)
LEMMA TaskStepEntryOK ==
  ASSUME NEW m, MapsOK(m), NEW tid \in Tids, NEW task \in Tasks
  PROVE  Grows(m, handle_task_step_entry(m, tid, task), 0)
<1> DEFINE act == get_active_ctx(m, tid)
           x == act.THREAD_ACTIVE_CTX[tid]
           k == act.THREAD_ACTIVE_TASK[tid]
           s == [ctx |-> x, task |-> k]
           m1 == [act EXCEPT !.TASK_STEP_STASH[tid] = s, !.THREAD_ACTIVE_TASK[tid] = task]
           top == ctx_stack_top(m1, tid)
           cleared == task_ctx_clear(m1, tid, task)
           restored == restore_deferred_tool_close(m1, tid, task)
           e == deferred_entry(m1, task).ctx_id
           ok == restore_deferred_ok(m1, task)
           d == m1.TASK_CTX[task]
           x1 == IF ctx_stack_contains(m1, tid, d) \/ top = NULL THEN d ELSE top
           x2 == IF ok THEN e ELSE NULL
           r1 == set_active(cleared, tid, NULL)
           r2 == set_active(m1, tid, x1)
           r3 == set_active(restored, tid, x2)
<1>1. handle_task_step_entry(m, tid, task) =
        IF d # NULL THEN IF ~ctx_is_live(m1, d) THEN r1 ELSE r2 ELSE r3
  BY DEF handle_task_step_entry, activate_task
<1>2. Grows(m, act, 0) /\ MapsOK(act) /\ act \in MapsType /\ x \in CtxOrNull
  BY GetActiveOK
<1>3. k \in Tasks \cup {NULL}
  BY <1>2, MapsFields
<1> HIDE DEF act, x, k
<1>4. s \in StepStash
  BY <1>2, <1>3 DEF StepStash, CtxOrNull
<1> HIDE DEF s
<1>5. Steady(act, m1)
  <2>1. task \in Tasks \cup {NULL} /\ s \in StepStash \cup {NULL}
    BY <1>4
  <2> QED
    BY <1>2, <2>1, SetStep, Zenon
<1> HIDE DEF m1
<1>6. Grows(m, m1, 0) /\ MapsOK(m1) /\ m1 \in MapsType
  BY <1>2, <1>5, SteadyGrows, KeepsTrans DEF Grows, Steady
<1>7. top \in CtxOrNull /\ d \in CtxOrNull
  BY <1>6, CtxStackTop, MapsFields
<1>8. Grows(m1, cleared, 0) /\ Grows(m1, restored, 0)
  BY <1>6, TaskCtxClear, RestoreDeferred
<1>9. ok => e \in CtxOrNull
  <2>1. ok => pending_slots(m1, task) # {}
    BY DEF restore_deferred_ok
  <2>2. pending_slots(m1, task) # {} => deferred_entry(m1, task) \in ToolStackEntry
    BY <1>6, DeferredEntry
  <2> QED
    BY <2>1, <2>2 DEF ToolStackEntry, CtxOrNull
<1> HIDE DEF top, cleared, restored, e, ok, d
<1>10. Grows(m, cleared, 0) /\ Grows(m, restored, 0)
  BY <1>6, <1>8, KeepsTrans
<1>11. NULL \in CtxOrNull /\ x1 \in CtxOrNull /\ x2 \in CtxOrNull
  BY <1>7, <1>9 DEF CtxOrNull
<1> HIDE DEF x1, x2
<1>12. Grows(m, r1, 0) /\ Grows(m, r2, 0) /\ Grows(m, r3, 0)
  BY <1>6, <1>10, <1>11, ThenActive
<1> HIDE DEF r1, r2, r3
<1> QED
  BY <1>1, <1>12

(* handle_task_step_return, for a task done or not, keeps the task map      *)
(* consistent.                                                              *)
LEMMA TaskStepReturnOK ==
  ASSUME NEW m, MapsOK(m), NEW tid \in Tids, NEW done \in SUBSET Tasks
  PROVE  Grows(m, handle_task_step_return(m, tid, done), 0)
<1> DEFINE task == m.THREAD_ACTIVE_TASK[tid]
           m1 == IF task \in done THEN task_ctx_clear(m, tid, task) ELSE m
           stash == m1.TASK_STEP_STASH[tid]
           prev_ctx == IF stash = NULL THEN NULL ELSE stash.ctx
           prev_task == IF stash = NULL THEN NULL ELSE stash.task
           top == ctx_stack_top(m1, tid)
           restore == IF prev_ctx # NULL /\ ctx_stack_contains(m1, tid, prev_ctx)
                      THEN prev_ctx ELSE top
           r == [m1 EXCEPT !.THREAD_ACTIVE_CTX[tid] = restore,
                           !.THREAD_ACTIVE_TASK[tid] = prev_task,
                           !.TASK_STEP_STASH[tid] = NULL]
<1>1. handle_task_step_return(m, tid, done) = IF task = NULL THEN m ELSE r
  BY DEF handle_task_step_return, restore_step
<1>2. Grows(m, m1, 0)
  BY TaskCtxClear, Same
<1> HIDE DEF m1
<1>3. MapsOK(m1) /\ m1 \in MapsType
  BY <1>2 DEF Grows, MapsOK
<1>4. stash \in StepStash \cup {NULL}
  BY <1>3, MapsFields
<1>5. prev_ctx \in CtxIds \cup {NULL} /\ prev_task \in Tasks \cup {NULL}
  BY <1>4 DEF StepStash
<1> HIDE DEF stash, prev_ctx, prev_task
<1>6. top \in CtxOrNull
  BY <1>3, CtxStackTop
<1> HIDE DEF top
<1>7. restore \in CtxIds \cup {NULL}
  BY <1>5, <1>6 DEF CtxOrNull
<1> HIDE DEF restore
<1>8. Steady(m1, r)
  <2>1. NULL \in StepStash \cup {NULL}
    OBVIOUS
  <2> QED
    BY <1>3, <1>5, <1>7, <2>1, SetStep, Zenon
<1> HIDE DEF r
<1>9. Grows(m, r, 0)
  BY <1>2, <1>3, <1>8, SteadyGrows, KeepsTrans
<1> QED
  BY <1>1, <1>9, Same

-----------------------------------------------------------------------------
(* worker_probes.rs.                                                        *)

(* Writing the context of a work object is steady.                          *)
LEMMA SetWork ==
  ASSUME NEW m \in MapsType, NEW kind \in RunKinds, NEW w \in Works, NEW c \in CtxIds \cup {NULL},
         NEW t \in Tids \cup {NULL}
  PROVE  /\ Steady(m, [m EXCEPT !.WORK_CTX[kind][w] = c])
         /\ Steady(m, [m EXCEPT !.WORKER_RUN_CARRIER[w] = t, !.WORK_CTX[kind][w] = c])
         /\ Steady(m, [m EXCEPT !.WORKER_RUN_CARRIER[w] = t])
         /\ Steady(m, [m EXCEPT !.THREADPOOL_WORKITEM_THREAD[w] = t])
<1>1. Steady(m, [m EXCEPT !.WORK_CTX[kind][w] = c])
  BY Zenon DEF MapsType, Steady
<1>2. Steady(m, [m EXCEPT !.WORKER_RUN_CARRIER[w] = t, !.WORK_CTX[kind][w] = c])
  BY Zenon DEF MapsType, Steady
<1>3. Steady(m, [m EXCEPT !.WORKER_RUN_CARRIER[w] = t])
  BY Zenon DEF MapsType, Steady
<1>4. Steady(m, [m EXCEPT !.THREADPOOL_WORKITEM_THREAD[w] = t])
  BY Zenon DEF MapsType, Steady
<1> QED
  BY <1>1, <1>2, <1>3, <1>4

(* carry_active is steady.                                                  *)
LEMMA CarryActive ==
  ASSUME NEW m \in MapsType, NEW tid \in Tids, NEW kind \in RunKinds, NEW w \in Works
  PROVE  Steady(m, carry_active(m, tid, kind, w))
<1> DEFINE c == m.THREAD_ACTIVE_CTX[tid]
           b == [m EXCEPT !.WORK_CTX[kind][w] = c]
           r == carrier_inc(b, c)
<1>1. carry_active(m, tid, kind, w) = m \/ carry_active(m, tid, kind, w) = r
  BY DEF carry_active
<1>2. c \in CtxOrNull
  BY MapsFields
<1> HIDE DEF c
<1>3. Steady(m, b)
  <2>1. c \in CtxIds \cup {NULL} /\ NULL \in Tids \cup {NULL}
    BY <1>2 DEF CtxOrNull
  <2> QED
    BY <2>1, SetWork, Zenon
<1> HIDE DEF b
<1>4. Steady(b, r)
  BY <1>2, <1>3, CarrierInc DEF Steady
<1> HIDE DEF r
<1> QED
  BY <1>1, <1>3, <1>4, SteadyTrans, SteadySelf

(* carry_deferred is steady.                                                *)
LEMMA CarryDeferred ==
  ASSUME NEW m \in MapsType, NEW tid \in Tids, NEW task \in Tasks, NEW w \in Works, NEW c \in CtxIds
  PROVE  Steady(m, carry_deferred(m, tid, task, w, c))
<1> DEFINE old == m.WORK_CTX["WORKITEM"][w]
           b1 == carrier_dec(m, old)
           p == [ctx_id |-> c, work_item |-> w]
           b2 == [b1 EXCEPT !.WORK_CTX["WORKITEM"][w] = c, !.PENDING_WORKER_SPAWN[tid] = p]
           b3 == carrier_inc(b2, c)
           b == IF old = c THEN m ELSE b3
           r == finish_deferred_tool_close(b, tid, task, c)
<1>1. carry_deferred(m, tid, task, w, c) = r
  BY DEF carry_deferred
<1>2. "WORKITEM" \in RunKinds
  BY DEF RunKinds
<1>3. old \in CtxOrNull
  BY <1>2, MapsFields
<1> HIDE DEF old
<1>4. Steady(m, b1)
  BY <1>3, CarrierDec
<1> HIDE DEF b1
<1>5. p \in PendingWorkerSpawn
  BY DEF PendingWorkerSpawn
<1> HIDE DEF p
<1>6. Steady(b1, b2)
  <2>1. b1 \in MapsType /\ c \in CtxIds \cup {NULL} /\ p \in PendingWorkerSpawn \cup {NULL}
    BY <1>4, <1>5 DEF Steady
  <2> QED
    BY <1>2, <2>1, Zenon DEF MapsType, Steady
<1> HIDE DEF b2
<1>7. Steady(b2, b3)
  BY <1>6, CarrierInc DEF Steady, CtxOrNull
<1> HIDE DEF b3
<1>8. Steady(m, b)
  BY <1>4, <1>6, <1>7, SteadyTrans, SteadySelf
<1> HIDE DEF b
<1>9. Steady(b, r)
  BY <1>8, FinishDeferred DEF Steady
<1> HIDE DEF r
<1> QED
  BY <1>1, <1>8, <1>9, SteadyTrans

(* handle_ctor_entry is steady.                                             *)
LEMMA CtorEntry ==
  ASSUME NEW m \in MapsType, NEW tid \in Tids, NEW kind \in RunKinds, NEW w \in Works
  PROVE  Steady(m, handle_ctor_entry(m, tid, kind, w))
<1> DEFINE task == m.THREAD_ACTIVE_TASK[tid]
           takes == kind = "WORKITEM" /\ task # NULL
           deferred == IF takes THEN deferred_tool_ctx_for_worker(m, task) ELSE NULL
           act == get_active_ctx(m, tid)
           r1 == carry_active(act, tid, kind, w)
           r2 == carry_deferred(m, tid, task, w, deferred)
<1>1. handle_ctor_entry(m, tid, kind, w) = IF deferred = NULL THEN r1 ELSE r2
  BY DEF handle_ctor_entry
<1>2. task \in Tasks \cup {NULL}
  BY MapsFields
<1>3. deferred # NULL => task \in Tasks
  BY <1>2
<1>4. deferred \in CtxOrNull
  <2>1. CASE takes
    BY <1>2, <2>1, DeferredForWorker
  <2>2. CASE ~takes
    BY <2>2 DEF CtxOrNull
  <2> QED
    BY <2>1, <2>2
<1> HIDE DEF task, deferred, takes
<1>5. Steady(m, act)
  BY GetActive
<1> HIDE DEF act
<1>6. Steady(act, r1)
  BY <1>5, CarryActive DEF Steady
<1> HIDE DEF r1
<1>7. deferred # NULL => Steady(m, r2)
  BY <1>3, <1>4, CarryDeferred DEF CtxOrNull
<1> HIDE DEF r2
<1> QED
  BY <1>1, <1>5, <1>6, <1>7, SteadyTrans

(* Writing the worker runs of a thread is steady.                           *)
LEMMA SetRun ==
  ASSUME NEW m \in MapsType, NEW tid \in Tids, NEW w \in Works, NEW c \in CtxIds \cup {NULL},
         NEW s, s \in Seq(WorkerRunEntry), Len(s) <= MaxRuns, NEW t \in Tids \cup {NULL}
  PROVE  /\ Steady(m, [m EXCEPT !.WORKER_RUN_STACK[tid] = s, !.THREAD_ACTIVE_CTX[tid] = c,
                                !.WORKER_RUN_CARRIER[w] = t])
         /\ Steady(m, [m EXCEPT !.WORKER_RUN_STACK[tid] = s])
         /\ Steady(m, [m EXCEPT !.FORK_CTX[tid] = c])
<1> DEFINE S == {q \in Seq(WorkerRunEntry) : Len(q) <= MaxRuns}
<1>1. s \in S
  OBVIOUS
<1>2. Steady(m, [m EXCEPT !.WORKER_RUN_STACK[tid] = s, !.THREAD_ACTIVE_CTX[tid] = c,
                          !.WORKER_RUN_CARRIER[w] = t])
  BY <1>1, Zenon DEF MapsType, Steady
<1>3. Steady(m, [m EXCEPT !.WORKER_RUN_STACK[tid] = s])
  BY <1>1, Zenon DEF MapsType, Steady
<1>4. Steady(m, [m EXCEPT !.FORK_CTX[tid] = c])
  BY Zenon DEF MapsType, Steady
<1> QED
  BY <1>2, <1>3, <1>4

(* handle_run_entry is steady.                                              *)
LEMMA RunEntry ==
  ASSUME NEW m \in MapsType, NEW py \in PyType, NEW tid \in Tids, NEW kind \in RunKinds,
         NEW f \in Frames, py.code[f].self \in Works
  PROVE  Steady(m, handle_run_entry(m, py, tid, kind, f))
<1> DEFINE w == py.code[f].self
           c == m.WORK_CTX[kind][w]
           act == get_active_ctx(m, tid)
           inherited == act.FORK_CTX[tid] = c
           a1 == [act EXCEPT !.FORK_CTX[tid] = NULL]
           a2 == carrier_dec(a1, c)
           m1 == IF inherited THEN a2 ELSE act
           prev == IF inherited THEN NULL ELSE act.THREAD_ACTIVE_CTX[tid]
           run == [kind |-> kind, frame_ptr |-> f, parent_ptr |-> py.prev[f], self_obj |-> w,
                   prev_ctx |-> prev]
           runs == m1.WORKER_RUN_STACK[tid]
           again == /\ runs # <<>>
                    /\ Last(runs).kind = kind
                    /\ Last(runs).frame_ptr = f
                    /\ Last(runs).self_obj = w
           s == IF Len(runs) >= MaxRuns THEN runs ELSE Append(runs, run)
           r1 == set_active(m1, tid, c)
           r2 == [m1 EXCEPT !.WORKER_RUN_STACK[tid] = s, !.THREAD_ACTIVE_CTX[tid] = c,
                            !.WORKER_RUN_CARRIER[w] = tid]
<1>1. ASSUME m1 \in MapsType
      PROVE  handle_run_entry(m, py, tid, kind, f) = IF c = NULL THEN m ELSE IF again THEN r1 ELSE r2
  <2>1. m1.WORKER_RUN_STACK \in [Tids -> {q \in Seq(WorkerRunEntry) : Len(q) <= MaxRuns}]
    BY <1>1, MapsFields, Zenon
  <2> QED
    BY <2>1, Zenon DEF handle_run_entry
<1>2. w \in Works /\ c \in CtxOrNull /\ py.prev[f] \in ParentPtrs
  BY MapsFields, PyFields
<1>3. Steady(m, act) /\ act.THREAD_ACTIVE_CTX[tid] \in CtxOrNull
  BY GetActive
<1> HIDE DEF w, c, act
<1>4. act \in MapsType
  BY <1>3 DEF Steady
<1>5. Steady(act, a1)
  BY <1>4, Zenon DEF MapsType, Steady
<1> HIDE DEF a1
<1>6. Steady(a1, a2)
  BY <1>2, <1>5, CarrierDec DEF Steady
<1> HIDE DEF a2
<1>7. Steady(m, m1)
  BY <1>3, <1>5, <1>6, SteadyTrans
<1>8. prev \in CtxIds \cup {NULL}
  BY <1>3 DEF CtxOrNull
<1> HIDE DEF m1, prev, inherited
<1>9. m1 \in MapsType
  BY <1>7 DEF Steady
<1>10. run \in WorkerRunEntry
  BY <1>2, <1>8 DEF WorkerRunEntry
<1> HIDE DEF run
<1>11. runs \in Seq(WorkerRunEntry) /\ Len(runs) <= MaxRuns
  BY <1>9, MapsFields
<1> HIDE DEF runs
<1>12. s \in Seq(WorkerRunEntry) /\ Len(s) <= MaxRuns
  BY <1>10, <1>11, BoundsAssumption
<1> HIDE DEF s
<1>13. Steady(m1, r2)
  <2>1. c \in CtxIds \cup {NULL} /\ tid \in Tids \cup {NULL}
    BY <1>2 DEF CtxOrNull
  <2> QED
    BY <1>2, <1>9, <1>12, <2>1, SetRun, Zenon
<1>14. Steady(m1, r1)
  BY <1>2, <1>9, SetActive
<1> HIDE DEF again, r1, r2
<1>15. Steady(m, r1) /\ Steady(m, r2) /\ Steady(m, m)
  BY <1>7, <1>13, <1>14, SteadyTrans, SteadySelf
<1> QED
  BY <1>1, <1>9, <1>15

(* The entry of any worker frame is steady.                                 *)
LEMMA WorkerFrame ==
  ASSUME NEW m \in MapsType, NEW py \in PyType, NEW tid \in Tids, NEW f \in Frames, NEW tgid
  PROVE  Steady(m, handle_worker_frame(m, py, tid, f, tgid))
<1> DEFINE kind == py.code[f].kind
           w == py.code[f].self
           r1 == handle_ctor_entry(m, tid, "WORKITEM", w)
           r2 == handle_ctor_entry(m, tid, "THREAD", w)
           r3 == handle_run_entry(m, py, tid, "WORKITEM", f)
           r4 == handle_run_entry(m, py, tid, "THREAD", f)
<1>1. handle_worker_frame(m, py, tid, f, tgid) =
        IF tgid \notin m.PROTECTED_TGIDS THEN m
        ELSE IF kind = WORKITEM_CTOR THEN r1
        ELSE IF kind = THREAD_CTOR THEN r2
        ELSE IF kind = WORKITEM_RUN THEN r3
        ELSE IF kind = THREAD_RUN THEN r4
        ELSE m
  BY DEF handle_worker_frame, WORKITEM_CTOR, WORKITEM_RUN, THREAD_CTOR, THREAD_RUN
<1>2. kind \in WorkKinds => w \in Works
  BY PyFields
<1>3. "WORKITEM" \in RunKinds /\ "THREAD" \in RunKinds
  BY DEF RunKinds
<1>4. w \in Works => Steady(m, r1) /\ Steady(m, r2) /\ Steady(m, r3) /\ Steady(m, r4)
  BY <1>3, CtorEntry, RunEntry
<1>5. Steady(m, m)
  BY SteadySelf
<1> HIDE DEF r1, r2, r3, r4, w
<1> QED
  BY <1>1, <1>2, <1>4, <1>5 DEF WorkKinds

(* The worker runs of a thread are a bounded sequence of runs.              *)
LEMMA RunStack ==
  ASSUME NEW m \in MapsType, NEW tid \in Tids
  PROVE  /\ m.WORKER_RUN_STACK[tid] \in Seq(WorkerRunEntry)
         /\ Len(m.WORKER_RUN_STACK[tid]) <= MaxRuns
BY MapsFields

(* The scan of worker_stack_pop_for_parent yields a position or 0.          *)
LEMMA RunForParent ==
  ASSUME NEW m \in MapsType, NEW tid \in Tids, NEW parent
  PROVE  run_for_parent(m, tid, parent) \in 0..Len(m.WORKER_RUN_STACK[tid])
<1>1. Len(m.WORKER_RUN_STACK[tid]) \in Nat
  BY RunStack
<1> QED
  BY <1>1 DEF run_for_parent

(* Dropping a run from the worker stack is steady.                          *)
LEMMA DropRun ==
  ASSUME NEW m \in MapsType, NEW tid \in Tids, NEW i \in 1..Len(m.WORKER_RUN_STACK[tid])
  PROVE  /\ Steady(m, [m EXCEPT !.WORKER_RUN_STACK[tid] = RemoveAt(@, i)])
         /\ m.WORKER_RUN_STACK[tid][i] \in WorkerRunEntry
<1> DEFINE runs == m.WORKER_RUN_STACK[tid]
           s == RemoveAt(runs, i)
<1>1. runs \in Seq(WorkerRunEntry) /\ Len(runs) <= MaxRuns
  BY RunStack
<1>2. s \in Seq(WorkerRunEntry) /\ Len(s) = Len(runs) - 1
  BY <1>1, RemoveAtType
<1>3. Len(s) <= MaxRuns
  BY <1>1, <1>2, BoundsAssumption
<1>4. [m EXCEPT !.WORKER_RUN_STACK[tid] = RemoveAt(@, i)] = [m EXCEPT !.WORKER_RUN_STACK[tid] = s]
  <2>1. m.WORKER_RUN_STACK \in [Tids -> {q \in Seq(WorkerRunEntry) : Len(q) <= MaxRuns}]
    BY MapsFields
  <2> QED
    BY <2>1
<1>5. runs[i] \in WorkerRunEntry
  BY <1>1
<1> HIDE DEF s
<1>6. Steady(m, [m EXCEPT !.WORKER_RUN_STACK[tid] = s])
  <2>1. s \in {q \in Seq(WorkerRunEntry) : Len(q) <= MaxRuns}
    BY <1>2, <1>3
  <2> QED
    BY <2>1, Zenon DEF MapsType, Steady
<1> QED
  BY <1>4, <1>5, <1>6

(* dispatch_exit_for_parent is steady.                                      *)
LEMMA DispatchExit ==
  ASSUME NEW m \in MapsType, NEW tid \in Tids, NEW parent, run_for_parent(m, tid, parent) # 0
  PROVE  Steady(m, dispatch_exit_for_parent(m, tid, parent))
<1> DEFINE i == run_for_parent(m, tid, parent)
           run == m.WORKER_RUN_STACK[tid][i]
           kind == run.kind
           w == run.self_obj
           c == m.WORK_CTX[kind][w]
           m1 == [m EXCEPT !.WORKER_RUN_STACK[tid] = RemoveAt(@, i)]
           u1 == [m1 EXCEPT !.WORKER_RUN_CARRIER[w] = NULL, !.WORK_CTX[kind][w] = NULL]
           u2 == carrier_dec(u1, c)
           m2 == IF c = NULL THEN m1 ELSE u2
           prev == run.prev_ctx
<1>1. dispatch_exit_for_parent(m, tid, parent) = set_active(m2, tid, prev)
  BY DEF dispatch_exit_for_parent
<1>2. i \in 1..Len(m.WORKER_RUN_STACK[tid])
  <2>1. i \in 0..Len(m.WORKER_RUN_STACK[tid]) /\ i # 0 /\ Len(m.WORKER_RUN_STACK[tid]) \in Nat
    BY RunForParent, RunStack
  <2> HIDE DEF i
  <2> QED
    BY <2>1
<1> HIDE DEF i
<1>3. Steady(m, m1) /\ run \in WorkerRunEntry
  BY <1>2, DropRun
<1> HIDE DEF m1, run
<1>4. kind \in RunKinds /\ w \in Works /\ prev \in CtxOrNull
  BY <1>3 DEF WorkerRunEntry, CtxOrNull
<1> HIDE DEF kind, w, prev
<1>5. c \in CtxOrNull
  BY <1>4, MapsFields
<1> HIDE DEF c
<1>6. Steady(m1, u1)
  <2>1. m1 \in MapsType /\ NULL \in Tids \cup {NULL} /\ NULL \in CtxIds \cup {NULL}
    BY <1>3 DEF Steady
  <2> QED
    BY <1>4, <2>1, SetWork, Zenon
<1> HIDE DEF u1
<1>7. Steady(u1, u2)
  BY <1>5, <1>6, CarrierDec DEF Steady
<1> HIDE DEF u2
<1>8. Steady(m, m2)
  BY <1>3, <1>6, <1>7, SteadyTrans
<1> HIDE DEF m2
<1>9. Steady(m2, set_active(m2, tid, prev))
  BY <1>4, <1>8, SetActive DEF Steady
<1> QED
  BY <1>1, <1>8, <1>9, SteadyTrans

(* clear_threadpool_worker_ctx is steady.                                   *)
LEMMA ClearPoolWorker ==
  ASSUME NEW m \in MapsType, NEW tid \in Tids, m.THREADPOOL_WORKER_CTX[tid] # NULL
  PROVE  Steady(m, clear_threadpool_worker_ctx(m, tid))
<1> DEFINE e == m.THREADPOOL_WORKER_CTX[tid]
           w == e.work_item
           c == e.ctx_id
           prev == e.prev_ctx
           m0 == [m EXCEPT !.THREADPOOL_WORKER_CTX[tid] = NULL,
                           !.THREADPOOL_WORKITEM_THREAD[w] = NULL]
           m1 == get_active_ctx(m0, tid)
           put == set_active(m1, tid, prev)
           m2 == IF m1.THREAD_ACTIVE_CTX[tid] = c THEN put ELSE m1
<1>1. clear_threadpool_worker_ctx(m, tid) = carrier_dec(m2, c)
  BY DEF clear_threadpool_worker_ctx
<1>2. e \in WorkerLocalCtx
  BY MapsFields
<1> HIDE DEF e
<1>3. w \in Works /\ c \in CtxOrNull /\ prev \in CtxOrNull
  BY <1>2 DEF WorkerLocalCtx, CtxOrNull
<1> HIDE DEF w, c, prev
<1>4. Steady(m, m0)
  BY <1>3, Zenon DEF MapsType, Steady
<1> HIDE DEF m0
<1>5. Steady(m0, m1)
  BY <1>4, GetActive DEF Steady
<1> HIDE DEF m1
<1>6. Steady(m1, put)
  BY <1>3, <1>5, SetActive DEF Steady
<1> HIDE DEF put
<1>7. Steady(m, m2)
  BY <1>4, <1>5, <1>6, SteadyTrans
<1> HIDE DEF m2
<1>8. Steady(m2, carrier_dec(m2, c))
  BY <1>3, <1>7, CarrierDec DEF Steady
<1> QED
  BY <1>1, <1>7, <1>8, SteadyTrans

(* clear_threadpool_worker_for_object is steady.                            *)
LEMMA ClearPoolObject ==
  ASSUME NEW m \in MapsType, NEW tid \in Tids, NEW w \in Works
  PROVE  Steady(m, clear_threadpool_worker_for_object(m, tid, w))
<1> DEFINE owner == m.THREADPOOL_WORKITEM_THREAD[w]
           H(t) == m.THREADPOOL_WORKER_CTX[t] # NULL /\ m.THREADPOOL_WORKER_CTX[t].work_item = w
           C(t) == clear_threadpool_worker_ctx(m, t)
           r == [m EXCEPT !.THREADPOOL_WORKITEM_THREAD[w] = NULL]
<1>1. clear_threadpool_worker_for_object(m, tid, w) =
        IF H(tid) THEN C(tid) ELSE IF owner = NULL THEN m ELSE IF H(owner) THEN C(owner) ELSE r
  BY DEF clear_threadpool_worker_for_object
<1>2. owner \in Tids \cup {NULL}
  BY MapsFields
<1>3. \A t \in Tids : H(t) => Steady(m, C(t))
  BY ClearPoolWorker
<1>4. Steady(m, r)
  BY Zenon DEF MapsType, Steady
<1> HIDE DEF owner, H, C, r
<1> QED
  BY <1>1, <1>2, <1>3, <1>4, SteadySelf

(* A mapped work item found in a frame is a work object or NULL.            *)
LEMMA MappedWork ==
  ASSUME NEW m \in MapsType, NEW py \in PyType, NEW f \in Frames
  PROVE  mapped_work_item(m, py, f) \in Works \cup {NULL}
<1>1. py.code[f].kind = WORKITEM_RUN => py.code[f].self \in Works
  BY PyFields DEF WorkKinds
<1>2. py.local[f] \in Works \cup {NULL}
  BY DEF PyType
<1>3. mapped_work_item(m, py, f) =
        IF py.code[f].kind = WORKITEM_RUN /\ m.WORK_CTX["WORKITEM"][py.code[f].self] # NULL
        THEN py.code[f].self
        ELSE IF py.code[f].kind = POOL /\ py.local[f] # NULL
        THEN IF m.WORK_CTX["WORKITEM"][py.local[f]] # NULL THEN py.local[f] ELSE NULL
        ELSE NULL
  BY DEF mapped_work_item, WORKITEM_RUN, POOL
<1> QED
  BY <1>1, <1>2, <1>3

(* A mapped work item found in the frame chain is a work object or NULL.    *)
LEMMA MappedInChain ==
  ASSUME NEW m \in MapsType, NEW py \in PyType, NEW tid \in Tids
  PROVE  find_mapped_work_item_in_current_chain(m, py, tid) \in Works \cup {NULL}
<1> DEFINE s == py.stack[tid]
           hits == {i \in chain_window(py, tid) : mapped_work_item(m, py, s[i]) # NULL}
           j == Max(hits)
<1>1. s \in Seq(Frames)
  BY DEF PyType
<1>2. hits # {} => j \in hits
  <2>1. Len(s) \in Nat /\ \A i \in hits : i \in 0..Len(s) /\ Len(s) - i <= 8
    BY <1>1 DEF chain_window, MAX_WORKER_FRAME_CHAIN_DEPTH
  <2> HIDE DEF hits
  <2> QED
    BY <2>1, MaxIn, Zenon
<1> HIDE DEF j
<1>3. hits # {} => s[j] \in Frames
  <2>1. hits # {} => j \in DOMAIN s
    BY <1>2 DEF chain_window
  <2> HIDE DEF hits, s
  <2> QED
    BY <1>1, <2>1
<1>4. find_mapped_work_item_in_current_chain(m, py, tid) =
        IF hits = {} THEN NULL ELSE mapped_work_item(m, py, s[j])
  BY DEF find_mapped_work_item_in_current_chain, j
<1> HIDE DEF hits, s
<1> QED
  BY <1>3, <1>4, MappedWork

(* Writing the pool binding of a thread is steady.                          *)
LEMMA SetPoolWorker ==
  ASSUME NEW m \in MapsType, NEW tid \in Tids, NEW e \in WorkerLocalCtx \cup {NULL},
         NEW w \in Works, NEW c \in CtxIds \cup {NULL}
  PROVE  Steady(m, [m EXCEPT !.THREADPOOL_WORKER_CTX[tid] = e,
                             !.THREADPOOL_WORKITEM_THREAD[w] = tid,
                             !.THREAD_ACTIVE_CTX[tid] = c])
BY Zenon DEF MapsType, Steady

(* bind_threadpool_worker_context is steady.                                *)
LEMMA BindPool ==
  ASSUME NEW m \in MapsType, NEW tid \in Tids, NEW w \in Works \cup {NULL}
  PROVE  Steady(m, bind_threadpool_worker_context(m, tid, w))
<1> DEFINE e == m.THREADPOOL_WORKER_CTX[tid]
           same == e # NULL /\ w # NULL /\ e.work_item = w /\ ctx_is_live(m, e.ctx_id)
           m1 == IF e = NULL THEN m ELSE clear_threadpool_worker_ctx(m, tid)
           c == m1.WORK_CTX["WORKITEM"][w]
           act == get_active_ctx(m1, tid)
           prev == act.THREAD_ACTIVE_CTX[tid]
           r0 == set_active(m, tid, e.ctx_id)
           v == [ctx_id |-> c, work_item |-> w, prev_ctx |-> prev]
           r1 == [act EXCEPT !.THREADPOOL_WORKER_CTX[tid] = v,
                             !.THREADPOOL_WORKITEM_THREAD[w] = tid,
                             !.THREAD_ACTIVE_CTX[tid] = c]
           r2 == carrier_inc(r1, c)
<1>1. bind_threadpool_worker_context(m, tid, w) =
        IF same THEN r0
        ELSE IF w = NULL THEN m1
        ELSE IF ~ctx_is_live(m1, c) THEN m1
        ELSE IF prev = c THEN act
        ELSE r2
  BY DEF bind_threadpool_worker_context, bind_work_item
<1>2. e \in WorkerLocalCtx \cup {NULL}
  BY MapsFields
<1>3. same => Steady(m, r0)
  <2>1. e # NULL => e.ctx_id \in CtxOrNull
    BY <1>2 DEF WorkerLocalCtx, CtxOrNull
  <2>2. e # NULL => Steady(m, r0)
    BY <2>1, SetActive
  <2> QED
    BY <2>2
<1> HIDE DEF same, r0
<1>4. Steady(m, m1)
  BY ClearPoolWorker, SteadySelf
<1> HIDE DEF m1, e
<1>5. m1 \in MapsType
  BY <1>4 DEF Steady
<1>6. Steady(m1, act) /\ prev \in CtxOrNull
  BY <1>5, GetActive
<1> HIDE DEF act, prev
<1>7. ASSUME w # NULL, ctx_is_live(m1, c) PROVE Steady(m, r2)
  <2>1. w \in Works /\ c \in CtxOrNull
    BY <1>5, <1>7, MapsFields DEF RunKinds
  <2>2. c \in CtxIds
    BY <1>5, <1>7, <2>1, LiveType
  <2> HIDE DEF c
  <2>3. v \in WorkerLocalCtx
    BY <1>6, <2>1, <2>2 DEF WorkerLocalCtx, CtxOrNull
  <2> HIDE DEF v
  <2>4. Steady(act, r1)
    <3>1. v \in WorkerLocalCtx \cup {NULL} /\ c \in CtxIds \cup {NULL} /\ act \in MapsType
      BY <1>6, <2>2, <2>3 DEF Steady
    <3> QED
      BY <2>1, <3>1, SetPoolWorker, Zenon
  <2> HIDE DEF r1
  <2>5. Steady(r1, r2)
    BY <2>1, <2>4, CarrierInc DEF Steady
  <2> HIDE DEF r2
  <2> QED
    BY <1>4, <1>6, <2>4, <2>5, SteadyTrans
<1> HIDE DEF r2, c
<1>8. Steady(m, act)
  BY <1>4, <1>6, SteadyTrans
<1> QED
  BY <1>1, <1>3, <1>4, <1>7, <1>8

(* refresh_threadpool_worker_context is steady.                             *)
LEMMA RefreshPool ==
  ASSUME NEW m \in MapsType, NEW py \in PyType, NEW tid \in Tids
  PROVE  Steady(m, refresh_threadpool_worker_context(m, py, tid))
BY MappedInChain, BindPool DEF refresh_threadpool_worker_context

(* finalize_worker_run_for_object is steady.                                *)
LEMMA FinalizeRun ==
  ASSUME NEW m \in MapsType, NEW w \in Works
  PROVE  Steady(m, finalize_worker_run_for_object(m, w))
<1> DEFINE tid == m.WORKER_RUN_CARRIER[w]
           runs == m.WORKER_RUN_STACK[tid]
           n == Len(runs)
           i == IF n >= 1 /\ runs[n].self_obj = w THEN n
                ELSE IF n >= 2 /\ runs[n - 1].self_obj = w THEN n - 1 ELSE 0
           m1 == [m EXCEPT !.WORKER_RUN_CARRIER[w] = NULL]
           r == [m1 EXCEPT !.WORKER_RUN_STACK[tid] = RemoveAt(@, i)]
<1>1. finalize_worker_run_for_object(m, w) = IF tid = NULL THEN m ELSE IF i = 0 THEN m1 ELSE r
  BY DEF finalize_worker_run_for_object
<1>2. tid \in Tids \cup {NULL}
  BY MapsFields
<1>3. Steady(m, m1) /\ m1.WORKER_RUN_STACK = m.WORKER_RUN_STACK
  BY Zenon DEF MapsType, Steady
<1> HIDE DEF m1, tid
<1>4. ASSUME tid # NULL, i # 0 PROVE Steady(m1, r)
  <2>1. tid \in Tids
    BY <1>2, <1>4
  <2>2. n \in Nat
    BY <2>1, RunStack
  <2>3. i \in 1..Len(m1.WORKER_RUN_STACK[tid])
    <3>1. i \in 1..n
      <4> HIDE DEF n
      <4> QED
        BY <1>4, <2>2
    <3> QED
      BY <1>3, <3>1
  <2> HIDE DEF i
  <2> QED
    BY <1>3, <2>1, <2>3, DropRun DEF Steady
<1> HIDE DEF r, i
<1> QED
  BY <1>1, <1>3, <1>4, SteadyTrans, SteadySelf

(* clear_worker_runs_for_thread is steady.                                  *)
LEMMA ClearRuns ==
  ASSUME NEW m \in MapsType, NEW tid \in Tids
  PROVE  Steady(m, clear_worker_runs_for_thread(m, tid))
<1> DEFINE objs == {m.WORKER_RUN_STACK[tid][i].self_obj : i \in DOMAIN m.WORKER_RUN_STACK[tid]}
           v == [w \in Works |-> IF w \in objs THEN NULL ELSE m.WORKER_RUN_CARRIER[w]]
           r == [m EXCEPT !.WORKER_RUN_CARRIER = v, !.WORKER_RUN_STACK[tid] = <<>>]
<1>1. clear_worker_runs_for_thread(m, tid) = r
  BY Zenon DEF clear_worker_runs_for_thread, MapsType
<1>2. v \in [Works -> Tids \cup {NULL}]
  <2> HIDE DEF objs
  <2> QED
    BY MapsFields
<1> HIDE DEF v
<1>3. Steady(m, r)
  <2>1. <<>> \in {q \in Seq(WorkerRunEntry) : Len(q) <= MaxRuns}
    BY BoundsAssumption
  <2> QED
    BY <1>2, <2>1, Zenon DEF MapsType, Steady
<1> QED
  BY <1>1, <1>3

-----------------------------------------------------------------------------
(* lifecycle.rs, fork_probes.rs and the hooks of lsm_hooks.rs.              *)

(* A steady step after one that grows.                                      *)
LEMMA GrowsThenSteady ==
  ASSUME NEW m, MapsOK(m), NEW r, NEW s, NEW a \in Nat, Grows(m, r, a), Steady(r, s)
  PROVE  Grows(m, s, a)
<1>1. MapsOK(r)
  BY DEF Grows
<1>2. Grows(r, s, 0)
  BY <1>1, SteadyGrows
<1> QED
  BY <1>2, GrowsThenKeeps

(* The context ids an entry of f may allocate are still to be had.          *)
EntryFits(m, py, f) ==
  /\ py.code[f].kind = IMPL => m.CTX_COUNTER + 2 <= MaxCtx
  /\ \/ py.code[f].kind \notin {LC, LG}
     \/ m.CTX_COUNTER < MaxCtx
     \/ /\ m.FRAME_CTX[f] # NULL
        /\ cached_frame_self_tool_id(m, py, f) \in {TOOL_IDLE, tool_of(m, m.FRAME_CTX[f])}

(* The entry probe, worker or tool frame, takes two context ids at most.    *)
LEMMA EntryProbe ==
  ASSUME NEW m, MapsOK(m), NEW py \in PyType, NEW tid \in Tids, NEW f \in Frames,
         EntryFits(m, py, f), NEW tgid
  PROVE  Grows(m, frame_entry(m, py, tid, f, tgid), 2)
<1> DEFINE r == handle_frame_entry(m, py, tid, f)
           q == IF py.code[f].kind \in WorkKinds THEN m ELSE r
           s == handle_worker_frame(q, py, tid, f, tgid)
<1>1. frame_entry(m, py, tid, f, tgid) = s
  BY DEF frame_entry
<1>2. py.code[f].kind \notin WorkKinds => Grows(m, r, 2)
  BY FrameEntry DEF EntryFits
<1> HIDE DEF r
<1>3. Grows(m, m, 2)
  <2>1. Grows(m, m, 0) /\ m.CTX_COUNTER \in Nat
    BY Same, MapsFields, Zenon DEF MapsOK
  <2> QED
    BY <2>1 DEF Grows
<1>4. Grows(m, q, 2)
  BY <1>2, <1>3
<1> HIDE DEF q
<1>5. Steady(q, s)
  BY <1>4, WorkerFrame DEF Grows, MapsOK
<1> HIDE DEF s
<1> QED
  BY <1>1, <1>4, <1>5, GrowsThenSteady

(* The exit probe keeps the task map consistent.                            *)
LEMMA ExitProbe ==
  ASSUME NEW m, MapsOK(m), NEW tid \in Tids, NEW parent \in ParentPtrs
  PROVE  Grows(m, frame_exit(m, tid, parent), 0)
<1>1. CASE run_for_parent(m, tid, parent) # 0
  BY <1>1, DispatchExit, SteadyGrows DEF frame_exit, MapsOK
<1>2. CASE run_for_parent(m, tid, parent) = 0
  BY <1>2, FrameExit DEF frame_exit
<1> QED
  BY <1>1, <1>2

(* Freeing a coroutine keeps the task map consistent.                       *)
LEMMA DeallocFrameOK ==
  ASSUME NEW m \in MapsType, NEW tid \in Tids, NEW f \in Frames
  PROVE  Steady(m, dealloc_frame(m, tid, f))
<1> DEFINE c == m.FRAME_CTX[f]
           m1 == [m EXCEPT !.FRAME_CTX[f] = NULL]
           i == find_frame_ctx(m1, tid, f, c)
           m2 == tool_stack_remove_at(m1, tid, i)
           m3 == ctx_stack_remove(m2, tid, c)
           m4 == carrier_dec(emit_frame_end(m3, c), c)
<1>1. dealloc_frame(m, tid, f) = IF c = NULL THEN m ELSE m4
  BY DEF dealloc_frame
<1>2. c \in CtxOrNull
  BY MapsFields
<1> HIDE DEF c
<1>3. Steady(m, m1)
  BY Zenon DEF MapsType, Steady
<1> HIDE DEF m1
<1>4. m1 \in MapsType
  BY <1>3 DEF Steady
<1>5. i \in 0..Len(m1.TOOL_STACK[tid])
  BY <1>4, FindFrameCtx
<1> HIDE DEF i
<1>6. Steady(m1, m2)
  BY <1>4, <1>5, ToolStackRemoveAt
<1> HIDE DEF m2
<1>7. Steady(m2, m3)
  BY <1>6, CtxStackRemove DEF Steady
<1> HIDE DEF m3
<1>8. c # NULL => Steady(m3, m4)
  BY <1>2, <1>7, EndCarrier DEF Steady, CtxOrNull
<1> HIDE DEF m4
<1>9. Steady(m, m3)
  BY <1>3, <1>6, <1>7, SteadyTrans
<1> QED
  BY <1>1, <1>8, <1>9, SteadyTrans, SteadySelf

(* Freeing a tool object is steady.                                         *)
LEMMA DeallocObjOK ==
  ASSUME NEW m \in MapsType, NEW o \in Objs
  PROVE  Steady(m, dealloc_obj(m, o))
<1> DEFINE q == m.PENDING_TOOL_RESOLVE \ {o}
           r == [m EXCEPT !.TOOL_OBJ[o] = NULL, !.PENDING_TOOL_RESOLVE = q]
<1>1. dealloc_obj(m, o) = r
  BY Zenon DEF dealloc_obj, MapsType
<1>2. q \in SUBSET Objs
  BY MapsFields
<1> HIDE DEF q
<1>3. Steady(m, r)
  BY <1>2, Zenon DEF MapsType, Steady
<1> QED
  BY <1>1, <1>3

(* Releasing the context of a freed work object is steady.                  *)
LEMMA ReleaseWork ==
  ASSUME NEW m \in MapsType, NEW kind \in RunKinds, NEW w \in Works
  PROVE  Steady(m, release_work(m, kind, w))
<1> DEFINE m1 == finalize_worker_run_for_object(m, w)
           m2 == [m1 EXCEPT !.WORK_CTX[kind][w] = NULL]
           c == m.WORK_CTX[kind][w]
           r == carrier_dec(m2, c)
<1>1. release_work(m, kind, w) = r
  BY DEF release_work
<1>2. c \in CtxOrNull
  BY MapsFields
<1> HIDE DEF c
<1>3. Steady(m, m1)
  BY FinalizeRun
<1> HIDE DEF m1
<1>4. Steady(m1, m2)
  <2>1. m1 \in MapsType /\ NULL \in CtxIds \cup {NULL} /\ NULL \in Tids \cup {NULL}
    BY <1>3 DEF Steady
  <2> QED
    BY <2>1, SetWork, Zenon
<1> HIDE DEF m2
<1>5. Steady(m2, r)
  BY <1>2, <1>4, CarrierDec DEF Steady
<1> HIDE DEF r
<1> QED
  BY <1>1, <1>3, <1>4, <1>5, SteadyTrans

(* Freeing a work object is steady.                                         *)
LEMMA DeallocWorkOK ==
  ASSUME NEW m \in MapsType, NEW tid \in Tids, NEW w \in Works
  PROVE  Steady(m, dealloc_work(m, tid, w))
<1> DEFINE m1 == clear_threadpool_worker_for_object(m, tid, w)
           r1 == release_work(m1, "WORKITEM", w)
           r2 == release_work(m1, "THREAD", w)
<1>1. dealloc_work(m, tid, w) =
        IF m1.WORK_CTX["WORKITEM"][w] # NULL THEN r1
        ELSE IF m1.WORK_CTX["THREAD"][w] # NULL THEN r2 ELSE m1
  BY DEF dealloc_work
<1>2. Steady(m, m1)
  BY ClearPoolObject
<1> HIDE DEF m1
<1>3. Steady(m1, r1) /\ Steady(m1, r2)
  BY <1>2, ReleaseWork DEF Steady, RunKinds
<1> HIDE DEF r1, r2
<1> QED
  BY <1>1, <1>2, <1>3, SteadyTrans

(* handle_pyobj_dealloc keeps the task map consistent, whatever is freed.   *)
LEMMA PyobjDealloc ==
  ASSUME NEW m, MapsOK(m), NEW tid \in Tids, NEW p \in Tasks \cup Frames \cup Objs \cup Works, NEW tgid
  PROVE  Grows(m, handle_pyobj_dealloc(m, tid, p, tgid), 0)
<1>1. p \in Tasks => Grows(m, dealloc_task(m, tid, p), 0)
  BY TaskCtxClear, Same DEF dealloc_task
<1>2. /\ p \in Frames => Grows(m, dealloc_frame(m, tid, p), 0)
      /\ p \in Objs => Grows(m, dealloc_obj(m, p), 0)
      /\ p \in Works => Grows(m, dealloc_work(m, tid, p), 0)
  BY DeallocFrameOK, DeallocObjOK, DeallocWorkOK, SteadyGrows DEF MapsOK
<1>3. CASE tgid \notin m.PROTECTED_TGIDS
  BY <1>3, Same DEF handle_pyobj_dealloc
<1>4. CASE tgid \in m.PROTECTED_TGIDS
  BY <1>1, <1>2, <1>4 DEF handle_pyobj_dealloc
<1> QED
  BY <1>3, <1>4

(* Giving up the contexts of the stack is steady.                           *)
LEMMA ReapStack ==
  ASSUME NEW m \in MapsType, NEW tid \in Tids
  PROVE  Steady(m, reap_stack(m, tid))
<1> DEFINE ctxs == m.THREAD_CTX_STACK[tid]
           R(r, i) == reap_ctx(r, ctxs, i)
<1>1. reap_stack(m, tid) = R(R(R(R(R(R(R(R(m, 1), 2), 3), 4), 5), 6), 7), 8)
  BY Zenon DEF reap_stack
<1>2. ctxs \in Stack(CtxIds)
  BY MapsFields
<1> HIDE DEF ctxs
<1>3. \A r : \A i \in Nat \ {0} : Steady(m, r) => Steady(m, R(r, i))
  BY <1>2, ReapCtx, SteadyTrans DEF Steady
<1> HIDE DEF R
<1>4. Steady(m, m)
  BY SteadySelf
<1>5. \A r : Steady(m, r) => /\ Steady(m, R(r, 1)) /\ Steady(m, R(r, 2)) /\ Steady(m, R(r, 3))
                             /\ Steady(m, R(r, 4)) /\ Steady(m, R(r, 5)) /\ Steady(m, R(r, 6))
                             /\ Steady(m, R(r, 7)) /\ Steady(m, R(r, 8))
  BY <1>3
<1> QED
  BY <1>1, <1>4, <1>5

(* Giving up the contexts of a thread is steady.                            *)
LEMMA ReapCarriers ==
  ASSUME NEW m \in MapsType, NEW tid \in Tids
  PROVE  Steady(m, reap_carriers(m, tid))
<1> DEFINE c == m.FORK_CTX[tid]
           f1 == [m EXCEPT !.FORK_CTX[tid] = NULL]
           f2 == carrier_dec(f1, c)
<1>1. reap_carriers(m, tid) = IF m.THREAD_CTX_STACK[tid] # <<>> THEN reap_stack(m, tid)
                              ELSE IF c = NULL THEN m ELSE f2
  BY DEF reap_carriers
<1>2. c \in CtxOrNull
  BY MapsFields
<1> HIDE DEF c
<1>3. Steady(m, f1)
  BY Zenon DEF MapsType, Steady
<1> HIDE DEF f1
<1>4. Steady(f1, f2)
  BY <1>2, <1>3, CarrierDec DEF Steady
<1> HIDE DEF f2
<1>5. Steady(m, f2)
  BY <1>3, <1>4, SteadyTrans
<1> QED
  BY <1>1, <1>5, ReapStack, SteadySelf

(* reap_thread is steady.                                                   *)
LEMMA ReapThread ==
  ASSUME NEW m \in MapsType, NEW tid \in Tids
  PROVE  Steady(m, reap_thread(m, tid))
<1> DEFINE m1 == reap_carriers(m, tid)
           m2 == reap_entries(m1, tid)
           m3 == clear_threadpool_worker_for_thread(m2, tid)
           m4 == reap_stashes(m3, tid)
           m5 == clear_worker_runs_for_thread(m4, tid)
<1>1. reap_thread(m, tid) = m5
  BY Zenon DEF reap_thread
<1>2. Steady(m, m1)
  BY ReapCarriers
<1> HIDE DEF m1
<1>3. Steady(m1, m2)
  <2>1. m1 \in MapsType /\ <<>> \in Stack(CtxIds)
    BY <1>2, BoundsAssumption DEF Steady, Stack
  <2> QED
    BY <2>1, Zenon DEF MapsType, Steady, reap_entries
<1> HIDE DEF m2
<1>4. Steady(m2, m3)
  BY <1>3, ClearPoolWorker, SteadySelf DEF Steady, clear_threadpool_worker_for_thread
<1> HIDE DEF m3
<1>5. Steady(m3, m4)
  <2>1. m3 \in MapsType /\ <<>> \in Seq(Frames)
    BY <1>4 DEF Steady
  <2> QED
    BY <2>1, Zenon DEF MapsType, Steady, reap_stashes
<1> HIDE DEF m4
<1>6. Steady(m4, m5)
  BY <1>5, ClearRuns DEF Steady
<1> HIDE DEF m5
<1> QED
  BY <1>1, <1>2, <1>3, <1>4, <1>5, <1>6, SteadyTrans

(* Writing PROTECTED_TGIDS is steady.                                       *)
LEMMA SetProtected ==
  ASSUME NEW m \in MapsType, NEW q \in SUBSET Tids
  PROVE  Steady(m, [m EXCEPT !.PROTECTED_TGIDS = q])
BY Zenon DEF MapsType, Steady

(* handle_sched_exit is steady.                                             *)
LEMMA SchedExit ==
  ASSUME NEW m \in MapsType, NEW tid \in Tids, NEW tgid
  PROVE  Steady(m, handle_sched_exit(m, tid, tgid))
<1> DEFINE m1 == reap_thread(m, tid)
           q == IF tid = tgid THEN m1.PROTECTED_TGIDS \ {tgid} ELSE m1.PROTECTED_TGIDS
           r == [m1 EXCEPT !.PROTECTED_TGIDS = q]
<1>1. ASSUME m1 \in MapsType PROVE handle_sched_exit(m, tid, tgid) = r
  BY <1>1, Zenon DEF handle_sched_exit, MapsType
<1>2. Steady(m, m1)
  BY ReapThread
<1> HIDE DEF m1
<1>3. m1 \in MapsType
  BY <1>2 DEF Steady
<1>4. q \in SUBSET Tids
  BY <1>3, MapsFields
<1> HIDE DEF q
<1>5. Steady(m1, r)
  BY <1>3, <1>4, SetProtected, Zenon
<1> HIDE DEF r
<1> QED
  BY <1>1, <1>2, <1>3, <1>5, SteadyTrans

(* The context a child inherits is a context or NULL.                       *)
LEMMA Inherited ==
  ASSUME NEW m \in MapsType, NEW tid \in Tids
  PROVE  inherited_ctx(m, tid) \in CtxOrNull
<1> DEFINE c == m.THREAD_ACTIVE_CTX[tid]
           p == m.PENDING_WORKER_SPAWN[tid]
<1>1. c \in CtxOrNull /\ p \in PendingWorkerSpawn \cup {NULL}
  BY MapsFields
<1>2. p # NULL => p.ctx_id \in CtxOrNull
  BY <1>1 DEF PendingWorkerSpawn, CtxOrNull
<1> QED
  BY <1>1, <1>2 DEF inherited_ctx, CtxOrNull

(* Giving a child its context is steady.                                    *)
LEMMA SetChild ==
  ASSUME NEW m \in MapsType, NEW child \in Tids, NEW c \in CtxIds \cup {NULL}
  PROVE  Steady(m, [m EXCEPT !.THREAD_ACTIVE_CTX[child] = c, !.FORK_CTX[child] = c])
BY Zenon DEF MapsType, Steady

(* handle_sched_fork, in either child scope, is steady.                     *)
LEMMA SchedFork ==
  ASSUME NEW m \in MapsType, NEW tid \in Tids, NEW tgid, NEW child \in Tids,
         NEW child_tgid \in Tids, NEW all \in BOOLEAN
  PROVE  Steady(m, handle_sched_fork(m, tid, tgid, child, child_tgid, all))
<1> DEFINE act == get_active_ctx(m, tid)
           c == inherited_ctx(act, tid)
           s1 == [act EXCEPT !.PENDING_WORKER_SPAWN[tid] = NULL]
           m1 == IF spawn_taken(act, tid) THEN s1 ELSE act
           q == m1.PROTECTED_TGIDS \cup {child_tgid}
           m2 == [m1 EXCEPT !.PROTECTED_TGIDS = q]
           m3 == [m2 EXCEPT !.THREAD_ACTIVE_CTX[child] = c, !.FORK_CTX[child] = c]
           m4 == carrier_inc(m3, c)
<1>1. ASSUME m1 \in MapsType
      PROVE  handle_sched_fork(m, tid, tgid, child, child_tgid, all) =
               IF c = NULL THEN IF tgid \in m.PROTECTED_TGIDS /\ all THEN m2 ELSE m1 ELSE m4
  BY <1>1, Zenon DEF handle_sched_fork, MapsType
<1>2. Steady(m, act)
  BY GetActive
<1> HIDE DEF act
<1>3. act \in MapsType
  BY <1>2 DEF Steady
<1>4. c \in CtxOrNull
  BY <1>3, Inherited
<1> HIDE DEF c
<1>5. Steady(act, s1)
  BY <1>3, Zenon DEF MapsType, Steady
<1> HIDE DEF s1
<1>6. Steady(m, m1)
  BY <1>2, <1>5, SteadyTrans
<1> HIDE DEF m1
<1>7. m1 \in MapsType
  BY <1>6 DEF Steady
<1>8. q \in SUBSET Tids
  BY <1>7, MapsFields
<1> HIDE DEF q
<1>9. Steady(m1, m2)
  BY <1>7, <1>8, SetProtected, Zenon
<1> HIDE DEF m2
<1>10. Steady(m2, m3)
  <2>1. m2 \in MapsType /\ c \in CtxIds \cup {NULL}
    BY <1>4, <1>9 DEF Steady, CtxOrNull
  <2> QED
    BY <2>1, SetChild, Zenon
<1> HIDE DEF m3
<1>11. Steady(m3, m4)
  BY <1>4, <1>10, CarrierInc DEF Steady
<1> HIDE DEF m4
<1>12. Steady(m, m2)
  BY <1>6, <1>9, SteadyTrans
<1>13. Steady(m, m4)
  BY <1>10, <1>11, <1>12, SteadyTrans
<1> QED
  BY <1>1, <1>6, <1>7, <1>12, <1>13

(* A fallback monitor is steady: resolve_ctx, then mark_ctx_seen on a       *)
(* context that is alive.                                                   *)
LEMMA FentryHook ==
  ASSUME NEW m \in MapsType, NEW py \in PyType, NEW tid \in Tids
  PROVE  Steady(m, fentry_hook(m, py, tid))
<1> DEFINE r0 == refresh_threadpool_worker_context(m, py, tid)
           m1 == get_active_ctx(r0, tid)
           c == m1.THREAD_ACTIVE_CTX[tid]
           v == [m1.TOOL_CTX[c] EXCEPT !.seen = TRUE]
           r == [m1 EXCEPT !.TOOL_CTX[c] = v]
<1>1. fentry_hook(m, py, tid) = IF c = NULL THEN m1 ELSE r
  BY DEF fentry_hook, mark_ctx_seen, resolve_ctx
<1>2. Steady(m, r0)
  BY RefreshPool
<1> HIDE DEF r0
<1>3. Steady(r0, m1) /\ c \in CtxOrNull /\ (c # NULL => ctx_is_live(m1, c))
  BY <1>2, GetActive DEF Steady
<1> HIDE DEF m1, c
<1>4. m1 \in MapsType /\ Steady(m, m1)
  BY <1>2, <1>3, SteadyTrans DEF Steady
<1>5. ASSUME c # NULL PROVE Steady(m1, r)
  <2>1. c \in CtxIds /\ m1.TOOL_CTX[c] \in ToolCtx
    BY <1>3, <1>4, <1>5, LiveType
  <2>2. v \in ToolCtx \cup {NULL}
    BY <2>1 DEF ToolCtx
  <2> HIDE DEF v
  <2> QED
    BY <1>4, <2>1, <2>2, SetCtx
<1> HIDE DEF r
<1> QED
  BY <1>1, <1>4, <1>5, SteadyTrans

(* A guarded system call is steady.                                         *)
LEMMA GuardHook ==
  ASSUME NEW m \in MapsType, NEW py \in PyType, NEW tid \in Tids, NEW tgid
  PROVE  Steady(m, guard_hook(m, py, tid, tgid))
<1> DEFINE act == get_active_ctx(m, tid)
           r == fentry_hook(act, py, tid)
<1>1. guard_hook(m, py, tid, tgid) = act \/ guard_hook(m, py, tid, tgid) = r
  BY DEF guard_hook, fentry_hook
<1>2. Steady(m, act)
  BY GetActive
<1> HIDE DEF act
<1>3. Steady(act, r)
  BY <1>2, FentryHook DEF Steady
<1> HIDE DEF r
<1> QED
  BY <1>1, <1>2, <1>3, SteadyTrans
=============================================================================
