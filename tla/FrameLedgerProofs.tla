------------------------- MODULE FrameLedgerProofs --------------------------
(***************************************************************************)
(* The handlers of frame_probes.rs and task_probes.rs, and the helpers     *)
(* they share with the others, keep the books of LedgerProofs.             *)
(***************************************************************************)
EXTENDS HandlerProofs, LedgerProofs

-----------------------------------------------------------------------------
(* Helpers that are not about carriers.                                     *)

(* The cache of tool objects and the pending resolutions.                   *)
LEMMA CacheNeutral ==
  ASSUME NEW m \in MapsType, NEW cache \in [Objs -> ToolObjCacheEntry \cup {NULL}],
         NEW pending \in SUBSET Objs
  PROVE  /\ Neutral(m, [m EXCEPT !.PENDING_TOOL_RESOLVE = pending])
         /\ Neutral(m, [m EXCEPT !.TOOL_OBJ = cache, !.PENDING_TOOL_RESOLVE = pending])
<1> DEFINE r == [m EXCEPT !.PENDING_TOOL_RESOLVE = pending]
           s == [m EXCEPT !.TOOL_OBJ = cache, !.PENDING_TOOL_RESOLVE = pending]
<1>1. r \in MapsType /\ s \in MapsType
  BY SetIdentity, Zenon DEF Steady
<1>2. Aside(m, r) /\ Aside(m, s)
  BY Zenon DEF MapsType, Aside, SameCarriers
<1> QED
  BY <1>1, <1>2, AsideNeutral

(* emit_resolver_candidate.                                                 *)
LEMMA CandidateNeutral ==
  ASSUME NEW m \in MapsType, NEW py \in PyType, NEW c \in CtxOrNull, NEW o \in Objs
  PROVE  Neutral(m, emit_resolver_candidate(m, py, c, o))
<1> DEFINE p == m.PENDING_TOOL_RESOLVE \cup {o}
           r == [m EXCEPT !.PENDING_TOOL_RESOLVE = p]
           e == [failed |-> FALSE, ctx_id |-> c, self_ptr |-> o, type_ptr |-> py.type[o]]
<1>1. emit_resolver_candidate(m, py, c, o) =
        IF o \in m.PENDING_TOOL_RESOLVE THEN m ELSE resolver_submit(r, e)
  BY DEF emit_resolver_candidate
<1>2. p \in SUBSET Objs /\ m.TOOL_OBJ \in [Objs -> ToolObjCacheEntry \cup {NULL}]
  BY MapsFields
<1>3. e \in ResolverEvent
  BY EventType, Zenon
<1> HIDE DEF p, e
<1>4. Neutral(m, r)
  BY <1>2, CacheNeutral, Zenon
<1> HIDE DEF r
<1>5. Neutral(r, resolver_submit(r, e))
  BY <1>3, <1>4, SubmitNeutral DEF Neutral
<1> QED
  BY <1>1, <1>4, <1>5, NeutralTrans, NeutralSelf

(* emit_frame_self_resolver_candidate.                                      *)
LEMMA FrameSelfNeutral ==
  ASSUME NEW m \in MapsType, NEW py \in PyType, NEW f \in Frames, py.code[f].kind \notin WorkKinds
  PROVE  Neutral(m, emit_frame_self_resolver_candidate(m, py, f))
<1> DEFINE o == py.code[f].self
<1>1. emit_frame_self_resolver_candidate(m, py, f) =
        IF o = NULL \/ m.TOOL_OBJ[o] # NULL THEN m ELSE emit_resolver_candidate(m, py, NULL, o)
  BY DEF emit_frame_self_resolver_candidate
<1>2. o \in Objs \cup {NULL}
  BY PyFields
<1> HIDE DEF o
<1>3. NULL \in CtxOrNull
  BY DEF CtxOrNull
<1> QED
  BY <1>1, <1>2, <1>3, CandidateNeutral, NeutralSelf

(* extract_and_resolve.                                                     *)
LEMMA ExtractNeutral ==
  ASSUME NEW m \in MapsType, NEW py \in PyType, NEW f \in Frames, NEW c \in CtxOrNull,
         py.code[f].kind \notin WorkKinds
  PROVE  Neutral(m, extract_and_resolve(m, py, f, c))
<1> DEFINE o == py.code[f].self
           m1 == mark_resolver_error(m, c)
           m2 == set_ctx_tool_id(m, c, m.TOOL_OBJ[o].tool_id)
           m3 == emit_resolver_candidate(m, py, c, o)
           cache == [m.TOOL_OBJ EXCEPT ![o] = NULL]
           pending == m.PENDING_TOOL_RESOLVE \ {o}
           r == [m EXCEPT !.TOOL_OBJ = cache, !.PENDING_TOOL_RESOLVE = pending]
           s == mark_resolver_error(r, c)
           e == [failed |-> TRUE, ctx_id |-> c, self_ptr |-> o, type_ptr |-> py.type[o]]
           m4 == resolver_submit(s, e)
<1>1. extract_and_resolve(m, py, f, c) =
        IF o = NULL THEN m1 ELSE IF cache_valid(m, py, o) THEN m2
        ELSE IF m.TOOL_OBJ[o] = NULL THEN m3 ELSE m4
  BY DEF extract_and_resolve
<1>2. o \in Objs \cup {NULL}
  BY PyFields
<1> HIDE DEF o
<1>3. m.TOOL_OBJ \in [Objs -> ToolObjCacheEntry \cup {NULL}] /\ m.PENDING_TOOL_RESOLVE \in SUBSET Objs
  BY MapsFields
<1>4. Neutral(m, m1)
  BY IdentityNeutral
<1>5. ASSUME o # NULL, cache_valid(m, py, o) PROVE Neutral(m, m2)
  <2>1. m.TOOL_OBJ[o] \in ToolObjCacheEntry
    BY <1>2, <1>3, <1>5 DEF cache_valid
  <2>2. m.TOOL_OBJ[o].tool_id \in ToolIds
    BY <2>1 DEF ToolObjCacheEntry
  <2> QED
    BY <2>2, IdentityNeutral
<1>6. ASSUME o # NULL PROVE Neutral(m, m3)
  BY <1>2, <1>6, CandidateNeutral
<1>7. ASSUME o # NULL PROVE Neutral(m, m4)
  <2>1. o \in Objs /\ cache \in [Objs -> ToolObjCacheEntry \cup {NULL}] /\ pending \in SUBSET Objs
    BY <1>2, <1>3, <1>7
  <2>2. e \in ResolverEvent
    BY <2>1, EventType, Zenon
  <2> HIDE DEF cache, pending, e
  <2>3. Neutral(m, r)
    BY <2>1, CacheNeutral, Zenon
  <2> HIDE DEF r
  <2>4. Neutral(r, s)
    BY <2>3, IdentityNeutral DEF Neutral
  <2> HIDE DEF s
  <2>5. Neutral(s, m4)
    BY <2>2, <2>4, SubmitNeutral DEF Neutral
  <2> HIDE DEF m4
  <2> QED
    BY <2>3, <2>4, <2>5, NeutralTrans
<1> HIDE DEF m1, m2, m3, m4
<1> QED
  BY <1>1, <1>4, <1>5, <1>6, <1>7

(* What the stack frames of a task step, a task's top and a thread's        *)
(* protection are kept in is not a carrier.                                 *)
LEMMA StepNeutral ==
  ASSUME NEW m \in MapsType, NEW tid \in Tids, NEW s \in StepStash \cup {NULL},
         NEW k \in Tasks \cup {NULL}, NEW c \in CtxIds \cup {NULL}
  PROVE  /\ Neutral(m, [m EXCEPT !.TASK_STEP_STASH[tid] = s, !.THREAD_ACTIVE_TASK[tid] = k])
         /\ Neutral(m, [m EXCEPT !.THREAD_ACTIVE_CTX[tid] = c, !.THREAD_ACTIVE_TASK[tid] = k,
                                 !.TASK_STEP_STASH[tid] = s])
<1> DEFINE r == [m EXCEPT !.TASK_STEP_STASH[tid] = s, !.THREAD_ACTIVE_TASK[tid] = k]
           u == [m EXCEPT !.THREAD_ACTIVE_CTX[tid] = c, !.THREAD_ACTIVE_TASK[tid] = k,
                          !.TASK_STEP_STASH[tid] = s]
<1>1. r \in MapsType /\ u \in MapsType
  BY SetStep, Zenon DEF Steady
<1>2. Aside(m, r) /\ Aside(m, u)
  BY Zenon DEF MapsType, Aside, SameCarriers
<1> QED
  BY <1>1, <1>2, AsideNeutral

(* Runs of work objects, and which thread runs one.                         *)
LEMMA RunNeutral ==
  ASSUME NEW m \in MapsType, NEW tid \in Tids, NEW w \in Works, NEW c \in CtxIds \cup {NULL},
         NEW s, s \in Seq(WorkerRunEntry), Len(s) <= MaxRuns, NEW t \in Tids \cup {NULL}
  PROVE  /\ Neutral(m, [m EXCEPT !.WORKER_RUN_STACK[tid] = s, !.THREAD_ACTIVE_CTX[tid] = c,
                                 !.WORKER_RUN_CARRIER[w] = t])
         /\ Neutral(m, [m EXCEPT !.WORKER_RUN_STACK[tid] = s])
         /\ Neutral(m, [m EXCEPT !.WORKER_RUN_CARRIER[w] = t])
         /\ Neutral(m, [m EXCEPT !.THREADPOOL_WORKITEM_THREAD[w] = t])
<1> DEFINE r1 == [m EXCEPT !.WORKER_RUN_STACK[tid] = s, !.THREAD_ACTIVE_CTX[tid] = c,
                           !.WORKER_RUN_CARRIER[w] = t]
           r2 == [m EXCEPT !.WORKER_RUN_STACK[tid] = s]
           r3 == [m EXCEPT !.WORKER_RUN_CARRIER[w] = t]
           r4 == [m EXCEPT !.THREADPOOL_WORKITEM_THREAD[w] = t]
<1>1. r1 \in MapsType /\ r2 \in MapsType
  BY SetRun, Zenon DEF Steady
<1>2. "THREAD" \in RunKinds
  BY DEF RunKinds
<1>3. r3 \in MapsType /\ r4 \in MapsType
  BY <1>2, SetWork, Zenon DEF Steady
<1>4. Aside(m, r1)
  BY Zenon DEF MapsType, Aside, SameCarriers
<1>5. Aside(m, r2)
  BY Zenon DEF MapsType, Aside, SameCarriers
<1>6. Aside(m, r3)
  BY Zenon DEF MapsType, Aside, SameCarriers
<1>7. Aside(m, r4)
  BY Zenon DEF MapsType, Aside, SameCarriers
<1> HIDE DEF r1, r2, r3, r4
<1>8. Neutral(m, r1) /\ Neutral(m, r2) /\ Neutral(m, r3) /\ Neutral(m, r4)
  BY <1>1, <1>3, <1>4, <1>5, <1>6, <1>7, AsideNeutral
<1> QED
  BY <1>8 DEF r1, r2, r3, r4

(* finalize_worker_run_for_object.                                          *)
LEMMA FinalizeNeutral ==
  ASSUME NEW m \in MapsType, NEW w \in Works
  PROVE  Neutral(m, finalize_worker_run_for_object(m, w))
<1> DEFINE tid == m.WORKER_RUN_CARRIER[w]
           runs == m.WORKER_RUN_STACK[tid]
           n == Len(runs)
           i == IF n >= 1 /\ runs[n].self_obj = w THEN n
                ELSE IF n >= 2 /\ runs[n - 1].self_obj = w THEN n - 1 ELSE 0
           m1 == [m EXCEPT !.WORKER_RUN_CARRIER[w] = NULL]
           s == RemoveAt(m1.WORKER_RUN_STACK[tid], i)
           r == [m1 EXCEPT !.WORKER_RUN_STACK[tid] = s]
<1>1. finalize_worker_run_for_object(m, w) = IF tid = NULL THEN m ELSE IF i = 0 THEN m1 ELSE r
  BY DEF finalize_worker_run_for_object
<1>2. finalize_worker_run_for_object(m, w) \in MapsType
  BY FinalizeRun DEF Steady
<1> HIDE DEF tid, i, s
<1>3. Aside(m, m1) /\ m1 \in MapsType
  BY Zenon DEF MapsType, Aside, SameCarriers
<1> HIDE DEF m1
<1>4. Aside(m1, r)
  BY <1>3, Zenon DEF MapsType, Aside, SameCarriers
<1>5. Aside(m, r)
  BY <1>3, <1>4 DEF Aside, SameCarriers
<1> QED
  BY <1>1, <1>2, <1>3, <1>5, AsideNeutral, NeutralSelf

(* clear_worker_runs_for_thread.                                            *)
LEMMA ClearRunsNeutral ==
  ASSUME NEW m \in MapsType, NEW tid \in Tids
  PROVE  Neutral(m, clear_worker_runs_for_thread(m, tid))
<1> DEFINE objs == {m.WORKER_RUN_STACK[tid][i].self_obj : i \in DOMAIN m.WORKER_RUN_STACK[tid]}
           v == [w \in Works |-> IF w \in objs THEN NULL ELSE m.WORKER_RUN_CARRIER[w]]
           r == [m EXCEPT !.WORKER_RUN_CARRIER = v, !.WORKER_RUN_STACK[tid] = <<>>]
<1>1. clear_worker_runs_for_thread(m, tid) = r
  BY Zenon DEF clear_worker_runs_for_thread, MapsType
<1>2. clear_worker_runs_for_thread(m, tid) \in MapsType
  BY ClearRuns DEF Steady
<1> HIDE DEF v
<1>3. Aside(m, r)
  BY Zenon DEF MapsType, Aside, SameCarriers
<1> QED
  BY <1>1, <1>2, <1>3, AsideNeutral

(* dealloc_obj.                                                             *)
LEMMA DeallocObjNeutral ==
  ASSUME NEW m \in MapsType, NEW o \in Objs
  PROVE  Neutral(m, dealloc_obj(m, o))
<1> DEFINE q == m.PENDING_TOOL_RESOLVE \ {o}
           r == [m EXCEPT !.TOOL_OBJ[o] = NULL, !.PENDING_TOOL_RESOLVE = q]
<1>1. dealloc_obj(m, o) = r
  BY Zenon DEF dealloc_obj, MapsType
<1>2. dealloc_obj(m, o) \in MapsType
  BY DeallocObjOK DEF Steady
<1> HIDE DEF q
<1>3. Aside(m, r)
  BY Zenon DEF MapsType, Aside, SameCarriers
<1> QED
  BY <1>1, <1>2, <1>3, AsideNeutral

(* The protected processes and the spawn a thread has announced.            *)
LEMMA ProtectedNeutral ==
  ASSUME NEW m \in MapsType, NEW q \in SUBSET Tids, NEW tid \in Tids
  PROVE  /\ Neutral(m, [m EXCEPT !.PROTECTED_TGIDS = q])
         /\ Neutral(m, [m EXCEPT !.PENDING_WORKER_SPAWN[tid] = NULL])
<1> DEFINE r == [m EXCEPT !.PROTECTED_TGIDS = q]
           u == [m EXCEPT !.PENDING_WORKER_SPAWN[tid] = NULL]
<1>1. r \in MapsType /\ Aside(m, r)
  BY Zenon DEF MapsType, Aside, SameCarriers
<1>2. u \in MapsType /\ Aside(m, u)
  BY Zenon DEF MapsType, Aside, SameCarriers
<1> QED
  BY <1>1, <1>2, AsideNeutral

(* mark_ctx_seen, where the active context is alive.                        *)
LEMMA SeenNeutral ==
  ASSUME NEW m \in MapsType, NEW tid \in Tids,
         m.THREAD_ACTIVE_CTX[tid] # NULL => ctx_is_live(m, m.THREAD_ACTIVE_CTX[tid])
  PROVE  Neutral(m, mark_ctx_seen(m, tid))
<1> DEFINE c == m.THREAD_ACTIVE_CTX[tid]
           v == [m.TOOL_CTX[c] EXCEPT !.seen = TRUE]
<1>1. c \in CtxOrNull
  BY MapsFields
<1>2. CASE c = NULL
  BY <1>2, NeutralSelf DEF mark_ctx_seen
<1>3. CASE c # NULL
  <2>1. c \in CtxIds /\ m.TOOL_CTX[c] \in ToolCtx
    BY <1>1, <1>3, LiveType
  <2>2. v \in ToolCtx /\ v.carrier_count = m.TOOL_CTX[c].carrier_count
    BY <2>1, Zenon DEF ToolCtx
  <2>3. mark_ctx_seen(m, tid) = [m EXCEPT !.TOOL_CTX[c] = v]
    BY <1>3 DEF mark_ctx_seen
  <2>4. ctx_is_live(m, c)
    BY <1>3
  <2> HIDE DEF v, c
  <2> QED
    BY <2>1, <2>2, <2>3, <2>4, RewriteCtx
<1> QED
  BY <1>2, <1>3

-----------------------------------------------------------------------------
(* The loops over a task.                                                   *)

(* finish_deferred_tool_close keeps the books, slot by slot.                *)
LEMMA FinishDeferredKept ==
  ASSUME NEW m \in MapsType, NEW x, Ledger(m, x), NEW tid \in Tids, NEW k \in Tasks, NEW c
  PROVE  Kept(m, finish_deferred_tool_close(m, tid, k, c), x)
<1> DEFINE F(r, i) == finish_deferred_tool_close_at_depth(r, tid, k, i, c)
<1>1. \A r : \A i : Kept(m, r, x) => Kept(m, F(r, i), x)
  BY AtDepthKept, KeptFacts, KeptTrans
<1>2. finish_deferred_tool_close(m, tid, k, c)
      = F(F(F(F(F(F(F(F(m, 0), 1), 2), 3), 4), 5), 6), 7)
  BY DEF finish_deferred_tool_close
<1> HIDE DEF F
<1>3. Kept(m, m, x)
  BY KeptSelf
<1> QED
  BY <1>1, <1>2, <1>3

(* So does task_ctx_clear: eight turns over the stack, eight over the slots. *)
LEMMA ClearKept ==
  ASSUME NEW m \in MapsType, NEW x, Ledger(m, x), NEW tid \in Tids, NEW k \in Tasks
  PROVE  Kept(m, task_ctx_clear(m, tid, k), x)
<1> DEFINE C(r, i) == clear_top(r, tid, k, i)
           P(r, i) == clear_slot(r, tid, k, i)
           stack == C(C(C(C(C(C(C(C(m, 7), 6), 5), 4), 3), 2), 1), 0)
           done == P(P(P(P(P(P(P(P(stack, 0), 1), 2), 3), 4), 5), 6), 7)
           s == [done EXCEPT !.TASK_CTX[k] = NULL]
<1>1. task_ctx_clear(m, tid, k) = s
  BY DEF task_ctx_clear
<1>2. \A r : \A i \in Nat : Kept(m, r, x) => Kept(m, C(r, i), x)
  BY ClearTopKept, KeptFacts, KeptTrans
<1>3. \A r : \A i : Kept(m, r, x) => Kept(m, P(r, i), x)
  BY AtDepthKept, KeptFacts, KeptTrans
<1> HIDE DEF C, P
<1>4. Kept(m, m, x)
  BY KeptSelf
<1>5. Kept(m, stack, x)
  BY <1>2, <1>4
<1> HIDE DEF stack
<1>6. Kept(m, done, x)
  BY <1>3, <1>5
<1> HIDE DEF done
<1>7. Neutral(done, s)
  BY <1>6, KeptFacts, TaskTopNeutral
<1> HIDE DEF s
<1> QED
  BY <1>1, <1>6, <1>7, KeptThenNeutral

-----------------------------------------------------------------------------
(* frame_probes.rs.                                                         *)

(* A frame goes on the stash and its tool root starts.                      *)
LEMMA StashStartKept ==
  ASSUME NEW m \in MapsType, NEW x, Ledger(m, x), NEW f \in Frames, x => m.FRAME_CTX[f] = NULL,
         NEW tool \in ToolIds \cup {TOOL_IDLE}, NEW async \in BOOLEAN, m.CTX_COUNTER < MaxCtx,
         NEW tid \in Tids, NEW parent \in ParentPtrs
  PROVE  Kept(m, start_cached_self_tool_root(frame_stash_push(m, tid, f), tid, f, parent,
                                             tool, async), x)
<1> DEFINE r == frame_stash_push(m, tid, f)
<1>1. Neutral(m, r)
  BY FrameStashNeutral
<1> HIDE DEF r
<1>2. r \in MapsType /\ r.FRAME_CTX = m.FRAME_CTX /\ r.CTX_COUNTER = m.CTX_COUNTER
  BY <1>1 DEF Neutral, SameCarriers
<1>3. Ledger(r, x) => Kept(r, start_cached_self_tool_root(r, tid, f, parent, tool, async), x)
  BY <1>2, StartKept
<1>4. Kept(m, start_cached_self_tool_root(r, tid, f, parent, tool, async), x)
  BY <1>1, <1>3, NeutralThenKept
<1> QED
  BY <1>4 DEF r

(* start_cached_parent_tool_if_needed starts only a frame that has no       *)
(* context.                                                                 *)
LEMMA StartParentKept ==
  ASSUME NEW m \in MapsType, NEW x, Ledger(m, x), NEW py \in PyType, NEW tid \in Tids,
         NEW p \in ParentPtrs, m.CTX_COUNTER < MaxCtx
  PROVE  Kept(m, start_cached_parent_tool_if_needed(m, py, tid, p), x)
<1> DEFINE tool == cached_frame_self_tool_id(m, py, p)
           async == py.code[p].async
           t == start_cached_self_tool_root(frame_stash_push(m, tid, p), tid, p, py.prev[p], tool,
                                            async)
           skip == \/ p \notin Frames
                   \/ m.FRAME_CTX[p] # NULL
                   \/ py.code[p].kind # IMPL
                   \/ tool = TOOL_IDLE
<1>1. start_cached_parent_tool_if_needed(m, py, tid, p) = IF skip THEN m ELSE t
  BY DEF start_cached_parent_tool_if_needed
<1>2. ASSUME ~skip PROVE Kept(m, t, x)
  <2>1. p \in Frames /\ m.FRAME_CTX[p] = NULL /\ py.code[p].kind \notin WorkKinds
    BY <1>2 DEF IMPL, WorkKinds, WORKITEM_CTOR, WORKITEM_RUN, THREAD_CTOR, THREAD_RUN
  <2>2. tool \in ToolIds \cup {TOOL_IDLE}
    BY <2>1, CachedTool
  <2>3. async \in BOOLEAN /\ py.prev[p] \in ParentPtrs
    BY <2>1, PyFields
  <2> HIDE DEF tool, async, skip
  <2> QED
    BY <2>1, <2>2, <2>3, StashStartKept
<1> QED
  BY <1>1, <1>2, KeptSelf

(* enter_impl.  A second context for a frame that has one is only started   *)
(* when the frame has changed tool.                                         *)
LEMMA EnterImplKept ==
  ASSUME NEW m, MapsOK(m), NEW x, Ledger(m, x), NEW py \in PyType, NEW tid \in Tids,
         NEW f \in Frames, NEW tool \in ToolIds \cup {TOOL_IDLE}, m.CTX_COUNTER < MaxCtx,
         x /\ m.FRAME_CTX[f] # NULL => tool \in {TOOL_IDLE, tool_of(m, m.FRAME_CTX[f])}
  PROVE  Kept(m, enter_impl(m, py, tid, f, tool), x)
<1> DEFINE c == m.FRAME_CTX[f]
           async == py.code[f].async
           parent == py.prev[f]
           Start(r) == start_cached_self_tool_root(frame_stash_push(r, tid, f), tid, f,
                                                   parent, tool, async)
           i == find_frame_ctx(m, tid, f, c)
           closed == close_at(m, tid, i)
           act == get_active_ctx(m, tid)
           other == tool # TOOL_IDLE /\ tool # tool_of(m, c)
           same == tool_of(act, act.THREAD_ACTIVE_CTX[tid]) = tool
<1>1. enter_impl(m, py, tid, f, tool) =
        IF c # NULL
        THEN IF other THEN Start(IF i = 0 THEN m ELSE closed) ELSE reenter(m, tid, f, parent, c)
        ELSE IF tool = TOOL_IDLE THEN m ELSE IF same THEN act ELSE Start(act)
  BY DEF enter_impl
<1>2. /\ m \in MapsType /\ c \in CtxOrNull /\ async \in BOOLEAN /\ parent \in ParentPtrs
      /\ i \in 0..Len(m.TOOL_STACK[tid])
  BY FrameCtxType, PyFields, FindFrameCtx DEF MapsOK
<1>3. \A r : Kept(m, r, x) /\ r.CTX_COUNTER < MaxCtx /\ (x => r.FRAME_CTX[f] = NULL) =>
               Kept(m, Start(r), x)
  <2> HIDE DEF async, parent, c, i, act, other, same, closed
  <2> SUFFICES ASSUME NEW r, Kept(m, r, x), r.CTX_COUNTER < MaxCtx, x => r.FRAME_CTX[f] = NULL
               PROVE  Kept(m, Start(r), x)
    OBVIOUS
  <2>1. r \in MapsType /\ Ledger(r, x)
    BY KeptFacts
  <2>2. Kept(r, Start(r), x)
    BY <1>2, <2>1, StashStartKept
  <2> QED
    BY <1>2, <2>2, KeptTrans
<1> HIDE DEF Start, async, parent
<1>4. ASSUME c # NULL, other PROVE Kept(m, Start(IF i = 0 THEN m ELSE closed), x)
  <2>1. ~x
    BY <1>4
  <2>2. i # 0 => Kept(m, closed, x) /\ Grows(m, closed, 0)
    BY <1>2, CloseAtKept, CloseAt
  <2>3. Kept(m, m, x) /\ m.CTX_COUNTER \in Nat
    BY <1>2, KeptSelf, MapsFields
  <2> HIDE DEF i, closed, other, c
  <2>4. i # 0 => closed.CTX_COUNTER \in Nat /\ closed.CTX_COUNTER <= m.CTX_COUNTER + 0
    BY <2>2, KeptFacts, MapsFields DEF Grows
  <2>5. i # 0 => closed.CTX_COUNTER < MaxCtx
    BY <2>3, <2>4, BoundsAssumption
  <2> QED
    BY <1>3, <2>1, <2>2, <2>3, <2>5
<1>5. ASSUME c # NULL PROVE Kept(m, reenter(m, tid, f, parent, c), x)
  <2>1. c \in CtxIds
    BY <1>2, <1>5 DEF CtxOrNull
  <2> QED
    BY <1>2, <2>1, ReenterKept
<1>6. ASSUME c = NULL PROVE Kept(m, act, x) /\ Kept(m, Start(act), x)
  <2>1. Neutral(m, act)
    BY <1>2, GetActiveNeutral
  <2> HIDE DEF act
  <2>2. Kept(m, act, x) /\ act.CTX_COUNTER < MaxCtx /\ act.FRAME_CTX[f] = NULL
    BY <1>2, <1>6, <2>1, NeutralKept DEF Neutral, SameCarriers
  <2> QED
    BY <1>3, <2>2
<1>7. Kept(m, m, x)
  BY <1>2, KeptSelf
<1> HIDE DEF c, i, closed, act, other, same
<1> QED
  BY <1>1, <1>4, <1>5, <1>6, <1>7

(* The entry of an implementation frame: first the frame that called it may *)
(* get its context, then the frame itself.                                  *)
LEMMA ImplEntryKept ==
  ASSUME NEW m, MapsOK(m), NEW x, Ledger(m, x), m.CTX_COUNTER + 2 <= MaxCtx, NEW py \in PyType,
         NEW tid \in Tids, NEW f \in Frames, py.code[f].kind = IMPL, x => Settled(m, py, f)
  PROVE  Kept(m, impl_frame_entry(m, py, tid, f), x)
<1> DEFINE parent == py.prev[f]
           m1 == start_cached_parent_tool_if_needed(m, py, tid, parent)
           tool == cached_frame_self_tool_id(m1, py, f)
           emitted == emit_frame_self_resolver_candidate(m1, py, f)
           m2 == IF tool = TOOL_IDLE THEN emitted ELSE m1
<1>1. impl_frame_entry(m, py, tid, f) = enter_impl(m2, py, tid, f, tool)
  BY DEF impl_frame_entry, resolve_impl
<1>2. py.code[f].kind \notin WorkKinds
  BY DEF IMPL, WorkKinds, WORKITEM_CTOR, WORKITEM_RUN, THREAD_CTOR, THREAD_RUN
<1>3. parent \in ParentPtrs
  BY PyFields
<1>4. m \in MapsType /\ m.CTX_COUNTER \in Nat /\ m.CTX_COUNTER < MaxCtx
  BY MapsFields, BoundsAssumption DEF MapsOK
<1> HIDE DEF parent
<1>5. Grows(m, m1, 1) /\ Kept(m, m1, x)
  BY <1>3, <1>4, StartParent, StartParentKept
<1>6. x => Settled(m1, py, f)
  BY <1>3, <1>4, ParentSettled, Zenon
<1> HIDE DEF m1
<1>7. MapsOK(m1) /\ m1 \in MapsType /\ Ledger(m1, x)
  BY <1>5, KeptFacts DEF Grows
<1>8. tool \in ToolIds \cup {TOOL_IDLE}
  BY <1>2, <1>7, CachedTool
<1>9. Grows(m1, m2, 0)
  BY <1>2, <1>7, EmitFrameSelf, Same
<1>10. Neutral(m1, m2)
  BY <1>2, <1>7, FrameSelfNeutral, NeutralSelf
<1>11. tool # TOOL_IDLE => m2 = m1
  OBVIOUS
<1>12. x /\ m1.FRAME_CTX[f] # NULL => tool \in {TOOL_IDLE, tool_of(m1, m1.FRAME_CTX[f])}
  BY <1>6 DEF Settled
<1> HIDE DEF m2, tool
<1>13. x /\ m2.FRAME_CTX[f] # NULL => tool \in {TOOL_IDLE, tool_of(m2, m2.FRAME_CTX[f])}
  BY <1>11, <1>12
<1>14. MapsOK(m2) /\ Kept(m, m2, x)
  BY <1>4, <1>5, <1>9, <1>10, KeptThenNeutral DEF Grows
<1>15. Ledger(m2, x) /\ m2.CTX_COUNTER < MaxCtx
  <2>1. m2.CTX_COUNTER = m1.CTX_COUNTER /\ m1.CTX_COUNTER <= m.CTX_COUNTER + 1
    BY <1>5, <1>10 DEF Grows, Neutral, SameCarriers
  <2>2. m1.CTX_COUNTER \in Nat
    BY <1>7, MapsFields
  <2> QED
    BY <1>4, <1>14, <2>1, <2>2, KeptFacts, BoundsAssumption
<1>16. Kept(m2, enter_impl(m2, py, tid, f, tool), x)
  BY <1>8, <1>13, <1>14, <1>15, EnterImplKept
<1> QED
  BY <1>1, <1>4, <1>14, <1>16, KeptTrans

(* A LangChain root: the new context is either dropped again, with the      *)
(* books as before, or begins.                                              *)
LEMMA StartRootLCKept ==
  ASSUME NEW m, MapsOK(m), NEW x, Ledger(m, x), m.CTX_COUNTER < MaxCtx, NEW py \in PyType,
         NEW tid \in Tids, NEW f \in Frames, py.code[f].kind \notin WorkKinds,
         x => m.FRAME_CTX[f] = NULL
  PROVE  Kept(m, start_root_lc(m, py, tid, f), x)
<1> DEFINE c == alloc_ctx_id(m)
           task == m.THREAD_ACTIVE_TASK[tid]
           async == py.code[f].async
           parent == py.prev[f]
           m1 == new_ctx(m, f, TOOL_IDLE, async)
           d1 == drop_ctx(m1, f, c)
           p1 == ctx_stack_push(m1, tid, c)
           m2 == extract_and_resolve(p1, py, f, c)
           r2 == ctx_stack_remove(m2, tid, c)
           d2 == drop_ctx(r2, f, c)
           b2 == begin_tool(m2, tid, f, parent, c)
           dup == task # NULL /\ task_ctx_contains_tool(m2, task, tool_of(m2, c))
<1>1. start_root_lc(m, py, tid, f) =
        IF ctx_stack_full(m, tid) THEN d1 ELSE IF dup THEN d2 ELSE b2
  BY DEF start_root_lc
<1>2. parent \in ParentPtrs /\ async \in BOOLEAN /\ m \in MapsType
  BY PyFields DEF MapsOK
<1> HIDE DEF parent, async
<1>3. Kept(m, d1, x) /\ Fresh(m, p1, f, c, x)
  BY <1>2, PushFresh
<1> HIDE DEF d1, p1, c
<1>4. p1 \in MapsType /\ c \in CtxOrNull
  BY <1>3 DEF Fresh, CtxOrNull
<1>5. Neutral(p1, m2)
  BY <1>4, ExtractNeutral
<1> HIDE DEF m2
<1>6. Fresh(m, m2, f, c, x)
  BY <1>2, <1>3, <1>5, FreshNeutral
<1>7. m2 \in MapsType
  BY <1>6 DEF Fresh
<1>8. Neutral(m2, r2)
  BY <1>7, CtxStackRemoveNeutral
<1> HIDE DEF r2
<1>9. Fresh(m, r2, f, c, x)
  BY <1>2, <1>6, <1>8, FreshNeutral
<1>10. Kept(m, d2, x) /\ Kept(m, b2, x)
  BY <1>2, <1>6, <1>9, DropFresh, BeginKept
<1> HIDE DEF d2, b2, dup
<1> QED
  BY <1>1, <1>3, <1>10

(* A LangGraph root starts its context, which only the frame carries.       *)
LEMMA StartRootLGKept ==
  ASSUME NEW m, MapsOK(m), NEW x, Ledger(m, x), m.CTX_COUNTER < MaxCtx, NEW py \in PyType,
         NEW tid \in Tids, NEW f \in Frames, x => m.FRAME_CTX[f] = NULL
  PROVE  Kept(m, start_root_lg(m, py, tid, f), x)
<1> DEFINE c == alloc_ctx_id(m)
           async == py.code[f].async
           m1 == new_ctx(m, f, TOOL_IDLE, async)
           d1 == drop_ctx(m1, f, c)
           p1 == ctx_stack_push(m1, tid, c)
           e1 == emit_start(p1, c)
<1>1. start_root_lg(m, py, tid, f) = IF ctx_stack_full(m, tid) THEN d1 ELSE e1
  BY DEF start_root_lg
<1>2. async \in BOOLEAN /\ m \in MapsType
  BY PyFields DEF MapsOK
<1> HIDE DEF async
<1>3. Kept(m, d1, x) /\ Fresh(m, p1, f, c, x)
  BY <1>2, PushFresh
<1> HIDE DEF d1, p1, c
<1>4. Kept(m, e1, x)
  BY <1>3 DEF Fresh
<1> HIDE DEF e1
<1> QED
  BY <1>1, <1>3, <1>4

(* A tool-id rule names the running context and counts nothing.             *)
LEMMA IdRuleNeutral ==
  ASSUME NEW m, MapsOK(m), NEW py \in PyType, NEW tid \in Tids,
         NEW f \in Frames, py.code[f].kind \notin WorkKinds
  PROVE  Neutral(m, apply_id_rule(m, py, tid, f))
<1> DEFINE act == get_active_ctx(m, tid)
           c == act.THREAD_ACTIVE_CTX[tid]
           ex == extract_and_resolve(act, py, f, c)
<1>1. apply_id_rule(m, py, tid, f) = IF c = NULL THEN act ELSE ex
  BY DEF apply_id_rule
<1>2. act \in MapsType /\ c \in CtxOrNull
  BY GetActiveOK
<1>3. Neutral(m, act)
  BY GetActiveNeutral DEF MapsOK
<1> HIDE DEF act, c
<1>4. Neutral(act, ex)
  BY <1>2, ExtractNeutral
<1> HIDE DEF ex
<1> QED
  BY <1>1, <1>3, <1>4, NeutralTrans

(* A new root, by kind of code.                                             *)
LEMMA StartRootKept ==
  ASSUME NEW m, MapsOK(m), NEW x, Ledger(m, x), NEW py \in PyType, NEW tid \in Tids,
         NEW f \in Frames, py.code[f].kind \notin WorkKinds,
         py.code[f].kind \in {LC, LG} => m.CTX_COUNTER < MaxCtx, x => m.FRAME_CTX[f] = NULL
  PROVE  Kept(m, start_root(m, py, tid, f), x)
<1> DEFINE kind == py.code[f].kind
           r == frame_stash_push(m, tid, f)
           lc == start_root_lc(r, py, tid, f)
           lg == start_root_lg(r, py, tid, f)
           id == apply_id_rule(r, py, tid, f)
<1>1. start_root(m, py, tid, f) =
        IF kind = LC THEN lc ELSE IF kind = LG THEN lg ELSE IF kind = ID THEN id ELSE r
  BY DEF start_root, LC, LG, ID
<1>2. m \in MapsType /\ Neutral(m, r) /\ MapsOK(r)
  BY FrameStashNeutral, FrameStashPush, SteadyGrows DEF MapsOK, Grows
<1> HIDE DEF r
<1>3. r.CTX_COUNTER = m.CTX_COUNTER /\ r.FRAME_CTX = m.FRAME_CTX
  BY <1>2 DEF Neutral, SameCarriers
<1>4. Kept(m, r, x) /\ Ledger(r, x)
  BY <1>2, NeutralKept, KeptFacts
<1>5. kind = LC => Kept(r, lc, x)
  BY <1>2, <1>3, <1>4, StartRootLCKept
<1>6. kind = LG => Kept(r, lg, x)
  BY <1>2, <1>3, <1>4, StartRootLGKept
<1>7. Neutral(r, id)
  BY <1>2, IdRuleNeutral
<1> HIDE DEF lc, lg, id, kind
<1>8. Kept(m, id, x)
  BY <1>2, <1>4, <1>7, KeptThenNeutral
<1>9. (kind = LC => Kept(m, lc, x)) /\ (kind = LG => Kept(m, lg, x))
  BY <1>2, <1>4, <1>5, <1>6, KeptTrans
<1> QED
  BY <1>1, <1>4, <1>8, <1>9

(* Re-entry of a known frame, else a new root.  A frame that changed tool   *)
(* gives up its context before it gets another.                             *)
LEMMA RootFrameKept ==
  ASSUME NEW m, MapsOK(m), NEW x, Ledger(m, x), NEW py \in PyType, NEW tid \in Tids,
         NEW f \in Frames, py.code[f].kind \notin WorkKinds,
         \/ py.code[f].kind \notin {LC, LG}
         \/ m.CTX_COUNTER < MaxCtx
         \/ /\ m.FRAME_CTX[f] # NULL
            /\ cached_frame_self_tool_id(m, py, f) \in {TOOL_IDLE, tool_of(m, m.FRAME_CTX[f])},
         x => Settled(m, py, f)
  PROVE  Kept(m, root_frame_entry(m, py, tid, f), x)
<1> DEFINE c == m.FRAME_CTX[f]
           tool == cached_frame_self_tool_id(m, py, f)
           i == find_frame_ctx(m, tid, f, c)
           known == tool = TOOL_IDLE \/ tool = tool_of(m, c)
           parent == py.prev[f]
           re == reenter(m, tid, f, parent, c)
           ended == end_frame_ctx(m, tid, f, c)
           closed == close_at(m, tid, i)
           m1 == IF i = 0 THEN ended ELSE closed
           s0 == start_root(m, py, tid, f)
           s1 == start_root(m1, py, tid, f)
<1>1. root_frame_entry(m, py, tid, f) = IF c = NULL THEN s0 ELSE IF known THEN re ELSE s1
  BY DEF root_frame_entry
<1>2. c \in CtxOrNull /\ i \in 0..Len(m.TOOL_STACK[tid]) /\ parent \in ParentPtrs
  BY FrameCtxType, FindFrameCtx, PyFields DEF MapsOK
<1>3. c = NULL \/ ~known => (py.code[f].kind \in {LC, LG} => m.CTX_COUNTER < MaxCtx)
  OBVIOUS
<1>4. m \in MapsType /\ m.CTX_COUNTER \in Nat
  BY MapsFields DEF MapsOK
<1>5. c # NULL /\ ~known => ~x
  BY DEF Settled
<1>6. ASSUME c = NULL PROVE Kept(m, s0, x)
  <2>1. py.code[f].kind \in {LC, LG} => m.CTX_COUNTER < MaxCtx
    BY <1>3, <1>6
  <2>2. x => m.FRAME_CTX[f] = NULL
    BY <1>6
  <2> QED
    BY <2>1, <2>2, StartRootKept
<1>7. c # NULL => m.FRAME_CTX[f] = c /\ c \in CtxIds
  BY <1>2 DEF CtxOrNull
<1> HIDE DEF c, i, parent, known, tool
<1>8. ASSUME c # NULL PROVE Grows(m, m1, 0) /\ Kept(m, m1, x)
  <2>1. CASE i = 0
    BY <1>4, <1>7, <1>8, <2>1, EndFrameCtx, EndFrameKept
  <2>2. CASE i # 0
    BY <1>2, <1>4, <2>2, CloseAt, CloseAtKept
  <2> QED
    BY <2>1, <2>2
<1> HIDE DEF m1
<1>9. ASSUME c # NULL PROVE Kept(m, re, x)
  BY <1>2, <1>4, <1>7, <1>9, ReenterKept
<1> HIDE DEF re, s0
<1>10. ASSUME c # NULL, ~known PROVE Kept(m, s1, x)
  <2>1. MapsOK(m1) /\ Ledger(m1, x) /\ m1.CTX_COUNTER <= m.CTX_COUNTER /\ m1.CTX_COUNTER \in Nat
    BY <1>4, <1>8, <1>10, KeptFacts, MapsFields DEF Grows, MapsOK
  <2>2. py.code[f].kind \in {LC, LG} => m1.CTX_COUNTER < MaxCtx
    BY <1>3, <1>4, <1>10, <2>1, BoundsAssumption
  <2>3. Kept(m1, s1, x)
    BY <1>5, <1>10, <2>1, <2>2, StartRootKept
  <2> QED
    BY <1>4, <1>8, <1>10, <2>3, KeptTrans
<1> HIDE DEF s1
<1> QED
  BY <1>1, <1>6, <1>9, <1>10

(* The entry probe of a frame that is no worker frame keeps the books.      *)
LEMMA FrameEntryKept ==
  ASSUME NEW m, MapsOK(m), NEW x, Ledger(m, x), NEW py \in PyType, NEW tid \in Tids,
         NEW f \in Frames, py.code[f].kind \notin WorkKinds, EntryFits(m, py, f),
         x => Settled(m, py, f)
  PROVE  Kept(m, handle_frame_entry(m, py, tid, f), x)
<1> DEFINE impl == impl_frame_entry(m, py, tid, f)
           root == root_frame_entry(m, py, tid, f)
           kind == py.code[f].kind
<1>1. handle_frame_entry(m, py, tid, f) =
        IF kind = PLAIN THEN m ELSE IF kind = IMPL THEN impl ELSE root
  BY DEF handle_frame_entry, PLAIN, IMPL
<1>2. kind = IMPL => Kept(m, impl, x)
  BY ImplEntryKept DEF EntryFits
<1>3. Kept(m, root, x)
  BY RootFrameKept DEF EntryFits
<1>4. Kept(m, m, x)
  BY KeptSelf DEF MapsOK
<1> HIDE DEF impl, root
<1> QED
  BY <1>1, <1>2, <1>3, <1>4

(* The first entry of a coroutine function makes no context.                *)
LEMMA CoroutineNeutral ==
  ASSUME NEW m, MapsOK(m), NEW py \in PyType, NEW f \in Frames
  PROVE  Neutral(m, handle_coroutine_creation(m, py, f))
<1>1. m \in MapsType /\ Neutral(m, m)
  BY NeutralSelf DEF MapsOK
<1>2. ASSUME py.code[f].kind = LC PROVE Neutral(m, extract_and_resolve(m, py, f, NULL))
  <2>1. py.code[f].kind \notin WorkKinds
    BY <1>2 DEF LC, WorkKinds, WORKITEM_CTOR, WORKITEM_RUN, THREAD_CTOR, THREAD_RUN
  <2> QED
    BY <1>1, <2>1, ExtractNeutral DEF CtxOrNull
<1> QED
  BY <1>1, <1>2 DEF handle_coroutine_creation

(* The stash gives up its top, nothing else changes.                        *)
LEMMA PopKept ==
  ASSUME NEW m, MapsOK(m), NEW x, Ledger(m, x), NEW tid \in Tids
  PROVE  LET r == frame_stash_pop(m, tid)
         IN  /\ r \in MapsType
             /\ Kept(m, r, x)
             /\ Ledger(r, x)
             /\ r.FRAME_CTX = m.FRAME_CTX
<1> DEFINE r == frame_stash_pop(m, tid)
<1>1. m \in MapsType /\ Neutral(m, r)
  BY FrameStashNeutral DEF MapsOK
<1> HIDE DEF r
<1>2. Kept(m, r, x) /\ r.FRAME_CTX = m.FRAME_CTX
  BY <1>1, NeutralKept DEF Neutral, SameCarriers
<1>3. r \in MapsType /\ Ledger(r, x)
  BY <1>2, KeptFacts
<1> QED
  BY <1>2, <1>3 DEF r

(* The exit of a frame that is found by the stash alone.                    *)
LEMMA ExitLegacyKept ==
  ASSUME NEW m, MapsOK(m), NEW x, Ledger(m, x), NEW tid \in Tids
  PROVE  Kept(m, handle_frame_exit_legacy(m, tid), x)
<1> DEFINE f == Last(m.FRAME_ENTRY_STASH[tid])
           m1 == frame_stash_pop(m, tid)
           c == m.FRAME_CTX[f]
           i == find_frame_ctx(m1, tid, f, c)
           closed == close_at(m1, tid, i)
           ended == end_frame_ctx(m1, tid, f, c)
           unseen == ctx_is_live(m, c) /\ ~m.TOOL_CTX[c].seen
<1>1. handle_frame_exit_legacy(m, tid) =
        IF m.FRAME_ENTRY_STASH[tid] = <<>> THEN m
        ELSE IF c = NULL THEN m1
        ELSE IF unseen THEN m
        ELSE IF i # 0 THEN closed ELSE ended
  BY DEF handle_frame_exit_legacy
<1>2. m \in MapsType /\ Kept(m, m, x)
  BY KeptSelf DEF MapsOK
<1>3. CASE m.FRAME_ENTRY_STASH[tid] = <<>>
  BY <1>2, <1>3 DEF handle_frame_exit_legacy
<1>4. CASE m.FRAME_ENTRY_STASH[tid] # <<>>
  <2>1. f \in Frames
    BY <1>4, StashTop
  <2> HIDE DEF f
  <2>2. c \in CtxOrNull /\ c = m.FRAME_CTX[f]
    BY <2>1, FrameCtxType
  <2> HIDE DEF c
  <2>3. m1 \in MapsType /\ Kept(m, m1, x) /\ Ledger(m1, x) /\ m1.FRAME_CTX = m.FRAME_CTX
    BY PopKept
  <2> HIDE DEF m1
  <2>4. i \in 0..Len(m1.TOOL_STACK[tid])
    BY <2>3, FindFrameCtx
  <2> HIDE DEF i
  <2>5. i # 0 => Kept(m1, closed, x)
    BY <2>3, <2>4, CloseAtKept
  <2>6. c # NULL => Kept(m1, ended, x)
    BY <2>1, <2>2, <2>3, EndFrameKept DEF CtxOrNull
  <2> HIDE DEF closed, ended, unseen
  <2>7. (i # 0 => Kept(m, closed, x)) /\ (c # NULL => Kept(m, ended, x))
    BY <1>2, <2>3, <2>5, <2>6, KeptTrans
  <2> QED
    BY <1>1, <1>2, <2>3, <2>7
<1> QED
  BY <1>3, <1>4

(* The exit of a frame, normal or by an exception, keeps the books.         *)
LEMMA FrameExitKept ==
  ASSUME NEW m, MapsOK(m), NEW x, Ledger(m, x), NEW tid \in Tids, NEW parent \in ParentPtrs
  PROVE  Kept(m, handle_frame_exit(m, tid, parent), x)
<1> DEFINE f == Last(m.FRAME_ENTRY_STASH[tid])
           i == find_frame_parent(m, tid, f, parent)
           m1 == frame_stash_pop(m, tid)
           closed == close_at(m1, tid, i)
           legacy == handle_frame_exit_legacy(m, tid)
<1>1. handle_frame_exit(m, tid, parent) =
        IF m.FRAME_ENTRY_STASH[tid] # <<>> /\ i # 0 THEN closed ELSE legacy
  BY DEF handle_frame_exit
<1>2. m \in MapsType
  BY DEF MapsOK
<1>3. ASSUME m.FRAME_ENTRY_STASH[tid] # <<>>, i # 0 PROVE Kept(m, closed, x)
  <2>1. f \in Frames
    BY <1>3, StashTop
  <2> HIDE DEF f
  <2>2. i \in 0..Len(m.TOOL_STACK[tid])
    BY <1>2, <2>1, FindFrameParent
  <2> HIDE DEF i
  <2>3. m1 \in MapsType /\ Kept(m, m1, x) /\ Ledger(m1, x) /\ m1.TOOL_STACK = m.TOOL_STACK
    BY <1>2, PopKept, PopKeepsTools
  <2> HIDE DEF m1
  <2>4. Kept(m1, closed, x)
    BY <1>3, <2>2, <2>3, CloseAtKept
  <2> QED
    BY <1>2, <2>3, <2>4, KeptTrans
<1>4. Kept(m, legacy, x)
  BY ExitLegacyKept
<1> HIDE DEF closed, legacy, i
<1> QED
  BY <1>1, <1>3, <1>4

-----------------------------------------------------------------------------
(* task_probes.rs.                                                          *)

(* The active task of thread tid, whose top is the active context and that  *)
(* carries others below it, is not the only carrier of that context: what   *)
(* handle_task_init needs to hand the context over, because it removes it   *)
(* from the one task before it pushes it on the other.                      *)
Shares(m, tid) ==
  LET c == m.THREAD_ACTIVE_CTX[tid]
      parent == m.THREAD_ACTIVE_TASK[tid]
  IN  /\ ctx_is_live(m, c)
      /\ parent # NULL
      /\ m.TASK_CTX[parent] = c
      /\ Len(m.TASK_CTX_STACK[parent]) > 1
      => m.TOOL_CTX[c].carrier_count > 1

(* get_active_ctx gives a live context and changes nothing, or none.        *)
LEMMA ActiveIsLive ==
  ASSUME NEW m \in MapsType, NEW tid \in Tids, get_active_ctx(m, tid).THREAD_ACTIVE_CTX[tid] # NULL
  PROVE  get_active_ctx(m, tid) = m /\ ctx_is_live(m, m.THREAD_ACTIVE_CTX[tid])
<1>1. set_active(m, tid, NULL).THREAD_ACTIVE_CTX[tid] = NULL
  <2>1. m.THREAD_ACTIVE_CTX \in [Tids -> CtxOrNull]
    BY MapsFields
  <2>2. set_active(m, tid, NULL).THREAD_ACTIVE_CTX = [m.THREAD_ACTIVE_CTX EXCEPT ![tid] = NULL]
    BY Zenon DEF set_active, MapsType
  <2> QED
    BY <2>1, <2>2
<1> QED
  BY <1>1 DEF get_active_ctx

(* A context with more than one carrier outlives its removal from a task.   *)
LEMMA RemoveKeepsShared ==
  ASSUME NEW m \in MapsType, NEW tid \in Tids, NEW k \in Tasks, NEW c \in CtxIds,
         ctx_is_live(m, c), m.TOOL_CTX[c].carrier_count > 1
  PROVE  ctx_is_live(task_ctx_remove(m, tid, k, c), c)
<1> DEFINE s == m.TASK_CTX_STACK[k]
           rest == RemoveFirst(s, c)
           top == top_or_null(rest)
           r == [m EXCEPT !.TASK_CTX_STACK[k] = rest, !.TASK_CTX[k] = top,
                          !.THREAD_ACTIVE_CTX[tid] = top]
<1>1. task_ctx_remove(m, tid, k, c) = IF ~Contains(s, c) THEN m ELSE carrier_dec(r, c)
  BY DEF task_ctx_remove
<1>2. ASSUME Contains(s, c) PROVE rest \in Stack(CtxIds) /\ top \in CtxIds \cup {NULL}
  <2>1. s \in Stack(CtxIds)
    BY MapsFields
  <2>2. rest \in Stack(CtxIds)
    BY <1>2, <2>1, StackRemoveFirst
  <2> HIDE DEF rest
  <2> QED
    BY <2>2, TopType DEF CtxOrNull
<1> HIDE DEF s, rest, top
<1>3. r.TOOL_CTX = m.TOOL_CTX
  BY Zenon DEF MapsType
<1>4. ASSUME Contains(s, c) PROVE r \in MapsType
  <2>1. 0 \in Slots
    BY BoundsAssumption DEF Slots
  <2> QED
    BY <1>2, <1>4, <2>1, TaskStackSet, Zenon DEF OneTask, SameBooks
<1> HIDE DEF r
<1>5. ctx_is_live(r, c) /\ r.TOOL_CTX[c].carrier_count > 1
  BY <1>3 DEF ctx_is_live
<1>6. ASSUME Contains(s, c) PROVE ctx_is_live(carrier_dec(r, c), c)
  BY <1>4, <1>5, <1>6, DecFields, Zenon
<1> QED
  BY <1>1, <1>6

(* handle_task_init keeps the books.                                        *)
LEMMA TaskInitKept ==
  ASSUME NEW m, MapsOK(m), NEW x, Ledger(m, x), NEW tid \in Tids, NEW task \in Tasks,
         Shares(m, tid)
  PROVE  Kept(m, handle_task_init(m, tid, task), x)
<1> DEFINE act == get_active_ctx(m, tid)
           c == act.THREAD_ACTIVE_CTX[tid]
           parent == act.THREAD_ACTIVE_TASK[tid]
           hands_over == /\ parent # NULL
                         /\ parent # task
                         /\ act.TASK_CTX[parent] = c
                         /\ Len(act.TASK_CTX_STACK[parent]) > 1
           removed == task_ctx_remove(act, tid, parent, c)
           m1 == IF hands_over THEN removed ELSE act
           m2 == task_ctx_push(m1, tid, task, c)
<1>1. handle_task_init(m, tid, task) = IF c = NULL THEN act ELSE m2
  BY DEF handle_task_init
<1>2. m \in MapsType /\ c \in CtxOrNull /\ parent \in Tasks \cup {NULL} /\ Kept(m, act, x)
  BY GetActiveOK, ActiveTask, GetActiveNeutral, NeutralKept DEF MapsOK
<1>3. c # NULL => act = m /\ ctx_is_live(m, c) /\ c \in CtxIds
  BY <1>2, ActiveIsLive DEF CtxOrNull
<1>4. c # NULL /\ hands_over => m.TOOL_CTX[c].carrier_count > 1
  BY <1>3 DEF Shares
<1> HIDE DEF act, c, parent
<1>5. hands_over => parent # NULL
  OBVIOUS
<1> HIDE DEF hands_over
<1>6. ASSUME c # NULL PROVE Kept(m, m1, x) /\ ctx_is_live(m1, c)
  <2>1. CASE hands_over
    <3>1. parent \in Tasks /\ act = m /\ c \in CtxIds
      BY <1>2, <1>3, <1>5, <1>6, <2>1
    <3>2. Kept(m, removed, x)
      BY <1>2, <3>1, TaskRemoveKept
    <3>3. ctx_is_live(removed, c)
      BY <1>2, <1>3, <1>4, <1>6, <2>1, <3>1, RemoveKeepsShared
    <3> QED
      BY <2>1, <3>2, <3>3
  <2>2. CASE ~hands_over
    BY <1>2, <1>3, <1>6, <2>2
  <2> QED
    BY <2>1, <2>2
<1> HIDE DEF m1
<1>7. ASSUME c # NULL PROVE Kept(m, m2, x)
  <2>1. m1 \in MapsType /\ Ledger(m1, x) /\ c \in CtxIds
    BY <1>3, <1>6, <1>7, KeptFacts
  <2>2. Kept(m1, m2, x)
    BY <1>6, <1>7, <2>1, TaskPushKept
  <2> QED
    BY <1>2, <1>6, <1>7, <2>2, KeptTrans
<1> HIDE DEF m2
<1> QED
  BY <1>1, <1>2, <1>7

(* Making a context active after a change that keeps the books.             *)
LEMMA KeptThenActive ==
  ASSUME NEW m \in MapsType, NEW x, NEW r, Kept(m, r, x), NEW tid \in Tids, NEW c \in CtxOrNull
  PROVE  Kept(m, set_active(r, tid, c), x)
<1>1. r \in MapsType
  BY KeptFacts
<1>2. Neutral(r, set_active(r, tid, c))
  BY <1>1, SetActiveNeutral
<1> QED
  BY <1>2, KeptThenNeutral

(* The entry of a step of a task keeps the books.                           *)
LEMMA StepEntryKept ==
  ASSUME NEW m, MapsOK(m), NEW x, Ledger(m, x), NEW tid \in Tids, NEW task \in Tasks
  PROVE  Kept(m, handle_task_step_entry(m, tid, task), x)
<1> DEFINE act == get_active_ctx(m, tid)
           a == act.THREAD_ACTIVE_CTX[tid]
           k == act.THREAD_ACTIVE_TASK[tid]
           s == [ctx |-> a, task |-> k]
           m1 == [act EXCEPT !.TASK_STEP_STASH[tid] = s, !.THREAD_ACTIVE_TASK[tid] = task]
           top == ctx_stack_top(m1, tid)
           cleared == task_ctx_clear(m1, tid, task)
           restored == restore_deferred_tool_close(m1, tid, task)
           e == deferred_entry(m1, task).ctx_id
           ok == restore_deferred_ok(m1, task)
           d == m1.TASK_CTX[task]
           x1 == IF ctx_stack_contains(m1, tid, d) \/ top = NULL THEN d ELSE top
           x2 == IF ok THEN e ELSE NULL
           r1 == set_active(cleared, tid, NULL)
           r2 == set_active(m1, tid, x1)
           r3 == set_active(restored, tid, x2)
<1>1. handle_task_step_entry(m, tid, task) =
        IF d # NULL THEN IF ~ctx_is_live(m1, d) THEN r1 ELSE r2 ELSE r3
  BY DEF handle_task_step_entry, activate_task
<1>2. m \in MapsType /\ act \in MapsType /\ a \in CtxOrNull /\ Neutral(m, act)
  BY GetActiveOK, GetActiveNeutral DEF MapsOK
<1>3. k \in Tasks \cup {NULL}
  BY <1>2, MapsFields
<1> HIDE DEF act, a, k
<1>4. s \in StepStash
  BY <1>2, <1>3 DEF StepStash, CtxOrNull
<1> HIDE DEF s
<1>5. Neutral(act, m1)
  <2>1. task \in Tasks \cup {NULL} /\ s \in StepStash \cup {NULL}
    BY <1>4
  <2> QED
    BY <1>2, <2>1, StepNeutral, Zenon
<1> HIDE DEF m1
<1>6. Kept(m, m1, x) /\ m1 \in MapsType /\ Ledger(m1, x)
  BY <1>2, <1>5, NeutralTrans, NeutralKept, KeptFacts
<1>7. top \in CtxOrNull /\ d \in CtxOrNull
  BY <1>6, CtxStackTop, MapsFields
<1>8. Kept(m1, cleared, x) /\ Kept(m1, restored, x)
  BY <1>6, ClearKept, RestoreKept
<1>9. ok => e \in CtxOrNull
  <2>1. ok => pending_slots(m1, task) # {}
    BY DEF restore_deferred_ok
  <2>2. pending_slots(m1, task) # {} => deferred_entry(m1, task) \in ToolStackEntry
    BY <1>6, DeferredEntry
  <2> QED
    BY <2>1, <2>2 DEF ToolStackEntry, CtxOrNull
<1> HIDE DEF top, cleared, restored, e, ok, d
<1>10. Kept(m, cleared, x) /\ Kept(m, restored, x)
  BY <1>2, <1>6, <1>8, KeptTrans
<1>11. NULL \in CtxOrNull /\ x1 \in CtxOrNull /\ x2 \in CtxOrNull
  BY <1>7, <1>9 DEF CtxOrNull
<1> HIDE DEF x1, x2
<1>12. Kept(m, r1, x) /\ Kept(m, r2, x) /\ Kept(m, r3, x)
  BY <1>2, <1>6, <1>10, <1>11, KeptThenActive
<1> HIDE DEF r1, r2, r3
<1> QED
  BY <1>1, <1>12

(* The return of a step, of a task done or not, keeps the books.            *)
LEMMA StepReturnKept ==
  ASSUME NEW m, MapsOK(m), NEW x, Ledger(m, x), NEW tid \in Tids, NEW done \in SUBSET Tasks
  PROVE  Kept(m, handle_task_step_return(m, tid, done), x)
<1> DEFINE task == m.THREAD_ACTIVE_TASK[tid]
           m1 == IF task \in done THEN task_ctx_clear(m, tid, task) ELSE m
           stash == m1.TASK_STEP_STASH[tid]
           prev_ctx == IF stash = NULL THEN NULL ELSE stash.ctx
           prev_task == IF stash = NULL THEN NULL ELSE stash.task
           top == ctx_stack_top(m1, tid)
           restore == IF prev_ctx # NULL /\ ctx_stack_contains(m1, tid, prev_ctx)
                      THEN prev_ctx ELSE top
           r == [m1 EXCEPT !.THREAD_ACTIVE_CTX[tid] = restore,
                           !.THREAD_ACTIVE_TASK[tid] = prev_task,
                           !.TASK_STEP_STASH[tid] = NULL]
<1>1. handle_task_step_return(m, tid, done) = IF task = NULL THEN m ELSE r
  BY DEF handle_task_step_return, restore_step
<1>2. m \in MapsType /\ Kept(m, m, x)
  BY KeptSelf DEF MapsOK
<1>3. Kept(m, m1, x)
  BY <1>2, ClearKept
<1> HIDE DEF m1
<1>4. m1 \in MapsType
  BY <1>3, KeptFacts
<1>5. stash \in StepStash \cup {NULL}
  BY <1>4, MapsFields
<1>6. prev_ctx \in CtxIds \cup {NULL} /\ prev_task \in Tasks \cup {NULL}
  BY <1>5 DEF StepStash
<1> HIDE DEF stash, prev_ctx, prev_task
<1>7. top \in CtxOrNull
  BY <1>4, CtxStackTop
<1> HIDE DEF top
<1>8. restore \in CtxIds \cup {NULL}
  BY <1>6, <1>7 DEF CtxOrNull
<1> HIDE DEF restore
<1>9. Neutral(m1, r)
  <2>1. NULL \in StepStash \cup {NULL}
    OBVIOUS
  <2> QED
    BY <1>4, <1>6, <1>8, <2>1, StepNeutral, Zenon
<1> HIDE DEF r
<1>10. Kept(m, r, x)
  BY <1>2, <1>3, <1>9, KeptThenNeutral
<1> QED
  BY <1>1, <1>2, <1>10
=============================================================================
