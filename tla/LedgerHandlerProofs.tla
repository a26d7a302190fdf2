------------------------ MODULE LedgerHandlerProofs -------------------------
(***************************************************************************)
(* The handlers of worker_probes.rs, lifecycle.rs and fork_probes.rs, and  *)
(* with them every probe handler, keep the books of LedgerProofs.          *)
(***************************************************************************)
EXTENDS FrameLedgerProofs

-----------------------------------------------------------------------------
(* worker_probes.rs.                                                        *)

(* From m to r only the context of work object w may change, to v.          *)
OneWork(m, r, kind, w, v) ==
  /\ SameBooks(m, r)
  /\ r.WORK_CTX = [m.WORK_CTX EXCEPT ![kind][w] = v]
  /\ r.TASK_CTX_STACK = m.TASK_CTX_STACK
  /\ r.FORK_CTX = m.FORK_CTX
  /\ r.THREADPOOL_WORKER_CTX = m.THREADPOOL_WORKER_CTX

(* The records the worker probes make of m.                                 *)
LEMMA WorkSet ==
  ASSUME NEW m \in MapsType, NEW kind \in RunKinds, NEW w \in Works, NEW v \in CtxIds \cup {NULL},
         NEW tid \in Tids, NEW p \in PendingWorkerSpawn \cup {NULL}
  PROVE  /\ OneWork(m, [m EXCEPT !.WORK_CTX[kind][w] = v], kind, w, v)
         /\ OneWork(m, [m EXCEPT !.WORK_CTX[kind][w] = v, !.PENDING_WORKER_SPAWN[tid] = p], kind, w, v)
         /\ OneWork(m, [m EXCEPT !.WORKER_RUN_CARRIER[w] = NULL, !.WORK_CTX[kind][w] = v], kind, w, v)
<1> DEFINE r == [m EXCEPT !.WORK_CTX[kind][w] = v]
           s == [m EXCEPT !.WORK_CTX[kind][w] = v, !.PENDING_WORKER_SPAWN[tid] = p]
           t == [m EXCEPT !.WORKER_RUN_CARRIER[w] = NULL, !.WORK_CTX[kind][w] = v]
           Set(u) == /\ u \in MapsType
                     /\ u.CTX_COUNTER = m.CTX_COUNTER
                     /\ u.FRAME_CTX = m.FRAME_CTX
                     /\ u.events = m.events
                     /\ u.TOOL_CTX = m.TOOL_CTX
                     /\ u.WORK_CTX = [m.WORK_CTX EXCEPT ![kind][w] = v]
                     /\ u.TASK_CTX_STACK = m.TASK_CTX_STACK
                     /\ u.FORK_CTX = m.FORK_CTX
                     /\ u.THREADPOOL_WORKER_CTX = m.THREADPOOL_WORKER_CTX
<1>1. Set(r)
  BY Zenon DEF MapsType
<1>2. Set(s)
  BY Zenon DEF MapsType
<1>3. Set(t)
  BY Zenon DEF MapsType
<1>4. \A u : Set(u) => OneWork(m, u, kind, w, v)
  BY DEF OneWork, SameBooks, SameCounts, ctx_is_live
<1> HIDE DEF r, s, t, Set
<1>5. OneWork(m, r, kind, w, v) /\ OneWork(m, s, kind, w, v) /\ OneWork(m, t, kind, w, v)
  BY <1>1, <1>2, <1>3, <1>4
<1> QED
  BY <1>5 DEF r, s, t

(* A work object takes up or gives up the context it carries.               *)
LEMMA WorkCarries ==
  ASSUME NEW m \in MapsType, NEW x, Ledger(m, x), NEW r, NEW kind \in RunKinds, NEW w \in Works,
         NEW v, OneWork(m, r, kind, w, v)
  PROVE  /\ m.WORK_CTX[kind][w] = NULL /\ v \in CtxIds /\ ctx_is_live(m, v) =>
              Kept(m, carrier_inc(r, v), x)
         /\ m.WORK_CTX[kind][w] \in CtxIds /\ v = NULL =>
              Kept(m, carrier_dec(r, m.WORK_CTX[kind][w]), x)
<1>1. r.FORK_CTX = m.FORK_CTX /\ Forkless(m, r)
  BY DEF OneWork, Forkless
<1>2. /\ m.WORK_CTX[kind][w] = NULL /\ v \in CtxIds => Added(m, r, v)
      /\ m.WORK_CTX[kind][w] \in CtxIds /\ v = NULL => Removed(m, r, m.WORK_CTX[kind][w])
  BY WorkPlace DEF OneWork
<1>3. m.WORK_CTX[kind][w] = NULL /\ v \in CtxIds /\ ctx_is_live(m, v) => Kept(m, carrier_inc(r, v), x)
  BY <1>1, <1>2, KeptInc
<1>4. m.WORK_CTX[kind][w] \in CtxIds /\ v = NULL => Kept(m, carrier_dec(r, m.WORK_CTX[kind][w]), x)
  BY <1>1, <1>2, KeptDec
<1> QED
  BY <1>3, <1>4

(* carry_active keeps the books when the active context is live.            *)
LEMMA CarryActiveKept ==
  ASSUME NEW m \in MapsType, NEW x, Ledger(m, x), NEW tid \in Tids, NEW kind \in RunKinds,
         NEW w \in Works,
         m.THREAD_ACTIVE_CTX[tid] # NULL => ctx_is_live(m, m.THREAD_ACTIVE_CTX[tid])
  PROVE  Kept(m, carry_active(m, tid, kind, w), x)
<1> DEFINE c == m.THREAD_ACTIVE_CTX[tid]
           r == [m EXCEPT !.WORK_CTX[kind][w] = c]
           skip == \/ c = NULL
                   \/ m.THREAD_CTX_STACK[tid] = <<>> /\ m.WORKER_RUN_STACK[tid] = <<>>
                   \/ m.WORK_CTX[kind][w] # NULL
<1>1. carry_active(m, tid, kind, w) = IF skip THEN m ELSE carrier_inc(r, c)
  BY DEF carry_active
<1>2. c \in CtxIds \cup {NULL}
  BY MapsFields DEF CtxOrNull
<1>3. c # NULL => ctx_is_live(m, c)
  OBVIOUS
<1>4. ~skip => c # NULL /\ m.WORK_CTX[kind][w] = NULL
  OBVIOUS
<1> HIDE DEF c, skip
<1>5. OneWork(m, r, kind, w, c)
  <2>1. NULL \in PendingWorkerSpawn \cup {NULL}
    OBVIOUS
  <2> QED
    BY <1>2, <2>1, WorkSet, Zenon
<1> HIDE DEF r
<1>6. ~skip => Kept(m, carrier_inc(r, c), x)
  BY <1>2, <1>3, <1>4, <1>5, WorkCarries
<1> QED
  BY <1>1, <1>6, KeptSelf

(* What carrier_dec does to TOOL_CTX and to the events depends on them only. *)
LEMMA DecSame ==
  ASSUME NEW m \in MapsType, NEW r \in MapsType, NEW c \in CtxIds, r.TOOL_CTX = m.TOOL_CTX,
         r.events = m.events
  PROVE  /\ carrier_dec(r, c).TOOL_CTX = carrier_dec(m, c).TOOL_CTX
         /\ carrier_dec(r, c).events = carrier_dec(m, c).events
<1> DEFINE v == [m.TOOL_CTX[c] EXCEPT !.carrier_count = @ - 1]
           e == [m.events[c] EXCEPT !.context_end = @ + 1]
           A(u) == [u EXCEPT !.TOOL_CTX[c] = v]
           Z(u) == [u EXCEPT !.TOOL_CTX[c] = NULL, !.events[c] = e]
<1>1. \A u \in {m, r} : carrier_dec(u, c) = IF ~ctx_is_live(m, c) THEN u
                                           ELSE IF m.TOOL_CTX[c].carrier_count > 1 THEN A(u) ELSE Z(u)
  BY Zenon DEF carrier_dec, ctx_is_live
<1> HIDE DEF v, e
<1>2. \A u \in {m, r} : /\ A(u).TOOL_CTX = [m.TOOL_CTX EXCEPT ![c] = v] /\ A(u).events = m.events
                        /\ Z(u).TOOL_CTX = [m.TOOL_CTX EXCEPT ![c] = NULL]
                        /\ Z(u).events = [m.events EXCEPT ![c] = e]
  BY Zenon DEF MapsType
<1> HIDE DEF A, Z
<1> QED
  BY <1>1, <1>2

(* carry_deferred: the object gives up what it carried before it takes up   *)
(* the context whose close is parked.                                       *)
LEMMA CarryDeferredKept ==
  ASSUME NEW m \in MapsType, NEW x, Ledger(m, x), NEW tid \in Tids, NEW task \in Tasks,
         NEW w \in Works, NEW c \in CtxIds, ctx_is_live(m, c)
  PROVE  Kept(m, carry_deferred(m, tid, task, w, c), x)
<1> DEFINE kind == "WORKITEM"
           old == m.WORK_CTX[kind][w]
           b1 == carrier_dec(m, old)
           p == [ctx_id |-> c, work_item |-> w]
           b2 == [b1 EXCEPT !.WORK_CTX[kind][w] = c, !.PENDING_WORKER_SPAWN[tid] = p]
           b3 == carrier_inc(b2, c)
           b == IF old = c THEN m ELSE b3
           r1 == [m EXCEPT !.WORK_CTX[kind][w] = NULL]
           s == carrier_dec(r1, old)
<1>1. carry_deferred(m, tid, task, w, c) = finish_deferred_tool_close(b, tid, task, c)
  BY DEF carry_deferred
<1>2. kind \in RunKinds
  BY DEF RunKinds
<1> HIDE DEF kind
<1>3. old \in CtxOrNull /\ old = m.WORK_CTX[kind][w]
  BY <1>2, MapsFields
<1>4. OneWork(m, r1, kind, w, NULL)
  <2>1. NULL \in PendingWorkerSpawn \cup {NULL} /\ NULL \in CtxIds \cup {NULL}
    OBVIOUS
  <2> QED
    BY <1>2, <2>1, WorkSet, Zenon
<1>5. r1.TOOL_CTX = m.TOOL_CTX /\ r1.events = m.events
  BY Zenon DEF MapsType
<1> HIDE DEF r1, old
<1>6. p \in PendingWorkerSpawn \cup {NULL}
  BY DEF PendingWorkerSpawn
<1> HIDE DEF p
<1>7. Steady(m, b1) /\ b1 \in MapsType
  BY <1>3, CarrierDec DEF Steady
<1> HIDE DEF b1
<1>8. OneWork(b1, b2, kind, w, c) /\ b2.TOOL_CTX = b1.TOOL_CTX
  <2>1. c \in CtxIds \cup {NULL}
    OBVIOUS
  <2>2. OneWork(b1, b2, kind, w, c)
    BY <1>2, <1>6, <1>7, <2>1, WorkSet, Zenon
  <2>3. b2.TOOL_CTX = b1.TOOL_CTX
    BY <1>7, Zenon DEF MapsType
  <2> QED
    BY <2>2, <2>3
<1> HIDE DEF b2
<1>9. ASSUME old = NULL PROVE Kept(m, b3, x)
  <2>1. b1 = m
    BY <1>9 DEF b1, carrier_dec, ctx_is_live
  <2> QED
    BY <1>2, <1>3, <1>8, <1>9, <2>1, WorkCarries, Zenon
<1>10. ASSUME old # NULL, old # c PROVE Kept(m, b3, x)
  <2>1. old \in CtxIds
    BY <1>3, <1>10 DEF CtxOrNull
  <2>2. Kept(m, s, x)
    BY <1>2, <1>3, <1>4, <2>1, WorkCarries
  <2>3. Removed(m, r1, old) /\ r1 \in MapsType
    BY <1>2, <1>3, <1>4, <2>1, WorkPlace DEF OneWork, SameBooks
  <2>4. ctx_is_live(m, old) /\ ctx_is_live(r1, old)
    BY <1>5, <2>1, <2>3, CarriedIsLive DEF Removed, ctx_is_live
  <2>5. SameCarriers(m, b1) /\ SameCarriers(r1, s)
    BY <2>1, <2>3, <2>4, DecFields, Zenon DEF b1
  <2>6. s.TOOL_CTX = b1.TOOL_CTX /\ s.events = b1.events
    BY <1>5, <2>1, <2>3, DecSame DEF b1
  <2>7. ctx_is_live(s, c)
    <3>1. s.TOOL_CTX[c] = r1.TOOL_CTX[c]
      BY <1>10, <2>1, <2>3, <2>4, DecFields, Zenon
    <3> QED
      BY <1>5, <3>1 DEF ctx_is_live
  <2> HIDE DEF s
  <2>8. s \in MapsType /\ Ledger(s, x)
    BY <2>2, KeptFacts
  <2>9. OneWork(s, b2, kind, w, c)
    <3>1. s.WORK_CTX = [m.WORK_CTX EXCEPT ![kind][w] = NULL] /\ b1.WORK_CTX = m.WORK_CTX
      BY <1>4, <2>5 DEF OneWork, SameCarriers
    <3>2. m.WORK_CTX \in [RunKinds -> [Works -> CtxOrNull]]
      BY MapsFields
    <3>3. [m.WORK_CTX EXCEPT ![kind][w] = c] = [s.WORK_CTX EXCEPT ![kind][w] = c]
      BY <1>2, <3>1, <3>2
    <3>4. b2.WORK_CTX = [s.WORK_CTX EXCEPT ![kind][w] = c]
      BY <1>8, <3>1, <3>3 DEF OneWork
    <3>5. SameBooks(s, b2)
      BY <1>4, <1>8, <2>5, <2>6 DEF OneWork, SameBooks, SameCounts, SameCarriers, ctx_is_live
    <3> QED
      BY <1>4, <1>8, <2>5, <3>4, <3>5 DEF OneWork, SameCarriers
  <2>10. s.WORK_CTX[kind][w] = NULL
    <3>1. s.WORK_CTX = [m.WORK_CTX EXCEPT ![kind][w] = NULL]
      BY <1>4, <2>5 DEF OneWork, SameCarriers
    <3>2. m.WORK_CTX \in [RunKinds -> [Works -> CtxOrNull]]
      BY MapsFields
    <3> QED
      BY <1>2, <3>1, <3>2
  <2>11. Kept(s, b3, x)
    BY <1>2, <2>7, <2>8, <2>9, <2>10, WorkCarries
  <2> QED
    BY <2>2, <2>11, KeptTrans
<1> HIDE DEF b3
<1>11. Kept(m, b, x)
  BY <1>9, <1>10, KeptSelf
<1> HIDE DEF b
<1>12. b \in MapsType /\ Ledger(b, x)
  BY <1>11, KeptFacts
<1>13. Kept(b, finish_deferred_tool_close(b, tid, task, c), x)
  BY <1>12, FinishDeferredKept
<1> QED
  BY <1>1, <1>11, <1>13, KeptTrans

(* deferred_tool_ctx_for_worker only gives a live context.                  *)
LEMMA DeferredIsLive ==
  ASSUME NEW m \in MapsType, NEW k \in Tasks, deferred_tool_ctx_for_worker(m, k) # NULL
  PROVE  ctx_is_live(m, deferred_tool_ctx_for_worker(m, k))
<1> DEFINE live == {i \in pending_slots(m, k) : ctx_is_live(m, m.PENDING_TOOL_CLOSE[k][i].ctx_id)}
           j == Max(live)
<1>1. live # {}
  BY DEF deferred_tool_ctx_for_worker
<1>2. live \subseteq Slots
  BY DEF pending_slots
<1>3. j \in live
  <2> HIDE DEF live
  <2> QED
    BY <1>1, <1>2, MaxSlot, Zenon
<1>4. deferred_tool_ctx_for_worker(m, k) = m.PENDING_TOOL_CLOSE[k][j].ctx_id
  BY <1>1 DEF deferred_tool_ctx_for_worker
<1> HIDE DEF j
<1> QED
  BY <1>3, <1>4

(* The constructor of a work item or Thread keeps the books.                *)
LEMMA CtorKept ==
  ASSUME NEW m \in MapsType, NEW x, Ledger(m, x), NEW tid \in Tids, NEW kind \in RunKinds,
         NEW w \in Works
  PROVE  Kept(m, handle_ctor_entry(m, tid, kind, w), x)
<1> DEFINE task == m.THREAD_ACTIVE_TASK[tid]
           takes == kind = "WORKITEM" /\ task # NULL
           deferred == IF takes THEN deferred_tool_ctx_for_worker(m, task) ELSE NULL
           act == get_active_ctx(m, tid)
           r1 == carry_active(act, tid, kind, w)
           r2 == carry_deferred(m, tid, task, w, deferred)
<1>1. handle_ctor_entry(m, tid, kind, w) = IF deferred = NULL THEN r1 ELSE r2
  BY DEF handle_ctor_entry
<1>2. task \in Tasks \cup {NULL}
  BY MapsFields
<1>3. deferred # NULL => task \in Tasks
  BY <1>2
<1>4. deferred # NULL => deferred \in CtxIds /\ ctx_is_live(m, deferred)
  <2>1. CASE takes
    BY <1>2, <2>1, DeferredForWorker, DeferredIsLive DEF CtxOrNull
  <2>2. CASE ~takes
    BY <2>2
  <2> QED
    BY <2>1, <2>2
<1> HIDE DEF task, deferred, takes
<1>5. Neutral(m, act) /\ act.THREAD_ACTIVE_CTX[tid] \in CtxOrNull
  BY GetActiveNeutral, GetActive
<1>6. act.THREAD_ACTIVE_CTX[tid] # NULL => ctx_is_live(act, act.THREAD_ACTIVE_CTX[tid])
  BY ActiveIsLive
<1> HIDE DEF act
<1>7. Kept(m, act, x) /\ act \in MapsType /\ Ledger(act, x)
  BY <1>5, NeutralKept, KeptFacts
<1>8. Kept(act, r1, x)
  BY <1>6, <1>7, CarryActiveKept
<1>9. deferred # NULL => Kept(m, r2, x)
  BY <1>3, <1>4, CarryDeferredKept
<1> HIDE DEF r1, r2
<1> QED
  BY <1>1, <1>7, <1>8, <1>9, KeptTrans

(* A thread gives up the context it inherited.                              *)
LEMMA ForkReleased ==
  ASSUME NEW m \in MapsType, NEW x, Ledger(m, x), NEW tid \in Tids, m.FORK_CTX[tid] \in CtxIds
  PROVE  /\ Kept(m, carrier_dec([m EXCEPT !.FORK_CTX[tid] = NULL], m.FORK_CTX[tid]), x)
         /\ carrier_dec([m EXCEPT !.FORK_CTX[tid] = NULL], m.FORK_CTX[tid]).FORK_CTX[tid] = NULL
<1> DEFINE c == m.FORK_CTX[tid]
           r == [m EXCEPT !.FORK_CTX[tid] = NULL]
<1>1. /\ r \in MapsType
      /\ r.CTX_COUNTER = m.CTX_COUNTER
      /\ r.FRAME_CTX = m.FRAME_CTX
      /\ r.events = m.events
      /\ r.TOOL_CTX = m.TOOL_CTX
      /\ r.TASK_CTX_STACK = m.TASK_CTX_STACK
      /\ r.WORK_CTX = m.WORK_CTX
      /\ r.FORK_CTX = [m.FORK_CTX EXCEPT ![tid] = NULL]
      /\ r.THREADPOOL_WORKER_CTX = m.THREADPOOL_WORKER_CTX
  BY Zenon DEF MapsType
<1>2. m.FORK_CTX \in [Tids -> CtxOrNull]
  BY MapsFields
<1> HIDE DEF r
<1>3. SameBooks(m, r)
  BY <1>1 DEF SameBooks, SameCounts, ctx_is_live
<1>4. Removed(m, r, c)
  BY <1>1, <1>3, ForkPlace
<1>5. Forkless(m, r)
  BY <1>1, <1>2 DEF Forkless
<1>6. Kept(m, carrier_dec(r, c), x)
  BY <1>4, <1>5, KeptDec
<1>7. carrier_dec(r, c).FORK_CTX[tid] = NULL
  BY <1>1, <1>2, <1>4, DecRemoved
<1> QED
  BY <1>6, <1>7 DEF r

(* The start of a run keeps the books: a context the thread inherited is    *)
(* now carried by the work object alone.                                    *)
LEMMA RunEntryKept ==
  ASSUME NEW m \in MapsType, NEW x, Ledger(m, x), NEW py \in PyType, NEW tid \in Tids,
         NEW kind \in RunKinds, NEW f \in Frames, py.code[f].self \in Works
  PROVE  Kept(m, handle_run_entry(m, py, tid, kind, f), x)
<1> DEFINE w == py.code[f].self
           c == m.WORK_CTX[kind][w]
           act == get_active_ctx(m, tid)
           inherited == act.FORK_CTX[tid] = c
           a2 == carrier_dec([act EXCEPT !.FORK_CTX[tid] = NULL], c)
           m1 == IF inherited THEN a2 ELSE act
           prev == IF inherited THEN NULL ELSE act.THREAD_ACTIVE_CTX[tid]
           run == [kind |-> kind, frame_ptr |-> f, parent_ptr |-> py.prev[f], self_obj |-> w,
                   prev_ctx |-> prev]
           runs == m1.WORKER_RUN_STACK[tid]
           again == /\ runs # <<>>
                    /\ Last(runs).kind = kind
                    /\ Last(runs).frame_ptr = f
                    /\ Last(runs).self_obj = w
           s == IF Len(runs) >= MaxRuns THEN runs ELSE Append(runs, run)
           r1 == set_active(m1, tid, c)
           r2 == [m1 EXCEPT !.WORKER_RUN_STACK[tid] = s, !.THREAD_ACTIVE_CTX[tid] = c,
                            !.WORKER_RUN_CARRIER[w] = tid]
<1>1. ASSUME m1 \in MapsType
      PROVE  handle_run_entry(m, py, tid, kind, f) = IF c = NULL THEN m ELSE IF again THEN r1 ELSE r2
  <2>1. m1.WORKER_RUN_STACK \in [Tids -> {q \in Seq(WorkerRunEntry) : Len(q) <= MaxRuns}]
    BY <1>1, MapsFields, Zenon
  <2> QED
    BY <2>1 DEF handle_run_entry
<1>2. w \in Works /\ c \in CtxOrNull /\ py.prev[f] \in ParentPtrs
  BY MapsFields, PyFields
<1>3. Neutral(m, act) /\ act.THREAD_ACTIVE_CTX[tid] \in CtxOrNull
  BY GetActive, GetActiveNeutral
<1> HIDE DEF w, c, act
<1>4. act \in MapsType /\ Ledger(act, x) /\ Kept(m, act, x)
  BY <1>3, NeutralKept, KeptFacts
<1>5. c # NULL /\ inherited => Kept(act, a2, x)
  BY <1>2, <1>4, ForkReleased DEF CtxOrNull
<1> HIDE DEF a2
<1>6. prev \in CtxIds \cup {NULL}
  BY <1>3 DEF CtxOrNull
<1>7. c # NULL => Kept(m, m1, x)
  BY <1>4, <1>5, KeptTrans
<1> HIDE DEF m1, prev, inherited
<1>8. CASE c = NULL
  BY <1>8, KeptSelf DEF handle_run_entry, c, w
<1>9. CASE c # NULL
  <2>1. m1 \in MapsType
    BY <1>7, <1>9, KeptFacts
  <2>2. run \in WorkerRunEntry
    BY <1>2, <1>6 DEF WorkerRunEntry
  <2> HIDE DEF run
  <2>3. runs \in Seq(WorkerRunEntry) /\ Len(runs) <= MaxRuns
    BY <2>1, MapsFields
  <2> HIDE DEF runs
  <2>4. s \in Seq(WorkerRunEntry) /\ Len(s) <= MaxRuns
    BY <2>2, <2>3, BoundsAssumption
  <2> HIDE DEF s
  <2>5. Neutral(m1, r2)
    <3>1. c \in CtxIds \cup {NULL} /\ tid \in Tids \cup {NULL}
      BY <1>2 DEF CtxOrNull
    <3> QED
      BY <1>2, <2>1, <2>4, <3>1, RunNeutral, Zenon
  <2>6. Neutral(m1, r1)
    BY <1>2, <2>1, SetActiveNeutral
  <2> HIDE DEF again, r1, r2
  <2>7. Kept(m, r1, x) /\ Kept(m, r2, x)
    BY <1>7, <1>9, <2>5, <2>6, KeptThenNeutral
  <2> QED
    BY <1>1, <1>9, <2>1, <2>7
<1> QED
  BY <1>8, <1>9

(* The entry of any worker frame keeps the books.                           *)
LEMMA WorkerFrameKept ==
  ASSUME NEW m \in MapsType, NEW x, Ledger(m, x), NEW py \in PyType, NEW tid \in Tids,
         NEW f \in Frames, NEW tgid
  PROVE  Kept(m, handle_worker_frame(m, py, tid, f, tgid), x)
<1> DEFINE kind == py.code[f].kind
           w == py.code[f].self
           r1 == handle_ctor_entry(m, tid, "WORKITEM", w)
           r2 == handle_ctor_entry(m, tid, "THREAD", w)
           r3 == handle_run_entry(m, py, tid, "WORKITEM", f)
           r4 == handle_run_entry(m, py, tid, "THREAD", f)
<1>1. handle_worker_frame(m, py, tid, f, tgid) =
        IF tgid \notin m.PROTECTED_TGIDS THEN m
        ELSE IF kind = WORKITEM_CTOR THEN r1
        ELSE IF kind = THREAD_CTOR THEN r2
        ELSE IF kind = WORKITEM_RUN THEN r3
        ELSE IF kind = THREAD_RUN THEN r4
        ELSE m
  BY DEF handle_worker_frame, WORKITEM_CTOR, WORKITEM_RUN, THREAD_CTOR, THREAD_RUN
<1>2. kind \in WorkKinds => w \in Works
  BY PyFields
<1>3. "WORKITEM" \in RunKinds /\ "THREAD" \in RunKinds
  BY DEF RunKinds
<1>4. w \in Works => Kept(m, r1, x) /\ Kept(m, r2, x) /\ Kept(m, r3, x) /\ Kept(m, r4, x)
  BY <1>3, CtorKept, RunEntryKept
<1>5. Kept(m, m, x)
  BY KeptSelf
<1> HIDE DEF r1, r2, r3, r4, w
<1> QED
  BY <1>1, <1>2, <1>4, <1>5 DEF WorkKinds

(* The end of a worker run keeps the books: the work object gives up its    *)
(* context.                                                                 *)
LEMMA DispatchKept ==
  ASSUME NEW m \in MapsType, NEW x, Ledger(m, x), NEW tid \in Tids, NEW parent,
         run_for_parent(m, tid, parent) # 0
  PROVE  Kept(m, dispatch_exit_for_parent(m, tid, parent), x)
<1> DEFINE i == run_for_parent(m, tid, parent)
           run == m.WORKER_RUN_STACK[tid][i]
           kind == run.kind
           w == run.self_obj
           c == m.WORK_CTX[kind][w]
           rest == RemoveAt(m.WORKER_RUN_STACK[tid], i)
           m1 == [m EXCEPT !.WORKER_RUN_STACK[tid] = rest]
           u1 == [m1 EXCEPT !.WORKER_RUN_CARRIER[w] = NULL, !.WORK_CTX[kind][w] = NULL]
           u2 == carrier_dec(u1, c)
           m2 == IF c = NULL THEN m1 ELSE u2
           prev == run.prev_ctx
<1>1. dispatch_exit_for_parent(m, tid, parent) = set_active(m2, tid, prev)
  <2>1. m.WORKER_RUN_STACK \in [Tids -> {q \in Seq(WorkerRunEntry) : Len(q) <= MaxRuns}]
    BY MapsFields
  <2>2. [m EXCEPT !.WORKER_RUN_STACK[tid] = RemoveAt(@, i)] = m1
    BY <2>1
  <2> QED
    BY <2>2 DEF dispatch_exit_for_parent
<1>2. i \in 1..Len(m.WORKER_RUN_STACK[tid])
  <2>1. i \in 0..Len(m.WORKER_RUN_STACK[tid]) /\ i # 0 /\ Len(m.WORKER_RUN_STACK[tid]) \in Nat
    BY RunForParent, RunStack
  <2> HIDE DEF i
  <2> QED
    BY <2>1
<1> HIDE DEF i
<1>3. run \in WorkerRunEntry
  BY <1>2, DropRun, Zenon
<1>4. kind \in RunKinds /\ w \in Works /\ prev \in CtxOrNull
  BY <1>3 DEF WorkerRunEntry, CtxOrNull
<1>5. rest \in Seq(WorkerRunEntry) /\ Len(rest) <= MaxRuns
  <2>1. m.WORKER_RUN_STACK[tid] \in Seq(WorkerRunEntry) /\ Len(m.WORKER_RUN_STACK[tid]) <= MaxRuns
    BY RunStack
  <2>2. rest \in Seq(WorkerRunEntry) /\ Len(rest) = Len(m.WORKER_RUN_STACK[tid]) - 1
    BY <1>2, <2>1, RemoveAtType, Zenon
  <2> HIDE DEF rest
  <2> QED
    BY <2>1, <2>2, BoundsAssumption
<1> HIDE DEF run, kind, w, prev, rest
<1>6. c \in CtxOrNull
  BY <1>4, MapsFields
<1>7. Neutral(m, m1)
  <2>1. NULL \in CtxIds \cup {NULL} /\ NULL \in Tids \cup {NULL}
    OBVIOUS
  <2> QED
    BY <1>4, <1>5, <2>1, RunNeutral, Zenon
<1> HIDE DEF m1
<1>8. Kept(m, m1, x) /\ m1 \in MapsType /\ Ledger(m1, x) /\ m1.WORK_CTX[kind][w] = c
  BY <1>7, NeutralKept, KeptFacts DEF Neutral, SameCarriers
<1> HIDE DEF c
<1>9. OneWork(m1, u1, kind, w, NULL)
  <2>1. NULL \in CtxIds \cup {NULL} /\ NULL \in PendingWorkerSpawn \cup {NULL}
    OBVIOUS
  <2> QED
    BY <1>4, <1>8, <2>1, WorkSet, Zenon
<1> HIDE DEF u1
<1>10. c # NULL => Kept(m1, u2, x)
  BY <1>4, <1>6, <1>8, <1>9, WorkCarries DEF CtxOrNull
<1> HIDE DEF u2
<1>11. Kept(m, m2, x)
  BY <1>8, <1>10, KeptTrans
<1> HIDE DEF m2
<1> QED
  BY <1>1, <1>4, <1>11, KeptThenActive

(* What is taken away stays away over a change that counts nothing.         *)
LEMMA RemovedNeutral ==
  ASSUME NEW m, NEW r, NEW s, NEW c, Removed(m, r, c), Neutral(r, s)
  PROVE  Removed(m, s, c)
<1>1. \A b : Others(s, b) = Others(r, b) /\ \A n : Sized(s, b, n) <=> Sized(r, b, n)
  BY SameOthers DEF Neutral
<1>2. SameBooks(m, s)
  BY DEF Removed, SameBooks, Neutral, SameCarriers, SameCounts
<1> QED
  BY <1>1, <1>2 DEF Removed

(* A pool thread gives up the context it is bound to, and is then unbound.  *)
LEMMA ClearPoolKept ==
  ASSUME NEW m \in MapsType, NEW x, Ledger(m, x), NEW tid \in Tids,
         m.THREADPOOL_WORKER_CTX[tid] # NULL
  PROVE  /\ Kept(m, clear_threadpool_worker_ctx(m, tid), x)
         /\ clear_threadpool_worker_ctx(m, tid).THREADPOOL_WORKER_CTX[tid] = NULL
         /\ clear_threadpool_worker_ctx(m, tid).FORK_CTX = m.FORK_CTX
<1> DEFINE e == m.THREADPOOL_WORKER_CTX[tid]
           w == e.work_item
           c == e.ctx_id
           prev == e.prev_ctx
           m0 == [m EXCEPT !.THREADPOOL_WORKER_CTX[tid] = NULL,
                           !.THREADPOOL_WORKITEM_THREAD[w] = NULL]
           m1 == get_active_ctx(m0, tid)
           put == set_active(m1, tid, prev)
           m2 == IF m1.THREAD_ACTIVE_CTX[tid] = c THEN put ELSE m1
<1>1. clear_threadpool_worker_ctx(m, tid) = carrier_dec(m2, c)
  BY DEF clear_threadpool_worker_ctx
<1>2. e \in WorkerLocalCtx /\ e = m.THREADPOOL_WORKER_CTX[tid]
  BY MapsFields
<1> HIDE DEF e
<1>3. w \in Works /\ c \in CtxIds /\ prev \in CtxOrNull
  BY <1>2 DEF WorkerLocalCtx, CtxOrNull
<1> HIDE DEF w, prev
<1>4. /\ m0 \in MapsType
      /\ m0.CTX_COUNTER = m.CTX_COUNTER
      /\ m0.FRAME_CTX = m.FRAME_CTX
      /\ m0.events = m.events
      /\ m0.TOOL_CTX = m.TOOL_CTX
      /\ m0.TASK_CTX_STACK = m.TASK_CTX_STACK
      /\ m0.WORK_CTX = m.WORK_CTX
      /\ m0.FORK_CTX = m.FORK_CTX
      /\ m0.THREADPOOL_WORKER_CTX = [m.THREADPOOL_WORKER_CTX EXCEPT ![tid] = NULL]
  BY <1>3, Zenon DEF MapsType
<1> HIDE DEF m0
<1>5. SameBooks(m, m0)
  BY <1>4 DEF SameBooks, SameCounts, ctx_is_live
<1>6. Removed(m, m0, c)
  BY <1>2, <1>4, <1>5, PoolPlace
<1>7. Neutral(m0, m1)
  BY <1>4, GetActiveNeutral
<1> HIDE DEF m1
<1>8. Neutral(m1, put)
  BY <1>3, <1>7, SetActiveNeutral DEF Neutral
<1> HIDE DEF put
<1>9. Neutral(m0, m2)
  BY <1>7, <1>8, NeutralTrans
<1> HIDE DEF m2, c
<1>10. Removed(m, m2, c) /\ m2 \in MapsType
  BY <1>6, <1>9, RemovedNeutral DEF Neutral
<1>11. m2.FORK_CTX = m.FORK_CTX /\ m2.THREADPOOL_WORKER_CTX[tid] = NULL
  <2>1. m.THREADPOOL_WORKER_CTX \in [Tids -> WorkerLocalCtx \cup {NULL}]
    BY MapsFields
  <2> QED
    BY <1>4, <1>9, <2>1 DEF Neutral, SameCarriers
<1>12. Kept(m, carrier_dec(m2, c), x)
  BY <1>3, <1>10, <1>11, KeptDec DEF Forkless
<1>13. ctx_is_live(m2, c)
  <2>1. ctx_is_live(m, c)
    BY <1>3, <1>10, CarriedIsLive DEF Removed
  <2> QED
    BY <1>3, <1>10, <2>1 DEF Removed, SameBooks, SameCounts
<1>14. SameCarriers(m2, carrier_dec(m2, c))
  BY <1>3, <1>10, <1>13, DecFields, Zenon
<1> QED
  BY <1>1, <1>11, <1>12, <1>14 DEF SameCarriers

(* A freed work item unbinds the pool thread it is bound to, if any.        *)
LEMMA ClearObjectKept ==
  ASSUME NEW m \in MapsType, NEW x, Ledger(m, x), NEW tid \in Tids, NEW w \in Works
  PROVE  Kept(m, clear_threadpool_worker_for_object(m, tid, w), x)
<1> DEFINE owner == m.THREADPOOL_WORKITEM_THREAD[w]
           H(t) == m.THREADPOOL_WORKER_CTX[t] # NULL /\ m.THREADPOOL_WORKER_CTX[t].work_item = w
           C(t) == clear_threadpool_worker_ctx(m, t)
           r == [m EXCEPT !.THREADPOOL_WORKITEM_THREAD[w] = NULL]
<1>1. clear_threadpool_worker_for_object(m, tid, w) =
        IF H(tid) THEN C(tid) ELSE IF owner = NULL THEN m ELSE IF H(owner) THEN C(owner) ELSE r
  BY DEF clear_threadpool_worker_for_object
<1>2. owner \in Tids \cup {NULL}
  BY MapsFields
<1>3. \A t \in Tids : H(t) => Kept(m, C(t), x)
  BY ClearPoolKept
<1>4. Neutral(m, r)
  <2>1. /\ NULL \in CtxIds \cup {NULL} /\ NULL \in Tids \cup {NULL}
        /\ <<>> \in Seq(WorkerRunEntry) /\ Len(<<>>) <= MaxRuns
    BY BoundsAssumption
  <2> QED
    BY <2>1, RunNeutral, Zenon
<1> HIDE DEF owner, H, C, r
<1> QED
  BY <1>1, <1>2, <1>3, <1>4, KeptSelf, NeutralKept

(* m with the pool thread bound to the work item of e.                      *)
Bound(m, tid, w, c, e) ==
  [m EXCEPT !.THREADPOOL_WORKER_CTX[tid] = e,
            !.THREADPOOL_WORKITEM_THREAD[w] = tid,
            !.THREAD_ACTIVE_CTX[tid] = c]

(* What binding a pool thread writes.                                       *)
LEMMA BindFields ==
  ASSUME NEW m \in MapsType, NEW tid \in Tids, NEW w \in Works, NEW c \in CtxIds,
         NEW e \in WorkerLocalCtx
  PROVE  /\ Bound(m, tid, w, c, e) \in MapsType
         /\ Bound(m, tid, w, c, e).CTX_COUNTER = m.CTX_COUNTER
         /\ Bound(m, tid, w, c, e).FRAME_CTX = m.FRAME_CTX
         /\ Bound(m, tid, w, c, e).events = m.events
         /\ Bound(m, tid, w, c, e).TOOL_CTX = m.TOOL_CTX
         /\ Bound(m, tid, w, c, e).TASK_CTX_STACK = m.TASK_CTX_STACK
         /\ Bound(m, tid, w, c, e).WORK_CTX = m.WORK_CTX
         /\ Bound(m, tid, w, c, e).FORK_CTX = m.FORK_CTX
         /\ Bound(m, tid, w, c, e).THREADPOOL_WORKER_CTX = [m.THREADPOOL_WORKER_CTX EXCEPT ![tid] = e]
<1>1. /\ tid \in Tids \cup {NULL} /\ e \in WorkerLocalCtx \cup {NULL}
      /\ c \in CtxIds \cup {NULL}
  OBVIOUS
<1> QED
  BY <1>1, Zenon DEF MapsType, Bound

(* Binding a pool thread that is not bound to a live context.               *)
LEMMA PoolBound ==
  ASSUME NEW m \in MapsType, NEW x, Ledger(m, x), NEW tid \in Tids, NEW w \in Works,
         NEW e \in WorkerLocalCtx, ctx_is_live(m, e.ctx_id), m.THREADPOOL_WORKER_CTX[tid] = NULL
  PROVE  Kept(m, carrier_inc(Bound(m, tid, w, e.ctx_id, e), e.ctx_id), x)
<1> DEFINE c == e.ctx_id
           r == Bound(m, tid, w, c, e)
<1>0. c \in CtxIds
  BY DEF WorkerLocalCtx
<1>1. /\ r \in MapsType
      /\ r.CTX_COUNTER = m.CTX_COUNTER
      /\ r.FRAME_CTX = m.FRAME_CTX
      /\ r.events = m.events
      /\ r.TOOL_CTX = m.TOOL_CTX
      /\ r.TASK_CTX_STACK = m.TASK_CTX_STACK
      /\ r.WORK_CTX = m.WORK_CTX
      /\ r.FORK_CTX = m.FORK_CTX
      /\ r.THREADPOOL_WORKER_CTX = [m.THREADPOOL_WORKER_CTX EXCEPT ![tid] = e]
  BY <1>0, BindFields
<1> HIDE DEF r
<1>2. SameBooks(m, r)
  BY <1>1 DEF SameBooks, SameCounts, ctx_is_live
<1>3. Added(m, r, c)
  BY <1>0, <1>1, <1>2, PoolPlace
<1>4. Kept(m, carrier_inc(r, c), x)
  BY <1>0, <1>1, <1>3, KeptInc
<1> QED
  BY <1>4 DEF r

(* bind_threadpool_worker_context keeps the books.                          *)
LEMMA BindKept ==
  ASSUME NEW m \in MapsType, NEW x, Ledger(m, x), NEW tid \in Tids, NEW w \in Works \cup {NULL}
  PROVE  Kept(m, bind_threadpool_worker_context(m, tid, w), x)
<1> DEFINE e == m.THREADPOOL_WORKER_CTX[tid]
           same == e # NULL /\ w # NULL /\ e.work_item = w /\ ctx_is_live(m, e.ctx_id)
           m1 == IF e = NULL THEN m ELSE clear_threadpool_worker_ctx(m, tid)
           c == m1.WORK_CTX["WORKITEM"][w]
           act == get_active_ctx(m1, tid)
           prev == act.THREAD_ACTIVE_CTX[tid]
           r0 == set_active(m, tid, e.ctx_id)
           v == [ctx_id |-> c, work_item |-> w, prev_ctx |-> prev]
           r1 == Bound(act, tid, w, c, v)
           r2 == carrier_inc(r1, c)
<1>1. bind_threadpool_worker_context(m, tid, w) =
        IF same THEN r0
        ELSE IF w = NULL THEN m1
        ELSE IF ~ctx_is_live(m1, c) THEN m1
        ELSE IF prev = c THEN act
        ELSE r2
  BY DEF bind_threadpool_worker_context, bind_work_item, Bound
<1>2. e \in WorkerLocalCtx \cup {NULL}
  BY MapsFields
<1>3. same => Kept(m, r0, x)
  <2>1. e # NULL => e.ctx_id \in CtxOrNull
    BY <1>2 DEF WorkerLocalCtx, CtxOrNull
  <2>2. e # NULL => Neutral(m, r0)
    BY <2>1, SetActiveNeutral
  <2> HIDE DEF r0
  <2> QED
    BY <2>2, NeutralKept
<1> HIDE DEF same, r0
<1>4. Kept(m, m1, x) /\ m1.THREADPOOL_WORKER_CTX[tid] = NULL
  BY ClearPoolKept, KeptSelf
<1> HIDE DEF m1, e
<1>5. m1 \in MapsType /\ Ledger(m1, x)
  BY <1>4, KeptFacts
<1>6. Neutral(m1, act) /\ prev \in CtxOrNull
  BY <1>5, GetActive, GetActiveNeutral
<1> HIDE DEF act, prev
<1>7. Kept(m, act, x) /\ act \in MapsType /\ Ledger(act, x)
  BY <1>4, <1>6, KeptThenNeutral, KeptFacts
<1>8. ASSUME w # NULL, ctx_is_live(m1, c) PROVE Kept(m, r2, x)
  <2>1. w \in Works /\ c \in CtxOrNull
    BY <1>5, <1>8, MapsFields DEF RunKinds
  <2>2. c \in CtxIds
    BY <1>5, <1>8, <2>1, LiveType
  <2> HIDE DEF c
  <2>3. v \in WorkerLocalCtx /\ v.ctx_id = c
    BY <1>6, <2>1, <2>2 DEF WorkerLocalCtx, CtxOrNull
  <2> HIDE DEF v
  <2>4. ctx_is_live(act, c) /\ act.THREADPOOL_WORKER_CTX[tid] = NULL
    BY <1>4, <1>6, <1>8, <2>2 DEF Neutral, SameCounts, SameCarriers
  <2>5. Kept(act, r2, x)
    BY <1>7, <2>1, <2>2, <2>3, <2>4, PoolBound
  <2> HIDE DEF r2
  <2> QED
    BY <1>7, <2>5, KeptTrans
<1> HIDE DEF r2, c
<1> QED
  BY <1>1, <1>3, <1>4, <1>7, <1>8

(* refresh_threadpool_worker_context keeps the books.                       *)
LEMMA RefreshKept ==
  ASSUME NEW m \in MapsType, NEW x, Ledger(m, x), NEW py \in PyType, NEW tid \in Tids
  PROVE  Kept(m, refresh_threadpool_worker_context(m, py, tid), x)
BY MappedInChain, BindKept DEF refresh_threadpool_worker_context

-----------------------------------------------------------------------------
(* The two frame probes and the handler of freed objects.                   *)

(* The entry probe keeps the books.                                         *)
LEMMA EntryProbeKept ==
  ASSUME NEW m, MapsOK(m), NEW x, Ledger(m, x), NEW py \in PyType, NEW tid \in Tids,
         NEW f \in Frames, EntryFits(m, py, f), x => Settled(m, py, f), NEW tgid
  PROVE  Kept(m, frame_entry(m, py, tid, f, tgid), x)
<1> DEFINE r == handle_frame_entry(m, py, tid, f)
           q == IF py.code[f].kind \in WorkKinds THEN m ELSE r
           s == handle_worker_frame(q, py, tid, f, tgid)
<1>1. frame_entry(m, py, tid, f, tgid) = s
  BY DEF frame_entry
<1>2. m \in MapsType
  BY DEF MapsOK
<1>3. py.code[f].kind \notin WorkKinds => Kept(m, r, x)
  BY FrameEntryKept
<1> HIDE DEF r
<1>4. Kept(m, q, x)
  BY <1>2, <1>3, KeptSelf
<1> HIDE DEF q
<1>5. Kept(q, s, x)
  BY <1>4, KeptFacts, WorkerFrameKept
<1> HIDE DEF s
<1> QED
  BY <1>1, <1>2, <1>4, <1>5, KeptTrans

(* The exit probe keeps the books.                                          *)
LEMMA ExitProbeKept ==
  ASSUME NEW m, MapsOK(m), NEW x, Ledger(m, x), NEW tid \in Tids, NEW parent \in ParentPtrs
  PROVE  Kept(m, frame_exit(m, tid, parent), x)
<1>1. CASE run_for_parent(m, tid, parent) # 0
  BY <1>1, DispatchKept DEF frame_exit, MapsOK
<1>2. CASE run_for_parent(m, tid, parent) = 0
  BY <1>2, FrameExitKept DEF frame_exit
<1> QED
  BY <1>1, <1>2

(* A freed coroutine whose frame owns a context ends that frame.            *)
LEMMA DeallocFrameKept ==
  ASSUME NEW m \in MapsType, NEW x, Ledger(m, x), NEW tid \in Tids, NEW f \in Frames
  PROVE  Kept(m, dealloc_frame(m, tid, f), x)
<1> DEFINE c == m.FRAME_CTX[f]
           m1 == Unframed(m, f)
           i == find_frame_ctx(m1, tid, f, c)
           m2 == tool_stack_remove_at(m1, tid, i)
           m3 == ctx_stack_remove(m2, tid, c)
           m4 == carrier_dec(emit_frame_end(m3, c), c)
<1>1. dealloc_frame(m, tid, f) = IF c = NULL THEN m ELSE m4
  BY DEF dealloc_frame, Unframed
<1>2. m1 \in MapsType
  BY FrameFields, Zenon
<1>3. i \in 0..Len(m1.TOOL_STACK[tid])
  BY <1>2, FindFrameCtx
<1> HIDE DEF i
<1>4. Neutral(m1, m2)
  BY <1>2, <1>3, ToolStackRemoveNeutral
<1> HIDE DEF m2
<1>5. Neutral(m2, m3)
  BY <1>4, CtxStackRemoveNeutral DEF Neutral
<1> HIDE DEF m3
<1>6. Neutral(Unframed(m, f), m3)
  BY <1>4, <1>5, NeutralTrans
<1>7. c # NULL => Kept(m, m4, x)
  <2>1. c \in CtxIds \cup {NULL} /\ c = m.FRAME_CTX[f]
    BY MapsFields DEF CtxOrNull
  <2> HIDE DEF c
  <2> QED
    BY <1>6, <2>1, EndFrame
<1> HIDE DEF m4, c
<1> QED
  BY <1>1, <1>7, KeptSelf

(* A freed work object gives its context up.                                *)
LEMMA ReleaseWorkKept ==
  ASSUME NEW m \in MapsType, NEW x, Ledger(m, x), NEW kind \in RunKinds, NEW w \in Works,
         m.WORK_CTX[kind][w] # NULL, NEW tid \in Tids
  PROVE  Kept(m, release_work(m, kind, w), x)
<1> DEFINE m1 == finalize_worker_run_for_object(m, w)
           m2 == [m1 EXCEPT !.WORK_CTX[kind][w] = NULL]
           c == m.WORK_CTX[kind][w]
           r == carrier_dec(m2, c)
<1>1. release_work(m, kind, w) = r
  BY DEF release_work
<1>2. c \in CtxIds
  BY MapsFields DEF CtxOrNull
<1>3. Neutral(m, m1)
  BY FinalizeNeutral
<1> HIDE DEF m1
<1>4. m1 \in MapsType /\ m1.WORK_CTX[kind][w] = c
  BY <1>3 DEF Neutral, SameCarriers
<1>5. OneWork(m1, m2, kind, w, NULL)
  <2>1. NULL \in CtxIds \cup {NULL} /\ NULL \in PendingWorkerSpawn \cup {NULL}
    OBVIOUS
  <2> QED
    BY <1>4, <2>1, WorkSet, Zenon
<1> HIDE DEF m2
<1>6. Ledger(m1, x) => Kept(m1, r, x)
  BY <1>2, <1>4, <1>5, WorkCarries
<1> HIDE DEF r
<1> QED
  BY <1>1, <1>3, <1>6, NeutralThenKept

(* A freed work object unbinds its pool thread and gives its context up.    *)
LEMMA DeallocWorkKept ==
  ASSUME NEW m \in MapsType, NEW x, Ledger(m, x), NEW tid \in Tids, NEW w \in Works
  PROVE  Kept(m, dealloc_work(m, tid, w), x)
<1> DEFINE m1 == clear_threadpool_worker_for_object(m, tid, w)
           r1 == release_work(m1, "WORKITEM", w)
           r2 == release_work(m1, "THREAD", w)
<1>1. dealloc_work(m, tid, w) =
        IF m1.WORK_CTX["WORKITEM"][w] # NULL THEN r1
        ELSE IF m1.WORK_CTX["THREAD"][w] # NULL THEN r2 ELSE m1
  BY DEF dealloc_work
<1>2. Kept(m, m1, x)
  BY ClearObjectKept
<1> HIDE DEF m1
<1>3. /\ m1.WORK_CTX["WORKITEM"][w] # NULL => Kept(m1, r1, x)
      /\ m1.WORK_CTX["THREAD"][w] # NULL => Kept(m1, r2, x)
  BY <1>2, KeptFacts, ReleaseWorkKept DEF RunKinds
<1> HIDE DEF r1, r2
<1> QED
  BY <1>1, <1>2, <1>3, KeptTrans

(* handle_pyobj_dealloc keeps the books, whatever is freed.                 *)
LEMMA PyobjDeallocKept ==
  ASSUME NEW m, MapsOK(m), NEW x, Ledger(m, x), NEW tid \in Tids,
         NEW p \in Tasks \cup Frames \cup Objs \cup Works, NEW tgid
  PROVE  Kept(m, handle_pyobj_dealloc(m, tid, p, tgid), x)
<1>0. m \in MapsType /\ Kept(m, m, x)
  BY KeptSelf DEF MapsOK
<1>1. p \in Tasks => Kept(m, dealloc_task(m, tid, p), x)
  BY <1>0, ClearKept DEF dealloc_task
<1>2. /\ p \in Frames => Kept(m, dealloc_frame(m, tid, p), x)
      /\ p \in Objs => Kept(m, dealloc_obj(m, p), x)
      /\ p \in Works => Kept(m, dealloc_work(m, tid, p), x)
  BY <1>0, DeallocFrameKept, DeallocObjNeutral, NeutralKept, DeallocWorkKept
<1>3. CASE tgid \notin m.PROTECTED_TGIDS
  BY <1>0, <1>3 DEF handle_pyobj_dealloc
<1>4. CASE tgid \in m.PROTECTED_TGIDS
  BY <1>1, <1>2, <1>4 DEF handle_pyobj_dealloc
<1> QED
  BY <1>3, <1>4

-----------------------------------------------------------------------------
(* Threads that end, threads that start, the hooks and the resolver.        *)

(* What reap_thread removes of a thread besides its carriers.               *)
LEMMA ReapNeutral ==
  ASSUME NEW m \in MapsType, NEW tid \in Tids
  PROVE  Neutral(m, reap_entries(m, tid)) /\ Neutral(m, reap_stashes(m, tid))
<1> DEFINE r == reap_entries(m, tid)
           s == reap_stashes(m, tid)
<1>1. <<>> \in Stack(CtxIds) /\ <<>> \in Seq(Frames)
  BY BoundsAssumption DEF Stack
<1>2. r \in MapsType
  BY <1>1, Zenon DEF MapsType, reap_entries
<1>3. Aside(m, r)
  BY Zenon DEF MapsType, Aside, SameCarriers, reap_entries
<1>4. s \in MapsType
  BY <1>1, Zenon DEF MapsType, reap_stashes
<1>5. Aside(m, s)
  BY Zenon DEF MapsType, Aside, SameCarriers, reap_stashes
<1> QED
  BY <1>2, <1>3, <1>4, <1>5, AsideNeutral

(* A thread that ends with nothing on its context stack gives up what it    *)
(* inherited and the pool binding it has.                                   *)
LEMMA ReapKept ==
  ASSUME NEW m \in MapsType, NEW x, Ledger(m, x), NEW tid \in Tids,
         m.THREAD_CTX_STACK[tid] = <<>>
  PROVE  Kept(m, reap_thread(m, tid), x) /\ reap_thread(m, tid).FORK_CTX[tid] = NULL
<1> DEFINE c == m.FORK_CTX[tid]
           f2 == carrier_dec([m EXCEPT !.FORK_CTX[tid] = NULL], c)
           m2 == reap_carriers(m, tid)
           m3 == reap_entries(m2, tid)
           m4 == clear_threadpool_worker_for_thread(m3, tid)
           m5 == reap_stashes(m4, tid)
           m6 == clear_worker_runs_for_thread(m5, tid)
<1>3. reap_thread(m, tid) = m6
  BY Zenon DEF reap_thread
<1>4. Kept(m, m2, x) /\ m2.FORK_CTX[tid] = NULL
  <2>1. c \in CtxIds \cup {NULL} /\ c = m.FORK_CTX[tid]
    BY MapsFields DEF CtxOrNull
  <2>2. c # NULL => Kept(m, f2, x) /\ f2.FORK_CTX[tid] = NULL
    BY <2>1, ForkReleased
  <2>3. m2 = IF c = NULL THEN m ELSE f2
    BY DEF reap_carriers
  <2> HIDE DEF f2, m2
  <2> QED
    BY <2>1, <2>2, <2>3, KeptSelf
<1> HIDE DEF m2
<1>5. Neutral(m2, m3)
  BY <1>4, KeptFacts, ReapNeutral
<1> HIDE DEF m3
<1>6. Kept(m, m3, x) /\ m3.FORK_CTX[tid] = NULL
  <2>1. Kept(m, m3, x)
    BY <1>4, <1>5, KeptThenNeutral
  <2> QED
    BY <1>4, <1>5, <2>1 DEF Neutral, SameCarriers
<1>7. Kept(m, m4, x) /\ m4.FORK_CTX[tid] = NULL
  <2>1. m3 \in MapsType /\ Ledger(m3, x)
    BY <1>6, KeptFacts
  <2>2. Kept(m3, m4, x) /\ m4.FORK_CTX = m3.FORK_CTX
    BY <2>1, ClearPoolKept, KeptSelf DEF clear_threadpool_worker_for_thread
  <2> HIDE DEF m4
  <2>3. Kept(m, m4, x)
    BY <1>6, <2>2, KeptTrans
  <2> QED
    BY <1>6, <2>2, <2>3
<1> HIDE DEF m4
<1>8. Neutral(m4, m5)
  BY <1>7, KeptFacts, ReapNeutral
<1> HIDE DEF m5
<1>9. Neutral(m5, m6)
  BY <1>8, ClearRunsNeutral DEF Neutral
<1> HIDE DEF m6
<1>10. Neutral(m4, m6)
  BY <1>8, <1>9, NeutralTrans
<1>11. Kept(m, m6, x)
  BY <1>7, <1>10, KeptThenNeutral
<1> QED
  BY <1>3, <1>7, <1>10, <1>11 DEF Neutral, SameCarriers

(* handle_sched_exit keeps the books for a thread that ends so.             *)
LEMMA SchedExitKept ==
  ASSUME NEW m \in MapsType, NEW x, Ledger(m, x), NEW tid \in Tids, NEW tgid,
         m.THREAD_CTX_STACK[tid] = <<>>
  PROVE  /\ Kept(m, handle_sched_exit(m, tid, tgid), x)
         /\ handle_sched_exit(m, tid, tgid).FORK_CTX[tid] = NULL
<1> DEFINE m1 == reap_thread(m, tid)
           q == IF tid = tgid THEN m1.PROTECTED_TGIDS \ {tgid} ELSE m1.PROTECTED_TGIDS
           r == [m1 EXCEPT !.PROTECTED_TGIDS = q]
<1>1. ASSUME m1 \in MapsType PROVE handle_sched_exit(m, tid, tgid) = r
  BY <1>1, Zenon DEF handle_sched_exit, MapsType
<1>2. Kept(m, m1, x) /\ m1.FORK_CTX[tid] = NULL
  BY ReapKept
<1> HIDE DEF m1
<1>3. m1 \in MapsType
  BY <1>2, KeptFacts
<1>4. q \in SUBSET Tids
  BY <1>3, MapsFields
<1> HIDE DEF q
<1>5. Neutral(m1, r)
  BY <1>3, <1>4, ProtectedNeutral, Zenon
<1> HIDE DEF r
<1>6. Kept(m, r, x)
  BY <1>2, <1>5, KeptThenNeutral
<1> QED
  BY <1>1, <1>2, <1>3, <1>5, <1>6 DEF Neutral, SameCarriers

(* Booked is transitive.                                                    *)
LEMMA BookedTrans ==
  ASSUME NEW m \in MapsType, NEW r, NEW s, NEW x, Booked(m, r, x), Booked(r, s, x)
  PROVE  Booked(m, s, x)
<1>1. /\ m.CTX_COUNTER \in Nat /\ r.CTX_COUNTER \in Nat /\ s.CTX_COUNTER \in Nat
      /\ m.CTX_COUNTER <= r.CTX_COUNTER /\ r.CTX_COUNTER <= s.CTX_COUNTER
  BY MapsFields DEF Booked
<1>2. CtxIds \subseteq Nat
  BY CtxNotNull
<1>3. \A c \in CtxIds : ctx_is_live(s, c) /\ ~ctx_is_live(m, c) => c > m.CTX_COUNTER
  <2>1. SUFFICES ASSUME NEW c \in CtxIds, ctx_is_live(s, c), ~ctx_is_live(m, c)
                 PROVE  c > m.CTX_COUNTER
    OBVIOUS
  <2>2. c > m.CTX_COUNTER \/ c > r.CTX_COUNTER
    BY <2>1 DEF Booked
  <2> QED
    BY <1>1, <1>2, <2>2
<1> QED
  BY <1>1, <1>3 DEF Booked

(* The context a child inherits is alive.                                   *)
LEMMA InheritedLive ==
  ASSUME NEW m \in MapsType, NEW tid \in Tids,
         m.THREAD_ACTIVE_CTX[tid] # NULL => ctx_is_live(m, m.THREAD_ACTIVE_CTX[tid]),
         inherited_ctx(m, tid) # NULL
  PROVE  ctx_is_live(m, inherited_ctx(m, tid))
<1> DEFINE c == m.THREAD_ACTIVE_CTX[tid]
           p == m.PENDING_WORKER_SPAWN[tid]
           a == ~(m.TOOL_CTX[c].async /\ m.WORKER_RUN_STACK[tid] = <<>>)
           b == m.WORK_CTX["WORKITEM"][p.work_item] = p.ctx_id
           e == p.ctx_id
<1>1. inherited_ctx(m, tid) =
        IF c # NULL /\ a THEN c ELSE IF p = NULL THEN NULL
        ELSE IF b /\ ctx_is_live(m, e) THEN e ELSE NULL
  BY DEF inherited_ctx
<1> HIDE DEF a, b, e, p
<1> QED
  BY <1>1

(* A child that is given a context becomes its carrier.                     *)
Bequeathed(m, child, c) == [m EXCEPT !.THREAD_ACTIVE_CTX[child] = c, !.FORK_CTX[child] = c]

(* What giving a child its context writes.                                  *)
LEMMA BequestFields ==
  ASSUME NEW m \in MapsType, NEW child \in Tids, NEW c \in CtxIds
  PROVE  /\ Bequeathed(m, child, c) \in MapsType
         /\ Bequeathed(m, child, c).CTX_COUNTER = m.CTX_COUNTER
         /\ Bequeathed(m, child, c).FRAME_CTX = m.FRAME_CTX
         /\ Bequeathed(m, child, c).events = m.events
         /\ Bequeathed(m, child, c).TOOL_CTX = m.TOOL_CTX
         /\ Bequeathed(m, child, c).TASK_CTX_STACK = m.TASK_CTX_STACK
         /\ Bequeathed(m, child, c).WORK_CTX = m.WORK_CTX
         /\ Bequeathed(m, child, c).THREADPOOL_WORKER_CTX = m.THREADPOOL_WORKER_CTX
         /\ Bequeathed(m, child, c).FORK_CTX = [m.FORK_CTX EXCEPT ![child] = c]
<1>1. c \in CtxIds \cup {NULL}
  OBVIOUS
<1> QED
  BY <1>1, Zenon DEF MapsType, Bequeathed

(* A child that is given a live context is counted.                         *)
LEMMA ChildBooked ==
  ASSUME NEW m \in MapsType, NEW x, Ledger(m, x), NEW child \in Tids, NEW c \in CtxIds,
         ctx_is_live(m, c), m.FORK_CTX[child] = NULL
  PROVE  /\ Booked(m, carrier_inc(Bequeathed(m, child, c), c), x)
         /\ carrier_inc(Bequeathed(m, child, c), c).FORK_CTX = [m.FORK_CTX EXCEPT ![child] = c]
<1> DEFINE r == Bequeathed(m, child, c)
<1>1. /\ r \in MapsType
      /\ r.CTX_COUNTER = m.CTX_COUNTER
      /\ r.FRAME_CTX = m.FRAME_CTX
      /\ r.events = m.events
      /\ r.TOOL_CTX = m.TOOL_CTX
      /\ r.TASK_CTX_STACK = m.TASK_CTX_STACK
      /\ r.WORK_CTX = m.WORK_CTX
      /\ r.THREADPOOL_WORKER_CTX = m.THREADPOOL_WORKER_CTX
      /\ r.FORK_CTX = [m.FORK_CTX EXCEPT ![child] = c]
  BY BequestFields
<1> HIDE DEF r
<1>2. SameBooks(m, r)
  BY <1>1 DEF SameBooks, SameCounts, ctx_is_live
<1>3. Added(m, r, c)
  BY <1>1, <1>2, ForkPlace
<1> QED
  BY <1>1, <1>3, IncAdded DEF r

(* handle_sched_fork keeps the books, and changes what the child inherits   *)
(* alone.                                                                   *)
LEMMA SchedForkBooked ==
  ASSUME NEW m \in MapsType, NEW x, Ledger(m, x), NEW tid \in Tids, NEW tgid, NEW child \in Tids,
         NEW child_tgid \in Tids, NEW all \in BOOLEAN, m.FORK_CTX[child] = NULL
  PROVE  /\ Booked(m, handle_sched_fork(m, tid, tgid, child, child_tgid, all), x)
         /\ \A t \in Tids : t # child =>
              handle_sched_fork(m, tid, tgid, child, child_tgid, all).FORK_CTX[t] = m.FORK_CTX[t]
<1> DEFINE act == get_active_ctx(m, tid)
           c == inherited_ctx(act, tid)
           s1 == [act EXCEPT !.PENDING_WORKER_SPAWN[tid] = NULL]
           m1 == IF spawn_taken(act, tid) THEN s1 ELSE act
           q == m1.PROTECTED_TGIDS \cup {child_tgid}
           m2 == [m1 EXCEPT !.PROTECTED_TGIDS = q]
           m4 == carrier_inc(Bequeathed(m2, child, c), c)
<1>1. ASSUME m1 \in MapsType
      PROVE  handle_sched_fork(m, tid, tgid, child, child_tgid, all) =
               IF c = NULL THEN IF tgid \in m.PROTECTED_TGIDS /\ all THEN m2 ELSE m1 ELSE m4
  BY <1>1, Zenon DEF handle_sched_fork, MapsType, Bequeathed
<1>2. /\ Neutral(m, act)
      /\ act.THREAD_ACTIVE_CTX[tid] # NULL => ctx_is_live(act, act.THREAD_ACTIVE_CTX[tid])
  BY GetActiveNeutral, GetActive
<1> HIDE DEF act
<1>3. act \in MapsType
  BY <1>2 DEF Neutral
<1>4. c \in CtxOrNull /\ (c # NULL => ctx_is_live(act, c))
  BY <1>2, <1>3, Inherited, InheritedLive
<1> HIDE DEF c
<1>5. Neutral(act, s1)
  <2>1. {} \in SUBSET Tids
    OBVIOUS
  <2> QED
    BY <1>3, <2>1, ProtectedNeutral, Zenon
<1> HIDE DEF s1
<1>6. Neutral(m, m1)
  BY <1>2, <1>5, NeutralTrans
<1>7. Neutral(act, m1)
  BY <1>3, <1>5, NeutralSelf
<1> HIDE DEF m1
<1>8. m1 \in MapsType
  BY <1>6 DEF Neutral
<1>9. q \in SUBSET Tids
  BY <1>8, MapsFields
<1> HIDE DEF q
<1>10. Neutral(m1, m2)
  BY <1>8, <1>9, ProtectedNeutral, Zenon
<1> HIDE DEF m2
<1>11. Neutral(m, m2) /\ Neutral(act, m2)
  BY <1>6, <1>7, <1>10, NeutralTrans
<1>12. /\ Kept(m, m1, x) /\ Kept(m, m2, x)
       /\ m2 \in MapsType /\ Ledger(m2, x)
  BY <1>6, <1>11, NeutralKept, KeptFacts
<1>13. m1.FORK_CTX = m.FORK_CTX /\ m2.FORK_CTX = m.FORK_CTX
  BY <1>6, <1>11 DEF Neutral, SameCarriers
<1>14. ASSUME c # NULL
       PROVE  Booked(m, m4, x) /\ m4.FORK_CTX = [m.FORK_CTX EXCEPT ![child] = c]
  <2>1. c \in CtxIds
    BY <1>4, <1>14 DEF CtxOrNull
  <2>2. ctx_is_live(m2, c)
    BY <1>4, <1>11, <1>14, <2>1 DEF Neutral, SameCounts
  <2>3. Booked(m2, m4, x) /\ m4.FORK_CTX = [m2.FORK_CTX EXCEPT ![child] = c]
    BY <1>12, <1>13, <2>1, <2>2, ChildBooked
  <2> HIDE DEF m4
  <2>4. Booked(m, m4, x)
    BY <1>12, <2>3, BookedTrans DEF Kept
  <2> QED
    BY <1>13, <2>3, <2>4
<1> HIDE DEF m4
<1>15. m.FORK_CTX \in [Tids -> CtxOrNull]
  BY MapsFields
<1> QED
  BY <1>1, <1>8, <1>12, <1>13, <1>14, <1>15 DEF Kept

(* A fallback monitor keeps the books.                                      *)
LEMMA FentryKept ==
  ASSUME NEW m \in MapsType, NEW x, Ledger(m, x), NEW py \in PyType, NEW tid \in Tids
  PROVE  Kept(m, fentry_hook(m, py, tid), x)
<1> DEFINE r0 == refresh_threadpool_worker_context(m, py, tid)
           m1 == get_active_ctx(r0, tid)
           r == mark_ctx_seen(m1, tid)
<1>1. fentry_hook(m, py, tid) = r
  BY DEF fentry_hook, resolve_ctx
<1>2. Kept(m, r0, x)
  BY RefreshKept
<1> HIDE DEF r0
<1>3. /\ Neutral(r0, m1)
      /\ m1.THREAD_ACTIVE_CTX[tid] # NULL => ctx_is_live(m1, m1.THREAD_ACTIVE_CTX[tid])
  BY <1>2, KeptFacts, GetActiveNeutral, GetActive
<1> HIDE DEF m1
<1>4. Neutral(m1, r)
  BY <1>3, SeenNeutral DEF Neutral
<1> HIDE DEF r
<1> QED
  BY <1>1, <1>2, <1>3, <1>4, NeutralTrans, KeptThenNeutral

(* A guarded system call keeps the books.                                   *)
LEMMA GuardKept ==
  ASSUME NEW m \in MapsType, NEW x, Ledger(m, x), NEW py \in PyType, NEW tid \in Tids, NEW tgid
  PROVE  Kept(m, guard_hook(m, py, tid, tgid), x)
<1> DEFINE act == get_active_ctx(m, tid)
           r == fentry_hook(act, py, tid)
<1>1. guard_hook(m, py, tid, tgid) = act \/ guard_hook(m, py, tid, tgid) = r
  BY DEF guard_hook, fentry_hook
<1>2. Neutral(m, act)
  BY GetActiveNeutral
<1> HIDE DEF act
<1>3. Kept(m, act, x)
  BY <1>2, NeutralKept
<1>4. Kept(act, r, x)
  BY <1>3, KeptFacts, FentryKept
<1> HIDE DEF r
<1> QED
  BY <1>1, <1>3, <1>4, KeptTrans
=============================================================================
