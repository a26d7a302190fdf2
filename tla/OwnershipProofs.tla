-------------------------- MODULE OwnershipProofs --------------------------
(***************************************************************************)
(* What the helpers of ownership.rs preserve, for every value of the       *)
(* constants: the maps keep their types, and with them the bounds of the   *)
(* stacks; TASK_CTX stays the top of TASK_CTX_STACK; context ids are only  *)
(* allocated where a context is made.                                      *)
(***************************************************************************)
EXTENDS Ownership, TLAPS

-----------------------------------------------------------------------------
(* Sets and sequences.                                                      *)

(* A set of at most nine successive naturals has a least element, which Min *)
(* returns: the searches of the probes look at stacks of at most 8 slots.   *)
LEMMA MinIn ==
  ASSUME NEW S, S \subseteq 0..8, S # {}
  PROVE  /\ Min(S) \in S
         /\ \E x \in S : \A y \in S : x <= y
<1>1. ASSUME \A x \in S : \E y \in S : ~(x <= y) PROVE FALSE
  <2>1. \A x \in S : \E y \in S : y < x
    BY <1>1
  <2>2. 0 \notin S /\ 1 \notin S
    BY <2>1
  <2>3. 2 \notin S /\ 3 \notin S
    BY <2>1, <2>2
  <2>4. 4 \notin S /\ 5 \notin S
    BY <2>1, <2>2, <2>3
  <2>5. 6 \notin S /\ 7 \notin S
    BY <2>1, <2>2, <2>3, <2>4
  <2>6. \A x \in 0..8 : x = 0 \/ x = 1 \/ x = 2 \/ x = 3 \/ x = 4 \/ x = 5 \/ x = 6 \/ x = 7 \/ x = 8
    OBVIOUS
  <2>7. \A x \in S : x = 8
    BY <2>2, <2>3, <2>4, <2>5, <2>6, Zenon
  <2>8. PICK x \in S : x = 8
    BY <2>7, Zenon
  <2>9. PICK y \in S : y < x
    BY <2>1, Zenon
  <2>10. y = 8
    BY <2>7, Zenon
  <2> QED
    BY <2>8, <2>9, <2>10
<1> QED
  BY <1>1, Zenon DEF Min

(* An index found by a search, or 0, is within the bounds of the sequence.  *)
LEMMA MinOrZero ==
  ASSUME NEW n \in 0..8, NEW I, I \subseteq 0..n
  PROVE  (IF I = {} THEN 0 ELSE Min(I)) \in 0..n
<1>1. I \subseteq 0..8 /\ 0 \in 0..n
  OBVIOUS
<1> QED
  BY <1>1, MinIn, Zenon

(* A set of naturals from n - 8 to n has a greatest one, which Max returns. *)
LEMMA MaxIn ==
  ASSUME NEW n \in Nat, NEW S, S # {}, \A k \in S : k \in 0..n /\ n - k <= 8
  PROVE  Max(S) \in S
<1> DEFINE T == {k \in 0..8 : n - k \in S}
<1>1. \A k \in S : n - k \in T
  OBVIOUS
<1>2. T # {} /\ T \subseteq 0..8
  BY <1>1, Zenon
<1>3. PICK k \in T : \A j \in T : k <= j
  BY <1>2, MinIn, Zenon
<1>4. \A y \in S : k <= n - y
  BY <1>1, <1>3, Zenon
<1>5. n - k \in S /\ \A y \in S : n - k >= y
  BY <1>4
<1> QED
  BY <1>5, Zenon DEF Max

(* The lowest b slots of a stack.                                           *)
LEMMA LowSlots ==
  ASSUME NEW S, NEW s \in Seq(S), NEW b \in 0..Len(s)
  PROVE  /\ SubSeq(s, 1, b) \in Seq(S)
         /\ Len(SubSeq(s, 1, b)) = b
         /\ \A j \in 1..b : SubSeq(s, 1, b)[j] = s[j]
  OBVIOUS

(* Two stacks on top of each other.                                         *)
LEMMA ConcatType ==
  ASSUME NEW S, NEW s \in Seq(S), NEW t \in Seq(S)
  PROVE  s \o t \in Seq(S) /\ Len(s \o t) = Len(s) + Len(t)
  OBVIOUS

(* RemoveAt takes one slot out and moves those above it down.               *)
LEMMA RemoveAtType ==
  ASSUME NEW S, NEW s \in Seq(S), NEW i \in 1..Len(s)
  PROVE  /\ Len(s) \in Nat /\ DOMAIN s = 1..Len(s)
         /\ RemoveAt(s, i) \in Seq(S)
         /\ Len(RemoveAt(s, i)) = Len(s) - 1
         /\ DOMAIN RemoveAt(s, i) = 1..(Len(s) - 1)
         /\ \A j \in 1..(Len(s) - 1) : RemoveAt(s, i)[j] = IF j < i THEN s[j] ELSE s[j + 1]
<1> DEFINE a == SubSeq(s, 1, i - 1)
           z == SubSeq(s, i + 1, Len(s))
<1>1. a \in Seq(S) /\ Len(a) = i - 1 /\ \A j \in 1..(i - 1) : a[j] = s[j]
  OBVIOUS
<1>2. z \in Seq(S) /\ Len(z) = Len(s) - i /\ \A j \in 1..(Len(s) - i) : z[j] = s[i + j]
  OBVIOUS
<1>3. RemoveAt(s, i) = a \o z
  BY DEF RemoveAt
<1>4. Len(s) \in Nat /\ DOMAIN s = 1..Len(s)
  OBVIOUS
<1> HIDE DEF a, z
<1>5. a \o z \in Seq(S) /\ Len(a \o z) = Len(s) - 1
  <2>1. a \o z \in Seq(S) /\ Len(a \o z) = Len(a) + Len(z)
    BY <1>1, <1>2, ConcatType, Zenon
  <2> QED
    BY <1>1, <1>2, <1>4, <2>1
<1>6. ASSUME NEW j \in 1..(Len(s) - 1), j < i PROVE (a \o z)[j] = s[j]
  BY <1>1, <1>2, <1>4, <1>6
<1>7. ASSUME NEW j \in 1..(Len(s) - 1), ~(j < i) PROVE (a \o z)[j] = s[j + 1]
  <2>1. j - (i - 1) \in 1..(Len(s) - i) /\ i + (j - (i - 1)) = j + 1 
    BY <1>4, <1>7
  <2>2. (a \o z)[j] = z[j - (i - 1)]
    BY <1>1, <1>2, <1>4, <1>7
  <2> QED
    BY <1>2, <2>1, <2>2
<1>8. DOMAIN (a \o z) = 1..(Len(s) - 1)
  BY <1>5
<1> QED
  BY <1>3, <1>4, <1>5, <1>6, <1>7, <1>8, Zenon

(* RemoveFirst takes out one slot that holds the element.                   *)
LEMMA RemoveFirstAt ==
  ASSUME NEW S, NEW s \in Seq(S), Len(s) <= 8, NEW e, Contains(s, e)
  PROVE  \E i \in 1..Len(s) : s[i] = e /\ RemoveFirst(s, e) = RemoveAt(s, i)
<1> DEFINE I == {i \in 1..Len(s) : s[i] = e}
<1>1. I # {} /\ I \subseteq 0..8
  BY DEF Contains
<1>2. Min(I) \in I
  <2> HIDE DEF I
  <2> QED
    BY <1>1, MinIn, Zenon
<1>3. RemoveFirst(s, e) = RemoveAt(s, Min(I))
  BY <1>1 DEF Contains, RemoveFirst, SelectInSeq
<1> QED
  BY <1>2, <1>3, Zenon

(* RemoveFirst takes out one occurrence of an element that occurs.          *)
LEMMA RemoveFirstType ==
  ASSUME NEW S, NEW s \in Seq(S), Len(s) <= 8, NEW e, Contains(s, e)
  PROVE  /\ RemoveFirst(s, e) \in Seq(S)
         /\ Len(RemoveFirst(s, e)) = Len(s) - 1
  BY RemoveFirstAt, RemoveAtType

(* The top of a stack and what is below it.                                 *)
LEMMA FrontType ==
  ASSUME NEW S, NEW s \in Seq(S), s # <<>>
  PROVE  /\ Len(s) \in 1..Len(s)
         /\ Front(s) \in Seq(S)
         /\ Len(Front(s)) = Len(s) - 1
         /\ \A j \in 1..(Len(s) - 1) : Front(s)[j] = s[j]
         /\ Last(s) = s[Len(s)]
         /\ Last(s) \in S
<1>1. Len(s) \in Nat \ {0}
  OBVIOUS
<1>2. Len(s) \in 1..Len(s) /\ Len(s) - 1 \in 0..Len(s)
  BY <1>1
<1>3. /\ Front(s) \in Seq(S) /\ Len(Front(s)) = Len(s) - 1
      /\ \A j \in 1..(Len(s) - 1) : Front(s)[j] = s[j]
  BY <1>2, LowSlots, Zenon DEF Front
<1>4. Last(s) \in S
  BY <1>2 DEF Last
<1> QED
  BY <1>2, <1>3, <1>4, Zenon DEF Last

-----------------------------------------------------------------------------
(* How a helper may change the maps.                                        *)

CtxOrNull == CtxIds \cup {NULL}

(* The maps have their types and TASK_CTX is the top of the task stacks.    *)
MapsOK(m) ==
  /\ m \in MapsType
  /\ \A k \in Tasks : m.TASK_CTX[k] = top_or_null(m.TASK_CTX_STACK[k])

(* From m to r the types are kept; the id counter, the contexts of tasks    *)
(* and the resolver's ring are left alone.                                  *)
Steady(m, r) ==
  /\ r \in MapsType
  /\ r.CTX_COUNTER = m.CTX_COUNTER
  /\ r.TASK_CTX = m.TASK_CTX
  /\ r.TASK_CTX_STACK = m.TASK_CTX_STACK
  /\ r.RESOLVER_EVENTS = m.RESOLVER_EVENTS

(* From m to r at most n ids are allocated, and the event the daemon works  *)
(* on stays at the head of the ring.                                        *)
Grows(m, r, n) ==
  /\ MapsOK(r)
  /\ r.CTX_COUNTER <= m.CTX_COUNTER + n
  /\ m.RESOLVER_EVENTS # <<>> =>
       /\ r.RESOLVER_EVENTS # <<>>
       /\ Head(r.RESOLVER_EVENTS) = Head(m.RESOLVER_EVENTS)

(* The fields of the maps that the lemmas below take out of MapsType.       *)
LEMMA MapsFields ==
  ASSUME NEW m \in MapsType
  PROVE  /\ m.CTX_COUNTER \in Nat
         /\ m.TOOL_CTX \in [CtxIds -> ToolCtx \cup {NULL}]
         /\ m.FRAME_CTX \in [Frames -> CtxOrNull]
         /\ m.THREAD_CTX_STACK \in [Tids -> Stack(CtxIds)]
         /\ m.THREAD_ACTIVE_CTX \in [Tids -> CtxOrNull]
         /\ m.THREAD_ACTIVE_TASK \in [Tids -> Tasks \cup {NULL}]
         /\ m.TASK_CTX \in [Tasks -> CtxOrNull]
         /\ m.TASK_CTX_STACK \in [Tasks -> Stack(CtxIds)]
         /\ m.TOOL_STACK \in [Tids -> Stack(ToolStackEntry)]
         /\ m.PENDING_TOOL_CLOSE \in [Tasks -> [Slots -> ToolStackEntry \cup {NULL}]]
         /\ m.FRAME_ENTRY_STASH \in [Tids -> Seq(Frames)]
         /\ m.TASK_STEP_STASH \in [Tids -> StepStash \cup {NULL}]
         /\ m.TOOL_OBJ \in [Objs -> ToolObjCacheEntry \cup {NULL}]
         /\ m.PENDING_TOOL_RESOLVE \in SUBSET Objs
         /\ m.RESOLVER_EVENTS \in Seq(ResolverEvent)
         /\ m.WORK_CTX \in [RunKinds -> [Works -> CtxOrNull]]
         /\ m.WORKER_RUN_STACK \in [Tids -> {s \in Seq(WorkerRunEntry) : Len(s) <= MaxRuns}]
         /\ m.WORKER_RUN_CARRIER \in [Works -> Tids \cup {NULL}]
         /\ m.THREADPOOL_WORKER_CTX \in [Tids -> WorkerLocalCtx \cup {NULL}]
         /\ m.THREADPOOL_WORKITEM_THREAD \in [Works -> Tids \cup {NULL}]
         /\ m.PENDING_WORKER_SPAWN \in [Tids -> PendingWorkerSpawn \cup {NULL}]
         /\ m.FORK_CTX \in [Tids -> CtxOrNull]
         /\ m.PROTECTED_TGIDS \in SUBSET Tids
         /\ m.events \in [CtxIds -> EventCounts]
BY Zenon DEF MapsType, CtxOrNull

(* Steady handlers compose: ownership.rs functions call one another.        *)
LEMMA SteadyTrans ==
  ASSUME NEW m, NEW r, NEW s, Steady(m, r), Steady(r, s)
  PROVE  Steady(m, s)
BY DEF Steady

(* A helper that leaves the tracked maps alone keeps them consistent.       *)
LEMMA SteadyGrows ==
  ASSUME NEW m, MapsOK(m), NEW r, Steady(m, r)
  PROVE  Grows(m, r, 0)
<1>1. m.CTX_COUNTER \in Nat /\ r.CTX_COUNTER <= m.CTX_COUNTER + 0
  BY MapsFields DEF MapsOK, Steady
<1>2. MapsOK(r)
  BY DEF MapsOK, Steady
<1> QED
  BY <1>1, <1>2 DEF Grows, Steady

(* Two handlers in a row allocate at most what both may allocate.           *)
LEMMA GrowsTrans ==
  ASSUME NEW m, MapsOK(m), NEW r, NEW s, NEW a \in Nat, NEW b \in Nat,
         Grows(m, r, a), Grows(r, s, b)
  PROVE  Grows(m, s, a + b)
<1>1. m.CTX_COUNTER \in Nat /\ r.CTX_COUNTER \in Nat /\ s.CTX_COUNTER \in Nat
  BY MapsFields DEF MapsOK, Grows
<1>2. s.CTX_COUNTER <= m.CTX_COUNTER + (a + b)
  BY <1>1 DEF Grows
<1> QED
  BY <1>2 DEF Grows

(* The common case: neither step allocates.                                 *)
LEMMA KeepsTrans ==
  ASSUME NEW m, MapsOK(m), NEW r, NEW s, Grows(m, r, 0), Grows(r, s, 0)
  PROVE  Grows(m, s, 0)
BY GrowsTrans

-----------------------------------------------------------------------------
(* Contexts and carriers.                                                   *)

(* A live context has an entry in TOOL_CTX (ctx_is_live).                   *)
LEMMA LiveType ==
  ASSUME NEW m \in MapsType, NEW c \in CtxOrNull, ctx_is_live(m, c)
  PROVE  c \in CtxIds /\ m.TOOL_CTX[c] \in ToolCtx
BY MapsFields, NullAssumption DEF ctx_is_live, CtxOrNull

(* The tool of a context is a tool id or TOOL_IDLE.                         *)
LEMMA ToolOfType ==
  ASSUME NEW m \in MapsType, NEW c \in CtxOrNull
  PROVE  tool_of(m, c) \in ToolIds \cup {TOOL_IDLE}
BY LiveType DEF tool_of, ToolCtx

(* Writing one well-typed entry of TOOL_CTX is steady.                      *)
LEMMA SetCtx ==
  ASSUME NEW m \in MapsType, NEW c \in CtxIds, NEW v \in ToolCtx \cup {NULL}
  PROVE  Steady(m, [m EXCEPT !.TOOL_CTX[c] = v])
BY Zenon DEF MapsType, Steady

(* Setting THREAD_ACTIVE_CTX to a context or clearing it is steady.         *)
LEMMA SetActive ==
  ASSUME NEW m \in MapsType, NEW tid \in Tids, NEW c \in CtxOrNull
  PROVE  Steady(m, set_active(m, tid, c))
BY Zenon DEF MapsType, Steady, set_active, CtxOrNull

(* get_active_ctx, which drops a dead entry as it reads, is steady.         *)
LEMMA GetActive ==
  ASSUME NEW m \in MapsType, NEW tid \in Tids
  PROVE  /\ Steady(m, get_active_ctx(m, tid))
         /\ get_active_ctx(m, tid).THREAD_ACTIVE_CTX[tid] \in CtxOrNull
         /\ get_active_ctx(m, tid).THREAD_ACTIVE_CTX[tid] # NULL =>
              ctx_is_live(get_active_ctx(m, tid), get_active_ctx(m, tid).THREAD_ACTIVE_CTX[tid])
<1> DEFINE r == get_active_ctx(m, tid)
<1>1. CASE ctx_is_live(m, m.THREAD_ACTIVE_CTX[tid])
  <2>1. r = m
    BY <1>1 DEF get_active_ctx
  <2>2. m.THREAD_ACTIVE_CTX[tid] \in CtxOrNull
    BY MapsFields
  <2> QED
    BY <1>1, <2>1, <2>2 DEF Steady
<1>2. CASE ~ctx_is_live(m, m.THREAD_ACTIVE_CTX[tid])
  <2>1. r = set_active(m, tid, NULL)
    BY <1>2 DEF get_active_ctx
  <2>2. Steady(m, r)
    BY <2>1, SetActive DEF CtxOrNull
  <2>3. r.THREAD_ACTIVE_CTX[tid] = NULL
    BY <2>1, Zenon DEF set_active, MapsType
  <2> QED
    BY <2>2, <2>3 DEF CtxOrNull
<1> QED
  BY <1>1, <1>2

(* Removing an entry of TOOL_CTX is steady.                                 *)
LEMMA EndCtx ==
  ASSUME NEW m \in MapsType, NEW c \in CtxIds, NEW e \in EventCounts
  PROVE  Steady(m, [m EXCEPT !.TOOL_CTX[c] = NULL, !.events[c] = e])
BY Zenon DEF MapsType, Steady

(* Emitting an event is steady.                                             *)
LEMMA SetEvents ==
  ASSUME NEW m \in MapsType, NEW c \in CtxIds, NEW e \in EventCounts
  PROVE  Steady(m, [m EXCEPT !.events[c] = e])
BY Zenon DEF MapsType, Steady

(* ctx_carrier_inc is steady.                                               *)
LEMMA CarrierInc ==
  ASSUME NEW m \in MapsType, NEW c \in CtxOrNull
  PROVE  Steady(m, carrier_inc(m, c))
<1> DEFINE v == [m.TOOL_CTX[c] EXCEPT !.carrier_count = @ + 1]
<1>1. CASE ~ctx_is_live(m, c)
  BY <1>1 DEF carrier_inc, Steady
<1>2. CASE ctx_is_live(m, c)
  <2>1. c \in CtxIds /\ v \in ToolCtx
    BY <1>2, LiveType DEF ToolCtx
  <2>2. carrier_inc(m, c) = [m EXCEPT !.TOOL_CTX[c] = v]
    BY <1>2 DEF carrier_inc
  <2> QED
    BY <2>1, <2>2, SetCtx
<1> QED
  BY <1>1, <1>2

(* carrier_dec, which ends the context with its last carrier, is steady.    *)
LEMMA CarrierDec ==
  ASSUME NEW m \in MapsType, NEW c \in CtxOrNull
  PROVE  Steady(m, carrier_dec(m, c))
<1> DEFINE x == m.TOOL_CTX[c]
           v == [x EXCEPT !.carrier_count = @ - 1]
           e == [m.events[c] EXCEPT !.context_end = @ + 1]
<1>1. CASE ~ctx_is_live(m, c)
  BY <1>1 DEF carrier_dec, Steady
<1>2. CASE ctx_is_live(m, c)
  <2>1. c \in CtxIds /\ x \in ToolCtx
    BY <1>2, LiveType
  <2>2. CASE x.carrier_count > 1
    <3>1. v \in ToolCtx
      BY <2>1, <2>2 DEF ToolCtx
    <3>2. carrier_dec(m, c) = [m EXCEPT !.TOOL_CTX[c] = v]
      BY <1>2, <2>2 DEF carrier_dec
    <3> QED
      BY <2>1, <3>1, <3>2, SetCtx
  <2>3. CASE ~(x.carrier_count > 1)
    <3>1. e \in EventCounts
      <4>1. m.events[c] \in EventCounts
        BY <2>1, MapsFields
      <4> QED
        BY <4>1 DEF EventCounts
    <3>2. carrier_dec(m, c) = [m EXCEPT !.TOOL_CTX[c] = NULL, !.events[c] = e]
      BY <1>2, <2>3 DEF carrier_dec
    <3> HIDE DEF e, x, v
    <3>3. Steady(m, [m EXCEPT !.TOOL_CTX[c] = NULL, !.events[c] = e])
      BY <2>1, <3>1, EndCtx, Zenon
    <3> QED
      BY <3>2, <3>3, Zenon
  <2> QED
    BY <2>2, <2>3
<1> QED
  BY <1>1, <1>2

(* Emitting a start event is steady.                                        *)
LEMMA EmitStart ==
  ASSUME NEW m \in MapsType, NEW c \in CtxIds
  PROVE  Steady(m, emit_start(m, c))
<1> DEFINE e == [m.events[c] EXCEPT !.start = @ + 1]
<1>1. e \in EventCounts
  <2>1. m.events[c] \in EventCounts
    BY MapsFields
  <2> QED
    BY <2>1 DEF EventCounts
<1>2. emit_start(m, c) = [m EXCEPT !.events[c] = e]
  BY DEF emit_start
<1> QED
  BY <1>1, <1>2, SetEvents

(* Emitting a frame end event is steady.                                    *)
LEMMA EmitFrameEnd ==
  ASSUME NEW m \in MapsType, NEW c \in CtxIds
  PROVE  Steady(m, emit_frame_end(m, c))
<1> DEFINE e == [m.events[c] EXCEPT !.frame_end = @ + 1]
<1>1. e \in EventCounts
  <2>1. m.events[c] \in EventCounts
    BY MapsFields
  <2> QED
    BY <2>1 DEF EventCounts
<1>2. emit_frame_end(m, c) = [m EXCEPT !.events[c] = e]
  BY DEF emit_frame_end
<1> QED
  BY <1>1, <1>2, SetEvents

(* What ends the carrier of a frame: the event, then the count.             *)
LEMMA EndCarrier ==
  ASSUME NEW m \in MapsType, NEW c \in CtxIds
  PROVE  Steady(m, carrier_dec(emit_frame_end(m, c), c))
<1>1. Steady(m, emit_frame_end(m, c))
  BY EmitFrameEnd
<1>2. Steady(emit_frame_end(m, c), carrier_dec(emit_frame_end(m, c), c))
  BY <1>1, CarrierDec DEF Steady, CtxOrNull
<1> QED
  BY <1>1, <1>2, SteadyTrans

-----------------------------------------------------------------------------
(* Stacks.                                                                  *)

(* A push that the depth check lets through keeps a stack in its bound.     *)
LEMMA StackAppend ==
  ASSUME NEW S, NEW s \in Stack(S), NEW e \in S, ~(Len(s) >= MaxDepth)
  PROVE  Append(s, e) \in Stack(S)
BY BoundsAssumption DEF Stack

(* A stack has at most 8 slots.                                             *)
LEMMA StackLen ==
  ASSUME NEW S, NEW s \in Stack(S)
  PROVE  Len(s) \in 0..8 /\ Len(s) <= 8
<1>1. Len(s) \in Nat /\ Len(s) <= MaxDepth
  BY DEF Stack
<1>2. \A n \in Nat : n <= MaxDepth => n \in 0..8 /\ n <= 8
  BY BoundsAssumption
<1> QED
  BY <1>1, <1>2, Zenon

(* Removing an element keeps a stack in its bound.                          *)
LEMMA StackRemoveAt ==
  ASSUME NEW S, NEW s \in Stack(S), NEW i \in 1..Len(s)
  PROVE  RemoveAt(s, i) \in Stack(S) /\ s[i] \in S
<1>1. RemoveAt(s, i) \in Seq(S) /\ Len(RemoveAt(s, i)) = Len(s) - 1
  BY RemoveAtType DEF Stack
<1> QED
  BY <1>1, BoundsAssumption DEF Stack

(* Removing the first match of a scan keeps a stack in its bound.           *)
LEMMA StackRemoveFirst ==
  ASSUME NEW S, NEW s \in Stack(S), NEW e, Contains(s, e)
  PROVE  RemoveFirst(s, e) \in Stack(S)
<1>1. RemoveFirst(s, e) \in Seq(S) /\ Len(RemoveFirst(s, e)) = Len(s) - 1
  BY RemoveFirstType, BoundsAssumption DEF Stack
<1> QED
  BY <1>1, BoundsAssumption DEF Stack

(* A pop keeps a stack in its bound.                                        *)
LEMMA StackFront ==
  ASSUME NEW S, NEW s \in Stack(S), s # <<>>
  PROVE  /\ Front(s) \in Stack(S)
         /\ Len(Front(s)) = Len(s) - 1
         /\ Last(s) \in S
<1>1. Front(s) \in Seq(S) /\ Len(Front(s)) = Len(s) - 1 /\ Last(s) \in S
  BY FrontType DEF Stack
<1> QED
  BY <1>1, BoundsAssumption DEF Stack

(* The top of a context stack is a context, or NULL when it is empty.       *)
LEMMA TopType ==
  ASSUME NEW s \in Stack(CtxIds)
  PROVE  top_or_null(s) \in CtxOrNull
BY StackFront DEF top_or_null, CtxOrNull

(* ctx_stack_top yields a context or NULL.                                  *)
LEMMA CtxStackTop ==
  ASSUME NEW m \in MapsType, NEW tid \in Tids
  PROVE  ctx_stack_top(m, tid) \in CtxOrNull
<1>1. m.THREAD_CTX_STACK[tid] \in Stack(CtxIds)
  BY MapsFields
<1> QED
  BY <1>1, TopType DEF ctx_stack_top, CtxOrNull

(* Writing a bounded stack to THREAD_CTX_STACK is steady.                   *)
LEMMA SetCtxStack ==
  ASSUME NEW m \in MapsType, NEW tid \in Tids, NEW s \in Stack(CtxIds), NEW c \in CtxOrNull
  PROVE  Steady(m, [m EXCEPT !.THREAD_CTX_STACK[tid] = s, !.THREAD_ACTIVE_CTX[tid] = c])
BY Zenon DEF MapsType, Steady, CtxOrNull

(* ctx_stack_push, with its depth check, is steady.                         *)
LEMMA CtxStackPush ==
  ASSUME NEW m \in MapsType, NEW tid \in Tids, NEW c \in CtxIds
  PROVE  Steady(m, ctx_stack_push(m, tid, c))
<1> DEFINE s == Append(m.THREAD_CTX_STACK[tid], c)
<1>1. CASE ctx_stack_full(m, tid)
  BY <1>1 DEF ctx_stack_push, Steady
<1>2. CASE ~ctx_stack_full(m, tid)
  <2>1. s \in Stack(CtxIds)
    BY <1>2, MapsFields, StackAppend DEF ctx_stack_full
  <2>2. ctx_stack_push(m, tid, c) =
          [m EXCEPT !.THREAD_CTX_STACK[tid] = s, !.THREAD_ACTIVE_CTX[tid] = c]
    BY <1>2 DEF ctx_stack_push
  <2> HIDE DEF s
  <2>3. Steady(m, [m EXCEPT !.THREAD_CTX_STACK[tid] = s, !.THREAD_ACTIVE_CTX[tid] = c])
    BY <2>1, SetCtxStack, Zenon DEF CtxOrNull
  <2> QED
    BY <2>2, <2>3, Zenon
<1> QED
  BY <1>1, <1>2

(* ctx_stack_remove, which also resets the active context, is steady.       *)
LEMMA CtxStackRemove ==
  ASSUME NEW m \in MapsType, NEW tid \in Tids, NEW c
  PROVE  Steady(m, ctx_stack_remove(m, tid, c))
<1> DEFINE s == RemoveFirst(m.THREAD_CTX_STACK[tid], c)
           t == top_or_null(s)
<1>1. CASE ~Contains(m.THREAD_CTX_STACK[tid], c)
  BY <1>1 DEF ctx_stack_remove, Steady
<1>2. CASE Contains(m.THREAD_CTX_STACK[tid], c)
  <2>1. s \in Stack(CtxIds)
    BY <1>2, MapsFields, StackRemoveFirst
  <2>2. t \in CtxOrNull
    BY <2>1, TopType
  <2>3. ctx_stack_remove(m, tid, c) =
          [m EXCEPT !.THREAD_CTX_STACK[tid] = s, !.THREAD_ACTIVE_CTX[tid] = t]
    BY <1>2 DEF ctx_stack_remove
  <2> HIDE DEF s, t
  <2>4. Steady(m, [m EXCEPT !.THREAD_CTX_STACK[tid] = s, !.THREAD_ACTIVE_CTX[tid] = t])
    BY <2>1, <2>2, Zenon DEF MapsType, Steady, CtxOrNull
  <2> QED
    BY <2>3, <2>4, Zenon
<1> QED
  BY <1>1, <1>2

(* The helpers of the task stack.  Their results satisfy MapsOK again.      *)
LEMMA TaskCtxPush ==
  ASSUME NEW m, MapsOK(m), NEW tid \in Tids, NEW task \in Tasks, NEW c \in CtxIds
  PROVE  Grows(m, task_ctx_push(m, tid, task, c), 0)
<1> DEFINE s == Append(m.TASK_CTX_STACK[task], c)
           r == [m EXCEPT !.TASK_CTX_STACK[task] = s, !.TASK_CTX[task] = c,
                          !.THREAD_ACTIVE_CTX[tid] = c]
<1>0. m \in MapsType
  BY DEF MapsOK
<1>1. CASE m.TASK_CTX[task] = c
  BY <1>0, <1>1, SetActive, SteadyGrows DEF task_ctx_push, CtxOrNull
<1>2. CASE m.TASK_CTX[task] # c /\ task_ctx_full(m, task)
  <2>1. task_ctx_push(m, tid, task, c) = m
    BY <1>2 DEF task_ctx_push
  <2> QED
    BY <1>0, <2>1, SteadyGrows DEF Steady
<1>3. CASE m.TASK_CTX[task] # c /\ ~task_ctx_full(m, task)
  <2>1. s \in Stack(CtxIds) /\ top_or_null(s) = c
    <3>1. m.TASK_CTX_STACK[task] \in Stack(CtxIds)
      BY <1>0, MapsFields
    <3>2. s \in Stack(CtxIds)
      BY <1>3, <3>1, StackAppend DEF task_ctx_full
    <3>3. s # <<>> /\ Last(s) = c
      BY <3>1 DEF Stack, Last
    <3> QED
      BY <3>2, <3>3 DEF top_or_null
  <2>2. task_ctx_push(m, tid, task, c) = carrier_inc(r, c)
    BY <1>3 DEF task_ctx_push
  <2> HIDE DEF s
  <2>3. /\ r \in MapsType
        /\ r.CTX_COUNTER = m.CTX_COUNTER
        /\ r.RESOLVER_EVENTS = m.RESOLVER_EVENTS
        /\ r.TASK_CTX = [m.TASK_CTX EXCEPT ![task] = c]
        /\ r.TASK_CTX_STACK = [m.TASK_CTX_STACK EXCEPT ![task] = s]
    BY <1>0, <2>1, Zenon DEF MapsType
  <2> HIDE DEF r
  <2>4. MapsOK(r)
    <3> SUFFICES ASSUME NEW k \in Tasks
                 PROVE  r.TASK_CTX[k] = top_or_null(r.TASK_CTX_STACK[k])
      BY <2>3 DEF MapsOK
    <3>1. /\ m.TASK_CTX \in [Tasks -> CtxOrNull]
          /\ m.TASK_CTX_STACK \in [Tasks -> Stack(CtxIds)]
          /\ m.TASK_CTX[k] = top_or_null(m.TASK_CTX_STACK[k])
      BY <1>0, MapsFields DEF MapsOK
    <3> QED
      BY <2>1, <2>3, <3>1
  <2>5. Grows(m, r, 0)
    BY <1>0, <2>3, <2>4, MapsFields DEF Grows
  <2>6. Grows(r, carrier_inc(r, c), 0)
    BY <2>3, <2>4, CarrierInc, SteadyGrows DEF CtxOrNull
  <2> QED
    BY <2>2, <2>5, <2>6, KeepsTrans
<1> QED
  BY <1>1, <1>2, <1>3

(* task_ctx_remove keeps TASK_CTX the top of the stack it removes from.     *)
LEMMA TaskCtxRemove ==
  ASSUME NEW m, MapsOK(m), NEW tid \in Tids, NEW task \in Tasks, NEW c \in CtxIds
  PROVE  Grows(m, task_ctx_remove(m, tid, task, c), 0)
<1> DEFINE s == RemoveFirst(m.TASK_CTX_STACK[task], c)
           t == top_or_null(s)
           r == [m EXCEPT !.TASK_CTX_STACK[task] = s, !.TASK_CTX[task] = t,
                          !.THREAD_ACTIVE_CTX[tid] = t]
<1>0. m \in MapsType
  BY DEF MapsOK
<1>1. CASE ~Contains(m.TASK_CTX_STACK[task], c)
  <2>1. task_ctx_remove(m, tid, task, c) = m
    BY <1>1 DEF task_ctx_remove
  <2> QED
    BY <1>0, <2>1, SteadyGrows DEF Steady
<1>2. CASE Contains(m.TASK_CTX_STACK[task], c)
  <2>1. s \in Stack(CtxIds) /\ t \in CtxOrNull
    BY <1>0, <1>2, MapsFields, StackRemoveFirst, TopType
  <2>2. task_ctx_remove(m, tid, task, c) = carrier_dec(r, c)
    BY <1>2 DEF task_ctx_remove
  <2>3. t = top_or_null(s)
    OBVIOUS
  <2> HIDE DEF s, t
  <2>4. /\ r \in MapsType
        /\ r.CTX_COUNTER = m.CTX_COUNTER
        /\ r.RESOLVER_EVENTS = m.RESOLVER_EVENTS
        /\ r.TASK_CTX = [m.TASK_CTX EXCEPT ![task] = t]
        /\ r.TASK_CTX_STACK = [m.TASK_CTX_STACK EXCEPT ![task] = s]
    BY <1>0, <2>1, Zenon DEF MapsType, CtxOrNull
  <2> HIDE DEF r
  <2>5. MapsOK(r)
    <3> SUFFICES ASSUME NEW k \in Tasks
                 PROVE  r.TASK_CTX[k] = top_or_null(r.TASK_CTX_STACK[k])
      BY <2>4 DEF MapsOK
    <3>1. /\ m.TASK_CTX \in [Tasks -> CtxOrNull]
          /\ m.TASK_CTX_STACK \in [Tasks -> Stack(CtxIds)]
          /\ m.TASK_CTX[k] = top_or_null(m.TASK_CTX_STACK[k])
      BY <1>0, MapsFields DEF MapsOK
    <3> QED
      BY <2>3, <2>4, <3>1
  <2>6. Grows(m, r, 0)
    BY <1>0, <2>4, <2>5, MapsFields DEF Grows
  <2>7. Grows(r, carrier_dec(r, c), 0)
    BY <2>4, <2>5, CarrierDec, SteadyGrows DEF CtxOrNull
  <2> QED
    BY <2>2, <2>6, <2>7, KeepsTrans
<1> QED
  BY <1>1, <1>2

-----------------------------------------------------------------------------
(* TOOL_STACK and parked closes.                                            *)

(* What tool_stack_push stores is a tool stack entry.                       *)
LEMMA EntryType ==
  ASSUME NEW c \in CtxIds, NEW f \in Frames, NEW p \in ParentPtrs,
         NEW tool \in ToolIds \cup {TOOL_IDLE}
  PROVE  entry(c, f, p, tool) \in ToolStackEntry
BY DEF entry, ToolStackEntry

(* Writing a bounded stack to TOOL_STACK is steady.                         *)
LEMMA SetToolStack ==
  ASSUME NEW m \in MapsType, NEW tid \in Tids, NEW s \in Stack(ToolStackEntry)
  PROVE  Steady(m, [m EXCEPT !.TOOL_STACK[tid] = s])
BY Zenon DEF MapsType, Steady

(* tool_stack_push, with its depth check, is steady.                        *)
LEMMA ToolStackPush ==
  ASSUME NEW m \in MapsType, NEW tid \in Tids, NEW e \in ToolStackEntry
  PROVE  Steady(m, tool_stack_push(m, tid, e))
<1> DEFINE s == Append(m.TOOL_STACK[tid], e)
<1>1. CASE Len(m.TOOL_STACK[tid]) >= MaxDepth
  BY <1>1 DEF tool_stack_push, Steady
<1>2. CASE ~(Len(m.TOOL_STACK[tid]) >= MaxDepth)
  <2>1. s \in Stack(ToolStackEntry)
    BY <1>2, MapsFields, StackAppend
  <2>2. tool_stack_push(m, tid, e) = [m EXCEPT !.TOOL_STACK[tid] = s]
    BY <1>2 DEF tool_stack_push
  <2> HIDE DEF s
  <2> QED
    BY <2>1, <2>2, SetToolStack
<1> QED
  BY <1>1, <1>2

(* The search operators return an index of the stack or 0.                  *)
LEMMA FindCtx ==
  ASSUME NEW m \in MapsType, NEW tid \in Tids, NEW c
  PROVE  find_ctx(m, tid, c) \in 0..Len(m.TOOL_STACK[tid])
<1> DEFINE s == m.TOOL_STACK[tid]
           I == {i \in 1..Len(s) : s[i].ctx_id = c}
<1>1. Len(s) \in 0..8
  BY MapsFields, StackLen, Zenon
<1>2. find_ctx(m, tid, c) = IF I = {} THEN 0 ELSE Min(I)
  BY DEF find_ctx, SelectInSeq
<1>3. I \subseteq 0..Len(s)
  BY <1>1
<1> HIDE DEF I
<1> QED
  BY <1>1, <1>2, <1>3, MinOrZero, Zenon

(* find_frame_ctx yields a position of the tool stack or 0.                 *)
LEMMA FindFrameCtx ==
  ASSUME NEW m \in MapsType, NEW tid \in Tids, NEW f, NEW c
  PROVE  find_frame_ctx(m, tid, f, c) \in 0..Len(m.TOOL_STACK[tid])
<1> DEFINE s == m.TOOL_STACK[tid]
           I == {i \in 1..Len(s) : s[i].frame_ptr = f /\ s[i].ctx_id = c}
<1>1. Len(s) \in 0..8
  BY MapsFields, StackLen, Zenon
<1>2. find_frame_ctx(m, tid, f, c) = IF I = {} THEN 0 ELSE Min(I)
  BY DEF find_frame_ctx, SelectInSeq
<1>3. I \subseteq 0..Len(s)
  BY <1>1
<1> HIDE DEF I
<1> QED
  BY <1>1, <1>2, <1>3, MinOrZero, Zenon

(* find_frame_parent yields a position of the tool stack or 0.              *)
LEMMA FindFrameParent ==
  ASSUME NEW m \in MapsType, NEW tid \in Tids, NEW f, NEW p
  PROVE  find_frame_parent(m, tid, f, p) \in 0..Len(m.TOOL_STACK[tid])
<1> DEFINE s == m.TOOL_STACK[tid]
           I == {i \in 1..Len(s) : s[i].frame_ptr = f /\ s[i].parent_ptr = p}
<1>1. Len(s) \in 0..8
  BY MapsFields, StackLen, Zenon
<1>2. find_frame_parent(m, tid, f, p) = IF I = {} THEN 0 ELSE Min(I)
  BY DEF find_frame_parent, SelectInSeq
<1>3. I \subseteq 0..Len(s)
  BY <1>1
<1> HIDE DEF I
<1> QED
  BY <1>1, <1>2, <1>3, MinOrZero, Zenon

(* tool_stack_remove_at is steady at any position of the stack.             *)
LEMMA ToolStackRemoveAt ==
  ASSUME NEW m \in MapsType, NEW tid \in Tids, NEW i \in 0..Len(m.TOOL_STACK[tid])
  PROVE  /\ Steady(m, tool_stack_remove_at(m, tid, i))
         /\ i # 0 => m.TOOL_STACK[tid][i] \in ToolStackEntry
<1> DEFINE s == RemoveAt(m.TOOL_STACK[tid], i)
<1>1. CASE i = 0
  BY <1>1 DEF tool_stack_remove_at, Steady
<1>2. CASE i # 0
  <2>1. m.TOOL_STACK[tid] \in Stack(ToolStackEntry)
    BY MapsFields
  <2>2. i \in 1..Len(m.TOOL_STACK[tid])
    BY <1>2, <2>1 DEF Stack
  <2>3. s \in Stack(ToolStackEntry) /\ m.TOOL_STACK[tid][i] \in ToolStackEntry
    BY <2>1, <2>2, StackRemoveAt
  <2>4. tool_stack_remove_at(m, tid, i) = [m EXCEPT !.TOOL_STACK[tid] = s]
    BY <1>2 DEF tool_stack_remove_at
  <2> HIDE DEF s
  <2> QED
    BY <2>3, <2>4, SetToolStack
<1> QED
  BY <1>1, <1>2

(* tool_stack_refresh is steady.                                            *)
LEMMA ToolStackRefresh ==
  ASSUME NEW m \in MapsType, NEW tid \in Tids, NEW e \in ToolStackEntry
  PROVE  Steady(m, tool_stack_refresh(m, tid, e))
<1> DEFINE i == find_frame_ctx(m, tid, e.frame_ptr, e.ctx_id)
           s == ReplaceAt(m.TOOL_STACK[tid], i, e)
<1>1. i \in 0..Len(m.TOOL_STACK[tid])
  BY FindFrameCtx
<1>2. CASE i = 0
  BY <1>2, ToolStackPush DEF tool_stack_refresh
<1>3. CASE i # 0
  <2>1. m.TOOL_STACK[tid] \in Stack(ToolStackEntry)
    BY MapsFields
  <2>2. i \in 1..Len(m.TOOL_STACK[tid])
    BY <1>1, <1>3, <2>1 DEF Stack
  <2>3. tool_stack_refresh(m, tid, e) = [m EXCEPT !.TOOL_STACK[tid] = s]
    BY <1>3 DEF tool_stack_refresh
  <2> HIDE DEF i
  <2>4. s \in Stack(ToolStackEntry)
    BY <2>1, <2>2 DEF Stack, ReplaceAt
  <2> HIDE DEF s
  <2> QED
    BY <2>3, <2>4, SetToolStack
<1> QED
  BY <1>2, <1>3

(* Closing a tool root.                                                     *)
LEMMA ClearFrame ==
  ASSUME NEW m \in MapsType, NEW f \in Frames, NEW c \in CtxIds \cup {NULL}
  PROVE  Steady(m, [m EXCEPT !.FRAME_CTX[f] = c])
BY Zenon DEF MapsType, Steady

(* finish_tool_close is steady.                                             *)
LEMMA FinishToolClose ==
  ASSUME NEW m \in MapsType, NEW tid \in Tids, NEW e \in ToolStackEntry
  PROVE  Steady(m, finish_tool_close(m, tid, e))
<1> DEFINE m1 == [m EXCEPT !.FRAME_CTX[e.frame_ptr] = NULL]
           m2 == ctx_stack_remove(m1, tid, e.ctx_id)
           m3 == emit_frame_end(m2, e.ctx_id)
           m4 == carrier_dec(m3, e.ctx_id)
<1>1. e.frame_ptr \in Frames /\ e.ctx_id \in CtxIds
  BY DEF ToolStackEntry
<1>2. finish_tool_close(m, tid, e) = IF m.FRAME_CTX[e.frame_ptr] # e.ctx_id THEN m ELSE m4
  BY DEF finish_tool_close
<1>3. Steady(m, m)
  BY DEF Steady
<1>4. Steady(m, m1)
  BY <1>1, ClearFrame, Zenon
<1> HIDE DEF m1
<1>5. Steady(m1, m2)
  BY <1>1, <1>4, CtxStackRemove DEF Steady
<1> HIDE DEF m2
<1>6. Steady(m2, m3)
  BY <1>1, <1>5, EmitFrameEnd DEF Steady
<1> HIDE DEF m3
<1>7. Steady(m3, m4)
  BY <1>1, <1>6, CarrierDec DEF Steady, CtxOrNull
<1> HIDE DEF m4
<1>8. Steady(m, m4)
  BY <1>4, <1>5, <1>6, <1>7 DEF Steady
<1> QED
  BY <1>2, <1>3, <1>8

(* Writing one pending close is steady.                                     *)
LEMMA SetPending ==
  ASSUME NEW m \in MapsType, NEW k \in Tasks, NEW i \in Slots, NEW e \in ToolStackEntry \cup {NULL}
  PROVE  Steady(m, [m EXCEPT !.PENDING_TOOL_CLOSE[k][i] = e])
BY Zenon DEF MapsType, Steady

(* defer_tool_close is steady.                                              *)
LEMMA DeferToolClose ==
  ASSUME NEW m \in MapsType, NEW k \in Tasks, NEW e \in ToolStackEntry
  PROVE  Steady(m, defer_tool_close(m, k, e))
<1> DEFINE depth == Len(m.TASK_CTX_STACK[k])
           slot == IF depth = 0 THEN 0 ELSE depth - 1
           parked == [m EXCEPT !.PENDING_TOOL_CLOSE[k][slot] = e]
           c == e.ctx_id
           v == [m.TOOL_CTX[c] EXCEPT !.seen = TRUE]
<1>1. depth \in 0..MaxDepth
  BY MapsFields, BoundsAssumption DEF Stack
<1>2. slot \in Slots
  BY <1>1, BoundsAssumption DEF Slots
<1>3. c \in CtxIds
  BY DEF ToolStackEntry
<1>4. Steady(m, parked)
  <2> HIDE DEF slot
  <2> QED BY <1>2, SetPending
<1>5. parked.TOOL_CTX = m.TOOL_CTX
  BY Zenon DEF MapsType
<1>6. CASE ~ctx_is_live(m, c)
  BY <1>4, <1>6 DEF defer_tool_close
<1>7. CASE ctx_is_live(m, c)
  <2>1. v \in ToolCtx
    <3>1. m.TOOL_CTX[c] \in ToolCtx
      BY <1>3, <1>7, LiveType DEF CtxOrNull
    <3> QED BY <3>1, Zenon DEF ToolCtx
  <2>2. defer_tool_close(m, k, e) = [parked EXCEPT !.TOOL_CTX[c] = v]
    BY <1>7, <1>5 DEF defer_tool_close
  <2> HIDE DEF v, parked
  <2>3. Steady(parked, [parked EXCEPT !.TOOL_CTX[c] = v])
    BY <2>1, <1>3, <1>4, SetCtx DEF Steady
  <2> QED
    BY <2>2, <2>3, <1>4, SteadyTrans
<1> QED
  BY <1>6, <1>7

(* cancel_deferred_tool_close is steady.                                    *)
LEMMA CancelDeferred ==
  ASSUME NEW m \in MapsType, NEW k \in Tasks, NEW c, NEW f
  PROVE  Steady(m, cancel_deferred_tool_close(m, k, c, f))
<1> DEFINE hits == {i \in Slots : /\ i < Len(m.TASK_CTX_STACK[k])
                                  /\ m.PENDING_TOOL_CLOSE[k][i] # NULL
                                  /\ m.PENDING_TOOL_CLOSE[k][i].ctx_id = c
                                  /\ m.PENDING_TOOL_CLOSE[k][i].frame_ptr = f}
           j == Min(hits)
<1>1. cancel_deferred_tool_close(m, k, c, f) =
        IF hits = {} THEN m ELSE [m EXCEPT !.PENDING_TOOL_CLOSE[k][j] = NULL]
  BY DEF cancel_deferred_tool_close
<1>2. hits \subseteq Slots
  OBVIOUS
<1> HIDE DEF hits
<1>3. ASSUME hits # {} PROVE j \in Slots
  <2>1. hits \subseteq 0..8
    BY <1>2, BoundsAssumption DEF Slots
  <2>2. Min(hits) \in hits
    BY <1>3, <2>1, MinIn, Zenon
  <2> QED
    BY <1>2, <2>2
<1> HIDE DEF j
<1>4. CASE hits = {}
  BY <1>1, <1>4 DEF Steady
<1>5. CASE hits # {}
  BY <1>1, <1>3, <1>5, SetPending
<1> QED
  BY <1>4, <1>5

(* A slot that is not empty holds an entry.                                 *)
LEMMA PendingType ==
  ASSUME NEW m \in MapsType, NEW k \in Tasks, NEW i \in pending_slots(m, k)
  PROVE  i \in Slots /\ m.PENDING_TOOL_CLOSE[k][i] \in ToolStackEntry
<1>1. m.PENDING_TOOL_CLOSE \in [Tasks -> [Slots -> ToolStackEntry \cup {NULL}]]
  BY MapsFields
<1>2. i \in Slots /\ m.PENDING_TOOL_CLOSE[k][i] # NULL
  BY DEF pending_slots
<1> QED
  BY <1>1, <1>2

(* The deepest slot of a set of pending closes is one of them.              *)
LEMMA MaxSlot ==
  ASSUME NEW S, S \subseteq Slots, S # {}
  PROVE  Max(S) \in S
<1>1. MaxDepth \in Nat /\ \A k \in S : k \in 0..MaxDepth /\ MaxDepth - k <= 8
  BY BoundsAssumption DEF Slots
<1> QED
  BY <1>1, MaxIn, Zenon

(* deferred_tool_ctx_for_worker yields a context or NULL.                   *)
LEMMA DeferredForWorker ==
  ASSUME NEW m \in MapsType, NEW k \in Tasks
  PROVE  deferred_tool_ctx_for_worker(m, k) \in CtxOrNull
<1> DEFINE live == {i \in pending_slots(m, k) : ctx_is_live(m, m.PENDING_TOOL_CLOSE[k][i].ctx_id)}
           j == Max(live)
<1>1. deferred_tool_ctx_for_worker(m, k) =
        IF live = {} THEN NULL ELSE m.PENDING_TOOL_CLOSE[k][j].ctx_id
  BY DEF deferred_tool_ctx_for_worker
<1>2. live \subseteq pending_slots(m, k)
  OBVIOUS
<1> HIDE DEF live
<1>3. ASSUME live # {} PROVE m.PENDING_TOOL_CLOSE[k][j] \in ToolStackEntry
  <2>1. live \subseteq Slots
    BY <1>2 DEF pending_slots
  <2>2. j \in live
    BY <1>3, <2>1, MaxSlot
  <2> QED
    BY <2>2, <1>2, PendingType
<1> HIDE DEF j
<1> QED
  BY <1>1, <1>3 DEF CtxOrNull, ToolStackEntry

(* A pending close that is restored is a tool stack entry.                  *)
LEMMA DeferredEntry ==
  ASSUME NEW m \in MapsType, NEW k \in Tasks, pending_slots(m, k) # {}
  PROVE  /\ Max(pending_slots(m, k)) \in pending_slots(m, k)
         /\ deferred_entry(m, k) \in ToolStackEntry
<1>1. pending_slots(m, k) \subseteq Slots
  BY DEF pending_slots
<1>2. Max(pending_slots(m, k)) \in pending_slots(m, k)
  BY <1>1, MaxSlot
<1> QED
  BY <1>2, PendingType DEF deferred_entry

(* Finishing the pending close of one slot keeps the task map consistent.   *)
LEMMA FinishPending ==
  ASSUME NEW m \in MapsType, NEW tid \in Tids, NEW k \in Tasks, NEW i \in pending_slots(m, k)
  PROVE  Steady(m, finish_pending(m, tid, k, i))
<1> DEFINE r == [m EXCEPT !.PENDING_TOOL_CLOSE[k][i] = NULL]
           e == m.PENDING_TOOL_CLOSE[k][i]
<1>1. finish_pending(m, tid, k, i) = finish_tool_close(r, tid, e)
  BY DEF finish_pending
<1>2. i \in Slots /\ e \in ToolStackEntry
  BY PendingType
<1>3. Steady(m, r)
  BY <1>2, SetPending, Zenon
<1> HIDE DEF r, e
<1>4. Steady(r, finish_tool_close(r, tid, e))
  BY <1>2, <1>3, FinishToolClose DEF Steady
<1> QED
  BY <1>1, <1>3, <1>4, SteadyTrans

(* finish_deferred_tool_close_at_depth keeps the task map consistent.       *)
LEMMA FinishAtDepth ==
  ASSUME NEW m \in MapsType, NEW tid \in Tids, NEW k \in Tasks, NEW i, NEW c
  PROVE  Steady(m, finish_deferred_tool_close_at_depth(m, tid, k, i, c))
<1>1. Steady(m, m)
  BY DEF Steady
<1> QED
  BY <1>1, FinishPending DEF finish_deferred_tool_close_at_depth

(* Clearing one slot in task_ctx_clear keeps the task map consistent.       *)
LEMMA ClearSlot ==
  ASSUME NEW m \in MapsType, NEW tid \in Tids, NEW k \in Tasks, NEW i
  PROVE  Steady(m, clear_slot(m, tid, k, i))
<1>1. Steady(m, m)
  BY DEF Steady
<1> QED
  BY <1>1, FinishPending DEF clear_slot

(* Writing the frame entry stash of a thread is steady.                     *)
LEMMA SetStash ==
  ASSUME NEW m \in MapsType, NEW tid \in Tids, NEW s \in Seq(Frames)
  PROVE  Steady(m, [m EXCEPT !.FRAME_ENTRY_STASH[tid] = s])
BY Zenon DEF MapsType, Steady

(* frame_stash_push is steady.                                              *)
LEMMA FrameStashPush ==
  ASSUME NEW m \in MapsType, NEW tid \in Tids, NEW f \in Frames
  PROVE  Steady(m, frame_stash_push(m, tid, f))
<1> DEFINE s == Append(m.FRAME_ENTRY_STASH[tid], f)
<1>1. s \in Seq(Frames)
  BY MapsFields
<1>2. frame_stash_push(m, tid, f) = [m EXCEPT !.FRAME_ENTRY_STASH[tid] = s]
  BY DEF frame_stash_push
<1> HIDE DEF s
<1> QED
  BY <1>1, <1>2, SetStash

(* frame_stash_pop is steady.                                               *)
LEMMA FrameStashPop ==
  ASSUME NEW m \in MapsType, NEW tid \in Tids
  PROVE  Steady(m, frame_stash_pop(m, tid))
<1> DEFINE q == m.FRAME_ENTRY_STASH[tid]
           s == Front(q)
<1>1. CASE q = <<>>
  BY <1>1 DEF frame_stash_pop, Steady
<1>2. CASE q # <<>>
  <2>1. q \in Seq(Frames)
    BY MapsFields
  <2>2. s \in Seq(Frames)
    BY <1>2, <2>1, FrontType, Zenon
  <2>3. frame_stash_pop(m, tid) = [m EXCEPT !.FRAME_ENTRY_STASH[tid] = s]
    BY <1>2 DEF frame_stash_pop
  <2> HIDE DEF s
  <2> QED
    BY <2>2, <2>3, SetStash
<1> QED
  BY <1>1, <1>2

-----------------------------------------------------------------------------
(* Clearing a task.  While the loop runs, TASK_CTX of the task is behind    *)
(* its stack; the stacks of other tasks are left alone, and after the turn  *)
(* for depth i the stack has at most i entries.                             *)

Clearing(m, r, k, n) ==
  /\ r \in MapsType
  /\ r.CTX_COUNTER = m.CTX_COUNTER
  /\ r.TASK_CTX = m.TASK_CTX
  /\ r.RESOLVER_EVENTS = m.RESOLVER_EVENTS
  /\ \A j \in Tasks \ {k} : r.TASK_CTX_STACK[j] = m.TASK_CTX_STACK[j]
  /\ Len(r.TASK_CTX_STACK[k]) <= n

(* Closing the tool root of a context is steady.                            *)
LEMMA CloseRoot ==
  ASSUME NEW m \in MapsType, NEW tid \in Tids, NEW c
  PROVE  Steady(m, close_root(m, tid, c))
<1> DEFINE n == find_ctx(m, tid, c)
           e == m.TOOL_STACK[tid][n]
           m0 == tool_stack_remove_at(m, tid, n)
           r == finish_tool_close(m0, tid, e)
<1>1. close_root(m, tid, c) = IF n = 0 THEN m ELSE r
  BY DEF close_root
<1>2. n \in 0..Len(m.TOOL_STACK[tid])
  BY FindCtx
<1> HIDE DEF n
<1>3. Steady(m, m0) /\ (n # 0 => e \in ToolStackEntry)
  BY <1>2, ToolStackRemoveAt
<1> HIDE DEF m0, e
<1>4. CASE n = 0
  BY <1>1, <1>4 DEF Steady
<1>5. CASE n # 0
  <2>1. Steady(m0, r)
    BY <1>3, <1>5, FinishToolClose DEF Steady
  <2> HIDE DEF r
  <2> QED
    BY <1>1, <1>3, <1>5, <2>1, SteadyTrans
<1> QED
  BY <1>4, <1>5

(* One turn of the loop of task_ctx_clear: nothing, or the pop of the top   *)
(* after its close.                                                         *)
Popped(r, k, i) ==
  [r EXCEPT !.TASK_CTX_STACK[k] = Front(r.TASK_CTX_STACK[k]), !.PENDING_TOOL_CLOSE[k][i] = NULL]

(* clear_top on a stack of another depth.                                   *)
LEMMA ClearTopSkips ==
  ASSUME NEW m, NEW tid, NEW k, NEW i, Len(m.TASK_CTX_STACK[k]) # i + 1
  PROVE  clear_top(m, tid, k, i) = m
BY Zenon DEF clear_top

(* clear_top on a stack of its depth.                                       *)
LEMMA ClearTopPops ==
  ASSUME NEW m, NEW tid, NEW k, NEW i, Len(m.TASK_CTX_STACK[k]) = i + 1,
         NEW c, c = Last(m.TASK_CTX_STACK[k]),
         NEW r, r = close_root(finish_deferred_tool_close_at_depth(m, tid, k, i, c), tid, c)
  PROVE  clear_top(m, tid, k, i) = carrier_dec(Popped(r, k, i), c)
BY Zenon DEF clear_top, Popped

(* Popping the top of a task stack keeps TASK_CTX its top.                  *)
LEMMA ClearTop ==
  ASSUME NEW m, NEW r, NEW tid \in Tids, NEW k \in Tasks, NEW i \in Nat,
         Clearing(m, r, k, i + 1)
  PROVE  Clearing(m, clear_top(r, tid, k, i), k, i)
<1> DEFINE q == r.TASK_CTX_STACK[k]
           c == Last(q)
           m1 == finish_deferred_tool_close_at_depth(r, tid, k, i, c)
           m2 == close_root(m1, tid, c)
           s == Front(q)
           m3 == [m2 EXCEPT !.TASK_CTX_STACK[k] = s, !.PENDING_TOOL_CLOSE[k][i] = NULL]
<1>1. r \in MapsType
  BY DEF Clearing
<1>2. q \in Stack(CtxIds) /\ Len(q) \in Nat /\ Len(q) <= i + 1 /\ Len(q) <= MaxDepth
  BY <1>1, MapsFields DEF Clearing, Stack
<1>3. CASE Len(q) # i + 1
  <2>1. clear_top(r, tid, k, i) = r
    BY <1>3, Zenon DEF clear_top
  <2>2. Len(q) <= i
    BY <1>2, <1>3
  <2> QED
    BY <2>1, <2>2 DEF Clearing
<1>4. CASE Len(q) = i + 1
  <2>1. q # <<>> /\ i \in Slots
    BY <1>2, <1>4, BoundsAssumption DEF Slots
  <2>2. c \in CtxIds /\ s \in Stack(CtxIds) /\ Len(s) = i
    BY <1>2, <1>4, <2>1, StackFront
  <2>3. Steady(r, m1)
    BY <1>1, FinishAtDepth
  <2>4. m1 \in MapsType
    BY <2>3 DEF Steady
  <2> HIDE DEF c, m1
  <2>7. Steady(m1, m2)
    BY <2>4, CloseRoot
  <2>8. Steady(r, m2)
    BY <2>3, <2>7, SteadyTrans
  <2>9. m2 \in MapsType /\ m2.TASK_CTX_STACK[k] = q
    BY <2>8 DEF Steady
  <2>10. clear_top(r, tid, k, i) = carrier_dec(m3, c)
    BY <1>4, <2>9 DEF clear_top, c, m1
  <2> HIDE DEF m2, s
  <2>11. m3 \in MapsType
    BY <2>1, <2>2, <2>9, Zenon DEF MapsType
  <2>12. /\ m3.CTX_COUNTER = m2.CTX_COUNTER /\ m3.TASK_CTX = m2.TASK_CTX
         /\ m3.RESOLVER_EVENTS = m2.RESOLVER_EVENTS
         /\ m3.TASK_CTX_STACK = [m2.TASK_CTX_STACK EXCEPT ![k] = s]
    BY <2>9, Zenon DEF MapsType
  <2> HIDE DEF m3
  <2>13. Steady(m3, carrier_dec(m3, c))
    BY <2>2, <2>11, CarrierDec DEF CtxOrNull
  <2>14. m2.TASK_CTX_STACK \in [Tasks -> Stack(CtxIds)]
    BY <2>9, MapsFields
  <2> QED
    BY <2>2, <2>8, <2>10, <2>12, <2>13, <2>14 DEF Clearing, Steady
<1> QED
  BY <1>3, <1>4

(* restore_deferred_tool_close is steady.                                   *)
LEMMA RestoreDeferred ==
  ASSUME NEW m, MapsOK(m), NEW tid \in Tids, NEW k \in Tasks
  PROVE  Grows(m, restore_deferred_tool_close(m, tid, k), 0)
<1> DEFINE i == Max(pending_slots(m, k))
           e == deferred_entry(m, k)
           c == e.ctx_id
           taken == [m EXCEPT !.PENDING_TOOL_CLOSE[k][i] = NULL]
           m1 == tool_stack_push(taken, tid, e)
           m2 == task_ctx_push(m1, tid, k, c)
<1>1. m \in MapsType
  BY DEF MapsOK
<1>2. restore_deferred_tool_close(m, tid, k) =
        IF pending_slots(m, k) = {} THEN m ELSE IF ~ctx_is_live(m, c) THEN taken ELSE m2
  BY DEF restore_deferred_tool_close
<1>3. CASE pending_slots(m, k) = {}
  <2>1. Steady(m, m)
    BY <1>1 DEF Steady
  <2> QED
    BY <1>2, <1>3, <2>1, SteadyGrows
<1>4. CASE pending_slots(m, k) # {}
  <2>1. i \in Slots /\ e \in ToolStackEntry
    BY <1>1, <1>4, DeferredEntry, Zenon DEF pending_slots
  <2>2. c \in CtxIds
    BY <2>1 DEF ToolStackEntry
  <2> HIDE DEF i, e, c
  <2>3. Steady(m, taken)
    BY <1>1, <2>1, SetPending
  <2> HIDE DEF taken
  <2>4. Steady(taken, m1)
    BY <2>1, <2>3, ToolStackPush DEF Steady
  <2> HIDE DEF m1
  <2>5. Grows(m, taken, 0) /\ Grows(m, m1, 0)
    BY <2>3, <2>4, SteadyTrans, SteadyGrows
  <2>6. Grows(m1, m2, 0)
    BY <2>2, <2>5, TaskCtxPush DEF Grows
  <2> HIDE DEF m2
  <2>7. Grows(m, m2, 0)
    BY <2>5, <2>6, KeepsTrans
  <2> QED
    BY <1>2, <1>4, <2>5, <2>7
<1> QED
  BY <1>3, <1>4

(* Doing nothing is steady (the early returns of the handlers).             *)
LEMMA SteadySelf ==
  ASSUME NEW m \in MapsType
  PROVE  Steady(m, m)
BY DEF Steady

(* reap_thread: dropping one context of the stack of a thread is steady.    *)
LEMMA ReapCtx ==
  ASSUME NEW m \in MapsType, NEW ctxs \in Stack(CtxIds), NEW i \in Nat \ {0}
  PROVE  Steady(m, reap_ctx(m, ctxs, i))
<1>1. CASE i > Len(ctxs)
  BY <1>1, SteadySelf DEF reap_ctx
<1>2. CASE ~(i > Len(ctxs))
  <2>1. ctxs[i] \in CtxIds
    BY <1>2 DEF Stack
  <2> QED
    BY <1>2, <2>1, EndCarrier DEF reap_ctx
<1> QED
  BY <1>1, <1>2
=============================================================================
