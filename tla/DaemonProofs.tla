---------------------------- MODULE DaemonProofs ----------------------------
(***************************************************************************)
(* What holds of the daemon for every policy, contract and traffic: first  *)
(* what the events in the rings and its tables say of each other after     *)
(* every step of the kernel and of the loop that reads the rings, then its *)
(* policy, hooks and ready file through failures, kills and restarts.      *)
(***************************************************************************)
EXTENDS Daemon, FiniteSetTheorems, WellFoundedInduction, TLAPS

-----------------------------------------------------------------------------
(* A name is in the table, or about to be put there: the daemon has just    *)
(* published the id and is on the way from TOOL_OBJ to the end of the       *)
(* candidate.                                                               *)
HasName(t) ==
  /\ t # TOOL_IDLE
  /\ t \in tool_name_table \/ (pc \in {"get_ctx", "insert_ctx"} /\ t = hand.tool)

ToolId == Tools \cup {TOOL_IDLE}
Candidate == [ctx : Ids \cup {NO_CTX}, tool : Tools]
GuardEvent == [ctx : Ids \cup {NO_CTX}, tool : ToolId, known : BOOLEAN, ts : Nat]
GuardRecord == [ctx : Ids \cup {NO_CTX}, ts : Nat, tool : ToolId, known : BOOLEAN,
                name : ToolId \cup {"unnamed"}]
CtxEntry == [tool : ToolId, error : BOOLEAN, carriers : Int]

IsRings(rings) == rings = [r \in {"py", "resolver", "guard"} |-> rings[r]]

NTypes ==
  /\ now \in Nat
  /\ tool_ctx \in [Ids -> SUBSET CtxEntry]
  /\ tool_obj \subseteq Tools
  /\ IsRings(ring)
  /\ ring.resolver \in Seq(Candidate)
  /\ ring.guard \in Seq(GuardEvent)
  /\ guard_events \in Seq(GuardRecord)
  /\ hand \in [ctx : Ids \cup {NO_CTX}, tool : ToolId, found : SUBSET CtxEntry]
  /\ pc \in {"get_ctx", "insert_ctx"} => hand.ctx \in Ids
  /\ pc = "insert_obj" => hand.tool # TOOL_IDLE

(* What the kernel shows of a tool has a name.                              *)
NInv ==
  /\ NTypes
  /\ \A t \in tool_obj : HasName(t)
  /\ \A c \in Ids : \A x \in tool_ctx[c] : x.tool # TOOL_IDLE => HasName(x.tool)
  /\ \A i \in DOMAIN ring.guard : ring.guard[i].known => HasName(ring.guard[i].tool)
  /\ NamesKnown

USE DEF NO_CTX

(* An empty kernel has no tools.                                            *)
LEMMA GoneNames == AuditGone => NInv'
<1> SUFFICES ASSUME AuditGone PROVE NInv'
  OBVIOUS
<1>1. NTypes'
  BY DEF AuditGone, NTypes, IsRings, ToolId, Nothing
<1> QED
  BY <1>1 DEF AuditGone, NInv, NamesKnown

(* The daemon starts with an empty kernel.                                  *)
LEMMA InitNames == AuditInit => NInv
<1> SUFFICES ASSUME AuditInit PROVE NInv
  OBVIOUS
<1>1. NTypes
  BY DEF AuditInit, NTypes, IsRings, ToolId, Nothing
<1> QED
  BY <1>1 DEF AuditInit, NInv, NamesKnown

(* An event in PY_EVENTS leaves the other rings alone.                      *)
LEMMA SubmitPy ==
  ASSUME NEW rings, IsRings(rings), NEW e
  PROVE  /\ IsRings(submitted(rings, "py", e))
         /\ submitted(rings, "py", e).resolver = rings.resolver
         /\ submitted(rings, "py", e).guard = rings.guard
BY Zenon DEF IsRings, submitted

(* So does a candidate, and RESOLVER_CANDIDATES holds candidates only.      *)
LEMMA SubmitResolver ==
  ASSUME NEW rings, IsRings(rings), rings.resolver \in Seq(Candidate), NEW e \in Candidate
  PROVE  /\ IsRings(submitted(rings, "resolver", e))
         /\ submitted(rings, "resolver", e).resolver \in Seq(Candidate)
         /\ submitted(rings, "resolver", e).guard = rings.guard
BY DEF IsRings, submitted

(* A new context has no tool or one from TOOL_OBJ.                          *)
LEMMA BeginNames ==
  ASSUME NInv, NEW c \in Ids, NEW t \in Tools, NEW h, Begin(c, t, h), UNCHANGED uvars
  PROVE  NInv'
<1> DEFINE start == submitted(ring, "py",
                      py_event(START, c, IF t \in tool_obj THEN t ELSE TOOL_IDLE))
<1>1. IsRings(start) /\ start.resolver = ring.resolver /\ start.guard = ring.guard
  BY SubmitPy DEF NInv, NTypes
<1>2. [ctx |-> c, tool |-> t] \in Candidate
  BY DEF Candidate
<1>3. \/ ring' = start
      \/ ring' = submitted(start, "resolver", [ctx |-> c, tool |-> t])
  BY DEF Begin
<1>4. IsRings(ring') /\ ring'.guard = ring.guard /\ ring'.resolver \in Seq(Candidate)
  <2> HIDE DEF start
  <2> QED
    BY <1>1, <1>2, <1>3, SubmitResolver DEF NInv, NTypes
<1>5. tool_ctx' \in [Ids -> SUBSET CtxEntry]
  BY DEF Begin, CtxEntry, ToolId, NInv, NTypes
<1>6. NTypes'
  BY <1>4, <1>5 DEF Begin, uvars, NInv, NTypes
<1>7. \A d \in Ids : \A x \in tool_ctx'[d] : x.tool # TOOL_IDLE => HasName(x.tool)'
  BY DEF Begin, uvars, HasName, NInv, NTypes
<1>8. /\ \A s \in tool_obj' : HasName(s)'
      /\ NamesKnown'
  BY DEF Begin, uvars, HasName, NInv, NamesKnown
<1>9. \A i \in DOMAIN ring.guard' : (ring.guard[i].known => HasName(ring.guard[i].tool))'
  BY <1>4 DEF uvars, HasName, NInv
<1> QED
  BY <1>6, <1>7, <1>8, <1>9 DEF NInv

(* A question about an object changes nothing that has a tool.              *)
LEMMA SpeculateNames ==
  ASSUME NInv, NEW t \in Tools, Speculate(t), UNCHANGED uvars
  PROVE  NInv'
<1>1. [ctx |-> NO_CTX, tool |-> t] \in Candidate
  BY DEF Candidate
<1>2. IsRings(ring') /\ ring'.guard = ring.guard /\ ring'.resolver \in Seq(Candidate)
  BY <1>1, SubmitResolver DEF Speculate, NInv, NTypes
<1>3. NTypes'
  BY <1>2 DEF Speculate, uvars, NInv, NTypes
<1> QED
  BY <1>2, <1>3 DEF Speculate, uvars, HasName, NamesKnown, NInv

(* Counting carriers leaves the tool of an entry alone.                     *)
LEMMA CarryNames ==
  ASSUME NInv, NEW c \in Ids, NEW h, Carry(c, h), UNCHANGED uvars
  PROVE  NInv'
<1> USE DEF NInv, NTypes
<1>1. /\ tool_ctx' \in [Ids -> SUBSET CtxEntry]
      /\ \A d \in Ids : \A x \in tool_ctx'[d] : \E y \in tool_ctx[d] : x.tool = y.tool
  BY DEF Carry, CtxEntry
<1> QED
  BY <1>1 DEF Carry, uvars, HasName, NamesKnown

(* A carrier lets a context go, and the context may end with it.            *)
LEMMA ReleaseNames ==
  ASSUME NInv, NEW c \in Ids, NEW h, Release(c, h), UNCHANGED uvars
  PROVE  NInv'
<1>1. \/ tool_ctx' = [tool_ctx EXCEPT ![c] = {}]
      \/ tool_ctx' = [tool_ctx EXCEPT ![c] = {[x EXCEPT !.carriers = @ - 1] : x \in @}]
  BY DEF Release
<1>2. /\ tool_ctx' \in [Ids -> SUBSET CtxEntry]
      /\ \A d \in Ids : \A x \in tool_ctx'[d] : \E y \in tool_ctx[d] : x.tool = y.tool
  <2>1. CASE tool_ctx' = [tool_ctx EXCEPT ![c] = {}]
    BY <2>1 DEF NInv, NTypes
  <2>2. CASE tool_ctx' = [tool_ctx EXCEPT ![c] = {[x EXCEPT !.carriers = @ - 1] : x \in @}]
    <3>1. \A x \in tool_ctx[c] : /\ [x EXCEPT !.carriers = @ - 1] \in CtxEntry
                                 /\ [x EXCEPT !.carriers = @ - 1].tool = x.tool
      BY DEF CtxEntry, NInv, NTypes
    <3>2. /\ tool_ctx'[c] = {[x EXCEPT !.carriers = @ - 1] : x \in tool_ctx[c]}
          /\ \A d \in Ids \ {c} : tool_ctx'[d] = tool_ctx[d]
          /\ tool_ctx' = [d \in Ids |-> tool_ctx'[d]]
      BY <2>2, Zenon DEF NInv, NTypes
    <3>3. tool_ctx'[c] \in SUBSET CtxEntry
      BY <3>1, <3>2
    <3>4. tool_ctx' \in [Ids -> SUBSET CtxEntry]
      BY <3>2, <3>3 DEF NInv, NTypes
    <3>5. ASSUME NEW d \in Ids, NEW x \in tool_ctx'[d]
          PROVE  \E y \in tool_ctx[d] : x.tool = y.tool
      <4>1. CASE d = c
        BY <3>1, <3>2, <4>1, Zenon
      <4>2. CASE d # c
        BY <3>2, <4>2
      <4> QED
        BY <4>1, <4>2
    <3> QED
      BY <3>4, <3>5
  <2> QED
    BY <1>1, <2>1, <2>2
<1>3. ring' = ring \/ \E e : ring' = submitted(ring, "py", e)
  BY DEF Release
<1>4. /\ IsRings(ring') /\ ring'.guard = ring.guard /\ ring'.resolver = ring.resolver
      /\ now' \in Nat
  BY <1>3, SubmitPy DEF Release, NInv, NTypes
<1>5. NTypes'
  BY <1>2, <1>4 DEF Release, uvars, NInv, NTypes
<1>6. \A t : HasName(t) <=> HasName(t)'
  BY DEF uvars, HasName
<1>7. \A d \in Ids : \A x \in tool_ctx'[d] : x.tool # TOOL_IDLE => HasName(x.tool)'
  BY <1>2, <1>6 DEF NInv
<1>8. tool_obj' = tool_obj /\ guard_events' = guard_events
  BY DEF Release, uvars
<1> QED
  BY <1>4, <1>5, <1>6, <1>7, <1>8 DEF NamesKnown, NInv

(* A hook reports what it finds in the context's entry.                     *)
LEMMA OperationNames ==
  ASSUME NInv, NEW c \in Ids, NEW h, NEW n \in Nat, Operation(c, h, n), UNCHANGED uvars
  PROVE  NInv'
<1>1. /\ guard_event(c) \in GuardEvent
      /\ guard_event(c).known => HasName(guard_event(c).tool)
  <2>1. CASE tool_ctx[c] = {}
    BY <2>1 DEF guard_event, GuardEvent, ToolId, NInv, NTypes
  <2>2. CASE tool_ctx[c] # {}
    <3> DEFINE x == CHOOSE x \in tool_ctx[c] : TRUE
    <3>1. x \in tool_ctx[c]
      BY <2>2
    <3>2. guard_event(c) = [ctx |-> c, tool |-> x.tool, known |-> ~x.error /\ x.tool # TOOL_IDLE,
                            ts |-> now + 1]
      BY <2>2 DEF guard_event
    <3> HIDE DEF x
    <3>3. x \in CtxEntry /\ (x.tool # TOOL_IDLE => HasName(x.tool))
      BY <3>1 DEF NInv, NTypes
    <3>4. guard_event(c) \in GuardEvent
      <4>1. x.tool \in ToolId /\ now + 1 \in Nat
        BY <3>3 DEF CtxEntry, NInv, NTypes
      <4> QED
        BY <3>2, <4>1 DEF GuardEvent
    <3>5. guard_event(c).tool = x.tool /\ (guard_event(c).known => x.tool # TOOL_IDLE)
      <4> DEFINE known == ~x.error /\ x.tool # TOOL_IDLE
      <4>1. guard_event(c) = [ctx |-> c, tool |-> x.tool, known |-> known, ts |-> now + 1]
        BY <3>2
      <4>2. known => x.tool # TOOL_IDLE
        OBVIOUS
      <4> HIDE DEF known
      <4>3. guard_event(c).tool = x.tool /\ guard_event(c).known = known
        BY <4>1
      <4> QED
        BY <4>2, <4>3, Zenon
    <3> QED
      BY <3>3, <3>4, <3>5
  <2> QED
    BY <2>1, <2>2
<1>2. PICK k \in 1..n : ring' = [ring EXCEPT !.guard = @ \o [i \in 1..k |-> guard_event(c)]]
  BY Zenon DEF Operation
<1> DEFINE new == [i \in 1..k |-> guard_event(c)]
<1>3. new \in Seq(GuardEvent) /\ Len(new) = k
  BY <1>1
<1>4. /\ IsRings(ring') /\ ring'.resolver = ring.resolver
      /\ ring'.guard = ring.guard \o new
  BY <1>2, Zenon DEF IsRings, NInv, NTypes
<1>5. ring'.guard \in Seq(GuardEvent)
  BY <1>3, <1>4 DEF NInv, NTypes
<1>6. \A i \in DOMAIN ring.guard' : ring'.guard[i] = guard_event(c)
                                   \/ (i \in DOMAIN ring.guard /\ ring'.guard[i] = ring.guard[i])
  BY <1>3, <1>4 DEF NInv, NTypes
<1>7. NTypes'
  BY <1>4, <1>5 DEF Operation, uvars, NInv, NTypes
<1>8. \A i \in DOMAIN ring.guard' : (ring.guard[i].known => HasName(ring.guard[i].tool))'
  BY <1>1, <1>6 DEF uvars, HasName, NInv
<1> QED
  BY <1>7, <1>8, Zenon DEF Operation, uvars, HasName, NamesKnown, NInv

(* A step that forgets no name, and moves events only out of the ring.      *)
LEMMA KeepsNames ==
  ASSUME NInv, NTypes', tool_ctx' = tool_ctx, guard_events' = guard_events,
         ring'.guard = ring.guard,
         \A t \in ToolId : HasName(t) => HasName(t)',
         \A t \in tool_obj' : t \in tool_obj \/ HasName(t)'
  PROVE  NInv'
<1>1. \A i \in DOMAIN ring.guard : ring.guard[i].tool \in ToolId
  <2>1. \A i \in DOMAIN ring.guard : ring.guard[i] \in GuardEvent
    BY DEF NInv, NTypes
  <2> QED
    BY <2>1 DEF GuardEvent
<1>2. \A c \in Ids : \A x \in tool_ctx[c] : x.tool \in ToolId
  BY DEF NInv, NTypes, CtxEntry
<1>3. \A t \in tool_obj : t \in ToolId
  BY DEF NInv, NTypes, ToolId
<1> QED
  BY <1>1, <1>2, <1>3 DEF NInv, NamesKnown

(* Reading PY_EVENTS, and going from one ring to the next.                  *)
LEMMA ScanNames ==
  ASSUME NInv,
         \/ Turn \/ LeaveLoop \/ ReadPyEvent
         \/ \E r, next \in {"py", "resolver", "guard", "top"} : Drained(r, next)
  PROVE  NInv'
<1>1. /\ tool_ctx' = tool_ctx /\ tool_obj' = tool_obj /\ guard_events' = guard_events
      /\ tool_name_table' = tool_name_table /\ hand' = hand /\ now' = now
      /\ {pc, pc'} \cap {"insert_obj", "get_ctx", "insert_ctx"} = {}
      /\ ring' = ring \/ ring' = [ring EXCEPT !["py"] = Tail(@)]
  BY DEF Turn, LeaveLoop, ReadPyEvent, Drained, Take, kvars, kvars_but_ring
<1>2. IsRings(ring') /\ ring'.guard = ring.guard /\ ring'.resolver = ring.resolver
  BY <1>1 DEF IsRings, NInv, NTypes
<1>3. NTypes'
  BY <1>1, <1>2, Zenon DEF NInv, NTypes
<1>4. \A t \in ToolId : HasName(t) => HasName(t)'
  BY <1>1, Zenon DEF HasName
<1> QED
  BY <1>1, <1>2, <1>3, <1>4, KeepsNames

(* The daemon takes a candidate in hand.                                    *)
LEMMA ReadCandidateNames ==
  ASSUME NInv, ReadCandidate
  PROVE  NInv'
<1> DEFINE e == Head(ring.resolver)
<1>1. /\ tool_ctx' = tool_ctx /\ tool_obj' = tool_obj /\ guard_events' = guard_events
      /\ tool_name_table' = tool_name_table /\ now' = now /\ pc = "resolver"
      /\ ring' = [ring EXCEPT !["resolver"] = Tail(@)]
      /\ ring.resolver # <<>>
  BY DEF ReadCandidate, Take, kvars_but_ring
<1>2. e \in Candidate /\ Tail(ring.resolver) \in Seq(Candidate)
  BY <1>1 DEF NInv, NTypes
<1>3. /\ IsRings(ring') /\ ring'.guard = ring.guard
      /\ ring'.resolver = Tail(ring.resolver)
  BY <1>1, Zenon DEF IsRings, NInv, NTypes
<1>4. \/ pc' = "insert_obj" /\ hand' = [ctx |-> e.ctx, tool |-> e.tool, found |-> {}]
      \/ pc' = "resolver" /\ hand' = Nothing
      \/ /\ pc' = "get_ctx" /\ e.ctx # NO_CTX
         /\ hand' = [ctx |-> e.ctx, tool |-> TOOL_IDLE, found |-> {}]
  BY DEF ReadCandidate
<1>5. NTypes'
  <2>1. e.ctx \in Ids \cup {NO_CTX} /\ e.tool \in Tools
    BY <1>2 DEF Candidate
  <2> HIDE DEF e
  <2>2. /\ hand' \in [ctx : Ids \cup {NO_CTX}, tool : ToolId, found : SUBSET CtxEntry]
        /\ pc' \in {"get_ctx", "insert_ctx"} => hand'.ctx \in Ids
        /\ pc' = "insert_obj" => hand'.tool # TOOL_IDLE
    BY <1>4, <2>1, AuditAssumption DEF Nothing, ToolId
  <2> QED
    BY <1>1, <1>2, <1>3, <2>2 DEF NInv, NTypes
<1>6. \A t \in ToolId : HasName(t) => HasName(t)'
  BY <1>1 DEF HasName
<1> QED
  BY <1>1, <1>3, <1>5, <1>6, KeepsNames

(* Done with a candidate, the daemon keeps the name it had in hand.         *)
LEMMA DoneNames ==
  ASSUME NInv, CandidateDone
  PROVE  /\ \A t \in ToolId : HasName(t) => HasName(t)'
         /\ \A t : t = hand.tool /\ t # TOOL_IDLE => HasName(t)'
BY DEF CandidateDone, HasName

(* TOOL_OBJ gets the id before the name is in the table.                    *)
LEMMA InsertObjNames ==
  ASSUME NInv, InsertObj
  PROVE  NInv'
<1>1. /\ tool_ctx' = tool_ctx /\ guard_events' = guard_events /\ ring' = ring /\ now' = now
      /\ pc = "insert_obj" /\ tool_obj' = tool_obj \cup {hand.tool}
      /\ \/ hand.ctx = NO_CTX /\ CandidateDone
         \/ /\ hand.ctx # NO_CTX /\ pc' = "get_ctx" /\ hand' = hand
            /\ tool_name_table' = tool_name_table
  BY DEF InsertObj
<1>2. hand.tool \in Tools /\ hand.tool # TOOL_IDLE
  BY <1>1 DEF NInv, NTypes, ToolId
<1>3. NTypes'
  BY <1>1, <1>2 DEF CandidateDone, Nothing, ToolId, NInv, NTypes
<1>4. /\ \A t \in ToolId : HasName(t) => HasName(t)'
      /\ \A t \in tool_obj' : t \in tool_obj \/ HasName(t)'
  BY <1>1, <1>2, DoneNames DEF HasName
<1> QED
  BY <1>1, <1>3, <1>4, KeepsNames

(* The context is read; when it has ended, the name is kept all the same.   *)
LEMMA GetCtxNames ==
  ASSUME NInv, GetCtx
  PROVE  NInv'
<1>1. /\ tool_ctx' = tool_ctx /\ guard_events' = guard_events /\ ring' = ring /\ now' = now
      /\ pc = "get_ctx" /\ tool_obj' = tool_obj
      /\ \/ CandidateDone
         \/ /\ pc' = "insert_ctx" /\ hand' = [hand EXCEPT !.found = tool_ctx[hand.ctx]]
            /\ tool_name_table' = tool_name_table
  BY DEF GetCtx, kvars
<1>2. NTypes'
  BY <1>1 DEF CandidateDone, Nothing, ToolId, NInv, NTypes
<1>3. \A t \in ToolId : HasName(t) => HasName(t)'
  <2>1. CASE CandidateDone
    BY <2>1, DoneNames
  <2>2. CASE hand' = [hand EXCEPT !.found = tool_ctx[hand.ctx]] /\ pc' = "insert_ctx"
             /\ tool_name_table' = tool_name_table
    <3>1. hand'.tool = hand.tool
      BY <2>2 DEF NInv, NTypes
    <3> QED
      BY <1>1, <2>2, <3>1 DEF HasName
  <2> QED
    BY <1>1, <2>1, <2>2
<1> QED
  BY <1>1, <1>2, <1>3, KeepsNames

(* The entry that is written back has no tool or the one in hand.           *)
LEMMA InsertCtxNames ==
  ASSUME NInv, InsertCtx
  PROVE  NInv'
<1> DEFINE back(x) == [x EXCEPT !.tool = hand.tool, !.error = @ \/ hand.tool = TOOL_IDLE]
<1>1. /\ guard_events' = guard_events /\ ring' = ring /\ now' = now /\ tool_obj' = tool_obj
      /\ CandidateDone
      /\ tool_ctx' = [tool_ctx EXCEPT ![hand.ctx] = {back(x) : x \in hand.found}]
  BY Zenon DEF InsertCtx
<1>2. hand.ctx \in Ids /\ hand.tool \in ToolId /\ hand.found \subseteq CtxEntry
  BY Zenon DEF InsertCtx, NInv, NTypes
<1>3. \A x \in CtxEntry : back(x) \in CtxEntry /\ back(x).tool = hand.tool
  BY <1>2, Zenon DEF CtxEntry
<1> HIDE DEF back
<1>4. /\ tool_ctx'[hand.ctx] = {back(x) : x \in hand.found}
      /\ \A c \in Ids \ {hand.ctx} : tool_ctx'[c] = tool_ctx[c]
      /\ tool_ctx' = [c \in Ids |-> tool_ctx'[c]]
  BY <1>1, <1>2, Zenon DEF NInv, NTypes
<1>5. \A x \in tool_ctx'[hand.ctx] : x \in CtxEntry /\ x.tool = hand.tool
  BY <1>2, <1>3, <1>4
<1>6. tool_ctx' \in [Ids -> SUBSET CtxEntry]
  BY <1>4, <1>5 DEF NInv, NTypes
<1>7. NTypes'
  BY <1>1, <1>6 DEF CandidateDone, Nothing, ToolId, NInv, NTypes
<1>8. \A c \in Ids : \A x \in tool_ctx'[c] : x.tool # TOOL_IDLE => HasName(x.tool)'
  <2>1. \A c \in Ids : \A x \in tool_ctx[c] : x.tool \in ToolId
    BY DEF NInv, NTypes, CtxEntry
  <2> QED
    BY <1>1, <1>4, <1>5, <2>1, DoneNames DEF NInv
<1>9. /\ \A i \in DOMAIN ring.guard : ring.guard[i].tool \in ToolId
      /\ tool_obj \subseteq ToolId
  <2>1. \A i \in DOMAIN ring.guard : ring.guard[i] \in GuardEvent
    BY DEF NInv, NTypes
  <2> QED
    BY <2>1 DEF NInv, NTypes, GuardEvent, ToolId
<1> QED
  BY <1>1, <1>7, <1>8, <1>9, DoneNames DEF NInv, NamesKnown

(* When a guard event is read the daemon has no candidate in hand, so that  *)
(* every name is in the table.                                              *)
LEMMA ReadGuardNames ==
  ASSUME NInv, ReadGuardEvent
  PROVE  NInv'
<1> DEFINE e == Head(ring.guard)
<1> DEFINE out == [ctx |-> e.ctx, ts |-> e.ts, tool |-> e.tool, known |-> e.known,
                   name |-> guard_tool_name(e)]
<1>1. /\ tool_ctx' = tool_ctx /\ tool_obj' = tool_obj /\ now' = now /\ hand' = hand
      /\ tool_name_table' = tool_name_table /\ pc = "guard" /\ pc' = "guard"
      /\ ring' = [ring EXCEPT !["guard"] = Tail(@)]
      /\ ring.guard # <<>>
      /\ guard_events' = Append(guard_events, out)
  BY DEF ReadGuardEvent, Take, kvars_but_ring
<1>2. /\ e \in GuardEvent /\ Tail(ring.guard) \in Seq(GuardEvent)
      /\ e = ring.guard[1] /\ 1 \in DOMAIN ring.guard
      /\ \A i \in DOMAIN Tail(ring.guard) :
           i + 1 \in DOMAIN ring.guard /\ Tail(ring.guard)[i] = ring.guard[i + 1]
  BY <1>1 DEF NInv, NTypes
<1>3. /\ IsRings(ring') /\ ring'.resolver = ring.resolver
      /\ ring'.guard = Tail(ring.guard)
  BY <1>1, Zenon DEF IsRings, NInv, NTypes
<1>4. e.known => HasName(e.tool)
  BY <1>2 DEF NInv
<1>5. out \in GuardRecord /\ (out.known => out.name = out.tool)
  <2>1. guard_tool_name(e) \in ToolId \cup {"unnamed"}
    BY <1>2 DEF guard_tool_name, GuardEvent, ToolId
  <2>2. e.known => guard_tool_name(e) = e.tool
    BY <1>1, <1>4 DEF guard_tool_name, HasName
  <2>3. out \in GuardRecord
    BY <1>2, <2>1 DEF GuardEvent, GuardRecord
  <2> QED
    BY <2>2, <2>3
<1> HIDE DEF out
<1>6. NTypes'
  BY <1>1, <1>2, <1>3, <1>5 DEF NInv, NTypes
<1>7. NamesKnown'
  BY <1>1, <1>5 DEF NInv, NTypes, NamesKnown
<1>8. \A t : HasName(t) <=> HasName(t)'
  BY <1>1 DEF HasName
<1>9. \A i \in DOMAIN ring.guard' : (ring.guard[i].known => HasName(ring.guard[i].tool))'
  BY <1>2, <1>3, <1>8 DEF NInv
<1> QED
  BY <1>1, <1>6, <1>7, <1>8, <1>9 DEF NInv

-----------------------------------------------------------------------------
(* The report.  What it computes from the events rests on what became of    *)
(* each event and of each context, in the kernel and in the rings.          *)

(* What was read of PY_EVENTS, and what waits in it.                        *)
stream == py_events \o ring.py

PyEvent == [kind : {START, END}, ctx : Ids, tool : ToolId, ts : Nat]

InStream(kind, c) == \E i \in DOMAIN stream : stream[i].kind = kind /\ stream[i].ctx = c
Sent(kind, c) == InStream(kind, c) \/ <<kind, c>> \in lost

RTypes ==
  /\ counter \in Nat
  /\ ring.py \in Seq(PyEvent) /\ py_events \in Seq(PyEvent)
  /\ holders = [c \in Ids |-> holders[c]] /\ \A c \in Ids : IsFiniteSet(holders[c])
  /\ ended \in [Ids -> SUBSET ToolId]
  /\ work \in [Ids -> SUBSET Tools]

(* No event is sent twice, and an end has the tool of the entry that ended. *)
StreamOK ==
  /\ \A i \in DOMAIN stream : stream[i].ts <= now
  /\ \A i, j \in DOMAIN stream :
       stream[i].kind = stream[j].kind /\ stream[i].ctx = stream[j].ctx => i = j
  /\ \A i \in DOMAIN stream : <<stream[i].kind, stream[i].ctx>> \notin lost
  /\ \A i \in DOMAIN stream : stream[i].kind = END => ended[stream[i].ctx] = {stream[i].tool}

(* The request for the tool of context c waits in RESOLVER_EVENTS or is in  *)
(* hand.  There is one at most, and an end of a context that is still in    *)
(* hand has not been read.                                                  *)
Queued(c) == \E i \in DOMAIN ring.resolver : ring.resolver[i].ctx = c
InHand(c) == pc \in {"insert_obj", "get_ctx", "insert_ctx"} /\ hand.ctx = c
RequestsOK ==
  /\ \A i, j \in DOMAIN ring.resolver :
       ring.resolver[i].ctx \in Ids /\ ring.resolver[i].ctx = ring.resolver[j].ctx => i = j
  /\ \A c \in Ids : ~(Queued(c) /\ InHand(c))
  /\ \A i \in DOMAIN ring.resolver :
       ring.resolver[i].ctx \in Ids => work[ring.resolver[i].ctx] = {ring.resolver[i].tool}
  /\ \A c \in Ids : InHand(c) /\ hand.tool # TOOL_IDLE => work[c] = {hand.tool}
  /\ pc = "insert_ctx" => \A i \in DOMAIN py_events : py_events[i].kind = END => py_events[i].ctx # hand.ctx

(* The life of a context.  Only a copy written back over a change puts the  *)
(* count out of step with the carriers, and the daemon brings no entry back *)
(* to a context that has a carrier left.                                    *)
Untouched(c) ==
  /\ holders[c] = {} /\ tool_ctx[c] = {} /\ ended[c] = {}
  /\ c \notin overwritten /\ ~Queued(c) /\ ~InHand(c) /\ ~Sent(START, c)
ContextOK(c) ==
  /\ c > counter => Untouched(c)
  /\ c <= counter => Sent(START, c)
  /\ ended[c] # {} <=> Sent(END, c)
  /\ ended[c] # {} => tool_ctx[c] = {} \/ holders[c] = {}
  /\ Queued(c) \/ InHand(c) => c \notin overwritten /\ (tool_ctx[c] # {} => ended[c] = {})
  /\ c \notin overwritten /\ ended[c] # {} => holders[c] = {}
  /\ c \notin overwritten /\ c <= counter /\ ended[c] = {} =>
       /\ holders[c] # {} /\ tool_ctx[c] # {}
       /\ \A x \in tool_ctx[c] : x.carriers = Cardinality(holders[c])
  /\ \A x \in tool_ctx[c] : x.tool # TOOL_IDLE => work[c] = {x.tool}
  /\ \A t \in ended[c] : t # TOOL_IDLE => work[c] = {t}

(* An operation is reported while its context lasts.                        *)
Within(g) ==
  g.ctx \in Ids =>
    /\ g.ctx <= counter /\ g.ts <= now
    /\ \A i \in DOMAIN stream : stream[i].ctx = g.ctx =>
         /\ stream[i].kind = START => stream[i].ts <= g.ts
         /\ stream[i].kind = END => g.ts <= stream[i].ts
GuardsOK ==
  /\ \A i \in DOMAIN ring.guard : Within(ring.guard[i])
  /\ \A i \in DOMAIN guard_events : Within(guard_events[i])

RInv == RTypes /\ StreamOK /\ RequestsOK /\ GuardsOK /\ \A c \in Ids : ContextOK(c)

(* An empty kernel has nothing to report.                                   *)
LEMMA GoneReport == AuditGone => RInv'
<1> SUFFICES ASSUME AuditGone PROVE RInv'
  OBVIOUS
<1>1. ring'.py = <<>> /\ ring'.resolver = <<>> /\ ring'.guard = <<>>
  BY DEF AuditGone
<1>2. stream' = <<>>
  BY <1>1 DEF AuditGone, stream
<1>3. RTypes'
  BY <1>1, FS_EmptySet DEF AuditGone, RTypes
<1>4. StreamOK' /\ GuardsOK'
  BY <1>1, <1>2 DEF AuditGone, StreamOK, GuardsOK
<1>5. RequestsOK'
  BY <1>1 DEF AuditGone, RequestsOK, Queued, InHand
<1>6. ASSUME NEW c \in Ids PROVE ContextOK(c)'
  <2>1. c \in Nat \ {0} /\ counter' = 0
    BY AuditAssumption DEF AuditGone
  <2>2. ~Sent(START, c)' /\ ~Sent(END, c)'
    BY <1>2 DEF AuditGone, Sent, InStream
  <2>3. ~Queued(c)' /\ ~InHand(c)'
    BY <1>1 DEF AuditGone, Queued, InHand
  <2> QED
    BY <2>1, <2>2, <2>3 DEF AuditGone, ContextOK, Untouched
<1> QED
  BY <1>3, <1>4, <1>5, <1>6 DEF RInv

(* The daemon starts with an empty kernel.                                  *)
LEMMA InitReport == AuditInit => RInv
<1> SUFFICES ASSUME AuditInit PROVE RInv
  OBVIOUS
<1>1. ring.py = <<>> /\ ring.resolver = <<>> /\ ring.guard = <<>>
  BY DEF AuditInit
<1>2. stream = <<>>
  BY <1>1 DEF AuditInit, stream
<1>3. RTypes
  BY <1>1, FS_EmptySet DEF AuditInit, RTypes
<1>4. StreamOK /\ GuardsOK
  BY <1>1, <1>2 DEF AuditInit, StreamOK, GuardsOK
<1>5. RequestsOK
  BY <1>1 DEF AuditInit, RequestsOK, Queued, InHand
<1>6. ASSUME NEW c \in Ids PROVE ContextOK(c)
  <2>1. c \in Nat \ {0} /\ counter = 0
    BY AuditAssumption DEF AuditInit
  <2>2. ~Sent(START, c) /\ ~Sent(END, c)
    BY <1>2 DEF AuditInit, Sent, InStream
  <2>3. ~Queued(c) /\ ~InHand(c)
    BY <1>1 DEF AuditInit, Queued, InHand
  <2> QED
    BY <2>1, <2>2, <2>3 DEF AuditInit, ContextOK, Untouched
<1> QED
  BY <1>3, <1>4, <1>5, <1>6 DEF RInv

(* The stream is a sequence of events: first those that were read.          *)
LEMMA StreamType ==
  ASSUME RTypes
  PROVE  /\ stream \in Seq(PyEvent)
         /\ Len(stream) = Len(py_events) + Len(ring.py)
         /\ DOMAIN stream = 1..Len(stream)
         /\ \A i \in DOMAIN py_events : i \in DOMAIN stream /\ stream[i] = py_events[i]
         /\ \A i \in DOMAIN ring.py : /\ Len(py_events) + i \in DOMAIN stream
                                      /\ stream[Len(py_events) + i] = ring.py[i]
BY DEF RTypes, stream

(* An event that finds room is the last of the stream.                      *)
LEMMA StreamAppend ==
  ASSUME RTypes, NEW e \in PyEvent, py_events' = py_events, ring'.py = Append(ring.py, e)
  PROVE  stream' = Append(stream, e)
BY DEF RTypes, stream

(* Reading moves the first waiting event and changes no order.              *)
LEMMA StreamRead ==
  ASSUME RTypes, ring.py # <<>>, py_events' = Append(py_events, Head(ring.py)),
         ring'.py = Tail(ring.py)
  PROVE  stream' = stream
<1> DEFINE E == py_events
           R == ring.py
           s == stream
           t == stream'
<1>1. /\ E \in Seq(PyEvent) /\ R \in Seq(PyEvent) /\ R # <<>>
      /\ s = E \o R /\ t = Append(E, Head(R)) \o Tail(R)
  BY DEF RTypes, stream
<1> HIDE DEF E, R, s, t
<1>2. /\ Head(R) = R[1] /\ Tail(R) \in Seq(PyEvent) /\ Len(Tail(R)) = Len(R) - 1 /\ Len(R) >= 1
      /\ \A i \in 1..Len(R) - 1 : Tail(R)[i] = R[i + 1]
      /\ Append(E, Head(R)) \in Seq(PyEvent) /\ Len(Append(E, Head(R))) = Len(E) + 1
  BY <1>1
<1>3. /\ s \in Seq(PyEvent) /\ Len(s) = Len(E) + Len(R)
      /\ t \in Seq(PyEvent) /\ Len(t) = Len(E) + Len(R)
  BY <1>1, <1>2
<1>4. ASSUME NEW i \in 1..Len(s) PROVE s[i] = t[i]
  <2>1. CASE i <= Len(E)
    BY <2>1, <1>1, <1>2, <1>3
  <2>2. CASE i = Len(E) + 1
    BY <2>2, <1>1, <1>2, <1>3
  <2>3. CASE i > Len(E) + 1
    <3>1. t[i] = Tail(R)[i - (Len(E) + 1)]
      BY <2>3, <1>1, <1>2, <1>3
    <3>2. s[i] = R[i - Len(E)]
      BY <2>3, <1>1, <1>3
    <3> QED
      BY <2>3, <3>1, <3>2, <1>1, <1>2, <1>3
  <2> QED
    BY <2>1, <2>2, <2>3, <1>1, <1>3
<1>5. s = t
  BY <1>3, <1>4
<1> QED
  BY <1>5 DEF s, t

(* What is in a sequence is what the sequence is of.                        *)
LEMMA ElementOf ==
  ASSUME NEW X, NEW s \in Seq(X), NEW i \in DOMAIN s
  PROVE  s[i] \in X
OBVIOUS

(* A step that leaves a context and its events alone keeps what is known of *)
(* the context.                                                             *)
LEMMA SameContext ==
  ASSUME NEW d \in Ids, ContextOK(d),
         holders'[d] = holders[d], tool_ctx'[d] = tool_ctx[d], ended'[d] = ended[d],
         work'[d] = work[d], d \in overwritten' <=> d \in overwritten,
         d > counter' <=> d > counter, d <= counter' <=> d <= counter,
         Sent(START, d)' <=> Sent(START, d), Sent(END, d)' <=> Sent(END, d),
         Queued(d)' => Queued(d) \/ InHand(d), InHand(d)' => Queued(d) \/ InHand(d)
  PROVE  ContextOK(d)'
<1>1. Untouched(d) => Untouched(d)'
  BY Zenon DEF Untouched
<1> QED
  BY <1>1 DEF ContextOK

(* The guard events stay within their contexts when an event is sent: no    *)
(* context that has one starts again, and an end comes after them.          *)
LEMMA SameGuards ==
  ASSUME GuardsOK, NTypes, RTypes, RTypes',
         ring'.guard = ring.guard, guard_events' = guard_events,
         counter' >= counter, now' \in Nat, now' >= now,
         \A i \in DOMAIN stream' :
           \/ /\ i \in DOMAIN stream /\ stream'[i].kind = stream[i].kind
              /\ stream'[i].ctx = stream[i].ctx /\ stream'[i].ts = stream[i].ts
           \/ stream'[i].kind = START /\ stream'[i].ctx > counter
           \/ stream'[i].kind = END /\ stream'[i].ts > now
  PROVE  GuardsOK'
<1>1. Ids \subseteq Nat /\ START # END
  BY AuditAssumption DEF START, END
<1>2. ASSUME NEW g, g.ts \in Nat, Within(g)
      PROVE  g.ctx \in Ids =>
               /\ g.ctx <= counter' /\ g.ts <= now'
               /\ \A i \in DOMAIN stream' : stream'[i].ctx = g.ctx =>
                    /\ stream'[i].kind = START => stream'[i].ts <= g.ts
                    /\ stream'[i].kind = END => g.ts <= stream'[i].ts
  <2> SUFFICES ASSUME g.ctx \in Ids
               PROVE  /\ g.ctx <= counter' /\ g.ts <= now'
                      /\ \A i \in DOMAIN stream' : stream'[i].ctx = g.ctx =>
                           /\ stream'[i].kind = START => stream'[i].ts <= g.ts
                           /\ stream'[i].kind = END => g.ts <= stream'[i].ts
    OBVIOUS
  <2>1. /\ g.ctx <= counter /\ g.ts <= now
        /\ \A i \in DOMAIN stream : stream[i].ctx = g.ctx =>
             /\ stream[i].kind = START => stream[i].ts <= g.ts
             /\ stream[i].kind = END => g.ts <= stream[i].ts
    BY <1>2 DEF Within
  <2>2. counter \in Nat /\ counter' \in Nat /\ now \in Nat /\ g.ctx \in Nat
    BY <1>1 DEF RTypes, NTypes
  <2>3. g.ctx <= counter' /\ g.ts <= now' /\ ~(g.ctx > counter)
    BY <1>2, <2>1, <2>2
  <2>4. ASSUME NEW i \in DOMAIN stream', stream'[i].ctx = g.ctx
        PROVE  /\ stream'[i].kind = START => stream'[i].ts <= g.ts
               /\ stream'[i].kind = END => g.ts <= stream'[i].ts
    <3>1. stream' \in Seq(PyEvent)
      BY DEF RTypes, stream
    <3>2. stream'[i] \in PyEvent
      BY <2>4, <3>1
    <3>3. stream'[i].ts \in Nat
      BY <3>2 DEF PyEvent
    <3>4. CASE stream'[i].kind = END /\ stream'[i].ts > now
      BY <3>4, <3>3, <2>1, <2>2, <1>1, <1>2
    <3> QED
      BY <3>4, <2>1, <2>3, <2>4
  <2> QED
    BY <2>3, <2>4
<1>3. \A i \in DOMAIN ring.guard : ring.guard[i].ts \in Nat
  <2>1. ring.guard \in Seq(GuardEvent)
    BY DEF NTypes
  <2>2. \A i \in DOMAIN ring.guard : ring.guard[i] \in GuardEvent
    BY <2>1, ElementOf
  <2> QED
    BY <2>2 DEF GuardEvent
<1>4. \A i \in DOMAIN guard_events : guard_events[i].ts \in Nat
  <2>1. guard_events \in Seq(GuardRecord)
    BY DEF NTypes
  <2>2. \A i \in DOMAIN guard_events : guard_events[i] \in GuardRecord
    BY <2>1, ElementOf
  <2> QED
    BY <2>2 DEF GuardRecord
<1>5. \A i \in DOMAIN ring.guard : Within(ring.guard[i])
  BY DEF GuardsOK
<1>6. \A i \in DOMAIN guard_events : Within(guard_events[i])
  BY DEF GuardsOK
<1> QED
  BY <1>2, <1>3, <1>4, <1>5, <1>6, Zenon DEF GuardsOK, Within

(* What sending an event does to the stream, whether PY_EVENTS has room for *)
(* it or not (emit_py_event).                                               *)
LEMMA SendsEvent ==
  ASSUME RTypes, StreamOK, NTypes, NEW kind \in {START, END}, NEW c \in Ids, NEW tool \in ToolId,
         ~Sent(kind, c), ring'.py = submitted(ring, "py", py_event(kind, c, tool)).py,
         note_lost(kind, c), now' = now + 1, py_events' = py_events
  PROVE  /\ ring'.py \in Seq(PyEvent)
         /\ \A i \in DOMAIN stream' :
              \/ i \in DOMAIN stream /\ stream'[i] = stream[i]
              \/ i \notin DOMAIN stream /\ stream'[i] = py_event(kind, c, tool)
         /\ \A i \in DOMAIN stream : i \in DOMAIN stream' /\ stream'[i] = stream[i]
         /\ \A i \in DOMAIN stream' : stream'[i].ts <= now'
         /\ \A i, j \in DOMAIN stream' :
              stream'[i].kind = stream'[j].kind /\ stream'[i].ctx = stream'[j].ctx => i = j
         /\ \A i \in DOMAIN stream' : <<stream'[i].kind, stream'[i].ctx>> \notin lost'
         /\ \A k \in {START, END}, d \in Ids :
              Sent(k, d)' <=> Sent(k, d) \/ (k = kind /\ d = c)
<1> DEFINE e == py_event(kind, c, tool)
<1>1. e \in PyEvent /\ e.kind = kind /\ e.ctx = c /\ e.ts = now + 1
  BY DEF py_event, PyEvent, NTypes
<1>2. stream \in Seq(PyEvent) /\ \A i \in DOMAIN stream : stream[i].ts \in Nat
  <2>1. stream \in Seq(PyEvent)
    BY StreamType, Zenon
  <2>2. \A i \in DOMAIN stream : stream[i] \in PyEvent
    BY <2>1, ElementOf
  <2> QED
    BY <2>1, <2>2, Zenon DEF PyEvent
<1>3. \A i \in DOMAIN stream : ~(stream[i].kind = kind /\ stream[i].ctx = c)
  BY DEF Sent, InStream
<1>4. <<kind, c>> \notin lost
  BY DEF Sent
<1> HIDE DEF e
<1>5. CASE full("py")
  <2>1. ring'.py = ring.py /\ lost' = lost \cup {<<kind, c>>}
    BY <1>5 DEF submitted, note_lost
  <2>2. stream' = stream
    BY <2>1 DEF stream
  <2>3. \A i \in DOMAIN stream' : stream'[i].ts <= now'
    BY <2>2, <1>2 DEF StreamOK, NTypes
  <2>4. \A i \in DOMAIN stream' : <<stream'[i].kind, stream'[i].ctx>> \notin lost'
    BY <2>1, <2>2, <1>3, Zenon DEF StreamOK
  <2>5. \A k \in {START, END}, d \in Ids :
          Sent(k, d)' <=> Sent(k, d) \/ (k = kind /\ d = c)
    BY <2>1, <2>2, Zenon DEF Sent, InStream
  <2> QED
    BY <2>1, <2>2, <2>3, <2>4, <2>5 DEF StreamOK, RTypes
<1>6. CASE ~full("py")
  <2>1. ring'.py = Append(ring.py, e) /\ lost' = lost
    BY <1>6 DEF submitted, note_lost, NTypes, IsRings, e
  <2>2. stream' = Append(stream, e)
    BY <2>1, <1>1, StreamAppend, Zenon
  <2>3. /\ DOMAIN stream = 1..Len(stream) /\ DOMAIN stream' = 1..Len(stream) + 1 /\ Len(stream) \in Nat
        /\ \A i \in 1..Len(stream) : stream'[i] = stream[i]
        /\ stream'[Len(stream) + 1] = e
    BY <2>2, <1>1, <1>2
  <2>4. \A i \in DOMAIN stream' :
          \/ i \in DOMAIN stream /\ stream'[i] = stream[i]
          \/ i \notin DOMAIN stream /\ i = Len(stream) + 1 /\ stream'[i] = e
    BY <2>3
  <2>5. \A i \in DOMAIN stream : i \in DOMAIN stream' /\ stream'[i] = stream[i]
    BY <2>3
  <2>6. \A i \in DOMAIN stream' : stream'[i].ts <= now'
    <3>1. \A i \in DOMAIN stream : stream[i].ts <= now'
      BY <1>2 DEF StreamOK, NTypes
    <3>2. e.ts <= now'
      BY <1>1 DEF NTypes
    <3> QED
      BY <2>4, <3>1, <3>2, Zenon
  <2>7. \A i, j \in DOMAIN stream' :
          stream'[i].kind = stream'[j].kind /\ stream'[i].ctx = stream'[j].ctx => i = j
    BY <2>4, <1>1, <1>3, Zenon DEF StreamOK
  <2>8. \A i \in DOMAIN stream' : <<stream'[i].kind, stream'[i].ctx>> \notin lost'
    BY <2>1, <2>4, <1>1, <1>4, Zenon DEF StreamOK
  <2>9. \A k \in {START, END}, d \in Ids :
          Sent(k, d)' <=> Sent(k, d) \/ (k = kind /\ d = c)
    <3>1. Len(stream) + 1 \in DOMAIN stream'
      BY <2>3
    <3> QED
      BY <2>1, <2>3, <2>4, <2>5, <3>1, <1>1, Zenon DEF Sent, InStream
  <2> QED
    <3>1. ring.py \in Seq(PyEvent)
      BY DEF RTypes
    <3>2. ring'.py \in Seq(PyEvent)
      BY <2>1, <1>1, <3>1
    <3> QED
      BY <2>4, <2>5, <2>6, <2>7, <2>8, <2>9, <3>2, Zenon DEF e
<1> QED
  BY <1>5, <1>6, Zenon

(* A step of the kernel that sends nothing keeps the stream.                *)
LEMMA SameStream ==
  ASSUME StreamOK, stream' = stream, now' = now, lost' = lost, ended' = ended
  PROVE  /\ StreamOK'
         /\ \A k \in {START, END}, d \in Ids : Sent(k, d)' <=> Sent(k, d)
BY Zenon DEF StreamOK, Sent, InStream

(* A context begins under a new id and with one carrier, and asks for its   *)
(* tool itself if nothing did before.                                       *)
LEMMA BeginReport ==
  ASSUME NInv, RInv, NEW c \in Ids, NEW t \in Tools, NEW h, Begin(c, t, h), UNCHANGED uvars
  PROVE  RInv'
<1> DEFINE tool == IF t \in tool_obj THEN t ELSE TOOL_IDLE
           start == submitted(ring, "py", py_event(START, c, tool))
           request == [ctx |-> c, tool |-> t]
<1>1. /\ RTypes /\ StreamOK /\ RequestsOK /\ GuardsOK /\ NTypes
      /\ \A d \in Ids : ContextOK(d)
  BY Zenon DEF RInv, NInv
<1>2. /\ Ids \subseteq Nat \ {0} /\ counter \in Nat /\ c = counter + 1 /\ counter' = c
      /\ START # END /\ now \in Nat /\ now' = now + 1
  BY <1>1, AuditAssumption DEF Begin, RTypes, NTypes, NO_CTX, START, END
<1>3. /\ Untouched(c) /\ ~Sent(START, c) /\ ~Sent(END, c)
      /\ ~Queued(c) /\ ~InHand(c)
  <2>1. ContextOK(c) /\ c > counter
    BY <1>1, <1>2
  <2>2. Untouched(c) /\ (ended[c] # {} <=> Sent(END, c))
    BY <2>1, Zenon DEF ContextOK
  <2> QED
    BY <2>2, Zenon DEF Untouched
<1>4. tool \in ToolId
  BY DEF ToolId
<1>5. /\ ring'.py = start.py /\ ring'.guard = ring.guard
      /\ \/ ring'.resolver = ring.resolver
         \/ ring'.resolver = Append(ring.resolver, request)
  <2>1. IsRings(start) /\ start.resolver = ring.resolver /\ start.guard = ring.guard
    BY <1>1, SubmitPy, Zenon DEF NTypes
  <2>2. ring' = start \/ ring' = submitted(start, "resolver", request)
    BY Zenon DEF Begin
  <2> HIDE DEF start, request
  <2> QED
    BY <2>1, <2>2 DEF submitted, IsRings
<1>6. /\ py_events' = py_events /\ guard_events' = guard_events /\ pc' = pc /\ hand' = hand
      /\ overwritten' = overwritten /\ ended' = ended
      /\ holders' = [holders EXCEPT ![c] = {h}]
      /\ tool_ctx' = [tool_ctx EXCEPT ![c] = {[tool |-> tool, error |-> FALSE, carriers |-> 1]}]
      /\ work' = [work EXCEPT ![c] = {t}]
      /\ note_lost(START, c)
  BY Zenon DEF Begin, uvars
<1> HIDE DEF start
<1>7. /\ ring'.py \in Seq(PyEvent)
      /\ \A i \in DOMAIN stream' :
           \/ i \in DOMAIN stream /\ stream'[i] = stream[i]
           \/ i \notin DOMAIN stream /\ stream'[i] = py_event(START, c, tool)
      /\ \A i \in DOMAIN stream' : stream'[i].ts <= now'
      /\ \A i, j \in DOMAIN stream' :
           stream'[i].kind = stream'[j].kind /\ stream'[i].ctx = stream'[j].ctx => i = j
      /\ \A i \in DOMAIN stream' : <<stream'[i].kind, stream'[i].ctx>> \notin lost'
      /\ \A k \in {START, END}, d \in Ids :
           Sent(k, d)' <=> Sent(k, d) \/ (k = START /\ d = c)
  <2>1. /\ ring'.py = submitted(ring, "py", py_event(START, c, tool)).py
        /\ START \in {START, END} /\ now' = now + 1 /\ py_events' = py_events
    BY <1>2, <1>5, <1>6, Zenon DEF start
  <2>2. RTypes /\ StreamOK /\ NTypes /\ note_lost(START, c) /\ ~Sent(START, c)
    BY <1>1, <1>3, <1>6, Zenon
  <2> HIDE DEF tool
  <2> QED
    BY <1>4, <2>1, <2>2, SendsEvent, Zenon
<1>8. py_event(START, c, tool).kind = START /\ py_event(START, c, tool).ctx = c
  BY Zenon DEF py_event
<1> HIDE DEF tool
<1>9. RTypes'
  <2>1. holders' = [d \in Ids |-> holders'[d]]
    BY <1>1, <1>6, Zenon DEF RTypes
  <2>2. \A d \in Ids : IsFiniteSet(holders'[d])
    BY <1>1, <1>6, FS_Singleton, Zenon DEF RTypes
  <2>3. ended' \in [Ids -> SUBSET ToolId] /\ work' \in [Ids -> SUBSET Tools]
    BY <1>1, <1>6 DEF RTypes
  <2> QED
    BY <1>1, <1>2, <1>6, <1>7, <2>1, <2>2, <2>3, Zenon DEF RTypes
<1>10. StreamOK'
  BY <1>1, <1>2, <1>6, <1>7, <1>8, Zenon DEF StreamOK
<1>11. GuardsOK'
  <2>1. counter' >= counter /\ now' \in Nat /\ now' >= now /\ c > counter
    BY <1>2
  <2>2. \A i \in DOMAIN stream' :
          \/ /\ i \in DOMAIN stream /\ stream'[i].kind = stream[i].kind
             /\ stream'[i].ctx = stream[i].ctx /\ stream'[i].ts = stream[i].ts
          \/ stream'[i].kind = START /\ stream'[i].ctx > counter
          \/ stream'[i].kind = END /\ stream'[i].ts > now
    BY <1>7, <1>8, <2>1, Zenon
  <2> QED
    BY <1>1, <1>5, <1>6, <1>9, <2>1, <2>2, SameGuards, Zenon
<1>12. /\ \A d \in Ids : Queued(d)' => Queued(d) \/ d = c
       /\ \A d \in Ids : InHand(d)' <=> InHand(d)
  <2>1. ring.resolver \in Seq(Candidate)
    BY <1>1 DEF NTypes
  <2>2. \A d \in Ids : InHand(d)' <=> InHand(d)
    BY <1>6, Zenon DEF InHand
  <2>3. \A i \in DOMAIN ring'.resolver :
          \/ i \in DOMAIN ring.resolver /\ ring'.resolver[i] = ring.resolver[i]
          \/ ring'.resolver[i].ctx = c
    BY <1>5, <2>1
  <2>4. \A d \in Ids : Queued(d)' => Queued(d) \/ d = c
    BY <2>3, Zenon DEF Queued
  <2> QED
    BY <2>2, <2>4
<1>13. RequestsOK'
  <2>1. ring.resolver \in Seq(Candidate) /\ request.ctx = c /\ request.tool = t
    BY <1>1 DEF NTypes
  <2>2. \A i \in DOMAIN ring.resolver : ring.resolver[i].ctx # c
    BY <1>3 DEF Queued
  <2>3. \A i \in DOMAIN ring'.resolver :
          \/ i \in DOMAIN ring.resolver /\ ring'.resolver[i] = ring.resolver[i]
          \/ i = Len(ring.resolver) + 1 /\ ring'.resolver[i] = request
    BY <1>5, <2>1
  <2> HIDE DEF request
  <2>4. \A i, j \in DOMAIN ring'.resolver :
          ring'.resolver[i].ctx \in Ids /\ ring'.resolver[i].ctx = ring'.resolver[j].ctx => i = j
    BY <1>1, <2>1, <2>2, <2>3, Zenon DEF RequestsOK
  <2>5. \A d \in Ids : ~(Queued(d)' /\ InHand(d)')
    BY <1>1, <1>3, <1>12, Zenon DEF RequestsOK
  <2>6. \A d \in Ids : d # c => work'[d] = work[d]
    BY <1>1, <1>6 DEF RTypes
  <2>7. work'[c] = {t}
    BY <1>1, <1>6 DEF RTypes
  <2>8. \A i \in DOMAIN ring'.resolver :
          ring'.resolver[i].ctx \in Ids => work'[ring'.resolver[i].ctx] = {ring'.resolver[i].tool}
    BY <1>1, <2>1, <2>2, <2>3, <2>6, <2>7 DEF RequestsOK
  <2>9. \A d \in Ids : InHand(d)' /\ hand'.tool # TOOL_IDLE => work'[d] = {hand'.tool}
    BY <1>1, <1>3, <1>6, <1>12, <2>6, Zenon DEF RequestsOK
  <2> QED
    BY <1>1, <1>6, <2>4, <2>5, <2>8, <2>9, Zenon DEF RequestsOK
<1>14. ASSUME NEW d \in Ids, d # c PROVE ContextOK(d)'
  <2>1. /\ holders'[d] = holders[d] /\ tool_ctx'[d] = tool_ctx[d] /\ ended'[d] = ended[d]
        /\ work'[d] = work[d]
    BY <1>1, <1>6, <1>14, Zenon DEF RTypes, NTypes
  <2>2. (d > counter' <=> d > counter) /\ (d <= counter' <=> d <= counter)
    BY <1>2, <1>14
  <2>3. (Sent(START, d)' <=> Sent(START, d)) /\ (Sent(END, d)' <=> Sent(END, d))
    BY <1>7, <1>14, Zenon
  <2>4. (Queued(d)' => Queued(d) \/ InHand(d)) /\ (InHand(d)' => Queued(d) \/ InHand(d))
    BY <1>12, <1>14
  <2> QED
    BY <1>1, <1>6, <2>1, <2>2, <2>3, <2>4, SameContext, Zenon
<1>15. ContextOK(c)'
  <2>1. /\ holders'[c] = {h} /\ ended'[c] = {} /\ work'[c] = {t} /\ c \notin overwritten'
        /\ tool_ctx'[c] = {[tool |-> tool, error |-> FALSE, carriers |-> 1]}
    BY <1>1, <1>3, <1>6, Zenon DEF RTypes, NTypes, Untouched
  <2>2. Sent(START, c)' /\ ~Sent(END, c)'
    BY <1>2, <1>3, <1>7, Zenon
  <2>3. Cardinality(holders'[c]) = 1
    BY <2>1, FS_Singleton, Zenon
  <2>4. tool # TOOL_IDLE => tool = t
    BY DEF tool
  <2>5. ~(c > counter')
    BY <1>2
  <2> QED
    BY <1>2, <2>1, <2>2, <2>3, <2>4, <2>5 DEF ContextOK
<1> QED
  BY <1>9, <1>10, <1>11, <1>13, <1>14, <1>15 DEF RInv

(* A frame of a tool's own code asks on behalf of no context.               *)
LEMMA SpeculateReport ==
  ASSUME NInv, RInv, NEW t \in Tools, Speculate(t), UNCHANGED uvars
  PROVE  RInv'
<1> DEFINE request == [ctx |-> NO_CTX, tool |-> t]
<1>1. /\ RTypes /\ StreamOK /\ RequestsOK /\ GuardsOK /\ NTypes
      /\ \A d \in Ids : ContextOK(d)
  BY Zenon DEF RInv, NInv
<1>2. NO_CTX \notin Ids /\ request.ctx = NO_CTX
  BY AuditAssumption DEF NO_CTX
<1>3. /\ ring'.py = ring.py /\ ring'.guard = ring.guard
      /\ \/ ring'.resolver = ring.resolver
         \/ ring'.resolver = Append(ring.resolver, request)
  BY <1>1 DEF Speculate, submitted, NTypes, IsRings
<1>4. UNCHANGED <<counter, holders, tool_ctx, now, lost, ended, work, py_events, guard_events,
                  pc, hand, overwritten>>
  BY DEF Speculate, uvars
<1>5. stream' = stream
  BY <1>3, <1>4, Zenon DEF stream
<1>6. RTypes' /\ GuardsOK'
  BY <1>1, <1>3, <1>4, <1>5, Zenon DEF RTypes, GuardsOK, Within
<1>7. ring.resolver \in Seq(Candidate)
  BY <1>1 DEF NTypes
<1> HIDE DEF request
<1>8. \A i \in DOMAIN ring'.resolver :
        \/ i \in DOMAIN ring.resolver /\ ring'.resolver[i] = ring.resolver[i]
        \/ ring'.resolver[i] = request
  BY <1>3, <1>7
<1>9. \A d \in Ids : Queued(d)' => Queued(d)
  BY <1>2, <1>8 DEF Queued
<1>10. \A d \in Ids : InHand(d)' <=> InHand(d)
  BY <1>4 DEF InHand
<1>11. RequestsOK'
  BY <1>1, <1>2, <1>4, <1>8, <1>9, <1>10 DEF RequestsOK
<1>12. StreamOK' /\ \A k \in {START, END}, d \in Ids : Sent(k, d)' <=> Sent(k, d)
  BY <1>1, <1>4, <1>5, SameStream
<1>13. \A d \in Ids : ContextOK(d)'
  BY <1>1, <1>4, <1>9, <1>10, <1>12, SameContext
<1> QED
  BY <1>6, <1>11, <1>12, <1>13 DEF RInv

(* What a change of one context's carriers leaves alone.                    *)
LEMMA SameRequests ==
  ASSUME RequestsOK, ring'.resolver = ring.resolver, work' = work,
         UNCHANGED <<pc, hand, py_events>>
  PROVE  /\ RequestsOK'
         /\ \A d \in Ids : (Queued(d)' <=> Queued(d)) /\ (InHand(d)' <=> InHand(d))
BY DEF RequestsOK, Queued, InHand

(* A new carrier is counted as long as there is an entry to count in.       *)
LEMMA CarryReport ==
  ASSUME NInv, RInv, NEW c \in Ids, NEW h, Carry(c, h), UNCHANGED uvars
  PROVE  RInv'
<1>1. /\ RTypes /\ StreamOK /\ RequestsOK /\ GuardsOK /\ NTypes
      /\ \A d \in Ids : ContextOK(d)
  BY DEF RInv, NInv
<1>2. /\ UNCHANGED <<counter, now, ring, lost, ended, work, py_events, guard_events,
                     pc, hand, overwritten>>
      /\ holders[c] # {} /\ h \notin holders[c]
      /\ holders' = [holders EXCEPT ![c] = @ \cup {h}]
      /\ tool_ctx' = [tool_ctx EXCEPT ![c] = {[x EXCEPT !.carriers = @ + 1] : x \in @}]
  BY DEF Carry, uvars
<1>3. stream' = stream
  BY <1>2 DEF stream
<1>4. StreamOK' /\ \A k \in {START, END}, d \in Ids : Sent(k, d)' <=> Sent(k, d)
  BY <1>1, <1>2, <1>3, SameStream
<1>5. /\ RequestsOK'
      /\ \A d \in Ids : (Queued(d)' <=> Queued(d)) /\ (InHand(d)' <=> InHand(d))
  BY <1>1, <1>2, SameRequests
<1>6. GuardsOK'
  BY <1>1, <1>2, <1>3 DEF GuardsOK, Within
<1>7. /\ holders' = [d \in Ids |-> holders'[d]]
      /\ holders'[c] = holders[c] \cup {h}
      /\ \A d \in Ids : d # c => holders'[d] = holders[d]
  BY <1>1, <1>2, Zenon DEF RTypes
<1>8. /\ tool_ctx'[c] = {[x EXCEPT !.carriers = @ + 1] : x \in tool_ctx[c]}
      /\ \A d \in Ids : d # c => tool_ctx'[d] = tool_ctx[d]
  BY <1>1, <1>2 DEF NTypes
<1>9. /\ IsFiniteSet(holders'[c]) /\ Cardinality(holders'[c]) = Cardinality(holders[c]) + 1
      /\ Cardinality(holders[c]) \in Nat
  BY <1>1, <1>2, <1>7, FS_AddElement, FS_CardinalityType DEF RTypes
<1>10. RTypes'
  BY <1>1, <1>2, <1>7, <1>9 DEF RTypes
<1>11. ASSUME NEW d \in Ids, d # c PROVE ContextOK(d)'
  BY <1>1, <1>2, <1>4, <1>5, <1>7, <1>8, <1>11, SameContext, Zenon
<1>12. ContextOK(c)'
  <2>1. ContextOK(c) /\ ~(c > counter)
    BY <1>1, <1>2 DEF ContextOK, Untouched
  <2>2. \A x \in tool_ctx[c] : x \in CtxEntry
    BY <1>1 DEF NTypes
  <2>3. \A y \in tool_ctx'[c] : \E x \in tool_ctx[c] : y.tool = x.tool /\ y.carriers = x.carriers + 1
    BY <1>8, <2>2 DEF CtxEntry
  <2>4. tool_ctx'[c] = {} <=> tool_ctx[c] = {}
    BY <1>8, Zenon
  <2>5. ended[c] # {} => tool_ctx[c] = {} /\ c \in overwritten
    BY <1>2, <2>1 DEF ContextOK
  <2>6. c \notin overwritten /\ c <= counter /\ ended[c] = {} =>
          \A y \in tool_ctx'[c] : y.carriers = Cardinality(holders'[c])
    BY <1>9, <2>1, <2>3, Zenon DEF ContextOK
  <2>7. \A y \in tool_ctx'[c] : y.tool # TOOL_IDLE => work[c] = {y.tool}
    BY <2>1, <2>3, Zenon DEF ContextOK
  <2>8. holders'[c] # {}
    BY <1>7
  <2> QED
    BY <1>2, <1>4, <1>5, <2>1, <2>4, <2>5, <2>6, <2>7, <2>8, Zenon DEF ContextOK
<1> QED
  BY <1>4, <1>5, <1>6, <1>10, <1>11, <1>12 DEF RInv

(* The carrier that the entry counts as the last ends the context, at most  *)
(* once; another is only counted out (carrier_dec).                         *)
LEMMA ReleaseReport ==
  ASSUME NInv, RInv, NEW c \in Ids, NEW h, Release(c, h), UNCHANGED uvars
  PROVE  RInv'
<1>1. /\ RTypes /\ StreamOK /\ RequestsOK /\ GuardsOK /\ NTypes
      /\ \A d \in Ids : ContextOK(d)
  BY DEF RInv, NInv
<1>2. /\ UNCHANGED <<counter, work, py_events, guard_events, pc, hand, overwritten>>
      /\ h \in holders[c]
      /\ holders' = [holders EXCEPT ![c] = @ \ {h}]
  BY DEF Release, uvars
<1>3. /\ holders' = [d \in Ids |-> holders'[d]]
      /\ holders'[c] = holders[c] \ {h}
      /\ \A d \in Ids : d # c => holders'[d] = holders[d]
  BY <1>1, <1>2, Zenon DEF RTypes
<1>4. /\ IsFiniteSet(holders'[c]) /\ Cardinality(holders'[c]) = Cardinality(holders[c]) - 1
      /\ Cardinality(holders[c]) \in Nat
      /\ holders'[c] = {} <=> Cardinality(holders'[c]) = 0
  BY <1>1, <1>2, <1>3, FS_RemoveElement, FS_CardinalityType, FS_EmptySet DEF RTypes
<1>5. ContextOK(c) /\ ~(c > counter) /\ c <= counter
  <2>1. ContextOK(c) /\ ~(c > counter)
    BY <1>1, <1>2, Zenon DEF ContextOK, Untouched
  <2>2. c \in Nat /\ counter \in Nat
    BY <1>1, AuditAssumption DEF RTypes
  <2> QED
    BY <2>1, <2>2
<1>6. \A x \in tool_ctx[c] : x \in CtxEntry
  BY <1>1 DEF NTypes
<1>7. CASE \E x \in tool_ctx[c] : x.carriers <= 1
  <2> DEFINE x0 == CHOOSE x \in tool_ctx[c] : TRUE
             tool == x0.tool
  <2>1. /\ tool_ctx' = [tool_ctx EXCEPT ![c] = {}]
        /\ now' = now + 1
        /\ ring' = submitted(ring, "py", py_event(END, c, tool))
        /\ note_lost(END, c)
        /\ ended' = [ended EXCEPT ![c] = {tool}]
    BY <1>7 DEF Release
  <2>2. x0 \in tool_ctx[c]
    BY <1>7
  <2> HIDE DEF x0
  <2>3. tool \in ToolId /\ (tool # TOOL_IDLE => work[c] = {tool})
    BY <2>2, <1>5, <1>6, Zenon DEF CtxEntry, ContextOK
  <2> HIDE DEF tool
  <2>4. ended[c] = {} /\ ~Sent(END, c) /\ Sent(START, c)
    BY <1>2, <1>5, <2>2, Zenon DEF ContextOK
  <2>5. ring'.resolver = ring.resolver /\ ring'.guard = ring.guard
    BY <1>1, <2>1, SubmitPy DEF NTypes
  <2>6. /\ ring'.py \in Seq(PyEvent)
        /\ \A i \in DOMAIN stream' :
             \/ i \in DOMAIN stream /\ stream'[i] = stream[i]
             \/ i \notin DOMAIN stream /\ stream'[i] = py_event(END, c, tool)
        /\ \A i \in DOMAIN stream' : stream'[i].ts <= now'
        /\ \A i, j \in DOMAIN stream' :
             stream'[i].kind = stream'[j].kind /\ stream'[i].ctx = stream'[j].ctx => i = j
        /\ \A i \in DOMAIN stream' : <<stream'[i].kind, stream'[i].ctx>> \notin lost'
        /\ \A k \in {START, END}, d \in Ids :
             Sent(k, d)' <=> Sent(k, d) \/ (k = END /\ d = c)
    BY <1>1, <1>2, <2>1, <2>3, <2>4, SendsEvent, Zenon
  <2>7. /\ py_event(END, c, tool).kind = END /\ py_event(END, c, tool).ctx = c
        /\ py_event(END, c, tool).tool = tool /\ py_event(END, c, tool).ts = now + 1
    BY DEF py_event
  <2>8. /\ ended'[c] = {tool} /\ tool_ctx'[c] = {}
        /\ \A d \in Ids : d # c => ended'[d] = ended[d] /\ tool_ctx'[d] = tool_ctx[d]
        /\ ended' \in [Ids -> SUBSET ToolId]
    BY <1>1, <2>1, <2>3 DEF RTypes, NTypes
  <2>9. RTypes'
    BY <1>1, <1>2, <1>3, <1>4, <2>6, <2>8 DEF RTypes
  <2>10. StreamOK'
    <3>1. \A i \in DOMAIN stream : stream[i].kind = END => stream[i].ctx # c
      BY <2>4 DEF Sent, InStream
    <3>2. \A i \in DOMAIN stream : stream[i] \in PyEvent
      <4>1. stream \in Seq(PyEvent)
        BY <1>1, StreamType, Zenon
      <4> QED
        BY <4>1, ElementOf
    <3>3. \A i \in DOMAIN stream : stream[i].ctx \in Ids
      BY <3>2 DEF PyEvent
    <3>4. ASSUME NEW i \in DOMAIN stream', stream'[i].kind = END
          PROVE  ended'[stream'[i].ctx] = {stream'[i].tool}
      <4>1. CASE i \in DOMAIN stream /\ stream'[i] = stream[i]
        <5>1. ended[stream[i].ctx] = {stream[i].tool}
          BY <1>1, <3>4, <4>1 DEF StreamOK
        <5> QED
          BY <2>8, <3>1, <3>3, <3>4, <4>1, <5>1, Zenon
      <4>2. CASE stream'[i] = py_event(END, c, tool)
        BY <2>7, <2>8, <4>2
      <4> QED
        BY <2>6, <4>1, <4>2, Zenon
    <3> QED
      BY <2>6, <3>4, Zenon DEF StreamOK
  <2>11. GuardsOK'
    <3>1. now \in Nat /\ now' \in Nat /\ now' >= now /\ now + 1 > now
      BY <1>1, <2>1 DEF NTypes
    <3>2. counter' >= counter
      BY <1>1, <1>2 DEF RTypes
    <3> QED
      BY <1>1, <1>2, <2>5, <2>6, <2>7, <2>9, <3>1, <3>2, SameGuards, Zenon
  <2>12. /\ RequestsOK'
         /\ \A d \in Ids : (Queued(d)' <=> Queued(d)) /\ (InHand(d)' <=> InHand(d))
    BY <1>1, <1>2, <2>5, SameRequests, Zenon
  <2>13. ASSUME NEW d \in Ids, d # c PROVE ContextOK(d)'
    <3>1. (Sent(START, d)' <=> Sent(START, d)) /\ (Sent(END, d)' <=> Sent(END, d))
      BY <2>6, <2>13, Zenon
    <3> QED
      BY <1>1, <1>2, <1>3, <2>8, <2>12, <2>13, <3>1, SameContext
  <2>14. ContextOK(c)'
    <3>1. Sent(START, c)' /\ Sent(END, c)'
      BY <2>4, <2>6, Zenon
    <3>2. c \notin overwritten => holders'[c] = {}
      <4> SUFFICES ASSUME c \notin overwritten PROVE holders'[c] = {}
        BY Zenon
      <4>1. PICK x \in tool_ctx[c] : x.carriers <= 1
        BY <1>7, Zenon
      <4>2. x.carriers = Cardinality(holders[c])
        BY <1>5, <2>4, Zenon DEF ContextOK
      <4>3. Cardinality(holders[c]) # 0
        BY <1>1, <1>2, FS_EmptySet DEF RTypes
      <4> QED
        BY <1>4, <4>1, <4>2, <4>3
    <3> QED
      BY <1>2, <1>5, <2>3, <2>8, <2>12, <3>1, <3>2, Zenon DEF ContextOK
  <2> QED
    BY <2>9, <2>10, <2>11, <2>12, <2>13, <2>14 DEF RInv
<1>8. CASE ~\E x \in tool_ctx[c] : x.carriers <= 1
  <2>1. /\ tool_ctx' = [tool_ctx EXCEPT ![c] = {[x EXCEPT !.carriers = @ - 1] : x \in @}]
        /\ UNCHANGED <<now, ring, lost, ended>>
    BY <1>8 DEF Release
  <2>2. stream' = stream
    BY <1>2, <2>1 DEF stream
  <2>3. StreamOK' /\ \A k \in {START, END}, d \in Ids : Sent(k, d)' <=> Sent(k, d)
    BY <1>1, <2>1, <2>2, SameStream
  <2>4. /\ RequestsOK'
        /\ \A d \in Ids : (Queued(d)' <=> Queued(d)) /\ (InHand(d)' <=> InHand(d))
    BY <1>1, <1>2, <2>1, SameRequests
  <2>5. GuardsOK'
    BY <1>1, <1>2, <2>1, <2>2 DEF GuardsOK, Within
  <2>6. RTypes'
    BY <1>1, <1>2, <1>3, <1>4, <2>1 DEF RTypes
  <2>7. /\ tool_ctx'[c] = {[x EXCEPT !.carriers = @ - 1] : x \in tool_ctx[c]}
        /\ \A d \in Ids : d # c => tool_ctx'[d] = tool_ctx[d]
    BY <1>1, <2>1 DEF NTypes
  <2>8. ASSUME NEW d \in Ids, d # c PROVE ContextOK(d)'
    BY <1>1, <1>2, <1>3, <2>1, <2>3, <2>4, <2>7, <2>8, SameContext, Zenon
  <2>9. ContextOK(c)'
    <3>1. \A y \in tool_ctx'[c] : \E x \in tool_ctx[c] : y.tool = x.tool /\ y.carriers = x.carriers - 1
      BY <1>6, <2>7 DEF CtxEntry
    <3>2. tool_ctx'[c] = {} <=> tool_ctx[c] = {}
      BY <2>7, Zenon
    <3>3. ended[c] # {} => tool_ctx[c] = {} /\ c \in overwritten
      BY <1>2, <1>5, Zenon DEF ContextOK
    <3>4. c \notin overwritten =>
            /\ ended[c] = {} /\ tool_ctx[c] # {}
            /\ \A x \in tool_ctx[c] : x.carriers = Cardinality(holders[c])
      BY <1>5, <3>3, Zenon DEF ContextOK
    <3>5. c \notin overwritten =>
            /\ holders'[c] # {}
            /\ \A y \in tool_ctx'[c] : y.carriers = Cardinality(holders'[c])
      <4> SUFFICES ASSUME c \notin overwritten
                   PROVE  /\ holders'[c] # {}
                          /\ \A y \in tool_ctx'[c] : y.carriers = Cardinality(holders'[c])
        OBVIOUS
      <4>1. \A y \in tool_ctx'[c] : y.carriers = Cardinality(holders'[c])
        BY <1>4, <3>1, <3>4
      <4>2. PICK x \in tool_ctx[c] : TRUE
        BY <3>4
      <4>3. ~(Cardinality(holders[c]) <= 1)
        BY <1>8, <3>4, <4>2
      <4> QED
        BY <1>4, <4>1, <4>3
    <3>6. \A y \in tool_ctx'[c] : y.tool # TOOL_IDLE => work[c] = {y.tool}
      BY <1>5, <3>1, Zenon DEF ContextOK
    <3> QED
      BY <1>2, <1>5, <2>1, <2>3, <2>4, <3>2, <3>3, <3>4, <3>5, <3>6, Zenon DEF ContextOK
  <2> QED
    BY <2>3, <2>4, <2>5, <2>6, <2>8, <2>9 DEF RInv
<1> QED
  BY <1>7, <1>8

(* A hook reports a carrier's operation under its context only while there  *)
(* is an entry, and so before the end of the context.                       *)
LEMMA OperationReport ==
  ASSUME NInv, RInv, NEW c \in Ids, NEW h, NEW n \in Nat, Operation(c, h, n), UNCHANGED uvars
  PROVE  RInv'
<1> DEFINE e == guard_event(c)
<1>1. /\ RTypes /\ StreamOK /\ RequestsOK /\ GuardsOK /\ NTypes
      /\ \A d \in Ids : ContextOK(d)
  BY DEF RInv, NInv
<1>2. /\ UNCHANGED <<counter, holders, tool_ctx, lost, ended, work, py_events, guard_events,
                     pc, hand, overwritten>>
      /\ h \in holders[c] /\ now' = now + 1
  BY DEF Operation, uvars
<1>3. PICK k \in 1..n : ring' = [ring EXCEPT !.guard = @ \o [i \in 1..k |-> e]]
  BY Zenon DEF Operation
<1>4. e.ctx = NO_CTX \/ (e.ctx = c /\ e.ts = now + 1 /\ tool_ctx[c] # {})
  BY DEF guard_event
<1> HIDE DEF e
<1>5. /\ ring'.py = ring.py /\ ring'.resolver = ring.resolver
      /\ ring'.guard = ring.guard \o [i \in 1..k |-> e]
  BY <1>1, <1>3 DEF NTypes, IsRings
<1>6. stream' = stream
  BY <1>2, <1>5 DEF stream
<1>7. /\ counter \in Nat /\ now \in Nat /\ Ids \subseteq Nat \ {0} /\ NO_CTX = 0
      /\ \A i \in DOMAIN stream : stream[i].ts \in Nat
  <2>1. stream \in Seq(PyEvent)
    BY <1>1, StreamType, Zenon
  <2>2. \A i \in DOMAIN stream : stream[i] \in PyEvent
    BY <2>1, ElementOf
  <2>3. \A i \in DOMAIN stream : stream[i].ts \in Nat
    BY <2>2 DEF PyEvent
  <2> QED
    BY <1>1, <2>3, AuditAssumption DEF RTypes, NTypes, NO_CTX
<1>8. StreamOK' /\ \A kind \in {START, END}, d \in Ids : Sent(kind, d)' <=> Sent(kind, d)
  <2>1. \A i \in DOMAIN stream : stream[i].ts <= now'
    BY <1>1, <1>2, <1>7 DEF StreamOK
  <2> QED
    BY <1>1, <1>2, <1>6, <2>1 DEF StreamOK, Sent, InStream
<1>9. /\ RequestsOK'
      /\ \A d \in Ids : (Queued(d)' <=> Queued(d)) /\ (InHand(d)' <=> InHand(d))
  BY <1>1, <1>2, <1>5, SameRequests
<1>10. RTypes'
  BY <1>1, <1>2, <1>5 DEF RTypes
<1>11. \A d \in Ids : ContextOK(d)'
  BY <1>1, <1>2, <1>8, <1>9, SameContext, Zenon
<1>12. e.ctx \in Ids =>
         /\ e.ctx <= counter' /\ e.ts <= now'
         /\ \A i \in DOMAIN stream' : stream'[i].ctx = e.ctx =>
              /\ stream'[i].kind = START => stream'[i].ts <= e.ts
              /\ stream'[i].kind = END => e.ts <= stream'[i].ts
  <2> SUFFICES ASSUME tool_ctx[c] # {}, e.ctx = c, e.ts = now + 1
               PROVE  /\ c <= counter' /\ e.ts <= now'
                      /\ \A i \in DOMAIN stream' : stream'[i].ctx = c =>
                           /\ stream'[i].kind = START => stream'[i].ts <= e.ts
                           /\ stream'[i].kind = END => e.ts <= stream'[i].ts
    BY <1>4, <1>7
  <2>1. ContextOK(c) /\ ~(c > counter)
    BY <1>1, <1>2 DEF ContextOK, Untouched
  <2>2. ended[c] = {} /\ ~Sent(END, c)
    BY <1>2, <2>1 DEF ContextOK
  <2>3. \A i \in DOMAIN stream : stream[i].ctx = c => stream[i].kind # END
    BY <2>2 DEF Sent, InStream
  <2>4. c <= counter' /\ e.ts <= now'
    <3>1. now' = e.ts /\ counter' = counter /\ c \in Nat
      BY <1>2, <1>7
    <3> QED
      BY <1>7, <2>1, <3>1
  <2>5. \A i \in DOMAIN stream : stream[i].ts <= e.ts
    BY <1>1, <1>7 DEF StreamOK
  <2> QED
    BY <1>6, <2>3, <2>4, <2>5
<1>13. GuardsOK'
  <2>1. ring.guard \in Seq(GuardEvent) /\ guard_events \in Seq(GuardRecord)
    BY <1>1 DEF NTypes
  <2>2. \A i \in DOMAIN ring'.guard :
          ring'.guard[i] = e \/ (i \in DOMAIN ring.guard /\ ring'.guard[i] = ring.guard[i])
    <3>1. [i \in 1..k |-> e] \in Seq({e}) /\ Len([i \in 1..k |-> e]) = k
      OBVIOUS
    <3>2. \A i \in 1..k : [j \in 1..k |-> e][i] = e
      OBVIOUS
    <3> DEFINE s == [i \in 1..k |-> e]
    <3> HIDE DEF s
    <3>3. \A i \in DOMAIN (ring.guard \o s) :
            (ring.guard \o s)[i] = e \/ (i \in DOMAIN ring.guard /\ (ring.guard \o s)[i] = ring.guard[i])
      BY <2>1, <3>1, <3>2 DEF s
    <3> QED
      BY <1>5, <3>3 DEF s
  <2>3. \A i \in DOMAIN ring.guard : ring.guard[i].ts \in Nat
    <3>1. \A i \in DOMAIN ring.guard : ring.guard[i] \in GuardEvent
      BY <2>1, ElementOf
    <3> QED
      BY <3>1 DEF GuardEvent
  <2>4. \A i \in DOMAIN guard_events : guard_events[i].ts \in Nat
    <3>1. \A i \in DOMAIN guard_events : guard_events[i] \in GuardRecord
      BY <2>1, ElementOf
    <3> QED
      BY <3>1 DEF GuardRecord
  <2>5. ASSUME NEW g, g.ts \in Nat, Within(g)
        PROVE  g.ctx \in Ids =>
                 /\ g.ctx <= counter' /\ g.ts <= now'
                 /\ \A i \in DOMAIN stream' : stream'[i].ctx = g.ctx =>
                      /\ stream'[i].kind = START => stream'[i].ts <= g.ts
                      /\ stream'[i].kind = END => g.ts <= stream'[i].ts
    BY <1>2, <1>6, <1>7, <2>5 DEF Within
  <2>6. \A i \in DOMAIN ring.guard : Within(ring.guard[i])
    BY <1>1 DEF GuardsOK
  <2>7. \A i \in DOMAIN guard_events : Within(guard_events[i])
    BY <1>1 DEF GuardsOK
  <2>8. \A i \in DOMAIN ring'.guard : Within(ring.guard[i])'
    BY <1>12, <2>2, <2>3, <2>5, <2>6 DEF Within
  <2>9. \A i \in DOMAIN guard_events' : Within(guard_events[i])'
    BY <1>2, <2>4, <2>5, <2>7 DEF Within
  <2> QED
    BY <2>8, <2>9 DEF GuardsOK, Within
<1> QED
  BY <1>8, <1>9, <1>10, <1>11, <1>13 DEF RInv

(* What the daemon does between its writes to TOOL_CTX keeps every context. *)
LEMMA DaemonMoves ==
  ASSUME RInv, UNCHANGED <<counter, holders, tool_ctx, now, lost, ended, work, overwritten>>,
         stream' = stream, RTypes', RequestsOK', GuardsOK',
         \A d \in Ids : (Queued(d)' \/ InHand(d)') => Queued(d) \/ InHand(d)
  PROVE  RInv'
<1>1. StreamOK /\ \A d \in Ids : ContextOK(d)
  BY DEF RInv
<1>2. StreamOK' /\ \A k \in {START, END}, d \in Ids : Sent(k, d)' <=> Sent(k, d)
  BY <1>1, SameStream
<1>3. \A d \in Ids : ContextOK(d)'
  BY <1>1, <1>2, SameContext
<1> QED
  BY <1>2, <1>3 DEF RInv

(* A step that reads no ring and handles no request.                        *)
LEMMA ScanReport ==
  ASSUME RInv, UNCHANGED <<kvars, overwritten, hand, py_events, guard_events>>,
         {pc, pc'} \cap {"insert_obj", "get_ctx", "insert_ctx"} = {}
  PROVE  RInv'
<1>1. stream' = stream
  BY DEF stream, kvars
<1>2. RTypes' /\ GuardsOK'
  BY <1>1 DEF RInv, RTypes, GuardsOK, Within, kvars
<1>3. \A d \in Ids : (Queued(d)' <=> Queued(d)) /\ ~InHand(d) /\ ~InHand(d)'
  BY Zenon DEF Queued, InHand, kvars
<1>4. RequestsOK'
  BY <1>3, Zenon DEF RInv, RequestsOK, kvars
<1> QED
  BY <1>1, <1>2, <1>3, <1>4, DaemonMoves DEF kvars

(* PY_EVENTS is read between the requests.                                  *)
LEMMA ReadPyReport ==
  ASSUME NInv, RInv, ReadPyEvent
  PROVE  RInv'
<1>1. RTypes /\ RequestsOK /\ GuardsOK /\ NTypes
  BY DEF RInv, NInv
<1>2. /\ ring'.py = Tail(ring.py) /\ ring'.resolver = ring.resolver /\ ring'.guard = ring.guard
  BY <1>1 DEF ReadPyEvent, Take, NTypes, IsRings
<1>3. /\ pc = "py" /\ ring.py # <<>> /\ py_events' = Append(py_events, Head(ring.py))
      /\ UNCHANGED <<counter, holders, tool_ctx, now, lost, ended, work, overwritten, pc, hand,
                     guard_events>>
  BY Zenon DEF ReadPyEvent, kvars_but_ring
<1>4. stream' = stream
  BY <1>1, <1>2, <1>3, StreamRead, Zenon
<1>5. RTypes'
  <2>1. ring.py \in Seq(PyEvent) /\ py_events \in Seq(PyEvent)
    BY <1>1 DEF RTypes
  <2>2. ring'.py \in Seq(PyEvent) /\ py_events' \in Seq(PyEvent)
    BY <1>2, <1>3, <2>1
  <2> QED
    BY <1>1, <1>3, <2>2 DEF RTypes
<1>6. GuardsOK'
  BY <1>1, <1>2, <1>3, <1>4 DEF GuardsOK, Within
<1>7. \A d \in Ids : (Queued(d)' <=> Queued(d)) /\ ~InHand(d) /\ ~InHand(d)'
  BY <1>2, <1>3 DEF Queued, InHand
<1>8. RequestsOK'
  BY <1>1, <1>2, <1>3, <1>7 DEF RequestsOK
<1> QED
  BY <1>3, <1>4, <1>5, <1>6, <1>7, <1>8, DaemonMoves, Zenon

(* The first request that waits is taken in hand.                           *)
LEMMA ReadCandidateReport ==
  ASSUME NInv, RInv, ReadCandidate
  PROVE  RInv'
<1> DEFINE q == ring.resolver
           e == Head(q)
<1>1. RTypes /\ RequestsOK /\ GuardsOK /\ NTypes
  BY DEF RInv, NInv
<1>2. /\ ring'.py = ring.py /\ ring'.resolver = Tail(q) /\ ring'.guard = ring.guard
  BY <1>1 DEF ReadCandidate, Take, NTypes, IsRings
<1>3. /\ pc = "resolver" /\ q # <<>> /\ pc' # "insert_ctx"
      /\ \/ pc' \notin {"insert_obj", "get_ctx", "insert_ctx"}
         \/ hand'.ctx = e.ctx /\ hand'.tool \in {e.tool, TOOL_IDLE}
      /\ UNCHANGED <<counter, holders, tool_ctx, now, lost, ended, work, overwritten, py_events,
                     guard_events>>
  BY DEF ReadCandidate, kvars_but_ring
<1>4. stream' = stream
  BY <1>2, <1>3 DEF stream
<1>5. RTypes' /\ GuardsOK'
  BY <1>1, <1>2, <1>3, <1>4 DEF RTypes, GuardsOK, Within
<1>6. q \in Seq(Candidate)
  BY <1>1 DEF NTypes
<1> HIDE DEF q, e
<1>7. /\ 1 \in DOMAIN q /\ q[1] = e
      /\ \A i \in DOMAIN Tail(q) : i + 1 \in DOMAIN q /\ Tail(q)[i] = q[i + 1] /\ i + 1 # 1
      /\ \A i, j \in DOMAIN Tail(q) : i + 1 = j + 1 => i = j
  BY <1>3, <1>6 DEF e
<1>8. \A d \in Ids : ~InHand(d)
  BY <1>3 DEF InHand
<1>9. \A d \in Ids : Queued(d)' => \E i \in DOMAIN Tail(q) : q[i + 1].ctx = d
  BY <1>2, <1>7 DEF Queued
<1>10. \A d \in Ids : InHand(d)' => d = q[1].ctx /\ hand'.tool \in {q[1].tool, TOOL_IDLE}
  BY <1>3, <1>7 DEF InHand
<1>11. \A d \in Ids : (Queued(d)' \/ InHand(d)') => Queued(d)
  BY <1>7, <1>9, <1>10, Zenon DEF Queued, q
<1>12. \A i, j \in DOMAIN q : q[i].ctx \in Ids /\ q[i].ctx = q[j].ctx => i = j
  BY <1>1 DEF RequestsOK, q
<1>13. \A i \in DOMAIN q : q[i].ctx \in Ids => work[q[i].ctx] = {q[i].tool}
  BY <1>1 DEF RequestsOK, q
<1>14. \A d \in Ids : ~(Queued(d)' /\ InHand(d)')
  BY <1>7, <1>9, <1>10, <1>12
<1>15. \A d \in Ids : InHand(d)' /\ hand'.tool # TOOL_IDLE => work[d] = {hand'.tool}
  BY <1>7, <1>10, <1>13
<1>16. \A i, j \in DOMAIN Tail(q) : Tail(q)[i].ctx \in Ids /\ Tail(q)[i].ctx = Tail(q)[j].ctx => i = j
  BY <1>7, <1>12
<1>17. \A i \in DOMAIN Tail(q) : Tail(q)[i].ctx \in Ids => work[Tail(q)[i].ctx] = {Tail(q)[i].tool}
  BY <1>7, <1>13, Zenon
<1>18. RequestsOK'
  BY <1>2, <1>3, <1>14, <1>15, <1>16, <1>17 DEF RequestsOK
<1> QED
  BY <1>3, <1>4, <1>5, <1>11, <1>18, DaemonMoves, Zenon

(* The object of the request goes into TOOL_OBJ, and the copy of the entry  *)
(* is taken before the context has ended.                                   *)
LEMMA InHandReport ==
  ASSUME NInv, RInv, InsertObj \/ GetCtx
  PROVE  RInv'
<1>1. RTypes /\ RequestsOK /\ GuardsOK /\ NTypes /\ \A d \in Ids : ContextOK(d)
  BY DEF RInv, NInv
<1>2. /\ UNCHANGED <<counter, holders, tool_ctx, now, ring, lost, ended, work, overwritten,
                     py_events, guard_events>>
      /\ pc \in {"insert_obj", "get_ctx"}
      /\ \/ pc' = "resolver"
         \/ pc' = "get_ctx" /\ hand' = hand
         \/ /\ pc = "get_ctx" /\ pc' = "insert_ctx" /\ tool_ctx[hand.ctx] # {}
            /\ hand' = [hand EXCEPT !.found = tool_ctx[hand.ctx]]
  BY DEF InsertObj, GetCtx, CandidateDone, kvars
<1>3. pc' = "resolver" \/ (hand'.ctx = hand.ctx /\ hand'.tool = hand.tool)
  <2>1. hand = [ctx |-> hand.ctx, tool |-> hand.tool, found |-> hand.found]
    BY <1>1 DEF NTypes
  <2> QED
    BY <1>2, <2>1
<1>4. stream' = stream
  BY <1>2 DEF stream
<1>5. RTypes' /\ GuardsOK'
  BY <1>1, <1>2, <1>4 DEF RTypes, GuardsOK, Within
<1>6. \A d \in Ids : (Queued(d)' <=> Queued(d)) /\ (InHand(d)' => InHand(d) /\ hand'.tool = hand.tool)
  BY <1>2, <1>3 DEF Queued, InHand
<1>7. pc' = "insert_ctx" =>
        \A i \in DOMAIN py_events' : py_events'[i].kind = END => py_events'[i].ctx # hand'.ctx
  <2> SUFFICES ASSUME pc' = "insert_ctx"
               PROVE  \A i \in DOMAIN py_events : py_events[i].kind = END => py_events[i].ctx # hand.ctx
    BY <1>2, <1>3
  <2>1. hand.ctx \in Ids /\ InHand(hand.ctx) /\ tool_ctx[hand.ctx] # {}
    BY <1>1, <1>2 DEF NTypes, InHand
  <2>2. ~Sent(END, hand.ctx)
    BY <1>1, <2>1 DEF ContextOK
  <2> QED
    BY <1>1, <2>2, StreamType, Zenon DEF Sent, InStream
<1>8. RequestsOK'
  BY <1>1, <1>2, <1>6, <1>7 DEF RequestsOK
<1> QED
  BY <1>2, <1>4, <1>5, <1>6, <1>8, DaemonMoves

(* The copy is written back: the events that get the tool are no ends, and  *)
(* the entry is as it was, or the context is marked, or it has no carrier.  *)
LEMMA InsertCtxReport ==
  ASSUME NInv, RInv, InsertCtx
  PROVE  RInv'
<1>0. PICK c : c = hand.ctx
  OBVIOUS
<1>1. /\ RTypes /\ StreamOK /\ RequestsOK /\ GuardsOK /\ NTypes
      /\ \A d \in Ids : ContextOK(d)
  BY DEF RInv, NInv
<1>2. /\ pc = "insert_ctx" /\ pc' = "resolver" /\ py_events' = patched(py_events)
      /\ UNCHANGED <<counter, holders, now, ring, lost, ended, work, guard_events>>
      /\ tool_ctx' = [tool_ctx EXCEPT ![c] =
                        {[x EXCEPT !.tool = hand.tool, !.error = @ \/ hand.tool = TOOL_IDLE] :
                           x \in hand.found}]
      /\ overwritten' = IF tool_ctx[c] \in {{}, hand.found} THEN overwritten
                        ELSE overwritten \cup {c}
  BY <1>0, Zenon DEF InsertCtx, CandidateDone
<1>3. /\ c \in Ids /\ hand.tool \in ToolId /\ hand.found \subseteq CtxEntry /\ InHand(c)
  BY <1>0, <1>1, <1>2, Zenon DEF NTypes, InHand
<1>4. py_events \in Seq(PyEvent) /\ \A i \in DOMAIN py_events : py_events[i] \in PyEvent
  BY <1>1, ElementOf DEF RTypes
<1>5. /\ DOMAIN py_events' = DOMAIN py_events
      /\ \A i \in DOMAIN py_events :
           /\ py_events'[i] \in PyEvent
           /\ py_events'[i].kind = py_events[i].kind /\ py_events'[i].ctx = py_events[i].ctx
           /\ py_events'[i].ts = py_events[i].ts
           /\ py_events'[i].tool = py_events[i].tool \/ py_events[i].ctx = c
  <2>1. /\ DOMAIN py_events' = DOMAIN py_events
        /\ \A i \in DOMAIN py_events :
             \/ py_events'[i] = py_events[i]
             \/ py_events[i].ctx = c /\ py_events'[i] = [py_events[i] EXCEPT !.tool = hand.tool]
    BY <1>0, <1>2, Zenon DEF patched
  <2> QED
    BY <1>3, <1>4, <2>1 DEF PyEvent
<1>6. py_events' \in Seq(PyEvent) /\ Len(py_events') = Len(py_events)
  <2>1. DOMAIN py_events = 1..Len(py_events) /\ Len(py_events) \in Nat
    BY <1>4
  <2>2. py_events' = [i \in 1..Len(py_events) |-> py_events'[i]]
    BY <1>2, <2>1, Zenon DEF patched
  <2> DEFINE n == Len(py_events)
             s == py_events'
  <2>3. n \in Nat /\ s = [i \in 1..n |-> s[i]] /\ \A i \in 1..n : s[i] \in PyEvent
    BY <1>5, <2>1, <2>2
  <2> HIDE DEF n, s
  <2>4. s \in Seq(PyEvent) /\ Len(s) = n
    BY <2>3
  <2> QED
    BY <2>4 DEF s, n
<1>7. RTypes'
  BY <1>1, <1>2, <1>6, Zenon DEF RTypes
<1>8. /\ DOMAIN stream' = DOMAIN stream
      /\ \A i \in DOMAIN stream :
           /\ stream'[i].kind = stream[i].kind /\ stream'[i].ctx = stream[i].ctx
           /\ stream'[i].ts = stream[i].ts
           /\ stream[i].kind = END => stream'[i].tool = stream[i].tool
  <2>1. \A i \in DOMAIN py_events : py_events[i].kind = END => py_events[i].ctx # c
    BY <1>0, <1>1, <1>2, Zenon DEF RequestsOK
  <2> DEFINE p == py_events
             r == ring.py
             pp == py_events'
             s == stream
             ss == stream'
  <2>2. /\ s = p \o r /\ ss = pp \o r /\ p \in Seq(PyEvent) /\ pp \in Seq(PyEvent)
        /\ r \in Seq(PyEvent) /\ Len(pp) = Len(p)
    BY <1>1, <1>2, <1>6, Zenon DEF RTypes, stream
  <2>3. \A i \in DOMAIN p :
          /\ pp[i].kind = p[i].kind /\ pp[i].ctx = p[i].ctx /\ pp[i].ts = p[i].ts
          /\ p[i].kind = END => pp[i].tool = p[i].tool
    BY <1>5, <2>1
  <2> HIDE DEF p, r, pp, s, ss
  <2>4. DOMAIN s = DOMAIN ss /\ DOMAIN p = 1..Len(p) /\ DOMAIN s = 1..(Len(p) + Len(r))
    BY <2>2
  <2>5. \A i \in DOMAIN s : i \in DOMAIN p => s[i] = p[i] /\ ss[i] = pp[i]
    BY <2>2, <2>4
  <2>6. \A i \in DOMAIN s : i \notin DOMAIN p => s[i] = ss[i]
    BY <2>2, <2>4
  <2>7. /\ DOMAIN ss = DOMAIN s
        /\ \A i \in DOMAIN s :
             /\ ss[i].kind = s[i].kind /\ ss[i].ctx = s[i].ctx
             /\ ss[i].ts = s[i].ts
             /\ s[i].kind = END => ss[i].tool = s[i].tool
    BY <2>3, <2>4, <2>5, <2>6
  <2> QED
    BY <2>7 DEF s, ss
<1>9. StreamOK' /\ \A k \in {START, END}, d \in Ids : Sent(k, d)' <=> Sent(k, d)
  <2>1. \A k \in {START, END}, d \in Ids : Sent(k, d)' <=> Sent(k, d)
    BY <1>2, <1>8, Zenon DEF Sent, InStream
  <2> QED
    BY <1>1, <1>2, <1>8, <2>1, Zenon DEF StreamOK
<1>10. GuardsOK'
  <2>1. \A g : Within(g) =>
          (g.ctx \in Ids =>
             /\ g.ctx <= counter' /\ g.ts <= now'
             /\ \A i \in DOMAIN stream' : stream'[i].ctx = g.ctx =>
                  /\ stream'[i].kind = START => stream'[i].ts <= g.ts
                  /\ stream'[i].kind = END => g.ts <= stream'[i].ts)
    BY <1>2, <1>8, Zenon DEF Within
  <2>2. \A i \in DOMAIN ring.guard : Within(ring.guard[i])
    BY <1>1 DEF GuardsOK
  <2>3. \A i \in DOMAIN guard_events : Within(guard_events[i])
    BY <1>1 DEF GuardsOK
  <2>4. \A i \in DOMAIN ring'.guard : Within(ring.guard[i])'
    BY <1>2, <2>1, <2>2, Zenon DEF Within
  <2>5. \A i \in DOMAIN guard_events' : Within(guard_events[i])'
    BY <1>2, <2>1, <2>3, Zenon DEF Within
  <2> QED
    BY <2>4, <2>5 DEF GuardsOK, Within
<1>11. \A d \in Ids : (Queued(d)' <=> Queued(d)) /\ ~InHand(d)'
  BY <1>2, Zenon DEF Queued, InHand
<1>12. RequestsOK'
  BY <1>1, <1>2, <1>11, Zenon DEF RequestsOK
<1>13. ASSUME NEW d \in Ids, d # c PROVE ContextOK(d)'
  <2>1. tool_ctx'[d] = tool_ctx[d] /\ (d \in overwritten' <=> d \in overwritten)
    BY <1>1, <1>2, <1>13, Zenon DEF NTypes
  <2> QED
    BY <1>1, <1>2, <1>9, <1>11, <2>1, SameContext, Zenon
<1>14. ContextOK(c)'
  <2>1. ContextOK(c) /\ ~Queued(c)
    BY <1>1, <1>3, Zenon DEF RequestsOK
  <2>2. /\ c \notin overwritten /\ ~(c > counter) /\ Sent(START, c)
    <3>1. c \notin overwritten /\ ~(c > counter)
      BY <1>3, <2>1 DEF ContextOK, Untouched
    <3>2. c \in Nat /\ counter \in Nat
      BY <1>1, <1>3, AuditAssumption DEF RTypes
    <3>3. c <= counter
      BY <3>1, <3>2
    <3> QED
      BY <2>1, <3>1, <3>3, Zenon DEF ContextOK
  <2>3. \A y \in tool_ctx'[c] : \E x \in hand.found : y.tool = hand.tool /\ y.carriers = x.carriers
    BY <1>1, <1>2, <1>3, Zenon DEF NTypes, CtxEntry
  <2>4. tool_ctx'[c] = {} <=> hand.found = {}
    <3>1. tool_ctx'[c] = {[x EXCEPT !.tool = hand.tool, !.error = @ \/ hand.tool = TOOL_IDLE] :
                            x \in hand.found}
      BY <1>1, <1>2, <1>3, Zenon DEF NTypes
    <3> QED
      BY <3>1, Zenon
  <2>5. hand.tool # TOOL_IDLE => work[c] = {hand.tool}
    BY <1>1, <1>3 DEF RequestsOK
  <2>6. c \notin overwritten' /\ ended[c] = {} => tool_ctx[c] = hand.found
    <3>1. c <= counter
      <4>1. c \in Nat /\ counter \in Nat
        BY <1>1, <1>3, AuditAssumption DEF RTypes
      <4> QED
        BY <2>2, <4>1
    <3> QED
      BY <1>2, <2>1, <2>2, <3>1, Zenon DEF ContextOK
  <2>7. ended[c] # {} => holders[c] = {}
    BY <2>1, <2>2, Zenon DEF ContextOK
  <2>8. c \notin overwritten' /\ c <= counter /\ ended[c] = {} =>
          /\ holders[c] # {} /\ tool_ctx'[c] # {}
          /\ \A y \in tool_ctx'[c] : y.carriers = Cardinality(holders[c])
    BY <2>1, <2>2, <2>3, <2>4, <2>6 DEF ContextOK
  <2>9. \A y \in tool_ctx'[c] : y.tool # TOOL_IDLE => work[c] = {y.tool}
    BY <2>3, <2>5
  <2>10. /\ holders'[c] = holders[c] /\ ended'[c] = ended[c] /\ work'[c] = work[c]
         /\ counter' = counter /\ ~Queued(c)' /\ ~InHand(c)'
         /\ (Sent(START, c)' <=> Sent(START, c)) /\ (Sent(END, c)' <=> Sent(END, c))
    BY <1>2, <1>3, <1>9, <1>11, <2>1, Zenon
  <2>11. /\ c > counter => FALSE
         /\ ended[c] # {} <=> Sent(END, c)
         /\ \A t \in ended[c] : t # TOOL_IDLE => work[c] = {t}
    BY <2>1, <2>2, Zenon DEF ContextOK
  <2> QED
    BY <2>2, <2>7, <2>8, <2>9, <2>10, <2>11 DEF ContextOK
<1> QED
  BY <1>7, <1>9, <1>10, <1>12, <1>13, <1>14 DEF RInv

(* A guard event that is read keeps its context and its time.               *)
LEMMA ReadGuardReport ==
  ASSUME NInv, RInv, ReadGuardEvent
  PROVE  RInv'
<1> DEFINE q == ring.guard
           e == Head(q)
           g == [ctx |-> e.ctx, ts |-> e.ts, tool |-> e.tool,
                 known |-> e.known, name |-> guard_tool_name(e)]
<1>1. RTypes /\ RequestsOK /\ GuardsOK /\ NTypes
  BY DEF RInv, NInv
<1>2. /\ ring'.py = ring.py /\ ring'.resolver = ring.resolver /\ ring'.guard = Tail(q)
  BY <1>1 DEF ReadGuardEvent, Take, NTypes, IsRings
<1>3. /\ pc = "guard" /\ q # <<>> /\ guard_events' = Append(guard_events, g)
      /\ UNCHANGED <<counter, holders, tool_ctx, now, lost, ended, work, overwritten, pc, hand,
                     py_events>>
  BY DEF ReadGuardEvent, kvars_but_ring
<1>4. stream' = stream
  BY <1>2, <1>3 DEF stream
<1>5. g.ctx = e.ctx /\ g.ts = e.ts
  OBVIOUS
<1>6. q \in Seq(GuardEvent) /\ guard_events \in Seq(GuardRecord)
  BY <1>1 DEF NTypes
<1>7. \A i \in DOMAIN q : Within(q[i])
  BY <1>1 DEF GuardsOK
<1>8. \A i \in DOMAIN guard_events : Within(guard_events[i])
  BY <1>1 DEF GuardsOK
<1> HIDE DEF q, e, g
<1>9. /\ 1 \in DOMAIN q /\ q[1] = e
      /\ \A i \in DOMAIN Tail(q) : i + 1 \in DOMAIN q /\ Tail(q)[i] = q[i + 1]
  BY <1>3, <1>6 DEF e
<1>10. \A i \in DOMAIN guard_events' :
         guard_events'[i] = g \/ (i \in DOMAIN guard_events /\ guard_events'[i] = guard_events[i])
  BY <1>3, <1>6
<1>11. Within(g)
  BY <1>5, <1>7, <1>9 DEF Within
<1>12. \A i \in DOMAIN Tail(q) : Within(Tail(q)[i])
  BY <1>7, <1>9
<1>13. \A i \in DOMAIN guard_events' : Within(guard_events'[i])
  BY <1>8, <1>10, <1>11
<1>14. GuardsOK'
  BY <1>2, <1>3, <1>4, <1>12, <1>13 DEF GuardsOK, Within
<1>15. RTypes'
  BY <1>1, <1>2, <1>3 DEF RTypes
<1>16. /\ RequestsOK'
       /\ \A d \in Ids : (Queued(d)' <=> Queued(d)) /\ (InHand(d)' <=> InHand(d))
  BY <1>1, <1>2, <1>3, SameRequests
<1> QED
  BY <1>3, <1>4, <1>14, <1>15, <1>16, DaemonMoves

(* An event that was sent and not missed has been read.                     *)
LEMMA SentIsSeen ==
  ASSUME RTypes, NEW kind \in {START, END}, NEW c \in Ids, Sent(kind, c), ~Missed(kind, c)
  PROVE  \E i \in events_of(kind) : py_events[i].ctx = c
<1> DEFINE p == py_events
           r == ring.py
           s == stream
<1>1. PICK i \in DOMAIN s : s[i].kind = kind /\ s[i].ctx = c
  BY DEF Sent, InStream, Missed
<1>2. \A j \in DOMAIN r : ~(r[j].kind = kind /\ r[j].ctx = c)
  BY DEF Missed, Unread
<1>3. p \in Seq(PyEvent) /\ r \in Seq(PyEvent) /\ s = p \o r
  BY DEF RTypes, stream
<1> HIDE DEF p, r, s
<1>4. CASE i \in DOMAIN p
  <2>1. s[i] = p[i]
    BY <1>3, <1>4
  <2> QED
    BY <1>1, <1>4, <2>1 DEF events_of, p
<1>5. CASE i \notin DOMAIN p
  <2>1. i - Len(p) \in DOMAIN r /\ s[i] = r[i - Len(p)]
    BY <1>1, <1>3, <1>5
  <2> QED
    BY <1>1, <1>2, <2>1
<1> QED
  BY <1>4, <1>5

(* A guard event whose context's start was read lies in the bracket.        *)
LEMMA SeenInBracket ==
  ASSUME NTypes, RInv
  PROVE  BracketVerdict
<1> SUFFICES ASSUME NEW i \in DOMAIN guard_events, guard_events[i].ctx # NO_CTX,
                    ~Missed(START, guard_events[i].ctx)
             PROVE  in_bracket(guard_events[i])
  BY DEF BracketVerdict, bracket_violations
<1> DEFINE g == guard_events[i]
<1>1. RTypes /\ GuardsOK /\ \A d \in Ids : ContextOK(d)
  BY DEF RInv
<1>2. g \in GuardRecord
  BY ElementOf DEF NTypes
<1>3. g.ctx \in Ids /\ Within(g)
  BY <1>1, <1>2 DEF GuardRecord, GuardsOK
<1> HIDE DEF g
<1>4. /\ g.ctx <= counter
      /\ \A k \in DOMAIN stream : stream[k].ctx = g.ctx =>
           /\ stream[k].kind = START => stream[k].ts <= g.ts
           /\ stream[k].kind = END => g.ts <= stream[k].ts
  BY <1>3 DEF Within
<1>5. Sent(START, g.ctx)
  BY <1>1, <1>3, <1>4 DEF ContextOK
<1>6. PICK k \in events_of(START) : py_events[k].ctx = g.ctx
  BY <1>1, <1>3, <1>5, SentIsSeen DEF g
<1>7. \A j \in DOMAIN py_events : j \in DOMAIN stream /\ stream[j] = py_events[j]
  BY <1>1, StreamType, Zenon
<1>8. py_events[k].ts <= g.ts
  BY <1>4, <1>6, <1>7 DEF events_of
<1>9. \A j \in events_of(END) : py_events[j].ctx = g.ctx => g.ts <= py_events[j].ts
  BY <1>4, <1>7 DEF events_of
<1> QED
  BY <1>6, <1>8, <1>9 DEF in_bracket, g

(* Each event has its own context among the events of its kind.             *)
LEMMA EventsDiffer ==
  ASSUME RInv, NEW kind \in {START, END}
  PROVE  /\ IsFiniteSet(events_of(kind))
         /\ \A i \in events_of(kind) : py_events[i].ctx \in Ids /\ Sent(kind, py_events[i].ctx)
         /\ \A i, j \in events_of(kind) : py_events[i].ctx = py_events[j].ctx => i = j
<1>1. RTypes /\ StreamOK
  BY DEF RInv
<1>2. py_events \in Seq(PyEvent)
  BY <1>1 DEF RTypes
<1>3. DOMAIN py_events = 1..Len(py_events) /\ Len(py_events) \in Nat
  BY <1>2
<1>4. IsFiniteSet(events_of(kind))
  <2>1. IsFiniteSet(1..Len(py_events))
    BY <1>3, FS_Interval
  <2>2. events_of(kind) \in SUBSET (1..Len(py_events))
    BY <1>3 DEF events_of
  <2> QED
    BY <2>1, <2>2, FS_Subset
<1>5. \A i \in DOMAIN py_events : i \in DOMAIN stream /\ stream[i] = py_events[i]
  BY <1>1, StreamType, Zenon
<1>6. \A i \in DOMAIN py_events : py_events[i].ctx \in Ids
  <2>1. \A i \in DOMAIN py_events : py_events[i] \in PyEvent
    BY <1>2, ElementOf
  <2> QED
    BY <2>1 DEF PyEvent
<1>7. \A i \in events_of(kind) : Sent(kind, py_events[i].ctx)
  BY <1>5 DEF events_of, Sent, InStream
<1>8. \A i, j \in events_of(kind) : py_events[i].ctx = py_events[j].ctx => i = j
  BY <1>1, <1>5 DEF events_of, StreamOK
<1> QED
  BY <1>4, <1>6, <1>7, <1>8 DEF events_of

(* An end stands for a start; all starts have one when all contexts ended.  *)
LEMMA EndsPairStarts ==
  ASSUME RInv
  PROVE  BalancedTells
<1> SUFFICES ASSUME ring.py = <<>>, lost = {}, overwritten = {}
             PROVE  balanced <=> \A c \in Ids : holders[c] = {}
  BY DEF BalancedTells
<1> DEFINE S == events_of(START)
           T == events_of(END)
           ctx(i) == py_events[i].ctx
           f == [i \in T |-> CHOOSE j \in S : ctx(j) = ctx(i)]
<1>1. RTypes /\ StreamOK /\ \A d \in Ids : ContextOK(d)
  BY DEF RInv
<1>2. /\ IsFiniteSet(S)
      /\ \A i \in S : ctx(i) \in Ids /\ Sent(START, ctx(i))
      /\ \A i, j \in S : ctx(i) = ctx(j) => i = j
  BY EventsDiffer
<1>3. /\ IsFiniteSet(T)
      /\ \A i \in T : ctx(i) \in Ids /\ Sent(END, ctx(i))
      /\ \A i, j \in T : ctx(i) = ctx(j) => i = j
  BY EventsDiffer
<1>4. \A kind \in {START, END}, c \in Ids : ~Missed(kind, c)
  BY DEF Missed, Unread
<1>5. \A c \in Ids : Sent(START, c) => \E i \in S : ctx(i) = c
  BY <1>1, <1>4, SentIsSeen
<1>6. \A c \in Ids : Sent(END, c) => \E i \in T : ctx(i) = c
  BY <1>1, <1>4, SentIsSeen
<1>7. \A c \in Ids : (c <= counter \/ c > counter) /\ ~(c <= counter /\ c > counter)
  BY <1>1, AuditAssumption DEF RTypes
<1>8. \A c \in Ids : Sent(END, c) => Sent(START, c)
  BY <1>1, <1>7 DEF ContextOK, Untouched
<1>9. \A c \in Ids : Sent(START, c) => (holders[c] = {} <=> Sent(END, c))
  <2>1. \A c \in Ids : Sent(START, c) => c <= counter
    BY <1>1, <1>7 DEF ContextOK, Untouched
  <2>2. \A c \in Ids : c <= counter /\ holders[c] = {} => ended[c] # {}
    BY <1>1, Zenon DEF ContextOK
  <2>3. \A c \in Ids : ended[c] # {} => holders[c] = {}
    BY <1>1, Zenon DEF ContextOK
  <2>4. \A c \in Ids : ended[c] # {} <=> Sent(END, c)
    BY <1>1 DEF ContextOK
  <2> QED
    BY <2>1, <2>2, <2>3, <2>4
<1>10. \A c \in Ids : ~Sent(START, c) => holders[c] = {}
  BY <1>1, <1>7 DEF ContextOK, Untouched
<1>11. balanced <=> Cardinality(T) = Cardinality(S)
  BY DEF balanced
<1> HIDE DEF S, T, ctx
<1>12. \A i \in T : f[i] \in S /\ ctx(f[i]) = ctx(i)
  BY <1>3, <1>5, <1>8
<1>13. f \in Injection(T, S)
  <2>1. f \in [T -> S]
    BY <1>12
  <2>2. \A i, j \in T : f[i] = f[j] => i = j
    BY <1>3, <1>12
  <2> HIDE DEF f
  <2> QED
    BY <2>1, <2>2 DEF Injection, IsInjective
<1>14. f \in Surjection(T, S) <=> \A j \in S : \E i \in T : ctx(i) = ctx(j)
  <2>1. f \in [T -> S]
    BY <1>12
  <2> HIDE DEF f
  <2>2. f \in Surjection(T, S) <=> \A j \in S : \E i \in T : f[i] = j
    BY <2>1 DEF Surjection
  <2>3. \A j \in S, i \in T : f[i] = j <=> ctx(i) = ctx(j)
    BY <1>2, <1>12
  <2> QED
    BY <2>2, <2>3
<1> HIDE DEF f
<1>15. Cardinality(T) = Cardinality(S) <=> f \in Surjection(T, S)
  BY <1>2, <1>13, FS_Injection
<1>16. (\A j \in S : \E i \in T : ctx(i) = ctx(j)) <=> \A c \in Ids : Sent(START, c) => Sent(END, c)
  BY <1>2, <1>3, <1>5, <1>6
<1> QED
  BY <1>9, <1>10, <1>11, <1>14, <1>15, <1>16

(* An end that was read counts for its context and for no other.            *)
LEMMA EndsCountDispatches ==
  ASSUME RInv
  PROVE  DispatchesCounted
<1> SUFFICES ASSUME NEW t \in Tools
             PROVE  tool_dispatches(t) =
                      Cardinality({c \in Ids : ended[c] = {t} /\ work[c] = {t} /\ ~Missed(END, c)})
  BY DEF DispatchesCounted
<1> DEFINE A == {i \in events_of(END) : py_events[i].tool = t}
           B == {c \in Ids : ended[c] = {t} /\ work[c] = {t} /\ ~Missed(END, c)}
           f == [i \in A |-> py_events[i].ctx]
<1>1. RTypes /\ StreamOK /\ \A d \in Ids : ContextOK(d)
  BY DEF RInv
<1>2. /\ IsFiniteSet(events_of(END))
      /\ \A i \in events_of(END) : py_events[i].ctx \in Ids
      /\ \A i, j \in events_of(END) : py_events[i].ctx = py_events[j].ctx => i = j
  BY EventsDiffer
<1>3. IsFiniteSet(A)
  <2>1. A \in SUBSET events_of(END)
    OBVIOUS
  <2> QED
    BY <1>2, <2>1, FS_Subset
<1>4. \A i \in events_of(END) :
        /\ i \in DOMAIN stream /\ stream[i] = py_events[i]
        /\ stream[i].kind = END /\ ended[py_events[i].ctx] = {py_events[i].tool}
  BY <1>1, StreamType, Zenon DEF events_of, StreamOK
<1>5. t # TOOL_IDLE
  BY AuditAssumption
<1>6. \A c \in Ids : ended[c] = {t} => work[c] = {t} /\ Sent(END, c)
  BY <1>1, <1>5 DEF ContextOK
<1>7. ASSUME NEW i \in events_of(END) PROVE ~Missed(END, py_events[i].ctx)
  <2> DEFINE c == py_events[i].ctx
             p == py_events
             r == ring.py
  <2>1. <<END, c>> \notin lost
    BY <1>1, <1>4 DEF StreamOK
  <2>2. ASSUME NEW j \in DOMAIN r, r[j].kind = END, r[j].ctx = c PROVE FALSE
    <3>1. Len(p) + j \in DOMAIN stream /\ stream[Len(p) + j] = r[j]
      BY <1>1, StreamType, Zenon
    <3>2. Len(p) + j = i
      BY <1>1, <1>4, <2>2, <3>1 DEF StreamOK
    <3>3. p \in Seq(PyEvent) /\ r \in Seq(PyEvent)
      BY <1>1 DEF RTypes
    <3>4. i \in DOMAIN p
      BY DEF events_of
    <3> HIDE DEF p, r
    <3>5. i \in 1..Len(p) /\ j \in 1..Len(r) /\ Len(p) \in Nat /\ Len(r) \in Nat
      BY <2>2, <3>3, <3>4
    <3> QED
      BY <3>2, <3>5
  <2> QED
    BY <2>1, <2>2 DEF Missed, Unread
<1>8. \A i \in A : f[i] = py_events[i].ctx /\ f[i] \in B
  <2>1. \A i \in A : py_events[i].ctx \in B
    BY <1>2, <1>4, <1>6, <1>7
  <2> HIDE DEF A, B
  <2> QED
    BY <2>1
<1>9. \A c \in B : \E i \in A : py_events[i].ctx = c
  <2> SUFFICES ASSUME NEW c \in B PROVE \E i \in A : py_events[i].ctx = c
    OBVIOUS
  <2>1. PICK i \in events_of(END) : py_events[i].ctx = c
    BY <1>1, <1>6, SentIsSeen
  <2>2. {py_events[i].tool} = {t}
    BY <1>4, <2>1
  <2> QED
    BY <2>1, <2>2
<1>10. \A i, j \in A : py_events[i].ctx = py_events[j].ctx => i = j
  BY <1>2
<1>11. tool_dispatches(t) = Cardinality(A)
  BY DEF tool_dispatches
<1> HIDE DEF A, B
<1>12. f \in Bijection(A, B)
  <2>1. f \in [A -> B] /\ \A i \in A : f[i] = py_events[i].ctx
    BY <1>8
  <2> HIDE DEF f
  <2>2. \A i, j \in A : f[i] = f[j] => i = j
    BY <1>10, <2>1
  <2>3. \A c \in B : \E i \in A : f[i] = c
    BY <1>9, <2>1
  <2> QED
    BY <2>1, <2>2, <2>3 DEF Bijection, Injection, Surjection, IsInjective
<1>13. Cardinality(B) = Cardinality(A)
  BY <1>3, <1>12, FS_Bijection DEF ExistsBijection
<1> QED
  BY <1>11, <1>13 DEF B

-----------------------------------------------------------------------------
(* main.rs, lsm_hooks.rs: no hook blocks on the strength of a part of the   *)
(* policy.                                                                  *)

(* The configuration is in its map only when every rule is, and it has the  *)
(* mode of the file.  NoPartialPolicy alone is not inductive: it does not   *)
(* say why a hook that runs between two inserts finds no configuration.     *)
ConfigIsLast ==
  /\ config \in Configs
  /\ ironscope_config # NULL => /\ phase = "running" /\ todo = <<>>
                                /\ ironscope_config.mode = config.mode

(* The daemon starts with no configuration in the map.                      *)
LEMMA InitConfigIsLast == Init => ConfigIsLast
BY DEF Init, ConfigIsLast

(* Only PopulateConfig, the last insert, writes the configuration, and no   *)
(* step of the daemon or of another program takes rules back after it.      *)
LEMMA NextConfigIsLast == ConfigIsLast /\ [Next]_vars => ConfigIsLast'
<1> SUFFICES ASSUME ConfigIsLast, [Next]_vars PROVE ConfigIsLast'
  OBVIOUS
<1>1. CASE Compile
  BY <1>1 DEF Compile, ConfigIsLast
<1>2. CASE PopulateEntry
  BY <1>2 DEF PopulateEntry, ConfigIsLast
<1>3. CASE PopulateFails
  BY <1>3 DEF PopulateFails, ConfigIsLast
<1>4. CASE PopulateConfig
  <2>1. "mode" \in DOMAIN config \ {"tools"}
    BY ConfigAssumption DEF ConfigIsLast
  <2>2. ironscope_config'.mode = config.mode
    BY <1>4, <2>1 DEF PopulateConfig
  <2> QED
    BY <1>4, <2>2 DEF PopulateConfig, ConfigIsLast
<1>5. CASE ReplaceFile
  BY <1>5 DEF ReplaceFile, ConfigIsLast
<1>6. CASE UNCHANGED vars
  BY <1>6 DEF vars, ConfigIsLast
<1> QED
  BY <1>1, <1>2, <1>3, <1>4, <1>5, <1>6 DEF Next

(* Whatever a hook finds in the rules, it blocks only under a configuration *)
(* in enforce mode.                                                         *)
LEMMA BlocksOnlyEnforcing ==
  ASSUME NEW who, NEW perm, answer(who, perm).blocked
  PROVE  ironscope_config # NULL /\ ironscope_config.mode = "enforce"
BY Zenon DEF answer, enforce_permission

(* Populated maps whose configuration comes last never show part of a       *)
(* policy.                                                                  *)
LEMMA ConfigLastSuffices == ConfigIsLast => NoPartialPolicy
<1> SUFFICES ASSUME ConfigIsLast,
                    phase # "running" \/ todo # <<>> \/ config.mode = "monitor",
                    NEW who, NEW x
             PROVE  /\ ~try_file_open(who, x).blocked /\ ~try_bprm_check(who, x).blocked
                    /\ ~try_socket_connect(who, x).blocked
  BY Zenon DEF NoPartialPolicy
<1>1. ~allowed.blocked
  BY DEF allowed
<1>2. ASSUME NEW perm
      PROVE  ~answer(who, perm).blocked
  BY BlocksOnlyEnforcing DEF ConfigIsLast
<1> QED
  BY <1>1, <1>2, Zenon DEF try_file_open, try_bprm_check, try_socket_connect

(* In no behaviour of the daemon, for any configuration, any size of the    *)
(* maps and any interleaving with other programs, does a hook block an      *)
(* access before the last insert of populate_maps, or in monitor mode.      *)
THEOREM PolicyAppearsAtOnce == Spec => []NoPartialPolicy
<1>1. Spec => []ConfigIsLast
  BY InitConfigIsLast, NextConfigIsLast, PTL DEF Spec
<1> QED
  BY <1>1, ConfigLastSuffices, PTL

-----------------------------------------------------------------------------
(* The order of the start-up: the loop runs only on a policy that is in     *)
(* place, and a marker of the current run was written in the loop.          *)
Staged ==
  /\ scene \in Scenes
  /\ run \in Nat /\ marker \in Nat
  /\ pc # "off" <=> stage = "loop"
  /\ stage \in {"probes", "loop"} => phase = "running" /\ todo = <<>>

MInv == Staged /\ ConfigIsLast /\ MarkerTells

(* Before the first start there is no policy and no marker.                 *)
LEMMA InitMarker == DaemonInit => MInv
BY SceneAssumption DEF DaemonInit, AuditInit, MInv, Staged, MarkerTells, ConfigIsLast

(* A process that ends leaves no configuration behind.                       *)
LEMMA DownConfig ==
  ASSUME ConfigIsLast, Down
  PROVE  ConfigIsLast'
BY DEF ConfigIsLast, Down, PolicyGone

(* A step of the loop does not leave it; only the daemon's own actions do.  *)
LEMMA LoopStays ==
  ASSUME Loop, pc # "off"
  PROVE  pc' # "off"
BY Zenon DEF Loop, Turn, LeaveLoop, LoopStep, ReadPyEvent, Drained, ReadCandidate, InsertObj, GetCtx,
       InsertCtx, ReadGuardEvent, CandidateDone

(* Every step of the daemon keeps the order of the start-up and what the    *)
(* marker tells.                                                            *)
LEMMA NextMarker ==
  ASSUME MInv, [DaemonNext]_allvars
  PROVE  MInv'
<1> USE DEF MInv
<1>1. CASE Start
  BY <1>1, SceneAssumption DEF Start, Staged, MarkerTells, ConfigIsLast, vars, kvars, uvars
<1>2. CASE AttachHooks
  BY <1>2 DEF AttachHooks, Staged, MarkerTells, ConfigIsLast, vars, kvars, uvars
<1>3. CASE LoadPolicy
  <2>1. Next
    BY <1>3 DEF LoadPolicy, Next
  <2>2. ConfigIsLast'
    BY <2>1, NextConfigIsLast
  <2> QED
    BY <1>3, <2>2 DEF LoadPolicy, Compile, PopulateEntry, PopulateFails, PopulateConfig, Staged,
                      MarkerTells, uvars
<1>4. CASE AttachProbes
  BY <1>4 DEF AttachProbes, Staged, MarkerTells, ConfigIsLast, vars
<1>5. CASE StartFails
  BY <1>5, DownConfig DEF StartFails, Down, AuditGone, PolicyGone, Staged, MarkerTells
<1>6. CASE Killed
  BY <1>6, DownConfig DEF Killed, Down, AuditGone, PolicyGone, Staged, MarkerTells
<1>7. CASE FirstTurn
  BY <1>7 DEF FirstTurn, Staged, MarkerTells, ConfigIsLast, vars
<1>8. CASE LeaveFirst
  BY <1>8 DEF LeaveFirst, Staged, MarkerTells, ConfigIsLast, vars, dvars
<1>9. CASE Loop
  <2>1. pc # "off" /\ pc' # "off"
    BY <1>9, LoopStays DEF Loop, Staged
  <2> QED
    BY <1>9, <2>1 DEF Loop, Staged, MarkerTells, ConfigIsLast, vars, dvars
<1>10. CASE Report
  BY <1>10, DownConfig DEF Report, Down, AuditGone, PolicyGone, Staged, MarkerTells
<1>11. CASE ReportFails
  BY <1>11, DownConfig DEF ReportFails, Down, AuditGone, PolicyGone, Staged, MarkerTells
<1>12. CASE Traffic
  BY <1>12 DEF Traffic, Staged, MarkerTells, ConfigIsLast, vars, uvars, dvars
<1>13. CASE OtherPrograms
  BY <1>13 DEF OtherPrograms, ReplaceFile, Staged, MarkerTells, ConfigIsLast, uvars, dvars
<1>14. CASE UNCHANGED allvars
  BY <1>14 DEF allvars, Staged, MarkerTells, ConfigIsLast, vars, uvars, dvars
<1> QED
  BY <1>1, <1>2, <1>3, <1>4, <1>5, <1>6, <1>7, <1>8, <1>9, <1>10, <1>11, <1>12, <1>13, <1>14
  DEF DaemonNext

(* The ready file is never there by mistake, through failed starts, kills   *)
(* and restarts.                                                            *)
THEOREM MarkerAlwaysTells == DaemonSpec => []MarkerTells
<1>1. MInv => MarkerTells
  BY DEF MInv
<1> QED
  BY <1>1, InitMarker, NextMarker, PTL DEF DaemonSpec

(* A hook blocks nothing on the strength of a part of the policy, in any    *)
(* life of the daemon.                                                      *)
THEOREM DaemonNoPartialPolicy == DaemonSpec => []NoPartialPolicy
<1>1. MInv => NoPartialPolicy
  BY ConfigLastSuffices DEF MInv
<1> QED
  BY <1>1, InitMarker, NextMarker, PTL DEF DaemonSpec

-----------------------------------------------------------------------------
(* The contract and the hooks.                                              *)

(* The first hit of the index is one (load_contract_for_detected).          *)
LEMMA MinOfNats ==
  ASSUME NEW S, S \subseteq Nat, S # {}
  PROVE  Min(S) \in S
<1>1. PICK x \in S : \A y \in S : <<y, x>> \notin OpToRel(<, Nat)
  BY NatLessThanWellFounded, WFMin, Zenon
<1>2. \A y \in S : ~(y < x)
  BY <1>1, Zenon DEF OpToRel
<1>3. \A y \in S : x <= y
  BY <1>2
<1> QED
  BY <1>3, Zenon DEF Min

(* A search that does not fail ends at a verified contract that matches.    *)
LEMMA LoadedMatches ==
  ASSUME NEW dir, DOMAIN dir.index \subseteq Nat, NEW e,
         NEW f \in load_contract_for_detected(dir, e), f # FAILED
  PROVE  dir.files[f].verified /\ contract_matches_detected(dir.files[f], e)
<1> DEFINE hits == index_hits(dir, e)
           met == {g \in DOMAIN dir.files : stops(dir, g, e)}
<1>1. ASSUME NEW g, stops(dir, g, e), f = outcome(dir, g)
      PROVE  dir.files[f].verified /\ contract_matches_detected(dir.files[f], e)
  BY <1>1 DEF outcome, stops
<1>2. hits \subseteq Nat /\ \A i \in hits : stops(dir, dir.index[i].path, e)
  BY DEF index_hits
<1> HIDE DEF hits
<1>3. hits # {} => stops(dir, dir.index[Min(hits)].path, e)
  BY <1>2, MinOfNats
<1>4. \/ hits # {} /\ f = outcome(dir, dir.index[Min(hits)].path)
      \/ \E g \in met : f = outcome(dir, g)
  BY DEF load_contract_for_detected, hits
<1> QED
  BY <1>1, <1>3, <1>4, Zenon

(* What is compared of a process is what its binaries have.                 *)
LEMMA DetectedIds ==
  ASSUME NEW p, p.python.sha256 # NONE, p.asyncio.sha256 # NONE
  PROVE  LET e == detect_runtime_for_pid(p)
         IN  /\ e.python_build_id = p.python.build_id
             /\ e.python_sha256 = IF p.python.build_id = NONE THEN p.python.sha256 ELSE NONE
             /\ e.asyncio_build_id \in {asyncio_binary(p).build_id, asyncio_binary(p).sha256} \ {NONE}
             /\ e.arch = p.python.arch
<1>1. asyncio_binary(p).sha256 # NONE
  BY DEF asyncio_binary
<1>2. \A b : /\ read_build_id_or_sha256(b).build_id = b.build_id
             /\ read_build_id_or_sha256(b).sha256 = IF b.build_id = NONE THEN b.sha256 ELSE NONE
  BY DEF read_build_id_or_sha256
<1>3. /\ detect_runtime_for_pid(p).python_build_id = read_build_id_or_sha256(p.python).build_id
      /\ detect_runtime_for_pid(p).python_sha256 = read_build_id_or_sha256(p.python).sha256
      /\ detect_runtime_for_pid(p).asyncio_build_id =
           IF read_build_id_or_sha256(asyncio_binary(p)).build_id = NONE
           THEN read_build_id_or_sha256(asyncio_binary(p)).sha256
           ELSE read_build_id_or_sha256(asyncio_binary(p)).build_id
      /\ detect_runtime_for_pid(p).arch = p.python.arch
  BY Zenon DEF detect_runtime_for_pid
<1> QED
  BY <1>1, <1>2, <1>3

(* The contract of the first agent fits every agent (run_cpython_runtime).  *)
LEMMA ContractFits ==
  ASSUME NEW s \in Scenes, NEW f \in contract_for_agents(s.dir, s.agents), f # FAILED,
         NEW i \in DOMAIN s.agents
  PROVE  LET c == s.dir.files[f]
             p == s.agents[i]
         IN  /\ c.verified
             /\ c.arch = p.python.arch
             /\ c.asyncio_build_id \in {asyncio_binary(p).build_id, asyncio_binary(p).sha256} \ {NONE}
             /\ \/ contract_python_build_id(c) = p.python.build_id
                \/ p.python.build_id = NONE /\ (c.fallback_sha256 = p.python.sha256 \/ i > 1)
<1> DEFINE c == s.dir.files[f]
           p == s.agents[i]
           first == s.agents[1]
           dp == detect_runtime_for_pid(p)
           df == detect_runtime_for_pid(first)
<1>1. /\ DOMAIN s.agents \subseteq Nat \ {0}
      /\ DOMAIN s.dir.index \subseteq Nat
      /\ p.python.sha256 # NONE /\ p.asyncio.sha256 # NONE
  BY SceneAssumption
<1>2. /\ f \in load_contract_for_pid(s.dir, first)
      /\ i # 1 => same_runtime(dp, df)
  BY Zenon DEF contract_for_agents
<1>3. f \in load_contract_for_detected(s.dir, df)
  BY <1>2 DEF load_contract_for_pid
<1>4. c.verified /\ contract_matches_detected(c, df)
  BY <1>1, <1>3, LoadedMatches
<1>5. /\ dp.python_build_id = p.python.build_id
      /\ dp.python_sha256 = IF p.python.build_id = NONE THEN p.python.sha256 ELSE NONE
      /\ dp.asyncio_build_id \in {asyncio_binary(p).build_id, asyncio_binary(p).sha256} \ {NONE}
      /\ dp.arch = p.python.arch
  BY <1>1, DetectedIds
<1>6. df.python_sha256 # NONE => df.python_build_id = NONE
  <2>1. df.python_build_id = read_build_id_or_sha256(first.python).build_id
        /\ df.python_sha256 = read_build_id_or_sha256(first.python).sha256
    BY Zenon DEF detect_runtime_for_pid
  <2> QED
    BY <2>1, Zenon DEF read_build_id_or_sha256
<1> HIDE DEF c, dp, df
<1>7. CASE i = 1
  <2>1. dp = df
    BY <1>7 DEF dp, df
  <2> QED
    BY <1>4, <1>5, <2>1, Zenon DEF contract_matches_detected, c
<1>8. CASE i # 1
  <2>1. i > 1
    BY <1>1, <1>8
  <2>2. /\ dp.python_build_id = df.python_build_id
        /\ dp.asyncio_build_id = df.asyncio_build_id
        /\ dp.arch = df.arch
    BY <1>2, <1>8 DEF same_runtime
  <2> QED
    BY <1>4, <1>5, <1>6, <2>1, <2>2, Zenon DEF contract_matches_detected, c
<1> QED
  BY <1>7, <1>8, Zenon

(* Past AttachHooks the programs are those the kernel took, and the         *)
(* monitors stand in where the LSM programs do not do their work.           *)
HooksSettled ==
  stage \in {"policy", "probes", "loop"} =>
    /\ hooks.kernel \in [lsm : 0..3, called : BOOLEAN, listed : BOOLEAN, fentry : 0..3]
    /\ hooks.lsm = hooks.kernel.lsm
    /\ hooks.fentry = IF lsm_effective(hooks.kernel) THEN 0 ELSE hooks.kernel.fentry

(* AttachHooks chooses the monitors or the LSM programs.                    *)
LEMMA ChosenHooks ==
  ASSUME scene \in Scenes, AttachHooks
  PROVE  HooksSettled'
<1>1. PICK h \in scene.hooks :
        hooks' = [kernel |-> h, lsm |-> h.lsm, fentry |-> IF lsm_effective(h) THEN 0 ELSE h.fentry]
  BY DEF AttachHooks
<1>2. h \in [lsm : 0..3, called : BOOLEAN, listed : BOOLEAN, fentry : 0..3]
  BY SceneAssumption
<1>3. /\ hooks'.kernel = h /\ hooks'.lsm = h.lsm
      /\ hooks'.fentry = IF lsm_effective(h) THEN 0 ELSE h.fentry
  BY <1>1
<1> QED
  BY <1>2, <1>3 DEF HooksSettled

(* The start-up settles the contract and the hooks, and nothing changes     *)
(* them while the process lives.                                            *)
LEMMA NextSettled ==
  ASSUME scene \in Scenes, HooksSettled, AgentsFit, [DaemonNext]_allvars
  PROVE  HooksSettled' /\ AgentsFit'
<1>1. CASE Start
  <2>1. /\ stage' # "down" => contract' \in contract_for_agents(scene.dir, scene.agents)
                              /\ contract' # FAILED
        /\ stage' \in {"down", "attach"}
        /\ scene' = scene
    BY <1>1 DEF Start
  <2>2. HooksSettled'
    BY <2>1 DEF HooksSettled
  <2>3. AgentsFit'
    BY <2>1, ContractFits DEF AgentsFit
  <2> QED
    BY <2>2, <2>3
<1>2. CASE AttachHooks
  <2>1. scene' = scene /\ contract' = contract /\ stage # "down"
    BY <1>2 DEF AttachHooks
  <2> QED
    BY <1>2, <2>1, ChosenHooks, Zenon DEF AgentsFit
<1>3. CASE StartFails \/ Killed \/ Report \/ ReportFails
  <2>1. stage' = "down"
    BY <1>3 DEF StartFails, Killed, Report, ReportFails, Down
  <2> QED
    BY <2>1, Zenon DEF HooksSettled, AgentsFit
<1>4. CASE LoadPolicy \/ AttachProbes
  <2>1. /\ scene' = scene /\ contract' = contract /\ hooks' = hooks
        /\ stage \in {"policy", "probes"}
    BY <1>4 DEF LoadPolicy, AttachProbes
  <2> QED
    BY <2>1, Zenon DEF HooksSettled, AgentsFit
<1>5. CASE FirstTurn \/ UNCHANGED dvars
  <2>1. scene' = scene /\ contract' = contract /\ hooks' = hooks /\ stage' = stage
    BY <1>5 DEF FirstTurn, dvars
  <2> QED
    BY <2>1, Zenon DEF HooksSettled, AgentsFit
<1> QED
  BY <1>1, <1>2, <1>3, <1>4, <1>5
  DEF DaemonNext, LeaveFirst, Loop, Traffic, OtherPrograms, allvars

(* Where the hooks are settled each kind of operation is watched as it      *)
(* should be.                                                               *)
LEMMA SettledWatches ==
  ASSUME HooksSettled
  PROVE  WatchedOnce
<1> DEFINE kernel == hooks.kernel
<1> SUFFICES ASSUME stage = "loop", NEW kind \in Kinds
             PROVE  /\ hooked(kind) + monitored(kind) = 0 =>
                         /\ kernel.fentry < kind \/ (kernel.lsm = 3 /\ ~kernel.listed)
                         /\ ~kernel.called \/ kernel.lsm < kind
                    /\ hooked(kind) + monitored(kind) = 2 => kernel.lsm < 3
  BY DEF WatchedOnce
<1>1. /\ kernel.lsm \in 0..3 /\ kernel.fentry \in 0..3 /\ kind \in 1..3
      /\ hooks.lsm = kernel.lsm
      /\ hooks.fentry = IF lsm_effective(kernel) THEN 0 ELSE kernel.fentry
  BY DEF HooksSettled, Kinds
<1> HIDE DEF kernel
<1>2. hooked(kind) + monitored(kind) = 2 => kernel.called /\ kind <= hooks.lsm /\ kind <= hooks.fentry
  BY <1>1 DEF hooked, monitored, kernel
<1>3. hooked(kind) + monitored(kind) = 0 => ~(kernel.called /\ kind <= hooks.lsm) /\ ~(kind <= hooks.fentry)
  BY <1>1 DEF hooked, monitored, kernel
<1> QED
  BY <1>1, <1>2, <1>3 DEF lsm_effective

(* The contract the daemon attaches with fits every configured agent, for   *)
(* every index, every order of the directory and every set of agents.       *)
THEOREM ContractAlwaysFits == DaemonSpec => []AgentsFit
<1>1. DaemonInit => MInv /\ HooksSettled /\ AgentsFit
  BY InitMarker DEF DaemonInit, HooksSettled, AgentsFit
<1>2. MInv /\ HooksSettled /\ AgentsFit /\ [DaemonNext]_allvars =>
        MInv' /\ HooksSettled' /\ AgentsFit'
  BY NextMarker, NextSettled DEF MInv, Staged
<1> QED
  BY <1>1, <1>2, PTL DEF DaemonSpec

(* No operation is reported twice by a complete set of LSM programs, and    *)
(* none goes unseen but for the failures that are logged.                   *)
THEOREM AlwaysWatchedOnce == DaemonSpec => []WatchedOnce
<1>1. DaemonInit => MInv /\ HooksSettled /\ AgentsFit
  BY InitMarker DEF DaemonInit, HooksSettled, AgentsFit
<1>2. MInv /\ HooksSettled /\ AgentsFit /\ [DaemonNext]_allvars =>
        MInv' /\ HooksSettled' /\ AgentsFit'
  BY NextMarker, NextSettled DEF MInv, Staged
<1> QED
  BY <1>1, <1>2, SettledWatches, PTL DEF DaemonSpec

-----------------------------------------------------------------------------
(* The names of the tools, and the report.                                  *)

USE DEF NO_CTX

(* The daemon starts with an empty kernel.                                  *)
LEMMA InitAudit == DaemonInit => NInv /\ RInv
BY InitNames, InitReport DEF DaemonInit

(* Every step of the daemon and of the traced processes leaves what the     *)
(* kernel shows with a name.                                                *)
LEMMA NextNames ==
  ASSUME MInv, NInv, [DaemonNext]_allvars
  PROVE  NInv'
<1>1. CASE UNCHANGED <<kvars, uvars>>
  BY <1>1 DEF kvars, uvars, NInv, NTypes, HasName, NamesKnown
<1>2. CASE AttachProbes \/ FirstTurn \/ LeaveFirst
  <2>1. /\ UNCHANGED <<kvars, hand, guard_events, tool_name_table>>
        /\ {pc, pc'} \cap {"insert_obj", "get_ctx", "insert_ctx"} = {}
    BY <1>2 DEF AttachProbes, FirstTurn, LeaveFirst, MInv, Staged
  <2>2. NTypes'
    BY <2>1, Zenon DEF kvars, NInv, NTypes
  <2>3. \A t \in ToolId : HasName(t) => HasName(t)'
    BY <2>1, Zenon DEF HasName
  <2> QED
    BY <2>1, <2>2, <2>3, KeepsNames DEF kvars
<1>3. CASE StartFails \/ Killed \/ Report \/ ReportFails
  BY <1>3, GoneNames DEF StartFails, Killed, Report, ReportFails, Down
<1>4. CASE Loop
  BY <1>4, ScanNames, ReadCandidateNames, InsertObjNames, GetCtxNames, InsertCtxNames,
     ReadGuardNames DEF Loop, LoopStep
<1>5. CASE Traffic
  <2>1. scene.contexts \subseteq Ids /\ scene.tools \subseteq Tools /\ UNCHANGED uvars
    BY <1>5, SceneAssumption DEF MInv, Staged, Traffic
  <2>2. \A kind \in Kinds, c \in Ids : reporters(kind, c) \in Nat
    BY DEF reporters, hooked, monitored
  <2> QED
    BY <1>5, <2>1, <2>2, BeginNames, SpeculateNames, CarryNames, ReleaseNames, OperationNames, Zenon DEF Traffic
<1> QED
  BY <1>1, <1>2, <1>3, <1>4, <1>5
  DEF DaemonNext, Start, AttachHooks, LoadPolicy, OtherPrograms, allvars

(* No guard event of a known tool is written without the tool's name, for   *)
(* every traffic and every order in which the daemon reads the rings.       *)
THEOREM NamesAlwaysKnown == DaemonSpec => []NamesKnown
<1>1. NInv => NamesKnown
  BY DEF NInv
<1> QED
  BY <1>1, InitMarker, NextMarker, InitAudit, NextNames, PTL DEF DaemonSpec

(* Each step of the daemon and of the traced processes keeps the books that *)
(* the report rests on.                                                     *)
LEMMA NextReport ==
  ASSUME MInv, NInv, RInv, [DaemonNext]_allvars
  PROVE  RInv'
<1>1. CASE UNCHANGED <<kvars, uvars>>
  <2>1. stream' = stream
    BY <1>1 DEF kvars, uvars, stream
  <2>2. RTypes' /\ GuardsOK'
    BY <1>1, <2>1 DEF kvars, uvars, RInv, RTypes, GuardsOK, Within
  <2>3. /\ RequestsOK'
        /\ \A d \in Ids : (Queued(d)' <=> Queued(d)) /\ (InHand(d)' <=> InHand(d))
    BY <1>1, SameRequests DEF kvars, uvars, RInv
  <2> QED
    BY <1>1, <2>1, <2>2, <2>3, DaemonMoves DEF kvars, uvars
<1>2. CASE AttachProbes \/ FirstTurn \/ LeaveFirst
  <2>1. /\ UNCHANGED <<kvars, overwritten, hand, py_events, guard_events>>
        /\ {pc, pc'} \cap {"insert_obj", "get_ctx", "insert_ctx"} = {}
    BY <1>2 DEF AttachProbes, FirstTurn, LeaveFirst, MInv, Staged
  <2> QED
    BY <2>1, ScanReport
<1>3. CASE StartFails \/ Killed \/ Report \/ ReportFails
  BY <1>3, GoneReport DEF StartFails, Killed, Report, ReportFails, Down
<1>4. CASE Loop
  <2>1. CASE Turn \/ LeaveLoop \/ Drained("py", "resolver") \/ Drained("resolver", "guard")
             \/ Drained("guard", "top")
    <3>1. /\ UNCHANGED <<kvars, overwritten, hand, py_events, guard_events>>
          /\ {pc, pc'} \cap {"insert_obj", "get_ctx", "insert_ctx"} = {}
      BY <2>1 DEF Turn, LeaveLoop, Drained
    <3> QED
      BY <3>1, ScanReport
  <2> QED
    BY <1>4, <2>1, ReadPyReport, ReadCandidateReport, InHandReport, InsertCtxReport,
       ReadGuardReport DEF Loop, LoopStep
<1>5. CASE Traffic
  <2>1. scene.contexts \subseteq Ids /\ scene.tools \subseteq Tools /\ UNCHANGED uvars
    BY <1>5, SceneAssumption DEF MInv, Staged, Traffic
  <2>2. \A kind \in Kinds, c \in Ids : reporters(kind, c) \in Nat
    BY DEF reporters, hooked, monitored
  <2> QED
    BY <1>5, <2>1, <2>2, BeginReport, SpeculateReport, CarryReport, ReleaseReport, OperationReport, Zenon DEF Traffic
<1> QED
  BY <1>1, <1>2, <1>3, <1>4, <1>5
  DEF DaemonNext, Start, AttachHooks, LoadPolicy, OtherPrograms, allvars

(* The report calls no operation a violation of its bracket whose context's *)
(* start was read, for every traffic and every order of the reads.          *)
THEOREM ViolationsAreMissed == DaemonSpec => []BracketVerdict
<1>1. NInv /\ RInv => BracketVerdict
  BY SeenInBracket DEF NInv
<1> QED
  BY <1>1, InitMarker, NextMarker, InitAudit, NextNames, NextReport, PTL DEF DaemonSpec

(* The report is balanced exactly when nothing is carried any more, if it   *)
(* has all events and no copy was written back over a change.               *)
THEOREM BalanceAlwaysTells == DaemonSpec => []BalancedTells
<1>1. RInv => BalancedTells
  BY EndsPairStarts
<1> QED
  BY <1>1, InitMarker, NextMarker, InitAudit, NextNames, NextReport, PTL DEF DaemonSpec

(* The report counts each dispatch that ended under its own tool, once.     *)
THEOREM DispatchesAlwaysCounted == DaemonSpec => []DispatchesCounted
<1>1. RInv => DispatchesCounted
  BY EndsCountDispatches
<1> QED
  BY <1>1, InitMarker, NextMarker, InitAudit, NextNames, NextReport, PTL DEF DaemonSpec
=============================================================================
