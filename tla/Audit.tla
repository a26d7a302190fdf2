------------------------------- MODULE Audit -------------------------------
(***************************************************************************)
(* The event loop of run_cpython_runtime (ironscope/src/main.rs) and the    *)
(* report it ends in, beside a kernel that goes on making events.  What a   *)
(* context is made and held by is the matter of Agent; here it begins,      *)
(* gains and loses carriers, and ends with the last one, and hooks report   *)
(* operations in it.  The daemon takes the three rings one after the other, *)
(* never at one moment, and publishes tool names in between.                *)
(***************************************************************************)
EXTENDS Naturals, Sequences, FiniteSets

CONSTANTS
  Ids,      \* context ids: 1, 2, ...
  Holders,  \* what may carry a context
  Tools,    \* tool ids; each belongs to one object, which does not move
  RingCap   \* how many events PY_EVENTS, RESOLVER_EVENTS and GUARD_EVENTS hold

TOOL_IDLE == "idle"      \* tool id 0
NO_CTX == 0              \* context id 0
START == "tool_start"
END == "tool_context_end"

ASSUME AuditAssumption ==
  /\ Ids \subseteq Nat \ {NO_CTX}
  /\ TOOL_IDLE \notin Tools
  /\ RingCap \in [{"py", "resolver", "guard"} -> Nat]

VARIABLES
  counter,   \* CTX_COUNTER
  holders,   \* who carries each context
  tool_ctx,  \* TOOL_CTX: at most one entry for each context
  tool_obj,  \* the tools whose object is in TOOL_OBJ
  pending,   \* those whose object is in PENDING_TOOL_RESOLVE
  now,       \* the clock of the kernel: the number of the last event
  ring,      \* the three ring buffers
  lost,      \* <<kind, context>> of the events for which PY_EVENTS had no room
  ended,     \* the tool id in each context's entry when it ended
  work,      \* the tool each context is really of
  overwritten,  \* the contexts whose entry had changed since it was copied
  pc,        \* where the loop is; "off" before and after it
  hand,      \* the candidate in hand and the copy of its context's entry
  py_events, guard_events,  \* what has been read
  tool_name_table           \* the tool ids with a name

kvars == <<counter, holders, tool_ctx, tool_obj, pending, now, ring, lost, ended, work>>
uvars == <<overwritten, pc, hand, py_events, guard_events, tool_name_table>>

Nothing == [ctx |-> NO_CTX, tool |-> TOOL_IDLE, found |-> {}]

AuditInit ==
  /\ counter = 0
  /\ holders = [c \in Ids |-> {}]
  /\ tool_ctx = [c \in Ids |-> {}]
  /\ tool_obj = {} /\ pending = {}
  /\ now = 0
  /\ ring = [r \in {"py", "resolver", "guard"} |-> <<>>]
  /\ lost = {}
  /\ ended = [c \in Ids |-> {}]
  /\ work = [c \in Ids |-> {}]
  /\ overwritten = {}
  /\ pc = "off"
  /\ hand = Nothing
  /\ py_events = <<>> /\ guard_events = <<>>
  /\ tool_name_table = {}

(* The maps, the rings and what was read are gone with the process.         *)
AuditGone ==
  /\ counter' = 0
  /\ holders' = [c \in Ids |-> {}]
  /\ tool_ctx' = [c \in Ids |-> {}]
  /\ tool_obj' = {} /\ pending' = {}
  /\ now' = 0
  /\ ring' = [r \in {"py", "resolver", "guard"} |-> <<>>]
  /\ lost' = {}
  /\ ended' = [c \in Ids |-> {}]
  /\ work' = [c \in Ids |-> {}]
  /\ overwritten' = {}
  /\ pc' = "off"
  /\ hand' = Nothing
  /\ py_events' = <<>> /\ guard_events' = <<>>
  /\ tool_name_table' = {}

-----------------------------------------------------------------------------
(* The kernel.  A reservation in a full ring fails and the event is lost.   *)
(* The candidate the daemon works on keeps its room until it is done.       *)

in_hand(r) == IF r = "resolver" /\ pc \in {"insert_obj", "get_ctx", "insert_ctx"} THEN 1 ELSE 0

full(r) == Len(ring[r]) + in_hand(r) >= RingCap[r]

submitted(rings, r, e) == IF full(r) THEN rings ELSE [rings EXCEPT ![r] = Append(@, e)]

py_event(kind, c, tool) == [kind |-> kind, ctx |-> c, tool |-> tool, ts |-> now + 1]

note_lost(kind, c) == lost' = IF full("py") THEN lost \cup {<<kind, c>>} ELSE lost

(* A tool root: the id from the cache, or a request to resolve the object,  *)
(* once for each object.                                                    *)
Begin(c, t, h) ==
  LET tool == IF t \in tool_obj THEN t ELSE TOOL_IDLE
      asks == t \notin tool_obj \cup pending
      start == submitted(ring, "py", py_event(START, c, tool))
  IN  /\ c = counter + 1
      /\ counter' = c
      /\ holders' = [holders EXCEPT ![c] = {h}]
      /\ tool_ctx' = [tool_ctx EXCEPT ![c] = {[tool |-> tool, error |-> FALSE, carriers |-> 1]}]
      /\ pending' = IF asks THEN pending \cup {t} ELSE pending
      /\ now' = now + 1
      /\ ring' = IF asks THEN submitted(start, "resolver", [ctx |-> c, tool |-> t]) ELSE start
      /\ note_lost(START, c)
      /\ work' = [work EXCEPT ![c] = {t}]
      /\ UNCHANGED <<tool_obj, ended>>

(* A frame of the tool's own code may ask too, on behalf of no context.     *)
Speculate(t) ==
  /\ t \notin tool_obj \cup pending
  /\ pending' = pending \cup {t}
  /\ ring' = submitted(ring, "resolver", [ctx |-> NO_CTX, tool |-> t])
  /\ UNCHANGED <<counter, holders, tool_ctx, tool_obj, now, lost, ended, work>>

(* carrier_inc and carrier_dec: the entry counts the carriers, and may be   *)
(* out of step with them.                                                   *)
Carry(c, h) ==
  /\ holders[c] # {} /\ h \notin holders[c]
  /\ holders' = [holders EXCEPT ![c] = @ \cup {h}]
  /\ tool_ctx' = [tool_ctx EXCEPT ![c] = {[x EXCEPT !.carriers = @ + 1] : x \in @}]
  /\ UNCHANGED <<counter, tool_obj, pending, now, ring, lost, ended, work>>

(* Faulty variant: the end of a context without an identity is not reported.*)
Release_silent(c, h) ==
  /\ h \in holders[c]
  /\ holders' = [holders EXCEPT ![c] = @ \ {h}]
  /\ IF \E x \in tool_ctx[c] : x.carriers <= 1
     THEN LET tool == (CHOOSE x \in tool_ctx[c] : TRUE).tool
          IN  /\ tool_ctx' = [tool_ctx EXCEPT ![c] = {}]
              /\ now' = now + 1
              /\ ring' = IF tool = TOOL_IDLE THEN ring
                         ELSE submitted(ring, "py", py_event(END, c, tool))
              /\ lost' = lost
              /\ ended' = [ended EXCEPT ![c] = {tool}]
     ELSE /\ tool_ctx' = [tool_ctx EXCEPT ![c] = {[x EXCEPT !.carriers = @ - 1] : x \in @}]
          /\ UNCHANGED <<now, ring, lost, ended>>
  /\ UNCHANGED <<counter, tool_obj, pending, work>>

Release(c, h) ==
  /\ h \in holders[c]
  /\ holders' = [holders EXCEPT ![c] = @ \ {h}]
  /\ IF \E x \in tool_ctx[c] : x.carriers <= 1
     THEN LET tool == (CHOOSE x \in tool_ctx[c] : TRUE).tool
          IN  /\ tool_ctx' = [tool_ctx EXCEPT ![c] = {}]
              /\ now' = now + 1
              /\ ring' = submitted(ring, "py", py_event(END, c, tool))
              /\ note_lost(END, c)
              /\ ended' = [ended EXCEPT ![c] = {tool}]
     ELSE /\ tool_ctx' = [tool_ctx EXCEPT ![c] = {[x EXCEPT !.carriers = @ - 1] : x \in @}]
          /\ UNCHANGED <<now, ring, lost, ended>>
  /\ UNCHANGED <<counter, tool_obj, pending, work>>

(* What a hook reports of an operation of a carrier of c; resolve_ctx finds *)
(* no context when the entry has gone.                                      *)
guard_event(c) ==
  IF tool_ctx[c] = {} THEN [ctx |-> NO_CTX, tool |-> TOOL_IDLE, known |-> FALSE, ts |-> now + 1]
  ELSE LET x == CHOOSE x \in tool_ctx[c] : TRUE
       IN  [ctx |-> c, tool |-> x.tool, known |-> ~x.error /\ x.tool # TOOL_IDLE,
            ts |-> now + 1]

(* An operation that up to n programs report: an event whose path cannot be *)
(* resolved is not sent, and a full ring takes none.  One without an event  *)
(* leaves no trace.                                                         *)
Operation(c, h, n) ==
  /\ h \in holders[c]
  /\ \E k \in 1..n :
       /\ Len(ring.guard) + k <= RingCap.guard
       /\ ring' = [ring EXCEPT !.guard = @ \o [i \in 1..k |-> guard_event(c)]]
  /\ now' = now + 1
  /\ UNCHANGED <<counter, holders, tool_ctx, tool_obj, pending, lost, ended, work>>

-----------------------------------------------------------------------------
(* The loop.  Its top looks at the clock and at the shutdown flag; what is  *)
(* in the rings when it is left stays there.                                *)

Turn ==
  /\ pc = "top"
  /\ pc' = "py"
  /\ UNCHANGED <<kvars, overwritten, hand, py_events, guard_events, tool_name_table>>

LeaveLoop ==
  /\ pc = "top"
  /\ pc' = "report"
  /\ UNCHANGED <<kvars, overwritten, hand, py_events, guard_events, tool_name_table>>

(* Each ring is read until it is empty.                                     *)
Drained(r, next) ==
  /\ pc = r
  /\ ring[r] = <<>>
  /\ pc' = next
  /\ UNCHANGED <<kvars, overwritten, hand, py_events, guard_events, tool_name_table>>

Take(r) == ring' = [ring EXCEPT ![r] = Tail(@)]
kvars_but_ring == <<counter, holders, tool_ctx, tool_obj, pending, now, lost, ended, work>>

ReadPyEvent ==
  /\ pc = "py"
  /\ ring.py # <<>>
  /\ Take("py")
  /\ py_events' = Append(py_events, Head(ring.py))
  /\ UNCHANGED <<kvars_but_ring, overwritten, pc, hand, guard_events, tool_name_table>>

(* The object is read, and is a tool or is not; what was read of it is in   *)
(* hand.tool.                                                               *)
ReadCandidate ==
  /\ pc = "resolver"
  /\ ring.resolver # <<>>
  /\ Take("resolver")
  /\ LET e == Head(ring.resolver)
     IN  \/ pc' = "insert_obj" /\ hand' = [ctx |-> e.ctx, tool |-> e.tool, found |-> {}]
         \/ /\ pc' = IF e.ctx = NO_CTX THEN "resolver" ELSE "get_ctx"
            /\ hand' = IF e.ctx = NO_CTX THEN Nothing
                       ELSE [ctx |-> e.ctx, tool |-> TOOL_IDLE, found |-> {}]
  /\ UNCHANGED <<kvars_but_ring, overwritten, py_events, guard_events, tool_name_table>>

(* Done with a candidate: its name, if it has one, is kept in any case.     *)
CandidateDone ==
  /\ pc' = "resolver"
  /\ hand' = Nothing
  /\ tool_name_table' = tool_name_table \cup ({hand.tool} \ {TOOL_IDLE})

InsertObj ==
  /\ pc = "insert_obj"
  /\ tool_obj' = tool_obj \cup {hand.tool}
  /\ IF hand.ctx = NO_CTX THEN CandidateDone
     ELSE pc' = "get_ctx" /\ UNCHANGED <<hand, tool_name_table>>
  /\ UNCHANGED <<counter, holders, tool_ctx, pending, now, ring, lost, ended, work,
                 overwritten, py_events, guard_events>>

(* Faulty variant: a name is not worth keeping when the context has ended.  *)
GetCtx_forgets ==
  /\ pc = "get_ctx"
  /\ IF tool_ctx[hand.ctx] = {}
     THEN pc' = "resolver" /\ hand' = Nothing
     ELSE pc' = "insert_ctx" /\ hand' = [hand EXCEPT !.found = tool_ctx[hand.ctx]]
  /\ UNCHANGED <<kvars, overwritten, py_events, guard_events, tool_name_table>>

GetCtx ==
  /\ pc = "get_ctx"
  /\ IF tool_ctx[hand.ctx] = {} THEN CandidateDone
     ELSE /\ pc' = "insert_ctx"
          /\ hand' = [hand EXCEPT !.found = tool_ctx[hand.ctx]]
          /\ UNCHANGED tool_name_table
  /\ UNCHANGED <<kvars, overwritten, py_events, guard_events>>

(* Faulty variant: every event without a tool is given this one.            *)
patched_all(evs) ==
  [i \in DOMAIN evs |-> IF evs[i].tool = TOOL_IDLE
                        THEN [evs[i] EXCEPT !.tool = hand.tool] ELSE evs[i]]

(* The context's events that were read without a tool are given it.         *)
patched(evs) ==
  [i \in DOMAIN evs |-> IF evs[i].ctx = hand.ctx /\ evs[i].tool = TOOL_IDLE
                        THEN [evs[i] EXCEPT !.tool = hand.tool] ELSE evs[i]]

(* The copy is written back whole: with the tool id, or, for a failure,     *)
(* without one and with the mark.                                           *)
InsertCtx ==
  /\ pc = "insert_ctx"
  /\ tool_ctx' = [tool_ctx EXCEPT ![hand.ctx] =
                    {[x EXCEPT !.tool = hand.tool, !.error = @ \/ hand.tool = TOOL_IDLE] :
                       x \in hand.found}]
  /\ overwritten' = IF tool_ctx[hand.ctx] \in {{}, hand.found} THEN overwritten
                    ELSE overwritten \cup {hand.ctx}
  /\ py_events' = patched(py_events)
  /\ CandidateDone
  /\ UNCHANGED <<counter, holders, tool_obj, pending, now, ring, lost, ended, work, guard_events>>

guard_tool_name(e) ==
  IF e.known THEN IF e.tool \in tool_name_table THEN e.tool ELSE "unnamed"
  ELSE TOOL_IDLE

ReadGuardEvent ==
  /\ pc = "guard"
  /\ ring.guard # <<>>
  /\ Take("guard")
  /\ LET e == Head(ring.guard)
     IN  guard_events' = Append(guard_events, [ctx |-> e.ctx, ts |-> e.ts, tool |-> e.tool,
                                               known |-> e.known, name |-> guard_tool_name(e)])
  /\ UNCHANGED <<kvars_but_ring, overwritten, pc, hand, py_events, tool_name_table>>

LoopStep ==
  \/ ReadPyEvent \/ Drained("py", "resolver")
  \/ ReadCandidate \/ InsertObj \/ GetCtx \/ InsertCtx \/ Drained("resolver", "guard")
  \/ ReadGuardEvent \/ Drained("guard", "top")

-----------------------------------------------------------------------------
(* The report: what is computed from the events that were read.             *)

events_of(kind) == {i \in DOMAIN py_events : py_events[i].kind = kind}
balanced == Cardinality(events_of(START)) = Cardinality(events_of(END))

tool_dispatches(t) == Cardinality({i \in events_of(END) : py_events[i].tool = t})

(* Faulty variant: a context without an end has no bracket.                 *)
in_bracket_closed(ge) ==
  \E i \in events_of(START), j \in events_of(END) :
    /\ i < j /\ py_events[i].ctx = ge.ctx /\ py_events[j].ctx = ge.ctx
    /\ py_events[i].ts <= ge.ts /\ ge.ts <= py_events[j].ts

(* From a start to the end that comes after it, or for ever.                *)
in_bracket(ge) ==
  \E i \in events_of(START) :
    /\ py_events[i].ctx = ge.ctx
    /\ py_events[i].ts <= ge.ts
    /\ \A j \in events_of(END) : i < j /\ py_events[j].ctx = ge.ctx => ge.ts <= py_events[j].ts

bracket_violations ==
  {i \in DOMAIN guard_events :
     guard_events[i].ctx # NO_CTX /\ ~in_bracket(guard_events[i])}

-----------------------------------------------------------------------------
Unread(kind, c) == \E i \in DOMAIN ring.py : ring.py[i].kind = kind /\ ring.py[i].ctx = c
Missed(kind, c) == <<kind, c>> \in lost \/ Unread(kind, c)

(* A violation in the report is no operation outside its tool's time: it is *)
(* one of a context whose start the daemon has not seen, because PY_EVENTS  *)
(* was full or because the loop was left after the guard events were read   *)
(* and before the next turn read the start (bracket_check, main.rs).        *)
BracketVerdict ==
  pc = "report" => \A i \in bracket_violations : Missed(START, guard_events[i].ctx)

(* Each dispatch whose tool was known when it ended, and whose end was read,*)
(* is counted once and under its own tool, and no other dispatch is: the    *)
(* tool ids that InsertCtx fills in later never reach an end event.         *)
DispatchesCounted ==
  pc = "report" => \A t \in Tools :
    tool_dispatches(t) =
      Cardinality({c \in Ids : ended[c] = {t} /\ work[c] = {t} /\ ~Missed(END, c)})

(* A guard event of a known tool is written with the tool's name: the name  *)
(* is in the table before the event is read, although the kernel knew the   *)
(* id earlier, and also when the context that asked for it had ended.       *)
NamesKnown == \A i \in DOMAIN guard_events :
  guard_events[i].known => guard_events[i].name = guard_events[i].tool

(* With all events read, the report is balanced exactly when no context is  *)
(* carried any more, unless the daemon wrote a copy back over a change of   *)
(* the carriers, after which a context ends too early or never (carrier_dec,*)
(* the balanced field).                                                     *)
BalancedTells ==
  pc = "report" /\ ring.py = <<>> /\ lost = {} /\ overwritten = {} =>
    (balanced <=> \A c \in Ids : holders[c] = {})
=============================================================================
