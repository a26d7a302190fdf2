---------------------------- MODULE ContextLife ----------------------------
(***************************************************************************)
(* What the tracker promises of a tool context, whatever probes, stacks and *)
(* parked closes bring it about: it is numbered when it is made, it is      *)
(* handed from holder to holder, it ends when its last holder lets go of    *)
(* it, and it never comes back.  One handler may do this to several         *)
(* contexts at once.                                                        *)
(***************************************************************************)
EXTENDS Naturals

CONSTANTS
  Ids,     \* context ids, numbers from 1 on
  Holders  \* what may hold a context: frames, tasks, work objects, threads

VARIABLES
  last,    \* the last id that was given out
  live,    \* the contexts in being
  holders  \* who holds each context

cvars == <<last, live, holders>>

Init ==
  /\ last = 0
  /\ live = {}
  /\ holders = [c \in Ids |-> {}]

(* A new id; numbers that were passed over are not used later.              *)
Start(c) == c \notin live /\ c \in (last + 1)..last' /\ c \in live' /\ holders'[c] # {}

(* Holders come, as long as there is one, and go, all but one.              *)
Pass(c) == c \in live /\ c \in live' /\ holders'[c] # {}

End(c) == c \in live /\ c \notin live' /\ holders'[c] = {}

Absent(c) == c \notin live /\ c \notin live' /\ holders'[c] = {}

Next ==
  /\ last' \in Nat /\ last <= last'
  /\ live' \subseteq Ids
  /\ holders' \in [Ids -> SUBSET Holders]
  /\ \A c \in Ids : Start(c) \/ Pass(c) \/ End(c) \/ Absent(c)

Spec == Init /\ [][Next]_cvars
=============================================================================
