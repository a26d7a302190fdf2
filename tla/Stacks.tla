------------------------------- MODULE Stacks -------------------------------
(***************************************************************************)
(* The slot loops over the per-thread and per-task stacks of the maps, as  *)
(* operators on sequences.  They are the operators of those names of the   *)
(* community module SequencesExt, which is not extended itself: it brings  *)
(* Bags and with it two libraries of theorems into the context of every    *)
(* proof about the tracker.                                                *)
(***************************************************************************)
EXTENDS Naturals, Sequences, FiniteSets, FiniteSetsExt

(* Some slot of stack s holds e.                                            *)
Contains(s, e) == \E i \in 1..Len(s) : s[i] = e

(* The top of a stack, and the stack below it.                              *)
Last(s) == s[Len(s)]
Front(s) == SubSeq(s, 1, Len(s) - 1)

(* Slot i is overwritten in place.                                          *)
ReplaceAt(s, i, e) == [s EXCEPT ![i] = e]

(* Slot i is taken out and the slots above it move down by one.             *)
RemoveAt(s, i) == SubSeq(s, 1, i - 1) \o SubSeq(s, i + 1, Len(s))

(* The lowest slot whose entry passes the test, 0 when none does.           *)
SelectInSeq(s, Test(_)) ==
  LET hits == {i \in 1..Len(s) : Test(s[i])}
  IN  IF hits = {} THEN 0 ELSE Min(hits)

(* The lowest slot that holds e is taken out.                               *)
RemoveFirst(s, e) ==
  IF Contains(s, e) THEN RemoveAt(s, SelectInSeq(s, LAMBDA v : v = e)) ELSE s
=============================================================================
