---------------------------- MODULE LedgerProofs ----------------------------
(***************************************************************************)
(* The books of the tracker: for every context, carrier_count, the map     *)
(* entries that carry it and the events that were emitted for it agree,    *)
(* after every helper and every handler.                                   *)
(***************************************************************************)
EXTENDS FrameProbes, OwnershipProofs

-----------------------------------------------------------------------------
(* The ledger.                                                              *)

(* S has n elements: they can be numbered from 1 to n.                      *)
Numbering(g, S, n) ==
  /\ g \in [1..n -> S]
  /\ \A i, j \in 1..n : g[i] = g[j] => i = j
  /\ \A e \in S : \E i \in 1..n : g[i] = e

Numbered(S, n) == \E g : Numbering(g, S, n)

(* What carries c beside the frame that owns it, and that it is n entries.  *)
Others(m, c) == {p \in carriers(m, c) : p[1] # "frame"}
Sized(m, c, n) == n \in Nat /\ Numbered(Others(m, c), n)
Owned(m, c) == \E f \in Frames : m.FRAME_CTX[f] = c

Unused == [start |-> 0, frame_end |-> 0, context_end |-> 0]
Closed == [start |-> 1, frame_end |-> 1, context_end |-> 1]

(* A context in being.  Until FRAME_END it has a carrier for its frame;     *)
(* with x, the frame is still there.                                        *)
LiveEntry(m, c, x) ==
  /\ c <= m.CTX_COUNTER
  /\ m.events[c].start = 1
  /\ m.events[c].context_end = 0
  /\ m.events[c].frame_end \in {0, 1}
  /\ Sized(m, c, m.TOOL_CTX[c].carrier_count - (1 - m.events[c].frame_end))
  /\ Owned(m, c) => m.events[c].frame_end = 0
  /\ x /\ m.events[c].frame_end = 0 => Owned(m, c)

(* A context that has ended, or an id that was passed over or not yet used. *)
EndedEntry(m, c) ==
  /\ Sized(m, c, 0)
  /\ ~Owned(m, c)
  /\ m.events[c] \in {Unused, Closed}
  /\ c > m.CTX_COUNTER => m.events[c] = Unused

Ledger(m, x) ==
  /\ \A c \in CtxIds : ctx_is_live(m, c) => LiveEntry(m, c, x)
  /\ \A c \in CtxIds : ~ctx_is_live(m, c) => EndedEntry(m, c)
  /\ \A f, g \in Frames : m.FRAME_CTX[f] # NULL /\ m.FRAME_CTX[f] = m.FRAME_CTX[g] => f = g

(* What a handler does to the books: they are right again, and a context    *)
(* that was not there before has a new id.                                  *)
Booked(m, r, x) ==
  /\ r \in MapsType
  /\ Ledger(r, x)
  /\ m.CTX_COUNTER <= r.CTX_COUNTER
  /\ \A c \in CtxIds : ctx_is_live(r, c) /\ ~ctx_is_live(m, c) => c > m.CTX_COUNTER

(* No thread inherits a context but by a fork.                              *)
Forkless(m, r) == \A t \in Tids : r.FORK_CTX[t] \in {NULL, m.FORK_CTX[t]}

Kept(m, r, x) == Booked(m, r, x) /\ Forkless(m, r)

(* The carriers, and what a helper that is not about them leaves alone.     *)
SameCarriers(m, r) ==
  /\ r.CTX_COUNTER = m.CTX_COUNTER
  /\ r.FRAME_CTX = m.FRAME_CTX
  /\ r.TASK_CTX_STACK = m.TASK_CTX_STACK
  /\ r.WORK_CTX = m.WORK_CTX
  /\ r.FORK_CTX = m.FORK_CTX
  /\ r.THREADPOOL_WORKER_CTX = m.THREADPOOL_WORKER_CTX

SameCounts(m, r) ==
  /\ r.events = m.events
  /\ \A c \in CtxIds :
       /\ ctx_is_live(r, c) <=> ctx_is_live(m, c)
       /\ ctx_is_live(m, c) => r.TOOL_CTX[c].carrier_count = m.TOOL_CTX[c].carrier_count

Neutral(m, r) == r \in MapsType /\ SameCarriers(m, r) /\ SameCounts(m, r)

-----------------------------------------------------------------------------
(* Counting.                                                                *)

(* No element is numbered 0 to 0.                                           *)
LEMMA NumberedNone ==
  ASSUME NEW S, NEW n \in Nat
  PROVE  /\ Numbered({}, 0)
         /\ Numbered(S, n) => (n = 0 <=> S = {})
<1>1. Numbering([i \in 1..0 |-> i], {}, 0)
  BY DEF Numbering
<1>2. ASSUME NEW g, Numbering(g, S, n) PROVE n = 0 <=> S = {}
  <2>1. n = 0 => S = {}
    BY <1>2 DEF Numbering
  <2>2. n # 0 => 1 \in 1..n
    OBVIOUS
  <2>3. n # 0 => g[1] \in S
    BY <1>2, <2>2, Zenon DEF Numbering
  <2> QED
    BY <2>1, <2>3, Zenon
<1> QED
  BY <1>1, <1>2, Zenon DEF Numbered

(* A new element makes one more.                                            *)
LEMMA NumberedAdd ==
  ASSUME NEW S, NEW n \in Nat, Numbered(S, n), NEW e, e \notin S
  PROVE  Numbered(S \cup {e}, n + 1)
<1>1. PICK g : Numbering(g, S, n)
  BY DEF Numbered
<1> DEFINE h == [i \in 1..(n + 1) |-> IF i = n + 1 THEN e ELSE g[i]]
<1>2. \A i \in 1..(n + 1) : i = n + 1 \/ i \in 1..n
  OBVIOUS
<1>3. 1..n \subseteq 1..(n + 1) /\ n + 1 \in 1..(n + 1) /\ n + 1 \notin 1..n
  OBVIOUS
<1>4. \A i \in 1..n : h[i] = g[i] /\ g[i] \in S /\ g[i] # e
  BY <1>1, <1>3 DEF Numbering
<1>5. h[n + 1] = e
  BY <1>3
<1>6. h \in [1..(n + 1) -> S \cup {e}]
  BY <1>1, <1>2 DEF Numbering
<1> HIDE DEF h
<1>7. \A i, j \in 1..(n + 1) : h[i] = h[j] => i = j
  BY <1>1, <1>2, <1>4, <1>5, Zenon DEF Numbering
<1>8. \A d \in S \cup {e} : \E i \in 1..(n + 1) : h[i] = d
  BY <1>1, <1>3, <1>4, <1>5, Zenon DEF Numbering
<1> QED
  BY <1>6, <1>7, <1>8, Zenon DEF Numbered, Numbering

(* An element less makes one less.                                          *)
LEMMA NumberedRemove ==
  ASSUME NEW S, NEW n \in Nat, Numbered(S, n), NEW e \in S
  PROVE  n - 1 \in Nat /\ Numbered(S \ {e}, n - 1)
<1>1. PICK g : Numbering(g, S, n)
  BY DEF Numbered
<1>2. PICK k \in 1..n : g[k] = e
  BY <1>1, Zenon DEF Numbering
<1> DEFINE z == n - 1
           h == [i \in 1..z |-> IF i = k THEN g[n] ELSE g[i]]
<1>3. z \in Nat /\ n \in 1..n /\ n \notin 1..z /\ 1..z \subseteq 1..n
  OBVIOUS
<1>4. \A i \in 1..n : i = n \/ i \in 1..z
  OBVIOUS
<1>5. \A i \in 1..z : h[i] = IF i = k THEN g[n] ELSE g[i]
  OBVIOUS
<1> HIDE DEF z
<1>6. \A i \in 1..z : h[i] \in S \ {e}
  BY <1>1, <1>2, <1>3, <1>5, Zenon DEF Numbering
<1>7. h \in [1..z -> S \ {e}]
  BY <1>5, <1>6
<1> HIDE DEF h
<1>8. \A i, j \in 1..z : h[i] = h[j] => i = j
  BY <1>1, <1>2, <1>3, <1>5, Zenon DEF Numbering
<1>9. ASSUME NEW d \in S \ {e} PROVE \E i \in 1..z : h[i] = d
  <2>1. PICK i \in 1..n : g[i] = d
    BY <1>1, Zenon DEF Numbering
  <2>2. i # k
    BY <1>2, <2>1, Zenon
  <2>3. CASE i = n
    <3>1. k \in 1..z /\ h[k] = g[n]
      BY <1>4, <1>5, <2>2, <2>3, Zenon
    <3> QED
      BY <2>1, <2>3, <3>1, Zenon
  <2>4. CASE i \in 1..z
    BY <1>5, <2>1, <2>2, <2>4, Zenon
  <2> QED
    BY <1>4, <2>3, <2>4, Zenon
<1>10. Numbered(S \ {e}, z)
  BY <1>7, <1>8, <1>9, Zenon DEF Numbered, Numbering
<1> QED
  BY <1>3, <1>10 DEF z

(* h gives the elements of S new names, one by one.                         *)
Renaming(h, S, T) ==
  /\ h \in [S -> T]
  /\ \A a, b \in S : h[a] = h[b] => a = b
  /\ \A t \in T : \E a \in S : h[a] = t

(* Renamed elements are numbered like the ones they stand for.              *)
LEMMA NumberedMap ==
  ASSUME NEW S, NEW T, NEW n \in Nat, Numbered(S, n), NEW h, Renaming(h, S, T)
  PROVE  Numbered(T, n)
<1>1. PICK g : Numbering(g, S, n)
  BY DEF Numbered
<1> DEFINE u == [i \in 1..n |-> h[g[i]]]
<1>2. \A i \in 1..n : u[i] = h[g[i]] /\ g[i] \in S
  BY <1>1 DEF Numbering
<1>3. u \in [1..n -> T]
  BY <1>2 DEF Renaming
<1> HIDE DEF u
<1>4. ASSUME NEW i \in 1..n, NEW j \in 1..n, u[i] = u[j] PROVE i = j
  <2>1. g[i] \in S /\ g[j] \in S /\ h[g[i]] = h[g[j]]
    BY <1>2, <1>4
  <2>2. g[i] = g[j]
    BY <2>1, Zenon DEF Renaming
  <2> QED
    BY <1>1, <2>2, Zenon DEF Numbering
<1>5. ASSUME NEW t \in T PROVE \E i \in 1..n : u[i] = t
  <2>1. PICK a \in S : h[a] = t
    BY Zenon DEF Renaming
  <2>2. PICK i \in 1..n : g[i] = a
    BY <1>1, Zenon DEF Numbering
  <2> QED
    BY <1>2, <2>1, <2>2
<1> QED
  BY <1>3, <1>4, <1>5, Zenon DEF Numbered, Numbering

-----------------------------------------------------------------------------
(* Handlers compose.                                                        *)

(* Doing nothing is neutral.                                                *)
LEMMA NeutralSelf ==
  ASSUME NEW m \in MapsType
  PROVE  Neutral(m, m)
BY DEF Neutral, SameCarriers, SameCounts

(* Neutral helpers compose.                                                 *)
LEMMA NeutralTrans ==
  ASSUME NEW m, NEW r, NEW s, Neutral(m, r), Neutral(r, s)
  PROVE  Neutral(m, s)
BY DEF Neutral, SameCarriers, SameCounts

(* A helper that leaves the carriers alone leaves every context its carriers. *)
LEMMA SameOthers ==
  ASSUME NEW m, NEW r, SameCarriers(m, r)
  PROVE  \A c : Others(r, c) = Others(m, c) /\ \A n : Sized(r, c, n) <=> Sized(m, c, n)
<1>1. \A p, c : holds(r, p, c) <=> holds(m, p, c)
  BY DEF SameCarriers, holds
<1>2. \A c : carriers(r, c) = carriers(m, c)
  BY <1>1 DEF carriers
<1> QED
  BY <1>2 DEF Others, Sized

(* A handler that does nothing keeps the books.                             *)
LEMMA KeptSelf ==
  ASSUME NEW m \in MapsType, NEW x, Ledger(m, x)
  PROVE  Kept(m, m, x)
<1>1. m.CTX_COUNTER \in Nat
  BY MapsFields
<1> QED
  BY <1>1 DEF Kept, Booked, Forkless

(* A neutral helper keeps the books.                                        *)
LEMMA NeutralKept ==
  ASSUME NEW m \in MapsType, NEW r, NEW x, Ledger(m, x), Neutral(m, r)
  PROVE  Kept(m, r, x)
<1>1. m.CTX_COUNTER \in Nat
  BY MapsFields
<1>2. \A c : Others(r, c) = Others(m, c) /\ \A n : Sized(r, c, n) <=> Sized(m, c, n)
  BY SameOthers DEF Neutral
<1>3. \A c : Owned(r, c) <=> Owned(m, c)
  BY DEF Owned, Neutral, SameCarriers
<1>4. \A c \in CtxIds : /\ ctx_is_live(m, c) /\ LiveEntry(m, c, x) => LiveEntry(r, c, x)
                        /\ EndedEntry(m, c) => EndedEntry(r, c)
  BY <1>2, <1>3 DEF LiveEntry, EndedEntry, Neutral, SameCarriers, SameCounts
<1>5. Ledger(r, x)
  BY <1>2, <1>4 DEF Ledger, Neutral, SameCarriers, SameCounts
<1> QED
  BY <1>1, <1>5 DEF Kept, Booked, Forkless, Neutral, SameCarriers, SameCounts

(* Handlers that keep the books compose.                                    *)
LEMMA KeptTrans ==
  ASSUME NEW m \in MapsType, NEW r, NEW s, NEW x, Kept(m, r, x), Kept(r, s, x)
  PROVE  Kept(m, s, x)
<1>0. r \in MapsType /\ s \in MapsType
  BY DEF Kept, Booked
<1>1. m.CTX_COUNTER \in Nat /\ r.CTX_COUNTER \in Nat /\ s.CTX_COUNTER \in Nat
  BY <1>0, MapsFields
<1>2. m.CTX_COUNTER <= s.CTX_COUNTER
  BY <1>1 DEF Kept, Booked
<1>3. \A c \in CtxIds : ctx_is_live(s, c) /\ ~ctx_is_live(m, c) => c > m.CTX_COUNTER
  BY <1>1, BoundsAssumption DEF Kept, Booked, CtxIds
<1>4. Forkless(m, s)
  BY DEF Kept, Forkless
<1> QED
  BY <1>0, <1>2, <1>3, <1>4 DEF Kept, Booked

-----------------------------------------------------------------------------
(* One carrier more or less.                                                *)

(* r differs from m in the carriers of c alone, beside its frame: one more, *)
(* or one less.                                                             *)
SameBooks(m, r) ==
  /\ r \in MapsType
  /\ r.CTX_COUNTER = m.CTX_COUNTER
  /\ r.FRAME_CTX = m.FRAME_CTX
  /\ SameCounts(m, r)

Added(m, r, c) ==
  /\ SameBooks(m, r)
  /\ \A n : Sized(m, c, n) => Sized(r, c, n + 1)
  /\ \A b \in CtxIds : b # c => \A n : Sized(m, b, n) => Sized(r, b, n)

Removed(m, r, c) ==
  /\ SameBooks(m, r)
  /\ \A n : Sized(m, c, n) => Sized(r, c, n - 1)
  /\ \A b \in CtxIds : b # c => \A n : Sized(m, b, n) => Sized(r, b, n)
  /\ Others(m, c) # {}

(* One map entry that held nothing now holds c.                             *)
LEMMA AddPlace ==
  ASSUME NEW m, NEW r, SameBooks(m, r), NEW p \in Places, p[1] # "frame", NEW c \in CtxIds,
         \A q \in Places : q # p => \A b \in CtxIds : holds(r, q, b) <=> holds(m, q, b),
         \A b \in CtxIds : ~holds(m, p, b),
         \A b \in CtxIds : holds(r, p, b) <=> b = c
  PROVE  Added(m, r, c)
<1>1. \A b \in CtxIds : Others(r, b) = IF b = c THEN Others(m, b) \cup {p} ELSE Others(m, b)
  BY DEF Others, carriers
<1>2. p \notin Others(m, c)
  BY DEF Others, carriers
<1>3. ASSUME NEW n, Sized(m, c, n) PROVE Sized(r, c, n + 1)
  BY <1>1, <1>2, <1>3, NumberedAdd DEF Sized
<1>4. \A b \in CtxIds : b # c => \A n : Sized(m, b, n) => Sized(r, b, n)
  BY <1>1 DEF Sized
<1> QED
  BY <1>3, <1>4 DEF Added

(* One map entry that held c now holds nothing.                             *)
LEMMA RemovePlace ==
  ASSUME NEW m, NEW r, SameBooks(m, r), NEW p \in Places, p[1] # "frame", NEW c \in CtxIds,
         \A q \in Places : q # p => \A b \in CtxIds : holds(r, q, b) <=> holds(m, q, b),
         \A b \in CtxIds : holds(m, p, b) <=> b = c,
         \A b \in CtxIds : ~holds(r, p, b)
  PROVE  Removed(m, r, c)
<1>1. \A b \in CtxIds : Others(r, b) = IF b = c THEN Others(m, b) \ {p} ELSE Others(m, b)
  BY DEF Others, carriers
<1>2. p \in Others(m, c)
  BY DEF Others, carriers
<1>3. ASSUME NEW n, Sized(m, c, n) PROVE Sized(r, c, n - 1)
  BY <1>1, <1>2, <1>3, NumberedRemove DEF Sized
<1>4. \A b \in CtxIds : b # c => \A n : Sized(m, b, n) => Sized(r, b, n)
  BY <1>1 DEF Sized
<1> QED
  BY <1>2, <1>3, <1>4 DEF Removed

-----------------------------------------------------------------------------
(* The count follows.                                                       *)

(* Nothing the books say of b is different.                                 *)
SameEntry(m, r, b) ==
  /\ ctx_is_live(r, b) <=> ctx_is_live(m, b)
  /\ ctx_is_live(m, b) => r.TOOL_CTX[b].carrier_count = m.TOOL_CTX[b].carrier_count
  /\ r.events[b] = m.events[b]
  /\ \A n : Sized(m, b, n) => Sized(r, b, n)
  /\ Owned(r, b) <=> Owned(m, b)

(* Only the entry of c has to be looked at when the others are the same.    *)
LEMMA Rebook ==
  ASSUME NEW m \in MapsType, NEW r \in MapsType, NEW x, Ledger(m, x), NEW c \in CtxIds,
         m.CTX_COUNTER <= r.CTX_COUNTER,
         \A b \in CtxIds : b # c => SameEntry(m, r, b),
         ctx_is_live(r, c) => LiveEntry(r, c, x),
         ctx_is_live(r, c) /\ ~ctx_is_live(m, c) => c > m.CTX_COUNTER,
         ~ctx_is_live(r, c) => EndedEntry(r, c),
         \A f, g \in Frames : r.FRAME_CTX[f] # NULL /\ r.FRAME_CTX[f] = r.FRAME_CTX[g] => f = g
  PROVE  Booked(m, r, x)
<1>1. m.CTX_COUNTER \in Nat /\ r.CTX_COUNTER \in Nat
  BY MapsFields
<1>2. ASSUME NEW b \in CtxIds, b # c
      PROVE  /\ ctx_is_live(m, b) /\ LiveEntry(m, b, x) => LiveEntry(r, b, x)
             /\ EndedEntry(m, b) => EndedEntry(r, b)
  <2>1. b \in Nat
    BY BoundsAssumption DEF CtxIds
  <2> QED
    BY <1>1, <1>2, <2>1 DEF LiveEntry, EndedEntry, SameEntry
<1>3. Ledger(r, x)
  BY <1>2 DEF Ledger, SameEntry
<1> QED
  BY <1>3 DEF Booked, SameEntry

(* The count of a live context is a number, and so are the sizes.           *)
LEMMA EntryTypes ==
  ASSUME NEW m \in MapsType, NEW x, Ledger(m, x), NEW c \in CtxIds
  PROVE  /\ \A n : Sized(m, c, n) => n \in Nat /\ (n = 0 <=> Others(m, c) = {})
         /\ m.events[c] \in EventCounts
         /\ ctx_is_live(m, c) => m.TOOL_CTX[c] \in ToolCtx
         /\ ctx_is_live(m, c) => m.TOOL_CTX[c].carrier_count \in Nat \ {0}
<1>1. \A n : Sized(m, c, n) => n \in Nat /\ (n = 0 <=> Others(m, c) = {})
  BY NumberedNone DEF Sized
<1>3. m.events[c] \in EventCounts
  BY MapsFields
<1>4. ctx_is_live(m, c) => m.TOOL_CTX[c] \in ToolCtx
  BY LiveType DEF CtxOrNull
<1> QED
  BY <1>1, <1>3, <1>4 DEF ToolCtx

(* What carries a context or owns it keeps it alive.                        *)
LEMMA CarriedIsLive ==
  ASSUME NEW m \in MapsType, NEW x, Ledger(m, x), NEW c \in CtxIds,
         Others(m, c) # {} \/ Owned(m, c)
  PROVE  ctx_is_live(m, c) /\ LiveEntry(m, c, x)
BY EntryTypes DEF Ledger, EndedEntry

(* A carrier that was added is counted (ctx_carrier_inc).                   *)
LEMMA IncAdded ==
  ASSUME NEW m \in MapsType, NEW x, Ledger(m, x), NEW r, NEW c \in CtxIds,
         Added(m, r, c), ctx_is_live(m, c)
  PROVE  Booked(m, carrier_inc(r, c), x) /\ carrier_inc(r, c).FORK_CTX = r.FORK_CTX
<1> DEFINE v == [r.TOOL_CTX[c] EXCEPT !.carrier_count = @ + 1]
           s == [r EXCEPT !.TOOL_CTX[c] = v]
<1>0. r \in MapsType
  BY DEF Added, SameBooks
<1>1. ctx_is_live(r, c) /\ r.TOOL_CTX[c].carrier_count = m.TOOL_CTX[c].carrier_count
  BY DEF Added, SameBooks, SameCounts
<1>2. carrier_inc(r, c) = s
  BY <1>1 DEF carrier_inc
<1>3. r.TOOL_CTX[c] \in ToolCtx
  BY <1>0, <1>1, LiveType DEF CtxOrNull
<1>4. v \in ToolCtx /\ v # NULL /\ v.carrier_count = m.TOOL_CTX[c].carrier_count + 1
  BY <1>1, <1>3, NullAssumption DEF ToolCtx
<1> HIDE DEF v
<1>5. s \in MapsType /\ SameCarriers(r, s) /\ s.events = r.events
      /\ s.TOOL_CTX = [r.TOOL_CTX EXCEPT ![c] = v]
  BY <1>0, <1>4, Zenon DEF MapsType, SameCarriers
<1> HIDE DEF s
<1>6. r.TOOL_CTX \in [CtxIds -> ToolCtx \cup {NULL}]
  BY <1>0, MapsFields
<1>7. \A b : Others(s, b) = Others(r, b) /\ \A n : Sized(s, b, n) <=> Sized(r, b, n)
  BY <1>5, SameOthers
<1>8. /\ \A n : Sized(m, c, n) => Sized(s, c, n + 1)
      /\ \A b \in CtxIds : b # c => \A n : Sized(m, b, n) => Sized(s, b, n)
  BY <1>7 DEF Added
<1>9. s.CTX_COUNTER = m.CTX_COUNTER /\ s.FRAME_CTX = m.FRAME_CTX /\ s.events = m.events
  BY <1>5 DEF SameCarriers, Added, SameBooks, SameCounts
<1>10. \A b : Owned(s, b) <=> Owned(m, b)
  BY <1>9 DEF Owned
<1>11. ctx_is_live(s, c) /\ s.TOOL_CTX[c].carrier_count = m.TOOL_CTX[c].carrier_count + 1
  BY <1>1, <1>4, <1>5, <1>6 DEF ctx_is_live
<1>12. \A b \in CtxIds : b # c => SameEntry(m, s, b)
  <2>1. \A b \in CtxIds : b # c => s.TOOL_CTX[b] = r.TOOL_CTX[b]
    BY <1>5, <1>6
  <2> QED
    BY <1>8, <1>9, <1>10, <2>1 DEF SameEntry, Added, SameBooks, SameCounts, ctx_is_live
<1>13. LiveEntry(s, c, x)
  <2>1. LiveEntry(m, c, x)
    BY DEF Ledger
  <2>2. m.events[c] \in EventCounts /\ m.TOOL_CTX[c].carrier_count \in Nat
    BY EntryTypes
  <2> DEFINE n == m.TOOL_CTX[c].carrier_count - (1 - m.events[c].frame_end)
  <2>3. Sized(s, c, n + 1)
    BY <1>8, <2>1 DEF LiveEntry
  <2>4. n + 1 = s.TOOL_CTX[c].carrier_count - (1 - s.events[c].frame_end)
    BY <1>9, <1>11, <2>2 DEF EventCounts
  <2> HIDE DEF n
  <2> QED
    BY <1>9, <1>10, <2>1, <2>3, <2>4 DEF LiveEntry
<1>14. m.CTX_COUNTER \in Nat
  BY MapsFields
<1>15. Booked(m, s, x)
  <2>1. m.CTX_COUNTER <= s.CTX_COUNTER
    BY <1>9, <1>14
  <2>2. \A f, g \in Frames : s.FRAME_CTX[f] # NULL /\ s.FRAME_CTX[f] = s.FRAME_CTX[g] => f = g
    BY <1>9 DEF Ledger
  <2> QED
    BY <1>5, <1>11, <1>12, <1>13, <2>1, <2>2, Rebook
<1> QED
  BY <1>2, <1>5, <1>15 DEF SameCarriers

(* The record carrier_dec makes of one in which c is live.                  *)
LEMMA DecFields ==
  ASSUME NEW r \in MapsType, NEW c \in CtxIds, ctx_is_live(r, c)
  PROVE  /\ carrier_dec(r, c) \in MapsType
         /\ SameCarriers(r, carrier_dec(r, c))
         /\ \A b \in CtxIds : b # c => /\ carrier_dec(r, c).events[b] = r.events[b]
                                       /\ carrier_dec(r, c).TOOL_CTX[b] = r.TOOL_CTX[b]
         /\ r.TOOL_CTX[c].carrier_count > 1 =>
              /\ ctx_is_live(carrier_dec(r, c), c)
              /\ carrier_dec(r, c).TOOL_CTX[c].carrier_count = r.TOOL_CTX[c].carrier_count - 1
              /\ carrier_dec(r, c).events[c] = r.events[c]
         /\ ~(r.TOOL_CTX[c].carrier_count > 1) =>
              /\ ~ctx_is_live(carrier_dec(r, c), c)
              /\ carrier_dec(r, c).events[c] = [r.events[c] EXCEPT !.context_end = @ + 1]
<1> DEFINE v == [r.TOOL_CTX[c] EXCEPT !.carrier_count = @ - 1]
           e == [r.events[c] EXCEPT !.context_end = @ + 1]
           a == [r EXCEPT !.TOOL_CTX[c] = v]
           z == [r EXCEPT !.TOOL_CTX[c] = NULL, !.events[c] = e]
<1>1. carrier_dec(r, c) = IF r.TOOL_CTX[c].carrier_count > 1 THEN a ELSE z
  BY DEF carrier_dec
<1>2. r.TOOL_CTX[c] \in ToolCtx /\ r.events[c] \in EventCounts
      /\ r.TOOL_CTX \in [CtxIds -> ToolCtx \cup {NULL}] /\ r.events \in [CtxIds -> EventCounts]
  BY LiveType, MapsFields DEF CtxOrNull
<1>3. CASE r.TOOL_CTX[c].carrier_count > 1
  <2>1. v \in ToolCtx /\ v # NULL /\ v.carrier_count = r.TOOL_CTX[c].carrier_count - 1
    BY <1>2, <1>3, NullAssumption DEF ToolCtx
  <2> HIDE DEF v
  <2>2. a \in MapsType /\ SameCarriers(r, a) /\ a.events = r.events
        /\ a.TOOL_CTX = [r.TOOL_CTX EXCEPT ![c] = v]
    BY <2>1, Zenon DEF MapsType, SameCarriers
  <2>3. carrier_dec(r, c) = a
    BY <1>1, <1>3
  <2> HIDE DEF a
  <2> QED
    BY <1>2, <1>3, <2>1, <2>2, <2>3 DEF ctx_is_live
<1>4. CASE ~(r.TOOL_CTX[c].carrier_count > 1)
  <2>1. e \in EventCounts
    BY <1>2 DEF EventCounts
  <2>2. carrier_dec(r, c) = z
    BY <1>1, <1>4
  <2> HIDE DEF e
  <2>3. z \in MapsType /\ SameCarriers(r, z) /\ z.events = [r.events EXCEPT ![c] = e]
        /\ z.TOOL_CTX = [r.TOOL_CTX EXCEPT ![c] = NULL]
    BY <2>1, Zenon DEF MapsType, SameCarriers
  <2> HIDE DEF z
  <2>4. z.events[c] = e /\ \A b \in CtxIds : b # c => z.events[b] = r.events[b]
    BY <1>2, <2>3
  <2>5. z.TOOL_CTX[c] = NULL /\ \A b \in CtxIds : b # c => z.TOOL_CTX[b] = r.TOOL_CTX[b]
    BY <1>2, <2>3
  <2> QED
    BY <1>4, <2>2, <2>3, <2>4, <2>5 DEF ctx_is_live, e
<1> QED
  BY <1>3, <1>4

(* A carrier that was taken away is no longer counted, and the context ends *)
(* with its last one (ctx_carrier_dec).                                     *)
LEMMA DecRemoved ==
  ASSUME NEW m \in MapsType, NEW x, Ledger(m, x), NEW r, NEW c \in CtxIds,
         Removed(m, r, c)
  PROVE  Booked(m, carrier_dec(r, c), x) /\ carrier_dec(r, c).FORK_CTX = r.FORK_CTX
<1> DEFINE s == carrier_dec(r, c)
<1>0. r \in MapsType
  BY DEF Removed, SameBooks
<1>1. ctx_is_live(m, c) /\ LiveEntry(m, c, x) /\ Others(m, c) # {}
  BY CarriedIsLive DEF Removed
<1>2. ctx_is_live(r, c) /\ r.TOOL_CTX[c].carrier_count = m.TOOL_CTX[c].carrier_count
  BY <1>1 DEF Removed, SameBooks, SameCounts
<1>3. /\ s \in MapsType
      /\ SameCarriers(r, s)
      /\ \A b \in CtxIds : b # c => s.events[b] = r.events[b] /\ s.TOOL_CTX[b] = r.TOOL_CTX[b]
      /\ r.TOOL_CTX[c].carrier_count > 1 =>
              /\ ctx_is_live(s, c)
              /\ s.TOOL_CTX[c].carrier_count = r.TOOL_CTX[c].carrier_count - 1
              /\ s.events[c] = r.events[c]
      /\ ~(r.TOOL_CTX[c].carrier_count > 1) =>
              /\ ~ctx_is_live(s, c)
              /\ s.events[c] = [r.events[c] EXCEPT !.context_end = @ + 1]
  BY <1>0, <1>2, DecFields
<1> HIDE DEF s
<1>4. /\ \A n : Sized(m, c, n) => Sized(s, c, n - 1)
      /\ \A b \in CtxIds : b # c => \A n : Sized(m, b, n) => Sized(s, b, n)
  BY <1>3, SameOthers DEF Removed
<1>5. s.CTX_COUNTER = m.CTX_COUNTER /\ s.FRAME_CTX = m.FRAME_CTX /\ r.events = m.events
  BY <1>3 DEF SameCarriers, Removed, SameBooks, SameCounts
<1>6. \A b : Owned(s, b) <=> Owned(m, b)
  BY <1>5 DEF Owned
<1>7. \A b \in CtxIds : b # c => SameEntry(m, s, b)
  BY <1>3, <1>4, <1>5, <1>6 DEF SameEntry, Removed, SameBooks, SameCounts, ctx_is_live
<1> DEFINE n == m.TOOL_CTX[c].carrier_count - (1 - m.events[c].frame_end)
<1>8. /\ n \in Nat \ {0}
      /\ Sized(s, c, n - 1)
      /\ m.events[c] \in EventCounts
      /\ m.TOOL_CTX[c].carrier_count \in Nat
  BY <1>1, <1>4, EntryTypes DEF LiveEntry
<1>14. m.TOOL_CTX[c].carrier_count \in Nat \ {0}
  BY <1>1, EntryTypes
<1>9. ASSUME ctx_is_live(s, c) PROVE LiveEntry(s, c, x)
  <2>1. n - 1 = s.TOOL_CTX[c].carrier_count - (1 - s.events[c].frame_end)
    BY <1>2, <1>3, <1>5, <1>8, <1>9 DEF EventCounts
  <2> HIDE DEF n
  <2>2. Sized(s, c, s.TOOL_CTX[c].carrier_count - (1 - s.events[c].frame_end))
    BY <1>8, <2>1, Zenon
  <2> QED
    BY <1>1, <1>2, <1>3, <1>5, <1>6, <1>9, <2>2 DEF LiveEntry
<1>10. ~ctx_is_live(s, c) => EndedEntry(s, c)
  <2> SUFFICES ASSUME ~ctx_is_live(s, c) PROVE EndedEntry(s, c)
    OBVIOUS
  <2>1. m.TOOL_CTX[c].carrier_count = 1 /\ s.events[c] = [m.events[c] EXCEPT !.context_end = @ + 1]
    BY <1>2, <1>3, <1>5, <1>14
  <2>2. n - 1 = 0 /\ m.events[c].frame_end = 1
    BY <1>1, <1>8, <2>1 DEF LiveEntry, EventCounts
  <2>3. ~Owned(s, c) /\ Sized(s, c, 0)
    BY <1>1, <1>6, <1>8, <2>2 DEF LiveEntry
  <2>4. s.events[c] = Closed
    BY <1>1, <1>8, <2>1, <2>2 DEF LiveEntry, EventCounts, Closed
  <2>5. c <= s.CTX_COUNTER /\ s.CTX_COUNTER \in Nat /\ c \in Nat
    BY <1>1, <1>5, MapsFields, BoundsAssumption DEF LiveEntry, CtxIds
  <2> QED
    BY <2>3, <2>4, <2>5 DEF EndedEntry
<1>11. m.CTX_COUNTER <= s.CTX_COUNTER
  BY <1>5, MapsFields
<1>12. \A f, g \in Frames : s.FRAME_CTX[f] # NULL /\ s.FRAME_CTX[f] = s.FRAME_CTX[g] => f = g
  BY <1>5 DEF Ledger
<1>13. Booked(m, s, x)
  BY <1>1, <1>3, <1>7, <1>9, <1>10, <1>11, <1>12, Rebook
<1> QED
  BY <1>3, <1>13 DEF SameCarriers, s

-----------------------------------------------------------------------------
(* Writes to the maps that hold carriers.                                   *)

(* A number is not NULL, so that an empty entry holds no context.           *)
LEMMA CtxNotNull ==
  ASSUME NEW c \in CtxIds
  PROVE  c # NULL /\ c \in Nat
BY NullAssumption, BoundsAssumption DEF CtxIds

(* A work object that carried nothing is made to carry c, or is emptied.    *)
LEMMA WorkPlace ==
  ASSUME NEW m \in MapsType, NEW r, SameBooks(m, r), NEW kind \in RunKinds, NEW w \in Works,
         NEW v, r.WORK_CTX = [m.WORK_CTX EXCEPT ![kind][w] = v],
         r.TASK_CTX_STACK = m.TASK_CTX_STACK, r.FORK_CTX = m.FORK_CTX,
         r.THREADPOOL_WORKER_CTX = m.THREADPOOL_WORKER_CTX
  PROVE  /\ m.WORK_CTX[kind][w] = NULL /\ v \in CtxIds => Added(m, r, v)
         /\ m.WORK_CTX[kind][w] \in CtxIds /\ v = NULL => Removed(m, r, m.WORK_CTX[kind][w])
<1> DEFINE p == <<"work", w, kind>>
<1>1. p \in Places /\ p[1] # "frame"
  BY DEF Places
<1>2. m.WORK_CTX \in [RunKinds -> [Works -> CtxOrNull]]
  BY MapsFields
<1>3. \A k \in RunKinds, u \in Works : k # kind \/ u # w => r.WORK_CTX[k][u] = m.WORK_CTX[k][u]
  BY <1>2
<1>4. r.WORK_CTX[kind][w] = v
  BY <1>2
<1>5. r.FRAME_CTX = m.FRAME_CTX
  BY DEF SameBooks
<1>6. \A q \in Places : q # p => \A b \in CtxIds : holds(r, q, b) <=> holds(m, q, b)
  <2>1. \A q \in Places : q[1] = "work" /\ q # p =>
          q[2] \in Works /\ q[3] \in RunKinds /\ (q[3] # kind \/ q[2] # w)
    BY DEF Places
  <2> QED
    BY <1>3, <1>5, <2>1 DEF holds
<1>7. \A b \in CtxIds : /\ holds(m, p, b) <=> m.WORK_CTX[kind][w] = b
                        /\ holds(r, p, b) <=> v = b
  BY <1>4 DEF holds
<1>8. \A b \in CtxIds : b # NULL
  BY CtxNotNull
<1>9. ASSUME m.WORK_CTX[kind][w] = NULL, v \in CtxIds
      PROVE  Added(m, r, v)
  BY <1>1, <1>6, <1>7, <1>8, <1>9, AddPlace
<1>10. ASSUME m.WORK_CTX[kind][w] \in CtxIds, v = NULL
       PROVE  Removed(m, r, m.WORK_CTX[kind][w])
  BY <1>1, <1>6, <1>7, <1>8, <1>10, RemovePlace
<1> QED
  BY <1>9, <1>10

(* The same for the context a thread inherits.                              *)
LEMMA ForkPlace ==
  ASSUME NEW m \in MapsType, NEW r, SameBooks(m, r), NEW t \in Tids,
         NEW v, r.FORK_CTX = [m.FORK_CTX EXCEPT ![t] = v],
         r.TASK_CTX_STACK = m.TASK_CTX_STACK, r.WORK_CTX = m.WORK_CTX,
         r.THREADPOOL_WORKER_CTX = m.THREADPOOL_WORKER_CTX
  PROVE  /\ m.FORK_CTX[t] = NULL /\ v \in CtxIds => Added(m, r, v)
         /\ m.FORK_CTX[t] \in CtxIds /\ v = NULL => Removed(m, r, m.FORK_CTX[t])
<1> DEFINE p == <<"fork", t, 0>>
<1>1. p \in Places /\ p[1] # "frame"
  BY DEF Places
<1>2. m.FORK_CTX \in [Tids -> CtxOrNull]
  BY MapsFields
<1>3. r.FORK_CTX[t] = v /\ \A u \in Tids : u # t => r.FORK_CTX[u] = m.FORK_CTX[u]
  BY <1>2
<1>4. r.FRAME_CTX = m.FRAME_CTX
  BY DEF SameBooks
<1>5. \A q \in Places : q # p => \A b \in CtxIds : holds(r, q, b) <=> holds(m, q, b)
  <2>1. \A q \in Places : q[1] = "fork" /\ q # p => q[2] \in Tids /\ q[2] # t
    BY DEF Places
  <2> QED
    BY <1>3, <1>4, <2>1 DEF holds
<1>6. \A b \in CtxIds : /\ holds(m, p, b) <=> m.FORK_CTX[t] = b
                        /\ holds(r, p, b) <=> v = b
  BY <1>3 DEF holds
<1>7. \A b \in CtxIds : b # NULL
  BY CtxNotNull
<1>8. ASSUME m.FORK_CTX[t] = NULL, v \in CtxIds
      PROVE  Added(m, r, v)
  BY <1>1, <1>5, <1>6, <1>7, <1>8, AddPlace
<1>9. ASSUME m.FORK_CTX[t] \in CtxIds, v = NULL
      PROVE  Removed(m, r, m.FORK_CTX[t])
  BY <1>1, <1>5, <1>6, <1>7, <1>9, RemovePlace
<1> QED
  BY <1>8, <1>9

(* The same for a pool worker.                                              *)
LEMMA PoolPlace ==
  ASSUME NEW m \in MapsType, NEW r, SameBooks(m, r), NEW t \in Tids,
         NEW v, r.THREADPOOL_WORKER_CTX = [m.THREADPOOL_WORKER_CTX EXCEPT ![t] = v],
         r.TASK_CTX_STACK = m.TASK_CTX_STACK, r.WORK_CTX = m.WORK_CTX, r.FORK_CTX = m.FORK_CTX
  PROVE  /\ m.THREADPOOL_WORKER_CTX[t] = NULL /\ v \in WorkerLocalCtx => Added(m, r, v.ctx_id)
         /\ m.THREADPOOL_WORKER_CTX[t] \in WorkerLocalCtx /\ v = NULL =>
              Removed(m, r, m.THREADPOOL_WORKER_CTX[t].ctx_id)
<1> DEFINE p == <<"pool", t, 0>>
<1>1. p \in Places /\ p[1] # "frame"
  BY DEF Places
<1>2. m.THREADPOOL_WORKER_CTX \in [Tids -> WorkerLocalCtx \cup {NULL}]
  BY MapsFields
<1>3. /\ r.THREADPOOL_WORKER_CTX[t] = v
      /\ \A u \in Tids : u # t => r.THREADPOOL_WORKER_CTX[u] = m.THREADPOOL_WORKER_CTX[u]
  BY <1>2
<1>4. r.FRAME_CTX = m.FRAME_CTX
  BY DEF SameBooks
<1>5. \A q \in Places : q # p => \A b \in CtxIds : holds(r, q, b) <=> holds(m, q, b)
  <2>1. \A q \in Places : q[1] = "pool" /\ q # p => q[2] \in Tids /\ q[2] # t
    BY DEF Places
  <2> QED
    BY <1>3, <1>4, <2>1 DEF holds
<1>6. \A b \in CtxIds :
        /\ holds(m, p, b) <=> m.THREADPOOL_WORKER_CTX[t] # NULL /\ m.THREADPOOL_WORKER_CTX[t].ctx_id = b
        /\ holds(r, p, b) <=> v # NULL /\ v.ctx_id = b
  BY <1>3 DEF holds
<1>7. NULL \notin WorkerLocalCtx /\ \A e \in WorkerLocalCtx : e.ctx_id \in CtxIds
  BY NullAssumption DEF WorkerLocalCtx
<1>8. ASSUME m.THREADPOOL_WORKER_CTX[t] = NULL, v \in WorkerLocalCtx
      PROVE  Added(m, r, v.ctx_id)
  BY <1>1, <1>5, <1>6, <1>7, <1>8, AddPlace
<1>9. ASSUME m.THREADPOOL_WORKER_CTX[t] \in WorkerLocalCtx, v = NULL
      PROVE  Removed(m, r, m.THREADPOOL_WORKER_CTX[t].ctx_id)
  BY <1>1, <1>5, <1>6, <1>7, <1>9, RemovePlace
<1> QED
  BY <1>8, <1>9

(* Where a task stack holds c.                                              *)
LEMMA TaskHolds ==
  ASSUME NEW m, NEW k, NEW i, NEW b
  PROVE  holds(m, <<"task", k, i>>, b) <=>
           i \in DOMAIN m.TASK_CTX_STACK[k] /\ m.TASK_CTX_STACK[k][i] = b
BY DEF holds

(* Only one task stack differs.                                             *)
OneTask(m, r, k, s) ==
  /\ SameBooks(m, r)
  /\ r.TASK_CTX_STACK = [m.TASK_CTX_STACK EXCEPT ![k] = s]
  /\ r.WORK_CTX = m.WORK_CTX
  /\ r.FORK_CTX = m.FORK_CTX
  /\ r.THREADPOOL_WORKER_CTX = m.THREADPOOL_WORKER_CTX

(* The places of the other tasks, and all that are not on a task, are as    *)
(* before.                                                                  *)
LEMMA OtherPlaces ==
  ASSUME NEW m \in MapsType, NEW r, NEW k \in Tasks, NEW s, OneTask(m, r, k, s)
  PROVE  /\ r.TASK_CTX_STACK[k] = s
         /\ \A q \in Places : ~(q[1] = "task" /\ q[2] = k) =>
              \A b : holds(r, q, b) <=> holds(m, q, b)
<1>1. m.TASK_CTX_STACK \in [Tasks -> Stack(CtxIds)]
  BY MapsFields
<1>2. r.TASK_CTX_STACK[k] = s /\ \A j \in Tasks : j # k => r.TASK_CTX_STACK[j] = m.TASK_CTX_STACK[j]
  BY <1>1 DEF OneTask
<1>3. \A q \in Places : q[1] = "task" => q[2] \in Tasks
  BY DEF Places
<1>4. \A q \in Places : ~(q[1] = "task" /\ q[2] = k) => \A b : holds(r, q, b) <=> holds(m, q, b)
  BY <1>2, <1>3 DEF holds, OneTask, SameBooks
<1> QED
  BY <1>2, <1>4

(* A place on the stack of task k.                                          *)
LEMMA TaskPlace ==
  ASSUME NEW q \in Places, NEW k, q[1] = "task", q[2] = k
  PROVE  \E i \in 1..MaxDepth : q = <<"task", k, i>>
BY DEF Places

(* A context pushed on a task stack has one more carrier.                   *)
LEMMA TaskAppend ==
  ASSUME NEW m \in MapsType, NEW r, NEW k \in Tasks, NEW c \in CtxIds,
         ~task_ctx_full(m, k), OneTask(m, r, k, Append(m.TASK_CTX_STACK[k], c))
  PROVE  Added(m, r, c)
<1> DEFINE s == m.TASK_CTX_STACK[k]
           n == Len(s) + 1
           p == <<"task", k, n>>
<1>1. s \in Seq(CtxIds) /\ Len(s) \in Nat /\ Len(s) < MaxDepth
  <2>1. s \in Stack(CtxIds)
    BY MapsFields
  <2> QED
    BY <2>1, BoundsAssumption DEF Stack, task_ctx_full
<1>2. p \in Places /\ p[1] # "frame"
  BY <1>1, BoundsAssumption DEF Places
<1>3. r.TASK_CTX_STACK[k] = Append(s, c)
  BY OtherPlaces, Zenon
<1>4. /\ DOMAIN s = 1..Len(s) /\ DOMAIN Append(s, c) = 1..n
      /\ Append(s, c)[n] = c
      /\ \A i \in 1..Len(s) : Append(s, c)[i] = s[i]
  BY <1>1
<1>8. \A j, b : /\ holds(m, <<"task", k, j>>, b) <=> j \in 1..Len(s) /\ s[j] = b
                /\ holds(r, <<"task", k, j>>, b) <=> j \in 1..n /\ Append(s, c)[j] = b
  BY <1>3, <1>4, TaskHolds
<1> HIDE DEF s, n
<1>5. \A b \in CtxIds : ~holds(m, p, b)
  BY <1>1, <1>8 DEF n
<1>6. \A b \in CtxIds : holds(r, p, b) <=> b = c
  <2>1. n \in 1..n
    BY <1>1 DEF n
  <2> QED
    BY <1>4, <1>8, <2>1
<1>7. ASSUME NEW q \in Places, q # p, NEW b \in CtxIds
      PROVE  holds(r, q, b) <=> holds(m, q, b)
  <2>1. CASE ~(q[1] = "task" /\ q[2] = k)
    BY <1>7, <2>1, OtherPlaces, Zenon
  <2>2. CASE q[1] = "task" /\ q[2] = k
    <3>1. PICK i \in 1..MaxDepth : q = <<"task", k, i>>
      BY <1>7, <2>2, TaskPlace
    <3>2. i # n
      BY <1>7, <3>1
    <3>3. i \in 1..n <=> i \in 1..Len(s)
      BY <1>1, <3>2, BoundsAssumption DEF n
    <3> QED
      BY <1>4, <1>8, <3>1, <3>3
  <2> QED
    BY <2>1, <2>2
<1> QED
  BY <1>2, <1>5, <1>6, <1>7, AddPlace DEF OneTask

(* An element taken out of a task stack is one carrier less for its         *)
(* context, although the elements above it move down.                       *)
LEMMA TaskRemoveAt ==
  ASSUME NEW m \in MapsType, NEW r, NEW k \in Tasks, NEW i \in 1..Len(m.TASK_CTX_STACK[k]),
         OneTask(m, r, k, RemoveAt(m.TASK_CTX_STACK[k], i))
  PROVE  Removed(m, r, m.TASK_CTX_STACK[k][i])
<1> DEFINE s == m.TASK_CTX_STACK[k]
           u == RemoveAt(s, i)
           p == <<"task", k, i>>
<1>1. s \in Seq(CtxIds) /\ Len(s) \in 0..MaxDepth
  <2>1. s \in Stack(CtxIds)
    BY MapsFields
  <2> QED
    BY <2>1, BoundsAssumption DEF Stack
<1>2. /\ DOMAIN s = 1..Len(s)
      /\ DOMAIN u = 1..(Len(s) - 1)
      /\ \A j \in 1..(Len(s) - 1) : u[j] = IF j < i THEN s[j] ELSE s[j + 1]
  BY <1>1, RemoveAtType, Zenon
<1>3. r.TASK_CTX_STACK[k] = u
  BY OtherPlaces
<1>4. MaxDepth \in Nat /\ i \in 1..Len(s) /\ Len(s) \in Nat /\ i \in 1..MaxDepth
  BY <1>1, BoundsAssumption
<1>5. \A j, b : /\ holds(m, <<"task", k, j>>, b) <=> j \in 1..Len(s) /\ s[j] = b
                /\ holds(r, <<"task", k, j>>, b) <=> j \in 1..(Len(s) - 1) /\ u[j] = b
  BY <1>2, <1>3, TaskHolds
<1> HIDE DEF s, u
<1>6. \A b : p \in Others(m, b) <=> s[i] = b
  <2>1. p \in Places /\ p[1] # "frame"
    BY <1>4 DEF Places
  <2> QED
    BY <1>4, <1>5, <2>1 DEF Others, carriers
<1>7. \A j \in 1..MaxDepth : <<"task", k, j>> \in Places
  BY DEF Places
<1>8. ASSUME NEW b \in CtxIds, NEW n \in Nat, Numbered(Others(m, b) \ {p}, n)
      PROVE  Numbered(Others(r, b), n)
  <2> DEFINE A == Others(m, b) \ {p}
             B == Others(r, b)
             above(q) == q[1] = "task" /\ q[2] = k /\ q[3] > i
             moved(q) == IF above(q) THEN <<"task", k, q[3] - 1>> ELSE q
             g == [q \in A |-> moved(q)]
  <2>1. ASSUME NEW q \in A
        PROVE  \/ /\ ~(q[1] = "task" /\ q[2] = k) /\ moved(q) = q
               \/ \E j \in 1..MaxDepth : /\ q = <<"task", k, j>> /\ j # i
                                         /\ moved(q) = IF j > i THEN <<"task", k, j - 1>> ELSE q
    <3>1. q \in Places
      BY <2>1 DEF Others, carriers
    <3>2. CASE q[1] = "task" /\ q[2] = k
      <4>1. PICK j \in 1..MaxDepth : q = <<"task", k, j>>
        BY <3>1, <3>2, TaskPlace
      <4>2. j # i
        BY <2>1, <4>1
      <4>3. q[3] = j
        BY <4>1
      <4> QED
        BY <3>2, <4>1, <4>2, <4>3, Zenon
    <3> QED
      BY <3>2, Zenon
  <2>2. ASSUME NEW q \in A
        PROVE  moved(q) \in B
    <3>1. q \in Places /\ holds(m, q, b) /\ q[1] # "frame"
      BY <2>2 DEF Others, carriers
    <3>2. CASE ~(q[1] = "task" /\ q[2] = k)
      <4>1. moved(q) = q
        BY <3>2
      <4>2. holds(r, q, b)
        BY <3>1, <3>2, OtherPlaces, Zenon
      <4> QED
        BY <3>1, <4>1, <4>2 DEF Others, carriers
    <3>3. CASE q[1] = "task" /\ q[2] = k
      <4>1. PICK j \in 1..MaxDepth : /\ q = <<"task", k, j>> /\ j # i
                                     /\ moved(q) = IF j > i THEN <<"task", k, j - 1>> ELSE q
        BY <2>1, <2>2, <3>3, Zenon
      <4>2. j \in 1..Len(s) /\ s[j] = b
        BY <1>5, <3>1, <4>1
      <4>3. CASE j > i
        <5>1. j - 1 \in 1..(Len(s) - 1) /\ j - 1 \in 1..MaxDepth /\ ~(j - 1 < i) /\ (j - 1) + 1 = j
          BY <1>4, <4>2, <4>3
        <5>2. u[j - 1] = b
          BY <1>2, <4>2, <5>1 DEF s, u
        <5>3. holds(r, <<"task", k, j - 1>>, b)
          BY <1>5, <5>1, <5>2
        <5>4. moved(q) = <<"task", k, j - 1>> /\ <<"task", k, j - 1>>[1] # "frame"
          BY <4>1, <4>3
        <5> QED
          BY <1>7, <5>1, <5>3, <5>4 DEF Others, carriers
      <4>4. CASE ~(j > i)
        <5>1. j \in 1..(Len(s) - 1) /\ j < i
          BY <1>4, <4>1, <4>2, <4>4
        <5>2. u[j] = b
          BY <1>2, <4>2, <5>1 DEF s, u
        <5>3. holds(r, q, b)
          BY <1>5, <4>1, <5>1, <5>2
        <5>4. moved(q) = q
          BY <4>1, <4>4
        <5> QED
          BY <3>1, <5>3, <5>4 DEF Others, carriers
      <4> QED
        BY <4>3, <4>4
    <3> QED
      BY <3>2, <3>3
  <2>3. ASSUME NEW q \in A, NEW o \in A, moved(q) = moved(o)
        PROVE  q = o
    <3> HIDE DEF moved, A
    <3>1. CASE ~(q[1] = "task" /\ q[2] = k) /\ ~(o[1] = "task" /\ o[2] = k)
      BY <2>1, <2>3, <3>1
    <3>2. CASE (q[1] = "task" /\ q[2] = k) /\ ~(o[1] = "task" /\ o[2] = k)
      BY <2>1, <2>3, <3>2
    <3>3. CASE ~(q[1] = "task" /\ q[2] = k) /\ (o[1] = "task" /\ o[2] = k)
      BY <2>1, <2>3, <3>3
    <3>4. CASE (q[1] = "task" /\ q[2] = k) /\ (o[1] = "task" /\ o[2] = k)
      <4>1. PICK j \in 1..MaxDepth : /\ q = <<"task", k, j>> /\ j # i
                                     /\ moved(q) = IF j > i THEN <<"task", k, j - 1>> ELSE q
        BY <2>1, <2>3, <3>4
      <4>2. PICK l \in 1..MaxDepth : /\ o = <<"task", k, l>> /\ l # i
                                     /\ moved(o) = IF l > i THEN <<"task", k, l - 1>> ELSE o
        BY <2>1, <2>3, <3>4
      <4>3. (IF j > i THEN j - 1 ELSE j) = (IF l > i THEN l - 1 ELSE l)
        BY <2>3, <4>1, <4>2
      <4>4. j = l
        BY <1>4, <4>1, <4>2, <4>3
      <4> QED
        BY <4>1, <4>2, <4>4
    <3> QED
      BY <3>1, <3>2, <3>3, <3>4
  <2>4. ASSUME NEW t \in B
        PROVE  \E q \in A : moved(q) = t
    <3>1. t \in Places /\ holds(r, t, b) /\ t[1] # "frame"
      BY <2>4 DEF Others, carriers
    <3>2. CASE ~(t[1] = "task" /\ t[2] = k)
      <4>1. holds(m, t, b)
        BY <3>1, <3>2, OtherPlaces, Zenon
      <4>2. t # p
        BY <3>2
      <4>3. t \in A /\ moved(t) = t
        BY <3>1, <3>2, <4>1, <4>2 DEF Others, carriers
      <4> QED
        BY <4>3
    <3>3. CASE t[1] = "task" /\ t[2] = k
      <4>1. PICK j \in 1..MaxDepth : t = <<"task", k, j>>
        BY <3>1, <3>3, TaskPlace
      <4>2. j \in 1..(Len(s) - 1) /\ u[j] = b
        BY <1>5, <3>1, <4>1
      <4>3. CASE j < i
        <5>1. j \in 1..Len(s) /\ s[j] = b /\ j # i
          BY <1>2, <1>4, <4>2, <4>3 DEF s, u
        <5>2. holds(m, t, b) /\ t # p
          BY <1>5, <4>1, <5>1
        <5>3. t[3] = j /\ ~(j > i)
          BY <1>4, <4>1, <4>3
        <5>4. t \in A /\ moved(t) = t
          BY <3>1, <5>2, <5>3 DEF Others, carriers
        <5> QED
          BY <5>4
      <4>4. CASE ~(j < i)
        <5> DEFINE q == <<"task", k, j + 1>>
        <5>1. j + 1 \in 1..Len(s) /\ j + 1 \in 1..MaxDepth /\ j + 1 > i /\ (j + 1) - 1 = j
          BY <1>1, <1>4, <4>2, <4>4
        <5>2. s[j + 1] = b
          BY <1>2, <4>2, <4>4 DEF s, u
        <5>3. holds(m, q, b) /\ q # p /\ q \in Places /\ q[1] # "frame"
          <6>1. q # p
            BY <1>4, <5>1
          <6> QED
            BY <1>5, <1>7, <5>1, <5>2, <6>1
        <5>4. q \in A
          BY <5>3 DEF Others, carriers
        <5>5. moved(q) = t
          BY <4>1, <5>1
        <5> QED
          BY <5>4, <5>5
      <4> QED
        BY <4>3, <4>4
    <3> QED
      BY <3>2, <3>3
  <2> HIDE DEF A, B, moved
  <2>5. g \in [A -> B] /\ \A q \in A : g[q] = moved(q)
    BY <2>2
  <2>6. \A q, o \in A : g[q] = g[o] => q = o
    BY <2>3, <2>5
  <2>7. \A t \in B : \E q \in A : g[q] = t
    BY <2>4, <2>5
  <2> HIDE DEF g
  <2>8. Numbered(A, n)
    BY <1>8 DEF A
  <2>9. Renaming(g, A, B)
    BY <2>5, <2>6, <2>7, Zenon DEF Renaming
  <2>10. Numbered(B, n)
    BY <2>8, <2>9, NumberedMap, Zenon
  <2> QED
    BY <2>10 DEF B
<1>9. ASSUME NEW n PROVE /\ Sized(m, s[i], n) => Sized(r, s[i], n - 1)
                         /\ \A b \in CtxIds : b # s[i] => (Sized(m, b, n) => Sized(r, b, n))
  <2>1. ASSUME Sized(m, s[i], n) PROVE Sized(r, s[i], n - 1)
    <3>1. s[i] \in CtxIds /\ p \in Others(m, s[i])
      BY <1>1, <1>4, <1>6
    <3>2. n - 1 \in Nat /\ Numbered(Others(m, s[i]) \ {p}, n - 1)
      BY <2>1, <3>1, NumberedRemove, Zenon DEF Sized
    <3> QED
      BY <1>8, <3>1, <3>2, Zenon DEF Sized
  <2>2. ASSUME NEW b \in CtxIds, b # s[i], Sized(m, b, n) PROVE Sized(r, b, n)
    <3>1. Others(m, b) \ {p} = Others(m, b)
      BY <1>6, <2>2
    <3> QED
      BY <1>8, <2>2, <3>1 DEF Sized
  <2> QED
    BY <2>1, <2>2
<1>10. p \in Others(m, s[i])
  BY <1>6
<1>11. Removed(m, r, s[i])
  BY <1>9, <1>10 DEF Removed, OneTask
<1> QED
  BY <1>11 DEF s

-----------------------------------------------------------------------------
(* Helpers that are not about carriers.                                     *)

(* Neither the carriers nor the contexts are touched.                       *)
Aside(m, r) == SameCarriers(m, r) /\ r.events = m.events /\ r.TOOL_CTX = m.TOOL_CTX

(* That is neutral.                                                         *)
LEMMA AsideNeutral ==
  ASSUME NEW m \in MapsType, NEW r \in MapsType, Aside(m, r)
  PROVE  Neutral(m, r)
BY DEF Aside, Neutral, SameCounts, ctx_is_live

(* So is a change to an entry of TOOL_CTX that keeps its carrier_count.     *)
LEMMA RewriteCtx ==
  ASSUME NEW m \in MapsType, NEW c \in CtxIds, ctx_is_live(m, c), NEW v \in ToolCtx,
         v.carrier_count = m.TOOL_CTX[c].carrier_count
  PROVE  Neutral(m, [m EXCEPT !.TOOL_CTX[c] = v])
<1> DEFINE r == [m EXCEPT !.TOOL_CTX[c] = v]
<1>1. r \in MapsType
  BY SetCtx DEF Steady
<1>2. SameCarriers(m, r) /\ r.events = m.events /\ r.TOOL_CTX = [m.TOOL_CTX EXCEPT ![c] = v]
  BY Zenon DEF MapsType, SameCarriers
<1> HIDE DEF r
<1>3. m.TOOL_CTX \in [CtxIds -> ToolCtx \cup {NULL}] /\ v # NULL
  BY MapsFields, NullAssumption
<1>4. SameCounts(m, r)
  BY <1>2, <1>3 DEF SameCounts, ctx_is_live
<1> QED
  BY <1>1, <1>2, <1>4 DEF Neutral, r

(* set_active writes THREAD_ACTIVE_CTX alone.                               *)
LEMMA SetActiveNeutral ==
  ASSUME NEW m \in MapsType, NEW tid \in Tids, NEW c \in CtxOrNull
  PROVE  Neutral(m, set_active(m, tid, c))
<1>1. set_active(m, tid, c) \in MapsType
  BY SetActive DEF Steady
<1>2. Aside(m, set_active(m, tid, c))
  BY Zenon DEF MapsType, Aside, SameCarriers, set_active
<1> QED
  BY <1>1, <1>2, AsideNeutral

(* get_active_ctx at most forgets an active context.                        *)
LEMMA GetActiveNeutral ==
  ASSUME NEW m \in MapsType, NEW tid \in Tids
  PROVE  Neutral(m, get_active_ctx(m, tid))
BY SetActiveNeutral, NeutralSelf DEF get_active_ctx, CtxOrNull

(* ctx_stack_push writes THREAD_CTX_STACK and THREAD_ACTIVE_CTX.            *)
LEMMA CtxStackPushNeutral ==
  ASSUME NEW m \in MapsType, NEW tid \in Tids, NEW c \in CtxIds
  PROVE  Neutral(m, ctx_stack_push(m, tid, c))
<1>1. ctx_stack_push(m, tid, c) \in MapsType
  BY CtxStackPush DEF Steady
<1>2. CASE ctx_stack_full(m, tid)
  BY <1>2, NeutralSelf DEF ctx_stack_push
<1>3. CASE ~ctx_stack_full(m, tid)
  <2> DEFINE s == Append(m.THREAD_CTX_STACK[tid], c)
             r == [m EXCEPT !.THREAD_CTX_STACK[tid] = s, !.THREAD_ACTIVE_CTX[tid] = c]
  <2>1. ctx_stack_push(m, tid, c) = r
    BY <1>3 DEF ctx_stack_push
  <2> HIDE DEF s
  <2>2. Aside(m, r)
    BY Zenon DEF MapsType, Aside, SameCarriers
  <2> QED
    BY <1>1, <2>1, <2>2, AsideNeutral
<1> QED
  BY <1>2, <1>3

(* So does ctx_stack_remove.                                                *)
LEMMA CtxStackRemoveNeutral ==
  ASSUME NEW m \in MapsType, NEW tid \in Tids, NEW c
  PROVE  Neutral(m, ctx_stack_remove(m, tid, c))
<1>1. ctx_stack_remove(m, tid, c) \in MapsType
  BY CtxStackRemove DEF Steady
<1>2. CASE ~Contains(m.THREAD_CTX_STACK[tid], c)
  BY <1>2, NeutralSelf DEF ctx_stack_remove
<1>3. CASE Contains(m.THREAD_CTX_STACK[tid], c)
  <2> DEFINE s == RemoveFirst(m.THREAD_CTX_STACK[tid], c)
             t == top_or_null(s)
             r == [m EXCEPT !.THREAD_CTX_STACK[tid] = s, !.THREAD_ACTIVE_CTX[tid] = t]
  <2>1. ctx_stack_remove(m, tid, c) = r
    BY <1>3 DEF ctx_stack_remove
  <2> HIDE DEF s, t
  <2>2. Aside(m, r)
    BY Zenon DEF MapsType, Aside, SameCarriers
  <2> QED
    BY <1>1, <2>1, <2>2, AsideNeutral
<1> QED
  BY <1>2, <1>3

(* The tool stack of a thread is not a carrier.                             *)
LEMMA ToolStackNeutral ==
  ASSUME NEW m \in MapsType, NEW tid \in Tids, NEW s \in Stack(ToolStackEntry)
  PROVE  Neutral(m, [m EXCEPT !.TOOL_STACK[tid] = s])
<1> DEFINE r == [m EXCEPT !.TOOL_STACK[tid] = s]
<1>1. r \in MapsType
  BY SetToolStack DEF Steady
<1>2. Aside(m, r)
  BY Zenon DEF MapsType, Aside, SameCarriers
<1> QED
  BY <1>1, <1>2, AsideNeutral

(* tool_stack_push.                                                         *)
LEMMA ToolStackPushNeutral ==
  ASSUME NEW m \in MapsType, NEW tid \in Tids, NEW e \in ToolStackEntry
  PROVE  Neutral(m, tool_stack_push(m, tid, e))
<1>1. m.TOOL_STACK[tid] \in Stack(ToolStackEntry)
  BY MapsFields
<1>2. CASE Len(m.TOOL_STACK[tid]) >= MaxDepth
  BY <1>2, NeutralSelf DEF tool_stack_push
<1>3. CASE ~(Len(m.TOOL_STACK[tid]) >= MaxDepth)
  <2>1. Append(m.TOOL_STACK[tid], e) \in Stack(ToolStackEntry)
    BY <1>1, <1>3, StackAppend
  <2> QED
    BY <1>3, <2>1, ToolStackNeutral, Zenon DEF tool_stack_push
<1> QED
  BY <1>2, <1>3

(* tool_stack_remove_at.                                                    *)
LEMMA ToolStackRemoveNeutral ==
  ASSUME NEW m \in MapsType, NEW tid \in Tids, NEW i \in 0..Len(m.TOOL_STACK[tid])
  PROVE  Neutral(m, tool_stack_remove_at(m, tid, i))
<1>1. m.TOOL_STACK[tid] \in Stack(ToolStackEntry)
  BY MapsFields
<1>2. Len(m.TOOL_STACK[tid]) \in Nat
  BY <1>1 DEF Stack
<1>3. CASE i = 0
  BY <1>3, NeutralSelf DEF tool_stack_remove_at
<1>4. CASE i # 0
  <2>1. i \in 1..Len(m.TOOL_STACK[tid])
    BY <1>2, <1>4
  <2>2. RemoveAt(m.TOOL_STACK[tid], i) \in Stack(ToolStackEntry)
    BY <1>1, <2>1, StackRemoveAt
  <2> QED
    BY <1>4, <2>2, ToolStackNeutral DEF tool_stack_remove_at
<1> QED
  BY <1>3, <1>4

(* The stash of entered frames and a task's parked closes are no carriers.  *)
LEMMA StashNeutral ==
  ASSUME NEW m \in MapsType, NEW tid \in Tids, NEW s \in Seq(Frames)
  PROVE  Neutral(m, [m EXCEPT !.FRAME_ENTRY_STASH[tid] = s])
<1> DEFINE r == [m EXCEPT !.FRAME_ENTRY_STASH[tid] = s]
<1>1. r \in MapsType
  BY SetStash DEF Steady
<1>2. Aside(m, r)
  BY Zenon DEF MapsType, Aside, SameCarriers
<1> QED
  BY <1>1, <1>2, AsideNeutral

(* A parked close is no carrier.                                            *)
LEMMA PendingNeutral ==
  ASSUME NEW m \in MapsType, NEW k \in Tasks, NEW i \in Slots, NEW e \in ToolStackEntry \cup {NULL}
  PROVE  Neutral(m, [m EXCEPT !.PENDING_TOOL_CLOSE[k][i] = e])
<1> DEFINE r == [m EXCEPT !.PENDING_TOOL_CLOSE[k][i] = e]
<1>1. r \in MapsType
  BY SetPending DEF Steady
<1>2. Aside(m, r)
  BY Zenon DEF MapsType, Aside, SameCarriers
<1> QED
  BY <1>1, <1>2, AsideNeutral

(* tool_stack_refresh.                                                      *)
LEMMA ToolStackRefreshNeutral ==
  ASSUME NEW m \in MapsType, NEW tid \in Tids, NEW e \in ToolStackEntry
  PROVE  Neutral(m, tool_stack_refresh(m, tid, e))
<1> DEFINE i == find_frame_ctx(m, tid, e.frame_ptr, e.ctx_id)
           s == ReplaceAt(m.TOOL_STACK[tid], i, e)
           r == [m EXCEPT !.TOOL_STACK[tid] = s]
<1>1. tool_stack_refresh(m, tid, e) = IF i = 0 THEN tool_stack_push(m, tid, e) ELSE r
  BY DEF tool_stack_refresh
<1>2. tool_stack_refresh(m, tid, e) \in MapsType
  BY ToolStackRefresh DEF Steady
<1> HIDE DEF i, s
<1>3. CASE i = 0
  BY <1>1, <1>3, ToolStackPushNeutral
<1>4. CASE i # 0
  <2>1. Aside(m, r)
    BY Zenon DEF MapsType, Aside, SameCarriers
  <2> QED
    BY <1>1, <1>2, <1>4, <2>1, AsideNeutral
<1> QED
  BY <1>3, <1>4

(* defer_tool_close parks an entry and marks its context as seen.           *)
LEMMA DeferNeutral ==
  ASSUME NEW m \in MapsType, NEW k \in Tasks, NEW e \in ToolStackEntry
  PROVE  Neutral(m, defer_tool_close(m, k, e))
<1> DEFINE depth == Len(m.TASK_CTX_STACK[k])
           slot == IF depth = 0 THEN 0 ELSE depth - 1
           parked == [m EXCEPT !.PENDING_TOOL_CLOSE[k][slot] = e]
           c == e.ctx_id
           v == [m.TOOL_CTX[c] EXCEPT !.seen = TRUE]
<1>1. depth \in 0..MaxDepth
  BY MapsFields, BoundsAssumption DEF Stack
<1>2. slot \in Slots
  BY <1>1, BoundsAssumption DEF Slots
<1>3. c \in CtxIds
  BY DEF ToolStackEntry
<1>4. Neutral(m, parked)
  <2> HIDE DEF slot
  <2> QED BY <1>2, PendingNeutral
<1>5. parked.TOOL_CTX = m.TOOL_CTX
  BY Zenon DEF MapsType
<1>6. CASE ~ctx_is_live(m, c)
  BY <1>4, <1>6 DEF defer_tool_close
<1>7. CASE ctx_is_live(m, c)
  <2>1. v \in ToolCtx /\ v.carrier_count = m.TOOL_CTX[c].carrier_count
    <3>1. m.TOOL_CTX[c] \in ToolCtx
      BY <1>3, <1>7, LiveType DEF CtxOrNull
    <3> QED BY <3>1, Zenon DEF ToolCtx
  <2>2. defer_tool_close(m, k, e) = [parked EXCEPT !.TOOL_CTX[c] = v]
    BY <1>7, <1>5 DEF defer_tool_close
  <2>3. ctx_is_live(parked, c) /\ v.carrier_count = parked.TOOL_CTX[c].carrier_count
    BY <1>5, <1>7, <2>1 DEF ctx_is_live
  <2> HIDE DEF v, parked
  <2>4. Neutral(parked, [parked EXCEPT !.TOOL_CTX[c] = v])
    BY <1>3, <1>4, <2>1, <2>3, RewriteCtx DEF Neutral
  <2> QED
    BY <2>2, <2>4, <1>4, NeutralTrans
<1> QED
  BY <1>6, <1>7

(* cancel_deferred_tool_close empties a slot.                               *)
LEMMA CancelNeutral ==
  ASSUME NEW m \in MapsType, NEW k \in Tasks, NEW c, NEW f
  PROVE  Neutral(m, cancel_deferred_tool_close(m, k, c, f))
<1> DEFINE hits == {i \in Slots : /\ i < Len(m.TASK_CTX_STACK[k])
                                  /\ m.PENDING_TOOL_CLOSE[k][i] # NULL
                                  /\ m.PENDING_TOOL_CLOSE[k][i].ctx_id = c
                                  /\ m.PENDING_TOOL_CLOSE[k][i].frame_ptr = f}
           j == Min(hits)
           r == [m EXCEPT !.PENDING_TOOL_CLOSE[k][j] = NULL]
<1>1. cancel_deferred_tool_close(m, k, c, f) = IF hits = {} THEN m ELSE r
  BY DEF cancel_deferred_tool_close
<1>2. cancel_deferred_tool_close(m, k, c, f) \in MapsType
  BY CancelDeferred DEF Steady
<1> HIDE DEF hits, j
<1>3. Aside(m, r)
  BY Zenon DEF MapsType, Aside, SameCarriers
<1> QED
  BY <1>1, <1>2, <1>3, AsideNeutral, NeutralSelf

(* frame_stash_push and frame_stash_pop.                                    *)
LEMMA FrameStashNeutral ==
  ASSUME NEW m \in MapsType, NEW tid \in Tids
  PROVE  /\ \A f \in Frames : Neutral(m, frame_stash_push(m, tid, f))
         /\ Neutral(m, frame_stash_pop(m, tid))
<1>1. m.FRAME_ENTRY_STASH[tid] \in Seq(Frames)
  BY MapsFields
<1>2. ASSUME NEW f \in Frames
      PROVE  Neutral(m, frame_stash_push(m, tid, f))
  <2>1. Append(m.FRAME_ENTRY_STASH[tid], f) \in Seq(Frames)
    BY <1>1
  <2> QED
    BY <2>1, StashNeutral, Zenon DEF frame_stash_push
<1>3. CASE m.FRAME_ENTRY_STASH[tid] = <<>>
  BY <1>2, <1>3, NeutralSelf DEF frame_stash_pop
<1>4. CASE m.FRAME_ENTRY_STASH[tid] # <<>>
  <2>1. Front(m.FRAME_ENTRY_STASH[tid]) \in Seq(Frames)
    BY <1>1, <1>4, FrontType
  <2> QED
    BY <1>2, <1>4, <2>1, StashNeutral DEF frame_stash_pop
<1> QED
  BY <1>3, <1>4

(* set_ctx_tool_id and mark_resolver_error change what is known of a        *)
(* context's tool.                                                          *)
LEMMA IdentityNeutral ==
  ASSUME NEW m \in MapsType, NEW c \in CtxOrNull, NEW tool \in ToolIds \cup {TOOL_IDLE}
  PROVE  Neutral(m, set_ctx_tool_id(m, c, tool)) /\ Neutral(m, mark_resolver_error(m, c))
<1> DEFINE v == [m.TOOL_CTX[c] EXCEPT !.tool_id = tool]
           w == [m.TOOL_CTX[c] EXCEPT !.resolver_error = TRUE]
<1>1. CASE ~ctx_is_live(m, c)
  BY <1>1, NeutralSelf DEF set_ctx_tool_id, mark_resolver_error
<1>2. CASE ctx_is_live(m, c)
  <2>1. c \in CtxIds /\ m.TOOL_CTX[c] \in ToolCtx
    BY <1>2, LiveType
  <2>2. v \in ToolCtx /\ v.carrier_count = m.TOOL_CTX[c].carrier_count
    BY <2>1 DEF ToolCtx
  <2>3. w \in ToolCtx /\ w.carrier_count = m.TOOL_CTX[c].carrier_count
    BY <2>1, Zenon DEF ToolCtx
  <2>4. set_ctx_tool_id(m, c, tool) = [m EXCEPT !.TOOL_CTX[c] = v]
        /\ mark_resolver_error(m, c) = [m EXCEPT !.TOOL_CTX[c] = w]
    BY <1>2 DEF set_ctx_tool_id, mark_resolver_error
  <2> HIDE DEF v, w
  <2> QED
    BY <1>2, <2>1, <2>2, <2>3, <2>4, RewriteCtx
<1> QED
  BY <1>1, <1>2

(* An event for the resolver.                                               *)
LEMMA SubmitNeutral ==
  ASSUME NEW m \in MapsType, NEW e \in ResolverEvent
  PROVE  Neutral(m, resolver_submit(m, e))
<1> DEFINE q == Append(m.RESOLVER_EVENTS, e)
           r == [m EXCEPT !.RESOLVER_EVENTS = q]
<1>1. resolver_submit(m, e) = IF Len(m.RESOLVER_EVENTS) >= RingCap THEN m ELSE r
  BY DEF resolver_submit
<1>2. q \in Seq(ResolverEvent)
  BY MapsFields
<1> HIDE DEF q
<1>3. r \in MapsType /\ Aside(m, r)
  BY <1>2, Zenon DEF MapsType, Aside, SameCarriers
<1> QED
  BY <1>1, <1>3, AsideNeutral, NeutralSelf

(* TASK_CTX caches the top of a task stack; it counts as no carrier.        *)
LEMMA TaskTopNeutral ==
  ASSUME NEW m \in MapsType, NEW k \in Tasks
  PROVE  Neutral(m, [m EXCEPT !.TASK_CTX[k] = NULL])
<1> DEFINE r == [m EXCEPT !.TASK_CTX[k] = NULL]
<1>1. r \in MapsType /\ Aside(m, r)
  BY Zenon DEF MapsType, Aside, SameCarriers
<1> QED
  BY <1>1, AsideNeutral

-----------------------------------------------------------------------------
(* One carrier more or less, with its count.                                *)

(* A carrier that was added is counted.                                     *)
LEMMA KeptInc ==
  ASSUME NEW m \in MapsType, NEW x, Ledger(m, x), NEW r, NEW c \in CtxIds,
         Added(m, r, c), ctx_is_live(m, c), r.FORK_CTX = m.FORK_CTX
  PROVE  Kept(m, carrier_inc(r, c), x)
BY IncAdded DEF Kept, Forkless

(* A carrier that was taken away is no longer counted.                      *)
LEMMA KeptDec ==
  ASSUME NEW m \in MapsType, NEW x, Ledger(m, x), NEW r, NEW c \in CtxIds,
         Removed(m, r, c), Forkless(m, r)
  PROVE  Kept(m, carrier_dec(r, c), x)
BY DecRemoved DEF Kept, Forkless

(* A neutral step before a handler that keeps the books.                    *)
LEMMA NeutralThenKept ==
  ASSUME NEW m \in MapsType, NEW x, Ledger(m, x), NEW r, Neutral(m, r), NEW s,
         Ledger(r, x) => Kept(r, s, x)
  PROVE  Kept(m, s, x)
<1>1. Kept(m, r, x)
  BY NeutralKept
<1>2. Kept(r, s, x)
  BY <1>1 DEF Kept, Booked
<1> QED
  BY <1>1, <1>2, KeptTrans

(* A neutral step after it.                                                 *)
LEMMA KeptThenNeutral ==
  ASSUME NEW m \in MapsType, NEW x, NEW r, Kept(m, r, x), NEW s, Neutral(r, s)
  PROVE  Kept(m, s, x)
<1>1. r \in MapsType /\ Ledger(r, x)
  BY DEF Kept, Booked
<1>2. Kept(r, s, x)
  BY <1>1, NeutralKept
<1> QED
  BY <1>2, KeptTrans

(* What a handler leaves behind can be handed to the next one.              *)
LEMMA KeptFacts ==
  ASSUME NEW m, NEW x, NEW r, Kept(m, r, x)
  PROVE  r \in MapsType /\ Ledger(r, x)
BY DEF Kept, Booked

(* What owns or carries a context in the books is alive.                    *)
LEMMA OwnerLive ==
  ASSUME NEW m \in MapsType, NEW x, Ledger(m, x), NEW f \in Frames, m.FRAME_CTX[f] # NULL
  PROVE  m.FRAME_CTX[f] \in CtxIds /\ ctx_is_live(m, m.FRAME_CTX[f])
<1>1. m.FRAME_CTX[f] \in CtxIds
  BY MapsFields DEF CtxOrNull
<1> QED
  BY <1>1, CarriedIsLive DEF Owned

-----------------------------------------------------------------------------
(* The frame of a context.                                                  *)

(* The frame f gives up its context.                                        *)
Unframed(m, f) == [m EXCEPT !.FRAME_CTX[f] = NULL]

(* The record without the context of frame f.                               *)
LEMMA FrameFields ==
  ASSUME NEW m \in MapsType, NEW f \in Frames, NEW r, r = Unframed(m, f)
  PROVE  /\ r \in MapsType
         /\ r.FRAME_CTX = [m.FRAME_CTX EXCEPT ![f] = NULL]
         /\ r.CTX_COUNTER = m.CTX_COUNTER
         /\ r.events = m.events
         /\ r.TOOL_CTX = m.TOOL_CTX
         /\ r.FORK_CTX = m.FORK_CTX
         /\ \A c : Others(r, c) = Others(m, c) /\ \A n : Sized(r, c, n) <=> Sized(m, c, n)
<1>1. r \in MapsType
  BY ClearFrame DEF Steady, Unframed
<1>2. /\ r.FRAME_CTX = [m.FRAME_CTX EXCEPT ![f] = NULL]
      /\ r.CTX_COUNTER = m.CTX_COUNTER
      /\ r.events = m.events
      /\ r.TOOL_CTX = m.TOOL_CTX
      /\ r.TASK_CTX_STACK = m.TASK_CTX_STACK
      /\ r.WORK_CTX = m.WORK_CTX
      /\ r.FORK_CTX = m.FORK_CTX
      /\ r.THREADPOOL_WORKER_CTX = m.THREADPOOL_WORKER_CTX
  BY Zenon DEF MapsType, Unframed
<1>3. \A p, c : p[1] # "frame" => (holds(r, p, c) <=> holds(m, p, c))
  BY <1>2 DEF holds
<1>4. \A c : Others(r, c) = Others(m, c)
  BY <1>3 DEF Others, carriers
<1> QED
  BY <1>1, <1>2, <1>4 DEF Sized

(* A frame's context may be forgotten where the books do not ask for the    *)
(* frame, or where the frame has none.                                      *)
LEMMA Disown ==
  ASSUME NEW m \in MapsType, NEW x, Ledger(m, x), NEW f \in Frames, x => m.FRAME_CTX[f] = NULL,
         NEW r, r = Unframed(m, f)
  PROVE  Kept(m, r, x)
<1>1. /\ r \in MapsType
      /\ r.FRAME_CTX = [m.FRAME_CTX EXCEPT ![f] = NULL]
      /\ r.CTX_COUNTER = m.CTX_COUNTER
      /\ r.events = m.events
      /\ r.TOOL_CTX = m.TOOL_CTX
      /\ r.FORK_CTX = m.FORK_CTX
      /\ \A c : Others(r, c) = Others(m, c) /\ \A n : Sized(r, c, n) <=> Sized(m, c, n)
  BY FrameFields
<1>2. m.FRAME_CTX \in [Frames -> CtxOrNull] /\ m.CTX_COUNTER \in Nat
  BY MapsFields
<1>3. \A g \in Frames : r.FRAME_CTX[g] # NULL => g # f /\ r.FRAME_CTX[g] = m.FRAME_CTX[g]
  BY <1>1, <1>2
<1>4. \A c \in CtxIds : Owned(r, c) => Owned(m, c)
  BY <1>3, CtxNotNull DEF Owned
<1>5. \A c \in CtxIds : x => (Owned(r, c) <=> Owned(m, c))
  BY <1>1, <1>2, CtxNotNull DEF Owned
<1>6. \A c : ctx_is_live(r, c) <=> ctx_is_live(m, c)
  BY <1>1 DEF ctx_is_live
<1>7. \A c \in CtxIds : /\ LiveEntry(m, c, x) => LiveEntry(r, c, x)
                        /\ EndedEntry(m, c) => EndedEntry(r, c)
  BY <1>1, <1>4, <1>5 DEF LiveEntry, EndedEntry
<1>8. Ledger(r, x)
  BY <1>1, <1>3, <1>6, <1>7 DEF Ledger
<1> QED
  BY <1>1, <1>2, <1>6, <1>8 DEF Kept, Booked, Forkless

(* The end of a frame: FRAME_END is emitted and the frame's carrier given up. *)
LEMMA EndFrame ==
  ASSUME NEW m \in MapsType, NEW x, Ledger(m, x), NEW f \in Frames, NEW c \in CtxIds,
         m.FRAME_CTX[f] = c, NEW r, Neutral(Unframed(m, f), r)
  PROVE  Kept(m, carrier_dec(emit_frame_end(r, c), c), x)
<1> DEFINE a == Unframed(m, f)
           e == [r.events[c] EXCEPT !.frame_end = @ + 1]
           b == [r EXCEPT !.events[c] = e]
           s == carrier_dec(b, c)
<1>1. /\ a \in MapsType
      /\ a.FRAME_CTX = [m.FRAME_CTX EXCEPT ![f] = NULL]
      /\ a.CTX_COUNTER = m.CTX_COUNTER
      /\ a.events = m.events
      /\ a.TOOL_CTX = m.TOOL_CTX
      /\ a.FORK_CTX = m.FORK_CTX
      /\ \A d : Others(a, d) = Others(m, d) /\ \A n : Sized(a, d, n) <=> Sized(m, d, n)
  BY FrameFields, Zenon
<1>2. Neutral(a, r)
  OBVIOUS
<1> HIDE DEF a
<1>3. r \in MapsType
  BY <1>2 DEF Neutral
<1>4. r.events \in [CtxIds -> EventCounts] /\ r.TOOL_CTX \in [CtxIds -> ToolCtx \cup {NULL}]
  BY <1>3, MapsFields
<1>5. e \in EventCounts
  BY <1>4 DEF EventCounts
<1>6. emit_frame_end(r, c) = b
  BY DEF emit_frame_end
<1>7. e = [m.events[c] EXCEPT !.frame_end = @ + 1]
  BY <1>1, <1>2 DEF Neutral, SameCounts
<1> HIDE DEF e
<1>8. b \in MapsType /\ SameCarriers(r, b) /\ b.TOOL_CTX = r.TOOL_CTX
      /\ b.events = [r.events EXCEPT ![c] = e]
  BY <1>3, <1>5, Zenon DEF MapsType, SameCarriers
<1> HIDE DEF b
<1>9. b.events[c] = e /\ \A d \in CtxIds : d # c => b.events[d] = m.events[d]
  BY <1>1, <1>2, <1>4, <1>8 DEF Neutral, SameCounts
<1>10. \A d \in CtxIds : /\ ctx_is_live(b, d) <=> ctx_is_live(m, d)
                         /\ ctx_is_live(m, d) => b.TOOL_CTX[d].carrier_count = m.TOOL_CTX[d].carrier_count
  BY <1>1, <1>2, <1>8 DEF Neutral, SameCounts, ctx_is_live
<1>11. SameCarriers(a, b)
  BY <1>2, <1>8 DEF Neutral, SameCarriers
<1>12. ctx_is_live(m, c) /\ LiveEntry(m, c, x)
  BY CarriedIsLive DEF Owned
<1>13. /\ s \in MapsType
       /\ SameCarriers(b, s)
       /\ \A d \in CtxIds : d # c => s.events[d] = b.events[d] /\ s.TOOL_CTX[d] = b.TOOL_CTX[d]
       /\ b.TOOL_CTX[c].carrier_count > 1 =>
               /\ ctx_is_live(s, c)
               /\ s.TOOL_CTX[c].carrier_count = b.TOOL_CTX[c].carrier_count - 1
               /\ s.events[c] = b.events[c]
       /\ ~(b.TOOL_CTX[c].carrier_count > 1) =>
               /\ ~ctx_is_live(s, c)
               /\ s.events[c] = [b.events[c] EXCEPT !.context_end = @ + 1]
  BY <1>8, <1>10, <1>12, DecFields, Zenon
<1> HIDE DEF s
<1>14. SameCarriers(a, s)
  BY <1>11, <1>13 DEF SameCarriers
<1>15. \A d, n : Sized(s, d, n) <=> Sized(m, d, n)
  BY <1>1, <1>14, SameOthers
<1>16. m.FRAME_CTX \in [Frames -> CtxOrNull] /\ m.CTX_COUNTER \in Nat
  BY MapsFields
<1>17. s.FRAME_CTX = [m.FRAME_CTX EXCEPT ![f] = NULL] /\ s.CTX_COUNTER = m.CTX_COUNTER
       /\ s.FORK_CTX = m.FORK_CTX
  BY <1>1, <1>14 DEF SameCarriers
<1>18. \A g \in Frames : s.FRAME_CTX[g] = IF g = f THEN NULL ELSE m.FRAME_CTX[g]
  BY <1>16, <1>17
<1>19. c # NULL
  BY CtxNotNull
<1>20. ~Owned(s, c)
  BY <1>18, <1>19 DEF Owned, Ledger
<1>21. \A d \in CtxIds : d # c => (Owned(s, d) <=> Owned(m, d))
  BY <1>18, CtxNotNull DEF Owned
<1>22. \A d \in CtxIds : d # c => SameEntry(m, s, d)
  BY <1>9, <1>10, <1>13, <1>15, <1>21 DEF SameEntry, ctx_is_live
<1> DEFINE n == m.TOOL_CTX[c].carrier_count - 1
<1>23. /\ m.events[c] \in EventCounts
       /\ m.TOOL_CTX[c].carrier_count \in Nat \ {0}
       /\ m.events[c].frame_end = 0
  BY <1>12, EntryTypes DEF LiveEntry, Owned
<1>31. Sized(s, c, n)
  <2>1. m.TOOL_CTX[c].carrier_count - (1 - m.events[c].frame_end) = n
    BY <1>23
  <2> QED
    BY <1>12, <1>15, <2>1 DEF LiveEntry
<1>24. e.start = 1 /\ e.frame_end = 1 /\ e.context_end = 0 /\ e \in EventCounts
  BY <1>5, <1>7, <1>12, <1>23 DEF LiveEntry, EventCounts
<1>25. ctx_is_live(s, c) => LiveEntry(s, c, x)
  <2> SUFFICES ASSUME ctx_is_live(s, c) PROVE LiveEntry(s, c, x)
    OBVIOUS
  <2>1. s.events[c] = e /\ s.TOOL_CTX[c].carrier_count = n
    BY <1>9, <1>10, <1>12, <1>13, <1>23
  <2>2. s.TOOL_CTX[c].carrier_count - (1 - s.events[c].frame_end) = n
    BY <1>23, <1>24, <2>1
  <2> HIDE DEF n
  <2> QED
    BY <1>12, <1>17, <1>20, <1>24, <1>31, <2>1, <2>2 DEF LiveEntry
<1>26. ~ctx_is_live(s, c) => EndedEntry(s, c)
  <2> SUFFICES ASSUME ~ctx_is_live(s, c) PROVE EndedEntry(s, c)
    OBVIOUS
  <2>1. s.events[c] = [e EXCEPT !.context_end = @ + 1] /\ n = 0
    BY <1>9, <1>10, <1>12, <1>13, <1>23
  <2>2. s.events[c] = Closed
    BY <1>24, <2>1 DEF EventCounts, Closed
  <2>3. c <= s.CTX_COUNTER /\ c \in Nat
    BY <1>12, <1>17, CtxNotNull DEF LiveEntry
  <2> QED
    BY <1>16, <1>17, <1>20, <1>31, <2>1, <2>2, <2>3 DEF EndedEntry
<1>27. \A g, h \in Frames : s.FRAME_CTX[g] # NULL /\ s.FRAME_CTX[g] = s.FRAME_CTX[h] => g = h
  BY <1>18 DEF Ledger
<1>28. m.CTX_COUNTER <= s.CTX_COUNTER
  BY <1>16, <1>17
<1>29. Booked(m, s, x)
  BY <1>12, <1>13, <1>22, <1>25, <1>26, <1>27, <1>28, Rebook
<1>30. Kept(m, s, x)
  BY <1>17, <1>29 DEF Kept, Forkless
<1> QED
  BY <1>6, <1>30 DEF s

-----------------------------------------------------------------------------
(* A new context.  Between its allocation and its START event the books do  *)
(* not show it; r is what m has become by then.                             *)
Fresh(m, r, f, c, x) ==
  /\ r \in MapsType
  /\ c \in CtxIds
  /\ r.FRAME_CTX[f] = c
  /\ ctx_is_live(r, c)
  /\ r.events[c] = Unused
  /\ Sized(r, c, 0)
  /\ Kept(m, emit_start(r, c), x)

(* The record emit_start makes.                                             *)
LEMMA StartFields ==
  ASSUME NEW r \in MapsType, NEW c \in CtxIds
  PROVE  /\ emit_start(r, c) \in MapsType
         /\ SameCarriers(r, emit_start(r, c))
         /\ emit_start(r, c).TOOL_CTX = r.TOOL_CTX
         /\ emit_start(r, c).events = [r.events EXCEPT ![c] = [r.events[c] EXCEPT !.start = @ + 1]]
<1> DEFINE e == [r.events[c] EXCEPT !.start = @ + 1]
           s == [r EXCEPT !.events[c] = e]
<1>1. emit_start(r, c) = s
  BY DEF emit_start
<1>2. r.events[c] \in EventCounts
  BY MapsFields
<1>3. e \in EventCounts
  BY <1>2 DEF EventCounts
<1> HIDE DEF e
<1>4. /\ s \in MapsType
      /\ SameCarriers(r, s)
      /\ s.TOOL_CTX = r.TOOL_CTX
      /\ s.events = [r.events EXCEPT ![c] = e]
  BY <1>3, Zenon DEF MapsType, SameCarriers
<1> QED
  BY <1>1, <1>4 DEF e

(* What is neutral before START is neutral after it.                        *)
LEMMA StartNeutral ==
  ASSUME NEW r \in MapsType, NEW s, Neutral(r, s), NEW c \in CtxIds
  PROVE  Neutral(emit_start(r, c), emit_start(s, c))
<1>1. s \in MapsType
  BY DEF Neutral
<1>2. emit_start(s, c) \in MapsType
  BY <1>1, StartFields, Zenon
<1>3. SameCarriers(r, emit_start(r, c)) /\ SameCarriers(s, emit_start(s, c))
  BY <1>1, StartFields, Zenon
<1>4. emit_start(r, c).TOOL_CTX = r.TOOL_CTX /\ emit_start(s, c).TOOL_CTX = s.TOOL_CTX
  BY <1>1, StartFields, Zenon
<1>5. emit_start(r, c).events = emit_start(s, c).events
  <2>1. s.events = r.events
    BY DEF Neutral, SameCounts
  <2>2. emit_start(r, c).events = [r.events EXCEPT ![c] = [r.events[c] EXCEPT !.start = @ + 1]]
    BY StartFields
  <2>3. emit_start(s, c).events = [s.events EXCEPT ![c] = [s.events[c] EXCEPT !.start = @ + 1]]
    BY <1>1, StartFields
  <2> QED
    BY <2>1, <2>2, <2>3
<1>6. SameCarriers(emit_start(r, c), emit_start(s, c))
  BY <1>3 DEF Neutral, SameCarriers
<1>7. SameCounts(emit_start(r, c), emit_start(s, c))
  BY <1>4, <1>5 DEF Neutral, SameCounts, ctx_is_live
<1> QED
  BY <1>2, <1>6, <1>7 DEF Neutral

(* A neutral step between the allocation and START.                         *)
LEMMA FreshNeutral ==
  ASSUME NEW m \in MapsType, NEW x, NEW r, NEW f \in Frames, NEW c, Fresh(m, r, f, c, x),
         NEW s, Neutral(r, s)
  PROVE  Fresh(m, s, f, c, x)
<1>1. r \in MapsType /\ c \in CtxIds /\ Kept(m, emit_start(r, c), x)
  BY DEF Fresh
<1>2. Neutral(emit_start(r, c), emit_start(s, c))
  BY <1>1, StartNeutral
<1>3. Kept(m, emit_start(s, c), x)
  BY <1>1, <1>2, KeptThenNeutral
<1>4. Sized(s, c, 0)
  BY SameOthers DEF Fresh, Neutral
<1> QED
  BY <1>1, <1>3, <1>4 DEF Fresh, Neutral, SameCarriers, SameCounts

(* The record new_ctx makes.                                                *)
LEMMA NewFields ==
  ASSUME NEW m \in MapsType, NEW f \in Frames, NEW tool \in ToolIds \cup {TOOL_IDLE},
         NEW async \in BOOLEAN, m.CTX_COUNTER < MaxCtx, NEW r, r = new_ctx(m, f, tool, async),
         NEW c, c = alloc_ctx_id(m)
  PROVE  /\ c \in CtxIds
         /\ c = m.CTX_COUNTER + 1
         /\ r \in MapsType
         /\ r.CTX_COUNTER = c
         /\ r.FRAME_CTX = [m.FRAME_CTX EXCEPT ![f] = c]
         /\ \A b \in CtxIds : b # c => r.TOOL_CTX[b] = m.TOOL_CTX[b]
         /\ ctx_is_live(r, c)
         /\ r.TOOL_CTX[c].carrier_count = 1
         /\ r.events = m.events
         /\ r.FORK_CTX = m.FORK_CTX
         /\ \A b : Others(r, b) = Others(m, b)
<1> DEFINE v == [tool_id |-> tool, carrier_count |-> 1, async |-> async,
                 seen |-> FALSE, resolver_error |-> FALSE]
           s == [m EXCEPT !.CTX_COUNTER = c, !.FRAME_CTX[f] = c, !.TOOL_CTX[c] = v]
<1>1. m.CTX_COUNTER \in Nat /\ m.TOOL_CTX \in [CtxIds -> ToolCtx \cup {NULL}]
  BY MapsFields
<1>2. c = m.CTX_COUNTER + 1 /\ c \in CtxIds /\ c \in Nat
  BY <1>1, BoundsAssumption DEF alloc_ctx_id, CtxIds
<1>3. v \in ToolCtx
  BY DEF ToolCtx
<1>4. v # NULL /\ v.carrier_count = 1
  BY <1>3, NullAssumption, Zenon
<1>5. r = s
  BY DEF new_ctx
<1> HIDE DEF v
<1>6. /\ s \in MapsType
      /\ s.CTX_COUNTER = c
      /\ s.FRAME_CTX = [m.FRAME_CTX EXCEPT ![f] = c]
      /\ s.TOOL_CTX = [m.TOOL_CTX EXCEPT ![c] = v]
      /\ s.events = m.events
      /\ s.TASK_CTX_STACK = m.TASK_CTX_STACK
      /\ s.WORK_CTX = m.WORK_CTX
      /\ s.FORK_CTX = m.FORK_CTX
      /\ s.THREADPOOL_WORKER_CTX = m.THREADPOOL_WORKER_CTX
  BY <1>2, <1>3, Zenon DEF MapsType
<1> HIDE DEF s
<1>7. /\ r \in MapsType
      /\ r.CTX_COUNTER = c
      /\ r.FRAME_CTX = [m.FRAME_CTX EXCEPT ![f] = c]
      /\ r.TOOL_CTX = [m.TOOL_CTX EXCEPT ![c] = v]
      /\ r.events = m.events
      /\ r.TASK_CTX_STACK = m.TASK_CTX_STACK
      /\ r.WORK_CTX = m.WORK_CTX
      /\ r.FORK_CTX = m.FORK_CTX
      /\ r.THREADPOOL_WORKER_CTX = m.THREADPOOL_WORKER_CTX
  BY <1>5, <1>6
<1>8. \A p, b : p[1] # "frame" => (holds(r, p, b) <=> holds(m, p, b))
  BY <1>7 DEF holds
<1>9. \A b : Others(r, b) = Others(m, b)
  BY <1>8 DEF Others, carriers
<1>10. r.TOOL_CTX[c] = v /\ \A b \in CtxIds : b # c => r.TOOL_CTX[b] = m.TOOL_CTX[b]
  BY <1>1, <1>2, <1>7
<1>11. c # NULL
  BY <1>2, CtxNotNull
<1> QED
  BY <1>2, <1>7, <1>9, <1>10, <1>11, <1>4 DEF ctx_is_live

(* An allocation, over a frame that has no context or where the books do    *)
(* not ask for the frame.                                                   *)
LEMMA NewFresh ==
  ASSUME NEW m \in MapsType, NEW x, Ledger(m, x), NEW f \in Frames, x => m.FRAME_CTX[f] = NULL,
         NEW tool \in ToolIds \cup {TOOL_IDLE}, NEW async \in BOOLEAN, m.CTX_COUNTER < MaxCtx
  PROVE  Fresh(m, new_ctx(m, f, tool, async), f, alloc_ctx_id(m), x)
<1> DEFINE c == alloc_ctx_id(m)
           r == new_ctx(m, f, tool, async)
           a == Unframed(m, f)
           s == emit_start(r, c)
<1>1. /\ c \in CtxIds
      /\ c = m.CTX_COUNTER + 1
      /\ r \in MapsType
      /\ r.CTX_COUNTER = c
      /\ r.FRAME_CTX = [m.FRAME_CTX EXCEPT ![f] = c]
      /\ \A b \in CtxIds : b # c => r.TOOL_CTX[b] = m.TOOL_CTX[b]
      /\ ctx_is_live(r, c)
      /\ r.TOOL_CTX[c].carrier_count = 1
      /\ r.events = m.events
      /\ r.FORK_CTX = m.FORK_CTX
      /\ \A b : Others(r, b) = Others(m, b)
  BY NewFields
<1>2. Kept(m, a, x)
  BY Disown
<1>3. /\ a \in MapsType
      /\ Ledger(a, x)
      /\ a.FRAME_CTX = [m.FRAME_CTX EXCEPT ![f] = NULL]
      /\ a.CTX_COUNTER = m.CTX_COUNTER
      /\ a.events = m.events
      /\ a.TOOL_CTX = m.TOOL_CTX
      /\ a.FORK_CTX = m.FORK_CTX
      /\ \A b : Others(a, b) = Others(m, b)
  BY <1>2, FrameFields, KeptFacts
<1> HIDE DEF a, c, r
<1>4. /\ s \in MapsType
      /\ SameCarriers(r, s)
      /\ s.TOOL_CTX = r.TOOL_CTX
      /\ s.events = [r.events EXCEPT ![c] = [r.events[c] EXCEPT !.start = @ + 1]]
  BY <1>1, StartFields, Zenon
<1> HIDE DEF s
<1>5. \A b : Others(s, b) = Others(a, b) /\ \A n : Sized(s, b, n) <=> Sized(a, b, n)
  BY <1>1, <1>3, <1>4, SameOthers DEF Sized
<1>6. /\ m.FRAME_CTX \in [Frames -> CtxOrNull]
      /\ m.CTX_COUNTER \in Nat
      /\ m.events \in [CtxIds -> EventCounts]
      /\ c \in Nat
      /\ c # NULL
  BY <1>1, MapsFields, CtxNotNull
<1>7. ~ctx_is_live(a, c)
  BY <1>1, <1>3, <1>6 DEF Ledger, LiveEntry
<1>8. Sized(a, c, 0) /\ a.events[c] = Unused
  BY <1>1, <1>3, <1>6, <1>7 DEF Ledger, EndedEntry
<1>9. \A g \in Frames : /\ s.FRAME_CTX[g] = IF g = f THEN c ELSE m.FRAME_CTX[g]
                        /\ a.FRAME_CTX[g] = IF g = f THEN NULL ELSE m.FRAME_CTX[g]
  BY <1>1, <1>3, <1>4, <1>6 DEF SameCarriers
<1>10. ~Owned(a, c)
  BY <1>1, <1>3, <1>7 DEF Ledger, EndedEntry
<1>11. \A b \in CtxIds : b # c => (Owned(s, b) <=> Owned(a, b))
  BY <1>9, CtxNotNull DEF Owned
<1>12. \A b \in CtxIds : b # c => s.events[b] = a.events[b] /\ s.TOOL_CTX[b] = a.TOOL_CTX[b]
  BY <1>1, <1>3, <1>4, <1>6
<1>13. \A b \in CtxIds : b # c => SameEntry(a, s, b)
  BY <1>5, <1>11, <1>12 DEF SameEntry, ctx_is_live
<1>14. s.events[c] = [Unused EXCEPT !.start = @ + 1]
  BY <1>1, <1>3, <1>4, <1>6, <1>8
<1>15. s.events[c].start = 1 /\ s.events[c].frame_end = 0 /\ s.events[c].context_end = 0
  BY <1>14 DEF Unused
<1>16. Owned(s, c)
  BY <1>9 DEF Owned
<1>17. ctx_is_live(s, c) /\ LiveEntry(s, c, x)
  <2>1. s.TOOL_CTX[c].carrier_count - (1 - s.events[c].frame_end) = 0
    BY <1>1, <1>4, <1>15
  <2>2. Sized(s, c, 0)
    BY <1>5, <1>8
  <2> QED
    BY <1>1, <1>4, <1>6, <1>15, <1>16, <2>1, <2>2 DEF LiveEntry, ctx_is_live, SameCarriers
<1>18. \A g, h \in Frames : s.FRAME_CTX[g] # NULL /\ s.FRAME_CTX[g] = s.FRAME_CTX[h] => g = h
  <2>1. \A g \in Frames : g # f => a.FRAME_CTX[g] # c
    BY <1>10 DEF Owned
  <2>2. \A g \in Frames : g # f => s.FRAME_CTX[g] = a.FRAME_CTX[g]
    BY <1>9
  <2> QED
    BY <1>3, <1>9, <2>1, <2>2 DEF Ledger
<1>19. a.CTX_COUNTER <= s.CTX_COUNTER /\ c > a.CTX_COUNTER
  BY <1>1, <1>3, <1>4, <1>6 DEF SameCarriers
<1>21. Booked(a, s, x)
  BY <1>1, <1>3, <1>4, <1>13, <1>17, <1>18, <1>19, Rebook
<1>22. Kept(a, s, x)
  BY <1>1, <1>3, <1>4, <1>21 DEF Kept, Forkless, SameCarriers
<1>23. Kept(m, s, x)
  BY <1>2, <1>22, KeptTrans
<1>24. r.FRAME_CTX[f] = c /\ r.events[c] = Unused
  BY <1>1, <1>3, <1>6, <1>8
<1>25. Sized(r, c, 0)
  BY <1>1, <1>3, <1>8 DEF Sized
<1> QED
  BY <1>1, <1>23, <1>24, <1>25 DEF Fresh, s, c, r

(* An allocation that is taken back leaves no trace but its id.             *)
LEMMA DropFresh ==
  ASSUME NEW m \in MapsType, NEW x, NEW r, NEW f \in Frames, NEW c, Fresh(m, r, f, c, x)
  PROVE  Kept(m, drop_ctx(r, f, c), x)
<1> DEFINE e == emit_start(r, c)
           s == drop_ctx(r, f, c)
<1>1. /\ r \in MapsType
      /\ c \in CtxIds
      /\ r.FRAME_CTX[f] = c
      /\ ctx_is_live(r, c)
      /\ r.events[c] = Unused
      /\ Sized(r, c, 0)
      /\ Kept(m, e, x)
  BY DEF Fresh
<1>2. /\ e \in MapsType
      /\ Ledger(e, x)
      /\ SameCarriers(r, e)
      /\ e.TOOL_CTX = r.TOOL_CTX
      /\ e.events = [r.events EXCEPT ![c] = [r.events[c] EXCEPT !.start = @ + 1]]
  BY <1>1, StartFields, KeptFacts
<1> HIDE DEF e
<1>3. /\ s \in MapsType
      /\ s.CTX_COUNTER = r.CTX_COUNTER
      /\ s.FRAME_CTX = [r.FRAME_CTX EXCEPT ![f] = NULL]
      /\ s.TOOL_CTX = [r.TOOL_CTX EXCEPT ![c] = NULL]
      /\ s.events = r.events
      /\ s.TASK_CTX_STACK = r.TASK_CTX_STACK
      /\ s.WORK_CTX = r.WORK_CTX
      /\ s.FORK_CTX = r.FORK_CTX
      /\ s.THREADPOOL_WORKER_CTX = r.THREADPOOL_WORKER_CTX
  BY <1>1, Zenon DEF MapsType, drop_ctx
<1> HIDE DEF s
<1>4. \A p, b : p[1] # "frame" => (holds(s, p, b) <=> holds(r, p, b))
  BY <1>3 DEF holds
<1>5. \A b : Others(s, b) = Others(r, b) /\ \A n : Sized(s, b, n) <=> Sized(r, b, n)
  BY <1>4, Zenon DEF Others, carriers, Sized
<1>6. \A b : Others(s, b) = Others(e, b) /\ \A n : Sized(s, b, n) <=> Sized(e, b, n)
  BY <1>2, <1>5, SameOthers
<1>7. /\ r.FRAME_CTX \in [Frames -> CtxOrNull]
      /\ r.TOOL_CTX \in [CtxIds -> ToolCtx \cup {NULL}]
      /\ r.events \in [CtxIds -> EventCounts]
      /\ r.CTX_COUNTER \in Nat
      /\ c # NULL
  BY <1>1, MapsFields, CtxNotNull
<1>8. \A g \in Frames : /\ s.FRAME_CTX[g] = IF g = f THEN NULL ELSE e.FRAME_CTX[g]
                        /\ e.FRAME_CTX[f] = c
  BY <1>1, <1>2, <1>3, <1>7 DEF SameCarriers
<1>9. ~Owned(s, c)
  BY <1>2, <1>7, <1>8 DEF Owned, Ledger
<1>10. \A b \in CtxIds : b # c => (Owned(s, b) <=> Owned(e, b))
  BY <1>8, CtxNotNull DEF Owned
<1>11. \A b \in CtxIds : b # c => s.events[b] = e.events[b] /\ s.TOOL_CTX[b] = e.TOOL_CTX[b]
  BY <1>1, <1>2, <1>3, <1>7
<1>12. \A b \in CtxIds : b # c => SameEntry(e, s, b)
  BY <1>6, <1>10, <1>11 DEF SameEntry, ctx_is_live
<1>13. ~ctx_is_live(s, c)
  BY <1>1, <1>3, <1>7 DEF ctx_is_live
<1>14. EndedEntry(s, c)
  BY <1>1, <1>3, <1>5, <1>9 DEF EndedEntry
<1>16. \A g, h \in Frames : s.FRAME_CTX[g] # NULL /\ s.FRAME_CTX[g] = s.FRAME_CTX[h] => g = h
  BY <1>2, <1>8 DEF Ledger
<1>17. e.CTX_COUNTER <= s.CTX_COUNTER
  BY <1>2, <1>3, <1>7 DEF SameCarriers
<1>18. Booked(e, s, x)
  BY <1>1, <1>2, <1>3, <1>12, <1>13, <1>14, <1>16, <1>17, Rebook, Zenon
<1>19. Kept(e, s, x)
  BY <1>2, <1>3, <1>18 DEF Kept, Forkless, SameCarriers
<1> QED
  BY <1>1, <1>19, KeptTrans DEF s

-----------------------------------------------------------------------------
(* The stack of a task.                                                     *)

(* A task that is given a live context carries it (task_ctx_push).          *)
LEMMA TaskPushKept ==
  ASSUME NEW m \in MapsType, NEW x, Ledger(m, x), NEW tid \in Tids, NEW k \in Tasks,
         NEW c \in CtxIds, ctx_is_live(m, c)
  PROVE  Kept(m, task_ctx_push(m, tid, k, c), x)
<1> DEFINE s == Append(m.TASK_CTX_STACK[k], c)
           r == [m EXCEPT !.TASK_CTX_STACK[k] = s, !.TASK_CTX[k] = c, !.THREAD_ACTIVE_CTX[tid] = c]
<1>1. task_ctx_push(m, tid, k, c) =
        IF m.TASK_CTX[k] = c THEN set_active(m, tid, c)
        ELSE IF task_ctx_full(m, k) THEN m ELSE carrier_inc(r, c)
  BY DEF task_ctx_push
<1>2. Kept(m, set_active(m, tid, c), x)
  BY SetActiveNeutral, NeutralKept DEF CtxOrNull
<1>3. ASSUME ~task_ctx_full(m, k)
      PROVE  Kept(m, carrier_inc(r, c), x)
  <2>1. s \in Stack(CtxIds)
    BY <1>3, MapsFields, StackAppend DEF task_ctx_full
  <2> HIDE DEF s
  <2>2. /\ r \in MapsType
        /\ SameBooks(m, r)
        /\ r.TASK_CTX_STACK = [m.TASK_CTX_STACK EXCEPT ![k] = s]
        /\ r.WORK_CTX = m.WORK_CTX
        /\ r.FORK_CTX = m.FORK_CTX
        /\ r.THREADPOOL_WORKER_CTX = m.THREADPOOL_WORKER_CTX
    <3>1. /\ r \in MapsType
          /\ r.CTX_COUNTER = m.CTX_COUNTER
          /\ r.FRAME_CTX = m.FRAME_CTX
          /\ r.events = m.events
          /\ r.TOOL_CTX = m.TOOL_CTX
          /\ r.TASK_CTX_STACK = [m.TASK_CTX_STACK EXCEPT ![k] = s]
          /\ r.WORK_CTX = m.WORK_CTX
          /\ r.FORK_CTX = m.FORK_CTX
          /\ r.THREADPOOL_WORKER_CTX = m.THREADPOOL_WORKER_CTX
      BY <2>1, Zenon DEF MapsType
    <3> HIDE DEF r
    <3> QED
      BY <3>1 DEF SameBooks, SameCounts, ctx_is_live
  <2> HIDE DEF r
  <2>3. Added(m, r, c)
    BY <1>3, <2>2, TaskAppend DEF OneTask, s
  <2> QED
    BY <2>2, <2>3, KeptInc
<1> QED
  BY <1>1, <1>2, <1>3, KeptSelf

(* The stack of a task, with what else task_ctx_remove and task_ctx_clear   *)
(* set beside it.                                                           *)
LEMMA TaskStackSet ==
  ASSUME NEW m \in MapsType, NEW k \in Tasks, NEW s \in Stack(CtxIds), NEW tid \in Tids,
         NEW a \in CtxIds \cup {NULL}, NEW b \in CtxIds \cup {NULL}, NEW i \in Slots
  PROVE  /\ OneTask(m, [m EXCEPT !.TASK_CTX_STACK[k] = s, !.TASK_CTX[k] = a,
                                 !.THREAD_ACTIVE_CTX[tid] = b], k, s)
         /\ OneTask(m, [m EXCEPT !.TASK_CTX_STACK[k] = s, !.PENDING_TOOL_CLOSE[k][i] = NULL], k, s)
<1> DEFINE r == [m EXCEPT !.TASK_CTX_STACK[k] = s, !.TASK_CTX[k] = a, !.THREAD_ACTIVE_CTX[tid] = b]
           u == [m EXCEPT !.TASK_CTX_STACK[k] = s, !.PENDING_TOOL_CLOSE[k][i] = NULL]
<1>1. /\ r \in MapsType
      /\ r.CTX_COUNTER = m.CTX_COUNTER
      /\ r.FRAME_CTX = m.FRAME_CTX
      /\ r.events = m.events
      /\ r.TOOL_CTX = m.TOOL_CTX
      /\ r.TASK_CTX_STACK = [m.TASK_CTX_STACK EXCEPT ![k] = s]
      /\ r.WORK_CTX = m.WORK_CTX
      /\ r.FORK_CTX = m.FORK_CTX
      /\ r.THREADPOOL_WORKER_CTX = m.THREADPOOL_WORKER_CTX
  BY Zenon DEF MapsType
<1>2. /\ u \in MapsType
      /\ u.CTX_COUNTER = m.CTX_COUNTER
      /\ u.FRAME_CTX = m.FRAME_CTX
      /\ u.events = m.events
      /\ u.TOOL_CTX = m.TOOL_CTX
      /\ u.TASK_CTX_STACK = [m.TASK_CTX_STACK EXCEPT ![k] = s]
      /\ u.WORK_CTX = m.WORK_CTX
      /\ u.FORK_CTX = m.FORK_CTX
      /\ u.THREADPOOL_WORKER_CTX = m.THREADPOOL_WORKER_CTX
  BY Zenon DEF MapsType
<1> HIDE DEF r, u
<1>3. OneTask(m, r, k, s)
  BY <1>1 DEF OneTask, SameBooks, SameCounts, ctx_is_live
<1>4. OneTask(m, u, k, s)
  BY <1>2 DEF OneTask, SameBooks, SameCounts, ctx_is_live
<1> QED
  BY <1>3, <1>4 DEF r, u

(* A task that gives up a context no longer carries it (task_ctx_remove).   *)
LEMMA TaskRemoveKept ==
  ASSUME NEW m \in MapsType, NEW x, Ledger(m, x), NEW tid \in Tids, NEW k \in Tasks, NEW c
  PROVE  Kept(m, task_ctx_remove(m, tid, k, c), x)
<1> DEFINE s == RemoveFirst(m.TASK_CTX_STACK[k], c)
           t == top_or_null(s)
           r == [m EXCEPT !.TASK_CTX_STACK[k] = s, !.TASK_CTX[k] = t, !.THREAD_ACTIVE_CTX[tid] = t]
<1>1. task_ctx_remove(m, tid, k, c) =
        IF ~Contains(m.TASK_CTX_STACK[k], c) THEN m ELSE carrier_dec(r, c)
  BY DEF task_ctx_remove
<1>2. ASSUME Contains(m.TASK_CTX_STACK[k], c)
      PROVE  Kept(m, carrier_dec(r, c), x)
  <2>1. m.TASK_CTX_STACK[k] \in Stack(CtxIds) /\ m.TASK_CTX_STACK[k] \in Seq(CtxIds)
    BY MapsFields DEF Stack
  <2>2. s \in Stack(CtxIds)
    BY <1>2, <2>1, StackRemoveFirst
  <2>3. PICK i \in 1..Len(m.TASK_CTX_STACK[k]) :
          m.TASK_CTX_STACK[k][i] = c /\ s = RemoveAt(m.TASK_CTX_STACK[k], i)
    <3>1. Len(m.TASK_CTX_STACK[k]) <= 8
      BY <2>1, StackLen, Zenon
    <3> QED
      BY <1>2, <2>1, <3>1, RemoveFirstAt, Zenon
  <2>4. c \in CtxIds
    BY <2>1, <2>3
  <2>5. t \in CtxIds \cup {NULL}
    BY <2>2, TopType DEF CtxOrNull
  <2> HIDE DEF s, t
  <2>6. 0 \in Slots
    BY BoundsAssumption DEF Slots
  <2>7. OneTask(m, r, k, s)
    BY <2>2, <2>5, <2>6, TaskStackSet, Zenon
  <2> HIDE DEF r
  <2>8. Removed(m, r, c)
    BY <2>3, <2>7, TaskRemoveAt, Zenon
  <2>9. Forkless(m, r)
    BY <2>7 DEF OneTask, Forkless
  <2> QED
    BY <2>4, <2>8, <2>9, KeptDec
<1> QED
  BY <1>1, <1>2, KeptSelf

(* The top of the stack is its last place.                                  *)
LEMMA FrontRemoves ==
  ASSUME NEW S, NEW s \in Seq(S), s # <<>>
  PROVE  /\ Len(s) \in 1..Len(s)
         /\ Front(s) = RemoveAt(s, Len(s))
         /\ Last(s) = s[Len(s)]
<1> DEFINE n == Len(s)
<1>1. n \in Nat /\ n \in 1..n
  BY FrontType
<1>2. /\ RemoveAt(s, n) \in Seq(S) /\ Len(RemoveAt(s, n)) = n - 1
      /\ \A j \in 1..(n - 1) : RemoveAt(s, n)[j] = s[j]
  BY <1>1, RemoveAtType
<1>3. /\ Front(s) \in Seq(S) /\ Len(Front(s)) = n - 1
      /\ \A j \in 1..(n - 1) : Front(s)[j] = s[j]
  BY FrontType
<1> QED
  BY <1>1, <1>2, <1>3 DEF Last
(* Closing tool roots.                                                      *)

(* finish_tool_close gives up the frame's carrier, if the frame is the      *)
(* entry's.                                                                 *)
LEMMA FinishKept ==
  ASSUME NEW m \in MapsType, NEW x, Ledger(m, x), NEW tid \in Tids, NEW e \in ToolStackEntry
  PROVE  Kept(m, finish_tool_close(m, tid, e), x)
<1> DEFINE f == e.frame_ptr
           c == e.ctx_id
           r == ctx_stack_remove(Unframed(m, f), tid, c)
<1>1. f \in Frames /\ c \in CtxIds
  BY DEF ToolStackEntry
<1>2. finish_tool_close(m, tid, e) =
        IF m.FRAME_CTX[f] # c THEN m ELSE carrier_dec(emit_frame_end(r, c), c)
  BY DEF finish_tool_close, Unframed
<1>3. Unframed(m, f) \in MapsType
  BY <1>1, FrameFields, Zenon
<1> HIDE DEF f, c
<1>4. Neutral(Unframed(m, f), r)
  BY <1>3, CtxStackRemoveNeutral
<1> HIDE DEF r
<1>5. m.FRAME_CTX[f] = c => Kept(m, carrier_dec(emit_frame_end(r, c), c), x)
  BY <1>1, <1>4, EndFrame
<1> QED
  BY <1>2, <1>5, KeptSelf

(* The same for a parked close and for a tool root.                         *)
LEMMA PendingKept ==
  ASSUME NEW m \in MapsType, NEW x, Ledger(m, x), NEW tid \in Tids, NEW k \in Tasks,
         NEW i \in pending_slots(m, k)
  PROVE  Kept(m, finish_pending(m, tid, k, i), x)
<1> DEFINE r == [m EXCEPT !.PENDING_TOOL_CLOSE[k][i] = NULL]
           e == m.PENDING_TOOL_CLOSE[k][i]
<1>1. i \in Slots /\ e \in ToolStackEntry
  BY PendingType
<1>2. finish_pending(m, tid, k, i) = finish_tool_close(r, tid, e)
  BY DEF finish_pending
<1>3. Neutral(m, r)
  BY <1>1, PendingNeutral
<1> HIDE DEF r, e
<1>4. r \in MapsType
  BY <1>3 DEF Neutral
<1>5. Ledger(r, x) => Kept(r, finish_tool_close(r, tid, e), x)
  BY <1>1, <1>4, FinishKept
<1> QED
  BY <1>2, <1>3, <1>5, NeutralThenKept

(* A close parked at a depth that is left, and a slot that is cleared       *)
(* (finish_deferred_tool_close_at_depth, task_ctx_clear).                   *)
LEMMA AtDepthKept ==
  ASSUME NEW m \in MapsType, NEW x, Ledger(m, x), NEW tid \in Tids, NEW k \in Tasks, NEW i, NEW c
  PROVE  /\ Kept(m, finish_deferred_tool_close_at_depth(m, tid, k, i, c), x)
         /\ Kept(m, clear_slot(m, tid, k, i), x)
BY PendingKept, KeptSelf DEF finish_deferred_tool_close_at_depth, clear_slot

(* The root of a context is taken from TOOL_STACK, wherever it is, and      *)
(* closed.                                                                  *)
LEMMA CloseRootKept ==
  ASSUME NEW m \in MapsType, NEW x, Ledger(m, x), NEW tid \in Tids, NEW c
  PROVE  Kept(m, close_root(m, tid, c), x)
<1> DEFINE i == find_ctx(m, tid, c)
           r == tool_stack_remove_at(m, tid, i)
           e == m.TOOL_STACK[tid][i]
<1>1. i \in 0..Len(m.TOOL_STACK[tid])
  BY FindCtx
<1>2. close_root(m, tid, c) = IF i = 0 THEN m ELSE finish_tool_close(r, tid, e)
  BY DEF close_root
<1> HIDE DEF i
<1>3. Neutral(m, r) /\ (i # 0 => e \in ToolStackEntry)
  BY <1>1, ToolStackRemoveNeutral, ToolStackRemoveAt
<1> HIDE DEF r, e
<1>4. r \in MapsType
  BY <1>3 DEF Neutral
<1>5. i # 0 /\ Ledger(r, x) => Kept(r, finish_tool_close(r, tid, e), x)
  BY <1>3, <1>4, FinishKept
<1>6. i # 0 => Kept(m, finish_tool_close(r, tid, e), x)
  BY <1>3, <1>5, NeutralThenKept
<1> QED
  BY <1>2, <1>6, KeptSelf

(* One turn of the loop that empties a task stack.                          *)
LEMMA ClearTopKept ==
  ASSUME NEW m \in MapsType, NEW x, Ledger(m, x), NEW tid \in Tids, NEW k \in Tasks, NEW i \in Nat
  PROVE  Kept(m, clear_top(m, tid, k, i), x)
<1> DEFINE q == m.TASK_CTX_STACK[k]
           c == Last(q)
           m1 == finish_deferred_tool_close_at_depth(m, tid, k, i, c)
           m2 == close_root(m1, tid, c)
           s == Front(q)
           r == [m2 EXCEPT !.TASK_CTX_STACK[k] = s, !.PENDING_TOOL_CLOSE[k][i] = NULL]
<1>1. CASE Len(q) # i + 1
  <2>1. clear_top(m, tid, k, i) = m
    BY <1>1, ClearTopSkips
  <2> QED
    BY <2>1, KeptSelf
<1>2. CASE Len(q) = i + 1
  <2>1. q \in Stack(CtxIds) /\ q \in Seq(CtxIds) /\ q # <<>>
    BY <1>2, MapsFields DEF Stack
  <2>2. i \in Slots
    BY <1>2, <2>1, BoundsAssumption DEF Slots, Stack
  <2>3. c \in CtxIds /\ s \in Stack(CtxIds)
    BY <2>1, StackFront
  <2>4. Kept(m, m1, x) /\ Steady(m, m1)
    BY AtDepthKept, FinishAtDepth
  <2> HIDE DEF c, m1
  <2>5. m1 \in MapsType /\ Ledger(m1, x)
    BY <2>4, KeptFacts
  <2>6. Kept(m1, m2, x) /\ Steady(m1, m2)
    BY <2>5, CloseRootKept, CloseRoot
  <2>7. m2 \in MapsType /\ Ledger(m2, x) /\ Kept(m, m2, x)
    BY <2>4, <2>5, <2>6, KeptFacts, KeptTrans
  <2>8. m2.TASK_CTX_STACK[k] = q
    BY <2>4, <2>6 DEF Steady
  <2>16. clear_top(m, tid, k, i) = carrier_dec(Popped(m2, k, i), c)
    BY <1>2, ClearTopPops DEF c, m1
  <2>10. /\ Len(q) \in 1..Len(q)
         /\ s = RemoveAt(q, Len(q))
         /\ c = q[Len(q)]
    BY <2>1, FrontRemoves DEF c
  <2> HIDE DEF m2
  <2>9. clear_top(m, tid, k, i) = carrier_dec(r, c)
    BY <2>8, <2>16, Zenon DEF Popped
  <2> HIDE DEF s
  <2>11. NULL \in CtxIds \cup {NULL}
    OBVIOUS
  <2>12. OneTask(m2, r, k, s)
    BY <2>2, <2>3, <2>7, <2>11, TaskStackSet, Zenon
  <2> HIDE DEF r, q
  <2>13. Removed(m2, r, c)
    BY <2>7, <2>8, <2>10, <2>12, TaskRemoveAt, Zenon
  <2>14. Forkless(m2, r)
    BY <2>12 DEF OneTask, Forkless
  <2>15. Kept(m2, carrier_dec(r, c), x)
    BY <2>3, <2>7, <2>13, <2>14, KeptDec
  <2> QED
    BY <2>7, <2>9, <2>15, KeptTrans
<1> QED
  BY <1>1, <1>2

-----------------------------------------------------------------------------
(* Starting, closing and re-entering a tool root (frame_probes.rs).         *)

(* push_on_active_task adds the task of the thread, if it has one, to the   *)
(* carriers of a live context.                                              *)
LEMMA PushActiveKept ==
  ASSUME NEW m \in MapsType, NEW x, Ledger(m, x), NEW tid \in Tids, NEW c \in CtxIds,
         ctx_is_live(m, c)
  PROVE  Kept(m, push_on_active_task(m, tid, c), x)
<1>1. m.THREAD_ACTIVE_TASK[tid] \in Tasks \cup {NULL}
  BY MapsFields
<1> QED
  BY <1>1, TaskPushKept, KeptSelf DEF push_on_active_task

(* begin_tool enters a new context in the books with its START.             *)
LEMMA BeginKept ==
  ASSUME NEW m \in MapsType, NEW x, NEW r, NEW f \in Frames, NEW c, Fresh(m, r, f, c, x),
         NEW tid \in Tids, NEW parent \in ParentPtrs
  PROVE  Kept(m, begin_tool(r, tid, f, parent, c), x)
<1> DEFINE e == entry(c, f, parent, tool_of(r, c))
           s == tool_stack_push(r, tid, e)
           t == emit_start(s, c)
<1>1. begin_tool(r, tid, f, parent, c) = push_on_active_task(t, tid, c)
  BY DEF begin_tool
<1>2. r \in MapsType /\ c \in CtxIds /\ c \in CtxOrNull
  BY DEF Fresh, CtxOrNull
<1>3. e \in ToolStackEntry
  BY <1>2, EntryType, ToolOfType
<1> HIDE DEF e
<1>4. Neutral(r, s)
  BY <1>2, <1>3, ToolStackPushNeutral
<1> HIDE DEF s
<1>5. Fresh(m, s, f, c, x)
  BY <1>4, FreshNeutral
<1>6. s \in MapsType /\ ctx_is_live(s, c) /\ Kept(m, t, x)
  BY <1>5 DEF Fresh
<1>7. ctx_is_live(t, c)
  BY <1>2, <1>6, StartFields, Zenon DEF ctx_is_live
<1> HIDE DEF t
<1>8. Kept(t, push_on_active_task(t, tid, c), x)
  BY <1>2, <1>6, <1>7, KeptFacts, PushActiveKept
<1> QED
  BY <1>1, <1>6, <1>8, KeptTrans

(* A new context, pushed on the stack of its thread.                        *)
LEMMA PushFresh ==
  ASSUME NEW m \in MapsType, NEW x, Ledger(m, x), NEW f \in Frames, x => m.FRAME_CTX[f] = NULL,
         NEW tool \in ToolIds \cup {TOOL_IDLE}, NEW async \in BOOLEAN, m.CTX_COUNTER < MaxCtx,
         NEW tid \in Tids
  PROVE  LET c == alloc_ctx_id(m)
             r == new_ctx(m, f, tool, async)
         IN  /\ Kept(m, drop_ctx(r, f, c), x)
             /\ Fresh(m, ctx_stack_push(r, tid, c), f, c, x)
<1> DEFINE c == alloc_ctx_id(m)
           r == new_ctx(m, f, tool, async)
<1>1. Fresh(m, r, f, c, x)
  BY NewFresh
<1> HIDE DEF c, r
<1>2. Neutral(r, ctx_stack_push(r, tid, c))
  BY <1>1, CtxStackPushNeutral DEF Fresh
<1>3. Kept(m, drop_ctx(r, f, c), x) /\ Fresh(m, ctx_stack_push(r, tid, c), f, c, x)
  BY <1>1, <1>2, FreshNeutral, DropFresh
<1> QED
  BY <1>3 DEF c, r

(* start_cached_self_tool_root.                                             *)
LEMMA StartKept ==
  ASSUME NEW m \in MapsType, NEW x, Ledger(m, x), NEW f \in Frames, x => m.FRAME_CTX[f] = NULL,
         NEW tool \in ToolIds \cup {TOOL_IDLE}, NEW async \in BOOLEAN, m.CTX_COUNTER < MaxCtx,
         NEW tid \in Tids, NEW parent \in ParentPtrs
  PROVE  Kept(m, start_cached_self_tool_root(m, tid, f, parent, tool, async), x)
<1> DEFINE c == alloc_ctx_id(m)
           r == new_ctx(m, f, tool, async)
           s == ctx_stack_push(r, tid, c)
<1>1. start_cached_self_tool_root(m, tid, f, parent, tool, async) =
        IF tool = TOOL_IDLE THEN m
        ELSE IF ctx_stack_full(m, tid) THEN drop_ctx(r, f, c) ELSE begin_tool(s, tid, f, parent, c)
  BY DEF start_cached_self_tool_root
<1>2. Kept(m, drop_ctx(r, f, c), x) /\ Fresh(m, s, f, c, x)
  BY PushFresh
<1> HIDE DEF c, r, s
<1>3. Kept(m, begin_tool(s, tid, f, parent, c), x)
  BY <1>2, BeginKept
<1> QED
  BY <1>1, <1>2, <1>3, KeptSelf

(* close_tool_stack_entry, at once or deferred on the task.                 *)
LEMMA CloseEntryKept ==
  ASSUME NEW m \in MapsType, NEW x, Ledger(m, x), NEW tid \in Tids, NEW e \in ToolStackEntry
  PROVE  Kept(m, close_tool_stack_entry(m, tid, e), x)
<1> DEFINE task == m.THREAD_ACTIVE_TASK[tid]
           parks == ctx_is_live(m, e.ctx_id) /\ m.TOOL_CTX[e.ctx_id].async /\ e.tool_id # TOOL_IDLE
           c == e.ctx_id
           parked == defer_tool_close(m, task, e)
           given == task_ctx_remove(m, tid, task, c)
<1>1. close_tool_stack_entry(m, tid, e) =
        IF m.FRAME_CTX[e.frame_ptr] # c THEN m
        ELSE IF task = NULL THEN finish_tool_close(m, tid, e)
        ELSE IF parks THEN task_ctx_remove(parked, tid, task, c)
        ELSE finish_tool_close(given, tid, e)
  BY DEF close_tool_stack_entry
<1>2. task \in Tasks \cup {NULL}
  BY MapsFields
<1> HIDE DEF task, parks, c
<1>3. ASSUME task \in Tasks
      PROVE  /\ Kept(m, task_ctx_remove(parked, tid, task, c), x)
             /\ Kept(m, finish_tool_close(given, tid, e), x)
  <2>1. Neutral(m, parked) /\ parked \in MapsType
    BY <1>3, DeferNeutral DEF Neutral
  <2>2. Kept(m, given, x)
    BY <1>3, TaskRemoveKept
  <2> HIDE DEF parked, given
  <2>3. Ledger(parked, x) => Kept(parked, task_ctx_remove(parked, tid, task, c), x)
    BY <1>3, <2>1, TaskRemoveKept
  <2>4. Kept(given, finish_tool_close(given, tid, e), x)
    BY <2>2, KeptFacts, FinishKept
  <2> QED
    BY <2>1, <2>2, <2>3, <2>4, NeutralThenKept, KeptTrans
<1>4. Kept(m, finish_tool_close(m, tid, e), x)
  BY FinishKept
<1> QED
  BY <1>1, <1>2, <1>3, <1>4, KeptSelf

(* close_at takes the entry out of TOOL_STACK and closes it.                *)
LEMMA CloseAtKept ==
  ASSUME NEW m \in MapsType, NEW x, Ledger(m, x), NEW tid \in Tids,
         NEW i \in 0..Len(m.TOOL_STACK[tid]), i # 0
  PROVE  Kept(m, close_at(m, tid, i), x)
<1> DEFINE r == tool_stack_remove_at(m, tid, i)
           e == m.TOOL_STACK[tid][i]
<1>1. Neutral(m, r) /\ r \in MapsType /\ e \in ToolStackEntry
  BY ToolStackRemoveNeutral, ToolStackRemoveAt DEF Neutral
<1>2. close_at(m, tid, i) = close_tool_stack_entry(r, tid, e)
  BY DEF close_at
<1> HIDE DEF r, e
<1>3. Ledger(r, x) => Kept(r, close_tool_stack_entry(r, tid, e), x)
  BY <1>1, CloseEntryKept
<1> QED
  BY <1>1, <1>2, <1>3, NeutralThenKept

(* end_frame_ctx, for a frame without an entry in TOOL_STACK.               *)
LEMMA EndFrameKept ==
  ASSUME NEW m \in MapsType, NEW x, Ledger(m, x), NEW tid \in Tids, NEW f \in Frames,
         NEW c \in CtxIds, m.FRAME_CTX[f] = c
  PROVE  Kept(m, end_frame_ctx(m, tid, f, c), x)
<1> DEFINE r == ctx_stack_remove(Unframed(m, f), tid, c)
<1>1. end_frame_ctx(m, tid, f, c) = carrier_dec(emit_frame_end(r, c), c)
  BY DEF end_frame_ctx, Unframed
<1>2. Neutral(Unframed(m, f), r)
  BY FrameFields, CtxStackRemoveNeutral, Zenon
<1> HIDE DEF r
<1> QED
  BY <1>1, <1>2, EndFrame

(* reenter gives the task of the thread the context the frame owns.         *)
LEMMA ReenterKept ==
  ASSUME NEW m \in MapsType, NEW x, Ledger(m, x), NEW tid \in Tids, NEW f \in Frames,
         NEW parent \in ParentPtrs, NEW c \in CtxIds, m.FRAME_CTX[f] = c
  PROVE  Kept(m, reenter(m, tid, f, parent, c), x)
<1> DEFINE task == m.THREAD_ACTIVE_TASK[tid]
           e == entry(c, f, parent, tool_of(m, c))
           a == tool_stack_refresh(m, tid, e)
           b == set_active(a, tid, c)
           d == cancel_deferred_tool_close(b, task, c, f)
<1>1. reenter(m, tid, f, parent, c) = IF task = NULL THEN b ELSE task_ctx_push(d, tid, task, c)
  BY DEF reenter
<1>2. task \in Tasks \cup {NULL} /\ c \in CtxOrNull
  BY MapsFields DEF CtxOrNull
<1>3. ctx_is_live(m, c)
  BY CtxNotNull, OwnerLive
<1>4. e \in ToolStackEntry
  BY <1>2, EntryType, ToolOfType
<1> HIDE DEF e, task
<1>5. Neutral(m, a) /\ a \in MapsType
  BY <1>4, ToolStackRefreshNeutral DEF Neutral
<1> HIDE DEF a
<1>6. Neutral(a, b)
  BY <1>2, <1>5, SetActiveNeutral
<1> HIDE DEF b
<1>7. Neutral(m, b) /\ b \in MapsType
  BY <1>5, <1>6, NeutralTrans DEF Neutral
<1>8. ASSUME task \in Tasks PROVE Kept(m, task_ctx_push(d, tid, task, c), x)
  <2>1. Neutral(b, d)
    BY <1>7, <1>8, CancelNeutral
  <2> HIDE DEF d
  <2>2. Neutral(m, d)
    BY <1>7, <2>1, NeutralTrans
  <2>3. d \in MapsType /\ ctx_is_live(d, c)
    BY <1>3, <2>2 DEF Neutral, SameCounts
  <2>4. Ledger(d, x) => Kept(d, task_ctx_push(d, tid, task, c), x)
    BY <1>8, <2>3, TaskPushKept
  <2> QED
    BY <2>2, <2>4, NeutralThenKept
<1> QED
  BY <1>1, <1>2, <1>7, <1>8, NeutralKept

(* restore_deferred_tool_close puts a parked close back on its task.        *)
LEMMA RestoreKept ==
  ASSUME NEW m \in MapsType, NEW x, Ledger(m, x), NEW tid \in Tids, NEW k \in Tasks
  PROVE  Kept(m, restore_deferred_tool_close(m, tid, k), x)
<1> DEFINE e == deferred_entry(m, k)
           c == e.ctx_id
           i == Max(pending_slots(m, k))
           a == [m EXCEPT !.PENDING_TOOL_CLOSE[k][i] = NULL]
           b == tool_stack_push(a, tid, e)
<1>1. restore_deferred_tool_close(m, tid, k) =
        IF pending_slots(m, k) = {} THEN m
        ELSE IF ~ctx_is_live(m, c) THEN a ELSE task_ctx_push(b, tid, k, c)
  BY DEF restore_deferred_tool_close
<1>2. ASSUME pending_slots(m, k) # {}
      PROVE  Kept(m, a, x) /\ (ctx_is_live(m, c) => Kept(m, task_ctx_push(b, tid, k, c), x))
  <2>1. i \in Slots /\ e \in ToolStackEntry
    BY <1>2, DeferredEntry, PendingType
  <2>2. c \in CtxIds
    BY <2>1 DEF ToolStackEntry
  <2> HIDE DEF i, e, c
  <2>3. Neutral(m, a) /\ a \in MapsType
    BY <2>1, PendingNeutral DEF Neutral
  <2> HIDE DEF a
  <2>4. Neutral(a, b)
    BY <2>1, <2>3, ToolStackPushNeutral
  <2> HIDE DEF b
  <2>5. Neutral(m, b)
    BY <2>3, <2>4, NeutralTrans
  <2>6. b \in MapsType /\ (ctx_is_live(m, c) => ctx_is_live(b, c))
    BY <2>2, <2>5 DEF Neutral, SameCounts
  <2>7. Ledger(b, x) /\ ctx_is_live(m, c) => Kept(b, task_ctx_push(b, tid, k, c), x)
    BY <2>2, <2>6, TaskPushKept
  <2> QED
    BY <2>3, <2>5, <2>7, NeutralKept, NeutralThenKept
<1> QED
  BY <1>1, <1>2, KeptSelf

-----------------------------------------------------------------------------
(* Which tool a frame runs, and which its context has.                      *)

(* The context of the frame has the tool the frame runs, if that is known.  *)
Settled(m, py, f) ==
  m.FRAME_CTX[f] # NULL =>
    cached_frame_self_tool_id(m, py, f) \in {TOOL_IDLE, tool_of(m, m.FRAME_CTX[f])}

(* Helpers that leave tools, owners and the tool-object cache alone.        *)
Titled(m, r) ==
  /\ r \in MapsType
  /\ r.TOOL_OBJ = m.TOOL_OBJ
  /\ r.FRAME_CTX = m.FRAME_CTX
  /\ r.THREAD_ACTIVE_TASK = m.THREAD_ACTIVE_TASK
  /\ \A b \in CtxIds : tool_of(r, b) = tool_of(m, b)

(* Such helpers compose.                                                    *)
LEMMA TitledTrans ==
  ASSUME NEW m, NEW r, NEW s, Titled(m, r), Titled(r, s)
  PROVE  Titled(m, s)
BY DEF Titled

(* The pushes and the START of a new context are such helpers.              *)
LEMMA TitledHelpers ==
  ASSUME NEW m \in MapsType, NEW tid \in Tids, NEW f \in Frames, NEW c \in CtxIds,
         NEW e \in ToolStackEntry
  PROVE  /\ Titled(m, frame_stash_push(m, tid, f))
         /\ Titled(m, ctx_stack_push(m, tid, c))
         /\ Titled(m, tool_stack_push(m, tid, e))
         /\ Titled(m, emit_start(m, c))
         /\ Titled(m, set_active(m, tid, c))
<1>1. \A r : r.TOOL_CTX = m.TOOL_CTX => \A b \in CtxIds : tool_of(r, b) = tool_of(m, b)
  BY DEF tool_of, ctx_is_live
<1>2. Titled(m, frame_stash_push(m, tid, f))
  <2> DEFINE r == frame_stash_push(m, tid, f)
  <2>1. r \in MapsType
    BY FrameStashPush DEF Steady
  <2>2. /\ r.TOOL_OBJ = m.TOOL_OBJ /\ r.FRAME_CTX = m.FRAME_CTX /\ r.TOOL_CTX = m.TOOL_CTX
        /\ r.THREAD_ACTIVE_TASK = m.THREAD_ACTIVE_TASK
    BY Zenon DEF MapsType, frame_stash_push
  <2> QED
    BY <1>1, <2>1, <2>2 DEF Titled
<1>3. Titled(m, ctx_stack_push(m, tid, c))
  <2> DEFINE r == ctx_stack_push(m, tid, c)
  <2>1. r \in MapsType
    BY CtxStackPush DEF Steady
  <2>2. /\ r.TOOL_OBJ = m.TOOL_OBJ /\ r.FRAME_CTX = m.FRAME_CTX /\ r.TOOL_CTX = m.TOOL_CTX
        /\ r.THREAD_ACTIVE_TASK = m.THREAD_ACTIVE_TASK
    BY Zenon DEF MapsType, ctx_stack_push
  <2> QED
    BY <1>1, <2>1, <2>2 DEF Titled
<1>4. Titled(m, tool_stack_push(m, tid, e))
  <2> DEFINE r == tool_stack_push(m, tid, e)
  <2>1. r \in MapsType
    BY ToolStackPush DEF Steady
  <2>2. /\ r.TOOL_OBJ = m.TOOL_OBJ /\ r.FRAME_CTX = m.FRAME_CTX /\ r.TOOL_CTX = m.TOOL_CTX
        /\ r.THREAD_ACTIVE_TASK = m.THREAD_ACTIVE_TASK
    BY Zenon DEF MapsType, tool_stack_push
  <2> QED
    BY <1>1, <2>1, <2>2 DEF Titled
<1>5. Titled(m, emit_start(m, c))
  <2> DEFINE r == emit_start(m, c)
  <2>1. r \in MapsType
    BY EmitStart DEF Steady
  <2>2. /\ r.TOOL_OBJ = m.TOOL_OBJ /\ r.FRAME_CTX = m.FRAME_CTX /\ r.TOOL_CTX = m.TOOL_CTX
        /\ r.THREAD_ACTIVE_TASK = m.THREAD_ACTIVE_TASK
    BY Zenon DEF MapsType, emit_start
  <2> QED
    BY <1>1, <2>1, <2>2 DEF Titled
<1>6. Titled(m, set_active(m, tid, c))
  <2> DEFINE r == set_active(m, tid, c)
  <2>1. r \in MapsType
    BY SetActive DEF Steady, CtxOrNull
  <2>2. /\ r.TOOL_OBJ = m.TOOL_OBJ /\ r.FRAME_CTX = m.FRAME_CTX /\ r.TOOL_CTX = m.TOOL_CTX
        /\ r.THREAD_ACTIVE_TASK = m.THREAD_ACTIVE_TASK
    BY Zenon DEF MapsType, set_active
  <2> QED
    BY <1>1, <2>1, <2>2 DEF Titled
<1> QED
  BY <1>2, <1>3, <1>4, <1>5, <1>6

(* So is the push on a task, whose carrier_inc keeps the tool.              *)
LEMMA TitledPush ==
  ASSUME NEW m \in MapsType, NEW tid \in Tids, NEW k \in Tasks, NEW c \in CtxIds
  PROVE  Titled(m, task_ctx_push(m, tid, k, c))
<1> DEFINE s == Append(m.TASK_CTX_STACK[k], c)
           r == [m EXCEPT !.TASK_CTX_STACK[k] = s, !.TASK_CTX[k] = c, !.THREAD_ACTIVE_CTX[tid] = c]
           v == [r.TOOL_CTX[c] EXCEPT !.carrier_count = @ + 1]
           t == [r EXCEPT !.TOOL_CTX[c] = v]
<1>1. task_ctx_push(m, tid, k, c) =
        IF m.TASK_CTX[k] = c THEN set_active(m, tid, c)
        ELSE IF task_ctx_full(m, k) THEN m
        ELSE IF ctx_is_live(r, c) THEN t ELSE r
  BY DEF task_ctx_push, carrier_inc
<1>2. m.TASK_CTX[k] = c => Titled(m, set_active(m, tid, c))
  <2>1. set_active(m, tid, c) \in MapsType
    BY SetActive DEF Steady, CtxOrNull
  <2>2. /\ set_active(m, tid, c).TOOL_OBJ = m.TOOL_OBJ
        /\ set_active(m, tid, c).FRAME_CTX = m.FRAME_CTX
        /\ set_active(m, tid, c).TOOL_CTX = m.TOOL_CTX
        /\ set_active(m, tid, c).THREAD_ACTIVE_TASK = m.THREAD_ACTIVE_TASK
    BY Zenon DEF MapsType, set_active
  <2> QED
    BY <2>1, <2>2 DEF Titled, tool_of, ctx_is_live
<1>3. Titled(m, m)
  BY DEF Titled
<1>4. ASSUME ~task_ctx_full(m, k)
      PROVE  Titled(m, IF ctx_is_live(r, c) THEN t ELSE r)
  <2>1. m.TASK_CTX_STACK[k] \in Stack(CtxIds)
    BY MapsFields
  <2>2. s \in Stack(CtxIds)
    BY <1>4, <2>1, StackAppend DEF task_ctx_full
  <2> HIDE DEF s
  <2>3. r \in MapsType
    BY <2>2, Zenon DEF MapsType
  <2>4. /\ r.TOOL_OBJ = m.TOOL_OBJ /\ r.FRAME_CTX = m.FRAME_CTX /\ r.TOOL_CTX = m.TOOL_CTX
        /\ r.THREAD_ACTIVE_TASK = m.THREAD_ACTIVE_TASK
    BY Zenon DEF MapsType
  <2> HIDE DEF r
  <2>5. Titled(m, r)
    BY <2>3, <2>4 DEF Titled, tool_of, ctx_is_live
  <2>6. ASSUME ctx_is_live(r, c) PROVE Titled(m, t)
    <3>1. r.TOOL_CTX \in [CtxIds -> ToolCtx \cup {NULL}] /\ r.TOOL_CTX[c] \in ToolCtx
      BY <2>3, <2>6, MapsFields DEF ctx_is_live
    <3>2. v \in ToolCtx /\ v.tool_id = r.TOOL_CTX[c].tool_id
      BY <3>1 DEF ToolCtx
    <3>3. v # NULL
      BY <3>2, NullAssumption
    <3> HIDE DEF v
    <3>4. t \in MapsType
      BY <2>3, <3>2, SetCtx DEF Steady
    <3>5. /\ t.TOOL_OBJ = r.TOOL_OBJ /\ t.FRAME_CTX = r.FRAME_CTX
          /\ t.TOOL_CTX = [r.TOOL_CTX EXCEPT ![c] = v]
          /\ t.THREAD_ACTIVE_TASK = r.THREAD_ACTIVE_TASK
      BY <2>3, Zenon DEF MapsType
    <3> HIDE DEF t
    <3>6. \A b \in CtxIds : tool_of(t, b) = tool_of(r, b)
      BY <2>6, <3>1, <3>2, <3>3, <3>5 DEF tool_of, ctx_is_live
    <3> QED
      BY <2>5, <3>4, <3>5, <3>6 DEF Titled
  <2> QED
    BY <2>5, <2>6
<1> QED
  BY <1>1, <1>2, <1>3, <1>4

(* begin_tool as a whole.                                                   *)
LEMMA TitledBegin ==
  ASSUME NEW m \in MapsType, NEW tid \in Tids, NEW f \in Frames, NEW parent \in ParentPtrs,
         NEW c \in CtxIds
  PROVE  Titled(m, begin_tool(m, tid, f, parent, c))
<1> DEFINE e == entry(c, f, parent, tool_of(m, c))
           s == tool_stack_push(m, tid, e)
           t == emit_start(s, c)
           k == t.THREAD_ACTIVE_TASK[tid]
<1>1. begin_tool(m, tid, f, parent, c) = IF k = NULL THEN t ELSE task_ctx_push(t, tid, k, c)
  BY DEF begin_tool, push_on_active_task
<1>2. e \in ToolStackEntry
  BY EntryType, ToolOfType DEF CtxOrNull
<1> HIDE DEF e
<1>3. Titled(m, s)
  BY <1>2, TitledHelpers
<1> HIDE DEF s
<1>4. Titled(s, t)
  BY <1>2, <1>3, TitledHelpers DEF Titled
<1> HIDE DEF t
<1>5. Titled(m, t) /\ t \in MapsType
  BY <1>3, <1>4, TitledTrans DEF Titled
<1>6. k \in Tasks \cup {NULL}
  BY <1>5, MapsFields
<1> HIDE DEF k
<1>7. k \in Tasks => Titled(t, task_ctx_push(t, tid, k, c))
  BY <1>5, TitledPush
<1> QED
  BY <1>1, <1>5, <1>6, <1>7, TitledTrans

(* Frame f now has context c of the tool, or none; nothing else changed.    *)
Retitled(m, t, f, c, tool) ==
  /\ t.TOOL_OBJ = m.TOOL_OBJ
  /\ \A g \in Frames : g # f => t.FRAME_CTX[g] = m.FRAME_CTX[g]
  /\ t.FRAME_CTX[f] \in {NULL, c}
  /\ t.FRAME_CTX[f] = c => tool_of(t, c) = tool
  /\ \A b \in CtxIds : b # c => tool_of(t, b) = tool_of(m, b)

(* start_cached_self_tool_root does no more than that to tools and owners.  *)
LEMMA StartTitles ==
  ASSUME NEW m \in MapsType, NEW f \in Frames, NEW tool \in ToolIds, NEW async \in BOOLEAN,
         m.CTX_COUNTER < MaxCtx, NEW tid \in Tids, NEW parent \in ParentPtrs
  PROVE  Retitled(m, start_cached_self_tool_root(m, tid, f, parent, tool, async), f,
                  alloc_ctx_id(m), tool)
<1> DEFINE v == [tool_id |-> tool, carrier_count |-> 1, async |-> async,
                 seen |-> FALSE, resolver_error |-> FALSE]
           c == alloc_ctx_id(m)
           t == start_cached_self_tool_root(m, tid, f, parent, tool, async)
           r == new_ctx(m, f, tool, async)
           d == drop_ctx(r, f, c)
           s == ctx_stack_push(r, tid, c)
           u == begin_tool(s, tid, f, parent, c)
<1>1. tool # TOOL_IDLE
  BY NullAssumption DEF TOOL_IDLE
<1>2. t = IF ctx_stack_full(m, tid) THEN d ELSE u
  BY <1>1 DEF start_cached_self_tool_root
<1>3. c \in CtxIds /\ r \in MapsType
  BY NewFields, Zenon
<1> SUFFICES Retitled(m, t, f, c, tool)
  OBVIOUS
<1> HIDE DEF t, c
<1>4. v \in ToolCtx /\ v.tool_id = tool
  BY DEF ToolCtx
<1>5. v # NULL
  BY <1>4, NullAssumption, Zenon
<1> HIDE DEF v
<1>6. /\ r.TOOL_OBJ = m.TOOL_OBJ
      /\ r.FRAME_CTX = [m.FRAME_CTX EXCEPT ![f] = c]
      /\ r.TOOL_CTX = [m.TOOL_CTX EXCEPT ![c] = v]
  <2> DEFINE n == [m EXCEPT !.CTX_COUNTER = c, !.FRAME_CTX[f] = c, !.TOOL_CTX[c] = v]
  <2>1. r = n
    BY DEF new_ctx, v, c
  <2>2. /\ n.TOOL_OBJ = m.TOOL_OBJ
        /\ n.FRAME_CTX = [m.FRAME_CTX EXCEPT ![f] = c]
        /\ n.TOOL_CTX = [m.TOOL_CTX EXCEPT ![c] = v]
    BY Zenon DEF MapsType
  <2> QED
    BY <2>1, <2>2
<1> HIDE DEF r
<1>7. m.FRAME_CTX \in [Frames -> CtxOrNull] /\ m.TOOL_CTX \in [CtxIds -> ToolCtx \cup {NULL}]
  BY MapsFields
<1>8. c # NULL
  BY <1>3, CtxNotNull
<1>9. CASE ctx_stack_full(m, tid)
  <2>1. /\ d.TOOL_OBJ = r.TOOL_OBJ
        /\ d.FRAME_CTX = [r.FRAME_CTX EXCEPT ![f] = NULL]
        /\ d.TOOL_CTX = [r.TOOL_CTX EXCEPT ![c] = NULL]
    BY <1>3, Zenon DEF MapsType, drop_ctx
  <2>2. t = d
    BY <1>2, <1>9
  <2> HIDE DEF d
  <2>3. /\ \A g \in Frames : g # f => d.FRAME_CTX[g] = m.FRAME_CTX[g]
        /\ d.FRAME_CTX[f] = NULL
        /\ \A b \in CtxIds : b # c => d.TOOL_CTX[b] = m.TOOL_CTX[b]
    BY <1>3, <1>6, <1>7, <2>1
  <2> QED
    BY <1>6, <1>8, <2>1, <2>2, <2>3 DEF tool_of, ctx_is_live, Retitled
<1>10. CASE ~ctx_stack_full(m, tid)
  <2>1. PICK e : e \in ToolStackEntry
    BY <1>3, EntryType DEF TOOL_IDLE
  <2>2. Titled(r, s)
    BY <1>3, <2>1, TitledHelpers
  <2> HIDE DEF s
  <2>3. Titled(s, u)
    BY <1>3, <2>2, TitledBegin DEF Titled
  <2> HIDE DEF u
  <2>4. Titled(r, u) /\ t = u
    BY <1>2, <1>10, <2>2, <2>3, TitledTrans
  <2>5. /\ \A g \in Frames : g # f => r.FRAME_CTX[g] = m.FRAME_CTX[g]
        /\ r.FRAME_CTX[f] = c
        /\ \A b \in CtxIds : b # c => r.TOOL_CTX[b] = m.TOOL_CTX[b]
        /\ r.TOOL_CTX[c] = v
    BY <1>3, <1>6, <1>7
  <2>6. /\ tool_of(r, c) = tool
        /\ \A b \in CtxIds : b # c => tool_of(r, b) = tool_of(m, b)
    BY <1>4, <1>5, <1>8, <2>5 DEF tool_of, ctx_is_live
  <2>7. /\ t.TOOL_OBJ = r.TOOL_OBJ
        /\ t.FRAME_CTX = r.FRAME_CTX
        /\ \A b \in CtxIds : tool_of(t, b) = tool_of(r, b)
    BY <2>4 DEF Titled
  <2>8. tool_of(t, c) = tool /\ \A b \in CtxIds : b # c => tool_of(t, b) = tool_of(m, b)
    BY <1>3, <2>6, <2>7
  <2> QED
    BY <1>6, <2>5, <2>7, <2>8 DEF Retitled
<1> QED
  BY <1>9, <1>10

(* The context start_cached_parent_tool_if_needed gives to the calling      *)
(* frame has the tool that frame runs, and no other frame changes tool.     *)
LEMMA ParentSettled ==
  ASSUME NEW m \in MapsType, NEW x, Ledger(m, x), NEW py \in PyType, NEW tid \in Tids,
         NEW p \in ParentPtrs, m.CTX_COUNTER < MaxCtx, NEW f \in Frames, Settled(m, py, f)
  PROVE  Settled(start_cached_parent_tool_if_needed(m, py, tid, p), py, f)
<1> DEFINE tool == cached_frame_self_tool_id(m, py, p)
           async == py.code[p].async
           s == frame_stash_push(m, tid, p)
           t == start_cached_self_tool_root(s, tid, p, py.prev[p], tool, async)
           skip == \/ p \notin Frames
                   \/ m.FRAME_CTX[p] # NULL
                   \/ py.code[p].kind # IMPL
                   \/ tool = TOOL_IDLE
<1>1. start_cached_parent_tool_if_needed(m, py, tid, p) = IF skip THEN m ELSE t
  BY DEF start_cached_parent_tool_if_needed
<1>2. ASSUME ~skip PROVE Settled(t, py, f)
  <2>1. p \in Frames /\ m.FRAME_CTX[p] = NULL /\ py.code[p].kind = IMPL /\ tool # TOOL_IDLE
    BY <1>2
  <2> HIDE DEF skip
  <2>2. py.code[p] \in Code /\ py.prev[p] \in ParentPtrs
    BY <2>1 DEF PyType
  <2>3. async \in BOOLEAN /\ py.code[p].self \in Objs \cup {NULL}
    BY <2>1, <2>2, Zenon DEF Code, ToolKinds, WorkKinds, LC, LG, ID, IMPL, POOL, PLAIN, WORKITEM_CTOR,
                     WORKITEM_RUN, THREAD_CTOR, THREAD_RUN
  <2>4. tool \in ToolIds
    <3>1. py.code[p].self # NULL /\ cache_valid(m, py, py.code[p].self)
          /\ tool = m.TOOL_OBJ[py.code[p].self].tool_id
      BY <2>1 DEF cached_frame_self_tool_id
    <3>2. m.TOOL_OBJ[py.code[p].self] \in ToolObjCacheEntry
      BY <2>3, <3>1, MapsFields, Zenon DEF cache_valid
    <3> QED
      BY <3>1, <3>2 DEF ToolObjCacheEntry
  <2>5. \A n : n.TOOL_OBJ = m.TOOL_OBJ =>
          \A g : cached_frame_self_tool_id(n, py, g) = cached_frame_self_tool_id(m, py, g)
    BY DEF cached_frame_self_tool_id, cache_valid
  <2>6. PICK c : c = alloc_ctx_id(s)
    OBVIOUS
  <2>7. c = m.CTX_COUNTER + 1 /\ s \in MapsType /\ s.CTX_COUNTER < MaxCtx
    BY <2>1, <2>6, FrameStashNeutral DEF Neutral, SameCarriers, alloc_ctx_id
  <2>8. /\ s.TOOL_OBJ = m.TOOL_OBJ
        /\ s.FRAME_CTX = m.FRAME_CTX
        /\ \A b \in CtxIds : tool_of(s, b) = tool_of(m, b)
    <3>1. 1 \in CtxIds
      <4>1. m.CTX_COUNTER \in Nat
        BY MapsFields, Zenon
      <4> QED
        BY <4>1, BoundsAssumption DEF CtxIds
    <3>2. PICK e : e \in ToolStackEntry
      BY <2>1, <2>2, <3>1, EntryType DEF TOOL_IDLE
    <3> QED
      BY <2>1, <3>2, <3>1, TitledHelpers, Zenon DEF Titled
  <2>9. t = start_cached_self_tool_root(s, tid, p, py.prev[p], tool, async)
    OBVIOUS
  <2> HIDE DEF s, tool, async, t
  <2>10. Retitled(s, t, p, c, tool)
    BY <2>1, <2>2, <2>3, <2>4, <2>6, <2>7, <2>9, StartTitles, Zenon
  <2>11. /\ t.TOOL_OBJ = s.TOOL_OBJ
         /\ \A g \in Frames : g # p => t.FRAME_CTX[g] = s.FRAME_CTX[g]
         /\ t.FRAME_CTX[p] \in {NULL, c}
         /\ t.FRAME_CTX[p] = c => tool_of(t, c) = tool
         /\ \A b \in CtxIds : b # c => tool_of(t, b) = tool_of(s, b)
    BY <2>10 DEF Retitled
  <2>12. CASE f = p
    <3>1. t.FRAME_CTX[f] # NULL => tool_of(t, t.FRAME_CTX[f]) = tool
      BY <2>11, <2>12
    <3>2. cached_frame_self_tool_id(t, py, f) = tool
      BY <2>5, <2>8, <2>11, <2>12 DEF tool
    <3> QED
      BY <3>1, <3>2 DEF Settled
  <2>13. CASE f # p
    <3>1. t.FRAME_CTX[f] = m.FRAME_CTX[f]
      BY <2>8, <2>11, <2>13
    <3>2. ASSUME m.FRAME_CTX[f] # NULL
          PROVE  tool_of(t, m.FRAME_CTX[f]) = tool_of(m, m.FRAME_CTX[f])
      <4>1. m.FRAME_CTX[f] \in CtxIds
        BY <3>2, OwnerLive
      <4>2. m.FRAME_CTX[f] <= m.CTX_COUNTER
        BY <4>1, CarriedIsLive DEF Owned, LiveEntry
      <4>3. m.CTX_COUNTER \in Nat /\ m.FRAME_CTX[f] \in Nat
        BY <4>1, MapsFields, CtxNotNull, Zenon
      <4>4. m.FRAME_CTX[f] # c
        BY <2>7, <4>2, <4>3
      <4> QED
        BY <2>8, <2>11, <4>1, <4>4
    <3>3. cached_frame_self_tool_id(t, py, f) = cached_frame_self_tool_id(m, py, f)
      BY <2>5, <2>8, <2>11
    <3> QED
      BY <3>1, <3>2, <3>3 DEF Settled
  <2> QED
    BY <2>12, <2>13
<1> QED
  BY <1>1, <1>2
=============================================================================
