--------------------------- MODULE BlackboardProofs ---------------------------
(***************************************************************************)
(* Backtracking and global variables, for any keys, values and bounds.      *)
(*                                                                          *)
(* The argument: whatever a step does, backtracking to a choice point that  *)
(* is still there would give every key the location it would have given it  *)
(* before the step (SameUnwound).  A new trail entry remembers what it      *)
(* overwrites; unwinding in two stages is unwinding at once, because the    *)
(* choice points are ordered along the trail and the heap (Ordered).  Only  *)
(* bb_put changes a value without trailing, and it makes its key dirty.     *)
(***************************************************************************)
EXTENDS Blackboard, SequenceTheorems, WellFoundedInduction, TLAPS

(* The choice points remember tops of the trail and the heap in their order. *)
Ordered ==
  /\ \A i \in 1..Len(choices) : choices[i].tr <= Len(trail) /\ choices[i].h <= Len(heap)
  /\ \A i, j \in 1..Len(choices) :
       i <= j => choices[i].tr <= choices[j].tr /\ choices[i].h <= choices[j].h

(* The inductive invariant. *)
Inv == TypeOK /\ Ordered /\ NoDanglingLocation /\ TrailedKeysKnown /\ BacktrackRestores

-----------------------------------------------------------------------------
(* A set of numbers has a smallest one. *)
LEMMA Smallest ==
  ASSUME NEW T \in SUBSET Nat, T # {}
  PROVE  \E x \in T : \A y \in T : x <= y
<1>1. PICK x \in T : \A y \in T : ~ (<<y, x>> \in OpToRel(<, Nat))
  BY NatLessThanWellFounded, WFMin
<1>2. \A y \in T : ~ (y < x)
  BY <1>1 DEF OpToRel
<1>3. x \in Nat /\ \A y \in T : y \in Nat
  OBVIOUS
<1> QED BY <1>2, <1>3

(* A sequence cut down to its first n elements. *)
LEMMA Prefix ==
  ASSUME NEW S, NEW s \in Seq(S), NEW n \in 0..Len(s)
  PROVE  /\ SubSeq(s, 1, n) \in Seq(S)
         /\ Len(SubSeq(s, 1, n)) = n
         /\ \A i \in 1..n : SubSeq(s, 1, n)[i] = s[i]
<1>1. Len(s) \in Nat /\ \A i \in 1..Len(s) : s[i] \in S
  BY LenProperties, ElementOfSeq
<1>2. n \in Int /\ 1 \in Int /\ \A i \in 1..n : s[i] \in S
  BY <1>1
<1>3. /\ SubSeq(s, 1, n) \in Seq(S)
      /\ Len(SubSeq(s, 1, n)) = IF 1 <= n THEN n - 1 + 1 ELSE 0
      /\ \A i \in 1..n - 1 + 1 : SubSeq(s, 1, n)[i] = s[1 + i - 1]
  BY <1>2, SubSeqProperties
<1> QED BY <1>1, <1>3

(* What the oldest trail entry of a key remembers is what unwinding gives. *)
OldestEntry(k, a1, a2, i) == i \in EntriesOf(k, a1, a2) /\ \A j \in EntriesOf(k, a1, a2) : i <= j

(* The oldest entry for a key decides what undoing the trail gives it. *)
LEMMA UnwoundOldest ==
  ASSUME NEW k, NEW a1 \in Nat, NEW a2 \in Nat, NEW i, OldestEntry(k, a1, a2, i)
  PROVE  Unwound(k, a1, a2) = trail[i].old
<1> DEFINE E == EntriesOf(k, a1, a2)
           c == CHOOSE x \in E : \A y \in E : x <= y
<1>1. i \in E /\ \A y \in E : i <= y
  BY DEF OldestEntry
<1>2. c \in E /\ \A y \in E : c <= y
  BY <1>1
<1>3. E \subseteq Nat
  BY DEF EntriesOf
<1>4. c = i
  <2> HIDE DEF E, c
  <2> QED BY <1>1, <1>2, <1>3
<1> QED BY <1>1, <1>4 DEF Unwound

(* A key that was trailed has an oldest entry. *)
LEMMA OldestExists ==
  ASSUME NEW k, NEW a1 \in Nat, NEW a2 \in Nat, EntriesOf(k, a1, a2) # {}
  PROVE  \E i : OldestEntry(k, a1, a2, i)
<1>1. EntriesOf(k, a1, a2) \in SUBSET Nat
  BY DEF EntriesOf
<1>2. PICK i \in EntriesOf(k, a1, a2) : \A y \in EntriesOf(k, a1, a2) : i <= y
  BY <1>1, Smallest
<1> QED BY <1>2 DEF OldestEntry

(* Unwound, as an alternative without CHOOSE. *)
IsUnwound(k, a1, a2) ==
  \/ EntriesOf(k, a1, a2) = {} /\ Unwound(k, a1, a2) = loc[k]
  \/ \E i \in Nat : OldestEntry(k, a1, a2, i) /\ Unwound(k, a1, a2) = trail[i].old

(* What undoing the trail gives a key: what its oldest entry says, or what it has. *)
LEMMA UnwoundCases == \A k \in Keys, a1, a2 \in Nat : IsUnwound(k, a1, a2)
<1> SUFFICES ASSUME NEW k \in Keys, NEW a1 \in Nat, NEW a2 \in Nat
             PROVE  IsUnwound(k, a1, a2)
  OBVIOUS
<1>1. CASE EntriesOf(k, a1, a2) = {}
  BY <1>1 DEF IsUnwound, Unwound
<1>2. CASE EntriesOf(k, a1, a2) # {}
  <2>1. PICK i : OldestEntry(k, a1, a2, i)
    BY <1>2, OldestExists
  <2>2. i \in Nat
    BY <2>1 DEF OldestEntry, EntriesOf
  <2> QED BY <2>1, <2>2, UnwoundOldest DEF IsUnwound
<1> QED BY <1>1, <1>2

(* The same of the state after a step. *)
LEMMA UnwoundCasesNext == (\A k \in Keys, a1, a2 \in Nat : IsUnwound(k, a1, a2))'
  BY UnwoundCases, PTL

(* An entry of the trail, and what a choice point remembers of it. *)
LEMMA TrailFacts ==
  ASSUME TypeOK
  PROVE  /\ Len(trail) \in Nat /\ Len(heap) \in Nat /\ Len(choices) \in Nat
         /\ \A i \in 1..Len(trail) : trail[i].key \in Keys /\ trail[i].old \in Nat
         /\ \A i \in 1..Len(choices) : choices[i].tr \in Nat /\ choices[i].h \in Nat
         /\ \A k \in Keys : loc[k] \in Nat
         /\ DOMAIN trail = 1..Len(trail) /\ DOMAIN heap = 1..Len(heap)
         /\ DOMAIN choices = 1..Len(choices)
<1>1. /\ Len(trail) \in Nat /\ DOMAIN trail = 1..Len(trail)
      /\ Len(heap) \in Nat /\ DOMAIN heap = 1..Len(heap)
      /\ Len(choices) \in Nat /\ DOMAIN choices = 1..Len(choices)
  BY DEF TypeOK
<1>2. \A i \in 1..Len(trail) : trail[i].key \in Keys /\ trail[i].old \in Nat
  <2> DEFINE R == [key : Keys, old : Nat]
  <2>1. trail \in Seq(R)
    BY DEF TypeOK
  <2>2. \A i \in 1..Len(trail) : trail[i] \in R
    <3> HIDE DEF R
    <3> QED BY <2>1, ElementOfSeq
  <2> QED BY <2>2
<1>3. \A i \in 1..Len(choices) : choices[i].tr \in Nat /\ choices[i].h \in Nat
  <2> DEFINE C == [tr : Nat, h : Nat, seen : [Keys -> BallOrNone], dirty : SUBSET Keys]
  <2>1. choices \in Seq(C)
    BY DEF TypeOK
  <2>2. \A i \in 1..Len(choices) : choices[i] \in C
    <3> HIDE DEF C
    <3> QED BY <2>1, ElementOfSeq
  <2> QED BY <2>2
<1>4. \A k \in Keys : loc[k] \in Nat
  BY DEF TypeOK
<1> QED BY <1>1, <1>2, <1>3, <1>4

(* Trailing the location of the key about to be written: backtracking gives  *)
(* what it would have given before.                                          *)
LEMMA SameAfterTrailing ==
  ASSUME TypeOK, NEW q \in Keys,
         trail' = Append(trail, [key |-> q, old |-> loc[q]]),
         \A k \in Keys \ {q} : loc'[k] = loc[k]
  PROVE  \A k \in Keys, a \in 0..Len(trail) :
           Unwound(k, a, Len(trail))' = Unwound(k, a, Len(trail))
<1> SUFFICES ASSUME NEW k \in Keys, NEW a \in 0..Len(trail)
             PROVE  Unwound(k, a, Len(trail))' = Unwound(k, a, Len(trail))
  OBVIOUS
<1> DEFINE n == Len(trail)
           u == Unwound(k, a, n)
<1>1. /\ n \in Nat /\ a \in Nat /\ Len(trail') = n + 1
      /\ trail'[n + 1] = [key |-> q, old |-> loc[q]]
      /\ \A i \in 1..n : trail'[i] = trail[i]
  BY DEF TypeOK
<1>2. IsUnwound(k, a, n) /\ IsUnwound(k, a, Len(trail))'
  <2>1. Len(trail') \in Nat
    BY <1>1
  <2> QED BY <1>1, <2>1, UnwoundCases, UnwoundCasesNext
<1>3. EntriesOf(k, a, Len(trail))' = EntriesOf(k, a, n) \cup (IF k = q THEN {n + 1} ELSE {})
  BY <1>1 DEF EntriesOf
<1>4. EntriesOf(k, a, n) \subseteq 1..n
  BY <1>1 DEF EntriesOf
<1>5. CASE EntriesOf(k, a, n) = {}
  <2>1. Unwound(k, a, n) = loc[k]
    BY <1>5 DEF Unwound
  <2>2. CASE k = q
    <3>2. \A i \in Nat : OldestEntry(k, a, Len(trail), i)' => i = n + 1
      BY <1>1, <1>3, <1>5, <2>2 DEF OldestEntry
    <3>3. EntriesOf(k, a, Len(trail))' # {}
      BY <1>3, <2>2
    <3>4. PICK i \in Nat : OldestEntry(k, a, Len(trail), i)'
                           /\ Unwound(k, a, Len(trail))' = trail'[i].old
      BY <1>2, <3>3 DEF IsUnwound
    <3>5. i = n + 1
      BY <3>2, <3>4
    <3> QED BY <1>1, <2>1, <2>2, <3>4, <3>5
  <2>3. CASE k # q
    <3>1. EntriesOf(k, a, Len(trail))' = {}
      BY <1>3, <1>5, <2>3
    <3> QED BY <2>1, <2>3, <3>1 DEF Unwound
  <2> QED BY <2>2, <2>3
<1>6. CASE EntriesOf(k, a, n) # {}
  <2>1. PICK i \in Nat : OldestEntry(k, a, n, i) /\ Unwound(k, a, n) = trail[i].old
    BY <1>2, <1>6 DEF IsUnwound
  <2>2. i \in 1..n /\ OldestEntry(k, a, Len(trail), i)'
    BY <1>1, <1>3, <1>4, <2>1 DEF OldestEntry
  <2>3. PICK j \in Nat : OldestEntry(k, a, Len(trail), j)' /\ Unwound(k, a, Len(trail))' = trail'[j].old
    BY <1>2, <2>2 DEF IsUnwound, OldestEntry
  <2>4. i = j
    BY <2>2, <2>3 DEF OldestEntry
  <2> QED BY <1>1, <2>1, <2>2, <2>3, <2>4
<1> QED BY <1>5, <1>6

(* Unwinding to t and later to a is unwinding to a at once. *)
LEMMA SameAfterUnwinding ==
  ASSUME TypeOK, NEW t \in 0..Len(trail),
         trail' = SubSeq(trail, 1, t),
         \A k \in Keys : loc'[k] = Unwound(k, t, Len(trail))
  PROVE  \A k \in Keys, a \in 0..t :
           Unwound(k, a, Len(trail))' = Unwound(k, a, Len(trail))
<1> SUFFICES ASSUME NEW k \in Keys, NEW a \in 0..t
             PROVE  Unwound(k, a, Len(trail))' = Unwound(k, a, Len(trail))
  OBVIOUS
<1> DEFINE n == Len(trail)
<1>1. /\ n \in Nat /\ a \in Nat /\ t \in Nat /\ t <= n /\ a <= t /\ Len(trail') = t
      /\ \A i \in 1..t : trail'[i] = trail[i]
  <2> DEFINE R == [key : Keys, old : Nat]
  <2>1. trail \in Seq(R)
    BY DEF TypeOK
  <2> HIDE DEF R
  <2>2. n \in Nat
    BY <2>1
  <2>3. Len(trail') = t /\ \A i \in 1..t : trail'[i] = trail[i]
    BY <2>1, <2>2, Prefix
  <2> QED BY <2>2, <2>3
<1>2. IsUnwound(k, a, n) /\ IsUnwound(k, t, n) /\ IsUnwound(k, a, Len(trail))'
  BY <1>1, UnwoundCases, UnwoundCasesNext
<1>3. /\ EntriesOf(k, a, Len(trail))' = EntriesOf(k, a, t)
      /\ EntriesOf(k, a, n) = EntriesOf(k, a, t) \cup EntriesOf(k, t, n)
      /\ EntriesOf(k, a, t) \subseteq a + 1..t /\ EntriesOf(k, t, n) \subseteq t + 1..n
  BY <1>1 DEF EntriesOf
<1>4. CASE EntriesOf(k, a, t) = {}
  <2>1. Unwound(k, a, Len(trail))' = Unwound(k, t, n)
    BY <1>3, <1>4 DEF Unwound
  <2>2. EntriesOf(k, a, n) = EntriesOf(k, t, n)
    BY <1>3, <1>4
  <2> QED BY <2>1, <2>2 DEF Unwound
<1>5. CASE EntriesOf(k, a, t) # {}
  <2>1. PICK j \in Nat : OldestEntry(k, a, Len(trail), j)' /\ Unwound(k, a, Len(trail))' = trail'[j].old
    BY <1>2, <1>3, <1>5 DEF IsUnwound
  <2>2. j \in 1..t /\ OldestEntry(k, a, n, j)
    BY <1>1, <1>3, <2>1 DEF OldestEntry
  <2>3. PICK i \in Nat : OldestEntry(k, a, n, i) /\ Unwound(k, a, n) = trail[i].old
    BY <1>2, <2>2 DEF IsUnwound, OldestEntry
  <2>4. i = j
    BY <2>2, <2>3 DEF OldestEntry
  <2> QED BY <1>1, <2>1, <2>2, <2>3, <2>4
<1> QED BY <1>4, <1>5

-----------------------------------------------------------------------------
(* What backtracking to a choice point would leave in a key is a location,   *)
(* and no location is in the way of the heap cut down to it.                  *)
LEMMA UnwoundLocation ==
  ASSUME TypeOK
  PROVE  \A k \in Keys, a \in 0..Len(trail) : Unwound(k, a, Len(trail)) \in Nat
<1> SUFFICES ASSUME NEW k \in Keys, NEW a \in 0..Len(trail)
             PROVE  Unwound(k, a, Len(trail)) \in Nat
  OBVIOUS
<1>1. Len(trail) \in Nat /\ a \in Nat
  BY TrailFacts
<1>2. IsUnwound(k, a, Len(trail))
  BY <1>1, UnwoundCases
<1>3. EntriesOf(k, a, Len(trail)) \subseteq 1..Len(trail)
  BY <1>1 DEF EntriesOf
<1>4. loc[k] \in Nat /\ \A i \in 1..Len(trail) : trail[i].old \in Nat
  BY TrailFacts
<1> QED BY <1>2, <1>3, <1>4 DEF IsUnwound, OldestEntry

(* A choice point vouches for key k: backtracking to it gives k a location   *)
(* inside the heap it keeps, and the value it saw.                            *)
Safe(i, k) == Unwound(k, choices[i].tr, Len(trail)) <= choices[i].h
Vouched(i, k) ==
  LET l == Unwound(k, choices[i].tr, Len(trail))
  IN  (IF l # None THEN heap[l] ELSE ball[k]) = choices[i].seen[k]

(* The two invariants, choice point by choice point. *)
AtEachKey ==
  /\ NoDanglingLocation <=> (/\ \A k \in Keys : loc[k] <= Len(heap)
                             /\ \A i \in 1..Len(choices), k \in Keys : Safe(i, k))
  /\ BacktrackRestores <=>
       (\A i \in 1..Len(choices) : \A k \in Keys \ choices[i].dirty : Vouched(i, k))

(* The two readings agree. *)
LEMMA PointwiseHolds == TypeOK => AtEachKey
<1> SUFFICES ASSUME TypeOK PROVE AtEachKey
  OBVIOUS
<1>1. DOMAIN choices = 1..Len(choices)
  BY DEF TypeOK
<1> QED BY <1>1 DEF AtEachKey, NoDanglingLocation, BacktrackRestores, Safe, Vouched

(* The same of the state after a step. *)
LEMMA PointwiseNext == TypeOK' => AtEachKey'
  BY PointwiseHolds, PTL

(* A step after which backtracking to choice point i gives key k what it     *)
(* would have given before, out of a heap that is the same up to there.       *)
LEMMA StillSafe ==
  ASSUME TypeOK, Ordered, NEW i \in 1..Len(choices), NEW k \in Keys,
         choices'[i].tr = choices[i].tr, choices'[i].h = choices[i].h,
         choices'[i].seen = choices[i].seen, ball'[k] = ball[k],
         Unwound(k, choices[i].tr, Len(trail))' = Unwound(k, choices[i].tr, Len(trail)),
         \A l \in 1..choices[i].h : heap'[l] = heap[l],
         Safe(i, k)
  PROVE  Safe(i, k)' /\ (Vouched(i, k) => Vouched(i, k)')
<1> DEFINE l == Unwound(k, choices[i].tr, Len(trail))
<1>1. choices[i].tr \in 0..Len(trail) /\ choices[i].h \in Nat
  BY TrailFacts DEF Ordered
<1>2. l \in Nat
  BY <1>1, UnwoundLocation
<1>3. Safe(i, k)'
  BY DEF Safe
<1>4. l # None => heap'[l] = heap[l]
  <2>1. l <= choices[i].h
    BY DEF Safe
  <2> HIDE DEF l
  <2> QED BY <1>1, <1>2, <2>1 DEF None
<1> QED BY <1>3, <1>4 DEF Vouched

-----------------------------------------------------------------------------
TrailEntries == [key : Keys, old : Nat]
ChoicePoints == [tr : Nat, h : Nat, seen : [Keys -> BallOrNone], dirty : SUBSET Keys]

(* What TypeOK says, variable by variable. *)
LEMMA TypeParts ==
  TypeOK <=> /\ heap \in Seq(Values) /\ Len(heap) <= MaxHeap
             /\ trail \in Seq(TrailEntries) /\ Len(trail) <= MaxTrail
             /\ choices \in Seq(ChoicePoints) /\ Len(choices) <= MaxChoices
             /\ known \subseteq Keys
             /\ ball \in [Keys -> BallOrNone] /\ loc \in [Keys -> Nat]
             /\ put \in [Keys -> BallOrNone]
  BY DEF TypeOK, TrailEntries, ChoicePoints

(* A write that is trailed: bb_b_put, and bb_get when it caches a copy. *)
Trailing(q, v) ==
  /\ heap' = Append(heap, v)
  /\ trail' = Append(trail, [key |-> q, old |-> loc[q]])
  /\ loc' = [loc EXCEPT ![q] = Len(heap) + 1]
  /\ known' = known \cup {q}
  /\ choices' = choices /\ ball' = ball

(* bb_b_put trails the value it replaces. *)
LEMMA BbBPutTrails ==
  ASSUME NEW q, NEW v, BbBPut(q, v)
  PROVE  Trailing(q, v)
<1>1. trail' = Append(trail, [key |-> q, old |-> loc[q]])
  <2>1. CASE loc[q] # None
    BY <2>1 DEF BbBPut, TrailOld, Offset
  <2>2. CASE loc[q] = None
    BY <2>2 DEF BbBPut, TrailOld, Entry
  <2> QED BY <2>1, <2>2
<1> QED BY <1>1 DEF BbBPut, Insert, Trailing

(* bb_get of a value kept in a ball copies it to the heap, and trails the ball. *)
LEMMA BbGetTrails ==
  ASSUME NEW q, BbGetBall(q)
  PROVE  Trailing(q, ball[q])
  BY DEF BbGetBall, Fetchable, Entry, Trailing

(* What a choice point keeps. *)
LEMMA ChoiceFacts ==
  ASSUME choices \in Seq(ChoicePoints)
  PROVE  \A i \in 1..Len(choices) :
           /\ choices[i] \in ChoicePoints
           /\ choices[i].tr \in Nat /\ choices[i].h \in Nat
           /\ choices[i].seen \in [Keys -> BallOrNone] /\ choices[i].dirty \subseteq Keys
<1>1. \A i \in 1..Len(choices) : choices[i] \in ChoicePoints
  BY ElementOfSeq
<1> QED BY <1>1 DEF ChoicePoints

(* What bb_get finds is a value or nothing. *)
LEMMA SeenType ==
  ASSUME TypeOK, NoDanglingLocation, NEW k \in Keys
  PROVE  Seen(k) \in BallOrNone
<1>1. CASE loc[k] = None
  BY <1>1 DEF TypeOK, Seen
<1>2. CASE loc[k] # None
  <2>1. loc[k] \in 1..Len(heap)
    BY <1>2, TypeParts DEF NoDanglingLocation, None
  <2>2. heap[loc[k]] \in Values
    BY <2>1, ElementOfSeq, TypeParts
  <2> QED BY <1>2, <2>2 DEF Seen, BallOrNone
<1> QED BY <1>1, <1>2

(* Every step keeps the types. *)
LEMMA TypeStep == Inv /\ [Next]_vars => TypeOK'
<1> SUFFICES ASSUME Inv, [Next]_vars PROVE TypeOK'
  OBVIOUS
<1> USE BlackboardAssumption
<1>0. /\ heap \in Seq(Values) /\ Len(heap) <= MaxHeap
      /\ trail \in Seq(TrailEntries) /\ Len(trail) <= MaxTrail
      /\ choices \in Seq(ChoicePoints) /\ Len(choices) <= MaxChoices
      /\ known \subseteq Keys
      /\ ball \in [Keys -> BallOrNone] /\ loc \in [Keys -> Nat]
      /\ put \in [Keys -> BallOrNone]
  BY TypeParts DEF Inv
<1>1. SUFFICES /\ heap' \in Seq(Values) /\ Len(heap') <= MaxHeap
               /\ trail' \in Seq(TrailEntries) /\ Len(trail') <= MaxTrail
               /\ choices' \in Seq(ChoicePoints) /\ Len(choices') <= MaxChoices
               /\ known' \subseteq Keys
               /\ ball' \in [Keys -> BallOrNone] /\ loc' \in [Keys -> Nat]
               /\ put' \in [Keys -> BallOrNone]
  BY DEF TypeOK, TrailEntries, ChoicePoints
<1>2. ASSUME NEW k \in Keys, NEW v \in Values, BbPut(k, v) PROVE <1>1!1
  <2>1. /\ choices' \in [1..Len(choices) -> ChoicePoints]
    <3>1. DOMAIN choices = 1..Len(choices)
      BY <1>0
    <3>2. \A i \in DOMAIN choices : [choices[i] EXCEPT !.dirty = @ \cup {k}] \in ChoicePoints
      <4> SUFFICES ASSUME NEW i \in DOMAIN choices
                   PROVE  [choices[i] EXCEPT !.dirty = @ \cup {k}] \in ChoicePoints
        OBVIOUS
      <4>1. choices[i] \in ChoicePoints
        BY <1>0, <3>1, ChoiceFacts
      <4> QED BY <4>1 DEF ChoicePoints
    <3> QED BY <1>2, <3>1, <3>2 DEF BbPut, Dirty
  <2>2. choices' \in Seq(ChoicePoints) /\ Len(choices') = Len(choices)
    <3>1. Len(choices) \in Nat
      BY <1>0
    <3> QED BY <2>1, <3>1
  <2> QED BY <1>0, <1>2, <2>2 DEF BbPut, BallOrNone, None
<1>3. ASSUME NEW k \in Keys, NEW v \in Values, Trailing(k, v),
             Len(heap) < MaxHeap, Len(trail) < MaxTrail, put' \in [Keys -> BallOrNone]
      PROVE  <1>1!1
  <2>1. loc[k] \in Nat /\ Len(heap) + 1 \in Nat
    BY <1>0
  <2>2. [key |-> k, old |-> loc[k]] \in TrailEntries
    BY <2>1 DEF TrailEntries
  <2>3. heap' \in Seq(Values) /\ Len(heap') = Len(heap) + 1
    BY <1>0, <1>3 DEF Trailing
  <2>4. trail' \in Seq(TrailEntries) /\ Len(trail') = Len(trail) + 1
    BY <1>0, <1>3, <2>2, AppendProperties DEF Trailing
  <2>5. Len(heap') <= MaxHeap /\ Len(trail') <= MaxTrail
    BY <1>0, <1>3, <2>3, <2>4
  <2> QED BY <1>0, <1>3, <2>1, <2>3, <2>4, <2>5 DEF Trailing
<1>4. ASSUME NEW k \in Keys, NEW v \in Values, BbBPut(k, v) PROVE <1>1!1
  <2>1. put' \in [Keys -> BallOrNone] /\ Len(heap) < MaxHeap /\ Len(trail) < MaxTrail
    BY <1>0, <1>4 DEF BbBPut, BallOrNone
  <2> QED BY <1>3, <1>4, <2>1, BbBPutTrails
<1>5. ASSUME NEW k \in Keys, BbGetBall(k) PROVE <1>1!1
  <2>1. put' \in [Keys -> BallOrNone] /\ Len(heap) < MaxHeap /\ Len(trail) < MaxTrail
    BY <1>0, <1>5 DEF BbGetBall
  <2>2. ball[k] \in Values
    BY <1>0, <1>5 DEF BbGetBall, Fetchable, BallOrNone
  <2> QED BY <1>3, <1>5, <2>1, <2>2, BbGetTrails
<1>6. CASE TryMeElse
  <2> DEFINE c == [tr |-> Len(trail), h |-> Len(heap),
                   seen |-> [k \in Keys |-> Seen(k)], dirty |-> {}]
  <2>1. [k \in Keys |-> Seen(k)] \in [Keys -> BallOrNone]
    BY SeenType DEF Inv
  <2>2. Len(trail) \in Nat /\ Len(heap) \in Nat
    BY <1>0
  <2>3. c \in ChoicePoints
    BY <2>1, <2>2 DEF ChoicePoints
  <2>4. choices' = Append(choices, c)
    BY <1>6 DEF TryMeElse
  <2> HIDE DEF c
  <2>5. choices' \in Seq(ChoicePoints) /\ Len(choices') = Len(choices) + 1
    BY <1>0, <2>3, <2>4, AppendProperties
  <2> QED BY <1>0, <1>6, <2>5 DEF TryMeElse
<1>7. ASSUME NEW n \in 0..MaxChoices, Cut(n) PROVE <1>1!1
  <2>1. choices' \in Seq(ChoicePoints) /\ Len(choices') <= Len(choices)
    <3>1. n \in 0..Len(choices) /\ choices' = SubSeq(choices, 1, n)
      BY <1>0, <1>7 DEF Cut
    <3> QED BY <1>0, <3>1, Prefix
  <2> QED BY <1>0, <1>7, <2>1 DEF Cut
<1>8. ASSUME NEW last \in BOOLEAN, Backtrack(last) PROVE <1>1!1
  <2> DEFINE c == choices[Len(choices)]
  <2>1. Len(choices) \in 1..Len(choices) /\ Len(choices) - 1 \in 0..Len(choices)
    BY <1>0, <1>8, EmptySeq DEF Backtrack
  <2>2. c.tr \in 0..Len(trail) /\ c.h \in 0..Len(heap)
    BY <1>0, <2>1, ChoiceFacts DEF Inv, Ordered
  <2>3. loc' \in [Keys -> Nat]
    BY <1>8, <2>2, UnwoundLocation DEF Backtrack, Inv
  <2>4. trail' = SubSeq(trail, 1, c.tr) /\ heap' = SubSeq(heap, 1, c.h)
    BY <1>8 DEF Backtrack
  <2>5. choices' = SubSeq(choices, 1, Len(choices) - 1) \/ choices' = choices
    BY <1>8 DEF Backtrack
  <2> HIDE DEF c
  <2>6. trail' \in Seq(TrailEntries) /\ Len(trail') <= Len(trail)
    BY <1>0, <2>2, <2>4, Prefix
  <2>7. heap' \in Seq(Values) /\ Len(heap') <= Len(heap)
    BY <1>0, <2>2, <2>4, Prefix
  <2>8. choices' \in Seq(ChoicePoints) /\ Len(choices') <= Len(choices)
    BY <1>0, <2>1, <2>5, Prefix
  <2>9. UNCHANGED <<known, ball, put>>
    BY <1>8 DEF Backtrack
  <2> QED BY <1>0, <2>3, <2>6, <2>7, <2>8, <2>9
<1>9. CASE UNCHANGED vars
  BY <1>0, <1>9 DEF vars
<1> QED BY <1>2, <1>4, <1>5, <1>6, <1>7, <1>8, <1>9 DEF Next

-----------------------------------------------------------------------------
(* The invariant of the proof but its type part. *)
Rest == Ordered /\ NoDanglingLocation /\ TrailedKeysKnown /\ BacktrackRestores

(* What a write that is trailed preserves. *)
LEMMA TrailingStep ==
  ASSUME Inv, TypeOK', NEW q \in Keys, NEW v, Trailing(q, v)
  PROVE  Rest'
<1> DEFINE n == Len(trail)
<1>1. /\ TypeOK /\ Ordered /\ \A k \in Keys : loc[k] <= Len(heap)
      /\ \A i \in 1..Len(choices), k \in Keys : Safe(i, k)
      /\ \A i \in 1..Len(choices) : \A k \in Keys \ choices[i].dirty : Vouched(i, k)
  BY PointwiseHolds DEF Inv, AtEachKey
<1>2. /\ n \in Nat /\ Len(heap) \in Nat /\ Len(heap') = Len(heap) + 1 /\ Len(trail') = n + 1
      /\ \A l \in 1..Len(heap) : heap'[l] = heap[l]
      /\ \A j \in 1..n : trail'[j] = trail[j]
      /\ trail'[n + 1] = [key |-> q, old |-> loc[q]]
      /\ DOMAIN trail = 1..n /\ DOMAIN trail' = 1..n + 1
  BY <1>1 DEF TypeOK, Trailing
<1>3. \A i \in 1..Len(choices) : choices[i].tr \in 0..n /\ choices[i].h \in 0..Len(heap)
  BY <1>1, TrailFacts DEF Ordered
<1>4. choices' = choices /\ ball' = ball
  BY DEF Trailing
<1>5. Ordered'
  BY <1>1, <1>2, <1>3, <1>4 DEF Ordered
<1>6. TrailedKeysKnown'
  BY <1>2 DEF Inv, TrailedKeysKnown, Trailing
<1>7. \A k \in Keys, a \in 0..n : Unwound(k, a, Len(trail))' = Unwound(k, a, n)
  <2>1. \A k \in Keys \ {q} : loc'[k] = loc[k]
    BY <1>1 DEF Trailing, TypeOK
  <2> QED BY <1>1, <2>1, SameAfterTrailing DEF Trailing
<1>8. ASSUME NEW i \in 1..Len(choices), NEW k \in Keys
      PROVE  Safe(i, k)' /\ (Vouched(i, k) => Vouched(i, k)')
  <2>1. Unwound(k, choices[i].tr, Len(trail))' = Unwound(k, choices[i].tr, Len(trail))
    BY <1>3, <1>4, <1>7
  <2>2. \A l \in 1..choices[i].h : heap'[l] = heap[l]
    BY <1>2, <1>3
  <2> QED BY <1>1, <1>4, <2>1, <2>2, StillSafe
<1>9. \A k \in Keys : loc'[k] <= Len(heap')
  BY <1>1, <1>2 DEF Trailing, TypeOK
<1> QED
  BY <1>1, <1>4, <1>5, <1>6, <1>8, <1>9, PointwiseNext DEF Rest, AtEachKey

(* What bb_put preserves: it trails nothing, but its key is dirty now. *)
LEMMA PutStep ==
  ASSUME Inv, TypeOK', NEW q \in Keys, NEW v \in Values, BbPut(q, v)
  PROVE  Rest'
<1>1. /\ TypeOK /\ Ordered /\ \A k \in Keys : loc[k] <= Len(heap)
      /\ \A i \in 1..Len(choices), k \in Keys : Safe(i, k)
      /\ \A i \in 1..Len(choices) : \A k \in Keys \ choices[i].dirty : Vouched(i, k)
  BY PointwiseHolds DEF Inv, AtEachKey
<1>2. /\ Len(trail) \in Nat /\ Len(heap) \in Nat /\ Len(choices) \in Nat
      /\ DOMAIN choices = 1..Len(choices)
      /\ choices' = [i \in 1..Len(choices) |-> [choices[i] EXCEPT !.dirty = @ \cup {q}]]
      /\ heap' = heap /\ trail' = trail
      /\ loc' = [loc EXCEPT ![q] = None] /\ ball' = [ball EXCEPT ![q] = v]
  BY <1>1, TrailFacts DEF BbPut, Dirty
<1>3. Len(choices') = Len(choices)
  <2>1. DOMAIN choices' = 1..Len(choices')
    BY DEF TypeOK
  <2>2. Len(choices') \in Nat
    BY DEF TypeOK
  <2> QED BY <1>2, <2>1, <2>2
<1>4. \A i \in 1..Len(choices) :
        /\ choices[i] \in ChoicePoints /\ choices[i].tr \in 0..Len(trail) /\ choices[i].h \in Nat
        /\ choices'[i].tr = choices[i].tr /\ choices'[i].h = choices[i].h
        /\ choices'[i].seen = choices[i].seen
        /\ choices'[i].dirty = choices[i].dirty \cup {q}
  <2>1. \A i \in 1..Len(choices) :
          choices[i] \in ChoicePoints /\ choices[i].tr \in Nat /\ choices[i].h \in Nat
    BY <1>1, TypeParts, ChoiceFacts
  <2> QED BY <1>1, <1>2, <2>1 DEF Ordered, ChoicePoints
<1>5. Ordered'
  <2>1. heap' = heap /\ trail' = trail
    BY <1>2
  <2>2. \A i \in 1..Len(choices) : choices'[i].tr = choices[i].tr /\ choices'[i].h = choices[i].h
    BY <1>4
  <2> QED BY <1>1, <1>3, <2>1, <2>2 DEF Ordered
<1>6. TrailedKeysKnown'
  BY <1>2 DEF Inv, TrailedKeysKnown, BbPut
<1>7. \A k \in Keys, a \in 0..Len(trail) :
        \/ k = q /\ Unwound(k, a, Len(trail))' = 0
        \/ Unwound(k, a, Len(trail))' = Unwound(k, a, Len(trail))
           /\ (k # q => ball'[k] = ball[k])
  <2> SUFFICES ASSUME NEW k \in Keys, NEW a \in 0..Len(trail)
               PROVE  \/ k = q /\ Unwound(k, a, Len(trail))' = 0
                      \/ Unwound(k, a, Len(trail))' = Unwound(k, a, Len(trail))
                         /\ (k # q => ball'[k] = ball[k])
    OBVIOUS
  <2>1. EntriesOf(k, a, Len(trail))' = EntriesOf(k, a, Len(trail))
    BY <1>2 DEF EntriesOf
  <2>2. CASE k = q /\ EntriesOf(k, a, Len(trail)) = {}
    BY <1>1, <1>2, <2>1, <2>2 DEF Unwound, None, TypeOK
  <2>3. CASE k # q
    <3>1. loc'[k] = loc[k] /\ ball'[k] = ball[k]
      BY <1>1, <1>2, <2>3 DEF TypeOK
    <3> QED BY <1>2, <2>1, <3>1 DEF Unwound
  <2>4. CASE EntriesOf(k, a, Len(trail)) # {} /\ k = q
    BY <1>2, <2>1, <2>4 DEF Unwound
  <2> QED BY <2>2, <2>3, <2>4
<1>8. ASSUME NEW i \in 1..Len(choices), NEW k \in Keys
      PROVE  Safe(i, k)' /\ (k \notin choices'[i].dirty /\ Vouched(i, k) => Vouched(i, k)')
  <2>1. choices'[i].tr = choices[i].tr /\ choices'[i].h = choices[i].h
        /\ choices'[i].seen = choices[i].seen /\ choices[i].tr \in 0..Len(trail)
    BY <1>4
  <2>2. CASE k = q /\ Unwound(k, choices[i].tr, Len(trail))' = 0
    BY <1>4, <2>1, <2>2 DEF Safe
  <2>3. CASE Unwound(k, choices[i].tr, Len(trail))' = Unwound(k, choices[i].tr, Len(trail))
             /\ (k # q => ball'[k] = ball[k])
    <3>1. CASE k # q
      <4>1. \A l \in 1..choices[i].h : heap'[l] = heap[l]
        BY <1>2
      <4> QED BY <1>1, <2>1, <2>3, <3>1, <4>1, StillSafe
    <3>2. CASE k = q
      <4>1. k \in choices'[i].dirty
        BY <1>4, <3>2
      <4> QED BY <1>1, <2>1, <2>3, <4>1 DEF Safe
    <3> QED BY <3>1, <3>2
  <2> QED BY <1>7, <2>1, <2>2, <2>3
<1>9. \A k \in Keys : loc'[k] <= Len(heap')
  BY <1>1, <1>2 DEF TypeOK, None
<1>10. \A i \in 1..Len(choices) : \A k \in Keys \ choices'[i].dirty : Vouched(i, k)'
  BY <1>1, <1>4, <1>8
<1> QED
  BY <1>3, <1>5, <1>6, <1>8, <1>9, <1>10, PointwiseNext DEF Rest, AtEachKey

(* What a new choice point sees is what backtracking to it gives. *)
LEMMA TryStep ==
  ASSUME Inv, TypeOK', TryMeElse
  PROVE  Rest'
<1> DEFINE m == Len(choices)
           c == [tr |-> Len(trail), h |-> Len(heap),
                 seen |-> [k \in Keys |-> Seen(k)], dirty |-> {}]
<1>1. /\ TypeOK /\ Ordered /\ \A k \in Keys : loc[k] <= Len(heap)
      /\ \A i \in 1..m, k \in Keys : Safe(i, k)
      /\ \A i \in 1..m : \A k \in Keys \ choices[i].dirty : Vouched(i, k)
  BY PointwiseHolds DEF Inv, AtEachKey
<1>2. choices' = Append(choices, c) /\ UNCHANGED <<heap, trail, known, ball, loc, put>>
  BY DEF TryMeElse
<1>3. c.tr = Len(trail) /\ c.h = Len(heap) /\ \A k \in Keys : c.seen[k] = Seen(k)
  OBVIOUS
<1> HIDE DEF c
<1>4. /\ m \in Nat /\ Len(choices') = m + 1 /\ choices'[m + 1] = c
      /\ \A i \in 1..m : choices'[i] = choices[i]
      /\ Len(trail) \in Nat /\ Len(heap) \in Nat
  BY <1>1, <1>2, TypeParts
<1>5. \A i \in 1..m : choices[i].tr \in 0..Len(trail) /\ choices[i].h \in 0..Len(heap)
  BY <1>1, TrailFacts DEF Ordered
<1>6. Ordered'
  <2>1. \A i \in 1..m : choices'[i].tr = choices[i].tr /\ choices'[i].h = choices[i].h
    BY <1>4
  <2>2. choices'[m + 1].tr = Len(trail) /\ choices'[m + 1].h = Len(heap)
    BY <1>3, <1>4
  <2>3. Len(trail') = Len(trail) /\ Len(heap') = Len(heap)
    BY <1>2
  <2> HIDE DEF m
  <2>4. \A i \in 1..m + 1 : choices'[i].tr <= Len(trail) /\ choices'[i].h <= Len(heap)
    BY <1>4, <1>5, <2>1, <2>2
  <2>5. \A i, j \in 1..m : i <= j => /\ choices[i].tr <= choices[j].tr
                                     /\ choices[i].h <= choices[j].h
    BY <1>1 DEF Ordered, m
  <2>6. \A i, j \in 1..m + 1 : i <= j => /\ choices'[i].tr <= choices'[j].tr
                                         /\ choices'[i].h <= choices'[j].h
    <3> SUFFICES ASSUME NEW i \in 1..m + 1, NEW j \in 1..m + 1, i <= j
                 PROVE  choices'[i].tr <= choices'[j].tr /\ choices'[i].h <= choices'[j].h
      OBVIOUS
    <3>1. CASE j = m + 1
      BY <2>2, <2>4, <3>1
    <3>2. CASE j \in 1..m
      <4>1. i \in 1..m
        BY <1>4, <3>2
      <4> QED BY <2>1, <2>5, <3>2, <4>1
    <3> QED BY <1>4, <3>1, <3>2
  <2> QED BY <1>4, <2>3, <2>4, <2>6 DEF Ordered
<1>7. TrailedKeysKnown'
  BY <1>2 DEF Inv, TrailedKeysKnown
<1>8. \A k, a, a2 : Unwound(k, a, a2)' = Unwound(k, a, a2)
  BY <1>2 DEF Unwound, EntriesOf
<1>9. \A i \in 1..m, k \in Keys : Safe(i, k)' /\ (Vouched(i, k) => Vouched(i, k)')
  BY <1>1, <1>2, <1>4, <1>8 DEF Safe, Vouched
<1>10. \A k \in Keys : Unwound(k, Len(trail), Len(trail)) = loc[k]
  <2>1. \A k : EntriesOf(k, Len(trail), Len(trail)) = {}
    BY <1>4 DEF EntriesOf
  <2> QED BY <2>1 DEF Unwound
<1>11. ASSUME NEW i \in Nat, i = m + 1, NEW k \in Keys PROVE Safe(i, k)' /\ Vouched(i, k)'
  <2>1. choices'[i].tr = Len(trail) /\ choices'[i].h = Len(heap) /\ choices'[i].seen[k] = Seen(k)
    BY <1>3, <1>4, <1>11
  <2>2. Unwound(k, choices[i].tr, Len(trail))' = loc[k]
    BY <1>2, <1>8, <1>10, <2>1
  <2>3. Safe(i, k)'
    BY <1>1, <2>1, <2>2 DEF Safe
  <2>4. Vouched(i, k)'
    BY <1>2, <2>1, <2>2 DEF Vouched, Seen
  <2> QED BY <2>3, <2>4
<1>12. \A i \in 1..Len(choices') : (i \in 1..m /\ choices'[i] = choices[i]) \/ (i \in Nat /\ i = m + 1)
  BY <1>4
<1>13. \A i \in 1..Len(choices'), k \in Keys : Safe(i, k)'
  BY <1>9, <1>11, <1>12
<1>14. \A i \in 1..Len(choices') : \A k \in Keys \ choices'[i].dirty : Vouched(i, k)'
  BY <1>1, <1>9, <1>11, <1>12
<1>15. \A k \in Keys : loc'[k] <= Len(heap')
  BY <1>1, <1>2
<1> QED
  BY <1>6, <1>7, <1>13, <1>14, <1>15, PointwiseNext DEF Rest, AtEachKey

(* Fewer choice points, everything else as it was. *)
LEMMA CutStep ==
  ASSUME Inv, TypeOK', NEW n \in 0..MaxChoices, Cut(n)
  PROVE  Rest'
<1>1. /\ TypeOK /\ Ordered /\ \A k \in Keys : loc[k] <= Len(heap)
      /\ \A i \in 1..Len(choices), k \in Keys : Safe(i, k)
      /\ \A i \in 1..Len(choices) : \A k \in Keys \ choices[i].dirty : Vouched(i, k)
  BY PointwiseHolds DEF Inv, AtEachKey
<1>2. UNCHANGED <<heap, trail, known, ball, loc, put>>
  BY DEF Cut
<1>3. n \in 0..Len(choices) /\ choices' = SubSeq(choices, 1, n) /\ choices \in Seq(ChoicePoints)
  BY <1>1, TypeParts DEF Cut
<1>4. /\ n \in Nat /\ Len(choices) \in Nat /\ n <= Len(choices) /\ Len(choices') = n
      /\ \A i \in 1..n : choices'[i] = choices[i]
  BY <1>3, Prefix
<1>5. Ordered'
  BY <1>1, <1>2, <1>4 DEF Ordered
<1>6. TrailedKeysKnown'
  BY <1>2 DEF Inv, TrailedKeysKnown
<1>7. \A k, a, a2 : Unwound(k, a, a2)' = Unwound(k, a, a2)
  BY <1>2 DEF Unwound, EntriesOf
<1>8. \A i \in 1..n, k \in Keys : Safe(i, k)' /\ (Vouched(i, k) => Vouched(i, k)')
  BY <1>1, <1>2, <1>4, <1>7 DEF Safe, Vouched
<1>9. 1..Len(choices') = 1..n /\ \A i \in 1..n : i \in 1..Len(choices)
  BY <1>4
<1>10. \A k \in Keys : loc'[k] <= Len(heap')
  BY <1>1, <1>2
<1>11. \A i \in 1..Len(choices'), k \in Keys : Safe(i, k)'
  BY <1>8, <1>9
<1>12. \A i \in 1..Len(choices') : \A k \in Keys \ choices'[i].dirty : Vouched(i, k)'
  BY <1>1, <1>4, <1>8, <1>9
<1>13. NoDanglingLocation' /\ BacktrackRestores'
  BY <1>10, <1>11, <1>12, PointwiseNext DEF AtEachKey
<1> QED BY <1>5, <1>6, <1>13 DEF Rest

(* Failure: older choice points see no difference, and the one failed to     *)
(* finds what it saw.                                                         *)
LEMMA BacktrackStep ==
  ASSUME Inv, TypeOK', NEW last \in BOOLEAN, Backtrack(last)
  PROVE  Rest'
<1> DEFINE m == Len(choices)
           t == choices[m].tr
           h == choices[m].h
<1>1. /\ TypeOK /\ Ordered /\ \A k \in Keys : loc[k] <= Len(heap)
      /\ \A i \in 1..m, k \in Keys : Safe(i, k)
      /\ \A i \in 1..m : \A k \in Keys \ choices[i].dirty : Vouched(i, k)
  BY PointwiseHolds DEF Inv, AtEachKey
<1>2. /\ loc' = [k \in Keys |-> Unwound(k, t, Len(trail))]
      /\ trail' = SubSeq(trail, 1, t) /\ heap' = SubSeq(heap, 1, h)
      /\ choices' = SubSeq(choices, 1, m - 1) \/ choices' = choices
      /\ ball' = ball /\ known' = known
  BY DEF Backtrack
<1>3. /\ heap \in Seq(Values) /\ trail \in Seq(TrailEntries) /\ choices \in Seq(ChoicePoints)
      /\ m \in Nat /\ m >= 1
  BY <1>1, TypeParts, EmptySeq DEF Backtrack
<1>4. \A i \in 1..m : /\ choices[i].tr \in 0..t /\ choices[i].h \in 0..h
  <2>1. \A i \in 1..m : choices[i].tr \in Nat /\ choices[i].h \in Nat
    BY <1>1, TrailFacts
  <2>2. \A i \in 1..m : i <= m /\ m \in 1..m
    BY <1>3
  <2> QED BY <1>1, <2>1, <2>2 DEF Ordered
<1>5. t \in 0..Len(trail) /\ h \in 0..Len(heap)
  BY <1>1, <1>3, TrailFacts DEF Ordered
<1>6. Len(trail') = t /\ \A i \in 1..t : trail'[i] = trail[i]
  BY <1>2, <1>3, <1>5, Prefix
<1>7. Len(heap') = h /\ \A i \in 1..h : heap'[i] = heap[i]
  BY <1>2, <1>3, <1>5, Prefix
<1>8. PICK n \in {m - 1, m} : Len(choices') = n /\ \A i \in 1..n : choices'[i] = choices[i]
  <2>1. CASE choices' = SubSeq(choices, 1, m - 1)
    <3>1. m - 1 \in 0..Len(choices)
      BY <1>3
    <3> QED BY <1>3, <2>1, <3>1, Prefix
  <2>2. CASE choices' = choices
    BY <2>2
  <2> QED BY <1>2, <2>1, <2>2
<1>9. \A k \in Keys, a \in 0..t : Unwound(k, a, Len(trail))' = Unwound(k, a, Len(trail))
  <2>1. \A k \in Keys : loc'[k] = Unwound(k, t, Len(trail))
    BY <1>2
  <2> HIDE DEF t
  <2> QED BY <1>1, <1>2, <1>5, <2>1, SameAfterUnwinding
<1>10. n \in Nat /\ n <= m
  BY <1>3, <1>8
<1>11. Ordered'
  <2>1. \A i \in 1..n : i \in 1..m /\ choices'[i].tr = choices[i].tr /\ choices'[i].h = choices[i].h
    <3>1. \A i \in 1..n : i \in 1..m
      <4> HIDE DEF m
      <4> QED BY <1>3, <1>10
    <3>2. \A i \in 1..n : choices'[i] = choices[i]
      BY <1>8
    <3> QED BY <3>1, <3>2
  <2>2. \A i, j \in 1..m : i <= j => /\ choices[i].tr <= choices[j].tr
                                     /\ choices[i].h <= choices[j].h
    BY <1>1 DEF Ordered
  <2>3. \A i \in 1..m : choices[i].tr <= t /\ choices[i].h <= h
    BY <1>4
  <2>4. Len(choices') = n /\ Len(trail') = t /\ Len(heap') = h
    BY <1>6, <1>7, <1>8
  <2>5. Ordered' <=> /\ \A i \in 1..n : choices'[i].tr <= t /\ choices'[i].h <= h
                     /\ \A i, j \in 1..n : i <= j => /\ choices'[i].tr <= choices'[j].tr
                                                     /\ choices'[i].h <= choices'[j].h
    BY <2>4 DEF Ordered
  <2> HIDE DEF t, h, m
  <2> QED BY <2>1, <2>2, <2>3, <2>5
<1>12. TrailedKeysKnown'
  <2>1. DOMAIN trail' = 1..t /\ DOMAIN trail = 1..Len(trail) /\ t <= Len(trail) /\ t \in Nat
        /\ Len(trail) \in Nat
    <3>1. DOMAIN trail' = 1..Len(trail')
      BY DEF TypeOK
    <3>2. Len(trail) \in Nat /\ DOMAIN trail = 1..Len(trail)
      BY <1>1, TrailFacts
    <3>3. Len(trail') = t /\ t \in 0..Len(trail)
      BY <1>5, <1>6
    <3> HIDE DEF t
    <3> QED BY <3>1, <3>2, <3>3
  <2> HIDE DEF t
  <2> QED BY <1>2, <1>6, <2>1 DEF Inv, TrailedKeysKnown
<1>13. ASSUME NEW i \in 1..n, NEW k \in Keys
       PROVE  Safe(i, k)' /\ (Vouched(i, k) => Vouched(i, k)')
  <2>1. i \in 1..m /\ choices'[i] = choices[i]
    BY <1>3, <1>8, <1>10
  <2>2. Unwound(k, choices[i].tr, Len(trail))' = Unwound(k, choices[i].tr, Len(trail))
    BY <1>4, <1>9, <2>1
  <2>3. \A l \in 1..choices[i].h : heap'[l] = heap[l]
    BY <1>4, <1>5, <1>7, <2>1
  <2> QED BY <1>1, <1>2, <2>1, <2>2, <2>3, StillSafe
<1>14. \A k \in Keys : loc'[k] <= Len(heap')
  <2>1. \A k \in Keys : Unwound(k, t, Len(trail)) <= h
    BY <1>1, <1>3 DEF Safe
  <2> QED BY <1>2, <1>7, <2>1
<1>15. \A i \in 1..n : i \in 1..m /\ choices'[i].dirty = choices[i].dirty
  BY <1>3, <1>8, <1>10
<1> QED
  BY <1>1, <1>8, <1>11, <1>12, <1>13, <1>14, <1>15, PointwiseNext DEF Rest, AtEachKey

-----------------------------------------------------------------------------
(* Every step of a global variable or of a choice point keeps the invariant. *)
LEMMA InvStep == Inv /\ [Next]_vars => Inv'
<1> SUFFICES ASSUME Inv, [Next]_vars PROVE Inv'
  OBVIOUS
<1>1. TypeOK'
  BY TypeStep
<1>2. Rest'
  <2>1. ASSUME NEW k \in Keys, NEW v \in Values, BbPut(k, v) PROVE Rest'
    BY <1>1, <2>1, PutStep
  <2>2. ASSUME NEW k \in Keys, NEW v \in Values, BbBPut(k, v) PROVE Rest'
    BY <1>1, <2>2, BbBPutTrails, TrailingStep
  <2>3. ASSUME NEW k \in Keys, BbGetBall(k) PROVE Rest'
    <3>1. Trailing(k, ball[k])
      BY <2>3, BbGetTrails
    <3>2. \A v : Trailing(k, v) => Rest'
      BY <1>1, TrailingStep
    <3>3. known' = known \cup {k}
      BY <3>1 DEF Trailing
    <3> QED BY <3>1, <3>2
  <2>4. CASE TryMeElse
    BY <1>1, <2>4, TryStep
  <2>5. ASSUME NEW n \in 0..MaxChoices, Cut(n) PROVE Rest'
    BY <1>1, <2>5, CutStep
  <2>6. ASSUME NEW last \in BOOLEAN, Backtrack(last) PROVE Rest'
    BY <1>1, <2>6, BacktrackStep
  <2>7. CASE UNCHANGED vars
    <3>1. UNCHANGED <<heap, trail, choices, known, ball, loc>>
      BY <2>7 DEF vars
    <3>2. \A k, a, a2 : Unwound(k, a, a2)' = Unwound(k, a, a2)
      BY <3>1 DEF Unwound, EntriesOf
    <3>3. NoDanglingLocation'
      BY <3>1, <3>2 DEF Inv, NoDanglingLocation
    <3>4. BacktrackRestores'
      BY <3>1, <3>2 DEF Inv, BacktrackRestores
    <3>5. Ordered' /\ TrailedKeysKnown'
      BY <3>1 DEF Inv, Ordered, TrailedKeysKnown
    <3> QED BY <3>3, <3>4, <3>5 DEF Rest
  <2> QED BY <2>1, <2>2, <2>3, <2>4, <2>5, <2>6, <2>7 DEF Next
<1> QED BY <1>1, <1>2 DEF Inv, Rest

(* No choice point, no trail and no global variable: nothing to restore. *)
LEMMA InitInv == Init => Inv
<1> SUFFICES ASSUME Init PROVE Inv
  OBVIOUS
<1> USE BlackboardAssumption
<1>1. heap = <<>> /\ trail = <<>> /\ choices = <<>> /\ Len(heap) = 0 /\ Len(trail) = 0 /\ Len(choices) = 0
  BY DEF Init
<1>2. DOMAIN trail = {} /\ DOMAIN choices = {} /\ 1..Len(choices) = {}
  BY <1>1
<1>3. TypeOK
  <2>1. heap \in Seq(Values) /\ trail \in Seq(TrailEntries) /\ choices \in Seq(ChoicePoints)
    BY <1>1
  <2>2. ball \in [Keys -> BallOrNone] /\ put \in [Keys -> BallOrNone] /\ loc \in [Keys -> Nat]
    BY DEF Init, BallOrNone, None
  <2> QED BY <1>1, <2>1, <2>2, TypeParts DEF Init
<1>4. Ordered
  BY <1>2 DEF Ordered
<1>5. NoDanglingLocation
  BY <1>1, <1>2 DEF Init, NoDanglingLocation, None
<1>6. TrailedKeysKnown /\ BacktrackRestores
  BY <1>2 DEF TrailedKeysKnown, BacktrackRestores
<1> QED BY <1>3, <1>4, <1>5, <1>6 DEF Inv

(* The inductive invariant holds throughout. *)
LEMMA Invariance == Spec => []Inv
  BY InitInv, InvStep, PTL DEF Spec

(* Every variable keeps its type. *)
THEOREM TypeCorrect == Spec => []TypeOK
<1>1. Inv => TypeOK
  BY DEF Inv
<1> QED BY <1>1, Invariance, PTL

(* No global variable points above the top of the heap, now or after          *)
(* backtracking to any choice point that is left: the heap is cut down only   *)
(* together with unwind_trail, whatever bb_put and cuts came in between.       *)
THEOREM LocationsValid == Spec => []NoDanglingLocation
<1>1. Inv => NoDanglingLocation
  BY DEF Inv
<1> QED BY <1>1, Invariance, PTL

(* The `unreachable` of unwind_trail is: a trailed key is in the map.          *)
THEOREM KeysKnown == Spec => []TrailedKeysKnown
<1>1. Inv => TrailedKeysKnown
  BY DEF Inv
<1> QED BY <1>1, Invariance, PTL

(* Backtracking to any choice point, at any later time, gives every global    *)
(* variable that bb_put has not written since the value it had there.         *)
THEOREM Restores == Spec => []BacktrackRestores
<1>1. Inv => BacktrackRestores
  BY DEF Inv
<1> QED BY <1>1, Invariance, PTL
===============================================================================
