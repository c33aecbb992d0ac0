----------------------------- MODULE Blackboard -----------------------------
(***************************************************************************)
(* Global variables: bb_put/2, bb_b_put/2 and bb_get/2 of library(iso_ext), *)
(* over $store_global_var, $store_backtrackable_global_var and              *)
(* $fetch_global_var, together with the trail and the choice points that    *)
(* undo them.                                                               *)
(*                                                                          *)
(* An entry of indices.global_variables is a ball (the term copied out of   *)
(* the heap by bb_put) and an optional heap location (the term bb_b_put     *)
(* stored, or the copy of the ball that bb_get made).  Backtracking cuts    *)
(* the heap down, so a location must never outlive the term it points to.   *)
(***************************************************************************)
EXTENDS Naturals, Sequences

CONSTANTS
  Keys,        \* the names of global variables
  Values,      \* the terms stored in them
  NoVal,       \* an empty ball
  MaxHeap,     \* bound: heap cells
  MaxTrail,    \* bound: trail entries
  MaxChoices   \* bound: choice points

ASSUME BlackboardAssumption ==
  /\ NoVal \notin Values
  /\ MaxHeap \in Nat /\ MaxTrail \in Nat /\ MaxChoices \in Nat

VARIABLES
  heap,      \* one cell per term built
  trail,     \* entries [key, old], old = None for TrailedBlackboardEntry
  choices,   \* choice points: [tr, h], and what their creator saw (history)
  known,     \* the keys of the global_variables map
  ball,      \* per key: the ball
  loc,       \* per key: the heap location, or None
  put        \* history, per key: the value of the last write if it was bb_put

vars == <<heap, trail, choices, known, ball, loc, put>>

None == 0
BallOrNone == Values \cup {NoVal}

(* What bb_get of key k would find. *)
Seen(k) == IF loc[k] # None THEN heap[loc[k]] ELSE ball[k]

Init ==
  /\ heap = <<>>
  /\ trail = <<>>
  /\ choices = <<>>
  /\ known = {}
  /\ ball = [k \in Keys |-> NoVal]
  /\ loc = [k \in Keys |-> None]
  /\ put = [k \in Keys |-> NoVal]

-----------------------------------------------------------------------------
Entry(k) == [key |-> k, old |-> None]
Offset(k) == [key |-> k, old |-> loc[k]]

(* A key bb_put has written since choice point i is dirty there: the choice  *)
(* point no longer vouches for its value (history only).                     *)
Dirty(k) ==
  choices' = [i \in DOMAIN choices |-> [choices[i] EXCEPT !.dirty = @ \cup {k}]]

(* store_global_var: a new ball, no location, nothing trailed. *)
BbPut(k, v) ==
  /\ known' = known \cup {k}
  /\ ball' = [ball EXCEPT ![k] = v]
  /\ loc' = [loc EXCEPT ![k] = None]
  /\ put' = [put EXCEPT ![k] = v]
  /\ Dirty(k)
  /\ UNCHANGED <<heap, trail>>

(* Mutant: an overwritten location is not remembered. *)
TrailEntryOnly(k) == Append(trail, Entry(k))

(* What store_backtrackable_global_var trails: the location overwritten, or  *)
(* that there was none.                                                      *)
TrailOld(k) == Append(trail, IF loc[k] # None THEN Offset(k) ELSE Entry(k))

(* Mutant: bb_b_put of a new key does not enter it in the map. *)
InsertNothing(k) == known

(* global_variables.insert *)
Insert(k) == known \cup {k}

(* bb_b_put of a term just built on the heap. *)
BbBPut(k, v) ==
  /\ Len(heap) < MaxHeap /\ Len(trail) < MaxTrail
  /\ heap' = Append(heap, v)
  /\ trail' = TrailOld(k)
  /\ known' = Insert(k)
  /\ loc' = [loc EXCEPT ![k] = Len(heap) + 1]
  /\ put' = [put EXCEPT ![k] = NoVal]
  /\ UNCHANGED <<choices, ball>>

(* fetch_global_var finds a ball to copy; otherwise it fails or just reads   *)
(* the location.                                                             *)
Fetchable(k) == k \in known /\ loc[k] = None /\ ball[k] # NoVal

(* fetch_global_var of a ball: copied to the heap, and the copy remembered. *)
BbGetBall(k) ==
  /\ Fetchable(k)
  /\ Len(heap) < MaxHeap /\ Len(trail) < MaxTrail
  /\ heap' = Append(heap, ball[k])
  /\ loc' = [loc EXCEPT ![k] = Len(heap) + 1]
  /\ trail' = Append(trail, Entry(k))
  /\ UNCHANGED <<choices, known, ball, put>>

(* The machine makes a choice point, as anything with alternatives does. *)
TryMeElse ==
  /\ Len(choices) < MaxChoices
  /\ choices' = Append(choices, [tr |-> Len(trail), h |-> Len(heap),
                                 seen |-> [k \in Keys |-> Seen(k)], dirty |-> {}])
  /\ UNCHANGED <<heap, trail, known, ball, loc, put>>

(* A cut drops choice points and leaves heap and trail alone. *)
Cut(n) ==
  /\ n < Len(choices)
  /\ choices' = SubSeq(choices, 1, n)
  /\ UNCHANGED <<heap, trail, known, ball, loc, put>>

-----------------------------------------------------------------------------
EntriesOf(k, a1, a2) == {i \in a1 + 1..a2 : trail[i].key = k}

(* Mutant: the trail is unwound in the order it was written. *)
UnwoundForwards(k, a1, a2) ==
  IF EntriesOf(k, a1, a2) = {} THEN loc[k]
  ELSE LET last == CHOOSE i \in EntriesOf(k, a1, a2) : \A j \in EntriesOf(k, a1, a2) : j <= i
       IN  trail[last].old

(* unwind_trail(a1, a2): entries are undone from the newest to the oldest,   *)
(* so for each key the oldest one decides.                                   *)
Unwound(k, a1, a2) ==
  IF EntriesOf(k, a1, a2) = {} THEN loc[k]
  ELSE LET first == CHOOSE i \in EntriesOf(k, a1, a2) : \A j \in EntriesOf(k, a1, a2) : i <= j
       IN  trail[first].old

(* Failure: back to the newest choice point, which is then retried or, when  *)
(* it has no alternative left, dropped.  A bb_get that does not unify with   *)
(* what it found fails before anything is cached, which is this step too.    *)
Backtrack(last) ==
  /\ choices # <<>>
  /\ LET c == choices[Len(choices)] IN
       /\ loc' = [k \in Keys |-> Unwound(k, c.tr, Len(trail))]
       /\ trail' = SubSeq(trail, 1, c.tr)
       /\ heap' = SubSeq(heap, 1, c.h)
  /\ choices' = IF last THEN SubSeq(choices, 1, Len(choices) - 1) ELSE choices
  /\ UNCHANGED <<known, ball, put>>

Next ==
  \/ \E k \in Keys, v \in Values : BbPut(k, v) \/ BbBPut(k, v)
  \/ \E k \in Keys : BbGetBall(k)
  \/ TryMeElse
  \/ \E n \in 0..MaxChoices : Cut(n)
  \/ \E last \in BOOLEAN : Backtrack(last)

Spec == Init /\ [][Next]_vars

-----------------------------------------------------------------------------
(* Every variable has its type. *)
TypeOK ==
  /\ heap \in Seq(Values) /\ Len(heap) <= MaxHeap
  /\ trail \in Seq([key : Keys, old : Nat]) /\ Len(trail) <= MaxTrail
  /\ choices \in Seq([tr : Nat, h : Nat, seen : [Keys -> BallOrNone], dirty : SUBSET Keys])
  /\ Len(choices) <= MaxChoices
  /\ known \subseteq Keys
  /\ ball \in [Keys -> BallOrNone]
  /\ loc \in [Keys -> Nat]
  /\ put \in [Keys -> BallOrNone]

(* No global variable points above the top of the heap, now or after         *)
(* backtracking to any choice point: bb_put may run between a bb_b_put and   *)
(* the backtracking that undoes it, and a cut may drop the choice point in   *)
(* between.                                                                  *)
NoDanglingLocation ==
  /\ \A k \in Keys : loc[k] <= Len(heap)
  /\ \A i \in DOMAIN choices, k \in Keys :
       Unwound(k, choices[i].tr, Len(trail)) <= choices[i].h

(* unwind_trail calls a key of the trail that is not in the map unreachable. *)
TrailedKeysKnown == \A i \in DOMAIN trail : trail[i].key \in known

(* Backtracking to choice point i, now or later, gives every global variable *)
(* the value it had there, unless bb_put wrote it since.                     *)
BacktrackRestores ==
  \A i \in DOMAIN choices : \A k \in Keys \ choices[i].dirty :
    LET l == Unwound(k, choices[i].tr, Len(trail))
    IN  (IF l # None THEN heap[l] ELSE ball[k]) = choices[i].seen[k]

(* "The global variable isn't backtrackable." (bb_put/2): backtracking does  *)
(* not change a variable whose last write was a bb_put.  The code does not   *)
(* have it: an older bb_b_put of the key is undone over the bb_put.          *)
PutSurvivesBacktracking ==
  [][\A last \in BOOLEAN : Backtrack(last) =>
       \A k \in Keys : put[k] # NoVal => Seen(k)' = put[k]]_vars
==============================================================================
