------------------------------ MODULE MCMemory ------------------------------
(***************************************************************************)
(* The local stack and the global variables on small instances: either the *)
(* block of the stack is worked on (Stack) or the map of global variables  *)
(* (Blackboard), chosen at the start; neither looks at the other's state.  *)
(*                                                                         *)
(* Stack: preludes of one and two words, frames of no or two cells and a   *)
(* first block of four words that may double once, so that a frame can     *)
(* find the block exactly full, partly full or roomy, before and after a   *)
(* truncation.  Blackboard: two keys, two values and two nested choice     *)
(* points, with room on heap and trail for three backtrackable writes.     *)
(* Keys and values are interchangeable.                                    *)
(***************************************************************************)
EXTENDS Stack, Blackboard, TLC

CONSTANTS k1, k2, v1, v2
MCKeys == {k1, k2}
MCValues == {v1, v2}
MCSymmetry == Permutations(MCKeys) \cup Permutations(MCValues)

VARIABLE side   \* "stack" or "globals"

MCInit == StackInit /\ Init /\ side \in {"stack", "globals"}

MCNext ==
  \/ side = "stack" /\ StackNext /\ UNCHANGED <<side, vars>>
  \/ side = "globals" /\ Next /\ UNCHANGED <<side, stackVars>>

MCSpec == MCInit /\ [][MCNext]_<<side, stackVars, vars>>
=============================================================================
