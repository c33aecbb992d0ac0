---------------------------- MODULE MCAtomTable -----------------------------
(* A small instance of AtomTable: two threads, three dynamic strings (so    *)
(* that a block of one slot is replaced twice), one inlined and one static. *)
EXTENDS AtomTable

CONSTANTS inl, sta

MCPresetAtom == [s \in {inl, sta} |-> IF s = inl THEN -2 ELSE -1]
=============================================================================
