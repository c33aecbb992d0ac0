------------------------------ MODULE Interning ------------------------------
(***************************************************************************)
(* What an atom table promises: a string, once interned, keeps one atom for *)
(* ever, no two strings share an atom, and every caller who asks for a      *)
(* string is given that atom.                                               *)
(***************************************************************************)

CONSTANTS Strings,   \* the strings that may be interned
          Atoms,     \* the atom identities that may be given out
          Builtin    \* the <<string, atom>> pairs every table starts with

VARIABLES interned,  \* the set of <<string, atom>> pairs in the table
          issued     \* the pairs some caller has been given

iVars == <<interned, issued>>

InternedAs(s) == {pair \in interned : pair[1] = s}

NamedBy(a) == {pair \in interned : pair[2] = a}

Init == /\ interned = Builtin
        /\ issued = {}

(* A string without an atom receives a fresh one, of any identity: the pair *)
(* is read off the new table rather than drawn from the set of all atoms.   *)
Intern ==
  \E pair \in interned' :
    /\ pair[1] \in Strings
    /\ pair[2] \in Atoms
    /\ InternedAs(pair[1]) = {}
    /\ NamedBy(pair[2]) = {}
    /\ interned' = interned \cup {pair}
    /\ UNCHANGED issued

(* A caller is told the atom of a string. *)
Issue ==
  \E pair \in interned :
    /\ issued' = issued \cup {pair}
    /\ UNCHANGED interned

Next == Intern \/ Issue

Spec == Init /\ [][Next]_iVars
==============================================================================
