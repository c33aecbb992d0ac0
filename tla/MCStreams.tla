----------------------------- MODULE MCStreams -----------------------------
(***************************************************************************)
(* The streams on a small instance: either one input stream is read        *)
(* (CharStream) or the table of streams is worked on (IndexStore), chosen  *)
(* at the start; neither looks at the state of the other.                  *)
(***************************************************************************)
EXTENDS CharStream, IndexStore

VARIABLE side   \* "data" or "names"

vars == <<side, streamVars, storeVars>>

\* A character of each width, U+FEFF among them and not at the start.
Char(w, bom) == [k \in 1 .. w |-> [w |-> w, k |-> k, bom |-> bom]]
MCBytes == Char(1, FALSE) \o Char(3, FALSE) \o Char(2, TRUE)

AnyStream == NewStream("file", [type |-> "text", eof |-> "error", reposition |-> FALSE], 0)

Init ==
    \/ /\ side = "data"
       /\ StreamInit
       /\ store = [i \in Ids |-> Unused] /\ streams = {} /\ stream_aliases = [a \in {} |-> Null]
       /\ user_input = Null /\ user_output = Null /\ panicked = FALSE
       /\ iter = [on |-> FALSE, at |-> Null, seen |-> {}, open |-> {}, twice |-> FALSE]
    \/ /\ side = "names"
       /\ StoreInit
       /\ s = AnyStream /\ next = 0 /\ last = NoOutcome

Next ==
    \/ side = "data" /\ StreamNext /\ UNCHANGED <<side, storeVars>>
    \/ side = "names" /\ StoreNext /\ UNCHANGED <<side, streamVars>>

Spec == Init /\ [][Next]_vars

=============================================================================
