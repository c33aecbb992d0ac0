----------------------------- MODULE MCDispatch -----------------------------
(* Clauses of up to two unifications in front of one built-in, in both forms,
   for every built-in; and clauses with two built-ins of each discipline.    *)
EXTENDS Dispatch
Get == [kind |-> "get"]
Exit == [kind |-> "proceed", arity |-> 0, live |-> 0]
Do(arm, form, live) == [kind |-> "arm", arm |-> arm, form |-> form, arity |-> 2, live |-> live]
Ending(i) == IF i.form = "call" THEN <<i, Exit>> ELSE <<i>>
Forms == {"call", "execute"}
Single == {Ending(Do(a, f, 2)) : a \in AllArms \ NeckCutArm, f \in Forms}
          \cup {Ending(Do(a, "call", 0)) : a \in NeckCutArm}
Representative == {CHOOSE a \in AllArms \ NeckCutArm : a.f = g : g \in {a.f : a \in AllArms}}
Short == {Ending(Do(a, f, 2)) : a \in Representative, f \in Forms}
MCPrograms == Single
              \cup {<<Get>> \o c : c \in Short} \cup {<<Get, Get>> \o c : c \in Short}
              \cup {<<Do(a, "call", 2)>> \o c : a \in {x \in Representative : "callee" \notin x.f}, c \in Short}
=============================================================================
