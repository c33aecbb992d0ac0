---------------------------- MODULE MCExceptions ----------------------------
(* Programs of up to three nested control constructs around the simple goals,
   run to the first solution and to the last.  Admit names the combinations
   on which the machine is known to go wrong (see the README), none of which
   MCExceptions.cfg admits:
     limits   an inference limit around another one or around a cleanup,
     failing  a cleanup goal that fails inside another cleanup.             *)
EXTENDS Exceptions

CONSTANT Admit

Tick == Atomic("tick")
Leaves == {Atomic("true"), Atomic("fail"), Throw("e"), And(Tick, Tick), Or(Tick, Tick)}
CleanerGoals == {Atomic("true"), Atomic("fail"), Throw("f"), Or(Atomic("true"), Atomic("true"))}

Inside(g) == IF g.op \in {"and", "or"} THEN {g.g, g.h}
             ELSE IF g.op \in {"once", "catch", "scc", "limit"} THEN {g.g} ELSE {}
Parts(g) == {g} \cup Inside(g) \cup UNION {Inside(h) : h \in Inside(g)}
Has(g, op) == \E h \in Parts(g) : h.op = op
FailingCleaner(g) == \E h \in Parts(g) : h.op = "scc" /\ h.cleaner = Atomic("fail")
Cleanable(g) == "failing" \in Admit \/ ~FailingCleaner(g)
Limitable(g) == "limits" \in Admit \/ ~(Has(g, "limit") \/ Has(g, "scc"))

Catches(S, Rs) == {Catch(g, c, r) : g \in S, c \in {AnyBall, "f"}, r \in Rs}
Cleanups(S, Cs) == {Scc(g, c) : g \in {h \in S : Cleanable(h)}, c \in Cs}
Limited(S) == {Limit(g, l) : g \in {h \in S : Limitable(h)}, l \in {1, 2}}
Wraps(S) == Catches(S, {Atomic("true"), Throw("f")}) \cup Cleanups(S, CleanerGoals) \cup Limited(S)
            \cup {Once(g) : g \in S}
            \cup {And(g, h) : g \in S, h \in {Throw("e"), Tick, Atomic("fail")}}
Outer(S) == Catches(S, {Atomic("true")}) \cup Cleanups(S, {Atomic("true")}) \cup Limited(S)
            \cup {And(g, Throw("e")) : g \in S}

Level1 == Wraps(Leaves)
Level2 == Wraps(Level1)
MCPrograms == LET S == Level1 \cup Level2 \cup Outer(Level2)
              IN {Once(g) : g \in S} \cup {And(g, Atomic("fail")) : g \in S}
=============================================================================
