----------------------------- MODULE MCDatabase -----------------------------
(* Programs that assert, retract and abolish clauses of the dynamic predicates
   d (indexed on the first argument) and e (on the first, the second or none),
   and one that loads files with clauses like e's of the static predicate s.  *)
EXTENDS Database
MCKeyType == [k \in Keys |-> IF k \in DynamicPreds THEN "str" ELSE "con"]
MCHeads == [n \in Preds |->
              IF n = "d" THEN [fst : {"a", "b"}, snd : {Unbound}]
              ELSE [fst : {"a", Unbound}, snd : {Unbound}] \cup [fst : {Unbound}, snd : {"a"}]]
MCGoals == [n \in Preds |->
              IF n = "d" THEN [fst : {"a", Unbound}, snd : {Unbound}]
              ELSE [fst : {"a", Unbound}, snd : {"a", Unbound}] \cup [fst : {Unbound}, snd : {"b"}]]
Program(d, e, s) == [n \in Preds |-> CASE n = "d" -> d [] n = "e" -> e [] n = "s" -> s]
MCPrograms == {Program({"assertz", "retract"}, {}, {}),
               Program({"asserta", "assertz"}, {}, {}),
               Program({"asserta", "assertz", "retract", "abolish"}, {}, {}),
               Program({"assertz", "retract"}, {"assertz"}, {}),
               Program({}, {"assertz", "abolish"}, {}),
               Program({}, {"asserta", "abolish"}, {}),
               Program({}, {"asserta", "retract"}, {}),
               Program({}, {}, {"load"})}
(* Two calls open at a time where the clauses are few enough for it *)
MCMaxCalls == [g \in MCPrograms |->
                 IF "asserta" \in g["d"] \/ {"asserta", "abolish"} \subseteq g["e"] THEN 2 ELSE 1]
MCMaxClauses == [g \in MCPrograms |->
                   IF g["s"] # {} THEN 5
                   ELSE IF "abolish" \in g["d"] \/ "asserta" \in g["e"] \/ (g["d"] # {} /\ g["e"] # {})
                        THEN 3 ELSE 4]
=============================================================================
