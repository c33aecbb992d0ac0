---------------------------- MODULE MCAlgorithms ----------------------------
(* Numbers, the clause compiler and terms over small inputs: pairs of numbers
   of every representation, clauses grown goal by goal, strings grown
   character by character, and unifications of pairs of terms, cyclic ones
   too, round by round.                                                     *)
EXTENDS Numbers, ClauseMachine, TermOrder

CONSTANTS MaxGoals, MaxChars, MaxRounds

VARIABLE task

BigValues == {-40, -17, -16, -3, -1, 0, 1, 2, 15, 16, 17, 33}
IntegerOperands == {Fix(n) : n \in FixMin..FixMax} \cup {Big(n) : n \in BigValues}
Rationals == {Rat(n, d) : n \in {-33, -31, -29, -7, -1, 1, 3, 4, 29, 31, 33}, d \in {1, 2, 3}}
Floats == {RoundF(n, 4) : n \in -130..130} \ {Flt(FixMax + 1, 1), Flt(FixMin, 1)}
AllNumbers == IntegerOperands \cup Rationals \cup Floats
SecondOperands(name) ==
  CASE name = "^" -> {x \in IntegerOperands : AbsOf(x.n) <= 3}
    [] name \in {">>", "<<"} -> {x \in IntegerOperands : AbsOf(x.n) < WordBits}
    [] OTHER -> IntegerOperands

VX == Var("X")
VY == Var("Y")
VZ == Var("Z")
One == Lit([type |-> "integer"])
F1(x) == Str("f", <<x>>)
Heads == {<<VX>>, <<F1(VX)>>, <<VX, VY>>, <<VY, F1(VX)>>, <<F1(VX), VX>>, <<VX, VX>>,
          <<Str("g", <<Str("f", <<VX, Anon>>), VY>>)>>}
Goals == {Goal("cut", "!", <<>>), Goal("call", "q", <<VX>>), Goal("call", "q", <<VY, VX>>),
          Goal("call", "q", <<F1(VX), VY>>), Goal("call", "q", <<VZ, Str("f", <<VY, F1(VZ)>>)>>),
          Goal("call", "q", <<Anon, VX>>),
          Goal("test", "atom", <<VX>>), Goal("test", "atom", <<One>>),
          Goal("cmp", "<", <<VX, One>>), Goal("cmp", "<", <<VX, VY>>),
          Goal("cmp", "<", <<Str("+", <<VX, One>>), VY>>),
          Goal("is", "is", <<VZ, Str("*", <<Str("+", <<VX, One>>), Str("-", <<VY, VX>>)>>)>>),
          Goal("is", "is", <<VX, VY>>), Goal("is", "is", <<One, VX>>)}

(* Cells of two bytes; characters of one byte and of two. *)
MCEncoding == [a |-> <<1>>, b |-> <<2>>, e |-> <<3, 4>>, d |-> <<3, 5>>]
MCNameOrder == <<".", "[]", "a", "b", "d", "e", "f", "g">>

(* A heap: the scratch cell, a variable, an attributed variable, and two
   terms whose arguments may be themselves or each other.                   *)
Strings == {<<"a">>, <<"a", "b">>, <<"a", "b", "a">>, <<"e", "a">>}
Shapes == {<<"f">>, <<"g">>, <<".">>} \cup Strings
Body(shape) == CASE shape = <<".">> -> <<>>
                 [] shape \in Strings -> InCells(Padded(Encoded(shape)))
                 [] OTHER -> <<Functor(shape[1], 2)>>
Loc(shape, at) == CASE shape = <<".">> -> ListLoc(at)
                    [] shape \in Strings -> PStrLoc(HeapIndex(at))
                    [] OTHER -> StrLoc(at)
Firsts(shape) == IF shape \in Strings THEN {"none"} ELSE {"self", "v", "a"}
Lasts == {"self", "v", "w", "1", "2", "[]"}
Blocks == UNION {[shape : {s}, first : Firsts(s), last : Lasts] : s \in Shapes}
Built(b1, b2) ==
  LET at1 == 3
      Size(b) == Len(Body(b.shape)) + (IF b.first = "none" THEN 1 ELSE 2)
      at2 == at1 + Size(b1)
      Arg(x, here) == CASE x = "self" -> HeapVar(here) [] x = "v" -> HeapVar(1)
                        [] x = "w" -> HeapVar(2)
                        [] x = "1" -> Loc(b1.shape, at1) [] x = "2" -> Loc(b2.shape, at2)
                        [] OTHER -> AtomCell(x)
      Cells(b, at) ==
        Body(b.shape) \o (IF b.first = "none" THEN <<>>
                          ELSE <<Arg(b.first, at + Len(Body(b.shape)))>>)
                      \o <<Arg(b.last, at + Size(b) - 1)>>
  IN  [heap |-> <<HeapVar(0), HeapVar(1), AttrVar(2)>> \o Cells(b1, at1) \o Cells(b2, at2),
       r1 |-> Loc(b1.shape, at1), r2 |-> Loc(b2.shape, at2)]
Constants == {AtomCell("a"), TaggedCell("fix", 1), TaggedCell("big", 1), TaggedCell("rat", 1),
              TaggedCell("flt", 1), TaggedCell("flt", 2), TaggedCell("stream", "b"), EmptyList,
              HeapVar(1), HeapVar(2), StackVar(0), StackVar(1)}

Init == task \in [kind : {"int"}, name : BinaryNames \ {"/", "rdiv"}]
                   \cup {[kind |-> "number", name |-> n.t] : n \in AllNumbers}
                   \cup [kind : {"clause"}, head : Heads, body : {<<>>}]
                   \cup [kind : {"string"}, s1 : {<<>>}, s2 : {<<>>}]
                   \cup [kind : {"terms"}, block : Blocks]
                   \cup [kind : {"constants"}, r1 : Constants]
Operate == /\ task.kind = "int" /\ "x" \notin DOMAIN task
           /\ \E x \in IntegerOperands, y \in SecondOperands(task.name) :
                task' = [kind |-> "int", name |-> task.name, x |-> x, y |-> y]
Compare == /\ task.kind = "number" /\ "x" \notin DOMAIN task
           /\ \E x \in {n \in AllNumbers : n.t = task.name}, y \in AllNumbers :
                task' = [kind |-> "number", x |-> x, y |-> y]
AddGoal == /\ task.kind = "clause" /\ Len(task.body) < MaxGoals
           /\ \E goal \in Goals :
                /\ Moded([task EXCEPT !.body = Append(@, goal)])
                /\ task' = [task EXCEPT !.body = Append(@, goal)]
AddChar == /\ task.kind = "string" /\ Len(task.s1) + Len(task.s2) < MaxChars
           /\ \E c \in DOMAIN Encoding \cup {NUL} :
                \/ task' = [task EXCEPT !.s1 = Append(@, c)]
                \/ c # NUL /\ NUL \notin Range(task.s1) /\ task' = [task EXCEPT !.s2 = Append(@, c)]
Unification(heap, stack, r1, r2, mode) ==
  [kind |-> "unify", heap |-> heap, stack |-> stack, r1 |-> r1, r2 |-> r2,
   u |-> Unifying(heap, stack, r1, r2, mode)]
StartTerms == /\ task.kind = "terms"
              /\ \E b \in Blocks, mode \in Modes :
                   LET built == Built(task.block, b)
                   IN  task' = Unification(built.heap, <<>>, built.r1, built.r2, mode)
StartConstants == /\ task.kind = "constants"
                  /\ \E r2 \in Constants, mode \in Modes :
                       task' = Unification(<<HeapVar(0), HeapVar(1), AttrVar(2)>>,
                                           <<StackVar(0), StackVar(1)>>, task.r1, r2, mode)
Unify1 == /\ task.kind = "unify" /\ ~Finished(task.u) /\ ~Astray(task.u)
          /\ task.u.rounds < MaxRounds
          /\ task' = [task EXCEPT !.u = UnifyRound(@)]
Finish == /\ \/ task.kind \in {"int", "number", "clause", "string"}
             \/ task.kind = "unify" /\ Finished(task.u)
          /\ task' = [kind |-> "done"]
Next == \/ Operate \/ Compare \/ AddGoal \/ Finish
        \/ AddChar \/ StartTerms \/ StartConstants \/ Unify1
Spec == Init /\ [][Next]_task

(* What a task computes is looked at when it is finished. *)
Given == "x" \in DOMAIN task
Finishing(kind) == task'.kind = "done" /\ task.kind = kind
(* Integer arithmetic gives the mathematical result whatever the operands'
   representation (IntegerExact), the four roundings are exact (RoundsExactly),
   and comparison, max and min respect the order of numbers (OrderFaithful).   *)
NumbersExact ==
  [][/\ Finishing("int") /\ Given => IntegerExact(task.name, task.x, task.y)
     /\ Finishing("number") /\ Given => RoundsExactly(task.x) /\ OrderFaithful(task.x, task.y)]_task
(* Compiled code does what its clause says (CompilesFaithfully) and leaves no
   reference into an environment it has given up (LeavesNoReference).        *)
ClausesFaithful ==
  [][Finishing("clause") /\ Tame(task) => CompilesFaithfully(task) /\ LeavesNoReference(task)]_task
(* Strings on the heap read back as the characters they were made from
   (ReadsBack), and two are compared and copied from any place (SegmentsExact). *)
StringsFaithful ==
  [][Finishing("string") =>
       /\ ReadsBack(<<HeapVar(0)>>, task.s1)
       /\ NUL \notin Range(task.s1) => SegmentsExact(<<>>, task.s1, task.s2)]_task
(* A unification that ends is exact (ExactUnification); a stream is left out,
   for with its alias it unifies in one order only.                          *)
UnifiesExactly ==
  [][Finishing("unify") /\ "stream" \notin {task.r1.t, task.r2.t} =>
       ExactUnification(task.u, task.heap, task.stack, task.r1, task.r2)]_task
(* Unification ends, of cyclic terms too. *)
UnifyEnds == task.kind = "unify" => task.u.rounds < MaxRounds
(* compare/3 gives the standard order (InStandardOrder) of finite terms where
   the first holds no partial string.                                        *)
Started == task.kind = "unify" /\ task.u.rounds = 0 /\ task.stack = <<>> /\ task.u.mode = "plain"
FirstHolds(t) == \E n \in Subterms(task.heap, <<>>, {task.r1}, {}) : n.t = t
Finite == Problem(task.heap, <<>>, task.r1, task.r2).tree
CompareFaithful ==
  [][Started /\ Finite /\ ~FirstHolds("pstr") =>
       InStandardOrder(task.heap, task.r1, task.r2)]_task
=============================================================================
