--------------------------- MODULE ClauseMachine ---------------------------
(* The instructions of a compiled clause, run on the most general call: every
   argument is a different unbound variable of the caller's environment, every
   structure is built rather than matched, and the goals that are called bind
   nothing.  What the run shows of the clause, its head and the arguments of
   its goals, is compared with the source.

   Memory cells are numbered.  A cell lives on the heap, in the caller's
   environment or in the clause's own.                                      *)
EXTENDS ClauseCompiler

Junk == Lit([type |-> "junk"])
Barrier == Lit([type |-> "barrier"])
Machine0(arity) == [x |-> [i \in 1..arity |-> Var(i)], y |-> <<>>, bound |-> <<>>,
                 kind |-> [i \in 1..arity |-> "caller"], write |-> <<>>, log |-> <<>>,
                 b0 |-> TRUE, env |-> FALSE, left |-> FALSE, bad |-> {}]
Fault(m, what) == [m EXCEPT !.bad = @ \cup {what}]

RECURSIVE Chase(_, _)
Chase(m, t) == IF t.k = "var" /\ t.v \in DOMAIN m.bound THEN Chase(m, m.bound[t.v]) ELSE t
RECURSIVE Resolve(_, _)
Resolve(m, t) == LET d == Chase(m, t)
                 IN IF d.k = "str" THEN [d EXCEPT !.args = [i \in 1..Len(@) |-> Resolve(m, @[i])]] ELSE d
Unbound(m, t) == Chase(m, t).k = "var"
Local(m, t) == Unbound(m, t) /\ m.kind[Chase(m, t).v] # "heap"
RECURSIVE Reaches(_, _, _)
Reaches(m, t, kind) ==
  LET d == Chase(m, t)
  IN \/ d.k = "var" /\ m.kind[d.v] = kind
     \/ d.k = "str" /\ \E i \in 1..Len(d.args) : Reaches(m, d.args[i], kind)

Read(m, r) == CASE r.kind = "x" /\ r.n \in DOMAIN m.x -> m.x[r.n]
                [] r.kind = "y" /\ m.env /\ r.n \in DOMAIN m.y -> m.y[r.n]
                [] OTHER -> Junk
Write(m, r, t) == IF r.kind = "x" THEN [m EXCEPT !.x = Put(@, r.n, t)] ELSE [m EXCEPT !.y = Put(@, r.n, t)]
NewCells(m, n, kind) == [m EXCEPT !.kind = @ \o [i \in 1..n |-> kind]]
NewVar(m) == Var(Len(m.kind) + 1)

(* A variable of an environment is bound to one of the heap, and one of the
   clause's own environment to one of the caller's.                          *)
Older(m, i, j) == LET Rank(c) == CASE m.kind[c] = "heap" -> 0 [] m.kind[c] = "caller" -> 1 [] OTHER -> 2
                  IN Rank(i) < Rank(j)
Unify(m, a, b) ==
  LET u == Chase(m, a)
      w == Chase(m, b)
  IN CASE u = w -> m
       [] u # w /\ u.k = "var" /\ (w.k # "var" \/ ~Older(m, u.v, w.v)) -> [m EXCEPT !.bound = Put(@, u.v, w)]
       [] u # w /\ w.k = "var" -> [m EXCEPT !.bound = Put(@, w.v, u)]
       [] OTHER -> Fault(m, "mismatch")

(* The next argument of the structure that is being written. *)
NextCell(m) == Var(Head(m.write))
Written(m) == [m EXCEPT !.write = Tail(@)]
Build(m, f, n) == [m |-> [NewCells(m, n, "heap") EXCEPT !.write = [i \in 1..n |-> Len(m.kind) + i]],
                   t |-> Str(f, [i \in 1..n |-> Var(Len(m.kind) + i)])]
Globalized(m, t) == IF Local(m, t) THEN [NewCells(m, 1, "heap") EXCEPT !.bound = Put(@, Chase(m, t).v, NewVar(m))] ELSE m

PutVariable(m, r, k) ==
  LET n == NewCells(m, 1, IF r.kind = "y" THEN "own" ELSE "heap")
  IN Write(Write(n, r, NewVar(m)), X(k), NewVar(m))
PutUnsafeValue(m, r, k) ==
  LET own == Unbound(m, Read(m, r)) /\ m.kind[Chase(m, Read(m, r)).v] = "own"
      g == IF own THEN Globalized(m, Read(m, r)) ELSE m
  IN Write(g, X(k), Chase(g, Read(g, r)))
(* A value that is still an unbound local variable would leave a reference
   from the heap into an environment.                                        *)
SubValue(m, r) == IF Local(m, Read(m, r)) THEN Fault(Written(m), "dangling")
                  ELSE Written([m EXCEPT !.bound = Put(@, NextCell(m).v, Read(m, r))])
SubLocalValue(m, r) == IF Local(m, Read(m, r))
                       THEN Written([m EXCEPT !.bound = Put(@, Chase(m, Read(m, r)).v, NextCell(m))])
                       ELSE Written([m EXCEPT !.bound = Put(@, NextCell(m).v, Chase(m, Read(m, r)))])

(* The operands of arithmetic are instantiated when the evaluation succeeds. *)
Operand(m, a) == IF a.k = "num" THEN Lit(a.c) ELSE Read(m, a.r)
Evaluated(m, args) == FoldLeft(LAMBDA acc, a : Globalized(acc, Operand(acc, a)), m, args)
Arith(m, f, args, n) ==
  LET e == Evaluated(m, args)
  IN Write(e, X(n), Str(f, [i \in 1..Len(args) |-> Operand(e, args[i])]))
(* A goal is logged with its arguments; a call leaves nothing of the
   temporary registers and of the cut barrier.                               *)
RunGoal(m, i) ==
  LET args == (IF i.name = "$get_number" THEN <<Anon>> ELSE <<>>) \o [j \in 1..Len(i.args) |-> Operand(m, i.args[j])]
      logged == [m EXCEPT !.log = Append(@, [name |-> i.name, args |-> args]), !.left = i.tail]
      escapes == i.g = "call" /\ i.tail /\ \E j \in 1..Len(args) : Reaches(m, args[j], "own")
      ran == CASE i.g = "call" -> [logged EXCEPT !.x = <<>>, !.b0 = FALSE]
               [] i.g \in {"is", "cmp"} -> Evaluated(logged, i.args)
               [] OTHER -> logged
  IN IF escapes THEN Fault(ran, "escaped") ELSE ran

Step(m, i) ==
  CASE m.left -> Fault(m, "after the end")
    [] ~m.left /\ i.op = "allocate" -> [m EXCEPT !.env = TRUE]
    [] ~m.left /\ i.op = "deallocate" -> [m EXCEPT !.env = FALSE]
    [] ~m.left /\ i.op = "proceed" -> [m EXCEPT !.left = TRUE]
    [] ~m.left /\ i.op = "get_level" -> Write(m, i.r, IF m.b0 THEN Barrier ELSE Junk)
    [] ~m.left /\ i.op = "neck_cut" -> [m EXCEPT !.log = Append(@, [name |-> "!", args |-> <<IF m.b0 THEN Barrier ELSE Junk>>])]
    [] ~m.left /\ i.op = "cut" -> [m EXCEPT !.log = Append(@, [name |-> "!", args |-> <<Read(m, i.r)>>])]
    [] ~m.left /\ i.op = "goal" -> RunGoal(m, i)
    [] ~m.left /\ i.op = "arith" -> Arith(m, i.f, i.args, i.n)
    [] ~m.left /\ i.op = "move" -> Write(m, i.r, Read(m, X(i.k)))
    [] ~m.left /\ i.op = "arg_variable" /\ i.t = "fact" -> Write(m, i.r, Read(m, X(i.k)))
    [] ~m.left /\ i.op = "arg_variable" /\ i.t = "query" -> PutVariable(m, i.r, i.k)
    [] ~m.left /\ i.op = "arg_value" /\ i.t = "fact" -> Unify(m, Read(m, i.r), Read(m, X(i.k)))
    [] ~m.left /\ i.op = "arg_value" /\ i.t = "query" -> Write(m, X(i.k), Read(m, i.r))
    [] ~m.left /\ i.op = "arg_unsafe_value" -> PutUnsafeValue(m, i.r, i.k)
    [] ~m.left /\ i.op = "constant" /\ i.t = "fact" -> Unify(m, Read(m, i.r), Lit(i.c))
    [] ~m.left /\ i.op = "constant" /\ i.t = "query" -> Write(m, i.r, Lit(i.c))
    [] ~m.left /\ i.op = "structure" /\ i.t = "fact" -> LET b == Build(m, i.f, i.n) IN Unify(b.m, Read(m, i.r), b.t)
    [] ~m.left /\ i.op = "structure" /\ i.t = "query" -> LET b == Build(m, i.f, i.n) IN Write(b.m, i.r, b.t)
    [] ~m.left /\ i.op = "sub_constant" -> Written([m EXCEPT !.bound = Put(@, NextCell(m).v, Lit(i.c))])
    [] ~m.left /\ i.op = "sub_variable" /\ m.write # <<>> -> Written(Write(m, i.r, NextCell(m)))
    [] ~m.left /\ i.op = "sub_variable" /\ m.write = <<>> -> Write(NewCells(m, 1, "heap"), i.r, NewVar(m))
    [] ~m.left /\ i.op = "sub_value" -> SubValue(m, i.r)
    [] ~m.left /\ i.op = "sub_local_value" -> SubLocalValue(m, i.r)
    [] ~m.left /\ i.op = "void" -> [m EXCEPT !.write = SubSeq(@, i.n + 1, Len(@))]
RunClause(code, arity) == FoldLeft(Step, Machine0(arity), code)

---------------------------------------------------------------------------
(* What the source says: the head arguments, then the arguments of the goals. *)
Meaning(goal) ==
  CASE goal.g = "cut" -> [name |-> "!", args |-> <<Barrier>>]
    [] goal.g = "test" /\ goal.args[1].k # "var" ->
         [name |-> IF StaticTest(goal.name, goal.args[1]) THEN "$succeed" ELSE "$fail", args |-> <<>>]
    [] OTHER -> [name |-> goal.name, args |-> goal.args]
Shown(args, goals) == FoldLeft(LAMBDA acc, g : acc \o g.args, args, goals)

(* Two sequences of terms are variants: the same up to a renaming of variables. *)
RECURSIVE Leaves(_)
Leaves(terms) ==
  IF terms = <<>> THEN <<>>
  ELSE CASE Head(terms).k = "str" -> <<[f |-> Head(terms).f, n |-> Len(Head(terms).args)]>>
                                     \o Leaves(Head(terms).args \o Tail(terms))
         [] OTHER -> <<Head(terms)>> \o Leaves(Tail(terms))
Shape(leaf) == IF "k" \in DOMAIN leaf /\ leaf.k \in {"var", "anon"} THEN Anon ELSE leaf
VarLeaf(leaf) == "k" \in DOMAIN leaf /\ leaf.k = "var"
Variants(a, b) ==
  LET p == Leaves(a)
      q == Leaves(b)
  IN /\ Len(p) = Len(q)
     /\ \A i \in 1..Len(p) : Shape(p[i]) = Shape(q[i])
     /\ \A i, j \in 1..Len(p) : i < j /\ Shape(p[i]) = Anon /\ Shape(p[j]) = Anon =>
          ((VarLeaf(p[i]) /\ p[i] = p[j]) <=> (VarLeaf(q[i]) /\ q[i] = q[j]))

RECURSIVE VarSet(_)
VarSet(terms) == UNION {CASE terms[i].k = "var" -> {terms[i].v}
                          [] terms[i].k = "str" -> VarSet(terms[i].args)
                          [] OTHER -> {} : i \in 1..Len(terms)}
Before(clause, i) == VarSet(clause.head) \cup UNION {VarSet(clause.body[j].args) : j \in 1..(i - 1)}

(* The clauses about which the code is right.  Variables of type tests,
   comparisons and expressions have occurred before.  Of an inlined goal
   before the first call no operand is compound and a variable operand is the
   head argument of the same position; a comparison has no number on its left;
   and X is Y with Y a variable does not end a clause with a call.          *)
Moded(clause) == \A i \in 1..Len(clause.body) :
  LET goal == clause.body[i]
  IN /\ goal.g \in Inlined => VarSet(goal.args) \subseteq Before(clause, i)
     /\ goal.g = "is" => VarSet(<<goal.args[2]>>) \subseteq Before(clause, i)
Tame(clause) == \A i \in 1..Len(clause.body) :
  LET goal == clause.body[i]
      neck == \A j \in 1..(i - 1) : clause.body[j].g \notin {"call", "is"}
  IN /\ goal.g \in Inlined /\ neck =>
          \A k \in 1..Len(goal.args) :
             goal.args[k].k = "lit" \/ (k <= Len(clause.head) /\ clause.head[k] = goal.args[k])
     /\ goal.g = "cmp" => goal.args[1].k # "lit"
     /\ goal.g = "is" /\ i = Len(clause.body) /\ i > 1 => goal.args[2].k # "var"

(* The instructions of a clause do what the clause says: run on the most
   general call they leave the clause, and the head and the goals they show are
   the source's up to the names of variables, sharing included.             *)
CompilesFaithfully(clause) ==
  LET m == RunClause(CompileClause(clause), Len(clause.head))
      goals == [i \in 1..Len(clause.body) |-> Meaning(clause.body[i])]
      run == Shown([i \in 1..Len(clause.head) |-> Var(i)], m.log)
  IN /\ m.left /\ Len(m.log) = Len(goals)
     /\ \A i \in 1..Len(goals) : m.log[i].name \in {goals[i].name, "$get_number"}
     /\ "mismatch" \notin m.bad /\ "after the end" \notin m.bad
     /\ Variants(Shown(clause.head, goals), [i \in 1..Len(run) |-> Resolve(m, run[i])])
(* No instruction leaves a reference into the clause's environment: neither
   from a term on the heap nor in an argument of the last call, which runs
   after the environment is gone.                                            *)
LeavesNoReference(clause) ==
  RunClause(CompileClause(clause), Len(clause.head)).bad \cap {"dangling", "escaped"} = {}
=============================================================================
