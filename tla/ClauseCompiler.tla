--------------------------- MODULE ClauseCompiler ---------------------------
(* The compilation of one clause to instructions of the abstract machine:
   classification of its variables (machine/disjuncts.rs, variable_records.rs),
   register allocation (debray_allocator.rs) and code generation (codegen.rs,
   targets.rs, iterators.rs, arithmetic.rs).  Bodies are conjunctions; clauses
   with disjunctions are not modelled.

   A term is a variable, an anonymous variable, a literal or a structure; the
   lists and strings of the source are structures.  A goal is a call, a type
   test ("test"), an arithmetic comparison ("cmp"), "is" or "cut".  An
   instruction is a record; t tells the head's (get, unify) from the body's
   (put, set).                                                              *)
EXTENDS Integers, Sequences, FiniteSets, SequencesExt, TLC

Var(v) == [k |-> "var", v |-> v]
Anon == [k |-> "anon"]
Lit(c) == [k |-> "lit", c |-> c]
Str(f, args) == [k |-> "str", f |-> f, args |-> args]
Goal(g, name, args) == [g |-> g, name |-> name, args |-> args]
CutVar == "!"        \* the variable that keeps the cut barrier

---------------------------------------------------------------------------
(* Iterators.  An item is a subterm with its level and its place in the clause. *)
Item(term, lvl, at) == [term |-> term, lvl |-> lvl, at |-> at]
Children(item) == IF item.term.k = "str"
                  THEN [i \in 1..Len(item.term.args) |-> Item(item.term.args[i], "deep", Append(item.at, i))]
                  ELSE <<>>
Arguments(args, at) == [i \in 1..Len(args) |-> Item(args[i], "shallow", Append(at, i))]

RECURSIVE BreadthFirst(_)
BreadthFirst(queue) ==
  IF queue = <<>> THEN <<>>
  ELSE <<Head(queue)>> \o BreadthFirst(Tail(queue) \o Children(Head(queue)))
RECURSIVE PostOrder(_)
PostOrder(items) ==
  IF items = <<>> THEN <<>>
  ELSE PostOrder(Children(Head(items))) \o <<Head(items)>> \o PostOrder(Tail(items))
(* The level of a variable as the classifier sees it: only arguments count as
   shallow, each argument being iterated by itself.                         *)
VarsOf(args) ==
  FoldLeft(LAMBDA acc, i : acc \o
             SelectSeq([j \in 1..Len(BreadthFirst(<<Item(args[i], "shallow", <<i>>)>>)) |->
                          [v |-> BreadthFirst(<<Item(args[i], "shallow", <<i>>)>>)[j], arg |-> i]],
                       LAMBDA o : o.v.term.k = "var"),
           <<>>, [i \in 1..Len(args) |-> i])

---------------------------------------------------------------------------
(* Classification: goals are cut into chunks at calls, and a variable of more
   than one chunk is permanent.                                             *)
Inlined == {"test", "cmp"}
Boundary(c, goal) ==
  CASE goal.g \in Inlined \cup {"cut"} /\ c.type = "last" -> [num |-> c.num + 1, type |-> "mid"]
    [] goal.g \notin Inlined \cup {"cut"} /\ c.type = "last" -> [num |-> c.num + 1, type |-> "last"]
    [] goal.g \notin Inlined \cup {"cut"} -> [c EXCEPT !.type = "last"]
    [] OTHER -> c
Context(c) == [type |-> c.type, num |-> c.num]
HeadContext == [type |-> "head", num |-> 0]
Occurrence(v, lvl, arg, ctx) == [v |-> v, lvl |-> lvl, arg |-> arg, ctx |-> ctx]
Probe(args, ctx) == [i \in 1..Len(VarsOf(args)) |->
                       LET o == VarsOf(args)[i] IN Occurrence(o.v.term.v, o.v.lvl, o.arg, ctx)]
(* A cut is probed before and after the chunk boundary it may cause. *)
ProbeGoal(goal, before, after) ==
  IF goal.g = "cut" THEN <<Occurrence(CutVar, "shallow", 1, Context(before)),
                           Occurrence(CutVar, "shallow", 1, Context(after))>>
  ELSE Probe(goal.args, Context(after))

(* The chunks of the goals and all occurrences of variables, in order. *)
Classify(clause) ==
  FoldLeft(LAMBDA acc, goal : LET after == Boundary(acc.chunk, goal)
                              IN [chunk |-> after,
                                  chunks |-> Append(acc.chunks, after.num),
                                  occurs |-> acc.occurs \o ProbeGoal(goal, acc.chunk, after)],
           [chunk |-> [num |-> 0, type |-> "mid"], chunks |-> <<>>, occurs |-> Probe(clause.head, HeadContext)],
           clause.body)

Distinct(seq) == FoldLeft(LAMBDA acc, e : IF \E i \in 1..Len(acc) : acc[i] = e THEN acc ELSE Append(acc, e),
                          <<>>, seq)
OccurrencesOf(occurs, v) == SelectSeq(occurs, LAMBDA o : o.v = v)
VarOrder(occurs) == Distinct([i \in 1..Len(occurs) |-> occurs[i].v])

UseSet(occ) == Distinct([i \in 1..Len(SelectSeq(occ, LAMBDA o : o.lvl = "shallow")) |->
                 LET o == SelectSeq(occ, LAMBDA o : o.lvl = "shallow")[i] IN [ctx |-> o.ctx, reg |-> o.arg]])
Record(occ) ==
  [kind |-> IF Cardinality({occ[i].ctx.num : i \in 1..Len(occ)}) <= 1 THEN "x" ELSE "y",
   reg |-> 0, num |-> Len(occ), run |-> 0, pending |-> TRUE, loc |-> occ[1].ctx,
   use |-> UseSet(occ), no_use |-> {}, conflict |-> {}, shallow |-> TRUE, deep |-> TRUE]

Regs(use) == {use[i].reg : i \in 1..Len(use)}
(* The use sets are moved away and put back one variable at a time: of the
   variables that are still to come, none seems to use any register.        *)
PopulateRestrictingSets(recs, order) ==
  LET Pos(v) == CHOOSE i \in 1..Len(order) : order[i] = v
      Temp(v) == recs[v].kind = "x"
      LastRegs(u, chunk) == {recs[u].use[i].reg : i \in {j \in 1..Len(recs[u].use) :
                               recs[u].use[j].ctx = [type |-> "last", num |-> chunk]}}
      NoUse(v) == UNION {IF Pos(u) > Pos(v) THEN LastRegs(u, recs[v].loc.num) \ Regs(recs[v].use)
                         ELSE LastRegs(u, recs[v].loc.num) : u \in {w \in DOMAIN recs : Temp(w) /\ w # v}}
  IN [v \in DOMAIN recs |->
        IF ~Temp(v) THEN recs[v]
        ELSE [recs[v] EXCEPT !.no_use = NoUse(v),
                             !.conflict = (1..(Len(recs[v].use) - 1)) \ Regs(recs[v].use)]]

(* A cut barrier that is not used before the first call is kept in the
   environment; get_level puts it there.                                    *)
NeedsLevel(recs) == CutVar \in DOMAIN recs /\ (recs[CutVar].kind = "y" \/ recs[CutVar].loc.num > 0)
EmitInitialGetLevel(recs) == IF NeedsLevel(recs) THEN [recs EXCEPT ![CutVar].kind = "y"] ELSE recs
VarData(clause) ==
  LET occurs == Classify(clause).occurs
      order == VarOrder(occurs)
  IN EmitInitialGetLevel(PopulateRestrictingSets(
       [v \in {order[i] : i \in 1..Len(order)} |-> Record(OccurrencesOf(occurs, v))], order))
Allocates(clause) == Classify(clause).chunk.num > 0

---------------------------------------------------------------------------
(* The allocator.  in_use and free are registers, perm_free slots, map the
   variable that lives in a register, cells the registers of structures.     *)
Allocator(recs) ==
  [rec |-> recs, arg_c |-> 1, temp_lb |-> 1, perm_lb |-> 1, arity |-> 0, map |-> <<>>,
   in_use |-> {}, free |-> <<>>, perm_free |-> <<>>, tail |-> FALSE, cells |-> <<>>, code |-> <<>>]
Reg(kind, n) == [kind |-> kind, n |-> n]
X(n) == Reg("x", n)
Binding(s, v) == Reg(s.rec[v].kind, s.rec[v].reg)
Put(f, key, value) == [i \in DOMAIN f \cup {key} |-> IF i = key THEN value ELSE f[i]]
Drop(f, key) == [i \in DOMAIN f \ {key} |-> f[i]]
Emit(s, i) == [s EXCEPT !.code = Append(@, i)]

ResetArg(s, arity) == [s EXCEPT !.arity = 0, !.arg_c = 1, !.temp_lb = arity + 1]
ResetAtHead(s, args) ==
  FoldLeft(LAMBDA acc, i :
             IF args[i].k = "var" /\ Binding(acc, args[i].v) = X(0)
             THEN [acc EXCEPT !.in_use = @ \cup {i}, !.map = Put(@, i, args[i].v), !.rec[args[i].v].reg = i]
             ELSE acc,
           [ResetArg(s, Len(args)) EXCEPT !.arity = Len(args)], [i \in 1..Len(args) |-> i])
ResetContents(s) == [s EXCEPT !.in_use = {}, !.map = <<>>, !.free = <<>>]

IsInUse(s, r) == (r <= s.arity /\ r >= s.arg_c) \/ r \in s.in_use
Least(set) == CHOOSE n \in set : \A m \in set : n <= m
MaxReg == 12      \* more registers than any clause of a run needs
AllocAvoiding(s, v, avoid) ==
  LET use == s.rec[v].use
      hits == {i \in 1..Len(use) : ~IsInUse(s, use[i].reg)}
  IN IF hits # {} THEN use[Least(hits)].reg
     ELSE Least({r \in s.temp_lb..MaxReg : ~IsInUse(s, r) /\ r \notin s.rec[v].no_use \cup avoid})
AllocWithCr(s, v) == AllocAvoiding(s, v, {})
AllocWithCa(s, v) == AllocAvoiding(s, v, s.rec[v].conflict)

(* Before argument register k is written, the variable that lives there moves
   away unless the last goal of the chunk wants it there.                    *)
EvacuateNothing(s, chunk) == s      \* mutant of EvacuateArg
EvacuateArg(s, chunk) ==
  LET k == s.arg_c
      v == s.map[k]
      r == AllocWithCa(s, v)
  IN IF \/ k \notin DOMAIN s.map
        \/ s.rec[v].kind # "x"
        \/ \E i \in 1..Len(s.rec[v].use) : s.rec[v].use[i] = [ctx |-> [type |-> "last", num |-> chunk], reg |-> k]
        \/ r = k
     THEN s
     ELSE [Emit(s, [op |-> "move", r |-> X(r), k |-> k])
             EXCEPT !.map = Put(Drop(@, k), r, v), !.rec[v].reg = r, !.in_use = @ \cup {r}]

AllocRegToNonVar(s) ==
  LET usable == {i \in 1..Len(s.free) : ~IsInUse(s, s.free[i])}
      last == CHOOSE i \in usable : \A j \in usable : j <= i
      fresh == Least({r \in s.temp_lb..MaxReg : r \notin s.in_use})
  IN IF usable # {}
     THEN [s |-> [s EXCEPT !.free = SubSeq(@, 1, last - 1), !.in_use = @ \cup {s.free[last]}], r |-> s.free[last]]
     ELSE [s |-> [s EXCEPT !.free = <<>>, !.in_use = @ \cup {fresh}, !.temp_lb = fresh + 1], r |-> fresh]
AddRegToFreeList(s, r) == [s EXCEPT !.in_use = @ \ {r}, !.free = Append(@, r)]

(* Slots of the environment that were given up in an earlier chunk are reused. *)
RECURSIVE PopFreePerm(_, _)
PopFreePerm(s, chunk) ==
  IF s.perm_free = <<>> \/ chunk <= Head(s.perm_free).chunk THEN [s |-> s, p |-> 0]
  ELSE LET v == Head(s.perm_free).v
           rest == [s EXCEPT !.perm_free = Tail(@)]
       IN IF s.rec[v].pending /\ s.rec[v].reg > 0
          THEN [s |-> [rest EXCEPT !.rec[v].reg = 0], p |-> s.rec[v].reg]
          ELSE PopFreePerm(rest, chunk)
AllocPermVar(s, v, chunk) ==
  LET f == PopFreePerm(s, chunk)
      p == IF f.p > 0 THEN f.p ELSE f.s.perm_lb
  IN [f.s EXCEPT !.perm_lb = IF f.p > 0 THEN @ ELSE @ + 1,
                 !.rec[v].reg = p, !.rec[v].pending = FALSE, !.rec[v].shallow = TRUE, !.rec[v].deep = TRUE]
FreeVar(s, chunk, v) ==
  IF s.rec[v].kind # "y" THEN s
  ELSE [s EXCEPT !.rec[v].pending = TRUE, !.perm_free = Append(@, [chunk |-> chunk, v |-> v])]

---------------------------------------------------------------------------
(* Marking: a term gets its register, and the instruction that fills it is
   emitted.  An unsafe value is one that may refer to the environment.       *)
ArgInstr(op, t, r, k) == [op |-> op, t |-> t, r |-> r, k |-> k]
SubInstr(op, t, r) == [op |-> op, t |-> t, r |-> r]

MarkSafeVarUnconditionally(s, v) == [s EXCEPT !.rec[v].deep = FALSE, !.rec[v].shallow = FALSE]
MarkSafeVar(s, v, lvl, ctx) ==
  CASE s.rec[v].kind = "x" -> [s EXCEPT !.rec[v].deep = FALSE]
    [] s.rec[v].kind = "y" /\ lvl = "deep" -> MarkSafeVarUnconditionally(s, v)
    [] s.rec[v].kind = "y" /\ lvl = "shallow" /\ ctx.type = "head" -> [s EXCEPT !.rec[v].shallow = FALSE]
    [] OTHER -> s
ArgumentToValue(s, v, r, k, t) ==
  IF r.kind = "y" /\ s.tail /\ s.rec[v].shallow
  THEN [Emit(s, ArgInstr("arg_unsafe_value", t, r, k)) EXCEPT !.rec[v].shallow = FALSE]
  ELSE Emit(s, ArgInstr("arg_value", t, r, k))
SubtermToValue(s, v, r, t) ==
  IF s.rec[v].deep
  THEN [Emit(s, SubInstr("sub_local_value", t, r)) EXCEPT !.rec[v].deep = FALSE]
  ELSE Emit(s, SubInstr("sub_value", t, r))

EvacuateIfLast(s, ctx) == IF ctx.type = "last" THEN EvacuateArg(s, ctx.num) ELSE s
AdvanceArg(s) == [s EXCEPT !.arg_c = @ + 1]
MarkAnonVar(s, ctx, t) ==
  LET a == AllocRegToNonVar(s)
  IN AdvanceArg(Emit(EvacuateIfLast(a.s, ctx), ArgInstr("arg_variable", t, X(a.r), s.arg_c)))
MarkNonVar(s, lvl, ctx, at) ==
  LET a == AllocRegToNonVar(s)
  IN CASE lvl = "shallow" -> [AdvanceArg(EvacuateIfLast(s, ctx)) EXCEPT !.cells = Put(@, at, s.arg_c)]
       [] lvl = "deep" /\ at \in DOMAIN s.cells -> [s EXCEPT !.in_use = @ \cup {s.cells[at]}]
       [] OTHER -> [a.s EXCEPT !.cells = Put(@, at, a.r)]

AllocRegToVar(s, v, lvl, ctx) ==
  IF lvl = "shallow" /\ ctx.type \in {"head", "last"}
  THEN LET e == EvacuateArg(s, ctx.num) IN [s |-> e, r |-> AllocWithCr(e, v)]
  ELSE [s |-> s, r |-> AllocWithCa(s, v)]
InPlace(s, v, ctx, r, k) == r = X(k) /\ (ctx.type = "head" \/ s.rec[v].reg = k)
IsCurrArgDistinctFrom(s, v) == s.arg_c \in DOMAIN s.map /\ s.map[s.arg_c] # v
OccursShallowlyInHead(s, v, r) ==
  s.rec[v].kind = "x" /\ s.rec[v].loc = HeadContext
  /\ \E i \in 1..Len(s.rec[v].use) : s.rec[v].use[i] = [ctx |-> HeadContext, reg |-> r.n]
MarkReservedVar(s, v, lvl, ctx, t, r, new) ==
  LET k == s.arg_c
      moved == IF IsCurrArgDistinctFrom(s, v) THEN EvacuateArg(s, ctx.num) ELSE s
      shallow == CASE InPlace(moved, v, ctx, r, k) -> moved
                   [] ~InPlace(moved, v, ctx, r, k) /\ new ->
                        Emit(MarkSafeVar(moved, v, lvl, ctx), ArgInstr("arg_variable", t, r, k))
                   [] OTHER -> ArgumentToValue(moved, v, r, k, t)
      deep == IF new /\ ~(ctx.type = "head" /\ OccursShallowlyInHead(s, v, r))
              THEN Emit(MarkSafeVar(s, v, lvl, ctx), SubInstr("sub_variable", t, r))
              ELSE SubtermToValue(s, v, r, t)
      placed == IF lvl = "shallow" THEN AdvanceArg(shallow) ELSE deep
      mapped == [placed EXCEPT !.map = IF r.kind = "x" THEN Put(@, r.n, v) ELSE @,
                               !.rec[v].reg = r.n, !.in_use = @ \cup {r.n}]
  IN IF mapped.rec[v].run < mapped.rec[v].num THEN [mapped EXCEPT !.rec[v].run = @ + 1]
     ELSE FreeVar(mapped, ctx.num, v)
MarkVar(s, v, lvl, ctx, t) ==
  LET b == Binding(s, v)
      a == AllocRegToVar(s, v, lvl, ctx)
      p == AllocPermVar(s, v, ctx.num)
  IN CASE b = X(0) -> MarkReservedVar(a.s, v, lvl, ctx, t, X(a.r), TRUE)
       [] b = Reg("y", 0) -> MarkReservedVar(p, v, lvl, ctx, t, Binding(p, v), TRUE)
       [] b.kind = "y" /\ b.n > 0 ->
            MarkReservedVar(IF s.rec[v].pending
                            THEN [s EXCEPT !.rec[v].pending = FALSE, !.rec[v].shallow = TRUE, !.rec[v].deep = TRUE]
                            ELSE s, v, lvl, ctx, t, b, s.rec[v].pending)
       [] OTHER -> MarkReservedVar(s, v, lvl, ctx, t, b, FALSE)
MarkCutVar(s, v, chunk) ==
  LET a == AllocRegToNonVar(s)
  IN CASE Binding(s, v) = Reg("y", 0) -> AllocPermVar(s, v, chunk)
       [] Binding(s, v) = X(0) -> [a.s EXCEPT !.rec[v].reg = a.r, !.rec[v].deep = FALSE]
       [] OTHER -> s
(* The register in which an inlined goal finds a variable. *)
MarkNonCallable(s, v, arg, ctx) ==
  LET b == Binding(s, v)
      m == MarkVar(s, v, "shallow", ctx, "query")
      counted == [s EXCEPT !.rec[v].run = @ + 1]
  IN CASE b.kind = "x" /\ b.n # 0 -> [s |-> s, r |-> b]
       [] b.kind = "y" /\ b.n # 0 /\ ctx.type = "last" -> [s |-> m, r |-> X(arg)]
       [] b.kind = "y" /\ b.n # 0 /\ ctx.type # "last" -> [s |-> IF s.rec[v].pending THEN m ELSE counted, r |-> b]
       [] OTHER -> [s |-> m, r |-> Binding(m, v)]

---------------------------------------------------------------------------
(* Code generation. *)
AddOrIncrementVoid(s, t) ==
  IF s.code # <<>> /\ Last(s.code).op = "void" /\ Last(s.code).t = t
  THEN [s EXCEPT !.code = Front(@) \o <<[Last(@) EXCEPT !.n = @ + 1]>>]
  ELSE Emit(s, [op |-> "void", t |-> t, n |-> 1])
DeepVarInstr(s, v, ctx, t) ==
  IF s.rec[v].num > 1 THEN MarkVar(s, v, "deep", ctx, t) ELSE AddOrIncrementVoid(s, t)
SubtermToInstr(s, item, ctx, t) ==
  CASE item.term.k = "anon" -> AddOrIncrementVoid(s, t)
    [] item.term.k = "lit" -> Emit(s, [op |-> "sub_constant", t |-> t, c |-> item.term.c])
    [] item.term.k = "var" -> DeepVarInstr(s, item.term.v, ctx, t)
    [] OTHER -> LET m == MarkNonVar(s, "deep", ctx, item.at)
                IN Emit(m, SubInstr(IF t = "fact" THEN "sub_variable" ELSE "sub_value", t, X(m.cells[item.at])))
StructureRegs(s, items) == LET strs == SelectSeq(items, LAMBDA i : i.term.k = "str")
                           IN [i \in 1..Len(strs) |-> s.cells[strs[i].at]]
CompileStructure(s, item, ctx, t) ==
  LET m == MarkNonVar(s, item.lvl, ctx, item.at)
      r == m.cells[item.at]
      e == Emit(m, [op |-> "structure", t |-> t, f |-> item.term.f, n |-> Len(item.term.args), r |-> X(r)])
      freed == IF t = "fact" THEN AddRegToFreeList(e, r) ELSE e
      args == FoldLeft(LAMBDA acc, i : SubtermToInstr(acc, i, ctx, t), freed, Children(item))
  IN IF t = "fact" THEN args ELSE FoldLeft(AddRegToFreeList, args, StructureRegs(args, Children(item)))
CompileItem(s, item, ctx, t) ==
  CASE item.term.k = "str" -> CompileStructure(s, item, ctx, t)
    [] item.term.k = "anon" /\ item.lvl = "shallow" ->
         IF ctx.type = "head" THEN AdvanceArg(s) ELSE MarkAnonVar(s, ctx, t)
    [] item.term.k = "lit" /\ item.lvl = "shallow" ->
         LET m == MarkNonVar(s, "shallow", ctx, item.at)
         IN Emit(m, [op |-> "constant", t |-> t, c |-> item.term.c, r |-> X(m.cells[item.at])])
    [] item.term.k = "var" /\ item.lvl = "shallow" -> MarkVar(s, item.term.v, "shallow", ctx, t)
    [] OTHER -> s
CompileTarget(s, items, ctx, t) == FoldLeft(LAMBDA acc, i : CompileItem(acc, i, ctx, t), [s EXCEPT !.cells = <<>>], items)

(* An arithmetic expression is compiled over a stack of operands; its
   intermediate results live in registers.                                  *)
InReg(r) == [k |-> "reg", r |-> r]
Interm(n) == [k |-> "interm", r |-> X(n)]
Number(c) == [k |-> "num", c |-> c]
TryAddToFreeList(s, a) == IF a.k = "interm" THEN AddRegToFreeList(s, a.r.n) ELSE s
InstrFromClause(acc, item) ==
  LET n == Len(item.term.args)
      t == acc.s.cells[item.at]
      operands == SubSeq(acc.st, Len(acc.st) - n + 1, Len(acc.st))
  IN [s |-> Emit(FoldLeft(TryAddToFreeList, acc.s, operands),
                 [op |-> "arith", f |-> item.term.f, args |-> operands, n |-> t]),
      st |-> Append(SubSeq(acc.st, 1, Len(acc.st) - n), Interm(t))]
CompileDeepOperand(s, v, ctx) ==
  LET m == MarkVar(s, v, "deep", ctx, "query")
  IN IF Binding(s, v).n = 0 THEN [s |-> m, r |-> Binding(m, v)]
     ELSE [s |-> [s EXCEPT !.rec[v].run = @ + 1], r |-> Binding(s, v)]
CompileIs(s, term, ctx, arg) ==
  LET Step(acc, item) ==
        CASE item.term.k = "lit" -> [acc EXCEPT !.st = Append(@, Number(item.term.c))]
          [] item.term.k = "var" ->
               LET m == IF item.lvl = "shallow" THEN MarkNonCallable(acc.s, item.term.v, arg, ctx)
                        ELSE CompileDeepOperand(acc.s, item.term.v, ctx)
               IN [s |-> m.s, st |-> Append(acc.st, InReg(m.r))]
          [] OTHER -> InstrFromClause([acc EXCEPT !.s = MarkNonVar(@, item.lvl, ctx, item.at)], item)
      out == FoldLeft(Step, [s |-> s, st |-> <<>>], PostOrder(<<Item(term, "shallow", <<arg>>)>>))
  IN [s |-> out.s, at |-> Last(out.st)]

(* In tail position the environment is discarded before the last goal. *)
AddCall(s, instr, allocates) ==
  Emit(IF s.tail /\ allocates THEN Emit(s, [op |-> "deallocate"]) ELSE s,
       [op |-> "goal", tail |-> s.tail] @@ instr)
CompileCompare(s, goal, ctx, allocates) ==
  LET l == CompileIs(ResetArg(s, 2), goal.args[1], ctx, 1)
      r == CompileIs(l.s, goal.args[2], ctx, 2)
  IN AddCall(r.s, [g |-> "cmp", name |-> goal.name, args |-> <<l.at, r.at>>], allocates)
(* Type tests of anything but a variable are decided by the compiler. *)
StaticTest(name, term) ==
  CASE name = "atom" -> term.k = "lit" /\ term.c.type = "atom"
    [] name = "atomic" -> term.k = "lit"
    [] name = "compound" -> term.k = "str"
    [] name = "rational" -> term.k = "lit" /\ term.c.type \in {"rational", "integer"}
    [] name = "float" -> term.k = "lit" /\ term.c.type = "float"
    [] name = "number" -> term.k = "lit" /\ term.c.type \in {"rational", "integer", "float"}
    [] name = "nonvar" -> term.k # "anon"
    [] name = "integer" -> term.k = "lit" /\ term.c.type = "integer"
    [] name = "var" -> term.k = "anon"
CompileTest(s, goal, ctx, allocates) ==
  LET m == MarkNonCallable(ResetArg(s, 1), goal.args[1].v, 1, ctx)
  IN IF goal.args[1].k = "var"
     THEN AddCall(m.s, [g |-> "test", name |-> goal.name, args |-> <<InReg(m.r)>>], allocates)
     ELSE AddCall(s, [g |-> "test", name |-> IF StaticTest(goal.name, goal.args[1]) THEN "$succeed" ELSE "$fail",
                      args |-> <<>>], allocates)
CompileIsCall(s, goal, ctx, allocates) ==
  LET left == goal.args[1]
      right == goal.args[2]
      start == ResetArg(s, 2)
      var == MarkSafeVarUnconditionally(MarkVar(start, left.v, "shallow", ctx, "query"), left.v)
      void == MarkAnonVar(start, ctx, "query")
      number == Emit(MarkNonVar(start, "shallow", ctx, <<1>>), [op |-> "constant", t |-> "query", c |-> left.c, r |-> X(1)])
      only == MarkSafeVarUnconditionally(MarkVar(void, right.v, "shallow", ctx, "query"), right.v)
      Is(m) == LET e == CompileIs(m, right, ctx, 2)
               IN AddCall(e.s, [g |-> "is", name |-> "is", args |-> <<InReg(X(1)), e.at>>], allocates)
  IN CASE left.k = "var" /\ s.rec[left.v].num > 1 -> Is(var)
       [] left.k = "var" /\ s.rec[left.v].num = 1 /\ ~(right.k = "var" /\ s.rec[right.v].num > 1) -> Is(void)
       [] left.k = "var" /\ s.rec[left.v].num = 1 /\ right.k = "var" /\ s.rec[right.v].num > 1 ->
            AddCall(only, [g |-> "is", name |-> "$get_number", args |-> <<InReg(Binding(only, right.v))>>], allocates)
       [] left.k = "lit" /\ left.c.type # "atom" -> Is(number)
       [] OTHER -> Emit(s, [op |-> "goal", tail |-> FALSE, g |-> "is", name |-> "$fail", args |-> <<>>])
CompileQueryLine(s, goal, ctx, allocates) ==
  AddCall(CompileTarget(ResetArg(s, Len(goal.args)), PostOrder(Arguments(goal.args, <<>>)), ctx, "query"),
          [g |-> "call", name |-> goal.name, args |-> [i \in 1..Len(goal.args) |-> InReg(X(i))]], allocates)
CompileCut(s, chunk, allocates) ==
  LET c == Emit(s, IF chunk = 0 THEN [op |-> "neck_cut"] ELSE [op |-> "cut", r |-> Binding(s, CutVar)])
  IN IF s.tail THEN Emit(IF allocates THEN Emit(c, [op |-> "deallocate"]) ELSE c, [op |-> "proceed"]) ELSE c
CompileGoal(s, goal, ctx, allocates) ==
  CASE goal.g = "cut" -> CompileCut(s, ctx.num, allocates)
    [] goal.g = "is" -> CompileIsCall([s EXCEPT !.cells = <<>>], goal, ctx, allocates)
    [] goal.g = "cmp" -> CompileCompare([s EXCEPT !.cells = <<>>], goal, ctx, allocates)
    [] goal.g = "test" -> CompileTest(s, goal, ctx, allocates)
    [] OTHER -> CompileQueryLine(s, goal, ctx, allocates)

CompileSeq(s, clause) ==
  LET chunks == Classify(clause).chunks
      n == Len(clause.body)
      level == IF NeedsLevel(s.rec)
               THEN LET m == MarkCutVar(s, CutVar, 0) IN Emit(m, [op |-> "get_level", r |-> Binding(m, CutVar)])
               ELSE s
      EndsChunk(i) == i = n \/ chunks[i + 1] # chunks[i]
      Step(acc, i) ==
        LET ctx == [type |-> IF EndsChunk(i) THEN "last" ELSE "mid", num |-> chunks[i]]
            g == CompileGoal([acc EXCEPT !.tail = (i = n)], clause.body[i], ctx, Allocates(clause))
        IN IF EndsChunk(i) THEN ResetContents([g EXCEPT !.tail = FALSE]) ELSE g
      out == FoldLeft(Step, level, [i \in 1..n |-> i])
  IN IF Allocates(clause) THEN [out EXCEPT !.code = <<[op |-> "allocate"]>> \o @] ELSE out
CompileHead(clause) == CompileTarget(ResetAtHead(Allocator(VarData(clause)), clause.head),
                                     BreadthFirst(Arguments(clause.head, <<>>)), HeadContext, "fact")
CompileRule(clause) == CompileSeq([CompileHead(clause) EXCEPT !.free = <<>>], clause).code
CompileFact(clause) == Append(CompileHead(clause).code, [op |-> "proceed"])
CompileClause(clause) == IF clause.body = <<>> THEN CompileFact(clause) ELSE CompileRule(clause)
=============================================================================
