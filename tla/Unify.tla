------------------------------- MODULE Unify -------------------------------
(***************************************************************************)
(* Unification.  unify_internal takes pairs of cells from the push-down    *)
(* list until it is empty or a pair clashes; a list of pairs already taken *)
(* apart (tabu_list) lets it end on cyclic terms.  The same loop runs in   *)
(* three modes that differ in how a variable is bound: plainly, with an    *)
(* occurs check that fails, with one that throws.                          *)
(*                                                                         *)
(* The state of one unification is a record; UnifyRound is the body of the *)
(* loop.  Heap cell 0 is the scratch cell of the occurs check.  The terms  *)
(* lie below hb and the stack variables below b, so every binding is       *)
(* trailed.                                                                *)
(***************************************************************************)
EXTENDS PartialString, FiniteSets

Modes == {"plain", "check", "error"}

IsVar(c)      == c.t \in {"var", "attr", "stack"}
IsCompound(c) == c.t \in {"str", "lis", "pstr"}
IsConstant(c) == ~IsVar(c) /\ ~IsCompound(c)

\* unify(A1, A2): the first popped is r1.
Unifying(heap, stack, r1, r2, mode) ==
    [heap |-> heap, stack |-> stack, pdl |-> <<r2, r1>>, tabu |-> {}, mode |-> mode,
     trail |-> <<>>, bindings |-> <<>>, fail |-> FALSE, thrown |-> FALSE, rounds |-> 0]

StoreIn(heap, stack, c) ==
    CASE c.t \in {"var", "attr"} -> At(heap, c.v)
      [] c.t = "stack"           -> stack[c.v + 1]
      [] OTHER                   -> c

RECURSIVE DerefIn(_, _, _)
DerefIn(heap, stack, c) ==
    LET v == StoreIn(heap, stack, c)
    IN  IF IsVar(v) /\ v # c THEN DerefIn(heap, stack, v) ELSE c

Store(u, c) == StoreIn(u.heap, u.stack, c)
Deref(u, c) == DerefIn(u.heap, u.stack, c)

Failed(u)      == [u EXCEPT !.fail = TRUE]
Check(u, ok)   == IF ok THEN u ELSE Failed(u)

\* A pair goes onto the list second cell first.
PushPair(u, x, y) == [u EXCEPT !.pdl = @ \o <<y, x>>]
\* Two argument blocks of n cells: the first arguments end up on top.
PushArgs(u, a1, a2, n) ==
    [u EXCEPT !.pdl = @ \o FlattenSeq([i \in 1 .. n |->
                              <<HeapVar(a2 + n - i), HeapVar(a1 + n - i)>>])]

-----------------------------------------------------------------------------
(* Binding.                                                                *)

\* The order of references: heap cells of either kind by address, before stack cells.
Precedes(a, r) ==
    IF a.t = "stack" THEN r.t = "stack" /\ a.v < r.v ELSE r.t = "stack" \/ a.v < r.v

SetHeap(u, r, v) ==
    [u EXCEPT !.heap[r.v + 1] = v, !.trail = Append(@, r)]
SetStack(u, r, v) ==
    [u EXCEPT !.stack[r.v + 1] = v, !.trail = Append(@, r)]

\* A plain variable is bound to an attributed one, never the reverse; any other binding
\* is recorded for verify_attributes (push_attr_var_binding).
BindAttrVar(u, h, v) ==
    CASE v.t = "var"   -> SetHeap(u, v, AttrVar(h))
      [] v.t = "stack" -> SetStack(u, v, AttrVar(h))
      [] OTHER         -> SetHeap([u EXCEPT !.bindings = Append(@, <<h, v>>)], AttrVar(h), v)

BindCell(u, r, v) ==
    CASE r.t = "stack" -> SetStack(u, r, v)
      [] r.t = "var"   -> SetHeap(u, r, v)
      [] r.t = "attr"  -> BindAttrVar(u, r.v, v)

\* MachineState::bind: of two variables the younger is bound.
BindPlain(u, r, v) ==
    LET t1 == Store(u, r)
        t2 == Store(u, v)
    IN  IF IsVar(t1) /\ (~IsVar(t2) \/ Precedes(v, r)) THEN BindCell(u, r, t2)
        ELSE BindCell(u, v, t1)

\* The cells stackful_preorder_iter visits from those in todo on.
RECURSIVE Visited(_, _, _)
Visited(u, todo, seen) ==
    LET At1(c) == CASE IsVar(c)     -> {Store(u, c)}
                    [] c.t = "str"  -> {At(u.heap, c.v + i) : i \in 1 .. At(u.heap, c.v).v[2]}
                    [] c.t = "lis"  -> {At(u.heap, c.v), At(u.heap, c.v + 1)}
                    [] c.t = "pstr" -> {At(u.heap, TailIdx(u.heap, c.v))}
                    [] OTHER        -> {}
        new == UNION {At1(c) : c \in todo} \ (seen \cup todo)
    IN  IF new = {} THEN seen \cup todo ELSE Visited(u, new, seen \cup todo)

Occurs(u, r, v) == r \in Visited(u, {v}, {})

\* Mutant: a string is searched no more than a constant.
BindCheckedShallow(u, r, v) ==
    IF r.t = "stack" \/ IsConstant(v) \/ v.t = "pstr" \/ ~Occurs([u EXCEPT !.heap[1] = v], r, v)
    THEN BindPlain(u, r, v) ELSE [u EXCEPT !.fail = TRUE, !.thrown = (u.mode = "error")]

\* bind_with_occurs_check: no heap term holds a stack variable; the value is put into
\* the scratch cell to be searched.
BindChecked(u, r, v) ==
    LET w == IF IsConstant(v) THEN u ELSE [u EXCEPT !.heap[1] = v]
    IN  IF r.t = "stack" THEN BindPlain(u, r, v)
        ELSE IF ~IsConstant(v) /\ Occurs(w, r, v)
             THEN [w EXCEPT !.fail = TRUE, !.thrown = (u.mode = "error")]
             ELSE BindPlain(w, r, v)

Bind(u, r, v) == IF u.mode = "plain" THEN BindPlain(u, r, v) ELSE BindChecked(u, r, v)

-----------------------------------------------------------------------------
(* One pair.                                                               *)

NameArity(u, s) == At(u.heap, s).v

Dot == <<".", 2>>

UnifyStructure(u, d1, d2) ==
    LET na == NameArity(u, d1.v)
    IN  CASE d2.t = "str"  -> IF NameArity(u, d2.v) = na
                              THEN PushArgs(u, d1.v + 1, d2.v + 1, na[2]) ELSE Failed(u)
          [] d2.t = "lis"  -> IF na = Dot THEN PushArgs(u, d1.v + 1, d2.v + 1, 2) ELSE Failed(u)
          [] d2.t = "atom" -> Check(u, na = d2.v)
          [] IsVar(d2)     -> Bind(u, d2, d1)
          [] OTHER         -> Failed(u)

\* partial_string_to_pdl: the first character and the rest against a list's cells.
StringToPdl(u, p, l) ==
    PushPair(PushPair(u, SuccCell(u.heap, p), HeapVar(l + 1)),
             AtomCell(CharAt(u.heap, p)), HeapVar(l))

UnifyPartialString(u, d1, d2) ==
    CASE IsVar(d2)     -> Bind(u, d2, d1)
      [] d2.t = "str"  -> IF NameArity(u, d2.v) = Dot THEN StringToPdl(u, d1.v, d2.v + 1)
                          ELSE Failed(u)
      [] d2.t = "lis"  -> StringToPdl(u, d1.v, d2.v)
      [] d2.t = "pstr" -> LET r == CompareSegments(u.heap, d1.v, d2.v)
                          IN  IF r.res = "continue" THEN PushPair(u, r.v2, r.v1) ELSE Failed(u)
      [] OTHER         -> Failed(u)

UnifyList(u, d1, d2) ==
    CASE d2.t = "lis"  -> PushArgs(u, d1.v, d2.v, 2)
      [] d2.t = "str"  -> IF NameArity(u, d2.v) = Dot THEN PushArgs(u, d1.v, d2.v + 1, 2)
                          ELSE Failed(u)
      [] d2.t = "pstr" -> UnifyPartialString(u, d2, d1)
      [] IsVar(d2)     -> Bind(u, d2, d1)
      [] OTHER         -> Failed(u)

UnifyAtom(u, d1, d2) ==
    CASE d2.t = "atom" -> Check(u, d2 = d1)
      [] d2.t = "str"  -> Check(u, NameArity(u, d2.v) = d1.v)
      [] IsVar(d2)     -> Bind(u, d2, d1)
      [] OTHER         -> Failed(u)

\* Integers and rationals unify by value whatever their representation; a float only
\* with an equal float.
Exact == {"fix", "big", "rat"}
UnifyExactNumber(u, d1, d2) ==
    IF IsVar(d2) THEN Bind(u, d2, d1) ELSE Check(u, d2.t \in Exact /\ d2.v = d1.v)
UnifyFloat(u, d1, d2) ==
    IF IsVar(d2) THEN Bind(u, d2, d1) ELSE Check(u, d2 = d1)

\* A stream; as the first of the pair it also unifies with its alias.  (A pointer out
\* of the arena's range, which unify_constant takes for a heap index, does not arise
\* from this code.)
UnifyStream(u, d1, d2) ==
    CASE IsVar(d2)     -> Bind(u, d2, d1)
      [] d2.t = "atom" -> Check(u, d2 = AtomCell(d1.v))
      [] OTHER         -> Check(u, d2 = d1)

UnifyConstant(u, d1, d2) ==
    CASE d1.t = "stream" -> UnifyStream(u, d1, d2)
      [] OTHER           -> UnifyExactNumber(u, d1, d2)

\* Mutant: the pairs taken apart are not looked at.
NotTabu(u, d1, d2) == FALSE
InTabu(u, d1, d2) == <<d1, d2>> \in u.tabu

\* A compound is taken apart once for each partner.
Once(u, d1, d2, Apart(_, _, _)) ==
    IF InTabu(u, d1, d2) THEN u
    ELSE LET w == Apart(u, d1, d2)
         IN  IF w.fail THEN w ELSE [w EXCEPT !.tabu = @ \cup {<<d1, Store(w, d2)>>}]

UnifyPair(u, d1, d2) ==
    CASE IsVar(d1)               -> Bind(u, d1, d2)
      [] d1.t = "atom"           -> UnifyAtom(u, d1, d2)
      [] d1.t = "str"            -> Once(u, d1, d2, UnifyStructure)
      [] d1.t = "lis"            -> Once(u, d1, d2, UnifyList)
      [] d1.t = "pstr"           -> IF IsConstant(d2) THEN Failed(u)
                                    ELSE Once(u, d1, d2, UnifyPartialString)
      [] d1.t = "flt"            -> UnifyFloat(u, d1, d2)
      [] d1.t = "fix"            -> UnifyExactNumber(u, d1, d2)
      [] d1.t \in {"big", "rat", "stream"} -> UnifyConstant(u, d1, d2)

Finished(u) == u.pdl = <<>> \/ u.fail

\* String data taken for a cell: what the pair then is depends on its bytes.
Astray(u) ==
    \E i \in {0, 1} : ~Finished(u) /\ Store(u, Deref(u, u.pdl[Len(u.pdl) - i])).t = "bytes"

\* One turn of unify_internal's loop.
UnifyRound(u) ==
    LET n  == Len(u.pdl)
        s1 == Deref(u, u.pdl[n])
        s2 == Deref(u, u.pdl[n - 1])
        w  == [u EXCEPT !.pdl = SubSeq(@, 1, n - 2), !.rounds = @ + 1]
    IN  IF s1 = s2 THEN w ELSE UnifyPair(w, Store(u, s1), Store(u, s2))

-----------------------------------------------------------------------------
(* What unification is: the least congruence that makes the roots equal.   *)

Value(heap, stack, c) == StoreIn(heap, stack, DerefIn(heap, stack, c))

\* A term's principal functor and arguments; a string is the list it stands for.
Label(heap, n) ==
    CASE n.t = "str"           -> At(heap, n.v).v
      [] n.t \in {"lis", "pstr"} -> Dot
      [] n.t \in Exact         -> <<"number", n.v>>
      [] n.t = "atom"          -> n.v
      [] OTHER                 -> <<n.t, n.v>>
ArgsOf(heap, stack, n) ==
    LET Cell(c) == Value(heap, stack, c)
    IN  CASE n.t = "str" -> [i \in 1 .. At(heap, n.v).v[2] |-> Cell(At(heap, n.v + i))]
          [] n.t = "lis" -> <<Cell(At(heap, n.v)), Cell(At(heap, n.v + 1))>>
          [] n.t = "pstr" ->
               <<AtomCell(CharAt(heap, n.v)),
                 Cell(IF ByteAt(heap, After(heap, n.v)) = 0 THEN At(heap, TrueTail(heap, n.v))
                      ELSE PStrLoc(After(heap, n.v)))>>
          [] OTHER -> <<>>

RECURSIVE Subterms(_, _, _, _)
Subterms(heap, stack, todo, seen) ==
    LET new == UNION {Range(ArgsOf(heap, stack, n)) : n \in todo} \ (seen \cup todo)
    IN  IF new = {} THEN seen \cup todo ELSE Subterms(heap, stack, new, seen \cup todo)

\* The classes of the congruence, as a map from terms to a representative each.
RECURSIVE Congruence(_, _)
Congruence(args, class) ==
    LET apart == {t \in (DOMAIN args) \X (DOMAIN args) :
                    /\ class[t[1]] = class[t[2]] /\ Len(args[t[1]]) = Len(args[t[2]])
                    /\ \E i \in DOMAIN args[t[1]] : class[args[t[1]][i]] # class[args[t[2]][i]]}
        t == CHOOSE t \in apart : TRUE
        i == CHOOSE i \in DOMAIN args[t[1]] : class[args[t[1]][i]] # class[args[t[2]][i]]
        x == class[args[t[1]][i]]
        y == class[args[t[2]][i]]
    IN  IF apart = {} THEN class
        ELSE Congruence(args, [n \in DOMAIN class |-> IF class[n] = x THEN y ELSE class[n]])

\* No term of E is a proper part of itself: all can be removed, parts first.
RECURSIVE WellFounded(_, _)
WellFounded(E, parts) ==
    LET bare == {e \in E : parts[e] \cap E = {}}
    IN  E = {} \/ (bare # {} /\ WellFounded(E \ bare, parts))

\* The unification problem of r1 and r2 on a heap: its subterms, its classes, whether
\* two different functors meet in one, and whether a class is part of itself.
Problem(heap, stack, r1, r2) ==
    LET a == Value(heap, stack, r1)
        b == Value(heap, stack, r2)
        terms == Subterms(heap, stack, {a, b}, {})
        args == [n \in terms |-> ArgsOf(heap, stack, n)]
        class == Congruence(args, [n \in terms |-> IF n = a THEN b ELSE n])
        under == [n \in terms |-> Range(args[n])]
        classes == {class[n] : n \in terms}
        below == [k \in classes |->
                    {class[m] : m \in UNION {under[n] : n \in {x \in terms : class[x] = k}}}]
    IN  [clash |-> \E m, n \in terms : /\ class[m] = class[n] /\ ~IsVar(m) /\ ~IsVar(n)
                                       /\ Label(heap, m) # Label(heap, n),
         tree  |-> WellFounded(terms, under),
         finite |-> WellFounded(classes, below),
         free  |-> Cardinality(classes \ {class[n] : n \in {m \in terms : ~IsVar(m)}}),
         solved |-> \A m, n \in terms : m # n /\ class[m] = class[n] => ~IsVar(m) /\ ~IsVar(n),
         terms |-> terms]

\* The heap before: every trailed cell is a free variable again.
Undone(u) ==
    LET heap == FoldLeft(LAMBDA h, r : IF r.t = "stack" THEN h ELSE [h EXCEPT ![r.v + 1] = r],
                         u.heap, u.trail)
        stack == FoldLeft(LAMBDA s, r : IF r.t = "stack" THEN [s EXCEPT ![r.v + 1] = r] ELSE s,
                          u.stack, u.trail)
    IN  <<Tail(heap), stack>>

\* A finished unification of r1 and r2, from the given heap and stack.  It succeeds
\* exactly when no two functors clash and, with an occurs check on finite terms, no
\* variable would be part of its value, and only then throws; it leaves the two terms
\* equal and no variable bound for no reason; the trail restores every cell; and the
\* attributed variables it bound are those it reports.
ExactUnification(u, heap, stack, r1, r2) ==
    LET p == Problem(heap, stack, r1, r2)
        q == Problem(u.heap, u.stack, r1, r2)
    IN  /\ u.mode = "plain" => u.fail = p.clash
        /\ u.mode # "plain" /\ p.tree => u.fail = (p.clash \/ ~p.finite)
        /\ u.thrown => u.mode = "error" /\ ~p.finite
        /\ ~u.fail => /\ q.solved /\ ~q.clash
                      /\ Cardinality({n \in q.terms : IsVar(n)}) = p.free
        /\ Undone(u) = <<Tail(heap), stack>>
        /\ {b[1] : b \in Range(u.bindings)} = {r.v : r \in {x \in Range(u.trail) : x.t = "attr"}}

=============================================================================
