----------------------------- MODULE TermOrder -----------------------------
(***************************************************************************)
(* The standard order of terms as compare/3, sort/2, ==/2 and their like   *)
(* compute it: ParallelHeapIter walks two terms side by side and reports   *)
(* the first difference in pre-order.                                      *)
(***************************************************************************)
EXTENDS Unify

CONSTANT NameOrder  \* atoms in the order of their names

Less    == "<"
Equal   == "="
Greater == ">"

Compared(x, y) == IF x < y THEN Less ELSE IF x > y THEN Greater ELSE Equal

\* TermOrderCategory; a rational counts as an integer, other constants have none.
Unordered == 0
OrderCategory(h, c) ==
    CASE IsVar(c)       -> 1
      [] c.t = "flt"    -> 2
      [] c.t \in Exact  -> 3
      [] c.t = "atom"   -> IF c.v[2] > 0 THEN 5 ELSE 4
      [] c.t = "str"    -> IF At(h, c.v).v[2] = 0 THEN 4 ELSE 5
      [] IsCompound(c)  -> 5
      [] OTHER          -> Unordered

NameRank(n) == CHOOSE i \in DOMAIN NameOrder : NameOrder[i] = n

\* Arity, then name.
FunctorOrder(f, g) ==
    IF f[2] # g[2] THEN Compared(f[2], g[2]) ELSE Compared(NameRank(f[1]), NameRank(g[1]))

FunctorOf(h, c) == IF c.t = "str" THEN At(h, c.v).v ELSE Dot

\* What two compounds of one functor push, the last pair on top.  A string against a
\* list gives its first character and its rest.
Elements(h, c) ==
    CASE c.t = "str"  -> [i \in 1 .. At(h, c.v).v[2] |-> At(h, c.v + i)]
      [] c.t = "lis"  -> <<At(h, c.v), At(h, c.v + 1)>>
      [] c.t = "pstr" -> <<AtomCell(CharAt(h, c.v)), SuccCell(h, c.v)>>

\* The pairs in the order they are met, first term first.
InStep(h, v1, v2) ==
    LET a == Elements(h, v1)
        b == Elements(h, v2)
    IN  [i \in 1 .. Len(a) |-> <<a[i], b[i]>>]

\* The same with the terms exchanged.
Exchanged(pairs) == [i \in DOMAIN pairs |-> <<pairs[i][2], pairs[i][1]>>]

\* Mutant: the tails before the heads.
TailsFirst(h, v1, v2) ==
    IF "pstr" \in {v1.t, v2.t} THEN Reverse(InStep(h, v1, v2)) ELSE InStep(h, v1, v2)

\* A string before a list is walked with the two exchanged, and so is what remains of
\* two strings.  (A structure './2' is always a list cell.)
TakenApart(h, v1, v2) ==
    CASE v1.t = "pstr" /\ v2.t = "lis" -> Exchanged(InStep(h, v1, v2))
      [] OTHER                         -> InStep(h, v1, v2)

\* ParallelHeapIter::next to its end, and compare_term_test on what it yields: pairs
\* still to visit, places already compared.
RECURSIVE CompareRest(_, _, _)
CompareRest(h, pairs, tabu) ==
    IF pairs = <<>> THEN Equal
    ELSE LET v1 == Value(h, <<>>, pairs[1][1])
             v2 == Value(h, <<>>, pairs[1][2])
             k1 == OrderCategory(h, v1)
             k2 == OrderCategory(h, v2)
             rest == Tail(pairs)
             Go(o) == IF o = Equal THEN CompareRest(h, rest, tabu) ELSE o
             Into(new) == CompareRest(h, new \o rest, tabu \cup {<<v1.v, v2.v>>})
             functors == FunctorOrder(FunctorOf(h, v1), FunctorOf(h, v2))
         IN  CASE k1 # k2         -> Compared(k1, k2)
               [] k1 \in {1, 2, 3} -> Go(Compared(v1.v, v2.v))
               [] k1 = 4          -> Go(Compared(NameRank(Label(h, v1)[1]),
                                                 NameRank(Label(h, v2)[1])))
               [] k1 = Unordered  -> IF v1 = v2 THEN CompareRest(h, rest, tabu) ELSE "none"
               [] k1 = 5 /\ <<v1.v, v2.v>> \in tabu -> CompareRest(h, rest, tabu)
               [] k1 = 5 /\ <<v1.v, v2.v>> \notin tabu ->
                    IF v1.t = "pstr" /\ v2.t = "pstr"
                    THEN LET r == CompareSegments(h, v1.v, v2.v)
                         IN  CASE r.res = "less"    -> Less
                               [] r.res = "greater" -> Greater
                               [] OTHER             -> Into(<<<<r.v2, r.v1>>>>)
                    ELSE IF functors # Equal THEN functors ELSE Into(TakenApart(h, v1, v2))

CompareTerms(h, r1, r2) == CompareRest(h, <<<<r1, r2>>>>, {})

-----------------------------------------------------------------------------
(* The order itself, on finite terms.                                      *)

RECURSIVE StandardOrder(_, _, _)
StandardOrder(h, a, b) ==
    LET k1 == OrderCategory(h, a)
        k2 == OrderCategory(h, b)
        f == FunctorOrder(Label(h, a), Label(h, b))
        x == ArgsOf(h, <<>>, a)
        y == ArgsOf(h, <<>>, b)
        by == [i \in DOMAIN x |-> StandardOrder(h, x[i], y[i])]
        differ == {i \in DOMAIN x : by[i] # Equal}
    IN  CASE k1 # k2           -> Compared(k1, k2)
          [] k1 \in {1, 2, 3}  -> Compared(a.v, b.v)
          [] OTHER             -> IF f # Equal THEN f
                                  ELSE IF differ = {} THEN Equal
                                  ELSE by[CHOOSE i \in differ : \A j \in differ : i <= j]

\* compare/3 gives the standard order.
InStandardOrder(h, r1, r2) ==
    CompareTerms(h, r1, r2) = StandardOrder(h, Value(h, <<>>, r1), Value(h, <<>>, r2))

=============================================================================
