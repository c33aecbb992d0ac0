----------------------------- MODULE ClauseCode -----------------------------
(***************************************************************************)
(* How the loader edits the code of a predicate in place: asserting,       *)
(* retracting and rolling back clauses (src/machine/compile.rs), the       *)
(* switch tables that index them (src/indexing.rs) and the way the         *)
(* abstract machine runs the result (src/machine/dispatch.rs).             *)
(*                                                                         *)
(* A predicate is a record: its code, a sequence of instructions; ptr, the *)
(* code index entry (0: undefined); its skeleton (clauses, margin, locs,   *)
(* dead); undo, the retraction records of the load in progress.  Locations *)
(* and positions count from 1 here and from 0 in the code; the body of a   *)
(* clause is a single instruction.                                         *)
(***************************************************************************)
EXTENDS Integers, Sequences, SequencesExt, FiniteSetsExt

CONSTANTS Keys,         \* instantiated arguments a clause can have
          KeyType       \* Keys -> {"con", "str", "lst"}: which pointer of SwitchOnTerm

Unbound == "none"       \* the argument is a variable
KeyTypes == {"con", "str", "lst"}
ASSUME KeyTypeAssumption == KeyType \in [Keys -> KeyTypes] /\ Unbound \notin Keys

Infinity == 1000        \* Death::Infinity; no clock reaches it

----------------------------------------------------------------------------
(* Instructions *)

Try(o)   == [op |-> "try", o |-> o]
Retry(o) == [op |-> "retry", o |-> o]
Trust(o) == [op |-> "trust", o |-> o]
RevJmpBy(o) == [op |-> "revjmp", o |-> o]
Body(c) == [op |-> "body", id |-> c.id, fst |-> c.fst, snd |-> c.snd]
Else(op, clock, nf, o) == [op |-> op, birth |-> clock, death |-> Infinity, nf |-> nf, o |-> o]

Dynamic == {"else", "intelse"}
Op(p, i) == p.code[i].op
NextInstr(ins) == ins.op \in Dynamic /\ ins.nf = "next"

TryMeElse(p, o) == IF p.dyn THEN Else("else", p.clock, "next", o) ELSE Try(o)
InternalTryMeElse(p, o) == IF p.dyn THEN Else("intelse", p.clock, "next", o) ELSE Try(o)
TrustMe(p) == IF p.dyn THEN Else("else", p.clock, "fail", 0) ELSE Trust(0)
InternalTrustMe(p) == IF p.dyn THEN Else("intelse", p.clock, "fail", 0) ELSE Trust(0)

(* A clause, or a call, has a first and a second argument.  A clause is indexed on
   the first of them that is instantiated: OptArgIndexKey and its arg_num, 0 for
   None.                                                                      *)
ArgNum(c) == CASE c.fst # Unbound -> 1
               [] c.fst = Unbound /\ c.snd # Unbound -> 2
               [] OTHER -> 0
ArgAt(c, n) == IF n = 1 THEN c.fst ELSE c.snd
Key(c) == ArgAt(c, ArgNum(c))
IsIndexed(c) == ArgNum(c) # 0

(* The pointers of SwitchOnTerm: nothing, one list of clause offsets reached
   by every constant (structure), or a list for each constant (structure).   *)
FailPtr == [t |-> "fail"]
SeqPtr(s) == IF s = <<>> THEN FailPtr ELSE [t |-> "seq", s |-> s]
SwitchPtr(m) == IF DOMAIN m = {} THEN FailPtr ELSE [t |-> "switch", m |-> m]

(* The bodies of the clauses cs of a subsequence lie 2, 4, ... instructions
   after its switch.  index_term: those whose key is in K *)
IndexTerm(cs, K) ==
  LET at == SetToSortSeq({j \in DOMAIN cs : Key(cs[j]) \in K}, <)
  IN  [j \in DOMAIN at |-> 2 * at[j]]

(* switch_on: a second switch only where several constants (structures) differ *)
SwitchOn(cs, K) ==
  IF Cardinality(K) < 2 THEN SeqPtr(IndexTerm(cs, K))
  ELSE SwitchPtr([k \in K |-> IndexTerm(cs, {k})])
SwitchOnList(cs, K) == SeqPtr(IndexTerm(cs, K))

(* compute_indices *)
SwitchOnTerm(cs, v) ==
  LET keys(t) == {Key(cs[j]) : j \in DOMAIN cs} \cap {k \in Keys : KeyType[k] = t}
  IN  [op |-> "switch", arg |-> ArgNum(cs[1]), v |-> v,
       tbl |-> [t \in KeyTypes |-> IF t = "lst" THEN SwitchOnList(cs, keys(t)) ELSE SwitchOn(cs, keys(t))]]

----------------------------------------------------------------------------
(* Edits, each with the record that undoes it *)

Put(p, i, ins, rec) == [p EXCEPT !.code[i] = ins, !.undo = Append(@, rec)]
SetOffset(p, i, o) == [p.code[i] EXCEPT !.o = o]
Rec(p, rec) == [p EXCEPT !.undo = Append(@, rec)]

R(k, i, x) == [k |-> k, i |-> i, x |-> x]

SetSwitchVarOffset(p, loc, v) ==
  Put(p, loc, [p.code[loc] EXCEPT !.v = v], R("SwitchOnTermVarIndex", loc, p.code[loc].v))

SetSwitchVarOffsetToChoiceInstr(p, loc, v) ==
  IF Op(p, loc + p.code[loc].v) \in {"try"} \cup Dynamic THEN p
  ELSE SetSwitchVarOffset(p, loc, v)

SetCodeIndex(p, ptr) == [Rec(p, R("ReplacedPredicate", 0, p.ptr)) EXCEPT !.ptr = ptr]

(* derelictize_try_me_else: the offset it cuts off (0: None) *)
DerelictOffset(p, i) ==
  LET ins == p.code[i] IN IF ins.op = "try" \/ NextInstr(ins) THEN ins.o ELSE 0
Derelictize(p, i) ==
  IF DerelictOffset(p, i) = 0 THEN p
  ELSE Put(p, i, SetOffset(p, i, 0),
           R(IF Op(p, i) = "try" THEN "TryMeElse" ELSE "DynamicElseOffset", i, p.code[i].o))

RECURSIVE FindInner(_, _, _)
FindInner(p, i, loc) ==
  LET ins == p.code[i] IN
  CASE ins.op \in {"try", "retry"} -> IF ins.o > 0 THEN i ELSE FindInner(p, loc, loc)
    [] ins.op = "else" -> IF ins.nf = "next" /\ ins.o > 0 THEN i ELSE FindInner(p, loc, loc)
    [] ins.op = "intelse" -> IF ins.nf = "fail" \/ ins.o > 0 THEN i ELSE FindInner(p, loc, loc)
    [] ins.op = "trust" -> i
    [] ins.op = "switch" ->
         LET t == i + ins.v IN
         IF p.dyn /\ Op(p, t) = "intelse" /\ NextInstr(p.code[t]) /\ p.code[t].o = 0 THEN t
         ELSE FindInner(p, t, loc)
    [] ins.op = "revjmp" -> FindInner(p, i - ins.o, loc)
    [] OTHER -> i - 1

RECURSIVE FindOuter(_, _)
FindOuter(p, i) ==
  IF NextInstr(p.code[i]) /\ p.code[i].o > 0 THEN FindOuter(p, i + p.code[i].o) ELSE i

FindDynamicOuter(p, loc) == loc + p.code[loc].v - 2

RECURSIVE ThreadTo(_, _, _)
ThreadTo(p, i, target) ==
  LET ins == p.code[i]
      forward == target >= i
      next == SetOffset(p, i, target - i)
  IN
  CASE ins.op \in {"try", "retry"} /\ forward -> Put(p, i, next, R("ChoiceOffset", i, ins.o))
    [] NextInstr(ins) /\ forward -> Put(p, i, next, R("DynamicElseOffset", i, ins.o))
    [] ins.op \in {"try", "retry"} \/ NextInstr(ins) -> ThreadTo(p, i + ins.o, target)
    [] ins.op = "revjmp" /\ i >= target ->
         Put(p, i, SetOffset(p, i, i - target), R("RevJmpBy", i, ins.o))
    [] ins.op = "revjmp" -> ThreadTo(p, i - ins.o, target)
    [] ins.op \in Dynamic /\ forward ->
         Put(p, i, [next EXCEPT !.nf = "next"], R("NextOrFail", i, <<"fail", ins.o>>))
    [] ins.op = "trust" /\ forward -> Put(p, i, Retry(target - i), R("TrustMe", i, ins.o))
    [] ins.op \in Dynamic \cup {"trust"} /\ ins.o > 0 -> ThreadTo(p, i + ins.o, target)

(* internalize_choice_instr_at: a leading choice instruction loses its lead *)
Internalize(p, i) ==
  LET ins == p.code[i]
      stubNext == p.code[i + ins.o] = RevJmpBy(0)
      last == ins.o = 0 \/ stubNext
  IN
  CASE ins.op \in Dynamic /\ ins.nf = "fail" -> p
    [] ins.op \in Dynamic ->
         Put(p, i, [ins EXCEPT !.nf = IF last THEN "fail" ELSE "next"],
             IF ins.op = "else" /\ ins.o > 0 THEN R("NextOrFail", i, <<"next", ins.o>>)
             ELSE R("DynamicElseOffset", i, ins.o))
    [] ins.op = "try" ->
         Put(p, i, IF last THEN Trust(ins.o) ELSE Retry(ins.o), R("TryMeElse", i, ins.o))

(* blunt_leading_choice_instr: a later choice instruction takes the lead; the
   location to start from *)
RECURSIVE BluntLoc(_, _)
BluntLoc(p, i) ==
  LET ins == p.code[i] IN
  CASE ins.op \in {"retry", "trust"} \cup Dynamic -> i
    [] ins.op = "try" -> IF ins.o = 0 THEN i ELSE BluntLoc(p, i + ins.o)
    [] ins.op = "revjmp" -> BluntLoc(p, i - ins.o)
Blunt(p, i) ==
  LET l == BluntLoc(p, i)
      ins == p.code[l]
  IN
  CASE ins.op = "retry" -> Put(p, l, Try(ins.o), R("RetryMeElse", l, ins.o))
    [] ins.op = "trust" -> Put(p, l, Try(0), R("TrustMe", l, ins.o))
    [] ins.op \in Dynamic /\ ins.nf = "fail" ->
         Put(p, l, [ins EXCEPT !.nf = "next", !.o = 0], R("NextOrFail", l, <<"fail", ins.o>>))
    [] OTHER -> p
(* the location it returns: past a lone Try(0) *)
BluntPtr(p, i) ==
  LET l == BluntLoc(p, i) IN
  IF Op(p, l) = "trust" \/ p.code[l] = Try(0) THEN l + 1 ELSE l
----------------------------------------------------------------------------
(* Switch tables *)

(* search_skeleton_for_first_key_type: the key a pointer without a switch stands for *)
FirstKey(p, slice, type, append) ==
  LET same(seq) == SelectSeq(seq, LAMBDA c : IsIndexed(c) /\ KeyType[Key(c)] = type)
      live == same(slice)
      dead == same(p.dead)
  IN  CASE live # <<>> -> {Key(IF append THEN Last(live) ELSE Head(live))}
        [] live = <<>> /\ dead # <<>> -> {Key(Last(dead))}
        [] OTHER -> {}

(* internalize_constant, internalize_structure: the switch a pointer without one becomes *)
Internalized(ptr, first) == IF ptr.t = "switch" THEN ptr.m ELSE [k \in first |-> ptr.s]

(* extend_indexed_choice and the making of a choice from a single clause *)
ExtendIndexedChoice(s, off, append) == IF append THEN Append(s, off) ELSE <<off>> \o s

IndexConstant(ptr, first, key, off, append) ==
  LET m == Internalized(ptr, first) IN
  IF ptr.t = "fail" THEN SeqPtr(<<off>>)
  ELSE SwitchPtr([k \in DOMAIN m \cup {key} |->
         IF k # key THEN m[k]
         ELSE ExtendIndexedChoice(IF k \in DOMAIN m THEN m[k] ELSE <<>>, off, append)])
IndexStructure(ptr, first, key, off, append) == IndexConstant(ptr, first, key, off, append)
IndexList(ptr, off, append) ==
  SeqPtr(ExtendIndexedChoice(IF ptr.t = "fail" THEN <<>> ELSE ptr.s, off, append))

(* merge_clause_index: slice is the part of the skeleton searched, without the
   new clause; at is the location of its choice instruction *)
MergeClauseIndex(p, loc, slice, key, at, append) ==
  LET type == KeyType[key]
      off == at - loc + 1
      ptr == p.code[loc].tbl[type]
      first == FirstKey(p, slice, type, append)
  IN  [p EXCEPT !.code[loc].tbl[type] =
         CASE type = "con" -> IndexConstant(ptr, first, key, off, append)
           [] type = "str" -> IndexStructure(ptr, first, key, off, append)
           [] type = "lst" -> IndexList(ptr, off, append)]

(* Mutant of Without: a list of several clauses keeps the retracted one *)
WithoutLast(s, off) == IF Len(s) = 1 THEN <<>> ELSE s
(* remove_instruction_with_offset: the last clause of a list goes whatever its offset *)
Without(s, off) ==
  IF Len(s) = 1 THEN <<>> ELSE IF off \in Range(s) THEN Remove(s, off) ELSE s

RemoveConstantIndex(ptr, key, off) ==
  LET drop(m) == [k \in {k \in DOMAIN m : k # key \/ Without(m[k], off) # <<>>} |->
                    IF k = key THEN Without(m[k], off) ELSE m[k]]
  IN  CASE ptr.t = "seq" -> SeqPtr(Without(ptr.s, off))
        [] ptr.t = "switch" -> SwitchPtr(drop(ptr.m))
        [] OTHER -> ptr
RemoveStructureIndex(ptr, key, off) == RemoveConstantIndex(ptr, key, off)
RemoveListIndex(ptr, off) == IF ptr.t = "seq" THEN SeqPtr(Without(ptr.s, off)) ELSE ptr

RemoveIndex(p, loc, key, off) ==
  LET type == KeyType[key]
      ptr == p.code[loc].tbl[type]
  IN  [p EXCEPT !.code[loc].tbl[type] =
         CASE type = "con" -> RemoveConstantIndex(ptr, key, off)
           [] type = "str" -> RemoveStructureIndex(ptr, key, off)
           [] type = "lst" -> RemoveListIndex(ptr, off)]

RemoveIndexFromSubsequence(p, c, start) ==
  IF ~IsIndexed(c) THEN p
  ELSE LET off == FindInner(p, start, c.loc) - c.loc + 1
       IN  Rec(RemoveIndex(p, c.loc, Key(c), off), R("RemovedIndex", c.loc, off))

----------------------------------------------------------------------------
(* Asserting *)

(* A clause to be compiled is [id, fst, snd]: its number, its first argument
   and its second; the skeleton adds start and loc (the switch).             *)
Placed(c, start, loc) == [id |-> c.id, fst |-> c.fst, snd |-> c.snd, start |-> start, loc |-> loc]

(* slice::partition_point on a partitioned slice *)
PartitionPoint(seq, Test(_)) == Len(SelectSeq(seq, Test))

LowerBound(p, target) ==
  LET prev == p.clauses[target - 1]
      front == SubSeq(p.clauses, 1, p.margin)
      back == SubSeq(p.clauses, p.margin + 1, Len(p.clauses))
      above(c) == c.start > prev.loc
      below(c) == c.start < prev.loc
      n == PartitionPoint(front, above)
      found == IF ~IsIndexed(prev) THEN target - 1
               ELSE IF n < p.margin THEN n + 1
               ELSE p.margin + PartitionPoint(back, below) + 1
  IN  IF target = 1 THEN 1
      ELSE IF found > Len(p.clauses) - 1 THEN Len(p.clauses) - 1 ELSE found

(* compile_pred_subseq: an unindexed clause, or the switch, the inner choice
   instructions and the bodies of indexed ones *)
Subsequence(p, cs) ==
  LET n == Len(cs)
      inner(j) == CASE n = 1 -> InternalTryMeElse(p, 0)
                    [] n > 1 /\ j = 1 -> InternalTryMeElse(p, 2)
                    [] j > 1 /\ j = n -> InternalTrustMe(p)
                    [] OTHER -> IF p.dyn THEN InternalTryMeElse(p, 2) ELSE Retry(2)
  IN  IF ~IsIndexed(cs[1]) THEN <<Body(cs[1])>>
      ELSE <<SwitchOnTerm(cs, IF p.dyn \/ n > 1 THEN 1 ELSE 2)>>
           \o FlattenSeq([j \in 1 .. n |-> <<inner(j), Body(cs[j])>>])

(* split_predicate: where the subsequences begin.  The clauses of one are indexed
   on the same argument; an unindexed clause is alone.                        *)
Splits(cs) ==
  {j \in DOMAIN cs : j = 1 \/ ~IsIndexed(cs[j]) \/ ArgNum(cs[j]) # ArgNum(cs[j - 1])}

SpansFrom(cs, lefts) ==
  [k \in DOMAIN lefts |->
     SubSeq(cs, lefts[k], IF k = Len(lefts) THEN Len(cs) ELSE lefts[k + 1] - 1)]
Spans(cs) == SpansFrom(cs, SetToSortSeq(Splits(cs), <))

(* compile_predicate: at is the location of the first instruction, subs the code
   of the subsequences *)
PlacedFrom(span, begin) ==
  [j \in DOMAIN span |->
     Placed(span[j], IF IsIndexed(span[j]) THEN begin + 2 * j ELSE begin, begin + 1)]
Assembled(p, spans, subs, at) ==
  LET n == Len(spans)
      size(k) == Len(subs[k]) + 1
      choice(k) == CASE n = 1 -> TryMeElse(p, 0)
                     [] n > 1 /\ k = 1 -> TryMeElse(p, size(k))
                     [] k > 1 /\ k = n -> TrustMe(p)
                     [] OTHER -> IF p.dyn THEN TryMeElse(p, size(k)) ELSE Retry(size(k))
      begin(k) == at + FoldFunction(+, 0, [m \in 1 .. k - 1 |-> size(m)])
  IN  [code |-> FlattenSeq([k \in 1 .. n |-> <<choice(k)>> \o subs[k]]),
       clauses |-> FlattenSeq([k \in 1 .. n |-> PlacedFrom(spans[k], begin(k))])]
CompileSpans(p, spans, at) ==
  Assembled(p, spans, [k \in DOMAIN spans |-> Subsequence(p, spans[k])], at)
CompilePredicate(p, cs, at) == CompileSpans(p, Spans(cs), at)

Ids(cs) == [j \in DOMAIN cs |-> cs[j].id]

(* compile: the first clauses of a predicate *)
Submitted(p, cs, at, new) ==
  LET q == Rec(p, R("TruncateBack", 0, Len(p.clauses)))
      r == [q EXCEPT !.clauses = @ \o new.clauses, !.locs = @ \o Ids(cs)]
  IN  [SetCodeIndex(r, IF new.code[1] = Try(0) THEN at + 1 ELSE at) EXCEPT !.code = @ \o new.code]
Compile(p, cs) ==
  LET at == Len(p.code) + 1 IN Submitted(p, cs, at, CompilePredicate(p, cs, at))

(* append_compiled_clause, after incremental_compile_clause has pushed the clause:
   p1 is p with the clause pushed, at the place of its code, low the clause at
   the start of the subsequence before it                                    *)

(* the clause joins the indexed subsequence of the clause before it *)
AppendThreaded(p, q, low, lb, at, from) ==
  LET lone == lb + 1 = Len(q.clauses)
      r == ThreadTo(IF lone THEN SetSwitchVarOffsetToChoiceInstr(q, low.loc, from - low.loc) ELSE q,
                    from, at)
  IN  IF lb = 1 /\ lone /\ ~p.dyn
      THEN SetCodeIndex(r, IF low.loc < from THEN low.loc ELSE from) ELSE r
AppendMerged(p, q, low, lb, at) ==
  AppendThreaded(p, q, low, lb, at,
                 FindOuter(q, FindInner(q, q.clauses[Len(q.clauses) - 1].start, low.loc)))
AppendToIndexed(p, p1, c, low, lb, at, new) ==
  LET q == [p1 EXCEPT !.code = @ \o <<InternalTrustMe(p)>> \o SubSeq(new, 4, Len(new)),
                      !.clauses[Len(p1.clauses)].loc = low.loc]
  IN  AppendMerged(p, MergeClauseIndex(Rec(q, R("AddedIndex", low.loc, [key |-> Key(c), at |-> at])),
                                       low.loc, SubSeq(p.clauses, lb, Len(p.clauses)), Key(c), at, TRUE),
                   low, lb, at)

(* the clause starts a subsequence of its own *)
ThreadedApart(q, head, lb, at) ==
  LET r == ThreadTo(q, FindOuter(q, head), at)
  IN  IF lb = 1 THEN SetCodeIndex(r, head) ELSE r
AppendApart(p, p1, c, low, lb, at, new) ==
  LET q == [p1 EXCEPT !.code = @ \o <<TrustMe(p)>> \o SubSeq(new, 2, Len(new)),
                      !.clauses[Len(p1.clauses)].start = IF IsIndexed(c) THEN at + 2 ELSE at]
  IN  ThreadedApart(IF ~IsIndexed(c) \/ p.dyn THEN q ELSE SetSwitchVarOffset(q, at + 1, 2),
                    IF IsIndexed(low) THEN low.start - 2 ELSE low.start, lb, at)

AppendAfter(p, p1, c, lb, at, new) ==
  IF IsIndexed(p1.clauses[lb]) /\ ArgNum(p1.clauses[lb]) = ArgNum(c)
  THEN AppendToIndexed(p, p1, c, p1.clauses[lb], lb, at, new)
  ELSE AppendApart(p, p1, c, p1.clauses[lb], lb, at, new)
AppendPushed(p, p1, c, at, new) == AppendAfter(p, p1, c, LowerBound(p1, Len(p1.clauses)), at, new)
AppendClause(p, c) ==
  LET at == Len(p.code) + 1
  IN  AppendPushed(p, Rec([p EXCEPT !.clauses = Append(@, Placed(c, at, at + 1)),
                                    !.locs = Append(@, c.id)], R("PopBack", 0, 0)),
                   c, at, CompilePredicate(p, <<c>>, at).code)

(* prepend_compiled_clause, after incremental_compile_clause has pushed the clause *)
PushedFront(p, c, at) ==
  Rec([p EXCEPT !.clauses = <<Placed(c, IF IsIndexed(c) THEN at + 2 ELSE at, at + 1)>> \o @,
                !.locs = <<c.id>> \o @, !.margin = @ + 1], R("PopFront", 0, 0))
OuterInstr(p, old) ==
  IF ~IsIndexed(old) THEN old.start
  ELSE IF p.dyn THEN FindDynamicOuter(p, old.loc) ELSE old.start - 2

(* an indexed clause joins the indexed subsequence at the front *)
PrependToIndexed(p, c) ==
  LET at == Len(p.code) + 1
      old == p.clauses[1]
      outer == OuterInstr(p, old)
      inner == FindInner(p, old.start, old.loc)
      cut == DerelictOffset(p, outer)
      p1 == Rec([PushedFront(p, c, at) EXCEPT !.clauses[1].loc = old.loc],
                R("AddedIndex", old.loc, [key |-> Key(c), at |-> at + 2]))
      p2 == [Rec(p1, R("ClauseStart", 2, old.start)) EXCEPT !.clauses[2].start = inner]
      p3 == MergeClauseIndex(Derelictize(p2, outer), old.loc, p.clauses, Key(c), at + 2, FALSE)
      p4 == Internalize(SetSwitchVarOffset(p3, old.loc, at - old.loc + 2), inner)
      block == <<TryMeElse(p, IF cut > 0 THEN 5 ELSE 0),
                 RevJmpBy(at + 1 - old.loc),
                 InternalTryMeElse(p, 2),
                 Body(c),
                 RevJmpBy(at + 4 - inner),
                 IF cut > 0 THEN RevJmpBy(at + 5 - outer - cut) ELSE RevJmpBy(0)>>
  IN  SetCodeIndex([p4 EXCEPT !.code = @ \o block], IF ~p.dyn /\ cut = 0 THEN at + 1 ELSE at)

(* a clause before a subsequence it does not join *)
PrependApart(p, c) ==
  LET at == Len(p.code) + 1
      outer == OuterInstr(p, p.clauses[1])
      stub == IF p.dyn THEN Else("intelse", p.clock, "fail", 2) ELSE Try(2)
      block == IF IsIndexed(c)
               THEN <<TryMeElse(p, 5), CompilePredicate(p, <<c>>, at).code[2], stub, Body(c),
                      RevJmpBy(0), RevJmpBy(at + 5 - outer)>>
               ELSE <<TryMeElse(p, 2), Body(c), RevJmpBy(at + 2 - outer)>>
  IN  SetCodeIndex([Internalize(PushedFront(p, c, at), outer) EXCEPT !.code = @ \o block], at)

PrependClause(p, c) ==
  IF IsIndexed(c) /\ ArgNum(p.clauses[1]) = ArgNum(c) THEN PrependToIndexed(p, c) ELSE PrependApart(p, c)

IncrementalCompileClause(p, c, append) ==
  IF p.clauses = <<>> THEN Compile(p, <<c>>)
  ELSE IF append THEN AppendClause(p, c) ELSE PrependClause(p, c)
----------------------------------------------------------------------------
(* Retracting *)

NoPtr == -1
Result(p, ptr) == [p |-> p, ptr |-> ptr]
Unreachable(p) == [p EXCEPT !.bad = TRUE]

DeleteFromSkeleton(p, pos) ==
  LET c == p.clauses[pos]
      q == [p EXCEPT !.clauses = RemoveAt(@, pos), !.locs = RemoveAt(@, pos),
                     !.margin = IF pos <= @ THEN @ - 1 ELSE @,
                     !.dead = IF p.dyn THEN Append(@, c) ELSE @]
  IN  Rec(q, IF p.dyn THEN R("RemovedDynamicClause", pos, p.locs[pos])
             ELSE R("RemovedClause", pos, [c |-> c, loc |-> p.locs[pos]]))

FinalizeRetract(res, pos) ==
  LET q == DeleteFromSkeleton(res.p, pos) IN
  IF res.ptr = NoPtr THEN q ELSE SetCodeIndex(q, res.ptr)

(* retract_dynamic_clause: the clause dies, its code stays *)
RetractDynamicClause(p, pos) ==
  LET c == p.clauses[pos]
      at == IF IsIndexed(c) THEN FindInner(p, c.start, c.loc) ELSE c.start
  IN  DeleteFromSkeleton([p EXCEPT !.code[at].death = p.clock], pos)

RemoveNonLeadingClause(p, before, at) ==
  LET ins == p.code[at]
      pre == p.code[before]
  IN
  CASE ins.op = "retry" -> Result(ThreadTo(p, before, at + ins.o), NoPtr)
    [] ins.op = "trust" /\ pre.op = "retry" ->
         Result(Put(p, before, Trust(0), R("RetryMeElse", before, pre.o)), NoPtr)
    [] ins.op = "trust" /\ pre.op = "try" ->
         Result(Put(p, before, Try(0), R("TryMeElse", before, pre.o)), before + 1)
    [] OTHER -> Result(Unreachable(p), NoPtr)

RemoveLeadingUnindexedClause(p, at) ==
  LET o == p.code[at].o
      q == Put(p, at, Try(0), R("TryMeElse", at, o))
  IN
  CASE Op(p, at) # "try" -> Result(Unreachable(p), NoPtr)
    [] Op(p, at) = "try" /\ o > 0 -> Result(Blunt(q, at + o), BluntPtr(q, at + o))
    [] OTHER -> Result(p, 0)

(* merge_indexed_subsequences: low is the first clause of the earlier one, up
   the first of the later one, the clause between them is about to go *)
MergeIndexedSubsequences(p, low, up) ==
  LET trust == p.clauses[up - 2].start
      try == FindInner(p, p.clauses[up].start, p.clauses[up].loc)
      q == IF Op(p, try) = "try" THEN Internalize(p, try) ELSE p
      r == ThreadTo(q, trust, try)
      outer == p.clauses[low].start - 2
      later == {k \in up .. Len(p.clauses) : ~IsIndexed(p.clauses[k])}
  IN
  CASE later # {} -> Result(ThreadTo(r, outer, p.clauses[Min(later)].start), NoPtr)
    [] later = {} /\ Op(r, outer) = "try" ->
         Result([Rec(r, R("TryMeElse", trust, r.code[outer].o)) EXCEPT !.code[outer].o = 0], outer + 1)
    [] OTHER -> Result(r, NoPtr)

(* merge_indices: clauses from .. to join the switch at loc *)
RECURSIVE MergeIndices(_, _, _, _, _)
MergeIndices(p, loc, low, from, to) ==
  IF from > to \/ ~IsIndexed(p.clauses[from]) THEN p
  ELSE LET c == p.clauses[from]
           at == FindInner(p, c.start, c.loc)
           q == MergeClauseIndex([p EXCEPT !.clauses[from].loc = loc], loc,
                                 SubSeq(p.clauses, low, from - 1), Key(c), at, TRUE)
       IN  MergeIndices(Rec(q, R("AddedIndex", loc, [key |-> Key(c), at |-> at])),
                        loc, low, from + 1, to)

Mergeable(p, low, pos) ==
  /\ pos < Len(p.clauses)
  /\ ArgNum(p.clauses[pos]) # ArgNum(p.clauses[pos + 1])
  /\ ArgNum(p.clauses[low]) = ArgNum(p.clauses[pos + 1])

StartReplaced(p, pos, start) ==
  [Rec(p, R("ClauseStart", pos, p.clauses[pos].start)) EXCEPT !.clauses[pos].start = start]

(* the first clause of an indexed subsequence *)
RetractLeading(p, c, pos, next, ptr) ==
  Result(StartReplaced(SetSwitchVarOffset(Blunt(p, next), c.loc, ptr - c.loc), pos + 1, c.start),
         IF pos = 1 /\ ~IsIndexed(p.clauses[2]) THEN ptr ELSE NoPtr)
RetractFirst(p, c, pos, inner, cut) ==
  LET p2 == Derelictize(p, inner)
      next == FindInner(p2, inner + cut, c.loc)
  IN
  CASE cut > 0 -> RetractLeading(p2, c, pos, next, BluntPtr(p2, next))
    [] cut = 0 /\ pos > 1 -> RemoveNonLeadingClause(p2, p.clauses[pos - 1].start, c.start - 2)
    [] OTHER -> RemoveLeadingUnindexedClause(p2, c.start - 2)
RetractFirstIndexed(p, pos) ==
  LET c == p.clauses[pos]
      inner == FindInner(p, c.start, c.loc)
      p1 == RemoveIndexFromSubsequence(p, c, inner)
  IN  RetractFirst(p1, c, pos, inner, DerelictOffset(p1, inner))

(* two indexed subsequences become one *)
RetractBetween(p, low, pos) ==
  LET loc == p.clauses[low].loc
      later == p.clauses[pos + 1].loc
      lowStart == FindInner(p, p.clauses[low].start, loc)
      p1 == Put(p, loc, RevJmpBy(loc - later), R("IndexingLine", loc, p.code[loc]))
      IntoLater(m) == Result(SetSwitchVarOffset(MergeIndices(m.p, later, low, low, pos - 1),
                                                later, lowStart - later), m.ptr)
      IntoLower(m) == Result(SetSwitchVarOffsetToChoiceInstr(
                               MergeIndices(m.p, loc, low, pos + 1, Len(p.clauses)),
                               loc, lowStart - loc), m.ptr)
  IN
  IF later < loc THEN IntoLater(MergeIndexedSubsequences(p1, low, pos + 1))
  ELSE IntoLower(MergeIndexedSubsequences(p, low, pos + 1))

(* any other clause than the first *)
RetractLaterAt(p, p1, c, low, pos, start) ==
  LET lb == p.clauses[low]
      head == IF IsIndexed(lb) THEN lb.start - 2 ELSE lb.start
      ins == p1.code[start]
      ptr == BluntPtr(p1, start)
      p2 == SetSwitchVarOffset(Derelictize(Blunt(p1, start), start), c.loc, ptr - c.loc)
      pre == FindInner(p1, p.clauses[pos - 1].start, c.loc)
      p3 == RemoveNonLeadingClause(p1, pre, c.start).p
  IN
  CASE ~IsIndexed(c) -> RemoveNonLeadingClause(p1, head, c.start)
    [] IsIndexed(c) /\ ins = Try(0) ->
         Result(RemoveNonLeadingClause(p1, head, c.start - 2).p, NoPtr)
    [] IsIndexed(c) /\ ins # Try(0) /\ ins.op = "try" ->
         Result(StartReplaced(p2, pos + 1, c.start), NoPtr)
    [] OTHER -> Result(IF p3.code[pre] = Try(0) THEN SetSwitchVarOffset(p3, c.loc, pre + 1 - c.loc)
                       ELSE p3, NoPtr)
RetractFound(p, p1, c, low, pos) ==
  RetractLaterAt(p, p1, c, low, pos, FindInner(p1, c.start, c.loc))
RetractLater(p, low, pos) ==
  RetractFound(p, RemoveIndexFromSubsequence(p, p.clauses[pos], p.clauses[pos].start),
               p.clauses[pos], low, pos)

RetractClause(p, pos) ==
  LET c == p.clauses[pos]
      low == LowerBound(p, pos)
      lb == p.clauses[low]
      first == pos = 1 \/ (low + 1 = pos /\ ~IsIndexed(lb))
  IN
  FinalizeRetract(
    CASE first /\ IsIndexed(c) -> RetractFirstIndexed(p, pos)
      [] ~(first /\ IsIndexed(c)) /\ IsIndexed(lb) /\ Mergeable(p, low, pos) -> RetractBetween(p, low, pos)
      [] ~(first /\ IsIndexed(c)) /\ ~(IsIndexed(lb) /\ Mergeable(p, low, pos)) /\ pos > 1 ->
           RetractLater(p, low, pos)
      [] OTHER -> RemoveLeadingUnindexedClause(p, c.start),
    pos)

----------------------------------------------------------------------------
(* Rolling back a load *)

(* reset_machine, a record about the code.  A removed index is not put back, and
   the offset an added one is looked for under is one less than it was entered
   under.                                                                     *)
UndoCode(p, r) ==
  CASE r.k = "ReplacedPredicate" -> [p EXCEPT !.ptr = r.x]
    [] r.k = "AddedIndex" -> RemoveIndex(p, r.i, r.x.key, r.x.at - r.i)
    [] r.k = "RemovedIndex" -> p
    [] r.k = "ChoiceOffset" -> [p EXCEPT !.code[r.i].o = r.x]
    [] r.k = "TrustMe" -> [p EXCEPT !.code[r.i] = Trust(r.x)]
    [] r.k = "SwitchOnTermVarIndex" -> IF Op(p, r.i) = "switch" THEN [p EXCEPT !.code[r.i].v = r.x] ELSE p
    [] r.k = "TryMeElse" -> [p EXCEPT !.code[r.i] = Try(r.x)]
    [] r.k = "RetryMeElse" -> [p EXCEPT !.code[r.i] = Retry(r.x)]
    [] r.k = "RevJmpBy" -> [p EXCEPT !.code[r.i] = RevJmpBy(r.x)]
    [] r.k = "IndexingLine" -> [p EXCEPT !.code[r.i] = r.x]

(* reset_machine, a record about a choice instruction of a dynamic clause *)
DynamicRecords == {"DynamicElseOffset", "NextOrFail"}
UndoDynamic(p, r) ==
  CASE r.k = "DynamicElseOffset" -> IF NextInstr(p.code[r.i]) THEN [p EXCEPT !.code[r.i].o = r.x] ELSE p
    [] r.k = "NextOrFail" -> [p EXCEPT !.code[r.i].nf = r.x[1], !.code[r.i].o = r.x[2]]

(* reset_machine, a record about the skeleton *)
SkeletonRecords ==
  {"TruncateBack", "PopBack", "PopFront", "ClauseStart", "RemovedClause", "RemovedDynamicClause", "Local"}
UndoSkeleton(p, r) ==
  CASE r.k = "TruncateBack" -> [p EXCEPT !.clauses = SubSeq(@, 1, r.x), !.locs = SubSeq(@, 1, r.x)]
    [] r.k = "PopBack" -> [p EXCEPT !.clauses = Front(@), !.locs = Front(@)]
    [] r.k = "PopFront" -> [p EXCEPT !.clauses = Tail(@), !.locs = Tail(@), !.margin = @ - 1]
    [] r.k = "ClauseStart" -> [p EXCEPT !.clauses[r.i].start = r.x]
    [] r.k = "RemovedClause" ->
         [p EXCEPT !.clauses = InsertAt(@, r.i, r.x.c), !.locs = InsertAt(@, r.i, r.x.loc)]
    [] r.k = "RemovedDynamicClause" ->
         [p EXCEPT !.clauses = InsertAt(@, r.i, Last(p.dead)), !.locs = InsertAt(@, r.i, r.x),
                   !.dead = Front(@)]
    [] r.k = "Local" -> [p EXCEPT !.local = r.x]

UndoRecord(p, r) ==
  CASE r.k \in SkeletonRecords -> UndoSkeleton(p, r)
    [] r.k \in DynamicRecords -> UndoDynamic(p, r)
    [] OTHER -> UndoCode(p, r)

(* Mutant of ResetMachine: the records are undone first one first *)
ResetInOrder(p) ==
  [FoldLeft(LAMBDA q, r : UndoRecord(q, r), p, p.undo) EXCEPT !.undo = <<>>]
ResetMachine(p) ==
  [FoldRight(LAMBDA r, q : UndoRecord(q, r), p.undo, p) EXCEPT !.undo = <<>>]
=============================================================================
