----------------------------- MODULE ClauseRun -----------------------------
(***************************************************************************)
(* How the abstract machine runs the code that ClauseCode edits: the       *)
(* choice instructions of static and dynamic predicates, the switches and  *)
(* the lists of clauses they lead to, the look-ahead for a next clause     *)
(* that could match, and the clock by which a dynamic clause is alive      *)
(* (src/machine/dispatch.rs, src/machine/mod.rs).                          *)
(*                                                                         *)
(* A run is a record: i, the instruction; first, whether it was reached by *)
(* a call (dynamic_mode First) or by backtracking; iip, the position in a  *)
(* list of clauses (0: none); fs, the choice points of the call; cc, the   *)
(* register.  arg is the call's [fst, snd].                                *)
(***************************************************************************)
EXTENDS ClauseCode

Matches(c, arg) ==
  \A n \in 1 .. 2 : ArgAt(c, n) = ArgAt(arg, n) \/ Unbound \in {ArgAt(c, n), ArgAt(arg, n)}

Fails == 0              \* no (more) solution
Hangs == -1             \* backtracks to the same choice point for ever
Breaks == -2            \* executes what is no clause of the predicate

MaxRun == 80            \* instructions a run takes before it is taken to hang

Frame(bp, iip, cc) == [bp |-> bp, iip |-> iip, cc |-> cc]
At(r, i) == [r EXCEPT !.i = i, !.iip = 0]
Pop(r) == [r EXCEPT !.fs = Front(@)]
Push(r, f) == [r EXCEPT !.fs = Append(@, f)]
SetTop(r, f) == [r EXCEPT !.fs = Append(Front(@), f)]

(* What the switch at i looks at: the argument it is on *)
Switched(p, i, arg) == ArgAt(arg, p.code[i].arg)

(* select_switch_on_term_index and the second-level switches: the clauses for key *)
Selected(p, i, key) ==
  LET ptr == p.code[i].tbl[KeyType[key]] IN
  CASE ptr.t = "seq" -> ptr.s
    [] ptr.t = "switch" /\ key \in DOMAIN ptr.m -> ptr.m[key]
    [] OTHER -> <<>>

(* next_clause_applicable *)
Applicable(p, i, arg) ==
  CASE Op(p, i) = "body" -> Matches(p.code[i], arg)
    [] Op(p, i) = "switch" -> LET key == Switched(p, i, arg) IN key = Unbound \/ Selected(p, i, key) # <<>>
    [] OTHER -> TRUE

(* next_applicable_clause: the offset from i to go on with (0: None) *)
RECURSIVE NextApplicable(_, _, _, _)
NextApplicable(p, i, o, arg) ==
  LET ins == p.code[i + o] IN
  CASE i + o + 1 \notin DOMAIN p.code -> o
    [] i + o + 1 \in DOMAIN p.code /\ Applicable(p, i + o + 1, arg) -> o
    [] OTHER -> IF ins.op = "retry" \/ NextInstr(ins)
                THEN IF ins.o = 0 THEN 0 ELSE NextApplicable(p, i, o + ins.o, arg) ELSE 0

(* next_inner_applicable_clause: the next position of the list (0: None) *)
NextInner(p, i, list, k, arg) ==
  LET later == {j \in k + 1 .. Len(list) : Applicable(p, i + list[j], arg)}
  IN  IF later = {} THEN 0 ELSE Min(later)
----------------------------------------------------------------------------
(* Dynamic predicates *)

(* Mutant of Living: a clause dies for the calls that began before its death *)
LivingNow(ins, cc) == ins.birth < cc /\ ins.death = Infinity
Living(ins, cc) == ins.birth < cc /\ cc <= ins.death

(* find_living_dynamic_else: the clause found (0: None) *)
RECURSIVE FindLivingElse(_, _, _)
FindLivingElse(p, i, cc) ==
  LET ins == p.code[i] IN
  CASE ins.op = "revjmp" -> IF ins.o = 0 THEN 0 ELSE FindLivingElse(p, i - ins.o, cc)
    [] ins.op \in Dynamic /\ Living(ins, cc) -> i
    [] OTHER -> IF NextInstr(ins) /\ ins.o > 0 THEN FindLivingElse(p, i + ins.o, cc) ELSE 0

(* find_living_dynamic: the position in the list (0: None) *)
FindLiving(p, i, list, k, cc) ==
  LET alive == {j \in k .. Len(list) : Living(p.code[i + list[j] - 1], cc)}
  IN  IF alive = {} THEN 0 ELSE Min(alive)

Another(p, i, cc) ==
  NextInstr(p.code[i]) /\ p.code[i].o > 0 /\ FindLivingElse(p, i + p.code[i].o, cc) > 0
----------------------------------------------------------------------------
RECURSIVE Run(_, _, _, _)

(* backtrack: nothing but the choice point says where to go on *)
Backtrack(p, clock, r, arg) ==
  IF r.fs = <<>> THEN [r EXCEPT !.i = Fails]
  ELSE Run(p, clock, [r EXCEPT !.i = Last(r.fs).bp, !.iip = Last(r.fs).iip, !.first = FALSE], arg)

(* DynamicElse and DynamicInternalElse *)
RunDynamicElse(p, clock, r0, arg) ==
  LET r == IF r0.first /\ Op(p, r0.i) = "else" THEN [r0 EXCEPT !.cc = clock] ELSE r0
      i == FindLivingElse(p, r.i, r.cc)
      next == [At(r, i + 1) EXCEPT !.first = FALSE]
      ahead(cc) == IF Another(p, i, cc) THEN NextApplicable(p, i, p.code[i].o, arg) ELSE 0
      top == Last(r.fs)
      back == [next EXCEPT !.cc = top.cc]
  IN
  CASE i = 0 /\ r.first -> Backtrack(p, clock, r, arg)
    [] i = 0 /\ ~r.first -> [r EXCEPT !.i = Hangs]
    [] i > 0 /\ r.first ->
         Run(p, clock, IF ahead(r.cc) = 0 THEN next ELSE Push(next, Frame(i + ahead(r.cc), 0, r.cc)), arg)
    [] i > 0 /\ ~r.first ->
         Run(p, clock, IF ahead(top.cc) = 0 THEN Pop(back)
                       ELSE SetTop(back, Frame(i + ahead(top.cc), 0, top.cc)), arg)

(* DynamicIndexedChoice *)
RunDynamicChoice(p, clock, r, list, arg) ==
  LET k == FindLiving(p, r.i, list, r.iip, r.cc)
      next == [At(r, r.i + list[k]) EXCEPT !.first = FALSE]
      ahead(cc) == IF NextInstr(p.code[r.i + list[k] - 1]) /\ FindLiving(p, r.i, list, k + 1, cc) > 0
                   THEN NextInner(p, r.i, list, k, arg) ELSE 0
      top == Last(r.fs)
      back == [next EXCEPT !.cc = top.cc]
  IN
  CASE k = 0 /\ r.first -> Backtrack(p, clock, r, arg)
    [] k = 0 /\ ~r.first -> [r EXCEPT !.i = Hangs]
    [] k > 0 /\ r.first ->
         Run(p, clock, IF ahead(r.cc) = 0 THEN next ELSE Push(next, Frame(r.i, ahead(r.cc), r.cc)), arg)
    [] k > 0 /\ ~r.first ->
         Run(p, clock, IF ahead(top.cc) = 0 THEN Pop(back)
                       ELSE SetTop(back, Frame(r.i, ahead(top.cc), top.cc)), arg)

(* IndexedChoice: Try, Retry, Trust by position *)
RunChoice(p, clock, r, list, arg) ==
  LET k == r.iip
      next == At(r, r.i + list[k])
      ahead == NextInner(p, r.i, list, k, arg)
      f == Frame(r.i, ahead, r.cc)
  IN
  CASE k > Len(list) -> [r EXCEPT !.i = Breaks]
    [] k = 1 /\ k <= Len(list) -> Run(p, clock, IF ahead = 0 THEN next ELSE Push(next, f), arg)
    [] k > 1 /\ k <= Len(list) ->
         Run(p, clock, [(IF ahead = 0 THEN Pop(next) ELSE SetTop(next, f)) EXCEPT !.first = TRUE], arg)

(* execute_switch_on_term *)
RunSwitch(p, clock, r, arg) ==
  LET key == Switched(p, r.i, arg)
      list == Selected(p, r.i, key)
      target == r.i + (IF key = Unbound THEN p.code[r.i].v ELSE list[1])
      valid == Op(p, target - 1) = "intelse" => Living(p.code[target - 1], r.cc)
  IN
  CASE r.iip > 0 /\ p.dyn -> RunDynamicChoice(p, clock, r, list, arg)
    [] r.iip > 0 /\ ~p.dyn -> RunChoice(p, clock, r, list, arg)
    [] r.iip = 0 /\ key # Unbound /\ Len(list) = 0 -> Backtrack(p, clock, r, arg)
    [] r.iip = 0 /\ key # Unbound /\ Len(list) > 1 ->
         Run(p, clock, [r EXCEPT !.iip = 1, !.first = TRUE], arg)
    [] OTHER ->
         IF p.dyn /\ Op(p, target) = "intelse" THEN Run(p, clock, [At(r, target) EXCEPT !.first = TRUE], arg)
         ELSE IF p.dyn /\ ~valid THEN Backtrack(p, clock, r, arg)
         ELSE Run(p, clock, [At(r, target) EXCEPT !.first = TRUE], arg)

RunInstr(p, clock, r, arg) ==
  LET ins == p.code[r.i]
      next == [At(r, r.i + 1) EXCEPT !.first = TRUE]
      ahead == NextApplicable(p, r.i, ins.o, arg)
      f == Frame(r.i + ahead, 0, r.cc)
  IN
  CASE ins.op = "body" -> IF Matches(ins, arg) THEN r ELSE Backtrack(p, clock, r, arg)
    [] ins.op \in Dynamic -> RunDynamicElse(p, clock, r, arg)
    [] ins.op = "switch" -> RunSwitch(p, clock, r, arg)
    [] ins.op = "revjmp" /\ ins.o # 0 -> Run(p, clock, At(r, r.i - ins.o), arg)
    [] ins.op = "try" /\ r.first /\ ins.o > 0 ->
         Run(p, clock, IF ahead = 0 THEN next ELSE Push(next, f), arg)
    [] ins.op = "retry" /\ ~r.first -> Run(p, clock, IF ahead = 0 THEN Pop(next) ELSE SetTop(next, f), arg)
    [] ins.op = "trust" /\ ~r.first -> Run(p, clock, Pop(next), arg)
    [] OTHER -> [r EXCEPT !.i = Breaks]

(* The next clause whose head unifies with the arguments: i is its location
   or Fails, Hangs or Breaks.                                               *)
Run(p, clock, r, arg) ==
  IF r.i \notin DOMAIN p.code THEN [r EXCEPT !.i = Breaks]
  ELSE IF r.left = 0 THEN [r EXCEPT !.i = Hangs]
  ELSE RunInstr(p, clock, [r EXCEPT !.left = @ - 1], arg)

(* try_call: a call, and backtracking into it *)
Call(p, clock, cc, arg) ==
  LET r == [i |-> p.ptr, first |-> TRUE, iip |-> 0, fs |-> <<>>, cc |-> cc, left |-> MaxRun] IN
  IF p.ptr = 0 THEN [r EXCEPT !.i = Fails] ELSE Run(p, clock, r, arg)
Retried(p, clock, cc, fs, arg) ==
  Backtrack(p, clock, [i |-> 0, first |-> FALSE, iip |-> 0, fs |-> fs, cc |-> cc, left |-> MaxRun], arg)

(* All the clauses a call finds when nothing happens in between *)
RECURSIVE Answers(_, _, _, _)
Answers(p, clock, r, arg) ==
  IF r.i <= 0 THEN IF r.i = Fails THEN <<>> ELSE <<r.i>>
  ELSE <<p.code[r.i].id>> \o
       (IF r.fs = <<>> THEN <<>> ELSE Answers(p, clock, Backtrack(p, clock, r, arg), arg))
=============================================================================
