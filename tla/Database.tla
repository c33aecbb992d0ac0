------------------------------ MODULE Database ------------------------------
(***************************************************************************)
(* The clause database as programs see it: assertz, asserta, retract,      *)
(* abolish and clause/2 on dynamic predicates, interleaved with calls that *)
(* are still being backtracked into, and files whose clauses are loaded,   *)
(* reloaded and rolled back (src/machine/loader.rs, compile.rs and the     *)
(* machine that runs the result).                                          *)
(*                                                                         *)
(* Every dynamic clause is stored twice: compiled in its own predicate,    *)
(* and as a fact of '$clause'/2, a static predicate that retract and       *)
(* clause/2 search.  The two skeletons share the clause's location number  *)
(* (clause_clause_loc), here the clause's id, which grows with the code.   *)
(***************************************************************************)
EXTENDS ClauseRun

CONSTANTS DynamicPreds,     \* dynamic predicates; as functors, keys of '$clause'
          StaticPreds,      \* multifile predicates loaded from files
          Heads,            \* [predicate -> arguments its clauses may have]
          Goals,            \* [predicate -> arguments it is called with]
          Programs,         \* [predicate -> operations performed on it], one for each program
          Reenter,          \* may clauses change in any way while a call is open?
          MaxChunk,         \* clauses a file has in a row
          MaxCalls,         \* [program -> calls it has open at a time]
          MaxClauses        \* [program -> clauses it ever makes]

Preds == DynamicPreds \cup StaticPreds
OperationNames == {"asserta", "assertz", "retract", "abolish", "load"}
ASSUME DatabaseAssumption ==
  /\ DynamicPreds \subseteq Keys /\ DynamicPreds \cap StaticPreds = {}
  /\ Heads \in [Preds -> SUBSET [fst : Keys \cup {Unbound}, snd : Keys \cup {Unbound}]]
  /\ Programs \subseteq [Preds -> SUBSET OperationNames]
  /\ Reenter \in BOOLEAN
  /\ MaxCalls \in [Programs -> Nat] /\ MaxClauses \in [Programs -> 0 .. Infinity - 1]

Clause == "$clause"

VARIABLES prog,     \* the program that runs
          db,       \* [Preds \cup {Clause} -> predicate]
          clock,    \* global_clock
          cc,       \* the register of the same name
          calls,    \* calls with alternatives left, the last one on top
          batch,    \* what the retract/1 in progress has left to do
          load,     \* the file being loaded: its predicate, and what was there before
          ids,      \* clauses made so far
          failed,   \* predicates of files that failed to load
          ended     \* the call that has just ended: its answers and those it should have had

vars == <<prog, db, clock, cc, calls, batch, load, ids, failed, ended>>

NoPredicate(dyn) ==
  [code |-> <<>>, ptr |-> 0, clauses |-> <<>>, margin |-> 0, locs |-> <<>>, dead |-> <<>>,
   dyn |-> dyn, clock |-> 0, undo |-> <<>>, bad |-> FALSE, local |-> <<>>]
NoBatch == [n |-> Clause, left |-> <<>>]
NoLoad == [n |-> Clause, before |-> <<>>, after |-> <<>>]
Idle == [got |-> <<>>, view |-> <<>>, misled |-> FALSE]

Init ==
  /\ prog \in Programs
  /\ db = [n \in Preds \cup {Clause} |-> NoPredicate(n \in DynamicPreds)]
  /\ clock = 1
  /\ cc = 0
  /\ calls = <<>>
  /\ batch = NoBatch
  /\ load = NoLoad
  /\ ids = 0
  /\ failed = {}
  /\ ended = Idle
----------------------------------------------------------------------------
(* evacuate: the loader of a single operation ends and forgets how to undo it *)
Evacuated(p) == [p EXCEPT !.undo = <<>>]
Now(n) == [db[n] EXCEPT !.clock = clock]

(* target_pos_of_clause_clause_loc (0: None): a binary search in the part that
   asserta filled and in the rest, see RegionsSorted *)
TargetPos(p, l) == IF l \in Range(p.locs) THEN CHOOSE k \in DOMAIN p.locs : p.locs[k] = l ELSE 0

(* A program that does not reenter keeps the clauses of a predicate as they are
   while clause/2 is open on it, and does not put new ones before those that an
   open call goes through by their positions.                                *)
Free(n, op) ==
  /\ op \in prog[n]
  /\ Reenter \/ \A k \in DOMAIN calls :
                  /\ calls[k].n \in DynamicPreds
                  /\ op = "asserta" => calls[k].n # n

ClauseOf(id, head) == [id |-> id, fst |-> head.fst, snd |-> head.snd]

(* The fact of '$clause'/2: the head, of which the index sees the functor, and
   the body, which is true.                                                   *)
ClauseFact(n, id) == [id |-> id, fst |-> n, snd |-> "true"]

(* Mutant of CompileClauseClause: asserta also puts the fact at the end *)
ClauseClauseAtEnd(q, n, id, append) == IncrementalCompileClause(q, ClauseFact(n, id), TRUE)

(* compile_clause_clauses: the fact in '$clause'/2, given the clause's own location *)
CompileClauseClause(q, n, id, append) == IncrementalCompileClause(q, ClauseFact(n, id), append)

(* compile_assert *)
CompileAssert(n, head, append) ==
  /\ Free(n, IF append THEN "assertz" ELSE "asserta")
  /\ ids < MaxClauses[prog]
  /\ db' = [db EXCEPT ![n] = Evacuated(IncrementalCompileClause(Now(n), ClauseOf(ids + 1, head), append)),
                      ![Clause] = Evacuated(CompileClauseClause(@, n, ids + 1, append))]
  /\ clock' = clock + 1
  /\ ids' = ids + 1
  /\ ended' = Idle
  /\ UNCHANGED <<prog, cc, calls, batch, load, failed>>

AssertClause ==
  \E n \in DynamicPreds, append \in BOOLEAN : \E head \in Heads[n] : CompileAssert(n, head, append)

(* retract/1 up to its findall: what '$clause' finds, each with the location
   that get_clause_p pairs it with by its position in the list of n's facts *)
GetClauseP(n) ==
  LET facts == SelectSeq(db[Clause].clauses, LAMBDA c : c.fst = n)
  IN  [k \in DOMAIN facts |-> [p |-> facts[k].id, l |-> db[n].locs[k]]]


RetractCall ==
  \E n \in DynamicPreds : \E arg \in Goals[n] :
    LET found == SelectSeq(GetClauseP(n), LAMBDA x :
                   \E c \in Range(db[n].clauses) : c.id = x.p /\ Matches(c, arg))
    IN  /\ Free(n, "retract")
        /\ batch = NoBatch
        /\ found # <<>>
        /\ batch' = [n |-> n, left |-> found]
        /\ ended' = Idle
        /\ UNCHANGED <<prog, db, clock, cc, calls, load, ids, failed>>

(* loader.retract_clause: the clause dies, its fact goes *)
Retracted(n, l) ==
  [db EXCEPT ![n] = Evacuated(RetractDynamicClause(Now(n), TargetPos(@, l))),
             ![Clause] = Evacuated(RetractClause(@, TargetPos(@, l)))]

(* retract_clauses: one more solution; a clause that is gone already counts too *)
RetractStep ==
  LET x == Head(batch.left)
      there == TargetPos(db[batch.n], x.l) > 0
  IN  /\ batch # NoBatch
      /\ Free(batch.n, "retract")
      /\ db' = IF there THEN Retracted(batch.n, x.l) ELSE db
      /\ clock' = IF there THEN clock + 1 ELSE clock
      /\ batch' = IF Len(batch.left) = 1 THEN NoBatch ELSE [batch EXCEPT !.left = Tail(@)]
      /\ ended' = Idle
      /\ UNCHANGED <<prog, cc, calls, load, ids, failed>>

(* once(retract(C)): the other solutions are not asked for *)
RetractCut ==
  /\ batch # NoBatch
  /\ batch' = NoBatch
  /\ ended' = Idle
  /\ UNCHANGED <<prog, db, clock, cc, calls, load, ids, failed>>

(* abolish_clause: the predicate is undefined, its code stays for those running it *)
RECURSIVE RetractAll(_, _)
RetractAll(q, poses) ==
  IF poses = <<>> THEN q ELSE RetractAll(RetractClause(q, Last(poses)), Front(poses))

Abolish ==
  \E n \in DynamicPreds :
    /\ Free(n, "abolish")
    /\ batch.n # n
    /\ db[n].locs # <<>>
    /\ db' = [db EXCEPT ![n] = [NoPredicate(TRUE) EXCEPT !.code = db[n].code],
                        ![Clause] = Evacuated(RetractAll(@,
                           [k \in DOMAIN db[n].locs |-> TargetPos(@, db[n].locs[k])]))]
    /\ ended' = Idle
    /\ UNCHANGED <<prog, clock, cc, calls, batch, load, ids, failed>>
----------------------------------------------------------------------------
(* Calls *)

ArgsOf(n) == IF n = Clause THEN [fst : DynamicPreds, snd : {Unbound}] ELSE Goals[n]
View(p, arg) == Ids(SelectSeq(p.clauses, LAMBDA c : Matches(c, arg)))

(* The outcome r of running the code: an answer, with or without alternatives,
   or the end of the call c                                                   *)
Outcome(c, r, below) ==
  LET found == IF r.i > 0 THEN Append(c.got, db[c.n].code[r.i].id)
               ELSE IF r.i = Fails THEN c.got ELSE Append(c.got, r.i)
      over == r.fs = <<>> \/ r.i <= 0
  IN  /\ cc' = r.cc
      /\ calls' = IF over THEN below ELSE Append(below, [c EXCEPT !.got = found, !.fs = r.fs])
      /\ ended' = IF over THEN [got |-> found, view |-> c.view, misled |-> c.misled] ELSE Idle
      /\ UNCHANGED <<prog, db, clock, batch, load, ids, failed>>

CallPredicate ==
  \E n \in DynamicPreds \cup {Clause} : \E arg \in ArgsOf(n) :
    /\ Len(calls) < MaxCalls[prog]
    /\ db[n].ptr > 0
    /\ Outcome([n |-> n, arg |-> arg, fs |-> <<>>, got |-> <<>>, view |-> View(db[n], arg), misled |-> FALSE],
               Call(db[n], clock, cc, arg), calls)

(* Backtracking looks for the next living clause with the register cc as it is,
   and takes the call's own from the choice point afterwards.  In between, any
   other dynamic call may have set it: then clauses born or gone since the call
   look alive or dead that are not.                                           *)
Misleads(c) ==
  \E ins \in Range(db[c.n].code) :
    ins.op \in Dynamic /\ (Living(ins, cc) # Living(ins, Last(c.fs).cc))

Redo ==
  /\ calls # <<>>
  /\ LET c == Last(calls) IN
     Outcome([c EXCEPT !.misled = @ \/ Misleads(c)],
             Retried(db[c.n], clock, cc, c.fs, c.arg), Front(calls))

Cut ==
  /\ calls # <<>>
  /\ calls' = Front(calls)
  /\ ended' = Idle
  /\ UNCHANGED <<prog, db, clock, cc, batch, load, ids, failed>>
----------------------------------------------------------------------------
(* Files *)

(* retract_local_clauses: what the file contributed before, last clause first *)
RetractLocalClauses(p) ==
  LET q == [Rec(p, R("Local", 0, p.local)) EXCEPT !.local = <<>>]
  IN  RetractAll(q, SelectSeq([k \in DOMAIN p.local |-> TargetPos(p, p.local[k])], LAMBDA k : k > 0))

(* compile_and_submit: a chunk of clauses of a discontiguous predicate *)
RECURSIVE AppendEach(_, _)
AppendEach(p, cs) ==
  IF cs = <<>> THEN p ELSE AppendEach(IncrementalCompileClause(p, Head(cs), TRUE), Tail(cs))
CompileAndSubmit(p, cs) ==
  LET q == IF p.clauses = <<>> THEN Compile(p, cs) ELSE AppendEach(p, cs)
  IN  [Rec(q, R("Local", 0, p.local)) EXCEPT !.local = @ \o Ids(cs)]

(* What the program can see of p: its clauses, and the answers with nothing bound *)
Visible(p) ==
  LET arg == [fst |-> Unbound, snd |-> Unbound]
  IN  <<p.clauses, Answers(p, clock, Call(p, clock, cc, arg), arg)>>

LoadBegin ==
  \E n \in StaticPreds :
    /\ Free(n, "load")
    /\ load.n = Clause
    /\ ids < MaxClauses[prog]
    /\ load' = [n |-> n, before |-> Visible(db[n]), after |-> <<>>]
    /\ db' = [db EXCEPT ![n] = RetractLocalClauses(@)]
    /\ ended' = Idle
    /\ UNCHANGED <<prog, clock, cc, calls, batch, ids, failed>>

LoadChunk ==
  /\ load.n # Clause
  /\ Free(load.n, "load")
  /\ \E len \in 1 .. MaxChunk : \E heads \in [1 .. len -> Heads[load.n]] :
    /\ ids + len <= MaxClauses[prog]
    /\ db' = [db EXCEPT ![load.n] = CompileAndSubmit(@,
                [k \in 1 .. len |-> ClauseOf(ids + k, heads[k])])]
    /\ ids' = ids + len
    /\ ended' = Idle
    /\ UNCHANGED <<prog, clock, cc, calls, batch, load, failed>>

LoadDone ==
  /\ load.n # Clause
  /\ db' = [db EXCEPT ![load.n] = Evacuated(@)]
  /\ load' = NoLoad
  /\ ended' = Idle
  /\ UNCHANGED <<prog, clock, cc, calls, batch, ids, failed>>

(* an error in the file: reset_machine *)
LoadFail ==
  LET p == ResetMachine(db[load.n]) IN
  /\ load.n # Clause
  /\ Free(load.n, "load")
  /\ db' = [db EXCEPT ![load.n] = p]
  /\ load' = [load EXCEPT !.n = Clause, !.after = Visible(p)]
  /\ failed' = failed \cup {load.n}
  /\ ended' = Idle
  /\ UNCHANGED <<prog, clock, cc, calls, batch, ids>>

Next ==
  \/ AssertClause
  \/ RetractCall \/ RetractStep \/ RetractCut
  \/ Abolish
  \/ CallPredicate \/ Redo \/ Cut
  \/ LoadBegin \/ LoadChunk \/ LoadDone \/ LoadFail

Spec == Init /\ [][Next]_vars
----------------------------------------------------------------------------
(* A call made now finds exactly the clauses of the skeleton that match it, in
   order, whatever edits in place produced the code it runs: choice instructions,
   jumps and switch tables agree with the skeleton (compile.rs edits them apart).
   After a failed load only the chain of choice instructions is claimed: the
   switch tables are not restored (loader.rs, RemovedIndex).                   *)
CodeMatchesSkeleton ==
  \A n \in Preds \cup {Clause} :
    /\ ~db[n].bad
    /\ \A arg \in ArgsOf(n) :
         db[n].ptr > 0 /\ (n \in failed => arg = [fst |-> Unbound, snd |-> Unbound])
           => Answers(db[n], clock, Call(db[n], clock, cc, arg), arg) = View(db[n], arg)

(* A call of a dynamic predicate finds the clauses it had when it was called,
   each once and in order, however many are asserted, retracted or abolished
   before it is backtracked into, and it ends (DynamicElse, DynamicInternalElse
   and DynamicIndexedChoice with the births and deaths of clauses).            *)
LogicalUpdateView ==
  /\ ended.got = ended.view
  /\ \A k \in DOMAIN calls : IsPrefix(calls[k].got, calls[k].view)

(* The same of every call but those that were backtracked into while the register
   cc, left by another call, showed other clauses than their own clock (Misleads). *)
OwnClockView ==
  /\ ~ended.misled => ended.got = ended.view
  /\ \A k \in DOMAIN calls : ~calls[k].misled => IsPrefix(calls[k].got, calls[k].view)

(* The two regions of clause_clause_locs are sorted. *)
RegionsSorted ==
  \A n \in Preds \cup {Clause} :
    LET locs == db[n].locs
        margin == db[n].margin
    IN  /\ margin <= Len(locs)
        /\ \A j, k \in DOMAIN locs :
             j < k => IF k <= margin THEN locs[j] > locs[k]
                      ELSE j > margin => locs[j] < locs[k]

(* retract/1 pairs what '$clause' found with the location at the same position
   of the predicate's own skeleton (get_clause_p): it is the same clause.  And
   it is found there: target_pos_of_clause_clause_loc makes two binary searches,
   so the part that asserta filled stays descending and the rest ascending; one
   slip of clause_assert_margin and a clause is lost (forms.rs).               *)
RetractFindsItsClause ==
  /\ \A n \in DynamicPreds :
       /\ Len(GetClauseP(n)) = Len(db[n].locs)
       /\ \A k \in DOMAIN GetClauseP(n) : GetClauseP(n)[k].p = GetClauseP(n)[k].l
  /\ RegionsSorted

(* When a file fails to load, the clauses and the answers of the predicate it
   was changing are what they were before (reset_machine undoes the records of
   the load, last one first).                                                *)
RollbackRestores == load.n = Clause => load.before = load.after
=============================================================================
