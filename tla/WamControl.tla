------------------------------ MODULE WamControl ------------------------------
(***************************************************************************)
(* The control of the abstract machine: environments, choice points, calls, *)
(* returns and cuts, as the instructions of src/src/machine/dispatch.rs     *)
(* manipulate them.  Module Wam adds the data.                              *)
(*                                                                          *)
(* The program is any program: where the compiled code would decide which   *)
(* instruction comes next, the model lets every instruction happen that the *)
(* code generator could have put there.  A clause without an environment    *)
(* runs in phase "neck"; one with an environment in "start" until its first *)
(* call and in "body" after it, in "cond" while it runs the condition of an *)
(* if-then-else and in "neg" inside a negation.  One clause has one of      *)
(* these open at a time.                                                    *)
(*                                                                          *)
(* A frame takes one position of the stack whatever its size.               *)
(***************************************************************************)
EXTENDS Naturals, Sequences

CONSTANTS MaxStack   \* bound: frames on the stack

ASSUME StackBound == MaxStack \in Nat \ {0}

VARIABLES
  stack,   \* AND and OR frames; position 1 is the stub choice point
  e, b,    \* the current environment and choice point
  b0,      \* the choice point when the last call was made
  cp,      \* continuation: the phase to go on in, and whose clause it is
  ph,      \* the phase the current clause is in
  env,     \* history: the environment the current clause allocated
  bar      \* history: the choice point when the current predicate was called

ctrlVars == <<stack, e, b, b0, cp, ph, env, bar>>

None == 0
Top == [ph |-> "done", env |-> None]

EnvPhases == {"start", "body", "cond", "neg"}
Phases == EnvPhases \cup {"entry", "neck", "exec", "ret", "alt", "done", "halt"}

IsAnd(i) == i \in DOMAIN stack /\ stack[i].kind = "and"
IsOr(i) == i \in DOMAIN stack /\ stack[i].kind = "or"

(* allocate_stub_choice_point, and the query's own call. *)
Init ==
  /\ stack = <<[kind |-> "or", e |-> None, cp |-> Top, b |-> None, b0 |-> None,
                alt |-> "halt", own |-> None, bar |-> None]>>
  /\ e = None /\ b = 1 /\ b0 = 1
  /\ cp = Top
  /\ ph = "entry"
  /\ env = None /\ bar = 1

(* The environments to be reached from environment i, and the choice points  *)
(* to be reached from choice point i.                                        *)
Envs(i) ==
  LET c[j \in 0..Len(stack)] == IF IsAnd(j) THEN {j} \cup c[stack[j].e] ELSE {}
  IN  c[i]
Choices(i) ==
  LET c[j \in 0..Len(stack)] == IF IsOr(j) THEN {j} \cup c[stack[j].b] ELSE {}
  IN  c[i]

-----------------------------------------------------------------------------
(* Choice points. *)

(* The frame try_me_else and indexed_try fill in.  `alt` is the phase of the *)
(* alternative and `own` (history) the environment of its clause.            *)
OrFrame(alt) ==
  [kind |-> "or", e |-> e, cp |-> cp, b |-> b, b0 |-> b0,
   alt |-> alt, own |-> env, bar |-> bar]

PushChoice(st, alt) ==
  /\ Len(stack) < MaxStack
  /\ stack' = Append(st, OrFrame(alt))
  /\ b' = Len(stack) + 1

(* TryMeElse, Try: the first of several clauses that apply. *)
TryMeElse ==
  /\ ph = "entry" /\ ph' = "neck"
  /\ PushChoice(stack, "neck")
  /\ UNCHANGED <<e, b0, cp, env, bar>>

(* Only one clause applies, or the search of next_applicable_clause finds no *)
(* other one that does: no choice point is made.                             *)
OnlyClause ==
  /\ ph = "entry" /\ ph' = "neck"
  /\ UNCHANGED <<stack, e, b, b0, cp, env, bar>>

(* Mutant: b0 stays that of the last call made. *)
RestoredB0Stale(c) == b0

(* backtrack takes b0 from the choice point. *)
RestoredB0(c) == stack[c].b0

(* backtrack with c as the choice point. *)
FailTo(c) ==
  /\ ph' = IF stack[c].alt = "halt" THEN "halt" ELSE "alt"
  /\ b0' = RestoredB0(c)
  /\ env' = None /\ bar' = None

(* Any goal may fail, and so may the user's request for another answer. *)
Fail ==
  /\ ph \in EnvPhases \cup {"neck", "done"}
  /\ FailTo(b)
  /\ UNCHANGED <<stack, e, b, cp>>

(* What retry_me_else, retry, trust_me and trust restore. *)
Restore ==
  LET o == stack[b] IN
  /\ ph = "alt" /\ ph' = o.alt
  /\ e' = o.e /\ cp' = o.cp
  /\ env' = o.own /\ bar' = o.bar
  /\ UNCHANGED b0

(* RetryMeElse, Retry: there are more clauses after this one.  Frames above  *)
(* the choice point are left where they are.                                 *)
RetryMeElse ==
  /\ Restore
  /\ UNCHANGED <<stack, b>>

(* TrustMe, Trust: this is the last clause, or the last that applies.  The   *)
(* frame goes, with all above it.                                            *)
TrustMe ==
  /\ Restore
  /\ stack' = SubSeq(stack, 1, b - 1)
  /\ b' = stack[b].b

-----------------------------------------------------------------------------
(* Cuts. *)

(* Mutant: the frame goes even when an environment lies above it. *)
NeckCutStackAlways == SubSeq(stack, 1, b - 1)

(* neck_cut truncates the stack at the newest choice point when no           *)
(* environment lies above it.                                                *)
NeckCutStack == IF b > e THEN SubSeq(stack, 1, b - 1) ELSE stack

(* neck_cut: drop the choice points of this predicate.  It is the cut of the *)
(* first chunk.  A disjunction opens another one, and a clause with a cut in *)
(* any but the first begins with get_level, in a chunk that comes before the *)
(* disjunction (emit_initial_get_level): a cut in a disjunct is Cut.         *)
NeckCut ==
  /\ ph \in {"neck", "start"}
  /\ b > b0
  /\ b' = b0
  /\ stack' = NeckCutStack
  /\ UNCHANGED <<e, b0, cp, ph, env, bar>>

(* get_level: remember what a later cut goes back to. *)
GetLevel ==
  /\ ph = "start"
  /\ stack[e].lvl = None
  /\ stack' = [stack EXCEPT ![e].lvl = b0]
  /\ UNCHANGED <<e, b, b0, cp, ph, env, bar>>

(* cut_body *)
CutTo(level) == b' = IF b > level THEN level ELSE b

(* Cut in the body of a clause. *)
Cut ==
  /\ ph = "body"
  /\ stack[e].lvl # None
  /\ CutTo(stack[e].lvl)
  /\ UNCHANGED <<stack, e, b0, cp, ph, env, bar>>

(* ( A ; B ): A runs first, with B as its alternative. *)
Disjunction ==
  /\ ph \in {"start", "body"} /\ ph' = "body"
  /\ PushChoice(stack, "body")
  /\ UNCHANGED <<e, b0, cp, env, bar>>

(* Mutant: the level is that of the choice point just made. *)
PrevLevelSelf == Len(stack) + 1

(* get_prev_level, right after try_me_else: the choice point before it. *)
PrevLevel == b

(* ( If -> Then ; Else ): try_me_else, then get_prev_level. *)
IfThenElse ==
  /\ ph \in {"start", "body"} /\ ph' = "cond"
  /\ PushChoice([stack EXCEPT ![e].cut = PrevLevel, ![e].branch = Len(stack) + 1], "body")
  /\ UNCHANGED <<e, b0, cp, env, bar>>

(* The condition succeeded: cut back to the saved level and go on. *)
LocalCut ==
  /\ ph = "cond" /\ ph' = "body"
  /\ CutTo(stack[e].cut)
  /\ UNCHANGED <<stack, e, b0, cp, env, bar>>

(* \+ Goal: try_me_else, then get_cut_point. *)
Negation ==
  /\ ph \in {"start", "body"} /\ ph' = "neg"
  /\ PushChoice([stack EXCEPT ![e].cut = Len(stack) + 1, ![e].branch = Len(stack) + 1], "body")
  /\ UNCHANGED <<e, b0, cp, env, bar>>

(* Goal succeeded: cut_prev goes behind the saved choice point too, and the  *)
(* negation fails.                                                           *)
CutPrevFail ==
  /\ ph = "neg"
  /\ CutTo(stack[stack[e].cut].b)
  /\ FailTo(b')
  /\ UNCHANGED <<stack, e, cp>>

-----------------------------------------------------------------------------
(* Calls and environments. *)

(* allocate *)
Allocate ==
  /\ ph = "neck" /\ ph' = "start"
  /\ Len(stack) < MaxStack
  /\ stack' = Append(stack, [kind |-> "and", e |-> e, cp |-> cp, lvl |-> None,
                             cut |-> None, branch |-> None, bar |-> bar])
  /\ e' = Len(stack) + 1 /\ env' = e'
  /\ UNCHANGED <<b, b0, cp, bar>>

(* Where a clause goes on after a call it made. *)
After == IF ph = "start" THEN "body" ELSE ph

(* CallNamed: call_at_index. *)
Call ==
  /\ ph \in EnvPhases /\ ph' = "entry"
  /\ cp' = [ph |-> After, env |-> env]
  /\ b0' = b /\ bar' = b
  /\ env' = None
  /\ UNCHANGED <<stack, e, b>>

(* ExecuteNamed, the last call: execute_at_index.  A clause with one goal    *)
(* and no permanent variables goes there straight from its neck.             *)
Execute ==
  /\ ph \in {"exec", "neck"} /\ ph' = "entry"
  /\ b0' = b /\ bar' = b
  /\ UNCHANGED <<stack, e, b, cp, env>>

(* Mutant: the caller's frame is taken for garbage too. *)
DeallocatedShort(e1) == IF e1 > b THEN SubSeq(stack, 1, e1 - 1) ELSE stack

(* deallocate keeps the frames up to the environment it returns to, unless   *)
(* a choice point above it protects what lies there.                         *)
Deallocated(e1) == IF e1 > b THEN SubSeq(stack, 1, e1) ELSE stack

(* Deallocate, before the last call ("exec") or before Proceed ("ret"). *)
Deallocate(next) ==
  /\ ph \in {"body", "start"} /\ ph' = next
  /\ cp' = stack[e].cp
  /\ e' = stack[e].e
  /\ stack' = Deallocated(stack[e].e)
  /\ env' = None /\ bar' = None
  /\ UNCHANGED <<b, b0>>

(* Proceed *)
Proceed ==
  /\ ph \in {"ret", "neck"}
  /\ ph' = cp.ph /\ env' = cp.env
  /\ bar' = None
  /\ UNCHANGED <<stack, e, b, b0, cp>>

Next ==
  \/ TryMeElse \/ OnlyClause \/ Fail \/ RetryMeElse \/ TrustMe
  \/ NeckCut \/ GetLevel \/ Cut
  \/ Disjunction \/ IfThenElse \/ LocalCut \/ Negation \/ CutPrevFail
  \/ Allocate \/ Call \/ Execute \/ Deallocate("exec") \/ Deallocate("ret") \/ Proceed

Spec == Init /\ [][Next]_ctrlVars

-----------------------------------------------------------------------------
Positions == 0..MaxStack
Conts == [ph : Phases, env : Positions]
AndFrames == [kind : {"and"}, e : Positions, cp : Conts, lvl : Positions,
              cut : Positions, branch : Positions, bar : Positions]
OrFrames == [kind : {"or"}, e : Positions, cp : Conts, b : Positions, b0 : Positions,
             alt : {"neck", "body", "halt"}, own : Positions, bar : Positions]

(* Every variable has its type: above all there is always a choice point to  *)
(* fail to.                                                                  *)
TypeOK ==
  /\ stack \in Seq(AndFrames \cup OrFrames) /\ Len(stack) <= MaxStack
  /\ e \in Positions /\ b \in Positions \ {None} /\ b0 \in Positions
  /\ cp \in Conts /\ ph \in Phases
  /\ env \in Positions /\ bar \in Positions

(* The chain of environments and the chain of choice points, from the        *)
(* registers and from every frame, lead down the stack through frames of the *)
(* right kind that are still there: deallocate, trust_me and neck_cut never  *)
(* give up a frame that something still refers to.                           *)
FramesLive ==
  /\ e = None \/ IsAnd(e)
  /\ IsOr(b)
  /\ \A i \in DOMAIN stack :
       /\ stack[i].e < i /\ (stack[i].e = None \/ IsAnd(stack[i].e))
       /\ stack[i].kind = "or" => /\ stack[i].b < i
                                  /\ stack[i].b = None \/ IsOr(stack[i].b)

(* A clause that goes on, after a call it made returned, at whatever depth   *)
(* and through whatever backtracking, finds its own environment in e; and    *)
(* the alternative of a disjunction finds the environment of its clause.     *)
OwnEnvironment == ph \in EnvPhases => e = env /\ IsAnd(e)

(* b0 is the choice point the machine had when the current predicate was     *)
(* called, in its first and in every later clause, and so is the level a     *)
(* live environment saved; that choice point is still there to cut back to.  *)
CutBarrier ==
  LET Saved(i, c) == \A j \in Envs(i) : stack[j].lvl # None =>
                       stack[j].lvl = stack[j].bar /\ stack[j].lvl \in Choices(c)
  IN  /\ ph \in {"entry", "neck", "start"} => b0 = bar /\ b0 \in Choices(b)
      /\ Saved(e, b)
      /\ \A c \in Choices(b) : Saved(stack[c].e, c)

(* When its condition succeeds an if-then-else keeps exactly the choice      *)
(* points that were there before it, and so does a negation whose goal       *)
(* succeeds: the other branch and everything the goal left behind go,        *)
(* nothing older does.                                                       *)
CommitsToBranch ==
  [][LocalCut \/ CutPrevFail =>
       Choices(b') = {c \in Choices(b) : c < stack[env].branch}]_ctrlVars
==============================================================================
