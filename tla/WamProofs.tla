------------------------------ MODULE WamProofs ------------------------------
(***************************************************************************)
(* Proofs about the abstract machine: first what WamControl promises, then  *)
(* what Wam adds to it, which rests on the first.                           *)
(***************************************************************************)
EXTENDS Wam, SequenceTheorems, WellFoundedInduction, TLAPS

-----------------------------------------------------------------------------
(***************************************************************************)
(* The control of the abstract machine, for stacks of any height.           *)
(*                                                                          *)
(* The stack holds frames nothing refers to any more: cut choice points,    *)
(* and environments left behind under a choice point that was then cut.     *)
(* They never move, so what was true of a frame's own fields when it was    *)
(* pushed stays true (Frame).  What depends on fields that are overwritten, *)
(* the branch an environment's open condition goes back to, holds only of   *)
(* frames still in use; the invariant therefore speaks of a set L of frames *)
(* that is closed under the links (Linked) and of which the choice points   *)
(* are exactly those reached from b.  Environments and choice points are    *)
(* nested (Nested): a choice point above an environment of the chain was    *)
(* made under it.  That is what rules out that a clause goes on in its body *)
(* while something still counts on its condition being open.                *)
(***************************************************************************)


GoalPhases == {"cond", "neg"}
CalleePhases == {"entry", "neck", "exec", "ret"}

(* A continuation goes on in the clause that owns environment i. *)
ContOf(k, i) ==
  /\ k.env = i
  /\ k.ph \in {"body", "cond", "neg", "done"}
  /\ k.ph = "done" <=> i = None

(* The choice point that was there when the predicate that owns environment  *)
(* i, if any, was called, is no newer than c.                                *)
Under(i, c) == i # None => stack[i].bar <= c

(* An or-frame that is the alternative of a predicate, which goes on where   *)
(* its caller said; and-frames do in any case.                               *)
HasCont(i) == IsAnd(i) \/ (IsOr(i) /\ stack[i].alt = "neck")

(* What holds of every frame on the stack, in use or not. *)
AndFrame(i) ==
  /\ ContOf(stack[i].cp, stack[i].e)
  /\ stack[i].bar < i /\ IsOr(stack[i].bar)
  /\ Under(stack[i].e, stack[i].bar)
  /\ stack[i].lvl \in {None, stack[i].bar}
OrFrameOK(i) ==
  /\ stack[i].b < i
  /\ stack[i].b = None \/ IsOr(stack[i].b)
  /\ stack[i].b = None <=> stack[i].alt = "halt"
  /\ stack[i].alt = "neck" =>
       /\ ContOf(stack[i].cp, stack[i].e)
       /\ IsOr(stack[i].bar) /\ stack[i].bar <= stack[i].b /\ stack[i].b0 = stack[i].bar
       /\ Under(stack[i].e, stack[i].bar)
  /\ stack[i].alt = "body" =>
       /\ stack[i].own = stack[i].e /\ stack[i].e # None
       /\ Under(stack[i].e, stack[i].b)
Frame(i) ==
  /\ stack[i].e < i /\ (stack[i].e = None \/ IsAnd(stack[i].e))
  /\ IsAnd(i) => AndFrame(i)
  /\ IsOr(i) => OrFrameOK(i)

Frames == \A i \in DOMAIN stack : Frame(i)

(* L is closed under the links of its frames, the registers point into it,   *)
(* and its choice points are those reached from b.                           *)
LinkedFrames(L) ==
  /\ L \subseteq DOMAIN stack
  /\ \A i \in L :
       /\ stack[i].e = None \/ stack[i].e \in L
       /\ HasCont(i) => stack[i].bar \in L
       /\ IsOr(i) => stack[i].b = None \/ stack[i].b \in L
  /\ \A i, d \in L : IsOr(i) /\ IsOr(d) /\ d < i => d <= stack[i].b
LinkedRegs(L) ==
  /\ b \in L /\ IsOr(b)
  /\ e = None \/ (e \in L /\ IsAnd(e))
  /\ \A i \in L : IsOr(i) => i <= b
Linked(L) == LinkedFrames(L) /\ LinkedRegs(L)

(* A choice point above an environment of a chain was made under it. *)
NestedFrames(L) ==
  \A i, d \in L : IsOr(d) /\ stack[i].e < d /\ d < i => stack[d].e >= stack[i].e
NestedRegs(L) == \A d \in L : IsOr(d) /\ d > e => stack[d].e >= e
Nested(L) == NestedFrames(L) /\ NestedRegs(L)

(* Frame i goes on in the condition, or the negation, of its environment.     *)
CondRef(i) == HasCont(i) /\ stack[i].cp.ph \in GoalPhases
(* Frame i goes on in the body of its environment. *)
BodyRef(i) ==
  \/ HasCont(i) /\ stack[i].cp.ph = "body"
  \/ IsOr(i) /\ stack[i].alt = "body"

(* Something is still to go on in the condition of environment i. *)
RegOpen(i) == e = i /\ (ph \in GoalPhases \/ (ph \in CalleePhases /\ cp.ph \in GoalPhases))
FrameOpen(L, i) == \E y \in L : CondRef(y) /\ stack[y].e = i
Open(L, i) == RegOpen(i) \/ FrameOpen(L, i)

(* The condition (p = "cond") or negation ("neg") of environment i is open,   *)
(* and its branch is in use.                                                  *)
Branch(L, i, p) ==
  LET f == stack[i] IN
  /\ f.branch \in L /\ IsOr(f.branch) /\ i < f.branch
  /\ stack[f.branch].e = i /\ stack[f.branch].alt = "body"
  /\ p = "cond" => f.cut = stack[f.branch].b
  /\ p = "neg" => f.cut = f.branch

CondRefs(L) == \A y \in L : CondRef(y) =>
  /\ Branch(L, stack[y].e, stack[y].cp.ph)
  /\ stack[stack[y].e].branch <= stack[y].bar
BodyRefs(L) == \A i \in L : BodyRef(i) /\ Open(L, stack[i].e) => i <= stack[stack[i].e].branch

(* The registers, phase by phase: a predicate to be entered, running its neck *)
(* or about to return; one whose clauses are tried; a clause with an          *)
(* environment, in its condition or not; a choice point to be retried.        *)
CalleeRegs(L) ==
  /\ ContOf(cp, e) /\ Under(e, b)
  /\ cp.ph \in GoalPhases => Branch(L, e, cp.ph) /\ stack[e].branch <= b
  /\ cp.ph = "body" => ~ Open(L, e)
EntryRegs(L) ==
  /\ bar \in L /\ IsOr(bar) /\ b0 = bar /\ bar <= b /\ Under(e, bar)
  /\ cp.ph \in GoalPhases => stack[e].branch <= bar
EnvRegs == e = env /\ e # None /\ Under(e, b)
StartRegs == b0 = bar /\ bar = stack[e].bar
GoalRegs(L) == Branch(L, e, ph) /\ stack[e].branch <= b
AltRegs == stack[b].alt # "halt" /\ b0 = stack[b].b0

Registers(L) ==
  /\ ph \in CalleePhases => CalleeRegs(L)
  /\ ph \in {"entry", "neck"} => EntryRegs(L)
  /\ ph \in EnvPhases => EnvRegs
  /\ ph = "start" => StartRegs
  /\ ph \in {"start", "body"} => ~ Open(L, e)
  /\ ph \in GoalPhases => GoalRegs(L)
  /\ ph = "alt" => AltRegs

Live(L) == Linked(L) /\ Nested(L) /\ CondRefs(L) /\ BodyRefs(L) /\ Registers(L)

(* The inductive invariant. *)
Inv == TypeOK /\ Frames /\ \E L \in SUBSET DOMAIN stack : Live(L)

-----------------------------------------------------------------------------
(* A set of numbers has a smallest one. *)
LEMMA Smallest ==
  ASSUME NEW T \in SUBSET Nat, T # {}
  PROVE  \E u \in T : \A y \in T : u <= y
<1>1. PICK u \in T : \A y \in T : ~ (<<y, u>> \in OpToRel(<, Nat))
  BY NatLessThanWellFounded, WFMin
<1>2. \A y \in T : ~ (y < u)
  BY <1>1 DEF OpToRel
<1>3. u \in Nat /\ \A y \in T : y \in Nat
  OBVIOUS
<1> QED BY <1>2, <1>3

(* A sequence cut down to its first n elements. *)
LEMMA Prefix ==
  ASSUME NEW W, NEW s \in Seq(W), NEW n \in 0..Len(s)
  PROVE  /\ SubSeq(s, 1, n) \in Seq(W)
         /\ Len(SubSeq(s, 1, n)) = n
         /\ \A i \in 1..n : SubSeq(s, 1, n)[i] = s[i]
<1>1. Len(s) \in Nat /\ \A i \in 1..Len(s) : s[i] \in W
  BY LenProperties, ElementOfSeq
<1>2. n \in Int /\ 1 \in Int /\ \A i \in 1..n : s[i] \in W
  BY <1>1
<1>3. /\ SubSeq(s, 1, n) \in Seq(W)
      /\ Len(SubSeq(s, 1, n)) = IF 1 <= n THEN n - 1 + 1 ELSE 0
      /\ \A i \in 1..n - 1 + 1 : SubSeq(s, 1, n)[i] = s[1 + i - 1]
  BY <1>2, SubSeqProperties
<1> QED BY <1>1, <1>3

AnyFrames == AndFrames \cup OrFrames

(* What TypeOK says of the frames, field by field. *)
LEMMA FrameTypes ==
  ASSUME TypeOK
  PROVE  /\ Len(stack) \in Nat /\ DOMAIN stack = 1..Len(stack) /\ stack \in Seq(AnyFrames)
         /\ \A i \in DOMAIN stack :
              /\ stack[i] \in AnyFrames
              /\ stack[i].kind \in {"and", "or"}
              /\ stack[i].e \in Positions /\ stack[i].cp \in Conts /\ stack[i].bar \in Positions
         /\ \A i : IsAnd(i) => /\ i \in DOMAIN stack /\ ~ IsOr(i) /\ stack[i] \in AndFrames
                               /\ stack[i].lvl \in Positions /\ stack[i].cut \in Positions
                               /\ stack[i].branch \in Positions
         /\ \A i : IsOr(i) => /\ i \in DOMAIN stack /\ ~ IsAnd(i) /\ stack[i] \in OrFrames
                              /\ stack[i].b \in Positions /\ stack[i].b0 \in Positions
                              /\ stack[i].own \in Positions
                              /\ stack[i].alt \in {"neck", "body", "halt"}
         /\ \A i \in DOMAIN stack : IsAnd(i) \/ IsOr(i)
<1>1. stack \in Seq(AnyFrames)
  BY DEF TypeOK, AnyFrames
<1>2. Len(stack) \in Nat /\ DOMAIN stack = 1..Len(stack)
  BY <1>1
<1>3. \A i \in DOMAIN stack : stack[i] \in AnyFrames
  BY <1>1, <1>2, ElementOfSeq
<1>4. \A f \in AnyFrames :
        /\ f.kind \in {"and", "or"} /\ f.e \in Positions /\ f.cp \in Conts /\ f.bar \in Positions
        /\ f.kind = "and" => /\ f \in AndFrames /\ f.lvl \in Positions
                             /\ f.cut \in Positions /\ f.branch \in Positions
        /\ f.kind = "or" => /\ f \in OrFrames /\ f.b \in Positions /\ f.b0 \in Positions
                            /\ f.own \in Positions /\ f.alt \in {"neck", "body", "halt"}
  BY DEF AnyFrames, AndFrames, OrFrames
<1>5. \A i \in DOMAIN stack : stack[i].kind \in {"and", "or"}
  BY <1>3, <1>4
<1> QED BY <1>1, <1>2, <1>3, <1>4, <1>5 DEF IsAnd, IsOr

(* The same of the frames after a step. *)
LEMMA FrameTypesNext ==
  ASSUME TypeOK'
  PROVE  /\ Len(stack') \in Nat /\ DOMAIN stack' = 1..Len(stack')
         /\ \A i \in DOMAIN stack' :
              /\ stack'[i].kind \in {"and", "or"}
              /\ stack'[i].e \in Positions /\ stack'[i].bar \in Positions
         /\ \A i : IsAnd(i)' => /\ i \in DOMAIN stack' /\ ~ IsOr(i)'
                                /\ stack'[i].lvl \in Positions /\ stack'[i].cut \in Positions
                                /\ stack'[i].branch \in Positions
         /\ \A i : IsOr(i)' => /\ i \in DOMAIN stack' /\ ~ IsAnd(i)'
                               /\ stack'[i].b \in Positions /\ stack'[i].b0 \in Positions
                               /\ stack'[i].alt \in {"neck", "body", "halt"}
<1>1. stack' \in Seq(AnyFrames)
  BY DEF TypeOK, AnyFrames
<1>2. Len(stack') \in Nat /\ DOMAIN stack' = 1..Len(stack')
  BY <1>1
<1>3. \A i \in DOMAIN stack' : stack'[i] \in AnyFrames
  BY <1>1, <1>2, ElementOfSeq
<1>4. \A f \in AnyFrames :
        /\ f.kind \in {"and", "or"} /\ f.e \in Positions /\ f.cp \in Conts /\ f.bar \in Positions
        /\ f.kind = "and" => /\ f \in AndFrames /\ f.lvl \in Positions
                             /\ f.cut \in Positions /\ f.branch \in Positions
        /\ f.kind = "or" => /\ f \in OrFrames /\ f.b \in Positions /\ f.b0 \in Positions
                            /\ f.own \in Positions /\ f.alt \in {"neck", "body", "halt"}
  BY DEF AnyFrames, AndFrames, OrFrames
<1>5. \A i \in DOMAIN stack' : stack'[i].kind \in {"and", "or"}
  BY <1>3, <1>4
<1> QED BY <1>1, <1>2, <1>3, <1>4, <1>5 DEF IsAnd, IsOr

(* A stack that may have been cut down to m frames. *)
LEMMA Shorter ==
  ASSUME TypeOK, NEW m \in 0..Len(stack), stack' = SubSeq(stack, 1, m) \/ stack' = stack
  PROVE  /\ stack' \in Seq(AnyFrames) /\ Len(stack') <= Len(stack)
         /\ \A i \in 1..Len(stack') : stack'[i] = stack[i]
<1>1. stack \in Seq(AnyFrames) /\ Len(stack) \in Nat
  BY FrameTypes
<1>2. CASE stack' = SubSeq(stack, 1, m)
  <2>1. stack' \in Seq(AnyFrames) /\ Len(stack') = m /\ \A i \in 1..m : stack'[i] = stack[i]
    BY <1>1, <1>2, Prefix
  <2> QED BY <1>1, <2>1
<1>3. CASE stack' = stack
  BY <1>1, <1>3
<1> QED BY <1>2, <1>3

(* The stack after PushChoice(st, alt), for an st of as many frames. *)
LEMMA PushType ==
  ASSUME TypeOK, NEW st \in Seq(AnyFrames), Len(st) = Len(stack),
         NEW alt \in {"neck", "body"}, PushChoice(st, alt)
  PROVE  /\ stack' \in Seq(AnyFrames) /\ Len(stack') = Len(stack) + 1 /\ Len(stack') <= MaxStack
         /\ b' = Len(stack) + 1 /\ b' \in Positions \ {None}
         /\ \A i \in 1..Len(stack) : stack'[i] = st[i]
         /\ stack'[Len(stack) + 1] = OrFrame(alt)
<1>1. OrFrame(alt) \in OrFrames
  BY DEF OrFrame, OrFrames, TypeOK
<1>2. OrFrame(alt) \in AnyFrames
  BY <1>1 DEF AnyFrames
<1>3. stack' = Append(st, OrFrame(alt)) /\ Len(stack) < MaxStack /\ b' = Len(stack) + 1
  BY DEF PushChoice
<1>4. Len(stack) \in Nat
  BY FrameTypes
<1>5. /\ stack' \in Seq(AnyFrames) /\ Len(stack') = Len(stack) + 1
      /\ \A i \in 1..Len(stack) : stack'[i] = st[i]
      /\ stack'[Len(stack) + 1] = OrFrame(alt)
  BY <1>2, <1>3, AppendProperties
<1> QED BY <1>3, <1>4, <1>5, StackBound DEF Positions, None

(* Writing into the environment leaves a stack of as many frames. *)
LEMMA ExceptType ==
  ASSUME TypeOK, IsAnd(e), NEW f \in AndFrames
  PROVE  LET st == [stack EXCEPT ![e] = f] IN
         /\ st \in Seq(AnyFrames) /\ Len(st) = Len(stack)
         /\ \A i \in 1..Len(stack) : st[i] = IF i = e THEN f ELSE stack[i]
<1>1. stack \in Seq(AnyFrames) /\ e \in 1..Len(stack)
  BY FrameTypes
<1>2. f \in AnyFrames
  BY DEF AnyFrames
<1> QED BY <1>1, <1>2, ExceptSeq

-----------------------------------------------------------------------------
(* The environment of a clause that has one. *)
LEMMA OwnEnv ==
  ASSUME NEW L, Live(L), ph \in EnvPhases
  PROVE  e = env /\ IsAnd(e) /\ e \in L
  BY DEF Live, Linked, LinkedRegs, Registers, EnvRegs

(* A cut inside an open condition or negation finds its choice point, and    *)
(* one before it.                                                            *)
LEMMA OpenBranch ==
  ASSUME TypeOK, Frames, NEW L, Linked(L), NEW i, NEW p, Branch(L, i, p)
  PROVE  LET f == stack[i] IN
         /\ f.branch \in L /\ IsOr(f.branch) /\ f.branch \in Nat
         /\ stack[f.branch].b # None /\ stack[f.branch].b < f.branch
         /\ stack[f.branch].b \in Positions \ {None}
         /\ stack[f.branch].b \in L /\ IsOr(stack[f.branch].b)
         /\ Under(i, stack[f.branch].b)
<1> DEFINE c == stack[i].branch
<1>1. c \in L /\ IsOr(c) /\ stack[c].e = i /\ stack[c].alt = "body"
  BY DEF Branch
<1>2. c \in DOMAIN stack /\ stack[c].b \in Positions /\ c \in Nat
  BY <1>1, FrameTypes
<1>3. OrFrameOK(c)
  BY <1>1, <1>2 DEF Frames, Frame
<1>4. /\ stack[c].b < c /\ stack[c].b # None /\ IsOr(stack[c].b)
      /\ Under(i, stack[c].b)
  BY <1>1, <1>3 DEF OrFrameOK
<1>5. stack[c].b \in L
  BY <1>1, <1>4 DEF Linked, LinkedFrames
<1> QED BY <1>1, <1>2, <1>4, <1>5

(* What LocalCut and CutPrevFail make of b. *)
LEMMA CutToBranch ==
  ASSUME TypeOK, Frames, NEW L, Live(L), LocalCut \/ CutPrevFail
  PROVE  LET c == stack[e].branch IN
         /\ b' = stack[c].b /\ IsOr(b') /\ b' \in L /\ b' \in Positions \ {None}
         /\ b' < c /\ c <= b /\ c \in L /\ IsOr(c) /\ Under(e, b')
<1> DEFINE c == stack[e].branch
<1>1. ph \in GoalPhases /\ Branch(L, e, ph) /\ c <= b /\ Linked(L)
  BY DEF LocalCut, CutPrevFail, GoalPhases, Live, Registers, GoalRegs
<1>2. /\ c \in L /\ IsOr(c) /\ c \in Nat /\ stack[c].b < c /\ stack[c].b \in L
      /\ IsOr(stack[c].b) /\ stack[c].b \in Positions \ {None} /\ Under(e, stack[c].b)
  BY <1>1, OpenBranch
<1>3. b \in Nat /\ stack[c].b \in Nat
  BY <1>2 DEF TypeOK, Positions
<1>4. CASE LocalCut
  <2>1. stack[e].cut = stack[c].b
    BY <1>1, <1>4 DEF LocalCut, Branch
  <2>2. b' = stack[c].b
    BY <1>1, <1>2, <1>3, <1>4, <2>1 DEF LocalCut, CutTo
  <2> QED BY <1>1, <1>2, <2>2
<1>5. CASE CutPrevFail
  <2>1. stack[e].cut = c
    BY <1>1, <1>5 DEF CutPrevFail, Branch
  <2>2. b' = stack[c].b
    BY <1>1, <1>2, <1>3, <1>5, <2>1 DEF CutPrevFail, CutTo
  <2> QED BY <1>1, <1>2, <2>2
<1> QED BY <1>4, <1>5

(* Failing to c: the stub choice point ends the run. *)
LEMMA FailType ==
  ASSUME TypeOK, NEW c, IsOr(c), FailTo(c)
  PROVE  ph' \in Phases /\ b0' \in Positions /\ env' \in Positions /\ bar' \in Positions
<1>1. stack[c].b0 \in Positions
  BY FrameTypes
<1>2. 0 \in Positions
  BY StackBound DEF Positions
<1> QED BY <1>1, <1>2 DEF FailTo, RestoredB0, Phases, None

(* What Restore takes from the choice point. *)
LEMMA RestoreType ==
  ASSUME TypeOK, IsOr(b), stack[b].alt # "halt", Restore
  PROVE  /\ ph' \in {"neck", "body"} /\ e' \in Positions /\ cp' \in Conts
         /\ env' \in Positions /\ bar' \in Positions /\ b0' \in Positions
<1>1. /\ b \in DOMAIN stack /\ stack[b].alt \in {"neck", "body", "halt"}
      /\ stack[b].own \in Positions
  BY FrameTypes
<1>2. stack[b].e \in Positions /\ stack[b].cp \in Conts /\ stack[b].bar \in Positions
  BY <1>1, FrameTypes
<1> QED BY <1>1, <1>2 DEF Restore, TypeOK

(* Every step keeps the types: the registers it loads come from frames that are there. *)
LEMMA TypeStep ==
  ASSUME TypeOK, Frames, NEW L \in SUBSET DOMAIN stack, Live(L), [Next]_ctrlVars
  PROVE  TypeOK'
<1> USE StackBound
<1>0. /\ stack \in Seq(AnyFrames) /\ Len(stack) \in Nat /\ Len(stack) <= MaxStack
      /\ e \in Positions /\ b \in Positions \ {None} /\ b0 \in Positions
      /\ cp \in Conts /\ ph \in Phases /\ env \in Positions /\ bar \in Positions
      /\ 0 \in Positions /\ IsOr(b) /\ b \in DOMAIN stack /\ DOMAIN stack = 1..Len(stack)
  BY FrameTypes DEF TypeOK, AnyFrames, Positions, Live, Linked, LinkedRegs
<1>1. SUFFICES /\ stack' \in Seq(AnyFrames) /\ Len(stack') <= MaxStack
               /\ e' \in Positions /\ b' \in Positions \ {None} /\ b0' \in Positions
               /\ cp' \in Conts /\ ph' \in Phases /\ env' \in Positions /\ bar' \in Positions
  BY DEF TypeOK, AnyFrames
<1>2. CASE TryMeElse
  <2>1. /\ stack' \in Seq(AnyFrames) /\ Len(stack') <= MaxStack /\ b' \in Positions \ {None}
    BY <1>0, <1>2, PushType DEF TryMeElse
  <2> QED BY <1>0, <1>2, <2>1 DEF TryMeElse, Phases
<1>3. CASE OnlyClause
  BY <1>0, <1>3 DEF OnlyClause, Phases
<1>4. CASE Fail
  <2>1. FailTo(b) /\ UNCHANGED <<stack, e, b, cp>>
    BY <1>4 DEF Fail
  <2> QED BY <1>0, <2>1, FailType
<1>5. CASE RetryMeElse \/ TrustMe
  <2>1. Restore /\ stack[b].alt # "halt"
    BY <1>5 DEF RetryMeElse, TrustMe, Restore, Live, Registers, AltRegs
  <2>2. /\ ph' \in Phases /\ e' \in Positions /\ cp' \in Conts
        /\ env' \in Positions /\ bar' \in Positions /\ b0' \in Positions
    BY <1>0, <2>1, RestoreType DEF Phases, EnvPhases
  <2>3. CASE RetryMeElse
    BY <1>0, <2>2, <2>3 DEF RetryMeElse
  <2>4. CASE TrustMe
    <3>1. stack' = SubSeq(stack, 1, b - 1) /\ b' = stack[b].b
      BY <2>4 DEF TrustMe
    <3>2. b - 1 \in 0..Len(stack)
      BY <1>0
    <3>3. stack' \in Seq(AnyFrames) /\ Len(stack') = b - 1
      BY <1>0, <3>1, <3>2, Prefix
    <3>4. stack[b].b \in Positions /\ stack[b].b # None
      BY <1>0, <2>1, FrameTypes DEF Frames, Frame, OrFrameOK
    <3>5. Len(stack') <= MaxStack
      BY <1>0, <3>2, <3>3
    <3> QED BY <2>2, <3>1, <3>3, <3>4, <3>5
  <2> QED BY <1>5, <2>3, <2>4
<1>6. CASE NeckCut
  <2>1. b' = b0 /\ IsOr(b0)
    <3>1. ph \in {"neck", "start"}
      BY <1>6 DEF NeckCut
    <3>2. CASE ph = "neck"
      BY <1>6, <3>2 DEF NeckCut, Live, Registers, EntryRegs
    <3>3. CASE ph = "start"
      <4>1. b0 = stack[e].bar /\ IsAnd(e)
        BY <3>3, OwnEnv DEF Live, Registers, StartRegs, EnvPhases
      <4>2. e \in DOMAIN stack
        BY <4>1, FrameTypes
      <4> QED BY <1>6, <4>1, <4>2 DEF NeckCut, Frames, Frame, AndFrame
    <3> QED BY <3>1, <3>2, <3>3
  <2>2. b' \in Positions \ {None}
    <3>1. b0 \in 1..Len(stack)
      BY <1>0, <2>1, FrameTypes
    <3> QED BY <1>0, <2>1, <3>1 DEF None
  <2>3. stack' = SubSeq(stack, 1, b - 1) \/ stack' = stack
    BY <1>6 DEF NeckCut, NeckCutStack
  <2>4. b - 1 \in 0..Len(stack)
    BY <1>0
  <2>5. stack' \in Seq(AnyFrames) /\ Len(stack') <= Len(stack)
    BY <2>3, <2>4, Shorter
  <2> QED BY <1>0, <1>6, <2>2, <2>5 DEF NeckCut
<1>7. CASE GetLevel
  <2>1. IsAnd(e)
    BY <1>7, OwnEnv DEF GetLevel, EnvPhases
  <2>2. stack[e] \in AndFrames
    BY <2>1, FrameTypes
  <2>3. [stack[e] EXCEPT !.lvl = b0] \in AndFrames
    BY <1>0, <2>2 DEF AndFrames
  <2>4. stack' = [stack EXCEPT ![e] = [stack[e] EXCEPT !.lvl = b0]]
    BY <1>7 DEF GetLevel
  <2>5. stack' \in Seq(AnyFrames) /\ Len(stack') = Len(stack)
    BY <2>1, <2>3, <2>4, ExceptType
  <2> QED BY <1>0, <1>7, <2>5 DEF GetLevel
<1>8. CASE Cut
  <2>1. IsAnd(e)
    BY <1>8, OwnEnv DEF Cut, EnvPhases
  <2>2. stack[e].lvl \in Positions \ {None}
    BY <1>8, <2>1, FrameTypes DEF Cut
  <2> QED BY <1>0, <1>8, <2>2 DEF Cut, CutTo
<1>9. CASE Disjunction
  <2>1. /\ stack' \in Seq(AnyFrames) /\ Len(stack') <= MaxStack /\ b' \in Positions \ {None}
    BY <1>0, <1>9, PushType DEF Disjunction
  <2> QED BY <1>0, <1>9, <2>1 DEF Disjunction, Phases, EnvPhases
<1>10. CASE IfThenElse \/ Negation
  <2>1. IsAnd(e)
    BY <1>10, OwnEnv DEF IfThenElse, Negation, EnvPhases
  <2>2. stack[e] \in AndFrames
    BY <2>1, FrameTypes
  <2>3. PICK l \in {b, Len(stack) + 1} :
          PushChoice([stack EXCEPT ![e] = [stack[e] EXCEPT !.cut = l, !.branch = Len(stack) + 1]],
                     "body")
    BY <1>10 DEF IfThenElse, Negation, PrevLevel
  <2>4. Len(stack) + 1 \in Positions
    BY <1>0, <2>3 DEF PushChoice, Positions
  <2>5. [stack[e] EXCEPT !.cut = l, !.branch = Len(stack) + 1] \in AndFrames
    BY <1>0, <2>2, <2>4 DEF AndFrames
  <2>6. /\ [stack EXCEPT ![e] = [stack[e] EXCEPT !.cut = l, !.branch = Len(stack) + 1]]
             \in Seq(AnyFrames)
        /\ Len([stack EXCEPT ![e] = [stack[e] EXCEPT !.cut = l, !.branch = Len(stack) + 1]])
             = Len(stack)
    BY <2>1, <2>5, ExceptType
  <2>7. /\ stack' \in Seq(AnyFrames) /\ Len(stack') <= MaxStack /\ b' \in Positions \ {None}
    BY <2>3, <2>6, PushType
  <2>8. ph' \in Phases /\ UNCHANGED <<e, b0, cp, env, bar>>
    BY <1>10 DEF IfThenElse, Negation, Phases, EnvPhases
  <2> QED BY <1>0, <2>7, <2>8
<1>11. CASE LocalCut
  <2>1. b' \in Positions \ {None}
    BY <1>11, CutToBranch
  <2> QED BY <1>0, <1>11, <2>1 DEF LocalCut, Phases, EnvPhases
<1>12. CASE CutPrevFail
  <2>1. b' \in Positions \ {None} /\ IsOr(b')
    BY <1>12, CutToBranch
  <2>2. FailTo(b') /\ UNCHANGED <<stack, e, cp>>
    BY <1>12 DEF CutPrevFail
  <2>3. ph' \in Phases /\ b0' \in Positions /\ env' \in Positions /\ bar' \in Positions
    BY <2>1, <2>2, FailType
  <2> QED BY <1>0, <2>1, <2>2, <2>3
<1>13. CASE Allocate
  <2> DEFINE f == [kind |-> "and", e |-> e, cp |-> cp, lvl |-> None,
                   cut |-> None, branch |-> None, bar |-> bar]
  <2>1. f \in AndFrames
    BY <1>0 DEF AndFrames, None
  <2>2. f \in AnyFrames
    BY <2>1 DEF AnyFrames
  <2>3. stack' = Append(stack, f) /\ Len(stack) < MaxStack
    BY <1>13 DEF Allocate
  <2> HIDE DEF f
  <2>4. stack' \in Seq(AnyFrames) /\ Len(stack') = Len(stack) + 1
    BY <1>0, <2>2, <2>3, AppendProperties
  <2>5. Len(stack) + 1 \in Positions
    BY <1>0, <2>3 DEF Positions
  <2> QED BY <1>0, <1>13, <2>3, <2>4, <2>5 DEF Allocate, Phases, EnvPhases
<1>14. CASE Call
  <2>1. [ph |-> After, env |-> env] \in Conts
    BY <1>0 DEF Conts, After, Phases, EnvPhases
  <2> QED BY <1>0, <1>14, <2>1 DEF Call, Phases, None
<1>15. CASE Execute
  BY <1>0, <1>15 DEF Execute, Phases
<1>16. ASSUME NEW next \in {"exec", "ret"}, Deallocate(next) PROVE <1>1!1
  <2>1. IsAnd(e)
    BY <1>16, OwnEnv DEF Deallocate, EnvPhases
  <2>2. e \in DOMAIN stack /\ stack[e].e \in Positions /\ stack[e].cp \in Conts
    BY <2>1, FrameTypes
  <2>3. stack[e].e < e
    BY <2>2 DEF Frames, Frame
  <2>4. stack' = SubSeq(stack, 1, stack[e].e) \/ stack' = stack
    BY <1>16 DEF Deallocate, Deallocated
  <2>5. stack[e].e \in 0..Len(stack)
    BY <1>0, <2>2, <2>3 DEF Positions
  <2>6. stack' \in Seq(AnyFrames) /\ Len(stack') <= Len(stack)
    BY <2>4, <2>5, Shorter
  <2>7. ph' \in Phases
    BY <1>16 DEF Deallocate, Phases
  <2> QED BY <1>0, <1>16, <2>2, <2>6, <2>7 DEF Deallocate, None
<1>17. CASE Proceed
  <2>1. cp.ph \in Phases /\ cp.env \in Positions
    BY <1>0 DEF Conts
  <2> QED BY <1>0, <1>17, <2>1 DEF Proceed, None
<1>18. CASE UNCHANGED ctrlVars
  BY <1>0, <1>18 DEF ctrlVars
<1> QED
  BY <1>2, <1>3, <1>4, <1>5, <1>6, <1>7, <1>8, <1>9, <1>10, <1>11, <1>12, <1>13, <1>14,
     <1>15, <1>16, <1>17, <1>18 DEF Next

-----------------------------------------------------------------------------
(* A frame keeps everything a link, a continuation or a choice point says;    *)
(* get_level and the cut variables of an environment may be written.          *)
SameLinks(i) ==
  /\ stack'[i].kind = stack[i].kind /\ stack'[i].e = stack[i].e
  /\ stack'[i].cp = stack[i].cp /\ stack'[i].bar = stack[i].bar
  /\ IsOr(i) => /\ stack'[i].b = stack[i].b /\ stack'[i].b0 = stack[i].b0
                /\ stack'[i].alt = stack[i].alt /\ stack'[i].own = stack[i].own
  /\ IsAnd(i) => stack'[i].lvl \in {stack[i].lvl, stack[i].bar}
SameCuts(i) == stack'[i].cut = stack[i].cut /\ stack'[i].branch = stack[i].branch

(* Frames that keep their links are of the kind they were and go on where they did. *)
LEMMA SameKind ==
  ASSUME TypeOK, TypeOK', NEW m \in 0..Len(stack), m <= Len(stack'),
         \A i \in 1..m : SameLinks(i)
  PROVE  \A i \in 1..m : /\ IsAnd(i)' = IsAnd(i) /\ IsOr(i)' = IsOr(i)
                         /\ HasCont(i)' = HasCont(i) /\ CondRef(i)' = CondRef(i)
                         /\ BodyRef(i)' = BodyRef(i)
<1>1. \A i \in 1..m : i \in DOMAIN stack /\ i \in DOMAIN stack'
  BY FrameTypes, FrameTypesNext
<1>2. \A i \in 1..m : IsAnd(i)' = IsAnd(i) /\ IsOr(i)' = IsOr(i)
  BY <1>1 DEF SameLinks, IsAnd, IsOr
<1>3. \A i \in 1..m : HasCont(i)' = HasCont(i)
  BY <1>2 DEF SameLinks, HasCont
<1> QED BY <1>2, <1>3 DEF SameLinks, CondRef, BodyRef

(* What Frame says stays true of the frames that are left: it speaks of the   *)
(* frame and of frames below it.                                              *)
LEMMA FramesKept ==
  ASSUME TypeOK, TypeOK', Frames, NEW m \in 0..Len(stack), m <= Len(stack'),
         \A i \in 1..m : SameLinks(i)
  PROVE  \A i \in 1..m : Frame(i)'
<1> SUFFICES ASSUME NEW i \in 1..m PROVE Frame(i)'
  OBVIOUS
<1>1. m \in Nat /\ i \in Nat /\ i <= m /\ SameLinks(i)
  BY FrameTypes
<1>2. i \in DOMAIN stack /\ Frame(i)
  BY FrameTypes DEF Frames
<1>3. \A j \in 1..m : /\ IsAnd(j)' = IsAnd(j) /\ IsOr(j)' = IsOr(j)
                      /\ stack'[j].bar = stack[j].bar
  BY SameKind DEF SameLinks
<1>4. \A j : IsAnd(j) /\ j < i => j \in 1..m
  BY <1>1, FrameTypes
<1>5. \A j : IsOr(j) /\ j < i => j \in 1..m
  BY <1>1, FrameTypes
<1>6. stack[i].e \in Nat /\ stack[i].bar \in Nat
  BY <1>2, FrameTypes DEF Positions
<1>7. \A j, c : (j = None \/ IsAnd(j)) /\ j < i /\ Under(j, c) => Under(j, c)'
  BY <1>3, <1>4 DEF Under
<1>8. stack'[i].e < i /\ (stack'[i].e = None \/ IsAnd(stack[i].e)')
  BY <1>1, <1>2, <1>3, <1>4 DEF Frame, SameLinks
<1>9. ASSUME IsAnd(i) PROVE AndFrame(i)'
  <2>1. AndFrame(i)
    BY <1>2, <1>9 DEF Frame
  <2>2. ContOf(stack'[i].cp, stack'[i].e) /\ stack'[i].bar < i /\ IsOr(stack[i].bar)'
    BY <1>1, <1>3, <1>5, <2>1 DEF AndFrame, SameLinks
  <2>3. Under(stack[i].e, stack[i].bar)'
    BY <1>1, <1>2, <1>7, <2>1 DEF AndFrame, Frame, SameLinks
  <2>4. stack'[i].lvl \in {None, stack'[i].bar}
    BY <1>1, <1>9, <2>1 DEF AndFrame, SameLinks
  <2> QED BY <2>2, <2>3, <2>4 DEF AndFrame, ContOf
<1>10. ASSUME IsOr(i) PROVE OrFrameOK(i)'
  <2>1. OrFrameOK(i) /\ stack[i].b \in Nat
    BY <1>2, <1>10, FrameTypes DEF Frame, Positions
  <2>2. /\ stack'[i].b = stack[i].b /\ stack'[i].b0 = stack[i].b0
        /\ stack'[i].alt = stack[i].alt /\ stack'[i].own = stack[i].own
        /\ stack'[i].e = stack[i].e /\ stack'[i].cp = stack[i].cp /\ stack'[i].bar = stack[i].bar
    BY <1>1, <1>10 DEF SameLinks
  <2>3. /\ stack'[i].b < i
        /\ stack'[i].b = None \/ IsOr(stack[i].b)'
        /\ stack'[i].b = None <=> stack'[i].alt = "halt"
    BY <1>3, <1>5, <2>1, <2>2 DEF OrFrameOK
  <2>4. ASSUME stack[i].alt = "neck"
        PROVE  /\ ContOf(stack'[i].cp, stack'[i].e)
               /\ IsOr(stack[i].bar)' /\ stack'[i].bar <= stack'[i].b
               /\ stack'[i].b0 = stack'[i].bar
               /\ Under(stack[i].e, stack[i].bar)'
    <3>1. /\ ContOf(stack[i].cp, stack[i].e)
          /\ IsOr(stack[i].bar) /\ stack[i].bar <= stack[i].b /\ stack[i].b0 = stack[i].bar
          /\ Under(stack[i].e, stack[i].bar) /\ stack[i].b < i
      BY <2>1, <2>4 DEF OrFrameOK
    <3>2. stack[i].bar < i
      BY <1>1, <1>6, <2>1, <3>1
    <3>3. IsOr(stack[i].bar)'
      BY <1>3, <1>5, <2>2, <3>1, <3>2
    <3>4. Under(stack[i].e, stack[i].bar)'
      BY <1>2, <1>7, <2>2, <3>1 DEF Frame
    <3> QED BY <2>2, <3>1, <3>3, <3>4 DEF ContOf
  <2>5. ASSUME stack[i].alt = "body"
        PROVE  /\ stack'[i].own = stack'[i].e /\ stack'[i].e # None
               /\ Under(stack[i].e, stack[i].b)'
    <3>1. /\ stack[i].own = stack[i].e /\ stack[i].e # None
          /\ Under(stack[i].e, stack[i].b)
      BY <2>1, <2>5 DEF OrFrameOK
    <3>2. Under(stack[i].e, stack[i].b)'
      BY <1>2, <1>7, <2>2, <3>1 DEF Frame
    <3> QED BY <2>2, <3>1, <3>2
  <2> QED BY <2>2, <2>3, <2>4, <2>5 DEF OrFrameOK, ContOf
<1> QED BY <1>3, <1>8, <1>9, <1>10 DEF Frame

-----------------------------------------------------------------------------
(* What is left of L when the choice points above c go and environment y      *)
(* stays: everything up to c, and the environments up to y that were called   *)
(* from c or below.                                                           *)
Keep(L, c, y) == {i \in L : i <= c \/ (IsAnd(i) /\ i <= y /\ stack[i].bar <= c)}

(* Where a frame that goes on somewhere was called from. *)
LEMMA BarBelow ==
  ASSUME TypeOK, Frames, NEW i, HasCont(i)
  PROVE  /\ stack[i].bar \in Nat /\ stack[i].bar < i /\ IsOr(stack[i].bar)
         /\ ContOf(stack[i].cp, stack[i].e) /\ Under(stack[i].e, stack[i].bar)
<1>1. i \in DOMAIN stack /\ i \in Nat
  BY FrameTypes DEF HasCont
<1>2. stack[i].bar \in Nat /\ Frame(i)
  BY <1>1, FrameTypes DEF Positions, Frames
<1>3. CASE IsAnd(i)
  BY <1>2, <1>3 DEF Frame, AndFrame
<1>4. CASE IsOr(i) /\ stack[i].alt = "neck"
  <2>1. stack[i].b \in Nat
    BY <1>4, FrameTypes DEF Positions
  <2>2. OrFrameOK(i)
    BY <1>2, <1>4 DEF Frame
  <2> QED BY <1>1, <1>2, <1>4, <2>1, <2>2 DEF OrFrameOK
<1> QED BY <1>3, <1>4 DEF HasCont

(* A stack that is cut down, and a part K of L that is closed again.          *)
Cutdown(L, K, c, y) ==
  /\ L \subseteq DOMAIN stack /\ LinkedFrames(L) /\ NestedFrames(L) /\ CondRefs(L)
  /\ K = Keep(L, c, y) /\ K \subseteq 1..Len(stack')
  /\ Len(stack') <= Len(stack)
  /\ \A i \in 1..Len(stack') : SameLinks(i) /\ SameCuts(i)

(* The frames kept are what they were. *)
LEMMA CutdownKinds ==
  ASSUME TypeOK, TypeOK', Frames, NEW L, NEW K, NEW c \in Nat, NEW y \in Nat,
         Cutdown(L, K, c, y)
  PROVE  \A i \in K : /\ i \in L /\ i \in Nat /\ i \in DOMAIN stack /\ i \in 1..Len(stack')
                      /\ SameLinks(i) /\ SameCuts(i)
                      /\ IsAnd(i)' = IsAnd(i) /\ IsOr(i)' = IsOr(i)
                      /\ HasCont(i)' = HasCont(i) /\ CondRef(i)' = CondRef(i)
                      /\ BodyRef(i)' = BodyRef(i)
<1>1. Len(stack') \in 0..Len(stack) /\ Len(stack') <= Len(stack') /\ DOMAIN stack = 1..Len(stack)
  BY FrameTypes, FrameTypesNext DEF Cutdown
<1>2. \A i \in K : i \in L /\ i \in 1..Len(stack')
  BY DEF Cutdown, Keep
<1>3. \A i \in 1..Len(stack') : SameLinks(i) /\ SameCuts(i)
  BY DEF Cutdown
<1>4. \A i \in 1..Len(stack') : /\ IsAnd(i)' = IsAnd(i) /\ IsOr(i)' = IsOr(i)
                               /\ HasCont(i)' = HasCont(i) /\ CondRef(i)' = CondRef(i)
                               /\ BodyRef(i)' = BodyRef(i)
  BY <1>1, <1>3, SameKind
<1> QED BY <1>1, <1>2, <1>3, <1>4

(* K is closed under the links and under the choice points calls were made at. *)
LEMMA KeepClosed ==
  ASSUME TypeOK, Frames, NEW L, L \subseteq DOMAIN stack, LinkedFrames(L),
         NEW c \in Nat, NEW y \in Nat, NEW i \in Keep(L, c, y)
  PROVE  /\ stack[i].e = None \/ stack[i].e \in Keep(L, c, y)
         /\ HasCont(i) => stack[i].bar \in Keep(L, c, y) /\ stack[i].bar <= c
         /\ IsOr(i) => stack[i].b = None \/ stack[i].b \in Keep(L, c, y)
<1>1. i \in L /\ i \in DOMAIN stack /\ i \in Nat /\ Frame(i) /\ stack[i].e \in Nat
  BY FrameTypes DEF Keep, Frames, Positions
<1>2. /\ stack[i].e = None \/ stack[i].e \in L
      /\ HasCont(i) => stack[i].bar \in L
      /\ IsOr(i) => stack[i].b = None \/ stack[i].b \in L
  BY <1>1 DEF LinkedFrames
<1>3. HasCont(i) => stack[i].bar \in Nat /\ stack[i].bar < i
  BY BarBelow
<1>4. IsOr(i) => stack[i].b < i /\ stack[i].b \in Nat
  BY <1>1, FrameTypes DEF Frame, OrFrameOK, Positions
<1>5. stack[i].e < i /\ (stack[i].e # None => IsAnd(stack[i].e))
  BY <1>1 DEF Frame
<1>6. CASE i <= c
  <2>1. stack[i].e <= c /\ (HasCont(i) => stack[i].bar <= c) /\ (IsOr(i) => stack[i].b <= c)
    BY <1>1, <1>3, <1>4, <1>5, <1>6
  <2> QED BY <1>2, <2>1 DEF Keep
<1>7. CASE IsAnd(i) /\ i <= y /\ stack[i].bar <= c
  <2>1. HasCont(i) /\ ~ IsOr(i)
    BY <1>7, FrameTypes DEF HasCont
  <2>2. stack[i].bar \in Keep(L, c, y)
    BY <1>2, <1>7, <2>1 DEF Keep
  <2>3. CASE stack[i].e = None
    BY <1>7, <2>1, <2>2, <2>3
  <2>4. CASE stack[i].e # None
    <3>1. stack[stack[i].e].bar <= stack[i].bar /\ stack[stack[i].e].bar \in Nat
      <4>1. Under(stack[i].e, stack[i].bar)
        BY <2>1, BarBelow
      <4>2. stack[i].e \in DOMAIN stack
        BY <1>5, <2>4, FrameTypes
      <4> QED BY <2>4, <4>1, <4>2, FrameTypes DEF Under, Positions
    <3>2. stack[stack[i].e].bar <= c /\ stack[i].e <= y
      BY <1>1, <1>3, <1>5, <1>7, <2>1, <3>1
    <3>3. stack[i].e \in Keep(L, c, y)
      BY <1>2, <1>5, <2>4, <3>2 DEF Keep
    <3> QED BY <1>7, <2>1, <2>2, <3>3
  <2> QED BY <2>3, <2>4
<1> QED BY <1>6, <1>7 DEF Keep

(* The frames kept are closed under the links, and nested. *)
LEMMA CutdownLinks ==
  ASSUME TypeOK, TypeOK', Frames, NEW L, NEW K, NEW c \in Nat, NEW y \in Nat,
         Cutdown(L, K, c, y)
  PROVE  LinkedFrames(K)' /\ NestedFrames(K)'
<1>1. \A i \in K : /\ i \in L /\ i \in 1..Len(stack')
                   /\ SameLinks(i)
                   /\ IsAnd(i)' = IsAnd(i) /\ IsOr(i)' = IsOr(i) /\ HasCont(i)' = HasCont(i)
  BY CutdownKinds
<1>2. /\ L \subseteq DOMAIN stack /\ LinkedFrames(L) /\ NestedFrames(L) /\ K = Keep(L, c, y)
  BY DEF Cutdown
<1>3. \A i \in K : /\ stack[i].e = None \/ stack[i].e \in K
                   /\ HasCont(i) => stack[i].bar \in K
                   /\ IsOr(i) => stack[i].b = None \/ stack[i].b \in K
  BY <1>2, KeepClosed
<1>4. K \subseteq DOMAIN stack'
  BY <1>1, FrameTypesNext
<1>5. \A i, d \in K : IsOr(i) /\ IsOr(d) /\ d < i => d <= stack[i].b
  BY <1>1, <1>2 DEF LinkedFrames
<1>6. \A i \in K : /\ stack'[i].e = stack[i].e /\ stack'[i].bar = stack[i].bar
                   /\ IsOr(i) => stack'[i].b = stack[i].b
  BY <1>1 DEF SameLinks
<1>7. LinkedFrames(K)'
  BY <1>1, <1>3, <1>4, <1>5, <1>6 DEF LinkedFrames
<1>8. NestedFrames(K)'
  BY <1>1, <1>2, <1>6 DEF NestedFrames
<1> QED BY <1>7, <1>8

(* An open condition whose branch is kept is open still. *)
LEMMA CutdownBranch ==
  ASSUME TypeOK, TypeOK', Frames, NEW L, NEW K, NEW c \in Nat, NEW y \in Nat,
         Cutdown(L, K, c, y), NEW i \in K, NEW p, Branch(L, i, p), stack[i].branch <= c
  PROVE  Branch(K, i, p)' /\ stack'[i].branch = stack[i].branch
<1>0. PICK d : d = stack[i].branch
  OBVIOUS
<1>1. d \in L /\ IsOr(d) /\ i < d /\ stack[d].e = i /\ stack[d].alt = "body"
  BY <1>0 DEF Branch
<1>2. d \in K
  BY <1>0, <1>1 DEF Cutdown, Keep
<1>3. stack'[i].branch = d /\ stack'[i].cut = stack[i].cut
  BY <1>0, CutdownKinds DEF SameCuts
<1>4. IsOr(d)' /\ stack'[d].e = i /\ stack'[d].alt = "body" /\ stack'[d].b = stack[d].b
  <2>1. SameLinks(d) /\ IsOr(d)' = IsOr(d)
    BY <1>2, CutdownKinds
  <2> QED BY <1>1, <2>1 DEF SameLinks
<1> QED BY <1>0, <1>1, <1>2, <1>3, <1>4 DEF Branch

(* The conditions that stay open keep their branch; none is opened. *)
LEMMA CutdownConds ==
  ASSUME TypeOK, TypeOK', Frames, NEW L, NEW K, NEW c \in Nat, NEW y \in Nat,
         Cutdown(L, K, c, y)
  PROVE  CondRefs(K)' /\ \A i : FrameOpen(K, i)' => FrameOpen(L, i)
<1>1. \A i \in K : i \in L /\ SameLinks(i) /\ CondRef(i)' = CondRef(i)
  BY CutdownKinds
<1>2. \A i : FrameOpen(K, i)' => FrameOpen(L, i)
  BY <1>1 DEF FrameOpen, SameLinks
<1>3. ASSUME NEW z \in K, CondRef(z)
      PROVE  /\ Branch(K, stack[z].e, stack[z].cp.ph)'
             /\ stack'[stack'[z].e].branch <= stack'[z].bar
  <2> DEFINE i == stack[z].e
             q == stack[z].cp.ph
  <2>1. HasCont(z) /\ q \in GoalPhases
    BY <1>3 DEF CondRef
  <2>2. Branch(L, i, q) /\ stack[i].branch <= stack[z].bar
    BY <1>1, <1>3 DEF Cutdown, CondRefs
  <2>3. stack[z].bar <= c /\ stack[z].bar \in Nat /\ (i = None \/ i \in K)
    BY <1>1, <2>1, KeepClosed, BarBelow DEF Cutdown
  <2>4. i \in K
    <3>1. ContOf(stack[z].cp, i)
      BY <2>1, BarBelow
    <3>2. i # None
      BY <2>1, <3>1 DEF ContOf, GoalPhases
    <3> QED BY <2>3, <3>2
  <2>5. stack[i].branch \in Nat
    <3>1. stack[i].branch \in L
      BY <2>2 DEF Branch
    <3> QED BY <3>1, FrameTypes DEF Cutdown
  <2>6. stack[i].branch <= c
    <3> HIDE DEF i
    <3> QED BY <2>2, <2>3, <2>5
  <2>7. stack'[z].e = i /\ stack'[z].cp.ph = q /\ stack'[z].bar = stack[z].bar
    BY <1>1 DEF SameLinks
  <2>8. \A j \in K : \A p : Branch(L, j, p) /\ stack[j].branch <= c
                          => Branch(K, j, p)' /\ stack'[j].branch = stack[j].branch
    BY CutdownBranch
  <2>9. Branch(K, stack[z].e, stack[z].cp.ph)' /\ stack'[i].branch = stack[i].branch
    <3> HIDE DEF i, q
    <3> QED BY <2>2, <2>4, <2>6, <2>7, <2>8
  <2> QED BY <2>2, <2>7, <2>9
<1>4. CondRefs(K)'
  BY <1>1, <1>3 DEF CondRefs
<1> QED BY <1>2, <1>4

(* A clause that goes on in its body goes on below its open condition.        *)
LEMMA CutdownBodies ==
  ASSUME TypeOK, TypeOK', Frames, NEW L, NEW K, NEW c \in Nat, NEW y \in Nat,
         Cutdown(L, K, c, y), BodyRefs(L), \A i : RegOpen(i)' => Open(L, i)
  PROVE  BodyRefs(K)'
<1> SUFFICES ASSUME NEW i \in K, BodyRef(i)', Open(K, stack[i].e)'
             PROVE  i <= stack'[stack'[i].e].branch
  BY DEF BodyRefs
<1>1. i \in L /\ SameLinks(i) /\ BodyRef(i) /\ i \in DOMAIN stack
  BY CutdownKinds
<1>2. stack'[i].e = stack[i].e
  BY <1>1 DEF SameLinks
<1>3. Open(L, stack[i].e)
  BY <1>2, CutdownConds DEF Open
<1>4. i <= stack[stack[i].e].branch
  BY <1>1, <1>3 DEF BodyRefs
<1>5. stack[i].e \in K
  <2>1. stack[i].e # None
    <3>1. CASE HasCont(i) /\ stack[i].cp.ph = "body"
      BY <3>1, BarBelow DEF ContOf
    <3>2. CASE IsOr(i) /\ stack[i].alt = "body"
      BY <1>1, <3>2 DEF Frames, Frame, OrFrameOK
    <3> QED BY <1>1, <3>1, <3>2 DEF BodyRef
  <2> QED BY <2>1, KeepClosed DEF Cutdown
<1>6. SameCuts(stack[i].e)
  BY <1>5, CutdownKinds
<1> QED BY <1>2, <1>4, <1>6 DEF SameCuts

-----------------------------------------------------------------------------
(* The proof that a step which cuts the stack down keeps the invariant comes  *)
(* down to the registers.                                                     *)
LEMMA CutdownLive ==
  ASSUME TypeOK, TypeOK', Frames, NEW L, Live(L), NEW K, NEW c \in Nat, NEW y \in Nat,
         Cutdown(L, K, c, y), \A i : RegOpen(i)' => Open(L, i),
         LinkedRegs(K)', NestedRegs(K)', Registers(K)'
  PROVE  Frames' /\ Live(K)' /\ K \in SUBSET DOMAIN stack'
<1>1. LinkedFrames(K)' /\ NestedFrames(K)' /\ CondRefs(K)'
  BY CutdownLinks, CutdownConds
<1>2. BodyRefs(K)'
  BY CutdownBodies DEF Live
<1>3. K \subseteq DOMAIN stack'
  BY FrameTypesNext DEF Cutdown
<1>4. Frames'
  <2>1. Len(stack') \in 0..Len(stack) /\ Len(stack') <= Len(stack')
    BY FrameTypes, FrameTypesNext DEF Cutdown
  <2>2. \A i \in 1..Len(stack') : SameLinks(i)
    BY DEF Cutdown
  <2>3. \A i \in 1..Len(stack') : Frame(i)'
    BY <2>1, <2>2, FramesKept
  <2> QED BY <2>3, FrameTypesNext DEF Frames
<1> QED BY <1>1, <1>2, <1>3, <1>4 DEF Live, Linked, Nested

(* Nothing goes: the stack keeps its frames. *)
LEMMA AllKept ==
  ASSUME TypeOK, TypeOK', NEW L \in SUBSET DOMAIN stack, Live(L), stack' = stack
  PROVE  Cutdown(L, L, Len(stack), 0)
<1>1. Len(stack) \in Nat /\ DOMAIN stack = 1..Len(stack)
  BY FrameTypes
<1>2. L = Keep(L, Len(stack), 0)
  BY <1>1 DEF Keep
<1>3. \A i \in 1..Len(stack) : SameLinks(i) /\ SameCuts(i)
  BY DEF SameLinks, SameCuts
<1> QED BY <1>1, <1>2, <1>3 DEF Cutdown, Live, Linked, Nested

(* A stack that was cut down to a prefix, or not at all. *)
LEMMA CutPrefix ==
  ASSUME TypeOK, NEW L \in SUBSET DOMAIN stack, Live(L),
         NEW m \in 0..Len(stack), stack' = SubSeq(stack, 1, m) \/ stack' = stack,
         NEW c, NEW y, NEW K, K = Keep(L, c, y), K \subseteq 1..Len(stack')
  PROVE  Cutdown(L, K, c, y)
<1>1. Len(stack') <= Len(stack) /\ \A i \in 1..Len(stack') : stack'[i] = stack[i]
  BY Shorter
<1>2. \A i \in 1..Len(stack') : SameLinks(i) /\ SameCuts(i)
  BY <1>1 DEF SameLinks, SameCuts
<1> QED BY <1>1, <1>2 DEF Cutdown, Live, Linked, Nested

(* Only the registers of the phase a step leads to count. *)
LEMMA NeckRegisters ==
  ASSUME NEW K, ph' \in {"entry", "neck"}, CalleeRegs(K)', EntryRegs(K)'
  PROVE  Registers(K)'
  BY DEF Registers, CalleePhases, EnvPhases, GoalPhases
(* A predicate about to return. *)
LEMMA ReturnRegisters ==
  ASSUME NEW K, ph' \in {"exec", "ret"}, CalleeRegs(K)'
  PROVE  Registers(K)'
  BY DEF Registers, CalleePhases, EnvPhases, GoalPhases
(* A clause in its body. *)
LEMMA BodyRegisters ==
  ASSUME NEW K, ph' = "body", EnvRegs', ~ Open(K, e)'
  PROVE  Registers(K)'
  BY DEF Registers, CalleePhases, EnvPhases, GoalPhases
(* A clause that has just allocated its environment. *)
LEMMA StartRegisters ==
  ASSUME NEW K, ph' = "start", EnvRegs', StartRegs', ~ Open(K, e)'
  PROVE  Registers(K)'
  BY DEF Registers, CalleePhases, EnvPhases, GoalPhases
(* A clause in its condition or negation. *)
LEMMA GoalRegisters ==
  ASSUME NEW K, ph' \in GoalPhases, EnvRegs', GoalRegs(K)'
  PROVE  Registers(K)'
  BY DEF Registers, CalleePhases, EnvPhases, GoalPhases
(* A choice point to be retried, and the end of a run. *)
LEMMA AltRegisters ==
  ASSUME NEW K, ph' \in {"alt", "halt", "done"}, ph' = "alt" => AltRegs'
  PROVE  Registers(K)'
  BY DEF Registers, CalleePhases, EnvPhases, GoalPhases

(* An environment in use keeps the choice point it was called at. *)
LEMMA UnderKept ==
  ASSUME TypeOK, TypeOK', Frames, NEW L, NEW K, NEW c \in Nat, NEW y \in Nat,
         Cutdown(L, K, c, y), NEW i, i = None \/ i \in K, NEW d, Under(i, d)
  PROVE  Under(i, d)'
<1>1. CASE i = None
  BY <1>1 DEF Under
<1>2. CASE i \in K
  <2>1. SameLinks(i)
    BY <1>2, CutdownKinds
  <2> QED BY <2>1 DEF Under, SameLinks
<1> QED BY <1>1, <1>2

(* Steps that leave the stack, e and b alone. *)
LEMMA SteadyRegs ==
  ASSUME TypeOK, TypeOK', Frames, NEW L \in SUBSET DOMAIN stack, Live(L),
         UNCHANGED <<stack, e, b>>
  PROVE  /\ LinkedRegs(L)' /\ NestedRegs(L)'
         /\ \A i, d : Under(i, d)' = Under(i, d)
         /\ \A i, p : Branch(L, i, p)' = Branch(L, i, p)
         /\ \A i : FrameOpen(L, i)' = FrameOpen(L, i)
         /\ \A i : IsOr(i)' = IsOr(i) /\ IsAnd(i)' = IsAnd(i)
<1>1. \A i : IsOr(i)' = IsOr(i) /\ IsAnd(i)' = IsAnd(i)
  BY DEF IsOr, IsAnd
<1>2. LinkedRegs(L)' /\ NestedRegs(L)'
  BY <1>1 DEF Live, Linked, Nested, LinkedRegs, NestedRegs
<1>3. \A i, p : Branch(L, i, p)' = Branch(L, i, p)
  BY <1>1 DEF Branch
<1>4. \A i : CondRef(i)' = CondRef(i)
  BY <1>1 DEF CondRef, HasCont
<1>5. \A i : FrameOpen(L, i)' = FrameOpen(L, i)
  BY <1>4 DEF FrameOpen
<1>6. \A i, d : Under(i, d)' = Under(i, d)
  BY DEF Under
<1> QED BY <1>1, <1>2, <1>3, <1>5, <1>6

(* Steps that leave the stack, e and b alone: what of the registers is left   *)
(* to show.                                                                   *)
LEMMA SteadyLive ==
  ASSUME TypeOK, TypeOK', Frames, NEW L \in SUBSET DOMAIN stack, Live(L),
         UNCHANGED <<stack, e, b>>, Registers(L)', \A i : RegOpen(i)' => Open(L, i)
  PROVE  Frames' /\ \E K \in SUBSET DOMAIN stack' : Live(K)'
<1>1. Cutdown(L, L, Len(stack), 0) /\ Len(stack) \in Nat
  BY AllKept, FrameTypes
<1>2. LinkedRegs(L)' /\ NestedRegs(L)'
  BY SteadyRegs
<1>3. Frames' /\ Live(L)' /\ L \in SUBSET DOMAIN stack'
  BY <1>1, <1>2, CutdownLive
<1> QED BY <1>3

(* The only clause is entered. *)
LEMMA OnlyClauseLive ==
  ASSUME TypeOK, TypeOK', Frames, NEW L \in SUBSET DOMAIN stack, Live(L), OnlyClause
  PROVE  Frames' /\ \E K \in SUBSET DOMAIN stack' : Live(K)'
<1>1. ph = "entry" /\ ph' = "neck" /\ UNCHANGED <<stack, e, b, b0, cp, env, bar>>
  BY DEF OnlyClause
<1>2. CalleeRegs(L) /\ EntryRegs(L)
  BY <1>1 DEF Live, Registers, CalleePhases
<1>3. \A i : RegOpen(i)' = RegOpen(i)
  BY <1>1 DEF RegOpen, GoalPhases, CalleePhases
<1>4. \A i : Open(L, i)' = Open(L, i)
  BY <1>1, <1>3, SteadyRegs DEF Open
<1>5. CalleeRegs(L)' /\ EntryRegs(L)'
  BY <1>1, <1>2, <1>4, SteadyRegs DEF CalleeRegs, EntryRegs, ContOf
<1>6. Registers(L)'
  BY <1>1, <1>5, NeckRegisters
<1> QED BY <1>1, <1>3, <1>6, SteadyLive DEF Open

(* A goal fails. *)
LEMMA FailLive ==
  ASSUME TypeOK, TypeOK', Frames, NEW L \in SUBSET DOMAIN stack, Live(L), Fail
  PROVE  Frames' /\ \E K \in SUBSET DOMAIN stack' : Live(K)'
<1>1. FailTo(b) /\ UNCHANGED <<stack, e, b, cp>>
  BY DEF Fail
<1>2. ph' \in {"alt", "halt"} /\ (ph' = "alt" => AltRegs')
  BY <1>1 DEF FailTo, RestoredB0, AltRegs
<1>3. Registers(L)'
  BY <1>2, AltRegisters
<1>4. \A i : ~ RegOpen(i)'
  BY <1>2 DEF RegOpen, GoalPhases, CalleePhases
<1> QED BY <1>1, <1>3, <1>4, SteadyLive

(* A call: the caller's phase goes into cp, and b becomes the barrier. *)
LEMMA CallLive ==
  ASSUME TypeOK, TypeOK', Frames, NEW L \in SUBSET DOMAIN stack, Live(L), Call
  PROVE  Frames' /\ \E K \in SUBSET DOMAIN stack' : Live(K)'
<1>1. /\ ph \in EnvPhases /\ ph' = "entry" /\ cp' = [ph |-> After, env |-> env]
      /\ b0' = b /\ bar' = b /\ UNCHANGED <<stack, e, b>>
  BY DEF Call
<1>2. e = env /\ e # None /\ Under(e, b) /\ b \in L /\ IsOr(b)
  BY <1>1 DEF Live, Registers, EnvRegs, Linked, LinkedRegs
<1>3. /\ cp'.env = e /\ cp'.ph \in {"body", "cond", "neg"}
      /\ cp'.ph \in GoalPhases => ph = cp'.ph
      /\ cp'.ph = "body" => ph \in {"start", "body"}
  BY <1>1, <1>2 DEF After, EnvPhases, GoalPhases
<1>4. \A i : RegOpen(i)' => RegOpen(i)
  BY <1>1, <1>3 DEF RegOpen, GoalPhases, CalleePhases
<1>5. cp'.ph = "body" => ~ Open(L, e)'
  <2>1. cp'.ph = "body" => ~ Open(L, e)
    BY <1>3 DEF Live, Registers
  <2>2. Open(L, e)' => Open(L, e)
    BY <1>1, <1>4, SteadyRegs DEF Open
  <2> QED BY <2>1, <2>2
<1>6. cp'.ph \in GoalPhases => Branch(L, e, cp.ph)' /\ stack'[e].branch <= b
  <2>1. cp'.ph \in GoalPhases => Branch(L, e, ph) /\ stack[e].branch <= b
    BY <1>3 DEF Live, Registers, GoalRegs
  <2> QED BY <1>1, <1>3, <2>1, SteadyRegs
<1>7. ContOf(cp, e)'
  BY <1>1, <1>2, <1>3 DEF ContOf
<1>8. Under(e, b)' /\ Under(e, bar)' /\ IsOr(bar)' /\ bar' <= b'
  <2>1. b \in Nat
    BY DEF TypeOK, Positions
  <2> QED BY <1>1, <1>2, <2>1, SteadyRegs
<1>9. CalleeRegs(L)' /\ EntryRegs(L)'
  BY <1>1, <1>2, <1>5, <1>6, <1>7, <1>8 DEF CalleeRegs, EntryRegs
<1>10. Registers(L)'
  BY <1>1, <1>9, NeckRegisters
<1> QED BY <1>1, <1>4, <1>10, SteadyLive DEF Open

(* A last call: b becomes the barrier. *)
LEMMA ExecuteLive ==
  ASSUME TypeOK, TypeOK', Frames, NEW L \in SUBSET DOMAIN stack, Live(L), Execute
  PROVE  Frames' /\ \E K \in SUBSET DOMAIN stack' : Live(K)'
<1>1. /\ ph \in {"exec", "neck"} /\ ph' = "entry" /\ b0' = b /\ bar' = b
      /\ UNCHANGED <<stack, e, b, cp>>
  BY DEF Execute
<1>2. CalleeRegs(L) /\ b \in L /\ IsOr(b) /\ b \in Nat
  BY <1>1 DEF Live, Registers, CalleePhases, Linked, LinkedRegs, TypeOK, Positions
<1>3. \A i : RegOpen(i)' = RegOpen(i)
  BY <1>1 DEF RegOpen, GoalPhases, CalleePhases
<1>4. \A i : Open(L, i)' = Open(L, i)
  BY <1>1, <1>3, SteadyRegs DEF Open
<1>5. CalleeRegs(L)'
  BY <1>1, <1>2, <1>4, SteadyRegs DEF CalleeRegs, ContOf
<1>6. EntryRegs(L)'
  BY <1>1, <1>2, SteadyRegs DEF CalleeRegs, EntryRegs
<1>7. Registers(L)'
  BY <1>1, <1>5, <1>6, NeckRegisters
<1> QED BY <1>1, <1>3, <1>7, SteadyLive DEF Open

(* A return: the clause in cp goes on. *)
LEMMA ProceedLive ==
  ASSUME TypeOK, TypeOK', Frames, NEW L \in SUBSET DOMAIN stack, Live(L), Proceed
  PROVE  Frames' /\ \E K \in SUBSET DOMAIN stack' : Live(K)'
<1>1. /\ ph \in {"ret", "neck"} /\ ph' = cp.ph /\ env' = cp.env
      /\ UNCHANGED <<stack, e, b, b0, cp>>
  BY DEF Proceed
<1>2. CalleeRegs(L)
  BY <1>1 DEF Live, Registers, CalleePhases
<1>3. /\ ph' \in {"body", "cond", "neg", "done"} /\ env' = e
      /\ ph' # "done" => e # None
  BY <1>1, <1>2 DEF CalleeRegs, ContOf
<1>4. \A i : RegOpen(i)' => RegOpen(i)
  BY <1>1, <1>3 DEF RegOpen, GoalPhases, CalleePhases
<1>5. ph' # "done" => EnvRegs'
  BY <1>1, <1>2, <1>3, SteadyRegs DEF CalleeRegs, EnvRegs
<1>6. Registers(L)'
  <2>1. CASE ph' = "body"
    <3>1. ~ Open(L, e)
      BY <1>1, <1>2, <2>1 DEF CalleeRegs
    <3>2. ~ Open(L, e)'
      BY <1>1, <1>4, <3>1, SteadyRegs DEF Open
    <3> QED BY <1>5, <2>1, <3>2, BodyRegisters
  <2>2. CASE ph' \in GoalPhases
    <3>1. GoalRegs(L)'
      BY <1>1, <1>2, <2>2, SteadyRegs DEF CalleeRegs, GoalRegs
    <3> QED BY <1>5, <2>2, <3>1, GoalRegisters DEF GoalPhases
  <2>3. CASE ph' = "done"
    BY <2>3, AltRegisters
  <2> QED BY <1>3, <2>1, <2>2, <2>3 DEF GoalPhases
<1> QED BY <1>1, <1>4, <1>6, SteadyLive DEF Open

(* get_level writes into the environment the choice point it was called at.   *)
LEMMA GetLevelLive ==
  ASSUME TypeOK, TypeOK', Frames, NEW L \in SUBSET DOMAIN stack, Live(L), GetLevel
  PROVE  Frames' /\ \E K \in SUBSET DOMAIN stack' : Live(K)'
<1> DEFINE f == [stack[e] EXCEPT !.lvl = b0]
           n == Len(stack)
<1>1. /\ ph = "start" /\ stack' = [stack EXCEPT ![e] = f]
      /\ UNCHANGED <<e, b, b0, cp, ph, env, bar>>
  BY DEF GetLevel
<1>2. /\ EnvRegs /\ StartRegs /\ ~ Open(L, e) /\ e \in L /\ IsAnd(e)
  BY <1>1, OwnEnv DEF Live, Registers, EnvPhases
<1>3. n \in Nat /\ DOMAIN stack = 1..n /\ e \in 1..n /\ stack[e] \in AndFrames /\ ~ IsOr(e)
  BY <1>2, FrameTypes
<1>4. f \in AndFrames
  BY <1>3 DEF AndFrames, TypeOK
<1>5. Len(stack') = n /\ \A i \in 1..n : stack'[i] = IF i = e THEN f ELSE stack[i]
  BY <1>1, <1>2, <1>4, ExceptType
<1>6. /\ f.kind = stack[e].kind /\ f.e = stack[e].e /\ f.cp = stack[e].cp
      /\ f.bar = stack[e].bar /\ f.lvl = stack[e].bar
      /\ f.cut = stack[e].cut /\ f.branch = stack[e].branch
  BY <1>2, <1>3 DEF AndFrames, StartRegs
<1> HIDE DEF f
<1>7. \A i \in 1..n : SameLinks(i) /\ SameCuts(i)
  BY <1>3, <1>5, <1>6 DEF SameLinks, SameCuts
<1>8. Cutdown(L, L, n, 0)
  <2>1. L = Keep(L, n, 0)
    BY <1>3 DEF Keep
  <2> QED BY <1>3, <1>5, <1>7, <2>1 DEF Cutdown, Live, Linked, Nested
<1>9. \A i \in L : /\ IsAnd(i)' = IsAnd(i) /\ IsOr(i)' = IsOr(i)
                   /\ stack'[i].e = stack[i].e /\ stack'[i].bar = stack[i].bar
  BY <1>3, <1>8, CutdownKinds DEF SameLinks
<1>10. LinkedRegs(L)' /\ NestedRegs(L)'
  BY <1>1, <1>2, <1>9 DEF Live, Linked, Nested, LinkedRegs, NestedRegs
<1>11. \A i : RegOpen(i)' = RegOpen(i)
  BY <1>1 DEF RegOpen
<1>12. ~ Open(L, e)'
  BY <1>1, <1>2, <1>3, <1>8, <1>11, CutdownConds DEF Open
<1>13. EnvRegs' /\ StartRegs'
  BY <1>1, <1>2, <1>9 DEF EnvRegs, StartRegs, Under
<1>14. Registers(L)'
  BY <1>1, <1>12, <1>13, StartRegisters
<1>15. Frames' /\ Live(L)' /\ L \in SUBSET DOMAIN stack'
  BY <1>3, <1>8, <1>10, <1>11, <1>14, CutdownLive DEF Open
<1> QED BY <1>15

(* Nothing counts on the condition of the clause returned to being open when  *)
(* it goes on in its body: its branch would be a choice point made under the  *)
(* environment that is given up.                                              *)
LEMMA ReturnsClosed ==
  ASSUME TypeOK, Frames, NEW L \in SUBSET DOMAIN stack, Live(L), IsAnd(e),
         stack[e].cp.ph = "body"
  PROVE  ~ FrameOpen(L, stack[e].e)
<1> DEFINE j == stack[e].e
<1> SUFFICES ASSUME FrameOpen(L, j) PROVE FALSE
  OBVIOUS
<1>1. PICK y \in L : CondRef(y) /\ stack[y].e = j
  BY DEF FrameOpen
<1>2. PICK d : d = stack[j].branch
  OBVIOUS
<1>3. d \in L /\ IsOr(d) /\ stack[d].e = j
  BY <1>1, <1>2 DEF Live, CondRefs, Branch
<1>4. e \in L /\ e \in DOMAIN stack /\ e \in Nat /\ ~ IsOr(e)
  BY FrameTypes DEF Live, Linked, LinkedRegs, None
<1>5. e <= d
  BY <1>2, <1>4 DEF Live, BodyRefs, BodyRef, HasCont, Open
<1>6. d \in Nat /\ d # e /\ j \in Nat
  BY <1>3, <1>4, FrameTypes DEF Positions
<1>7. j >= e
  BY <1>3, <1>4, <1>5, <1>6 DEF Live, Nested, NestedRegs
<1>8. j < e
  BY <1>4 DEF Frames, Frame
<1> QED BY <1>4, <1>6, <1>7, <1>8

(* deallocate: what lies above the environment returned to goes, unless b protects it. *)
LEMMA DeallocateLive ==
  ASSUME TypeOK, TypeOK', Frames, NEW L \in SUBSET DOMAIN stack, Live(L),
         NEW next \in {"exec", "ret"}, Deallocate(next)
  PROVE  Frames' /\ \E K \in SUBSET DOMAIN stack' : Live(K)'
<1>0. PICK j : j = stack[e].e
  OBVIOUS
<1>1. /\ ph \in {"body", "start"} /\ ph' = next /\ cp' = stack[e].cp /\ e' = j
      /\ stack' = Deallocated(j) /\ b' = b /\ b0' = b0
  BY <1>0 DEF Deallocate
<1>2. IsAnd(e) /\ e \in L /\ Under(e, b) /\ e # None /\ IsOr(b) /\ b \in L
  BY <1>1, OwnEnv DEF Live, Registers, EnvPhases, EnvRegs, Linked, LinkedRegs
<1>3. /\ e \in DOMAIN stack /\ e \in Nat /\ HasCont(e) /\ ~ IsOr(e) /\ Frame(e)
      /\ DOMAIN stack = 1..Len(stack) /\ Len(stack) \in Nat /\ b \in Nat /\ b \in DOMAIN stack
  BY <1>2, FrameTypes DEF HasCont, Frames
<1>4. j \in Nat /\ j < e /\ (j = None \/ (j \in L /\ IsAnd(j) /\ j \in DOMAIN stack))
  BY <1>0, <1>2, <1>3, FrameTypes DEF Positions, Frame, Live, Linked, LinkedFrames
<1>5. /\ ContOf(stack[e].cp, j) /\ stack[e].bar \in Nat /\ stack[e].bar <= b
      /\ Under(j, stack[e].bar)
  BY <1>0, <1>2, <1>3, BarBelow DEF Under
<1>6. Under(j, b)
  <2>1. CASE j = None
    BY <2>1 DEF Under
  <2>2. CASE j # None
    <3>1. stack[j].bar \in Nat
      BY <1>4, <2>2, FrameTypes DEF Positions
    <3> QED BY <1>3, <1>5, <2>2, <3>1 DEF Under
  <2> QED BY <2>1, <2>2
<1> DEFINE UpTo(c) == {i \in L : i <= c}
<1>70. \E c \in Nat : Cutdown(L, UpTo(c), c, 0) /\ b <= c /\ j <= c
  <2>1. CASE j > b
    <3>1. stack' = SubSeq(stack, 1, j)
      BY <1>1, <2>1 DEF Deallocated
    <3>2. j \in 0..Len(stack)
      BY <1>3, <1>4
    <3>3. Len(stack') = j
      BY <3>1, <3>2, FrameTypes, Prefix
    <3>4. Keep(L, j, 0) = UpTo(j)
      BY <1>3 DEF Keep
    <3>5. Keep(L, j, 0) \subseteq 1..Len(stack')
      BY <1>3, <1>4, <3>3, <3>4
    <3>6. Cutdown(L, Keep(L, j, 0), j, 0)
      BY <3>1, <3>2, <3>5, CutPrefix
    <3>7. Cutdown(L, UpTo(j), j, 0)
      BY <3>4, <3>6, Zenon
    <3>8. b <= j /\ j <= j
      BY <1>3, <1>4, <2>1
    <3> HIDE DEF UpTo
    <3> QED BY <1>4, <3>7, <3>8
  <2>2. CASE ~ (j > b)
    <3>1. stack' = stack
      BY <1>1, <2>2 DEF Deallocated
    <3>2. Cutdown(L, L, Len(stack), 0)
      BY <3>1, AllKept
    <3>3. L = UpTo(Len(stack))
      BY <1>3
    <3>4. Cutdown(L, UpTo(Len(stack)), Len(stack), 0)
      BY <3>2, <3>3, Zenon
    <3>5. b <= Len(stack) /\ j <= Len(stack)
      BY <1>3, <1>4
    <3> HIDE DEF UpTo
    <3> QED BY <1>3, <3>4, <3>5
  <2> QED BY <2>1, <2>2
<1>71. PICK c \in Nat : Cutdown(L, UpTo(c), c, 0) /\ b <= c /\ j <= c
  BY <1>70
<1>7. PICK K : K = UpTo(c) /\ Cutdown(L, K, c, 0) /\ b <= c /\ j <= c
  BY <1>71
<1>8. b \in K /\ (j = None \/ j \in K)
  BY <1>2, <1>4, <1>7
<1>9. \A i \in K : /\ i \in L /\ i \in Nat /\ IsAnd(i)' = IsAnd(i) /\ IsOr(i)' = IsOr(i)
                   /\ stack'[i].e = stack[i].e
  BY <1>7, CutdownKinds DEF SameLinks
<1>10. LinkedRegs(K)'
  <2>1. \A i \in K : IsOr(i) => i <= b
    BY <1>9 DEF Live, Linked, LinkedRegs
  <2> QED BY <1>1, <1>2, <1>4, <1>8, <1>9, <2>1 DEF LinkedRegs
<1>11. NestedRegs(K)'
  <2> SUFFICES ASSUME NEW d \in K, IsOr(d), d > j PROVE stack[d].e >= j
    BY <1>1, <1>9 DEF NestedRegs
  <2>1. d \in L /\ d \in Nat /\ d # e /\ stack[d].e \in Nat
    BY <1>3, <1>9, FrameTypes DEF Positions
  <2>2. CASE d > e
    <3>1. stack[d].e >= e
      BY <2>1, <2>2 DEF Live, Nested, NestedRegs
    <3> QED BY <1>3, <1>4, <2>1, <3>1
  <2>3. CASE d < e
    BY <1>0, <1>2, <2>1, <2>3 DEF Live, Nested, NestedFrames
  <2> QED BY <1>3, <2>1, <2>2, <2>3
<1>12. \A i : RegOpen(i)' => Open(L, i)
  <2> SUFFICES ASSUME NEW i, RegOpen(i)' PROVE FrameOpen(L, i)
    BY DEF Open
  <2>1. i = j /\ stack[e].cp.ph \in GoalPhases
    BY <1>1 DEF RegOpen, GoalPhases
  <2> QED BY <1>0, <1>2, <1>3, <2>1 DEF FrameOpen, CondRef
<1>13. stack[e].cp.ph \in GoalPhases => Branch(K, e, cp.ph)' /\ stack'[j].branch <= b
  <2> SUFFICES ASSUME stack[e].cp.ph \in GoalPhases
               PROVE  Branch(K, e, cp.ph)' /\ stack'[j].branch <= b
    OBVIOUS
  <2>1. Branch(L, j, stack[e].cp.ph) /\ stack[j].branch <= stack[e].bar
    BY <1>0, <1>2, <1>3 DEF Live, CondRefs, CondRef
  <2>2. j \in K
    BY <1>5, <1>8 DEF ContOf, GoalPhases
  <2>3. stack[j].branch \in Nat
    BY <2>1, FrameTypes DEF Branch
  <2>4. stack[j].branch <= c /\ stack[j].branch <= b
    BY <1>3, <1>5, <1>7, <2>1, <2>3
  <2>5. \A p : Branch(L, j, p) => Branch(K, j, p)' /\ stack'[j].branch = stack[j].branch
    BY <1>7, <2>2, <2>4, CutdownBranch
  <2> QED BY <1>1, <2>1, <2>4, <2>5
<1>14. stack[e].cp.ph = "body" => ~ Open(K, e)'
  <2> SUFFICES ASSUME stack[e].cp.ph = "body" PROVE ~ Open(K, e)'
    OBVIOUS
  <2>1. ~ FrameOpen(L, j)
    BY <1>0, <1>2, ReturnsClosed
  <2>2. ~ FrameOpen(K, j)'
    BY <1>7, <2>1, CutdownConds
  <2>3. ~ RegOpen(e)'
    BY <1>1 DEF RegOpen, GoalPhases
  <2> QED BY <1>1, <2>2, <2>3 DEF Open
<1>15. CalleeRegs(K)'
  <2>1. Under(e, b)'
    <3>1. Under(j, b)'
      BY <1>1, <1>6, <1>7, <1>8, UnderKept
    <3> QED BY <1>1, <3>1
  <2>2. ContOf(cp, e)'
    BY <1>1, <1>5 DEF ContOf
  <2> QED BY <1>1, <1>13, <1>14, <2>1, <2>2 DEF CalleeRegs
<1>16. Registers(K)'
  BY <1>1, <1>15, ReturnRegisters
<1>17. Frames' /\ Live(K)' /\ K \in SUBSET DOMAIN stack'
  BY <1>7, <1>10, <1>11, <1>12, <1>16, CutdownLive
<1> QED BY <1>17

-----------------------------------------------------------------------------
(* A cut back to choice point c in use, under which the current environment   *)
(* was called: what of the registers is left to show.                         *)
CutBack(L, K, c) ==
  /\ c \in L /\ IsOr(c) /\ c \in Nat /\ c <= b /\ Under(e, c)
  /\ b' = c /\ e' = e /\ K = Keep(L, c, e)
  /\ \/ stack' = stack
     \/ stack' = SubSeq(stack, 1, b - 1) /\ c < b /\ e < b

(* What a cut keeps. *)
LEMMA CutBackDown ==
  ASSUME TypeOK, Frames, NEW L \in SUBSET DOMAIN stack, Live(L), NEW K, NEW c, CutBack(L, K, c)
  PROVE  Cutdown(L, K, c, e) /\ c \in Nat /\ e \in Nat
<1>1. /\ DOMAIN stack = 1..Len(stack) /\ Len(stack) \in Nat /\ b \in 1..Len(stack) /\ e \in Nat
  BY FrameTypes DEF TypeOK, Positions, Live, Linked, LinkedRegs
<1>2. c \in Nat /\ K = Keep(L, c, e)
  BY DEF CutBack
<1>3. b - 1 \in 0..Len(stack) /\ (stack' = SubSeq(stack, 1, b - 1) \/ stack' = stack)
  BY <1>1 DEF CutBack
<1>4. K \subseteq 1..Len(stack')
  <2>1. CASE stack' = stack
    BY <1>1, <1>2, <2>1 DEF Keep
  <2>2. CASE stack' = SubSeq(stack, 1, b - 1) /\ c < b /\ e < b
    <3>1. Len(stack') = b - 1
      BY <1>3, <2>2, FrameTypes, Prefix
    <3> QED BY <1>1, <1>2, <2>2, <3>1 DEF Keep
  <2> QED BY <2>1, <2>2 DEF CutBack
<1> QED BY <1>1, <1>2, <1>3, <1>4, CutPrefix

(* The registers e and b after a cut. *)
LEMMA CutBackRegs ==
  ASSUME TypeOK, TypeOK', Frames, NEW L \in SUBSET DOMAIN stack, Live(L),
         NEW K, NEW c, CutBack(L, K, c)
  PROVE  /\ LinkedRegs(K)' /\ NestedRegs(K)' /\ c \in K /\ (e = None \/ e \in K)
         /\ Under(e, b)'
         /\ \A i : FrameOpen(K, i)' => FrameOpen(L, i)
<1>1. Cutdown(L, K, c, e) /\ c \in Nat /\ e \in Nat
  BY CutBackDown
<1>2. /\ c \in L /\ IsOr(c) /\ Under(e, c) /\ b' = c /\ e' = e /\ K = Keep(L, c, e)
  BY DEF CutBack
<1>3. c \in K
  BY <1>1, <1>2 DEF Keep
<1>4. e = None \/ (e \in K /\ IsAnd(e))
  BY <1>1, <1>2 DEF Keep, Under, Live, Linked, LinkedRegs
<1>5. \A i \in K : /\ i \in L /\ IsAnd(i)' = IsAnd(i) /\ IsOr(i)' = IsOr(i)
                   /\ stack'[i].e = stack[i].e
  BY <1>1, CutdownKinds DEF SameLinks
<1>6. \A i \in K : IsOr(i) => i <= c
  BY <1>2, FrameTypes DEF Keep
<1>7. LinkedRegs(K)'
  BY <1>2, <1>3, <1>4, <1>5, <1>6 DEF LinkedRegs
<1>8. NestedRegs(K)'
  BY <1>2, <1>5 DEF NestedRegs, Live, Nested
<1>9. Under(e, b)'
  BY <1>1, <1>2, <1>4, UnderKept
<1> QED BY <1>1, <1>3, <1>4, <1>7, <1>8, <1>9, CutdownConds

(* The proof that a cut keeps the invariant comes down to the other registers. *)
LEMMA CutBackLive ==
  ASSUME TypeOK, TypeOK', Frames, NEW L \in SUBSET DOMAIN stack, Live(L),
         NEW K, NEW c, CutBack(L, K, c), Registers(K)', \A i : RegOpen(i)' => RegOpen(i)
  PROVE  Frames' /\ \E Q \in SUBSET DOMAIN stack' : Live(Q)'
<1>1. Cutdown(L, K, c, e) /\ c \in Nat /\ e \in Nat
  BY CutBackDown
<1>2. LinkedRegs(K)' /\ NestedRegs(K)'
  BY CutBackRegs
<1>3. \A i : RegOpen(i)' => Open(L, i)
  BY DEF Open
<1>4. Frames' /\ Live(K)' /\ K \in SUBSET DOMAIN stack'
  BY <1>1, <1>2, <1>3, CutdownLive
<1> QED BY <1>4

(* neck_cut goes back to the barrier; the frame of the choice point may go. *)
LEMMA NeckCutLive ==
  ASSUME TypeOK, TypeOK', Frames, NEW L \in SUBSET DOMAIN stack, Live(L), NeckCut
  PROVE  Frames' /\ \E K \in SUBSET DOMAIN stack' : Live(K)'
<1>1. /\ ph \in {"neck", "start"} /\ b > b0 /\ b' = b0 /\ stack' = NeckCutStack
      /\ UNCHANGED <<e, b0, cp, ph, env, bar>>
  BY DEF NeckCut
<1>2. PICK c, K : c = b0 /\ K = Keep(L, c, e)
  OBVIOUS
<1>3. bar = b0 /\ b0 \in L /\ IsOr(b0) /\ Under(e, b0)
  <2>1. CASE ph = "neck"
    BY <2>1 DEF Live, Registers, EntryRegs
  <2>2. CASE ph = "start"
    <3>1. bar = b0 /\ bar = stack[e].bar /\ IsAnd(e) /\ e \in L
      BY <2>2, OwnEnv DEF Live, Registers, StartRegs, EnvPhases
    <3>2. HasCont(e) /\ e \in DOMAIN stack
      BY <3>1, FrameTypes DEF HasCont
    <3>3. b0 \in L /\ IsOr(b0) /\ b0 \in Nat
      BY <3>1, <3>2, BarBelow DEF Live, Linked, LinkedFrames
    <3> QED BY <3>1, <3>3 DEF Under
  <2> QED BY <1>1, <2>1, <2>2
<1>4. CutBack(L, K, c) /\ c \in Nat
  <2>1. b0 \in Nat /\ b \in Nat /\ e \in Nat
    BY DEF TypeOK, Positions
  <2>2. stack' = stack \/ (stack' = SubSeq(stack, 1, b - 1) /\ e < b)
    BY <1>1, <2>1 DEF NeckCutStack
  <2> QED BY <1>1, <1>2, <1>3, <2>1, <2>2 DEF CutBack
<1>5. /\ c \in K /\ (e = None \/ e \in K) /\ Under(e, b)'
      /\ \A i : FrameOpen(K, i)' => FrameOpen(L, i)
  BY <1>4, CutBackRegs
<1>6. \A i : RegOpen(i)' = RegOpen(i)
  BY <1>1 DEF RegOpen
<1>7. ~ Open(L, e) => ~ Open(K, e)'
  BY <1>1, <1>5, <1>6 DEF Open
<1>8. Cutdown(L, K, c, e) /\ e \in Nat
  BY <1>4, CutBackDown
<1>9. Registers(K)'
  <2>1. CASE ph = "neck"
    <3>1. CalleeRegs(L) /\ EntryRegs(L)
      BY <2>1 DEF Live, Registers, CalleePhases
    <3>2. cp.ph \in GoalPhases => Branch(K, e, cp.ph)' /\ stack'[e].branch <= c
      <4> SUFFICES ASSUME cp.ph \in GoalPhases
                   PROVE  Branch(K, e, cp.ph)' /\ stack'[e].branch <= c
        OBVIOUS
      <4>1. Branch(L, e, cp.ph) /\ stack[e].branch <= c /\ e # None
        BY <1>2, <1>3, <3>1 DEF CalleeRegs, EntryRegs, ContOf, GoalPhases
      <4>2. \A i \in K : \A p : Branch(L, i, p) /\ stack[i].branch <= c
                              => Branch(K, i, p)' /\ stack'[i].branch = stack[i].branch
        BY <1>4, <1>8, CutdownBranch
      <4> QED BY <1>1, <1>5, <4>1, <4>2
    <3>3. CalleeRegs(K)'
      BY <1>1, <1>2, <1>5, <1>7, <3>1, <3>2 DEF CalleeRegs, ContOf
    <3>4. IsOr(bar)'
      <4>1. \A i \in K : IsOr(i)' = IsOr(i)
        BY <1>4, <1>8, CutdownKinds
      <4> QED BY <1>1, <1>2, <1>3, <1>5, <4>1
    <3>5. EntryRegs(K)'
      BY <1>1, <1>2, <1>3, <1>4, <1>5, <3>2, <3>4 DEF EntryRegs
    <3> QED BY <1>1, <2>1, <3>3, <3>5, NeckRegisters
  <2>2. CASE ph = "start"
    <3>1. EnvRegs /\ StartRegs /\ ~ Open(L, e)
      BY <2>2 DEF Live, Registers, EnvPhases
    <3>2. EnvRegs'
      BY <1>1, <1>5, <3>1 DEF EnvRegs
    <3>3. StartRegs'
      <4>1. e \in K
        BY <1>5, <3>1 DEF EnvRegs
      <4>2. stack'[e].bar = stack[e].bar
        BY <1>4, <1>8, <4>1, CutdownKinds DEF SameLinks
      <4> QED BY <1>1, <3>1, <4>2 DEF StartRegs
    <3> QED BY <1>1, <1>7, <2>2, <3>1, <3>2, <3>3, StartRegisters
  <2> QED BY <1>1, <2>1, <2>2
<1> QED BY <1>4, <1>6, <1>9, CutBackLive

(* A cut in the body goes back to the level the environment saved. *)
LEMMA CutLive ==
  ASSUME TypeOK, TypeOK', Frames, NEW L \in SUBSET DOMAIN stack, Live(L), Cut
  PROVE  Frames' /\ \E K \in SUBSET DOMAIN stack' : Live(K)'
<1>1. /\ ph = "body" /\ ph' = "body" /\ stack[e].lvl # None
      /\ b' = (IF b > stack[e].lvl THEN stack[e].lvl ELSE b)
      /\ UNCHANGED <<stack, e, b0, cp, env, bar>>
  BY DEF Cut, CutTo
<1>2. IsAnd(e) /\ e \in L /\ EnvRegs /\ ~ Open(L, e)
  BY <1>1, OwnEnv DEF Live, Registers, EnvPhases
<1>3. /\ HasCont(e) /\ e \in DOMAIN stack /\ AndFrame(e)
  BY <1>2, FrameTypes DEF HasCont, Frames, Frame
<1>4. /\ stack[e].lvl = stack[e].bar /\ stack[e].bar \in L /\ IsOr(stack[e].bar)
      /\ stack[e].bar \in Nat
  BY <1>1, <1>2, <1>3, BarBelow DEF AndFrame, Live, Linked, LinkedFrames
<1>5. b \in L /\ IsOr(b) /\ b \in Nat /\ Under(e, b)
  BY <1>2 DEF Live, Linked, LinkedRegs, TypeOK, Positions, EnvRegs
<1>6. PICK c, K : c = b' /\ K = Keep(L, c, e)
  OBVIOUS
<1>7. CutBack(L, K, c)
  <2>1. CASE b > stack[e].lvl
    BY <1>1, <1>4, <1>5, <1>6, <2>1 DEF CutBack, Under
  <2>2. CASE ~ (b > stack[e].lvl)
    BY <1>1, <1>5, <1>6, <2>2 DEF CutBack
  <2> QED BY <2>1, <2>2
<1>8. Under(e, b)' /\ \A i : FrameOpen(K, i)' => FrameOpen(L, i)
  BY <1>7, CutBackRegs
<1>9. \A i : RegOpen(i)' = RegOpen(i)
  BY <1>1 DEF RegOpen
<1>10. EnvRegs' /\ ~ Open(K, e)'
  BY <1>1, <1>2, <1>8, <1>9 DEF EnvRegs, Open
<1>11. Registers(K)'
  BY <1>1, <1>10, BodyRegisters
<1> QED BY <1>7, <1>9, <1>11, CutBackLive

(* Once the condition has succeeded nothing is left that would go on in it.   *)
LEMMA BranchCutLive ==
  ASSUME TypeOK, TypeOK', Frames, NEW L \in SUBSET DOMAIN stack, Live(L), LocalCut \/ CutPrevFail
  PROVE  Frames' /\ \E K \in SUBSET DOMAIN stack' : Live(K)'
<1>0. PICK c, K, d : c = b' /\ K = Keep(L, c, e) /\ d = stack[e].branch
  OBVIOUS
<1>1. ph \in GoalPhases /\ UNCHANGED <<stack, e, cp>>
  BY DEF LocalCut, CutPrevFail, GoalPhases
<1>2. c \in L /\ IsOr(c) /\ c \in Nat /\ c < d /\ d <= b /\ d \in L /\ IsOr(d) /\ Under(e, c)
  BY <1>0, CutToBranch DEF Positions
<1>3. d \in Nat /\ b \in Nat
  <2>1. DOMAIN stack = 1..Len(stack)
    BY FrameTypes
  <2>2. b \in Nat
    BY StackBound DEF TypeOK, Positions
  <2> QED BY <1>2, <2>1, <2>2
<1>4. CutBack(L, K, c)
  BY <1>0, <1>1, <1>2, <1>3 DEF CutBack
<1>5. Under(e, b)' /\ \A i : FrameOpen(K, i)' => FrameOpen(L, i)
  BY <1>4, CutBackRegs
<1>6. ~ FrameOpen(K, e)'
  <2> SUFFICES ASSUME FrameOpen(K, e)' PROVE FALSE
    OBVIOUS
  <2>1. PICK z \in K : CondRef(z)' /\ stack'[z].e = e
    BY <1>1 DEF FrameOpen
  <2>2. z \in L /\ CondRef(z) /\ stack[z].e = e
    BY <1>2, <1>4, <2>1, CutBackDown, CutdownKinds DEF SameLinks
  <2>3. d <= stack[z].bar /\ HasCont(z)
    BY <1>0, <2>2 DEF Live, CondRefs, CondRef
  <2>4. e \in Nat
    BY DEF TypeOK, Positions
  <2>5. stack[z].bar <= c /\ stack[z].bar \in Nat
    BY <1>0, <1>2, <2>1, <2>3, <2>4, KeepClosed, BarBelow DEF Live, Linked
  <2> QED BY <1>2, <1>3, <2>3, <2>5
<1>7. CASE LocalCut
  <2>1. ph' = "body" /\ env' = env
    BY <1>7 DEF LocalCut
  <2>2. EnvRegs
    BY <1>1 DEF Live, Registers, EnvPhases, GoalPhases
  <2>3. EnvRegs'
    BY <1>1, <1>5, <2>1, <2>2 DEF EnvRegs
  <2>4. \A i : ~ RegOpen(i)'
    BY <2>1 DEF RegOpen, GoalPhases, CalleePhases
  <2>5. ~ Open(K, e)'
    BY <1>1, <1>6, <2>4 DEF Open
  <2>6. Registers(K)'
    BY <2>1, <2>3, <2>5, BodyRegisters
  <2> QED BY <1>4, <2>4, <2>6, CutBackLive
<1>8. CASE CutPrevFail
  <2>1. FailTo(b')
    BY <1>8 DEF CutPrevFail
  <2>2. ph' \in {"alt", "halt"} /\ (ph' = "alt" => AltRegs')
    BY <1>1, <2>1 DEF FailTo, RestoredB0, AltRegs
  <2>3. \A i : ~ RegOpen(i)'
    BY <2>2 DEF RegOpen, GoalPhases, CalleePhases
  <2>4. Registers(K)'
    BY <2>2, AltRegisters
  <2> QED BY <1>4, <2>3, <2>4, CutBackLive
<1> QED BY <1>7, <1>8

-----------------------------------------------------------------------------
(* Back to the newest choice point, which stays (c = b) or goes (c = b - 1):  *)
(* everything above it is out of use.                                         *)
RetryTo(L, K, c) ==
  /\ Restore /\ c \in Nat /\ K = Keep(L, c, 0)
  /\ \/ c = b /\ b' = b /\ stack' = stack
     \/ c = b - 1 /\ b' = stack[b].b /\ stack' = SubSeq(stack, 1, b - 1)

(* The choice point restored, field by field. *)
LEMMA Restored ==
  ASSUME TypeOK, Frames, NEW L \in SUBSET DOMAIN stack, Live(L), NEW K, NEW c, RetryTo(L, K, c)
  PROVE  /\ b \in L /\ IsOr(b) /\ b \in Nat /\ b \in DOMAIN stack /\ OrFrameOK(b) /\ Frame(b)
         /\ stack[b].alt \in {"neck", "body"} /\ ph' = stack[b].alt /\ b0 = stack[b].b0
         /\ e' = stack[b].e /\ cp' = stack[b].cp /\ env' = stack[b].own /\ bar' = stack[b].bar
         /\ b0' = b0
         /\ stack[b].b \in Nat /\ stack[b].b # None /\ stack[b].b < b /\ stack[b].b \in L
         /\ stack[b].b <= b' /\ b' \in Nat /\ c <= b /\ b' <= c /\ stack[b].b <= c /\ b' \in L
         /\ stack[b].e \in Nat /\ stack[b].e < b /\ stack[b].e <= c
         /\ stack[b].e = None \/ (stack[b].e \in L /\ IsAnd(stack[b].e))
<1>1. ph = "alt" /\ ph' = stack[b].alt /\ e' = stack[b].e /\ cp' = stack[b].cp
      /\ env' = stack[b].own /\ bar' = stack[b].bar /\ b0' = b0
  BY DEF RetryTo, Restore
<1>2. b \in L /\ IsOr(b) /\ stack[b].alt # "halt" /\ b0 = stack[b].b0
  BY <1>1 DEF Live, Registers, AltRegs, Linked, LinkedRegs
<1>3. /\ b \in DOMAIN stack /\ b \in Nat /\ Frame(b) /\ OrFrameOK(b)
      /\ stack[b].alt \in {"neck", "body"} /\ stack[b].b \in Nat
  BY <1>2, FrameTypes DEF Frames, Frame, Positions
<1>4. stack[b].b # None /\ stack[b].b < b /\ IsOr(stack[b].b)
  BY <1>2, <1>3 DEF OrFrameOK
<1>5. stack[b].b \in L
  BY <1>2, <1>4 DEF Live, Linked, LinkedFrames
<1>6. /\ stack[b].e \in Nat /\ stack[b].e < b
      /\ stack[b].e = None \/ (stack[b].e \in L /\ IsAnd(stack[b].e))
  BY <1>2, <1>3, FrameTypes DEF Frame, Positions, Live, Linked, LinkedFrames
<1>7. CASE c = b /\ b' = b
  BY <1>1, <1>2, <1>3, <1>4, <1>5, <1>6, <1>7
<1>8. CASE c = b - 1 /\ b' = stack[b].b
  BY <1>1, <1>2, <1>3, <1>4, <1>5, <1>6, <1>8
<1> QED BY <1>7, <1>8 DEF RetryTo

(* What a retry keeps. *)
LEMMA RetryDown ==
  ASSUME TypeOK, Frames, NEW L \in SUBSET DOMAIN stack, Live(L), NEW K, NEW c, RetryTo(L, K, c)
  PROVE  Cutdown(L, K, c, 0) /\ c \in Nat /\ K = {i \in L : i <= c}
<1>1. /\ DOMAIN stack = 1..Len(stack) /\ Len(stack) \in Nat /\ b \in 1..Len(stack)
  BY Restored, FrameTypes
<1>2. c \in Nat /\ K = Keep(L, c, 0)
  BY DEF RetryTo
<1>3. K = {i \in L : i <= c}
  BY <1>1, <1>2 DEF Keep
<1>4. b - 1 \in 0..Len(stack) /\ (stack' = SubSeq(stack, 1, b - 1) \/ stack' = stack)
  BY <1>1 DEF RetryTo
<1>5. K \subseteq 1..Len(stack')
  <2>1. CASE stack' = stack
    BY <1>1, <1>3, <2>1
  <2>2. CASE stack' = SubSeq(stack, 1, b - 1) /\ c = b - 1
    <3>1. Len(stack') = b - 1
      BY <1>4, <2>2, FrameTypes, Prefix
    <3> QED BY <1>1, <1>3, <2>2, <3>1
  <2> QED BY <2>1, <2>2 DEF RetryTo
<1>6. Cutdown(L, K, c, 0)
  BY <1>2, <1>4, <1>5, CutPrefix
<1> QED BY <1>2, <1>3, <1>6

(* A clause restored in its body: what was made inside its condition since    *)
(* lies above the choice point.                                               *)
LEMMA RestoredClosed ==
  ASSUME TypeOK, Frames, NEW L \in SUBSET DOMAIN stack, Live(L), NEW K, NEW c,
         RetryTo(L, K, c), BodyRef(b)
  PROVE  ~ \E z \in K : CondRef(z) /\ stack[z].e = stack[b].e
<1> SUFFICES ASSUME NEW z \in K, CondRef(z), stack[z].e = stack[b].e PROVE FALSE
  OBVIOUS
<1>1. z \in L /\ z <= c /\ c <= b /\ b \in L /\ b \in Nat /\ c \in Nat
  BY RetryDown, Restored
<1>2. FrameOpen(L, stack[b].e)
  BY <1>1 DEF FrameOpen
<1>3. b <= stack[stack[b].e].branch
  BY <1>1, <1>2 DEF Live, BodyRefs, Open
<1>4. stack[stack[b].e].branch <= stack[z].bar /\ stack[stack[b].e].branch \in L
  BY <1>1 DEF Live, CondRefs, Branch
<1>5. stack[z].bar < z /\ stack[z].bar \in Nat
  BY BarBelow DEF CondRef
<1>6. z \in Nat /\ stack[stack[b].e].branch \in Nat
  BY <1>1, <1>4, FrameTypes
<1> QED BY <1>1, <1>3, <1>4, <1>5, <1>6

(* A retry restores the registers of a clause that finds its frames as it left them. *)
LEMMA RetryLive ==
  ASSUME TypeOK, TypeOK', Frames, NEW L \in SUBSET DOMAIN stack, Live(L),
         NEW K, NEW c, RetryTo(L, K, c)
  PROVE  Frames' /\ \E Q \in SUBSET DOMAIN stack' : Live(Q)'
<1>0. PICK j, o : j = stack[b].e /\ o = stack[b]
  OBVIOUS
<1>1. /\ b \in L /\ IsOr(b) /\ b \in Nat /\ b \in DOMAIN stack /\ OrFrameOK(b)
      /\ o.alt \in {"neck", "body"} /\ ph' = o.alt /\ b0 = o.b0
      /\ e' = j /\ cp' = o.cp /\ env' = o.own /\ bar' = o.bar /\ b0' = b0
      /\ o.b \in Nat /\ o.b <= b' /\ b' \in Nat /\ c <= b /\ b' <= c /\ o.b <= c /\ b' \in L
      /\ j \in Nat /\ j < b /\ j <= c /\ (j = None \/ (j \in L /\ IsAnd(j)))
  BY <1>0, Restored
<1>2. Cutdown(L, K, c, 0) /\ c \in Nat /\ K = {i \in L : i <= c}
  BY RetryDown
<1>3. b' \in K /\ (j = None \/ j \in K)
  BY <1>1, <1>2
<1>4. \A i \in K : /\ i \in L /\ i \in Nat /\ i <= c /\ IsAnd(i)' = IsAnd(i) /\ IsOr(i)' = IsOr(i)
                   /\ stack'[i].e = stack[i].e /\ CondRef(i)' = CondRef(i)
  BY <1>2, CutdownKinds DEF SameLinks
<1>5. IsOr(b')
  <2>1. stack[b].b # None
    BY Restored
  <2>2. IsOr(stack[b].b)
    BY <1>1, <2>1 DEF OrFrameOK
  <2> QED BY <1>1, <2>2 DEF RetryTo
<1>6. LinkedRegs(K)'
  <2>1. \A i \in K : IsOr(i) => i <= b'
    <3>1. CASE c = b /\ b' = b
      BY <1>4, <3>1
    <3>2. CASE c = b - 1 /\ b' = o.b
      <4> SUFFICES ASSUME NEW i \in K, IsOr(i) PROVE i <= o.b
        BY <3>2
      <4>1. i \in L /\ i < b
        BY <1>1, <1>4, <3>2
      <4> QED BY <1>0, <1>1, <4>1 DEF Live, Linked, LinkedFrames
    <3> QED BY <1>0, <3>1, <3>2 DEF RetryTo
  <2>2. IsOr(b)'
    <3>1. PICK k \in K : k = b'
      BY <1>3
    <3>2. IsOr(k)'
      BY <1>4, <1>5, <3>1
    <3> QED BY <3>1, <3>2
  <2>3. e' = None \/ (e' \in K /\ IsAnd(e)')
    <3>1. j = None \/ (j \in K /\ IsAnd(j)')
      BY <1>1, <1>3, <1>4
    <3> QED BY <1>1, <3>1
  <2> QED BY <1>3, <1>4, <2>1, <2>2, <2>3 DEF LinkedRegs
<1>7. NestedRegs(K)'
  <2> SUFFICES ASSUME NEW d \in K, IsOr(d), d > j PROVE stack[d].e >= j
    BY <1>1, <1>4 DEF NestedRegs
  <2>1. CASE d = b
    BY <1>0, <1>1, <2>1
  <2>2. CASE d # b
    <3>1. d < b /\ d \in L
      BY <1>1, <1>2, <1>4, <2>2
    <3> QED BY <1>0, <1>1, <3>1 DEF Live, Nested, NestedFrames
  <2> QED BY <2>1, <2>2
<1>8. ~ RegOpen(j)' \/ FrameOpen(L, j)
  <2> SUFFICES ASSUME RegOpen(j)' PROVE FrameOpen(L, j)
    OBVIOUS
  <2>1. ph' = "neck" /\ cp'.ph \in GoalPhases
    BY <1>1 DEF RegOpen, GoalPhases, CalleePhases
  <2>2. CondRef(b)
    BY <1>0, <1>1, <2>1 DEF CondRef, HasCont
  <2> QED BY <1>0, <1>1, <2>2 DEF FrameOpen
<1>9. \A i : RegOpen(i)' => Open(L, i)
  BY <1>1, <1>8 DEF RegOpen, Open
<1>10. BodyRef(b) => ~ FrameOpen(K, j)'
  <2>1. BodyRef(b) => ~ \E z \in K : CondRef(z) /\ stack[z].e = j
    BY <1>0, RestoredClosed
  <2> QED BY <1>4, <2>1 DEF FrameOpen
<1>11. Registers(K)'
  <2>1. CASE o.alt = "neck"
    <3>1. /\ ContOf(o.cp, j) /\ IsOr(o.bar) /\ o.bar <= o.b /\ o.b0 = o.bar /\ Under(j, o.bar)
          /\ HasCont(b) /\ o.bar \in Nat
      BY <1>0, <1>1, <2>1, BarBelow DEF OrFrameOK, HasCont
    <3>2. o.bar \in K /\ o.bar <= b' /\ o.bar \in L
      <4>1. o.bar \in L
        BY <1>0, <1>1, <3>1 DEF Live, Linked, LinkedFrames
      <4> QED BY <1>1, <1>2, <3>1, <4>1
    <3>3. IsOr(o.bar)' /\ Under(j, o.bar)'
      BY <1>2, <1>3, <1>4, <3>1, <3>2, UnderKept
    <3>4. Under(j, b')
      <4>1. CASE j = None
        BY <4>1 DEF Under
      <4>2. CASE j # None
        <5>1. stack[j].bar \in Nat /\ stack[j].bar <= o.bar
          BY <1>1, <3>1, <4>2, FrameTypes DEF Under, Positions
        <5> QED BY <1>1, <3>1, <3>2, <5>1 DEF Under
      <4> QED BY <4>1, <4>2
    <3>5. Under(e, b)'
      <4>1. PICK k : k = b'
        OBVIOUS
      <4>2. Under(j, k)'
        BY <1>2, <1>3, <3>4, <4>1, UnderKept
      <4> QED BY <1>1, <4>1, <4>2
    <3>6. o.cp.ph \in GoalPhases => Branch(K, e, cp.ph)' /\ stack'[j].branch <= o.bar
      <4> SUFFICES ASSUME o.cp.ph \in GoalPhases
                   PROVE  Branch(K, e, cp.ph)' /\ stack'[j].branch <= o.bar
        OBVIOUS
      <4>1. Branch(L, j, o.cp.ph) /\ stack[j].branch <= o.bar
        BY <1>0, <1>1, <3>1 DEF Live, CondRefs, CondRef
      <4>2. j \in K
        BY <1>3, <3>1 DEF ContOf, GoalPhases
      <4>3. stack[j].branch \in Nat
        BY <4>1, FrameTypes DEF Branch
      <4>4. stack[j].branch <= c
        BY <1>1, <1>2, <3>1, <4>1, <4>3
      <4>5. Branch(K, j, o.cp.ph)' /\ stack'[j].branch = stack[j].branch
        <5>1. \A p : Branch(L, j, p) => Branch(K, j, p)' /\ stack'[j].branch = stack[j].branch
          BY <1>2, <4>2, <4>4, CutdownBranch
        <5>2. PICK p : p = o.cp.ph
          OBVIOUS
        <5> QED BY <4>1, <5>1, <5>2
      <4> QED BY <1>1, <4>1, <4>5
    <3>7. o.cp.ph = "body" => ~ Open(K, e)'
      <4> SUFFICES ASSUME o.cp.ph = "body" PROVE ~ Open(K, e)'
        OBVIOUS
      <4>1. BodyRef(b)
        BY <1>0, <3>1 DEF BodyRef
      <4>2. ~ RegOpen(e)'
        BY <1>1, <2>1 DEF RegOpen, GoalPhases
      <4> QED BY <1>1, <1>10, <4>1, <4>2 DEF Open
    <3>8. stack'[j].branch \in Nat \/ o.cp.ph \notin GoalPhases
      BY <1>1, <3>6, FrameTypesNext DEF Branch, LinkedFrames
    <3>9. o.cp.ph \in GoalPhases => stack'[j].branch <= b'
      BY <1>1, <3>1, <3>2, <3>6, <3>8
    <3>10. CalleeRegs(K)'
      BY <1>1, <3>1, <3>5, <3>6, <3>7, <3>9 DEF CalleeRegs, ContOf
    <3>11. EntryRegs(K)'
      BY <1>1, <3>1, <3>2, <3>3, <3>6 DEF EntryRegs
    <3> QED BY <1>1, <2>1, <3>10, <3>11, NeckRegisters
  <2>2. CASE o.alt = "body"
    <3>1. o.own = j /\ j # None /\ Under(j, o.b) /\ BodyRef(b)
      BY <1>0, <1>1, <2>2 DEF OrFrameOK, BodyRef
    <3>2. Under(j, b')
      <4>1. stack[j].bar \in Nat
        BY <1>1, <3>1, FrameTypes DEF Positions
      <4> QED BY <1>1, <3>1, <4>1 DEF Under
    <3>3. Under(e, b)'
      <4>1. PICK k : k = b'
        OBVIOUS
      <4>2. Under(j, k)'
        BY <1>2, <1>3, <3>2, <4>1, UnderKept
      <4> QED BY <1>1, <4>1, <4>2
    <3>4. ~ RegOpen(e)'
      BY <1>1, <2>2 DEF RegOpen, GoalPhases, CalleePhases
    <3>5. EnvRegs' /\ ~ Open(K, e)'
      BY <1>1, <1>10, <3>1, <3>3, <3>4 DEF EnvRegs, Open
    <3> QED BY <1>1, <2>2, <3>5, BodyRegisters
  <2> QED BY <1>1, <2>1, <2>2
<1>12. Frames' /\ Live(K)' /\ K \in SUBSET DOMAIN stack'
  BY <1>2, <1>6, <1>7, <1>9, <1>11, CutdownLive
<1> QED BY <1>12

(* The two ways to retry. *)
LEMMA RetriesLive ==
  ASSUME TypeOK, TypeOK', Frames, NEW L \in SUBSET DOMAIN stack, Live(L), RetryMeElse \/ TrustMe
  PROVE  Frames' /\ \E K \in SUBSET DOMAIN stack' : Live(K)'
<1>1. b \in Nat /\ b > 0
  BY DEF TypeOK, Positions, None
<1>2. CASE RetryMeElse
  <2>1. PICK c, K : c = b /\ K = Keep(L, c, 0)
    OBVIOUS
  <2>2. RetryTo(L, K, c)
    BY <1>1, <1>2, <2>1 DEF RetryTo, RetryMeElse
  <2> QED BY <2>2, RetryLive
<1>3. CASE TrustMe
  <2>1. PICK c, K : c = b - 1 /\ K = Keep(L, c, 0)
    OBVIOUS
  <2>2. RetryTo(L, K, c)
    BY <1>1, <1>3, <2>1 DEF RetryTo, TrustMe
  <2> QED BY <2>2, RetryLive
<1> QED BY <1>2, <1>3

-----------------------------------------------------------------------------
(* A frame n is pushed on the current environment; of the frames below it     *)
(* only environment w, whose condition is closed, has its cut variables       *)
(* written.                                                                   *)
Grown(L, K, n, w) ==
  /\ L \subseteq DOMAIN stack /\ Live(L)
  /\ n = Len(stack) + 1 /\ Len(stack') = n /\ K = L \cup {n}
  /\ \A i \in 1..Len(stack) : SameLinks(i) /\ (i # w => SameCuts(i))
  /\ ~ FrameOpen(L, w)
  /\ stack'[n].e = e /\ stack'[n].cp = cp
  /\ HasCont(n)' => stack'[n].bar \in L
  /\ IsOr(n)' => stack'[n].b = b

(* The frames below the new one are what they were. *)
LEMMA GrownKinds ==
  ASSUME TypeOK, TypeOK', Frames, NEW L, NEW K, NEW n, NEW w, Grown(L, K, n, w)
  PROVE  /\ n \in Nat /\ n \in DOMAIN stack' /\ DOMAIN stack' = 1..n /\ n \notin L
         /\ \A i \in 1..Len(stack) : IsAnd(i)' = IsAnd(i) /\ IsOr(i)' = IsOr(i)
         /\ \A i \in L : /\ i \in K /\ i \in Nat /\ i < n /\ i \in DOMAIN stack
                         /\ i \in 1..Len(stack)
                         /\ SameLinks(i) /\ (i # w => SameCuts(i))
                         /\ IsAnd(i)' = IsAnd(i) /\ IsOr(i)' = IsOr(i)
                         /\ HasCont(i)' = HasCont(i) /\ CondRef(i)' = CondRef(i)
                         /\ BodyRef(i)' = BodyRef(i)
                         /\ stack'[i].e = stack[i].e /\ stack'[i].bar = stack[i].bar
<1>1. /\ Len(stack) \in Nat /\ DOMAIN stack = 1..Len(stack) /\ DOMAIN stack' = 1..Len(stack')
  BY FrameTypes, FrameTypesNext
<1>2. /\ n = Len(stack) + 1 /\ Len(stack') = n /\ K = L \cup {n} /\ L \subseteq DOMAIN stack
      /\ \A i \in 1..Len(stack) : SameLinks(i) /\ (i # w => SameCuts(i))
  BY DEF Grown
<1>3. Len(stack) \in 0..Len(stack) /\ Len(stack) <= Len(stack')
  BY <1>1, <1>2
<1>4. \A i \in 1..Len(stack) : /\ IsAnd(i)' = IsAnd(i) /\ IsOr(i)' = IsOr(i)
                               /\ HasCont(i)' = HasCont(i) /\ CondRef(i)' = CondRef(i)
                               /\ BodyRef(i)' = BodyRef(i)
  BY <1>2, <1>3, SameKind
<1>5. \A i \in 1..Len(stack) : stack'[i].e = stack[i].e /\ stack'[i].bar = stack[i].bar
  BY <1>2 DEF SameLinks
<1>6. \A i \in L : i \in K /\ i \in Nat /\ i < n /\ i \in 1..Len(stack)
  BY <1>1, <1>2
<1>7. n \in Nat /\ n \in DOMAIN stack' /\ DOMAIN stack' = 1..n /\ n \notin L
  BY <1>1, <1>2
<1> QED BY <1>1, <1>2, <1>4, <1>5, <1>6, <1>7

(* The new set is closed under the links, and nested. *)
LEMMA GrownLinks ==
  ASSUME TypeOK, TypeOK', Frames, NEW L, NEW K, NEW n, NEW w, Grown(L, K, n, w)
  PROVE  LinkedFrames(K)' /\ NestedFrames(K)'
<1>1. /\ LinkedFrames(L) /\ LinkedRegs(L) /\ NestedFrames(L) /\ NestedRegs(L)
      /\ K = L \cup {n} /\ stack'[n].e = e
      /\ HasCont(n)' => stack'[n].bar \in L
      /\ IsOr(n)' => stack'[n].b = b
  BY DEF Grown, Live, Linked, Nested
<1>2. /\ n \in Nat /\ n \in DOMAIN stack' /\ DOMAIN stack' = 1..n
      /\ \A i \in L : /\ i \in Nat /\ i < n /\ i \in DOMAIN stack /\ i \in 1..Len(stack)
                      /\ IsAnd(i)' = IsAnd(i) /\ IsOr(i)' = IsOr(i) /\ HasCont(i)' = HasCont(i)
                      /\ stack'[i].e = stack[i].e /\ stack'[i].bar = stack[i].bar
  BY GrownKinds
<1>3. \A i \in L : IsOr(i) => stack'[i].b = stack[i].b
  BY GrownKinds DEF SameLinks
<1>4. b \in L /\ IsOr(b) /\ (e = None \/ e \in L) /\ \A i \in L : IsOr(i) => i <= b
  BY <1>1 DEF LinkedRegs
<1>5. K \subseteq DOMAIN stack'
  BY <1>1, <1>2
<1>6. \A i \in K : /\ stack'[i].e = None \/ stack'[i].e \in K
                   /\ HasCont(i)' => stack'[i].bar \in K
                   /\ IsOr(i)' => stack'[i].b = None \/ stack'[i].b \in K
  <2> SUFFICES ASSUME NEW i \in K
               PROVE  /\ stack'[i].e = None \/ stack'[i].e \in K
                      /\ HasCont(i)' => stack'[i].bar \in K
                      /\ IsOr(i)' => stack'[i].b = None \/ stack'[i].b \in K
    OBVIOUS
  <2>1. CASE i = n
    BY <1>1, <1>4, <2>1
  <2>2. CASE i \in L
    BY <1>1, <1>2, <1>3, <2>2 DEF LinkedFrames
  <2> QED BY <1>1, <2>1, <2>2
<1>7. \A i, d \in K : IsOr(i)' /\ IsOr(d)' /\ d < i => d <= stack'[i].b
  <2> SUFFICES ASSUME NEW i \in K, NEW d \in K, IsOr(i)', IsOr(d)', d < i
               PROVE  d <= stack'[i].b
    OBVIOUS
  <2>1. d \in L
    BY <1>1, <1>2
  <2>2. CASE i = n
    BY <1>1, <1>2, <1>4, <2>1, <2>2
  <2>3. CASE i \in L
    BY <1>1, <1>2, <1>3, <2>1, <2>3 DEF LinkedFrames
  <2> QED BY <1>1, <2>2, <2>3
<1>8. LinkedFrames(K)'
  BY <1>5, <1>6, <1>7 DEF LinkedFrames
<1>9. NestedFrames(K)'
  <2> SUFFICES ASSUME NEW i \in K, NEW d \in K, IsOr(d)', stack'[i].e < d, d < i
               PROVE  stack'[d].e >= stack'[i].e
    BY DEF NestedFrames
  <2>1. d \in L
    BY <1>1, <1>2
  <2>2. CASE i = n
    BY <1>1, <1>2, <2>1, <2>2 DEF NestedRegs
  <2>3. CASE i \in L
    BY <1>1, <1>2, <2>1, <2>3 DEF NestedFrames
  <2> QED BY <1>1, <2>2, <2>3
<1> QED BY <1>8, <1>9

(* The environment of a frame in use that goes on somewhere in a clause. *)
LEMMA RefersTo ==
  ASSUME TypeOK, Frames, NEW L, L \subseteq DOMAIN stack, Linked(L), NEW i \in L,
         CondRef(i) \/ BodyRef(i)
  PROVE  stack[i].e \in L /\ stack[i].e # None
<1>1. i \in DOMAIN stack
  OBVIOUS
<1>2. stack[i].e # None
  <2>1. CASE HasCont(i) /\ stack[i].cp.ph \in {"body", "cond", "neg"}
    BY <2>1, BarBelow DEF ContOf
  <2>2. CASE IsOr(i) /\ stack[i].alt = "body"
    BY <1>1, <2>2 DEF Frames, Frame, OrFrameOK
  <2> QED BY <2>1, <2>2 DEF CondRef, BodyRef, GoalPhases
<1> QED BY <1>2 DEF Linked, LinkedFrames

(* An open condition is open still. *)
LEMMA GrownBranch ==
  ASSUME TypeOK, TypeOK', Frames, NEW L, NEW K, NEW n, NEW w, Grown(L, K, n, w),
         NEW i \in L, i # w, NEW p, Branch(L, i, p)
  PROVE  Branch(K, i, p)' /\ stack'[i].branch = stack[i].branch
<1>0. PICK d : d = stack[i].branch
  OBVIOUS
<1>1. d \in L /\ IsOr(d) /\ i < d /\ stack[d].e = i /\ stack[d].alt = "body"
  BY <1>0 DEF Branch
<1>2. SameCuts(i) /\ d \in K
  BY <1>1, GrownKinds
<1>3. stack'[i].branch = d /\ stack'[i].cut = stack[i].cut
  BY <1>0, <1>2 DEF SameCuts
<1>4. IsOr(d)' /\ stack'[d].e = i /\ stack'[d].alt = "body" /\ stack'[d].b = stack[d].b
  <2>1. SameLinks(d) /\ IsOr(d)' = IsOr(d)
    BY <1>1, GrownKinds
  <2> QED BY <1>1, <2>1 DEF SameLinks
<1> QED BY <1>0, <1>1, <1>2, <1>3, <1>4 DEF Branch

(* The conditions that are open: those that were, and the one the new frame   *)
(* goes on in.                                                                *)
LEMMA GrownConds ==
  ASSUME TypeOK, TypeOK', Frames, NEW L, NEW K, NEW n, NEW w, Grown(L, K, n, w),
         CondRef(n)' => /\ e \in L /\ e # w /\ Branch(L, e, cp.ph)
                        /\ stack[e].branch <= stack'[n].bar
  PROVE  /\ CondRefs(K)'
         /\ \A i : FrameOpen(K, i)' => FrameOpen(L, i) \/ (CondRef(n)' /\ i = e)
<1>1. K = L \cup {n} /\ stack'[n].e = e /\ stack'[n].cp = cp /\ L \subseteq DOMAIN stack
      /\ Linked(L) /\ CondRefs(L) /\ ~ FrameOpen(L, w)
  BY DEF Grown, Live
<1>2. \A i \in L : SameLinks(i) /\ CondRef(i)' = CondRef(i) /\ stack'[i].e = stack[i].e
  BY GrownKinds
<1>3. \A j \in L : \A p : j # w /\ Branch(L, j, p)
                        => Branch(K, j, p)' /\ stack'[j].branch = stack[j].branch
  BY GrownBranch
<1>4. ASSUME NEW z \in K, CondRef(z)'
      PROVE  /\ Branch(K, stack[z].e, stack[z].cp.ph)'
             /\ stack'[stack'[z].e].branch <= stack'[z].bar
  <2>1. CASE z = n
    <3>1. PICK j, p : j = e /\ p = cp.ph
      OBVIOUS
    <3>2. Branch(K, j, p)' /\ stack'[j].branch = stack[j].branch
      BY <1>3, <1>4, <2>1, <3>1
    <3>3. stack'[n].e = j /\ stack'[n].cp.ph = p /\ stack[j].branch <= stack'[n].bar
      BY <1>1, <1>4, <2>1, <3>1
    <3>4. Branch(K, stack[n].e, stack[n].cp.ph)'
      BY <3>2, <3>3
    <3> QED BY <2>1, <3>2, <3>3, <3>4
  <2>2. CASE z \in L
    <3>0. PICK j, p : j = stack[z].e /\ p = stack[z].cp.ph
      OBVIOUS
    <3>1. CondRef(z) /\ stack'[z].e = j /\ stack'[z].cp.ph = p /\ stack'[z].bar = stack[z].bar
      BY <1>2, <1>4, <2>2, <3>0 DEF SameLinks
    <3>2. Branch(L, j, p) /\ stack[j].branch <= stack[z].bar
      BY <1>1, <2>2, <3>0, <3>1 DEF CondRefs
    <3>3. j \in L /\ j # w
      BY <1>1, <2>2, <3>0, <3>1, RefersTo DEF FrameOpen
    <3>4. Branch(K, j, p)' /\ stack'[j].branch = stack[j].branch
      BY <1>3, <3>2, <3>3
    <3> QED BY <3>1, <3>2, <3>4
  <2> QED BY <1>1, <2>1, <2>2
<1>5. CondRefs(K)'
  BY <1>4 DEF CondRefs
<1>6. \A i : FrameOpen(K, i)' => FrameOpen(L, i) \/ (CondRef(n)' /\ i = e)
  BY <1>1, <1>2 DEF FrameOpen
<1> QED BY <1>5, <1>6

(* Who goes on in the body of a clause goes on below its open condition. *)
LEMMA GrownBodies ==
  ASSUME TypeOK, TypeOK', Frames, NEW L, NEW K, NEW n, NEW w, Grown(L, K, n, w),
         \A i : Open(K, i)' => Open(L, i) \/ i = w,
         w # None => w = e /\ stack'[w].branch = n,
         BodyRef(n)' => e # None /\ (e = w \/ ~ Open(L, e))
  PROVE  BodyRefs(K)'
<1> SUFFICES ASSUME NEW i \in K, BodyRef(i)', Open(K, stack[i].e)'
             PROVE  i <= stack'[stack'[i].e].branch
  BY DEF BodyRefs
<1>1. /\ K = L \cup {n} /\ stack'[n].e = e /\ L \subseteq DOMAIN stack
      /\ Linked(L) /\ BodyRefs(L)
  BY DEF Grown, Live
<1>2. n \in Nat /\ \A j \in L : /\ j \in Nat /\ j < n /\ BodyRef(j)' = BodyRef(j)
                                /\ stack'[j].e = stack[j].e /\ (j # w => SameCuts(j))
  BY GrownKinds
<1>3. PICK j : j = stack'[i].e
  OBVIOUS
<1>4. Open(L, j) \/ j = w
  BY <1>3
<1>5. CASE i = n
  <2>1. j = w /\ w # None
    BY <1>1, <1>3, <1>4, <1>5
  <2> QED BY <1>2, <1>3, <1>5, <2>1
<1>6. CASE i \in L
  <2>1. j \in L /\ j # None /\ j = stack[i].e /\ BodyRef(i)
    BY <1>1, <1>2, <1>3, <1>6, RefersTo
  <2>2. CASE j = w
    BY <1>2, <1>3, <1>6, <2>1, <2>2
  <2>3. CASE j # w
    <3>1. i <= stack[j].branch
      BY <1>1, <1>4, <1>6, <2>1, <2>3 DEF BodyRefs
    <3> QED BY <1>2, <1>3, <2>1, <2>3, <3>1 DEF SameCuts
  <2> QED BY <2>2, <2>3
<1> QED BY <1>1, <1>5, <1>6

(* The proof that a step which pushes a frame keeps the invariant comes down  *)
(* to the new frame and to the registers.                                     *)
LEMMA GrownLive ==
  ASSUME TypeOK, TypeOK', Frames, NEW L, NEW K, NEW n, NEW w, Grown(L, K, n, w),
         CondRefs(K)', BodyRefs(K)', Frame(n)',
         LinkedRegs(K)', NestedRegs(K)', Registers(K)'
  PROVE  Frames' /\ \E Q \in SUBSET DOMAIN stack' : Live(Q)'
<1>1. LinkedFrames(K)' /\ NestedFrames(K)'
  BY GrownLinks
<1>2. K \subseteq DOMAIN stack'
  BY <1>1 DEF LinkedFrames
<1>3. Live(K)'
  BY <1>1 DEF Live, Linked, Nested
<1>4. Frames'
  <2>1. /\ n = Len(stack) + 1 /\ Len(stack') = n /\ \A i \in 1..Len(stack) : SameLinks(i)
        /\ Len(stack) \in Nat /\ DOMAIN stack' = 1..n
    BY FrameTypes, FrameTypesNext DEF Grown
  <2>2. \A i \in 1..Len(stack) : Frame(i)'
    BY <2>1, FramesKept
  <2> QED BY <2>1, <2>2 DEF Frames
<1> QED BY <1>2, <1>3, <1>4

(* The registers after a choice point is pushed. *)
LEMMA GrownChoice ==
  ASSUME TypeOK, TypeOK', Frames, NEW L, NEW K, NEW n, NEW w, Grown(L, K, n, w),
         IsOr(n)', b' = n, e' = e
  PROVE  LinkedRegs(K)' /\ NestedRegs(K)'
<1>1. /\ K = L \cup {n} /\ stack'[n].e = e /\ LinkedRegs(L) /\ NestedRegs(L) /\ e \in Nat
  BY DEF Grown, Live, Linked, Nested, TypeOK, Positions
<1>2. n \in Nat /\ \A i \in L : /\ i \in Nat /\ i < n /\ IsAnd(i)' = IsAnd(i)
                                /\ IsOr(i)' = IsOr(i) /\ stack'[i].e = stack[i].e
  BY GrownKinds
<1>3. e = None \/ (e \in K /\ IsAnd(e)')
  <2>1. PICK j : j = e
    OBVIOUS
  <2>2. j = None \/ (j \in K /\ IsAnd(j)')
    BY <1>1, <1>2, <2>1 DEF LinkedRegs
  <2> QED BY <2>1, <2>2
<1>4. \A i \in K : i <= n
  BY <1>1, <1>2
<1>5. LinkedRegs(K)'
  <2>1. IsOr(b)'
    BY ONLY IsOr(n)', b' = n
  <2> QED BY <1>1, <1>3, <1>4, <2>1 DEF LinkedRegs
<1>6. NestedRegs(K)'
  BY <1>1, <1>2 DEF NestedRegs
<1> QED BY <1>5, <1>6

(* No condition belongs to no environment. *)
LEMMA NoneClosed ==
  ASSUME TypeOK, Frames, NEW L, L \subseteq DOMAIN stack, Linked(L)
  PROVE  ~ FrameOpen(L, None)
  BY RefersTo DEF FrameOpen

(* An environment in use keeps the choice point it was called at. *)
LEMMA GrownUnder ==
  ASSUME TypeOK, TypeOK', Frames, NEW L, NEW K, NEW n, NEW w, Grown(L, K, n, w),
         NEW i, i = None \/ i \in L, NEW d
  PROVE  Under(i, d)' = Under(i, d)
<1>1. CASE i = None
  BY <1>1 DEF Under
<1>2. CASE i \in L
  <2>1. stack'[i].bar = stack[i].bar
    BY <1>2, GrownKinds
  <2> QED BY <2>1 DEF Under
<1> QED BY <1>1, <1>2

(* What PushChoice makes of the stack, field by field. *)
LEMMA NewChoice ==
  ASSUME TypeOK, TypeOK', NEW n, n = Len(stack) + 1, Len(stack') = n,
         NEW alt \in {"neck", "body"}, stack'[n] = OrFrame(alt)
  PROVE  /\ stack'[n].kind = "or" /\ stack'[n].e = e /\ stack'[n].cp = cp /\ stack'[n].b = b
         /\ stack'[n].b0 = b0 /\ stack'[n].alt = alt /\ stack'[n].own = env
         /\ stack'[n].bar = bar
         /\ IsOr(n)' /\ ~ IsAnd(n)'
         /\ HasCont(n)' <=> alt = "neck"
         /\ CondRef(n)' <=> alt = "neck" /\ cp.ph \in GoalPhases
         /\ BodyRef(n)' <=> alt = "body" \/ cp.ph = "body"
<1>1. /\ stack'[n].kind = "or" /\ stack'[n].e = e /\ stack'[n].cp = cp /\ stack'[n].b = b
      /\ stack'[n].b0 = b0 /\ stack'[n].alt = alt /\ stack'[n].own = env
      /\ stack'[n].bar = bar
  BY DEF OrFrame
<1>2. n \in DOMAIN stack'
  BY FrameTypes, FrameTypesNext
<1>3. IsOr(n)' /\ ~ IsAnd(n)'
  BY <1>1, <1>2 DEF IsOr, IsAnd
<1>4. HasCont(n)' <=> alt = "neck"
  BY <1>1, <1>3 DEF HasCont
<1>5. CondRef(n)' <=> alt = "neck" /\ cp.ph \in GoalPhases
  BY <1>1, <1>4 DEF CondRef
<1>6. BodyRef(n)' <=> alt = "body" \/ cp.ph = "body"
  BY <1>1, <1>3, <1>4 DEF BodyRef
<1> QED BY <1>1, <1>3, <1>4, <1>5, <1>6

(* The new choice point is what Frame asks of one. *)
LEMMA NewChoiceFrame ==
  ASSUME TypeOK, TypeOK', Frames, NEW L, NEW K, NEW n, NEW w, Grown(L, K, n, w),
         NEW alt \in {"neck", "body"}, stack'[n] = OrFrame(alt),
         alt = "neck" => /\ ContOf(cp, e) /\ Under(e, bar)
                         /\ bar \in L /\ IsOr(bar) /\ bar <= b /\ b0 = bar,
         alt = "body" => env = e /\ e # None /\ Under(e, b)
  PROVE  Frame(n)'
<1>0. PICK i, d, r : i = e /\ d = b /\ r = bar
  OBVIOUS
<1>1. /\ stack'[n].e = i /\ stack'[n].cp = cp /\ stack'[n].b = d /\ stack'[n].b0 = b0
      /\ stack'[n].alt = alt /\ stack'[n].own = env /\ stack'[n].bar = r
      /\ IsOr(n)' /\ ~ IsAnd(n)'
  BY <1>0, NewChoice DEF Grown
<1>2. /\ d \in L /\ IsOr(d) /\ (i = None \/ (i \in L /\ IsAnd(i))) /\ i \in Nat /\ d \in Nat /\ d # None
  BY <1>0 DEF Grown, Live, Linked, LinkedRegs, TypeOK, Positions
<1>3. d < n /\ IsOr(d)' /\ i < n /\ (i = None \/ IsAnd(i)') /\ (r \in L => IsOr(r)' = IsOr(r))
  BY <1>2, GrownKinds DEF None
<1>4. Under(i, d)' = Under(i, d) /\ Under(i, r)' = Under(i, r)
  BY <1>2, GrownUnder
<1>5. OrFrameOK(n)'
  <2>1. /\ stack'[n].b < n
        /\ stack'[n].b = None \/ IsOr(stack[n].b)'
        /\ stack'[n].b = None <=> stack'[n].alt = "halt"
    BY <1>1, <1>2, <1>3
  <2>2. ASSUME alt = "neck"
        PROVE  /\ ContOf(stack'[n].cp, stack'[n].e)
               /\ IsOr(stack[n].bar)' /\ stack'[n].bar <= stack'[n].b
               /\ stack'[n].b0 = stack'[n].bar /\ Under(stack[n].e, stack[n].bar)'
    <3>1. ContOf(cp, i) /\ Under(i, r)' /\ IsOr(r)' /\ r <= d /\ b0 = r
      BY <1>0, <1>3, <1>4, <2>2
    <3> QED BY <1>1, <3>1
  <2>3. ASSUME alt = "body"
        PROVE  /\ stack'[n].own = stack'[n].e /\ stack'[n].e # None
               /\ Under(stack[n].e, stack[n].b)'
    <3>1. env = i /\ i # None /\ Under(i, d)'
      BY <1>0, <1>4, <2>3
    <3> QED BY <1>1, <3>1
  <2> QED BY <1>1, <2>1, <2>2, <2>3 DEF OrFrameOK, ContOf
<1>6. stack'[n].e < n /\ (stack'[n].e = None \/ IsAnd(stack[n].e)')
  BY <1>1, <1>3
<1> QED BY <1>1, <1>5, <1>6 DEF Frame

(* try_me_else pushes the choice point of a predicate that was just called. *)
LEMMA TryMeElseLive ==
  ASSUME TypeOK, TypeOK', Frames, NEW L \in SUBSET DOMAIN stack, Live(L), TryMeElse
  PROVE  Frames' /\ \E K \in SUBSET DOMAIN stack' : Live(K)'
<1>0. PICK n, K : n = Len(stack) + 1 /\ K = L \cup {n}
  OBVIOUS
<1>1. /\ ph = "entry" /\ ph' = "neck" /\ PushChoice(stack, "neck")
      /\ UNCHANGED <<e, b0, cp, env, bar>>
  BY DEF TryMeElse
<1>2. /\ Len(stack') = n /\ b' = n /\ stack'[n] = OrFrame("neck")
      /\ \A i \in 1..Len(stack) : stack'[i] = stack[i]
  BY <1>0, <1>1, FrameTypes, PushType
<1>3. /\ stack'[n].e = e /\ stack'[n].cp = cp /\ stack'[n].b = b /\ stack'[n].bar = bar
      /\ IsOr(n)'
      /\ CondRef(n)' <=> cp.ph \in GoalPhases
      /\ BodyRef(n)' <=> cp.ph = "body"
  BY <1>0, <1>2, NewChoice
<1>4. CalleeRegs(L) /\ EntryRegs(L) /\ Linked(L) /\ L \subseteq DOMAIN stack
  BY <1>1 DEF Live, Registers, CalleePhases
<1>5. /\ ContOf(cp, e) /\ Under(e, bar) /\ Under(e, b)
      /\ bar \in L /\ IsOr(bar) /\ bar <= b /\ b0 = bar
      /\ cp.ph \in GoalPhases => Branch(L, e, cp.ph) /\ stack[e].branch <= bar
      /\ cp.ph = "body" => ~ Open(L, e)
      /\ e = None \/ e \in L
  BY <1>4 DEF CalleeRegs, EntryRegs, Linked, LinkedRegs
<1>6. Grown(L, K, n, None)
  <2>1. \A i \in 1..Len(stack) : SameLinks(i) /\ SameCuts(i)
    BY <1>2 DEF SameLinks, SameCuts
  <2> QED BY <1>0, <1>2, <1>3, <1>4, <1>5, <2>1, NoneClosed DEF Grown
<1>7. cp.ph \in GoalPhases \cup {"body"} => e # None
  BY <1>5 DEF ContOf, GoalPhases
<1>8. /\ CondRefs(K)'
      /\ \A i : FrameOpen(K, i)' => FrameOpen(L, i) \/ (cp.ph \in GoalPhases /\ i = e)
  BY <1>3, <1>5, <1>6, <1>7, GrownConds
<1>9. \A i : RegOpen(i)' = RegOpen(i)
  BY <1>1 DEF RegOpen, GoalPhases, CalleePhases
<1>10. cp.ph \in GoalPhases => RegOpen(e)
  BY <1>1 DEF RegOpen, CalleePhases
<1>11. \A i : Open(K, i)' => Open(L, i)
  BY <1>8, <1>9, <1>10 DEF Open
<1>12. BodyRefs(K)'
  BY <1>3, <1>5, <1>6, <1>7, <1>11, GrownBodies
<1>13. Frame(n)'
  BY <1>2, <1>5, <1>6, NewChoiceFrame
<1>14. LinkedRegs(K)' /\ NestedRegs(K)'
  BY <1>1, <1>2, <1>3, <1>6, GrownChoice
<1>15. CalleeRegs(K)' /\ EntryRegs(K)'
  <2>0. PICK i, r, p : i = e /\ r = bar /\ p = cp.ph
    OBVIOUS
  <2>1. n \in Nat /\ r \in Nat /\ r < n /\ r \in K /\ IsOr(r)' /\ b \in Nat /\ b < n
    <3>1. b \in L /\ r \in L /\ IsOr(r)
      BY <1>4, <1>5, <2>0 DEF Linked, LinkedRegs
    <3> QED BY <1>6, <3>1, GrownKinds
  <2>2. Under(i, r)' /\ Under(i, n)'
    <3>1. Under(i, r) /\ Under(i, n)
      <4>1. i # None => stack[i].bar \in Nat
        BY <1>5, <2>0, FrameTypes DEF Positions
      <4> QED BY <1>5, <2>0, <2>1, <4>1 DEF Under
    <3> QED BY <1>5, <1>6, <2>0, <3>1, GrownUnder
  <2>3. p \in GoalPhases => Branch(K, i, p)' /\ stack'[i].branch <= r /\ stack'[i].branch <= n
    <3> SUFFICES ASSUME p \in GoalPhases
                 PROVE  Branch(K, i, p)' /\ stack'[i].branch <= r /\ stack'[i].branch <= n
      OBVIOUS
    <3>1. i \in L /\ i # None /\ Branch(L, i, p) /\ stack[i].branch <= r
      BY <1>5, <1>7, <2>0
    <3>2. stack[i].branch \in Nat
      BY <3>1, FrameTypes DEF Branch
    <3>3. Branch(K, i, p)' /\ stack'[i].branch = stack[i].branch
      BY <1>6, <3>1, GrownBranch
    <3> QED BY <2>1, <3>1, <3>2, <3>3
  <2>4. p = "body" => ~ Open(K, i)'
    BY <1>5, <1>11, <2>0
  <2>5. e' = i /\ bar' = r /\ cp'.ph = p /\ cp' = cp /\ b0' = r /\ b' = n /\ ContOf(cp, i) /\ r <= n
    BY <1>1, <1>2, <1>5, <2>0, <2>1
  <2>6. CalleeRegs(K)'
    BY <2>2, <2>3, <2>4, <2>5 DEF CalleeRegs, ContOf
  <2>7. EntryRegs(K)'
    BY <2>1, <2>2, <2>3, <2>5 DEF EntryRegs
  <2> QED BY <2>6, <2>7
<1>16. Registers(K)'
  BY <1>1, <1>15, NeckRegisters
<1> QED BY <1>6, <1>8, <1>12, <1>13, <1>14, <1>16, GrownLive

(* A clause in its body pushes the choice point of a disjunction. *)
LEMMA DisjunctionLive ==
  ASSUME TypeOK, TypeOK', Frames, NEW L \in SUBSET DOMAIN stack, Live(L), Disjunction
  PROVE  Frames' /\ \E K \in SUBSET DOMAIN stack' : Live(K)'
<1>0. PICK n, K, i : n = Len(stack) + 1 /\ K = L \cup {n} /\ i = e
  OBVIOUS
<1>1. /\ ph \in {"start", "body"} /\ ph' = "body" /\ PushChoice(stack, "body")
      /\ UNCHANGED <<e, b0, cp, env, bar>>
  BY DEF Disjunction
<1>2. /\ Len(stack') = n /\ b' = n /\ stack'[n] = OrFrame("body")
      /\ \A j \in 1..Len(stack) : stack'[j] = stack[j]
  BY <1>0, <1>1, FrameTypes, PushType
<1>3. /\ stack'[n].e = e /\ stack'[n].cp = cp /\ stack'[n].b = b
      /\ IsOr(n)' /\ ~ HasCont(n)' /\ ~ CondRef(n)'
  BY <1>0, <1>2, NewChoice
<1>4. /\ env = i /\ i # None /\ Under(i, b) /\ i \in L /\ ~ Open(L, i) /\ Linked(L)
      /\ L \subseteq DOMAIN stack /\ b \in L
  BY <1>0, <1>1, OwnEnv DEF Live, Registers, EnvRegs, EnvPhases, Linked, LinkedRegs
<1>5. Grown(L, K, n, None)
  <2>1. \A j \in 1..Len(stack) : SameLinks(j) /\ SameCuts(j)
    BY <1>2 DEF SameLinks, SameCuts
  <2> QED BY <1>0, <1>2, <1>3, <1>4, <2>1, NoneClosed DEF Grown
<1>6. CondRefs(K)' /\ \A j : FrameOpen(K, j)' => FrameOpen(L, j)
  BY <1>3, <1>5, GrownConds
<1>7. \A j : ~ RegOpen(j)'
  BY <1>1 DEF RegOpen, GoalPhases, CalleePhases
<1>8. \A j : Open(K, j)' => Open(L, j)
  BY <1>6, <1>7 DEF Open
<1>9. BodyRefs(K)'
  BY <1>0, <1>4, <1>5, <1>8, GrownBodies
<1>10. Frame(n)'
  BY <1>0, <1>2, <1>4, <1>5, NewChoiceFrame
<1>11. LinkedRegs(K)' /\ NestedRegs(K)'
  BY <1>1, <1>2, <1>3, <1>5, GrownChoice
<1>12. Under(i, n)'
  <2>1. n \in Nat /\ b \in Nat /\ b < n /\ stack[i].bar \in Nat
    BY <1>4, <1>5, GrownKinds, FrameTypes DEF Positions
  <2>2. Under(i, n)
    BY <1>4, <2>1 DEF Under
  <2> QED BY <1>4, <1>5, <2>2, GrownUnder
<1>13. EnvRegs'
  BY <1>0, <1>1, <1>2, <1>4, <1>12 DEF EnvRegs
<1>14. ~ Open(K, e)'
  BY <1>0, <1>1, <1>4, <1>8
<1>15. Registers(K)'
  BY <1>1, <1>13, <1>14, BodyRegisters
<1> QED BY <1>5, <1>6, <1>9, <1>10, <1>11, <1>15, GrownLive

(* A clause in its body opens a condition or a negation: the branch is the    *)
(* new choice point.                                                          *)
LEMMA OpenLive ==
  ASSUME TypeOK, TypeOK', Frames, NEW L \in SUBSET DOMAIN stack, Live(L), IfThenElse \/ Negation
  PROVE  Frames' /\ \E K \in SUBSET DOMAIN stack' : Live(K)'
<1>0. PICK n, K, i : n = Len(stack) + 1 /\ K = L \cup {n} /\ i = e
  OBVIOUS
<1>1. PICK l \in {b, n} :
        /\ PushChoice([stack EXCEPT ![e] = [stack[e] EXCEPT !.cut = l, !.branch = n]], "body")
        /\ ph \in {"start", "body"} /\ ph' \in GoalPhases
        /\ ph' = "cond" => l = b
        /\ ph' = "neg" => l = n
        /\ UNCHANGED <<e, b0, cp, env, bar>>
  <2>1. CASE IfThenElse
    BY <1>0, <2>1 DEF IfThenElse, PrevLevel, GoalPhases
  <2>2. CASE Negation
    BY <1>0, <2>2 DEF Negation, GoalPhases
  <2> QED BY <2>1, <2>2
<1>2. /\ env = i /\ i # None /\ Under(i, b) /\ i \in L /\ IsAnd(i) /\ ~ Open(L, i) /\ Linked(L)
      /\ L \subseteq DOMAIN stack /\ b \in L
  BY <1>0, <1>1, OwnEnv DEF Live, Registers, EnvRegs, EnvPhases, Linked, LinkedRegs
<1>3. /\ Len(stack) \in Nat /\ DOMAIN stack = 1..Len(stack) /\ stack[i] \in AndFrames /\ ~ IsOr(i)
      /\ b \in Positions /\ n \in Positions /\ i \in 1..Len(stack) /\ n \in Nat /\ b \in Nat
  BY <1>0, <1>1, <1>2, FrameTypes DEF TypeOK, PushChoice, Positions
<1> DEFINE f == [stack[i] EXCEPT !.cut = l, !.branch = n]
           st == [stack EXCEPT ![i] = f]
<1>4. f \in AndFrames
  BY <1>3 DEF AndFrames
<1>5. /\ f.kind = stack[i].kind /\ f.e = stack[i].e /\ f.cp = stack[i].cp
      /\ f.bar = stack[i].bar /\ f.lvl = stack[i].lvl
      /\ f.cut = l /\ f.branch = n
  BY <1>3 DEF AndFrames
<1>6. PushChoice(st, "body")
  BY <1>0, <1>1
<1> HIDE DEF f
<1>7. /\ st \in Seq(AnyFrames) /\ Len(st) = Len(stack)
      /\ \A j \in 1..Len(stack) : st[j] = IF j = i THEN f ELSE stack[j]
  BY <1>0, <1>2, <1>4, ExceptType
<1> HIDE DEF st
<1>8. /\ Len(stack') = n /\ b' = n /\ stack'[n] = OrFrame("body")
      /\ \A j \in 1..Len(stack) : stack'[j] = IF j = i THEN f ELSE stack[j]
  BY <1>0, <1>3, <1>6, <1>7, PushType
<1>9. \A j \in 1..Len(stack) : SameLinks(j) /\ (j # i => SameCuts(j))
  BY <1>2, <1>3, <1>5, <1>8 DEF SameLinks, SameCuts
<1>10. stack'[i].cut = l /\ stack'[i].branch = n
  BY <1>3, <1>5, <1>8
<1>11. /\ stack'[n].e = i /\ stack'[n].cp = cp /\ stack'[n].b = b /\ stack'[n].alt = "body"
       /\ IsOr(n)' /\ ~ HasCont(n)' /\ ~ CondRef(n)'
  BY <1>0, <1>8, NewChoice
<1>12. Grown(L, K, n, i)
  BY <1>0, <1>2, <1>8, <1>9, <1>11 DEF Grown, Open
<1>13. CondRefs(K)' /\ \A j : FrameOpen(K, j)' => FrameOpen(L, j)
  BY <1>11, <1>12, GrownConds
<1>14. \A j : RegOpen(j)' => j = i
  BY <1>0, <1>1 DEF RegOpen
<1>15. \A j : Open(K, j)' => Open(L, j) \/ j = i
  BY <1>13, <1>14 DEF Open
<1>16. BodyRefs(K)'
  BY <1>0, <1>2, <1>10, <1>12, <1>15, GrownBodies
<1>17. Frame(n)'
  BY <1>0, <1>2, <1>8, <1>12, NewChoiceFrame
<1>18. LinkedRegs(K)' /\ NestedRegs(K)'
  BY <1>1, <1>8, <1>11, <1>12, GrownChoice
<1>19. Under(i, n)'
  <2>1. b < n /\ stack[i].bar \in Nat
    BY <1>2, <1>12, GrownKinds, FrameTypes DEF Positions
  <2>2. Under(i, n)
    BY <1>2, <1>3, <2>1 DEF Under
  <2> QED BY <1>2, <1>12, <2>2, GrownUnder
<1>20. EnvRegs'
  BY <1>0, <1>1, <1>2, <1>8, <1>19 DEF EnvRegs
<1>21. GoalRegs(K)'
  <2>1. PICK p : p = ph'
    OBVIOUS
  <2>2. n \in K /\ i < n
    BY <1>0, <1>3
  <2>3. Branch(K, i, p)'
    BY <1>1, <1>10, <1>11, <2>1, <2>2 DEF Branch
  <2> QED BY <1>0, <1>1, <1>3, <1>8, <1>10, <2>1, <2>3 DEF GoalRegs
<1>22. Registers(K)'
  BY <1>1, <1>20, <1>21, GoalRegisters
<1> QED BY <1>12, <1>13, <1>16, <1>17, <1>18, <1>22, GrownLive

(* allocate pushes an environment nothing refers to yet. *)
LEMMA AllocateLive ==
  ASSUME TypeOK, TypeOK', Frames, NEW L \in SUBSET DOMAIN stack, Live(L), Allocate
  PROVE  Frames' /\ \E K \in SUBSET DOMAIN stack' : Live(K)'
<1>0. PICK n, K, i, r, d : n = Len(stack) + 1 /\ K = L \cup {n} /\ i = e /\ r = bar /\ d = b
  OBVIOUS
<1> DEFINE f == [kind |-> "and", e |-> e, cp |-> cp, lvl |-> None,
                 cut |-> None, branch |-> None, bar |-> bar]
<1>1. /\ ph = "neck" /\ ph' = "start" /\ stack' = Append(stack, f)
      /\ e' = n /\ env' = n /\ UNCHANGED <<b, b0, cp, bar>>
  BY <1>0 DEF Allocate
<1>2. f \in AnyFrames
  <2>1. f \in AndFrames
    BY StackBound DEF AndFrames, TypeOK, None, Positions
  <2> QED BY <2>1 DEF AnyFrames
<1>3. /\ f.kind = "and" /\ f.e = i /\ f.cp = cp /\ f.lvl = None /\ f.bar = r
  BY <1>0
<1> HIDE DEF f
<1>4. /\ Len(stack') = n /\ stack'[n] = f /\ \A j \in 1..Len(stack) : stack'[j] = stack[j]
  <2>1. stack \in Seq(AnyFrames)
    BY FrameTypes
  <2> QED BY <1>0, <1>1, <1>2, <2>1, AppendProperties
<1>5. /\ CalleeRegs(L) /\ EntryRegs(L) /\ Linked(L) /\ L \subseteq DOMAIN stack
  BY <1>1 DEF Live, Registers, CalleePhases
<1>6. /\ ContOf(cp, i) /\ Under(i, r)
      /\ r \in L /\ IsOr(r) /\ r <= d /\ b0 = r
      /\ cp.ph \in GoalPhases => Branch(L, i, cp.ph) /\ stack[i].branch <= r
      /\ cp.ph = "body" => ~ Open(L, i)
      /\ i = None \/ (i \in L /\ IsAnd(i))
      /\ d \in L /\ IsOr(d)
  BY <1>0, <1>5 DEF CalleeRegs, EntryRegs, Linked, LinkedRegs
<1>7. /\ n \in DOMAIN stack' /\ IsAnd(n)' /\ ~ IsOr(n)' /\ HasCont(n)'
      /\ CondRef(n)' <=> cp.ph \in GoalPhases
      /\ BodyRef(n)' <=> cp.ph = "body"
  <2>1. n \in DOMAIN stack'
    BY <1>0, <1>4, FrameTypes, FrameTypesNext
  <2>2. IsAnd(n)' /\ ~ IsOr(n)'
    BY <1>3, <1>4, <2>1 DEF IsAnd, IsOr
  <2> QED BY <1>3, <1>4, <2>1, <2>2 DEF HasCont, CondRef, BodyRef
<1>8. Grown(L, K, n, None)
  <2>1. \A j \in 1..Len(stack) : SameLinks(j) /\ SameCuts(j)
    BY <1>4 DEF SameLinks, SameCuts
  <2> QED BY <1>0, <1>3, <1>4, <1>5, <1>6, <1>7, <2>1, NoneClosed DEF Grown
<1>9. cp.ph \in GoalPhases \cup {"body"} => i # None
  BY <1>6 DEF ContOf, GoalPhases
<1>10. /\ CondRefs(K)'
       /\ \A j : FrameOpen(K, j)' => FrameOpen(L, j) \/ (cp.ph \in GoalPhases /\ j = i)
  BY <1>0, <1>3, <1>4, <1>6, <1>7, <1>8, <1>9, GrownConds
<1>11. \A j : ~ RegOpen(j)'
  BY <1>1 DEF RegOpen, GoalPhases, CalleePhases
<1>12. cp.ph \in GoalPhases => RegOpen(i)
  BY <1>0, <1>1 DEF RegOpen, CalleePhases
<1>13. \A j : Open(K, j)' => Open(L, j)
  BY <1>10, <1>11, <1>12 DEF Open
<1>14. BodyRefs(K)'
  BY <1>0, <1>6, <1>7, <1>8, <1>9, <1>13, GrownBodies
<1>15. /\ n \in Nat /\ d \in Nat /\ d < n /\ r \in Nat /\ r < n /\ i \in Nat /\ i < n
       /\ IsOr(r)' /\ IsOr(d)' /\ (i = None \/ IsAnd(i)')
  BY <1>6, <1>8, GrownKinds DEF None
<1>16. Under(i, r)'
  BY <1>6, <1>8, GrownUnder
<1>17. Frame(n)'
  <2>1. ContOf(stack'[n].cp, stack'[n].e) /\ stack'[n].lvl = None
    BY <1>3, <1>4, <1>6
  <2>2. stack'[n].e = i /\ stack'[n].bar = r
    BY <1>3, <1>4
  <2>3. stack'[n].bar < n /\ IsOr(stack[n].bar)' /\ Under(stack[n].e, stack[n].bar)'
    BY <1>15, <1>16, <2>2
  <2>4. stack'[n].e < n /\ (stack'[n].e = None \/ IsAnd(stack[n].e)')
    BY <1>15, <2>2
  <2>5. AndFrame(n)'
    BY <2>1, <2>3 DEF AndFrame, ContOf
  <2> QED BY <1>7, <2>4, <2>5 DEF Frame
<1>18. LinkedRegs(K)' /\ NestedRegs(K)'
  <2>1. \A j \in K : IsOr(j)' => j \in L /\ IsOr(j)
    BY <1>0, <1>7, <1>8, GrownKinds
  <2>2. \A j \in K : IsOr(j)' => j <= d
    BY <1>0, <1>5, <2>1 DEF Linked, LinkedRegs
  <2>3. IsOr(b)' /\ IsAnd(e)'
    <3>1. IsOr(d)' /\ IsAnd(n)' /\ b' = d /\ e' = n
      BY <1>0, <1>1, <1>7, <1>15
    <3> QED BY ONLY <3>1
  <2>4. LinkedRegs(K)'
    BY <1>0, <1>1, <1>6, <2>2, <2>3 DEF LinkedRegs
  <2>5. NestedRegs(K)'
    <3>1. \A j \in K : IsOr(j)' => j < n
      BY <1>8, <2>1, GrownKinds
    <3>2. \A j \in K : ~ (IsOr(j)' /\ j > n)
      BY <1>0, <1>8, <1>15, <3>1, GrownKinds
    <3> QED BY <1>1, <3>2 DEF NestedRegs
  <2> QED BY <2>4, <2>5
<1>19. EnvRegs' /\ StartRegs'
  <2>1. stack'[n].bar = r
    BY <1>3, <1>4
  <2>2. Under(n, d)'
    BY <1>6, <2>1 DEF Under
  <2>3. e' = n /\ env' = n /\ b' = d /\ bar' = r /\ b0' = r /\ n # None
    BY <1>0, <1>1, <1>6, <1>15 DEF None
  <2> QED BY <2>1, <2>2, <2>3 DEF EnvRegs, StartRegs
<1>20. ~ Open(K, n)'
  <2>1. ~ FrameOpen(L, n)
    <3>1. n \notin L
      BY <1>8, GrownKinds
    <3> QED BY <1>5, <3>1, RefersTo DEF FrameOpen
  <2>2. n # i
    BY <1>15
  <2> QED BY <1>10, <1>11, <2>1, <2>2 DEF Open
<1>21. Registers(K)'
  BY <1>1, <1>19, <1>20, StartRegisters
<1> QED BY <1>8, <1>10, <1>14, <1>17, <1>18, <1>21, GrownLive

-----------------------------------------------------------------------------
(* Every step keeps the invariant. *)
LEMMA InvStep ==
  ASSUME Inv, [Next]_ctrlVars
  PROVE  Inv'
<1>0. PICK L \in SUBSET DOMAIN stack : Live(L)
  BY DEF Inv
<1>1. TypeOK /\ Frames
  BY DEF Inv
<1>2. TypeOK'
  BY <1>0, <1>1, TypeStep
<1>3. SUFFICES Frames' /\ \E K \in SUBSET DOMAIN stack' : Live(K)'
  BY <1>2 DEF Inv
<1>4. CASE TryMeElse
  BY <1>0, <1>1, <1>2, <1>4, TryMeElseLive
<1>5. CASE OnlyClause
  BY <1>0, <1>1, <1>2, <1>5, OnlyClauseLive
<1>6. CASE Fail
  BY <1>0, <1>1, <1>2, <1>6, FailLive
<1>7. CASE RetryMeElse \/ TrustMe
  BY <1>0, <1>1, <1>2, <1>7, RetriesLive
<1>8. CASE NeckCut
  BY <1>0, <1>1, <1>2, <1>8, NeckCutLive
<1>9. CASE GetLevel
  BY <1>0, <1>1, <1>2, <1>9, GetLevelLive
<1>10. CASE Cut
  BY <1>0, <1>1, <1>2, <1>10, CutLive
<1>11. CASE Disjunction
  BY <1>0, <1>1, <1>2, <1>11, DisjunctionLive
<1>12. CASE IfThenElse \/ Negation
  BY <1>0, <1>1, <1>2, <1>12, OpenLive
<1>13. CASE LocalCut \/ CutPrevFail
  BY <1>0, <1>1, <1>2, <1>13, BranchCutLive
<1>14. CASE Allocate
  BY <1>0, <1>1, <1>2, <1>14, AllocateLive
<1>15. CASE Call
  BY <1>0, <1>1, <1>2, <1>15, CallLive
<1>16. CASE Execute
  BY <1>0, <1>1, <1>2, <1>16, ExecuteLive
<1>17. ASSUME NEW next \in {"exec", "ret"}, Deallocate(next)
       PROVE  Frames' /\ \E K \in SUBSET DOMAIN stack' : Live(K)'
  BY <1>0, <1>1, <1>2, <1>17, DeallocateLive
<1>18. CASE Proceed
  BY <1>0, <1>1, <1>2, <1>18, ProceedLive
<1>19. CASE UNCHANGED ctrlVars
  <2>1. UNCHANGED <<stack, e, b, b0, cp, ph, env, bar>>
    BY <1>19 DEF ctrlVars
  <2>2. Frames'
    BY <1>1, <2>1 DEF Frames, Frame, AndFrame, OrFrameOK, ContOf, Under, IsAnd, IsOr
  <2>3. Live(L)'
    <3>1. \A i : IsAnd(i)' = IsAnd(i) /\ IsOr(i)' = IsOr(i)
      BY <2>1 DEF IsAnd, IsOr
    <3>2. \A i : /\ HasCont(i)' = HasCont(i) /\ CondRef(i)' = CondRef(i)
                 /\ BodyRef(i)' = BodyRef(i) /\ RegOpen(i)' = RegOpen(i)
      BY <2>1, <3>1 DEF HasCont, CondRef, BodyRef, RegOpen
    <3>3. \A i : Open(L, i)' = Open(L, i)
      BY <2>1, <3>2 DEF Open, FrameOpen
    <3>4. \A i, p : Branch(L, i, p)' = Branch(L, i, p) /\ Under(i, p)' = Under(i, p)
      BY <2>1, <3>1 DEF Branch, Under
    <3>5. Linked(L)' /\ Nested(L)'
      BY <1>0, <2>1, <3>1, <3>2
         DEF Live, Linked, LinkedFrames, LinkedRegs, Nested, NestedFrames, NestedRegs
    <3>6. CondRefs(L)' /\ BodyRefs(L)'
      BY <1>0, <2>1, <3>2, <3>3, <3>4 DEF Live, CondRefs, BodyRefs
    <3>7. Registers(L)'
      BY <1>0, <2>1, <3>1, <3>3, <3>4
         DEF Live, Registers, CalleeRegs, EntryRegs, EnvRegs, StartRegs, GoalRegs, AltRegs, ContOf
    <3> QED BY <3>5, <3>6, <3>7 DEF Live
  <2> QED BY <1>0, <2>1, <2>2, <2>3
<1> QED
  BY <1>4, <1>5, <1>6, <1>7, <1>8, <1>9, <1>10, <1>11, <1>12, <1>13, <1>14, <1>15, <1>16,
     <1>17, <1>18, <1>19 DEF Next

(* The stub choice point and the query's own call satisfy the invariant. *)
LEMMA InitInv ==
  ASSUME Init
  PROVE  Inv
<1> DEFINE f == [kind |-> "or", e |-> None, cp |-> Top, b |-> None, b0 |-> None,
                 alt |-> "halt", own |-> None, bar |-> None]
<1>1. /\ stack = <<f>> /\ e = None /\ b = 1 /\ b0 = 1 /\ cp = Top /\ ph = "entry"
      /\ env = None /\ bar = 1
  BY DEF Init
<1>2. 0 \in Positions /\ 1 \in Positions /\ 1 <= MaxStack
  BY StackBound DEF Positions
<1>3. Top \in Conts
  BY <1>2 DEF Top, Conts, Phases, None
<1>4. f \in OrFrames
  BY <1>2, <1>3 DEF OrFrames, None
<1>5. /\ f.kind = "or" /\ f.e = None /\ f.b = None /\ f.alt = "halt" /\ f.cp.ph = "done"
  BY DEF Top
<1> HIDE DEF f
<1>6. stack \in Seq(AndFrames \cup OrFrames) /\ Len(stack) = 1 /\ DOMAIN stack = {1} /\ stack[1] = f
  BY <1>1, <1>4
<1>7. TypeOK
  BY <1>1, <1>2, <1>3, <1>6 DEF TypeOK, Phases, None
<1>8. IsOr(1) /\ \A i : ~ IsAnd(i) /\ (IsOr(i) => i = 1)
  BY <1>5, <1>6 DEF IsOr, IsAnd
<1>9. Frames
  BY <1>5, <1>6, <1>8 DEF Frames, Frame, OrFrameOK, None
<1>10. \A i : ~ HasCont(i) /\ ~ CondRef(i) /\ ~ BodyRef(i)
  BY <1>5, <1>6, <1>8 DEF HasCont, CondRef, BodyRef
<1>11. PICK L : L = {1}
  OBVIOUS
<1>12. Linked(L)
  BY <1>1, <1>5, <1>6, <1>8, <1>10, <1>11 DEF Linked, LinkedFrames, LinkedRegs
<1>13. Nested(L)
  BY <1>1, <1>5, <1>6, <1>11 DEF Nested, NestedFrames, NestedRegs, None
<1>14. CondRefs(L) /\ BodyRefs(L)
  BY <1>10 DEF CondRefs, BodyRefs
<1>15. Registers(L)
  <2>1. cp.ph = "done" /\ cp.env = None
    BY <1>1 DEF Top
  <2>2. CalleeRegs(L)
    BY <1>1, <2>1 DEF CalleeRegs, ContOf, Under, GoalPhases
  <2>3. EntryRegs(L)
    BY <1>1, <1>8, <1>11, <2>1 DEF EntryRegs, Under, GoalPhases
  <2> QED BY <1>1, <2>2, <2>3 DEF Registers, EnvPhases, GoalPhases
<1>16. Live(L) /\ L \in SUBSET DOMAIN stack
  BY <1>6, <1>11, <1>12, <1>13, <1>14, <1>15 DEF Live
<1> QED BY <1>7, <1>9, <1>16 DEF Inv

(* The invariant holds in every state. *)
LEMMA Invariance == Spec => []Inv
<1>1. Init => Inv
  BY InitInv
<1>2. Inv /\ [Next]_ctrlVars => Inv'
  BY InvStep
<1> QED BY <1>1, <1>2, PTL DEF Spec

-----------------------------------------------------------------------------
(* Every register and every frame has its type, and b always names a choice   *)
(* point, whatever is called, cut and retried and for stacks of any height.   *)
THEOREM TypeCorrect == Spec => []TypeOK
<1>1. Inv => TypeOK
  BY DEF Inv
<1> QED BY <1>1, Invariance, PTL

(* The chains of environments and of choice points, from the registers and    *)
(* from every frame, run down the stack through frames of the right kind that *)
(* deallocate, trust_me and neck_cut have not given up.                       *)
THEOREM ChainsLive == Spec => []FramesLive
<1>1. Inv => FramesLive
  BY DEF Inv, Live, Linked, LinkedRegs, FramesLive, Frames, Frame, OrFrameOK, IsOr
<1> QED BY <1>1, Invariance, PTL

(* A clause that goes on after a call, or in an alternative, finds its own    *)
(* environment in e.                                                          *)
THEOREM FindsItsEnvironment == Spec => []OwnEnvironment
<1>1. Inv => OwnEnvironment
  BY OwnEnv DEF Inv, OwnEnvironment
<1> QED BY <1>1, Invariance, PTL

-----------------------------------------------------------------------------
Collects(F, D, G, link) == F = [j \in D |-> IF j \in G THEN {j} \cup F[link[j]] ELSE {}]

(* A function that collects the elements of G along a chain of links exists:  *)
(* it takes from j to the elements of G in every set that holds j and is      *)
(* closed under the links.                                                    *)
LEMMA ChainExists ==
  ASSUME NEW D, NEW G \in SUBSET D, NEW link \in [G -> D]
  PROVE  \E F : Collects(F, D, G, link)
<1> DEFINE Closed(W) == \A i \in W : i \in G => link[i] \in W
           F == [j \in D |-> {k \in G : \A W \in SUBSET D : j \in W /\ Closed(W) => k \in W}]
<1>1. ASSUME NEW j \in D, NEW k
      PROVE  k \in F[j] <=> k \in G /\ \A W \in SUBSET D : j \in W /\ Closed(W) => k \in W
  OBVIOUS
<1> HIDE DEF F
<1>2. ASSUME NEW j \in D, j \notin G
      PROVE  F[j] = {}
  <2> SUFFICES ASSUME NEW k \in F[j] PROVE FALSE
    OBVIOUS
  <2>1. Closed({j}) /\ {j} \in SUBSET D
    BY <1>2
  <2>2. k \in {j} /\ k \in G
    BY <1>1, <2>1
  <2> QED BY <1>2, <2>2
<1>3. ASSUME NEW j \in G
      PROVE  F[j] = {j} \cup F[link[j]]
  <2>0. j \in D /\ link[j] \in D
    OBVIOUS
  <2>1. ASSUME NEW k \in F[j], k # j
        PROVE  k \in F[link[j]]
    <3>1. k \in G
      BY <1>1, <2>0, <2>1
    <3>2. ASSUME NEW W \in SUBSET D, link[j] \in W, Closed(W)
          PROVE  k \in W
      <4>1. Closed(W \cup {j}) /\ W \cup {j} \in SUBSET D
        BY <2>0, <3>2
      <4>2. k \in W \cup {j}
        BY <1>1, <2>0, <2>1, <4>1
      <4> QED BY <2>1, <4>2
    <3> QED BY <1>1, <2>0, <3>1, <3>2
  <2>2. j \in F[j]
    BY <1>1, <2>0
  <2>3. ASSUME NEW k \in F[link[j]]
        PROVE  k \in F[j]
    <3>1. k \in G /\ \A W \in SUBSET D : link[j] \in W /\ Closed(W) => k \in W
      BY <1>1, <2>0, <2>3
    <3>2. \A W \in SUBSET D : j \in W /\ Closed(W) => k \in W
      BY <3>1
    <3> QED BY <1>1, <2>0, <3>1, <3>2
  <2> QED BY <2>1, <2>2, <2>3
<1>4. F = [j \in D |-> F[j]]
  BY DEF F
<1>5. \A j \in D : F[j] = IF j \in G THEN {j} \cup F[link[j]] ELSE {}
  BY <1>2, <1>3
<1>6. Collects(F, D, G, link)
  BY <1>4, <1>5 DEF Collects
<1> QED BY <1>6

(* The chain of choice points from j, one link at a time. *)
LEMMA ChoicesStep ==
  ASSUME TypeOK, Frames, NEW j \in 0..Len(stack)
  PROVE  Choices(j) = IF IsOr(j) THEN {j} \cup Choices(stack[j].b) ELSE {}
<1> DEFINE D == 0..Len(stack)
           G == {i \in D : IsOr(i)}
           link == [i \in G |-> stack[i].b]
           Fits(F) == F = [i \in D |-> IF IsOr(i) THEN {i} \cup F[stack[i].b] ELSE {}]
           C == CHOOSE F : Fits(F)
<1>1. \A i \in G : stack[i].b \in D
  <2> SUFFICES ASSUME NEW i \in G PROVE stack[i].b \in D
    OBVIOUS
  <2>1. i \in DOMAIN stack /\ IsOr(i) /\ stack[i].b \in Nat /\ i \in Nat /\ i <= Len(stack)
        /\ Len(stack) \in Nat
    BY FrameTypes DEF Positions
  <2>2. stack[i].b < i
    BY <2>1 DEF Frames, Frame, OrFrameOK
  <2> QED BY <2>1, <2>2
<1>2. \E F : Fits(F)
  <2>1. G \in SUBSET D /\ link \in [G -> D]
    BY <1>1
  <2>2. PICK F : Collects(F, D, G, link)
    <3> HIDE DEF D, G, link
    <3> QED BY <2>1, ChainExists
  <2>3. \A i \in D : (IF i \in G THEN {i} \cup F[link[i]] ELSE {})
                       = IF IsOr(i) THEN {i} \cup F[stack[i].b] ELSE {}
    OBVIOUS
  <2>4. Fits(F)
    <3> HIDE DEF D, G, link
    <3> QED BY <2>2, <2>3 DEF Collects
  <2> QED BY <2>4
<1>3. Fits(C)
  <2> HIDE DEF Fits
  <2> QED BY <1>2
<1>4. \A i : Choices(i) = C[i]
  BY DEF Choices
<1>5. C[j] = IF IsOr(j) THEN {j} \cup C[stack[j].b] ELSE {}
  <2> HIDE DEF C
  <2> QED BY <1>3
<1> HIDE DEF C
<1> QED BY <1>4, <1>5

(* The chain of environments from j, one link at a time. *)
LEMMA EnvsStep ==
  ASSUME TypeOK, Frames, NEW j \in 0..Len(stack)
  PROVE  Envs(j) = IF IsAnd(j) THEN {j} \cup Envs(stack[j].e) ELSE {}
<1> DEFINE D == 0..Len(stack)
           G == {i \in D : IsAnd(i)}
           link == [i \in G |-> stack[i].e]
           Fits(F) == F = [i \in D |-> IF IsAnd(i) THEN {i} \cup F[stack[i].e] ELSE {}]
           C == CHOOSE F : Fits(F)
<1>1. \A i \in G : stack[i].e \in D
  <2> SUFFICES ASSUME NEW i \in G PROVE stack[i].e \in D
    OBVIOUS
  <2>1. i \in DOMAIN stack /\ i \in Nat /\ i <= Len(stack) /\ Len(stack) \in Nat
    BY FrameTypes
  <2>2. stack[i].e < i /\ stack[i].e \in Nat
    BY <2>1, FrameTypes DEF Frames, Frame, Positions
  <2> QED BY <2>1, <2>2
<1>2. \E F : Fits(F)
  <2>1. G \in SUBSET D /\ link \in [G -> D]
    BY <1>1
  <2>2. PICK F : Collects(F, D, G, link)
    <3> HIDE DEF D, G, link
    <3> QED BY <2>1, ChainExists
  <2>3. \A i \in D : (IF i \in G THEN {i} \cup F[link[i]] ELSE {})
                       = IF IsAnd(i) THEN {i} \cup F[stack[i].e] ELSE {}
    OBVIOUS
  <2>4. Fits(F)
    <3> HIDE DEF D, G, link
    <3> QED BY <2>2, <2>3 DEF Collects
  <2> QED BY <2>4
<1>3. Fits(C)
  <2> HIDE DEF Fits
  <2> QED BY <1>2
<1>4. \A i : Envs(i) = C[i]
  BY DEF Envs
<1>5. C[j] = IF IsAnd(j) THEN {j} \cup C[stack[j].e] ELSE {}
  <2> HIDE DEF C
  <2> QED BY <1>3
<1> HIDE DEF C
<1> QED BY <1>4, <1>5

(* The choice points to be reached from one in use are those in use up to it. *)
LEMMA ChoicesBelow ==
  ASSUME TypeOK, Frames, NEW L \in SUBSET DOMAIN stack, LinkedFrames(L), NEW c \in L, IsOr(c)
  PROVE  Choices(c) = {d \in L : IsOr(d) /\ d <= c}
<1> DEFINE Below(u) == {d \in L : IsOr(d) /\ d <= u}
           T == {u \in L : IsOr(u) /\ Choices(u) # Below(u)}
<1>1. DOMAIN stack = 1..Len(stack) /\ Len(stack) \in Nat /\ L \subseteq Nat
  BY FrameTypes
<1>2. T = {}
  <2> SUFFICES ASSUME T # {} PROVE FALSE
    OBVIOUS
  <2>1. PICK u \in T : \A y \in T : u <= y
    BY <1>1, Smallest
  <2>2. /\ u \in L /\ IsOr(u) /\ u \in Nat /\ u \in 0..Len(stack) /\ Choices(u) # Below(u)
        /\ u \in DOMAIN stack /\ stack[u].b \in Nat
    BY <1>1, <2>1, FrameTypes DEF Positions
  <2>3. stack[u].b < u /\ (stack[u].b = None \/ IsOr(stack[u].b))
    BY <2>2 DEF Frames, Frame, OrFrameOK
  <2>4. \A d \in L : IsOr(d) /\ d < u => d <= stack[u].b
    BY <2>2 DEF LinkedFrames
  <2>5. Below(u) = {u} \cup Below(stack[u].b)
    BY <1>1, <2>2, <2>3, <2>4
  <2>6. Choices(u) = {u} \cup Choices(stack[u].b)
    BY <2>2, ChoicesStep
  <2>7. Choices(stack[u].b) = Below(stack[u].b)
    <3>1. CASE stack[u].b = None
      <4>1. 0 \in 0..Len(stack) /\ ~ IsOr(0)
        BY <1>1 DEF IsOr
      <4>2. Choices(0) = {}
        BY <4>1, ChoicesStep
      <4>3. \A d \in L : ~ (d <= 0)
        BY <1>1
      <4> QED BY <3>1, <4>2, <4>3 DEF None
    <3>2. CASE stack[u].b # None
      <4>1. stack[u].b \in L /\ IsOr(stack[u].b)
        BY <2>2, <2>3, <3>2 DEF LinkedFrames
      <4>2. stack[u].b \notin T
        BY <2>1, <2>2, <2>3
      <4> QED BY <4>1, <4>2
    <3> QED BY <3>1, <3>2
  <2> QED BY <2>2, <2>5, <2>6, <2>7
<1> QED BY <1>2

(* The environments to be reached from one in use are in use. *)
LEMMA EnvsBelow ==
  ASSUME TypeOK, Frames, NEW L \in SUBSET DOMAIN stack, LinkedFrames(L), NEW i, i = None \/ i \in L
  PROVE  \A j \in Envs(i) : j \in L /\ IsAnd(j) /\ j <= i
<1> DEFINE Good(u) == \A j \in Envs(u) : j \in L /\ IsAnd(j) /\ j <= u
           T == {u \in L : ~ Good(u)}
<1>1. DOMAIN stack = 1..Len(stack) /\ Len(stack) \in Nat /\ L \subseteq Nat
  BY FrameTypes
<1>2. Good(0)
  <2>1. 0 \in 0..Len(stack) /\ ~ IsAnd(0)
    BY <1>1 DEF IsAnd
  <2> QED BY <2>1, EnvsStep
<1>3. T = {}
  <2> SUFFICES ASSUME T # {} PROVE FALSE
    OBVIOUS
  <2>1. PICK u \in T : \A y \in T : u <= y
    BY <1>1, Smallest
  <2>2. /\ u \in L /\ u \in Nat /\ u \in 0..Len(stack) /\ ~ Good(u)
        /\ u \in DOMAIN stack /\ stack[u].e \in Nat
    BY <1>1, <2>1, FrameTypes DEF Positions
  <2>3. stack[u].e < u /\ (stack[u].e = None \/ stack[u].e \in L)
    BY <2>2 DEF Frames, Frame, LinkedFrames
  <2>4. Good(stack[u].e)
    <3>1. CASE stack[u].e = None
      BY <1>2, <3>1 DEF None
    <3>2. CASE stack[u].e \in L
      <4>1. stack[u].e \notin T
        BY <2>1, <2>2, <2>3
      <4> QED BY <3>2, <4>1
    <3> QED BY <2>3, <3>1, <3>2
  <2>5. Envs(u) = IF IsAnd(u) THEN {u} \cup Envs(stack[u].e) ELSE {}
    BY <2>2, EnvsStep
  <2>6. Good(u)
    <3> SUFFICES ASSUME NEW j \in Envs(u) PROVE j \in L /\ IsAnd(j) /\ j <= u
      OBVIOUS
    <3>1. CASE j = u
      BY <2>2, <2>5, <3>1
    <3>2. CASE j \in Envs(stack[u].e)
      <4>1. j \in L /\ IsAnd(j) /\ j <= stack[u].e /\ j \in Nat
        BY <1>1, <2>4, <3>2
      <4> QED BY <2>2, <2>3, <4>1
    <3> QED BY <2>5, <3>1, <3>2
  <2> QED BY <2>2, <2>6
<1>4. CASE i = None
  BY <1>2, <1>4 DEF None
<1>5. CASE i \in L
  BY <1>3, <1>5
<1> QED BY <1>4, <1>5

(* The level an environment in use saved is the choice point its predicate    *)
(* was called at, and that is in use, below the environment.                  *)
LEMMA SavedLevel ==
  ASSUME TypeOK, Frames, NEW L \in SUBSET DOMAIN stack, LinkedFrames(L), NEW j \in L,
         IsAnd(j), stack[j].lvl # None
  PROVE  /\ stack[j].lvl = stack[j].bar /\ stack[j].lvl \in L /\ IsOr(stack[j].lvl)
         /\ stack[j].lvl \in Nat /\ stack[j].lvl < j
<1>1. HasCont(j) /\ j \in DOMAIN stack
  BY DEF HasCont
<1>2. stack[j].lvl \in {None, stack[j].bar}
  BY <1>1 DEF Frames, Frame, AndFrame
<1>3. stack[j].bar \in Nat /\ stack[j].bar < j /\ IsOr(stack[j].bar) /\ stack[j].bar \in L
  BY <1>1, BarBelow DEF LinkedFrames
<1> QED BY <1>2, <1>3

(* The invariant implies CutBarrier. *)
LEMMA InvBarrier ==
  ASSUME Inv
  PROVE  CutBarrier
<1>0. PICK L \in SUBSET DOMAIN stack : Live(L)
  BY DEF Inv
<1>1. TypeOK /\ Frames /\ LinkedFrames(L) /\ LinkedRegs(L) /\ Registers(L) /\ L \subseteq Nat
      /\ b \in L /\ IsOr(b) /\ (e = None \/ e \in L) /\ b \in Nat
  <2>1. TypeOK /\ Frames /\ LinkedFrames(L) /\ LinkedRegs(L) /\ Registers(L)
    BY <1>0 DEF Inv, Live, Linked
  <2>2. L \subseteq Nat
    BY <1>0, <2>1, FrameTypes
  <2> QED BY <2>1, <2>2 DEF LinkedRegs
<1>2. Choices(b) = {d \in L : IsOr(d) /\ d <= b}
  BY <1>0, <1>1, ChoicesBelow
<1>3. ASSUME ph \in {"entry", "neck", "start"}
      PROVE  b0 = bar /\ b0 \in Choices(b)
  <2>1. CASE ph \in {"entry", "neck"}
    BY <1>1, <1>2, <2>1 DEF Registers, EntryRegs
  <2>2. CASE ph = "start"
    <3>1. b0 = bar /\ bar = stack[e].bar /\ e \in L /\ IsAnd(e)
      BY <1>0, <1>1, <2>2, OwnEnv DEF Registers, StartRegs, EnvPhases
    <3>2. HasCont(e)
      BY <3>1 DEF HasCont
    <3>3. bar \in L /\ IsOr(bar)
      BY <1>1, <3>1, <3>2, BarBelow DEF LinkedFrames
    <3>4. bar <= b
      BY <1>1, <3>3 DEF LinkedRegs
    <3> QED BY <1>2, <3>1, <3>3, <3>4
  <2> QED BY <1>3, <2>1, <2>2
<1>4. ASSUME NEW c \in L, IsOr(c), NEW i, i = None \/ i \in L, i < c \/ c = b, NEW j \in Envs(i),
             stack[j].lvl # None
      PROVE  stack[j].lvl = stack[j].bar /\ stack[j].lvl \in Choices(c)
  <2>1. j \in L /\ IsAnd(j) /\ j <= i
    BY <1>0, <1>1, <1>4, EnvsBelow
  <2>2. /\ stack[j].lvl = stack[j].bar /\ stack[j].lvl \in L /\ IsOr(stack[j].lvl)
        /\ stack[j].lvl \in Nat /\ stack[j].lvl < j
    BY <1>0, <1>1, <1>4, <2>1, SavedLevel
  <2>3. stack[j].lvl <= c
    <3>1. CASE c = b
      BY <1>1, <2>2, <3>1 DEF LinkedRegs
    <3>2. CASE i < c
      <4>1. i \in Nat /\ c \in Nat /\ j \in Nat
        BY <1>1, <1>4, <2>1 DEF None
      <4> QED BY <2>1, <2>2, <3>2, <4>1
    <3> QED BY <1>4, <3>1, <3>2
  <2>4. Choices(c) = {d \in L : IsOr(d) /\ d <= c}
    BY <1>0, <1>1, <1>4, ChoicesBelow
  <2> QED BY <2>2, <2>3, <2>4
<1>5. \A j \in Envs(e) : stack[j].lvl # None =>
        stack[j].lvl = stack[j].bar /\ stack[j].lvl \in Choices(b)
  BY <1>1, <1>4
<1>6. ASSUME NEW c \in Choices(b)
      PROVE  \A j \in Envs(stack[c].e) : stack[j].lvl # None =>
               stack[j].lvl = stack[j].bar /\ stack[j].lvl \in Choices(c)
  <2>1. c \in L /\ IsOr(c) /\ c \in DOMAIN stack
    BY <1>2, <1>6
  <2>2. (stack[c].e = None \/ stack[c].e \in L) /\ stack[c].e < c
    BY <1>1, <2>1 DEF LinkedFrames, Frames, Frame
  <2> QED BY <1>4, <2>1, <2>2
<1> QED BY <1>3, <1>5, <1>6 DEF CutBarrier

(* b0 is the choice point of the call the running clause answers, the levels  *)
(* that get_level saved are those of their predicates, and all of them are    *)
(* still there to cut back to, now and after any backtracking.                *)
THEOREM BarrierKept == Spec => []CutBarrier
<1>1. Inv => CutBarrier
  BY InvBarrier
<1> QED BY <1>1, Invariance, PTL

(* A condition that succeeds, and a negated goal that does, drop the branch   *)
(* and what was pushed after it, and no older choice point.                   *)
THEOREM BranchCommits == Spec => CommitsToBranch
<1>1. ASSUME Inv, LocalCut \/ CutPrevFail
      PROVE  Choices(b') = {c \in Choices(b) : c < stack[env].branch}
  <2>0. PICK L \in SUBSET DOMAIN stack : Live(L)
    BY <1>1 DEF Inv
  <2>1. TypeOK /\ Frames /\ LinkedFrames(L) /\ LinkedRegs(L) /\ b \in L /\ IsOr(b) /\ L \subseteq Nat
    <3>1. TypeOK /\ Frames /\ LinkedFrames(L) /\ LinkedRegs(L)
      BY <1>1, <2>0 DEF Inv, Live, Linked
    <3> QED BY <2>0, <3>1, FrameTypes DEF LinkedRegs
  <2>2. env = e
    BY <1>1, <2>0, OwnEnv DEF LocalCut, CutPrevFail, EnvPhases
  <2>3. PICK c : c = stack[e].branch
    OBVIOUS
  <2>4. /\ b' = stack[c].b /\ IsOr(b') /\ b' \in L /\ b' < c /\ c <= b /\ c \in L /\ IsOr(c)
    BY <1>1, <2>0, <2>1, <2>3, CutToBranch
  <2>5. Choices(b) = {d \in L : IsOr(d) /\ d <= b}
    BY <2>0, <2>1, ChoicesBelow
  <2>6. Choices(b') = {d \in L : IsOr(d) /\ d <= b'}
    BY <2>0, <2>1, <2>4, ChoicesBelow
  <2>7. \A d \in L : IsOr(d) => (d <= b' <=> d <= b /\ d < c)
    <3> SUFFICES ASSUME NEW d \in L, IsOr(d) PROVE d <= b' <=> d <= b /\ d < c
      OBVIOUS
    <3>1. d < c => d <= b'
      BY <2>1, <2>4 DEF LinkedFrames
    <3>2. d \in Nat /\ c \in Nat /\ b \in Nat /\ b' \in Nat
      BY <2>1, <2>4
    <3> QED BY <2>4, <3>1, <3>2
  <2> QED BY <2>2, <2>3, <2>5, <2>6, <2>7
<1>2. Inv => [LocalCut \/ CutPrevFail =>
                Choices(b') = {c \in Choices(b) : c < stack[env].branch}]_ctrlVars
  BY <1>1
<1> QED BY <1>2, Invariance, PTL DEF CommitsToBranch

-----------------------------------------------------------------------------
(***************************************************************************)
(* The data of the abstract machine, for heaps, trails and stacks of any    *)
(* size: undoing the trail restores what a choice point saw, and no         *)
(* reference outlives the cell it names.                                    *)
(*                                                                          *)
(* The two need each other.  That a binding was trailed if it had to be     *)
(* rests on references leading to a cell that is there and that refers to   *)
(* itself (Deref ends); that the references are good after backtracking     *)
(* rests on getting back the memory the choice point was made with, and on  *)
(* that memory having been good.  The invariant therefore also speaks of    *)
(* what each choice point saved.                                            *)
(***************************************************************************)

Cell == {Con} \cup {H(i) : i \in Nat} \cup {S(i) : i \in Nat}
Refs == {H(i) : i \in Nat} \cup {S(i) : i \in Nat}

(* What a choice point saves. *)
CellMaps == UNION {[D -> Cell] : D \in SUBSET Nat}
Saved == [tr : Nat, h : Nat, x : Cell, heap : Seq(Cell), ys : CellMaps]

(* An environment has a cell, a choice point what it saved. *)
CellsOK ==
  /\ cells \in Seq(Cell \cup Saved) /\ Len(cells) = Len(stack)
  /\ \A i : IsAnd(i) => cells[i] \in Cell
  /\ \A i : IsOr(i) => cells[i] \in Saved
DataTypes ==
  /\ heap \in Seq(Cell) /\ Len(heap) <= MaxHeap
  /\ trail \in Seq(Refs)
  /\ hb \in Nat /\ hb <= Len(heap)
  /\ x \in Cell
  /\ CellsOK

(* A heap cell is bound or refers to itself or to an older heap cell. *)
HeapOK(hp) == \A i \in DOMAIN hp : hp[i] = Con \/ \E j \in 1..i : hp[i] = H(j)

(* A reference from environment i on a heap of h cells names a cell that is   *)
(* there as long as environment i is.                                         *)
Names(c, i, h) ==
  /\ c[1] = "h" => c[2] \in 1..h
  /\ c[1] = "s" => c[2] \in Envs(i)

(* The references of the running clause and of those it returns to. *)
RefsOK ==
  /\ Names(x, e, Len(heap))
  /\ \A i \in Envs(e) : Names(cells[i], i, Len(heap))

(* Choice point c: what it saved is good, and undoing the trail brings it     *)
(* back.                                                                      *)
SavedOK(c) ==
  LET o == cells[c] IN
  /\ o.h <= hb /\ o.tr <= Len(trail)
  /\ Len(o.heap) = o.h /\ HeapOK(o.heap)
  /\ DOMAIN o.ys = Envs(stack[c].e)
  /\ Names(o.x, stack[c].e, o.h)
  /\ \A i \in Envs(stack[c].e) : Names(o.ys[i], i, o.h)
UnwoundRef(tr, i) == IF H(i) \in Trailed(tr) THEN H(i) ELSE heap[i]
RestoredOK(c) ==
  LET o == cells[c] IN
  /\ \A i \in 1..o.h : UnwoundRef(o.tr, i) = o.heap[i]
  /\ \A i \in Envs(stack[c].e) : UnwoundCell(o.tr, i) = o.ys[i]

(* A younger choice point saw a larger heap and a longer trail. *)
Ordered ==
  \A c, d \in Choices(b) : c < d => cells[c].h <= cells[d].h /\ cells[c].tr <= cells[d].tr

(* A clause that has allocated and not called yet has no choice point above   *)
(* its environment.                                                           *)
StartAbove == ph = "start" => b < e

DataInv ==
  /\ Inv /\ DataTypes /\ HeapOK(heap) /\ RefsOK
  /\ \A c \in Choices(b) : SavedOK(c) /\ RestoredOK(c)
  /\ Ordered /\ StartAbove

-----------------------------------------------------------------------------
(* Cells: a constant, a heap cell or a stack cell. *)
LEMMA CellFacts ==
  /\ \A i : H(i)[1] = "h" /\ H(i)[2] = i /\ S(i)[1] = "s" /\ S(i)[2] = i
  /\ Con[1] = "c" /\ Con \in Cell
  /\ \A i, j : (H(i) = H(j) => i = j) /\ (S(i) = S(j) => i = j) /\ H(i) # S(j)
  /\ \A i : H(i) # Con /\ S(i) # Con
  /\ \A i \in Nat : H(i) \in Cell /\ S(i) \in Cell /\ H(i) \in Refs /\ S(i) \in Refs
  /\ \A c \in Cell : \/ c = Con
                     \/ c[1] = "h" /\ c[2] \in Nat /\ c = H(c[2])
                     \/ c[1] = "s" /\ c[2] \in Nat /\ c = S(c[2])
<1>1. /\ \A i : H(i)[1] = "h" /\ H(i)[2] = i /\ S(i)[1] = "s" /\ S(i)[2] = i
      /\ Con[1] = "c" /\ Con \in Cell
  BY DEF H, S, Con, Cell
<1>2. \A i, j : (H(i) = H(j) => i = j) /\ (S(i) = S(j) => i = j) /\ H(i) # S(j)
  BY <1>1
<1>3. \A i : H(i) # Con /\ S(i) # Con
  BY <1>1
<1>4. \A i \in Nat : H(i) \in Cell /\ S(i) \in Cell /\ H(i) \in Refs /\ S(i) \in Refs
  BY DEF Cell, Refs
<1>5. ASSUME NEW c \in Cell, c # Con
      PROVE  \/ c[1] = "h" /\ c[2] \in Nat /\ c = H(c[2])
             \/ c[1] = "s" /\ c[2] \in Nat /\ c = S(c[2])
  <2>1. CASE \E i \in Nat : c = H(i)
    BY <1>1, <2>1
  <2>2. CASE \E i \in Nat : c = S(i)
    BY <1>1, <2>2
  <2> QED BY <1>5, <2>1, <2>2 DEF Cell
<1> QED BY <1>1, <1>2, <1>3, <1>4, <1>5

-----------------------------------------------------------------------------
(* F collects the elements of G along links that lead down. *)
ChainOf(F, n, G, link) ==
  /\ n \in Nat /\ G \subseteq 1..n /\ link \in [G -> 0..n]
  /\ \A j \in G : link[j] < j
  /\ \A j \in 0..n : F[j] = IF j \in G THEN {j} \cup F[link[j]] ELSE {}

(* A chain consists of elements of G, and lies below where it starts. *)
LEMMA ChainBelow ==
  ASSUME NEW F, NEW n, NEW G, NEW link, ChainOf(F, n, G, link)
  PROVE  \A j \in 0..n : \A m \in F[j] : m \in G /\ m \in 1..n /\ m <= j
<1> DEFINE Good(j) == \A m \in F[j] : m \in G /\ m \in 1..n /\ m <= j
           T == {j \in 0..n : ~ Good(j)}
<1>0. n \in Nat /\ G \subseteq 1..n /\ (\A j \in G : link[j] \in 0..n /\ link[j] < j)
      /\ \A j \in 0..n : F[j] = IF j \in G THEN {j} \cup F[link[j]] ELSE {}
  BY DEF ChainOf
<1> SUFFICES ASSUME T # {} PROVE FALSE
  OBVIOUS
<1>1. PICK j \in T : \A i \in T : j <= i
  <2>1. T \in SUBSET Nat
    BY <1>0
  <2> QED BY <2>1, Smallest
<1>2. j \in 0..n /\ ~ Good(j)
  BY <1>1
<1>3. j \in G /\ F[j] = {j} \cup F[link[j]]
  BY <1>0, <1>2
<1>4. link[j] \in 0..n /\ link[j] < j
  BY <1>0, <1>3
<1>5. Good(link[j])
  BY <1>0, <1>1, <1>2, <1>4
<1> QED BY <1>0, <1>2, <1>3, <1>4, <1>5

(* The chain from an element of a chain is what lies below it there. *)
LEMMA ChainInner ==
  ASSUME NEW F, NEW n, NEW G, NEW link, ChainOf(F, n, G, link)
  PROVE  \A j \in 0..n : \A i \in F[j] : F[i] = {m \in F[j] : m <= i}
<1> DEFINE Good(j) == \A i \in F[j] : F[i] = {m \in F[j] : m <= i}
           T == {j \in 0..n : ~ Good(j)}
<1>0. n \in Nat /\ G \subseteq 1..n /\ (\A j \in G : link[j] \in 0..n /\ link[j] < j)
      /\ \A j \in 0..n : F[j] = IF j \in G THEN {j} \cup F[link[j]] ELSE {}
  BY DEF ChainOf
<1>b. \A j \in 0..n : \A m \in F[j] : m \in G /\ m \in 1..n /\ m <= j
  BY ChainBelow
<1> SUFFICES ASSUME T # {} PROVE FALSE
  OBVIOUS
<1>1. PICK j \in T : \A i \in T : j <= i
  <2>1. T \in SUBSET Nat
    BY <1>0
  <2> QED BY <2>1, Smallest
<1>2. j \in 0..n /\ ~ Good(j)
  BY <1>1
<1>3. PICK i \in F[j] : F[i] # {m \in F[j] : m <= i}
  BY <1>2
<1>4. j \in G /\ F[j] = {j} \cup F[link[j]]
  BY <1>0, <1>2, <1>3
<1>5. link[j] \in 0..n /\ link[j] < j
  BY <1>0, <1>4
<1>6. Good(link[j])
  BY <1>0, <1>1, <1>2, <1>5
<1>7. CASE i = j
  BY <1>2, <1>3, <1>7, <1>b
<1>8. CASE i \in F[link[j]]
  <2>1. F[i] = {m \in F[link[j]] : m <= i}
    BY <1>6, <1>8
  <2>2. i \in Nat /\ i < j
    BY <1>5, <1>8, <1>b, <1>0, <1>2
  <2>3. ~ (j <= i)
    BY <1>0, <1>2, <2>2
  <2> QED BY <1>3, <1>4, <2>1, <2>3
<1> QED BY <1>3, <1>4, <1>7, <1>8

(* Two chains with the same links up to m agree up to m. *)
LEMMA ChainAgree ==
  ASSUME NEW F, NEW n, NEW G, NEW link, ChainOf(F, n, G, link),
         NEW F2, NEW n2, NEW G2, NEW link2, ChainOf(F2, n2, G2, link2),
         NEW m \in Nat, m <= n, m <= n2,
         \A j \in 1..m : (j \in G <=> j \in G2) /\ (j \in G => link[j] = link2[j])
  PROVE  \A j \in 0..m : F[j] = F2[j]
<1> DEFINE T == {j \in 0..m : F[j] # F2[j]}
<1>0. /\ n \in Nat /\ G \subseteq 1..n /\ (\A j \in G : link[j] \in 0..n /\ link[j] < j)
      /\ \A j \in 0..n : F[j] = IF j \in G THEN {j} \cup F[link[j]] ELSE {}
      /\ n2 \in Nat /\ G2 \subseteq 1..n2
      /\ \A j \in 0..n2 : F2[j] = IF j \in G2 THEN {j} \cup F2[link2[j]] ELSE {}
  BY DEF ChainOf
<1> SUFFICES ASSUME T # {} PROVE FALSE
  OBVIOUS
<1>1. PICK j \in T : \A i \in T : j <= i
  <2>1. T \in SUBSET Nat
    OBVIOUS
  <2> QED BY <2>1, Smallest
<1>2. j \in 0..m /\ F[j] # F2[j] /\ j \in 0..n /\ j \in 0..n2
  BY <1>0, <1>1
<1>3. j \in G <=> j \in G2
  BY <1>0, <1>2
<1>4. j \in G
  BY <1>0, <1>2, <1>3
<1>5. link[j] = link2[j] /\ link[j] \in 0..n /\ link[j] < j
  BY <1>0, <1>2, <1>4
<1>6. F[link[j]] = F2[link[j]]
  BY <1>0, <1>1, <1>2, <1>5
<1> QED BY <1>0, <1>2, <1>3, <1>4, <1>5, <1>6

-----------------------------------------------------------------------------
(* The chains of environments and of choice points are such chains. *)
Ands == {i \in 1..Len(stack) : IsAnd(i)}
Ors == {i \in 1..Len(stack) : IsOr(i)}
EnvsFrom == [j \in 0..Len(stack) |-> Envs(j)]
ChoicesFrom == [j \in 0..Len(stack) |-> Choices(j)]

Chained ==
  /\ ChainOf(EnvsFrom, Len(stack), Ands, [i \in Ands |-> stack[i].e])
  /\ ChainOf(ChoicesFrom, Len(stack), Ors, [i \in Ors |-> stack[i].b])

(* They are, when every frame is as it should be. *)
LEMMA FramesChained == TypeOK /\ Frames => Chained
<1> SUFFICES ASSUME TypeOK, Frames PROVE Chained
  OBVIOUS
<1>1. Len(stack) \in Nat /\ DOMAIN stack = 1..Len(stack)
  BY FrameTypes
<1>2. \A i \in Ands : stack[i].e \in Nat /\ stack[i].e < i
  BY <1>1, FrameTypes DEF Ands, Frames, Frame, Positions
<1>3. \A i \in Ors : stack[i].b \in Nat /\ stack[i].b < i
  BY <1>1, FrameTypes DEF Ors, Frames, Frame, OrFrameOK, Positions
<1>4. \A j \in 0..Len(stack) : (j \in Ands <=> IsAnd(j)) /\ (j \in Ors <=> IsOr(j))
  BY <1>1 DEF Ands, Ors, IsAnd, IsOr
<1>5. ChainOf(EnvsFrom, Len(stack), Ands, [i \in Ands |-> stack[i].e])
  <2>1. Ands \subseteq 1..Len(stack)
    BY DEF Ands
  <2>2. \A j \in 0..Len(stack) : Envs(j) = IF j \in Ands THEN {j} \cup Envs(stack[j].e) ELSE {}
    BY <1>4, EnvsStep
  <2>3. \A i \in Ands : stack[i].e \in 0..Len(stack)
    BY <1>1, <1>2, <2>1
  <2> QED BY <1>1, <1>2, <2>1, <2>2, <2>3 DEF ChainOf, EnvsFrom
<1>6. ChainOf(ChoicesFrom, Len(stack), Ors, [i \in Ors |-> stack[i].b])
  <2>1. Ors \subseteq 1..Len(stack)
    BY DEF Ors
  <2>2. \A j \in 0..Len(stack) : Choices(j) = IF j \in Ors THEN {j} \cup Choices(stack[j].b) ELSE {}
    BY <1>4, ChoicesStep
  <2>3. \A i \in Ors : stack[i].b \in 0..Len(stack)
    BY <1>1, <1>3, <2>1
  <2> QED BY <1>1, <1>3, <2>1, <2>2, <2>3 DEF ChainOf, ChoicesFrom
<1> QED BY <1>5, <1>6 DEF Chained

(* The same of the chains after a step. *)
LEMMA FramesChainedNext == TypeOK' /\ Frames' => Chained'
  BY FramesChained, PTL

(* What the chains are, position by position. *)
ChainFacts ==
  /\ Len(stack) \in Nat /\ DOMAIN stack = 1..Len(stack) /\ Len(stack) <= MaxStack
  /\ e \in 0..Len(stack) /\ (e = 0 \/ IsAnd(e)) /\ b \in 1..Len(stack) /\ IsOr(b)
  /\ \A i : IsOr(i) => /\ i \in 1..Len(stack) /\ ~ IsAnd(i)
                       /\ stack[i].e \in 0..Len(stack) /\ stack[i].e < i
                       /\ stack[i].b \in 0..Len(stack) /\ stack[i].b < i
  /\ \A i : IsAnd(i) => /\ i \in 1..Len(stack)
                        /\ stack[i].e \in 0..Len(stack) /\ stack[i].e < i
  /\ \A i \in 1..Len(stack) : IsAnd(i) \/ IsOr(i)
  /\ \A j \in 0..Len(stack) :
       /\ Envs(j) = IF IsAnd(j) THEN {j} \cup Envs(stack[j].e) ELSE {}
       /\ \A i \in Envs(j) : /\ IsAnd(i) /\ i \in 1..Len(stack) /\ i <= j
                             /\ Envs(i) = {k \in Envs(j) : k <= i}
       /\ Choices(j) = IF IsOr(j) THEN {j} \cup Choices(stack[j].b) ELSE {}
       /\ \A i \in Choices(j) : /\ IsOr(i) /\ i \in 1..Len(stack) /\ i <= j
                                /\ Choices(i) = {k \in Choices(j) : k <= i}

(* The invariant of the control gives them. *)
LEMMA InvChains == Inv => ChainFacts
<1> SUFFICES ASSUME Inv PROVE ChainFacts
  OBVIOUS
<1>1. TypeOK /\ Frames
  BY DEF Inv
<1>2. Chained
  BY <1>1, FramesChained
<1>3. /\ Len(stack) \in Nat /\ DOMAIN stack = 1..Len(stack) /\ Len(stack) <= MaxStack
      /\ \A i : IsAnd(i) => i \in DOMAIN stack /\ ~ IsOr(i)
      /\ \A i : IsOr(i) => i \in DOMAIN stack /\ ~ IsAnd(i)
      /\ \A i \in 1..Len(stack) : IsAnd(i) \/ IsOr(i)
  BY <1>1, FrameTypes DEF TypeOK
<1>4. /\ e \in 0..Len(stack) /\ (e = 0 \/ IsAnd(e)) /\ b \in 1..Len(stack) /\ IsOr(b)
  BY <1>3 DEF Inv, Live, Linked, LinkedRegs, None
<1>5. /\ \A i \in Ands : stack[i].e \in 0..Len(stack) /\ stack[i].e < i
      /\ \A i \in Ors : stack[i].b \in 0..Len(stack) /\ stack[i].b < i
  BY <1>2 DEF Chained, ChainOf
<1>6. /\ \A i : IsOr(i) => /\ i \in 1..Len(stack)
                           /\ stack[i].e \in 0..Len(stack) /\ stack[i].e < i
                           /\ stack[i].b \in 0..Len(stack) /\ stack[i].b < i
      /\ \A i : IsAnd(i) => /\ i \in 1..Len(stack)
                            /\ stack[i].e \in 0..Len(stack) /\ stack[i].e < i
  <2>1. \A i \in 1..Len(stack) : stack[i].e < i /\ stack[i].e \in Nat
    BY <1>1, <1>3, FrameTypes DEF Frames, Frame, Positions
  <2> QED BY <1>3, <1>5, <2>1 DEF Ors, Ands
<1>7. ASSUME NEW j \in 0..Len(stack)
      PROVE  /\ Envs(j) = IF IsAnd(j) THEN {j} \cup Envs(stack[j].e) ELSE {}
             /\ \A i \in Envs(j) : /\ IsAnd(i) /\ i \in 1..Len(stack) /\ i <= j
                                   /\ Envs(i) = {k \in Envs(j) : k <= i}
  <2>1. \A i \in EnvsFrom[j] : i \in Ands /\ i \in 1..Len(stack) /\ i <= j
    BY <1>2, ChainBelow DEF Chained
  <2>2. \A i \in EnvsFrom[j] : EnvsFrom[i] = {k \in EnvsFrom[j] : k <= i}
    BY <1>2, ChainInner DEF Chained
  <2>3. \A i \in 0..Len(stack) : EnvsFrom[i] = Envs(i)
    BY DEF EnvsFrom
  <2>4. \A i \in 1..Len(stack) : i \in 0..Len(stack)
    BY <1>3
  <2>5. Envs(j) = IF IsAnd(j) THEN {j} \cup Envs(stack[j].e) ELSE {}
    BY <1>1, EnvsStep
  <2> QED BY <2>1, <2>2, <2>3, <2>4, <2>5 DEF Ands
<1>8. ASSUME NEW j \in 0..Len(stack)
      PROVE  /\ Choices(j) = IF IsOr(j) THEN {j} \cup Choices(stack[j].b) ELSE {}
             /\ \A i \in Choices(j) : /\ IsOr(i) /\ i \in 1..Len(stack) /\ i <= j
                                      /\ Choices(i) = {k \in Choices(j) : k <= i}
  <2>1. \A i \in ChoicesFrom[j] : i \in Ors /\ i \in 1..Len(stack) /\ i <= j
    BY <1>2, ChainBelow DEF Chained
  <2>2. \A i \in ChoicesFrom[j] : ChoicesFrom[i] = {k \in ChoicesFrom[j] : k <= i}
    BY <1>2, ChainInner DEF Chained
  <2>3. \A i \in 0..Len(stack) : ChoicesFrom[i] = Choices(i)
    BY DEF ChoicesFrom
  <2>4. \A i \in 1..Len(stack) : i \in 0..Len(stack)
    BY <1>3
  <2>5. Choices(j) = IF IsOr(j) THEN {j} \cup Choices(stack[j].b) ELSE {}
    BY <1>1, ChoicesStep
  <2> QED BY <2>1, <2>2, <2>3, <2>4, <2>5 DEF Ors
<1> QED BY <1>3, <1>4, <1>6, <1>7, <1>8 DEF ChainFacts

(* The same after a step. *)
LEMMA InvChainsNext == Inv' => ChainFacts'
  BY InvChains, PTL

(* Frames that keep their links keep their chains. *)
LEMMA LinksKept ==
  ASSUME Inv, Inv', NEW m \in 0..Len(stack), m <= Len(stack'), \A i \in 1..m : SameLinks(i)
  PROVE  /\ \A i \in 1..m : IsAnd(i)' = IsAnd(i) /\ IsOr(i)' = IsOr(i)
         /\ \A j \in 0..m : Envs(j)' = Envs(j) /\ Choices(j)' = Choices(j)
<1>1. TypeOK /\ Frames /\ TypeOK' /\ Frames'
  BY DEF Inv
<1>2. Chained /\ Chained'
  BY <1>1, FramesChained, FramesChainedNext
<1>3. \A i \in 1..m : IsAnd(i)' = IsAnd(i) /\ IsOr(i)' = IsOr(i)
  BY <1>1, SameKind
<1>4. Len(stack) \in Nat /\ Len(stack') \in Nat /\ m \in Nat /\ m <= Len(stack)
  BY <1>1, FrameTypes, FrameTypesNext
<1>5. \A j \in 0..m : EnvsFrom[j] = EnvsFrom'[j]
  <2> DEFINE link == [i \in Ands |-> stack[i].e]
             link2 == [i \in Ands' |-> stack'[i].e]
  <2>1. ChainOf(EnvsFrom, Len(stack), Ands, link)
    BY <1>2 DEF Chained
  <2>2. ChainOf(EnvsFrom', Len(stack'), Ands', link2)
    BY <1>2 DEF Chained, ChainOf
  <2>3. \A j \in 1..m : (j \in Ands <=> j \in Ands') /\ (j \in Ands => link[j] = link2[j])
    BY <1>3, <1>4 DEF Ands, SameLinks
  <2> HIDE DEF link, link2
  <2> QED BY <1>4, <2>1, <2>2, <2>3, ChainAgree
<1>6. \A j \in 0..m : ChoicesFrom[j] = ChoicesFrom'[j]
  <2> DEFINE link == [i \in Ors |-> stack[i].b]
             link2 == [i \in Ors' |-> stack'[i].b]
  <2>1. ChainOf(ChoicesFrom, Len(stack), Ors, link)
    BY <1>2 DEF Chained
  <2>2. ChainOf(ChoicesFrom', Len(stack'), Ors', link2)
    BY <1>2 DEF Chained, ChainOf
  <2>3. \A j \in 1..m : (j \in Ors <=> j \in Ors') /\ (j \in Ors => link[j] = link2[j])
    BY <1>3, <1>4 DEF Ors, SameLinks
  <2> HIDE DEF link, link2
  <2> QED BY <1>4, <2>1, <2>2, <2>3, ChainAgree
<1>7. \A j \in 0..m : j \in 0..Len(stack) /\ j \in 0..Len(stack')
  BY <1>4
<1>8. \A j \in 0..m : EnvsFrom[j] = Envs(j) /\ EnvsFrom'[j] = Envs(j)'
  BY <1>7 DEF EnvsFrom
<1>9. \A j \in 0..m : ChoicesFrom[j] = Choices(j) /\ ChoicesFrom'[j] = Choices(j)'
  BY <1>7 DEF ChoicesFrom
<1> QED BY <1>3, <1>5, <1>6, <1>8, <1>9

-----------------------------------------------------------------------------
(* What the registers, the heap and the cells hold. *)
LEMMA DataFacts ==
  ASSUME DataInv
  PROVE  /\ Inv /\ ChainFacts /\ HeapOK(heap) /\ RefsOK /\ CellsOK
         /\ heap \in Seq(Cell) /\ Len(heap) \in Nat /\ Len(heap) <= MaxHeap
         /\ DOMAIN heap = 1..Len(heap) /\ (\A i \in 1..Len(heap) : heap[i] \in Cell)
         /\ trail \in Seq(Refs) /\ Len(trail) \in Nat /\ DOMAIN trail = 1..Len(trail)
         /\ hb \in Nat /\ hb <= Len(heap)
         /\ DOMAIN cells = 1..Len(stack)
         /\ \A c \in Choices(b) :
              /\ SavedOK(c) /\ RestoredOK(c) /\ c \in 1..b /\ IsOr(c)
              /\ stack[c].e \in 0..Len(stack) /\ stack[c].e < c
              /\ cells[c] \in Saved
<1>1. DataTypes /\ Inv /\ ChainFacts
  BY InvChains DEF DataInv
<1>2. CellsOK
  BY <1>1 DEF DataTypes
<1>3. /\ heap \in Seq(Cell) /\ Len(heap) <= MaxHeap /\ trail \in Seq(Refs)
      /\ hb \in Nat /\ hb <= Len(heap)
  BY <1>1 DEF DataTypes
<1>4. /\ Len(heap) \in Nat /\ DOMAIN heap = 1..Len(heap) /\ (\A i \in 1..Len(heap) : heap[i] \in Cell)
      /\ Len(trail) \in Nat /\ DOMAIN trail = 1..Len(trail)
  BY <1>3
<1>5. DOMAIN cells = 1..Len(stack)
  BY <1>2 DEF CellsOK
<1>6. ASSUME NEW c \in Choices(b)
      PROVE  /\ c \in 1..b /\ IsOr(c)
             /\ stack[c].e \in 0..Len(stack) /\ stack[c].e < c /\ cells[c] \in Saved
  <2>1. b \in 0..Len(stack) /\ b \in Nat
    BY <1>1 DEF ChainFacts
  <2>2. IsOr(c) /\ c \in 1..Len(stack) /\ c <= b
    BY <1>1, <2>1 DEF ChainFacts
  <2>3. stack[c].e \in 0..Len(stack) /\ stack[c].e < c
    BY <1>1, <2>2 DEF ChainFacts
  <2> QED BY <1>2, <2>1, <2>2, <2>3 DEF CellsOK
<1> QED BY <1>1, <1>2, <1>3, <1>4, <1>5, <1>6 DEF DataInv

(* Environments of the current chain: their cells, and their chains. *)
LEMMA CurrentEnvs ==
  ASSUME DataInv, NEW i \in Envs(e)
  PROVE  /\ IsAnd(i) /\ i \in 1..Len(stack) /\ i <= e /\ cells[i] \in Cell
         /\ Names(cells[i], i, Len(heap))
         /\ Envs(i) = {k \in Envs(e) : k <= i}
         /\ Envs(i) \subseteq Envs(e) /\ i \in Envs(i)
<1>1. ChainFacts /\ CellsOK /\ RefsOK
  BY DataFacts
<1>2. e \in 0..Len(stack)
  BY <1>1 DEF ChainFacts
<1>3. IsAnd(i) /\ i \in 1..Len(stack) /\ i <= e /\ Envs(i) = {k \in Envs(e) : k <= i}
  BY <1>1, <1>2 DEF ChainFacts
<1>4. i <= i
  BY <1>3
<1> QED BY <1>1, <1>3, <1>4 DEF CellsOK, RefsOK

-----------------------------------------------------------------------------
(* Dereferencing: every step leads to the cell itself, or to one of a lower   *)
(* rank.                                                                      *)
Rank(c) == CASE c[1] = "h" -> c[2] [] c[1] = "s" -> MaxHeap + c[2] [] OTHER -> 0
Known(c) == c \in Cell /\ Names(c, e, Len(heap))

(* One step of deref. *)
LEMMA StoreKnown ==
  ASSUME DataInv, NEW c, Known(c)
  PROVE  /\ Known(Store(c))
         /\ Rank(c) \in Nat /\ Rank(c) <= MaxHeap + MaxStack
         /\ Store(c) = c \/ Rank(Store(c)) < Rank(c)
         /\ Rank(c) = 0 => Store(c) = c
<1>0. MaxHeap \in Nat /\ MaxStack \in Nat
  BY DataBounds, StackBound
<1>1. CASE c = Con
  BY <1>0, <1>1, CellFacts DEF Store, Rank
<1>2. ASSUME NEW i, c = H(i)
      PROVE  /\ Known(Store(c))
             /\ Rank(c) \in Nat /\ Rank(c) <= MaxHeap + MaxStack
             /\ Store(c) = c \/ Rank(Store(c)) < Rank(c)
             /\ Rank(c) # 0
  <2>1. i \in 1..Len(heap) /\ Store(c) = heap[i] /\ Rank(c) = i
    BY <1>2, CellFacts DEF Known, Names, Store, Rank
  <2>2. Len(heap) \in Nat /\ Len(heap) <= MaxHeap /\ HeapOK(heap) /\ DOMAIN heap = 1..Len(heap)
        /\ heap[i] \in Cell
    BY <2>1, DataFacts
  <2>3. heap[i] = Con \/ \E j \in 1..i : heap[i] = H(j)
    BY <2>1, <2>2 DEF HeapOK
  <2>4. CASE heap[i] = Con
    BY <1>0, <2>1, <2>2, <2>4, CellFacts DEF Known, Names, Rank
  <2>5. ASSUME NEW j \in 1..i, heap[i] = H(j)
        PROVE  /\ Known(Store(c)) /\ (Store(c) = c \/ Rank(Store(c)) < Rank(c))
    <3>1. Known(H(j))
      BY <2>1, <2>2, <2>5, CellFacts DEF Known, Names
    <3>2. Rank(H(j)) = j
      BY CellFacts DEF Rank
    <3>3. j = i \/ j < i
      BY <2>1
    <3> QED BY <1>2, <2>1, <2>5, <3>1, <3>2, <3>3
  <2> QED BY <1>0, <2>1, <2>2, <2>3, <2>4, <2>5
<1>3. ASSUME NEW i, c = S(i)
      PROVE  /\ Known(Store(c))
             /\ Rank(c) \in Nat /\ Rank(c) <= MaxHeap + MaxStack
             /\ Store(c) = c \/ Rank(Store(c)) < Rank(c)
             /\ Rank(c) # 0
  <2>1. i \in Envs(e) /\ Store(c) = cells[i] /\ Rank(c) = MaxHeap + i
    BY <1>3, CellFacts DEF Known, Names, Store, Rank
  <2>2. /\ i \in 1..Len(stack) /\ cells[i] \in Cell /\ Names(cells[i], i, Len(heap))
        /\ Envs(i) = {k \in Envs(e) : k <= i}
    BY <2>1, CurrentEnvs
  <2>3. Len(stack) \in Nat /\ Len(stack) <= MaxStack /\ Len(heap) \in Nat /\ Len(heap) <= MaxHeap
    BY DataFacts DEF ChainFacts
  <2>4. Known(cells[i])
    BY <2>2 DEF Known, Names
  <2>5. CASE cells[i] = Con
    BY <1>0, <2>1, <2>2, <2>3, <2>4, <2>5, CellFacts DEF Rank
  <2>6. CASE cells[i][1] = "h"
    <3>1. cells[i][2] \in 1..Len(heap)
      BY <2>2, <2>6 DEF Names
    <3>2. Rank(cells[i]) = cells[i][2]
      BY <2>6 DEF Rank
    <3> QED BY <1>0, <2>1, <2>2, <2>3, <2>4, <3>1, <3>2
  <2>7. ASSUME cells[i][1] = "s", cells[i][2] \in Nat, cells[i] = S(cells[i][2])
        PROVE  Store(c) = c \/ Rank(Store(c)) < Rank(c)
    <3>1. cells[i][2] <= i
      BY <2>2, <2>7 DEF Names
    <3>2. cells[i][2] = i \/ cells[i][2] < i
      BY <2>2, <2>7, <3>1
    <3>3. Rank(cells[i]) = MaxHeap + cells[i][2]
      BY <2>7 DEF Rank
    <3>4. CASE cells[i][2] = i
      BY <1>3, <2>1, <2>7, <3>4
    <3>5. CASE cells[i][2] < i
      BY <1>0, <2>1, <2>2, <2>7, <3>3, <3>5
    <3> QED BY <3>2, <3>4, <3>5
  <2> QED BY <1>0, <2>1, <2>2, <2>3, <2>4, <2>5, <2>6, <2>7, CellFacts
<1>4. \/ c = Con
      \/ \E i : c = H(i)
      \/ \E i : c = S(i)
  BY CellFacts DEF Known
<1> QED BY <1>1, <1>2, <1>3, <1>4

(* d follows the references from c for m steps. *)
Walks(d, c, m) == d = [n \in 0..m |-> IF n = 0 THEN c ELSE Store(d[n - 1])]

(* There is such a walk of any length. *)
LEMMA WalkExists ==
  ASSUME NEW c
  PROVE  \A m \in Nat : \E d : Walks(d, c, m)
<1> DEFINE T == {m \in Nat : ~ \E d : Walks(d, c, m)}
<1> SUFFICES ASSUME T # {} PROVE FALSE
  OBVIOUS
<1>1. PICK m \in T : \A k \in T : m <= k
  <2>1. T \in SUBSET Nat
    OBVIOUS
  <2> QED BY <2>1, Smallest
<1>2. m \in Nat /\ ~ \E d : Walks(d, c, m)
  BY <1>1
<1>3. CASE m = 0
  <2> DEFINE d == [n \in 0..0 |-> c]
  <2>1. \A n \in 0..0 : n = 0
    OBVIOUS
  <2>2. d = [n \in 0..0 |-> IF n = 0 THEN c ELSE Store(d[n - 1])]
    BY <2>1
  <2>3. Walks(d, c, m)
    BY <1>3, <2>2 DEF Walks
  <2> QED BY <1>2, <2>3
<1>4. CASE m # 0
  <2>1. m - 1 \in Nat /\ m - 1 < m /\ m - 1 \notin T
    BY <1>1, <1>2, <1>4
  <2>2. PICK d : Walks(d, c, m - 1)
    BY <2>1
  <2>3. \A n \in 0..m - 1 : d[n] = IF n = 0 THEN c ELSE Store(d[n - 1])
    BY <2>2 DEF Walks
  <2> DEFINE f == [n \in 0..m |-> IF n = m THEN Store(d[m - 1]) ELSE d[n]]
  <2>4. \A n \in 0..m - 1 : n \in 0..m /\ n # m /\ f[n] = d[n]
    BY <1>2
  <2>5. f = [n \in 0..m |-> IF n = 0 THEN c ELSE Store(f[n - 1])]
    <3>1. ASSUME NEW n \in 0..m
          PROVE  f[n] = IF n = 0 THEN c ELSE Store(f[n - 1])
      <4>1. CASE n = m
        <5>1. f[n] = Store(d[m - 1]) /\ m - 1 \in 0..m - 1
          BY <1>2, <2>1, <4>1
        <5>2. f[m - 1] = d[m - 1]
          BY <2>4, <5>1
        <5> QED BY <1>4, <4>1, <5>1, <5>2
      <4>2. CASE n # m
        <5>1. n \in 0..m - 1 /\ (n # 0 => n - 1 \in 0..m - 1)
          BY <1>2, <4>2
        <5> QED BY <2>3, <2>4, <5>1
      <4> QED BY <4>1, <4>2
    <3>2. f = [n \in 0..m |-> f[n]]
      OBVIOUS
    <3> HIDE DEF f
    <3> QED BY <3>1, <3>2
  <2>6. Walks(f, c, m)
    BY <2>5 DEF Walks
  <2> QED BY <1>2, <2>6
<1> QED BY <1>3, <1>4

(* deref ends at a cell that is there and refers to itself, or at a constant. *)
LEMMA DerefEnds ==
  ASSUME DataInv, NEW c, Known(c)
  PROVE  Known(Deref(c)) /\ Store(Deref(c)) = Deref(c)
<1> DEFINE N == MaxHeap + MaxStack
           d == CHOOSE f : Walks(f, c, N)
<1>0. N \in Nat
  BY DataBounds, StackBound
<1>1. Walks(d, c, N)
  <2>1. \E f : Walks(f, c, N)
    BY <1>0, WalkExists
  <2> QED BY <2>1
<1>2. Deref(c) = d[N]
  BY DEF Deref, Walks
<1> HIDE DEF d
<1>3. \A n \in 0..N : d[n] = IF n = 0 THEN c ELSE Store(d[n - 1])
  BY <1>1 DEF Walks
<1> DEFINE Good(n) == /\ Known(d[n])
                      /\ Store(d[n]) = d[n] \/ Rank(d[n]) + n <= N
           T == {n \in 0..N : ~ Good(n)}
<1> HIDE DEF N
<1>4. T = {}
  <2> SUFFICES ASSUME T # {} PROVE FALSE
    OBVIOUS
  <2>1. PICK n \in T : \A k \in T : n <= k
    <3>1. T \in SUBSET Nat
      BY <1>0
    <3> QED BY <3>1, Smallest
  <2>2. n \in 0..N /\ ~ Good(n)
    BY <2>1
  <2>3. CASE n = 0
    <3>1. d[n] = c
      BY <1>3, <2>2, <2>3
    <3>2. Rank(c) \in Nat /\ Rank(c) <= N
      BY StoreKnown DEF N
    <3> QED BY <1>0, <2>2, <2>3, <3>1, <3>2
  <2>4. CASE n # 0
    <3>1. n - 1 \in 0..N /\ n - 1 < n /\ n \in Nat
      BY <1>0, <2>2, <2>4
    <3>2. Good(n - 1)
      BY <2>1, <3>1
    <3>3. d[n] = Store(d[n - 1])
      BY <1>3, <2>2, <2>4
    <3>4. /\ Known(d[n]) /\ Rank(d[n - 1]) \in Nat
          /\ d[n] = d[n - 1] \/ Rank(d[n]) < Rank(d[n - 1])
      BY <3>2, <3>3, StoreKnown
    <3>5. Rank(d[n]) \in Nat
      BY <3>4, StoreKnown
    <3>6. CASE d[n] = d[n - 1]
      BY <2>2, <3>3, <3>4, <3>6
    <3>7. CASE d[n] # d[n - 1]
      <4>1. Rank(d[n - 1]) + (n - 1) <= N
        BY <3>2, <3>3, <3>7
      <4>2. Rank(d[n]) + n <= N
        BY <1>0, <3>1, <3>4, <3>5, <3>7, <4>1
      <4> QED BY <2>2, <3>4, <4>2
    <3> QED BY <3>6, <3>7
  <2> QED BY <2>3, <2>4
<1>5. Good(N)
  <2>1. N \in 0..N
    BY <1>0
  <2> QED BY <1>4, <2>1
<1>6. Rank(d[N]) \in Nat /\ (Rank(d[N]) = 0 => Store(d[N]) = d[N])
  BY <1>5, StoreKnown
<1>7. Store(d[N]) = d[N]
  BY <1>0, <1>5, <1>6
<1> QED BY <1>2, <1>5, <1>7

-----------------------------------------------------------------------------
(* Steps that leave the frames as they are, or give up the newest of them.    *)
Shrunk == Len(stack') <= Len(stack) /\ \A i \in 1..Len(stack') : SameLinks(i)

(* Choice point c, which saved o, restores what it would have before. *)
KeepsChoice(c, o) ==
  /\ cells'[c] = o /\ o.h <= hb' /\ o.tr <= Len(trail')
  /\ \A i \in 1..o.h : UnwoundRef(o.tr, i)' = UnwoundRef(o.tr, i)
  /\ \A i \in Envs(stack[c].e) : UnwoundCell(o.tr, i)' = UnwoundCell(o.tr, i)

(* Then it restores what it saved. *)
LEMMA ChoiceKept ==
  ASSUME Inv, Inv', NEW m \in 0..Len(stack), m <= Len(stack'), \A i \in 1..m : SameLinks(i),
         NEW c \in 1..m, IsOr(c), NEW o, o = cells[c], SavedOK(c), RestoredOK(c),
         KeepsChoice(c, o)
  PROVE  SavedOK(c)' /\ RestoredOK(c)'
<1>1. ChainFacts
  BY InvChains
<1>2. PICK i : i = stack[c].e
  OBVIOUS
<1>3. i \in 0..m /\ i = stack'[c].e
  <2>1. i \in 0..Len(stack) /\ i < c
    BY <1>1, <1>2 DEF ChainFacts
  <2>2. stack'[c].e = stack[c].e
    BY DEF SameLinks
  <2>3. m \in Nat
    BY <1>1 DEF ChainFacts
  <2> QED BY <1>2, <2>1, <2>2, <2>3
<1>4. Envs(i)' = Envs(i) /\ \A j \in Envs(i) : Envs(j)' = Envs(j)
  <2>1. i \in 0..Len(stack) /\ m \in Nat /\ Len(stack) \in Nat
    BY <1>1, <1>3 DEF ChainFacts
  <2>2. \A j \in Envs(i) : j \in 1..Len(stack) /\ j <= i
    BY <1>1, <2>1 DEF ChainFacts
  <2>3. \A j \in Envs(i) : j \in 0..m
    BY <1>3, <2>1, <2>2
  <2> QED BY <1>3, <2>3, LinksKept
<1>5. cells'[c] = o /\ o.h <= hb' /\ o.tr <= Len(trail')
  BY DEF KeepsChoice
<1>6. SavedOK(c)'
  BY <1>2, <1>3, <1>4, <1>5 DEF SavedOK, Names
<1>7. RestoredOK(c)'
  BY <1>2, <1>3, <1>4, <1>5 DEF RestoredOK, KeepsChoice
<1> QED BY <1>6, <1>7

(* The choice points left by a step that does not make one. *)
LEMMA ChoicesLeft ==
  ASSUME Inv, Inv', Shrunk, b' \in Choices(b)
  PROVE  \A c : c \in Choices(b)' <=> c \in Choices(b) /\ c <= b'
<1>1. ChainFacts /\ ChainFacts'
  BY InvChains, InvChainsNext
<1>2. PICK q : q = b'
  OBVIOUS
<1>3. /\ Len(stack) \in Nat /\ Len(stack') \in 0..Len(stack)
      /\ q \in 1..Len(stack') /\ b \in 0..Len(stack)
  BY <1>1, <1>2 DEF ChainFacts, Shrunk
<1>4. Choices(q)' = Choices(q)
  BY <1>3, LinksKept DEF Shrunk
<1>5. Choices(q) = {k \in Choices(b) : k <= q}
  BY <1>1, <1>2, <1>3 DEF ChainFacts
<1> QED BY <1>2, <1>4, <1>5

(* What has to be shown of such a step. *)
LEMMA ShrunkStep ==
  ASSUME DataInv, Inv', Shrunk, b' \in Choices(b),
         \A c \in Choices(b) : \A o : c <= b' /\ o = cells[c] => KeepsChoice(c, o),
         DataTypes', HeapOK(heap'), RefsOK', StartAbove'
  PROVE  DataInv'
<1>1. ChainFacts /\ ChainFacts' /\ Inv
  BY InvChains, InvChainsNext DEF DataInv
<1>2. /\ Len(stack) \in Nat /\ Len(stack') \in 0..Len(stack)
      /\ b' \in 1..Len(stack') /\ b \in 0..Len(stack)
  BY <1>1 DEF ChainFacts, Shrunk
<1>3. \A c : c \in Choices(b)' <=> c \in Choices(b) /\ c <= b'
  BY <1>1, ChoicesLeft
<1>4. ASSUME NEW c \in Choices(b)'
      PROVE  SavedOK(c)' /\ RestoredOK(c)'
  <2>1. c \in Choices(b) /\ c <= b'
    BY <1>3, <1>4
  <2>2. SavedOK(c) /\ RestoredOK(c) /\ c \in 1..b /\ IsOr(c)
    BY <2>1, DataFacts
  <2>3. PICK o : o = cells[c]
    OBVIOUS
  <2>4. KeepsChoice(c, o)
    BY <2>1, <2>3
  <2>5. c \in 1..Len(stack')
    BY <1>2, <2>1, <2>2
  <2>6. PICK m : m = Len(stack')
    OBVIOUS
  <2>7. m \in 0..Len(stack) /\ m <= Len(stack') /\ (\A i \in 1..m : SameLinks(i)) /\ c \in 1..m
    BY <1>2, <2>5, <2>6 DEF Shrunk
  <2> QED BY <1>1, <2>2, <2>3, <2>4, <2>7, ChoiceKept
<1>5. Ordered'
  <2>1. \A c \in Choices(b)' : c \in Choices(b) /\ cells'[c] = cells[c]
    BY <1>3 DEF KeepsChoice
  <2>2. Ordered
    BY DEF DataInv
  <2> QED BY <2>1, <2>2 DEF Ordered
<1> QED BY <1>4, <1>5 DEF DataInv

-----------------------------------------------------------------------------
(* The whole of a sequence. *)
LEMMA Whole ==
  ASSUME NEW V, NEW s \in Seq(V)
  PROVE  SubSeq(s, 1, Len(s)) = s
<1>1. Len(s) \in 0..Len(s)
  OBVIOUS
<1>2. /\ SubSeq(s, 1, Len(s)) \in Seq(V) /\ Len(SubSeq(s, 1, Len(s))) = Len(s)
      /\ \A i \in 1..Len(s) : SubSeq(s, 1, Len(s))[i] = s[i]
  BY <1>1, Prefix
<1> QED BY <1>2, SeqEqual

(* The cells of the frames that are left. *)
LEMMA CellsCut ==
  ASSUME Inv, Inv', CellsOK, Shrunk, NEW cs \in Seq(Cell \cup Saved), Len(cs) = Len(stack),
         \A i : IsAnd(i) => cs[i] \in Cell, \A i : IsOr(i) => cs[i] = cells[i],
         cells' = SubSeq(cs, 1, Len(stack'))
  PROVE  CellsOK' /\ \A i \in 1..Len(stack') : cells'[i] = cs[i]
<1>1. ChainFacts /\ ChainFacts'
  BY InvChains, InvChainsNext
<1>2. Len(stack) \in Nat /\ Len(stack') \in 0..Len(stack)
  BY <1>1 DEF ChainFacts, Shrunk
<1>3. /\ cells' \in Seq(Cell \cup Saved) /\ Len(cells') = Len(stack')
      /\ \A i \in 1..Len(stack') : cells'[i] = cs[i]
  BY <1>2, Prefix
<1>4. \A i \in 1..Len(stack') : IsAnd(i)' = IsAnd(i) /\ IsOr(i)' = IsOr(i)
  <2>1. PICK m : m = Len(stack')
    OBVIOUS
  <2>2. m \in 0..Len(stack) /\ m <= Len(stack') /\ (\A i \in 1..m : SameLinks(i))
    BY <1>2, <2>1 DEF Shrunk
  <2> QED BY <2>1, <2>2, LinksKept
<1>5. \A i : IsAnd(i)' \/ IsOr(i)' => i \in 1..Len(stack')
  BY <1>1 DEF ChainFacts
<1>6. \A i : IsAnd(i)' => cells'[i] \in Cell
  BY <1>3, <1>4, <1>5
<1>7. \A i : IsOr(i)' => cells'[i] \in Saved
  BY <1>3, <1>4, <1>5 DEF CellsOK
<1> QED BY <1>3, <1>6, <1>7 DEF CellsOK

(* The environments left to the clause that goes on. *)
LEMMA EnvsLeft ==
  ASSUME DataInv, Inv', Shrunk, NEW k, k = e', k = 0 \/ k \in Envs(e)
  PROVE  /\ Envs(k)' = Envs(k) /\ Envs(k) \subseteq Envs(e)
         /\ \A i \in Envs(k) : /\ i \in 1..Len(stack') /\ i <= k
                               /\ Envs(i)' = Envs(i) /\ Envs(i) \subseteq Envs(k)
<1>1. ChainFacts /\ ChainFacts' /\ Inv
  BY InvChains, InvChainsNext DEF DataInv
<1>2. /\ Len(stack) \in Nat /\ Len(stack') \in 0..Len(stack)
      /\ k \in 0..Len(stack') /\ e \in 0..Len(stack)
  BY <1>1 DEF ChainFacts, Shrunk
<1>3. \A j \in 0..Len(stack') : Envs(j)' = Envs(j)
  <2>1. PICK m : m = Len(stack')
    OBVIOUS
  <2>2. m \in 0..Len(stack) /\ m <= Len(stack') /\ (\A i \in 1..m : SameLinks(i))
    BY <1>2, <2>1 DEF Shrunk
  <2> QED BY <1>1, <2>1, <2>2, LinksKept
<1>4. k \in 0..Len(stack)
  BY <1>2
<1>5. \A i \in Envs(k) : i \in 1..Len(stack) /\ i <= k /\ Envs(i) \subseteq Envs(k)
  BY <1>1, <1>4 DEF ChainFacts
<1>6. Envs(k) \subseteq Envs(e)
  <2>1. CASE k = 0
    BY <1>1, <1>2, <2>1 DEF ChainFacts
  <2>2. CASE k \in Envs(e)
    BY <2>2, CurrentEnvs
  <2> QED BY <2>1, <2>2
<1>7. \A i \in Envs(k) : i \in 1..Len(stack')
  BY <1>2, <1>5
<1>8. \A i \in Envs(k) : i \in 0..Len(stack')
  BY <1>2, <1>7
<1> QED BY <1>2, <1>3, <1>5, <1>6, <1>7, <1>8

(* New cells at the end of the heap. *)
HeapGrown ==
  /\ heap' \in Seq(Cell) /\ Len(heap) <= Len(heap') /\ Len(heap') <= MaxHeap
  /\ HeapOK(heap') /\ \A i \in 1..Len(heap) : heap'[i] = heap[i]

(* A step that binds nothing, goes on in an environment of the chain, and     *)
(* may drop choice points.                                                    *)
LEMMA GrowingData ==
  ASSUME DataInv, Inv', Shrunk, b' \in Choices(b), NEW k, k = e', k = 0 \/ k \in Envs(e),
         HeapGrown, trail' = trail, hb' = hb, cells' = SubSeq(cells, 1, Len(stack')),
         x' \in Cell, Names(x', k, Len(heap')), StartAbove'
  PROVE  DataInv'
<1>1. /\ Inv /\ ChainFacts /\ ChainFacts' /\ CellsOK
      /\ hb \in Nat /\ hb <= Len(heap) /\ Len(heap) \in Nat
      /\ \A c \in Choices(b) : /\ SavedOK(c) /\ stack[c].e \in 0..Len(stack) /\ stack[c].e < c
                               /\ cells[c] \in Saved
  BY DataFacts, InvChainsNext
<1>0. Len(heap') \in Nat
  BY DEF HeapGrown
<1>2. CellsOK' /\ \A i \in 1..Len(stack') : cells'[i] = cells[i]
  BY <1>1, CellsCut DEF CellsOK
<1>3. DataTypes'
  <2>1. hb' \in Nat /\ hb' <= Len(heap')
    BY <1>0, <1>1 DEF HeapGrown
  <2> QED BY <1>2, <2>1 DEF DataInv, DataTypes, HeapGrown
<1>4. HeapOK(heap')
  BY DEF HeapGrown
<1>5. ASSUME NEW c \in Choices(b), NEW o, c <= b', o = cells[c]
      PROVE  KeepsChoice(c, o)
  <2>1. c \in 1..Len(stack') /\ Len(stack') \in Nat
    <3>1. c \in 1..b
      BY DataFacts
    <3> QED BY <1>1, <1>5, <3>1 DEF ChainFacts
  <2>2. o.h <= hb /\ o.tr <= Len(trail) /\ o.h \in Nat
    BY <1>1, <1>5 DEF SavedOK, Saved
  <2>3. \A i \in Envs(stack[c].e) : i \in 1..Len(stack')
    <3>1. \A i \in Envs(stack[c].e) : i \in 1..Len(stack) /\ i <= stack[c].e
      BY <1>1 DEF ChainFacts
    <3>2. stack[c].e \in Nat /\ stack[c].e < c
      BY <1>1
    <3> QED BY <2>1, <3>1, <3>2
  <2>4. \A i \in 1..o.h : heap'[i] = heap[i]
    BY <1>1, <2>2 DEF HeapGrown
  <2> QED BY <1>2, <1>5, <2>1, <2>2, <2>3, <2>4 DEF KeepsChoice, UnwoundRef, UnwoundCell, Trailed
<1>6. RefsOK'
  <2>1. /\ Envs(k)' = Envs(k) /\ Envs(k) \subseteq Envs(e)
        /\ \A i \in Envs(k) : i \in 1..Len(stack') /\ Envs(i)' = Envs(i)
    BY EnvsLeft
  <2>2. \A i \in Envs(k) : Names(cells[i], i, Len(heap)) /\ cells'[i] = cells[i]
    BY <1>2, <2>1 DEF DataInv, RefsOK
  <2>3. \A j \in 1..Len(heap) : j \in 1..Len(heap')
    BY <1>0, <1>1 DEF HeapGrown
  <2>4. Names(x, e, Len(heap))'
    BY <2>1 DEF Names
  <2>5. \A i \in Envs(k) : Names(cells[i], i, Len(heap))'
    BY <2>1, <2>2, <2>3 DEF Names
  <2> QED BY <2>1, <2>4, <2>5 DEF RefsOK
<1> QED BY <1>3, <1>4, <1>5, <1>6, ShrunkStep

(* The same with the heap as it was. *)
LEMMA SteadyData ==
  ASSUME DataInv, Inv', Shrunk, b' \in Choices(b), NEW k, k = e', k = 0 \/ k \in Envs(e),
         heap' = heap, trail' = trail, hb' = hb, cells' = SubSeq(cells, 1, Len(stack')),
         x' \in Cell, Names(x', k, Len(heap)), StartAbove'
  PROVE  DataInv'
<1>1. HeapGrown
  <2>1. heap \in Seq(Cell) /\ Len(heap) \in Nat /\ Len(heap) <= MaxHeap /\ HeapOK(heap)
    BY DataFacts
  <2> QED BY <2>1 DEF HeapGrown
<1>2. Names(x', k, Len(heap'))
  OBVIOUS
<1> QED BY <1>1, <1>2, GrowingData

-----------------------------------------------------------------------------
(* The instructions that leave the data alone. *)

(* Every step of the data is a step of the control. *)
LEMMA ControlStep == [NextInstr]_vars => [Next]_ctrlVars
<1> SUFFICES ASSUME [NextInstr]_vars PROVE [Next]_ctrlVars
  OBVIOUS
<1>1. CASE NextInstr
  BY <1>1 DEF NextInstr, TryMeElseInstr, OnlyClauseInstr, FailInstr, RetryMeElseInstr,
              TrustMeInstr, NeckCutInstr, GetLevelInstr, CutInstr, AllocateInstr, GetVariable,
              CallWithPerm, CallWithTemp, ExecuteInstr, PutUnsafeDeallocate, DeallocateInstr,
              ProceedInstr, UnifyTerm, UnifyVars, Next
<1>2. CASE UNCHANGED vars
  BY <1>2 DEF vars
<1> QED BY <1>1, <1>2

(* The current choice point and environment, and the register. *)
LEMMA Here ==
  ASSUME DataInv
  PROVE  /\ b \in Choices(b) /\ (e = 0 \/ e \in Envs(e)) /\ (IsAnd(e) => e \in Envs(e))
         /\ x \in Cell /\ Names(x, e, Len(heap))
         /\ Con \in Cell /\ \A i, h : Names(Con, i, h)
<1>1. ChainFacts /\ RefsOK
  BY DataFacts
<1>2. e \in 0..Len(stack) /\ b \in 0..Len(stack) /\ IsOr(b) /\ (e = 0 \/ IsAnd(e))
  BY <1>1 DEF ChainFacts
<1>3. b \in Choices(b) /\ (IsAnd(e) => e \in Envs(e))
  BY <1>1, <1>2 DEF ChainFacts
<1>4. Con \in Cell /\ \A i, h : Names(Con, i, h)
  BY CellFacts DEF Names
<1>5. x \in Cell
  BY DEF DataInv, DataTypes
<1> QED BY <1>1, <1>2, <1>3, <1>4, <1>5 DEF RefsOK

(* Frames and cells stay. *)
LEMMA SameFrames ==
  ASSUME DataInv, stack' = stack
  PROVE  Shrunk /\ cells = SubSeq(cells, 1, Len(stack'))
<1>1. cells \in Seq(Cell \cup Saved) /\ Len(cells) = Len(stack) /\ Len(stack) \in Nat
  BY DataFacts DEF CellsOK, ChainFacts
<1>2. Shrunk
  BY <1>1 DEF Shrunk, SameLinks
<1> QED BY <1>1, <1>2, Whole

(* The newest frames go. *)
LEMMA FewerFrames ==
  ASSUME DataInv, NEW n \in 0..Len(stack), stack' = SubSeq(stack, 1, n)
  PROVE  Shrunk /\ Len(stack') = n
<1>1. stack \in Seq(AnyFrames)
  BY FrameTypes DEF DataInv, Inv
<1>2. Len(stack) \in Nat /\ Len(stack') = n /\ \A i \in 1..n : stack'[i] = stack[i]
  BY <1>1, Prefix
<1> QED BY <1>2 DEF Shrunk, SameLinks

(* A clause with an environment has its own one at the head of the chain. *)
LEMMA HasEnv ==
  ASSUME DataInv, ph \in EnvPhases
  PROVE  IsAnd(e) /\ e \in Envs(e)
<1>1. PICK L \in SUBSET DOMAIN stack : Live(L)
  BY DEF DataInv, Inv
<1>2. IsAnd(e)
  BY <1>1, OwnEnv DEF DataInv, Inv
<1> QED BY <1>2, Here

(* OnlyClause, Fail, Execute, Proceed. *)
LEMMA OnlyClauseData == DataInv /\ Inv' /\ OnlyClauseInstr => DataInv'
<1> SUFFICES ASSUME DataInv, Inv', OnlyClauseInstr PROVE DataInv'
  OBVIOUS
<1>1. /\ stack' = stack /\ e' = e /\ b' = b /\ ph' = "neck"
      /\ heap' = heap /\ trail' = trail /\ hb' = hb /\ x' = x /\ cells' = cells
  BY DEF OnlyClauseInstr, OnlyClause
<1>2. StartAbove'
  BY <1>1 DEF StartAbove
<1> QED BY <1>1, <1>2, SameFrames, Here, SteadyData

(* Fail. *)
LEMMA FailData == DataInv /\ Inv' /\ FailInstr => DataInv'
<1> SUFFICES ASSUME DataInv, Inv', FailInstr PROVE DataInv'
  OBVIOUS
<1>1. /\ stack' = stack /\ e' = e /\ b' = b /\ ph' # "start"
      /\ heap' = heap /\ trail' = trail /\ hb' = hb /\ x' = Con /\ cells' = cells
  BY DEF FailInstr, Fail, FailTo
<1>2. StartAbove'
  BY <1>1 DEF StartAbove
<1> QED BY <1>1, <1>2, SameFrames, Here, SteadyData

(* Execute: the register holds the argument. *)
LEMMA ExecuteData == DataInv /\ Inv' /\ ExecuteInstr => DataInv'
<1> SUFFICES ASSUME DataInv, Inv', ExecuteInstr PROVE DataInv'
  OBVIOUS
<1>1. /\ stack' = stack /\ e' = e /\ b' = b /\ ph' = "entry"
      /\ heap' = heap /\ trail' = trail /\ hb' = hb /\ x' = x /\ cells' = cells
  BY DEF ExecuteInstr, Execute
<1>2. StartAbove'
  BY <1>1 DEF StartAbove
<1> QED BY <1>1, <1>2, SameFrames, Here, SteadyData

(* Proceed: a continuation never goes on before the first call of a clause. *)
LEMMA ProceedData == DataInv /\ Inv' /\ ProceedInstr => DataInv'
<1> SUFFICES ASSUME DataInv, Inv', ProceedInstr PROVE DataInv'
  OBVIOUS
<1>1. /\ stack' = stack /\ e' = e /\ b' = b /\ ph' = cp.ph /\ ph \in {"ret", "neck"}
      /\ heap' = heap /\ trail' = trail /\ hb' = hb /\ x' = Con /\ cells' = cells
  BY DEF ProceedInstr, Proceed
<1>2. PICK L \in SUBSET DOMAIN stack : Live(L)
  BY DEF DataInv, Inv
<1>3. cp.ph # "start"
  BY <1>1, <1>2 DEF Live, Registers, CalleeRegs, CalleePhases, ContOf
<1>4. StartAbove'
  BY <1>1, <1>3 DEF StartAbove
<1> QED BY <1>1, <1>4, SameFrames, Here, SteadyData

(* A call with a permanent variable: its cell is good for as long as the      *)
(* environment is, and the callee runs no longer.                             *)
LEMMA CallWithPermData == DataInv /\ Inv' /\ CallWithPerm => DataInv'
<1> SUFFICES ASSUME DataInv, Inv', CallWithPerm PROVE DataInv'
  OBVIOUS
<1>1. /\ stack' = stack /\ e' = e /\ b' = b /\ ph' = "entry" /\ ph \in EnvPhases
      /\ heap' = heap /\ trail' = trail /\ hb' = hb /\ x' = cells[e] /\ cells' = cells
  BY DEF CallWithPerm, Call
<1>2. StartAbove'
  BY <1>1 DEF StartAbove
<1>3. cells[e] \in Cell /\ Names(cells[e], e, Len(heap))
  BY <1>1, HasEnv, CurrentEnvs
<1> QED BY <1>1, <1>2, <1>3, SameFrames, Here, SteadyData

(* get_level writes a field no chain goes through. *)
LEMMA GetLevelData == DataInv /\ Inv' /\ GetLevelInstr => DataInv'
<1> SUFFICES ASSUME DataInv, Inv', GetLevelInstr PROVE DataInv'
  OBVIOUS
<1>1. /\ stack' = [stack EXCEPT ![e].lvl = b0] /\ e' = e /\ b' = b /\ ph' = ph /\ ph = "start"
      /\ heap' = heap /\ trail' = trail /\ hb' = hb /\ x' = x /\ cells' = cells
  BY DEF GetLevelInstr, GetLevel
<1>2. PICK L \in SUBSET DOMAIN stack : Live(L)
  BY DEF DataInv, Inv
<1>3. b0 = stack[e].bar
  BY <1>1, <1>2 DEF Live, Registers, StartRegs
<1>4. Len(stack') = Len(stack) /\ Len(stack) \in Nat
      /\ \A i \in 1..Len(stack') : SameLinks(i)
  <2>1. TypeOK /\ IsAnd(e)
    BY <1>1, HasEnv DEF EnvPhases, DataInv, Inv
  <2>2. Len(stack) \in Nat /\ stack[e] \in AndFrames /\ ~ IsOr(e) /\ b0 \in Positions
    BY <2>1, FrameTypes DEF TypeOK
  <2>3. PICK f : f = [stack[e] EXCEPT !.lvl = b0]
    OBVIOUS
  <2>4. f \in AndFrames /\ stack' = [stack EXCEPT ![e] = f]
    BY <1>1, <2>2, <2>3 DEF AndFrames
  <2>5. Len(stack') = Len(stack) /\ \A i \in 1..Len(stack) : stack'[i] = IF i = e THEN f ELSE stack[i]
    BY <2>1, <2>4, ExceptType
  <2>6. ASSUME NEW i \in 1..Len(stack') PROVE SameLinks(i)
    <3>1. CASE i = e
      BY <1>3, <2>2, <2>3, <2>5, <3>1 DEF SameLinks, AndFrames
    <3>2. CASE i # e
      BY <2>5, <3>2 DEF SameLinks
    <3> QED BY <3>1, <3>2
  <2> QED BY <2>2, <2>5, <2>6
<1>5. Shrunk
  BY <1>4 DEF Shrunk
<1>6. StartAbove'
  BY <1>1 DEF StartAbove, DataInv
<1>7. cells = SubSeq(cells, 1, Len(stack'))
  <2>1. cells \in Seq(Cell \cup Saved) /\ Len(cells) = Len(stack)
    BY DataFacts DEF CellsOK
  <2> QED BY <1>4, <2>1, Whole
<1> QED BY <1>1, <1>5, <1>6, <1>7, Here, SteadyData

(* A cut in the body goes back to the level the environment saved. *)
LEMMA CutData == DataInv /\ Inv' /\ CutInstr => DataInv'
<1> SUFFICES ASSUME DataInv, Inv', CutInstr PROVE DataInv'
  OBVIOUS
<1>1. /\ stack' = stack /\ e' = e /\ ph' = ph /\ ph = "body" /\ stack[e].lvl # None
      /\ (b' = stack[e].lvl \/ b' = b)
      /\ heap' = heap /\ trail' = trail /\ hb' = hb /\ x' = x /\ cells' = cells
  BY DEF CutInstr, Cut, CutTo
<1>2. e \in Envs(e)
  BY <1>1, HasEnv DEF EnvPhases
<1>3. stack[e].lvl \in Choices(b)
  BY <1>1, <1>2, InvBarrier DEF DataInv, CutBarrier
<1>4. b' \in Choices(b)
  BY <1>1, <1>3, Here
<1>5. StartAbove'
  BY <1>1 DEF StartAbove
<1> QED BY <1>1, <1>4, <1>5, SameFrames, Here, SteadyData

(* A cut at the neck goes back to b0. *)
LEMMA NeckCutData == DataInv /\ Inv' /\ NeckCutInstr => DataInv'
<1> SUFFICES ASSUME DataInv, Inv', NeckCutInstr PROVE DataInv'
  OBVIOUS
<1>1. /\ stack' = NeckCutStack /\ e' = e /\ ph' = ph /\ ph \in {"neck", "start"}
      /\ b' = b0 /\ b > b0
      /\ heap' = heap /\ trail' = trail /\ hb' = hb /\ x' = x
      /\ cells' = SubSeq(cells, 1, Len(stack'))
  BY DEF NeckCutInstr, NeckCut, Becomes, Memory
<1>2. b' \in Choices(b)
  BY <1>1, InvBarrier DEF DataInv, CutBarrier
<1>3. Shrunk
  <2>1. CASE b > e
    <3>1. b - 1 \in 0..Len(stack)
      BY DataFacts DEF ChainFacts
    <3>2. stack' = SubSeq(stack, 1, b - 1)
      BY <1>1, <2>1 DEF NeckCutStack
    <3> QED BY <3>1, <3>2, FewerFrames
  <2>2. CASE ~ (b > e)
    BY <1>1, <2>2, SameFrames DEF NeckCutStack
  <2> QED BY <2>1, <2>2
<1>4. StartAbove'
  <2>1. b \in Nat /\ e \in Nat /\ b0 \in Nat
    BY DataFacts DEF ChainFacts, Inv, DataInv, TypeOK, Positions
  <2> QED BY <1>1, <2>1 DEF StartAbove, DataInv
<1> QED BY <1>1, <1>2, <1>3, <1>4, Here, SteadyData

(* deallocate gives up at most what lies above the environment it returns to  *)
(* and above every choice point.                                              *)
LEMMA Deallocates ==
  ASSUME DataInv, NEW next \in {"exec", "ret"}, Deallocate(next)
  PROVE  /\ Shrunk /\ b' = b /\ ph' = next /\ IsAnd(e) /\ e \in Envs(e) /\ e' = stack[e].e
         /\ e' = 0 \/ e' \in Envs(e)
         /\ Envs(e) = {e} \cup Envs(e') /\ \A i \in Envs(e') : i < e
<1>1. /\ ph \in {"body", "start"} /\ ph' = next /\ e' = stack[e].e /\ b' = b
      /\ stack' = Deallocated(stack[e].e)
  BY DEF Deallocate
<1>2. IsAnd(e) /\ e \in Envs(e) /\ ChainFacts
  BY <1>1, HasEnv, DataFacts DEF EnvPhases
<1>3. PICK k : k = stack[e].e
  OBVIOUS
<1>4. k \in 0..Len(stack) /\ k < e /\ e \in 0..Len(stack)
  BY <1>2, <1>3 DEF ChainFacts
<1>5. Envs(e) = {e} \cup Envs(k)
  BY <1>2, <1>3, <1>4 DEF ChainFacts
<1>6. \A i \in Envs(k) : i \in 1..Len(stack) /\ i <= k
  BY <1>2, <1>4 DEF ChainFacts
<1>7. \A i \in Envs(k) : i < e
  BY <1>4, <1>6
<1>8. k = 0 \/ k \in Envs(k)
  <2>1. k = 0 \/ IsAnd(k)
    BY <1>2, <1>3 DEF DataInv, Inv, Frames, Frame, IsAnd, None
  <2> QED BY <1>2, <1>4, <2>1 DEF ChainFacts
<1>9. Shrunk
  BY <1>1, <1>3, <1>4, FewerFrames, SameFrames DEF Deallocated
<1> QED BY <1>1, <1>2, <1>3, <1>5, <1>7, <1>8, <1>9

(* Deallocate before Proceed. *)
LEMMA DeallocateData == DataInv /\ Inv' /\ DeallocateInstr => DataInv'
<1> SUFFICES ASSUME DataInv, Inv', DeallocateInstr PROVE DataInv'
  OBVIOUS
<1>1. /\ Deallocate("ret") /\ heap' = heap /\ trail' = trail /\ hb' = hb /\ x' = Con
      /\ cells' = SubSeq(cells, 1, Len(stack'))
  BY DEF DeallocateInstr, Becomes, Memory
<1>2. Shrunk /\ b' = b /\ ph' = "ret" /\ (e' = 0 \/ e' \in Envs(e))
  BY <1>1, Deallocates
<1>3. StartAbove'
  BY <1>2 DEF StartAbove
<1> QED BY <1>1, <1>2, <1>3, Here, SteadyData

-----------------------------------------------------------------------------
(* The instructions that push a frame. *)

(* A new frame f, to which w belongs, on top of what was there. *)
Grows(f, w) == stack' = Append(stack, f) /\ cells' = Append(cells, w)

(* What was there stays. *)
LEMMA GrownData ==
  ASSUME DataInv, Inv', NEW f, NEW w \in Cell \cup Saved, Grows(f, w), NEW n, n = Len(stack) + 1,
         IsAnd(n)' => w \in Cell, IsOr(n)' => w \in Saved
  PROVE  /\ Len(stack') = n /\ n \in Nat /\ stack'[n] = f /\ cells'[n] = w
         /\ CellsOK' /\ \A i \in 1..Len(stack) : cells'[i] = cells[i] /\ SameLinks(i)
         /\ \A j \in 0..Len(stack) : Envs(j)' = Envs(j) /\ Choices(j)' = Choices(j)
<1>1. Inv /\ ChainFacts /\ ChainFacts' /\ CellsOK /\ Len(stack) \in Nat
  BY DataFacts, InvChainsNext DEF ChainFacts
<1>2. /\ Len(stack') = n /\ stack'[n] = f
      /\ \A i \in 1..Len(stack) : stack'[i] = stack[i]
  <2>1. stack \in Seq(AnyFrames)
    BY FrameTypes DEF DataInv, Inv
  <2>2. stack' = Append(stack, f)
    BY DEF Grows
  <2> QED BY <2>1, <2>2
<1>3. /\ cells' \in Seq(Cell \cup Saved) /\ Len(cells') = n /\ cells'[n] = w
      /\ \A i \in 1..Len(stack) : cells'[i] = cells[i]
  <2>1. cells \in Seq(Cell \cup Saved) /\ Len(cells) = Len(stack) /\ cells' = Append(cells, w)
    BY <1>1 DEF CellsOK, Grows
  <2> QED BY <2>1, AppendProperties
<1>4. \A i \in 1..Len(stack) : SameLinks(i)
  BY <1>2 DEF SameLinks
<1>5. /\ \A i \in 1..Len(stack) : IsAnd(i)' = IsAnd(i) /\ IsOr(i)' = IsOr(i)
      /\ \A j \in 0..Len(stack) : Envs(j)' = Envs(j) /\ Choices(j)' = Choices(j)
  <2>1. PICK m : m = Len(stack)
    OBVIOUS
  <2>2. m \in 0..Len(stack) /\ m <= Len(stack') /\ \A i \in 1..m : SameLinks(i)
    BY <1>1, <1>2, <1>4, <2>1
  <2> QED BY <1>1, <2>1, <2>2, LinksKept
<1>6. \A i : IsAnd(i)' \/ IsOr(i)' => i \in 1..Len(stack) \/ i = n
  BY <1>1, <1>2 DEF ChainFacts
<1>7. CellsOK'
  <2>1. \A i : IsAnd(i)' => cells'[i] \in Cell
    BY <1>1, <1>3, <1>5, <1>6 DEF CellsOK
  <2>2. \A i : IsOr(i)' => cells'[i] \in Saved
    BY <1>1, <1>3, <1>5, <1>6 DEF CellsOK
  <2> QED BY <1>2, <1>3, <2>1, <2>2 DEF CellsOK
<1> QED BY <1>1, <1>2, <1>3, <1>4, <1>5, <1>7

(* The choice points that were there restore what they did. *)
LEMMA GrownChoices ==
  ASSUME DataInv, Inv', Len(stack') = Len(stack) + 1,
         \A i \in 1..Len(stack) : cells'[i] = cells[i] /\ SameLinks(i),
         heap' = heap, trail' = trail, hb' \in Nat, hb <= hb', NEW c \in Choices(b)
  PROVE  SavedOK(c)' /\ RestoredOK(c)'
<1>1. /\ Inv /\ ChainFacts /\ SavedOK(c) /\ RestoredOK(c) /\ c \in 1..b /\ IsOr(c)
      /\ stack[c].e \in 0..Len(stack) /\ stack[c].e < c /\ hb \in Nat /\ cells[c] \in Saved
  BY DataFacts
<1>2. Len(stack) \in Nat /\ b \in 1..Len(stack)
  BY <1>1 DEF ChainFacts
<1>3. c \in 1..Len(stack)
  BY <1>1, <1>2
<1>4. PICK o : o = cells[c]
  OBVIOUS
<1>5. \A i \in Envs(stack[c].e) : i \in 1..Len(stack)
  BY <1>1 DEF ChainFacts
<1>6. o.h <= hb' /\ o.tr <= Len(trail')
  BY <1>1, <1>4 DEF SavedOK, Saved
<1>7. KeepsChoice(c, o)
  BY <1>3, <1>4, <1>5, <1>6 DEF KeepsChoice, UnwoundRef, UnwoundCell, Trailed
<1>8. PICK m : m = Len(stack)
  OBVIOUS
<1>9. m \in 0..Len(stack) /\ m <= Len(stack') /\ (\A i \in 1..m : SameLinks(i)) /\ c \in 1..m
  BY <1>2, <1>3, <1>8
<1> QED BY <1>1, <1>4, <1>7, <1>9, ChoiceKept

(* try_me_else: the choice point saves memory that is good, and nothing has   *)
(* been trailed since.                                                        *)
LEMMA TryMeElseData == DataInv /\ Inv' /\ TryMeElseInstr => DataInv'
<1> SUFFICES ASSUME DataInv, Inv', TryMeElseInstr PROVE DataInv'
  OBVIOUS
<1>0. PICK n, q, k, f, w : /\ n = Len(stack) + 1 /\ q = b /\ k = e /\ f = OrFrame("neck")
                           /\ w = SavedData
  OBVIOUS
<1>1. /\ stack' = Append(stack, f) /\ cells' = Append(cells, w) /\ e' = k /\ b' = n
      /\ ph' = "neck"
      /\ heap' = heap /\ trail' = trail /\ hb' = Len(heap) /\ x' = x
  BY <1>0 DEF TryMeElseInstr, TryMeElse, PushChoice
<1>2. /\ Inv /\ ChainFacts /\ ChainFacts' /\ HeapOK(heap) /\ RefsOK /\ CellsOK
      /\ heap \in Seq(Cell) /\ Len(heap) \in Nat /\ trail \in Seq(Refs) /\ Len(trail) \in Nat
      /\ hb \in Nat /\ hb <= Len(heap) /\ x \in Cell
      /\ \A c \in Choices(b) : SavedOK(c) /\ cells[c] \in Saved /\ c \in 1..b
  BY DataFacts, InvChainsNext, Here
<1>3. Len(stack) \in Nat /\ q \in 1..Len(stack) /\ k \in 0..Len(stack)
  BY <1>0, <1>2 DEF ChainFacts
<1>4. \A i \in Envs(k) : i \in 1..Len(stack) /\ i \in Nat /\ cells[i] \in Cell
                          /\ Names(cells[i], i, Len(heap))
  BY <1>0, CurrentEnvs
<1>5. /\ w.tr = Len(trail) /\ w.h = Len(heap) /\ w.x = x /\ w.heap = heap
      /\ DOMAIN w.ys = Envs(k) /\ (\A i \in Envs(k) : w.ys[i] = cells[i]) /\ w \in Saved
  <2>1. PICK ys : ys = [i \in Envs(k) |-> cells[i]]
    OBVIOUS
  <2>2. w = [tr |-> Len(trail), h |-> Len(heap), x |-> x, heap |-> heap, ys |-> ys]
    BY <1>0, <2>1 DEF SavedData
  <2>3. ys \in CellMaps
    <3>1. ys \in [Envs(k) -> Cell] /\ Envs(k) \in SUBSET Nat
      BY <1>4, <2>1
    <3> QED BY <3>1 DEF CellMaps
  <2>4. DOMAIN ys = Envs(k) /\ \A i \in Envs(k) : ys[i] = cells[i]
    BY <2>1
  <2> QED BY <1>2, <2>2, <2>3, <2>4 DEF Saved
<1>6. f.kind = "or" /\ f.e = k /\ f.b = q
  BY <1>0 DEF OrFrame
<1>7. /\ Len(stack') = n /\ n \in Nat /\ stack'[n] = f /\ cells'[n] = w
      /\ CellsOK' /\ (\A i \in 1..Len(stack) : cells'[i] = cells[i] /\ SameLinks(i))
      /\ \A j \in 0..Len(stack) : Envs(j)' = Envs(j) /\ Choices(j)' = Choices(j)
  <2>1. IsOr(n)' /\ ~ IsAnd(n)'
    <3>1. TypeOK'
      BY DEF Inv
    <3>2. stack'[n] = f
      <4>1. stack \in Seq(AnyFrames)
        BY FrameTypes DEF DataInv, Inv
      <4> QED BY <1>0, <1>1, <4>1
    <3>3. n \in DOMAIN stack'
      BY <1>1, <1>2 DEF ChainFacts
    <3> QED BY <1>6, <3>2, <3>3 DEF IsOr, IsAnd
  <2>2. Grows(f, w)
    BY <1>1 DEF Grows
  <2>3. n = Len(stack) + 1 /\ w \in Cell \cup Saved /\ (IsAnd(n)' => w \in Cell) /\ (IsOr(n)' => w \in Saved)
    BY <1>0, <1>5, <2>1
  <2> QED BY <2>2, <2>3, GrownData
<1>8. Choices(n)' = {n} \cup Choices(q)
  <2>1. IsOr(n)' /\ n \in 0..Len(stack')
    BY <1>1, <1>2, <1>7 DEF ChainFacts
  <2>2. Choices(n)' = {n} \cup Choices(q)'
    BY <1>2, <1>6, <1>7, <2>1 DEF ChainFacts
  <2>3. q \in 0..Len(stack)
    BY <1>3
  <2> QED BY <1>7, <2>2, <2>3
<1>9. \A c \in Choices(q) : SavedOK(c)' /\ RestoredOK(c)'
  <2>1. /\ Len(stack') = Len(stack) + 1 /\ hb' \in Nat /\ hb <= hb'
        /\ \A i \in 1..Len(stack) : cells'[i] = cells[i] /\ SameLinks(i)
    BY <1>0, <1>1, <1>2, <1>7
  <2> QED BY <1>0, <1>1, <2>1, GrownChoices
<1>10. \A i \in Envs(k) : i \in 0..Len(stack)
  BY <1>3, <1>4
<1>11. SavedOK(n)'
  <2>1. Names(x, k, Len(heap))
    BY <1>0, Here
  <2>2. Envs(k)' = Envs(k) /\ \A i \in Envs(k) : Envs(i)' = Envs(i)
    BY <1>3, <1>7, <1>10
  <2>3. Len(heap) <= hb' /\ Len(trail) <= Len(trail')
    BY <1>1, <1>2
  <2>4. Names(w.x, k, w.h)' /\ \A i \in Envs(k) : Names(w.ys[i], i, w.h)'
    BY <1>4, <1>5, <2>1, <2>2 DEF Names
  <2>5. cells'[n] = w /\ stack'[n].e = k
    BY <1>6, <1>7
  <2>6. Len(w.heap) = w.h /\ HeapOK(w.heap)
    BY <1>2, <1>5
  <2> QED BY <1>5, <2>2, <2>3, <2>4, <2>5, <2>6 DEF SavedOK
<1>12. RestoredOK(n)'
  <2>1. \A i : i \notin Len(trail) + 1..Len(trail)
    BY <1>2
  <2>2. PICK t : t = Len(trail)
    OBVIOUS
  <2>3. Trailed(t)' = {}
    BY <1>1, <2>1, <2>2 DEF Trailed
  <2>4. \A i : UnwoundRef(t, i)' = heap[i] /\ UnwoundCell(t, i)' = cells'[i]
    BY <1>1, <2>3 DEF UnwoundRef, UnwoundCell
  <2> QED BY <1>3, <1>4, <1>5, <1>6, <1>7, <2>2, <2>4 DEF RestoredOK
<1>13. Ordered'
  <2>1. \A c \in Choices(q) : /\ cells'[c] = cells[c] /\ c \in Nat /\ c < n
                              /\ cells[c].h <= Len(heap) /\ cells[c].tr <= Len(trail)
    <3> SUFFICES ASSUME NEW c \in Choices(q)
                 PROVE  /\ cells'[c] = cells[c] /\ c \in Nat /\ c < n
                        /\ cells[c].h <= Len(heap) /\ cells[c].tr <= Len(trail)
      OBVIOUS
    <3>1. c \in 1..Len(stack)
      BY <1>0, <1>2, <1>3
    <3>2. cells[c].h <= hb /\ cells[c].tr <= Len(trail) /\ cells[c].h \in Nat
      BY <1>0, <1>2 DEF SavedOK, Saved
    <3>3. cells[c].h <= Len(heap)
      BY <1>2, <3>2
    <3>4. c \in Nat /\ c < n
      BY <1>0, <1>3, <3>1
    <3> QED BY <1>7, <3>1, <3>2, <3>3, <3>4
  <2>2. \A c, d \in Choices(q) : c < d => cells[c].h <= cells[d].h /\ cells[c].tr <= cells[d].tr
    BY <1>0 DEF DataInv, Ordered
  <2>3. ~ (n < n) /\ \A c \in Choices(q) : ~ (n < c)
    BY <1>7, <2>1
  <2>4. ASSUME NEW c \in {n} \cup Choices(q), NEW d \in {n} \cup Choices(q), c < d
        PROVE  cells'[c].h <= cells'[d].h /\ cells'[c].tr <= cells'[d].tr
    <3>1. CASE c \in Choices(q) /\ d \in Choices(q)
      BY <2>1, <2>2, <2>4, <3>1
    <3>2. CASE c \in Choices(q) /\ d = n
      BY <1>5, <1>7, <2>1, <3>2
    <3> QED BY <2>3, <2>4, <3>1, <3>2
  <2> QED BY <1>1, <1>8, <2>4 DEF Ordered
<1>14. RefsOK'
  <2>1. Names(x, k, Len(heap))
    BY <1>0, Here
  <2> QED BY <1>1, <1>3, <1>4, <1>7, <1>10, <2>1 DEF RefsOK, Names
<1>15. DataTypes'
  BY <1>1, <1>2, <1>7 DEF DataTypes, DataInv
<1>16. HeapOK(heap') /\ StartAbove'
  BY <1>1, <1>2 DEF StartAbove
<1> QED BY <1>1, <1>8, <1>9, <1>11, <1>12, <1>13, <1>14, <1>15, <1>16 DEF DataInv

(* allocate: the cell of the new environment refers to itself. *)
LEMMA AllocateData == DataInv /\ Inv' /\ AllocateInstr => DataInv'
<1> SUFFICES ASSUME DataInv, Inv', AllocateInstr PROVE DataInv'
  OBVIOUS
<1>0. PICK n, q, k, f, w :
        /\ n = Len(stack) + 1 /\ q = b /\ k = e /\ w = S(n)
        /\ f = [kind |-> "and", e |-> e, cp |-> cp, lvl |-> None,
                cut |-> None, branch |-> None, bar |-> bar]
  OBVIOUS
<1>1. /\ stack' = Append(stack, f) /\ cells' = Append(cells, w) /\ e' = n /\ b' = q
      /\ heap' = heap /\ trail' = trail /\ hb' = hb /\ x' = x
  BY <1>0 DEF AllocateInstr, Allocate
<1>2. /\ Inv /\ ChainFacts /\ ChainFacts' /\ HeapOK(heap) /\ RefsOK /\ CellsOK
      /\ hb \in Nat /\ Len(stack) \in Nat
      /\ \A c \in Choices(b) : c \in 1..b
  BY DataFacts, InvChainsNext DEF ChainFacts
<1>3. q \in 1..Len(stack) /\ k \in 0..Len(stack)
  BY <1>0, <1>2 DEF ChainFacts
<1>4. \A i \in Envs(k) : i \in 1..Len(stack) /\ Names(cells[i], i, Len(heap))
  BY <1>0, CurrentEnvs
<1>5. w \in Cell /\ w[1] = "s" /\ w[2] = n
  BY <1>0, <1>2, CellFacts
<1>6. f.kind = "and" /\ f.e = k
  BY <1>0
<1>7. /\ Len(stack') = n /\ n \in Nat /\ stack'[n] = f /\ cells'[n] = w
      /\ CellsOK' /\ (\A i \in 1..Len(stack) : cells'[i] = cells[i] /\ SameLinks(i))
      /\ \A j \in 0..Len(stack) : Envs(j)' = Envs(j) /\ Choices(j)' = Choices(j)
  <2>1. ~ IsOr(n)'
    <3>1. stack \in Seq(AnyFrames)
      BY FrameTypes DEF DataInv, Inv
    <3>2. stack'[n] = f
      BY <1>0, <1>1, <3>1
    <3> QED BY <1>6, <3>2 DEF IsOr
  <2>2. Grows(f, w)
    BY <1>1 DEF Grows
  <2>3. n = Len(stack) + 1 /\ w \in Cell \cup Saved /\ (IsAnd(n)' => w \in Cell) /\ (IsOr(n)' => w \in Saved)
    BY <1>0, <1>5, <2>1
  <2> QED BY <2>2, <2>3, GrownData
<1>8. Envs(n)' = {n} \cup Envs(k)
  <2>1. IsAnd(n)' /\ n \in 0..Len(stack')
    BY <1>1, <1>2, <1>7 DEF ChainFacts
  <2>2. Envs(n)' = {n} \cup Envs(k)'
    BY <1>2, <1>6, <1>7, <2>1 DEF ChainFacts
  <2> QED BY <1>3, <1>7, <2>2
<1>9. Choices(q)' = Choices(q)
  <2>1. q \in 0..Len(stack)
    BY <1>3
  <2> QED BY <1>7, <2>1
<1>10. \A c \in Choices(q) : SavedOK(c)' /\ RestoredOK(c)'
  <2>1. /\ Len(stack') = Len(stack) + 1 /\ hb' \in Nat /\ hb <= hb'
        /\ \A i \in 1..Len(stack) : cells'[i] = cells[i] /\ SameLinks(i)
    <3>1. hb' \in Nat /\ hb <= hb'
      BY <1>1, <1>2
    <3>2. \A i \in 1..Len(stack) : cells'[i] = cells[i] /\ SameLinks(i)
      BY <1>7
    <3> QED BY <1>0, <1>7, <3>1, <3>2
  <2> QED BY <1>0, <1>1, <2>1, GrownChoices
<1>11. Ordered'
  <2>1. \A c \in Choices(q) : cells'[c] = cells[c]
    BY <1>0, <1>2, <1>3, <1>7
  <2>2. \A c, d \in Choices(q) : c < d => cells[c].h <= cells[d].h /\ cells[c].tr <= cells[d].tr
    BY <1>0 DEF DataInv, Ordered
  <2> QED BY <1>1, <1>9, <2>1, <2>2 DEF Ordered
<1>12. RefsOK'
  <2>1. Names(x, k, Len(heap))
    BY <1>0, Here
  <2>2. \A i \in Envs(k) : i \in 0..Len(stack)
    BY <1>4, <1>2
  <2>3. Names(x, e, Len(heap))'
    BY <1>1, <1>8, <2>1 DEF Names
  <2>4. Names(cells[n], n, Len(heap))'
    BY <1>5, <1>7, <1>8 DEF Names
  <2>5. \A i \in Envs(k) : Names(cells[i], i, Len(heap))'
    BY <1>1, <1>4, <1>7, <2>2 DEF Names
  <2> QED BY <1>1, <1>8, <2>3, <2>4, <2>5 DEF RefsOK
<1>13. DataTypes'
  BY <1>1, <1>2, <1>7 DEF DataTypes, DataInv
<1>14. HeapOK(heap') /\ StartAbove'
  BY <1>0, <1>1, <1>2, <1>3 DEF StartAbove
<1> QED BY <1>1, <1>9, <1>10, <1>11, <1>12, <1>13, <1>14 DEF DataInv

-----------------------------------------------------------------------------
(* The instructions that restore a choice point. *)

(* Chains that start in what is left. *)
LEMMA ChainsLeft ==
  ASSUME Inv, Inv', Shrunk, NEW j \in 0..Len(stack')
  PROVE  /\ Envs(j)' = Envs(j)
         /\ \A i \in Envs(j) : i \in 1..Len(stack') /\ i <= j /\ IsAnd(i) /\ Envs(i)' = Envs(i)
<1>1. ChainFacts /\ ChainFacts'
  BY InvChains, InvChainsNext
<1>2. Len(stack) \in Nat /\ Len(stack') \in 0..Len(stack) /\ j \in 0..Len(stack)
  BY <1>1 DEF ChainFacts, Shrunk
<1>3. \A i \in 0..Len(stack') : Envs(i)' = Envs(i)
  <2>1. PICK m : m = Len(stack')
    OBVIOUS
  <2>2. m \in 0..Len(stack) /\ m <= Len(stack') /\ (\A i \in 1..m : SameLinks(i))
    BY <1>2, <2>1 DEF Shrunk
  <2> QED BY <2>1, <2>2, LinksKept
<1>4. \A i \in Envs(j) : i \in 1..Len(stack) /\ i <= j /\ IsAnd(i)
  BY <1>1, <1>2 DEF ChainFacts
<1>5. \A i \in Envs(j) : i \in 1..Len(stack') /\ i \in 0..Len(stack')
  BY <1>2, <1>4
<1> QED BY <1>3, <1>4, <1>5

(* Unwinding the trail down to t and then down to an older t2 is unwinding it *)
(* down to t2.                                                                *)
LEMMA UnwindTwice ==
  ASSUME trail \in Seq(Refs), NEW t \in Nat, t <= Len(trail), trail' = SubSeq(trail, 1, t),
         NEW t2 \in Nat, t2 <= t
  PROVE  Len(trail') = t /\ trail' \in Seq(Refs) /\ Trailed(t2) = Trailed(t2)' \cup Trailed(t)
<1>1. /\ Len(trail) \in Nat /\ trail' \in Seq(Refs) /\ Len(trail') = t
      /\ \A i \in 1..t : trail'[i] = trail[i]
  BY Prefix
<1>2. ASSUME NEW r PROVE r \in Trailed(t2) <=> r \in Trailed(t2)' \/ r \in Trailed(t)
  <2>1. r \in Trailed(t2) <=> \E i \in t2 + 1..Len(trail) : r = trail[i]
    BY DEF Trailed
  <2>2. r \in Trailed(t) <=> \E i \in t + 1..Len(trail) : r = trail[i]
    BY DEF Trailed
  <2>3. r \in Trailed(t2)' <=> \E i \in t2 + 1..t : r = trail[i]
    <3>1. r \in Trailed(t2)' <=> \E i \in t2 + 1..t : r = trail'[i]
      BY <1>1 DEF Trailed
    <3>2. \A i \in t2 + 1..t : i \in 1..t
      BY <1>1
    <3> QED BY <1>1, <3>1, <3>2
  <2>4. \A i : i \in t2 + 1..Len(trail) <=> i \in t2 + 1..t \/ i \in t + 1..Len(trail)
    BY <1>1
  <2> QED BY <2>1, <2>2, <2>3, <2>4
<1> QED BY <1>1, <1>2

(* The registers after Restore. *)
Restoring(k) ==
  /\ b \in Choices(b) /\ b' \in Choices(b) /\ b' <= b /\ e' = k /\ k = stack[b].e
  /\ k \in 0..Len(stack') /\ Shrunk /\ ph' # "start"

(* Both instructions leave the environment and the choice points the          *)
(* restored one was made over.                                                *)
LEMMA RestoresFrames ==
  ASSUME DataInv, Inv', RetryMeElse \/ TrustMe
  PROVE  \E k : Restoring(k)
<1>0. PICK k : k = stack[b].e
  OBVIOUS
<1>1. Inv /\ ChainFacts /\ ChainFacts' /\ b \in Choices(b)
  BY DataFacts, InvChainsNext, Here
<1>2. Len(stack) \in Nat /\ b \in 1..Len(stack) /\ IsOr(b) /\ k \in 0..Len(stack) /\ k < b
  BY <1>0, <1>1 DEF ChainFacts
<1>3. e' = k /\ ph' # "start"
  <2>1. e' = k /\ ph' = stack[b].alt
    BY <1>0 DEF RetryMeElse, TrustMe, Restore
  <2>2. stack[b].alt \in {"neck", "body", "halt"}
    BY <1>2, FrameTypes DEF DataInv, Inv
  <2> QED BY <2>1, <2>2
<1>4. CASE RetryMeElse
  <2>1. stack' = stack /\ b' = b
    BY <1>4 DEF RetryMeElse
  <2>2. Shrunk
    BY <2>1, SameFrames
  <2> QED BY <1>0, <1>1, <1>2, <1>3, <2>1, <2>2 DEF Restoring
<1>5. CASE TrustMe
  <2>1. stack' = SubSeq(stack, 1, b - 1) /\ b' = stack[b].b
    BY <1>5 DEF TrustMe
  <2>2. b - 1 \in 0..Len(stack)
    BY <1>2
  <2>3. Shrunk /\ Len(stack') = b - 1
    BY <2>1, <2>2, FewerFrames
  <2>4. PICK q : q = stack[b].b
    OBVIOUS
  <2>5. q \in 1..Len(stack') /\ IsOr(q)'
    BY <1>1, <2>1, <2>4 DEF ChainFacts
  <2>6. IsOr(q)
    <3>1. SameLinks(q) /\ q \in 1..Len(stack)
      BY <1>2, <2>3, <2>5 DEF Shrunk
    <3>2. q \in DOMAIN stack
      BY <1>1, <3>1 DEF ChainFacts
    <3> QED BY <2>5, <3>1, <3>2 DEF SameLinks, IsOr
  <2>7. q \in Choices(b) /\ q <= b
    <3>1. b \in 0..Len(stack) /\ q \in 0..Len(stack) /\ q <= b
      BY <1>2, <2>3, <2>5
    <3>2. Choices(b) = {b} \cup Choices(q)
      BY <1>1, <1>2, <2>4, <3>1 DEF ChainFacts
    <3>3. q \in Choices(q)
      BY <1>1, <2>6, <3>1 DEF ChainFacts
    <3> QED BY <3>1, <3>2, <3>3
  <2>8. k \in 0..Len(stack')
    BY <1>2, <2>3
  <2> QED BY <1>0, <1>1, <1>3, <2>1, <2>3, <2>4, <2>7, <2>8 DEF Restoring
<1> QED BY <1>4, <1>5

(* retry_me_else and trust_me find the memory the choice point was made with. *)
LEMMA RestoreDataKept ==
  ASSUME DataInv, Inv', RetryMeElse \/ TrustMe, RestoreData
  PROVE  DataInv'
<1>0. PICK k : Restoring(k)
  BY RestoresFrames
<1>1. /\ b \in Choices(b) /\ b' \in Choices(b) /\ b' <= b /\ e' = k /\ k = stack[b].e
      /\ k \in 0..Len(stack') /\ Shrunk /\ ph' # "start"
  BY <1>0 DEF Restoring
<1>2. PICK o, cs : o = cells[b] /\ cs = [i \in DOMAIN cells |-> IF IsAnd(i) THEN UnwoundCell(o.tr, i)
                                                                           ELSE cells[i]]
  OBVIOUS
<1>3. /\ heap' = UnwoundHeap(o.tr, o.h) /\ trail' = SubSeq(trail, 1, o.tr)
      /\ cells' = SubSeq(cs, 1, Len(stack')) /\ hb' = o.h /\ x' = o.x
  BY <1>2 DEF RestoreData, Becomes
<1>4. /\ Inv /\ ChainFacts /\ ChainFacts' /\ CellsOK /\ trail \in Seq(Refs) /\ Len(trail) \in Nat
      /\ hb \in Nat /\ Len(heap) \in Nat /\ hb <= Len(heap) /\ Len(heap) <= MaxHeap
      /\ DOMAIN cells = 1..Len(stack) /\ Len(stack) \in Nat
      /\ \A c \in Choices(b) :
              /\ SavedOK(c) /\ RestoredOK(c) /\ c \in 1..b /\ IsOr(c)
              /\ stack[c].e \in 0..Len(stack) /\ stack[c].e < c
              /\ cells[c] \in Saved
  BY DataFacts, InvChainsNext DEF ChainFacts
<1>5. o \in Saved /\ o.h \in Nat /\ o.tr \in Nat /\ o.x \in Cell /\ o.heap \in Seq(Cell)
  BY <1>1, <1>2, <1>4 DEF Saved
<1>6. /\ o.h <= hb /\ o.tr <= Len(trail) /\ Len(o.heap) = o.h /\ HeapOK(o.heap)
      /\ Names(o.x, k, o.h) /\ \A i \in Envs(k) : Names(o.ys[i], i, o.h)
  BY <1>1, <1>2, <1>4 DEF SavedOK
<1>7. /\ \A i \in 1..o.h : UnwoundRef(o.tr, i) = o.heap[i]
      /\ \A i \in Envs(k) : UnwoundCell(o.tr, i) = o.ys[i]
  BY <1>1, <1>2, <1>4 DEF RestoredOK
<1>8. heap' = o.heap
  <2>1. UnwoundHeap(o.tr, o.h) = [i \in 1..o.h |-> UnwoundRef(o.tr, i)]
    BY DEF UnwoundHeap, UnwoundRef
  <2>2. o.heap = [i \in 1..o.h |-> o.heap[i]]
    BY <1>5, <1>6
  <2>3. [i \in 1..o.h |-> UnwoundRef(o.tr, i)] = [i \in 1..o.h |-> o.heap[i]]
    BY <1>7
  <2> QED BY <1>3, <2>1, <2>2, <2>3
<1>9. CellsOK' /\ \A i \in 1..Len(stack') : cells'[i] = cs[i]
  <2>1. \A i : IsAnd(i) => cs[i] \in Cell
    <3> SUFFICES ASSUME NEW i, IsAnd(i) PROVE cs[i] \in Cell
      OBVIOUS
    <3>1. i \in DOMAIN cells /\ i \in Nat /\ cells[i] \in Cell
      BY <1>4 DEF ChainFacts, CellsOK
    <3>2. UnwoundCell(o.tr, i) \in Cell
      BY <3>1, CellFacts DEF UnwoundCell
    <3> QED BY <1>2, <3>1, <3>2
  <2>2. \A i : IsOr(i) => cs[i] = cells[i]
    BY <1>2, <1>4 DEF ChainFacts
  <2>3. cs \in Seq(Cell \cup Saved) /\ Len(cs) = Len(stack)
    <3>1. \A i \in 1..Len(stack) : cs[i] \in Cell \cup Saved
      BY <1>4, <2>1, <2>2 DEF ChainFacts, CellsOK
    <3>2. cs \in [1..Len(stack) -> Cell \cup Saved]
      BY <1>2, <1>4, <3>1
    <3> QED BY <1>4, <3>2
  <2> QED BY <1>1, <1>3, <1>4, <2>1, <2>2, <2>3, CellsCut
<1>10. Len(trail') = o.tr /\ trail' \in Seq(Refs)
  BY <1>3, <1>4, <1>5, <1>6, UnwindTwice
<1>11. DataTypes'
  <2>1. heap' \in Seq(Cell) /\ Len(heap') = o.h
    BY <1>5, <1>6, <1>8
  <2>2. o.h <= MaxHeap
    BY DataBounds, <1>4, <1>5, <1>6
  <2> QED BY <1>3, <1>5, <1>9, <1>10, <2>1, <2>2 DEF DataTypes
<1>12. RefsOK'
  <2>1. /\ Envs(k)' = Envs(k)
        /\ \A i \in Envs(k) : i \in 1..Len(stack') /\ IsAnd(i) /\ Envs(i)' = Envs(i)
    BY <1>1, <1>4, ChainsLeft
  <2>2. \A i \in Envs(k) : cells'[i] = o.ys[i]
    <3> SUFFICES ASSUME NEW i \in Envs(k) PROVE cells'[i] = o.ys[i]
      OBVIOUS
    <3>1. cells'[i] = cs[i] /\ i \in DOMAIN cells /\ IsAnd(i)
      BY <1>4, <1>9, <2>1 DEF ChainFacts
    <3> QED BY <1>2, <1>7, <3>1
  <2>3. Len(heap') = o.h
    BY <1>6, <1>8
  <2>4. Names(x, e, Len(heap))'
    BY <1>1, <1>3, <1>6, <2>1, <2>3 DEF Names
  <2>5. \A i \in Envs(k) : Names(cells[i], i, Len(heap))'
    BY <1>6, <2>1, <2>2, <2>3 DEF Names
  <2> QED BY <1>1, <2>1, <2>4, <2>5 DEF RefsOK
<1>13. ASSUME NEW c \in Choices(b), NEW p, c <= b', p = cells[c]
       PROVE  KeepsChoice(c, p)
  <2>1. p.h \in Nat /\ p.tr \in Nat /\ p.h <= o.h /\ p.tr <= o.tr
    <3>1. p.h \in Nat /\ p.tr \in Nat
      BY <1>4, <1>13 DEF Saved
    <3>2. CASE c = b
      BY <1>2, <1>13, <3>1, <3>2
    <3>3. CASE c # b
      <4>1. c \in 1..b /\ b \in Nat
        BY <1>4 DEF ChainFacts
      <4>2. c < b
        BY <3>3, <4>1
      <4> QED BY <1>1, <1>2, <1>13, <3>1, <4>2 DEF DataInv, Ordered
    <3> QED BY <3>2, <3>3
  <2>2. c \in 1..Len(stack') /\ IsOr(c)
    <3>1. b' \in 1..Len(stack') /\ c \in 1..b /\ b \in Nat /\ Len(stack') \in Nat
      BY <1>4 DEF ChainFacts
    <3> QED BY <1>4, <1>13, <3>1
  <2>3. cells'[c] = p
    <3>1. c \in DOMAIN cells /\ ~ IsAnd(c)
      BY <1>4, <2>2 DEF ChainFacts
    <3> QED BY <1>2, <1>9, <1>13, <2>2, <3>1
  <2>4. Trailed(p.tr) = Trailed(p.tr)' \cup Trailed(o.tr)
    BY <1>3, <1>4, <1>5, <1>6, <2>1, UnwindTwice
  <2>5. \A i \in 1..p.h : UnwoundRef(p.tr, i)' = UnwoundRef(p.tr, i)
    <3> SUFFICES ASSUME NEW i \in 1..p.h PROVE UnwoundRef(p.tr, i)' = UnwoundRef(p.tr, i)
      OBVIOUS
    <3>1. i \in 1..o.h
      BY <1>5, <2>1
    <3>2. heap'[i] = UnwoundRef(o.tr, i)
      BY <1>7, <1>8, <3>1
    <3> QED BY <2>4, <3>2 DEF UnwoundRef
  <2>6. \A i \in Envs(stack[c].e) : UnwoundCell(p.tr, i)' = UnwoundCell(p.tr, i)
    <3> SUFFICES ASSUME NEW i \in Envs(stack[c].e)
                 PROVE  UnwoundCell(p.tr, i)' = UnwoundCell(p.tr, i)
      OBVIOUS
    <3>1. IsAnd(i) /\ i \in 1..Len(stack) /\ i <= stack[c].e
      BY <1>4 DEF ChainFacts
    <3>2. stack[c].e \in Nat /\ stack[c].e < c
      BY <1>4
    <3>3. i \in 1..Len(stack')
      BY <2>2, <3>1, <3>2
    <3>4. cells'[i] = UnwoundCell(o.tr, i)
      BY <1>2, <1>4, <1>9, <3>1, <3>3
    <3> QED BY <2>4, <3>4 DEF UnwoundCell
  <2> QED BY <1>3, <1>10, <2>1, <2>3, <2>5, <2>6 DEF KeepsChoice
<1>14. HeapOK(heap') /\ StartAbove'
  BY <1>1, <1>6, <1>8 DEF StartAbove
<1> QED BY <1>1, <1>11, <1>12, <1>13, <1>14, ShrunkStep

-----------------------------------------------------------------------------
(* The instructions that bind a variable. *)

(* A variable that the running clause can get at. *)
Unbound(c) == Known(c) /\ IsVar(c) /\ Store(c) = c

(* It is a cell of the heap or of an environment in use, and refers to itself. *)
LEMMA UnboundCases ==
  ASSUME NEW c, Unbound(c)
  PROVE  \/ \E i \in 1..Len(heap) : c = H(i) /\ heap[i] = c
         \/ \E i \in Envs(e) : c = S(i) /\ cells[i] = c
<1>1. c \in Cell /\ c # Con
  BY CellFacts DEF Unbound, Known, IsVar
<1>2. CASE c[1] = "h" /\ c[2] \in Nat /\ c = H(c[2])
  BY <1>2 DEF Unbound, Known, Names, Store
<1>3. CASE c[1] = "s" /\ c[2] \in Nat /\ c = S(c[2])
  BY <1>3 DEF Unbound, Known, Names, Store
<1> QED BY <1>1, <1>2, <1>3, CellFacts

(* The variables a unification may bind are such. *)
LEMMA FreeVarsUnbound ==
  ASSUME DataInv, NEW c \in FreeVars
  PROVE  Unbound(c)
<1>1. Known(x)
  BY Here DEF Known
<1>2. ph \in EnvPhases => Known(cells[e])
  <2>1. ph \in EnvPhases => e \in Envs(e)
    BY HasEnv
  <2>2. e \in Envs(e) => cells[e] \in Cell /\ Names(cells[e], e, Len(heap))
    BY CurrentEnvs
  <2> QED BY <2>1, <2>2 DEF Known
<1>3. IsVar(c) /\ (c = Deref(x) \/ (ph \in EnvPhases /\ c = Deref(cells[e])))
  BY DEF FreeVars, Roots
<1> QED BY <1>1, <1>2, <1>3, DerefEnds DEF Unbound

(* Variable c of a memory with heap hp takes the value v. *)
WithHeap(hp) == [heap |-> hp, trail |-> trail, cells |-> cells]
Assigned(hp, c, v) ==
  /\ heap' = IF c[1] = "h" THEN [hp EXCEPT ![c[2]] = v] ELSE hp
  /\ trail' = IF NeedsTrail(c) THEN Append(trail, c) ELSE trail
  /\ cells' = SubSeq(IF c[1] = "s" THEN [cells EXCEPT ![c[2]] = v] ELSE cells, 1, Len(stack'))
  /\ Len(heap') <= MaxHeap

(* What Assign does. *)
LEMMA AssignAssigns ==
  ASSUME NEW hp, NEW c, NEW v, Becomes(Assign(WithHeap(hp), c, v))
  PROVE  Assigned(hp, c, v)
  BY DEF Becomes, Assign, WithHeap, Assigned

(* A longer trail. *)
LEMMA TrailedMore ==
  ASSUME trail \in Seq(Refs), NEW c, NEW t \in Nat, t <= Len(trail), trail' = Append(trail, c)
  PROVE  Len(trail') = Len(trail) + 1 /\ Trailed(t)' = Trailed(t) \cup {c}
<1>1. /\ Len(trail) \in Nat /\ Len(trail') = Len(trail) + 1 /\ trail'[Len(trail) + 1] = c
      /\ \A i \in 1..Len(trail) : trail'[i] = trail[i]
  OBVIOUS
<1>2. ASSUME NEW r PROVE r \in Trailed(t)' <=> r \in Trailed(t) \/ r = c
  <2>1. r \in Trailed(t) <=> \E i \in t + 1..Len(trail) : r = trail[i]
    BY DEF Trailed
  <2>2. r \in Trailed(t)' <=> \E i \in t + 1..Len(trail) + 1 : r = trail'[i]
    BY <1>1 DEF Trailed
  <2>3. \A i \in t + 1..Len(trail) : trail'[i] = trail[i]
    BY <1>1
  <2>4. \A i : i \in t + 1..Len(trail) + 1 <=> i \in t + 1..Len(trail) \/ i = Len(trail) + 1
    BY <1>1
  <2> QED BY <1>1, <2>1, <2>2, <2>3, <2>4
<1> QED BY <1>1, <1>2

(* What the trail, the heap and the cells are afterwards. *)
LEMMA AssignedTypes ==
  ASSUME DataInv, Inv', Shrunk, NEW hp \in Seq(Cell), Len(heap) <= Len(hp),
         NEW c, Unbound(c), NEW v \in Cell, Assigned(hp, c, v)
  PROVE  /\ CellsOK' /\ \A i \in 1..Len(stack') : cells'[i] = IF c = S(i) THEN v ELSE cells[i]
         /\ heap' \in Seq(Cell) /\ Len(heap') = Len(hp)
         /\ \A i \in 1..Len(hp) : heap'[i] = IF c = H(i) THEN v ELSE hp[i]
         /\ trail' \in Seq(Refs) /\ Len(trail) <= Len(trail')
<1>1. /\ Inv /\ ChainFacts /\ CellsOK /\ trail \in Seq(Refs) /\ Len(heap) \in Nat
      /\ Len(trail) \in Nat /\ DOMAIN cells = 1..Len(stack) /\ Len(stack) \in Nat
  BY DataFacts DEF ChainFacts
<1>2. Len(hp) \in Nat /\ DOMAIN hp = 1..Len(hp)
  OBVIOUS
<1>3. c \in Refs
  BY UnboundCases, CurrentEnvs, CellFacts
<1>4. trail' \in Seq(Refs) /\ Len(trail) <= Len(trail')
  <2>1. CASE NeedsTrail(c)
    BY <1>1, <1>3, <2>1 DEF Assigned
  <2>2. CASE ~ NeedsTrail(c)
    BY <1>1, <2>2 DEF Assigned
  <2> QED BY <2>1, <2>2
<1>5. ASSUME NEW n \in 1..Len(heap), c = H(n)
      PROVE  /\ CellsOK' /\ \A i \in 1..Len(stack') : cells'[i] = IF c = S(i) THEN v ELSE cells[i]
             /\ heap' \in Seq(Cell) /\ Len(heap') = Len(hp)
             /\ \A i \in 1..Len(hp) : heap'[i] = IF c = H(i) THEN v ELSE hp[i]
  <2>1. c[1] = "h" /\ c[2] = n /\ (\A i : c # S(i)) /\ (\A i : c = H(i) <=> i = n)
    BY <1>5, CellFacts
  <2>2. heap' = [hp EXCEPT ![n] = v] /\ cells' = SubSeq(cells, 1, Len(stack'))
    BY <2>1 DEF Assigned
  <2>3. n \in 1..Len(hp)
    BY <1>1, <1>2
  <2>4. /\ heap' \in Seq(Cell) /\ Len(heap') = Len(hp)
        /\ \A i \in 1..Len(hp) : heap'[i] = IF i = n THEN v ELSE hp[i]
    BY <2>2, <2>3, ExceptSeq
  <2>5. CellsOK' /\ \A i \in 1..Len(stack') : cells'[i] = cells[i]
    BY <1>1, <2>2, CellsCut DEF CellsOK
  <2> QED BY <2>1, <2>4, <2>5
<1>6. ASSUME NEW n \in Envs(e), c = S(n)
      PROVE  /\ CellsOK' /\ \A i \in 1..Len(stack') : cells'[i] = IF c = S(i) THEN v ELSE cells[i]
             /\ heap' \in Seq(Cell) /\ Len(heap') = Len(hp)
             /\ \A i \in 1..Len(hp) : heap'[i] = IF c = H(i) THEN v ELSE hp[i]
  <2>1. c[1] = "s" /\ c[2] = n /\ (\A i : c # H(i)) /\ (\A i : c = S(i) <=> i = n)
    BY <1>6, CellFacts
  <2>2. PICK cs : cs = [cells EXCEPT ![n] = v]
    OBVIOUS
  <2>3. heap' = hp /\ cells' = SubSeq(cs, 1, Len(stack'))
    BY <2>1, <2>2 DEF Assigned
  <2>4. n \in 1..Len(stack) /\ IsAnd(n)
    BY CurrentEnvs
  <2>5. /\ cs \in Seq(Cell \cup Saved) /\ Len(cs) = Len(stack)
        /\ \A i \in 1..Len(stack) : cs[i] = IF i = n THEN v ELSE cells[i]
    <3>1. cells \in Seq(Cell \cup Saved) /\ Len(cells) = Len(stack) /\ v \in Cell \cup Saved
      BY <1>1 DEF CellsOK
    <3> QED BY <2>2, <2>4, <3>1, ExceptSeq
  <2>6. \A i : IsAnd(i) => cs[i] \in Cell
    BY <1>1, <2>5 DEF CellsOK, ChainFacts
  <2>7. \A i : IsOr(i) => cs[i] = cells[i]
    BY <1>1, <2>4, <2>5 DEF ChainFacts
  <2>8. CellsOK' /\ \A i \in 1..Len(stack') : cells'[i] = cs[i]
    BY <1>1, <2>3, <2>5, <2>6, <2>7, CellsCut
  <2>9. \A i \in 1..Len(stack') : i \in 1..Len(stack)
    <3>1. Len(stack') \in Nat
      BY InvChainsNext DEF ChainFacts
    <3> QED BY <1>1, <3>1 DEF Shrunk
  <2> QED BY <2>1, <2>3, <2>5, <2>8, <2>9
<1> QED BY <1>4, <1>5, <1>6, UnboundCases

(* A binding that a choice point is too old to see gone by itself is trailed: *)
(* the choice point restores what it did.                                     *)
LEMMA AssignedKeeps ==
  ASSUME DataInv, Inv', Shrunk, NEW hp \in Seq(Cell), Len(heap) <= Len(hp),
         \A i \in 1..Len(heap) : hp[i] = heap[i],
         NEW c, Unbound(c), NEW v \in Cell, Assigned(hp, c, v), hb' = hb,
         NEW q \in Choices(b), q <= b', NEW o, o = cells[q]
  PROVE  KeepsChoice(q, o)
<1>1. /\ Inv /\ ChainFacts /\ ChainFacts' /\ trail \in Seq(Refs) /\ Len(trail) \in Nat
      /\ hb \in Nat /\ hb <= Len(heap) /\ Len(heap) \in Nat
      /\ SavedOK(q) /\ q \in 1..b /\ IsOr(q)
      /\ stack[q].e \in 0..Len(stack) /\ stack[q].e < q /\ cells[q] \in Saved
  BY DataFacts, InvChainsNext
<1>2. /\ \A i \in 1..Len(stack') : cells'[i] = IF c = S(i) THEN v ELSE cells[i]
      /\ \A i \in 1..Len(hp) : heap'[i] = IF c = H(i) THEN v ELSE hp[i]
      /\ Len(trail) <= Len(trail')
  BY AssignedTypes
<1>3. o.h \in Nat /\ o.tr \in Nat /\ o.h <= hb /\ o.tr <= Len(trail)
  BY <1>1 DEF SavedOK, Saved
<1>4. q \in 1..Len(stack') /\ Len(stack') \in Nat /\ b \in Nat
  BY <1>1 DEF ChainFacts
<1>5. cells'[q] = o
  <2>1. c # S(q)
    <3>1. \A i \in Envs(e) : IsAnd(i)
      BY CurrentEnvs
    <3>2. ~ IsAnd(q)
      BY <1>1 DEF ChainFacts
    <3> QED BY <3>1, <3>2, UnboundCases, CellFacts
  <2> QED BY <1>2, <1>4, <2>1
<1>6. /\ NeedsTrail(c) => Trailed(o.tr)' = Trailed(o.tr) \cup {c}
      /\ ~ NeedsTrail(c) => Trailed(o.tr)' = Trailed(o.tr)
  <2>1. CASE NeedsTrail(c)
    BY <1>1, <1>3, <2>1, TrailedMore DEF Assigned
  <2>2. CASE ~ NeedsTrail(c)
    BY <2>2 DEF Assigned, Trailed
  <2> QED BY <2>1, <2>2
<1>7. ASSUME NEW i \in 1..o.h
      PROVE  UnwoundRef(o.tr, i)' = UnwoundRef(o.tr, i)
  <2>1. i \in 1..Len(heap) /\ i \in 1..Len(hp) /\ i <= hb
    <3>1. Len(hp) \in Nat
      OBVIOUS
    <3>2. i <= hb /\ i <= Len(heap) /\ i \in Nat
      <4>1. PICK oh : oh = o.h
        OBVIOUS
      <4>2. oh \in Nat /\ oh <= hb /\ hb \in Nat /\ hb <= Len(heap) /\ Len(heap) \in Nat
        BY <1>1, <1>3, <4>1
      <4>3. i \in 1..oh
        BY <4>1
      <4> QED BY <4>2, <4>3
    <3> QED BY <1>1, <3>1, <3>2
  <2>2. heap'[i] = IF c = H(i) THEN v ELSE heap[i]
    BY <1>2, <2>1
  <2>3. CASE c = H(i)
    <3>1. NeedsTrail(c) /\ heap[i] = H(i)
      <4>1. NeedsTrail(c)
        BY <2>1, <2>3, CellFacts DEF NeedsTrail
      <4>2. heap[i] = H(i)
        BY <2>3, CellFacts, UnboundCases
      <4> QED BY <4>1, <4>2
    <3>2. H(i) \in Trailed(o.tr)'
      BY <1>6, <2>3, <3>1
    <3> QED BY <3>1, <3>2 DEF UnwoundRef
  <2>4. CASE c # H(i)
    <3>1. H(i) \in Trailed(o.tr)' <=> H(i) \in Trailed(o.tr)
      BY <1>6, <2>4
    <3> QED BY <2>2, <2>4, <3>1 DEF UnwoundRef
  <2> QED BY <2>3, <2>4
<1>8. ASSUME NEW i \in Envs(stack[q].e)
      PROVE  UnwoundCell(o.tr, i)' = UnwoundCell(o.tr, i)
  <2>1. i \in 1..Len(stack) /\ i <= stack[q].e
    BY <1>1 DEF ChainFacts
  <2>2. i \in 1..Len(stack') /\ i < b
    <3>1. stack[q].e \in Nat /\ i < q
      BY <1>1, <2>1
    <3> QED BY <1>1, <1>4, <2>1, <3>1
  <2>3. cells'[i] = IF c = S(i) THEN v ELSE cells[i]
    BY <1>2, <2>2
  <2>4. CASE c = S(i)
    <3>1. NeedsTrail(c) /\ cells[i] = S(i)
      <4>1. NeedsTrail(c)
        BY <2>2, <2>4, CellFacts DEF NeedsTrail
      <4>2. cells[i] = S(i)
        BY <2>4, CellFacts, UnboundCases
      <4> QED BY <4>1, <4>2
    <3>2. S(i) \in Trailed(o.tr)'
      BY <1>6, <2>4, <3>1
    <3> QED BY <3>1, <3>2 DEF UnwoundCell
  <2>5. CASE c # S(i)
    <3>1. S(i) \in Trailed(o.tr)' <=> S(i) \in Trailed(o.tr)
      BY <1>6, <2>5
    <3> QED BY <2>3, <2>5, <3>1 DEF UnwoundCell
  <2> QED BY <2>4, <2>5
<1>9. o.h <= hb' /\ o.tr <= Len(trail')
  <2>1. Len(trail') \in Nat
    <3>1. trail' \in Seq(Refs)
      BY AssignedTypes
    <3> QED BY <3>1
  <2> QED BY <1>1, <1>2, <1>3, <2>1
<1> QED BY <1>5, <1>7, <1>8, <1>9 DEF KeepsChoice

(* A variable bound to a constant or to an older one. *)
LEMMA BoundData ==
  ASSUME DataInv, Inv', UNCHANGED ctrlVars, NEW c, NEW v, Unbound(c), Known(v),
         v = Con \/ Before(v, c), Assigned(heap, c, v), hb' = hb, x' = x
  PROVE  DataInv'
<1>1. /\ stack' = stack /\ e' = e /\ b' = b /\ ph' = ph
  BY DEF ctrlVars
<1>2. /\ Shrunk /\ b \in Choices(b) /\ (e = 0 \/ e \in Envs(e)) /\ x \in Cell
      /\ Names(x, e, Len(heap))
  BY <1>1, SameFrames, Here
<1>3. /\ heap \in Seq(Cell) /\ Len(heap) \in Nat /\ Len(heap) <= MaxHeap /\ HeapOK(heap)
      /\ DOMAIN heap = 1..Len(heap) /\ hb \in Nat /\ hb <= Len(heap)
  BY DataFacts
<1>4. v \in Cell /\ Names(v, e, Len(heap))
  BY DEF Known
<1>5. /\ CellsOK' /\ \A i \in 1..Len(stack') : cells'[i] = IF c = S(i) THEN v ELSE cells[i]
      /\ heap' \in Seq(Cell) /\ Len(heap') = Len(heap)
      /\ \A i \in 1..Len(heap) : heap'[i] = IF c = H(i) THEN v ELSE heap[i]
      /\ trail' \in Seq(Refs)
  BY <1>2, <1>3, <1>4, AssignedTypes
<1>6. DataTypes'
  BY <1>2, <1>3, <1>5 DEF DataTypes
<1>7. \A q \in Choices(b) : \A o : q <= b' /\ o = cells[q] => KeepsChoice(q, o)
  BY <1>2, <1>3, <1>4, AssignedKeeps
<1>8. HeapOK(heap')
  <2>1. DOMAIN heap' = 1..Len(heap)
    BY <1>5
  <2>2. ASSUME NEW i \in 1..Len(heap) PROVE heap'[i] = Con \/ \E j \in 1..i : heap'[i] = H(j)
    <3>1. CASE c = H(i)
      <4>1. heap'[i] = v
        BY <1>5, <3>1
      <4>2. CASE v # Con
        <5>1. Before(v, c) /\ c[1] = "h" /\ c[2] = i
          BY <3>1, <4>2, CellFacts
        <5>2. v[1] = "h" /\ v[2] < i
          BY <5>1 DEF Before
        <5>3. v = H(v[2]) /\ v[2] \in 1..Len(heap)
          BY <1>4, <4>2, <5>2, CellFacts DEF Names
        <5>4. v[2] \in 1..i
          BY <1>3, <5>2, <5>3
        <5> QED BY <4>1, <5>3, <5>4
      <4> QED BY <4>1, <4>2
    <3>2. CASE c # H(i)
      BY <1>3, <1>5, <3>2 DEF HeapOK
    <3> QED BY <3>1, <3>2
  <2> QED BY <2>1, <2>2 DEF HeapOK
<1>9. RefsOK'
  <2>1. PICK k : k = e
    OBVIOUS
  <2>2. /\ k = e' /\ (k = 0 \/ k \in Envs(e))
    BY <1>1, <1>2, <2>1
  <2>3. /\ Envs(k)' = Envs(k)
        /\ \A i \in Envs(k) : i \in 1..Len(stack') /\ i <= k /\ Envs(i)' = Envs(i)
    BY <1>2, <2>2, EnvsLeft
  <2>4. Names(x, e, Len(heap))'
    BY <1>1, <1>2, <1>5, <2>1, <2>3 DEF Names
  <2>5. ASSUME NEW i \in Envs(k) PROVE Names(cells[i], i, Len(heap))'
    <3>1. Names(cells[i], i, Len(heap)) /\ Envs(i) = {j \in Envs(k) : j <= i} /\ i \in Nat
      BY <2>1, CurrentEnvs
    <3>2. cells'[i] = IF c = S(i) THEN v ELSE cells[i]
      BY <1>5, <2>3
    <3>3. Names(cells'[i], i, Len(heap))
      <4>1. CASE c # S(i)
        BY <3>1, <3>2, <4>1
      <4>2. CASE c = S(i) /\ v[1] # "s"
        BY <1>4, <3>2, <4>2 DEF Names
      <4>3. CASE c = S(i) /\ v[1] = "s"
        <5>1. v # Con /\ c[1] = "s" /\ c[2] = i
          BY <4>3, CellFacts
        <5>2. v[2] < i /\ v[2] \in Envs(k)
          BY <1>4, <2>1, <4>3, <5>1 DEF Before, Names
        <5>3. v[2] \in Nat
          BY <1>4, <4>3, <5>1, CellFacts
        <5>4. v[2] \in Envs(i)
          BY <3>1, <5>2, <5>3
        <5> QED BY <3>2, <4>3, <5>4 DEF Names
      <4> QED BY <4>1, <4>2, <4>3
    <3> QED BY <1>5, <2>3, <3>3 DEF Names
  <2> QED BY <1>1, <2>1, <2>3, <2>4, <2>5 DEF RefsOK
<1>10. StartAbove'
  BY <1>1 DEF DataInv, StartAbove
<1> QED BY <1>1, <1>2, <1>6, <1>7, <1>8, <1>9, <1>10, ShrunkStep

(* Unification with a term that is no variable. *)
LEMMA UnifyTermData ==
  ASSUME DataInv, Inv', NEW c \in FreeVars, UnifyTerm(c)
  PROVE  DataInv'
<1>1. UNCHANGED ctrlVars /\ hb' = hb /\ x' = x /\ Becomes(Assign(WithHeap(heap), c, Con))
  BY DEF UnifyTerm, Memory, WithHeap
<1>2. Unbound(c) /\ Known(Con)
  BY FreeVarsUnbound, Here DEF Known
<1>3. Assigned(heap, c, Con)
  BY <1>1, AssignAssigns
<1> QED BY <1>1, <1>2, <1>3, BoundData

(* Of two distinct variables one is older than the other. *)
LEMMA BeforeTotal ==
  ASSUME NEW c, NEW d, Unbound(c), Unbound(d), c # d
  PROVE  Before(c, d) \/ Before(d, c)
<1>1. c \in Cell /\ d \in Cell /\ c # Con /\ d # Con
  BY CellFacts DEF Unbound, Known, IsVar
<1>2. \/ c[1] = "h" /\ c[2] \in Nat /\ c = H(c[2])
      \/ c[1] = "s" /\ c[2] \in Nat /\ c = S(c[2])
  BY <1>1, CellFacts
<1>3. \/ d[1] = "h" /\ d[2] \in Nat /\ d = H(d[2])
      \/ d[1] = "s" /\ d[2] \in Nat /\ d = S(d[2])
  BY <1>1, CellFacts
<1>4. CASE c[1] = d[1]
  <2>1. c[2] # d[2] /\ c[2] \in Nat /\ d[2] \in Nat
    BY <1>2, <1>3, <1>4
  <2> QED BY <1>4, <2>1 DEF Before
<1>5. CASE c[1] # d[1]
  BY <1>2, <1>3, <1>5 DEF Before
<1> QED BY <1>4, <1>5

(* Unification of two variables: the younger one points to the older one. *)
LEMMA UnifyVarsData ==
  ASSUME DataInv, Inv', NEW c \in FreeVars, NEW d \in FreeVars, UnifyVars(c, d)
  PROVE  DataInv'
<1>1. UNCHANGED ctrlVars /\ hb' = hb /\ x' = x /\ c # d /\ Becomes(Bind(WithHeap(heap), c, d))
  BY DEF UnifyVars, Memory, WithHeap
<1>2. Unbound(c) /\ Unbound(d) /\ Known(c) /\ Known(d)
  BY FreeVarsUnbound DEF Unbound
<1>3. CASE Before(d, c)
  <2>1. Assigned(heap, c, d)
    BY <1>1, <1>3, AssignAssigns DEF Bind
  <2> QED BY <1>1, <1>2, <1>3, <2>1, BoundData
<1>4. CASE ~ Before(d, c)
  <2>1. Assigned(heap, d, c)
    BY <1>1, <1>4, AssignAssigns DEF Bind
  <2>2. Before(c, d)
    BY <1>1, <1>2, <1>4, BeforeTotal
  <2> QED BY <1>1, <1>2, <2>1, <2>2, BoundData
<1> QED BY <1>3, <1>4

(* get_variable writes the cell of an environment no choice point saw.        *)
LEMMA GetVariableData == DataInv /\ Inv' /\ GetVariable => DataInv'
<1> SUFFICES ASSUME DataInv, Inv', GetVariable PROVE DataInv'
  OBVIOUS
<1>1. /\ stack' = stack /\ e' = e /\ b' = b /\ ph' = ph /\ ph = "start"
      /\ heap' = heap /\ trail' = trail /\ hb' = hb /\ x' = Con
  BY DEF GetVariable, ctrlVars
<1>2. PICK k, cs : k = e /\ cs = [cells EXCEPT ![k] = x]
  OBVIOUS
<1>3. /\ Shrunk /\ b \in Choices(b) /\ k \in Envs(k) /\ IsAnd(k) /\ x \in Cell
      /\ Names(x, k, Len(heap)) /\ Con \in Cell /\ \A i, h : Names(Con, i, h)
  BY <1>1, <1>2, SameFrames, Here, HasEnv DEF EnvPhases
<1>4. /\ Inv /\ ChainFacts /\ CellsOK /\ trail \in Seq(Refs)
      /\ heap \in Seq(Cell) /\ Len(heap) <= MaxHeap /\ HeapOK(heap)
      /\ hb \in Nat /\ hb <= Len(heap) /\ Len(stack) \in Nat /\ k \in 1..Len(stack)
      /\ \A c \in Choices(b) : /\ SavedOK(c) /\ c \in 1..b /\ IsOr(c)
                               /\ stack[c].e \in 0..Len(stack) /\ stack[c].e < c
  BY <1>3, DataFacts DEF ChainFacts
<1>5. b \in 1..Len(stack) /\ b < k
  BY <1>1, <1>2, <1>4 DEF DataInv, StartAbove, ChainFacts
<1>6. /\ cs \in Seq(Cell \cup Saved) /\ Len(cs) = Len(stack)
      /\ \A i \in 1..Len(stack) : cs[i] = IF i = k THEN x ELSE cells[i]
  <2>1. cells \in Seq(Cell \cup Saved) /\ Len(cells) = Len(stack) /\ x \in Cell \cup Saved
    BY <1>3, <1>4 DEF CellsOK
  <2> QED BY <1>2, <1>4, <2>1, ExceptSeq
<1>7. CellsOK' /\ \A i \in 1..Len(stack) : cells'[i] = cs[i]
  <2>1. \A i : IsAnd(i) => cs[i] \in Cell
    BY <1>3, <1>4, <1>6 DEF CellsOK, ChainFacts
  <2>2. \A i : IsOr(i) => cs[i] = cells[i]
    BY <1>3, <1>4, <1>6 DEF ChainFacts
  <2>3. cells' = SubSeq(cs, 1, Len(stack'))
    BY <1>1, <1>2, <1>6, Whole DEF GetVariable
  <2> QED BY <1>1, <1>3, <1>4, <1>6, <2>1, <2>2, <2>3, CellsCut
<1>8. DataTypes'
  BY <1>1, <1>3, <1>4, <1>7 DEF DataTypes
<1>9. ASSUME NEW q \in Choices(b), NEW o, q <= b', o = cells[q]
      PROVE  KeepsChoice(q, o)
  <2>1. o.h <= hb' /\ o.tr <= Len(trail')
    BY <1>1, <1>4, <1>9 DEF SavedOK
  <2>2. cells'[q] = o
    <3>1. q \in 1..Len(stack) /\ q # k
      BY <1>3, <1>4, <1>5 DEF ChainFacts
    <3> QED BY <1>6, <1>7, <1>9, <3>1
  <2>3. ASSUME NEW i \in Envs(stack[q].e) PROVE cells'[i] = cells[i]
    <3>1. i \in 1..Len(stack) /\ i <= stack[q].e
      BY <1>4 DEF ChainFacts
    <3>2. stack[q].e \in Nat /\ stack[q].e < q
      BY <1>4
    <3>3. i # k
      BY <1>4, <1>5, <3>1, <3>2
    <3> QED BY <1>6, <1>7, <3>1, <3>3
  <2> QED BY <1>1, <2>1, <2>2, <2>3 DEF KeepsChoice, UnwoundRef, UnwoundCell, Trailed
<1>10. RefsOK'
  <2>1. k = e' /\ (k = 0 \/ k \in Envs(e))
    BY <1>1, <1>2, <1>3
  <2>2. /\ Envs(k)' = Envs(k)
        /\ \A i \in Envs(k) : i \in 1..Len(stack') /\ Envs(i)' = Envs(i)
    BY <1>3, <2>1, EnvsLeft
  <2>3. Names(x, e, Len(heap))'
    BY <1>1, <1>3, CellFacts DEF Names
  <2>4. ASSUME NEW i \in Envs(k) PROVE Names(cells[i], i, Len(heap))'
    <3>1. Names(cells[i], i, Len(heap))
      BY <1>2, CurrentEnvs
    <3>2. cells'[i] = IF i = k THEN x ELSE cells[i]
      BY <1>1, <1>6, <1>7, <2>2
    <3>3. Names(cells'[i], i, Len(heap))
      BY <1>3, <3>1, <3>2
    <3> QED BY <1>1, <2>2, <3>3 DEF Names
  <2> QED BY <1>1, <1>2, <2>2, <2>3, <2>4 DEF RefsOK
<1>11. StartAbove' /\ HeapOK(heap')
  BY <1>1, <1>4 DEF DataInv, StartAbove
<1> QED BY <1>1, <1>3, <1>8, <1>9, <1>10, <1>11, ShrunkStep

-----------------------------------------------------------------------------
(* The instructions that put a new variable on the heap. *)

(* The heap with a new variable. *)
LEMMA NewVarGrows ==
  ASSUME DataInv, NEW hp, hp = Append(heap, NewVar), NEW n, n = Len(heap) + 1
  PROVE  /\ hp \in Seq(Cell) /\ Len(hp) = n /\ n \in Nat /\ Len(heap) <= Len(hp)
         /\ (\A i \in 1..Len(heap) : hp[i] = heap[i]) /\ HeapOK(hp)
         /\ NewVar = H(n) /\ NewVar \in Cell /\ \A k : Names(NewVar, k, n)
<1>1. heap \in Seq(Cell) /\ Len(heap) \in Nat /\ HeapOK(heap) /\ DOMAIN heap = 1..Len(heap)
  BY DataFacts
<1>2. NewVar = H(n) /\ n \in Nat
  BY <1>1 DEF NewVar
<1>3. NewVar \in Cell /\ NewVar[1] = "h" /\ NewVar[2] = n
  BY <1>2, CellFacts
<1>4. /\ hp \in Seq(Cell) /\ Len(hp) = n /\ hp[n] = NewVar
      /\ \A i \in 1..Len(heap) : hp[i] = heap[i]
  BY <1>1, <1>3, AppendProperties
<1>5. HeapOK(hp)
  <2>1. DOMAIN hp = 1..n
    BY <1>4
  <2>2. ASSUME NEW i \in 1..n PROVE hp[i] = Con \/ \E j \in 1..i : hp[i] = H(j)
    <3>1. CASE i = n
      <4>1. n \in 1..n
        BY <2>2, <3>1
      <4> QED BY <1>2, <1>4, <3>1, <4>1
    <3>2. CASE i # n
      <4>1. i \in 1..Len(heap)
        BY <1>1, <3>2
      <4> QED BY <1>1, <1>4, <4>1 DEF HeapOK
    <3> QED BY <3>1, <3>2
  <2> QED BY <2>1, <2>2 DEF HeapOK
<1>6. \A k : Names(NewVar, k, n)
  BY <1>1, <1>3 DEF Names
<1>7. Len(heap) <= Len(hp)
  BY <1>1, <1>4
<1> QED BY <1>2, <1>3, <1>4, <1>5, <1>6, <1>7

(* A call with a new variable. *)
LEMMA CallWithTempData == DataInv /\ Inv' /\ CallWithTemp => DataInv'
<1> SUFFICES ASSUME DataInv, Inv', CallWithTemp PROVE DataInv'
  OBVIOUS
<1>1. /\ stack' = stack /\ e' = e /\ b' = b /\ ph' = "entry"
      /\ heap' = Append(heap, NewVar) /\ Len(heap') <= MaxHeap /\ trail' = trail /\ hb' = hb
      /\ x' = NewVar /\ cells' = SubSeq(cells, 1, Len(stack'))
  BY DEF CallWithTemp, Call, Becomes, Pushed, Memory
<1>2. PICK n : n = Len(heap) + 1
  OBVIOUS
<1>3. /\ heap' \in Seq(Cell) /\ Len(heap') = n /\ Len(heap) <= Len(heap')
      /\ (\A i \in 1..Len(heap) : heap'[i] = heap[i]) /\ HeapOK(heap')
      /\ NewVar \in Cell /\ \A k : Names(NewVar, k, n)
  <2>1. PICK hp : hp = heap'
    OBVIOUS
  <2>2. hp = Append(heap, NewVar)
    BY <1>1, <2>1
  <2> QED BY <1>2, <2>1, <2>2, NewVarGrows
<1>4. HeapGrown
  BY <1>1, <1>3 DEF HeapGrown
<1>5. PICK k : k = e
  OBVIOUS
<1>6. x' \in Cell /\ Names(x', k, Len(heap'))
  BY <1>1, <1>3
<1>7. StartAbove'
  BY <1>1 DEF StartAbove
<1>8. Shrunk /\ b' \in Choices(b) /\ k = e' /\ (k = 0 \/ k \in Envs(e))
  BY <1>1, <1>5, SameFrames, Here
<1> QED BY <1>1, <1>4, <1>6, <1>7, <1>8, GrowingData

(* put_unsafe_value and deallocate: a reference to the environment about to   *)
(* go is one to its own cell; that is moved to the heap, and what referred to *)
(* it through the cell still finds it.                                        *)
LEMMA PutUnsafeData == DataInv /\ Inv' /\ PutUnsafeDeallocate => DataInv'
<1> SUFFICES ASSUME DataInv, Inv', PutUnsafeDeallocate PROVE DataInv'
  OBVIOUS
<1>0. PICK addr, k, n : addr = Deref(cells[e]) /\ k = e' /\ n = Len(heap) + 1
  OBVIOUS
<1>1. /\ Deallocate("exec") /\ hb' = hb
      /\ IsProtected(addr) => x' = addr /\ Becomes(Memory)
      /\ ~ IsProtected(addr) => x' = NewVar /\ Becomes(Bind(Pushed, NewVar, addr))
  BY <1>0 DEF PutUnsafeDeallocate
<1>2. /\ Shrunk /\ b' = b /\ ph' = "exec" /\ IsAnd(e) /\ e \in Envs(e) /\ k = stack[e].e
      /\ (k = 0 \/ k \in Envs(e))
      /\ Envs(e) = {e} \cup Envs(k) /\ \A i \in Envs(k) : i < e
  BY <1>0, <1>1, Deallocates
<1>3. Known(addr) /\ Store(addr) = addr
  <2>1. Known(cells[e])
    BY <1>2, CurrentEnvs DEF Known
  <2> QED BY <1>0, <2>1, DerefEnds
<1>4. StartAbove' /\ b \in Choices(b)
  BY <1>2, Here DEF StartAbove
<1>5. CASE IsProtected(addr)
  <2>1. heap' = heap /\ trail' = trail /\ cells' = SubSeq(cells, 1, Len(stack')) /\ x' = addr
    BY <1>1, <1>5 DEF Becomes, Memory
  <2>2. addr \in Cell /\ Names(addr, k, Len(heap))
    <3>1. addr[1] = "s" => addr[2] \in Envs(e) /\ addr[2] < e
      BY <1>3, <1>5 DEF Known, Names, IsProtected
    <3>2. e \in Nat
      BY DataFacts DEF ChainFacts
    <3>3. addr[1] = "s" => addr[2] \in Envs(k)
      BY <1>2, <3>1, <3>2
    <3> QED BY <1>3, <3>3 DEF Known, Names
  <2> QED BY <1>0, <1>1, <1>2, <1>4, <2>1, <2>2, SteadyData
<1>6. CASE ~ IsProtected(addr)
  <2>1. PICK hp : hp = Append(heap, NewVar)
    OBVIOUS
  <2>2. /\ hp \in Seq(Cell) /\ Len(hp) = n /\ n \in Nat /\ Len(heap) <= Len(hp)
        /\ (\A i \in 1..Len(heap) : hp[i] = heap[i]) /\ HeapOK(hp)
        /\ NewVar = H(n) /\ NewVar \in Cell /\ \A i : Names(NewVar, i, n)
    BY <1>0, <2>1, NewVarGrows
  <2>3. addr[1] = "s" /\ ~ (addr[2] < e)
    BY <1>6 DEF IsProtected
  <2>4. Unbound(addr)
    BY <1>3, <2>3 DEF Unbound, IsVar
  <2>5. addr = S(e)
    <3>1. PICK i \in Envs(e) : addr = S(i)
      BY <2>3, <2>4, UnboundCases, CellFacts
    <3>2. addr[2] = i
      BY <3>1, CellFacts
    <3> QED BY <1>2, <2>3, <3>1, <3>2
  <2>6. ~ Before(addr, NewVar)
    BY <2>2, <2>3, CellFacts DEF Before
  <2>7. Assigned(hp, addr, NewVar) /\ x' = NewVar
    <3>1. Pushed = WithHeap(hp)
      BY <2>1 DEF Pushed, Memory, WithHeap
    <3>2. Becomes(Assign(WithHeap(hp), addr, NewVar))
      BY <1>1, <1>6, <2>6, <3>1 DEF Bind
    <3> QED BY <1>1, <1>6, <3>2, AssignAssigns
  <2>8. /\ CellsOK'
        /\ \A i \in 1..Len(stack') : cells'[i] = IF addr = S(i) THEN NewVar ELSE cells[i]
        /\ heap' \in Seq(Cell) /\ Len(heap') = Len(hp)
        /\ \A i \in 1..Len(hp) : heap'[i] = IF addr = H(i) THEN NewVar ELSE hp[i]
        /\ trail' \in Seq(Refs)
    <3>1. hp \in Seq(Cell) /\ Len(heap) <= Len(hp) /\ NewVar \in Cell
      BY <2>2
    <3>2. Shrunk /\ Unbound(addr) /\ Assigned(hp, addr, NewVar)
      BY <1>2, <2>4, <2>7
    <3> QED BY ONLY DataInv, Inv', <3>1, <3>2, AssignedTypes
  <2>9. heap' = hp
    BY <2>3, <2>7 DEF Assigned
  <2>10. \A q \in Choices(b) : \A o : q <= b' /\ o = cells[q] => KeepsChoice(q, o)
    BY <1>1, <1>2, <2>2, <2>4, <2>7, AssignedKeeps
  <2>11. Len(heap) \in Nat /\ hb \in Nat /\ hb <= Len(heap)
    BY DataFacts
  <2>12. DataTypes'
    <3>1. hb' \in Nat /\ hb' <= Len(heap') /\ Len(heap') <= MaxHeap
      BY <1>0, <1>1, <2>2, <2>7, <2>8, <2>11 DEF Assigned
    <3> QED BY <2>2, <2>7, <2>8, <3>1 DEF DataTypes
  <2>13. RefsOK'
    <3>1. /\ Envs(k)' = Envs(k)
          /\ \A i \in Envs(k) : i \in 1..Len(stack') /\ Envs(i)' = Envs(i)
      BY <1>0, <1>2, EnvsLeft
    <3>2. Names(x, e, Len(heap))'
      BY <2>2, <2>7, <2>9, CellFacts DEF Names
    <3>3. ASSUME NEW i \in Envs(k) PROVE Names(cells[i], i, Len(heap))'
      <4>1. Names(cells[i], i, Len(heap)) /\ i # e /\ i \in Nat
        <5>1. i \in Envs(e) /\ i < e
          BY <1>2
        <5>2. i \in Nat /\ e \in Nat
          BY <1>2, <5>1, CurrentEnvs
        <5> QED BY <5>1, <5>2, CurrentEnvs
      <4>2. cells'[i] = cells[i]
        BY <2>5, <2>8, <3>1, <4>1, CellFacts
      <4>3. \A j \in 1..Len(heap) : j \in 1..Len(heap')
        BY <2>2, <2>8, <2>11
      <4> QED BY <3>1, <4>1, <4>2, <4>3 DEF Names
    <3> QED BY <1>0, <3>1, <3>2, <3>3 DEF RefsOK
  <2> QED BY <1>2, <1>4, <2>2, <2>9, <2>10, <2>12, <2>13, ShrunkStep
<1> QED BY <1>5, <1>6

-----------------------------------------------------------------------------
(* Every step keeps the invariant. *)
LEMMA DataStep ==
  ASSUME DataInv, [NextInstr]_vars
  PROVE  DataInv'
<1>1. Inv'
  BY ControlStep, InvStep DEF DataInv
<1>2. CASE TryMeElseInstr
  BY <1>1, <1>2, TryMeElseData
<1>3. CASE OnlyClauseInstr
  BY <1>1, <1>3, OnlyClauseData
<1>4. CASE FailInstr
  BY <1>1, <1>4, FailData
<1>5. CASE RetryMeElseInstr
  BY <1>1, <1>5, RestoreDataKept DEF RetryMeElseInstr
<1>6. CASE TrustMeInstr
  BY <1>1, <1>6, RestoreDataKept DEF TrustMeInstr
<1>7. CASE NeckCutInstr
  BY <1>1, <1>7, NeckCutData
<1>8. CASE GetLevelInstr
  BY <1>1, <1>8, GetLevelData
<1>9. CASE CutInstr
  BY <1>1, <1>9, CutData
<1>10. CASE AllocateInstr
  BY <1>1, <1>10, AllocateData
<1>11. CASE GetVariable
  BY <1>1, <1>11, GetVariableData
<1>12. CASE CallWithPerm
  BY <1>1, <1>12, CallWithPermData
<1>13. CASE CallWithTemp
  BY <1>1, <1>13, CallWithTempData
<1>14. CASE ExecuteInstr
  BY <1>1, <1>14, ExecuteData
<1>15. CASE PutUnsafeDeallocate
  BY <1>1, <1>15, PutUnsafeData
<1>16. CASE DeallocateInstr
  BY <1>1, <1>16, DeallocateData
<1>17. CASE ProceedInstr
  BY <1>1, <1>17, ProceedData
<1>18. CASE \E c \in FreeVars : UnifyTerm(c)
  BY <1>1, <1>18, UnifyTermData
<1>19. CASE \E c, d \in FreeVars : UnifyVars(c, d)
  BY <1>1, <1>19, UnifyVarsData
<1>20. CASE UNCHANGED vars
  <2>1. /\ stack' = stack /\ e' = e /\ b' = b /\ ph' = ph
        /\ heap' = heap /\ trail' = trail /\ hb' = hb /\ x' = x /\ cells' = cells
    BY <1>20 DEF vars, ctrlVars
  <2>2. StartAbove'
    BY <2>1 DEF DataInv, StartAbove
  <2> QED BY <1>1, <2>1, <2>2, SameFrames, Here, SteadyData
<1> QED
  BY <1>2, <1>3, <1>4, <1>5, <1>6, <1>7, <1>8, <1>9, <1>10, <1>11, <1>12, <1>13, <1>14,
     <1>15, <1>16, <1>17, <1>18, <1>19, <1>20 DEF NextInstr

(* It holds to begin with: one variable, and the stub choice point, which saw *)
(* nothing.                                                                   *)
LEMMA InitDataInv == InitData => DataInv
<1> SUFFICES ASSUME InitData PROVE DataInv
  OBVIOUS
<1>1. /\ Init /\ heap = <<H(1)>> /\ trail = <<>> /\ hb = 1 /\ x = H(1)
      /\ cells = <<[tr |-> 0, h |-> 0, x |-> Con, heap |-> <<>>, ys |-> <<>>]>>
  BY DEF InitData
<1>2. Inv /\ ChainFacts
  BY <1>1, InitInv, InvChains
<1>3. /\ Len(stack) = 1 /\ stack[1].e = 0 /\ stack[1].b = 0 /\ stack[1].kind = "or"
      /\ e = 0 /\ b = 1 /\ ph = "entry"
  BY <1>1 DEF Init, None
<1>4. IsOr(1) /\ (\A i : IsOr(i) => i = 1) /\ \A i : ~ IsAnd(i)
  <2>1. \A i : IsOr(i) \/ IsAnd(i) => i = 1
    BY <1>2, <1>3 DEF ChainFacts
  <2>2. IsOr(1)
    BY <1>2, <1>3 DEF ChainFacts
  <2>3. ~ IsAnd(1)
    BY <1>2, <2>2 DEF ChainFacts
  <2> QED BY <2>1, <2>2, <2>3
<1>5. Envs(0) = {} /\ Choices(0) = {} /\ Choices(1) = {1}
  <2>1. 0 \in 0..Len(stack) /\ 1 \in 0..Len(stack) /\ 0 # 1
    BY <1>3
  <2>2. Envs(0) = {} /\ Choices(0) = {}
    BY <1>2, <1>4, <2>1 DEF ChainFacts
  <2>3. Choices(1) = {1} \cup Choices(0)
    BY <1>2, <1>3, <1>4, <2>1 DEF ChainFacts
  <2> QED BY <2>2, <2>3
<1>6. PICK o : o = [tr |-> 0, h |-> 0, x |-> Con, heap |-> <<>>, ys |-> <<>>]
  OBVIOUS
<1>7. /\ o.tr = 0 /\ o.h = 0 /\ o.x = Con /\ o.heap = <<>> /\ o.ys = <<>> /\ cells = <<o>>
  BY <1>1, <1>6
<1>8. o \in Saved
  <2>1. <<>> \in CellMaps
    <3>1. <<>> \in [{} -> Cell] /\ {} \in SUBSET Nat
      OBVIOUS
    <3> QED BY <3>1 DEF CellMaps
  <2> QED BY <1>6, <2>1, CellFacts DEF Saved
<1>9. Len(cells) = 1 /\ cells[1] = o /\ cells \in Seq(Cell \cup Saved)
  BY <1>7, <1>8
<1>10. H(1) \in Cell /\ H(1)[1] = "h" /\ H(1)[2] = 1 /\ MaxHeap >= 1 /\ MaxHeap \in Nat
  BY CellFacts, DataBounds
<1>11. heap \in Seq(Cell) /\ Len(heap) = 1 /\ heap[1] = H(1) /\ DOMAIN heap = 1..1
  BY <1>1, <1>10
<1>12. CellsOK
  BY <1>3, <1>4, <1>8, <1>9 DEF CellsOK
<1>13. DataTypes
  BY <1>1, <1>10, <1>11, <1>12 DEF DataTypes
<1>14. HeapOK(heap)
  BY <1>11 DEF HeapOK
<1>15. RefsOK
  BY <1>1, <1>3, <1>5, <1>10, <1>11 DEF RefsOK, Names
<1>16. SavedOK(1)
  <2>1. DOMAIN o.ys = {} /\ DOMAIN o.heap = {} /\ Len(o.heap) = 0
    BY <1>7
  <2>2. HeapOK(o.heap)
    BY <2>1 DEF HeapOK
  <2>3. Names(o.x, 0, o.h)
    BY <1>7, CellFacts DEF Names
  <2>4. o.h <= hb /\ o.tr <= Len(trail)
    BY <1>1, <1>7
  <2> QED BY <1>3, <1>5, <1>7, <1>9, <2>1, <2>2, <2>3, <2>4 DEF SavedOK
<1>17. RestoredOK(1)
  <2>1. 1..o.h = {}
    BY <1>7
  <2> QED BY <1>3, <1>5, <1>9, <2>1 DEF RestoredOK
<1>18. Ordered /\ StartAbove
  BY <1>3, <1>5 DEF Ordered, StartAbove
<1> QED BY <1>2, <1>3, <1>5, <1>13, <1>14, <1>15, <1>16, <1>17, <1>18 DEF DataInv

(* The invariant holds in every state. *)
LEMMA DataInvariance == DataSpec => []DataInv
<1>1. DataInv /\ [NextInstr]_vars => DataInv'
  BY DataStep
<1> QED BY <1>1, InitDataInv, PTL DEF DataSpec

-----------------------------------------------------------------------------
(* The machine with its data behaves as its control does: what is proved of   *)
(* environments, choice points and cuts holds of it too.                      *)
THEOREM RefinesControl == DataSpec => Spec
<1>1. InitData => Init
  BY DEF InitData
<1>2. [NextInstr]_vars => [Next]_ctrlVars
  BY ControlStep
<1> QED BY <1>1, <1>2, PTL DEF DataSpec, Spec

(* Undoing the trail gives every alternative the heap and the permanent       *)
(* variables its choice point was made with: whatever had to be trailed was,  *)
(* although the cuts leave hb where it is.                                    *)
THEOREM BacktrackingRestores == DataSpec => []TrailSufficient
<1>1. DataInv => TrailSufficient
  <2> SUFFICES ASSUME DataInv, NEW c \in Choices(b), NEW o, o = cells[c]
               PROVE  /\ UnwoundHeap(o.tr, o.h) = o.heap
                      /\ \A i \in DOMAIN o.ys : UnwoundCell(o.tr, i) = o.ys[i]
    BY DEF TrailSufficient
  <2>1. SavedOK(c) /\ RestoredOK(c) /\ cells[c] \in Saved
    BY DataFacts
  <2>2. o.heap \in Seq(Cell) /\ Len(o.heap) = o.h /\ DOMAIN o.ys = Envs(stack[c].e)
    BY <2>1 DEF Saved, SavedOK
  <2>3. UnwoundHeap(o.tr, o.h) = [i \in 1..o.h |-> UnwoundRef(o.tr, i)]
    BY DEF UnwoundHeap, UnwoundRef
  <2>4. o.heap = [i \in 1..o.h |-> o.heap[i]]
    BY <2>2
  <2>5. [i \in 1..o.h |-> UnwoundRef(o.tr, i)] = [i \in 1..o.h |-> o.heap[i]]
    BY <2>1 DEF RestoredOK
  <2>6. \A i \in DOMAIN o.ys : UnwoundCell(o.tr, i) = o.ys[i]
    BY <2>1, <2>2 DEF RestoredOK
  <2> QED BY <2>3, <2>4, <2>5, <2>6
<1> QED BY <1>1, DataInvariance, PTL

(* No reference outlives the cell it names, not even those a choice point     *)
(* saved: neither deallocate nor backtracking gives up memory that a          *)
(* register, a permanent variable or the heap still refers to.                *)
THEOREM ReferencesLive == DataSpec => []NoDanglingReference
<1>1. DataInv => NoDanglingReference
  <2> SUFFICES ASSUME DataInv PROVE NoDanglingReference
    OBVIOUS
  <2> DEFINE Good(c, i) == (c[1] = "h" => c[2] <= Len(heap)) /\ (c[1] = "s" => c[2] \in Envs(i))
  <2>1. ASSUME NEW c, NEW i, Names(c, i, Len(heap)) PROVE Good(c, i)
    <3>1. Len(heap) \in Nat
      BY DataFacts
    <3> QED BY <2>1, <3>1 DEF Names
  <2>2. \A i \in DOMAIN heap : heap[i] = Con \/ (heap[i][1] = "h" /\ heap[i][2] <= i)
    <3>1. HeapOK(heap) /\ DOMAIN heap = 1..Len(heap) /\ Len(heap) \in Nat
      BY DataFacts
    <3> SUFFICES ASSUME NEW i \in DOMAIN heap, heap[i] # Con
                 PROVE  heap[i][1] = "h" /\ heap[i][2] <= i
      OBVIOUS
    <3>2. PICK j \in 1..i : heap[i] = H(j)
      BY <3>1 DEF HeapOK
    <3>3. heap[i][1] = "h" /\ heap[i][2] = j
      BY <3>2, CellFacts
    <3> QED BY <3>1, <3>2, <3>3
  <2>3. Good(x, e)
    BY <2>1, Here
  <2>4. \A i \in Envs(e) : Good(cells[i], i)
    BY <2>1, CurrentEnvs
  <2>5. ASSUME NEW c \in Choices(b) PROVE Good(cells[c].x, stack[c].e)
    <3>1. PICK o : o = cells[c]
      OBVIOUS
    <3>2. Names(o.x, stack[c].e, o.h) /\ o.h <= hb /\ o.h \in Nat /\ hb \in Nat /\ hb <= Len(heap)
          /\ Len(heap) \in Nat
      BY <3>1, DataFacts DEF SavedOK, Saved
    <3>3. Names(o.x, stack[c].e, Len(heap))
      <4>1. PICK n : n = o.h
        OBVIOUS
      <4>2. n <= Len(heap) /\ n \in Nat
        BY <3>2, <4>1
      <4>3. \A j \in 1..n : j \in 1..Len(heap)
        BY <3>2, <4>2
      <4> QED BY <3>2, <4>1, <4>3 DEF Names
    <3> QED BY <2>1, <3>1, <3>3
  <2> QED BY <2>2, <2>3, <2>4, <2>5 DEF NoDanglingReference
<1> QED BY <1>1, DataInvariance, PTL
==============================================================================
