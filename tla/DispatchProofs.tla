---------------------------- MODULE DispatchProofs ----------------------------
(***************************************************************************)
(* The dispatch loop, for any program, any number of registers and any      *)
(* number of bindings: no failure is carried over to the next instruction,  *)
(* bindings of attributed variables are verified before the next call, and  *)
(* the clause goes on where it was interrupted.                             *)
(*                                                                          *)
(* The first rests on a reading of all arms (AllArmsSound): an arm that     *)
(* does not test the fail flag belongs to a function that never sets it, or *)
(* is one of the known leaks.  The other two follow p, cp and attr_var_init *)
(* from the binding that diverts them to the return from verification.      *)
(***************************************************************************)
EXTENDS Dispatch, SequenceTheorems, TLAPS

ClauseAt(q) == q >= Entry /\ q < Entry + Len(program)
InstrAt(q) == program[q - Entry + 1]

Whats == {"none", "ok", "err", "fail", "resource", "bind", "interrupted", "limit", "woken", "retried"}
DispatchTypeOK ==
  /\ program \in Programs
  /\ p \in Nat /\ cp \in Nat /\ fail \in BOOLEAN /\ ball \in BOOLEAN /\ count \in Nat
  /\ b \in {"alternative", "handler", "limit"}
  /\ init \in [p : Nat, cp : Nat, bindings : Nat]
  /\ waking \in BOOLEAN /\ seen \in Nat
  /\ intact \subseteq 1..Registers
  /\ frames \in Seq([p : Nat, saved : SUBSET (1..Registers)])
  /\ last \in [what : Whats, at : Nat]
  /\ leaked \in BOOLEAN

(* An instruction of the clause has diverted control to RunVerifyAttr; it goes *)
(* on in the clause, or to the caller if it was the last.                      *)
Diverted == p = InterruptLoc =>
  /\ ~waking /\ init.bindings # 0
  /\ ClauseAt(init.p) /\ InstrAt(init.p).kind # "proceed" /\ init.cp = Around.continuation
  /\ ~ Leaves(InstrAt(init.p)) => ClauseAt(init.p + 1)

(* Where the machine may be while it looks for the place to wake up at, and    *)
(* that no binding waits otherwise, unless the clause has failed.              *)
Pending ==
  /\ waking => init.bindings # 0 /\ (ClauseAt(p) \/ At("continuation") \/ IsChoice)
  /\ ~waking /\ p # InterruptLoc /\ ~IsChoice => init.bindings = 0

(* Where verification returns to. *)
Resumption == frames[Len(frames)]
DriverInv == At("driver") =>
  /\ frames # <<>>
  /\ \/ Resumption.p = Around.continuation
     \/ /\ ClauseAt(Resumption.p) /\ InstrAt(Resumption.p).kind # "get"
        /\ cp = Around.continuation

ControlInv == Diverted /\ Pending /\ DriverInv /\ (ClauseAt(p) => cp = Around.continuation)

(* The registers some instruction from q on still needs. *)
Needed(q) == {r \in 1..Registers : \E j \in 1..Len(program) :
                j >= q - Entry + 1 /\ program[j].kind # "get" /\ r <= program[j].live}
RegistersInv ==
  /\ ClauseAt(p) => Needed(p) \subseteq intact
  /\ p = InterruptLoc => Needed(init.p + 1) \subseteq intact
  /\ At("driver") /\ ClauseAt(Resumption.p) => Needed(Resumption.p) \subseteq Resumption.saved

(* Verification is put before an instruction that reads registers. *)
WokenInv == last.what = "woken" /\ ClauseAt(p) => InstrAt(p).kind # "get"

(* No instruction needs a register beyond the arity of an earlier one: what is *)
(* not among the arguments of the instruction that verification is put before  *)
(* is not saved.                                                               *)
Economical ==
  \A c \in Programs : \A i, j \in 1..Len(c) :
    i <= j /\ c[i].kind # "get" /\ c[j].kind # "get" => c[j].live <= c[i].arity

(* The inductive invariants. *)
Inv == DispatchTypeOK /\ ControlInv
SavingInv == RegistersInv /\ WokenInv

-----------------------------------------------------------------------------
(* The arms. *)

(* The functions that may fail although their arm does not look at the flag,  *)
(* besides the execute form of $unattributed_var and what runs out of memory.  *)
NeverTested == {"InlinedInstructions", "DebugHook", "Asserta", "Assertz"}

(* An arm tests the flag unless there is nothing to test; one that goes where *)
(* the function says also turns its errors into exceptions.                   *)
Sound(a) ==
  /\ "flag" \in a.f \/ a.name \in CannotFail \cup NeverTested
  /\ "callee" \in a.f => "flag" \in a.f /\ "try" \in a.f

(* The four disciplines that test, and counting. *)
LEMMA SoundDisciplines ==
  /\ \A N : \A a \in Tested(N) : Sound(a)
  /\ \A N : \A a \in Tried(N) : Sound(a)
  /\ \A N : \A a \in Callee(N) : Sound(a)
<1>1. ASSUME NEW N, NEW a \in Tested(N) PROVE Sound(a)
  BY <1>1 DEF Tested, Arms, Sound
<1>2. ASSUME NEW N, NEW a \in Tried(N) PROVE Sound(a)
  BY <1>2 DEF Tried, Arms, Sound
<1>3. ASSUME NEW N, NEW a \in Callee(N) PROVE Sound(a)
  BY <1>3 DEF Callee, Arms, Sound
<1> QED BY <1>1, <1>2, <1>3
LEMMA SoundCounted ==
  ASSUME NEW A, \A a \in A : Sound(a)
  PROVE  \A a \in Counted(A) : Sound(a)
<1> SUFFICES ASSUME NEW a \in Counted(A) PROVE Sound(a)
  OBVIOUS
<1>1. PICK c \in A : a = [c EXCEPT !.f = @ \cup {"count"}]
  BY DEF Counted
<1> QED BY <1>1 DEF Sound
(* The two that do not. *)
LEMMA SoundUntested ==
  /\ \A N \in SUBSET (CannotFail \cup NeverTested) : \A a \in Unconditional(N) : Sound(a)
  /\ \A N \in SUBSET (CannotFail \cup NeverTested) : \A a \in TriedOnly(N) : Sound(a)
<1>1. ASSUME NEW N \in SUBSET (CannotFail \cup NeverTested), NEW a \in Unconditional(N) PROVE Sound(a)
  BY <1>1 DEF Unconditional, Arms, Sound
<1>2. ASSUME NEW N \in SUBSET (CannotFail \cup NeverTested), NEW a \in TriedOnly(N) PROVE Sound(a)
  BY <1>2 DEF TriedOnly, Arms, Sound
<1> QED BY <1>1, <1>2

(* Group by group, as they follow each other in the source. *)
LEMMA AllArmsSound == \A a \in AllArms : Sound(a)
<1>1. \A a \in UncountedOrderArms : Sound(a)
  BY SoundDisciplines DEF UncountedOrderArms
<1>2. \A a \in UncountedTermArms : Sound(a)
  BY SoundDisciplines DEF UncountedTermArms
<1>3. \A a \in CountedOrderArms : Sound(a)
  BY SoundDisciplines, SoundCounted DEF CountedOrderArms
<1>4. \A a \in CountedTermArms : Sound(a)
  BY SoundDisciplines, SoundCounted DEF CountedTermArms
<1>5. \A a \in CountedControlArms : Sound(a)
  BY SoundDisciplines, SoundCounted DEF CountedControlArms
<1>6. \A a \in CountedEqualArms : Sound(a)
  BY SoundDisciplines, SoundCounted DEF CountedEqualArms
<1>7. \A a \in CountedLessArms : Sound(a)
  BY SoundDisciplines, SoundCounted DEF CountedLessArms
<1>8. \A a \in UncountedEqualArms : Sound(a)
  BY SoundDisciplines DEF UncountedEqualArms
<1>9. \A a \in UncountedLessArms : Sound(a)
  BY SoundDisciplines DEF UncountedLessArms
<1>10. \A a \in AtomicTypeArms : Sound(a)
  BY SoundDisciplines DEF AtomicTypeArms
<1>11. \A a \in NumberTypeArms : Sound(a)
  BY SoundDisciplines DEF NumberTypeArms
<1>12. \A a \in OtherTypeArms : Sound(a)
  BY SoundDisciplines DEF OtherTypeArms
<1>13. \A a \in PredicateArms : Sound(a)
  BY SoundDisciplines, SoundCounted DEF PredicateArms
<1>14. \A a \in CharArms : Sound(a)
  <2>1. {"Close"} \subseteq CannotFail \cup NeverTested
    BY DEF CannotFail, StreamClosing
  <2> QED BY <2>1, SoundDisciplines, SoundUntested DEF CharArms
<1>15. \A a \in FileArms : Sound(a)
  BY SoundDisciplines DEF FileArms
<1>16. \A a \in InputArms : Sound(a)
  <2>1. {"FlushOutput"} \subseteq CannotFail \cup NeverTested
    BY DEF CannotFail, StreamClosing
  <2> QED BY <2>1, SoundDisciplines, SoundUntested DEF InputArms
<1>17. \A a \in ControlStateArms : Sound(a)
  BY SoundDisciplines DEF ControlStateArms
<1>18. \A a \in OutputArms : Sound(a)
  <2>1. {"OpDeclaration", "SetStreamOptions", "PutByte", "PutChar", "PutCode"} \subseteq
       CannotFail \cup NeverTested
    BY DEF CannotFail, CharOutput, StreamSettings
  <2> QED BY <2>1, SoundDisciplines, SoundUntested DEF OutputArms
<1>19. \A a \in PolicyArms : Sound(a)
  <2>1. {"RedoAttrVarBinding", "RemoveCallPolicyCheck", "ResetContinuationMarker",
       "RestoreCutPolicy", "StoreBacktrackableGlobalVar", "StoreGlobalVar",
       "CleanUpBlock"} \subseteq CannotFail \cup NeverTested
    BY DEF CannotFail, PolicyChanges, BlockChanges, GlobalStores, OtherEffects
  <2>2. {"SetInput", "SetOutput"} \subseteq CannotFail \cup NeverTested
    BY DEF CannotFail, StreamSelection
  <2> QED BY <2>1, <2>2, SoundDisciplines, SoundUntested DEF PolicyArms
<1>20. \A a \in BlockArms : Sound(a)
  BY SoundDisciplines DEF BlockArms
<1>21. \A a \in BallArms : Sound(a)
  <2>1. {"PopBallStack", "PopFromBallStack"} \subseteq CannotFail \cup NeverTested
    BY DEF CannotFail, BlockChanges
  <2> QED BY <2>1, SoundDisciplines, SoundUntested DEF BallArms
<1>22. \A a \in SocketArms : Sound(a)
  <2>1. {"Sleep", "Succeed", "TruncateLiftedHeapTo"} \subseteq CannotFail \cup NeverTested
    BY DEF CannotFail, OtherEffects
  <2>2. {"SocketServerClose"} \subseteq CannotFail \cup NeverTested
    BY DEF CannotFail, OtherEffects
  <2> QED BY <2>1, <2>2, SoundDisciplines, SoundUntested DEF SocketArms
<1>23. \A a \in InstructionArms : Sound(a)
  <2>1. {"InlinedInstructions"} \subseteq CannotFail \cup NeverTested
    BY DEF CannotFail, NeverTested
  <2> QED BY <2>1, SoundDisciplines, SoundUntested DEF InstructionArms
<1>24. \A a \in SpecialMathArms : Sound(a)
  BY SoundDisciplines DEF SpecialMathArms
<1>25. \A a \in ProcessArms : Sound(a)
  <2>1. {"SetEnv", "UnsetEnv", "SetSTOAsUnify", "SetNSTOAsUnify",
       "SetSTOWithErrorAsUnify"} \subseteq CannotFail \cup NeverTested
    BY DEF CannotFail, Environment, UnifySettings
  <2> QED BY <2>1, SoundDisciplines, SoundUntested DEF ProcessArms
<1>26. \A a \in LoaderArms : Sound(a)
  <2>1. {"DebugHook"} \subseteq CannotFail \cup NeverTested
    BY DEF CannotFail, NeverTested
  <2>2. {"AddDiscontiguousPredicate", "AddDynamicPredicate", "AddMultifilePredicate",
       "AddGoalExpansionClause", "AddTermExpansionClause", "AddInSituFilenameModule",
       "ClauseToEvacuable", "ScopedClauseToEvacuable", "ConcludeLoad", "DeclareModule"}
       \subseteq CannotFail \cup NeverTested
    BY DEF CannotFail, Declarations, LoadSteps, ModuleSteps
  <2> QED BY <2>1, <2>2, SoundDisciplines, SoundUntested DEF LoaderArms
<1>27. \A a \in LoadContextArms : Sound(a)
  <2>1. {"PopLoadContext", "PopLoadStatePayload"} \subseteq CannotFail \cup NeverTested
    BY DEF CannotFail, LoadSteps
  <2>2. {"PushLoadContext", "UseModule"} \subseteq CannotFail \cup NeverTested
    BY DEF CannotFail, LoadSteps, ModuleSteps
  <2> QED BY <2>1, <2>2, SoundDisciplines, SoundUntested DEF LoadContextArms
<1>28. \A a \in DatabaseArms : Sound(a)
  <2>1. {"AbolishClause", "Asserta", "Assertz", "Retract", "FlushTermQueue",
       "RemoveModuleExports", "AddNonCountedBacktracking"} \subseteq CannotFail \cup
       NeverTested
    BY DEF CannotFail, ClauseRemovals, QueueSteps, NeverTested
  <2> QED BY <2>1, SoundDisciplines, SoundUntested DEF DatabaseArms
<1>29. \A a \in CallArms : Sound(a)
  BY SoundDisciplines DEF CallArms
<1>30. \A a \in AttributeArms : Sound(a)
  <2>1. {"DeleteAllAttributesFromVar"} \subseteq CannotFail \cup NeverTested
    BY DEF CannotFail, OtherEffects
  <2> QED BY <2>1, SoundDisciplines, SoundUntested DEF AttributeArms
<1>31. \A a \in NeckCutArm : Sound(a)
  <2>1. {"NeckCut"} \subseteq CannotFail \cup NeverTested
    BY DEF CannotFail, OtherEffects
  <2> QED BY <2>1, SoundDisciplines, SoundUntested DEF NeckCutArm
<1> QED BY <1>1, <1>2, <1>3, <1>4, <1>5, <1>6, <1>7, <1>8, <1>9, <1>10, <1>11, <1>12,
     <1>13, <1>14, <1>15, <1>16, <1>17, <1>18, <1>19, <1>20, <1>21, <1>22, <1>23, <1>24,
     <1>25, <1>26, <1>27, <1>28, <1>29, <1>30, <1>31 DEF AllArms

(* What a function may do, against what its arm does about it. *)
LEMMA OutcomeFacts ==
  ASSUME NEW arm \in AllArms, NEW form \in {"call", "execute"}, NEW o \in Outcomes(arm)
  PROVE  /\ o \in {"ok", "err", "fail", "resource", "bind", "interrupted"}
         /\ o \in {"fail", "resource"} => o \in Leaks(arm, form) \/ "flag" \in Features(arm, form)
         /\ o = "interrupted" => o \in Leaks(arm, form)
         /\ "callee" \in Features(arm, form) =>
              "flag" \in Features(arm, form) /\ "try" \in Features(arm, form)
         /\ o = "bind" => "callee" \notin Features(arm, form)
<1>1. Sound(arm)
  BY AllArmsSound
<1>2. o \in {"ok", "err", "fail", "resource", "bind", "interrupted"}
  BY DEF Outcomes
<1>3. /\ "callee" \in Features(arm, form) =>
           "flag" \in Features(arm, form) /\ "try" \in Features(arm, form)
      /\ o = "bind" => "callee" \notin Features(arm, form)
  BY <1>1 DEF Sound, Features, Outcomes
<1>4. o = "interrupted" => o \in Leaks(arm, form)
  <2>1. o = "interrupted" => arm.name = "HttpAccept"
    BY DEF Outcomes
  <2> QED BY <2>1 DEF Leaks, NeedsMemory
<1>5. ASSUME o \in {"fail", "resource"}, "flag" \notin Features(arm, form)
      PROVE  o \in Leaks(arm, form)
  <2>1. CASE arm.name = "UnattributedVar" /\ form = "execute"
    <3>1. /\ arm.name \notin NeedsMemory \cup {"InlinedInstructions", "DebugHook", "Asserta", "Assertz"}
          /\ arm.name # "HttpAccept"
      BY <2>1 DEF NeedsMemory
    <3>2. Leaks(arm, form) = {"fail", "resource"}
      BY <2>1, <3>1 DEF Leaks
    <3> QED BY <1>5, <3>2
  <2>2. CASE ~(arm.name = "UnattributedVar" /\ form = "execute")
    <3>1. arm.name \in CannotFail \cup NeverTested
      BY <1>1, <1>5, <2>2 DEF Features, Sound
    <3>2. arm.name \in CannotFail => o = "resource" /\ arm.name \in NeedsMemory
      BY <1>5 DEF Outcomes
    <3>3. arm.name \in NeedsMemory \cup NeverTested
      BY <3>1, <3>2
    <3>4. /\ arm.name \in NeedsMemory \cup {"InlinedInstructions", "DebugHook", "Asserta", "Assertz"}
          /\ arm.name # "HttpAccept" /\ ~(arm.name = "UnattributedVar" /\ form = "execute")
      BY <2>2, <3>3 DEF NeedsMemory, NeverTested
    <3>5. Leaks(arm, form) = {"fail", "resource"}
      BY <3>4 DEF Leaks
    <3> QED BY <1>5, <3>5
  <2> QED BY <2>1, <2>2
<1> QED BY <1>2, <1>3, <1>4, <1>5

-----------------------------------------------------------------------------
(* The program. *)
LEMMA ProgramFacts ==
  ASSUME DispatchTypeOK, NEW q \in Nat, ClauseAt(q)
  PROVE  /\ InstrAt(q) \in Instructions /\ q - Entry + 1 \in 1..Len(program)
         /\ ~ Leaves(InstrAt(q)) => ClauseAt(q + 1)
         /\ Len(program) \in Nat
<1>1. program \in Seq(Instructions) /\ program # <<>> /\ Leaves(program[Len(program)])
  BY ProgramsAssumption DEF DispatchTypeOK
<1>2. Len(program) \in Nat /\ \A i \in 1..Len(program) : program[i] \in Instructions
  BY <1>1
<1>3. q - Entry + 1 \in 1..Len(program)
  BY <1>2 DEF ClauseAt, Entry
<1>4. ~ Leaves(InstrAt(q)) => q - Entry + 1 # Len(program)
  BY <1>1 DEF InstrAt
<1>5. ~ Leaves(InstrAt(q)) => ClauseAt(q + 1)
  BY <1>2, <1>3, <1>4 DEF ClauseAt, Entry
<1> QED BY <1>2, <1>3, <1>5 DEF InstrAt

(* The places lie apart from each other and from the clause. *)
LEMMA Places ==
  /\ Around.continuation = 30 /\ Around.alternative = 40 /\ Around.handler = 50
  /\ Around.limit = 60 /\ Around.driver = 70 /\ Around.callee = 80
  /\ InterruptLoc = 1
  /\ \A q \in Nat : ClauseAt(q) => q >= 100
BY DEF Around, InterruptLoc, ClauseAt, Entry

(* The choice points. *)
Choices == {"alternative", "handler", "limit"}
LEMMA ChoicePlaces ==
  /\ \A place \in Choices : Around[place] \in {40, 50, 60}
  /\ \A place \in Choices : (place = "handler" => Around[place] = 50)
                           /\ (place = "limit" => Around[place] = 60)
  /\ IsChoice <=> p \in {40, 50, 60}
  /\ Around["handler"] = 50 /\ Around["limit"] = 60
  /\ \A place \in {"continuation", "driver", "callee", "handler", "limit"} :
       Around[place] \in Nat /\ Around[place] # InterruptLoc
<1>1. Around["alternative"] = 40 /\ Around["handler"] = 50 /\ Around["limit"] = 60
      /\ Around["continuation"] = 30 /\ Around["driver"] = 70 /\ Around["callee"] = 80
  BY DEF Around
<1> QED BY <1>1 DEF Choices, IsChoice, At, InterruptLoc

-----------------------------------------------------------------------------
(* The built-ins. *)

(* The machine's registers as a record. *)
Registered == [p : Nat, cp : Nat, fail : BOOLEAN, b : Choices, ball : BOOLEAN, count : Nat,
               init : [p : Nat, cp : Nat, bindings : Nat]]
LEMMA StateFacts ==
  ASSUME DispatchTypeOK
  PROVE  /\ State \in Registered
         /\ State.p = p /\ State.cp = cp /\ State.fail = fail /\ State.b = b
         /\ State.ball = ball /\ State.count = count /\ State.init = init
BY DEF DispatchTypeOK, State, Registered, Choices

(* Backtracking, throwing, and counting. *)
LEMMA BacktrackFacts ==
  ASSUME NEW s \in Registered
  PROVE  /\ Backtrack(s) \in Registered
         /\ Backtrack(s).p = Around[s.b] /\ ~Backtrack(s).fail
         /\ Backtrack(s).cp = s.cp /\ Backtrack(s).ball = s.ball /\ Backtrack(s).init = s.init
         /\ Backtrack(s).p \in {40, 50, 60}
<1>1. s.b \in Choices
  BY DEF Registered
<1>2. PICK n : n = Around[s.b]
  OBVIOUS
<1>3. n \in {40, 50, 60}
  BY <1>1, <1>2, ChoicePlaces
<1>4. n \in Nat
  BY <1>3
<1>5. Backtrack(s) = [s EXCEPT !.p = n, !.fail = FALSE]
  BY <1>2 DEF Backtrack
<1>6. [s EXCEPT !.p = n, !.fail = FALSE] \in Registered
  BY <1>4 DEF Registered
<1>7. /\ Backtrack(s).p = n /\ Backtrack(s).fail = FALSE
      /\ Backtrack(s).cp = s.cp /\ Backtrack(s).ball = s.ball /\ Backtrack(s).init = s.init
  BY <1>5 DEF Registered
<1> QED BY <1>2, <1>3, <1>5, <1>6, <1>7
LEMMA ThrowFacts ==
  ASSUME NEW s \in Registered
  PROVE  /\ ThrowException(s) \in Registered
         /\ ThrowException(s).b = "handler" /\ ThrowException(s).fail /\ ThrowException(s).ball
         /\ ThrowException(s).p = s.p /\ ThrowException(s).cp = s.cp
         /\ ThrowException(s).init = s.init
BY DEF ThrowException, UnwindStack, Registered, Choices
LEMMA CountFacts ==
  ASSUME NEW s \in Registered, NEW exceeded \in BOOLEAN, NEW r, r = IncrementCallCount(s, exceeded)
  PROVE  /\ r \in Registered
         /\ exceeded => r.p = 60 /\ ~r.fail
         /\ ~exceeded => r.p = s.p /\ r.fail = s.fail
         /\ r.cp = s.cp /\ r.ball = s.ball /\ r.init = s.init
<1>1. CASE exceeded
  <2>1. PICK t : t = [s EXCEPT !.b = "limit"]
    OBVIOUS
  <2>2. t \in Registered /\ t.b = "limit" /\ t.cp = s.cp /\ t.ball = s.ball /\ t.init = s.init
    BY <2>1 DEF Registered, Choices
  <2>3. r = Backtrack(t)
    BY <1>1, <2>1 DEF IncrementCallCount
  <2>4. Around[t.b] = 60
    BY <2>2, ChoicePlaces DEF Choices
  <2>5. /\ Backtrack(t) \in Registered
        /\ Backtrack(t).p = Around[t.b] /\ ~Backtrack(t).fail
        /\ Backtrack(t).cp = t.cp /\ Backtrack(t).ball = t.ball /\ Backtrack(t).init = t.init
    BY <2>2, BacktrackFacts
  <2>6. r \in Registered /\ r.p = 60 /\ ~r.fail
    BY <2>3, <2>4, <2>5
  <2>7. r.cp = s.cp /\ r.ball = s.ball /\ r.init = s.init
    BY <2>2, <2>3, <2>5
  <2> QED BY <1>1, <2>6, <2>7
<1>2. CASE ~exceeded
  <2>1. r = [s EXCEPT !.count = @ + 1]
    BY <1>2 DEF IncrementCallCount
  <2>2. s.count \in Nat /\ s.count + 1 \in Nat
    BY DEF Registered
  <2>3. r \in Registered
    BY <2>1, <2>2 DEF Registered
  <2>4. r.p = s.p /\ r.fail = s.fail /\ r.cp = s.cp /\ r.ball = s.ball /\ r.init = s.init
    BY <2>1 DEF Registered
  <2> QED BY <1>2, <2>3, <2>4
<1> QED BY <1>1, <1>2

(* A binding diverts the machine if it is the first. *)
LEMMA BindingFacts ==
  ASSUME NEW s \in Registered, NEW r, r = PushAttrVarBinding(s)
  PROVE  /\ r \in Registered /\ r.fail = s.fail /\ r.b = s.b /\ r.ball = s.ball
         /\ s.init.bindings = 0 =>
              r.p = 0 /\ r.cp = 1 /\ r.init = [p |-> s.p, cp |-> s.cp, bindings |-> 1]
         /\ s.init.bindings # 0 => r.p = s.p /\ r.cp = s.cp
         /\ s.init.bindings # 0 =>
              r.init.p = s.init.p /\ r.init.cp = s.init.cp /\ r.init.bindings # 0
<1>1. CASE s.init.bindings = 0
  <2>1. r = [s EXCEPT !.init = [p |-> s.p, cp |-> s.cp, bindings |-> 1], !.p = 0, !.cp = 1]
    BY <1>1 DEF PushAttrVarBinding, InterruptLoc
  <2>2. PICK k : k = [p |-> s.p, cp |-> s.cp, bindings |-> 1]
    OBVIOUS
  <2>3. s.p \in Nat /\ s.cp \in Nat
    BY DEF Registered
  <2>4. k \in [p : Nat, cp : Nat, bindings : Nat]
    BY <2>2, <2>3
  <2>5. r = [s EXCEPT !.init = k, !.p = 0, !.cp = 1]
    BY <2>1, <2>2
  <2>6. r \in Registered
    <3>1. PICK t : t = [s EXCEPT !.init = k]
      OBVIOUS
    <3>2. t \in Registered
      BY <2>4, <3>1 DEF Registered
    <3>3. PICK u : u = [t EXCEPT !.p = 0]
      OBVIOUS
    <3>4. u \in Registered
      BY <3>2, <3>3 DEF Registered
    <3>5. r = [u EXCEPT !.cp = 1]
      BY <2>5, <3>1, <3>3
    <3> QED BY <3>4, <3>5 DEF Registered
  <2>7. /\ r.init = k /\ r.fail = s.fail /\ r.b = s.b /\ r.ball = s.ball
        /\ r.p = 0 /\ r.cp = 1
    BY <2>5 DEF Registered
  <2> QED BY <1>1, <2>2, <2>6, <2>7
<1>2. CASE s.init.bindings # 0
  <2>1. r = [s EXCEPT !.init.bindings = @ + 1]
    BY <1>2 DEF PushAttrVarBinding
  <2>2. PICK k : k = [s.init EXCEPT !.bindings = @ + 1]
    OBVIOUS
  <2>3. s.init \in [p : Nat, cp : Nat, bindings : Nat]
    BY DEF Registered
  <2>4. s.init.bindings \in Nat /\ s.init.bindings + 1 \in Nat /\ s.init.bindings + 1 # 0
    BY <2>3
  <2>5. /\ k \in [p : Nat, cp : Nat, bindings : Nat]
        /\ k.p = s.init.p /\ k.cp = s.init.cp /\ k.bindings # 0
    BY <2>2, <2>3, <2>4
  <2>6. r = [s EXCEPT !.init = k]
    BY <2>1, <2>2
  <2>7. r \in Registered
    BY <2>5, <2>6 DEF Registered
  <2>8. r.init = k /\ r.fail = s.fail /\ r.b = s.b /\ r.ball = s.ball /\ r.p = s.p /\ r.cp = s.cp
    BY <2>6 DEF Registered
  <2>9. r.init.p = s.init.p /\ r.init.cp = s.init.cp /\ r.init.bindings # 0
    BY <2>5, <2>8
  <2> QED BY <1>2, <2>7, <2>8, <2>9
<1> QED BY <1>1, <1>2

(* Going on. *)
LEMMA StepFacts ==
  ASSUME NEW s \in Registered, NEW form, NEW r, r = Step(s, form)
  PROVE  /\ r \in Registered
         /\ r.p = IF form = "call" THEN s.p + 1 ELSE s.cp
         /\ r.cp = s.cp /\ r.fail = s.fail /\ r.b = s.b /\ r.ball = s.ball /\ r.init = s.init
BY DEF Step, Registered

(* What a function leaves behind. *)
Remains(r, s, o, f) ==
  /\ r \in Registered
  /\ o \notin {"bind", "interrupted"} /\ ~(o = "ok" /\ "callee" \in f) => r.p = s.p
  /\ o = "ok" /\ "callee" \in f => r.p = 80
  /\ o = "interrupted" => r.p = 50 /\ ~r.fail /\ r.ball
  /\ o # "bind" => r.cp = s.cp /\ r.init = s.init
  /\ o = "bind" => r.p = 0 /\ r.cp = 1 /\ r.init = [p |-> s.p, cp |-> s.cp, bindings |-> 1]
  /\ o \in {"ok", "err", "bind"} => r.fail = s.fail
  /\ o \in {"fail", "resource"} => r.fail
  /\ o = "resource" => r.ball /\ r.b = "handler"
LEMMA RanFacts ==
  ASSUME NEW s \in Registered, s.init.bindings = 0, NEW f,
         NEW o \in {"ok", "err", "fail", "resource", "bind", "interrupted"},
         NEW r, r = Ran(s, o, f)
  PROVE  Remains(r, s, o, f)
<1>1. CASE o = "fail"
  <2>1. r = [s EXCEPT !.fail = TRUE]
    BY <1>1 DEF Ran
  <2> QED BY <1>1, <2>1 DEF Registered, Remains
<1>2. CASE o = "resource"
  <2>1. r = ThrowException(s)
    BY <1>2 DEF Ran
  <2> QED BY <1>2, <2>1, ThrowFacts DEF Remains
<1>3. CASE o = "interrupted"
  <2>1. PICK t : t = ThrowException(s)
    OBVIOUS
  <2>2. r = Backtrack(t)
    BY <1>3, <2>1 DEF Ran
  <2>3. t \in Registered /\ t.b = "handler" /\ t.ball /\ t.cp = s.cp /\ t.init = s.init
    BY <2>1, ThrowFacts
  <2>4. Around[t.b] = 50
    BY <2>3, ChoicePlaces
  <2> QED BY <1>3, <2>2, <2>3, <2>4, BacktrackFacts DEF Remains
<1>4. CASE o = "bind"
  <2>1. r = PushAttrVarBinding(s)
    BY <1>4 DEF Ran
  <2> QED BY <1>4, <2>1, BindingFacts DEF Remains
<1>5. CASE o = "ok" /\ "callee" \in f
  <2>1. PICK n : n = Around.callee
    OBVIOUS
  <2>2. n = 80
    BY <2>1, Places
  <2>3. r = [s EXCEPT !.p = n]
    BY <1>5, <2>1 DEF Ran
  <2> QED BY <1>5, <2>2, <2>3 DEF Registered, Remains
<1>6. CASE o = "err" \/ (o = "ok" /\ "callee" \notin f)
  <2>1. r = s
    BY <1>6 DEF Ran
  <2> QED BY <1>6, <2>1 DEF Remains
<1> QED BY <1>1, <1>2, <1>3, <1>4, <1>5, <1>6

(* What an arm makes of it: it backtracks, calls, steps, diverts the machine, *)
(* or, if it overlooks that http_accept has backtracked by itself, steps from *)
(* there.                                                                     *)
Continues(r, s, form) ==
  \/ r.p \in {40, 50, 60}
  \/ r.p \in {51, 80} /\ r.init = s.init
  \/ r.p = (IF form = "call" THEN s.p + 1 ELSE s.cp) /\ r.cp = s.cp /\ r.init = s.init
  \/ r.p = 1 /\ r.init = [p |-> s.p, cp |-> s.cp, bindings |-> 1]
Honours(r, o, exceeded) ==
  /\ ~r.fail
  /\ o = "fail" => r.p \in {40, 50, 60}
  /\ o \in {"err", "resource", "interrupted"} => r.p = 50 /\ r.ball
  /\ exceeded => r.p = 60

LEMMA SteppedFacts ==
  ASSUME NEW s \in Registered, s.init.bindings = 0, NEW form \in {"call", "execute"}, NEW f,
         "callee" \in f => "flag" \in f /\ "try" \in f,
         NEW o \in {"ok", "fail", "resource", "bind", "interrupted"},
         o = "bind" => "callee" \notin f,
         NEW r, r = Ran(s, o, f), ~(r.fail /\ "flag" \in f),
         NEW t, t = IF "callee" \in f THEN r ELSE Step(r, form)
  PROVE  t \in Registered /\ Continues(t, s, form) /\ t.fail = r.fail
<1>1. Remains(r, s, o, f)
  BY RanFacts
<1>2. CASE "callee" \in f
  <2>1. o \in {"ok", "interrupted"}
    BY <1>1, <1>2 DEF Remains
  <2>2. t = r
    BY <1>2
  <2> QED BY <1>1, <1>2, <2>1, <2>2 DEF Continues, Remains
<1>3. CASE "callee" \notin f
  <2>1. t = Step(r, form)
    BY <1>3
  <2>2. /\ t \in Registered /\ t.fail = r.fail /\ t.cp = r.cp /\ t.init = r.init
        /\ t.p = IF form = "call" THEN r.p + 1 ELSE r.cp
    BY <1>1, <2>1, StepFacts DEF Remains
  <2>3. CASE o = "bind"
    BY <1>1, <2>2, <2>3 DEF Continues, Remains
  <2>4. CASE o = "interrupted"
    BY <1>1, <2>2, <2>4 DEF Continues, Remains
  <2>5. CASE o \in {"ok", "fail", "resource"}
    BY <1>1, <1>3, <2>2, <2>5 DEF Continues, Remains
  <2> QED BY <2>2, <2>3, <2>4, <2>5
<1> QED BY <1>2, <1>3

LEMMA DispatchedFacts ==
  ASSUME NEW s \in Registered, s.init.bindings = 0, NEW arm \in AllArms,
         NEW form \in {"call", "execute"}, NEW o \in Outcomes(arm), NEW exceeded \in BOOLEAN,
         exceeded => "count" \in Features(arm, form) /\ o \in {"ok", "bind"},
         NEW d, d = Dispatched(s, arm, form, o, exceeded)
  PROVE  /\ d \in Registered /\ Continues(d, s, form)
         /\ ~s.fail /\ o \notin Leaks(arm, form) => Honours(d, o, exceeded)
<1>1. PICK f : f = Features(arm, form)
  OBVIOUS
<1>2. PICK r : r = Ran(s, o, f)
  OBVIOUS
<1>3. PICK t : t = IF "callee" \in f THEN r ELSE Step(r, form)
  OBVIOUS
<1>4. d = IF o = "err" THEN Backtrack(ThrowException(s))
          ELSE IF r.fail /\ ("flag" \in f \/ (o = "resource" /\ "try" \in f)) THEN Backtrack(r)
          ELSE IF "count" \in f THEN IncrementCallCount(t, exceeded)
          ELSE t
  BY <1>1, <1>2, <1>3 DEF Dispatched
<1>5. /\ o \in {"ok", "err", "fail", "resource", "bind", "interrupted"}
      /\ o \in {"fail", "resource"} => o \in Leaks(arm, form) \/ "flag" \in f
      /\ o = "interrupted" => o \in Leaks(arm, form)
      /\ "callee" \in f => "flag" \in f /\ "try" \in f
      /\ o = "bind" => "callee" \notin f
  BY <1>1, OutcomeFacts
<1>6. /\ r \in Registered
      /\ o \in {"ok", "err", "bind"} => r.fail = s.fail
      /\ o \in {"fail", "resource"} => r.fail
      /\ o = "resource" => r.ball /\ r.b = "handler"
  <2>1. o \in {"ok", "err", "fail", "resource", "bind", "interrupted"}
    BY <1>5
  <2>2. Remains(r, s, o, f)
    BY <1>2, <2>1, RanFacts
  <2> QED BY <2>2 DEF Remains
<1>7. CASE o = "err"
  <2>1. PICK e : e = ThrowException(s)
    OBVIOUS
  <2>2. e \in Registered /\ e.b = "handler" /\ e.ball
    BY <2>1, ThrowFacts
  <2>3. d = Backtrack(e) /\ Around[e.b] = 50
    BY <1>4, <1>7, <2>1, <2>2, ChoicePlaces
  <2>4. d \in Registered /\ d.p = 50 /\ ~d.fail /\ d.ball
    BY <2>2, <2>3, BacktrackFacts
  <2> QED BY <1>7, <2>4 DEF Continues, Honours
<1>8. CASE o # "err" /\ r.fail /\ ("flag" \in f \/ (o = "resource" /\ "try" \in f))
  <2>1. d = Backtrack(r)
    BY <1>4, <1>8
  <2>2. d \in Registered /\ d.p \in {40, 50, 60} /\ ~d.fail /\ d.ball = r.ball /\ d.p = Around[r.b]
    BY <1>6, <2>1, BacktrackFacts
  <2>3. o = "resource" => d.p = 50 /\ d.ball
    BY <1>6, <2>2, ChoicePlaces
  <2>4. ~s.fail => o \notin {"ok", "bind"}
    BY <1>6, <1>8
  <2>5. ~s.fail /\ o \notin Leaks(arm, form) => Honours(d, o, exceeded)
    BY <1>5, <1>8, <2>2, <2>3, <2>4 DEF Honours
  <2> QED BY <2>2, <2>5 DEF Continues, Remains
<1>9. CASE o # "err" /\ ~(r.fail /\ ("flag" \in f \/ (o = "resource" /\ "try" \in f)))
  <2>1. t \in Registered /\ Continues(t, s, form) /\ t.fail = r.fail
    BY <1>2, <1>3, <1>5, <1>9, SteppedFacts
  <2>2. d = IF "count" \in f THEN IncrementCallCount(t, exceeded) ELSE t
    BY <1>4, <1>9
  <2>3. /\ d \in Registered
        /\ exceeded => d.p = 60 /\ ~d.fail
        /\ ~exceeded => d.p = t.p /\ d.fail = t.fail
        /\ d.cp = t.cp /\ d.init = t.init
    BY <1>1, <2>1, <2>2, CountFacts
  <2>4. Continues(d, s, form)
    BY <2>1, <2>3 DEF Continues
  <2>5. ~s.fail /\ o \notin Leaks(arm, form) => Honours(d, o, exceeded)
    BY <1>5, <1>6, <1>9, <2>1, <2>3 DEF Honours
  <2> QED BY <2>3, <2>4, <2>5
<1> QED BY <1>7, <1>8, <1>9

-----------------------------------------------------------------------------
(* Where a step may lead. *)

(* Backtracking is always right: nothing is kept but what the choice point has. *)
LEMMA Backtracked ==
  ASSUME p' \in {40, 50, 60}, waking' => init'.bindings # 0
  PROVE  ControlInv' /\ IsChoice'
<1>1. IsChoice'
  BY DEF IsChoice, At, Around
<1>2. p' # InterruptLoc /\ ~(p' = Around["driver"]) /\ ~ClauseAt(p)'
  BY DEF Around, InterruptLoc, ClauseAt, Entry
<1> QED BY <1>1, <1>2 DEF ControlInv, Diverted, Pending, DriverInv, At

(* And so is any place outside the clause if no binding waits. *)
LEMMA Outside ==
  ASSUME p' \in {30, 51, 80}, ~waking', init'.bindings = 0
  PROVE  ControlInv'
<1>1. p' # InterruptLoc /\ ~(p' = Around["driver"]) /\ ~ClauseAt(p)'
  BY DEF Around, InterruptLoc, ClauseAt, Entry
<1> QED BY <1>1 DEF ControlInv, Diverted, Pending, DriverInv, At
LEMMA Inside ==
  ASSUME p' \in Nat, UNCHANGED program, ClauseAt(p'), cp' = 30, waking' <=> init'.bindings # 0
  PROVE  ControlInv'
<1>1. p' >= 100
  BY DEF ClauseAt, Entry
<1>2. p' # InterruptLoc /\ ~(p' = Around["driver"]) /\ ~IsChoice' /\ ClauseAt(p)'
  BY <1>1 DEF Around, InterruptLoc, ClauseAt, IsChoice, At
<1>3. Around["continuation"] = 30
  BY DEF Around
<1> QED BY <1>2, <1>3 DEF ControlInv, Diverted, Pending, DriverInv, At

(* Steps that leave the clause, go to its next instruction, or are diverted.     *)
Moves ==
  /\ p' # 70
  /\ p' # 1 => p' < 100 \/ (ClauseAt(p) /\ p' = p + 1)
  /\ p' = 1 => ClauseAt(p) /\ init'.p = p

LEMMA Assigned ==
  ASSUME DispatchTypeOK, NEW d \in Registered, Becomes(d),
         UNCHANGED <<program, waking, frames, intact, seen>>,
         last' \in [what : Whats, at : Nat], leaked' \in BOOLEAN
  PROVE  /\ DispatchTypeOK'
         /\ p' = d.p /\ cp' = d.cp /\ fail' = d.fail /\ ball' = d.ball /\ init' = d.init
BY DEF Becomes, Registered, DispatchTypeOK, Choices

(* A step of an instruction of the clause that was not interrupted yet. *)
LEMMA Continued ==
  ASSUME Inv, ~waking, ClauseAt(p), InstrAt(p).kind # "proceed",
         ~Leaves(InstrAt(p)) => ClauseAt(p + 1),
         NEW form, form = "call" => ClauseAt(p + 1),
         NEW d \in Registered, Becomes(d), Continues(d, State, form),
         UNCHANGED <<program, waking, frames, intact, seen>>
  PROVE  ControlInv' /\ Moves
<1>1. p \in Nat /\ cp = 30 /\ p >= 100 /\ init.bindings = 0
  <2>1. p \in Nat /\ p >= 100
    BY Places DEF Inv, DispatchTypeOK
  <2> QED BY <2>1, Places, ChoicePlaces DEF Inv, ControlInv, Pending
<1>2. State.p = p /\ State.cp = 30 /\ State.init = init
  BY <1>1, StateFacts DEF Inv
<1>3. p' = d.p /\ cp' = d.cp /\ init' = d.init /\ ~waking'
  BY DEF Becomes
<1>4. CASE d.p \in {40, 50, 60}
  BY <1>3, <1>4, Backtracked DEF Moves
<1>5. CASE d.p \in {51, 80} /\ d.init = init
  BY <1>1, <1>3, <1>5, Outside DEF Moves
<1>6. CASE d.p = (IF form = "call" THEN p + 1 ELSE 30) /\ d.cp = 30 /\ d.init = init
  <2>1. CASE form = "call"
    <3>1. p' = p + 1 /\ p' \in Nat /\ ClauseAt(p')
      BY <1>1, <1>3, <1>6, <2>1
    <3> QED BY <1>1, <1>3, <1>6, <3>1, Inside DEF Moves
  <2>2. CASE form # "call"
    BY <1>1, <1>3, <1>6, <2>2, Outside DEF Moves
  <2> QED BY <2>1, <2>2
<1>7. CASE d.p = 1 /\ d.init = [p |-> p, cp |-> 30, bindings |-> 1]
  <2>1. init'.p = p /\ init'.cp = 30 /\ init'.bindings = 1
    BY <1>3, <1>7
  <2>2. p' = InterruptLoc /\ ~(p' = Around["driver"]) /\ ~ClauseAt(p)'
    BY <1>3, <1>7 DEF Around, InterruptLoc, ClauseAt, Entry
  <2>3. ClauseAt(init.p)' /\ InstrAt(init.p)' = InstrAt(p) /\ (ClauseAt(init.p + 1)' <=> ClauseAt(p + 1))
    BY <2>1 DEF ClauseAt, InstrAt
  <2>4. Diverted'
    BY <1>3, <2>1, <2>3, Places DEF Diverted
  <2>5. Moves
    BY <1>3, <1>7, <2>1 DEF Moves
  <2> QED BY <1>3, <2>2, <2>4, <2>5 DEF ControlInv, Pending, DriverInv, At
<1> QED BY <1>2, <1>4, <1>5, <1>6, <1>7 DEF Continues


-----------------------------------------------------------------------------
(* The actions. *)
LEMMA ArmInv ==
  ASSUME Inv, RunArm
  PROVE  Inv' /\ Moves /\ (FailureHonoured => FailureHonoured')
<1>1. InClause /\ Instr.kind = "arm" /\ ~waking /\ UNCHANGED <<program, waking, frames, intact, seen>>
  BY DEF RunArm
<1>2. PICK o \in Outcomes(Instr.arm), exceeded \in BOOLEAN :
        /\ exceeded => "count" \in Features(Instr.arm, Instr.form) /\ o \in {"ok", "bind"}
        /\ Becomes(Dispatched(State, Instr.arm, Instr.form, o, exceeded))
        /\ last' = [what |-> IF exceeded THEN "limit" ELSE o, at |-> p]
        /\ leaked' = (leaked \/ o \in Leaks(Instr.arm, Instr.form))
  BY DEF RunArm
<1>3. /\ p \in Nat /\ ClauseAt(p) /\ Instr = InstrAt(p) /\ Instr \in Instructions
      /\ ~Leaves(InstrAt(p)) => ClauseAt(p + 1)
  <2>1. p \in Nat /\ ClauseAt(p) /\ Instr = InstrAt(p)
    BY <1>1 DEF Inv, DispatchTypeOK, InClause, ClauseAt, Instr, InstrAt
  <2> QED BY <2>1, ProgramFacts DEF Inv
<1>4. /\ Instr.arm \in AllArms /\ Instr.form \in {"call", "execute"} /\ InstrAt(p).kind # "proceed"
      /\ Instr.form = "call" => ~Leaves(InstrAt(p))
  BY <1>1, <1>3 DEF Instructions, Leaves
<1>5. PICK d : d = Dispatched(State, Instr.arm, Instr.form, o, exceeded)
  OBVIOUS
<1>6. State \in Registered /\ State.init.bindings = 0 /\ State.fail = fail
  <2>1. init.bindings = 0
    BY <1>1, <1>3, Places, ChoicePlaces DEF Inv, ControlInv, Pending
  <2> QED BY <2>1, StateFacts DEF Inv
<1>7. /\ d \in Registered /\ Continues(d, State, Instr.form)
      /\ ~State.fail /\ o \notin Leaks(Instr.arm, Instr.form) => Honours(d, o, exceeded)
  BY <1>2, <1>4, <1>5, <1>6, DispatchedFacts
<1>8. o \in {"ok", "err", "fail", "resource", "bind", "interrupted"}
  BY <1>4, OutcomeFacts
<1>9. Becomes(d)
  BY <1>2, <1>5
<1>10. /\ DispatchTypeOK'
       /\ p' = d.p /\ fail' = d.fail /\ ball' = d.ball
  <2>1. leaked' \in BOOLEAN
    BY <1>2 DEF Inv, DispatchTypeOK
  <2>2. last' \in [what : Whats, at : Nat]
    BY <1>2, <1>3, <1>8 DEF Whats
  <2> QED BY <1>1, <1>7, <1>9, <2>1, <2>2, Assigned DEF Inv
<1>11. ControlInv' /\ Moves
  BY <1>1, <1>3, <1>4, <1>7, <1>9, Continued
<1>12. ASSUME FailureHonoured, ~leaked' PROVE FailureHonoured'
  <2>1. ~leaked /\ o \notin Leaks(Instr.arm, Instr.form)
    BY <1>2, <1>12
  <2>2. Honours(d, o, exceeded)
    BY <1>6, <1>7, <1>12, <2>1 DEF FailureHonoured
  <2>3. last'.what = IF exceeded THEN "limit" ELSE o
    BY <1>2
  <2>4. (At("handler")' <=> p' = 50) /\ (At("limit")' <=> p' = 60) /\ (IsChoice' <=> p' \in {40, 50, 60})
    BY DEF At, IsChoice, Around
  <2> QED BY <1>2, <1>8, <1>10, <2>2, <2>3, <2>4 DEF Honours, FailureHonoured
<1> QED BY <1>10, <1>11, <1>12 DEF Inv, FailureHonoured

LEMMA SimpleInv ==
  ASSUME Inv, RunSimple
  PROVE  Inv' /\ Moves /\ (FailureHonoured => FailureHonoured')
<1>1. InClause /\ Instr.kind = "get" /\ UNCHANGED <<program, leaked, waking, frames, intact, seen>>
  BY DEF RunSimple, IsSimple
<1>2. PICK o \in {"ok", "fail", "bind"} :
        /\ Becomes(StepOrFail(Ran(State, o, {}), "call"))
        /\ last' = [what |-> o, at |-> p]
  BY DEF RunSimple
<1>3. /\ p \in Nat /\ ClauseAt(p) /\ p >= 100 /\ InstrAt(p).kind = "get"
      /\ ClauseAt(p + 1) /\ ~Leaves(InstrAt(p))
  <2>1. p \in Nat /\ ClauseAt(p) /\ Instr = InstrAt(p)
    BY <1>1 DEF Inv, DispatchTypeOK, InClause, ClauseAt, Instr, InstrAt
  <2>2. ~Leaves(InstrAt(p))
    BY <1>1, <2>1 DEF Leaves
  <2> QED BY <1>1, <2>1, <2>2, ProgramFacts, Places DEF Inv
<1>4. PICK r : r = Ran(State, o, {})
  OBVIOUS
<1>5. PICK d : d = IF r.fail THEN Backtrack(r) ELSE Step(r, "call")
  OBVIOUS
<1>6. Becomes(d)
  BY <1>2, <1>4, <1>5 DEF StepOrFail
<1>7. /\ State \in Registered /\ State.p = p /\ State.cp = cp /\ State.init = init
      /\ State.fail = fail
  BY StateFacts DEF Inv
<1>8. cp = 30 /\ init \in [p : Nat, cp : Nat, bindings : Nat] /\ waking \in BOOLEAN
      /\ (waking <=> init.bindings # 0)
  BY <1>3, Places, ChoicePlaces DEF Inv, DispatchTypeOK, ControlInv, Pending
(* What the unification did. *)
<1>9. /\ r \in Registered /\ (o = "fail" => r.fail) /\ (o # "fail" => r.fail = fail)
      /\ o # "bind" => r.p = p /\ r.cp = cp /\ r.init = init
      /\ o = "bind" /\ init.bindings = 0 =>
           r.p = 0 /\ r.init = [p |-> p, cp |-> cp, bindings |-> 1]
      /\ o = "bind" /\ init.bindings # 0 => r.p = p /\ r.cp = cp /\ r.init.bindings # 0
  <2>1. CASE o = "fail"
    <3>1. r = [State EXCEPT !.fail = TRUE]
      BY <1>4, <2>1 DEF Ran
    <3> QED BY <1>7, <2>1, <3>1 DEF Registered
  <2>2. CASE o = "ok"
    <3>1. r = State
      BY <1>4, <2>2 DEF Ran
    <3> QED BY <1>7, <2>2, <3>1
  <2>3. CASE o = "bind"
    <3>1. r = PushAttrVarBinding(State)
      BY <1>4, <2>3 DEF Ran
    <3> QED BY <1>7, <2>3, <3>1, BindingFacts
  <2> QED BY <2>1, <2>2, <2>3
<1>10. CASE r.fail
  <2>1. d \in Registered /\ d.p \in {40, 50, 60} /\ ~d.fail /\ d.init = r.init
    BY <1>5, <1>9, <1>10, BacktrackFacts
  <2>2. DispatchTypeOK' /\ p' = d.p /\ fail' = d.fail /\ init' = d.init
    <3>1. last' \in [what : Whats, at : Nat] /\ leaked' \in BOOLEAN
      BY <1>1, <1>2, <1>3 DEF Whats, Inv, DispatchTypeOK
    <3> QED BY <1>1, <1>6, <2>1, <3>1, Assigned DEF Inv
  <2>3. waking' => init'.bindings # 0
    BY <1>1, <1>8, <1>9, <2>1, <2>2
  <2>4. ControlInv' /\ IsChoice'
    BY <2>1, <2>2, <2>3, Backtracked
  <2>5. Moves
    BY <2>1, <2>2 DEF Moves
  <2> QED BY <1>1, <1>2, <2>1, <2>2, <2>4, <2>5 DEF Inv, FailureHonoured
<1>11. CASE ~r.fail
  <2>1. d = Step(r, "call")
    BY <1>5, <1>11
  <2>2. d \in Registered /\ d.p = r.p + 1 /\ d.cp = r.cp /\ d.init = r.init /\ d.fail = r.fail
    BY <1>9, <2>1, StepFacts
  <2>3. DispatchTypeOK' /\ p' = d.p /\ cp' = d.cp /\ fail' = d.fail /\ init' = d.init
    <3>1. last' \in [what : Whats, at : Nat] /\ leaked' \in BOOLEAN
      BY <1>1, <1>2, <1>3 DEF Whats, Inv, DispatchTypeOK
    <3> QED BY <1>1, <1>6, <2>2, <3>1, Assigned DEF Inv
  <2>4. ControlInv' /\ Moves
    <3>1. CASE waking
      <4>1. p' = p + 1 /\ p' \in Nat /\ cp' = 30 /\ init'.bindings # 0 /\ waking' /\ UNCHANGED program
        BY <1>1, <1>3, <1>8, <1>9, <1>11, <2>2, <2>3, <3>1
      <4> QED BY <1>3, <4>1, Inside DEF Moves
    <3>2. CASE ~waking
      <4>1. Continues(d, State, "call")
        BY <1>7, <1>8, <1>9, <1>11, <2>2, <3>2 DEF Continues
      <4> QED BY <1>1, <1>3, <1>6, <2>2, <3>2, <4>1, Continued
    <3> QED BY <1>8, <3>1, <3>2
  <2>5. ~fail' /\ o # "fail"
    BY <1>9, <1>11, <2>2, <2>3
  <2> QED BY <1>1, <1>2, <2>3, <2>4, <2>5 DEF Inv, FailureHonoured
<1> QED BY <1>10, <1>11

LEMMA RunVerifyAttrInv ==
  ASSUME Inv, RunVerifyAttr
  PROVE  Inv' /\ (FailureHonoured => FailureHonoured')
<1>1. /\ p = InterruptLoc /\ waking' = TRUE /\ last' = [what |-> "none", at |-> p]
      /\ UNCHANGED <<program, leaked, fail, b, ball, count, init, frames, intact, seen>>
  BY DEF RunVerifyAttr
<1>2. /\ ClauseAt(init.p) /\ InstrAt(init.p).kind # "proceed" /\ init.cp = 30 /\ init.bindings # 0
      /\ ~ Leaves(InstrAt(init.p)) => ClauseAt(init.p + 1)
      /\ init \in [p : Nat, cp : Nat, bindings : Nat]
  BY <1>1, Places DEF Inv, DispatchTypeOK, ControlInv, Diverted
<1>3. \/ p' = 30 /\ UNCHANGED cp
      \/ p' = init.p + 1 /\ ClauseAt(p') /\ cp' = 30
  <2>1. PICK from : from = InstrAt(init.p)
    OBVIOUS
  <2>2. IF from.kind = "arm" /\ from.form = "execute"
        THEN p' = init.cp /\ UNCHANGED cp
        ELSE p' = init.p + 1 /\ cp' = init.cp
    BY <2>1 DEF RunVerifyAttr, InstrAt
  <2>3. CASE from.kind = "arm" /\ from.form = "execute"
    BY <1>2, <2>2, <2>3
  <2>4. CASE ~(from.kind = "arm" /\ from.form = "execute")
    BY <1>2, <2>1, <2>2, <2>4 DEF Leaves
  <2> QED BY <2>3, <2>4
<1>4. DispatchTypeOK'
  <2>1. p' \in Nat /\ cp' \in Nat
    BY <1>2, <1>3 DEF Inv, DispatchTypeOK
  <2>2. last' \in [what : Whats, at : Nat]
    BY <1>1 DEF Whats, Inv, DispatchTypeOK
  <2> QED BY <1>1, <2>1, <2>2 DEF Inv, DispatchTypeOK
<1>5. ControlInv'
  <2>1. CASE p' = 30
    <3>1. p' # InterruptLoc /\ ~(p' = Around["driver"]) /\ ~ClauseAt(p)' /\ At("continuation")'
      BY <2>1 DEF Around, InterruptLoc, ClauseAt, Entry, At
    <3> QED BY <1>1, <1>2, <3>1 DEF ControlInv, Diverted, Pending, DriverInv, At
  <2>2. CASE p' = init.p + 1 /\ ClauseAt(p') /\ cp' = 30
    BY <1>1, <1>2, <2>2, Inside
  <2> QED BY <1>3, <2>1, <2>2
<1> QED BY <1>1, <1>4, <1>5 DEF Inv, FailureHonoured

LEMMA WakeFailsInv ==
  ASSUME Inv, WakeFails
  PROVE  Inv' /\ (FailureHonoured => FailureHonoured')
<1>1. /\ IsChoice /\ waking' = FALSE /\ last' = [what |-> "none", at |-> p]
      /\ UNCHANGED <<program, leaked, p, cp, fail, b, ball, count, init, frames, intact, seen>>
  BY DEF WakeFails, control
<1>2. DispatchTypeOK'
  <2>1. last' \in [what : Whats, at : Nat]
    BY <1>1 DEF Whats, Inv, DispatchTypeOK
  <2> QED BY <1>1, <2>1 DEF Inv, DispatchTypeOK
<1>3. ControlInv'
  BY <1>1, ChoicePlaces, Backtracked
<1> QED BY <1>1, <1>2, <1>3 DEF Inv, FailureHonoured

(* Where the machine is when it stops looking. *)
LEMMA InterruptFacts ==
  ASSUME Inv, VerifyAttrInterrupt
  PROVE  /\ frames' = Append(frames, [p |-> p, saved |-> Saved(Arity) \cap intact])
         /\ frames' # <<>> /\ Resumption' = [p |-> p, saved |-> Saved(Arity) \cap intact]
         /\ frames' \in Seq([p : Nat, saved : SUBSET (1..Registers)])
         /\ \/ p = 30
            \/ ClauseAt(p) /\ InstrAt(p).kind # "get" /\ cp = 30
<1>1. PICK t : t = [p |-> p, saved |-> Saved(Arity) \cap intact]
  OBVIOUS
<1>2. frames' = Append(frames, t)
  BY <1>1 DEF VerifyAttrInterrupt
<1>3. t \in [p : Nat, saved : SUBSET (1..Registers)]
  BY <1>1 DEF Inv, DispatchTypeOK
<1>4. frames \in Seq([p : Nat, saved : SUBSET (1..Registers)])
  BY DEF Inv, DispatchTypeOK
<1>5. /\ frames' \in Seq([p : Nat, saved : SUBSET (1..Registers)])
      /\ frames' # <<>> /\ frames'[Len(frames')] = t
  BY <1>2, <1>3, <1>4, AppendProperties
<1>6. waking /\ ~IsSimple /\ ~IsChoice
  BY DEF VerifyAttrInterrupt
<1>7. ClauseAt(p) \/ p = 30
  BY <1>6, Places DEF Inv, ControlInv, Pending, At
<1>8. ClauseAt(p) => InstrAt(p).kind # "get" /\ cp = 30
  BY <1>6, Places DEF Inv, ControlInv, IsSimple, InClause, ClauseAt, Instr, InstrAt
<1> QED BY <1>1, <1>2, <1>5, <1>7, <1>8 DEF Resumption

LEMMA VerifyAttrInterruptInv ==
  ASSUME Inv, VerifyAttrInterrupt
  PROVE  Inv' /\ (FailureHonoured => FailureHonoured')
<1>1. /\ init' = [init EXCEPT !.cp = p, !.bindings = 0] /\ seen' = seen + init.bindings
      /\ waking' = FALSE /\ intact' = {} /\ p' = 70 /\ last' = [what |-> "none", at |-> p]
      /\ UNCHANGED <<program, leaked, cp, fail, b, ball, count>>
  BY Places DEF VerifyAttrInterrupt
<1>2. init' \in [p : Nat, cp : Nat, bindings : Nat] /\ init'.bindings = 0 /\ seen' \in Nat
  <2>1. p \in Nat /\ init \in [p : Nat, cp : Nat, bindings : Nat] /\ seen \in Nat
    BY DEF Inv, DispatchTypeOK
  <2>2. PICK k : k = [init EXCEPT !.cp = p]
    OBVIOUS
  <2>3. k \in [p : Nat, cp : Nat, bindings : Nat]
    BY <2>1, <2>2
  <2>4. init' = [k EXCEPT !.bindings = 0]
    BY <1>1, <2>2
  <2>5. init' \in [p : Nat, cp : Nat, bindings : Nat] /\ init'.bindings = 0
    BY <2>3, <2>4
  <2>6. seen' \in Nat
    BY <1>1, <2>1
  <2> QED BY <2>5, <2>6
<1>3. DispatchTypeOK'
  <2>1. last' \in [what : Whats, at : Nat]
    BY <1>1 DEF Whats, Inv, DispatchTypeOK
  <2> QED BY <1>1, <1>2, <2>1, InterruptFacts DEF Inv, DispatchTypeOK
<1>4. ControlInv'
  <2>1. p' # InterruptLoc /\ ~ClauseAt(p)'
    BY <1>1 DEF InterruptLoc, ClauseAt, Entry
  <2>2. DriverInv'
    <3>1. Resumption'.p = p /\ frames' # <<>>
      BY InterruptFacts
    <3>2. ClauseAt(p) /\ InstrAt(p).kind # "get" =>
            ClauseAt(Resumption.p)' /\ InstrAt(Resumption.p)'.kind # "get"
      BY <1>1, <3>1 DEF ClauseAt, InstrAt
    <3> QED BY <1>1, <3>1, <3>2, InterruptFacts, Places DEF DriverInv
  <2> QED BY <1>1, <1>2, <2>1, <2>2 DEF ControlInv, Diverted, Pending
<1> QED BY <1>1, <1>3, <1>4 DEF Inv, FailureHonoured

LEMMA ReturnInv ==
  ASSUME Inv, ReturnFromVerifyAttr
  PROVE  Inv' /\ (FailureHonoured => FailureHonoured')
<1>1. /\ p = 70 /\ p' = Resumption.p /\ intact' = Resumption.saved
      /\ frames' = SubSeq(frames, 1, Len(frames) - 1) /\ last' = [what |-> "woken", at |-> p]
      /\ UNCHANGED <<program, leaked, cp, fail, b, ball, count, init, waking, seen>>
  BY Places DEF ReturnFromVerifyAttr, At, Resumption
<1>2. frames # <<>> /\ (p' = 30 \/ (ClauseAt(p') /\ cp = 30))
  BY <1>1, Places DEF Inv, ControlInv, DriverInv, At
<1>3. /\ p' \in Nat /\ intact' \subseteq 1..Registers
      /\ frames' \in Seq([p : Nat, saved : SUBSET (1..Registers)])
  <2>1. frames \in Seq([p : Nat, saved : SUBSET (1..Registers)])
    BY DEF Inv, DispatchTypeOK
  <2>2. Len(frames) \in Nat /\ Len(frames) # 0
    BY <1>2, <2>1, EmptySeq, LenProperties
  <2> DEFINE S == [p : Nat, saved : SUBSET (1..Registers)]
  <2>3. \A i \in 1..Len(frames) : frames[i] \in S
    BY <2>1, ElementOfSeq
  <2> HIDE DEF S
  <2>4. PICK n : n = Len(frames)
    OBVIOUS
  <2>5. n \in Nat /\ n # 0 /\ n \in 1..Len(frames) /\ n - 1 \in Int /\ 1..n - 1 \subseteq 1..Len(frames)
    BY <2>2, <2>4
  <2>6. Resumption \in S
    BY <2>3, <2>4, <2>5 DEF Resumption
  <2>7. frames' \in Seq(S)
    BY <1>1, <2>3, <2>4, <2>5, SubSeqProperties
  <2> QED BY <1>1, <2>6, <2>7 DEF S
<1>4. DispatchTypeOK'
  <2>1. last' \in [what : Whats, at : Nat]
    BY <1>1 DEF Whats
  <2> QED BY <1>1, <1>3, <2>1 DEF Inv, DispatchTypeOK
<1>5. waking = FALSE /\ init.bindings = 0
  <2>1. ~ClauseAt(p) /\ ~At("continuation") /\ ~IsChoice /\ p # InterruptLoc
    BY <1>1, Places, ChoicePlaces DEF At
  <2> QED BY <2>1 DEF Inv, DispatchTypeOK, ControlInv, Pending
<1>6. ControlInv'
  <2>1. CASE p' = 30
    BY <1>1, <1>5, <2>1, Outside
  <2>2. CASE ClauseAt(p') /\ cp = 30
    BY <1>1, <1>3, <1>5, <2>2, Inside
  <2> QED BY <1>2, <2>1, <2>2
<1> QED BY <1>1, <1>4, <1>6 DEF Inv, FailureHonoured

(* An exception, and a failure of the driver, end at a choice point. *)
LEMMA GivenUp ==
  ASSUME Inv, NEW o \in {"fail", "err"},
         Becomes(Backtrack(IF o = "err" THEN ThrowException(State) ELSE State)),
         last' = [what |-> o, at |-> p],
         UNCHANGED <<program, leaked, waking, frames, intact, seen>>
  PROVE  Inv' /\ Moves /\ (FailureHonoured => FailureHonoured')
<1>1. State \in Registered /\ State.init = init /\ State.ball = ball
  BY StateFacts DEF Inv
<1>2. PICK t : t = IF o = "err" THEN ThrowException(State) ELSE State
  OBVIOUS
<1>3. t \in Registered /\ t.init = init /\ (o = "err" => t.b = "handler" /\ t.ball)
  BY <1>1, <1>2, ThrowFacts
<1>4. PICK d : d = Backtrack(t)
  OBVIOUS
<1>5. /\ d \in Registered /\ d.p \in {40, 50, 60} /\ d.init = init /\ ~d.fail
      /\ o = "err" => d.p = 50 /\ d.ball
  BY <1>3, <1>4, BacktrackFacts, ChoicePlaces
<1>6. Becomes(d)
  BY <1>2, <1>4
<1>7. DispatchTypeOK' /\ p' = d.p /\ fail' = d.fail /\ ball' = d.ball /\ init' = d.init
  <2>1. last' \in [what : Whats, at : Nat] /\ leaked' \in BOOLEAN
    BY DEF Whats, Inv, DispatchTypeOK
  <2> QED BY <1>5, <1>6, <2>1, Assigned DEF Inv
<1>8. ControlInv' /\ IsChoice'
  BY <1>5, <1>7, Backtracked DEF Inv, ControlInv, Pending
<1>9. At("handler")' <=> p' = 50
  BY DEF At, Around
<1>10. Moves
  BY <1>5, <1>7 DEF Moves
<1> QED BY <1>5, <1>7, <1>8, <1>9, <1>10 DEF Inv, FailureHonoured

LEMMA DriverFailsInv ==
  ASSUME Inv, DriverFails
  PROVE  Inv' /\ Moves /\ (FailureHonoured => FailureHonoured')
<1>1. PICK o \in {"fail", "err"} :
        /\ Becomes(Backtrack(IF o = "err" THEN ThrowException(State) ELSE State))
        /\ last' = [what |-> o, at |-> p]
  BY DEF DriverFails
<1>2. UNCHANGED <<program, leaked, waking, frames, intact, seen>>
  BY DEF DriverFails
<1> QED BY <1>1, <1>2, GivenUp

LEMMA CheckForInterruptInv ==
  ASSUME Inv, CheckForInterrupt
  PROVE  Inv' /\ Moves /\ (FailureHonoured => FailureHonoured')
<1>1. PICK o : o = "err"
  OBVIOUS
<1>2. /\ Becomes(Backtrack(IF o = "err" THEN ThrowException(State) ELSE State))
      /\ last' = [what |-> o, at |-> p]
      /\ UNCHANGED <<program, leaked, waking, frames, intact, seen>>
  BY <1>1 DEF CheckForInterrupt
<1> QED BY <1>1, <1>2, GivenUp

LEMMA RetryInv ==
  ASSUME Inv, Retry
  PROVE  Inv' /\ (FailureHonoured => FailureHonoured')
<1>1. /\ IsChoice /\ ~waking /\ cp' = 30 /\ init' = [init EXCEPT !.bindings = 0]
      /\ intact' = 1..Registers /\ frames' = <<>> /\ last' = [what |-> "retried", at |-> p]
      /\ UNCHANGED <<program, leaked, p, fail, b, ball, count, waking, seen>>
  BY Places DEF Retry
<1>2. init' \in [p : Nat, cp : Nat, bindings : Nat]
  BY <1>1 DEF Inv, DispatchTypeOK
<1>3. DispatchTypeOK'
  <2>1. last' \in [what : Whats, at : Nat]
    BY <1>1 DEF Whats, Inv, DispatchTypeOK
  <2>2. frames' \in Seq([p : Nat, saved : SUBSET (1..Registers)])
    BY <1>1
  <2> QED BY <1>1, <1>2, <2>1, <2>2 DEF Inv, DispatchTypeOK
<1>4. ControlInv'
  BY <1>1, ChoicePlaces, Backtracked
<1> QED BY <1>1, <1>3, <1>4 DEF Inv, FailureHonoured

LEMMA ProceedInv ==
  ASSUME Inv, Proceed
  PROVE  Inv' /\ Moves /\ (FailureHonoured => FailureHonoured')
<1>1. /\ InClause /\ ~waking /\ p' = cp /\ last' = [what |-> "ok", at |-> p]
      /\ UNCHANGED <<program, leaked, cp, fail, b, ball, count, init, waking, frames, intact, seen>>
  BY DEF Proceed, attrs
<1>2. p \in Nat /\ ClauseAt(p)
  BY <1>1 DEF Inv, DispatchTypeOK, InClause, ClauseAt
<1>3. cp = 30 /\ init.bindings = 0
  BY <1>1, <1>2, Places, ChoicePlaces DEF Inv, ControlInv, Pending
<1>4. DispatchTypeOK'
  <2>1. last' \in [what : Whats, at : Nat]
    BY <1>1, <1>2 DEF Whats
  <2> QED BY <1>1, <1>3, <2>1 DEF Inv, DispatchTypeOK
<1>5. ControlInv'
  BY <1>1, <1>3, Outside
<1>6. Moves
  BY <1>1, <1>3 DEF Moves
<1> QED BY <1>1, <1>4, <1>5, <1>6 DEF Inv, FailureHonoured


-----------------------------------------------------------------------------
(* The theorems. *)
LEMMA InitInv == Init => Inv /\ FailureHonoured
<1> SUFFICES ASSUME Init PROVE Inv /\ FailureHonoured
  OBVIOUS
<1>1. /\ p = 100 /\ cp = 30 /\ waking = FALSE /\ init.bindings = 0 /\ frames = <<>>
      /\ last.what = "none" /\ fail = FALSE
  BY Places DEF Init, Entry
<1>2. DispatchTypeOK
  <2>1. frames \in Seq([p : Nat, saved : SUBSET (1..Registers)])
    BY <1>1
  <2>2. last \in [what : Whats, at : Nat] /\ init \in [p : Nat, cp : Nat, bindings : Nat]
    BY DEF Init, Whats
  <2>3. /\ program \in Programs /\ intact = 1..Registers /\ seen = 0 /\ count = 0
        /\ b = "alternative" /\ ball = FALSE /\ leaked = FALSE
    BY DEF Init
  <2> QED BY <1>1, <2>1, <2>2, <2>3 DEF DispatchTypeOK
<1>3. p # InterruptLoc /\ ~At("driver")
  BY <1>1 DEF InterruptLoc, At, Around
<1> QED BY <1>1, <1>2, <1>3, Places DEF Inv, ControlInv, Diverted, Pending, DriverInv, FailureHonoured

LEMMA StutterInv ==
  ASSUME Inv, UNCHANGED vars
  PROVE  Inv' /\ (FailureHonoured => FailureHonoured')
BY DEF vars, Inv, DispatchTypeOK, ControlInv, Diverted, Pending, DriverInv, ClauseAt, InstrAt,
       Resumption, At, IsChoice, FailureHonoured

LEMMA StepInv == Inv /\ [Next]_vars => Inv' /\ (FailureHonoured => FailureHonoured')
<1> SUFFICES ASSUME Inv, [Next]_vars PROVE Inv' /\ (FailureHonoured => FailureHonoured')
  OBVIOUS
<1>1. CASE RunArm
  BY <1>1, ArmInv
<1>2. CASE RunSimple
  BY <1>2, SimpleInv
<1>3. CASE RunVerifyAttr
  BY <1>3, RunVerifyAttrInv
<1>4. CASE WakeFails
  BY <1>4, WakeFailsInv
<1>5. CASE VerifyAttrInterrupt
  BY <1>5, VerifyAttrInterruptInv
<1>6. CASE ReturnFromVerifyAttr
  BY <1>6, ReturnInv
<1>7. CASE DriverFails
  BY <1>7, DriverFailsInv
<1>8. CASE CheckForInterrupt
  BY <1>8, CheckForInterruptInv
<1>9. CASE Retry
  BY <1>9, RetryInv
<1>10. CASE Proceed
  BY <1>10, ProceedInv
<1>11. CASE UNCHANGED vars
  BY <1>11, StutterInv
<1> QED BY <1>1, <1>2, <1>3, <1>4, <1>5, <1>6, <1>7, <1>8, <1>9, <1>10, <1>11 DEF Next

(* Every step keeps the machine's registers, the interrupted clause and the      *)
(* return from verification consistent.                                          *)
THEOREM ControlConsistent == Spec => []Inv
<1>1. Init => Inv
  BY InitInv
<1>2. Inv /\ [Next]_vars => Inv'
  BY StepInv
<1> QED BY <1>1, <1>2, PTL DEF Spec

(* dispatch.rs: the arm of a built-in backtracks when the function has failed,   *)
(* thrown or exceeded the limit, or it is one of those known not to.             *)
THEOREM FailuresHonoured == Spec => []FailureHonoured
<1>1. Init => FailureHonoured
  BY InitInv
<1>2. Inv /\ FailureHonoured /\ [Next]_vars => FailureHonoured'
  BY StepInv
<1> QED BY <1>1, <1>2, ControlConsistent, PTL DEF Spec

(* attributed_variables.rs: bindings are handed to verify_attributes/3 before    *)
(* control leaves the clause or reaches another instruction that reads registers.*)
THEOREM WokenBeforeCalls == Spec => []WokenInTime
<1>1. Inv => WokenInTime
  <2> SUFFICES ASSUME Inv PROVE WokenInTime
    OBVIOUS
  <2>1. p \in Nat /\ (InClause => ClauseAt(p))
    BY DEF Inv, DispatchTypeOK, InClause, ClauseAt
  <2>2. p = 30 \/ p = 80 \/ p >= 100 => p # InterruptLoc /\ ~IsChoice
    BY <2>1, ChoicePlaces DEF InterruptLoc
  <2> QED BY <2>1, <2>2, Places DEF Inv, ControlInv, Pending, WokenInTime, At
<1> QED BY <1>1, ControlConsistent, PTL


-----------------------------------------------------------------------------
(* The registers. *)

(* Later instructions need no more than earlier ones, and the program stays. *)
LEMMA NeededFacts ==
  ASSUME UNCHANGED program
  PROVE  /\ \A q : Needed(q)' = Needed(q) /\ (ClauseAt(q)' <=> ClauseAt(q)) /\ InstrAt(q)' = InstrAt(q)
         /\ \A q \in Nat : Needed(q + 1) \subseteq Needed(q)
         /\ \A q : Needed(q) \subseteq 1..Registers
BY DEF Needed, ClauseAt, InstrAt, Entry

(* Steps of the clause leave the registers alone. *)
LEMMA RegistersKept ==
  ASSUME Inv, Inv', SavingInv, UNCHANGED <<program, intact>>, last'.what # "woken", Moves
  PROVE  SavingInv'
<1>1. p \in Nat /\ (p' # 1 /\ ClauseAt(p') => ClauseAt(p) /\ p' = p + 1)
  BY DEF Moves, Inv, DispatchTypeOK, ClauseAt, Entry
<1>2. ClauseAt(p) => Needed(p + 1) \subseteq intact
  <2>1. Needed(p + 1) \subseteq Needed(p)
    BY <1>1, NeededFacts
  <2>2. ClauseAt(p) => Needed(p) \subseteq intact
    BY DEF SavingInv, RegistersInv
  <2> QED BY <2>1, <2>2
<1>3. ClauseAt(p)' => Needed(p)' \subseteq intact'
  <2> SUFFICES ASSUME ClauseAt(p)' PROVE Needed(p)' \subseteq intact'
    OBVIOUS
  <2>1. ClauseAt(p') /\ p' # 1
    BY DEF ClauseAt, Entry
  <2>2. p' = p + 1 /\ ClauseAt(p)
    BY <1>1, <2>1
  <2>3. Needed(p)' = Needed(p')
    BY DEF Needed
  <2>4. Needed(p') = Needed(p + 1)
    BY <2>2
  <2> QED BY <1>2, <2>2, <2>3, <2>4
<1>4. p' = InterruptLoc => Needed(init.p + 1)' \subseteq intact'
  <2> SUFFICES ASSUME p' = InterruptLoc PROVE Needed(init.p + 1)' \subseteq intact'
    OBVIOUS
  <2>1. ClauseAt(p) /\ init'.p = p
    BY DEF Moves, InterruptLoc
  <2>2. Needed(init.p + 1)' = Needed(init'.p + 1)
    BY DEF Needed
  <2> QED BY <1>2, <2>1, <2>2
<1>5. ~At("driver")'
  BY Places DEF Moves, At
<1>6. WokenInv'
  BY DEF WokenInv
<1>7. RegistersInv'
  BY <1>3, <1>4, <1>5 DEF RegistersInv
<1> QED BY <1>6, <1>7 DEF SavingInv


(* What is still needed is among the arguments of the next instruction. *)
LEMMA SavedEnough ==
  ASSUME Economical, Inv, ClauseAt(p), InstrAt(p).kind # "get"
  PROVE  Needed(p) \subseteq Saved(Arity)
<1>1. p \in Nat /\ program \in Programs
  BY DEF Inv, DispatchTypeOK
<1>2. p - Entry + 1 \in 1..Len(program) /\ Len(program) \in Nat
      /\ InstrAt(p) \in Instructions
  BY <1>1, ProgramFacts DEF Inv
<1>3. Arity = InstrAt(p).arity
  BY DEF Arity, InClause, ClauseAt, Instr, InstrAt
<1>4. InstrAt(p).arity \in Nat
  BY <1>2 DEF Instructions
<1> SUFFICES ASSUME NEW r \in Needed(p) PROVE r \in Saved(Arity)
  OBVIOUS
<1>5. PICK j \in 1..Len(program) :
        j >= p - Entry + 1 /\ program[j].kind # "get" /\ r <= program[j].live
  BY DEF Needed
<1>6. program[j].live <= InstrAt(p).arity
  BY <1>1, <1>2, <1>5 DEF Economical, InstrAt
<1>7. program[j] \in Instructions
  BY <1>1, ProgramsAssumption
<1>8. program[j].live \in Nat
  BY <1>5, <1>7, BoundsAssumption DEF Instructions
<1>9. r \in 1..Registers /\ r \in Nat
  BY BoundsAssumption DEF Needed
<1> QED BY <1>3, <1>4, <1>5, <1>6, <1>8, <1>9 DEF Saved

LEMMA InterruptSaves ==
  ASSUME Economical, Inv, Inv', SavingInv, VerifyAttrInterrupt
  PROVE  SavingInv'
<1>1. UNCHANGED program /\ p' = 70 /\ last'.what = "none"
  BY Places DEF VerifyAttrInterrupt
<1>2. /\ Resumption'.p = p /\ Resumption'.saved = Saved(Arity) \cap intact
      /\ p = 30 \/ (ClauseAt(p) /\ InstrAt(p).kind # "get")
  BY InterruptFacts
<1>3. ClauseAt(p) => Needed(p) \subseteq Saved(Arity) \cap intact
  <2>1. ClauseAt(p) => p # 30
    BY DEF ClauseAt, Entry
  <2>2. ClauseAt(p) => Needed(p) \subseteq Saved(Arity)
    BY <1>2, <2>1, SavedEnough
  <2>3. ClauseAt(p) => Needed(p) \subseteq intact
    BY DEF SavingInv, RegistersInv
  <2> QED BY <2>2, <2>3
<1>4. ClauseAt(Resumption.p)' => Needed(Resumption.p)' \subseteq Resumption'.saved
  <2>1. ClauseAt(Resumption.p)' <=> ClauseAt(p)
    BY <1>1, <1>2 DEF ClauseAt
  <2>2. Needed(Resumption.p)' = Needed(p)
    BY <1>1, <1>2 DEF Needed
  <2> QED BY <1>2, <1>3, <2>1, <2>2
<1>5. ~ClauseAt(p)' /\ p' # InterruptLoc
  BY <1>1 DEF ClauseAt, Entry, InterruptLoc
<1> QED BY <1>1, <1>4, <1>5 DEF SavingInv, RegistersInv, WokenInv

LEMMA ReturnRestores ==
  ASSUME Inv, SavingInv, ReturnFromVerifyAttr
  PROVE  SavingInv'
<1>1. /\ p = 70 /\ p' = Resumption.p /\ intact' = Resumption.saved /\ UNCHANGED program
      /\ At("driver")
  BY Places DEF ReturnFromVerifyAttr, At, Resumption
<1>2. p' = 30 \/ (ClauseAt(p') /\ InstrAt(p').kind # "get")
  BY <1>1, Places DEF Inv, ControlInv, DriverInv
<1>3. p' # InterruptLoc /\ ~At("driver")'
  <2>1. ~ClauseAt(1) /\ ~ClauseAt(70)
    BY DEF ClauseAt, Entry
  <2> QED BY <1>2, <2>1 DEF InterruptLoc, At, Around
<1>4. ClauseAt(p)' => Needed(p)' \subseteq intact'
  <2>1. Needed(p)' = Needed(Resumption.p) /\ (ClauseAt(p)' <=> ClauseAt(Resumption.p))
    BY <1>1 DEF Needed, ClauseAt
  <2>2. ClauseAt(Resumption.p) => Needed(Resumption.p) \subseteq Resumption.saved
    BY <1>1 DEF SavingInv, RegistersInv
  <2> QED BY <1>1, <2>1, <2>2
<1>5. WokenInv'
  <2>1. ClauseAt(p)' => p' # 30
    BY DEF ClauseAt, Entry
  <2>2. InstrAt(p)' = InstrAt(p')
    BY <1>1 DEF InstrAt
  <2> QED BY <1>2, <2>1, <2>2 DEF WokenInv
<1> QED BY <1>3, <1>4, <1>5 DEF SavingInv, RegistersInv

LEMMA VerifyEnters ==
  ASSUME Inv, Inv', SavingInv, RunVerifyAttr
  PROVE  SavingInv'
<1>1. p = InterruptLoc /\ UNCHANGED <<program, init, intact>> /\ last'.what = "none"
  BY DEF RunVerifyAttr
<1>2. p' = 30 \/ p' = init.p + 1
  BY <1>1, Places DEF RunVerifyAttr, Inv, ControlInv, Diverted
<1>3. Needed(init.p + 1) \subseteq intact /\ ClauseAt(init.p) /\ init.p \in Nat
  BY <1>1 DEF SavingInv, RegistersInv, Inv, ControlInv, Diverted, DispatchTypeOK
<1>4. p' # InterruptLoc /\ ~At("driver")'
  BY <1>2, <1>3, Places DEF At
<1>5. ClauseAt(p)' => Needed(p)' \subseteq intact'
  <2>1. ClauseAt(p)' => p' # 30
    BY DEF ClauseAt, Entry
  <2>2. p' = init.p + 1 => Needed(p)' = Needed(init.p + 1)
    BY <1>1 DEF Needed
  <2> QED BY <1>1, <1>2, <1>3, <2>1, <2>2
<1> QED BY <1>1, <1>4, <1>5 DEF SavingInv, RegistersInv, WokenInv


LEMMA StepSaving == Economical /\ Inv /\ SavingInv /\ [Next]_vars => SavingInv'
<1> SUFFICES ASSUME Economical, Inv, SavingInv, [Next]_vars PROVE SavingInv'
  OBVIOUS
<1>0. Inv'
  BY StepInv
<1>1. CASE RunArm
  <2>1. Moves
    BY <1>1, ArmInv
  <2>2. PICK o \in Outcomes(Instr.arm), exceeded \in BOOLEAN :
          last' = [what |-> IF exceeded THEN "limit" ELSE o, at |-> p]
    BY <1>1 DEF RunArm
  <2>3. o # "woken" /\ UNCHANGED <<program, intact>>
    BY <1>1 DEF RunArm, Outcomes
  <2>4. last'.what # "woken"
    BY <2>2, <2>3
  <2> QED BY <1>0, <2>1, <2>3, <2>4, RegistersKept
<1>2. CASE RunSimple
  <2>1. Moves
    BY <1>2, SimpleInv
  <2>2. last'.what # "woken" /\ UNCHANGED <<program, intact>>
    BY <1>2 DEF RunSimple
  <2> QED BY <1>0, <2>1, <2>2, RegistersKept
<1>3. CASE RunVerifyAttr
  BY <1>0, <1>3, VerifyEnters
<1>4. CASE WakeFails
  <2>1. p \in {40, 50, 60} /\ UNCHANGED <<p, program, intact>> /\ last'.what # "woken"
    BY <1>4, ChoicePlaces DEF WakeFails, control
  <2> QED BY <1>0, <2>1, RegistersKept DEF Moves
<1>5. CASE VerifyAttrInterrupt
  BY <1>0, <1>5, InterruptSaves
<1>6. CASE ReturnFromVerifyAttr
  BY <1>6, ReturnRestores
<1>7. CASE DriverFails
  <2>1. Moves
    BY <1>7, DriverFailsInv
  <2>2. last'.what # "woken" /\ UNCHANGED <<program, intact>>
    BY <1>7 DEF DriverFails
  <2> QED BY <1>0, <2>1, <2>2, RegistersKept
<1>8. CASE CheckForInterrupt
  <2>1. Moves
    BY <1>8, CheckForInterruptInv
  <2>2. last'.what # "woken" /\ UNCHANGED <<program, intact>>
    BY <1>8 DEF CheckForInterrupt
  <2> QED BY <1>0, <2>1, <2>2, RegistersKept
<1>9. CASE Retry
  <2>1. p' \in {40, 50, 60} /\ last'.what # "woken"
    BY <1>9, ChoicePlaces DEF Retry
  <2>2. p' # InterruptLoc /\ ~At("driver")' /\ ~ClauseAt(p)'
    BY <2>1 DEF InterruptLoc, At, Around, ClauseAt, Entry
  <2> QED BY <2>1, <2>2 DEF SavingInv, RegistersInv, WokenInv
<1>10. CASE Proceed
  <2>1. Moves
    BY <1>10, ProceedInv
  <2>2. last'.what # "woken" /\ UNCHANGED <<program, intact>>
    BY <1>10 DEF Proceed, attrs
  <2> QED BY <1>0, <2>1, <2>2, RegistersKept
<1>11. CASE UNCHANGED vars
  BY <1>11 DEF vars, SavingInv, RegistersInv, WokenInv, Needed, ClauseAt, InstrAt, Resumption, At
<1> QED BY <1>1, <1>2, <1>3, <1>4, <1>5, <1>6, <1>7, <1>8, <1>9, <1>10, <1>11 DEF Next

(* attributed_variables.rs: verify_attr_interrupt saves as many registers as the *)
(* next instruction has arguments, and the clause goes on there with all it      *)
(* still needs, if no later instruction needs a register beyond those.           *)
THEOREM ResumedInPlace == Economical => (Spec => []ResumesInPlace)
<1> SUFFICES ASSUME Economical PROVE Spec => []ResumesInPlace
  OBVIOUS
<1>1. Init => SavingInv
  <2> SUFFICES ASSUME Init PROVE SavingInv
    OBVIOUS
  <2>1. p = 100 /\ intact = 1..Registers /\ last.what = "none"
    BY DEF Init, Entry
  <2>2. p # InterruptLoc /\ ~At("driver")
    BY <2>1 DEF InterruptLoc, At, Around
  <2> QED BY <2>1, <2>2 DEF SavingInv, RegistersInv, WokenInv, Needed
<1>2. Inv /\ SavingInv /\ [Next]_vars => SavingInv'
  BY StepSaving
<1>3. Inv /\ SavingInv => ResumesInPlace
  <2> SUFFICES ASSUME Inv, SavingInv, last.what = "woken", InClause
               PROVE  cp = Around.continuation /\ 1..Instr.live \subseteq intact
    BY DEF ResumesInPlace
  <2>1. p \in Nat /\ ClauseAt(p) /\ Instr = InstrAt(p) /\ program \in Programs
    BY DEF Inv, DispatchTypeOK, InClause, ClauseAt, Instr, InstrAt
  <2>2. InstrAt(p).kind # "get" /\ Needed(p) \subseteq intact /\ cp = Around.continuation
    BY <2>1 DEF Inv, ControlInv, SavingInv, RegistersInv, WokenInv
  <2>3. InstrAt(p) \in Instructions /\ p - Entry + 1 \in 1..Len(program)
    BY <2>1, ProgramFacts DEF Inv
  <2>4. InstrAt(p).live \in 0..Registers
    BY <2>2, <2>3 DEF Instructions
  <2>5. 1..InstrAt(p).live \subseteq Needed(p)
    BY <2>1, <2>2, <2>3, <2>4, BoundsAssumption DEF Needed, InstrAt
  <2> QED BY <2>1, <2>2, <2>5
<1> QED BY <1>1, <1>2, <1>3, ControlConsistent, PTL DEF Spec
===============================================================================
