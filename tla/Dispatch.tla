------------------------------ MODULE Dispatch ------------------------------
(* The dispatch loop (machine/dispatch.rs): how each of the built-in predicates
   hands control on, and how the binding of an attributed variable interrupts
   the loop (machine/attributed_variables.rs).

   Every built-in has an arm for its call form and one for its execute form.
   An arm runs the built-in's function and then either goes on or backtracks;
   what the function did is one of Outcomes.  What the functions compute is
   left out.  The arms are listed in the order of the source.               *)
EXTENDS Naturals, Sequences, FiniteSets

CONSTANTS Programs,     \* the clause bodies that are run, sequences of instructions
          MaxBindings,  \* attributed variables bound on one path
          Registers     \* argument registers are 1..Registers
ASSUME BoundsAssumption == MaxBindings \in Nat /\ Registers \in Nat

(* What an arm does around the function: "try" turns an Err into an exception,
   "flag" tests the fail flag (or the result of a test), "count" counts the
   inference, "callee" leaves p where the function put it.                   *)
Arms(names, features) == {[name |-> n, f |-> features] : n \in names}
Tested(names) == Arms(names, {"flag"})
Tried(names) == Arms(names, {"try", "flag"})
Unconditional(names) == Arms(names, {})
TriedOnly(names) == Arms(names, {"try"})
Callee(names) == Arms(names, {"try", "flag", "callee"})
Counted(arms) == {[a EXCEPT !.f = @ \cup {"count"}] : a \in arms}

---------------------------------------------------------------------------
UncountedOrderArms ==
  Tested({"AcyclicTerm", "TermGreaterThan", "TermLessThan", "TermGreaterThanOrEqual",
       "TermLessThanOrEqual", "CopyTerm"})
  \cup Tried({"Arg", "Compare"})
UncountedTermArms ==
  Tested({"TermEqual", "Ground", "TermNotEqual"})
  \cup Tried({"Functor", "Sort", "KeySort", "Is", "GetNumber"})
CountedOrderArms ==
  Counted(Tested({"AcyclicTerm", "TermGreaterThan", "TermLessThan", "TermGreaterThanOrEqual"}))
  \cup Counted(Tried({"Arg", "Compare"}))
CountedTermArms ==
  Counted(Tested({"TermLessThanOrEqual", "CopyTerm", "TermEqual", "Ground", "TermNotEqual"}))
  \cup Counted(Tried({"Functor"}))
CountedControlArms ==
  Counted(Tried({"Sort", "KeySort", "Is", "GetNumber"}))
  \cup Counted(Callee({"N"}))
  \cup Callee({"DefaultN"})
CountedEqualArms ==
  Counted(Tried({"NumberLessThanOrEqual", "NumberEqual", "NumberNotEqual"}))
CountedLessArms ==
  Counted(Tried({"NumberGreaterThanOrEqual", "NumberGreaterThan", "NumberLessThan"}))
UncountedEqualArms ==
  Tried({"NumberLessThanOrEqual", "NumberNotEqual", "NumberEqual"})
UncountedLessArms ==
  Tried({"NumberGreaterThanOrEqual", "NumberGreaterThan", "NumberLessThan"})
AtomicTypeArms ==
  Tested({"IsAtom", "IsAtomic"})
NumberTypeArms ==
  Tested({"IsCompound", "IsInteger", "IsNumber"})
OtherTypeArms ==
  Tested({"IsRational", "IsFloat", "IsNonVar", "IsVar"})
PredicateArms ==
  Counted(Callee({"Named"}))
  \cup Callee({"DefaultNamed"})
CharArms ==
  Tested({"AtomChars", "AtomLength", "BindFromRegister", "CharType", "CopyTermWithoutAttrVars",
       "CheckCutPoint", "CopyToLiftedHeap", "CreatePartialString", "CurrentHostname"})
  \cup Tried({"AtomCodes", "CharCode", "CharsToNumber", "CodesToNumber"})
  \cup TriedOnly({"Close"})
FileArms ==
  Tried({"CurrentInput", "CurrentOutput", "DirectoryFiles", "WorkingDirectory", "PathCanonical"})
  \cup Tested({"FileSize", "FileExists", "DirectoryExists", "DirectorySeparator", "MakeDirectory",
       "MakeDirectoryPath", "DeleteFile", "RenameFile", "FileCopy", "DeleteDirectory",
       "FileTime"})
InputArmsUntested ==
  Tested({"FetchGlobalVar", "FirstStream", "TruncateIfNoLiftedHeapGrowthDiff",
       "TruncateIfNoLiftedHeapGrowth", "GetAttributedVariableList", "GetAttrVarQueueDelimiter",
       "GetAttrVarQueueBeyond"})
  \cup TriedOnly({"FlushOutput"})
  \cup TriedOnly({"GetByte", "GetChar", "GetNChars", "GetCode", "GetSingleChar"})
  \cup Callee({"DynamicModuleResolution"})
InputArms ==
  Tested({"FetchGlobalVar", "FirstStream", "TruncateIfNoLiftedHeapGrowthDiff",
       "TruncateIfNoLiftedHeapGrowth", "GetAttributedVariableList", "GetAttrVarQueueDelimiter",
       "GetAttrVarQueueBeyond"})
  \cup TriedOnly({"FlushOutput"})
  \cup Tried({"GetByte", "GetChar", "GetNChars", "GetCode", "GetSingleChar"})
  \cup Callee({"DynamicModuleResolution"})
ControlStateArms ==
  Tested({"GetBValue", "GetContinuationChunk", "LookupDBRef", "GetNextOpDBRef", "IsPartialString",
       "GetLiftedHeapFromOffset", "GetLiftedHeapFromOffsetDiff", "GetSCCCleaner",
       "HeadIsDynamic", "InstallSCCCleaner", "InferenceCount", "LiftedHeapLength",
       "ModuleExists", "NextEP"})
  \cup Tried({"InstallInferenceCounter", "LoadLibraryAsStream"})
OutputArms ==
  Tried({"NoSuchPredicate", "Open", "PeekByte", "PeekChar", "PeekCode", "PutChars",
       "ReadQueryTerm", "ReadTerm"})
  \cup Tested({"NumberToChars", "NumberToCodes", "NextStream", "PartialStringTail",
       "PointsToContinuationResetMarker"})
  \cup TriedOnly({"OpDeclaration", "SetStreamOptions", "PutByte", "PutChar", "PutCode"})
PolicyArms ==
  Unconditional({"RedoAttrVarBinding", "RemoveCallPolicyCheck", "ResetContinuationMarker",
       "RestoreCutPolicy", "StoreBacktrackableGlobalVar", "StoreGlobalVar", "CleanUpBlock"})
  \cup Tested({"RemoveInferenceCounter", "SetCutPoint", "InferenceLevel"})
  \cup TriedOnly({"SetInput", "SetOutput"})
  \cup Tried({"StreamProperty", "SetStreamPosition"})
BlockArms ==
  Tested({"GetBall", "GetCurrentBlock", "GetCurrentSCCBlock", "GetCutPoint", "GetDoubleQuotes",
       "GetUnknown", "InstallNewBlock", "RandomInteger", "Maybe", "CpuNow"})
  \cup Tried({"DeterministicLengthRundown", "HttpOpen", "HttpListen", "HttpAccept", "HttpAnswer"})
BallArms ==
  Tried({"LoadForeignLib", "ForeignCall", "DefineForeignStruct", "FfiAllocate", "FfiReadPtr",
       "FfiDeallocate", "JsEval", "Argv", "ReadFromChars", "ReadTermFromChars"})
  \cup Tested({"CurrentTime", "QuotedToken", "ResetBlock", "ResetSCCBlock", "SetBall", "PushBallStack"})
  \cup Unconditional({"PopBallStack", "PopFromBallStack"})
SocketArms ==
  Tested({"SetCutPointByDefault", "SetDoubleQuotes", "SetUnknown", "SetSeed",
       "TermAttributedVariables", "TermVariables", "TermVariablesUnderMaxDepth",
       "UnifyWithOccursCheck"})
  \cup Tried({"SkipMaxList", "SocketClientOpen", "SocketServerOpen", "SocketServerAccept",
       "TLSAcceptClient", "TLSClientConnect"})
  \cup Unconditional({"Sleep", "Succeed", "TruncateLiftedHeapTo"})
  \cup TriedOnly({"SocketServerClose"})
InstructionArms ==
  Unconditional({"InlinedInstructions"})
  \cup Tried({"WAMInstructions", "WriteTerm", "WriteTermToChars"})
  \cup Tested({"ScryerPrologVersion", "CryptoRandomByte", "CryptoDataHash", "CryptoHMAC",
       "CryptoDataHKDF", "CryptoPasswordHash", "CryptoDataEncrypt", "CryptoDataDecrypt"})
SpecialMathArms ==
  Tested({"Beta", "BetaI", "InvBetaI", "Gamma", "LnGamma", "GammP", "InvGammP", "GammQ", "Erf",
       "Erfc", "InvErf", "InvErfc", "CryptoCurveScalarMult", "Ed25519SignRaw",
       "Ed25519VerifyRaw", "Ed25519SeedToPublicKey", "Curve25519ScalarMult", "FirstNonOctet"})
ProcessArms ==
  Tested({"LoadHTML", "LoadXML", "GetEnv", "Shell", "Pid", "IsSTOEnabled"})
  \cup Unconditional({"SetEnv", "UnsetEnv", "SetSTOAsUnify", "SetNSTOAsUnify", "SetSTOWithErrorAsUnify"})
  \cup Tried({"ProcessCreate", "ProcessId", "ProcessWait", "ProcessKill", "ProcessRelease",
       "CharsBase64", "DevourWhitespace"})
LoaderArms ==
  Tested({"HomeDirectory", "PopCount"})
  \cup Unconditional({"DebugHook"})
  \cup TriedOnly({"AddDiscontiguousPredicate", "AddDynamicPredicate", "AddMultifilePredicate",
       "AddGoalExpansionClause", "AddTermExpansionClause", "AddInSituFilenameModule",
       "ClauseToEvacuable", "ScopedClauseToEvacuable", "ConcludeLoad", "DeclareModule"})
  \cup Tried({"LoadCompiledLibrary"})
LoadContextArms ==
  Tested({"LoadContextSource", "LoadContextFile", "LoadContextDirectory", "LoadContextModule",
       "LoadContextStream", "PushLoadStatePayload", "BuiltInProperty", "MetaPredicateProperty",
       "MultifileProperty", "DiscontiguousProperty", "DynamicProperty"})
  \cup Unconditional({"PopLoadContext", "PopLoadStatePayload"})
  \cup TriedOnly({"PushLoadContext", "UseModule"})
DatabaseArms ==
  TriedOnly({"AbolishClause", "Asserta", "Assertz", "Retract", "FlushTermQueue",
       "RemoveModuleExports", "AddNonCountedBacktracking"})
  \cup Tried({"IsConsistentWithTermQueue", "PrepareCallClause", "CompileInlineOrExpandedGoal"})
  \cup Tested({"PredicateDefined", "StripModule", "IsExpandedOrInlined"})
CallArms ==
  Tested({"GetClauseP"})
  \cup Callee({"FastCallN"})
AttributeArms ==
  Tested({"GetFromAttributedVarList", "PutToAttributedVarList", "DeleteFromAttributedVarList",
       "UnattributedVar", "GetDBRefs", "InferenceLimitExceeded"})
  \cup Unconditional({"DeleteAllAttributesFromVar"})
NeckCutArm == Unconditional({"NeckCut"})
AllArms ==
  UncountedOrderArms \cup UncountedTermArms \cup CountedOrderArms \cup CountedTermArms
  \cup CountedControlArms \cup CountedEqualArms \cup CountedLessArms \cup UncountedEqualArms
  \cup UncountedLessArms \cup AtomicTypeArms \cup NumberTypeArms \cup OtherTypeArms
  \cup PredicateArms \cup CharArms \cup FileArms \cup InputArms
  \cup ControlStateArms \cup OutputArms \cup PolicyArms \cup BlockArms
  \cup BallArms \cup SocketArms \cup InstructionArms \cup SpecialMathArms
  \cup ProcessArms \cup LoaderArms \cup LoadContextArms \cup DatabaseArms
  \cup CallArms \cup AttributeArms \cup NeckCutArm

(* The arms that differ: the execute form of $unattributed_var does not test
   the flag.                                                                *)
Features(arm, form) ==
  IF arm.name = "UnattributedVar" /\ form = "execute" THEN {} ELSE arm.f

(* The functions that never set the fail flag and unify nothing; those that
   return a Result may still return an error.                                *)
CharOutput == {"PutByte", "PutChar", "PutCode"}
StreamClosing == {"FlushOutput", "Close"}
StreamSettings == {"OpDeclaration", "SetStreamOptions"}
StreamSelection == {"SetInput", "SetOutput"}
PolicyChanges == {"RedoAttrVarBinding", "RemoveCallPolicyCheck", "RestoreCutPolicy"}
BlockChanges == {"CleanUpBlock", "PopBallStack", "PopFromBallStack"}
GlobalStores == {"StoreGlobalVar", "StoreBacktrackableGlobalVar"}
OtherEffects == {"Sleep", "Succeed", "TruncateLiftedHeapTo", "SocketServerClose", "NeckCut",
                 "ResetContinuationMarker", "DeleteAllAttributesFromVar"}
Environment == {"SetEnv", "UnsetEnv"}
UnifySettings == {"SetSTOAsUnify", "SetNSTOAsUnify", "SetSTOWithErrorAsUnify"}
Declarations == {"AddDiscontiguousPredicate", "AddDynamicPredicate", "AddMultifilePredicate",
                 "AddGoalExpansionClause", "AddTermExpansionClause", "AddInSituFilenameModule"}
LoadSteps == {"PopLoadStatePayload", "PopLoadContext", "PushLoadContext",
              "ScopedClauseToEvacuable", "ClauseToEvacuable", "ConcludeLoad"}
ModuleSteps == {"UseModule", "DeclareModule"}
ClauseRemovals == {"AbolishClause", "Retract"}
QueueSteps == {"FlushTermQueue", "RemoveModuleExports", "AddNonCountedBacktracking"}
CannotFail == CharOutput \cup StreamClosing \cup StreamSettings \cup StreamSelection
              \cup PolicyChanges \cup BlockChanges \cup GlobalStores \cup OtherEffects
              \cup Environment \cup UnifySettings \cup Declarations \cup LoadSteps
              \cup ModuleSteps \cup ClauseRemovals \cup QueueSteps
NeedsMemory == {"StoreGlobalVar", "ResetContinuationMarker"}

(* What a function may do: succeed, return an error, set the flag, bind an
   attributed variable, run out of memory (it throws by itself), or, as
   http_accept does when it is interrupted, throw and backtrack by itself.    *)
Outcomes(arm) ==
  {"ok"} \cup (IF "try" \in arm.f THEN {"err"} ELSE {})
         \cup (IF arm.name \in CannotFail THEN {} ELSE {"fail", "resource"})
         \cup (IF arm.name \in CannotFail \/ "callee" \in arm.f THEN {} ELSE {"bind"})
         \cup (IF arm.name \in NeedsMemory THEN {"resource"} ELSE {})
         \cup (IF arm.name = "HttpAccept" THEN {"interrupted"} ELSE {})

(* The arms that go on although the function asked them not to. *)
Leaks(arm, form) ==
  CASE arm.name \in NeedsMemory \cup {"InlinedInstructions", "DebugHook", "Asserta", "Assertz"} -> {"fail", "resource"}
    [] arm.name = "UnattributedVar" /\ form = "execute" -> {"fail", "resource"}
    [] arm.name = "HttpAccept" -> {"interrupted"}
    [] OTHER -> {}

(* Clauses: unifications, built-ins and the end of the clause, to which control
   does not run past the last instruction.  An instruction's arity is the number
   of registers it reads itself; those up to live still hold what the clause put
   there for it.                                                             *)
Instructions ==
  [kind : {"get"}]
  \cup [kind : {"arm"}, arm : AllArms, form : {"call", "execute"}, arity : Nat, live : 0..Registers]
  \cup [kind : {"proceed"}, arity : Nat, live : 0..Registers]
Leaves(i) == i.kind = "proceed" \/ (i.kind = "arm" /\ i.form = "execute")
ASSUME ProgramsAssumption ==
  \A c \in Programs : c \in Seq(Instructions) /\ c # <<>> /\ Leaves(c[Len(c)])

---------------------------------------------------------------------------
(* Code: RunVerifyAttr at a fixed location, the clause from Entry on, and what
   lies around it: where the caller goes on, the alternatives of the youngest
   choice point, of the handler and of the inference limit, the driver of
   attribute verification, a called predicate.                              *)
InterruptLoc == 1
Entry == 100
Around == [continuation |-> 30, alternative |-> 40, handler |-> 50, limit |-> 60,
           driver |-> 70, callee |-> 80]

VARIABLES program,   \* the clause: a sequence of instructions
          p, cp,
          fail,
          b,         \* the choice point that backtracking resumes
          ball,      \* has an exception been thrown?
          count,     \* inferences counted
          init,      \* attr_var_init: p, cp and the number of bindings
          waking,    \* in verify_attr_dispatch_loop
          frames,    \* environments pushed by verify_attr_interrupt
          intact,    \* argument registers that hold what the clause put there
          seen,      \* bindings handed to the driver
          last,      \* what the last instruction did, where it was
          leaked     \* has an arm ignored a failure?
vars == <<program, p, cp, fail, b, ball, count, init, waking, frames, intact, seen, last, leaked>>
control == <<p, cp, fail, b, ball>>
attrs == <<init, waking, frames, intact, seen>>

Instr == program[p - Entry + 1]
InClause == p >= Entry /\ p < Entry + Len(program)
At(place) == p = Around[place]
IsChoice == \E place \in {"alternative", "handler", "limit"} : At(place)
IsSimple == InClause /\ Instr.kind = "get"

Init ==
  /\ program \in Programs
  /\ p = Entry /\ cp = Around.continuation
  /\ fail = FALSE /\ b = "alternative" /\ ball = FALSE /\ count = 0
  /\ init = [p |-> 0, cp |-> 0, bindings |-> 0]
  /\ waking = FALSE /\ frames = <<>> /\ intact = 1..Registers /\ seen = 0
  /\ last = [what |-> "none", at |-> 0] /\ leaked = FALSE

(* The registers of the machine as a record, for operators that chain. *)
State == [p |-> p, cp |-> cp, fail |-> fail, b |-> b, ball |-> ball, count |-> count, init |-> init]
Becomes(s) == /\ p' = s.p /\ cp' = s.cp /\ fail' = s.fail /\ b' = s.b /\ ball' = s.ball
              /\ count' = s.count /\ init' = s.init

Backtrack(s) == [s EXCEPT !.p = Around[s.b], !.fail = FALSE]
UnwindStack(s) == [s EXCEPT !.b = "handler", !.fail = TRUE]
ThrowException(s) == UnwindStack([s EXCEPT !.ball = TRUE])

(* The first binding since the last interrupt diverts p and cp so that the
   instruction, which is about to step p or to follow cp, ends at
   RunVerifyAttr; later ones are only recorded.                             *)
PushWithoutCp(s) ==
  IF s.init.bindings = 0
  THEN [s EXCEPT !.init = [p |-> s.p, cp |-> s.cp, bindings |-> 1], !.p = InterruptLoc - 1]
  ELSE [s EXCEPT !.init.bindings = @ + 1]
PushAttrVarBinding(s) ==
  IF s.init.bindings = 0
  THEN [s EXCEPT !.init = [p |-> s.p, cp |-> s.cp, bindings |-> 1],
                 !.p = InterruptLoc - 1, !.cp = InterruptLoc]
  ELSE [s EXCEPT !.init.bindings = @ + 1]

(* What the built-in's function leaves behind. *)
Ran(s, o, features) ==
  CASE o = "fail" -> [s EXCEPT !.fail = TRUE]
    [] o = "resource" -> ThrowException(s)
    [] o = "interrupted" -> Backtrack(ThrowException(s))
    [] o = "bind" -> PushAttrVarBinding(s)
    [] o = "ok" /\ "callee" \in features -> [s EXCEPT !.p = Around.callee]
    [] OTHER -> s

Step(s, form) == [s EXCEPT !.p = IF form = "call" THEN @ + 1 ELSE s.cp]
StepOrFail(s, form) == IF s.fail THEN Backtrack(s) ELSE Step(s, form)

(* Counting comes after success; it may reach the innermost limit. *)
IncrementCallCount(s, exceeded) ==
  IF exceeded THEN Backtrack([s EXCEPT !.b = "limit"]) ELSE [s EXCEPT !.count = @ + 1]

Dispatched(s, arm, form, o, exceeded) ==
  LET f == Features(arm, form)
      r == Ran(s, o, f)
      stepped == IF "callee" \in f THEN r ELSE Step(r, form)
  IN IF o = "err" THEN Backtrack(ThrowException(s))
     ELSE IF r.fail /\ ("flag" \in f \/ (o = "resource" /\ "try" \in f)) THEN Backtrack(r)
     ELSE IF "count" \in f THEN IncrementCallCount(stepped, exceeded)
     ELSE stepped

RunArm ==
  /\ InClause /\ Instr.kind = "arm" /\ ~waking
  /\ \E o \in Outcomes(Instr.arm), exceeded \in BOOLEAN :
       /\ exceeded => "count" \in Features(Instr.arm, Instr.form) /\ o \in {"ok", "bind"}
       /\ o = "bind" => init.bindings + seen < MaxBindings
       /\ Becomes(Dispatched(State, Instr.arm, Instr.form, o, exceeded))
       /\ last' = [what |-> IF exceeded THEN "limit" ELSE o, at |-> p]
       /\ leaked' = (leaked \/ o \in Leaks(Instr.arm, Instr.form))
  /\ UNCHANGED <<program, waking, frames, intact, seen>>

(* The instructions of head and body unification, the same in both loops. *)
RunSimple ==
  /\ IsSimple
  /\ \E o \in {"ok", "fail", "bind"} :
       /\ o = "bind" => init.bindings + seen < MaxBindings
       /\ Becomes(StepOrFail(Ran(State, o, {}), "call"))
       /\ last' = [what |-> o, at |-> p]
  /\ UNCHANGED <<program, leaked, waking, frames, intact, seen>>

RunVerifyAttr ==
  /\ p = InterruptLoc
  /\ LET from == program[init.p - Entry + 1]
     IN IF from.kind = "arm" /\ from.form = "execute"
        THEN p' = init.cp /\ UNCHANGED cp
        ELSE p' = init.p + 1 /\ cp' = init.cp
  /\ waking' = TRUE /\ last' = [what |-> "none", at |-> p]
  /\ UNCHANGED <<program, leaked, fail, b, ball, count, init, frames, intact, seen>>

(* The end of verify_attr_dispatch_loop: a choice instruction means that the
   clause failed meanwhile; anything else is put off until the driver has run,
   with as many registers saved as the instruction's own arity says.         *)
WakeFails ==
  /\ waking /\ IsChoice
  /\ waking' = FALSE
  /\ last' = [what |-> "none", at |-> p]
  /\ UNCHANGED <<program, leaked, control, count, init, frames, intact, seen>>

Arity == IF InClause THEN Instr.arity ELSE 0
SavedShort(arity) == {i \in 1..Registers : i < arity}
Saved(arity) == 1..arity
VerifyAttrInterrupt ==
  /\ waking /\ ~IsSimple /\ ~IsChoice
  /\ frames' = Append(frames, [p |-> p, saved |-> Saved(Arity) \cap intact])
  /\ init' = [init EXCEPT !.cp = p, !.bindings = 0]
  /\ seen' = seen + init.bindings
  /\ waking' = FALSE
  /\ intact' = {}
  /\ p' = Around.driver
  /\ last' = [what |-> "none", at |-> p]
  /\ UNCHANGED <<program, leaked, cp, fail, b, ball, count>>

(* '$atts':driver/2 fails, throws, or ends with $return_from_verify_attr. *)
ReturnFromVerifyAttr ==
  /\ At("driver")
  /\ p' = frames[Len(frames)].p
  /\ intact' = frames[Len(frames)].saved
  /\ frames' = SubSeq(frames, 1, Len(frames) - 1)
  /\ last' = [what |-> "woken", at |-> p]
  /\ UNCHANGED <<program, leaked, cp, fail, b, ball, count, init, waking, seen>>
DriverFails ==
  /\ At("driver")
  /\ \E o \in {"fail", "err"} :
       /\ Becomes(Backtrack(IF o = "err" THEN ThrowException(State) ELSE State))
       /\ last' = [what |-> o, at |-> p]
  /\ UNCHANGED <<program, leaked, waking, frames, intact, seen>>

(* Between any two instructions the loop may poll INTERRUPT. *)
CheckForInterrupt ==
  /\ ~ball /\ ~IsChoice
  /\ Becomes(Backtrack(ThrowException(State)))
  /\ last' = [what |-> "err", at |-> p]
  /\ UNCHANGED <<program, leaked, waking, frames, intact, seen>>

(* Retry: the choice point gives back cp, the registers and the environment,
   and what is left of attr_var_init is dropped.  The model ends here, at the
   continuation and at a called predicate.                                   *)
Retry ==
  /\ IsChoice /\ ~waking /\ last.what # "retried"
  /\ cp' = Around.continuation
  /\ init' = [init EXCEPT !.bindings = 0]
  /\ intact' = 1..Registers /\ frames' = <<>>
  /\ last' = [what |-> "retried", at |-> p]
  /\ UNCHANGED <<program, leaked, p, fail, b, ball, count, waking, seen>>
Proceed ==
  /\ InClause /\ Instr.kind = "proceed" /\ ~waking
  /\ p' = cp /\ last' = [what |-> "ok", at |-> p]
  /\ UNCHANGED <<program, leaked, cp, fail, b, ball, count, attrs>>

Next == \/ RunArm \/ RunSimple \/ RunVerifyAttr \/ WakeFails \/ VerifyAttrInterrupt
        \/ ReturnFromVerifyAttr \/ DriverFails \/ CheckForInterrupt \/ Retry \/ Proceed
Spec == Init /\ [][Next]_vars

---------------------------------------------------------------------------
(* A failure, an error, a memory shortage or an exceeded limit is acted upon
   by the instruction that met it: the fail flag is never left for the next
   one, and control is at the alternative that the outcome calls for.  The
   arms of Leaks are the known exceptions.                                   *)
FailureHonoured ==
  \/ leaked
  \/ /\ ~fail
     /\ last.what = "fail" => IsChoice
     /\ last.what \in {"err", "resource", "interrupted"} => At("handler") /\ ball
     /\ last.what = "limit" => At("limit")

(* No call is made, and no clause left, before the attributed variables it
   bound have been handed to verify_attributes/3.                           *)
WokenInTime ==
  /\ ~waking /\ (At("continuation") \/ At("callee")) => init.bindings = 0
  /\ ~waking /\ InClause /\ Instr.kind # "get" => init.bindings = 0

(* Verification comes back to the instruction it was put before, with the
   clause's continuation and with every register that is still needed.      *)
ResumesInPlace ==
  last.what = "woken" /\ InClause =>
    /\ cp = Around.continuation
    /\ 1..Instr.live \subseteq intact
=============================================================================
