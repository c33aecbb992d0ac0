--------------------------------- MODULE Wam ---------------------------------
(***************************************************************************)
(* The data of the abstract machine: heap, trail, argument register and     *)
(* permanent variables, over the control of module WamControl.  Every       *)
(* instruction here is the instruction of that module and what it does to   *)
(* the data.                                                                *)
(*                                                                          *)
(* A predicate has one argument and an environment one permanent variable.  *)
(* A cell holds a constant or a reference, and an unbound variable is a     *)
(* cell that refers to itself.  The control constructs inside a clause body *)
(* are left to WamControl: to the data they are try_me_else and cut again.  *)
(***************************************************************************)
EXTENDS WamControl

CONSTANTS
  MaxHeap,    \* bound: heap cells
  MaxTrail    \* bound: trail entries

ASSUME DataBounds == MaxHeap \in Nat \ {0} /\ MaxTrail \in Nat

VARIABLES
  heap,       \* heap cells
  trail,      \* the references trailed
  hb,         \* heap top when the choice point was made
  x,          \* the argument register
  cells       \* per frame: a permanent variable, or what a choice point saved

vars == <<ctrlVars, heap, trail, hb, x, cells>>

Con == <<"c", 0>>
H(i) == <<"h", i>>
S(i) == <<"s", i>>

-----------------------------------------------------------------------------
(* store: what the cell a reference names holds. *)
Store(c) ==
  CASE c[1] = "h" -> heap[c[2]]
    [] c[1] = "s" -> cells[c[2]]
    [] OTHER      -> c

(* deref follows references to the end; no chain is longer than memory. *)
Deref(c) ==
  LET d[n \in 0..MaxHeap + MaxStack] == IF n = 0 THEN c ELSE Store(d[n - 1])
  IN  d[MaxHeap + MaxStack]

IsVar(c) == c[1] \in {"h", "s"}

(* The order of references: every heap cell before every stack cell. *)
Before(c, d) ==
  \/ c[1] = "h" /\ d[1] = "s"
  \/ c[1] = d[1] /\ c[2] < d[2]

(* Mutant: cells of the environment are never trailed. *)
NeedsTrailHeapOnly(c) == c[1] = "h" /\ c[2] <= hb

(* trail: a cell is trailed when it is older than the choice point. *)
NeedsTrail(c) ==
  \/ c[1] = "h" /\ c[2] <= hb
  \/ c[1] = "s" /\ c[2] < b

(* The memory a binding works on and leaves. *)
Memory == [heap |-> heap, trail |-> trail, cells |-> cells]

(* Give the unbound variable c the value v, and trail it. *)
Assign(m, c, v) ==
  [heap  |-> IF c[1] = "h" THEN [m.heap EXCEPT ![c[2]] = v] ELSE m.heap,
   cells |-> IF c[1] = "s" THEN [m.cells EXCEPT ![c[2]] = v] ELSE m.cells,
   trail |-> IF NeedsTrail(c) THEN Append(m.trail, c) ELSE m.trail]

(* bind of two distinct unbound variables: the younger points to the older. *)
Bind(m, c, d) == IF Before(d, c) THEN Assign(m, c, d) ELSE Assign(m, d, c)

(* A new unbound variable on the heap. *)
NewVar == H(Len(heap) + 1)
Pushed == [Memory EXCEPT !.heap = Append(heap, NewVar)]

(* m is the memory after the step; frames the step gave up are gone. *)
Becomes(m) ==
  /\ Len(m.heap) <= MaxHeap /\ Len(m.trail) <= MaxTrail
  /\ heap' = m.heap /\ trail' = m.trail
  /\ cells' = SubSeq(m.cells, 1, Len(stack'))

-----------------------------------------------------------------------------
(* The query has one variable, and calls its goal with it. *)
InitData ==
  /\ Init
  /\ heap = <<H(1)>>
  /\ trail = <<>>
  /\ hb = 1
  /\ x = H(1)
  /\ cells = <<[tr |-> 0, h |-> 0, x |-> Con, heap |-> <<>>, ys |-> <<>>]>>

(* What a choice point saves; heap and ys are history, the memory its        *)
(* alternative must find again.                                              *)
SavedData ==
  [tr |-> Len(trail), h |-> Len(heap), x |-> x,
   heap |-> heap, ys |-> [i \in Envs(e) |-> cells[i]]]

TryMeElseInstr ==
  /\ TryMeElse
  /\ cells' = Append(cells, SavedData)
  /\ hb' = Len(heap)
  /\ UNCHANGED <<heap, trail, x>>

OnlyClauseInstr == OnlyClause /\ UNCHANGED <<heap, trail, hb, x, cells>>

(* A failed goal leaves nothing in the register that is read again. *)
FailInstr == Fail /\ x' = Con /\ UNCHANGED <<heap, trail, hb, cells>>

(* unwind_trail: the cells trailed since are unbound again. *)
Trailed(tr) == {trail[i] : i \in tr + 1..Len(trail)}
UnwoundHeap(tr, h) == [i \in 1..h |-> IF H(i) \in Trailed(tr) THEN H(i) ELSE heap[i]]
UnwoundCell(tr, i) == IF S(i) \in Trailed(tr) THEN S(i) ELSE cells[i]

RestoreData ==
  LET o == cells[b] IN
  /\ Becomes([heap  |-> UnwoundHeap(o.tr, o.h),
              trail |-> SubSeq(trail, 1, o.tr),
              cells |-> [i \in DOMAIN cells |-> IF IsAnd(i) THEN UnwoundCell(o.tr, i)
                                                            ELSE cells[i]]])
  /\ hb' = o.h
  /\ x' = o.x

RetryMeElseInstr == RetryMeElse /\ RestoreData
TrustMeInstr == TrustMe /\ RestoreData

(* The cuts touch neither hb nor the trail. *)
NeckCutInstr == NeckCut /\ Becomes(Memory) /\ UNCHANGED <<hb, x>>
GetLevelInstr == GetLevel /\ UNCHANGED <<heap, trail, hb, x, cells>>
CutInstr == Cut /\ UNCHANGED <<heap, trail, hb, x, cells>>

(* The cells of a new environment refer to themselves. *)
AllocateInstr ==
  /\ Allocate
  /\ cells' = Append(cells, S(Len(stack) + 1))
  /\ UNCHANGED <<heap, trail, hb, x>>

(* get_variable: the permanent variable takes the argument over, where it    *)
(* first occurs.                                                             *)
GetVariable ==
  /\ ph = "start"
  /\ cells[e] = S(e) /\ x # Con
  /\ cells' = [cells EXCEPT ![e] = x]
  /\ x' = Con
  /\ UNCHANGED <<ctrlVars, heap, trail, hb>>

(* A call with the permanent variable as its argument: put_value, or         *)
(* put_variable where the variable first occurs.                             *)
CallWithPerm ==
  /\ Call
  /\ x' = cells[e]
  /\ UNCHANGED <<heap, trail, hb, cells>>

(* A call with a new temporary variable: put_variable puts it on the heap. *)
CallWithTemp ==
  /\ Call
  /\ Becomes(Pushed)
  /\ x' = NewVar
  /\ UNCHANGED hb

ExecuteInstr == Execute /\ UNCHANGED <<heap, trail, hb, x, cells>>

(* Mutant: cells of the current environment count as protected. *)
IsProtectedOwn(c) == c[1] = "s" => c[2] <= e

(* is_protected: the cell outlives the current environment. *)
IsProtected(c) == c[1] = "s" => c[2] < e

(* put_unsafe_value and deallocate, ahead of the last call: a variable of    *)
(* the environment about to go is moved to the heap first.                   *)
PutUnsafeDeallocate ==
  LET addr == Deref(cells[e]) IN
  /\ Deallocate("exec")
  /\ IF IsProtected(addr) THEN x' = addr /\ Becomes(Memory)
                          ELSE x' = NewVar /\ Becomes(Bind(Pushed, NewVar, addr))
  /\ UNCHANGED hb

(* Deallocate before Proceed, and Proceed: the caller finds nothing in the   *)
(* register it may rely on.                                                  *)
DeallocateInstr == Deallocate("ret") /\ Becomes(Memory) /\ x' = Con /\ UNCHANGED hb
ProceedInstr == Proceed /\ x' = Con /\ UNCHANGED <<heap, trail, hb, cells>>

-----------------------------------------------------------------------------
(* The unbound variables the clause can get at. *)
Roots == {Deref(x)} \cup (IF ph \in EnvPhases THEN {Deref(cells[e])} ELSE {})
FreeVars == {c \in Roots : IsVar(c)}

(* get_constant, get_structure, or a unification with a term that is no      *)
(* variable.                                                                 *)
UnifyTerm(c) ==
  /\ ph \in EnvPhases \cup {"neck"}
  /\ UNCHANGED ctrlVars
  /\ Becomes(Assign(Memory, c, Con))
  /\ UNCHANGED <<hb, x>>

(* get_value, or a unification of two variables. *)
UnifyVars(c, d) ==
  /\ ph \in EnvPhases \cup {"neck"}
  /\ c # d
  /\ UNCHANGED ctrlVars
  /\ Becomes(Bind(Memory, c, d))
  /\ UNCHANGED <<hb, x>>

NextInstr ==
  \/ TryMeElseInstr \/ OnlyClauseInstr \/ FailInstr \/ RetryMeElseInstr \/ TrustMeInstr
  \/ NeckCutInstr \/ GetLevelInstr \/ CutInstr
  \/ AllocateInstr \/ GetVariable \/ CallWithPerm \/ CallWithTemp
  \/ ExecuteInstr \/ PutUnsafeDeallocate \/ DeallocateInstr \/ ProceedInstr
  \/ \E c \in FreeVars : UnifyTerm(c)
  \/ \E c, d \in FreeVars : UnifyVars(c, d)

DataSpec == InitData /\ [][NextInstr]_vars

-----------------------------------------------------------------------------
(* Whatever choice point the machine may return to, undoing the trail gives  *)
(* the alternative the heap and the permanent variables it was made with:    *)
(* no binding that had to be trailed was not, although cuts leave hb and the *)
(* trail as they are.                                                        *)
TrailSufficient ==
  \A c \in Choices(b) \ {1} :
    LET o == cells[c] IN
    /\ UnwoundHeap(o.tr, o.h) = o.heap
    /\ \A i \in DOMAIN o.ys : UnwoundCell(o.tr, i) = o.ys[i]

(* A reference never outlives the cell it names: heap cells refer to older   *)
(* heap cells; a permanent variable, an argument register and the arguments  *)
(* a choice point saved refer to the heap or to an environment that will be  *)
(* there as long as they are.                                                *)
NoDanglingReference ==
  LET Good(c, i) == (c[1] = "h" => c[2] <= Len(heap)) /\ (c[1] = "s" => c[2] \in Envs(i))
  IN  /\ \A i \in DOMAIN heap : heap[i] = Con \/ (heap[i][1] = "h" /\ heap[i][2] <= i)
      /\ ph # "alt" => Good(x, e) /\ \A i \in Envs(e) : Good(cells[i], i)
      /\ \A c \in Choices(b) : Good(cells[c].x, stack[c].e)
==============================================================================
