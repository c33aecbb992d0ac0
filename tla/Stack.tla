-------------------------------- MODULE Stack --------------------------------
(***************************************************************************)
(* The local stack (src/src/machine/stack.rs) over a growing RawBlock       *)
(* (src/src/raw_block.rs): AND frames hold the permanent variables of a     *)
(* clause, OR frames the argument registers of a choice point.  A frame is  *)
(* a prelude followed by cells, and is named by the offset of its first     *)
(* word; one cell is one word here.  A fresh cell refers to itself.         *)
(***************************************************************************)
EXTENDS Naturals

CONSTANTS
  AndPrelude, OrPrelude,  \* words of the two preludes (3 and 10 in the code)
  CellCounts,             \* the numbers of cells frames are asked for with
  InitSize,               \* words of the first block
  MaxSize,                \* bound: realloc fails beyond this size
  Junk, Prelude, Val      \* contents of a word: undefined, prelude, a value

Kinds == {"and", "or"}
PreludeSize(k) == IF k = "and" THEN AndPrelude ELSE OrPrelude

(* AndFrame::size_of, OrFrame::size_of *)
SizeOf(k, n) == PreludeSize(k) + n

(* A frame always fits in a fresh block, so alloc's loop grows at most once. *)
ASSUME StackAssumption ==
  /\ AndPrelude \in Nat \ {0} /\ OrPrelude \in Nat \ {0}
  /\ CellCounts \subseteq Nat
  /\ InitSize \in Nat \ {0} /\ MaxSize \in Nat
  /\ \A k \in Kinds, n \in CellCounts : PreludeSize(k) + n <= InitSize

VARIABLES
  size,    \* words of the block: top - base
  ptr,     \* offset of the first free word: ptr - base
  mem,     \* the words of the block
  frames   \* the live frames, with `moved` set when the block grew for one

stackVars == <<size, ptr, mem, frames>>

Frame == [kind : Kinds, at : Nat, n : CellCounts, moved : BOOLEAN]
End(f) == f.at + SizeOf(f.kind, f.n)
Cell(f, i) == f.at + PreludeSize(f.kind) + i

(* Mutant: a cell of an AND frame is numbered from 0. *)
StackLocFromZero(k, e, i) == <<k, e, i>>

(* stack_loc_as_cell!: cells of AND frames are numbered from 1. *)
StackLoc(k, e, i) == <<k, e, IF k = "and" THEN i + 1 ELSE i>>

StackInit ==
  /\ size = InitSize
  /\ ptr = 0
  /\ mem = [i \in 0..InitSize - 1 |-> Junk]
  /\ frames = {}

-----------------------------------------------------------------------------
(* RawBlock::alloc finds room for w words. *)
Fits(w) == size - ptr >= w

(* Mutant: the words of the old block are not carried over. *)
ReallocLoses(i) == Junk

(* alloc::realloc keeps the words of the old block; the rest is undefined. *)
Realloc(i) == IF i < size THEN mem[i] ELSE Junk

(* Mutant: the space of the new frame is not taken. *)
PtrNotBumped(w) == size

(* RawBlock::grow sets ptr to the old top; alloc then takes w words there. *)
PtrAfterGrowing(w) == size + w

(* What allocate_and_frame and allocate_or_frame write once the cells of the *)
(* new frame start at word q: the cells first, counted from q, then the      *)
(* prelude of the frame at e.                                                *)
Fill(m, k, n, e, q) ==
  [i \in DOMAIN m |->
     IF i \in e..e + PreludeSize(k) - 1 THEN Prelude
     ELSE IF i \in q + PreludeSize(k)..q + SizeOf(k, n) - 1
          THEN StackLoc(k, e, i - q - PreludeSize(k))
          ELSE m[i]]

NewFrame(k, n, moved) == [kind |-> k, at |-> ptr, n |-> n, moved |-> moved]

(* allocate_and_frame, allocate_or_frame when the frame fits. *)
Allocate(k, n) ==
  /\ Fits(SizeOf(k, n))
  /\ ptr' = ptr + SizeOf(k, n)
  /\ mem' = Fill(mem, k, n, ptr, ptr)
  /\ frames' = frames \cup {NewFrame(k, n, FALSE)}
  /\ UNCHANGED size

(* The same when it does not fit: RawBlock::grow doubles the block and sets  *)
(* ptr to the old top, where alloc then puts the cells, while the frame's    *)
(* name is the ptr read before.  When realloc fails nothing changes.         *)
AllocateGrowing(k, n) ==
  /\ ~Fits(SizeOf(k, n))
  /\ 2 * size <= MaxSize
  /\ size' = 2 * size
  /\ ptr' = PtrAfterGrowing(SizeOf(k, n))
  /\ mem' = Fill([i \in 0..2 * size - 1 |-> Realloc(i)], k, n, ptr, size)
  /\ frames' = frames \cup {NewFrame(k, n, ptr # size)}

(* IndexMut: an instruction stores a value in cell i of live frame f. *)
SetCell(f, i) ==
  /\ f \in frames /\ i \in 0..f.n - 1
  /\ mem' = [mem EXCEPT ![Cell(f, i)] = Val]
  /\ UNCHANGED <<size, ptr, frames>>

(* truncate(b): a pop of frame f and everything above it (trust, backtrack), *)
(* or of everything above f (deallocate).                                    *)
Truncate(b) ==
  /\ ptr' = IF b < ptr THEN b ELSE ptr
  /\ frames' = {f \in frames : f.at < b}
  /\ UNCHANGED <<size, mem>>

StackNext ==
  \/ \E k \in Kinds, n \in CellCounts : Allocate(k, n) \/ AllocateGrowing(k, n)
  \/ \E f \in frames : \E i \in 0..f.n - 1 : SetCell(f, i)
  \/ \E f \in frames : Truncate(f.at) \/ Truncate(End(f))

StackSpec == StackInit /\ [][StackNext]_stackVars

-----------------------------------------------------------------------------
(* Every variable has its type, and the first free word is in the block. *)
StackTypeOK ==
  /\ size \in Nat /\ ptr \in Nat /\ ptr <= size
  /\ mem = [i \in 0..size - 1 |-> mem[i]]
  /\ frames \in SUBSET Frame

(* No two live frames share a word, and none reaches past the first free     *)
(* word, also when the block grew between reading ptr and taking the space   *)
(* and when part of the stack was truncated before.                          *)
FramesApart ==
  /\ \A f \in frames : End(f) <= ptr
  /\ \A f, g \in frames : f # g => End(f) <= g.at \/ End(g) <= f.at

Words(m, f) == [i \in f.at..End(f) - 1 |-> m[i]]

(* Allocating, growing and truncating never change a word of a frame that    *)
(* stays live; only a store into the frame itself does, one cell at a time.  *)
FramesStable ==
  [][\A f \in frames \cap frames' :
       \/ Words(mem', f) = Words(mem, f)
       \/ \E i \in 0..f.n - 1 : Words(mem', f) = [Words(mem, f) EXCEPT ![Cell(f, i)] = Val]]_stackVars

Initialised(f) ==
  \A i \in 0..f.n - 1 : mem[Cell(f, i)] \in {Val, <<f.kind, f.at, IF f.kind = "and" THEN i + 1 ELSE i>>}

(* The cells of a frame refer to themselves until something is stored in     *)
(* them, for every frame the block did not have to grow for: memory left     *)
(* over from frames truncated before is never seen through a new frame.      *)
InitialisedUnlessMoved == \A f \in frames : ~f.moved => Initialised(f)

(* What the test of stack.rs asserts of every frame it allocates: each cell  *)
(* of a new frame refers to itself.  The code does not have it: it fails for *)
(* the frame whose allocation makes the block grow.                          *)
FreshFrameInitialised == \A f \in frames : Initialised(f)
==============================================================================
