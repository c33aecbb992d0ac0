----------------------------- MODULE StackProofs -----------------------------
(***************************************************************************)
(* Frames of the local stack never overlap, never change under each other   *)
(* and are initialised, for all prelude sizes, cell counts and block sizes. *)
(* The argument: FramesApart is inductive with StackTypeOK because a frame's *)
(* space always starts at ptr or, when the block grew, ends before the new  *)
(* ptr; a truncation point is the start or the end of a live frame, so no   *)
(* other frame straddles it.  That a frame fits once the block has grown    *)
(* needs the strengthening: the block is never smaller than it was first.   *)
(***************************************************************************)
EXTENDS Stack, TLAPS

Inv == StackTypeOK /\ FramesApart /\ InitSize <= size

(* The size of a frame is a positive number of words, that of its cells and  *)
(* of a prelude that is not empty.                                           *)
LEMMA SizeFacts ==
  ASSUME NEW k \in Kinds, NEW n \in CellCounts
  PROVE  /\ n \in Nat
         /\ PreludeSize(k) \in Nat \ {0}
         /\ SizeOf(k, n) \in Nat \ {0}
         /\ SizeOf(k, n) = PreludeSize(k) + n
         /\ SizeOf(k, n) <= InitSize
  <1>1. n \in Nat BY StackAssumption
  <1>2. PreludeSize(k) \in Nat \ {0} BY StackAssumption DEF PreludeSize, Kinds
  <1>3. PreludeSize(k) + n <= InitSize BY StackAssumption
  <1> QED BY <1>1, <1>2, <1>3, StackAssumption DEF SizeOf

(* A frame occupies a non-empty range of words and its cells end with it. *)
LEMMA FrameFacts ==
  ASSUME NEW f \in Frame
  PROVE  /\ f.at \in Nat /\ f.n \in Nat /\ f.kind \in Kinds /\ f.n \in CellCounts
         /\ PreludeSize(f.kind) \in Nat \ {0}
         /\ End(f) = f.at + PreludeSize(f.kind) + f.n
         /\ End(f) \in Nat /\ f.at < End(f)
  <1>1. f.at \in Nat /\ f.kind \in Kinds /\ f.n \in CellCounts BY DEF Frame
  <1>2. f.n \in Nat /\ PreludeSize(f.kind) \in Nat \ {0}
        /\ SizeOf(f.kind, f.n) = PreludeSize(f.kind) + f.n
    BY <1>1, SizeFacts
  <1> QED BY <1>1, <1>2 DEF End

(* In the first state there is nothing on the stack. *)
LEMMA InitInv == StackInit => Inv
  <1> SUFFICES ASSUME StackInit PROVE Inv OBVIOUS
  <1> USE DEF StackInit
  <1>1. StackTypeOK BY StackAssumption DEF StackTypeOK
  <1>2. FramesApart BY DEF FramesApart
  <1>3. InitSize <= size BY StackAssumption
  <1> QED BY <1>1, <1>2, <1>3 DEF Inv

(* A new frame that starts at ptr and ends before the new ptr keeps the      *)
(* frames apart.                                                             *)
LEMMA AddFrame ==
  ASSUME StackTypeOK, FramesApart, NEW k \in Kinds, NEW n \in CellCounts, NEW m \in BOOLEAN,
         frames' = frames \cup {NewFrame(k, n, m)},
         ptr' \in Nat, ptr + SizeOf(k, n) <= ptr'
  PROVE  frames' \in SUBSET Frame /\ FramesApart'
  <1> DEFINE g == NewFrame(k, n, m)
  <1>1. ptr \in Nat /\ frames \in SUBSET Frame BY DEF StackTypeOK
  <1>2. g \in Frame /\ g.at = ptr /\ g.kind = k /\ g.n = n
    BY <1>1 DEF NewFrame, Frame
  <1>3. End(g) = ptr + SizeOf(k, n) /\ SizeOf(k, n) \in Nat BY <1>2, SizeFacts DEF End
  <1>4. \A f \in frames : End(f) <= ptr /\ End(f) \in Nat
    BY <1>1, FrameFacts DEF FramesApart
  <1>5. \A f \in frames' : End(f) <= ptr'
    <2> HIDE DEF g
    <2> SUFFICES ASSUME NEW f \in frames' PROVE End(f) <= ptr' OBVIOUS
    <2>1. CASE f \in frames BY <2>1, <1>1, <1>3, <1>4
    <2>2. CASE f = g BY <2>2, <1>3
    <2> QED BY <2>1, <2>2 DEF g
  <1>6. \A f, h \in frames' : f # h => End(f) <= h.at \/ End(h) <= f.at
    <2> SUFFICES ASSUME NEW f \in frames', NEW h \in frames', f # h
                 PROVE  End(f) <= h.at \/ End(h) <= f.at
      OBVIOUS
    <2> HIDE DEF g
    <2>1. CASE f \in frames /\ h \in frames BY <2>1 DEF FramesApart
    <2>2. CASE f \in frames /\ h = g BY <2>2, <1>2, <1>4
    <2>3. CASE f = g /\ h \in frames BY <2>3, <1>2, <1>4
    <2> QED BY <2>1, <2>2, <2>3 DEF g
  <1>7. frames' \in SUBSET Frame BY <1>1, <1>2
  <1> QED BY <1>5, <1>6, <1>7 DEF FramesApart, End, SizeOf, PreludeSize

(* Every step keeps the frames apart. *)
LEMMA StepInv == Inv /\ [StackNext]_stackVars => Inv'
  <1> SUFFICES ASSUME StackTypeOK, FramesApart, InitSize <= size, [StackNext]_stackVars PROVE Inv'
    BY DEF Inv
  <1>0. size \in Nat /\ ptr \in Nat /\ ptr <= size /\ frames \in SUBSET Frame
        /\ mem = [i \in 0..size - 1 |-> mem[i]]
    BY DEF StackTypeOK
  <1>1. ASSUME NEW k \in Kinds, NEW n \in CellCounts, Allocate(k, n) PROVE Inv'
    <2>1. size' = size /\ ptr' = ptr + SizeOf(k, n) /\ size - ptr >= SizeOf(k, n)
      BY <1>1 DEF Allocate, Fits
    <2>2. ptr' \in Nat /\ ptr' <= size' /\ ptr + SizeOf(k, n) <= ptr'
      BY <2>1, <1>0, SizeFacts
    <2>3. frames' \in SUBSET Frame /\ FramesApart'
      BY <1>1, <2>2, AddFrame DEF Allocate
    <2>4. mem' = [i \in 0..size' - 1 |-> mem'[i]]
      BY <1>1, <1>0, <2>1 DEF Allocate, Fill
    <2> QED BY <1>0, <2>1, <2>2, <2>3, <2>4 DEF Inv, StackTypeOK
  <1>2. ASSUME NEW k \in Kinds, NEW n \in CellCounts, AllocateGrowing(k, n) PROVE Inv'
    <2>1. size' = 2 * size /\ ptr' = size + SizeOf(k, n)
      BY <1>2 DEF AllocateGrowing, PtrAfterGrowing
    <2>2. ptr' \in Nat /\ ptr + SizeOf(k, n) <= ptr' BY <2>1, <1>0, SizeFacts
    <2>3. frames' \in SUBSET Frame /\ FramesApart'
      BY <1>2, <2>2, AddFrame DEF AllocateGrowing
    <2>4. mem' = [i \in 0..size' - 1 |-> mem'[i]]
      BY <1>2, <1>0, <2>1 DEF AllocateGrowing, Fill
    <2>5. ptr' <= size' BY <2>1, <1>0, SizeFacts, StackAssumption
    <2>6. InitSize <= size' BY <2>1, <1>0, StackAssumption
    <2> QED BY <1>0, <2>1, <2>2, <2>3, <2>4, <2>5, <2>6 DEF Inv, StackTypeOK
  <1>3. ASSUME NEW f \in frames, NEW i \in 0..f.n - 1, SetCell(f, i) PROVE Inv'
    <2>1. size' = size /\ ptr' = ptr /\ frames' = frames
          /\ mem' = [mem EXCEPT ![Cell(f, i)] = Val]
      BY <1>3 DEF SetCell
    <2>2. mem' = [j \in 0..size' - 1 |-> mem'[j]] BY <1>0, <2>1
    <2>3. StackTypeOK' BY <1>0, <2>1, <2>2 DEF StackTypeOK
    <2>4. FramesApart' BY <2>1 DEF FramesApart, End, SizeOf, PreludeSize
    <2> QED BY <2>1, <2>3, <2>4 DEF Inv
  <1>4. ASSUME NEW g \in frames, NEW t \in Nat, t = g.at \/ t = End(g), Truncate(t)
        PROVE  Inv'
    <2>1. size' = size /\ mem' = mem /\ ptr' = (IF t < ptr THEN t ELSE ptr)
          /\ frames' = {f \in frames : f.at < t}
      BY <1>4 DEF Truncate
    <2>2. StackTypeOK' BY <1>0, <2>1 DEF StackTypeOK
    <2>3. \A f \in frames : f.at \in Nat /\ End(f) \in Nat /\ f.at < End(f) BY <1>0, FrameFacts
    <2>4. \A f \in frames' : End(f) <= ptr'
      <3> SUFFICES ASSUME NEW f \in frames, f.at < t PROVE End(f) <= ptr' BY <2>1
      <3>1. End(f) <= ptr BY DEF FramesApart
      <3>2. End(f) <= t
        <4>1. CASE f = g BY <4>1, <1>4, <2>3
        <4>2. CASE f # g
          <5>1. End(f) <= g.at \/ End(g) <= f.at BY <4>2 DEF FramesApart
          <5> QED BY <5>1, <1>4, <2>3
        <4> QED BY <4>1, <4>2
      <3> QED BY <3>1, <3>2, <2>1
    <2>5. \A f, h \in frames' : f # h => End(f) <= h.at \/ End(h) <= f.at
      BY <2>1 DEF FramesApart
    <2>6. FramesApart' BY <2>4, <2>5 DEF FramesApart, End, SizeOf, PreludeSize
    <2> QED BY <2>1, <2>2, <2>6 DEF Inv
  <1>5. CASE UNCHANGED stackVars
    <2>1. StackTypeOK' BY <1>0, <1>5 DEF StackTypeOK, stackVars
    <2>2. FramesApart' BY <1>5 DEF FramesApart, End, SizeOf, PreludeSize, stackVars
    <2> QED BY <1>5, <2>1, <2>2 DEF Inv, stackVars
  <1>6. \A g \in frames : g.at \in Nat /\ End(g) \in Nat BY <1>0, FrameFacts
  <1> QED BY <1>1, <1>2, <1>3, <1>4, <1>5, <1>6 DEF StackNext

(* StackTypeOK holds for every choice of the constants. *)
THEOREM TypeCorrect == StackSpec => []StackTypeOK
  <1>1. Inv => StackTypeOK BY DEF Inv
  <1> QED BY <1>1, InitInv, StepInv, PTL DEF StackSpec

(* Live frames never share a word and lie below ptr (FramesApart), whatever  *)
(* the sizes of preludes, frames and blocks.                                 *)
THEOREM NoOverlap == StackSpec => []FramesApart
  <1>1. Inv => FramesApart BY DEF Inv
  <1> QED BY <1>1, InitInv, StepInv, PTL DEF StackSpec

-----------------------------------------------------------------------------
(* A cell of a live frame lies between its prelude and its end. *)
LEMMA CellFacts ==
  ASSUME NEW f \in Frame, NEW i \in 0..f.n - 1
  PROVE  Cell(f, i) \in Nat /\ f.at <= Cell(f, i) /\ Cell(f, i) < End(f)
  BY FrameFacts DEF Cell

(* Allocation writes no word below the old ptr. *)
LEMMA WritesAbove ==
  ASSUME Inv, NEW k \in Kinds, NEW n \in CellCounts,
         Allocate(k, n) \/ AllocateGrowing(k, n),
         NEW w \in 0..ptr - 1
  PROVE  mem'[w] = mem[w]
  <1>0. size \in Nat /\ ptr \in Nat /\ ptr <= size /\ DOMAIN mem = 0..size - 1
    BY DEF Inv, StackTypeOK
  <1>1. PreludeSize(k) \in Nat BY SizeFacts
  <1>2. CASE Allocate(k, n)
    <2>1. mem' = Fill(mem, k, n, ptr, ptr) BY <1>2 DEF Allocate
    <2> QED BY <1>0, <1>1, <2>1 DEF Fill
  <1>3. CASE AllocateGrowing(k, n)
    <2>1. mem' = Fill([i \in 0..2 * size - 1 |-> Realloc(i)], k, n, ptr, size)
      BY <1>3 DEF AllocateGrowing
    <2>2. w \in 0..2 * size - 1 /\ Realloc(w) = mem[w] BY <1>0 DEF Realloc
    <2>3. mem'[w] = Realloc(w) BY <1>0, <1>1, <2>1, <2>2 DEF Fill
    <2> QED BY <2>2, <2>3
  <1> QED BY <1>2, <1>3

(* A store into one frame leaves the words of the others alone. *)
LEMMA StoresInside ==
  ASSUME Inv, NEW g \in frames, NEW i \in 0..g.n - 1, SetCell(g, i),
         NEW f \in frames, f # g, NEW w \in f.at..End(f) - 1
  PROVE  mem'[w] = mem[w]
  <1>1. f \in Frame /\ g \in Frame /\ mem = [j \in 0..size - 1 |-> mem[j]]
    BY DEF Inv, StackTypeOK
  <1>2. End(f) <= g.at \/ End(g) <= f.at BY DEF Inv, FramesApart
  <1>3. w # Cell(g, i) BY <1>1, <1>2, FrameFacts, CellFacts
  <1> QED BY <1>1, <1>3 DEF SetCell

(* A step changes at most one word of a live frame, a cell of it. *)
LEMMA StepStable ==
  ASSUME Inv, [StackNext]_stackVars
  PROVE  \A f \in frames \cap frames' :
           \/ Words(mem', f) = Words(mem, f)
           \/ \E i \in 0..f.n - 1 :
                Words(mem', f) = [Words(mem, f) EXCEPT ![Cell(f, i)] = Val]
  <1> SUFFICES ASSUME NEW f \in frames, f \in frames'
               PROVE  \/ Words(mem', f) = Words(mem, f)
                      \/ \E i \in 0..f.n - 1 :
                           Words(mem', f) = [Words(mem, f) EXCEPT ![Cell(f, i)] = Val]
    OBVIOUS
  <1>0. f \in Frame /\ End(f) <= ptr /\ ptr \in Nat BY DEF Inv, StackTypeOK, FramesApart
  <1>1. ASSUME NEW k \in Kinds, NEW n \in CellCounts, Allocate(k, n) \/ AllocateGrowing(k, n)
        PROVE  Words(mem', f) = Words(mem, f)
    <2>1. \A w \in 0..ptr - 1 : mem'[w] = mem[w] BY <1>1, WritesAbove
    <2>2. \A w \in f.at..End(f) - 1 : w \in 0..ptr - 1 BY <1>0, FrameFacts
    <2>3. \A w \in f.at..End(f) - 1 : mem'[w] = mem[w] BY <2>1, <2>2
    <2> QED BY <2>3 DEF Words
  <1>2. ASSUME NEW g \in frames, NEW i \in 0..g.n - 1, SetCell(g, i), f # g
        PROVE  Words(mem', f) = Words(mem, f)
    <2>1. \A w \in f.at..End(f) - 1 : mem'[w] = mem[w] BY <1>2, StoresInside
    <2> QED BY <2>1 DEF Words
  <1>3. ASSUME NEW i \in 0..f.n - 1, SetCell(f, i)
        PROVE  Words(mem', f) = [Words(mem, f) EXCEPT ![Cell(f, i)] = Val]
    <2>1. mem' = [mem EXCEPT ![Cell(f, i)] = Val] BY <1>3 DEF SetCell
    <2>2. mem = [j \in 0..size - 1 |-> mem[j]] /\ ptr <= size /\ size \in Nat BY DEF Inv, StackTypeOK
    <2>3. \A w \in f.at..End(f) - 1 : w \in 0..size - 1 BY <1>0, <2>2, FrameFacts
    <2>4. \A w \in f.at..End(f) - 1 : mem'[w] = IF w = Cell(f, i) THEN Val ELSE mem[w]
      BY <2>1, <2>2, <2>3
    <2> QED BY <2>4 DEF Words
  <1>4. ASSUME NEW t, Truncate(t) PROVE Words(mem', f) = Words(mem, f)
    BY <1>4 DEF Truncate, Words
  <1>5. CASE UNCHANGED stackVars BY <1>5 DEF stackVars, Words
  <1> QED BY <1>1, <1>2, <1>3, <1>4, <1>5 DEF StackNext

(* Allocating, growing and truncating never disturb a live frame             *)
(* (FramesStable), whatever the sizes.                                       *)
THEOREM Stability == StackSpec => FramesStable
  <1>1. Inv /\ [StackNext]_stackVars =>
          [\A f \in frames \cap frames' :
             \/ Words(mem', f) = Words(mem, f)
             \/ \E i \in 0..f.n - 1 :
                  Words(mem', f) = [Words(mem, f) EXCEPT ![Cell(f, i)] = Val]]_stackVars
    BY StepStable
  <1> QED BY <1>1, InitInv, StepInv, PTL DEF StackSpec, FramesStable

-----------------------------------------------------------------------------
(* A frame filled in where its name says gets its cells initialised. *)
LEMMA NewFrameInitialised ==
  ASSUME Inv, NEW k \in Kinds, NEW n \in CellCounts, NEW m, NEW top \in Nat,
         NEW g, g = NewFrame(k, n, FALSE),
         DOMAIN m = 0..top - 1, ptr + SizeOf(k, n) <= top,
         mem' = Fill(m, k, n, ptr, ptr)
  PROVE  Initialised(g)'
  <1>0. ptr \in Nat BY DEF Inv, StackTypeOK
  <1>1. PreludeSize(k) \in Nat /\ n \in Nat /\ SizeOf(k, n) = PreludeSize(k) + n BY SizeFacts
  <1>2. ASSUME NEW i \in 0..n - 1
        PROVE  mem'[ptr + PreludeSize(k) + i] = StackLoc(k, ptr, i)
    <2> DEFINE w == ptr + PreludeSize(k) + i
    <2>1. w \in 0..top - 1 BY <1>0, <1>1
    <2>2. w \notin ptr..ptr + PreludeSize(k) - 1 BY <1>0, <1>1
    <2>3. w \in ptr + PreludeSize(k)..ptr + SizeOf(k, n) - 1 BY <1>0, <1>1
    <2>4. w - ptr - PreludeSize(k) = i BY <1>0, <1>1
    <2>5. mem'[w] = StackLoc(k, ptr, w - ptr - PreludeSize(k))
      <3> HIDE DEF w
      <3> QED BY <2>1, <2>2, <2>3 DEF Fill
    <2> QED BY <2>4, <2>5
  <1>3. g.at = ptr /\ g.kind = k /\ g.n = n BY DEF NewFrame
  <1>4. ASSUME NEW i \in 0..g.n - 1
        PROVE  mem'[Cell(g, i)] = <<g.kind, g.at, IF g.kind = "and" THEN i + 1 ELSE i>>
    BY <1>2, <1>3 DEF Cell, StackLoc
  <1>5. \A i \in 0..g.n - 1 :
          mem'[Cell(g, i)] \in {Val, <<g.kind, g.at, IF g.kind = "and" THEN i + 1 ELSE i>>}
    BY <1>4
  <1> QED BY <1>5 DEF Initialised, Cell, PreludeSize

(* A live frame stays initialised. *)
LEMMA StaysInitialised ==
  ASSUME Inv, [StackNext]_stackVars, NEW f \in frames, f \in frames', Initialised(f)
  PROVE  Initialised(f)'
  <1>0. f \in Frame BY DEF Inv, StackTypeOK
  <1>1. \A i \in 0..f.n - 1 : mem'[Cell(f, i)] \in {mem[Cell(f, i)], Val}
    <2> SUFFICES ASSUME NEW i \in 0..f.n - 1 PROVE mem'[Cell(f, i)] \in {mem[Cell(f, i)], Val}
      OBVIOUS
    <2>1. Cell(f, i) \in f.at..End(f) - 1 BY <1>0, FrameFacts, CellFacts
    <2>2. CASE Words(mem', f) = Words(mem, f)
      <3>1. mem'[Cell(f, i)] = Words(mem', f)[Cell(f, i)] BY <2>1 DEF Words
      <3>2. mem[Cell(f, i)] = Words(mem, f)[Cell(f, i)] BY <2>1 DEF Words
      <3> QED BY <3>1, <3>2, <2>2
    <2>3. ASSUME NEW j \in 0..f.n - 1,
                 Words(mem', f) = [Words(mem, f) EXCEPT ![Cell(f, j)] = Val]
          PROVE  mem'[Cell(f, i)] \in {mem[Cell(f, i)], Val}
      <3>1. mem'[Cell(f, i)] = Words(mem', f)[Cell(f, i)] BY <2>1 DEF Words
      <3>2. mem[Cell(f, i)] = Words(mem, f)[Cell(f, i)] BY <2>1 DEF Words
      <3>3. Cell(f, i) \in DOMAIN Words(mem, f) BY <2>1 DEF Words
      <3> QED BY <3>1, <3>2, <3>3, <2>3
    <2> QED BY <2>2, <2>3, StepStable
  <1> QED BY <1>1 DEF Initialised, Cell, PreludeSize

(* Cells are never read uninitialised in a frame the block did not grow for  *)
(* (InitialisedUnlessMoved), whatever the sizes.                             *)
THEOREM Initialisation == StackSpec => []InitialisedUnlessMoved
  <1>1. StackInit => InitialisedUnlessMoved BY DEF StackInit, InitialisedUnlessMoved
  <1>2. Inv /\ InitialisedUnlessMoved /\ [StackNext]_stackVars => InitialisedUnlessMoved'
    <2> SUFFICES ASSUME Inv, InitialisedUnlessMoved, [StackNext]_stackVars, NEW f \in frames', ~f.moved
                 PROVE  Initialised(f)'
      BY DEF InitialisedUnlessMoved
    <2>1. CASE f \in frames BY <2>1, StaysInitialised DEF InitialisedUnlessMoved
    <2>2. CASE f \notin frames
      <3>1. ASSUME NEW k \in Kinds, NEW n \in CellCounts, Allocate(k, n)
            PROVE  Initialised(f)'
        <4>1. f = NewFrame(k, n, FALSE) BY <2>2, <3>1 DEF Allocate
        <4>2. size \in Nat /\ ptr \in Nat /\ DOMAIN mem = 0..size - 1 BY DEF Inv, StackTypeOK
        <4>3. ptr + SizeOf(k, n) <= size BY <4>2, <3>1, SizeFacts DEF Allocate, Fits
        <4>4. mem' = Fill(mem, k, n, ptr, ptr) BY <3>1 DEF Allocate
        <4> QED BY <4>1, <4>2, <4>3, <4>4, NewFrameInitialised
      <3>2. ASSUME NEW k \in Kinds, NEW n \in CellCounts, AllocateGrowing(k, n)
            PROVE  Initialised(f)'
        <4> DEFINE old == [i \in 0..2 * size - 1 |-> Realloc(i)]
        <4>1. f = NewFrame(k, n, ptr # size) BY <2>2, <3>2 DEF AllocateGrowing
        <4>2. ptr = size BY <4>1 DEF NewFrame
        <4>3. f = NewFrame(k, n, FALSE) BY <4>1, <4>2
        <4>4. size \in Nat /\ InitSize <= size BY DEF Inv, StackTypeOK
        <4>5. ptr + SizeOf(k, n) <= 2 * size /\ 2 * size \in Nat
          BY <4>2, <4>4, SizeFacts, StackAssumption
        <4>6. mem' = Fill(old, k, n, ptr, ptr) BY <3>2, <4>2 DEF AllocateGrowing
        <4>7. DOMAIN old = 0..2 * size - 1 OBVIOUS
        <4> HIDE DEF old
        <4> QED BY <4>3, <4>5, <4>6, <4>7, NewFrameInitialised
      <3>3. ASSUME NEW g \in frames, NEW i \in 0..g.n - 1, SetCell(g, i) PROVE FALSE
        BY <2>2, <3>3 DEF SetCell
      <3>4. ASSUME NEW t, Truncate(t) PROVE FALSE BY <2>2, <3>4 DEF Truncate
      <3>5. CASE UNCHANGED stackVars BY <2>2, <3>5 DEF stackVars
      <3> QED BY <3>1, <3>2, <3>3, <3>4, <3>5 DEF StackNext
    <2> QED BY <2>1, <2>2
  <1> QED BY <1>1, <1>2, InitInv, StepInv, PTL DEF StackSpec
==============================================================================
