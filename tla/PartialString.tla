--------------------------- MODULE PartialString ---------------------------
(***************************************************************************)
(* Strings on the heap.  A partial string is the bytes of its characters,  *)
(* written from a cell boundary on, zeroes up to a cell boundary, and the  *)
(* tail cell; a place inside it is a byte address.  These are the heap's   *)
(* operations on them: writing, scanning, splitting off a character,       *)
(* comparing two and copying one.                                          *)
(*                                                                         *)
(* The heap is the sequence of its cells; cell i of the code is h[i + 1].  *)
(* A cell of string data holds WordBytes bytes.                            *)
(***************************************************************************)
EXTENDS Integers, Sequences, SequencesExt

CONSTANTS
    WordBytes,  \* bytes per cell (Heap::heap_cell_alignment)
    Encoding    \* the bytes of each character but NUL

ASSUME StringAssumption ==
    /\ WordBytes \in Nat \ {0, 1}
    /\ \A c \in DOMAIN Encoding : Len(Encoding[c]) > 0 /\ 0 \notin Range(Encoding[c])

NUL == "NUL"

-----------------------------------------------------------------------------
(* Cells and addresses.                                                    *)

TaggedCell(t, v) == [t |-> t, v |-> v]
HeapVar(h)    == TaggedCell("var", h)
AttrVar(h)    == TaggedCell("attr", h)
StackVar(i)   == TaggedCell("stack", i)
Functor(n, a) == TaggedCell("atom", <<n, a>>)
AtomCell(n)   == Functor(n, 0)
StrLoc(s)     == TaggedCell("str", s)
ListLoc(l)    == TaggedCell("lis", l)
PStrLoc(l)    == TaggedCell("pstr", l)
DataCell(b)   == TaggedCell("bytes", b)
EmptyList     == AtomCell("[]")

CellIndex(a) == a \div WordBytes
HeapIndex(i) == i * WordBytes

At(h, i) == h[i + 1]

\* A byte of string data; beyond the heap there is nothing.
ByteAt(h, a) ==
    IF CellIndex(a) < Len(h) THEN At(h, CellIndex(a)).v[(a % WordBytes) + 1] ELSE 0

-----------------------------------------------------------------------------
(* Writing.                                                                *)

\* pstr_sentinel_length: the zeroes from a string's end to a cell boundary, at least
\* one.
SentinelLength(n) == WordBytes - (n % WordBytes)

Zeroes(n) == [i \in 1 .. n |-> 0]

\* After a single zero another cell of them follows.
Padded(bytes) ==
    LET z == SentinelLength(Len(bytes))
    IN  bytes \o Zeroes(IF z = 1 THEN 1 + WordBytes ELSE z)

InCells(bytes) ==
    [i \in 1 .. Len(bytes) \div WordBytes |->
        DataCell(SubSeq(bytes, HeapIndex(i - 1) + 1, HeapIndex(i)))]

Encoded(s) == FlattenSeq([i \in 1 .. Len(s) |-> Encoding[s[i]]])

PushSegment(h, s) == IF s = <<>> THEN h ELSE h \o InCells(Padded(Encoded(s)))

\* A string splits into NULs and the runs of characters between them.
Pieces(src) ==
    LET Add(ps, c) == IF c # NUL /\ ps # <<>> /\ Last(ps) # <<NUL>>
                      THEN Front(ps) \o <<Append(Last(ps), c)>> ELSE Append(ps, <<c>>)
    IN  FoldLeft(Add, <<>>, src)

\* push_pstr.  A run becomes a segment, NUL a list cell; every piece but the first is
\* the tail of the piece before it.
PushPiece(w, p) ==
    LET n == Len(w.h)
        at == IF w.ret = <<>> THEN n ELSE n + 1
        loc == IF p = <<NUL>> THEN ListLoc(at) ELSE PStrLoc(HeapIndex(at))
        linked == IF w.ret = <<>> THEN w.h ELSE Append(w.h, loc)
    IN  [h   |-> IF p = <<NUL>> THEN Append(linked, AtomCell(NUL)) ELSE PushSegment(linked, p),
         ret |-> IF w.ret = <<>> THEN <<loc>> ELSE w.ret]

PushPStr(h, src) == FoldLeft(PushPiece, [h |-> h, ret |-> <<>>], Pieces(src))

\* allocate_cstr: the heap with the whole string on it, and its cell.
AllocateCstr(h, src) ==
    LET w == PushPStr(h, src)
    IN  IF w.ret = <<>> THEN [h |-> h, cell |-> EmptyList]
        ELSE [h |-> Append(w.h, EmptyList), cell |-> w.ret[1]]

-----------------------------------------------------------------------------
(* Reading.                                                                *)

\* The length of the string data from byte address a on.
StringLen(h, a) ==
    CHOOSE n \in 0 .. HeapIndex(Len(h)) :
        /\ ByteAt(h, a + n) = 0
        /\ \A m \in 0 .. n - 1 : ByteAt(h, a + m) # 0

RoundUp(n) == HeapIndex((n + WordBytes - 1) \div WordBytes)

\* scan_slice_to_str: how many cells after that of address a the tail is, when the
\* string is n bytes long from there.
TailOffset(a, n) ==
    LET z == SentinelLength(a + n)
    IN  CellIndex(RoundUp(n + z)) + (IF z <= 1 THEN 1 ELSE 0)

\* scan_slice_to_str of the heap: the index of the tail cell.
TailIdx(h, a) == CellIndex(a) + TailOffset(a, StringLen(h, a))

\* pstr_tail_idx: the same from the address of the first zero.
PStrTailIdx(z) == CellIndex(z) + (IF (z + 1) % WordBytes = 0 THEN 2 ELSE 1)

\* The character at byte address a (PStrSegmentIter::next).
CharAt(h, a) ==
    CHOOSE c \in DOMAIN Encoding :
        \A i \in 1 .. Len(Encoding[c]) : ByteAt(h, a + i - 1) = Encoding[c][i]

After(h, a) == a + Len(Encoding[CharAt(h, a)])

\* last_str_char_and_tail: what follows the first character.
SuccCell(h, a) ==
    IF ByteAt(h, After(h, a)) = 0 THEN HeapVar(TailIdx(h, a)) ELSE PStrLoc(After(h, a))

\* read_s and arg/3 look at the byte after the character instead.
ReadTail(h, a) ==
    IF ByteAt(h, After(h, a)) = 0 THEN HeapVar(PStrTailIdx(After(h, a)))
    ELSE PStrLoc(After(h, a))

\* compare_pstr_slices.  The strings agree up to the first place where they differ or
\* one ends; where one ends, its tail is to be compared with the rest of the other.
SplitPos(h, a, b) ==
    CHOOSE n \in 0 .. HeapIndex(Len(h)) :
        /\ ByteAt(h, a + n) # ByteAt(h, b + n) \/ ByteAt(h, a + n) = 0
        /\ \A m \in 0 .. n - 1 : ByteAt(h, a + m) = ByteAt(h, b + m) /\ ByteAt(h, a + m) # 0

\* The tail of the string that ends n bytes after a.
TailAfter(a, n) == HeapVar(CellIndex(a) + TailOffset(a + n, 0) + CellIndex(n + (a % WordBytes)))

\* The same as it is computed for the first string when only that one ends: the place
\* of a within its cell is left out.
TailAfterFirst(a, n) == HeapVar(CellIndex(a) + TailOffset(a + n, 0) + CellIndex(n))

\* Mutant: neither string's place within its cell counts.
CompareRounded(h, a, b) ==
    LET n == SplitPos(h, a, b)
        x == ByteAt(h, a + n)
        y == ByteAt(h, b + n)
    IN  IF x # 0 /\ y # 0 THEN [res |-> IF x < y THEN "less" ELSE "greater"]
        ELSE [res |-> "continue",
              v1 |-> IF x # 0 THEN PStrLoc(a + n) ELSE TailAfterFirst(a, n),
              v2 |-> IF y # 0 THEN PStrLoc(b + n) ELSE TailAfterFirst(b, n)]

CompareSegments(h, a, b) ==
    LET n == SplitPos(h, a, b)
        x == ByteAt(h, a + n)
        y == ByteAt(h, b + n)
    IN  IF x # 0 /\ y # 0 THEN [res |-> IF x < y THEN "less" ELSE "greater"]
        ELSE [res |-> "continue",
              v1 |-> IF x # 0 THEN PStrLoc(a + n)
                     ELSE IF y # 0 THEN TailAfterFirst(a, n) ELSE TailAfter(a, n),
              v2 |-> IF y # 0 THEN PStrLoc(b + n) ELSE TailAfter(b, n)]

\* copy_pstr_within: the data from a on, at the end of the heap; the caller writes the
\* tail.
CopyPStr(h, a) ==
    h \o InCells(Padded([i \in 1 .. StringLen(h, a) |-> ByteAt(h, a + i - 1)]))

\* compute_pstr_size, in bytes: one more cell for the tail.  A run that follows a NUL
\* also takes a cell that links it, which is not counted; what hides it is that the
\* result is handed to reserve, which takes it for a number of cells.
PieceSize(p) == IF p = <<NUL>> THEN 2 ELSE TailOffset(0, Len(Encoded(p)))
PStrSize(src) ==
    HeapIndex(FoldLeft(LAMBDA n, p : n + PieceSize(p), 0, Pieces(src)) + 1)

-----------------------------------------------------------------------------
(* What a string stands for.                                               *)

\* The tail of the string data at address a is the first cell after it that is none.
TrueTail(h, a) ==
    CHOOSE i \in CellIndex(a) .. Len(h) - 1 :
        /\ At(h, i).t # "bytes"
        /\ \A j \in CellIndex(a) .. i - 1 : At(h, j).t = "bytes"

\* The characters from cell c on, read one by one with Next, to at most n.
CharsOf(h, c, Next(_, _), n) ==
    LET Value(x) == IF x.t = "var" THEN At(h, x.v) ELSE x
        Step(r, i) == CASE r.at.t = "pstr" -> [got |-> Append(r.got, CharAt(h, r.at.v)),
                                               at |-> Value(Next(h, r.at.v))]
                        [] r.at.t = "lis"  -> [got |-> Append(r.got, At(h, r.at.v).v[1]),
                                               at |-> At(h, r.at.v + 1)]
                        [] OTHER           -> r
    IN  FoldLeft(Step, [got |-> <<>>, at |-> c], [i \in 1 .. n |-> i])

\* Reading a string back character by character, in both ways the machine does it,
\* gives the characters it was made from and ends at the empty list; it takes no more
\* cells than were reserved for it.
ReadsBack(h, src) ==
    LET w == AllocateCstr(h, src)
        whole == [got |-> src, at |-> EmptyList]
    IN  /\ CharsOf(w.h, w.cell, SuccCell, Len(src) + 1) = whole
        /\ CharsOf(w.h, w.cell, ReadTail, Len(src) + 1) = whole
        /\ Len(w.h) - Len(h) <= PStrSize(src) + 1

\* The places a string of one segment at cell i can be entered: its characters.
Places(i, s) == {HeapIndex(i) + Len(Encoded(SubSeq(s, 1, k))) : k \in 0 .. Len(s) - 1}

\* What the result of comparing the strings at a and b must be: the places reached
\* when the common part is read off both.
RestAt(h, a, n) == IF ByteAt(h, a + n) = 0 THEN HeapVar(TrueTail(h, a)) ELSE PStrLoc(a + n)

\* The first string ends first, and in another cell than its place within the cell
\* suggests.
Misplaced(h, a, b) ==
    LET n == SplitPos(h, a, b)
    IN  ByteAt(h, a + n) = 0 /\ ByteAt(h, b + n) # 0 /\ TailAfterFirst(a, n) # TailAfter(a, n)

ComparesAt(h, a, b) ==
    LET n == SplitPos(h, a, b)
        r == CompareSegments(h, a, b)
    IN  IF r.res = "continue" /\ ~Misplaced(h, a, b)
        THEN r.v1 = RestAt(h, a, n) /\ r.v2 = RestAt(h, b, n)
        ELSE TRUE

\* Two strings on one heap, compared from every pair of places, and each copied from
\* every place.
SegmentsExact(h, s1, s2) ==
    LET h1 == Append(PushSegment(h, s1), EmptyList)
        h2 == Append(PushSegment(h1, s2), EmptyList)
        copied(a) == Append(CopyPStr(h2, a), EmptyList)
    IN  \A a \in Places(Len(h), s1), b \in Places(Len(h1), s2) :
           /\ ComparesAt(h2, a, b) /\ ComparesAt(h2, b, a)
           /\ \A c \in {a, b} :
                 /\ TailIdx(h2, c) = TrueTail(h2, c)
                 /\ CharsOf(copied(c), PStrLoc(HeapIndex(Len(h2))), SuccCell, 9)
                       = CharsOf(h2, PStrLoc(c), SuccCell, 9)

=============================================================================
