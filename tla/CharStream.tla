----------------------------- MODULE CharStream -----------------------------
(***************************************************************************)
(* One input stream of the machine, from the operating system's bytes up   *)
(* to get_char/2 and its relatives: the CharReader that buffers at most    *)
(* one code point's worth of bytes, the position and end-of-stream         *)
(* bookkeeping of Stream, the end-of-file actions, and the byte, character *)
(* and code input predicates.  A peer sends the contents of sockets, pipes *)
(* and channels a few bytes at a time and may hang up at any moment, in    *)
(* the middle of a character too.                                          *)
(*                                                                         *)
(* Bytes are numbered by their place in the contents; a value delivered to *)
(* the program is the sequence of the byte numbers it was decoded from, so *)
(* that a lost, repeated or misassembled byte is visible.                  *)
(***************************************************************************)
EXTENDS Integers, Sequences, FiniteSetsExt

CONSTANTS
    Word,   \* size_of::<char>(): the most bytes the CharReader buffers
    Bytes,  \* the contents: each byte with the encoded length w of its character,
            \* its place k in it, and whether the character is U+FEFF
    Kinds   \* the kinds of stream in this instance

Size == Len(Bytes)

\* Whether the first n bytes are whole characters.
Whole(n) == n \in {0} \cup {i \in 1 .. Size : Bytes[i].k = Bytes[i].w}

\* The contents are characters, one after the other.
ASSUME StreamAssumption ==
    /\ Word \in Nat \ {0}
    /\ Bytes \in Seq([w : 1 .. Word, k : 1 .. Word, bom : BOOLEAN]) /\ Size > 0
    /\ \A i \in 1 .. Size :
          /\ Bytes[i].k <= Bytes[i].w
          /\ Bytes[i].k = 1 => Whole(i - 1)
          /\ Bytes[i].k > 1 => /\ i > 1 /\ Bytes[i].k = Bytes[i - 1].k + 1
                               /\ Bytes[i].w = Bytes[i - 1].w /\ Bytes[i].bom = Bytes[i - 1].bom
    /\ Whole(Size)
    /\ Kinds \subseteq {"file", "byte", "channel", "tcp", "pipe", "http"}

VARIABLES
    s,     \* the stream
    next,  \* history: how many bytes the program has been given since the last
           \* reset or set_stream_position
    last   \* history: what the last operation delivered

streamVars == <<s, next, last>>

-----------------------------------------------------------------------------
(* The stream.                                                             *)

\* The kinds whose contents are all there when the stream is opened.
Static == {"file", "http"}

\* The kinds whose read waits for the peer.
Blocking == {"tcp", "pipe"}

Options == [type : {"text", "binary"}, eof : {"error", "eof_code", "reset"}, reposition : BOOLEAN]

\* A stream as the constructors leave it: nothing read, nothing buffered.  The
\* option reposition is refused for anything but a file.
NewStream(kind, opt, sent) ==
    [kind |-> kind, opt |-> opt, sent |-> sent, closed |-> kind \in Static,
     cur |-> 0, eof |-> FALSE, buf |-> <<>>, pos |-> 0, past |-> FALSE]

-----------------------------------------------------------------------------
(* The reader underneath and the CharReader around it.                     *)

\* How many of n wanted bytes there are.
Available(t, n) ==
    IF t.kind = "channel" /\ t.eof THEN 0
    ELSE IF t.cur + n <= t.sent THEN n
    ELSE IF t.cur > t.sent THEN 0 ELSE t.sent - t.cur

\* One read of n bytes from the file, cursor, channel, socket or pipe, of which k are
\* to be had.  The channel notes its end as soon as a read comes up short with the
\* sender gone; the blocking kinds wait while there is nothing and the peer is there.
Took(t, n, k) ==
    [data  |-> [i \in 1 .. k |-> t.cur + i],
     waits |-> t.kind \in Blocking /\ k = 0 /\ ~t.closed,
     s     |-> [t EXCEPT !.cur = @ + k,
                         !.eof = @ \/ (t.kind = "channel" /\ k < n /\ t.closed)]]

InnerRead(t, n) == Took(t, n, Available(t, n))

\* What is buffered and not yet consumed.
Rest(t) == SubSeq(t.buf, t.pos + 1, Len(t.buf))

RemBufLen(t) == Len(t.buf) - t.pos

Refilled(r) == [s |-> [r.s EXCEPT !.buf = r.data, !.pos = 0], waits |-> r.waits]

RefreshBuffer(t) ==
    IF t.pos < Len(t.buf) THEN [s |-> t, waits |-> FALSE] ELSE Refilled(InnerRead(t, Word))

\* Whether the first v of some bytes are whole characters: a first byte and as many
\* others as its width asks for, again and again.
Valid(b, v) ==
    \A i \in 1 .. v :
       IF Bytes[b[i]].k = 1
       THEN i + Bytes[b[i]].w - 1 <= v /\ \A j \in i + 1 .. i + Bytes[b[i]].w - 1 : Bytes[b[j]].k > 1
       ELSE \E j \in 1 .. i - 1 : Bytes[b[j]].k = 1 /\ i < j + Bytes[b[j]].w

\* The length of the longest prefix of whole characters (str::from_utf8 and
\* Utf8Error::valid_up_to).
ValidUpTo(b) == Max({v \in 0 .. Len(b) : Valid(b, v)})

FirstChar(b) == SubSeq(b, 1, Bytes[b[1]].w)

\* What str::from_utf8 makes of the n buffered bytes, v of which are whole
\* characters: a character, garbage, or more bytes wanted.
Verdict(n, v) ==
    IF n = 0 THEN "none"
    ELSE IF v = n THEN "char"
    ELSE IF n - v >= Word THEN "bad"
    ELSE IF n >= Word THEN "char"
    ELSE "short"

Decoded(b) == Verdict(Len(b), ValidUpTo(b))

\* One round of peek_char's loop after the short rest was moved to the front and read
\* on: garbage if there was nothing more.
ReadOn(moved, more) ==
    [s |-> [more.s EXCEPT !.buf = moved.buf \o more.data], waits |-> more.waits,
     out |-> IF more.data = <<>> THEN "bad" ELSE Decoded(moved.buf \o more.data)]

Completed(moved) == ReadOn(moved, InnerRead(moved, Word - Len(moved.buf)))

Round(r) ==
    IF r.waits \/ r.out # "short" THEN r
    ELSE Completed([r.s EXCEPT !.buf = Rest(r.s), !.pos = 0])

Peeked(r) ==
    [s |-> r.s, waits |-> r.waits, out |-> r.out,
     got |-> IF r.out = "char" THEN FirstChar(Rest(r.s)) ELSE <<>>]

\* peek_char: refill an empty buffer, then decode, reading on as often as the reader
\* delivers something.  A read that comes up short found nothing more to be had, so
\* that two rounds settle it.
PeekRefreshed(r) ==
    Peeked(Round(Round([s |-> r.s, waits |-> r.waits, out |-> Decoded(Rest(r.s))])))

PeekChar(t) == PeekRefreshed(RefreshBuffer(t))

Consume(t, n) == [t EXCEPT !.pos = @ + n]

Consumed(r) == [r EXCEPT !.s = Consume(@, Len(r.got))]

ReadChar(t) == Consumed(PeekChar(t))

\* CharReader::peek_byte and its read of one byte.
FirstByte(r) ==
    [s |-> r.s, waits |-> r.waits,
     out |-> IF Rest(r.s) = <<>> THEN "none" ELSE "char",
     got |-> IF Rest(r.s) = <<>> THEN <<>> ELSE <<Head(Rest(r.s))>>]

PeekBufferedByte(t) == FirstByte(RefreshBuffer(t))

ReadByte(t) == Consumed(PeekBufferedByte(t))

CursorBack(r, cur) == IF r.got = <<>> THEN r ELSE [r EXCEPT !.s.cur = cur]

\* Stream::peek_byte.  The memory stream reads a byte through its CharReader and
\* puts the cursor underneath back; the socket is peeked at below the buffer, and
\* a byte of 0 stands for one when the peer is gone; pipes, HTTP bodies and
\* channels refuse.
PeekByte(t) ==
    CASE t.kind = "file" -> PeekBufferedByte(t)
      [] t.kind = "byte" ->
            CursorBack(ReadByte(t), t.cur)
      [] t.kind = "tcp" ->
            [s |-> t, waits |-> t.cur = t.sent /\ ~t.closed, out |-> "char",
             got |-> <<IF t.cur < t.sent THEN t.cur + 1 ELSE 0>>]
      [] OTHER -> [s |-> t, waits |-> FALSE, out |-> "denied", got |-> <<>>]

-----------------------------------------------------------------------------
(* Positions and the end of the stream.                                    *)

\* The position a file reports: what was read from it less what is buffered.  A
\* memory stream reports where its cursor is.
Position(t) ==
    CASE t.kind = "file" -> t.cur - RemBufLen(t)
      [] t.kind = "byte" -> t.cur
      [] OTHER           -> 0

\* position_relative_to_end, when the flag past_end_of_stream is not set.
RelativeToEnd(t) ==
    CASE t.kind \in {"file", "byte"} ->
            IF Position(t) = t.sent THEN "at" ELSE IF Position(t) > t.sent THEN "past" ELSE "not"
      [] t.kind = "channel" -> IF t.eof THEN "at" ELSE "not"
      [] t.kind = "http"    -> IF t.cur < t.sent THEN "not" ELSE "past"
      [] OTHER              -> "not"

AtEnd(t) == ~t.past /\ RelativeToEnd(t) = "at"

SetPastEnd(t) == [t EXCEPT !.past = TRUE]

\* Asking for the relative position of a file or a memory stream beyond its end
\* sets the flag.
NoteEnd(t) ==
    [t EXCEPT !.past = @ \/ (t.kind \in {"file", "byte"} /\ RelativeToEnd(t) = "past")]

\* Mutant: the seek leaves the buffer as it is.
SeekOnly(t, p) ==
    IF t.kind # "file" THEN t ELSE [t EXCEPT !.cur = p, !.past = p > t.sent]

\* set_position: only a file seeks; its buffer is dropped and the flag recomputed.
SetPosition(t, p) ==
    IF t.kind # "file" THEN t
    ELSE [t EXCEPT !.cur = p, !.buf = <<>>, !.pos = 0, !.past = p > t.sent]

\* Stream::reset: whether the stream could be rewound, and the stream rewound.  What
\* the CharReader has buffered stays.
Resettable(t) == t.kind \in {"file", "byte", "channel"}

\* Mutant: the flag is cleared and nothing rewound.
ResetFlag(t) == [t EXCEPT !.past = FALSE]

Reset(t) == [t EXCEPT !.past = FALSE, !.cur = IF Resettable(t) THEN 0 ELSE @]

\* eof_action: an error, the end-of-file term unified with the argument, or a
\* reset, which fails on a stream that cannot be rewound.
EofAction(t) ==
    CASE t.opt.eof = "error"    -> [s |-> SetPastEnd(t), out |-> "error"]
      [] t.opt.eof = "eof_code" -> [s |-> SetPastEnd(t), out |-> "end"]
      [] OTHER ->
            IF Resettable(t) THEN [s |-> Reset(t), out |-> "reset"]
            ELSE [s |-> SetPastEnd(t), out |-> "fail"]

-----------------------------------------------------------------------------
(* The input predicates.  An argument is a variable, the end-of-file term, *)
(* a value that will match what is read or one that will not, or a term of *)
(* the wrong type.                                                         *)

Args == {"var", "end", "hit", "miss", "wrong"}

\* An operation's outcome: the stream after it, whether it succeeded, the bytes it
\* delivered, whether it reported the end, and whether the stream was rewound.
Outcome(t, res, got, end, reset) ==
    [s |-> t, res |-> res, got |-> got, end |-> end, reset |-> reset, waits |-> FALSE]

\* The end-of-file term is unified with the argument.
ReportEnd(t, arg, reset) ==
    Outcome(t, IF arg \in {"var", "end"} THEN "true" ELSE "fail", <<>>, TRUE, reset)

\* What was read is unified with the argument; it has been consumed either way.
Deliver(t, arg, got, reset) ==
    Outcome(t, IF arg \in {"var", "hit"} THEN "true" ELSE "fail", got, FALSE, reset)

\* How an end-of-file action ends the operation.  On a text stream the term is
\* end_of_file, for the code predicates too: there -1 does not match it.
AfterAction(a, arg, unit, reset) ==
    CASE a.out = "end" ->
            IF unit = "code" /\ arg = "end" THEN Outcome(a.s, "fail", <<>>, TRUE, reset)
            ELSE ReportEnd(a.s, arg, reset)
      [] a.out = "error" -> Outcome(a.s, "error", <<>>, FALSE, reset)
      [] OTHER           -> Outcome(a.s, "fail", <<>>, FALSE, reset)

\* The operation would block.
Waiting(t) == [Outcome(t, "fail", <<>>, FALSE, FALSE) EXCEPT !.waits = TRUE]

Attempt(how, t) ==
    CASE how = "peek_byte" -> PeekByte(t)
      [] how = "peek_char" -> PeekChar(t)
      [] how = "read_char" -> ReadChar(t)

\* The loop of the peeks and of get_char and get_code: try; on failure take the
\* end-of-file action, and try again if it was a successful reset.  A second
\* failure finds the rewound stream as it was, and so does every later one.
AfterReset(again, arg) ==
    IF again.out = "char" THEN Deliver(again.s, arg, again.got, TRUE)
    ELSE Outcome(again.s, "spin", <<>>, FALSE, TRUE)

AfterFailure(how, a, arg, unit, reset) ==
    IF a.out = "reset" THEN AfterReset(Attempt(how, a.s), arg)
    ELSE AfterAction(a, arg, unit, reset)

AfterAttempt(how, r, arg, unit, reset) ==
    IF r.waits THEN Waiting(r.s)
    ELSE IF r.out = "char" THEN Deliver(r.s, arg, r.got, reset)
    ELSE IF r.out = "denied" THEN Outcome(r.s, "fail", <<>>, FALSE, reset)
    ELSE AfterFailure(how, EofAction(r.s), arg, unit, reset)

TryUntilRead(how, t, arg, unit, reset) == AfterAttempt(how, Attempt(how, t), arg, unit, reset)

\* check_stream_properties: the type must fit, and past the end the action is taken
\* first; the operation goes on only if that rewound the stream.
Entry(t, type) ==
    IF t.opt.type # type THEN [s |-> t, out |-> "error"]
    ELSE IF t.past THEN EofAction(t) ELSE [s |-> NoteEnd(t), out |-> "go"]

Enters(e) == e.out \in {"go", "reset"}

\* The reset, if any, came before the operation proper.
Rewound(e) == e.out = "reset"

DeliverByte(r, arg, reset) ==
    IF r.waits THEN Waiting(r.s)
    ELSE IF r.got # <<>> THEN Deliver(r.s, arg, r.got, reset)
    ELSE ReportEnd(SetPastEnd(r.s), arg, reset)

GetByte(e, arg) ==
    IF ~Enters(e) THEN AfterAction(e, arg, "byte", FALSE)
    ELSE IF arg = "wrong" THEN Outcome(e.s, "error", <<>>, FALSE, Rewound(e))
    ELSE DeliverByte(ReadByte(e.s), arg, Rewound(e))

\* At the end -1 is tried first; an argument it does not match is looked at as a
\* byte after all, and the stream is read.
PeekByteOp(e, arg) ==
    IF ~Enters(e) THEN AfterAction(e, arg, "byte", FALSE)
    ELSE IF AtEnd(e.s) /\ arg \in {"var", "end"} THEN ReportEnd(e.s, arg, Rewound(e))
    ELSE IF arg \in {"end", "wrong"} THEN Outcome(e.s, "error", <<>>, FALSE, Rewound(e))
    ELSE TryUntilRead("peek_byte", e.s, arg, "byte", Rewound(e))

PeekCharOp(e, arg) ==
    IF ~Enters(e) THEN AfterAction(e, arg, "char", FALSE)
    ELSE IF AtEnd(e.s) THEN ReportEnd(e.s, arg, Rewound(e))
    ELSE IF arg \in {"end", "wrong"} THEN Outcome(e.s, "error", <<>>, FALSE, Rewound(e))
    ELSE TryUntilRead("peek_char", e.s, arg, "char", Rewound(e))

PeekCodeOp(e, arg) ==
    IF ~Enters(e) THEN AfterAction(e, arg, "code", FALSE)
    ELSE IF AtEnd(e.s) /\ arg \in {"var", "end"} THEN ReportEnd(e.s, arg, Rewound(e))
    ELSE IF arg \in {"end", "wrong"} THEN Outcome(e.s, "error", <<>>, FALSE, Rewound(e))
    ELSE TryUntilRead("peek_char", e.s, arg, "code", Rewound(e))

\* open_parsing_stream: a look at the next character, which must not be garbage;
\* U+FEFF is skipped.
SkipBom(r) ==
    [s     |-> IF r.got # <<>> /\ Bytes[r.got[1]].bom THEN Consume(r.s, Len(r.got)) ELSE r.s,
     waits |-> r.waits, bad |-> r.out = "bad"]

OpenParsing(t) == SkipBom(PeekChar(t))

\* get_char and get_code from there on.
AfterOpening(o, arg, unit, reset) ==
    IF o.waits THEN Waiting(o.s)
    ELSE IF o.bad THEN Outcome(o.s, "error", <<>>, FALSE, reset)
    ELSE TryUntilRead("read_char", o.s, arg, unit, reset)

GetChar(e, arg) ==
    IF ~Enters(e) THEN AfterAction(e, arg, "char", FALSE)
    ELSE IF AtEnd(e.s) THEN ReportEnd(SetPastEnd(e.s), arg, Rewound(e))
    ELSE IF arg = "end" THEN Outcome(e.s, "fail", <<>>, FALSE, Rewound(e))
    ELSE IF arg = "wrong" THEN Outcome(e.s, "error", <<>>, FALSE, Rewound(e))
    ELSE AfterOpening(OpenParsing(e.s), arg, "char", Rewound(e))

GetCode(e, arg) ==
    IF ~Enters(e) THEN AfterAction(e, arg, "code", FALSE)
    ELSE IF AtEnd(e.s) THEN ReportEnd(SetPastEnd(e.s), arg, Rewound(e))
    ELSE IF arg \in {"end", "wrong"} THEN Outcome(e.s, "error", <<>>, FALSE, Rewound(e))
    ELSE AfterOpening(OpenParsing(e.s), arg, "code", Rewound(e))

\* get_n_chars looks neither at the flag nor at the end: it reads up to n units and
\* stops early when there are no more.  Garbage is an error, and what was read before
\* it is gone.
Unit(t) == IF t.opt.type = "binary" THEN ReadByte(t) ELSE ReadChar(t)

Appended(r, v) ==
    [s |-> v.s, waits |-> v.waits, got |-> r.got \o v.got, reset |-> FALSE,
     res |-> IF v.out = "bad" THEN "error" ELSE "true", end |-> v.out = "none"]

AddUnit(r) == IF r.res # "true" \/ r.end \/ r.waits THEN r ELSE Appended(r, Unit(r.s))

ReadUnits(o, n) ==
    IF o.waits THEN Waiting(o.s)
    ELSE IF o.bad THEN Outcome(o.s, "error", <<>>, FALSE, FALSE)
    ELSE LET units[i \in 0 .. n] ==
                IF i = 0 THEN Outcome(o.s, "true", <<>>, FALSE, FALSE) ELSE AddUnit(units[i - 1])
         IN  units[n]

GetNChars(t, n) ==
    ReadUnits(IF t.opt.type = "binary" THEN [s |-> t, waits |-> FALSE, bad |-> FALSE]
              ELSE OpenParsing(t), n)

-----------------------------------------------------------------------------
(* Steps.                                                                  *)

NoOutcome == [op |-> "none", got |-> <<>>, end |-> FALSE, res |-> "true", from |-> 0, past |-> FALSE]

StreamInit ==
    /\ \E kind \in Kinds, opt \in Options, sent \in 0 .. Size :
          /\ opt.reposition => kind = "file"
          /\ kind \notin Static => sent = 0
          /\ s = NewStream(kind, opt, sent)
    /\ next = 0
    /\ last = NoOutcome

\* An operation that returns o; a read moves the history on by what it delivered.
Does(op, o, reads) ==
    /\ last.res # "spin"
    /\ ~o.waits
    /\ s' = o.s
    /\ next' = IF reads /\ o.got # <<>> THEN o.got[Len(o.got)] ELSE IF o.reset THEN 0 ELSE next
    /\ last' = [op |-> op, got |-> o.got, end |-> o.end, res |-> o.res, past |-> s.past,
                from |-> IF o.reset THEN 0 ELSE next]

GetByteStep(arg)  == Does("get", GetByte(Entry(s, "binary"), arg), TRUE)
PeekByteStep(arg) == Does("peek_byte", PeekByteOp(Entry(s, "binary"), arg), FALSE)
PeekCharStep(arg) == Does("peek", PeekCharOp(Entry(s, "text"), arg), FALSE)
PeekCodeStep(arg) == Does("peek", PeekCodeOp(Entry(s, "text"), arg), FALSE)
GetCharStep(arg)  == Does("get", GetChar(Entry(s, "text"), arg), TRUE)
GetCodeStep(arg)  == Does("get", GetCode(Entry(s, "text"), arg), TRUE)
GetNCharsStep(n)  == Does("get", GetNChars(s, n), TRUE)

\* set_stream_position, to a place where a character starts or beyond the end;
\* a stream that is not repositionable raises an error.
SetPositionStep(p) ==
    /\ last.res # "spin"
    /\ p > s.sent \/ Whole(p)
    /\ s.opt.reposition
    /\ s' = SetPosition(s, p)
    /\ next' = p
    /\ last' = [NoOutcome EXCEPT !.op = "seek"]

\* stream_property(S, position(P)) and end_of_stream(E).
PropertyStep ==
    /\ last.res # "spin"
    /\ s' = NoteEnd(s)
    /\ last' = [NoOutcome EXCEPT !.op = "position", !.from = Position(s), !.past = s.past]
    /\ UNCHANGED next

\* The peer sends the next n bytes.
Send(n) ==
    /\ s.kind \in {"channel", "tcp", "pipe"} /\ ~s.closed
    /\ s.sent + n <= Size
    /\ s' = [s EXCEPT !.sent = @ + n]
    /\ UNCHANGED <<next, last>>

\* A write to a memory stream appends n bytes and leaves the cursor where it was.  The
\* other kinds refuse, or send to the peer what is not read back from here.
Appending(t, n) == [t EXCEPT !.sent = @ + n]

Write(n) ==
    /\ s.kind = "byte"
    /\ s.sent + n <= Size
    /\ s' = Appending(s, n)
    /\ UNCHANGED <<next, last>>

\* The output predicates, with an argument of the right type: anything else is an
\* error before anything is written.  $put_chars goes by the stream's type, and on a
\* binary stream writes a byte for each character.
PutChar == s.opt.type = "text" /\ s.sent < Size /\ Write(Bytes[s.sent + 1].w)
PutCode == s.opt.type = "text" /\ s.sent < Size /\ Write(Bytes[s.sent + 1].w)
PutByte == s.opt.type = "binary" /\ Write(1)
PutChars(n) == (s.opt.type = "text" => Whole(s.sent + n)) /\ Write(n)

\* The peer hangs up.
Disconnect ==
    /\ s.kind \in {"channel", "tcp", "pipe"} /\ ~s.closed
    /\ s' = [s EXCEPT !.closed = TRUE]
    /\ UNCHANGED <<next, last>>

StreamNext ==
    \/ \E arg \in Args :
          \/ GetByteStep(arg) \/ PeekByteStep(arg)
          \/ PeekCharStep(arg) \/ PeekCodeStep(arg)
          \/ GetCharStep(arg) \/ GetCodeStep(arg)
    \/ \E n \in 1 .. 2 : GetNCharsStep(n) \/ Send(n)
    \/ \E p \in 0 .. Size + 1 : SetPositionStep(p)
    \/ PutChar \/ PutCode \/ PutByte
    \/ \E n \in 1 .. Size : PutChars(n)
    \/ PropertyStep
    \/ Disconnect

StreamSpec == StreamInit /\ [][StreamNext]_streamVars

-----------------------------------------------------------------------------
(* Properties.                                                             *)

\* The contents so far are whole units.  A truncated last character makes garbage of
\* the whole characters buffered with it.
Intact(t) == t.opt.type = "binary" \/ Whole(t.sent)

\* The streams whose reader and buffer agree.  A reset leaves the buffer alone, which
\* is empty then unless the stream is in memory or a channel (they report their end
\* with bytes still buffered) or its last character is truncated; the byte look-ahead
\* of a memory stream moves the cursor under the buffer.
Steady(t) ==
    /\ t.opt.eof = "reset" => t.kind \notin {"byte", "channel"} /\ (t.kind = "file" => Intact(t))
    /\ t.kind = "byte" => t.opt.type = "text"

\* Where reading may resume after the first n bytes: there, or on a text stream past
\* the U+FEFFs that follow.
Resume(type, n) ==
    {n} \cup {m \in n + 1 .. Size : /\ type = "text" /\ Whole(m)
                                  /\ \A i \in n + 1 .. m : Bytes[i].bom}

\* Where the whole units that are still to be read end.
Unread(t, from) ==
    {n \in from + 1 .. t.sent : t.opt.type = "binary" \/ (Whole(n) /\ ~Bytes[n].bom)}

\* Reading delivers the contents: every byte or character handed to the program
\* starts where the last one ended, consecutive bytes in order, whatever was
\* peeked at, buffered, split between packets or skipped as U+FEFF; the end is
\* reported only when nothing whole is left; a file's position is that of the
\* first unread byte.
ReadsExactly ==
    /\ Steady(s) /\ last.got # <<>> /\ ~(last.op = "peek_byte" /\ s.kind = "tcp") =>
          LET got == last.got
          IN  /\ \A i \in 1 .. Len(got) - 1 : got[i + 1] = got[i] + 1
              /\ got[1] - 1 \in Resume(s.opt.type, last.from)
              /\ s.opt.type = "text" => Whole(got[Len(got)])
    /\ last.end /\ ~last.past /\ s.kind \notin {"byte", "channel"} /\ Intact(s) =>
          Unread(s, next) = {}
    /\ Steady(s) /\ last.op = "position" /\ ~last.past /\ s.kind = "file" =>
          last.from \in Resume(s.opt.type, next)

\* No input predicate goes round its loop for ever on a stream with something in
\* it that ends in a whole character.
ReadsReturn ==
    last.res = "spin" => s.sent = 0 \/ ~Whole(s.sent) \/ s.kind \in {"byte", "channel"}

=============================================================================
