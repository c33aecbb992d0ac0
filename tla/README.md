# A TLA+ model of Scryer Prolog

TLA+ modules, TLC configurations and TLAPS proofs for the core of Scryer Prolog,
a Prolog system in Rust built around a Warren Abstract Machine (WAM). Paths are
relative to the repository root, which is `src/` here, so the machine's main
loop is `src/src/machine/dispatch.rs`. `PROJECT.json` lists components, runs,
mutants, source lines of every definition, findings, hazards and theorems.

## 1. Inventory

### Components, their state and their operations

| component | state | operations | models |
|---|---|---|---|
| abstract machine, control (`dispatch.rs`, `machine/mod.rs`, `machine_state*.rs`) | registers `e`, `b`, `b0`, `cp`, `p`; AND and OR frames | try/retry/trust, `call`, `execute`, `proceed`, `allocate`, `deallocate`, neck, body and local cuts, `get_level`, `get_prev_level`, `get_cut_point`, failure | `WamControl` |
| abstract machine, data (`machine_state_impl.rs`, `dispatch.rs`, `unify.rs`) | heap, trail, `hb`, argument registers, permanent variables | `bind`, `trail`, `unwind_trail`, `get_*`/`put_*`/`unify_*` instructions | `Wam` |
| dispatch loop and built-ins (`dispatch.rs`, `system_calls.rs`) | `p`, `cp`, `fail`, ball, registers | an arm per built-in for `call` and `execute` | `Dispatch` |
| attributed variables (`attributed_variables.rs`) | queue of bindings, the saved `p` and `cp` | binding, wake-up, return from verification | `Dispatch` (in part) |
| exceptions, cleanup, inference limits (`lib/builtins.pl`, `lib/iso_ext.pl`, `system_calls.rs`, `machine_state.rs`) | `block`, `scc_block`, ball and ball stack, `cont_pts`, CWIL limits | `catch/3`, `throw/1`, `setup_call_cleanup/3`, `call_with_inference_limit/3` | `Exceptions` |
| dynamic database and loader (`compile.rs`, `dispatch.rs`, `loader.rs`, `indexing.rs`, `forms.rs`) | code vector, skeletons, switch tables, births and deaths, `global_clock`, `cc`, retraction records | `asserta`, `assertz`, `retract`, `abolish`, loading, rolling back, calls of dynamic predicates | `ClauseCode`, `ClauseRun`, `Database` |
| compiler (`codegen.rs`, `debray_allocator.rs`, `disjuncts.rs`, `variable_records.rs`, `iterators.rs`) | a clause's variables and registers | classify, allocate, generate | `ClauseCompiler`, `ClauseMachine` |
| heap and terms (`heap.rs`, `heap_iter.rs`, `unify.rs`, `partial_string.rs`) | cells and bytes, `pdl`, pairs already met | building and comparing strings, unification, `compare/3` | `PartialString`, `Unify`, `TermOrder` |
| arithmetic (`arithmetic.rs`, `arithmetic_ops.rs`) | none | evaluable functors, comparison, rounding | `Numbers` |
| streams (`streams.rs`, `char_reader.rs`, `machine_indices.rs`, `system_calls.rs`) | byte buffer, cursor, end-of-file state; table, aliases, current streams | get/peek of byte, char and code, seek, end of file; open, close, rename, redirect, enumerate | `CharStream`, `IndexStore` |
| local stack and raw blocks (`stack.rs`, `raw_block.rs`) | a block of words, `ptr`, frames laid out in it | allocate AND/OR frame, grow, truncate, index | `Stack` |
| atom table (`atom_table.rs`) | two nested RCU cells (string block, atom set), a mutex | `build_with`, `lookup_str`, `as_ptr` | `AtomTable`, `Interning` |
| global variables (`system_calls.rs`, `machine/mod.rs`, `lib/iso_ext.pl`) | map from key to (ball, heap location), trail entries | `bb_put`, `bb_b_put`, `bb_get`, unwinding | `Blackboard` |
| HTTP server (`system_calls.rs`, `streams.rs`, `lib/http/http_server.pl`) | bounded channel, a mutex and a condition variable per request | the request closure, `http_loop`, `$http_accept`, `$http_answer`, `close` | `HttpServer` |
| interrupts (`lib.rs`, `dispatch.rs`) | the atomic `INTERRUPT` | the Ctrl-C handler, `check_for_interrupt`, the poll inside `http_accept` | `HttpServer` |
| offset tables, arena, reader, embedding APIs, Prolog libraries | see section 7 | | not modelled |

### How they interact

The compiler emits instructions (`ClauseCompiler`) and links clauses into
predicates (`ClauseCode`); the dispatch loop (`Dispatch`) executes them against
one `MachineState`. Frames of `WamControl` live in the words `Stack` lays out.
Failure returns to an OR frame and unwinds the trail, which is what undoes
bindings (`Wam`) and backtrackable global variables (`Blackboard`); an exception
cuts back to the choice point named by `block`, and a cut may start the goals of
`cont_pts` (`Exceptions`). A program edits predicates it is running
(`Database`). Unification compares strings as bytes (`Unify` over
`PartialString`) and queues the attributed variables it binds for `Dispatch`.
Atoms are indices into the process-wide table that machines on different threads
share (`AtomTable`). A machine that serves HTTP runs `http_loop` as ordinary code
and meets the Tokio workers only at a channel and a condition variable; the
Ctrl-C thread meets it only at an atomic flag (`HttpServer`).

### What is hard here

* threads without locks: RCU readers of the atom table while the block and the
  set are being replaced; Ctrl-C between a load and a compare-exchange; workers
  blocked on a full channel or on a condition variable;
* long legal sequences: last calls, cuts and backtracking that leave frames
  alive or dead in combinations no single test writes down; conditional trailing
  that relies on `hb` and `b` after a cut changed one of them; clauses added and
  removed in place, in any order, under calls that are still open; streams
  opened, renamed, redirected and closed in any order;
* control that leaves the straight line: a ball, a cut, a cleaner or an exceeded
  limit in the middle of another one; a binding that interrupts a clause;
* representation: strings that end anywhere in a cell, numbers at the border of
  two representations, cyclic terms, bytes split between buffer and file;
* growth and boundary: a frame that fits the block exactly or makes it grow;
* failure half way: a file that fails to load after changing a predicate.

Each of these is listed under "hazards" with its line and the property that
would catch it going wrong, or with the reason why none does.

### What makes each component correct

* control: a frame something refers to is never given up; a clause that goes on
  after a call finds its own environment; a cut removes the choice points it
  should and no others;
* data: unwinding the trail restores what a choice point saw; no reference
  outlives its cell, last-call optimisation notwithstanding;
* dispatch: no built-in goes on after it failed; bindings are verified before
  the next call, which is then made as it would have been;
* exceptions: the innermost handler is in power; a cleaner runs exactly once; a
  limit holds; every program ends;
* database: the code is what the list of clauses says; a call sees the clauses
  of the instant it was made; a failed load leaves no trace;
* compiler, terms, numbers: the result is the mathematical one;
* streams: bytes are delivered once, in order; no alias dangles;
* stack: frames never overlap or disturb each other and start initialised;
* atom table: strings and atoms stay paired one to one for every thread, readers
  find an atom's own string, and every call returns;
* global variables: no location dangles; backtracking restores exactly;
* HTTP and interrupts: no worker waits for a request the loop has gone past; no
  press of Ctrl-C is lost and each is thrown; a response reaches its client.

## 2. Plan

1. *(done)* `AtomTable` with its abstract specification `Interning` and its
   proofs: the part several threads share.
2. *(done)* `Stack` and its proofs; `Blackboard`; `HttpServer` with interrupts.
3. *(done)* `WamControl`, and `Wam` over it.
4. *(done)* `Exceptions`; `ClauseCode`, `ClauseRun` and `Database`; `Dispatch`.
5. *(done)* the sequential algorithms: `Numbers`, `ClauseCompiler` with
   `ClauseMachine`, `PartialString`, `Unify`, `TermOrder`; the streams.
6. *(done)* Proofs of `HttpServer`, `Blackboard`, `WamControl` and `Wam`, the
   last with the refinement `DataSpec => Spec`; of `IndexStore` and `Dispatch`.
7. *(done)* Proofs of `Exceptions` and of the reads of `CharStream`.
8. *(later)* attribute lists and the trailing of their links, disjunctions in
   `ClauseCompiler`, the copier.

Modules meant for proof use no `RECURSIVE` operator; recursion is written as a
recursive function.

## 3. Modules and their correspondence to the code

**Interning / AtomTable.** `Interning` says what an atom table promises: a
growing one-to-one relation between strings and atoms, of which callers are
told pairs. `AtomTable` has one action per shared-memory step of `build_with`:
read the block epoch, read the table epoch, look up, lock, compare the epochs,
allocate or replace the block, write the string, publish the set, unlock. A
failed comparison releases the guard and goes round. Replaced blocks stay
readable, as RCU guarantees, hence the generations `1..cur`. Inlined and static
strings take the code's own early returns. Offsets count slots, one per string
whatever its length. `as_ptr` is two steps, taking the reference and reading,
so that a block can be replaced in between.

**Stack.** Words of the block, `ptr`, and the live frames as a history variable.
The frame's offset is taken from `ptr` before `alloc`, which may grow the block
and move `ptr`; both orders of events appear as `Allocate` and
`AllocateGrowing`. Memory that `realloc` adds is `Junk`, and memory left by
truncated frames keeps its contents. A frame is assumed to fit an empty block,
so that the loop of `alloc` goes round at most once.

**WamControl.** Frames are positions of a sequence. The program is *any*
program: a phase variable says which instructions the code generator could have
put next, and all of them may happen. `entry` is before clause selection,
`neck` a clause without an environment, `start`/`body` a clause with one before
and after its first call, `cond` and `neg` the inside of a condition or a
negation, `alt` is after failure and before the retry instruction. Actions:
`TryMeElse`, `OnlyClause` (also the index search that finds no other
clause), `RetryMeElse`, `TrustMe`, `Fail`, `NeckCut`, `GetLevel`, `Cut`,
`Disjunction`, `IfThenElse`, `LocalCut`, `Negation`, `CutPrevFail`, `Allocate`,
`Call`, `Execute`, `Deallocate`, `Proceed`. `env` and `bar` are history: the
environment and the call-time choice point that belong to the running clause.
Left out: several control constructs nested in one clause; cleanup goals and
inference counting are in `Exceptions`.

**Wam.** Extends `WamControl`; every data action is a control action and its
effect on heap, trail, `hb`, one argument register and one permanent variable
per environment, so what is checked of `WamControl` holds of it too. A cell is
a constant or a reference; `bind` follows the code's order of references,
`NeedsTrail` its conditions, `PutUnsafeDeallocate` the `is_protected` test
before a last call. Compound terms are constants to it: they contain no cell
that could be left dangling in a frame.

**Blackboard.** Global variables with the trail entries and choice points that
undo them. `dirty`, `seen` and `put` are history.

**HttpServer.** The task of `http_listen`, which may fail to bind its address and
then disconnects the channel; its closure per request, the machine running
`http_loop`, the Ctrl-C thread. A poll is two steps, the load and the
`compare_exchange`. `Landings` says where the machine goes on after throwing an
interrupt: an interrupted `$http_accept` has backtracked and then advances `p`,
so that the alternative is entered past its first instruction (`skipped`), and in
a handler a `catch/3` may take the ball. A handler may throw, and so does
`$http_accept` when the request it received does not fit the heap. A worker may
wake spuriously at any time and looks at `ready` again. `HttpWriteStream::drop` is an inherent method nobody calls, so
`DropPayload` leaves `ready` and the response alone.

**Dispatch.** Every built-in has an arm for `call` and one for `execute`. The
source repeats a dozen patterns over several hundred of them; the module
lists the arms by pattern, in the order of the source, and models the patterns:
which of the fail flag, an error, a shortage of memory or an interrupt an arm
looks at and where it sends control. `Outcomes` says what the function behind
an arm may do. A `get` instruction may bind an attributed variable; the
bindings are queued and, before the next call or at the end of the clause, the
machine enters `verify_attr_interrupt`, which saves registers, runs
verification and returns. The known arms that forget a flag are `Leaks`; a state
after one of them is marked and no more is claimed of it.

**Exceptions.** A program is a goal; the machine runs a continuation of goals
and of the library's own steps over a stack of choice points. The registers are
the machine's; the steps are the clauses of `catch/3`, `setup_call_cleanup/3`,
`run_cleaners` and `call_with_inference_limit/3` with the `$`-predicates they
call. A stretch of library code between two calls of user goals is one step, for
library predicates are not counted and nothing interrupts them. Terms are left
out: a ball is an atom. `ran` and `spent` are history.

**ClauseCode / ClauseRun / Database.** `ClauseCode` is the incremental compiler:
a predicate's code as records of choice instructions, its skeleton (locations,
`clause_assert_margin`, the index of each clause) and the switch with its tables,
on the first instantiated argument of a run of clauses that agree on it, with `append_compiled_clause`, `prepend_compiled_clause`,
`retract_clause` and the index maintenance they call. `ClauseRun` executes that
code: `find_living_dynamic` and its relatives, selection by the switched argument
and retries, births and deaths against `cc`. `Database` puts both together: calls
stay open with their choice points while clauses are asserted, retracted or
abolished. They share the register `cc`, which a redo reads before it restores
its own: `Misleads` says when that makes a difference, and `misled` remembers it
of a call. A file adds clauses in chunks, extends predicates or fails and is
rolled back record by record. A clause is its first and second argument.

**ClauseCompiler / ClauseMachine.** The compiler of one clause, from the
classification of variables to instructions: chunks, safety of permanent
variables, the allocator's use, no-use and conflict sets, evacuation of argument
registers, arithmetic in registers. `ClauseMachine` runs the instructions on the
most general call and reads off the head and the goals' arguments.

**PartialString / Unify / TermOrder.** `PartialString` lays characters out in
cells of a few bytes with padding and a tail, and scans, compares, splits and
copies them as `heap.rs` does. `Unify` has one step per round of the unification
loop with its list of pairs already met, in the modes of plain unification, with
occurs check, and the one that reports an occurs-check error. `TermOrder` is the
parallel traversal behind `compare/3` and the order of two atomic terms. The
reference definitions are a union-find of term nodes and the order of trees.

**Numbers.** The evaluable functors over four representations; word and mantissa
are a few bits wide, in the same relation to each other as in the program. The
big-number libraries are external and taken to be exact.

**CharStream / IndexStore.** `CharStream` has a stream of one of six kinds with
its buffer, the predicates that get and peek, seeking, the end of file with its
three actions, and a peer that delivers bytes at its leisure. The bytes, the kinds and
the word size are constants. A reading loop is one step: where `CharReader`
drops a U+FEFF and goes round, `Resume` says where it ends up. `IndexStore` is the
table of streams: opening, closing, aliases, redirecting the standard streams,
and the enumeration of `stream_property/2`. Addresses of streams are arbitrary,
since the order of the table is the order of addresses. The two do not look at
each other's state and one run checks both, side by side.

## 4. Runs

Sizes are TLC's distinct states.

| run | bounds | checks | states |
|---|---|---|---|
| `wam_control` | 5 frames | `FramesLive`, `OwnEnvironment`, `CutBarrier`, `CommitsToBranch` | 3.6 M |
| `wam_data` | 4 frames, 2 heap cells, 2 trail entries | `TrailSufficient`, `NoDanglingReference` | 1.4 M |
| `dispatch` | every arm in both forms, after 0 to 2 unifications or a built-in of each pattern; 3 registers | `FailureHonoured`, `WokenInTime`, `ResumesInPlace` | 18 k |
| `exceptions` | every nesting of three control constructs over five simple goals, to the first and to the last solution | `BlockMatchesContinuation`, `CleanupOnce`, `LimitRespected`, `Terminates` | 106 k |
| `database` | eight kinds of program, two indexable arguments, up to 4 clauses (5 when loading, in chunks of 2), one or two calls open | `CodeMatchesSkeleton`, `OwnClockView`, `RetractFindsItsClause`, `RollbackRestores` | 495 k |
| `logical_update_view` | as `database` | `LogicalUpdateView`, expected to fail (section 5) | |
| `algorithms` | fixnums of a few bits, clauses of 3 goals out of 14, strings of a few characters of 1 and 2 bytes, pairs of terms that may be cyclic | `NumbersExact`, `ClausesFaithful`, `StringsFaithful`, `UnifiesExactly`, `UnifyEnds`, `CompareFaithful` | 110 k |
| `streams` | contents of three characters of 1, 2 and 3 bytes, six kinds; 5 addresses, one alias | `ReadsExactly`, `ReadsReturn`, `StoreConsistent`, `EnumerationExact` | 457 k |
| `atom_table` | 2 threads, 5 strings, 3 blocks | `UniqueIssued`, `DerefSound`, `InternsFaithfully`, `BuildReturns` | 91 k |
| `memory` | a block of 4 words, growing once to 8; 2 keys, 2 values, 3 heap cells, 3 trail entries, 2 choice points | `FramesApart`, `InitialisedUnlessMoved`, `FramesStable`; `NoDanglingLocation`, `TrailedKeysKnown`, `BacktrackRestores` | 754 k |
| `http_server` | 4 requests (1 too long), 3 workers, channel of 2, poll every 2 instructions, 2 presses | `NobodyForgotten`, `NoPressLost`, `InterruptHeard` | 18 k |
| `http_answer` | as `http_server` | `ResponseArrives`, expected to fail (section 5) | |

Why the bounds are enough: with five frames a clause with an environment calls
one that leaves a choice point above it, is itself cut, deallocated or retried
underneath, and an unreachable environment is kept by a choice point. The data
run has room to bind the caller's and the clause's own variable on either side
of a choice point, cut it and return. Three nested constructs are enough for a
ball to pass through a cleanup into a handler while a limit is in force, and for
a cut to meet two pending cleaners. Four clauses of a dynamic predicate have
clauses on both sides of `clause_assert_margin` and one in the middle of each
chain to retract; two open calls are what it takes for one to overwrite the clock
of the other. Clauses of three goals have a head chunk, a middle and a last
call, so every class of variable occurs. The atom table's first block holds one
string, so three dynamic strings force two replacements while the other thread
is anywhere in `build_with` or `as_ptr`. Preludes of one and two words meet the
stack's block exactly full, partly full and roomy. Stream contents are longer
than the buffer's word and every character width straddles its border. The HTTP
channel fills, polls fall between any two instructions, and two presses fit in
one poll. In `memory`, which works on the stack or on the
global variables, as chosen at the start, keys are interchangeable and so are
values; the symmetry is used only there, with no liveness property.

`algorithms` checks pure functions: a task grows by one goal, character or
operand per step, and its result is compared with the reference definition in
the step that finishes it.

The type invariants (`TypeOK`, `StackTypeOK`) are in no run: they are proved for
every value of the constants (`TypeCorrect`, section 6).

Every property has a mutant in `PROJECT.json`: a plausible slip in one
definition (a dropped comparison, an off-by-one, a missing reset, a wrong order)
under which TLC finds the property violated. `CHECK_DEADLOCK FALSE` appears
where the system may stop: the query ends, a bound is used up, a read waits for
a peer, or the server has left its loop.

### Fairness

`AtomTable!FairSpec` has weak fairness of each thread's steps inside
`build_with` and `as_ptr`: a runnable thread is run. Which waiter gets the mutex
is arbitrary; that suffices because strings are finitely many and each lost race
interned one. `HttpServer!FairSpec` has weak fairness of the machine as a whole
and of each worker's send or wake-up. Nothing forces a handler to return, a
client to send or a user to press Ctrl-C: `InterruptHeard` holds for a
handler that runs for ever, also after it has caught an interrupt. `Exceptions!Spec` has weak fairness of its only
process: the dispatch loop goes on to the next instruction.

## 5. Findings

### Checked

`http_answer` expects a violation. A worker waits "for the Response info from
Prolog", which only the dead method `HttpWriteStream::drop` would announce; the
response of a closed stream never arrives.

`logical_update_view` expects a violation. The repository's README promises
"`asserta/1`, `assertz/1`, `retract/1`, `abolish/1`) with logical update
semantics". On backtracking, `DynamicElse` and `DynamicInternalElse` look for the
next living clause with the register `cc` as they find it (`dispatch.rs:1758`,
`1842`) and restore their own from the choice point afterwards (`1803`, `1886`).
In the run a call has given two answers, a clause is retracted, and a second call
of the predicate, made and finished meanwhile, leaves its later clock in `cc`:
the redo takes the retracted clause, which it must still see, for dead, finds
no other, and fails to the choice point it came from, for ever. `OwnClockView`
claims the view of every call to which this does not happen.

### Met while modelling

The models contain the code's behaviour in the cases below. Runs either leave
the inputs out, by the named definition, or the property exempts them; a
definition marked *unchecked* states what the code does not have.

* *Interrupts.* `Err(_) => unreachable!()` in `check_for_interrupt` and in
  `http_accept` is reached when Ctrl-C falls between the load of `INTERRUPT` and
  the `compare_exchange` (`NeverPanics`, unchecked).
* *HTTP.* When `warp` cannot bind its address the task dies and the channel is
  disconnected: `http_accept` then sets the fail flag and goes round for ever
  without looking at `INTERRUPT` (`system_calls.rs:4828`). `InterruptHeard` exempts
  it.
* *Stack.* A frame whose allocation makes the block grow is named by the old
  `ptr` and initialised at the old top; `stack.rs`'s own test asserts otherwise,
  on a block that never grows (`FreshFrameInitialised`, unchecked). The proved
  `InitialisedUnlessMoved` is what does hold.
* *Global variables.* `bb_put/2` "isn't backtrackable", yet one made after a
  `bb_b_put` of the same key is undone with it (`PutSurvivesBacktracking`,
  unchecked).
* *Database.* `asserta` under an open call that reads the chain again gives an
  answer twice, against the README's logical update semantics; `asserta`,
  `retract` and `assertz` under one can lose answers or loop (`compile.rs:145`);
  `clause/2` goes by position. With `Reenter` false a program does none of that
  while a call is open. On predicates that mix indexed and unindexed clauses, or clauses
  indexed on different arguments, `asserta` and then `assertz`, or `assertz` and
  `retract`, go wrong from three clauses on (`lower_bound_of_target_clause`,
  `compile.rs:45`; `compile.rs:1135`): `MCPrograms` has neither pair for them. The switch tables are
  not restored after a failed load (`RemovedIndex`): exempt in
  `CodeMatchesSkeleton`.
* *Exceptions.* "The success or failure of Cleanup is ignored" (`iso_ext.pl`),
  yet a failing cleaner ends the loop over the pending ones; a limit around
  another limit or around a cleanup can lose its block; `scc_block` may be stale
  after a cut. `Admit` leaves the first two out. Of two limits in sequence the
  second, leaving without choice points, sets the count back to 0
  (`system_calls.rs:6297`), after which the first, backtracked into, grants more
  than is left of it (`iso_ext.pl:254`); `MCPrograms` has one limit a program.
* *Dispatch.* An interrupted `http_accept` backtracks and then advances;
  `ExecuteUnattributedVar`, inlined calls, `$debug_hook`, `asserta` and `assertz`
  do not look at the fail flag (`Leaks`); wake-up saves only as many registers as
  the next instruction has arguments.
* *Terms.* `compare/3` with a string as first argument walks on with the two
  terms exchanged (`heap_iter.rs:242`), so `compare(O, "ab", "abc")` gives `>`;
  when only the first of two strings ends, the place of its tail ignores its
  offset in the cell (`heap.rs:192`; `Astray`, `Misplaced`); a stream unifies
  with its alias in one order only.
* *Numbers.* A negative fixnum shifted right by 64 or more gives 0
  (`SecondOperands` stays below the word); rounding the float at the end of the
  fixnum range wraps (`Floats` leaves it out).
* *Compiler.* `Moded` and `Tame` leave out clauses compiled wrongly: a type
  test, comparison or expression on a variable the clause has not met
  (`debray_allocator.rs:354`); before the first call, one with a compound operand
  or with a variable from another position of the head, as in
  `p(X,Y) :- X > Y+1` or `p(a,X) :- integer(X), q(b, f(X))`; a comparison with a
  number on its left, as in `p :- q(X), 1 < X` (`codegen.rs:300`); and `X is Y`
  with a bare variable at the end of a clause with a call (`codegen.rs:839`).
* *Streams.* Memory and channel streams report their end with buffered bytes
  unread; `peek_byte` on memory and TCP streams goes round the buffer; a
  truncated last character, an empty file or a drained channel under
  `eof_action(reset)` loops; a position taken after a reset can underflow; U+FEFF is
  skipped anywhere. They are the exemptions of `ReadsExactly` and `ReadsReturn`.
  With `Careful`, the program does not redirect the current input or output to
  a stream that has another alias, use a closed socket, close a standard stream
  that is no longer current or a redirected `user_error`, or close the stream an
  enumeration stands at, each of which panics or dangles.

## 6. Proofs

Checked by TLAPS for every value of the constants. `WamProofs` is about
`WamControl` and `Wam`, `StreamProofs` about `IndexStore` and `CharStream`; the
others have one module of proofs each. Each theorem follows from an inductive invariant, `Inv`
unless named otherwise, that TLC was first made to check.

**Atom table.** From `StringsAssumption` (inlined and static strings are
strings), `PresetAssumption` (their atoms are distinct and no table offsets) and
`BoundsAssumption`. `UniqueIssued` is not inductive: two threads that both missed
could insert the same string. `IInv` adds that exactly the threads in the
critical section hold the mutex (`MutexInv`); that the newest block extends and
agrees with all older ones (`NestedInv`, `TableInv`); that no two atoms of the
newest table are spelt alike (`DistinctInv`); that what was issued is in it
(`IssuedInv`); and, per control point, what a thread knows of the epochs it
read: if the versions still match, its snapshot *is* the table, so a string
missing from the one is missing from the other (`EpochInv`, `WriterInv`,
`ReaderInv`). There is one lemma per action. Results: `TypeCorrect`,
`Uniqueness`, `DerefCorrect` and `Refinement` (the table implements `Interning`).

**Stack.** From `StackAssumption`. `Inv` is `StackTypeOK`, `FramesApart` and that the
block never shrinks below its first size, which is what makes a frame fit once
the block has grown. A new frame starts at `ptr`, or ends before the new `ptr`
when the block grew; a truncation point is a boundary of live frames. Results:
`TypeCorrect`, `NoOverlap`, `Stability` (an action property) and
`Initialisation`.

**HTTP server.** From `HttpAssumption`. `Inv` is `TypeOK`, `NobodyForgotten`,
`NoPressLost` and `Serving`: `http_loop` serves a request, and only a machine in
`$http_accept` is in that predicate's poll. The case that
matters for `NobodyForgotten` is each way out of a request, of which only closing
its stream leads back to the loop; for `NoPressLost` it is the exchange, which
clears the flag only if it is still what was loaded, and then throws. Results:
`TypeCorrect`, `Remembered`, `PressesKept`.

**Global variables.** From `BlackboardAssumption`. What has to be compared is not
the variables but what backtracking *would* make of them, `Unwound`, which looks
for the oldest trail entry of a key in a range. The lemmas about it say that
unwinding in two stages is unwinding at once and that a new trail entry is
undone to what it overwrote (`Trailing`). `Inv` adds to the three properties
that choice points are ordered along trail and heap (`Ordered`). Results:
`TypeCorrect`, `LocationsValid`, `KeysKnown`, `Restores`.

**Control.** From `StackBound`. None of the properties is inductive, because the
stack keeps frames nothing refers to: cut choice points and environments left
under them. What a frame's own fields say holds of every frame (`Frames`); what
depends on the environment's branch, which is overwritten, only of frames in
use. `Inv` therefore says there *is* a set of frames closed under the links, with
exactly the choice points reached from `b` (`Linked`), in which a choice point
above an environment of a chain was made under it (`Nested`), in which whatever
goes on in a condition finds that condition's branch in place (`CondRefs`), and in
which what goes on in a body is older than the branch of a condition that is
open (`BodyRefs`). `Registers` says phase by phase what `b0`, `cp` and `bar`
are. Each action's proof names the set the next state uses: the same, the same
with the new frame, or what remains below a cut (`Keep`). `Envs` and `Choices`
are recursive functions; that such a function exists, which nothing gives for
free, is proved from partial ones by taking the smallest position at which none
would exist. Results: `TypeCorrect`, `ChainsLive`, `FindsItsEnvironment`,
`BarrierKept`, `BranchCommits`.

**Data.** From `DataBounds` and what is proved of the control. `TrailSufficient`
and `NoDanglingReference` need each other: that a binding was trailed if it had
to be rests on dereferencing, which ends because heap cells refer to older cells
and stack cells to older environments or to the heap (`HeapOK`, `Names`, `Rank`);
that references are good after backtracking rests on getting back the memory the
choice point saw, and on that having been good (`SavedOK`, `RestoredOK`).
`DataInv` adds the order of the choice points along trail and heap (`Ordered`),
and that a clause which has allocated and not called has no choice point above
its environment (`StartAbove`), without which a cut in it could leave a stack
cell unprotected. `RefinesControl` shows that `DataSpec` implements `Spec`, so
the theorems about control hold of the machine with its data. Results:
`RefinesControl`, `BacktrackingRestores`, `ReferencesLive`.

**Table of streams.** From `IndexStoreAssumption`; every theorem has the hypothesis
`Careful` (section 5), which the run sets too. `StoreConsistent` is not inductive: a
stream may be closed through any of its aliases, and what is left then depends on
which others there are. `Inv` adds that the table holds exactly the open streams
(`TableInv`), that aliases and the aliases of streams agree in both directions
(`AliasInv`), that besides the redirected ones at most one alias leads to the null
stream (`NullInv`), that the protected aliases lead to the current streams and to
`stderr` (`CurrentInv`), and what an enumeration has still to see, by position in
the ordered table (`EnumInv`). One lemma per table operation. Results:
`TypeCorrect`, `TableConsistent`, `EnumeratesExactly`.

**Dispatch.** From `BoundsAssumption` and `ProgramsAssumption` (a clause ends with
an instruction that leaves it). `FailureHonoured` rests on a reading of all 300
arms, group by group (`AllArmsSound`): an arm that does not test the flag belongs
to a function that never sets it, or is one of the known leaks. `Inv` says where
`attr_var_init` points while `RunVerifyAttr` is pending, that bindings wait only
then or while the loop is looking for the place to wake up at, and where the
verification will return to. `ResumesInPlace` needs the hypothesis `Economical`,
that no instruction needs a register beyond the arity of an earlier one; the
programs of the run satisfy it, and where compiled code does not, the finding of
section 5 applies. `SavingInv` says that what is still needed is intact, at
each stage of the interrupt. Results: `ControlConsistent`, `FailuresHonoured`,
`WokenBeforeCalls`, `ResumedInPlace`.

**Reading characters.** From `StreamAssumption`. `ReadsExactly` is about what the
program is given; `ReaderInv` adds what makes it so: on the streams whose reader
and buffer agree (`Steady`, section 5) what is buffered is the contents up to the
cursor of the layer underneath (`InStep`), a file past an end at which it is to be
rewound has nothing left (`Drained`), and the next byte is where the program was
last left, but for U+FEFFs (`Followed`). Reads are built in layers, and each has a
contract proved from the one below: filling the buffer (`Reached`), the rounds of
`peek_char` (`Peeking`), consuming (`Gave`), the action at the end (`Acted`), one
attempt (`Attempted`), the operation with its new attempts (`Sound`), which
preserves the invariant. `TwoRounds` proves of the loop in `peek_char` that it
settles after two rounds for characters of any width, which is why the model
writes it without recursion. `ReadsReturn` rests on what an attempt in vain means:
nothing is left, so a file rewound and read in vain is empty or ends in a
truncated character. `get_n_chars` is proved for the counts the model asks for.
Results: `ReaderInvariant`, `ReadsExactlyAlways`, `ReadsReturnAlways`, `TwoRounds`.

**Exceptions.** `BlockMatchesContinuation` looks at the running continuation; what
decides it is what the choice points say, for a failure makes one of them the
continuation. `Inv(G, want, lims)` adds two ghosts, which the theorem quantifies
away (`Described`): `want[a]` is the block with which the machine has to fail into
frame `a`, its maker's, or the frame's own address for the frame of a catch or of
a limit; `lims` are the frames of limits. A continuation is `Good` over the frames
up to `h` if each exit refers to a handler still in force there (`InForce`),
names the block its maker ran under, each cut leads to a choice point made under
the block then in power (`Power`), and what comes later refers further down
(`Descending`). A frame holds a continuation that is good below it, possibly
after a handler's own item. The machine runs, fails, has just failed into a
handler in force, or into one that was left and is entered again. There is one
lemma per action. `BlockMatchesAlways` and `DescribedAlways` are for sets of goals
without `setup_call_cleanup/3` (`Uncleaned`; a retry of a disjunction is counted like
a call, so such sets have `tick`, the counted goal, when they have a disjunction), since a stale `scc_block` (section
5) makes a cleaner run for a frame that is gone, under a block no continuation
leaves. For every program `CleanersAccountedAlways` proves the first half of
`CleanupOnce`: `cont_pts` holds each cleaner not yet run once, and no other.

`LimitRespectedAlways` proves that no goal makes more counted calls than its
inference limit allows, for sets of goals without cleanups that have one limit at
a time (`OneLimit`): the goals split into those that install no limit and the
rest, of the two goals of a conjunction one at least installs none, and neither
does the goal of a limit. A limit may be under choice points, catches and balls,
and another may be installed when it is over, by an alternative or a recovery.
Without the hypothesis the property is false (section 5). `Held` adds to `Inv` the
limit `q` the frames know of: its address, its allowance, the count at its start,
and which goal of the history it belongs to. Every frame and the running
continuation is `Lawful`: above the limit's frame its exits and re-entries are
`q`'s, the latter with what is left of the allowance now, and below it nothing
deals with limits. The stack of limits holds `q` exactly while `q`'s frame is in
force (`Counting`, from the same `want`), and the goal has made at most the calls
counted since the start (`Account`). The machine runs with or without the limit
(`Going`), has failed into the limited goal that was left (`Resuming`), is about
to fail (`Stopping`), or has failed out of it (`Returning`).

Only model-checked:

* `Database`, `ClauseCompiler`, `Unify`, `TermOrder` and what `MCAlgorithms`
  checks of `Numbers` and `PartialString`: they compute by recursion over data,
  most of them with recursive operators, and on neither can TLAPS do induction
  here;
* of `Exceptions`, the second half of `CleanupOnce` (a finished program leaves no
  cleaner waiting) and `BlockMatchesContinuation` with cleanups: both depend on
  how far a stale `scc_block` may be from the cleaner on top, for which no
  invariant over all programs was found; and `LimitRespected` of a program
  with cleanups as well as its limit (of two limits in sequence it is false, and
  nested ones the run leaves out, section 5);
* liveness under fairness (`BuildReturns`, `InterruptHeard`, `Terminates`),
  which TLAPS cannot do.

## 7. Not modelled, and why

* **Offset tables.** The serial one is an append-only array; the concurrent one,
  with its locks, is never constructed ("this branch is never invoked").
* **Arena.** Ownership of boxed payloads; only `drop_payload` appears, in
  `HttpServer`.
* **Reader.** A sequential parser over text.
* **Copier, cycle detection, printer, garbage collector.** They reverse or
  overwrite pointers in place over unbounded graphs; `gc.rs` is only compiled for
  tests.
* **Attribute lists** and the trailing of their links.
* **Module resolution, term expansion, operator tables** in the loader.
* **Disjunctions in the compiler**: `WamControl` has the shapes of code they
  become, `ClauseCompiler` has conjunctions only.
* **I/O**: output, TLS, the HTTP client, conversions of headers and bodies, the
  line editor; the foreign function interface, WebAssembly and embedding glue.
* **Memory exhaustion** (`AllocError`) appears only as an outcome in `Dispatch`;
  elsewhere a bound of the model disables the step instead.
