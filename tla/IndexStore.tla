----------------------------- MODULE IndexStore -----------------------------
(***************************************************************************)
(* The machine's table of open streams: IndexStore's `streams` and         *)
(* `stream_aliases`, the streams the machine holds as its current input    *)
(* and output, and the operations that open, rename, redirect, enumerate   *)
(* and close streams.                                                      *)
(*                                                                         *)
(* A stream is a pointer into the arena, so a program keeps its handle     *)
(* after the stream is gone; closing marks the payload Dropped, except     *)
(* that a socket's is only shut down.  Aliases are atoms looked up in a    *)
(* map that must agree with the alias kept in each stream's own options.   *)
(***************************************************************************)
EXTENDS Integers, FiniteSets

CONSTANTS
    Ids,       \* the addresses streams can have, in the order of BTreeSet<Stream>
    StdIn, StdOut, StdErr, \* the addresses of the streams the machine starts with
    Names,     \* the atoms a program uses as aliases
    Careful    \* TRUE: the program keeps to the limits stated at Considerate

ASSUME IndexStoreAssumption ==
    /\ Ids \subseteq Nat \ {0}
    /\ {StdIn, StdOut, StdErr} \subseteq Ids
    /\ Cardinality({StdIn, StdOut, StdErr}) = 3
    /\ Careful \in BOOLEAN

Null == 0        \* Stream::Null, whose pointer is null
NoAlias == "none"

Protected == {"user_input", "user_output", "user_error"}
Aliases == Names \cup Protected \cup {"null_stream"}

VARIABLES
    store,           \* what is at each address: its kind, life and options.alias
    streams,         \* IndexStore::streams
    stream_aliases,  \* IndexStore::stream_aliases
    user_input,      \* Machine::user_input
    user_output,     \* Machine::user_output
    iter,            \* an enumeration: where it is, what it has returned, what has been
                     \* open since it began (at its end: and was not returned), and
                     \* whether it returned a stream twice
    panicked         \* an assertion failed or unreachable code was reached

storeVars == <<store, streams, stream_aliases, user_input, user_output, iter, panicked>>

-----------------------------------------------------------------------------

Unused == [kind |-> "none", life |-> "unused", alias |-> NoAlias]

Open(kind, alias) == [kind |-> kind, life |-> "open", alias |-> alias]

KindOf(i) == IF i = Null THEN "null" ELSE store[i].kind

\* A reader is an input file or the reading end of a pipe, a writer an output file or
\* the writing end, a socket a TCP or TLS connection.
IsInput(i)  == KindOf(i) \in {"reader", "stdin", "memory", "socket", "null"}
IsOutput(i) == KindOf(i) \in {"writer", "stdout", "stderr", "memory", "socket", "null"}

Bound == DOMAIN stream_aliases

\* What get_stream_or_alias finds, and through what: an alias is looked up without a
\* look at what it leads to; the handle of a dropped stream raises an existence error.
\* Anything else is an error, which changes nothing.
StreamOrAlias ==
    {<<a, stream_aliases[a]>> : a \in Bound}
    \cup {<<NoAlias, i>> : i \in {j \in Ids : store[j].life \in {"open", "shut"}}}

\* The alias in the options of a stream so found.  Stream::Null carries its options by
\* value: each entry of the map has its own copy.
AliasOf(f) == IF f[2] = Null THEN f[1] ELSE store[f[2]].alias

WithAlias(st, i, a) == IF i = Null THEN st ELSE [st EXCEPT ![i].alias = a]

Without(f, a) == [x \in DOMAIN f \ {a} |-> f[x]]

With(f, a, i) == [x \in DOMAIN f \cup {a} |-> IF x = a THEN i ELSE f[x]]

-----------------------------------------------------------------------------
(* What the operations leave to the program's care.  Each of these is      *)
(* possible in the code, and breaks what is claimed below: giving the      *)
(* current input or output away to a stream that has another alias; using  *)
(* a socket after it was closed; closing a standard stream that is no      *)
(* longer current; closing user_error when it is not the process's stderr; *)
(* closing the stream an enumeration stands at.                            *)

Alive(i) == i \in {Null} \cup {j \in Ids : store[j].life = "open"}

MayRedirect(f, a) == f[2] # Null => store[f[2]].alias \in {NoAlias, a}

MayClose(f) ==
    /\ KindOf(f[2]) \notin {"stdin", "stdout"}
    /\ AliasOf(f) \notin Protected
    /\ ~(iter.on /\ iter.at = f[2])

Considerate(P) == Careful => P

-----------------------------------------------------------------------------
(* IndexStore's own operations.                                            *)

\* add_stream.  An occupied alias is an error that leaves the table as it was.
AddStream(i, kind, alias) ==
    /\ alias \notin Bound
    /\ store' = [store EXCEPT ![i] = Open(kind, alias)]
    /\ stream_aliases' = IF alias = NoAlias THEN stream_aliases ELSE With(stream_aliases, alias, i)
    /\ streams' = streams \cup {i}

\* remove_stream, with the alias the caller's copy of the options holds.
RemoveStream(i, alias) ==
    /\ stream_aliases' = Without(stream_aliases, alias)
    /\ streams' = streams \ {i}

\* The assertions of remove_stream: the alias leads back here and is not protected.
RemovalAsserts(i, alias) ==
    alias # NoAlias => alias \in Bound /\ stream_aliases[alias] = i /\ alias \notin Protected

\* Mutant: the previous holder of the alias keeps it in its options.
SetStreamOnly(a, i) ==
    IF a \in Bound /\ stream_aliases[a] = i
    THEN UNCHANGED <<store, stream_aliases, streams>>
    ELSE /\ store' = WithAlias(store, i, a)
         /\ stream_aliases' = With(stream_aliases, a, i)
         /\ streams' = streams \cup {i}

\* set_stream: the previous holder of the alias loses it.
SetStream(a, i) ==
    IF a \in Bound /\ stream_aliases[a] = i
    THEN UNCHANGED <<store, stream_aliases, streams>>
    ELSE LET freed == IF a \in Bound THEN WithAlias(store, stream_aliases[a], NoAlias) ELSE store
         IN  /\ store' = WithAlias(freed, i, a)
             /\ stream_aliases' = With(stream_aliases, a, i)
             /\ streams' = streams \cup {i}

\* update_stream_options with a new alias: refused, silently, if the old one is
\* protected or the new one taken.
UpdateStreamOptions(f, new) ==
    LET prev == AliasOf(f)
    IN  IF new = prev \/ prev \in Protected \/ new \in Bound
        THEN UNCHANGED <<store, stream_aliases>>
        ELSE /\ store' = WithAlias(store, f[2], new)
             /\ stream_aliases' = LET rest == Without(stream_aliases, prev)
                                  IN  IF new = NoAlias THEN rest ELSE With(rest, new, f[2])

-----------------------------------------------------------------------------
(* The system calls.                                                       *)

\* The machine's streams as configured: the process's own or memory buffers, entered
\* under their aliases by configure_streams.
StoreInit ==
    /\ \E std \in BOOLEAN :
          store = [i \in Ids |->
                     CASE i = StdIn  -> Open(IF std THEN "stdin" ELSE "memory", "user_input")
                       [] i = StdOut -> Open(IF std THEN "stdout" ELSE "memory", "user_output")
                       [] i = StdErr -> Open(IF std THEN "stderr" ELSE "memory", "user_error")
                       [] OTHER      -> Unused]
    /\ streams = {StdIn, StdOut, StdErr, Null}
    /\ stream_aliases = [a \in Protected \cup {"null_stream"} |->
                           CASE a = "user_input"  -> StdIn
                             [] a = "user_output" -> StdOut
                             [] a = "user_error"  -> StdErr
                             [] OTHER             -> Null]
    /\ user_input = StdIn
    /\ user_output = StdOut
    /\ iter = [on |-> FALSE, at |-> Null, seen |-> {}, open |-> {}, twice |-> FALSE]
    /\ panicked = FALSE

Fresh == {i \in Ids : store[i].life = "unused"}

\* open/4 and the socket calls; the file or the connection may also not be had,
\* which changes nothing.
OpenFile(kind, alias) ==
    /\ kind \in {"reader", "writer"}
    /\ \E i \in Fresh : AddStream(i, kind, alias)
    /\ UNCHANGED <<user_input, user_output, iter, panicked>>

SocketClientOpen(alias) ==
    /\ \E i \in Fresh : AddStream(i, "socket", alias)
    /\ UNCHANGED <<user_input, user_output, iter, panicked>>

SocketServerAccept(alias) ==
    /\ \E i \in Fresh : AddStream(i, "socket", alias)
    /\ UNCHANGED <<user_input, user_output, iter, panicked>>

\* tls_client_negotiate and tls_server_negotiate: a new stream over an open one.
TlsNegotiate(f) ==
    /\ KindOf(f[2]) = "socket"
    /\ Considerate(Alive(f[2]))
    /\ \E i \in Fresh : AddStream(i, "socket", NoAlias)
    /\ UNCHANGED <<user_input, user_output, iter, panicked>>

\* The ends of a child process's pipes.
ProcessPipe(kind) ==
    /\ kind \in {"reader", "writer"}
    /\ \E i \in Fresh : AddStream(i, kind, NoAlias)
    /\ UNCHANGED <<user_input, user_output, iter, panicked>>

SetStreamOptions(f, alias) ==
    /\ Considerate(Alive(f[2]))
    /\ UpdateStreamOptions(f, alias)
    /\ UNCHANGED <<streams, user_input, user_output, iter, panicked>>

SetInput(f) ==
    /\ IsInput(f[2])
    /\ Considerate(Alive(f[2]) /\ MayRedirect(f, "user_input"))
    /\ user_input' = f[2]
    /\ SetStream("user_input", f[2])
    /\ UNCHANGED <<user_output, iter, panicked>>

SetOutput(f) ==
    /\ IsOutput(f[2])
    /\ Considerate(Alive(f[2]) /\ MayRedirect(f, "user_output"))
    /\ user_output' = f[2]
    /\ SetStream("user_output", f[2])
    /\ UNCHANGED <<user_input, iter, panicked>>

\* What Stream::close leaves of a stream.
ClosedLife(i) == IF KindOf(i) = "socket" THEN "shut" ELSE "dropped"

\* close/2 on a stream that is nobody's current one: out of the table, then closed.
\* On the process's own streams close is declared unreachable.
Close(f) ==
    LET i == f[2]
    IN  /\ i \notin {user_input, user_output} /\ KindOf(i) # "stderr"
        /\ Considerate(Alive(i) /\ MayClose(f))
        /\ RemoveStream(i, AliasOf(f))
        /\ store' = IF i = Null THEN store ELSE [store EXCEPT ![i].life = ClosedLife(i)]
        /\ panicked' = (panicked \/ ~RemovalAsserts(i, AliasOf(f)) \/ KindOf(i) \in {"stdin", "stdout"})
        /\ iter' = [iter EXCEPT !.open = @ \ {i}]
        /\ UNCHANGED <<user_input, user_output>>

\* The n-th stream, from 0, of a range of the ordered set.
Nth(range, n) == {i \in range : Cardinality({j \in range : j < i}) = n}

FirstStream ==
    /\ iter' = [on |-> TRUE, seen |-> Nth(streams \ {Null}, 0), open |-> streams \ {Null},
                at |-> CHOOSE i \in Nth(streams \ {Null}, 0) : TRUE, twice |-> FALSE]
    /\ UNCHANGED <<store, streams, stream_aliases, user_input, user_output, panicked>>

\* Mutant: the range is taken to leave out where it starts.
FollowingExclusive(from) == Nth({i \in streams \ {Null} : i > from}, 1)

\* next_stream finds the stream after the previous one as the second of the range that
\* starts there.
Following(from) == Nth({i \in streams \ {Null} : i >= from}, 1)

\* The handle of a dropped stream reads as Stream::Null.
NextStream ==
    LET found == Following(IF store[iter.at].life = "dropped" THEN Null ELSE iter.at)
    IN  /\ iter.on
        /\ \/ /\ found = {}
              /\ iter' = [iter EXCEPT !.on = FALSE, !.at = Null, !.seen = {}, !.open = @ \ iter.seen]
           \/ \E i \in found :
                 iter' = [iter EXCEPT !.at = i, !.seen = @ \cup {i}, !.twice = @ \/ i \in iter.seen]
        /\ UNCHANGED <<store, streams, stream_aliases, user_input, user_output, panicked>>

StoreNext ==
    \/ \E a \in Names \cup {NoAlias} :
          \/ \E kind \in {"reader", "writer"} : OpenFile(kind, a)
          \/ SocketClientOpen(a) \/ SocketServerAccept(a)
          \/ \E f \in StreamOrAlias : SetStreamOptions(f, a)
    \/ \E kind \in {"reader", "writer"} : ProcessPipe(kind)
    \/ \E f \in StreamOrAlias : TlsNegotiate(f) \/ SetInput(f) \/ SetOutput(f) \/ Close(f)
    \/ FirstStream
    \/ NextStream

StoreSpec == StoreInit /\ [][StoreNext]_storeVars

-----------------------------------------------------------------------------
(* Properties.                                                             *)

\* The table and the streams agree through any sequence of opening, renaming,
\* redirecting and closing: an alias leads to a stream that is open and in the
\* table, the alias in a stream's options leads back to it, the current input and
\* output are open, and no assertion of remove_stream fails.
StoreConsistent ==
    /\ ~panicked
    /\ \A a \in Bound : Alive(stream_aliases[a]) /\ stream_aliases[a] \in streams
    /\ \A i \in streams \ {Null} :
          store[i].alias # NoAlias => store[i].alias \in Bound /\ stream_aliases[store[i].alias] = i
    /\ Alive(user_input) /\ Alive(user_output)

\* Enumerating the open streams returns no stream twice and, when it ends, has
\* returned every stream that was open all the while, whatever was opened, closed
\* or renamed meanwhile.
EnumerationExact ==
    /\ ~iter.twice
    /\ ~iter.on => iter.open = {}

=============================================================================
