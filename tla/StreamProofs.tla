---------------------------- MODULE StreamProofs ----------------------------
(***************************************************************************)
(* The two halves of the streams.                                          *)
(*                                                                         *)
(* The table of streams, for any addresses and any aliases, and programs   *)
(* that take the care stated at Considerate in IndexStore: the table and   *)
(* the streams agree, and an enumeration is exact.  The agreement goes     *)
(* both ways and is needed both ways: remove_stream and set_stream find    *)
(* what they take away through a stream's own alias, which only the        *)
(* agreement makes the alias the table knows.  Stream::Null is the         *)
(* exception: it carries no alias of its own, so what has to hold of it is *)
(* that no more than one alias of the program's own leads to it.           *)
(*                                                                         *)
(* One input stream, for any contents, any size of character and any       *)
(* kinds: it is read exactly, and no predicate reads for ever.  What is    *)
(* buffered is always the contents up to the reader's cursor, and the      *)
(* program is where the buffer starts, or before U+FEFFs that were skipped *)
(* (Fit and Followed).  Each layer has a contract: one read (ReadsOn), the *)
(* buffer (Reached), peek_char's loop (Peeking), a unit looked at or read  *)
(* (Gave), the end-of-file action (Acted), one attempt (Attempted), a      *)
(* whole operation (Sound); and the steps preserve the invariant by it.    *)
(***************************************************************************)
EXTENDS CharStream, IndexStore, FiniteSetTheorems, WellFoundedInduction, TLAPS

(* A set of numbers has a smallest one. *)
LEMMA Smallest ==
  ASSUME NEW T \in SUBSET Nat, T # {}
  PROVE  \E x \in T : \A y \in T : x <= y
<1>1. PICK x \in T : \A y \in T : ~ (<<y, x>> \in OpToRel(<, Nat))
  BY NatLessThanWellFounded, WFMin
<1>2. \A y \in T : ~ (y < x)
  BY <1>1 DEF OpToRel
<1>3. x \in Nat /\ \A y \in T : y \in Nat
  OBVIOUS
<1> QED BY <1>2, <1>3

-----------------------------------------------------------------------------
(* The table of streams.                                                   *)

Places == Ids \cup {Null}
StreamKinds == {"none", "stdin", "stdout", "stderr", "memory", "reader", "writer", "socket"}
Lives == {"unused", "open", "shut", "dropped"}

Stores == [Ids -> [kind : StreamKinds, life : Lives, alias : Aliases \cup {NoAlias}]]

StoreTypeOK ==
  /\ store \in Stores
  /\ streams \subseteq Places /\ IsFiniteSet(streams)
  /\ Bound \subseteq Aliases \ {NoAlias}
  /\ stream_aliases \in [Bound -> Places]
  /\ user_input \in Places /\ user_output \in Places
  /\ iter \in [on : BOOLEAN, at : Places, seen : SUBSET Ids, open : SUBSET Ids, twice : BOOLEAN]
  /\ panicked \in BOOLEAN

(* The table holds the open streams, and only those. *)
TableInv == \A i \in Ids : i \in streams <=> store[i].life = "open"

(* An alias leads to a stream of the table that knows it by that alias; what  *)
(* a stream of the table takes for its alias leads to it.                     *)
AliasInv ==
  /\ \A a \in Bound : /\ stream_aliases[a] \in streams
                      /\ stream_aliases[a] # Null => store[stream_aliases[a]].alias = a
  /\ \A i \in streams \ {Null} :
       store[i].alias # NoAlias => store[i].alias \in Bound /\ stream_aliases[store[i].alias] = i

(* At most one alias, but for those of the current input and output, leads to *)
(* Stream::Null.                                                              *)
NullInv ==
  \A a, c \in Bound \ {"user_input", "user_output"} :
    stream_aliases[a] = Null /\ stream_aliases[c] = Null => a = c

(* The protected aliases are there and lead where they should. *)
CurrentInv ==
  /\ Protected \subseteq Bound
  /\ stream_aliases["user_input"] = user_input
  /\ stream_aliases["user_output"] = user_output
  /\ stream_aliases["user_error"] = StdErr

(* An enumeration stands at a stream of the table, has returned streams up to *)
(* there, and of those open since it began all up to there.                   *)
EnumInv ==
  /\ iter.open \subseteq streams
  /\ iter.on => /\ iter.at \in streams \ {Null}
                /\ \A i \in iter.seen : i <= iter.at
                /\ \A i \in iter.open : i <= iter.at => i \in iter.seen
  /\ ~iter.on => iter.open = {}
  /\ ~iter.twice

(* The inductive invariant. *)
Inv == StoreTypeOK /\ TableInv /\ AliasInv /\ NullInv /\ CurrentInv /\ EnumInv /\ ~panicked

-----------------------------------------------------------------------------
(* What get_stream_or_alias finds. *)
LEMMA Found ==
  ASSUME Inv, NEW f \in StreamOrAlias
  PROVE  /\ f[2] \in Places
         /\ f[2] = Null => f[1] \in Bound /\ stream_aliases[f[1]] = Null
         /\ f[2] # Null => f[2] \in Ids
         /\ f[2] # Null /\ Alive(f[2]) => f[2] \in streams \ {Null} /\ store[f[2]].life = "open"
<1>1. Null \notin Ids
  BY IndexStoreAssumption DEF Null
<1>2. Bound \subseteq DOMAIN stream_aliases /\ \A a \in Bound : stream_aliases[a] \in Places
  BY DEF Inv, StoreTypeOK, Bound
<1>3. CASE \E a \in Bound : f = <<a, stream_aliases[a]>>
  <2>1. PICK a \in Bound : f = <<a, stream_aliases[a]>>
    BY <1>3
  <2>2. f[1] = a /\ f[2] = stream_aliases[a]
    BY <2>1
  <2>3. f[2] # Null /\ Alive(f[2]) => f[2] \in streams \ {Null} /\ store[f[2]].life = "open"
    BY <1>1, <1>2, <2>2 DEF Alive, Inv, TableInv
  <2> QED BY <1>1, <1>2, <2>2, <2>3 DEF Places
<1>4. CASE \E i \in Ids : f = <<NoAlias, i>>
  <2>1. PICK i \in Ids : f = <<NoAlias, i>>
    BY <1>4
  <2>2. f[2] = i
    BY <2>1
  <2> QED BY <1>1, <2>2 DEF Alive, Inv, TableInv, Places
<1> QED BY <1>3, <1>4 DEF StreamOrAlias

(* The store after the alias in the options of a stream has changed. *)
LEMMA WithAliasFacts ==
  ASSUME NEW st \in Stores,
         NEW i \in Places, NEW a \in Aliases \cup {NoAlias}
  PROVE  /\ WithAlias(st, i, a) \in Stores
         /\ \A j \in Ids : /\ WithAlias(st, i, a)[j].kind = st[j].kind
                           /\ WithAlias(st, i, a)[j].life = st[j].life
                           /\ j # i => WithAlias(st, i, a)[j].alias = st[j].alias
                           /\ j = i => WithAlias(st, i, a)[j].alias = a
<1>1. Null \notin Ids
  BY IndexStoreAssumption DEF Null
<1>2. CASE i = Null
  BY <1>1, <1>2 DEF WithAlias
<1>3. CASE i # Null
  <2>1. i \in Ids /\ WithAlias(st, i, a) = [st EXCEPT ![i].alias = a]
    BY <1>3 DEF Places, WithAlias
  <2> QED BY <1>1, <2>1 DEF Stores
<1> QED BY <1>2, <1>3

-----------------------------------------------------------------------------
(* The operations on the table, one by one. *)

(* add_stream puts in a stream that was not there, under an alias nobody had. *)
LEMMA Adding ==
  ASSUME Inv, NEW kind \in StreamKinds, NEW alias \in Names \cup {NoAlias}, NEW i \in Fresh,
         AddStream(i, kind, alias), UNCHANGED <<user_input, user_output, iter, panicked>>
  PROVE  Inv'
<1>1. /\ Null \notin Ids /\ NoAlias \notin Protected /\ i \in Ids /\ store[i].life = "unused"
      /\ alias \in Aliases \cup {NoAlias}
  BY IndexStoreAssumption DEF Null, Fresh, NoAlias, Protected, Aliases
<1>2. /\ StoreTypeOK /\ TableInv /\ AliasInv /\ NullInv /\ CurrentInv /\ EnumInv /\ ~panicked
      /\ DOMAIN stream_aliases = Bound
  BY DEF Inv, Bound
<1>3. i \notin streams /\ i # Null
  BY <1>1, <1>2 DEF TableInv
<1>4. /\ store' \in Stores
      /\ store'[i].life = "open" /\ store'[i].alias = alias
      /\ \A j \in Ids : j # i => store'[j] = store[j]
  BY <1>1, <1>2 DEF AddStream, Open, StoreTypeOK, Lives, Stores
<1>5. streams' = streams \cup {i} /\ alias \notin Bound
  BY DEF AddStream
<1>6. /\ alias = NoAlias => stream_aliases' = stream_aliases
      /\ alias # NoAlias => stream_aliases' = With(stream_aliases, alias, i)
  BY DEF AddStream
<1>7. /\ Bound' = Bound \cup ({alias} \ {NoAlias})
      /\ \A c \in Bound : stream_aliases'[c] = stream_aliases[c]
      /\ alias # NoAlias => stream_aliases'[alias] = i
      /\ stream_aliases' = [c \in Bound' |-> stream_aliases'[c]]
  <2>1. CASE alias = NoAlias
    BY <1>2, <1>6, <2>1 DEF Bound, StoreTypeOK
  <2>2. CASE alias # NoAlias
    <3>1. stream_aliases' = With(stream_aliases, alias, i)
      BY <1>6, <2>2
    <3>2. Bound' = Bound \cup {alias}
      BY <3>1 DEF With, Bound
    <3>3. \A c \in Bound : With(stream_aliases, alias, i)[c] = stream_aliases[c]
      BY <1>2, <1>5 DEF With
    <3>4. With(stream_aliases, alias, i)[alias] = i
      BY DEF With
    <3>5. stream_aliases' = [c \in Bound' |-> stream_aliases'[c]]
      BY <3>1 DEF With, Bound
    <3> QED BY <2>2, <3>1, <3>2, <3>3, <3>4, <3>5
  <2> QED BY <2>1, <2>2
<1>8. StoreTypeOK'
  <2>1. streams' \subseteq Places /\ IsFiniteSet(streams')
    BY <1>1, <1>2, <1>5, FS_AddElement DEF StoreTypeOK, Places
  <2>2. Bound' \subseteq Aliases \ {NoAlias}
    BY <1>1, <1>2, <1>7 DEF StoreTypeOK
  <2>3. stream_aliases' \in [Bound' -> Places]
    <3>1. \A c \in Bound' : stream_aliases'[c] \in Places
      BY <1>1, <1>2, <1>7 DEF StoreTypeOK, Places
    <3> QED BY <1>7, <3>1
  <2> QED BY <1>2, <1>4, <2>1, <2>2, <2>3 DEF StoreTypeOK
<1>9. TableInv'
  BY <1>1, <1>2, <1>4, <1>5 DEF TableInv
<1>10. AliasInv'
  <2>1. ASSUME NEW a \in Bound'
        PROVE  /\ stream_aliases'[a] \in streams'
               /\ stream_aliases'[a] # Null => store'[stream_aliases'[a]].alias = a
    <3>1. CASE a \in Bound
      <4>1. stream_aliases[a] \in streams /\ stream_aliases[a] # i
        BY <1>2, <1>3, <3>1 DEF AliasInv
      <4>2. stream_aliases[a] # Null => stream_aliases[a] \in Ids
        BY <1>2, <4>1 DEF StoreTypeOK, Places
      <4> QED BY <1>2, <1>4, <1>5, <1>7, <3>1, <4>1, <4>2 DEF AliasInv
    <3>2. CASE a \notin Bound
      BY <1>4, <1>5, <1>7, <3>2
    <3> QED BY <3>1, <3>2
  <2>2. ASSUME NEW j \in streams' \ {Null}, store'[j].alias # NoAlias
        PROVE  store'[j].alias \in Bound' /\ stream_aliases'[store'[j].alias] = j
    <3>1. CASE j = i
      BY <1>4, <1>7, <2>2, <3>1
    <3>2. CASE j # i
      <4>1. j \in streams \ {Null} /\ j \in Ids
        BY <1>2, <1>5, <3>2 DEF StoreTypeOK, Places
      <4> QED BY <1>2, <1>4, <1>7, <2>2, <3>2, <4>1 DEF AliasInv
    <3> QED BY <3>1, <3>2
  <2> QED BY <2>1, <2>2 DEF AliasInv
<1>11. NullInv'
  BY <1>2, <1>3, <1>7 DEF NullInv
<1>12. CurrentInv'
  BY <1>2, <1>7 DEF CurrentInv, Protected
<1>13. EnumInv'
  BY <1>2, <1>5 DEF EnumInv
<1> QED BY <1>2, <1>8, <1>9, <1>10, <1>11, <1>12, <1>13 DEF Inv

(* update_stream_options takes one alias of a stream away and gives it another,  *)
(* both looked up in the stream's own options.                                   *)
LEMMA Renaming ==
  ASSUME Inv, Careful, NEW f \in StreamOrAlias, NEW new \in Names \cup {NoAlias}, SetStreamOptions(f, new)
  PROVE  Inv'
<1> DEFINE i == f[2]
           prev == AliasOf(f)
<1>1. Null \notin Ids /\ NoAlias \notin Protected /\ new \in Aliases \cup {NoAlias}
  BY IndexStoreAssumption DEF Null, NoAlias, Protected, Aliases
<1>2. /\ StoreTypeOK /\ TableInv /\ AliasInv /\ NullInv /\ CurrentInv /\ EnumInv /\ ~panicked
      /\ DOMAIN stream_aliases = Bound
  BY DEF Inv, Bound
<1>3. /\ i \in Places
      /\ i = Null => f[1] \in Bound /\ stream_aliases[f[1]] = Null
      /\ i # Null => i \in streams \ {Null} /\ i \in Ids
  BY Found DEF SetStreamOptions, Considerate
<1>4. i = Null => prev = f[1]
  BY DEF AliasOf
<1>5. i # Null => prev = store[i].alias
  BY DEF AliasOf
<1>6. UNCHANGED <<streams, user_input, user_output, iter, panicked>>
  BY DEF SetStreamOptions
<1>7. CASE new = prev \/ prev \in Protected \/ new \in Bound
  <2>1. UNCHANGED <<store, stream_aliases>>
    BY <1>7 DEF SetStreamOptions, UpdateStreamOptions
  <2> QED BY <1>2, <1>6, <2>1
          DEF Inv, StoreTypeOK, TableInv, AliasInv, NullInv, CurrentInv, EnumInv, Bound
<1>8. CASE new # prev /\ prev \notin Protected /\ new \notin Bound
  <2>1. store' = WithAlias(store, i, new)
    BY <1>8 DEF SetStreamOptions, UpdateStreamOptions
  <2>2. stream_aliases' = IF new = NoAlias THEN Without(stream_aliases, prev)
                          ELSE With(Without(stream_aliases, prev), new, i)
    BY <1>8 DEF SetStreamOptions, UpdateStreamOptions
  <2>3. /\ store' \in Stores
        /\ \A j \in Ids : /\ store'[j].life = store[j].life
                          /\ j # i => store'[j].alias = store[j].alias
                          /\ j = i => store'[j].alias = new
    BY <1>1, <1>2, <1>3, <2>1, WithAliasFacts DEF StoreTypeOK
  <2>4. /\ Bound' = (Bound \ {prev}) \cup ({new} \ {NoAlias})
        /\ \A c \in Bound \ {prev} : stream_aliases'[c] = stream_aliases[c]
        /\ new # NoAlias => stream_aliases'[new] = i
        /\ stream_aliases' = [c \in Bound' |-> stream_aliases'[c]]
    <3>1. CASE new = NoAlias
      BY <1>2, <2>2, <3>1 DEF Without, Bound
    <3>2. CASE new # NoAlias
      <4>1. PICK g : g = Without(stream_aliases, prev)
        OBVIOUS
      <4>2. DOMAIN g = Bound \ {prev} /\ \A c \in Bound \ {prev} : g[c] = stream_aliases[c]
        BY <1>2, <4>1 DEF Without
      <4>3. stream_aliases' = With(g, new, i)
        BY <2>2, <3>2, <4>1
      <4>4. stream_aliases' = [c \in (Bound \ {prev}) \cup {new} |-> IF c = new THEN i ELSE g[c]]
        BY <4>2, <4>3 DEF With
      <4> QED BY <1>8, <3>2, <4>2, <4>4 DEF Bound
    <3> QED BY <3>1, <3>2
  \* The alias that goes away led to this stream, and no other that is left does,
  \* but for those of the current input and output.
  <2>5. \A c \in Bound : stream_aliases[c] = i => c = prev \/ (i = Null /\ c \in {"user_input", "user_output"})
    BY <1>2, <1>3, <1>4, <1>5, <1>8 DEF AliasInv, NullInv, Protected
  <2>6. StoreTypeOK'
    <3>1. Bound' \subseteq Aliases \ {NoAlias}
      BY <1>1, <1>2, <2>4 DEF StoreTypeOK
    <3>2. \A c \in Bound' : stream_aliases'[c] \in Places
      BY <1>2, <1>3, <2>4 DEF StoreTypeOK
    <3>3. stream_aliases' \in [Bound' -> Places]
      BY <2>4, <3>2
    <3> QED BY <1>2, <1>6, <2>3, <3>1, <3>3 DEF StoreTypeOK
  <2>7. TableInv'
    BY <1>2, <1>6, <2>3 DEF TableInv
  <2>8. AliasInv'
    <3>1. ASSUME NEW a \in Bound'
          PROVE  /\ stream_aliases'[a] \in streams'
                 /\ stream_aliases'[a] # Null => store'[stream_aliases'[a]].alias = a
      <4>1. CASE a \in Bound \ {prev}
        <5>1. stream_aliases'[a] = stream_aliases[a] /\ stream_aliases[a] \in streams
              /\ (stream_aliases[a] # Null => stream_aliases[a] \in Ids /\ stream_aliases[a] # i)
          BY <1>2, <2>4, <2>5, <4>1 DEF AliasInv, StoreTypeOK, Places
        <5> QED BY <1>2, <1>6, <2>3, <4>1, <5>1 DEF AliasInv
      <4>2. CASE a \notin Bound \ {prev}
        <5>1. a = new /\ new # NoAlias /\ stream_aliases'[a] = i
          BY <2>4, <4>2
        <5>2. i \in streams
          BY <1>2, <1>3 DEF AliasInv
        <5> QED BY <1>3, <1>6, <2>3, <5>1, <5>2
      <4> QED BY <4>1, <4>2
    <3>2. ASSUME NEW j \in streams' \ {Null}, store'[j].alias # NoAlias
          PROVE  store'[j].alias \in Bound' /\ stream_aliases'[store'[j].alias] = j
      <4>1. j \in streams \ {Null} /\ j \in Ids
        BY <1>2, <1>6 DEF StoreTypeOK, Places
      <4>2. CASE j = i
        BY <2>3, <2>4, <3>2, <4>1, <4>2
      <4>3. CASE j # i
        <5>1. store'[j].alias = store[j].alias
          BY <2>3, <4>1, <4>3
        <5>2. store[j].alias \in Bound /\ stream_aliases[store[j].alias] = j
          BY <1>2, <3>2, <4>1, <5>1 DEF AliasInv
        <5>3. store[j].alias # prev
          <6>1. CASE i = Null
            BY <1>3, <1>4, <4>1, <5>2, <6>1
          <6>2. CASE i # Null
            <7>1. prev # NoAlias => stream_aliases[prev] = i
              BY <1>2, <1>3, <1>5, <6>2 DEF AliasInv
            <7> QED BY <3>2, <4>3, <5>1, <5>2, <7>1
          <6> QED BY <6>1, <6>2
        <5> QED BY <2>4, <5>1, <5>2, <5>3
      <4> QED BY <4>2, <4>3
    <3> QED BY <3>1, <3>2 DEF AliasInv
  <2>9. NullInv'
    <3> SUFFICES ASSUME NEW a \in Bound' \ {"user_input", "user_output"},
                        NEW c \in Bound' \ {"user_input", "user_output"},
                        stream_aliases'[a] = Null, stream_aliases'[c] = Null
                 PROVE  a = c
      BY DEF NullInv
    <3>1. CASE a \in Bound \ {prev} /\ c \in Bound \ {prev}
      BY <1>2, <2>4, <3>1 DEF NullInv
    <3>2. CASE a \notin Bound \ {prev} /\ c \notin Bound \ {prev}
      BY <2>4, <3>2
    <3>3. CASE i # Null
      BY <2>4, <3>1, <3>3
    <3>4. CASE i = Null
      BY <2>4, <2>5, <3>1, <3>2, <3>4
    <3> QED BY <3>3, <3>4
  <2>10. CurrentInv'
    BY <1>2, <1>6, <1>8, <2>4 DEF CurrentInv, Protected
  <2>11. EnumInv'
    BY <1>2, <1>6 DEF EnumInv
  <2> QED BY <1>2, <1>6, <2>6, <2>7, <2>8, <2>9, <2>10, <2>11 DEF Inv
<1> QED BY <1>7, <1>8

(* set_stream moves an alias from its holder to another stream.  That stream has *)
(* no other alias to lose, or it would dangle.                                   *)
LEMMA Redirecting ==
  ASSUME Inv, NEW a \in {"user_input", "user_output"}, NEW f \in StreamOrAlias,
         Alive(f[2]), MayRedirect(f, a), SetStream(a, f[2]),
         user_input' = IF a = "user_input" THEN f[2] ELSE user_input,
         user_output' = IF a = "user_output" THEN f[2] ELSE user_output,
         UNCHANGED <<iter, panicked>>
  PROVE  Inv'
<1> DEFINE i == f[2]
           old == stream_aliases[a]
<1>1. Null \notin Ids /\ NoAlias \notin Protected /\ a \in Protected /\ a # NoAlias
      /\ a # "user_error" /\ a \in Aliases \cup {NoAlias} /\ NoAlias \in Aliases \cup {NoAlias}
  BY IndexStoreAssumption DEF Null, NoAlias, Protected, Aliases
<1>2. /\ StoreTypeOK /\ TableInv /\ AliasInv /\ NullInv /\ CurrentInv /\ EnumInv /\ ~panicked
      /\ DOMAIN stream_aliases = Bound
  BY DEF Inv, Bound
<1>3. /\ i \in Places
      /\ i # Null => i \in streams \ {Null} /\ i \in Ids
  BY Found
<1>4. a \in Bound /\ old \in Places /\ old \in streams
  BY <1>1, <1>2 DEF CurrentInv, AliasInv, StoreTypeOK
<1>5. CASE old = i
  <2>1. UNCHANGED <<store, stream_aliases, streams>>
    BY <1>4, <1>5 DEF SetStream
  <2>2. user_input' = user_input /\ user_output' = user_output
    BY <1>2, <1>5 DEF CurrentInv
  <2> QED BY <1>2, <2>1, <2>2
          DEF Inv, StoreTypeOK, TableInv, AliasInv, NullInv, CurrentInv, EnumInv, Bound
<1>6. CASE old # i
  <2>1. /\ store' = WithAlias(WithAlias(store, old, NoAlias), i, a)
        /\ stream_aliases' = With(stream_aliases, a, i)
        /\ streams' = streams \cup {i}
    BY <1>4, <1>6 DEF SetStream
  <2>2. /\ store' \in Stores
        /\ \A j \in Ids : /\ store'[j].life = store[j].life
                          /\ j # i /\ j # old => store'[j].alias = store[j].alias
                          /\ j = i => store'[j].alias = a
                          /\ j = old => store'[j].alias = NoAlias
    <3>1. PICK st : st = WithAlias(store, old, NoAlias)
      OBVIOUS
    <3>2. /\ st \in Stores
          /\ \A j \in Ids : /\ st[j].life = store[j].life
                            /\ j # old => st[j].alias = store[j].alias
                            /\ j = old => st[j].alias = NoAlias
      <4>1. store \in Stores
        BY <1>2 DEF StoreTypeOK
      <4>2. NoAlias \in Aliases \cup {NoAlias} /\ old \in Places
        BY <1>4
      <4> HIDE DEF old
      <4>3. /\ WithAlias(store, old, NoAlias) \in Stores
            /\ \A j \in Ids : /\ WithAlias(store, old, NoAlias)[j].life = store[j].life
                              /\ j # old => WithAlias(store, old, NoAlias)[j].alias = store[j].alias
                              /\ j = old => WithAlias(store, old, NoAlias)[j].alias = NoAlias
        BY <4>1, <4>2, WithAliasFacts
      <4> QED BY <3>1, <4>3
    <3>3. store' = WithAlias(st, i, a)
      BY <2>1, <3>1
    <3>4. /\ store' \in Stores
          /\ \A j \in Ids : /\ store'[j].life = st[j].life
                            /\ j # i => store'[j].alias = st[j].alias
                            /\ j = i => store'[j].alias = a
      BY <1>1, <1>3, <3>2, <3>3, WithAliasFacts
    <3> QED BY <1>6, <3>2, <3>4
  <2>3. /\ Bound' = Bound /\ stream_aliases'[a] = i
        /\ \A c \in Bound : c # a => stream_aliases'[c] = stream_aliases[c]
        /\ stream_aliases' = [c \in Bound' |-> stream_aliases'[c]]
    <3>1. stream_aliases' = [c \in Bound |-> IF c = a THEN i ELSE stream_aliases[c]]
      BY <1>2, <1>4, <2>1 DEF With
    <3> QED BY <1>4, <3>1 DEF Bound
  <2>4. StoreTypeOK'
    <3>1. \A c \in Bound' : stream_aliases'[c] \in Places
      BY <1>2, <1>3, <2>3 DEF StoreTypeOK
    <3>2. stream_aliases' \in [Bound' -> Places]
      BY <2>3, <3>1
    <3>3. streams' \subseteq Places /\ IsFiniteSet(streams')
      BY <1>2, <1>3, <2>1, FS_AddElement DEF StoreTypeOK
    <3>4. user_input' \in Places /\ user_output' \in Places
      BY <1>2, <1>3 DEF StoreTypeOK
    <3> QED BY <1>2, <2>2, <2>3, <3>2, <3>3, <3>4 DEF StoreTypeOK
  <2>5. TableInv'
    BY <1>1, <1>2, <1>3, <2>1, <2>2 DEF TableInv
  <2>6. i # Null => store[i].alias \in {NoAlias, a}
    BY DEF MayRedirect
  <2>7. AliasInv'
    <3>1. ASSUME NEW c \in Bound'
          PROVE  /\ stream_aliases'[c] \in streams'
                 /\ stream_aliases'[c] # Null => store'[stream_aliases'[c]].alias = c
      <4>1. CASE c = a
        BY <1>3, <2>1, <2>2, <2>3, <4>1
      <4>2. CASE c # a
        <5>1. /\ c \in Bound /\ c # NoAlias /\ stream_aliases'[c] = stream_aliases[c]
              /\ stream_aliases[c] \in streams
          BY <1>2, <2>3, <4>2 DEF AliasInv, StoreTypeOK
        <5>2. stream_aliases[c] # Null => stream_aliases[c] \in Ids /\ store[stream_aliases[c]].alias = c
          BY <1>2, <5>1 DEF AliasInv, StoreTypeOK, Places
        <5>3. stream_aliases[c] # Null => stream_aliases[c] # i /\ stream_aliases[c] # old
          BY <1>2, <1>4, <2>6, <4>2, <5>1, <5>2 DEF AliasInv
        <5> QED BY <2>1, <2>2, <5>1, <5>2, <5>3
      <4> QED BY <4>1, <4>2
    <3>2. ASSUME NEW j \in streams' \ {Null}, store'[j].alias # NoAlias
          PROVE  store'[j].alias \in Bound' /\ stream_aliases'[store'[j].alias] = j
      <4>1. j \in streams \ {Null} /\ j \in Ids
        BY <1>2, <1>3, <2>1 DEF StoreTypeOK, Places
      <4>2. CASE j = i
        BY <1>4, <2>2, <2>3, <4>1, <4>2
      <4>3. CASE j # i
        <5>1. j # old /\ store'[j].alias = store[j].alias
          BY <2>2, <3>2, <4>1, <4>3
        <5>2. store[j].alias \in Bound /\ stream_aliases[store[j].alias] = j
          BY <1>2, <3>2, <4>1, <5>1 DEF AliasInv
        <5>3. store[j].alias # a
          BY <5>1, <5>2
        <5> QED BY <2>3, <5>1, <5>2, <5>3
      <4> QED BY <4>2, <4>3
    <3> QED BY <3>1, <3>2 DEF AliasInv
  <2>8. NullInv'
    <3> SUFFICES ASSUME NEW c \in Bound' \ {"user_input", "user_output"},
                        NEW d \in Bound' \ {"user_input", "user_output"},
                        stream_aliases'[c] = Null, stream_aliases'[d] = Null
                 PROVE  c = d
      BY DEF NullInv
    <3>1. stream_aliases'[c] = stream_aliases[c] /\ stream_aliases'[d] = stream_aliases[d]
      BY <2>3
    <3> QED BY <1>2, <2>3, <3>1 DEF NullInv
  <2>9. CurrentInv'
    <3>1. CASE a = "user_input"
      BY <1>2, <2>3, <3>1 DEF CurrentInv, Protected
    <3>2. CASE a = "user_output"
      BY <1>2, <2>3, <3>2 DEF CurrentInv, Protected
    <3> QED BY <3>1, <3>2
  <2>10. EnumInv'
    BY <1>2, <2>1 DEF EnumInv
  <2> QED BY <1>2, <2>4, <2>5, <2>7, <2>8, <2>9, <2>10 DEF Inv
<1> QED BY <1>5, <1>6

(* close takes a stream that is not current out of the table, and the only alias *)
(* that led to it; remove_stream's assertions hold.                              *)
LEMMA Closing ==
  ASSUME Inv, Careful, NEW f \in StreamOrAlias, Close(f)
  PROVE  Inv'
<1> DEFINE i == f[2]
           alias == AliasOf(f)
<1>1. Null \notin Ids /\ NoAlias \notin Protected
  BY IndexStoreAssumption DEF Null, NoAlias, Protected
<1>2. /\ StoreTypeOK /\ TableInv /\ AliasInv /\ NullInv /\ CurrentInv /\ EnumInv /\ ~panicked
      /\ DOMAIN stream_aliases = Bound
  BY DEF Inv, Bound
<1>3. /\ i \notin {user_input, user_output} /\ Alive(i) /\ alias \notin Protected
      /\ KindOf(i) \notin {"stdin", "stdout"} /\ ~(iter.on /\ iter.at = i)
  BY DEF Close, Considerate, MayClose
<1>4. /\ i \in Places
      /\ i = Null => f[1] \in Bound /\ stream_aliases[f[1]] = Null /\ alias = f[1]
      /\ i # Null => i \in streams \ {Null} /\ i \in Ids /\ alias = store[i].alias
  BY <1>3, Found DEF AliasOf
<1>5. /\ stream_aliases' = Without(stream_aliases, alias) /\ streams' = streams \ {i}
      /\ store' = IF i = Null THEN store ELSE [store EXCEPT ![i].life = ClosedLife(i)]
      /\ panicked' = (panicked \/ ~RemovalAsserts(i, alias) \/ KindOf(i) \in {"stdin", "stdout"})
      /\ iter' = [iter EXCEPT !.open = @ \ {i}]
      /\ UNCHANGED <<user_input, user_output>>
  BY DEF Close, RemoveStream
<1>6. alias # NoAlias => alias \in Bound /\ stream_aliases[alias] = i
  BY <1>2, <1>4 DEF AliasInv
<1>7. ~panicked'
  BY <1>2, <1>3, <1>5, <1>6 DEF RemovalAsserts
<1>8. \A c \in Bound : stream_aliases[c] = i => c = alias
  <2> SUFFICES ASSUME NEW c \in Bound, stream_aliases[c] = i PROVE c = alias
    OBVIOUS
  <2>1. c \notin {"user_input", "user_output"}
    BY <1>2, <1>3 DEF CurrentInv
  <2> QED BY <1>2, <1>3, <1>4, <2>1 DEF AliasInv, NullInv, Protected
<1>9. /\ Bound' = Bound \ {alias}
      /\ \A c \in Bound \ {alias} : stream_aliases'[c] = stream_aliases[c]
      /\ stream_aliases' = [c \in Bound' |-> stream_aliases'[c]]
  BY <1>2, <1>5 DEF Without, Bound
<1>10. /\ store' \in Stores
       /\ \A j \in Ids : j # i => store'[j] = store[j]
       /\ i # Null => store'[i].life # "open"
  <2>1. ClosedLife(i) \in Lives \ {"open"}
    BY DEF ClosedLife, Lives
  <2>2. store \in Stores
    BY <1>2 DEF StoreTypeOK
  <2> QED BY <1>4, <1>5, <2>1, <2>2 DEF Stores
<1>11. StoreTypeOK'
  <2>1. \A c \in Bound' : stream_aliases'[c] \in Places
    BY <1>2, <1>9 DEF StoreTypeOK
  <2>2. stream_aliases' \in [Bound' -> Places]
    BY <1>9, <2>1
  <2>3. streams' \subseteq Places /\ IsFiniteSet(streams')
    BY <1>2, <1>5, FS_RemoveElement DEF StoreTypeOK
  <2>4. iter' \in [on : BOOLEAN, at : Places, seen : SUBSET Ids, open : SUBSET Ids, twice : BOOLEAN]
    BY <1>2, <1>5 DEF StoreTypeOK
  <2> QED BY <1>2, <1>5, <1>7, <1>9, <1>10, <2>2, <2>3, <2>4 DEF StoreTypeOK
<1>12. TableInv'
  BY <1>1, <1>2, <1>4, <1>5, <1>10 DEF TableInv
<1>13. AliasInv'
  <2>1. ASSUME NEW c \in Bound'
        PROVE  /\ stream_aliases'[c] \in streams'
               /\ stream_aliases'[c] # Null => store'[stream_aliases'[c]].alias = c
    <3>1. /\ stream_aliases'[c] = stream_aliases[c] /\ stream_aliases[c] \in streams \ {i}
          /\ c \in Bound
      BY <1>2, <1>8, <1>9 DEF AliasInv
    <3>2. stream_aliases[c] # Null => stream_aliases[c] \in Ids
      BY <1>2, <3>1 DEF StoreTypeOK, Places
    <3> QED BY <1>2, <1>5, <1>10, <3>1, <3>2 DEF AliasInv
  <2>2. ASSUME NEW j \in streams' \ {Null}, store'[j].alias # NoAlias
        PROVE  store'[j].alias \in Bound' /\ stream_aliases'[store'[j].alias] = j
    <3>1. j \in streams \ {Null} /\ j \in Ids /\ j # i
      BY <1>2, <1>5 DEF StoreTypeOK, Places
    <3>2. store'[j] = store[j]
      BY <1>10, <3>1
    <3>3. store[j].alias \in Bound /\ stream_aliases[store[j].alias] = j
      BY <1>2, <2>2, <3>1, <3>2 DEF AliasInv
    <3>4. store[j].alias # alias
      BY <1>6, <2>2, <3>1, <3>2, <3>3
    <3> QED BY <1>9, <3>2, <3>3, <3>4
  <2> QED BY <2>1, <2>2 DEF AliasInv
<1>14. NullInv'
  BY <1>2, <1>9 DEF NullInv
<1>15. CurrentInv'
  BY <1>2, <1>3, <1>5, <1>9 DEF CurrentInv, Protected
<1>16. EnumInv'
  <2>1. /\ iter'.on = iter.on /\ iter'.at = iter.at /\ iter'.seen = iter.seen
        /\ iter'.twice = iter.twice /\ iter'.open = iter.open \ {i}
    BY <1>2, <1>5 DEF StoreTypeOK
  <2> QED BY <1>2, <1>3, <1>5, <2>1 DEF EnumInv
<1> QED BY <1>7, <1>11, <1>12, <1>13, <1>14, <1>15, <1>16 DEF Inv

-----------------------------------------------------------------------------
(* Streams in the order of their addresses. *)

(* The first of a range is its smallest, and there is one. *)
LEMMA FirstOfRange ==
  ASSUME NEW T \in SUBSET Nat, IsFiniteSet(T), T # {}
  PROVE  /\ Nth(T, 0) # {}
         /\ \A i \in Nth(T, 0) : i \in T /\ \A j \in T : i <= j
<1>1. \A i \in T : IsFiniteSet({j \in T : j < i})
  BY FS_Subset
<1>2. \A i \in T : Cardinality({j \in T : j < i}) = 0 <=> {j \in T : j < i} = {}
  BY <1>1, FS_EmptySet
<1>3. PICK m \in T : \A j \in T : m <= j
  BY Smallest
<1>4. {j \in T : j < m} = {}
  <2>1. m \in Nat /\ \A j \in T : j \in Nat /\ ~(j < m)
    BY <1>3
  <2> QED BY <2>1
<1>5. m \in Nth(T, 0)
  BY <1>2, <1>4 DEF Nth
<1>6. ASSUME NEW i \in Nth(T, 0) PROVE i \in T /\ \A j \in T : i <= j
  <2>1. i \in T /\ {j \in T : j < i} = {}
    BY <1>2, <1>6 DEF Nth
  <2>2. \A j \in T : ~(j < i) /\ j \in Nat /\ i \in Nat
    BY <2>1
  <2> QED BY <2>1, <2>2
<1> QED BY <1>5, <1>6

(* The second of the range that starts at from comes right after it; there is *)
(* none only if nothing comes after it.                                       *)
LEMMA SecondOfRange ==
  ASSUME NEW S \in SUBSET Nat, IsFiniteSet(S), NEW from \in S,
         NEW T, T = {i \in S : i >= from}
  PROVE  /\ \A i \in Nth(T, 1) : i \in S /\ from < i /\ \A j \in S : j <= i => j <= from \/ j = i
         /\ Nth(T, 1) = {} => \A j \in S : j <= from
<1>1. T \in SUBSET Nat /\ IsFiniteSet(T) /\ from \in T /\ from \in Nat
  <2>1. T \in SUBSET S /\ from \in Nat /\ from >= from
    OBVIOUS
  <2>2. IsFiniteSet(T)
    BY <2>1, FS_Subset
  <2> QED BY <2>1, <2>2
<1>2. \A i \in T : IsFiniteSet({j \in T : j < i})
  BY <1>1, FS_Subset
<1>3. \A i \in T : Cardinality({j \in T : j < i}) = 1 <=> \E x : {j \in T : j < i} = {x}
  BY <1>2, FS_Singleton
<1>4. ASSUME NEW i \in Nth(T, 1)
      PROVE  i \in S /\ from < i /\ \A j \in S : j <= i => j <= from \/ j = i
  <2>1. i \in T /\ \E x : {j \in T : j < i} = {x}
    BY <1>3, <1>4 DEF Nth
  <2>2. PICK x : {j \in T : j < i} = {x}
    BY <2>1
  <2>3. x \in T /\ x < i /\ \A j \in T : j < i => j = x
    BY <2>2
  <2>4. i \in Nat /\ x \in Nat /\ x >= from /\ from < i
    BY <1>1, <2>1, <2>3
  <2>5. x = from
    BY <1>1, <2>3, <2>4
  <2>6. ASSUME NEW j \in S, j <= i PROVE j <= from \/ j = i
    <3>1. j \in Nat /\ (j \in T \/ j < from)
      BY <1>1
    <3> QED BY <1>1, <2>3, <2>4, <2>5, <2>6, <3>1
  <2> QED BY <2>1, <2>4, <2>6
<1>5. ASSUME NEW k \in S, ~(k <= from) PROVE Nth(T, 1) # {}
  <2>1. {j \in S : j > from} \in SUBSET Nat /\ k \in {j \in S : j > from}
    <3>1. k \in Nat /\ from \in Nat /\ k > from
      BY <1>1, <1>5
    <3> QED BY <3>1
  <2>2. PICK m \in {j \in S : j > from} : \A j \in {y \in S : y > from} : m <= j
    BY <2>1, Smallest
  <2>3. m \in T /\ from < m /\ m \in Nat
    BY <1>1, <2>2
  <2>4. \A j \in T : j < m <=> j = from
    <3>1. ASSUME NEW j \in T, j < m PROVE j = from
      <4>1. j \in Nat /\ j >= from /\ j \in S
        BY <1>1
      <4>2. j > from => m <= j
        BY <2>2, <4>1
      <4> QED BY <1>1, <2>3, <3>1, <4>1, <4>2
    <3> QED BY <2>3, <3>1
  <2>5. {j \in T : j < m} = {from}
    BY <1>1, <2>4
  <2>6. m \in Nth(T, 1)
    BY <1>3, <2>3, <2>5 DEF Nth
  <2> QED BY <2>6
<1> QED BY <1>4, <1>5

(* The streams of the table, which the process's standard error never leaves. *)
LEMMA Listed ==
  ASSUME Inv
  PROVE  /\ streams \ {Null} \in SUBSET Nat /\ IsFiniteSet(streams \ {Null})
         /\ StdErr \in streams \ {Null}
         /\ streams \ {Null} \subseteq Ids
<1>1. Ids \subseteq Nat \ {0} /\ StdErr \in Ids
  BY IndexStoreAssumption
<1>2. IsFiniteSet(streams \ {Null}) /\ streams \ {Null} \subseteq Ids
  BY FS_RemoveElement DEF Inv, StoreTypeOK, Places
<1>3. StdErr \in streams
  BY DEF Inv, CurrentInv, AliasInv, Protected
<1> QED BY <1>1, <1>2, <1>3 DEF Null

(* An enumeration begins at the first stream. *)
LEMMA Beginning ==
  ASSUME Inv, FirstStream
  PROVE  Inv'
<1> DEFINE S == streams \ {Null}
<1>1. S \in SUBSET Nat /\ IsFiniteSet(S) /\ S # {} /\ S \subseteq Ids
  BY Listed
<1>2. /\ Nth(S, 0) # {}
      /\ \A i \in Nth(S, 0) : i \in S /\ \A j \in S : i <= j
  BY <1>1, FirstOfRange
<1>3. PICK m : m = (CHOOSE i \in Nth(S, 0) : TRUE)
  OBVIOUS
<1>4. m \in Nth(S, 0)
  BY <1>2, <1>3
<1>5. iter' = [on |-> TRUE, seen |-> Nth(S, 0), open |-> S, at |-> m, twice |-> FALSE]
  BY <1>3 DEF FirstStream
<1>6. UNCHANGED <<store, streams, stream_aliases, user_input, user_output, panicked>>
  BY DEF FirstStream
<1>7. EnumInv'
  <2>1. \A i \in S : i <= m => i \in Nth(S, 0)
    <3> SUFFICES ASSUME NEW i \in S, i <= m PROVE i = m
      BY <1>4
    <3> QED BY <1>1, <1>2, <1>4
  <2>2. \A i \in Nth(S, 0) : i <= m
    BY <1>2, <1>4
  <2> QED BY <1>2, <1>4, <1>5, <1>6, <2>1, <2>2 DEF EnumInv
<1>8. StoreTypeOK'
  <2>1. iter' \in [on : BOOLEAN, at : Places, seen : SUBSET Ids, open : SUBSET Ids, twice : BOOLEAN]
    BY <1>1, <1>2, <1>4, <1>5 DEF Places
  <2> QED BY <1>6, <2>1 DEF Inv, StoreTypeOK, Bound
<1> QED BY <1>6, <1>7, <1>8 DEF Inv, TableInv, AliasInv, NullInv, CurrentInv, Bound

(* It goes on with the stream after the one it stands at, which is still in  *)
(* the table.                                                                *)
LEMMA Continuing ==
  ASSUME Inv, NextStream
  PROVE  Inv'
<1> DEFINE S == streams \ {Null}
           at == iter.at
           T == {i \in S : i >= at}
<1>1. S \in SUBSET Nat /\ IsFiniteSet(S) /\ S \subseteq Ids
  BY Listed
<1>2. /\ iter.on /\ EnumInv /\ StoreTypeOK /\ TableInv /\ at \in S /\ store[at].life = "open"
  BY <1>1 DEF NextStream, Inv, EnumInv, TableInv
<1>3. Following(at) = Nth(T, 1)
  BY DEF Following
<1>4. /\ \A i \in Nth(T, 1) : i \in S /\ at < i /\ \A j \in S : j <= i => j <= at \/ j = i
      /\ Nth(T, 1) = {} => \A j \in S : j <= at
  <2>1. at \in S /\ T = {i \in S : i >= at}
    BY <1>2
  <2> HIDE DEF T, S, at
  <2> QED BY <1>1, <2>1, SecondOfRange
<1>5. UNCHANGED <<store, streams, stream_aliases, user_input, user_output, panicked>>
  BY DEF NextStream
<1>6. \/ /\ Nth(T, 1) = {}
         /\ iter' = [iter EXCEPT !.on = FALSE, !.at = Null, !.seen = {}, !.open = @ \ iter.seen]
      \/ \E i \in Nth(T, 1) :
           iter' = [iter EXCEPT !.at = i, !.seen = @ \cup {i}, !.twice = @ \/ i \in iter.seen]
  BY <1>2, <1>3 DEF NextStream
<1>7. /\ iter.open \subseteq S /\ \A i \in iter.seen : i <= at
      /\ \A i \in iter.open : i <= at => i \in iter.seen
      /\ iter.twice = FALSE
  <2>1. iter.open \subseteq Ids /\ Null \notin Ids /\ iter.twice \in BOOLEAN
    BY <1>2, IndexStoreAssumption DEF StoreTypeOK, Null
  <2> QED BY <1>2, <2>1 DEF EnumInv
<1>8. iter \in [on : BOOLEAN, at : Places, seen : SUBSET Ids, open : SUBSET Ids, twice : BOOLEAN]
  BY <1>2 DEF StoreTypeOK
<1>9. EnumInv' /\ iter' \in [on : BOOLEAN, at : Places, seen : SUBSET Ids, open : SUBSET Ids, twice : BOOLEAN]
  <2>1. CASE Nth(T, 1) = {}
    <3>1. iter' = [iter EXCEPT !.on = FALSE, !.at = Null, !.seen = {}, !.open = @ \ iter.seen]
      BY <1>6, <2>1
    <3>2. iter.open \ iter.seen = {}
      BY <1>4, <1>7, <2>1
    <3> QED BY <1>7, <1>8, <3>1, <3>2 DEF EnumInv, Places
  <2>2. CASE Nth(T, 1) # {}
    <3>1. PICK i \in Nth(T, 1) :
            iter' = [iter EXCEPT !.at = i, !.seen = @ \cup {i}, !.twice = @ \/ i \in iter.seen]
      BY <1>6, <2>2
    <3>2. i \in S /\ at < i /\ \A j \in S : j <= i => j <= at \/ j = i
      BY <1>4
    <3>3. i \in Nat /\ at \in Nat /\ i \in Ids
      BY <1>1, <1>2, <3>2
    <3>4. i \notin iter.seen /\ iter.seen \subseteq Nat
      <4>1. iter.seen \subseteq Ids /\ Ids \subseteq Nat
        BY <1>8, IndexStoreAssumption
      <4>2. i \in iter.seen => i <= at
        BY <1>7
      <4>3. ~(i <= at)
        BY <3>2, <3>3
      <4>4. i \notin iter.seen
        BY <4>2, <4>3
      <4> QED BY <4>1, <4>4
    <3>5. /\ iter'.on = iter.on /\ iter'.at = i /\ iter'.seen = iter.seen \cup {i}
          /\ iter'.open = iter.open /\ iter'.twice = FALSE
          /\ iter' \in [on : BOOLEAN, at : Places, seen : SUBSET Ids, open : SUBSET Ids, twice : BOOLEAN]
      BY <1>7, <1>8, <3>1, <3>3, <3>4 DEF Places
    <3>6. \A j \in iter'.seen : j <= i
      BY <1>7, <3>2, <3>3, <3>4, <3>5
    <3>7. \A j \in iter'.open : j <= i => j \in iter'.seen
      BY <1>7, <3>2, <3>5
    <3> QED BY <1>2, <1>5, <1>7, <3>2, <3>5, <3>6, <3>7 DEF EnumInv
  <2> QED BY <2>1, <2>2
<1>10. StoreTypeOK'
  BY <1>2, <1>5, <1>9 DEF StoreTypeOK, Bound
<1> QED BY <1>5, <1>9, <1>10 DEF Inv, TableInv, AliasInv, NullInv, CurrentInv, Bound

-----------------------------------------------------------------------------
(* Every step of a careful program keeps the invariant. *)
LEMMA StoreStep ==
  ASSUME Inv, Careful, [StoreNext]_storeVars
  PROVE  Inv'
<1>1. CASE UNCHANGED storeVars
  BY <1>1 DEF storeVars, Inv, StoreTypeOK, TableInv, AliasInv, NullInv, CurrentInv, EnumInv, Bound
<1>2. ASSUME NEW a \in Names \cup {NoAlias}, NEW kind \in {"reader", "writer"}, OpenFile(kind, a)
      PROVE  Inv'
  <2>1. PICK i \in Fresh : AddStream(i, kind, a)
    BY <1>2 DEF OpenFile
  <2>2. kind \in StreamKinds /\ UNCHANGED <<user_input, user_output, iter, panicked>>
    BY <1>2 DEF OpenFile, StreamKinds
  <2> QED BY <2>1, <2>2, Adding
<1>3. ASSUME NEW a \in Names \cup {NoAlias}, SocketClientOpen(a) \/ SocketServerAccept(a)
      PROVE  Inv'
  <2>1. PICK i \in Fresh : AddStream(i, "socket", a)
    BY <1>3 DEF SocketClientOpen, SocketServerAccept
  <2>2. "socket" \in StreamKinds /\ UNCHANGED <<user_input, user_output, iter, panicked>>
    BY <1>3 DEF SocketClientOpen, SocketServerAccept, StreamKinds
  <2> QED BY <2>1, <2>2, Adding
<1>4. ASSUME NEW kind \in {"reader", "writer"}, ProcessPipe(kind)
      PROVE  Inv'
  <2>1. PICK i \in Fresh : AddStream(i, kind, NoAlias)
    BY <1>4 DEF ProcessPipe
  <2>2. /\ kind \in StreamKinds /\ NoAlias \in Names \cup {NoAlias}
        /\ UNCHANGED <<user_input, user_output, iter, panicked>>
    BY <1>4 DEF ProcessPipe, StreamKinds
  <2> QED BY <2>1, <2>2, Adding
<1>5. ASSUME NEW f \in StreamOrAlias, TlsNegotiate(f)
      PROVE  Inv'
  <2>1. PICK i \in Fresh : AddStream(i, "socket", NoAlias)
    BY <1>5 DEF TlsNegotiate
  <2>2. /\ "socket" \in StreamKinds /\ NoAlias \in Names \cup {NoAlias}
        /\ UNCHANGED <<user_input, user_output, iter, panicked>>
    BY <1>5 DEF TlsNegotiate, StreamKinds
  <2> QED BY <2>1, <2>2, Adding
<1>6. ASSUME NEW a \in Names \cup {NoAlias}, NEW f \in StreamOrAlias, SetStreamOptions(f, a)
      PROVE  Inv'
  BY <1>6, Renaming
<1>7. ASSUME NEW f \in StreamOrAlias, SetInput(f)
      PROVE  Inv'
  <2>1. /\ Alive(f[2]) /\ MayRedirect(f, "user_input") /\ SetStream("user_input", f[2])
        /\ user_input' = f[2] /\ UNCHANGED <<user_output, iter, panicked>>
    BY <1>7 DEF SetInput, Considerate
  <2>2. PICK a : a = "user_input"
    OBVIOUS
  <2>3. /\ Alive(f[2]) /\ MayRedirect(f, a) /\ SetStream(a, f[2])
        /\ user_input' = IF a = "user_input" THEN f[2] ELSE user_input
        /\ user_output' = IF a = "user_output" THEN f[2] ELSE user_output
        /\ UNCHANGED <<iter, panicked>> /\ a \in {"user_input", "user_output"}
    BY <2>1, <2>2
  <2> QED BY <2>3, Redirecting
<1>8. ASSUME NEW f \in StreamOrAlias, SetOutput(f)
      PROVE  Inv'
  <2>1. /\ Alive(f[2]) /\ MayRedirect(f, "user_output") /\ SetStream("user_output", f[2])
        /\ user_output' = f[2] /\ UNCHANGED <<user_input, iter, panicked>>
    BY <1>8 DEF SetOutput, Considerate
  <2>2. PICK a : a = "user_output"
    OBVIOUS
  <2>3. /\ Alive(f[2]) /\ MayRedirect(f, a) /\ SetStream(a, f[2])
        /\ user_input' = IF a = "user_input" THEN f[2] ELSE user_input
        /\ user_output' = IF a = "user_output" THEN f[2] ELSE user_output
        /\ UNCHANGED <<iter, panicked>> /\ a \in {"user_input", "user_output"}
    BY <2>1, <2>2
  <2> QED BY <2>3, Redirecting
<1>9. ASSUME NEW f \in StreamOrAlias, Close(f)
      PROVE  Inv'
  BY <1>9, Closing
<1>10. CASE FirstStream
  BY <1>10, Beginning
<1>11. CASE NextStream
  BY <1>11, Continuing
<1> QED BY <1>1, <1>2, <1>3, <1>4, <1>5, <1>6, <1>7, <1>8, <1>9, <1>10, <1>11 DEF StoreNext

(* The streams configured at the start. *)
LEMMA StoreStart ==
  ASSUME StoreInit
  PROVE  Inv
<1>1. /\ Ids \subseteq Nat \ {0} /\ Null \notin Ids
      /\ StdIn \in Ids /\ StdOut \in Ids /\ StdErr \in Ids
  BY IndexStoreAssumption DEF Null
<1>2. StdIn # StdOut /\ StdIn # StdErr /\ StdOut # StdErr
  <2>1. \A y, z : Cardinality({y, z}) < 3
    <3> SUFFICES ASSUME NEW y, NEW z PROVE Cardinality({y, z}) < 3
      OBVIOUS
    <3>1. IsFiniteSet({y}) /\ Cardinality({y}) = 1
      BY FS_Singleton
    <3>2. {y} \cup {z} = {y, z}
      OBVIOUS
    <3>3. Cardinality({y} \cup {z}) = IF z \in {y} THEN 1 ELSE 2
      BY <3>1, FS_AddElement
    <3> QED BY <3>2, <3>3
  <2>2. StdIn = StdOut => {StdIn, StdOut, StdErr} = {StdIn, StdErr}
    OBVIOUS
  <2>3. StdIn = StdErr => {StdIn, StdOut, StdErr} = {StdIn, StdOut}
    OBVIOUS
  <2>4. StdOut = StdErr => {StdIn, StdOut, StdErr} = {StdIn, StdOut}
    OBVIOUS
  <2>5. Cardinality({StdIn, StdOut, StdErr}) = 3
    BY IndexStoreAssumption
  <2> QED BY <2>1, <2>2, <2>3, <2>4, <2>5
<1>3. PICK std \in BOOLEAN :
        store = [i \in Ids |->
                   CASE i = StdIn  -> Open(IF std THEN "stdin" ELSE "memory", "user_input")
                     [] i = StdOut -> Open(IF std THEN "stdout" ELSE "memory", "user_output")
                     [] i = StdErr -> Open(IF std THEN "stderr" ELSE "memory", "user_error")
                     [] OTHER      -> Unused]
  BY DEF StoreInit
<1>4. /\ store[StdIn] = Open(IF std THEN "stdin" ELSE "memory", "user_input")
      /\ store[StdOut] = Open(IF std THEN "stdout" ELSE "memory", "user_output")
      /\ store[StdErr] = Open(IF std THEN "stderr" ELSE "memory", "user_error")
      /\ \A i \in Ids \ {StdIn, StdOut, StdErr} : store[i] = Unused
  BY <1>1, <1>2, <1>3
<1>5. /\ Bound = Protected \cup {"null_stream"}
      /\ stream_aliases["user_input"] = StdIn /\ stream_aliases["user_output"] = StdOut
      /\ stream_aliases["user_error"] = StdErr /\ stream_aliases["null_stream"] = Null
      /\ stream_aliases \in [Bound -> Places]
  BY <1>1 DEF StoreInit, Bound, Protected, Places
<1>6. /\ streams = {StdIn, StdOut, StdErr, Null} /\ user_input = StdIn /\ user_output = StdOut
      /\ iter = [on |-> FALSE, at |-> Null, seen |-> {}, open |-> {}, twice |-> FALSE]
      /\ panicked = FALSE
  BY DEF StoreInit
<1>7. store \in Stores
  <2>1. \A i \in Ids : store[i] \in [kind : StreamKinds, life : Lives, alias : Aliases \cup {NoAlias}]
    BY <1>4 DEF Open, Unused, StreamKinds, Lives, Aliases, Protected
  <2> QED BY <1>3, <2>1 DEF Stores
<1>8. StoreTypeOK
  <2>1. IsFiniteSet(streams)
    <3>1. IsFiniteSet({StdIn})
      BY FS_Singleton
    <3>2. IsFiniteSet({StdIn} \cup {StdOut})
      BY <3>1, FS_AddElement
    <3>3. IsFiniteSet(({StdIn} \cup {StdOut}) \cup {StdErr})
      BY <3>2, FS_AddElement
    <3>4. IsFiniteSet((({StdIn} \cup {StdOut}) \cup {StdErr}) \cup {Null})
      BY <3>3, FS_AddElement
    <3>5. streams = (({StdIn} \cup {StdOut}) \cup {StdErr}) \cup {Null}
      BY <1>6
    <3> QED BY <3>4, <3>5
  <2>2. Bound \subseteq Aliases \ {NoAlias}
    BY <1>5 DEF Aliases, Protected, NoAlias
  <2> QED BY <1>1, <1>5, <1>6, <1>7, <2>1, <2>2 DEF StoreTypeOK, Places
<1>9. TableInv
  BY <1>1, <1>4, <1>6 DEF TableInv, Open, Unused
<1>10. AliasInv
  BY <1>1, <1>4, <1>5, <1>6 DEF AliasInv, Protected, Open
<1>11. NullInv
  BY <1>1, <1>5 DEF NullInv, Protected
<1>12. CurrentInv
  BY <1>5, <1>6 DEF CurrentInv, Protected
<1>13. EnumInv
  BY <1>6 DEF EnumInv
<1> QED BY <1>6, <1>8, <1>9, <1>10, <1>11, <1>12, <1>13 DEF Inv

(* The invariant holds in every state a careful program reaches. *)
LEMMA StoreInvariance == Careful => (StoreSpec => []Inv)
<1> SUFFICES ASSUME Careful PROVE StoreSpec => []Inv
  OBVIOUS
<1>1. Inv /\ [StoreNext]_storeVars => Inv'
  BY StoreStep
<1> QED BY <1>1, StoreStart, PTL DEF StoreSpec

-----------------------------------------------------------------------------
(* The table, the streams and the enumeration keep their types, and the table  *)
(* stays finite: next_stream always gets to its end.                            *)
THEOREM TypeCorrect == Careful => (StoreSpec => []StoreTypeOK)
<1>1. Inv => StoreTypeOK
  BY DEF Inv
<1> QED BY <1>1, StoreInvariance, PTL

(* However streams are opened, renamed, redirected and closed, every alias    *)
(* leads to an open stream of the table, which knows it by that alias; the     *)
(* current input and output are open; and remove_stream never asserts wrongly. *)
THEOREM TableConsistent == Careful => (StoreSpec => []StoreConsistent)
<1>1. Inv => StoreConsistent
  <2> SUFFICES ASSUME Inv PROVE StoreConsistent
    OBVIOUS
  <2>1. /\ StoreTypeOK /\ TableInv /\ AliasInv /\ CurrentInv /\ ~panicked
    BY DEF Inv
  <2>2. \A a \in Bound : stream_aliases[a] \in streams
    BY <2>1 DEF AliasInv
  <2>3. \A i \in streams : Alive(i)
    BY <2>1 DEF Alive, TableInv, StoreTypeOK, Places
  <2>4. Alive(user_input) /\ Alive(user_output)
    BY <2>1, <2>2, <2>3 DEF CurrentInv, Protected
  <2> QED BY <2>1, <2>2, <2>3, <2>4 DEF StoreConsistent, AliasInv
<1> QED BY <1>1, StoreInvariance, PTL

(* An enumeration of the open streams by first_stream and next_stream returns  *)
(* no stream twice and leaves out none that stayed open, whatever is opened or *)
(* closed between its steps.                                                   *)
THEOREM EnumeratesExactly == Careful => (StoreSpec => []EnumerationExact)
<1>1. Inv => EnumerationExact
  BY DEF Inv, EnumInv, EnumerationExact
<1> QED BY <1>1, StoreInvariance, PTL

-----------------------------------------------------------------------------
(* One input stream.                                                       *)

Streams ==
  [kind : Kinds, opt : Options, sent : 0 .. Size, closed : BOOLEAN, cur : Nat, eof : BOOLEAN,
   buf : Seq(1 .. Size), pos : Nat, past : BOOLEAN]

(* Streams with a buffer of at most a word, read up to some place in it. *)
Buffered == {t \in Streams : t.pos <= Len(t.buf) /\ Len(t.buf) <= Word}

(* The place in the contents that the next byte comes from. *)
At(t) == t.cur - RemBufLen(t)

(* The bytes that follow the first at bytes of the contents. *)
Consecutive(b, at) == \A i \in 1 .. Len(b) : b[i] = at + i

(* What is buffered is the contents up to the reader's cursor. *)
InStep(t) ==
  /\ At(t) >= 0 /\ Consecutive(Rest(t), At(t))
  /\ RemBufLen(t) > 0 \/ t.kind # "file" => t.cur <= t.sent
  /\ t.opt.type = "text" /\ At(t) <= t.sent => Whole(At(t))

(* Past its end a file that is to be rewound has nothing buffered or to come. *)
Drained(t) ==
  t.kind = "file" /\ t.opt.eof = "reset" /\ t.past => RemBufLen(t) = 0 /\ t.cur >= t.sent

Fit(t) ==
  /\ t \in Buffered
  /\ t.kind \in Static => t.closed
  /\ Steady(t) => InStep(t) /\ Drained(t)

(* The history: the program is where it was last left, but for a U+FEFF; it was *)
(* told of the end of a stream whose contents are all there; and only streams   *)
(* that cannot be read from the start make a predicate loop.                    *)
Followed == Steady(s) => At(s) \in Resume(s.opt.type, next)

EndedRight ==
  last.end /\ ~last.past /\ s.kind \notin {"byte", "channel"} => s.closed

Spun == last.res = "spin" => Resettable(s)

ReaderInv ==
  /\ Fit(s) /\ next \in Nat /\ (s.opt.reposition => s.kind = "file")
  /\ Followed /\ EndedRight /\ Spun
  /\ ReadsExactly /\ ReadsReturn

-----------------------------------------------------------------------------
(* The contents.                                                           *)

LEMMA InSequence ==
  ASSUME NEW R, NEW q \in Seq(R)
  PROVE  Len(q) \in Nat /\ \A i \in 1 .. Len(q) : q[i] \in R
OBVIOUS

(* The contents, byte by byte. *)
LEMMA ByteFacts ==
  /\ Word \in Nat /\ Word > 0 /\ Size \in Nat /\ Size > 0
  /\ \A i \in 1 .. Size : /\ Bytes[i] \in [w : 1 .. Word, k : 1 .. Word, bom : BOOLEAN]
                          /\ Bytes[i].w \in 1 .. Word /\ Bytes[i].k \in 1 .. Bytes[i].w
                          /\ Whole(i) <=> Bytes[i].k = Bytes[i].w
  /\ Whole(0)
  /\ \A n \in Int : Whole(n) => n \in 0 .. Size
<1>1. Bytes \in Seq([w : 1 .. Word, k : 1 .. Word, bom : BOOLEAN])
  BY StreamAssumption
<1>2. Size \in Nat /\ \A i \in 1 .. Size : Bytes[i] \in [w : 1 .. Word, k : 1 .. Word, bom : BOOLEAN]
  <2>1. Len(Bytes) \in Nat
        /\ \A i \in 1 .. Len(Bytes) : Bytes[i] \in [w : 1 .. Word, k : 1 .. Word, bom : BOOLEAN]
    BY <1>1, InSequence
  <2> QED BY <2>1 DEF Size
<1>3. /\ Word \in Nat /\ Word > 0 /\ Size > 0
      /\ \A i \in 1 .. Size : Bytes[i].k <= Bytes[i].w
  BY StreamAssumption
<1>4. \A i \in 1 .. Size : /\ Bytes[i].w \in 1 .. Word /\ Bytes[i].k \in 1 .. Bytes[i].w
                          /\ Whole(i) <=> Bytes[i].k = Bytes[i].w
  BY <1>2, <1>3 DEF Whole
<1>5. Whole(0) /\ \A n \in Int : Whole(n) => n \in 0 .. Size
  BY <1>2 DEF Whole
<1> QED BY <1>2, <1>3, <1>4, <1>5

(* After whole characters a first byte follows, and only there. *)
LEMMA FirstByteAfterWhole ==
  ASSUME NEW i \in 1 .. Size
  PROVE  /\ Whole(i - 1) <=> Bytes[i].k = 1
         /\ Bytes[i].k > 1 => /\ i - 1 \in 1 .. Size /\ Bytes[i].k = Bytes[i - 1].k + 1
                              /\ Bytes[i].w = Bytes[i - 1].w /\ Bytes[i].bom = Bytes[i - 1].bom
<1>1. Bytes[i].k \in 1 .. Bytes[i].w /\ Bytes[i].w \in 1 .. Word /\ Word \in Nat
  BY ByteFacts
<1>2. ASSUME Bytes[i].k > 1
      PROVE  /\ i - 1 \in 1 .. Size /\ Bytes[i].k = Bytes[i - 1].k + 1
             /\ Bytes[i].w = Bytes[i - 1].w /\ Bytes[i].bom = Bytes[i - 1].bom
  <2>1. /\ i > 1 /\ Bytes[i].k = Bytes[i - 1].k + 1
        /\ Bytes[i].w = Bytes[i - 1].w /\ Bytes[i].bom = Bytes[i - 1].bom
    BY <1>2, StreamAssumption
  <2>2. i - 1 \in 1 .. Size
    BY <2>1, ByteFacts
  <2> QED BY <2>1, <2>2
<1>3. Bytes[i].k = 1 => Whole(i - 1)
  BY StreamAssumption
<1>4. ASSUME Bytes[i].k > 1, Whole(i - 1) PROVE FALSE
  <2>1. i - 1 \in 1 .. Size /\ Bytes[i].k = Bytes[i - 1].k + 1 /\ Bytes[i].w = Bytes[i - 1].w
    BY <1>2, <1>4
  <2>2. Bytes[i - 1].k = Bytes[i - 1].w /\ Bytes[i - 1].k \in Nat
    BY <1>4, <2>1, ByteFacts
  <2> QED BY <1>1, <2>1, <2>2
<1> QED BY <1>1, <1>2, <1>3, <1>4

(* From a first byte on, the bytes of its character follow. *)
LEMMA CharacterFrom ==
  ASSUME NEW i \in 1 .. Size, Bytes[i].k = 1
  PROVE  /\ i + Bytes[i].w - 1 \in 1 .. Size /\ Whole(i + Bytes[i].w - 1)
         /\ \A d \in 0 .. Bytes[i].w - 1 :
              /\ i + d \in 1 .. Size /\ Bytes[i + d].k = 1 + d /\ Bytes[i + d].w = Bytes[i].w
              /\ Bytes[i + d].bom = Bytes[i].bom
<1> DEFINE OK(d) == /\ i + d \in 1 .. Size /\ Bytes[i + d].k = 1 + d /\ Bytes[i + d].w = Bytes[i].w
                    /\ Bytes[i + d].bom = Bytes[i].bom
           T == {d \in 0 .. Bytes[i].w - 1 : ~ OK(d)}
<1>1. Bytes[i].w \in 1 .. Word /\ Word \in Nat /\ Size \in Nat
  BY ByteFacts
<1>2. T = {}
  <2>1. SUFFICES ASSUME T # {} PROVE FALSE
    OBVIOUS
  <2>2. T \in SUBSET Nat
    BY <1>1
  <2>3. PICK d \in T : \A y \in T : d <= y
    BY <2>1, <2>2, Smallest
  <2>4. d \in 0 .. Bytes[i].w - 1 /\ ~ OK(d)
    BY <2>3
  <2>5. OK(0)
    BY <1>1
  <2>6. d > 0 /\ d - 1 \in 0 .. Bytes[i].w - 1 /\ d - 1 \notin T
    BY <1>1, <2>3, <2>4, <2>5
  <2>7. OK(d - 1)
    BY <2>6
  <2> DEFINE j == i + (d - 1)
  <2> HIDE DEF j
  <2>8. j = i + d - 1 /\ j \in 1 .. Size /\ Bytes[j].k = d /\ Bytes[j].w = Bytes[i].w
        /\ Bytes[j].bom = Bytes[i].bom
    BY <1>1, <2>4, <2>7 DEF j
  <2>9. ~ Whole(j)
    BY <1>1, <2>4, <2>8, ByteFacts
  <2>10. j + 1 \in 1 .. Size
    <3>1. j # Size
      BY <2>9, StreamAssumption
    <3> QED BY <1>1, <2>8, <3>1
  <2>11. Bytes[j + 1].k # 1
    BY <2>8, <2>9, <2>10, FirstByteAfterWhole
  <2>12. /\ Bytes[j + 1].k = Bytes[j].k + 1 /\ Bytes[j + 1].w = Bytes[j].w
         /\ Bytes[j + 1].bom = Bytes[j].bom
    <3>1. Bytes[j + 1].k \in 1 .. Bytes[j + 1].w /\ Bytes[j + 1].w \in 1 .. Word
      BY <2>10, ByteFacts
    <3>2. Bytes[j + 1].k > 1 /\ j + 1 - 1 = j
      BY <1>1, <2>8, <2>11, <3>1
    <3>3. \A i1 \in 1 .. Size : Bytes[i1].k > 1 =>
            /\ Bytes[i1].k = Bytes[i1 - 1].k + 1 /\ Bytes[i1].w = Bytes[i1 - 1].w
            /\ Bytes[i1].bom = Bytes[i1 - 1].bom
      BY FirstByteAfterWhole
    <3> DEFINE h == j + 1
    <3> HIDE DEF h
    <3>4. h \in 1 .. Size /\ Bytes[h].k > 1 /\ h = j + 1
      BY <2>10, <3>2 DEF h
    <3>5. /\ Bytes[h].k = Bytes[h - 1].k + 1 /\ Bytes[h].w = Bytes[h - 1].w
          /\ Bytes[h].bom = Bytes[h - 1].bom
      BY <3>3, <3>4
    <3>6. h - 1 = j
      BY <2>8, <3>4
    <3>7. /\ Bytes[h].k = Bytes[j].k + 1 /\ Bytes[h].w = Bytes[j].w
          /\ Bytes[h].bom = Bytes[j].bom
      BY <3>5, <3>6
    <3> QED BY <3>4, <3>7
  <2>13. j + 1 = i + d
    BY <1>1, <2>4, <2>8
  <2> QED BY <1>1, <2>4, <2>8, <2>10, <2>12, <2>13
<1>3. \A d \in 0 .. Bytes[i].w - 1 : OK(d)
  BY <1>2
<1>4. Bytes[i].w - 1 \in 0 .. Bytes[i].w - 1 /\ i + (Bytes[i].w - 1) = i + Bytes[i].w - 1
  BY <1>1
<1>5. OK(Bytes[i].w - 1)
  BY <1>3, <1>4
<1> DEFINE e == i + Bytes[i].w - 1
<1> HIDE DEF e
<1>6. e \in 1 .. Size /\ Bytes[e].k = Bytes[e].w
  BY <1>1, <1>4, <1>5 DEF e
<1>7. e \in 1 .. Size /\ Whole(e)
  BY <1>6, ByteFacts
<1> QED BY <1>3, <1>7 DEF e

(* A byte's character starts where its place in it says. *)
LEMMA CharacterOf ==
  ASSUME NEW i \in 1 .. Size
  PROVE  /\ i - Bytes[i].k + 1 \in 1 .. Size /\ Bytes[i - Bytes[i].k + 1].k = 1
         /\ Bytes[i - Bytes[i].k + 1].w = Bytes[i].w
<1> DEFINE OK(d) == i - d \in 1 .. Size /\ Bytes[i - d].k = Bytes[i].k - d /\ Bytes[i - d].w = Bytes[i].w
           T == {d \in 0 .. Bytes[i].k - 1 : ~ OK(d)}
<1>1. Bytes[i].k \in 1 .. Bytes[i].w /\ Bytes[i].w \in 1 .. Word /\ Word \in Nat /\ Size \in Nat
  BY ByteFacts
<1>2. T = {}
  <2>1. SUFFICES ASSUME T # {} PROVE FALSE
    OBVIOUS
  <2>2. T \in SUBSET Nat
    BY <1>1
  <2>3. PICK d \in T : \A y \in T : d <= y
    BY <2>1, <2>2, Smallest
  <2>4. d \in 0 .. Bytes[i].k - 1 /\ ~ OK(d)
    BY <2>3
  <2>5. OK(0)
    BY <1>1
  <2>6. d > 0 /\ d - 1 \in 0 .. Bytes[i].k - 1 /\ d - 1 \notin T
    BY <1>1, <2>3, <2>4, <2>5
  <2>7. OK(d - 1)
    BY <2>6
  <2> DEFINE j == i - (d - 1)
  <2> HIDE DEF j
  <2>8. j = i - d + 1 /\ j \in 1 .. Size /\ Bytes[j].k = Bytes[i].k - d + 1 /\ Bytes[j].w = Bytes[i].w
    BY <1>1, <2>4, <2>7 DEF j
  <2>9. Bytes[j].k > 1
    BY <1>1, <2>4, <2>8
  <2>10. j - 1 \in 1 .. Size /\ Bytes[j].k = Bytes[j - 1].k + 1 /\ Bytes[j].w = Bytes[j - 1].w
    BY <2>8, <2>9, FirstByteAfterWhole
  <2>11. j - 1 = i - d /\ Bytes[j - 1].k \in Nat
    BY <1>1, <2>4, <2>8, <2>10, ByteFacts
  <2> QED BY <1>1, <2>4, <2>8, <2>10, <2>11
<1>3. OK(Bytes[i].k - 1)
  BY <1>1, <1>2
<1>4. i - (Bytes[i].k - 1) = i - Bytes[i].k + 1 /\ Bytes[i].k - (Bytes[i].k - 1) = 1
  BY <1>1
<1> QED BY <1>3, <1>4

-----------------------------------------------------------------------------
(* Decoding.                                                               *)

(* A set of numbers with a bound and a member has a greatest one. *)
LEMMA Greatest ==
  ASSUME NEW n \in Nat, NEW T \in SUBSET (0 .. n), T # {}
  PROVE  Max(T) \in T /\ \A y \in T : y <= Max(T)
<1> DEFINE U == {n - y : y \in T}
<1>1. U \in SUBSET Nat /\ U # {}
  <2>1. \A y \in T : n - y \in Nat
    OBVIOUS
  <2>2. \E y \in T : TRUE
    OBVIOUS
  <2> QED BY <2>1, <2>2
<1>2. PICK x \in U : \A y \in U : x <= y
  BY <1>1, Smallest
<1>3. PICK z \in T : x = n - z
  BY <1>2
<1>4. \A y \in T : z >= y
  <2>1. TAKE y \in T
  <2>2. n - z <= n - y
    BY <1>2, <1>3
  <2> QED BY <2>2
<1>5. \E m \in T : \A y \in T : m >= y
  BY <1>4
<1>6. Max(T) \in T /\ \A y \in T : Max(T) >= y
  BY <1>5 DEF Max
<1> QED BY <1>6

(* What valid_up_to reports is the longest run of whole characters there is. *)
LEMMA UpTo ==
  ASSUME NEW b \in Seq(1 .. Size)
  PROVE  /\ ValidUpTo(b) \in 0 .. Len(b)
         /\ \A v \in 0 .. Len(b) : Valid(b, v) => v <= ValidUpTo(b)
         /\ ValidUpTo(b) > 0 => /\ b[1] \in 1 .. Size /\ Bytes[b[1]].k = 1
                                /\ Bytes[b[1]].w <= ValidUpTo(b)
<1> DEFINE T == {v \in 0 .. Len(b) : Valid(b, v)}
<1>1. Len(b) \in Nat /\ \A i \in 1 .. Len(b) : b[i] \in 1 .. Size
  BY InSequence
<1>2. T \in SUBSET (0 .. Len(b)) /\ T # {}
  <2>1. Valid(b, 0)
    BY DEF Valid
  <2> QED BY <1>1, <2>1
<1>3. ValidUpTo(b) \in T /\ \A y \in T : y <= ValidUpTo(b)
  <2> HIDE DEF T
  <2>1. Max(T) \in T /\ \A y \in T : y <= Max(T)
    BY <1>1, <1>2, Greatest
  <2> QED BY <2>1 DEF ValidUpTo, T
<1> DEFINE v == ValidUpTo(b)
<1>4. v \in 0 .. Len(b) /\ Valid(b, v)
  BY <1>3
<1>5. ASSUME v > 0
      PROVE  b[1] \in 1 .. Size /\ Bytes[b[1]].k = 1 /\ Bytes[b[1]].w <= v
  <2> HIDE DEF v
  <2>1. 1 \in 1 .. v /\ b[1] \in 1 .. Size /\ Bytes[b[1]].w \in Nat
    BY <1>1, <1>4, <1>5, ByteFacts
  <2>2. IF Bytes[b[1]].k = 1
        THEN 1 + Bytes[b[1]].w - 1 <= v
        ELSE \E j \in 1 .. 1 - 1 : Bytes[b[j]].k = 1 /\ 1 < j + Bytes[b[j]].w
    BY <1>4, <2>1 DEF Valid
  <2> QED BY <1>4, <2>1, <2>2
<1> QED BY <1>3, <1>4, <1>5

(* No character lies across the end of whole ones: it starts after it ... *)
LEMMA StartsAfter ==
  ASSUME NEW at \in Nat, Whole(at), NEW y \in 1 .. Size, at < y
  PROVE  at < y - Bytes[y].k + 1
<1>1. Bytes[y].k \in Nat /\ Size \in Nat /\ y \in Nat
  BY ByteFacts
<1>2. PICK z \in Int : z = y - Bytes[y].k + 1
  BY <1>1
<1>3. z \in 1 .. Size /\ Bytes[z].k = 1 /\ Bytes[z].w = Bytes[y].w
  BY <1>2, CharacterOf
<1>4. \A d \in 0 .. Bytes[z].w - 1 : z + d \in 1 .. Size /\ Bytes[z + d].k = 1 + d /\ Bytes[z + d].w = Bytes[z].w
  BY <1>3, CharacterFrom
<1>5. Bytes[y].w \in Nat /\ Bytes[y].k <= Bytes[y].w
  BY ByteFacts
<1>6. SUFFICES ASSUME z <= at PROVE FALSE
  BY <1>1, <1>2
<1>7. PICK d \in Int : d = at - z
  BY <1>2
<1>8. 0 <= d /\ 1 + d < Bytes[z].w /\ z + d = at
  BY <1>1, <1>2, <1>3, <1>5, <1>6, <1>7
<1>9. at \in 1 .. Size /\ Bytes[at].k = 1 + d /\ Bytes[at].w = Bytes[z].w
  <2>1. d \in 0 .. Bytes[z].w - 1
    BY <1>3, <1>5, <1>7, <1>8
  <2> QED BY <1>4, <1>8, <2>1
<1>10. Bytes[at].k = Bytes[at].w
  BY <1>9, ByteFacts
<1> QED BY <1>8, <1>9, <1>10

(* ... and ends before it. *)
LEMMA EndsBefore ==
  ASSUME NEW e \in Nat, Whole(e), NEW y \in 1 .. Size, y <= e, Bytes[y].k = 1
  PROVE  y + Bytes[y].w - 1 <= e
<1>1. Bytes[y].w \in Nat /\ Size \in Nat /\ y \in Nat
  BY ByteFacts
<1>4. \A d \in 0 .. Bytes[y].w - 1 : y + d \in 1 .. Size /\ Bytes[y + d].k = 1 + d /\ Bytes[y + d].w = Bytes[y].w
  BY CharacterFrom
<1>6. SUFFICES ASSUME y + Bytes[y].w - 1 > e PROVE FALSE
  BY <1>1
<1>7. PICK d \in Int : d = e - y
  BY <1>1
<1>8. 0 <= d /\ 1 + d < Bytes[y].w /\ y + d = e
  BY <1>1, <1>6, <1>7
<1>9. e \in 1 .. Size /\ Bytes[e].k = 1 + d /\ Bytes[e].w = Bytes[y].w
  <2>1. d \in 0 .. Bytes[y].w - 1
    BY <1>1, <1>7, <1>8
  <2> QED BY <1>4, <1>8, <2>1
<1>10. Bytes[e].k = Bytes[e].w
  BY <1>9, ByteFacts
<1> QED BY <1>8, <1>9, <1>10

(* Consecutive bytes from one character's start to another's are whole. *)
LEMMA WholeRun ==
  ASSUME NEW at \in Nat, NEW b \in Seq(1 .. Size), Consecutive(b, at),
         Whole(at), NEW v \in 0 .. Len(b), Whole(at + v)
  PROVE  Valid(b, v)
<1>1. /\ Len(b) \in Nat /\ v \in Nat /\ v <= Len(b)
      /\ \A i \in 1 .. Len(b) : b[i] = at + i /\ at + i \in 1 .. Size
  <2>1. Len(b) \in Nat /\ \A i \in 1 .. Len(b) : b[i] \in 1 .. Size
    BY InSequence
  <2>2. \A i \in 1 .. Len(b) : b[i] = at + i
    BY DEF Consecutive
  <2> QED BY <2>1, <2>2
<1>2. ASSUME NEW i \in 1 .. v, Bytes[b[i]].k = 1
      PROVE  /\ i + Bytes[b[i]].w - 1 <= v
             /\ \A j \in i + 1 .. i + Bytes[b[i]].w - 1 : Bytes[b[j]].k > 1
  <2>1. PICK y \in 1 .. Size : y = b[i] /\ y = at + i
    BY <1>1
  <2>2. Bytes[y].w \in Nat /\ y <= at + v /\ i \in Nat /\ at + v \in Nat
    BY <1>1, <2>1, ByteFacts
  <2>3. y + Bytes[y].w - 1 <= at + v
    BY <1>2, <2>1, <2>2, EndsBefore
  <2>4. i + Bytes[y].w - 1 <= v
    BY <1>1, <2>1, <2>2, <2>3
  <2>5. ASSUME NEW j \in i + 1 .. i + Bytes[y].w - 1 PROVE Bytes[b[j]].k > 1
    <3>1. j \in 1 .. Len(b)
      BY <1>1, <2>2, <2>4
    <3>2. b[j] = at + j
      BY <1>1, <3>1
    <3>3. PICK d \in Int : d = j - i
      BY <2>2
    <3>4. d \in 0 .. Bytes[y].w - 1 /\ d > 0 /\ y + d = at + j
      BY <2>1, <2>2, <3>3
    <3>5. Bytes[y + d].k = 1 + d
      BY <1>2, <2>1, <3>4, CharacterFrom
    <3> QED BY <3>2, <3>4, <3>5
  <2> QED BY <2>1, <2>4, <2>5
<1>3. ASSUME NEW i \in 1 .. v, Bytes[b[i]].k # 1
      PROVE  \E j \in 1 .. i - 1 : Bytes[b[j]].k = 1 /\ i < j + Bytes[b[j]].w
  <2>1. PICK y \in 1 .. Size : y = b[i] /\ y = at + i
    BY <1>1
  <2>2. /\ Bytes[y].k \in Nat /\ 1 < Bytes[y].k /\ Bytes[y].k <= Bytes[y].w /\ Bytes[y].w \in Nat
        /\ i \in Nat /\ at < y /\ i <= Len(b)
    BY <1>1, <1>3, <2>1, ByteFacts
  <2>3. at < y - Bytes[y].k + 1
    BY <2>2, StartsAfter
  <2>4. PICK z \in Int : z = y - Bytes[y].k + 1
    BY <2>2
  <2>5. Bytes[z].k = 1 /\ Bytes[z].w = Bytes[y].w
    BY <2>4, CharacterOf
  <2>6. PICK j \in Int : j = z - at
    BY <2>4
  <2>7. 1 <= j /\ j <= i - 1 /\ i < j + Bytes[y].w /\ at + j = z
    <3>1. PICK k \in Nat, w \in Nat : k = Bytes[y].k /\ w = Bytes[y].w
      BY <2>2
    <3>2. y \in Int /\ y = at + i /\ z = y - k + 1 /\ 1 < k /\ k <= w
      BY <2>1, <2>2, <2>4, <3>1
    <3>3. j = i - k + 1 /\ at + j = z
      BY <2>2, <2>6, <3>2
    <3>4. 1 <= j
      BY <2>3, <2>4, <2>6
    <3>5. j <= i - 1 /\ i < j + w
      BY <2>2, <3>2, <3>3
    <3> QED BY <3>1, <3>3, <3>4, <3>5
  <2>8. j \in 1 .. i - 1 /\ j \in 1 .. Len(b)
    BY <1>1, <2>2, <2>7
  <2>9. b[j] = z
    BY <1>1, <2>7, <2>8
  <2> QED BY <2>5, <2>7, <2>8, <2>9
<1> QED BY <1>2, <1>3 DEF Valid

(* A buffer is decoded to a character only if it starts with one. *)
LEMMA DecodeFacts ==
  ASSUME NEW b \in Seq(1 .. Size), Len(b) <= Word
  PROVE  /\ Decoded(b) \in {"none", "char", "bad", "short"}
         /\ Decoded(b) = "none" <=> Len(b) = 0
         /\ Decoded(b) = "char" => ValidUpTo(b) > 0
         /\ Decoded(b) = "short" => Len(b) < Word
<1>1. PICK n \in Nat : n = Len(b)
  BY InSequence
<1>2. PICK v \in 0 .. n : v = ValidUpTo(b)
  BY <1>1, UpTo
<1>3. Word \in Nat /\ Word > 0
  BY ByteFacts
<1>4. Decoded(b) = IF n = 0 THEN "none"
                   ELSE IF v = n THEN "char"
                   ELSE IF n - v >= Word THEN "bad"
                   ELSE IF n >= Word THEN "char"
                   ELSE "short"
  BY <1>1, <1>2 DEF Decoded, Verdict
<1>5. n # 0 /\ v = n => v > 0
  BY <1>2
<1>6. ~ (n - v >= Word) /\ n >= Word => v > 0
  BY <1>2, <1>3
<1> QED BY <1>1, <1>2, <1>3, <1>4, <1>5, <1>6

(* What starts with a character is no garbage, and what ends with one is       *)
(* decoded.                                                                     *)
LEMMA DecodeAligned ==
  ASSUME NEW b \in Seq(1 .. Size), 0 < Len(b), Len(b) <= Word,
         NEW at \in Nat, Consecutive(b, at), Whole(at)
  PROVE  Decoded(b) # "bad" /\ (Whole(at + Len(b)) => Decoded(b) = "char")
<1>1. PICK n \in Nat : n = Len(b) /\ 0 < n /\ n <= Word
  BY InSequence
<1>2. PICK v \in 0 .. n : v = ValidUpTo(b) /\ \A m \in 0 .. n : Valid(b, m) => m <= v
  BY <1>1, UpTo
<1>3. Word \in Nat /\ Word > 0
  BY ByteFacts
<1>4. Decoded(b) = IF v = n THEN "char"
                   ELSE IF n - v >= Word THEN "bad"
                   ELSE IF n >= Word THEN "char"
                   ELSE "short"
  BY <1>1, <1>2 DEF Decoded, Verdict
<1>5. ASSUME Whole(at + Len(b)) PROVE v = n
  <2>1. n \in 0 .. Len(b) /\ Whole(at + n)
    BY <1>1, <1>5
  <2>2. Valid(b, n)
    BY <2>1, WholeRun
  <2> QED BY <1>1, <1>2, <2>2
<1>6. ~ (n - v >= Word)
  <2>1. SUFFICES ASSUME v = 0, n = Word PROVE FALSE
    BY <1>1, <1>2, <1>3
  <2>2. PICK y \in 1 .. Size : y = at + 1 /\ y - 1 = at
    <3>1. b[1] = at + 1 /\ b[1] \in 1 .. Size
      <4>1. 1 \in 1 .. Len(b)
        BY <1>1
      <4> QED BY <4>1, InSequence DEF Consecutive
    <3> QED BY <3>1
  <2>3. Bytes[y].k = 1
    BY <2>2, FirstByteAfterWhole
  <2>4. PICK w \in 1 .. Word : w = Bytes[y].w /\ Whole(y + w - 1)
    BY <2>3, ByteFacts, CharacterFrom
  <2>5. y + w - 1 = at + w /\ w \in 0 .. Len(b)
    BY <1>1, <1>3, <2>1, <2>2, <2>4
  <2>6. Valid(b, w)
    BY <2>4, <2>5, WholeRun
  <2> QED BY <1>1, <1>2, <1>3, <2>1, <2>4, <2>5, <2>6
<1> QED BY <1>4, <1>5, <1>6

(* The n bytes that follow the first at bytes are a character. *)
OneCharacter(at, n) ==
  Whole(at + n) /\ at + 1 \in 1 .. Size /\ Bytes[at + 1].k = 1 /\ Bytes[at + 1].w = n

(* The character a decoded buffer starts with. *)
LEMMA FirstCharFacts ==
  ASSUME NEW b \in Seq(1 .. Size), ValidUpTo(b) > 0
  PROVE  /\ FirstChar(b) \in Seq(1 .. Size)
         /\ Len(FirstChar(b)) \in 1 .. Len(b)
         /\ \A at \in Nat : Consecutive(b, at) =>
               /\ Consecutive(FirstChar(b), at)
               /\ OneCharacter(at, Len(FirstChar(b)))
<1>1. PICK n \in Nat : n = Len(b) /\ \A i \in 1 .. n : b[i] \in 1 .. Size
  BY InSequence
<1>2. PICK y \in 1 .. Size : y = b[1] /\ Bytes[y].k = 1 /\ Bytes[y].w <= ValidUpTo(b)
  BY UpTo
<1>3. PICK w \in Nat : w = Bytes[y].w /\ w >= 1 /\ Whole(y + w - 1)
  BY <1>2, ByteFacts, CharacterFrom
<1>4. w <= n
  BY <1>1, <1>2, <1>3, UpTo
<1>5. FirstChar(b) = SubSeq(b, 1, w)
  BY <1>2, <1>3 DEF FirstChar
<1>6. /\ SubSeq(b, 1, w) \in Seq(1 .. Size) /\ Len(SubSeq(b, 1, w)) = w
      /\ \A i \in 1 .. w : SubSeq(b, 1, w)[i] = b[i]
  BY <1>1, <1>3, <1>4
<1>7. ASSUME NEW at \in Nat, Consecutive(b, at)
      PROVE  Consecutive(FirstChar(b), at) /\ OneCharacter(at, w)
  <2>1. \A i \in 1 .. n : b[i] = at + i
    BY <1>1, <1>7 DEF Consecutive
  <2>2. y = at + 1
    BY <1>2, <1>3, <1>4, <2>1
  <2>3. y + w - 1 = at + w
    BY <1>3, <2>2
  <2>4. \A i \in 1 .. w : FirstChar(b)[i] = at + i
    BY <1>4, <1>5, <1>6, <2>1
  <2>5. OneCharacter(at, w)
    BY <1>2, <1>3, <2>2, <2>3 DEF OneCharacter
  <2> QED BY <1>5, <1>6, <2>4, <2>5 DEF Consecutive
<1> QED BY <1>1, <1>3, <1>4, <1>5, <1>6, <1>7

-----------------------------------------------------------------------------
(* The reader underneath.                                                  *)

(* Reading changes neither what a stream is nor what was sent to it. *)
SameStream(t, u) ==
  u.kind = t.kind /\ u.opt = t.opt /\ u.sent = t.sent /\ u.closed = t.closed /\ u.past = t.past

(* What one read of n bytes that gets k does. *)
ReadsOn(t, n, k, r) ==
  /\ r.data \in Seq(1 .. Size) /\ Len(r.data) = k /\ Consecutive(r.data, t.cur)
  /\ r.s \in Streams /\ SameStream(t, r.s)
  /\ r.s.buf = t.buf /\ r.s.pos = t.pos /\ r.s.cur = t.cur + k
  /\ k > 0 => t.cur + k <= t.sent
  /\ t.kind # "channel" /\ k < n => t.cur + k >= t.sent
  /\ k < n => \A m \in Nat : Available(r.s, m) = 0
  /\ r.waits = (t.kind \in Blocking /\ k = 0 /\ ~t.closed)

(* No more is to be had than was asked for, or than there is. *)
LEMMA AvailableFacts ==
  ASSUME NEW t \in Streams, NEW n \in Nat
  PROVE  /\ Available(t, n) \in 0 .. n
         /\ Available(t, n) > 0 => t.cur + Available(t, n) <= t.sent
         /\ Available(t, n) < n => (t.kind = "channel" /\ t.eof) \/ t.cur + Available(t, n) >= t.sent
<1>1. t.cur \in Nat /\ t.sent \in Nat
  BY ByteFacts DEF Streams
<1>2. PICK c \in Nat, e \in Nat : c = t.cur /\ e = t.sent
  BY <1>1
<1>3. Available(t, n) = IF t.kind = "channel" /\ t.eof THEN 0
                        ELSE IF c + n <= e THEN n
                        ELSE IF c > e THEN 0 ELSE e - c
  BY <1>2 DEF Available
<1>4. CASE t.kind = "channel" /\ t.eof
  BY <1>2, <1>3, <1>4
<1>5. CASE ~ (t.kind = "channel" /\ t.eof) /\ c + n <= e
  BY <1>2, <1>3, <1>5
<1>6. CASE ~ (t.kind = "channel" /\ t.eof) /\ ~ (c + n <= e) /\ c > e
  BY <1>2, <1>3, <1>6
<1>7. CASE ~ (t.kind = "channel" /\ t.eof) /\ ~ (c + n <= e) /\ ~ (c > e)
  <2>1. Available(t, n) = e - c /\ e - c \in 0 .. n /\ c + (e - c) = e
    BY <1>2, <1>3, <1>7
  <2> QED BY <1>2, <2>1
<1> QED BY <1>4, <1>5, <1>6, <1>7

(* A read gives the bytes that come next. *)
LEMMA Taken ==
  ASSUME NEW t \in Streams, NEW n \in Nat
  PROVE  \E k \in 0 .. n : ReadsOn(t, n, k, InnerRead(t, n))
<1>1. PICK k \in 0 .. n : k = Available(t, n)
  BY AvailableFacts
<1> DEFINE u == [t EXCEPT !.cur = @ + k, !.eof = @ \/ (t.kind = "channel" /\ k < n /\ t.closed)]
           data == [i \in 1 .. k |-> t.cur + i]
<1>2. InnerRead(t, n) = [data |-> data, waits |-> t.kind \in Blocking /\ k = 0 /\ ~t.closed, s |-> u]
  BY <1>1 DEF InnerRead, Took
<1>3. t.cur \in Nat /\ t.sent \in 0 .. Size /\ Size \in Nat /\ t.eof \in BOOLEAN
  BY ByteFacts DEF Streams
<1>4. /\ k > 0 => t.cur + k <= t.sent
      /\ k < n => (t.kind = "channel" /\ t.eof) \/ t.cur + k >= t.sent
  BY <1>1, AvailableFacts
<1>5. u \in Streams
  <2>1. t.cur + k \in Nat /\ (t.eof \/ (t.kind = "channel" /\ k < n /\ t.closed)) \in BOOLEAN
    BY <1>3
  <2> QED BY <2>1 DEF Streams
<1>6. /\ SameStream(t, u) /\ u.buf = t.buf /\ u.pos = t.pos /\ u.cur = t.cur + k
      /\ u.eof = (t.eof \/ (t.kind = "channel" /\ k < n /\ t.closed))
  BY DEF Streams, SameStream
<1>7. data \in Seq(1 .. Size) /\ Len(data) = k /\ Consecutive(data, t.cur)
  <2>1. k \in Nat /\ \A i \in 1 .. k : t.cur + i \in 1 .. Size
    BY <1>3, <1>4
  <2>2. data \in Seq(1 .. Size) /\ Len(data) = k
    BY <2>1
  <2> QED BY <2>2 DEF Consecutive
<1> HIDE DEF u, data
<1>8. ASSUME k < n, NEW m \in Nat PROVE Available(u, m) = 0
  <2>1. CASE t.kind = "channel" /\ t.eof
    BY <1>6, <2>1 DEF Available, SameStream
  <2>2. CASE t.cur + k >= t.sent
    <3>1. PICK c \in Nat, e \in Nat : c = u.cur /\ e = u.sent /\ c >= e
      BY <1>3, <1>6, <2>2 DEF SameStream
    <3>2. IF c + m <= e THEN m = 0 ELSE c > e \/ e - c = 0
      BY <3>1
    <3> QED BY <3>1, <3>2 DEF Available
  <2> QED BY <1>4, <1>8, <2>1, <2>2
<1>9. t.kind # "channel" /\ k < n => t.cur + k >= t.sent
  BY <1>4
<1>10. ReadsOn(t, n, k, [data |-> data, waits |-> t.kind \in Blocking /\ k = 0 /\ ~t.closed, s |-> u])
  BY <1>4, <1>5, <1>6, <1>7, <1>8, <1>9 DEF ReadsOn
<1> QED BY <1>2, <1>10

-----------------------------------------------------------------------------
(* The buffer.                                                             *)

(* Being Steady or Intact is a matter of the kind, the options and the contents. *)
LEMMA SameSteady ==
  ASSUME NEW t, NEW u, SameStream(t, u)
  PROVE  (Steady(u) <=> Steady(t)) /\ (Intact(u) <=> Intact(t))
BY DEF SameStream, Steady, Intact

(* The end of a sequence. *)
LEMMA Suffix ==
  ASSUME NEW R, NEW q \in Seq(R), NEW p \in Nat, p <= Len(q)
  PROVE  /\ SubSeq(q, p + 1, Len(q)) \in Seq(R)
         /\ Len(SubSeq(q, p + 1, Len(q))) = Len(q) - p
         /\ \A i \in 1 .. Len(q) - p : SubSeq(q, p + 1, Len(q))[i] = q[p + i]
<1>1. Len(q) \in Nat /\ \A i \in 1 .. Len(q) : q[i] \in R
  BY InSequence
<1>2. p + 1 \in 1 .. Len(q) + 1
  BY <1>1
<1> QED BY <1>1, <1>2

(* The types and lengths of what a buffered stream is made of. *)
LEMMA BufferFacts ==
  ASSUME NEW t \in Buffered
  PROVE  /\ t \in Streams /\ t.buf \in Seq(1 .. Size) /\ Len(t.buf) \in Nat /\ Len(t.buf) <= Word
         /\ t.pos \in Nat /\ t.cur \in Nat /\ t.sent \in 0 .. Size /\ Size \in Nat
         /\ RemBufLen(t) \in Nat /\ RemBufLen(t) <= Word /\ RemBufLen(t) = Len(t.buf) - t.pos
         /\ At(t) \in Int /\ At(t) = t.cur - RemBufLen(t)
         /\ Rest(t) \in Seq(1 .. Size) /\ Len(Rest(t)) = RemBufLen(t)
         /\ \A i \in 1 .. RemBufLen(t) : t.pos + i \in 1 .. Len(t.buf) /\ Rest(t)[i] = t.buf[t.pos + i]
<1>1. t \in Streams /\ t.pos <= Len(t.buf) /\ Len(t.buf) <= Word
  BY DEF Buffered
<1>2. t.buf \in Seq(1 .. Size) /\ t.pos \in Nat /\ t.cur \in Nat /\ t.sent \in 0 .. Size
  BY <1>1 DEF Streams
<1>3. Size \in Nat /\ Word \in Nat
  BY ByteFacts
<1>4. PICK n \in Nat : n = Len(t.buf) /\ \A i \in 1 .. n : t.buf[i] \in 1 .. Size
  BY <1>2, InSequence
<1>5. PICK p \in Nat : p = t.pos /\ p <= n /\ n <= Word
  BY <1>1, <1>2, <1>4
<1>6. RemBufLen(t) = n - p
  BY <1>4, <1>5 DEF RemBufLen
<1>7. Rest(t) = SubSeq(t.buf, p + 1, n)
  BY <1>4, <1>5 DEF Rest
<1>8. PICK b \in Seq(1 .. Size) : b = t.buf /\ Len(b) = n
  BY <1>2, <1>4
<1>9. /\ SubSeq(b, p + 1, n) \in Seq(1 .. Size) /\ Len(SubSeq(b, p + 1, n)) = n - p
      /\ \A i \in 1 .. n - p : SubSeq(b, p + 1, n)[i] = b[p + i]
  <2>1. p <= Len(b)
    BY <1>5, <1>8
  <2> QED BY <1>8, <2>1, Suffix
<1>10. n - p \in Nat /\ n - p <= Word /\ t.cur - (n - p) \in Int
  BY <1>2, <1>3, <1>5
<1>11. \A i \in 1 .. n - p : p + i \in 1 .. n
  BY <1>5
<1> QED BY <1>1, <1>2, <1>3, <1>4, <1>5, <1>6, <1>7, <1>8, <1>9, <1>10, <1>11 DEF At

(* A read leaves the stream where the program was, with the contents in step. *)
Reached(t, r) ==
  /\ Fit(r.s) /\ SameStream(t, r.s) /\ r.waits \in BOOLEAN
  /\ r.waits => t.kind \in Blocking
  /\ Steady(t) => At(r.s) = At(t)

(* The kinds of stream that tell their end as it is. *)
Honest(t) == t.kind \notin {"byte", "channel"}

(* There is nothing more to come. *)
Over(t, u) == t.closed /\ u.cur >= t.sent

(* refresh_buffer keeps the buffer in step, and finds nothing only at the end. *)
LEMMA Refreshing ==
  ASSUME NEW t, Fit(t)
  PROVE  LET r == RefreshBuffer(t)
         IN  /\ Reached(t, r)
             /\ RemBufLen(r.s) = 0 /\ ~r.waits /\ Honest(t) => Over(t, r.s)
<1>1. t \in Buffered
  BY DEF Fit
<1>2. CASE t.pos < Len(t.buf)
  <2>1. RefreshBuffer(t) = [s |-> t, waits |-> FALSE]
    BY <1>2 DEF RefreshBuffer
  <2>2. RemBufLen(t) # 0
    BY <1>1, <1>2, BufferFacts
  <2> QED BY <2>1, <2>2 DEF Reached, SameStream
<1>3. CASE ~ (t.pos < Len(t.buf))
  <2>1. RemBufLen(t) = 0 /\ At(t) = t.cur /\ t.cur \in Nat /\ t \in Streams
    BY <1>1, <1>3, BufferFacts DEF Buffered
  <2>2. Word \in Nat /\ Word > 0
    BY ByteFacts
  <2>3. PICK k \in 0 .. Word : ReadsOn(t, Word, k, InnerRead(t, Word))
    BY <2>1, <2>2, Taken
  <2> DEFINE d == InnerRead(t, Word)
             u == [d.s EXCEPT !.buf = d.data, !.pos = 0]
  <2> HIDE DEF d
  <2>4. RefreshBuffer(t) = [s |-> u, waits |-> d.waits]
    BY <1>3 DEF RefreshBuffer, Refilled, d
  <2>5. ReadsOn(t, Word, k, d)
    BY <2>3 DEF d
  <2>6. /\ d.data \in Seq(1 .. Size) /\ Len(d.data) = k /\ Consecutive(d.data, t.cur)
        /\ d.s \in Streams /\ SameStream(t, d.s) /\ d.s.cur = t.cur + k
        /\ k > 0 => t.cur + k <= t.sent
        /\ t.kind # "channel" /\ k < Word => t.cur + k >= t.sent
        /\ d.waits = (t.kind \in Blocking /\ k = 0 /\ ~t.closed)
    BY <2>5 DEF ReadsOn
  <2>7. u \in Streams
    BY <2>6 DEF Streams
  <2>8. SameStream(t, u) /\ u.buf = d.data /\ u.pos = 0 /\ u.cur = t.cur + k
    BY <2>6 DEF Streams, SameStream
  <2> HIDE DEF u
  <2>9. u \in Buffered /\ RemBufLen(u) = k /\ At(u) = t.cur
    <3>1. u \in Buffered
      BY <2>2, <2>6, <2>7, <2>8 DEF Buffered
    <3>2. RemBufLen(u) = k
      BY <2>6, <2>8 DEF RemBufLen
    <3> QED BY <2>1, <2>8, <3>1, <3>2 DEF At
  <2>10. ASSUME Steady(t) PROVE InStep(u) /\ Drained(u)
    <3>1. InStep(t) /\ Drained(t)
      BY <2>10 DEF Fit
    <3>2. Consecutive(Rest(u), At(u))
      <4>1. Len(Rest(u)) = k /\ \A i \in 1 .. k : Rest(u)[i] = u.buf[0 + i]
        BY <2>8, <2>9, BufferFacts
      <4>2. \A i \in 1 .. k : d.data[i] = t.cur + i
        BY <2>6 DEF Consecutive
      <4> QED BY <2>8, <2>9, <4>1, <4>2 DEF Consecutive
    <3>3. u.cur <= u.sent \/ (k = 0 /\ u.kind = "file")
      <4>1. CASE k = 0
        BY <2>1, <2>8, <3>1, <4>1 DEF InStep, SameStream
      <4>2. CASE k # 0
        BY <2>6, <2>8, <4>2 DEF SameStream
      <4> QED BY <4>1, <4>2
    <3>4. u.opt.type = "text" /\ At(u) <= u.sent => Whole(At(u))
      BY <2>1, <2>8, <2>9, <3>1 DEF InStep, SameStream
    <3>5. Drained(u)
      <4>1. SUFFICES ASSUME u.kind = "file" /\ u.opt.eof = "reset" /\ u.past
                     PROVE  RemBufLen(u) = 0 /\ u.cur >= u.sent
        BY DEF Drained
      <4>2. t.cur >= t.sent
        BY <2>8, <3>1, <4>1 DEF Drained, SameStream
      <4>3. t.sent \in Nat
        BY <1>1, BufferFacts
      <4>4. k = 0
        BY <2>1, <2>6, <4>2, <4>3
      <4> QED BY <2>1, <2>8, <2>9, <4>2, <4>4 DEF SameStream
    <3> QED BY <2>1, <2>9, <3>2, <3>3, <3>4, <3>5 DEF InStep
  <2>11. Fit(u)
    <3>1. u.kind \in Static => u.closed
      BY <2>8 DEF Fit, SameStream
    <3> QED BY <2>8, <2>9, <2>10, <3>1, SameSteady DEF Fit
  <2>12. d.waits \in BOOLEAN /\ (d.waits => t.kind \in Blocking)
    BY <2>6
  <2>13. ASSUME k = 0, ~d.waits, Honest(t) PROVE Over(t, u)
    <3>1. t.kind \in Static \cup Blocking
      <4>1. t.kind \in Kinds
        BY <2>1 DEF Streams
      <4> QED BY <2>13, <4>1, StreamAssumption DEF Honest, Static, Blocking
    <3>2. t.closed
      BY <2>6, <2>13, <3>1 DEF Fit
    <3> QED BY <2>2, <2>6, <2>8, <2>13, <3>2 DEF Over, Honest
  <2> QED BY <2>1, <2>4, <2>8, <2>9, <2>11, <2>12, <2>13 DEF Reached
<1> QED BY <1>2, <1>3

-----------------------------------------------------------------------------
(* peek_char's loop.                                                       *)

(* The rest moved to the front. *)
Moved(t) == [t EXCEPT !.buf = Rest(t), !.pos = 0]

(* Moving the rest to the front changes nothing that is read. *)
LEMMA MovedFacts ==
  ASSUME NEW t, Fit(t)
  PROVE  /\ Fit(Moved(t)) /\ SameStream(t, Moved(t)) /\ At(Moved(t)) = At(t)
         /\ Moved(t).buf = Rest(t) /\ Moved(t).pos = 0 /\ Moved(t).cur = t.cur
         /\ Moved(t).eof = t.eof /\ Rest(Moved(t)) = Rest(t)
<1> DEFINE u == Moved(t)
<1>1. t \in Buffered
  BY DEF Fit
<1>2. PICK n \in Nat, b \in Seq(1 .. Size) : n = RemBufLen(t) /\ b = Rest(t) /\ Len(b) = n /\ n <= Word
  BY <1>1, BufferFacts
<1>3. t \in Streams
  BY <1>1, BufferFacts
<1>4. u \in Streams /\ SameStream(t, u) /\ u.buf = b /\ u.pos = 0 /\ u.cur = t.cur /\ u.eof = t.eof
  BY <1>2, <1>3 DEF Moved, Streams, SameStream
<1> HIDE DEF u
<1>5. u \in Buffered /\ RemBufLen(u) = n
  BY <1>2, <1>4 DEF Buffered, RemBufLen
<1>6. At(u) = At(t)
  BY <1>2, <1>4, <1>5 DEF At
<1>7. Rest(u) = b
  <2>1. Rest(u) = SubSeq(b, 1, Len(b))
    BY <1>4 DEF Rest
  <2> QED BY <2>1
<1>8. Steady(t) => InStep(u) /\ Drained(u)
  BY <1>2, <1>4, <1>5, <1>6, <1>7 DEF Fit, InStep, Drained, SameStream
<1>9. Fit(u)
  BY <1>4, <1>5, <1>8, SameSteady DEF Fit, SameStream
<1> QED BY <1>2, <1>4, <1>6, <1>7, <1>9 DEF u

(* What typing two sequences gives of their concatenation. *)
LEMMA Joined ==
  ASSUME NEW R, NEW a \in Seq(R), NEW b \in Seq(R)
  PROVE  a \o b \in Seq(R) /\ Len(a \o b) = Len(a) + Len(b)
OBVIOUS

(* The bytes after the first at, and the bytes after those. *)
LEMMA ConsecutiveJoined ==
  ASSUME NEW a \in Seq(1 .. Size), NEW b \in Seq(1 .. Size), NEW at \in Int,
         Consecutive(a, at), Consecutive(b, at + Len(a))
  PROVE  Consecutive(a \o b, at)
<1>1. PICK m \in Nat, n \in Nat : m = Len(a) /\ n = Len(b)
  BY InSequence
<1>2. Len(a \o b) = m + n /\ \A i \in 1 .. m + n : (a \o b)[i] = IF i <= m THEN a[i] ELSE b[i - m]
  BY <1>1
<1>3. ASSUME NEW i \in 1 .. m + n PROVE (a \o b)[i] = at + i
  <2>1. CASE i <= m
    BY <1>1, <1>2, <2>1 DEF Consecutive
  <2>2. CASE ~ (i <= m)
    <3>1. PICK j \in 1 .. n : j = i - m
      BY <2>2
    <3>2. b[j] = at + m + j
      BY <1>1, <3>1 DEF Consecutive
    <3> QED BY <1>2, <2>2, <3>1, <3>2
  <2> QED BY <2>1, <2>2
<1> QED BY <1>2, <1>3 DEF Consecutive

(* A state of peek_char's loop. *)
Peeking(t, r) ==
  /\ Reached(t, r)
  /\ r.out \in {"none", "char", "bad", "short"}
  /\ r.out # "bad" => r.out = Decoded(Rest(r.s))
  /\ r.out = "none" /\ ~r.waits /\ Honest(t) => Over(t, r.s)
  /\ r.out = "bad" /\ ~r.waits /\ Honest(t) /\ Steady(t) => t.closed /\ ~Intact(t)
  /\ r.waits => r.out # "short"

(* The loop starts with what refresh_buffer leaves. *)
LEMMA StartPeeking ==
  ASSUME NEW t, Fit(t), t.opt.type = "text", NEW f, f = RefreshBuffer(t)
  PROVE  Peeking(t, [s |-> f.s, waits |-> f.waits, out |-> Decoded(Rest(f.s))])
<1>1. Reached(t, f) /\ (RemBufLen(f.s) = 0 /\ ~f.waits /\ Honest(t) => Over(t, f.s))
  BY Refreshing
<1> DEFINE u == f.s
           r == [s |-> u, waits |-> f.waits, out |-> Decoded(Rest(u))]
<1> HIDE DEF u
<1>2. /\ Fit(u) /\ SameStream(t, u) /\ f.waits \in BOOLEAN /\ (Steady(t) => At(u) = At(t))
      /\ f.waits => t.kind \in Blocking
  BY <1>1 DEF Reached, u
<1>3. u \in Buffered
  BY <1>2 DEF Fit
<1>4. PICK b \in Seq(1 .. Size) : b = Rest(u) /\ Len(b) = RemBufLen(u) /\ Len(b) <= Word /\ Len(b) \in Nat
  BY <1>3, BufferFacts
<1>5. /\ Decoded(b) \in {"none", "char", "bad", "short"}
      /\ Decoded(b) = "none" <=> Len(b) = 0
  BY <1>4, DecodeFacts
<1>6. ASSUME Steady(t) PROVE Decoded(b) # "bad"
  <2>1. CASE Len(b) = 0
    BY <1>5, <2>1
  <2>2. CASE Len(b) # 0
    <3>1. InStep(u) /\ u.opt.type = "text"
      BY <1>2, <1>6, SameSteady DEF Fit, SameStream
    <3>2. At(u) \in Nat /\ At(u) <= u.sent
      BY <1>3, <1>4, <2>2, <3>1, BufferFacts DEF InStep
    <3> QED BY <1>4, <2>2, <3>1, <3>2, DecodeAligned DEF InStep
  <2> QED BY <2>1, <2>2
<1>7. ASSUME f.waits PROVE Decoded(b) # "short"
  <2>1. ~ (t.pos < Len(t.buf))
    BY <1>7 DEF RefreshBuffer
  <2>2. f = Refilled(InnerRead(t, Word))
    BY <2>1 DEF RefreshBuffer
  <2>3. Word \in Nat /\ t \in Streams
    BY ByteFacts DEF Fit, Buffered
  <2>4. PICK k \in 0 .. Word : ReadsOn(t, Word, k, InnerRead(t, Word))
    BY <2>3, Taken
  <2> DEFINE d == InnerRead(t, Word)
  <2> HIDE DEF d
  <2>5. ReadsOn(t, Word, k, d) /\ f = [s |-> [d.s EXCEPT !.buf = d.data, !.pos = 0], waits |-> d.waits]
    BY <2>2, <2>4 DEF Refilled, d
  <2>6. f.waits = d.waits /\ u = [d.s EXCEPT !.buf = d.data, !.pos = 0]
    BY <2>5 DEF u
  <2>9. k = 0 /\ Len(d.data) = 0 /\ d.s \in Streams /\ d.data \in Seq(1 .. Size)
    BY <1>7, <2>5, <2>6 DEF ReadsOn
  <2>7. u.buf = d.data /\ u.pos = 0
    BY <2>6, <2>9 DEF Streams
  <2>8. Len(b) = 0
    BY <1>4, <2>9, <2>7 DEF RemBufLen
  <2> QED BY <1>5, <2>8
<1>8. Reached(t, r)
  BY <1>2 DEF Reached
<1>9. Decoded(b) = "none" /\ ~f.waits /\ Honest(t) => Over(t, u)
  BY <1>1, <1>4, <1>5 DEF u
<1>10. Peeking(t, r)
  BY <1>4, <1>5, <1>6, <1>7, <1>8, <1>9 DEF Peeking
<1> QED BY <1>10 DEF u

(* What can be had does not depend on the buffer. *)
LEMMA AvailableUnder ==
  ASSUME NEW t, NEW u, SameStream(t, u), u.cur = t.cur, u.eof = t.eof, NEW n
  PROVE  Available(u, n) = Available(t, n)
BY DEF Available, SameStream

(* A round: read on after a rest that is too short. *)
LEMMA Completing ==
  ASSUME NEW m, Fit(m), m.pos = 0, m.opt.type = "text", Decoded(m.buf) = "short"
  PROVE  /\ Peeking(m, Completed(m))
         /\ Completed(m).out = "short" => \A i \in Nat : Available(Completed(m).s, i) = 0
<1>1. m \in Buffered /\ m \in Streams
  BY DEF Fit, Buffered
<1>2. PICK n \in Nat, a \in Seq(1 .. Size) : n = RemBufLen(m) /\ a = m.buf /\ Len(a) = n /\ n <= Word
  BY <1>1, BufferFacts DEF RemBufLen
<1>3. n > 0 /\ n < Word /\ Word \in Nat /\ Decoded(a) = "short"
  <2>1. Decoded(a) = "short" /\ Len(a) <= Word
    BY <1>2
  <2>2. Len(a) # 0 /\ Len(a) < Word
    BY <2>1, DecodeFacts
  <2> QED BY <1>2, <2>1, <2>2, ByteFacts
<1>4. PICK x \in Nat : x = Word - n
  BY <1>2, <1>3
<1>5. PICK k \in 0 .. x : ReadsOn(m, x, k, InnerRead(m, x))
  BY <1>1, <1>4, Taken
<1>6. PICK d : d = InnerRead(m, x)
  OBVIOUS
<1>7. /\ d.data \in Seq(1 .. Size) /\ Len(d.data) = k /\ Consecutive(d.data, m.cur)
      /\ d.s \in Streams /\ SameStream(m, d.s) /\ d.s.cur = m.cur + k /\ d.s.pos = 0
      /\ k > 0 => m.cur + k <= m.sent
      /\ m.kind # "channel" /\ k < x => m.cur + k >= m.sent
      /\ k < x => \A i \in Nat : Available(d.s, i) = 0
      /\ d.waits = (m.kind \in Blocking /\ k = 0 /\ ~m.closed)
  BY <1>5, <1>6 DEF ReadsOn
<1>8. PICK b \in Seq(1 .. Size) : b = a \o d.data /\ Len(b) = n + k
  <2>1. PICK e \in Seq(1 .. Size) : e = d.data /\ Len(e) = k
    BY <1>7
  <2>2. a \o e \in Seq(1 .. Size) /\ Len(a \o e) = Len(a) + Len(e)
    BY Joined
  <2>3. a \o e = a \o d.data /\ Len(a) + Len(e) = n + k
    BY <1>2, <2>1
  <2> QED BY <2>2, <2>3
<1> DEFINE u == [d.s EXCEPT !.buf = b]
           c == [s |-> u, waits |-> d.waits, out |-> IF d.data = <<>> THEN "bad" ELSE Decoded(b)]
<1>9. Completed(m) = c
  BY <1>2, <1>4, <1>6, <1>8 DEF Completed, ReadOn
<1>10. u \in Streams /\ SameStream(m, u) /\ u.buf = b /\ u.pos = 0 /\ u.cur = m.cur + k /\ u.eof = d.s.eof
  BY <1>7 DEF Streams, SameStream
<1>11. SameStream(d.s, u) /\ u.cur = d.s.cur
  BY <1>7, <1>10 DEF SameStream
<1> HIDE DEF u
<1>12. m.cur \in Nat /\ m.sent \in Nat /\ At(m) = m.cur - n
  BY <1>1, <1>2, BufferFacts
<1>13. k \in Nat /\ n + k <= Word
  BY <1>2, <1>3, <1>4
<1>14. u \in Buffered /\ RemBufLen(u) = n + k
  <2>1. Len(u.buf) = n + k /\ u.pos = 0
    BY <1>8, <1>10
  <2>2. RemBufLen(u) = n + k
    BY <1>13, <2>1 DEF RemBufLen
  <2> QED BY <1>10, <1>13, <2>1, <2>2 DEF Buffered
<1>15. At(u) = At(m)
  BY <1>2, <1>10, <1>12, <1>13, <1>14 DEF At
<1>16. Rest(u) = b
  <2>1. Rest(u) = SubSeq(b, 1, Len(b))
    BY <1>10 DEF Rest
  <2> QED BY <2>1
<1>17. ASSUME Steady(m)
       PROVE  InStep(u) /\ Drained(u) /\ At(m) \in Nat /\ At(m) <= m.sent /\ Whole(At(m)) /\ Consecutive(a, At(m))
  <2>1. InStep(m) /\ Drained(m)
    BY <1>17 DEF Fit
  <2>2. Rest(m) = a
    <3>1. Rest(m) = SubSeq(a, 1, Len(a))
      BY <1>2 DEF Rest
    <3> QED BY <3>1
  <2>3. m.cur <= m.sent /\ At(m) >= 0 /\ Consecutive(a, At(m)) /\ At(m) \in Int
    BY <1>2, <1>3, <1>12, <2>1, <2>2 DEF InStep
  <2>4. At(m) \in Nat /\ At(m) <= m.sent
    BY <1>2, <1>12, <2>3
  <2>5. Whole(At(m))
    BY <2>1, <2>4 DEF InStep
  <2>6. Consecutive(b, At(m))
    <3>1. At(m) + Len(a) = m.cur
      BY <1>2, <1>12
    <3> QED BY <1>2, <1>7, <1>8, <2>3, <3>1, ConsecutiveJoined
  <2>7. u.cur <= u.sent
    <3>1. m.cur + k <= m.sent
      BY <1>7, <1>12, <1>13, <2>3
    <3> QED BY <1>10, <3>1 DEF SameStream
  <2>8. InStep(u)
    BY <1>10, <1>15, <1>16, <2>4, <2>5, <2>6, <2>7 DEF InStep, SameStream
  <2>9. Drained(u)
    BY <1>2, <1>3, <1>10, <2>1 DEF Drained, SameStream
  <2> QED BY <2>3, <2>4, <2>5, <2>8, <2>9
<1>18. Fit(u)
  BY <1>10, <1>14, <1>17, SameSteady DEF Fit, SameStream
<1>19. Reached(m, c)
  BY <1>7, <1>10, <1>15, <1>18 DEF Reached
<1>20. CASE k = 0
  <2>1. d.data = <<>> /\ c.out = "bad"
    BY <1>7, <1>20
  <2>2. ASSUME ~d.waits, Honest(m), Steady(m) PROVE m.closed /\ ~Intact(m)
    <3>1. m.cur = m.sent
      <4>1. m.cur >= m.sent
        BY <1>2, <1>3, <1>4, <1>7, <1>12, <1>20, <2>2 DEF Honest
      <4>2. m.cur <= m.sent
        BY <1>2, <1>3, <1>12, <2>2 DEF Fit, InStep
      <4> QED BY <1>12, <4>1, <4>2
    <3>2. At(m) + Len(a) = m.sent
      BY <1>2, <1>12, <3>1
    <3>3. ~ Whole(m.sent)
      BY <1>2, <1>3, <1>17, <2>2, <3>2, DecodeAligned
    <3>4. m.closed
      <4>1. m.kind \in Static \/ m.kind \in Blocking
        BY <1>1, <2>2, StreamAssumption DEF Honest, Streams, Static, Blocking
      <4> QED BY <1>7, <1>20, <2>2, <4>1 DEF Fit
    <3> QED BY <1>3, <3>3, <3>4 DEF Intact
  <2> QED BY <1>9, <1>19, <2>1, <2>2 DEF Peeking
<1>21. CASE k # 0
  <2>1. d.data # <<>> /\ c.out = Decoded(b) /\ ~d.waits
    BY <1>7, <1>21
  <2>2. /\ Decoded(b) \in {"char", "bad", "short"}
        /\ Decoded(b) = "short" => n + k < Word
    <3>1. Len(b) <= Word /\ Len(b) # 0
      BY <1>2, <1>3, <1>8, <1>13
    <3> QED BY <1>8, <3>1, DecodeFacts
  <2>3. ASSUME Steady(m) PROVE Decoded(b) # "bad"
    <3>1. InStep(u) /\ At(m) \in Nat /\ Whole(At(m))
      BY <1>17, <2>3
    <3>2. Consecutive(b, At(m)) /\ 0 < Len(b) /\ Len(b) <= Word
      BY <1>2, <1>3, <1>8, <1>13, <1>15, <1>16, <3>1 DEF InStep
    <3> QED BY <3>1, <3>2, DecodeAligned
  <2>4. Peeking(m, c)
    BY <1>16, <1>19, <2>1, <2>2, <2>3 DEF Peeking
  <2>5. ASSUME c.out = "short", NEW i \in Nat PROVE Available(u, i) = 0
    <3>1. k < x
      BY <1>2, <1>3, <1>4, <1>13, <2>1, <2>2, <2>5
    <3> QED BY <1>7, <1>10, <1>11, <3>1, AvailableUnder
  <2> QED BY <1>9, <2>4, <2>5
<1> QED BY <1>20, <1>21

(* Every round keeps the contract, and one that leaves the loop going read all there was. *)
LEMMA Rounding ==
  ASSUME NEW t, t.opt.type = "text", NEW r, Peeking(t, r)
  PROVE  /\ Peeking(t, Round(r))
         /\ Round(r).out = "short" => \A i \in Nat : Available(Round(r).s, i) = 0
<1>1. CASE r.waits \/ r.out # "short"
  <2>1. Round(r) = r
    BY <1>1 DEF Round
  <2> QED BY <1>1, <2>1 DEF Peeking
<1>2. CASE ~ (r.waits \/ r.out # "short")
  <2> DEFINE m == Moved(r.s)
  <2>1. Round(r) = Completed(m)
    BY <1>2 DEF Round, Moved
  <2>2. Reached(t, r) /\ Decoded(Rest(r.s)) = "short"
    BY <1>2 DEF Peeking
  <2>3. Fit(r.s) /\ SameStream(t, r.s) /\ (Steady(t) => At(r.s) = At(t))
    BY <2>2 DEF Reached
  <2>4. Fit(m) /\ SameStream(t, m) /\ (Steady(t) => At(m) = At(t)) /\ m.pos = 0 /\ Decoded(m.buf) = "short"
    BY <2>2, <2>3, MovedFacts DEF SameStream
  <2> HIDE DEF m
  <2>5. m.opt.type = "text"
    BY <2>4 DEF SameStream
  <2>6. PICK c : c = Completed(m)
    OBVIOUS
  <2>7. Peeking(m, c) /\ (c.out = "short" => \A i \in Nat : Available(c.s, i) = 0)
    BY <2>4, <2>5, <2>6, Completing
  <2>8. Reached(t, c)
    BY <2>4, <2>7, SameSteady DEF Peeking, Reached, SameStream
  <2>9. (Steady(m) <=> Steady(t)) /\ (Intact(m) <=> Intact(t)) /\ (Honest(m) <=> Honest(t))
    BY <2>4, SameSteady DEF Honest, SameStream
  <2>10. Over(m, c.s) <=> Over(t, c.s)
    BY <2>4 DEF Over, SameStream
  <2>12. m.closed = t.closed
    BY <2>4 DEF SameStream
  <2>11. Peeking(t, c)
    BY <2>7, <2>8, <2>9, <2>10, <2>12 DEF Peeking
  <2> QED BY <2>1, <2>6, <2>7, <2>11
<1> QED BY <1>1, <1>2

(* The loop of CharReader::peek_char, which reads on as long as the buffer ends *)
(* within a character, comes to an end after two rounds: a second read in a row *)
(* that is wanted finds nothing, whatever the kind of stream.                   *)
THEOREM TwoRounds ==
  ASSUME NEW t, t.opt.type = "text", NEW r, Peeking(t, r)
  PROVE  Peeking(t, Round(Round(r))) /\ Round(Round(r)).out # "short"
<1>1. PICK q : q = Round(r)
  OBVIOUS
<1>2. Peeking(t, q) /\ (q.out = "short" => \A i \in Nat : Available(q.s, i) = 0)
  BY <1>1, Rounding
<1>3. Peeking(t, Round(q))
  BY <1>2, Rounding
<1>4. CASE q.waits \/ q.out # "short"
  <2>1. Round(q) = q
    BY <1>4 DEF Round
  <2> QED BY <1>1, <1>2, <1>3, <1>4, <2>1 DEF Peeking
<1>5. CASE ~ (q.waits \/ q.out # "short")
  <2>1. PICK m : m = Moved(q.s)
    OBVIOUS
  <2>2. Round(q) = Completed(m)
    BY <1>5, <2>1 DEF Round, Moved
  <2>3. Fit(q.s)
    BY <1>2 DEF Peeking, Reached
  <2>4. Fit(m) /\ SameStream(q.s, m) /\ m.cur = q.s.cur /\ m.eof = q.s.eof
    BY <2>1, <2>3, MovedFacts
  <2>5. m \in Streams /\ m.buf \in Seq(1 .. Size) /\ Len(m.buf) \in Nat /\ Len(m.buf) <= Word /\ Word \in Nat
    BY <2>4, BufferFacts, ByteFacts DEF Fit
  <2>10. PICK n \in Nat : n = Len(m.buf) /\ n <= Word
    BY <2>5
  <2>11. Word - n \in Nat
    BY <2>5, <2>10
  <2>6. PICK x \in Nat : x = Word - Len(m.buf)
    BY <2>10, <2>11
  <2>7. Available(m, x) = 0
    BY <1>2, <1>5, <2>4, AvailableUnder
  <2>8. InnerRead(m, x).data = <<>>
    BY <2>7 DEF InnerRead, Took
  <2>9. Completed(m).out = "bad"
    BY <2>6, <2>8 DEF Completed, ReadOn
  <2> QED BY <1>1, <1>3, <2>2, <2>9
<1> QED BY <1>4, <1>5

(* What a look at the next unit of the stream gives: whole bytes from where the *)
(* program is, or nothing when nothing is left.                                 *)
Gave(t, r) ==
  /\ r.out \in {"none", "char", "bad"}
  /\ r.out # "char" => r.got = <<>>
  /\ r.out = "char" => /\ r.got \in Seq(1 .. Size) /\ Len(r.got) \in Nat /\ Len(r.got) >= 1
                       /\ Steady(t) => /\ Consecutive(r.got, At(t)) /\ At(t) \in Nat
                                       /\ t.opt.type = "text" => OneCharacter(At(t), Len(r.got))
  /\ r.out # "char" /\ ~r.waits /\ Honest(t) /\ Steady(t) =>
        t.closed /\ (Intact(t) => r.out = "none" /\ RemBufLen(r.s) = 0 /\ Over(t, r.s))

Looked(t, r) == Reached(t, r) /\ Gave(t, r) /\ Len(r.got) <= RemBufLen(r.s)

(* peek_char gives the next character, or nothing at the end. *)
LEMMA PeekingChar ==
  ASSUME NEW t, Fit(t), t.opt.type = "text"
  PROVE  Looked(t, PeekChar(t))
<1>1. PICK f : f = RefreshBuffer(t)
  OBVIOUS
<1>2. PICK r : r = Round(Round([s |-> f.s, waits |-> f.waits, out |-> Decoded(Rest(f.s))]))
  OBVIOUS
<1>3. Peeking(t, r) /\ r.out # "short"
  BY <1>1, <1>2, StartPeeking, TwoRounds
<1> DEFINE p == [s |-> r.s, waits |-> r.waits, out |-> r.out,
                 got |-> IF r.out = "char" THEN FirstChar(Rest(r.s)) ELSE <<>>]
<1>4. PeekChar(t) = p
  BY <1>1, <1>2 DEF PeekChar, PeekRefreshed, Peeked
<1>5. Reached(t, p)
  BY <1>3 DEF Peeking, Reached
<1>6. r.s \in Buffered /\ Fit(r.s) /\ SameStream(t, r.s) /\ (Steady(t) => At(r.s) = At(t))
  BY <1>3 DEF Peeking, Reached, Fit
<1>7. PICK b \in Seq(1 .. Size) : b = Rest(r.s) /\ Len(b) = RemBufLen(r.s) /\ Len(b) <= Word
  BY <1>6, BufferFacts
<1>8. r.out \in {"none", "char", "bad"} /\ (r.out # "bad" => r.out = Decoded(b))
  BY <1>3, <1>7 DEF Peeking
<1>9. ASSUME r.out = "char"
      PROVE  /\ p.got \in Seq(1 .. Size) /\ Len(p.got) \in 1 .. RemBufLen(r.s)
             /\ Steady(t) => /\ Consecutive(p.got, At(t)) /\ OneCharacter(At(t), Len(p.got))
                             /\ At(t) \in Nat
  <2>1. ValidUpTo(b) > 0 /\ p.got = FirstChar(b)
    BY <1>7, <1>8, <1>9, DecodeFacts
  <2>2. /\ p.got \in Seq(1 .. Size) /\ Len(p.got) \in 1 .. Len(b)
        /\ \A at \in Nat : Consecutive(b, at) => Consecutive(p.got, at) /\ OneCharacter(at, Len(p.got))
    BY <2>1, FirstCharFacts
  <2>3. ASSUME Steady(t) PROVE Consecutive(b, At(t)) /\ At(t) \in Nat
    <3>1. InStep(r.s) /\ At(r.s) = At(t)
      BY <1>6, <2>3, SameSteady DEF Fit
    <3>2. At(r.s) \in Int
      BY <1>6, BufferFacts
    <3> QED BY <1>7, <3>1, <3>2 DEF InStep
  <2> QED BY <1>7, <2>2, <2>3
<1>10. ASSUME r.out # "char", ~r.waits, Honest(t), Steady(t)
       PROVE  t.closed /\ (Intact(t) => r.out = "none" /\ RemBufLen(r.s) = 0 /\ Over(t, r.s))
  <2>1. CASE r.out = "bad"
    BY <1>3, <1>10, <2>1 DEF Peeking
  <2>2. CASE r.out # "bad"
    <3>1. r.out = "none"
      BY <1>8, <1>10, <2>2
    <3>2. Len(b) = 0
      BY <1>7, <1>8, <3>1, DecodeFacts
    <3>3. Over(t, r.s)
      BY <1>3, <1>10, <3>1 DEF Peeking
    <3> QED BY <1>7, <3>1, <3>2, <3>3 DEF Over
  <2> QED BY <2>1, <2>2
<1>12. RemBufLen(r.s) \in Nat
  BY <1>6, BufferFacts
<1>11. Looked(t, p)
  <2> HIDE DEF p
  <2>1. p.out = r.out /\ p.waits = r.waits /\ p.s = r.s /\ (r.out # "char" => p.got = <<>>)
    BY DEF p
  <2>2. Gave(t, p)
    BY <1>8, <1>9, <1>10, <1>12, <2>1 DEF Gave
  <2>3. Len(p.got) <= RemBufLen(p.s)
    <3>1. CASE r.out = "char"
      BY <1>9, <1>12, <2>1, <3>1
    <3>2. CASE r.out # "char"
      BY <1>12, <2>1, <3>2
    <3> QED BY <3>1, <3>2
  <2> QED BY <1>5, <2>2, <2>3 DEF Looked
<1> QED BY <1>4, <1>11

-----------------------------------------------------------------------------
(* Consuming.                                                              *)

(* consume keeps the buffer in step when it stops after whole characters. *)
LEMMA Consuming ==
  ASSUME NEW t, Fit(t), NEW n \in 0 .. RemBufLen(t),
         Steady(t) /\ t.opt.type = "text" => Whole(At(t) + n)
  PROVE  /\ Fit(Consume(t, n)) /\ SameStream(t, Consume(t, n))
         /\ At(Consume(t, n)) = At(t) + n /\ RemBufLen(Consume(t, n)) = RemBufLen(t) - n
         /\ Consume(t, n).cur = t.cur
<1> DEFINE u == Consume(t, n)
<1>1. t \in Buffered /\ t \in Streams
  BY DEF Fit, Buffered
<1>2. PICK m \in Nat, p \in Nat, l \in Nat :
        m = RemBufLen(t) /\ p = t.pos /\ l = Len(t.buf) /\ m = l - p /\ l <= Word /\ n <= m
  <2>1. /\ RemBufLen(t) \in Nat /\ t.pos \in Nat /\ Len(t.buf) \in Nat
        /\ RemBufLen(t) = Len(t.buf) - t.pos /\ Len(t.buf) <= Word
    BY <1>1, BufferFacts
  <2>2. n <= RemBufLen(t)
    BY <2>1
  <2> QED BY <2>1, <2>2
<1>3. n \in Nat
  BY <1>2
<1>4. u \in Streams /\ SameStream(t, u) /\ u.buf = t.buf /\ u.pos = p + n /\ u.cur = t.cur
  BY <1>1, <1>2, <1>3 DEF Consume, Streams, SameStream
<1> HIDE DEF u
<1>5. RemBufLen(u) = m - n /\ u \in Buffered
  BY <1>2, <1>3, <1>4 DEF RemBufLen, Buffered
<1>6. t.cur \in Nat /\ t.sent \in Nat /\ At(t) = t.cur - m
  <2>1. t.cur \in Nat /\ t.sent \in 0 .. Size /\ Size \in Nat /\ At(t) = t.cur - RemBufLen(t)
    BY <1>1, BufferFacts
  <2>2. t.sent \in Nat
    BY <2>1
  <2> QED BY <1>2, <2>1, <2>2
<1>7. At(u) = At(t) + n
  BY <1>2, <1>3, <1>4, <1>5, <1>6 DEF At
<1>8. ASSUME Steady(t) PROVE InStep(u) /\ Drained(u)
  <2>1. InStep(t) /\ Drained(t)
    BY <1>8 DEF Fit
  <2>2. At(t) \in Int /\ At(t) >= 0 /\ At(u) >= 0
    BY <1>2, <1>3, <1>6, <1>7, <2>1 DEF InStep
  <2>3. Consecutive(Rest(u), At(u))
    <3>1. Len(Rest(u)) = m - n /\ \A i \in 1 .. m - n : Rest(u)[i] = t.buf[p + n + i]
      BY <1>4, <1>5, BufferFacts
    <3>2. \A i \in 1 .. m : Rest(t)[i] = t.buf[p + i] /\ Rest(t)[i] = At(t) + i
      BY <1>1, <1>2, <2>1, BufferFacts DEF InStep, Consecutive
    <3>3. ASSUME NEW i \in 1 .. m - n PROVE Rest(u)[i] = At(u) + i
      <4>1. PICK j \in 1 .. m : j = n + i
        BY <1>2, <1>3
      <4>2. p + n + i = p + j /\ At(u) + i = At(t) + j
        BY <1>2, <1>3, <1>7, <2>2, <4>1
      <4>3. Rest(u)[i] = t.buf[p + j]
        BY <3>1, <4>2
      <4> QED BY <3>2, <4>2, <4>3
    <3> QED BY <3>1, <3>3 DEF Consecutive
  <2>4. RemBufLen(u) > 0 \/ u.kind # "file" => u.cur <= u.sent
    BY <1>2, <1>3, <1>4, <1>5, <2>1 DEF InStep, SameStream
  <2>5. u.opt.type = "text" => Whole(At(u))
    BY <1>4, <1>7, <1>8 DEF SameStream
  <2>6. Drained(u)
    BY <1>2, <1>3, <1>4, <1>5, <2>1 DEF Drained, SameStream
  <2> QED BY <2>2, <2>3, <2>4, <2>5, <2>6 DEF InStep
<1>9. Fit(u)
  BY <1>4, <1>5, <1>8, SameSteady DEF Fit, SameStream
<1> QED BY <1>2, <1>4, <1>5, <1>7, <1>9 DEF u

(* A unit was read: the program is past it. *)
Passed(t, r) ==
  /\ Fit(r.s) /\ SameStream(t, r.s) /\ r.waits \in BOOLEAN
  /\ r.waits => t.kind \in Blocking
  /\ Steady(t) => At(r.s) = At(t) + Len(r.got)
  /\ Gave(t, r)

(* Consuming no bytes changes nothing. *)
LEMMA ConsumingNothing ==
  ASSUME NEW t \in Streams
  PROVE  Consume(t, 0) = t
<1>1. t.pos + 0 = t.pos
  BY DEF Streams
<1>2. Consume(t, 0) = [t EXCEPT !.pos = t.pos]
  BY <1>1 DEF Consume
<1> QED BY <1>2 DEF Streams

(* Consuming the unit looked at moves the program past it. *)
LEMMA ConsumingUnit ==
  ASSUME NEW t, Fit(t), NEW v, NEW w, NEW o, NEW g, NEW r, r = [s |-> v, waits |-> w, out |-> o, got |-> g],
         Looked(t, r)
  PROVE  Passed(t, Consumed(r))
<1>1. Reached(t, r) /\ Gave(t, r) /\ Len(g) <= RemBufLen(v)
  BY DEF Looked
<1>2. /\ Fit(v) /\ SameStream(t, v) /\ w \in BOOLEAN /\ (Steady(t) => At(v) = At(t))
      /\ w => t.kind \in Blocking
  BY <1>1 DEF Reached
<1>3. v \in Buffered /\ RemBufLen(v) \in Nat /\ v \in Streams /\ At(v) \in Int
  BY <1>2, BufferFacts DEF Fit
<1>4. PICK u : u = Consume(v, Len(g))
  OBVIOUS
<1>5. Consumed(r) = [s |-> u, waits |-> w, out |-> o, got |-> g]
  BY <1>4 DEF Consumed
<1>6. CASE o = "char"
  <2>1. /\ Len(g) \in 0 .. RemBufLen(v) /\ Len(g) \in Nat
        /\ Steady(t) => (t.opt.type = "text" => Whole(At(t) + Len(g)))
    BY <1>1, <1>3, <1>6 DEF Gave, OneCharacter
  <2>2. Steady(v) /\ v.opt.type = "text" => Whole(At(v) + Len(g))
    BY <1>2, <2>1, SameSteady DEF SameStream
  <2>3. Fit(u) /\ SameStream(v, u) /\ At(u) = At(v) + Len(g)
    BY <1>2, <1>4, <2>1, <2>2, Consuming
  <2>4. SameStream(t, u) /\ (Steady(t) => At(u) = At(t) + Len(g))
    BY <1>2, <2>3 DEF SameStream
  <2>5. Gave(t, [s |-> u, waits |-> w, out |-> o, got |-> g])
    BY <1>1, <1>6 DEF Gave
  <2> QED BY <1>2, <1>5, <2>3, <2>4, <2>5 DEF Passed
<1>7. CASE o # "char"
  <2>1. g = <<>> /\ Len(g) = 0
    BY <1>1, <1>7 DEF Gave
  <2>2. u = v
    BY <1>3, <1>4, <2>1, ConsumingNothing
  <2>3. Consumed(r) = r
    BY <1>5, <2>2
  <2>4. Steady(t) => At(v) = At(t) + Len(g)
    BY <1>2, <1>3, <2>1
  <2> QED BY <1>1, <1>2, <2>3, <2>4 DEF Passed
<1> QED BY <1>6, <1>7

(* read_char. *)
LEMMA ReadingChar ==
  ASSUME NEW t, Fit(t), t.opt.type = "text"
  PROVE  Passed(t, ReadChar(t))
<1>1. PICK v, w, o, g : PeekChar(t) = [s |-> v, waits |-> w, out |-> o, got |-> g]
  BY DEF PeekChar, PeekRefreshed, Peeked
<1> QED BY <1>1, PeekingChar, ConsumingUnit DEF ReadChar

(* Bytes: the buffer is refilled and its first byte looked at. *)
LEMMA PeekingByte ==
  ASSUME NEW t, Fit(t), t.opt.type = "binary"
  PROVE  Looked(t, PeekBufferedByte(t))
<1>1. PICK f : f = RefreshBuffer(t)
  OBVIOUS
<1>2. Reached(t, f) /\ (RemBufLen(f.s) = 0 /\ ~f.waits /\ Honest(t) => Over(t, f.s))
  BY <1>1, Refreshing
<1>3. /\ Fit(f.s) /\ SameStream(t, f.s) /\ f.waits \in BOOLEAN /\ (Steady(t) => At(f.s) = At(t))
      /\ f.waits => t.kind \in Blocking
  BY <1>2 DEF Reached
<1>4. f.s \in Buffered
  BY <1>3 DEF Fit
<1>5. PICK b \in Seq(1 .. Size), n \in Nat : b = Rest(f.s) /\ n = RemBufLen(f.s) /\ Len(b) = n
  BY <1>4, BufferFacts
<1>6. PICK v, w : v = f.s /\ w = f.waits
  OBVIOUS
<1> DEFINE o == IF b = <<>> THEN "none" ELSE "char"
           g == IF b = <<>> THEN <<>> ELSE <<Head(b)>>
           r == [s |-> v, waits |-> w, out |-> o, got |-> g]
<1>7. PeekBufferedByte(t) = r
  BY <1>1, <1>5, <1>6 DEF PeekBufferedByte, FirstByte
<1>8. Reached(t, r)
  BY <1>3, <1>6 DEF Reached
<1>9. b = <<>> <=> n = 0
  BY <1>5
<1>10. ASSUME b # <<>>
       PROVE  /\ g \in Seq(1 .. Size) /\ Len(g) = 1
              /\ Steady(t) => Consecutive(g, At(t)) /\ At(t) \in Nat
  <2>1. g = <<b[1]>> /\ b[1] \in 1 .. Size
    <3>1. 1 \in 1 .. Len(b)
      BY <1>5, <1>9, <1>10
    <3>2. b[1] \in 1 .. Size
      BY <3>1, InSequence
    <3> QED BY <1>10, <3>2
  <2>4. PICK y \in 1 .. Size : y = b[1]
    BY <2>1
  <2>2. g \in Seq(1 .. Size) /\ Len(g) = 1 /\ g[1] = b[1]
    <3>1. <<y>> \in Seq(1 .. Size) /\ Len(<<y>>) = 1 /\ <<y>>[1] = y
      OBVIOUS
    <3> QED BY <2>1, <2>4, <3>1
  <2>3. ASSUME Steady(t) PROVE b[1] = At(t) + 1 /\ At(t) \in Nat
    <3>1. InStep(f.s) /\ At(f.s) = At(t) /\ At(f.s) \in Int
      BY <1>3, <1>4, <2>3, SameSteady, BufferFacts DEF Fit
    <3>2. 1 \in 1 .. Len(b)
      BY <1>5, <1>9, <1>10
    <3> QED BY <1>5, <3>1, <3>2 DEF InStep, Consecutive
  <2> HIDE DEF g
  <2> QED BY <2>2, <2>3 DEF Consecutive
<1>11. ASSUME b = <<>>, ~w, Honest(t) PROVE RemBufLen(v) = 0 /\ Over(t, v) /\ t.closed
  BY <1>2, <1>5, <1>6, <1>9, <1>11 DEF Over
<1>12. Gave(t, r)
  <2>1. r.out = o /\ r.got = g /\ r.s = v /\ r.waits = w
    OBVIOUS
  <2>2. CASE b = <<>>
    <3>1. o = "none" /\ g = <<>>
      BY <2>2
    <3> HIDE DEF o, g, r
    <3> QED BY <1>11, <2>1, <2>2, <3>1 DEF Gave
  <2>3. CASE b # <<>>
    <3>1. o = "char"
      BY <2>3
    <3> HIDE DEF o, g, r
    <3>2. Len(g) >= 1 /\ Len(g) \in Nat
      <4>1. Len(g) = 1
        BY <1>10, <2>3
      <4> QED BY <4>1
    <3> QED BY <1>10, <2>1, <2>3, <3>1, <3>2 DEF Gave
  <2> QED BY <2>2, <2>3
<1>13. Len(g) <= RemBufLen(v)
  <2>1. CASE b = <<>>
    BY <1>5, <1>6, <2>1
  <2>2. CASE b # <<>>
    BY <1>5, <1>6, <1>9, <1>10, <2>2
  <2> QED BY <2>1, <2>2
<1>14. Looked(t, r)
  BY <1>8, <1>12, <1>13 DEF Looked
<1> QED BY <1>7, <1>14

(* A byte read through the buffer. *)
LEMMA ReadingByte ==
  ASSUME NEW t, Fit(t), t.opt.type = "binary"
  PROVE  Passed(t, ReadByte(t))
<1>1. PICK v, w, o, g : PeekBufferedByte(t) = [s |-> v, waits |-> w, out |-> o, got |-> g]
  BY DEF PeekBufferedByte, FirstByte
<1> QED BY <1>1, PeekingByte, ConsumingUnit DEF ReadByte

-----------------------------------------------------------------------------
(* U+FEFF.                                                                 *)

(* Past a U+FEFF is a place where reading may resume. *)
LEMMA ResumePast ==
  ASSUME NEW n \in Nat, NEW at \in Nat, at \in Resume("text", n), NEW l \in Nat,
         OneCharacter(at, l), Bytes[at + 1].bom
  PROVE  at + l \in Resume("text", n)
<1>1. PICK y \in 1 .. Size : y = at + 1 /\ Bytes[y].k = 1 /\ Bytes[y].w = l /\ Whole(at + l)
  BY DEF OneCharacter
<1>2. l >= 1
  BY <1>1, ByteFacts
<1>3. at + l \in 0 .. Size /\ Size \in Nat
  BY <1>1, ByteFacts
<1>4. \A d \in 0 .. l - 1 : Bytes[y + d].bom = Bytes[y].bom
  BY <1>1, CharacterFrom
<1>5. ASSUME NEW i \in at + 1 .. at + l PROVE Bytes[i].bom
  <2>1. PICK d \in 0 .. l - 1 : i = y + d
    <3>1. i - y \in 0 .. l - 1 /\ i = y + (i - y)
      BY <1>1
    <3> QED BY <3>1
  <2> QED BY <1>1, <1>4, <2>1
<1>6. n <= at /\ \A i \in n + 1 .. at : Bytes[i].bom
  BY DEF Resume
<1>7. at + l \in n + 1 .. Size
  BY <1>2, <1>3, <1>6
<1>8. ASSUME NEW i \in n + 1 .. at + l PROVE Bytes[i].bom
  <2>1. CASE i <= at
    BY <1>6, <2>1
  <2>2. CASE ~ (i <= at)
    BY <1>5, <2>2
  <2> QED BY <2>1, <2>2
<1> QED BY <1>1, <1>7, <1>8 DEF Resume

(* Reading may resume right there. *)
LEMMA ResumeHere ==
  ASSUME NEW type, NEW n
  PROVE  n \in Resume(type, n)
BY DEF Resume

(* ... or later, past nothing but U+FEFF, and only on a text stream. *)
LEMMA ResumeAfter ==
  ASSUME NEW type, NEW n \in Nat, NEW m \in Resume(type, n)
  PROVE  /\ m \in Nat /\ n <= m /\ \A i \in n + 1 .. m : Bytes[i].bom
         /\ m # n => type = "text" /\ m <= Size
<1>1. Size \in Nat
  BY ByteFacts
<1> QED BY <1>1 DEF Resume

(* open_parsing_stream: the program may be past a U+FEFF after it. *)
Opened(t, o) ==
  /\ Fit(o.s) /\ SameStream(t, o.s) /\ o.waits \in BOOLEAN
  /\ Steady(t) => \A n \in Nat : At(t) \in Resume("text", n) => At(o.s) \in Resume("text", n)

(* open_parsing_stream skips nothing but a U+FEFF. *)
LEMMA Opening ==
  ASSUME NEW t, Fit(t), t.opt.type = "text"
  PROVE  Opened(t, OpenParsing(t))
<1>1. PICK r : r = PeekChar(t)
  OBVIOUS
<1>2. Reached(t, r) /\ Gave(t, r) /\ Len(r.got) <= RemBufLen(r.s)
  BY <1>1, PeekingChar DEF Looked
<1>3. Fit(r.s) /\ SameStream(t, r.s) /\ r.waits \in BOOLEAN /\ (Steady(t) => At(r.s) = At(t))
  BY <1>2 DEF Reached
<1>4. CASE r.got # <<>> /\ Bytes[r.got[1]].bom
  <2>1. PICK u : u = Consume(r.s, Len(r.got))
    OBVIOUS
  <2>2. OpenParsing(t) = [s |-> u, waits |-> r.waits, bad |-> r.out = "bad"]
    BY <1>1, <1>4, <2>1 DEF OpenParsing, SkipBom
  <2>3. r.got \in Seq(1 .. Size) /\ Len(r.got) \in Nat /\ Len(r.got) >= 1
    BY <1>2, <1>4 DEF Gave
  <2>4. ASSUME Steady(t)
        PROVE  OneCharacter(At(t), Len(r.got)) /\ At(t) \in Nat /\ Bytes[At(t) + 1].bom
    <3>1. Consecutive(r.got, At(t)) /\ OneCharacter(At(t), Len(r.got)) /\ At(t) \in Nat
      BY <1>2, <1>4, <2>4 DEF Gave
    <3>2. 1 \in 1 .. Len(r.got)
      BY <2>3
    <3>3. r.got[1] = At(t) + 1
      BY <3>1, <3>2 DEF Consecutive
    <3> QED BY <1>4, <3>1, <3>3
  <2>5. Len(r.got) \in 0 .. RemBufLen(r.s)
    BY <1>2, <1>3, <2>3, BufferFacts DEF Fit
  <2>6. Steady(r.s) => Whole(At(r.s) + Len(r.got))
    BY <1>3, <2>4, SameSteady DEF OneCharacter
  <2>7. Fit(u) /\ SameStream(r.s, u) /\ At(u) = At(r.s) + Len(r.got)
    BY <1>3, <2>1, <2>5, <2>6, Consuming
  <2>8. Steady(t) => \A n \in Nat : At(t) \in Resume("text", n) => At(u) \in Resume("text", n)
    BY <1>3, <2>3, <2>4, <2>7, ResumePast
  <2> QED BY <1>3, <2>2, <2>7, <2>8 DEF Opened, SameStream
<1>5. CASE ~ (r.got # <<>> /\ Bytes[r.got[1]].bom)
  <2>1. OpenParsing(t) = [s |-> r.s, waits |-> r.waits, bad |-> r.out = "bad"]
    BY <1>1, <1>5 DEF OpenParsing, SkipBom
  <2> QED BY <1>3, <2>1 DEF Opened
<1> QED BY <1>4, <1>5

-----------------------------------------------------------------------------
(* The end of the stream.                                                  *)

(* What an operation changes neither the kind nor the contents of. *)
SameSource(t, u) == u.kind = t.kind /\ u.opt = t.opt /\ u.sent = t.sent /\ u.closed = t.closed

(* What depends on the kind, the options and the contents alone. *)
LEMMA SourceFacts ==
  ASSUME NEW t, NEW u, SameSource(t, u)
  PROVE  /\ Steady(u) <=> Steady(t)
         /\ Intact(u) <=> Intact(t)
         /\ Honest(u) <=> Honest(t)
         /\ u.opt.type = t.opt.type
BY DEF SameSource, Steady, Intact, Honest

(* The same stream has the same source. *)
LEMMA StreamSource ==
  ASSUME NEW t, NEW u, SameStream(t, u)
  PROVE  SameSource(t, u) /\ u.past = t.past
BY DEF SameStream, SameSource

(* The source stays the same from step to step. *)
LEMMA SourceOfSource ==
  ASSUME NEW t, NEW u, NEW v, SameSource(t, u), SameSource(u, v)
  PROVE  SameSource(t, v)
BY DEF SameSource

(* The flag past_end_of_stream is all that changes. *)
LEMMA WithPast ==
  ASSUME NEW t, Fit(t), NEW b \in BOOLEAN,
         b /\ Steady(t) /\ t.kind = "file" /\ t.opt.eof = "reset" => RemBufLen(t) = 0 /\ t.cur >= t.sent,
         NEW u, u = [t EXCEPT !.past = b]
  PROVE  /\ Fit(u) /\ SameSource(t, u) /\ At(u) = At(t) /\ RemBufLen(u) = RemBufLen(t)
         /\ u.past = b /\ u.cur = t.cur
<1>1. t \in Buffered /\ t \in Streams
  BY DEF Fit, Buffered
<1>2. /\ u \in Streams /\ u.buf = t.buf /\ u.pos = t.pos /\ u.cur = t.cur /\ u.past = b
      /\ u.kind = t.kind /\ u.opt = t.opt /\ u.sent = t.sent /\ u.closed = t.closed
  BY <1>1 DEF Streams
<1>3. RemBufLen(u) = RemBufLen(t) /\ At(u) = At(t) /\ Rest(u) = Rest(t) /\ SameSource(t, u)
  BY <1>2 DEF RemBufLen, At, Rest, SameSource
<1>4. u \in Buffered
  BY <1>1, <1>2 DEF Buffered
<1>5. ASSUME Steady(t) PROVE InStep(u) /\ Drained(u)
  <2>1. InStep(t)
    BY <1>5 DEF Fit
  <2> QED BY <1>2, <1>3, <1>5, <2>1 DEF InStep, Drained
<1> QED BY <1>2, <1>3, <1>4, <1>5, SourceFacts DEF Fit

(* A file reports where the program is. *)
LEMMA FilePosition ==
  ASSUME NEW t, t.kind = "file"
  PROVE  Position(t) = At(t)
BY DEF Position, At

(* Beyond its end a file has nothing buffered. *)
LEMMA BeyondEnd ==
  ASSUME NEW t, Fit(t), Steady(t), t.kind = "file", At(t) >= t.sent
  PROVE  RemBufLen(t) = 0 /\ t.cur >= t.sent
<1>1. PICK m \in Nat, c \in Nat, e \in Nat : m = RemBufLen(t) /\ c = t.cur /\ e = t.sent /\ At(t) = c - m
  <2>1. t \in Buffered
    BY DEF Fit
  <2>2. RemBufLen(t) \in Nat /\ t.cur \in Nat /\ t.sent \in 0 .. Size /\ Size \in Nat /\ At(t) = t.cur - RemBufLen(t)
    BY <2>1, BufferFacts
  <2> QED BY <2>2
<1>2. m > 0 => c <= e
  BY <1>1 DEF Fit, InStep
<1> QED BY <1>1, <1>2

(* Asking for the position may set the flag, and does so only past the end. *)
LEMMA Noting ==
  ASSUME NEW t, Fit(t), NEW u, u = NoteEnd(t)
  PROVE  Fit(u) /\ SameSource(t, u) /\ At(u) = At(t)
<1> DEFINE b == t.past \/ (t.kind \in {"file", "byte"} /\ RelativeToEnd(t) = "past")
<1>1. t \in Buffered /\ t \in Streams
  BY DEF Fit, Buffered
<1>2. t.past \in BOOLEAN
  BY <1>1 DEF Streams
<1>3. b \in BOOLEAN
  BY <1>2
<1>4. u = [t EXCEPT !.past = b]
  BY DEF NoteEnd
<1>5. ASSUME b, Steady(t), t.kind = "file", t.opt.eof = "reset"
      PROVE  RemBufLen(t) = 0 /\ t.cur >= t.sent
  <2>1. CASE t.past
    BY <1>5, <2>1 DEF Fit, Drained
  <2>2. CASE ~t.past
    <3>1. At(t) > t.sent
      BY <1>5, <2>2, FilePosition DEF RelativeToEnd
    <3>2. At(t) \in Int /\ t.sent \in 0 .. Size /\ Size \in Nat
      BY <1>1, BufferFacts
    <3> QED BY <1>5, <3>1, <3>2, BeyondEnd
  <2> QED BY <2>1, <2>2
<1> HIDE DEF b
<1> QED BY <1>3, <1>4, <1>5, WithPast

(* A stream that is rewound with nothing buffered is at its start. *)
LEMMA Rewinding ==
  ASSUME NEW t, Fit(t), t.opt.eof = "reset", Resettable(t), Steady(t) => RemBufLen(t) = 0,
         NEW u, u = Reset(t)
  PROVE  /\ Fit(u) /\ SameSource(t, u)
         /\ Steady(t) => t.kind = "file" /\ At(u) = 0 /\ RemBufLen(u) = 0 /\ u.cur = 0
<1>1. t \in Buffered /\ t \in Streams
  BY DEF Fit, Buffered
<1>2. /\ u \in Streams /\ u.buf = t.buf /\ u.pos = t.pos /\ u.cur = 0 /\ u.past = FALSE
      /\ u.kind = t.kind /\ u.opt = t.opt /\ u.sent = t.sent /\ u.closed = t.closed
  BY <1>1 DEF Streams, Reset
<1>3. RemBufLen(u) = RemBufLen(t) /\ Rest(u) = Rest(t) /\ SameSource(t, u)
  BY <1>2 DEF RemBufLen, Rest, SameSource
<1>4. u \in Buffered
  BY <1>1, <1>2 DEF Buffered
<1>5. ASSUME Steady(t)
      PROVE  /\ InStep(u) /\ Drained(u)
             /\ t.kind = "file" /\ At(u) = 0 /\ RemBufLen(u) = 0 /\ u.cur = 0
  <2>1. t.kind = "file"
    BY <1>5 DEF Steady, Resettable
  <2>2. RemBufLen(u) = 0 /\ At(u) = 0
    BY <1>2, <1>3, <1>5 DEF At
  <2>3. Len(Rest(u)) = 0
    BY <1>4, <2>2, BufferFacts
  <2>4. Consecutive(Rest(u), 0)
    BY <2>3 DEF Consecutive
  <2> QED BY <1>2, <2>1, <2>2, <2>4, ByteFacts DEF InStep, Drained
<1> QED BY <1>2, <1>3, <1>4, <1>5, SourceFacts DEF Fit

(* The end-of-file action. *)
Acted(t, a) ==
  /\ Fit(a.s) /\ SameSource(t, a.s) /\ a.out \in {"error", "end", "fail", "reset"}
  /\ a.out = "reset" => Resettable(t)
  /\ Steady(t) /\ a.out # "reset" => At(a.s) = At(t)
  /\ Steady(t) /\ a.out = "reset" =>
        t.kind = "file" /\ At(a.s) = 0 /\ RemBufLen(a.s) = 0 /\ a.s.cur = 0

(* eof_action, on a stream with nothing buffered if it is a file to be rewound. *)
LEMMA Acting ==
  ASSUME NEW t, Fit(t),
         Steady(t) /\ t.kind = "file" /\ t.opt.eof = "reset" => RemBufLen(t) = 0
  PROVE  Acted(t, EofAction(t))
<1>1. CASE t.opt.eof = "reset" /\ Resettable(t)
  <2>1. EofAction(t) = [s |-> Reset(t), out |-> "reset"]
    BY <1>1 DEF EofAction
  <2>2. Steady(t) => RemBufLen(t) = 0
    BY <1>1 DEF Steady, Resettable
  <2> QED BY <1>1, <2>1, <2>2, Rewinding DEF Acted
<1>2. CASE ~ (t.opt.eof = "reset" /\ Resettable(t))
  <2>1. PICK u : u = SetPastEnd(t)
    OBVIOUS
  <2>2. ~ (t.kind = "file" /\ t.opt.eof = "reset")
    BY <1>2 DEF Resettable
  <2>3. Fit(u) /\ SameSource(t, u) /\ At(u) = At(t)
    BY <2>1, <2>2, WithPast DEF SetPastEnd
  <2>4. t.opt.eof \in {"error", "eof_code", "reset"}
    BY DEF Fit, Buffered, Streams, Options
  <2>5. \E o \in {"error", "end", "fail"} : EofAction(t) = [s |-> u, out |-> o]
    <3>1. CASE t.opt.eof = "error"
      <4>1. EofAction(t) = [s |-> u, out |-> "error"]
        BY <2>1, <3>1 DEF EofAction
      <4> QED BY <4>1
    <3>2. CASE t.opt.eof = "eof_code"
      <4>1. EofAction(t) = [s |-> u, out |-> "end"]
        BY <2>1, <3>2 DEF EofAction
      <4> QED BY <4>1
    <3>3. CASE t.opt.eof = "reset"
      <4>1. EofAction(t) = [s |-> u, out |-> "fail"]
        BY <1>2, <2>1, <3>3 DEF EofAction
      <4> QED BY <4>1
    <3> QED BY <2>4, <3>1, <3>2, <3>3
  <2> QED BY <2>3, <2>5 DEF Acted
<1> QED BY <1>1, <1>2

(* check_stream_properties. *)
Entered(t, type, e) ==
  /\ Fit(e.s) /\ SameSource(t, e.s) /\ e.out \in {"error", "end", "fail", "reset", "go"}
  /\ Steady(t) => At(e.s) = IF Rewound(e) THEN 0 ELSE At(t)
  /\ e.out \in {"end", "reset"} => t.past
  /\ Enters(e) => t.opt.type = type

(* check_stream_properties leaves the program where it is or at the start. *)
LEMMA Entering ==
  ASSUME NEW t, Fit(t), NEW type
  PROVE  Entered(t, type, Entry(t, type))
<1>1. CASE t.opt.type # type
  <2>1. Entry(t, type) = [s |-> t, out |-> "error"]
    BY <1>1 DEF Entry
  <2> QED BY <2>1 DEF Entered, SameSource, Rewound, Enters
<1>2. CASE t.opt.type = type /\ t.past
  <2>1. Entry(t, type) = EofAction(t)
    BY <1>2 DEF Entry
  <2>2. Acted(t, EofAction(t))
    BY <1>2, Acting DEF Fit, Drained
  <2> QED BY <1>2, <2>1, <2>2 DEF Acted, Entered, Rewound
<1>3. CASE t.opt.type = type /\ ~t.past
  <2>1. Entry(t, type) = [s |-> NoteEnd(t), out |-> "go"]
    BY <1>3 DEF Entry
  <2> QED BY <1>3, <2>1, Noting DEF Entered, Rewound
<1> QED BY <1>1, <1>2, <1>3

-----------------------------------------------------------------------------
(* The operations: the stream between the steps of one.                    *)

(* Where the program is after n bytes, or after a reset. *)
From(n, reset) == IF reset THEN 0 ELSE n

Going(t, n, u, reset) ==
  /\ Fit(u) /\ SameSource(t, u) /\ reset \in BOOLEAN
  /\ Steady(t) => At(u) \in Resume(t.opt.type, From(n, reset))

(* What was delivered is the next units of the stream after the first from bytes. *)
Units(t, from, got) ==
  /\ Consecutive(got, got[1] - 1) /\ got[1] - 1 \in Resume(t.opt.type, from)
  /\ t.opt.type = "text" => Whole(got[Len(got)])

(* The end is there to be told, when the program is at u in t. *)
Told(t, u) == t.past \/ ~Honest(t) \/ (t.closed /\ (Intact(t) => At(u) >= t.sent))

(* A stream that can be rewound and has nothing to read then. *)
Hopeless(t) == Resettable(t) /\ (t.sent = 0 \/ ~Whole(t.sent) \/ ~Honest(t))

(* What the outcome of an operation on a stream t is like, n bytes of which the *)
(* program has been given.                                                      *)
Sound(t, n, o, op) ==
  ~o.waits =>
    /\ Fit(o.s) /\ SameSource(t, o.s) /\ o.reset \in BOOLEAN
    /\ o.got # <<>> /\ op = "get" => o.got[Len(o.got)] \in Nat
    /\ Steady(t) /\ o.got # <<>> /\ ~(op = "peek_byte" /\ t.kind = "tcp") =>
          Units(t, From(n, o.reset), o.got)
    /\ Steady(t) => At(o.s) \in Resume(t.opt.type, IF op = "get" /\ o.got # <<>> THEN o.got[Len(o.got)]
                                                   ELSE From(n, o.reset))
    /\ o.end => Told(t, o.s)
    /\ o.res = "spin" => Hopeless(t)

(* An operation that would block is not one yet. *)
LEMMA Blocks ==
  ASSUME NEW t, NEW n, NEW u, NEW op
  PROVE  Sound(t, n, Waiting(u), op)
BY DEF Sound, Waiting, Outcome

(* An operation that delivers nothing. *)
LEMMA Ended ==
  ASSUME NEW t, NEW n, NEW u, NEW reset, Going(t, n, u, reset), NEW res, NEW end,
         end => Told(t, u), res = "spin" => Hopeless(t), NEW op
  PROVE  Sound(t, n, Outcome(u, res, <<>>, end, reset), op)
BY DEF Sound, Outcome, Going

(* An operation that reports the end. *)
LEMMA Reported ==
  ASSUME NEW t, NEW n, NEW u, NEW reset, Going(t, n, u, reset), NEW arg, Told(t, u), NEW op
  PROVE  Sound(t, n, ReportEnd(u, arg, reset), op)
<1>1. PICK res \in {"true", "fail"} : ReportEnd(u, arg, reset) = Outcome(u, res, <<>>, TRUE, reset)
  BY DEF ReportEnd
<1>2. res # "spin"
  OBVIOUS
<1> QED BY <1>1, <1>2, Ended

(* An operation that ends with the end-of-file action. *)
LEMMA Action ==
  ASSUME NEW t, NEW n, NEW a, NEW reset, Going(t, n, a.s, reset), NEW arg, NEW unit,
         a.out = "end" => Told(t, a.s), NEW op
  PROVE  Sound(t, n, AfterAction(a, arg, unit, reset), op)
<1>1. CASE a.out = "end"
  <2>1. CASE unit = "code" /\ arg = "end"
    <3>1. AfterAction(a, arg, unit, reset) = Outcome(a.s, "fail", <<>>, TRUE, reset)
      BY <1>1, <2>1 DEF AfterAction
    <3>2. "fail" # "spin"
      OBVIOUS
    <3> QED BY <1>1, <3>1, <3>2, Ended
  <2>2. CASE ~ (unit = "code" /\ arg = "end")
    <3>1. AfterAction(a, arg, unit, reset) = ReportEnd(a.s, arg, reset)
      BY <1>1, <2>2 DEF AfterAction
    <3> QED BY <1>1, <3>1, Reported
  <2> QED BY <2>1, <2>2
<1>2. CASE a.out # "end"
  <2>1. PICK res \in {"error", "fail"} : AfterAction(a, arg, unit, reset) = Outcome(a.s, res, <<>>, FALSE, reset)
    <3>1. CASE a.out = "error"
      BY <1>2, <3>1 DEF AfterAction
    <3>2. CASE a.out # "error"
      BY <1>2, <3>2 DEF AfterAction
    <3> QED BY <3>1, <3>2
  <2>2. res # "spin"
    OBVIOUS
  <2> QED BY <2>1, <2>2, Ended
<1> QED BY <1>1, <1>2

(* The units read at a place where reading may resume. *)
LEMMA UnitsAt ==
  ASSUME NEW t, NEW from \in Nat, NEW at \in Nat, at \in Resume(t.opt.type, from),
         NEW got \in Seq(1 .. Size), Len(got) >= 1, Consecutive(got, at),
         t.opt.type = "text" => OneCharacter(at, Len(got))
  PROVE  Units(t, from, got) /\ got[Len(got)] = at + Len(got)
<1>1. PICK l \in Nat : l = Len(got) /\ l >= 1
  BY InSequence
<1>2. got[1] = at + 1 /\ got[l] = at + l
  BY <1>1 DEF Consecutive
<1>3. got[1] - 1 = at
  BY <1>2
<1> QED BY <1>1, <1>2, <1>3 DEF Units, OneCharacter

(* One attempt at the next unit. *)
Attempted(t, n, u, reset, how, r) ==
  /\ Fit(r.s) /\ SameSource(t, r.s)
  /\ r.waits => t.kind \in Blocking
  /\ r.out \in {"char", "none", "bad", "denied"}
  /\ r.out = "char" => r.got # <<>> /\ r.got[Len(r.got)] \in Nat
  /\ r.out = "char" /\ Steady(t) /\ ~(how = "peek_byte" /\ t.kind = "tcp") =>
        Units(t, From(n, reset), r.got)
  /\ Steady(t) => At(r.s) \in Resume(t.opt.type, IF how = "read_char" /\ r.out = "char"
                                                 THEN r.got[Len(r.got)] ELSE From(n, reset))
  /\ r.out # "char" /\ Steady(t) => At(r.s) = At(u)
  /\ r.out = "denied" => t.kind # "file"
  /\ r.out \in {"none", "bad"} /\ ~r.waits /\ Honest(t) /\ Steady(t) =>
        t.closed /\ (Intact(t) => RemBufLen(r.s) = 0 /\ r.s.cur >= t.sent)

(* The last of the bytes read from u on. *)
UpToEnd(u, got) == At(u) \in Nat /\ got[Len(got)] = At(u) + Len(got)

(* What was given from u on is what comes next in t. *)
LEMMA Given ==
  ASSUME NEW t, NEW n \in Nat, NEW reset, NEW u, Going(t, n, u, reset), NEW r, Gave(u, r),
         r.out = "char"
  PROVE  /\ r.got # <<>> /\ r.got[Len(r.got)] \in Nat
         /\ Steady(t) => Units(t, From(n, reset), r.got) /\ UpToEnd(u, r.got)
<1>1. r.got \in Seq(1 .. Size) /\ Len(r.got) \in Nat /\ Len(r.got) >= 1
  BY DEF Gave
<1>2. PICK g \in Seq(1 .. Size), l \in Nat : g = r.got /\ l = Len(g) /\ l >= 1
  BY <1>1
<1>3. g # <<>> /\ g[l] \in 1 .. Size /\ Size \in Nat
  BY <1>2, InSequence, ByteFacts
<1>4. SameSource(t, u) /\ From(n, reset) \in Nat
  BY DEF Going, From
<1>5. ASSUME Steady(t)
      PROVE  Units(t, From(n, reset), g) /\ At(u) \in Nat /\ g[l] = At(u) + l
  <2>1. Steady(u) /\ u.opt.type = t.opt.type
    BY <1>4, <1>5, SourceFacts
  <2>2. /\ Consecutive(g, At(u)) /\ At(u) \in Nat
        /\ t.opt.type = "text" => OneCharacter(At(u), Len(g))
    BY <1>2, <2>1 DEF Gave
  <2>3. At(u) \in Resume(t.opt.type, From(n, reset))
    BY <1>5 DEF Going
  <2> QED BY <1>2, <1>4, <2>2, <2>3, UnitsAt
<1> QED BY <1>2, <1>3, <1>5 DEF UpToEnd

(* Nothing was given from u on: nothing is left. *)
LEMMA NothingGiven ==
  ASSUME NEW t, NEW u, SameSource(t, u), NEW r, Gave(u, r), r.out # "char", ~r.waits, Honest(t), Steady(t)
  PROVE  t.closed /\ (Intact(t) => RemBufLen(r.s) = 0 /\ r.s.cur >= t.sent)
<1>1. Steady(u) /\ Honest(u) /\ (Intact(u) <=> Intact(t))
  BY SourceFacts
<1>2. u.closed /\ (Intact(u) => RemBufLen(r.s) = 0 /\ Over(u, r.s))
  BY <1>1 DEF Gave
<1> QED BY <1>1, <1>2 DEF Over, SameSource

(* A look at the next unit is an attempt. *)
LEMMA LookedAttempt ==
  ASSUME NEW t, NEW n \in Nat, NEW reset, NEW u, Going(t, n, u, reset), NEW how, how # "read_char",
         NEW r, Looked(u, r)
  PROVE  Attempted(t, n, u, reset, how, r)
<1>1. Reached(u, r) /\ Gave(u, r)
  BY DEF Looked
<1>2. Fit(r.s) /\ SameStream(u, r.s) /\ (r.waits => u.kind \in Blocking)
  BY <1>1 DEF Reached
<1>3. SameSource(t, u)
  BY DEF Going
<1>4. SameSource(t, r.s) /\ (r.waits => t.kind \in Blocking)
  BY <1>2, <1>3, StreamSource, SourceOfSource DEF SameSource
<1>5. Steady(t) => At(r.s) = At(u) /\ At(u) \in Resume(t.opt.type, From(n, reset))
  BY <1>1, <1>3, SourceFacts DEF Reached, Going
<1>6. r.out \in {"char", "none", "bad", "denied"}
  BY <1>1 DEF Gave
<1>7. r.out = "char" => /\ r.got # <<>> /\ r.got[Len(r.got)] \in Nat
                        /\ Steady(t) => Units(t, From(n, reset), r.got)
  BY <1>1, Given
<1>8. r.out \in {"none", "bad"} /\ ~r.waits /\ Honest(t) /\ Steady(t) =>
         t.closed /\ (Intact(t) => RemBufLen(r.s) = 0 /\ r.s.cur >= t.sent)
  BY <1>1, <1>3, NothingGiven
<1>9. r.out # "denied"
  BY <1>1 DEF Gave
<1> QED BY <1>2, <1>4, <1>5, <1>6, <1>7, <1>8, <1>9 DEF Attempted

(* So is reading it. *)
LEMMA PassedAttempt ==
  ASSUME NEW t, NEW n \in Nat, NEW reset, NEW u, Going(t, n, u, reset), NEW how, how = "read_char",
         NEW r, Passed(u, r)
  PROVE  Attempted(t, n, u, reset, how, r)
<1>1. Gave(u, r) /\ Fit(r.s) /\ SameStream(u, r.s) /\ (r.waits => u.kind \in Blocking)
  BY DEF Passed
<1>3. SameSource(t, u)
  BY DEF Going
<1>4. SameSource(t, r.s) /\ (r.waits => t.kind \in Blocking)
  BY <1>1, <1>3, StreamSource, SourceOfSource DEF SameSource
<1>5. Steady(t) => At(r.s) = At(u) + Len(r.got) /\ At(u) \in Resume(t.opt.type, From(n, reset))
  BY <1>3, SourceFacts DEF Passed, Going
<1>6. r.out \in {"char", "none", "bad", "denied"}
  BY <1>1 DEF Gave
<1>7. r.out = "char" => /\ r.got # <<>> /\ r.got[Len(r.got)] \in Nat
                        /\ Steady(t) => Units(t, From(n, reset), r.got) /\ UpToEnd(u, r.got)
  BY <1>1, Given
<1>8. r.out \in {"none", "bad"} /\ ~r.waits /\ Honest(t) /\ Steady(t) =>
         t.closed /\ (Intact(t) => RemBufLen(r.s) = 0 /\ r.s.cur >= t.sent)
  BY <1>1, <1>3, NothingGiven
<1>9. ASSUME Steady(t)
      PROVE  At(r.s) \in Resume(t.opt.type, IF how = "read_char" /\ r.out = "char"
                                            THEN r.got[Len(r.got)] ELSE From(n, reset))
  <2>1. CASE r.out = "char"
    BY <1>5, <1>7, <1>9, <2>1, ResumeHere DEF UpToEnd
  <2>2. CASE r.out # "char"
    <3>1. r.got = <<>> /\ At(u) \in Int
      BY <1>1, <2>2, BufferFacts DEF Gave, Going, Fit
    <3>2. At(r.s) = At(u)
      BY <1>5, <1>9, <3>1
    <3> QED BY <1>5, <1>9, <2>2, <3>2
  <2> QED BY <2>1, <2>2
<1>10. r.out # "char" /\ Steady(t) => At(r.s) = At(u)
  <2>1. ASSUME r.out # "char", Steady(t) PROVE At(r.s) = At(u)
    <3>1. r.got = <<>> /\ At(u) \in Int
      BY <1>1, <2>1, BufferFacts DEF Gave, Going, Fit
    <3> QED BY <1>5, <2>1, <3>1
  <2> QED BY <2>1
<1>11. r.out # "denied"
  BY <1>1 DEF Gave
<1> QED BY <1>1, <1>4, <1>6, <1>7, <1>8, <1>9, <1>10, <1>11 DEF Attempted

(* A memory stream whose cursor was moved is still one. *)
LEMMA CursorMoved ==
  ASSUME NEW t, Fit(t), ~Steady(t), NEW c \in Nat, NEW u, u = [t EXCEPT !.cur = c]
  PROVE  Fit(u) /\ SameSource(t, u)
<1>1. t \in Buffered /\ t \in Streams
  BY DEF Fit, Buffered
<1>2. /\ u \in Streams /\ u.buf = t.buf /\ u.pos = t.pos
      /\ u.kind = t.kind /\ u.opt = t.opt /\ u.sent = t.sent /\ u.closed = t.closed
  BY <1>1 DEF Streams
<1>3. SameSource(t, u)
  BY <1>2 DEF SameSource
<1> QED BY <1>1, <1>2, <1>3, SourceFacts DEF Fit, Buffered

(* So is the byte look-ahead of a memory stream, which is not Steady. *)
LEMMA PeekingMemory ==
  ASSUME NEW t, NEW n \in Nat, NEW reset, NEW u, Going(t, n, u, reset), t.opt.type = "binary",
         t.kind = "byte"
  PROVE  Attempted(t, n, u, reset, "peek_byte", PeekByte(u))
<1>1. Fit(u) /\ SameSource(t, u) /\ u.opt.type = "binary" /\ u.kind = "byte" /\ ~Steady(t) /\ ~Steady(u)
  BY SourceFacts DEF Going, SameSource, Steady
<1>2. PICK v, w, o, g : PeekBufferedByte(u) = [s |-> v, waits |-> w, out |-> o, got |-> g]
  BY DEF PeekBufferedByte, FirstByte
<1>3. PICK x : x = Consume(v, Len(g))
  OBVIOUS
<1>4. PICK r : r = [s |-> x, waits |-> w, out |-> o, got |-> g]
  OBVIOUS
<1>5. ReadByte(u) = r
  BY <1>2, <1>3, <1>4 DEF ReadByte, Consumed
<1>6. Passed(u, r)
  BY <1>1, <1>5, ReadingByte
<1>7. Gave(u, r) /\ Fit(x) /\ SameStream(u, x) /\ (w => u.kind \in Blocking)
  BY <1>4, <1>6 DEF Passed
<1>8. o \in {"none", "char", "bad"} /\ ~Honest(t) /\ (o # "char" => g = <<>>)
  BY <1>4, <1>7 DEF Honest, Gave
<1>9. SameSource(t, x) /\ ~Steady(x) /\ (w => t.kind \in Blocking)
  BY <1>1, <1>7, StreamSource, SourceOfSource, SourceFacts DEF SameSource
<1>10. o = "char" => g # <<>> /\ g[Len(g)] \in Nat
  <2>1. r.out = o /\ r.got = g
    BY <1>4
  <2>2. r.out = "char" => r.got # <<>> /\ r.got[Len(r.got)] \in Nat
    BY <1>7, Given
  <2> QED BY <2>1, <2>2
<1>11. PICK y : y = [x EXCEPT !.cur = u.cur]
  OBVIOUS
<1>12. u.cur \in Nat
  BY <1>1 DEF Fit, Buffered, Streams
<1>13. Fit(y) /\ SameSource(t, y)
  BY <1>7, <1>9, <1>11, <1>12, CursorMoved, SourceOfSource
<1>14. CASE g = <<>>
  <2>1. PeekByte(u) = r
    BY <1>1, <1>4, <1>5, <1>14 DEF PeekByte, CursorBack
  <2> QED BY <1>1, <1>4, <1>7, <1>8, <1>9, <1>10, <2>1 DEF Attempted
<1>15. CASE g # <<>>
  <2>1. PeekByte(u) = [s |-> y, waits |-> w, out |-> o, got |-> g]
    <3>1. PeekByte(u) = [r EXCEPT !.s.cur = u.cur]
      BY <1>1, <1>4, <1>5, <1>15 DEF PeekByte, CursorBack
    <3>2. [r EXCEPT !.s.cur = u.cur] = [r EXCEPT !.s = [r.s EXCEPT !.cur = u.cur]]
      OBVIOUS
    <3> QED BY <1>4, <1>11, <3>1, <3>2
  <2> QED BY <1>1, <1>8, <1>9, <1>10, <1>13, <2>1 DEF Attempted
<1> QED BY <1>14, <1>15

(* So are all the ways to try. *)
LEMMA Attempting ==
  ASSUME NEW t, NEW n \in Nat, NEW reset, NEW u, Going(t, n, u, reset),
         NEW how \in {"peek_byte", "peek_char", "read_char"},
         t.opt.type = IF how = "peek_byte" THEN "binary" ELSE "text"
  PROVE  Attempted(t, n, u, reset, how, Attempt(how, u))
<1>1. Fit(u) /\ SameSource(t, u) /\ u.opt.type = t.opt.type /\ u.kind = t.kind
  BY SourceFacts DEF Going, SameSource
<1>2. CASE how = "peek_char"
  BY <1>1, <1>2, PeekingChar, LookedAttempt DEF Attempt
<1>3. CASE how = "read_char"
  BY <1>1, <1>3, ReadingChar, PassedAttempt DEF Attempt
<1>4. CASE how = "peek_byte"
  <2>1. Attempt(how, u) = PeekByte(u)
    BY <1>4 DEF Attempt
  <2>2. CASE t.kind = "file"
    <3>1. PeekByte(u) = PeekBufferedByte(u)
      BY <1>1, <2>2 DEF PeekByte
    <3> QED BY <1>1, <1>4, <2>1, <3>1, PeekingByte, LookedAttempt
  <2>3. CASE t.kind = "byte"
    BY <1>4, <2>1, <2>3, PeekingMemory
  <2>4. CASE t.kind = "tcp"
    <3>1. PICK b \in Nat : b = IF u.cur < u.sent THEN u.cur + 1 ELSE 0
      BY <1>1 DEF Fit, Buffered, Streams
    <3>2. PICK w \in BOOLEAN : PeekByte(u) = [s |-> u, waits |-> w, out |-> "char", got |-> <<b>>]
      BY <1>1, <2>4, <3>1 DEF PeekByte
    <3>3. <<b>> # <<>> /\ <<b>>[Len(<<b>>)] \in Nat
      OBVIOUS
    <3>4. t.kind \in Blocking
      BY <2>4 DEF Blocking
    <3>5. Steady(t) => At(u) \in Resume(t.opt.type, From(n, reset))
      BY DEF Going
    <3>6. PICK r : r = PeekByte(u)
      OBVIOUS
    <3>7. r.s = u /\ r.out = "char" /\ r.got # <<>> /\ r.got[Len(r.got)] \in Nat
      BY <3>2, <3>3, <3>6
    <3>8. Attempted(t, n, u, reset, how, r)
      BY <1>1, <1>4, <2>4, <3>4, <3>5, <3>7 DEF Attempted
    <3> QED BY <2>1, <3>6, <3>8
  <2>5. CASE t.kind \notin {"file", "byte", "tcp"}
    <3>1. PeekByte(u) = [s |-> u, waits |-> FALSE, out |-> "denied", got |-> <<>>]
      BY <1>1, <2>5 DEF PeekByte
    <3>2. Steady(t) => At(u) \in Resume(t.opt.type, From(n, reset))
      BY DEF Going
    <3>3. PICK r : r = PeekByte(u)
      OBVIOUS
    <3>4. r.s = u /\ r.out = "denied" /\ r.waits = FALSE
      BY <3>1, <3>3
    <3>5. Attempted(t, n, u, reset, how, r)
      BY <1>1, <1>4, <2>5, <3>2, <3>4 DEF Attempted
    <3> QED BY <2>1, <3>3, <3>5
  <2> QED BY <2>2, <2>3, <2>4, <2>5
<1> QED BY <1>2, <1>3, <1>4

-----------------------------------------------------------------------------
(* The operations: try, act at the end, try again.                         *)

(* Which operations make which attempts. *)
OpOf(how, op) == (op = "get" <=> how = "read_char") /\ (op = "peek_byte" <=> how = "peek_byte")

(* An operation that delivers what an attempt gave. *)
LEMMA Delivered ==
  ASSUME NEW t, NEW u, NEW n, NEW reset \in BOOLEAN, NEW how, NEW r, Attempted(t, n, u, reset, how, r),
         r.out = "char", NEW arg, NEW op, OpOf(how, op)
  PROVE  Sound(t, n, Deliver(r.s, arg, r.got, reset), op)
<1>1. PICK res \in {"true", "fail"} : Deliver(r.s, arg, r.got, reset) = Outcome(r.s, res, r.got, FALSE, reset)
  BY DEF Deliver
<1>2. PICK o : o = Outcome(r.s, res, r.got, FALSE, reset)
  OBVIOUS
<1>3. o.s = r.s /\ o.res = res /\ o.got = r.got /\ o.end = FALSE /\ o.reset = reset
  BY <1>2 DEF Outcome
<1>4. o.res # "spin"
  BY <1>3
<1>5. /\ Fit(r.s) /\ SameSource(t, r.s) /\ r.got # <<>> /\ r.got[Len(r.got)] \in Nat
      /\ Steady(t) /\ ~(op = "peek_byte" /\ t.kind = "tcp") => Units(t, From(n, reset), r.got)
      /\ Steady(t) => At(r.s) \in Resume(t.opt.type, IF op = "get" THEN r.got[Len(r.got)] ELSE From(n, reset))
  BY DEF Attempted, OpOf
<1>6. Sound(t, n, o, op)
  BY <1>3, <1>4, <1>5 DEF Sound
<1> QED BY <1>1, <1>2, <1>6

(* A failed attempt leaves the program where it was, and nothing to read. *)
LEMMA Failed ==
  ASSUME NEW t, NEW u, NEW n \in Nat, NEW reset \in BOOLEAN, NEW how, NEW r, Attempted(t, n, u, reset, how, r),
         r.out # "char"
  PROVE  Going(t, n, r.s, reset)
BY DEF Attempted, Going

(* The streams that tell their end read as the system gives it, but for files *)
(* with a truncated character that are to be rewound.                          *)
LEMMA HonestSteady ==
  ASSUME NEW t, Fit(t), Honest(t)
  PROVE  /\ Steady(t) \/ (t.kind = "file" /\ t.opt.eof = "reset" /\ ~Intact(t))
         /\ t.kind = "file" => t.closed
<1>1. t.kind \in Static => t.closed
  BY DEF Fit
<1> QED BY <1>1 DEF Honest, Steady, Static

(* A file that was rewound, and is read in vain, is empty or truncated. *)
LEMMA Again ==
  ASSUME NEW t, NEW n \in Nat, NEW u, Going(t, n, u, TRUE), Resettable(t),
         Steady(t) => At(u) = 0,
         NEW how \in {"peek_byte", "peek_char", "read_char"},
         t.opt.type = IF how = "peek_byte" THEN "binary" ELSE "text",
         NEW arg, NEW op, OpOf(how, op)
  PROVE  Sound(t, n, AfterReset(Attempt(how, u), arg), op)
<1>1. PICK r : r = Attempt(how, u)
  OBVIOUS
<1>2. Attempted(t, n, u, TRUE, how, r)
  BY <1>1, Attempting
<1>3. CASE r.out = "char"
  BY <1>1, <1>2, <1>3, Delivered DEF AfterReset
<1>4. CASE r.out # "char"
  <2>1. Going(t, n, r.s, TRUE)
    BY <1>2, <1>4, Failed
  <2>2. ASSUME Honest(t), Whole(t.sent) PROVE t.sent = 0
    <3>1. t.kind = "file"
      BY <2>2 DEF Resettable, Honest
    <3>2. Intact(t) /\ Steady(t)
      BY <2>2, <3>1 DEF Intact, Steady
    <3>3. ~r.waits
      BY <1>2, <3>1 DEF Attempted, Blocking
    <3>4. r.out \in {"none", "bad"}
      BY <1>2, <1>4, <3>1 DEF Attempted
    <3>5. RemBufLen(r.s) = 0 /\ r.s.cur >= t.sent
      BY <1>2, <2>2, <3>2, <3>3, <3>4 DEF Attempted
    <3>6. At(r.s) = 0
      BY <1>2, <1>4, <3>2 DEF Attempted
    <3>7. r.s.cur \in Nat /\ t.sent \in Nat /\ At(r.s) = r.s.cur - RemBufLen(r.s)
      <4>1. r.s \in Buffered /\ r.s.sent = t.sent
        BY <2>1 DEF Going, Fit, SameSource
      <4>2. r.s.sent \in 0 .. Size /\ Size \in Nat /\ r.s.cur \in Nat /\ At(r.s) = r.s.cur - RemBufLen(r.s)
        BY <4>1, BufferFacts
      <4> QED BY <4>1, <4>2
    <3> QED BY <3>5, <3>6, <3>7
  <2>3. Hopeless(t)
    BY <2>2 DEF Hopeless
  <2>4. AfterReset(r, arg) = Outcome(r.s, "spin", <<>>, FALSE, TRUE)
    BY <1>4 DEF AfterReset
  <2>5. Sound(t, n, Outcome(r.s, "spin", <<>>, FALSE, TRUE), op)
    BY <2>1, <2>3, Ended
  <2> QED BY <1>1, <2>4, <2>5
<1> QED BY <1>3, <1>4

(* The loop of the peeks and of get_char and get_code. *)
LEMMA Trying ==
  ASSUME NEW t, Fit(t), NEW n \in Nat, NEW u, NEW reset, Going(t, n, u, reset),
         NEW how \in {"peek_byte", "peek_char", "read_char"},
         t.opt.type = IF how = "peek_byte" THEN "binary" ELSE "text",
         NEW arg, NEW unit, NEW op, OpOf(how, op)
  PROVE  Sound(t, n, TryUntilRead(how, u, arg, unit, reset), op)
<1>1. PICK r : r = Attempt(how, u)
  OBVIOUS
<1>2. Attempted(t, n, u, reset, how, r) /\ reset \in BOOLEAN
  BY <1>1, Attempting DEF Going
<1>3. TryUntilRead(how, u, arg, unit, reset) = AfterAttempt(how, r, arg, unit, reset)
  BY <1>1 DEF TryUntilRead
<1>4. CASE r.waits
  BY <1>3, <1>4, Blocks DEF AfterAttempt
<1>5. CASE ~r.waits /\ r.out = "char"
  BY <1>2, <1>3, <1>5, Delivered DEF AfterAttempt
<1>6. CASE ~r.waits /\ r.out = "denied"
  <2>1. Going(t, n, r.s, reset)
    BY <1>2, <1>6, Failed
  <2>2. AfterAttempt(how, r, arg, unit, reset) = Outcome(r.s, "fail", <<>>, FALSE, reset)
    BY <1>6 DEF AfterAttempt
  <2>3. "fail" # "spin"
    OBVIOUS
  <2> QED BY <1>3, <2>1, <2>2, <2>3, Ended
<1>7. CASE ~r.waits /\ r.out \in {"none", "bad"}
  <2>1. Going(t, n, r.s, reset)
    BY <1>2, <1>7, Failed
  <2>2. PICK v : v = r.s
    OBVIOUS
  <2>3. Fit(v) /\ SameSource(t, v) /\ (Steady(v) <=> Steady(t)) /\ (Intact(v) <=> Intact(t))
    BY <2>1, <2>2, SourceFacts DEF Going
  <2>4. Honest(t) /\ Steady(t) => t.closed /\ (Intact(t) => RemBufLen(v) = 0 /\ v.cur >= t.sent)
    BY <1>2, <1>7, <2>2 DEF Attempted
  <2>5. Steady(v) /\ v.kind = "file" /\ v.opt.eof = "reset" => RemBufLen(v) = 0
    <3>1. ASSUME Steady(t), t.kind = "file", t.opt.eof = "reset" PROVE Intact(t) /\ Honest(t)
      BY <3>1 DEF Steady, Honest
    <3> QED BY <2>3, <2>4, <3>1 DEF SameSource
  <2>6. PICK a : a = EofAction(v)
    OBVIOUS
  <2>7. Acted(v, a)
    BY <2>3, <2>5, <2>6, Acting
  <2>8. Fit(a.s) /\ SameSource(t, a.s) /\ SameSource(v, a.s)
    BY <2>3, <2>7, SourceOfSource DEF Acted
  <2>9. AfterAttempt(how, r, arg, unit, reset) = AfterFailure(how, a, arg, unit, reset)
    BY <1>7, <2>2, <2>6 DEF AfterAttempt
  <2>10. CASE a.out = "reset"
    <3>1. Steady(t) => At(a.s) = 0
      BY <2>3, <2>7, <2>10 DEF Acted
    <3>2. Going(t, n, a.s, TRUE)
      BY <2>8, <3>1, ResumeHere DEF Going, From
    <3>3. Resettable(t)
      BY <2>3, <2>7, <2>10 DEF Acted, Resettable, SameSource
    <3>4. Sound(t, n, AfterReset(Attempt(how, a.s), arg), op)
      BY <3>1, <3>2, <3>3, Again
    <3> QED BY <1>3, <2>9, <2>10, <3>4 DEF AfterFailure
  <2>11. CASE a.out # "reset"
    <3>1. Steady(t) => At(a.s) = At(v)
      BY <2>3, <2>7, <2>11 DEF Acted
    <3>2. Going(t, n, a.s, reset)
      BY <2>1, <2>2, <2>8, <3>1 DEF Going
    <3>3. ASSUME a.out = "end" PROVE Told(t, a.s)
      <4>1. ASSUME Honest(t) PROVE t.closed /\ (Intact(t) => At(a.s) >= t.sent)
        <5>1. t.closed
          BY <2>4, <4>1, HonestSteady
        <5>2. ASSUME Intact(t) PROVE At(a.s) >= t.sent
          <6>1. Steady(t)
            BY <4>1, <5>2, HonestSteady
          <6>2. RemBufLen(v) = 0 /\ v.cur >= t.sent
            BY <2>4, <4>1, <5>2, <6>1
          <6>3. v.cur \in Nat
            BY <2>3 DEF Fit, Buffered, Streams
          <6>4. At(v) = v.cur
            BY <6>2, <6>3 DEF At
          <6> QED BY <3>1, <6>1, <6>2, <6>4
        <5> QED BY <5>1, <5>2
      <4> QED BY <4>1 DEF Told
    <3>4. AfterFailure(how, a, arg, unit, reset) = AfterAction(a, arg, unit, reset)
      BY <2>11 DEF AfterFailure
    <3> QED BY <1>3, <2>9, <3>2, <3>3, <3>4, Action
  <2> QED BY <2>10, <2>11
<1> QED BY <1>2, <1>4, <1>5, <1>6, <1>7 DEF Attempted

(* Past check_stream_properties the program is where it was, or at the start. *)
LEMMA PastEntry ==
  ASSUME NEW t, NEW n \in Nat, Steady(t) => At(t) \in Resume(t.opt.type, n),
         NEW type, NEW e, Entered(t, type, e)
  PROVE  Going(t, n, e.s, Rewound(e))
<1>1. Rewound(e) \in BOOLEAN
  BY DEF Rewound
<1>2. Steady(t) => At(e.s) \in Resume(t.opt.type, From(n, Rewound(e)))
  BY ResumeHere DEF Entered, From
<1> QED BY <1>1, <1>2 DEF Entered, Going

(* ... and the action past the end ends the operation otherwise. *)
LEMMA Refused ==
  ASSUME NEW t, NEW n \in Nat, Steady(t) => At(t) \in Resume(t.opt.type, n),
         NEW type, NEW e, Entered(t, type, e), ~Enters(e), NEW arg, NEW unit, NEW op
  PROVE  Sound(t, n, AfterAction(e, arg, unit, FALSE), op)
<1>1. ~Rewound(e)
  BY DEF Enters, Rewound
<1>2. Going(t, n, e.s, FALSE)
  BY <1>1, PastEntry DEF Rewound
<1>3. e.out = "end" => Told(t, e.s)
  BY DEF Entered, Told
<1> QED BY <1>2, <1>3, Action

(* At its end a stream has nothing left. *)
LEMMA EndReached ==
  ASSUME NEW t, Fit(t), NEW u, Fit(u), SameSource(t, u), AtEnd(u)
  PROVE  /\ Told(t, u)
         /\ Steady(u) /\ u.kind = "file" => RemBufLen(u) = 0 /\ u.cur >= u.sent
<1>1. RelativeToEnd(u) = "at"
  BY DEF AtEnd
<1>2. u.sent = t.sent /\ u.sent \in Nat /\ At(u) \in Int
  <2>1. u \in Buffered
    BY DEF Fit
  <2>2. u.sent \in 0 .. Size /\ Size \in Nat /\ At(u) \in Int
    BY <2>1, BufferFacts
  <2> QED BY <2>2 DEF SameSource
<1>3. CASE u.kind = "file"
  <2>1. At(u) = u.sent
    BY <1>1, <1>3, FilePosition DEF RelativeToEnd
  <2>2. t.closed
    BY <1>3 DEF Fit, SameSource, Static
  <2>3. At(u) >= t.sent
    BY <1>2, <2>1
  <2>4. Steady(u) => RemBufLen(u) = 0 /\ u.cur >= u.sent
    BY <1>2, <1>3, <2>1, <2>3, BeyondEnd
  <2> QED BY <2>2, <2>3, <2>4 DEF Told
<1>4. CASE u.kind \in {"byte", "channel"}
  BY <1>4 DEF Told, Honest, SameSource
<1>5. CASE u.kind \notin {"file", "byte", "channel"}
  <2>1. RelativeToEnd(u) # "at"
    BY <1>5 DEF RelativeToEnd
  <2> QED BY <1>1, <2>1
<1> QED BY <1>3, <1>4, <1>5

(* ... so that it may be marked as past it. *)
LEMMA MarkedAtEnd ==
  ASSUME NEW t, Fit(t), NEW n, NEW u, NEW reset, Going(t, n, u, reset), AtEnd(u)
  PROVE  Going(t, n, SetPastEnd(u), reset) /\ Told(t, SetPastEnd(u))
<1>1. Fit(u) /\ SameSource(t, u)
  BY DEF Going
<1>2. /\ Told(t, u)
      /\ Steady(u) /\ u.kind = "file" => RemBufLen(u) = 0 /\ u.cur >= u.sent
  BY <1>1, EndReached
<1>3. PICK v : v = SetPastEnd(u)
  OBVIOUS
<1>4. Fit(v) /\ SameSource(u, v) /\ At(v) = At(u)
  BY <1>1, <1>2, <1>3, WithPast DEF SetPastEnd
<1>5. SameSource(t, v)
  BY <1>1, <1>4, SourceOfSource
<1>6. Going(t, n, v, reset) /\ Told(t, v)
  BY <1>2, <1>4, <1>5 DEF Going, Told
<1> QED BY <1>3, <1>6

(* peek_byte/2. *)
LEMMA PeekByteSound ==
  ASSUME NEW t, Fit(t), NEW n \in Nat, Steady(t) => At(t) \in Resume(t.opt.type, n),
         NEW e, Entered(t, "binary", e), NEW arg
  PROVE  Sound(t, n, PeekByteOp(e, arg), "peek_byte")
<1>1. CASE ~Enters(e)
  BY <1>1, Refused DEF PeekByteOp
<1>2. CASE Enters(e)
  <2>1. Going(t, n, e.s, Rewound(e)) /\ t.opt.type = "binary"
    BY <1>2, PastEntry DEF Entered
  <2>2. CASE AtEnd(e.s) /\ arg \in {"var", "end"}
    <3>1. Told(t, e.s)
      BY <2>1, <2>2, EndReached DEF Going
    <3> QED BY <1>2, <2>1, <2>2, <3>1, Reported DEF PeekByteOp
  <2>3. CASE ~(AtEnd(e.s) /\ arg \in {"var", "end"}) /\ arg \in {"end", "wrong"}
    <3>1. PeekByteOp(e, arg) = Outcome(e.s, "error", <<>>, FALSE, Rewound(e)) /\ "error" # "spin"
      BY <1>2, <2>3 DEF PeekByteOp
    <3> QED BY <2>1, <3>1, Ended
  <2>4. CASE ~(AtEnd(e.s) /\ arg \in {"var", "end"}) /\ arg \notin {"end", "wrong"}
    <3>1. PeekByteOp(e, arg) = TryUntilRead("peek_byte", e.s, arg, "byte", Rewound(e))
      BY <1>2, <2>4 DEF PeekByteOp
    <3>2. OpOf("peek_byte", "peek_byte")
      BY DEF OpOf
    <3> QED BY <2>1, <3>1, <3>2, Trying
  <2> QED BY <2>2, <2>3, <2>4
<1> QED BY <1>1, <1>2

(* peek_char/2. *)
LEMMA PeekCharSound ==
  ASSUME NEW t, Fit(t), NEW n \in Nat, Steady(t) => At(t) \in Resume(t.opt.type, n),
         NEW e, Entered(t, "text", e), NEW arg
  PROVE  Sound(t, n, PeekCharOp(e, arg), "peek")
<1>1. CASE ~Enters(e)
  BY <1>1, Refused DEF PeekCharOp
<1>2. CASE Enters(e)
  <2>1. Going(t, n, e.s, Rewound(e)) /\ t.opt.type = "text"
    BY <1>2, PastEntry DEF Entered
  <2>2. CASE AtEnd(e.s)
    <3>1. Told(t, e.s)
      BY <2>1, <2>2, EndReached DEF Going
    <3> QED BY <1>2, <2>1, <2>2, <3>1, Reported DEF PeekCharOp
  <2>3. CASE ~AtEnd(e.s) /\ arg \in {"end", "wrong"}
    <3>1. PeekCharOp(e, arg) = Outcome(e.s, "error", <<>>, FALSE, Rewound(e)) /\ "error" # "spin"
      BY <1>2, <2>3 DEF PeekCharOp
    <3> QED BY <2>1, <3>1, Ended
  <2>4. CASE ~AtEnd(e.s) /\ arg \notin {"end", "wrong"}
    <3>1. PeekCharOp(e, arg) = TryUntilRead("peek_char", e.s, arg, "char", Rewound(e))
      BY <1>2, <2>4 DEF PeekCharOp
    <3>2. OpOf("peek_char", "peek")
      BY DEF OpOf
    <3> QED BY <2>1, <3>1, <3>2, Trying
  <2> QED BY <2>2, <2>3, <2>4
<1> QED BY <1>1, <1>2

(* peek_code/2. *)
LEMMA PeekCodeSound ==
  ASSUME NEW t, Fit(t), NEW n \in Nat, Steady(t) => At(t) \in Resume(t.opt.type, n),
         NEW e, Entered(t, "text", e), NEW arg
  PROVE  Sound(t, n, PeekCodeOp(e, arg), "peek")
<1>1. CASE ~Enters(e)
  BY <1>1, Refused DEF PeekCodeOp
<1>2. CASE Enters(e)
  <2>1. Going(t, n, e.s, Rewound(e)) /\ t.opt.type = "text"
    BY <1>2, PastEntry DEF Entered
  <2>2. CASE AtEnd(e.s) /\ arg \in {"var", "end"}
    <3>1. Told(t, e.s)
      BY <2>1, <2>2, EndReached DEF Going
    <3> QED BY <1>2, <2>1, <2>2, <3>1, Reported DEF PeekCodeOp
  <2>3. CASE ~(AtEnd(e.s) /\ arg \in {"var", "end"}) /\ arg \in {"end", "wrong"}
    <3>1. PeekCodeOp(e, arg) = Outcome(e.s, "error", <<>>, FALSE, Rewound(e)) /\ "error" # "spin"
      BY <1>2, <2>3 DEF PeekCodeOp
    <3> QED BY <2>1, <3>1, Ended
  <2>4. CASE ~(AtEnd(e.s) /\ arg \in {"var", "end"}) /\ arg \notin {"end", "wrong"}
    <3>1. PeekCodeOp(e, arg) = TryUntilRead("peek_char", e.s, arg, "code", Rewound(e))
      BY <1>2, <2>4 DEF PeekCodeOp
    <3>2. OpOf("peek_char", "peek")
      BY DEF OpOf
    <3> QED BY <2>1, <3>1, <3>2, Trying
  <2> QED BY <2>2, <2>3, <2>4
<1> QED BY <1>1, <1>2

(* get_char and get_code, from open_parsing_stream on. *)
LEMMA OpenedSound ==
  ASSUME NEW t, Fit(t), NEW n \in Nat, NEW u, NEW reset, Going(t, n, u, reset), t.opt.type = "text",
         NEW arg, NEW unit
  PROVE  Sound(t, n, AfterOpening(OpenParsing(u), arg, unit, reset), "get")
<1>1. Fit(u) /\ SameSource(t, u) /\ u.opt.type = "text" /\ From(n, reset) \in Nat
  BY SourceFacts DEF Going, From
<1>2. PICK o : o = OpenParsing(u)
  OBVIOUS
<1>3. Opened(u, o)
  BY <1>1, <1>2, Opening
<1>4. Fit(o.s) /\ SameSource(t, o.s)
  BY <1>1, <1>3, StreamSource, SourceOfSource DEF Opened
<1>5. Steady(t) => At(o.s) \in Resume("text", From(n, reset))
  BY <1>1, <1>3, SourceFacts DEF Opened, Going
<1>6. Going(t, n, o.s, reset)
  BY <1>4, <1>5 DEF Going
<1>7. CASE o.waits
  BY <1>2, <1>7, Blocks DEF AfterOpening
<1>8. CASE ~o.waits /\ o.bad
  <2>1. AfterOpening(o, arg, unit, reset) = Outcome(o.s, "error", <<>>, FALSE, reset) /\ "error" # "spin"
    BY <1>8 DEF AfterOpening
  <2> QED BY <1>2, <1>6, <2>1, Ended
<1>9. CASE ~o.waits /\ ~o.bad
  <2>1. AfterOpening(o, arg, unit, reset) = TryUntilRead("read_char", o.s, arg, unit, reset)
    BY <1>9 DEF AfterOpening
  <2>2. OpOf("read_char", "get")
    BY DEF OpOf
  <2> QED BY <1>2, <1>6, <2>1, <2>2, Trying
<1> QED BY <1>7, <1>8, <1>9

(* get_char/2. *)
LEMMA GetCharSound ==
  ASSUME NEW t, Fit(t), NEW n \in Nat, Steady(t) => At(t) \in Resume(t.opt.type, n),
         NEW e, Entered(t, "text", e), NEW arg
  PROVE  Sound(t, n, GetChar(e, arg), "get")
<1>1. CASE ~Enters(e)
  BY <1>1, Refused DEF GetChar
<1>2. CASE Enters(e)
  <2>1. Going(t, n, e.s, Rewound(e)) /\ t.opt.type = "text"
    BY <1>2, PastEntry DEF Entered
  <2>2. CASE AtEnd(e.s)
    <3>1. Going(t, n, SetPastEnd(e.s), Rewound(e)) /\ Told(t, SetPastEnd(e.s))
      BY <2>1, <2>2, MarkedAtEnd
    <3> QED BY <1>2, <2>2, <3>1, Reported DEF GetChar
  <2>3. CASE ~AtEnd(e.s) /\ arg \in {"end", "wrong"}
    <3>1. PICK res \in {"fail", "error"} : GetChar(e, arg) = Outcome(e.s, res, <<>>, FALSE, Rewound(e))
      BY <1>2, <2>3 DEF GetChar
    <3>2. res # "spin"
      OBVIOUS
    <3> QED BY <2>1, <3>1, <3>2, Ended
  <2>4. CASE ~AtEnd(e.s) /\ arg \notin {"end", "wrong"}
    <3>1. GetChar(e, arg) = AfterOpening(OpenParsing(e.s), arg, "char", Rewound(e))
      BY <1>2, <2>4 DEF GetChar
    <3> QED BY <2>1, <3>1, OpenedSound
  <2> QED BY <2>2, <2>3, <2>4
<1> QED BY <1>1, <1>2

(* get_code/2. *)
LEMMA GetCodeSound ==
  ASSUME NEW t, Fit(t), NEW n \in Nat, Steady(t) => At(t) \in Resume(t.opt.type, n),
         NEW e, Entered(t, "text", e), NEW arg
  PROVE  Sound(t, n, GetCode(e, arg), "get")
<1>1. CASE ~Enters(e)
  BY <1>1, Refused DEF GetCode
<1>2. CASE Enters(e)
  <2>1. Going(t, n, e.s, Rewound(e)) /\ t.opt.type = "text"
    BY <1>2, PastEntry DEF Entered
  <2>2. CASE AtEnd(e.s)
    <3>1. Going(t, n, SetPastEnd(e.s), Rewound(e)) /\ Told(t, SetPastEnd(e.s))
      BY <2>1, <2>2, MarkedAtEnd
    <3> QED BY <1>2, <2>2, <3>1, Reported DEF GetCode
  <2>3. CASE ~AtEnd(e.s) /\ arg \in {"end", "wrong"}
    <3>1. GetCode(e, arg) = Outcome(e.s, "error", <<>>, FALSE, Rewound(e)) /\ "error" # "spin"
      BY <1>2, <2>3 DEF GetCode
    <3> QED BY <2>1, <3>1, Ended
  <2>4. CASE ~AtEnd(e.s) /\ arg \notin {"end", "wrong"}
    <3>1. GetCode(e, arg) = AfterOpening(OpenParsing(e.s), arg, "code", Rewound(e))
      BY <1>2, <2>4 DEF GetCode
    <3> QED BY <2>1, <3>1, OpenedSound
  <2> QED BY <2>2, <2>3, <2>4
<1> QED BY <1>1, <1>2

(* get_byte/2. *)
LEMMA GetByteSound ==
  ASSUME NEW t, Fit(t), NEW n \in Nat, Steady(t) => At(t) \in Resume(t.opt.type, n),
         NEW e, Entered(t, "binary", e), NEW arg
  PROVE  Sound(t, n, GetByte(e, arg), "get")
<1>1. CASE ~Enters(e)
  BY <1>1, Refused DEF GetByte
<1>2. CASE Enters(e)
  <2>1. Going(t, n, e.s, Rewound(e)) /\ t.opt.type = "binary"
    BY <1>2, PastEntry DEF Entered
  <2>2. CASE arg = "wrong"
    <3>1. GetByte(e, arg) = Outcome(e.s, "error", <<>>, FALSE, Rewound(e)) /\ "error" # "spin"
      BY <1>2, <2>2 DEF GetByte
    <3> QED BY <2>1, <3>1, Ended
  <2>3. CASE arg # "wrong"
    <3>1. PICK u, reset : u = e.s /\ reset = Rewound(e)
      OBVIOUS
    <3>2. PICK r : r = ReadByte(u)
      OBVIOUS
    <3>3. GetByte(e, arg) = DeliverByte(r, arg, reset)
      BY <1>2, <2>3, <3>1, <3>2 DEF GetByte
    <3>4. Going(t, n, u, reset) /\ Fit(u) /\ SameSource(t, u) /\ u.opt.type = "binary" /\ reset \in BOOLEAN
      BY <2>1, <3>1, SourceFacts DEF Going
    <3>5. Passed(u, r) /\ Gave(u, r)
      BY <3>2, <3>4, ReadingByte DEF Passed
    <3>6. Attempted(t, n, u, reset, "read_char", r)
      BY <3>4, <3>5, PassedAttempt
    <3>7. OpOf("read_char", "get")
      BY DEF OpOf
    <3>8. CASE r.waits
      BY <3>3, <3>8, Blocks DEF DeliverByte
    <3>9. CASE ~r.waits /\ r.got # <<>>
      <4>1. r.out = "char"
        BY <3>5, <3>9 DEF Gave
      <4>2. Sound(t, n, Deliver(r.s, arg, r.got, reset), "get")
        BY <3>4, <3>6, <3>7, <4>1, Delivered
      <4> QED BY <3>3, <3>9, <4>2 DEF DeliverByte
    <3>10. CASE ~r.waits /\ r.got = <<>>
      <4>1. r.out # "char"
        <5>1. Len(<<>>) = 0
          OBVIOUS
        <5> QED BY <3>5, <3>10, <5>1 DEF Gave
      <4>2. Going(t, n, r.s, reset)
        BY <3>4, <3>6, <4>1, Failed
      <4>3. PICK v : v = r.s
        OBVIOUS
      <4>4. Fit(v) /\ SameSource(t, v) /\ v.kind = t.kind /\ (Steady(v) <=> Steady(t)) /\ v.sent = t.sent
        BY <4>2, <4>3, SourceFacts DEF Going, SameSource
      <4>5. Intact(t)
        BY <2>1 DEF Intact
      <4>6. Honest(t) => Steady(t)
        BY <4>5, HonestSteady
      <4>7. Honest(t) => t.closed /\ RemBufLen(v) = 0 /\ v.cur >= t.sent
        BY <3>4, <3>5, <3>10, <4>1, <4>3, <4>5, <4>6, NothingGiven
      <4>8. PICK x : x = SetPastEnd(v)
        OBVIOUS
      <4>9. Steady(v) /\ v.kind = "file" /\ v.opt.eof = "reset" => RemBufLen(v) = 0 /\ v.cur >= v.sent
        BY <4>4, <4>7 DEF Honest
      <4>10. Fit(x) /\ SameSource(v, x) /\ At(x) = At(v)
        BY <4>4, <4>8, <4>9, WithPast DEF SetPastEnd
      <4>11. SameSource(t, x)
        BY <4>4, <4>10, SourceOfSource
      <4>12. Going(t, n, x, reset)
        BY <4>2, <4>3, <4>10, <4>11 DEF Going
      <4>13. v.cur \in Nat
        BY <4>4 DEF Fit, Buffered, Streams
      <4>14. Honest(t) => At(x) >= t.sent
        BY <4>7, <4>10, <4>13 DEF At
      <4>15. Told(t, x)
        BY <4>7, <4>14 DEF Told
      <4>16. Sound(t, n, ReportEnd(x, arg, reset), "get")
        BY <4>12, <4>15, Reported
      <4> QED BY <3>3, <3>10, <4>3, <4>8, <4>16 DEF DeliverByte
    <3> QED BY <3>6, <3>8, <3>9, <3>10
  <2> QED BY <2>2, <2>3
<1> QED BY <1>1, <1>2

(* get_n_chars: what it has read is the next units, and the program past them. *)
Accumulated(t, n, r) ==
  /\ Fit(r.s) /\ SameSource(t, r.s) /\ r.reset = FALSE /\ r.res # "spin"
  /\ r.got # <<>> => r.got \in Seq(1 .. Size) /\ r.got[Len(r.got)] \in Nat
  /\ Steady(t) => IF r.got = <<>> THEN At(r.s) \in Resume(t.opt.type, n)
                  ELSE Units(t, n, r.got) /\ At(r.s) = r.got[Len(r.got)]
  /\ r.end /\ ~r.waits => Told(t, r.s)

(* What was read so far may be delivered. *)
LEMMA AccumulatedSound ==
  ASSUME NEW t, NEW n, NEW r, Accumulated(t, n, r)
  PROVE  Sound(t, n, r, "get")
BY ResumeHere DEF Accumulated, Sound, From

(* The recursive function of get_n_chars, unfolded for the counts StreamNext takes. *)
LEMMA UpToTwo ==
  ASSUME NEW n \in 1 .. 2, NEW o, ~o.waits, ~o.bad, NEW b, b = Outcome(o.s, "true", <<>>, FALSE, FALSE)
  PROVE  ReadUnits(o, n) = IF n = 1 THEN AddUnit(b) ELSE AddUnit(AddUnit(b))
<1> DEFINE f == [i \in 0 .. n |-> IF i = 0 THEN b ELSE IF i = 1 THEN AddUnit(b) ELSE AddUnit(AddUnit(b))]
           g == CHOOSE h : h = [i \in 0 .. n |-> IF i = 0 THEN b ELSE AddUnit(h[i - 1])]
<1>1. f = [i \in 0 .. n |-> IF i = 0 THEN b ELSE AddUnit(f[i - 1])]
  <2>1. f[0] = b /\ f[1] = AddUnit(b)
    OBVIOUS
  <2>2. ASSUME NEW i \in 0 .. n PROVE f[i] = IF i = 0 THEN b ELSE AddUnit(f[i - 1])
    <3>1. CASE i = 0
      BY <2>1, <3>1
    <3>2. CASE i = 1
      <4>1. i - 1 = 0
        BY <3>2
      <4> QED BY <2>1, <3>2, <4>1
    <3>3. CASE i = 2
      <4>1. i - 1 = 1
        BY <3>3
      <4>2. f[i] = AddUnit(AddUnit(b))
        BY <3>3
      <4> QED BY <2>1, <3>3, <4>1, <4>2
    <3> QED BY <3>1, <3>2, <3>3
  <2> QED BY <2>2
<1>2. g = [i \in 0 .. n |-> IF i = 0 THEN b ELSE AddUnit(g[i - 1])]
  BY <1>1
<1>3. ReadUnits(o, n) = g[n]
  BY DEF ReadUnits
<1> HIDE DEF g
<1>4. g[0] = b
  BY <1>2
<1>5. g[1] = AddUnit(g[0])
  BY <1>2
<1>6. n = 2 => g[2] = AddUnit(g[1])
  BY <1>2
<1>7. CASE n = 1
  BY <1>3, <1>4, <1>5, <1>7
<1>8. CASE n = 2
  BY <1>3, <1>4, <1>5, <1>6, <1>8
<1>9. n = 1 \/ n = 2
  OBVIOUS
<1> QED BY <1>7, <1>8, <1>9

(* One more unit. *)
LEMMA AnotherUnit ==
  ASSUME NEW t, Fit(t), NEW n \in Nat, NEW r, Accumulated(t, n, r)
  PROVE  Accumulated(t, n, AddUnit(r))
<1>1. CASE r.res # "true" \/ r.end \/ r.waits
  BY <1>1 DEF AddUnit
<1>2. CASE ~(r.res # "true" \/ r.end \/ r.waits)
  <2>1. PICK u, got : u = r.s /\ got = r.got
    OBVIOUS
  <2>2. PICK v : v = Unit(u)
    OBVIOUS
  <2>3. PICK q : q = got \o v.got
    OBVIOUS
  <2>4. PICK res : res = IF v.out = "bad" THEN "error" ELSE "true"
    OBVIOUS
  <2>5. PICK a : a = [s |-> v.s, waits |-> v.waits, got |-> q, reset |-> FALSE, res |-> res, end |-> v.out = "none"]
    OBVIOUS
  <2>6. AddUnit(r) = a
    BY <1>2, <2>1, <2>2, <2>3, <2>4, <2>5 DEF AddUnit, Appended
  <2>7. Fit(u) /\ SameSource(t, u) /\ u.opt = t.opt /\ t.opt.type \in {"text", "binary"}
    BY <2>1 DEF Accumulated, SameSource, Fit, Buffered, Streams, Options
  <2>8. Passed(u, v)
    BY <2>2, <2>7, ReadingChar, ReadingByte DEF Unit
  <2>9. Fit(v.s) /\ SameStream(u, v.s) /\ Gave(u, v) /\ (Steady(u) => At(v.s) = At(u) + Len(v.got))
    BY <2>8 DEF Passed
  <2>10. SameSource(t, v.s) /\ (Steady(u) <=> Steady(t))
    BY <2>7, <2>9, StreamSource, SourceOfSource, SourceFacts
  <2>11. a.s = v.s /\ a.waits = v.waits /\ a.got = q /\ a.reset = FALSE /\ a.res # "spin" /\ a.end = (v.out = "none")
    BY <2>4, <2>5
  <2>12. CASE v.out # "char"
    <3>1. v.got = <<>>
      BY <2>9, <2>12 DEF Gave
    <3>2. q = got
      <4>1. CASE got = <<>>
        BY <2>3, <3>1, <4>1
      <4>2. CASE got # <<>>
        <5>1. got \in Seq(1 .. Size)
          BY <2>1, <4>2 DEF Accumulated
        <5> QED BY <2>3, <3>1, <5>1
      <4> QED BY <4>1, <4>2
    <3>3. At(u) \in Int
      BY <2>7, BufferFacts DEF Fit
    <3>4. Steady(t) => At(v.s) = At(u)
      BY <2>9, <2>10, <3>1, <3>3
    <3>5. ASSUME v.out = "none", ~v.waits PROVE Told(t, v.s)
      <4>1. ASSUME Honest(t) PROVE t.closed /\ (Intact(t) => At(v.s) >= t.sent)
        <5>1. t.closed
          BY <2>7, <2>9, <2>12, <3>5, <4>1, NothingGiven, HonestSteady
        <5>2. ASSUME Intact(t) PROVE At(v.s) >= t.sent
          <6>1. Steady(t)
            BY <4>1, <5>2, HonestSteady
          <6>2. RemBufLen(v.s) = 0 /\ v.s.cur >= t.sent
            BY <2>7, <2>9, <2>12, <3>5, <4>1, <5>2, <6>1, NothingGiven
          <6>3. v.s.cur \in Nat
            BY <2>9 DEF Fit, Buffered, Streams
          <6> QED BY <6>2, <6>3 DEF At
        <5> QED BY <5>1, <5>2
      <4> QED BY <4>1 DEF Told
    <3>6. /\ got # <<>> => got \in Seq(1 .. Size) /\ got[Len(got)] \in Nat
          /\ Steady(t) => IF got = <<>> THEN At(u) \in Resume(t.opt.type, n)
                          ELSE Units(t, n, got) /\ At(u) = got[Len(got)]
      BY <2>1 DEF Accumulated
    <3> QED BY <2>6, <2>9, <2>10, <2>11, <3>2, <3>4, <3>5, <3>6 DEF Accumulated
  <2>13. CASE v.out = "char"
    <3>1. PICK g \in Seq(1 .. Size), l \in Nat : g = v.got /\ l = Len(g) /\ l >= 1 /\ g # <<>>
      <4>1. v.got \in Seq(1 .. Size) /\ Len(v.got) \in Nat /\ Len(v.got) >= 1
        BY <2>9, <2>13 DEF Gave
      <4> QED BY <4>1
    <3>2. a.end = FALSE
      BY <2>11, <2>13
    <3>3. ASSUME Steady(t)
          PROVE  /\ Consecutive(g, At(u)) /\ At(u) \in Nat /\ At(v.s) = At(u) + l
                 /\ t.opt.type = "text" => OneCharacter(At(u), l)
      BY <2>7, <2>9, <2>10, <2>13, <3>1, <3>3 DEF Gave
    <3>4. CASE got = <<>>
      <4>1. q = g
        BY <2>3, <3>1, <3>4
      <4>2. g[Len(g)] \in Nat
        <5>1. l \in 1 .. Len(g)
          BY <3>1
        <5>2. g[l] \in 1 .. Size /\ Size \in Nat
          BY <5>1, InSequence, ByteFacts
        <5> QED BY <3>1, <5>2
      <4>3. ASSUME Steady(t) PROVE Units(t, n, g) /\ At(v.s) = g[Len(g)]
        <5>1. At(u) \in Resume(t.opt.type, n)
          BY <2>1, <3>4, <4>3 DEF Accumulated
        <5> QED BY <3>1, <3>3, <4>3, <5>1, UnitsAt
      <4> QED BY <2>6, <2>9, <2>10, <2>11, <3>1, <3>2, <4>1, <4>2, <4>3 DEF Accumulated
    <3>5. CASE got # <<>>
      <4>1. got \in Seq(1 .. Size) /\ got[Len(got)] \in Nat
        BY <2>1, <3>5 DEF Accumulated
      <4>2. PICK k \in Nat : k = Len(got) /\ k >= 1
        <5>1. Len(got) \in Nat /\ Len(got) # 0
          BY <3>5, <4>1
        <5> QED BY <5>1
      <4>3. q \in Seq(1 .. Size) /\ Len(q) = k + l
        BY <2>3, <3>1, <4>1, <4>2, Joined
      <4>4. q # <<>> /\ q[1] = got[1] /\ q[k + l] = g[l]
        BY <2>3, <3>1, <4>1, <4>2, <4>3
      <4>5. q[Len(q)] \in Nat
        <5>1. k + l \in 1 .. Len(q)
          BY <4>2, <4>3
        <5>2. q[k + l] \in 1 .. Size /\ Size \in Nat
          BY <4>3, <5>1, InSequence, ByteFacts
        <5> QED BY <4>3, <5>2
      <4>6. ASSUME Steady(t) PROVE Units(t, n, q) /\ At(v.s) = q[Len(q)]
        <5>1. Units(t, n, got) /\ At(u) = got[k]
          BY <2>1, <3>5, <4>2, <4>6 DEF Accumulated
        <5>2. PICK b \in Nat : b = got[1] /\ b \in 1 .. Size
          <6>1. 1 \in 1 .. Len(got)
            BY <4>2
          <6>2. got[1] \in 1 .. Size /\ Size \in Nat
            BY <4>1, <6>1, InSequence, ByteFacts
          <6> QED BY <6>2
        <5>3. Consecutive(got, b - 1) /\ b - 1 \in Resume(t.opt.type, n)
          BY <5>1, <5>2 DEF Units
        <5>4. got[k] = b - 1 + k
          BY <4>2, <5>2, <5>3 DEF Consecutive
        <5>5. Consecutive(g, b - 1 + k)
          BY <3>3, <4>6, <5>1, <5>4
        <5>6. Consecutive(q, b - 1)
          <6>1. PICK at \in Int : at = b - 1
            BY <5>2
          <6>2. Consecutive(got, at) /\ Consecutive(g, at + Len(got))
            BY <4>2, <5>3, <5>5, <6>1
          <6>3. Consecutive(got \o g, at)
            BY <4>1, <6>2, ConsecutiveJoined
          <6> QED BY <2>3, <3>1, <6>1, <6>3
        <5>7. g[l] = At(u) + l
          BY <3>1, <3>3, <4>6 DEF Consecutive
        <5>8. t.opt.type = "text" => Whole(q[Len(q)])
          BY <3>3, <4>3, <4>4, <4>6, <5>7 DEF OneCharacter
        <5>9. At(v.s) = q[Len(q)]
          BY <3>3, <4>3, <4>4, <4>6, <5>7
        <5> QED BY <4>4, <5>2, <5>3, <5>6, <5>8, <5>9 DEF Units
      <4> QED BY <2>6, <2>9, <2>10, <2>11, <3>2, <4>3, <4>4, <4>5, <4>6 DEF Accumulated
    <3> QED BY <3>4, <3>5
  <2> QED BY <2>12, <2>13
<1> QED BY <1>1, <1>2

(* get_n_chars/3. *)
LEMMA GetNCharsSound ==
  ASSUME NEW t, Fit(t), NEW n \in Nat, Steady(t) => At(t) \in Resume(t.opt.type, n), NEW m \in 1 .. 2
  PROVE  Sound(t, n, GetNChars(t, m), "get")
<1>1. PICK o : o = IF t.opt.type = "binary" THEN [s |-> t, waits |-> FALSE, bad |-> FALSE] ELSE OpenParsing(t)
  OBVIOUS
<1>2. GetNChars(t, m) = ReadUnits(o, m)
  BY <1>1 DEF GetNChars
<1>3. t.opt.type \in {"text", "binary"}
  BY DEF Fit, Buffered, Streams, Options
<1>4. Fit(o.s) /\ SameSource(t, o.s) /\ (Steady(t) => At(o.s) \in Resume(t.opt.type, n))
  <2>1. CASE t.opt.type = "binary"
    BY <1>1, <2>1 DEF SameSource
  <2>2. CASE t.opt.type = "text"
    <3>1. Opened(t, o)
      BY <1>1, <2>2, Opening
    <3> QED BY <2>2, <3>1, StreamSource DEF Opened
  <2> QED BY <1>3, <2>1, <2>2
<1>5. Going(t, n, o.s, FALSE)
  BY <1>4 DEF Going, From
<1>6. CASE o.waits
  BY <1>2, <1>6, Blocks DEF ReadUnits
<1>7. CASE ~o.waits /\ o.bad
  <2>1. ReadUnits(o, m) = Outcome(o.s, "error", <<>>, FALSE, FALSE) /\ "error" # "spin"
    BY <1>7 DEF ReadUnits
  <2> QED BY <1>2, <1>5, <2>1, Ended
<1>8. CASE ~o.waits /\ ~o.bad
  <2>1. PICK b : b = Outcome(o.s, "true", <<>>, FALSE, FALSE)
    OBVIOUS
  <2>2. Accumulated(t, n, b)
    BY <1>4, <2>1 DEF Accumulated, Outcome
  <2>3. Accumulated(t, n, AddUnit(b))
    BY <2>2, AnotherUnit
  <2>4. Accumulated(t, n, AddUnit(AddUnit(b)))
    BY <2>3, AnotherUnit
  <2>5. ReadUnits(o, m) = IF m = 1 THEN AddUnit(b) ELSE AddUnit(AddUnit(b))
    BY <1>8, <2>1, UpToTwo
  <2> QED BY <1>2, <2>3, <2>4, <2>5, AccumulatedSound
<1> QED BY <1>6, <1>7, <1>8

-----------------------------------------------------------------------------
(* Steps.                                                                  *)

(* When the program is past everything that was sent, no unit is unread. *)
LEMMA NothingUnread ==
  ASSUME NEW t, NEW n \in Nat, NEW at, at \in Resume(t.opt.type, n), t.sent \in Nat, at >= t.sent
  PROVE  Unread(t, n) = {}
<1>1. /\ at \in Nat /\ n <= at /\ \A i \in n + 1 .. at : Bytes[i].bom
      /\ at # n => t.opt.type = "text"
  BY ResumeAfter
<1>2. ASSUME NEW m \in n + 1 .. t.sent, t.opt.type = "binary" \/ (Whole(m) /\ ~Bytes[m].bom)
      PROVE  FALSE
  <2>1. m \in n + 1 .. at /\ at # n
    BY <1>1
  <2> QED BY <1>1, <1>2, <2>1
<1> QED BY <1>2 DEF Unread

(* A sound outcome preserves the invariant. *)
LEMMA StepOf ==
  ASSUME ReaderInv, NEW op, op # "position", NEW o, NEW reads, op = "get" <=> reads,
         Sound(s, next, o, op), Does(op, o, reads)
  PROVE  ReaderInv'
<1>1. Fit(s) /\ next \in Nat /\ (s.opt.reposition => s.kind = "file")
  BY DEF ReaderInv
<1>2. /\ s' = o.s /\ ~o.waits
      /\ next' = IF op = "get" /\ o.got # <<>> THEN o.got[Len(o.got)] ELSE From(next, o.reset)
      /\ last'.op = op /\ last'.got = o.got /\ last'.end = o.end /\ last'.res = o.res
      /\ last'.past = s.past /\ last'.from = From(next, o.reset)
  BY DEF Does, From
<1>3. /\ Fit(s') /\ SameSource(s, s') /\ o.reset \in BOOLEAN
      /\ o.got # <<>> /\ op = "get" => o.got[Len(o.got)] \in Nat
      /\ Steady(s) /\ o.got # <<>> /\ ~(op = "peek_byte" /\ s.kind = "tcp") =>
            Units(s, From(next, o.reset), o.got)
      /\ Steady(s) => At(s') \in Resume(s.opt.type, next')
      /\ o.end => Told(s, s')
      /\ o.res = "spin" => Hopeless(s)
  BY <1>2 DEF Sound
<1>4. next' \in Nat /\ From(next, o.reset) \in Nat
  BY <1>1, <1>2, <1>3 DEF From
<1>5. /\ Steady(s') <=> Steady(s)
      /\ Intact(s') <=> Intact(s)
      /\ s'.opt = s.opt /\ s'.kind = s.kind /\ s'.sent = s.sent /\ s'.closed = s.closed
  BY <1>3, SourceFacts DEF SameSource
<1>6. Followed'
  BY <1>3, <1>5 DEF Followed
<1>7. EndedRight'
  BY <1>2, <1>3, <1>5 DEF EndedRight, Told, Honest
<1>8. Spun' /\ ReadsReturn'
  BY <1>2, <1>3, <1>5 DEF Spun, ReadsReturn, Hopeless, Resettable, Honest
<1>9. ReadsExactly'
  <2>1. ASSUME Steady(s'), o.got # <<>>, ~(op = "peek_byte" /\ s'.kind = "tcp")
        PROVE  /\ \A i \in 1 .. Len(o.got) - 1 : o.got[i + 1] = o.got[i] + 1
               /\ o.got[1] - 1 \in Resume(s'.opt.type, From(next, o.reset))
               /\ s'.opt.type = "text" => Whole(o.got[Len(o.got)])
    <3>1. Units(s, From(next, o.reset), o.got)
      BY <1>3, <1>5, <2>1
    <3>2. PICK y \in Nat : y = o.got[1] - 1
      BY <1>4, <3>1, ResumeAfter DEF Units
    <3>3. Consecutive(o.got, y)
      BY <3>1, <3>2 DEF Units
    <3>4. ASSUME NEW i \in 1 .. Len(o.got) - 1 PROVE o.got[i + 1] = o.got[i] + 1
      BY <3>3, <3>4 DEF Consecutive
    <3> QED BY <1>5, <3>1, <3>4 DEF Units
  <2>2. ASSUME o.end, ~s.past, Honest(s'), Intact(s') PROVE Unread(s', next') = {}
    <3>1. Steady(s')
      BY <1>3, <2>2, HonestSteady
    <3>2. At(s') >= s'.sent
      BY <1>3, <1>5, <2>2 DEF Told, Honest
    <3>3. At(s') \in Resume(s'.opt.type, next')
      BY <1>3, <1>5, <3>1
    <3>4. s'.sent \in Nat
      BY <1>3, ByteFacts DEF Fit, Buffered, Streams
    <3> QED BY <1>4, <3>2, <3>3, <3>4, NothingUnread
  <2> QED BY <1>2, <2>1, <2>2 DEF ReadsExactly, Honest
<1> QED BY <1>1, <1>3, <1>4, <1>5, <1>6, <1>7, <1>8, <1>9 DEF ReaderInv

(* The input predicates. *)
LEMMA InputStep ==
  ASSUME ReaderInv,
         \/ \E arg \in Args :
              \/ GetByteStep(arg) \/ PeekByteStep(arg)
              \/ PeekCharStep(arg) \/ PeekCodeStep(arg)
              \/ GetCharStep(arg) \/ GetCodeStep(arg)
         \/ \E n \in 1 .. 2 : GetNCharsStep(n)
  PROVE  ReaderInv'
<1>1. Fit(s) /\ next \in Nat /\ (Steady(s) => At(s) \in Resume(s.opt.type, next))
  BY DEF ReaderInv, Followed
<1>2. \A type : Entered(s, type, Entry(s, type))
  BY <1>1, Entering
<1>3. ASSUME NEW arg \in Args, GetByteStep(arg) PROVE ReaderInv'
  <2>1. Sound(s, next, GetByte(Entry(s, "binary"), arg), "get")
    BY <1>1, <1>2, GetByteSound
  <2> QED BY <1>3, <2>1, StepOf DEF GetByteStep
<1>4. ASSUME NEW arg \in Args, PeekByteStep(arg) PROVE ReaderInv'
  <2>1. Sound(s, next, PeekByteOp(Entry(s, "binary"), arg), "peek_byte")
    BY <1>1, <1>2, PeekByteSound
  <2> QED BY <1>4, <2>1, StepOf DEF PeekByteStep
<1>5. ASSUME NEW arg \in Args, PeekCharStep(arg) PROVE ReaderInv'
  <2>1. Sound(s, next, PeekCharOp(Entry(s, "text"), arg), "peek")
    BY <1>1, <1>2, PeekCharSound
  <2> QED BY <1>5, <2>1, StepOf DEF PeekCharStep
<1>6. ASSUME NEW arg \in Args, PeekCodeStep(arg) PROVE ReaderInv'
  <2>1. Sound(s, next, PeekCodeOp(Entry(s, "text"), arg), "peek")
    BY <1>1, <1>2, PeekCodeSound
  <2> QED BY <1>6, <2>1, StepOf DEF PeekCodeStep
<1>7. ASSUME NEW arg \in Args, GetCharStep(arg) PROVE ReaderInv'
  <2>1. Sound(s, next, GetChar(Entry(s, "text"), arg), "get")
    BY <1>1, <1>2, GetCharSound
  <2> QED BY <1>7, <2>1, StepOf DEF GetCharStep
<1>8. ASSUME NEW arg \in Args, GetCodeStep(arg) PROVE ReaderInv'
  <2>1. Sound(s, next, GetCode(Entry(s, "text"), arg), "get")
    BY <1>1, <1>2, GetCodeSound
  <2> QED BY <1>8, <2>1, StepOf DEF GetCodeStep
<1>9. ASSUME NEW n \in 1 .. 2, GetNCharsStep(n) PROVE ReaderInv'
  <2>1. Sound(s, next, GetNChars(s, n), "get")
    BY <1>1, GetNCharsSound
  <2> QED BY <1>9, <2>1, StepOf DEF GetNCharsStep
<1> QED BY <1>3, <1>4, <1>5, <1>6, <1>7, <1>8, <1>9

(* set_stream_position/2. *)
LEMMA SeekStep ==
  ASSUME ReaderInv, NEW p \in 0 .. Size + 1, SetPositionStep(p)
  PROVE  ReaderInv'
<1>1. /\ Fit(s) /\ s.kind = "file" /\ s.opt.reposition /\ (p > s.sent \/ Whole(p))
      /\ s' = [s EXCEPT !.cur = p, !.buf = <<>>, !.pos = 0, !.past = p > s.sent]
      /\ next' = p /\ last' = [NoOutcome EXCEPT !.op = "seek"]
  BY DEF ReaderInv, SetPositionStep, SetPosition
<1>2. p \in Nat /\ s \in Buffered /\ s \in Streams /\ s.sent \in Nat
  BY <1>1, ByteFacts DEF Fit, Buffered, Streams
<1>3. PICK u : u = s'
  OBVIOUS
<1>4. /\ u.buf = <<>> /\ u.pos = 0 /\ u.cur = p /\ (u.past <=> p > s.sent)
      /\ u.kind = s.kind /\ u.opt = s.opt /\ u.sent = s.sent /\ u.closed = s.closed
      /\ u \in Streams
  <2>1. PICK b \in BOOLEAN : b = (p > s.sent)
    <3>1. CASE p > s.sent
      <4>1. (p > s.sent) = TRUE
        BY <3>1
      <4> QED BY <4>1
    <3>2. CASE ~(p > s.sent)
      <4>1. (p > s.sent) = FALSE
        BY <3>2
      <4> QED BY <4>1
    <3> QED BY <3>1, <3>2
  <2>2. PICK q : q = <<>> /\ q \in Seq(1 .. Size)
    <3>1. <<>> \in Seq(1 .. Size)
      OBVIOUS
    <3> QED BY <3>1
  <2>3. u = [s EXCEPT !.cur = p, !.buf = q, !.pos = 0, !.past = b]
    BY <1>1, <1>3, <2>1, <2>2
  <2>4. /\ u \in Streams /\ u.buf = q /\ u.pos = 0 /\ u.cur = p /\ u.past = b
        /\ u.kind = s.kind /\ u.opt = s.opt /\ u.sent = s.sent /\ u.closed = s.closed
    <3>1. q \in Seq(1 .. Size)
      BY <2>2
    <3> QED BY <1>2, <2>3, <3>1 DEF Streams
  <2> QED BY <2>1, <2>2, <2>4
<1>5. u \in Buffered /\ RemBufLen(u) = 0 /\ At(u) = p
  BY <1>2, <1>4, ByteFacts DEF Buffered, RemBufLen, At
<1>6. Consecutive(Rest(u), p)
  <2>1. Len(Rest(u)) = 0
    BY <1>5, BufferFacts
  <2> QED BY <2>1 DEF Consecutive
<1>7. InStep(u) /\ Drained(u)
  <2>1. p <= u.sent => Whole(p)
    BY <1>1, <1>2, <1>4
  <2>2. u.past => p >= u.sent
    BY <1>2, <1>4
  <2> QED BY <1>1, <1>2, <1>4, <1>5, <1>6, <2>1, <2>2 DEF InStep, Drained
<1>8. Fit(u)
  BY <1>1, <1>4, <1>5, <1>7 DEF Fit
<1>9. last'.end = FALSE /\ last'.got = <<>> /\ last'.res = "true" /\ last'.op = "seek"
  BY <1>1 DEF NoOutcome
<1>10. Followed'
  BY <1>1, <1>3, <1>5, ResumeHere DEF Followed
<1>11. EndedRight' /\ Spun' /\ ReadsReturn' /\ ReadsExactly'
  BY <1>9 DEF EndedRight, Spun, ReadsReturn, ReadsExactly
<1> QED BY <1>1, <1>2, <1>3, <1>4, <1>8, <1>10, <1>11 DEF ReaderInv

(* stream_property/2 with position(P) or end_of_stream(E). *)
LEMMA AskStep ==
  ASSUME ReaderInv, PropertyStep
  PROVE  ReaderInv'
<1>1. /\ Fit(s) /\ next \in Nat /\ (s.opt.reposition => s.kind = "file") /\ Followed
      /\ s' = NoteEnd(s) /\ next' = next
      /\ last' = [NoOutcome EXCEPT !.op = "position", !.from = Position(s), !.past = s.past]
  BY DEF ReaderInv, PropertyStep
<1>2. Fit(s') /\ SameSource(s, s') /\ At(s') = At(s)
  BY <1>1, Noting
<1>3. (Steady(s') <=> Steady(s)) /\ s'.opt = s.opt /\ s'.kind = s.kind
  BY <1>2, SourceFacts DEF SameSource
<1>4. /\ last'.end = FALSE /\ last'.got = <<>> /\ last'.res = "true" /\ last'.op = "position"
      /\ last'.from = Position(s)
  BY <1>1 DEF NoOutcome
<1>5. Followed'
  BY <1>1, <1>2, <1>3 DEF Followed
<1>6. EndedRight' /\ Spun' /\ ReadsReturn'
  BY <1>4 DEF EndedRight, Spun, ReadsReturn
<1>7. ReadsExactly'
  <2>1. ASSUME Steady(s'), s'.kind = "file" PROVE Position(s) \in Resume(s'.opt.type, next')
    BY <1>1, <1>3, <2>1, FilePosition DEF Followed
  <2> QED BY <1>4, <2>1 DEF ReadsExactly
<1> QED BY <1>1, <1>2, <1>3, <1>5, <1>6, <1>7 DEF ReaderInv

(* More arrives, from the peer or from a write to a memory stream. *)
LEMMA Growing ==
  ASSUME ReaderInv, NEW n \in Nat, s.kind # "file", s.kind # "http", s.sent + n <= Size,
         Honest(s) => ~s.closed,
         s' = [s EXCEPT !.sent = @ + n], next' = next, last' = last
  PROVE  ReaderInv'
<1>1. /\ Fit(s) /\ next \in Nat /\ (s.opt.reposition => s.kind = "file")
      /\ Followed /\ EndedRight /\ Spun /\ ReadsExactly /\ ReadsReturn
  BY DEF ReaderInv
<1>2. s \in Buffered /\ s \in Streams
  BY <1>1 DEF Fit, Buffered
<1>3. /\ s.sent \in Nat /\ s.cur \in Nat /\ RemBufLen(s) \in Nat /\ At(s) \in Int
      /\ At(s) = s.cur - RemBufLen(s) /\ Size \in Nat
  <2>1. s.sent \in 0 .. Size /\ Size \in Nat
    BY <1>2, BufferFacts
  <2> QED BY <1>2, <2>1, BufferFacts
<1>4. PICK u : u = s'
  OBVIOUS
<1>5. /\ u.buf = s.buf /\ u.pos = s.pos /\ u.cur = s.cur /\ u.past = s.past
      /\ u.kind = s.kind /\ u.opt = s.opt /\ u.sent = s.sent + n /\ u.closed = s.closed
      /\ u \in Streams
  <2>1. s.sent + n \in 0 .. Size
    BY <1>3
  <2> QED BY <1>2, <1>4, <2>1 DEF Streams
<1>6. RemBufLen(u) = RemBufLen(s) /\ At(u) = At(s) /\ Rest(u) = Rest(s)
  BY <1>5 DEF RemBufLen, At, Rest
<1>7. Steady(u) <=> Steady(s)
  BY <1>5 DEF Steady
<1>8. ASSUME Steady(s) PROVE InStep(u) /\ Drained(u)
  <2>1. InStep(s)
    BY <1>1, <1>8 DEF Fit
  <2>2. s.cur <= s.sent /\ At(s) <= s.sent
    BY <1>3, <2>1 DEF InStep
  <2>3. u.cur <= u.sent
    BY <1>3, <1>5, <2>2
  <2> QED BY <1>5, <1>6, <2>1, <2>2, <2>3 DEF InStep, Drained
<1>9. Fit(u)
  BY <1>1, <1>2, <1>5, <1>7, <1>8 DEF Fit, Buffered
<1>10. Followed'
  BY <1>1, <1>4, <1>5, <1>6, <1>7 DEF Followed
<1>11. EndedRight' /\ Spun'
  BY <1>1, <1>4, <1>5 DEF EndedRight, Spun, Resettable
<1>12. ReadsReturn'
  BY <1>1, <1>4, <1>5 DEF ReadsReturn, Spun, Resettable
<1>13. ReadsExactly'
  <2>1. ~(last.end /\ ~last.past /\ s.kind \notin {"byte", "channel"})
    BY <1>1 DEF EndedRight, Honest
  <2> QED BY <1>1, <1>4, <1>5, <1>7, <2>1 DEF ReadsExactly
<1> QED BY <1>1, <1>4, <1>5, <1>9, <1>10, <1>11, <1>12, <1>13 DEF ReaderInv

(* The peer hangs up. *)
LEMMA HangUpStep ==
  ASSUME ReaderInv, Disconnect
  PROVE  ReaderInv'
<1>1. /\ Fit(s) /\ next \in Nat /\ (s.opt.reposition => s.kind = "file")
      /\ Followed /\ EndedRight /\ Spun /\ ReadsExactly /\ ReadsReturn
      /\ s' = [s EXCEPT !.closed = TRUE] /\ next' = next /\ last' = last
  BY DEF ReaderInv, Disconnect
<1>2. s \in Buffered /\ s \in Streams
  BY <1>1 DEF Fit, Buffered
<1>3. PICK u : u = s'
  OBVIOUS
<1>4. /\ u.buf = s.buf /\ u.pos = s.pos /\ u.cur = s.cur /\ u.past = s.past
      /\ u.kind = s.kind /\ u.opt = s.opt /\ u.sent = s.sent /\ u.closed
      /\ u \in Streams
  BY <1>1, <1>2, <1>3 DEF Streams
<1>5. RemBufLen(u) = RemBufLen(s) /\ At(u) = At(s) /\ Rest(u) = Rest(s)
  BY <1>4 DEF RemBufLen, At, Rest
<1>6. (Steady(u) <=> Steady(s)) /\ (Intact(u) <=> Intact(s)) /\ \A n : Unread(u, n) = Unread(s, n)
  BY <1>4 DEF Steady, Intact, Unread
<1>7. Fit(u)
  BY <1>1, <1>2, <1>4, <1>5, <1>6 DEF Fit, Buffered, InStep, Drained
<1>8. Followed' /\ EndedRight' /\ Spun' /\ ReadsReturn'
  BY <1>1, <1>3, <1>4, <1>5, <1>6 DEF Followed, EndedRight, Spun, Resettable, ReadsReturn
<1>9. ReadsExactly'
  BY <1>1, <1>3, <1>4, <1>6 DEF ReadsExactly
<1> QED BY <1>1, <1>3, <1>4, <1>7, <1>8, <1>9 DEF ReaderInv

(* The stream as it was opened. *)
LEMMA StreamInitInv ==
  ASSUME StreamInit
  PROVE  ReaderInv
<1>1. PICK kind \in Kinds, opt \in Options, sent \in 0 .. Size :
        /\ opt.reposition => kind = "file"
        /\ kind \notin Static => sent = 0
        /\ s = NewStream(kind, opt, sent)
  BY DEF StreamInit
<1>2. next = 0 /\ last = NoOutcome
  BY DEF StreamInit
<1>3. PICK q : q = <<>> /\ q \in Seq(1 .. Size) /\ Len(q) = 0
  <2>1. <<>> \in Seq(1 .. Size) /\ Len(<<>>) = 0
    OBVIOUS
  <2> QED BY <2>1
<1>4. /\ s.kind = kind /\ s.opt = opt /\ s.sent = sent /\ s.closed = (kind \in Static) /\ s.cur = 0
      /\ s.buf = q /\ s.pos = 0 /\ s.past = FALSE
  BY <1>1, <1>3 DEF NewStream
<1>5. s \in Streams
  <2>1. PICK b \in BOOLEAN : b = (kind \in Static)
    <3>1. CASE kind \in Static
      <4>1. (kind \in Static) = TRUE
        BY <3>1
      <4> QED BY <4>1
    <3>2. CASE kind \notin Static
      <4>1. (kind \in Static) = FALSE
        BY <3>2
      <4> QED BY <4>1
    <3> QED BY <3>1, <3>2
  <2>2. s = [kind |-> kind, opt |-> opt, sent |-> sent, closed |-> b,
             cur |-> 0, eof |-> FALSE, buf |-> q, pos |-> 0, past |-> FALSE]
    BY <1>1, <1>3, <2>1 DEF NewStream
  <2>3. q \in Seq(1 .. Size)
    BY <1>3
  <2> QED BY <2>2, <2>3 DEF Streams
<1>6. s \in Buffered /\ RemBufLen(s) = 0 /\ At(s) = 0
  <2>1. Len(s.buf) = 0 /\ s.pos = 0 /\ s.cur = 0 /\ Word \in Nat
    BY <1>3, <1>4, ByteFacts
  <2>2. RemBufLen(s) = 0
    BY <2>1 DEF RemBufLen
  <2> QED BY <1>5, <2>1, <2>2 DEF Buffered, At
<1>7. Consecutive(Rest(s), 0)
  <2>1. Len(Rest(s)) = 0
    BY <1>6, BufferFacts
  <2> QED BY <2>1 DEF Consecutive
<1>8. s.sent \in Nat
  BY <1>4, ByteFacts
<1>9. InStep(s) /\ Drained(s)
  BY <1>4, <1>6, <1>7, <1>8, ByteFacts DEF InStep, Drained
<1>10. Fit(s)
  BY <1>4, <1>6, <1>9 DEF Fit
<1>11. Followed
  BY <1>2, <1>6, ResumeHere DEF Followed
<1>12. last.end = FALSE /\ last.got = <<>> /\ last.res = "true" /\ last.op = "none"
  BY <1>2 DEF NoOutcome
<1>13. EndedRight /\ Spun /\ ReadsReturn /\ ReadsExactly
  BY <1>12 DEF EndedRight, Spun, ReadsReturn, ReadsExactly
<1> QED BY <1>1, <1>2, <1>4, <1>10, <1>11, <1>13 DEF ReaderInv

(* A write to a memory stream. *)
LEMMA WriteStep ==
  ASSUME ReaderInv, NEW n \in Nat, Write(n)
  PROVE  ReaderInv'
<1>1. s.kind = "byte" /\ s.sent + n <= Size /\ s' = [s EXCEPT !.sent = @ + n] /\ next' = next /\ last' = last
  BY DEF Write, Appending
<1>2. ~Honest(s)
  BY <1>1 DEF Honest
<1> QED BY <1>1, <1>2, Growing

(* The output predicates. *)
LEMMA PutStep ==
  ASSUME ReaderInv, PutChar \/ PutCode \/ PutByte \/ \E n \in 1 .. Size : PutChars(n)
  PROVE  ReaderInv'
<1>1. ASSUME PutChar \/ PutCode PROVE ReaderInv'
  <2>1. s.sent < Size /\ Write(Bytes[s.sent + 1].w)
    BY <1>1 DEF PutChar, PutCode
  <2>2. s.sent \in Nat /\ Size \in Nat
    BY ByteFacts DEF ReaderInv, Fit, Buffered, Streams
  <2>3. PICK i \in 1 .. Size : i = s.sent + 1
    BY <2>1, <2>2
  <2>4. Bytes[i].w \in Nat
    BY ByteFacts
  <2> QED BY <2>1, <2>3, <2>4, WriteStep
<1>2. ASSUME PutByte PROVE ReaderInv'
  BY <1>2, WriteStep DEF PutByte
<1>3. ASSUME NEW n \in 1 .. Size, PutChars(n) PROVE ReaderInv'
  <2>1. n \in Nat
    BY ByteFacts
  <2> QED BY <1>3, <2>1, WriteStep DEF PutChars
<1> QED BY <1>1, <1>2, <1>3

(* The peer sends more. *)
LEMMA SendStep ==
  ASSUME ReaderInv, NEW n \in 1 .. 2, Send(n)
  PROVE  ReaderInv'
<1>1. /\ s.kind # "file" /\ s.kind # "http" /\ ~s.closed /\ s.sent + n <= Size
      /\ s' = [s EXCEPT !.sent = @ + n] /\ next' = next /\ last' = last
  BY DEF Send
<1> QED BY <1>1, Growing

(* Every step preserves the invariant. *)
LEMMA ReaderStep ==
  ASSUME ReaderInv, [StreamNext]_streamVars
  PROVE  ReaderInv'
<1>1. ASSUME UNCHANGED streamVars PROVE ReaderInv'
  BY <1>1 DEF streamVars, ReaderInv, Followed, EndedRight, Spun, ReadsExactly, ReadsReturn
<1>2. ASSUME NEW n \in 1 .. 2, Send(n) PROVE ReaderInv'
  BY <1>2, SendStep
<1>3. ASSUME NEW p \in 0 .. Size + 1, SetPositionStep(p) PROVE ReaderInv'
  BY <1>3, SeekStep
<1>4. CASE PutChar \/ PutCode \/ PutByte \/ \E n \in 1 .. Size : PutChars(n)
  BY <1>4, PutStep
<1>5. CASE PropertyStep
  BY <1>5, AskStep
<1>6. CASE Disconnect
  BY <1>6, HangUpStep
<1>7. CASE \/ \E arg \in Args :
                \/ GetByteStep(arg) \/ PeekByteStep(arg)
                \/ PeekCharStep(arg) \/ PeekCodeStep(arg)
                \/ GetCharStep(arg) \/ GetCodeStep(arg)
           \/ \E n \in 1 .. 2 : GetNCharsStep(n)
  BY <1>7, InputStep
<1> QED BY <1>1, <1>2, <1>3, <1>4, <1>5, <1>6, <1>7 DEF StreamNext

(* The stream is well-typed in every reachable state; on the streams whose      *)
(* reader and buffer agree, what CharReader holds is the contents up to the     *)
(* cursor underneath, and starts where the program was last left but for        *)
(* U+FEFFs; the end was reported only of contents that are all there.           *)
THEOREM ReaderInvariant == StreamSpec => []ReaderInv
<1>1. StreamInit => ReaderInv
  BY StreamInitInv
<1>2. ReaderInv /\ [StreamNext]_streamVars => ReaderInv'
  BY ReaderStep
<1> QED BY <1>1, <1>2, PTL DEF StreamSpec

(* Whatever is peeked at, buffered, split between packets, skipped, sought or   *)
(* rewound, get_char, get_code, get_byte and get_n_chars deliver the contents   *)
(* in order and without a gap, the end is reported when nothing whole is left,  *)
(* and a file's position is that of its first unread byte.                      *)
THEOREM ReadsExactlyAlways == StreamSpec => []ReadsExactly
<1>1. ReaderInv => ReadsExactly
  BY DEF ReaderInv
<1> QED BY <1>1, ReaderInvariant, PTL

(* The loop of the peeks and of get_char and get_code, which tries again after  *)
(* a reset, comes to an end on every stream that tells its end as it is and     *)
(* whose contents are whole characters, one at least.                           *)
THEOREM ReadsReturnAlways == StreamSpec => []ReadsReturn
<1>1. ReaderInv => ReadsReturn
  BY DEF ReaderInv
<1> QED BY <1>1, ReaderInvariant, PTL
=============================================================================
