-------------------------- MODULE ExceptionsProofs --------------------------
EXTENDS Exceptions, SequenceTheorems, TLAPS

(*****************************************************************************)
(* Proofs about Exceptions: block is always the catch or the limit the        *)
(* running continuation leaves next, for every set of programs without        *)
(* setup_call_cleanup/3 and stacks of any height; for every program, each     *)
(* cleaner not yet run is on cont_pts once and no other is; and no goal makes *)
(* more counted calls than its inference limit, as long as no limit is called *)
(* after another in one conjunction.                                          *)
(*                                                                            *)
(* One lemma per action shows that it preserves Inv; the lemmas of an action  *)
(* say what changes of the continuation, of the choice points and of the      *)
(* limits, and leave the rest to the lemmas about those.                      *)
(*****************************************************************************)

-----------------------------------------------------------------------------
(* What the machine runs. *)

GoalOps == {"true", "fail", "tick", "throw", "and", "or", "once", "catch", "limit"}

(* A set of goals that call no setup_call_cleanup/3, with the goals they are  *)
(* made of, and the inference that the alternative of a disjunction costs.    *)
Uncleaned(G) ==
  \A g \in G : /\ g.op \in GoalOps
               /\ g.op \in {"and", "or"} => g.g \in G /\ g.h \in G
               /\ g.op \in {"once", "catch", "limit"} => g.g \in G
               /\ g.op = "or" => Atomic("tick") \in G
               /\ g.op = "catch" => g.r \in G
               /\ g.op = "limit" => g.l \in Nat

ExitOps == {"end_block", "limit_exit"}
HandlerOps == {"recover", "limit_retry"}
ReentryOps == {"reenter", "limit_reenter"}

(* The items of a continuation. *)
Cuts == [op : {"cut"}, to : Nat]
EndBlocks == [op : {"end_block"}, bb : Nat, nbb : Nat]
LimitExits == [op : {"limit_exit"}, l : Nat, bb : Nat, nbb : Nat, b : Nat, count : Nat, id : Nat]
Items(G) == G \cup Cuts \cup EndBlocks \cup LimitExits

(* The items only backtracking leads to. *)
Recovers(G) == [op : {"recover"}, bb : Nat, catcher : {g.catcher : g \in G}, r : G]
Retries == [op : {"limit_retry"}, bb : Nat, b : Nat]
Reenters == [op : {"reenter"}, nbb : Nat]
LimitReenters == [op : {"limit_reenter"}, nbb : Nat, l : Int]
HandlerItems(G) == Recovers(G) \cup Retries
ReentryItems == Reenters \cup LimitReenters
AllItems(G) == Items(G) \cup HandlerItems(G) \cup ReentryItems

Frames(G) == [alts : Seq(Seq(AllItems(G))), prev : Nat]
Limitations == [local : Nat, limits : Seq([limit : Int, block : Nat]), exceeded : BOOLEAN]

-----------------------------------------------------------------------------
(* What the choice points say about block.                                    *)
(*                                                                            *)
(* want[a] is the block the frame at a was made under, or makes: the block    *)
(* with which the machine has to fail into it.  It is the frame's own address *)
(* for the frame of a catch or of a limit.  lims are the addresses of limits. *)

(* The block of a handler that frames up to h have not left. *)
InForce(want, e, h) == e \in 1 .. h /\ want[e] = e /\ \A a \in e .. h : want[a] >= e

(* v is in power from item i of a continuation: the first exit leaves v.      *)
Power(kk, i, v) ==
  \/ v = 0 /\ \A j \in i .. Len(kk) : kk[j].op \notin ExitOps
  \/ \E j \in i .. Len(kk) : /\ kk[j].op \in ExitOps /\ kk[j].nbb = v
                             /\ \A m \in i .. (j - 1) : kk[m].op \notin ExitOps

RefOps == ExitOps \cup {"cut"}
Ref(x) == IF x.op = "cut" THEN x.to ELSE x.nbb
Low(x) == IF x.op = "cut" THEN x.to ELSE x.nbb - 1

CutOK(want, kk, i, h) ==
  kk[i].op = "cut" => kk[i].to \in 0 .. h /\ Power(kk, i + 1, want[kk[i].to])
ExitOK(want, lims, kk, i, h) ==
  kk[i].op \in ExitOps =>
    /\ InForce(want, kk[i].nbb, h) /\ kk[i].bb = want[kk[i].nbb - 1] /\ Power(kk, i + 1, kk[i].bb)
    /\ (kk[i].nbb \in lims) <=> (kk[i].op = "limit_exit")
Descending(kk) ==
  \A i, j \in DOMAIN kk : i < j /\ kk[i].op \in RefOps /\ kk[j].op \in RefOps => Ref(kk[j]) <= Low(kk[i])

(* A continuation that runs over the frames up to h. *)
Good(G, want, lims, kk, h) ==
  /\ kk \in Seq(Items(G))
  /\ \A i \in 1 .. Len(kk) : CutOK(want, kk, i, h) /\ ExitOK(want, lims, kk, i, h)
  /\ Descending(kk)

-----------------------------------------------------------------------------
(* Sequences. *)

(* What the tail of a sequence is. *)
LEMMA TailFacts ==
  ASSUME NEW S, NEW s \in Seq(S), s # <<>>
  PROVE  /\ Tail(s) \in Seq(S) /\ Len(s) \in Nat /\ Len(s) >= 1 /\ Len(Tail(s)) = Len(s) - 1
         /\ Head(s) = s[1] /\ Head(s) \in S
         /\ \A i \in 1 .. (Len(s) - 1) : Tail(s)[i] = s[i + 1]
  OBVIOUS

(* What putting an item before a sequence makes. *)
LEMMA ConsFacts ==
  ASSUME NEW S, NEW x \in S, NEW R \in Seq(S)
  PROVE  /\ <<x>> \o R \in Seq(S) /\ <<x>> \o R # <<>> /\ Len(<<x>> \o R) = Len(R) + 1
         /\ (<<x>> \o R)[1] = x /\ Head(<<x>> \o R) = x /\ Tail(<<x>> \o R) = R
         /\ \A i \in 1 .. Len(R) : (<<x>> \o R)[i + 1] = R[i]
<1>1. <<x>> \in Seq(S) /\ Len(<<x>>) = 1
  OBVIOUS
<1>2. <<x>> \o R \in Seq(S) /\ Len(<<x>> \o R) = Len(R) + 1 /\ Len(R) \in Nat
  BY <1>1
<1>3. \A i \in 1 .. Len(R) + 1 : (<<x>> \o R)[i] = IF i = 1 THEN x ELSE R[i - 1]
  BY <1>1
<1>4. <<x>> \o R # <<>>
  BY <1>2
<1>5. (<<x>> \o R)[1] = x /\ \A i \in 1 .. Len(R) : (<<x>> \o R)[i + 1] = R[i]
  BY <1>2, <1>3
<1>6. Tail(<<x>> \o R) = R
  <2> DEFINE T == Tail(<<x>> \o R)
  <2>1. T \in Seq(S) /\ Len(T) = Len(R) /\ \A i \in 1 .. Len(R) : T[i] = (<<x>> \o R)[i + 1]
    BY <1>2, <1>4, TailFacts
  <2>2. \A i \in 1 .. Len(R) : T[i] = R[i]
    BY <2>1, <1>5
  <2> HIDE DEF T
  <2>3. T = R
    BY <2>1, <2>2, SeqEqual
  <2> QED BY <2>3 DEF T
<1> QED BY <1>2, <1>4, <1>5, <1>6

(* Two items before a sequence are put there one after the other. *)
LEMMA TwoCons ==
  ASSUME NEW S, NEW x \in S, NEW y \in S, NEW R \in Seq(S)
  PROVE  <<x, y>> \o R = <<x>> \o (<<y>> \o R)
<1>1. <<x>> \in Seq(S) /\ <<y>> \in Seq(S) /\ <<x, y>> \in Seq(S)
  OBVIOUS
<1>2. <<x>> \o <<y>> = <<x, y>>
  <2>1. Len(<<x>> \o <<y>>) = 2 /\ Len(<<x, y>>) = 2 /\ <<x>> \o <<y>> \in Seq(S)
    BY <1>1
  <2>2. \A i \in 1 .. 2 : (<<x>> \o <<y>>)[i] = <<x, y>>[i]
    BY <1>1
  <2> QED BY <1>1, <2>1, <2>2, SeqEqual
<1>3. (<<x>> \o <<y>>) \o R = <<x>> \o (<<y>> \o R)
  BY <1>1, ConcatAssociative
<1> QED BY <1>2, <1>3

(* What a cut leaves of the frames. *)
LEMMA FrontFacts ==
  ASSUME NEW S, NEW s \in Seq(S), NEW n \in Nat, n <= Len(s)
  PROVE  SubSeq(s, 1, n) \in Seq(S) /\ Len(SubSeq(s, 1, n)) = n /\ \A a \in 1 .. n : SubSeq(s, 1, n)[a] = s[a]
  BY SubSeqProperties

(* A push: what PushFrame does to the frames. *)
LEMMA PushFacts ==
  ASSUME NEW S, NEW s \in Seq(S), NEW n \in Nat, n <= Len(s), NEW f \in S
  PROVE  /\ Append(SubSeq(s, 1, n), f) \in Seq(S) /\ Len(Append(SubSeq(s, 1, n), f)) = n + 1
         /\ \A a \in 1 .. n : Append(SubSeq(s, 1, n), f)[a] = s[a]
         /\ Append(SubSeq(s, 1, n), f)[n + 1] = f
<1>1. SubSeq(s, 1, n) \in Seq(S) /\ Len(SubSeq(s, 1, n)) = n /\ \A a \in 1 .. n : SubSeq(s, 1, n)[a] = s[a]
  BY FrontFacts
<1> DEFINE q == SubSeq(s, 1, n)
<1> HIDE DEF q
<1>2. Append(q, f) \in Seq(S) /\ Len(Append(q, f)) = n + 1
      /\ (\A a \in 1 .. n : Append(q, f)[a] = q[a]) /\ Append(q, f)[n + 1] = f
  BY <1>1 DEF q
<1> QED BY <1>1, <1>2 DEF q

-----------------------------------------------------------------------------
(* Continuations. *)

(* At most one block is in power at an item of a continuation. *)
LEMMA PowerUnique ==
  ASSUME NEW kk, Len(kk) \in Nat, NEW i \in Nat, NEW v, NEW u, Power(kk, i, v), Power(kk, i, u)
  PROVE  u = v
<1>1. CASE \A j \in i .. Len(kk) : kk[j].op \notin ExitOps
  BY <1>1 DEF Power
<1>2. CASE \E j \in i .. Len(kk) : kk[j].op \in ExitOps
  <2>1. PICK j \in i .. Len(kk) : kk[j].op \in ExitOps /\ kk[j].nbb = v
                                  /\ \A m \in i .. (j - 1) : kk[m].op \notin ExitOps
    BY <1>2 DEF Power
  <2>2. PICK n \in i .. Len(kk) : kk[n].op \in ExitOps /\ kk[n].nbb = u
                                  /\ \A m \in i .. (n - 1) : kk[m].op \notin ExitOps
    BY <1>2 DEF Power
  <2>3. ~(j < n) /\ ~(n < j)
    BY <2>1, <2>2
  <2>4. j = n
    BY <2>3
  <2> QED BY <2>1, <2>2, <2>4
<1> QED BY <1>1, <1>2

(* An item that is no exit leaves the block in power as it is. *)
LEMMA PowerNext ==
  ASSUME NEW kk, Len(kk) \in Nat, NEW i \in 1 .. Len(kk), NEW v, kk[i].op \notin ExitOps
  PROVE  Power(kk, i, v) <=> Power(kk, i + 1, v)
<1>1. ASSUME Power(kk, i, v) PROVE Power(kk, i + 1, v)
  <2>1. CASE v = 0 /\ \A j \in i .. Len(kk) : kk[j].op \notin ExitOps
    BY <2>1 DEF Power
  <2>2. CASE \E j \in i .. Len(kk) : /\ kk[j].op \in ExitOps /\ kk[j].nbb = v
                                     /\ \A m \in i .. (j - 1) : kk[m].op \notin ExitOps
    <3>1. PICK j \in i .. Len(kk) : /\ kk[j].op \in ExitOps /\ kk[j].nbb = v
                                    /\ \A m \in i .. (j - 1) : kk[m].op \notin ExitOps
      BY <2>2
    <3>2. j \in (i + 1) .. Len(kk)
      BY <3>1
    <3>3. \A m \in (i + 1) .. (j - 1) : kk[m].op \notin ExitOps
      BY <3>1
    <3> QED BY <3>1, <3>2, <3>3 DEF Power
  <2> QED BY <1>1, <2>1, <2>2 DEF Power
<1>2. ASSUME Power(kk, i + 1, v) PROVE Power(kk, i, v)
  <2>1. CASE v = 0 /\ \A j \in (i + 1) .. Len(kk) : kk[j].op \notin ExitOps
    <3>1. \A j \in i .. Len(kk) : j = i \/ j \in (i + 1) .. Len(kk)
      OBVIOUS
    <3> QED BY <2>1, <3>1 DEF Power
  <2>2. CASE \E j \in (i + 1) .. Len(kk) : /\ kk[j].op \in ExitOps /\ kk[j].nbb = v
                                     /\ \A m \in (i + 1) .. (j - 1) : kk[m].op \notin ExitOps
    <3>1. PICK j \in (i + 1) .. Len(kk) : /\ kk[j].op \in ExitOps /\ kk[j].nbb = v
                                    /\ \A m \in (i + 1) .. (j - 1) : kk[m].op \notin ExitOps
      BY <2>2
    <3>2. \A m \in i .. (j - 1) : m = i \/ m \in (i + 1) .. (j - 1)
      BY <3>1
    <3>3. j \in i .. Len(kk)
      BY <3>1
    <3> QED BY <3>1, <3>2, <3>3 DEF Power
  <2> QED BY <1>2, <2>1, <2>2 DEF Power
<1> QED BY <1>1, <1>2

(* The same continuation, one item on. *)
LEMMA PowerShift ==
  ASSUME NEW kk, NEW R, Len(R) \in Nat, Len(kk) = Len(R) + 1,
         \A i \in 1 .. Len(R) : kk[i + 1] = R[i],
         NEW i \in Nat \ {0}, NEW v
  PROVE  Power(R, i, v) <=> Power(kk, i + 1, v)
<1>1. ASSUME Power(R, i, v) PROVE Power(kk, i + 1, v)
  <2>1. CASE v = 0 /\ \A j \in i .. Len(R) : R[j].op \notin ExitOps
    <3>1. \A j \in (i + 1) .. Len(kk) : j - 1 \in i .. Len(R) /\ kk[(j - 1) + 1] = R[j - 1] /\ (j - 1) + 1 = j
      OBVIOUS
    <3> QED BY <2>1, <3>1 DEF Power
  <2>2. CASE \E j \in i .. Len(R) : /\ R[j].op \in ExitOps /\ R[j].nbb = v
                                    /\ \A m \in i .. (j - 1) : R[m].op \notin ExitOps
    <3>1. PICK j \in i .. Len(R) : /\ R[j].op \in ExitOps /\ R[j].nbb = v
                                    /\ \A m \in i .. (j - 1) : R[m].op \notin ExitOps
      BY <2>2
    <3>2. j + 1 \in (i + 1) .. Len(kk) /\ kk[j + 1] = R[j]
      BY <3>1
    <3>3. \A m \in (i + 1) .. ((j + 1) - 1) : kk[m].op \notin ExitOps
      <4> TAKE m \in (i + 1) .. ((j + 1) - 1)
      <4>1. m - 1 \in i .. (j - 1) /\ m - 1 \in 1 .. Len(R) /\ (m - 1) + 1 = m
        BY <3>1
      <4>2. kk[m] = R[m - 1]
        BY <4>1
      <4> QED BY <4>1, <4>2, <3>1
    <3> QED BY <3>1, <3>2, <3>3 DEF Power
  <2> QED BY <1>1, <2>1, <2>2 DEF Power
<1>2. ASSUME Power(kk, i + 1, v) PROVE Power(R, i, v)
  <2>1. CASE v = 0 /\ \A j \in (i + 1) .. Len(kk) : kk[j].op \notin ExitOps
    <3>1. \A j \in i .. Len(R) : j + 1 \in (i + 1) .. Len(kk) /\ kk[j + 1] = R[j]
      OBVIOUS
    <3> QED BY <2>1, <3>1 DEF Power
  <2>2. CASE \E j \in (i + 1) .. Len(kk) : /\ kk[j].op \in ExitOps /\ kk[j].nbb = v
                                    /\ \A m \in (i + 1) .. (j - 1) : kk[m].op \notin ExitOps
    <3>1. PICK j \in (i + 1) .. Len(kk) : /\ kk[j].op \in ExitOps /\ kk[j].nbb = v
                                    /\ \A m \in (i + 1) .. (j - 1) : kk[m].op \notin ExitOps
      BY <2>2
    <3>2. j - 1 \in i .. Len(R) /\ j - 1 \in 1 .. Len(R) /\ (j - 1) + 1 = j
      BY <3>1
    <3>3. kk[j] = R[j - 1]
      BY <3>2
    <3>4. \A m \in i .. ((j - 1) - 1) : R[m].op \notin ExitOps
      <4> TAKE m \in i .. ((j - 1) - 1)
      <4>1. m + 1 \in (i + 1) .. (j - 1) /\ m \in 1 .. Len(R)
        BY <3>2
      <4> QED BY <4>1, <3>1
    <3> QED BY <3>1, <3>2, <3>3, <3>4 DEF Power
  <2> QED BY <1>2, <2>1, <2>2 DEF Power
<1> QED BY <1>1, <1>2

(* Bounds of addresses. *)
LEMMA Widen ==
  ASSUME NEW h \in Nat, NEW h2 \in Nat, h <= h2, NEW x \in 0 .. h
  PROVE  x \in 0 .. h2
  OBVIOUS

LEMMA Narrow ==
  ASSUME NEW h \in Nat, NEW h1 \in Nat, NEW x \in 0 .. h, x <= h1
  PROVE  x \in 0 .. h1
  OBVIOUS

LEMMA AtMost ==
  ASSUME NEW n \in Int, NEW x, x \in 0 .. n \/ x \in 1 .. n
  PROVE  x <= n
  OBVIOUS

LEMMA Less1 ==
  ASSUME NEW n \in Nat, n >= 1, NEW m, m = n - 1
  PROVE  m \in Nat /\ n = m + 1
  OBVIOUS

LEMMA Strict ==
  ASSUME NEW n \in Nat, NEW m \in Nat, m <= n, m # n
  PROVE  m < n
  OBVIOUS

LEMMA Below ==
  ASSUME NEW n \in Nat, NEW m \in Nat, m = n + 1, NEW x \in Nat, x <= n
  PROVE  x <= m
  OBVIOUS

LEMMA Next1 ==
  ASSUME NEW n \in Nat, NEW m \in Nat, m = n + 1, NEW i \in 1 .. n
  PROVE  i + 1 \in 1 .. m /\ i \in Nat \ {0}
  OBVIOUS

LEMMA IntOf ==
  ASSUME NEW h \in Nat, NEW x, x \in 0 .. h \/ x \in 1 .. h
  PROVE  x \in Int /\ x - 1 \in Int
  OBVIOUS

(* A handler stays in force when choice points above its own are dropped. *)
LEMMA InForceLower ==
  ASSUME NEW want, NEW e, NEW h \in Nat, NEW h1 \in Nat, h1 <= h, InForce(want, e, h), e <= h1
  PROVE  InForce(want, e, h1)
  BY DEF InForce

(* A handler stays in force under more choice points, made under it. *)
LEMMA InForceRaise ==
  ASSUME NEW want \in [Nat -> Nat], NEW e, NEW h \in Nat, NEW h2 \in Nat, h <= h2, InForce(want, e, h),
         \A a \in (h + 1) .. h2 : want[a] >= want[h]
  PROVE  InForce(want, e, h2)
<1>1. e \in 1 .. h /\ want[e] = e /\ \A a \in e .. h : want[a] >= e
  BY DEF InForce
<1>2. want[h] \in Nat /\ want[h] >= e
  BY <1>1
<1>3. \A a \in e .. h2 : want[a] >= e
  <2> TAKE a \in e .. h2
  <2>1. a \in Nat /\ want[a] \in Nat
    BY <1>1
  <2>2. a \in e .. h \/ a \in (h + 1) .. h2
    BY <1>1, <2>1
  <2> QED BY <1>1, <1>2, <2>1, <2>2
<1> QED BY <1>1, <1>3 DEF InForce

(* Being in force depends on the blocks of the choice points only. *)
LEMMA InForceAgree ==
  ASSUME NEW want, NEW want2, NEW e, NEW h \in Nat, InForce(want, e, h), \A a \in 0 .. h : want2[a] = want[a]
  PROVE  InForce(want2, e, h)
<1>1. e \in 1 .. h /\ want[e] = e /\ \A a \in e .. h : want[a] >= e
  BY DEF InForce
<1>2. \A a \in e .. h : a \in 0 .. h
  BY <1>1
<1> QED BY <1>1, <1>2 DEF InForce

(* A continuation can run over more choice points, made under the newest. *)
LEMMA GoodRaise ==
  ASSUME NEW G, NEW want \in [Nat -> Nat], NEW lims, NEW kk, NEW h \in Nat, NEW h2 \in Nat, h <= h2,
         Good(G, want, lims, kk, h), \A a \in (h + 1) .. h2 : want[a] >= want[h]
  PROVE  Good(G, want, lims, kk, h2)
<1> SUFFICES ASSUME NEW i \in 1 .. Len(kk) PROVE CutOK(want, kk, i, h2) /\ ExitOK(want, lims, kk, i, h2)
  BY DEF Good
<1>1. CutOK(want, kk, i, h) /\ ExitOK(want, lims, kk, i, h)
  BY DEF Good
<1>2. CutOK(want, kk, i, h2)
  <2>1. CASE kk[i].op = "cut"
    <3>1. kk[i].to \in 0 .. h /\ Power(kk, i + 1, want[kk[i].to])
      BY <1>1, <2>1 DEF CutOK
    <3>2. kk[i].to \in 0 .. h2
      BY <3>1, Widen
    <3> QED BY <3>1, <3>2 DEF CutOK
  <2> QED BY <2>1 DEF CutOK
<1>3. ExitOK(want, lims, kk, i, h2)
  BY <1>1, InForceRaise DEF ExitOK
<1> QED BY <1>2, <1>3

(* Two accounts of the same frames. *)
Agree(want, lims, want2, lims2, h) ==
  (\A a \in 0 .. h : want2[a] = want[a]) /\ \A a \in 1 .. h : a \in lims2 <=> a \in lims

(* What a continuation refers to is below the choice points in place. *)
LEMMA GoodAgree ==
  ASSUME NEW G, NEW want, NEW want2, NEW lims, NEW lims2, NEW kk, NEW h \in Nat,
         Good(G, want, lims, kk, h), Agree(want, lims, want2, lims2, h)
  PROVE  Good(G, want2, lims2, kk, h)
<1>0. (\A a \in 0 .. h : want2[a] = want[a]) /\ \A a \in 1 .. h : a \in lims2 <=> a \in lims
  BY DEF Agree
<1> SUFFICES ASSUME NEW i \in 1 .. Len(kk) PROVE CutOK(want2, kk, i, h) /\ ExitOK(want2, lims2, kk, i, h)
  BY DEF Good
<1>1. CutOK(want, kk, i, h) /\ ExitOK(want, lims, kk, i, h)
  BY DEF Good
<1>2. CutOK(want2, kk, i, h)
  BY <1>0, <1>1 DEF CutOK
<1>3. ExitOK(want2, lims2, kk, i, h)
  <2> SUFFICES ASSUME kk[i].op \in ExitOps
               PROVE  /\ InForce(want2, kk[i].nbb, h) /\ kk[i].bb = want2[kk[i].nbb - 1]
                      /\ Power(kk, i + 1, kk[i].bb)
                      /\ (kk[i].nbb \in lims2) <=> (kk[i].op = "limit_exit")
    BY DEF ExitOK
  <2>1. InForce(want, kk[i].nbb, h) /\ kk[i].bb = want[kk[i].nbb - 1] /\ Power(kk, i + 1, kk[i].bb)
        /\ ((kk[i].nbb \in lims) <=> (kk[i].op = "limit_exit"))
    BY <1>1 DEF ExitOK
  <2>2. kk[i].nbb \in 1 .. h
    BY <2>1 DEF InForce
  <2>3. kk[i].nbb - 1 \in 0 .. h
    BY <2>2
  <2>4. InForce(want2, kk[i].nbb, h)
    BY <1>0, <2>1, InForceAgree
  <2> QED BY <1>0, <2>1, <2>2, <2>3, <2>4
<1> QED BY <1>2, <1>3

(* What is left when the first item has been done. *)
LEMMA GoodTail ==
  ASSUME NEW G, NEW want \in [Nat -> Nat], NEW lims, NEW kk, NEW h \in Nat, kk # <<>>,
         Good(G, want, lims, kk, h)
  PROVE  /\ Tail(kk) \in Seq(Items(G)) /\ Head(kk) \in Items(G)
         /\ \A v : Head(kk).op \notin ExitOps => (Power(Tail(kk), 1, v) <=> Power(kk, 1, v))
         /\ Head(kk).op \notin RefOps => Good(G, want, lims, Tail(kk), h)
         /\ Head(kk).op = "cut" =>
              /\ Head(kk).to \in 0 .. h /\ Good(G, want, lims, Tail(kk), Head(kk).to)
              /\ Power(Tail(kk), 1, want[Head(kk).to])
         /\ Head(kk).op \in ExitOps =>
              /\ InForce(want, Head(kk).nbb, h) /\ Head(kk).bb = want[Head(kk).nbb - 1]
              /\ Good(G, want, lims, Tail(kk), Head(kk).nbb - 1)
              /\ Power(Tail(kk), 1, Head(kk).bb) /\ Power(kk, 1, Head(kk).nbb)
              /\ (Head(kk).nbb \in lims) <=> (Head(kk).op = "limit_exit")
<1> DEFINE R == Tail(kk)
<1>0. kk \in Seq(Items(G))
  BY DEF Good
<1>1. /\ R \in Seq(Items(G)) /\ Len(kk) \in Nat /\ Len(kk) >= 1 /\ Len(R) = Len(kk) - 1
      /\ Head(kk) = kk[1] /\ Head(kk) \in Items(G)
      /\ \A i \in 1 .. (Len(kk) - 1) : R[i] = kk[i + 1]
  BY <1>0, TailFacts
<1>2. DOMAIN kk = 1 .. Len(kk) /\ DOMAIN R = 1 .. Len(R)
  BY <1>0, <1>1, LenProperties
<1> HIDE DEF R
<1>3. \A i \in Nat \ {0} : \A v : Power(R, i, v) <=> Power(kk, i + 1, v)
  <2> TAKE i \in Nat \ {0}
  <2> TAKE v
  <2>1. Len(R) \in Nat /\ Len(kk) = Len(R) + 1
    <3>1. Len(kk) \in Nat /\ Len(kk) >= 1 /\ Len(R) = Len(kk) - 1
      BY <1>1
    <3> QED BY <3>1, Less1
  <2>2. \A j \in 1 .. Len(R) : kk[j + 1] = R[j]
    BY <1>1
  <2> QED BY <2>1, <2>2, PowerShift
<1>33. Len(R) \in Nat /\ Len(kk) \in Nat /\ Len(kk) = Len(R) + 1
  <2>1. Len(kk) \in Nat /\ Len(kk) >= 1 /\ Len(R) = Len(kk) - 1
    BY <1>1
  <2> QED BY <2>1, Less1
<1>34. \A i \in 1 .. Len(R) : i + 1 \in 1 .. Len(kk) /\ i \in Nat \ {0}
  BY <1>33, Next1
<1>4. \A i \in 1 .. Len(R) : R[i] = kk[i + 1] /\ i + 1 \in 1 .. Len(kk) /\ i \in Nat \ {0}
  BY <1>1, <1>34
<1>5. \A i \in 1 .. Len(kk) : CutOK(want, kk, i, h) /\ ExitOK(want, lims, kk, i, h)
  BY DEF Good
<1>6. Descending(R)
  <2> SUFFICES ASSUME NEW i \in 1 .. Len(R), NEW j \in 1 .. Len(R), i < j, R[i].op \in RefOps, R[j].op \in RefOps
               PROVE  Ref(R[j]) <= Low(R[i])
    BY <1>2 DEF Descending
  <2>1. i + 1 < j + 1 /\ i + 1 \in DOMAIN kk /\ j + 1 \in DOMAIN kk
    BY <1>2, <1>4
  <2> QED BY <2>1, <1>4 DEF Good, Descending
<1>7. \A v : kk[1].op \notin ExitOps => (Power(R, 1, v) <=> Power(kk, 1, v))
  <2> TAKE v
  <2> HAVE kk[1].op \notin ExitOps
  <2>1. 1 \in 1 .. Len(kk) /\ Len(kk) \in Nat
    BY <1>1
  <2>2. Power(kk, 1, v) <=> Power(kk, 1 + 1, v)
    BY <2>1, PowerNext
  <2> QED BY <2>2, <1>3
<1>8. kk[1].op \notin RefOps => Good(G, want, lims, R, h)
  <2> HAVE kk[1].op \notin RefOps
  <2> SUFFICES ASSUME NEW i \in 1 .. Len(R) PROVE CutOK(want, R, i, h) /\ ExitOK(want, lims, R, i, h)
    BY <1>1, <1>6 DEF Good
  <2>1. CutOK(want, kk, i + 1, h) /\ ExitOK(want, lims, kk, i + 1, h)
    BY <1>4, <1>5
  <2>2. \A v : Power(R, i + 1, v) <=> Power(kk, (i + 1) + 1, v)
    BY <1>3, <1>4
  <2> QED BY <1>4, <2>1, <2>2 DEF CutOK, ExitOK
(* Below a cut or an exit everything is older. *)
<1>9. ASSUME NEW low \in Nat, low <= h, kk[1].op \in RefOps, Low(kk[1]) = low
      PROVE  Good(G, want, lims, R, low)
  <2> SUFFICES ASSUME NEW i \in 1 .. Len(R) PROVE CutOK(want, R, i, low) /\ ExitOK(want, lims, R, i, low)
    BY <1>1, <1>6 DEF Good
  <2>1. CutOK(want, kk, i + 1, h) /\ ExitOK(want, lims, kk, i + 1, h)
    BY <1>4, <1>5
  <2>2. \A v : Power(R, i + 1, v) <=> Power(kk, (i + 1) + 1, v)
    BY <1>3, <1>4
  <2>3. kk[i + 1].op \in RefOps => Ref(kk[i + 1]) <= low
    <3>1. 1 < i + 1 /\ 1 \in DOMAIN kk /\ i + 1 \in DOMAIN kk
      BY <1>1, <1>2, <1>4
    <3> QED BY <3>1, <1>9 DEF Good, Descending
  <2>4. CutOK(want, R, i, low)
    <3> SUFFICES ASSUME R[i].op = "cut" PROVE R[i].to \in 0 .. low /\ Power(R, i + 1, want[R[i].to])
      BY DEF CutOK
    <3>1. R[i] = kk[i + 1]
      BY <1>4
    <3>2. kk[i + 1].to \in 0 .. h /\ Power(kk, (i + 1) + 1, want[kk[i + 1].to])
      BY <3>1, <2>1 DEF CutOK
    <3>3. kk[i + 1].to <= low
      BY <3>1, <2>3 DEF RefOps, Ref
    <3>4. kk[i + 1].to \in 0 .. low
      BY <3>2, <3>3, <1>9, Narrow
    <3> QED BY <3>1, <3>2, <3>4, <2>2
  <2>5. ExitOK(want, lims, R, i, low)
    <3> SUFFICES ASSUME R[i].op \in ExitOps
                 PROVE  /\ InForce(want, R[i].nbb, low) /\ R[i].bb = want[R[i].nbb - 1]
                        /\ Power(R, i + 1, R[i].bb)
                        /\ (R[i].nbb \in lims) <=> (R[i].op = "limit_exit")
      BY DEF ExitOK
    <3>1. R[i] = kk[i + 1]
      BY <1>4
    <3>2. InForce(want, kk[i + 1].nbb, h) /\ R[i].nbb <= low
      BY <3>1, <2>1, <2>3 DEF ExitOK, RefOps, ExitOps, Ref
    <3>3. InForce(want, R[i].nbb, low)
      BY <3>1, <3>2, <1>9, InForceLower
    <3> QED BY <3>1, <3>3, <2>1, <2>2 DEF ExitOK
  <2> QED BY <2>4, <2>5
<1>10. kk[1].op = "cut" =>
         /\ kk[1].to \in 0 .. h /\ Good(G, want, lims, R, kk[1].to) /\ Power(R, 1, want[kk[1].to])
  <2> HAVE kk[1].op = "cut"
  <2>0. CutOK(want, kk, 1, h)
    <3>1. 1 \in 1 .. Len(kk)
      BY <1>1
    <3> QED BY <3>1, <1>5
  <2>1. kk[1].to \in 0 .. h /\ Power(kk, 1 + 1, want[kk[1].to])
    BY <2>0 DEF CutOK
  <2>2. Low(kk[1]) = kk[1].to /\ kk[1].op \in RefOps
    BY DEF Low, RefOps
  <2>3. kk[1].to \in Nat /\ kk[1].to <= h
    BY <2>1
  <2>4. Good(G, want, lims, R, kk[1].to)
    BY <2>2, <2>3, <1>9
  <2>5. Power(R, 1, want[kk[1].to])
    BY <2>1, <1>3
  <2> QED BY <2>1, <2>4, <2>5
<1>11. kk[1].op \in ExitOps =>
         /\ InForce(want, kk[1].nbb, h) /\ kk[1].bb = want[kk[1].nbb - 1]
         /\ Good(G, want, lims, R, kk[1].nbb - 1)
         /\ Power(R, 1, kk[1].bb) /\ Power(kk, 1, kk[1].nbb)
         /\ (kk[1].nbb \in lims) <=> (kk[1].op = "limit_exit")
  <2> HAVE kk[1].op \in ExitOps
  <2>0. ExitOK(want, lims, kk, 1, h)
    <3>1. 1 \in 1 .. Len(kk)
      BY <1>1
    <3> QED BY <3>1, <1>5
  <2>1. InForce(want, kk[1].nbb, h) /\ kk[1].bb = want[kk[1].nbb - 1] /\ Power(kk, 1 + 1, kk[1].bb)
        /\ ((kk[1].nbb \in lims) <=> (kk[1].op = "limit_exit"))
    BY <2>0 DEF ExitOK
  <2>2. kk[1].nbb \in 1 .. h
    BY <2>1 DEF InForce
  <2>3. Low(kk[1]) = kk[1].nbb - 1 /\ kk[1].op \in RefOps
    BY DEF Low, RefOps, ExitOps
  <2>4. Good(G, want, lims, R, kk[1].nbb - 1)
    BY <2>2, <2>3, <1>9
  <2>5. Power(R, 1, kk[1].bb)
    BY <2>1, <1>3
  <2>6. Power(kk, 1, kk[1].nbb)
    <3>1. 1 \in 1 .. Len(kk) /\ \A m \in 1 .. (1 - 1) : kk[m].op \notin ExitOps
      BY <1>1
    <3> QED BY <3>1 DEF Power
  <2> QED BY <2>1, <2>4, <2>5, <2>6
<1> QED BY <1>1, <1>7, <1>8, <1>10, <1>11 DEF R

(* What an item needs to be put in front of a continuation. *)
Fits(G, want, lims, x, R, h) ==
  /\ x \in Items(G) /\ Good(G, want, lims, R, h)
  /\ x.op = "cut" => /\ x.to \in 0 .. h /\ Good(G, want, lims, R, x.to)
                     /\ Power(R, 1, want[x.to])
  /\ x.op \in ExitOps => /\ InForce(want, x.nbb, h) /\ x.bb = want[x.nbb - 1]
                         /\ Good(G, want, lims, R, x.nbb - 1) /\ Power(R, 1, x.bb)
                         /\ (x.nbb \in lims) <=> (x.op = "limit_exit")

(* Putting an item that fits before a continuation. *)
LEMMA GoodCons ==
  ASSUME NEW G, NEW want \in [Nat -> Nat], NEW lims, NEW R, NEW h \in Nat, NEW x,
         Fits(G, want, lims, x, R, h)
  PROVE  /\ Good(G, want, lims, <<x>> \o R, h) /\ <<x>> \o R # <<>>
         /\ Head(<<x>> \o R) = x /\ Tail(<<x>> \o R) = R
         /\ \A v : x.op \notin ExitOps => (Power(<<x>> \o R, 1, v) <=> Power(R, 1, v))
         /\ x.op \in ExitOps => Power(<<x>> \o R, 1, x.nbb)
<1> DEFINE kk == <<x>> \o R
<1>0. R \in Seq(Items(G)) /\ x \in Items(G)
  BY DEF Fits, Good
<1>00. Len(R) \in Nat /\ DOMAIN R = 1 .. Len(R)
  BY <1>0, LenProperties
<1>1. /\ kk \in Seq(Items(G)) /\ kk # <<>> /\ Len(kk) = Len(R) + 1
      /\ kk[1] = x /\ Head(kk) = x /\ Tail(kk) = R
      /\ \A i \in 1 .. Len(R) : kk[i + 1] = R[i]
  <2>1. <<x>> \o R \in Seq(Items(G))
    BY <1>0, ConsFacts, Zenon
  <2>2. <<x>> \o R # <<>>
    BY <1>0, ConsFacts, Zenon
  <2>3. Len(<<x>> \o R) = Len(R) + 1
    BY <1>0, ConsFacts, Zenon
  <2>4. (<<x>> \o R)[1] = x
    BY <1>0, ConsFacts, Zenon
  <2>5. Head(<<x>> \o R) = x /\ Tail(<<x>> \o R) = R
    <3>1. Head(<<x>> \o R) = x
      BY <1>0, ConsFacts
    <3>2. Tail(<<x>> \o R) = R
      BY <1>0, ConsFacts
    <3> QED BY <3>1, <3>2
  <2>6. \A i \in 1 .. Len(R) : (<<x>> \o R)[i + 1] = R[i]
    BY <1>0, ConsFacts
  <2> HIDE DEF kk
  <2> QED BY <2>1, <2>2, <2>3, <2>4, <2>5, <2>6 DEF kk
<1>2. DOMAIN kk = 1 .. Len(kk) /\ Len(kk) \in Nat
  BY <1>1, LenProperties
<1> HIDE DEF kk
<1>3. \A i \in Nat \ {0} : \A v : Power(R, i, v) <=> Power(kk, i + 1, v)
  BY <1>00, <1>1, PowerShift
<1>4. \A i \in 1 .. Len(kk) : i = 1 \/ (i - 1 \in 1 .. Len(R) /\ kk[i] = R[i - 1] /\ i - 1 \in Nat \ {0})
  <2> TAKE i \in 1 .. Len(kk)
  <2> SUFFICES ASSUME i # 1 PROVE i - 1 \in 1 .. Len(R) /\ kk[i] = R[i - 1] /\ i - 1 \in Nat \ {0}
    OBVIOUS
  <2>1. i - 1 \in 1 .. Len(R) /\ (i - 1) + 1 = i /\ i - 1 \in Nat \ {0}
    BY <1>00, <1>1
  <2>2. kk[(i - 1) + 1] = R[i - 1]
    BY <2>1, <1>1
  <2> QED BY <2>1, <2>2
<1>5. \A i \in 1 .. Len(R) : CutOK(want, R, i, h) /\ ExitOK(want, lims, R, i, h)
  BY DEF Fits, Good
<1>6. \A i \in 1 .. Len(kk) : CutOK(want, kk, i, h) /\ ExitOK(want, lims, kk, i, h)
  <2> TAKE i \in 1 .. Len(kk)
  <2>1. CASE i = 1
    <3>1. \A v : Power(R, 1, v) <=> Power(kk, 1 + 1, v)
      BY <1>3
    <3> QED BY <2>1, <3>1, <1>1 DEF CutOK, ExitOK, Fits
  <2>2. CASE i # 1
    <3>1. i - 1 \in 1 .. Len(R) /\ kk[i] = R[i - 1] /\ i - 1 \in Nat \ {0}
      BY <2>2, <1>4
    <3>2. CutOK(want, R, i - 1, h) /\ ExitOK(want, lims, R, i - 1, h)
      BY <3>1, <1>5
    <3>3. \A v : Power(R, (i - 1) + 1, v) <=> Power(kk, ((i - 1) + 1) + 1, v)
      BY <3>1, <1>3
    <3>4. (i - 1) + 1 = i
      BY <3>1
    <3> QED BY <3>1, <3>2, <3>3, <3>4 DEF CutOK, ExitOK
  <2> QED BY <2>1, <2>2
<1>7. \A j \in 1 .. Len(R) : x.op \in RefOps /\ R[j].op \in RefOps => Ref(R[j]) <= Low(x)
  <2> TAKE j \in 1 .. Len(R)
  <2> HAVE x.op \in RefOps /\ R[j].op \in RefOps
  <2>1. Good(G, want, lims, R, Low(x))
    BY DEF RefOps, ExitOps, Low, Fits
  <2>0. Low(x) \in Int
    <3>1. CASE x.op = "cut"
      <4>1. x.to \in 0 .. h /\ Low(x) = x.to
        BY <3>1 DEF Low, Fits
      <4>2. x.to \in Int
        BY <4>1, IntOf
      <4> QED BY <4>1, <4>2
    <3>2. CASE x.op \in ExitOps
      <4>1. x.nbb \in 1 .. h
        BY <3>2 DEF InForce, Fits
      <4>2. Low(x) = x.nbb - 1
        BY <3>2 DEF Low, ExitOps
      <4>3. x.nbb - 1 \in Int
        BY <4>1, IntOf
      <4> QED BY <4>2, <4>3
    <3> QED BY <3>1, <3>2 DEF RefOps
  <2>2. CutOK(want, R, j, Low(x)) /\ ExitOK(want, lims, R, j, Low(x))
    BY <2>1 DEF Good
  <2>3. CASE R[j].op = "cut"
    <3>1. Ref(R[j]) = R[j].to /\ R[j].to \in 0 .. Low(x)
      BY <2>2, <2>3 DEF CutOK, Ref
    <3> QED BY <2>0, <3>1, AtMost
  <2>4. CASE R[j].op \in ExitOps
    <3>1. Ref(R[j]) = R[j].nbb /\ InForce(want, R[j].nbb, Low(x))
      BY <2>2, <2>4 DEF ExitOK, ExitOps, Ref
    <3>2. R[j].nbb \in 1 .. Low(x)
      BY <3>1 DEF InForce
    <3> QED BY <2>0, <3>1, <3>2, AtMost
  <2> QED BY <2>3, <2>4 DEF RefOps
<1>8. Descending(kk)
  <2> SUFFICES ASSUME NEW i \in 1 .. Len(kk), NEW j \in 1 .. Len(kk), i < j, kk[i].op \in RefOps, kk[j].op \in RefOps
               PROVE  Ref(kk[j]) <= Low(kk[i])
    BY <1>2 DEF Descending
  <2>0. i \in Nat /\ j \in Nat /\ i >= 1 /\ j # 1
    BY <1>2
  <2>1. j - 1 \in 1 .. Len(R) /\ kk[j] = R[j - 1]
    BY <2>0, <1>4
  <2>2. CASE i = 1
    BY <2>1, <2>2, <1>1, <1>7
  <2>3. CASE i # 1
    <3>0. i - 1 < j - 1
      BY <2>0
    <3>1. i - 1 \in 1 .. Len(R) /\ kk[i] = R[i - 1]
      BY <2>3, <1>4
    <3> QED BY <2>1, <3>0, <3>1, <1>00 DEF Fits, Good, Descending
  <2> QED BY <2>2, <2>3
<1>9. Good(G, want, lims, kk, h)
  BY <1>1, <1>6, <1>8 DEF Good
<1>10. \A v : x.op \notin ExitOps => (Power(kk, 1, v) <=> Power(R, 1, v))
  <2> TAKE v
  <2> HAVE x.op \notin ExitOps
  <2>1. 1 \in 1 .. Len(kk) /\ kk[1].op \notin ExitOps
    BY <1>00, <1>1
  <2>2. Power(kk, 1, v) <=> Power(kk, 1 + 1, v)
    BY <2>1, <1>2, PowerNext
  <2> QED BY <2>2, <1>3
<1>11. x.op \in ExitOps => Power(kk, 1, x.nbb)
  <2>1. 1 \in 1 .. Len(kk) /\ \A m \in 1 .. (1 - 1) : kk[m].op \notin ExitOps
    BY <1>00, <1>1
  <2> QED BY <2>1, <1>1 DEF Power
<1> QED BY <1>1, <1>9, <1>10, <1>11 DEF kk

-----------------------------------------------------------------------------
(* The stack of choice points. *)

(* The rest of a disjunction: it goes on under the block it was made under. *)
PlainFrame(G, want, lims, f, a) ==
  /\ want[a] = want[a - 1] /\ a \notin lims
  /\ \E kk \in Seq(Items(G)) : /\ f.alts = <<kk>> /\ Good(G, want, lims, kk, a - 1)
                               /\ Power(kk, 1, want[a - 1])

(* The frame of a catch or of a limit: failing into it leaves it. *)
HandlerFrame(G, want, lims, f, a) ==
  /\ want[a] = a
  /\ \E x \in HandlerItems(G), R \in Seq(Items(G)) :
       /\ f.alts = <<<<x>> \o R>> /\ Good(G, want, lims, R, a - 1)
       /\ x.bb = want[a - 1] /\ Power(R, 1, x.bb)
       /\ a \in lims <=> x.op = "limit_retry"

(* The way back into a catch or a limit that was left with choice points. *)
ReentryFrame(G, want, lims, f, a) ==
  /\ a \notin lims
  /\ \E x \in ReentryItems, R \in Seq(Items(G)) :
       /\ f.alts = <<<<x>> \o R>>
       /\ x.nbb = want[a - 1] /\ InForce(want, x.nbb, a - 1) /\ want[a] = want[x.nbb - 1]
       /\ x.nbb \in lims <=> x.op = "limit_reenter"

FrameOK(G, want, lims, f, a) ==
  /\ f.prev = a - 1
  /\ PlainFrame(G, want, lims, f, a) \/ HandlerFrame(G, want, lims, f, a) \/ ReentryFrame(G, want, lims, f, a)

Stacked(G, want, lims, o, h) ==
  /\ o \in Seq(Frames(G)) /\ h <= Len(o)
  /\ \A a \in 1 .. h : FrameOK(G, want, lims, o[a], a)

Ghosts(want, lims) == want \in [Nat -> Nat] /\ (\A a \in Nat : want[a] <= a) /\ lims \in SUBSET Nat

(* Ghosts that agree up to a frame agree up to an older one. *)
LEMMA AgreeLower ==
  ASSUME NEW want, NEW lims, NEW want2, NEW lims2, NEW h \in Nat, NEW h1 \in Nat, h1 <= h,
         Agree(want, lims, want2, lims2, h)
  PROVE  Agree(want, lims, want2, lims2, h1)
<1>1. (\A a \in 0 .. h1 : a \in 0 .. h) /\ (\A a \in 1 .. h1 : a \in 1 .. h)
  OBVIOUS
<1> QED BY <1>1 DEF Agree

(* What holds of a frame depends on the ghosts up to its address. *)
LEMMA FrameAgree ==
  ASSUME NEW G, NEW want, NEW lims, NEW want2, NEW lims2, NEW f, NEW a \in Nat \ {0},
         FrameOK(G, want, lims, f, a), Agree(want, lims, want2, lims2, a)
  PROVE  FrameOK(G, want2, lims2, f, a)
<1>0. a - 1 \in Nat /\ a - 1 <= a /\ a \in 0 .. a /\ a - 1 \in 0 .. a /\ a \in 1 .. a
  OBVIOUS
<1>1. want2[a] = want[a] /\ want2[a - 1] = want[a - 1] /\ (a \in lims2 <=> a \in lims)
  BY <1>0 DEF Agree
<1>2. Agree(want, lims, want2, lims2, a - 1)
  BY <1>0, AgreeLower
<1>3. \A kk : Good(G, want, lims, kk, a - 1) => Good(G, want2, lims2, kk, a - 1)
  BY <1>0, <1>2, GoodAgree
<1>4. CASE PlainFrame(G, want, lims, f, a)
  <2>1. PlainFrame(G, want2, lims2, f, a)
    BY <1>1, <1>3, <1>4 DEF PlainFrame
  <2> QED BY <2>1 DEF FrameOK
<1>5. CASE HandlerFrame(G, want, lims, f, a)
  <2>1. HandlerFrame(G, want2, lims2, f, a)
    BY <1>1, <1>3, <1>5 DEF HandlerFrame
  <2> QED BY <2>1 DEF FrameOK
<1>6. CASE ReentryFrame(G, want, lims, f, a)
  <2>1. PICK x \in ReentryItems, R \in Seq(Items(G)) :
          /\ f.alts = <<<<x>> \o R>>
          /\ x.nbb = want[a - 1] /\ InForce(want, x.nbb, a - 1) /\ want[a] = want[x.nbb - 1]
          /\ x.nbb \in lims <=> x.op = "limit_reenter"
    BY <1>6 DEF ReentryFrame
  <2>2. InForce(want2, x.nbb, a - 1)
    BY <1>0, <1>2, <2>1, InForceAgree DEF Agree
  <2>3. x.nbb \in 1 .. (a - 1)
    BY <2>1 DEF InForce
  <2>4. x.nbb - 1 \in 0 .. a /\ x.nbb \in 1 .. a
    BY <2>3, <1>0
  <2>5. want2[x.nbb - 1] = want[x.nbb - 1] /\ (x.nbb \in lims2 <=> x.nbb \in lims)
    BY <2>4 DEF Agree
  <2>6. ReentryFrame(G, want2, lims2, f, a)
    BY <1>1, <1>6, <2>1, <2>2, <2>5 DEF ReentryFrame
  <2> QED BY <2>6 DEF FrameOK
<1> QED BY <1>4, <1>5, <1>6 DEF FrameOK

(* The frames up to h, in another stack that has them too. *)
LEMMA StackedAgree ==
  ASSUME NEW G, NEW want, NEW lims, NEW want2, NEW lims2, NEW o, NEW o2 \in Seq(Frames(G)),
         NEW h \in Nat, NEW h1 \in Nat, h1 <= h, h1 <= Len(o2),
         Stacked(G, want, lims, o, h), Agree(want, lims, want2, lims2, h1),
         \A a \in 1 .. h1 : o2[a] = o[a]
  PROVE  Stacked(G, want2, lims2, o2, h1)
<1> SUFFICES ASSUME NEW a \in 1 .. h1 PROVE FrameOK(G, want2, lims2, o2[a], a)
  BY DEF Stacked
<1>1. a \in Nat \ {0} /\ a \in 1 .. h /\ a <= h1
  OBVIOUS
<1>2. FrameOK(G, want, lims, o[a], a)
  BY <1>1 DEF Stacked
<1>3. Agree(want, lims, want2, lims2, a)
  BY <1>1, AgreeLower
<1> QED BY <1>1, <1>2, <1>3, FrameAgree

(* What holds of the stack holds of the part a cut leaves. *)
LEMMA StackedLower ==
  ASSUME NEW G, NEW want, NEW lims, NEW o, NEW h \in Nat, NEW h1 \in Nat, h1 <= h,
         Stacked(G, want, lims, o, h)
  PROVE  Stacked(G, want, lims, o, h1)
<1>1. \A a \in 1 .. h1 : a \in 1 .. h
  OBVIOUS
<1>2. o \in Seq(Frames(G)) /\ Len(o) \in Nat /\ h1 <= Len(o)
  <2>1. o \in Seq(Frames(G)) /\ h <= Len(o)
    BY DEF Stacked
  <2> DEFINE n == Len(o)
  <2>2. n \in Nat
    BY <2>1, LenProperties
  <2> HIDE DEF n
  <2>3. h1 <= n
    BY <2>1, <2>2 DEF n
  <2> QED BY <2>1, <2>2, <2>3 DEF n
<1> QED BY <1>1, <1>2 DEF Stacked

(* The account of a new frame, and the frame on top. *)
Pushed(want, lims, w, lims2, h, v) ==
  /\ v \in Nat /\ v <= h + 1 /\ w = [want EXCEPT ![h + 1] = v]
  /\ lims2 = lims \ {h + 1} \/ lims2 = lims \cup {h + 1}

(* The ghosts once a choice point has been made. *)
LEMMA GhostsPush ==
  ASSUME NEW want, NEW lims, NEW w, NEW lims2, NEW h \in Nat, NEW v,
         Ghosts(want, lims), Pushed(want, lims, w, lims2, h, v)
  PROVE  Ghosts(w, lims2) /\ Agree(want, lims, w, lims2, h) /\ w[h + 1] = v /\ w[h] = want[h]
<1>0. want \in [Nat -> Nat] /\ v \in Nat /\ v <= h + 1 /\ w = [want EXCEPT ![h + 1] = v]
  BY DEF Ghosts, Pushed
<1>00. lims2 \in SUBSET Nat /\ \A a \in Nat : a # h + 1 => (a \in lims2 <=> a \in lims)
  <2>1. lims \in SUBSET Nat /\ (lims2 = lims \ {h + 1} \/ lims2 = lims \cup {h + 1})
    BY DEF Ghosts, Pushed
  <2>2. h + 1 \in Nat
    OBVIOUS
  <2> QED BY <2>1, <2>2
<1>1. w \in [Nat -> Nat] /\ w[h + 1] = v /\ \A a \in Nat : a # h + 1 => w[a] = want[a]
  <2>1. h + 1 \in Nat
    OBVIOUS
  <2> QED BY <1>0, <2>1
<1>2. Ghosts(w, lims2)
  <2> SUFFICES ASSUME NEW a \in Nat PROVE w[a] <= a
    BY <1>1, <1>00 DEF Ghosts
  <2>1. CASE a = h + 1
    BY <2>1, <1>0, <1>1
  <2>2. CASE a # h + 1
    BY <2>2, <1>1 DEF Ghosts
  <2> QED BY <2>1, <2>2
<1>3. Agree(want, lims, w, lims2, h)
  <2>1. \A a \in 0 .. h : a \in Nat /\ a # h + 1
    OBVIOUS
  <2>2. \A a \in 1 .. h : a \in Nat /\ a # h + 1
    OBVIOUS
  <2> QED BY <2>1, <2>2, <1>1, <1>00 DEF Agree
<1>4. h # h + 1
  OBVIOUS
<1> QED BY <1>1, <1>2, <1>3, <1>4

(* The stack once a choice point has been made. *)
LEMMA StackedPush ==
  ASSUME NEW G, NEW want, NEW lims, NEW w, NEW lims2, NEW o, NEW h \in Nat, NEW f \in Frames(G),
         Stacked(G, want, lims, o, h), Agree(want, lims, w, lims2, h), FrameOK(G, w, lims2, f, h + 1)
  PROVE  Stacked(G, w, lims2, Append(SubSeq(o, 1, h), f), h + 1)
<1> DEFINE o2 == Append(SubSeq(o, 1, h), f)
<1>0. o \in Seq(Frames(G)) /\ h <= Len(o)
  BY DEF Stacked
<1>2. o2 \in Seq(Frames(G)) /\ Len(o2) = h + 1 /\ (\A a \in 1 .. h : o2[a] = o[a]) /\ o2[h + 1] = f
  BY <1>0, PushFacts
<1> HIDE DEF o2
<1>6. Stacked(G, w, lims2, o2, h)
  <2>1. h <= Len(o2) /\ h <= h
    BY <1>2
  <2> QED BY <1>2, <2>1, StackedAgree
<1>7. Stacked(G, w, lims2, o2, h + 1)
  <2>1. \A a \in 1 .. (h + 1) : a \in 1 .. h \/ a = h + 1
    OBVIOUS
  <2> QED BY <1>2, <1>6, <2>1 DEF Stacked
<1> QED BY <1>7 DEF o2

-----------------------------------------------------------------------------
(* The invariant. *)

(* Every limit that counts is one of the handlers in force, the newer ones   *)
(* later.                                                                    *)
Entered(want, lims, s, h) ==
  \A i \in 1 .. Len(s) : InForce(want, s[i].block, h) /\ s[i].block \in lims
Rising(s) == \A i, j \in 1 .. Len(s) : i < j => s[i].block < s[j].block

(* A goal is about to be run, or an exit. *)
Running(G, want, lims) ==
  /\ mode = "run" /\ Good(G, want, lims, k, b) /\ Power(k, 1, block) /\ want[b] = block
  /\ Entered(want, lims, cwil.limits, b)
(* The machine backtracks next, with the block the newest frame expects. *)
Failing(G, want, lims) ==
  mode = "fail" /\ want[b] = block /\ Entered(want, lims, cwil.limits, b)
(* It has failed into the frame of a catch or of a limit, the handler in     *)
(* power, ...                                                                *)
Handling(G, want, lims) ==
  /\ mode = "run" /\ block = b + 1
  /\ \E x \in HandlerItems(G), R \in Seq(Items(G)) :
       /\ k = <<x>> \o R /\ Good(G, want, lims, R, b)
       /\ x.bb = want[b] /\ Power(R, 1, x.bb)
       /\ \A i \in 1 .. Len(cwil.limits) :
            \/ x.op = "limit_retry" /\ cwil.limits[i].block = b + 1
            \/ InForce(want, cwil.limits[i].block, b) /\ cwil.limits[i].block \in lims
(* ... or into one it has left. *)
Reentering(G, want, lims) ==
  /\ mode = "run"
  /\ \E x \in ReentryItems, R \in Seq(Items(G)) :
       /\ k = <<x>> \o R
       /\ x.nbb = want[b] /\ InForce(want, x.nbb, b) /\ (x.nbb \in lims <=> x.op = "limit_reenter")
       /\ \A i \in 1 .. Len(cwil.limits) :
            /\ InForce(want, cwil.limits[i].block, b) /\ cwil.limits[i].block \in lims
            /\ cwil.limits[i].block < x.nbb

Accounts == [limit : Nat, used : Nat]
NoCleaners == scc = 0 /\ cleaning = FALSE /\ conts = <<>> /\ balls = <<>>

Inv(G, want, lims) ==
  /\ Ghosts(want, lims)
  /\ b \in Nat /\ block \in Nat /\ cwil \in Limitations /\ spent \in Seq(Accounts) /\ NoCleaners
  /\ Stacked(G, want, lims, orf, b)
  /\ Rising(cwil.limits)
  /\ \/ Running(G, want, lims) \/ Failing(G, want, lims) \/ Handling(G, want, lims)
     \/ Reentering(G, want, lims) \/ mode = "done"

-----------------------------------------------------------------------------
(* Which items there are. *)

(* The operation of an item says what else it carries. *)
LEMMA ItemKinds ==
  ASSUME NEW G, Uncleaned(G), NEW x \in Items(G)
  PROVE  /\ x.op \in GoalOps \cup RefOps
         /\ x.op \in GoalOps => x \in G
         /\ x.op = "cut" => x \in Cuts
         /\ x.op = "end_block" => x \in EndBlocks
         /\ x.op = "limit_exit" => x \in LimitExits
<1>1. CASE x \in G
  BY <1>1 DEF Uncleaned, GoalOps, RefOps, ExitOps
<1>2. CASE x \in Cuts
  BY <1>2 DEF Cuts, GoalOps, RefOps, ExitOps
<1>3. CASE x \in EndBlocks
  BY <1>3 DEF EndBlocks, GoalOps, RefOps, ExitOps
<1>4. CASE x \in LimitExits
  BY <1>4 DEF LimitExits, GoalOps, RefOps, ExitOps
<1> QED BY <1>1, <1>2, <1>3, <1>4 DEF Items

(* The same, for the items only backtracking leads to. *)
LEMMA ReturnKinds ==
  ASSUME NEW G, NEW x \in HandlerItems(G) \cup ReentryItems
  PROVE  /\ x \in AllItems(G) /\ x.op \in HandlerOps \cup ReentryOps
         /\ x \in HandlerItems(G) <=> x.op \in HandlerOps
         /\ x \in HandlerItems(G) => x.bb \in Nat
         /\ x \in ReentryItems => x.nbb \in Nat
         /\ x.op = "recover" => x \in Recovers(G)
         /\ x.op = "limit_retry" => x \in Retries
         /\ x.op = "reenter" => x \in Reenters
         /\ x.op = "limit_reenter" => x \in LimitReenters
<1>0. x \in AllItems(G)
  BY DEF AllItems
<1>1. CASE x \in Recovers(G)
  BY <1>0, <1>1 DEF HandlerItems, ReentryItems, Recovers, Retries, Reenters, LimitReenters, HandlerOps, ReentryOps
<1>2. CASE x \in Retries
  BY <1>0, <1>2 DEF HandlerItems, ReentryItems, Recovers, Retries, Reenters, LimitReenters, HandlerOps, ReentryOps
<1>3. CASE x \in Reenters
  BY <1>0, <1>3 DEF HandlerItems, ReentryItems, Recovers, Retries, Reenters, LimitReenters, HandlerOps, ReentryOps
<1>4. CASE x \in LimitReenters
  BY <1>0, <1>4 DEF HandlerItems, ReentryItems, Recovers, Retries, Reenters, LimitReenters, HandlerOps, ReentryOps
<1> QED BY <1>1, <1>2, <1>3, <1>4 DEF HandlerItems, ReentryItems

(* The continuation of an alternative. *)
LEMMA ReturnFacts ==
  ASSUME NEW G, NEW x \in HandlerItems(G) \cup ReentryItems, NEW R \in Seq(Items(G))
  PROVE  /\ <<x>> \o R \in Seq(AllItems(G)) /\ <<x>> \o R # <<>>
         /\ Head(<<x>> \o R) = x /\ Tail(<<x>> \o R) = R
<1>1. x \in AllItems(G) /\ Items(G) \subseteq AllItems(G)
  BY DEF AllItems
<1>2. R \in Seq(AllItems(G))
  BY <1>1, SeqMonotonic
<1>3. <<x>> \o R \in Seq(AllItems(G)) /\ <<x>> \o R # <<>>
  BY <1>1, <1>2, ConsFacts
<1>4. Head(<<x>> \o R) = x
  BY <1>1, <1>2, ConsFacts
<1>5. Tail(<<x>> \o R) = R
  BY <1>1, <1>2, ConsFacts
<1> QED BY <1>3, <1>4, <1>5

(* A choice point with one alternative is a frame. *)
LEMMA FrameTyped ==
  ASSUME NEW G, NEW kk \in Seq(AllItems(G)), NEW p \in Nat
  PROVE  [alts |-> <<kk>>, prev |-> p] \in Frames(G)
<1>1. <<kk>> \in Seq(Seq(AllItems(G)))
  OBVIOUS
<1> QED BY <1>1 DEF Frames

(* A goal or an exit is only met while the machine is running. *)
LEMMA AtItem ==
  ASSUME NEW G, Uncleaned(G), NEW want, NEW lims, Inv(G, want, lims), NEW op, At(op), op \in GoalOps \cup RefOps
  PROVE  /\ Running(G, want, lims) /\ k # <<>> /\ Head(k) \in Items(G) /\ Head(k).op = op
         /\ k \in Seq(Items(G)) /\ Tail(k) \in Seq(Items(G))
<1>0. mode = "run" /\ k # <<>> /\ Head(k).op = op
  BY DEF At
<1>1. op \notin HandlerOps /\ op \notin ReentryOps
  BY DEF GoalOps, RefOps, ExitOps, HandlerOps, ReentryOps
<1>2. ~ Handling(G, want, lims)
  <2> SUFFICES ASSUME Handling(G, want, lims) PROVE FALSE
    OBVIOUS
  <2>1. PICK x \in HandlerItems(G), R \in Seq(Items(G)) : k = <<x>> \o R
    BY DEF Handling
  <2>2. Head(k) = x /\ x.op \in HandlerOps
    BY <2>1, ReturnFacts, ReturnKinds
  <2> QED BY <1>0, <1>1, <2>2
<1>3. ~ Reentering(G, want, lims)
  <2> SUFFICES ASSUME Reentering(G, want, lims) PROVE FALSE
    OBVIOUS
  <2>1. PICK x \in ReentryItems, R \in Seq(Items(G)) : k = <<x>> \o R
    BY DEF Reentering
  <2>2. Head(k) = x /\ x.op \in HandlerOps \cup ReentryOps
    BY <2>1, ReturnFacts, ReturnKinds
  <2> QED BY <1>0, <1>1, <2>2
<1>4. Running(G, want, lims)
  BY <1>0, <1>2, <1>3 DEF Inv, Failing
<1>5. k \in Seq(Items(G))
  BY <1>4 DEF Running, Good
<1>6. Head(k) \in Items(G) /\ Tail(k) \in Seq(Items(G))
  BY <1>0, <1>5, TailFacts
<1> QED BY <1>0, <1>4, <1>5, <1>6

(* No library step of a cleanup is ever met. *)
LEMMA NoCleanup ==
  ASSUME NEW G, Uncleaned(G), NEW want, NEW lims, Inv(G, want, lims), NEW op, At(op)
  PROVE  op \in GoalOps \cup RefOps \cup HandlerOps \cup ReentryOps
<1>0. mode = "run" /\ k # <<>> /\ Head(k).op = op
  BY DEF At
<1>1. CASE Running(G, want, lims)
  <2>1. k \in Seq(Items(G))
    BY <1>1 DEF Running, Good
  <2>2. Head(k) \in Items(G)
    BY <1>0, <2>1, TailFacts
  <2> QED BY <1>0, <2>2, ItemKinds
<1>2. CASE Handling(G, want, lims)
  <2>1. PICK x \in HandlerItems(G), R \in Seq(Items(G)) : k = <<x>> \o R
    BY <1>2 DEF Handling
  <2> QED BY <1>0, <2>1, ReturnFacts, ReturnKinds
<1>3. CASE Reentering(G, want, lims)
  <2>1. PICK x \in ReentryItems, R \in Seq(Items(G)) : k = <<x>> \o R
    BY <1>3 DEF Reentering
  <2> QED BY <1>0, <2>1, ReturnFacts, ReturnKinds
<1> QED BY <1>0, <1>1, <1>2, <1>3 DEF Inv, Failing

(* A handler's item is only met right after a failure into its frame. *)
LEMMA AtHandler ==
  ASSUME NEW G, Uncleaned(G), NEW want, NEW lims, Inv(G, want, lims), NEW op, At(op), op \in HandlerOps
  PROVE  /\ Handling(G, want, lims) /\ Head(k).op = op /\ Head(k) \in HandlerItems(G) /\ Rest \in Seq(Items(G))
         /\ Good(G, want, lims, Rest, b)
         /\ Head(k).bb = want[b] /\ Power(Rest, 1, Head(k).bb)
         /\ \A i \in 1 .. Len(cwil.limits) :
              \/ op = "limit_retry" /\ cwil.limits[i].block = b + 1
              \/ InForce(want, cwil.limits[i].block, b) /\ cwil.limits[i].block \in lims
<1>0. mode = "run" /\ k # <<>> /\ Head(k).op = op
  BY DEF At
<1>1. op \notin GoalOps \cup RefOps /\ op \notin ReentryOps
  BY DEF GoalOps, RefOps, ExitOps, HandlerOps, ReentryOps
<1>2. ~ Running(G, want, lims)
  <2> SUFFICES ASSUME Running(G, want, lims) PROVE FALSE
    OBVIOUS
  <2>1. k \in Seq(Items(G))
    BY DEF Running, Good
  <2>2. Head(k) \in Items(G)
    BY <1>0, <2>1, TailFacts
  <2> QED BY <1>0, <1>1, <2>2, ItemKinds
<1>3. ~ Reentering(G, want, lims)
  <2> SUFFICES ASSUME Reentering(G, want, lims) PROVE FALSE
    OBVIOUS
  <2>1. PICK x \in ReentryItems, R \in Seq(Items(G)) : k = <<x>> \o R
    BY DEF Reentering
  <2>2. Head(k) = x /\ (x \in HandlerItems(G) <=> x.op \in HandlerOps) /\ x.op \in HandlerOps \cup ReentryOps
    BY <2>1, ReturnFacts, ReturnKinds
  <2>3. x.op \in ReentryOps
    BY <2>1 DEF ReentryItems, Reenters, LimitReenters, ReentryOps
  <2> QED BY <1>0, <1>1, <2>2, <2>3
<1>4. Handling(G, want, lims)
  BY <1>0, <1>2, <1>3 DEF Inv, Failing
<1>5. PICK x \in HandlerItems(G), R \in Seq(Items(G)) :
       /\ k = <<x>> \o R /\ Good(G, want, lims, R, b)
       /\ x.bb = want[b] /\ Power(R, 1, x.bb)
       /\ \A i \in 1 .. Len(cwil.limits) :
            \/ x.op = "limit_retry" /\ cwil.limits[i].block = b + 1
            \/ InForce(want, cwil.limits[i].block, b) /\ cwil.limits[i].block \in lims
  BY <1>4 DEF Handling
<1>6. Head(k) = x /\ Tail(k) = R
  BY <1>5, ReturnFacts
<1> QED BY <1>0, <1>4, <1>5, <1>6 DEF Rest

(* So is the item that enters a handler again. *)
LEMMA AtReentry ==
  ASSUME NEW G, Uncleaned(G), NEW want, NEW lims, Inv(G, want, lims), NEW op, At(op), op \in ReentryOps
  PROVE  /\ Head(k).op = op /\ Head(k) \in ReentryItems
         /\ Head(k).nbb = want[b] /\ InForce(want, Head(k).nbb, b)
         /\ (Head(k).nbb \in lims <=> op = "limit_reenter")
         /\ \A i \in 1 .. Len(cwil.limits) :
              /\ InForce(want, cwil.limits[i].block, b) /\ cwil.limits[i].block \in lims
              /\ cwil.limits[i].block < Head(k).nbb
<1>0. mode = "run" /\ k # <<>> /\ Head(k).op = op
  BY DEF At
<1>1. op \notin GoalOps \cup RefOps /\ op \notin HandlerOps
  BY DEF GoalOps, RefOps, ExitOps, HandlerOps, ReentryOps
<1>2. ~ Running(G, want, lims)
  <2> SUFFICES ASSUME Running(G, want, lims) PROVE FALSE
    OBVIOUS
  <2>1. k \in Seq(Items(G))
    BY DEF Running, Good
  <2>2. Head(k) \in Items(G)
    BY <1>0, <2>1, TailFacts
  <2> QED BY <1>0, <1>1, <2>2, ItemKinds
<1>3. ~ Handling(G, want, lims)
  <2> SUFFICES ASSUME Handling(G, want, lims) PROVE FALSE
    OBVIOUS
  <2>1. PICK x \in HandlerItems(G), R \in Seq(Items(G)) : k = <<x>> \o R
    BY DEF Handling
  <2>2. Head(k) = x /\ x.op \in HandlerOps
    BY <2>1, ReturnFacts, ReturnKinds
  <2> QED BY <1>0, <1>1, <2>2
<1>4. Reentering(G, want, lims)
  BY <1>0, <1>2, <1>3 DEF Inv, Failing
<1>5. PICK x \in ReentryItems, R \in Seq(Items(G)) :
       /\ k = <<x>> \o R
       /\ x.nbb = want[b] /\ InForce(want, x.nbb, b) /\ (x.nbb \in lims <=> x.op = "limit_reenter")
       /\ \A i \in 1 .. Len(cwil.limits) :
            /\ InForce(want, cwil.limits[i].block, b) /\ cwil.limits[i].block \in lims
            /\ cwil.limits[i].block < x.nbb
  BY <1>4 DEF Reentering
<1>6. Head(k) = x /\ Tail(k) = R
  BY <1>5, ReturnFacts
<1> QED BY <1>0, <1>5, <1>6

-----------------------------------------------------------------------------
(* The limits of the machine. *)

(* Where the handlers in force are. *)
LEMMA InForceFacts ==
  ASSUME NEW want, NEW lims, Ghosts(want, lims), NEW e, NEW h \in Nat, InForce(want, e, h)
  PROVE  e \in Nat /\ e >= 1 /\ e <= h /\ e <= want[h] /\ want[e] = e /\ want[h] \in Nat /\ want[h] <= h
<1>1. e \in 1 .. h /\ want[e] = e /\ \A a \in e .. h : want[a] >= e
  BY DEF InForce
<1>2. h \in e .. h /\ want[h] \in Nat /\ want[h] <= h
  BY <1>1 DEF Ghosts
<1> QED BY <1>1, <1>2

(* The types of the limits' record. *)
LEMMA LimitsTyped ==
  ASSUME NEW c \in Limitations
  PROVE  /\ c.local \in Nat /\ c.exceeded \in BOOLEAN /\ c.limits \in Seq([limit : Int, block : Nat])
         /\ Len(c.limits) \in Nat /\ DOMAIN c.limits = 1 .. Len(c.limits)
         /\ \A i \in 1 .. Len(c.limits) : c.limits[i].limit \in Int /\ c.limits[i].block \in Nat
<1>1. c.local \in Nat /\ c.exceeded \in BOOLEAN /\ c.limits \in Seq([limit : Int, block : Nat])
  BY DEF Limitations
<1>2. Len(c.limits) \in Nat /\ DOMAIN c.limits = 1 .. Len(c.limits)
  BY <1>1, LenProperties
<1>3. \A i \in 1 .. Len(c.limits) : c.limits[i] \in [limit : Int, block : Nat]
  BY <1>1, ElementOfSeq
<1> QED BY <1>1, <1>2, <1>3

(* What the installation of a limit changes. *)
LEMMA AddFacts ==
  ASSUME NEW c \in Limitations, NEW l \in Int, NEW bl \in Nat, Rising(c.limits),
         \A i \in 1 .. Len(c.limits) : c.limits[i].block < bl
  PROVE  /\ AddLimit(c, l, bl) \in Limitations /\ Rising(AddLimit(c, l, bl).limits)
         /\ AddLimit(c, l, bl).local = c.local /\ AddLimit(c, l, bl).exceeded = c.exceeded
         /\ \A i \in 1 .. Len(AddLimit(c, l, bl).limits) :
              \/ AddLimit(c, l, bl).limits[i].block = bl
              \/ i \in 1 .. Len(c.limits) /\ AddLimit(c, l, bl).limits[i] = c.limits[i]
<1> DEFINE m == l + c.local
           x == [limit |-> m, block |-> bl]
           d == [c EXCEPT !.limits = Append(c.limits, x)]
<1>1. AddLimit(c, l, bl) = c \/ AddLimit(c, l, bl) = d
  BY DEF AddLimit
<1>2. x \in [limit : Int, block : Nat]
  BY LimitsTyped
<1> HIDE DEF x
<1>3. /\ Append(c.limits, x) \in Seq([limit : Int, block : Nat]) /\ Len(Append(c.limits, x)) = Len(c.limits) + 1
      /\ Append(c.limits, x)[Len(c.limits) + 1] = x
      /\ \A i \in 1 .. Len(c.limits) : Append(c.limits, x)[i] = c.limits[i]
  BY <1>2, LimitsTyped, AppendProperties
<1>4. d \in Limitations /\ d.limits = Append(c.limits, x) /\ d.local = c.local /\ d.exceeded = c.exceeded
  BY <1>3 DEF Limitations
<1> HIDE DEF d
<1>5. Len(c.limits) \in Nat
  BY LimitsTyped
<1>6. \A i \in 1 .. Len(d.limits) : i = Len(c.limits) + 1 \/ i \in 1 .. Len(c.limits)
  BY <1>3, <1>4, <1>5
<1>7. x.block = bl
  BY DEF x
<1>8. \A i \in 1 .. Len(d.limits) : d.limits[i].block = bl \/ (i \in 1 .. Len(c.limits) /\ d.limits[i] = c.limits[i])
  BY <1>3, <1>4, <1>6, <1>7
<1>9. Rising(d.limits)
  <2> SUFFICES ASSUME NEW i \in 1 .. Len(d.limits), NEW j \in 1 .. Len(d.limits), i < j
               PROVE  d.limits[i].block < d.limits[j].block
    BY DEF Rising
  <2>1. i \in 1 .. Len(c.limits)
    BY <1>3, <1>4, <1>5
  <2>2. d.limits[i] = c.limits[i]
    BY <2>1, <1>3, <1>4
  <2>3. CASE j = Len(c.limits) + 1
    BY <2>1, <2>2, <2>3, <1>3, <1>4, <1>7
  <2>4. CASE j \in 1 .. Len(c.limits)
    <3>1. d.limits[j] = c.limits[j]
      BY <2>4, <1>3, <1>4
    <3> QED BY <2>1, <2>2, <2>4, <3>1 DEF Rising
  <2> QED BY <2>3, <2>4, <1>6
<1> QED BY <1>1, <1>4, <1>8, <1>9

(* Leaving a limit takes its entry away, if it is there. *)
Reduced(c, d, bl) ==
  \A i \in 1 .. Len(d.limits) : i \in 1 .. Len(c.limits) /\ d.limits[i] = c.limits[i] /\ d.limits[i].block < bl

(* What the removal of a limit changes. *)
LEMMA RemoveFacts ==
  ASSUME NEW c \in Limitations, NEW bl \in Nat, Rising(c.limits),
         \A i \in 1 .. Len(c.limits) : c.limits[i].block <= bl
  PROVE  /\ RemoveLimit(c, bl) \in Limitations /\ Rising(RemoveLimit(c, bl).limits)
         /\ RemoveLimit(c, bl).local = c.local /\ RemoveLimit(c, bl).exceeded = c.exceeded
         /\ Reduced(c, RemoveLimit(c, bl), bl)
<1> DEFINE r == RemoveLimit(c, bl)
<1>0. PICK n \in Nat : n = Len(c.limits)
  BY LimitsTyped
<1>00. c.limits \in Seq([limit : Int, block : Nat]) /\ \A i \in 1 .. n : c.limits[i].block \in Nat
  <2>1. c.limits \in Seq([limit : Int, block : Nat])
    BY LimitsTyped
  <2>2. \A i \in 1 .. n : c.limits[i].block \in Nat
    BY <1>0, LimitsTyped
  <2> QED BY <2>1, <2>2
<1>01. \A i \in 1 .. n : c.limits[i].block <= bl
  BY <1>0
<1>02. \A i, j \in 1 .. n : i < j => c.limits[i].block < c.limits[j].block
  BY <1>0 DEF Rising
<1>1. CASE n > 0 /\ c.limits[n].block = bl
  <2> DEFINE s == SubSeq(c.limits, 1, n - 1)
             q == [c EXCEPT !.limits = s]
  <2>1. r = q
    BY <1>0, <1>1 DEF RemoveLimit
  <2>2. s \in Seq([limit : Int, block : Nat]) /\ Len(s) = n - 1 /\ \A i \in 1 .. n - 1 : s[i] = c.limits[i]
    <3>1. n - 1 \in Nat /\ n - 1 <= Len(c.limits)
      BY <1>0, <1>1
    <3> QED BY <1>00, <3>1, FrontFacts
  <2> HIDE DEF s
  <2>3. q \in Limitations /\ q.limits = s /\ q.local = c.local /\ q.exceeded = c.exceeded
    BY <2>2 DEF Limitations
  <2> HIDE DEF q, r
  <2>4. \A i \in 1 .. Len(s) : i \in 1 .. n - 1 /\ i \in 1 .. n /\ i < n /\ n \in 1 .. n
    BY <1>1, <2>2
  <2>5. \A i \in 1 .. Len(s) : s[i] = c.limits[i] /\ s[i].block < bl
    BY <1>1, <1>02, <2>2, <2>4
  <2>6. \A i, j \in 1 .. Len(s) : i < j => s[i].block < s[j].block
    BY <1>02, <2>2, <2>4
  <2> QED BY <1>0, <2>1, <2>3, <2>4, <2>5, <2>6 DEF Rising, Reduced, r
<1>2. CASE ~ (n > 0 /\ c.limits[n].block = bl)
  <2>1. r = c
    BY <1>0, <1>2 DEF RemoveLimit
  <2>2. \A i \in 1 .. n : c.limits[i].block < bl
    <3> TAKE i \in 1 .. n
    <3>1. n > 0 /\ n \in 1 .. n
      OBVIOUS
    <3>2. c.limits[n].block # bl /\ c.limits[n].block <= bl /\ c.limits[n].block \in Nat
      BY <1>2, <3>1, <1>01, <1>00
    <3>3. CASE i = n
      BY <3>2, <3>3
    <3>4. CASE i < n
      <4>1. c.limits[i].block < c.limits[n].block /\ c.limits[i].block \in Nat
        BY <3>1, <3>4, <1>02, <1>00
      <4> QED BY <4>1, <3>2
    <3> QED BY <3>3, <3>4
  <2> QED BY <1>0, <2>1, <2>2 DEF Reduced
<1> QED BY <1>1, <1>2

(* Giving up the call policy forgets the count, never a limit. *)
LEMMA CheckFacts ==
  ASSUME NEW c \in Limitations, NEW same
  PROVE  /\ RemoveCallPolicyCheck(c, same) \in Limitations
         /\ RemoveCallPolicyCheck(c, same).limits = c.limits
         /\ \/ RemoveCallPolicyCheck(c, same) = c
            \/ same /\ c.limits = <<>>
<1> DEFINE z == [local |-> 0, limits |-> <<>>, exceeded |-> FALSE]
<1>1. z \in Limitations /\ z.limits = <<>>
  BY DEF Limitations
<1> HIDE DEF z
<1>2. CASE same /\ c.limits = <<>>
  BY <1>1, <1>2 DEF RemoveCallPolicyCheck, z
<1>3. CASE ~ (same /\ c.limits = <<>>)
  BY <1>3 DEF RemoveCallPolicyCheck
<1> QED BY <1>2, <1>3

-----------------------------------------------------------------------------
(* The invariant says who is in power. *)

(* A continuation with an item in front. *)
LEMMA OneItem ==
  ASSUME NEW G, NEW x \in HandlerItems(G) \cup ReentryItems, NEW R \in Seq(Items(G)), NEW kk, kk = <<x>> \o R
  PROVE  1 \in DOMAIN kk /\ kk[1] = x /\ Len(kk) \in Nat /\ DOMAIN kk = 1 .. Len(kk)
<1>1. x \in AllItems(G) /\ Items(G) \subseteq AllItems(G)
  BY DEF AllItems
<1>2. R \in Seq(AllItems(G))
  BY <1>1, SeqMonotonic
<1>3. kk \in Seq(AllItems(G))
  BY <1>1, <1>2, ConsFacts
<1>4. kk[1] = x
  BY <1>1, <1>2, ConsFacts
<1>5. kk # <<>>
  BY <1>1, <1>2, ConsFacts
<1>6. DOMAIN kk = 1 .. Len(kk) /\ Len(kk) \in Nat
  BY <1>3, LenProperties
<1>7. Len(kk) >= 1
  BY <1>3, <1>5, TailFacts
<1> QED BY <1>4, <1>6, <1>7

(* The invariant gives BlockMatchesContinuation. *)
LEMMA InvMatches ==
  ASSUME NEW G, Uncleaned(G), NEW want, NEW lims, Inv(G, want, lims)
  PROVE  BlockMatchesContinuation
<1> DEFINE H == Handled
           i == CHOOSE j \in H : \A m \in H : j <= m
<1> SUFFICES ASSUME mode = "run"
             PROVE  IF H = {} THEN block = 0 ELSE k[i].op \in Transits \/ (block = k[i].nbb /\ block <= b)
  BY DEF BlockMatchesContinuation
<1>1. CASE Running(G, want, lims)
  <2>1. k \in Seq(Items(G)) /\ Power(k, 1, block) /\ want[b] = block
    BY <1>1 DEF Running, Good
  <2>2. DOMAIN k = 1 .. Len(k) /\ Len(k) \in Nat
    BY <2>1, LenProperties
  <2>3. H = {j \in 1 .. Len(k) : k[j].op \in ExitOps}
    <3>1. \A j \in 1 .. Len(k) : k[j].op \in GoalOps \cup RefOps
      BY <2>1, ElementOfSeq, ItemKinds
    <3>2. \A op \in GoalOps \cup RefOps : op \in {"end_block", "limit_exit"} \cup Transits <=> op \in ExitOps
      BY DEF GoalOps, RefOps, ExitOps, Transits
    <3> QED BY <2>2, <3>1, <3>2 DEF Handled
  <2>4. block <= b
    BY <2>1 DEF Inv, Ghosts
  <2> HIDE DEF H
  <2>5. CASE block = 0 /\ \A j \in 1 .. Len(k) : k[j].op \notin ExitOps
    BY <2>3, <2>5
  <2>6. CASE \E j \in 1 .. Len(k) : /\ k[j].op \in ExitOps /\ k[j].nbb = block
                                    /\ \A m \in 1 .. (j - 1) : k[m].op \notin ExitOps
    <3>1. PICK j \in 1 .. Len(k) : /\ k[j].op \in ExitOps /\ k[j].nbb = block
                                   /\ \A m \in 1 .. (j - 1) : k[m].op \notin ExitOps
      BY <2>6
    <3>2. j \in H /\ \A m \in H : j <= m
      <4>1. \A m \in 1 .. Len(k) : m < j => m \in 1 .. (j - 1)
        BY <2>2
      <4> QED BY <2>2, <2>3, <3>1, <4>1
    <3>3. i \in H /\ \A m \in H : i <= m
      BY <3>2
    <3> HIDE DEF i
    <3>4. i = j
      BY <2>3, <3>1, <3>2, <3>3
    <3> QED BY <2>4, <3>1, <3>2, <3>4
  <2> QED BY <2>1, <2>5, <2>6 DEF Power
<1>2. ASSUME NEW x \in HandlerItems(G) \cup ReentryItems, NEW R \in Seq(Items(G)), k = <<x>> \o R
      PROVE  H # {} /\ k[i].op \in Transits
  <2>1. 1 \in DOMAIN k /\ k[1] = x /\ Len(k) \in Nat /\ DOMAIN k = 1 .. Len(k)
    BY <1>2, OneItem
  <2>2. x.op \in Transits
    BY ReturnKinds DEF HandlerOps, ReentryOps, Transits
  <2>3. 1 \in H /\ \A m \in H : 1 <= m
    BY <2>1, <2>2 DEF Handled
  <2>4. H \subseteq 1 .. Len(k)
    BY <2>1 DEF Handled
  <2> HIDE DEF H
  <2>5. i \in H /\ \A m \in H : i <= m
    BY <2>3
  <2> HIDE DEF i
  <2>6. i = 1
    BY <2>1, <2>3, <2>4, <2>5
  <2> QED BY <2>1, <2>2, <2>3, <2>6
<1>3. CASE Handling(G, want, lims)
  BY <1>2, <1>3 DEF Handling
<1>4. CASE Reentering(G, want, lims)
  BY <1>2, <1>4 DEF Reentering
<1> QED BY <1>1, <1>3, <1>4 DEF Inv, Failing

-----------------------------------------------------------------------------
(* Control. *)

(* A goal that comes up, and what comes after it. *)
LEMMA AtGoal ==
  ASSUME NEW G, Uncleaned(G), NEW want, NEW lims, Inv(G, want, lims), NEW op, At(op), op \in GoalOps
  PROVE  /\ Running(G, want, lims) /\ Head(k) \in G /\ Head(k).op = op
         /\ Rest \in Seq(Items(G)) /\ Good(G, want, lims, Rest, b) /\ Power(Rest, 1, block)
<1>1. /\ Running(G, want, lims) /\ k # <<>> /\ Head(k) \in Items(G) /\ Head(k).op = op
      /\ Tail(k) \in Seq(Items(G))
  BY AtItem
<1>2. op \notin RefOps /\ op \notin ExitOps
  BY DEF RefOps, ExitOps, GoalOps
<1>3. b \in Nat /\ want \in [Nat -> Nat]
  BY DEF Inv, Ghosts
<1>4. Good(G, want, lims, k, b) /\ Power(k, 1, block)
  BY <1>1 DEF Running
<1> DEFINE R == Tail(k)
<1>5. Good(G, want, lims, R, b)
  BY <1>1, <1>2, <1>3, <1>4, GoodTail
<1>6. Power(R, 1, block) <=> Power(k, 1, block)
  BY <1>1, <1>2, <1>3, <1>4, GoodTail
<1>7. Head(k) \in G
  BY <1>1, ItemKinds
<1> QED BY <1>1, <1>4, <1>5, <1>6, <1>7 DEF Rest

LEMMA TrueInv ==
  ASSUME NEW G, Uncleaned(G), NEW want, NEW lims, Inv(G, want, lims), True
  PROVE  Inv(G, want, lims)'
<1>1. At("true") /\ k' = Rest
  BY DEF True
<1>2. UNCHANGED <<mode, orf, b, block, scc, balls, conts, cleaning, cwil, spent>>
  BY DEF True, handlers, cleaners, limits
<1>3. Running(G, want, lims) /\ Good(G, want, lims, Rest, b) /\ Power(Rest, 1, block)
  BY <1>1, AtGoal DEF GoalOps
<1>4. Running(G, want, lims)'
  BY <1>1, <1>2, <1>3 DEF Running
<1> QED BY <1>2, <1>4 DEF Inv, NoCleaners

LEMMA FailInv ==
  ASSUME NEW G, Uncleaned(G), NEW want, NEW lims, Inv(G, want, lims), Fail
  PROVE  Inv(G, want, lims)'
<1>1. At("fail") /\ mode' = "fail"
  BY DEF Fail
<1>2. UNCHANGED <<orf, b, block, scc, balls, conts, cleaning, cwil, spent>>
  BY DEF Fail, handlers, cleaners, limits
<1>3. Running(G, want, lims)
  BY <1>1, AtItem DEF GoalOps
<1>4. Failing(G, want, lims)'
  BY <1>1, <1>2, <1>3 DEF Running, Failing
<1> QED BY <1>2, <1>4 DEF Inv, NoCleaners

LEMMA DoneInv ==
  ASSUME NEW G, NEW want, NEW lims, Inv(G, want, lims), Done \/ Exhausted
  PROVE  Inv(G, want, lims)'
<1>1. mode' = "done"
  BY DEF Done, Exhausted
<1>2. UNCHANGED <<orf, b, block, scc, balls, conts, cleaning, cwil, spent>>
  BY DEF Done, Exhausted, handlers, cleaners, limits
<1> QED BY <1>1, <1>2 DEF Inv, NoCleaners

(* A goal in front of a continuation. *)
LEMMA GoalFirst ==
  ASSUME NEW G, Uncleaned(G), NEW want \in [Nat -> Nat], NEW lims, NEW R, NEW h \in Nat, NEW x \in G,
         Good(G, want, lims, R, h)
  PROVE  /\ Good(G, want, lims, <<x>> \o R, h) /\ <<x>> \o R \in Seq(Items(G))
         /\ \A v : Power(<<x>> \o R, 1, v) <=> Power(R, 1, v)
<1>1. x \in Items(G) /\ x.op \in GoalOps
  BY DEF Items, Uncleaned
<1>2. x.op # "cut" /\ x.op \notin ExitOps
  BY <1>1 DEF GoalOps, ExitOps
<1>3. Fits(G, want, lims, x, R, h)
  BY <1>1, <1>2 DEF Fits
<1>4. Good(G, want, lims, <<x>> \o R, h)
  BY <1>3, GoodCons
<1>5. \A v : Power(<<x>> \o R, 1, v) <=> Power(R, 1, v)
  BY <1>2, <1>3, GoodCons
<1> QED BY <1>4, <1>5 DEF Good

LEMMA ConjunctionInv ==
  ASSUME NEW G, Uncleaned(G), NEW want, NEW lims, Inv(G, want, lims), Conjunction
  PROVE  Inv(G, want, lims)'
<1> DEFINE g == Head(k).g
           h == Head(k).h
           R == Rest
<1>1. At("and") /\ k' = <<g, h>> \o R
  BY DEF Conjunction
<1>2. UNCHANGED <<mode, orf, b, block, scc, balls, conts, cleaning, cwil, spent>>
  BY DEF Conjunction, handlers, cleaners, limits
<1>3. Running(G, want, lims) /\ Head(k) \in G /\ Head(k).op = "and"
  BY <1>1, AtGoal DEF GoalOps
<1>4. b \in Nat /\ want \in [Nat -> Nat]
  BY DEF Inv, Ghosts
<1>5. R \in Seq(Items(G)) /\ Good(G, want, lims, R, b) /\ Power(R, 1, block)
  BY <1>1, AtGoal DEF GoalOps
<1>6. g \in G /\ h \in G
  BY <1>3 DEF Uncleaned
<1> HIDE DEF g, h, R
<1>7. Good(G, want, lims, <<h>> \o R, b) /\ Power(<<h>> \o R, 1, block)
  BY <1>4, <1>5, <1>6, GoalFirst
<1>8. Good(G, want, lims, <<g>> \o (<<h>> \o R), b) /\ Power(<<g>> \o (<<h>> \o R), 1, block)
  BY <1>4, <1>6, <1>7, GoalFirst
<1>9. <<g, h>> \o R = <<g>> \o (<<h>> \o R)
  <2>1. g \in Items(G) /\ h \in Items(G)
    BY <1>6 DEF Items
  <2> QED BY <1>5, <2>1, TwoCons
<1>10. Good(G, want, lims, k', b) /\ Power(k', 1, block)
  BY <1>1, <1>8, <1>9
<1>11. Running(G, want, lims)'
  BY <1>2, <1>3, <1>10 DEF Running
<1> QED BY <1>2, <1>11 DEF Inv, NoCleaners

(* What holds at h still holds under a new frame, if it wants no older block. *)
LEMMA InForcePush ==
  ASSUME NEW want, NEW lims, NEW w, NEW lims2, NEW h \in Nat, NEW e, Ghosts(want, lims), Ghosts(w, lims2),
         Agree(want, lims, w, lims2, h), InForce(want, e, h), w[h + 1] >= e
  PROVE  InForce(w, e, h + 1)
<1>1. InForce(w, e, h)
  BY InForceAgree DEF Agree
<1>2. e \in 1 .. h /\ w[e] = e /\ \A a \in e .. h : w[a] >= e
  BY <1>1 DEF InForce
<1>3. \A a \in e .. (h + 1) : a \in e .. h \/ a = h + 1
  BY <1>2
<1>4. e \in 1 .. (h + 1)
  BY <1>2
<1> QED BY <1>2, <1>3, <1>4 DEF InForce

(* The limits installed stay in force under a new choice point. *)
LEMMA EnteredPush ==
  ASSUME NEW want, NEW lims, NEW w, NEW lims2, NEW h \in Nat, NEW s, Ghosts(want, lims), Ghosts(w, lims2),
         Agree(want, lims, w, lims2, h), Entered(want, lims, s, h),
         \A i \in 1 .. Len(s) : w[h + 1] >= s[i].block
  PROVE  Entered(w, lims2, s, h + 1)
<1> SUFFICES ASSUME NEW i \in 1 .. Len(s) PROVE InForce(w, s[i].block, h + 1) /\ s[i].block \in lims2
  BY DEF Entered
<1>1. InForce(want, s[i].block, h) /\ s[i].block \in lims /\ w[h + 1] >= s[i].block
  BY DEF Entered
<1>2. InForce(w, s[i].block, h + 1)
  BY <1>1, InForcePush
<1>3. s[i].block \in 1 .. h
  BY <1>1 DEF InForce
<1> QED BY <1>1, <1>2, <1>3 DEF Agree

LEMMA DisjunctionInv ==
  ASSUME NEW G, Uncleaned(G), NEW want, NEW lims, Inv(G, want, lims), Disjunction,
         NEW w, NEW lims2, Pushed(want, lims, w, lims2, b, want[b]), b + 1 \notin lims2
  PROVE  Inv(G, w, lims2)'
<1> DEFINE g == Head(k).g
           h == Head(k).h
           R == Rest
           tick == Atomic("tick")
           f == [alts |-> <<<<tick, h>> \o R>>, prev |-> b]
<1>1. At("or") /\ k' = <<g>> \o R /\ orf' = Append(SubSeq(orf, 1, b), f) /\ b' = b + 1
  BY DEF Disjunction, PushFrame
<1>2. UNCHANGED <<mode, block, scc, balls, conts, cleaning, cwil, spent>>
  BY DEF Disjunction, handlers, cleaners, limits
<1>3. Running(G, want, lims) /\ Head(k) \in G /\ Head(k).op = "or"
  BY <1>1, AtGoal DEF GoalOps
<1>4. b \in Nat /\ Ghosts(want, lims) /\ want \in [Nat -> Nat] /\ want[b] <= b /\ want[b] \in Nat
  BY DEF Inv, Ghosts
<1>5. R \in Seq(Items(G)) /\ Good(G, want, lims, R, b) /\ Power(R, 1, block) /\ want[b] = block
  BY <1>1, <1>3, AtGoal DEF GoalOps, Running
<1>6. g \in G /\ h \in G /\ tick \in G
  BY <1>3 DEF Uncleaned
<1>7. Ghosts(w, lims2) /\ Agree(want, lims, w, lims2, b) /\ w[b + 1] = want[b] /\ w[b] = want[b]
  BY <1>4, GhostsPush
<1> HIDE DEF g, h, R, tick
<1>8. w[b] = want[b] /\ w \in [Nat -> Nat]
  BY <1>7 DEF Ghosts
<1>9. Good(G, w, lims2, R, b)
  BY <1>4, <1>5, <1>7, GoodAgree
<1>10. Good(G, w, lims2, <<tick, h>> \o R, b) /\ <<tick, h>> \o R \in Seq(Items(G)) /\ Power(<<tick, h>> \o R, 1, block)
  <2>1. PICK T \in Seq(Items(G)) : T = <<h>> \o R
    <3>1. h \in Items(G)
      BY <1>6 DEF Items
    <3> QED BY <1>5, <3>1, ConsFacts
  <2>2. Good(G, w, lims2, T, b) /\ Power(T, 1, block)
    BY <1>4, <1>5, <1>6, <1>8, <1>9, <2>1, GoalFirst
  <2>3. <<tick, h>> \o R = <<tick>> \o T
    <3>1. tick \in Items(G) /\ h \in Items(G)
      BY <1>6 DEF Items
    <3> QED BY <1>5, <2>1, <3>1, TwoCons
  <2>4. Good(G, w, lims2, <<tick>> \o T, b) /\ <<tick>> \o T \in Seq(Items(G)) /\ Power(<<tick>> \o T, 1, block)
    BY <1>4, <1>6, <1>8, <2>2, GoalFirst
  <2> QED BY <2>3, <2>4
<1>11. Good(G, w, lims2, <<g>> \o R, b) /\ Power(<<g>> \o R, 1, block)
  BY <1>4, <1>5, <1>6, <1>8, <1>9, GoalFirst
<1>12. Good(G, w, lims2, <<g>> \o R, b + 1)
  <2>1. \A a \in (b + 1) .. (b + 1) : w[a] >= w[b]
    BY <1>4, <1>7, <1>8
  <2>2. b + 1 \in Nat /\ b <= b + 1
    BY <1>4
  <2> QED BY <1>4, <1>8, <1>11, <2>1, <2>2, GoodRaise
<1>13. FrameOK(G, w, lims2, f, b + 1)
  <2>1. (b + 1) - 1 = b /\ b + 1 \notin lims2
    <3>1. (b + 1) - 1 = b
      BY <1>4
    <3> QED BY <3>1
  <2>2. f.alts = <<<<tick, h>> \o R>> /\ f.prev = b
    OBVIOUS
  <2> HIDE DEF f
  <2>3. PlainFrame(G, w, lims2, f, b + 1)
    BY <1>5, <1>7, <1>8, <1>10, <2>1, <2>2 DEF PlainFrame
  <2> QED BY <2>1, <2>2, <2>3 DEF FrameOK
<1>14. f \in Frames(G)
  <2>1. <<tick, h>> \o R \in Seq(AllItems(G))
    <3>1. Items(G) \subseteq AllItems(G)
      BY DEF AllItems
    <3> QED BY <1>10, <3>1, SeqMonotonic
  <2> QED BY <1>4, <2>1, FrameTyped
<1> HIDE DEF f
<1>15. Stacked(G, w, lims2, orf', b + 1)
  BY <1>1, <1>4, <1>7, <1>13, <1>14, StackedPush DEF Inv
<1>16. Entered(w, lims2, cwil.limits, b + 1)
  <2>1. \A i \in 1 .. Len(cwil.limits) : w[b + 1] >= cwil.limits[i].block
    <3> TAKE i \in 1 .. Len(cwil.limits)
    <3>1. InForce(want, cwil.limits[i].block, b)
      BY <1>3 DEF Running, Entered
    <3> QED BY <1>4, <1>7, <3>1, InForceFacts
  <2> QED BY <1>3, <1>4, <1>7, <2>1, EnteredPush DEF Running
<1>17. Running(G, w, lims2)'
  BY <1>1, <1>2, <1>3, <1>5, <1>7, <1>11, <1>12, <1>16 DEF Running
<1> QED BY <1>1, <1>2, <1>4, <1>7, <1>15, <1>17 DEF Inv, NoCleaners

(* call/once: the cut leads back here. *)
LEMMA CallOnceInv ==
  ASSUME NEW G, Uncleaned(G), NEW want, NEW lims, Inv(G, want, lims), CallOnce
  PROVE  Inv(G, want, lims)'
<1> DEFINE g == Head(k).g
           x == [op |-> "cut", to |-> b]
           R == Rest
<1>1. At("once") /\ k' = <<g, x>> \o R
  BY DEF CallOnce
<1>2. UNCHANGED <<mode, orf, b, block, scc, balls, conts, cleaning, cwil, spent>>
  BY DEF CallOnce, handlers, cleaners, limits
<1>3. Running(G, want, lims) /\ Head(k) \in G /\ Head(k).op = "once"
  BY <1>1, AtGoal DEF GoalOps
<1>4. b \in Nat /\ want \in [Nat -> Nat]
  BY DEF Inv, Ghosts
<1>5. R \in Seq(Items(G)) /\ Good(G, want, lims, R, b) /\ Power(R, 1, block) /\ want[b] = block
  BY <1>1, <1>3, AtGoal DEF GoalOps, Running
<1>6. g \in G
  BY <1>3 DEF Uncleaned
<1>7. x \in Items(G) /\ x.op = "cut" /\ x.to = b
  BY <1>4 DEF Items, Cuts
<1> HIDE DEF g, x, R
<1>8. Fits(G, want, lims, x, R, b)
  <2>1. b \in 0 .. b /\ "cut" \notin ExitOps
    BY <1>4 DEF ExitOps
  <2> QED BY <1>5, <1>7, <2>1 DEF Fits
<1>9. Good(G, want, lims, <<x>> \o R, b)
  BY <1>4, <1>8, GoodCons
<1>10. Power(<<x>> \o R, 1, block)
  <2>1. x.op \notin ExitOps
    BY <1>7 DEF ExitOps
  <2>2. Power(<<x>> \o R, 1, block) <=> Power(R, 1, block)
    BY <1>4, <1>8, <2>1, GoodCons
  <2> QED BY <1>5, <2>2
<1>11. Good(G, want, lims, <<g>> \o (<<x>> \o R), b) /\ Power(<<g>> \o (<<x>> \o R), 1, block)
  BY <1>4, <1>6, <1>9, <1>10, GoalFirst
<1>12. <<g, x>> \o R = <<g>> \o (<<x>> \o R)
  <2>1. g \in Items(G)
    BY <1>6 DEF Items
  <2> QED BY <1>5, <1>7, <2>1, TwoCons
<1>13. Good(G, want, lims, k', b) /\ Power(k', 1, block)
  BY <1>1, <1>11, <1>12
<1>14. Running(G, want, lims)'
  BY <1>2, <1>3, <1>13 DEF Running
<1> QED BY <1>2, <1>14 DEF Inv, NoCleaners

(* The frames below the newest. *)
LEMMA StackedLess ==
  ASSUME NEW G, NEW want, NEW lims, NEW o, NEW h \in Nat \ {0}, Stacked(G, want, lims, o, h)
  PROVE  Stacked(G, want, lims, o, h - 1) /\ FrameOK(G, want, lims, o[h], h) /\ h - 1 \in Nat
<1>1. h - 1 \in Nat /\ h - 1 <= h /\ h \in 1 .. h
  OBVIOUS
<1>2. Stacked(G, want, lims, o, h - 1)
  BY <1>1, StackedLower
<1> QED BY <1>1, <1>2 DEF Stacked

(* Failing into the newest choice point. *)
LEMMA BacktrackInv ==
  ASSUME NEW G, Uncleaned(G), NEW want, NEW lims, Inv(G, want, lims), Backtrack
  PROVE  Inv(G, want, lims)'
<1> DEFINE f == orf[b]
<1>1. mode = "fail" /\ b > 0 /\ mode' = "run" /\ k' = Head(f.alts)
  BY DEF Backtrack
<1>2. UNCHANGED <<block, scc, balls, conts, cleaning, cwil, spent>>
  BY DEF Backtrack, handlers, cleaners, limits
<1>3. b \in Nat \ {0} /\ Ghosts(want, lims) /\ Stacked(G, want, lims, orf, b)
  BY <1>1 DEF Inv
<1>4. b - 1 \in Nat /\ Stacked(G, want, lims, orf, b - 1) /\ FrameOK(G, want, lims, f, b)
  BY <1>3, StackedLess
<1>5. want[b] = block /\ Entered(want, lims, cwil.limits, b)
  BY <1>1 DEF Inv, Running, Failing, Handling, Reentering
<1>6. \E kk : f.alts = <<kk>>
  BY <1>4 DEF FrameOK, PlainFrame, HandlerFrame, ReentryFrame
<1>7. b' = b - 1 /\ UNCHANGED orf /\ f.alts = <<k'>>
  <2>1. PICK kk : f.alts = <<kk>>
    BY <1>6
  <2>2. Len(f.alts) = 1 /\ Head(f.alts) = kk
    BY <2>1
  <2>3. f.prev = b - 1
    BY <1>4 DEF FrameOK
  <2> QED BY <1>1, <2>1, <2>2, <2>3 DEF Backtrack
<1> HIDE DEF f
<1>8. \A kk : f.alts = <<kk>> => kk = k'
  BY <1>7
<1>9. \A i \in 1 .. Len(cwil.limits) :
         /\ InForce(want, cwil.limits[i].block, b) /\ cwil.limits[i].block \in lims
         /\ cwil.limits[i].block <= b /\ cwil.limits[i].block <= want[b] /\ cwil.limits[i].block \in Nat
         /\ want[cwil.limits[i].block] = cwil.limits[i].block
  BY <1>3, <1>5, InForceFacts DEF Entered
<1>10. \A i \in 1 .. Len(cwil.limits) : cwil.limits[i].block # b => InForce(want, cwil.limits[i].block, b - 1)
  <2> TAKE i \in 1 .. Len(cwil.limits)
  <2> HAVE cwil.limits[i].block # b
  <2>1. cwil.limits[i].block <= b - 1 /\ b - 1 <= b
    BY <1>3, <1>9
  <2> QED BY <1>3, <1>4, <1>9, <2>1, InForceLower
<1>11. CASE PlainFrame(G, want, lims, f, b)
  <2>1. want[b] = want[b - 1] /\ b \notin lims
    BY <1>11 DEF PlainFrame
  <2>2. Good(G, want, lims, k', b - 1) /\ Power(k', 1, want[b - 1])
    BY <1>8, <1>11 DEF PlainFrame
  <2>3. Entered(want, lims, cwil.limits, b - 1)
    BY <1>9, <1>10, <2>1 DEF Entered
  <2>4. Running(G, want, lims)'
    BY <1>1, <1>2, <1>5, <1>7, <2>1, <2>2, <2>3 DEF Running
  <2> QED BY <1>2, <1>4, <1>7, <2>4 DEF Inv, NoCleaners
<1>12. CASE HandlerFrame(G, want, lims, f, b)
  <2>1. PICK x \in HandlerItems(G), R \in Seq(Items(G)) :
          /\ f.alts = <<<<x>> \o R>> /\ Good(G, want, lims, R, b - 1)
          /\ x.bb = want[b - 1] /\ Power(R, 1, x.bb)
          /\ b \in lims <=> x.op = "limit_retry"
    BY <1>12 DEF HandlerFrame
  <2>2. want[b] = b
    BY <1>12 DEF HandlerFrame
  <2>3. k' = <<x>> \o R
    BY <1>8, <2>1
  <2>4. block = b /\ b = (b - 1) + 1
    BY <1>3, <1>5, <2>2
  <2>5. \A i \in 1 .. Len(cwil.limits) :
            \/ x.op = "limit_retry" /\ cwil.limits[i].block = (b - 1) + 1
            \/ InForce(want, cwil.limits[i].block, b - 1) /\ cwil.limits[i].block \in lims
    BY <1>9, <1>10, <2>1, <2>4
  <2>6. Handling(G, want, lims)'
    BY <1>1, <1>2, <1>7, <2>1, <2>3, <2>4, <2>5 DEF Handling
  <2> QED BY <1>2, <1>4, <1>7, <2>6 DEF Inv, NoCleaners
<1>13. CASE ReentryFrame(G, want, lims, f, b)
  <2>1. PICK x \in ReentryItems, R \in Seq(Items(G)) :
          /\ f.alts = <<<<x>> \o R>>
          /\ x.nbb = want[b - 1] /\ InForce(want, x.nbb, b - 1) /\ want[b] = want[x.nbb - 1]
          /\ x.nbb \in lims <=> x.op = "limit_reenter"
    BY <1>13 DEF ReentryFrame
  <2>2. b \notin lims
    BY <1>13 DEF ReentryFrame
  <2>3. k' = <<x>> \o R
    BY <1>8, <2>1
  <2>4. x.nbb \in Nat /\ x.nbb >= 1 /\ want[x.nbb - 1] <= x.nbb - 1 /\ want[x.nbb - 1] \in Nat
    <3>1. x.nbb \in Nat /\ x.nbb >= 1
      BY <1>3, <1>4, <2>1, InForceFacts
    <3>2. x.nbb - 1 \in Nat
      BY <3>1
    <3> QED BY <1>3, <3>1, <3>2 DEF Ghosts
  <2>5. \A i \in 1 .. Len(cwil.limits) :
            /\ InForce(want, cwil.limits[i].block, b - 1) /\ cwil.limits[i].block \in lims
            /\ cwil.limits[i].block < x.nbb
    <3> TAKE i \in 1 .. Len(cwil.limits)
    <3>1. cwil.limits[i].block < x.nbb
      BY <1>9, <2>1, <2>4
    <3> QED BY <1>9, <1>10, <2>2, <3>1
  <2>6. Reentering(G, want, lims)'
    BY <1>1, <1>2, <1>7, <2>1, <2>3, <2>5 DEF Reentering
  <2> QED BY <1>2, <1>4, <1>7, <2>6 DEF Inv, NoCleaners
<1> QED BY <1>4, <1>11, <1>12, <1>13 DEF FrameOK

(* The limits installed stay in force after a cut that keeps their frames. *)
LEMMA EnteredLower ==
  ASSUME NEW want, NEW lims, NEW h \in Nat, NEW h1 \in Nat, NEW s, Ghosts(want, lims), h1 <= h,
         Entered(want, lims, s, h), want[h] <= h1
  PROVE  Entered(want, lims, s, h1)
<1> SUFFICES ASSUME NEW i \in 1 .. Len(s) PROVE InForce(want, s[i].block, h1) /\ s[i].block \in lims
  BY DEF Entered
<1>1. InForce(want, s[i].block, h) /\ s[i].block \in lims
  BY DEF Entered
<1>2. s[i].block \in Nat /\ s[i].block <= want[h] /\ want[h] \in Nat
  BY <1>1, InForceFacts
<1>3. s[i].block <= h1
  BY <1>2
<1> QED BY <1>1, <1>3, InForceLower

(* Nothing before a sequence. *)
LEMMA NothingFirst ==
  ASSUME NEW S, NEW R \in Seq(S)
  PROVE  <<>> \o R = R
<1>1. <<>> \in Seq(S) /\ Len(<<>>) = 0
  OBVIOUS
<1>2. <<>> \o R \in Seq(S) /\ Len(<<>> \o R) = Len(R) /\ \A i \in 1 .. Len(R) : (<<>> \o R)[i] = R[i]
  BY <1>1
<1> QED BY <1>2, SeqEqual

(* A cut leads to choice points made under the block that is in power. *)
LEMMA CutInv ==
  ASSUME NEW G, Uncleaned(G), NEW want, NEW lims, Inv(G, want, lims), Cut
  PROVE  Inv(G, want, lims)'
<1> DEFINE to == Head(k).to
           R == Tail(k)
<1>1. At("cut") /\ b' = Least(b, to) /\ k' = (IF CleanersDue(b') THEN <<RunCleaners>> ELSE <<>>) \o R
  BY DEF Cut, Rest
<1>2. UNCHANGED <<mode, orf, block, scc, balls, conts, cleaning, cwil, spent>>
  BY DEF Cut, handlers, cleaners, limits
<1>3. Running(G, want, lims) /\ k # <<>> /\ Head(k).op = "cut" /\ R \in Seq(Items(G))
  BY <1>1, AtItem DEF RefOps
<1>4. b \in Nat /\ Ghosts(want, lims) /\ want \in [Nat -> Nat]
  BY DEF Inv, Ghosts
<1>5. Good(G, want, lims, k, b) /\ Power(k, 1, block) /\ want[b] = block
  BY <1>3 DEF Running
<1>6. to \in 0 .. b /\ Good(G, want, lims, R, to)
  <2>1. to \in 0 .. b
    BY <1>3, <1>4, <1>5, GoodTail
  <2>2. Good(G, want, lims, R, to)
    BY <1>3, <1>4, <1>5, GoodTail
  <2> QED BY <2>1, <2>2
<1>7. Power(R, 1, want[to])
  BY <1>3, <1>4, <1>5, GoodTail
<1>8. Power(R, 1, block)
  <2>1. Head(k).op \notin ExitOps
    BY <1>3 DEF ExitOps
  <2> QED BY <1>3, <1>4, <1>5, <2>1, GoodTail
<1> HIDE DEF to, R
<1>9. block = want[to]
  <2>1. Len(R) \in Nat
    BY <1>3, LenProperties
  <2> QED BY <1>7, <1>8, <2>1, PowerUnique
<1>10. to \in Nat /\ to <= b /\ Least(b, to) = to
  BY <1>4, <1>6 DEF Least
<1>11. k' = R
  <2>1. ~ CleanersDue(b')
    BY DEF Inv, NoCleaners, CleanersDue
  <2> QED BY <1>1, <1>3, <2>1, NothingFirst
<1>12. want[b] <= to
  BY <1>4, <1>5, <1>9, <1>10 DEF Ghosts
<1>13. Entered(want, lims, cwil.limits, to)
  BY <1>3, <1>4, <1>10, <1>12, EnteredLower DEF Running
<1>14. Running(G, want, lims)'
  BY <1>1, <1>2, <1>3, <1>6, <1>8, <1>9, <1>10, <1>11, <1>13 DEF Running
<1>15. Stacked(G, want, lims, orf, to)
  BY <1>4, <1>10, StackedLower DEF Inv
<1> QED BY <1>1, <1>2, <1>10, <1>14, <1>15 DEF Inv, NoCleaners

-----------------------------------------------------------------------------
(* catch/3, throw/1 and call_with_inference_limit/3. *)

(* A handler is put on top: its frame, and its goal with the exit. *)
NewHandler(G, want, lims, lims2, x, y, g, R, h, bl) ==
  /\ x \in HandlerItems(G) /\ y \in Items(G) /\ g \in G
  /\ Good(G, want, lims, R, h) /\ Power(R, 1, bl) /\ want[h] = bl
  /\ x.bb = bl /\ (h + 1 \in lims2 <=> x.op = "limit_retry")
  /\ y.op \in ExitOps /\ y.nbb = h + 1 /\ y.bb = bl /\ (h + 1 \in lims2 <=> y.op = "limit_exit")

(* The frame and the continuation of a handler just installed. *)
LEMMA HandlerPush ==
  ASSUME NEW G, Uncleaned(G), NEW want, NEW lims, NEW w, NEW lims2, NEW o, NEW h \in Nat, NEW bl,
         NEW x, NEW y, NEW g, NEW R, NewHandler(G, want, lims, lims2, x, y, g, R, h, bl),
         Ghosts(want, lims), Pushed(want, lims, w, lims2, h, h + 1), Stacked(G, want, lims, o, h)
  PROVE  /\ Ghosts(w, lims2) /\ Agree(want, lims, w, lims2, h) /\ w[h + 1] = h + 1
         /\ Stacked(G, w, lims2, Append(SubSeq(o, 1, h), [alts |-> <<<<x>> \o R>>, prev |-> h]), h + 1)
         /\ Good(G, w, lims2, <<g, y>> \o R, h + 1) /\ Power(<<g, y>> \o R, 1, h + 1)
<1> DEFINE f == [alts |-> <<<<x>> \o R>>, prev |-> h]
<1>0. /\ x \in HandlerItems(G) /\ y \in Items(G) /\ g \in G
      /\ Good(G, want, lims, R, h) /\ Power(R, 1, bl) /\ want[h] = bl
      /\ x.bb = bl /\ (h + 1 \in lims2 <=> x.op = "limit_retry")
      /\ y.op \in ExitOps /\ y.nbb = h + 1 /\ y.bb = bl /\ (h + 1 \in lims2 <=> y.op = "limit_exit")
  BY DEF NewHandler
<1>1. Ghosts(w, lims2) /\ Agree(want, lims, w, lims2, h) /\ w[h + 1] = h + 1 /\ w[h] = want[h]
  BY GhostsPush
<1>2. w \in [Nat -> Nat] /\ h + 1 \in Nat /\ h <= h + 1 /\ (h + 1) - 1 = h
  <2>1. h + 1 \in Nat /\ h <= h + 1 /\ (h + 1) - 1 = h
    OBVIOUS
  <2> QED BY <1>1, <2>1 DEF Ghosts
<1>3. R \in Seq(Items(G)) /\ Good(G, w, lims2, R, h)
  <2>1. Good(G, w, lims2, R, h)
    BY <1>0, <1>1, GoodAgree
  <2> QED BY <2>1 DEF Good
<1>4. f \in Frames(G)
  <2>1. <<x>> \o R \in Seq(AllItems(G))
    BY <1>0, <1>3, ReturnFacts
  <2> QED BY <2>1, FrameTyped
<1>5. FrameOK(G, w, lims2, f, h + 1)
  <2>1. f.alts = <<<<x>> \o R>> /\ f.prev = h
    OBVIOUS
  <2> HIDE DEF f
  <2>2. HandlerFrame(G, w, lims2, f, h + 1)
    BY <1>0, <1>1, <1>2, <1>3, <2>1 DEF HandlerFrame
  <2> QED BY <1>2, <2>1, <2>2 DEF FrameOK
<1>6. Stacked(G, w, lims2, Append(SubSeq(o, 1, h), f), h + 1)
  BY <1>1, <1>4, <1>5, StackedPush
<1> HIDE DEF f
<1>7. Good(G, w, lims2, R, h + 1)
  <2>0. want[h] <= h /\ want[h] \in Nat
    BY DEF Ghosts
  <2>1. \A a \in (h + 1) .. (h + 1) : w[a] >= w[h]
    BY <1>1, <2>0
  <2> QED BY <1>2, <1>3, <2>1, GoodRaise
<1>8. InForce(w, h + 1, h + 1)
  <2>1. h + 1 \in 1 .. (h + 1) /\ \A a \in (h + 1) .. (h + 1) : w[a] >= h + 1
    BY <1>1
  <2> QED BY <1>1, <2>1 DEF InForce
<1>9. Fits(G, w, lims2, y, R, h + 1)
  <2>1. y.op # "cut"
    BY <1>0 DEF ExitOps
  <2>2. y.nbb - 1 = h /\ y.bb = w[y.nbb - 1]
    BY <1>0, <1>1, <1>2
  <2>3. InForce(w, y.nbb, h + 1) /\ Good(G, w, lims2, R, y.nbb - 1) /\ Power(R, 1, y.bb)
    BY <1>0, <1>3, <1>8, <2>2
  <2> QED BY <1>0, <1>7, <2>1, <2>2, <2>3 DEF Fits
<1>10. Good(G, w, lims2, <<y>> \o R, h + 1)
  BY <1>2, <1>9, GoodCons
<1>11. Power(<<y>> \o R, 1, h + 1)
  <2>1. Power(<<y>> \o R, 1, y.nbb)
    BY <1>0, <1>2, <1>9, GoodCons
  <2>2. y.nbb = h + 1
    BY <1>0
  <2> QED BY <2>1, <2>2
<1>12. Good(G, w, lims2, <<g>> \o (<<y>> \o R), h + 1) /\ Power(<<g>> \o (<<y>> \o R), 1, h + 1)
  BY <1>0, <1>2, <1>10, <1>11, GoalFirst
<1>13. <<g, y>> \o R = <<g>> \o (<<y>> \o R)
  <2>1. g \in Items(G)
    BY <1>0 DEF Items
  <2>2. y \in Items(G)
    BY <1>0
  <2>3. R \in Seq(Items(G))
    BY <1>3 DEF Good
  <2> QED BY <2>1, <2>2, <2>3, TwoCons
<1> QED BY <1>1, <1>6, <1>12, <1>13 DEF f

(* Every limit that counts stays in force under the new handler. *)
LEMMA EnteredUnder ==
  ASSUME NEW want, NEW lims, NEW w, NEW lims2, NEW h \in Nat, NEW s, Ghosts(want, lims), Ghosts(w, lims2),
         Agree(want, lims, w, lims2, h), w[h + 1] = h + 1, Entered(want, lims, s, h)
  PROVE  Entered(w, lims2, s, h + 1) /\ \A i \in 1 .. Len(s) : s[i].block < h + 1
<1>1. \A i \in 1 .. Len(s) : s[i].block \in Nat /\ s[i].block <= h
  BY InForceFacts DEF Entered
<1>2. \A i \in 1 .. Len(s) : w[h + 1] >= s[i].block /\ s[i].block < h + 1
  BY <1>1
<1>3. Entered(w, lims2, s, h + 1)
  BY <1>2, EnteredPush
<1> QED BY <1>2, <1>3

LEMMA CallCatchInv ==
  ASSUME NEW G, Uncleaned(G), NEW want, NEW lims, Inv(G, want, lims), CallCatch,
         NEW w, NEW lims2, Pushed(want, lims, w, lims2, b, b + 1), b + 1 \notin lims2
  PROVE  Inv(G, w, lims2)'
<1> DEFINE g == Head(k).g
           x == [op |-> "recover", bb |-> block, catcher |-> Head(k).catcher, r |-> Head(k).r]
           y == [op |-> "end_block", bb |-> block, nbb |-> b + 1]
           R == Rest
           f == [alts |-> <<<<x>> \o R>>, prev |-> b]
<1>1. At("catch") /\ k' = <<g, y>> \o R /\ orf' = Append(SubSeq(orf, 1, b), f) /\ b' = b + 1 /\ block' = b + 1
  BY DEF CallCatch, PushFrame
<1>2. UNCHANGED <<mode, scc, balls, conts, cleaning, cwil, spent>>
  BY DEF CallCatch, cleaners, limits
<1>3. Running(G, want, lims) /\ Head(k) \in G /\ Head(k).op = "catch"
  BY <1>1, AtGoal DEF GoalOps
<1>4. b \in Nat /\ b + 1 \in Nat /\ block \in Nat /\ Ghosts(want, lims) /\ Stacked(G, want, lims, orf, b)
  BY DEF Inv
<1>5. Good(G, want, lims, R, b) /\ Power(R, 1, block) /\ want[b] = block
  BY <1>1, <1>3, AtGoal DEF GoalOps, Running
<1>6. g \in G /\ x \in HandlerItems(G) /\ y \in Items(G)
  <2>1. g \in G /\ Head(k).r \in G
    BY <1>3 DEF Uncleaned
  <2>2. x \in Recovers(G)
    BY <1>3, <1>4, <2>1 DEF Recovers
  <2>3. y \in EndBlocks
    BY <1>4 DEF EndBlocks
  <2> QED BY <2>1, <2>2, <2>3 DEF HandlerItems, Items
<1>7. /\ x.bb = block /\ (b + 1 \in lims2 <=> x.op = "limit_retry") /\ y.op \in ExitOps /\ y.nbb = b + 1 /\ y.bb = block
      /\ (b + 1 \in lims2 <=> y.op = "limit_exit")
  BY DEF ExitOps
<1> HIDE DEF g, x, y, R
<1>77. NewHandler(G, want, lims, lims2, x, y, g, R, b, block)
  BY <1>5, <1>6, <1>7 DEF NewHandler
<1>8. /\ Ghosts(w, lims2) /\ Agree(want, lims, w, lims2, b) /\ w[b + 1] = b + 1
      /\ Stacked(G, w, lims2, Append(SubSeq(orf, 1, b), f), b + 1)
      /\ Good(G, w, lims2, <<g, y>> \o R, b + 1) /\ Power(<<g, y>> \o R, 1, b + 1)
  BY <1>4, <1>77, HandlerPush
<1>9. Entered(w, lims2, cwil.limits, b + 1)
  BY <1>3, <1>4, <1>8, EnteredUnder DEF Running
<1> HIDE DEF f
<1>10. Running(G, w, lims2)'
  BY <1>1, <1>2, <1>3, <1>8, <1>9 DEF Running
<1> QED BY <1>1, <1>2, <1>4, <1>8, <1>10 DEF Inv, NoCleaners

LEMMA CallLimitInv ==
  ASSUME NEW G, Uncleaned(G), NEW want, NEW lims, Inv(G, want, lims), CallLimit,
         NEW w, NEW lims2, Pushed(want, lims, w, lims2, b, b + 1), b + 1 \in lims2
  PROVE  Inv(G, w, lims2)'
<1> DEFINE g == Head(k).g
           l == Head(k).l
           x == [op |-> "limit_retry", bb |-> block, b |-> b]
           y == [op |-> "limit_exit", l |-> l, bb |-> block, nbb |-> b + 1, b |-> b,
                 count |-> cwil.local, id |-> Len(spent) + 1]
           R == Rest
           f == [alts |-> <<<<x>> \o R>>, prev |-> b]
<1>1. At("limit") /\ k' = <<g, y>> \o R /\ orf' = Append(SubSeq(orf, 1, b), f) /\ b' = b + 1 /\ block' = b + 1
  BY DEF CallLimit, PushFrame
<1>2. UNCHANGED <<mode, scc, balls, conts, cleaning>> /\ cwil' = AddLimit(cwil, l, b + 1)
      /\ spent' = Append(spent, [limit |-> l, used |-> 0])
  BY <1>1 DEF CallLimit, cleaners
<1>3. Running(G, want, lims) /\ Head(k) \in G /\ Head(k).op = "limit"
  BY <1>1, AtGoal DEF GoalOps
<1>4. b \in Nat /\ b + 1 \in Nat /\ block \in Nat /\ Ghosts(want, lims) /\ Stacked(G, want, lims, orf, b)
      /\ cwil \in Limitations /\ Rising(cwil.limits) /\ spent \in Seq(Accounts)
  BY DEF Inv
<1>5. Good(G, want, lims, R, b) /\ Power(R, 1, block) /\ want[b] = block
  BY <1>1, <1>3, AtGoal DEF GoalOps, Running
<1>6. g \in G /\ l \in Nat
  BY <1>3 DEF Uncleaned
<1>66. x \in HandlerItems(G) /\ y \in Items(G)
  <2>1. x \in Retries
    BY <1>4 DEF Retries
  <2>2. Len(spent) + 1 \in Nat /\ cwil.local \in Nat
    BY <1>4 DEF Limitations
  <2> HIDE DEF l
  <2>3. y \in LimitExits
    BY <1>4, <1>6, <2>2 DEF LimitExits
  <2> QED BY <2>1, <2>3 DEF HandlerItems, Items
<1>7. /\ x.bb = block /\ (b + 1 \in lims2 <=> x.op = "limit_retry") /\ y.op \in ExitOps /\ y.nbb = b + 1 /\ y.bb = block
      /\ (b + 1 \in lims2 <=> y.op = "limit_exit")
  BY DEF ExitOps
<1> HIDE DEF g, x, y, R, l
<1>77. NewHandler(G, want, lims, lims2, x, y, g, R, b, block)
  BY <1>5, <1>6, <1>66, <1>7 DEF NewHandler
<1>8. /\ Ghosts(w, lims2) /\ Agree(want, lims, w, lims2, b) /\ w[b + 1] = b + 1
      /\ Stacked(G, w, lims2, Append(SubSeq(orf, 1, b), f), b + 1)
      /\ Good(G, w, lims2, <<g, y>> \o R, b + 1) /\ Power(<<g, y>> \o R, 1, b + 1)
  BY <1>4, <1>77, HandlerPush
<1>9. Entered(w, lims2, cwil.limits, b + 1) /\ \A i \in 1 .. Len(cwil.limits) : cwil.limits[i].block < b + 1
  BY <1>3, <1>4, <1>8, EnteredUnder DEF Running
<1> HIDE DEF f
<1> DEFINE c == AddLimit(cwil, l, b + 1)
<1>10. /\ c \in Limitations /\ Rising(c.limits)
       /\ \A i \in 1 .. Len(c.limits) :
              \/ c.limits[i].block = b + 1
              \/ i \in 1 .. Len(cwil.limits) /\ c.limits[i] = cwil.limits[i]
  <2>1. l \in Int
    BY <1>6
  <2>2. c \in Limitations /\ Rising(c.limits)
    BY <1>4, <1>9, <2>1, AddFacts
  <2>3. \A i \in 1 .. Len(c.limits) :
              \/ c.limits[i].block = b + 1
              \/ i \in 1 .. Len(cwil.limits) /\ c.limits[i] = cwil.limits[i]
    BY <1>4, <1>9, <2>1, AddFacts
  <2> QED BY <2>2, <2>3
<1> HIDE DEF c
<1>11. InForce(w, b + 1, b + 1)
  <2>1. b + 1 \in 1 .. (b + 1) /\ \A a \in (b + 1) .. (b + 1) : w[a] >= b + 1
    BY <1>4, <1>8
  <2> QED BY <1>8, <2>1 DEF InForce
<1>12. Entered(w, lims2, c.limits, b + 1)
  BY <1>9, <1>10, <1>11 DEF Entered
<1>13. cwil' = c
  BY <1>2 DEF c
<1>14. spent' \in Seq(Accounts)
  <2>1. [limit |-> l, used |-> 0] \in Accounts
    BY <1>6 DEF Accounts
  <2> QED BY <1>2, <1>4, <2>1, AppendProperties
<1>15. Running(G, w, lims2)'
  BY <1>1, <1>2, <1>3, <1>8, <1>12, <1>13 DEF Running
<1> QED BY <1>1, <1>2, <1>4, <1>8, <1>10, <1>13, <1>14, <1>15 DEF Inv, NoCleaners

-----------------------------------------------------------------------------
(* Leaving a catch or a limit by its exit. *)

(* The limits that count are all older than v. *)
Older(want, lims, s, h, v) ==
  \A i \in 1 .. Len(s) : InForce(want, s[i].block, h) /\ s[i].block \in lims /\ s[i].block < v

(* The goal under the handler v is done; R is what comes after. *)
Leaves(G, want, lims, x, R, v, h) ==
  /\ x \in ReentryItems /\ x.nbb = v /\ (v \in lims <=> x.op = "limit_reenter")
  /\ InForce(want, v, h) /\ want[h] = v /\ Good(G, want, lims, R, v - 1)

(* The way back in, on top of the frames up to h. *)
WayBack(o, h, x, Q) == Append(SubSeq(o, 1, h), [alts |-> <<<<x>> \o Q>>, prev |-> h])

(* It left no choice point: the handler's own goes too. *)
LEMMA LeavePop ==
  ASSUME NEW G, NEW want, NEW lims, NEW x, NEW R, NEW o, NEW h \in Nat, NEW s, NEW Q \in Seq(Items(G)),
         Ghosts(want, lims), Stacked(G, want, lims, o, h),
         Leaves(G, want, lims, x, R, h, h), Older(want, lims, s, h, h)
  PROVE  /\ h - 1 \in Nat /\ o[h].prev = h - 1
         /\ Stacked(G, want, lims, WayBack(o, h, x, Q), h - 1)
         /\ Entered(want, lims, s, h - 1)
<1> DEFINE f == [alts |-> <<<<x>> \o Q>>, prev |-> h]
           o2 == Append(SubSeq(o, 1, h), f)
<1>1. h >= 1 /\ x \in ReentryItems
  <2>1. h \in 1 .. h
    BY DEF Leaves, InForce
  <2> QED BY <2>1 DEF Leaves
<1>2. h \in Nat \ {0} /\ h - 1 \in Nat /\ h - 1 <= h
  BY <1>1
<1>3. o[h].prev = h - 1
  BY <1>2, StackedLess DEF FrameOK
<1>4. f \in Frames(G)
  <2>1. <<x>> \o Q \in Seq(AllItems(G))
    BY <1>1, ReturnFacts
  <2> QED BY <2>1, FrameTyped
<1>5. o \in Seq(Frames(G)) /\ h <= Len(o)
  BY DEF Stacked
<1>6. o2 \in Seq(Frames(G)) /\ Len(o2) = h + 1 /\ \A a \in 1 .. h : o2[a] = o[a]
  BY <1>4, <1>5, PushFacts
<1> HIDE DEF o2
<1>7. Stacked(G, want, lims, o2, h - 1)
  <2>1. h - 1 <= Len(o2)
    BY <1>2, <1>6
  <2>2. \A a \in 1 .. (h - 1) : o2[a] = o[a]
    BY <1>2, <1>6
  <2>3. Agree(want, lims, want, lims, h - 1)
    BY DEF Agree
  <2> QED BY <1>2, <1>6, <2>1, <2>2, <2>3, StackedAgree
<1>8. Entered(want, lims, s, h - 1)
  <2> SUFFICES ASSUME NEW i \in 1 .. Len(s) PROVE InForce(want, s[i].block, h - 1) /\ s[i].block \in lims
    BY DEF Entered
  <2>1. InForce(want, s[i].block, h) /\ s[i].block \in lims /\ s[i].block < h
    BY DEF Older
  <2>2. s[i].block \in Nat
    BY <2>1, InForceFacts
  <2>3. s[i].block <= h - 1
    BY <2>1, <2>2
  <2> QED BY <1>2, <2>1, <2>3, InForceLower
<1> QED BY <1>2, <1>3, <1>7, <1>8 DEF o2, WayBack

(* It left some: the way back in is put on top of them. *)
LEMMA LeavePush ==
  ASSUME NEW G, NEW want, NEW lims, NEW w, NEW lims2, NEW x, NEW R, NEW v, NEW o, NEW h \in Nat, NEW s,
         NEW Q \in Seq(Items(G)),
         Ghosts(want, lims), Stacked(G, want, lims, o, h),
         Leaves(G, want, lims, x, R, v, h), Older(want, lims, s, h, v),
         Pushed(want, lims, w, lims2, h, want[v - 1]), h + 1 \notin lims2
  PROVE  /\ Ghosts(w, lims2) /\ w[h + 1] = want[v - 1]
         /\ Stacked(G, w, lims2, WayBack(o, h, x, Q), h + 1)
         /\ Good(G, w, lims2, R, h + 1) /\ Entered(w, lims2, s, h + 1)
<1> DEFINE f == [alts |-> <<<<x>> \o Q>>, prev |-> h]
<1>0. /\ x \in ReentryItems /\ x.nbb = v /\ (v \in lims <=> x.op = "limit_reenter")
      /\ InForce(want, v, h) /\ want[h] = v /\ Good(G, want, lims, R, v - 1)
  BY DEF Leaves
<1>1. Ghosts(w, lims2) /\ Agree(want, lims, w, lims2, h) /\ w[h + 1] = want[v - 1] /\ w[h] = want[h]
  <2>1. PICK u : u = want[v - 1]
    OBVIOUS
  <2>2. Pushed(want, lims, w, lims2, h, u)
    BY <2>1
  <2>3. Ghosts(w, lims2) /\ Agree(want, lims, w, lims2, h) /\ w[h + 1] = u /\ w[h] = want[h]
    BY <2>2, GhostsPush
  <2> QED BY <2>1, <2>3
<1>2. v \in Nat /\ v >= 1 /\ v <= h /\ v \in 1 .. h /\ v - 1 \in Nat /\ v - 1 <= h /\ v - 1 <= h + 1
      /\ h + 1 \in Nat /\ (h + 1) - 1 = h
  <2>1. v \in Nat /\ v >= 1 /\ v <= h
    BY <1>0, InForceFacts
  <2> QED BY <2>1
<1>3. w[v - 1] = want[v - 1] /\ (v \in lims2 <=> v \in lims)
  <2>1. v - 1 \in 0 .. h
    BY <1>2
  <2> QED BY <1>1, <1>2, <2>1 DEF Agree
<1>4. f \in Frames(G)
  <2>1. <<x>> \o Q \in Seq(AllItems(G))
    BY <1>0, ReturnFacts
  <2> QED BY <2>1, FrameTyped
<1>5. InForce(w, v, h)
  BY <1>0, <1>1, InForceAgree DEF Agree
<1>6. FrameOK(G, w, lims2, f, h + 1)
  <2>1. f.alts = <<<<x>> \o Q>> /\ f.prev = h
    OBVIOUS
  <2> HIDE DEF f
  <2>2. ReentryFrame(G, w, lims2, f, h + 1)
    BY <1>0, <1>1, <1>2, <1>3, <1>5, <2>1 DEF ReentryFrame
  <2> QED BY <1>2, <2>1, <2>2 DEF FrameOK
<1>7. Stacked(G, w, lims2, Append(SubSeq(o, 1, h), f), h + 1)
  BY <1>1, <1>4, <1>6, StackedPush
<1> HIDE DEF f
<1>8. Good(G, w, lims2, R, h + 1)
  <2>1. Agree(want, lims, w, lims2, v - 1)
    BY <1>1, <1>2, AgreeLower
  <2>2. Good(G, w, lims2, R, v - 1)
    BY <1>0, <1>2, <2>1, GoodAgree
  <2>3. want[v - 1] \in Nat /\ want[v - 1] <= v - 1
    BY <1>2 DEF Ghosts
  <2>4. \A a \in v .. h : w[a] >= v
    BY <1>5 DEF InForce
  <2>5. \A a \in ((v - 1) + 1) .. (h + 1) : w[a] >= w[v - 1]
    <3> TAKE a \in ((v - 1) + 1) .. (h + 1)
    <3>1. CASE a = h + 1
      BY <3>1, <1>1, <1>3, <2>3
    <3>2. CASE a # h + 1
      <4>1. a \in v .. h /\ a \in Nat
        BY <3>2, <1>2
      <4>2. w[a] >= v /\ w[a] \in Nat
        BY <4>1, <2>4, <1>1 DEF Ghosts
      <4> QED BY <4>2, <1>2, <1>3, <2>3
    <3> QED BY <3>1, <3>2
  <2>6. w \in [Nat -> Nat]
    BY <1>1 DEF Ghosts
  <2> QED BY <1>2, <2>2, <2>5, <2>6, GoodRaise
<1>9. Entered(w, lims2, s, h + 1)
  <2>1. Entered(want, lims, s, h)
    BY DEF Older, Entered
  <2>2. \A i \in 1 .. Len(s) : w[h + 1] >= s[i].block
    <3> TAKE i \in 1 .. Len(s)
    <3>1. InForce(want, s[i].block, h) /\ s[i].block < v
      BY DEF Older
    <3>2. s[i].block \in 1 .. h /\ \A a \in s[i].block .. h : want[a] >= s[i].block
      BY <3>1 DEF InForce
    <3>3. v - 1 \in s[i].block .. h
      BY <1>2, <3>1, <3>2
    <3> QED BY <1>1, <3>2, <3>3
  <2> QED BY <1>1, <2>1, <2>2, EnteredPush
<1> QED BY <1>1, <1>7, <1>8, <1>9 DEF f, WayBack

(* The exit of the innermost handler comes up: its handler is in power. *)
LEMMA AtExit ==
  ASSUME NEW G, Uncleaned(G), NEW want, NEW lims, Inv(G, want, lims), NEW op, At(op), op \in ExitOps
  PROVE  /\ Running(G, want, lims) /\ Head(k) \in Items(G) /\ Head(k).op = op
         /\ Rest \in Seq(Items(G)) /\ Head(k).nbb = block
         /\ InForce(want, block, b) /\ Head(k).bb = want[block - 1]
         /\ Good(G, want, lims, Rest, block - 1) /\ Power(Rest, 1, want[block - 1])
         /\ (block \in lims <=> op = "limit_exit")
         /\ \A i \in 1 .. Len(cwil.limits) :
              InForce(want, cwil.limits[i].block, b) /\ cwil.limits[i].block \in lims /\ cwil.limits[i].block <= block
<1> DEFINE y == Head(k)
           R == Tail(k)
<1>1. /\ Running(G, want, lims) /\ k # <<>> /\ y \in Items(G) /\ y.op = op
      /\ k \in Seq(Items(G)) /\ R \in Seq(Items(G))
  BY AtItem DEF RefOps
<1>2. b \in Nat /\ Ghosts(want, lims) /\ want \in [Nat -> Nat]
  BY DEF Inv, Ghosts
<1>3. Good(G, want, lims, k, b) /\ Power(k, 1, block) /\ want[b] = block
  BY <1>1 DEF Running
<1>4. y.op \in ExitOps
  BY <1>1
<1>5. InForce(want, y.nbb, b) /\ y.bb = want[y.nbb - 1] /\ Power(k, 1, y.nbb)
  <2>1. InForce(want, y.nbb, b)
    BY <1>1, <1>2, <1>3, <1>4, GoodTail
  <2>2. y.bb = want[y.nbb - 1]
    BY <1>1, <1>2, <1>3, <1>4, GoodTail
  <2>3. Power(k, 1, y.nbb)
    BY <1>1, <1>2, <1>3, <1>4, GoodTail
  <2> QED BY <2>1, <2>2, <2>3
<1>6. Good(G, want, lims, R, y.nbb - 1)
  BY <1>1, <1>2, <1>3, <1>4, GoodTail
<1>7. Power(R, 1, y.bb)
  BY <1>1, <1>2, <1>3, <1>4, GoodTail
<1>8. (y.nbb \in lims) <=> (y.op = "limit_exit")
  <2>1. k[1] = y /\ 1 \in 1 .. Len(k)
    BY <1>1, TailFacts
  <2>2. ExitOK(want, lims, k, 1, b)
    BY <1>3, <2>1 DEF Good
  <2> QED BY <1>4, <2>1, <2>2 DEF ExitOK
<1> HIDE DEF y, R
<1>9. y.nbb = block
  <2>1. Len(k) \in Nat
    BY <1>1, LenProperties
  <2> QED BY <1>3, <1>5, <2>1, PowerUnique
<1>10. \A i \in 1 .. Len(cwil.limits) :
              InForce(want, cwil.limits[i].block, b) /\ cwil.limits[i].block \in lims /\ cwil.limits[i].block <= block
  <2> TAKE i \in 1 .. Len(cwil.limits)
  <2>1. InForce(want, cwil.limits[i].block, b) /\ cwil.limits[i].block \in lims
    BY <1>1 DEF Running, Entered
  <2>2. cwil.limits[i].block <= want[b]
    BY <1>2, <2>1, InForceFacts
  <2> QED BY <1>3, <2>1, <2>2
<1> QED BY <1>1, <1>5, <1>6, <1>7, <1>8, <1>9, <1>10 DEF y, R, Rest

(* $reset_block and clean_up_block after the goal of a catch. *)
LEMMA EndBlockInv ==
  ASSUME NEW G, Uncleaned(G), NEW want, NEW lims, Inv(G, want, lims), EndBlock,
         NEW w, NEW lims2, Pushed(want, lims, w, lims2, b, want[block - 1]), b + 1 \notin lims2
  PROVE  /\ block = b => Inv(G, want, lims)'
         /\ block # b => Inv(G, w, lims2)'
<1> DEFINE x == [op |-> "reenter", nbb |-> block]
           R == Rest
           o2 == WayBack(orf, b, x, R)
<1>1. At("end_block") /\ "end_block" \in ExitOps
  BY DEF EndBlock, ExitOps
<1>2. /\ Running(G, want, lims) /\ R \in Seq(Items(G)) /\ Head(k).nbb = block
      /\ InForce(want, block, b) /\ Head(k).bb = want[block - 1]
      /\ Good(G, want, lims, R, block - 1) /\ Power(R, 1, want[block - 1]) /\ block \notin lims
  BY <1>1, AtExit
<1>3. \A i \in 1 .. Len(cwil.limits) :
         InForce(want, cwil.limits[i].block, b) /\ cwil.limits[i].block \in lims /\ cwil.limits[i].block <= block
  BY <1>1, AtExit
<1>4. orf' = o2 /\ b' = CleanUpBlock(block) /\ block' = want[block - 1] /\ k' = R
  BY <1>2 DEF EndBlock, WayBack
<1>5. UNCHANGED <<mode, scc, balls, conts, cleaning, cwil, spent>>
  BY DEF EndBlock, cleaners, limits
<1>6. b \in Nat /\ b + 1 \in Nat /\ block \in Nat /\ Ghosts(want, lims) /\ Stacked(G, want, lims, orf, b) /\ want[b] = block
      /\ cwil \in Limitations
  BY <1>2 DEF Inv, Running
<1>7. x \in ReentryItems /\ x.nbb = block /\ (block \in lims <=> x.op = "limit_reenter")
  <2>1. x \in Reenters
    BY <1>6 DEF Reenters
  <2> QED BY <1>2, <2>1 DEF ReentryItems
<1>8. Leaves(G, want, lims, x, R, block, b)
  BY <1>2, <1>6, <1>7 DEF Leaves
<1>9. Older(want, lims, cwil.limits, b, block)
  <2> SUFFICES ASSUME NEW i \in 1 .. Len(cwil.limits) PROVE cwil.limits[i].block < block
    BY <1>3 DEF Older
  <2>1. cwil.limits[i].block <= block /\ cwil.limits[i].block # block
    BY <1>2, <1>3
  <2>2. cwil.limits[i].block \in Nat /\ block \in Nat
    BY <1>6, LimitsTyped
  <2> QED BY <2>1, <2>2, Strict
<1>10. block - 1 \in Nat /\ want[block - 1] \in Nat
  <2>1. block >= 1
    BY <1>2, <1>6, InForceFacts
  <2>2. block - 1 \in Nat
    BY <1>6, <2>1
  <2> QED BY <1>6, <2>2 DEF Ghosts
<1> HIDE DEF x, R
<1>11. CASE block = b
  <2>1. Leaves(G, want, lims, x, R, b, b) /\ Older(want, lims, cwil.limits, b, b)
    BY <1>8, <1>9, <1>11
  <2> HIDE DEF o2
  <2>2. b - 1 \in Nat /\ orf[b].prev = b - 1 /\ Stacked(G, want, lims, o2, b - 1) /\ Entered(want, lims, cwil.limits, b - 1)
    <3>1. b - 1 \in Nat /\ orf[b].prev = b - 1
      BY <1>2, <1>6, <2>1, LeavePop
    <3>2. Stacked(G, want, lims, o2, b - 1)
      BY <1>2, <1>6, <2>1, LeavePop DEF o2
    <3>3. Entered(want, lims, cwil.limits, b - 1)
      BY <1>2, <1>6, <2>1, LeavePop
    <3> QED BY <3>1, <3>2, <3>3
  <2>3. b' = b - 1
    BY <1>4, <1>11, <2>2 DEF CleanUpBlock, PrevOf
  <2>4. Running(G, want, lims)'
    BY <1>2, <1>4, <1>5, <1>11, <2>2, <2>3 DEF Running
  <2>5. Inv(G, want, lims)'
    BY <1>4, <1>5, <1>6, <1>10, <2>2, <2>3, <2>4 DEF Inv, NoCleaners
  <2> QED BY <1>11, <2>5
<1>12. CASE block # b
  <2> HIDE DEF o2
  <2>1. /\ Ghosts(w, lims2) /\ w[b + 1] = want[block - 1] /\ Stacked(G, w, lims2, o2, b + 1)
        /\ Good(G, w, lims2, R, b + 1) /\ Entered(w, lims2, cwil.limits, b + 1)
    <3>1. Ghosts(w, lims2) /\ w[b + 1] = want[block - 1]
      BY <1>2, <1>6, <1>8, <1>9, LeavePush
    <3>2. Stacked(G, w, lims2, o2, b + 1)
      BY <1>2, <1>6, <1>8, <1>9, LeavePush DEF o2
    <3>3. Good(G, w, lims2, R, b + 1)
      BY <1>2, <1>6, <1>8, <1>9, LeavePush
    <3>4. Entered(w, lims2, cwil.limits, b + 1)
      BY <1>2, <1>6, <1>8, <1>9, LeavePush
    <3> QED BY <3>1, <3>2, <3>3, <3>4
  <2>3. b' = b + 1
    BY <1>4, <1>12 DEF CleanUpBlock
  <2>4. Running(G, w, lims2)'
    BY <1>2, <1>4, <1>5, <2>1, <2>3 DEF Running
  <2>5. Inv(G, w, lims2)'
    BY <1>4, <1>5, <1>6, <1>10, <2>1, <2>3, <2>4 DEF Inv, NoCleaners
  <2> QED BY <1>12, <2>5
<1> QED BY <1>11, <1>12

(* The way out of a limit: its entry goes, if nobody took it away yet. *)
LEMMA LimitExitInv ==
  ASSUME NEW G, Uncleaned(G), NEW want, NEW lims, Inv(G, want, lims), LimitExit,
         NEW w, NEW lims2, Pushed(want, lims, w, lims2, b, want[block - 1]), b + 1 \notin lims2
  PROVE  /\ block = b => Inv(G, want, lims)'
         /\ block # b => Inv(G, w, lims2)'
<1>0. PICK Q \in Seq(Items(G)) : Q = <<>>
  <2>1. <<>> \in Seq(Items(G))
    OBVIOUS
  <2> QED BY <2>1
<1> DEFINE diff == Head(k).l - (cwil.local - Head(k).count)
           x == [op |-> "limit_reenter", nbb |-> block, l |-> diff]
           R == Rest
           o2 == WayBack(orf, b, x, Q)
           c == RemoveLimit(cwil, block)
           d == RemoveCallPolicyCheck(c, b' = Head(k).b)
<1>1. At("limit_exit") /\ "limit_exit" \in ExitOps
  BY DEF LimitExit, ExitOps
<1>2. /\ Running(G, want, lims) /\ R \in Seq(Items(G)) /\ Head(k).nbb = block
      /\ InForce(want, block, b) /\ Head(k).bb = want[block - 1]
      /\ Good(G, want, lims, R, block - 1) /\ Power(R, 1, want[block - 1]) /\ block \in lims
  BY <1>1, AtExit
<1>3. \A i \in 1 .. Len(cwil.limits) :
         InForce(want, cwil.limits[i].block, b) /\ cwil.limits[i].block \in lims /\ cwil.limits[i].block <= block
  BY <1>1, AtExit
<1>4. orf' = o2 /\ b' = CleanUpBlock(block) /\ block' = want[block - 1] /\ k' = R /\ cwil' = d
  <2>1. <<x>> \o Q = <<x>>
    BY <1>0
  <2> QED BY <1>2, <2>1 DEF LimitExit, WayBack
<1>5. UNCHANGED <<mode, scc, balls, conts, cleaning, spent>>
  BY DEF LimitExit, cleaners
<1>6. b \in Nat /\ b + 1 \in Nat /\ block \in Nat /\ Ghosts(want, lims) /\ Stacked(G, want, lims, orf, b) /\ want[b] = block
      /\ cwil \in Limitations /\ Rising(cwil.limits)
  BY <1>2 DEF Inv, Running
<1>66. diff \in Int
  <2>1. Head(k) \in LimitExits
    <3>1. Head(k) \in Items(G) /\ Head(k).op = "limit_exit"
      BY <1>1, AtExit
    <3> QED BY <3>1, ItemKinds
  <2>2. Head(k).l \in Nat /\ Head(k).count \in Nat /\ cwil.local \in Nat
    BY <1>6, <2>1 DEF LimitExits, Limitations
  <2> QED BY <2>2
<1> HIDE DEF diff
<1>7. x \in ReentryItems /\ x.nbb = block /\ (block \in lims <=> x.op = "limit_reenter")
  <2>1. x \in LimitReenters
    BY <1>6, <1>66 DEF LimitReenters
  <2> QED BY <1>2, <2>1 DEF ReentryItems
<1>8. Leaves(G, want, lims, x, R, block, b)
  BY <1>2, <1>6, <1>7 DEF Leaves
<1>9. c \in Limitations /\ Rising(c.limits) /\ Reduced(cwil, c, block)
  <2>1. \A i \in 1 .. Len(cwil.limits) : cwil.limits[i].block <= block
    BY <1>3
  <2> QED BY <1>6, <2>1, RemoveFacts
<1> HIDE DEF c
<1>99. d \in Limitations /\ d.limits = c.limits
  <2>1. d \in Limitations
    BY <1>9, CheckFacts
  <2>2. d.limits = c.limits
    BY <1>9, CheckFacts
  <2> QED BY <2>1, <2>2
<1> HIDE DEF d
<1>13. Older(want, lims, d.limits, b, block)
  BY <1>3, <1>9, <1>99 DEF Older, Reduced
<1>10. block - 1 \in Nat /\ want[block - 1] \in Nat
  <2>1. block >= 1
    BY <1>2, <1>6, InForceFacts
  <2>2. block - 1 \in Nat
    BY <1>6, <2>1
  <2> QED BY <1>6, <2>2 DEF Ghosts
<1> HIDE DEF x, R
<1>11. CASE block = b
  <2>1. Leaves(G, want, lims, x, R, b, b) /\ Older(want, lims, d.limits, b, b)
    BY <1>8, <1>13, <1>11
  <2> HIDE DEF o2
  <2>2. b - 1 \in Nat /\ orf[b].prev = b - 1 /\ Stacked(G, want, lims, o2, b - 1) /\ Entered(want, lims, d.limits, b - 1)
    <3>1. b - 1 \in Nat /\ orf[b].prev = b - 1
      BY <1>6, <2>1, LeavePop
    <3>2. Stacked(G, want, lims, o2, b - 1)
      BY <1>6, <2>1, LeavePop DEF o2
    <3>3. Entered(want, lims, d.limits, b - 1)
      BY <1>6, <2>1, LeavePop
    <3> QED BY <3>1, <3>2, <3>3
  <2>3. b' = b - 1
    BY <1>4, <1>11, <2>2 DEF CleanUpBlock, PrevOf
  <2>4. Running(G, want, lims)'
    BY <1>2, <1>4, <1>5, <1>11, <2>2, <2>3 DEF Running
  <2>5. Inv(G, want, lims)'
    BY <1>4, <1>5, <1>6, <1>9, <1>99, <1>10, <2>2, <2>3, <2>4 DEF Inv, NoCleaners
  <2> QED BY <1>11, <2>5
<1>12. CASE block # b
  <2> HIDE DEF o2
  <2>1. /\ Ghosts(w, lims2) /\ w[b + 1] = want[block - 1] /\ Stacked(G, w, lims2, o2, b + 1)
        /\ Good(G, w, lims2, R, b + 1) /\ Entered(w, lims2, d.limits, b + 1)
    <3>1. Ghosts(w, lims2) /\ w[b + 1] = want[block - 1]
      BY <1>6, <1>8, <1>13, LeavePush
    <3>2. Stacked(G, w, lims2, o2, b + 1)
      BY <1>6, <1>8, <1>13, LeavePush DEF o2
    <3>3. Good(G, w, lims2, R, b + 1)
      BY <1>6, <1>8, <1>13, LeavePush
    <3>4. Entered(w, lims2, d.limits, b + 1)
      BY <1>6, <1>8, <1>13, LeavePush
    <3> QED BY <3>1, <3>2, <3>3, <3>4
  <2>3. b' = b + 1
    BY <1>4, <1>12 DEF CleanUpBlock
  <2>4. Running(G, w, lims2)'
    BY <1>2, <1>4, <1>5, <2>1, <2>3 DEF Running
  <2>5. Inv(G, w, lims2)'
    BY <1>4, <1>5, <1>6, <1>9, <1>99, <1>10, <2>1, <2>3, <2>4 DEF Inv, NoCleaners
  <2> QED BY <1>12, <2>5
<1> QED BY <1>11, <1>12

-----------------------------------------------------------------------------
(* Failing back into a goal that was left, and balls. *)

(* $reset_block when the machine backtracks into the goal of a catch or of a *)
(* limit: the handler is back in power.                                       *)
LEMMA ReenterInv ==
  ASSUME NEW G, Uncleaned(G), NEW want, NEW lims, Inv(G, want, lims), Reenter
  PROVE  Inv(G, want, lims)'
<1>1. At("reenter") /\ "reenter" \in ReentryOps
  BY DEF Reenter, ReentryOps
<1>2. block' = Head(k).nbb /\ mode' = "fail"
  BY DEF Reenter
<1>3. UNCHANGED <<orf, b, scc, balls, conts, cleaning, cwil, spent>>
  BY DEF Reenter, cleaners, limits
<1>4. Head(k) \in ReentryItems /\ Head(k).nbb = want[b]
  BY <1>1, AtReentry
<1>5. Entered(want, lims, cwil.limits, b)
  <2>1. \A i \in 1 .. Len(cwil.limits) : InForce(want, cwil.limits[i].block, b) /\ cwil.limits[i].block \in lims
    BY <1>1, AtReentry
  <2> QED BY <2>1 DEF Entered
<1>6. want[b] \in Nat
  BY DEF Inv, Ghosts
<1>7. Failing(G, want, lims)'
  BY <1>2, <1>3, <1>4, <1>5 DEF Failing
<1> QED BY <1>2, <1>3, <1>4, <1>6, <1>7 DEF Inv, NoCleaners

LEMMA LimitReenterInv ==
  ASSUME NEW G, Uncleaned(G), NEW want, NEW lims, Inv(G, want, lims), LimitReenter
  PROVE  Inv(G, want, lims)'
<1> DEFINE v == Head(k).nbb
           l == Head(k).l
           c == AddLimit(cwil, l, v)
<1>1. At("limit_reenter") /\ "limit_reenter" \in ReentryOps
  BY DEF LimitReenter, ReentryOps
<1>2. block' = v /\ mode' = "fail" /\ cwil' = c
  BY DEF LimitReenter
<1>3. UNCHANGED <<orf, b, scc, balls, conts, cleaning, spent>>
  BY DEF LimitReenter, cleaners
<1>4. Head(k) \in ReentryItems /\ v = want[b] /\ InForce(want, v, b) /\ v \in lims /\ Head(k).op = "limit_reenter"
  BY <1>1, AtReentry
<1>5. \A i \in 1 .. Len(cwil.limits) :
        InForce(want, cwil.limits[i].block, b) /\ cwil.limits[i].block \in lims /\ cwil.limits[i].block < v
  BY <1>1, AtReentry
<1>6. v \in Nat /\ l \in Int
  <2>1. Head(k) \in LimitReenters
    BY <1>4, ReturnKinds
  <2> QED BY <2>1 DEF LimitReenters
<1> HIDE DEF v, l
<1>7. cwil \in Limitations /\ Rising(cwil.limits)
  BY DEF Inv
<1>8. c \in Limitations /\ Rising(c.limits)
  BY <1>5, <1>6, <1>7, AddFacts
<1>9. \A i \in 1 .. Len(c.limits) :
              \/ c.limits[i].block = v
              \/ i \in 1 .. Len(cwil.limits) /\ c.limits[i] = cwil.limits[i]
  BY <1>5, <1>6, <1>7, AddFacts
<1> HIDE DEF c
<1>10. Entered(want, lims, c.limits, b)
  BY <1>4, <1>5, <1>9 DEF Entered
<1>11. Failing(G, want, lims)'
  BY <1>2, <1>3, <1>4, <1>10 DEF Failing
<1> QED BY <1>2, <1>3, <1>6, <1>8, <1>11 DEF Inv, NoCleaners

(* The handler in power has a choice point, and wants itself. *)
LEMMA Unwound ==
  ASSUME NEW G, NEW want, NEW lims, NEW o, NEW h \in Nat, NEW R, NEW v, NEW s,
         Ghosts(want, lims), Stacked(G, want, lims, o, h), Good(G, want, lims, R, h),
         Power(R, 1, v), want[h] = v, Entered(want, lims, s, h)
  PROVE  /\ v \in Nat /\ v <= h /\ want[v] = v
         /\ Stacked(G, want, lims, o, v) /\ Entered(want, lims, s, v)
<1>1. v \in Nat /\ v <= h
  BY DEF Ghosts
<1>2. want[v] = v
  <2>1. CASE v = 0
    <3>1. want[0] \in Nat /\ want[0] <= 0
      BY DEF Ghosts
    <3> QED BY <2>1, <3>1
  <2>2. CASE \E j \in 1 .. Len(R) : R[j].op \in ExitOps /\ R[j].nbb = v
    <3>1. PICK j \in 1 .. Len(R) : R[j].op \in ExitOps /\ R[j].nbb = v
      BY <2>2
    <3>2. ExitOK(want, lims, R, j, h)
      BY DEF Good
    <3>3. InForce(want, v, h)
      BY <3>1, <3>2 DEF ExitOK
    <3> QED BY <3>3 DEF InForce
  <2> QED BY <2>1, <2>2 DEF Power
<1>3. Stacked(G, want, lims, o, v)
  BY <1>1, StackedLower
<1>4. Entered(want, lims, s, v)
  BY <1>1, EnteredLower
<1> QED BY <1>1, <1>2, <1>3, <1>4

(* Unwinding goes to the given block, where no cleaner intervenes. *)
LEMMA UnwindFacts ==
  ASSUME scc = 0, NEW bl \in Nat, UnwindTo(bl, scc)
  PROVE  b' = bl /\ mode' = "fail"
  BY DEF UnwindTo

LEMMA SetBallInv ==
  ASSUME NEW G, Uncleaned(G), NEW want, NEW lims, Inv(G, want, lims), SetBall
  PROVE  Inv(G, want, lims)'
<1>1. At("throw") /\ UnwindTo(block, scc)
  BY DEF SetBall
<1>2. UNCHANGED <<orf, block, scc, balls, conts, cleaning, cwil, spent>>
  BY DEF SetBall, cleaners, limits
<1>3. Running(G, want, lims)
  BY <1>1, AtItem DEF GoalOps
<1>4. scc = 0 /\ block \in Nat /\ b \in Nat /\ Ghosts(want, lims) /\ Stacked(G, want, lims, orf, b)
  BY DEF Inv, NoCleaners
<1>5. b' = block /\ mode' = "fail"
  BY <1>1, <1>4, UnwindFacts
<1>6. want[block] = block /\ Stacked(G, want, lims, orf, block) /\ Entered(want, lims, cwil.limits, block)
  BY <1>3, <1>4, Unwound DEF Running
<1>7. Failing(G, want, lims)'
  BY <1>2, <1>5, <1>6 DEF Failing
<1> QED BY <1>2, <1>4, <1>5, <1>6, <1>7 DEF Inv, NoCleaners

(* The second clause of catch/4. *)
LEMMA RecoverInv ==
  ASSUME NEW G, Uncleaned(G), NEW want, NEW lims, Inv(G, want, lims), Recover
  PROVE  Inv(G, want, lims)'
<1> DEFINE x == Head(k)
           R == Rest
<1>1. At("recover") /\ "recover" \in HandlerOps
  BY DEF Recover, HandlerOps
<1>2. block' = x.bb /\ UNCHANGED <<orf, scc, conts, cleaning, cwil, spent>>
  BY DEF Recover, cleaners, limits
<1>3. x \in HandlerItems(G) /\ x.op = "recover" /\ Good(G, want, lims, R, b) /\ x.bb = want[b] /\ Power(R, 1, x.bb)
  BY <1>1, AtHandler
<1>4. Entered(want, lims, cwil.limits, b)
  <2>1. \A i \in 1 .. Len(cwil.limits) : InForce(want, cwil.limits[i].block, b) /\ cwil.limits[i].block \in lims
    BY <1>1, AtHandler
  <2> QED BY <2>1 DEF Entered
<1>5. scc = 0 /\ b \in Nat /\ Ghosts(want, lims) /\ want \in [Nat -> Nat] /\ Stacked(G, want, lims, orf, b) /\ mode = "run"
  BY <1>1 DEF Inv, NoCleaners, Ghosts, At
<1>6. x.bb \in Nat /\ x.r \in G
  <2>1. x \in Recovers(G)
    BY <1>3, ReturnKinds
  <2> QED BY <2>1 DEF Recovers
<1>7. CASE ball = AnyBall
  <2>1. mode' = "fail" /\ UNCHANGED <<k, b, balls>>
    BY <1>7 DEF Recover
  <2>2. Failing(G, want, lims)'
    BY <1>2, <1>3, <1>4, <2>1 DEF Failing
  <2> QED BY <1>2, <1>6, <2>1, <2>2 DEF Inv, NoCleaners
<1>8. CASE ball # AnyBall /\ Caught(x.catcher)
  <2>1. k' = <<x.r>> \o R /\ UNCHANGED <<mode, b, balls>>
    BY <1>8 DEF Recover
  <2> HIDE DEF x, R
  <2>2. Good(G, want, lims, <<x.r>> \o R, b) /\ Power(<<x.r>> \o R, 1, x.bb)
    BY <1>3, <1>5, <1>6, GoalFirst
  <2>3. Running(G, want, lims)'
    BY <1>2, <1>3, <1>4, <1>5, <2>1, <2>2 DEF Running
  <2> QED BY <1>2, <1>6, <2>1, <2>3 DEF Inv, NoCleaners
<1>9. CASE ball # AnyBall /\ ~ Caught(x.catcher)
  <2>1. UnwindTo(x.bb, scc) /\ UNCHANGED <<k, balls>>
    BY <1>9 DEF Recover
  <2> HIDE DEF x, R
  <2>2. b' = x.bb /\ mode' = "fail"
    BY <1>5, <1>6, <2>1, UnwindFacts
  <2>3. want[x.bb] = x.bb /\ Stacked(G, want, lims, orf, x.bb) /\ Entered(want, lims, cwil.limits, x.bb)
    <3>1. Good(G, want, lims, R, b) /\ Power(R, 1, x.bb) /\ want[b] = x.bb
      BY <1>3
    <3>2. b \in Nat /\ Ghosts(want, lims) /\ Stacked(G, want, lims, orf, b)
      BY <1>5
    <3> QED BY <3>1, <3>2, <1>4, Unwound
  <2>4. Failing(G, want, lims)'
    BY <1>2, <2>2, <2>3 DEF Failing
  <2> QED BY <1>2, <1>6, <2>1, <2>2, <2>3, <2>4 DEF Inv, NoCleaners
<1> QED BY <1>7, <1>8, <1>9

(* The second clause of call_with_inference_limit/4: the limit is over. *)
LEMMA LimitRetryInv ==
  ASSUME NEW G, Uncleaned(G), NEW want, NEW lims, Inv(G, want, lims), LimitRetry
  PROVE  Inv(G, want, lims)'
<1> DEFINE x == Head(k)
           R == Rest
           c == RemoveLimit(cwil, block)
           d == RemoveCallPolicyCheck(c, b = x.b)
<1>1. At("limit_retry") /\ "limit_retry" \in HandlerOps
  BY DEF LimitRetry, HandlerOps
<1>2. block' = x.bb /\ cwil' = d /\ UNCHANGED <<orf, scc, balls, conts, cleaning, spent>>
  BY DEF LimitRetry, cleaners
<1>3. x \in HandlerItems(G) /\ x.op = "limit_retry" /\ R \in Seq(Items(G))
      /\ Good(G, want, lims, R, b) /\ x.bb = want[b] /\ Power(R, 1, x.bb)
  BY <1>1, AtHandler
<1>4. \A i \in 1 .. Len(cwil.limits) :
         \/ cwil.limits[i].block = b + 1
         \/ InForce(want, cwil.limits[i].block, b) /\ cwil.limits[i].block \in lims
  BY <1>1, AtHandler
<1>5. scc = 0 /\ b \in Nat /\ Ghosts(want, lims) /\ want \in [Nat -> Nat] /\ Stacked(G, want, lims, orf, b) /\ mode = "run"
      /\ cwil \in Limitations /\ Rising(cwil.limits) /\ block \in Nat
  BY <1>1 DEF Inv, NoCleaners, Ghosts, At
<1>55. block = b + 1
  BY <1>1, AtHandler DEF Handling
<1>6. x.bb \in Nat
  BY <1>3, ReturnKinds
<1>7. \A i \in 1 .. Len(cwil.limits) : cwil.limits[i].block <= block
  <2> TAKE i \in 1 .. Len(cwil.limits)
  <2>1. CASE cwil.limits[i].block = b + 1
    BY <2>1, <1>5, <1>55
  <2>2. CASE InForce(want, cwil.limits[i].block, b)
    <3>1. cwil.limits[i].block \in Nat /\ cwil.limits[i].block <= b
      BY <1>5, <2>2, InForceFacts
    <3>2. b \in Nat /\ block \in Nat
      BY <1>5
    <3> QED BY <3>1, <3>2, <1>55, Below
  <2> QED BY <1>4, <2>1, <2>2
<1>8. c \in Limitations /\ Rising(c.limits) /\ Reduced(cwil, c, block)
  BY <1>5, <1>7, RemoveFacts
<1> HIDE DEF c
<1>9. d \in Limitations /\ d.limits = c.limits
  <2>1. d \in Limitations
    BY <1>8, CheckFacts
  <2>2. d.limits = c.limits
    BY <1>8, CheckFacts
  <2> QED BY <2>1, <2>2
<1> HIDE DEF d, x, R
<1>10. Entered(want, lims, d.limits, b)
  <2> SUFFICES ASSUME NEW i \in 1 .. Len(d.limits) PROVE InForce(want, d.limits[i].block, b) /\ d.limits[i].block \in lims
    BY DEF Entered
  <2>1. i \in 1 .. Len(cwil.limits) /\ d.limits[i] = cwil.limits[i] /\ d.limits[i].block < block
    BY <1>8, <1>9 DEF Reduced
  <2>2. cwil.limits[i].block # b + 1
    BY <2>1, <1>5, <1>55
  <2> QED BY <1>4, <2>1, <2>2
<1>11. CASE ball # AnyBall
  <2>1. UnwindTo(x.bb, scc) /\ UNCHANGED k
    BY <1>2, <1>11 DEF LimitRetry, x
  <2>2. b' = x.bb /\ mode' = "fail"
    BY <1>5, <1>6, <2>1, UnwindFacts
  <2>3. want[x.bb] = x.bb /\ Stacked(G, want, lims, orf, x.bb) /\ Entered(want, lims, d.limits, x.bb)
    <3>1. Good(G, want, lims, R, b) /\ Power(R, 1, x.bb) /\ want[b] = x.bb
      BY <1>3
    <3>2. b \in Nat /\ Ghosts(want, lims) /\ Stacked(G, want, lims, orf, b)
      BY <1>5
    <3> QED BY <3>1, <3>2, <1>10, Unwound
  <2>4. Failing(G, want, lims)'
    BY <1>2, <2>2, <2>3 DEF Failing
  <2> QED BY <1>2, <1>5, <1>6, <1>8, <1>9, <2>2, <2>3, <2>4 DEF Inv, NoCleaners
<1>12. CASE ball = AnyBall /\ cwil.exceeded
  <2>1. k' = R /\ UNCHANGED <<mode, b>>
    BY <1>12 DEF LimitRetry, R
  <2>2. Running(G, want, lims)'
    BY <1>2, <1>3, <1>5, <1>10, <2>1 DEF Running
  <2> QED BY <1>2, <1>5, <1>6, <1>8, <1>9, <2>1, <2>2 DEF Inv, NoCleaners
<1>13. CASE ball = AnyBall /\ ~ cwil.exceeded
  <2>1. mode' = "fail" /\ UNCHANGED <<k, b>>
    BY <1>13 DEF LimitRetry
  <2>2. Failing(G, want, lims)'
    BY <1>2, <1>3, <1>10, <2>1 DEF Failing
  <2> QED BY <1>2, <1>5, <1>6, <1>8, <1>9, <2>1, <2>2 DEF Inv, NoCleaners
<1> QED BY <1>11, <1>12, <1>13

-----------------------------------------------------------------------------
(* A counted call. *)

(* increment_call_count: a limit that is reached fails into its own frame,   *)
(* and takes the power from the handlers above it.                            *)
LEMMA IncrementCallCountInv ==
  ASSUME NEW G, Uncleaned(G), NEW want, NEW lims, Inv(G, want, lims), IncrementCallCount
  PROVE  Inv(G, want, lims)'
<1> DEFINE free == cwil.exceeded \/ ball # AnyBall \/ Len(cwil.limits) = 0
<1>1. At("tick") /\ UNCHANGED <<orf, scc, balls, conts, cleaning>>
  BY DEF IncrementCallCount, cleaners
<1>2. /\ Running(G, want, lims) /\ Rest \in Seq(Items(G)) /\ Good(G, want, lims, Rest, b) /\ Power(Rest, 1, block)
  BY <1>1, AtGoal DEF GoalOps
<1>3. /\ scc = 0 /\ b \in Nat /\ block \in Nat /\ Ghosts(want, lims) /\ Stacked(G, want, lims, orf, b)
      /\ cwil \in Limitations /\ Rising(cwil.limits) /\ spent \in Seq(Accounts)
  BY DEF Inv, NoCleaners
<1>4. mode = "run" /\ want[b] = block /\ Entered(want, lims, cwil.limits, b)
  BY <1>2 DEF Running
<1>5. CASE ~ free /\ Reached(cwil)
  <2>1. PICK n \in Nat : n = Len(cwil.limits)
    BY <1>3, LimitsTyped
  <2> DEFINE e == cwil.limits[n].block
             c == [cwil EXCEPT !.exceeded = TRUE]
  <2>2. block' = e /\ UnwindTo(e, scc) /\ cwil' = c /\ UNCHANGED <<k, spent>>
    BY <1>5, <2>1 DEF IncrementCallCount
  <2>3. c \in Limitations /\ c.limits = cwil.limits
    BY <1>3 DEF Limitations
  <2>4. n \in 1 .. n
    BY <1>5, <2>1
  <2>5. \A i \in 1 .. n : /\ InForce(want, cwil.limits[i].block, b) /\ cwil.limits[i].block \in lims
                          /\ cwil.limits[i].block \in Nat
    BY <1>3, <1>4, <2>1, LimitsTyped DEF Entered
  <2>6. \A i \in 1 .. n : cwil.limits[i].block <= e
    <3> TAKE i \in 1 .. n
    <3>1. CASE i = n
      BY <3>1, <2>5
    <3>2. CASE i < n
      <4>1. cwil.limits[i].block < cwil.limits[n].block
        BY <3>2, <1>3, <2>1, <2>4 DEF Rising
      <4> QED BY <4>1, <2>4, <2>5
    <3> QED BY <3>1, <3>2
  <2> HIDE DEF c
  <2>7. e \in Nat /\ e <= b /\ want[e] = e
    BY <1>3, <2>4, <2>5, InForceFacts
  <2> HIDE DEF e
  <2>8. \A i \in 1 .. n : InForce(want, cwil.limits[i].block, e)
    BY <1>3, <2>5, <2>6, <2>7, InForceLower
  <2>9. Entered(want, lims, c.limits, e)
    BY <2>1, <2>3, <2>5, <2>8 DEF Entered
  <2>10. b' = e /\ mode' = "fail"
    BY <1>3, <2>2, <2>7, UnwindFacts
  <2>11. Stacked(G, want, lims, orf, e)
    BY <1>3, <2>7, StackedLower
  <2>12. Failing(G, want, lims)'
    BY <2>2, <2>7, <2>9, <2>10 DEF Failing
  <2> QED BY <1>1, <1>3, <2>2, <2>3, <2>7, <2>10, <2>11, <2>12 DEF Inv, NoCleaners
<1>6. CASE free \/ ~ Reached(cwil)
  <2> DEFINE c == IF free THEN cwil ELSE [cwil EXCEPT !.local = @ + 1]
  <2>1. /\ cwil' = c /\ k' = Rest /\ UNCHANGED <<mode, b, block>>
        /\ spent' = [i \in DOMAIN spent |-> IF Active(i) THEN [spent[i] EXCEPT !.used = @ + 1] ELSE spent[i]]
    BY <1>6 DEF IncrementCallCount
  <2>2. c \in Limitations /\ c.limits = cwil.limits
    BY <1>3 DEF Limitations
  <2> HIDE DEF c
  <2>3. spent' \in Seq(Accounts)
    <3>1. PICK n \in Nat : n = Len(spent) /\ DOMAIN spent = 1 .. n
      BY <1>3, LenProperties
    <3>2. \A i \in 1 .. n : spent[i] \in Accounts
      BY <1>3, <3>1, ElementOfSeq
    <3>3. \A i \in 1 .. n : [spent[i] EXCEPT !.used = @ + 1] \in Accounts
      BY <3>2 DEF Accounts
    <3>4. spent' \in [1 .. n -> Accounts]
      BY <2>1, <3>1, <3>2, <3>3
    <3> QED BY <3>4, SeqDef
  <2>4. Running(G, want, lims)'
    BY <1>2, <1>4, <2>1, <2>2 DEF Running
  <2> QED BY <1>1, <1>3, <2>1, <2>2, <2>3, <2>4 DEF Inv, NoCleaners
<1> QED BY <1>5, <1>6

-----------------------------------------------------------------------------
(* Every step. *)

Described(G) == \E want, lims : Inv(G, want, lims)

(* There are ghosts for a choice point just made. *)
LEMMA SomeGhosts ==
  ASSUME NEW want, NEW lims, Ghosts(want, lims), NEW h \in Nat, NEW v \in Nat, v <= h + 1
  PROVE  /\ \E w, ls : Pushed(want, lims, w, ls, h, v) /\ h + 1 \notin ls
         /\ \E w, ls : Pushed(want, lims, w, ls, h, v) /\ h + 1 \in ls
<1>1. Pushed(want, lims, [want EXCEPT ![h + 1] = v], lims \ {h + 1}, h, v)
  BY DEF Pushed
<1>2. Pushed(want, lims, [want EXCEPT ![h + 1] = v], lims \cup {h + 1}, h, v)
  BY DEF Pushed
<1>3. h + 1 \notin lims \ {h + 1} /\ h + 1 \in lims \cup {h + 1}
  OBVIOUS
<1> QED BY <1>1, <1>2, <1>3

(* Stuttering keeps the invariant. *)
LEMMA StutterInv ==
  ASSUME NEW G, NEW want, NEW lims, Inv(G, want, lims), UNCHANGED vars
  PROVE  Inv(G, want, lims)'
<1>1. UNCHANGED <<mode, k, orf, b, block, scc, balls, conts, cleaning, cwil, spent>>
  BY DEF vars
<1> QED BY <1>1 DEF Inv, NoCleaners, Running, Failing, Handling, Reentering

(* The block a handler's exit brings back. *)
LEMMA ExitBlock ==
  ASSUME NEW G, Uncleaned(G), NEW want, NEW lims, Inv(G, want, lims), NEW op, At(op), op \in ExitOps
  PROVE  \E w, ls : Pushed(want, lims, w, ls, b, want[block - 1]) /\ b + 1 \notin ls
<1>1. b \in Nat /\ Ghosts(want, lims)
  BY DEF Inv
<1>2. InForce(want, block, b)
  BY AtExit
<1>3. block \in Nat /\ block >= 1 /\ block <= b
  BY <1>1, <1>2, InForceFacts
<1>4. block - 1 \in Nat
  BY <1>3
<1>5. want[block - 1] \in Nat /\ want[block - 1] <= block - 1
  BY <1>1, <1>4 DEF Ghosts
<1>6. want[block - 1] <= b + 1
  BY <1>1, <1>3, <1>5
<1> QED BY <1>1, <1>5, <1>6, SomeGhosts

LEMMA ControlInv ==
  ASSUME NEW G, Uncleaned(G), NEW want, NEW lims, Inv(G, want, lims), Control
  PROVE  \E w, ls : Inv(G, w, ls)'
<1>1. CASE True
  BY <1>1, TrueInv
<1>2. CASE Fail
  BY <1>2, FailInv
<1>3. CASE Conjunction
  BY <1>3, ConjunctionInv
<1>4. CASE Disjunction
  <2>1. b \in Nat /\ Ghosts(want, lims) /\ want[b] \in Nat /\ want[b] <= b + 1
    BY DEF Inv, Ghosts
  <2>2. PICK w, ls : Pushed(want, lims, w, ls, b, want[b]) /\ b + 1 \notin ls
    BY <2>1, SomeGhosts
  <2>3. Inv(G, w, ls)'
    BY <1>4, <2>2, DisjunctionInv
  <2> QED BY <2>3
<1>5. CASE CallOnce
  BY <1>5, CallOnceInv
<1>6. CASE Done \/ Exhausted
  BY <1>6, DoneInv
<1>7. CASE Backtrack
  BY <1>7, BacktrackInv
<1>8. CASE Cut
  BY <1>8, CutInv
<1>9. CASE SetCpByDefault
  <2>1. At("set_cp")
    BY <1>9 DEF SetCpByDefault
  <2>2. "set_cp" \in GoalOps \cup RefOps \cup HandlerOps \cup ReentryOps
    BY <2>1, NoCleanup
  <2> QED BY <2>2 DEF GoalOps, RefOps, ExitOps, HandlerOps, ReentryOps
<1> QED BY <1>1, <1>2, <1>3, <1>4, <1>5, <1>6, <1>7, <1>8, <1>9 DEF Control

LEMMA HandlersInv ==
  ASSUME NEW G, Uncleaned(G), NEW want, NEW lims, Inv(G, want, lims), Handlers
  PROVE  \E w, ls : Inv(G, w, ls)'
<1>0. b \in Nat /\ b + 1 \in Nat /\ Ghosts(want, lims)
  BY DEF Inv
<1>1. CASE CallCatch
  <2>1. PICK w, ls : Pushed(want, lims, w, ls, b, b + 1) /\ b + 1 \notin ls
    BY <1>0, SomeGhosts
  <2>2. Inv(G, w, ls)'
    BY <1>1, <2>1, CallCatchInv
  <2> QED BY <2>2
<1>2. CASE EndBlock
  <2>1. At("end_block") /\ "end_block" \in ExitOps
    BY <1>2 DEF EndBlock, ExitOps
  <2>4. PICK w, ls : Pushed(want, lims, w, ls, b, want[block - 1]) /\ b + 1 \notin ls
    BY <2>1, ExitBlock
  <2>5. block = b => Inv(G, want, lims)'
    BY <1>2, <2>4, EndBlockInv
  <2>6. block # b => Inv(G, w, ls)'
    BY <1>2, <2>4, EndBlockInv
  <2> QED BY <2>5, <2>6
<1>3. CASE Reenter
  BY <1>3, ReenterInv
<1>4. CASE SetBall
  BY <1>4, SetBallInv
<1>5. CASE Recover
  BY <1>5, RecoverInv
<1> QED BY <1>1, <1>2, <1>3, <1>4, <1>5 DEF Handlers

LEMMA CleanersInv ==
  ASSUME NEW G, Uncleaned(G), NEW want, NEW lims, Inv(G, want, lims), Cleaners
  PROVE  FALSE
<1>1. PICK op \in {"scc", "scc_exit", "scc_ball", "rethrow", "clean_h", "clean", "restore"} : At(op)
  BY DEF Cleaners, CallScc, SccExit, SccBall, Rethrow, RunCleanersWithHandling, RunCleanersWithoutHandling,
         CleanersLoop, RestoreCutPolicy
<1>2. op \in GoalOps \cup RefOps \cup HandlerOps \cup ReentryOps
  BY <1>1, NoCleanup
<1> QED BY <1>2 DEF GoalOps, RefOps, ExitOps, HandlerOps, ReentryOps

LEMMA LimitsInv ==
  ASSUME NEW G, Uncleaned(G), NEW want, NEW lims, Inv(G, want, lims), Limits
  PROVE  \E w, ls : Inv(G, w, ls)'
<1>0. b \in Nat /\ b + 1 \in Nat /\ Ghosts(want, lims)
  BY DEF Inv
<1>1. CASE CallLimit
  <2>1. PICK w, ls : Pushed(want, lims, w, ls, b, b + 1) /\ b + 1 \in ls
    BY <1>0, SomeGhosts
  <2>2. Inv(G, w, ls)'
    BY <1>1, <2>1, CallLimitInv
  <2> QED BY <2>2
<1>2. CASE LimitExit
  <2>1. At("limit_exit") /\ "limit_exit" \in ExitOps
    BY <1>2 DEF LimitExit, ExitOps
  <2>4. PICK w, ls : Pushed(want, lims, w, ls, b, want[block - 1]) /\ b + 1 \notin ls
    BY <2>1, ExitBlock
  <2>5. block = b => Inv(G, want, lims)'
    BY <1>2, <2>4, LimitExitInv
  <2>6. block # b => Inv(G, w, ls)'
    BY <1>2, <2>4, LimitExitInv
  <2> QED BY <2>5, <2>6
<1>3. CASE LimitReenter
  BY <1>3, LimitReenterInv
<1>4. CASE LimitRetry
  BY <1>4, LimitRetryInv
<1>5. CASE IncrementCallCount
  BY <1>5, IncrementCallCountInv
<1> QED BY <1>1, <1>2, <1>3, <1>4, <1>5 DEF Limits

LEMMA InitInv ==
  ASSUME NEW G, Uncleaned(G), Programs \subseteq G, Init
  PROVE  Described(G)
<1> DEFINE want == [a \in Nat |-> 0]
           lims == {}
<1>1. PICK g \in G : k = <<g>>
  BY DEF Init
<1>2. /\ mode = "run" /\ orf = <<>> /\ b = 0 /\ block = 0 /\ scc = 0 /\ balls = <<>> /\ conts = <<>> /\ cleaning = FALSE
      /\ cwil = [local |-> 0, limits |-> <<>>, exceeded |-> FALSE] /\ spent = <<>>
  BY DEF Init
<1>3. Ghosts(want, lims)
  BY DEF Ghosts
<1>4. <<>> \in Seq(Items(G)) /\ Good(G, want, lims, <<>>, 0) /\ Power(<<>>, 1, 0)
  <2>1. <<>> \in Seq(Items(G)) /\ Len(<<>>) = 0 /\ DOMAIN <<>> = {}
    OBVIOUS
  <2> HIDE DEF want, lims
  <2>2. Descending(<<>>)
    BY <2>1 DEF Descending
  <2>3. Good(G, want, lims, <<>>, 0)
    BY <2>1, <2>2 DEF Good
  <2>4. Power(<<>>, 1, 0)
    BY <2>1 DEF Power
  <2> QED BY <2>1, <2>3, <2>4
<1>5. want \in [Nat -> Nat] /\ want[0] = 0
  OBVIOUS
<1> HIDE DEF want, lims
<1>6. Good(G, want, lims, k, 0) /\ Power(k, 1, 0)
  <2>1. PICK Q \in Seq(Items(G)) : Q = <<>>
    BY <1>4
  <2>2. Good(G, want, lims, Q, 0) /\ Power(Q, 1, 0)
    BY <1>4, <2>1
  <2>3. Good(G, want, lims, <<g>> \o Q, 0) /\ Power(<<g>> \o Q, 1, 0)
    BY <1>5, <2>2, GoalFirst
  <2>4. <<g>> \o Q = <<g>>
    BY <2>1
  <2> QED BY <1>1, <2>3, <2>4
<1>7. Stacked(G, want, lims, orf, b)
  <2>1. orf \in Seq(Frames(G)) /\ Len(orf) = 0
    BY <1>2
  <2> QED BY <1>2, <2>1 DEF Stacked
<1>8. cwil \in Limitations /\ cwil.limits = <<>> /\ Len(cwil.limits) = 0
  BY <1>2 DEF Limitations
<1>9. Rising(cwil.limits) /\ Entered(want, lims, cwil.limits, b)
  BY <1>8 DEF Rising, Entered
<1>10. Running(G, want, lims)
  BY <1>2, <1>5, <1>6, <1>9 DEF Running
<1>11. spent \in Seq(Accounts)
  BY <1>2
<1>12. Inv(G, want, lims)
  BY <1>2, <1>3, <1>7, <1>8, <1>9, <1>10, <1>11 DEF Inv, NoCleaners
<1> QED BY <1>12 DEF Described

LEMMA NextInv ==
  ASSUME NEW G, Uncleaned(G), Described(G), [Next]_vars
  PROVE  Described(G)'
<1>1. PICK want, lims : Inv(G, want, lims)
  BY DEF Described
<1>2. \E w, ls : Inv(G, w, ls)'
  <2>1. CASE Control
    BY <1>1, <2>1, ControlInv
  <2>2. CASE Handlers
    BY <1>1, <2>2, HandlersInv
  <2>3. CASE Cleaners
    BY <1>1, <2>3, CleanersInv
  <2>4. CASE Limits
    BY <1>1, <2>4, LimitsInv
  <2>5. CASE UNCHANGED vars
    BY <1>1, <2>5, StutterInv
  <2> QED BY <2>1, <2>2, <2>3, <2>4, <2>5 DEF Next
<1> QED BY <1>2 DEF Described

(* The goals G, closed under the goals they are made of, call no              *)
(* setup_call_cleanup/3.  Whatever catch/3, throw/1, cuts, backtracking and   *)
(* nested inference limits they go through, the choice points and the         *)
(* continuation keep telling one and the same story about block.              *)
THEOREM DescribedAlways ==
  ASSUME NEW G, Uncleaned(G), Programs \subseteq G
  PROVE  Spec => []Described(G)
<1>1. Init => Described(G)
  BY InitInv
<1>2. Described(G) /\ [Next]_vars => Described(G)'
  BY NextInv
<1> QED BY <1>1, <1>2, PTL DEF Spec

(* $reset_block has brought block to the handler of the innermost catch/3 or  *)
(* inference limit whose goal is still running, at every step of every        *)
(* program without cleanups.                                                  *)
THEOREM BlockMatchesAlways ==
  ASSUME NEW G, Uncleaned(G), Programs \subseteq G
  PROVE  Spec => []BlockMatchesContinuation
<1>1. Described(G) => BlockMatchesContinuation
  BY InvMatches DEF Described
<1> QED BY <1>1, DescribedAlways, PTL

-----------------------------------------------------------------------------
(* Cleaners, of every program.                                                *)

(* cont_pts holds each cleaner that has not been run yet, once, and no other. *)
IsSequence(s) == s \in Seq({s[i] : i \in DOMAIN s})
CleanersAccounted ==
  /\ ran \in Seq(0 .. 1) /\ IsSequence(conts)
  /\ \A i \in 1 .. Len(conts) : conts[i].id \in 1 .. Len(ran) /\ ran[conts[i].id] = 0
  /\ \A i, j \in 1 .. Len(conts) : conts[i].id = conts[j].id => i = j
  /\ \A n \in 1 .. Len(ran) : ran[n] = 0 => \E i \in 1 .. Len(conts) : conts[i].id = n

(* A sequence over any set is a sequence over its own elements. *)
LEMMA SequenceOf ==
  ASSUME NEW S, NEW s \in Seq(S)
  PROVE  IsSequence(s)
<1>1. PICK n \in Nat : s \in [1 .. n -> S]
  BY SeqDef
<1> DEFINE T == {s[i] : i \in DOMAIN s}
<1>2. DOMAIN s = 1 .. n /\ s = [i \in 1 .. n |-> s[i]]
  BY <1>1
<1>3. \A i \in 1 .. n : s[i] \in T
  BY <1>2
<1>4. s \in [1 .. n -> T]
  <2> HIDE DEF T
  <2> QED BY <1>2, <1>3
<1>5. s \in Seq(T)
  <2> HIDE DEF T
  <2> QED BY <1>4, SeqDef
<1> QED BY <1>5 DEF IsSequence

(* Appending to a sequence of anything, and taking its last element away.     *)
LEMMA SequenceAppend ==
  ASSUME NEW s, IsSequence(s), NEW x
  PROVE  /\ IsSequence(Append(s, x)) /\ Len(s) \in Nat /\ Len(Append(s, x)) = Len(s) + 1
         /\ \A i \in 1 .. Len(s) : Append(s, x)[i] = s[i]
         /\ Append(s, x)[Len(s) + 1] = x
<1> DEFINE S == {s[i] : i \in DOMAIN s}
           T == S \cup {x}
           t == Append(s, x)
<1>1. s \in Seq(S) /\ Len(s) \in Nat /\ DOMAIN s = 1 .. Len(s)
  BY DEF IsSequence
<1>2. s \in Seq(T)
  BY <1>1, SeqMonotonic
<1>3. x \in T
  OBVIOUS
<1> HIDE DEF S, T
<1>4. /\ t \in Seq(T) /\ Len(t) = Len(s) + 1
      /\ \A i \in 1 .. Len(s) : t[i] = s[i]
      /\ t[Len(s) + 1] = x
  BY <1>1, <1>2, <1>3, AppendProperties
<1> HIDE DEF t
<1>5. IsSequence(t)
  BY <1>4, SequenceOf
<1> QED BY <1>1, <1>4, <1>5 DEF t

(* A sequence without its last element. *)
LEMMA SequenceFront ==
  ASSUME NEW s, IsSequence(s), s # <<>>
  PROVE  /\ IsSequence(SubSeq(s, 1, Len(s) - 1)) /\ Len(s) \in Nat /\ Len(s) >= 1
         /\ Len(SubSeq(s, 1, Len(s) - 1)) = Len(s) - 1
         /\ \A i \in 1 .. Len(s) - 1 : SubSeq(s, 1, Len(s) - 1)[i] = s[i]
<1> DEFINE S == {s[i] : i \in DOMAIN s}
           t == SubSeq(s, 1, Len(s) - 1)
<1>1. s \in Seq(S) /\ Len(s) \in Nat
  BY DEF IsSequence
<1>2. Len(s) >= 1
  BY <1>1
<1> HIDE DEF S
<1>3. /\ t \in Seq(S) /\ Len(t) = Len(s) - 1
      /\ \A i \in 1 .. Len(s) - 1 : t[i] = s[i]
  <2>1. Len(s) - 1 \in Nat /\ Len(s) - 1 <= Len(s)
    BY <1>1, <1>2
  <2> QED BY <1>1, <2>1, FrontFacts
<1> HIDE DEF t
<1>4. IsSequence(t)
  BY <1>3, SequenceOf
<1> QED BY <1>1, <1>2, <1>3, <1>4 DEF t

(* $install_scc_cleaner pushes a new cleaner.                                 *)
LEMMA InstallAccounted ==
  ASSUME CleanersAccounted, CallScc
  PROVE  CleanersAccounted'
<1>1. PICK c : c.id = Len(ran) + 1 /\ conts' = Append(conts, c)
  BY DEF CallScc
<1>2. ran' = Append(ran, 0) /\ ran \in Seq(0 .. 1) /\ IsSequence(conts)
  BY DEF CallScc, CleanersAccounted
<1>3. PICK m \in Nat : m = Len(conts)
  BY <1>2, SequenceAppend
<1>4. PICK n \in Nat : n = Len(ran)
  BY <1>2
<1>5. IsSequence(conts') /\ Len(conts') = m + 1 /\ conts'[m + 1] = c /\ \A i \in 1 .. m : conts'[i] = conts[i]
  BY <1>1, <1>2, <1>3, SequenceAppend
<1>6. ran' \in Seq(0 .. 1) /\ Len(ran') = n + 1 /\ ran'[n + 1] = 0 /\ \A i \in 1 .. n : ran'[i] = ran[i]
  BY <1>2, <1>4, AppendProperties
<1>7. \A i \in 1 .. m : conts[i].id \in 1 .. n /\ ran[conts[i].id] = 0
  BY <1>3, <1>4 DEF CleanersAccounted
<1>8. \A i \in 1 .. Len(conts') : conts'[i].id \in 1 .. Len(ran') /\ ran'[conts'[i].id] = 0
  BY <1>1, <1>4, <1>5, <1>6, <1>7
<1>9. \A i, j \in 1 .. Len(conts') : conts'[i].id = conts'[j].id => i = j
  <2>1. \A i, j \in 1 .. m : conts[i].id = conts[j].id => i = j
    BY <1>3 DEF CleanersAccounted
  <2>2. \A i \in 1 .. m + 1 : i = m + 1 \/ i \in 1 .. m
    OBVIOUS
  <2>3. \A i \in 1 .. m : conts'[i].id # conts'[m + 1].id
    BY <1>1, <1>4, <1>5, <1>7
  <2> QED BY <1>5, <2>1, <2>2, <2>3
<1>10. \A q \in 1 .. Len(ran') : ran'[q] = 0 => \E i \in 1 .. Len(conts') : conts'[i].id = q
  <2> SUFFICES ASSUME NEW q \in 1 .. Len(ran'), ran'[q] = 0 PROVE \E i \in 1 .. Len(conts') : conts'[i].id = q
    OBVIOUS
  <2>1. CASE q = n + 1
    <3>1. conts'[m + 1].id = q /\ m + 1 \in 1 .. Len(conts')
      BY <1>1, <1>4, <1>5, <2>1
    <3> QED BY <3>1
  <2>2. CASE q # n + 1
    <3>1. q \in 1 .. n /\ ran[q] = 0
      BY <1>6, <2>2
    <3>2. PICK i \in 1 .. m : conts[i].id = q
      BY <1>3, <1>4, <3>1 DEF CleanersAccounted
    <3>3. i \in 1 .. Len(conts') /\ conts'[i].id = q
      BY <1>5, <3>2
    <3> QED BY <3>3
  <2> QED BY <2>1, <2>2
<1> QED BY <1>5, <1>6, <1>8, <1>9, <1>10 DEF CleanersAccounted

(* $get_scc_cleaner pops the newest cleaner, to be run.                       *)
LEMMA GetAccounted ==
  ASSUME CleanersAccounted, conts # <<>>, GetSccCleaner
  PROVE  CleanersAccounted'
<1>0. ran \in Seq(0 .. 1) /\ IsSequence(conts)
  BY DEF CleanersAccounted
<1>1. PICK m \in Nat : m = Len(conts) /\ m >= 1
  BY <1>0, SequenceFront
<1>2. PICK n \in Nat : n = Len(ran)
  BY <1>0
<1>3. IsSequence(conts') /\ Len(conts') = m - 1 /\ \A i \in 1 .. m - 1 : conts'[i] = conts[i]
  <2>1. conts' = SubSeq(conts, 1, Len(conts) - 1)
    BY DEF GetSccCleaner
  <2> QED BY <1>0, <1>1, <2>1, SequenceFront
<1>4. PICK q \in 1 .. n : q = conts[m].id /\ ran[q] = 0
  BY <1>1, <1>2 DEF CleanersAccounted
<1>5. ran' = [ran EXCEPT ![q] = ran[q] + 1]
  BY <1>1, <1>4 DEF GetSccCleaner
<1>6. ran' \in Seq(0 .. 1) /\ Len(ran') = n /\ ran'[q] = 1 /\ \A i \in 1 .. n : i # q => ran'[i] = ran[i]
  <2>1. ran \in [1 .. n -> 0 .. 1] /\ ran[q] + 1 \in 0 .. 1
    BY <1>0, <1>2, <1>4
  <2>2. ran' \in [1 .. n -> 0 .. 1]
    BY <1>5, <2>1
  <2>3. ran' \in Seq(0 .. 1)
    BY <2>2, SeqDef
  <2> QED BY <1>4, <1>5, <2>1, <2>2, <2>3
<1>7. \A i, j \in 1 .. m : conts[i].id = conts[j].id => i = j
  BY <1>1 DEF CleanersAccounted
<1>8. \A i \in 1 .. Len(conts') : conts'[i].id \in 1 .. Len(ran') /\ ran'[conts'[i].id] = 0
  <2> SUFFICES ASSUME NEW i \in 1 .. m - 1
               PROVE  conts'[i].id \in 1 .. n /\ ran'[conts'[i].id] = 0
    BY <1>3, <1>6
  <2>1. i \in 1 .. m /\ m \in 1 .. m /\ i # m
    BY <1>1
  <2>2. conts[i].id \in 1 .. n /\ ran[conts[i].id] = 0
    BY <1>1, <1>2, <2>1 DEF CleanersAccounted
  <2>3. conts[i].id # q
    BY <1>4, <1>7, <2>1
  <2> QED BY <1>3, <1>6, <2>2, <2>3
<1>9. \A i, j \in 1 .. Len(conts') : conts'[i].id = conts'[j].id => i = j
  BY <1>1, <1>3, <1>7
<1>10. \A r \in 1 .. Len(ran') : ran'[r] = 0 => \E i \in 1 .. Len(conts') : conts'[i].id = r
  <2> SUFFICES ASSUME NEW r \in 1 .. n, ran'[r] = 0 PROVE \E i \in 1 .. m - 1 : conts'[i].id = r
    BY <1>3, <1>6
  <2>1. r # q /\ ran[r] = 0
    BY <1>6
  <2>2. PICK i \in 1 .. m : conts[i].id = r
    BY <1>1, <1>2, <2>1 DEF CleanersAccounted
  <2>3. i # m
    BY <1>4, <2>1, <2>2
  <2>4. i \in 1 .. m - 1 /\ conts'[i].id = r
    BY <1>1, <1>3, <2>2, <2>3
  <2> QED BY <2>4
<1> QED BY <1>3, <1>6, <1>8, <1>9, <1>10 DEF CleanersAccounted

(* Every cleaner installed so far waits in cont_pts, once, or has been run,   *)
(* once, whatever program runs: none is lost and none is called twice.        *)
THEOREM CleanersAccountedAlways == Spec => []CleanersAccounted
<1>1. Init => CleanersAccounted
  <2> SUFFICES ASSUME Init PROVE CleanersAccounted
    OBVIOUS
  <2>1. ran = <<>> /\ conts = <<>>
    BY DEF Init
  <2>2. ran \in Seq(0 .. 1) /\ Len(ran) = 0 /\ Len(conts) = 0
    BY <2>1
  <2>3. IsSequence(conts)
    BY <2>1 DEF IsSequence
  <2> QED BY <2>2, <2>3 DEF CleanersAccounted
<1>2. CleanersAccounted /\ [Next]_vars => CleanersAccounted'
  <2> SUFFICES ASSUME CleanersAccounted, [Next]_vars PROVE CleanersAccounted'
    OBVIOUS
  <2>1. CASE UNCHANGED <<conts, ran>>
    BY <2>1 DEF CleanersAccounted
  <2>2. CASE CallScc
    BY <2>2, InstallAccounted
  <2>3. CASE conts # <<>> /\ GetSccCleaner
    BY <2>3, GetAccounted
  <2>4. CASE Control
    <3>1. UNCHANGED <<conts, ran>>
      BY <2>4 DEF Control, True, Fail, Conjunction, Disjunction, CallOnce, Done, Backtrack, Exhausted, Cut,
                  SetCpByDefault, cleaners
    <3> QED BY <2>1, <3>1
  <2>5. CASE Handlers
    <3>1. UNCHANGED <<conts, ran>>
      BY <2>5 DEF Handlers, CallCatch, EndBlock, Reenter, SetBall, Recover, cleaners
    <3> QED BY <2>1, <3>1
  <2>6. CASE Limits
    <3>1. UNCHANGED <<conts, ran>>
      BY <2>6 DEF Limits, CallLimit, LimitExit, LimitReenter, LimitRetry, IncrementCallCount, cleaners
    <3> QED BY <2>1, <3>1
  <2>7. CASE Cleaners
    <3>1. CallScc \/ UNCHANGED <<conts, ran>> \/ (conts # <<>> /\ GetSccCleaner)
      BY <2>7 DEF Cleaners, SccExit, SccBall, Rethrow, RunCleanersWithHandling, RunCleanersWithoutHandling,
                  CleanersLoop, HasCleaner, RestoreCutPolicy, cleaners
    <3> QED BY <2>1, <2>2, <2>3, <3>1
  <2>8. CASE UNCHANGED vars
    BY <2>1, <2>8 DEF vars
  <2> QED BY <2>4, <2>5, <2>6, <2>7, <2>8 DEF Next
<1> QED BY <1>1, <1>2, PTL DEF Spec

-----------------------------------------------------------------------------
(* Programs that install one limit after another has ended, and not one in    *)
(* the other.  P are the goals that install none: of the two goals of a       *)
(* conjunction one at least is among them, and so is the goal of a limit.     *)
OneLimit(G, P) ==
  /\ Uncleaned(G) /\ Uncleaned(P) /\ P \subseteq G
  /\ \A g \in P : g.op # "limit"
  /\ \A g \in G : /\ g.op = "and" => g.g \in P \/ g.h \in P
                  /\ g.op = "limit" => g.g \in P
                  /\ g.op = "or" => Atomic("tick") \in P

LimitOps == {"limit_exit", "limit_retry", "limit_reenter"}

(* An item that may yet install a limit, and one that does not deal in any. *)
Bearing(P, x) == (x.op \in GoalOps /\ x \notin P) \/ (x.op = "recover" /\ x.r \notin P)
Neutral(P, x) == ~ Bearing(P, x) /\ x.op \notin LimitOps

(* The limit: its address, what it allows, the count it started at and its    *)
(* place in the history.  With an address above all frames it is over.        *)
Limited == [a : Nat \ {0}, l : Nat, count : Nat, id : Nat]

Mine(q, x) == x.nbb = q.a /\ x.b = q.a - 1 /\ x.l = q.l /\ x.count = q.count /\ x.id = q.id

(* A continuation under the limit, when loc calls have been counted: ... *)
Under(P, q, loc, x) ==
  \/ Neutral(P, x)
  \/ x.op = "limit_exit" /\ Mine(q, x)
  \/ x.op = "limit_reenter" /\ x.nbb = q.a /\ x.l = q.l + q.count - loc
Within(P, q, loc, kk) == \A i \in 1 .. Len(kk) : Under(P, q, loc, kk[i])
(* ... and without it: one goal at most can install the next. *)
Fresh(P, kk) ==
  /\ \A i \in 1 .. Len(kk) : kk[i].op \notin LimitOps
  /\ \A i, j \in 1 .. Len(kk) : Bearing(P, kk[i]) /\ Bearing(P, kk[j]) => i = j
Spare(P, kk) == \A i \in 1 .. Len(kk) : Neutral(P, kk[i])
Lawful(P, q, loc, kk, h) == IF q.a <= h THEN Within(P, q, loc, kk) ELSE Fresh(P, kk)

(* The frame at e: the limit's own, or one below or above it. *)
Limiter(P, q, f) ==
  /\ f.alts[1] # <<>> /\ Head(f.alts[1]).op = "limit_retry" /\ Head(f.alts[1]).b = q.a - 1
  /\ Spare(P, Tail(f.alts[1]))
Layer(P, q, loc, f, e) ==
  IF e = q.a THEN Limiter(P, q, f) ELSE Lawful(P, q, loc, f.alts[1], e - 1)
Layers(P, q, loc, o, h) == \A e \in 1 .. h : Layer(P, q, loc, o[e], e)

-----------------------------------------------------------------------------
(* Continuations. *)

(* Items put before a continuation. *)
LEMMA SpareCons ==
  ASSUME NEW P, NEW S, NEW x \in S, NEW R \in Seq(S), Spare(P, R), Neutral(P, x)
  PROVE  Spare(P, <<x>> \o R)
<1> DEFINE kk == <<x>> \o R
<1>1. PICK n \in Nat : n = Len(R)
  BY LenProperties
<1>2. Len(kk) = n + 1 /\ kk[1] = x /\ \A i \in 1 .. n : kk[i + 1] = R[i]
  BY <1>1, ConsFacts
<1> HIDE DEF kk
<1>3. ASSUME NEW i \in 1 .. n + 1 PROVE Neutral(P, kk[i])
  <2>1. CASE i = 1
    BY <1>2, <2>1
  <2>2. CASE i # 1
    <3>1. PICK m \in 1 .. n : m + 1 = i
      <4>1. i - 1 \in 1 .. n /\ (i - 1) + 1 = i
        BY <2>2
      <4> QED BY <4>1
    <3>2. kk[i] = R[m]
      BY <1>2, <3>1
    <3> QED BY <1>1, <3>2 DEF Spare
  <2> QED BY <2>1, <2>2
<1>4. Spare(P, kk)
  BY <1>2, <1>3 DEF Spare
<1> QED BY <1>4 DEF kk

LEMMA FreshCons ==
  ASSUME NEW P, NEW S, NEW x \in S, NEW R \in Seq(S), x.op \notin LimitOps,
         (Fresh(P, R) /\ Neutral(P, x)) \/ Spare(P, R)
  PROVE  Fresh(P, <<x>> \o R)
<1> DEFINE kk == <<x>> \o R
<1>1. PICK n \in Nat : n = Len(R)
  BY LenProperties
<1>2. Len(kk) = n + 1 /\ kk[1] = x /\ \A i \in 1 .. n : kk[i + 1] = R[i]
  BY <1>1, ConsFacts
<1> HIDE DEF kk
<1>3. \A i \in 1 .. n + 1 : i = 1 \/ (i - 1 \in 1 .. n /\ kk[i] = R[i - 1])
  <2> TAKE i \in 1 .. n + 1
  <2>1. CASE i # 1
    <3>1. i - 1 \in 1 .. n /\ (i - 1) + 1 = i
      BY <2>1
    <3>2. kk[(i - 1) + 1] = R[i - 1]
      BY <1>2, <3>1
    <3> QED BY <3>1, <3>2
  <2> QED BY <2>1
<1>4. ASSUME NEW i \in 1 .. n + 1 PROVE kk[i].op \notin LimitOps
  <2>1. \A m \in 1 .. n : R[m].op \notin LimitOps
    BY <1>1 DEF Fresh, Spare, Neutral
  <2> QED BY <1>2, <1>3, <2>1
<1>5. ASSUME NEW i \in 1 .. n + 1, NEW j \in 1 .. n + 1, Bearing(P, kk[i]), Bearing(P, kk[j])
      PROVE  i = j
  <2>1. CASE Neutral(P, x) /\ Fresh(P, R)
    <3>1. i # 1 /\ j # 1
      BY <1>2, <1>5, <2>1 DEF Neutral
    <3>2. i - 1 \in 1 .. n /\ j - 1 \in 1 .. n /\ Bearing(P, R[i - 1]) /\ Bearing(P, R[j - 1])
      BY <1>3, <1>5, <3>1
    <3>3. i - 1 = j - 1
      BY <1>1, <2>1, <3>2 DEF Fresh
    <3> QED BY <3>3
  <2>2. CASE Spare(P, R)
    <3>1. \A m \in 1 .. n : ~ Bearing(P, R[m])
      BY <1>1, <2>2 DEF Spare, Neutral
    <3>2. i = 1 /\ j = 1
      BY <1>3, <1>5, <3>1
    <3> QED BY <3>2
  <2> QED BY <2>1, <2>2
<1>6. Fresh(P, kk)
  BY <1>2, <1>4, <1>5 DEF Fresh
<1> QED BY <1>6 DEF kk

LEMMA WithinCons ==
  ASSUME NEW P, NEW q, NEW loc, NEW S, NEW x \in S, NEW R \in Seq(S), Within(P, q, loc, R), Under(P, q, loc, x)
  PROVE  Within(P, q, loc, <<x>> \o R)
<1> DEFINE kk == <<x>> \o R
<1>1. PICK n \in Nat : n = Len(R)
  BY LenProperties
<1>2. Len(kk) = n + 1 /\ kk[1] = x /\ \A i \in 1 .. n : kk[i + 1] = R[i]
  BY <1>1, ConsFacts
<1> HIDE DEF kk
<1>3. ASSUME NEW i \in 1 .. n + 1 PROVE Under(P, q, loc, kk[i])
  <2>1. CASE i = 1
    BY <1>2, <2>1
  <2>2. CASE i # 1
    <3>1. PICK m \in 1 .. n : m + 1 = i
      <4>1. i - 1 \in 1 .. n /\ (i - 1) + 1 = i
        BY <2>2
      <4> QED BY <4>1
    <3>2. kk[i] = R[m]
      BY <1>2, <3>1
    <3> QED BY <1>1, <3>2 DEF Within
  <2> QED BY <2>1, <2>2
<1>4. Within(P, q, loc, kk)
  BY <1>2, <1>3 DEF Within
<1> QED BY <1>4 DEF kk

(* A neutral item before any continuation, and one that may install the next *)
(* limit before a spare one.                                                  *)
LEMMA LawfulCons ==
  ASSUME NEW P, NEW q, NEW loc, NEW h, NEW S, NEW x \in S, NEW R \in Seq(S),
         \/ Neutral(P, x) /\ Lawful(P, q, loc, R, h)
         \/ x.op \notin LimitOps /\ ~(q.a <= h) /\ Spare(P, R)
  PROVE  Lawful(P, q, loc, <<x>> \o R, h)
<1>1. CASE q.a <= h
  <2>1. Neutral(P, x) /\ Within(P, q, loc, R)
    BY <1>1 DEF Lawful
  <2>2. Within(P, q, loc, <<x>> \o R)
    BY <2>1, WithinCons DEF Under
  <2> QED BY <1>1, <2>2 DEF Lawful
<1>2. CASE ~(q.a <= h)
  <2>1. x.op \notin LimitOps /\ ((Fresh(P, R) /\ Neutral(P, x)) \/ Spare(P, R))
    BY <1>2 DEF Lawful, Neutral
  <2>2. Fresh(P, <<x>> \o R)
    BY <2>1, FreshCons
  <2> QED BY <1>2, <2>2 DEF Lawful
<1> QED BY <1>1, <1>2

(* What a continuation's first item says of the rest. *)
LEMMA LawfulHead ==
  ASSUME NEW P, NEW q, NEW loc, NEW h, NEW S, NEW kk \in Seq(S), kk # <<>>, Lawful(P, q, loc, kk, h)
  PROVE  /\ Lawful(P, q, loc, Tail(kk), h)
         /\ Bearing(P, Head(kk)) => ~(q.a <= h) /\ Spare(P, Tail(kk))
         /\ Head(kk).op = "limit_exit" => q.a <= h /\ Mine(q, Head(kk))
         /\ Head(kk).op = "limit_reenter" =>
               q.a <= h /\ Head(kk).nbb = q.a /\ Head(kk).l = q.l + q.count - loc
         /\ Head(kk).op # "limit_retry"
<1> DEFINE R == Tail(kk)
<1>1. PICK n \in Nat : n = Len(kk)
  BY LenProperties
<1>2. n >= 1 /\ Len(R) = n - 1 /\ Head(kk) = kk[1] /\ \A i \in 1 .. n - 1 : R[i] = kk[i + 1]
  BY <1>1, TailFacts
<1> HIDE DEF R
<1>3. \A i \in 1 .. n - 1 : i + 1 \in 1 .. n /\ i + 1 # 1
  BY <1>2
<1>4. 1 \in 1 .. n
  BY <1>2
<1>5. CASE q.a <= h
  <2>1. \A i \in 1 .. n : Under(P, q, loc, kk[i])
    BY <1>1, <1>5 DEF Lawful, Within
  <2>2. Within(P, q, loc, R)
    BY <1>2, <1>3, <2>1 DEF Within
  <2>3. Under(P, q, loc, Head(kk))
    BY <1>2, <1>4, <2>1
  <2>4. Head(kk).op \in LimitOps => Head(kk).op # "limit_retry" /\ ~ Bearing(P, Head(kk))
    BY <2>3 DEF Under, Neutral, LimitOps, Bearing, GoalOps
  <2>5. ~ Bearing(P, Head(kk))
    BY <2>3, <2>4 DEF Under, Neutral, LimitOps
  <2>6. Head(kk).op # "limit_retry"
    BY <2>4 DEF LimitOps
  <2>7. Head(kk).op = "limit_exit" => Mine(q, Head(kk))
    BY <2>3 DEF Under, Neutral, LimitOps
  <2>8. Head(kk).op = "limit_reenter" => Head(kk).nbb = q.a /\ Head(kk).l = q.l + q.count - loc
    BY <2>3 DEF Under, Neutral, LimitOps
  <2> QED BY <1>5, <2>2, <2>5, <2>6, <2>7, <2>8 DEF R, Lawful
<1>6. CASE ~(q.a <= h)
  <2>1. Fresh(P, kk)
    BY <1>6 DEF Lawful
  <2>2. \A i \in 1 .. n : kk[i].op \notin LimitOps
    BY <1>1, <2>1 DEF Fresh
  <2>3. \A i, j \in 1 .. n : Bearing(P, kk[i]) /\ Bearing(P, kk[j]) => i = j
    BY <1>1, <2>1 DEF Fresh
  <2>4. \A i \in 1 .. n - 1 : R[i].op \notin LimitOps
    BY <1>2, <1>3, <2>2
  <2>5. ASSUME NEW i \in 1 .. n - 1, NEW j \in 1 .. n - 1, Bearing(P, R[i]), Bearing(P, R[j]) PROVE i = j
    <3>1. i + 1 = j + 1
      BY <1>2, <1>3, <2>3, <2>5
    <3> QED BY <3>1
  <2>6. Fresh(P, R)
    BY <1>2, <2>4, <2>5 DEF Fresh
  <2>7. ASSUME Bearing(P, Head(kk)) PROVE Spare(P, R)
    <3>1. \A i \in 1 .. n - 1 : ~ Bearing(P, R[i])
      BY <1>2, <1>3, <1>4, <2>3, <2>7
    <3> QED BY <1>2, <2>4, <3>1 DEF Spare, Neutral
  <2>8. Head(kk).op \notin LimitOps
    BY <1>2, <1>4, <2>2
  <2> QED BY <1>6, <2>6, <2>7, <2>8 DEF R, Lawful, LimitOps
<1> QED BY <1>5, <1>6

LEMMA SpareLawful ==
  ASSUME NEW P, NEW q, NEW loc, NEW h, NEW S, NEW kk \in Seq(S), Spare(P, kk)
  PROVE  Lawful(P, q, loc, kk, h)
<1>1. Within(P, q, loc, kk)
  BY DEF Within, Under, Spare
<1>2. Fresh(P, kk)
  BY DEF Fresh, Spare, Neutral
<1> QED BY <1>1, <1>2 DEF Lawful

(* Of a continuation that can run over fewer frames the limit may be over. *)
LEMMA LawfulLower ==
  ASSUME NEW G, Uncleaned(G), NEW want \in [Nat -> Nat], NEW lims, NEW P, NEW q \in Limited, NEW loc, NEW kk, NEW h \in Nat, NEW h1 \in Nat,
         h1 <= h, Good(G, want, lims, kk, h1), Lawful(P, q, loc, kk, h)
  PROVE  Lawful(P, q, loc, kk, h1)
<1>0. q.a \in Nat
  BY DEF Limited
<1>1. CASE q.a <= h1
  <2>1. q.a <= h
    BY <1>0, <1>1
  <2> QED BY <1>1, <2>1 DEF Lawful
<1>2. CASE ~(q.a <= h)
  <2>1. ~(q.a <= h1)
    BY <1>0, <1>2
  <2> QED BY <1>2, <2>1 DEF Lawful
<1>3. CASE q.a <= h /\ ~(q.a <= h1)
  <2>1. kk \in Seq(Items(G)) /\ Within(P, q, loc, kk)
    BY <1>3 DEF Good, Lawful
  <2>2. ASSUME NEW i \in 1 .. Len(kk) PROVE Neutral(P, kk[i])
    <3>1. kk[i] \in Items(G)
      BY <2>1, ElementOfSeq
    <3>2. kk[i].op # "limit_reenter"
      BY <3>1, ItemKinds DEF GoalOps, RefOps, ExitOps
    <3>3. ASSUME kk[i].op = "limit_exit", Mine(q, kk[i]) PROVE FALSE
      <4>1. ExitOK(want, lims, kk, i, h1)
        BY DEF Good
      <4>2. InForce(want, q.a, h1)
        BY <3>3, <4>1 DEF ExitOK, ExitOps, Mine
      <4>3. PICK a \in Nat : a = q.a
        BY <1>0
      <4>4. a \in 1 .. h1
        BY <4>2, <4>3 DEF InForce
      <4>5. a <= h1
        BY <4>4
      <4> QED BY <1>3, <4>3, <4>5
    <3>4. Under(P, q, loc, kk[i])
      BY <2>1 DEF Within
    <3> QED BY <3>2, <3>3, <3>4 DEF Under
  <2>3. Fresh(P, kk)
    BY <2>2 DEF Fresh, Neutral
  <2> QED BY <1>3, <2>3 DEF Lawful
<1> QED BY <1>1, <1>2, <1>3

(* A push leaves the limit where it is, unless the new frame is its own. *)
LEMMA LawfulRaise ==
  ASSUME NEW P, NEW q \in Limited, NEW loc, NEW kk, NEW h \in Nat, q.a # h + 1, Lawful(P, q, loc, kk, h)
  PROVE  Lawful(P, q, loc, kk, h + 1)
<1>1. q.a \in Nat /\ (q.a <= h <=> q.a <= h + 1)
  BY DEF Limited
<1> QED BY <1>1 DEF Lawful

-----------------------------------------------------------------------------
(* Frames. *)

LEMMA LayersKeep ==
  ASSUME NEW P, NEW q, NEW loc, NEW o, NEW o2, NEW h \in Nat, NEW h1 \in Nat, h1 <= h,
         Layers(P, q, loc, o, h), \A e \in 1 .. h1 : o2[e] = o[e]
  PROVE  Layers(P, q, loc, o2, h1)
<1>1. \A e \in 1 .. h1 : e \in 1 .. h
  OBVIOUS
<1> QED BY <1>1 DEF Layers

LEMMA LayersPush ==
  ASSUME NEW P, NEW q, NEW loc, NEW S, NEW o \in Seq(S), NEW f \in S, NEW h \in Nat, h <= Len(o),
         Layers(P, q, loc, o, h), Layer(P, q, loc, f, h + 1)
  PROVE  Layers(P, q, loc, Append(SubSeq(o, 1, h), f), h + 1)
<1> DEFINE o2 == Append(SubSeq(o, 1, h), f)
<1>1. (\A e \in 1 .. h : o2[e] = o[e]) /\ o2[h + 1] = f
  BY PushFacts
<1> HIDE DEF o2
<1>2. ASSUME NEW e \in 1 .. h + 1 PROVE Layer(P, q, loc, o2[e], e)
  <2>1. CASE e = h + 1
    BY <1>1, <2>1
  <2>2. CASE e # h + 1
    <3>1. e \in 1 .. h
      BY <2>2
    <3> QED BY <1>1, <3>1 DEF Layers
  <2> QED BY <2>1, <2>2
<1>3. Layers(P, q, loc, o2, h + 1)
  BY <1>2 DEF Layers
<1> QED BY <1>3 DEF o2

(* A limit that is over may be forgotten for another that is not yet. *)
LEMMA LawfulRenew ==
  ASSUME NEW P, NEW q \in Limited, NEW r \in Limited, NEW loc, NEW m, NEW kk, NEW h \in Nat, NEW h1 \in Nat, h1 <= h,
         q.a > h1, r.a > h1, Lawful(P, q, loc, kk, h1)
  PROVE  Lawful(P, r, m, kk, h1)
<1>1. q.a \in Nat /\ r.a \in Nat
  BY DEF Limited
<1>2. ~(q.a <= h1) /\ ~(r.a <= h1)
  BY <1>1
<1> QED BY <1>2 DEF Lawful

LEMMA LayersRenew ==
  ASSUME NEW P, NEW q \in Limited, NEW r \in Limited, NEW loc, NEW m, NEW o, NEW h \in Nat,
         q.a > h, r.a > h, Layers(P, q, loc, o, h)
  PROVE  Layers(P, r, m, o, h)
<1> SUFFICES ASSUME NEW e \in 1 .. h PROVE Layer(P, r, m, o[e], e)
  BY DEF Layers
<1>1. q.a \in Nat /\ r.a \in Nat
  BY DEF Limited
<1>2. e # q.a /\ e # r.a /\ e - 1 \in Nat /\ e - 1 <= h /\ q.a > e - 1 /\ r.a > e - 1
  BY <1>1
<1>3. Layer(P, q, loc, o[e], e)
  BY DEF Layers
<1>4. Lawful(P, q, loc, o[e].alts[1], e - 1)
  BY <1>2, <1>3 DEF Layer
<1>5. Lawful(P, r, m, o[e].alts[1], e - 1)
  BY <1>2, <1>4, LawfulRenew
<1> QED BY <1>2, <1>5 DEF Layer

-----------------------------------------------------------------------------
(* Whether the limit counts. *)

LimitsOf(q) == <<[limit |-> q.l + q.count, block |-> q.a]>>
Counting(want, q, s, h) == s = IF InForce(want, q.a, h) THEN LimitsOf(q) ELSE <<>>

LEMMA CountingSame ==
  ASSUME NEW want, NEW w, NEW q, NEW s, NEW h, NEW h1,
         InForce(want, q.a, h) <=> InForce(w, q.a, h1), Counting(want, q, s, h)
  PROVE  Counting(w, q, s, h1)
BY DEF Counting

(* A push under the block of the newest frame, or of a handler of another. *)
LEMMA InForceUp ==
  ASSUME NEW want, NEW lims, Ghosts(want, lims), NEW w, NEW lims2, NEW h \in Nat, NEW e \in Nat, e # h + 1,
         NEW v, Pushed(want, lims, w, lims2, h, v), InForce(want, e, h) => v >= e
  PROVE  InForce(want, e, h) <=> InForce(w, e, h + 1)
<1>1. Ghosts(w, lims2) /\ Agree(want, lims, w, lims2, h) /\ w[h + 1] = v
  BY GhostsPush
<1>2. ASSUME InForce(want, e, h) PROVE InForce(w, e, h + 1)
  <2>1. w[h + 1] >= e
    BY <1>1, <1>2
  <2> QED BY <1>1, <1>2, <2>1, InForcePush
<1>3. ASSUME InForce(w, e, h + 1) PROVE InForce(want, e, h)
  <2>1. h + 1 \in Nat /\ h <= h + 1
    OBVIOUS
  <2>2. e <= h
    BY <1>3 DEF InForce
  <2>3. InForce(w, e, h)
    BY <1>3, <2>1, <2>2, InForceLower
  <2>4. \A a \in 0 .. h : want[a] = w[a]
    BY <1>1 DEF Agree
  <2> QED BY <2>3, <2>4, InForceAgree
<1> QED BY <1>2, <1>3

(* Going back to a frame made under the same block. *)
LEMMA InForceBack ==
  ASSUME NEW want, NEW lims, Ghosts(want, lims), NEW h \in Nat, NEW h1 \in Nat, h1 <= h, NEW e \in Nat,
         InForce(want, e, h) => e <= h1,
         NEW v \in Nat, v <= h1 + 1, InForce(want, e, h1) => v >= e, v = 0 \/ InForce(want, v, h)
  PROVE  InForce(want, e, h) <=> InForce(want, e, h1)
<1>1. ASSUME InForce(want, e, h) PROVE InForce(want, e, h1)
  BY <1>1, InForceLower
<1>2. ASSUME InForce(want, e, h1) PROVE InForce(want, e, h)
  <2>1. e >= 1 /\ e <= h1 /\ want[e] = e /\ \A a \in e .. h1 : want[a] >= e
    BY <1>2 DEF InForce
  <2>2. InForce(want, v, h) /\ v >= e
    BY <1>2, <2>1
  <2>3. \A a \in v .. h : want[a] >= v
    BY <2>2 DEF InForce
  <2>4. \A a \in e .. h : want[a] >= e
    <3> TAKE a \in e .. h
    <3>1. CASE a <= h1
      BY <2>1, <3>1
    <3>2. CASE ~(a <= h1)
      <4>1. a \in v .. h
        BY <3>2
      <4>2. want[a] >= v /\ want[a] \in Nat
        BY <2>3, <4>1 DEF Ghosts
      <4> QED BY <2>2, <4>2
    <3> QED BY <3>1, <3>2
  <2>5. e \in 1 .. h
    BY <2>1
  <2> QED BY <2>1, <2>4, <2>5 DEF InForce
<1> QED BY <1>1, <1>2

-----------------------------------------------------------------------------
(* The invariant.                                                             *)

(* What has been counted for the limit, and what is left.                     *)
Account(q, c, sp, h) ==
  q.a <= h => /\ q.id \in 1 .. Len(sp) /\ sp[q.id].limit = q.l
              /\ sp[q.id].used + q.count <= c.local /\ c.local <= q.l + q.count

(* The machine runs, ... *)
Going(P, want, q) ==
  /\ mode = "run" /\ ~ cwil.exceeded /\ Lawful(P, q, cwil.local, k, b)
  /\ k # <<>> => Head(k).op \notin {"limit_reenter", "limit_retry"}
  /\ ball # AnyBall => k # <<>> /\ Head(k).op = "recover"
  /\ Counting(want, q, cwil.limits, b)
(* ... has failed into the goal of a limit that was left, ... *)
Resuming(P, q) ==
  /\ mode = "run" /\ ~ cwil.exceeded /\ Lawful(P, q, cwil.local, k, b)
  /\ k # <<>> /\ Head(k).op = "limit_reenter" /\ ball = AnyBall /\ cwil.limits = <<>>
(* ... is about to fail, with a ball or a limit exceeded into the frame of a  *)
(* handler, ...                                                               *)
Stopping(want, q) ==
  /\ mode = "fail" /\ Counting(want, q, cwil.limits, b)
  /\ cwil.exceeded => b = q.a
  /\ ball # AnyBall => want[b] = b
(* ... or has failed out of the limit.                                        *)
Returning(P, q) ==
  /\ mode = "run" /\ k # <<>> /\ Head(k).op = "limit_retry" /\ Head(k).b = b /\ q.a = b + 1
  /\ Spare(P, Tail(k)) /\ cwil.limits = LimitsOf(q)

LInv(P, want, q) ==
  /\ q \in Limited /\ LimitRespected
  /\ Layers(P, q, cwil.local, orf, b) /\ Account(q, cwil, spent, b)
  /\ Going(P, want, q) \/ Resuming(P, q) \/ Stopping(want, q) \/ Returning(P, q) \/ mode = "done"

Held(G, P, want, lims, q) == OneLimit(G, P) /\ Inv(G, want, lims) /\ LInv(P, want, q)

(* The limit is over or does not have the address of the next frame. *)
LEMMA Renewed ==
  ASSUME NEW P, NEW want, NEW q, LInv(P, want, q), Going(P, want, q), b \in Nat
  PROVE  \E r : LInv(P, want, r) /\ Going(P, want, r) /\ r.a # b + 1
<1>1. CASE q.a # b + 1
  BY <1>1
<1>2. CASE q.a = b + 1
  <2>1. PICK r : r = [q EXCEPT !.a = b + 2]
    OBVIOUS
  <2>2. q \in Limited /\ q.a \in Nat
    BY DEF LInv, Limited
  <2>3. r \in Limited /\ r.a = b + 2
    BY <2>1, <2>2 DEF Limited
  <2>4. q.a > b /\ r.a > b /\ b <= b /\ ~(q.a <= b) /\ ~(r.a <= b) /\ r.a # b + 1
    BY <1>2, <2>3
  <2>5. Layers(P, r, cwil.local, orf, b)
    BY <2>2, <2>3, <2>4, LayersRenew DEF LInv
  <2>6. Lawful(P, r, cwil.local, k, b)
    BY <2>2, <2>3, <2>4, LawfulRenew DEF Going
  <2>7. Account(r, cwil, spent, b)
    BY <2>4 DEF Account
  <2>8. Counting(want, r, cwil.limits, b)
    <3>1. ~ InForce(want, q.a, b) /\ ~ InForce(want, r.a, b)
      BY <2>4 DEF InForce
    <3> QED BY <3>1 DEF Counting, Going
  <2>9. Going(P, want, r)
    BY <2>6, <2>8 DEF Going
  <2> QED BY <2>3, <2>4, <2>5, <2>7, <2>9 DEF LInv
<1> QED BY <1>1, <1>2

(* A goal or an exit is met while no ball is on its way. *)
LEMMA AtWork ==
  ASSUME NEW G, NEW P, NEW want, NEW lims, NEW q, Held(G, P, want, lims, q), NEW op, At(op), op \in GoalOps \cup RefOps
  PROVE  /\ Going(P, want, q) /\ ball = AnyBall
         /\ Lawful(P, q, cwil.local, Rest, b)
         /\ Bearing(P, Head(k)) => ~(q.a <= b) /\ Spare(P, Rest)
         /\ op = "limit_exit" => q.a <= b /\ Mine(q, Head(k))
<1>1. mode = "run" /\ k # <<>> /\ Head(k).op = op
  BY DEF At
<1>2. op \notin {"limit_reenter", "limit_retry", "recover"}
  BY DEF GoalOps, RefOps, ExitOps
<1>3. Going(P, want, q)
  BY <1>1, <1>2 DEF Held, LInv, Resuming, Stopping, Returning
<1>4. ball = AnyBall /\ Lawful(P, q, cwil.local, k, b)
  BY <1>1, <1>2, <1>3 DEF Going
<1>5. k \in Seq(Items(G))
  BY AtItem DEF Held, OneLimit
<1> QED BY <1>1, <1>3, <1>4, <1>5, LawfulHead DEF Rest

(* Where a continuation the machine runs next starts. *)
LEMMA NoWayBack ==
  ASSUME NEW G, Uncleaned(G), NEW kk \in Seq(Items(G))
  PROVE  kk # <<>> => Head(kk).op \notin {"limit_reenter", "limit_retry"}
<1> SUFFICES ASSUME kk # <<>> PROVE Head(kk).op \notin {"limit_reenter", "limit_retry"}
  OBVIOUS
<1>1. Head(kk) \in Items(G)
  BY TailFacts
<1> QED BY <1>1, ItemKinds DEF GoalOps, RefOps, ExitOps

(* The goals: which may install the next limit. *)
LEMMA GoalKinds ==
  ASSUME NEW G, NEW P, OneLimit(G, P), NEW g \in G
  PROVE  /\ g.op \in GoalOps /\ g.op \notin LimitOps
         /\ g \in P => Neutral(P, g)
         /\ g \notin P <=> Bearing(P, g)
<1>1. g.op \in GoalOps
  BY DEF OneLimit, Uncleaned
<1>2. g.op \notin LimitOps /\ g.op # "recover"
  BY <1>1 DEF GoalOps, LimitOps
<1> QED BY <1>1, <1>2 DEF Neutral, Bearing

(* What there is to show when the machine runs on. *)
LEMMA GoesOn ==
  ASSUME NEW G, NEW P, OneLimit(G, P), NEW want, NEW q \in Limited, mode' = "run", ball' = AnyBall, ~ cwil'.exceeded,
         k' \in Seq(Items(G)), Lawful(P, q, cwil'.local, k', b'), Counting(want, q, cwil'.limits, b'),
         Layers(P, q, cwil'.local, orf', b'), Account(q, cwil', spent', b'), LimitRespected'
  PROVE  LInv(P, want, q)'
<1>1. k' # <<>> => Head(k').op \notin {"limit_reenter", "limit_retry"}
  BY NoWayBack DEF OneLimit
<1>2. Going(P, want, q)'
  BY <1>1 DEF Going
<1> QED BY <1>2 DEF LInv

(* ... over the same frames and with the same count. *)
LEMMA GoesOnThere ==
  ASSUME NEW G, NEW P, NEW want, NEW lims, NEW q, Held(G, P, want, lims, q), Going(P, want, q), ball = AnyBall,
         UNCHANGED <<mode, orf, b, ball, cwil, spent>>,
         k' \in Seq(Items(G)), Lawful(P, q, cwil.local, k', b)
  PROVE  LInv(P, want, q)'
<1>1. q \in Limited /\ Layers(P, q, cwil.local, orf, b) /\ Account(q, cwil, spent, b) /\ LimitRespected
  BY DEF Held, LInv
<1>2. mode = "run" /\ ~ cwil.exceeded /\ Counting(want, q, cwil.limits, b)
  BY DEF Going
<1>3. LimitRespected'
  BY <1>1 DEF LimitRespected
<1>4. /\ mode' = "run" /\ ball' = AnyBall /\ ~ cwil'.exceeded /\ Lawful(P, q, cwil'.local, k', b')
      /\ Counting(want, q, cwil'.limits, b') /\ Layers(P, q, cwil'.local, orf', b') /\ Account(q, cwil', spent', b')
  BY <1>1, <1>2
<1>5. OneLimit(G, P)
  BY DEF Held
<1> QED BY <1>1, <1>3, <1>4, <1>5, GoesOn

(* What there is to show when the machine fails. *)
LEMMA Stops ==
  ASSUME NEW P, NEW want, NEW q \in Limited, mode' = "fail", Counting(want, q, cwil'.limits, b'),
         cwil'.exceeded => b' = q.a, ball' # AnyBall => want[b'] = b',
         Layers(P, q, cwil'.local, orf', b'), Account(q, cwil', spent', b'), LimitRespected'
  PROVE  LInv(P, want, q)'
<1>1. Stopping(want, q)'
  BY DEF Stopping
<1> QED BY <1>1 DEF LInv

LEMMA TrueLimit ==
  ASSUME NEW G, NEW P, NEW want, NEW lims, NEW q, Held(G, P, want, lims, q), True
  PROVE  LInv(P, want, q)'
<1>1. At("true") /\ k' = Rest /\ UNCHANGED <<mode, orf, b, ball, cwil, spent>>
  BY DEF True, handlers, limits
<1>2. Going(P, want, q) /\ ball = AnyBall /\ Lawful(P, q, cwil.local, Rest, b)
  BY <1>1, AtWork DEF GoalOps
<1>3. Rest \in Seq(Items(G))
  BY <1>1, AtGoal DEF GoalOps, Held, OneLimit
<1> QED BY <1>1, <1>2, <1>3, GoesOnThere

LEMMA FailLimit ==
  ASSUME NEW G, NEW P, NEW want, NEW lims, NEW q, Held(G, P, want, lims, q), Fail
  PROVE  LInv(P, want, q)'
<1>1. At("fail") /\ mode' = "fail" /\ UNCHANGED <<orf, b, ball, cwil, spent>>
  BY DEF Fail, handlers, limits
<1>2. ball = AnyBall /\ Counting(want, q, cwil.limits, b) /\ ~ cwil.exceeded
  BY <1>1, AtWork DEF GoalOps, Going
<1>3. q \in Limited /\ Layers(P, q, cwil.local, orf, b) /\ Account(q, cwil, spent, b) /\ LimitRespected
  BY DEF Held, LInv
<1>4. LimitRespected'
  BY <1>1, <1>3 DEF LimitRespected
<1>5. /\ Counting(want, q, cwil'.limits, b') /\ ~ cwil'.exceeded /\ ball' = AnyBall
      /\ Layers(P, q, cwil'.local, orf', b') /\ Account(q, cwil', spent', b')
  BY <1>1, <1>2, <1>3
<1> QED BY <1>1, <1>3, <1>4, <1>5, Stops

LEMMA DoneLimit ==
  ASSUME NEW P, NEW want, NEW q, LInv(P, want, q), Done \/ Exhausted
  PROVE  LInv(P, want, q)'
<1>1. mode' = "done" /\ UNCHANGED <<orf, b, cwil, spent>>
  BY DEF Done, Exhausted, limits
<1>2. q \in Limited /\ Layers(P, q, cwil.local, orf, b) /\ Account(q, cwil, spent, b) /\ LimitRespected
  BY DEF LInv
<1>3. LimitRespected'
  BY <1>1, <1>2 DEF LimitRespected
<1>4. Layers(P, q, cwil'.local, orf', b') /\ Account(q, cwil', spent', b')
  BY <1>1, <1>2
<1> QED BY <1>1, <1>2, <1>3, <1>4 DEF LInv

(* Two goals that are not both to install a limit. *)
LEMMA ConjunctionLimit ==
  ASSUME NEW G, NEW P, NEW want, NEW lims, NEW q, Held(G, P, want, lims, q), Conjunction
  PROVE  LInv(P, want, q)'
<1> DEFINE g == Head(k).g
           h == Head(k).h
           R == Rest
<1>1. At("and") /\ k' = <<g, h>> \o R /\ UNCHANGED <<mode, orf, b, ball, cwil, spent>>
  BY DEF Conjunction, handlers, limits
<1>2. Going(P, want, q) /\ ball = AnyBall /\ Lawful(P, q, cwil.local, R, b)
      /\ (Bearing(P, Head(k)) => ~(q.a <= b) /\ Spare(P, R))
  BY <1>1, AtWork DEF GoalOps
<1>3. R \in Seq(Items(G)) /\ Head(k) \in G /\ Head(k).op = "and"
  BY <1>1, AtGoal DEF GoalOps, Held, OneLimit
<1>4. OneLimit(G, P) /\ Uncleaned(G) /\ Uncleaned(P)
  BY DEF Held, OneLimit
<1>5. /\ g \in G /\ h \in G /\ (Head(k) \in P => g \in P /\ h \in P) /\ (g \in P \/ h \in P)
  BY <1>3, <1>4 DEF OneLimit, Uncleaned
<1>6. (Head(k) \in P \/ Bearing(P, Head(k))) /\ (g \in P => Neutral(P, g)) /\ (h \in P => Neutral(P, h))
      /\ g.op \notin LimitOps /\ h.op \notin LimitOps
  BY <1>3, <1>4, <1>5, GoalKinds
<1> HIDE DEF g, h, R
<1>7. g \in Items(G) /\ h \in Items(G)
  BY <1>5 DEF Items
<1>8. k' = <<g>> \o (<<h>> \o R)
  <2>1. <<g, h>> \o R = <<g>> \o (<<h>> \o R)
    BY <1>3, <1>7, TwoCons
  <2> QED BY <1>1, <2>1
<1>9. <<h>> \o R \in Seq(Items(G)) /\ <<g>> \o (<<h>> \o R) \in Seq(Items(G))
  <2>1. <<h>> \o R \in Seq(Items(G))
    BY <1>3, <1>7, ConsFacts
  <2> QED BY <1>7, <2>1, ConsFacts
<1>10. Lawful(P, q, cwil.local, <<g>> \o (<<h>> \o R), b)
  <2>1. CASE Head(k) \in P
    <3>1. Neutral(P, g) /\ Neutral(P, h)
      BY <1>5, <1>6, <2>1
    <3>2. Lawful(P, q, cwil.local, <<h>> \o R, b)
      BY <1>2, <1>3, <1>7, <3>1, LawfulCons
    <3> QED BY <1>7, <1>9, <3>1, <3>2, LawfulCons
  <2>2. CASE Bearing(P, Head(k)) /\ g \in P
    <3>1. Lawful(P, q, cwil.local, <<h>> \o R, b)
      BY <1>2, <1>3, <1>6, <1>7, <2>2, LawfulCons
    <3> QED BY <1>6, <1>7, <1>9, <2>2, <3>1, LawfulCons
  <2>3. CASE Bearing(P, Head(k)) /\ h \in P
    <3>1. Spare(P, <<h>> \o R)
      BY <1>2, <1>3, <1>6, <1>7, <2>3, SpareCons
    <3> QED BY <1>2, <1>6, <1>7, <1>9, <2>3, <3>1, LawfulCons
  <2> QED BY <1>5, <1>6, <2>1, <2>2, <2>3
<1> QED BY <1>1, <1>2, <1>8, <1>9, <1>10, GoesOnThere

(* A goal of the running goal takes its place. *)
LEMMA PartLawful ==
  ASSUME NEW G, NEW P, OneLimit(G, P), NEW q, NEW loc, NEW h, NEW R \in Seq(Items(G)), NEW x \in G, NEW g \in G,
         Lawful(P, q, loc, R, h), Bearing(P, x) => ~(q.a <= h) /\ Spare(P, R), x \in P => g \in P
  PROVE  Lawful(P, q, loc, <<g>> \o R, h) /\ <<g>> \o R \in Seq(Items(G))
<1>1. g \in Items(G)
  BY DEF Items
<1>2. (x \in P \/ Bearing(P, x)) /\ (g \in P => Neutral(P, g)) /\ g.op \notin LimitOps
  BY GoalKinds
<1>3. Lawful(P, q, loc, <<g>> \o R, h)
  BY <1>1, <1>2, LawfulCons
<1> QED BY <1>1, <1>3, ConsFacts

(* A goal of the running goal takes its place, with a way out of it. *)
LEMMA EnterLawful ==
  ASSUME NEW G, NEW P, OneLimit(G, P), NEW q, NEW loc, NEW h, NEW R \in Seq(Items(G)), NEW x \in G, NEW g \in G,
         NEW y \in Items(G), Neutral(P, y),
         Lawful(P, q, loc, R, h), Bearing(P, x) => ~(q.a <= h) /\ Spare(P, R), x \in P => g \in P
  PROVE  Lawful(P, q, loc, <<g, y>> \o R, h) /\ <<g, y>> \o R \in Seq(Items(G))
<1>1. PICK T \in Seq(Items(G)) : T = <<y>> \o R
  BY ConsFacts
<1>2. Lawful(P, q, loc, T, h)
  BY <1>1, LawfulCons
<1>3. Bearing(P, x) => ~(q.a <= h) /\ Spare(P, T)
  BY <1>1, SpareCons
<1>4. Lawful(P, q, loc, <<g>> \o T, h) /\ <<g>> \o T \in Seq(Items(G))
  BY <1>2, <1>3, PartLawful
<1>5. g \in Items(G)
  BY DEF Items
<1>6. <<g, y>> \o R = <<g>> \o T
  BY <1>1, <1>5, TwoCons
<1> QED BY <1>4, <1>6

LEMMA CallOnceLimit ==
  ASSUME NEW G, NEW P, NEW want, NEW lims, NEW q, Held(G, P, want, lims, q), CallOnce
  PROVE  LInv(P, want, q)'
<1> DEFINE g == Head(k).g
           y == [op |-> "cut", to |-> b]
           R == Rest
<1>1. At("once") /\ k' = <<g, y>> \o R /\ UNCHANGED <<mode, orf, b, ball, cwil, spent>>
  BY DEF CallOnce, handlers, limits
<1>2. Going(P, want, q) /\ ball = AnyBall /\ Lawful(P, q, cwil.local, R, b)
      /\ (Bearing(P, Head(k)) => ~(q.a <= b) /\ Spare(P, R))
  BY <1>1, AtWork DEF GoalOps
<1>3. R \in Seq(Items(G)) /\ Head(k) \in G /\ Head(k).op = "once"
  BY <1>1, AtGoal DEF GoalOps, Held, OneLimit
<1>4. OneLimit(G, P) /\ Uncleaned(G) /\ Uncleaned(P) /\ b \in Nat
  BY DEF Held, OneLimit, Inv
<1>5. g \in G /\ (Head(k) \in P => g \in P)
  BY <1>3, <1>4 DEF Uncleaned
<1>6. y \in Items(G) /\ Neutral(P, y)
  <2>1. y \in Cuts
    BY <1>4 DEF Cuts
  <2> QED BY <2>1 DEF Items, Neutral, Bearing, GoalOps, LimitOps
<1> HIDE DEF g, y, R
<1>7. Lawful(P, q, cwil.local, <<g, y>> \o R, b) /\ <<g, y>> \o R \in Seq(Items(G))
  BY <1>2, <1>3, <1>4, <1>5, <1>6, EnterLawful
<1> QED BY <1>1, <1>2, <1>7, GoesOnThere

(* A new frame that goes on without another limit. *)
LEMMA GoesOnPushed ==
  ASSUME NEW G, NEW P, NEW want, NEW lims, NEW q, Held(G, P, want, lims, q), Going(P, want, q), ball = AnyBall, q.a # b + 1,
         NEW w, NEW lims2, NEW v, Pushed(want, lims, w, lims2, b, v), InForce(want, q.a, b) => v >= q.a,
         NEW f \in Frames(G), NEW kk, f.alts = <<kk>>, Lawful(P, q, cwil.local, kk, b),
         orf' = Append(SubSeq(orf, 1, b), f), b' = b + 1, UNCHANGED <<mode, ball, cwil, spent>>,
         k' \in Seq(Items(G)), Lawful(P, q, cwil.local, k', b)
  PROVE  LInv(P, w, q)'
<1>1. q \in Limited /\ Layers(P, q, cwil.local, orf, b) /\ Account(q, cwil, spent, b) /\ LimitRespected
  BY DEF Held, LInv
<1>2. mode = "run" /\ ~ cwil.exceeded /\ Counting(want, q, cwil.limits, b)
  BY DEF Going
<1>3. b \in Nat /\ Ghosts(want, lims) /\ Stacked(G, want, lims, orf, b)
  BY DEF Held, Inv
<1>4. q.a \in Nat /\ (q.a <= b + 1 <=> q.a <= b) /\ b + 1 # q.a /\ (b + 1) - 1 = b
  <2>1. PICK a \in Nat : a = q.a
    BY <1>1 DEF Limited
  <2>2. (a <= b + 1 <=> a <= b) /\ b + 1 # a /\ (b + 1) - 1 = b
    BY <1>3, <2>1
  <2> QED BY <2>1, <2>2
<1>5. LimitRespected'
  BY <1>1 DEF LimitRespected
<1>6. Counting(w, q, cwil.limits, b + 1)
  <2>1. InForce(want, q.a, b) <=> InForce(w, q.a, b + 1)
    BY <1>3, <1>4, InForceUp
  <2> QED BY <1>2, <2>1, CountingSame
<1>7. Layer(P, q, cwil.local, f, b + 1)
  <2>1. f.alts[1] = kk
    OBVIOUS
  <2> QED BY <1>4, <2>1 DEF Layer
<1>8. Layers(P, q, cwil.local, orf', b + 1)
  <2>1. orf \in Seq(Frames(G)) /\ b <= Len(orf)
    BY <1>3 DEF Stacked
  <2> QED BY <1>1, <1>3, <1>7, <2>1, LayersPush
<1>9. Lawful(P, q, cwil.local, k', b + 1)
  BY <1>1, <1>3, <1>4, LawfulRaise
<1>10. Account(q, cwil, spent, b + 1)
  BY <1>1, <1>4 DEF Account
<1>11. /\ mode' = "run" /\ ball' = AnyBall /\ ~ cwil'.exceeded /\ Lawful(P, q, cwil'.local, k', b')
       /\ Counting(w, q, cwil'.limits, b') /\ Layers(P, q, cwil'.local, orf', b') /\ Account(q, cwil', spent', b')
  BY <1>2, <1>6, <1>8, <1>9, <1>10
<1>12. OneLimit(G, P)
  BY DEF Held
<1> QED BY <1>1, <1>5, <1>11, <1>12, GoesOn

(* An item that deals in no limit goes before a goal. *)
LEMMA BeforeLawful ==
  ASSUME NEW G, NEW P, NEW q, NEW loc, NEW h, NEW R \in Seq(Items(G)), NEW g \in Items(G),
         NEW y \in Items(G), Neutral(P, y), Lawful(P, q, loc, <<g>> \o R, h)
  PROVE  Lawful(P, q, loc, <<y, g>> \o R, h) /\ <<y, g>> \o R \in Seq(Items(G))
<1>1. PICK T \in Seq(Items(G)) : T = <<g>> \o R
  BY ConsFacts
<1>2. <<y, g>> \o R = <<y>> \o T
  BY <1>1, TwoCons
<1>3. Lawful(P, q, loc, <<y>> \o T, h)
  BY <1>1, LawfulCons
<1>4. <<y>> \o T \in Seq(Items(G))
  BY ConsFacts
<1> QED BY <1>2, <1>3, <1>4

LEMMA DisjunctionLimit ==
  ASSUME NEW G, NEW P, NEW want, NEW lims, NEW q, Held(G, P, want, lims, q), Disjunction, q.a # b + 1,
         NEW w, NEW lims2, Pushed(want, lims, w, lims2, b, want[b])
  PROVE  LInv(P, w, q)'
<1> DEFINE g == Head(k).g
           h == Head(k).h
           R == Rest
           tick == Atomic("tick")
           f == [alts |-> <<<<tick, h>> \o R>>, prev |-> b]
<1>1. At("or") /\ k' = <<g>> \o R /\ UNCHANGED <<mode, ball, cwil, spent>>
  BY DEF Disjunction, handlers, limits
<1>2. orf' = Append(SubSeq(orf, 1, b), f) /\ b' = b + 1
  BY DEF Disjunction, PushFrame
<1>3. Going(P, want, q) /\ ball = AnyBall /\ Lawful(P, q, cwil.local, R, b)
      /\ (Bearing(P, Head(k)) => ~(q.a <= b) /\ Spare(P, R))
  BY <1>1, AtWork DEF GoalOps
<1>4. R \in Seq(Items(G)) /\ Head(k) \in G /\ Head(k).op = "or"
  BY <1>1, AtGoal DEF GoalOps, Held, OneLimit
<1>5. OneLimit(G, P) /\ Uncleaned(G) /\ Uncleaned(P) /\ b \in Nat /\ Ghosts(want, lims)
  BY DEF Held, OneLimit, Inv
<1>6. g \in G /\ h \in G /\ (Head(k) \in P => g \in P /\ h \in P)
  BY <1>4, <1>5 DEF Uncleaned
<1>11. tick \in P /\ tick \in Items(G) /\ tick \in G
  <2>1. tick \in P
    BY <1>4, <1>5 DEF OneLimit
  <2>2. tick \in G
    BY <1>5, <2>1 DEF OneLimit
  <2> QED BY <2>1, <2>2 DEF Items
<1> HIDE DEF g, h, R, tick
<1>7. Lawful(P, q, cwil.local, <<g>> \o R, b) /\ <<g>> \o R \in Seq(Items(G))
  BY <1>3, <1>4, <1>5, <1>6, PartLawful
<1>8. Lawful(P, q, cwil.local, <<tick, h>> \o R, b) /\ <<tick, h>> \o R \in Seq(Items(G))
  <2>1. h \in Items(G)
    BY <1>6 DEF Items
  <2>2. Lawful(P, q, cwil.local, <<h>> \o R, b)
    BY <1>3, <1>4, <1>5, <1>6, PartLawful
  <2>3. Neutral(P, tick)
    BY <1>5, <1>11, GoalKinds
  <2> QED BY <1>4, <1>11, <2>1, <2>2, <2>3, BeforeLawful
<1>9. f \in Frames(G) /\ f.alts = <<<<tick, h>> \o R>>
  <2>1. Items(G) \subseteq AllItems(G)
    BY DEF AllItems
  <2>2. <<tick, h>> \o R \in Seq(AllItems(G))
    BY <1>8, <2>1, SeqMonotonic
  <2> QED BY <1>5, <2>2, FrameTyped
<1> HIDE DEF f
<1>10. InForce(want, q.a, b) => want[b] >= q.a
  BY <1>5, InForceFacts
<1> QED BY <1>1, <1>2, <1>3, <1>7, <1>8, <1>9, <1>10, GoesOnPushed

(* A frame made under the block in power, or that block's own: what is in     *)
(* force there is what is in force.                                           *)
LEMMA AcrossCut ==
  ASSUME NEW G, NEW want, NEW lims, Ghosts(want, lims), NEW h \in Nat, NEW h1 \in Nat, h1 <= h, NEW e \in Nat,
         NEW kk, NEW v, Good(G, want, lims, kk, h), Power(kk, 1, v), want[h] = v, want[h1] = v
  PROVE  InForce(want, e, h) <=> InForce(want, e, h1)
<1>1. v \in Nat /\ v <= h1 /\ v <= h1 + 1
  BY DEF Ghosts
<1>2. v = 0 \/ InForce(want, v, h)
  <2>1. CASE \E j \in 1 .. Len(kk) : kk[j].op \in ExitOps /\ kk[j].nbb = v
    <3>1. PICK j \in 1 .. Len(kk) : kk[j].op \in ExitOps /\ kk[j].nbb = v
      BY <2>1
    <3>2. ExitOK(want, lims, kk, j, h)
      BY DEF Good
    <3> QED BY <3>1, <3>2 DEF ExitOK
  <2> QED BY <2>1 DEF Power
<1>3. InForce(want, e, h) => e <= h1
  <2>1. InForce(want, e, h) => e <= want[h]
    BY InForceFacts
  <2> QED BY <1>1, <2>1
<1>4. InForce(want, e, h1) => v >= e
  <2>1. InForce(want, e, h1) => e <= want[h1]
    BY InForceFacts
  <2> QED BY <1>1, <2>1
<1> QED BY <1>1, <1>2, <1>3, <1>4, InForceBack

(* A cut that keeps the block: the limit counts on if it did. *)
LEMMA CutLimit ==
  ASSUME NEW G, NEW P, NEW want, NEW lims, NEW q, Held(G, P, want, lims, q), Cut
  PROVE  LInv(P, want, q)'
<1> DEFINE to == Head(k).to
           R == Rest
<1>1. At("cut") /\ b' = Least(b, to) /\ k' = (IF CleanersDue(b') THEN <<RunCleaners>> ELSE <<>>) \o R
      /\ UNCHANGED <<mode, orf, ball, cwil, spent>>
  BY DEF Cut, handlers, limits
<1>2. Going(P, want, q) /\ ball = AnyBall /\ Lawful(P, q, cwil.local, R, b)
  BY <1>1, AtWork DEF RefOps
<1>3. Running(G, want, lims) /\ k # <<>> /\ Head(k).op = "cut" /\ R \in Seq(Items(G))
  BY <1>1, AtItem DEF RefOps, Held, OneLimit, Rest
<1>4. OneLimit(G, P) /\ Uncleaned(G) /\ b \in Nat /\ Ghosts(want, lims) /\ want \in [Nat -> Nat]
  BY DEF Held, OneLimit, Inv, Ghosts
<1>5. Good(G, want, lims, k, b) /\ Power(k, 1, block) /\ want[b] = block
  BY <1>3 DEF Running
<1>6. to \in 0 .. b /\ Good(G, want, lims, R, to) /\ Power(R, 1, want[to])
  <2>1. to \in 0 .. b /\ Power(R, 1, want[to])
    BY <1>3, <1>4, <1>5, GoodTail DEF Rest
  <2>2. Good(G, want, lims, R, to)
    BY <1>3, <1>4, <1>5, GoodTail DEF Rest
  <2> QED BY <2>1, <2>2
<1>7. Power(R, 1, block)
  <2>1. Head(k).op \notin ExitOps
    BY <1>3 DEF ExitOps
  <2> QED BY <1>3, <1>4, <1>5, <2>1, GoodTail DEF Rest
<1> HIDE DEF to, R
<1>8. block = want[to]
  <2>1. Len(R) \in Nat
    BY <1>3, LenProperties
  <2> QED BY <1>6, <1>7, <2>1, PowerUnique
<1>9. to \in Nat /\ to <= b /\ Least(b, to) = to
  BY <1>4, <1>6 DEF Least
<1>10. k' = R
  <2>1. ~ CleanersDue(b')
    BY DEF Held, Inv, NoCleaners, CleanersDue
  <2> QED BY <1>1, <1>3, <2>1, NothingFirst
<1>11. q \in Limited /\ Layers(P, q, cwil.local, orf, b) /\ Account(q, cwil, spent, b) /\ LimitRespected
  BY DEF Held, LInv
<1>12. Lawful(P, q, cwil.local, R, to)
  BY <1>2, <1>4, <1>6, <1>9, <1>11, LawfulLower
<1>13. mode = "run" /\ ~ cwil.exceeded /\ Counting(want, q, cwil.limits, b)
  BY <1>2 DEF Going
<1>14. Counting(want, q, cwil.limits, to)
  <2>1. q.a \in Nat
    BY <1>11 DEF Limited
  <2>2. InForce(want, q.a, b) <=> InForce(want, q.a, to)
    BY <1>4, <1>5, <1>8, <1>9, <2>1, AcrossCut
  <2> QED BY <1>13, <2>2, CountingSame
<1>15. Layers(P, q, cwil.local, orf, to)
  BY <1>4, <1>9, <1>11, LayersKeep
<1>16. Account(q, cwil, spent, to)
  <2>1. q.a \in Nat
    BY <1>11 DEF Limited
  <2>2. q.a <= to => q.a <= b
    BY <1>4, <1>9, <2>1
  <2> QED BY <1>11, <2>2 DEF Account
<1>17. LimitRespected'
  BY <1>1, <1>11 DEF LimitRespected
<1>18. /\ mode' = "run" /\ ball' = AnyBall /\ ~ cwil'.exceeded /\ Lawful(P, q, cwil'.local, k', b') /\ k' \in Seq(Items(G))
       /\ Counting(want, q, cwil'.limits, b') /\ Layers(P, q, cwil'.local, orf', b') /\ Account(q, cwil', spent', b')
  BY <1>1, <1>2, <1>3, <1>9, <1>10, <1>12, <1>13, <1>14, <1>15, <1>16
<1> QED BY <1>4, <1>11, <1>17, <1>18, GoesOn

-----------------------------------------------------------------------------
(* Backtracking. *)

(* Popping a frame that is not the limit's. *)
LEMMA InForceDown ==
  ASSUME NEW want, NEW lims, Ghosts(want, lims), NEW h \in Nat \ {0}, NEW e \in Nat, e # h,
         InForce(want, e, h - 1) => want[h] >= e
  PROVE  InForce(want, e, h) <=> InForce(want, e, h - 1)
<1>0. h - 1 \in Nat /\ h - 1 <= h
  OBVIOUS
<1>1. ASSUME InForce(want, e, h) PROVE InForce(want, e, h - 1)
  <2>1. e <= h
    BY <1>1 DEF InForce
  <2>2. e <= h - 1
    BY <2>1
  <2> QED BY <1>0, <1>1, <2>2, InForceLower
<1>2. ASSUME InForce(want, e, h - 1) PROVE InForce(want, e, h)
  <2>1. e >= 1 /\ e <= h - 1 /\ want[e] = e /\ (\A a \in e .. h - 1 : want[a] >= e) /\ want[h] >= e
    BY <1>2 DEF InForce
  <2>2. \A a \in e .. h : a = h \/ a \in e .. h - 1
    OBVIOUS
  <2>3. \A a \in e .. h : want[a] >= e
    BY <2>1, <2>2
  <2>4. e \in 1 .. h
    BY <2>1
  <2> QED BY <2>1, <2>3, <2>4 DEF InForce
<1> QED BY <1>1, <1>2

(* The first item of an alternative says what its frame is. *)
LEMMA FrameKinds ==
  ASSUME NEW G, Uncleaned(G), NEW want, NEW lims, NEW f, NEW a, FrameOK(G, want, lims, f, a), NEW kk, f.alts = <<kk>>
  PROVE  /\ kk \in Seq(AllItems(G))
         /\ kk # <<>> /\ Head(kk).op = "limit_retry" => HandlerFrame(G, want, lims, f, a) /\ want[a] = a /\ a \in lims
<1>0. \A m : f.alts = <<m>> => m = kk
  OBVIOUS
<1>1. CASE PlainFrame(G, want, lims, f, a)
  <2>1. kk \in Seq(Items(G))
    BY <1>0, <1>1 DEF PlainFrame
  <2>2. kk \in Seq(AllItems(G))
    <3>1. Items(G) \subseteq AllItems(G)
      BY DEF AllItems
    <3> QED BY <2>1, <3>1, SeqMonotonic
  <2> QED BY <2>1, <2>2, NoWayBack
<1>2. CASE HandlerFrame(G, want, lims, f, a)
  <2>1. PICK x \in HandlerItems(G), R \in Seq(Items(G)) : f.alts = <<<<x>> \o R>> /\ (a \in lims <=> x.op = "limit_retry")
    BY <1>2 DEF HandlerFrame
  <2>2. kk = <<x>> \o R
    BY <1>0, <2>1
  <2>3. kk \in Seq(AllItems(G)) /\ Head(kk) = x
    BY <2>2, ReturnFacts
  <2> QED BY <1>2, <2>1, <2>3 DEF HandlerFrame
<1>3. CASE ReentryFrame(G, want, lims, f, a)
  <2>1. PICK x \in ReentryItems, R \in Seq(Items(G)) : f.alts = <<<<x>> \o R>>
    BY <1>3 DEF ReentryFrame
  <2>2. kk = <<x>> \o R
    BY <1>0, <2>1
  <2>3. kk \in Seq(AllItems(G)) /\ Head(kk) = x
    BY <2>2, ReturnFacts
  <2>4. x.op # "limit_retry"
    BY DEF ReentryItems, Reenters, LimitReenters
  <2> QED BY <2>3, <2>4
<1> QED BY <1>1, <1>2, <1>3 DEF FrameOK

LEMMA OneAlternative ==
  ASSUME NEW G, NEW want, NEW lims, NEW f, NEW a, FrameOK(G, want, lims, f, a)
  PROVE  \E kk : f.alts = <<kk>>
BY DEF FrameOK, PlainFrame, HandlerFrame, ReentryFrame

(* The limit's own frame, as long as it is there. *)
LEMMA LimitFrame ==
  ASSUME NEW G, Uncleaned(G), NEW want, NEW lims, NEW P, NEW q \in Limited, NEW loc, NEW o, NEW h \in Nat,
         Stacked(G, want, lims, o, h), Layers(P, q, loc, o, h), q.a <= h
  PROVE  want[q.a] = q.a /\ q.a \in lims
<1>1. q.a \in 1 .. h
  BY DEF Limited
<1>2. FrameOK(G, want, lims, o[q.a], q.a)
  BY <1>1 DEF Stacked
<1>3. Limiter(P, q, o[q.a])
  BY <1>1 DEF Layers, Layer
<1>4. PICK kk : o[q.a].alts = <<kk>>
  BY <1>2, OneAlternative
<1>5. kk # <<>> /\ Head(kk).op = "limit_retry"
  BY <1>3, <1>4 DEF Limiter
<1> QED BY <1>2, <1>4, <1>5, FrameKinds

(* Failing into the limit's own frame, its goal has failed or was stopped. *)
LEMMA FailOut ==
  ASSUME NEW G, NEW P, NEW want, NEW lims, NEW q, Held(G, P, want, lims, q), Stopping(want, q), b = q.a,
         mode' = "run", b' = b - 1, orf[b].alts = <<k'>>, UNCHANGED <<orf, ball, cwil, spent>>
  PROVE  LInv(P, want, q)'
<1>1. q \in Limited /\ Layers(P, q, cwil.local, orf, b) /\ Account(q, cwil, spent, b) /\ LimitRespected
  BY DEF Held, LInv
<1>2. OneLimit(G, P) /\ Uncleaned(G) /\ b \in Nat /\ Ghosts(want, lims) /\ Stacked(G, want, lims, orf, b)
  BY DEF Held, OneLimit, Inv
<1>3. b \in Nat \ {0} /\ b \in 1 .. b /\ b - 1 \in Nat /\ b - 1 <= b /\ b = (b - 1) + 1 /\ ~(b <= b - 1)
  BY <1>1, <1>2 DEF Limited
<1>4. want[q.a] = q.a
  <2>1. q.a <= b
    BY <1>3
  <2> QED BY <1>1, <1>2, <2>1, LimitFrame
<1>5. Limiter(P, q, orf[b])
  BY <1>1, <1>3 DEF Layers, Layer
<1>6. orf[b].alts[1] = k'
  OBVIOUS
<1>7. k' # <<>> /\ Head(k').op = "limit_retry" /\ Head(k').b = b - 1 /\ Spare(P, Tail(k'))
  BY <1>5, <1>6 DEF Limiter
<1>8. cwil.limits = LimitsOf(q)
  <2>1. InForce(want, q.a, b)
    <3>1. \A a \in b .. b : want[a] >= b
      BY <1>3, <1>4
    <3> QED BY <1>3, <1>4, <3>1 DEF InForce
  <2> QED BY <2>1 DEF Stopping, Counting
<1>9. Layers(P, q, cwil.local, orf, b - 1)
  BY <1>1, <1>3, LayersKeep
<1>10. Account(q, cwil, spent, b - 1)
  BY <1>3 DEF Account
<1>11. LimitRespected'
  BY <1>1 DEF LimitRespected
<1>12. Returning(P, q)'
  BY <1>3, <1>7, <1>8 DEF Returning
<1> QED BY <1>1, <1>9, <1>10, <1>11, <1>12 DEF LInv

(* Failing into another frame. *)
LEMMA FailInto ==
  ASSUME NEW G, NEW P, NEW want, NEW lims, NEW q, Held(G, P, want, lims, q), Stopping(want, q), b # q.a, b > 0
  PROVE  /\ Lawful(P, q, cwil.local, orf[b].alts[1], b - 1) /\ ~ cwil.exceeded
         /\ Layers(P, q, cwil.local, orf, b - 1) /\ Account(q, cwil, spent, b - 1)
         /\ q \in Limited /\ LimitRespected /\ b \in Nat \ {0} /\ b - 1 \in Nat
<1>1. q \in Limited /\ Layers(P, q, cwil.local, orf, b) /\ Account(q, cwil, spent, b) /\ LimitRespected
  BY DEF Held, LInv
<1>2. b \in Nat \ {0} /\ b \in 1 .. b /\ b - 1 \in Nat /\ b - 1 <= b
  BY DEF Held, Inv
<1>3. Lawful(P, q, cwil.local, orf[b].alts[1], b - 1)
  BY <1>1, <1>2 DEF Layers, Layer
<1>4. Layers(P, q, cwil.local, orf, b - 1)
  BY <1>1, <1>2, LayersKeep
<1>5. Account(q, cwil, spent, b - 1)
  <2>1. PICK a \in Nat : a = q.a
    BY <1>1 DEF Limited
  <2>2. a <= b - 1 => a <= b
    BY <1>2, <2>1
  <2> QED BY <1>1, <2>1, <2>2 DEF Account
<1> QED BY <1>1, <1>2, <1>3, <1>4, <1>5 DEF Stopping

(* The second clause of a catch is met, or the way back into one. *)
LEMMA ComesBack ==
  ASSUME NEW P, NEW want, NEW q \in Limited, mode' = "run", ~ cwil'.exceeded,
         k' # <<>>, Head(k').op = "recover" \/ (Head(k').op = "reenter" /\ ball' = AnyBall),
         Lawful(P, q, cwil'.local, k', b'), Counting(want, q, cwil'.limits, b'),
         Layers(P, q, cwil'.local, orf', b'), Account(q, cwil', spent', b'), LimitRespected'
  PROVE  LInv(P, want, q)'
<1>1. Going(P, want, q)'
  BY DEF Going
<1> QED BY <1>1 DEF LInv

LEMMA PlainLimit ==
  ASSUME NEW G, NEW P, NEW want, NEW lims, NEW q, Held(G, P, want, lims, q), Stopping(want, q), b # q.a, b > 0,
         mode' = "run", b' = b - 1, orf[b].alts = <<k'>>, UNCHANGED <<orf, ball, cwil, spent>>,
         PlainFrame(G, want, lims, orf[b], b)
  PROVE  LInv(P, want, q)'
<1>1. /\ Lawful(P, q, cwil.local, orf[b].alts[1], b - 1) /\ ~ cwil.exceeded
      /\ Layers(P, q, cwil.local, orf, b - 1) /\ Account(q, cwil, spent, b - 1)
      /\ q \in Limited /\ LimitRespected /\ b \in Nat \ {0} /\ b - 1 \in Nat
  BY FailInto
<1>2. OneLimit(G, P) /\ Uncleaned(G) /\ Ghosts(want, lims)
  BY DEF Held, OneLimit, Inv
<1>3. orf[b].alts[1] = k' /\ \A kk : orf[b].alts = <<kk>> => kk = k'
  OBVIOUS
<1>4. want[b] = want[b - 1] /\ k' \in Seq(Items(G))
  BY <1>3 DEF PlainFrame
<1>5. want[b] <= b - 1 /\ want[b] # b
  <2>1. want[b - 1] \in Nat /\ want[b - 1] <= b - 1
    BY <1>1, <1>2 DEF Ghosts
  <2>2. want[b] # b
    BY <1>1, <1>4, <2>1
  <2> QED BY <1>4, <2>1, <2>2
<1>6. ball = AnyBall
  BY <1>5 DEF Stopping
<1>7. Counting(want, q, cwil.limits, b - 1)
  <2>1. PICK a \in Nat : a = q.a
    BY <1>1 DEF Limited
  <2>2. InForce(want, a, b - 1) => want[b] >= a
    BY <1>1, <1>2, <1>4, InForceFacts
  <2>3. InForce(want, a, b) <=> InForce(want, a, b - 1)
    BY <1>1, <1>2, <2>1, <2>2, InForceDown
  <2> QED BY <2>1, <2>3, CountingSame DEF Stopping
<1>8. LimitRespected'
  BY <1>1 DEF LimitRespected
<1>9. /\ ball' = AnyBall /\ ~ cwil'.exceeded /\ Lawful(P, q, cwil'.local, k', b')
      /\ Counting(want, q, cwil'.limits, b') /\ Layers(P, q, cwil'.local, orf', b') /\ Account(q, cwil', spent', b')
  BY <1>1, <1>3, <1>6, <1>7
<1> QED BY <1>1, <1>2, <1>4, <1>8, <1>9, GoesOn

LEMMA HandlerLimit ==
  ASSUME NEW G, NEW P, NEW want, NEW lims, NEW q, Held(G, P, want, lims, q), Stopping(want, q), b # q.a, b > 0,
         mode' = "run", b' = b - 1, orf[b].alts = <<k'>>, UNCHANGED <<orf, ball, cwil, spent>>,
         HandlerFrame(G, want, lims, orf[b], b)
  PROVE  LInv(P, want, q)'
<1>1. /\ Lawful(P, q, cwil.local, orf[b].alts[1], b - 1) /\ ~ cwil.exceeded
      /\ Layers(P, q, cwil.local, orf, b - 1) /\ Account(q, cwil, spent, b - 1)
      /\ q \in Limited /\ LimitRespected /\ b \in Nat \ {0} /\ b - 1 \in Nat
  BY FailInto
<1>2. Ghosts(want, lims)
  BY DEF Held, Inv
<1>3. orf[b].alts[1] = k' /\ \A kk : orf[b].alts = <<kk>> => kk = k'
  OBVIOUS
<1>4. PICK x \in HandlerItems(G), R \in Seq(Items(G)) : orf[b].alts = <<<<x>> \o R>>
  BY DEF HandlerFrame
<1>5. k' \in Seq(AllItems(G)) /\ k' # <<>> /\ Head(k') = x
  <2>1. PICK kk : kk = <<x>> \o R
    OBVIOUS
  <2>2. kk = k'
    BY <1>3, <1>4, <2>1
  <2>3. kk \in Seq(AllItems(G)) /\ kk # <<>> /\ Head(kk) = x
    BY <2>1, ReturnFacts
  <2> QED BY <2>2, <2>3
<1>6. Head(k').op = "recover"
  <2>1. Head(k').op # "limit_retry"
    BY <1>1, <1>3, <1>5, LawfulHead
  <2> QED BY <1>5, <2>1, ReturnKinds DEF HandlerOps
<1>7. Counting(want, q, cwil.limits, b - 1)
  <2>1. PICK a \in Nat : a = q.a
    BY <1>1 DEF Limited
  <2>2. InForce(want, a, b - 1) => want[b] >= a
    <3>1. InForce(want, a, b - 1) => a <= b - 1
      BY DEF InForce
    <3>2. a <= b - 1 => b >= a
      BY <1>1, <2>1
    <3> QED BY <3>1, <3>2 DEF HandlerFrame
  <2>3. InForce(want, a, b) <=> InForce(want, a, b - 1)
    BY <1>1, <1>2, <2>1, <2>2, InForceDown
  <2> QED BY <2>1, <2>3, CountingSame DEF Stopping
<1>8. LimitRespected'
  BY <1>1 DEF LimitRespected
<1>9. /\ ~ cwil'.exceeded /\ Lawful(P, q, cwil'.local, k', b')
      /\ Counting(want, q, cwil'.limits, b') /\ Layers(P, q, cwil'.local, orf', b') /\ Account(q, cwil', spent', b')
  BY <1>1, <1>3, <1>7
<1> QED BY <1>1, <1>5, <1>6, <1>8, <1>9, ComesBack

(* Failing back into the goal of a catch or of the limit. *)
LEMMA ReentryLimit ==
  ASSUME NEW G, NEW P, NEW want, NEW lims, NEW q, Held(G, P, want, lims, q), Stopping(want, q), b # q.a, b > 0,
         mode' = "run", b' = b - 1, orf[b].alts = <<k'>>, UNCHANGED <<orf, ball, cwil, spent>>,
         ReentryFrame(G, want, lims, orf[b], b)
  PROVE  LInv(P, want, q)'
<1>1. /\ Lawful(P, q, cwil.local, orf[b].alts[1], b - 1) /\ ~ cwil.exceeded
      /\ Layers(P, q, cwil.local, orf, b - 1) /\ Account(q, cwil, spent, b - 1)
      /\ q \in Limited /\ LimitRespected /\ b \in Nat \ {0} /\ b - 1 \in Nat
  BY FailInto
<1>2. OneLimit(G, P) /\ Uncleaned(G) /\ Ghosts(want, lims) /\ Stacked(G, want, lims, orf, b)
  BY DEF Held, OneLimit, Inv
<1>3. orf[b].alts[1] = k' /\ \A kk : orf[b].alts = <<kk>> => kk = k'
  OBVIOUS
<1>4. PICK x \in ReentryItems, R \in Seq(Items(G)) :
          /\ orf[b].alts = <<<<x>> \o R>>
          /\ x.nbb = want[b - 1] /\ InForce(want, x.nbb, b - 1) /\ want[b] = want[x.nbb - 1]
          /\ x.nbb \in lims <=> x.op = "limit_reenter"
  BY DEF ReentryFrame
<1>5. k' \in Seq(AllItems(G)) /\ k' # <<>> /\ Head(k') = x
  <2>1. PICK kk : kk = <<x>> \o R
    OBVIOUS
  <2>2. kk = k'
    BY <1>3, <1>4, <2>1
  <2>3. kk \in Seq(AllItems(G)) /\ kk # <<>> /\ Head(kk) = x
    BY <2>1, ReturnFacts
  <2> QED BY <2>2, <2>3
<1>6. PICK a \in Nat : a = q.a
  BY <1>1 DEF Limited
<1>7. PICK v \in Nat : v = x.nbb
  BY <1>1, <1>2, <1>4, InForceFacts
<1>8. v >= 1 /\ v <= b - 1 /\ v - 1 \in Nat
  BY <1>1, <1>2, <1>4, <1>7, InForceFacts
<1>9. want[b] \in Nat /\ want[b] <= v - 1 /\ want[b] # b
  <2>1. want[v - 1] \in Nat /\ want[v - 1] <= v - 1
    BY <1>2, <1>8 DEF Ghosts
  <2>2. want[b] = want[v - 1]
    BY <1>4, <1>7
  <2> QED BY <1>1, <1>8, <2>1, <2>2
<1>10. ball = AnyBall
  BY <1>9 DEF Stopping
<1>11. LimitRespected'
  BY <1>1 DEF LimitRespected
<1>12. CASE x.op = "limit_reenter"
  <2>1. q.a <= b - 1 /\ x.nbb = q.a
    <3>1. Lawful(P, q, cwil.local, k', b - 1)
      BY <1>1, <1>3
    <3>2. Head(k').op = "limit_reenter" => q.a <= b - 1 /\ Head(k').nbb = q.a
      BY <1>5, <3>1, LawfulHead
    <3> QED BY <1>5, <1>12, <3>2
  <2>2. ~ InForce(want, a, b)
    <3>1. InForce(want, a, b) => a <= want[b]
      BY <1>1, <1>2, InForceFacts
    <3>2. a = v
      BY <1>6, <1>7, <2>1
    <3> QED BY <1>8, <1>9, <3>1, <3>2
  <2>3. cwil.limits = <<>>
    BY <1>6, <2>2 DEF Stopping, Counting
  <2>4. Resuming(P, q)'
    BY <1>1, <1>3, <1>5, <1>10, <1>12, <2>3 DEF Resuming
  <2> QED BY <1>1, <1>11, <2>4 DEF LInv
<1>13. CASE x.op # "limit_reenter"
  <2>1. x.op = "reenter"
    BY <1>13 DEF ReentryItems, Reenters, LimitReenters
  <2>2. a # v
    <3>1. a <= b => a \in lims
      BY <1>1, <1>2, <1>6, LimitFrame DEF Held, LInv
    <3>2. a = v => a <= b
      BY <1>1, <1>8
    <3> QED BY <1>4, <1>7, <1>13, <3>1, <3>2
  <2>3. InForce(want, a, b - 1) => want[b] >= a
    <3>1. SUFFICES ASSUME InForce(want, a, b - 1) PROVE want[b] >= a
      OBVIOUS
    <3>2. a <= want[b - 1]
      BY <1>1, <1>2, <3>1, InForceFacts
    <3>3. a <= v
      BY <1>4, <1>7, <3>2
    <3>4. v - 1 \in a .. b - 1
      BY <1>1, <1>8, <2>2, <3>3
    <3>5. want[v - 1] >= a
      BY <3>1, <3>4 DEF InForce
    <3> QED BY <1>4, <1>7, <3>5
  <2>4. Counting(want, q, cwil.limits, b - 1)
    <3>1. a # b
      BY <1>6
    <3>2. InForce(want, a, b) <=> InForce(want, a, b - 1)
      BY <1>1, <1>2, <2>3, <3>1, InForceDown
    <3> QED BY <1>6, <3>2, CountingSame DEF Stopping
  <2>5. /\ ~ cwil'.exceeded /\ Lawful(P, q, cwil'.local, k', b') /\ ball' = AnyBall
        /\ Counting(want, q, cwil'.limits, b') /\ Layers(P, q, cwil'.local, orf', b') /\ Account(q, cwil', spent', b')
    BY <1>1, <1>3, <1>10, <2>4
  <2> QED BY <1>1, <1>5, <1>11, <2>1, <2>5, ComesBack
<1> QED BY <1>12, <1>13

LEMMA BacktrackLimit ==
  ASSUME NEW G, NEW P, NEW want, NEW lims, NEW q, Held(G, P, want, lims, q), Backtrack
  PROVE  LInv(P, want, q)'
<1> DEFINE f == orf[b]
<1>1. mode = "fail" /\ b > 0 /\ mode' = "run" /\ k' = Head(f.alts) /\ UNCHANGED <<ball, cwil, spent>>
  BY DEF Backtrack, handlers, limits
<1>2. Stopping(want, q)
  BY <1>1 DEF Held, LInv, Going, Resuming, Returning
<1>3. b \in Nat \ {0} /\ Stacked(G, want, lims, orf, b)
  BY <1>1 DEF Held, Inv
<1>4. FrameOK(G, want, lims, f, b)
  BY <1>3, StackedLess
<1>5. PICK kk : f.alts = <<kk>>
  BY <1>4, OneAlternative
<1>6. b' = b - 1 /\ UNCHANGED orf /\ f.alts = <<k'>>
  <2>1. Len(f.alts) = 1 /\ Head(f.alts) = kk
    BY <1>5
  <2>2. f.prev = b - 1
    BY <1>4 DEF FrameOK
  <2> QED BY <1>1, <1>5, <2>1, <2>2 DEF Backtrack
<1>7. CASE b = q.a
  BY <1>1, <1>2, <1>6, <1>7, FailOut
<1>8. CASE b # q.a /\ PlainFrame(G, want, lims, orf[b], b)
  BY <1>1, <1>2, <1>6, <1>8, PlainLimit
<1>9. CASE b # q.a /\ HandlerFrame(G, want, lims, orf[b], b)
  BY <1>1, <1>2, <1>6, <1>9, HandlerLimit
<1>10. CASE b # q.a /\ ReentryFrame(G, want, lims, orf[b], b)
  BY <1>1, <1>2, <1>6, <1>10, ReentryLimit
<1> QED BY <1>4, <1>7, <1>8, <1>9, <1>10 DEF FrameOK

-----------------------------------------------------------------------------
(* catch/3 and throw/1. *)

LEMMA CallCatchLimit ==
  ASSUME NEW G, NEW P, NEW want, NEW lims, NEW q, Held(G, P, want, lims, q), CallCatch, q.a # b + 1,
         NEW w, NEW lims2, Pushed(want, lims, w, lims2, b, b + 1)
  PROVE  LInv(P, w, q)'
<1> DEFINE g == Head(k).g
           x == [op |-> "recover", bb |-> block, catcher |-> Head(k).catcher, r |-> Head(k).r]
           y == [op |-> "end_block", bb |-> block, nbb |-> b + 1]
           R == Rest
           f == [alts |-> <<<<x>> \o R>>, prev |-> b]
<1>1. orf' = Append(SubSeq(orf, 1, b), f) /\ b' = b + 1
  BY DEF CallCatch, PushFrame
<1>2. At("catch") /\ k' = <<g, y>> \o R /\ UNCHANGED <<mode, ball, cwil, spent>>
  BY <1>1 DEF CallCatch, cleaners, limits
<1>3. Going(P, want, q) /\ ball = AnyBall /\ Lawful(P, q, cwil.local, R, b)
      /\ (Bearing(P, Head(k)) => ~(q.a <= b) /\ Spare(P, R))
  BY <1>2, AtWork DEF GoalOps
<1>4. R \in Seq(Items(G)) /\ Head(k) \in G /\ Head(k).op = "catch"
  BY <1>2, AtGoal DEF GoalOps, Held, OneLimit
<1>5. OneLimit(G, P) /\ Uncleaned(G) /\ Uncleaned(P) /\ b \in Nat /\ block \in Nat /\ Ghosts(want, lims)
  BY DEF Held, OneLimit, Inv
<1>6. g \in G /\ (Head(k) \in P => g \in P)
  BY <1>4, <1>5 DEF Uncleaned
<1>7. Head(k).r \in G /\ (Head(k) \in P => Head(k).r \in P)
  BY <1>4, <1>5 DEF Uncleaned
<1>8. y \in Items(G) /\ Neutral(P, y)
  <2>1. y \in EndBlocks
    BY <1>5 DEF EndBlocks
  <2> QED BY <2>1 DEF Items, Neutral, Bearing, GoalOps, LimitOps
<1>9. x \in HandlerItems(G) /\ x.op = "recover" /\ (Head(k) \in P => Neutral(P, x))
  <2>1. x \in Recovers(G)
    BY <1>4, <1>5, <1>7 DEF Recovers
  <2>2. x.op = "recover" /\ x.r = Head(k).r
    OBVIOUS
  <2>3. "recover" \notin GoalOps /\ "recover" \notin LimitOps
    BY DEF GoalOps, LimitOps
  <2> QED BY <1>7, <2>1, <2>2, <2>3 DEF HandlerItems, Neutral, Bearing
<1>10. (Head(k) \in P \/ Bearing(P, Head(k)))
  BY <1>4, <1>5, GoalKinds
<1> HIDE DEF g, x, y, R
<1>11. Lawful(P, q, cwil.local, <<g, y>> \o R, b) /\ <<g, y>> \o R \in Seq(Items(G))
  BY <1>3, <1>4, <1>5, <1>6, <1>8, EnterLawful
<1>12. PICK kk : kk = <<x>> \o R
  OBVIOUS
<1>13. Lawful(P, q, cwil.local, kk, b)
  <2>1. R \in Seq(AllItems(G)) /\ x \in AllItems(G)
    <3>1. Items(G) \subseteq AllItems(G)
      BY DEF AllItems
    <3>2. x \in AllItems(G)
      BY <1>9 DEF AllItems
    <3> QED BY <1>4, <3>1, <3>2, SeqMonotonic
  <2>2. x.op \notin LimitOps
    BY <1>9 DEF LimitOps
  <2>3. (Neutral(P, x) /\ Lawful(P, q, cwil.local, R, b)) \/ (x.op \notin LimitOps /\ ~(q.a <= b) /\ Spare(P, R))
    BY <1>3, <1>9, <1>10, <2>2
  <2>4. Lawful(P, q, cwil.local, <<x>> \o R, b)
    BY <2>1, <2>3, LawfulCons
  <2> QED BY <1>12, <2>4
<1>14. f \in Frames(G) /\ f.alts = <<kk>>
  <2>1. kk \in Seq(AllItems(G))
    BY <1>4, <1>9, <1>12, ReturnFacts
  <2> QED BY <1>5, <1>12, <2>1, FrameTyped
<1> HIDE DEF f
<1>15. InForce(want, q.a, b) => b + 1 >= q.a
  <2>1. InForce(want, q.a, b) => q.a \in Nat /\ q.a <= b
    BY <1>5, InForceFacts
  <2> QED BY <1>5, <2>1
<1> QED BY <1>1, <1>2, <1>3, <1>11, <1>13, <1>14, <1>15, GoesOnPushed

LEMMA ReenterLimit ==
  ASSUME NEW G, NEW P, NEW want, NEW lims, NEW q, Held(G, P, want, lims, q), Reenter
  PROVE  LInv(P, want, q)'
<1>1. At("reenter") /\ mode' = "fail" /\ UNCHANGED <<orf, b, ball, cwil, spent>>
  BY DEF Reenter, limits
<1>2. mode = "run" /\ k # <<>> /\ Head(k).op = "reenter"
  BY <1>1 DEF At
<1>3. Going(P, want, q)
  BY <1>2 DEF Held, LInv, Resuming, Stopping, Returning
<1>4. ball = AnyBall /\ Counting(want, q, cwil.limits, b) /\ ~ cwil.exceeded
  BY <1>2, <1>3 DEF Going
<1>5. q \in Limited /\ Layers(P, q, cwil.local, orf, b) /\ Account(q, cwil, spent, b) /\ LimitRespected
  BY DEF Held, LInv
<1>6. LimitRespected'
  BY <1>1, <1>5 DEF LimitRespected
<1>7. /\ Counting(want, q, cwil'.limits, b') /\ ~ cwil'.exceeded /\ ball' = AnyBall
      /\ Layers(P, q, cwil'.local, orf', b') /\ Account(q, cwil', spent', b')
  BY <1>1, <1>4, <1>5
<1> QED BY <1>1, <1>5, <1>6, <1>7, Stops

(* A ball goes to the handler in power: the limit counts on if its frame is   *)
(* still there.                                                               *)
LEMMA BallLimit ==
  ASSUME NEW G, NEW P, NEW want, NEW lims, NEW q, Held(G, P, want, lims, q), Going(P, want, q),
         NEW R, NEW v, Good(G, want, lims, R, b), Power(R, 1, v), want[b] = v, Entered(want, lims, cwil.limits, b),
         mode' = "fail", b' = v, UNCHANGED <<orf, cwil, spent>>
  PROVE  LInv(P, want, q)'
<1>1. q \in Limited /\ Layers(P, q, cwil.local, orf, b) /\ Account(q, cwil, spent, b) /\ LimitRespected
  BY DEF Held, LInv
<1>2. b \in Nat /\ Ghosts(want, lims) /\ Stacked(G, want, lims, orf, b)
  BY DEF Held, Inv
<1>3. v \in Nat /\ v <= b /\ want[v] = v
  BY <1>2, Unwound
<1>4. PICK a \in Nat : a = q.a
  BY <1>1 DEF Limited
<1>5. ~ cwil.exceeded /\ Counting(want, q, cwil.limits, b)
  BY DEF Going
<1>6. Counting(want, q, cwil.limits, v)
  <2>1. InForce(want, a, b) <=> InForce(want, a, v)
    BY <1>2, <1>3, AcrossCut
  <2> QED BY <1>4, <1>5, <2>1, CountingSame
<1>7. Layers(P, q, cwil.local, orf, v)
  BY <1>1, <1>2, <1>3, LayersKeep
<1>8. Account(q, cwil, spent, v)
  <2>1. a <= v => a <= b
    BY <1>2, <1>3
  <2> QED BY <1>1, <1>4, <2>1 DEF Account
<1>9. LimitRespected'
  BY <1>1 DEF LimitRespected
<1>10. /\ Counting(want, q, cwil'.limits, b') /\ ~ cwil'.exceeded /\ want[b'] = b'
       /\ Layers(P, q, cwil'.local, orf', b') /\ Account(q, cwil', spent', b')
  BY <1>3, <1>5, <1>6, <1>7, <1>8
<1> QED BY <1>1, <1>9, <1>10, Stops

LEMMA SetBallLimit ==
  ASSUME NEW G, NEW P, NEW want, NEW lims, NEW q, Held(G, P, want, lims, q), SetBall
  PROVE  LInv(P, want, q)'
<1>1. At("throw") /\ UnwindTo(block, scc) /\ UNCHANGED <<orf, cwil, spent>>
  BY DEF SetBall, limits
<1>2. Going(P, want, q)
  BY <1>1, AtWork DEF GoalOps
<1>3. Running(G, want, lims)
  BY <1>1, AtItem DEF GoalOps, Held, OneLimit
<1>4. Good(G, want, lims, k, b) /\ Power(k, 1, block) /\ want[b] = block /\ Entered(want, lims, cwil.limits, b)
  BY <1>3 DEF Running
<1>5. scc = 0 /\ block \in Nat
  BY DEF Held, Inv, NoCleaners
<1>6. b' = block /\ mode' = "fail"
  BY <1>1, <1>5, UnwindFacts
<1> QED BY <1>1, <1>2, <1>4, <1>6, BallLimit

LEMMA RecoverLimit ==
  ASSUME NEW G, NEW P, NEW want, NEW lims, NEW q, Held(G, P, want, lims, q), Recover
  PROVE  LInv(P, want, q)'
<1> DEFINE x == Head(k)
           R == Rest
<1>1. At("recover") /\ "recover" \in HandlerOps /\ mode = "run" /\ k # <<>>
  BY DEF Recover, HandlerOps, At
<1>2. UNCHANGED <<orf, cwil, spent>> /\ block' = x.bb /\ scc = 0
  BY DEF Recover, limits, Held, Inv, NoCleaners
<1>3. OneLimit(G, P) /\ Uncleaned(G) /\ Inv(G, want, lims) /\ b \in Nat
  BY DEF Held, OneLimit, Inv
<1>4. /\ x \in HandlerItems(G) /\ x.op = "recover" /\ R \in Seq(Items(G)) /\ Good(G, want, lims, R, b)
      /\ x.bb = want[b] /\ Power(R, 1, x.bb)
  BY <1>1, <1>3, AtHandler
<1>5. Entered(want, lims, cwil.limits, b)
  <2>1. \A i \in 1 .. Len(cwil.limits) : InForce(want, cwil.limits[i].block, b) /\ cwil.limits[i].block \in lims
    BY <1>1, <1>3, AtHandler
  <2> QED BY <2>1 DEF Entered
<1>6. Going(P, want, q)
  BY <1>1, <1>4 DEF Held, LInv, Resuming, Stopping, Returning
<1>7. x.bb \in Nat /\ x.r \in G
  <2>1. x \in Recovers(G)
    BY <1>4, ReturnKinds
  <2> QED BY <2>1 DEF Recovers
<1>8. q \in Limited /\ Layers(P, q, cwil.local, orf, b) /\ Account(q, cwil, spent, b) /\ LimitRespected
  BY DEF Held, LInv
<1>9. ~ cwil.exceeded /\ Counting(want, q, cwil.limits, b) /\ Lawful(P, q, cwil.local, k, b)
  BY <1>6 DEF Going
<1>10. LimitRespected'
  BY <1>2, <1>8 DEF LimitRespected
<1>11. CASE ball = AnyBall
  <2>1. mode' = "fail" /\ UNCHANGED <<b, ball>>
    BY <1>11 DEF Recover
  <2>2. /\ Counting(want, q, cwil'.limits, b') /\ ~ cwil'.exceeded /\ ball' = AnyBall
        /\ Layers(P, q, cwil'.local, orf', b') /\ Account(q, cwil', spent', b')
    BY <1>2, <1>8, <1>9, <1>11, <2>1
  <2> QED BY <1>8, <1>10, <2>1, <2>2, Stops
<1>12. CASE ball # AnyBall /\ Caught(x.catcher)
  <2>1. k' = <<x.r>> \o R /\ UNCHANGED <<mode, b>> /\ ball' = AnyBall
    BY <1>12 DEF Recover
  <2>2. Lawful(P, q, cwil.local, R, b) /\ (Bearing(P, x) => ~(q.a <= b) /\ Spare(P, R))
    <3>1. PICK kk : kk = <<x>> \o R
      OBVIOUS
    <3>2. kk \in Seq(AllItems(G)) /\ kk # <<>> /\ Head(kk) = x /\ Tail(kk) = R
      BY <1>4, <3>1, ReturnFacts
    <3>3. kk = k
      BY <1>1, <1>3, <1>4, <3>1 DEF At, Inv, Handling, Rest
    <3> QED BY <1>9, <3>2, <3>3, LawfulHead
  <2> HIDE DEF R
  <2>3. x.r \in Items(G) /\ (x.r \in P => Neutral(P, x.r)) /\ x.r.op \notin LimitOps
    BY <1>3, <1>7, GoalKinds DEF Items
  <2>4. x.r \notin P => Bearing(P, x)
    BY <1>4 DEF Bearing
  <2>5. Lawful(P, q, cwil.local, <<x.r>> \o R, b)
    BY <1>4, <2>2, <2>3, <2>4, LawfulCons
  <2>6. <<x.r>> \o R \in Seq(Items(G))
    BY <1>4, <2>3, ConsFacts
  <2>7. /\ mode' = "run" /\ ~ cwil'.exceeded /\ Lawful(P, q, cwil'.local, k', b')
        /\ Counting(want, q, cwil'.limits, b') /\ Layers(P, q, cwil'.local, orf', b') /\ Account(q, cwil', spent', b')
    BY <1>1, <1>2, <1>8, <1>9, <2>1, <2>5
  <2> QED BY <1>3, <1>8, <1>10, <2>1, <2>6, <2>7, GoesOn
<1>13. CASE ball # AnyBall /\ ~ Caught(x.catcher)
  <2>1. UnwindTo(x.bb, scc)
    BY <1>13 DEF Recover
  <2> HIDE DEF x, R
  <2>2. b' = x.bb /\ mode' = "fail"
    BY <1>2, <1>7, <2>1, UnwindFacts
  <2> QED BY <1>2, <1>4, <1>5, <1>6, <2>2, BallLimit
<1> QED BY <1>11, <1>12, <1>13

(* Below a handler that is in power: older ones are in force there. *)
LEMMA Beneath ==
  ASSUME NEW want, NEW lims, Ghosts(want, lims), NEW h \in Nat, NEW e, NEW v, v = want[h], InForce(want, e, h), e # v
  PROVE  e \in Nat /\ v \in Nat /\ e < v /\ want[v - 1] >= e
<1>1. e \in Nat /\ e >= 1 /\ e <= h /\ e <= v /\ v \in Nat /\ v <= h
  BY InForceFacts
<1>2. e < v /\ v - 1 \in e .. h
  BY <1>1
<1>3. want[v - 1] >= e
  BY <1>2 DEF InForce
<1> QED BY <1>1, <1>2, <1>3

LEMMA EndBlockLimit ==
  ASSUME NEW G, NEW P, NEW want, NEW lims, NEW q, Held(G, P, want, lims, q), EndBlock,
         NEW w, NEW lims2, Pushed(want, lims, w, lims2, b, want[block - 1])
  PROVE  /\ block = b => LInv(P, want, q)'
         /\ block # b /\ q.a # b + 1 => LInv(P, w, q)'
<1> DEFINE x == [op |-> "reenter", nbb |-> block]
           R == Rest
           f == [alts |-> <<<<x>> \o R>>, prev |-> b]
<1>1. At("end_block") /\ "end_block" \in ExitOps
  BY DEF EndBlock, ExitOps
<1>2. OneLimit(G, P) /\ Uncleaned(G) /\ Inv(G, want, lims) /\ b \in Nat /\ block \in Nat /\ Ghosts(want, lims)
      /\ want \in [Nat -> Nat] /\ Stacked(G, want, lims, orf, b)
  BY DEF Held, OneLimit, Inv, Ghosts
<1>3. /\ Running(G, want, lims) /\ R \in Seq(Items(G)) /\ Head(k).nbb = block
      /\ InForce(want, block, b) /\ Good(G, want, lims, R, block - 1) /\ block \notin lims
  BY <1>1, <1>2, AtExit
<1>4. orf' = Append(SubSeq(orf, 1, b), f) /\ b' = CleanUpBlock(block) /\ k' = R
  BY <1>3 DEF EndBlock
<1>5. UNCHANGED <<mode, ball, cwil, spent>>
  BY DEF EndBlock, cleaners, limits
<1>6. Going(P, want, q) /\ ball = AnyBall /\ Lawful(P, q, cwil.local, R, b)
  BY <1>1, AtWork DEF RefOps
<1>7. q \in Limited /\ Layers(P, q, cwil.local, orf, b) /\ Account(q, cwil, spent, b) /\ LimitRespected
  BY DEF Held, LInv
<1>8. PICK a \in Nat : a = q.a
  BY <1>7 DEF Limited
<1>9. want[b] = block /\ block >= 1 /\ block <= b /\ block - 1 \in Nat
  <2>1. want[b] = block
    BY <1>3 DEF Running
  <2>2. block >= 1 /\ block <= b
    BY <1>2, <1>3, InForceFacts
  <2> QED BY <1>2, <2>1, <2>2
<1>10. a # block
  <2>1. a <= b => a \in lims
    BY <1>2, <1>7, <1>8, LimitFrame
  <2> QED BY <1>3, <1>9, <2>1
<1>11. InForce(want, a, b) => want[block - 1] >= a
  BY <1>2, <1>9, <1>10, Beneath
<1> HIDE DEF R
<1>12. PICK kk : kk = <<x>> \o R
  OBVIOUS
<1>13. x \in ReentryItems /\ Neutral(P, x)
  <2>1. x \in Reenters
    BY <1>2 DEF Reenters
  <2> QED BY <2>1 DEF ReentryItems, Neutral, Bearing, GoalOps, LimitOps
<1> HIDE DEF x
<1>14. kk \in Seq(AllItems(G)) /\ Lawful(P, q, cwil.local, kk, b)
  <2>1. R \in Seq(AllItems(G)) /\ x \in AllItems(G)
    <3>1. Items(G) \subseteq AllItems(G)
      BY DEF AllItems
    <3>2. x \in AllItems(G)
      BY <1>13 DEF AllItems
    <3> QED BY <1>3, <3>1, <3>2, SeqMonotonic
  <2>2. Lawful(P, q, cwil.local, <<x>> \o R, b)
    BY <1>6, <1>13, <2>1, LawfulCons
  <2>3. kk \in Seq(AllItems(G))
    BY <1>3, <1>12, <1>13, ReturnFacts
  <2> QED BY <1>12, <2>2, <2>3
<1>15. f \in Frames(G) /\ f.alts = <<kk>>
  BY <1>2, <1>12, <1>14, FrameTyped
<1> HIDE DEF f
<1>16. ASSUME block = b PROVE LInv(P, want, q)'
  <2>1. b \in Nat \ {0} /\ b - 1 \in Nat /\ b - 1 <= b
    BY <1>2, <1>9, <1>16
  <2>2. b' = b - 1
    <3>1. FrameOK(G, want, lims, orf[b], b)
      BY <1>2, <2>1, StackedLess
    <3> QED BY <1>4, <1>16, <3>1 DEF FrameOK, CleanUpBlock, PrevOf
  <2>3. Lawful(P, q, cwil.local, R, b - 1)
    <3>1. Good(G, want, lims, R, b - 1)
      BY <1>3, <1>16 DEF R
    <3> QED BY <1>2, <1>6, <1>7, <2>1, <3>1, LawfulLower
  <2>4. Counting(want, q, cwil.limits, b - 1)
    <3>1. InForce(want, a, b - 1) => want[b] >= a
      <4>1. InForce(want, a, b - 1) => a <= b - 1
        BY DEF InForce
      <4>2. a <= b - 1 => b >= a
        BY <1>8, <2>1
      <4> QED BY <1>9, <1>16, <4>1, <4>2
    <3>2. InForce(want, a, b) <=> InForce(want, a, b - 1)
      BY <1>2, <1>10, <1>16, <2>1, <3>1, InForceDown
    <3> QED BY <1>6, <1>8, <3>2, CountingSame DEF Going
  <2>5. Layers(P, q, cwil.local, orf', b - 1)
    <3>1. \A e \in 1 .. b : orf'[e] = orf[e]
      <4>1. orf \in Seq(Frames(G)) /\ b <= Len(orf)
        BY <1>2 DEF Stacked
      <4> QED BY <1>2, <1>4, <1>15, <4>1, PushFacts
    <3>2. \A e \in 1 .. b - 1 : e \in 1 .. b
      BY <2>1
    <3> QED BY <1>2, <1>7, <2>1, <3>1, <3>2, LayersKeep
  <2>6. Account(q, cwil, spent, b - 1)
    <3>1. a <= b - 1 => a <= b
      BY <1>8, <2>1
    <3> QED BY <1>7, <1>8, <3>1 DEF Account
  <2>7. LimitRespected'
    BY <1>5, <1>7 DEF LimitRespected
  <2>8. mode = "run" /\ ~ cwil.exceeded
    BY <1>6 DEF Going
  <2>9. /\ mode' = "run" /\ ball' = AnyBall /\ ~ cwil'.exceeded /\ Lawful(P, q, cwil'.local, k', b') /\ k' \in Seq(Items(G))
        /\ Counting(want, q, cwil'.limits, b') /\ Layers(P, q, cwil'.local, orf', b') /\ Account(q, cwil', spent', b')
    BY <1>3, <1>4, <1>5, <1>6, <2>2, <2>3, <2>4, <2>5, <2>6, <2>8 DEF R
  <2> QED BY <1>2, <1>7, <2>7, <2>9, GoesOn
<1>17. ASSUME block # b, q.a # b + 1 PROVE LInv(P, w, q)'
  <2>1. b' = b + 1
    BY <1>4, <1>17 DEF CleanUpBlock
  <2>2. k' \in Seq(Items(G)) /\ Lawful(P, q, cwil.local, k', b)
    BY <1>3, <1>4, <1>6 DEF R
  <2>3. InForce(want, q.a, b) => want[block - 1] >= q.a
    BY <1>8, <1>11
  <2> QED BY <1>4, <1>5, <1>6, <1>14, <1>15, <1>17, <2>1, <2>2, <2>3, GoesOnPushed
<1> QED BY <1>16, <1>17

-----------------------------------------------------------------------------
(* call_with_inference_limit/3. *)

(* No limit counts while none is in force: the new one is the only one. *)
LEMMA AddFirst ==
  ASSUME NEW c \in Limitations, c.limits = <<>>, NEW l \in Int, NEW bl
  PROVE  AddLimit(c, l, bl) = [c EXCEPT !.limits = <<[limit |-> l + c.local, block |-> bl]>>]
<1>1. Len(c.limits) = 0 /\ Append(c.limits, [limit |-> l + c.local, block |-> bl]) = <<[limit |-> l + c.local, block |-> bl]>>
  OBVIOUS
<1> QED BY <1>1 DEF AddLimit

LEMMA RemoveOnly ==
  ASSUME NEW c \in Limitations, NEW m, NEW bl, c.limits = <<[limit |-> m, block |-> bl]>>
  PROVE  RemoveLimit(c, bl) = [c EXCEPT !.limits = <<>>]
<1>1. Len(c.limits) = 1 /\ c.limits[1].block = bl /\ SubSeq(c.limits, 1, 1 - 1) = <<>>
  OBVIOUS
<1> QED BY <1>1 DEF RemoveLimit

(* What spent says of a limit just installed, and of the older ones. *)
LEMMA NewAccount ==
  ASSUME spent \in Seq(Accounts), LimitRespected, NEW l \in Nat, spent' = Append(spent, [limit |-> l, used |-> 0])
  PROVE  /\ LimitRespected'
         /\ Len(spent) + 1 \in Nat /\ Len(spent) + 1 \in 1 .. Len(spent')
         /\ spent'[Len(spent) + 1] = [limit |-> l, used |-> 0]
<1>1. PICK n \in Nat : n = Len(spent) /\ DOMAIN spent = 1 .. n
  BY LenProperties
<1> DEFINE acc == [limit |-> l, used |-> 0]
<1>2. acc \in Accounts
  BY DEF Accounts
<1>3. Len(spent') = n + 1 /\ spent'[n + 1] = acc /\ \A i \in 1 .. n : spent'[i] = spent[i]
  BY <1>1, <1>2, AppendProperties
<1>4. DOMAIN spent' = 1 .. n + 1
  BY <1>1, <1>2, <1>3, AppendProperties, LenProperties
<1>5. ASSUME NEW i \in DOMAIN spent' PROVE spent'[i].used <= spent'[i].limit
  <2>1. CASE i = n + 1
    BY <1>3, <2>1
  <2>2. CASE i # n + 1
    <3>1. i \in 1 .. n
      BY <1>4, <2>2
    <3> QED BY <1>1, <1>3, <3>1 DEF LimitRespected
  <2> QED BY <2>1, <2>2
<1>6. LimitRespected'
  BY <1>5 DEF LimitRespected
<1> QED BY <1>1, <1>3, <1>6

LEMMA CallLimitLimit ==
  ASSUME NEW G, NEW P, NEW want, NEW lims, NEW q, Held(G, P, want, lims, q), CallLimit,
         NEW w, NEW lims2, Pushed(want, lims, w, lims2, b, b + 1)
  PROVE  \E r : LInv(P, w, r)'
<1> DEFINE g == Head(k).g
           l == Head(k).l
           x == [op |-> "limit_retry", bb |-> block, b |-> b]
           y == [op |-> "limit_exit", l |-> l, bb |-> block, nbb |-> b + 1, b |-> b,
                 count |-> cwil.local, id |-> Len(spent) + 1]
           R == Rest
           f == [alts |-> <<<<x>> \o R>>, prev |-> b]
<1>1. At("limit") /\ k' = <<g, y>> \o R /\ orf' = Append(SubSeq(orf, 1, b), f) /\ b' = b + 1
  BY DEF CallLimit, PushFrame
<1>2. UNCHANGED <<mode, ball>> /\ cwil' = AddLimit(cwil, l, b + 1) /\ spent' = Append(spent, [limit |-> l, used |-> 0])
  BY <1>1 DEF CallLimit
<1>3. Going(P, want, q) /\ ball = AnyBall /\ (Bearing(P, Head(k)) => ~(q.a <= b) /\ Spare(P, R))
  BY <1>1, AtWork DEF GoalOps
<1>4. Head(k) \in G /\ Head(k).op = "limit" /\ R \in Seq(Items(G))
  BY <1>1, AtGoal DEF GoalOps, Held, OneLimit
<1>5. OneLimit(G, P) /\ Uncleaned(G) /\ b \in Nat /\ b + 1 \in Nat /\ block \in Nat /\ Ghosts(want, lims)
      /\ Stacked(G, want, lims, orf, b) /\ cwil \in Limitations /\ spent \in Seq(Accounts)
  BY DEF Held, OneLimit, Inv
<1>6. g \in P /\ g \in G /\ l \in Nat
  BY <1>4, <1>5 DEF OneLimit, Uncleaned
<1>7. q \in Limited /\ Layers(P, q, cwil.local, orf, b) /\ LimitRespected
  BY DEF Held, LInv
<1>8. ~(q.a <= b) /\ Spare(P, R)
  <2>1. Bearing(P, Head(k))
    BY <1>4, <1>5 DEF Bearing, OneLimit, GoalOps
  <2> QED BY <1>3, <2>1
<1>9. mode = "run" /\ ~ cwil.exceeded /\ cwil.limits = <<>>
  <2>1. ~ InForce(want, q.a, b)
    <3>1. InForce(want, q.a, b) => q.a <= b
      BY <1>5, InForceFacts
    <3> QED BY <1>8, <3>1
  <2> QED BY <1>3, <2>1 DEF Going, Counting
<1> HIDE DEF l, R
<1>10. PICK loc \in Nat : loc = cwil.local
  BY <1>5 DEF Limitations
<1>11. Len(spent) + 1 \in Nat /\ Len(spent) + 1 \in 1 .. Len(spent') /\ LimitRespected'
       /\ spent'[Len(spent) + 1] = [limit |-> l, used |-> 0]
  BY <1>2, <1>5, <1>6, <1>7, NewAccount
<1>12. PICK r : r = [a |-> b + 1, l |-> l, count |-> loc, id |-> Len(spent) + 1]
  OBVIOUS
<1>13. r \in Limited /\ r.a = b + 1 /\ r.l = l /\ r.count = loc /\ r.id = Len(spent) + 1 /\ r.a - 1 = b
  <2>1. b + 1 \in Nat \ {0} /\ (b + 1) - 1 = b
    BY <1>5
  <2> QED BY <1>6, <1>10, <1>11, <1>12, <2>1 DEF Limited
<1>14. cwil' = [cwil EXCEPT !.limits = <<[limit |-> l + loc, block |-> b + 1]>>]
  <2>1. l \in Int
    BY <1>6
  <2> QED BY <1>2, <1>5, <1>9, <1>10, <2>1, AddFirst
<1>15. cwil'.local = loc /\ ~ cwil'.exceeded /\ cwil'.limits = LimitsOf(r)
  BY <1>5, <1>9, <1>10, <1>13, <1>14 DEF Limitations, LimitsOf
<1>16. w[b + 1] = b + 1
  <2>1. want \in [Nat -> Nat] /\ w = [want EXCEPT ![b + 1] = b + 1]
    BY <1>5 DEF Ghosts, Pushed
  <2> QED BY <1>5, <2>1
<1>17. Counting(w, r, cwil'.limits, b + 1)
  <2>1. \A a \in b + 1 .. b + 1 : w[a] >= b + 1
    BY <1>5, <1>16
  <2>2. b + 1 \in 1 .. b + 1
    BY <1>5
  <2>3. InForce(w, r.a, b + 1)
    BY <1>13, <1>16, <2>1, <2>2 DEF InForce
  <2> QED BY <1>15, <2>3 DEF Counting
<1>18. x \in HandlerItems(G) /\ y \in Items(G) /\ Mine(r, y) /\ y.op = "limit_exit"
  <2>1. x \in Retries
    BY <1>5 DEF Retries
  <2>2. y \in LimitExits
    BY <1>5, <1>6, <1>10, <1>11 DEF LimitExits
  <2>3. Mine(r, y)
    BY <1>10, <1>13 DEF Mine
  <2> QED BY <2>1, <2>2, <2>3 DEF HandlerItems, Items
<1>19. PICK kk : kk = <<x>> \o R
  OBVIOUS
<1>20. f.alts = <<kk>> /\ f \in Frames(G)
  <2>1. kk \in Seq(AllItems(G))
    BY <1>4, <1>18, <1>19, ReturnFacts
  <2> QED BY <1>5, <1>19, <2>1, FrameTyped
<1>21. Limiter(P, r, f)
  <2>1. kk # <<>> /\ Head(kk) = x /\ Tail(kk) = R
    <3> HIDE DEF x
    <3> QED BY <1>4, <1>18, <1>19, ReturnFacts
  <2>2. x.op = "limit_retry" /\ x.b = r.a - 1
    BY <1>13
  <2>3. f.alts[1] = kk
    BY <1>20
  <2> QED BY <1>8, <2>1, <2>2, <2>3 DEF Limiter
<1> HIDE DEF f, x, y, g
<1>22. Layers(P, r, loc, orf', b + 1)
  <2>1. Layers(P, r, loc, orf, b)
    <3>1. q.a > b /\ r.a > b
      <4>1. q.a \in Nat
        BY <1>7 DEF Limited
      <4> QED BY <1>5, <1>8, <1>13, <4>1
    <3> QED BY <1>5, <1>7, <1>13, <3>1, LayersRenew
  <2>2. Layer(P, r, loc, f, b + 1)
    BY <1>13, <1>21 DEF Layer
  <2>3. orf \in Seq(Frames(G)) /\ b <= Len(orf)
    BY <1>5 DEF Stacked
  <2> QED BY <1>1, <1>5, <1>20, <2>1, <2>2, <2>3, LayersPush
<1>23. PICK T : T = <<y>> \o R
  OBVIOUS
<1>24. T \in Seq(Items(G)) /\ g \in Items(G) /\ <<g>> \o T \in Seq(Items(G)) /\ k' = <<g>> \o T
  <2>1. g \in Items(G)
    BY <1>6 DEF Items
  <2>2. T \in Seq(Items(G))
    BY <1>4, <1>18, <1>23, ConsFacts
  <2>3. <<g>> \o T \in Seq(Items(G))
    BY <2>1, <2>2, ConsFacts
  <2>4. <<g, y>> \o R = <<g>> \o (<<y>> \o R)
    BY <1>4, <1>18, <2>1, TwoCons
  <2> QED BY <1>1, <1>23, <2>1, <2>2, <2>3, <2>4
<1>25. Lawful(P, r, loc, k', b + 1)
  <2>1. Within(P, r, loc, R)
    BY <1>8 DEF Within, Under, Spare
  <2>2. Under(P, r, loc, y)
    BY <1>18 DEF Under
  <2>3. Within(P, r, loc, T)
    BY <1>4, <1>18, <1>23, <2>1, <2>2, WithinCons
  <2>4. Neutral(P, g)
    BY <1>5, <1>6, GoalKinds
  <2>5. Under(P, r, loc, g)
    BY <2>4 DEF Under
  <2>6. Within(P, r, loc, <<g>> \o T)
    BY <1>24, <2>3, <2>5, WithinCons
  <2>7. r.a <= b + 1
    BY <1>5, <1>13
  <2> QED BY <1>24, <2>6, <2>7 DEF Lawful
<1>26. Account(r, cwil', spent', b + 1)
  <2>1. spent'[r.id].used = 0 /\ spent'[r.id].limit = r.l /\ r.id \in 1 .. Len(spent')
    BY <1>11, <1>13
  <2>2. 0 + r.count <= loc /\ loc <= r.l + r.count
    BY <1>6, <1>10, <1>13
  <2> QED BY <1>15, <2>1, <2>2 DEF Account
<1>27. /\ mode' = "run" /\ ball' = AnyBall /\ Lawful(P, r, cwil'.local, k', b') /\ k' \in Seq(Items(G))
       /\ Counting(w, r, cwil'.limits, b') /\ Layers(P, r, cwil'.local, orf', b') /\ Account(r, cwil', spent', b')
  BY <1>1, <1>2, <1>3, <1>9, <1>15, <1>17, <1>22, <1>24, <1>25, <1>26
<1>28. LInv(P, w, r)'
  BY <1>5, <1>11, <1>13, <1>15, <1>27, GoesOn
<1> QED BY <1>28

(* The way out of the limit: its entry is the one that counts. *)
LEMMA AtLimitExit ==
  ASSUME NEW G, NEW P, NEW want, NEW lims, NEW q, Held(G, P, want, lims, q), LimitExit
  PROVE  /\ block = q.a /\ q.a <= b /\ Mine(q, Head(k)) /\ want[b] = q.a /\ want[q.a - 1] <= q.a - 1 /\ want[q.a - 1] \in Nat
         /\ q.a \in Nat /\ q.a >= 1 /\ q.a - 1 \in Nat
         /\ Rest \in Seq(Items(G)) /\ Good(G, want, lims, Rest, q.a - 1)
         /\ RemoveLimit(cwil, block) = [cwil EXCEPT !.limits = <<>>]
         /\ Going(P, want, q) /\ ball = AnyBall /\ Lawful(P, q, cwil.local, Rest, b)
<1>1. At("limit_exit") /\ "limit_exit" \in ExitOps
  BY DEF LimitExit, ExitOps
<1>2. OneLimit(G, P) /\ Uncleaned(G) /\ Inv(G, want, lims) /\ b \in Nat /\ Ghosts(want, lims) /\ cwil \in Limitations
  BY DEF Held, OneLimit, Inv
<1>3. /\ Running(G, want, lims) /\ Rest \in Seq(Items(G)) /\ Head(k).nbb = block
      /\ InForce(want, block, b) /\ Good(G, want, lims, Rest, block - 1)
  BY <1>1, <1>2, AtExit
<1>4. Going(P, want, q) /\ ball = AnyBall /\ Lawful(P, q, cwil.local, Rest, b) /\ q.a <= b /\ Mine(q, Head(k))
  BY <1>1, AtWork DEF RefOps
<1>5. block = q.a
  BY <1>3, <1>4 DEF Mine
<1>6. q.a \in Nat /\ q.a >= 1 /\ want[b] = q.a
  <2>1. block \in Nat /\ block >= 1
    BY <1>2, <1>3, InForceFacts
  <2> QED BY <1>3, <1>5, <2>1 DEF Running
<1>7. q.a - 1 \in Nat
  BY <1>6
<1>8. want[q.a - 1] <= q.a - 1 /\ want[q.a - 1] \in Nat
  BY <1>2, <1>7 DEF Ghosts
<1>9. cwil.limits = LimitsOf(q)
  BY <1>3, <1>4, <1>5 DEF Going, Counting
<1>10. RemoveLimit(cwil, block) = [cwil EXCEPT !.limits = <<>>]
  BY <1>2, <1>5, <1>9, RemoveOnly DEF LimitsOf
<1> QED BY <1>3, <1>4, <1>5, <1>6, <1>7, <1>8, <1>10

(* No handler is in force under a frame made under an older one's block. *)
LEMMA PushedBelow ==
  ASSUME NEW want, NEW lims, Ghosts(want, lims), NEW w, NEW lims2, NEW h \in Nat, NEW v \in Nat,
         Pushed(want, lims, w, lims2, h, v), NEW e \in Nat, v < e
  PROVE  ~ InForce(w, e, h + 1)
<1>1. want \in [Nat -> Nat] /\ w = [want EXCEPT ![h + 1] = v]
  BY DEF Ghosts, Pushed
<1>2. w[h + 1] = v
  BY <1>1
<1> SUFFICES ASSUME InForce(w, e, h + 1) PROVE FALSE
  OBVIOUS
<1>3. h + 1 \in e .. h + 1
  BY DEF InForce
<1>4. w[h + 1] >= e
  BY <1>3 DEF InForce
<1> QED BY <1>2, <1>4

(* The goal has left no choice point: the limit is over. *)
LEMMA LimitOver ==
  ASSUME NEW G, NEW P, NEW want, NEW lims, NEW q, Held(G, P, want, lims, q), LimitExit, block = b
  PROVE  LInv(P, want, q)'
<1>1. /\ block = q.a /\ q.a <= b /\ Mine(q, Head(k)) /\ q.a \in Nat /\ q.a >= 1 /\ q.a - 1 \in Nat
      /\ Rest \in Seq(Items(G)) /\ Good(G, want, lims, Rest, q.a - 1)
      /\ RemoveLimit(cwil, block) = [cwil EXCEPT !.limits = <<>>]
      /\ Going(P, want, q) /\ ball = AnyBall /\ Lawful(P, q, cwil.local, Rest, b)
  BY AtLimitExit
<1>2. OneLimit(G, P) /\ Uncleaned(G) /\ b \in Nat /\ Stacked(G, want, lims, orf, b) /\ cwil \in Limitations
      /\ want \in [Nat -> Nat]
  BY DEF Held, OneLimit, Inv, Ghosts
<1>3. q \in Limited /\ Layers(P, q, cwil.local, orf, b) /\ LimitRespected
  BY DEF Held, LInv
<1>4. mode = "run" /\ ~ cwil.exceeded
  BY <1>1 DEF Going
<1>5. Head(k).nbb = b /\ Head(k).b = b - 1 /\ b = q.a
  BY <1>1 DEF Mine
<1>9. b \in Nat \ {0} /\ b - 1 \in Nat /\ b - 1 <= b /\ q.a > b - 1 /\ ~(q.a <= b - 1)
  <2>1. b \in Nat /\ b >= 1
    BY <1>1, <1>5
  <2>2. b \in Nat \ {0} /\ b - 1 \in Nat /\ b - 1 <= b /\ b > b - 1 /\ ~(b <= b - 1)
    BY <2>1
  <2> QED BY <1>5, <2>2
<1>6. b' = b - 1
  <2>1. FrameOK(G, want, lims, orf[b], b)
    BY <1>2, <1>9, StackedLess
  <2>2. orf[b].prev = b - 1
    BY <2>1 DEF FrameOK
  <2> QED BY <1>5, <2>2 DEF LimitExit, CleanUpBlock, PrevOf
<1>7. k' = Rest /\ UNCHANGED <<mode, ball, spent>>
  BY DEF LimitExit, cleaners
<1>8. cwil' = [local |-> 0, limits |-> <<>>, exceeded |-> FALSE]
  <2>1. cwil' = RemoveCallPolicyCheck(RemoveLimit(cwil, b), TRUE)
    BY <1>5, <1>6 DEF LimitExit
  <2>2. [cwil EXCEPT !.limits = <<>>].limits = <<>>
    BY <1>2 DEF Limitations
  <2> QED BY <1>1, <2>1, <2>2 DEF RemoveCallPolicyCheck
<1>10. Layers(P, q, 0, orf', b - 1)
  <2>1. \A e \in 1 .. b - 1 : orf'[e] = orf[e]
    <3> DEFINE f == [alts |-> <<<<[op |-> "limit_reenter", nbb |-> Head(k).nbb,
                                    l |-> Head(k).l - (cwil.local - Head(k).count)]>>>>, prev |-> b]
    <3>1. orf' = Append(SubSeq(orf, 1, b), f)
      BY DEF LimitExit
    <3> HIDE DEF f
    <3>2. PICK S : S = Frames(G) \cup {f}
      OBVIOUS
    <3>3. orf \in Seq(S) /\ b <= Len(orf) /\ f \in S /\ b \in Nat
      <4>1. orf \in Seq(Frames(G)) /\ b <= Len(orf) /\ b \in Nat
        BY <1>2 DEF Stacked
      <4>2. Frames(G) \subseteq S /\ f \in S
        BY <3>2
      <4> QED BY <4>1, <4>2, SeqMonotonic
    <3>5. \A e \in 1 .. b : orf'[e] = orf[e]
      BY <3>1, <3>3, PushFacts
    <3>4. \A e \in 1 .. b - 1 : e \in 1 .. b
      BY <1>2
    <3> QED BY <3>4, <3>5
  <2>2. Layers(P, q, cwil.local, orf', b - 1)
    BY <1>2, <1>3, <1>9, <2>1, LayersKeep
  <2> QED BY <1>3, <1>9, <2>2, LayersRenew
<1>11. Lawful(P, q, 0, Rest, b - 1)
  <2>1. Lawful(P, q, cwil.local, Rest, b - 1)
    BY <1>1, <1>2, <1>3, <1>5, <1>9, LawfulLower
  <2>2. b \in Nat /\ b - 1 \in Nat /\ b - 1 <= b /\ q.a > b - 1
    BY <1>9
  <2> QED BY <1>3, <2>1, <2>2, LawfulRenew
<1>12. Counting(want, q, <<>>, b - 1)
  <2>1. ~ InForce(want, q.a, b - 1)
    BY <1>9 DEF InForce
  <2> QED BY <2>1 DEF Counting
<1>13. Account(q, cwil', spent', b - 1)
  BY <1>9 DEF Account
<1>14. LimitRespected'
  BY <1>3, <1>7 DEF LimitRespected
<1>15. /\ mode' = "run" /\ ball' = AnyBall /\ ~ cwil'.exceeded /\ Lawful(P, q, cwil'.local, k', b') /\ k' \in Seq(Items(G))
       /\ Counting(want, q, cwil'.limits, b') /\ Layers(P, q, cwil'.local, orf', b') /\ Account(q, cwil', spent', b')
  BY <1>1, <1>4, <1>6, <1>7, <1>8, <1>10, <1>11, <1>12, <1>13
<1> QED BY <1>2, <1>3, <1>14, <1>15, GoesOn

(* It has left some: the way back in takes what is left of the limit along. *)
LEMMA LimitLeft ==
  ASSUME NEW G, NEW P, NEW want, NEW lims, NEW q, Held(G, P, want, lims, q), LimitExit, block # b,
         NEW w, NEW lims2, Pushed(want, lims, w, lims2, b, want[block - 1])
  PROVE  LInv(P, w, q)'
<1> DEFINE x == [op |-> "limit_reenter", nbb |-> q.a, l |-> q.l - (cwil.local - q.count)]
           f == [alts |-> <<<<x>>>>, prev |-> b]
<1>1. /\ block = q.a /\ q.a <= b /\ Mine(q, Head(k)) /\ q.a \in Nat /\ q.a >= 1 /\ q.a - 1 \in Nat
      /\ want[q.a - 1] <= q.a - 1 /\ want[q.a - 1] \in Nat
      /\ Rest \in Seq(Items(G)) /\ RemoveLimit(cwil, block) = [cwil EXCEPT !.limits = <<>>]
      /\ Going(P, want, q) /\ ball = AnyBall /\ Lawful(P, q, cwil.local, Rest, b)
  BY AtLimitExit
<1>2. OneLimit(G, P) /\ Uncleaned(G) /\ b \in Nat /\ Stacked(G, want, lims, orf, b) /\ cwil \in Limitations
      /\ Ghosts(want, lims)
  BY DEF Held, OneLimit, Inv
<1>3. q \in Limited /\ Layers(P, q, cwil.local, orf, b) /\ LimitRespected /\ Account(q, cwil, spent, b)
  BY DEF Held, LInv
<1>4. mode = "run" /\ ~ cwil.exceeded
  BY <1>1 DEF Going
<1>5. Head(k).nbb = q.a /\ Head(k).l = q.l /\ Head(k).count = q.count /\ Head(k).b = q.a - 1
  BY <1>1 DEF Mine
<1>6. PICK a \in Nat : a = q.a
  BY <1>1
<1>7. a <= b /\ a < b /\ a <= b + 1 /\ b + 1 # a /\ b + 1 # a - 1 /\ (b + 1) - 1 = b /\ b + 1 \in Nat
  BY <1>1, <1>2, <1>6
<1>8. k' = Rest /\ UNCHANGED <<mode, ball, spent>> /\ orf' = Append(SubSeq(orf, 1, b), f) /\ b' = b + 1
  <2>1. k' = Rest /\ UNCHANGED <<mode, ball, spent>>
    BY DEF LimitExit, cleaners
  <2>2. orf' = Append(SubSeq(orf, 1, b), f)
    BY <1>5 DEF LimitExit
  <2>3. b' = b + 1
    BY <1>1, <1>5 DEF LimitExit, CleanUpBlock
  <2> QED BY <2>1, <2>2, <2>3
<1>9. cwil' = [cwil EXCEPT !.limits = <<>>]
  <2>1. cwil' = RemoveCallPolicyCheck([cwil EXCEPT !.limits = <<>>], b' = Head(k).b)
    BY <1>1, <1>5 DEF LimitExit
  <2>2. b' # Head(k).b
    BY <1>5, <1>6, <1>7, <1>8
  <2> QED BY <2>1, <2>2 DEF RemoveCallPolicyCheck
<1>10. PICK loc \in Nat : loc = cwil.local
  BY <1>2 DEF Limitations
<1>11. cwil'.local = loc /\ cwil'.limits = <<>> /\ ~ cwil'.exceeded
  BY <1>2, <1>4, <1>9, <1>10 DEF Limitations
<1>12. Pushed(want, lims, w, lims2, b, want[a - 1])
  BY <1>1, <1>6
<1>13. Counting(w, q, <<>>, b + 1)
  <2>1. PICK v \in Nat : v = want[a - 1] /\ v < a
    <3>1. want[a - 1] \in Nat /\ want[a - 1] <= a - 1
      BY <1>1, <1>6
    <3>2. \A n \in Nat : n <= a - 1 => n < a
      BY <1>6
    <3> QED BY <3>1, <3>2
  <2>2. ~ InForce(w, a, b + 1)
    BY <1>2, <1>12, <2>1, PushedBelow
  <2> QED BY <1>6, <2>2 DEF Counting
<1>14. PICK m \in Int : m = q.l + q.count - loc /\ m = q.l - (loc - q.count)
  <2>1. PICK ql \in Nat, qc \in Nat : ql = q.l /\ qc = q.count
    BY <1>3 DEF Limited
  <2>2. ql + qc - loc \in Int /\ ql + qc - loc = ql - (loc - qc)
    BY <1>10, <2>1
  <2> QED BY <2>1, <2>2
<1>15. x.op = "limit_reenter" /\ x.nbb = q.a /\ x.l = m /\ x \in LimitReenters
  BY <1>1, <1>10, <1>14 DEF LimitReenters
<1> HIDE DEF x
<1>16. PICK Q \in Seq(Items(G)) : Q = <<>>
  <2>1. <<>> \in Seq(Items(G))
    OBVIOUS
  <2> QED BY <2>1
<1>17. PICK kk : kk = <<x>>
  OBVIOUS
<1>18. f.alts = <<kk>> /\ f \in Frames(G) /\ kk = <<x>> \o Q
  <2>1. kk = <<x>> \o Q
    BY <1>16, <1>17
  <2>2. kk \in Seq(AllItems(G))
    BY <1>15, <2>1, ReturnFacts DEF ReentryItems
  <2> QED BY <1>2, <1>17, <2>1, <2>2, FrameTyped
<1>19. Lawful(P, q, loc, kk, b)
  <2>1. Under(P, q, loc, x)
    BY <1>14, <1>15 DEF Under
  <2>2. Within(P, q, loc, kk)
    <3>1. Len(kk) = 1 /\ kk[1] = x
      BY <1>17
    <3>2. \A i \in 1 .. 1 : i = 1
      OBVIOUS
    <3> QED BY <2>1, <3>1, <3>2 DEF Within
  <2> QED BY <1>1, <2>2 DEF Lawful
<1> HIDE DEF f
<1>20. Layers(P, q, loc, orf', b + 1)
  <2>1. Layer(P, q, loc, f, b + 1)
    <3>1. f.alts[1] = kk
      BY <1>18
    <3> QED BY <1>6, <1>7, <1>19, <3>1 DEF Layer
  <2>2. orf \in Seq(Frames(G)) /\ b <= Len(orf)
    BY <1>2 DEF Stacked
  <2> QED BY <1>2, <1>3, <1>8, <1>10, <1>18, <2>1, <2>2, LayersPush
<1>21. Lawful(P, q, loc, Rest, b + 1)
  BY <1>1, <1>2, <1>3, <1>6, <1>7, <1>10, LawfulRaise
<1>22. Account(q, cwil', spent', b + 1)
  BY <1>1, <1>3, <1>8, <1>10, <1>11 DEF Account
<1>23. LimitRespected'
  BY <1>3, <1>8 DEF LimitRespected
<1>24. /\ mode' = "run" /\ ball' = AnyBall /\ Lawful(P, q, cwil'.local, k', b') /\ k' \in Seq(Items(G))
       /\ Counting(w, q, cwil'.limits, b') /\ Layers(P, q, cwil'.local, orf', b') /\ Account(q, cwil', spent', b')
  BY <1>1, <1>4, <1>8, <1>11, <1>13, <1>20, <1>21, <1>22
<1> QED BY <1>2, <1>3, <1>11, <1>23, <1>24, GoesOn

(* Failing back into the goal of the limit: it counts on where it left off. *)
LEMMA LimitReenterLimit ==
  ASSUME NEW G, NEW P, NEW want, NEW lims, NEW q, Held(G, P, want, lims, q), LimitReenter
  PROVE  LInv(P, want, q)'
<1>1. At("limit_reenter") /\ "limit_reenter" \in ReentryOps /\ mode = "run" /\ k # <<>> /\ Head(k).op = "limit_reenter"
  BY DEF LimitReenter, ReentryOps, At
<1>2. mode' = "fail" /\ cwil' = AddLimit(cwil, Head(k).l, Head(k).nbb) /\ UNCHANGED <<orf, b, ball, spent>>
  BY DEF LimitReenter
<1>3. OneLimit(G, P) /\ Uncleaned(G) /\ Inv(G, want, lims) /\ b \in Nat /\ cwil \in Limitations
  BY DEF Held, OneLimit, Inv
<1>4. InForce(want, Head(k).nbb, b) /\ Head(k) \in ReentryItems
  BY <1>1, <1>3, AtReentry
<1>5. Resuming(P, q)
  BY <1>1 DEF Held, LInv, Going, Stopping, Returning
<1>6. Lawful(P, q, cwil.local, k, b) /\ ball = AnyBall /\ cwil.limits = <<>> /\ ~ cwil.exceeded
  BY <1>5 DEF Resuming
<1>7. q \in Limited /\ Layers(P, q, cwil.local, orf, b) /\ LimitRespected /\ Account(q, cwil, spent, b)
  BY DEF Held, LInv
<1>8. k \in Seq(AllItems(G))
  <2>1. ~ Running(G, want, lims)
    <3> SUFFICES ASSUME Running(G, want, lims) PROVE FALSE
      OBVIOUS
    <3>1. k \in Seq(Items(G))
      BY DEF Running, Good
    <3> QED BY <1>1, <1>3, <3>1, NoWayBack
  <2>2. \E x \in HandlerItems(G) \cup ReentryItems, R \in Seq(Items(G)) : k = <<x>> \o R
    <3>1. CASE Handling(G, want, lims)
      BY <3>1 DEF Handling
    <3>2. CASE Reentering(G, want, lims)
      BY <3>2 DEF Reentering
    <3> QED BY <1>1, <1>3, <2>1, <3>1, <3>2 DEF Inv, Failing
  <2>3. PICK x \in HandlerItems(G) \cup ReentryItems, R \in Seq(Items(G)) : k = <<x>> \o R
    BY <2>2
  <2> QED BY <2>3, ReturnFacts
<1>9. Head(k).nbb = q.a /\ Head(k).l = q.l + q.count - cwil.local
  BY <1>1, <1>6, <1>8, LawfulHead
<1>10. PICK loc \in Nat : loc = cwil.local
  BY <1>3 DEF Limitations
<1>11. PICK m \in Int : m = Head(k).l /\ m + loc = q.l + q.count
  <2>1. PICK ql \in Nat, qc \in Nat : ql = q.l /\ qc = q.count
    BY <1>7 DEF Limited
  <2>2. ql + qc - loc \in Int /\ (ql + qc - loc) + loc = ql + qc
    BY <1>10, <2>1
  <2> QED BY <1>9, <1>10, <2>1, <2>2
<1>12. cwil' = [cwil EXCEPT !.limits = LimitsOf(q)]
  BY <1>2, <1>3, <1>6, <1>9, <1>10, <1>11, AddFirst DEF LimitsOf
<1>13. cwil'.local = cwil.local /\ cwil'.limits = LimitsOf(q) /\ ~ cwil'.exceeded
  BY <1>3, <1>6, <1>12 DEF Limitations
<1>14. Counting(want, q, cwil'.limits, b)
  BY <1>4, <1>9, <1>13 DEF Counting
<1>15. Account(q, cwil', spent', b)
  BY <1>2, <1>7, <1>13 DEF Account
<1>16. LimitRespected'
  BY <1>2, <1>7 DEF LimitRespected
<1>17. /\ ball' = AnyBall /\ Counting(want, q, cwil'.limits, b')
       /\ Layers(P, q, cwil'.local, orf', b') /\ Account(q, cwil', spent', b')
  BY <1>2, <1>6, <1>7, <1>13, <1>14, <1>15
<1> QED BY <1>2, <1>7, <1>13, <1>16, <1>17, Stops

(* The goal of the limit has failed or was stopped: the limit is over. *)
LEMMA LimitRetryLimit ==
  ASSUME NEW G, NEW P, NEW want, NEW lims, NEW q, Held(G, P, want, lims, q), LimitRetry
  PROVE  LInv(P, want, q)'
<1> DEFINE R == Rest
<1>1. At("limit_retry") /\ "limit_retry" \in HandlerOps /\ mode = "run" /\ k # <<>> /\ Head(k).op = "limit_retry"
  BY DEF LimitRetry, HandlerOps, At
<1>2. OneLimit(G, P) /\ Uncleaned(G) /\ Inv(G, want, lims) /\ b \in Nat /\ cwil \in Limitations /\ scc = 0
      /\ Ghosts(want, lims) /\ Stacked(G, want, lims, orf, b)
  BY DEF Held, OneLimit, Inv, NoCleaners
<1>3. Returning(P, q)
  BY <1>1 DEF Held, LInv, Going, Resuming, Stopping
<1>4. q.a = b + 1 /\ Head(k).b = b /\ Spare(P, R) /\ cwil.limits = LimitsOf(q)
  BY <1>3 DEF Returning, Rest
<1>5. /\ block = b + 1 /\ Head(k) \in HandlerItems(G) /\ R \in Seq(Items(G)) /\ Good(G, want, lims, R, b)
      /\ Head(k).bb = want[b] /\ Power(R, 1, want[b])
  BY <1>1, <1>2, AtHandler DEF Handling
<1>6. Head(k).bb \in Nat
  BY <1>5, ReturnKinds
<1>7. cwil' = [local |-> 0, limits |-> <<>>, exceeded |-> FALSE]
  <2>1. RemoveLimit(cwil, block) = [cwil EXCEPT !.limits = <<>>]
    BY <1>2, <1>4, <1>5, RemoveOnly DEF LimitsOf
  <2>2. [cwil EXCEPT !.limits = <<>>].limits = <<>>
    BY <1>2 DEF Limitations
  <2>3. cwil' = RemoveCallPolicyCheck(RemoveLimit(cwil, block), TRUE)
    BY <1>4 DEF LimitRetry
  <2> QED BY <2>1, <2>2, <2>3 DEF RemoveCallPolicyCheck
<1>8. UNCHANGED <<orf, ball, spent>>
  BY DEF LimitRetry
<1> HIDE DEF R
<1>9. q \in Limited /\ Layers(P, q, cwil.local, orf, b) /\ LimitRespected
  BY DEF Held, LInv
<1>10. q.a > b /\ b <= b
  BY <1>2, <1>4
<1>11. Layers(P, q, 0, orf, b)
  BY <1>2, <1>9, <1>10, LayersRenew
<1>12. LimitRespected'
  BY <1>8, <1>9 DEF LimitRespected
<1>13. ASSUME NEW h \in Nat, h <= b PROVE /\ Counting(want, q, <<>>, h) /\ Account(q, cwil', spent', h) /\ Layers(P, q, 0, orf, h)
  <2>1. ~(q.a <= h)
    BY <1>2, <1>4, <1>13
  <2>2. ~ InForce(want, q.a, h)
    <3>1. InForce(want, q.a, h) => q.a <= h
      BY <1>2, InForceFacts
    <3> QED BY <2>1, <3>1
  <2>3. Layers(P, q, 0, orf, h)
    BY <1>2, <1>11, <1>13, LayersKeep
  <2> QED BY <2>1, <2>2, <2>3 DEF Counting, Account
<1>14. CASE ball # AnyBall
  <2>1. UnwindTo(Head(k).bb, scc)
    BY <1>14 DEF LimitRetry
  <2>2. b' = want[b] /\ mode' = "fail"
    BY <1>2, <1>5, <1>6, <2>1, UnwindFacts
  <2>3. PICK v : v = want[b]
    OBVIOUS
  <2>4. v \in Nat /\ v <= b /\ want[v] = v
    <3>1. Entered(want, lims, <<>>, b)
      BY DEF Entered
    <3>2. Power(R, 1, v) /\ want[b] = v
      BY <1>5, <2>3
    <3> QED BY <1>2, <1>5, <3>1, <3>2, Unwound
  <2>5. Counting(want, q, <<>>, v) /\ Account(q, cwil', spent', v) /\ Layers(P, q, 0, orf, v)
    BY <1>13, <2>4
  <2>6. /\ mode' = "fail" /\ Counting(want, q, cwil'.limits, b') /\ ~ cwil'.exceeded /\ want[b'] = b'
        /\ Layers(P, q, cwil'.local, orf', b') /\ Account(q, cwil', spent', b')
    BY <1>7, <1>8, <2>2, <2>3, <2>4, <2>5
  <2> QED BY <1>9, <1>12, <2>6, Stops
<1>15. CASE ball = AnyBall
  <2>1. b' = b
    BY <1>15 DEF LimitRetry
  <2>2. Counting(want, q, <<>>, b) /\ Account(q, cwil', spent', b) /\ Layers(P, q, 0, orf, b)
    BY <1>2, <1>10, <1>13
  <2>3. /\ ball' = AnyBall /\ Counting(want, q, cwil'.limits, b') /\ ~ cwil'.exceeded
        /\ Layers(P, q, cwil'.local, orf', b') /\ Account(q, cwil', spent', b')
    BY <1>7, <1>8, <1>15, <2>1, <2>2
  <2>4. CASE cwil.exceeded
    <3>1. k' = R /\ mode' = "run"
      BY <1>1, <1>15, <2>4 DEF LimitRetry, R
    <3>2. Lawful(P, q, 0, R, b)
      BY <1>4, <1>5, SpareLawful
    <3>3. Lawful(P, q, cwil'.local, k', b') /\ k' \in Seq(Items(G))
      BY <1>5, <1>7, <2>1, <3>1, <3>2
    <3> QED BY <1>2, <1>9, <1>12, <2>3, <3>1, <3>3, GoesOn
  <2>5. CASE ~ cwil.exceeded
    <3>1. mode' = "fail"
      BY <1>15, <2>5 DEF LimitRetry
    <3> QED BY <1>9, <1>12, <2>3, <3>1, Stops
  <2> QED BY <2>4, <2>5
<1> QED BY <1>14, <1>15

-----------------------------------------------------------------------------
(* A counted call. *)

(* While the limit counts no way back into its goal is in sight, ... *)
LEMMA LawfulCount ==
  ASSUME NEW G, Uncleaned(G), NEW P, NEW q, NEW loc, NEW m, NEW h, NEW kk \in Seq(AllItems(G)),
         kk = <<>> \/ Head(kk).op # "limit_reenter",
         kk # <<>> => Tail(kk) \in Seq(Items(G)),
         Lawful(P, q, loc, kk, h)
  PROVE  Lawful(P, q, m, kk, h)
<1>1. CASE ~(q.a <= h)
  BY <1>1 DEF Lawful
<1>2. CASE q.a <= h
  <2>1. PICK n \in Nat : n = Len(kk)
    BY LenProperties
  <2>2. \A i \in 1 .. n : Under(P, q, loc, kk[i])
    BY <1>2, <2>1 DEF Lawful, Within
  <2>3. \A i \in 1 .. n : kk[i].op # "limit_reenter"
    <3> TAKE i \in 1 .. n
    <3>1. n >= 1 /\ kk # <<>>
      BY <2>1
    <3>2. CASE i = 1
      BY <2>1, <3>1, <3>2, TailFacts
    <3>3. CASE i # 1
      <4>1. PICK j \in 1 .. n - 1 : i = j + 1
        <5>1. i - 1 \in 1 .. n - 1 /\ i = (i - 1) + 1
          BY <3>3
        <5> QED BY <5>1
      <4>2. Tail(kk)[j] = kk[j + 1] /\ Len(Tail(kk)) = n - 1
        BY <2>1, <3>1, <4>1, TailFacts
      <4>3. Tail(kk)[j] \in Items(G)
        BY <3>1, <4>1, <4>2, ElementOfSeq
      <4> QED BY <4>1, <4>2, <4>3, ItemKinds DEF GoalOps, RefOps, ExitOps
    <3> QED BY <3>2, <3>3
  <2>4. \A i \in 1 .. n : Under(P, q, m, kk[i])
    BY <2>2, <2>3 DEF Under
  <2>5. Within(P, q, m, kk)
    BY <2>1, <2>4 DEF Within
  <2> QED BY <1>2, <2>5 DEF Lawful
<1> QED BY <1>1, <1>2

(* ... in a continuation that runs, ... *)
LEMMA ItemsCount ==
  ASSUME NEW G, Uncleaned(G), NEW P, NEW q, NEW loc, NEW m, NEW h, NEW kk \in Seq(Items(G)), Lawful(P, q, loc, kk, h)
  PROVE  Lawful(P, q, m, kk, h)
<1>1. kk \in Seq(AllItems(G))
  <2>1. Items(G) \subseteq AllItems(G)
    BY DEF AllItems
  <2> QED BY <2>1, SeqMonotonic
<1>2. kk = <<>> \/ Head(kk).op # "limit_reenter"
  BY NoWayBack
<1>3. kk # <<>> => Tail(kk) \in Seq(Items(G))
  BY TailFacts
<1> QED BY <1>1, <1>2, <1>3, LawfulCount

(* ... and in the frames. *)
LEMMA LayersCount ==
  ASSUME NEW G, Uncleaned(G), NEW want, NEW lims, Ghosts(want, lims), NEW P, NEW q \in Limited, NEW loc, NEW m, NEW o, NEW h \in Nat,
         Stacked(G, want, lims, o, h), Layers(P, q, loc, o, h), InForce(want, q.a, h)
  PROVE  Layers(P, q, m, o, h)
<1> SUFFICES ASSUME NEW e \in 1 .. h PROVE Layer(P, q, m, o[e], e)
  BY DEF Layers
<1>1. Layer(P, q, loc, o[e], e) /\ FrameOK(G, want, lims, o[e], e)
  BY DEF Layers, Stacked
<1>2. CASE e = q.a
  BY <1>1, <1>2 DEF Layer
<1>3. CASE e # q.a
  <2>1. Lawful(P, q, loc, o[e].alts[1], e - 1)
    BY <1>1, <1>3 DEF Layer
  <2>2. CASE ~(q.a <= e - 1)
    <3>1. Lawful(P, q, m, o[e].alts[1], e - 1)
      BY <2>1, <2>2 DEF Lawful
    <3> QED BY <1>3, <3>1 DEF Layer
  <2>3. CASE q.a <= e - 1
    <3>1. PICK a \in Nat : a = q.a
      BY DEF Limited
    <3>2. want[e] >= a /\ e \in Nat /\ e - 1 \in Nat
      <4>1. e \in a .. h
        BY <2>3, <3>1
      <4> QED BY <3>1, <4>1 DEF InForce
    <3>3. PICK kk : o[e].alts = <<kk>>
      BY <1>1, OneAlternative
    <3>4. o[e].alts[1] = kk /\ \A r : o[e].alts = <<r>> => r = kk
      BY <3>3
    <3>5. Lawful(P, q, m, kk, e - 1)
      <4>1. CASE PlainFrame(G, want, lims, o[e], e)
        <5>1. kk \in Seq(Items(G))
          BY <3>4, <4>1 DEF PlainFrame
        <5> QED BY <2>1, <3>4, <5>1, ItemsCount
      <4>2. CASE HandlerFrame(G, want, lims, o[e], e)
        <5>1. PICK x \in HandlerItems(G), R \in Seq(Items(G)) : o[e].alts = <<<<x>> \o R>>
          BY <4>2 DEF HandlerFrame
        <5>2. kk = <<x>> \o R
          BY <3>4, <5>1
        <5>3. kk \in Seq(AllItems(G)) /\ Head(kk) = x /\ Tail(kk) = R
          BY <5>2, ReturnFacts
        <5>4. x.op # "limit_reenter"
          BY ReturnKinds DEF HandlerOps
        <5> QED BY <2>1, <3>4, <5>3, <5>4, LawfulCount
      <4>3. CASE ReentryFrame(G, want, lims, o[e], e)
        <5>1. PICK x \in ReentryItems, R \in Seq(Items(G)) :
                 /\ o[e].alts = <<<<x>> \o R>> /\ want[e] = want[x.nbb - 1]
                 /\ x.nbb = want[e - 1] /\ InForce(want, x.nbb, e - 1)
          BY <4>3 DEF ReentryFrame
        <5>2. kk = <<x>> \o R
          BY <3>4, <5>1
        <5>3. kk \in Seq(AllItems(G)) /\ kk # <<>> /\ Head(kk) = x /\ Tail(kk) = R
          BY <5>2, ReturnFacts
        <5>4. x.op # "limit_reenter"
          <6> SUFFICES ASSUME x.op = "limit_reenter" PROVE FALSE
            OBVIOUS
          <6>1. Lawful(P, q, loc, kk, e - 1)
            BY <2>1, <3>4
          <6>2. x.nbb = q.a
            BY <5>3, <6>1, LawfulHead
          <6>3. want[e] = want[a - 1]
            BY <3>1, <5>1, <6>2
          <6>4. a - 1 \in Nat /\ a - 1 < a
            <7>1. a >= 1
              BY <3>1 DEF Limited
            <7> QED BY <7>1
          <6>5. PICK v \in Nat : v = want[a - 1] /\ v <= a - 1
            BY <6>4 DEF Ghosts
          <6>6. v >= a
            BY <3>2, <6>3, <6>5
          <6> QED BY <6>4, <6>5, <6>6
        <5> QED BY <2>1, <3>4, <5>3, <5>4, LawfulCount
      <4> QED BY <1>1, <4>1, <4>2, <4>3 DEF FrameOK
    <3> QED BY <1>3, <3>4, <3>5 DEF Layer
  <2> QED BY <2>2, <2>3
<1> QED BY <1>2, <1>3

(* The only limit whose goal runs is the one that counts. *)
LEMMA ActiveOnly ==
  ASSUME NEW G, NEW P, NEW want, NEW lims, NEW q, Held(G, P, want, lims, q), At("tick"), NEW i, Active(i)
  PROVE  InForce(want, q.a, b) /\ q.a <= b /\ i = q.id
<1>1. PICK j \in DOMAIN k : k[j].op = "limit_exit" /\ k[j].id = i
  BY DEF Active
<1>2. OneLimit(G, P) /\ Uncleaned(G) /\ Inv(G, want, lims)
  BY DEF Held, OneLimit
<1>3. Running(G, want, lims) /\ k \in Seq(Items(G))
  BY <1>2, AtItem DEF GoalOps
<1>4. Going(P, want, q)
  BY AtWork DEF GoalOps
<1>5. j \in 1 .. Len(k)
  BY <1>1, <1>3, LenProperties
<1>6. ExitOK(want, lims, k, j, b)
  BY <1>3, <1>5 DEF Running, Good
<1>7. InForce(want, k[j].nbb, b)
  BY <1>1, <1>6 DEF ExitOK, ExitOps
<1>8. Lawful(P, q, cwil.local, k, b)
  BY <1>4 DEF Going
<1>9. q.a <= b /\ Within(P, q, cwil.local, k)
  BY <1>1, <1>5, <1>8 DEF Lawful, Fresh, LimitOps
<1>10. Under(P, q, cwil.local, k[j])
  BY <1>5, <1>9 DEF Within
<1>11. Mine(q, k[j])
  BY <1>1, <1>10 DEF Under, Neutral, LimitOps
<1> QED BY <1>1, <1>7, <1>9, <1>11 DEF Mine

(* The call that reaches the limit is not counted: the machine fails into its *)
(* frame.                                                                     *)
LEMMA ReachedLimit ==
  ASSUME NEW G, NEW P, NEW want, NEW lims, NEW q, Held(G, P, want, lims, q), At("tick"),
         InForce(want, q.a, b), b' = q.a, mode' = "fail", cwil' = [cwil EXCEPT !.exceeded = TRUE],
         UNCHANGED <<orf, ball, spent>>
  PROVE  LInv(P, want, q)'
<1>1. Going(P, want, q) /\ ball = AnyBall
  BY AtWork DEF GoalOps
<1>2. q \in Limited /\ Layers(P, q, cwil.local, orf, b) /\ LimitRespected /\ Account(q, cwil, spent, b)
  BY DEF Held, LInv
<1>3. b \in Nat /\ Ghosts(want, lims) /\ cwil \in Limitations
  BY DEF Held, Inv
<1>4. PICK a \in Nat : a = q.a
  BY <1>2 DEF Limited
<1>5. a <= b /\ a <= a /\ InForce(want, a, a)
  <2>1. a <= b /\ a <= a
    BY <1>3, <1>4, InForceFacts
  <2> QED BY <1>3, <1>4, <2>1, InForceLower
<1>6. cwil'.limits = cwil.limits /\ cwil'.local = cwil.local
  BY <1>3 DEF Limitations
<1>7. Counting(want, q, cwil'.limits, a)
  <2>1. cwil.limits = LimitsOf(q)
    BY <1>1 DEF Going, Counting
  <2> QED BY <1>4, <1>5, <1>6, <2>1 DEF Counting
<1>8. Layers(P, q, cwil.local, orf, a)
  BY <1>2, <1>3, <1>5, LayersKeep
<1>9. Account(q, cwil', spent', a)
  BY <1>2, <1>4, <1>5, <1>6 DEF Account
<1>10. LimitRespected'
  BY <1>2 DEF LimitRespected
<1>11. /\ Counting(want, q, cwil'.limits, b') /\ (cwil'.exceeded => b' = q.a) /\ ball' = AnyBall
       /\ Layers(P, q, cwil'.local, orf', b') /\ Account(q, cwil', spent', b')
  BY <1>1, <1>4, <1>6, <1>7, <1>8, <1>9
<1> QED BY <1>2, <1>10, <1>11, Stops

(* A call that is not counted is made below no limit. *)
LEMMA FreeCall ==
  ASSUME NEW G, NEW P, NEW want, NEW lims, NEW q, Held(G, P, want, lims, q), At("tick"),
         ~ InForce(want, q.a, b), k' = Rest, UNCHANGED <<mode, orf, b, ball, cwil>>,
         spent' = [i \in DOMAIN spent |-> IF Active(i) THEN [spent[i] EXCEPT !.used = @ + 1] ELSE spent[i]]
  PROVE  LInv(P, want, q)'
<1>1. Going(P, want, q) /\ ball = AnyBall /\ Lawful(P, q, cwil.local, Rest, b)
  BY AtWork DEF GoalOps
<1>2. Rest \in Seq(Items(G))
  BY AtGoal DEF GoalOps, Held, OneLimit
<1>3. \A i : ~ Active(i)
  BY ActiveOnly
<1>4. spent \in Seq(Accounts)
  BY DEF Held, Inv
<1>5. spent' = spent
  <2>1. PICK n \in Nat : n = Len(spent) /\ DOMAIN spent = 1 .. n
    BY <1>4, LenProperties
  <2>2. spent' = [i \in DOMAIN spent |-> spent[i]]
    BY <1>3
  <2>3. spent = [i \in DOMAIN spent |-> spent[i]]
    <3>1. spent \in [1 .. n -> Accounts]
      BY <1>4, <2>1, LenProperties
    <3> QED BY <2>1, <3>1
  <2> QED BY <2>2, <2>3
<1> QED BY <1>1, <1>2, <1>5, GoesOnThere

(* A call that is counted is within what the limit allows. *)
LEMMA CountedCall ==
  ASSUME NEW G, NEW P, NEW want, NEW lims, NEW q, Held(G, P, want, lims, q), At("tick"),
         InForce(want, q.a, b), cwil.local # q.l + q.count,
         k' = Rest, UNCHANGED <<mode, orf, b, ball>>, cwil' = [cwil EXCEPT !.local = @ + 1],
         spent' = [i \in DOMAIN spent |-> IF Active(i) THEN [spent[i] EXCEPT !.used = @ + 1] ELSE spent[i]]
  PROVE  LInv(P, want, q)'
<1>1. Going(P, want, q) /\ ball = AnyBall /\ Lawful(P, q, cwil.local, Rest, b)
  BY AtWork DEF GoalOps
<1>2. Rest \in Seq(Items(G))
  BY AtGoal DEF GoalOps, Held, OneLimit
<1>3. OneLimit(G, P) /\ Uncleaned(G) /\ spent \in Seq(Accounts) /\ cwil \in Limitations /\ b \in Nat /\ Ghosts(want, lims)
      /\ Stacked(G, want, lims, orf, b)
  BY DEF Held, OneLimit, Inv
<1>4. q \in Limited /\ Layers(P, q, cwil.local, orf, b) /\ LimitRespected /\ Account(q, cwil, spent, b)
  BY DEF Held, LInv
<1>5. mode = "run" /\ ~ cwil.exceeded /\ Counting(want, q, cwil.limits, b)
  BY <1>1 DEF Going
<1>6. q.a <= b
  BY <1>3, InForceFacts
<1>7. PICK loc \in Nat : loc = cwil.local
  BY <1>3 DEF Limitations
<1>8. cwil'.local = loc + 1 /\ cwil'.limits = cwil.limits /\ ~ cwil'.exceeded
  BY <1>3, <1>5, <1>7 DEF Limitations
<1>9. PICK n \in Nat : n = Len(spent) /\ DOMAIN spent = 1 .. n
  BY <1>3, LenProperties
<1>10. \A i \in 1 .. n : spent[i] \in Accounts
  BY <1>3, <1>9, ElementOfSeq
<1>11. PICK id \in 1 .. n : id = q.id
  BY <1>4, <1>6, <1>9 DEF Account
<1>12. PICK u \in Nat, ql \in Nat, qc \in Nat : u = spent[id].used /\ ql = q.l /\ qc = q.count /\ spent[id].limit = ql
  BY <1>4, <1>6, <1>10, <1>11 DEF Account, Accounts, Limited
<1>13. u + qc <= loc /\ loc <= ql + qc /\ loc # ql + qc
  BY <1>4, <1>6, <1>7, <1>11, <1>12 DEF Account
<1>14. (u + 1) + qc <= loc + 1 /\ loc + 1 <= ql + qc /\ u + 1 <= ql /\ u + qc <= loc + 1 /\ u <= ql
  BY <1>13
<1>15. spent'[id].limit = ql /\ (spent'[id].used = u \/ spent'[id].used = u + 1)
  BY <1>9, <1>10, <1>12 DEF Accounts
<1>16. \A i \in 1 .. n : i # id => spent'[i] = spent[i]
  <2>1. \A i : Active(i) => i = q.id
    BY ActiveOnly
  <2> QED BY <1>9, <1>11, <2>1
<1>17. DOMAIN spent' = 1 .. n /\ Len(spent') = n
  <2>1. DOMAIN spent' = 1 .. n
    BY <1>9
  <2>2. spent' \in [1 .. n -> Accounts]
    <3>1. \A i \in 1 .. n : [spent[i] EXCEPT !.used = @ + 1] \in Accounts
      BY <1>10 DEF Accounts
    <3> QED BY <1>9, <1>10, <3>1
  <2>3. spent' \in Seq(Accounts)
    BY <2>2, SeqDef
  <2> QED BY <2>1, <2>3, LenProperties
<1>18. LimitRespected'
  <2>1. \A i \in 1 .. n : spent'[i].used <= spent'[i].limit
    <3> TAKE i \in 1 .. n
    <3>1. CASE i = id
      BY <1>14, <1>15, <3>1
    <3>2. CASE i # id
      BY <1>4, <1>9, <1>16, <3>2 DEF LimitRespected
    <3> QED BY <3>1, <3>2
  <2> QED BY <1>17, <2>1 DEF LimitRespected
<1>19. Account(q, cwil', spent', b)
  <2>1. spent'[id].used + qc <= loc + 1 /\ loc + 1 <= ql + qc
    BY <1>14, <1>15
  <2>2. q.id \in 1 .. Len(spent') /\ spent'[q.id].limit = q.l
    BY <1>11, <1>12, <1>15, <1>17
  <2> QED BY <1>8, <1>11, <1>12, <2>1, <2>2 DEF Account
<1>20. Layers(P, q, loc + 1, orf, b)
  BY <1>3, <1>4, LayersCount
<1>21. Lawful(P, q, loc + 1, Rest, b)
  BY <1>1, <1>2, <1>3, ItemsCount
<1>22. /\ mode' = "run" /\ ball' = AnyBall /\ Lawful(P, q, cwil'.local, k', b') /\ k' \in Seq(Items(G))
       /\ Counting(want, q, cwil'.limits, b') /\ Layers(P, q, cwil'.local, orf', b') /\ Account(q, cwil', spent', b')
  BY <1>1, <1>2, <1>5, <1>8, <1>19, <1>20, <1>21
<1> QED BY <1>3, <1>4, <1>8, <1>18, <1>22, GoesOn

LEMMA IncrementCallCountLimit ==
  ASSUME NEW G, NEW P, NEW want, NEW lims, NEW q, Held(G, P, want, lims, q), IncrementCallCount
  PROVE  LInv(P, want, q)'
<1>1. At("tick") /\ UNCHANGED <<orf, ball>>
  BY DEF IncrementCallCount
<1>2. Going(P, want, q) /\ ball = AnyBall
  BY <1>1, AtWork DEF GoalOps
<1>3. ~ cwil.exceeded /\ Counting(want, q, cwil.limits, b)
  BY <1>2 DEF Going
<1>4. scc = 0 /\ b \in Nat /\ Ghosts(want, lims)
  BY DEF Held, Inv, NoCleaners
<1>5. CASE InForce(want, q.a, b)
  <2>1. cwil.limits = LimitsOf(q)
    BY <1>3, <1>5 DEF Counting
  <2>2. Len(cwil.limits) = 1 /\ cwil.limits[1].block = q.a /\ cwil.limits[1].limit = q.l + q.count
    BY <2>1 DEF LimitsOf
  <2>3. Reached(cwil) <=> cwil.local = q.l + q.count
    BY <2>2 DEF Reached
  <2>4. CASE Reached(cwil)
    <3>1. cwil' = [cwil EXCEPT !.exceeded = TRUE] /\ UnwindTo(q.a, scc) /\ UNCHANGED spent
      BY <1>2, <1>3, <2>2, <2>4 DEF IncrementCallCount
    <3>2. q.a \in Nat
      BY <1>4, <1>5, InForceFacts
    <3>3. b' = q.a /\ mode' = "fail"
      BY <1>4, <3>1, <3>2, UnwindFacts
    <3> QED BY <1>1, <1>5, <3>1, <3>3, ReachedLimit
  <2>5. CASE ~ Reached(cwil)
    <3>1. /\ cwil' = [cwil EXCEPT !.local = @ + 1] /\ k' = Rest /\ UNCHANGED <<mode, b>>
          /\ spent' = [i \in DOMAIN spent |-> IF Active(i) THEN [spent[i] EXCEPT !.used = @ + 1] ELSE spent[i]]
      BY <1>2, <1>3, <2>2, <2>5 DEF IncrementCallCount
    <3> QED BY <1>1, <1>5, <2>3, <2>5, <3>1, CountedCall
  <2> QED BY <2>4, <2>5
<1>6. CASE ~ InForce(want, q.a, b)
  <2>1. Len(cwil.limits) = 0
    BY <1>3, <1>6 DEF Counting
  <2>2. /\ cwil' = cwil /\ k' = Rest /\ UNCHANGED <<mode, b>>
        /\ spent' = [i \in DOMAIN spent |-> IF Active(i) THEN [spent[i] EXCEPT !.used = @ + 1] ELSE spent[i]]
    BY <2>1 DEF IncrementCallCount
  <2> QED BY <1>1, <1>6, <2>2, FreeCall
<1> QED BY <1>5, <1>6

-----------------------------------------------------------------------------
(* Every step. *)

WithinLimit(G, P) == \E want, lims, q : Held(G, P, want, lims, q)

(* There is a limit to speak of that does not have the next frame's address.  *)
LEMMA RenewedHeld ==
  ASSUME NEW G, NEW P, NEW want, NEW lims, NEW q, Held(G, P, want, lims, q), NEW op, At(op), op \in GoalOps \cup RefOps
  PROVE  \E r : Held(G, P, want, lims, r) /\ r.a # b + 1
<1>1. Going(P, want, q) /\ LInv(P, want, q) /\ b \in Nat /\ OneLimit(G, P) /\ Inv(G, want, lims)
  BY AtWork DEF Held, Inv
<1>2. PICK r : LInv(P, want, r) /\ r.a # b + 1
  BY <1>1, Renewed
<1> QED BY <1>1, <1>2 DEF Held

LEMMA StutterLimit ==
  ASSUME NEW P, NEW want, NEW q, LInv(P, want, q), UNCHANGED vars
  PROVE  LInv(P, want, q)'
<1>1. UNCHANGED <<mode, k, orf, b, ball, cwil, spent>>
  BY DEF vars
<1> QED BY <1>1 DEF LInv, LimitRespected, Account, Going, Resuming, Stopping, Returning

LEMMA ControlLimit ==
  ASSUME NEW G, NEW P, NEW want, NEW lims, NEW q, Held(G, P, want, lims, q), Control
  PROVE  \E w, ls, r : Inv(G, w, ls)' /\ LInv(P, w, r)'
<1>0. OneLimit(G, P) /\ Uncleaned(G) /\ Inv(G, want, lims) /\ LInv(P, want, q)
  BY DEF Held, OneLimit
<1>1. CASE True
  <2>1. Inv(G, want, lims)'
    BY <1>0, <1>1, TrueInv
  <2>2. LInv(P, want, q)'
    BY <1>1, TrueLimit
  <2> QED BY <2>1, <2>2
<1>2. CASE Fail
  <2>1. Inv(G, want, lims)'
    BY <1>0, <1>2, FailInv
  <2>2. LInv(P, want, q)'
    BY <1>2, FailLimit
  <2> QED BY <2>1, <2>2
<1>3. CASE Conjunction
  <2>1. Inv(G, want, lims)'
    BY <1>0, <1>3, ConjunctionInv
  <2>2. LInv(P, want, q)'
    BY <1>3, ConjunctionLimit
  <2> QED BY <2>1, <2>2
<1>4. CASE Disjunction
  <2>0. b \in Nat /\ Ghosts(want, lims)
    BY <1>0 DEF Inv
  <2>1. want[b] \in Nat /\ want[b] <= b + 1
    <3>1. want[b] \in Nat /\ want[b] <= b
      BY <2>0 DEF Ghosts
    <3> QED BY <2>0, <3>1
  <2>2. PICK w, ls : Pushed(want, lims, w, ls, b, want[b]) /\ b + 1 \notin ls
    BY <2>0, <2>1, SomeGhosts
  <2>3. Inv(G, w, ls)'
    BY <1>0, <1>4, <2>2, DisjunctionInv
  <2>4. PICK r : Held(G, P, want, lims, r) /\ r.a # b + 1
    BY <1>4, RenewedHeld DEF Disjunction, GoalOps
  <2>5. LInv(P, w, r)'
    BY <1>4, <2>2, <2>4, DisjunctionLimit
  <2> QED BY <2>3, <2>5
<1>5. CASE CallOnce
  <2>1. Inv(G, want, lims)'
    BY <1>0, <1>5, CallOnceInv
  <2>2. LInv(P, want, q)'
    BY <1>5, CallOnceLimit
  <2> QED BY <2>1, <2>2
<1>6. CASE Done \/ Exhausted
  <2>1. Inv(G, want, lims)'
    BY <1>0, <1>6, DoneInv
  <2>2. LInv(P, want, q)'
    BY <1>0, <1>6, DoneLimit
  <2> QED BY <2>1, <2>2
<1>7. CASE Backtrack
  <2>1. Inv(G, want, lims)'
    BY <1>0, <1>7, BacktrackInv
  <2>2. LInv(P, want, q)'
    BY <1>7, BacktrackLimit
  <2> QED BY <2>1, <2>2
<1>8. CASE Cut
  <2>1. Inv(G, want, lims)'
    BY <1>0, <1>8, CutInv
  <2>2. LInv(P, want, q)'
    BY <1>8, CutLimit
  <2> QED BY <2>1, <2>2
<1>9. CASE SetCpByDefault
  <2>1. At("set_cp")
    BY <1>9 DEF SetCpByDefault
  <2>2. "set_cp" \in GoalOps \cup RefOps \cup HandlerOps \cup ReentryOps
    BY <1>0, <2>1, NoCleanup
  <2> QED BY <2>2 DEF GoalOps, RefOps, ExitOps, HandlerOps, ReentryOps
<1> QED BY <1>1, <1>2, <1>3, <1>4, <1>5, <1>6, <1>7, <1>8, <1>9 DEF Control

LEMMA HandlersLimit ==
  ASSUME NEW G, NEW P, NEW want, NEW lims, NEW q, Held(G, P, want, lims, q), Handlers
  PROVE  \E w, ls, r : Inv(G, w, ls)' /\ LInv(P, w, r)'
<1>0. OneLimit(G, P) /\ Uncleaned(G) /\ Inv(G, want, lims)
  BY DEF Held, OneLimit
<1>1. CASE CallCatch
  <2>1. b \in Nat /\ b + 1 \in Nat /\ b + 1 <= b + 1 /\ Ghosts(want, lims)
    BY <1>0 DEF Inv
  <2>2. PICK w, ls : Pushed(want, lims, w, ls, b, b + 1) /\ b + 1 \notin ls
    BY <2>1, SomeGhosts
  <2>3. Inv(G, w, ls)'
    BY <1>0, <1>1, <2>2, CallCatchInv
  <2>4. PICK r : Held(G, P, want, lims, r) /\ r.a # b + 1
    BY <1>1, RenewedHeld DEF CallCatch, GoalOps
  <2>5. LInv(P, w, r)'
    BY <1>1, <2>2, <2>4, CallCatchLimit
  <2> QED BY <2>3, <2>5
<1>2. CASE EndBlock
  <2>1. At("end_block") /\ "end_block" \in ExitOps /\ "end_block" \in GoalOps \cup RefOps
    BY <1>2 DEF EndBlock, ExitOps, RefOps
  <2>2. PICK w, ls : Pushed(want, lims, w, ls, b, want[block - 1]) /\ b + 1 \notin ls
    BY <1>0, <2>1, ExitBlock
  <2>3. CASE block = b
    <3>1. Inv(G, want, lims)'
      BY <1>0, <1>2, <2>2, <2>3, EndBlockInv
    <3>2. LInv(P, want, q)'
      BY <1>2, <2>2, <2>3, EndBlockLimit
    <3> QED BY <3>1, <3>2
  <2>4. CASE block # b
    <3>1. Inv(G, w, ls)'
      BY <1>0, <1>2, <2>2, <2>4, EndBlockInv
    <3>2. PICK r : Held(G, P, want, lims, r) /\ r.a # b + 1
      BY <2>1, RenewedHeld
    <3>3. LInv(P, w, r)'
      BY <1>2, <2>2, <2>4, <3>2, EndBlockLimit
    <3> QED BY <3>1, <3>3
  <2> QED BY <2>3, <2>4
<1>3. CASE Reenter
  <2>1. Inv(G, want, lims)'
    BY <1>0, <1>3, ReenterInv
  <2>2. LInv(P, want, q)'
    BY <1>3, ReenterLimit
  <2> QED BY <2>1, <2>2
<1>4. CASE SetBall
  <2>1. Inv(G, want, lims)'
    BY <1>0, <1>4, SetBallInv
  <2>2. LInv(P, want, q)'
    BY <1>4, SetBallLimit
  <2> QED BY <2>1, <2>2
<1>5. CASE Recover
  <2>1. Inv(G, want, lims)'
    BY <1>0, <1>5, RecoverInv
  <2>2. LInv(P, want, q)'
    BY <1>5, RecoverLimit
  <2> QED BY <2>1, <2>2
<1> QED BY <1>1, <1>2, <1>3, <1>4, <1>5 DEF Handlers

LEMMA LimitsLimit ==
  ASSUME NEW G, NEW P, NEW want, NEW lims, NEW q, Held(G, P, want, lims, q), Limits
  PROVE  \E w, ls, r : Inv(G, w, ls)' /\ LInv(P, w, r)'
<1>0. OneLimit(G, P) /\ Uncleaned(G) /\ Inv(G, want, lims)
  BY DEF Held, OneLimit
<1>1. CASE CallLimit
  <2>1. b \in Nat /\ b + 1 \in Nat /\ b + 1 <= b + 1 /\ Ghosts(want, lims)
    BY <1>0 DEF Inv
  <2>2. PICK w, ls : Pushed(want, lims, w, ls, b, b + 1) /\ b + 1 \in ls
    BY <2>1, SomeGhosts
  <2>3. Inv(G, w, ls)'
    BY <1>0, <1>1, <2>2, CallLimitInv
  <2>4. \E r : LInv(P, w, r)'
    BY <1>1, <2>2, CallLimitLimit
  <2> QED BY <2>3, <2>4
<1>2. CASE LimitExit
  <2>1. At("limit_exit") /\ "limit_exit" \in ExitOps
    BY <1>2 DEF LimitExit, ExitOps
  <2>2. PICK w, ls : Pushed(want, lims, w, ls, b, want[block - 1]) /\ b + 1 \notin ls
    BY <1>0, <2>1, ExitBlock
  <2>3. CASE block = b
    <3>1. Inv(G, want, lims)'
      BY <1>0, <1>2, <2>2, <2>3, LimitExitInv
    <3>2. LInv(P, want, q)'
      BY <1>2, <2>3, LimitOver
    <3> QED BY <3>1, <3>2
  <2>4. CASE block # b
    <3>1. Inv(G, w, ls)'
      BY <1>0, <1>2, <2>2, <2>4, LimitExitInv
    <3>2. LInv(P, w, q)'
      BY <1>2, <2>2, <2>4, LimitLeft
    <3> QED BY <3>1, <3>2
  <2> QED BY <2>3, <2>4
<1>3. CASE LimitReenter
  <2>1. Inv(G, want, lims)'
    BY <1>0, <1>3, LimitReenterInv
  <2>2. LInv(P, want, q)'
    BY <1>3, LimitReenterLimit
  <2> QED BY <2>1, <2>2
<1>4. CASE LimitRetry
  <2>1. Inv(G, want, lims)'
    BY <1>0, <1>4, LimitRetryInv
  <2>2. LInv(P, want, q)'
    BY <1>4, LimitRetryLimit
  <2> QED BY <2>1, <2>2
<1>5. CASE IncrementCallCount
  <2>1. Inv(G, want, lims)'
    BY <1>0, <1>5, IncrementCallCountInv
  <2>2. LInv(P, want, q)'
    BY <1>5, IncrementCallCountLimit
  <2> QED BY <2>1, <2>2
<1> QED BY <1>1, <1>2, <1>3, <1>4, <1>5 DEF Limits

(* At the start no limit has been installed; any address does for the first.  *)
LEMMA InitLimit ==
  ASSUME NEW G, NEW P, OneLimit(G, P), Programs \subseteq G, Init
  PROVE  WithinLimit(G, P)
<1>1. PICK want, lims : Inv(G, want, lims)
  BY InitInv DEF OneLimit, Described
<1>2. PICK q : q = [a |-> 1, l |-> 0, count |-> 0, id |-> 0]
  OBVIOUS
<1>3. q \in Limited /\ q.a = 1 /\ ~(q.a <= 0)
  BY <1>2 DEF Limited
<1>4. PICK g \in G : k = <<g>>
  BY DEF Init
<1>5. /\ mode = "run" /\ b = 0 /\ ball = AnyBall /\ spent = <<>>
      /\ cwil = [local |-> 0, limits |-> <<>>, exceeded |-> FALSE]
  BY DEF Init
<1>6. k \in Seq(Items(G)) /\ Len(k) = 1 /\ k[1] = g /\ Head(k) = g
  <2>1. g \in Items(G)
    BY DEF Items
  <2> QED BY <1>4, <2>1
<1>7. Lawful(P, q, cwil.local, k, b)
  <2>1. k[1].op \notin LimitOps
    BY <1>6, GoalKinds
  <2>2. \A i \in 1 .. 1 : i = 1
    OBVIOUS
  <2>3. Fresh(P, k)
    BY <1>6, <2>1, <2>2 DEF Fresh
  <2> QED BY <1>3, <1>5, <2>3 DEF Lawful
<1>8. Counting(want, q, cwil.limits, b)
  <2>1. ~ InForce(want, q.a, 0)
    BY <1>3 DEF InForce
  <2> QED BY <1>5, <2>1 DEF Counting
<1>9. Going(P, want, q)
  <2>1. Head(k).op \notin {"limit_reenter", "limit_retry"}
    BY <1>6, GoalKinds DEF LimitOps
  <2> QED BY <1>5, <1>7, <1>8, <2>1 DEF Going
<1>10. Layers(P, q, cwil.local, orf, b) /\ Account(q, cwil, spent, b)
  BY <1>3, <1>5 DEF Layers, Account
<1>11. LimitRespected
  BY <1>5 DEF LimitRespected
<1>12. LInv(P, want, q)
  BY <1>3, <1>9, <1>10, <1>11 DEF LInv
<1> QED BY <1>1, <1>12 DEF WithinLimit, Held

LEMMA NextLimit ==
  ASSUME NEW G, NEW P, WithinLimit(G, P), [Next]_vars
  PROVE  WithinLimit(G, P)'
<1>1. PICK want, lims, q : Held(G, P, want, lims, q)
  BY DEF WithinLimit
<1>2. OneLimit(G, P) /\ Uncleaned(G) /\ Inv(G, want, lims) /\ LInv(P, want, q)
  BY <1>1 DEF Held, OneLimit
<1>3. \E w, ls, r : Inv(G, w, ls)' /\ LInv(P, w, r)'
  <2>1. CASE Control
    BY <1>1, <2>1, ControlLimit
  <2>2. CASE Handlers
    BY <1>1, <2>2, HandlersLimit
  <2>3. CASE Cleaners
    BY <1>2, <2>3, CleanersInv
  <2>4. CASE Limits
    BY <1>1, <2>4, LimitsLimit
  <2>5. CASE UNCHANGED vars
    <3>1. Inv(G, want, lims)'
      BY <1>2, <2>5, StutterInv
    <3>2. LInv(P, want, q)'
      BY <1>2, <2>5, StutterLimit
    <3> QED BY <3>1, <3>2
  <2> QED BY <2>1, <2>2, <2>3, <2>4, <2>5 DEF Next
<1>4. PICK w, ls, r : Inv(G, w, ls)' /\ LInv(P, w, r)'
  BY <1>3
<1>5. OneLimit(G, P)'
  BY <1>2
<1>6. Held(G, P, w, ls, r)'
  BY <1>4, <1>5 DEF Held
<1> QED BY <1>6 DEF WithinLimit

(* No goal makes more counted calls than its limit allows, in any program     *)
(* without cleanups that installs one inference limit at a time: whichever    *)
(* way increment_call_count, the balls, the cuts and the re-entries of the    *)
(* goals under it bring the machine in and out of the limit.                  *)
THEOREM LimitRespectedAlways ==
  ASSUME NEW G, NEW P, OneLimit(G, P), Programs \subseteq G
  PROVE  Spec => []LimitRespected
<1>1. Init => WithinLimit(G, P)
  BY InitLimit
<1>2. WithinLimit(G, P) /\ [Next]_vars => WithinLimit(G, P)'
  BY NextLimit
<1>3. WithinLimit(G, P) => LimitRespected
  BY DEF WithinLimit, Held, LInv
<1> QED BY <1>1, <1>2, <1>3, PTL DEF Spec

=============================================================================
