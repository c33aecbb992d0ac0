--------------------------- MODULE AtomTableProofs ---------------------------
(***************************************************************************)
(* Proofs about AtomTable, for any number of threads, strings and blocks.   *)
(***************************************************************************)
EXTENDS AtomTable, TLAPS

(* The mutex: exactly the threads in the critical section hold it. *)
MutexInv ==
  /\ \A t \in Threads : pc[t] \in Critical <=> t \in holder
  /\ \A t, u \in holder : t = u

(* Every atom of every table lies in the allocated part of its block, on a  *)
(* slot that was written.                                                   *)
TableInv ==
  \A g \in Gens : \A a \in tab[g] :
    /\ a \in 0..ptr[g] - 1
    /\ data[g][a] \in Dynamic

(* The newest generation extends every older one and agrees with it. *)
NestedInv ==
  /\ \A g \in Gens : g > cur => tab[g] = {}
  /\ \A g \in Gens : g <= cur =>
       \A a \in tab[g] : a \in tab[cur] /\ data[cur][a] = data[g][a]

(* No two atoms of the newest table are spelt alike. *)
DistinctInv ==
  \A a, b \in tab[cur] : data[cur][a] = data[cur][b] => a = b

(* What was issued is preset or is in the newest table. *)
IssuedInv ==
  \A p \in issued :
    \/ p[1] \in Preset /\ p[2] = PresetAtom[p[1]]
    \/ p[1] \in Dynamic /\ p[2] \in tab[cur] /\ data[cur][p[2]] = p[1]

(* What each thread knows about the epochs it read, at each control point. *)
EpochInv(t) ==
  /\ pc[t] \in {"read_table", "lookup"} => str[t] \in Strings \ Inlined
  /\ pc[t] # "idle" => bgen[t] <= cur
  /\ pc[t] \in {"lock", "deref"} \cup Critical => str[t] \in Dynamic
  /\ pc[t] \in {"lookup", "lock", "check"} =>
       /\ tver[t] <= ver[bgen[t]]
       /\ tver[t] = ver[bgen[t]] => tsnap[t] = tab[bgen[t]]
       /\ tsnap[t] \subseteq tab[bgen[t]]
  /\ pc[t] \in {"lock", "check"} =>
       \A a \in tsnap[t] : data[bgen[t]][a] # str[t]

WriterInv(t) ==
  /\ pc[t] \in {"alloc", "write", "publish"} =>
       /\ bgen[t] = cur
       /\ tver[t] = ver[cur]
       /\ tsnap[t] = tab[cur]
       /\ \A a \in tab[cur] : data[cur][a] # str[t]
  /\ pc[t] \in {"write", "publish"} =>
       /\ off[t] \in 0..ptr[cur] - 1
       /\ off[t] \notin tab[cur]
  /\ pc[t] = "publish" => data[cur][off[t]] = str[t]
  /\ pc[t] = "unlock" => off[t] \in tab[cur] /\ data[cur][off[t]] = str[t]

ReaderInv(t) ==
  pc[t] = "deref" => off[t] \in tab[bgen[t]] /\ data[bgen[t]][off[t]] = str[t]

IInv ==
  /\ TypeOK /\ MutexInv /\ TableInv /\ NestedInv /\ DistinctInv /\ IssuedInv
  /\ \A t \in Threads : EpochInv(t) /\ WriterInv(t) /\ ReaderInv(t)

-----------------------------------------------------------------------------
(* The invariant holds initially: one empty block, every thread idle. *)
LEMMA InitInv == Init => IInv
<1> SUFFICES ASSUME Init PROVE IInv
  OBVIOUS
<1> USE DEF Init
<1>1. TypeOK
  BY StringsAssumption, BoundsAssumption DEF TypeOK, BlockTypeOK, ThreadTypeOK, Gens, PCs
<1>2. MutexInv /\ TableInv /\ NestedInv /\ DistinctInv /\ IssuedInv
  BY BoundsAssumption
  DEF MutexInv, TableInv, NestedInv, DistinctInv, IssuedInv, Gens, Critical
<1>3. \A t \in Threads : EpochInv(t) /\ WriterInv(t) /\ ReaderInv(t)
  BY DEF EpochInv, WriterInv, ReaderInv, Critical
<1> QED
  BY <1>1, <1>2, <1>3 DEF IInv

(* What thread u holds in its locals. *)
Keeps(u) ==
  /\ pc'[u] = pc[u] /\ str'[u] = str[u] /\ bgen'[u] = bgen[u]
  /\ tver'[u] = tver[u] /\ tsnap'[u] = tsnap[u] /\ off'[u] = off[u]

ThreadInv(u) == EpochInv(u) /\ WriterInv(u) /\ ReaderInv(u)

(* How the shared tables may change under a thread outside the critical     *)
(* section: no generation loses an atom or changes its string, and a table  *)
(* that is changed gets a new version.                                      *)
Grows ==
  /\ cur <= cur'
  /\ \A g \in Gens : g <= cur =>
       /\ tab[g] \subseteq tab'[g]
       /\ ver[g] <= ver'[g]
       /\ ver'[g] = ver[g] => tab'[g] = tab[g]
       /\ \A a \in tab[g] : data'[g][a] = data[g][a]

(* A thread that does not move keeps its invariant while the tables stand. *)
LEMMA StandsStill ==
  ASSUME NEW u \in Threads, ThreadInv(u), Keeps(u), UNCHANGED blockVars
  PROVE  ThreadInv(u)'
  BY DEF ThreadInv, EpochInv, WriterInv, ReaderInv, Keeps, blockVars

(* ... and, outside the critical section, while they grow. *)
LEMMA Bystander ==
  ASSUME TypeOK, TypeOK', NEW u \in Threads, ThreadInv(u), Keeps(u), Grows,
         pc[u] \notin Critical
  PROVE  ThreadInv(u)'
<1> USE DEF ThreadInv, Keeps, Critical
<1>0. bgen[u] \in Gens /\ cur \in Int /\ cur' \in Int
  BY DEF TypeOK, ThreadTypeOK, BlockTypeOK, Gens
<1>1. CASE pc[u] = "idle"
  BY <1>1 DEF EpochInv, WriterInv, ReaderInv
<1>2. CASE pc[u] # "idle"
  <2> DEFINE g == bgen[u]
  <2>1. g \in Gens /\ g <= cur /\ g <= cur'
    BY <1>0, <1>2 DEF EpochInv, Grows, Gens
  <2>2. /\ tab[g] \subseteq tab'[g]
        /\ ver[g] <= ver'[g]
        /\ ver'[g] = ver[g] => tab'[g] = tab[g]
        /\ \A a \in tab[g] : data'[g][a] = data[g][a]
    BY <2>1 DEF Grows
  <2>3. ver[g] \in Int /\ ver'[g] \in Int /\ tver[u] \in Int
    BY <2>1 DEF TypeOK, BlockTypeOK, ThreadTypeOK
  <2>4. EpochInv(u)'
    BY <2>1, <2>2, <2>3 DEF EpochInv
  <2>5. WriterInv(u)'
    BY DEF WriterInv
  <2>6. ReaderInv(u)'
    BY <2>2 DEF ReaderInv
  <2> QED
    BY <2>4, <2>5, <2>6
<1> QED
  BY <1>1, <1>2

(* Returning to idle: nothing is left to remember. *)
LEMMA FinishStep ==
  ASSUME IInv, NEW t \in Threads, Finish(t), UNCHANGED blockVars
  PROVE  /\ BlockTypeOK' /\ ThreadTypeOK'
         /\ \A u \in Threads : ThreadInv(u)'
         /\ TableInv' /\ NestedInv' /\ DistinctInv'
<1> USE DEF IInv, Finish, Goto
<1>1. BlockTypeOK'
  BY DEF TypeOK, BlockTypeOK, blockVars
<1>2. ThreadTypeOK'
  <2>1. pc' \in [Threads -> PCs] /\ str' \in [Threads -> Strings \cup {NoStr}]
    BY DEF TypeOK, ThreadTypeOK, PCs
  <2>2. bgen' \in [Threads -> Gens]
    BY BoundsAssumption DEF TypeOK, ThreadTypeOK, Gens
  <2>3. /\ tver' \in [Threads -> Nat] /\ tsnap' \in [Threads -> SUBSET Nat]
        /\ off' \in [Threads -> Int]
    BY DEF TypeOK, ThreadTypeOK
  <2> QED
    BY <2>1, <2>2, <2>3 DEF ThreadTypeOK
<1>3. ThreadInv(t)'
  BY DEF ThreadInv, EpochInv, WriterInv, ReaderInv, Critical, TypeOK, ThreadTypeOK
<1>4. ASSUME NEW u \in Threads, u # t PROVE ThreadInv(u)'
  <2>1. Keeps(u)
    BY <1>4 DEF Keeps, TypeOK, ThreadTypeOK
  <2> QED
    BY <2>1, StandsStill DEF ThreadInv
<1>5. TableInv' /\ NestedInv' /\ DistinctInv'
  BY DEF TableInv, NestedInv, DistinctInv, blockVars
<1> QED
  BY <1>1, <1>2, <1>3, <1>4, <1>5

(* IInv is what the parts above say, thread by thread. *)
LEMMA Assemble ==
  ASSUME BlockTypeOK', ThreadTypeOK', holder' \in SUBSET Threads,
         issued' \subseteq Strings \X Int,
         MutexInv', TableInv', NestedInv', DistinctInv', IssuedInv',
         \A u \in Threads : ThreadInv(u)'
  PROVE  IInv'
  BY DEF IInv, TypeOK, ThreadInv

(* A step of thread t that returns to its caller. *)
LEMMA ReturnStep ==
  ASSUME IInv, NEW t \in Threads, Finish(t), UNCHANGED blockVars,
         MutexInv', IssuedInv', holder' \in SUBSET Threads,
         issued' \subseteq Strings \X Int
  PROVE  IInv'
  BY FinishStep, Assemble

(* A step of thread t that only moves t on. *)
LEMMA LocalStep ==
  ASSUME IInv, NEW t \in Threads, UNCHANGED <<blockVars, issued>>,
         ThreadTypeOK', MutexInv', holder' \in SUBSET Threads, ThreadInv(t)',
         \A u \in Threads \ {t} : Keeps(u)
  PROVE  IInv'
<1>1. BlockTypeOK'
  BY DEF IInv, TypeOK, BlockTypeOK, blockVars
<1>2. TableInv' /\ NestedInv' /\ DistinctInv' /\ IssuedInv'
  BY DEF IInv, TableInv, NestedInv, DistinctInv, IssuedInv, blockVars
<1>3. ASSUME NEW u \in Threads PROVE ThreadInv(u)'
  <2>1. CASE u # t
    BY <2>1, StandsStill DEF IInv, ThreadInv
  <2> QED
    BY <2>1
<1> QED
  BY <1>1, <1>2, <1>3, Assemble DEF IInv, TypeOK

-----------------------------------------------------------------------------
(* One lemma per action. *)
LEMMA BuildInlinedStep ==
  ASSUME IInv, NEW t \in Threads, NEW s \in Strings, BuildInlined(t, s)
  PROVE  IInv'
<1> USE DEF BuildInlined, Return
<1>1. MutexInv'
  BY DEF IInv, MutexInv, Finish, Goto, TypeOK, ThreadTypeOK, Critical
<1>2. IssuedInv' /\ issued' \subseteq Strings \X Int
  BY PresetAssumption, StringsAssumption
  DEF IInv, IssuedInv, TypeOK, Preset, blockVars
<1> QED
  BY <1>1, <1>2, ReturnStep DEF IInv, TypeOK

(* build_with takes its block: only its own registers change. *)
LEMMA ReadBlockStep ==
  ASSUME IInv, NEW t \in Threads, NEW s \in Strings, ReadBlock(t, s)
  PROVE  IInv'
<1> USE DEF ReadBlock, Goto
<1>1. ThreadTypeOK'
  BY DEF IInv, TypeOK, ThreadTypeOK, BlockTypeOK, PCs
<1>2. MutexInv'
  BY DEF IInv, MutexInv, TypeOK, ThreadTypeOK, Critical
<1>3. ThreadInv(t)'
  BY DEF IInv, TypeOK, ThreadTypeOK, BlockTypeOK, ThreadInv, EpochInv,
         WriterInv, ReaderInv, Critical, blockVars, Gens
<1>4. \A u \in Threads \ {t} : Keeps(u)
  BY DEF IInv, TypeOK, ThreadTypeOK, Keeps
<1> QED
  BY <1>1, <1>2, <1>3, <1>4, LocalStep DEF IInv, TypeOK

(* build_with takes its table: only its own registers change. *)
LEMMA ReadTableStep ==
  ASSUME IInv, NEW t \in Threads, ReadTable(t)
  PROVE  IInv'
<1> USE DEF ReadTable, Goto
<1>1. ThreadTypeOK'
  BY DEF IInv, TypeOK, ThreadTypeOK, BlockTypeOK, PCs
<1>2. MutexInv'
  BY DEF IInv, MutexInv, TypeOK, ThreadTypeOK, Critical
<1>3. ThreadInv(t)'
  <2>1. ver[bgen[t]] \in Nat /\ bgen[t] \in Gens
    BY DEF IInv, TypeOK, ThreadTypeOK, BlockTypeOK
  <2> QED
    BY <2>1 DEF IInv, TypeOK, ThreadTypeOK, ThreadInv, EpochInv,
                WriterInv, ReaderInv, Critical, blockVars
<1>4. \A u \in Threads \ {t} : Keeps(u)
  BY DEF IInv, TypeOK, ThreadTypeOK, Keeps
<1> QED
  BY <1>1, <1>2, <1>3, <1>4, LocalStep DEF IInv, TypeOK

(* A static atom is found without the table. *)
LEMMA LookupStaticStep ==
  ASSUME IInv, NEW t \in Threads, LookupStatic(t)
  PROVE  IInv'
<1> USE DEF LookupStatic, Return
<1>1. MutexInv'
  BY DEF IInv, MutexInv, Finish, Goto, TypeOK, ThreadTypeOK, Critical
<1>2. IssuedInv' /\ issued' \subseteq Strings \X Int
  BY PresetAssumption, StringsAssumption
  DEF IInv, IssuedInv, TypeOK, Preset, blockVars
<1> QED
  BY <1>1, <1>2, ReturnStep DEF IInv, TypeOK

(* A lookup that finds the atom returns an index that was published. *)
LEMMA LookupHitStep ==
  ASSUME IInv, NEW t \in Threads, LookupHit(t)
  PROVE  IInv'
<1>0. PICK a \in Spelt(tab[bgen[t]], str[t]) : Return(t, str[t], a)
  BY DEF LookupHit
<1>1. /\ pc[t] = "lookup" /\ str[t] \notin Static
      /\ UNCHANGED <<blockVars, holder>>
      /\ Finish(t) /\ issued' = issued \cup {<<str[t], a>>}
  BY <1>0 DEF LookupHit, Return
<1>2. str[t] \in Dynamic /\ str[t] \in Strings
  BY <1>1 DEF IInv, EpochInv, Dynamic, Preset
<1>3. a \in tab[cur] /\ data[cur][a] = str[t] /\ a \in Int
  <2>1. bgen[t] \in Gens /\ bgen[t] <= cur /\ a \in tab[bgen[t]] /\ AsStr(a) = str[t]
    BY <1>1 DEF IInv, TypeOK, ThreadTypeOK, EpochInv, Spelt
  <2> QED
    BY <2>1 DEF IInv, NestedInv, AsStr, TypeOK, BlockTypeOK
<1>4. MutexInv'
  BY <1>1 DEF IInv, MutexInv, Finish, Goto, TypeOK, ThreadTypeOK, Critical
<1>5. IssuedInv' /\ issued' \subseteq Strings \X Int
  BY <1>1, <1>2, <1>3 DEF IInv, IssuedInv, TypeOK, blockVars
<1> QED
  BY <1>1, <1>4, <1>5, ReturnStep DEF IInv, TypeOK

(* A lookup that misses goes for the lock. *)
LEMMA LookupMissStep ==
  ASSUME IInv, NEW t \in Threads, LookupMiss(t)
  PROVE  IInv'
<1> USE DEF LookupMiss, Goto
<1>1. ThreadTypeOK'
  BY DEF IInv, TypeOK, ThreadTypeOK, localVars, PCs
<1>2. MutexInv'
  BY DEF IInv, MutexInv, TypeOK, ThreadTypeOK, Critical
<1>3. \A a \in tsnap[t] : data[bgen[t]][a] # str[t]
  <2>1. bgen[t] \in Gens /\ bgen[t] <= cur /\ tsnap[t] \subseteq tab[bgen[t]]
    BY DEF IInv, TypeOK, ThreadTypeOK, EpochInv
  <2> QED
    BY <2>1 DEF IInv, NestedInv, Spelt, AsStr
<1>4. str[t] \in Dynamic
  BY DEF IInv, EpochInv, Dynamic, Preset
<1>5. ThreadInv(t)'
  BY <1>3, <1>4 DEF IInv, TypeOK, ThreadTypeOK, ThreadInv, EpochInv,
     WriterInv, ReaderInv, Critical, blockVars, localVars
<1>6. \A u \in Threads \ {t} : Keeps(u)
  BY DEF IInv, TypeOK, ThreadTypeOK, Keeps, localVars
<1> QED
  BY <1>1, <1>2, <1>5, <1>6, LocalStep DEF IInv, TypeOK

(* Taking the lock. *)
LEMMA LockStep ==
  ASSUME IInv, NEW t \in Threads, Lock(t)
  PROVE  IInv'
<1> USE DEF Lock, Goto
<1>1. ThreadTypeOK'
  BY DEF IInv, TypeOK, ThreadTypeOK, localVars, PCs, Critical
<1>2. MutexInv'
  BY DEF IInv, MutexInv, TypeOK, ThreadTypeOK, Critical
<1>3. ThreadInv(t)'
  BY DEF IInv, TypeOK, ThreadTypeOK, ThreadInv, EpochInv,
     WriterInv, ReaderInv, Critical, blockVars, localVars
<1>4. \A u \in Threads \ {t} : Keeps(u)
  BY DEF IInv, TypeOK, ThreadTypeOK, Keeps, localVars
<1> QED
  BY <1>1, <1>2, <1>3, <1>4, LocalStep DEF IInv, TypeOK

(* The double check: if neither epoch moved, what the lookup saw still holds. *)
LEMMA CheckPassedStep ==
  ASSUME IInv, NEW t \in Threads, CheckPassed(t)
  PROVE  IInv'
<1> USE DEF CheckPassed, Goto
<1>1. ThreadTypeOK'
  BY DEF IInv, TypeOK, ThreadTypeOK, localVars, PCs, Critical
<1>2. MutexInv'
  BY DEF IInv, MutexInv, TypeOK, ThreadTypeOK, Critical
<1>3. ThreadInv(t)'
  <2>1. /\ bgen[t] = cur /\ tver[t] = ver[cur] /\ tsnap[t] = tab[cur]
        /\ \A a \in tab[cur] : data[cur][a] # str[t]
        /\ str[t] \in Dynamic
    BY DEF SameEpoch, IInv, EpochInv, Critical
  <2> QED
    BY <2>1 DEF IInv, TypeOK, ThreadTypeOK, ThreadInv, EpochInv,
     WriterInv, ReaderInv, Critical, blockVars, localVars
<1>4. \A u \in Threads \ {t} : Keeps(u)
  BY DEF IInv, TypeOK, ThreadTypeOK, Keeps, localVars
<1> QED
  BY <1>1, <1>2, <1>3, <1>4, LocalStep DEF IInv, TypeOK

(* Under the lock the table was found to have changed: the insertion starts again. *)
LEMMA CheckFailedStep ==
  ASSUME IInv, NEW t \in Threads, CheckFailed(t)
  PROVE  IInv'
<1> USE DEF CheckFailed, Goto
<1>1. ThreadTypeOK'
  BY DEF IInv, TypeOK, ThreadTypeOK, BlockTypeOK, PCs
<1>2. MutexInv'
  BY DEF IInv, MutexInv, TypeOK, ThreadTypeOK, Critical
<1>3. ThreadInv(t)'
  <2>1. str[t] \in Strings \ Inlined /\ cur <= cur
    BY DEF IInv, EpochInv, Critical, Dynamic, Preset, TypeOK, BlockTypeOK, Gens
  <2> QED
    BY <2>1 DEF IInv, TypeOK, ThreadTypeOK, ThreadInv, EpochInv,
     WriterInv, ReaderInv, Critical, blockVars
<1>4. \A u \in Threads \ {t} : Keeps(u)
  BY DEF IInv, TypeOK, ThreadTypeOK, Keeps
<1> QED
  BY <1>1, <1>2, <1>3, <1>4, LocalStep DEF IInv, TypeOK

(* Giving the lock back. *)
LEMMA UnlockStep ==
  ASSUME IInv, NEW t \in Threads, Unlock(t)
  PROVE  IInv'
<1> USE DEF Unlock, Return
<1>1. MutexInv'
  BY DEF IInv, MutexInv, Finish, Goto, TypeOK, ThreadTypeOK, Critical
<1>2. str[t] \in Dynamic /\ off[t] \in tab[cur] /\ data[cur][off[t]] = str[t]
  BY DEF IInv, EpochInv, WriterInv, Critical
<1>3. IssuedInv' /\ issued' \subseteq Strings \X Int
  BY <1>2 DEF IInv, IssuedInv, TypeOK, ThreadTypeOK, Dynamic, blockVars
<1> QED
  BY <1>1, <1>3, ReturnStep DEF IInv, TypeOK

(* A reader starts to look at an atom it holds. *)
LEMMA BeginDerefStep ==
  ASSUME IInv, NEW t \in Threads, NEW p \in issued, BeginDeref(t, p)
  PROVE  IInv'
<1> USE DEF BeginDeref, Goto
<1>1. p[1] \in Dynamic /\ p[2] \in tab[cur] /\ data[cur][p[2]] = p[1] /\ p[2] \in Int
  BY DEF IInv, IssuedInv, TypeOK, BlockTypeOK, Dynamic
<1>2. ThreadTypeOK'
  BY <1>1 DEF IInv, TypeOK, ThreadTypeOK, BlockTypeOK, PCs, Dynamic
<1>3. MutexInv'
  BY DEF IInv, MutexInv, TypeOK, ThreadTypeOK, Critical
<1>4. ThreadInv(t)'
  BY <1>1 DEF IInv, TypeOK, ThreadTypeOK, BlockTypeOK, ThreadInv, EpochInv,
         WriterInv, ReaderInv, Critical, blockVars, Gens
<1>5. \A u \in Threads \ {t} : Keeps(u)
  BY DEF IInv, TypeOK, ThreadTypeOK, Keeps
<1> QED
  BY <1>2, <1>3, <1>4, <1>5, LocalStep DEF IInv, TypeOK

(* A reader is done with an atom. *)
LEMMA EndDerefStep ==
  ASSUME IInv, NEW t \in Threads, EndDeref(t)
  PROVE  IInv'
<1> USE DEF EndDeref
<1>1. MutexInv'
  BY DEF IInv, MutexInv, Finish, Goto, TypeOK, ThreadTypeOK, Critical
<1>2. IssuedInv' /\ issued' \subseteq Strings \X Int
  BY DEF IInv, IssuedInv, TypeOK, blockVars
<1> QED
  BY <1>1, <1>2, ReturnStep DEF IInv, TypeOK

(* A step of the lock holder that extends the tables. *)
LEMMA HolderStep ==
  ASSUME IInv, NEW t \in Threads, pc[t] \in Critical, UNCHANGED <<holder, issued>>,
         BlockTypeOK', ThreadTypeOK', MutexInv', TableInv', NestedInv',
         DistinctInv', IssuedInv', ThreadInv(t)', Grows,
         \A u \in Threads \ {t} : Keeps(u)
  PROVE  IInv'
<1>1. TypeOK /\ TypeOK'
  BY DEF IInv, TypeOK
<1>2. ASSUME NEW u \in Threads PROVE ThreadInv(u)'
  <2>1. CASE u # t
    <3>1. pc[u] \notin Critical
      BY <2>1 DEF IInv, MutexInv
    <3>2. ThreadInv(u) /\ Keeps(u)
      BY <2>1 DEF IInv, ThreadInv
    <3> QED
      BY <1>1, <3>1, <3>2, Bystander
  <2> QED
    BY <2>1
<1> QED
  BY <1>1, <1>2, Assemble DEF IInv, TypeOK

(* Space for the new atom is taken from the block. *)
LEMMA AllocStep ==
  ASSUME IInv, NEW t \in Threads, Alloc(t)
  PROVE  IInv'
<1>1. /\ pc[t] = "alloc" /\ pc' = [pc EXCEPT ![t] = "write"]
      /\ bgen[t] = cur /\ cur \in Gens /\ ptr[cur] \in Nat /\ cap[cur] \in Nat
      /\ ptr[cur] < cap[cur]
      /\ off' = [off EXCEPT ![t] = ptr[cur]]
      /\ ptr' = [ptr EXCEPT ![cur] = ptr[cur] + 1]
      /\ UNCHANGED <<cur, cap, data, tab, ver, holder, str, bgen, tver, tsnap, issued>>
  BY DEF IInv, Alloc, Goto, HasRoom, WriterInv, TypeOK, BlockTypeOK
<1>2. BlockTypeOK'
  <2>1. ptr' \in [Gens -> Nat] /\ \A g \in Gens : ptr'[g] <= cap[g]
    BY <1>1 DEF IInv, TypeOK, BlockTypeOK
  <2> QED
    BY <1>1, <2>1 DEF IInv, TypeOK, BlockTypeOK
<1>3. ThreadTypeOK'
  BY <1>1 DEF IInv, TypeOK, ThreadTypeOK, PCs, Critical
<1>4. MutexInv'
  BY <1>1 DEF IInv, MutexInv, TypeOK, ThreadTypeOK, Critical
<1>5. TableInv'
  BY <1>1 DEF IInv, TableInv, TypeOK, BlockTypeOK
<1>6. NestedInv' /\ DistinctInv' /\ IssuedInv'
  BY <1>1 DEF IInv, NestedInv, DistinctInv, IssuedInv
<1>7. ThreadInv(t)'
  <2>1. ptr[cur] \notin tab[cur]
    BY <1>1 DEF IInv, TableInv
  <2>2. off'[t] = ptr[cur] /\ ptr'[cur] = ptr[cur] + 1 /\ pc'[t] = "write"
    BY <1>1 DEF IInv, TypeOK, BlockTypeOK, ThreadTypeOK
  <2>3. EpochInv(t)' /\ ReaderInv(t)'
    BY <1>1, <2>2 DEF IInv, EpochInv, ReaderInv, Critical
  <2>4. WriterInv(t)'
    BY <1>1, <2>1, <2>2 DEF IInv, WriterInv
  <2> QED
    BY <2>3, <2>4 DEF ThreadInv
<1>8. Grows
  BY <1>1 DEF Grows, IInv, TypeOK, BlockTypeOK, Gens
<1>9. \A u \in Threads \ {t} : Keeps(u)
  BY <1>1 DEF IInv, TypeOK, ThreadTypeOK, Keeps
<1> QED
  BY <1>1, <1>2, <1>3, <1>4, <1>5, <1>6, <1>7, <1>8, <1>9, HolderStep DEF Critical

(* The header and the characters are written. *)
LEMMA WriteStep ==
  ASSUME IInv, NEW t \in Threads, Write(t)
  PROVE  IInv'
<1>1. /\ pc[t] = "write" /\ pc' = [pc EXCEPT ![t] = "publish"]
      /\ bgen[t] = cur /\ cur \in Gens /\ str[t] \in Dynamic
      /\ off[t] \in 0..ptr[cur] - 1 /\ off[t] \notin tab[cur]
      /\ data' = [data EXCEPT ![cur][off[t]] = str[t]]
      /\ UNCHANGED <<cur, cap, ptr, tab, ver, holder, str, bgen, tver, tsnap, off, issued>>
  BY DEF IInv, Write, Goto, WriterInv, EpochInv, TypeOK, BlockTypeOK, localVars, Critical
<1>2. /\ \A g \in Gens : g # cur => data'[g] = data[g]
      /\ data'[cur] = [data[cur] EXCEPT ![off[t]] = str[t]]
  BY <1>1 DEF IInv, TypeOK, BlockTypeOK
<1>3. off[t] \in 0..cap[cur] - 1 /\ data[cur] \in [0..cap[cur] - 1 -> Strings \cup {NoStr}]
  BY <1>1 DEF IInv, TypeOK, BlockTypeOK, Gens
<1>4. data'[cur][off[t]] = str[t]
  BY <1>2, <1>3
<1>5. \A g \in Gens : \A a \in tab[g] : g <= cur => data'[g][a] = data[g][a]
  <2> SUFFICES ASSUME NEW g \in Gens, NEW a \in tab[g], g <= cur
               PROVE  data'[g][a] = data[g][a]
    OBVIOUS
  <2>1. CASE g # cur
    BY <2>1, <1>2
  <2>2. CASE g = cur
    <3>1. a \in 0..cap[cur] - 1 /\ a # off[t]
      BY <2>2, <1>1 DEF IInv, TableInv, TypeOK, BlockTypeOK, Gens
    <3> QED
      BY <3>1, <2>2, <1>2, <1>3
  <2> QED
    BY <2>1, <2>2
<1>6. BlockTypeOK'
  <2>1. data' = [g \in Gens |-> data'[g]]
    BY <1>1 DEF IInv, TypeOK, BlockTypeOK
  <2>2. data'[cur] \in [0..cap[cur] - 1 -> Strings \cup {NoStr}]
    BY <1>1, <1>2, <1>3 DEF Dynamic
  <2>3. \A g \in Gens : data'[g] \in [0..cap[g] - 1 -> Strings \cup {NoStr}]
    BY <2>2, <1>2 DEF IInv, TypeOK, BlockTypeOK
  <2> QED
    BY <2>1, <2>3, <1>1 DEF IInv, TypeOK, BlockTypeOK
<1>7. ThreadTypeOK'
  BY <1>1 DEF IInv, TypeOK, ThreadTypeOK, PCs, Critical
<1>8. MutexInv'
  BY <1>1 DEF IInv, MutexInv, TypeOK, ThreadTypeOK, Critical
<1>9. TableInv' /\ NestedInv'
  <2>1. \A g \in Gens : g > cur => tab[g] = {}
    BY DEF IInv, NestedInv
  <2>2. \A g \in Gens : g > cur \/ g <= cur
    BY <1>1 DEF Gens
  <2>3. TableInv'
    BY <1>1, <1>5, <2>1, <2>2 DEF IInv, TableInv
  <2>4. cur <= cur
    BY <1>1 DEF Gens
  <2>5. NestedInv'
    BY <1>1, <1>5, <2>1, <2>4 DEF IInv, NestedInv
  <2> QED
    BY <2>3, <2>5
<1>10. DistinctInv' /\ IssuedInv'
  <2>1. \A a \in tab[cur] : data'[cur][a] = data[cur][a]
    BY <1>1, <1>5 DEF Gens
  <2> QED
    BY <1>1, <2>1 DEF IInv, DistinctInv, IssuedInv
<1>11. ThreadInv(t)'
  <2>1. pc'[t] = "publish"
    BY <1>1 DEF IInv, TypeOK, ThreadTypeOK
  <2>2. \A a \in tab[cur] : data'[cur][a] = data[cur][a]
    BY <1>1, <1>5 DEF Gens
  <2>3. EpochInv(t)' /\ ReaderInv(t)'
    BY <1>1, <2>1 DEF IInv, EpochInv, ReaderInv, Critical
  <2>4. WriterInv(t)'
    BY <1>1, <1>4, <2>1, <2>2 DEF IInv, WriterInv
  <2> QED
    BY <2>3, <2>4 DEF ThreadInv
<1>12. Grows
  BY <1>1, <1>5 DEF Grows, IInv, TypeOK, BlockTypeOK, Gens
<1>13. \A u \in Threads \ {t} : Keeps(u)
  BY <1>1 DEF IInv, TypeOK, ThreadTypeOK, Keeps
<1> QED
  BY <1>1, <1>6, <1>7, <1>8, <1>9, <1>10, <1>11, <1>12, <1>13, HolderStep DEF Critical

(* The atom enters the table. *)
LEMMA PublishStep ==
  ASSUME IInv, NEW t \in Threads, Publish(t)
  PROVE  IInv'
<1>1. /\ pc[t] = "publish" /\ pc' = [pc EXCEPT ![t] = "unlock"]
      /\ bgen[t] = cur /\ cur \in Gens /\ str[t] \in Dynamic
      /\ off[t] \in 0..ptr[cur] - 1 /\ off[t] \notin tab[cur]
      /\ data[cur][off[t]] = str[t]
      /\ \A a \in tab[cur] : data[cur][a] # str[t]
      /\ tab' = [tab EXCEPT ![cur] = tab[cur] \cup {off[t]}]
      /\ ver' = [ver EXCEPT ![cur] = ver[cur] + 1]
      /\ UNCHANGED <<cur, cap, ptr, data, holder, str, bgen, tver, tsnap, off, issued>>
  BY DEF IInv, Publish, Goto, WriterInv, EpochInv, TypeOK, BlockTypeOK, localVars, Critical
<1>2. /\ \A g \in Gens : g # cur => tab'[g] = tab[g] /\ ver'[g] = ver[g]
      /\ tab'[cur] = tab[cur] \cup {off[t]}
      /\ ver'[cur] = ver[cur] + 1 /\ ver[cur] \in Nat
  BY <1>1 DEF IInv, TypeOK, BlockTypeOK
<1>3. BlockTypeOK'
  <2>1. off[t] \in Nat
    BY <1>1 DEF IInv, TypeOK, BlockTypeOK
  <2>2. tab' \in [Gens -> SUBSET Nat] /\ ver' \in [Gens -> Nat]
    BY <1>1, <2>1 DEF IInv, TypeOK, BlockTypeOK
  <2> QED
    BY <1>1, <2>2 DEF IInv, TypeOK, BlockTypeOK
<1>4. ThreadTypeOK'
  BY <1>1 DEF IInv, TypeOK, ThreadTypeOK, PCs, Critical
<1>5. MutexInv'
  BY <1>1 DEF IInv, MutexInv, TypeOK, ThreadTypeOK, Critical
<1>6. TableInv'
  BY <1>1, <1>2 DEF IInv, TableInv
<1>7. NestedInv'
  <2>1. ~(cur > cur)
    BY <1>1 DEF Gens
  <2> QED
    BY <1>1, <1>2, <2>1 DEF IInv, NestedInv
<1>8. DistinctInv' /\ IssuedInv'
  BY <1>1, <1>2 DEF IInv, DistinctInv, IssuedInv
<1>9. ThreadInv(t)'
  <2>1. pc'[t] = "unlock"
    BY <1>1 DEF IInv, TypeOK, ThreadTypeOK
  <2> QED
    BY <1>1, <1>2, <2>1 DEF IInv, ThreadInv, EpochInv, ReaderInv, WriterInv, Critical
<1>10. Grows
  BY <1>1, <1>2 DEF Grows, IInv, TypeOK, BlockTypeOK, Gens
<1>11. \A u \in Threads \ {t} : Keeps(u)
  BY <1>1 DEF IInv, TypeOK, ThreadTypeOK, Keeps
<1> QED
  BY <1>1, <1>3, <1>4, <1>5, <1>6, <1>7, <1>8, <1>9, <1>10, <1>11, HolderStep DEF Critical

(* The block is replaced by a larger one. *)
LEMMA GrowStep ==
  ASSUME IInv, NEW t \in Threads, Grow(t)
  PROVE  IInv'
<1> DEFINE n == cur + 1
<1>1. /\ pc[t] = "alloc" /\ bgen[t] = cur /\ cur \in Gens /\ n \in Gens
      /\ str[t] \in Dynamic /\ tsnap[t] = tab[cur]
      /\ \A a \in tab[cur] : data[cur][a] # str[t]
      /\ ptr[cur] \in Nat /\ cap[cur] \in Nat /\ ptr[cur] <= cap[cur]
      /\ cur' = n /\ n > cur
  <2>1. pc[t] = "alloc" /\ cur < MaxGen /\ cur' = n
    BY DEF Grow
  <2>2. cur \in Gens /\ n \in Gens /\ n > cur
    BY <2>1, BoundsAssumption DEF IInv, TypeOK, BlockTypeOK, Gens
  <2>3. /\ bgen[t] = cur /\ str[t] \in Dynamic /\ tsnap[t] = tab[cur]
        /\ \A a \in tab[cur] : data[cur][a] # str[t]
    BY <2>1 DEF IInv, WriterInv, EpochInv, Critical
  <2>4. ptr[cur] \in Nat /\ cap[cur] \in Nat /\ ptr[cur] <= cap[cur]
    BY <2>2 DEF IInv, TypeOK, BlockTypeOK
  <2> QED
    BY <2>1, <2>2, <2>3, <2>4
<1>2. /\ cap' = [cap EXCEPT ![n] = 2 * cap[cur]]
      /\ ptr' = [ptr EXCEPT ![n] = ptr[cur]]
      /\ data' = [data EXCEPT ![n] = [i \in 0..2 * cap[cur] - 1 |-> GrowNew(cur, i)]]
      /\ tab' = [tab EXCEPT ![n] = tab[cur]]
      /\ ver' = [ver EXCEPT ![n] = 0]
      /\ bgen' = [bgen EXCEPT ![t] = n]
      /\ tver' = [tver EXCEPT ![t] = 0]
      /\ UNCHANGED <<holder, pc, str, tsnap, off, issued>>
  BY <1>1 DEF Grow
<1>3. /\ \A g \in Gens : g # n =>
           /\ tab'[g] = tab[g] /\ ver'[g] = ver[g] /\ ptr'[g] = ptr[g]
           /\ cap'[g] = cap[g] /\ data'[g] = data[g]
      /\ tab'[n] = tab[cur] /\ ver'[n] = 0 /\ ptr'[n] = ptr[cur]
      /\ cap'[n] = 2 * cap[cur]
      /\ data'[n] = [i \in 0..2 * cap[cur] - 1 |-> GrowNew(cur, i)]
  BY <1>1, <1>2 DEF IInv, TypeOK, BlockTypeOK
<1>4. \A a \in tab[cur] : data'[n][a] = data[cur][a]
  <2> SUFFICES ASSUME NEW a \in tab[cur] PROVE data'[n][a] = data[cur][a]
    OBVIOUS
  <2>1. a \in 0..ptr[cur] - 1
    BY <1>1 DEF IInv, TableInv
  <2>2. a \in 0..2 * cap[cur] - 1 /\ a < ptr[cur]
    BY <1>1, <2>1
  <2> QED
    BY <1>3, <2>2 DEF GrowNew
<1>5. BlockTypeOK'
  <2>1. cap' \in [Gens -> Nat] /\ ptr' \in [Gens -> Nat]
    BY <1>1, <1>2 DEF IInv, TypeOK, BlockTypeOK
  <2>2. \A g \in Gens : ptr'[g] <= cap'[g]
    <3>1. ptr'[n] <= cap'[n]
      BY <1>1, <1>3
    <3>2. \A g \in Gens : g # n => ptr'[g] <= cap'[g]
      BY <1>3 DEF IInv, TypeOK, BlockTypeOK
    <3> QED
      BY <3>1, <3>2
  <2>3. data' = [g \in Gens |-> data'[g]]
    BY <1>2 DEF IInv, TypeOK, BlockTypeOK
  <2>4. data'[n] \in [0..cap'[n] - 1 -> Strings \cup {NoStr}]
    <3>1. ASSUME NEW i \in 0..2 * cap[cur] - 1
          PROVE  GrowNew(cur, i) \in Strings \cup {NoStr}
      <4>1. CASE i < ptr[cur]
        <5>1. i \in 0..cap[cur] - 1
          BY <1>1, <4>1
        <5> QED
          BY <5>1, <4>1, <1>1 DEF GrowNew, IInv, TypeOK, BlockTypeOK
      <4> QED
        BY <4>1 DEF GrowNew
    <3> HIDE DEF n
    <3> QED
      BY <3>1, <1>3
  <2>5. \A g \in Gens : data'[g] \in [0..cap'[g] - 1 -> Strings \cup {NoStr}]
    BY <1>3, <2>4 DEF IInv, TypeOK, BlockTypeOK
  <2>6. tab' \in [Gens -> SUBSET Nat] /\ ver' \in [Gens -> Nat]
    BY <1>1, <1>2 DEF IInv, TypeOK, BlockTypeOK
  <2> QED
    BY <1>1, <2>1, <2>2, <2>3, <2>5, <2>6 DEF BlockTypeOK
<1>6. ThreadTypeOK'
  BY <1>1, <1>2 DEF IInv, TypeOK, ThreadTypeOK
<1>7. MutexInv'
  BY <1>2 DEF IInv, MutexInv
<1>8. TableInv'
  <2>1. \A a \in tab[cur] : a \in 0..ptr[cur] - 1 /\ data[cur][a] \in Dynamic
    BY <1>1 DEF IInv, TableInv
  <2>2. \A a \in tab'[n] : a \in 0..ptr'[n] - 1 /\ data'[n][a] \in Dynamic
    BY <2>1, <1>3, <1>4
  <2>3. \A g \in Gens : g # n =>
          \A a \in tab'[g] : a \in 0..ptr'[g] - 1 /\ data'[g][a] \in Dynamic
    BY <1>3 DEF IInv, TableInv
  <2> QED
    BY <2>2, <2>3 DEF TableInv
<1>9. NestedInv'
  <2>1. \A g \in Gens : g > n => g # n /\ g > cur
    BY <1>1 DEF Gens
  <2>2. \A g \in Gens : g <= n => g = n \/ (g <= cur /\ g # n)
    BY <1>1 DEF Gens
  <2>3. \A g \in Gens : g > n => tab'[g] = {}
    BY <1>3, <2>1 DEF IInv, NestedInv
  <2>4. \A g \in Gens : g <= n =>
          \A a \in tab'[g] : a \in tab'[n] /\ data'[n][a] = data'[g][a]
    <3> SUFFICES ASSUME NEW g \in Gens, g <= cur, g # n, NEW a \in tab'[g]
                 PROVE  a \in tab'[n] /\ data'[n][a] = data'[g][a]
      BY <2>2
    <3>1. a \in tab[g] /\ data'[g] = data[g]
      BY <1>3
    <3>2. a \in tab[cur] /\ data[cur][a] = data[g][a]
      BY <3>1 DEF IInv, NestedInv
    <3> QED
      BY <3>1, <3>2, <1>3, <1>4
  <2> QED
    BY <1>1, <2>3, <2>4 DEF NestedInv
<1>10. DistinctInv' /\ IssuedInv'
  <2>1. tab'[cur'] = tab[cur] /\ \A a \in tab[cur] : data'[cur'][a] = data[cur][a]
    BY <1>1, <1>3, <1>4
  <2> QED
    BY <1>2, <2>1 DEF IInv, DistinctInv, IssuedInv
<1>11. ThreadInv(t)'
  <2>1. bgen'[t] = n /\ tver'[t] = 0
    BY <1>1, <1>2 DEF IInv, TypeOK, ThreadTypeOK
  <2>2. n <= n
    BY <1>1 DEF Gens
  <2> QED
    BY <1>1, <1>2, <1>3, <1>4, <2>1, <2>2
    DEF IInv, ThreadInv, EpochInv, ReaderInv, WriterInv, Critical
<1>12. Grows
  <2>1. cur <= n /\ \A g \in Gens : g <= cur => g # n
    BY <1>1 DEF Gens
  <2>2. \A g \in Gens : ver[g] <= ver[g]
    BY DEF IInv, TypeOK, BlockTypeOK
  <2> QED
    BY <1>1, <1>3, <2>1, <2>2 DEF Grows
<1>13. \A u \in Threads \ {t} : Keeps(u)
  BY <1>2 DEF IInv, TypeOK, ThreadTypeOK, Keeps
<1> QED
  BY <1>1, <1>2, <1>5, <1>6, <1>7, <1>8, <1>9, <1>10, <1>11, <1>12, <1>13, HolderStep
  DEF Critical

-----------------------------------------------------------------------------
(* Every step of every thread preserves the invariant. *)
LEMMA NextInv == IInv /\ [Next]_vars => IInv'
<1> SUFFICES ASSUME IInv, [Next]_vars PROVE IInv'
  OBVIOUS
<1>1. CASE UNCHANGED vars
  <2>1. UNCHANGED <<blockVars, holder, pc, localVars, issued>>
    BY <1>1 DEF vars
  <2>2. \A u \in Threads : Keeps(u)
    BY <2>1 DEF Keeps, localVars
  <2>3. \A u \in Threads : ThreadInv(u)'
    BY <2>1, <2>2, StandsStill DEF IInv, ThreadInv
  <2>4. BlockTypeOK' /\ ThreadTypeOK' /\ MutexInv'
    BY <2>1 DEF IInv, TypeOK, BlockTypeOK, ThreadTypeOK, MutexInv, blockVars, localVars
  <2>5. TableInv' /\ NestedInv' /\ DistinctInv' /\ IssuedInv'
    BY <2>1 DEF IInv, TableInv, NestedInv, DistinctInv, IssuedInv, blockVars
  <2> QED
    BY <2>1, <2>3, <2>4, <2>5, Assemble DEF IInv, TypeOK
<1>2. CASE Next
  <2>1. PICK t \in Threads :
          \/ \E s \in Strings : BuildInlined(t, s) \/ ReadBlock(t, s)
          \/ Build(t)
          \/ \E p \in issued : BeginDeref(t, p)
          \/ EndDeref(t)
    BY <1>2 DEF Next
  <2>2. CASE Build(t)
    BY <2>2, ReadTableStep, LookupStaticStep, LookupHitStep, LookupMissStep,
       LockStep, CheckPassedStep, CheckFailedStep, AllocStep, GrowStep,
       WriteStep, PublishStep, UnlockStep DEF Build
  <2> QED
    BY <2>1, <2>2, BuildInlinedStep, ReadBlockStep, BeginDerefStep, EndDerefStep
<1> QED
  BY <1>1, <1>2

(* The invariant holds throughout every behaviour of the atom table. *)
THEOREM Invariance == Spec => []IInv
<1>1. IInv /\ [Next]_vars => IInv'
  BY NextInv
<1> QED
  BY InitInv, <1>1, PTL DEF Spec

(* The atom table's variables keep their types and no block is overfilled,  *)
(* whatever the number of threads, strings and blocks.                      *)
THEOREM TypeCorrect == Spec => []TypeOK
<1>1. IInv => TypeOK
  BY DEF IInv
<1> QED
  BY Invariance, <1>1, PTL

(* AtomTable::build_with is injective and single-valued: any two pairs ever *)
(* issued agree on the string exactly when they agree on the atom.          *)
THEOREM Uniqueness == Spec => []UniqueIssued
<1>1. IInv => UniqueIssued
  <2> SUFFICES ASSUME IInv, NEW p \in issued, NEW q \in issued
               PROVE  (p[1] = q[1]) <=> (p[2] = q[2])
    BY DEF UniqueIssued
  <2>1. tab[cur] \subseteq Nat
    BY DEF IInv, TypeOK, BlockTypeOK
  <2>2. \A s \in Preset : PresetAtom[s] \notin Nat
    BY PresetAssumption DEF Preset
  <2>3. \A s, r \in Preset : PresetAtom[s] = PresetAtom[r] => s = r
    BY PresetAssumption DEF Preset
  <2>4. \A r \in issued :
          \/ r[1] \in Preset /\ r[2] = PresetAtom[r[1]]
          \/ r[1] \in Dynamic /\ r[2] \in tab[cur] /\ data[cur][r[2]] = r[1]
    BY DEF IInv, IssuedInv
  <2>5. Preset \cap Dynamic = {}
    BY DEF Dynamic
  <2> QED
    BY <2>1, <2>2, <2>3, <2>4, <2>5 DEF IInv, DistinctInv
<1> QED
  BY Invariance, <1>1, PTL

(* Atom::as_ptr finds the right string in whichever block the thread holds. *)
THEOREM DerefCorrect == Spec => []DerefSound
<1>1. IInv => DerefSound
  <2> SUFFICES ASSUME IInv, NEW t \in Threads, pc[t] = "deref"
               PROVE  off[t] \in DOMAIN data[bgen[t]] /\ data[bgen[t]][off[t]] = str[t]
    BY DEF DerefSound
  <2>1. bgen[t] \in Gens /\ off[t] \in tab[bgen[t]] /\ data[bgen[t]][off[t]] = str[t]
    BY DEF IInv, TypeOK, ThreadTypeOK, ReaderInv
  <2>2. off[t] \in 0..cap[bgen[t]] - 1
    BY <2>1 DEF IInv, TableInv, TypeOK, BlockTypeOK
  <2> QED
    BY <2>1, <2>2 DEF IInv, TypeOK, BlockTypeOK
<1> QED
  BY Invariance, <1>1, PTL

-----------------------------------------------------------------------------
(* The table's pairs stand while the tables stand. *)
LEMMA PairsStand ==
  ASSUME UNCHANGED blockVars
  PROVE  InternedPairs' = InternedPairs
  BY DEF InternedPairs, AsStr, blockVars

(* A pair that is preset or in the newest table may be issued. *)
LEMMA IssueStep ==
  ASSUME UNCHANGED blockVars, NEW pair \in InternedPairs, issued' = issued \cup {pair}
  PROVE  Abstract!Next
<1>1. InternedPairs' = InternedPairs
  BY PairsStand
<1>2. Abstract!Issue
  BY <1>1 DEF Abstract!Issue
<1> QED
  BY <1>2 DEF Abstract!Next

(* Each step of the atom table is a step of Interning or changes nothing. *)
LEMMA NextRefines == IInv /\ IInv' /\ [Next]_vars => [Abstract!Next]_(Abstract!iVars)
<1> SUFFICES ASSUME IInv, IInv', [Next]_vars
             PROVE  Abstract!Next \/ UNCHANGED <<InternedPairs, issued>>
  BY DEF Abstract!iVars
<1>1. CASE UNCHANGED vars
  BY <1>1, PairsStand DEF vars
<1>2. ASSUME NEW t \in Threads, NEW s \in Strings, BuildInlined(t, s)
      PROVE  Abstract!Next
  <2>1. <<s, PresetAtom[s]>> \in InternedPairs
    BY <1>2 DEF BuildInlined, InternedPairs, PresetPairs, Preset
  <2> QED
    BY <1>2, <2>1, IssueStep DEF BuildInlined, Return
<1>3. ASSUME NEW t \in Threads, LookupStatic(t) PROVE Abstract!Next
  <2>1. <<str[t], PresetAtom[str[t]]>> \in InternedPairs
    BY <1>3 DEF LookupStatic, InternedPairs, PresetPairs, Preset
  <2> QED
    BY <1>3, <2>1, IssueStep DEF LookupStatic, Return
<1>4. ASSUME NEW t \in Threads, LookupHit(t) PROVE Abstract!Next
  <2>1. PICK a \in Spelt(tab[bgen[t]], str[t]) : Return(t, str[t], a)
    BY <1>4 DEF LookupHit
  <2>2. bgen[t] \in Gens /\ bgen[t] <= cur /\ a \in tab[bgen[t]] /\ AsStr(a) = str[t]
    BY <1>4 DEF IInv, TypeOK, ThreadTypeOK, EpochInv, Spelt, LookupHit
  <2>3. a \in tab[cur]
    BY <2>2 DEF IInv, NestedInv
  <2>4. <<str[t], a>> \in InternedPairs
    BY <2>2, <2>3 DEF InternedPairs
  <2> QED
    BY <1>4, <2>1, <2>4, IssueStep DEF LookupHit, Return
<1>5. ASSUME NEW t \in Threads, Unlock(t) PROVE Abstract!Next
  <2>1. off[t] \in tab[cur] /\ AsStr(off[t]) = str[t]
    BY <1>5 DEF IInv, WriterInv, Unlock, AsStr
  <2>2. <<str[t], off[t]>> \in InternedPairs
    BY <2>1 DEF InternedPairs
  <2> QED
    BY <1>5, <2>2, IssueStep DEF Unlock, Return
<1>6. ASSUME NEW t \in Threads, Publish(t) PROVE Abstract!Next
  <2>1. /\ bgen[t] = cur /\ cur \in Gens /\ str[t] \in Dynamic /\ off[t] \in Nat
        /\ off[t] \notin tab[cur] /\ data[cur][off[t]] = str[t]
        /\ \A a \in tab[cur] : data[cur][a] # str[t]
        /\ tsnap[t] = tab[cur]
    BY <1>6 DEF IInv, Publish, WriterInv, EpochInv, TypeOK, BlockTypeOK, Critical
  <2>2. tab'[cur] = tab[cur] \cup {off[t]} /\ UNCHANGED <<cur, data, issued>>
    BY <1>6, <2>1 DEF IInv, TypeOK, BlockTypeOK, Publish
  <2> DEFINE pair == <<str[t], off[t]>>
  <2>3. InternedPairs' = InternedPairs \cup {pair}
    BY <2>1, <2>2 DEF InternedPairs, AsStr
  <2>4. \A q \in InternedPairs : q[1] # str[t] /\ q[2] # off[t]
    <3>1. \A q \in PresetPairs : q[1] # str[t] /\ q[2] # off[t]
      BY <2>1, PresetAssumption DEF PresetPairs, Preset, Dynamic
    <3> QED
      BY <2>1, <3>1 DEF InternedPairs, AsStr
  <2>5. pair[1] \in Strings /\ pair[2] \in Int
    BY <2>1 DEF Dynamic
  <2>6. Abstract!InternedAs(str[t]) = {} /\ Abstract!NamedBy(off[t]) = {}
    BY <2>4 DEF Abstract!InternedAs, Abstract!NamedBy
  <2> QED
    BY <2>2, <2>3, <2>5, <2>6 DEF Abstract!Next, Abstract!Intern
<1>7. ASSUME NEW t \in Threads, Alloc(t) PROVE UNCHANGED <<InternedPairs, issued>>
  BY <1>7 DEF Alloc, InternedPairs, AsStr
<1>8. ASSUME NEW t \in Threads, Write(t) PROVE UNCHANGED <<InternedPairs, issued>>
  <2>1. /\ bgen[t] = cur /\ cur \in Gens /\ off[t] \notin tab[cur]
        /\ data' = [data EXCEPT ![cur][off[t]] = str[t]]
        /\ UNCHANGED <<cur, tab, issued>>
    BY <1>8 DEF IInv, Write, WriterInv, TypeOK, BlockTypeOK
  <2>2. \A a \in tab[cur] : a \in 0..cap[cur] - 1
    BY <2>1 DEF IInv, TableInv, TypeOK, BlockTypeOK
  <2>3. data[cur] \in [0..cap[cur] - 1 -> Strings \cup {NoStr}]
    BY <2>1 DEF IInv, TypeOK, BlockTypeOK
  <2>4. \A a \in tab[cur] : data'[cur][a] = data[cur][a]
    BY <2>1, <2>2, <2>3 DEF IInv, TypeOK, BlockTypeOK
  <2> QED
    BY <2>1, <2>4 DEF InternedPairs, AsStr
<1>9. ASSUME NEW t \in Threads, Grow(t) PROVE UNCHANGED <<InternedPairs, issued>>
  <2>a. cur \in Gens
    BY DEF IInv, TypeOK, BlockTypeOK
  <2>b. cur < MaxGen /\ cur' = cur + 1
    BY <1>9 DEF Grow
  <2>1. cur \in Gens /\ cur' \in Gens /\ cur' = cur + 1 /\ cur <= cur' /\ cur # cur'
    BY <2>a, <2>b, BoundsAssumption DEF Gens
  <2>2. /\ tab'[cur'] = tab[cur] /\ tab'[cur] = tab[cur]
        /\ data'[cur] = data[cur] /\ issued' = issued
    BY <1>9, <2>1 DEF IInv, Grow, WriterInv, TypeOK, BlockTypeOK
  <2>3. \A a \in tab[cur] : data'[cur'][a] = data[cur][a]
    BY <2>1, <2>2 DEF IInv, NestedInv
  <2> QED
    BY <2>2, <2>3 DEF InternedPairs, AsStr
<1>10. ASSUME NEW t \in Threads,
              \/ \E s \in Strings : ReadBlock(t, s)
              \/ ReadTable(t) \/ LookupMiss(t) \/ Lock(t)
              \/ CheckPassed(t) \/ CheckFailed(t) \/ EndDeref(t)
              \/ \E p \in issued : BeginDeref(t, p)
       PROVE  UNCHANGED <<InternedPairs, issued>>
  <2>1. UNCHANGED <<blockVars, issued>>
    BY <1>10 DEF ReadBlock, ReadTable, LookupMiss, Lock, CheckPassed,
                 CheckFailed, EndDeref, BeginDeref
  <2> QED
    BY <2>1, PairsStand
<1>11. CASE Next
  <2>1. PICK t \in Threads :
          \/ \E s \in Strings : BuildInlined(t, s) \/ ReadBlock(t, s)
          \/ Build(t)
          \/ \E p \in issued : BeginDeref(t, p)
          \/ EndDeref(t)
    BY <1>11 DEF Next
  <2> QED
    BY <2>1, <1>2, <1>3, <1>4, <1>5, <1>6, <1>7, <1>8, <1>9, <1>10 DEF Build
<1> QED
  BY <1>1, <1>11

(* The concurrent table implements Interning: the pairing of strings and    *)
(* atoms only ever grows, one to one, and callers are told only its pairs.  *)
THEOREM Refinement == Spec => InternsFaithfully
<1>1. Init => Abstract!Init
  BY BoundsAssumption DEF Init, Abstract!Init, InternedPairs, Gens
<1>2. IInv /\ IInv' /\ [Next]_vars => [Abstract!Next]_(Abstract!iVars)
  BY NextRefines
<1> QED
  BY <1>1, <1>2, Invariance, PTL DEF Spec, InternsFaithfully
==============================================================================
