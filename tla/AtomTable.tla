------------------------------ MODULE AtomTable ------------------------------
(***************************************************************************)
(* The global atom table (src/src/atom_table.rs), shared by every thread    *)
(* that owns a machine.  The table is an RCU cell `inner` holding a block   *)
(* of string data and, inside it, a second RCU cell `table` holding the set *)
(* of atoms.  Readers take no lock.  A writer takes the `update` mutex,     *)
(* checks that neither cell was replaced since it read them, appends the    *)
(* string to the block (replacing the block by one of twice the size when   *)
(* it is full) and replaces the set.                                        *)
(*                                                                          *)
(* Every replaced inner cell stays readable by whoever holds a reference to *)
(* it, so the model keeps all generations 1..cur.  Offsets count slots: a   *)
(* string occupies one slot whatever its length.                            *)
(***************************************************************************)
EXTENDS Integers, FiniteSets

CONSTANTS
  Threads,       \* threads that call AtomTable::build_with
  Strings,       \* the strings they ask for
  Inlined,       \* strings short enough to be stored inside the atom itself
  Static,        \* strings of STATIC_ATOMS_MAP
  PresetAtom,    \* the atom of each inlined or static string
  InitCap,       \* slots of the first block
  MaxGen,        \* bound: how many blocks may be allocated
  NoStr          \* contents of a slot that was never written

ASSUME StringsAssumption ==
  /\ Inlined \subseteq Strings
  /\ Static \subseteq Strings
  /\ NoStr \notin Strings

ASSUME PresetAssumption ==
  /\ PresetAtom \in [Inlined \cup Static -> Int \ Nat]
  /\ \A s, r \in Inlined \cup Static : PresetAtom[s] = PresetAtom[r] => s = r

ASSUME BoundsAssumption ==
  /\ InitCap \in Nat \ {0}
  /\ MaxGen \in Nat \ {0}

VARIABLES
  cur,      \* the generation `inner` currently points to
  cap,      \* cap[g]: slots of block g
  ptr,      \* ptr[g]: the first free slot of block g
  data,     \* data[g]: contents of the slots of block g
  tab,      \* tab[g]: the atoms in the current table of generation g
  ver,      \* ver[g]: how often that table was replaced
  holder,   \* the threads holding the `update` mutex
  pc, str,  \* per thread: control point; the string asked for
  bgen,     \* per thread: generation of block_epoch
  tver,     \* per thread: version of table_epoch
  tsnap,    \* per thread: contents of table_epoch
  off,      \* per thread: the slot allocated, or the atom being read
  issued    \* history: the <<string, atom>> pairs returned by build_with

blockVars == <<cur, cap, ptr, data, tab, ver>>
localVars == <<str, bgen, tver, tsnap, off>>
vars == <<blockVars, holder, pc, localVars, issued>>

Gens == 1..MaxGen
Preset == Inlined \cup Static
Dynamic == Strings \ Preset

Critical == {"check", "alloc", "write", "publish", "unlock"}
PCs == {"idle", "read_table", "lookup", "lock", "deref"} \cup Critical

-----------------------------------------------------------------------------
(* RawBlock::alloc finds room for one more string in block g. *)
HasRoom(g) == ptr[g] < cap[g]

(* The string of atom a, read through the newest block (Atom::as_ptr). *)
AsStr(a) == data[cur][a]

(* IndexSet::get on table set T: the atoms spelt s, compared by AsStr. *)
Spelt(T, s) == {a \in T : AsStr(a) = s}

Goto(t, l) == pc' = [pc EXCEPT ![t] = l]

(* The locals of thread t go out of scope. *)
Finish(t) ==
  /\ Goto(t, "idle")
  /\ str' = [str EXCEPT ![t] = NoStr]
  /\ bgen' = [bgen EXCEPT ![t] = 1]
  /\ tver' = [tver EXCEPT ![t] = 0]
  /\ tsnap' = [tsnap EXCEPT ![t] = {}]
  /\ off' = [off EXCEPT ![t] = 0]

(* build_with returns atom a for string s. *)
Return(t, s, a) ==
  /\ issued' = issued \cup {<<s, a>>}
  /\ Finish(t)

Init ==
  /\ cur = 1
  /\ cap = [g \in Gens |-> IF g = 1 THEN InitCap ELSE 0]
  /\ ptr = [g \in Gens |-> 0]
  /\ data = [g \in Gens |->
               [i \in 0..(IF g = 1 THEN InitCap ELSE 0) - 1 |-> NoStr]]
  /\ tab = [g \in Gens |-> {}]
  /\ ver = [g \in Gens |-> 0]
  /\ holder = {}
  /\ pc = [t \in Threads |-> "idle"]
  /\ str = [t \in Threads |-> NoStr]
  /\ bgen = [t \in Threads |-> 1]
  /\ tver = [t \in Threads |-> 0]
  /\ tsnap = [t \in Threads |-> {}]
  /\ off = [t \in Threads |-> 0]
  /\ issued = {}

-----------------------------------------------------------------------------
(* build_with on a string that fits in the atom itself: no table at all. *)
BuildInlined(t, s) ==
  /\ pc[t] = "idle"
  /\ s \in Inlined
  /\ Return(t, s, PresetAtom[s])
  /\ UNCHANGED <<blockVars, holder>>

(* block_epoch = inner.read(): the top of build_with's loop. *)
ReadBlock(t, s) ==
  /\ pc[t] = "idle"
  /\ s \in Strings \ Inlined
  /\ str' = [str EXCEPT ![t] = s]
  /\ bgen' = [bgen EXCEPT ![t] = cur]
  /\ Goto(t, "read_table")
  /\ UNCHANGED <<blockVars, holder, tver, tsnap, off, issued>>

(* table_epoch = block_epoch.table.read() *)
ReadTable(t) ==
  /\ pc[t] = "read_table"
  /\ tver' = [tver EXCEPT ![t] = ver[bgen[t]]]
  /\ tsnap' = [tsnap EXCEPT ![t] = tab[bgen[t]]]
  /\ Goto(t, "lookup")
  /\ UNCHANGED <<blockVars, holder, str, bgen, off, issued>>

(* lookup_str: the static map first, then the table block_epoch holds now. *)
LookupStatic(t) ==
  /\ pc[t] = "lookup"
  /\ str[t] \in Static
  /\ Return(t, str[t], PresetAtom[str[t]])
  /\ UNCHANGED <<blockVars, holder>>

LookupHit(t) ==
  /\ pc[t] = "lookup"
  /\ str[t] \notin Static
  /\ \E a \in Spelt(tab[bgen[t]], str[t]) : Return(t, str[t], a)
  /\ UNCHANGED <<blockVars, holder>>

LookupMiss(t) ==
  /\ pc[t] = "lookup"
  /\ str[t] \notin Static
  /\ Spelt(tab[bgen[t]], str[t]) = {}
  /\ Goto(t, "lock")
  /\ UNCHANGED <<blockVars, holder, localVars, issued>>

(* update.lock() *)
Lock(t) ==
  /\ pc[t] = "lock"
  /\ holder = {}
  /\ holder' = {t}
  /\ Goto(t, "check")
  /\ UNCHANGED <<blockVars, localVars, issued>>

(* Mutant: only the block is compared, not the table. *)
SameBlockOnly(t) == bgen[t] = cur

(* RcuRef::same_epoch on both cells: nothing was replaced since the reads. *)
SameEpoch(t) == bgen[t] = cur /\ tver[t] = ver[bgen[t]]

CheckPassed(t) ==
  /\ pc[t] = "check"
  /\ SameEpoch(t)
  /\ Goto(t, "alloc")
  /\ UNCHANGED <<blockVars, holder, localVars, issued>>

(* Mutant: the retry keeps the guard. *)
CheckFailedKeepsGuard(t) ==
  /\ pc[t] = "check"
  /\ ~SameEpoch(t)
  /\ bgen' = [bgen EXCEPT ![t] = cur]
  /\ Goto(t, "read_table")
  /\ UNCHANGED <<blockVars, holder, str, tver, tsnap, off, issued>>

(* `continue` drops the guard and goes round the loop: block_epoch again. *)
CheckFailed(t) ==
  /\ pc[t] = "check"
  /\ ~SameEpoch(t)
  /\ holder' = {}
  /\ bgen' = [bgen EXCEPT ![t] = cur]
  /\ Goto(t, "read_table")
  /\ UNCHANGED <<blockVars, str, tver, tsnap, off, issued>>

Alloc(t) ==
  /\ pc[t] = "alloc"
  /\ HasRoom(bgen[t])
  /\ off' = [off EXCEPT ![t] = ptr[bgen[t]]]
  /\ ptr' = [ptr EXCEPT ![bgen[t]] = @ + 1]
  /\ Goto(t, "write")
  /\ UNCHANGED <<cur, cap, data, tab, ver, holder, str, bgen, tver, tsnap, issued>>

(* Mutant: the new block does not receive the old block's contents. *)
GrowNewNoCopy(g, i) == NoStr

(* RawBlock::grow_new: twice the slots, the allocated ones copied. *)
GrowNew(g, i) == IF i < ptr[g] THEN data[g][i] ELSE NoStr

(* The block is full: replace `inner`, carrying table_epoch's set over, and *)
(* read both epochs again.                                                  *)
Grow(t) ==
  LET g == bgen[t] IN
  /\ pc[t] = "alloc"
  /\ ~HasRoom(g)
  /\ cur < MaxGen
  /\ cur' = cur + 1
  /\ cap' = [cap EXCEPT ![cur + 1] = 2 * cap[g]]
  /\ ptr' = [ptr EXCEPT ![cur + 1] = ptr[g]]
  /\ data' = [data EXCEPT ![cur + 1] = [i \in 0..2 * cap[g] - 1 |-> GrowNew(g, i)]]
  /\ tab' = [tab EXCEPT ![cur + 1] = tsnap[t]]
  /\ ver' = [ver EXCEPT ![cur + 1] = 0]
  /\ bgen' = [bgen EXCEPT ![t] = cur + 1]
  /\ tver' = [tver EXCEPT ![t] = 0]
  /\ UNCHANGED <<holder, pc, str, tsnap, off, issued>>

(* write_to_ptr *)
Write(t) ==
  /\ pc[t] = "write"
  /\ data' = [data EXCEPT ![bgen[t]][off[t]] = str[t]]
  /\ Goto(t, "publish")
  /\ UNCHANGED <<cur, cap, ptr, tab, ver, holder, localVars, issued>>

(* Mutant: the new set is not a clone of the old one. *)
PublishOnlyNew(t) ==
  /\ pc[t] = "publish"
  /\ tab' = [tab EXCEPT ![bgen[t]] = {off[t]}]
  /\ ver' = [ver EXCEPT ![bgen[t]] = @ + 1]
  /\ Goto(t, "unlock")
  /\ UNCHANGED <<cur, cap, ptr, data, holder, localVars, issued>>

(* table_epoch.clone(), insert, block_epoch.table.replace *)
Publish(t) ==
  /\ pc[t] = "publish"
  /\ tab' = [tab EXCEPT ![bgen[t]] = tsnap[t] \cup {off[t]}]
  /\ ver' = [ver EXCEPT ![bgen[t]] = @ + 1]
  /\ Goto(t, "unlock")
  /\ UNCHANGED <<cur, cap, ptr, data, holder, localVars, issued>>

(* drop(update_guard); return atom *)
Unlock(t) ==
  /\ pc[t] = "unlock"
  /\ holder' = {}
  /\ Return(t, str[t], off[t])
  /\ UNCHANGED blockVars

(* Atom::as_ptr on an atom some thread was given: take a reference to the  *)
(* newest inner cell, then read the string through it.                      *)
BeginDeref(t, pair) ==
  /\ pc[t] = "idle"
  /\ pair \in issued
  /\ pair[1] \in Dynamic
  /\ str' = [str EXCEPT ![t] = pair[1]]
  /\ off' = [off EXCEPT ![t] = pair[2]]
  /\ bgen' = [bgen EXCEPT ![t] = cur]
  /\ Goto(t, "deref")
  /\ UNCHANGED <<blockVars, holder, tver, tsnap, issued>>

EndDeref(t) ==
  /\ pc[t] = "deref"
  /\ Finish(t)
  /\ UNCHANGED <<blockVars, holder, issued>>

Build(t) ==
  \/ ReadTable(t) \/ LookupStatic(t) \/ LookupHit(t) \/ LookupMiss(t)
  \/ Lock(t) \/ CheckPassed(t) \/ CheckFailed(t)
  \/ Alloc(t) \/ Grow(t) \/ Write(t) \/ Publish(t) \/ Unlock(t)

Next ==
  \E t \in Threads :
    \/ \E s \in Strings : BuildInlined(t, s) \/ ReadBlock(t, s)
    \/ Build(t)
    \/ \E pair \in issued : BeginDeref(t, pair)
    \/ EndDeref(t)

Spec == Init /\ [][Next]_vars

(* The operating system keeps running a thread that can run.  Nothing more *)
(* is assumed of the mutex: which waiter gets it next is arbitrary.         *)
FairSpec == Spec /\ \A t \in Threads : WF_vars(Build(t) \/ EndDeref(t))

-----------------------------------------------------------------------------
BlockTypeOK ==
  /\ cur \in Gens
  /\ cap \in [Gens -> Nat]
  /\ ptr \in [Gens -> Nat]
  /\ \A g \in Gens : ptr[g] <= cap[g]
  /\ data = [g \in Gens |-> data[g]]
  /\ \A g \in Gens : data[g] \in [0..cap[g] - 1 -> Strings \cup {NoStr}]
  /\ tab \in [Gens -> SUBSET Nat]
  /\ ver \in [Gens -> Nat]

ThreadTypeOK ==
  /\ pc \in [Threads -> PCs]
  /\ str \in [Threads -> Strings \cup {NoStr}]
  /\ bgen \in [Threads -> Gens]
  /\ tver \in [Threads -> Nat]
  /\ tsnap \in [Threads -> SUBSET Nat]
  /\ off \in [Threads -> Int]

(* Every variable has its type, and no block is filled past its end. *)
TypeOK ==
  /\ BlockTypeOK
  /\ ThreadTypeOK
  /\ holder \in SUBSET Threads
  /\ issued \subseteq Strings \X Int

(* build_with never hands out two atoms for one string, nor one atom for two *)
(* strings: atoms are compared by index everywhere in the machine, so a      *)
(* duplicate would make equal atoms fail to unify.                           *)
UniqueIssued ==
  \A p, q \in issued : (p[1] = q[1]) <=> (p[2] = q[2])

(* A thread that reads the string of an atom through the inner cell it holds *)
(* (Atom::as_ptr) finds that atom's own string there, written in full, even  *)
(* when the block was replaced after the atom was made or is replaced while  *)
(* the thread reads.                                                         *)
DerefSound ==
  \A t \in Threads :
    pc[t] = "deref" => /\ off[t] \in DOMAIN data[bgen[t]]
                       /\ data[bgen[t]][off[t]] = str[t]

(* What the current table says, as the abstract specification sees it. *)
PresetPairs == {<<s, PresetAtom[s]>> : s \in Preset}
InternedPairs == PresetPairs \cup {<<AsStr(a), a>> : a \in tab[cur]}

Abstract == INSTANCE Interning WITH
              Atoms <- Int, Builtin <- PresetPairs,
              interned <- InternedPairs

(* AtomTable::build_with implements interning: strings and atoms stay paired *)
(* one to one for ever, across every replacement of the block or the table,  *)
(* and only pairs of the current table are handed out.                       *)
InternsFaithfully == Abstract!Init /\ [][Abstract!Next]_(Abstract!iVars)

(* Every call of build_with returns: the retry loop taken when another       *)
(* thread won the race cannot go round for ever, and the mutex is never kept.*)
BuildReturns == \A t \in Threads : pc[t] # "idle" ~> pc[t] = "idle"
==============================================================================
