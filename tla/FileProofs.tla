---------------------------- MODULE FileProofs ----------------------------
(***************************************************************************)
(* Proofs about the files and the editor of files.                         *)
(*                                                                         *)
(* About Persist, for any paths, contents, modes, number of consoles and   *)
(* number of failures: its type invariant, that the snapshot never says of *)
(* a path that it is stored in a version that is not, that a sync leaves   *)
(* the store with all there is, and that it puts before it deletes.        *)
(*                                                                         *)
(* About Sed, for any scripts, files and failing writes: the types of a    *)
(* run, that queued texts go out before the next line is read, that no     *)
(* line is joined to the one before it, what editing in place leaves, and  *)
(* that a command with a range applies to the lines of its ranges.         *)
(***************************************************************************)
EXTENDS Persist, Sed, FiniteSetTheorems, TLAPS

\* Folds over texts, texts written, commands and blocks.
W == INSTANCE FoldTheorems WITH Step <- write
R == INSTANCE FoldTheorems WITH Step <- partRead
E == INSTANCE FoldTheorems WITH Step <- emit
C == INSTANCE FoldTheorems WITH Step <- charRead
O == INSTANCE FoldTheorems WITH Step <- opened

\* The operations on the filesystem, and what they all leave alone.
FsNext ==
    \E p \in Paths :
        \/ \E d \in Data : WriteFile(p, d)
        \/ \E m \in Modes : Chmod(p, m)
        \/ \E q \in Paths : Rename(p, q)
        \/ Mkdir(p)
        \/ RemoveFile(p)

-----------------------------------------------------------------------------
(***************************************************************************)
(* Type correctness.                                                       *)
(***************************************************************************)

\* An entry has a signature, which is not None.
LEMMA SigType ==
    ASSUME NEW e \in Entry
    PROVE  sig(e) \in Sig /\ sig(e) # None /\ e # None
<1>1. Size[e.data] \in Nat /\ (e.data = Dir) \in BOOLEAN /\ e.mtime \in Nat
    BY PersistAssumption DEF Entry
<1>2. sig(e) \in Sig
    BY <1>1 DEF sig, Sig
<1> QED
    BY <1>2, PersistAssumption

\* A new filesystem, and one restored from a store, have entries.
LEMMA LoadType ==
    ASSUME NEW store \in [Paths -> Entry \cup {None}], NEW now \in Nat
    PROVE  /\ Seeded(now) \in [Paths -> Entry \cup {None}]
           /\ loadAll(store, now) \in [Paths -> Entry \cup {None}]
<1>1. Seeded(now) \in [Paths -> Entry \cup {None}]
    BY PersistAssumption DEF Seeded, Entry
<1>2. ASSUME NEW p \in Paths, store[p] # None
      PROVE  [store[p] EXCEPT !.mtime = IF store[p].data = Dir THEN now ELSE @] \in Entry
    <2>1. store[p] \in Entry
        BY <1>2
    <2> QED
        BY <2>1 DEF Entry
<1>3. [p \in Paths |->
          IF store[p] = None THEN None
          ELSE [store[p] EXCEPT !.mtime = IF store[p].data = Dir THEN now ELSE @]]
      \in [Paths -> Entry \cup {None}]
    BY <1>2
<1> QED
    BY <1>1, <1>3 DEF loadAll

\* The initial state has the types.
LEMMA InitType == Init => TypeOK
<1> SUFFICES ASSUME Init PROVE TypeOK
    OBVIOUS
<1>1. vfs \in [Paths -> Entry \cup {None}]
    BY PersistAssumption DEF Init, Seeded, Entry
<1>2. want \in 0..Consoles /\ Busy <= Consoles
    BY PersistAssumption DEF Init, Busy
<1>3. /\ idb \in [Paths -> Entry \cup {None}]
      /\ sigs \in [Paths -> Sig \cup {None}] /\ next \in [Paths -> Sig \cup {None}]
    BY DEF Init, NoSigs
<1>4. todo \in SUBSET Paths /\ {persisted, up, clean, based, wiped} \subseteq BOOLEAN
    BY DEF Init, Present
<1>5. /\ ops \in 0..MaxOps /\ fails \in 0..MaxFail
      /\ boots \in 0..MaxBoots /\ resets \in 0..MaxResets
    BY PersistAssumption DEF Init
<1> QED
    BY <1>1, <1>2, <1>3, <1>4, <1>5 DEF Init, TypeOK

\* An operation on the filesystem keeps the types.
LEMMA FsType == TypeOK /\ FsNext => TypeOK'
<1> SUFFICES ASSUME TypeOK, FsNext PROVE TypeOK'
    OBVIOUS
<1>1. FsOp
    BY DEF FsNext, WriteFile, Chmod, Rename, Mkdir, RemoveFile
<1>2. clock' \in Nat
    BY <1>1 DEF FsOp, Tick, TypeOK
<1>3. vfs' \in [Paths -> Entry \cup {None}]
    <2>1. PICK p \in Paths :
             \/ \E d \in Data : WriteFile(p, d)
             \/ \E m \in Modes : Chmod(p, m)
             \/ \E q \in Paths : Rename(p, q)
             \/ Mkdir(p)
             \/ RemoveFile(p)
        BY DEF FsNext
    <2>0. vfs \in [Paths -> Entry \cup {None}]
        BY DEF TypeOK
    <2>2. ASSUME NEW d \in Data, WriteFile(p, d) PROVE vfs' \in [Paths -> Entry \cup {None}]
        <3>1. (IF vfs[p] = None THEN DefaultMode ELSE vfs[p].mode) \in Modes
            BY <2>0, PersistAssumption DEF Entry
        <3> QED
            BY <2>0, <2>2, <3>1, <1>2 DEF WriteFile, Entry, Contents
    <2>3. ASSUME NEW m \in Modes, Chmod(p, m) PROVE vfs' \in [Paths -> Entry \cup {None}]
        <3>1. vfs[p] \in Entry
            BY <2>0, <2>3 DEF Chmod
        <3>2. [vfs[p] EXCEPT !.mode = m] \in Entry
            BY <3>1 DEF Entry
        <3>3. vfs' = [vfs EXCEPT ![p] = [vfs[p] EXCEPT !.mode = m]]
            BY <2>0, <2>3 DEF Chmod
        <3> QED
            BY <2>0, <3>2, <3>3
    <2>4. ASSUME NEW q \in Paths, Rename(p, q) PROVE vfs' \in [Paths -> Entry \cup {None}]
        BY <2>0, <2>4 DEF Rename
    <2>5. ASSUME Mkdir(p) PROVE vfs' \in [Paths -> Entry \cup {None}]
        <3>1. [data |-> Dir, mtime |-> clock', mode |-> DefaultMode] \in Entry
            BY <1>2, PersistAssumption DEF Entry, Contents
        <3> QED
            BY <2>0, <2>5, <3>1 DEF Mkdir
    <2>6. ASSUME RemoveFile(p) PROVE vfs' \in [Paths -> Entry \cup {None}]
        BY <2>0, <2>6 DEF RemoveFile
    <2> QED
        BY <2>1, <2>2, <2>3, <2>4, <2>5, <2>6
<1>4. want' \in 0..Consoles /\ Busy' <= Consoles
    BY <1>1 DEF FsOp, syncvars, TypeOK, Busy
<1>5. ops' \in 0..MaxOps
    BY <1>1, PersistAssumption DEF FsOp, TypeOK
<1>6. clean' \in BOOLEAN
    BY <1>1 DEF FsOp
<1> QED
    BY <1>1, <1>2, <1>3, <1>4, <1>5, <1>6 DEF FsOp, TypeOK, syncvars, hist

\* What a request does to its variables.
LEMMA RequestType ==
    ASSUME TypeOK, NEW p \in Paths, NEW rec \in Entry \cup {None}, Request(p, rec)
    PROVE  /\ req' \in Asked /\ req'.path = p
           /\ fails' \in 0..MaxFail
           /\ clean' \in BOOLEAN
           /\ idb' \in [Paths -> Entry \cup {None}]
           /\ req'.ok => idb' = [idb EXCEPT ![p] = rec]
           /\ ~req'.ok => idb' = idb /\ req' = [path |-> p, ok |-> FALSE]
<1>1. PICK ok \in BOOLEAN :
        /\ req' = [path |-> p, ok |-> ok]
        /\ ok \/ fails < MaxFail
        /\ fails' = IF ok THEN fails ELSE fails + 1
        /\ clean' = (clean /\ ok)
        /\ idb' = IF ok THEN [idb EXCEPT ![p] = rec] ELSE idb
    BY DEF Request
<1>2. fails' \in 0..MaxFail
    BY <1>1, PersistAssumption DEF TypeOK
<1>3. clean' \in BOOLEAN
    BY <1>1
<1>4. req' \in Asked /\ req'.path = p /\ req'.ok = ok
    BY <1>1 DEF Asked
<1> QED
    BY <1>1, <1>2, <1>3, <1>4 DEF TypeOK

\* A visit of the walk keeps the types.
LEMMA VisitType ==
    ASSUME TypeOK, NEW p \in Paths, Visit(p)
    PROVE  TypeOK'
<1>1. vfs \in [Paths -> Entry \cup {None}] /\ next \in [Paths -> Sig \cup {None}]
    BY DEF TypeOK
<1>2. next' \in [Paths -> Sig \cup {None}]
    BY <1>1, SigType DEF Visit
<1>3. /\ idb' \in [Paths -> Entry \cup {None}]
      /\ req' \in Asked \cup {None}
      /\ fails' \in 0..MaxFail
      /\ clean' \in BOOLEAN
    <2>1. CASE vfs[p] # None /\ sigs[p] # sig(vfs[p])
        BY <2>1, <1>1, RequestType DEF Visit
    <2>2. CASE ~(vfs[p] # None /\ sigs[p] # sig(vfs[p]))
        BY <2>2 DEF Visit, TypeOK
    <2> QED
        BY <2>1, <2>2
<1>4. Busy' = Busy /\ phase' = "walk"
    BY DEF Visit, Busy, Working
<1> QED
    BY <1>2, <1>3, <1>4 DEF Visit, TypeOK, hist

\* A deletion keeps the types.
LEMMA DeleteType ==
    ASSUME TypeOK, NEW p \in Paths, Delete(p)
    PROVE  TypeOK'
<1>1. /\ idb' \in [Paths -> Entry \cup {None}]
      /\ req' \in Asked
      /\ fails' \in 0..MaxFail
      /\ clean' \in BOOLEAN
    BY RequestType DEF Delete
<1>2. Busy' = Busy /\ phase' = "delete"
    BY DEF Delete, Busy, Working
<1> QED
    BY <1>1, <1>2 DEF Delete, TypeOK, hist

\* The other steps of a sync keep the types.
LEMMA SyncType ==
    ASSUME TypeOK,
           StartSync \/ PutAnswered \/ DeleteAnswered \/ WalkDone \/ SyncDone
    PROVE  TypeOK'
<1>1. CASE StartSync
    <2>1. want' \in 0..Consoles /\ Busy' <= Consoles
        BY <1>1, PersistAssumption DEF StartSync, Walk, TypeOK, Busy
    <2> QED
        BY <1>1, <2>1 DEF StartSync, Walk, TypeOK, counts, hist, NoSigs, Present
<1>2. CASE PutAnswered
    <2>1. Busy' = Busy
        BY <1>2 DEF PutAnswered, Busy
    <2> QED
        BY <1>2, <2>1 DEF PutAnswered, TypeOK, counts, hist
<1>3. CASE DeleteAnswered
    <2>1. Busy' = Busy
        BY <1>3 DEF DeleteAnswered, Busy
    <2>2. next' \in [Paths -> Sig \cup {None}]
        BY <1>3 DEF DeleteAnswered, TypeOK
    <2> QED
        BY <1>3, <2>1, <2>2 DEF DeleteAnswered, TypeOK, counts, hist
<1>4. CASE WalkDone
    <2>1. Busy' = Busy
        BY <1>4 DEF WalkDone, Busy, Working
    <2> QED
        BY <1>4, <2>1 DEF WalkDone, TypeOK, counts, hist, Working
<1>5. CASE SyncDone
    <2>1. want' \in 0..Consoles /\ Busy' <= Consoles
        BY <1>5, PersistAssumption DEF SyncDone, Working, TypeOK, Busy
    <2>2. based' \in BOOLEAN
        BY <1>5 DEF SyncDone, TypeOK
    <2> QED
        BY <1>5, <2>1, <2>2 DEF SyncDone, TypeOK, counts, Working
<1> QED
    BY <1>1, <1>2, <1>3, <1>4, <1>5

\* Loading the page keeps the types.
LEMMA ReloadType == TypeOK /\ Reload => TypeOK'
<1> SUFFICES ASSUME TypeOK, Reload PROVE TypeOK'
    OBVIOUS
<1>1. clock' \in Nat /\ boots' \in 0..MaxBoots
    BY PersistAssumption DEF Reload, TypeOK
<1>2. /\ Seeded(clock') \in [Paths -> Entry \cup {None}]
      /\ loadAll(idb, clock') \in [Paths -> Entry \cup {None}]
    BY <1>1, LoadType DEF TypeOK
<1>3. vfs' \in [Paths -> Entry \cup {None}]
    BY <1>2 DEF Reload, Boot
<1>4. /\ sigs' \in [Paths -> Sig \cup {None}] /\ next' \in [Paths -> Sig \cup {None}]
      /\ phase' \in {"walk", "idle"} /\ todo' \in SUBSET Paths /\ req' = None
    BY DEF Reload, Boot, Walk, NoSigs, Present
<1>5. {persisted', up', clean'} \subseteq BOOLEAN
    BY DEF Reload, Boot, Walk
<1>6. fails' \in 0..MaxFail
    BY PersistAssumption DEF Reload, Boot, TypeOK
<1>7. want' \in 0..Consoles /\ Busy' <= Consoles
    BY PersistAssumption DEF Reload, Busy
<1> QED
    BY <1>1, <1>3, <1>4, <1>5, <1>6, <1>7 DEF Reload, TypeOK

\* Every step keeps the types.
LEMMA NextType == TypeOK /\ [Next]_vars => TypeOK'
<1> SUFFICES ASSUME TypeOK, [Next]_vars PROVE TypeOK'
    OBVIOUS
<1>1. CASE FsNext
    BY <1>1, FsType
<1>2. CASE ResetFs
    <2>1. idb' \in [Paths -> Entry \cup {None}] /\ resets' \in 0..MaxResets
        BY <1>2, PersistAssumption DEF ResetFs, NoSigs, TypeOK
    <2>2. Busy' = Busy
        BY <1>2 DEF ResetFs, syncvars, Busy
    <2> QED
        BY <1>2, <2>1, <2>2 DEF ResetFs, TypeOK, syncvars
<1>3. CASE CommandEnds
    <2>1. want' \in 0..Consoles /\ Busy' <= Consoles
        BY <1>3, PersistAssumption DEF CommandEnds, TypeOK, Busy
    <2> QED
        BY <1>3, <2>1 DEF CommandEnds, TypeOK, counts, hist
<1>4. CASE \E p \in Paths : Visit(p) \/ Delete(p)
    BY <1>4, VisitType, DeleteType
<1>5. CASE StartSync \/ PutAnswered \/ DeleteAnswered \/ WalkDone \/ SyncDone
    BY <1>5, SyncType
<1>6. CASE Reload
    BY <1>6, ReloadType
<1>7. CASE UNCHANGED vars
    BY <1>7 DEF vars, TypeOK, Busy, syncvars, counts, hist
<1> QED
    BY <1>1, <1>2, <1>3, <1>4, <1>5, <1>6, <1>7 DEF Next, FsNext, SyncStep

\* In every reachable state the filesystem, the store and both snapshots have
\* entries and signatures, and no more consoles sync or wait to than there are.
THEOREM TypeCorrect == Spec => []TypeOK
<1>1. Init => TypeOK
    BY InitType
<1>2. TypeOK /\ [Next]_vars => TypeOK'
    BY NextType
<1> QED
    BY <1>1, <1>2, PTL DEF Spec

-----------------------------------------------------------------------------
(***************************************************************************)
(* The snapshot is truthful.  SnapshotTruthful speaks of a time at which   *)
(* no sync is at work.  In between, a path is where the old snapshot says  *)
(* until the walk has dealt with it, and then where the new one says.      *)
(***************************************************************************)

\* The request that is waited for is one for p that failed.
Failed(p) == req = [path |-> p, ok |-> FALSE]

OldTrue(p) == sigs[p] # None => Stored(p, sigs[p])
NewTrue(p) == next[p] # None => Stored(p, next[p])

\* What holds of a path in each phase of syncFS.
PathInv(p) ==
    /\ phase = "idle" => OldTrue(p)
    /\ phase = "walk" =>
          /\ next[p] = None \/ Failed(p) => OldTrue(p)
          /\ ~Failed(p) => NewTrue(p)
          /\ p \in todo => next[p] = None /\ ~Failed(p)
    /\ phase = "delete" =>
          /\ NewTrue(p)
          /\ p \in todo \/ Failed(p) =>
                next[p] = None /\ sigs[p] # None /\ Stored(p, sigs[p])
          /\ p \in todo => ~Failed(p)

SnapInv == TypeOK /\ (~wiped => \A p \in Paths : PathInv(p))

\* None is no request that failed.
LEMMA FailedIsSome ==
    ASSUME NEW p \in Paths
    PROVE  [path |-> p, ok |-> FALSE] # None
<1>1. [path |-> p, ok |-> FALSE] \in Asked
    BY DEF Asked
<1>2. None \notin Asked
    BY PersistAssumption
<1> QED
    BY <1>1, <1>2

\* A step that leaves the store, the snapshots and the sync alone.
LEMMA Untouched ==
    ASSUME SnapInv, TypeOK', UNCHANGED <<idb, syncvars, wiped>>
    PROVE  SnapInv'
BY DEF SnapInv, PathInv, OldTrue, NewTrue, Failed, Stored, syncvars

\* A visit of the walk, to the path visited and to any other.
LEMMA VisitSnap ==
    ASSUME SnapInv, TypeOK', NEW p \in Paths, Visit(p)
    PROVE  SnapInv'
<1> SUFFICES ASSUME ~wiped, NEW q \in Paths PROVE PathInv(q)'
    BY DEF SnapInv, Visit, hist
<1>0. /\ TypeOK /\ PathInv(p) /\ PathInv(q)
      /\ phase = "walk" /\ phase' = "walk" /\ req = None
      /\ p \in todo /\ todo' = todo \ {p} /\ sigs' = sigs
      /\ next \in [Paths -> Sig \cup {None}]
      /\ idb \in [Paths -> Entry \cup {None}]
      /\ vfs[p] \in Entry \cup {None}
    BY DEF SnapInv, Visit, Working, TypeOK
<1>1. ~Failed(p) /\ next[p] = None /\ OldTrue(p)
    BY <1>0 DEF PathInv
<1>2. CASE vfs[p] = None
    <2>1. UNCHANGED <<next, req, idb>>
        BY <1>2 DEF Visit
    <2> QED
        BY <1>0, <2>1 DEF PathInv, OldTrue, NewTrue, Failed, Stored
<1>3. CASE vfs[p] # None
    <2>0. vfs[p] \in Entry /\ sig(vfs[p]) # None
        BY <1>0, <1>3, SigType
    <2>1. next' = [next EXCEPT ![p] = sig(vfs[p])]
        BY <1>3 DEF Visit
    <2>2. CASE sigs[p] = sig(vfs[p])
        <3>1. UNCHANGED <<req, idb>>
            BY <1>3, <2>2 DEF Visit
        <3>2. CASE q = p
            <4>1. Stored(p, sigs[p])
                BY <1>1, <2>0, <2>2 DEF OldTrue
            <4> QED
                BY <1>0, <1>1, <2>0, <2>1, <2>2, <3>1, <3>2, <4>1
                DEF PathInv, OldTrue, NewTrue, Failed, Stored
        <3>3. CASE q # p
            BY <1>0, <2>1, <3>1, <3>3 DEF PathInv, OldTrue, NewTrue, Failed, Stored
        <3> QED
            BY <3>2, <3>3
    <2>3. CASE sigs[p] # sig(vfs[p])
        <3>1. Request(p, vfs[p])
            BY <1>3, <2>3 DEF Visit
        <3>2. /\ req'.path = p
              /\ req'.ok => idb' = [idb EXCEPT ![p] = vfs[p]]
              /\ ~req'.ok => idb' = idb /\ req' = [path |-> p, ok |-> FALSE]
            BY <1>0, <2>0, <3>1, RequestType
        <3>3. CASE q = p
            <4>1. CASE req'.ok
                <5>1. Stored(p, next[p])'
                    BY <1>0, <2>0, <2>1, <3>2, <4>1, SigType DEF Stored
                <5>2. ~Failed(p)' /\ next'[p] # None
                    BY <1>0, <2>0, <2>1, <4>1 DEF Failed
                <5> QED
                    BY <1>0, <3>3, <5>1, <5>2 DEF PathInv, NewTrue
            <4>2. CASE ~req'.ok
                <5>1. Failed(p)' /\ OldTrue(p)'
                    BY <1>0, <1>1, <3>2, <4>2 DEF Failed, OldTrue, Stored
                <5> QED
                    BY <1>0, <3>3, <5>1 DEF PathInv
            <4> QED
                BY <4>1, <4>2
        <3>4. CASE q # p
            <4>1. ~Failed(q)' /\ ~Failed(q) /\ idb'[q] = idb[q] /\ next'[q] = next[q]
                <5>1. req' # [path |-> q, ok |-> FALSE]
                    BY <3>2, <3>4
                <5>2. [path |-> q, ok |-> FALSE] # None
                    BY FailedIsSome
                <5> QED
                    BY <1>0, <2>1, <3>2, <3>4, <5>1, <5>2 DEF Failed
            <4> QED
                BY <1>0, <3>4, <4>1 DEF PathInv, OldTrue, NewTrue, Stored
        <3> QED
            BY <3>3, <3>4
    <2> QED
        BY <2>2, <2>3
<1> QED
    BY <1>2, <1>3

\* A path is deleted from the store.
LEMMA DeleteSnap ==
    ASSUME SnapInv, TypeOK', NEW p \in Paths, Delete(p)
    PROVE  SnapInv'
<1> SUFFICES ASSUME ~wiped, NEW q \in Paths PROVE PathInv(q)'
    BY DEF SnapInv, Delete, hist
<1>0. /\ TypeOK /\ PathInv(p) /\ PathInv(q)
      /\ phase = "delete" /\ phase' = "delete" /\ req = None
      /\ p \in todo /\ todo' = todo \ {p} /\ sigs' = sigs /\ next' = next
      /\ idb \in [Paths -> Entry \cup {None}]
    BY DEF SnapInv, Delete, Working, TypeOK
<1>1. /\ req'.path = p
      /\ req'.ok => idb' = [idb EXCEPT ![p] = None]
      /\ ~req'.ok => idb' = idb /\ req' = [path |-> p, ok |-> FALSE]
    BY <1>0, RequestType DEF Delete
<1>2. next[p] = None /\ sigs[p] # None /\ Stored(p, sigs[p])
    BY <1>0 DEF PathInv
<1>3. CASE q = p
    <2>1. CASE req'.ok
        <3>1. ~Failed(p)' /\ p \notin todo'
            BY <1>0, <2>1 DEF Failed
        <3> QED
            BY <1>0, <1>2, <1>3, <3>1 DEF PathInv, NewTrue
    <2>2. CASE ~req'.ok
        BY <1>0, <1>1, <1>2, <1>3, <2>2 DEF PathInv, NewTrue, Stored
    <2> QED
        BY <2>1, <2>2
<1>4. CASE q # p
    <2>1. ~Failed(q)' /\ idb'[q] = idb[q]
        BY <1>0, <1>1, <1>4 DEF Failed
    <2> QED
        BY <1>0, <1>4, <2>1 DEF PathInv, NewTrue, Stored
<1> QED
    BY <1>3, <1>4

\* The other steps of a sync.
LEMMA SyncSnap ==
    ASSUME SnapInv, TypeOK',
           StartSync \/ PutAnswered \/ DeleteAnswered \/ WalkDone \/ SyncDone
    PROVE  SnapInv'
<1> SUFFICES ASSUME ~wiped, NEW q \in Paths PROVE PathInv(q)'
    BY DEF SnapInv, StartSync, PutAnswered, DeleteAnswered, WalkDone, SyncDone, hist
<1>0. TypeOK /\ PathInv(q)
    BY DEF SnapInv, StartSync, PutAnswered, DeleteAnswered, WalkDone, SyncDone, hist
<1>n. [path |-> q, ok |-> FALSE] # None
    BY FailedIsSome
<1>1. CASE StartSync
    <2>1. /\ phase = "idle" /\ phase' = "walk" /\ req' = None
          /\ next'[q] = None /\ UNCHANGED <<idb, sigs>>
        BY <1>1 DEF StartSync, Walk, NoSigs
    <2> QED
        BY <1>0, <1>n, <2>1 DEF PathInv, OldTrue, NewTrue, Failed, Stored
<1>2. CASE PutAnswered
    <2>1. /\ phase = "walk" /\ phase' = "walk" /\ req \in Asked /\ req' = None
          /\ UNCHANGED <<idb, sigs, todo>>
          /\ next' = IF req.ok THEN next ELSE [next EXCEPT ![req.path] = None]
          /\ next \in [Paths -> Sig \cup {None}]
        BY <1>0, <1>2 DEF PutAnswered, TypeOK
    <2>2. ~Failed(q)'
        BY <1>n, <2>1 DEF Failed
    <2>3. CASE Failed(q)
        <3>1. next'[q] = None
            BY <2>1, <2>3 DEF Failed
        <3> QED
            BY <1>0, <2>1, <2>2, <2>3, <3>1 DEF PathInv, OldTrue, NewTrue, Stored
    <2>4. CASE ~Failed(q)
        <3>1. next'[q] = next[q]
            <4>1. CASE req.ok
                BY <2>1, <4>1
            <4>2. CASE ~req.ok
                <5>1. req.path # q
                    BY <2>1, <2>4, <4>2 DEF Failed, Asked
                <5> QED
                    BY <2>1, <4>2, <5>1
            <4> QED
                BY <4>1, <4>2
        <3> QED
            BY <1>0, <2>1, <2>2, <2>4, <3>1 DEF PathInv, OldTrue, NewTrue, Stored
    <2> QED
        BY <2>3, <2>4
<1>3. CASE DeleteAnswered
    <2>1. /\ phase = "delete" /\ phase' = "delete" /\ req \in Asked /\ req' = None
          /\ UNCHANGED <<idb, sigs, todo>>
          /\ next' = IF req.ok THEN next ELSE [next EXCEPT ![req.path] = sigs[req.path]]
          /\ next \in [Paths -> Sig \cup {None}]
        BY <1>0, <1>3 DEF DeleteAnswered, TypeOK
    <2>2. ~Failed(q)'
        BY <1>n, <2>1 DEF Failed
    <2>3. CASE Failed(q)
        <3>1. next'[q] = sigs[q] /\ Stored(q, sigs[q])
            BY <1>0, <2>1, <2>3 DEF Failed, PathInv
        <3>2. q \notin todo'
            BY <1>0, <2>1, <2>3 DEF PathInv
        <3> QED
            BY <2>1, <2>2, <3>1, <3>2 DEF PathInv, NewTrue, Stored
    <2>4. CASE ~Failed(q)
        <3>1. next'[q] = next[q]
            <4>1. CASE req.ok
                BY <2>1, <4>1
            <4>2. CASE ~req.ok
                <5>1. req.path # q
                    BY <2>1, <2>4, <4>2 DEF Failed, Asked
                <5> QED
                    BY <2>1, <4>2, <5>1
            <4> QED
                BY <4>1, <4>2
        <3> QED
            BY <1>0, <2>1, <2>2, <2>4, <3>1 DEF PathInv, NewTrue, Stored
    <2> QED
        BY <2>3, <2>4
<1>4. CASE WalkDone
    <2>1. /\ phase = "walk" /\ phase' = "delete" /\ req = None /\ req' = None
          /\ UNCHANGED <<idb, sigs, next>>
          /\ q \in todo' => sigs[q] # None /\ next[q] = None
        BY <1>4 DEF WalkDone, Working
    <2>2. ~Failed(q) /\ ~Failed(q)'
        BY <1>n, <2>1 DEF Failed
    <2> QED
        BY <1>0, <2>1, <2>2 DEF PathInv, OldTrue, NewTrue, Stored
<1>5. CASE SyncDone
    <2>1. phase = "delete" /\ phase' = "idle" /\ sigs' = next /\ UNCHANGED idb
        BY <1>5 DEF SyncDone, Working
    <2> QED
        BY <1>0, <2>1 DEF PathInv, OldTrue, NewTrue, Stored
<1> QED
    BY <1>1, <1>2, <1>3, <1>4, <1>5

\* A page that comes up knows of nothing that is stored.
LEMMA ReloadSnap ==
    ASSUME SnapInv, TypeOK', Reload
    PROVE  SnapInv'
<1> SUFFICES ASSUME NEW q \in Paths PROVE PathInv(q)'
    BY DEF SnapInv
<1>1. /\ sigs'[q] = None /\ next'[q] = None /\ req' = None
      /\ phase' \in {"walk", "idle"}
    BY DEF Reload, Boot, Walk, NoSigs
<1>2. [path |-> q, ok |-> FALSE] # None
    BY FailedIsSome
<1> QED
    BY <1>1, <1>2 DEF PathInv, OldTrue, NewTrue, Failed

\* The initial state is that of a page that comes up.
LEMMA InitSnap == Init => SnapInv
<1> SUFFICES ASSUME Init, NEW q \in Paths PROVE PathInv(q)
    BY InitType DEF SnapInv
<1>1. sigs[q] = None /\ next[q] = None /\ req = None /\ phase = "walk"
    BY DEF Init, NoSigs
<1>2. [path |-> q, ok |-> FALSE] # None
    BY FailedIsSome
<1> QED
    BY <1>1, <1>2 DEF PathInv, OldTrue, NewTrue, Failed

\* Every step keeps the invariant.
LEMMA NextSnap == SnapInv /\ [Next]_vars => SnapInv'
<1> SUFFICES ASSUME SnapInv, [Next]_vars PROVE SnapInv'
    OBVIOUS
<1>0. TypeOK'
    BY NextType DEF SnapInv
<1>1. CASE FsNext
    <2>1. FsOp
        BY <1>1 DEF FsNext, WriteFile, Chmod, Rename, Mkdir, RemoveFile
    <2> QED
        BY <1>0, <2>1, Untouched DEF FsOp, hist
<1>2. CASE ResetFs
    BY <1>0, <1>2 DEF ResetFs, SnapInv
<1>3. CASE CommandEnds
    BY <1>0, <1>3 DEF CommandEnds, hist, SnapInv, PathInv, OldTrue, NewTrue, Failed, Stored
<1>4. CASE \E p \in Paths : Visit(p) \/ Delete(p)
    BY <1>0, <1>4, VisitSnap, DeleteSnap
<1>5. CASE StartSync \/ PutAnswered \/ DeleteAnswered \/ WalkDone \/ SyncDone
    BY <1>0, <1>5, SyncSnap
<1>6. CASE Reload
    BY <1>0, <1>6, ReloadSnap
<1>7. CASE UNCHANGED vars
    BY <1>0, <1>7, Untouched DEF vars, hist
<1> QED
    BY <1>1, <1>2, <1>3, <1>4, <1>5, <1>6, <1>7 DEF Next, FsNext, SyncStep

\* Whatever fails, whatever is changed while a sync waits for IndexedDB and
\* whenever the page is loaded again, the snapshot that syncFS returns never
\* has the signature of a write that did not happen.
THEOREM SnapshotIsTruthful == Spec => []SnapshotTruthful
<1>1. Init => SnapInv
    BY InitSnap
<1>2. SnapInv /\ [Next]_vars => SnapInv'
    BY NextSnap
<1>3. SnapInv => SnapshotTruthful
    BY DEF SnapInv, PathInv, OldTrue, SnapshotTruthful
<1> QED
    BY <1>1, <1>2, <1>3, PTL DEF Spec

-----------------------------------------------------------------------------
(***************************************************************************)
(* The store has all there is.  fileSig has the size and the time of a     *)
(* file and not what it holds, so this needs contents that either tells    *)
(* apart: no two of one size, or none of one size with the same time.      *)
(***************************************************************************)

SizesTell == \A c, d \in Data : Size[c] = Size[d] => c = d

TimesTell ==
    /\ ~SameInstant
    /\ \A p, q \in Paths :
          Seed[p] \in Data /\ Seed[q] \in Data /\ Size[Seed[p]] = Size[Seed[q]] => Seed[p] = Seed[q]

Files == {e \in {vfs[p] : p \in Paths} \cup {idb[p] : p \in Paths} : e # None}

\* Of the versions there are, none is from the future and two with one
\* signature hold the same.
Told ==
    /\ \A e \in Files : e.mtime <= clock
    /\ \A e, f \in Files : sig(e) = sig(f) => e.data = f.data

\* Until the baseline snapshot is taken, the page knows of nothing stored.
Baseline == ~up => sigs = NoSigs /\ ~based /\ phase # "idle"

\* What is stored is known: to the last snapshot, or to the one in the making.
KnownAt(p) ==
    idb[p] # None =>
        /\ phase = "idle" => sigs[p] # None
        /\ phase = "walk" =>
              sigs[p] # None \/ (next[p] # None /\ ~Failed(p)) \/ (~up /\ p \in todo)
        /\ phase = "delete" => next[p] # None \/ p \in todo \/ Failed(p)

\* The path as the snapshot s has it.
Same(p, s) == (vfs[p] = None <=> s[p] = None) /\ (vfs[p] # None => Alike(idb[p], vfs[p]))

\* What a sync has dealt with is in the store, when nothing changed or failed.
CompleteAt(p) ==
    /\ phase = "walk" => IF p \in todo THEN vfs[p] # None ELSE Same(p, next)
    /\ phase = "delete" => Same(p, next)
    /\ phase = "idle" => Same(p, sigs)

Known    == ~wiped /\ (based \/ (~up /\ clean)) => \A p \in Paths : KnownAt(p)
Complete == ~wiped /\ clean => (req # None => req.ok) /\ \A p \in Paths : CompleteAt(p)

SyncInv == SnapInv /\ Told /\ Baseline /\ Known /\ Complete

\* What a signature tells.
LEMMA SigTells ==
    ASSUME NEW e \in Entry, NEW f \in Entry
    PROVE  sig(e) = sig(f) <=> /\ e.data = Dir <=> f.data = Dir
                               /\ Size[e.data] = Size[f.data] /\ e.mtime = f.mtime
<1>1. sig(e) = sig(f) => /\ sig(e).isDir = sig(f).isDir
                         /\ sig(e).size = sig(f).size /\ sig(e).mtime = sig(f).mtime
    OBVIOUS
<1>2. /\ sig(e).isDir = (e.data = Dir) /\ sig(f).isDir = (f.data = Dir)
      /\ sig(e).size = Size[e.data] /\ sig(f).size = Size[f.data]
      /\ sig(e).mtime = e.mtime /\ sig(f).mtime = f.mtime
    BY Zenon DEF sig
<1>3. ASSUME e.data = Dir <=> f.data = Dir, Size[e.data] = Size[f.data], e.mtime = f.mtime
      PROVE  sig(e) = sig(f)
    <2>1. (e.data = Dir) = (f.data = Dir)
        BY <1>3, Zenon
    <2> QED
        BY <1>3, <2>1, Zenon DEF sig
<1> QED
    BY <1>1, <1>2, <1>3, Zenon

\* The versions there are.
LEMMA FilesType ==
    ASSUME TypeOK
    PROVE  /\ Files \subseteq Entry
           /\ \A p \in Paths : (vfs[p] # None => vfs[p] \in Files) /\ (idb[p] # None => idb[p] \in Files)
BY DEF Files, TypeOK

\* A step that makes new versions only at the new time.
LEMMA ToldKept ==
    ASSUME SizesTell \/ TimesTell, TypeOK, TypeOK', Told, clock <= clock',
           NEW N, \A e \in N : e.mtime = clock',
           TimesTell => \A e, f \in N :
               /\ clock < clock'
               /\ e.data \in Data /\ f.data \in Data /\ Size[e.data] = Size[f.data] => e.data = f.data,
           \A e \in Files' :
               \/ \E f \in Files : e.data = f.data /\ e.mtime = f.mtime
               \/ e.data = Dir /\ e.mtime <= clock'
               \/ e \in N
    PROVE  Told'
<1>0. clock \in Nat /\ clock' \in Nat /\ Files \subseteq Entry
    BY FilesType DEF TypeOK
<1>1. Files' \subseteq Entry
    BY DEF Files, TypeOK
<1>2. \A e \in Files' : e.mtime <= clock'
    BY <1>0 DEF Told, Entry
<1>3. ASSUME NEW e \in Files', NEW f \in Files', sig(e) = sig(f)
      PROVE  e.data = f.data
    <2>1. e.data \in Contents /\ f.data \in Contents /\ e \in Entry /\ f \in Entry
        BY <1>1 DEF Entry
    <2>2. (e.data = Dir <=> f.data = Dir) /\ Size[e.data] = Size[f.data] /\ e.mtime = f.mtime
        BY <1>3, <2>1, SigTells
    <2>3. CASE e.data = Dir
        BY <2>2, <2>3
    <2>4. CASE e.data # Dir
        <3>1. e.data \in Data /\ f.data \in Data
            BY <2>1, <2>2, <2>4 DEF Contents
        <3>2. CASE SizesTell
            BY <2>2, <3>1, <3>2 DEF SizesTell
        <3>3. CASE TimesTell
            <4>1. ASSUME NEW g \in Files, e.data = g.data, e.mtime = g.mtime,
                         NEW h \in Files, f.data = h.data, f.mtime = h.mtime
                  PROVE  e.data = f.data
                <5>1. sig(g) = sig(h)
                    <6>1. g \in Entry /\ h \in Entry
                        BY <1>0
                    <6>2. /\ g.data = Dir <=> h.data = Dir
                          /\ Size[g.data] = Size[h.data] /\ g.mtime = h.mtime
                        BY <2>2, <4>1, Zenon
                    <6> QED
                        BY <6>1, <6>2, SigTells, Zenon
                <5> QED
                    BY <4>1, <5>1 DEF Told
            <4>2. ASSUME NEW g \in Files, NEW y \in N, g.mtime = y.mtime
                  PROVE  FALSE
                <5>1. g.mtime <= clock /\ g.mtime \in Nat /\ y.mtime = clock' /\ clock < clock'
                    BY <1>0, <3>3 DEF Told, Entry
                <5> QED
                    BY <1>0, <4>2, <5>1
            <4>3. CASE e \in N /\ f \in N
                BY <2>2, <3>1, <3>3, <4>3
            <4> QED
                BY <2>2, <2>4, <4>1, <4>2, <4>3
        <3> QED
            BY <3>2, <3>3
    <2> QED
        BY <2>3, <2>4
<1> QED
    BY <1>2, <1>3 DEF Told

\* Nothing new.
LEMMA ToldSame ==
    ASSUME SizesTell \/ TimesTell, TypeOK, TypeOK', Told, clock <= clock',
           \A e \in Files' : \E f \in Files : e.data = f.data /\ e.mtime = f.mtime
    PROVE  Told'
<1> DEFINE N == {}
<1>1. \A e \in N : e.mtime = clock'
    OBVIOUS
<1>2. \A e, f \in N :
          /\ clock < clock'
          /\ e.data \in Data /\ f.data \in Data /\ Size[e.data] = Size[f.data] => e.data = f.data
    OBVIOUS
<1> HIDE DEF N
<1> QED
    BY <1>1, <1>2, ToldKept

\* An operation on the filesystem makes at most one version.
LEMMA FsTold ==
    ASSUME SizesTell \/ TimesTell, TypeOK, TypeOK', Told, FsNext
    PROVE  Told'
<1>0. /\ vfs \in [Paths -> Entry \cup {None}] /\ clock \in Nat /\ Files \subseteq Entry
    BY FilesType DEF TypeOK
<1>1. FsOp
    BY DEF FsNext, WriteFile, Chmod, Rename, Mkdir, RemoveFile
<1>2. /\ idb' = idb /\ clock' \in Nat /\ clock <= clock'
      /\ TimesTell => clock < clock'
    BY <1>0, <1>1 DEF FsOp, Tick, TimesTell
<1>3. \A p \in Paths : idb'[p] # None => idb'[p] \in Files
    BY <1>2, FilesType
<1>4. PICK p \in Paths :
          \/ \E d \in Data : WriteFile(p, d)
          \/ \E m \in Modes : Chmod(p, m)
          \/ \E q \in Paths : Rename(p, q)
          \/ Mkdir(p)
          \/ RemoveFile(p)
    BY DEF FsNext
<1>5. ASSUME NEW d \in Data, WriteFile(p, d)
      PROVE  Told'
    <2> DEFINE m == IF vfs[p] = None THEN DefaultMode ELSE vfs[p].mode
               e == [data |-> d, mtime |-> clock', mode |-> m]
               N == {e}
    <2>1. vfs' = [vfs EXCEPT ![p] = e]
        BY <1>5 DEF WriteFile
    <2>2. e.mtime = clock'
        OBVIOUS
    <2> HIDE DEF e
    <2>3. \A x \in Files' : x \in Files \/ x = e
        BY <1>0, <1>3, <2>1 DEF Files
    <2>4. (\A x \in N : x.mtime = clock') /\ \A x, y \in N : x.data = y.data
        BY <2>2
    <2>5. \A x \in Files' : x \in Files \/ x \in N
        BY <2>3
    <2> HIDE DEF N
    <2> QED
        BY <1>2, <2>4, <2>5, ToldKept
<1>6. CASE Mkdir(p)
    <2> DEFINE e == [data |-> Dir, mtime |-> clock', mode |-> DefaultMode]
               N == {}
    <2>1. vfs' = [vfs EXCEPT ![p] = e]
        BY <1>6 DEF Mkdir
    <2>2. e.mtime = clock' /\ e.data = Dir
        OBVIOUS
    <2> HIDE DEF e
    <2>3. \A x \in Files' : x \in Files \/ x = e
        BY <1>0, <1>3, <2>1 DEF Files
    <2>4. \A x \in N : FALSE
        OBVIOUS
    <2> HIDE DEF N
    <2>5. \A x \in Files' : x \in Files \/ (x.data = Dir /\ x.mtime <= clock')
        BY <1>2, <2>2, <2>3
    <2> QED
        BY <1>2, <2>4, <2>5, ToldKept
<1>7. ASSUME NEW m \in Modes, Chmod(p, m)
      PROVE  Told'
    <2>1. vfs' = [vfs EXCEPT ![p].mode = m] /\ vfs[p] # None
        BY <1>7 DEF Chmod
    <2>2. vfs[p] \in Entry /\ vfs[p] \in Files
        BY <1>0, <2>1, FilesType
    <2>3. vfs'[p].data = vfs[p].data /\ vfs'[p].mtime = vfs[p].mtime
        BY <1>0, <2>1, <2>2 DEF Entry
    <2>4. \A q \in Paths : q # p => vfs'[q] = vfs[q]
        BY <1>0, <2>1
    <2>5. \A x \in Files' : x \in Files \/ x = vfs'[p]
        BY <1>0, <1>3, <2>4 DEF Files
    <2> QED
        BY <1>2, <2>2, <2>3, <2>5, ToldSame
<1>8. CASE RemoveFile(p) \/ \E q \in Paths : Rename(p, q)
    <2>1. \A q \in Paths : vfs'[q] = None \/ \E r \in Paths : vfs'[q] = vfs[r]
        BY <1>0, <1>8 DEF RemoveFile, Rename
    <2>2. \A x \in Files' : x \in Files
        BY <1>3, <2>1, FilesType DEF Files
    <2> QED
        BY <1>2, <2>2, ToldSame
<1> QED
    BY <1>4, <1>5, <1>6, <1>7, <1>8

\* A page that comes up has what is stored, with directories as of now, or
\* the seed as of now.
LEMMA ReloadTold ==
    ASSUME SizesTell \/ TimesTell, TypeOK, TypeOK', Told, Reload
    PROVE  Told'
<1>0. /\ idb \in [Paths -> Entry \cup {None}] /\ clock \in Nat /\ clock' = clock + 1 /\ idb' = idb
    BY DEF Reload, TypeOK
<1>1. \A p \in Paths : idb'[p] # None => idb'[p] \in Files
    BY <1>0, FilesType
<1> DEFINE now == clock'
           N == {Seeded(now)[p] : p \in {q \in Paths : Seed[q] # None}}
<1>2. \A p \in Paths : Seed[p] # None => /\ Seeded(now)[p].data = Seed[p]
                                         /\ Seeded(now)[p].mtime = now
    BY DEF Seeded
<1>3. \A e \in N : e.mtime = now /\ \E p \in Paths : e.data = Seed[p]
    BY <1>2
<1>4. TimesTell => \A e, f \in N :
          /\ clock < now
          /\ e.data \in Data /\ f.data \in Data /\ Size[e.data] = Size[f.data] => e.data = f.data
    BY <1>0, <1>3 DEF TimesTell
<1>5. \A p \in Paths :
          \/ vfs'[p] = None
          \/ vfs'[p] \in N
          \/ vfs'[p].data = Dir /\ vfs'[p].mtime <= now
          \/ idb[p] \in Files /\ vfs'[p].data = idb[p].data /\ vfs'[p].mtime = idb[p].mtime
    <2> TAKE p \in Paths
    <2>1. CASE vfs' = Seeded(now)
        BY <2>1 DEF Seeded
    <2>2. CASE vfs'[p] = None
        BY <2>2
    <2>3. CASE idb[p] # None /\ vfs'[p] = [idb[p] EXCEPT !.mtime = IF idb[p].data = Dir THEN now ELSE @]
        <3>1. idb[p] \in Entry /\ idb[p] \in Files
            BY <1>0, <2>3, FilesType
        <3>2. vfs'[p].data = idb[p].data /\ vfs'[p].mtime = IF idb[p].data = Dir THEN now ELSE idb[p].mtime
            BY <2>3, <3>1 DEF Entry
        <3> QED
            BY <1>0, <3>1, <3>2
    <2> QED
        BY <2>1, <2>2, <2>3 DEF Reload, Boot, loadAll
<1>6. \A e \in Files' :
          \/ \E f \in Files : e.data = f.data /\ e.mtime = f.mtime
          \/ e.data = Dir /\ e.mtime <= now
          \/ e \in N
    <2> HIDE DEF N
    <2> QED
        BY <1>1, <1>5 DEF Files
<1> HIDE DEF N
<1> QED
    BY <1>0, <1>3, <1>4, <1>6, ToldKept

\* Making a request with everything stored as asked.
LEMMA VisitTold ==
    ASSUME SizesTell \/ TimesTell, TypeOK, TypeOK', Told, clock' = clock, vfs' = vfs,
           \A q \in Paths : idb'[q] = None \/ idb'[q] = idb[q] \/ idb'[q] = vfs[q]
    PROVE  Told'
<1>1. \A x \in Files' : x \in Files
    BY FilesType DEF Files
<1>2. clock <= clock'
    BY DEF TypeOK
<1> QED
    BY <1>1, <1>2, ToldSame

\* A visit of the walk.
LEMMA VisitSync ==
    ASSUME SizesTell \/ TimesTell, SyncInv, SnapInv', NEW p \in Paths, Visit(p)
    PROVE  SyncInv'
<1> USE DEF SyncInv
<1>0. /\ TypeOK /\ TypeOK'
      /\ phase = "walk" /\ phase' = "walk" /\ req = None
      /\ p \in todo /\ todo' = todo \ {p} /\ UNCHANGED <<sigs, vfs, up, clock, based, wiped>>
      /\ next \in [Paths -> Sig \cup {None}]
      /\ idb \in [Paths -> Entry \cup {None}]
      /\ vfs[p] \in Entry \cup {None}
      /\ {clean, clean', based, up} \subseteq BOOLEAN
    BY DEF SnapInv, Visit, Working, TypeOK, hist
<1>n. \A q \in Paths : [path |-> q, ok |-> FALSE] # None
    BY FailedIsSome
<1>1. CASE vfs[p] = None
    <2>1. UNCHANGED <<next, req, idb, clean>>
        BY <1>1 DEF Visit
    <2>2. Told'
        BY <1>0, <2>1, VisitTold
    <2>3. Baseline' /\ Complete'
        BY <1>0, <1>1, <2>1 DEF Baseline, Complete, CompleteAt
    <2>4. Known'
        <3> SUFFICES ASSUME ~wiped, based \/ (~up /\ clean), NEW q \in Paths PROVE KnownAt(q)'
            BY <1>0, <2>1 DEF Known
        <3>1. KnownAt(q)
            BY DEF Known
        <3>2. up
            BY <1>0, <1>1 DEF Complete, CompleteAt, Baseline
        <3> QED
            BY <1>0, <2>1, <3>1, <3>2 DEF KnownAt, Failed
    <2> QED
        BY <2>2, <2>3, <2>4
<1>2. CASE vfs[p] # None
    <2>0. vfs[p] \in Entry /\ sig(vfs[p]) # None
        BY <1>0, <1>2, SigType
    <2>1. next' = [next EXCEPT ![p] = sig(vfs[p])]
        BY <1>2 DEF Visit
    <2>2. next'[p] # None /\ \A q \in Paths : q # p => next'[q] = next[q]
        BY <1>0, <2>0, <2>1
    <2>3. CASE sigs[p] = sig(vfs[p])
        <3>1. UNCHANGED <<req, idb, clean>>
            BY <1>2, <2>3 DEF Visit
        <3>2. Told'
            BY <1>0, <3>1, VisitTold
        <3>3. ~wiped => Alike(idb[p], vfs[p])
            <4> SUFFICES ASSUME ~wiped PROVE Alike(idb[p], vfs[p])
                OBVIOUS
            <4>1. PathInv(p)
                BY DEF SnapInv
            <4>2. Stored(p, sigs[p])
                BY <1>0, <2>0, <2>3, <4>1 DEF PathInv, OldTrue
            <4>3. idb[p] \in Entry /\ sig(idb[p]) = sig(vfs[p])
                BY <1>0, <2>3, <4>2 DEF Stored
            <4>4. idb[p].data = vfs[p].data
                BY <1>0, <1>2, <4>2, <4>3, FilesType DEF Told, Stored
            <4>5. idb[p].mtime = vfs[p].mtime
                BY <2>0, <4>3, SigTells
            <4>6. idb[p] # None
                BY <4>2 DEF Stored
            <4> QED
                BY <1>2, <4>4, <4>5, <4>6 DEF Alike
        <3>4. Complete'
            <4> SUFFICES ASSUME ~wiped, clean, NEW q \in Paths PROVE CompleteAt(q)'
                BY <1>0, <3>1 DEF Complete
            <4>1. CompleteAt(q)
                BY DEF Complete
            <4>2. CASE q = p
                BY <1>0, <1>2, <2>2, <3>1, <3>3, <4>2 DEF CompleteAt, Same, Alike
            <4>3. CASE q # p
                BY <1>0, <2>2, <3>1, <4>1, <4>3 DEF CompleteAt, Same, Alike
            <4> QED
                BY <4>2, <4>3
        <3>5. Known'
            <4> SUFFICES ASSUME ~wiped, based \/ (~up /\ clean), NEW q \in Paths PROVE KnownAt(q)'
                BY <1>0, <3>1 DEF Known
            <4>1. KnownAt(q) /\ ~Failed(q)'
                BY <1>0, <1>n, <3>1 DEF Known, Failed
            <4>2. CASE q = p
                BY <1>0, <2>2, <4>1, <4>2 DEF KnownAt
            <4>3. CASE q # p
                BY <1>0, <2>2, <3>1, <4>1, <4>3 DEF KnownAt
            <4> QED
                BY <4>2, <4>3
        <3>6. Baseline'
            BY <1>0 DEF Baseline
        <3> QED
            BY <3>2, <3>4, <3>5, <3>6
    <2>4. CASE sigs[p] # sig(vfs[p])
        <3>1. Request(p, vfs[p])
            BY <1>2, <2>4 DEF Visit
        <3>2. /\ req'.path = p
              /\ req'.ok => idb' = [idb EXCEPT ![p] = vfs[p]]
              /\ ~req'.ok => idb' = idb /\ req' = [path |-> p, ok |-> FALSE]
              /\ clean' => clean /\ req'.ok
            BY <1>0, <2>0, <3>1, RequestType DEF Request
        <3>3. \A q \in Paths : q # p => idb'[q] = idb[q] /\ ~Failed(q)' /\ ~Failed(q)
            BY <1>0, <1>n, <3>2 DEF Failed
        <3>4. idb'[p] = IF req'.ok THEN vfs[p] ELSE idb[p]
            BY <1>0, <3>2
        <3>5. Told'
            BY <1>0, <3>3, <3>4, VisitTold
        <3>6. Complete'
            <4> SUFFICES ASSUME ~wiped, clean', NEW q \in Paths PROVE CompleteAt(q)'
                BY <1>0, <3>2 DEF Complete
            <4>1. CompleteAt(q) /\ req'.ok
                BY <3>2 DEF Complete
            <4>2. CASE q = p
                BY <1>0, <1>2, <2>2, <3>4, <4>1, <4>2 DEF CompleteAt, Same, Alike
            <4>3. CASE q # p
                BY <1>0, <2>2, <3>3, <4>1, <4>3 DEF CompleteAt, Same, Alike
            <4> QED
                BY <4>2, <4>3
        <3>7. Known'
            <4> SUFFICES ASSUME ~wiped, based \/ (~up /\ clean'), NEW q \in Paths PROVE KnownAt(q)'
                BY <1>0 DEF Known
            <4>1. KnownAt(q)
                BY <3>2 DEF Known
            <4>2. CASE q = p /\ req'.ok
                <5>1. ~Failed(p)'
                    BY <4>2 DEF Failed
                <5> QED
                    BY <1>0, <2>2, <4>2, <5>1 DEF KnownAt
            <4>3. CASE q = p /\ ~req'.ok
                <5>1. next[p] = None
                    BY <1>0 DEF SnapInv, PathInv
                <5>2. up
                    BY <3>2, <4>3 DEF Baseline
                <5> QED
                    BY <1>0, <3>4, <4>1, <4>3, <5>1, <5>2 DEF KnownAt
            <4>4. CASE q # p
                BY <1>0, <2>2, <3>3, <4>1, <4>4 DEF KnownAt
            <4> QED
                BY <4>2, <4>3, <4>4
        <3>8. Baseline'
            BY <1>0 DEF Baseline
        <3> QED
            BY <3>5, <3>6, <3>7, <3>8
    <2> QED
        BY <2>3, <2>4
<1> QED
    BY <1>1, <1>2

\* A path is deleted from the store.
LEMMA DeleteSync ==
    ASSUME SizesTell \/ TimesTell, SyncInv, SnapInv', NEW p \in Paths, Delete(p)
    PROVE  SyncInv'
<1> USE DEF SyncInv
<1>0. /\ TypeOK /\ TypeOK'
      /\ phase = "delete" /\ phase' = "delete" /\ req = None
      /\ p \in todo /\ todo' = todo \ {p} /\ UNCHANGED <<sigs, next, vfs, up, clock, based, wiped>>
      /\ idb \in [Paths -> Entry \cup {None}]
    BY DEF SnapInv, Delete, Working, TypeOK, hist
<1>1. /\ req'.path = p
      /\ req'.ok => idb' = [idb EXCEPT ![p] = None]
      /\ ~req'.ok => idb' = idb /\ req' = [path |-> p, ok |-> FALSE]
      /\ clean' => clean /\ req'.ok
    <2>1. Request(p, None)
        BY DEF Delete
    <2>2. /\ req'.path = p
          /\ req'.ok => idb' = [idb EXCEPT ![p] = None]
          /\ ~req'.ok => idb' = idb /\ req' = [path |-> p, ok |-> FALSE]
        BY <1>0, <2>1, RequestType
    <2>3. clean' => clean /\ req'.ok
        <3>1. PICK ok \in BOOLEAN : req' = [path |-> p, ok |-> ok] /\ clean' = (clean /\ ok)
            BY <2>1 DEF Request
        <3>2. req'.ok = ok
            BY <3>1
        <3> QED
            BY <3>1, <3>2, Zenon
    <2> QED
        BY <2>2, <2>3
<1>2. \A q \in Paths : q # p => idb'[q] = idb[q] /\ ~Failed(q)' /\ ~Failed(q)
    BY <1>0, <1>1, FailedIsSome DEF Failed
<1>3. idb'[p] = IF req'.ok THEN None ELSE idb[p]
    BY <1>0, <1>1
<1>4. Told'
    BY <1>0, <1>2, <1>3, VisitTold
<1>5. Complete'
    <2> SUFFICES ASSUME ~wiped, clean', NEW q \in Paths PROVE CompleteAt(q)'
        BY <1>0, <1>1 DEF Complete
    <2>1. CompleteAt(q) /\ CompleteAt(p)
        BY <1>1 DEF Complete
    <2>2. CASE q = p
        <3>1. vfs[p] = None /\ next[p] = None
            BY <1>0, <2>1 DEF SnapInv, PathInv, CompleteAt, Same
        <3> QED
            BY <1>0, <2>2, <3>1 DEF CompleteAt, Same
    <2>3. CASE q # p
        BY <1>0, <1>2, <2>1, <2>3 DEF CompleteAt, Same, Alike
    <2> QED
        BY <2>2, <2>3
<1>6. Known'
    <2> SUFFICES ASSUME ~wiped, based \/ (~up /\ clean'), NEW q \in Paths PROVE KnownAt(q)'
        BY <1>0 DEF Known
    <2>1. KnownAt(q)
        BY <1>1 DEF Known
    <2>2. CASE q = p
        BY <1>0, <1>1, <1>3, <2>2 DEF KnownAt, Failed
    <2>3. CASE q # p
        BY <1>0, <1>2, <2>1, <2>3 DEF KnownAt
    <2> QED
        BY <2>2, <2>3
<1>7. Baseline'
    BY <1>0 DEF Baseline
<1> QED
    BY <1>4, <1>5, <1>6, <1>7

\* The other steps of a sync.
LEMMA StepSync ==
    ASSUME SizesTell \/ TimesTell, SyncInv, SnapInv',
           StartSync \/ PutAnswered \/ DeleteAnswered \/ WalkDone \/ SyncDone
    PROVE  SyncInv'
<1> USE DEF SyncInv
<1>0. TypeOK /\ TypeOK' /\ UNCHANGED <<vfs, idb, clock, wiped>>
    BY DEF SnapInv, StartSync, PutAnswered, DeleteAnswered, WalkDone, SyncDone, hist
<1>t. Told'
    BY <1>0, VisitTold
<1>n. \A q \in Paths : [path |-> q, ok |-> FALSE] # None
    BY FailedIsSome
<1>1. CASE StartSync
    <2>1. /\ phase = "idle" /\ phase' = "walk" /\ todo' = Present(vfs) /\ req' = None
          /\ UNCHANGED <<sigs, up, based>> /\ next' = NoSigs /\ \A q \in Paths : next'[q] = None
        BY <1>1 DEF StartSync, Walk, NoSigs, hist
    <2>2. up
        BY <2>1 DEF Baseline
    <2>3. Complete'
        BY <1>0, <2>1 DEF Complete, CompleteAt, Same, Present
    <2>4. Known' /\ Baseline'
        BY <1>0, <2>1, <2>2 DEF Known, KnownAt, Baseline
    <2> QED
        BY <1>t, <2>3, <2>4
<1>2. CASE PutAnswered
    <2>1. /\ phase = "walk" /\ phase' = "walk" /\ req \in Asked /\ req # None /\ req' = None
          /\ UNCHANGED <<sigs, todo, up, based, clean>>
          /\ next' = IF req.ok THEN next ELSE [next EXCEPT ![req.path] = None]
          /\ next \in [Paths -> Sig \cup {None}]
        BY <1>0, <1>2 DEF PutAnswered, TypeOK, hist
    <2>2. Complete'
        BY <1>0, <2>1 DEF Complete, CompleteAt, Same, Alike
    <2>3. Known'
        <3> SUFFICES ASSUME ~wiped, based \/ (~up /\ clean), NEW q \in Paths PROVE KnownAt(q)'
            BY <1>0, <2>1 DEF Known
        <3>1. KnownAt(q) /\ ~Failed(q)'
            BY <1>n, <2>1 DEF Known, Failed
        <3>2. CASE Failed(q)
            BY <1>0, <2>1, <3>1, <3>2 DEF KnownAt
        <3>3. CASE ~Failed(q)
            <4>1. next'[q] = next[q]
                <5>1. ~req.ok => req.path # q
                    BY <2>1, <3>3 DEF Failed, Asked
                <5> QED
                    BY <2>1, <5>1
            <4> QED
                BY <1>0, <2>1, <3>1, <4>1 DEF KnownAt
        <3> QED
            BY <3>2, <3>3
    <2>4. Baseline'
        BY <2>1 DEF Baseline
    <2> QED
        BY <1>t, <2>2, <2>3, <2>4
<1>3. CASE DeleteAnswered
    <2>1. /\ phase = "delete" /\ phase' = "delete" /\ req \in Asked /\ req # None /\ req' = None
          /\ UNCHANGED <<sigs, todo, up, based, clean>>
          /\ next' = IF req.ok THEN next ELSE [next EXCEPT ![req.path] = sigs[req.path]]
          /\ next \in [Paths -> Sig \cup {None}]
        BY <1>0, <1>3 DEF DeleteAnswered, TypeOK, hist
    <2>2. Complete'
        BY <1>0, <2>1 DEF Complete, CompleteAt, Same, Alike
    <2>3. Known'
        <3> SUFFICES ASSUME ~wiped, based \/ (~up /\ clean), NEW q \in Paths PROVE KnownAt(q)'
            BY <1>0, <2>1 DEF Known
        <3>1. KnownAt(q) /\ PathInv(q)
            BY DEF Known, SnapInv
        <3>2. CASE Failed(q)
            <4>1. next'[q] = sigs[q] /\ sigs[q] # None
                BY <2>1, <3>1, <3>2 DEF Failed, PathInv
            <4> QED
                BY <1>0, <2>1, <4>1 DEF KnownAt
        <3>3. CASE ~Failed(q)
            <4>1. next'[q] = next[q]
                <5>1. ~req.ok => req.path # q
                    BY <2>1, <3>3 DEF Failed, Asked
                <5> QED
                    BY <2>1, <5>1
            <4> QED
                BY <1>0, <2>1, <3>1, <3>3, <4>1 DEF KnownAt
        <3> QED
            BY <3>2, <3>3
    <2>4. Baseline'
        BY <2>1 DEF Baseline
    <2> QED
        BY <1>t, <2>2, <2>3, <2>4
<1>4. CASE WalkDone
    <2>1. /\ phase = "walk" /\ phase' = "delete" /\ req = None /\ req' = None
          /\ UNCHANGED <<sigs, next, up, based, clean>> /\ todo = {}
          /\ todo' = {p \in Paths : sigs[p] # None /\ next[p] = None}
        BY <1>4 DEF WalkDone, Working, hist
    <2>2. Complete'
        BY <1>0, <2>1 DEF Complete, CompleteAt, Same, Alike
    <2>3. Known' /\ Baseline'
        BY <1>0, <2>1 DEF Known, KnownAt, Baseline
    <2> QED
        BY <1>t, <2>2, <2>3
<1>5. CASE SyncDone
    <2>1. /\ phase = "delete" /\ phase' = "idle" /\ req = None /\ req' = None /\ todo = {}
          /\ sigs' = next /\ up' = TRUE /\ based' = (IF up THEN based ELSE clean)
          /\ UNCHANGED clean
        BY <1>5 DEF SyncDone, Working
    <2>2. Complete'
        BY <1>0, <2>1 DEF Complete, CompleteAt, Same, Alike
    <2>3. Known'
        <3> SUFFICES ASSUME ~wiped, based', NEW q \in Paths PROVE KnownAt(q)'
            BY <1>0, <2>1 DEF Known
        <3>1. based \/ (~up /\ clean)
            BY <2>1
        <3>2. KnownAt(q) /\ ~Failed(q)
            BY <1>n, <2>1, <3>1 DEF Known, Failed
        <3> QED
            BY <1>0, <2>1, <3>2 DEF KnownAt
    <2>4. Baseline'
        BY <2>1 DEF Baseline
    <2> QED
        BY <1>t, <2>2, <2>3, <2>4
<1> QED
    BY <1>1, <1>2, <1>3, <1>4, <1>5

\* A page that comes up is about to put all that it has.
LEMMA UpSync ==
    ASSUME TypeOK, next = NoSigs, sigs = NoSigs, req = None, ~wiped, ~based,
           \/ phase = "walk" /\ ~up /\ todo = Present(vfs)
              /\ \A p \in Paths : idb[p] # None => vfs[p] # None
           \/ phase = "idle" /\ up /\ ~clean
    PROVE  Baseline /\ Known /\ Complete
<1>1. \A p \in Paths : next[p] = None /\ sigs[p] = None
    BY DEF NoSigs
<1> QED
    BY <1>1 DEF Baseline, Known, KnownAt, Complete, CompleteAt, Same, Present

\* A reload scans the filesystem it has just loaded.
LEMMA ReloadSync ==
    ASSUME SizesTell \/ TimesTell, SyncInv, SnapInv', Reload
    PROVE  SyncInv'
<1>0. TypeOK /\ TypeOK' /\ Told
    BY DEF SyncInv, SnapInv
<1>1. Told'
    BY <1>0, ReloadTold
<1>2. /\ next' = NoSigs /\ sigs' = NoSigs /\ req' = None /\ ~wiped' /\ ~based' /\ idb' = idb
      /\ idb \in [Paths -> Entry \cup {None}]
    BY <1>0 DEF Reload, Boot, Walk, TypeOK
<1>3. \A p \in Paths : next'[p] = None /\ sigs'[p] = None
    BY <1>2 DEF NoSigs
<1>4. CASE phase' = "walk" /\ ~up' /\ todo' = Present(vfs') /\ vfs' = loadAll(idb, clock')
    <2>1. \A p \in Paths : idb'[p] # None => vfs'[p] # None
        <3> SUFFICES ASSUME NEW p \in Paths, idb[p] # None PROVE vfs'[p] # None
            BY <1>2
        <3> DEFINE e == [idb[p] EXCEPT !.mtime = IF idb[p].data = Dir THEN clock' ELSE @]
        <3>1. vfs'[p] = e
            BY <1>4 DEF loadAll, Present
        <3>2. e \in Entry
            <4>1. idb[p] \in Entry /\ clock' \in Nat
                BY <1>0, <1>2 DEF TypeOK
            <4> QED
                BY <4>1 DEF Entry
        <3> QED
            BY <3>1, <3>2, PersistAssumption
    <2>2. Baseline' /\ Known' /\ Complete'
        BY <1>2, <1>3, <1>4, <2>1 DEF Baseline, Known, KnownAt, Complete, CompleteAt, Same, Present
    <2> QED
        BY <1>1, <2>2 DEF SyncInv
<1>5. CASE phase' = "idle" /\ up' /\ ~clean'
    <2>1. Baseline' /\ Known' /\ Complete'
        BY <1>2, <1>5 DEF Baseline, Known, Complete
    <2> QED
        BY <1>1, <2>1 DEF SyncInv
<1> QED
    BY <1>4, <1>5 DEF Reload, Boot, Walk

\* So does the first boot.
LEMMA InitSync ==
    ASSUME SizesTell \/ TimesTell, Init
    PROVE  SyncInv
<1>0. SnapInv /\ TypeOK
    BY InitSnap DEF SnapInv
<1>1. Told
    <2>1. \A p \in Paths : idb[p] = None
        BY DEF Init, NoSigs
    <2>2. \A e \in Files : e \in Entry /\ e.mtime = 0 /\ \E p \in Paths : e.data = Seed[p]
        <3> SUFFICES ASSUME NEW p \in Paths, vfs[p] # None
                     PROVE  vfs[p] \in Entry /\ vfs[p].mtime = 0 /\ vfs[p].data = Seed[p]
            BY <2>1 DEF Files
        <3>1. vfs[p] = [data |-> Seed[p], mtime |-> 0, mode |-> DefaultMode]
            BY DEF Init, Seeded
        <3> QED
            BY <1>0, <3>1 DEF TypeOK
    <2>3. ASSUME NEW e \in Files, NEW f \in Files, sig(e) = sig(f) PROVE e.data = f.data
        <3>1. (e.data = Dir <=> f.data = Dir) /\ Size[e.data] = Size[f.data]
            BY <2>2, <2>3, SigTells
        <3>2. e.data \in Contents /\ f.data \in Contents
            BY <2>2 DEF Entry
        <3> QED
            BY <2>2, <3>1, <3>2 DEF SizesTell, TimesTell, Contents
    <2> QED
        BY <2>2, <2>3 DEF Told, Init
<1>2. Baseline /\ Known /\ Complete
    <2>1. \A p \in Paths : idb[p] # None => vfs[p] # None
        BY DEF Init, NoSigs
    <2> QED
        BY <1>0, <2>1, UpSync DEF Init
<1> QED
    BY <1>0, <1>1, <1>2 DEF SyncInv

\* Every step keeps the invariant.
LEMMA NextSync ==
    ASSUME SizesTell \/ TimesTell, SyncInv, [Next]_vars
    PROVE  SyncInv'
<1>0. SnapInv' /\ TypeOK /\ TypeOK' /\ Told
    BY NextSnap DEF SyncInv, SnapInv
<1>1. CASE FsNext
    <2>1. FsOp
        BY <1>1 DEF FsNext, WriteFile, Chmod, Rename, Mkdir, RemoveFile
    <2>2. up /\ ~clean' /\ UNCHANGED <<idb, syncvars, up, based, wiped>>
        BY <2>1 DEF FsOp, CanRun, hist
    <2>3. Baseline' /\ Complete'
        BY <2>2 DEF Baseline, Complete
    <2>4. Known'
        BY <2>2 DEF SyncInv, Known, KnownAt, Failed, syncvars
    <2> QED
        BY <1>0, <1>1, <2>3, <2>4, FsTold DEF SyncInv
<1>2. CASE ResetFs
    <2>1. /\ wiped' /\ UNCHANGED <<vfs, sigs, up, based, phase, clock>> /\ \A q \in Paths : idb'[q] = None
        BY <1>2 DEF ResetFs, NoSigs, syncvars
    <2>2. Told'
        BY <1>0, <2>1, VisitTold
    <2>3. Baseline' /\ Known' /\ Complete'
        BY <2>1 DEF SyncInv, Baseline, Known, Complete
    <2> QED
        BY <1>0, <2>2, <2>3 DEF SyncInv
<1>3. CASE CommandEnds \/ UNCHANGED vars
    <2>1. UNCHANGED <<vfs, idb, up, sigs, phase, next, todo, req, clock, clean, based, wiped>>
        BY <1>3 DEF CommandEnds, vars, syncvars, hist
    <2>2. Told'
        BY <1>0, <2>1, VisitTold
    <2>3. Baseline' /\ Known' /\ Complete'
        BY <2>1 DEF SyncInv, Baseline, Known, KnownAt, Failed, Complete, CompleteAt, Same, Alike
    <2> QED
        BY <1>0, <2>2, <2>3 DEF SyncInv
<1>4. CASE \E p \in Paths : Visit(p) \/ Delete(p)
    BY <1>0, <1>4, VisitSync, DeleteSync
<1>5. CASE StartSync \/ PutAnswered \/ DeleteAnswered \/ WalkDone \/ SyncDone
    BY <1>0, <1>5, StepSync
<1>6. CASE Reload
    BY <1>0, <1>6, ReloadSync
<1> QED
    BY <1>1, <1>2, <1>3, <1>4, <1>5, <1>6 DEF Next, FsNext, SyncStep

\* A sync in which nothing failed, and during which nothing changed, leaves
\* the store with exactly the filesystem, whatever failed before it, wherever
\* sizes or times tell versions apart (persist.go, syncFS and fileSig).
THEOREM SyncIsComplete ==
    ASSUME SizesTell \/ TimesTell
    PROVE  Spec => []SyncComplete
<1>1. Init => SyncInv
    BY InitSync
<1>2. SyncInv /\ [Next]_vars => SyncInv'
    BY NextSync
<1>3. SyncInv => SyncComplete
    BY DEF SyncInv, Known, KnownAt, Complete, CompleteAt, Same, Alike, SyncComplete
<1> QED
    BY <1>1, <1>2, <1>3, PTL DEF Spec

\* A path is deleted from the store only when all there is in the filesystem
\* is stored, what it may have been renamed to included (syncFS puts before it
\* deletes), wherever sizes or times tell versions apart.
THEOREM MovedFilesAreKept ==
    ASSUME SizesTell \/ TimesTell
    PROVE  Spec => MovedIsKept
<1>1. Init => SyncInv
    BY InitSync
<1>2. SyncInv /\ [Next]_vars => SyncInv'
    BY NextSync
<1>3. SyncInv /\ [Next]_vars =>
          [\A p \in Paths :
              idb[p] # None /\ idb'[p] = None /\ clean /\ ~wiped' =>
                  \A q \in Paths : vfs[q] # None => Alike(idb[q], vfs[q])]_vars
    <2> SUFFICES ASSUME SyncInv, [Next]_vars, NEW p \in Paths, idb[p] # None, idb'[p] = None,
                        clean, ~wiped', NEW q \in Paths, vfs[q] # None
                 PROVE  Alike(idb[q], vfs[q])
        OBVIOUS
    <2>0. TypeOK
        BY DEF SyncInv, SnapInv
    <2>1. PICK r \in Paths : Delete(r)
        <3>1. ASSUME NEW r \in Paths, Visit(r) PROVE FALSE
            <4>1. idb' = idb \/ (Request(r, vfs[r]) /\ vfs[r] # None)
                BY <3>1 DEF Visit
            <4>2. CASE Request(r, vfs[r]) /\ vfs[r] # None
                BY <2>0, <4>2 DEF Request, TypeOK
            <4> QED
                BY <4>1, <4>2
        <3>2. CASE FsNext
            BY <3>2 DEF FsNext, WriteFile, Chmod, Rename, Mkdir, RemoveFile, FsOp
        <3> QED
            BY <3>1, <3>2 DEF Next, FsNext, SyncStep, ResetFs, CommandEnds, StartSync, PutAnswered,
                              DeleteAnswered, WalkDone, SyncDone, Reload, vars
    <2>2. phase = "delete" /\ ~wiped
        BY <2>1 DEF Delete, Working, hist
    <2> QED
        BY <2>2 DEF SyncInv, Complete, CompleteAt, Same
<1> QED
    BY <1>1, <1>2, <1>3, PTL DEF Spec, MovedIsKept

-----------------------------------------------------------------------------
(***************************************************************************)
(* Sed. The fields of its records.                                         *)
(***************************************************************************)

StFields == {"rest", "line", "ps", "nl", "replaced", "appendQ", "pc", "quit", "code"}
SeenFields == {"hits", "texts", "results"}

----------------------------------------------------------------------------
(* The text operators make texts of texts.                                  *)

\* The characters there are, and those the code writes.
Chars == STRING \cup {"", "\t", "a", "b", "A", "B", Newline, Backslash} \cup {ToString(n) : n \in Nat}

LEMMA SeqSub ==
    ASSUME NEW A, NEW B, A \subseteq B
    PROVE  Seq(A) \subseteq Seq(B)
<1> SUFFICES ASSUME NEW s \in Seq(A) PROVE s \in Seq(B)
  OBVIOUS
<1>1. \A i \in 1..Len(s) : s[i] \in B
  OBVIOUS
<1> QED
  BY <1>1

LEMMA OneIs ==
    ASSUME NEW A, NEW x \in A
    PROVE  <<x>> \in Seq(A) /\ <<>> \in Seq(A)
OBVIOUS

LEMMA CharsAre ==
    /\ "" \in Chars /\ <<>> \in Seq(Chars) /\ Newline \in Chars /\ Backslash \in Chars
    /\ STRING \subseteq Chars /\ Seq(STRING) \subseteq Seq(Chars)
    /\ {"", "\t", "a", "b", "A", "B", Newline, Backslash} \subseteq Chars
    /\ \A n \in Nat : ToString(n) \in Chars
<1>1. STRING \subseteq Chars
  BY DEF Chars
<1>2. Seq(STRING) \subseteq Seq(Chars)
  BY <1>1, SeqSub
<1>3. {"", "\t", "a", "b", "A", "B", Newline, Backslash} \subseteq Chars
  BY Zenon DEF Chars
<1>4. \A n \in Nat : ToString(n) \in Chars
  BY Zenon DEF Chars
<1>5. "" \in Chars /\ Newline \in Chars /\ Backslash \in Chars
  BY Zenon DEF Chars
<1>6. <<>> \in Seq(Chars)
  OBVIOUS
<1> QED
  BY <1>1, <1>2, <1>3, <1>4, <1>5, <1>6

LEMMA EscapeIsText ==
    ASSUME NEW c \in Chars
    PROVE  Escape(c) \in Chars
<1>1. Escape(c) \in {Newline, "\t", c}
  BY Zenon DEF Escape
<1> QED
  BY <1>1, CharsAre

LEMMA AppendedText ==
    ASSUME NEW A, NEW s \in Seq(A), NEW x \in A
    PROVE  Append(s, x) \in Seq(A)
OBVIOUS

\* What a replacement is read as.
Conversions == [kind : {"lit", "case"}, c : Chars]
Parts == Conversions \cup [kind : {"group"}, c : Nat]
PartsRead == [quoted : BOOLEAN, parts : Seq(Parts)]

LEMMA PartOfTyped ==
    ASSUME NEW c \in Chars
    PROVE  PartOf(c) \in Parts /\ Lit(c) \in Parts /\ Group(0) \in Parts
<1>1. Lit(c) \in Parts /\ Group(0) \in Parts /\ CaseOp(c) \in Parts
  BY DEF Lit, Group, CaseOp, Parts, Conversions
<1>2. Lit(Escape(c)) \in Parts
  BY EscapeIsText DEF Lit, Parts, Conversions
<1>3. c \in Digits => Value(c) \in Nat
  <2> SUFFICES ASSUME c \in Digits PROVE Value(c) \in Nat
    OBVIOUS
  <2>1. PICK i \in 1..10 : c = Numerals[i]
    BY DEF Digits, ToSet, Numerals
  <2>2. PICK n \in 0..9 : c = Numerals[n + 1]
    <3>1. i - 1 \in 0..9 /\ (i - 1) + 1 = i
      OBVIOUS
    <3> QED
      BY <2>1, <3>1
  <2>3. Value(c) \in 0..9
    BY <2>2, Zenon DEF Value, Digits
  <2> QED
    BY <2>3
<1>4. c \in Digits => Group(Value(c)) \in Parts
  BY <1>3 DEF Group, Parts
<1> QED
  BY <1>1, <1>2, <1>4, Zenon DEF PartOf

LEMMA PartRead ==
    ASSUME NEW acc \in PartsRead, NEW c \in Chars
    PROVE  partRead(acc, c) \in PartsRead
<1>1. PICK q \in Parts, l \in Parts : q = PartOf(c) /\ l = IF c = "&" THEN Group(0) ELSE Lit(c)
  BY PartOfTyped
<1>2. acc.parts \in Seq(Parts) /\ acc.quoted \in BOOLEAN
  BY DEF PartsRead
<1>3. Append(acc.parts, q) \in Seq(Parts) /\ Append(acc.parts, l) \in Seq(Parts)
  BY <1>2, AppendedText
<1>4. CASE acc.quoted
  <2>1. partRead(acc, c) = [quoted |-> FALSE, parts |-> Append(acc.parts, q)]
    BY <1>1, <1>4, Zenon DEF partRead
  <2> QED
    BY <1>3, <2>1 DEF PartsRead
<1>5. CASE ~acc.quoted /\ c = Backslash
  <2>1. partRead(acc, c) = [acc EXCEPT !.quoted = TRUE]
    BY <1>5, Zenon DEF partRead
  <2> QED
    BY <1>2, <2>1 DEF PartsRead
<1>6. CASE ~acc.quoted /\ c # Backslash
  <2>1. partRead(acc, c) = [acc EXCEPT !.parts = Append(acc.parts, l)]
    BY <1>1, <1>6, Zenon DEF partRead
  <2> QED
    BY <1>2, <1>3, <2>1 DEF PartsRead
<1> QED
  BY <1>2, <1>4, <1>5, <1>6

LEMMA RIs ==
    ASSUME NEW t, NEW s
    PROVE  FoldLeft(partRead, t, s) = R!Folded(t, s)
  BY Zenon DEF R!Folded, FoldLeft, R!FoldLeft, MapThenFoldSet, R!MapThenFoldSet, Max, R!Max

LEMMA ReplacementRead ==
    ASSUME NEW src \in Seq(Chars)
    PROVE  parseReplacement(src) \in Seq(Parts)
<1>1. PICK t : t = [quoted |-> FALSE, parts |-> <<>>]
  OBVIOUS
<1>2. t \in PartsRead
  BY <1>1 DEF PartsRead
<1>3. R!Keeps(PartsRead, Chars)
  BY PartRead DEF R!Keeps
<1>4. R!Folded(t, src) \in PartsRead
  BY <1>2, <1>3, R!FoldKeeps
<1>5. PICK r \in PartsRead : r = FoldLeft(partRead, t, src)
  BY <1>4, RIs
<1>6. parseReplacement(src) = IF r.quoted THEN Append(r.parts, Lit(Backslash)) ELSE r.parts
  BY <1>1, <1>5, Zenon DEF parseReplacement
<1>7. Lit(Backslash) \in Parts /\ r.parts \in Seq(Parts)
  BY PartOfTyped, CharsAre DEF PartsRead
<1> QED
  BY <1>6, <1>7, AppendedText

Emitted == [mode : Chars, once : Chars, out : Seq(Chars)]

LEMMA InModeTyped ==
    ASSUME NEW m, NEW c \in Chars
    PROVE  InMode(m, c) \in Chars
<1>1. Upper(c) \in {"A", "B", c} /\ Lower(c) \in {"a", "b", c}
  BY Zenon DEF Upper, Lower
<1>2. InMode(m, c) \in {Upper(c), Lower(c), c}
  BY Zenon DEF InMode
<1> QED
  BY <1>1, <1>2, CharsAre

LEMMA EmitTyped ==
    ASSUME NEW acc \in Emitted, NEW p \in Conversions
    PROVE  emit(acc, p) \in Emitted
<1>1. acc.out \in Seq(Chars) /\ acc.mode \in Chars /\ acc.once \in Chars /\ p.c \in Chars
  BY DEF Emitted, Conversions
<1>2. PICK a \in Seq(Chars), b \in Seq(Chars) :
          a = Append(acc.out, InMode(acc.once, p.c)) /\ b = Append(acc.out, InMode(acc.mode, p.c))
  BY <1>1, InModeTyped, AppendedText
<1>3. CASE p.kind = "case"
  <2>1. emit(acc, p) = caseAfter(p.c, acc)
    BY <1>3, Zenon DEF emit
  <2>2. caseAfter(p.c, acc) \in Emitted
    BY <1>1, CharsAre DEF caseAfter, Emitted
  <2> QED
    BY <2>1, <2>2
<1>4. CASE p.kind # "case" /\ acc.once # ""
  <2>1. emit(acc, p) = [mode |-> acc.mode, once |-> "", out |-> a]
    BY <1>2, <1>4, Zenon DEF emit
  <2>2. PICK e \in Chars : e = ""
    BY CharsAre, Zenon
  <2>3. emit(acc, p) = [mode |-> acc.mode, once |-> e, out |-> a]
    BY <2>1, <2>2, Zenon
  <2> QED
    BY <1>1, <2>3 DEF Emitted
<1>5. CASE p.kind # "case" /\ acc.once = ""
  <2>1. emit(acc, p) = [acc EXCEPT !.out = b]
    BY <1>2, <1>5, Zenon DEF emit
  <2> QED
    BY <1>1, <2>1, CharsAre DEF Emitted
<1> QED
  BY <1>3, <1>4, <1>5

LEMMA FilledTyped ==
    ASSUME NEW p \in Parts, NEW x \in Chars
    PROVE  filled(p, <<<<x>>>>) \in Seq(Conversions)
<1>1. PICK g : g = <<<<x>>>>
  OBVIOUS
<1>2. Len(g) = 1 /\ g[1] = <<x>> /\ Len(g[1]) = 1 /\ g[1][1] = x
  BY <1>1
<1>3. CASE p.kind = "group"
  <2>1. p.c \in Nat
    BY <1>3 DEF Parts, Conversions
  <2>2. CASE p.c < Len(g)
    <3>1. p.c + 1 = 1
      BY <1>2, <2>1, <2>2
    <3>2. PICK y : y = [i \in 1..Len(g[p.c + 1]) |-> Lit(g[p.c + 1][i])]
      OBVIOUS
    <3>3. y = [i \in 1..1 |-> Lit(g[1][i])]
      BY <1>2, <3>1, <3>2
    <3>4. \A i \in 1..1 : Lit(g[1][i]) \in Conversions
      BY <1>2 DEF Lit, Conversions
    <3>5. y \in Seq(Conversions)
      BY <3>3, <3>4
    <3>0. ~(p.c >= Len(g))
      BY <1>2, <3>1, <2>1
    <3>6. filled(p, g) = y
      BY <1>3, <2>2, <3>0, <3>2, Zenon DEF filled
    <3> QED
      BY <1>1, <3>5, <3>6
  <2>3. CASE ~(p.c < Len(g))
    <3>1. p.c >= Len(g)
      BY <1>2, <2>1, <2>3
    <3>2. filled(p, g) = <<>>
      BY <1>3, <2>3, <3>1, Zenon DEF filled
    <3>3. <<>> \in Seq(Conversions)
      OBVIOUS
    <3> QED
      BY <1>1, <3>2, <3>3
  <2> QED
    BY <2>2, <2>3
<1>4. CASE p.kind # "group"
  <2>1. p \in Conversions
    BY <1>4 DEF Parts
  <2>2. filled(p, g) = <<p>>
    BY <1>4, Zenon DEF filled
  <2>3. <<p>> \in Seq(Conversions)
    BY <2>1, OneIs
  <2> QED
    BY <1>1, <2>2, <2>3
<1> QED
  BY <1>3, <1>4

\* What a match is replaced with.
LEMMA EIs ==
    ASSUME NEW t, NEW s
    PROVE  FoldLeft(emit, t, s) = E!Folded(t, s)
  BY Zenon DEF E!Folded, FoldLeft, E!FoldLeft, MapThenFoldSet, E!MapThenFoldSet, Max, E!Max

LEMMA FlattenIs ==
    ASSUME NEW z
    PROVE  FlattenSeq(z) = E!FlattenSeq(z)
  BY Zenon DEF FlattenSeq, E!FlattenSeq

LEMMA ExpandTyped ==
    ASSUME NEW src \in Seq(Chars), NEW x \in Chars
    PROVE  expand(parseReplacement(src), <<<<x>>>>) \in Seq(Chars)
<1>1. PICK parts \in Seq(Parts) : parts = parseReplacement(src)
  BY ReplacementRead
<1>2. PICK z : z = [i \in 1..Len(parts) |-> filled(parts[i], <<<<x>>>>)]
  OBVIOUS
<1>3. \A i \in 1..Len(parts) : filled(parts[i], <<<<x>>>>) \in Seq(Conversions)
  <2> SUFFICES ASSUME NEW i \in 1..Len(parts) PROVE filled(parts[i], <<<<x>>>>) \in Seq(Conversions)
    OBVIOUS
  <2>1. parts[i] \in Parts
    OBVIOUS
  <2> QED
    BY <2>1, FilledTyped
<1>4. z \in Seq(Seq(Conversions))
  <2>1. PICK A : A = Seq(Conversions)
    OBVIOUS
  <2>2. \A i \in 1..Len(parts) : filled(parts[i], <<<<x>>>>) \in A
    BY <1>3, <2>1
  <2>3. PICK n \in Nat : n = Len(parts)
    OBVIOUS
  <2>4. z = [i \in 1..n |-> z[i]] /\ \A i \in 1..n : z[i] \in A
    BY <1>2, <2>2, <2>3
  <2>5. z \in Seq(A)
    BY <2>3, <2>4
  <2> QED
    BY <2>1, <2>5
<1>5. PICK f \in Seq(Conversions) : f = FlattenSeq(z)
  BY <1>4, E!FlattenTyped, FlattenIs
<1>6. PICK t : t = [mode |-> "", once |-> "", out |-> <<>>]
  OBVIOUS
<1>7. t \in Emitted
  <2>1. PICK e \in Chars, q \in Seq(Chars) : e = "" /\ q = <<>>
    BY CharsAre, Zenon
  <2>2. t = [mode |-> e, once |-> e, out |-> q]
    BY <1>6, <2>1, Zenon
  <2> QED
    BY <2>2 DEF Emitted
<1>8. E!Keeps(Emitted, Conversions)
  BY EmitTyped DEF E!Keeps
<1>9. FoldLeft(emit, t, f) \in Emitted
  BY <1>7, <1>8, E!FoldKeeps, EIs
<1>10. expand(parts, <<<<x>>>>) = FoldLeft(emit, t, f).out
  BY <1>2, <1>5, <1>6, Zenon DEF expand
<1> QED
  BY <1>1, <1>9, <1>10 DEF Emitted

CharsRead == [quoted : BOOLEAN, out : Seq(Chars)]

LEMMA CIs ==
    ASSUME NEW t, NEW s
    PROVE  FoldLeft(charRead, t, s) = C!Folded(t, s)
  BY Zenon DEF C!Folded, FoldLeft, C!FoldLeft, MapThenFoldSet, C!MapThenFoldSet, Max, C!Max

LEMMA CharRead ==
    ASSUME NEW acc \in CharsRead, NEW c \in Chars
    PROVE  charRead(acc, c) \in CharsRead
<1>1. acc.out \in Seq(Chars) /\ acc.quoted \in BOOLEAN
  BY DEF CharsRead
<1>2. PICK a \in Seq(Chars), b \in Seq(Chars) : a = Append(acc.out, Escape(c)) /\ b = Append(acc.out, c)
  BY <1>1, EscapeIsText, AppendedText
<1>3. CASE acc.quoted
  <2>1. charRead(acc, c) = [quoted |-> FALSE, out |-> a]
    BY <1>2, <1>3, Zenon DEF charRead
  <2> QED
    BY <2>1 DEF CharsRead
<1>4. CASE ~acc.quoted /\ c = Backslash
  <2>1. charRead(acc, c) = [acc EXCEPT !.quoted = TRUE]
    BY <1>4, Zenon DEF charRead
  <2> QED
    BY <1>1, <2>1 DEF CharsRead
<1>5. CASE ~acc.quoted /\ c # Backslash
  <2>1. charRead(acc, c) = [acc EXCEPT !.out = b]
    BY <1>2, <1>5, Zenon DEF charRead
  <2> QED
    BY <1>1, <2>1 DEF CharsRead
<1> QED
  BY <1>1, <1>3, <1>4, <1>5

LEMMA UnescapeTyped ==
    ASSUME NEW src \in Seq(Chars)
    PROVE  unescape(src) \in Seq(Chars)
<1>1. PICK t : t = [quoted |-> FALSE, out |-> <<>>]
  OBVIOUS
<1>2. t \in CharsRead
  BY <1>1 DEF CharsRead
<1>3. C!Keeps(CharsRead, Chars)
  BY CharRead DEF C!Keeps
<1>4. C!Folded(t, src) \in CharsRead
  BY <1>2, <1>3, C!FoldKeeps
<1>5. PICK r \in CharsRead : r = FoldLeft(charRead, t, src)
  BY <1>4, CIs
<1>6. unescape(src) = IF r.quoted THEN Append(r.out, Backslash) ELSE r.out
  BY <1>1, <1>5, Zenon DEF unescape
<1>7. Backslash \in Chars /\ r.out \in Seq(Chars)
  BY CharsAre DEF CharsRead
<1> QED
  BY <1>6, <1>7, AppendedText

\* A character of the first half of y has one of the second.
LEMMA TransliteratedTyped ==
    ASSUME NEW src \in Seq(Chars), NEW dst \in Seq(Chars), translitOk(src, dst),
           NEW x \in DOMAIN ymap(src, dst)
    PROVE  ymap(src, dst)[x] \in Chars
<1>1. PICK a \in Seq(Chars), b \in Seq(Chars) : a = unescape(src) /\ b = unescape(dst)
  BY UnescapeTyped
<1>2. Len(a) = Len(b)
  BY <1>1, Zenon DEF translitOk
<1> DEFINE Is(i) == a[i] = x /\ \A j \in (i + 1)..Len(a) : a[j] # x
<1>3. DOMAIN ymap(src, dst) = ToSet(a)
  BY <1>1, Zenon DEF ymap
<1>4. ymap(src, dst)[x] = b[CHOOSE i \in 1..Len(a) : Is(i)]
  BY <1>1, <1>3, Zenon DEF ymap
<1>5. PICK n \in Nat : n = Len(a)
  OBVIOUS
<1>6. PICK P : P = {i \in 1..n : a[i] = x}
  OBVIOUS
<1>7. P # {} /\ P \in SUBSET (0..n)
  <2>1. \E i \in DOMAIN a : a[i] = x
    BY <1>3 DEF ToSet
  <2> QED
    BY <1>5, <1>6, <2>1
<1>8. PICK m \in P : \A y \in P : m >= y
  BY <1>7, E!LargestExists
<1>9. m \in 1..Len(a) /\ Is(m)
  BY <1>5, <1>6, <1>8
<1>10. PICK i \in 1..Len(a) : i = CHOOSE k \in 1..Len(a) : Is(k)
  <2> HIDE DEF Is
  <2> QED
    BY <1>9, Zenon
<1>11. b[i] \in Chars
  BY <1>2
<1> QED
  BY <1>4, <1>10, <1>11

----------------------------------------------------------------------------
(* What is written.                                                         *)

Outs == [text : Seq(Chars), missingNL : BOOLEAN, err : BOOLEAN, room : Nat, starts : SUBSET Nat]

LEMMA PutIs ==
    ASSUME NEW o \in Outs, NEW s \in Seq(Chars)
    PROVE  /\ put(o, s) \in Outs
           /\ put(o, s).text = IF o.room = 0 THEN o.text ELSE o.text \o s
           /\ put(o, s).err = (o.err \/ o.room = 0)
           /\ put(o, s).missingNL = o.missingNL /\ put(o, s).starts = o.starts
<1>1. PICK t \in Seq(Chars) : t = o.text \o s
  BY E!ConcatIs DEF Outs
<1>2. CASE o.room = 0
  BY <1>2 DEF put, Outs
<1>3. CASE o.room # 0
  <2>1. PICK r \in Nat : r = o.room - 1
    BY <1>3 DEF Outs
  <2>2. put(o, s) = [o EXCEPT !.text = t, !.room = r]
    BY <1>1, <1>3, <2>1, Zenon DEF put
  <2>3. o = [text |-> o.text, missingNL |-> o.missingNL, err |-> o.err, room |-> o.room, starts |-> o.starts]
    BY DEF Outs
  <2>4. put(o, s) = [text |-> t, missingNL |-> o.missingNL, err |-> o.err, room |-> r, starts |-> o.starts]
    BY <2>2, <2>3
  <2> QED
    BY <1>1, <1>3, <2>4 DEF Outs
<1> QED
  BY <1>2, <1>3

\* A line's missing end, if there is one, goes out before a text.
Ended(o) == IF o.missingNL THEN o.text \o <<Newline>> ELSE o.text

LEMMA EndedTyped ==
    ASSUME NEW o \in Outs
    PROVE  Ended(o) \in Seq(Chars) /\ <<Newline>> \in Seq(Chars)
<1>1. <<Newline>> \in Seq(Chars)
  BY CharsAre, OneIs
<1>2. o.text \in Seq(Chars)
  BY DEF Outs
<1> QED
  BY <1>1, <1>2, E!ConcatIs DEF Ended

LEMMA WriteIs ==
    ASSUME NEW o \in Outs, NEW s \in Seq(Chars)
    PROVE  /\ write(o, s) \in Outs
           /\ \/ write(o, s).err /\ write(o, s).text = o.text /\ write(o, s).starts = o.starts
              \/ /\ ~o.err
                 /\ write(o, s).starts = o.starts \cup {Len(Ended(o)) + 1}
                 /\ \/ write(o, s).err /\ write(o, s).text = Ended(o)
                    \/ /\ ~write(o, s).err /\ ~write(o, s).missingNL
                       /\ write(o, s).text = Ended(o) \o s
<1>1. <<Newline>> \in Seq(Chars) /\ Ended(o) \in Seq(Chars)
  BY EndedTyped
<1>2. PICK p : p = [o EXCEPT !.missingNL = FALSE]
  OBVIOUS
<1>3. p \in Outs /\ p.text = o.text /\ p.err = o.err /\ p.starts = o.starts /\ ~p.missingNL
  BY <1>2 DEF Outs
<1>4. PICK n : n = put(p, <<Newline>>)
  OBVIOUS
<1>5. /\ n \in Outs /\ n.err = (p.err \/ p.room = 0) /\ ~n.missingNL /\ n.starts = o.starts
      /\ n.text = IF p.room = 0 THEN p.text ELSE p.text \o <<Newline>>
  BY <1>1, <1>3, <1>4, PutIs
<1>6. PICK o1 : o1 = IF o.missingNL /\ ~o.err THEN n ELSE o
  OBVIOUS
<1>7. o1 \in Outs /\ o1.starts = o.starts
  BY <1>5, <1>6
<1>8. o1.err => o1.text = o.text
  BY <1>3, <1>5, <1>6
<1>9. ~o1.err => ~o.err /\ o1.text = Ended(o) /\ ~o1.missingNL
  BY <1>3, <1>5, <1>6 DEF Ended, Outs
<1>10. PICK q : q = put(o1, s)
  OBVIOUS
<1>11. /\ q \in Outs /\ q.err = (o1.err \/ o1.room = 0) /\ q.missingNL = o1.missingNL /\ q.starts = o1.starts
       /\ q.text = IF o1.room = 0 THEN o1.text ELSE o1.text \o s
  BY <1>7, <1>10, PutIs
<1>12. write(o, s) = IF o1.err THEN o1 ELSE [q EXCEPT !.starts = q.starts \cup {Len(o1.text) + 1}]
  BY <1>2, <1>4, <1>6, <1>10, Zenon DEF write
<1>13. CASE o1.err
  BY <1>7, <1>8, <1>12, <1>13
<1>14. CASE ~o1.err
  <2>1. PICK w : w = [q EXCEPT !.starts = q.starts \cup {Len(o1.text) + 1}]
    OBVIOUS
  <2>2. Len(o1.text) + 1 \in Nat
    BY <1>7 DEF Outs
  <2>10. q.starts \in SUBSET Nat
    BY <1>11 DEF Outs
  <2>3. PICK N \in SUBSET Nat : N = q.starts \cup {Len(o1.text) + 1}
    BY <2>2, <2>10
  <2>4. /\ w \in Outs /\ w.text = q.text /\ w.err = q.err /\ w.missingNL = q.missingNL
        /\ w.starts = N
    BY <1>11, <2>1, <2>3 DEF Outs
  <2>5. write(o, s) = w
    BY <1>12, <1>14, <2>1
  <2>6. N = o.starts \cup {Len(Ended(o)) + 1}
    BY <1>7, <1>9, <1>11, <1>14, <2>3
  <2>7. w.err = (o1.room = 0)
    BY <1>11, <1>14, <2>4
  <2>8. w.text = IF o1.room = 0 THEN Ended(o) ELSE Ended(o) \o s
    BY <1>9, <1>11, <1>14, <2>4
  <2> QED
    BY <1>9, <1>11, <1>14, <2>4, <2>5, <2>6, <2>7, <2>8
<1> QED
  BY <1>13, <1>14

LEMMA WIs ==
    ASSUME NEW t, NEW s
    PROVE  FoldLeft(write, t, s) = W!Folded(t, s)
  BY Zenon DEF W!Folded, FoldLeft, W!FoldLeft, MapThenFoldSet, W!MapThenFoldSet, Max, W!Max

\* What is written to the end is at the end.
LEMMA EndIsSuffix ==
    ASSUME NEW A, NEW u \in Seq(A), NEW s \in Seq(A)
    PROVE  IsSuffix(s, u \o s)
<1>1. PICK n \in Nat, m \in Nat : n = Len(u) /\ m = Len(s)
  OBVIOUS
<1>2. PICK t : t = u \o s
  OBVIOUS
<1>3. t \in Seq(A) /\ Len(t) = n + m /\ \A i \in 1..(n + m) : t[i] = IF i <= n THEN u[i] ELSE s[i - n]
  BY <1>1, <1>2, E!ConcatIs
<1>4. PICK a, b : a = Reverse(s) /\ b = Reverse(t)
  OBVIOUS
<1>5. a = [i \in 1..m |-> s[(m - i) + 1]]
  BY <1>1, <1>4 DEF Reverse
<1>6. b = [i \in 1..(n + m) |-> t[((n + m) - i) + 1]]
  BY <1>3, <1>4 DEF Reverse
<1>7. a \in Seq(A) /\ Len(a) = m /\ \A i \in 1..m : a[i] = s[(m - i) + 1]
  <2>1. \A i \in 1..m : s[(m - i) + 1] \in A
    BY <1>1
  <2> QED
    BY <1>5, <2>1
<1>8. b \in Seq(A) /\ Len(b) = n + m /\ \A i \in 1..(n + m) : b[i] = t[((n + m) - i) + 1]
  <2>1. \A i \in 1..(n + m) : t[((n + m) - i) + 1] \in A
    BY <1>3
  <2> QED
    BY <1>6, <2>1
<1>9. ASSUME NEW i \in 1..m PROVE a[i] = b[i]
  <2>1. i \in 1..(n + m) /\ ((n + m) - i) + 1 \in 1..(n + m)
    OBVIOUS
  <2>2. ~(((n + m) - i) + 1 <= n) /\ (((n + m) - i) + 1) - n = (m - i) + 1
    OBVIOUS
  <2> QED
    BY <1>3, <1>7, <1>8, <2>1, <2>2
<1>10. SubSeq(a, 1, m) = SubSeq(b, 1, m)
  <2>1. CASE m = 0
    BY <1>7, <1>8, <2>1
  <2>2. CASE m # 0
    <3>1. PICK c, d : c = SubSeq(a, 1, m) /\ d = SubSeq(b, 1, m)
      OBVIOUS
    <3>2. c \in Seq(A) /\ Len(c) = m /\ \A i \in 1..m : c[i] = a[i]
      BY <1>7, <3>1
    <3>3. d \in Seq(A) /\ Len(d) = m /\ \A i \in 1..m : d[i] = b[i]
      BY <1>8, <3>1
    <3>4. c = d
      BY <1>9, <3>2, <3>3, E!SameIs
    <3> QED
      BY <3>1, <3>4
  <2> QED
    BY <2>1, <2>2
<1>11. m <= n + m
  OBVIOUS
<1> QED
  BY <1>2, <1>4, <1>7, <1>8, <1>10, <1>11 DEF IsSuffix, IsPrefix

\* Texts that are written one by one are at the end, together and in order.
LEMMA WriteAllIs ==
    ASSUME NEW o \in Outs, NEW z \in Seq(Seq(Chars))
    PROVE  /\ writeAll(o, z) \in Outs
           /\ writeAll(o, z).err \/ IsSuffix(FlattenSeq(z), writeAll(o, z).text)
<1> DEFINE After(q) == W!Folded(o, q)
           T == {q \in Seq(Seq(Chars)) :
                    /\ After(q) \in Outs
                    /\ After(q).err \/ (/\ q # <<>> => ~After(q).missingNL
                                        /\ \E u \in Seq(Chars) : After(q).text = u \o E!FlattenSeq(q))}
<1>1. <<>> \in T
  <2>1. <<>> \in Seq(Seq(Chars)) /\ W!Folded(o, <<>>) = o /\ E!FlattenSeq(<<>>) = <<>>
    BY W!FoldEmpty, E!FlattenEmpty
  <2>2. o.text \in Seq(Chars) /\ o.text \o <<>> = o.text
    BY E!AllIs DEF Outs
  <2> QED
    BY <2>1, <2>2
<1>2. ASSUME NEW q \in Seq(Seq(Chars)), NEW x \in Seq(Chars), q \in T PROVE Append(q, x) \in T
  <2>1. PICK v \in Outs : v = After(q)
    BY <1>2
  <2>2. PICK w : w = write(v, x)
    OBVIOUS
  <2>3. After(Append(q, x)) = w
    BY <2>1, <2>2, W!FoldAppend
  <2>4. PICK f \in Seq(Chars) : f = E!FlattenSeq(q)
    BY E!FlattenTyped
  <2>5. E!FlattenSeq(Append(q, x)) = f \o x
    BY <2>4, E!FlattenAppend
  <2>6. Append(q, x) \in Seq(Seq(Chars))
    BY AppendedText
  <2>7. ASSUME ~w.err PROVE ~w.missingNL /\ \E u \in Seq(Chars) : w.text = u \o (f \o x)
    <3>1. ~v.err /\ ~w.missingNL /\ w.text = Ended(v) \o x
      BY <2>2, <2>7, WriteIs
    <3>2. PICK u \in Seq(Chars) : v.text = u \o f
      BY <1>2, <2>1, <2>4, <3>1
    <3>3. CASE q = <<>>
      <4>1. f = <<>> /\ f \o x = x
        BY <2>4, <3>3, E!FlattenEmpty, E!AllIs
      <4>2. Ended(v) \in Seq(Chars)
        BY EndedTyped
      <4> QED
        BY <3>1, <4>1, <4>2
    <3>4. CASE q # <<>>
      <4>1. Ended(v) = u \o f
        BY <1>2, <2>1, <3>1, <3>2, <3>4 DEF Ended
      <4>2. (u \o f) \o x = u \o (f \o x)
        BY E!ConcatAssoc
      <4> QED
        BY <3>1, <4>1, <4>2
    <3> QED
      BY <3>3, <3>4
  <2>8. w \in Outs
    BY <2>2, WriteIs
  <2> QED
    BY <2>3, <2>5, <2>6, <2>7, <2>8
<1>3. z \in T
  <2> HIDE DEF T
  <2> QED
    BY <1>1, <1>2, E!SeqInduct
<1>4. writeAll(o, z) = After(z)
  BY WIs, Zenon DEF writeAll
<1>5. FlattenSeq(z) = E!FlattenSeq(z) /\ E!FlattenSeq(z) \in Seq(Chars)
  BY FlattenIs, E!FlattenTyped
<1>6. After(z) \in Outs /\ (After(z).err \/ \E u \in Seq(Chars) : After(z).text = u \o E!FlattenSeq(z))
  BY <1>3
<1> QED
  BY <1>4, <1>5, <1>6, EndIsSuffix

----------------------------------------------------------------------------
(* Lines apart.                                                             *)

\* Whole texts end their line.
Wholes == {s \in Seq(Chars) : s # <<>> /\ s[Len(s)] = Newline}
Apart(o) == \A p \in o.starts : p <= Len(o.text) + 1 /\ (p >= 2 => o.text[p - 1] = Newline)
Closed(o) == ~o.err /\ ~o.missingNL => o.text = <<>> \/ o.text[Len(o.text)] = Newline
Goods == {o \in Outs : Apart(o) /\ Closed(o)}

LEMMA PutApart ==
    ASSUME NEW o \in Outs, Apart(o), NEW s \in Seq(Chars)
    PROVE  /\ Apart(put(o, s)) /\ put(o, s) \in Outs
           /\ s \in Wholes => Closed(put(o, s))
<1>1. PICK t \in Seq(Chars) : t = o.text
  BY DEF Outs
<1>2. PICK n \in Nat, m \in Nat : n = Len(t) /\ m = Len(s)
  OBVIOUS
<1>3. PICK p : p = put(o, s)
  OBVIOUS
<1>4. /\ p \in Outs /\ p.text = IF o.room = 0 THEN t ELSE t \o s
      /\ p.err = (o.err \/ o.room = 0) /\ p.starts = o.starts
  BY <1>1, <1>3, PutIs
<1>5. o.starts \in SUBSET Nat
  BY DEF Outs
<1>0. PICK c : c = t \o s
  OBVIOUS
<1>6. c \in Seq(Chars) /\ c = t \o s /\ Len(c) = n + m /\ \A i \in 1..(n + m) : c[i] = IF i <= n THEN t[i] ELSE s[i - n]
  BY <1>0, <1>2, E!ConcatIs
<1>7. Apart(p)
  <2> SUFFICES ASSUME NEW k \in o.starts
               PROVE  k <= Len(p.text) + 1 /\ (k >= 2 => p.text[k - 1] = Newline)
    BY <1>4 DEF Apart
  <2>1. k \in Nat /\ k <= n + 1 /\ (k >= 2 => t[k - 1] = Newline)
    BY <1>1, <1>2, <1>5 DEF Apart
  <2>2. CASE o.room = 0
    BY <1>2, <1>4, <2>1, <2>2
  <2>3. CASE o.room # 0
    <3>1. p.text = c
      BY <1>4, <1>6, <2>3
    <3>2. ASSUME k >= 2 PROVE c[k - 1] = Newline
      <4>1. k - 1 \in 1..(n + m) /\ k - 1 <= n
        BY <2>1, <3>2
      <4> QED
        BY <1>6, <2>1, <3>2, <4>1
    <3>3. k <= Len(c) + 1
      BY <1>6, <2>1
    <3> QED
      BY <3>1, <3>2, <3>3
  <2> QED
    BY <2>2, <2>3
<1>8. ASSUME s \in Wholes PROVE Closed(p)
  <2>1. m # 0 /\ s[m] = Newline
    BY <1>2, <1>8 DEF Wholes
  <2>2. c[n + m] = Newline
    <3>1. n + m \in 1..(n + m) /\ ~(n + m <= n) /\ (n + m) - n = m
      BY <2>1
    <3> QED
      BY <1>6, <2>1, <3>1
  <2>3. ~p.err => p.text = c
    BY <1>4, <1>6
  <2> QED
    BY <1>6, <2>2, <2>3 DEF Closed
<1> QED
  BY <1>3, <1>4, <1>7, <1>8

LEMMA NewlineWhole == <<Newline>> \in Wholes
<1>1. PICK s : s = <<Newline>>
  OBVIOUS
<1>2. s \in Seq(Chars) /\ Len(s) = 1 /\ s[1] = Newline
  BY <1>1, CharsAre, OneIs
<1>3. s # <<>>
  BY <1>2
<1> QED
  BY <1>1, <1>2, <1>3 DEF Wholes

LEMMA WriteApart ==
    ASSUME NEW o \in Goods, NEW s \in Seq(Chars)
    PROVE  /\ Apart(write(o, s)) /\ write(o, s) \in Outs
           /\ s \in Wholes => write(o, s) \in Goods
<1>1. o \in Outs /\ Apart(o) /\ Closed(o) /\ <<Newline>> \in Seq(Chars)
  BY EndedTyped DEF Goods
<1>2. PICK p : p = [o EXCEPT !.missingNL = FALSE]
  OBVIOUS
<1>3. p \in Outs /\ p.text = o.text /\ p.err = o.err /\ p.starts = o.starts /\ ~p.missingNL
  BY <1>1, <1>2 DEF Outs
<1>4. Apart(p)
  BY <1>1, <1>3 DEF Apart
<1>5. PICK n : n = put(p, <<Newline>>)
  OBVIOUS
<1>6. n \in Outs /\ Apart(n) /\ Closed(n) /\ n.missingNL = p.missingNL
  BY <1>1, <1>3, <1>4, <1>5, PutApart, PutIs, NewlineWhole
<1>7. PICK o1 : o1 = IF o.missingNL /\ ~o.err THEN n ELSE o
  OBVIOUS
<1>8. o1 \in Outs /\ Apart(o1) /\ Closed(o1) /\ (~o1.err => ~o1.missingNL)
  BY <1>1, <1>3, <1>6, <1>7
<1>9. PICK q : q = [o1 EXCEPT !.starts = o1.starts \cup {Len(o1.text) + 1}]
  OBVIOUS
<1>10. PICK t \in Seq(Chars) : t = o1.text
  BY <1>8 DEF Outs
<1>11. q \in Outs /\ q.text = t /\ q.starts = o1.starts \cup {Len(t) + 1} /\ q.room = o1.room /\ q.err = o1.err
  <2>1. o1.starts \in SUBSET Nat
    BY <1>8 DEF Outs
  <2>4. Len(t) + 1 \in Nat
    OBVIOUS
  <2>2. PICK N \in SUBSET Nat : N = o1.starts \cup {Len(t) + 1}
    BY <2>1, <2>4
  <2>3. q = [o1 EXCEPT !.starts = N]
    BY <1>9, <1>10, <2>2
  <2> QED
    BY <1>8, <1>10, <2>2, <2>3 DEF Outs
<1>12. ASSUME ~o1.err PROVE Apart(q)
  <2> SUFFICES ASSUME NEW k \in q.starts PROVE k <= Len(t) + 1 /\ (k >= 2 => t[k - 1] = Newline)
    BY <1>11 DEF Apart
  <2>1. t = <<>> \/ t[Len(t)] = Newline
    BY <1>8, <1>10, <1>12 DEF Closed
  <2>2. CASE k \in o1.starts
    BY <1>8, <1>10, <2>2 DEF Apart
  <2>3. CASE k = Len(t) + 1
    BY <2>1, <2>3
  <2> QED
    BY <1>11, <2>2, <2>3
<1>13. PICK r : r = put(q, s)
  OBVIOUS
<1>14. ~o1.err => Apart(r) /\ r \in Outs /\ (s \in Wholes => Closed(r))
  BY <1>11, <1>12, <1>13, PutApart
<1>15. write(o, s) = IF o1.err THEN o1 ELSE r
  <2>1. CASE o1.err
    BY <1>2, <1>5, <1>7, <2>1, Zenon DEF write
  <2>2. CASE ~o1.err
    <3>1. PICK v : v = put(o1, s)
      OBVIOUS
    <3>2. write(o, s) = [v EXCEPT !.starts = v.starts \cup {Len(o1.text) + 1}]
      BY <1>2, <1>5, <1>7, <2>2, <3>1, Zenon DEF write
    <3>3. [v EXCEPT !.starts = v.starts \cup {Len(o1.text) + 1}] = r
      BY <1>8, <1>9, <1>13, <3>1 DEF put, Outs
    <3> QED
      BY <2>2, <3>2, <3>3
  <2> QED
    BY <2>1, <2>2
<1> QED
  BY <1>8, <1>14, <1>15 DEF Goods

LEMMA LineApart ==
    ASSUME NEW o \in Goods, NEW s \in Seq(Chars), NEW nl \in BOOLEAN
    PROVE  line(o, s, nl) \in Goods
<1>1. PICK w : w = write(o, s)
  OBVIOUS
<1>2. w \in Outs /\ Apart(w)
  BY <1>1, WriteApart
<1>3. line(o, s, nl) = IF nl THEN (IF w.err THEN w ELSE put(w, <<Newline>>)) ELSE [w EXCEPT !.missingNL = TRUE]
  BY <1>1, Zenon DEF line
<1>4. CASE nl /\ w.err
  BY <1>2, <1>3, <1>4 DEF Goods, Closed
<1>5. CASE nl /\ ~w.err
  <2>1. <<Newline>> \in Seq(Chars) /\ <<Newline>> \in Wholes
    BY EndedTyped, NewlineWhole DEF Goods
  <2>2. put(w, <<Newline>>) \in Goods
    BY <1>2, <2>1, PutApart DEF Goods
  <2> QED
    BY <1>3, <1>5, <2>2
<1>6. CASE ~nl
  <2>1. PICK v : v = [w EXCEPT !.missingNL = TRUE]
    OBVIOUS
  <2>2. v \in Outs /\ v.text = w.text /\ v.starts = w.starts /\ v.missingNL
    BY <1>2, <2>1 DEF Outs
  <2>3. Apart(v) /\ Closed(v)
    BY <1>2, <2>2 DEF Apart, Closed
  <2> QED
    BY <1>3, <1>6, <2>1, <2>2, <2>3 DEF Goods
<1> QED
  BY <1>4, <1>5, <1>6

LEMMA LineIs ==
    ASSUME NEW o \in Outs, NEW s \in Seq(Chars), NEW nl \in BOOLEAN
    PROVE  line(o, s, nl) \in Outs
<1>1. PICK w : w = write(o, s)
  OBVIOUS
<1>2. w \in Outs
  BY <1>1, WriteIs
<1>3. line(o, s, nl) = IF nl THEN (IF w.err THEN w ELSE put(w, <<Newline>>)) ELSE [w EXCEPT !.missingNL = TRUE]
  BY <1>1, Zenon DEF line
<1>4. put(w, <<Newline>>) \in Outs
  BY <1>2, EndedTyped, PutIs
<1>5. [w EXCEPT !.missingNL = TRUE] \in Outs
  BY <1>2 DEF Outs
<1> QED
  BY <1>2, <1>3, <1>4, <1>5

LEMMA WriteAllApart ==
    ASSUME NEW o \in Goods, NEW z \in Seq(Wholes)
    PROVE  writeAll(o, z) \in Goods
<1>1. W!Keeps(Goods, Wholes)
  BY WriteApart DEF W!Keeps, Wholes
<1>2. W!Folded(o, z) \in Goods
  BY <1>1, W!FoldKeeps
<1>3. writeAll(o, z) = W!Folded(o, z)
  BY WIs, Zenon DEF writeAll
<1> QED
  BY <1>2, <1>3

LEMMA OIs ==
    ASSUME NEW t, NEW s
    PROVE  FoldLeft(opened, t, s) = O!Folded(t, s)
  BY Zenon DEF O!Folded, FoldLeft, O!FoldLeft, MapThenFoldSet, O!MapThenFoldSet, Max, O!Max

LEMMA BracesApart == BlockBegin # BlockEnd /\ BlockBegin \notin {"b", "t", "T"}
  BY Zenon DEF BlockBegin, BlockEnd

BlockEntry(raw, i) == [name |-> raw[i].name, at |-> i]

LEMMA BlocksStep ==
    ASSUME NEW raw, NEW n \in Nat
    PROVE  /\ openBlocks(raw, 0) = <<>>
           /\ openBlocks(raw, n + 1) = opened(openBlocks(raw, n), BlockEntry(raw, n + 1))
<1>1. PICK e : e = [i \in 1..0 |-> [name |-> raw[i].name, at |-> i]]
  OBVIOUS
<1>2. e = <<>>
  BY <1>1
<1>3. openBlocks(raw, 0) = <<>>
  BY <1>1, <1>2, OIs, O!FoldEmpty DEF openBlocks
<1>4. PICK Es : Es = {BlockEntry(raw, i) : i \in 1..(n + 1)}
  OBVIOUS
<1>5. PICK s : s = [i \in 1..n |-> [name |-> raw[i].name, at |-> i]]
  OBVIOUS
<1>6. PICK r : r = [i \in 1..(n + 1) |-> [name |-> raw[i].name, at |-> i]]
  OBVIOUS
<1>7. PICK x \in Es : x = BlockEntry(raw, n + 1)
  BY <1>4
<1>8. s \in Seq(Es) /\ Len(s) = n /\ \A i \in 1..n : s[i] = BlockEntry(raw, i)
  BY <1>4, <1>5 DEF BlockEntry
<1>9. r \in Seq(Es) /\ Len(r) = n + 1 /\ \A i \in 1..(n + 1) : r[i] = BlockEntry(raw, i)
  <2>1. \A i \in 1..(n + 1) : r[i] = BlockEntry(raw, i)
    BY <1>6 DEF BlockEntry
  <2>2. \A i \in 1..(n + 1) : BlockEntry(raw, i) \in Es
    BY <1>4
  <2>3. r = [i \in 1..(n + 1) |-> r[i]] /\ \A i \in 1..(n + 1) : r[i] \in Es
    BY <1>6, <2>1, <2>2
  <2>4. PICK k \in Nat : k = n + 1
    OBVIOUS
  <2>5. r \in Seq(Es) /\ Len(r) = k
    BY <2>3, <2>4
  <2> QED
    BY <2>1, <2>4, <2>5
<1>20. PICK a : a = Append(s, x)
  OBVIOUS
<1>10. a = Append(s, x) /\ a \in Seq(Es) /\ Len(a) = n + 1 /\ a[n + 1] = x /\ \A i \in 1..n : a[i] = s[i]
  BY <1>8, <1>20, O!AppendIs
<1>11. r = a
  <2>1. \A i \in 1..(n + 1) : r[i] = a[i]
    <3> SUFFICES ASSUME NEW i \in 1..(n + 1) PROVE r[i] = a[i]
      OBVIOUS
    <3>1. CASE i = n + 1
      BY <1>7, <1>9, <1>10, <3>1
    <3>2. CASE i # n + 1
      BY <1>8, <1>9, <1>10, <3>2
    <3> QED
      BY <3>1, <3>2
  <2> QED
    BY <1>9, <1>10, <2>1, O!SameIs
<1>12. O!Folded(<<>>, r) = opened(O!Folded(<<>>, s), x)
  BY <1>8, <1>10, <1>11, O!FoldAppend
<1> QED
  BY <1>3, <1>5, <1>6, <1>7, <1>12, OIs DEF openBlocks

\* What one command does to the stack.
LEMMA OpenedIs ==
    ASSUME NEW s \in Seq(Nat), NEW raw, NEW i \in Nat \ {0}
    PROVE  /\ opened(s, BlockEntry(raw, i)) \in Seq(Nat)
           /\ s = << 0 >> => opened(s, BlockEntry(raw, i)) = << 0 >>
           /\ s # << 0 >> =>
                 \/ raw[i].name = BlockBegin /\ opened(s, BlockEntry(raw, i)) = Append(s, i)
                 \/ raw[i].name = BlockEnd /\ s = <<>> /\ opened(s, BlockEntry(raw, i)) = << 0 >>
                 \/ raw[i].name = BlockEnd /\ s # <<>> /\ opened(s, BlockEntry(raw, i)) = Front(s)
                 \/ opened(s, BlockEntry(raw, i)) = s
<1>1. PICK x : x = BlockEntry(raw, i)
  OBVIOUS
<1>2. x.name = raw[i].name /\ x.at = i
  BY <1>1 DEF BlockEntry
<1>3. CASE s = << 0 >>
  <2>1. opened(s, x) = s
    BY <1>3, Zenon DEF opened
  <2> QED
    BY <1>1, <1>3, <2>1
<1>4. CASE s # << 0 >> /\ x.name = BlockBegin
  <2>1. opened(s, x) = Append(s, x.at)
    BY <1>4, BracesApart, Zenon DEF opened
  <2>2. Append(s, i) \in Seq(Nat)
    OBVIOUS
  <2> QED
    BY <1>1, <1>2, <1>4, <2>1, <2>2
<1>5. CASE s # << 0 >> /\ x.name = BlockEnd
  <2>1. opened(s, x) = IF s = <<>> THEN << 0 >> ELSE Front(s)
    BY <1>5, BracesApart, Zenon DEF opened
  <2>2. s # <<>> => Front(s) \in Seq(Nat)
    BY DEF Front
  <2>3. << 0 >> \in Seq(Nat)
    OBVIOUS
  <2> QED
    BY <1>1, <1>2, <1>5, <2>1, <2>2, <2>3
<1>6. CASE s # << 0 >> /\ x.name \notin {BlockBegin, BlockEnd}
  <2>1. opened(s, x) = s
    BY <1>6, Zenon DEF opened
  <2> QED
    BY <1>1, <1>2, <1>6, <2>1
<1> QED
  BY <1>3, <1>4, <1>5, <1>6

LEMMA BlocksTyped ==
    ASSUME NEW raw
    PROVE  \A n \in Nat : openBlocks(raw, n) \in Seq(Nat)
<1> DEFINE T == {n \in Nat : openBlocks(raw, n) \in Seq(Nat)}
<1>1. 0 \in T
  <2>1. openBlocks(raw, 0) = <<>> /\ <<>> \in Seq(Nat)
    BY BlocksStep
  <2> QED
    BY <2>1
<1>2. ASSUME NEW n \in Nat, n \in T PROVE n + 1 \in T
  <2>1. openBlocks(raw, n) \in Seq(Nat) /\ n + 1 \in Nat \ {0}
    BY <1>2
  <2>2. openBlocks(raw, n + 1) = opened(openBlocks(raw, n), BlockEntry(raw, n + 1))
    BY <1>2, BlocksStep
  <2> QED
    BY <2>1, <2>2, OpenedIs
<1>3. \A n \in Nat : n \in T
  <2> HIDE DEF T
  <2> QED
    BY <1>1, <1>2, O!NatInduct
<1> QED
  BY <1>3

\* A } with no block is never made good.
LEMMA StaysBroken ==
    ASSUME NEW raw, NEW k \in Nat, openBlocks(raw, k) = << 0 >>
    PROVE  \A d \in Nat : openBlocks(raw, k + d) = << 0 >>
<1> DEFINE T == {d \in Nat : openBlocks(raw, k + d) = << 0 >>}
<1>1. 0 \in T
  OBVIOUS
<1>2. ASSUME NEW d \in Nat, d \in T PROVE d + 1 \in T
  <2>1. openBlocks(raw, k + d) = << 0 >> /\ k + d \in Nat /\ (k + d) + 1 \in Nat \ {0} /\ (k + d) + 1 = k + (d + 1)
    BY <1>2
  <2>2. openBlocks(raw, (k + d) + 1) = opened(openBlocks(raw, k + d), BlockEntry(raw, (k + d) + 1))
    BY <2>1, BlocksStep
  <2>3. openBlocks(raw, k + d) \in Seq(Nat)
    BY <2>1, BlocksTyped
  <2>4. opened(openBlocks(raw, k + d), BlockEntry(raw, (k + d) + 1)) = << 0 >>
    BY <2>1, <2>3, OpenedIs
  <2> QED
    BY <2>1, <2>2, <2>4
<1>3. \A d \in Nat : d \in T
  <2> HIDE DEF T
  <2> QED
    BY <1>1, <1>2, O!NatInduct
<1> QED
  BY <1>3

LEMMA FrontIs ==
    ASSUME NEW A, NEW s \in Seq(A), s # <<>>
    PROVE  /\ Front(s) \in Seq(A) /\ Len(Front(s)) = Len(s) - 1
           /\ \A i \in 1..(Len(s) - 1) : Front(s)[i] = s[i]
           /\ Last(s) = s[Len(s)]
<1>1. PICK n \in Nat : n = Len(s) - 1 /\ n <= Len(s)
  OBVIOUS
<1>2. Front(s) = SubSeq(s, 1, n) /\ Last(s) = s[Len(s)]
  BY <1>1 DEF Front, Last
<1>3. SubSeq(s, 1, n) \in Seq(A) /\ Len(SubSeq(s, 1, n)) = n /\ \A k \in 1..n : SubSeq(s, 1, n)[k] = s[k]
  BY <1>1
<1> QED
  BY <1>1, <1>2, <1>3

\* Every block that is opened is closed by its own }, where parse() takes it.
LEMMA BlockEnds ==
    ASSUME NEW raw, Len(raw) \in Nat, parseOk(raw), NEW i \in 1..Len(raw), raw[i].name = BlockBegin
    PROVE  \E j \in (i + 1)..Len(raw) : raw[j].name = BlockEnd /\ Last(openBlocks(raw, j - 1)) = i
<1>1. PICK n \in Nat : n = Len(raw)
  OBVIOUS
<1>2. openBlocks(raw, n) = <<>>
  BY <1>1 DEF parseOk
<1>3. ASSUME NEW k \in 0..n PROVE openBlocks(raw, k) # << 0 >>
  <2> SUFFICES ASSUME openBlocks(raw, k) = << 0 >> PROVE FALSE
    OBVIOUS
  <2>1. n - k \in Nat /\ k + (n - k) = n /\ k \in Nat
    BY <1>3
  <2>2. openBlocks(raw, k + (n - k)) = << 0 >>
    BY <2>1, StaysBroken
  <2>3. << 0 >> # <<>>
    OBVIOUS
  <2> QED
    BY <1>2, <2>1, <2>2, <2>3
<1>4. i \in 1..n /\ i - 1 \in 0..n /\ i - 1 \in Nat /\ i = (i - 1) + 1 /\ i # 0 /\ i \in Nat
  BY <1>1
<1>5. PICK s \in Seq(Nat) : s = openBlocks(raw, i - 1)
  BY <1>4, BlocksTyped
<1>6. s # << 0 >>
  BY <1>3, <1>4, <1>5
<1>7. openBlocks(raw, i) = opened(s, BlockEntry(raw, i))
  BY <1>4, <1>5, BlocksStep
<1>8. openBlocks(raw, i) = Append(s, i)
  <2>1. PICK x : x = BlockEntry(raw, i)
    OBVIOUS
  <2>2. x.name = BlockBegin /\ x.at = i
    BY <2>1 DEF BlockEntry
  <2>3. opened(s, x) = Append(s, x.at)
    BY <1>6, <2>2, BracesApart, Zenon DEF opened
  <2> QED
    BY <1>7, <2>1, <2>2, <2>3
<1>9. PICK m \in Nat : m = Len(s) + 1
  OBVIOUS
<1> DEFINE B(k) == openBlocks(raw, k)
           Here(k) == Len(B(k)) >= m /\ B(k)[m] = i
           T == {d \in Nat : i + d <= n => Here(i + d)}
<1>10. SUFFICES ASSUME ~ \E j \in (i + 1)..n : raw[j].name = BlockEnd /\ Last(B(j - 1)) = i
                PROVE  FALSE
  BY <1>1
<1>11. 0 \in T
  <2>1. Len(B(i)) = m /\ B(i)[m] = i
    BY <1>4, <1>8, <1>9
  <2>2. i + 0 = i
    BY <1>4
  <2> QED
    BY <2>1, <2>2
<1>12. ASSUME NEW d \in Nat, d \in T PROVE d + 1 \in T
  <2> SUFFICES ASSUME i + (d + 1) <= n PROVE Here(i + (d + 1))
    OBVIOUS
  <2>1. PICK k \in Nat : k = i + d /\ k + 1 = i + (d + 1) /\ k \in 0..n /\ k + 1 \in (i + 1)..n /\ k + 1 \in Nat \ {0}
    BY <1>4
  <2>2. PICK q \in Seq(Nat) : q = B(k)
    BY <2>1, BlocksTyped
  <2>3. q # << 0 >> /\ Len(q) >= m /\ q[m] = i
    BY <1>3, <1>12, <2>1, <2>2
  <2>4. B(k + 1) = opened(q, BlockEntry(raw, k + 1))
    BY <2>1, <2>2, BlocksStep
  <2>5. q # <<>> /\ m \in 1..Len(q)
    BY <1>9, <2>3
  <2>6. \/ B(k + 1) = Append(q, k + 1)
        \/ raw[k + 1].name = BlockEnd /\ B(k + 1) = Front(q)
        \/ B(k + 1) = q
    BY <2>1, <2>3, <2>4, <2>5, OpenedIs
  <2>7. CASE B(k + 1) = Append(q, k + 1)
    <3>0. PICK r : r = Append(q, k + 1)
      OBVIOUS
    <3>1. Len(r) = Len(q) + 1 /\ r[m] = q[m]
      <4>1. k + 1 \in Nat
        OBVIOUS
      <4> QED
        BY <2>5, <3>0, <4>1, O!AppendIs
    <3>2. B(k + 1) = r
      BY <2>7, <3>0
    <3> QED
      BY <2>1, <2>3, <3>1, <3>2
  <2>8. CASE raw[k + 1].name = BlockEnd /\ B(k + 1) = Front(q)
    <3>1. Last(q) # i
      <4>1. (k + 1) - 1 = k
        BY <2>1
      <4> QED
        BY <1>10, <2>1, <2>2, <2>8, <4>1
    <3>2. Last(q) = q[Len(q)]
      BY <2>5, FrontIs
    <3>3. Len(q) # m
      BY <2>3, <3>1, <3>2
    <3>4. m \in 1..(Len(q) - 1)
      BY <2>5, <3>3
    <3>5. B(k + 1)[m] = q[m] /\ Len(B(k + 1)) = Len(q) - 1
      BY <2>5, <2>8, <3>4, FrontIs
    <3> QED
      BY <2>1, <2>3, <3>4, <3>5
  <2>9. CASE B(k + 1) = q
    BY <2>1, <2>3, <2>9
  <2> QED
    BY <2>6, <2>7, <2>8, <2>9
<1>13. \A d \in Nat : d \in T
  <2> HIDE DEF T
  <2> QED
    BY <1>11, <1>12, O!NatInduct
<1>14. Here(n)
  <2>1. n - i \in Nat /\ i + (n - i) = n
    BY <1>4
  <2>2. n - i \in T
    BY <1>13, <2>1
  <2> QED
    BY <2>1, <2>2
<1>15. Len(<<>>) = 0 /\ m >= 1
  BY <1>9
<1> QED
  BY <1>2, <1>14, <1>15

\* Where a block or a branch goes is in the script, or behind it.
LEMMA BlockIs ==
    ASSUME NEW raw, Len(raw) \in Nat, parseOk(raw), NEW i \in 1..Len(raw)
    PROVE  blockOf(raw, i) \in 0..(Len(raw) + 1)
<1>1. PICK n \in Nat : n = Len(raw)
  OBVIOUS
<1>2. CASE raw[i].name = BlockBegin
  <2>1. \E j \in (i + 1)..Len(raw) : raw[j].name = BlockEnd /\ Last(openBlocks(raw, j - 1)) = i
    BY <1>2, BlockEnds
  <2>2. PICK k \in (i + 1)..Len(raw) :
            k = CHOOSE j \in (i + 1)..Len(raw) : raw[j].name = BlockEnd /\ Last(openBlocks(raw, j - 1)) = i
    BY <2>1, Zenon
  <2>3. raw[i].name \notin {"b", "t", "T"}
    BY <1>2, BracesApart
  <2>4. blockOf(raw, i) = k
    BY <1>2, <2>2, <2>3, Zenon DEF blockOf
  <2> QED
    BY <1>1, <2>2, <2>4
<1>3. CASE raw[i].name \in {"b", "t", "T"}
  <2>1. raw[i].name # BlockBegin
    BY <1>3, BracesApart
  <2>2. blockOf(raw, i) = IF raw[i].text = "" THEN scriptEnd(raw)
                          ELSE CHOOSE j \in labels(raw) : raw[j].text = raw[i].text
    BY <1>3, <2>1, Zenon DEF blockOf
  <2>3. CASE raw[i].text = ""
    <3>1. blockOf(raw, i) = n + 1
      BY <1>1, <2>2, <2>3 DEF scriptEnd
    <3> QED
      BY <1>1, <3>1
  <2>4. CASE raw[i].text # ""
    <3>1. \E j \in labels(raw) : raw[j].text = raw[i].text
      BY <1>3, <2>4 DEF parseOk
    <3>2. PICK k \in labels(raw) : k = CHOOSE j \in labels(raw) : raw[j].text = raw[i].text
      BY <3>1, Zenon
    <3>3. k \in 1..n
      BY <1>1 DEF labels
    <3>4. blockOf(raw, i) = k
      BY <2>2, <2>4, <3>2
    <3> QED
      BY <1>1, <3>3, <3>4
  <2> QED
    BY <2>3, <2>4
<1>4. CASE raw[i].name \notin {BlockBegin, "b", "t", "T"}
  <2>1. blockOf(raw, i) = 0
    BY <1>4, Zenon DEF blockOf
  <2> QED
    BY <1>1, <2>1
<1> QED
  BY <1>2, <1>3, <1>4

----------------------------------------------------------------------------
(* The types of a run.                                                      *)

TextLines == [text : Seq(Chars), nl : BOOLEAN]
States(n) == [rest : Seq(TextLines), line : Nat, ps : Seq(Chars), nl : BOOLEAN, replaced : BOOLEAN,
              appendQ : Seq(Wholes), pc : 1..(n + 2), quit : BOOLEAN, code : 0..9]
ProgFields == {"hold", "lastRx", "endLine", "active"}

\* The output of one run over all files keeps its lines apart.
ApartJob == job.mode = "stream" /\ "stdout" \notin job.wnames
OutSet == IF ApartJob THEN Goods ELSE Outs
RunData(s, o, p) ==
    /\ s \in States(Len(cmds)) /\ o \in OutSet
    /\ DOMAIN p = ProgFields /\ p.hold \in Seq(Chars)

InRun == {"cycle", "exec", "end", "delete", "restart", "quit", "quitSilent", "ended", "failed"}
RunInv ==
    /\ job \in Invocations /\ cmds = parse(job.script)
    /\ RunData(st, out, prog)
    /\ stage \in InRun \cup {"open", "done"}
    /\ stage = "cycle" => st.appendQ = <<>>
    /\ stage \in InRun => file <= Len(job.files)
    /\ file \in 1..(Len(job.files) + 1) /\ status \in 0..9

\* Either set of outputs is kept by what writes.
LEMMA OutSteps ==
    ASSUME NEW S, S = Goods \/ S = Outs, NEW o \in S
    PROVE  /\ \A s \in Wholes : write(o, s) \in S
           /\ \A s \in Seq(Chars), nl \in BOOLEAN : line(o, s, nl) \in S
           /\ \A z \in Seq(Wholes) : writeAll(o, z) \in S
           /\ o \in Outs
<1>1. \A s \in Wholes : s \in Seq(Chars)
  BY DEF Wholes
<1>2. o \in Outs
  BY DEF Goods
<1>3. CASE S = Goods
  BY <1>1, <1>2, <1>3, WriteApart, LineApart, WriteAllApart
<1>4. CASE S = Outs
  <2>1. \A s \in Wholes : write(o, s) \in S
    BY <1>1, <1>2, <1>4, WriteIs
  <2>2. \A s \in Seq(Chars), nl \in BOOLEAN : line(o, s, nl) \in S
    BY <1>2, <1>4, LineIs
  <2>3. Seq(Wholes) \subseteq Seq(Seq(Chars))
    <3>1. Wholes \subseteq Seq(Chars)
      BY <1>1
    <3> QED
      BY <3>1, SeqSub
  <2>4. \A z \in Seq(Wholes) : writeAll(o, z) \in S
    BY <1>2, <1>4, <2>3, WriteAllIs
  <2> QED
    BY <1>2, <2>1, <2>2, <2>4
<1> QED
  BY <1>3, <1>4

LEMMA OutSetIs == OutSet = Goods \/ OutSet = Outs
  BY DEF OutSet

LEMMA AtCommand ==
    ASSUME RunInv, atCommand
    PROVE  /\ Len(cmds) \in Nat /\ st.pc \in 1..Len(cmds) /\ Len(cmds) = Len(job.script)
           /\ cmd = job.script[st.pc] /\ parseOk(job.script)
           /\ oneCommand(cmd, job) /\ commandOk(cmd)
           /\ block \in 0..(Len(cmds) + 1)
<1>1. job \in Invocations /\ cmds = parse(job.script) /\ st \in States(Len(cmds)) /\ st.pc <= Len(cmds)
  BY DEF RunInv, RunData, atCommand
<1>2. Len(job.script) \in Nat /\ DOMAIN job.script = 1..Len(job.script)
      /\ \A i \in DOMAIN job.script : oneCommand(job.script[i], job)
  BY <1>1, SedAssumption
<1>3. parseOk(job.script)
  <2> SUFFICES ASSUME ~parseOk(job.script) PROVE FALSE
    OBVIOUS
  <2>1. cmds = <<>>
    BY <1>1, Zenon DEF parse
  <2>2. Len(cmds) = 0
    BY <2>1
  <2> QED
    BY <1>1, <2>2 DEF States
<1>4. PICK n \in Nat : n = Len(job.script)
  BY <1>2
<1>5. cmds = [i \in 1..n |-> [c |-> job.script[i], block |-> blockOf(job.script, i)]]
  BY <1>1, <1>3, <1>4, Zenon DEF parse
<1>6. Len(cmds) = n
  BY <1>5
<1>7. st.pc \in 1..n
  BY <1>1, <1>6 DEF States
<1>8. cmds[st.pc].c = job.script[st.pc] /\ cmds[st.pc].block = blockOf(job.script, st.pc)
  BY <1>5, <1>7
<1>9. blockOf(job.script, st.pc) \in 0..(n + 1)
  BY <1>2, <1>3, <1>4, <1>7, BlockIs
<1>10. commandOk(job.script[st.pc])
  BY <1>3, <1>4, <1>7 DEF parseOk
<1> QED
  BY <1>2, <1>3, <1>4, <1>6, <1>7, <1>8, <1>9, <1>10 DEF cmd, block

LEMMA KeepIs ==
    ASSUME DOMAIN prog = ProgFields, NEW s
    PROVE  DOMAIN keep(s) = ProgFields /\ keep(s).hold = prog.hold
  BY DEF keep, ProgFields

\* What a field is set to.
LEMMA StateSet ==
    ASSUME NEW n \in Nat, NEW s \in States(n)
    PROVE  /\ \A k \in 1..(n + 2) : [s EXCEPT !.pc = k] \in States(n)
           /\ \A q \in Seq(Wholes) : [s EXCEPT !.appendQ = q] \in States(n)
           /\ \A t \in Seq(Chars) : [s EXCEPT !.ps = t] \in States(n)
           /\ \A b \in BOOLEAN : [s EXCEPT !.replaced = b] \in States(n)
           /\ \A b \in BOOLEAN : [s EXCEPT !.quit = b] \in States(n)
           /\ \A c \in 0..9 : [s EXCEPT !.code = c] \in States(n)
  BY DEF States

LEMMA AdvancedIs ==
    ASSUME RunInv, atCommand
    PROVE  /\ advanced(st) \in States(Len(cmds)) /\ advanced(st).ps = st.ps
           /\ advanced(st).appendQ = st.appendQ /\ advanced(st).line = st.line
           /\ advanced(st).rest = st.rest /\ advanced(st).replaced = st.replaced /\ advanced(st).nl = st.nl
<1>1. Len(cmds) \in Nat /\ st.pc \in 1..Len(cmds) /\ st \in States(Len(cmds))
  BY AtCommand DEF RunInv, RunData
<1>2. PICK k \in 1..(Len(cmds) + 2) : k = st.pc + 1
  BY <1>1
<1>3. advanced(st) = [st EXCEPT !.pc = k]
  BY <1>2 DEF advanced
<1>4. PICK a : a = [st EXCEPT !.pc = k]
  OBVIOUS
<1>5. a \in States(Len(cmds))
  BY <1>1, <1>4, StateSet
<1>6. /\ a.ps = st.ps /\ a.appendQ = st.appendQ /\ a.line = st.line
      /\ a.rest = st.rest /\ a.replaced = st.replaced /\ a.nl = st.nl
  BY <1>1, <1>4 DEF States
<1> QED
  BY <1>3, <1>4, <1>5, <1>6

LEMMA SkipTyped ==
    ASSUME RunInv, Skip
    PROVE  RunData(st', out', prog')
<1>1. atCommand /\ out' = out
  BY DEF Skip
<1>2. Len(cmds) \in Nat /\ st \in States(Len(cmds)) /\ out \in OutSet /\ block \in 0..(Len(cmds) + 1)
  BY <1>1, AtCommand DEF RunInv, RunData
<1>3. DOMAIN prog = ProgFields /\ prog.hold \in Seq(Chars)
  BY DEF RunInv, RunData
<1>4. prog' = prog \/ \E s : prog' = keep(s)
  BY Zenon DEF Skip
<1>5. DOMAIN prog' = ProgFields /\ prog'.hold \in Seq(Chars)
  BY <1>3, <1>4, KeepIs
<1>6. st' \in {st, advanced(st), [st EXCEPT !.pc = block + 1]}
  BY Zenon DEF Skip
<1>7. block + 1 \in 1..(Len(cmds) + 2)
  BY <1>2
<1>8. st' \in States(Len(cmds))
  BY <1>1, <1>2, <1>6, <1>7, AdvancedIs, StateSet
<1> QED
  BY <1>1, <1>2, <1>5, <1>8 DEF RunData

LEMMA AppendWhole ==
    ASSUME NEW s \in Seq(Chars)
    PROVE  Append(s, Newline) \in Wholes /\ Append(s, Newline) \in Seq(Chars)
<1>1. Newline \in Chars
  BY CharsAre
<1>2. PICK r : r = Append(s, Newline)
  OBVIOUS
<1>3. r \in Seq(Chars) /\ Len(r) = Len(s) + 1 /\ r[Len(s) + 1] = Newline /\ r # <<>>
  BY <1>1, <1>2, E!AppendIs
<1> QED
  BY <1>2, <1>3 DEF Wholes

LEMMA PairIs ==
    ASSUME NEW A, NEW c \in A, NEW d \in A
    PROVE  <<c, d>> \in Seq(A) /\ Len(<<c, d>>) = 2 /\ <<c, d>>[2] = d /\ <<c, d>> # <<>>
OBVIOUS

LEMMA PairWhole ==
    ASSUME NEW c \in Chars
    PROVE  <<c, Newline>> \in Wholes
<1>1. PICK d \in Chars : d = Newline
  BY CharsAre
<1>2. PICK s : s = <<c, d>>
  OBVIOUS
<1>3. s \in Seq(Chars) /\ Len(s) = 2 /\ s[2] = d /\ s # <<>>
  BY <1>2, PairIs
<1>4. s \in Wholes
  BY <1>1, <1>3 DEF Wholes
<1> QED
  BY <1>1, <1>2, <1>4

LEMMA QueuedIs ==
    ASSUME job \in Invocations, NEW c, c.text \in STRING
    PROVE  Queued(c) \in Seq(Wholes)
<1>0. <<>> \in Seq(Wholes)
  OBVIOUS
<1>1. c.text \in Chars /\ <<>> \in Seq(Wholes)
  BY <1>0, CharsAre
<1>2. CASE c.name = "a"
  <2>1. Queued(c) = <<<<c.text, Newline>>>>
    BY <1>2, Zenon DEF Queued
  <2>2. <<c.text, Newline>> \in Wholes
    BY <1>1, PairWhole
  <2> QED
    BY <2>1, <2>2, OneIs
<1>3. CASE c.name = "r"
  <2>1. PICK f : f = fileText(c.text)
    OBVIOUS
  <2>2. f \in Seq(Chars)
    <3>1. \A n \in DOMAIN job.texts : job.texts[n] \in Seq(STRING)
      BY SedAssumption
    <3>2. f = IF c.text \in DOMAIN job.texts THEN job.texts[c.text] ELSE <<>>
      BY <2>1 DEF fileText
    <3>3. c.text \in DOMAIN job.texts => job.texts[c.text] \in Seq(Chars)
      BY <3>1, CharsAre
    <3> QED
      BY <3>2, <3>3, CharsAre
  <2>3. Queued(c) = IF f = <<>> THEN <<>> ELSE IF Last(f) = Newline THEN <<f>> ELSE <<Append(f, Newline)>>
    BY <1>3, <2>1, Zenon DEF Queued
  <2>4. ASSUME f # <<>>, Last(f) = Newline PROVE <<f>> \in Seq(Wholes)
    <3>1. f \in Wholes
      BY <2>2, <2>4 DEF Last, Wholes
    <3> QED
      BY <3>1, OneIs
  <2>5. <<Append(f, Newline)>> \in Seq(Wholes)
    BY <2>2, AppendWhole, OneIs
  <2> QED
    BY <1>1, <2>3, <2>4, <2>5
<1>4. CASE c.name \notin {"a", "r"}
  <2>1. Queued(c) = <<>>
    BY <1>4, Zenon DEF Queued
  <2> QED
    BY <1>1, <2>1
<1> QED
  BY <1>2, <1>3, <1>4

\* Of numbers from 1 to a bound one is the smallest.
LEMMA SmallestExists ==
    ASSUME NEW n \in Nat, NEW S \in SUBSET (1..n), S # {}
    PROVE  \E m \in S : \A y \in S : m <= y
<1>1. PICK R0 : R0 = {n - x : x \in S}
  OBVIOUS
<1>2. R0 \in SUBSET (0..n) /\ R0 # {}
  <2>1. \A x \in S : n - x \in 0..n
    OBVIOUS
  <2> QED
    BY <1>1, <2>1
<1>3. PICK m \in R0 : \A y \in R0 : m >= y
  BY <1>2, E!LargestExists
<1>4. PICK x \in S : m = n - x
  BY <1>1
<1>5. ASSUME NEW y \in S PROVE x <= y
  <2>1. n - y \in R0
    BY <1>1
  <2>2. n - x >= n - y
    BY <1>3, <1>4, <2>1
  <2> QED
    BY <2>2
<1> QED
  BY <1>5

LEMMA FirstNewline ==
    ASSUME NEW s \in Seq(Chars)
    PROVE  firstNewline(s) \in 0..Len(s)
<1>1. PICK n \in Nat : n = Len(s)
  OBVIOUS
<1>2. PICK I : I = {i \in 1..n : s[i] = Newline}
  OBVIOUS
<1>3. firstNewline(s) = IF I # {} THEN Min(I) ELSE 0
  BY <1>1, <1>2 DEF firstNewline, SelectInSeq
<1>4. I # {} => Min(I) \in I
  <2> SUFFICES ASSUME I # {} PROVE Min(I) \in I
    OBVIOUS
  <2>1. \E m \in I : \A y \in I : m <= y
    BY <1>2, SmallestExists
  <2> QED
    BY <2>1, Zenon DEF Min
<1> QED
  BY <1>1, <1>2, <1>3, <1>4

LEMMA EmitTextTyped ==
    ASSUME RunInv, Emit
    PROVE  RunData(st', out', prog')
<1>1. atCommand /\ prog' = keep(selected(st.pc))
  BY DEF Emit, Selected
<1>2. /\ Len(cmds) \in Nat /\ st \in States(Len(cmds)) /\ out \in OutSet /\ oneCommand(cmd, job)
      /\ job \in Invocations
  BY <1>1, AtCommand DEF RunInv, RunData
<1>3. DOMAIN prog' = ProgFields /\ prog'.hold \in Seq(Chars)
  BY <1>1, KeepIs DEF RunInv, RunData
<1>4. cmd.text \in STRING /\ cmd.text \in Chars
  BY <1>2, CharsAre DEF oneCommand
<1>5. PICK q \in Seq(Wholes) : q = Queued(cmd)
  BY <1>2, <1>4, QueuedIs
<1>6. PICK a \in States(Len(cmds)) : a = advanced(st) /\ a.appendQ = st.appendQ
  BY <1>1, AdvancedIs
<1>7. st' \in States(Len(cmds))
  <2>1. st' = [a EXCEPT !.appendQ = a.appendQ \o q]
    BY <1>5, <1>6 DEF Emit
  <2>2. a.appendQ \in Seq(Wholes)
    BY DEF States
  <2>3. PICK r \in Seq(Wholes) : r = a.appendQ \o q
    BY <2>2, E!ConcatIs
  <2> QED
    BY <1>2, <2>1, <2>3, StateSet
<1>8. st.ps \in Seq(Chars) /\ st.nl \in BOOLEAN /\ st.line \in Nat
  BY <1>2 DEF States
<1>9. PICK f \in 0..Len(st.ps) : f = firstNewline(st.ps)
  BY <1>8, FirstNewline
<1>10. PICK g \in Seq(Chars) : g = IF f > 0 THEN SubSeq(st.ps, 1, f - 1) ELSE st.ps
  <2>1. f > 0 => SubSeq(st.ps, 1, f - 1) \in Seq(Chars)
    BY <1>8
  <2> QED
    BY <1>8, <2>1
<1>11. <<ToString(st.line), Newline>> \in Wholes /\ <<cmd.text, Newline>> \in Wholes
  BY <1>4, <1>8, CharsAre, PairWhole
<1>12. out' \in {write(out, <<ToString(st.line), Newline>>), write(out, <<cmd.text, Newline>>),
                 line(out, st.ps, st.nl), line(out, g, TRUE), out}
  BY <1>9, <1>10, Zenon DEF Emit
<1>13. out' \in OutSet
  <2>1. PICK S : S = OutSet
    OBVIOUS
  <2>2. /\ \A s \in Wholes : write(out, s) \in S
        /\ \A s \in Seq(Chars), nl \in BOOLEAN : line(out, s, nl) \in S
    BY <1>2, <2>1, OutSteps, OutSetIs
  <2>3. write(out, <<ToString(st.line), Newline>>) \in S /\ write(out, <<cmd.text, Newline>>) \in S
    BY <1>11, <2>2
  <2>4. line(out, st.ps, st.nl) \in S /\ line(out, g, TRUE) \in S
    BY <1>8, <2>2
  <2> QED
    BY <1>2, <1>12, <2>1, <2>3, <2>4
<1> QED
  BY <1>3, <1>7, <1>13 DEF RunData

LEMMA YIsPaired ==
    ASSUME commandOk(cmd), cmd.name = "y"
    PROVE  translitOk(cmd.src, cmd.dst)
<1>1. cmd.name \notin {BlockEnd, ":"} /\ cmd.name \notin {"r", "w"} /\ cmd.name \notin {"a", "i", "c"}
  BY Zenon DEF BlockEnd
<1> QED
  BY <1>1, Zenon DEF commandOk

LEMMA MappedTyped ==
    ASSUME NEW s \in Seq(Chars), NEW m, \A x \in DOMAIN m : m[x] \in Chars
    PROVE  [i \in 1..Len(s) |-> IF s[i] \in DOMAIN m THEN m[s[i]] ELSE s[i]] \in Seq(Chars)
<1>1. PICK n \in Nat : n = Len(s)
  OBVIOUS
<1>2. PICK y : y = [i \in 1..n |-> IF s[i] \in DOMAIN m THEN m[s[i]] ELSE s[i]]
  OBVIOUS
<1>3. \A i \in 1..n : s[i] \in Chars
  BY <1>1
<1>4. \A i \in 1..n : y[i] \in Chars
  BY <1>2, <1>3
<1>5. y = [i \in 1..n |-> y[i]]
  BY <1>2
<1>6. y \in Seq(Chars)
  BY <1>4, <1>5
<1> QED
  BY <1>1, <1>2, <1>6

LEMMA SpacesTextTyped ==
    ASSUME RunInv, Spaces
    PROVE  RunData(st', out', prog')
<1>1. atCommand /\ out' = out
  BY DEF Spaces, Selected
<1>2. /\ Len(cmds) \in Nat /\ st \in States(Len(cmds)) /\ out \in OutSet /\ oneCommand(cmd, job)
      /\ DOMAIN prog = ProgFields /\ prog.hold \in Seq(Chars) /\ commandOk(cmd)
  BY <1>1, AtCommand DEF RunInv, RunData
<1>3. PICK ps \in Seq(Chars), hold \in Seq(Chars) : ps = st.ps /\ hold = prog.hold
  BY <1>2 DEF States
<1>4. <<Newline>> \in Seq(Chars) /\ <<>> \in Seq(Chars)
  BY CharsAre, OneIs
<1>5. PICK a \in Seq(Chars), b \in Seq(Chars) : a = ps \o <<Newline>> \o hold /\ b = hold \o <<Newline>> \o ps
  <2>1. ps \o <<Newline>> \in Seq(Chars) /\ hold \o <<Newline>> \in Seq(Chars)
    BY <1>4, E!ConcatIs
  <2> QED
    BY <2>1, E!ConcatIs
<1>6. PICK k : k = keep(selected(st.pc))
  OBVIOUS
<1>7. DOMAIN k = ProgFields
  BY <1>2, <1>6, KeepIs
<1>8. PICK adv \in States(Len(cmds)) : adv = advanced(st)
  BY <1>1, AdvancedIs
<1>9. PICK m : m = ymap(cmd.src, cmd.dst)
  OBVIOUS
<1>10. PICK y : y = [i \in 1..Len(st.ps) |-> IF st.ps[i] \in DOMAIN m THEN m[st.ps[i]] ELSE st.ps[i]]
  OBVIOUS
<1>11. cmd.name = "y" => y \in Seq(Chars)
  <2> SUFFICES ASSUME cmd.name = "y" PROVE y \in Seq(Chars)
    OBVIOUS
  <2>1. cmd.src \in Seq(Chars) /\ cmd.dst \in Seq(Chars) /\ translitOk(cmd.src, cmd.dst)
    BY <1>2, YIsPaired, CharsAre DEF oneCommand
  <2>2. \A x \in DOMAIN m : m[x] \in Chars
    BY <1>9, <2>1, TransliteratedTyped
  <2> QED
    BY <1>3, <1>10, <2>2, MappedTyped
<1>12. PICK q, h : /\ st' = [adv EXCEPT !.ps = q] /\ prog' = [k EXCEPT !.hold = h]
                   /\ q \in Seq(Chars) /\ h \in Seq(Chars)
  <2> DEFINE to(q, h) == st' = [adv EXCEPT !.ps = q] /\ prog' = [k EXCEPT !.hold = h]
  <2>0. cmd.name \in {"g", "G", "h", "H", "x", "z", "y"}
    BY DEF Spaces, Selected
  <2>1. CASE cmd.name = "g"
    <3>1. to(hold, hold)
      BY <1>3, <1>6, <1>8, <2>1, Zenon DEF Spaces
    <3> QED
      BY <3>1
  <2>2. CASE cmd.name = "G"
    <3>1. to(a, hold)
      BY <1>3, <1>5, <1>6, <1>8, <2>2, Zenon DEF Spaces
    <3> QED
      BY <3>1
  <2>3. CASE cmd.name = "h"
    <3>1. to(ps, ps)
      BY <1>3, <1>6, <1>8, <2>3, Zenon DEF Spaces
    <3> QED
      BY <3>1
  <2>4. CASE cmd.name = "H"
    <3>1. to(ps, b)
      BY <1>3, <1>5, <1>6, <1>8, <2>4, Zenon DEF Spaces
    <3> QED
      BY <3>1
  <2>5. CASE cmd.name = "x"
    <3>1. to(hold, ps)
      BY <1>3, <1>6, <1>8, <2>5, Zenon DEF Spaces
    <3> QED
      BY <3>1
  <2>6. CASE cmd.name = "z"
    <3>1. to(<<>>, hold)
      BY <1>3, <1>6, <1>8, <2>6, Zenon DEF Spaces
    <3> QED
      BY <1>4, <3>1
  <2>7. CASE cmd.name = "y"
    <3>1. to(y, hold)
      BY <1>3, <1>6, <1>8, <1>9, <1>10, <2>7, Zenon DEF Spaces
    <3> QED
      BY <1>11, <2>7, <3>1
  <2> QED
    BY <2>0, <2>1, <2>2, <2>3, <2>4, <2>5, <2>6, <2>7
<1>13. st' \in States(Len(cmds))
  BY <1>2, <1>12, StateSet
<1>14. DOMAIN prog' = ProgFields /\ prog'.hold \in Seq(Chars)
  BY <1>7, <1>12 DEF ProgFields
<1> QED
  BY <1>1, <1>2, <1>13, <1>14 DEF RunData

LEMMA ChangeTextTyped ==
    ASSUME RunInv, Change
    PROVE  RunData(st', out', prog')
<1>1. atCommand /\ st' = st /\ prog' = keep(selected(st.pc))
  BY DEF Change, Selected
<1>2. Len(cmds) \in Nat /\ st \in States(Len(cmds)) /\ out \in OutSet /\ oneCommand(cmd, job)
  BY <1>1, AtCommand DEF RunInv, RunData
<1>3. DOMAIN prog' = ProgFields /\ prog'.hold \in Seq(Chars)
  BY <1>1, KeepIs DEF RunInv, RunData
<1>4. cmd.text \in Chars
  BY <1>2, CharsAre DEF oneCommand
<1>5. out' \in {write(out, <<cmd.text, Newline>>), out}
  BY Zenon DEF Change
<1>6. write(out, <<cmd.text, Newline>>) \in OutSet
  BY <1>2, <1>4, PairWhole, OutSteps, OutSetIs
<1> QED
  BY <1>1, <1>2, <1>3, <1>5, <1>6 DEF RunData

LEMMA AutoprintIs ==
    ASSUME RunInv
    PROVE  autoprint(out) \in OutSet
<1>1. st.ps \in Seq(Chars) /\ st.nl \in BOOLEAN /\ out \in OutSet
  BY DEF RunInv, RunData, States
<1>2. line(out, st.ps, st.nl) \in OutSet
  BY <1>1, OutSteps, OutSetIs
<1> QED
  BY <1>1, <1>2, Zenon DEF autoprint

LEMMA AllQueued ==
    ASSUME RunInv, NEW o \in OutSet
    PROVE  writeAll(o, st.appendQ) \in OutSet
<1>1. st.appendQ \in Seq(Wholes)
  BY DEF RunInv, RunData, States
<1> QED
  BY <1>1, OutSteps, OutSetIs

LEMMA DeleteTextTyped ==
    ASSUME RunInv, DeleteText
    PROVE  RunData(st', out', prog')
<1>1. atCommand /\ prog' = keep(selected(st.pc))
  BY DEF DeleteText, Selected
<1>2. Len(cmds) \in Nat /\ st \in States(Len(cmds)) /\ out \in OutSet
  BY <1>1, AtCommand DEF RunInv, RunData
<1>3. DOMAIN prog' = ProgFields /\ prog'.hold \in Seq(Chars)
  BY <1>1, KeepIs DEF RunInv, RunData
<1>4. PICK f : f = firstNewline(st.ps)
  OBVIOUS
<1>5. f \in 0..Len(st.ps) /\ st.ps \in Seq(Chars)
  BY <1>2, <1>4, FirstNewline DEF States
<1>6. PICK d : d = (cmd.name = "d" \/ f = 0)
  OBVIOUS
<1>7. CASE cmd.name = "d" \/ f = 0
  <2>1. st' = st /\ out' = out
    BY <1>4, <1>7, Zenon DEF DeleteText
  <2> QED
    BY <1>2, <1>3, <2>1 DEF RunData
<1>8. CASE ~(cmd.name = "d" \/ f = 0)
  <2>1. PICK r : r = SubSeq(st.ps, f + 1, Len(st.ps))
    OBVIOUS
  <2>2. r \in Seq(Chars)
    BY <1>5, <2>1
  <2>3. out' = writeAll(out, st.appendQ) /\ st' = [st EXCEPT !.ps = r, !.appendQ = <<>>]
    BY <1>4, <1>8, <2>1, Zenon DEF DeleteText
  <2>4. <<>> \in Seq(Wholes)
    OBVIOUS
  <2>5. st' \in States(Len(cmds))
    BY <1>2, <2>2, <2>3, <2>4 DEF States
  <2> QED
    BY <1>2, <1>3, <2>3, <2>5, AllQueued DEF RunData
<1> QED
  BY <1>7, <1>8

\* input.read.
LEMMA ReadIs ==
    ASSUME NEW n \in Nat, NEW s \in States(n), s.rest # <<>>
    PROVE  /\ read(s) \in States(n) /\ read(s).pc = s.pc
           /\ read(s).rest = Tail(s.rest) /\ read(s).line = s.line + 1 /\ read(s).ps = s.ps
           /\ read(s).appendQ = s.appendQ
           /\ Head(s.rest).text \in Seq(Chars) /\ Head(s.rest).nl \in BOOLEAN
<1>1. PICK r \in Seq(TextLines) : r = s.rest /\ r # <<>>
  BY DEF States
<1>2. PICK h \in TextLines, t \in Seq(TextLines) : h = Head(s.rest) /\ t = Tail(s.rest)
  <2>1. Head(r) \in TextLines /\ Tail(r) \in Seq(TextLines)
    BY <1>1
  <2> QED
    BY <1>1, <2>1
<1>3. h.text \in Seq(Chars) /\ h.nl \in BOOLEAN
  BY DEF TextLines
<1>4. PICK l \in Nat : l = s.line + 1
  BY DEF States
<1>5. read(s) = [s EXCEPT !.rest = t, !.line = l, !.nl = h.nl]
  BY <1>2, <1>4, Zenon DEF read
<1>6. PICK q : q = [s EXCEPT !.rest = t, !.line = l, !.nl = h.nl]
  OBVIOUS
<1>7. q \in States(n)
  BY <1>3, <1>6 DEF States
<1>8. q.pc = s.pc /\ q.rest = t /\ q.line = l /\ q.ps = s.ps /\ q.appendQ = s.appendQ
  BY <1>6 DEF States
<1> QED
  BY <1>2, <1>3, <1>4, <1>5, <1>6, <1>7, <1>8

LEMMA NextLineTyped ==
    ASSUME RunInv, NextLine
    PROVE  RunData(st', out', prog')
<1>1. atCommand /\ prog' = keep(selected(st.pc))
  BY DEF NextLine, Selected
<1>2. /\ Len(cmds) \in Nat /\ st \in States(Len(cmds)) /\ out \in OutSet
      /\ st.pc \in 1..Len(cmds)
  BY <1>1, AtCommand DEF RunInv, RunData
<1>3. DOMAIN prog' = ProgFields /\ prog'.hold \in Seq(Chars)
  BY <1>1, KeepIs DEF RunInv, RunData
<1>4. CASE lastLine
  <2>1. st' = st /\ out' = out
    BY <1>4, Zenon DEF NextLine
  <2> QED
    BY <1>2, <1>3, <2>1 DEF RunData
<1>5. CASE ~lastLine
  <2>1. st.rest # <<>>
    BY <1>5 DEF lastLine
  <2>2. out' = beforeRead(out)
    BY <1>5, Zenon DEF NextLine
  <2>3. out' \in OutSet
    <3>1. PICK o \in OutSet : o = IF cmd.name = "n" THEN autoprint(out) ELSE out
      BY <1>2, AutoprintIs
    <3>2. out' = writeAll(o, st.appendQ)
      BY <2>2, <3>1, Zenon DEF beforeRead
    <3> QED
      BY <3>2, AllQueued
  <2>4. PICK r \in States(Len(cmds)) : r = read(st) /\ r.pc = st.pc /\ r.ps = st.ps
    BY <1>2, <2>1, ReadIs
  <2>5. PICK h \in Seq(Chars) : h = Head(st.rest).text
    BY <1>2, <2>1, ReadIs
  <2>6. PICK k \in 1..(Len(cmds) + 2) : k = r.pc + 1
    BY <1>2, <2>4
  <2>7. PICK a \in States(Len(cmds)) : a = [r EXCEPT !.pc = k] /\ a.ps = st.ps
    <3>1. PICK b : b = [r EXCEPT !.pc = k]
      OBVIOUS
    <3>2. b \in States(Len(cmds)) /\ b.ps = r.ps
      BY <1>2, <3>1, StateSet DEF States
    <3> QED
      BY <2>4, <3>1, <3>2
  <2>8. advanced(read(st)) = a
    BY <2>4, <2>6, <2>7 DEF advanced
  <2>9. PICK p \in Seq(Chars) : p = IF cmd.name = "n" THEN h ELSE a.ps \o <<Newline>> \o h
    <3>1. <<Newline>> \in Seq(Chars) /\ a.ps \in Seq(Chars)
      BY CharsAre, OneIs DEF States
    <3>2. a.ps \o <<Newline>> \in Seq(Chars)
      BY <3>1, E!ConcatIs
    <3>3. a.ps \o <<Newline>> \o h \in Seq(Chars)
      BY <3>2, E!ConcatIs
    <3> QED
      BY <3>3
  <2>10. st' = [a EXCEPT !.ps = p, !.appendQ = <<>>]
    BY <1>5, <2>5, <2>8, <2>9, Zenon DEF NextLine
  <2>11. <<>> \in Seq(Wholes)
    OBVIOUS
  <2>12. st' \in States(Len(cmds))
    BY <2>10, <2>11 DEF States
  <2> QED
    BY <1>3, <2>3, <2>12 DEF RunData
<1> QED
  BY <1>4, <1>5

LEMMA QuitTyped ==
    ASSUME RunInv, Quit
    PROVE  RunData(st', out', prog')
<1>1. atCommand /\ prog' = keep(selected(st.pc)) /\ out' = out /\ st' = [st EXCEPT !.code = cmd.code]
  BY DEF Quit, Selected
<1>2. Len(cmds) \in Nat /\ st \in States(Len(cmds)) /\ out \in OutSet /\ cmd.code \in 0..9
  BY <1>1, AtCommand DEF RunInv, RunData, oneCommand
<1>3. DOMAIN prog' = ProgFields /\ prog'.hold \in Seq(Chars)
  BY <1>1, KeepIs DEF RunInv, RunData
<1>4. st' \in States(Len(cmds))
  BY <1>1, <1>2, StateSet
<1> QED
  BY <1>1, <1>2, <1>3, <1>4 DEF RunData

LEMMA BranchTyped ==
    ASSUME RunInv, Branch
    PROVE  RunData(st', out', prog')
<1>1. atCommand /\ prog' = keep(selected(st.pc)) /\ out' = out
  BY DEF Branch, Selected
<1>2. /\ Len(cmds) \in Nat /\ st \in States(Len(cmds)) /\ out \in OutSet
      /\ block \in 0..(Len(cmds) + 1) /\ st.pc \in 1..Len(cmds)
  BY <1>1, AtCommand DEF RunInv, RunData
<1>3. DOMAIN prog' = ProgFields /\ prog'.hold \in Seq(Chars)
  BY <1>1, KeepIs DEF RunInv, RunData
<1>4. PICK j : st' = [st EXCEPT !.pc = (IF j THEN block ELSE st.pc) + 1,
                                !.replaced = st.replaced /\ cmd.name = "b"]
  BY Zenon DEF Branch
<1>5. PICK k \in 1..(Len(cmds) + 2) : k = (IF j THEN block ELSE st.pc) + 1
  BY <1>2
<1>6. PICK b \in BOOLEAN : b = (st.replaced /\ cmd.name = "b")
  OBVIOUS
<1>7. st' = [st EXCEPT !.pc = k, !.replaced = b]
  BY <1>4, <1>5, <1>6, Zenon
<1>8. st' \in States(Len(cmds))
  BY <1>2, <1>7 DEF States
<1> QED
  BY <1>1, <1>2, <1>3, <1>8 DEF RunData

LEMMA CanWriteIs ==
    ASSUME NEW o, NEW name, name \in named(job), canWrite(name, o)
    PROVE  name = "" \/ name \in job.wnames
  BY DEF canWrite, named

\* What w writes past the output leaves it as it was, unless that is where it goes.
LEMMA SentTyped ==
    ASSUME NEW w, NEW o \in OutSet, NEW name, name \in named(job),
           canWrite(name, o), NEW s \in Seq(Chars)
    PROVE  sent(w, o, name, s).o \in OutSet
<1>1. name = "" \/ name \in job.wnames
  BY CanWriteIs
<1>2. CASE name = "stdout" /\ job.mode # "inPlace"
  <2>1. name # "" /\ "stdout" \in job.wnames
    BY <1>1, <1>2, Zenon
  <2>2. OutSet = Outs
    BY <2>1 DEF OutSet, ApartJob
  <2>3. PICK n \in Nat : n = Len(o.text) + 1
    <3>0. o \in Outs
      BY <2>2
    <3>1. PICK t \in Seq(Chars) : t = o.text
      BY <3>0 DEF Outs
    <3>2. PICK m \in Nat : m = Len(t)
      OBVIOUS
    <3> QED
      BY <3>1, <3>2
  <2>4. PICK p : p = [o EXCEPT !.starts = @ \cup {n}]
    OBVIOUS
  <2>5. p \in Outs
    BY <2>2, <2>3, <2>4 DEF Outs
  <2>6. sent(w, o, name, s).o = put(p, s)
    <3>1. p = [o EXCEPT !.starts = @ \cup {Len(o.text) + 1}]
      BY <2>3, <2>4
    <3>2. sent(w, o, name, s) = [w |-> w, o |-> put([o EXCEPT !.starts = @ \cup {Len(o.text) + 1}], s)]
      BY <1>2, <2>1 DEF sent
    <3>3. PICK r : r = sent(w, o, name, s)
      OBVIOUS
    <3>4. PICK q : q = put(p, s)
      OBVIOUS
    <3>5. r = [w |-> w, o |-> q]
      BY <3>1, <3>2, <3>3, <3>4, Zenon
    <3>6. r.o = q
      BY <3>5
    <3> QED
      BY <3>3, <3>4, <3>6
  <2> QED
    BY <2>2, <2>5, <2>6, PutIs
<1>3. CASE ~(name = "stdout" /\ job.mode # "inPlace")
  <2>0. PICK x : x = [w EXCEPT ![name] = @ \o s]
    OBVIOUS
  <2>1. sent(w, o, name, s) = [w |-> w, o |-> o] \/ sent(w, o, name, s) = [w |-> x, o |-> o]
    BY <1>3, <2>0 DEF sent
  <2>2. PICK r : r = sent(w, o, name, s)
    OBVIOUS
  <2>3. r.o = o
    BY <2>1, <2>2
  <2> QED
    BY <2>2, <2>3
<1> QED
  BY <1>2, <1>3

LEMMA WriteToTyped ==
    ASSUME RunInv, WriteTo
    PROVE  RunData(st', out', prog')
<1>1. atCommand /\ prog' = keep(selected(st.pc)) /\ cmd.name = "w"
  BY DEF WriteTo, Selected
<1>2. /\ Len(cmds) \in Nat /\ st \in States(Len(cmds)) /\ out \in OutSet
      /\ cmd.text \in named(job)
  BY <1>1, AtCommand DEF RunInv, RunData, oneCommand
<1>3. DOMAIN prog' = ProgFields /\ prog'.hold \in Seq(Chars)
  BY <1>1, KeepIs DEF RunInv, RunData
<1>4. PICK s \in Seq(Chars) : s = Append(st.ps, Newline)
  BY <1>2, AppendWhole DEF States
<1>5. CASE canWrite(cmd.text, out)
  <2>1. out' = sent(wrote, out, cmd.text, s).o /\ st' = advanced(st)
    BY <1>4, <1>5, Zenon DEF WriteTo
  <2>2. out' \in OutSet
    BY <1>2, <1>5, <2>1, SentTyped
  <2> QED
    BY <1>1, <1>3, <2>1, <2>2, AdvancedIs DEF RunData
<1>6. CASE ~canWrite(cmd.text, out)
  <2>1. out' = out /\ st' = st
    BY <1>6, Zenon DEF WriteTo
  <2> QED
    BY <1>2, <1>3, <2>1 DEF RunData
<1> QED
  BY <1>5, <1>6

\* What s leaves in the pattern space.
LEMMA SubstitutedTyped ==
    ASSUME NEW set, NEW c, c.repl \in Seq(STRING), st.ps \in Seq(Chars)
    PROVE  substituted(set, c).ps \in Seq(Chars)
<1>1. c.repl \in Seq(Chars)
  BY CharsAre
<1>2. PICK hits : hits = {i \in 1..Len(st.ps) : st.ps[i] \in set}
  OBVIOUS
<1>3. PICK chosen : chosen = {i \in hits : replaces(Cardinality({j \in hits : j <= i}), c)}
  OBVIOUS
<1>4. PICK z : z = [i \in 1..Len(st.ps) |->
                      IF i \in chosen THEN expand(parseReplacement(c.repl), <<<<st.ps[i]>>>>)
                      ELSE <<st.ps[i]>>]
  OBVIOUS
<1>5. substituted(set, c) = [found |-> Cardinality(hits) >= c.nth, ps |-> FlattenSeq(z)]
  BY <1>2, <1>3, <1>4, Zenon DEF substituted
<1>6. substituted(set, c).ps = E!FlattenSeq(z)
  BY <1>5, FlattenIs
<1>7. PICK n \in Nat : n = Len(st.ps)
  OBVIOUS
<1>8. \A i \in 1..n : st.ps[i] \in Chars
  BY <1>7
<1>9. \A i \in 1..n : z[i] \in Seq(Chars)
  <2> SUFFICES ASSUME NEW i \in 1..n PROVE z[i] \in Seq(Chars)
    OBVIOUS
  <2>1. expand(parseReplacement(c.repl), <<<<st.ps[i]>>>>) \in Seq(Chars)
    BY <1>1, <1>8, ExpandTyped
  <2>2. <<st.ps[i]>> \in Seq(Chars)
    BY <1>8, OneIs
  <2> QED
    BY <1>4, <1>7, <2>1, <2>2
<1>10. z \in Seq(Seq(Chars))
  <2>1. z = [i \in 1..n |-> z[i]]
    BY <1>4, <1>7
  <2> QED
    BY <1>9, <2>1
<1> QED
  BY <1>6, <1>10, E!FlattenTyped
LEMMA LengthIs ==
    ASSUME job \in Invocations, cmds = parse(job.script)
    PROVE  Len(cmds) \in Nat
<1>1. PICK n \in Nat : n = Len(job.script)
  BY SedAssumption
<1>2. CASE parseOk(job.script)
  <2>1. cmds = [i \in 1..n |-> [c |-> job.script[i], block |-> blockOf(job.script, i)]]
    BY <1>1, <1>2, Zenon DEF parse
  <2> QED
    BY <2>1
<1>3. CASE ~parseOk(job.script)
  <2>1. cmds = <<>>
    BY <1>3, Zenon DEF parse
  <2> QED
    BY <2>1
<1> QED
  BY <1>2, <1>3

LEMMA SubstituteTyped ==
    ASSUME RunInv, Substitute
    PROVE  RunData(st', out', prog')
<1>1. atCommand
  BY DEF Substitute, Selected
<1>2. /\ Len(cmds) \in Nat /\ st \in States(Len(cmds)) /\ out \in OutSet
      /\ cmd.wfile \in named(job) /\ cmd.repl \in Seq(STRING)
      /\ st.ps \in Seq(Chars) /\ st.nl \in BOOLEAN
  BY <1>1, AtCommand DEF RunInv, RunData, oneCommand, States
<1>3. PICK k : k = keep(selected(st.pc))
  OBVIOUS
<1>4. DOMAIN k = ProgFields /\ k.hold \in Seq(Chars)
  BY <1>3, KeepIs DEF RunInv, RunData
<1>5. PICK a : a = [kind |-> "regex", set |-> cmd.set]
  OBVIOUS
<1>6. PICK rx : rx = rxAfter(a, k.lastRx)
  OBVIOUS
<1>7. DOMAIN prog' = ProgFields /\ prog'.hold \in Seq(Chars)
  <2>1. prog' = [k EXCEPT !.lastRx = rx]
    BY <1>3, <1>5, <1>6, Zenon DEF Substitute
  <2> QED
    BY <1>4, <2>1 DEF ProgFields
<1>8. PICK r : r = substituted(rx, cmd)
  OBVIOUS
<1>9. PICK ps \in Seq(Chars) : ps = r.ps
  BY <1>2, <1>8, SubstitutedTyped
<1>10. PICK adv \in States(Len(cmds)) : adv = advanced(st)
  BY <1>1, AdvancedIs
<1>11. PICK s : s = [adv EXCEPT !.ps = ps, !.replaced = TRUE]
  OBVIOUS
<1>12. s \in States(Len(cmds))
  BY <1>11 DEF States
<1>13. PICK o \in OutSet : o = IF cmd.print THEN line(out, ps, st.nl) ELSE out
  <2>1. line(out, ps, st.nl) \in OutSet
    BY <1>2, OutSteps, OutSetIs
  <2> QED
    BY <1>2, <2>1
<1>14. PICK z \in Seq(Chars) : z = Append(ps, Newline)
  BY AppendWhole
<1>15. PICK v : v = sent(wrote, o, cmd.wfile, z)
  OBVIOUS
<1>16. \/ st' = st /\ out' = out
       \/ st' = adv /\ out' = out
       \/ canWrite(cmd.wfile, o) /\ st' = s /\ out' = v.o
       \/ st' = s /\ out' = o
  BY <1>3, <1>5, <1>6, <1>8, <1>9, <1>10, <1>11, <1>13, <1>14, <1>15, Zenon DEF Substitute
<1>17. canWrite(cmd.wfile, o) => v.o \in OutSet
  BY <1>2, <1>15, SentTyped
<1> QED
  BY <1>2, <1>7, <1>12, <1>16, <1>17 DEF RunData

LEMMA CycleTyped ==
    ASSUME RunInv, Cycle
    PROVE  RunData(st', out', prog')
<1>1. out' = out /\ prog' = prog
  BY DEF Cycle
<1>2. st \in States(Len(cmds)) /\ out \in OutSet /\ RunData(st, out, prog)
  BY DEF RunInv, RunData
<1>3. PICK n \in Nat : n = Len(cmds)
  BY LengthIs DEF RunInv
<1>4. CASE lastLine
  <2>1. st' = st
    BY <1>4, Zenon DEF Cycle
  <2> QED
    BY <1>1, <1>2, <2>1 DEF RunData
<1>5. CASE ~lastLine
  <2>1. st.rest # <<>>
    BY <1>5 DEF lastLine
  <2>2. PICK r \in States(n) : r = read(st)
    BY <1>2, <1>3, <2>1, ReadIs
  <2>3. PICK h \in Seq(Chars) : h = Head(st.rest).text
    BY <1>2, <1>3, <2>1, ReadIs
  <2>4. st' = [r EXCEPT !.ps = h, !.replaced = FALSE, !.pc = 1]
    BY <1>5, <2>2, <2>3, Zenon DEF Cycle
  <2>5. 1 \in 1..(n + 2)
    BY <1>3
  <2>6. st' \in States(n)
    BY <2>4, <2>5 DEF States
  <2> QED
    BY <1>1, <1>2, <1>3, <2>6 DEF RunData
<1> QED
  BY <1>4, <1>5

LEMMA EndCycleTyped ==
    ASSUME RunInv, EndCycle
    PROVE  RunData(st', out', prog') /\ (stage' = "cycle" => st'.appendQ = <<>>)
<1>1. prog' = prog
  BY DEF EndCycle
<1>2. st \in States(Len(cmds)) /\ out \in OutSet /\ RunData(st, out, prog)
  BY DEF RunInv, RunData
<1>3. PICK n \in Nat : n = Len(cmds)
  BY LengthIs DEF RunInv
<1>4. PICK silent : silent = (stage = "quitSilent")
  OBVIOUS
<1>5. PICK q \in Seq(Wholes) : q = IF stage = "quitSilent" THEN st.appendQ ELSE <<>>
  <2>1. st.appendQ \in Seq(Wholes) /\ <<>> \in Seq(Wholes)
    BY <1>2 DEF States
  <2> QED
    BY <2>1
<1>6. PICK b \in BOOLEAN : b = (stage \in {"quit", "quitSilent"})
  <2>1. PICK b : b = (stage \in {"quit", "quitSilent"})
    OBVIOUS
  <2>2. b \in BOOLEAN
    BY <2>1
  <2> QED
    BY <2>1, <2>2
<1>7. st' = [st EXCEPT !.appendQ = q, !.quit = b, !.pc = 1]
  BY <1>5, <1>6, Zenon DEF EndCycle
<1>8. 1 \in 1..(n + 2)
  BY <1>3
<1>9. st' \in States(n) /\ st'.appendQ = q
  BY <1>2, <1>3, <1>7, <1>8 DEF States
<1>10. out' \in OutSet
  <2>1. writeAll(autoprint(out), st.appendQ) \in OutSet /\ writeAll(out, st.appendQ) \in OutSet
    BY <1>2, AutoprintIs, AllQueued
  <2>2. out' \in {writeAll(autoprint(out), st.appendQ), writeAll(out, st.appendQ), out}
    BY Zenon DEF EndCycle
  <2> QED
    BY <1>2, <2>1, <2>2
<1>11. stage' = "cycle" => q = <<>>
  <2>1. stage = "quitSilent" => stage' = "ended"
    BY Zenon DEF EndCycle
  <2> QED
    BY <1>5, <2>1
<1> QED
  BY <1>1, <1>2, <1>3, <1>9, <1>10, <1>11 DEF RunData

\* The lines of a file, and of all of them.
LEMMA LinesTyped ==
    ASSUME NEW f \in Docs
    PROVE  linesOf(f) \in Seq(TextLines)
<1>1. PICK ls \in Seq(Seq(STRING)), nl \in BOOLEAN : ls = f.lines /\ nl = f.nl
  BY DEF Docs
<1>2. PICK n \in Nat : n = Len(ls)
  OBVIOUS
<1>3. linesOf(f) = [i \in 1..n |-> [text |-> ls[i], nl |-> i < n \/ nl]]
  BY <1>1, <1>2 DEF linesOf
<1>4. ASSUME NEW i \in 1..n PROVE [text |-> ls[i], nl |-> i < n \/ nl] \in TextLines
  <2>1. ls[i] \in Seq(STRING)
    BY <1>2
  <2>2. ls[i] \in Seq(Chars)
    BY <2>1, CharsAre
  <2>3. (i < n \/ nl) \in BOOLEAN
    OBVIOUS
  <2> QED
    BY <2>2, <2>3 DEF TextLines
<1> QED
  BY <1>2, <1>3, <1>4

LEMMA AllLinesTyped ==
    ASSUME NEW files \in Seq(Docs)
    PROVE  linesOfAll(files) \in Seq(TextLines)
<1>1. PICK n \in Nat : n = Len(files)
  OBVIOUS
<1>2. PICK z : z = [i \in 1..n |-> IF readable(files[i]) THEN linesOf(files[i]) ELSE <<>>]
  OBVIOUS
<1>3. ASSUME NEW i \in 1..n PROVE z[i] \in Seq(TextLines)
  <2>1. files[i] \in Docs
    BY <1>1
  <2>2. linesOf(files[i]) \in Seq(TextLines) /\ <<>> \in Seq(TextLines)
    BY <2>1, LinesTyped
  <2> QED
    BY <1>2, <2>2
<1>4. z \in Seq(Seq(TextLines))
  <2>1. z = [i \in 1..n |-> z[i]]
    BY <1>2
  <2> QED
    BY <1>1, <1>3, <2>1
<1>5. linesOfAll(files) = E!FlattenSeq(z)
  BY <1>1, <1>2, FlattenIs DEF linesOfAll
<1> QED
  BY <1>4, <1>5, E!FlattenTyped

LEMMA OpenTyped ==
    ASSUME RunInv, Open
    PROVE  /\ RunData(st', out', prog')
           /\ stage' = "cycle" => st'.appendQ = <<>> /\ file' <= Len(job.files)
           /\ file' \in 1..(Len(job.files) + 1) /\ status' \in 0..9
<1>1. prog' = prog /\ job' = job /\ stage = "open"
  BY DEF Open
<1>2. st \in States(Len(cmds)) /\ out \in OutSet /\ RunData(st, out, prog) /\ job \in Invocations
  BY DEF RunInv, RunData
<1>3. PICK n \in Nat : n = Len(cmds)
  BY LengthIs DEF RunInv
<1>4. job.files \in Seq(Docs)
  BY <1>2, SedAssumption
<1>5. PICK m \in Nat : m = Len(job.files)
  BY <1>4
<1>6. file \in 1..(m + 1) /\ status \in 0..9
  BY <1>5 DEF RunInv
<1> DEFINE fresh(lines) == [rest |-> lines, line |-> 0, ps |-> <<>>, nl |-> TRUE, replaced |-> FALSE,
                            appendQ |-> <<>>, pc |-> 1, quit |-> FALSE, code |-> 0]
           opened1 == [newOutput EXCEPT !.text = IF job.mode = "separate" THEN out.text ELSE <<>>,
                                        !.starts = IF job.mode = "separate" THEN out.starts ELSE {},
                                        !.room = out.room]
<1>7. ASSUME NEW ls \in Seq(TextLines) PROVE fresh(ls) \in States(n) /\ fresh(ls).appendQ = <<>>
  <2>1. <<>> \in Seq(Chars) /\ <<>> \in Seq(Wholes)
    OBVIOUS
  <2>2. 1 \in 1..(n + 2) /\ 0 \in 0..9
    BY <1>3
  <2> QED
    BY <2>1, <2>2 DEF States
<1>9. opened1 \in OutSet
  <2>1. out \in Outs
    BY <1>2 DEF OutSet, Goods
  <2>2. <<>> \in Seq(Chars) /\ out.room \in Nat /\ out.text \in Seq(Chars) /\ out.starts \in SUBSET Nat
    BY <2>1 DEF Outs
  <2>3. PICK x \in Seq(Chars), s \in SUBSET Nat, r \in Nat :
             /\ x = IF job.mode = "separate" THEN out.text ELSE <<>>
             /\ s = IF job.mode = "separate" THEN out.starts ELSE {}
             /\ r = out.room
    BY <2>2
  <2>4. PICK v : v = newOutput
    OBVIOUS
  <2>5. v \in Outs
    <3>1. job.room \in Nat
      BY <1>2, SedAssumption
    <3> QED
      BY <2>2, <2>4, <3>1 DEF newOutput, Outs
  <2>6. PICK w : w = [v EXCEPT !.text = x, !.starts = s, !.room = r]
    OBVIOUS
  <2>7. w \in Outs /\ w.starts = s /\ w.text = x
    BY <2>5, <2>6 DEF Outs
  <2>8. opened1 = w
    BY <2>3, <2>4, <2>6, Zenon
  <2>9. CASE job.mode = "separate"
    <3>1. OutSet = Outs
      BY <2>9 DEF OutSet, ApartJob
    <3> QED
      BY <2>7, <2>8, <3>1
  <2>10. CASE job.mode # "separate"
    <3>1. s = {} /\ x = <<>>
      BY <2>3, <2>10
    <3>2. Apart(w) /\ Closed(w)
      BY <2>7, <3>1 DEF Apart, Closed
    <3> QED
      BY <2>7, <2>8, <3>2 DEF OutSet, Goods
  <2> QED
    BY <2>9, <2>10
<1> HIDE DEF opened1
<1>10. CASE file > Len(job.files)
  <2>1. stage' = "done" /\ st' = st /\ out' = out /\ file' = file /\ status' = status
    BY <1>10, Zenon DEF Open
  <2> QED
    BY <1>1, <1>2, <1>5, <1>6, <2>1 DEF RunData
<1>11. CASE ~(file > Len(job.files)) /\ job.mode = "stream"
  <2>1. /\ st' = fresh(linesOfAll(job.files)) /\ out' = opened1 /\ file' = Len(job.files)
        /\ status' = IF \A i \in 1..Len(job.files) : readable(job.files[i]) THEN 0 ELSE 2
    BY <1>11, Zenon DEF Open, opened1
  <2>2. status' \in 0..9
    BY <2>1
  <2>3. st' \in States(n) /\ st'.appendQ = <<>>
    BY <1>4, <1>7, <2>1, AllLinesTyped
  <2>4. file' \in 1..(m + 1) /\ file' <= m
    BY <1>5, <1>6, <1>11, <2>1
  <2> QED
    BY <1>1, <1>2, <1>3, <1>5, <1>9, <2>1, <2>2, <2>3, <2>4 DEF RunData
<1>12. CASE ~(file > Len(job.files)) /\ job.mode # "stream" /\ readable(job.files[file])
  <2>1. st' = fresh(linesOf(job.files[file])) /\ out' = opened1 /\ file' = file /\ status' = status
    BY <1>12, Zenon DEF Open, opened1
  <2>2. file \in 1..m
    BY <1>5, <1>6, <1>12
  <2>3. job.files[file] \in Docs
    BY <1>4, <1>5, <2>2
  <2>4. st' \in States(n) /\ st'.appendQ = <<>>
    BY <1>7, <2>1, <2>3, LinesTyped
  <2> QED
    BY <1>1, <1>2, <1>3, <1>5, <1>6, <1>9, <2>1, <2>2, <2>4 DEF RunData
<1>13. CASE ~(file > Len(job.files)) /\ job.mode # "stream" /\ ~readable(job.files[file])
  <2>1. /\ st' = st /\ out' = out /\ stage' = stage /\ file' = file + 1
        /\ status' = IF job.mode = "inPlace" /\ job.files[file].kind = "dir" THEN 4 ELSE 2
    BY <1>13, Zenon DEF Open
  <2>2. file' \in 1..(m + 1) /\ status' \in 0..9
    BY <1>5, <1>6, <1>13, <2>1
  <2> QED
    BY <1>1, <1>2, <1>5, <2>1, <2>2 DEF RunData
<1> QED
  BY <1>10, <1>11, <1>12, <1>13

LEMMA FinishTyped ==
    ASSUME RunInv, Finish
    PROVE  /\ RunData(st', out', prog') /\ stage' \in {"open", "done"}
           /\ file' \in 1..(Len(job.files) + 1) /\ status' \in 0..9
<1>1. /\ st' = st /\ out' = out /\ prog' = prog /\ job' = job /\ stage \in InRun
      /\ RunData(st, out, prog) /\ st \in States(Len(cmds)) /\ job \in Invocations
  BY DEF RunInv, RunData, Finish, InRun
<1>2. PICK m \in Nat : m = Len(job.files)
  BY <1>1, SedAssumption
<1>3. file \in 1..m /\ status \in 0..9
  BY <1>1, <1>2 DEF RunInv
<1>4. st.code \in 0..9
  BY <1>1 DEF States
<1>5. PICK err : err = (out.err \/ stage = "failed")
  OBVIOUS
<1>6. PICK c \in 0..9 : c = IF err THEN 4 ELSE IF st.quit THEN st.code ELSE 0
  BY <1>4
<1>7. \/ stage' = "done" /\ status' \in {c, 4} /\ file' = file
      \/ stage' = "open" /\ file' = file + 1 /\ status' = status
  BY <1>5, <1>6, Zenon DEF Finish
<1> QED
  BY <1>1, <1>2, <1>3, <1>7

\* RunData speaks of the lengths of the script and of the kind of the job.
LEMMA PrimedData ==
    ASSUME job' = job, cmds' = cmds, RunData(st', out', prog')
    PROVE  RunData(st, out, prog)'
  BY DEF RunData, OutSet, ApartJob

LEMMA RunInit == SedInit => RunInv
<1> SUFFICES ASSUME SedInit PROVE RunInv
  OBVIOUS
<1>1. job \in Invocations /\ cmds = parse(job.script) /\ stage \in {"open", "done"} /\ file = 1 /\ status \in 0..9
  BY DEF SedInit
<1>2. job.room \in Nat /\ job.files \in Seq(Docs)
  BY <1>1, SedAssumption
<1>3. PICK n \in Nat : n = Len(cmds)
  BY <1>1, LengthIs
<1>4. st \in States(n)
  <2>1. <<>> \in Seq(Chars) /\ <<>> \in Seq(Wholes) /\ <<>> \in Seq(TextLines)
    OBVIOUS
  <2>2. 1 \in 1..(n + 2) /\ 0 \in 0..9
    BY <1>3
  <2> QED
    BY <2>1, <2>2 DEF SedInit, States
<1>5. out \in OutSet
  <2>1. out = [text |-> <<>>, missingNL |-> FALSE, err |-> FALSE, room |-> job.room, starts |-> {}]
    BY DEF SedInit, newOutput
  <2>2. <<>> \in Seq(Chars)
    OBVIOUS
  <2>3. out \in Outs
    BY <1>2, <2>1, <2>2 DEF Outs
  <2>4. Apart(out) /\ Closed(out)
    BY <2>1 DEF Apart, Closed
  <2> QED
    BY <2>3, <2>4 DEF OutSet, Goods
<1>6. DOMAIN prog = ProgFields /\ prog.hold \in Seq(Chars)
  <2>1. <<>> \in Seq(Chars)
    OBVIOUS
  <2> QED
    BY <2>1 DEF SedInit, ProgFields
<1>7. 1 \in 1..(Len(job.files) + 1)
  BY <1>2
<1> QED
  BY <1>1, <1>3, <1>4, <1>5, <1>6, <1>7 DEF RunInv, RunData, InRun

\* A command, and what goes on around it, leaves the invocation and the files.
Inside == /\ UNCHANGED <<job, cmds, file, status>> /\ stage \in InRun /\ stage' \in InRun
          /\ stage = "exec" => stage' # "cycle"

LEMMA InsideIs ==
    /\ Skip \/ Emit \/ Spaces \/ Change \/ DeleteText \/ NextLine \/ Quit \/ Branch \/ WriteTo \/ Substitute
          => Inside /\ stage = "exec"
    /\ Cycle => UNCHANGED <<job, cmds, file, status>> /\ stage \in InRun /\ stage' \in InRun \ {"cycle"}
    /\ EndCycle => UNCHANGED <<job, cmds, file, status>> /\ stage \in InRun /\ stage' \in InRun
<1> USE DEF Inside, InRun, rest
<1>1. Skip => Inside /\ stage = "exec"
  BY DEF Skip, atCommand
<1>2. Emit \/ Spaces \/ Change => Inside /\ stage = "exec"
  BY DEF Emit, Spaces, Change, Selected, atCommand
<1>3. DeleteText \/ NextLine \/ Quit => Inside /\ stage = "exec"
  BY DEF DeleteText, NextLine, Quit, Selected, atCommand
<1>4. Branch \/ WriteTo \/ Substitute => Inside /\ stage = "exec"
  BY DEF Branch, WriteTo, Substitute, Selected, atCommand
<1>5. Cycle => UNCHANGED <<job, cmds, file, status>> /\ stage \in InRun /\ stage' \in InRun \ {"cycle"}
  BY DEF Cycle
<1>6. EndCycle => UNCHANGED <<job, cmds, file, status>> /\ stage \in InRun /\ stage' \in InRun
  BY DEF EndCycle
<1> QED
  BY <1>1, <1>2, <1>3, <1>4, <1>5, <1>6

LEMMA RunStep == RunInv /\ [SedNext]_sedVars => RunInv'
<1> SUFFICES ASSUME RunInv, [SedNext]_sedVars PROVE RunInv'
  OBVIOUS
<1> USE DEF InRun
<1>1. ASSUME Skip \/ Emit \/ Spaces \/ Change \/ DeleteText \/ NextLine \/ Quit \/ Branch \/ WriteTo \/ Substitute
      PROVE  RunInv'
  <2>1. Inside /\ stage = "exec"
    BY <1>1, InsideIs
  <2>2. RunData(st', out', prog')
    BY <1>1, SkipTyped, EmitTextTyped, SpacesTextTyped, ChangeTextTyped, DeleteTextTyped, NextLineTyped,
       QuitTyped, BranchTyped, WriteToTyped, SubstituteTyped
  <2> QED
    BY <2>1, <2>2, PrimedData DEF Inside, RunInv
<1>2. ASSUME Cycle PROVE RunInv'
  <2>1. UNCHANGED <<job, cmds, file, status>> /\ stage \in InRun /\ stage' \in InRun \ {"cycle"}
    BY <1>2, InsideIs
  <2> QED
    BY <1>2, <2>1, CycleTyped, PrimedData DEF RunInv
<1>3. ASSUME EndCycle PROVE RunInv'
  <2>1. UNCHANGED <<job, cmds, file, status>> /\ stage \in InRun /\ stage' \in InRun
    BY <1>3, InsideIs
  <2> QED
    BY <1>3, <2>1, EndCycleTyped, PrimedData DEF RunInv
<1>4. ASSUME Open PROVE RunInv'
  <2>1. UNCHANGED <<job, cmds>> /\ stage' \in {"open", "done", "cycle"}
    BY <1>4 DEF Open
  <2> QED
    BY <1>4, <2>1, OpenTyped, PrimedData DEF RunInv
<1>5. ASSUME Finish PROVE RunInv'
  <2>1. UNCHANGED <<job, cmds>>
    BY <1>5 DEF Finish
  <2> QED
    BY <1>5, <2>1, FinishTyped, PrimedData DEF RunInv
<1>6. CASE UNCHANGED sedVars
  <2>1. UNCHANGED <<job, cmds, st, out, prog, stage, file, status>>
    BY <1>6 DEF sedVars
  <2> QED
    BY <2>1, PrimedData DEF RunInv
<1> QED
  BY <1>1, <1>2, <1>3, <1>4, <1>5, <1>6 DEF SedNext

\* What a step reads and writes: texts that were queued go out with it.
LEMMA QueueGoes ==
    ASSUME RunInv, NEW o \in OutSet
    PROVE  LET r == writeAll(o, st.appendQ) IN r.err \/ IsSuffix(FlattenSeq(st.appendQ), r.text)
<1>1. o \in Outs
  BY DEF OutSet, Goods
<1>2. st.appendQ \in Seq(Wholes)
  BY DEF RunInv, RunData, States
<1>3. Seq(Wholes) \subseteq Seq(Seq(Chars))
  <2>1. Wholes \subseteq Seq(Chars)
    BY DEF Wholes
  <2> QED
    BY <2>1, SeqSub
<1>4. st.appendQ \in Seq(Seq(Chars))
  BY <1>2, <1>3
<1> QED
  BY <1>1, <1>4, WriteAllIs, Zenon

\* A line is read, or the rest of one is run on, only by these.
LEMMA SameLine ==
    ASSUME RunInv
    PROVE  /\ Skip \/ Emit \/ Spaces \/ Change \/ DeleteText \/ Quit \/ Branch \/ WriteTo \/ Substitute
                => st'.line = st.line
           /\ Open => ~(st'.line > st.line)
           /\ Finish => st'.line = st.line
           /\ EndCycle => st'.line = st.line
<1>1. st \in States(Len(cmds)) /\ st.line \in Nat
  BY DEF RunInv, RunData, States
<1>2. PICK f : f = DOMAIN st
  OBVIOUS
<1>3. f = StFields
  BY <1>1, <1>2 DEF States, StFields
<1>4. atCommand => advanced(st).line = st.line /\ \A x : /\ [advanced(st) EXCEPT !.ps = x].line = st.line
                                                        /\ [advanced(st) EXCEPT !.appendQ = x].line = st.line
                                                        /\ [advanced(st) EXCEPT !.ps = x, !.replaced = TRUE].line = st.line
  <2> SUFFICES ASSUME atCommand, NEW x PROVE /\ advanced(st).line = st.line
                                             /\ [advanced(st) EXCEPT !.ps = x].line = st.line
                                             /\ [advanced(st) EXCEPT !.appendQ = x].line = st.line
                                             /\ [advanced(st) EXCEPT !.ps = x, !.replaced = TRUE].line = st.line
    OBVIOUS
  <2>1. PICK a \in States(Len(cmds)) : a = advanced(st) /\ a.line = st.line
    BY AdvancedIs
  <2>2. /\ [a EXCEPT !.ps = x].line = a.line
        /\ [a EXCEPT !.appendQ = x].line = a.line
        /\ [a EXCEPT !.ps = x, !.replaced = TRUE].line = a.line
    BY DEF States
  <2> QED
    BY <2>1, <2>2
<1>5. /\ \A x : [st EXCEPT !.pc = x].line = st.line
      /\ \A x : [st EXCEPT !.code = x].line = st.line
      /\ \A x, y : [st EXCEPT !.pc = x, !.replaced = y].line = st.line
      /\ \A x, y : [st EXCEPT !.ps = x, !.appendQ = y].line = st.line
      /\ \A x, y, z : [st EXCEPT !.appendQ = x, !.quit = y, !.pc = z].line = st.line
  BY <1>1 DEF States
<1>6. Skip => st'.line = st.line
  <2> SUFFICES ASSUME Skip PROVE st'.line = st.line
    OBVIOUS
  <2>1. atCommand
    BY DEF Skip
  <2>2. PICK x : x = block + 1
    OBVIOUS
  <2>3. st' \in {st, advanced(st), [st EXCEPT !.pc = x]}
    BY <2>2, Zenon DEF Skip
  <2>4. [st EXCEPT !.pc = x].line = st.line
    BY <1>5
  <2> QED
    BY <1>4, <2>1, <2>3, <2>4
<1>7. Emit => st'.line = st.line
  <2> SUFFICES ASSUME Emit PROVE st'.line = st.line
    OBVIOUS
  <2>1. atCommand
    BY DEF Emit, Selected
  <2>2. PICK a : a = advanced(st)
    OBVIOUS
  <2>3. \E x : st' = [a EXCEPT !.appendQ = x]
    BY <2>2 DEF Emit
  <2> QED
    BY <1>4, <2>1, <2>2, <2>3
<1>8. Spaces => st'.line = st.line
  <2> SUFFICES ASSUME Spaces PROVE st'.line = st.line
    OBVIOUS
  <2>1. atCommand /\ cmd.name \in {"g", "G", "h", "H", "x", "z", "y"}
    BY DEF Spaces, Selected
  <2>2. \E x : st' = [advanced(st) EXCEPT !.ps = x]
    BY <2>1, Zenon DEF Spaces
  <2> QED
    BY <1>4, <2>1, <2>2
<1>9. Change \/ Finish => st'.line = st.line
  BY DEF Change, Finish
<1>10. DeleteText => st'.line = st.line
  <2> SUFFICES ASSUME DeleteText PROVE st'.line = st.line
    OBVIOUS
  <2>1. PICK x, y : st' = st \/ st' = [st EXCEPT !.ps = x, !.appendQ = y]
    BY Zenon DEF DeleteText
  <2>2. [st EXCEPT !.ps = x, !.appendQ = y].line = st.line
    BY <1>5
  <2> QED
    BY <2>1, <2>2
<1>11. Quit => st'.line = st.line
  BY <1>5 DEF Quit
<1>12. Branch => st'.line = st.line
  <2> SUFFICES ASSUME Branch PROVE st'.line = st.line
    OBVIOUS
  <2>1. \E x, y : st' = [st EXCEPT !.pc = x, !.replaced = y]
    BY Zenon DEF Branch
  <2> QED
    BY <1>5, <2>1
<1>13. WriteTo => st'.line = st.line
  <2> SUFFICES ASSUME WriteTo PROVE st'.line = st.line
    OBVIOUS
  <2>1. atCommand /\ st' \in {st, advanced(st)}
    BY Zenon DEF WriteTo, Selected
  <2> QED
    BY <1>4, <2>1
<1>14. Substitute => st'.line = st.line
  <2> SUFFICES ASSUME Substitute PROVE st'.line = st.line
    OBVIOUS
  <2>1. atCommand
    BY DEF Substitute, Selected
  <2>2. st' \in {st, advanced(st)} \/ \E x : st' = [advanced(st) EXCEPT !.ps = x, !.replaced = TRUE]
    BY Zenon DEF Substitute
  <2> QED
    BY <1>4, <2>1, <2>2
<1>15. EndCycle => st'.line = st.line
  <2> SUFFICES ASSUME EndCycle PROVE st'.line = st.line
    OBVIOUS
  <2>1. \E x, y, z : st' = [st EXCEPT !.appendQ = x, !.quit = y, !.pc = z]
    BY Zenon DEF EndCycle
  <2> QED
    BY <1>5, <2>1
<1>16. Open => ~(st'.line > st.line)
  <2> SUFFICES ASSUME Open PROVE ~(st'.line > st.line)
    OBVIOUS
  <2> DEFINE fresh(lines) == [rest |-> lines, line |-> 0, ps |-> <<>>, nl |-> TRUE, replaced |-> FALSE,
                              appendQ |-> <<>>, pc |-> 1, quit |-> FALSE, code |-> 0]
  <2>1. st' = st \/ \E x : st' = fresh(x)
    BY Zenon DEF Open
  <2>2. \A x : fresh(x).line = 0
    OBVIOUS
  <2> HIDE DEF fresh
  <2> QED
    BY <1>1, <2>1, <2>2
<1> QED
  BY <1>6, <1>7, <1>8, <1>9, <1>10, <1>11, <1>12, <1>13, <1>14, <1>15, <1>16

LEMMA NothingEnds ==
    ASSUME NEW s \in Seq(Chars)
    PROVE  IsSuffix(FlattenSeq(<<>>), s)
<1>1. FlattenSeq(<<>>) = <<>> /\ s \o <<>> = s
  BY FlattenIs, E!FlattenEmpty, E!AllIs
<1>2. PICK e \in Seq(Chars) : e = <<>>
  BY CharsAre
<1>3. IsSuffix(e, s \o e)
  BY EndIsSuffix
<1> QED
  BY <1>1, <1>2, <1>3, Zenon

\* Texts queued by a and r go out in order before the next line is read, also
\* by n, N and D (sed.go:189), or the output has failed: for any script and files.
THEOREM QueueIsFlushed == SedSpec => AppendsBeforeNextLine
<1> DEFINE moves == st'.line > st.line \/ (stage = "restart" /\ stage' = "exec")
           flushed == st'.appendQ = <<>> /\ (out'.err \/ IsSuffix(FlattenSeq(st.appendQ), out'.text))
<1>1. ASSUME RunInv, [SedNext]_sedVars, moves PROVE flushed
  <2>0. st \in States(Len(cmds)) /\ st.line \in Nat /\ out \in OutSet
    BY <1>1 DEF RunInv, RunData, States
  <2>1. CASE Skip \/ Emit \/ Spaces \/ Change \/ DeleteText \/ Quit \/ Branch \/ WriteTo \/ Substitute
    <3>1. stage = "exec"
      BY <1>1, <2>1, InsideIs
    <3> QED
      BY <1>1, <2>0, <2>1, <3>1, SameLine
  <2>2. CASE Open
    <3>1. stage = "open"
      BY <2>2 DEF Open
    <3> QED
      BY <1>1, <2>2, <3>1, SameLine
  <2>3. CASE Finish
    <3>1. stage # "restart"
      BY <2>3 DEF Finish
    <3> QED
      BY <1>1, <2>0, <2>3, <3>1, SameLine
  <2>4. CASE UNCHANGED sedVars
    BY <1>1, <2>0, <2>4 DEF sedVars
  <2>5. CASE Cycle
    <3>1. stage = "cycle" /\ st.appendQ = <<>> /\ out' = out
      BY <1>1, <2>5 DEF Cycle, RunInv
    <3>2. ~lastLine
      <4> SUFFICES ASSUME lastLine PROVE FALSE
        OBVIOUS
      <4>1. st' = st
        BY <2>5, Zenon DEF Cycle
      <4> QED
        BY <1>1, <2>0, <3>1, <4>1
    <3>3. st.rest # <<>>
      BY <3>2 DEF lastLine
    <3>4. PICK n \in Nat : n = Len(cmds)
      BY <1>1, LengthIs DEF RunInv
    <3>5. PICK r \in States(n) : r = read(st) /\ r.appendQ = st.appendQ
      BY <2>0, <3>3, <3>4, ReadIs
    <3>6. PICK h : h = Head(st.rest).text
      OBVIOUS
    <3>7. st' = [r EXCEPT !.ps = h, !.replaced = FALSE, !.pc = 1]
      BY <2>5, <3>2, <3>5, <3>6, Zenon DEF Cycle
    <3>8. st'.appendQ = <<>>
      BY <3>1, <3>5, <3>7 DEF States
    <3>9. out \in Outs
      BY <2>0 DEF OutSet, Goods
    <3> QED
      BY <3>1, <3>8, <3>9, NothingEnds DEF Outs
  <2>6. CASE NextLine
    <3>1. stage = "exec"
      BY <1>1, <2>6, InsideIs
    <3>2. ~lastLine
      <4> SUFFICES ASSUME lastLine PROVE FALSE
        OBVIOUS
      <4>1. st' = st
        BY <2>6, Zenon DEF NextLine
      <4> QED
        BY <1>1, <2>0, <3>1, <4>1
    <3>3. PICK o \in OutSet : o = IF cmd.name = "n" THEN autoprint(out) ELSE out
      BY <1>1, <2>0, AutoprintIs
    <3>4. out' = writeAll(o, st.appendQ)
      BY <2>6, <3>2, <3>3, Zenon DEF NextLine, beforeRead
    <3>5. PICK a, p : st' = [a EXCEPT !.ps = p, !.appendQ = <<>>] /\ a = advanced(read(st))
      BY <2>6, <3>2, Zenon DEF NextLine
    <3>6. st'.appendQ = <<>>
      <4>1. st.rest # <<>>
        BY <3>2 DEF lastLine
      <4>2. PICK n \in Nat : n = Len(cmds)
        BY <1>1, LengthIs DEF RunInv
      <4>3. PICK r \in States(n) : r = read(st)
        BY <2>0, <4>1, <4>2, ReadIs
      <4>4. PICK k : k = r.pc + 1
        OBVIOUS
      <4>5. a = [r EXCEPT !.pc = k]
        BY <3>5, <4>3, <4>4 DEF advanced
      <4>6. DOMAIN a = StFields
        BY <4>5 DEF States, StFields
      <4> QED
        BY <3>5, <4>6 DEF StFields
    <3> QED
      BY <1>1, <3>3, <3>4, <3>6, QueueGoes
  <2>7. CASE EndCycle
    <3>1. stage = "restart"
      BY <1>1, <2>0, <2>7, SameLine
    <3>2. out' = writeAll(out, st.appendQ)
      BY <2>7, <3>1, Zenon DEF EndCycle
    <3>3. PICK y, z : st' = [st EXCEPT !.appendQ = <<>>, !.quit = y, !.pc = z]
      BY <2>7, <3>1, Zenon DEF EndCycle
    <3>4. st'.appendQ = <<>>
      BY <2>0, <3>3 DEF States
    <3> QED
      BY <1>1, <2>0, <3>2, <3>4, QueueGoes
  <2> QED
    BY <1>1, <2>1, <2>2, <2>3, <2>4, <2>5, <2>6, <2>7 DEF SedNext
<1>2. RunInv /\ [SedNext]_sedVars => (moves => flushed)
  BY <1>1
<1>3. RunInv /\ [SedNext]_sedVars => [moves => flushed]_sedVars
  BY <1>2
<1> QED
  BY <1>3, RunInit, RunStep, PTL DEF SedSpec, AppendsBeforeNextLine

\* The types of a run, and no line joined to the one before it in the output of
\* one run over all its files (output.write), for any script and files.
THEOREM LinesStayApart == SedSpec => [](SedTypeOK /\ LinesApart)
<1>1. RunInv => SedTypeOK
  <2> SUFFICES ASSUME RunInv PROVE SedTypeOK
    OBVIOUS
  <2> QED
    BY DEF RunInv, RunData, States, InRun, SedTypeOK
<1>2. RunInv => LinesApart
  <2> SUFFICES ASSUME RunInv, ApartJob, NEW p \in out.starts, p \in 2..Len(out.text)
               PROVE  out.text[p - 1] = Newline
    BY Zenon DEF LinesApart, ApartJob
  <2>1. out \in Goods
    BY DEF RunInv, RunData, OutSet
  <2>2. Apart(out)
    BY <2>1 DEF Goods
  <2> QED
    BY <2>2 DEF Apart
<1> QED
  BY <1>1, <1>2, RunInit, RunStep, PTL DEF SedSpec

----------------------------------------------------------------------------
(* What is a record stays one.                                              *)


\* The steps of a Run between its start and its end.
InItsRun ==
    /\ UNCHANGED <<job, cmds, fs, file, status>>
    /\ stage \in InRun /\ stage' \in InRun
    /\ seen'.results = seen.results

----------------------------------------------------------------------------
(* Editing in place.                                                        *)

Was(i) == bytesOf(job.files[i])
AsItWas(i) == fs[i].text = Was(i) /\ seen.results[i] = <<>>
Safe(i) ==
    /\ job.backup /\ fs[i].text # Was(i) => fs[i].backup = Was(i)
    /\ seen.results[i] = <<>> => fs[i].text = Was(i)
    /\ seen.results[i] # <<>> /\ ~job.fsFails /\ (i = file => st.code # 4) => seen.results[i] = <<fs[i].text>>
EditInv ==
    /\ DOMAIN seen = SeenFields /\ stage \in InRun \cup {"open", "done"}
    /\ Len(job.files) \in Nat
    /\ job.mode = "inPlace" =>
          /\ file \in 1..(Len(job.files) + 1)
          /\ stage \in InRun => file <= Len(job.files)
          /\ fs = [i \in 1..Len(job.files) |-> fs[i]]
          /\ seen.results = [i \in 1..Len(job.files) |-> seen.results[i]]
          /\ \A i \in 1..Len(job.files) :
                /\ i > file \/ (i = file /\ stage # "done") => AsItWas(i)
                /\ Safe(i)

LEMMA Commands ==
    ASSUME DOMAIN seen = SeenFields
    PROVE  SedNext => Open \/ Finish \/ (InItsRun /\ DOMAIN seen' = SeenFields)
<1>1. DOMAIN ran = SeenFields /\ ran.results = seen.results
  BY DEF ran, SeenFields
<1> USE DEF InItsRun, InRun, rest
<1>2. Skip => InItsRun /\ DOMAIN seen' = SeenFields
  BY DEF Skip, atCommand
<1>3. Cycle \/ EndCycle => InItsRun /\ DOMAIN seen' = SeenFields
  BY DEF Cycle, EndCycle
<1>4. Emit \/ Spaces => InItsRun /\ DOMAIN seen' = SeenFields
  BY <1>1 DEF Emit, Spaces, Selected, atCommand
<1>5. Change => InItsRun /\ DOMAIN seen' = SeenFields
  <2> SUFFICES ASSUME Change PROVE InItsRun /\ DOMAIN seen' = SeenFields
    OBVIOUS
  <2>1. PICK n : seen' = [ran EXCEPT !.texts = n]
    BY DEF Change
  <2>2. seen'.results = seen.results /\ DOMAIN seen' = SeenFields
    BY <1>1, <2>1 DEF SeenFields
  <2> QED
    BY <2>2 DEF Change, Selected, atCommand
<1>6. DeleteText \/ NextLine \/ Quit => InItsRun /\ DOMAIN seen' = SeenFields
  BY <1>1 DEF DeleteText, NextLine, Quit, Selected, atCommand
<1>7. Branch \/ WriteTo => InItsRun /\ DOMAIN seen' = SeenFields
  BY <1>1 DEF Branch, WriteTo, Selected, atCommand
<1>8. Substitute => InItsRun /\ DOMAIN seen' = SeenFields
  BY <1>1 DEF Substitute, Selected, atCommand
<1> QED
  BY <1>2, <1>3, <1>4, <1>5, <1>6, <1>7, <1>8 DEF SedNext

LEMMA EditFinish == EditInv /\ Finish => EditInv'
<1> SUFFICES ASSUME EditInv, Finish PROVE EditInv'
  OBVIOUS
<1> DEFINE err == out.err \/ stage = "failed"
           code == IF err THEN 4 ELSE IF st.quit THEN st.code ELSE 0
           gaveUp == stage' = "done" /\ file' = file
<1>0. job' = job /\ st' = st /\ out' = out /\ stage \in InRun /\ stage # "done" /\ stage # "open" /\ Len(job.files) \in Nat
  BY DEF EditInv, Finish, InRun
<1>1. seen' = IF err THEN seen ELSE [seen EXCEPT !.results[file] = Append(@, out.text)]
  BY DEF Finish
<1>2. DOMAIN seen' = SeenFields
  BY <1>1 DEF EditInv
<1>3. seen'.results = IF err THEN seen.results ELSE [seen.results EXCEPT ![file] = Append(@, out.text)]
  <2>1. "results" \in DOMAIN seen
    BY DEF EditInv, SeenFields
  <2> QED
    BY <1>1, <2>1
<1>4. stage' \in {"done", "open"} /\ (gaveUp \/ (stage' = "open" /\ file' = file + 1))
  BY DEF Finish
<1>5. ASSUME job.mode = "inPlace"
      PROVE  /\ file' \in 1..(Len(job.files) + 1)
             /\ fs' = [i \in 1..Len(job.files) |-> fs'[i]]
             /\ seen'.results = [i \in 1..Len(job.files) |-> seen'.results[i]]
             /\ \A i \in 1..Len(job.files) :
                   /\ i > file' \/ (i = file' /\ stage' # "done") => AsItWas(i)'
                   /\ Safe(i)'
  <2>1. /\ file \in 1..Len(job.files)
        /\ fs = [i \in 1..Len(job.files) |-> fs[i]] /\ seen.results = [i \in 1..Len(job.files) |-> seen.results[i]]
        /\ \A i \in 1..Len(job.files) : (i >= file => AsItWas(i)) /\ Safe(i)
    BY <1>0, <1>5 DEF EditInv
  <2>0. fs[file].text = Was(file) /\ seen.results[file] = <<>>
    <3>1. file >= file
      BY <2>1
    <3>2. AsItWas(file)
      BY <2>1, <3>1, Zenon
    <3> QED
      BY <3>2 DEF AsItWas
  <2>2. \/ code = 4 /\ gaveUp /\ fs' = fs
        \/ code # 4 /\ fs' = [fs EXCEPT ![file] = edited(@)]
        \/ code # 4 /\ job.fsFails /\ gaveUp /\ fs' = fs
        \/ code # 4 /\ job.fsFails /\ gaveUp
             /\ \E text \in {fs[file].text, <<>>} : fs' = [fs EXCEPT ![file] = [edited(@) EXCEPT !.text = text]]
    BY <1>5 DEF Finish
  <2>3. /\ fs' = [i \in 1..Len(job.files) |-> fs'[i]]
        /\ \A i \in 1..Len(job.files) : i # file => fs'[i] = fs[i]
    BY <2>1, <2>2
  <2>4. /\ seen'.results = [i \in 1..Len(job.files) |-> seen'.results[i]]
        /\ \A i \in 1..Len(job.files) : i # file => seen'.results[i] = seen.results[i]
        /\ seen'.results[file] = IF err THEN <<>> ELSE <<out.text>>
    <3>1. seen.results[file] = <<>>
      BY <2>0
    <3>2. Append(seen.results[file], out.text) = <<out.text>>
      BY <3>1
    <3> QED
      BY <1>3, <2>1, <3>1, <3>2
  <2>5. file' \in 1..(Len(job.files) + 1) /\ file' >= file
    BY <1>4, <2>1
  <2>6. ASSUME NEW i \in 1..Len(job.files), i # file
        PROVE  (i > file' \/ (i = file' /\ stage' # "done") => AsItWas(i)') /\ Safe(i)'
    <3>1. fs'[i] = fs[i] /\ seen'.results[i] = seen.results[i] /\ Was(i)' = Was(i)
      BY <1>0, <2>3, <2>4, <2>6 DEF Was
    <3>2. i > file' \/ (i = file' /\ stage' # "done") => i >= file
      BY <2>1, <2>5
    <3>3. i >= file => AsItWas(i)
      BY <2>1
    <3>4. AsItWas(i) => AsItWas(i)' /\ Safe(i)'
      BY <3>1, <1>0, Zenon DEF AsItWas, Safe
    <3>5. i < file => Safe(i)'
      <4> SUFFICES ASSUME i < file PROVE Safe(i)'
        OBVIOUS
      <4>1. i # file' /\ Safe(i)
        BY <2>1, <2>5
      <4> QED
        BY <3>1, <1>0, <4>1, <2>6 DEF Safe
    <3> QED
      BY <2>1, <2>6, <3>2, <3>3, <3>4, <3>5
  <2>7. ASSUME NEW k, k = file PROVE Safe(k)' /\ ~(k > file') /\ ~(k = file' /\ stage' # "done")
    <3>1. fs[k].text = Was(k) /\ Was(k)' = Was(k) /\ seen.results[k] = <<>>
      BY <1>0, <2>0, <2>7 DEF Was
    <3>2. ~(k > file') /\ ~(k = file' /\ stage' # "done")
      BY <1>4, <2>1, <2>7
    <3>3. PICK w : w = Was(k)
      OBVIOUS
    <3>4. seen'.results[k] = IF err THEN <<>> ELSE <<out.text>>
      BY <2>4, <2>7
    <3>5. CASE code = 4 /\ gaveUp /\ fs' = fs
      <4>1. ~err => st.code = 4
        BY <3>5
      <4>2. fs'[k].text = w
        BY <3>1, <3>3, <3>5
      <4>3. k = file' /\ st'.code = st.code
        BY <1>0, <2>7, <3>5
      <4> QED
        BY <1>0, <3>1, <3>2, <3>3, <3>4, <4>1, <4>2, <4>3 DEF Safe
    <3>6. CASE code # 4 /\ fs' = [fs EXCEPT ![file] = edited(@)]
      <4>1. fs'[k] = edited(fs[k]) /\ ~err
        BY <2>1, <2>7, <3>6
      <4>2. fs'[k].text = out.text /\ (job.backup => fs'[k].backup = w)
        BY <3>1, <3>3, <4>1 DEF edited
      <4> QED
        BY <1>0, <3>1, <3>2, <3>3, <3>4, <4>1, <4>2 DEF Safe
    <3>7. CASE code # 4 /\ job.fsFails /\ gaveUp /\ fs' = fs
      BY <1>0, <3>1, <3>2, <3>4, <3>7 DEF Safe
    <3>8. ASSUME code # 4, job.fsFails, NEW text, fs' = [fs EXCEPT ![file] = [edited(@) EXCEPT !.text = text]]
          PROVE  Safe(k)'
      <4>1. PICK e : e = edited(fs[k])
        OBVIOUS
      <4>2. fs'[k] = [e EXCEPT !.text = text] /\ ~err
        BY <2>1, <2>7, <3>8, <4>1
      <4>3. job.backup => e.backup = w
        BY <3>1, <3>3, <4>1 DEF edited
      <4>4. job.backup => fs'[k].backup = w
        BY <4>2, <4>3
      <4> QED
        BY <1>0, <3>1, <3>3, <3>4, <3>8, <4>2, <4>4 DEF Safe
    <3> QED
      BY <2>2, <3>2, <3>5, <3>6, <3>7, <3>8
  <2>8. ASSUME NEW i \in 1..Len(job.files)
        PROVE  (i > file' \/ (i = file' /\ stage' # "done") => AsItWas(i)') /\ Safe(i)'
    BY <2>6, <2>7, <2>8
  <2> QED
    BY <2>3, <2>4, <2>5, <2>8
<1> QED
  BY <1>0, <1>2, <1>4, <1>5 DEF EditInv, InRun

LEMMA EditOpen == EditInv /\ Open => EditInv'
<1> SUFFICES ASSUME EditInv, Open PROVE EditInv'
  OBVIOUS
<1>1. job' = job /\ fs' = fs /\ seen' = seen /\ stage = "open"
  BY DEF Open
<1>2. Len(job.files) \in Nat /\ stage' \in {"open", "done", "cycle"}
  BY DEF EditInv, Open
<1>3. ASSUME job.mode = "inPlace"
      PROVE  /\ file' \in 1..(Len(job.files) + 1) /\ file' >= file
             /\ stage' = "cycle" => file' <= Len(job.files)
             /\ stage' = "done" => file = Len(job.files) + 1
  <2>1. PICK n \in Nat : n = Len(job.files)
    BY <1>2
  <2>2. file \in 1..(n + 1) /\ job.mode # "stream"
    BY <1>3, <2>1 DEF EditInv
  <2>3. \/ file > n /\ stage' = "done" /\ file' = file
        \/ ~(file > n) /\ stage' = "cycle" /\ file' = file
        \/ ~(file > n) /\ stage' = "open" /\ file' = file + 1
    BY <1>1, <2>1, <2>2, Zenon DEF Open
  <2> QED
    BY <2>1, <2>2, <2>3
<1>4. ASSUME job.mode = "inPlace", NEW i \in 1..Len(job.files)
      PROVE  (i > file' \/ (i = file' /\ stage' # "done") => AsItWas(i)') /\ Safe(i)'
  <2>1. /\ file \in 1..(Len(job.files) + 1) /\ stage # "done"
        /\ i >= file => AsItWas(i)
        /\ Safe(i)
    BY <1>1, <1>2, <1>4 DEF EditInv
  <2>2. fs'[i] = fs[i] /\ seen'.results[i] = seen.results[i] /\ Was(i)' = Was(i)
    BY <1>1 DEF Was
  <2>3. CASE i >= file
    BY <1>1, <2>1, <2>2, <2>3, Zenon DEF AsItWas, Safe
  <2>4. CASE i < file
    <3>1. i # file /\ i # file' /\ ~(i > file')
      BY <1>3, <1>4, <2>1, <2>4
    <3> QED
      BY <1>1, <2>1, <2>2, <3>1 DEF Safe
  <2> QED
    BY <2>1, <2>3, <2>4
<1> QED
  BY <1>1, <1>2, <1>3, <1>4 DEF EditInv, InRun

\* Nothing else touches the files or what is known of their runs.
LEMMA EditStep == EditInv /\ [SedNext]_sedVars => EditInv'
<1> SUFFICES ASSUME EditInv, [SedNext]_sedVars PROVE EditInv'
  OBVIOUS
<1>1. CASE InItsRun /\ DOMAIN seen' = SeenFields
  <2>1. job' = job /\ fs' = fs /\ file' = file /\ stage \in InRun /\ stage' \in InRun /\ seen'.results = seen.results
    BY <1>1 DEF InItsRun
  <2>2. Len(job.files) \in Nat
    BY DEF EditInv
  <2>3. ASSUME job.mode = "inPlace", NEW i \in 1..Len(job.files)
        PROVE  (i > file \/ i = file => AsItWas(i)') /\ Safe(i)'
    <3>1. (i > file \/ i = file => AsItWas(i)) /\ Safe(i) /\ file \in 1..(Len(job.files) + 1)
      BY <2>1, <2>3 DEF EditInv, InRun
    <3>2. AsItWas(i) => AsItWas(i)' /\ Safe(i)'
      BY <2>1, Zenon DEF AsItWas, Safe, Was
    <3>3. CASE i = file
      BY <3>1, <3>2, <3>3
    <3>4. CASE i # file
      BY <2>1, <3>1, <3>2, <3>4 DEF Safe, Was
    <3> QED
      BY <3>3, <3>4
  <2> QED
    BY <1>1, <2>1, <2>2, <2>3 DEF EditInv, InRun
<1>2. CASE UNCHANGED sedVars
  BY <1>2 DEF EditInv, AsItWas, Safe, Was, sedVars
<1>3. DOMAIN seen = SeenFields
  BY DEF EditInv
<1> QED
  BY <1>1, <1>2, <1>3, Commands, EditOpen, EditFinish

LEMMA EditInit == SedInit => EditInv
<1> SUFFICES ASSUME SedInit PROVE EditInv
  OBVIOUS
<1>1. job.files \in Seq(Docs) /\ Len(job.files) \in Nat
  BY SedAssumption DEF SedInit
<1>2. /\ fs = [i \in 1..Len(job.files) |-> [text |-> Was(i), backup |-> <<>>]]
      /\ file = 1 /\ stage \in {"open", "done"}
  BY DEF SedInit, Was
<1>3. DOMAIN seen = SeenFields /\ seen.results = [i \in 1..Len(job.files) |-> <<>>]
  BY DEF SedInit, SeenFields
<1>4. ASSUME NEW i \in 1..Len(job.files) PROVE AsItWas(i) /\ Safe(i)
  <2>1. AsItWas(i)
    BY <1>2, <1>3 DEF AsItWas
  <2> QED
    BY <2>1 DEF AsItWas, Safe
<1> QED
  BY <1>1, <1>2, <1>3, <1>4 DEF EditInv, InRun

\* A file that is edited in place holds what its run wrote, or what it held
\* before unless writing it failed, and its backup what it held (runSed,
\* sedBackup), for any files, scripts and failing writes.
THEOREM EditsAreKept == SedSpec => []InPlaceKeeps
<1>1. EditInv => InPlaceKeeps
  <2> SUFFICES ASSUME EditInv, job.mode = "inPlace", NEW i \in 1..Len(job.files)
               PROVE  LET was == bytesOf(job.files[i]) IN
                      /\ job.backup /\ fs[i].text # was => fs[i].backup = was
                      /\ (i < file \/ stage = "done") /\ seen.results[i] # <<>> /\ ~job.fsFails /\ st.code # 4 =>
                             seen.results[i] = <<fs[i].text>>
                      /\ seen.results[i] = <<>> => fs[i].text = was
    BY DEF InPlaceKeeps
  <2>1. Safe(i)
    BY DEF EditInv
  <2> QED
    BY <2>1, Zenon DEF Safe, Was
<1> QED
  BY <1>1, EditInit, EditStep, PTL DEF SedSpec

----------------------------------------------------------------------------
(* Ranges. What the code keeps of a range, a flag and at most a number, is   *)
(* compared with a reading of the whole file, line by line.                  *)

\* The job with one command with a range: its lines, its command, and the line
\* each line's range began on.
Read == linesOf(job.files[1])
Ranged == job.script[1]
Began == RangeOf(Ranged, Read)

Ends(k) == EndsAt(Ranged.a2, Began[k], k, Read)
\* Does a range go on after d lines?
GoesOn(d) == Began[d] >= 0 /\ (d = 0 \/ ~Ends(d))

LEMMA ModNext ==
    ASSUME NEW k \in Nat, NEW d \in Nat, d > 0
    PROVE  k % d \in 0..(d - 1) /\ ((k + 1) % d = 0 \/ (k + 1) % d = (k % d) + 1)
OBVIOUS

LEMMA MulMod ==
    ASSUME NEW m \in Nat, NEW d \in Nat, d > 0
    PROVE  (m * d) % d = 0
OBVIOUS

LEMMA ModMul ==
    ASSUME NEW k \in Nat, NEW d \in Nat, d > 0, k % d = 0
    PROVE  \E m \in 0..k : k = m * d
<1>1. PICK m : m = k \div d
  OBVIOUS
<1>2. k = m * d /\ m \in Nat
  BY <1>1
<1>3. m <= k
  BY <1>2
<1> QED
  BY <1>2, <1>3

\* The line the range of line k began on, given where those before it did.
BeganAt(f, c, ls, k) ==
    IF k = 0 THEN IF c.a1.kind = "zero" THEN 0 ELSE -1
    ELSE IF f[k - 1] >= 0 /\ (k = 1 \/ ~EndsAt(c.a2, f[k - 1], k - 1, ls)) THEN f[k - 1]
    ELSE IF Matches(c.a1, k, ls) THEN k ELSE -1

LEMMA BeganExists ==
    ASSUME NEW c, NEW ls
    PROVE  \A n \in Nat : \E f : f = [k \in 0..n |-> BeganAt(f, c, ls, k)]
<1> DEFINE T == {n \in Nat : \E f : f = [k \in 0..n |-> BeganAt(f, c, ls, k)]}
<1>1. 0 \in T
  <2>1. PICK f : f = [k \in 0..0 |-> IF c.a1.kind = "zero" THEN 0 ELSE -1]
    OBVIOUS
  <2>2. \A k \in 0..0 : BeganAt(f, c, ls, k) = IF c.a1.kind = "zero" THEN 0 ELSE -1
    BY DEF BeganAt
  <2>3. f = [k \in 0..0 |-> BeganAt(f, c, ls, k)]
    BY <2>1, <2>2
  <2> QED
    BY <2>3
<1>2. ASSUME NEW n \in Nat, n \in T PROVE n + 1 \in T
  <2>1. PICK f : f = [k \in 0..n |-> BeganAt(f, c, ls, k)]
    BY <1>2
  <2>2. PICK g : g = [k \in 0..(n + 1) |-> IF k = n + 1 THEN BeganAt(f, c, ls, n + 1) ELSE f[k]]
    OBVIOUS
  <2>3. \A k \in 0..(n + 1) : k # 0 => g[k - 1] = f[k - 1]
    BY <2>2
  <2>4. \A k \in 0..(n + 1) : BeganAt(g, c, ls, k) = BeganAt(f, c, ls, k)
    BY <2>3, Zenon DEF BeganAt
  <2>5. \A k \in 0..n : f[k] = BeganAt(f, c, ls, k)
    BY <2>1
  <2>6. \A k \in 0..(n + 1) : g[k] = BeganAt(g, c, ls, k)
    <3> SUFFICES ASSUME NEW k \in 0..(n + 1) PROVE g[k] = BeganAt(g, c, ls, k)
      OBVIOUS
    <3>1. CASE k = n + 1
      BY <2>2, <2>4, <3>1
    <3>2. CASE k # n + 1
      <4>1. k \in 0..n
        BY <3>2
      <4> QED
        BY <2>2, <2>4, <2>5, <3>2, <4>1
    <3> QED
      BY <3>1, <3>2
  <2>7. g = [k \in 0..(n + 1) |-> g[k]]
    BY <2>2
  <2>8. [k \in 0..(n + 1) |-> g[k]] = [k \in 0..(n + 1) |-> BeganAt(g, c, ls, k)]
    BY <2>6
  <2> QED
    BY <2>7, <2>8
<1> HIDE DEF T
<1>3. \A n \in Nat : n \in T
  BY <1>1, <1>2, E!NatInduct
<1> QED
  BY <1>3 DEF T

LEMMA BeganIs ==
    ASSUME NEW c, NEW ls, Len(ls) \in Nat
    PROVE  /\ RangeOf(c, ls)[0] = IF c.a1.kind = "zero" THEN 0 ELSE -1
           /\ \A k \in 1..Len(ls) : RangeOf(c, ls)[k] =
                 IF RangeOf(c, ls)[k - 1] >= 0 /\ (k = 1 \/ ~EndsAt(c.a2, RangeOf(c, ls)[k - 1], k - 1, ls))
                 THEN RangeOf(c, ls)[k - 1]
                 ELSE IF Matches(c.a1, k, ls) THEN k ELSE -1
           /\ \A k \in 0..Len(ls) : RangeOf(c, ls)[k] \in -1..k
<1>1. PICK n \in Nat : n = Len(ls)
  OBVIOUS
<1>2. \E f : f = [k \in 0..n |-> BeganAt(f, c, ls, k)]
  BY BeganExists
<1>3. PICK r : r = RangeOf(c, ls)
  OBVIOUS
<1>4. r = CHOOSE f : f = [k \in 0..n |-> BeganAt(f, c, ls, k)]
  BY <1>1, <1>3, Zenon DEF RangeOf, BeganAt
<1>5. r = [k \in 0..n |-> BeganAt(r, c, ls, k)]
  BY <1>2, <1>4, Zenon
<1>6. \A k \in 0..n : r[k] = BeganAt(r, c, ls, k)
  BY <1>5
<1>7. r[0] = IF c.a1.kind = "zero" THEN 0 ELSE -1
  <2>1. 0 \in 0..n
    OBVIOUS
  <2>2. r[0] = BeganAt(r, c, ls, 0)
    BY <1>6, <2>1
  <2> QED
    BY <2>2, Zenon DEF BeganAt
<1>8. \A k \in 1..n : r[k] = IF r[k - 1] >= 0 /\ (k = 1 \/ ~EndsAt(c.a2, r[k - 1], k - 1, ls))
                             THEN r[k - 1] ELSE IF Matches(c.a1, k, ls) THEN k ELSE -1
  <2> SUFFICES ASSUME NEW k \in 1..n
               PROVE  r[k] = IF r[k - 1] >= 0 /\ (k = 1 \/ ~EndsAt(c.a2, r[k - 1], k - 1, ls))
                             THEN r[k - 1] ELSE IF Matches(c.a1, k, ls) THEN k ELSE -1
    OBVIOUS
  <2>1. k # 0 /\ k \in 0..n
    OBVIOUS
  <2>2. r[k] = BeganAt(r, c, ls, k)
    BY <1>6, <2>1
  <2> QED
    BY <2>1, <2>2, Zenon DEF BeganAt
<1>9. \A k \in 0..n : r[k] \in -1..k
  <2> DEFINE T == {k \in Nat : k <= n => r[k] \in -1..k}
  <2>1. 0 \in T
    BY <1>7
  <2>2. ASSUME NEW k \in Nat, k \in T PROVE k + 1 \in T
    <3> SUFFICES ASSUME k + 1 <= n PROVE r[k + 1] \in -1..(k + 1)
      OBVIOUS
    <3>1. k + 1 \in 1..n /\ (k + 1) - 1 = k
      OBVIOUS
    <3>2. r[k + 1] \in {r[k], k + 1, -1}
      BY <1>8, <3>1, Zenon
    <3>3. r[k] \in -1..k
      BY <2>2, <3>1
    <3> QED
      BY <3>2, <3>3
  <2> HIDE DEF T
  <2>3. \A k \in Nat : k \in T
    BY <2>1, <2>2, E!NatInduct
  <2> QED
    BY <2>3 DEF T
<1> QED
  BY <1>1, <1>3, <1>7, <1>8, <1>9

\* An invocation for the ranges.
LEMMA RangedIs ==
    ASSUME RunInv, job.of = "range"
    PROVE  /\ job.mode = "stream" /\ Len(job.files) = 1 /\ readable(job.files[1]) /\ job.files[1] \in Docs
           /\ job.files \in Seq(Docs)
           /\ Len(cmds) = 1 /\ cmds[1].c = Ranged /\ parseOk(job.script) /\ Len(job.script) = 1
           /\ addressOk(Ranged) /\ isAddress(Ranged.a1) /\ isAddress(Ranged.a2) /\ Ranged.neg \in BOOLEAN
           /\ Ranged.name \in {"p", "P", "=", "a", "i", "r", "c", "d"}
           /\ Read \in Seq(TextLines)
<1>1. job \in Invocations /\ cmds = parse(job.script)
  BY DEF RunInv
<1>2. oneRange(job) /\ job.files \in Seq(Docs)
  BY <1>1, SedAssumption
<1>3. PICK n \in {1} : n = Len(job.script)
  BY <1>2 DEF oneRange
<1>4. cmds = [i \in 1..n |-> [c |-> job.script[i], block |-> blockOf(job.script, i)]]
  BY <1>1, <1>2, <1>3, Zenon DEF parse, oneRange
<1>5. Len(cmds) = 1 /\ cmds[1].c = Ranged
  BY <1>4 DEF Ranged
<1>6. job.files[1] \in Docs
  BY <1>2 DEF oneRange
<1>7. Read \in Seq(TextLines)
  BY <1>6, LinesTyped DEF Read
<1>8. addressOk(Ranged)
  <2>1. 1 \in 1..Len(job.script)
    BY <1>3
  <2> QED
    BY <1>2, <2>1, Zenon DEF oneRange, parseOk, Ranged
<1> QED
  BY <1>2, <1>3, <1>5, <1>6, <1>7, <1>8 DEF oneRange, Ranged

\* What is kept of a range that goes on after d lines; e is its endLine.
Near(d, e) ==
    GoesOn(d) =>
        /\ Ranged.a2.kind = "line" => d < Ranged.a2.n
        /\ Ranged.a2.kind = "plus" => e = Began[d] + Ranged.a2.n /\ d < e
        /\ Ranged.a2.kind = "step" => Ranged.a2.step > 0 /\ d - Began[d] + 1 <= d % Ranged.a2.step

\* The command is about to see line k of the file.
AtLine(k) ==
    /\ RunInv /\ job.of = "range"
    /\ k \in 1..Len(Read) /\ st.line = k
    /\ st.ps = Read[k].text /\ st.rest = SubSeq(Read, k + 1, Len(Read))

LEMMA LastIs ==
    ASSUME NEW k, AtLine(k)
    PROVE  lastLine <=> k = Len(Read)
<1>1. Read \in Seq(TextLines) /\ k \in 1..Len(Read)
  BY RangedIs DEF AtLine
<1>2. PICK n \in Nat : n = Len(Read)
  BY <1>1
<1>7. PICK m \in Nat : m = k + 1 /\ 1 <= m /\ m <= n + 1
  BY <1>1, <1>2
<1>3. PICK z : z = SubSeq(Read, m, n)
  OBVIOUS
<1>4. Len(z) = n - k /\ z \in Seq(TextLines)
  <2>1. z = [i \in 1..(n - k) |-> Read[i + m - 1]]
    BY <1>1, <1>2, <1>3, <1>7
  <2>2. \A i \in 1..(n - k) : Read[i + m - 1] \in TextLines
    BY <1>1, <1>2, <1>7
  <2>3. n - k \in Nat
    BY <1>1, <1>2
  <2> QED
    BY <2>1, <2>2, <2>3
<1>5. z = <<>> <=> n - k = 0
  BY <1>4
<1>6. st.rest = z
  BY <1>2, <1>3, <1>7 DEF AtLine
<1> QED
  BY <1>1, <1>2, <1>5, <1>6 DEF lastLine

LEMMA MatchIs ==
    ASSUME NEW k, AtLine(k), NEW a, isAddress(a), NEW rx
    PROVE  /\ a.kind = "regex" => (matches(rxAfter(a, rx)) <=> Matches(a, k, Read))
           /\ a.kind # "plus" => (matchOne(a, rx) <=> Matches(a, k, Read))
           /\ ~regexErr(a, rx)
<1>1. Len(Read) \in Nat /\ k \in 1..Len(Read) /\ st.line = k
  BY RangedIs DEF AtLine
<1>2. a.kind = "regex" => (matches(rxAfter(a, rx)) <=> Matches(a, k, Read))
  <2> SUFFICES ASSUME a.kind = "regex" PROVE matches(rxAfter(a, rx)) <=> Matches(a, k, Read)
    OBVIOUS
  <2>1. a.set # {}
    BY DEF isAddress
  <2>2. rxAfter(a, rx) = a.set
    BY <2>1 DEF rxAfter
  <2>3. matches(a.set) <=> \E i \in 1..Len(Read[k].text) : Read[k].text[i] \in a.set
    BY DEF matches, AtLine
  <2>4. Matches(a, k, Read) <=> \E i \in 1..Len(Read[k].text) : Read[k].text[i] \in a.set
    BY Zenon DEF Matches
  <2> QED
    BY <2>2, <2>3, <2>4
<1>3. ~regexErr(a, rx)
  BY DEF isAddress, regexErr
<1>4. a.kind # "plus" => (matchOne(a, rx) <=> Matches(a, k, Read))
  <2>1. CASE a.kind = "line"
    <3>1. matchOne(a, rx) <=> st.line = a.n
      BY <2>1, Zenon DEF matchOne
    <3>2. Matches(a, k, Read) <=> k = a.n
      BY <2>1, Zenon DEF Matches
    <3> QED
      BY <1>1, <3>1, <3>2
  <2>2. CASE a.kind = "last"
    <3>1. matchOne(a, rx) <=> lastLine
      BY <2>2, Zenon DEF matchOne
    <3>2. Matches(a, k, Read) <=> k = Len(Read)
      BY <2>2, Zenon DEF Matches
    <3> QED
      BY <3>1, <3>2, LastIs
  <2>3. CASE a.kind = "regex"
    <3>1. matchOne(a, rx) <=> matches(rxAfter(a, rx))
      BY <2>3, Zenon DEF matchOne
    <3> QED
      BY <1>2, <2>3, <3>1
  <2>4. CASE a.kind = "step"
    <3>1. matchOne(a, rx) <=> onStep(a)
      BY <2>4, Zenon DEF matchOne
    <3>2. Matches(a, k, Read) <=> \E m \in 0..Len(Read) : k = a.n + m * a.step
      BY <2>4, Zenon DEF Matches
    <3>3. PICK n \in Nat, p \in Nat : n = a.n /\ p = a.step
      BY <2>4 DEF isAddress
    <3>4. onStep(a) <=> IF p <= 0 THEN k = n ELSE k >= n /\ (k - n) % p = 0
      BY <1>1, <3>3 DEF onStep
    <3>5. ASSUME NEW m \in 0..Len(Read), k = n + m * p
          PROVE  IF p <= 0 THEN k = n ELSE k >= n /\ (k - n) % p = 0
      <4>1. CASE p = 0
        BY <3>5, <4>1
      <4>2. CASE p > 0
        <5>1. PICK q \in Nat : q = m * p
          OBVIOUS
        <5>2. q % p = 0
          BY <4>2, <5>1, <1>1, MulMod
        <5>3. k = n + q
          BY <3>5, <5>1
        <5> QED
          BY <4>2, <5>2, <5>3
      <4> QED
        BY <4>1, <4>2
    <3>6. ASSUME IF p <= 0 THEN k = n ELSE k >= n /\ (k - n) % p = 0
          PROVE  \E m \in 0..Len(Read) : k = n + m * p
      <4>1. CASE p = 0
        <5>1. 0 \in 0..Len(Read) /\ k = n + 0 * p
          BY <1>1, <3>6, <4>1
        <5> QED
          BY <5>1
      <4>2. CASE p > 0
        <5>1. PICK q \in Nat : q = k - n
          BY <1>1, <3>6, <4>2
        <5>5. q % p = 0
          BY <3>6, <4>2, <5>1
        <5>2. PICK m \in 0..q : q = m * p
          BY <4>2, <5>5, ModMul
        <5>3. m \in 0..Len(Read)
          BY <1>1, <5>1
        <5>4. k = n + m * p
          BY <5>1, <5>2, <1>1
        <5> QED
          BY <5>3, <5>4
      <4> QED
        BY <4>1, <4>2
    <3> QED
      BY <3>1, <3>2, <3>3, <3>4, <3>5, <3>6
  <2>5. CASE a.kind = "zero"
    BY <2>5, Zenon DEF matchOne, Matches
  <2> QED
    BY <2>1, <2>2, <2>3, <2>4, <2>5 DEF isAddress
<1> QED
  BY <1>2, <1>3, <1>4

\* A range that begins on this line ends on it when the code says so.
LEMMA EndsAtOnceIs ==
    ASSUME NEW k, AtLine(k), NEW a, isAddress(a), a.kind # "zero"
    PROVE  endsAtOnce(a) <=> EndsAt(a, k, k, Read)
<1>1. Len(Read) \in Nat /\ k \in 1..Len(Read) /\ st.line = k
  BY RangedIs DEF AtLine
<1>2. CASE a.kind = "line"
  <2>1. endsAtOnce(a) <=> a.n <= st.line
    BY <1>2, Zenon DEF endsAtOnce
  <2>2. EndsAt(a, k, k, Read) <=> k = (IF a.n > k THEN a.n ELSE k)
    BY <1>2, Zenon DEF EndsAt
  <2>3. PICK n \in Nat : n = a.n
    BY <1>2 DEF isAddress
  <2> QED
    BY <1>1, <2>1, <2>2, <2>3
<1>3. CASE a.kind = "plus"
  <2>1. endsAtOnce(a) <=> a.n = 0
    BY <1>3, Zenon DEF endsAtOnce
  <2>2. EndsAt(a, k, k, Read) <=> k = k + a.n
    BY <1>3, Zenon DEF EndsAt
  <2>3. PICK n \in Nat : n = a.n
    BY <1>3 DEF isAddress
  <2> QED
    BY <1>1, <2>1, <2>2, <2>3
<1>4. CASE a.kind = "step"
  <2>1. endsAtOnce(a) <=> a.step <= 0 \/ st.line % a.step = 0
    BY <1>4, Zenon DEF endsAtOnce
  <2>2. EndsAt(a, k, k, Read) <=> IF a.step = 0 THEN k = k ELSE k % a.step = 0 /\ k - k < a.step
    BY <1>4, Zenon DEF EndsAt
  <2>3. PICK p \in Nat : p = a.step
    BY <1>4 DEF isAddress
  <2> QED
    BY <1>1, <2>1, <2>2, <2>3
<1>5. CASE a.kind = "last"
  <2>1. endsAtOnce(a) <=> lastLine
    BY <1>5, Zenon DEF endsAtOnce
  <2>2. EndsAt(a, k, k, Read) <=> k = Len(Read)
    BY <1>5, Zenon DEF EndsAt
  <2> QED
    BY <2>1, <2>2, LastIs
<1>6. CASE a.kind = "regex"
  <2>1. ~endsAtOnce(a)
    BY <1>6, Zenon DEF endsAtOnce
  <2>2. EndsAt(a, k, k, Read) <=> k > k /\ Matches(a, k, Read)
    BY <1>6, Zenon DEF EndsAt
  <2> QED
    BY <1>1, <2>1, <2>2
<1> QED
  BY <1>2, <1>3, <1>4, <1>5, <1>6 DEF isAddress

\* One that goes on from the line before ends on this one when the code says so.
LEMMA EndsHereIs ==
    ASSUME NEW k, AtLine(k), NEW s \in 0..(k - 1), NEW a, isAddress(a), a.kind # "zero", NEW e, NEW rx,
           a.kind = "line" => k - 1 < a.n,
           a.kind = "plus" => e = s + a.n /\ k - 1 < e,
           a.kind = "step" => a.step > 0 /\ (k - 1) - s + 1 <= (k - 1) % a.step
    PROVE  /\ endsHere(a, e, rx) <=> EndsAt(a, s, k, Read)
           /\ ~EndsAt(a, s, k, Read) =>
                 /\ a.kind = "line" => k < a.n
                 /\ a.kind = "plus" => k < e
                 /\ a.kind = "step" => k - s + 1 <= k % a.step
<1>1. Len(Read) \in Nat /\ k \in 1..Len(Read) /\ st.line = k
  BY RangedIs DEF AtLine
<1>2. CASE a.kind = "line"
  <2>1. endsHere(a, e, rx) <=> st.line >= a.n
    BY <1>2, Zenon DEF endsHere
  <2>2. EndsAt(a, s, k, Read) <=> k = (IF a.n > s THEN a.n ELSE s)
    BY <1>2, Zenon DEF EndsAt
  <2>3. PICK n \in Nat : n = a.n
    BY <1>2 DEF isAddress
  <2>4. k - 1 < n
    BY <1>2, <2>3
  <2>5. (endsHere(a, e, rx) <=> EndsAt(a, s, k, Read)) /\ (~EndsAt(a, s, k, Read) => k < n)
    BY <1>1, <2>1, <2>2, <2>3, <2>4
  <2> QED
    BY <1>2, <2>3, <2>5
<1>3. CASE a.kind = "plus"
  <2>1. endsHere(a, e, rx) <=> st.line >= e
    BY <1>3, Zenon DEF endsHere
  <2>2. EndsAt(a, s, k, Read) <=> k = s + a.n
    BY <1>3, Zenon DEF EndsAt
  <2>3. PICK n \in Nat : n = a.n
    BY <1>3 DEF isAddress
  <2>4. e = s + n /\ k - 1 < e
    BY <1>3, <2>3
  <2>5. (endsHere(a, e, rx) <=> EndsAt(a, s, k, Read)) /\ (~EndsAt(a, s, k, Read) => k < e)
    BY <1>1, <2>1, <2>2, <2>3, <2>4
  <2> QED
    BY <1>3, <2>5
<1>4. CASE a.kind = "step"
  <2>1. endsHere(a, e, rx) <=> st.line % a.step = 0
    BY <1>4, Zenon DEF endsHere
  <2>2. EndsAt(a, s, k, Read) <=> IF a.step = 0 THEN k = s ELSE k % a.step = 0 /\ k - s < a.step
    BY <1>4, Zenon DEF EndsAt
  <2>3. PICK p \in Nat : p = a.step
    BY <1>4 DEF isAddress
  <2>4. p > 0 /\ (k - 1) - s + 1 <= (k - 1) % p
    BY <1>4, <2>3
  <2>5. PICK j \in Nat : j = k - 1
    BY <1>1
  <2>6. j % p \in 0..(p - 1) /\ ((j + 1) % p = 0 \/ (j + 1) % p = (j % p) + 1)
    BY <2>4, <2>5, ModNext
  <2>7. k = j + 1 /\ j - s + 1 <= j % p
    BY <1>1, <2>4, <2>5
  <2>8. k - s < p
    BY <1>1, <2>6, <2>7
  <2>9. (endsHere(a, e, rx) <=> k % p = 0) /\ (EndsAt(a, s, k, Read) <=> k % p = 0)
    BY <1>1, <2>1, <2>2, <2>3, <2>4, <2>8
  <2>10. k % p # 0 => k - s + 1 <= k % p
    BY <1>1, <2>6, <2>7
  <2> QED
    BY <1>4, <2>3, <2>9, <2>10
<1>5. CASE a.kind = "last"
  <2>1. endsHere(a, e, rx) <=> lastLine
    BY <1>5, Zenon DEF endsHere
  <2>2. EndsAt(a, s, k, Read) <=> k = Len(Read)
    BY <1>5, Zenon DEF EndsAt
  <2> QED
    BY <1>5, <2>1, <2>2, LastIs
<1>6. CASE a.kind = "regex"
  <2>1. endsHere(a, e, rx) <=> matches(rxAfter(a, rx))
    BY <1>6, Zenon DEF endsHere
  <2>2. EndsAt(a, s, k, Read) <=> k > s /\ Matches(a, k, Read)
    BY <1>6, Zenon DEF EndsAt
  <2>3. k > s
    BY <1>1
  <2>4. matches(rxAfter(a, rx)) <=> Matches(a, k, Read)
    BY <1>6, MatchIs
  <2> QED
    BY <1>6, <2>1, <2>2, <2>3, <2>4
<1> QED
  BY <1>2, <1>3, <1>4, <1>5, <1>6 DEF isAddress

\* The command sees the line: what selected answers is what the reference says
\* of it, and the range state it leaves is that of the range.
LEMMA Selection ==
    ASSUME NEW k, AtLine(k), st.pc = 1,
           prog.active[1] <=> GoesOn(k - 1), Near(k - 1, prog.endLine[1])
    PROVE  /\ ~selected(1).err
           /\ selected(1).sel \in BOOLEAN /\ (selected(1).sel <=> Began[k] >= 0)
           /\ selected(1).active <=> GoesOn(k)
           /\ Near(k, selected(1).endLine)
<1>1. /\ cmds[1].c = Ranged /\ isAddress(Ranged.a1) /\ isAddress(Ranged.a2) /\ addressOk(Ranged)
      /\ Len(Read) \in Nat /\ k \in 1..Len(Read) /\ st.line = k
  BY RangedIs DEF AtLine
<1>2. PICK a, b : a = Ranged.a1 /\ b = Ranged.a2
  OBVIOUS
<1>3. isAddress(a) /\ isAddress(b) /\ a.kind # "plus" /\ b.kind # "zero" /\ a.kind # "none" /\ b.kind # "none"
  BY <1>1, <1>2 DEF addressOk, isAddress
<1>4. /\ Began[k] = IF GoesOn(k - 1) THEN Began[k - 1] ELSE IF Matches(a, k, Read) THEN k ELSE -1
      /\ Began[k] \in -1..k /\ Began[k - 1] \in -1..(k - 1)
  <2>1. k - 1 \in 0..Len(Read) /\ k \in 0..Len(Read) /\ (k = 1 <=> k - 1 = 0)
    BY <1>1
  <2>2. Began[k] = IF Began[k - 1] >= 0 /\ (k = 1 \/ ~EndsAt(Ranged.a2, Began[k - 1], k - 1, Read)) THEN Began[k - 1]
                   ELSE IF Matches(Ranged.a1, k, Read) THEN k ELSE -1
    <3>1. \A j \in 1..Len(Read) :
             Began[j] = IF Began[j - 1] >= 0 /\ (j = 1 \/ ~EndsAt(Ranged.a2, Began[j - 1], j - 1, Read)) THEN Began[j - 1]
                        ELSE IF Matches(Ranged.a1, j, Read) THEN j ELSE -1
      BY <1>1, BeganIs DEF Began
    <3> QED
      BY <1>1, <3>1, Zenon
  <2>3. Began[k] \in -1..k /\ Began[k - 1] \in -1..(k - 1)
    BY <1>1, <2>1, BeganIs, Zenon DEF Began
  <2> QED
    BY <1>2, <2>1, <2>2, <2>3 DEF GoesOn, Ends
<1>5. GoesOn(k) <=> Began[k] >= 0 /\ ~EndsAt(b, Began[k], k, Read)
  BY <1>1, <1>2 DEF GoesOn, Ends
<1>6. PICK e0 : e0 = prog.endLine[1]
  OBVIOUS
<1>7. PICK rx : rx = prog.lastRx
  OBVIOUS
<1>8. CASE GoesOn(k - 1)
  <2>1. PICK s \in 0..(k - 1) : s = Began[k - 1] /\ Began[k] = s
    BY <1>1, <1>4, <1>8 DEF GoesOn
  <2>2. /\ b.kind = "line" => k - 1 < b.n
        /\ b.kind = "plus" => e0 = s + b.n /\ k - 1 < e0
        /\ b.kind = "step" => b.step > 0 /\ (k - 1) - s + 1 <= (k - 1) % b.step
    BY <1>2, <1>6, <1>8, <2>1 DEF Near
  <2>3. /\ endsHere(b, e0, rx) <=> EndsAt(b, s, k, Read)
        /\ ~EndsAt(b, s, k, Read) => /\ b.kind = "line" => k < b.n
                                     /\ b.kind = "plus" => k < e0
                                     /\ b.kind = "step" => k - s + 1 <= k % b.step
    BY <1>3, <2>2, EndsHereIs
  <2>4. ~regexErr(b, rx)
    BY <1>3, MatchIs
  <2>5. selected(1) = [sel |-> TRUE, active |-> ~endsHere(b, e0, rx), endLine |-> e0,
                       lastRx |-> rxAfter(b, rx), err |-> FALSE]
    BY <1>1, <1>2, <1>3, <1>6, <1>7, <1>8, <2>4, Zenon DEF selected
  <2>9. PICK x : x = ~endsHere(b, e0, rx)
    OBVIOUS
  <2>10. x \in BOOLEAN /\ (x <=> ~endsHere(b, e0, rx))
    BY <2>9
  <2>6. ~selected(1).err /\ selected(1).sel /\ (selected(1).active <=> ~endsHere(b, e0, rx)) /\ selected(1).endLine = e0
    <3>1. selected(1).active = x /\ ~selected(1).err /\ selected(1).sel /\ selected(1).endLine = e0
      BY <2>5, <2>9
    <3> QED
      BY <2>10, <3>1
  <2>7. Began[k] >= 0 /\ (GoesOn(k) <=> ~EndsAt(b, s, k, Read))
    BY <1>5, <2>1
  <2>8. Near(k, e0)
    BY <1>2, <2>1, <2>2, <2>3, <2>7 DEF Near
  <2> QED
    BY <2>3, <2>5, <2>6, <2>7, <2>8
<1>9. CASE ~GoesOn(k - 1) /\ ~Matches(a, k, Read)
  <2>1. Began[k] = -1 /\ ~(Began[k] >= 0)
    BY <1>4, <1>9
  <2>2. ~regexErr(a, rx) /\ ~matchOne(a, rx)
    BY <1>3, <1>9, MatchIs
  <2>3. selected(1) = [sel |-> FALSE, active |-> FALSE, endLine |-> e0,
                       lastRx |-> rxAfter(a, rx), err |-> regexErr(a, rx)]
    BY <1>1, <1>2, <1>3, <1>6, <1>7, <1>9, <2>2, Zenon DEF selected
  <2>4. ~selected(1).err /\ selected(1).sel = FALSE /\ ~selected(1).active
    BY <2>2, <2>3
  <2>5. ~GoesOn(k)
    BY <2>1 DEF GoesOn
  <2>6. Near(k, selected(1).endLine)
    BY <2>5 DEF Near
  <2> QED
    BY <2>1, <2>4, <2>5, <2>6
<1>10. CASE ~GoesOn(k - 1) /\ Matches(a, k, Read)
  <2>1. Began[k] = k /\ Began[k] >= 0
    BY <1>1, <1>4, <1>10
  <2>2. ~regexErr(a, rx) /\ matchOne(a, rx)
    BY <1>3, <1>10, MatchIs
  <2>3. PICK e : e = IF b.kind = "plus" THEN st.line + b.n ELSE e0
    OBVIOUS
  <2>4. selected(1) = [sel |-> TRUE, active |-> ~endsAtOnce(b), endLine |-> e,
                       lastRx |-> rxAfter(a, rx), err |-> FALSE]
    BY <1>1, <1>2, <1>3, <1>6, <1>7, <1>10, <2>2, <2>3, Zenon DEF selected
  <2>9. PICK x : x = ~endsAtOnce(b)
    OBVIOUS
  <2>10. x \in BOOLEAN /\ (x <=> ~endsAtOnce(b))
    BY <2>9
  <2>5. ~selected(1).err /\ selected(1).sel /\ (selected(1).active <=> ~endsAtOnce(b)) /\ selected(1).endLine = e
    <3>1. selected(1).active = x /\ ~selected(1).err /\ selected(1).sel /\ selected(1).endLine = e
      BY <2>4, <2>9
    <3> QED
      BY <2>10, <3>1
  <2>6. endsAtOnce(b) <=> EndsAt(b, k, k, Read)
    BY <1>3, EndsAtOnceIs
  <2>7. GoesOn(k) <=> ~EndsAt(b, k, k, Read)
    BY <1>5, <2>1
  <2>8. Near(k, e)
    <3> SUFFICES ASSUME ~endsAtOnce(b)
                 PROVE  /\ b.kind = "line" => k < b.n
                        /\ b.kind = "plus" => e = k + b.n /\ k < e
                        /\ b.kind = "step" => b.step > 0 /\ k - k + 1 <= k % b.step
      BY <1>2, <2>1, <2>6, <2>7 DEF Near
    <3>1. ASSUME b.kind = "line" PROVE k < b.n
      <4>1. ~(b.n <= st.line) /\ b.n \in Nat
        BY <1>3, <3>1 DEF endsAtOnce, isAddress
      <4> QED
        BY <1>1, <4>1
    <3>2. ASSUME b.kind = "plus" PROVE e = k + b.n /\ k < e
      <4>1. b.n # 0 /\ b.n \in Nat
        BY <1>3, <3>2 DEF endsAtOnce, isAddress
      <4> QED
        BY <1>1, <2>3, <3>2, <4>1
    <3>3. ASSUME b.kind = "step" PROVE b.step > 0 /\ k - k + 1 <= k % b.step
      <4>1. ~(b.step <= 0) /\ ~(k % b.step = 0) /\ b.step \in Nat
        BY <1>1, <1>3, <3>3 DEF endsAtOnce, isAddress
      <4>2. PICK p \in Nat : p = b.step /\ p > 0
        BY <4>1
      <4>3. k % p \in 0..(p - 1)
        BY <1>1, <4>2, ModNext
      <4> QED
        BY <1>1, <4>1, <4>2, <4>3
    <3> QED
      BY <3>1, <3>2, <3>3
  <2> QED
    BY <2>1, <2>4, <2>5, <2>6, <2>7, <2>8
<1> QED
  BY <1>8, <1>9, <1>10

----------------------------------------------------------------------------
(* What the command did to the lines so far.                                *)

\* The first d lines it applied to, and those among them that end a range.
Hits(d) == {k \in 1..d : (Began[k] >= 0) # Ranged.neg}
Closing(d) == {k \in 1..d : Began[k] >= 0 /\ Ends(k)}

\* p and v are the program and the history after d lines.
Counted(d, p, v) ==
    /\ d \in 0..Len(Read)
    /\ DOMAIN p = ProgFields /\ DOMAIN p.active = 1..1 /\ DOMAIN p.endLine = 1..1
    /\ (p.active[1] <=> GoesOn(d)) /\ Near(d, p.endLine[1])
    /\ DOMAIN v = SeenFields /\ DOMAIN v.hits = 1..1 /\ v.hits[1] = Hits(d)
    /\ Ranged.name = "c" /\ ~Ranged.neg => v.texts = Cardinality(Closing(d))

\* The lines seen so far: in exec, the command has yet to see the last one read.
LinesSeen(s, g) == IF g = "exec" /\ s.pc = 1 THEN s.line - 1 ELSE s.line

RangeData(s, p, v, g, f) ==
    /\ g \in {"open", "cycle", "exec", "delete", "ended", "done"} /\ s.pc \in 1..2
    /\ s.line \in 0..Len(Read) /\ Counted(LinesSeen(s, g), p, v)
    /\ g = "open" /\ f = 1 => s.line = 0
    /\ g = "exec" => s.line >= 1 /\ (s.pc = 1 => s.ps = Read[s.line].text)
    /\ g \in {"cycle", "exec", "delete", "ended"} => s.rest = SubSeq(Read, s.line + 1, Len(Read))
    /\ g \in {"ended", "done"} \/ (g = "open" /\ f # 1) => s.line = Len(Read)

RangeInv == RunInv /\ (job.of = "range" => RangeData(st, prog, seen, stage, file))

LEMMA PrimedRange ==
    ASSUME job' = job, RangeData(st', prog', seen', stage', file')
    PROVE  RangeData(st, prog, seen, stage, file)'
  BY DEF RangeData, Counted, LinesSeen, Near, GoesOn, Ends, Hits, Closing, Began, Ranged, Read

LEMMA KeptIs ==
    ASSUME DOMAIN prog = ProgFields, DOMAIN prog.active = 1..1, DOMAIN prog.endLine = 1..1, st.pc = 1, NEW s
    PROVE  /\ DOMAIN keep(s) = ProgFields /\ DOMAIN keep(s).active = 1..1 /\ DOMAIN keep(s).endLine = 1..1
           /\ keep(s).active[1] = s.active /\ keep(s).endLine[1] = s.endLine
<1>1. PICK A, B, last : /\ A = [prog.active EXCEPT ![1] = s.active] /\ B = [prog.endLine EXCEPT ![1] = s.endLine]
                     /\ last = s.lastRx
  OBVIOUS
<1>2. DOMAIN A = 1..1 /\ DOMAIN B = 1..1 /\ A[1] = s.active /\ B[1] = s.endLine
  BY <1>1
<1>3. keep(s) = [prog EXCEPT !.active = A, !.endLine = B, !.lastRx = last]
  BY <1>1, Zenon DEF keep
<1>4. DOMAIN keep(s) = ProgFields /\ keep(s).active = A /\ keep(s).endLine = B
  BY <1>3 DEF ProgFields
<1> QED
  BY <1>2, <1>4

LEMMA RanIs ==
    ASSUME DOMAIN seen = SeenFields, DOMAIN seen.hits = 1..1, st.pc = 1
    PROVE  /\ DOMAIN ran = SeenFields /\ DOMAIN ran.hits = 1..1
           /\ ran.hits[1] = seen.hits[1] \cup {st.line} /\ ran.texts = seen.texts
           /\ \A n : LET r == [ran EXCEPT !.texts = n]
                     IN DOMAIN r = SeenFields /\ r.hits = ran.hits /\ r.texts = n
<1>1. PICK h : h = [seen.hits EXCEPT ![1] = seen.hits[1] \cup {st.line}]
  OBVIOUS
<1>2. DOMAIN h = 1..1 /\ h[1] = seen.hits[1] \cup {st.line}
  BY <1>1
<1>3. ran = [seen EXCEPT !.hits = h]
  BY <1>1, Zenon DEF ran
<1>4. DOMAIN ran = SeenFields /\ ran.hits = h /\ ran.texts = seen.texts
  BY <1>3 DEF SeenFields
<1>5. \A n : LET r == [ran EXCEPT !.texts = n]
             IN DOMAIN r = SeenFields /\ r.hits = ran.hits /\ r.texts = n
  BY <1>4 DEF SeenFields
<1> QED
  BY <1>2, <1>4, <1>5

\* One line more.
LEMMA MoreHits ==
    ASSUME NEW k \in Nat, k >= 1
    PROVE  /\ Hits(k) = IF (Began[k] >= 0) # Ranged.neg THEN Hits(k - 1) \cup {k} ELSE Hits(k - 1)
           /\ Cardinality(Closing(k)) = Cardinality(Closing(k - 1)) + (IF Began[k] >= 0 /\ Ends(k) THEN 1 ELSE 0)
           /\ Cardinality(Closing(k)) \in Nat
<1>1. 1..k = (1..(k - 1)) \cup {k} /\ k \notin 1..(k - 1)
  OBVIOUS
<1>2. Hits(k) = IF (Began[k] >= 0) # Ranged.neg THEN Hits(k - 1) \cup {k} ELSE Hits(k - 1)
  BY <1>1 DEF Hits
<1>3. Closing(k) = IF Began[k] >= 0 /\ Ends(k) THEN Closing(k - 1) \cup {k} ELSE Closing(k - 1)
  BY <1>1 DEF Closing
<1>4. IsFiniteSet(Closing(k - 1)) /\ IsFiniteSet(Closing(k)) /\ k \notin Closing(k - 1)
  <2>1. IsFiniteSet(1..k) /\ IsFiniteSet(1..(k - 1))
    BY FS_Interval
  <2>2. Closing(k - 1) \in SUBSET (1..(k - 1)) /\ Closing(k) \in SUBSET (1..k)
    BY DEF Closing
  <2> QED
    BY <1>1, <2>1, <2>2, FS_Subset
<1>5. Cardinality(Closing(k - 1)) \in Nat /\ Cardinality(Closing(k)) \in Nat
  BY <1>4, FS_CardinalityType
<1>6. Cardinality(Closing(k - 1) \cup {k}) = Cardinality(Closing(k - 1)) + 1
  BY <1>4, FS_AddElement
<1> QED
  BY <1>2, <1>3, <1>5, <1>6

\* The command has seen line k: whether it applies, and if so what it did.
LEMMA LineCounted ==
    ASSUME NEW k, AtLine(k), st.pc = 1, Counted(k - 1, prog, seen),
           prog' = keep(selected(1)),
           \/ selected(1).sel = Ranged.neg /\ seen' = seen
           \/ selected(1).sel # Ranged.neg /\ Ranged.name # "c" /\ seen' = ran
           \/ /\ selected(1).sel # Ranged.neg
              /\ seen' = [ran EXCEPT !.texts = IF changeGoes(selected(1)) THEN ran.texts + 1 ELSE ran.texts]
           , cmd = Ranged
    PROVE  Counted(k, prog', seen')
<1>1. k \in 1..Len(Read) /\ Len(Read) \in Nat /\ Ranged.neg \in BOOLEAN /\ Ranged.a2.kind # "none" /\ st.line = k
  BY RangedIs DEF AtLine, isAddress
<1>2. PICK s : s = selected(1)
  OBVIOUS
<1>3. /\ s.sel \in BOOLEAN /\ (s.sel <=> Began[k] >= 0) /\ (s.active <=> GoesOn(k)) /\ Near(k, s.endLine)
  BY <1>2, Selection DEF Counted
<1>4. /\ DOMAIN prog' = ProgFields /\ DOMAIN prog'.active = 1..1 /\ DOMAIN prog'.endLine = 1..1
      /\ prog'.active[1] = s.active /\ prog'.endLine[1] = s.endLine
  BY <1>2, KeptIs DEF Counted
<1>5. (prog'.active[1] <=> GoesOn(k)) /\ Near(k, prog'.endLine[1])
  BY <1>3, <1>4
<1>6. /\ Hits(k) = IF (Began[k] >= 0) # Ranged.neg THEN Hits(k - 1) \cup {k} ELSE Hits(k - 1)
      /\ Cardinality(Closing(k)) = Cardinality(Closing(k - 1)) + (IF Began[k] >= 0 /\ Ends(k) THEN 1 ELSE 0)
      /\ Cardinality(Closing(k - 1)) \in Nat
  <2>1. k \in Nat /\ k >= 1
    BY <1>1
  <2>2. k - 1 = 0 \/ (k - 1 \in Nat /\ k - 1 >= 1)
    BY <2>1
  <2>3. Cardinality(Closing(k - 1)) \in Nat
    <3>1. CASE k - 1 = 0
      <4>1. Closing(k - 1) = {}
        BY <3>1 DEF Closing
      <4>2. Cardinality(Closing(k - 1)) = 0
        BY <4>1, FS_EmptySet, Zenon
      <4> QED
        BY <4>2
    <3>2. CASE k - 1 >= 1
      BY <2>2, <3>2, MoreHits
    <3> QED
      BY <2>2, <3>1, <3>2
  <2> QED
    BY <2>1, <2>3, MoreHits
<1>7. DOMAIN seen = SeenFields /\ DOMAIN seen.hits = 1..1 /\ seen.hits[1] = Hits(k - 1)
      /\ (Ranged.name = "c" /\ ~Ranged.neg => seen.texts = Cardinality(Closing(k - 1)))
  BY DEF Counted
<1>8. /\ DOMAIN ran = SeenFields /\ DOMAIN ran.hits = 1..1
      /\ ran.hits[1] = Hits(k - 1) \cup {k} /\ ran.texts = seen.texts
  BY <1>1, <1>7, RanIs
<1>12. ((Began[k] >= 0) # Ranged.neg) <=> (s.sel # Ranged.neg)
  <2>1. PICK x \in BOOLEAN, y \in BOOLEAN : x = s.sel /\ y = Ranged.neg
    BY <1>1, <1>3
  <2>2. PICK b : b = (Began[k] >= 0)
    OBVIOUS
  <2>3. b \in BOOLEAN /\ (b <=> x)
    BY <1>3, <2>1, <2>2
  <2>4. b = x
    BY <2>1, <2>3
  <2> QED
    BY <2>1, <2>2, <2>4, Zenon
<1>13. Hits(k) = IF s.sel # Ranged.neg THEN Hits(k - 1) \cup {k} ELSE Hits(k - 1)
  BY <1>6, <1>12, Zenon
<1>14. s.sel = Ranged.neg => ~(Ranged.name = "c" /\ ~Ranged.neg /\ Began[k] >= 0)
  BY <1>3, Zenon
<1>9. CASE s.sel = Ranged.neg /\ seen' = seen
  BY <1>1, <1>3, <1>4, <1>5, <1>6, <1>7, <1>9, <1>13, <1>14 DEF Counted
<1>10. CASE s.sel # Ranged.neg /\ Ranged.name # "c" /\ seen' = ran
  BY <1>1, <1>3, <1>4, <1>5, <1>8, <1>10, <1>13 DEF Counted
<1>11. CASE s.sel # Ranged.neg
            /\ seen' = [ran EXCEPT !.texts = IF changeGoes(s) THEN ran.texts + 1 ELSE ran.texts]
  <2>1. PICK n : n = IF changeGoes(s) THEN ran.texts + 1 ELSE ran.texts
    OBVIOUS
  <2>2. DOMAIN seen' = SeenFields /\ seen'.hits = ran.hits /\ seen'.texts = n
    BY <1>1, <1>7, <1>11, <2>1, RanIs
  <2>3. seen'.hits[1] = Hits(k) /\ DOMAIN seen'.hits = 1..1
    BY <1>8, <1>11, <1>13, <2>2
  <2>4. ASSUME Ranged.name = "c", ~Ranged.neg PROVE n = Cardinality(Closing(k))
    <3>1. changeGoes(s) <=> ~s.active
      BY <1>1, <2>4 DEF changeGoes
    <3>2. Began[k] >= 0
      <4>1. PICK x \in BOOLEAN, y \in BOOLEAN : x = s.sel /\ y = Ranged.neg
        BY <1>1, <1>3
      <4>2. ~y /\ x # y
        BY <1>11, <2>4, <4>1
      <4>3. x
        BY <4>2
      <4> QED
        BY <1>3, <4>1, <4>3, Zenon
    <3>3. ~s.active <=> Ends(k)
      BY <1>1, <1>3, <3>2 DEF GoesOn
    <3>4. ran.texts = Cardinality(Closing(k - 1))
      BY <1>7, <1>8, <2>4
    <3> QED
      BY <1>6, <2>1, <3>1, <3>2, <3>3, <3>4
  <2> QED
    BY <1>1, <1>4, <1>5, <2>2, <2>3, <2>4 DEF Counted
<1> QED
  BY <1>2, <1>9, <1>10, <1>11

\* At the command: it is the one with the range, and a line has been read for it.
LEMMA AtRange ==
    ASSUME RangeInv, job.of = "range", atCommand
    PROVE  /\ st.pc = 1 /\ cmd = Ranged /\ AtLine(st.line) /\ Counted(st.line - 1, prog, seen)
           /\ stage = "exec" /\ Len(cmds) = 1
<1>1. RunInv /\ RangeData(st, prog, seen, stage, file) /\ stage = "exec" /\ st.pc <= Len(cmds)
  BY DEF RangeInv, atCommand
<1>2. Len(cmds) = 1 /\ cmds[1].c = Ranged /\ Len(Read) \in Nat
  BY <1>1, RangedIs
<1>3. st.pc = 1
  BY <1>1, <1>2 DEF RangeData
<1>4. cmd = Ranged
  BY <1>2, <1>3 DEF cmd
<1>5. AtLine(st.line) /\ Counted(st.line - 1, prog, seen)
  BY <1>1, <1>2, <1>3 DEF RangeData, AtLine, LinesSeen
<1> QED
  BY <1>1, <1>2, <1>3, <1>4, <1>5

\* A command that has seen its line goes on to the next or deletes it.
LEMMA SeenIs ==
    ASSUME RangeInv, job.of = "range", atCommand, Counted(st.line, prog', seen'),
           st'.line = st.line, st'.rest = st.rest, st'.pc \in 1..2,
           (stage' = "exec" /\ st'.pc = 2) \/ stage' = "delete"
    PROVE  RangeData(st', prog', seen', stage', file')
<1>1. RangeData(st, prog, seen, stage, file) /\ stage = "exec"
  BY DEF RangeInv, atCommand
<1>2. LinesSeen(st', stage') = st.line
  BY DEF LinesSeen
<1> QED
  BY <1>1, <1>2 DEF RangeData

LEMMA AdvancedHere ==
    ASSUME RangeInv, job.of = "range", atCommand
    PROVE  /\ advanced(st).pc = 2 /\ advanced(st).line = st.line /\ advanced(st).rest = st.rest
           /\ advanced(st) \in States(1)
<1>1. RunInv /\ st \in States(1) /\ st.pc = 1
  BY AtRange DEF RangeInv, RunInv, RunData
<1>2. PICK k : k = st.pc + 1
  OBVIOUS
<1>3. advanced(st) = [st EXCEPT !.pc = k]
  BY <1>2, Zenon DEF advanced
<1>4. advanced(st).pc = 2
  BY <1>1, <1>2, <1>3 DEF States
<1>5. advanced(st) \in States(1)
  BY <1>1, AtRange, AdvancedIs
<1> QED
  BY <1>1, <1>4, <1>5, AdvancedIs

\* What the commands with a range are.
LEMMA RangeNames ==
    ASSUME RangeInv, job.of = "range", atCommand
    PROVE  /\ cmd = Ranged /\ cmd.name \in {"p", "P", "=", "a", "i", "r", "c", "d"}
           /\ cmd.name \notin {BlockBegin, BlockEnd, ":"}
<1>1. cmd = Ranged /\ cmd.name \in {"p", "P", "=", "a", "i", "r", "c", "d"}
  BY AtRange, RangedIs DEF RangeInv
<1>2. BlockBegin \notin {"p", "P", "=", "a", "i", "r", "c", "d"}
  BY DEF BlockBegin
<1>3. BlockEnd \notin {"p", "P", "=", "a", "i", "r", "c", "d"}
  BY DEF BlockEnd
<1>4. ":" \notin {"p", "P", "=", "a", "i", "r", "c", "d"}
  OBVIOUS
<1> QED
  BY <1>1, <1>2, <1>3, <1>4

LEMMA OtherCommands ==
    ASSUME RangeInv, job.of = "range"
    PROVE  ~Spaces /\ ~NextLine /\ ~Quit /\ ~Branch /\ ~WriteTo /\ ~Substitute
<1>1. atCommand => cmd.name \in {"p", "P", "=", "a", "i", "r", "c", "d"}
  BY RangeNames
<1>2. ~Spaces
  BY <1>1 DEF Spaces, Selected
<1>3. ~NextLine
  BY <1>1 DEF NextLine, Selected
<1>4. ~Quit
  BY <1>1 DEF Quit, Selected
<1>5. ~Branch
  BY <1>1 DEF Branch, Selected
<1>6. ~WriteTo
  BY <1>1 DEF WriteTo, Selected
<1>7. ~Substitute
  BY <1>1 DEF Substitute, Selected
<1> QED
  BY <1>2, <1>3, <1>4, <1>5, <1>6, <1>7

LEMMA RangeSkip ==
    ASSUME RangeInv, job.of = "range", Skip
    PROVE  RangeData(st', prog', seen', stage', file')
<1>1. atCommand /\ seen' = seen
  BY DEF Skip
<1>2. /\ st.pc = 1 /\ cmd = Ranged /\ AtLine(st.line) /\ Counted(st.line - 1, prog, seen) /\ stage = "exec"
      /\ cmd.name \notin {BlockBegin, BlockEnd, ":"}
  BY <1>1, AtRange, RangeNames
<1>3. ~selected(1).err
  BY <1>2, Selection DEF Counted
<1>4. PICK s : s = selected(st.pc)
  OBVIOUS
<1>5. /\ s.err \/ s.sel = cmd.neg
      /\ prog' = keep(s)
      /\ stage' = IF s.err THEN "failed" ELSE stage
      /\ st' = IF s.err THEN st ELSE IF cmd.name = BlockBegin THEN [st EXCEPT !.pc = block + 1] ELSE advanced(st)
  BY <1>2, <1>4, Zenon DEF Skip
<1>6. s.sel = Ranged.neg /\ prog' = keep(selected(1)) /\ stage' = "exec" /\ st' = advanced(st) /\ s = selected(1)
  BY <1>2, <1>3, <1>4, <1>5
<1>7. Counted(st.line, prog', seen')
  BY <1>1, <1>2, <1>6, LineCounted
<1> QED
  BY <1>1, <1>6, <1>7, AdvancedHere, SeenIs

LEMMA RangeEmit ==
    ASSUME RangeInv, job.of = "range", Emit
    PROVE  RangeData(st', prog', seen', stage', file')
<1>1. /\ atCommand /\ seen' = ran /\ prog' = keep(selected(st.pc)) /\ stage' = stage
      /\ selected(st.pc).sel # cmd.neg
      /\ cmd.name \in {BlockBegin, "=", "a", "i", "r", "p", "P"}
  BY DEF Emit, Selected
<1>2. /\ st.pc = 1 /\ cmd = Ranged /\ AtLine(st.line) /\ Counted(st.line - 1, prog, seen) /\ stage = "exec"
      /\ cmd.name \notin {BlockBegin, BlockEnd, ":"}
  BY <1>1, AtRange, RangeNames
<1>3. Ranged.name # "c"
  BY <1>1, <1>2
<1>4. Counted(st.line, prog', seen')
  BY <1>1, <1>2, <1>3, LineCounted
<1>5. PICK a \in States(1) : a = advanced(st)
  BY <1>1, AdvancedHere
<1>6. PICK q : st' = [a EXCEPT !.appendQ = q]
  BY <1>5 DEF Emit
<1>7. st'.pc = 2 /\ st'.line = st.line /\ st'.rest = st.rest
  <2>1. st'.pc = a.pc /\ st'.line = a.line /\ st'.rest = a.rest
    BY <1>6 DEF States
  <2> QED
    BY <1>1, <1>5, <2>1, AdvancedHere
<1> QED
  BY <1>1, <1>2, <1>4, <1>7, SeenIs

LEMMA RangeChange ==
    ASSUME RangeInv, job.of = "range", Change
    PROVE  RangeData(st', prog', seen', stage', file')
<1>1. /\ atCommand /\ prog' = keep(selected(st.pc)) /\ stage' = "delete" /\ st' = st
      /\ selected(st.pc).sel # cmd.neg
  BY DEF Change, Selected
<1>2. seen' = [ran EXCEPT !.texts = IF changeGoes(selected(st.pc)) THEN ran.texts + 1 ELSE ran.texts]
  BY Zenon DEF Change
<1>3. st.pc = 1 /\ cmd = Ranged /\ AtLine(st.line) /\ Counted(st.line - 1, prog, seen) /\ stage = "exec"
  BY <1>1, AtRange
<1>4. Counted(st.line, prog', seen')
  BY <1>1, <1>2, <1>3, LineCounted
<1> QED
  BY <1>1, <1>3, <1>4, SeenIs

LEMMA RangeDelete ==
    ASSUME RangeInv, job.of = "range", DeleteText
    PROVE  RangeData(st', prog', seen', stage', file')
<1>1. /\ atCommand /\ seen' = ran /\ prog' = keep(selected(st.pc))
      /\ selected(st.pc).sel # cmd.neg /\ cmd.name \in {"d", "D"}
  BY DEF DeleteText, Selected
<1>2. st.pc = 1 /\ cmd = Ranged /\ AtLine(st.line) /\ Counted(st.line - 1, prog, seen) /\ stage = "exec"
  BY <1>1, AtRange
<1>3. cmd.name = "d"
  BY <1>1, RangeNames
<1>4. stage' = "delete" /\ st' = st
  BY <1>3, Zenon DEF DeleteText
<1>5. Ranged.name # "c"
  BY <1>2, <1>3
<1>6. Counted(st.line, prog', seen')
  BY <1>1, <1>2, <1>5, LineCounted
<1> QED
  BY <1>1, <1>2, <1>4, <1>6, SeenIs

\* One file is all that is read.
LEMMA OneFile ==
    ASSUME RunInv, job.of = "range"
    PROVE  linesOfAll(job.files) = Read /\ Read = SubSeq(Read, 1, Len(Read))
<1>1. Len(job.files) = 1 /\ readable(job.files[1]) /\ Read \in Seq(TextLines)
  BY RangedIs
<1>2. PICK r \in Seq(TextLines) : r = Read /\ r = linesOf(job.files[1])
  BY <1>1 DEF Read
<1>3. [i \in 1..Len(job.files) |-> IF readable(job.files[i]) THEN linesOf(job.files[i]) ELSE <<>>] = <<r>>
  <2>1. PICK z : z = [i \in 1..1 |-> IF readable(job.files[i]) THEN linesOf(job.files[i]) ELSE <<>>]
    OBVIOUS
  <2>2. z = [i \in 1..1 |-> r]
    BY <1>1, <1>2, <2>1
  <2>3. z = <<r>>
    BY <2>2
  <2> QED
    BY <1>1, <2>1, <2>3, Zenon
<1>4. linesOfAll(job.files) = E!FlattenSeq(<<r>>)
  BY <1>3, FlattenIs, Zenon DEF linesOfAll
<1>5. PICK e \in Seq(Seq(TextLines)) : e = <<>> /\ Append(e, r) = <<r>>
  <2>1. <<>> \in Seq(Seq(TextLines)) /\ Append(<<>>, r) = <<r>>
    OBVIOUS
  <2> QED
    BY <2>1
<1>6. E!FlattenSeq(Append(e, r)) = E!FlattenSeq(e) \o r
  BY E!FlattenAppend
<1>7. E!FlattenSeq(e) = <<>> /\ <<>> \o r = r /\ SubSeq(r, 1, Len(r)) = r
  BY <1>5, E!FlattenEmpty, E!AllIs
<1> QED
  BY <1>2, <1>4, <1>5, <1>6, <1>7

\* The head of what is left, and the rest of it.
LEMMA HeadTailOfSub ==
    ASSUME NEW A, NEW s \in Seq(A), NEW k \in Nat, NEW n \in Nat, n = Len(s), k < n
    PROVE  Head(SubSeq(s, k + 1, n)) = s[k + 1] /\ Tail(SubSeq(s, k + 1, n)) = SubSeq(s, k + 2, n)
<1>1. PICK m \in Nat : m = k + 1 /\ 1 <= m /\ m <= n
  OBVIOUS
<1>2. PICK z \in Seq(A) : z = SubSeq(s, m, n) /\ Len(z) = n - m + 1 /\ \A i \in 1..(n - m + 1) : z[i] = s[m + i - 1]
  <2>1. PICK z : z = SubSeq(s, m, n)
    OBVIOUS
  <2>4. 1 <= m /\ m <= Len(s) /\ n <= Len(s)
    BY <1>1
  <2>2. z \in Seq(A) /\ Len(z) = (IF m <= n THEN n - m + 1 ELSE 0) /\ \A i \in 1..(n - m + 1) : z[i] = s[m + i - 1]
    <3>1. SubSeq(s, m, n) \in Seq(A)
      BY <2>4, E!SubIs
    <3>2. Len(SubSeq(s, m, n)) = (IF m <= n THEN n - m + 1 ELSE 0)
      BY <2>4, E!SubIs
    <3>3. \A i \in 1..(n - m + 1) : SubSeq(s, m, n)[i] = s[m + i - 1]
      BY <2>4, E!SubIs
    <3> QED
      BY <2>1, <3>1, <3>2, <3>3, Zenon
  <2>3. Len(z) = n - m + 1
    BY <1>1, <2>2
  <2> QED
    BY <2>1, <2>2, <2>3
<1>3. Head(z) = s[m]
  BY <1>1, <1>2
<1>4. PICK t : t = Tail(z)
  OBVIOUS
<1>5. t = [i \in 1..(n - m) |-> s[m + i]]
  <2>1. t = [i \in 1..(n - m) |-> z[i + 1]]
    BY <1>1, <1>2, <1>4
  <2>2. \A i \in 1..(n - m) : z[i + 1] = s[m + i]
    BY <1>1, <1>2
  <2> QED
    BY <2>1, <2>2
<1>6. SubSeq(s, m + 1, n) = [i \in 1..(n - m) |-> s[m + i]]
  <2>1. PICK q : q = SubSeq(s, m + 1, n)
    OBVIOUS
  <2>2. q = [i \in 1..(n - m) |-> s[i + m]]
    BY <1>1, <2>1
  <2>3. \A i \in 1..(n - m) : i + m = m + i
    BY <1>1
  <2> QED
    BY <2>1, <2>2, <2>3
<1> QED
  BY <1>1, <1>2, <1>3, <1>4, <1>5, <1>6

LEMMA RangeCycle ==
    ASSUME RangeInv, job.of = "range", Cycle
    PROVE  RangeData(st', prog', seen', stage', file')
<1>1. stage = "cycle" /\ prog' = prog /\ seen' = seen /\ file' = file
  BY DEF Cycle, rest
<1>2. RunInv /\ RangeData(st, prog, seen, stage, file) /\ st \in States(1) /\ Read \in Seq(TextLines)
  BY RangedIs DEF RangeInv, RunInv, RunData
<1>3. PICK k \in Nat, n \in Nat : k = st.line /\ n = Len(Read) /\ k <= n
  BY <1>2 DEF RangeData
<1>4. st.rest = SubSeq(Read, k + 1, n) /\ Counted(k, prog, seen)
  BY <1>1, <1>2, <1>3 DEF RangeData, LinesSeen
<1>5. CASE lastLine
  <2>1. stage' = "ended" /\ st' = st
    BY <1>5, Zenon DEF Cycle
  <2>2. k = n
    <3> SUFFICES ASSUME k < n PROVE FALSE
      BY <1>3
    <3>1. k + 1 \in Nat /\ 1 <= k + 1 /\ k + 1 <= n
      OBVIOUS
    <3>2. Len(SubSeq(Read, k + 1, n)) = n - (k + 1) + 1
      BY <1>2, <1>3, <3>1, E!SubIs
    <3>3. Len(st.rest) = 0
      BY <1>5 DEF lastLine
    <3> QED
      BY <1>4, <3>2, <3>3
  <2>3. LinesSeen(st', stage') = k
    BY <1>3, <2>1 DEF LinesSeen
  <2> QED
    BY <1>1, <1>2, <1>3, <1>4, <2>1, <2>2, <2>3 DEF RangeData
<1>6. CASE ~lastLine
  <2>1. st.rest # <<>>
    BY <1>6 DEF lastLine
  <2>2. k < n
    <3> SUFFICES ASSUME k = n PROVE FALSE
      BY <1>3
    <3>1. SubSeq(Read, n + 1, n) = <<>>
      BY <1>2, <1>3
    <3> QED
      BY <1>4, <2>1, <3>1
  <2>3. Head(SubSeq(Read, k + 1, n)) = Read[k + 1] /\ Tail(SubSeq(Read, k + 1, n)) = SubSeq(Read, k + 2, n)
    BY <1>2, <1>3, <2>2, HeadTailOfSub
  <2>4. PICK r \in States(1) : r = read(st) /\ r.rest = Tail(st.rest) /\ r.line = st.line + 1
    BY <1>2, <2>1, ReadIs
  <2>5. PICK h \in Seq(Chars) : h = Head(st.rest).text
    BY <1>2, <2>1, ReadIs
  <2>6. st' = [r EXCEPT !.ps = h, !.replaced = FALSE, !.pc = 1] /\ stage' = "exec"
    BY <1>6, <2>4, <2>5, Zenon DEF Cycle
  <2>7. st'.pc = 1 /\ st'.ps = h /\ st'.rest = r.rest /\ st'.line = r.line
    BY <2>6 DEF States
  <2>8. st'.line = k + 1 /\ st'.ps = Read[k + 1].text /\ st'.rest = SubSeq(Read, k + 2, n)
    BY <1>3, <1>4, <2>3, <2>4, <2>5, <2>7
  <2>9. LinesSeen(st', stage') = k
    BY <1>3, <2>6, <2>7, <2>8 DEF LinesSeen
  <2>10. (k + 1) + 1 = k + 2
    OBVIOUS
  <2> QED
    BY <1>1, <1>2, <1>3, <1>4, <2>2, <2>6, <2>7, <2>8, <2>9, <2>10 DEF RangeData
<1> QED
  BY <1>5, <1>6

LEMMA RangeEndCycle ==
    ASSUME RangeInv, job.of = "range", EndCycle
    PROVE  RangeData(st', prog', seen', stage', file')
<1>1. prog' = prog /\ seen' = seen /\ file' = file
  BY DEF EndCycle, rest
<1>2. RunInv /\ RangeData(st, prog, seen, stage, file) /\ st \in States(1) /\ Len(cmds) = 1
  BY RangedIs DEF RangeInv, RunInv, RunData
<1>3. stage = "delete" \/ (stage = "exec" /\ st.pc > 1)
  BY <1>2 DEF EndCycle, RangeData
<1>4. stage' = "cycle"
  BY <1>3, Zenon DEF EndCycle
<1>5. \E x, y : st' = [st EXCEPT !.appendQ = x, !.quit = y, !.pc = 1]
  BY Zenon DEF EndCycle
<1>6. st'.pc = 1 /\ st'.line = st.line /\ st'.rest = st.rest
  BY <1>2, <1>5 DEF States
<1>7. LinesSeen(st, stage) = st.line /\ LinesSeen(st', stage') = st.line
  BY <1>3, <1>4, <1>6 DEF LinesSeen
<1> QED
  BY <1>1, <1>2, <1>3, <1>4, <1>6, <1>7 DEF RangeData

LEMMA RangeOpen ==
    ASSUME RangeInv, job.of = "range", Open
    PROVE  RangeData(st', prog', seen', stage', file')
<1>1. stage = "open" /\ prog' = prog /\ seen' = seen
  BY DEF Open
<1>2. RunInv /\ RangeData(st, prog, seen, stage, file) /\ job.mode = "stream" /\ Len(job.files) = 1
      /\ Read \in Seq(TextLines)
  BY RangedIs DEF RangeInv
<1>3. file \in 1..2
  BY <1>2 DEF RunInv
<1>4. LinesSeen(st, stage) = st.line
  BY <1>1 DEF LinesSeen
<1>5. CASE file > Len(job.files)
  <2>1. stage' = "done" /\ st' = st /\ file' = file
    BY <1>5, Zenon DEF Open
  <2>2. LinesSeen(st', stage') = st.line
    BY <2>1 DEF LinesSeen
  <2> QED
    BY <1>1, <1>2, <1>3, <1>4, <1>5, <2>1, <2>2 DEF RangeData
<1>6. CASE ~(file > Len(job.files))
  <2>1. file = 1
    BY <1>2, <1>3, <1>6
  <2>2. /\ st' = [rest |-> linesOfAll(job.files), line |-> 0, ps |-> <<>>, nl |-> TRUE, replaced |-> FALSE,
                  appendQ |-> <<>>, pc |-> 1, quit |-> FALSE, code |-> 0]
        /\ stage' = "cycle" /\ file' = Len(job.files)
    BY <1>2, <1>6, Zenon DEF Open
  <2>3. st'.rest = SubSeq(Read, 1, Len(Read)) /\ st'.line = 0 /\ st'.pc = 1
    <3>1. PICK r : r = linesOfAll(job.files)
      OBVIOUS
    <3>2. st'.rest = r /\ st'.line = 0 /\ st'.pc = 1
      BY <2>2, <3>1
    <3> QED
      BY <1>2, <3>1, <3>2, OneFile
  <2>4. LinesSeen(st', stage') = 0 /\ st.line = 0
    BY <1>1, <1>2, <2>1, <2>2, <2>3 DEF LinesSeen, RangeData
  <2> QED
    BY <1>1, <1>2, <1>4, <2>2, <2>3, <2>4 DEF RangeData
<1> QED
  BY <1>5, <1>6

LEMMA RangeFinish ==
    ASSUME RangeInv, job.of = "range", Finish
    PROVE  RangeData(st', prog', seen', stage', file')
<1>1. RunInv /\ RangeData(st, prog, seen, stage, file) /\ job.mode = "stream" /\ Len(job.files) = 1
  BY RangedIs DEF RangeInv
<1>2. stage = "ended" /\ st' = st /\ prog' = prog
  BY <1>1 DEF Finish, RangeData
<1>3. file \in 1..2
  BY <1>1 DEF RunInv
<1>4. stage' = "done" \/ (stage' = "open" /\ file' = file + 1)
  BY <1>1, Zenon DEF Finish
<1>5. \E z : seen' = [seen EXCEPT !.results = z] \/ seen' = seen
  BY Zenon DEF Finish
<1>6. DOMAIN seen = SeenFields
  BY <1>1 DEF RangeData, Counted
<1>7. DOMAIN seen' = SeenFields /\ seen'.hits = seen.hits /\ seen'.texts = seen.texts
  BY <1>5, <1>6 DEF SeenFields
<1>8. LinesSeen(st, stage) = st.line /\ LinesSeen(st', stage') = st.line
  BY <1>2, <1>4 DEF LinesSeen
<1>9. Counted(st.line, prog', seen')
  BY <1>1, <1>2, <1>7, <1>8 DEF RangeData, Counted
<1> QED
  BY <1>1, <1>2, <1>3, <1>4, <1>8, <1>9 DEF RangeData

LEMMA RangeInit == SedInit => RangeInv
<1> SUFFICES ASSUME SedInit, job.of = "range" PROVE RangeData(st, prog, seen, stage, file)
  BY RunInit DEF RangeInv
<1>1. RunInv
  BY RunInit
<1>2. /\ Len(cmds) = 1 /\ cmds[1].c = Ranged /\ Read \in Seq(TextLines) /\ parseOk(job.script)
      /\ Len(job.script) = 1 /\ addressOk(Ranged) /\ isAddress(Ranged.a1) /\ isAddress(Ranged.a2)
  BY <1>1, RangedIs
<1>3. PICK n \in {1} : n = Len(cmds)
  BY <1>2
<1>4. stage = "open" /\ file = 1
  <2>1. job.script # <<>>
    <3>1. Len(job.script) = 1
      BY <1>2
    <3> SUFFICES ASSUME job.script = <<>> PROVE FALSE
      OBVIOUS
    <3>2. Len(<<>>) = 0
      OBVIOUS
    <3>3. Len(job.script) = Len(<<>>)
      BY Zenon
    <3> QED
      BY <3>1, <3>2, <3>3
  <2> QED
    BY <1>2, <2>1 DEF SedInit
<1>5. st.line = 0 /\ st.pc = 1
  BY DEF SedInit
<1>6. PICK A : A = [i \in 1..n |-> cmds[i].c.a1.kind = "zero"]
  OBVIOUS
<1>7. PICK B : B = [i \in 1..n |-> 0]
  OBVIOUS
<1>8. PICK H : H = [i \in 1..n |-> {}]
  OBVIOUS
<1>9. PICK Z : Z = [i \in 1..Len(job.files) |-> <<>>]
  OBVIOUS
<1>10. prog = [hold |-> <<>>, lastRx |-> {}, endLine |-> B, active |-> A]
  BY <1>3, <1>6, <1>7, Zenon DEF SedInit
<1>11. seen = [hits |-> H, texts |-> 0, results |-> Z]
  BY <1>3, <1>8, <1>9, Zenon DEF SedInit
<1>12. DOMAIN prog = ProgFields /\ prog.active = A /\ prog.endLine = B
  BY <1>10 DEF ProgFields
<1>13. DOMAIN seen = SeenFields /\ seen.hits = H /\ seen.texts = 0
  BY <1>11 DEF SeenFields
<1>14. DOMAIN A = 1..1 /\ (A[1] <=> Ranged.a1.kind = "zero")
  <2>1. PICK x : x = (Ranged.a1.kind = "zero")
    OBVIOUS
  <2>2. A = [i \in 1..1 |-> cmds[i].c.a1.kind = "zero"]
    BY <1>6
  <2>3. A[1] = (cmds[1].c.a1.kind = "zero") /\ DOMAIN A = 1..1
    BY <2>2
  <2>4. A[1] = x
    BY <1>2, <2>1, <2>3
  <2>5. x <=> Ranged.a1.kind = "zero"
    BY <2>1
  <2> QED
    BY <2>3, <2>4, <2>5
<1>15. DOMAIN B = 1..1 /\ DOMAIN H = 1..1 /\ H[1] = {}
  BY <1>7, <1>8
<1>16. GoesOn(0) <=> Ranged.a1.kind = "zero"
  <2>1. Began[0] = IF Ranged.a1.kind = "zero" THEN 0 ELSE -1
    BY <1>2, BeganIs DEF Began
  <2> QED
    BY <2>1 DEF GoesOn
<1>17. Near(0, B[1])
  BY <1>16, <1>2 DEF Near, addressOk
<1>18. Hits(0) = {} /\ Closing(0) = {}
  BY DEF Hits, Closing
<1>19. Cardinality(Closing(0)) = 0
  BY <1>18, FS_EmptySet, Zenon
<1>20. Counted(0, prog, seen)
  BY <1>2, <1>12, <1>13, <1>14, <1>15, <1>16, <1>17, <1>18, <1>19 DEF Counted
<1>21. LinesSeen(st, stage) = 0
  BY <1>4, <1>5 DEF LinesSeen
<1> QED
  BY <1>2, <1>4, <1>5, <1>20, <1>21 DEF RangeData

LEMMA RangeStep == RangeInv /\ [SedNext]_sedVars => RangeInv'
<1> SUFFICES ASSUME RangeInv, [SedNext]_sedVars PROVE RangeInv'
  OBVIOUS
<1>1. RunInv'
  BY RunStep DEF RangeInv
<1>2. job' = job
  <2>1. Skip \/ Emit \/ Spaces \/ Change \/ DeleteText \/ NextLine \/ Quit \/ Branch \/ WriteTo \/ Substitute => job' = job
    BY InsideIs DEF RangeInv, Inside
  <2>2. Cycle \/ EndCycle => job' = job
    BY InsideIs
  <2>3. Open \/ Finish => job' = job
    BY DEF Open, Finish
  <2> QED
    BY <2>1, <2>2, <2>3 DEF SedNext, sedVars
<1>3. ASSUME job.of = "range" PROVE RangeData(st', prog', seen', stage', file')
  <2>1. CASE UNCHANGED sedVars
    BY <1>3, <2>1 DEF sedVars, RangeInv
  <2> QED
    BY <1>3, <2>1, OtherCommands, RangeSkip, RangeEmit, RangeChange, RangeDelete, RangeCycle, RangeEndCycle,
       RangeOpen, RangeFinish DEF SedNext
<1>4. job.of = "range" => RangeData(st, prog, seen, stage, file)'
  BY <1>2, <1>3, PrimedRange
<1> QED
  BY <1>1, <1>2, <1>4 DEF RangeInv

LEMMA RangeShows == RangeInv => RangesExact /\ ChangeOnce
<1> SUFFICES ASSUME RangeInv, job.of = "range" PROVE RangesExact /\ ChangeOnce
  BY DEF RangesExact, ChangeOnce
<1>1. RangeData(st, prog, seen, stage, file)
  BY DEF RangeInv
<1>2. stage \in {"cycle", "delete", "done"} => Counted(st.line, prog, seen)
  BY <1>1 DEF RangeData, LinesSeen
<1>3. RangesExact
  <2> SUFFICES ASSUME stage \in {"cycle", "delete", "done"}
               PROVE  seen.hits[1] = {k \in 1..st.line : (Began[k] >= 0) # Ranged.neg}
    BY Zenon DEF RangesExact, Began, Ranged, Read
  <2> QED
    BY <1>2 DEF Counted, Hits
<1>4. ChangeOnce
  <2> SUFFICES ASSUME stage = "done", Ranged.name = "c", ~Ranged.neg
               PROVE  seen.texts = Cardinality({k \in 1..Len(Read) : Began[k] >= 0 /\ Ends(k)})
    BY Zenon DEF ChangeOnce, Began, Ranged, Read, Ends
  <2>1. st.line = Len(Read) /\ Counted(Len(Read), prog, seen)
    BY <1>1, <1>2 DEF RangeData
  <2> QED
    BY <2>1 DEF Counted, Closing
<1> QED
  BY <1>3, <1>4

\* For any script, files and failing writes: the types of a run; of one command
\* with a range over any file, the lines it applies to and the texts c writes for
\* the ranges that end (sed.go: selected); and no line joined to the one before.
THEOREM OutputIsExact == SedSpec => []OutputExact
<1>1. SedSpec => []RangeInv
  BY RangeInit, RangeStep, PTL DEF SedSpec
<1>2. RangeInv => RangesExact /\ ChangeOnce
  BY RangeShows
<1> QED
  BY <1>1, <1>2, LinesStayApart, PTL DEF OutputExact
=============================================================================
