------------------------------- MODULE Persist -------------------------------
(***************************************************************************)
(* The filesystem of cmd/websh and its copy in IndexedDB: persist.go, and  *)
(* what main.go does with it.  The filesystem is in memory; after every    *)
(* command syncFS walks it, puts what changed since the last walk and      *)
(* deletes what is gone.  Consoles and background jobs change the          *)
(* filesystem while a walk waits for IndexedDB; requests fail; the page    *)
(* may be closed or reloaded at any moment.                                *)
(*                                                                         *)
(* The filesystem is one directory.  A request takes effect, or fails, as  *)
(* it is made, and its answer comes later: IndexedDB runs requests in the  *)
(* order they are made, and only a reload and reset-fs look at the store.  *)
(***************************************************************************)
EXTENDS Integers, FiniteSets

CONSTANTS
    Paths,        \* names in the directory
    Data,         \* contents of a file
    Dir,          \* the content of an entry that is a directory
    Size,         \* the size of each content
    Modes,        \* permissions
    DefaultMode,  \* what a new entry has
    Seed,         \* shell.Seed: the content of each path, or None
    None,         \* no entry, no signature, no request
    Consoles,     \* const consoles: the shells on this filesystem
    Jobs,         \* a background job may write at any time
    SameInstant,  \* operations of one command may share a millisecond
    MaxOps,       \* bound: operations on the filesystem
    MaxFail,      \* bound: failures of IndexedDB
    MaxBoots,     \* bound: times the page is loaded again
    MaxResets     \* bound: uses of reset-fs

Contents == Data \cup {Dir}

Entry == [data : Contents, mtime : Nat, mode : Modes]
Sig   == [isDir : BOOLEAN, size : Nat, mtime : Nat]
Asked == [path : Paths, ok : BOOLEAN]

ASSUME PersistAssumption ==
    /\ Dir \notin Data
    /\ Size \in [Contents -> Nat]
    /\ DefaultMode \in Modes
    /\ Seed \in [Paths -> Contents \cup {None}]
    /\ None \notin Contents \cup Entry \cup Sig \cup Asked
    /\ Consoles \in Nat \ {0}
    /\ Jobs \in BOOLEAN /\ SameInstant \in BOOLEAN
    /\ MaxOps \in Nat /\ MaxFail \in Nat /\ MaxBoots \in Nat /\ MaxResets \in Nat

VARIABLES
    vfs,        \* the MemMapFs: an Entry or None for each path
    idb,        \* the object store: what the record of each path holds
    persisted,  \* main's persisted: this page has a store
    up,         \* the consoles are on: main is past its baseline snapshot
    sigs,       \* main's sigs: a fileSig or None for each path
    want,       \* AfterCommand calls waiting for syncMu
    phase,      \* syncFS: "idle", "walk" or "delete"
    next,       \* syncFS's next
    todo,       \* names read from the directory and not yet visited, or
                \* paths of prev that are to be deleted
    req,        \* the request awaitReq waits for: [path, ok] or None
    clock,      \* milliseconds
    ops, fails, boots, resets,  \* history: how many there were
    clean,      \* nothing changed or failed since a sync started
    based,      \* history: the baseline snapshot was taken without a failure
    wiped       \* history: reset-fs was used on this page

syncvars == <<sigs, want, phase, next, todo, req>>
counts   == <<ops, fails, boots, resets>>
hist     == <<based, wiped>>
vars     == <<vfs, idb, persisted, up, syncvars, clock, counts, clean, hist>>

NoSigs == [p \in Paths |-> None]

\* fileSig
sig(e) == [isDir |-> e.data = Dir, size |-> Size[e.data], mtime |-> e.mtime]

IsDir(p) == vfs[p] # None /\ vfs[p].data = Dir

Present(fs) == {p \in Paths : fs[p] # None}

-----------------------------------------------------------------------------
(***************************************************************************)
(* Commands.  A console whose AfterCommand is waiting or at work runs no   *)
(* command; the others, and background jobs, do.                           *)
(***************************************************************************)

Busy == want + (IF phase = "idle" THEN 0 ELSE 1)

CanRun == up /\ (Jobs \/ ~persisted \/ Busy < Consoles)

\* Operations of one command may fall in one millisecond; the first one after
\* a sync does not fall in that of one before it.
Tick == clock' \in {clock + 1} \cup (IF SameInstant /\ ~clean THEN {clock} ELSE {})

FsOp ==
    /\ CanRun
    /\ ops < MaxOps
    /\ ops' = ops + 1
    /\ clean' = FALSE
    /\ Tick
    /\ UNCHANGED <<idb, persisted, up, syncvars, fails, boots, resets, hist>>

\* A file is created, or what it holds replaced.
WriteFile(p, d) ==
    /\ ~IsDir(p)
    /\ FsOp
    /\ vfs' = [vfs EXCEPT ![p] =
           [data |-> d, mtime |-> clock',
            mode |-> IF vfs[p] = None THEN DefaultMode ELSE vfs[p].mode]]

Mkdir(p) ==
    /\ vfs[p] = None
    /\ FsOp
    /\ vfs' = [vfs EXCEPT ![p] = [data |-> Dir, mtime |-> clock', mode |-> DefaultMode]]

\* Chmod leaves the time of the last change alone.
Chmod(p, m) ==
    /\ vfs[p] # None /\ vfs[p].mode # m
    /\ FsOp
    /\ vfs' = [vfs EXCEPT ![p].mode = m]

RemoveFile(p) ==
    /\ vfs[p] # None
    /\ FsOp
    /\ vfs' = [vfs EXCEPT ![p] = None]

\* The entry keeps its time and its mode under the new name.
Rename(p, q) ==
    /\ p # q
    /\ vfs[p] # None
    /\ ~IsDir(q)
    /\ FsOp
    /\ vfs' = [vfs EXCEPT ![q] = vfs[p], ![p] = None]

\* reset-fs: the store is emptied and the page is to be loaded again, which
\* happens some time later.
ResetFs ==
    /\ CanRun /\ persisted
    /\ resets < MaxResets
    /\ resets' = resets + 1
    /\ idb' = NoSigs
    /\ wiped' = TRUE
    /\ UNCHANGED <<vfs, persisted, up, syncvars, clock, ops, fails, boots, clean, based>>

\* A command line is over and AfterCommand, where there is one, wants syncMu.
CommandEnds ==
    /\ up
    /\ Busy < Consoles
    /\ want' = IF persisted THEN want + 1 ELSE want
    /\ UNCHANGED <<vfs, idb, persisted, up, sigs, phase, next, todo, req, clock, counts,
                   clean, hist>>

-----------------------------------------------------------------------------
(***************************************************************************)
(* syncFS.                                                                 *)
(***************************************************************************)

\* The walk begins: the directory's names are read.
Walk(fs) ==
    /\ phase' = "walk"
    /\ next' = NoSigs
    /\ todo' = Present(fs)
    /\ req' = None
    /\ clean' = TRUE

\* syncMu is taken.
StartSync ==
    /\ want > 0
    /\ phase = "idle"
    /\ want' = want - 1
    /\ Walk(vfs)
    /\ UNCHANGED <<vfs, idb, persisted, up, sigs, clock, counts, hist>>

\* A request is made, and does what it is to do or fails.
Request(p, rec) ==
    \E ok \in BOOLEAN :
        /\ req' = [path |-> p, ok |-> ok]
        /\ ok \/ fails < MaxFail
        /\ fails' = IF ok THEN fails ELSE fails + 1
        /\ clean' = (clean /\ ok)
        /\ idb' = IF ok THEN [idb EXCEPT ![p] = rec] ELSE idb

Working(ph) == phase = ph /\ req = None

\* The walk's callback: an entry that was removed since is an error to it and
\* is skipped, one whose signature is as it was is left, and any other is put.
Visit(p) ==
    /\ Working("walk") /\ p \in todo
    /\ todo' = todo \ {p}
    /\ IF vfs[p] = None
       THEN UNCHANGED <<next, req, idb, fails, clean>>
       ELSE /\ next' = [next EXCEPT ![p] = sig(vfs[p])]
            /\ IF sigs[p] = sig(vfs[p])
               THEN UNCHANGED <<req, idb, fails, clean>>
               ELSE Request(p, vfs[p])
    /\ UNCHANGED <<vfs, persisted, up, sigs, want, phase, clock, ops, boots, resets, hist>>

\* Mutant of PutAnswered: the failure of a put is not looked at.
PutAnswered_Recorded ==
    /\ phase = "walk" /\ req # None
    /\ req' = None
    /\ UNCHANGED <<vfs, idb, persisted, up, sigs, want, phase, next, todo, clock, counts,
                   clean, hist>>

\* A put that failed is dropped from the snapshot, for the next sync.
PutAnswered ==
    /\ phase = "walk" /\ req # None
    /\ next' = IF req.ok THEN next ELSE [next EXCEPT ![req.path] = None]
    /\ req' = None
    /\ UNCHANGED <<vfs, idb, persisted, up, sigs, want, phase, todo, clock, counts, clean, hist>>

\* What the last snapshot has and this one has not is to be deleted.
WalkDone ==
    /\ Working("walk") /\ todo = {}
    /\ phase' = "delete"
    /\ todo' = {p \in Paths : sigs[p] # None /\ next[p] = None}
    /\ UNCHANGED <<vfs, idb, persisted, up, sigs, want, next, req, clock, counts, clean, hist>>

\* Mutant of Delete: what the walk has found to be gone is deleted at once.
Delete_DuringWalk(p) ==
    /\ \/ Working("delete") /\ p \in todo
       \/ Working("walk") /\ sigs[p] # None /\ vfs[p] = None /\ idb[p] # None
    /\ todo' = todo \ {p}
    /\ Request(p, None)
    /\ UNCHANGED <<vfs, persisted, up, sigs, want, phase, next, clock, ops, boots, resets,
                   hist>>

\* Mutant of Delete: a path that was deleted is still one to delete.
Delete_StaysListed(p) ==
    /\ Working("delete") /\ p \in todo
    /\ Request(p, None)
    /\ UNCHANGED <<vfs, persisted, up, sigs, want, phase, next, todo, clock, ops, boots, resets,
                   hist>>

\* A path is deleted from the store.
Delete(p) ==
    /\ Working("delete") /\ p \in todo
    /\ todo' = todo \ {p}
    /\ Request(p, None)
    /\ UNCHANGED <<vfs, persisted, up, sigs, want, phase, next, clock, ops, boots, resets, hist>>

\* Mutant of DeleteAnswered: the failure of a delete is not looked at.
DeleteAnswered_Forgotten ==
    /\ phase = "delete" /\ req # None
    /\ req' = None
    /\ UNCHANGED <<vfs, idb, persisted, up, sigs, want, phase, next, todo, clock, counts,
                   clean, hist>>

\* A delete that failed stays in the snapshot, for the next sync.
DeleteAnswered ==
    /\ phase = "delete" /\ req # None
    /\ next' = IF req.ok THEN next ELSE [next EXCEPT ![req.path] = sigs[req.path]]
    /\ req' = None
    /\ UNCHANGED <<vfs, idb, persisted, up, sigs, want, phase, todo, clock, counts, clean, hist>>

\* syncFS returns, and syncMu is let go; after the baseline snapshot main goes
\* on to the consoles.
SyncDone ==
    /\ Working("delete") /\ todo = {}
    /\ sigs' = next
    /\ phase' = "idle"
    /\ up' = TRUE
    /\ based' = IF up THEN based ELSE clean
    /\ UNCHANGED <<vfs, idb, persisted, want, next, todo, req, clock, counts, clean, wiped>>

-----------------------------------------------------------------------------
(***************************************************************************)
(* main.                                                                   *)
(***************************************************************************)

Seeded(now) ==
    [p \in Paths |->
        IF Seed[p] = None THEN None
        ELSE [data |-> Seed[p], mtime |-> now, mode |-> DefaultMode]]

\* What the store holds is restored, a directory as one made now; a store with
\* nothing in it is a new one.
loadAll(store, now) ==
    IF Present(store) = {} THEN Seeded(now)
    ELSE [p \in Paths |->
             IF store[p] = None THEN None
             ELSE [store[p] EXCEPT !.mtime = IF store[p].data = Dir THEN now ELSE @]]

\* main with a store that opens, and with none: then nothing is kept.
Boot ==
    \/ /\ persisted' = TRUE
       /\ vfs' = loadAll(idb, clock')
       /\ sigs' = NoSigs
       /\ Walk(vfs')
       /\ up' = FALSE
       /\ UNCHANGED fails
    \/ /\ fails < MaxFail
       /\ fails' = fails + 1
       /\ persisted' = FALSE
       /\ vfs' = Seeded(clock')
       /\ sigs' = NoSigs /\ next' = NoSigs
       /\ phase' = "idle" /\ todo' = {} /\ req' = None
       /\ clean' = FALSE
       /\ up' = TRUE

\* The page is closed, crashes or is loaded again, and is opened again.
Reload ==
    /\ boots < MaxBoots
    /\ boots' = boots + 1
    /\ clock' = clock + 1
    /\ Boot
    /\ want' = 0
    /\ based' = FALSE
    /\ wiped' = FALSE
    /\ UNCHANGED <<idb, ops, resets>>

\* The page is opened for the first time.
Init ==
    /\ clock = 0
    /\ idb = NoSigs
    /\ vfs = Seeded(0)
    /\ persisted = TRUE
    /\ sigs = NoSigs
    /\ phase = "walk" /\ next = NoSigs /\ todo = Present(vfs) /\ req = None
    /\ up = FALSE
    /\ want = 0
    /\ ops = 0 /\ fails = 0 /\ boots = 0 /\ resets = 0
    /\ clean = TRUE /\ based = FALSE /\ wiped = FALSE

SyncStep ==
    \/ StartSync
    \/ \E p \in Paths : Visit(p) \/ Delete(p)
    \/ PutAnswered \/ DeleteAnswered
    \/ WalkDone \/ SyncDone

Next ==
    \/ \E p \in Paths :
          \/ \E d \in Data : WriteFile(p, d)
          \/ \E m \in Modes : Chmod(p, m)
          \/ \E q \in Paths : Rename(p, q)
          \/ Mkdir(p)
          \/ RemoveFile(p)
    \/ ResetFs
    \/ CommandEnds
    \/ SyncStep
    \/ Reload

Spec == Init /\ [][Next]_vars

\* IndexedDB answers, and the goroutine it answers runs.
FairSpec == Spec /\ WF_vars(SyncStep)

-----------------------------------------------------------------------------
(***************************************************************************)
(* Properties.                                                             *)
(***************************************************************************)

\* The type invariant of the page, its store and the sync at work.
TypeOK ==
    /\ vfs \in [Paths -> Entry \cup {None}]
    /\ idb \in [Paths -> Entry \cup {None}]
    /\ sigs \in [Paths -> Sig \cup {None}]
    /\ next \in [Paths -> Sig \cup {None}]
    /\ {persisted, up, clean, based, wiped} \subseteq BOOLEAN
    /\ want \in 0..Consoles /\ Busy <= Consoles
    /\ phase \in {"idle", "walk", "delete"}
    /\ todo \in SUBSET Paths
    /\ req \in Asked \cup {None}
    /\ clock \in Nat
    /\ ops \in 0..MaxOps /\ fails \in 0..MaxFail
    /\ boots \in 0..MaxBoots /\ resets \in 0..MaxResets
    /\ phase = "idle" => req = None

Stored(p, s) == idb[p] # None /\ sig(idb[p]) = s

\* The snapshot says of no path that it is stored in a version that is not,
\* whatever was changed while the walk waited, and whatever failed ("rather
\* than recording a write that never happened").  reset-fs, which does not
\* take syncMu, is the exception until the page is loaded again.
SnapshotTruthful ==
    phase = "idle" /\ ~wiped =>
        \A p \in Paths : sigs[p] # None => Stored(p, sigs[p])

\* Two entries, or none, that hold the same since the same time.
Alike(e, f) == IF None \in {e, f} THEN e = f ELSE e.data = f.data /\ e.mtime = f.mtime

\* A sync in which nothing failed and during which nothing changed leaves the
\* store with exactly the filesystem, whatever went wrong in the syncs before
\* it ("diffed+flushed after every command").  A change of mode alone, which
\* fileSig does not show, and what failed in the baseline snapshot are excepted.
SyncComplete ==
    phase = "idle" /\ clean /\ based /\ ~wiped => \A p \in Paths : Alike(idb[p], vfs[p])

\* A path is deleted from the store only when all there is in the filesystem
\* is stored, what it may have been renamed to included: a page closed in the
\* middle of a sync has one name of it or the other.
MovedIsKept ==
    [][\A p \in Paths :
          idb[p] # None /\ idb'[p] = None /\ clean /\ ~wiped' =>
              \A q \in Paths : vfs[q] # None => Alike(idb[q], vfs[q])]_vars

\* A sync ends, with requests that fail and while others go on changing the
\* filesystem, so that the console has its prompt again and the others syncMu.
SyncReturns == phase # "idle" ~> phase = "idle"

\* Only what was deleted is taken out of the store ("persists new/changed
\* entries, removes deleted ones").
OnlyDeletedRemoved ==
    [][\A p \in Paths : idb[p] # None /\ idb'[p] = None /\ ~wiped' => vfs[p] = None]_vars
=============================================================================
