--------------------------- MODULE CatacombStore ---------------------------
(***************************************************************************)
(* The crash-recoverable component store of t2_catacomb_store.py together  *)
(* with the part of its callers that its recovery relies on: the journaled *)
(* batch plan and the journaled hash of every staged component.            *)
(*                                                                         *)
(* File system assumption: one directory operation is atomic, an fsync     *)
(* makes every earlier operation durable, and after a power loss any       *)
(* combination of the operations made since the last fsync may have        *)
(* survived.  A file's bytes are certain only after its own fsync.  A      *)
(* process exit loses nothing the kernel already holds.                    *)
(***************************************************************************)
EXTENDS Naturals, FiniteSets

CONSTANTS Names,   \* component file names, as numbers in sorted() order
          Values,  \* contents that validate_component accepts
          Absent,  \* no such directory entry
          Torn     \* an entry whose bytes do not decode

ASSUME NamesAssumption == Names \subseteq Nat /\ Names # {}
ASSUME ValuesAssumption == Absent \notin Values /\ Torn \notin Values /\ Absent # Torn

VARIABLES fs,      \* the directory tree as running processes see it
          disk,    \* the trees a power loss may leave
          pc,      \* where the process using the store is
          target,  \* the component the process is working on
          plan,    \* journaled: component names of the batch in flight
          hashes   \* journaled: content hash of each staged component

vars == <<fs, disk, pc, target, plan, hashes>>

TxnDirs == {"prepare", "commit"}
Dirs == TxnDirs \cup {"root"}
Content == Values \cup {Absent, Torn}
Empty == [n \in Names |-> Absent]

Trees == [dirs : SUBSET TxnDirs, file : [Dirs -> [Names -> Content]]]

PCs == {"idle", "mkdir_sync", "staging", "writing", "write_sync",
        "cross_sync", "validate", "forward", "promote", "promote_sync",
        "commit_rmdir_sync", "discard", "discard_sync", "prepare_rmdir",
        "prepare_rmdir_sync", "down"}

\* The types of the variables.
TypeOK == /\ fs \in Trees
          /\ disk \subseteq Trees
          /\ fs \in disk
          /\ pc \in PCs
          /\ target \in Names
          /\ plan \in SUBSET Names
          /\ hashes \in [Names -> Values \cup {Absent}]

-----------------------------------------------------------------------------
(* The directory tree. *)

\* _directory_entries: names present in a transaction directory.
Entries(t, d) == {n \in Names : t.file[d][n] # Absent}

Put(t, d, n, c) == [t EXCEPT !.file[d][n] = c]

MakeDir(t, d) == [t EXCEPT !.dirs = @ \cup {d}]

RemoveDir(t, d) == [t EXCEPT !.dirs = @ \ {d}]

\* os.rename(root/"prepare", root/"commit")
RenamePrepare(t) ==
    [dirs |-> (t.dirs \ {"prepare"}) \cup {"commit"},
     file |-> [t.file EXCEPT !["commit"] = t.file["prepare"], !["prepare"] = Empty]]

\* os.rename(commit/n, root/n)
RenamePromoted(t, n) ==
    [t EXCEPT !.file = [@ EXCEPT !["root"][n] = t.file["commit"][n],
                                 !["commit"][n] = Absent]]

\* A directory operation turns fs into new and a tree t of disk into a tree of
\* after: visible at once, durable or not until the next fsync.
Mutate(new, after) == /\ fs' = new
                      /\ disk' = disk \cup after

\* _sync_directory
Sync(from, to) == /\ pc = from
                  /\ pc' = to
                  /\ disk' = {fs}
                  /\ UNCHANGED <<fs, target, plan, hashes>>

Least(S, n) == n \in S /\ \A m \in S : n <= m

\* The keys of a dictionary of expected hashes: the names journaled as staged.
Keys(expected) == {n \in Names : expected[n] # Absent}

-----------------------------------------------------------------------------
(* Validation against the journal. *)

ValidatePrepare(t, expected) ==
    /\ "prepare" \in t.dirs
    /\ Entries(t, "prepare") = Keys(expected)
    /\ \A n \in Keys(expected) : t.file["prepare"][n] = expected[n]

CommitMatches(t, expected) ==
    /\ Entries(t, "commit") \subseteq Keys(expected)
    /\ \A n \in Keys(expected) :
          expected[n] = IF t.file["commit"][n] # Absent THEN t.file["commit"][n]
                                                        ELSE t.file["root"][n]

\* discard_prepare refuses an unplanned, altered or undecodable entry.
Discardable(t, names, expected) ==
    /\ Entries(t, "prepare") \subseteq names
    /\ \A n \in Entries(t, "prepare") :
          /\ t.file["prepare"][n] # Torn
          /\ expected[n] # Absent => t.file["prepare"][n] = expected[n]

-----------------------------------------------------------------------------
(* The transaction. *)

Init == /\ \E r \in [Names -> Values] :
              fs = [dirs |-> {},
                    file |-> [d \in Dirs |-> IF d = "root" THEN r ELSE Empty]]
        /\ disk = {fs}
        /\ pc = "idle"
        /\ target \in Names
        /\ plan = {}
        /\ hashes = Empty

\* Mutant: prepare/ is opened while the end of the previous transaction is not
\* yet durable.
BeginStageUnsynced == /\ pc = "idle"
                      /\ fs.dirs = {}
                      /\ plan' \in (SUBSET Names) \ {{}}
                      /\ hashes' = Empty
                      /\ Mutate(MakeDir(fs, "prepare"), {MakeDir(t, "prepare") : t \in disk})
                      /\ pc' = "mkdir_sync"
                      /\ UNCHANGED target

\* The caller journals its plan, an fsync of its own, and opens prepare/.
BeginStage == /\ pc = "idle"
              /\ fs.dirs = {}
              /\ plan' \in (SUBSET Names) \ {{}}
              /\ hashes' = Empty
              /\ fs' = MakeDir(fs, "prepare")
              /\ disk' = {fs, fs'}
              /\ pc' = "mkdir_sync"
              /\ UNCHANGED target

BeginStageSync == Sync("mkdir_sync", "staging")

\* Mutant: the staged hash is journaled before the bytes are written.
StageCreateRecorded(n) == /\ pc = "staging"
                          /\ n \in plan
                          /\ n \notin Entries(fs, "prepare")
                          /\ Mutate(Put(fs, "prepare", n, Torn), {Put(t, "prepare", n, Torn) : t \in disk})
                          /\ target' = n
                          /\ hashes' = [hashes EXCEPT ![n] = Torn]
                          /\ pc' = "writing"
                          /\ UNCHANGED plan

\* stage_component: the O_EXCL create, whose bytes are not there yet.
StageCreate(n) == /\ pc = "staging"
                  /\ n \in plan
                  /\ Entries(fs, "prepare") \subseteq plan
                  /\ n \notin Entries(fs, "prepare")
                  /\ Mutate(Put(fs, "prepare", n, Torn), {Put(t, "prepare", n, Torn) : t \in disk})
                  /\ target' = n
                  /\ pc' = "writing"
                  /\ UNCHANGED <<plan, hashes>>

StageWrite(v) == /\ pc = "writing"
                 /\ Mutate(Put(fs, "prepare", target, v), {Put(t, "prepare", target, v) : t \in disk})
                 /\ pc' = "write_sync"
                 /\ UNCHANGED <<target, plan, hashes>>

\* fsync of the file and of prepare/, then the caller's HOST_STAGED record.
StageSync == /\ pc = "write_sync"
             /\ disk' = {fs}
             /\ hashes' = [hashes EXCEPT ![target] = fs.file["prepare"][target]]
             /\ pc' = "staging"
             /\ UNCHANGED <<fs, target, plan>>

\* cross_commit_boundary: the directory rename is the irreversible step.
CrossCommitBoundary == /\ pc = "staging"
                       /\ Keys(hashes) = plan
                       /\ ValidatePrepare(fs, hashes)
                       /\ Mutate(RenamePrepare(fs), {RenamePrepare(t) : t \in disk})
                       /\ pc' = "cross_sync"
                       /\ UNCHANGED <<target, plan, hashes>>

\* Mutant: the boundary is not fsynced before root files are unlinked.
CrossSyncSkipped == /\ pc = "cross_sync"
                    /\ pc' = "validate"
                    /\ UNCHANGED <<fs, disk, target, plan, hashes>>

CrossSync == Sync("cross_sync", "validate")

\* _roll_forward, first part: _validate_commit.
ValidateCommit == /\ pc = "validate"
                  /\ CommitMatches(fs, hashes)
                  /\ pc' = "forward"
                  /\ UNCHANGED <<fs, disk, target, plan, hashes>>

\* Mutant: a root file already unlinked before a crash is an error.
UnlinkRootStrict == \E n \in Names :
                    /\ pc = "forward"
                    /\ Least(Entries(fs, "commit"), n)
                    /\ fs.file["root"][n] \in Values
                    /\ Mutate(Put(fs, "root", n, Absent), {Put(t, "root", n, Absent) : t \in disk})
                    /\ target' = n
                    /\ pc' = "promote"
                    /\ UNCHANGED <<plan, hashes>>

\* The next component in sorted order; its old root file is unlinked.
UnlinkRoot == \E n \in Names :
              /\ pc = "forward"
              /\ Least(Entries(fs, "commit"), n)
              /\ fs.file["root"][n] # Torn
              /\ Mutate(Put(fs, "root", n, Absent), {Put(t, "root", n, Absent) : t \in disk})
              /\ target' = n
              /\ pc' = "promote"
              /\ UNCHANGED <<plan, hashes>>

Promote == /\ pc = "promote"
           /\ Mutate(RenamePromoted(fs, target), {RenamePromoted(t, target) : t \in disk})
           /\ pc' = "promote_sync"
           /\ UNCHANGED <<target, plan, hashes>>

PromoteSync == Sync("promote_sync", "forward")

\* Mutant: commit/ is removed with components still in it.
RemoveCommitEarly == /\ pc = "forward"
                     /\ Mutate(RemoveDir(fs, "commit"), {RemoveDir(t, "commit") : t \in disk})
                     /\ pc' = "commit_rmdir_sync"
                     /\ UNCHANGED <<target, plan, hashes>>

RemoveCommit == /\ pc = "forward"
                /\ Entries(fs, "commit") = {}
                /\ Mutate(RemoveDir(fs, "commit"), {RemoveDir(t, "commit") : t \in disk})
                /\ pc' = "commit_rmdir_sync"
                /\ UNCHANGED <<target, plan, hashes>>

RemoveCommitSync == Sync("commit_rmdir_sync", "idle")

-----------------------------------------------------------------------------
(* Failure and recovery. *)

\* The process dies, or an exception leaves the transaction where it is.
ProcessExit == /\ pc # "down"
               /\ pc' = "down"
               /\ UNCHANGED <<fs, disk, target, plan, hashes>>

PowerLoss == /\ \E t \in disk : fs' = t /\ disk' = {t}
             /\ pc' = "down"
             /\ UNCHANGED <<target, plan, hashes>>

RecoverClean == /\ pc = "down"
                /\ fs.dirs = {}
                /\ pc' = "idle"
                /\ UNCHANGED <<fs, disk, target, plan, hashes>>

\* A recovery owner first journals its intent, an fsync of its own.
RecoveryIntent == pc = "down" /\ disk' = {fs}

\* discard_prepare: everything is validated before anything is unlinked.
RecoverPrepare == /\ RecoveryIntent
                  /\ "prepare" \in fs.dirs
                  /\ Discardable(fs, plan, hashes)
                  /\ pc' = "discard"
                  /\ UNCHANGED <<fs, target, plan, hashes>>

\* discard_empty_prepare: the enrollment owner whose journal already says that
\* no component was staged.
RecoverEmptyPrepare == /\ RecoveryIntent
                       /\ "prepare" \in fs.dirs
                       /\ Keys(hashes) = {}
                       /\ Entries(fs, "prepare") = {}
                       /\ pc' = "prepare_rmdir"
                       /\ UNCHANGED <<fs, target, plan, hashes>>

DiscardUnlink == \E n \in Names :
                 /\ pc = "discard"
                 /\ Least(Entries(fs, "prepare"), n)
                 /\ Mutate(Put(fs, "prepare", n, Absent), {Put(t, "prepare", n, Absent) : t \in disk})
                 /\ UNCHANGED <<pc, target, plan, hashes>>

DiscardSync == /\ Entries(fs, "prepare") = {}
               /\ Sync("discard", "prepare_rmdir")

RemovePrepare == /\ pc = "prepare_rmdir"
                 /\ Mutate(RemoveDir(fs, "prepare"), {RemoveDir(t, "prepare") : t \in disk})
                 /\ pc' = "prepare_rmdir_sync"
                 /\ UNCHANGED <<target, plan, hashes>>

RemovePrepareSync == Sync("prepare_rmdir_sync", "idle")

\* Mutant: recovery discards a transaction that crossed the boundary.
RecoverCommitDiscards == /\ pc = "down"
                         /\ "commit" \in fs.dirs
                         /\ Mutate(RemoveDir(fs, "commit"), {RemoveDir(t, "commit") : t \in disk})
                         /\ pc' = "commit_rmdir_sync"
                         /\ UNCHANGED <<target, plan, hashes>>

RecoverCommit == /\ RecoveryIntent
                 /\ "commit" \in fs.dirs
                 /\ pc' = "validate"
                 /\ UNCHANGED <<fs, target, plan, hashes>>

Stage == \/ BeginStage \/ BeginStageSync
         \/ \E n \in Names : StageCreate(n)
         \/ \E v \in Values : StageWrite(v)
         \/ StageSync

RollForward == \/ ValidateCommit \/ UnlinkRoot \/ Promote \/ PromoteSync
               \/ RemoveCommit \/ RemoveCommitSync

Discard == \/ DiscardUnlink \/ DiscardSync \/ RemovePrepare \/ RemovePrepareSync

Recover == RecoverClean \/ RecoverPrepare \/ RecoverEmptyPrepare \/ RecoverCommit

Next == \/ Stage \/ CrossCommitBoundary \/ CrossSync \/ RollForward
        \/ Recover \/ Discard
        \/ ProcessExit \/ PowerLoss

Spec == Init /\ [][Next]_vars

\* A process at work is scheduled, and the recovery command is run again until
\* it finds nothing left to do.
FairSpec == Spec /\ WF_vars(Stage \/ CrossSync \/ RollForward \/ Recover \/ Discard)

-----------------------------------------------------------------------------
(* Properties. *)

\* The contents a reader obtains once recovery has run on tree t.
Logical(t) ==
    [n \in Names |-> IF "commit" \in t.dirs /\ t.file["commit"][n] # Absent
                     THEN t.file["commit"][n] ELSE t.file["root"][n]]

\* Whatever tree a crash leaves, the whole component set is still there and
\* decodes: _roll_forward's unlink before rename never loses a component, and
\* no torn write ever reaches the root.
NothingLost == \A t \in disk : Logical(t) \in [Names -> Values]

\* A tree with a commit directory always passes _validate_commit, so a
\* transaction past the boundary is never refused by recovery, and it is never
\* mixed with a discardable prepare directory.
CommitRecoverable ==
    \A t \in disk : "commit" \in t.dirs => /\ t.dirs = {"commit"}
                                           /\ CommitMatches(t, hashes)

\* read_committed_components only ever sees a complete root, whichever crash
\* preceded it.
ReadableRootComplete ==
    \A t \in disk : t.dirs = {} => /\ t.file["root"] \in [Names -> Values]
                                   /\ Entries(t, "commit") = {}
                                   /\ Entries(t, "prepare") = {}

\* Once the rename of prepare to commit is durable the old generation never
\* comes back: a commit is undone neither by discard_prepare nor by a crash.
BoundaryIrreversible ==
    (\A t \in disk : "commit" \in t.dirs) => Logical(fs') = Logical(fs)

Crash == ProcessExit \/ PowerLoss

\* If crashes stop, a transaction past the boundary reaches a readable root.
CommitCompletes == <>[][~Crash]_vars => ("commit" \in fs.dirs ~> fs.dirs = {})

\* The store implements batch-atomic replacement.
Atomic == INSTANCE AtomicStore
            WITH value <- Logical(fs), possible <- {Logical(t) : t \in disk}
ImplementsAtomicStore == Atomic!Spec

\* Whatever a crash leaves, no component is lost or torn, and recovery never
\* refuses a crossed transaction (_validate_commit, recover).
StoreSound == TypeOK /\ NothingLost /\ CommitRecoverable

\* What readers of the root rely on: without a transaction directory the root is
\* complete, and once the boundary is crossed nothing takes the new batch back
\* (_roll_forward, recover).
RootHolds == [][ReadableRootComplete' /\ BoundaryIrreversible]_vars
============================================================================
