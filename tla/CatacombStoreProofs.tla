------------------------ MODULE CatacombStoreProofs ------------------------
(***************************************************************************)
(* Proofs about CatacombStore: the type invariant and the crash safety of  *)
(* every tree that a power loss may leave, for any set of components and   *)
(* any component contents.                                                 *)
(***************************************************************************)
EXTENDS CatacombStore, TLAPS

-----------------------------------------------------------------------------
(* The inductive invariant. *)

\* What holds of every tree a crash may leave.
TreeOK(t, expected) ==
    /\ "prepare" \notin t.dirs => t.file["prepare"] = Empty
    /\ "commit" \notin t.dirs => /\ t.file["commit"] = Empty
                                 /\ t.file["root"] \in [Names -> Values]
    /\ "commit" \in t.dirs =>
          /\ "prepare" \notin t.dirs
          /\ CommitMatches(t, expected)
          /\ \A n \in Names : /\ t.file["commit"][n] # Torn
                              /\ t.file["commit"][n] = Absent
                                    => t.file["root"][n] \in Values

\* What the process's position says about the trees.
Staging == {"staging", "writing", "write_sync"}
Forwarding == {"validate", "forward", "promote", "promote_sync"}
Settled == {"staging", "validate", "forward", "prepare_rmdir"}

PositionOK ==
    /\ pc \in {"idle", "commit_rmdir_sync", "prepare_rmdir_sync"} => fs.dirs = {}
    /\ pc = "mkdir_sync" => fs.dirs = {"prepare"}
    /\ pc \in Staging \cup {"discard", "prepare_rmdir"} => \A t \in disk : t.dirs = {"prepare"}
    /\ pc = "cross_sync" => fs.dirs = {"commit"}
    /\ pc \in Forwarding => \A t \in disk : t.dirs = {"commit"}
    /\ pc \in Settled => disk = {fs}
    /\ pc = "prepare_rmdir" => fs.file["prepare"] = Empty
    /\ pc = "write_sync" => fs.file["prepare"][target] \in Values
    /\ pc = "promote" => \A t \in disk : /\ t.file["commit"] = fs.file["commit"]
                                         /\ t.file["commit"][target] # Absent

Inv == TypeOK /\ PositionOK /\ \A t \in disk : TreeOK(t, hashes)

-----------------------------------------------------------------------------
(* The directory operations keep trees well typed. *)

LEMMA PutType ==
    ASSUME NEW t \in Trees, NEW d \in Dirs, NEW n \in Names, NEW c \in Content
    PROVE  /\ Put(t, d, n, c) \in Trees
           /\ Put(t, d, n, c).dirs = t.dirs
           /\ Put(t, d, n, c).file[d] = [t.file[d] EXCEPT ![n] = c]
           /\ \A e \in Dirs \ {d} : Put(t, d, n, c).file[e] = t.file[e]
BY DEF Put, Trees, Dirs, TxnDirs

LEMMA DirType ==
    ASSUME NEW t \in Trees, NEW d \in TxnDirs
    PROVE  /\ MakeDir(t, d) \in Trees
           /\ MakeDir(t, d).dirs = t.dirs \cup {d}
           /\ MakeDir(t, d).file = t.file
           /\ RemoveDir(t, d) \in Trees
           /\ RemoveDir(t, d).dirs = t.dirs \ {d}
           /\ RemoveDir(t, d).file = t.file
BY DEF MakeDir, RemoveDir, Trees

LEMMA RenamePrepareType ==
    ASSUME NEW t \in Trees
    PROVE  /\ RenamePrepare(t) \in Trees
           /\ RenamePrepare(t).dirs = (t.dirs \ {"prepare"}) \cup {"commit"}
           /\ RenamePrepare(t).file["commit"] = t.file["prepare"]
           /\ RenamePrepare(t).file["prepare"] = Empty
           /\ RenamePrepare(t).file["root"] = t.file["root"]
<1>1. Empty \in [Names -> Content]
  BY DEF Empty, Content
<1> QED
  BY <1>1 DEF RenamePrepare, Trees, Dirs, TxnDirs

LEMMA RenamePromotedType ==
    ASSUME NEW t \in Trees, NEW n \in Names
    PROVE  /\ RenamePromoted(t, n) \in Trees
           /\ RenamePromoted(t, n).dirs = t.dirs
           /\ RenamePromoted(t, n).file["commit"] = [t.file["commit"] EXCEPT ![n] = Absent]
           /\ RenamePromoted(t, n).file["root"] = [t.file["root"] EXCEPT ![n] = t.file["commit"][n]]
           /\ RenamePromoted(t, n).file["prepare"] = t.file["prepare"]
BY SMTT(60) DEF RenamePromoted, Trees, Dirs, TxnDirs, Content

-----------------------------------------------------------------------------
(* The invariant is inductive. *)

LEMMA InitInv == Init => Inv
<1> SUFFICES ASSUME Init PROVE Inv
  OBVIOUS
<1>1. PICK r \in [Names -> Values] :
         fs = [dirs |-> {}, file |-> [d \in Dirs |-> IF d = "root" THEN r ELSE Empty]]
  BY DEF Init
<1>2. fs \in Trees
  BY <1>1 DEF Trees, Dirs, TxnDirs, Empty, Content
<1>3. TypeOK
  BY <1>2 DEF Init, TypeOK, PCs, Empty
<1>4. TreeOK(fs, hashes)
  BY <1>1 DEF TreeOK, Dirs, TxnDirs
<1>5. PositionOK
  BY <1>1 DEF Init, PositionOK, Staging, Forwarding, Settled
<1> QED
  BY <1>3, <1>4, <1>5 DEF Inv, Init

LEMMA StageInv == ASSUME Inv, Stage PROVE Inv'
<1> USE DEF Inv
<1>0. fs \in Trees /\ disk \subseteq Trees /\ fs \in disk
  BY DEF TypeOK
<1>1. CASE BeginStage
  <2>1. fs.dirs = {} /\ fs' = MakeDir(fs, "prepare") /\ disk' = {fs, fs'}
    BY <1>1 DEF BeginStage
  <2>2. /\ fs' \in Trees /\ fs'.dirs = {"prepare"} /\ fs'.file = fs.file
    BY <1>0, <2>1, DirType DEF TxnDirs
  <2>3. TypeOK'
    BY <1>1, <2>1, <2>2 DEF BeginStage, TypeOK, PCs, Empty
  <2>4. \A t \in disk' : TreeOK(t, hashes')
    BY <1>0, <2>1, <2>2 DEF TreeOK
  <2>5. PositionOK'
    BY <1>1, <2>2 DEF BeginStage, PositionOK, Staging, Forwarding, Settled
  <2> QED BY <2>3, <2>4, <2>5
<1>2. CASE BeginStageSync
  <2>1. TreeOK(fs, hashes')
    BY <1>0, <1>2 DEF BeginStageSync, Sync
  <2>2. TypeOK'
    BY <1>0, <1>2 DEF BeginStageSync, Sync, TypeOK, PCs
  <2>3. PositionOK'
    BY <1>2 DEF BeginStageSync, Sync, PositionOK, Staging, Forwarding, Settled
  <2> QED BY <1>2, <2>1, <2>2, <2>3 DEF BeginStageSync, Sync
<1>3. ASSUME NEW n \in Names, StageCreate(n) PROVE Inv'
  <2>1. /\ fs' = Put(fs, "prepare", n, Torn)
        /\ disk' = disk \cup {Put(t, "prepare", n, Torn) : t \in disk}
        /\ pc = "staging" /\ pc' = "writing" /\ UNCHANGED <<plan, hashes>> /\ target' = n
    BY <1>3 DEF StageCreate, Mutate
  <2>2. \A t \in disk : /\ t.dirs = {"prepare"}
                        /\ Put(t, "prepare", n, Torn) \in Trees
                        /\ Put(t, "prepare", n, Torn).dirs = {"prepare"}
                        /\ Put(t, "prepare", n, Torn).file["commit"] = t.file["commit"]
                        /\ Put(t, "prepare", n, Torn).file["root"] = t.file["root"]
    <3>1. \A t \in disk : t.dirs = {"prepare"}
      BY <2>1 DEF PositionOK, Staging
    <3>2. ASSUME NEW t \in disk
          PROVE  /\ Put(t, "prepare", n, Torn) \in Trees
                 /\ Put(t, "prepare", n, Torn).dirs = t.dirs
                 /\ Put(t, "prepare", n, Torn).file["commit"] = t.file["commit"]
                 /\ Put(t, "prepare", n, Torn).file["root"] = t.file["root"]
      <4>1. t \in Trees /\ Torn \in Content
        BY <1>0 DEF Content
      <4> QED BY <4>1 DEF Put, Trees, Dirs, TxnDirs
    <3> QED
      BY <3>1, <3>2
  <2>3. TypeOK'
    BY <1>0, <2>1, <2>2 DEF TypeOK, PCs
  <2>4. \A t \in disk' : TreeOK(t, hashes')
    BY <2>1, <2>2 DEF TreeOK
  <2>5. PositionOK'
    BY <2>1, <2>2 DEF PositionOK, Staging, Forwarding, Settled
  <2> QED BY <2>3, <2>4, <2>5
<1>4. ASSUME NEW v \in Values, StageWrite(v) PROVE Inv'
  <2>1. /\ fs' = Put(fs, "prepare", target, v)
        /\ disk' = disk \cup {Put(t, "prepare", target, v) : t \in disk}
        /\ pc = "writing" /\ pc' = "write_sync" /\ UNCHANGED <<target, plan, hashes>>
    BY <1>4 DEF StageWrite, Mutate
  <2>2. \A t \in disk : /\ t.dirs = {"prepare"}
                        /\ Put(t, "prepare", target, v) \in Trees
                        /\ Put(t, "prepare", target, v).dirs = {"prepare"}
                        /\ Put(t, "prepare", target, v).file["prepare"] = [t.file["prepare"] EXCEPT ![target] = v]
                        /\ Put(t, "prepare", target, v).file["commit"] = t.file["commit"]
                        /\ Put(t, "prepare", target, v).file["root"] = t.file["root"]
    BY <1>0, <2>1, PutType DEF PositionOK, Staging, Dirs, TxnDirs, Content, TypeOK
  <2>3. TypeOK'
    BY <1>0, <2>1, <2>2 DEF TypeOK, PCs
  <2>4. \A t \in disk' : TreeOK(t, hashes')
    BY ZenonT(60), <2>1, <2>2 DEF TreeOK
  <2>5. fs'.file["prepare"][target'] = v
    BY ZenonT(60), <1>0, <2>1, <2>2 DEF TypeOK, Trees, Dirs, TxnDirs
  <2>6. PositionOK'
    BY <2>1, <2>2, <2>5 DEF PositionOK, Staging, Forwarding, Settled
  <2> QED BY <2>3, <2>4, <2>6
<1>5. CASE StageSync
  <2>1. fs.dirs = {"prepare"} /\ fs.file["prepare"][target] \in Values
    BY <1>0, <1>5 DEF StageSync, PositionOK, Staging
  <2>2. TreeOK(fs, hashes')
    BY <1>0, <1>5, <2>1 DEF StageSync, TreeOK
  <2>3. TypeOK'
    BY <1>0, <1>5, <2>1 DEF StageSync, TypeOK, PCs
  <2>4. PositionOK'
    BY <1>5, <2>1 DEF StageSync, PositionOK, Staging, Forwarding, Settled
  <2> QED BY <1>5, <2>2, <2>3, <2>4 DEF StageSync
<1> QED
  BY <1>1, <1>2, <1>3, <1>4, <1>5 DEF Stage

LEMMA CrossInv == ASSUME Inv, CrossCommitBoundary \/ CrossSync PROVE Inv'
<1> USE DEF Inv
<1>0. fs \in Trees /\ disk \subseteq Trees /\ fs \in disk
  BY DEF TypeOK
<1>1. CASE CrossCommitBoundary
  <2>1. /\ fs' = RenamePrepare(fs) /\ disk = {fs} /\ disk' = {fs, fs'}
        /\ pc = "staging" /\ pc' = "cross_sync" /\ UNCHANGED <<target, plan, hashes>>
        /\ fs.dirs = {"prepare"}
    BY <1>0, <1>1 DEF CrossCommitBoundary, Mutate, PositionOK, Staging, Settled
  <2>2. /\ fs' \in Trees
        /\ fs'.dirs = {"commit"}
        /\ fs'.file["commit"] = fs.file["prepare"]
        /\ fs'.file["prepare"] = Empty
        /\ fs'.file["root"] = fs.file["root"]
    BY <1>0, <2>1, RenamePrepareType
  <2>3. TypeOK'
    BY <1>0, <2>1, <2>2 DEF TypeOK, PCs
  <2>4. fs.file["root"] \in [Names -> Values]
    BY <1>0, <2>1 DEF TreeOK
  <2>5. /\ {n \in Names : fs.file["prepare"][n] # Absent} = {n \in Names : hashes[n] # Absent}
        /\ \A n \in Names : hashes[n] # Absent => fs.file["prepare"][n] = hashes[n]
    BY <1>1 DEF CrossCommitBoundary, ValidatePrepare, Entries, Keys
  <2>6. \A n \in Names : fs.file["prepare"][n] = hashes[n]
    BY <2>5
  <2>7. CommitMatches(fs', hashes)
    BY <2>1, <2>2, <2>6 DEF CommitMatches, Entries, Keys
  <2>8. TreeOK(fs', hashes')
    BY <2>1, <2>2, <2>4, <2>6, <2>7, ValuesAssumption DEF TreeOK, TypeOK
  <2>9. TreeOK(fs, hashes')
    BY <1>0, <2>1
  <2>10. \A t \in disk' : TreeOK(t, hashes')
    BY <2>1, <2>8, <2>9 DEF TreeOK
  <2>11. PositionOK'
    BY <2>1, <2>2 DEF PositionOK, Staging, Forwarding, Settled
  <2> QED BY <2>3, <2>10, <2>11
<1>2. CASE CrossSync
  <2>1. TreeOK(fs, hashes')
    BY <1>0, <1>2 DEF CrossSync, Sync
  <2>2. TypeOK'
    BY <1>0, <1>2 DEF CrossSync, Sync, TypeOK, PCs
  <2>3. PositionOK'
    BY <1>2 DEF CrossSync, Sync, PositionOK, Staging, Forwarding, Settled
  <2> QED BY <1>2, <2>1, <2>2, <2>3 DEF CrossSync, Sync
<1> QED
  BY <1>1, <1>2

LEMMA RollForwardInv == ASSUME Inv, RollForward PROVE Inv'
<1> USE DEF Inv
<1>0. fs \in Trees /\ disk \subseteq Trees /\ fs \in disk
  BY DEF TypeOK
<1>1. CASE ValidateCommit
  <2>1. \A t \in disk' : TreeOK(t, hashes')
    BY <1>1 DEF ValidateCommit
  <2>2. TypeOK'
    BY <1>1 DEF ValidateCommit, TypeOK, PCs
  <2>3. PositionOK'
    BY <1>1 DEF ValidateCommit, PositionOK, Staging, Forwarding, Settled
  <2> QED BY <2>1, <2>2, <2>3
<1>2. CASE UnlinkRoot
  <2>1. PICK n \in Names :
          /\ n \in Entries(fs, "commit")
          /\ fs' = Put(fs, "root", n, Absent)
          /\ disk' = disk \cup {Put(t, "root", n, Absent) : t \in disk}
          /\ target' = n
    BY <1>2 DEF UnlinkRoot, Mutate, Least
  <2>2. /\ disk = {fs} /\ fs.dirs = {"commit"} /\ disk' = {fs, fs'}
        /\ pc = "forward" /\ pc' = "promote" /\ UNCHANGED <<plan, hashes>>
    BY <1>0, <1>2, <2>1 DEF UnlinkRoot, PositionOK, Forwarding, Settled
  <2>3. /\ fs' \in Trees /\ fs'.dirs = {"commit"}
        /\ fs'.file["root"] = [fs.file["root"] EXCEPT ![n] = Absent]
        /\ fs'.file["commit"] = fs.file["commit"]
        /\ fs'.file["prepare"] = fs.file["prepare"]
    BY <1>0, <2>1, <2>2, PutType DEF Dirs, TxnDirs, Content
  <2>4. TypeOK'
    BY <1>0, <2>1, <2>2, <2>3 DEF TypeOK, PCs
  <2>5. fs.file["commit"][n] # Absent /\ fs.file["root"] \in [Names -> Content]
    BY <1>0, <2>1 DEF Entries, Trees, Dirs
  <2>6. CommitMatches(fs', hashes)
    BY <1>0, <2>1, <2>2, <2>3, <2>5 DEF TreeOK, CommitMatches, Entries, Keys
  <2>7. TreeOK(fs', hashes')
    BY <1>0, <2>1, <2>2, <2>3, <2>5, <2>6 DEF TreeOK
  <2>8. \A t \in disk' : TreeOK(t, hashes')
    <3>1. TreeOK(fs, hashes')
      BY <1>0, <2>2
    <3> QED BY <2>2, <2>7, <3>1 DEF TreeOK
  <2>9. PositionOK'
    BY <2>1, <2>2, <2>3, <2>5 DEF PositionOK, Staging, Forwarding, Settled
  <2> QED BY <2>4, <2>8, <2>9
<1>3. CASE Promote
  <2>1. /\ fs' = RenamePromoted(fs, target)
        /\ disk' = disk \cup {RenamePromoted(t, target) : t \in disk}
        /\ pc = "promote" /\ pc' = "promote_sync" /\ UNCHANGED <<target, plan, hashes>>
    BY <1>3 DEF Promote, Mutate
  <2>2. ASSUME NEW t \in disk
        PROVE  /\ RenamePromoted(t, target) \in Trees
               /\ RenamePromoted(t, target).dirs = {"commit"}
               /\ TreeOK(RenamePromoted(t, target), hashes')
    <3>1. /\ t.dirs = {"commit"} /\ t.file["commit"][target] # Absent
          /\ t.file["commit"] \in [Names -> Content] /\ t.file["root"] \in [Names -> Content]
          /\ target \in Names /\ t \in Trees
      BY <1>0, <2>1 DEF PositionOK, Forwarding, TypeOK, Trees, Dirs
    <3>2. /\ RenamePromoted(t, target) \in Trees
          /\ RenamePromoted(t, target).dirs = {"commit"}
          /\ RenamePromoted(t, target).file["commit"] = [t.file["commit"] EXCEPT ![target] = Absent]
          /\ RenamePromoted(t, target).file["root"] = [t.file["root"] EXCEPT ![target] = t.file["commit"][target]]
          /\ RenamePromoted(t, target).file["prepare"] = t.file["prepare"]
      BY <3>1, RenamePromotedType
    <3>3. TreeOK(t, hashes)
      OBVIOUS
    <3>4. CommitMatches(RenamePromoted(t, target), hashes)
      BY <2>1, <3>1, <3>2, <3>3 DEF TreeOK, CommitMatches, Entries, Keys
    <3>5. \A n \in Names : /\ RenamePromoted(t, target).file["commit"][n] # Torn
                           /\ RenamePromoted(t, target).file["commit"][n] = Absent
                                 => RenamePromoted(t, target).file["root"][n] \in Values
      BY <3>1, <3>2, <3>3, ValuesAssumption DEF TreeOK, Content
    <3>6. t.file["prepare"] = Empty
      BY <3>1, <3>3 DEF TreeOK
    <3> QED
      BY <2>1, <3>2, <3>4, <3>5, <3>6 DEF TreeOK
  <2>3. TypeOK'
    BY <1>0, <2>1, <2>2 DEF TypeOK, PCs
  <2>4. \A t \in disk' : TreeOK(t, hashes')
    BY <2>1, <2>2 DEF TreeOK
  <2>5. PositionOK'
    BY <2>1, <2>2 DEF PositionOK, Staging, Forwarding, Settled
  <2> QED BY <2>3, <2>4, <2>5
<1>4. CASE PromoteSync
  <2>1. TreeOK(fs, hashes')
    BY <1>0, <1>4 DEF PromoteSync, Sync
  <2>2. TypeOK'
    BY <1>0, <1>4 DEF PromoteSync, Sync, TypeOK, PCs
  <2>3. PositionOK'
    BY <1>0, <1>4 DEF PromoteSync, Sync, PositionOK, Staging, Forwarding, Settled
  <2> QED BY <1>4, <2>1, <2>2, <2>3 DEF PromoteSync, Sync
<1>5. CASE RemoveCommit
  <2>1. /\ fs' = RemoveDir(fs, "commit") /\ disk = {fs} /\ disk' = {fs, fs'}
        /\ fs.dirs = {"commit"} /\ pc' = "commit_rmdir_sync" /\ UNCHANGED <<target, plan, hashes>>
        /\ \A n \in Names : fs.file["commit"][n] = Absent
    BY <1>0, <1>5 DEF RemoveCommit, Mutate, PositionOK, Forwarding, Settled, Entries
  <2>2. fs' \in Trees /\ fs'.dirs = {} /\ fs'.file = fs.file
    BY <1>0, <2>1, DirType DEF TxnDirs
  <2>3. TypeOK'
    BY <1>0, <2>1, <2>2 DEF TypeOK, PCs
  <2>4. fs.file["commit"] = Empty /\ fs.file["root"] \in [Names -> Values]
    BY <1>0, <2>1 DEF TreeOK, Trees, Dirs, TxnDirs, Empty
  <2>5. TreeOK(fs', hashes')
    BY <1>0, <2>1, <2>2, <2>4 DEF TreeOK
  <2>6. \A t \in disk' : TreeOK(t, hashes')
    <3>1. TreeOK(fs, hashes')
      BY <1>0, <2>1
    <3> QED BY <2>1, <2>5, <3>1 DEF TreeOK
  <2>7. PositionOK'
    BY <2>1, <2>2 DEF PositionOK, Staging, Forwarding, Settled
  <2> QED BY <2>3, <2>6, <2>7
<1>6. CASE RemoveCommitSync
  <2>1. TreeOK(fs, hashes')
    BY <1>0, <1>6 DEF RemoveCommitSync, Sync
  <2>2. TypeOK'
    BY <1>0, <1>6 DEF RemoveCommitSync, Sync, TypeOK, PCs
  <2>3. PositionOK'
    BY <1>0, <1>6 DEF RemoveCommitSync, Sync, PositionOK, Staging, Forwarding, Settled
  <2> QED BY <1>6, <2>1, <2>2, <2>3 DEF RemoveCommitSync, Sync
<1> QED
  BY <1>1, <1>2, <1>3, <1>4, <1>5, <1>6 DEF RollForward

LEMMA RecoverInv == ASSUME Inv, Recover PROVE Inv'
<1> USE DEF Inv
<1>0. fs \in Trees /\ disk \subseteq Trees /\ fs \in disk
  BY DEF TypeOK
<1>1. CASE RecoverClean
  <2>1. TypeOK'
    BY <1>1 DEF RecoverClean, TypeOK, PCs
  <2>2. PositionOK'
    BY <1>1 DEF RecoverClean, PositionOK, Staging, Forwarding, Settled
  <2> QED BY <1>1, <2>1, <2>2 DEF RecoverClean
<1>2. CASE RecoverPrepare
  <2>1. fs.dirs = {"prepare"}
    BY <1>0, <1>2 DEF RecoverPrepare, TreeOK, Trees, TxnDirs
  <2>2. TypeOK'
    BY <1>0, <1>2 DEF RecoverPrepare, RecoveryIntent, TypeOK, PCs
  <2>3. PositionOK'
    BY <1>2, <2>1 DEF RecoverPrepare, RecoveryIntent, PositionOK, Staging, Forwarding, Settled
  <2> QED BY <1>0, <1>2, <2>2, <2>3 DEF RecoverPrepare, RecoveryIntent
<1>3. CASE RecoverCommit
  <2>1. fs.dirs = {"commit"}
    BY <1>0, <1>3 DEF RecoverCommit, TreeOK, Trees, TxnDirs
  <2>2. TypeOK'
    BY <1>0, <1>3 DEF RecoverCommit, RecoveryIntent, TypeOK, PCs
  <2>3. PositionOK'
    BY <1>3, <2>1 DEF RecoverCommit, RecoveryIntent, PositionOK, Staging, Forwarding, Settled
  <2> QED BY <1>0, <1>3, <2>2, <2>3 DEF RecoverCommit, RecoveryIntent
<1>4. CASE RecoverEmptyPrepare
  <2>1. fs.dirs = {"prepare"}
    BY <1>0, <1>4 DEF RecoverEmptyPrepare, TreeOK, Trees, TxnDirs
  <2>2. fs.file["prepare"] = Empty
    BY <1>0, <1>4 DEF RecoverEmptyPrepare, Entries, Empty, Trees, Dirs, TxnDirs
  <2>3. TypeOK'
    BY <1>0, <1>4 DEF RecoverEmptyPrepare, RecoveryIntent, TypeOK, PCs
  <2>4. PositionOK'
    BY <1>4, <2>1, <2>2
       DEF RecoverEmptyPrepare, RecoveryIntent, PositionOK, Staging, Forwarding, Settled
  <2> QED BY <1>0, <1>4, <2>3, <2>4 DEF RecoverEmptyPrepare, RecoveryIntent
<1> QED
  BY <1>1, <1>2, <1>3, <1>4 DEF Recover

LEMMA DiscardInv == ASSUME Inv, Discard PROVE Inv'
<1> USE DEF Inv
<1>0. fs \in Trees /\ disk \subseteq Trees /\ fs \in disk
  BY DEF TypeOK
<1>1. CASE DiscardUnlink
  <2>1. PICK n \in Names :
          /\ fs' = Put(fs, "prepare", n, Absent)
          /\ disk' = disk \cup {Put(t, "prepare", n, Absent) : t \in disk}
          /\ pc = "discard" /\ UNCHANGED <<pc, target, plan, hashes>>
    BY <1>1 DEF DiscardUnlink, Mutate
  <2>2. \A t \in disk : /\ t.dirs = {"prepare"}
                        /\ Put(t, "prepare", n, Absent) \in Trees
                        /\ Put(t, "prepare", n, Absent).dirs = {"prepare"}
                        /\ Put(t, "prepare", n, Absent).file["commit"] = t.file["commit"]
                        /\ Put(t, "prepare", n, Absent).file["root"] = t.file["root"]
    <3>1. \A t \in disk : t.dirs = {"prepare"}
      BY <2>1 DEF PositionOK
    <3>2. ASSUME NEW t \in disk
          PROVE  /\ Put(t, "prepare", n, Absent) \in Trees
                 /\ Put(t, "prepare", n, Absent).dirs = t.dirs
                 /\ Put(t, "prepare", n, Absent).file["commit"] = t.file["commit"]
                 /\ Put(t, "prepare", n, Absent).file["root"] = t.file["root"]
      <4>1. t \in Trees /\ Absent \in Content
        BY <1>0 DEF Content
      <4> QED BY <4>1 DEF Put, Trees, Dirs, TxnDirs
    <3> QED
      BY <3>1, <3>2
  <2>3. TypeOK'
    BY <1>0, <2>1, <2>2 DEF TypeOK
  <2>4. \A t \in disk' : TreeOK(t, hashes')
    BY <2>1, <2>2 DEF TreeOK
  <2>5. PositionOK'
    BY <2>1, <2>2 DEF PositionOK, Staging, Forwarding, Settled
  <2> QED BY <2>3, <2>4, <2>5
<1>2. CASE DiscardSync
  <2>1. fs.dirs = {"prepare"}
    BY <1>0, <1>2 DEF DiscardSync, Sync, PositionOK
  <2>2. fs.file["prepare"] = Empty
    BY <1>0, <1>2 DEF DiscardSync, Entries, Empty, Trees, Dirs, TxnDirs
  <2>3. TypeOK'
    BY <1>0, <1>2 DEF DiscardSync, Sync, TypeOK, PCs
  <2>4. PositionOK'
    BY <1>2, <2>1, <2>2 DEF DiscardSync, Sync, PositionOK, Staging, Forwarding, Settled
  <2> QED BY <1>0, <1>2, <2>3, <2>4 DEF DiscardSync, Sync
<1>3. CASE RemovePrepare
  <2>1. /\ fs' = RemoveDir(fs, "prepare") /\ disk = {fs} /\ disk' = {fs, fs'}
        /\ fs.dirs = {"prepare"} /\ fs.file["prepare"] = Empty
        /\ pc' = "prepare_rmdir_sync" /\ UNCHANGED <<target, plan, hashes>>
    BY <1>0, <1>3 DEF RemovePrepare, Mutate, PositionOK, Settled
  <2>2. fs' \in Trees /\ fs'.dirs = {} /\ fs'.file = fs.file
    BY <1>0, <2>1, DirType DEF TxnDirs
  <2>3. TypeOK'
    BY <1>0, <2>1, <2>2 DEF TypeOK, PCs
  <2>4. \A t \in disk' : TreeOK(t, hashes')
    BY <1>0, <2>1, <2>2 DEF TreeOK
  <2>5. PositionOK'
    BY <2>1, <2>2 DEF PositionOK, Staging, Forwarding, Settled
  <2> QED BY <2>3, <2>4, <2>5
<1>4. CASE RemovePrepareSync
  <2>1. TypeOK'
    BY <1>0, <1>4 DEF RemovePrepareSync, Sync, TypeOK, PCs
  <2>2. PositionOK'
    BY <1>0, <1>4 DEF RemovePrepareSync, Sync, PositionOK, Staging, Forwarding, Settled
  <2> QED BY <1>0, <1>4, <2>1, <2>2 DEF RemovePrepareSync, Sync
<1> QED
  BY <1>1, <1>2, <1>3, <1>4 DEF Discard

LEMMA CrashInv == ASSUME Inv, Crash PROVE Inv'
<1> USE DEF Inv
<1>1. CASE ProcessExit
  <2>1. TypeOK'
    BY <1>1 DEF ProcessExit, TypeOK, PCs
  <2>2. PositionOK'
    BY <1>1 DEF ProcessExit, PositionOK, Staging, Forwarding, Settled
  <2> QED BY <1>1, <2>1, <2>2 DEF ProcessExit
<1>2. CASE PowerLoss
  <2>1. PICK t \in disk : fs' = t /\ disk' = {t}
    BY <1>2 DEF PowerLoss
  <2>2. TypeOK'
    BY <1>2, <2>1 DEF PowerLoss, TypeOK, PCs
  <2>3. PositionOK'
    BY <1>2 DEF PowerLoss, PositionOK, Staging, Forwarding, Settled
  <2> QED BY <1>2, <2>1, <2>2, <2>3 DEF PowerLoss
<1> QED
  BY <1>1, <1>2 DEF Crash

LEMMA NextInv == Inv /\ [Next]_vars => Inv'
<1> SUFFICES ASSUME Inv, [Next]_vars PROVE Inv'
  OBVIOUS
<1>1. CASE UNCHANGED vars
  BY <1>1 DEF vars, Inv, TypeOK, PositionOK
<1>2. CASE Next
  BY <1>2, StageInv, CrossInv, RollForwardInv, RecoverInv, DiscardInv, CrashInv DEF Next, Crash
<1> QED
  BY <1>1, <1>2

\* The invariant holds in every reachable state.
THEOREM Invariance == Spec => []Inv
<1> QED
  BY InitInv, NextInv, PTL DEF Spec

-----------------------------------------------------------------------------
(* What the invariant gives. *)

\* Every variable keeps its type: in particular the trees a crash may leave are
\* well formed and include the current one.
THEOREM TypeCorrect == Spec => []TypeOK
<1>1. Inv => TypeOK
  BY DEF Inv
<1> QED
  BY <1>1, Invariance, PTL

\* No crash point of stage_component, cross_commit_boundary, _roll_forward or
\* discard_prepare loses a component or leaves a torn one in its place.
THEOREM CrashSafety == Spec => []NothingLost
<1>1. ASSUME Inv PROVE NothingLost
  <2>1. \A t \in disk : t \in Trees /\ TreeOK(t, hashes)
    BY <1>1 DEF Inv, TypeOK
  <2>2. ASSUME NEW t \in disk, NEW n \in Names PROVE Logical(t)[n] \in Values
    <3>1. t.file["commit"][n] \in Content
      BY <2>1 DEF Trees, Dirs, TxnDirs
    <3>2. CASE "commit" \in t.dirs
      BY <2>1, <3>1, <3>2 DEF TreeOK, Logical, Content
    <3>3. CASE "commit" \notin t.dirs
      BY <2>1, <3>3 DEF TreeOK, Logical
    <3> QED
      BY <3>2, <3>3
  <2>3. \A t \in disk : Logical(t) = [n \in Names |-> Logical(t)[n]]
    BY DEF Logical
  <2> QED
    BY <2>2, <2>3 DEF NothingLost
<1> QED
  BY <1>1, Invariance, PTL

\* Recovery never refuses a transaction past the boundary.
THEOREM CommitAlwaysRecoverable == Spec => []CommitRecoverable
<1>1. ASSUME Inv PROVE CommitRecoverable
  BY <1>1 DEF Inv, TypeOK, Trees, TxnDirs, TreeOK, CommitRecoverable
<1> QED
  BY <1>1, Invariance, PTL

\* Every component that was ever committed is whole in every tree a crash may leave, and the
\* recovery that finds a commit directory there accepts it, for any components and values.
THEOREM StoreAlwaysSound == Spec => []StoreSound
BY TypeCorrect, CrashSafety, CommitAlwaysRecoverable, PTL DEF StoreSound

-----------------------------------------------------------------------------
(* The refinement of AtomicStore. *)

\* Logical depends on the commit directory and the root alone.
LEMMA LogicalSame ==
    ASSUME NEW t, NEW u,
           "commit" \in t.dirs <=> "commit" \in u.dirs,
           t.file["commit"] = u.file["commit"], t.file["root"] = u.file["root"]
    PROVE  Logical(t) = Logical(u)
BY DEF Logical

LEMMA LogicalPrepare ==
    ASSUME NEW t \in Trees, NEW n \in Names, NEW c \in Content
    PROVE  /\ Logical(Put(t, "prepare", n, c)) = Logical(t)
           /\ Logical(MakeDir(t, "prepare")) = Logical(t)
           /\ Logical(RemoveDir(t, "prepare")) = Logical(t)
<1>1. Logical(Put(t, "prepare", n, c)) = Logical(t)
  <2>1. /\ Put(t, "prepare", n, c).dirs = t.dirs
        /\ Put(t, "prepare", n, c).file["commit"] = t.file["commit"]
        /\ Put(t, "prepare", n, c).file["root"] = t.file["root"]
    BY DEF Put, Trees, Dirs, TxnDirs
  <2> QED BY <2>1, LogicalSame
<1>2. Logical(MakeDir(t, "prepare")) = Logical(t)
  BY DirType, LogicalSame DEF TxnDirs
<1>3. Logical(RemoveDir(t, "prepare")) = Logical(t)
  BY DirType, LogicalSame DEF TxnDirs
<1> QED BY <1>1, <1>2, <1>3

\* While the batch rolls forward a component is in commit or in the root.
LEMMA LogicalUnlink ==
    ASSUME NEW t \in Trees, NEW n \in Names, "commit" \in t.dirs, t.file["commit"][n] # Absent
    PROVE  Logical(Put(t, "root", n, Absent)) = Logical(t)
<1> DEFINE u == Put(t, "root", n, Absent)
<1>1. /\ u.dirs = t.dirs /\ u.file["commit"] = t.file["commit"]
      /\ \A m \in Names \ {n} : u.file["root"][m] = t.file["root"][m]
  BY DEF Put, Trees, Dirs, TxnDirs
<1> QED BY <1>1 DEF Logical

LEMMA LogicalPromote ==
    ASSUME NEW t \in Trees, NEW n \in Names, "commit" \in t.dirs, t.file["commit"][n] # Absent
    PROVE  Logical(RenamePromoted(t, n)) = Logical(t)
<1> DEFINE u == RenamePromoted(t, n)
<1>1. /\ u.dirs = t.dirs
      /\ u.file["commit"] = [t.file["commit"] EXCEPT ![n] = Absent]
      /\ u.file["root"] = [t.file["root"] EXCEPT ![n] = t.file["commit"][n]]
  BY RenamePromotedType
<1>2. t.file["commit"] \in [Names -> Content] /\ t.file["root"] \in [Names -> Content]
  BY DEF Trees, Dirs
<1> QED BY <1>1, <1>2 DEF Logical

LEMMA LogicalType ==
    ASSUME Inv
    PROVE  \A t \in disk : Logical(t) \in [Names -> Values]
<1>1. \A t \in disk : t \in Trees /\ TreeOK(t, hashes)
  BY DEF Inv, TypeOK
<1>2. ASSUME NEW t \in disk, NEW n \in Names PROVE Logical(t)[n] \in Values
  <2>1. t.file["commit"][n] \in Content
    BY <1>1 DEF Trees, Dirs, TxnDirs
  <2>2. CASE "commit" \in t.dirs
    BY <1>1, <2>1, <2>2 DEF TreeOK, Logical, Content
  <2>3. CASE "commit" \notin t.dirs
    BY <1>1, <2>3 DEF TreeOK, Logical
  <2> QED BY <2>2, <2>3
<1>3. \A t \in disk : Logical(t) = [n \in Names |-> Logical(t)[n]]
  BY DEF Logical
<1> QED BY <1>2, <1>3

possible == {Logical(t) : t \in disk}

\* Every directory operation but the rename of prepare is invisible to readers.
Invisible == Logical(fs') = Logical(fs) /\ possible' = possible

\* An fsync, of the store or of its caller's journal.
Durable == Logical(fs') = Logical(fs) /\ possible' = {Logical(fs)}

LEMMA SyncDurable ==
    ASSUME NEW from, NEW to, Sync(from, to)
    PROVE  Durable
BY DEF Sync, Durable, possible

LEMMA StageStep == ASSUME Inv, Stage PROVE Invisible \/ Durable
<1>0. fs \in Trees /\ disk \subseteq Trees /\ fs \in disk /\ target \in Names
      /\ Torn \in Content /\ Values \subseteq Content
  BY DEF Inv, TypeOK, Content
<1>1. CASE BeginStage
  <2>1. fs' = MakeDir(fs, "prepare") /\ disk' = {fs, fs'}
    BY <1>1 DEF BeginStage
  <2>2. Logical(fs') = Logical(fs)
    BY <1>0, <2>1, LogicalPrepare
  <2> QED BY <2>1, <2>2 DEF Durable, possible
<1>2. CASE BeginStageSync
  BY <1>2, SyncDurable DEF BeginStageSync
<1>3. ASSUME NEW n \in Names, StageCreate(n) PROVE Invisible
  <2>1. /\ fs' = Put(fs, "prepare", n, Torn)
        /\ disk' = disk \cup {Put(t, "prepare", n, Torn) : t \in disk}
    BY <1>3 DEF StageCreate, Mutate
  <2>2. \A t \in disk : Logical(Put(t, "prepare", n, Torn)) = Logical(t)
    BY <1>0, LogicalPrepare
  <2> QED BY <1>0, <2>1, <2>2 DEF Invisible, possible
<1>4. ASSUME NEW v \in Values, StageWrite(v) PROVE Invisible
  <2>1. /\ fs' = Put(fs, "prepare", target, v)
        /\ disk' = disk \cup {Put(t, "prepare", target, v) : t \in disk}
    BY <1>4 DEF StageWrite, Mutate
  <2>2. \A t \in disk : Logical(Put(t, "prepare", target, v)) = Logical(t)
    BY <1>0, LogicalPrepare
  <2> QED BY <1>0, <2>1, <2>2 DEF Invisible, possible
<1>5. CASE StageSync
  BY <1>5 DEF StageSync, Durable, possible
<1> QED BY <1>1, <1>2, <1>3, <1>4, <1>5 DEF Stage

LEMMA RollForwardStep == ASSUME Inv, RollForward PROVE Invisible \/ Durable
<1>0. fs \in Trees /\ disk \subseteq Trees /\ fs \in disk /\ target \in Names
  BY DEF Inv, TypeOK
<1>1. CASE ValidateCommit
  BY <1>1 DEF ValidateCommit, Invisible, possible
<1>2. CASE UnlinkRoot
  <2>1. PICK n \in Names :
          /\ fs.file["commit"][n] # Absent
          /\ fs' = Put(fs, "root", n, Absent)
          /\ disk' = disk \cup {Put(t, "root", n, Absent) : t \in disk}
    BY <1>2 DEF UnlinkRoot, Mutate, Least, Entries
  <2>2. disk = {fs} /\ fs.dirs = {"commit"}
    BY <1>0, <1>2 DEF UnlinkRoot, Inv, PositionOK, Forwarding, Settled
  <2>3. Logical(fs') = Logical(fs)
    BY <1>0, <2>1, <2>2, LogicalUnlink
  <2> QED BY <2>1, <2>2, <2>3 DEF Invisible, possible
<1>3. CASE Promote
  <2>1. /\ fs' = RenamePromoted(fs, target)
        /\ disk' = disk \cup {RenamePromoted(t, target) : t \in disk}
        /\ pc = "promote"
    BY <1>3 DEF Promote, Mutate
  <2>2. \A t \in disk : t.dirs = {"commit"} /\ t.file["commit"][target] # Absent
    BY <2>1 DEF Inv, PositionOK, Forwarding
  <2>3. \A t \in disk : Logical(RenamePromoted(t, target)) = Logical(t)
    BY <1>0, <2>2, LogicalPromote
  <2> QED BY <1>0, <2>1, <2>3 DEF Invisible, possible
<1>4. CASE PromoteSync
  BY <1>4, SyncDurable DEF PromoteSync
<1>5. CASE RemoveCommit
  <2>1. /\ fs' = RemoveDir(fs, "commit") /\ disk = {fs} /\ disk' = {fs, fs'}
        /\ \A n \in Names : fs.file["commit"][n] = Absent
    BY <1>0, <1>5 DEF RemoveCommit, Mutate, Inv, PositionOK, Forwarding, Settled, Entries
  <2>2. fs'.file = fs.file
    BY <1>0, <2>1, DirType DEF TxnDirs
  <2>3. Logical(fs') = Logical(fs)
    BY <2>1, <2>2 DEF Logical
  <2> QED BY <2>1, <2>3 DEF Invisible, possible
<1>6. CASE RemoveCommitSync
  BY <1>6, SyncDurable DEF RemoveCommitSync
<1> QED BY <1>1, <1>2, <1>3, <1>4, <1>5, <1>6 DEF RollForward

LEMMA RecoverStep == ASSUME Inv, Recover PROVE Invisible \/ Durable
BY DEF Recover, RecoverClean, RecoverPrepare, RecoverEmptyPrepare, RecoverCommit,
       RecoveryIntent, Invisible, Durable, possible

LEMMA DiscardStep == ASSUME Inv, Discard PROVE Invisible \/ Durable
<1>0. fs \in Trees /\ disk \subseteq Trees /\ fs \in disk /\ Absent \in Content
  BY DEF Inv, TypeOK, Content
<1>1. CASE DiscardUnlink
  <2>1. PICK n \in Names :
          /\ fs' = Put(fs, "prepare", n, Absent)
          /\ disk' = disk \cup {Put(t, "prepare", n, Absent) : t \in disk}
    BY <1>1 DEF DiscardUnlink, Mutate
  <2>2. \A t \in disk : Logical(Put(t, "prepare", n, Absent)) = Logical(t)
    BY <1>0, LogicalPrepare
  <2> QED BY <1>0, <2>1, <2>2 DEF Invisible, possible
<1>2. CASE DiscardSync
  BY <1>2, SyncDurable DEF DiscardSync
<1>3. CASE RemovePrepare
  <2>1. /\ fs' = RemoveDir(fs, "prepare")
        /\ disk' = disk \cup {RemoveDir(t, "prepare") : t \in disk}
    BY <1>3 DEF RemovePrepare, Mutate
  <2>2. \A t \in disk : Logical(RemoveDir(t, "prepare")) = Logical(t)
    BY <1>0, LogicalPrepare, NamesAssumption
  <2> QED BY <1>0, <2>1, <2>2 DEF Invisible, possible
<1>4. CASE RemovePrepareSync
  BY <1>4, SyncDurable DEF RemovePrepareSync
<1> QED BY <1>1, <1>2, <1>3, <1>4 DEF Discard

\* The rename of prepare to commit replaces the whole batch at once.
LEMMA CrossStep == ASSUME Inv, Inv', CrossCommitBoundary PROVE Atomic!Commit
<1>1. disk = {fs} /\ disk' = {fs, fs'} /\ fs' \in disk'
  BY DEF CrossCommitBoundary, Mutate, Inv, TypeOK, PositionOK, Settled
<1>2. Logical(fs') \in [Names -> Values]
  <2>1. \A t \in disk' : Logical(t) \in [Names -> Values]
    <3>1. (\A t \in disk : Logical(t) \in [Names -> Values])'
      BY LogicalType, PTL
    <3> QED BY <3>1 DEF Logical
  <2> QED BY <1>1, <2>1
<1>3. /\ {Logical(t) : t \in disk} = {Logical(fs)}
      /\ {Logical(t) : t \in disk'} = {Logical(fs), Logical(fs')}
  BY <1>1
<1>4. \E batch \in SUBSET Names : \E new \in [batch -> Values] :
         Logical(fs') = [n \in Names |-> IF n \in batch THEN new[n] ELSE Logical(fs)[n]]
  <2>1. Logical(fs') = [n \in Names |-> IF n \in Names THEN Logical(fs')[n] ELSE Logical(fs)[n]]
    BY <1>2
  <2> QED BY <1>2, <2>1
<1> QED BY <1>3, <1>4 DEF Atomic!Commit

\* An invisible step stutters, an fsync makes the store durable, a rename of
\* prepare commits and a power loss picks one of the possible contents.
LEMMA NextSimulates == Inv /\ Inv' /\ [Next]_vars => [Atomic!Next]_Atomic!vars
<1> SUFFICES ASSUME Inv, Inv', [Next]_vars PROVE [Atomic!Next]_Atomic!vars
  OBVIOUS
<1>1. ASSUME Invisible PROVE UNCHANGED Atomic!vars
  BY <1>1 DEF Invisible, possible, Atomic!vars
<1>2. ASSUME Durable PROVE Atomic!MakeDurable
  BY <1>2 DEF Durable, possible, Atomic!MakeDurable
<1>3. CASE UNCHANGED vars
  BY <1>1, <1>3 DEF vars, Invisible, possible
<1>4. CASE Stage \/ RollForward \/ Recover \/ Discard
  BY <1>1, <1>2, <1>4, StageStep, RollForwardStep, RecoverStep, DiscardStep DEF Atomic!Next
<1>5. CASE CrossCommitBoundary
  BY <1>5, CrossStep DEF Atomic!Next
<1>6. CASE CrossSync
  BY <1>2, <1>6, SyncDurable DEF CrossSync, Atomic!Next
<1>7. CASE ProcessExit
  BY <1>1, <1>7 DEF ProcessExit, Invisible, possible
<1>8. CASE PowerLoss
  <2>1. PICK t \in disk : fs' = t /\ disk' = {t}
    BY <1>8 DEF PowerLoss
  <2>2. Logical(fs') \in {Logical(u) : u \in disk}
    BY <2>1
  <2>3. {Logical(u) : u \in disk'} = {Logical(fs')}
    BY <2>1
  <2> QED BY <2>2, <2>3 DEF Atomic!PowerLoss, Atomic!Next
<1> QED BY <1>3, <1>4, <1>5, <1>6, <1>7, <1>8 DEF Next

\* The store implements batch-atomic replacement whatever its components hold:
\* readers see a whole batch or none of it through every step and every crash
\* (cross_commit_boundary, _roll_forward, discard_prepare, recover).
THEOREM Refinement == Spec => ImplementsAtomicStore
<1>1. Init => Atomic!Init
  <2> SUFFICES ASSUME Init PROVE Atomic!Init
    OBVIOUS
  <2>1. disk = {fs}
    BY DEF Init
  <2>2. Logical(fs) \in [Names -> Values]
    BY <2>1, InitInv, LogicalType
  <2> QED BY <2>1, <2>2 DEF Atomic!Init
<1> QED
  BY <1>1, Invariance, NextSimulates, PTL DEF Spec, ImplementsAtomicStore, Atomic!Spec

-----------------------------------------------------------------------------
(* The root, and the boundary. *)

\* A component outside the batch has the same root file in every tree a crash may
\* leave: only a component that commit holds is ever unlinked from the root.
RootsAgree ==
    \A t \in disk : \A n \in Names \ Keys(hashes) : t.file["root"][n] = fs.file["root"][n]

LEMMA RootsAgreeInductive == Inv /\ Inv' /\ RootsAgree /\ [Next]_vars => RootsAgree'
<1> SUFFICES ASSUME Inv, Inv', RootsAgree, [Next]_vars PROVE RootsAgree'
  OBVIOUS
<1>0. fs \in Trees /\ disk \subseteq Trees /\ fs \in disk /\ target \in Names
      /\ Absent \in Content /\ Torn \in Content /\ Values \subseteq Content
  BY DEF Inv, TypeOK, Content
<1>1. ASSUME disk' = {fs'} PROVE RootsAgree'
  BY <1>1 DEF RootsAgree
<1>2. ASSUME UNCHANGED hashes, fs'.file["root"] = fs.file["root"],
             \A t \in disk' : \E u \in disk : t.file["root"] = u.file["root"]
      PROVE  RootsAgree'
  BY <1>2 DEF RootsAgree, Keys
<1>3. ASSUME NEW n \in Names, NEW c \in Content, UNCHANGED hashes,
             fs' = Put(fs, "prepare", n, c),
             disk' = disk \cup {Put(t, "prepare", n, c) : t \in disk}
      PROVE  RootsAgree'
  <2>1. \A t \in disk : Put(t, "prepare", n, c).file["root"] = t.file["root"]
    BY <1>0 DEF Put, Trees, Dirs, TxnDirs
  <2> QED BY <1>0, <1>2, <1>3, <2>1
<1>4. CASE UNCHANGED vars
  BY <1>4 DEF vars, RootsAgree, Keys
<1>5. CASE Stage
  <2>1. CASE BeginStage
    <3>1. fs' = MakeDir(fs, "prepare") /\ disk' = {fs, fs'}
      BY <2>1 DEF BeginStage
    <3>2. fs'.file = fs.file
      BY <1>0, <3>1, DirType DEF TxnDirs
    <3> QED BY <3>1, <3>2 DEF RootsAgree
  <2>2. CASE BeginStageSync
    BY <1>1, <2>2 DEF BeginStageSync, Sync
  <2>3. ASSUME NEW n \in Names, StageCreate(n) PROVE RootsAgree'
    BY <1>0, <1>3, <2>3 DEF StageCreate, Mutate
  <2>4. ASSUME NEW v \in Values, StageWrite(v) PROVE RootsAgree'
    BY <1>0, <1>3, <2>4 DEF StageWrite, Mutate
  <2>5. CASE StageSync
    BY <1>1, <2>5 DEF StageSync
  <2> QED BY <1>5, <2>1, <2>2, <2>3, <2>4, <2>5 DEF Stage
<1>6. CASE CrossCommitBoundary \/ CrossSync
  <2>1. CASE CrossCommitBoundary
    <3>1. fs' = RenamePrepare(fs) /\ disk = {fs} /\ disk' = {fs, fs'} /\ UNCHANGED hashes
      BY <1>0, <2>1 DEF CrossCommitBoundary, Mutate, Inv, PositionOK, Settled
    <3>2. fs'.file["root"] = fs.file["root"]
      BY <1>0, <3>1, RenamePrepareType
    <3> QED BY <1>2, <3>1, <3>2
  <2>2. CASE CrossSync
    BY <1>1, <2>2 DEF CrossSync, Sync
  <2> QED BY <1>6, <2>1, <2>2
<1>7. CASE RollForward
  <2>1. CASE ValidateCommit
    BY <2>1 DEF ValidateCommit, RootsAgree, Keys
  <2>2. CASE UnlinkRoot
    <3>1. PICK n \in Names :
            /\ fs.file["commit"][n] # Absent
            /\ fs' = Put(fs, "root", n, Absent)
            /\ disk' = disk \cup {Put(t, "root", n, Absent) : t \in disk}
      BY <2>2 DEF UnlinkRoot, Mutate, Least, Entries
    <3>2. disk = {fs} /\ disk' = {fs, fs'} /\ fs.dirs = {"commit"} /\ UNCHANGED hashes
      BY <1>0, <2>2, <3>1 DEF UnlinkRoot, Inv, PositionOK, Forwarding, Settled
    <3>3. n \in Keys(hashes)
      BY <1>0, <3>1, <3>2 DEF Inv, TreeOK, CommitMatches, Entries
    <3>4. \A m \in Names \ {n} : fs'.file["root"][m] = fs.file["root"][m]
      BY <1>0, <3>1 DEF Put, Trees, Dirs, TxnDirs
    <3> QED BY <3>2, <3>3, <3>4 DEF RootsAgree, Keys
  <2>3. CASE Promote
    <3>1. /\ fs' = RenamePromoted(fs, target)
          /\ disk' = disk \cup {RenamePromoted(t, target) : t \in disk}
          /\ pc = "promote" /\ UNCHANGED hashes
      BY <2>3 DEF Promote, Mutate
    <3>2. target \in Keys(hashes)
      BY <1>0, <3>1 DEF Inv, PositionOK, Forwarding, TreeOK, CommitMatches, Entries
    <3>3. ASSUME NEW t \in disk
          PROVE  \A m \in Names \ {target} :
                    RenamePromoted(t, target).file["root"][m] = t.file["root"][m]
      <4>1. /\ RenamePromoted(t, target).file["root"]
                  = [t.file["root"] EXCEPT ![target] = t.file["commit"][target]]
            /\ t.file["root"] \in [Names -> Content]
        <5>1. t \in Trees /\ target \in Names
          BY <1>0
        <5>2. RenamePromoted(t, target).file["root"]
                 = [t.file["root"] EXCEPT ![target] = t.file["commit"][target]]
          BY <5>1, RenamePromotedType
        <5> QED BY <5>1, <5>2 DEF Trees, Dirs
      <4> QED BY <4>1
    <3> QED BY <1>0, <3>1, <3>2, <3>3 DEF RootsAgree, Keys
  <2>4. CASE PromoteSync \/ RemoveCommitSync
    BY <1>1, <2>4 DEF PromoteSync, RemoveCommitSync, Sync
  <2>5. CASE RemoveCommit
    <3>1. /\ fs' = RemoveDir(fs, "commit") /\ UNCHANGED hashes
          /\ disk' = disk \cup {RemoveDir(t, "commit") : t \in disk}
      BY <2>5 DEF RemoveCommit, Mutate
    <3>2. \A t \in disk : RemoveDir(t, "commit").file = t.file
      BY <1>0, DirType DEF TxnDirs
    <3> QED BY <1>0, <1>2, <3>1, <3>2
  <2> QED BY <1>7, <2>1, <2>2, <2>3, <2>4, <2>5 DEF RollForward
<1>8. CASE Recover
  BY <1>8 DEF Recover, RecoverClean, RecoverPrepare, RecoverEmptyPrepare, RecoverCommit,
              RecoveryIntent, RootsAgree, Keys
<1>9. CASE Discard
  <2>1. CASE DiscardUnlink
    BY <1>0, <1>3, <2>1 DEF DiscardUnlink, Mutate
  <2>2. CASE DiscardSync \/ RemovePrepareSync
    BY <1>1, <2>2 DEF DiscardSync, RemovePrepareSync, Sync
  <2>3. CASE RemovePrepare
    <3>1. /\ fs' = RemoveDir(fs, "prepare") /\ UNCHANGED hashes
          /\ disk' = disk \cup {RemoveDir(t, "prepare") : t \in disk}
      BY <2>3 DEF RemovePrepare, Mutate
    <3>2. \A t \in disk : RemoveDir(t, "prepare").file = t.file
      BY <1>0, DirType DEF TxnDirs
    <3> QED BY <1>0, <1>2, <3>1, <3>2
  <2> QED BY <1>9, <2>1, <2>2, <2>3 DEF Discard
<1>10. CASE ProcessExit \/ PowerLoss
  BY <1>1, <1>10 DEF ProcessExit, PowerLoss, RootsAgree, Keys
<1> QED BY <1>4, <1>5, <1>6, <1>7, <1>8, <1>9, <1>10 DEF Next

\* No unlink, rename or sync of a transaction touches the root file of a component
\* outside its batch, in the tree in use or in one a power loss may leave.
THEOREM RootsAlwaysAgree == Spec => []RootsAgree
<1>1. Init => RootsAgree
  BY DEF Init, RootsAgree
<1> QED BY <1>1, Invariance, RootsAgreeInductive, PTL DEF Spec

\* Two trees of a batch that crossed the boundary hold the same contents: the
\* journaled hashes fix the batch and the root fixes the rest.
LEMMA CommitFixesContents ==
    ASSUME Inv, RootsAgree, NEW t \in disk,
           \A u \in disk : "commit" \in u.dirs
    PROVE  Logical(t) = Logical(fs)
<1>1. fs \in disk /\ TreeOK(fs, hashes) /\ TreeOK(t, hashes)
  BY DEF Inv, TypeOK
<1>2. ASSUME NEW n \in Names PROVE Logical(t)[n] = Logical(fs)[n]
  <2>1. CASE n \in Keys(hashes)
    BY <1>1, <2>1 DEF TreeOK, CommitMatches, Logical
  <2>2. CASE n \notin Keys(hashes)
    BY <1>1, <2>2 DEF TreeOK, CommitMatches, Entries, Logical, RootsAgree
  <2> QED BY <2>1, <2>2
<1> QED BY <1>2 DEF Logical

LEMMA BoundaryStep ==
    Inv /\ Inv' /\ RootsAgree /\ [Next]_vars => BoundaryIrreversible
<1> SUFFICES ASSUME Inv, Inv', RootsAgree, [Next]_vars,
                    \A t \in disk : "commit" \in t.dirs
             PROVE  Logical(fs') = Logical(fs)
  BY DEF BoundaryIrreversible
<1>1. CASE UNCHANGED vars
  BY <1>1 DEF vars
<1>2. CASE Stage \/ RollForward \/ Recover \/ Discard
  BY <1>2, StageStep, RollForwardStep, RecoverStep, DiscardStep DEF Invisible, Durable
<1>3. CASE CrossCommitBoundary
  <2>1. "prepare" \in fs.dirs /\ fs \in disk
    BY <1>3 DEF CrossCommitBoundary, ValidatePrepare, Inv, TypeOK
  <2> QED BY <2>1 DEF Inv, TreeOK
<1>4. CASE CrossSync \/ ProcessExit
  BY <1>4 DEF CrossSync, Sync, ProcessExit
<1>5. CASE PowerLoss
  BY <1>5, CommitFixesContents DEF PowerLoss
<1> QED BY <1>1, <1>2, <1>3, <1>4, <1>5 DEF Next

\* A root without a transaction directory is complete after every step, and no
\* step and no crash undoes a batch whose boundary is durable (_roll_forward,
\* recover, read_committed_components).
THEOREM RootAlwaysHolds == Spec => RootHolds
<1>1. Inv => ReadableRootComplete
  <2> SUFFICES ASSUME Inv, NEW t \in disk, t.dirs = {}
               PROVE  /\ t.file["root"] \in [Names -> Values]
                      /\ Entries(t, "commit") = {} /\ Entries(t, "prepare") = {}
    BY DEF ReadableRootComplete
  <2>1. TreeOK(t, hashes)
    BY DEF Inv
  <2> QED BY <2>1 DEF TreeOK, Entries, Empty
<1> QED
  BY <1>1, Invariance, RootsAlwaysAgree, BoundaryStep, PTL DEF Spec, RootHolds
=============================================================================
