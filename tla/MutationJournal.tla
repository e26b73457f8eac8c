-------------------------- MODULE MutationJournal --------------------------
(***************************************************************************)
(* One append-only mutation journal of t2_mutation_journal.py, shared by   *)
(* processes that read it, validate the history they read and append to    *)
(* it under flock, while processes die and the machine loses power.        *)
(*                                                                         *)
(* A record carries its identity (its hash), the hash of its predecessor   *)
(* and, for the properties only, the head its writer had validated.        *)
(* Record contents are the business of the typed journals.                 *)
(***************************************************************************)
EXTENDS Naturals, Sequences, SequencesExt

CONSTANTS Procs,       \* processes that use the journal
          NoProc,      \* nobody holds the exclusive lock
          MaxRecords   \* bound on the records ever written

ASSUME BoundAssumption == MaxRecords \in Nat
ASSUME ProcAssumption == NoProc \notin Procs

VARIABLES exists,  \* the file has a directory entry
          file,    \* complete, newline-terminated records
          torn,    \* bytes of an incomplete record follow them
          synced,  \* how many records fdatasync has made durable
          linked,  \* the directory entry is durable
          dirty,   \* bytes were written or truncated since the last fdatasync
          lock,    \* holder of LOCK_EX
          pc, view, goal,
          written, \* records written so far: the source of fresh hashes
          acked    \* the history that durable appends have returned on

vars == <<exists, file, torn, synced, linked, dirty, lock, pc, view, goal, written, acked>>
disk == <<exists, file, torn, synced, linked, dirty>>
local == <<pc, view, goal>>

Head0 == 0
HeadOf(s) == IF s = <<>> THEN Head0 ELSE s[Len(s)].hash
Record == [hash : 1..MaxRecords, prev : 0..MaxRecords, repair : BOOLEAN, basis : 0..MaxRecords]

PCs == {"down", "idle", "create", "viewed", "want_lock", "locked", "truncated",
        "repair_written", "writing", "written"}

\* The types of the variables.
TypeOK == /\ {exists, torn, linked, dirty} \subseteq BOOLEAN
          /\ file \in Seq(Record) /\ Len(file) <= MaxRecords
          /\ synced \in 0..Len(file)
          /\ lock \in Procs \cup {NoProc}
          /\ pc \in [Procs -> PCs]
          /\ view \in [Procs -> Seq(Record)]
          /\ goal \in [Procs -> {"none", "read", "append", "create"}]
          /\ written \in 0..MaxRecords
          /\ acked \in Seq(Record)

Init == /\ exists = FALSE /\ file = <<>> /\ torn = FALSE
        /\ synced = 0 /\ linked = FALSE /\ dirty = FALSE
        /\ lock = NoProc
        /\ pc = [p \in Procs |-> "idle"]
        /\ view = [p \in Procs |-> <<>>]
        /\ goal = [p \in Procs |-> "none"]
        /\ written = 0
        /\ acked = <<>>

Goto(p, to) == pc' = [pc EXCEPT ![p] = to]

\* os.close drops the lock with the descriptor.
Return(p) == /\ Goto(p, "idle")
             /\ lock' = NoProc
             /\ goal' = [goal EXCEPT ![p] = "none"]

-----------------------------------------------------------------------------
(* create: an exclusive open, then the baseline record. *)

Create(p) == /\ pc[p] = "idle"
             /\ ~exists
             /\ exists' = TRUE
             /\ view' = [view EXCEPT ![p] = <<>>]
             /\ goal' = [goal EXCEPT ![p] = "create"]
             /\ Goto(p, "want_lock")
             /\ UNCHANGED <<file, torn, synced, linked, dirty, lock, written, acked>>

-----------------------------------------------------------------------------
(* read: a shared lock for as long as it takes to read the bytes. *)

\* An empty file validates as an empty history, which no typed reader accepts.
ReadClean(p) == /\ pc[p] = "idle"
                /\ exists /\ lock = NoProc /\ ~torn
                /\ file # <<>>
                /\ view' = [view EXCEPT ![p] = file]
                /\ Goto(p, "viewed")
                /\ UNCHANGED <<disk, lock, goal, written, acked>>

\* The tail is torn: the shared lock is dropped and the repair reopens.
ReadTorn(p) == /\ pc[p] = "idle"
               /\ exists /\ lock = NoProc /\ torn
               /\ goal' = [goal EXCEPT ![p] = "read"]
               /\ Goto(p, "want_lock")
               /\ UNCHANGED <<disk, lock, view, written, acked>>

\* A typed journal has validated the history it read and asks to append.
StartAppend(p) == /\ pc[p] = "viewed"
                  /\ goal' = [goal EXCEPT ![p] = "append"]
                  /\ Goto(p, "want_lock")
                  /\ UNCHANGED <<disk, lock, view, written, acked>>

\* A reader that has no more business with what it read.
Leave(p) == /\ pc[p] = "viewed"
            /\ Goto(p, "idle")
            /\ UNCHANGED <<disk, lock, view, goal, written, acked>>

-----------------------------------------------------------------------------
(* Under the exclusive lock. *)

Acquire(p) == /\ pc[p] = "want_lock"
              /\ lock = NoProc
              /\ lock' = p
              /\ Goto(p, "locked")
              /\ UNCHANGED <<disk, view, goal, written, acked>>

\* Mutant: the loader never repairs.
LoadFailsAlways(p) == /\ pc[p] = "locked"
                      /\ torn
                      /\ Return(p)
                      /\ UNCHANGED <<disk, view, written, acked>>

\* _load_records refuses a torn file without one complete record.
LoadFails(p) == /\ pc[p] = "locked"
                /\ torn /\ file = <<>>
                /\ Return(p)
                /\ UNCHANGED <<disk, view, written, acked>>

\* Mutant: the truncation also cuts the last complete record.
TruncateTooMuch(p) == /\ pc[p] = "locked"
                      /\ torn /\ file # <<>>
                      /\ torn' = FALSE
                      /\ dirty' = TRUE
                      /\ file' = Front(file)
                      /\ synced' = IF synced > Len(file') THEN Len(file') ELSE synced
                      /\ Goto(p, "truncated")
                      /\ UNCHANGED <<exists, linked, lock, view, goal, written, acked>>

\* _repair_torn_tail: ftruncate, one TORN_TAIL_TRUNCATED record, fdatasync.
Truncate(p) == /\ pc[p] = "locked"
               /\ torn /\ file # <<>>
               /\ torn' = FALSE
               /\ dirty' = TRUE
               /\ Goto(p, "truncated")
               /\ UNCHANGED <<exists, file, synced, linked, lock, view, goal, written, acked>>

\* Mutant: the chain is extended from the head the process last read.
NewRecordFromView(p, repair) ==
    [hash |-> written + 1, prev |-> HeadOf(view[p]), repair |-> repair,
     basis |-> IF repair THEN HeadOf(file) ELSE HeadOf(view[p])]

NewRecord(p, repair) ==
    [hash |-> written + 1, prev |-> HeadOf(file), repair |-> repair,
     basis |-> IF repair THEN HeadOf(file) ELSE HeadOf(view[p])]

\* The bytes of a record are on their way; the last of them is the newline.
PartialWrite(p) == /\ pc[p] \in {"truncated", "writing"}
                   /\ ~torn
                   /\ written < MaxRecords
                   /\ torn' = TRUE
                   /\ dirty' = TRUE
                   /\ UNCHANGED <<exists, file, synced, linked, lock, local, written, acked>>

CompleteWrite(p) == /\ pc[p] \in {"truncated", "writing"}
                    /\ torn
                    /\ torn' = FALSE
                    /\ file' = Append(file, NewRecord(p, pc[p] = "truncated"))
                    /\ written' = written + 1
                    /\ Goto(p, IF pc[p] = "truncated" THEN "repair_written" ELSE "written")
                    /\ UNCHANGED <<exists, synced, linked, dirty, lock, view, goal, acked>>

\* Mutant: one record too many is counted as durable.
RepairSyncOffByOne(p) == /\ pc[p] = "repair_written"
                         /\ synced' = Len(file) + 1
                         /\ dirty' = FALSE
                         /\ Goto(p, "locked")
                         /\ UNCHANGED <<exists, file, torn, linked, lock, view, goal, written, acked>>

RepairSync(p) == /\ pc[p] = "repair_written"
                 /\ synced' = Len(file)
                 /\ dirty' = FALSE
                 /\ Goto(p, "locked")
                 /\ UNCHANGED <<exists, file, torn, linked, lock, view, goal, written, acked>>

\* The repairing reader returns what it repaired.
ReadRepaired(p) == /\ pc[p] = "locked" /\ goal[p] = "read"
                   /\ ~torn
                   /\ Goto(p, "viewed")
                   /\ view' = [view EXCEPT ![p] = file]
                   /\ lock' = NoProc
                   /\ goal' = [goal EXCEPT ![p] = "none"]
                   /\ UNCHANGED <<disk, written, acked>>

\* The expected record count and head hash of a guarded append.
GuardHolds(p) == /\ Len(file) = Len(view[p])
                 /\ HeadOf(file) = HeadOf(view[p])

\* Mutant: the append is not guarded by the history it was validated against.
AppendBeginsUnguarded(p) == /\ pc[p] = "locked" /\ goal[p] \in {"append", "create"}
                            /\ ~torn
                            /\ written < MaxRecords
                            /\ Goto(p, "writing")
                            /\ UNCHANGED <<disk, lock, view, goal, written, acked>>

\* create appends without a guard, but only to the file it made.
AppendBegins(p) == /\ pc[p] = "locked" /\ goal[p] \in {"append", "create"}
                   /\ ~torn
                   /\ goal[p] = "append" => GuardHolds(p)
                   /\ written < MaxRecords
                   /\ Goto(p, "writing")
                   /\ UNCHANGED <<disk, lock, view, goal, written, acked>>

AppendRefused(p) == /\ pc[p] = "locked" /\ goal[p] = "append"
                    /\ ~torn
                    /\ ~GuardHolds(p)
                    /\ Return(p)
                    /\ UNCHANGED <<disk, view, written, acked>>

\* Mutant: the append returns before fdatasync.
AppendDurableEarly(p) == /\ pc[p] = "written"
                         /\ linked' = TRUE
                         /\ acked' = file
                         /\ Return(p)
                         /\ UNCHANGED <<exists, file, torn, synced, dirty, view, written>>

\* fdatasync and the directory fsync, then the append returns.
AppendDurable(p) == /\ pc[p] = "written"
                    /\ synced' = Len(file)
                    /\ dirty' = FALSE
                    /\ linked' = TRUE
                    /\ acked' = file
                    /\ Return(p)
                    /\ UNCHANGED <<exists, file, torn, view, written>>

\* durable=False: the append returns with the record in the page cache.
AppendBuffered(p) == /\ pc[p] = "written" /\ goal[p] = "append"
                     /\ Return(p)
                     /\ UNCHANGED <<disk, view, written, acked>>

-----------------------------------------------------------------------------
(* Failures. *)

\* A process dies; the kernel keeps what it wrote and drops its lock.
ProcessExit(p) == /\ pc[p] \notin {"down", "idle"}
                  /\ Goto(p, "down")
                  /\ goal' = [goal EXCEPT ![p] = "none"]
                  /\ lock' = IF lock = p THEN NoProc ELSE lock
                  /\ UNCHANGED <<disk, view, written, acked>>

\* Unsynced records survive in order or not at all, and the first one lost may
\* leave some of its bytes.
PowerLoss == /\ \/ \E k \in synced..Len(file) :
                      /\ file' = SubSeq(file, 1, k)
                      /\ synced' = k
                      /\ torn' \in {b \in BOOLEAN : b => dirty}
                      /\ UNCHANGED exists
                \/ /\ ~linked
                   /\ exists' = FALSE /\ file' = <<>> /\ synced' = 0 /\ torn' = FALSE
             /\ linked' = exists'
             /\ dirty' = FALSE
             /\ lock' = NoProc
             /\ pc' = [p \in Procs |-> "down"]
             /\ goal' = [p \in Procs |-> "none"]
             /\ UNCHANGED <<view, written, acked>>

\* Another process takes the place of the dead one.
Start(p) == /\ pc[p] = "down"
            /\ Goto(p, "idle")
            /\ UNCHANGED <<disk, lock, view, goal, written, acked>>

Progress(p) == \/ Acquire(p) \/ LoadFails(p) \/ Truncate(p) \/ PartialWrite(p)
               \/ CompleteWrite(p) \/ RepairSync(p) \/ ReadRepaired(p)
               \/ AppendBegins(p) \/ AppendRefused(p) \/ AppendDurable(p)

Next == \/ \E p \in Procs : \/ Create(p) \/ ReadClean(p) \/ ReadTorn(p)
                            \/ StartAppend(p) \/ Leave(p)
                            \/ Progress(p) \/ AppendBuffered(p)
                            \/ Start(p) \/ ProcessExit(p)
        \/ PowerLoss

Spec == Init /\ [][Next]_vars

\* Processes holding or awaiting the lock are scheduled, and somebody comes
\* back to read a journal that was left torn.
FairSpec == /\ Spec
            /\ \A p \in Procs : WF_vars(Progress(p))
            /\ \A p \in Procs : WF_vars(Start(p)) /\ WF_vars(ReadTorn(p))

-----------------------------------------------------------------------------
(* Properties. *)

Predecessor(i) == IF i = 1 THEN Head0 ELSE file[i - 1].hash

\* However processes and crashes interleave, the complete lines of the file
\* form one hash chain, so validate_records accepts them.
ChainIntact == \A i \in 1..Len(file) : file[i].prev = Predecessor(i)

\* Every record directly follows the history its writer validated: no process
\* appends to a journal that moved between its read and its append, not even by
\* another process's repair record.
NoStaleAppend ==
    \A i \in 1..Len(file) : ~file[i].repair => file[i].basis = Predecessor(i)

\* What a durable append has returned on is never lost, neither to a power loss
\* nor to the repair of a torn tail.
AckedSurvives == IsPrefix(acked, file)

\* The history a running process has read stays the beginning of the file.
ViewStaysPrefix ==
    \A p \in Procs : pc[p] \notin {"down", "idle"} => IsPrefix(view[p], file) \/ goal[p] = "read"

Failure == PowerLoss \/ \E p \in Procs : ProcessExit(p)

\* When failures stop, a torn tail behind at least one record is repaired (as
\* far as the bound on records allows, and unless a power loss before that took
\* the last record with it).
RepairCompletes ==
    <>[][~Failure]_vars =>
        ((torn /\ file # <<>>) ~> (~torn \/ file = <<>> \/ written = MaxRecords))

\* The journal is one well-formed history, and every running process holds the
\* beginning of it (validate_records, read).
HistorySound == TypeOK /\ ChainIntact /\ ViewStaysPrefix

\* A record is appended to the history it was validated against, and stays once
\* it was acknowledged (append, _repair_torn_tail).
RecordsHold == NoStaleAppend /\ AckedSurvives
============================================================================
