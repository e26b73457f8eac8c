----------------------- MODULE MutationJournalProofs -----------------------
(***************************************************************************)
(* Proofs about MutationJournal: the hash chain, the guard against stale   *)
(* appends and the durability of acknowledged records, for any number of   *)
(* processes and any bound on the records written.  And about the commands *)
(* of InventoryChanges that go by such journals: a saved template is never *)
(* lost, and a prune takes only what another system deleted.               *)
(***************************************************************************)
EXTENDS MutationJournal, InventoryChanges, TLAPS

-----------------------------------------------------------------------------
(* The inductive invariant. *)

Resting == {"down", "idle"}

\* Positions reached only with the exclusive lock.
Held == {"locked", "truncated", "repair_written", "writing", "written"}

\* p made the file and has not yet put its baseline record into it.
Creating(p) == goal[p] = "create" /\ pc[p] \in {"want_lock", "locked", "writing"}

\* What the position of a process says about the journal and its own view.
ProcessOK(p) ==
    /\ pc[p] \in Held => lock = p
    /\ pc[p] \notin Resting => exists
    /\ pc[p] \in Resting \cup {"viewed"} => goal[p] = "none"
    /\ pc[p] \in {"want_lock", "locked"} => goal[p] # "none"
    /\ pc[p] \in {"truncated", "repair_written"} => goal[p] \in {"read", "append"} /\ file # <<>>
    /\ pc[p] \in {"writing", "written"} => goal[p] \in {"append", "create"}
    /\ pc[p] \in {"truncated", "writing"} /\ torn => written < MaxRecords
    /\ pc[p] = "viewed" \/ goal[p] = "append" => view[p] # <<>>
    /\ pc[p] \notin Resting /\ goal[p] = "read" => torn \/ file # <<>>
    /\ Creating(p) => file = <<>> /\ view[p] = <<>>
    /\ pc[p] = "writing" /\ goal[p] = "append" => HeadOf(view[p]) = HeadOf(file)
    /\ pc[p] \notin Resting => IsPrefix(view[p], file) \/ goal[p] = "read"

\* O_EXCL lets one process at a time be the creator.
OneCreator == \A p, q \in Procs : Creating(p) /\ Creating(q) => p = q

\* What was acknowledged is behind the synced mark of a linked file.
DurableOK == /\ IsPrefix(acked, file)
             /\ Len(acked) <= synced
             /\ acked # <<>> => linked
             /\ linked => exists
             /\ ~exists => file = <<>>

Inv == /\ TypeOK
       /\ Len(file) <= written
       /\ \A p \in Procs : ProcessOK(p)
       /\ OneCreator
       /\ ChainIntact
       /\ NoStaleAppend
       /\ DurableOK

-----------------------------------------------------------------------------
(* Sequences. *)

\* IsPrefix, element by element.
LEMMA PrefixElements ==
    ASSUME NEW s \in Seq(Record), NEW t \in Seq(Record)
    PROVE  IsPrefix(s, t) <=> /\ Len(s) <= Len(t)
                              /\ \A i \in 1..Len(s) : s[i] = t[i]
BY DEF IsPrefix

LEMMA PrefixRefl ==
    ASSUME NEW s \in Seq(Record)
    PROVE  IsPrefix(s, s)
BY PrefixElements

LEMMA PrefixEmpty ==
    ASSUME NEW s \in Seq(Record), NEW e \in Seq(Record), Len(e) = 0
    PROVE  IsPrefix(e, s)
<1>1. Len(e) <= Len(s) /\ \A i \in 1..Len(e) : e[i] = s[i]
  OBVIOUS
<1> QED BY <1>1, PrefixElements

LEMMA PrefixAppend ==
    ASSUME NEW s \in Seq(Record), NEW t \in Seq(Record), NEW r \in Record, IsPrefix(s, t)
    PROVE  IsPrefix(s, Append(t, r))
<1>1. /\ Append(t, r) \in Seq(Record)
      /\ Len(Append(t, r)) = Len(t) + 1
      /\ \A i \in 1..Len(t) : Append(t, r)[i] = t[i]
  OBVIOUS
<1>2. Len(s) <= Len(t) /\ \A i \in 1..Len(s) : s[i] = t[i]
  BY PrefixElements
<1>3. Len(s) \in Nat /\ Len(t) \in Nat
  OBVIOUS
<1>4. Len(s) <= Len(t) + 1 /\ \A i \in 1..Len(s) : s[i] = Append(t, r)[i]
  BY <1>1, <1>2, <1>3
<1> QED BY <1>1, <1>4, PrefixElements

LEMMA PrefixSubSeq ==
    ASSUME NEW s \in Seq(Record), NEW t \in Seq(Record), NEW k \in Len(s)..Len(t), IsPrefix(s, t)
    PROVE  IsPrefix(s, SubSeq(t, 1, k))
<1>1. /\ SubSeq(t, 1, k) \in Seq(Record)
      /\ Len(SubSeq(t, 1, k)) = k
      /\ \A i \in 1..k : SubSeq(t, 1, k)[i] = t[i]
  OBVIOUS
<1>2. Len(s) <= Len(t) /\ \A i \in 1..Len(s) : s[i] = t[i]
  BY PrefixElements
<1>3. Len(s) \in Nat /\ Len(t) \in Nat
  OBVIOUS
<1>4. Len(s) <= k /\ \A i \in 1..Len(s) : s[i] = SubSeq(t, 1, k)[i]
  BY <1>1, <1>2, <1>3
<1> QED BY <1>1, <1>4, PrefixElements

LEMMA HeadType ==
    ASSUME NEW s \in Seq(Record)
    PROVE  HeadOf(s) \in 0..MaxRecords
<1>1. CASE s = <<>>
  BY <1>1, BoundAssumption DEF HeadOf, Head0
<1>2. CASE s # <<>>
  <2>1. Len(s) \in 1..Len(s)
    BY <1>2
  <2>2. s[Len(s)] \in Record
    BY <2>1
  <2>3. s[Len(s)].hash \in 1..MaxRecords
    BY <2>2 DEF Record
  <2> QED BY <1>2, <2>3 DEF HeadOf
<1> QED BY <1>1, <1>2

-----------------------------------------------------------------------------
(* The invariant is inductive. *)

LEMMA InitInv == Init => Inv
<1> SUFFICES ASSUME Init PROVE Inv
  OBVIOUS
<1>0. file = <<>> /\ acked = <<>> /\ file \in Seq(Record) /\ acked \in Seq(Record)
      /\ Len(file) = 0 /\ Len(acked) = 0
  BY DEF Init
<1>1. TypeOK
  <2>1. view \in [Procs -> Seq(Record)]
    BY <1>0 DEF Init
  <2>2. {exists, torn, linked, dirty} \subseteq BOOLEAN
    BY Zenon DEF Init
  <2> QED BY <1>0, <2>1, <2>2, BoundAssumption DEF Init, TypeOK, PCs
<1>2. \A p \in Procs : ProcessOK(p)
  BY DEF Init, ProcessOK, Resting, Held, Creating
<1>3. OneCreator /\ ChainIntact /\ NoStaleAppend
  BY <1>0 DEF Init, OneCreator, Creating, ChainIntact, NoStaleAppend
<1>4. DurableOK
  <2>1. file \in Seq(Record) /\ acked \in Seq(Record) /\ Len(acked) = 0
    BY <1>0
  <2>2. IsPrefix(acked, file)
    BY <2>1, PrefixEmpty
  <2> QED BY <1>0, <2>2 DEF Init, DurableOK
<1> QED
  BY <1>0, <1>1, <1>2, <1>3, <1>4 DEF Init, Inv

\* A step of p that leaves the records alone says nothing new about q, unless it
\* takes the lock or the torn bytes from under q.
LEMMA OthersKept ==
    ASSUME Inv, NEW q \in Procs,
           pc'[q] = pc[q], view'[q] = view[q], goal'[q] = goal[q],
           file' = file, written' = written, exists => exists',
           lock = q => lock' = lock /\ torn' = torn,
           torn => torn' \/ file # <<>>
    PROVE  ProcessOK(q)'
BY DEF Inv, ProcessOK, TypeOK, Resting, Held, Creating, HeadOf

LEMMA RecordsKept ==
    ASSUME ChainIntact, NoStaleAppend, file' = file
    PROVE  ChainIntact' /\ NoStaleAppend'
BY DEF ChainIntact, NoStaleAppend, Predecessor

LEMMA CreateInv == ASSUME Inv, NEW p \in Procs, Create(p) PROVE Inv'
<1> USE DEF Inv, Create, Goto, Return, disk, local
<1>0. file = <<>> /\ \A q \in Procs : ~Creating(q)
  BY DEF DurableOK, ProcessOK, Resting, Creating
<1>1. TypeOK'
  BY DEF TypeOK, PCs
<1>2. ASSUME NEW q \in Procs PROVE ProcessOK(q)'
  <2>1. CASE q = p
    <3>1. view'[p] \in Seq(Record) /\ file' \in Seq(Record) /\ Len(view'[p]) = 0
      BY DEF TypeOK
    <3>2. IsPrefix(view'[p], file')
      BY <3>1, PrefixEmpty
    <3> QED BY <1>0, <2>1, <3>2 DEF ProcessOK, TypeOK, Resting, Held, Creating
  <2>2. CASE q # p
    BY <2>2, OthersKept, ProcAssumption DEF TypeOK
  <2> QED BY <2>1, <2>2
<1>3. OneCreator'
  BY <1>0 DEF OneCreator, TypeOK, Creating
<1>4. ChainIntact' /\ NoStaleAppend'
  BY RecordsKept
<1>5. DurableOK'
  BY DEF DurableOK
<1> QED BY <1>1, <1>2, <1>3, <1>4, <1>5

LEMMA ReadCleanInv == ASSUME Inv, NEW p \in Procs, ReadClean(p) PROVE Inv'
<1> USE DEF Inv, ReadClean, Goto, Return, disk, local
<1>1. TypeOK'
  BY DEF TypeOK, PCs
<1>2. ASSUME NEW q \in Procs PROVE ProcessOK(q)'
  <2>1. CASE q = p
    <3>1. view'[p] = file /\ file' = file /\ file \in Seq(Record)
      BY DEF TypeOK
    <3>2. IsPrefix(view'[p], file')
      BY <3>1, PrefixRefl
    <3> QED BY <2>1, <3>1, <3>2 DEF ProcessOK, TypeOK, Resting, Held, Creating
  <2>2. CASE q # p
    BY <2>2, OthersKept, ProcAssumption DEF TypeOK
  <2> QED BY <2>1, <2>2
<1>3. OneCreator'
  BY DEF OneCreator, ProcessOK, TypeOK, Creating
<1>4. ChainIntact' /\ NoStaleAppend'
  BY RecordsKept
<1>5. DurableOK'
  BY DEF DurableOK
<1> QED BY <1>1, <1>2, <1>3, <1>4, <1>5

LEMMA ReadTornInv == ASSUME Inv, NEW p \in Procs, ReadTorn(p) PROVE Inv'
<1> USE DEF Inv, ReadTorn, Goto, Return, disk, local
<1>1. TypeOK'
  BY DEF TypeOK, PCs
<1>2. ASSUME NEW q \in Procs PROVE ProcessOK(q)'
  <2>1. CASE q = p
    BY <2>1 DEF ProcessOK, TypeOK, Resting, Held, Creating, HeadOf
  <2>2. CASE q # p
    BY <2>2, OthersKept, ProcAssumption DEF TypeOK
  <2> QED BY <2>1, <2>2
<1>3. OneCreator'
  BY DEF OneCreator, ProcessOK, TypeOK, Creating
<1>4. ChainIntact' /\ NoStaleAppend'
  BY RecordsKept
<1>5. DurableOK'
  BY DEF DurableOK
<1> QED BY <1>1, <1>2, <1>3, <1>4, <1>5

LEMMA StartAppendInv == ASSUME Inv, NEW p \in Procs, StartAppend(p) PROVE Inv'
<1> USE DEF Inv, StartAppend, Goto, Return, disk, local
<1>1. TypeOK'
  BY DEF TypeOK, PCs
<1>2. ASSUME NEW q \in Procs PROVE ProcessOK(q)'
  <2>1. CASE q = p
    BY <2>1 DEF ProcessOK, TypeOK, Resting, Held, Creating, HeadOf
  <2>2. CASE q # p
    BY <2>2, OthersKept, ProcAssumption DEF TypeOK
  <2> QED BY <2>1, <2>2
<1>3. OneCreator'
  BY DEF OneCreator, ProcessOK, TypeOK, Creating
<1>4. ChainIntact' /\ NoStaleAppend'
  BY RecordsKept
<1>5. DurableOK'
  BY DEF DurableOK
<1> QED BY <1>1, <1>2, <1>3, <1>4, <1>5

LEMMA LeaveInv == ASSUME Inv, NEW p \in Procs, Leave(p) PROVE Inv'
<1> USE DEF Inv, Leave, Goto, Return, disk, local
<1>1. TypeOK'
  BY DEF TypeOK, PCs
<1>2. ASSUME NEW q \in Procs PROVE ProcessOK(q)'
  <2>1. CASE q = p
    BY <2>1 DEF ProcessOK, TypeOK, Resting, Held, Creating, HeadOf
  <2>2. CASE q # p
    BY <2>2, OthersKept, ProcAssumption DEF TypeOK
  <2> QED BY <2>1, <2>2
<1>3. OneCreator'
  BY DEF OneCreator, ProcessOK, TypeOK, Creating
<1>4. ChainIntact' /\ NoStaleAppend'
  BY RecordsKept
<1>5. DurableOK'
  BY DEF DurableOK
<1> QED BY <1>1, <1>2, <1>3, <1>4, <1>5

LEMMA AcquireInv == ASSUME Inv, NEW p \in Procs, Acquire(p) PROVE Inv'
<1> USE DEF Inv, Acquire, Goto, Return, disk, local
<1>1. TypeOK'
  BY DEF TypeOK, PCs
<1>2. ASSUME NEW q \in Procs PROVE ProcessOK(q)'
  <2>1. CASE q = p
    BY <2>1 DEF ProcessOK, TypeOK, Resting, Held, Creating, HeadOf
  <2>2. CASE q # p
    BY <2>2, OthersKept, ProcAssumption DEF TypeOK
  <2> QED BY <2>1, <2>2
<1>3. OneCreator'
  BY DEF OneCreator, ProcessOK, TypeOK, Creating
<1>4. ChainIntact' /\ NoStaleAppend'
  BY RecordsKept
<1>5. DurableOK'
  BY DEF DurableOK
<1> QED BY <1>1, <1>2, <1>3, <1>4, <1>5

LEMMA LoadFailsInv == ASSUME Inv, NEW p \in Procs, LoadFails(p) PROVE Inv'
<1> USE DEF Inv, LoadFails, Goto, Return, disk, local
<1>0. lock = p
  BY DEF ProcessOK, Held
<1>1. TypeOK'
  BY DEF TypeOK, PCs
<1>2. ASSUME NEW q \in Procs PROVE ProcessOK(q)'
  <2>1. CASE q = p
    BY <2>1 DEF ProcessOK, TypeOK, Resting, Held, Creating, HeadOf
  <2>2. CASE q # p
    BY <1>0, <2>2, OthersKept DEF TypeOK
  <2> QED BY <2>1, <2>2
<1>3. OneCreator'
  BY DEF OneCreator, ProcessOK, TypeOK, Creating
<1>4. ChainIntact' /\ NoStaleAppend'
  BY RecordsKept
<1>5. DurableOK'
  BY DEF DurableOK
<1> QED BY <1>1, <1>2, <1>3, <1>4, <1>5

LEMMA TruncateInv == ASSUME Inv, NEW p \in Procs, Truncate(p) PROVE Inv'
<1> USE DEF Inv, Truncate, Goto, Return, disk, local
<1>0. lock = p
  BY DEF ProcessOK, Held
<1>1. TypeOK'
  BY DEF TypeOK, PCs
<1>2. ASSUME NEW q \in Procs PROVE ProcessOK(q)'
  <2>1. CASE q = p
    BY <2>1 DEF ProcessOK, TypeOK, Resting, Held, Creating, HeadOf
  <2>2. CASE q # p
    BY <1>0, <2>2, OthersKept DEF TypeOK
  <2> QED BY <2>1, <2>2
<1>3. OneCreator'
  BY DEF OneCreator, ProcessOK, TypeOK, Creating
<1>4. ChainIntact' /\ NoStaleAppend'
  BY RecordsKept
<1>5. DurableOK'
  BY DEF DurableOK
<1> QED BY <1>1, <1>2, <1>3, <1>4, <1>5

LEMMA PartialWriteInv == ASSUME Inv, NEW p \in Procs, PartialWrite(p) PROVE Inv'
<1> USE DEF Inv, PartialWrite, Goto, Return, disk, local
<1>0. lock = p
  BY DEF ProcessOK, Held
<1>1. TypeOK'
  BY DEF TypeOK, PCs
<1>2. ASSUME NEW q \in Procs PROVE ProcessOK(q)'
  <2>1. CASE q = p
    BY <2>1 DEF ProcessOK, TypeOK, Resting, Held, Creating, HeadOf
  <2>2. CASE q # p
    BY <1>0, <2>2, OthersKept DEF TypeOK
  <2> QED BY <2>1, <2>2
<1>3. OneCreator'
  BY DEF OneCreator, ProcessOK, TypeOK, Creating
<1>4. ChainIntact' /\ NoStaleAppend'
  BY RecordsKept
<1>5. DurableOK'
  BY DEF DurableOK
<1> QED BY <1>1, <1>2, <1>3, <1>4, <1>5

LEMMA RepairSyncInv == ASSUME Inv, NEW p \in Procs, RepairSync(p) PROVE Inv'
<1> USE DEF Inv, RepairSync, Goto, Return, disk, local
<1>1. TypeOK'
  <2>1. {exists, torn, linked, dirty}' \subseteq BOOLEAN
    BY Zenon DEF TypeOK
  <2>2. synced' \in 0..Len(file)
    BY DEF TypeOK
  <2> QED BY <2>1, <2>2 DEF TypeOK, PCs
<1>2. ASSUME NEW q \in Procs PROVE ProcessOK(q)'
  <2>1. CASE q = p
    BY <2>1 DEF ProcessOK, TypeOK, Resting, Held, Creating, HeadOf
  <2>2. CASE q # p
    BY <2>2, OthersKept, ProcAssumption DEF TypeOK
  <2> QED BY <2>1, <2>2
<1>3. OneCreator'
  BY DEF OneCreator, ProcessOK, TypeOK, Creating
<1>4. ChainIntact' /\ NoStaleAppend'
  BY RecordsKept
<1>5. DurableOK'
  <2>1. Len(acked) <= Len(file)
    BY PrefixElements DEF TypeOK, DurableOK
  <2> QED BY <2>1 DEF DurableOK
<1> QED BY <1>1, <1>2, <1>3, <1>4, <1>5

LEMMA ReadRepairedInv == ASSUME Inv, NEW p \in Procs, ReadRepaired(p) PROVE Inv'
<1> USE DEF Inv, ReadRepaired, Goto, Return, disk, local
<1>0. lock = p
  BY DEF ProcessOK, Held
<1>1. TypeOK'
  BY DEF TypeOK, PCs
<1>2. ASSUME NEW q \in Procs PROVE ProcessOK(q)'
  <2>1. CASE q = p
    <3>1. view'[p] = file /\ file' = file /\ file \in Seq(Record)
      BY DEF TypeOK
    <3>2. IsPrefix(view'[p], file')
      BY <3>1, PrefixRefl
    <3> QED BY <2>1, <3>1, <3>2 DEF ProcessOK, TypeOK, Resting, Held, Creating
  <2>2. CASE q # p
    BY <1>0, <2>2, OthersKept DEF TypeOK
  <2> QED BY <2>1, <2>2
<1>3. OneCreator'
  BY DEF OneCreator, ProcessOK, TypeOK, Creating
<1>4. ChainIntact' /\ NoStaleAppend'
  BY RecordsKept
<1>5. DurableOK'
  BY DEF DurableOK
<1> QED BY <1>1, <1>2, <1>3, <1>4, <1>5

LEMMA AppendBeginsInv == ASSUME Inv, NEW p \in Procs, AppendBegins(p) PROVE Inv'
<1> USE DEF Inv, AppendBegins, Goto, Return, disk, local
<1>1. TypeOK'
  BY DEF TypeOK, PCs
<1>2. ASSUME NEW q \in Procs PROVE ProcessOK(q)'
  <2>1. CASE q = p
    BY <2>1 DEF ProcessOK, TypeOK, Resting, Held, Creating, GuardHolds
  <2>2. CASE q # p
    BY <2>2, OthersKept, ProcAssumption DEF TypeOK
  <2> QED BY <2>1, <2>2
<1>3. OneCreator'
  BY DEF OneCreator, ProcessOK, TypeOK, Creating
<1>4. ChainIntact' /\ NoStaleAppend'
  BY RecordsKept
<1>5. DurableOK'
  BY DEF DurableOK
<1> QED BY <1>1, <1>2, <1>3, <1>4, <1>5

LEMMA AppendRefusedInv == ASSUME Inv, NEW p \in Procs, AppendRefused(p) PROVE Inv'
<1> USE DEF Inv, AppendRefused, Goto, Return, disk, local
<1>0. lock = p
  BY DEF ProcessOK, Held
<1>1. TypeOK'
  BY DEF TypeOK, PCs
<1>2. ASSUME NEW q \in Procs PROVE ProcessOK(q)'
  <2>1. CASE q = p
    BY <2>1 DEF ProcessOK, TypeOK, Resting, Held, Creating, HeadOf
  <2>2. CASE q # p
    BY <1>0, <2>2, OthersKept DEF TypeOK
  <2> QED BY <2>1, <2>2
<1>3. OneCreator'
  BY DEF OneCreator, ProcessOK, TypeOK, Creating
<1>4. ChainIntact' /\ NoStaleAppend'
  BY RecordsKept
<1>5. DurableOK'
  BY DEF DurableOK
<1> QED BY <1>1, <1>2, <1>3, <1>4, <1>5

LEMMA AppendDurableInv == ASSUME Inv, NEW p \in Procs, AppendDurable(p) PROVE Inv'
<1> USE DEF Inv, AppendDurable, Goto, Return, disk, local
<1>0. lock = p
  BY DEF ProcessOK, Held
<1>1. TypeOK'
  <2>1. {exists, torn, linked, dirty}' \subseteq BOOLEAN
    BY Zenon DEF TypeOK
  <2>2. synced' \in 0..Len(file)
    BY DEF TypeOK
  <2> QED BY <2>1, <2>2 DEF TypeOK, PCs
<1>2. ASSUME NEW q \in Procs PROVE ProcessOK(q)'
  <2>1. CASE q = p
    BY <2>1 DEF ProcessOK, TypeOK, Resting, Held, Creating, HeadOf
  <2>2. CASE q # p
    BY <1>0, <2>2, OthersKept DEF TypeOK
  <2> QED BY <2>1, <2>2
<1>3. OneCreator'
  BY DEF OneCreator, ProcessOK, TypeOK, Creating
<1>4. ChainIntact' /\ NoStaleAppend'
  BY RecordsKept
<1>5. DurableOK'
  <2>1. IsPrefix(file, file) /\ Len(file) <= Len(file)
    BY PrefixRefl DEF TypeOK
  <2>2. exists
    BY DEF ProcessOK, Resting
  <2> QED BY <2>1, <2>2 DEF DurableOK
<1> QED BY <1>1, <1>2, <1>3, <1>4, <1>5

LEMMA AppendBufferedInv == ASSUME Inv, NEW p \in Procs, AppendBuffered(p) PROVE Inv'
<1> USE DEF Inv, AppendBuffered, Goto, Return, disk, local
<1>0. lock = p
  BY DEF ProcessOK, Held
<1>1. TypeOK'
  BY DEF TypeOK, PCs
<1>2. ASSUME NEW q \in Procs PROVE ProcessOK(q)'
  <2>1. CASE q = p
    BY <2>1 DEF ProcessOK, TypeOK, Resting, Held, Creating, HeadOf
  <2>2. CASE q # p
    BY <1>0, <2>2, OthersKept DEF TypeOK
  <2> QED BY <2>1, <2>2
<1>3. OneCreator'
  BY DEF OneCreator, ProcessOK, TypeOK, Creating
<1>4. ChainIntact' /\ NoStaleAppend'
  BY RecordsKept
<1>5. DurableOK'
  BY DEF DurableOK
<1> QED BY <1>1, <1>2, <1>3, <1>4, <1>5

LEMMA StartInv == ASSUME Inv, NEW p \in Procs, Start(p) PROVE Inv'
<1> USE DEF Inv, Start, Goto, Return, disk, local
<1>1. TypeOK'
  BY DEF TypeOK, PCs
<1>2. ASSUME NEW q \in Procs PROVE ProcessOK(q)'
  <2>1. CASE q = p
    BY <2>1 DEF ProcessOK, TypeOK, Resting, Held, Creating, HeadOf
  <2>2. CASE q # p
    BY <2>2, OthersKept, ProcAssumption DEF TypeOK
  <2> QED BY <2>1, <2>2
<1>3. OneCreator'
  BY DEF OneCreator, ProcessOK, TypeOK, Creating
<1>4. ChainIntact' /\ NoStaleAppend'
  BY RecordsKept
<1>5. DurableOK'
  BY DEF DurableOK
<1> QED BY <1>1, <1>2, <1>3, <1>4, <1>5

LEMMA ProcessExitInv == ASSUME Inv, NEW p \in Procs, ProcessExit(p) PROVE Inv'
<1> USE DEF Inv, ProcessExit, Goto, Return, disk, local
<1>1. TypeOK'
  BY DEF TypeOK, PCs
<1>2. ASSUME NEW q \in Procs PROVE ProcessOK(q)'
  <2>1. CASE q = p
    BY <2>1 DEF ProcessOK, TypeOK, Resting, Held, Creating, HeadOf
  <2>2. CASE q # p
    BY <2>2, OthersKept, ProcAssumption DEF TypeOK
  <2> QED BY <2>1, <2>2
<1>3. OneCreator'
  BY DEF OneCreator, ProcessOK, TypeOK, Creating
<1>4. ChainIntact' /\ NoStaleAppend'
  BY RecordsKept
<1>5. DurableOK'
  BY DEF DurableOK
<1> QED BY <1>1, <1>2, <1>3, <1>4, <1>5

\* The one step that adds a record: it extends the chain at its end, from the
\* head its writer had validated unless it repairs.
LEMMA CompleteWriteInv == ASSUME Inv, NEW p \in Procs, CompleteWrite(p) PROVE Inv'
<1> DEFINE rec == NewRecord(p, pc[p] = "truncated")
<1> USE DEF Inv
<1>1. /\ pc[p] \in {"truncated", "writing"} /\ torn /\ torn' = FALSE
      /\ file' = Append(file, rec) /\ written' = written + 1 /\ written < MaxRecords
      /\ pc' = [pc EXCEPT ![p] = IF pc[p] = "truncated" THEN "repair_written" ELSE "written"]
      /\ UNCHANGED <<exists, synced, linked, dirty, lock, view, goal, acked>>
  BY DEF CompleteWrite, Goto, ProcessOK
<1>2. /\ lock = p /\ exists /\ file \in Seq(Record) /\ Len(file) \in Nat
      /\ written \in 0..MaxRecords /\ Len(file) <= written
  <2>1. lock = p /\ exists
    BY <1>1 DEF ProcessOK, Held, Resting
  <2>2. /\ file \in Seq(Record) /\ written \in 0..MaxRecords
    BY DEF TypeOK
  <2> QED BY <2>1, <2>2
<1>3. rec \in Record
  <2>1. HeadOf(file) \in 0..MaxRecords /\ HeadOf(view[p]) \in 0..MaxRecords
    BY HeadType DEF TypeOK
  <2>2. written + 1 \in 1..MaxRecords
    BY <1>1, <1>2, BoundAssumption
  <2> QED BY <2>1, <2>2 DEF NewRecord, Record
<1> HIDE DEF rec
<1>4. /\ file' \in Seq(Record) /\ Len(file') = Len(file) + 1 /\ file' # <<>>
      /\ \A i \in 1..Len(file) : file'[i] = file[i]
      /\ file'[Len(file) + 1] = rec
  BY <1>1, <1>2, <1>3
<1>5. \A s \in Seq(Record) : IsPrefix(s, file) => IsPrefix(s, file')
  BY <1>1, <1>2, <1>3, PrefixAppend
<1>6. TypeOK'
  <2>1. {exists, torn, linked, dirty}' \subseteq BOOLEAN
    BY <1>1, Zenon DEF TypeOK
  <2>2. synced' \in 0..Len(file') /\ written' \in 0..MaxRecords /\ Len(file') <= MaxRecords
    BY <1>1, <1>2, <1>4, BoundAssumption DEF TypeOK
  <2> QED BY <1>1, <1>4, <2>1, <2>2 DEF TypeOK, PCs
<1>7. (Len(file) <= written)'
  BY <1>1, <1>2, <1>4
<1>8. \A q \in Procs \ {p} : pc'[q] = pc[q] /\ pc[q] \notin Held
  BY <1>1, <1>2 DEF ProcessOK, TypeOK
<1>9. ASSUME NEW q \in Procs \ {p} PROVE ~Creating(q)
  <2>1. CASE pc[p] = "truncated" \/ goal[p] = "append"
    <3>1. file # <<>>
      <4>1. CASE pc[p] = "truncated"
        BY <4>1 DEF ProcessOK
      <4>2. CASE pc[p] = "writing" /\ goal[p] = "append"
        <5>1. IsPrefix(view[p], file) /\ view[p] # <<>> /\ view[p] \in Seq(Record)
          BY <4>2 DEF ProcessOK, Resting, TypeOK
        <5>2. Len(view[p]) \in Nat /\ Len(view[p]) # 0 /\ Len(view[p]) <= Len(file)
          BY <5>1, PrefixElements DEF TypeOK
        <5> QED BY <5>2, <1>2
      <4> QED BY <1>1, <2>1, <4>1, <4>2
    <3> QED BY <3>1 DEF ProcessOK
  <2>2. CASE pc[p] = "writing" /\ goal[p] = "create"
    BY <2>2 DEF OneCreator, Creating
  <2> QED BY <1>1, <2>1, <2>2 DEF ProcessOK
<1>10. ASSUME NEW q \in Procs PROVE ProcessOK(q)'
  <2>1. view[q] \in Seq(Record) /\ (IsPrefix(view[q], file) => IsPrefix(view[q], file'))
    BY <1>5 DEF TypeOK
  <2>2. CASE q = p
    BY <1>1, <1>2, <1>4, <2>1, <2>2 DEF ProcessOK, TypeOK, Resting, Held, Creating
  <2>3. CASE q # p
    BY <1>1, <1>4, <1>8, <1>9, <2>1, <2>3 DEF ProcessOK, Resting, Held, Creating
  <2> QED BY <2>2, <2>3
<1>11. OneCreator'
  BY <1>1, <1>8, <1>9 DEF OneCreator, Creating, TypeOK
<1>12. rec.prev = HeadOf(file) /\ (~rec.repair => rec.basis = HeadOf(file))
  <2>1. CASE pc[p] = "truncated"
    BY <2>1 DEF rec, NewRecord
  <2>2. CASE pc[p] = "writing"
    <3>1. HeadOf(view[p]) = HeadOf(file)
      BY <2>2 DEF ProcessOK, Creating
    <3> QED BY <2>2, <3>1 DEF rec, NewRecord
  <2> QED BY <1>1, <2>1, <2>2
<1>13. \A i \in 1..Len(file) : Predecessor(i)' = Predecessor(i)
  BY <1>2, <1>4 DEF Predecessor
<1>14. ASSUME NEW i \in Nat, i = Len(file) + 1 PROVE Predecessor(i)' = HeadOf(file)
  <2>1. CASE Len(file) = 0
    BY <1>2, <1>14, <2>1 DEF Predecessor, HeadOf
  <2>2. CASE Len(file) # 0
    <3>1. file # <<>> /\ Len(file) \in 1..Len(file) /\ i # 1
      BY <1>2, <1>14, <2>2
    <3>2. file'[i - 1] = file[Len(file)]
      BY <1>2, <1>4, <1>14, <3>1
    <3> QED BY <1>14, <3>1, <3>2 DEF Predecessor, HeadOf
  <2> QED BY <2>1, <2>2
<1>15. \A i \in 1..Len(file') : i \in 1..Len(file) \/ i = Len(file) + 1
  BY <1>2, <1>4
<1>16. ChainIntact'
  <2>1. ASSUME NEW i \in 1..Len(file') PROVE file'[i].prev = Predecessor(i)'
    <3>1. CASE i \in 1..Len(file)
      BY <1>4, <1>13, <3>1 DEF ChainIntact
    <3>2. CASE i = Len(file) + 1
      BY <1>2, <1>4, <1>12, <1>14, <3>2
    <3> QED BY <1>15, <3>1, <3>2
  <2> QED BY <2>1 DEF ChainIntact
<1>17. NoStaleAppend'
  <2>1. ASSUME NEW i \in 1..Len(file') PROVE ~file'[i].repair => file'[i].basis = Predecessor(i)'
    <3>1. CASE i \in 1..Len(file)
      BY <1>4, <1>13, <3>1 DEF NoStaleAppend
    <3>2. CASE i = Len(file) + 1
      BY <1>2, <1>4, <1>12, <1>14, <3>2
    <3> QED BY <1>15, <3>1, <3>2
  <2> QED BY <2>1 DEF NoStaleAppend
<1>18. DurableOK'
  BY <1>1, <1>2, <1>5 DEF DurableOK, TypeOK
<1> QED BY <1>6, <1>7, <1>10, <1>11, <1>16, <1>17, <1>18

LEMMA PowerLossInv == ASSUME Inv, PowerLoss PROVE Inv'
<1> USE DEF Inv
<1>1. /\ pc' = [p \in Procs |-> "down"] /\ goal' = [p \in Procs |-> "none"]
      /\ linked' = exists' /\ dirty' = FALSE /\ lock' = NoProc
      /\ UNCHANGED <<view, written, acked>>
  BY DEF PowerLoss
<1>2. /\ file \in Seq(Record) /\ Len(file) \in Nat /\ synced \in 0..Len(file)
      /\ acked \in Seq(Record) /\ Len(acked) \in Nat
  BY DEF TypeOK
<1>3. PICK k \in 0..Len(file) :
         /\ file' \in Seq(Record) /\ Len(file') = k /\ synced' = k
         /\ \A i \in 1..k : file'[i] = file[i]
         /\ IsPrefix(acked, file') /\ Len(acked) <= k
         /\ torn' \in BOOLEAN /\ exists' \in BOOLEAN
         /\ acked # <<>> => exists'
         /\ ~exists' => file' = <<>>
  <2>1. CASE \E k \in synced..Len(file) :
               /\ file' = SubSeq(file, 1, k) /\ synced' = k
               /\ torn' \in {b \in BOOLEAN : b => dirty} /\ UNCHANGED exists
    <3>1. PICK k \in synced..Len(file) :
             /\ file' = SubSeq(file, 1, k) /\ synced' = k
             /\ torn' \in {b \in BOOLEAN : b => dirty} /\ UNCHANGED exists
      BY <2>1
    <3>2. k \in 0..Len(file) /\ k \in Len(acked)..Len(file)
      BY <1>2 DEF DurableOK
    <3>3. /\ file' \in Seq(Record) /\ Len(file') = k
          /\ \A i \in 1..k : file'[i] = file[i]
      BY <1>2, <3>1, <3>2
    <3>4. IsPrefix(acked, file')
      BY <1>2, <3>1, <3>2, PrefixSubSeq DEF DurableOK
    <3>5. torn' \in BOOLEAN /\ exists' \in BOOLEAN
      BY <3>1 DEF TypeOK
    <3>6. ~exists' => file' = <<>>
      BY <1>2, <3>1, <3>2, <3>3 DEF DurableOK
    <3> QED BY <3>1, <3>2, <3>3, <3>4, <3>5, <3>6 DEF DurableOK
  <2>2. CASE ~linked /\ exists' = FALSE /\ file' = <<>> /\ synced' = 0 /\ torn' = FALSE
    <3>1. file' \in Seq(Record) /\ Len(file') = 0
      BY <2>2
    <3>2. acked = <<>>
      BY <2>2 DEF DurableOK
    <3>3. Len(acked) = 0
      BY <3>2
    <3>4. IsPrefix(acked, file')
      BY <1>2, <3>1, <3>3, PrefixEmpty
    <3>5. 0 \in 0..Len(file) /\ synced' = 0 /\ Len(acked) <= 0 /\ 1..0 = {}
      BY <1>2, <2>2, <3>3
    <3>6. torn' \in BOOLEAN /\ exists' \in BOOLEAN
      BY <2>2
    <3>7. file' = <<>>
      BY <2>2
    <3> QED BY <3>1, <3>2, <3>4, <3>5, <3>6, <3>7
  <2> QED BY <2>1, <2>2 DEF PowerLoss
<1>4. TypeOK'
  <2>1. {exists, torn, linked, dirty}' \subseteq BOOLEAN
    BY <1>1, <1>3
  <2>2. Len(file') <= MaxRecords /\ synced' \in 0..Len(file')
    BY <1>2, <1>3, BoundAssumption DEF TypeOK
  <2> QED BY <1>1, <1>3, <2>1, <2>2 DEF TypeOK, PCs
<1>5. (Len(file) <= written)'
  BY <1>1, <1>2, <1>3 DEF TypeOK
<1>6. \A p \in Procs : ProcessOK(p)'
  BY <1>1 DEF ProcessOK, Resting, Held, Creating
<1>7. OneCreator'
  BY <1>1 DEF OneCreator, Creating
<1>8. \A i \in 1..Len(file') : /\ i \in 1..Len(file) /\ file'[i] = file[i]
                               /\ Predecessor(i)' = Predecessor(i)
  BY <1>2, <1>3 DEF Predecessor
<1>9. ChainIntact' /\ NoStaleAppend'
  BY <1>8 DEF ChainIntact, NoStaleAppend
<1>10. DurableOK'
  BY <1>1, <1>3 DEF DurableOK
<1> QED BY <1>4, <1>5, <1>6, <1>7, <1>9, <1>10

LEMMA NextInv == Inv /\ [Next]_vars => Inv'
<1> SUFFICES ASSUME Inv, [Next]_vars PROVE Inv'
  OBVIOUS
<1>1. CASE UNCHANGED vars
  BY <1>1 DEF vars, Inv, TypeOK, ProcessOK, Resting, Held, Creating, OneCreator, HeadOf,
              ChainIntact, NoStaleAppend, Predecessor, DurableOK
<1>2. ASSUME NEW p \in Procs, Progress(p) PROVE Inv'
  BY <1>2, AcquireInv, LoadFailsInv, TruncateInv, PartialWriteInv, CompleteWriteInv,
     RepairSyncInv, ReadRepairedInv, AppendBeginsInv, AppendRefusedInv, AppendDurableInv
     DEF Progress
<1>3. CASE Next
  BY <1>2, <1>3, CreateInv, ReadCleanInv, ReadTornInv, StartAppendInv, LeaveInv,
     AppendBufferedInv, StartInv, ProcessExitInv, PowerLossInv DEF Next
<1> QED BY <1>1, <1>3

\* The invariant holds in every reachable state.
THEOREM Invariance == Spec => []Inv
BY InitInv, NextInv, PTL DEF Spec

-----------------------------------------------------------------------------
(* What the invariant gives. *)

\* The complete lines of the journal are always one hash chain, and whoever has
\* read it holds the beginning of it, for any number of processes that append,
\* repair and die (validate_records, read).
THEOREM HistoryAlwaysSound == Spec => []HistorySound
<1>1. Inv => HistorySound
  BY DEF Inv, ProcessOK, Resting, HistorySound, ViewStaysPrefix
<1> QED BY <1>1, Invariance, PTL

\* A record directly follows the history its writer validated, and a record whose
\* durable append has returned is never lost to a power loss or to the repair of
\* a torn tail (append, _repair_torn_tail).
THEOREM RecordsAlwaysHold == Spec => []RecordsHold
<1>1. Inv => RecordsHold
  BY DEF Inv, DurableOK, RecordsHold, AckedSurvives
<1> QED BY <1>1, Invariance, PTL

-----------------------------------------------------------------------------
(* The commands of InventoryChanges: their inductive invariant. *)

\* A local transaction is built up in this order.
Unstaged == {"begin_stage", "HOST_COMMITTED", "confirm_master", "readback", "SYNC_INTENT", "backup",
             "EXTERNAL_BASELINE", "EXTERNAL_INTENT", "EXTERNAL_ABORTED", "external_classify",
             "external_readback"}
UserStaged == {"confirm_user", "stage_master", "write_master", "cross"}
Staging == {"begin_stage", "stage_user", "write_user", "roll_forward", "HOST_COMMITTED"} \cup UserStaged
Batch == {"BATCH_STARTED", "loop", "delete", "ITEM_RECONCILED", "resume_child", "resume_inventory"}

\* What the position of a command says of the local transaction.
TransactionInv ==
    /\ store.txn = "none" => store.files = NoFiles
    /\ store.txn = "commit" => store.files.user \in Archive /\ store.files.master # Torn
    /\ step \in Unstaged \/ j.kind = "batch" => store.txn = "none"
    /\ step \in {"stage_user", "write_user"} \cup UserStaged => store.txn = "prepare"
    /\ step = "stage_user" => store.files = NoFiles
    /\ step = "write_user" => store.files.user = Torn
    /\ step \in UserStaged => store.files.user \in Archive
    /\ step \in {"write_user", "confirm_user", "stage_master"} => store.files.master = None
    /\ step = "cross" => store.files.master # Torn
    /\ step = "roll_forward" => store.txn = "commit"

\* Whose journal a command goes on with, and at which phase.
PhaseInv ==
    /\ DOMAIN j = DOMAIN NoJournal
    /\ j.kind = "none" => j.phase = "NONE"
    /\ j.kind \in {"sync", "external"} =>
         j.phase \in {"BASELINE", "INTENT", "HOST_COMMITTED", "OUTCOME_UNKNOWN", "RECONCILED", "ABORTED"}
    /\ j.kind = "batch" => j.phase \in {"BASELINE", "STARTED", "RECONCILED"}
    /\ step \in Staging => j.kind \in {"sync", "external"} /\ j.phase = "INTENT"
    /\ step \in {"confirm_user", "stage_master", "write_master", "SYNC_INTENT", "confirm_master"} => j.kind = "sync"
    /\ step \in {"confirm_master", "readback"} => j.kind \in {"sync", "external"} /\ j.phase = "HOST_COMMITTED"
    /\ step \in {"SYNC_INTENT", "EXTERNAL_INTENT"} => j.phase = "BASELINE"
    /\ step \in {"EXTERNAL_INTENT", "EXTERNAL_ABORTED", "external_classify", "external_readback"} => j.kind = "external"
    /\ step \in {"EXTERNAL_ABORTED", "external_classify"} => j.phase \in {"INTENT", "OUTCOME_UNKNOWN", "HOST_COMMITTED"}
    /\ step = "EXTERNAL_ABORTED" => j.phase # "HOST_COMMITTED"
    /\ step = "external_readback" => j.phase = "HOST_COMMITTED"
    /\ step \in Batch => j.kind = "batch"
    /\ step = "BATCH_STARTED" => j.phase = "BASELINE"
    /\ step \in Batch \ {"BATCH_STARTED"} => j.phase = "STARTED"
    /\ step \in Batch \ {"resume_child"} => child = None
    /\ child # None => j.kind = "batch" /\ j.phase = "STARTED"
    /\ step \in {"backup", "EXTERNAL_BASELINE"} => ~Blocks

\* A sync has saved, or will have saved, what the SEP holds.
Agrees == sep.gen = store.user.blob.gen
SyncInv ==
    /\ sep.loaded /\ ~sep.dirty /\ foreign = {} /\ ~Agrees => j.kind = "sync" /\ j.phase \notin Complete["sync"]
    /\ j.kind = "sync" /\ j.commit # None =>
         /\ j.commit = <<store.user, store.master>> /\ j.phase \notin {"BASELINE", "INTENT"}
         /\ sep.loaded /\ ~sep.dirty /\ foreign = {} => Agrees
    /\ j.kind = "sync" /\ step \in Staging \cup {"SYNC_INTENT", "confirm_master", "readback"} =>
         sep.loaded /\ sep.ids = store.user.ids /\ sep.ids # {}
    /\ j.kind = "sync" /\ step \in {"SYNC_INTENT", "begin_stage"} => sep.dirty
    /\ j.kind = "sync" /\ step \in UserStaged \cup {"roll_forward"} =>
         store.files.user.blob = Secure /\ store.files.user.ids = store.user.ids
    /\ j.kind = "sync" /\ step \in {"HOST_COMMITTED", "confirm_master", "readback"} => Agrees

\* What differs between the archive and a loaded SEP, or the SEP's last export, was deleted
\* by another system, or belongs to a purge, or the SEP was emptied and says so.
MissingInv ==
    \/ j.kind = "batch" /\ j.phase = "STARTED"
    \/ /\ store.user.ids \ store.user.blob.ids \subseteq foreign
       /\ sep.loaded => \/ store.user.ids \ sep.ids \subseteq foreign
                        \/ sep.ids = {} /\ sep.dirty

\* What a prune has journaled, and where its transaction is.
Pruning == j.kind = "external" /\ j.phase \in {"INTENT", "OUTCOME_UNKNOWN", "HOST_COMMITTED"}
PruneInv ==
    /\ step \in {"backup", "EXTERNAL_BASELINE"} =>
         sep.ids \subseteq store.user.ids /\ store.user.ids \ sep.ids \subseteq foreign
    /\ step = "EXTERNAL_BASELINE" => store.user \in backups
    /\ j.kind = "external" =>
         /\ j.before \in backups /\ j.staged = [j.before EXCEPT !.ids = j.staged.ids]
         /\ j.staged \in Archive
         /\ j.staged.ids \subseteq j.before.ids /\ j.before.ids \ j.staged.ids \subseteq foreign
    /\ step = "EXTERNAL_INTENT" => store.user = j.before
    /\ Pruning =>
         /\ store.txn = "prepare" => store.files.user \in {None, Torn, j.staged}
         /\ store.txn = "commit" => store.files.user = j.staged
         /\ store.txn # "none" => store.files.master = None /\ store.user = j.before /\ j.phase # "HOST_COMMITTED"
         /\ store.txn = "none" => store.user = j.staged \/ (store.user = j.before /\ j.phase # "HOST_COMMITTED")
         /\ step = "begin_stage" => store.user = j.before
         /\ step = "cross" => store.files.user = j.staged
         /\ step \in {"HOST_COMMITTED", "readback", "external_readback"} => store.user = j.staged

InventoryInv == InventoryTypeOK /\ TransactionInv /\ PhaseInv /\ SyncInv /\ MissingInv /\ PruneInv

\* The parts of the type invariant.
SepOK == sep \in [ids : SUBSET Fingers, gen : 0..MaxGen, dirty : BOOLEAN, mdirty : BOOLEAN,
                  loaded : BOOLEAN]
StoreOK == store \in [user : Archive, master : Nat, txn : {"none", "prepare", "commit"},
                      files : [user : Archive \cup {None, Torn}, master : Nat \cup {None, Torn}]]
JournalOK == /\ j.kind \in {"none", "sync", "external", "batch"} /\ j.attempted \in BOOLEAN /\ j.pending \in BOOLEAN
             /\ j.before \in Archive \cup {None} /\ j.staged \in Archive \cup {None}
SetsOK == saves \in Nat /\ backups \subseteq Archive /\ foreign \subseteq Fingers

-----------------------------------------------------------------------------
(* Facts about the records and the deletions. *)

\* The parts of the type invariant together.
LEMMA InventoryParts == InventoryTypeOK <=> SepOK /\ StoreOK /\ JournalOK /\ SetsOK
<1>1. DOMAIN Complete = {"none", "sync", "external", "batch"}
  BY DEF Complete
<1>2. {j.before, j.staged} \subseteq Archive \cup {None} <=> j.before \in Archive \cup {None} /\ j.staged \in Archive \cup {None}
  OBVIOUS
<1> QED BY <1>1, <1>2, Zenon DEF InventoryTypeOK, SepOK, StoreOK, JournalOK, SetsOK

\* What the record of a sync's commit does to its journal.
LEMMA SyncCommitStep ==
    ASSUME PhaseInv, SyncHostCommitted
    PROVE  /\ j.kind = "sync" /\ j.phase = "INTENT" /\ step = "HOST_COMMITTED"
           /\ DOMAIN j' = DOMAIN j /\ j'.phase = "HOST_COMMITTED" /\ step' = "confirm_master"
           /\ j'.commit = <<store.user, store.master>>
           /\ j'.kind = "sync" /\ j'.attempted = j.attempted /\ j'.before = j.before
           /\ j'.staged = j.staged /\ j'.pending = j.pending
           /\ UNCHANGED <<mode, sep, store, child, backups, boot, failures, ops, saves, foreign>>
<1> DEFINE commit == <<store.user, store.master>>
<1>1. j.kind = "sync" /\ j.phase = "INTENT" /\ step = "HOST_COMMITTED" /\ DOMAIN j = DOMAIN NoJournal
  BY DEF PhaseInv, SyncHostCommitted, Staging
<1>2. /\ j' = [j EXCEPT !.phase = "HOST_COMMITTED", !.commit = commit]
      /\ step' = "confirm_master"
  BY <1>1, Zenon DEF SyncHostCommitted, AppendChecked, SYNC_HOST_COMMITTED, Rule
<1>3. UNCHANGED <<mode, sep, store, child, backups, boot, failures, ops, saves, foreign>>
  BY DEF SyncHostCommitted, rest
<1> HIDE DEF commit
<1>4. /\ DOMAIN j' = DOMAIN j /\ j'.phase = "HOST_COMMITTED" /\ j'.commit = commit
      /\ j'.kind = j.kind /\ j'.attempted = j.attempted /\ j'.before = j.before
      /\ j'.staged = j.staged /\ j'.pending = j.pending
  BY <1>1, <1>2 DEF NoJournal
<1> QED BY <1>1, <1>2, <1>3, <1>4, Zenon DEF commit

\* A recovered sync is closed when nothing needs a save, and begun again otherwise.
LEMMA RecoverSyncStep ==
    ASSUME PhaseInv, RecoverSync
    PROVE  /\ step = "idle" /\ j.kind = "sync" /\ j.phase = "OUTCOME_UNKNOWN" /\ store.txn = "none"
           /\ LocalLiveEqual /\ j.commit = <<store.user, store.master>>
           /\ DOMAIN j' = DOMAIN j /\ j'.kind = "sync" /\ j'.attempted = TRUE /\ j'.before = j.before
           /\ j'.staged = j.staged /\ j'.pending = j.pending
           /\ \/ Clean /\ j'.phase = "RECONCILED" /\ j'.commit = j.commit /\ step' = "idle"
              \/ OnlyUserDirty /\ j'.phase = "INTENT" /\ j'.commit = None /\ step' = "begin_stage"
           /\ UNCHANGED <<mode, sep, store, child, backups, boot, failures, ops, saves, foreign>>
<1>1. /\ step = "idle" /\ j.kind = "sync" /\ j.phase = "OUTCOME_UNKNOWN" /\ store.txn = "none"
      /\ LocalLiveEqual /\ j.commit = <<store.user, store.master>> /\ Exact
      /\ DOMAIN j = DOMAIN NoJournal
  BY Zenon DEF PhaseInv, RecoverSync, Ambiguous, Exact
<1>2. \/ /\ Clean /\ j' = [j EXCEPT !.phase = "RECONCILED", !.attempted = TRUE]
         /\ step' = "idle"
      \/ /\ OnlyUserDirty /\ j' = [j EXCEPT !.phase = "INTENT", !.attempted = TRUE, !.commit = None]
         /\ step' = "begin_stage"
  BY <1>1, Zenon DEF RecoverSync, AppendChecked, SYNC_RECOVERED_CLEAN, SYNC_RECOVERY_INTENT, Rule
<1>3. UNCHANGED <<mode, sep, store, child, backups, boot, failures, ops, saves, foreign>>
  BY DEF RecoverSync, rest
<1>4. DOMAIN j = {"kind", "phase", "commit", "attempted", "before", "staged", "names", "done", "pending"}
  BY <1>1 DEF NoJournal
<1>5. /\ DOMAIN j' = DOMAIN j /\ j'.attempted = TRUE /\ j'.kind = j.kind /\ j'.before = j.before
      /\ j'.staged = j.staged /\ j'.pending = j.pending
  BY <1>2, <1>4
<1>6. \/ Clean /\ j'.phase = "RECONCILED" /\ j'.commit = j.commit /\ step' = "idle"
      \/ OnlyUserDirty /\ j'.phase = "INTENT" /\ j'.commit = None /\ step' = "begin_stage"
  BY <1>2, <1>4
<1> QED BY <1>1, <1>3, <1>5, <1>6, Zenon

\* The records of an item leave everything of a purge but its progress alone.
LEMMA ItemStep ==
    ASSUME PhaseInv, ItemIntent \/ ItemReconciled
    PROVE  /\ j.kind = "batch" /\ j.phase = "STARTED" /\ step \in {"loop", "ITEM_RECONCILED"}
           /\ DOMAIN j' = DOMAIN j /\ j'.kind = "batch" /\ j'.phase = "STARTED" /\ j'.commit = j.commit
           /\ j'.attempted = j.attempted /\ j'.before = j.before /\ j'.staged = j.staged
           /\ j'.pending \in BOOLEAN \/ j'.pending = j.pending
           /\ step' \in {"delete", "loop", "idle"} /\ child = None
           /\ UNCHANGED <<mode, sep, store, child, backups, boot, failures, ops, saves, foreign>>
<1>1. /\ j.kind = "batch" /\ j.phase = "STARTED" /\ step \in {"loop", "ITEM_RECONCILED"}
      /\ DOMAIN j = DOMAIN NoJournal /\ child = None
  BY DEF PhaseInv, ItemIntent, ItemReconciled, Batch
<1>2. \/ j' = [j EXCEPT !.done = j.done + 1, !.pending = FALSE] /\ step' = "loop"
      \/ j' = [j EXCEPT !.pending = TRUE] /\ step' = "delete"
      \/ j' = j /\ step' = "idle"
  BY Zenon DEF ItemIntent, ItemReconciled, AppendChecked, BATCH_ITEM_INTENT, BATCH_ITEM_RECONCILED, Rule
<1>3. UNCHANGED <<mode, sep, store, child, backups, boot, failures, ops, saves, foreign>>
  BY DEF ItemIntent, ItemReconciled, rest
<1>4. step' \in {"delete", "loop", "idle"}
  BY <1>2
<1>5. /\ DOMAIN j' = DOMAIN j /\ j'.kind = j.kind /\ j'.phase = j.phase /\ j'.commit = j.commit
      /\ j'.attempted = j.attempted /\ j'.before = j.before /\ j'.staged = j.staged
      /\ j'.pending = j.pending \/ j'.pending = TRUE \/ j'.pending = FALSE
  <2> DEFINE d == j.done + 1
  <2> HIDE DEF d
  <2>1. CASE j' = [j EXCEPT !.done = d, !.pending = FALSE]
    BY <1>1, <2>1 DEF NoJournal
  <2>2. CASE j' = [j EXCEPT !.pending = TRUE]
    BY <1>1, <2>2 DEF NoJournal
  <2>3. CASE j' = j
    BY <2>3
  <2> QED BY <1>2, <2>1, <2>2, <2>3 DEF d
<1> QED BY <1>1, <1>3, <1>4, <1>5, Zenon

\* The archive a single deletion commits.
LEMMA HostWithoutOK == ASSUME StoreOK, SepOK, SetsOK PROVE HostWithout \in [user : Archive, master : Nat, txn : {"none", "prepare", "commit"},
                      files : [user : Archive \cup {None, Torn}, master : Nat \cup {None, Torn}]]
<1> DEFINE target == Target
<1>1. store.user.ids \ {target} \in SUBSET Fingers /\ [ids |-> sep.ids \ {target}, gen |-> sep.gen] \in Content
  BY DEF StoreOK, SepOK, Archive, Content
<1>2. saves + 1 \in Nat
  BY DEF SetsOK
<1> HIDE DEF target
<1> DEFINE d == store.user.ids \ {target}
           b == [ids |-> sep.ids \ {target}, gen |-> sep.gen]
           s == saves + 1
<1>3. HostWithout = [store EXCEPT !.user.ids = d, !.user.save = s, !.user.blob = b]
  BY DEF HostWithout, target
<1>5. d \in SUBSET Fingers /\ b \in Content /\ s \in Nat
  BY <1>1, <1>2
<1> HIDE DEF d, b, s
<1> QED BY <1>3, <1>5 DEF StoreOK, Archive

\* What a single deletion leaves alone in the store.
LEMMA HostWithoutFields == ASSUME StoreOK PROVE
    /\ HostWithout.txn = store.txn /\ HostWithout.files = store.files /\ HostWithout.master = store.master
    /\ HostWithout.user.ids = store.user.ids \ {Target}
    /\ HostWithout.user.blob = [ids |-> sep.ids \ {Target}, gen |-> sep.gen]
<1> DEFINE d == store.user.ids \ {Target}
           b == [ids |-> sep.ids \ {Target}, gen |-> sep.gen]
           s == saves + 1
<1>1. HostWithout = [store EXCEPT !.user.ids = d, !.user.save = s, !.user.blob = b]
  BY DEF HostWithout
<1> HIDE DEF d, b, s
<1>2. /\ HostWithout.txn = store.txn /\ HostWithout.files = store.files /\ HostWithout.master = store.master
      /\ HostWithout.user.ids = d /\ HostWithout.user.blob = b
  BY <1>1 DEF StoreOK, Archive
<1> QED BY <1>2 DEF d, b

\* A single deletion never leaves the archive saved without the SEP's templates.
LEMMA DeletionStep ==
    ASSUME InventoryTypeOK, PhaseInv, ItemDeleted \/ ItemInterrupted \/ RecoverChild \/ ReconcilerRecovers
    PROVE  /\ j.kind = "batch" /\ j.phase = "STARTED"
           /\ UNCHANGED <<mode, j, backups, boot, ops, foreign>>
           /\ step' \in {"ITEM_RECONCILED", "idle", "resume_inventory"}
           /\ sep'.gen = sep.gen /\ sep'.loaded = sep.loaded
           /\ \/ UNCHANGED <<sep, store>>
              \/ sep'.dirty = TRUE /\ UNCHANGED store
              \/ /\ sep'.dirty = FALSE /\ store'.txn = store.txn /\ store'.files = store.files
                 /\ store'.user.blob.gen = sep.gen
<1> SepOK /\ StoreOK
  BY InventoryParts
<1>1. j.kind = "batch" /\ j.phase = "STARTED"
  BY DEF PhaseInv, Batch, ItemDeleted, ItemInterrupted, RecoverChild, ReconcilerRecovers, DeleteRecovered
<1>2. UNCHANGED <<mode, j, backups, boot, ops, foreign>>
  BY DEF ItemDeleted, ItemInterrupted, RecoverChild, ReconcilerRecovers, DeleteRecovered, rest
<1>3. step' \in {"ITEM_RECONCILED", "idle", "resume_inventory"}
  BY DEF ItemDeleted, ItemInterrupted, RecoverChild, ReconcilerRecovers, DeleteRecovered
<1>4. \/ UNCHANGED <<sep, store>>
      \/ sep' = SepWithout(TRUE) /\ UNCHANGED store
      \/ sep' = SepWithout(FALSE) /\ store' = HostWithout
  BY DEF ItemDeleted, ItemInterrupted, RecoverChild, ReconcilerRecovers, DeleteRecovered
<1>5. \A d \in BOOLEAN : SepWithout(d).gen = sep.gen /\ SepWithout(d).loaded = sep.loaded /\ SepWithout(d).dirty = d
  BY DEF SepWithout, SepOK
<1>6. sep'.gen = sep.gen /\ sep'.loaded = sep.loaded
  BY <1>4, <1>5
<1>7. \/ UNCHANGED <<sep, store>>
      \/ sep'.dirty = TRUE /\ UNCHANGED store
      \/ /\ sep'.dirty = FALSE /\ store'.txn = store.txn /\ store'.files = store.files
         /\ store'.user.blob.gen = sep.gen
  <2>1. CASE sep' = SepWithout(FALSE) /\ store' = HostWithout
    <3>1. store'.user.blob = [ids |-> sep.ids \ {Target}, gen |-> sep.gen] /\ store'.txn = store.txn /\ store'.files = store.files
      BY <2>1, HostWithoutFields
    <3>2. store'.user.blob.gen = sep.gen
      BY <3>1
    <3>3. sep'.dirty = FALSE
      BY <1>5, <2>1
    <3> QED BY <3>1, <3>2, <3>3
  <2> QED BY <1>4, <1>5, <2>1
<1> QED BY <1>1, <1>2, <1>3, <1>6, <1>7

\* A commit the journal names is told from none.
LEMMA CommitPresent == StoreOK => <<store.user, store.master>> # None
  BY AbsentAssumption DEF StoreOK

\* What a single deletion leaves in the SEP.
LEMMA SepWithoutOK ==
    ASSUME SepOK, NEW d \in BOOLEAN
    PROVE  SepWithout(d) \in [ids : SUBSET Fingers, gen : 0..MaxGen, dirty : BOOLEAN,
                              mdirty : BOOLEAN, loaded : BOOLEAN]
<1> DEFINE target == Target
<1>1. SepWithout(d) = [sep EXCEPT !.ids = sep.ids \ {target}, !.dirty = d, !.mdirty = d]
  BY DEF SepWithout, SepOK
<1> HIDE DEF target
<1> QED BY <1>1 DEF SepOK

-----------------------------------------------------------------------------
(* Every step keeps every part of the invariant. *)

\* Every step keeps the type of the SEP's state.
LEMMA InventorySepTypes == InventoryInv /\ [InventoryNext]_inventoryVars => SepOK'
<1> SUFFICES ASSUME InventoryInv, [InventoryNext]_inventoryVars PROVE SepOK'
  OBVIOUS
<1> SepOK /\ StoreOK /\ JournalOK /\ SetsOK /\ TransactionInv /\ PhaseInv /\ PruneInv
  BY InventoryParts DEF InventoryInv
<1> USE DEF rest, AppendChecked, Rule, Phase, NoJournal, SepOK
<1>1. ASSUME BeginStage PROVE SepOK'
  BY <1>1 DEF BeginStage
<1>2. ASSUME BeginStageFails PROVE SepOK'
  BY <1>2 DEF BeginStageFails, Fails, OutcomeUnknown, SYNC_OUTCOME_UNKNOWN,
              EXTERNAL_DELETE_OUTCOME_UNKNOWN, SYNC_ABORTED_BEFORE_DISPATCH
<1>3. ASSUME StageCreate PROVE SepOK'
  BY <1>3 DEF StageCreate
<1>4. ASSUME StageWrite PROVE SepOK'
  BY <1>4 DEF StageWrite, Secure
<1>5. ASSUME ConfirmUser PROVE SepOK'
  BY <1>5 DEF ConfirmUser
<1>6. ASSUME Cross PROVE SepOK'
  BY <1>6 DEF Cross
<1>7. ASSUME RollForward PROVE SepOK'
  BY <1>7 DEF RollForward, RolledForward, Discarded
<1>8. ASSUME SyncHostCommitted PROVE SepOK'
  BY <1>8 DEF SyncHostCommitted, SYNC_HOST_COMMITTED
<1>9. ASSUME ExternalHostCommitted PROVE SepOK'
  BY <1>9 DEF ExternalHostCommitted, EXTERNAL_DELETE_HOST_COMMITTED
<1>10. ASSUME ConfirmMaster PROVE SepOK'
  BY <1>10 DEF ConfirmMaster
<1>11. ASSUME StepFails PROVE SepOK'
  BY <1>11 DEF StepFails, Fails, OutcomeUnknown, SYNC_OUTCOME_UNKNOWN,
               EXTERNAL_DELETE_OUTCOME_UNKNOWN
<1>12. ASSUME SyncReadback PROVE SepOK'
  BY <1>12 DEF SyncReadback, SyncReadsBack, OutcomeUnknown, SYNC_OUTCOME_UNKNOWN,
               EXTERNAL_DELETE_OUTCOME_UNKNOWN, SYNC_RECONCILED
<1>13. ASSUME ExternalReadback PROVE SepOK'
  BY <1>13 DEF ExternalReadback, ExternalReadsBack, PruneVerified, OutcomeUnknown,
               SYNC_OUTCOME_UNKNOWN, EXTERNAL_DELETE_OUTCOME_UNKNOWN, EXTERNAL_DELETE_RECONCILED
<1>14. ASSUME RunSync PROVE SepOK'
  BY <1>14 DEF RunSync, Startable, OnlyUserDirty
<1>15. ASSUME SyncIntent PROVE SepOK'
  BY <1>15 DEF SyncIntent, SYNC_INTENT
<1>16. ASSUME RecoverSync PROVE SepOK'
  BY <1>16 DEF RecoverSync, Ambiguous, Exact, OnlyUserDirty, SYNC_RECOVERY_INTENT,
               SYNC_RECOVERED_CLEAN
<1>17. ASSUME NEW gone \in SUBSET Fingers, RunExternal(FALSE, gone) PROVE SepOK'
  BY <1>17 DEF RunExternal, Startable, Planned
<1>18. ASSUME NEW gone \in SUBSET Fingers, StartupReconciles(gone) PROVE SepOK'
  BY <1>18 DEF StartupReconciles, RunExternal, Startable, Planned
<1>19. ASSUME CreateBackup PROVE SepOK'
  BY <1>19 DEF CreateBackup
<1>20. ASSUME ExternalBaseline PROVE SepOK'
  BY <1>20 DEF ExternalBaseline, EXTERNAL_DELETE_BASELINE
<1>21. ASSUME ExternalIntent PROVE SepOK'
  BY <1>21 DEF ExternalIntent, EXTERNAL_DELETE_INTENT
<1>22. ASSUME RecoverExternal PROVE SepOK'
  BY <1>22 DEF RecoverExternal, ExternalDirection, RolledForward, Discarded, Discardable
<1>23. ASSUME ExternalAborted PROVE SepOK'
  BY <1>23 DEF ExternalAborted, EXTERNAL_DELETE_ABORTED
<1>24. ASSUME ExternalClassify PROVE SepOK'
  BY <1>24 DEF ExternalClassify, EXTERNAL_DELETE_ABORTED, EXTERNAL_DELETE_HOST_COMMITTED
<1>25. ASSUME RecoveredReadback PROVE SepOK'
  BY <1>25 DEF RecoveredReadback, ExternalReadsBack, PruneVerified, EXTERNAL_DELETE_RECONCILED
<1>26. ASSUME RunPurge PROVE SepOK'
  BY <1>26 DEF RunPurge, Startable
<1>27. ASSUME BatchStarted PROVE SepOK'
  BY <1>27 DEF BatchStarted, BATCH_STARTED
<1>28. ASSUME ItemIntent PROVE SepOK'
  BY <1>28 DEF ItemIntent, BATCH_ITEM_INTENT
<1>29. ASSUME ItemDeleted PROVE SepOK'
  <2>1. sep' = sep \/ sep' = SepWithout(TRUE) \/ sep' = SepWithout(FALSE)
    BY <1>29 DEF ItemDeleted, Fails
  <2> QED BY <2>1, SepWithoutOK
<1>30. ASSUME ItemRefused PROVE SepOK'
  BY <1>30 DEF ItemRefused, Fails
<1>31. ASSUME ItemInterrupted PROVE SepOK'
  <2>1. sep' = sep \/ sep' = SepWithout(TRUE) \/ sep' = SepWithout(FALSE)
    BY <1>31 DEF ItemInterrupted, Fails
  <2> QED BY <2>1, SepWithoutOK
<1>32. ASSUME ItemReconciled PROVE SepOK'
  BY <1>32 DEF ItemReconciled, BATCH_ITEM_RECONCILED
<1>33. ASSUME BatchReconciled PROVE SepOK'
  BY <1>33 DEF BatchReconciled, BATCH_RECONCILED
<1>34. ASSUME ResumePurge PROVE SepOK'
  BY <1>34 DEF ResumePurge, Purging
<1>35. ASSUME RecoverChild PROVE SepOK'
  <2>1. sep' = sep \/ sep' = SepWithout(TRUE) \/ sep' = SepWithout(FALSE)
    BY <1>35 DEF RecoverChild, DeleteRecovered
  <2> QED BY <2>1, SepWithoutOK
<1>36. ASSUME ReconcilerRecovers PROVE SepOK'
  <2>1. sep' = sep \/ sep' = SepWithout(TRUE) \/ sep' = SepWithout(FALSE)
    BY <1>36 DEF ReconcilerRecovers, DeleteRecovered
  <2> QED BY <2>1, SepWithoutOK
<1>37. ASSUME ResumeInventory PROVE SepOK'
  BY <1>37 DEF ResumeInventory
<1>38. ASSUME TemplateUpdated PROVE SepOK'
  <2>1. sep.gen + 1 \in 0..MaxGen
    BY <1>38, InventoryAssumption DEF TemplateUpdated
  <2> QED BY <1>38, <2>1 DEF TemplateUpdated
<1>39. ASSUME RestoreState PROVE SepOK'
  <2>1. /\ store.user.ids \subseteq Fingers /\ store.user.blob.ids \subseteq Fingers
        /\ store.user.blob.gen \in 0..MaxGen
    BY DEF StoreOK, Archive, Content
  <2> QED BY <1>39, <2>1 DEF RestoreState
<1>40. ASSUME Crash PROVE SepOK'
  BY <1>40 DEF Crash, Fails
<1>41. ASSUME Reboot PROVE SepOK'
  BY <1>41 DEF Reboot
<1>42. ASSUME UNCHANGED inventoryVars PROVE SepOK'
  BY <1>42 DEF inventoryVars
<1> QED BY <1>1, <1>2, <1>3, <1>4, <1>5, <1>6, <1>7, <1>8, <1>9, <1>10, <1>11, <1>12, <1>13, <1>14,
           <1>15, <1>16, <1>17, <1>18, <1>19, <1>20, <1>21, <1>22, <1>23, <1>24, <1>25, <1>26,
           <1>27, <1>28, <1>29, <1>30, <1>31, <1>32, <1>33, <1>34, <1>35, <1>36, <1>37, <1>38,
           <1>39, <1>40, <1>41, <1>42 DEF InventoryNext

\* Every step keeps the type of the store.
LEMMA InventoryStoreTypes == InventoryInv /\ [InventoryNext]_inventoryVars => StoreOK'
<1> SUFFICES ASSUME InventoryInv, [InventoryNext]_inventoryVars PROVE StoreOK'
  OBVIOUS
<1> SepOK /\ StoreOK /\ JournalOK /\ SetsOK /\ TransactionInv /\ PhaseInv /\ PruneInv
  BY InventoryParts DEF InventoryInv
<1> USE DEF rest, AppendChecked, Rule, Phase, NoJournal, StoreOK, SepOK, SetsOK, TransactionInv,
            PhaseInv, PruneInv, UserStaged, Staging, NoFiles
<1>1. ASSUME BeginStage PROVE StoreOK'
  BY <1>1 DEF BeginStage
<1>2. ASSUME BeginStageFails PROVE StoreOK'
  BY <1>2 DEF BeginStageFails, Fails, OutcomeUnknown, SYNC_OUTCOME_UNKNOWN,
              EXTERNAL_DELETE_OUTCOME_UNKNOWN, SYNC_ABORTED_BEFORE_DISPATCH
<1>3. ASSUME StageCreate PROVE StoreOK'
  BY <1>3 DEF StageCreate
<1>4. ASSUME StageWrite PROVE StoreOK'
  <2>1. CASE step = "write_master"
    <3>1. store' = [store EXCEPT !.files.master = saves + 1] /\ saves + 1 \in Nat
      BY <1>4, <2>1 DEF StageWrite
    <3> QED BY <3>1
  <2>2. CASE step = "write_user" /\ j.kind = "sync"
    <3> DEFINE a == [store.user EXCEPT !.blob = Secure, !.save = saves + 1]
    <3>1. store' = [store EXCEPT !.files.user = a]
      BY <1>4, <2>2 DEF StageWrite
    <3>2. a \in Archive
      <4>1. Secure \in Content /\ saves + 1 \in Nat /\ store.user \in Archive
        BY DEF Content, Secure
      <4> QED BY <4>1 DEF Archive
    <3> HIDE DEF a
    <3> QED BY <3>1, <3>2
  <2>3. CASE step = "write_user" /\ j.kind # "sync"
    <3>1. store' = [store EXCEPT !.files.user = j.staged]
      BY <1>4, <2>3 DEF StageWrite
    <3> QED BY <3>1 DEF JournalOK
  <2> QED BY <1>4, <2>1, <2>2, <2>3 DEF StageWrite
<1>5. ASSUME ConfirmUser PROVE StoreOK'
  BY <1>5 DEF ConfirmUser
<1>6. ASSUME Cross PROVE StoreOK'
  BY <1>6 DEF Cross
<1>7. ASSUME RollForward PROVE StoreOK'
  BY <1>7 DEF RollForward, RolledForward, Discarded
<1>8. ASSUME SyncHostCommitted PROVE StoreOK'
  BY <1>8 DEF SyncHostCommitted, SYNC_HOST_COMMITTED
<1>9. ASSUME ExternalHostCommitted PROVE StoreOK'
  BY <1>9 DEF ExternalHostCommitted, EXTERNAL_DELETE_HOST_COMMITTED
<1>10. ASSUME ConfirmMaster PROVE StoreOK'
  BY <1>10 DEF ConfirmMaster
<1>11. ASSUME StepFails PROVE StoreOK'
  BY <1>11 DEF StepFails, Fails, OutcomeUnknown, SYNC_OUTCOME_UNKNOWN,
               EXTERNAL_DELETE_OUTCOME_UNKNOWN
<1>12. ASSUME SyncReadback PROVE StoreOK'
  BY <1>12 DEF SyncReadback, SyncReadsBack, OutcomeUnknown, SYNC_OUTCOME_UNKNOWN,
               EXTERNAL_DELETE_OUTCOME_UNKNOWN, SYNC_RECONCILED
<1>13. ASSUME ExternalReadback PROVE StoreOK'
  BY <1>13 DEF ExternalReadback, ExternalReadsBack, PruneVerified, OutcomeUnknown,
               SYNC_OUTCOME_UNKNOWN, EXTERNAL_DELETE_OUTCOME_UNKNOWN, EXTERNAL_DELETE_RECONCILED
<1>14. ASSUME RunSync PROVE StoreOK'
  BY <1>14 DEF RunSync, Startable, OnlyUserDirty
<1>15. ASSUME SyncIntent PROVE StoreOK'
  BY <1>15 DEF SyncIntent, SYNC_INTENT
<1>16. ASSUME RecoverSync PROVE StoreOK'
  BY <1>16 DEF RecoverSync, Ambiguous, Exact, OnlyUserDirty, SYNC_RECOVERY_INTENT,
               SYNC_RECOVERED_CLEAN
<1>17. ASSUME NEW gone \in SUBSET Fingers, RunExternal(FALSE, gone) PROVE StoreOK'
  BY <1>17 DEF RunExternal, Startable, Planned
<1>18. ASSUME NEW gone \in SUBSET Fingers, StartupReconciles(gone) PROVE StoreOK'
  BY <1>18 DEF StartupReconciles, RunExternal, Startable, Planned
<1>19. ASSUME CreateBackup PROVE StoreOK'
  BY <1>19 DEF CreateBackup
<1>20. ASSUME ExternalBaseline PROVE StoreOK'
  BY <1>20 DEF ExternalBaseline, EXTERNAL_DELETE_BASELINE
<1>21. ASSUME ExternalIntent PROVE StoreOK'
  BY <1>21 DEF ExternalIntent, EXTERNAL_DELETE_INTENT
<1>22. ASSUME RecoverExternal PROVE StoreOK'
  <2>1. CASE store.txn = "prepare"
    BY <1>22, <2>1 DEF RecoverExternal, ExternalDirection, Discarded
  <2>2. CASE store.txn = "commit"
    <3> DEFINE u == IF store.files.user = None THEN store.user ELSE store.files.user
               m == IF store.files.master = None THEN store.master ELSE store.files.master
    <3>1. u \in Archive /\ m \in Nat
      BY <2>2
    <3>2. store' = [store EXCEPT !.txn = "none", !.files = NoFiles, !.user = u, !.master = m]
      BY <1>22, <2>2 DEF RecoverExternal, ExternalDirection, RolledForward, Discarded
    <3> HIDE DEF u, m
    <3> QED BY <3>1, <3>2
  <2>3. CASE store.txn = "none"
    BY <1>22, <2>3 DEF RecoverExternal, ExternalDirection
  <2> QED BY <2>1, <2>2, <2>3
<1>23. ASSUME ExternalAborted PROVE StoreOK'
  BY <1>23 DEF ExternalAborted, EXTERNAL_DELETE_ABORTED
<1>24. ASSUME ExternalClassify PROVE StoreOK'
  BY <1>24 DEF ExternalClassify, EXTERNAL_DELETE_ABORTED, EXTERNAL_DELETE_HOST_COMMITTED
<1>25. ASSUME RecoveredReadback PROVE StoreOK'
  BY <1>25 DEF RecoveredReadback, ExternalReadsBack, PruneVerified, EXTERNAL_DELETE_RECONCILED
<1>26. ASSUME RunPurge PROVE StoreOK'
  BY <1>26 DEF RunPurge, Startable
<1>27. ASSUME BatchStarted PROVE StoreOK'
  BY <1>27 DEF BatchStarted, BATCH_STARTED
<1>28. ASSUME ItemIntent PROVE StoreOK'
  BY <1>28 DEF ItemIntent, BATCH_ITEM_INTENT
<1>29. ASSUME ItemDeleted PROVE StoreOK'
  <2>1. store' = store \/ store' = HostWithout
    BY <1>29 DEF ItemDeleted, Fails
  <2> QED BY <2>1, HostWithoutOK DEF StoreOK
<1>30. ASSUME ItemRefused PROVE StoreOK'
  BY <1>30 DEF ItemRefused, Fails
<1>31. ASSUME ItemInterrupted PROVE StoreOK'
  <2>1. store' = store \/ store' = HostWithout
    BY <1>31 DEF ItemInterrupted, Fails
  <2> QED BY <2>1, HostWithoutOK DEF StoreOK
<1>32. ASSUME ItemReconciled PROVE StoreOK'
  BY <1>32 DEF ItemReconciled, BATCH_ITEM_RECONCILED
<1>33. ASSUME BatchReconciled PROVE StoreOK'
  BY <1>33 DEF BatchReconciled, BATCH_RECONCILED
<1>34. ASSUME ResumePurge PROVE StoreOK'
  BY <1>34 DEF ResumePurge, Purging
<1>35. ASSUME RecoverChild PROVE StoreOK'
  <2>1. store' = store \/ store' = HostWithout
    BY <1>35 DEF RecoverChild, DeleteRecovered
  <2> QED BY <2>1, HostWithoutOK DEF StoreOK
<1>36. ASSUME ReconcilerRecovers PROVE StoreOK'
  <2>1. store' = store \/ store' = HostWithout
    BY <1>36 DEF ReconcilerRecovers, DeleteRecovered
  <2> QED BY <2>1, HostWithoutOK DEF StoreOK
<1>37. ASSUME ResumeInventory PROVE StoreOK'
  BY <1>37 DEF ResumeInventory
<1>38. ASSUME TemplateUpdated PROVE StoreOK'
  BY <1>38 DEF TemplateUpdated
<1>39. ASSUME RestoreState PROVE StoreOK'
  BY <1>39 DEF RestoreState
<1>40. ASSUME Crash PROVE StoreOK'
  BY <1>40 DEF Crash, Fails
<1>41. ASSUME Reboot PROVE StoreOK'
  BY <1>41 DEF Reboot
<1>42. ASSUME UNCHANGED inventoryVars PROVE StoreOK'
  BY <1>42 DEF inventoryVars
<1> QED BY <1>1, <1>2, <1>3, <1>4, <1>5, <1>6, <1>7, <1>8, <1>9, <1>10, <1>11, <1>12, <1>13, <1>14,
           <1>15, <1>16, <1>17, <1>18, <1>19, <1>20, <1>21, <1>22, <1>23, <1>24, <1>25, <1>26,
           <1>27, <1>28, <1>29, <1>30, <1>31, <1>32, <1>33, <1>34, <1>35, <1>36, <1>37, <1>38,
           <1>39, <1>40, <1>41, <1>42 DEF InventoryNext

\* Every step keeps the type of the journal.
LEMMA InventoryJournalTypes == InventoryInv /\ [InventoryNext]_inventoryVars => JournalOK'
<1> SUFFICES ASSUME InventoryInv, [InventoryNext]_inventoryVars PROVE JournalOK'
  OBVIOUS
<1> SepOK /\ StoreOK /\ JournalOK /\ SetsOK /\ TransactionInv /\ PhaseInv /\ PruneInv
  BY InventoryParts DEF InventoryInv
<1> USE DEF rest, AppendChecked, Rule, Phase, NoJournal, JournalOK, StoreOK, PhaseInv
<1>1. ASSUME BeginStage PROVE JournalOK'
  BY <1>1 DEF BeginStage
<1>2. ASSUME BeginStageFails PROVE JournalOK'
  BY <1>2 DEF BeginStageFails, Fails, OutcomeUnknown, SYNC_OUTCOME_UNKNOWN,
              EXTERNAL_DELETE_OUTCOME_UNKNOWN, SYNC_ABORTED_BEFORE_DISPATCH
<1>3. ASSUME StageCreate PROVE JournalOK'
  BY <1>3 DEF StageCreate
<1>4. ASSUME StageWrite PROVE JournalOK'
  BY <1>4 DEF StageWrite, Secure
<1>5. ASSUME ConfirmUser PROVE JournalOK'
  BY <1>5 DEF ConfirmUser
<1>6. ASSUME Cross PROVE JournalOK'
  BY <1>6 DEF Cross
<1>7. ASSUME RollForward PROVE JournalOK'
  BY <1>7 DEF RollForward, RolledForward, Discarded
<1>8. ASSUME SyncHostCommitted PROVE JournalOK'
  BY <1>8, SyncCommitStep
<1>9. ASSUME ExternalHostCommitted PROVE JournalOK'
  BY <1>9 DEF ExternalHostCommitted, EXTERNAL_DELETE_HOST_COMMITTED
<1>10. ASSUME ConfirmMaster PROVE JournalOK'
  BY <1>10 DEF ConfirmMaster
<1>11. ASSUME StepFails PROVE JournalOK'
  BY <1>11 DEF StepFails, Fails, OutcomeUnknown, SYNC_OUTCOME_UNKNOWN,
               EXTERNAL_DELETE_OUTCOME_UNKNOWN
<1>12. ASSUME SyncReadback PROVE JournalOK'
  BY <1>12 DEF SyncReadback, SyncReadsBack, OutcomeUnknown, SYNC_OUTCOME_UNKNOWN,
               EXTERNAL_DELETE_OUTCOME_UNKNOWN, SYNC_RECONCILED
<1>13. ASSUME ExternalReadback PROVE JournalOK'
  BY <1>13 DEF ExternalReadback, ExternalReadsBack, PruneVerified, OutcomeUnknown,
               SYNC_OUTCOME_UNKNOWN, EXTERNAL_DELETE_OUTCOME_UNKNOWN, EXTERNAL_DELETE_RECONCILED
<1>14. ASSUME RunSync PROVE JournalOK'
  BY <1>14 DEF RunSync, Startable, OnlyUserDirty
<1>15. ASSUME SyncIntent PROVE JournalOK'
  BY <1>15 DEF SyncIntent, SYNC_INTENT
<1>16. ASSUME RecoverSync PROVE JournalOK'
  BY <1>16, RecoverSyncStep
<1>17. ASSUME NEW gone \in SUBSET Fingers, RunExternal(FALSE, gone) PROVE JournalOK'
  BY <1>17 DEF RunExternal, Startable, Planned
<1>18. ASSUME NEW gone \in SUBSET Fingers, StartupReconciles(gone) PROVE JournalOK'
  BY <1>18 DEF StartupReconciles, RunExternal, Startable, Planned
<1>19. ASSUME CreateBackup PROVE JournalOK'
  BY <1>19 DEF CreateBackup
<1>20. ASSUME ExternalBaseline PROVE JournalOK'
  <2> DEFINE staged == [store.user EXCEPT !.ids = sep.ids]
  <2>1. store.user \in Archive /\ staged \in Archive
    BY DEF StoreOK, SepOK, Archive
  <2>2. j' = [NoJournal EXCEPT !.kind = "external", !.phase = "BASELINE", !.before = store.user,
                               !.staged = staged]
    BY <1>20 DEF ExternalBaseline, EXTERNAL_DELETE_BASELINE
  <2> HIDE DEF staged
  <2> QED BY <2>1, <2>2
<1>21. ASSUME ExternalIntent PROVE JournalOK'
  BY <1>21 DEF ExternalIntent, EXTERNAL_DELETE_INTENT
<1>22. ASSUME RecoverExternal PROVE JournalOK'
  BY <1>22 DEF RecoverExternal, ExternalDirection, RolledForward, Discarded, Discardable
<1>23. ASSUME ExternalAborted PROVE JournalOK'
  BY <1>23 DEF ExternalAborted, EXTERNAL_DELETE_ABORTED
<1>24. ASSUME ExternalClassify PROVE JournalOK'
  BY <1>24 DEF ExternalClassify, EXTERNAL_DELETE_ABORTED, EXTERNAL_DELETE_HOST_COMMITTED
<1>25. ASSUME RecoveredReadback PROVE JournalOK'
  BY <1>25 DEF RecoveredReadback, ExternalReadsBack, PruneVerified, EXTERNAL_DELETE_RECONCILED
<1>26. ASSUME RunPurge PROVE JournalOK'
  BY <1>26 DEF RunPurge, Startable
<1>27. ASSUME BatchStarted PROVE JournalOK'
  BY <1>27 DEF BatchStarted, BATCH_STARTED
<1>28. ASSUME ItemIntent PROVE JournalOK'
  BY <1>28, ItemStep
<1>29. ASSUME ItemDeleted PROVE JournalOK'
  BY <1>29 DEF ItemDeleted, Deletable, SepWithout, HostWithout
<1>30. ASSUME ItemRefused PROVE JournalOK'
  BY <1>30 DEF ItemRefused, Fails
<1>31. ASSUME ItemInterrupted PROVE JournalOK'
  BY <1>31 DEF ItemInterrupted, Fails, Deletable, SepWithout, HostWithout
<1>32. ASSUME ItemReconciled PROVE JournalOK'
  BY <1>32, ItemStep
<1>33. ASSUME BatchReconciled PROVE JournalOK'
  BY <1>33 DEF BatchReconciled, BATCH_RECONCILED
<1>34. ASSUME ResumePurge PROVE JournalOK'
  BY <1>34 DEF ResumePurge, Purging
<1>35. ASSUME RecoverChild PROVE JournalOK'
  BY <1>35 DEF RecoverChild, DeleteRecovered, SepWithout, HostWithout
<1>36. ASSUME ReconcilerRecovers PROVE JournalOK'
  BY <1>36 DEF ReconcilerRecovers, PendingNativeCandidate, Bound, Purging, DeleteRecovered,
               SepWithout, HostWithout
<1>37. ASSUME ResumeInventory PROVE JournalOK'
  BY <1>37 DEF ResumeInventory
<1>38. ASSUME TemplateUpdated PROVE JournalOK'
  BY <1>38 DEF TemplateUpdated
<1>39. ASSUME RestoreState PROVE JournalOK'
  BY <1>39 DEF RestoreState
<1>40. ASSUME Crash PROVE JournalOK'
  BY <1>40 DEF Crash, Fails
<1>41. ASSUME Reboot PROVE JournalOK'
  BY <1>41 DEF Reboot
<1>42. ASSUME UNCHANGED inventoryVars PROVE JournalOK'
  BY <1>42 DEF inventoryVars
<1> QED BY <1>1, <1>2, <1>3, <1>4, <1>5, <1>6, <1>7, <1>8, <1>9, <1>10, <1>11, <1>12, <1>13, <1>14,
           <1>15, <1>16, <1>17, <1>18, <1>19, <1>20, <1>21, <1>22, <1>23, <1>24, <1>25, <1>26,
           <1>27, <1>28, <1>29, <1>30, <1>31, <1>32, <1>33, <1>34, <1>35, <1>36, <1>37, <1>38,
           <1>39, <1>40, <1>41, <1>42 DEF InventoryNext

\* Every step keeps the types of the counters and sets.
LEMMA InventorySetTypes == InventoryInv /\ [InventoryNext]_inventoryVars => SetsOK'
<1> SUFFICES ASSUME InventoryInv, [InventoryNext]_inventoryVars PROVE SetsOK'
  OBVIOUS
<1> SepOK /\ StoreOK /\ JournalOK /\ SetsOK /\ TransactionInv /\ PhaseInv /\ PruneInv
  BY InventoryParts DEF InventoryInv
<1> USE DEF rest, AppendChecked, Rule, Phase, NoJournal, SetsOK
<1>1. ASSUME BeginStage PROVE SetsOK'
  BY <1>1 DEF BeginStage
<1>2. ASSUME BeginStageFails PROVE SetsOK'
  BY <1>2 DEF BeginStageFails, Fails, OutcomeUnknown, SYNC_OUTCOME_UNKNOWN,
              EXTERNAL_DELETE_OUTCOME_UNKNOWN, SYNC_ABORTED_BEFORE_DISPATCH
<1>3. ASSUME StageCreate PROVE SetsOK'
  BY <1>3 DEF StageCreate
<1>4. ASSUME StageWrite PROVE SetsOK'
  BY <1>4 DEF StageWrite, Secure
<1>5. ASSUME ConfirmUser PROVE SetsOK'
  BY <1>5 DEF ConfirmUser
<1>6. ASSUME Cross PROVE SetsOK'
  BY <1>6 DEF Cross
<1>7. ASSUME RollForward PROVE SetsOK'
  BY <1>7 DEF RollForward, RolledForward, Discarded
<1>8. ASSUME SyncHostCommitted PROVE SetsOK'
  BY <1>8 DEF SyncHostCommitted, SYNC_HOST_COMMITTED
<1>9. ASSUME ExternalHostCommitted PROVE SetsOK'
  BY <1>9 DEF ExternalHostCommitted, EXTERNAL_DELETE_HOST_COMMITTED
<1>10. ASSUME ConfirmMaster PROVE SetsOK'
  BY <1>10 DEF ConfirmMaster
<1>11. ASSUME StepFails PROVE SetsOK'
  BY <1>11 DEF StepFails, Fails, OutcomeUnknown, SYNC_OUTCOME_UNKNOWN,
               EXTERNAL_DELETE_OUTCOME_UNKNOWN
<1>12. ASSUME SyncReadback PROVE SetsOK'
  BY <1>12 DEF SyncReadback, SyncReadsBack, OutcomeUnknown, SYNC_OUTCOME_UNKNOWN,
               EXTERNAL_DELETE_OUTCOME_UNKNOWN, SYNC_RECONCILED
<1>13. ASSUME ExternalReadback PROVE SetsOK'
  BY <1>13 DEF ExternalReadback, ExternalReadsBack, PruneVerified, OutcomeUnknown,
               SYNC_OUTCOME_UNKNOWN, EXTERNAL_DELETE_OUTCOME_UNKNOWN, EXTERNAL_DELETE_RECONCILED
<1>14. ASSUME RunSync PROVE SetsOK'
  BY <1>14 DEF RunSync, Startable, OnlyUserDirty
<1>15. ASSUME SyncIntent PROVE SetsOK'
  BY <1>15 DEF SyncIntent, SYNC_INTENT
<1>16. ASSUME RecoverSync PROVE SetsOK'
  BY <1>16 DEF RecoverSync, Ambiguous, Exact, OnlyUserDirty, SYNC_RECOVERY_INTENT,
               SYNC_RECOVERED_CLEAN
<1>17. ASSUME NEW gone \in SUBSET Fingers, RunExternal(FALSE, gone) PROVE SetsOK'
  BY <1>17 DEF RunExternal, Startable, Planned
<1>18. ASSUME NEW gone \in SUBSET Fingers, StartupReconciles(gone) PROVE SetsOK'
  BY <1>18 DEF StartupReconciles, RunExternal, Startable, Planned
<1>19. ASSUME CreateBackup PROVE SetsOK'
  BY <1>19 DEF CreateBackup, StoreOK
<1>20. ASSUME ExternalBaseline PROVE SetsOK'
  BY <1>20 DEF ExternalBaseline, EXTERNAL_DELETE_BASELINE
<1>21. ASSUME ExternalIntent PROVE SetsOK'
  BY <1>21 DEF ExternalIntent, EXTERNAL_DELETE_INTENT
<1>22. ASSUME RecoverExternal PROVE SetsOK'
  BY <1>22 DEF RecoverExternal, ExternalDirection, RolledForward, Discarded, Discardable
<1>23. ASSUME ExternalAborted PROVE SetsOK'
  BY <1>23 DEF ExternalAborted, EXTERNAL_DELETE_ABORTED
<1>24. ASSUME ExternalClassify PROVE SetsOK'
  BY <1>24 DEF ExternalClassify, EXTERNAL_DELETE_ABORTED, EXTERNAL_DELETE_HOST_COMMITTED
<1>25. ASSUME RecoveredReadback PROVE SetsOK'
  BY <1>25 DEF RecoveredReadback, ExternalReadsBack, PruneVerified, EXTERNAL_DELETE_RECONCILED
<1>26. ASSUME RunPurge PROVE SetsOK'
  BY <1>26 DEF RunPurge, Startable
<1>27. ASSUME BatchStarted PROVE SetsOK'
  BY <1>27 DEF BatchStarted, BATCH_STARTED
<1>28. ASSUME ItemIntent PROVE SetsOK'
  BY <1>28 DEF ItemIntent, BATCH_ITEM_INTENT
<1>29. ASSUME ItemDeleted PROVE SetsOK'
  BY <1>29 DEF ItemDeleted, Deletable, SepWithout, HostWithout
<1>30. ASSUME ItemRefused PROVE SetsOK'
  BY <1>30 DEF ItemRefused, Fails
<1>31. ASSUME ItemInterrupted PROVE SetsOK'
  BY <1>31 DEF ItemInterrupted, Fails, Deletable, SepWithout, HostWithout
<1>32. ASSUME ItemReconciled PROVE SetsOK'
  BY <1>32 DEF ItemReconciled, BATCH_ITEM_RECONCILED
<1>33. ASSUME BatchReconciled PROVE SetsOK'
  BY <1>33 DEF BatchReconciled, BATCH_RECONCILED
<1>34. ASSUME ResumePurge PROVE SetsOK'
  BY <1>34 DEF ResumePurge, Purging
<1>35. ASSUME RecoverChild PROVE SetsOK'
  BY <1>35 DEF RecoverChild, DeleteRecovered, SepWithout, HostWithout
<1>36. ASSUME ReconcilerRecovers PROVE SetsOK'
  BY <1>36 DEF ReconcilerRecovers, PendingNativeCandidate, Bound, Purging, DeleteRecovered,
               SepWithout, HostWithout
<1>37. ASSUME ResumeInventory PROVE SetsOK'
  BY <1>37 DEF ResumeInventory
<1>38. ASSUME TemplateUpdated PROVE SetsOK'
  BY <1>38 DEF TemplateUpdated
<1>39. ASSUME RestoreState PROVE SetsOK'
  BY <1>39 DEF RestoreState
<1>40. ASSUME Crash PROVE SetsOK'
  BY <1>40 DEF Crash, Fails
<1>41. ASSUME Reboot PROVE SetsOK'
  BY <1>41 DEF Reboot, SepOK
<1>42. ASSUME UNCHANGED inventoryVars PROVE SetsOK'
  BY <1>42 DEF inventoryVars
<1> QED BY <1>1, <1>2, <1>3, <1>4, <1>5, <1>6, <1>7, <1>8, <1>9, <1>10, <1>11, <1>12, <1>13, <1>14,
           <1>15, <1>16, <1>17, <1>18, <1>19, <1>20, <1>21, <1>22, <1>23, <1>24, <1>25, <1>26,
           <1>27, <1>28, <1>29, <1>30, <1>31, <1>32, <1>33, <1>34, <1>35, <1>36, <1>37, <1>38,
           <1>39, <1>40, <1>41, <1>42 DEF InventoryNext

\* Every step keeps what its position says of the local transaction.
LEMMA InventoryTransactions == InventoryInv /\ [InventoryNext]_inventoryVars => TransactionInv'
<1> SUFFICES ASSUME InventoryInv, [InventoryNext]_inventoryVars PROVE TransactionInv'
  OBVIOUS
<1> USE AbsentAssumption DEF rest, AppendChecked, Rule, Phase, NoJournal, InventoryInv,
                             InventoryTypeOK, TransactionInv, PhaseInv, PruneInv, Pruning, Unstaged,
                             UserStaged, Staging, Batch, NoFiles
<1>1. ASSUME BeginStage PROVE TransactionInv'
  BY <1>1 DEF BeginStage
<1>2. ASSUME BeginStageFails PROVE TransactionInv'
  BY <1>2 DEF BeginStageFails, Fails, OutcomeUnknown, SYNC_OUTCOME_UNKNOWN,
              EXTERNAL_DELETE_OUTCOME_UNKNOWN, SYNC_ABORTED_BEFORE_DISPATCH
<1>3. ASSUME StageCreate PROVE TransactionInv'
  BY <1>3 DEF StageCreate
<1>4. ASSUME StageWrite PROVE TransactionInv'
  <2>1. CASE step = "write_master"
    <3>1. store' = [store EXCEPT !.files.master = saves + 1] /\ saves + 1 \in Nat /\ step' = "cross"
      BY <1>4, <2>1 DEF StageWrite
    <3> QED BY <1>4, <2>1, <3>1 DEF StageWrite
  <2>2. CASE step = "write_user" /\ j.kind = "sync"
    <3> DEFINE a == [store.user EXCEPT !.blob = Secure, !.save = saves + 1]
    <3>1. store' = [store EXCEPT !.files.user = a] /\ step' = "confirm_user" /\ j' = j
      BY <1>4, <2>2 DEF StageWrite
    <3>2. a \in Archive
      <4>1. Secure \in Content /\ saves + 1 \in Nat /\ store.user \in Archive
        BY DEF Content, Secure
      <4> QED BY <4>1 DEF Archive
    <3> HIDE DEF a
    <3> QED BY <2>2, <3>1, <3>2
  <2>3. CASE step = "write_user" /\ j.kind = "external"
    <3>1. store' = [store EXCEPT !.files.user = j.staged] /\ step' = "cross" /\ j' = j
      BY <1>4, <2>3 DEF StageWrite
    <3>2. j.staged \in Archive
      BY <2>3
    <3> QED BY <2>3, <3>1, <3>2
  <2> QED BY <1>4, <2>1, <2>2, <2>3 DEF StageWrite
<1>5. ASSUME ConfirmUser PROVE TransactionInv'
  BY <1>5 DEF ConfirmUser
<1>6. ASSUME Cross PROVE TransactionInv'
  BY <1>6 DEF Cross
<1>7. ASSUME RollForward PROVE TransactionInv'
  BY <1>7 DEF RollForward, RolledForward, Discarded
<1>8. ASSUME SyncHostCommitted PROVE TransactionInv'
  BY <1>8 DEF SyncHostCommitted, SYNC_HOST_COMMITTED
<1>9. ASSUME ExternalHostCommitted PROVE TransactionInv'
  BY <1>9 DEF ExternalHostCommitted, EXTERNAL_DELETE_HOST_COMMITTED
<1>10. ASSUME ConfirmMaster PROVE TransactionInv'
  BY <1>10 DEF ConfirmMaster
<1>11. ASSUME StepFails PROVE TransactionInv'
  BY <1>11 DEF StepFails, Fails, OutcomeUnknown, SYNC_OUTCOME_UNKNOWN,
               EXTERNAL_DELETE_OUTCOME_UNKNOWN
<1>12. ASSUME SyncReadback PROVE TransactionInv'
  BY <1>12 DEF SyncReadback, SyncReadsBack, OutcomeUnknown, SYNC_OUTCOME_UNKNOWN,
               EXTERNAL_DELETE_OUTCOME_UNKNOWN, SYNC_RECONCILED
<1>13. ASSUME ExternalReadback PROVE TransactionInv'
  BY <1>13 DEF ExternalReadback, ExternalReadsBack, PruneVerified, OutcomeUnknown,
               SYNC_OUTCOME_UNKNOWN, EXTERNAL_DELETE_OUTCOME_UNKNOWN, EXTERNAL_DELETE_RECONCILED
<1>14. ASSUME RunSync PROVE TransactionInv'
  BY <1>14 DEF RunSync, Startable, OnlyUserDirty
<1>15. ASSUME SyncIntent PROVE TransactionInv'
  BY <1>15 DEF SyncIntent, SYNC_INTENT
<1>16. ASSUME RecoverSync PROVE TransactionInv'
  BY <1>16 DEF RecoverSync, Ambiguous, Exact, OnlyUserDirty, SYNC_RECOVERY_INTENT,
               SYNC_RECOVERED_CLEAN
<1>17. ASSUME NEW gone \in SUBSET Fingers, RunExternal(FALSE, gone) PROVE TransactionInv'
  BY <1>17 DEF RunExternal, Startable, Planned
<1>18. ASSUME NEW gone \in SUBSET Fingers, StartupReconciles(gone) PROVE TransactionInv'
  BY <1>18 DEF StartupReconciles, RunExternal, Startable, Planned
<1>19. ASSUME CreateBackup PROVE TransactionInv'
  BY <1>19 DEF CreateBackup
<1>20. ASSUME ExternalBaseline PROVE TransactionInv'
  BY <1>20 DEF ExternalBaseline, EXTERNAL_DELETE_BASELINE
<1>21. ASSUME ExternalIntent PROVE TransactionInv'
  BY <1>21 DEF ExternalIntent, EXTERNAL_DELETE_INTENT
<1>22. ASSUME RecoverExternal PROVE TransactionInv'
  BY <1>22 DEF RecoverExternal, ExternalDirection, RolledForward, Discarded, Discardable
<1>23. ASSUME ExternalAborted PROVE TransactionInv'
  BY <1>23 DEF ExternalAborted, EXTERNAL_DELETE_ABORTED
<1>24. ASSUME ExternalClassify PROVE TransactionInv'
  BY <1>24 DEF ExternalClassify, EXTERNAL_DELETE_ABORTED, EXTERNAL_DELETE_HOST_COMMITTED
<1>25. ASSUME RecoveredReadback PROVE TransactionInv'
  BY <1>25 DEF RecoveredReadback, ExternalReadsBack, PruneVerified, EXTERNAL_DELETE_RECONCILED
<1>26. ASSUME RunPurge PROVE TransactionInv'
  BY <1>26 DEF RunPurge, Startable
<1>27. ASSUME BatchStarted PROVE TransactionInv'
  BY <1>27 DEF BatchStarted, BATCH_STARTED
<1>28. ASSUME ItemIntent PROVE TransactionInv'
  BY <1>28 DEF ItemIntent, BATCH_ITEM_INTENT
<1>29. ASSUME ItemDeleted PROVE TransactionInv'
  BY <1>29 DEF ItemDeleted, Deletable, SepWithout, HostWithout
<1>30. ASSUME ItemRefused PROVE TransactionInv'
  BY <1>30 DEF ItemRefused, Fails
<1>31. ASSUME ItemInterrupted PROVE TransactionInv'
  BY <1>31 DEF ItemInterrupted, Fails, Deletable, SepWithout, HostWithout
<1>32. ASSUME ItemReconciled PROVE TransactionInv'
  BY <1>32 DEF ItemReconciled, BATCH_ITEM_RECONCILED
<1>33. ASSUME BatchReconciled PROVE TransactionInv'
  BY <1>33 DEF BatchReconciled, BATCH_RECONCILED
<1>34. ASSUME ResumePurge PROVE TransactionInv'
  BY <1>34 DEF ResumePurge, Purging
<1>35. ASSUME RecoverChild PROVE TransactionInv'
  <2>1. step' = "resume_inventory" /\ j.kind = "batch" /\ store.txn = "none"
    BY <1>35 DEF RecoverChild
  <2>3. store'.txn = store.txn /\ store'.files = store.files /\ j' = j
    BY <1>35, HostWithoutFields, InventoryParts DEF RecoverChild, DeleteRecovered
  <2> QED BY <2>1, <2>3
<1>36. ASSUME ReconcilerRecovers PROVE TransactionInv'
  <2>1. child # None /\ UNCHANGED step
    BY <1>36 DEF ReconcilerRecovers, DeleteRecovered
  <2>2. j.kind = "batch" /\ store.txn = "none" /\ step = "idle"
    BY <1>36, <2>1 DEF ReconcilerRecovers
  <2>3. store'.txn = store.txn /\ store'.files = store.files /\ j' = j
    BY <1>36, HostWithoutFields, InventoryParts DEF ReconcilerRecovers, DeleteRecovered
  <2> QED BY <2>1, <2>2, <2>3
<1>37. ASSUME ResumeInventory PROVE TransactionInv'
  BY <1>37 DEF ResumeInventory
<1>38. ASSUME TemplateUpdated PROVE TransactionInv'
  BY <1>38 DEF TemplateUpdated
<1>39. ASSUME RestoreState PROVE TransactionInv'
  BY <1>39 DEF RestoreState
<1>40. ASSUME Crash PROVE TransactionInv'
  BY <1>40 DEF Crash, Fails
<1>41. ASSUME Reboot PROVE TransactionInv'
  BY <1>41 DEF Reboot
<1>42. ASSUME UNCHANGED inventoryVars PROVE TransactionInv'
  BY <1>42 DEF inventoryVars
<1> QED BY <1>1, <1>2, <1>3, <1>4, <1>5, <1>6, <1>7, <1>8, <1>9, <1>10, <1>11, <1>12, <1>13, <1>14,
           <1>15, <1>16, <1>17, <1>18, <1>19, <1>20, <1>21, <1>22, <1>23, <1>24, <1>25, <1>26,
           <1>27, <1>28, <1>29, <1>30, <1>31, <1>32, <1>33, <1>34, <1>35, <1>36, <1>37, <1>38,
           <1>39, <1>40, <1>41, <1>42 DEF InventoryNext

\* Every step keeps the journal at the phase its position says.
LEMMA InventoryPhases == InventoryInv /\ [InventoryNext]_inventoryVars => PhaseInv'
<1> SUFFICES ASSUME InventoryInv, [InventoryNext]_inventoryVars PROVE PhaseInv'
  OBVIOUS
<1> USE DEF rest, AppendChecked, Rule, Phase, NoJournal, InventoryInv, TransactionInv, PhaseInv,
            Unstaged, UserStaged, Staging, Batch, Complete, Blocks
<1>1. ASSUME BeginStage PROVE PhaseInv'
  BY <1>1 DEF BeginStage
<1>2. ASSUME BeginStageFails PROVE PhaseInv'
  BY <1>2 DEF BeginStageFails, Fails, OutcomeUnknown, SYNC_OUTCOME_UNKNOWN,
              EXTERNAL_DELETE_OUTCOME_UNKNOWN, SYNC_ABORTED_BEFORE_DISPATCH
<1>3. ASSUME StageCreate PROVE PhaseInv'
  BY <1>3 DEF StageCreate
<1>4. ASSUME StageWrite PROVE PhaseInv'
  BY <1>4 DEF StageWrite, Secure
<1>5. ASSUME ConfirmUser PROVE PhaseInv'
  BY <1>5 DEF ConfirmUser
<1>6. ASSUME Cross PROVE PhaseInv'
  BY <1>6 DEF Cross
<1>7. ASSUME RollForward PROVE PhaseInv'
  BY <1>7 DEF RollForward, RolledForward, Discarded
<1>8. ASSUME SyncHostCommitted PROVE PhaseInv'
  BY <1>8, SyncCommitStep
<1>9. ASSUME ExternalHostCommitted PROVE PhaseInv'
  BY <1>9 DEF ExternalHostCommitted, EXTERNAL_DELETE_HOST_COMMITTED
<1>10. ASSUME ConfirmMaster PROVE PhaseInv'
  BY <1>10 DEF ConfirmMaster
<1>11. ASSUME StepFails PROVE PhaseInv'
  BY <1>11 DEF StepFails, Fails, OutcomeUnknown, SYNC_OUTCOME_UNKNOWN,
               EXTERNAL_DELETE_OUTCOME_UNKNOWN
<1>12. ASSUME SyncReadback PROVE PhaseInv'
  BY <1>12 DEF SyncReadback, SyncReadsBack, OutcomeUnknown, SYNC_OUTCOME_UNKNOWN,
               EXTERNAL_DELETE_OUTCOME_UNKNOWN, SYNC_RECONCILED
<1>13. ASSUME ExternalReadback PROVE PhaseInv'
  BY <1>13 DEF ExternalReadback, ExternalReadsBack, PruneVerified, OutcomeUnknown,
               SYNC_OUTCOME_UNKNOWN, EXTERNAL_DELETE_OUTCOME_UNKNOWN, EXTERNAL_DELETE_RECONCILED
<1>14. ASSUME RunSync PROVE PhaseInv'
  BY <1>14 DEF RunSync, Startable, OnlyUserDirty
<1>15. ASSUME SyncIntent PROVE PhaseInv'
  BY <1>15 DEF SyncIntent, SYNC_INTENT
<1>16. ASSUME RecoverSync PROVE PhaseInv'
  BY <1>16, RecoverSyncStep
<1>17. ASSUME NEW gone \in SUBSET Fingers, RunExternal(FALSE, gone) PROVE PhaseInv'
  BY <1>17 DEF RunExternal, Startable, Planned
<1>18. ASSUME NEW gone \in SUBSET Fingers, StartupReconciles(gone) PROVE PhaseInv'
  BY <1>18 DEF StartupReconciles, RunExternal, Startable, Planned
<1>19. ASSUME CreateBackup PROVE PhaseInv'
  BY <1>19 DEF CreateBackup
<1>20. ASSUME ExternalBaseline PROVE PhaseInv'
  BY <1>20 DEF ExternalBaseline, EXTERNAL_DELETE_BASELINE
<1>21. ASSUME ExternalIntent PROVE PhaseInv'
  BY <1>21 DEF ExternalIntent, EXTERNAL_DELETE_INTENT
<1>22. ASSUME RecoverExternal PROVE PhaseInv'
  BY <1>22 DEF RecoverExternal, ExternalDirection, RolledForward, Discarded, Discardable
<1>23. ASSUME ExternalAborted PROVE PhaseInv'
  BY <1>23 DEF ExternalAborted, EXTERNAL_DELETE_ABORTED
<1>24. ASSUME ExternalClassify PROVE PhaseInv'
  BY <1>24 DEF ExternalClassify, EXTERNAL_DELETE_ABORTED, EXTERNAL_DELETE_HOST_COMMITTED
<1>25. ASSUME RecoveredReadback PROVE PhaseInv'
  BY <1>25 DEF RecoveredReadback, ExternalReadsBack, PruneVerified, EXTERNAL_DELETE_RECONCILED
<1>26. ASSUME RunPurge PROVE PhaseInv'
  BY <1>26 DEF RunPurge, Startable
<1>27. ASSUME BatchStarted PROVE PhaseInv'
  BY <1>27 DEF BatchStarted, BATCH_STARTED
<1>28. ASSUME ItemIntent PROVE PhaseInv'
  BY <1>28, ItemStep
<1>29. ASSUME ItemDeleted PROVE PhaseInv'
  BY <1>29 DEF ItemDeleted, Deletable, SepWithout, HostWithout
<1>30. ASSUME ItemRefused PROVE PhaseInv'
  BY <1>30 DEF ItemRefused, Fails
<1>31. ASSUME ItemInterrupted PROVE PhaseInv'
  BY <1>31 DEF ItemInterrupted, Fails, Deletable, SepWithout, HostWithout
<1>32. ASSUME ItemReconciled PROVE PhaseInv'
  BY <1>32, ItemStep
<1>33. ASSUME BatchReconciled PROVE PhaseInv'
  BY <1>33 DEF BatchReconciled, BATCH_RECONCILED
<1>34. ASSUME ResumePurge PROVE PhaseInv'
  BY <1>34 DEF ResumePurge, Purging
<1>35. ASSUME RecoverChild PROVE PhaseInv'
  BY <1>35 DEF RecoverChild, DeleteRecovered, SepWithout, HostWithout
<1>36. ASSUME ReconcilerRecovers PROVE PhaseInv'
  BY <1>36 DEF ReconcilerRecovers, PendingNativeCandidate, Bound, Purging, DeleteRecovered,
               SepWithout, HostWithout
<1>37. ASSUME ResumeInventory PROVE PhaseInv'
  BY <1>37 DEF ResumeInventory
<1>38. ASSUME TemplateUpdated PROVE PhaseInv'
  BY <1>38 DEF TemplateUpdated
<1>39. ASSUME RestoreState PROVE PhaseInv'
  BY <1>39 DEF RestoreState
<1>40. ASSUME Crash PROVE PhaseInv'
  BY <1>40 DEF Crash, Fails
<1>41. ASSUME Reboot PROVE PhaseInv'
  BY <1>41 DEF Reboot
<1>42. ASSUME UNCHANGED inventoryVars PROVE PhaseInv'
  BY <1>42 DEF inventoryVars
<1> QED BY <1>1, <1>2, <1>3, <1>4, <1>5, <1>6, <1>7, <1>8, <1>9, <1>10, <1>11, <1>12, <1>13, <1>14,
           <1>15, <1>16, <1>17, <1>18, <1>19, <1>20, <1>21, <1>22, <1>23, <1>24, <1>25, <1>26,
           <1>27, <1>28, <1>29, <1>30, <1>31, <1>32, <1>33, <1>34, <1>35, <1>36, <1>37, <1>38,
           <1>39, <1>40, <1>41, <1>42 DEF InventoryNext

\* Every step keeps a saved template in the archive, or with the sync that owns it.
LEMMA InventorySync == InventoryInv /\ [InventoryNext]_inventoryVars => SyncInv'
<1> SUFFICES ASSUME InventoryInv, [InventoryNext]_inventoryVars PROVE SyncInv'
  OBVIOUS
<1> USE AbsentAssumption DEF rest, AppendChecked, Rule, Phase, NoJournal, InventoryInv,
                             InventoryTypeOK, TransactionInv, PhaseInv, SyncInv, Agrees, Secure,
                             Clean, LocalLiveEqual, Unstaged, UserStaged, Staging, Batch, Complete,
                             Blocks, Archive, Content
<1>1. ASSUME BeginStage PROVE SyncInv'
  BY <1>1 DEF BeginStage
<1>2. ASSUME BeginStageFails PROVE SyncInv'
  BY <1>2 DEF BeginStageFails, Fails, OutcomeUnknown, SYNC_OUTCOME_UNKNOWN,
              EXTERNAL_DELETE_OUTCOME_UNKNOWN, SYNC_ABORTED_BEFORE_DISPATCH
<1>3. ASSUME StageCreate PROVE SyncInv'
  BY <1>3 DEF StageCreate
<1>4. ASSUME StageWrite PROVE SyncInv'
  <2> StoreOK /\ SepOK
    BY InventoryParts
  <2>1. CASE step = "write_master"
    <3>1. store' = [store EXCEPT !.files.master = saves + 1] /\ step' = "cross" /\ UNCHANGED <<sep, j, foreign>>
      BY <1>4, <2>1 DEF StageWrite
    <3>2. store'.user = store.user /\ store'.files.user = store.files.user /\ store'.master = store.master
      BY <3>1 DEF StoreOK
    <3> QED BY <2>1, <3>1, <3>2
  <2>2. CASE step = "write_user" /\ j.kind = "sync"
    <3> DEFINE a == [store.user EXCEPT !.blob = Secure, !.save = saves + 1]
    <3>1. store' = [store EXCEPT !.files.user = a] /\ step' = "confirm_user" /\ UNCHANGED <<sep, j, foreign>>
      BY <1>4, <2>2 DEF StageWrite
    <3>2. a.blob = Secure /\ a.ids = store.user.ids
      BY DEF Archive, StoreOK
    <3> HIDE DEF a
    <3>3. store'.user = store.user /\ store'.files.user = a /\ store'.master = store.master
      BY <3>1 DEF StoreOK
    <3> QED BY <2>2, <3>1, <3>2, <3>3
  <2>3. CASE step = "write_user" /\ j.kind = "external"
    <3>1. store' = [store EXCEPT !.files.user = j.staged] /\ step' = "cross" /\ UNCHANGED <<sep, j, foreign>>
      BY <1>4, <2>3 DEF StageWrite
    <3>2. store'.user = store.user
      BY <3>1 DEF StoreOK
    <3> QED BY <2>3, <3>1, <3>2
  <2> QED BY <1>4, <2>1, <2>2, <2>3 DEF StageWrite
<1>5. ASSUME ConfirmUser PROVE SyncInv'
  BY <1>5 DEF ConfirmUser
<1>6. ASSUME Cross PROVE SyncInv'
  BY <1>6 DEF Cross
<1>7. ASSUME RollForward PROVE SyncInv'
  <2> StoreOK
    BY InventoryParts
  <2>1. /\ step = "roll_forward" /\ step' = "HOST_COMMITTED" /\ UNCHANGED <<sep, j, foreign>>
        /\ store.txn = "commit" /\ store.files.user \in Archive
        /\ j.kind \in {"sync", "external"} /\ j.phase = "INTENT"
    BY <1>7 DEF RollForward
  <2>2. store'.user = store.files.user
    BY <1>7, <2>1 DEF RollForward, RolledForward, Discarded, StoreOK
  <2>3. CASE j.kind = "sync"
    BY <2>1, <2>2, <2>3
  <2>4. CASE j.kind = "external"
    <3>1. store.files.user.blob = store.user.blob
      BY <2>1, <2>4 DEF PruneInv, Pruning, Archive
    <3> QED BY <2>1, <2>2, <2>4, <3>1
  <2> QED BY <2>1, <2>3, <2>4
<1>8. ASSUME SyncHostCommitted PROVE SyncInv'
  BY <1>8, SyncCommitStep
<1>9. ASSUME ExternalHostCommitted PROVE SyncInv'
  BY <1>9 DEF ExternalHostCommitted, EXTERNAL_DELETE_HOST_COMMITTED
<1>10. ASSUME ConfirmMaster PROVE SyncInv'
  BY <1>10 DEF ConfirmMaster
<1>11. ASSUME StepFails PROVE SyncInv'
  BY <1>11 DEF StepFails, Fails, OutcomeUnknown, SYNC_OUTCOME_UNKNOWN,
               EXTERNAL_DELETE_OUTCOME_UNKNOWN
<1>12. ASSUME SyncReadback PROVE SyncInv'
  BY <1>12 DEF SyncReadback, SyncReadsBack, OutcomeUnknown, SYNC_OUTCOME_UNKNOWN,
               EXTERNAL_DELETE_OUTCOME_UNKNOWN, SYNC_RECONCILED
<1>13. ASSUME ExternalReadback PROVE SyncInv'
  BY <1>13 DEF ExternalReadback, ExternalReadsBack, PruneVerified, OutcomeUnknown,
               SYNC_OUTCOME_UNKNOWN, EXTERNAL_DELETE_OUTCOME_UNKNOWN, EXTERNAL_DELETE_RECONCILED
<1>14. ASSUME RunSync PROVE SyncInv'
  BY <1>14 DEF RunSync, Startable, OnlyUserDirty
<1>15. ASSUME SyncIntent PROVE SyncInv'
  BY <1>15 DEF SyncIntent, SYNC_INTENT
<1>16. ASSUME RecoverSync PROVE SyncInv'
  <2>1. LocalLiveEqual /\ j.kind = "sync" /\ j.commit = <<store.user, store.master>> /\ j.phase = "OUTCOME_UNKNOWN"
    BY <1>16, RecoverSyncStep
  <2>2. j.commit # None
    BY <2>1, CommitPresent, InventoryParts
  <2>3. sep.loaded /\ sep.ids = store.user.ids
    BY <2>1
  <2>4. CASE Clean /\ j'.phase = "RECONCILED" /\ j'.commit = j.commit /\ step' = "idle"
    BY <1>16, RecoverSyncStep, <2>2, <2>4
  <2>5. CASE OnlyUserDirty /\ j'.phase = "INTENT" /\ j'.commit = None /\ step' = "begin_stage"
    <3>1. /\ sep.dirty /\ store.user.ids # {} /\ j'.kind = "sync"
          /\ UNCHANGED <<sep, store, foreign>>
      BY <1>16, RecoverSyncStep, <2>1, <2>5 DEF OnlyUserDirty
    <3> QED BY <2>3, <2>5, <3>1
  <2> QED BY <1>16, RecoverSyncStep, <2>4, <2>5
<1>17. ASSUME NEW gone \in SUBSET Fingers, RunExternal(FALSE, gone) PROVE SyncInv'
  BY <1>17 DEF RunExternal, Startable, Planned
<1>18. ASSUME NEW gone \in SUBSET Fingers, StartupReconciles(gone) PROVE SyncInv'
  BY <1>18 DEF StartupReconciles, RunExternal, Startable, Planned
<1>19. ASSUME CreateBackup PROVE SyncInv'
  BY <1>19 DEF CreateBackup
<1>20. ASSUME ExternalBaseline PROVE SyncInv'
  BY <1>20 DEF ExternalBaseline, EXTERNAL_DELETE_BASELINE
<1>21. ASSUME ExternalIntent PROVE SyncInv'
  BY <1>21 DEF ExternalIntent, EXTERNAL_DELETE_INTENT
<1>22. ASSUME RecoverExternal PROVE SyncInv'
  <2> StoreOK
    BY InventoryParts
  <2>1. j.kind = "external" /\ step' # "idle" /\ UNCHANGED <<sep, j, foreign>>
    BY <1>22 DEF RecoverExternal
  <2>2. store'.user.blob = store.user.blob
    <3>1. CASE store.txn = "commit"
      <4>1. store.files.user = j.staged /\ store.user = j.before /\ j.staged.blob = j.before.blob /\ store.files.user \in Archive
        BY <1>22, <3>1 DEF RecoverExternal, PruneInv, Pruning
      <4>2. store'.user = j.staged
        BY <1>22, <3>1, <4>1 DEF RecoverExternal, ExternalDirection, RolledForward, Discarded, StoreOK
      <4> QED BY <4>1, <4>2
    <3>2. CASE store.txn # "commit"
      <4>1. store'.user = store.user
        BY <1>22, <3>2 DEF RecoverExternal, ExternalDirection, Discarded, StoreOK
      <4> QED BY <4>1
    <3> QED BY <3>1, <3>2
  <2> QED BY <2>1, <2>2
<1>23. ASSUME ExternalAborted PROVE SyncInv'
  BY <1>23 DEF ExternalAborted, EXTERNAL_DELETE_ABORTED
<1>24. ASSUME ExternalClassify PROVE SyncInv'
  BY <1>24 DEF ExternalClassify, EXTERNAL_DELETE_ABORTED, EXTERNAL_DELETE_HOST_COMMITTED
<1>25. ASSUME RecoveredReadback PROVE SyncInv'
  BY <1>25 DEF RecoveredReadback, ExternalReadsBack, PruneVerified, EXTERNAL_DELETE_RECONCILED
<1>26. ASSUME RunPurge PROVE SyncInv'
  BY <1>26 DEF RunPurge, Startable
<1>27. ASSUME BatchStarted PROVE SyncInv'
  BY <1>27 DEF BatchStarted, BATCH_STARTED
<1>28. ASSUME ItemIntent PROVE SyncInv'
  BY <1>28 DEF ItemIntent, BATCH_ITEM_INTENT
<1>29. ASSUME ItemDeleted PROVE SyncInv'
  BY <1>29, DeletionStep DEF SyncInv
<1>30. ASSUME ItemRefused PROVE SyncInv'
  BY <1>30 DEF ItemRefused, Fails
<1>31. ASSUME ItemInterrupted PROVE SyncInv'
  BY <1>31, DeletionStep DEF SyncInv
<1>32. ASSUME ItemReconciled PROVE SyncInv'
  BY <1>32, ItemStep
<1>33. ASSUME BatchReconciled PROVE SyncInv'
  BY <1>33 DEF BatchReconciled, BATCH_RECONCILED
<1>34. ASSUME ResumePurge PROVE SyncInv'
  BY <1>34 DEF ResumePurge, Purging
<1>35. ASSUME RecoverChild PROVE SyncInv'
  BY <1>35, DeletionStep DEF SyncInv
<1>36. ASSUME ReconcilerRecovers PROVE SyncInv'
  BY <1>36, DeletionStep DEF SyncInv
<1>37. ASSUME ResumeInventory PROVE SyncInv'
  BY <1>37 DEF ResumeInventory
<1>38. ASSUME TemplateUpdated PROVE SyncInv'
  BY <1>38 DEF TemplateUpdated
<1>39. ASSUME RestoreState PROVE SyncInv'
  BY <1>39 DEF RestoreState
<1>40. ASSUME Crash PROVE SyncInv'
  BY <1>40 DEF Crash, Fails
<1>41. ASSUME Reboot PROVE SyncInv'
  <2> SepOK
    BY InventoryParts
  <2>1. step' = "idle" /\ UNCHANGED <<store, j>>
    BY <1>41 DEF Reboot
  <2>2. foreign' = {} => foreign = {} /\ (sep' = sep \/ ~sep'.loaded \/ sep'.dirty)
    <3>1. CASE UNCHANGED <<sep, foreign>>
      BY <3>1
    <3>2. CASE sep' = [sep EXCEPT !.ids = {}, !.loaded = FALSE, !.dirty = FALSE, !.mdirty = FALSE]
               /\ UNCHANGED foreign
      BY <3>2 DEF SepOK
    <3>3. CASE sep' = [sep EXCEPT !.ids = {}, !.dirty = TRUE] /\ UNCHANGED foreign
      BY <3>3 DEF SepOK
    <3>4. CASE foreign' # {}
      BY <3>4
    <3> QED BY <1>41, <3>1, <3>2, <3>3, <3>4 DEF Reboot
  <2>3. sep'.loaded /\ ~sep'.dirty /\ foreign' = {} => sep' = sep /\ foreign = {}
    BY <2>2
  <2> QED BY <2>1, <2>3
<1>42. ASSUME UNCHANGED inventoryVars PROVE SyncInv'
  BY <1>42 DEF inventoryVars
<1> QED BY <1>1, <1>2, <1>3, <1>4, <1>5, <1>6, <1>7, <1>8, <1>9, <1>10, <1>11, <1>12, <1>13, <1>14,
           <1>15, <1>16, <1>17, <1>18, <1>19, <1>20, <1>21, <1>22, <1>23, <1>24, <1>25, <1>26,
           <1>27, <1>28, <1>29, <1>30, <1>31, <1>32, <1>33, <1>34, <1>35, <1>36, <1>37, <1>38,
           <1>39, <1>40, <1>41, <1>42 DEF InventoryNext

\* Every step keeps a missing finger accounted for.
LEMMA InventoryMissing == InventoryInv /\ [InventoryNext]_inventoryVars => MissingInv'
<1> SUFFICES ASSUME InventoryInv, [InventoryNext]_inventoryVars PROVE MissingInv'
  OBVIOUS
<1> USE AbsentAssumption DEF rest, AppendChecked, Rule, Phase, NoJournal, InventoryInv,
                             InventoryTypeOK, TransactionInv, PhaseInv, SyncInv, MissingInv,
                             PruneInv, Pruning, Secure, Clean, LocalLiveEqual, UserStaged, Staging,
                             Batch, Blocks, Complete, Archive, Content
<1>1. ASSUME BeginStage PROVE MissingInv'
  BY <1>1 DEF BeginStage
<1>2. ASSUME BeginStageFails PROVE MissingInv'
  BY <1>2 DEF BeginStageFails, Fails, OutcomeUnknown, SYNC_OUTCOME_UNKNOWN,
              EXTERNAL_DELETE_OUTCOME_UNKNOWN, SYNC_ABORTED_BEFORE_DISPATCH
<1>3. ASSUME StageCreate PROVE MissingInv'
  BY <1>3 DEF StageCreate
<1>4. ASSUME StageWrite PROVE MissingInv'
  BY <1>4 DEF StageWrite, Secure
<1>5. ASSUME ConfirmUser PROVE MissingInv'
  BY <1>5 DEF ConfirmUser
<1>6. ASSUME Cross PROVE MissingInv'
  BY <1>6 DEF Cross
<1>7. ASSUME RollForward PROVE MissingInv'
  BY <1>7 DEF RollForward, RolledForward, Discarded
<1>8. ASSUME SyncHostCommitted PROVE MissingInv'
  BY <1>8 DEF SyncHostCommitted, SYNC_HOST_COMMITTED
<1>9. ASSUME ExternalHostCommitted PROVE MissingInv'
  BY <1>9 DEF ExternalHostCommitted, EXTERNAL_DELETE_HOST_COMMITTED
<1>10. ASSUME ConfirmMaster PROVE MissingInv'
  BY <1>10 DEF ConfirmMaster
<1>11. ASSUME StepFails PROVE MissingInv'
  BY <1>11 DEF StepFails, Fails, OutcomeUnknown, SYNC_OUTCOME_UNKNOWN,
               EXTERNAL_DELETE_OUTCOME_UNKNOWN
<1>12. ASSUME SyncReadback PROVE MissingInv'
  BY <1>12 DEF SyncReadback, SyncReadsBack, OutcomeUnknown, SYNC_OUTCOME_UNKNOWN,
               EXTERNAL_DELETE_OUTCOME_UNKNOWN, SYNC_RECONCILED
<1>13. ASSUME ExternalReadback PROVE MissingInv'
  BY <1>13 DEF ExternalReadback, ExternalReadsBack, PruneVerified, OutcomeUnknown,
               SYNC_OUTCOME_UNKNOWN, EXTERNAL_DELETE_OUTCOME_UNKNOWN, EXTERNAL_DELETE_RECONCILED
<1>14. ASSUME RunSync PROVE MissingInv'
  BY <1>14 DEF RunSync, Startable, OnlyUserDirty
<1>15. ASSUME SyncIntent PROVE MissingInv'
  BY <1>15 DEF SyncIntent, SYNC_INTENT
<1>16. ASSUME RecoverSync PROVE MissingInv'
  BY <1>16 DEF RecoverSync, Ambiguous, Exact, OnlyUserDirty, SYNC_RECOVERY_INTENT,
               SYNC_RECOVERED_CLEAN
<1>17. ASSUME NEW gone \in SUBSET Fingers, RunExternal(FALSE, gone) PROVE MissingInv'
  BY <1>17 DEF RunExternal, Startable, Planned
<1>18. ASSUME NEW gone \in SUBSET Fingers, StartupReconciles(gone) PROVE MissingInv'
  BY <1>18 DEF StartupReconciles, RunExternal, Startable, Planned
<1>19. ASSUME CreateBackup PROVE MissingInv'
  BY <1>19 DEF CreateBackup
<1>20. ASSUME ExternalBaseline PROVE MissingInv'
  BY <1>20 DEF ExternalBaseline, EXTERNAL_DELETE_BASELINE
<1>21. ASSUME ExternalIntent PROVE MissingInv'
  BY <1>21 DEF ExternalIntent, EXTERNAL_DELETE_INTENT
<1>22. ASSUME RecoverExternal PROVE MissingInv'
  BY <1>22 DEF RecoverExternal, ExternalDirection, RolledForward, Discarded, Discardable
<1>23. ASSUME ExternalAborted PROVE MissingInv'
  BY <1>23 DEF ExternalAborted, EXTERNAL_DELETE_ABORTED
<1>24. ASSUME ExternalClassify PROVE MissingInv'
  BY <1>24 DEF ExternalClassify, EXTERNAL_DELETE_ABORTED, EXTERNAL_DELETE_HOST_COMMITTED
<1>25. ASSUME RecoveredReadback PROVE MissingInv'
  BY <1>25 DEF RecoveredReadback, ExternalReadsBack, PruneVerified, EXTERNAL_DELETE_RECONCILED
<1>26. ASSUME RunPurge PROVE MissingInv'
  BY <1>26 DEF RunPurge, Startable
<1>27. ASSUME BatchStarted PROVE MissingInv'
  BY <1>27 DEF BatchStarted, BATCH_STARTED
<1>28. ASSUME ItemIntent PROVE MissingInv'
  BY <1>28 DEF ItemIntent, BATCH_ITEM_INTENT
<1>29. ASSUME ItemDeleted PROVE MissingInv'
  <2>1. j.kind = "batch" /\ j.phase = "STARTED" /\ j' = j
    BY <1>29, DeletionStep, Zenon DEF InventoryInv
  <2> QED BY <2>1, Zenon DEF MissingInv
<1>30. ASSUME ItemRefused PROVE MissingInv'
  BY <1>30 DEF ItemRefused, Fails
<1>31. ASSUME ItemInterrupted PROVE MissingInv'
  <2>1. j.kind = "batch" /\ j.phase = "STARTED" /\ j' = j
    BY <1>31, DeletionStep, Zenon DEF InventoryInv
  <2> QED BY <2>1, Zenon DEF MissingInv
<1>32. ASSUME ItemReconciled PROVE MissingInv'
  BY <1>32, ItemStep
<1>33. ASSUME BatchReconciled PROVE MissingInv'
  BY <1>33 DEF BatchReconciled, BATCH_RECONCILED
<1>34. ASSUME ResumePurge PROVE MissingInv'
  BY <1>34 DEF ResumePurge, Purging
<1>35. ASSUME RecoverChild PROVE MissingInv'
  <2>1. j.kind = "batch" /\ j.phase = "STARTED" /\ j' = j
    BY <1>35, DeletionStep, Zenon DEF InventoryInv
  <2> QED BY <2>1, Zenon DEF MissingInv
<1>36. ASSUME ReconcilerRecovers PROVE MissingInv'
  <2>1. j.kind = "batch" /\ j.phase = "STARTED" /\ j' = j
    BY <1>36, DeletionStep, Zenon DEF InventoryInv
  <2> QED BY <2>1, Zenon DEF MissingInv
<1>37. ASSUME ResumeInventory PROVE MissingInv'
  BY <1>37 DEF ResumeInventory
<1>38. ASSUME TemplateUpdated PROVE MissingInv'
  BY <1>38 DEF TemplateUpdated
<1>39. ASSUME RestoreState PROVE MissingInv'
  BY <1>39 DEF RestoreState
<1>40. ASSUME Crash PROVE MissingInv'
  BY <1>40 DEF Crash, Fails
<1>41. ASSUME Reboot PROVE MissingInv'
  <2> SepOK
    BY InventoryParts
  <2>1. UNCHANGED <<store, j>>
    BY <1>41 DEF Reboot
  <2>2. CASE UNCHANGED <<sep, foreign>>
    BY <2>1, <2>2
  <2>3. CASE sep' = [sep EXCEPT !.ids = {}, !.loaded = FALSE, !.dirty = FALSE, !.mdirty = FALSE]
             /\ UNCHANGED foreign
    <3>1. sep'.loaded = FALSE
      BY <2>3 DEF SepOK
    <3> QED BY <2>1, <2>3, <3>1
  <2>4. CASE sep' = [sep EXCEPT !.ids = {}, !.dirty = TRUE] /\ UNCHANGED foreign
    <3>1. sep'.ids = {} /\ sep'.dirty = TRUE
      BY <2>4 DEF SepOK
    <3> QED BY <2>1, <2>4, <3>1
  <2>5. ASSUME NEW f \in sep.ids,
               sep' = [sep EXCEPT !.ids = sep.ids \ {f}, !.dirty = FALSE, !.mdirty = FALSE],
               foreign' = foreign \cup {f}
        PROVE  MissingInv'
    <3>1. sep'.ids = sep.ids \ {f} /\ sep'.loaded = sep.loaded
      BY <2>5 DEF SepOK
    <3> QED BY <2>1, <2>5, <3>1
  <2> QED BY <1>41, <2>2, <2>3, <2>4, <2>5 DEF Reboot
<1>42. ASSUME UNCHANGED inventoryVars PROVE MissingInv'
  BY <1>42 DEF inventoryVars
<1> QED BY <1>1, <1>2, <1>3, <1>4, <1>5, <1>6, <1>7, <1>8, <1>9, <1>10, <1>11, <1>12, <1>13, <1>14,
           <1>15, <1>16, <1>17, <1>18, <1>19, <1>20, <1>21, <1>22, <1>23, <1>24, <1>25, <1>26,
           <1>27, <1>28, <1>29, <1>30, <1>31, <1>32, <1>33, <1>34, <1>35, <1>36, <1>37, <1>38,
           <1>39, <1>40, <1>41, <1>42 DEF InventoryNext

\* Every step keeps a prune bound to the archives its journal names.
LEMMA InventoryPrune == InventoryInv /\ [InventoryNext]_inventoryVars => PruneInv'
<1> SUFFICES ASSUME InventoryInv, [InventoryNext]_inventoryVars PROVE PruneInv'
  OBVIOUS
<1> USE AbsentAssumption DEF rest, AppendChecked, Rule, Phase, NoJournal, InventoryInv,
                             InventoryTypeOK, TransactionInv, PhaseInv, MissingInv, PruneInv,
                             Pruning, Clean, LocalLiveEqual, Unstaged, UserStaged, Staging, Batch,
                             Complete, Blocks, NoFiles, Archive
<1>1. ASSUME BeginStage PROVE PruneInv'
  BY <1>1 DEF BeginStage
<1>2. ASSUME BeginStageFails PROVE PruneInv'
  BY <1>2 DEF BeginStageFails, Fails, OutcomeUnknown, SYNC_OUTCOME_UNKNOWN,
              EXTERNAL_DELETE_OUTCOME_UNKNOWN, SYNC_ABORTED_BEFORE_DISPATCH
<1>3. ASSUME StageCreate PROVE PruneInv'
  BY <1>3 DEF StageCreate
<1>4. ASSUME StageWrite PROVE PruneInv'
  BY <1>4 DEF StageWrite, Secure
<1>5. ASSUME ConfirmUser PROVE PruneInv'
  BY <1>5 DEF ConfirmUser
<1>6. ASSUME Cross PROVE PruneInv'
  BY <1>6 DEF Cross
<1>7. ASSUME RollForward PROVE PruneInv'
  BY <1>7 DEF RollForward, RolledForward, Discarded
<1>8. ASSUME SyncHostCommitted PROVE PruneInv'
  BY <1>8, SyncCommitStep
<1>9. ASSUME ExternalHostCommitted PROVE PruneInv'
  BY <1>9 DEF ExternalHostCommitted, EXTERNAL_DELETE_HOST_COMMITTED
<1>10. ASSUME ConfirmMaster PROVE PruneInv'
  BY <1>10 DEF ConfirmMaster
<1>11. ASSUME StepFails PROVE PruneInv'
  BY <1>11 DEF StepFails, Fails, OutcomeUnknown, SYNC_OUTCOME_UNKNOWN,
               EXTERNAL_DELETE_OUTCOME_UNKNOWN
<1>12. ASSUME SyncReadback PROVE PruneInv'
  BY <1>12 DEF SyncReadback, SyncReadsBack, OutcomeUnknown, SYNC_OUTCOME_UNKNOWN,
               EXTERNAL_DELETE_OUTCOME_UNKNOWN, SYNC_RECONCILED
<1>13. ASSUME ExternalReadback PROVE PruneInv'
  BY <1>13 DEF ExternalReadback, ExternalReadsBack, PruneVerified, OutcomeUnknown,
               SYNC_OUTCOME_UNKNOWN, EXTERNAL_DELETE_OUTCOME_UNKNOWN, EXTERNAL_DELETE_RECONCILED
<1>14. ASSUME RunSync PROVE PruneInv'
  BY <1>14 DEF RunSync, Startable, OnlyUserDirty
<1>15. ASSUME SyncIntent PROVE PruneInv'
  BY <1>15 DEF SyncIntent, SYNC_INTENT
<1>16. ASSUME RecoverSync PROVE PruneInv'
  BY <1>16, RecoverSyncStep
<1>17. ASSUME NEW gone \in SUBSET Fingers, RunExternal(FALSE, gone) PROVE PruneInv'
  BY <1>17 DEF RunExternal, Startable, Planned
<1>18. ASSUME NEW gone \in SUBSET Fingers, StartupReconciles(gone) PROVE PruneInv'
  BY <1>18 DEF StartupReconciles, RunExternal, Startable, Planned
<1>19. ASSUME CreateBackup PROVE PruneInv'
  BY <1>19 DEF CreateBackup
<1>20. ASSUME ExternalBaseline PROVE PruneInv'
  BY <1>20 DEF ExternalBaseline, EXTERNAL_DELETE_BASELINE
<1>21. ASSUME ExternalIntent PROVE PruneInv'
  BY <1>21 DEF ExternalIntent, EXTERNAL_DELETE_INTENT
<1>22. ASSUME RecoverExternal PROVE PruneInv'
  BY <1>22 DEF RecoverExternal, ExternalDirection, RolledForward, Discarded, Discardable
<1>23. ASSUME ExternalAborted PROVE PruneInv'
  BY <1>23 DEF ExternalAborted, EXTERNAL_DELETE_ABORTED
<1>24. ASSUME ExternalClassify PROVE PruneInv'
  BY <1>24 DEF ExternalClassify, EXTERNAL_DELETE_ABORTED, EXTERNAL_DELETE_HOST_COMMITTED
<1>25. ASSUME RecoveredReadback PROVE PruneInv'
  BY <1>25 DEF RecoveredReadback, ExternalReadsBack, PruneVerified, EXTERNAL_DELETE_RECONCILED
<1>26. ASSUME RunPurge PROVE PruneInv'
  BY <1>26 DEF RunPurge, Startable
<1>27. ASSUME BatchStarted PROVE PruneInv'
  BY <1>27 DEF BatchStarted, BATCH_STARTED
<1>28. ASSUME ItemIntent PROVE PruneInv'
  BY <1>28 DEF ItemIntent, BATCH_ITEM_INTENT
<1>29. ASSUME ItemDeleted PROVE PruneInv'
  BY <1>29 DEF ItemDeleted, Deletable, SepWithout, HostWithout
<1>30. ASSUME ItemRefused PROVE PruneInv'
  BY <1>30 DEF ItemRefused, Fails
<1>31. ASSUME ItemInterrupted PROVE PruneInv'
  BY <1>31 DEF ItemInterrupted, Fails, Deletable, SepWithout, HostWithout
<1>32. ASSUME ItemReconciled PROVE PruneInv'
  BY <1>32, ItemStep
<1>33. ASSUME BatchReconciled PROVE PruneInv'
  BY <1>33 DEF BatchReconciled, BATCH_RECONCILED
<1>34. ASSUME ResumePurge PROVE PruneInv'
  BY <1>34 DEF ResumePurge, Purging
<1>35. ASSUME RecoverChild PROVE PruneInv'
  BY <1>35 DEF RecoverChild, DeleteRecovered, SepWithout, HostWithout
<1>36. ASSUME ReconcilerRecovers PROVE PruneInv'
  BY <1>36 DEF ReconcilerRecovers, PendingNativeCandidate, Bound, Purging, DeleteRecovered,
               SepWithout, HostWithout
<1>37. ASSUME ResumeInventory PROVE PruneInv'
  BY <1>37 DEF ResumeInventory
<1>38. ASSUME TemplateUpdated PROVE PruneInv'
  BY <1>38 DEF TemplateUpdated
<1>39. ASSUME RestoreState PROVE PruneInv'
  BY <1>39 DEF RestoreState
<1>40. ASSUME Crash PROVE PruneInv'
  BY <1>40 DEF Crash, Fails
<1>41. ASSUME Reboot PROVE PruneInv'
  BY <1>41 DEF Reboot
<1>42. ASSUME UNCHANGED inventoryVars PROVE PruneInv'
  BY <1>42 DEF inventoryVars
<1> QED BY <1>1, <1>2, <1>3, <1>4, <1>5, <1>6, <1>7, <1>8, <1>9, <1>10, <1>11, <1>12, <1>13, <1>14,
           <1>15, <1>16, <1>17, <1>18, <1>19, <1>20, <1>21, <1>22, <1>23, <1>24, <1>25, <1>26,
           <1>27, <1>28, <1>29, <1>30, <1>31, <1>32, <1>33, <1>34, <1>35, <1>36, <1>37, <1>38,
           <1>39, <1>40, <1>41, <1>42 DEF InventoryNext

-----------------------------------------------------------------------------
(* What the steps do to the archive, and the theorems. *)

\* No step closes a journal on a difference.
LEMMA InventoryCloses == InventoryInv /\ [InventoryNext]_inventoryVars => ClosesOnTruth
<1> SUFFICES ASSUME InventoryInv, [InventoryNext]_inventoryVars PROVE ClosesOnTruth
  OBVIOUS
<1> USE DEF rest, AppendChecked, Rule, Phase, NoJournal, InventoryInv, TransactionInv, PhaseInv,
            ClosesOnTruth, Unstaged, Batch, LocalLiveEqual, Clean
<1>1. ASSUME BeginStage PROVE ClosesOnTruth
  BY <1>1 DEF BeginStage
<1>2. ASSUME BeginStageFails PROVE ClosesOnTruth
  BY <1>2 DEF BeginStageFails, Fails, OutcomeUnknown, SYNC_OUTCOME_UNKNOWN,
              EXTERNAL_DELETE_OUTCOME_UNKNOWN, SYNC_ABORTED_BEFORE_DISPATCH
<1>3. ASSUME StageCreate PROVE ClosesOnTruth
  BY <1>3 DEF StageCreate
<1>4. ASSUME StageWrite PROVE ClosesOnTruth
  BY <1>4 DEF StageWrite, Secure
<1>5. ASSUME ConfirmUser PROVE ClosesOnTruth
  BY <1>5 DEF ConfirmUser
<1>6. ASSUME Cross PROVE ClosesOnTruth
  BY <1>6 DEF Cross
<1>7. ASSUME RollForward PROVE ClosesOnTruth
  BY <1>7 DEF RollForward, RolledForward, Discarded
<1>8. ASSUME SyncHostCommitted PROVE ClosesOnTruth
  BY <1>8, SyncCommitStep
<1>9. ASSUME ExternalHostCommitted PROVE ClosesOnTruth
  BY <1>9 DEF ExternalHostCommitted, EXTERNAL_DELETE_HOST_COMMITTED
<1>10. ASSUME ConfirmMaster PROVE ClosesOnTruth
  BY <1>10 DEF ConfirmMaster
<1>11. ASSUME StepFails PROVE ClosesOnTruth
  BY <1>11 DEF StepFails, Fails, OutcomeUnknown, SYNC_OUTCOME_UNKNOWN,
               EXTERNAL_DELETE_OUTCOME_UNKNOWN
<1>12. ASSUME SyncReadback PROVE ClosesOnTruth
  BY <1>12 DEF SyncReadback, SyncReadsBack, OutcomeUnknown, SYNC_OUTCOME_UNKNOWN,
               EXTERNAL_DELETE_OUTCOME_UNKNOWN, SYNC_RECONCILED
<1>13. ASSUME ExternalReadback PROVE ClosesOnTruth
  BY <1>13 DEF ExternalReadback, ExternalReadsBack, PruneVerified, OutcomeUnknown,
               SYNC_OUTCOME_UNKNOWN, EXTERNAL_DELETE_OUTCOME_UNKNOWN, EXTERNAL_DELETE_RECONCILED
<1>14. ASSUME RunSync PROVE ClosesOnTruth
  BY <1>14 DEF RunSync, Startable, OnlyUserDirty
<1>15. ASSUME SyncIntent PROVE ClosesOnTruth
  BY <1>15 DEF SyncIntent, SYNC_INTENT
<1>16. ASSUME RecoverSync PROVE ClosesOnTruth
  BY <1>16, RecoverSyncStep
<1>17. ASSUME NEW gone \in SUBSET Fingers, RunExternal(FALSE, gone) PROVE ClosesOnTruth
  BY <1>17 DEF RunExternal, Startable, Planned
<1>18. ASSUME NEW gone \in SUBSET Fingers, StartupReconciles(gone) PROVE ClosesOnTruth
  BY <1>18 DEF StartupReconciles, RunExternal, Startable, Planned
<1>19. ASSUME CreateBackup PROVE ClosesOnTruth
  BY <1>19 DEF CreateBackup
<1>20. ASSUME ExternalBaseline PROVE ClosesOnTruth
  BY <1>20 DEF ExternalBaseline, EXTERNAL_DELETE_BASELINE
<1>21. ASSUME ExternalIntent PROVE ClosesOnTruth
  BY <1>21 DEF ExternalIntent, EXTERNAL_DELETE_INTENT
<1>22. ASSUME RecoverExternal PROVE ClosesOnTruth
  BY <1>22 DEF RecoverExternal, ExternalDirection, RolledForward, Discarded, Discardable
<1>23. ASSUME ExternalAborted PROVE ClosesOnTruth
  BY <1>23 DEF ExternalAborted, EXTERNAL_DELETE_ABORTED
<1>24. ASSUME ExternalClassify PROVE ClosesOnTruth
  BY <1>24 DEF ExternalClassify, EXTERNAL_DELETE_ABORTED, EXTERNAL_DELETE_HOST_COMMITTED
<1>25. ASSUME RecoveredReadback PROVE ClosesOnTruth
  BY <1>25 DEF RecoveredReadback, ExternalReadsBack, PruneVerified, EXTERNAL_DELETE_RECONCILED
<1>26. ASSUME RunPurge PROVE ClosesOnTruth
  BY <1>26 DEF RunPurge, Startable
<1>27. ASSUME BatchStarted PROVE ClosesOnTruth
  BY <1>27 DEF BatchStarted, BATCH_STARTED
<1>28. ASSUME ItemIntent PROVE ClosesOnTruth
  BY <1>28, ItemStep
<1>29. ASSUME ItemDeleted PROVE ClosesOnTruth
  <2>1. j' = j
    BY <1>29, DeletionStep, Zenon
  <2> QED BY <2>1, Zenon
<1>30. ASSUME ItemRefused PROVE ClosesOnTruth
  BY <1>30 DEF ItemRefused, Fails
<1>31. ASSUME ItemInterrupted PROVE ClosesOnTruth
  <2>1. j' = j
    BY <1>31, DeletionStep, Zenon
  <2> QED BY <2>1, Zenon
<1>32. ASSUME ItemReconciled PROVE ClosesOnTruth
  BY <1>32, ItemStep
<1>33. ASSUME BatchReconciled PROVE ClosesOnTruth
  BY <1>33 DEF BatchReconciled, BATCH_RECONCILED
<1>34. ASSUME ResumePurge PROVE ClosesOnTruth
  BY <1>34 DEF ResumePurge, Purging
<1>35. ASSUME RecoverChild PROVE ClosesOnTruth
  <2>1. j' = j
    BY <1>35, DeletionStep, Zenon
  <2> QED BY <2>1, Zenon
<1>36. ASSUME ReconcilerRecovers PROVE ClosesOnTruth
  <2>1. j' = j
    BY <1>36, DeletionStep, Zenon
  <2> QED BY <2>1, Zenon
<1>37. ASSUME ResumeInventory PROVE ClosesOnTruth
  BY <1>37 DEF ResumeInventory
<1>38. ASSUME TemplateUpdated PROVE ClosesOnTruth
  BY <1>38 DEF TemplateUpdated
<1>39. ASSUME RestoreState PROVE ClosesOnTruth
  BY <1>39 DEF RestoreState
<1>40. ASSUME Crash PROVE ClosesOnTruth
  BY <1>40 DEF Crash, Fails
<1>41. ASSUME Reboot PROVE ClosesOnTruth
  BY <1>41 DEF Reboot
<1>42. ASSUME UNCHANGED inventoryVars PROVE ClosesOnTruth
  BY <1>42 DEF inventoryVars
<1> QED BY <1>1, <1>2, <1>3, <1>4, <1>5, <1>6, <1>7, <1>8, <1>9, <1>10, <1>11, <1>12, <1>13, <1>14,
           <1>15, <1>16, <1>17, <1>18, <1>19, <1>20, <1>21, <1>22, <1>23, <1>24, <1>25, <1>26,
           <1>27, <1>28, <1>29, <1>30, <1>31, <1>32, <1>33, <1>34, <1>35, <1>36, <1>37, <1>38,
           <1>39, <1>40, <1>41, <1>42 DEF InventoryNext

\* No step prunes a finger that no other system deleted.
LEMMA InventoryPrunes == InventoryInv /\ [InventoryNext]_inventoryVars => PruneSound
<1> SUFFICES ASSUME InventoryInv, [InventoryNext]_inventoryVars PROVE PruneSound
  OBVIOUS
<1> USE DEF rest, AppendChecked, Rule, Phase, NoJournal, InventoryInv, TransactionInv, PhaseInv,
            PruneInv, Pruning, PruneSound, Staging, Batch
<1>1. ASSUME BeginStage PROVE PruneSound
  BY <1>1 DEF BeginStage
<1>2. ASSUME BeginStageFails PROVE PruneSound
  BY <1>2 DEF BeginStageFails, Fails, OutcomeUnknown, SYNC_OUTCOME_UNKNOWN,
              EXTERNAL_DELETE_OUTCOME_UNKNOWN, SYNC_ABORTED_BEFORE_DISPATCH
<1>3. ASSUME StageCreate PROVE PruneSound
  BY <1>3 DEF StageCreate
<1>4. ASSUME StageWrite PROVE PruneSound
  <2> StoreOK
    BY InventoryParts
  <2>1. store'.user = store.user
    BY <1>4 DEF StageWrite, StoreOK
  <2> QED BY <2>1
<1>5. ASSUME ConfirmUser PROVE PruneSound
  BY <1>5 DEF ConfirmUser
<1>6. ASSUME Cross PROVE PruneSound
  BY <1>6 DEF Cross
<1>7. ASSUME RollForward PROVE PruneSound
  BY <1>7 DEF RollForward, RolledForward, Discarded
<1>8. ASSUME SyncHostCommitted PROVE PruneSound
  BY <1>8, SyncCommitStep
<1>9. ASSUME ExternalHostCommitted PROVE PruneSound
  BY <1>9 DEF ExternalHostCommitted, EXTERNAL_DELETE_HOST_COMMITTED
<1>10. ASSUME ConfirmMaster PROVE PruneSound
  BY <1>10 DEF ConfirmMaster
<1>11. ASSUME StepFails PROVE PruneSound
  BY <1>11 DEF StepFails, Fails, OutcomeUnknown, SYNC_OUTCOME_UNKNOWN,
               EXTERNAL_DELETE_OUTCOME_UNKNOWN
<1>12. ASSUME SyncReadback PROVE PruneSound
  BY <1>12 DEF SyncReadback, SyncReadsBack, OutcomeUnknown, SYNC_OUTCOME_UNKNOWN,
               EXTERNAL_DELETE_OUTCOME_UNKNOWN, SYNC_RECONCILED
<1>13. ASSUME ExternalReadback PROVE PruneSound
  BY <1>13 DEF ExternalReadback, ExternalReadsBack, PruneVerified, OutcomeUnknown,
               SYNC_OUTCOME_UNKNOWN, EXTERNAL_DELETE_OUTCOME_UNKNOWN, EXTERNAL_DELETE_RECONCILED
<1>14. ASSUME RunSync PROVE PruneSound
  BY <1>14 DEF RunSync, Startable, OnlyUserDirty
<1>15. ASSUME SyncIntent PROVE PruneSound
  BY <1>15 DEF SyncIntent, SYNC_INTENT
<1>16. ASSUME RecoverSync PROVE PruneSound
  BY <1>16, RecoverSyncStep
<1>17. ASSUME NEW gone \in SUBSET Fingers, RunExternal(FALSE, gone) PROVE PruneSound
  BY <1>17 DEF RunExternal, Startable, Planned
<1>18. ASSUME NEW gone \in SUBSET Fingers, StartupReconciles(gone) PROVE PruneSound
  BY <1>18 DEF StartupReconciles, RunExternal, Startable, Planned
<1>19. ASSUME CreateBackup PROVE PruneSound
  BY <1>19 DEF CreateBackup
<1>20. ASSUME ExternalBaseline PROVE PruneSound
  BY <1>20 DEF ExternalBaseline, EXTERNAL_DELETE_BASELINE
<1>21. ASSUME ExternalIntent PROVE PruneSound
  BY <1>21 DEF ExternalIntent, EXTERNAL_DELETE_INTENT
<1>22. ASSUME RecoverExternal PROVE PruneSound
  <2> StoreOK
    BY InventoryParts
  <2>1. CASE store.txn = "commit"
    <3>1. /\ store.files.user = j.staged /\ store.files.user \in Archive /\ store.user = j.before
          /\ j.kind = "external" /\ UNCHANGED <<foreign, backups>>
      BY <1>22, <2>1 DEF RecoverExternal, Blocks, Complete
    <3>2. store'.user = j.staged
      BY <1>22, <2>1, <3>1, AbsentAssumption DEF RecoverExternal, ExternalDirection, RolledForward, Discarded, StoreOK
    <3> QED BY <3>1, <3>2
  <2>2. CASE store.txn # "commit"
    <3>1. store'.user = store.user
      BY <1>22, <2>2 DEF RecoverExternal, ExternalDirection, Discarded, StoreOK
    <3> QED BY <3>1
  <2> QED BY <2>1, <2>2
<1>23. ASSUME ExternalAborted PROVE PruneSound
  BY <1>23 DEF ExternalAborted, EXTERNAL_DELETE_ABORTED
<1>24. ASSUME ExternalClassify PROVE PruneSound
  BY <1>24 DEF ExternalClassify, EXTERNAL_DELETE_ABORTED, EXTERNAL_DELETE_HOST_COMMITTED
<1>25. ASSUME RecoveredReadback PROVE PruneSound
  BY <1>25 DEF RecoveredReadback, ExternalReadsBack, PruneVerified, EXTERNAL_DELETE_RECONCILED
<1>26. ASSUME RunPurge PROVE PruneSound
  BY <1>26 DEF RunPurge, Startable
<1>27. ASSUME BatchStarted PROVE PruneSound
  BY <1>27 DEF BatchStarted, BATCH_STARTED
<1>28. ASSUME ItemIntent PROVE PruneSound
  BY <1>28, ItemStep
<1>29. ASSUME ItemDeleted PROVE PruneSound
  <2>1. j.kind = "batch"
    BY <1>29, DeletionStep, Zenon
  <2> QED BY <2>1
<1>30. ASSUME ItemRefused PROVE PruneSound
  BY <1>30 DEF ItemRefused, Fails
<1>31. ASSUME ItemInterrupted PROVE PruneSound
  <2>1. j.kind = "batch"
    BY <1>31, DeletionStep, Zenon
  <2> QED BY <2>1
<1>32. ASSUME ItemReconciled PROVE PruneSound
  BY <1>32, ItemStep
<1>33. ASSUME BatchReconciled PROVE PruneSound
  BY <1>33 DEF BatchReconciled, BATCH_RECONCILED
<1>34. ASSUME ResumePurge PROVE PruneSound
  BY <1>34 DEF ResumePurge, Purging
<1>35. ASSUME RecoverChild PROVE PruneSound
  <2>1. j.kind = "batch"
    BY <1>35, DeletionStep, Zenon
  <2> QED BY <2>1
<1>36. ASSUME ReconcilerRecovers PROVE PruneSound
  <2>1. j.kind = "batch"
    BY <1>36, DeletionStep, Zenon
  <2> QED BY <2>1
<1>37. ASSUME ResumeInventory PROVE PruneSound
  BY <1>37 DEF ResumeInventory
<1>38. ASSUME TemplateUpdated PROVE PruneSound
  BY <1>38 DEF TemplateUpdated
<1>39. ASSUME RestoreState PROVE PruneSound
  BY <1>39 DEF RestoreState
<1>40. ASSUME Crash PROVE PruneSound
  BY <1>40 DEF Crash, Fails
<1>41. ASSUME Reboot PROVE PruneSound
  BY <1>41 DEF Reboot
<1>42. ASSUME UNCHANGED inventoryVars PROVE PruneSound
  BY <1>42 DEF inventoryVars
<1> QED BY <1>1, <1>2, <1>3, <1>4, <1>5, <1>6, <1>7, <1>8, <1>9, <1>10, <1>11, <1>12, <1>13, <1>14,
           <1>15, <1>16, <1>17, <1>18, <1>19, <1>20, <1>21, <1>22, <1>23, <1>24, <1>25, <1>26,
           <1>27, <1>28, <1>29, <1>30, <1>31, <1>32, <1>33, <1>34, <1>35, <1>36, <1>37, <1>38,
           <1>39, <1>40, <1>41, <1>42 DEF InventoryNext

\* The initial states satisfy the inductive invariant.
LEMMA InventoryInitially == InventoryInit => InventoryInv
<1> SUFFICES ASSUME InventoryInit PROVE InventoryInv
  OBVIOUS
<1> USE DEF InventoryInit, NoJournal
<1>1. /\ sep = [ids |-> Fingers, gen |-> 0, dirty |-> FALSE, mdirty |-> FALSE, loaded |-> TRUE]
      /\ store.user = [ids |-> Fingers, blob |-> [ids |-> Fingers, gen |-> 0], save |-> 0]
  BY DEF Secure
<1>2. store.user \in Archive
  BY <1>1, InventoryAssumption DEF Archive, Content
<1>3. SepOK /\ JournalOK /\ SetsOK
  BY <1>1, InventoryAssumption DEF SepOK, JournalOK, SetsOK
<1>4. StoreOK
  <2> DEFINE u == store.user
  <2>1. store = [user |-> u, master |-> 0, txn |-> "none", files |-> [user |-> None, master |-> None]]
    OBVIOUS
  <2> HIDE DEF u, InventoryInit
  <2> QED BY <1>2, <2>1 DEF u, StoreOK
<1>5. InventoryTypeOK
  BY <1>3, <1>4, InventoryParts
<1>6. TransactionInv /\ PhaseInv
  BY DEF TransactionInv, PhaseInv, NoFiles, Unstaged, UserStaged, Staging, Batch
<1>7. SyncInv /\ MissingInv
  BY <1>1 DEF SyncInv, MissingInv, Agrees, UserStaged, Staging
<1>8. PruneInv
  BY DEF PruneInv, Pruning
<1> QED BY <1>5, <1>6, <1>7, <1>8 DEF InventoryInv

\* The inductive invariant implies what the run checks.
LEMMA InventoryInvHolds == InventoryInv => ArchiveHolds
<1> SUFFICES ASSUME InventoryInv PROVE ArchiveHolds
  OBVIOUS
<1>1. SavedOrOwned
  BY DEF SavedOrOwned, InventoryInv, SyncInv, Agrees, Blocks, Complete
<1>2. SyncStaysExact
  BY DEF SyncStaysExact, InventoryInv, SyncInv
<1>3. PruneDecided
  <2> SUFFICES ASSUME step = "idle", j.kind = "external", Blocks, store.files.user # Torn
              PROVE  CASE store.txn = "prepare" -> j.phase # "HOST_COMMITTED" /\ Discardable
                       [] store.txn = "commit" -> store.files.user = j.staged
                       [] OTHER -> \/ store.user = j.staged
                                   \/ store.user = j.before /\ j.phase # "HOST_COMMITTED"
    BY DEF PruneDecided
  <2>1. Pruning
    BY DEF InventoryInv, PhaseInv, Pruning, Blocks, Complete
  <2>2. store.txn \in {"none", "prepare", "commit"}
    BY InventoryParts DEF InventoryInv, StoreOK
  <2> QED BY <2>1, <2>2 DEF InventoryInv, PruneInv, Discardable
<1> QED BY <1>1, <1>2, <1>3 DEF ArchiveHolds, InventoryInv

\* The inductive invariant of the inventory commands holds in every reachable state,
\* for any fingers and any bounds on failures, boots, template updates and commands.
THEOREM InventoryInvariance == InventorySpec => []InventoryInv
<1>1. ASSUME InventoryInv, [InventoryNext]_inventoryVars PROVE InventoryInv'
  <2>1. (SepOK /\ StoreOK /\ JournalOK /\ SetsOK)'
    BY <1>1, InventorySepTypes, InventoryStoreTypes, InventoryJournalTypes, InventorySetTypes
  <2>2. InventoryTypeOK'
    BY <2>1, InventoryParts, PTL
  <2> QED BY <1>1, <2>2, InventoryTransactions, InventoryPhases, InventorySync, InventoryMissing, InventoryPrune DEF InventoryInv
<1> QED BY <1>1, InventoryInitially, PTL DEF InventorySpec

\* Whatever command is killed, and wherever: a template the SEP holds as saved is in
\* the committed archive or a blocking sync owns the gap (run_user_catacomb_sync), the
\* archive a sync committed is still the one its journal names, and every interrupted
\* prune is one its recovery decides (run_external_delete_recovery).
THEOREM ArchiveAlwaysHolds == InventorySpec => []ArchiveHolds
  BY InventoryInvariance, InventoryInvHolds, PTL

\* No step closes a sync, a prune or a purge as reconciled while archive and SEP differ,
\* and a prune, also one recovery rolls forward, takes from the archive only fingers
\* another system deleted and only what was backed up.
THEOREM ChangesAlwaysSound == InventorySpec => ChangesSound
<1>1. InventoryInv /\ [InventoryNext]_inventoryVars => [ClosesOnTruth /\ PruneSound]_inventoryVars
  BY InventoryCloses, InventoryPrunes
<1> QED BY <1>1, InventoryInvariance, PTL DEF InventorySpec, ChangesSound
=============================================================================
