# t2touch: TLA+ models, checks and proofs

t2touch drives the Touch ID sensor of T2 Macs from Linux. The Secure Enclave
(SEP) holds the fingerprint templates; the host keeps an encrypted archive of
them, the *Catacomb*, that must agree with the SEP after every mutation.
Mutations span two machines without a common transaction, so the program
journals every step, and a recovery owner finishes or undoes what a crash left.
This directory models that machinery and says what is true of it.

## Inventory

| Component (under `src/src/`) | State | Operations | Interacts with |
| --- | --- | --- | --- |
| Component store `t2_catacomb_store.py` | root files, `prepare`/`commit` directories | begin_stage, stage_component, cross_commit_boundary, recover, discard | journals name the files and hashes recovery may accept |
| Mutation journal `t2_mutation_journal.py` | append-only, hash-chained JSON lines | create, read (repairs a torn tail), append under flock | every typed journal |
| Registry `t2_mutation_registry.py` | none: replays all journals | scan, blocks_new_mutation | gate of every mutation |
| Persistence tracker `t2_enrollment_persistence_journal.py` | replay of `CATACOMB_*` records | consume, snapshot | embedded in deletion, rename and enrollment journals |
| Deletion `t2_identity_delete*.py`, `t2-touchid-manage.py` | one journal per deletion | run_delete, run_delete_recovery, verify_post_reboot | SEP over the bridge, store, tracker |
| Purge `t2_identity_delete_batch_journal.py` | outer journal of an ordered list of deletions | run_delete_batch, resume | deletion, registry |
| Rename `t2_identity_rename*.py` | one journal per rename | rename, recovery, verification | store, tracker |
| Enrollment `t2_enrollment_*.py`, `t2-native-enroll.py` | one journal per enrollment, two save batches, the published authority | capture, cancel, finalization, recovery, verification, publication | SEP, store, BioLockout, tracker |
| Sync and external changes `t2_catacomb_sync_journal.py`, `t2_external_*.py` | journals, backups | adopt SEP-side changes, prune | SEP, store |
| State restore and recovery `t2_native_state_*.py`, `t2_biolockout_store.py` | recovery journal, rolling lockout records | restore on a cold T2, recovery, empty reprovision | SEP, store, sync |
| fprintd device `t2-fprintd.py` | claim, tasks, timers | Claim, Release, Verify*, Enroll*, Delete* | D-Bus clients, backend, sleep signal |
| Match backend and worker `t2-fprintd.py`, `t2-native-match.py` | two locks, worker process, sleep generation | warm up, verify, inventory, stop, quiesce | device, sleep signal, `/dev/t2-aks` |
| Idle owner `t2_preparation_lease.py` | one Unix socket per idle verifier | R/?/Y/K handshake | all users of `/dev/t2-aks` |
| SEP transport `t2_sep_transport.c` | one mailbox, AKS owner, ACM context | ioctl exchange, open, release, probe, remove | AKS and ACM Python clients |
| AKS provisioning, replacement `t2_aks_*.py`, `t2-native-first-run.py` | three journals, mapping, activation bundle | create, replace and activate the identity of a user | SEP transport |
| User activation `t2_user_activation_*.py` | one journal per activation | load, bind, unlock, retain, release, recover, prune | SEP transport, mapping |
| Mapping, policy, broker `t2_user_*.py` | mapping file, grants | load, authorize, broker sessions | all operations |
| Enrollment and deletion workers `t2_fprint_worker*.py`, `t2_fprint_delete_worker*.py` | one process and one private connection per request | start, cancel, capture, match, rollback, delete, report | device, caller identity, enrollment, deletion |
| Caller identity `t2_ipc_session.py`, `t2_polkit_grant.py`, `t2_fprint_claim.py`, `t2_native_caller_authorization.py` | pins of a process, a session, a grant | collect, revalidate, last check before a command | logind, polkit, procfs, workers |

What is hard: every pair of steps may be separated by process death or power
loss; directory operations reach the disk in any order until a sync; replies of
the SEP are lost while the command was executed; recovery may itself be
interrupted and resumed, in the same boot or a later one; several processes
open the same journal; what a worker has read of its caller may have changed when
its command is sent, and a cancel may meet any step. `PROJECT.json` lists these hazards at their lines, with
the properties aimed at each.

## Modules

| Module | Models | Extends |
| --- | --- | --- |
| `AtomicStore` | what the store promises: a batch of components is replaced in one step, or not at all | |
| `CatacombStore` | the directory protocol of `t2_catacomb_store.py` | |
| `MutationJournal` | one journal file, several processes | |
| `PersistenceTracker` | `PersistenceTracker.consume` as a function of tracker and record | |
| `DeleteJournal` | `validate_history` of the deletion journal | `PersistenceTracker` |
| `IdentityDelete` | deletion, persistence, recovery and post-reboot verification | `DeleteJournal` |
| `EnrollmentJournal` | `validate_history` of the enrollment journal | `PersistenceTracker` |
| `Enrollment` | capture, finalization, recoveries, verifications, publication | `EnrollmentJournal` |
| `IdentityRename` | rename, recovery, the two post-reboot proofs | `PersistenceTracker` |
| `InventoryChanges` | adaptive sync, prune and purge | |
| `RecoveryJournal` | `validate_history` of the native-state recovery journal | |
| `NativeStateRecovery` | restore, recovery, nested save, BioLockout record | `RecoveryJournal` |
| `AksJournals` | the provisioning, replacement and activation journals | |
| `IdentityFirstRun` | the owners that write them, the mapping and bundle stores | `AksJournals` |
| `UserActivation` | activations of the identity that was mapped | `IdentityFirstRun` |
| `SepTransport` | the kernel module and the SEP behind it | |
| `MatchBackend` | backend, resident worker and handover | |
| `FprintDevice` | the D-Bus device object: claims, operations, expiry timers, departures | |
| `SelfService` | the reads that give one caller authority over its own fingers, and the world that changes between them | |
| `WorkerSession` | a worker's session: client, Stop calls, connection, worker, finger | `SelfService` |
| `CatacombStoreProofs`, `IdentityDeleteProofs`, `IdentityRenameProofs`, `UserActivationProofs` | inductive invariants and theorems | the module they are named after |
| `MutationJournalProofs` | the same | `MutationJournal`, `InventoryChanges` |
| `MatchBackendProofs` | the same | `MatchBackend`, `Enrollment` |
| `SepTransportProofs` | the same | `SepTransport`, `NativeStateRecovery` |
| `FprintDeviceProofs` | the same | `FprintDevice`, `WorkerSession` |
| `MC*` | instances for TLC | |

### CatacombStore

`fs` is the tree the running kernel shows (which transaction directories exist,
and what each file holds: a value, nothing, or torn bytes). `disk` is the set of
trees a power loss at this moment may leave. A directory operation or a write
adds trees to `disk`; `Sync` (`_sync_directory`, `fsync`) leaves only the tree it
made durable. The file system is taken to make a directory operation atomic and
to let any subset of the operations since the last sync survive. Appends to the
mutation journal, which the callers make between store calls, are durable and
are modelled where they act as a barrier (`RecoveryIntent`). `plan` and `hashes`
are what the journal recorded of the batch, the expectations handed to `recover`
and `discard_prepare`. Every action is one system call of the method it is mapped
to; a process may die (`ProcessExit`) or the machine lose power (`PowerLoss`)
before each. Component contents are model values: the code compares hashes.

### MutationJournal

`file` is the sequence of complete records, `torn` whether bytes of another
follow, `synced` and `linked` what a power loss cannot take back. Each process is
idle, reading, waiting for the flock, repairing or appending. A record is its
hash and its predecessor's; its contents belong to the typed journals. `append`
is told the count and head its caller validated (`expected_record_count`,
`expected_previous_hash`), which the model keeps as the record's `basis`.

### PersistenceTracker, DeleteJournal, IdentityDelete

The first two are operators: which record may follow a history and what the
history then amounts to. They keep the code's phases and milestones by name.
Evidence fields that only repeat identifiers already bound by the baseline are
left out; fields a later decision reads (recovery action, staged hashes, boot
identifiers, the failed status) are kept.

`IdentityDelete` is the process that holds the operation lock. `pc` names the
record it is about to append or the call it is about to make. The SEP is the set
of templates it accepts and the components it reports as needing a save.
Append and store steps are atomic here: `MutationJournal` and `CatacombStore`
show that they may be treated so, with the rename of the commit boundary kept
apart from its sync. Assumptions about the SEP, which is not in the repository:

- it keeps its state over a restart of the host (a cold power cycle of the T2,
  after which the host archive is loaded into it, is not modelled);
- a command in flight is executed or dropped before it answers a later
  connection, and the status of a delete says nothing about its effect;
- a confirm answered with zero was executed.

A journal that holds only its baseline does not block anything and stands for
"no deletion in progress". Errors of the management lease happen before any
record and are a `ProcessExit`. The branches of `classify` and of the journal that
repair a user-only commit (`MASTER_SAVE_REQUIRED`, archive state `survivors`) serve
journals of earlier versions, since the current `[user, master]` plan never leads
there; a behaviour may therefore also begin with the journal such a version left
(`OldHistory`, as `tests/test_identity_delete_persistence.py:340` builds it). Not
modelled: the compatibility authority mode and the rollback selector of `run_delete`.

`VerifiedAfterReboot` and `EarlyRecoveryCompletes` have one exception each, described
under "Disagreements".

### EnrollmentJournal, Enrollment

The sensor is an actor of its own: it adds a finger and sends events (`wire`) that
the process reads one by one, in the order sent; closing the connection ends a
capture with or without a finger, and what was not read is lost. The journal is
either of version 1 (an addition to an existing inventory) or 2 (a first finger);
`native` tells the Linux-native authority from the compatibility one, whose
commands differ. Both save batches of the finalizer run on the tracker, with
their early and final confirms, and every phase the registry does not accept as
complete has the recovery commands the code has for it: local transaction
recovery, recovery of an early confirm, terminal recovery, addition rollback. The
publication of the authority is modelled file by file, because it is the only
step of an enrollment that no journal protects. The deletion inside a rollback is
one step here. Bounds: one finger to add and one that is there (`Ids`), two events
per capture, three failures, two enrollments.

### IdentityRename

An archive is its label, the template generation in its blob and the export it
came from. Matches move the generation of the SEP on (`MaxGen`) and set its dirty
bit, which is what makes a rename more than a file replacement: the export has to
be of the generation the baseline saw. `rec` holds what the automatic reconciler
read before it took the lock, so a management command may run in between.

### InventoryChanges

Three commands share one journal variable because the registry admits one of them
at a time; `child` is the interrupted deletion of a purge item. A deletion is
represented by the three outcomes `IdentityDelete` establishes. `foreign` are the
fingers another system deleted while Linux was down; such a deletion and a cold
T2 are both seen as a smaller inventory, and the prune has to tell them apart. The
specification is `InventorySpec`.

### RecoveryJournal, NativeStateRecovery

The journal's validator is a set of admitted record sequences (a dozen historical
forms and the current one), translated as sequences of milestones and their
prefixes. `NativeStateRecovery` drives it: the state of the SEP is a pair of component
states with the code's numbers (1 absent, 3 clean, 5 and 7 dirty or needing a
save), a data version and its identities. `run` is the command that holds the lock
with the acknowledgements it was given. A reboot leaves the T2 warm, cold or with
its master only. The behaviours begin also from journals that earlier versions
left (`OldJournals`). `Foreign = TRUE` adds deletions by another system; see
"Disagreements". The specification is `RecoverySpec`.

### AksJournals, IdentityFirstRun, UserActivation

A record's owner is compared by boot and by kernel connection, so a journal keeps
of each owner whether it is this connection, this boot or the past; a reboot and a
rebinding of the driver age all owners at once. A command whose reply is lost
leaves a `late` effect that may come true while the boot lasts. `IdentityFirstRun`
has one owner at a time, in the order the service of `t2-native-first-run.py` runs
them, with the mapping's temporary files, the archive of the old mapping and the
bundle directory modelled up to their directory syncs. `UserActivation` adds the
processes that use the mapping when it is enabled; they share the device, the
failures and the reboots. `recover` of `t2_user_activation_recovery.py` has no caller
in the repository other than its tests and is modelled as an action of its own.

### SepTransport

`k` holds the fields of `struct t2_sep_transport` that a request's admission reads,
`hw` what the SEP has. An ioctl runs under `exchange_lock` and is one step with five
outcomes (answered; answered and not copied out; failed and applied or not;
refused). Which half of the endpoint an ambiguous outcome poisons is decided by the
record the request was sent with, before the reply changes it. A malformed ACM reply
is refused without poisoning anything, although the SEP may have applied the request
(`T2_ACM_REPLY_REJECT`). Any caller may send any request, so the admission checks are the only
protection, and the properties are about what they protect. Probe and remove
register and free the four DMA buffers; references to the device outlive remove.

### MatchBackend

`T2Backend` under the device: two FIFO locks, tasks that continue with a
cancellation at their next await, worker processes that answer late, never or die,
a sleep task per change of the sleep state, and another process that asks an idle
worker for the AKS device. A collector holds the operation lock and has passed the
sleep check while it awaits its process (`launch`); only then is it the process owner
that a suspend sees and cancels (`collect`, `Owners`). The collectors of `VerifyStart`,
`EnrollStart` and `DeleteEnrolledFinger` are tasks suspend does not track at all
(`caller`). `quiet` is a history variable: the current sleep's
quiesce ran to its end.

### FprintDevice

asyncio runs one coroutine from one await to the next. `loop` names a coroutine
that has not reached its next await; everything else waits for it. `pc[c]` is the
await a method call is suspended in (`own1`, `own2`: the thread of
`_require_claim_owner`; `proj`: the projection; `send`: the thread that sends the
cancel request; `waitV`, `waitE`, `waitD`: a task being stopped). A coroutine whose
awaited task is done runs before any later event (`Woken`), as the loop's queue
has it; threads, timers and messages come in any order. This is coarser than the
loop, where one or two other callbacks may run between a task's end and its
waiter, but none of those can complete a Claim, which takes several round trips.

A task is named after the call it comes from, so that `claim`, `verifyTask`,
`enrollTask`, `deleteTask` and `expiry` are call names compared for identity as the
code compares tasks and generations; a name is reused when nothing refers to it.
A refused owner check at the start of a call changes nothing and is no step.
A timer that was overwritten in `claim_expiry_task` without being cancelled stays
in `timer` and fires. `under` records, for the properties only, the claim an
operation or a timer belongs to. Durations are abstracted: a timer fires at any
time. Not modelled: `ListEnrolledFingers`, the rate limit, the finger properties,
and the backend's lock and worker, which appear as awaits that succeed or fail.

`enrollment` says whether the device offers enrollment; it is chosen in `Init` and
never changes.

### SelfService, WorkerSession

Before a worker sends a command it reads the same facts up to four times: when the
request is admitted, decided, handed over and dispatched. `Facts` are what is read,
each as a fact of the request (the process that called is the pinned one, its session
is the claim's and active, ...); `lost` are those that do not hold at the moment. Every
read is a step (`round`, `next`), and between two reads the world may take a fact away
or, where it can come back, give it back. `since` and `witness` are history variables
of the last check. `WorkerSession` puts the facade's coroutines around it (the client's
task, its `_cancel_sent` and `_request_sent`, concurrent `EnrollStop` calls), the
packets of the connection, and the worker with its cancel listener, its locks and the
finger it adds or deletes. Either side may be killed at any step. A capture, a
publication or a deletion is one step here; `Enrollment` and `IdentityDelete` have
their transactions.

## Runs

| Run | Instance | States | Shows |
| --- | --- | --- | --- |
| `store` | 3 component names, 2 contents | 43 768 | no crash loses or tears a component; a commit directory always validates; the root is complete whenever it is readable; the boundary is irreversible; the store implements `AtomicStore`; a crossed transaction is rolled forward when crashes stop |
| `journal` | 2 processes, 4 records | 332 672 | hash chain, no stale append, acknowledged records survive, views stay prefixes, a torn tail is repaired when failures stop |
| `delete` | 2 fingers, 2 deletions, 4 failures | 1 674 490 | what the journal reports is true of SEP and host; the host is never ahead; an inconsistency has an owner; no resend; a deletion interrupted early is closed; verification needs a later boot |
| `enrollment` | 2 fingers, 2 enrollments, 3 failures, 2 events | 390 395 | the same for enrollments and their rollback; committed batches are durable; one start per journal; a verified first finger becomes the authority |
| `rename` | 2 names, 2 renames, 2 failures, 2 boots, 2 template updates | 703 512 | reports are true; no transaction without an owner; an interrupted rename is always decided; a confirmed export is committed |
| `inventory` | 3 fingers, 3 commands, 3 failures, 3 boots | 564 707 | no saved template is lost by a sync; a prune takes only what another system deleted; a purge and the archive agree and it can be resumed |
| `state_recovery` | 2 fingers, 4 boots, 2 recoveries, 3 lockout records | 381 191 | every history is legal; no command twice; no loss without consent; the master is loaded on a cold T2 only; what is closed as complete is |
| `first_run` | 2 failures, 2 activations | 225 982 | verdicts on ambiguous commands stay true; a mapping is backed by bundle, archive and keybag; one dispatch; enabling is earned; ambiguity is settled; a recorded mapping completes; a journal calls an alias ready only when it is |
| `sep` | 2 sessions, 3 contexts, 1 failure | 2 188 026 | no handle is lost track of; bindings are to live contexts; DMA memory outlives its use; a create meets an empty SEP; an unlock is proved |
| `match` | 2 workers, 3 sleep changes, 2 calls, 1 stop, 1 death, 1 other owner | 2 272 271 | sleep is quiet; no stale request or answer; a handed over device stays free; the sleep task is never stuck, one case excepted |
| `fprint` | 2 clients, 3 live calls, suspend, with and without enrollment | 254 628 | one biometric operation at a time; nobody but a Release or a timer takes a live owner's claim, and without enrollment only its own; without enrollment no operation loses its claim, status reaches the claim that started it, a silent or dead client's claim ends |
| `worker` | 2 requests, 2 Stop calls, 2 changes of the world | 194 764 | a command is sent on one last check with the caller and the grant standing when the session was read; a caller is told the truth about its finger whatever dies; a Stop is not lost and ends |

Every run ends within three minutes on two cores.

Where several named properties answer one question, a run checks their
conjunction; the parts keep their own definitions and comments, and most of them
have a mutant of their own.

| Run | Checked | Parts |
| --- | --- | --- |
| `store` | `StoreSound`, `RootHolds` | `TypeOK`, `NothingLost`, `CommitRecoverable`; `ReadableRootComplete` after every step, `BoundaryIrreversible` |
| `journal` | `HistorySound`, `RecordsHold` | `TypeOK`, `ChainIntact`, `ViewStaysPrefix`; `NoStaleAppend`, `AckedSurvives` |
| `delete` | `ReportsHold`, `ArchiveOwned`, `RecoverySteps` | `TypeOK`, `ReconciledSound`, `AbortedSound`; `HostNeverAhead`, `InconsistencyIsOwned`; `NoResend`, `VerifiedAfterReboot` |
| `enrollment` | `OutcomesHold`, `FingerOwned` | `EnrollTypeOK`, `ReconciledSound`, `PublishedIsBacked`; `InconsistencyIsOwned` and `CommittedIsDurable` after every step, `OneStart` |
| `rename` | `RenameHolds` | `TypeOK`, `RenameSound`, `AbortSound`, `TransactionOwned`, `CleanMeansSaved` |
| `inventory` | `ArchiveHolds`, `PurgeHolds`, `ChangesSound` | `InventoryTypeOK`, `SavedOrOwned`, `SyncStaysExact`, `PruneDecided`; `PurgeMatchesArchive`, `PurgeResumable`; `ClosesOnTruth`, `PruneSound` |
| `state_recovery` | `RecoveryHistorySound`, `SavedStateHolds`, `LossConsented`, `LoadsSound` | `RecoveryTypeOK`, `HistoryLegal`, `OneDispatch`; `CleanIsSaved`, `LockoutReadable`, `HoldCoversRecovery`; `ConsentFirst`, `LossIsAcknowledged`; `ColdMasterLoad`, `CompleteSound` |
| `first_run` | `IdentityHolds`, `MappingHolds`, `SetupSettles` | `TypeOK`, `VerdictsHold`, `OneDispatch`; `NewMappingIsBacked`, `EnableIsEarned`; `AmbiguitySettles`, `MappedReplacementCompletes` |
| `sep` | `EndpointSound`, `CommandsProved` | `TypeOK`, `HandlesAccounted`, `BindingIsLive`; `CreateOnlyWhenAbsent`, `UnlockIsProved` |
| `match` | `SleepSound` | `TypeOK`, `QuietSleep`, `SleepGetsOn` |
| `fprint` | `ClaimSound`, `ClaimRespected` | `TypeOK`, `OneOperation`, and without enrollment `RunsUnderItsClaim`, `NoImmortalClaim`; `LiveOwnerKeepsClaim`, and without enrollment `StatusToItsClaim` |
| `worker` | `SessionSound` | `SessionTypeOK`, `TerminalsHold`, `OwnedUntilDone`, `StopNotLost` |

The parts of `RootHolds`, `RecoverySteps`, `FingerOwned`, `ChangesSound`,
`LossConsented`, `LoadsSound`, `CommandsProved` and `ClaimRespected` are about steps:
they are actions, and the checked property puts them under one `[][...]_vars`.

Bounds. A batch of the program has at most two components plus BioLockout, so
three names cover it, and two contents tell old from new. A journal repair takes
two records, so four hold a baseline, a torn append, its repair and a competing
append. Two fingers give a target and a survivor (or, when one is enrolled, no
survivor); a second operation shows what the first left behind; three or four
failures interrupt an operation and its successive recoveries. Failures are
counted together (`MaxFailures`); when they and the operations are used up a system
may rest, hence `CHECK_DEADLOCK FALSE`. Three boots separate the boot that
began, the one that recovered and the one that verifies. In `sep` one failure is
enough because a failed exchange poisons a half of the endpoint until the next boot,
or, refused as malformed, leaves one difference between the kernel's record and the SEP
for the requests after it to meet. Three sleep changes are a suspend, a resume and a suspend before any task
has run. Of the device's calls, one holds the claim, one is the operation and one
is the next client's; the number of calls made one after the other is not
bounded; where enrollment is offered only one of the clients enrolls, verifies, deletes or
departs, and the other competes for the claim (`OneClientEnrolls`). The device's safety
properties were also checked once without that bound (1 043 508 states with enrollment). In `worker` the world changes
under a request that is alone (`OneChanges`), and a second request meets the first when
that is past its reads or is being stopped (`SecondMeetsFirst`): what two requests share
is the lock, the connection and the client's fields, not the facts that are read of each;
two changes take a fact away and give it back. `state_recovery` starts from 32 initial
states, one for each old journal and state of the T2. Names, fingers, workers, sessions and contexts are symmetric
only in the runs without temporal properties of a liveness kind. In `match` the two warm ups
are alike too, and the second starts only while the first runs (`FirstWarm`).

Fairness. A step of a running process is weakly fair: nothing in these modules
waits for another process except on flock, which the kernel releases with its
holder. Recovery is weakly fair because startup dispatches it
(`docs/DELETE_RECOVERY.md`) or, for an enrollment, because its user or the
service repeats the command. Failures are never fair, and liveness is claimed
only when they stop. In `UserActivation` the service of the first run is weakly fair
(systemd starts it at every boot) and reboots are strongly fair: an ambiguous
command is settled by a later boot, so the property says what happens when there
is one. In `FprintDevice` threads answer, the match is capped at 120 seconds
(`docs/FPRINT_INTEGRATION.md`), workers answer a cancel, and the bus reports a dead
process's connection; the departure handler's wait for `claim_lock` is strongly fair
because `asyncio.Lock` serves its waiters in order. Nothing is assumed of the timers
or of the clients. In `WorkerSession` the facade's threads and the worker get on; a
capture and a match wait for touches and need not end unless they were cancelled;
nobody is obliged to call Stop; the broker's queue waits for the operation lock, which
a worker that ends or dies gives back, while the native one gives up.

## Disagreements met while modelling

The runs state what the code does; where a comment or a document says more, the
property has an explicit exception or is not claimed. Each was seen as a TLC
counterexample of the stronger property.

- *Deletion recovery.* `docs/DELETE_RECOVERY.md:15` says the owner "finishes
  persistence or proves no change". `classify` (`t2_identity_delete_recovery.py:348`)
  recognises four exact states and raises otherwise. One failure reaches states that
  are none of them: the user component confirmed but the batch not committed; the
  batch committed and the final confirm missing; an error of the store after the
  boundary; a torn staged file; forward persistence interrupted between two
  records. All are fail-closed: `ReconciledSound`, `AbortedSound` and
  `InconsistencyIsOwned` hold in each.
- *Retry of a master save.* The docstring of `_normalize_delete_recovery_resume`
  (`t2-touchid-manage.py:2765`) is "Make a stopped forward-recovery observation retryable
  on a new lease". For the repair of a user-only commit it does not: the record
  `DELETE_RECOVERY_MASTER_SAVE_REQUIRED` replaces the tracker, and with it the staged
  user that `classify` compares the host with (`t2_identity_delete_recovery.py:326`). A
  process that stops after the record and before its plan leaves a journal that every
  later recovery freezes, takes over and gives up on. `EarlyRecoveryCompletes` excepts it.
- *Post-reboot verification.* A recovery that journaled its intent in one boot and
  rolled the transaction forward in the next keeps the first boot identifier
  (`t2-touchid-manage.py:3980`), so verification accepts the boot in which the
  commit happened. `VerifiedAfterReboot` excepts it.
- *Enrollment timer of the device.* `EnrollStart` leaves no mark of itself while it
  collects the projection (`t2-fprintd.py:2227`). A `VerifyStop` on the same
  connection arms the unstarted-claim timer; the terminal update overwrites it
  (`:2302`) without cancelling it, and it may clear a later owner's claim, against
  "A replaced timer must never clear its successor's claim" (`:2317`). Where
  `enrollment` holds, which the installed service always enables
  (`systemd/system/fprintd.service:12`), a timer may therefore clear a claim it was
  not armed for; `LiveOwnerKeepsClaim` leaves that open and says who never does.
- *Overtaken stop.* `client.stop` hands the cancel packet to a thread before it waits
  (`t2_fprint_worker_client.py:222`). If the enrollment ends meanwhile and its timer or
  a departure clears the claim, a `Release` that was waiting clears the next one:
  `Release` holds no `claim_lock` (`t2-fprintd.py:1890`). A departure overtaken so may
  take the claim from under an operation that began in between, whose status and timer
  then meet the next claim. With enrollment, `RunsUnderItsClaim`, `NoImmortalClaim` and
  `StatusToItsClaim` fail on this path or the previous one; they are claimed without it.
- *Suspend.* A verification ended by suspend publishes no status and arms no timer;
  `NoImmortalClaim` excepts its claim.
- *Sleep and warm-up.* `_warm_runtime_after_sleep` waits for the sleep task
  (`t2-fprintd.py:1030`) while a chained sleep task gathers the warm-ups of its
  generation: `MutualWait`, the exception of `SleepGetsOn`. It is reached by suspend,
  resume, suspend before the loop has run the tasks.
- *Forgotten ACM context.* Closing `/dev/t2-aks` forgets the identity-secret context
  (`t2_sep_transport.c:977`); closing `/dev/t2-acm` then deletes only the current one,
  against "Closing the file with a live context performs a kernel-side delete"
  (`src/README.md:213`). No binding refers to it.
- *Activation retry.* An owner that dies after `RETRY_AUTHORIZED` leaves a phase in
  which the next reconciliation appends the same record
  (`t2_aks_replacement_activation_operation.py:684`), which the journal accepts only
  from other phases. The activation rests unless its alias is ready by itself.
- *Publication of the authority.* A copy torn by a power loss collides with every
  later publication (`t2_user_authority.py:525`); `PublicationCompletes` excepts it.
- *Late cancel.* A cancel that arrives after the match of an addition was journaled makes
  the worker try a rollback, which the journal refuses (`t2_fprint_worker.py:556`): the
  caller is told `unknown` although its finger is verified and kept. `TerminalsHold`
  claims nothing of `unknown`.
- *Saved match.* A saved match may be bound to an enrollment whose finger a rollback
  has deleted (`t2-native-match.py:758`); `ReconciledSound` excepts rolled back
  fingers.
- *Another system.* With `Foreign = TRUE`, `CleanIsSaved`, `HistoryLegal`, `LossIsAcknowledged`,
  `ConsentFirst`, `ColdMasterLoad` and `CompleteSound` are not claimed: a recovery adopts what
  another system deleted meanwhile. They are claimed for `Foreign = FALSE`; `LockoutReadable`
  and `HoldCoversRecovery` hold in both.

## Proofs

Eight modules hold theorems, all of them for every value of the constants: any number
of components, processes, workers, clients, calls, requests, fingers, failures and boots.
For each component one inductive invariant is proved, and the properties of the runs are
derived from it. TLC has checked every one of these invariants on the instance of the
component's run.

| Module | Theorem | Property |
| --- | --- | --- |
| `CatacombStoreProofs` | `StoreAlwaysSound` | `StoreSound` |
| | `Refinement`, `RootAlwaysHolds` | `ImplementsAtomicStore`, `RootHolds` |
| `MutationJournalProofs` | `HistoryAlwaysSound`, `RecordsAlwaysHold` | `HistorySound`, `RecordsHold` |
| | `ArchiveAlwaysHolds`, `ChangesAlwaysSound` (`InventoryChanges`) | `ArchiveHolds`, `ChangesSound` |
| `SepTransportProofs` | `EndpointAlwaysSound`, `MemoryAlwaysOutlivesUse`, `CommandsAlwaysProved` | `EndpointSound`, `MemoryOutlivesUse`, `CommandsProved` |
| | `SavedStateAlwaysHolds`, `LossAlwaysConsented`, `LoadsAlwaysSound` (`NativeStateRecovery`, `~Foreign`) | `SavedStateHolds`, `LossConsented`, `LoadsSound` |
| `IdentityDeleteProofs` | `ReportsAlwaysHold`, `ArchiveAlwaysOwned`, `RecoveryStepsSound` | `ReportsHold`, `ArchiveOwned`, `RecoverySteps` |
| `IdentityRenameProofs` | `RenameAlwaysHolds`, `InterruptedAlwaysDecided` | `RenameHolds`, `InterruptedIsDecided` |
| `MatchBackendProofs` | `HandoverAlwaysHolds`, `NoRequestStale` | `HandoverHolds`, `NoStaleRequest` |
| | `EnrollmentOutcomes`, `EnrollmentOwnsFinger` (`Enrollment`) | `OutcomesHold`, `FingerOwned` |
| `FprintDeviceProofs` | `OneOperationAlways` | `OneOperation` |
| | `ClaimAlwaysSound`, `ClaimAlwaysRespected` | `ClaimSound`, `ClaimRespected` |
| | `DispatchAlwaysWitnessed`, `SessionAlwaysSound` (`WorkerSession`) | `DispatchWitnessed`, `SessionSound` |
| `UserActivationProofs` | `IdentityAlwaysHolds`, `MappingAlwaysHolds`, `ReadyAlwaysWitnessed` | `IdentityHolds`, `MappingHolds`, `ReadyIsWitnessed` |

The arguments:

- *CatacombStore.* `Inv == TypeOK /\ PositionOK /\ \A t \in disk : TreeOK(t, hashes)`:
  `PositionOK` says what the visible tree looks like at each program counter, `TreeOK`
  what every tree a crash may leave looks like. The latter has to range over `disk` and
  not over `fs` alone, because a power loss picks any member of it and recovery then
  starts from there. The refinement maps the root, as a reader resolves it, to the
  abstract contents, and the set of roots a crash may leave to what the abstract crash
  may choose from; each step is shown to be invisible, a sync, a replacement or a crash.
- *MutationJournal.* `NoStaleAppend` needs to know of each process what it has read and
  under which lock (`ProcessOK`), `AckedSurvives` what every crash may leave of the file
  (`DurableOK`). That at most one process creates the file (`OneCreator`) is what keeps
  two empty histories apart.
- *SepTransport.* `EndpointInv(k, hw)` ties the kernel's record to the SEP's; it is
  stated of a pair, so that it can be asked of the pair in the middle of an ioctl that
  fails after the SEP applied the command. `DeviceInv` counts the references of the
  device and follows the DMA registrations through probe and remove.
- *IdentityDelete.* `SideInv` says on which side of the deletion the SEP and the host
  are: the SEP before it or without the target, the host unchanged, after it, or with
  only its user component after it, and never after it while the SEP is before it. A
  transaction in `commit` holds files that bring the host after it, whoever rolls them
  forward. `PhaseInv` says which of these each phase of the journal promises,
  `PlaceInv` and `FileInv` what the process has done by each program counter,
  and `BootInv` which boot the journal compares with the one that verifies. That
  the count of the master and the identities of the user fall together (`CountInv`)
  needs that identities are a finite set. `"master"` must be staged once the host is
  after the deletion: without it a recovery could ask for a master save of an archive
  that is already saved.
- *IdentityRename.* `StoreInv` says, for each phase, on which side of the commit boundary
  the archive is and what the transaction holds; `SavedInv` relates the generation of
  the SEP to the archive's, and `PcInv` the program counter to the journal. The
  classification by recovery is then decided by the side of the boundary.
- *MatchBackend.* `HandoverInv` and `RequestInv` add to the properties who holds the lock
  file at each stage of a handover, and which task a request belongs to. Both are small
  because every task that ends goes through one of three operators, whose lemmas come first.
- *FprintDevice.* `Inv` says what a pending call may hold (`CallInv`), that the three task
  fields and the coroutine that runs agree (`MarkInv`), and that operations exclude each
  other (`Exclusive`). `ClaimInv` says who may hold the loop, wait, run and own a timer
  under which claim. `LockInv` says what `claim_lock` keeps out: while a reaping Claim or a
  departure handler stops what runs, the claim it clears in the end is still the dead or
  departed client's; `ClaimAlwaysRespected` rests on it whatever is enabled. `ClaimInv` is
  about a device whose enrollment is switched off: with enrollment, `RunsUnderItsClaim` does not hold (TLC finds a `Release`
  that waits in `send` while `EnrollStop` drops the task and a new `VerifyStart` begins).
- *WorkerSession.* `CheckInv` says, for every place in the order of reads, which facts have
  been seen since the last check began and which lasting ones stood when the session was
  read: a lasting fact that stood when it was read later stood at that moment too, which is
  the whole argument of `DispatchWitnessed`. `PhaseInv` and `KindInv` tie what the facade has
  done to where the worker can be, `FingerInv` what a worker is about to report, a packet
  says and a caller was told to the state of the finger, and `StopInv` follows the cancel
  packet: wherever a client goes on to receive with a cancel asked for, it has been sent.
- *InventoryChanges.* `TransactionInv` and `PhaseInv` place the command by its local transaction
  and its journal. `SyncInv` says that a clean SEP whose generation the archive lacks has an
  open sync, and what such a sync has staged. `MissingInv` says that what the archive has and
  the SEP, or the last export, has not was deleted by another system, belongs to a purge, or
  that the SEP was emptied and says so; it is what keeps a prune from taking a cold T2 for a
  deletion. `PruneInv` follows the journaled pair of archives through the transaction, so that
  recovery finds one of the two.
- *NativeStateRecovery.* `RecoveryInv` has a part for each variable the command shares with
  others: `RunInv` (the place of a command and the last milestone), `HoldInv`, `SaveInv` (which
  record of a save is behind each place, and that a template the SEP counts as saved is
  the archive's or that of an open save), `LockInv`, `ConsentInv` and `LossInv`. The second
  layer, `LoadInv`, needs the first: `ColdInv` says that a T2 that was proven cold still is when
  the load is sent, `StageInv`, `AuthorityInv` and `TailInv` carry the identities of the
  baseline from the first record to the last. The module has some eighty steps, so they are
  reduced to a few shapes first (a command sent, a record written, a save's step), with one
  frame lemma per variable and one lemma per part of the invariant; a record that is
  written is compared with the one it follows (`Links`, `Extends`), never with the whole history.
- *Enrollment.* `EnrollInv` says four things. `Agree` says, for each phase of the journal, where
  the SEP and the archive are: unchanged (`OpenedInv`), unchanged or with one finger more that
  nobody has named yet (`CapturingInv`), unchanged because the capture failed (`FailureInv`),
  with the journal's finger and a save that is under way (`SavingInv`), or closed (`ClosedInv`).
  `FirstBatchInv` and `SecondBatchInv` follow the new archive through the two batches: whoever
  rolls a committed transaction forward, and whichever of the recoveries does, the user
  component then has the finger. `WireOK` is about the sensor: an event that reports a failure is
  on the wire only when the capture has ended without a finger, which is why the journal may
  record a failure on the strength of an event. The rest (`CapturePlaceInv`,
  `SavePhaseInv`, `SavePlaceInv`, `LocalInv`, `PublishInv`) says what the process has written
  by each program counter. `Agree` is a predicate of the SEP, the archive and the journal, not
  of the variables, so that an action is proved by a lemma about the one of the three it
  changes; a death or a power loss leaves all three alone, and every place is left at once,
  so it needs no case analysis by phase.
- *UserActivation.* `Inv` orders the three journals (`OrderInv`), ties a command that is
  still on its way to an outcome that is still unknown and to this boot (`SepInv`),
  says that nothing is sent before its intent (`SentInv`), where an owner can be by the
  phase of its journal (`PlaceInv`), and that what is on disk was there before what names
  it, also in the directory entry a power loss may bring back (`DiskInv`). It needs
  `r.init = "now"` from the preparation to the delete: without it a lost delete could be
  taken for one of an earlier boot. `UserInv` adds that an idle device has no open handle
  and that a retained identity was ready when its bag was released. Activations
  are shown once to leave everything else alone (`QuietKeeps`).

Assumptions, all of them about names: the values that stand for "nothing" (`None`, `Unset`,
`Absent`, `Torn`, `NoProc`) are not among the others, the fingers of an enrollment are a
finite set that is not empty, bounds are natural numbers, there are at least two names for a
rename, callers and calls differ. TLC evaluates them in the runs.

Only model-checked:

- liveness, which is out of the prover's reach with fairness: `CommitCompletes`,
  `RepairCompletes`, `EarlyRecoveryCompletes`, `TerminalUnknownRecovers`,
  `PublicationCompletes`, `SetupSettles`, `DeadOwnerReaped`,
  `StopEnds`;
- `SleepSound`, whose part `SleepGetsOn` uses `ENABLED`;
- `PurgeHolds`, which says what a filtered list (`SelectSeq`) holds after any number of items:
  an induction over data;
- `RecoveryHistorySound`, whose part `HistoryLegal` says that a journal is a prefix of one of the
  admitted sequences: it is stated of whole histories of some thirty records, and the proofs
  about this journal rest on its last records only.

## Not modelled

`PROJECT.json` lists every component with what is left out of it. Entirely outside
are codecs and XPC framing (byte-level; modelled by what they carry), the account rebind commands (offline, by hand, one guarded file replacement after the
other), the installer, PAM and systemd files (no state to explore), the research
tools and the bundled applesmc driver (upstream code). Within modelled components:
the compatibility deletion, the preparation of the sensor before a capture, the
match itself, the spare worker, and a registry with journals of several kinds
open at once, which the operation lock and the registry together exclude.

## What is left

In this order: the account rebind commands as a module on top of
`IdentityFirstRun`'s stores; `ListEnrolledFingers` and the rate limit in `FprintDevice`.
