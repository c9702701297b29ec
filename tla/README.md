# FastSell in TLA+

TLA+ specifications of FastSell's API process (`api/`), model-checked with TLC
on small instances and, for the parts marked below, proved with TLAPS for every
value of the constants. `PROJECT.json` lists the runs, the mutated definitions
that each property must reject, the code lines each definition models, the
findings and the hazards.

## The system

FastSell is one API process (Go) over PostgreSQL and a data directory, a web
front end that talks to it, a small system agent, and a recovery command
(`fastsell-backup`) run by hand while the API is stopped. Inside the API run
HTTP handlers and five background loops.

| Component | State | Operations | Hard part |
|---|---|---|---|
| Operation lock (`backup/control.go`) | mutex, `operation`, `file`; a `flock` shared with the CLI | `TryAcquire`, release | two levels, error returns between them, process death |
| Maintenance gate (`backup/control.go`, `httpapi/router.go`) | `maintenance`, `activeWrites`, channel `zero` | `BeginWrite`/done around each mutating request and worker scan, `EnterAndWait`, `Exit` | drain while writers enter and leave |
| Database restore (`backup/restore.go`, `job_store.go`, `service.go`, `database.go`, `cmd/fastsell-backup`) | job files, staging/active/retained databases, gate, lock | `StartRestore`, `RunRestore`, `StartBackup`, start-up recovery | about fifteen steps that fail or die anywhere; rollback; ambiguous commit |
| Backup sets (`backup/service.go`) | three files per set, partial files | create, list, delete, retention, clean-up | publication order, power loss, failed removals, name reuse |
| Intake pipeline (`intakeworker`, `uploadstatus`, `handlers/uploads.go`, `review.go`) | `image_assets`, `upload_sessions`, `upload_groups`, files in four directories | grouped upload, scan, review append / delete / discard / approve | file moves outside transactions, unguarded updates, stops |
| AI Assist (`handlers/review.go`, `review_ai_worker.go`) | job columns of the group, the hint map | queue, claim, call provider, mark, reset | state in a row, in memory and in a worker at once |
| Backup settings and scheduler (`backup/settings.go`, `scheduler.go`) | settings row, cron entry | update, reapply after restore | row and entry may disagree |
| Media archives (`backup/media.go`) | archive files | create | like a backup |
| Whole scene (`handlers/whole_scene*.go`) | scan, source images, analysis runs, candidates, crop rows and files | upload, queue, claim, save, edit, assist, approve, reject, delete | transactions that lock the same rows in different orders, two queues on one worker, files removed after a commit |
| Inventory (`items.go`, `item_images.go`, `containers.go`, `locations.go`, ...) | items, dispositions with history, images and files, containers and what they refer to | move, dispose, upload, assign, archive, delete | what is checked without a lock, files removed after a commit |
| Sales preparation (`listing_drafts.go`, `listing_photo_exports.go`) | drafts, export directories, clean-up worker | draft, edit, export, expire | check and insert apart, the clean-up next to an export |
| Configuration and reports (`admin_*.go`, `version`, `config`, system agent) | configuration rows | read, update | none |
| Front end, installer, release scripts | | | not modelled; the updater is a candidate |

How they interact: every mutating request and every worker scan passes the
maintenance gate; backups, restores, deletions, validations and archives take
the operation lock; a restore shuts the gate, replaces the database under the
workers and reopens it; the intake worker and the review requests share rows
and files; the AI worker and the review requests share the group row.

What makes each part correct is stated by the properties below.

## The modules

```
ExclusiveOperation        a lock with one owner                      (abstract)
OperationLock             TryAcquire / release over mutex and flock  implements it
MaintenanceGate           BeginWrite, EnterAndWait, Exit
RestoreService            EXTENDS MaintenanceGate; uses the lock as one owner
BackupFiles               files of a backup set under crashes and power loss
IntakePipeline            upload, intake worker, roll-up, review requests
ReviewAssist              AI Assist queue, worker and hint map
WholeScene                one scan: runs, candidates, crops, requests and worker
Inventory                 items, dispositions, images, containers, places
Listings                  EXTENDS Inventory: drafts, exports, clean-up worker
*Proofs                   theorems of the module they are named after
                          (InventoryProofs of Listings too, Intake of IntakePipeline)
MC*                       instances for TLC
```

Operators marked "A mistake to catch" stand beside the definition they would
replace. They are no part of a specification: each is a plausible bug, and the
property paired with it in `PROJECT.json` must fail when it is put in place.

**OperationLock.** One caller is one call of `TryAcquire`; its `pc` says how far
it is. Taking the mutex and finding it free is `OpenLockFile`; `FailToOpen`,
`RefuseFlock`, `GetFlock`, `FailToSecure` and `Grant` are the returns of
control.go:23-52 in order. Release is two steps, `ClearFields` under the mutex and
`DropFlock` after it. `Die(p)` is the kernel closing the files of a process.

**MaintenanceGate.** A writer is a mutating request or a scan. Channels are
numbered in the order they are made; `closedChans` are the closed ones. `dpc` is
the goroutine in `EnterAndWait`: it captures the channel (`EnterMaintenance`) and
waits (`Drained`, `CancelWait`).

**RestoreService.** `stage` is the place in `runRestoreJob` (or in another holder
of the lock), and the phases have the order of the code. Each call that changes
something is an action with its outcomes as disjuncts; deferred calls are the
stages `unstage` and `exitgate` that every return after the drain goes through.
A job file write is three actions (`WritePartial`, `RefusePartial`,
`RenamePartial`), so a death may fall between them; the operation goes on when
the write is over. Database contents are numbers: 0 at first, `j` for what job
`j` restores. `trusted` says that the active database passed `VerifyDatabase`
since it was activated. Start-up is `StartApi` or `StartCli`, then
`RecoverJob` ... `FinishStartup`, as in `NewService`.

**BackupFiles.** Files hold the generation number of the attempt that wrote
them. `dir` is what the process sees and `possible` every directory a power loss
may leave: all states since the last directory flush. A dump that was not
flushed before a power loss is `torn`.

**IntakePipeline.** A file is in a set of directories (a broken copy leaves two).
Worker steps are single statements and single file moves; a review request is
one transaction, then the removal of files one by one (`doomed`). An addition in
review is a commit (`CommitAppend`) and an answer (`AnswerAppend`), because the code
reads the group back in between: a group that has images in flight, or is decided by
then, is not found, and the file of the committed row is removed. `denied` are the
images that this happened to.

**ReviewAssist.** Requests are numbered per group, so that a hint or a suggestion
can be recognised as belonging to an earlier request. `locked` is a row lock
held from the checks of `QueueAIAssist` to its commit.

**WholeScene.** One scan. A transaction is a plan: the sequence of statements
that lock (`Plan`), each of them one action (`Statement`) that waits for the
conflicting locks of others and that finds its rows or ends the request
(`Finds`). What a later write depends on is remembered when the statement reads
it (`Saw`), the writes are one action at the commit, and what the handler does
afterwards (read the scan, remove files) is another. `Deadlocked` is a cycle of
waiting transactions, which PostgreSQL breaks by aborting one of them. The
worker alternates between the queue of analysis runs and that of candidate
assists, resets both at start, and takes the lock of a claim, saves, fails or
requeues by the same plans.

**Inventory.** A request goes through `at`: what it checks without a lock, the
lock of the item (`LockItem`), the commit, and the answer with its file
removals. An approval brings a new item with all images of its upload group, however
many, into any active inventory group. Locations, container types and inventory groups are `Places`, which
containers or items refer to. Deleting a container reads the paths, deletes the
rows and removes the files in three steps, as the code does; deleting a place is a
count and a deletion. `Users` are what that count finds: the containers of a location
or type, the items of a group (its upload groups are not kept, so the count may always
refuse for one).

**Listings** adds the drafts of items, their export directories and the clean-up
to the actions of Inventory. A draft goes with its item (ON DELETE CASCADE), its
directory does not. Each clean-up, by the worker or by an export request, looks
at one directory and removes it in the next step.

## What is checked

All modules but the lock, the gate and BackupFiles have more faults and requests
than one instance can combine, and some promises hold only where some fault is absent. A
behaviour therefore belongs to one *scenario*, chosen by `Init` from a constant
and never changed: the faults that may happen (`May("commit")` is the guard of a
disjunct), the number of deaths or stops, the job ids or the requests clients
make. A property that a fault takes away says so itself (`~May("db") => ...`), so
one run checks each scenario for all that it does promise.

Passing runs. Every property is broken by the mutant listed with it.

| Run | Bounds | Shows |
|---|---|---|
| OperationLock | 2 API goroutines, 1 CLI, deaths at any time | exclusion, the flock is handed over, refinement of ExclusiveOperation |
| Restore | 1 request, 1 scan, 2 gate channels; scenarios: failing checks and 1 death (4 jobs); failing checks and rollbacks (4 jobs); these and ambiguous commits (4 jobs); any job file write fails (2 jobs) | a restore runs alone; nothing unchecked is served; the last good database is never lost; failure without warning means the original is active; a lockout is announced and starts no restore; the pre-restore backup stays; success means checked; operations end |
| BackupFiles | 3 attempts, 2 seconds, keep 1, 1 death or power loss, failing renames and removals | inventory is sound, success is durable, retention and deletion take what they should |
| Intake | 2 uploads, 1 addition; scenarios: deletion, discarding and approval with lost statements, broken moves and 1 stop; additions, also to a group with images in flight, with lost statements and 1 stop; false commit errors; additions with broken moves, approvals and discarding; failing read-backs | rows lead to files unless an addition was answered with an error, a finished session is final, an approved group is frozen, every image and the session settle |
| ReviewAssist | 2 groups, 2 requests each, 1 restart, with and without failing statements | no answer or hint of an earlier request is used, approval waits for the job, every job ends |
| WholeScene | 2 requests at a time, 2 candidates, 2 crops, 2 analysis runs; scenarios: reviews of manual candidates; queueing next to a review; two restarts; images added and removed; a failing read-back; the scan deleted, with failing statements and aborted transactions; candidate assists; edits and a restart next to assists | one open run whose status the scan shows and whose candidates nobody has seen; a reviewed scan is cleaned up by whichever request is the last; images keep their files; a decision is final; every job ends |
| Inventory | 2 requests at a time, 1 item at a time, 2 images with a limit of 1, 2 containers, 4 places, 2 drafts; scenarios: moves and dispositions; uploads and deletions; uploads next to the deletion of a container (one deletion at a time); all of these one at a time; a failing read-back; places with items; places with containers; exports; edits of drafts | disposition, history and container agree; no addition takes an item over the limit of images; no request removes the file of a row; expired exports go |

Runs that end in a counterexample: a place where the code departs from what a
document of the repository says.

| Run | Code | Document |
|---|---|---|
| RestorePartialLeft | a death inside a job write makes every later start-up fail (job_store.go:171, service.go:653, 73-83) | partial files are removed on startup (Backup_Restore.md:53) |
| RestoreRestart | a second restart opens the gate after an unfinished swap (service.go:77) | maintenance mode remains active when health is uncertain (Backup_Restore.md:84) |
| IntakeRestart | a stop leaves an image in processing for ever (worker.go:124) | every pending image is moved or marked failed (api/README.md:38) |
| WholeSceneAppend | an upload removes the file of an item's image when the scan is cleaned up between its commit and its read (whole_scene.go:2862) | the files of an approved candidate are preserved (whole_scene_test.go:2036) |
| InventoryUsedPlace | a location is deleted after a container was assigned to it (locations.go:222) | a location in use cannot be deleted (locations.go:258) |

More departures are known and have no run of their own. The properties leave
out the first group by an explicit condition, the second of them by the scenarios:

- an ambiguous COMMIT of the rename pair serves the restored database unchecked
  (database.go:178, restore.go:176), although maintenance mode is to be left only
  after validation (Backup_Restore.md:80): `ServesOnlyValidated` and
  `FailureLeavesOriginal` are conditioned on `~May("commit")`, and `LastGoodIsKept`
  says only that the last good content survives;
- when job files cannot be written, a death after the swap leaves a job file with
  a phase from before it; start-up recovery takes the restore for harmless and
  the gate opens on an unchecked database (service.go:183, job_store.go:164). The run
  Restore has the full disk without a death; with `MCFullDisk` for the scenarios
  RestoreRestart ends in this counterexample after one death;
- deleting the last image in flight leaves its session in processing
  (review.go:411): `SessionSettles` wants no "delete" among the requests;
- an addition in review is committed and then answered with an error when its group
  is not reviewable at the read that follows: an image of it is still in flight, it was
  approved or discarded in between, or the read fails (review.go:408, 964-966). Its
  row, which may be an approved item's by now, loses the original, and no fault is
  needed. `RowsLeadToFiles` and `ApprovedIsFrozen` except these images (`denied`) and
  no others, and the images of a grouped upload whose COMMIT reports a false error
  (`May("commit")`, uploads.go:210);
- item and whole-scene uploads remove the files of committed images when the
  read-back fails (item_images.go:131, whole_scene.go:2862): `ItemsKeepFiles` and
  `ImagesKeepFiles` except the `readback` fault;
- the deletion of a container reads the file paths before it deletes the rows; an
  item that is moved away in between keeps its rows and loses its files
  (containers.go:386). Of two overlapping deletions of one container, the second
  removes the files of an item that came in after the first chose its rows.
  `ItemsKeepFiles` excepts scenarios with such requests, unless these come one at
  a time;
- a statement that fails in the worker, or a deadlock that aborts it, leaves a
  job in processing until the next restart (review_ai_worker.go:254,
  whole_scene_ai_worker.go:348): `AssistEnds` and `JobsEnd` except `May("db")` and
  `May("victim")`.

The others are in the models or in the hazards, and no property forbids them:

- retention removes the sidecars of a set whose dump could not be removed
  (service.go:446);
- an item that was moved loses its image rows with its old container, whose
  upload group they belong to (containers.go:591);
- two requests make two active drafts of an item (listing_drafts.go:216), and an
  edit of a draft writes back what it read (listing_drafts.go:265);
- the clean-up may remove an export directory that a request has just made anew
  (listing_photo_exports.go:116);
- an approval brings an item with more images than uploads to an item may add, since
  neither the grouped upload nor the approval counts them (uploads.go:331,
  review.go:710);
- deleting a location clears the location of items and upload sessions, which it does
  not count (locations.go:213).

**Why the bounds are enough.** One request and one scan are the fewest writers of
which one can enter while the other leaves; the restore request itself is one of
them. Two restores with their pre-restore backups need four job ids. One death
reaches each step once; the second restart of RestoreRestart needs two. Retention
of one set and three attempts give every relation between the newest, the
protected and the expired set, and two seconds of a clock that may be set back
give name reuse and a new set that is not the newest. Two images are the fewest
with a mixed roll-up and with one image that is listed while another is handled.
Two requests per group are the fewest for which an answer can be stale. Two
candidates are the fewest of which each can be the other's undecided one, two
runs the fewest with a failed and an open one; three transactions (two requests
and the worker) are the fewest for every cycle that the lock orders allow. One
item with two dispositions inside and one outside the inventory, and two containers,
give every change of both at once; two images over a limit of one give the
upload that must be refused, two uploads of which one must be refused once the image
of the approval is deleted, and an item whose approval brought more than the limit. Bounded counters (channels, jobs, attempts, runs,
requests, deaths, restarts) are guards on the actions that count.

`CHECK_DEADLOCK FALSE` is set where the instance really stops: job ids,
attempts or requests used up, or all images settled. In WholeScene and Inventory
a scan is deleted, or every request has been made; a transaction that waits there
for ever would show in `JobsEnd` and `ReviewedScanIsGone`.

**Fairness.** Goroutines are scheduled and commands, provider calls and requests
end or time out, so the steps of an operation, of start-up, of a scan and of a
worker are weakly fair. Tickers fire, so a scan with something to do starts. A
stopped container is started again (`restart: unless-stopped`), so
`IntakePipeline!Start` is fair. In WholeScene the steps of a request that has
begun, of the worker and of PostgreSQL's deadlock detection are fair, and restarts
are bounded. Listings assumes only that the ticker of the clean-up fires. Nothing
obliges clients, operators or the
scheduler to ask for anything, and no fault is fair.

## What is proved

`OperationLockProofs`: `LockInv` is inductive: the mutex covers a caller inside
`TryAcquire`, and a caller that runs is covered by both its process's fields and
the flock. Mutual exclusion follows from the flock having one holder. The
refinement maps each step to `Begin`, `End` or a stutter of `ExclusiveOperation`;
it needs the invariant to know that the CHOOSE of the owner is unique. Assumed:
`NoCaller` is not a caller and each caller has a process.

`MaintenanceGateProofs`: `GateInv` relates the counter to the set of active
writers (cardinality of a finite set), the open channel to a positive counter,
and the captured channel to the current one while the gate is shut. Without the
last part the drainer could hold an old, closed channel. Assumed: finitely many
writers. `GateExcludesWriters` (no writer is active once `EnterAndWait` returned)
and `GateHolds` (nothing is admitted before `Exit`) follow from it; they have no
run of their own, `Restore` runs the gate inside the service.

`RestoreServiceProofs`: each step of the service is a gate step or leaves the gate
alone (`ServiceUsesGate`), so the gate's theorems carry over. `RestoreIsAlone`
strengthens `RestoreRunsAlone` with `DrainerInside`: in the protected stages the
gate's drainer is inside. `GoodContentSurvives` strengthens `LastGoodIsKept` with
`GoodInv`, which ties the content to the stage: what the rollback renames
back and what the last step drops is never the last good content before its
replacement passed. Both hold for all faults, writers, jobs and deaths.
`PreRestoreBackupStays` rests on `PreSetInv`: once the backup phase is over, the
protected set is published and holds what was active when it was made, and until
the swap nothing else becomes active. `ShutGateHolds` rests on `ShutInv`: outside
the drain of an API restore and start-up's own raising, a shut gate has its
drainer inside, and start-up holds the lock meanwhile (`StartupHolds`).
`SuccessMeansChecked` needs to know that job files change only where the code
changes them (`JobInv`): neither the stored nor the pending record of a backup job
ever has the kind restore (`NoRestore`, `KindsAreKept`), and a pending "succeeded"
of a restore stands for the current, checked content (`FilesSound`); only then is
the last update of `runRestoreJob` the one place where a restore job becomes
"succeeded". `FailedMeansOriginal` holds when job files can be written and a COMMIT
error is true: what is stored is then what the stage says (`JobIsWritten`), and the
job of a content that is active, or that a rollback may activate again, is one that
recovery turns into a warning or a finished restore (`ContentIsSafe`).
`LockoutsAreAnnounced` holds when job files can be written: a gate that is shut with
the API up and the lock free was left by an uncertain restore (`LockoutInv`), whose
warning stays. `ServesOnlyCheckedDatabase` is `ServesOnlyValidated` under
`FewFaults`: a COMMIT error is true, and either nothing dies, or one process dies and
neither a rollback nor a job write fails. That is every fault of the run Restore except
the ambiguous COMMIT, which the property leaves out itself, and a death next to a failing rollback
or job write. Wider it would be false: two deaths (RestoreRestart), a failed rollback
and then a death (the job has failed with its warning, so the next start-up opens the
gate), or an unwritable job file and a death (`MCFullDisk`: the phase on disk is from before the
swap) open the gate on an unchecked database. Its invariant `Guarded` says
what stands before a doubtful database, one that is not checked since it was
activated: the gate, shut, with the swap inside (`InSwap`); a start-up that will shut
it or stop, because the job of the swap still reads as interrupted in a destructive
phase (`SwapIsMarked`, `Stuck`, `LockedOut`); or the CLI, which has not succeeded
(`CliDecides`). `Recovery` and `SuccessIsLast` tell that nothing but recovery and the
last update takes that mark away. `ServiceTypes` is `TypeOK`.

`ReviewAssistProofs`: `AssistInv` is inductive. Its extra conjuncts: a locked group
is undecided and without a job; a hint in the map belongs to the open job or to
the request that is being queued; the group the worker holds is in processing
or discarded. Three of the properties are conjuncts of it. `HeldInv` adds that a
discarded group has no job and an idle worker holds none; from it
`ProcessingIsHeld` follows while no statement fails.

`IntakeProofs`: `IntakeInv` is `TypeOK` with what the worker knows about the image
and the session it holds, and `FileInv` adds where the file of a row may be at each
step of a move, a broken copy included. `FinishedIsFinal`, `ApprovedIsFrozen` and
`RowsLeadToFiles` follow for any number of images, additions and stops. An addition
that waits for its answer has a processed row with its original, or one that was
deleted meanwhile; after the answer the original is there or the image is in
`denied`. `IntakeTypes` is `TypeOK`.

`BackupFilesProofs`: `SetsInv` says of every directory that a power loss may leave
what `ListedIsSound` says of the one that is seen, with unflushed contents counted
as lost. It needs that the running attempt's dump is nowhere yet and flushed before
its sidecars are published (`Unpublished`, `Sidecars`), that its name is no promised
one (`NameIsNew`), that its set is everywhere once the directory is flushed
(`Published`), and that what is being removed is promised no more (`RemovedIsFree`,
`DumpGoesFirst`). `ListedIsSound`, `SuccessIsDurable` and `DeleteIsOneSet` follow.
For `RetentionSparesNewest` it is joined by `KeptOutlive`: of the sets newer than
one still to go, `Keep` are not to go. That holds of the list at first because a set
of least rank among those with rank `Keep` or more has only kept ones before it
(`FirstStay`, with the library's theorem that strict inclusion of finite sets is
well-founded), and the removals keep it. Assumed: a clock with a first second, and
`Keep` in 1 to 365.

`WholeSceneProofs`: `SceneInv` joins `TypeOK` with five facts. `Exclusion`: the locks
of two transactions never conflict. `InPlan`: a transaction holds what the
statements of its plan so far have locked. `Sees`: what a statement read (the scan is there, this is
its latest run, the candidate has this status, no other is undecided) stays true
while its locks are held. `InOrder` and `RowsOfScan`: runs are numbered without a
gap, only the latest can be open, and candidates belong to ended runs. `Working`:
what the worker knows of the job it is at. `RunsAreInOrder` and `ReviewIsFinal`
follow from the steps, and `ReviewedScanIsGone` needs `Sees`: of two last reviews,
the second can only count once the first has committed. They hold for any number
of requests, candidates, images, runs, restarts, failing statements and aborted
transactions. `FilesInv` proves `ImagesKeepFiles`: an image that a transaction is
about to add has its file, has no row and is known to nobody else (`ImagesApart`), and
what a response removes has lost its rows (`DoomedIsGone`). The response of an upload that
cannot read the scan removes files of committed rows, so the last fact,
`CarefulKeeps`, wants no such response or no item that has the rows. The same
invariant marks out the finding of WholeSceneAppend: without uploads or without approvals
items keep their images (`OnlyUploadsTakeItemImages`), whatever else runs or fails.

`InventoryProofs`: `ItemInv` is `ItemsAreSound` with four facts that it needs to be
inductive: an item that does not exist yet has no history or disposition
(`NothingBefore`), one request at a time holds an item (`LocksExclude`), what a
request read under the lock is still the row (`LockedIsCurrent`), and a locked item
is one of the request's (`Addressed`). `ListedItemsSound` is the same for Listings,
whose other steps leave the inventory alone. `LimitInv` adds to `ItemInv` that the
rows are finitely many, that the owner of a row exists, and that a request which has
counted still has room (`RoomKept`). The last one, from which `AdditionsWithinLimit`
follows, holds only because the count is made under the lock of the item; without
`LocksExclude` a second upload could fill the room. `KeepInv` proves `ItemsKeepFiles`.
The image of an upload that has not committed has no row and no other request
knows it (`UploadsApart`), one that has committed is its item's or nobody's
(`UploadsOwned`), and a row whose file a request will remove belongs to no item or
goes with that request's commit (`DoomedGo`). The last one needs that no other
request takes an item out of a container under deletion, which is what the
property's condition says of the requests (`InTurn`). An approval adds images that no
request knows (`ApprovalAdds`). `UnusedPlacesGo` marks out the finding of
InventoryUsedPlace: when requests come one after the other, a location or type that a
deletion has found without containers still has none when it goes (`FoundUnused`).
Inventory groups are not in it, since an approval may use one between the count and
the deletion.

Only model-checked: liveness (`FlockIsHandedOver`, `OperationEnds`,
`EveryImageSettles`, `SessionSettles`, `AssistEnds`, `JobsEnd`, `ExportsExpire`), which
is beyond the prover, and the counterexamples of the violation runs. Every
invariant and action property of a passing run is a theorem. `ServesOnlyValidated` is one under
`FewFaults` only, as said above; the scenarios of Restore are within `FewFaults` or
excepted by the property itself.

## Abstractions

- SQL transactions are atomic; their COMMIT may fail before or after it took
  effect where the fault is enabled. PostgreSQL row locks are respected.
- pg_dump, pg_restore, migration, verification, image decoding and AI providers
  succeed or fail.
- The operator follows Backup_Restore.md: the CLI runs while the API is stopped,
  and after a failed CLI run the API stays stopped until one succeeds.
- RestoreService takes backup sets as contents (BackupFiles has the files), and
  the lock as a single owner (OperationLock has the steps).
- Row locks are those of the statements in the code and of the foreign keys and
  cascades in the schema; a read without a lock sees the committed state.
- WholeScene keeps of a source image only whether it has settled and is usable.
- Inventory takes the images of an approved group to have their files (IntakePipeline
  has the exceptions), keeps no upload groups, and makes an approval, with its check
  of the inventory group, one step.
- Inventory leaves out the archived flag and the location of an item, fields no
  other request reads, and an update that clears a reference of a container.
- The retention counting of invalid sets, HTTP routes and time limits, and text
  formats are left out.

## Not modelled, and the plan

1. BackupSchedule: settings row, apply hook and cron entry, with reapplySettings
   of a restore and concurrent updates.
2. A composition of RestoreService with the workers: what a restored dump with
   rows in processing does to them (restore.go:174).
3. AI provider settings: patch against activation under the one-active index
   (admin_ai.go:255).
4. Media archives as a variant of BackupFiles; the updater's sentinel.
5. `ServesOnlyValidated` for a death next to a failing rollback or job write, if
   start-up comes to keep the gate shut then.

Left out for good: the whole-scene response parser (string repair), reports and
probes, path and name helpers with their own unit tests, the front end's
rendering, and the release scripts.
