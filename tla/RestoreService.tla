---------------------------- MODULE RestoreService ----------------------------
(***************************************************************************)
(* Database restore as api/internal/backup runs it: restore.go,           *)
(* job_store.go, the start-up recovery of service.go and the recovery CLI *)
(* (cmd/fastsell-backup), together with the maintenance gate that the     *)
(* application's writers pass (MaintenanceGate) and the operation lock,   *)
(* used through its specification ExclusiveOperation: "owner" is the one  *)
(* operation that runs.                                                   *)
(*                                                                         *)
(* Database contents are numbered: 0 is the database the system starts    *)
(* with and j is what restore job j builds.  A job file is replaced by    *)
(* writing <id>.json.partial and renaming it; the process may die between *)
(* the two, and the writes of one operation happen one after the other.   *)
(*                                                                         *)
(* The operator follows Backup_Restore.md: the CLI runs only while the    *)
(* API is stopped, and after a failed CLI run the API stays stopped.      *)
(***************************************************************************)
EXTENDS MaintenanceGate

CONSTANTS MaxJobs,      \* bound: job ids
          Scenarios     \* what may go wrong: the faults, and bounds on deaths and jobs

\* "verify": the active database fails its check or the settings reload fails
\* "rollback": swapping back or checking the original fails
\* "commit": COMMIT of a rename pair takes effect and still reports an error
\* "persist": a job file cannot be written or flushed
PossibleFaults == {"verify", "rollback", "commit", "persist"}

ASSUME ServiceAssumption == /\ MaxJobs \in Nat
                            /\ Scenarios \subseteq [faults : SUBSET PossibleFaults, deaths : Nat,
                                              jobs : 0 .. MaxJobs]

JobIds   == 1 .. MaxJobs
Contents == 0 .. MaxJobs
NoJob    == 0

VARIABLES api,        \* the API process
          owner,      \* the operation that holds the operation lock
          host,       \* the process that operation runs in
          stage,      \* where the operation is
          job,        \* its job
          pre,        \* the job of the pre-restore backup it makes
          preSet,     \* the content that backup holds, once made
          failedAt,   \* the phase that made the restore roll back
          staged,     \* stagingExists
          starter,    \* whether the handler that started it has not returned
          sched,      \* the scheduled backup between its two checks
          jobs,       \* the job files
          partial,    \* the jobs with a .json.partial file
          pend,       \* the job file being written
          perr,       \* whether the last job file write failed
          uncertain,  \* databaseUncertain in RecoverInterrupted
          current,    \* the content of the active database
          retained,   \* the contents a swap renamed aside (oldName)
          backups,    \* the contents that have a published backup set
          trusted,    \* the active database passed its check since it was activated
          lastGood,   \* the content last known good
          cliFailed,  \* the last CLI run failed: the operator keeps the API stopped
          crashes,    \* process deaths so far
          scenario    \* the one of Scenarios that this behaviour belongs to

opVars   == <<owner, host, stage, job, pre, preSet, failedAt, staged, starter>>
fileVars == <<jobs, partial, pend, perr>>
dbVars   == <<current, retained, backups, trusted, lastGood>>
procVars == <<api, sched, uncertain, cliFailed, crashes, scenario>>
vars     == <<gateVars, opVars, fileVars, dbVars, procVars>>

May(fault) == fault \in scenario.faults

\* A mistake to catch: recovery takes the phase after the swap for harmless.
DestructiveShort == {"swapping", "rescheduling", "rollingback"}

Destructive == {"swapping", "active", "rescheduling", "rollingback"}
Phases      == {"queued", "entering", "validating", "prebackup", "creating", "restoring",
                "migrating", "verifying", "removing", "complete"} \cup Destructive
Stages      == Phases \cup {"idle", "saving", "draining", "predump", "predone", "prefailed",
                "rbverify", "rbresched", "unstage", "exitgate", "release",
                "recover", "recovering", "raise", "raising", "clean", "cli", "dumping"}
States      == {"absent", "queued", "running", "succeeded", "failed"}

JobRec  == [kind : {"none", "restore", "backup"}, state : States, phase : Phases,
            warned : BOOLEAN]       \* warned: RecoveryMessage says maintenance stays
NoRec   == [kind |-> "none", state |-> "absent", phase |-> "queued", warned |-> FALSE]
NewRec(kind) == [NoRec EXCEPT !.kind = kind, !.state = "queued"]
NoWrite == [id |-> NoJob, rec |-> NoRec, written |-> FALSE]

TypeOK ==
  /\ GateTypeOK
  /\ api \in {"down", "starting", "ready"}
  /\ owner \in {"none", "startup", "restore", "backup"} /\ host \in {"none", "api", "cli"}
  /\ stage \in Stages /\ failedAt \in Phases
  /\ job \in 0 .. MaxJobs /\ pre \in 0 .. MaxJobs /\ preSet \in Contents
  /\ staged \in BOOLEAN /\ starter \in SUBSET Writers /\ sched \in {"idle", "checked"}
  /\ jobs \in [JobIds -> JobRec] /\ partial \in SUBSET JobIds
  /\ pend \in [id : 0 .. MaxJobs, rec : JobRec, written : BOOLEAN] /\ perr \in BOOLEAN
  /\ uncertain \in BOOLEAN /\ cliFailed \in BOOLEAN /\ crashes \in 0 .. scenario.deaths
  /\ current \in Contents /\ retained \in SUBSET Contents /\ backups \in SUBSET Contents
  /\ trusted \in BOOLEAN /\ lastGood \in Contents /\ scenario \in Scenarios

Init ==
  /\ GateInit
  /\ api \in {"ready", "down"} /\ owner = "none" /\ host = "none" /\ stage = "idle"
  /\ job = NoJob /\ pre = NoJob /\ preSet = 0 /\ failedAt = "queued"
  /\ staged = FALSE /\ starter = {} /\ sched = "idle"
  /\ jobs = [j \in JobIds |-> NoRec] /\ partial = {} /\ pend = NoWrite /\ perr = FALSE
  /\ uncertain = FALSE /\ cliFailed = FALSE /\ crashes = 0 /\ scenario \in Scenarios
  /\ current = 0 /\ retained = {} /\ backups \in {{}, {0}} /\ trusted = TRUE /\ lastGood = 0

-----------------------------------------------------------------------------
(* Job files.  newJob draws a fresh id; Save and Update of JobStore end in *)
(* saveLocked, whose two effects on the directory are separate steps.      *)
FreshId(j) == /\ j \in 1 .. scenario.jobs /\ j \notin partial /\ jobs[j].state = "absent"
              /\ \A k \in 1 .. j - 1 : k \in partial \/ jobs[k].state # "absent"

Persist(j, rec) == pend' = [id |-> j, rec |-> rec, written |-> FALSE]

\* Update reads the job file before it changes it; a job that was never
\* saved is not written.
PersistUpdate(j, rec) ==
  IF jobs[j].state = "absent" THEN UNCHANGED pend ELSE Persist(j, rec)

Idle == pend = NoWrite      \* the operation is not inside JobStore

WritePartial ==
  /\ ~Idle /\ ~pend.written /\ pend.id \notin partial
  /\ partial' = partial \cup {pend.id}
  /\ pend' = [pend EXCEPT !.written = TRUE]
  /\ UNCHANGED <<gateVars, opVars, jobs, perr, dbVars, procVars>>

\* O_EXCL finds a partial file, or the disk refuses; the caller gets the error.
RefusePartial ==
  /\ ~Idle /\ ~pend.written
  /\ pend.id \in partial \/ May("persist")
  /\ pend' = NoWrite /\ perr' = TRUE
  /\ UNCHANGED <<gateVars, opVars, jobs, partial, dbVars, procVars>>

\* The rename, and the fsync of the directory that may still report an error.
RenamePartial ==
  /\ ~Idle /\ pend.written
  /\ jobs' = [jobs EXCEPT ![pend.id] = pend.rec]
  /\ partial' = partial \ {pend.id} /\ pend' = NoWrite
  /\ perr' \in IF May("persist") THEN BOOLEAN ELSE {FALSE}
  /\ UNCHANGED <<gateVars, opVars, dbVars, procVars>>

-----------------------------------------------------------------------------
(* The application.  A request or a scan passes the gate; the request that *)
(* starts an operation returns only after the job file is saved.           *)
AppBeginWrite(w) ==
  /\ api = "ready" /\ BeginWrite(w)
  /\ UNCHANGED <<opVars, fileVars, dbVars, procVars>>

AppEndWrite(w) ==
  /\ w \notin starter /\ EndWrite(w)
  /\ UNCHANGED <<opVars, fileVars, dbVars, procVars>>

\* A POST /backups/.../restore that the gate admitted: StartRestore.
StartRestore(w) ==
  /\ api = "ready" /\ wpc[w] = "active" /\ owner = "none" /\ backups # {}
  /\ \E j \in JobIds :
       /\ FreshId(j) /\ j < scenario.jobs      \* an id is left for the pre-restore job
       /\ job' = j /\ Persist(j, NewRec("restore"))
  /\ owner' = "restore" /\ host' = "api" /\ stage' = "saving" /\ starter' = {w}
  /\ UNCHANGED <<gateVars, pre, preSet, failedAt, staged, jobs, partial, perr, dbVars, procVars>>

BeginBackup ==
  /\ owner = "none"
  /\ \E j \in JobIds : FreshId(j) /\ job' = j /\ Persist(j, NewRec("backup"))
  /\ owner' = "backup" /\ host' = "api" /\ stage' = "saving"
  /\ UNCHANGED <<gateVars, pre, preSet, failedAt, staged, jobs, partial, perr, dbVars>>

\* A POST /backups that the gate admitted: StartBackup("manual").  Its first
\* check, gate.Active, can refuse it only while a restore waits for it and so
\* holds the lock.
StartManualBackup(w) ==
  /\ api = "ready" /\ wpc[w] = "active"
  /\ BeginBackup /\ starter' = {w}
  /\ UNCHANGED procVars

\* StartBackup("scheduled") reads gate.Active first and asks for the lock later.
CheckScheduledBackup ==
  /\ api = "ready" /\ sched = "idle" /\ ~maintenance
  /\ sched' = "checked"
  /\ UNCHANGED <<gateVars, opVars, fileVars, dbVars, api, uncertain, cliFailed, crashes, scenario>>

StartScheduledBackup ==
  /\ sched = "checked" /\ sched' = "idle"
  /\ \/ BeginBackup /\ UNCHANGED starter
     \/ owner # "none" /\ UNCHANGED <<gateVars, opVars, fileVars, dbVars>>
  /\ UNCHANGED <<api, uncertain, cliFailed, crashes, scenario>>

\* Another locked request, DeleteBackup, removes a set in one step.
DeleteBackup(w) ==
  /\ wpc[w] = "active" /\ owner = "none"
  /\ \E c \in backups : backups' = backups \ {c}
  /\ UNCHANGED <<gateVars, opVars, fileVars, procVars, current, retained, trusted, lastGood>>

-----------------------------------------------------------------------------
(* The start of an operation and its end                                   *)

\* A mistake to catch: the error path of the request keeps the lock.
AbandonStartLocked ==
  /\ stage = "saving" /\ Idle /\ perr
  /\ stage' = "idle" /\ starter' = {}
  /\ UNCHANGED <<gateVars, owner, host, job, pre, preSet, failedAt, staged, fileVars, dbVars,
                 procVars>>

\* Save failed: the lock is released and the request gets an error.
AbandonStart ==
  /\ stage = "saving" /\ Idle /\ perr
  /\ owner' = "none" /\ host' = "none" /\ stage' = "idle" /\ job' = NoJob /\ starter' = {}
  /\ cliFailed' = (cliFailed \/ host = "cli")
  /\ UNCHANGED <<gateVars, pre, preSet, failedAt, staged, fileVars, dbVars,
                 api, sched, uncertain, crashes, scenario>>

FirstPhase == IF owner = "restore" THEN "entering" ELSE "queued"

\* Save succeeded: the request returns and the goroutine marks the job running.
Launch ==
  /\ stage = "saving" /\ Idle /\ ~perr
  /\ starter' = {}
  /\ stage' = IF owner = "restore" THEN "entering" ELSE "dumping"
  /\ Persist(job, [jobs[job] EXCEPT !.state = "running", !.phase = FirstPhase])
  /\ UNCHANGED <<gateVars, owner, host, job, pre, preSet, failedAt, staged,
                 jobs, partial, perr, dbVars, procVars>>

\* createDatabaseBackup, with CleanupPartials before the dump and retention
\* after it; the sets retention removes are never the new one.
DumpDatabase ==
  /\ owner = "backup" /\ stage = "dumping" /\ Idle
  /\ partial' = {}
  /\ \/ /\ \E kept \in SUBSET backups : backups' = kept \cup {current}
        /\ Persist(job, [jobs[job] EXCEPT !.state = "succeeded", !.phase = "complete"])
     \/ /\ Persist(job, [jobs[job] EXCEPT !.state = "failed"])
        /\ UNCHANGED backups
  /\ stage' = "release"
  /\ UNCHANGED <<gateVars, owner, host, job, pre, preSet, failedAt, staged, starter,
                 jobs, perr, current, retained, trusted, lastGood, procVars>>

\* The deferred release; the CLI prints the outcome of its job and exits.
Release ==
  /\ stage = "release" /\ Idle
  /\ owner' = "none" /\ host' = "none" /\ stage' = "idle"
  /\ job' = NoJob /\ pre' = NoJob /\ preSet' = 0 /\ failedAt' = "queued" /\ staged' = FALSE
  /\ cliFailed' = IF host = "cli" THEN jobs[job].state # "succeeded" ELSE cliFailed
  /\ UNCHANGED <<gateVars, starter, fileVars, dbVars, api, sched, uncertain, crashes, scenario>>

-----------------------------------------------------------------------------
(* runRestoreJob                                                           *)
At(s) == owner = "restore" /\ stage = s /\ Idle

Announce(phase) ==
  /\ stage' = phase
  /\ PersistUpdate(job, [jobs[job] EXCEPT !.phase = phase])

\* failRestore, then the deferred calls run.
Fail(phase) ==
  /\ stage' = "unstage"
  /\ PersistUpdate(job, [jobs[job] EXCEPT !.state = "failed", !.phase = phase])

runUnchanged == <<owner, host, job, starter, jobs, partial, perr, procVars>>

\* The gate of the CLI process has no writers and is not modelled.
EnterGate ==
  /\ At("entering")
  /\ IF host = "api" THEN EnterMaintenance ELSE UNCHANGED gateVars
  /\ stage' = "draining"
  /\ UNCHANGED <<runUnchanged, pre, preSet, failedAt, staged, pend, dbVars>>

FinishDrain ==
  /\ At("draining")
  /\ IF host = "api" THEN Drained ELSE UNCHANGED gateVars
  /\ Announce("validating")
  /\ UNCHANGED <<runUnchanged, pre, preSet, failedAt, staged, dbVars>>

\* The two hours of the CLI's context are over: no Exit on this path.
DrainTimesOut ==
  /\ At("draining") /\ host = "cli"
  /\ PersistUpdate(job, [jobs[job] EXCEPT !.state = "failed", !.phase = "entering"])
  /\ stage' = "release"
  /\ UNCHANGED <<gateVars, runUnchanged, pre, preSet, failedAt, staged, dbVars>>

\* preRestoreValidation of the selected set and Info of the active database.
ValidateSelected ==
  /\ At("validating")
  /\ \/ backups # {} /\ Announce("prebackup")
     \/ Fail("validating")
  /\ UNCHANGED <<gateVars, runUnchanged, pre, preSet, failedAt, staged, dbVars>>

SavePreJob ==
  /\ At("prebackup")
  /\ \E j \in JobIds :
       /\ FreshId(j) /\ pre' = j
       /\ Persist(j, [NewRec("backup") EXCEPT !.state = "running"])
  /\ stage' = "predump"
  /\ UNCHANGED <<gateVars, runUnchanged, preSet, failedAt, staged, dbVars>>

\* createDatabaseBackup without retention; it fails when its job file is missing.
PreRestoreDump ==
  /\ At("predump")
  /\ partial' = {}
  /\ \/ /\ jobs[pre].state # "absent"
        /\ backups' = backups \cup {current} /\ preSet' = current
        /\ PersistUpdate(pre, [jobs[pre] EXCEPT !.state = "succeeded", !.phase = "complete"])
        /\ stage' = "predone"
     \/ /\ PersistUpdate(pre, [jobs[pre] EXCEPT !.state = "failed"])
        /\ stage' = "prefailed"
        /\ UNCHANGED <<backups, preSet>>
  /\ UNCHANGED <<gateVars, owner, host, job, starter, pre, failedAt, staged, jobs, perr,
                 procVars, current, retained, trusted, lastGood>>

\* A mistake to catch: the restore goes on without its backup.
IgnorePreRestore ==
  /\ At("prefailed") /\ Announce("creating")
  /\ UNCHANGED <<gateVars, runUnchanged, pre, preSet, failedAt, staged, dbVars>>

FailPreRestore ==
  /\ At("prefailed") /\ Fail("prebackup")
  /\ UNCHANGED <<gateVars, runUnchanged, pre, preSet, failedAt, staged, dbVars>>

FinishPreRestore ==
  /\ At("predone") /\ Announce("creating")
  /\ UNCHANGED <<gateVars, runUnchanged, pre, preSet, failedAt, staged, dbVars>>

\* CreateDatabase, restoreDump, MigrateDatabase, VerifyDatabase of the staging
\* database: each goes on to the next phase or fails the restore.
NextPhase == [creating |-> "restoring", restoring |-> "migrating",
              migrating |-> "verifying", verifying |-> "swapping"]

BuildStaging ==
  /\ \E phase \in DOMAIN NextPhase :
       /\ At(phase)
       /\ \/ Announce(NextPhase[phase]) /\ staged' = TRUE
          \/ Fail(phase) /\ UNCHANGED staged
  /\ UNCHANGED <<gateVars, runUnchanged, pre, preSet, failedAt, dbVars>>

\* A mistake to catch: the original database is dropped, not renamed.
DropAndRename == /\ current' = job /\ trusted' = FALSE
                 /\ UNCHANGED <<retained, backups, lastGood>>

\* SwapDatabases renames both databases in one transaction.
RenameIn == /\ current' = job /\ retained' = retained \cup {current}
            /\ trusted' = FALSE
            /\ UNCHANGED <<backups, lastGood>>

SwapIn ==
  /\ At("swapping")
  /\ \/ RenameIn /\ Announce("active") /\ staged' = FALSE
     \/ Fail("swapping") /\ UNCHANGED <<dbVars, staged>>
     \/ May("commit") /\ RenameIn /\ Fail("swapping") /\ UNCHANGED staged
  /\ UNCHANGED <<gateVars, runUnchanged, pre, preSet, failedAt>>

StartRollback(phase) == Announce("rollingback") /\ failedAt' = phase

\* A mistake to catch: the restored database is not checked after the swap.
VerifySkipped ==
  /\ At("active") /\ Announce("rescheduling")
  /\ UNCHANGED <<gateVars, runUnchanged, pre, preSet, staged, failedAt, dbVars>>

VerifyActive ==
  /\ At("active")
  /\ \/ trusted' = TRUE /\ Announce("rescheduling") /\ UNCHANGED failedAt
     \/ May("verify") /\ StartRollback("active") /\ UNCHANGED trusted
  /\ UNCHANGED <<gateVars, runUnchanged, pre, preSet, staged, current, retained, backups, lastGood>>

\* reapplySettings on the restored database.
Reschedule ==
  /\ At("rescheduling")
  /\ \/ lastGood' = current /\ Announce("removing") /\ UNCHANGED failedAt
     \/ May("verify") /\ StartRollback("rescheduling") /\ UNCHANGED lastGood
  /\ UNCHANGED <<gateVars, runUnchanged, pre, preSet, staged, current, retained, backups, trusted>>

RemoveRetained ==
  /\ At("removing")
  /\ retained' \in {retained, retained \ {preSet}}
  /\ PersistUpdate(job, [jobs[job] EXCEPT !.state = "succeeded", !.phase = "complete"])
  /\ stage' = "exitgate"
  /\ UNCHANGED <<gateVars, runUnchanged, pre, preSet, failedAt, staged,
                 current, backups, trusted, lastGood>>

\* A mistake to catch: a failed rollback says nothing.
FailSilently ==
  /\ stage' = "release"
  /\ PersistUpdate(job, [jobs[job] EXCEPT !.state = "failed", !.phase = failedAt])

\* maintenanceMayExit = false: the gate stays shut, the lock is released.
FailUncertain ==
  /\ stage' = "release"
  /\ PersistUpdate(job, [jobs[job] EXCEPT !.state = "failed", !.phase = failedAt,
                           !.warned = TRUE])

\* A mistake to catch: the rollback leaves the restored database active.
RenameNothing == trusted' = FALSE /\ UNCHANGED <<current, retained>>

\* RollbackSwap, whose commit may fail before or after it took effect.
RenameBack == /\ current' = preSet /\ retained' = retained \ {preSet}
              /\ trusted' = FALSE

SwapBack ==
  /\ At("rollingback")
  /\ \/ RenameBack /\ stage' = "rbverify" /\ UNCHANGED pend
     \/ May("rollback") /\ FailUncertain /\ UNCHANGED <<current, retained, trusted>>
     \/ May("commit") /\ RenameBack /\ FailUncertain
  /\ UNCHANGED <<gateVars, runUnchanged, pre, preSet, failedAt, staged, backups, lastGood>>

VerifyOriginal ==
  /\ At("rbverify")
  /\ \/ trusted' = TRUE /\ stage' = "rbresched" /\ UNCHANGED pend
     \/ May("rollback") /\ FailUncertain /\ UNCHANGED trusted
  /\ UNCHANGED <<gateVars, runUnchanged, pre, preSet, failedAt, staged,
                 current, retained, backups, lastGood>>

RescheduleOriginal ==
  /\ At("rbresched")
  /\ \/ Fail(failedAt)
     \/ May("rollback") /\ FailUncertain
  /\ UNCHANGED <<gateVars, runUnchanged, pre, preSet, failedAt, staged, dbVars>>

\* The deferred calls: drop the staging database, reopen the gate.
DropStaging ==
  /\ At("unstage")
  /\ staged' = FALSE /\ stage' = "exitgate"
  /\ UNCHANGED <<gateVars, runUnchanged, pre, preSet, failedAt, pend, dbVars>>

ReopenGate ==
  /\ At("exitgate")
  /\ IF host = "api" THEN ExitMaintenance ELSE UNCHANGED gateVars
  /\ stage' = "release"
  /\ UNCHANGED <<runUnchanged, pre, preSet, failedAt, staged, pend, dbVars>>

RunRestore ==
  \/ EnterGate \/ FinishDrain \/ DrainTimesOut \/ ValidateSelected
  \/ SavePreJob \/ PreRestoreDump \/ FailPreRestore \/ FinishPreRestore
  \/ BuildStaging \/ SwapIn \/ VerifyActive \/ Reschedule \/ RemoveRetained
  \/ SwapBack \/ VerifyOriginal \/ RescheduleOriginal \/ DropStaging \/ ReopenGate

-----------------------------------------------------------------------------
(* Process deaths, NewService and the CLI                                  *)

OperationDies ==
  /\ owner' = "none" /\ host' = "none" /\ stage' = "idle" /\ job' = NoJob /\ pre' = NoJob
  /\ preSet' = 0 /\ failedAt' = "queued" /\ staged' = FALSE /\ starter' = {}
  /\ pend' = NoWrite /\ uncertain' = FALSE

\* SIGTERM, SIGKILL or power loss: no goroutine of the API gets to finish.
ApiDies ==
  /\ api # "down" /\ crashes < scenario.deaths /\ crashes' = crashes + 1
  /\ api' = "down" /\ GateReset /\ sched' = "idle" /\ OperationDies
  /\ UNCHANGED <<jobs, partial, perr, dbVars, cliFailed, scenario>>

CliDies ==
  /\ host = "cli" /\ crashes < scenario.deaths /\ crashes' = crashes + 1
  /\ OperationDies /\ cliFailed' = TRUE
  /\ UNCHANGED <<gateVars, jobs, partial, perr, dbVars, api, sched, scenario>>

\* NewService takes the lock for start-up recovery.
StartApi ==
  /\ api = "down" /\ host = "none" /\ ~cliFailed
  /\ api' = "starting" /\ owner' = "startup" /\ host' = "api" /\ stage' = "recover"
  /\ UNCHANGED <<gateVars, job, pre, preSet, failedAt, staged, starter, fileVars, dbVars,
                 sched, uncertain, cliFailed, crashes, scenario>>

StartCli ==
  /\ api = "down" /\ host = "none"
  /\ owner' = "startup" /\ host' = "cli" /\ stage' = "recover"
  /\ UNCHANGED <<gateVars, job, pre, preSet, failedAt, staged, starter, fileVars, dbVars, procVars>>

Interrupted == {j \in JobIds : jobs[j].state \in {"queued", "running"}}

\* The restore may have replaced the database before it was interrupted.
IsDestructive(rec) == rec.kind = "restore" /\ rec.phase \in Destructive
Recovered(rec)     == [rec EXCEPT !.state = "failed",
                                  !.warned = rec.warned \/ IsDestructive(rec)]

\* RecoverInterrupted handles the job files in name order, oldest first.
RecoverJob ==
  /\ stage = "recover" /\ Idle
  /\ \E j \in Interrupted :
       /\ \A k \in Interrupted : j <= k
       /\ uncertain' = (uncertain \/ IsDestructive(jobs[j]))
       /\ Persist(j, Recovered(jobs[j]))
  /\ stage' = "recovering"
  /\ UNCHANGED <<gateVars, owner, host, job, pre, preSet, failedAt, staged, starter,
                 jobs, partial, perr, dbVars, api, sched, cliFailed, crashes, scenario>>

NextRecovery ==
  /\ stage = "recovering" /\ Idle /\ ~perr
  /\ stage' = "recover"
  /\ UNCHANGED <<gateVars, owner, host, job, pre, preSet, failedAt, staged, starter,
                 fileVars, dbVars, procVars>>

\* NewService fails: the API exits through log.Fatalf, the CLI with status 1.
RecoveryFails ==
  /\ stage = "recovering" /\ Idle /\ perr
  /\ owner' = "none" /\ host' = "none" /\ stage' = "idle" /\ uncertain' = FALSE
  /\ api' = "down" /\ cliFailed' = (cliFailed \/ host = "cli")
  /\ UNCHANGED <<gateVars, job, pre, preSet, failedAt, staged, starter, fileVars, dbVars,
                 sched, crashes, scenario>>

\* All interrupted jobs are failed; an uncertain database shuts the gate first.
AfterRecovery ==
  /\ stage = "recover" /\ Idle /\ Interrupted = {}
  /\ stage' = IF uncertain /\ host = "api" THEN "raise" ELSE "clean"
  /\ UNCHANGED <<gateVars, owner, host, job, pre, preSet, failedAt, staged, starter,
                 fileVars, dbVars, procVars>>

RaiseGate ==
  /\ \/ stage = "raise" /\ EnterMaintenance /\ stage' = "raising"
     \/ stage = "raising" /\ Drained /\ stage' = "clean"
  /\ UNCHANGED <<owner, host, job, pre, preSet, failedAt, staged, starter,
                 fileVars, dbVars, procVars>>

\* CleanupPartials; then the API serves, or the CLI goes on to RunRestore.
FinishStartup ==
  /\ stage = "clean"
  /\ partial' = {} /\ uncertain' = FALSE
  /\ owner' = "none"
  /\ IF host = "api" THEN stage' = "idle" /\ host' = "none" /\ api' = "ready"
                     ELSE stage' = "cli" /\ UNCHANGED <<host, api>>
  /\ UNCHANGED <<gateVars, job, pre, preSet, failedAt, staged, starter,
                 jobs, pend, perr, dbVars, sched, cliFailed, crashes, scenario>>

RunCliRestore ==
  /\ stage = "cli" /\ owner = "none"
  /\ \E j \in JobIds :
       /\ FreshId(j) /\ j < scenario.jobs      \* an id is left for the pre-restore job
       /\ job' = j /\ Persist(j, NewRec("restore"))
  /\ owner' = "restore" /\ stage' = "saving"
  /\ UNCHANGED <<gateVars, host, pre, preSet, failedAt, staged, starter,
                 jobs, partial, perr, dbVars, procVars>>

-----------------------------------------------------------------------------
JobFileStep == WritePartial \/ RefusePartial \/ RenamePartial
Operation   == AbandonStart \/ Launch \/ DumpDatabase \/ Release \/ RunRestore
Startup     == \/ RecoverJob \/ NextRecovery \/ RecoveryFails \/ AfterRecovery
               \/ RaiseGate \/ FinishStartup \/ RunCliRestore

Request(w) == \/ AppBeginWrite(w) \/ AppEndWrite(w) \/ StartRestore(w)
              \/ StartManualBackup(w) \/ DeleteBackup(w)

Next == \/ \E w \in Writers : Request(w)
        \/ CheckScheduledBackup \/ StartScheduledBackup
        \/ JobFileStep \/ Operation \/ Startup
        \/ StartApi \/ StartCli \/ ApiDies \/ CliDies

Spec == Init /\ [][Next]_vars

\* Goroutines run on, commands end (the service waits for them), handlers and
\* scans end.  Nothing obliges an operator or a client to start anything.
FairSpec == /\ Spec
            /\ WF_vars(JobFileStep) /\ WF_vars(Operation) /\ WF_vars(Startup)
            /\ \A w \in Writers : WF_vars(AppEndWrite(w))

-----------------------------------------------------------------------------
InProtectedPart ==
  /\ owner = "restore" /\ host = "api"
  /\ stage \notin {"saving", "entering", "draining", "release"}

(* From the end of the drain to the reopening of the gate, no request and *)
(* no worker scan runs next to the restore, however the restore ends      *)
(* (restore.go:77-86, router.go, the BeginWrite hooks of the workers).    *)
RestoreRunsAlone == InProtectedPart => maintenance /\ Active = {}

(* The application accepts writes only on a database that was checked     *)
(* since it was activated ("exits maintenance mode only after validation  *)
(* succeeds", Backup_Restore.md), unless COMMIT may report a false error. *)
ServesOnlyValidated ==
  api = "ready" /\ ~maintenance /\ ~May("commit") => trusted

(* Whatever dies or fails, the last good database content exists on the   *)
(* server, active or renamed aside: nothing drops it before its           *)
(* replacement passed all checks (restore.go:174-225).                    *)
LastGoodIsKept == lastGood \in {current} \cup retained

(* While the original database is renamed aside or being replaced, the    *)
(* backup made of it before the restore is in the inventory: no retention *)
(* and no deletion runs in between (restore.go:101-130, service.go:407).  *)
PreRestoreBackupKept ==
  owner = "restore" /\ stage \in Destructive \cup {"rbverify", "rbresched", "removing"}
    => preSet \in backups /\ (current = preSet \/ preSet \in retained)

(* A restore job that reports failure without a warning left the original *)
(* database active; "removing" is the phase after all checks, where only  *)
(* the final job write can be lost (restore.go:245, job_store.go:147).    *)
(* Job files that cannot be written, or a false COMMIT error, break this. *)
FailureLeavesOriginal ==
  \A j \in JobIds :
    /\ jobs[j].kind = "restore" /\ jobs[j].state = "failed" /\ ~jobs[j].warned
    /\ jobs[j].phase # "removing" /\ ~May("commit") /\ ~May("persist")
    => current # j

(* A restore job becomes "succeeded" only with its content active and     *)
(* checked.                                                               *)
SuccessIsValidated ==
  [][\A j \in JobIds :
       jobs[j].kind = "restore" /\ jobs[j].state # "succeeded" /\ jobs'[j].state = "succeeded"
         => (current = j /\ trusted)]_vars

(* Once a failed rollback or start-up recovery left the gate shut, no     *)
(* request can start another restore in that process: every request that  *)
(* was admitted before has ended, and the gate admits no more.            *)
ShutGateStartsNoRestore ==
  [][(maintenance /\ owner = "none" /\ owner' = "restore") => host' = "cli"]_vars

(* A start-up that ends, with a serving API or with an error, has removed *)
(* the partial files a dead process left ("Abandoned partial files are    *)
(* removed on startup", Backup_Restore.md).                               *)
StartupRemovesPartials ==
  [][(owner = "startup" /\ owner' = "none" /\ crashes' = crashes) => partial' = {}]_vars

(* Every operation ends and frees the lock, also when its job files       *)
(* cannot be written and whatever step fails.                             *)
OperationEnds == owner # "none" ~> owner = "none"

(* A restore that ends in the process that ran it either reopened the     *)
(* gate or left a warning in its job: applications are not locked out     *)
(* silently, unless the job file cannot be written.                       *)
LockoutIsAnnounced ==
  api = "ready" /\ owner = "none" /\ maintenance /\ ~May("persist")
    => \E j \in JobIds : jobs[j].kind = "restore" /\ jobs[j].warned

(* Everything the gate guarantees holds inside this composition: every    *)
(* step is a step of MaintenanceGate or leaves the gate alone.            *)
UsesGate == GateSpec
=============================================================================
