------------------------- MODULE RestoreServiceProofs -------------------------
(***************************************************************************)
(* Guarantees of a database restore for any number of writers, jobs and   *)
(* deaths: it runs alone, the last good content and the backup made of it *)
(* stay, a shut gate starts no restore, success means a checked database, *)
(* failure the original one, a lockout comes with a warning, and the      *)
(* application serves only a checked database.                            *)
(***************************************************************************)
EXTENDS RestoreService, MaintenanceGateProofs

(* Every step of the service moves the gate by one of its own operations, *)
(* or leaves it alone.                                                    *)
LEMMA StepUsesGate ==
  ASSUME [Next]_vars PROVE [GateNext]_gateVars
<1>1. ASSUME NEW w \in Writers, Request(w) PROVE [GateNext]_gateVars
  BY <1>1 DEF Request, AppBeginWrite, AppEndWrite, StartRestore, StartManualBackup,
              BeginBackup, DeleteBackup, GateNext
<1>2. CASE CheckScheduledBackup \/ StartScheduledBackup
  BY <1>2 DEF CheckScheduledBackup, StartScheduledBackup, BeginBackup
<1>3. CASE JobFileStep
  BY <1>3 DEF JobFileStep, WritePartial, RefusePartial, RenamePartial
<1>4. CASE AbandonStart \/ Launch \/ DumpDatabase \/ Release
  BY <1>4 DEF AbandonStart, Launch, DumpDatabase, Release
<1>5. CASE RunRestore
  BY <1>5 DEF RunRestore, EnterGate, FinishDrain, DrainTimesOut, ValidateSelected,
              SavePreJob, PreRestoreDump, FailPreRestore, FinishPreRestore, BuildStaging,
              SwapIn, VerifyActive, Reschedule, RemoveRetained, SwapBack, VerifyOriginal,
              RescheduleOriginal, DropStaging, ReopenGate, GateNext
<1>6. CASE Startup
  BY <1>6 DEF Startup, RecoverJob, NextRecovery, RecoveryFails, AfterRecovery, RaiseGate,
              FinishStartup, RunCliRestore, GateNext
<1>7. CASE StartApi \/ StartCli \/ ApiDies \/ CliDies
  BY <1>7 DEF StartApi, StartCli, ApiDies, CliDies, GateNext
<1>8. CASE UNCHANGED vars
  BY <1>8 DEF vars
<1> QED
  BY <1>1, <1>2, <1>3, <1>4, <1>5, <1>6, <1>7, <1>8 DEF Next, Operation

(* The service uses the gate only through its operations, so everything   *)
(* proved of MaintenanceGate holds in it.                                 *)
THEOREM ServiceUsesGate == Spec => UsesGate
<1>1. Init => GateInit
  BY DEF Init
<1>2. [Next]_vars => [GateNext]_gateVars
  BY StepUsesGate
<1> QED BY <1>1, <1>2, PTL DEF Spec, UsesGate, GateSpec

-----------------------------------------------------------------------------
(* The inductive reason why a restore runs alone: its goroutine is the    *)
(* drainer the gate knows.                                                *)
DrainerInside == InProtectedPart => dpc = "inside"

(* No step takes the drained gate from a restore that still needs it.     *)
LEMMA DrainerStep ==
  ASSUME DrainerInside, [Next]_vars PROVE DrainerInside'
<1> USE DEF DrainerInside, InProtectedPart
<1>1. ASSUME NEW w \in Writers, Request(w) PROVE DrainerInside'
  <2>1. CASE AppBeginWrite(w) \/ AppEndWrite(w)
    BY <2>1 DEF AppBeginWrite, AppEndWrite, BeginWrite, EndWrite, opVars
  <2>2. CASE StartRestore(w)
    BY <2>2 DEF StartRestore
  <2>3. CASE StartManualBackup(w)
    BY <2>3 DEF StartManualBackup, BeginBackup
  <2>4. CASE DeleteBackup(w)
    BY <2>4 DEF DeleteBackup, opVars, gateVars
  <2> QED BY <1>1, <2>1, <2>2, <2>3, <2>4 DEF Request
<1>2. CASE CheckScheduledBackup \/ StartScheduledBackup
  BY <1>2 DEF CheckScheduledBackup, StartScheduledBackup, BeginBackup, opVars, gateVars
<1>3. CASE JobFileStep
  BY <1>3 DEF JobFileStep, WritePartial, RefusePartial, RenamePartial, opVars, gateVars
<1>4. CASE AbandonStart \/ Launch \/ DumpDatabase \/ Release
  BY <1>4 DEF AbandonStart, Launch, DumpDatabase, Release, gateVars
<1>5. CASE RunRestore
  <2> USE DEF At, runUnchanged, gateVars
  <2>1. CASE EnterGate
    BY <2>1 DEF EnterGate
  <2>2. CASE FinishDrain
    BY <2>2 DEF FinishDrain, Drained
  <2>3. CASE DrainTimesOut \/ ReopenGate
    BY <2>3 DEF DrainTimesOut, ReopenGate
  <2>4. CASE ValidateSelected \/ SavePreJob \/ PreRestoreDump \/ FailPreRestore \/ FinishPreRestore
    BY <2>4 DEF ValidateSelected, SavePreJob, PreRestoreDump, FailPreRestore, FinishPreRestore
  <2>5. CASE BuildStaging
    BY <2>5 DEF BuildStaging, NextPhase
  <2>6. CASE SwapIn \/ VerifyActive \/ Reschedule \/ RemoveRetained
    BY <2>6 DEF SwapIn, VerifyActive, Reschedule, RemoveRetained
  <2>7. CASE SwapBack \/ VerifyOriginal \/ RescheduleOriginal \/ DropStaging
    BY <2>7 DEF SwapBack, VerifyOriginal, RescheduleOriginal, DropStaging
  <2> QED BY <1>5, <2>1, <2>2, <2>3, <2>4, <2>5, <2>6, <2>7 DEF RunRestore
<1>6. CASE RaiseGate
  BY <1>6 DEF RaiseGate, EnterMaintenance, Drained
<1>7. CASE RecoverJob \/ NextRecovery \/ RecoveryFails \/ AfterRecovery \/ FinishStartup
             \/ RunCliRestore
  BY <1>7 DEF RecoverJob, NextRecovery, RecoveryFails, AfterRecovery, FinishStartup,
              RunCliRestore, gateVars
<1>8. CASE StartApi \/ StartCli \/ ApiDies \/ CliDies
  BY <1>8 DEF StartApi, StartCli, ApiDies, CliDies, OperationDies, gateVars
<1>9. CASE UNCHANGED vars
  BY <1>9 DEF vars, opVars, gateVars
<1> QED
  BY <1>1, <1>2, <1>3, <1>4, <1>5, <1>6, <1>7, <1>8, <1>9 DEF Next, Operation, Startup

(* From the end of the drain to the reopening of the gate no application  *)
(* write runs next to a restore.                                          *)
THEOREM RestoreIsAlone == Spec => []RestoreRunsAlone
<1>1. Init => DrainerInside
  BY DEF Init, DrainerInside, InProtectedPart
<1>2. DrainerInside /\ [Next]_vars => DrainerInside'
  BY DrainerStep
<1>3. DrainerInside /\ GateInv => RestoreRunsAlone
  BY DrainedIsEmpty
     DEF DrainerInside, RestoreRunsAlone, NoWriterInside, GateInv, CapturesCurrentChannel
<1>4. Spec => []GateInv
  BY ServiceUsesGate, GateInvariant, PTL DEF UsesGate
<1> QED BY <1>1, <1>2, <1>3, <1>4, PTL DEF Spec

-----------------------------------------------------------------------------
(* The inductive reason why no good content is lost: until the restored   *)
(* database has passed all checks the good one is renamed aside, and the  *)
(* retained database is dropped only after that.                          *)
GoodInv ==
  /\ LastGoodIsKept
  /\ owner = "restore" /\ stage \in {"active", "rescheduling", "rollingback"}
       => lastGood \in retained
  /\ owner = "restore" /\ stage = "removing" => lastGood = current

(* Every step keeps the last good content, whatever fails.                *)
LEMMA GoodStep ==
  ASSUME GoodInv, [Next]_vars PROVE GoodInv'
<1> USE DEF GoodInv, LastGoodIsKept
<1>1. ASSUME NEW w \in Writers, Request(w) PROVE GoodInv'
  BY <1>1 DEF Request, AppBeginWrite, AppEndWrite, StartRestore, StartManualBackup,
              BeginBackup, DeleteBackup, opVars, dbVars
<1>2. CASE CheckScheduledBackup \/ StartScheduledBackup
  BY <1>2 DEF CheckScheduledBackup, StartScheduledBackup, BeginBackup, opVars, dbVars
<1>3. CASE JobFileStep
  BY <1>3 DEF JobFileStep, WritePartial, RefusePartial, RenamePartial, opVars, dbVars
<1>4. CASE AbandonStart \/ Launch \/ DumpDatabase \/ Release
  BY <1>4 DEF AbandonStart, Launch, DumpDatabase, Release, dbVars
<1>5. CASE RunRestore
  <2> USE DEF At, runUnchanged, dbVars, Announce, Fail
  <2>1. CASE EnterGate \/ FinishDrain \/ DrainTimesOut \/ ReopenGate
    BY <2>1 DEF EnterGate, FinishDrain, DrainTimesOut, ReopenGate
  <2>2. CASE ValidateSelected \/ SavePreJob \/ PreRestoreDump \/ FailPreRestore \/ FinishPreRestore
    BY <2>2 DEF ValidateSelected, SavePreJob, PreRestoreDump, FailPreRestore, FinishPreRestore
  <2>3. CASE BuildStaging
    BY <2>3 DEF BuildStaging, NextPhase
  <2>4. CASE SwapIn
    BY <2>4 DEF SwapIn, RenameIn
  <2>5. CASE VerifyActive \/ Reschedule \/ RemoveRetained
    BY <2>5 DEF VerifyActive, Reschedule, RemoveRetained, StartRollback
  <2>6. CASE SwapBack
    BY <2>6 DEF SwapBack, RenameBack, FailUncertain
  <2>7. CASE VerifyOriginal \/ RescheduleOriginal \/ DropStaging
    BY <2>7 DEF VerifyOriginal, RescheduleOriginal, DropStaging, FailUncertain
  <2> QED BY <1>5, <2>1, <2>2, <2>3, <2>4, <2>5, <2>6, <2>7 DEF RunRestore
<1>6. CASE Startup
  BY <1>6 DEF Startup, RecoverJob, NextRecovery, RecoveryFails, AfterRecovery, RaiseGate,
              FinishStartup, RunCliRestore, dbVars
<1>7. CASE StartApi \/ StartCli \/ ApiDies \/ CliDies
  BY <1>7 DEF StartApi, StartCli, ApiDies, CliDies, OperationDies, dbVars
<1>8. CASE UNCHANGED vars
  BY <1>8 DEF vars, opVars, dbVars
<1> QED
  BY <1>1, <1>2, <1>3, <1>4, <1>5, <1>6, <1>7, <1>8 DEF Next, Operation

(* The last good database content is always on the server, with any fault *)
(* and any number of process deaths.                                      *)
THEOREM GoodContentSurvives == Spec => []LastGoodIsKept
<1>1. Init => GoodInv
  BY DEF Init, GoodInv, LastGoodIsKept
<1>2. GoodInv /\ [Next]_vars => GoodInv'
  BY GoodStep
<1>3. GoodInv => LastGoodIsKept
  BY DEF GoodInv
<1> QED BY <1>1, <1>2, <1>3, PTL DEF Spec
-----------------------------------------------------------------------------
(* JobStore touches nothing but its files.                                *)
LEMMA JobFilesOnly ==
  ASSUME JobFileStep PROVE UNCHANGED <<gateVars, opVars, dbVars, procVars>>
<1>1. CASE WritePartial
  BY <1>1 DEF WritePartial
<1>2. CASE RefusePartial
  BY <1>2 DEF RefusePartial
<1>3. CASE RenamePartial
  BY <1>3 DEF RenamePartial
<1> QED BY <1>1, <1>2, <1>3 DEF JobFileStep

-----------------------------------------------------------------------------
(* The inductive reason why the pre-restore backup stays: it is made of   *)
(* the active content, and no retention and no deletion runs while the    *)
(* restore holds the lock.                                                *)
PreSetInv ==
  owner = "restore" =>
    /\ stage \in {"predone", "creating", "restoring", "migrating", "verifying", "swapping"}
         => preSet \in backups /\ current = preSet
    /\ stage \in {"active", "rescheduling", "rollingback", "removing"}
         => preSet \in backups /\ preSet \in retained
    /\ stage \in {"rbverify", "rbresched"} => preSet \in backups /\ current = preSet

(* Every step keeps the pre-restore backup until the swap is settled.     *)
LEMMA PreSetStep ==
  ASSUME PreSetInv, [Next]_vars PROVE PreSetInv'
<1> USE DEF PreSetInv
<1>1. ASSUME NEW w \in Writers, Request(w) PROVE PreSetInv'
  BY <1>1 DEF Request, AppBeginWrite, AppEndWrite, StartRestore, StartManualBackup,
              BeginBackup, DeleteBackup, opVars, dbVars
<1>2. CASE CheckScheduledBackup \/ StartScheduledBackup
  BY <1>2 DEF CheckScheduledBackup, StartScheduledBackup, BeginBackup, opVars, dbVars
<1>3. CASE JobFileStep
  BY <1>3, JobFilesOnly DEF opVars, dbVars
<1>4. CASE AbandonStart \/ Launch \/ DumpDatabase \/ Release
  BY <1>4 DEF AbandonStart, Launch, DumpDatabase, Release, dbVars
<1>5. CASE RunRestore
  <2> USE DEF At, runUnchanged, dbVars, Announce, Fail
  <2>1. CASE EnterGate \/ FinishDrain \/ DrainTimesOut \/ ReopenGate
    BY <2>1 DEF EnterGate, FinishDrain, DrainTimesOut, ReopenGate
  <2>2. CASE ValidateSelected \/ SavePreJob \/ PreRestoreDump \/ FailPreRestore \/ FinishPreRestore
    BY <2>2 DEF ValidateSelected, SavePreJob, PreRestoreDump, FailPreRestore, FinishPreRestore
  <2>3. CASE BuildStaging
    BY <2>3 DEF BuildStaging, NextPhase
  <2>4. CASE SwapIn
    BY <2>4 DEF SwapIn, RenameIn
  <2>5. CASE VerifyActive \/ Reschedule \/ RemoveRetained
    BY <2>5 DEF VerifyActive, Reschedule, RemoveRetained, StartRollback
  <2>6. CASE SwapBack
    BY <2>6 DEF SwapBack, RenameBack, FailUncertain
  <2>7. CASE VerifyOriginal \/ RescheduleOriginal \/ DropStaging
    BY <2>7 DEF VerifyOriginal, RescheduleOriginal, DropStaging, FailUncertain
  <2> QED BY <1>5, <2>1, <2>2, <2>3, <2>4, <2>5, <2>6, <2>7 DEF RunRestore
<1>6. CASE Startup
  BY <1>6 DEF Startup, RecoverJob, NextRecovery, RecoveryFails, AfterRecovery, RaiseGate,
              FinishStartup, RunCliRestore, dbVars
<1>7. CASE StartApi \/ StartCli \/ ApiDies \/ CliDies
  BY <1>7 DEF StartApi, StartCli, ApiDies, CliDies, OperationDies, dbVars
<1>8. CASE UNCHANGED vars
  BY <1>8 DEF vars, opVars, dbVars
<1> QED
  BY <1>1, <1>2, <1>3, <1>4, <1>5, <1>6, <1>7, <1>8 DEF Next, Operation

(* So it stays in every behaviour.                                       *)
LEMMA PreSetStays == Spec => []PreSetInv
<1>1. Init => PreSetInv
  BY DEF Init, PreSetInv
<1>2. PreSetInv /\ [Next]_vars => PreSetInv'
  BY PreSetStep
<1> QED BY <1>1, <1>2, PTL DEF Spec

(* While the original database is renamed aside or being replaced, its    *)
(* pre-restore backup is in the inventory.                                *)
THEOREM PreRestoreBackupStays == Spec => []PreRestoreBackupKept
<1>1. PreSetInv => PreRestoreBackupKept
  BY DEF PreSetInv, PreRestoreBackupKept, Destructive
<1> QED BY <1>1, PreSetStays, PTL

-----------------------------------------------------------------------------
(* The inductive reason why nobody starts a restore behind a shut gate:   *)
(* outside the drain the gate is shut only with its drainer inside, and   *)
(* start-up holds the lock until it has drained.                          *)
StartupHolds ==
  /\ stage \in {"recover", "recovering", "raise", "raising", "clean"}
       => owner = "startup" /\ host \in {"api", "cli"}
  /\ stage \in {"raise", "raising"} => host = "api"
  /\ stage = "cli" => host = "cli"

ShutInv ==
  /\ StartupHolds
  /\ maintenance /\ stage # "raising" /\ ~(owner = "restore" /\ host = "api" /\ stage = "draining")
       => dpc = "inside"

(* Every step that shuts the gate drains it or holds the lock.            *)
LEMMA ShutStep ==
  ASSUME ShutInv, [Next]_vars PROVE ShutInv'
<1> USE DEF ShutInv, StartupHolds
<1>1. ASSUME NEW w \in Writers, Request(w) PROVE ShutInv'
  <2>1. CASE AppBeginWrite(w) \/ AppEndWrite(w)
    BY <2>1 DEF AppBeginWrite, AppEndWrite, BeginWrite, EndWrite, opVars
  <2>2. CASE StartRestore(w) \/ StartManualBackup(w) \/ DeleteBackup(w)
    BY <2>2 DEF StartRestore, StartManualBackup, BeginBackup, DeleteBackup, opVars, gateVars
  <2> QED BY <1>1, <2>1, <2>2 DEF Request
<1>2. CASE CheckScheduledBackup \/ StartScheduledBackup
  BY <1>2 DEF CheckScheduledBackup, StartScheduledBackup, BeginBackup, opVars, gateVars
<1>3. CASE JobFileStep
  BY <1>3, JobFilesOnly DEF opVars, gateVars
<1>4. CASE AbandonStart \/ Launch \/ DumpDatabase \/ Release
  BY <1>4 DEF AbandonStart, Launch, DumpDatabase, Release, gateVars
<1>5. CASE RunRestore
  <2> USE DEF At, runUnchanged, gateVars, Announce, Fail
  <2>1. CASE EnterGate \/ FinishDrain
    BY <2>1 DEF EnterGate, EnterMaintenance, FinishDrain, Drained
  <2>2. CASE DrainTimesOut \/ ReopenGate
    BY <2>2 DEF DrainTimesOut, ReopenGate, ExitMaintenance
  <2>3. CASE ValidateSelected \/ SavePreJob \/ PreRestoreDump \/ FailPreRestore \/ FinishPreRestore
    BY <2>3 DEF ValidateSelected, SavePreJob, PreRestoreDump, FailPreRestore, FinishPreRestore
  <2>4. CASE BuildStaging
    BY <2>4 DEF BuildStaging, NextPhase
  <2>5. CASE SwapIn \/ VerifyActive \/ Reschedule \/ RemoveRetained
    BY <2>5 DEF SwapIn, VerifyActive, Reschedule, RemoveRetained, StartRollback
  <2>6. CASE SwapBack \/ VerifyOriginal \/ RescheduleOriginal \/ DropStaging
    BY <2>6 DEF SwapBack, VerifyOriginal, RescheduleOriginal, DropStaging, FailUncertain
  <2> QED BY <1>5, <2>1, <2>2, <2>3, <2>4, <2>5, <2>6 DEF RunRestore
<1>6. CASE RaiseGate
  BY <1>6 DEF RaiseGate, EnterMaintenance, Drained
<1>7. CASE RecoverJob \/ NextRecovery \/ RecoveryFails \/ AfterRecovery \/ FinishStartup
             \/ RunCliRestore
  <2>1. CASE RecoverJob
    <3>1. stage = "recover" /\ stage' = "recovering" /\ UNCHANGED <<owner, host, gateVars>>
      BY <2>1 DEF RecoverJob
    <3> QED BY <3>1 DEF gateVars
  <2>5. CASE NextRecovery
    BY <2>5 DEF NextRecovery, gateVars
  <2>2. CASE RecoveryFails \/ AfterRecovery
    BY <2>2 DEF RecoveryFails, AfterRecovery, gateVars
  <2>3. CASE FinishStartup
    BY <2>3 DEF FinishStartup, gateVars
  <2>4. CASE RunCliRestore
    BY <2>4 DEF RunCliRestore, gateVars
  <2> QED BY <1>7, <2>1, <2>2, <2>3, <2>4, <2>5
<1>8. CASE StartApi \/ StartCli \/ ApiDies \/ CliDies
  BY <1>8 DEF StartApi, StartCli, ApiDies, CliDies, OperationDies, GateReset, gateVars
<1>9. CASE UNCHANGED vars
  BY <1>9 DEF vars, opVars, gateVars
<1> QED
  BY <1>1, <1>2, <1>3, <1>4, <1>5, <1>6, <1>7, <1>8, <1>9 DEF Next, Operation, Startup

(* Behind a gate that a failed rollback or a recovery left shut, only the *)
(* recovery command starts a restore, for any number of requests.         *)
THEOREM ShutGateHolds == Spec => ShutGateStartsNoRestore
<1>1. Init => ShutInv
  BY DEF Init, GateInit, ShutInv, StartupHolds
<1>2. ShutInv /\ [Next]_vars => ShutInv'
  BY ShutStep
<1>3. ASSUME ShutInv, GateInv, [Next]_vars
      PROVE  maintenance /\ owner = "none" /\ owner' = "restore" => host' = "cli"
  <2> SUFFICES ASSUME maintenance, owner = "none", owner' = "restore" PROVE host' = "cli"
    OBVIOUS
  <2>1. Active = {}
    BY <1>3, DrainedIsEmpty DEF ShutInv, StartupHolds, NoWriterInside
  <2>2. ASSUME NEW w \in Writers PROVE ~Request(w)
    BY <2>1, <2>2 DEF Active, Request, AppBeginWrite, AppEndWrite, StartRestore,
                      StartManualBackup, BeginBackup, DeleteBackup, opVars
  <2>3. RunCliRestore
    BY <1>3, <2>2 DEF Next, CheckScheduledBackup, StartScheduledBackup, BeginBackup,
         JobFileStep, WritePartial, RefusePartial, RenamePartial, Operation, AbandonStart,
         Launch, DumpDatabase, Release, RunRestore, EnterGate, FinishDrain, DrainTimesOut,
         ValidateSelected, SavePreJob, PreRestoreDump, FailPreRestore, FinishPreRestore,
         BuildStaging, SwapIn, VerifyActive, Reschedule, RemoveRetained, SwapBack,
         VerifyOriginal, RescheduleOriginal, DropStaging, ReopenGate, At, runUnchanged,
         Startup, RecoverJob, NextRecovery, RecoveryFails, AfterRecovery, RaiseGate,
         FinishStartup, StartApi, StartCli, ApiDies, CliDies, OperationDies, vars, opVars
  <2> QED BY <1>3, <2>3 DEF RunCliRestore, ShutInv, StartupHolds
<1>4. Spec => []GateInv
  BY ServiceUsesGate, GateInvariant, PTL DEF UsesGate
<1> QED BY <1>1, <1>2, <1>3, <1>4, PTL DEF Spec, ShutGateStartsNoRestore
-----------------------------------------------------------------------------
(* The inductive reason why success means checked: a job is written as    *)
(* succeeded only by the last step of its own restore, whose content is   *)
(* active and checked, and nothing activates another content before the   *)
(* file is in place.                                                      *)
PreStages == {"predump", "predone", "prefailed"}
Checked   == {"rescheduling", "removing"}

FilesSound ==
  /\ jobs \in [JobIds -> JobRec]
  /\ pend \in [id : 0 .. MaxJobs, rec : JobRec, written : BOOLEAN]
  /\ ~Idle => pend.id \in JobIds /\ pend.rec.state # "absent"
  /\ \A j \in JobIds : jobs[j].state = "absent" => jobs[j].kind = "none"
  /\ ~Idle /\ pend.rec.state = "succeeded" /\ jobs[pend.id].state # "succeeded"
           /\ jobs[pend.id].kind = "restore"
       => pend.id = current /\ trusted

OperationHasJob ==
  /\ owner \in {"restore", "backup"} => job \in JobIds
  /\ owner = "restore" /\ stage \in PreStages => pre \in JobIds
  /\ stage = "saving" => owner \in {"restore", "backup"}
  /\ failedAt \in Phases

NoRestore(j) == jobs[j].kind # "restore" /\ (~Idle /\ pend.id = j => pend.rec.kind # "restore")

KindsAreKept ==
  /\ owner = "backup" => NoRestore(job)
  /\ owner = "restore" /\ stage \in PreStages => NoRestore(pre)

RestoreIsActive ==
  owner = "restore" =>
    /\ stage = "active" => current = job
    /\ stage \in Checked => current = job /\ trusted

JobInv == FilesSound /\ OperationHasJob /\ KindsAreKept /\ RestoreIsActive

(* The records that operations start from.                                *)
LEMMA FreshRecord ==
  \A kind \in {"restore", "backup"} :
    /\ NewRec(kind) \in JobRec /\ NewRec(kind).kind = kind /\ NewRec(kind).state = "queued"
  BY DEF NewRec, NoRec, JobRec, States, Phases, Destructive

(* The empty slot of the writer has the type of a write.                  *)
LEMMA EmptyWrite == NoWrite \in [id : 0 .. MaxJobs, rec : JobRec, written : BOOLEAN]
  BY ServiceAssumption DEF NoWrite, NoJob, NoRec, JobRec, States, Phases, Destructive

(* A job file is written.                                                 *)
LEMMA FilesWritten ==
  ASSUME JobInv, NEW j \in JobIds, NEW r \in JobRec, Persist(j, r), jobs' = jobs,
         r.state # "absent",
         r.state = "succeeded" /\ jobs[j].state # "succeeded" /\ jobs[j].kind = "restore"
           => j = current' /\ trusted'
  PROVE  /\ FilesSound'
         /\ \A k \in JobIds : NoRestore(k) /\ (k = j => r.kind # "restore") => NoRestore(k)'
<1>1. /\ pend'.id = j /\ pend'.rec = r
      /\ pend' \in [id : 0 .. MaxJobs, rec : JobRec, written : BOOLEAN]
  BY DEF Persist, JobIds
<1>2. FilesSound'
  BY <1>1 DEF JobInv, FilesSound
<1>3. \A k \in JobIds : NoRestore(k) /\ (k = j => r.kind # "restore") => NoRestore(k)'
  BY <1>1 DEF NoRestore
<1> QED BY <1>2, <1>3

(* The job files rest while the operation does something else.            *)
LEMMA FilesRest ==
  ASSUME JobInv, UNCHANGED <<jobs, pend>>, Idle \/ UNCHANGED <<current, trusted>>
  PROVE  /\ FilesSound' 
         /\ \A k \in JobIds : NoRestore(k) => NoRestore(k)'
  BY DEF JobInv, FilesSound, Idle, NoRestore

(* JobStore puts the pending record in place, or refuses it.              *)
LEMMA FilesStep ==
  ASSUME JobInv, JobFileStep PROVE JobInv'
<1>0. UNCHANGED <<gateVars, opVars, dbVars, procVars>>
  BY JobFilesOnly
<1>1. FilesSound' /\ \A k \in JobIds : NoRestore(k) => NoRestore(k)'
  <2>1. CASE WritePartial
    <3>1. /\ jobs' = jobs /\ pend'.id = pend.id /\ pend'.rec = pend.rec /\ ~Idle
          /\ pend' \in [id : 0 .. MaxJobs, rec : JobRec, written : BOOLEAN]
      BY <2>1 DEF WritePartial, JobInv, FilesSound
    <3> QED BY <1>0, <3>1 DEF JobInv, FilesSound, NoRestore, dbVars
  <2>2. CASE RefusePartial
    <3>1. jobs' = jobs /\ Idle' /\ pend' \in [id : 0 .. MaxJobs, rec : JobRec, written : BOOLEAN]
      BY <2>2, EmptyWrite DEF RefusePartial, Idle
    <3> QED BY <1>0, <3>1 DEF JobInv, FilesSound, NoRestore
  <2>3. CASE RenamePartial
    <3>1. /\ ~Idle /\ Idle' /\ jobs' = [jobs EXCEPT ![pend.id] = pend.rec]
          /\ pend' \in [id : 0 .. MaxJobs, rec : JobRec, written : BOOLEAN]
      BY <2>3, EmptyWrite DEF RenamePartial, Idle
    <3>2. pend.id \in JobIds /\ pend.rec \in JobRec /\ pend.rec.state # "absent"
      BY <3>1 DEF JobInv, FilesSound
    <3> QED BY <1>0, <3>1, <3>2 DEF JobInv, FilesSound, NoRestore
  <2> QED BY <2>1, <2>2, <2>3 DEF JobFileStep
<1> QED BY <1>0, <1>1 DEF JobInv, OperationHasJob, KindsAreKept, RestoreIsActive, opVars, dbVars

(* Requests, the scheduler, and the recovery command start operations.    *)
LEMMA BeginStep ==
  ASSUME JobInv,
         (\E w \in Writers : Request(w)) \/ CheckScheduledBackup \/ StartScheduledBackup
           \/ RunCliRestore
  PROVE  JobInv'
<1>1. ASSUME UNCHANGED <<opVars, jobs, pend, current, trusted>> PROVE JobInv'
  BY <1>1, FilesRest
     DEF JobInv, OperationHasJob, KindsAreKept, RestoreIsActive, opVars
<1>2. ASSUME NEW j \in JobIds, NEW kind \in {"restore", "backup"}, FreshId(j), job' = j,
             Persist(j, NewRec(kind)), owner' = kind, stage' = "saving",
             UNCHANGED <<jobs, current, trusted, failedAt>>
      PROVE  JobInv'
  <2>1. /\ pend'.id = j /\ pend'.rec.state = "queued" /\ pend'.rec.kind = kind
        /\ pend' \in [id : 0 .. MaxJobs, rec : JobRec, written : BOOLEAN]
    BY <1>2, FreshRecord DEF Persist, JobIds
  <2>2. jobs[j].kind = "none"
    BY <1>2 DEF FreshId, JobInv, FilesSound
  <2>3. FilesSound'
    BY <1>2, <2>1 DEF JobInv, FilesSound
  <2>4. OperationHasJob' /\ RestoreIsActive'
    BY <1>2 DEF JobInv, OperationHasJob, RestoreIsActive, PreStages, Checked
  <2>5. KindsAreKept'
    BY <1>2, <2>1, <2>2 DEF KindsAreKept, NoRestore, PreStages
  <2> QED BY <2>3, <2>4, <2>5 DEF JobInv
<1>3. CASE BeginBackup
  BY <1>2, <1>3 DEF BeginBackup, dbVars
<1>4. CASE RunCliRestore
  BY <1>2, <1>4 DEF RunCliRestore, dbVars
<1>5. ASSUME NEW w \in Writers, Request(w) PROVE JobInv'
  <2>1. CASE AppBeginWrite(w) \/ AppEndWrite(w) \/ DeleteBackup(w)
    BY <1>1, <2>1 DEF AppBeginWrite, AppEndWrite, DeleteBackup, fileVars, dbVars
  <2>2. CASE StartRestore(w)
    BY <1>2, <2>2 DEF StartRestore, dbVars
  <2>3. CASE StartManualBackup(w)
    BY <1>3, <2>3 DEF StartManualBackup
  <2> QED BY <1>5, <2>1, <2>2, <2>3 DEF Request
<1>6. CASE CheckScheduledBackup \/ StartScheduledBackup
  BY <1>1, <1>3, <1>6 DEF CheckScheduledBackup, StartScheduledBackup, fileVars, dbVars
<1> QED BY <1>4, <1>5, <1>6

(* An operation that is under way updates its job; a job without a file   *)
(* stays without.                                                         *)
LEMMA JobUpdated ==
  ASSUME JobInv, Idle, jobs' = jobs, NEW j \in JobIds, NEW r \in JobRec,
         PersistUpdate(j, r) \/ Persist(j, r), r.kind = jobs[j].kind, r.state # "absent",
         r.state = "succeeded" /\ jobs[j].state # "succeeded" /\ jobs[j].kind = "restore"
           => j = current' /\ trusted'
  PROVE  FilesSound' /\ \A k \in JobIds : NoRestore(k) => NoRestore(k)'
<1>1. CASE UNCHANGED pend
  BY <1>1, FilesRest
<1>2. CASE Persist(j, r)
  BY <1>2, FilesWritten DEF NoRestore
<1> QED BY <1>1, <1>2 DEF PersistUpdate

(* A phase is announced.                                                  *)
LEMMA PhaseAnnounced ==
  ASSUME JobInv, Idle, jobs' = jobs, NEW j \in JobIds, NEW p \in Phases,
         PersistUpdate(j, [jobs[j] EXCEPT !.phase = p])
  PROVE  FilesSound' /\ \A k \in JobIds : NoRestore(k) => NoRestore(k)'
<1>1. jobs[j] \in JobRec
  BY DEF JobInv, FilesSound
<1> DEFINE r == [jobs[j] EXCEPT !.phase = p]
<1>2. r \in JobRec /\ r.state = jobs[j].state /\ r.kind = jobs[j].kind
  BY <1>1 DEF JobRec
<1>3. PersistUpdate(j, r)
  OBVIOUS
<1> HIDE DEF r
<1>4. CASE jobs[j].state = "absent"
  BY <1>3, <1>4, FilesRest DEF PersistUpdate
<1>5. CASE jobs[j].state # "absent"
  BY <1>2, <1>3, <1>5, FilesWritten DEF PersistUpdate, NoRestore
<1> QED BY <1>4, <1>5

(* The steps of an operation before and after its work.                   *)
LEMMA FrameStep ==
  ASSUME JobInv, AbandonStart \/ Launch \/ DumpDatabase \/ Release PROVE JobInv'
<1>1. CASE AbandonStart \/ Release
  BY <1>1, FilesRest
     DEF AbandonStart, Release, fileVars, dbVars, JobInv, OperationHasJob, KindsAreKept,
         RestoreIsActive, Phases
<1>2. CASE Launch
  <2>1. /\ Idle /\ jobs' = jobs /\ job \in JobIds /\ stage' \in {"entering", "dumping"}
        /\ UNCHANGED <<owner, job, current, trusted, failedAt>>
    BY <1>2 DEF Launch, JobInv, OperationHasJob, dbVars
  <2> DEFINE r == [jobs[job] EXCEPT !.state = "running", !.phase = FirstPhase]
  <2>2. Persist(job, r)
    BY <1>2 DEF Launch
  <2>3. r \in JobRec /\ r.state = "running" /\ r.kind = jobs[job].kind
    BY <2>1 DEF JobInv, FilesSound, JobRec, States, FirstPhase, Phases
  <2> HIDE DEF r
  <2>4. FilesSound' /\ \A k \in JobIds : NoRestore(k) => NoRestore(k)'
    BY <2>1, <2>2, <2>3, FilesWritten DEF NoRestore
  <2> QED BY <2>1, <2>4
          DEF JobInv, OperationHasJob, KindsAreKept, RestoreIsActive, PreStages, Checked
<1>3. CASE DumpDatabase
  <2>1. /\ Idle /\ jobs' = jobs /\ job \in JobIds /\ owner = "backup" /\ stage' = "release"
        /\ UNCHANGED <<owner, job, current, trusted, failedAt>> /\ NoRestore(job)
    BY <1>3 DEF DumpDatabase, JobInv, OperationHasJob, KindsAreKept
  <2> DEFINE r == [jobs[job] EXCEPT !.state = "succeeded", !.phase = "complete"]
             q == [jobs[job] EXCEPT !.state = "failed"]
  <2>2. Persist(job, r) \/ Persist(job, q)
    BY <1>3 DEF DumpDatabase
  <2>4. \A x \in {r, q} : x \in JobRec /\ x.state # "absent" /\ x.kind = jobs[job].kind
    BY <2>1 DEF JobInv, FilesSound, JobRec, States, Phases
  <2> HIDE DEF r, q
  <2>3. FilesSound' /\ \A k \in JobIds : NoRestore(k) => NoRestore(k)'
    BY <2>1, <2>2, <2>4, FilesWritten DEF NoRestore
  <2> QED BY <2>1, <2>3 DEF JobInv, OperationHasJob, KindsAreKept, RestoreIsActive
<1> QED BY <1>1, <1>2, <1>3

(* Start-up and deaths leave no operation behind; recovery fails jobs.    *)
LEMMA StartupStep ==
  ASSUME JobInv, StartupHolds,
         \/ RecoverJob \/ NextRecovery \/ RecoveryFails \/ AfterRecovery \/ RaiseGate
         \/ FinishStartup \/ StartApi \/ StartCli \/ ApiDies \/ CliDies
  PROVE  JobInv'
<1> USE DEF OperationHasJob, KindsAreKept, RestoreIsActive
<1>1. CASE RecoverJob
  <2>1. /\ Idle /\ jobs' = jobs /\ owner = "startup" /\ stage' = "recovering"
        /\ UNCHANGED <<owner, current, trusted, failedAt>>
    BY <1>1 DEF RecoverJob, StartupHolds, dbVars
  <2>2. PICK j \in Interrupted : Persist(j, Recovered(jobs[j]))
    BY <1>1 DEF RecoverJob
  <2>4. /\ j \in JobIds /\ Recovered(jobs[j]) \in JobRec
        /\ Recovered(jobs[j]).state = "failed"
    BY DEF Interrupted, Recovered, IsDestructive, JobInv, FilesSound, JobRec, States
  <2>3. FilesSound'
    BY <2>1, <2>2, <2>4, FilesWritten
  <2> QED BY <2>1, <2>3 DEF JobInv
<1>2. CASE NextRecovery \/ RecoveryFails
  BY <1>2, FilesRest DEF NextRecovery, RecoveryFails, StartupHolds, fileVars, dbVars, JobInv
<1>3. CASE AfterRecovery \/ RaiseGate
  BY <1>3, FilesRest DEF AfterRecovery, RaiseGate, StartupHolds, fileVars, dbVars, JobInv
<1>4. CASE FinishStartup
  BY <1>4, FilesRest DEF FinishStartup, StartupHolds, dbVars, JobInv
<1>5. CASE StartApi \/ StartCli
  BY <1>5, FilesRest DEF StartApi, StartCli, fileVars, dbVars, JobInv
<1>6. CASE ApiDies \/ CliDies
  <2>1. /\ Idle' /\ pend' \in [id : 0 .. MaxJobs, rec : JobRec, written : BOOLEAN] /\ jobs' = jobs
        /\ owner' = "none" /\ stage' = "idle" /\ failedAt' = "queued"
    BY <1>6, EmptyWrite DEF ApiDies, CliDies, OperationDies, Idle
  <2>2. FilesSound'
    BY <2>1 DEF JobInv, FilesSound
  <2> QED BY <2>1, <2>2 DEF JobInv, Phases
<1> QED BY <1>1, <1>2, <1>3, <1>4, <1>5, <1>6

(* The steps of runRestoreJob.                                            *)
LEMMA RestoreStep ==
  ASSUME JobInv, RunRestore PROVE JobInv'
<1> USE DEF At, runUnchanged
<1>0. /\ owner = "restore" /\ Idle /\ job \in JobIds /\ failedAt \in Phases
      /\ UNCHANGED <<owner, job, jobs>>
  BY DEF RunRestore, EnterGate, FinishDrain, DrainTimesOut, ValidateSelected, SavePreJob,
         PreRestoreDump, FailPreRestore, FinishPreRestore, BuildStaging, SwapIn, VerifyActive,
         Reschedule, RemoveRetained, SwapBack, VerifyOriginal, RescheduleOriginal,
         DropStaging, ReopenGate, JobInv, OperationHasJob
<1>1. ASSUME UNCHANGED pend PROVE FilesSound' /\ \A k \in JobIds : NoRestore(k) => NoRestore(k)'
  BY <1>0, <1>1, FilesRest
<1>2. ASSUME NEW p \in Phases, Announce(p) \/ Fail(p)
      PROVE  FilesSound' /\ \A k \in JobIds : NoRestore(k) => NoRestore(k)'
  <2>1. CASE Announce(p)
    BY <1>0, <1>2, <2>1, PhaseAnnounced DEF Announce
  <2>2. CASE Fail(p)
    <3> DEFINE r == [jobs[job] EXCEPT !.state = "failed", !.phase = p]
    <3>1. r \in JobRec /\ r.state = "failed" /\ r.kind = jobs[job].kind
      BY <1>0 DEF JobInv, FilesSound, JobRec, States
    <3>2. PersistUpdate(job, r)
      BY <2>2 DEF Fail
    <3> HIDE DEF r
    <3> QED BY <1>0, <3>1, <3>2, JobUpdated
  <2> QED BY <1>2, <2>1, <2>2
<1>3. ASSUME FailUncertain
      PROVE  FilesSound' /\ \A k \in JobIds : NoRestore(k) => NoRestore(k)'
  <2> DEFINE r == [jobs[job] EXCEPT !.state = "failed", !.phase = failedAt, !.warned = TRUE]
  <2>1. r \in JobRec /\ r.state = "failed" /\ r.kind = jobs[job].kind
    BY <1>0 DEF JobInv, FilesSound, JobRec, States
  <2>2. PersistUpdate(job, r)
    BY <1>3 DEF FailUncertain
  <2> HIDE DEF r
  <2> QED BY <1>0, <2>1, <2>2, JobUpdated
<1> DEFINE Sound == FilesSound' /\ \A k \in JobIds : NoRestore(k) => NoRestore(k)'
<1> USE DEF OperationHasJob, KindsAreKept, RestoreIsActive, PreStages, Checked
<1>4. CASE EnterGate \/ DropStaging \/ ReopenGate
  <2>1. UNCHANGED pend /\ failedAt' = failedAt /\ stage' \in {"draining", "exitgate", "release"}
    BY <1>4 DEF EnterGate, DropStaging, ReopenGate
  <2> QED BY <1>0, <1>1, <2>1 DEF JobInv
<1>5. CASE FinishDrain \/ ValidateSelected
  <2>1. Announce("validating") \/ Announce("prebackup") \/ Fail("validating")
    BY <1>5 DEF FinishDrain, ValidateSelected
  <2>2. Sound
    BY <1>2, <2>1 DEF Phases
  <2>3. failedAt' = failedAt /\ stage' \in {"validating", "prebackup", "unstage"}
    BY <1>5, <2>1 DEF FinishDrain, ValidateSelected, Announce, Fail
  <2> QED BY <1>0, <2>2, <2>3 DEF JobInv
<1>6. CASE DrainTimesOut
  <2> DEFINE r == [jobs[job] EXCEPT !.state = "failed", !.phase = "entering"]
  <2>1. r \in JobRec /\ r.state = "failed" /\ r.kind = jobs[job].kind
    BY <1>0 DEF JobInv, FilesSound, JobRec, States, Phases
  <2>2. PersistUpdate(job, r) /\ failedAt' = failedAt /\ stage' = "release"
    BY <1>6 DEF DrainTimesOut
  <2> HIDE DEF r
  <2>3. Sound
    BY <1>0, <2>1, <2>2, JobUpdated
  <2> QED BY <1>0, <2>2, <2>3 DEF JobInv
<1>7. CASE SavePreJob
  <2>1. PICK j \in JobIds : FreshId(j) /\ pre' = j
                            /\ Persist(j, [NewRec("backup") EXCEPT !.state = "running"])
    BY <1>7 DEF SavePreJob
  <2> DEFINE r == [NewRec("backup") EXCEPT !.state = "running"]
  <2>2. r \in JobRec /\ r.state = "running" /\ r.kind = "backup"
    BY FreshRecord DEF JobRec, States
  <2>3. Persist(j, r)
    BY <2>1
  <2> HIDE DEF r
  <2>4. jobs[j].kind = "none"
    BY <2>1 DEF FreshId, JobInv, FilesSound
  <2>5. FilesSound' /\ NoRestore(j)'
    BY <1>0, <2>2, <2>3, <2>4, FilesWritten DEF NoRestore, Idle, Persist
  <2>6. stage' = "predump" /\ failedAt' = failedAt
    BY <1>7 DEF SavePreJob
  <2> QED BY <1>0, <2>1, <2>5, <2>6 DEF JobInv
<1>8. CASE PreRestoreDump
  <2>1. /\ pre \in JobIds /\ pre' = pre /\ NoRestore(pre) /\ stage' \in {"predone", "prefailed"}
        /\ failedAt' = failedAt
    BY <1>0, <1>8 DEF PreRestoreDump, JobInv
  <2> DEFINE r == [jobs[pre] EXCEPT !.state = "succeeded", !.phase = "complete"]
             q == [jobs[pre] EXCEPT !.state = "failed"]
  <2>2. PersistUpdate(pre, r) \/ PersistUpdate(pre, q)
    BY <1>8 DEF PreRestoreDump
  <2>3. \A x \in {r, q} : x \in JobRec /\ x.state # "absent" /\ x.kind = jobs[pre].kind
    BY <2>1 DEF JobInv, FilesSound, JobRec, States, Phases
  <2> HIDE DEF r, q
  <2>4. Sound
    BY <1>0, <2>1, <2>2, <2>3, JobUpdated DEF NoRestore
  <2> QED BY <1>0, <2>1, <2>4 DEF JobInv
<1>9. CASE FailPreRestore \/ FinishPreRestore \/ RescheduleOriginal
  <2>1. /\ Fail("prebackup") \/ Announce("creating") \/ Fail(failedAt) \/ FailUncertain
        /\ failedAt' = failedAt
    BY <1>9 DEF FailPreRestore, FinishPreRestore, RescheduleOriginal
  <2>2. Sound
    BY <1>0, <1>2, <1>3, <2>1 DEF Phases
  <2>3. stage' \in {"unstage", "creating", "release"}
    BY <2>1 DEF Announce, Fail, FailUncertain
  <2> QED BY <1>0, <2>1, <2>2, <2>3 DEF JobInv
<1>10. CASE BuildStaging
  <2>1. PICK p \in {"creating", "restoring", "migrating", "verifying"} :
          Announce(NextPhase[p]) \/ Fail(p)
    BY <1>10 DEF BuildStaging, NextPhase
  <2>2. NextPhase[p] \in {"restoring", "migrating", "verifying", "swapping"}
    BY DEF NextPhase
  <2>3. Sound
    BY <1>2, <2>1, <2>2 DEF Phases, Destructive
  <2>4. /\ stage' \in {"restoring", "migrating", "verifying", "swapping", "unstage"}
        /\ failedAt' = failedAt
    BY <1>10, <2>1, <2>2 DEF BuildStaging, Announce, Fail
  <2> QED BY <1>0, <2>3, <2>4 DEF JobInv
<1>11. CASE SwapIn
  <2>1. /\ \/ current' = job /\ Announce("active")
           \/ Fail("swapping")
        /\ failedAt' = failedAt
    BY <1>11 DEF SwapIn, RenameIn
  <2>2. Sound
    BY <1>2, <2>1 DEF Phases, Destructive
  <2>3. \/ stage' = "active" /\ current' = job
        \/ stage' = "unstage"
    BY <2>1 DEF Announce, Fail
  <2> QED BY <1>0, <2>1, <2>2, <2>3 DEF JobInv
<1>12. CASE VerifyActive \/ Reschedule
  <2>1. /\ \/ Announce("rescheduling") /\ stage = "active" /\ trusted' /\ failedAt' = failedAt
           \/ (Announce("removing") /\ stage = "rescheduling" /\ trusted' = trusted
               /\ failedAt' = failedAt)
           \/ Announce("rollingback") /\ failedAt' \in {"active", "rescheduling"}
        /\ current' = current
    BY <1>12 DEF VerifyActive, Reschedule, StartRollback
  <2>2. Sound
    BY <1>2, <2>1 DEF Phases, Destructive
  <2>3. /\ \/ stage' = "rescheduling" /\ stage = "active" /\ trusted'
           \/ stage' = "removing" /\ stage = "rescheduling" /\ trusted' = trusted
           \/ stage' = "rollingback"
        /\ failedAt' \in Phases
    BY <1>0, <2>1 DEF Announce, Phases, Destructive
  <2> QED BY <1>0, <2>1, <2>2, <2>3 DEF JobInv
<1>13. CASE RemoveRetained
  <2>1. /\ job = current /\ trusted /\ current' = current /\ trusted' = trusted
        /\ stage' = "exitgate" /\ failedAt' = failedAt
    BY <1>0, <1>13 DEF RemoveRetained, JobInv
  <2> DEFINE r == [jobs[job] EXCEPT !.state = "succeeded", !.phase = "complete"]
  <2>2. PersistUpdate(job, r)
    BY <1>13 DEF RemoveRetained
  <2>3. r \in JobRec /\ r.state = "succeeded" /\ r.kind = jobs[job].kind
    BY <1>0 DEF JobInv, FilesSound, JobRec, States, Phases
  <2> HIDE DEF r
  <2>4. Sound
    BY <1>0, <2>1, <2>2, <2>3, JobUpdated
  <2> QED BY <1>0, <2>1, <2>4 DEF JobInv
<1>14. CASE SwapBack \/ VerifyOriginal
  <2>1. /\ \/ UNCHANGED pend /\ stage' \in {"rbverify", "rbresched"}
           \/ FailUncertain
        /\ failedAt' = failedAt
    BY <1>14 DEF SwapBack, VerifyOriginal
  <2>2. Sound
    BY <1>1, <1>3, <2>1
  <2>3. stage' \in {"rbverify", "rbresched", "release"}
    BY <2>1 DEF FailUncertain
  <2> QED BY <1>0, <2>1, <2>2, <2>3 DEF JobInv
<1> QED BY <1>4, <1>5, <1>6, <1>7, <1>8, <1>9, <1>10, <1>11, <1>12, <1>13, <1>14 DEF RunRestore

(* Every step keeps the invariant of the job files.                       *)
LEMMA JobStep ==
  ASSUME JobInv, StartupHolds, [Next]_vars PROVE JobInv'
<1>1. CASE UNCHANGED vars
  BY <1>1, FilesRest
     DEF vars, opVars, fileVars, dbVars, JobInv, OperationHasJob, KindsAreKept, RestoreIsActive
<1>2. CASE Next
  BY <1>2, FilesStep, BeginStep, FrameStep, StartupStep, RestoreStep
     DEF Next, Operation, Startup
<1> QED BY <1>1, <1>2

(* Job files and the gate are sound together.                             *)
LEMMA JobFilesAreSound == Spec => [](JobInv /\ ShutInv)
<1>1. Init => JobInv /\ ShutInv
  <2> SUFFICES ASSUME Init PROVE JobInv /\ ShutInv
    OBVIOUS
  <2>1. pend = NoWrite /\ NoRec \in JobRec /\ NoRec.state = "absent" /\ NoRec.kind = "none"
    BY DEF Init, NoRec, JobRec, States, Phases
  <2>2. FilesSound
    BY <2>1, EmptyWrite DEF Init, FilesSound, Idle
  <2> QED BY <2>2 DEF Init, GateInit, JobInv, OperationHasJob, KindsAreKept, RestoreIsActive,
                      ShutInv, StartupHolds, Phases
<1>2. JobInv /\ ShutInv /\ [Next]_vars => JobInv' /\ ShutInv'
  BY JobStep, ShutStep DEF ShutInv
<1> QED BY <1>1, <1>2, PTL DEF Spec

(* A restore that reports success has its content active and checked, in  *)
(* spite of any fault and any number of deaths.                           *)
THEOREM SuccessMeansChecked == Spec => SuccessIsValidated
<1>1. ASSUME JobInv, [Next]_vars
      PROVE  \A j \in JobIds :
               jobs[j].kind = "restore" /\ jobs[j].state # "succeeded"
                 /\ jobs'[j].state = "succeeded" => (current = j /\ trusted)
  <2> SUFFICES ASSUME NEW j \in JobIds, jobs[j].kind = "restore", jobs[j].state # "succeeded",
                      jobs'[j].state = "succeeded"
               PROVE  current = j /\ trusted
    OBVIOUS
  <2>1. RenamePartial
    <3>1. jobs' # jobs
      OBVIOUS
    <3>2. ~Operation
      BY <3>1 DEF Operation, AbandonStart, Launch, DumpDatabase, Release, RunRestore, EnterGate,
         FinishDrain, DrainTimesOut, ValidateSelected, SavePreJob, PreRestoreDump,
         FailPreRestore, FinishPreRestore, BuildStaging, SwapIn, VerifyActive, Reschedule,
         RemoveRetained, SwapBack, VerifyOriginal, RescheduleOriginal, DropStaging,
         ReopenGate, runUnchanged, fileVars
    <3>3. ~Startup
      BY <3>1 DEF Startup, RecoverJob, NextRecovery, RecoveryFails, AfterRecovery, RaiseGate,
                  FinishStartup, RunCliRestore, fileVars
    <3>4. ASSUME NEW w \in Writers PROVE ~Request(w)
      BY <3>1 DEF Request, AppBeginWrite, AppEndWrite, StartRestore, StartManualBackup,
                  BeginBackup, DeleteBackup, fileVars
    <3>5. ~CheckScheduledBackup /\ ~StartScheduledBackup
      BY <3>1 DEF CheckScheduledBackup, StartScheduledBackup, BeginBackup, fileVars
    <3>6. ~StartApi /\ ~StartCli /\ ~ApiDies /\ ~CliDies
      BY <3>1 DEF StartApi, StartCli, ApiDies, CliDies, fileVars
    <3>7. ~WritePartial /\ ~RefusePartial
      BY <3>1 DEF WritePartial, RefusePartial
    <3> QED BY <1>1, <3>1, <3>2, <3>3, <3>4, <3>5, <3>6, <3>7
            DEF Next, JobFileStep, vars, fileVars
  <2>2. ~Idle /\ pend.id \in JobIds /\ jobs' = [jobs EXCEPT ![pend.id] = pend.rec]
    BY <1>1, <2>1 DEF RenamePartial, JobInv, FilesSound
  <2> QED BY <1>1, <2>2 DEF JobInv, FilesSound
<1> QED BY <1>1, JobFilesAreSound, PTL DEF Spec, SuccessIsValidated

-----------------------------------------------------------------------------
(* The inductive reason why the job file of a restore can be relied on:   *)
(* when no write fails, each update of it is in place before the next     *)
(* step, since no partial file of the job is in its way.                  *)
Effective(j) == IF ~Idle /\ pend.id = j THEN pend.rec ELSE jobs[j]
Ended        == {"unstage", "exitgate", "release"}
Running      == {"queued", "running"}

JobIsWritten ==
  owner = "restore" =>
    /\ job \in partial => ~Idle /\ pend.written /\ pend.id = job
    /\ Effective(job).kind = "restore" /\ Effective(job).state # "absent"
    /\ stage \notin Ended => Effective(job).state \in Running
    /\ stage = "swapping" => Effective(job).phase = "swapping"
    /\ stage # "saving" => jobs[job].state # "absent"

(* A write is pending once it was asked for.                              *)
LEMMA PersistIsWrite ==
  ASSUME NEW j \in JobIds, NEW r, Persist(j, r) PROVE ~Idle' /\ pend'.id = j /\ pend'.rec = r
  BY DEF Persist, Idle, NoWrite, NoJob, JobIds

(* JobStore finishes the pending write.                                   *)
LEMMA WriteFinishes ==
  ASSUME JobInv, JobIsWritten, ~May("persist"), JobFileStep PROVE JobIsWritten'
<1>0. UNCHANGED <<gateVars, opVars, dbVars, procVars>>
  BY JobFilesOnly
<1>1. ASSUME owner = "restore" PROVE job \in JobIds
  BY <1>1 DEF JobInv, OperationHasJob
<1>2. CASE WritePartial
  <2>1. /\ jobs' = jobs /\ pend'.id = pend.id /\ pend'.rec = pend.rec /\ pend'.written /\ ~Idle
        /\ ~Idle' /\ partial' = partial \cup {pend.id} /\ ~pend.written
    BY <1>2 DEF WritePartial, JobInv, FilesSound, Idle, NoWrite
  <2> QED BY <1>0, <2>1 DEF JobIsWritten, Effective, opVars
<1>3. CASE RefusePartial
  <2>1. jobs' = jobs /\ Idle' /\ partial' = partial /\ ~Idle /\ ~pend.written /\ pend.id \in partial
    BY <1>3 DEF RefusePartial, Idle
  <2> QED BY <1>0, <2>1 DEF JobIsWritten, Effective, opVars
<1>4. CASE RenamePartial
  <2>1. /\ ~Idle /\ Idle' /\ jobs' = [jobs EXCEPT ![pend.id] = pend.rec]
        /\ partial' = partial \ {pend.id} /\ pend.rec.state # "absent"
        /\ jobs \in [JobIds -> JobRec]
    BY <1>4 DEF RenamePartial, Idle, JobInv, FilesSound
  <2>2. ASSUME owner = "restore" PROVE Effective(job)' = Effective(job)
    BY <1>0, <1>1, <2>1, <2>2 DEF Effective, opVars
  <2>3. ASSUME owner = "restore", jobs[job].state # "absent" PROVE jobs'[job].state # "absent"
    BY <1>0, <1>1, <2>1, <2>3
  <2> QED BY <1>0, <2>1, <2>2, <2>3 DEF JobIsWritten, opVars
<1> QED BY <1>2, <1>3, <1>4 DEF JobFileStep

(* A restore updates its job.                                             *)
LEMMA UpdateWritten ==
  ASSUME JobInv, JobIsWritten, owner = "restore", Idle, stage # "saving", stage' # "saving",
         UNCHANGED <<owner, job, jobs>>, partial' \subseteq partial,
         NEW r \in JobRec, PersistUpdate(job, r), r.kind = jobs[job].kind, r.state # "absent",
         stage' \notin Ended => r.state \in Running,
         stage' = "swapping" => r.phase = "swapping"
  PROVE  JobIsWritten'
<1>1. job \in JobIds /\ jobs[job].state # "absent" /\ job \notin partial
      /\ jobs[job].kind = "restore"
  BY DEF JobInv, OperationHasJob, JobIsWritten, Effective
<1>2. Persist(job, r)
  BY <1>1 DEF PersistUpdate
<1>3. ~Idle' /\ pend'.id = job /\ pend'.rec = r
  BY <1>1, <1>2, PersistIsWrite
<1> QED BY <1>1, <1>3 DEF JobIsWritten, Effective

(* A restore does something else, with another job or none.               *)
LEMMA StillWritten ==
  ASSUME JobInv, JobIsWritten, owner = "restore", Idle, stage # "saving",
         stage' \notin {"saving", "swapping"},
         UNCHANGED <<owner, job, jobs>>, partial' \subseteq partial,
         Idle' \/ pend'.id # job, stage' \notin Ended => stage \notin Ended
  PROVE  JobIsWritten'
<1>1. job \notin partial /\ Effective(job) = jobs[job] /\ Effective(job)' = jobs[job]
  BY DEF JobIsWritten, Effective
<1> QED BY <1>1 DEF JobIsWritten

(* A phase is announced, or the restore fails.                            *)
LEMMA AnnounceWritten ==
  ASSUME JobInv, JobIsWritten, owner = "restore", Idle, stage \notin Ended, stage # "saving",
         UNCHANGED <<owner, job, jobs>>, partial' \subseteq partial,
         NEW p \in Phases \ (Ended \cup {"saving"}), Announce(p) \/ Fail(p)
  PROVE  JobIsWritten'
<1>0. jobs[job] \in JobRec /\ jobs[job].state \in Running
  BY DEF JobInv, FilesSound, OperationHasJob, JobIsWritten, Effective
<1>1. CASE Announce(p)
  <2> DEFINE r == [jobs[job] EXCEPT !.phase = p]
  <2>1. r \in JobRec /\ r.kind = jobs[job].kind /\ r.state \in Running /\ r.phase = p
    BY <1>0 DEF JobRec
  <2>2. PersistUpdate(job, r) /\ stage' = p
    BY <1>1 DEF Announce
  <2> HIDE DEF r
  <2>3. r.state # "absent"
    BY <2>1 DEF Running
  <2> QED BY <2>1, <2>2, <2>3, UpdateWritten
<1>2. CASE Fail(p)
  <2> DEFINE r == [jobs[job] EXCEPT !.state = "failed", !.phase = p]
  <2>1. r \in JobRec /\ r.kind = jobs[job].kind /\ r.state = "failed"
    BY <1>0 DEF JobRec, States
  <2>2. PersistUpdate(job, r) /\ stage' = "unstage"
    BY <1>2 DEF Fail
  <2> HIDE DEF r
  <2> QED BY <2>1, <2>2, UpdateWritten DEF Ended
<1> QED BY <1>1, <1>2

(* So does a rollback that fails.                                         *)
LEMMA UncertainWritten ==
  ASSUME JobInv, JobIsWritten, owner = "restore", Idle, stage # "saving",
         UNCHANGED <<owner, job, jobs>>, partial' \subseteq partial, FailUncertain
  PROVE  JobIsWritten'
<1> DEFINE r == [jobs[job] EXCEPT !.state = "failed", !.phase = failedAt, !.warned = TRUE]
<1>1. r \in JobRec /\ r.kind = jobs[job].kind /\ r.state = "failed"
  BY DEF JobInv, FilesSound, OperationHasJob, JobRec, States
<1>2. PersistUpdate(job, r) /\ stage' = "release"
  BY DEF FailUncertain
<1> HIDE DEF r
<1> QED BY <1>1, <1>2, UpdateWritten DEF Ended

(* The steps of runRestoreJob.                                            *)
LEMMA RestoreWritten ==
  ASSUME JobInv, JobIsWritten, RunRestore PROVE JobIsWritten'
<1> USE DEF At, runUnchanged
<1>0. /\ owner = "restore" /\ Idle /\ stage # "saving" /\ UNCHANGED <<owner, job, jobs>>
      /\ partial' \subseteq partial /\ job \in JobIds
  BY DEF RunRestore, EnterGate, FinishDrain, DrainTimesOut, ValidateSelected, SavePreJob,
         PreRestoreDump, FailPreRestore, FinishPreRestore, BuildStaging, NextPhase, SwapIn,
         VerifyActive, Reschedule, RemoveRetained, SwapBack, VerifyOriginal,
         RescheduleOriginal, DropStaging, ReopenGate, JobInv, OperationHasJob
<1>1. ASSUME stage \notin Ended,
             NEW p \in Phases \ (Ended \cup {"saving"}), Announce(p) \/ Fail(p)
      PROVE  JobIsWritten'
  BY <1>0, <1>1, AnnounceWritten
<1>2. CASE FailUncertain
  BY <1>0, <1>2, UncertainWritten
<1>3. ASSUME Idle' \/ pend'.id # job, stage' \notin {"saving", "swapping"},
             stage' \notin Ended => stage \notin Ended
      PROVE  JobIsWritten'
  BY <1>0, <1>3, StillWritten
<1>4. CASE EnterGate \/ DropStaging \/ ReopenGate
  <2>1. /\ UNCHANGED pend /\ stage' \in {"draining", "exitgate", "release"}
        /\ stage' = "draining" => stage = "entering"
    BY <1>4 DEF EnterGate, DropStaging, ReopenGate
  <2> QED BY <1>0, <1>3, <2>1 DEF Ended, Idle
<1>5. CASE FinishDrain \/ ValidateSelected \/ FailPreRestore \/ FinishPreRestore
  <2>1. /\ stage \notin Ended
        /\ \/ Announce("validating") \/ Announce("prebackup") \/ Announce("creating")
           \/ Fail("validating") \/ Fail("prebackup")
    BY <1>5 DEF FinishDrain, ValidateSelected, FailPreRestore, FinishPreRestore, Ended
  <2> QED BY <1>1, <2>1 DEF Phases, Ended
<1>6. CASE DrainTimesOut
  <2> DEFINE r == [jobs[job] EXCEPT !.state = "failed", !.phase = "entering"]
  <2>1. r \in JobRec /\ r.kind = jobs[job].kind /\ r.state = "failed"
    BY <1>0 DEF JobInv, FilesSound, JobRec, States, Phases
  <2>2. PersistUpdate(job, r) /\ stage' = "release"
    BY <1>6 DEF DrainTimesOut
  <2> HIDE DEF r
  <2> QED BY <1>0, <2>1, <2>2, UpdateWritten DEF Ended
<1>7. CASE SavePreJob
  <2>1. PICK j \in JobIds : FreshId(j) /\ Persist(j, [NewRec("backup") EXCEPT !.state = "running"])
    BY <1>7 DEF SavePreJob
  <2>2. pend'.id = j
    BY <2>1, PersistIsWrite
  <2>3. j # job
    BY <1>0, <2>1 DEF FreshId, JobIsWritten
  <2>4. stage = "prebackup" /\ stage' = "predump"
    BY <1>7 DEF SavePreJob
  <2> QED BY <1>3, <2>2, <2>3, <2>4 DEF Ended
<1>8. CASE PreRestoreDump
  <2>1. /\ pre \in JobIds /\ NoRestore(pre) /\ stage = "predump"
        /\ stage' \in {"predone", "prefailed"}
    BY <1>0, <1>8 DEF PreRestoreDump, JobInv, OperationHasJob, KindsAreKept, PreStages
  <2>2. pre # job
    BY <1>0, <2>1 DEF JobIsWritten, Effective, NoRestore
  <2> DEFINE r == [jobs[pre] EXCEPT !.state = "succeeded", !.phase = "complete"]
             q == [jobs[pre] EXCEPT !.state = "failed"]
  <2>3. PersistUpdate(pre, r) \/ PersistUpdate(pre, q)
    BY <1>8 DEF PreRestoreDump
  <2> HIDE DEF r, q
  <2>4. Idle' \/ pend'.id = pre
    BY <1>0, <2>1, <2>3, PersistIsWrite DEF PersistUpdate, Idle
  <2> QED BY <1>3, <2>1, <2>2, <2>4 DEF Ended
<1>9. CASE BuildStaging
  <2>1. PICK p \in DOMAIN NextPhase : stage = p /\ (Announce(NextPhase[p]) \/ Fail(p))
    BY <1>9 DEF BuildStaging
  <2>2. /\ p \in Phases \ (Ended \cup {"saving"}) /\ p \notin Ended
        /\ NextPhase[p] \in Phases \ (Ended \cup {"saving"})
    BY DEF NextPhase, Phases, Destructive, Ended
  <2> QED BY <1>1, <2>1, <2>2
<1>10. CASE SwapIn \/ VerifyActive \/ Reschedule
  <2>1. /\ stage \notin Ended
        /\ \/ Announce("active") \/ Fail("swapping") \/ Announce("rescheduling")
           \/ Announce("removing") \/ Announce("rollingback")
    BY <1>10 DEF SwapIn, VerifyActive, Reschedule, StartRollback, Ended
  <2> QED BY <1>1, <2>1 DEF Phases, Destructive, Ended
<1>11. CASE RemoveRetained
  <2> DEFINE r == [jobs[job] EXCEPT !.state = "succeeded", !.phase = "complete"]
  <2>1. PersistUpdate(job, r) /\ stage' = "exitgate"
    BY <1>11 DEF RemoveRetained
  <2>2. r \in JobRec /\ r.state = "succeeded" /\ r.kind = jobs[job].kind
    BY <1>0 DEF JobInv, FilesSound, JobRec, States, Phases
  <2> HIDE DEF r
  <2> QED BY <1>0, <2>1, <2>2, UpdateWritten DEF Ended
<1>12. CASE SwapBack \/ VerifyOriginal
  <2>1. \/ FailUncertain
        \/ /\ UNCHANGED pend /\ stage' \in {"rbverify", "rbresched"} /\ stage \notin Ended
    BY <1>12 DEF SwapBack, VerifyOriginal, Ended
  <2> QED BY <1>0, <1>2, <1>3, <2>1 DEF Idle
<1>13. CASE RescheduleOriginal
  <2>1. stage \notin Ended /\ (Fail(failedAt) \/ FailUncertain)
    BY <1>13 DEF RescheduleOriginal, Ended
  <2>2. failedAt \in Phases \ (Ended \cup {"saving"})
    BY DEF JobInv, OperationHasJob, Phases, Destructive, Ended
  <2> QED BY <1>1, <1>2, <2>1, <2>2
<1> QED BY <1>4, <1>5, <1>6, <1>7, <1>8, <1>9, <1>10, <1>11, <1>12, <1>13 DEF RunRestore

(* Operations begin with a fresh job and no partial file of it.           *)
LEMMA BeginWritten ==
  ASSUME NEW j \in JobIds, NEW kind \in {"restore", "backup"}, FreshId(j), job' = j,
         Persist(j, NewRec(kind)), owner' = kind, stage' = "saving", UNCHANGED partial
  PROVE  JobIsWritten'
<1>1. ~Idle' /\ pend'.id = j /\ pend'.rec = NewRec(kind)
  BY PersistIsWrite
<1> QED BY <1>1, FreshRecord DEF JobIsWritten, Effective, FreshId, Running, Ended

(* Every step keeps the job file of a restore reliable.                   *)
LEMMA WrittenStep ==
  ASSUME JobInv, StartupHolds, JobIsWritten, ~May("persist"), [Next]_vars PROVE JobIsWritten'
<1>1. ASSUME UNCHANGED <<opVars, fileVars>> PROVE JobIsWritten'
  BY <1>1 DEF JobIsWritten, Effective, Idle, opVars, fileVars
<1>2. ASSUME owner' # "restore" PROVE JobIsWritten'
  BY <1>2 DEF JobIsWritten
<1>3. CASE BeginBackup \/ RunCliRestore \/ \E w \in Writers : StartRestore(w)
  BY <1>3, BeginWritten DEF BeginBackup, RunCliRestore, StartRestore
<1>4. ASSUME NEW w \in Writers, Request(w) PROVE JobIsWritten'
  BY <1>1, <1>3, <1>4 DEF Request, AppBeginWrite, AppEndWrite, StartManualBackup, DeleteBackup
<1>5. CASE CheckScheduledBackup \/ StartScheduledBackup
  BY <1>1, <1>3, <1>5 DEF CheckScheduledBackup, StartScheduledBackup
<1>6. CASE AbandonStart \/ DumpDatabase \/ Release
  BY <1>2, <1>6 DEF AbandonStart, DumpDatabase, Release
<1>7. CASE Launch
  <2>1. CASE owner = "restore"
    <3>1. /\ Idle /\ jobs' = jobs /\ job' = job /\ job \in JobIds /\ stage = "saving"
          /\ stage' = "entering" /\ UNCHANGED <<owner, partial>>
      BY <1>7, <2>1 DEF Launch, JobInv, OperationHasJob
    <3> DEFINE r == [jobs[job] EXCEPT !.state = "running", !.phase = FirstPhase]
    <3>2. Persist(job, r)
      BY <1>7 DEF Launch
    <3>3. r.state = "running" /\ r.kind = jobs[job].kind
      BY <3>1 DEF JobInv, FilesSound, JobRec
    <3> HIDE DEF r
    <3>4. ~Idle' /\ pend'.id = job /\ pend'.rec = r
      BY <3>1, <3>2, PersistIsWrite
    <3>5. job \notin partial /\ jobs[job].kind = "restore" /\ jobs[job].state # "absent"
      BY <2>1, <3>1 DEF JobIsWritten, Effective
    <3> QED BY <3>1, <3>3, <3>4, <3>5 DEF JobIsWritten, Effective, Running
  <2>2. CASE owner # "restore"
    BY <1>2, <1>7, <2>2 DEF Launch
  <2> QED BY <2>1, <2>2
<1>8. CASE \/ RecoverJob \/ NextRecovery \/ RecoveryFails \/ AfterRecovery \/ RaiseGate
           \/ FinishStartup \/ StartApi \/ StartCli \/ ApiDies \/ CliDies
  <2>1. owner' # "restore"
    BY <1>8 DEF StartupHolds, RecoverJob, NextRecovery, RecoveryFails, AfterRecovery, RaiseGate,
                FinishStartup, StartApi, StartCli, ApiDies, CliDies, OperationDies
  <2> QED BY <1>2, <2>1
<1>9. CASE UNCHANGED vars
  BY <1>1, <1>9 DEF vars
<1> QED BY <1>3, <1>4, <1>5, <1>6, <1>7, <1>8, <1>9, WriteFinishes, RestoreWritten
        DEF Next, Operation, Startup

-----------------------------------------------------------------------------
(* The inductive reason why failure without a warning leaves the original *)
(* active: the record of a content that is active, or that a rollback may *)
(* activate again, is one that start-up recovery would turn into a        *)
(* warning or a finished restore.                                         *)
Safe(rec) ==
  /\ rec.kind = "restore"
  /\ rec.state \in Running => rec.phase \in Destructive \cup {"removing"}
  /\ rec.state = "failed" => rec.warned \/ rec.phase = "removing"

BeforeSwap == {"saving", "entering", "draining", "validating", "prebackup", "predump", "predone",
               "prefailed", "creating", "restoring", "migrating", "verifying", "swapping"}
PreMade    == {"predone", "creating", "restoring", "migrating", "verifying", "swapping", "active",
               "rescheduling", "rollingback", "rbverify", "rbresched", "removing"}

JobIsSafe(j) == Safe(jobs[j]) /\ (~Idle /\ pend.id = j => Safe(pend.rec))

ContentIsSafe ==
  /\ current \in JobIds => JobIsSafe(current)
  /\ owner = "restore" /\ stage \in PreMade /\ preSet \in JobIds => JobIsSafe(preSet)
  /\ owner = "restore" /\ stage \in BeforeSwap => current # job
  /\ owner = "restore" /\ stage \in PreMade => preSet # job

(* JobStore finishes the pending write.                                   *)
LEMMA SafeWriteFinishes ==
  ASSUME JobInv, ContentIsSafe, JobFileStep PROVE ContentIsSafe'
<1>0. UNCHANGED <<gateVars, opVars, dbVars, procVars>>
  BY JobFilesOnly
<1>1. ASSUME NEW j \in JobIds, JobIsSafe(j) PROVE JobIsSafe(j)'
  <2>1. CASE WritePartial
    <3>1. jobs' = jobs /\ pend'.id = pend.id /\ pend'.rec = pend.rec /\ ~Idle
      BY <2>1 DEF WritePartial, JobInv, FilesSound
    <3> QED BY <1>1, <3>1 DEF JobIsSafe
  <2>2. CASE RefusePartial
    BY <1>1, <2>2 DEF RefusePartial, JobIsSafe, Idle
  <2>3. CASE RenamePartial
    <3>1. ~Idle /\ Idle' /\ jobs' = [jobs EXCEPT ![pend.id] = pend.rec]
          /\ jobs \in [JobIds -> JobRec]
      BY <2>3 DEF RenamePartial, JobInv, FilesSound, Idle
    <3> QED BY <1>1, <3>1 DEF JobIsSafe
  <2> QED BY <2>1, <2>2, <2>3 DEF JobFileStep
<1> QED BY <1>0, <1>1 DEF ContentIsSafe, opVars, dbVars

(* A job other than the one that is written stays safe.                   *)
LEMMA OtherIsSafe ==
  ASSUME NEW k \in JobIds, JobIsSafe(k), Idle, jobs' = jobs, NEW j \in JobIds, NEW r,
         UNCHANGED pend \/ PersistUpdate(j, r) \/ Persist(j, r), j # k
  PROVE  JobIsSafe(k)'
<1>1. Idle' \/ pend'.id = j
  BY PersistIsWrite DEF PersistUpdate, Idle
<1> QED BY <1>1 DEF JobIsSafe

(* So does the one that is written, if the record is safe.                *)
LEMMA UpdateIsSafe ==
  ASSUME NEW k \in JobIds, JobIsSafe(k), Idle, jobs' = jobs, NEW j \in JobIds, NEW r,
         UNCHANGED pend \/ PersistUpdate(j, r) \/ Persist(j, r), Safe(r)
  PROVE  JobIsSafe(k)'
<1>1. \/ Idle'
      \/ pend'.id = j /\ pend'.rec = r
  BY PersistIsWrite DEF PersistUpdate, Idle
<1> QED BY <1>1 DEF JobIsSafe

(* A restore that has not swapped announces a phase, fails, or writes the *)
(* job of its backup: neither is a job whose content is active.           *)
LEMMA BeforeSwapSafe ==
  ASSUME JobInv, ContentIsSafe, owner = "restore", Idle, stage \in BeforeSwap,
         UNCHANGED <<owner, job, jobs, current>>,
         stage' \in BeforeSwap \cup {"unstage", "release"},
         \/ preSet' = preSet /\ (stage' \in PreMade => stage \in PreMade)
         \/ preSet' = current,
         NEW j \in JobIds, NEW r, UNCHANGED pend \/ PersistUpdate(j, r) \/ Persist(j, r),
         j = job \/ jobs[j].kind # "restore"
  PROVE  ContentIsSafe'
<1>1. ASSUME NEW k \in JobIds, JobIsSafe(k), k # job PROVE JobIsSafe(k)'
  BY <1>1, OtherIsSafe DEF JobIsSafe, Safe
<1>2. current # job
  BY DEF ContentIsSafe
<1> QED BY <1>1, <1>2 DEF ContentIsSafe, PreMade, BeforeSwap

(* A restore that has swapped goes on with the same contents.             *)
LEMMA AfterSwapSafe ==
  ASSUME JobInv, ContentIsSafe, owner = "restore", Idle, stage \in PreMade,
         UNCHANGED <<owner, job, jobs, preSet>>, stage' \notin BeforeSwap,
         current' = current \/ current' = preSet,
         NEW r, UNCHANGED pend \/ PersistUpdate(job, r), 
         Safe(r) \/ (current' # job)
  PROVE  ContentIsSafe'
<1>1. job \in JobIds /\ preSet # job
  BY DEF JobInv, OperationHasJob, ContentIsSafe
<1>2. ASSUME NEW k \in JobIds, JobIsSafe(k), k # job PROVE JobIsSafe(k)'
  BY <1>1, <1>2, OtherIsSafe
<1>3. ASSUME NEW k \in JobIds, JobIsSafe(k), Safe(r) PROVE JobIsSafe(k)'
  BY <1>1, <1>3, UpdateIsSafe
<1>4. stage' \in PreMade /\ preSet' \in JobIds => JobIsSafe(preSet)'
  BY <1>1, <1>2 DEF ContentIsSafe
<1>5. current' \in JobIds => JobIsSafe(current')
  BY DEF ContentIsSafe
<1>6. current' \in JobIds => JobIsSafe(current)'
  BY <1>2, <1>3, <1>5 DEF JobIsSafe
<1> QED BY <1>1, <1>4, <1>6 DEF ContentIsSafe

(* The records that runRestoreJob writes after the swap.                  *)
LEMMA LateRecords ==
  ASSUME JobInv, JobIsWritten, owner = "restore", Idle, stage \notin Ended, job \in JobIds
  PROVE  /\ \A p \in Destructive \cup {"removing"} : Safe([jobs[job] EXCEPT !.phase = p])
         /\ Safe([jobs[job] EXCEPT !.state = "failed", !.phase = failedAt, !.warned = TRUE])
         /\ Safe([jobs[job] EXCEPT !.state = "succeeded", !.phase = "complete"])
         /\ stage = "swapping" => Safe(jobs[job])
<1>1. jobs[job] \in JobRec /\ jobs[job].kind = "restore" /\ jobs[job].state \in Running
      /\ (stage = "swapping" => jobs[job].phase = "swapping")
  BY DEF JobInv, FilesSound, JobIsWritten, Effective
<1> QED BY <1>1 DEF Safe, JobRec, Running, Destructive

(* The steps of runRestoreJob.                                            *)
LEMMA RestoreSafe ==
  ASSUME JobInv, PreSetInv, JobIsWritten, ContentIsSafe, ~May("commit"), RunRestore
  PROVE  ContentIsSafe'
<1> USE DEF At, runUnchanged
<1>0. /\ owner = "restore" /\ Idle /\ job \in JobIds /\ UNCHANGED <<owner, job, jobs>>
  BY DEF RunRestore, EnterGate, FinishDrain, DrainTimesOut, ValidateSelected, SavePreJob,
         PreRestoreDump, FailPreRestore, FinishPreRestore, BuildStaging, NextPhase, SwapIn,
         VerifyActive, Reschedule, RemoveRetained, SwapBack, VerifyOriginal,
         RescheduleOriginal, DropStaging, ReopenGate, JobInv, OperationHasJob
<1>1. ASSUME stage \in BeforeSwap, stage' \in BeforeSwap \cup {"unstage", "release"},
             preSet' = preSet, stage' \in PreMade => stage \in PreMade, current' = current,
             NEW r, UNCHANGED pend \/ PersistUpdate(job, r)
      PROVE  ContentIsSafe'
  BY <1>0, <1>1, BeforeSwapSafe
<1>2. ASSUME stage \in PreMade, stage' \notin BeforeSwap, preSet' = preSet,
             current' = current \/ current' = preSet,
             NEW r, UNCHANGED pend \/ PersistUpdate(job, r), Safe(r) \/ current' # job
      PROVE  ContentIsSafe'
  BY <1>0, <1>2, AfterSwapSafe
<1>3. CASE EnterGate \/ FinishDrain \/ DrainTimesOut \/ ValidateSelected \/ FailPreRestore
           \/ FinishPreRestore
  <2>1. /\ stage \in BeforeSwap /\ stage' \in BeforeSwap \cup {"unstage", "release"}
        /\ preSet' = preSet /\ current' = current
        /\ stage' \in PreMade => stage \in PreMade
    BY <1>3 DEF EnterGate, FinishDrain, DrainTimesOut, ValidateSelected, FailPreRestore,
                FinishPreRestore, Announce, Fail, dbVars, BeforeSwap, PreMade
  <2>2. \E r : UNCHANGED pend \/ PersistUpdate(job, r)
    BY <1>3 DEF EnterGate, FinishDrain, DrainTimesOut, ValidateSelected, FailPreRestore,
                FinishPreRestore, Announce, Fail
  <2> QED BY <1>1, <2>1, <2>2
<1>4. CASE SavePreJob
  <2>1. PICK j \in JobIds : FreshId(j) /\ Persist(j, [NewRec("backup") EXCEPT !.state = "running"])
    BY <1>4 DEF SavePreJob
  <2>2. jobs[j].kind # "restore"
    BY <2>1 DEF FreshId, JobInv, FilesSound
  <2>3. /\ stage \in BeforeSwap /\ stage' \in BeforeSwap /\ stage' \notin PreMade
        /\ preSet' = preSet /\ current' = current
    BY <1>4 DEF SavePreJob, dbVars, BeforeSwap, PreMade
  <2> QED BY <1>0, <2>1, <2>2, <2>3, BeforeSwapSafe
<1>5. CASE PreRestoreDump
  <2>1. /\ pre \in JobIds /\ jobs[pre].kind # "restore"
        /\ stage \in BeforeSwap /\ stage' \in BeforeSwap /\ current' = current
        /\ preSet' = current \/ (preSet' = preSet /\ stage' \notin PreMade)
    BY <1>0, <1>5 DEF PreRestoreDump, JobInv, OperationHasJob, KindsAreKept, PreStages, NoRestore,
                      BeforeSwap, PreMade
  <2>2. \E r : PersistUpdate(pre, r)
    BY <1>5 DEF PreRestoreDump
  <2> QED BY <1>0, <2>1, <2>2, BeforeSwapSafe
<1>6. CASE BuildStaging
  <2>1. PICK p \in DOMAIN NextPhase : stage = p /\ (Announce(NextPhase[p]) \/ Fail(p))
    BY <1>6 DEF BuildStaging
  <2>2. p \in BeforeSwap \cap PreMade /\ NextPhase[p] \in BeforeSwap
    BY DEF NextPhase, BeforeSwap, PreMade
  <2>3. \E r : PersistUpdate(job, r)
    BY <2>1 DEF Announce, Fail
  <2>4. stage' \in BeforeSwap \cup {"unstage"} /\ preSet' = preSet /\ current' = current
    BY <1>6, <2>1, <2>2 DEF BuildStaging, Announce, Fail, dbVars
  <2> QED BY <1>1, <2>1, <2>2, <2>3, <2>4
<1>7. CASE SwapIn
  <2>1. stage = "swapping" /\ preSet' = preSet
    BY <1>7 DEF SwapIn
  <2>2. CASE Fail("swapping") /\ UNCHANGED dbVars
    <3>1. (\E r : PersistUpdate(job, r)) /\ stage' = "unstage" /\ current' = current
      BY <2>2 DEF Fail, dbVars
    <3> QED BY <1>1, <2>1, <3>1 DEF BeforeSwap, PreMade
  <2>3. CASE RenameIn /\ Announce("active")
    <3> DEFINE r == [jobs[job] EXCEPT !.phase = "active"]
    <3>1. /\ PersistUpdate(job, r) /\ stage' = "active" /\ current' = job
      BY <2>3 DEF RenameIn, Announce
    <3>2. Safe(jobs[job]) /\ Safe(r)
      BY <1>0, <2>1, LateRecords DEF Ended, Destructive
    <3> HIDE DEF r
    <3>3. JobIsSafe(job)
      BY <1>0, <3>2 DEF JobIsSafe
    <3>4. JobIsSafe(job)'
      BY <1>0, <3>1, <3>2, <3>3, UpdateIsSafe DEF JobIsSafe
    <3>5. preSet # job /\ (preSet \in JobIds => JobIsSafe(preSet))
      BY <1>0, <2>1 DEF ContentIsSafe, PreMade
    <3>6. ASSUME preSet \in JobIds PROVE JobIsSafe(preSet)'
      BY <1>0, <2>1, <3>1, <3>5, <3>6, OtherIsSafe DEF JobIsSafe
    <3>7. JobIsSafe(current)'
      BY <1>0, <3>1, <3>4 DEF JobIsSafe
    <3> QED BY <1>0, <2>1, <3>1, <3>5, <3>6, <3>7 DEF ContentIsSafe, BeforeSwap
  <2> QED BY <1>7, <2>2, <2>3 DEF SwapIn
<1>8. CASE VerifyActive \/ Reschedule
  <2>1. /\ stage \in {"active", "rescheduling"} /\ preSet' = preSet /\ current' = current
        /\ \E p \in {"rescheduling", "removing", "rollingback"} : Announce(p)
    BY <1>8 DEF VerifyActive, Reschedule, StartRollback
  <2>2. PICK p \in {"rescheduling", "removing", "rollingback"} : Announce(p)
    BY <2>1
  <2>3. Safe([jobs[job] EXCEPT !.phase = p])
    BY <1>0, <2>1, LateRecords DEF Ended, Destructive
  <2>4. PersistUpdate(job, [jobs[job] EXCEPT !.phase = p]) /\ stage' = p
    BY <2>2 DEF Announce
  <2> QED BY <1>2, <2>1, <2>3, <2>4 DEF BeforeSwap, PreMade
<1>9. CASE RemoveRetained
  <2>1. /\ stage = "removing" /\ stage' = "exitgate" /\ preSet' = preSet /\ current' = current
        /\ PersistUpdate(job, [jobs[job] EXCEPT !.state = "succeeded", !.phase = "complete"])
    BY <1>9 DEF RemoveRetained
  <2>2. Safe([jobs[job] EXCEPT !.state = "succeeded", !.phase = "complete"])
    BY <1>0, <2>1, LateRecords DEF Ended
  <2> QED BY <1>2, <2>1, <2>2 DEF BeforeSwap, PreMade
<1>10. CASE SwapBack \/ VerifyOriginal \/ RescheduleOriginal
  <2>1. /\ stage \in {"rollingback", "rbverify", "rbresched"} /\ preSet' = preSet
        /\ current' = current \/ current' = preSet
        /\ \/ UNCHANGED pend /\ current' = preSet /\ stage' = "rbverify"
           \/ UNCHANGED pend /\ current' = current /\ stage = "rbverify" /\ stage' = "rbresched"
           \/ FailUncertain
           \/ Fail(failedAt) /\ stage = "rbresched" /\ current' = current
    BY <1>10 DEF SwapBack, RenameBack, VerifyOriginal, RescheduleOriginal, dbVars, FailUncertain
  <2>2. stage \in PreMade /\ preSet # job /\ (stage # "rollingback" => current = preSet)
    BY <1>0, <2>1 DEF PreSetInv, ContentIsSafe, PreMade
  <2>3. CASE UNCHANGED pend /\ stage' \in {"rbverify", "rbresched"}
    BY <1>2, <2>1, <2>2, <2>3 DEF BeforeSwap, FailUncertain, Fail
  <2>4. CASE FailUncertain
    <3>1. Safe([jobs[job] EXCEPT !.state = "failed", !.phase = failedAt, !.warned = TRUE])
      BY <1>0, <2>1, LateRecords DEF Ended
    <3>2. /\ stage' = "release"
          /\ PersistUpdate(job, [jobs[job] EXCEPT !.state = "failed", !.phase = failedAt,
                                                  !.warned = TRUE])
      BY <2>4 DEF FailUncertain
    <3> QED BY <1>2, <2>1, <2>2, <3>1, <3>2 DEF BeforeSwap
  <2>5. CASE Fail(failedAt) /\ stage = "rbresched" /\ current' = current
    <3>1. (\E r : PersistUpdate(job, r)) /\ stage' = "unstage"
      BY <2>5 DEF Fail
    <3> QED BY <1>2, <2>1, <2>2, <2>5, <3>1 DEF BeforeSwap
  <2> QED BY <2>1, <2>3, <2>4, <2>5
<1>11. CASE DropStaging \/ ReopenGate
  <2>1. /\ UNCHANGED <<pend, current, preSet>> /\ stage' \in {"exitgate", "release"}
    BY <1>11 DEF DropStaging, ReopenGate, dbVars
  <2> QED BY <1>0, <2>1 DEF ContentIsSafe, JobIsSafe, Idle, PreMade, BeforeSwap
<1> QED BY <1>3, <1>4, <1>5, <1>6, <1>7, <1>8, <1>9, <1>10, <1>11 DEF RunRestore

(* Every step keeps the records of the contents safe.                     *)
LEMMA SafeStep ==
  ASSUME JobInv, StartupHolds, PreSetInv, JobIsWritten, ContentIsSafe, ~May("commit"),
         [Next]_vars
  PROVE  ContentIsSafe'
<1>1. ASSUME UNCHANGED <<opVars, jobs, pend, current>> PROVE ContentIsSafe'
  BY <1>1 DEF ContentIsSafe, JobIsSafe, Idle, opVars
<1>2. ASSUME owner' \notin {"restore"}, UNCHANGED <<jobs, current>>, Idle' \/ UNCHANGED pend
      PROVE  ContentIsSafe'
  BY <1>2 DEF ContentIsSafe, JobIsSafe, Idle
<1>3. ASSUME NEW j \in JobIds, NEW kind, FreshId(j), job' = j, Persist(j, NewRec(kind)),
             owner' = kind, stage' = "saving", UNCHANGED <<jobs, current>>
      PROVE  ContentIsSafe'
  <2>1. jobs[j].kind # "restore"
    BY <1>3 DEF FreshId, JobInv, FilesSound
  <2>2. current # j
    BY <2>1 DEF ContentIsSafe, JobIsSafe, Safe
  <2>3. ~Idle' /\ pend'.id = j
    BY <1>3, PersistIsWrite
  <2> QED BY <1>3, <2>2, <2>3 DEF ContentIsSafe, JobIsSafe, PreMade
<1>4. CASE BeginBackup
  BY <1>3, <1>4 DEF BeginBackup, dbVars
<1>5. CASE RunCliRestore \/ \E w \in Writers : StartRestore(w)
  BY <1>3, <1>5 DEF RunCliRestore, StartRestore, dbVars
<1>6. ASSUME NEW w \in Writers, Request(w) PROVE ContentIsSafe'
  BY <1>1, <1>4, <1>5, <1>6
     DEF Request, AppBeginWrite, AppEndWrite, StartManualBackup, DeleteBackup, fileVars, dbVars
<1>7. CASE CheckScheduledBackup \/ StartScheduledBackup
  BY <1>1, <1>4, <1>7 DEF CheckScheduledBackup, StartScheduledBackup, fileVars, dbVars
<1>8. CASE AbandonStart \/ Release
  BY <1>2, <1>8 DEF AbandonStart, Release, fileVars, dbVars
<1>9. CASE Launch \/ DumpDatabase
  <2>1. /\ Idle /\ jobs' = jobs /\ job \in JobIds /\ current' = current /\ UNCHANGED <<owner, job>>
        /\ owner = "restore" => stage = "saving"
        /\ stage' \in {"entering", "dumping", "release"}
        /\ \E r : Persist(job, r)
    BY <1>9 DEF Launch, DumpDatabase, dbVars, JobInv, OperationHasJob
  <2>2. owner # "restore" => NoRestore(job)
    BY <1>9 DEF JobInv, KindsAreKept, OperationHasJob, Launch, DumpDatabase
  <2>3. current # job
    BY <2>1, <2>2 DEF ContentIsSafe, BeforeSwap, NoRestore, JobIsSafe, Safe
  <2>4. current \in JobIds => JobIsSafe(current)'
    BY <2>1, <2>3, OtherIsSafe DEF ContentIsSafe
  <2> QED BY <2>1, <2>3, <2>4 DEF ContentIsSafe, JobIsSafe, PreMade
<1>10. CASE RecoverJob
  <2>1. PICK j \in Interrupted : Persist(j, Recovered(jobs[j]))
    BY <1>10 DEF RecoverJob
  <2>2. owner' # "restore" /\ jobs' = jobs /\ current' = current /\ Idle
    BY <1>10 DEF RecoverJob, StartupHolds, dbVars
  <2>3. j \in JobIds /\ jobs[j] \in JobRec /\ jobs[j].state \in Running
    BY DEF Interrupted, JobInv, FilesSound, Running
  <2>4. Safe(jobs[j]) => Safe(Recovered(jobs[j]))
    BY <2>3 DEF Safe, Recovered, IsDestructive, JobRec, Running
  <2>5. ASSUME current \in JobIds PROVE JobIsSafe(current)'
    <3>1. JobIsSafe(current)
      BY <2>5 DEF ContentIsSafe
    <3>2. CASE j = current
      <4>1. Safe(Recovered(jobs[j]))
        BY <2>4, <3>1, <3>2 DEF JobIsSafe
      <4> QED BY <2>1, <2>2, <2>3, <2>5, <3>1, <4>1, UpdateIsSafe DEF JobIsSafe
    <3>3. CASE j # current
      BY <2>1, <2>2, <2>3, <2>5, <3>1, <3>3, OtherIsSafe DEF JobIsSafe
    <3> QED BY <3>2, <3>3
  <2> QED BY <2>2, <2>5 DEF ContentIsSafe, JobIsSafe
<1>11. CASE \/ NextRecovery \/ RecoveryFails \/ AfterRecovery \/ RaiseGate
            \/ FinishStartup \/ StartApi \/ StartCli \/ ApiDies \/ CliDies
  <2>1. /\ owner' # "restore" /\ UNCHANGED <<jobs, current>>
        /\ UNCHANGED pend \/ pend' = NoWrite
    BY <1>11 DEF StartupHolds, NextRecovery, RecoveryFails, AfterRecovery, RaiseGate,
                 FinishStartup, StartApi, StartCli, ApiDies, CliDies, OperationDies, fileVars, dbVars
  <2> QED BY <1>2, <2>1 DEF Idle
<1>12. CASE UNCHANGED vars
  BY <1>1, <1>12 DEF vars, fileVars, dbVars
<1> QED BY <1>4, <1>5, <1>6, <1>7, <1>8, <1>9, <1>10, <1>11, <1>12, SafeWriteFinishes, RestoreSafe
        DEF Next, Operation, Startup

-----------------------------------------------------------------------------
(* The faults of a behaviour are given once.                              *)
LEMMA ScenarioStays == [Next]_vars => scenario' = scenario
<1>1. Operation \/ Startup => scenario' = scenario
  BY DEF Operation, AbandonStart, Launch, DumpDatabase, Release, RunRestore, EnterGate,
         FinishDrain, DrainTimesOut, ValidateSelected, SavePreJob, PreRestoreDump,
         FailPreRestore, FinishPreRestore, BuildStaging, SwapIn, VerifyActive, Reschedule,
         RemoveRetained, SwapBack, VerifyOriginal, RescheduleOriginal, DropStaging,
         ReopenGate, runUnchanged, Startup, RecoverJob, NextRecovery, RecoveryFails,
         AfterRecovery, RaiseGate, FinishStartup, RunCliRestore, procVars
<1>2. (\E w \in Writers : Request(w)) \/ JobFileStep => scenario' = scenario
  BY DEF Request, AppBeginWrite, AppEndWrite, StartRestore, StartManualBackup, DeleteBackup,
         JobFileStep, WritePartial, RefusePartial, RenamePartial, procVars
<1>3. CheckScheduledBackup \/ StartScheduledBackup \/ StartApi \/ StartCli \/ ApiDies \/ CliDies
        => scenario' = scenario
  BY DEF CheckScheduledBackup, StartScheduledBackup, StartApi, StartCli, ApiDies, CliDies, procVars
<1> QED BY <1>1, <1>2, <1>3 DEF Next, vars, procVars

(* With job files that can be written, a restore that failed without a    *)
(* warning left the original database active; COMMIT must tell the truth. *)
THEOREM FailedMeansOriginal == Spec => []FailureLeavesOriginal
<1> DEFINE Inv == /\ ~May("persist") => JobIsWritten
                  /\ ~May("persist") /\ ~May("commit") => ContentIsSafe
<1>1. Init => Inv
  BY DEF Init, JobIsWritten, ContentIsSafe, JobIds
<1>2. JobInv /\ ShutInv /\ PreSetInv /\ Inv /\ [Next]_vars => Inv'
  BY WrittenStep, SafeStep, ScenarioStays DEF ShutInv, May
<1>3. JobInv /\ Inv => FailureLeavesOriginal
  BY DEF FailureLeavesOriginal, ContentIsSafe, JobIsSafe, Safe
<1> HIDE DEF Inv
<1> QED BY <1>1, <1>2, <1>3, JobFilesAreSound, PreSetStays, PTL DEF Spec

-----------------------------------------------------------------------------
(* The inductive reason why a lockout is announced: start-up knows that   *)
(* the database is uncertain only from a job it gives a warning, a failed *)
(* rollback writes one before it releases the lock, and no later write    *)
(* takes a warning away.                                                  *)
Warns(rec)     == rec.kind = "restore" /\ rec.warned
Announced      == \E j \in JobIds : Warns(jobs[j])
WarningsStay   == ~Idle /\ Warns(jobs[pend.id]) => Warns(pend.rec)
WarningPending == ~Idle /\ Warns(pend.rec)

Restoring == owner = "restore" /\ host = "api" /\ stage \notin {"saving", "release"}

ApiIsUp == /\ host = "cli" => api = "down"
           /\ host = "api" => api # "down"
           /\ sched = "checked" => api = "ready"
           /\ owner = "startup" => api # "ready"
           /\ owner = "restore" => host \in {"api", "cli"}

ShutWhenUncertain ==
  /\ api = "down" \/ stage \in {"recover", "recovering"} => ~maintenance
  /\ owner = "startup" /\ (maintenance \/ stage \in {"raise", "raising"}) => uncertain
  /\ uncertain => owner = "startup" /\ stage \in {"recover", "recovering", "raise", "raising", "clean"}

UncertainIsAnnounced ==
  uncertain => Announced \/ (stage = "recovering" /\ (WarningPending \/ (Idle /\ perr)))

ShutIsAnnounced ==
  maintenance /\ api = "ready" /\ ~Restoring =>
    Announced \/ (owner = "restore" /\ stage = "release" /\ WarningPending /\ pend.id = job)

LockoutInv == ApiIsUp /\ ShutWhenUncertain

(* The API runs while it hosts something, and its gate is shut by a       *)
(* start-up only when the database is uncertain.                          *)
LEMMA LockoutStep ==
  ASSUME LockoutInv, StartupHolds, [Next]_vars PROVE LockoutInv'
<1> USE DEF LockoutInv, ApiIsUp, ShutWhenUncertain, StartupHolds
<1>1. ASSUME NEW w \in Writers, Request(w) PROVE LockoutInv'
  <2>1. CASE AppBeginWrite(w) \/ AppEndWrite(w)
    BY <2>1 DEF AppBeginWrite, AppEndWrite, BeginWrite, EndWrite, opVars, procVars
  <2>2. CASE StartRestore(w)
    BY <2>2 DEF StartRestore, gateVars, procVars
  <2>3. CASE StartManualBackup(w) \/ DeleteBackup(w)
    BY <2>3 DEF StartManualBackup, BeginBackup, DeleteBackup, opVars, gateVars, procVars
  <2> QED BY <1>1, <2>1, <2>2, <2>3 DEF Request
<1>2. CASE CheckScheduledBackup \/ StartScheduledBackup
  BY <1>2 DEF CheckScheduledBackup, StartScheduledBackup, BeginBackup, opVars, gateVars
<1>3. CASE JobFileStep
  BY <1>3, JobFilesOnly DEF opVars, gateVars, procVars
<1>4. CASE AbandonStart \/ Launch \/ DumpDatabase \/ Release
  BY <1>4 DEF AbandonStart, Launch, DumpDatabase, Release, gateVars, procVars
<1>5. CASE RunRestore
  <2> USE DEF At, runUnchanged, gateVars, procVars, Announce, Fail
  <2>1. CASE EnterGate \/ FinishDrain
    BY <2>1 DEF EnterGate, EnterMaintenance, FinishDrain, Drained
  <2>2. CASE DrainTimesOut \/ ReopenGate
    BY <2>2 DEF DrainTimesOut, ReopenGate, ExitMaintenance
  <2>3. CASE ValidateSelected \/ SavePreJob \/ PreRestoreDump \/ FailPreRestore \/ FinishPreRestore
    BY <2>3 DEF ValidateSelected, SavePreJob, PreRestoreDump, FailPreRestore, FinishPreRestore
  <2>4. CASE BuildStaging
    BY <2>4 DEF BuildStaging, NextPhase
  <2>5. CASE SwapIn \/ VerifyActive \/ Reschedule \/ RemoveRetained
    BY <2>5 DEF SwapIn, VerifyActive, Reschedule, RemoveRetained, StartRollback
  <2>6. CASE SwapBack \/ VerifyOriginal \/ RescheduleOriginal \/ DropStaging
    BY <2>6 DEF SwapBack, VerifyOriginal, RescheduleOriginal, DropStaging, FailUncertain
  <2> QED BY <1>5, <2>1, <2>2, <2>3, <2>4, <2>5, <2>6 DEF RunRestore
<1>6. CASE RaiseGate
  BY <1>6 DEF RaiseGate, EnterMaintenance, Drained, procVars
<1>7. CASE RecoverJob \/ NextRecovery
  <2>1. CASE RecoverJob
    <3>1. /\ stage = "recover" /\ stage' = "recovering"
          /\ UNCHANGED <<gateVars, owner, host, api, sched>>
      BY <2>1 DEF RecoverJob
    <3> QED BY <3>1 DEF gateVars
  <2>2. CASE NextRecovery
    BY <2>2 DEF NextRecovery, gateVars, procVars
  <2> QED BY <1>7, <2>1, <2>2
<1>8. CASE RecoveryFails \/ AfterRecovery
  BY <1>8 DEF RecoveryFails, AfterRecovery, gateVars, procVars
<1>9. CASE FinishStartup \/ RunCliRestore
  BY <1>9 DEF FinishStartup, RunCliRestore, gateVars, procVars
<1>10. CASE StartApi \/ StartCli \/ ApiDies \/ CliDies
  BY <1>10 DEF StartApi, StartCli, ApiDies, CliDies, OperationDies, GateReset, gateVars, procVars
<1>11. CASE UNCHANGED vars
  BY <1>11 DEF vars, opVars, gateVars, procVars
<1> QED
  BY <1>1, <1>2, <1>3, <1>4, <1>5, <1>6, <1>7, <1>8, <1>9, <1>10, <1>11
  DEF Next, Operation, Startup

(* A warning that is written stays.                                       *)
LEMMA WarningsKept ==
  ASSUME JobInv, WarningsStay, JobFileStep, Announced PROVE Announced'
<1>1. PICK j \in JobIds : Warns(jobs[j])
  BY DEF Announced
<1>2. CASE WritePartial \/ RefusePartial
  <2>1. jobs' = jobs
    BY <1>2 DEF WritePartial, RefusePartial
  <2> QED BY <1>1, <2>1 DEF Announced
<1>3. CASE RenamePartial
  <2>1. ~Idle /\ jobs' = [jobs EXCEPT ![pend.id] = pend.rec] /\ jobs \in [JobIds -> JobRec]
    BY <1>3 DEF RenamePartial, JobInv, FilesSound
  <2>2. Warns(jobs'[j])
    BY <1>1, <2>1 DEF WarningsStay
  <2> QED BY <2>2 DEF Announced
<1> QED BY <1>2, <1>3 DEF JobFileStep

(* A pending warning is announced when its write is over.                 *)
LEMMA WarningWritten ==
  ASSUME JobInv, RenamePartial, WarningPending PROVE Announced'
<1>1. /\ pend.id \in JobIds /\ jobs' = [jobs EXCEPT ![pend.id] = pend.rec]
      /\ jobs \in [JobIds -> JobRec] /\ Warns(pend.rec)
  BY DEF RenamePartial, JobInv, FilesSound, WarningPending
<1>2. Warns(jobs'[pend.id])
  BY <1>1
<1> QED BY <1>1, <1>2 DEF Announced

(* A job is written with the warning it has.                              *)
LEMMA WarningCopied ==
  ASSUME JobInv, Idle, jobs' = jobs, NEW j \in JobIds, NEW r,
         Persist(j, r) \/ PersistUpdate(j, r), Warns(jobs[j]) => Warns(r)
  PROVE  WarningsStay'
<1>1. Idle' \/ (pend'.id = j /\ pend'.rec = r)
  BY PersistIsWrite DEF PersistUpdate, Idle
<1> QED BY <1>1 DEF WarningsStay

(* Every record that is written keeps the warning of the one it replaces. *)
LEMMA WarningsStep ==
  ASSUME JobInv, WarningsStay, [Next]_vars PROVE WarningsStay'
<1>1. ASSUME UNCHANGED <<jobs, pend>> PROVE WarningsStay'
  BY <1>1 DEF WarningsStay, Idle
<1>2. ASSUME Idle' PROVE WarningsStay'
  BY <1>2 DEF WarningsStay
<1>3. ASSUME NEW j \in JobIds, NEW r, FreshId(j), Persist(j, r), jobs' = jobs PROVE WarningsStay'
  <2>1. ~Warns(jobs[j])
    BY <1>3 DEF FreshId, JobInv, FilesSound, Warns
  <2>2. pend'.id = j
    BY <1>3, PersistIsWrite
  <2> QED BY <1>3, <2>1, <2>2 DEF WarningsStay
<1>4. ASSUME NEW j \in JobIds PROVE jobs[j] \in JobRec
  BY DEF JobInv, FilesSound
<1>5. CASE JobFileStep
  <2>1. CASE WritePartial
    <3>1. jobs' = jobs /\ pend'.id = pend.id /\ pend'.rec = pend.rec /\ ~Idle
      BY <2>1 DEF WritePartial, JobInv, FilesSound
    <3> QED BY <3>1 DEF WarningsStay
  <2>2. CASE RefusePartial \/ RenamePartial
    BY <1>2, <2>2 DEF RefusePartial, RenamePartial, Idle
  <2> QED BY <1>5, <2>1, <2>2 DEF JobFileStep
<1>6. CASE BeginBackup \/ RunCliRestore \/ \E w \in Writers : StartRestore(w)
  BY <1>3, <1>6 DEF BeginBackup, RunCliRestore, StartRestore
<1>7. ASSUME NEW w \in Writers, Request(w) PROVE WarningsStay'
  BY <1>1, <1>6, <1>7
     DEF Request, AppBeginWrite, AppEndWrite, StartManualBackup, DeleteBackup, fileVars
<1>8. CASE CheckScheduledBackup \/ StartScheduledBackup
  BY <1>1, <1>6, <1>8 DEF CheckScheduledBackup, StartScheduledBackup, fileVars
<1>9. CASE AbandonStart \/ Release
  BY <1>1, <1>9 DEF AbandonStart, Release, fileVars
<1>10. CASE Launch \/ DumpDatabase
  <2>1. /\ Idle /\ jobs' = jobs /\ job \in JobIds
        /\ \/ Persist(job, [jobs[job] EXCEPT !.state = "running", !.phase = FirstPhase])
           \/ Persist(job, [jobs[job] EXCEPT !.state = "succeeded", !.phase = "complete"])
           \/ Persist(job, [jobs[job] EXCEPT !.state = "failed"])
    BY <1>10 DEF Launch, DumpDatabase, JobInv, OperationHasJob
  <2>2. /\ Warns(jobs[job]) => Warns([jobs[job] EXCEPT !.state = "running", !.phase = FirstPhase])
        /\ Warns(jobs[job]) => Warns([jobs[job] EXCEPT !.state = "succeeded", !.phase = "complete"])
        /\ Warns(jobs[job]) => Warns([jobs[job] EXCEPT !.state = "failed"])
    BY <1>4, <2>1 DEF Warns, JobRec
  <2> QED BY <2>1, <2>2, WarningCopied
<1>11. CASE RecoverJob
  <2>1. PICK j \in Interrupted : Persist(j, Recovered(jobs[j])) /\ Idle /\ jobs' = jobs
    BY <1>11 DEF RecoverJob
  <2>2. j \in JobIds /\ (Warns(jobs[j]) => Warns(Recovered(jobs[j])))
    BY <1>4 DEF Warns, Recovered, JobRec, Interrupted
  <2> QED BY <2>1, <2>2, WarningCopied
<1>12. CASE NextRecovery \/ RecoveryFails \/ AfterRecovery \/ RaiseGate \/ FinishStartup
            \/ StartApi \/ StartCli
  BY <1>1, <1>12 DEF NextRecovery, RecoveryFails, AfterRecovery, RaiseGate, FinishStartup,
                     StartApi, StartCli, fileVars
<1>13. CASE ApiDies \/ CliDies
  BY <1>2, <1>13 DEF ApiDies, CliDies, OperationDies, Idle
<1>14. CASE RunRestore
  <2>1. Idle /\ jobs' = jobs /\ job \in JobIds /\ owner = "restore"
    BY <1>14 DEF RunRestore, EnterGate, FinishDrain, DrainTimesOut, ValidateSelected, SavePreJob,
         PreRestoreDump, FailPreRestore, FinishPreRestore, BuildStaging, NextPhase, SwapIn,
         VerifyActive, Reschedule, RemoveRetained, SwapBack, VerifyOriginal,
         RescheduleOriginal, DropStaging, ReopenGate, At, runUnchanged, JobInv, OperationHasJob
  <2>2. ASSUME NEW p, Announce(p) \/ Fail(p) PROVE WarningsStay'
    <3>1. /\ Warns(jobs[job]) => Warns([jobs[job] EXCEPT !.phase = p])
          /\ Warns(jobs[job]) => Warns([jobs[job] EXCEPT !.state = "failed", !.phase = p])
      BY <1>4, <2>1 DEF Warns, JobRec
    <3> QED BY <2>1, <2>2, <3>1, WarningCopied DEF Announce, Fail
  <2>3. CASE FailUncertain
    <3>1. Warns(jobs[job]) => Warns([jobs[job] EXCEPT !.state = "failed", !.phase = failedAt,
                                                      !.warned = TRUE])
      BY <1>4, <2>1 DEF Warns, JobRec
    <3> QED BY <2>1, <2>3, <3>1, WarningCopied DEF FailUncertain
  <2>4. CASE DrainTimesOut
    <3>1. Warns(jobs[job]) => Warns([jobs[job] EXCEPT !.state = "failed", !.phase = "entering"])
      BY <1>4, <2>1 DEF Warns, JobRec
    <3> QED BY <2>1, <2>4, <3>1, WarningCopied DEF DrainTimesOut
  <2>5. CASE SavePreJob
    BY <1>3, <2>5 DEF SavePreJob, runUnchanged
  <2>6. CASE PreRestoreDump
    <3>1. pre \in JobIds
      BY <2>1, <2>6 DEF PreRestoreDump, At, JobInv, OperationHasJob, PreStages
    <3>2. /\ Warns(jobs[pre]) => Warns([jobs[pre] EXCEPT !.state = "succeeded", !.phase = "complete"])
          /\ Warns(jobs[pre]) => Warns([jobs[pre] EXCEPT !.state = "failed"])
      BY <1>4, <3>1 DEF Warns, JobRec
    <3> QED BY <2>1, <2>6, <3>1, <3>2, WarningCopied DEF PreRestoreDump
  <2>7. CASE RemoveRetained
    <3>1. Warns(jobs[job]) => Warns([jobs[job] EXCEPT !.state = "succeeded", !.phase = "complete"])
      BY <1>4, <2>1 DEF Warns, JobRec
    <3> QED BY <2>1, <2>7, <3>1, WarningCopied DEF RemoveRetained
  <2>8. CASE FinishDrain \/ ValidateSelected \/ FailPreRestore \/ FinishPreRestore \/ BuildStaging
    BY <2>2, <2>8 DEF FinishDrain, ValidateSelected, FailPreRestore, FinishPreRestore, BuildStaging
  <2>9. CASE SwapIn \/ VerifyActive \/ Reschedule
    BY <2>2, <2>9 DEF SwapIn, VerifyActive, Reschedule, StartRollback
  <2>10. CASE SwapBack \/ VerifyOriginal \/ RescheduleOriginal
    BY <1>1, <2>1, <2>2, <2>3, <2>10 DEF SwapBack, VerifyOriginal, RescheduleOriginal
  <2>11. CASE EnterGate \/ DropStaging \/ ReopenGate
    BY <1>1, <2>1, <2>11 DEF EnterGate, DropStaging, ReopenGate
  <2> QED BY <1>14, <2>4, <2>5, <2>6, <2>7, <2>8, <2>9, <2>10, <2>11 DEF RunRestore
<1>15. CASE UNCHANGED vars
  BY <1>1, <1>15 DEF vars, fileVars
<1> QED BY <1>5, <1>6, <1>7, <1>8, <1>9, <1>10, <1>11, <1>12, <1>13, <1>14, <1>15
        DEF Next, Operation, Startup

(* A restore releases the lock behind an open gate, or with a warning.    *)
LEMMA RestoreEnds ==
  ASSUME RunRestore
  PROVE  /\ stage' # "saving"
         /\ host = "api" /\ stage' = "release" => ~maintenance' \/ FailUncertain
<1>1. CASE EnterGate \/ FinishDrain \/ DrainTimesOut \/ ReopenGate
  BY <1>1 DEF EnterGate, FinishDrain, DrainTimesOut, ReopenGate, ExitMaintenance, Announce
<1>2. CASE ValidateSelected \/ SavePreJob \/ PreRestoreDump \/ FailPreRestore \/ FinishPreRestore
  BY <1>2 DEF ValidateSelected, SavePreJob, PreRestoreDump, FailPreRestore, FinishPreRestore,
              Announce, Fail
<1>3. CASE BuildStaging
  BY <1>3 DEF BuildStaging, NextPhase, Announce, Fail
<1>4. CASE SwapIn \/ VerifyActive \/ Reschedule \/ RemoveRetained
  BY <1>4 DEF SwapIn, VerifyActive, Reschedule, RemoveRetained, StartRollback, Announce, Fail
<1>5. CASE FailUncertain
  BY <1>5 DEF FailUncertain
<1>6. CASE (SwapBack \/ VerifyOriginal \/ RescheduleOriginal \/ DropStaging) /\ ~FailUncertain
  BY <1>6 DEF SwapBack, VerifyOriginal, RescheduleOriginal, DropStaging, Fail
<1> QED BY <1>1, <1>2, <1>3, <1>4, <1>5, <1>6 DEF RunRestore

(* The warnings that a lockout waits for are in place, or their write is  *)
(* under way and cannot be refused.                                       *)
LEMMA AnnouncedStep ==
  ASSUME JobInv, StartupHolds, LockoutInv, WarningsStay, JobIsWritten, ~May("persist"),
         UncertainIsAnnounced, ShutIsAnnounced, [Next]_vars
  PROVE  UncertainIsAnnounced' /\ ShutIsAnnounced'
<1> USE DEF UncertainIsAnnounced, ShutIsAnnounced, Restoring
<1>1. ASSUME UNCHANGED <<opVars, fileVars, uncertain, maintenance>>, api' = api
      PROVE  UncertainIsAnnounced' /\ ShutIsAnnounced'
  BY <1>1 DEF opVars, fileVars, Announced, WarningPending, Idle
<1>2. ASSUME UNCHANGED jobs PROVE Announced' = Announced
  BY <1>2 DEF Announced
<1>3. CASE JobFileStep
  <2>0. UNCHANGED <<gateVars, opVars, dbVars, procVars>>
    BY <1>3, JobFilesOnly
  <2>1. CASE WritePartial
    <3>1. jobs' = jobs /\ pend'.id = pend.id /\ pend'.rec = pend.rec /\ ~Idle /\ ~Idle'
          /\ UNCHANGED perr
      BY <2>1 DEF WritePartial, JobInv, FilesSound, Idle, NoWrite
    <3> QED BY <1>2, <2>0, <3>1 DEF WarningPending, gateVars, opVars, procVars
  <2>2. CASE RefusePartial
    <3>1. jobs' = jobs /\ perr' /\ Idle' /\ pend.id \in partial /\ ~pend.written
      BY <2>2 DEF RefusePartial, Idle
    <3>2. ~(owner = "restore" /\ pend.id = job)
      BY <3>1 DEF JobIsWritten
    <3> QED BY <1>2, <2>0, <3>1, <3>2 DEF gateVars, opVars, procVars
  <2>3. CASE RenamePartial
    <3>1. WarningPending => Announced'
      BY <2>3, WarningWritten
    <3>2. Announced => Announced'
      BY <1>3, WarningsKept
    <3>3. ~Idle
      BY <2>3 DEF RenamePartial
    <3> QED BY <2>0, <3>1, <3>2, <3>3 DEF gateVars, opVars, procVars
  <2> QED BY <1>3, <2>1, <2>2, <2>3 DEF JobFileStep
<1>4. CASE RecoverJob
  <2>1. PICK j \in Interrupted : /\ uncertain' = (uncertain \/ IsDestructive(jobs[j]))
                                 /\ Persist(j, Recovered(jobs[j]))
    BY <1>4 DEF RecoverJob
  <2>2. jobs' = jobs /\ stage = "recover" /\ stage' = "recovering" /\ api' = api /\ owner = "startup"
    BY <1>4 DEF RecoverJob, StartupHolds
  <2>3. j \in JobIds /\ jobs[j] \in JobRec
    BY DEF Interrupted, JobInv, FilesSound
  <2>4. IsDestructive(jobs[j]) => Warns(Recovered(jobs[j]))
    BY <2>3 DEF IsDestructive, Warns, Recovered, JobRec
  <2>5. IsDestructive(jobs[j]) => WarningPending'
    BY <2>1, <2>3, <2>4, PersistIsWrite DEF WarningPending
  <2> QED BY <1>2, <2>1, <2>2, <2>5 DEF LockoutInv, ApiIsUp
<1>5. CASE NextRecovery \/ AfterRecovery \/ RaiseGate \/ StartApi \/ StartCli
  <2>1. /\ jobs' = jobs /\ owner' = "startup" /\ uncertain' = uncertain /\ api' # "ready"
        /\ stage = "recovering" => Idle /\ ~perr
        /\ uncertain => owner = "startup"
    BY <1>5 DEF NextRecovery, AfterRecovery, RaiseGate, StartApi, StartCli, StartupHolds, fileVars,
                procVars, LockoutInv, ApiIsUp, ShutWhenUncertain
  <2> QED BY <1>2, <2>1 DEF WarningPending
<1>6. CASE RecoveryFails \/ ApiDies \/ CliDies
  <2>1. ~uncertain' /\ (api' = "down" \/ UNCHANGED <<api, jobs>>)
    BY <1>6 DEF RecoveryFails, ApiDies, CliDies, OperationDies
  <2>2. CliDies => api' = "down"
    BY DEF CliDies, LockoutInv, ApiIsUp
  <2> QED BY <1>6, <2>1, <2>2 DEF RecoveryFails, ApiDies
<1>7. CASE FinishStartup
  <2>1. /\ stage = "clean" /\ ~uncertain' /\ jobs' = jobs /\ owner = "startup"
        /\ UNCHANGED maintenance
    BY <1>7 DEF FinishStartup, StartupHolds, gateVars
  <2> QED BY <1>2, <2>1 DEF LockoutInv, ShutWhenUncertain
<1>8. ASSUME jobs' = jobs, UNCHANGED <<uncertain, maintenance, api>>, ~uncertain,
             owner # "restore" \/ stage \in {"saving"}
      PROVE  UncertainIsAnnounced' /\ ShutIsAnnounced'
  BY <1>2, <1>8
<1>9. CASE BeginBackup /\ UNCHANGED <<uncertain, maintenance, api>>
  BY <1>8, <1>9 DEF BeginBackup, LockoutInv, ShutWhenUncertain
<1>10. CASE RunCliRestore \/ \E w \in Writers : StartRestore(w)
  BY <1>8, <1>10 DEF RunCliRestore, StartRestore, LockoutInv, ShutWhenUncertain, gateVars, procVars
<1>11. ASSUME NEW w \in Writers, Request(w) PROVE UncertainIsAnnounced' /\ ShutIsAnnounced'
  <2>1. CASE AppBeginWrite(w) \/ AppEndWrite(w) \/ DeleteBackup(w)
    BY <1>1, <2>1 DEF AppBeginWrite, AppEndWrite, BeginWrite, EndWrite, DeleteBackup, gateVars,
                      procVars
  <2>2. CASE StartManualBackup(w)
    BY <1>9, <2>2 DEF StartManualBackup, BeginBackup, gateVars, procVars
  <2> QED BY <1>10, <1>11, <2>1, <2>2 DEF Request
<1>12. CASE CheckScheduledBackup \/ StartScheduledBackup
  BY <1>1, <1>9, <1>12 DEF CheckScheduledBackup, StartScheduledBackup, BeginBackup, gateVars
<1>13. CASE AbandonStart \/ Launch \/ DumpDatabase \/ Release
  <2>1. /\ jobs' = jobs /\ UNCHANGED <<uncertain, maintenance, api>> /\ Idle
        /\ stage \in {"saving", "release", "dumping"}
    BY <1>13 DEF AbandonStart, Launch, DumpDatabase, Release, gateVars, procVars, fileVars
  <2>2. ~uncertain
    BY <2>1 DEF LockoutInv, ShutWhenUncertain
  <2>3. ShutIsAnnounced'
    BY <1>2, <1>13, <2>1 DEF AbandonStart, Launch, DumpDatabase, Release, WarningPending
  <2> QED BY <2>1, <2>2, <2>3
<1>14. CASE RunRestore
  <2>0. /\ owner = "restore" /\ owner' = owner /\ Idle /\ stage \notin {"saving", "release"}
        /\ UNCHANGED <<host, job, jobs, uncertain, api>> /\ job \in JobIds
    BY <1>14 DEF RunRestore, EnterGate, FinishDrain, DrainTimesOut, ValidateSelected, SavePreJob,
         PreRestoreDump, FailPreRestore, FinishPreRestore, BuildStaging, NextPhase, SwapIn,
         VerifyActive, Reschedule, RemoveRetained, SwapBack, VerifyOriginal,
         RescheduleOriginal, DropStaging, ReopenGate, At, runUnchanged, procVars, JobInv,
         OperationHasJob
  <2>1. ~uncertain'
    BY <2>0 DEF LockoutInv, ShutWhenUncertain
  <2>2. host = "api" /\ stage' = "release" => ~maintenance' \/ FailUncertain
    BY <1>14, RestoreEnds
  <2>3. stage' # "saving"
    BY <1>14, RestoreEnds
  <2>4. ASSUME FailUncertain PROVE WarningPending' /\ pend'.id = job
    <3>1. Warns([jobs[job] EXCEPT !.state = "failed", !.phase = failedAt, !.warned = TRUE])
      BY <2>0 DEF Warns, JobInv, FilesSound, JobRec, JobIsWritten, Effective
    <3>2. Persist(job, [jobs[job] EXCEPT !.state = "failed", !.phase = failedAt, !.warned = TRUE])
      BY <2>0, <2>4 DEF FailUncertain, PersistUpdate, JobIsWritten
    <3> QED BY <2>0, <3>1, <3>2, PersistIsWrite DEF WarningPending
  <2>5. CASE host = "api"
    BY <2>0, <2>1, <2>2, <2>3, <2>4, <2>5
  <2>6. CASE host # "api"
    BY <2>0, <2>1, <2>6 DEF LockoutInv, ApiIsUp
  <2> QED BY <2>5, <2>6
<1>15. CASE UNCHANGED vars
  BY <1>1, <1>15 DEF vars, gateVars, procVars
<1> QED BY <1>3, <1>4, <1>5, <1>6, <1>7, <1>9, <1>10, <1>11, <1>12, <1>13, <1>14, <1>15
        DEF Next, Operation, Startup

(* A gate that is left shut after an operation or a start-up goes with a  *)
(* warning in a job, as long as job files can be written.                 *)
THEOREM LockoutsAreAnnounced == Spec => []LockoutIsAnnounced
<1> DEFINE Inv == /\ LockoutInv /\ WarningsStay
                  /\ ~May("persist") => /\ JobIsWritten
                                        /\ UncertainIsAnnounced /\ ShutIsAnnounced
<1>1. Init => Inv
  BY DEF Init, GateInit, LockoutInv, ApiIsUp, ShutWhenUncertain, WarningsStay, Idle,
         JobIsWritten, UncertainIsAnnounced, ShutIsAnnounced
<1>2. JobInv /\ ShutInv /\ Inv /\ [Next]_vars => Inv'
  BY LockoutStep, WarningsStep, WrittenStep, AnnouncedStep, ScenarioStays DEF ShutInv, May
<1>3. Inv => LockoutIsAnnounced
  BY DEF LockoutIsAnnounced, ShutIsAnnounced, Restoring, Announced, Warns
<1> HIDE DEF Inv
<1> QED BY <1>1, <1>2, <1>3, JobFilesAreSound, PTL DEF Spec

-----------------------------------------------------------------------------
(* Type correctness.  The gate and the job files have their own           *)
(* invariants; what is left is the state of the operation and the         *)
(* databases.                                                             *)
OperationTypes ==
  /\ api \in {"down", "starting", "ready"}
  /\ owner \in {"none", "startup", "restore", "backup"} /\ host \in {"none", "api", "cli"}
  /\ stage \in Stages
  /\ job \in 0 .. MaxJobs /\ pre \in 0 .. MaxJobs /\ preSet \in Contents
  /\ staged \in BOOLEAN /\ starter \in SUBSET Writers /\ sched \in {"idle", "checked"}

ResourceTypes ==
  /\ partial \in SUBSET JobIds /\ perr \in BOOLEAN
  /\ uncertain \in BOOLEAN /\ cliFailed \in BOOLEAN
  /\ scenario \in Scenarios /\ crashes \in 0 .. scenario.deaths
  /\ current \in Contents /\ retained \in SUBSET Contents /\ backups \in SUBSET Contents
  /\ trusted \in BOOLEAN /\ lastGood \in Contents

(* Restore jobs number the contents they build.                           *)
LEMMA JobsAreContents == JobIds \subseteq 0 .. MaxJobs /\ Contents = 0 .. MaxJobs /\ 0 \in 0 .. MaxJobs
  BY ServiceAssumption DEF JobIds, Contents

(* Every step keeps the state of the operation in its type.               *)
LEMMA OperationTyped ==
  ASSUME JobInv, ResourceTypes, OperationTypes, [Next]_vars PROVE OperationTypes'
<1> USE JobsAreContents DEF OperationTypes
<1>1. ASSUME NEW w \in Writers, Request(w) PROVE OperationTypes'
  BY <1>1 DEF Request, AppBeginWrite, AppEndWrite, StartRestore, StartManualBackup, BeginBackup,
              DeleteBackup, opVars, procVars, Stages
<1>2. CASE CheckScheduledBackup \/ StartScheduledBackup
  BY <1>2 DEF CheckScheduledBackup, StartScheduledBackup, BeginBackup, opVars, Stages
<1>3. CASE JobFileStep
  BY <1>3, JobFilesOnly DEF opVars, procVars
<1>4. CASE AbandonStart \/ Launch \/ DumpDatabase \/ Release
  BY <1>4 DEF AbandonStart, Launch, DumpDatabase, Release, NoJob, procVars, Stages, Phases
<1>5. CASE RunRestore
  <2> USE DEF At, runUnchanged, procVars, Announce, Fail, Stages, Phases, Destructive
  <2>1. CASE EnterGate \/ FinishDrain \/ DrainTimesOut \/ ReopenGate
    BY <2>1 DEF EnterGate, FinishDrain, DrainTimesOut, ReopenGate
  <2>2. CASE ValidateSelected \/ FailPreRestore \/ FinishPreRestore
    BY <2>2 DEF ValidateSelected, FailPreRestore, FinishPreRestore
  <2>3. CASE SavePreJob \/ PreRestoreDump
    BY <2>3 DEF SavePreJob, PreRestoreDump, ResourceTypes
  <2>4. CASE BuildStaging
    <3>1. PICK p \in DOMAIN NextPhase : Announce(NextPhase[p]) \/ Fail(p)
      BY <2>4 DEF BuildStaging
    <3>2. NextPhase[p] \in {"restoring", "migrating", "verifying", "swapping"}
      BY DEF NextPhase
    <3>3. stage' \in {"restoring", "migrating", "verifying", "swapping", "unstage"}
      BY <3>1, <3>2
    <3>4. /\ staged' \in BOOLEAN
          /\ UNCHANGED <<api, owner, host, job, pre, preSet, starter, sched>>
      BY <2>4 DEF BuildStaging
    <3> QED BY <3>3, <3>4
  <2>5. CASE SwapIn \/ VerifyActive \/ Reschedule \/ RemoveRetained
    BY <2>5 DEF SwapIn, VerifyActive, Reschedule, RemoveRetained, StartRollback
  <2>6. CASE SwapBack \/ VerifyOriginal \/ RescheduleOriginal \/ DropStaging
    BY <2>6 DEF SwapBack, VerifyOriginal, RescheduleOriginal, DropStaging, FailUncertain
  <2> QED BY <1>5, <2>1, <2>2, <2>3, <2>4, <2>5, <2>6 DEF RunRestore
<1>6. CASE RecoverJob \/ NextRecovery \/ RecoveryFails \/ AfterRecovery
  BY <1>6 DEF RecoverJob, NextRecovery, RecoveryFails, AfterRecovery, procVars, Stages
<1>7. CASE RaiseGate \/ FinishStartup \/ RunCliRestore
  BY <1>7 DEF RaiseGate, FinishStartup, RunCliRestore, procVars, Stages
<1>8. CASE StartApi \/ StartCli \/ ApiDies \/ CliDies
  BY <1>8 DEF StartApi, StartCli, ApiDies, CliDies, OperationDies, NoJob, procVars, Stages
<1>9. CASE UNCHANGED vars
  BY <1>9 DEF vars, opVars, procVars
<1> QED
  BY <1>1, <1>2, <1>3, <1>4, <1>5, <1>6, <1>7, <1>8, <1>9 DEF Next, Operation, Startup

(* Every step keeps files, databases and bounds in their types.           *)
LEMMA ResourcesTyped ==
  ASSUME JobInv, OperationTypes, ResourceTypes, [Next]_vars PROVE ResourceTypes'
<1> USE JobsAreContents DEF ResourceTypes
<1>1. ASSUME NEW w \in Writers, Request(w) PROVE ResourceTypes'
  BY <1>1 DEF Request, AppBeginWrite, AppEndWrite, StartRestore, StartManualBackup, BeginBackup,
              DeleteBackup, fileVars, dbVars, procVars
<1>2. CASE CheckScheduledBackup \/ StartScheduledBackup
  BY <1>2 DEF CheckScheduledBackup, StartScheduledBackup, BeginBackup, fileVars, dbVars
<1>3. CASE JobFileStep
  <2>1. UNCHANGED <<dbVars, procVars>> /\ perr' \in BOOLEAN /\ partial' \in SUBSET JobIds
    BY <1>3 DEF JobFileStep, WritePartial, RefusePartial, RenamePartial, JobInv, FilesSound
  <2> QED BY <2>1 DEF dbVars, procVars
<1>4. CASE AbandonStart \/ Launch \/ DumpDatabase \/ Release
  BY <1>4 DEF AbandonStart, Launch, DumpDatabase, Release, fileVars, dbVars, procVars
<1>5. CASE RunRestore
  <2> USE DEF At, runUnchanged, procVars, dbVars
  <2>0. owner = "restore" /\ job \in JobIds /\ preSet \in Contents
    BY <1>5 DEF RunRestore, EnterGate, FinishDrain, DrainTimesOut, ValidateSelected, SavePreJob,
       PreRestoreDump, FailPreRestore, FinishPreRestore, BuildStaging, NextPhase, SwapIn,
       VerifyActive, Reschedule, RemoveRetained, SwapBack, VerifyOriginal,
       RescheduleOriginal, DropStaging, ReopenGate, JobInv, OperationHasJob, OperationTypes
  <2>1. CASE EnterGate \/ FinishDrain \/ DrainTimesOut \/ ReopenGate
    BY <2>1 DEF EnterGate, FinishDrain, DrainTimesOut, ReopenGate
  <2>2. CASE ValidateSelected \/ SavePreJob \/ FailPreRestore \/ FinishPreRestore
    BY <2>2 DEF ValidateSelected, SavePreJob, FailPreRestore, FinishPreRestore
  <2>3. CASE PreRestoreDump
    BY <2>3 DEF PreRestoreDump
  <2>4. CASE BuildStaging
    BY <2>4 DEF BuildStaging
  <2>5. CASE SwapIn \/ VerifyActive \/ Reschedule \/ RemoveRetained
    BY <2>0, <2>5 DEF SwapIn, RenameIn, VerifyActive, Reschedule, RemoveRetained
  <2>6. CASE SwapBack \/ VerifyOriginal \/ RescheduleOriginal \/ DropStaging
    BY <2>0, <2>6 DEF SwapBack, RenameBack, VerifyOriginal, RescheduleOriginal, DropStaging
  <2> QED BY <1>5, <2>1, <2>2, <2>3, <2>4, <2>5, <2>6 DEF RunRestore
<1>6. CASE RecoverJob
  <2>1. PICK j \in Interrupted : uncertain' = (uncertain \/ IsDestructive(jobs[j]))
    BY <1>6 DEF RecoverJob
  <2>2. UNCHANGED <<partial, perr, cliFailed, scenario, crashes, dbVars>>
    BY <1>6 DEF RecoverJob
  <2> QED BY <2>1, <2>2 DEF dbVars
<1>7. CASE NextRecovery \/ RecoveryFails \/ AfterRecovery \/ RaiseGate \/ FinishStartup
           \/ RunCliRestore
  BY <1>7 DEF NextRecovery, RecoveryFails, AfterRecovery, RaiseGate, FinishStartup,
              RunCliRestore, fileVars, dbVars, procVars
<1>8. CASE StartApi \/ StartCli
  BY <1>8 DEF StartApi, StartCli, fileVars, dbVars, procVars
<1>9. CASE ApiDies \/ CliDies
  <2>1. scenario.deaths \in Nat
    BY ServiceAssumption
  <2>2. crashes' \in 0 .. scenario'.deaths /\ scenario' = scenario
    BY <1>9, <2>1 DEF ApiDies, CliDies
  <2>3. /\ UNCHANGED <<partial, perr, dbVars>> /\ uncertain' = FALSE /\ cliFailed' \in BOOLEAN
    BY <1>9 DEF ApiDies, CliDies, OperationDies
  <2> QED BY <2>2, <2>3 DEF dbVars
<1>10. CASE UNCHANGED vars
  BY <1>10 DEF vars, fileVars, dbVars, procVars
<1> QED
  BY <1>1, <1>2, <1>3, <1>4, <1>5, <1>6, <1>7, <1>8, <1>9, <1>10 DEF Next, Operation, Startup

(* The service stays in its types, with any fault and any number of       *)
(* writers, jobs and deaths.                                              *)
THEOREM ServiceTypes == Spec => []TypeOK
<1>1. Init => OperationTypes /\ ResourceTypes
  <2> SUFFICES ASSUME Init PROVE OperationTypes /\ ResourceTypes
    OBVIOUS
  <2>1. scenario.deaths \in Nat
    BY ServiceAssumption DEF Init
  <2>2. scenario \in Scenarios /\ crashes \in 0 .. scenario.deaths
    BY <2>1 DEF Init
  <2>3. /\ current \in Contents /\ lastGood \in Contents
        /\ retained \in SUBSET Contents /\ backups \in SUBSET Contents
    BY JobsAreContents DEF Init
  <2>4. ResourceTypes
    BY <2>2, <2>3 DEF Init, ResourceTypes
  <2> QED BY <2>4, JobsAreContents DEF Init, OperationTypes, NoJob, Stages
<1>2. JobInv /\ OperationTypes /\ ResourceTypes /\ [Next]_vars => (OperationTypes /\ ResourceTypes)'
  BY OperationTyped, ResourcesTyped
<1>3. GateInv /\ JobInv /\ OperationTypes /\ ResourceTypes => TypeOK
  BY DEF GateInv, JobInv, FilesSound, OperationHasJob, OperationTypes, ResourceTypes, TypeOK
<1>4. Spec => []GateInv
  BY ServiceUsesGate, GateInvariant, PTL DEF UsesGate
<1> QED BY <1>1, <1>2, <1>3, <1>4, JobFilesAreSound, PTL DEF Spec
-----------------------------------------------------------------------------
(* The inductive reason why only a validated database is served: a        *)
(* database that has not passed its checks since it was activated is      *)
(* behind a shut gate, behind a recovery command that has not succeeded,  *)
(* or behind a job that makes the next start-up shut the gate or fail.    *)

\* No false COMMIT error; and no death, or one at most among faults that leave
\* the job file of the restore in place and its rollback complete.
FewFaults == /\ ~May("commit")
             /\ \/ scenario.deaths = 0
                \/ scenario.deaths = 1 /\ ~May("rollback") /\ ~May("persist")

Unsettled == {"active", "rollingback", "rbverify"}
Recovery  == {"recover", "recovering", "raise", "raising", "clean"}

\* A restore has its job on disk once its request or command has gone on.
SavedJob ==
  owner = "restore" =>
    /\ stage = "saving" =>
         IF Idle THEN perr \/ jobs[job].kind = "restore"
         ELSE pend.id = job /\ pend.rec.kind = "restore"
    /\ stage # "saving" => jobs[job].kind = "restore"
    /\ ~Idle /\ pend.id = job => pend.rec.kind = "restore"

SuccessIsLast ==
  /\ owner = "restore"
  /\ jobs[job].state = "succeeded" \/ (~Idle /\ pend.id = job /\ pend.rec.state = "succeeded")
  => stage \in {"exitgate", "release"} /\ trusted

\* What recovery takes for a restore that may have replaced the database.
Marked(rec) == rec.kind = "restore" /\ rec.state \in Running /\ rec.phase \in Destructive

SwapIsMarked ==
  owner = "restore" /\ stage \in Unsettled \cup {"rescheduling"} =>
    Marked(jobs[job]) /\ (~Idle /\ pend.id = job => Marked(pend.rec))

\* What a step of runRestoreJob may write to its own job.
JobWrote ==
  \/ Idle' \/ pend'.id # job
  \/ /\ pend'.rec.kind = "restore"
     /\ \/ pend'.rec.state = jobs[job].state /\ pend'.rec.phase = stage'
        \/ pend'.rec.state = "failed" /\ stage' \in Ended
        \/ stage = "removing"

\* How it moves through the end of the restore.
LateMoves ==
  /\ stage' \notin {"saving", "recovering"}
  /\ stage \in {"exitgate", "removing"} => trusted' = trusted /\ stage' \in {"exitgate", "release"}
  /\ stage = "exitgate" \/ stage' = "rbverify" => Idle'
  /\ stage' \in Unsettled \cup {"rescheduling"} =>
       stage \in Unsettled \cup {"rescheduling", "swapping"}

(* What a step of runRestoreJob does to the files of its job.             *)
LEMMA RestoreWrites ==
  ASSUME JobInv, SavedJob, RunRestore
  PROVE  /\ owner = "restore" /\ Idle /\ job \in JobIds /\ jobs[job].kind = "restore"
         /\ UNCHANGED <<owner, host, job, jobs, perr, procVars>>
         /\ stage \notin {"saving", "release"}
         /\ JobWrote /\ LateMoves
<1> USE DEF At, runUnchanged
<1>0. /\ owner = "restore" /\ Idle /\ job \in JobIds /\ stage \notin {"saving", "release"}
      /\ UNCHANGED <<owner, host, job, jobs, perr, procVars>>
  BY DEF RunRestore, EnterGate, FinishDrain, DrainTimesOut, ValidateSelected, SavePreJob,
         PreRestoreDump, FailPreRestore, FinishPreRestore, BuildStaging, NextPhase, SwapIn,
         VerifyActive, Reschedule, RemoveRetained, SwapBack, VerifyOriginal,
         RescheduleOriginal, DropStaging, ReopenGate, JobInv, OperationHasJob
<1>1. jobs[job].kind = "restore" /\ jobs[job] \in JobRec
  BY <1>0 DEF SavedJob, JobInv, FilesSound
<1> SUFFICES JobWrote /\ LateMoves
  BY <1>0, <1>1
<1>2. ASSUME NEW r, PersistUpdate(job, r) PROVE Idle' \/ (pend'.id = job /\ pend'.rec = r)
  BY <1>0, <1>2, PersistIsWrite DEF PersistUpdate, Idle
<1>3. ASSUME NEW p, Announce(p) PROVE JobWrote /\ stage' = p
  <2> DEFINE r == [jobs[job] EXCEPT !.phase = p]
  <2>1. PersistUpdate(job, r) /\ stage' = p
    BY <1>3 DEF Announce
  <2>2. r.kind = "restore" /\ r.state = jobs[job].state /\ r.phase = p
    BY <1>1 DEF JobRec
  <2> HIDE DEF r
  <2> QED BY <1>2, <2>1, <2>2 DEF JobWrote
<1>4. ASSUME NEW p, Fail(p) PROVE JobWrote /\ stage' = "unstage"
  <2> DEFINE r == [jobs[job] EXCEPT !.state = "failed", !.phase = p]
  <2>1. PersistUpdate(job, r) /\ stage' = "unstage"
    BY <1>4 DEF Fail
  <2>2. r.kind = "restore" /\ r.state = "failed"
    BY <1>1 DEF JobRec
  <2> HIDE DEF r
  <2> QED BY <1>2, <2>1, <2>2 DEF Ended, JobWrote
<1>5. ASSUME FailUncertain PROVE JobWrote /\ stage' = "release"
  <2> DEFINE r == [jobs[job] EXCEPT !.state = "failed", !.phase = failedAt, !.warned = TRUE]
  <2>1. PersistUpdate(job, r) /\ stage' = "release"
    BY <1>5 DEF FailUncertain
  <2>2. r.kind = "restore" /\ r.state = "failed"
    BY <1>1 DEF JobRec
  <2> HIDE DEF r
  <2> QED BY <1>2, <2>1, <2>2 DEF Ended, JobWrote
<1>6. ASSUME UNCHANGED pend PROVE JobWrote /\ Idle'
  BY <1>0, <1>6 DEF Idle, JobWrote
<1> USE DEF Unsettled, LateMoves
<1>7. CASE EnterGate \/ DropStaging \/ ReopenGate
  <2>1. /\ UNCHANGED <<pend, trusted>> /\ stage' \in {"draining", "exitgate", "release"}
        /\ stage = "exitgate" => stage' = "release"
        /\ stage # "removing"
    BY <1>7 DEF EnterGate, DropStaging, ReopenGate, dbVars
  <2> QED BY <1>6, <2>1
<1>8. CASE FinishDrain \/ ValidateSelected \/ FailPreRestore \/ FinishPreRestore
  <2>1. /\ \/ Announce("validating") \/ Announce("prebackup") \/ Announce("creating")
           \/ Fail("validating") \/ Fail("prebackup")
        /\ stage \notin {"exitgate", "removing"}
    BY <1>8 DEF FinishDrain, ValidateSelected, FailPreRestore, FinishPreRestore
  <2>2. JobWrote /\ stage' \in {"validating", "prebackup", "creating", "unstage"}
    BY <1>3, <1>4, <2>1
  <2> QED BY <2>1, <2>2
<1>9. CASE DrainTimesOut
  <2> DEFINE r == [jobs[job] EXCEPT !.state = "failed", !.phase = "entering"]
  <2>1. PersistUpdate(job, r) /\ stage' = "release" /\ stage = "draining"
    BY <1>9 DEF DrainTimesOut
  <2>2. r.kind = "restore" /\ r.state = "failed"
    BY <1>1 DEF JobRec
  <2> HIDE DEF r
  <2>3. JobWrote
    BY <1>2, <2>1, <2>2 DEF Ended, JobWrote
  <2> QED BY <2>1, <2>3
<1>10. CASE SavePreJob
  <2>1. PICK j \in JobIds : FreshId(j) /\ Persist(j, [NewRec("backup") EXCEPT !.state = "running"])
    BY <1>10 DEF SavePreJob
  <2>2. jobs[j].kind = "none"
    BY <2>1 DEF FreshId, JobInv, FilesSound
  <2>3. JobWrote
    BY <1>1, <2>1, <2>2, PersistIsWrite DEF JobWrote
  <2>4. stage = "prebackup" /\ stage' = "predump"
    BY <1>10 DEF SavePreJob
  <2> QED BY <2>3, <2>4
<1>11. CASE PreRestoreDump
  <2>1. /\ pre \in JobIds /\ NoRestore(pre) /\ stage = "predump"
        /\ stage' \in {"predone", "prefailed"}
    BY <1>0, <1>11 DEF PreRestoreDump, JobInv, OperationHasJob, KindsAreKept, PreStages
  <2>2. pre # job
    BY <1>1, <2>1 DEF NoRestore
  <2> DEFINE r == [jobs[pre] EXCEPT !.state = "succeeded", !.phase = "complete"]
             q == [jobs[pre] EXCEPT !.state = "failed"]
  <2>3. PersistUpdate(pre, r) \/ PersistUpdate(pre, q)
    BY <1>11 DEF PreRestoreDump
  <2> HIDE DEF r, q
  <2>4. Idle' \/ pend'.id = pre
    BY <1>0, <2>1, <2>3, PersistIsWrite DEF PersistUpdate, Idle
  <2> QED BY <2>1, <2>2, <2>4 DEF JobWrote
<1>12. CASE BuildStaging
  <2>1. PICK p \in DOMAIN NextPhase : stage = p /\ (Announce(NextPhase[p]) \/ Fail(p))
    BY <1>12 DEF BuildStaging
  <2>2. /\ p \in {"creating", "restoring", "migrating", "verifying"}
        /\ NextPhase[p] \in {"restoring", "migrating", "verifying", "swapping"}
    BY DEF NextPhase
  <2>3. JobWrote /\ stage' \in {"restoring", "migrating", "verifying", "swapping", "unstage"}
    BY <1>3, <1>4, <2>1, <2>2
  <2> QED BY <2>1, <2>2, <2>3
<1>13. CASE SwapIn \/ VerifyActive \/ Reschedule
  <2>1. /\ stage \in {"swapping", "active", "rescheduling"}
        /\ \/ Announce("active") \/ Fail("swapping") \/ Announce("rescheduling")
           \/ Announce("removing") \/ Announce("rollingback")
    BY <1>13 DEF SwapIn, VerifyActive, Reschedule, StartRollback
  <2>2. JobWrote /\ stage' \in {"active", "rescheduling", "removing", "rollingback", "unstage"}
    BY <1>3, <1>4, <2>1
  <2> QED BY <2>1, <2>2
<1>14. CASE RemoveRetained
  <2> DEFINE r == [jobs[job] EXCEPT !.state = "succeeded", !.phase = "complete"]
  <2>1. PersistUpdate(job, r) /\ stage = "removing" /\ stage' = "exitgate" /\ trusted' = trusted
    BY <1>14 DEF RemoveRetained
  <2>2. r.kind = "restore"
    BY <1>1 DEF JobRec
  <2> HIDE DEF r
  <2>3. JobWrote
    BY <1>2, <2>1, <2>2 DEF JobWrote
  <2> QED BY <2>1, <2>3
<1>15. CASE SwapBack \/ VerifyOriginal
  <2>1. /\ stage \in {"rollingback", "rbverify"}
        /\ FailUncertain \/ (UNCHANGED pend /\ stage' \in {"rbverify", "rbresched"})
    BY <1>15 DEF SwapBack, VerifyOriginal
  <2> QED BY <1>5, <1>6, <2>1
<1>16. CASE RescheduleOriginal
  <2>1. stage = "rbresched" /\ (Fail(failedAt) \/ FailUncertain)
    BY <1>16 DEF RescheduleOriginal
  <2> QED BY <1>4, <1>5, <2>1
<1> QED BY <1>7, <1>8, <1>9, <1>10, <1>11, <1>12, <1>13, <1>14, <1>15, <1>16 DEF RunRestore

(* Every step keeps the job of a restore on disk.                         *)
LEMMA SavedStep ==
  ASSUME JobInv, StartupHolds, SavedJob, [Next]_vars PROVE SavedJob'
<1> USE DEF SavedJob
<1>1. ASSUME UNCHANGED <<opVars, jobs, pend, perr>> PROVE SavedJob'
  BY <1>1 DEF opVars, Idle
<1>2. ASSUME owner' # "restore" PROVE SavedJob'
  BY <1>2
<1>3. CASE BeginBackup \/ RunCliRestore \/ \E w \in Writers : StartRestore(w)
  <2>1. CASE BeginBackup
    BY <1>2, <2>1 DEF BeginBackup
  <2>2. CASE RunCliRestore \/ \E w \in Writers : StartRestore(w)
    <3>1. /\ owner' = "restore" /\ stage' = "saving"
          /\ \E j \in JobIds : job' = j /\ Persist(j, NewRec("restore"))
      BY <2>2 DEF RunCliRestore, StartRestore
    <3> QED BY <3>1, FreshRecord, PersistIsWrite
  <2> QED BY <1>3, <2>1, <2>2
<1>4. ASSUME NEW w \in Writers, Request(w) PROVE SavedJob'
  BY <1>1, <1>3, <1>4
     DEF Request, AppBeginWrite, AppEndWrite, StartManualBackup, DeleteBackup, fileVars
<1>5. CASE CheckScheduledBackup \/ StartScheduledBackup
  BY <1>1, <1>3, <1>5 DEF CheckScheduledBackup, StartScheduledBackup, fileVars
<1>6. CASE AbandonStart \/ DumpDatabase \/ Release
  BY <1>2, <1>6 DEF AbandonStart, DumpDatabase, Release
<1>7. CASE Launch
  <2>1. CASE owner = "restore"
    <3>1. /\ Idle /\ ~perr /\ jobs' = jobs /\ job' = job /\ job \in JobIds /\ stage = "saving"
          /\ stage' = "entering"
      BY <1>7, <2>1 DEF Launch, JobInv, OperationHasJob
    <3>2. jobs[job].kind = "restore" /\ jobs[job] \in JobRec
      BY <2>1, <3>1 DEF JobInv, FilesSound
    <3> DEFINE r == [jobs[job] EXCEPT !.state = "running", !.phase = FirstPhase]
    <3>3. Persist(job, r) /\ r.kind = "restore"
      BY <1>7, <3>2 DEF Launch, JobRec
    <3> HIDE DEF r
    <3> QED BY <3>1, <3>2, <3>3, PersistIsWrite
  <2>2. CASE owner # "restore"
    BY <1>2, <1>7, <2>2 DEF Launch
  <2> QED BY <2>1, <2>2
<1>8. CASE \/ RecoverJob \/ NextRecovery \/ RecoveryFails \/ AfterRecovery \/ RaiseGate
           \/ FinishStartup \/ StartApi \/ StartCli \/ ApiDies \/ CliDies
  <2>1. owner' # "restore"
    BY <1>8 DEF StartupHolds, RecoverJob, NextRecovery, RecoveryFails, AfterRecovery, RaiseGate,
                FinishStartup, StartApi, StartCli, ApiDies, CliDies, OperationDies
  <2> QED BY <1>2, <2>1
<1>9. CASE JobFileStep
  <2>0. UNCHANGED opVars
    BY <1>9, JobFilesOnly
  <2>1. CASE WritePartial
    <3>1. jobs' = jobs /\ pend'.id = pend.id /\ pend'.rec = pend.rec /\ ~Idle /\ ~Idle'
      BY <2>1 DEF WritePartial, JobInv, FilesSound, Idle, NoWrite
    <3> QED BY <2>0, <3>1 DEF opVars
  <2>2. CASE RefusePartial
    BY <2>0, <2>2 DEF RefusePartial, Idle, opVars
  <2>3. CASE RenamePartial
    <3>1. /\ ~Idle /\ Idle' /\ jobs' = [jobs EXCEPT ![pend.id] = pend.rec]
          /\ jobs \in [JobIds -> JobRec] /\ (owner = "restore" => job \in JobIds)
      BY <2>3 DEF RenamePartial, Idle, JobInv, FilesSound, OperationHasJob
    <3> QED BY <2>0, <3>1 DEF opVars
  <2> QED BY <1>9, <2>1, <2>2, <2>3 DEF JobFileStep
<1>10. CASE RunRestore
  BY <1>10, RestoreWrites DEF JobWrote, LateMoves
<1>11. CASE UNCHANGED vars
  BY <1>1, <1>11 DEF vars, fileVars
<1> QED BY <1>3, <1>4, <1>5, <1>6, <1>7, <1>8, <1>9, <1>10, <1>11 DEF Next, Operation, Startup

(* Every step keeps success the last thing a restore writes.              *)
LEMMA SuccessStep ==
  ASSUME JobInv, StartupHolds, SavedJob, SuccessIsLast, [Next]_vars PROVE SuccessIsLast'
<1> USE DEF SuccessIsLast
<1>1. ASSUME UNCHANGED <<opVars, jobs, pend, trusted>> PROVE SuccessIsLast'
  BY <1>1 DEF opVars, Idle
<1>2. ASSUME owner' # "restore" PROVE SuccessIsLast'
  BY <1>2
<1>3. CASE BeginBackup \/ RunCliRestore \/ \E w \in Writers : StartRestore(w)
  <2>1. CASE BeginBackup
    BY <1>2, <2>1 DEF BeginBackup
  <2>2. CASE RunCliRestore \/ \E w \in Writers : StartRestore(w)
    <3>1. /\ jobs' = jobs
          /\ \E j \in JobIds : FreshId(j) /\ job' = j /\ Persist(j, NewRec("restore"))
      BY <2>2 DEF RunCliRestore, StartRestore
    <3> QED BY <3>1, FreshRecord, PersistIsWrite DEF FreshId
  <2> QED BY <1>3, <2>1, <2>2
<1>4. ASSUME NEW w \in Writers, Request(w) PROVE SuccessIsLast'
  BY <1>1, <1>3, <1>4
     DEF Request, AppBeginWrite, AppEndWrite, StartManualBackup, DeleteBackup, fileVars, dbVars
<1>5. CASE CheckScheduledBackup \/ StartScheduledBackup
  BY <1>1, <1>3, <1>5 DEF CheckScheduledBackup, StartScheduledBackup, fileVars, dbVars
<1>6. CASE AbandonStart \/ DumpDatabase \/ Release
  BY <1>2, <1>6 DEF AbandonStart, DumpDatabase, Release
<1>7. CASE Launch
  <2>1. CASE owner = "restore"
    <3>1. /\ Idle /\ jobs' = jobs /\ job' = job /\ job \in JobIds /\ stage = "saving"
      BY <1>7, <2>1 DEF Launch, JobInv, OperationHasJob
    <3>2. jobs[job].state # "succeeded" /\ jobs[job] \in JobRec
      BY <2>1, <3>1 DEF JobInv, FilesSound
    <3> DEFINE r == [jobs[job] EXCEPT !.state = "running", !.phase = FirstPhase]
    <3>3. Persist(job, r) /\ r.state = "running"
      BY <1>7, <3>2 DEF Launch, JobRec
    <3> HIDE DEF r
    <3> QED BY <3>1, <3>2, <3>3, PersistIsWrite
  <2>2. CASE owner # "restore"
    BY <1>2, <1>7, <2>2 DEF Launch
  <2> QED BY <2>1, <2>2
<1>8. CASE \/ RecoverJob \/ NextRecovery \/ RecoveryFails \/ AfterRecovery \/ RaiseGate
           \/ FinishStartup \/ StartApi \/ StartCli \/ ApiDies \/ CliDies
  <2>1. owner' # "restore"
    BY <1>8 DEF StartupHolds, RecoverJob, NextRecovery, RecoveryFails, AfterRecovery, RaiseGate,
                FinishStartup, StartApi, StartCli, ApiDies, CliDies, OperationDies
  <2> QED BY <1>2, <2>1
<1>9. CASE JobFileStep
  <2>0. UNCHANGED opVars /\ trusted' = trusted
    BY <1>9, JobFilesOnly DEF dbVars
  <2>1. CASE WritePartial
    <3>1. jobs' = jobs /\ pend'.id = pend.id /\ pend'.rec = pend.rec /\ ~Idle
      BY <2>1 DEF WritePartial, JobInv, FilesSound
    <3> QED BY <2>0, <3>1 DEF opVars
  <2>2. CASE RefusePartial
    BY <2>0, <2>2 DEF RefusePartial, Idle, opVars
  <2>3. CASE RenamePartial
    <3>1. /\ ~Idle /\ Idle' /\ jobs' = [jobs EXCEPT ![pend.id] = pend.rec]
          /\ jobs \in [JobIds -> JobRec] /\ (owner = "restore" => job \in JobIds)
      BY <2>3 DEF RenamePartial, Idle, JobInv, FilesSound, OperationHasJob
    <3> QED BY <2>0, <3>1 DEF opVars
  <2> QED BY <1>9, <2>1, <2>2, <2>3 DEF JobFileStep
<1>10. CASE RunRestore
  <2>1. stage = "removing" => trusted
    BY <1>10, RestoreWrites DEF JobInv, RestoreIsActive, Checked
  <2> QED BY <1>10, <2>1, RestoreWrites DEF JobWrote, LateMoves, Ended
<1>11. CASE UNCHANGED vars
  BY <1>1, <1>11 DEF vars, fileVars, dbVars
<1> QED BY <1>3, <1>4, <1>5, <1>6, <1>7, <1>8, <1>9, <1>10, <1>11 DEF Next, Operation, Startup

(* Every step keeps the mark of a restore that may have replaced the      *)
(* database.                                                              *)
LEMMA MarkedStep ==
  ASSUME JobInv, StartupHolds, SavedJob, JobIsWritten, SwapIsMarked, [Next]_vars
  PROVE  SwapIsMarked'
<1> USE DEF SwapIsMarked, Unsettled
<1>1. ASSUME UNCHANGED <<opVars, jobs, pend>> PROVE SwapIsMarked'
  BY <1>1 DEF opVars, Idle
<1>2. ASSUME stage' \notin {"active", "rollingback", "rbverify", "rescheduling"} PROVE SwapIsMarked'
  BY <1>2
<1>3. CASE BeginBackup \/ RunCliRestore \/ \E w \in Writers : StartRestore(w)
  BY <1>2, <1>3 DEF BeginBackup, RunCliRestore, StartRestore
<1>4. ASSUME NEW w \in Writers, Request(w) PROVE SwapIsMarked'
  BY <1>1, <1>3, <1>4
     DEF Request, AppBeginWrite, AppEndWrite, StartManualBackup, DeleteBackup, fileVars
<1>5. CASE CheckScheduledBackup \/ StartScheduledBackup
  BY <1>1, <1>3, <1>5 DEF CheckScheduledBackup, StartScheduledBackup, fileVars
<1>6. CASE AbandonStart \/ Launch \/ DumpDatabase \/ Release
  BY <1>2, <1>6 DEF AbandonStart, Launch, DumpDatabase, Release
<1>7. CASE \/ RecoverJob \/ NextRecovery \/ RecoveryFails \/ AfterRecovery \/ RaiseGate
           \/ FinishStartup \/ StartApi \/ StartCli \/ ApiDies \/ CliDies
  <2>1. owner' # "restore"
    BY <1>7 DEF StartupHolds, RecoverJob, NextRecovery, RecoveryFails, AfterRecovery, RaiseGate,
                FinishStartup, StartApi, StartCli, ApiDies, CliDies, OperationDies
  <2> QED BY <2>1
<1>8. CASE JobFileStep
  <2>0. UNCHANGED opVars
    BY <1>8, JobFilesOnly
  <2>1. CASE WritePartial
    <3>1. jobs' = jobs /\ pend'.id = pend.id /\ pend'.rec = pend.rec /\ ~Idle
      BY <2>1 DEF WritePartial, JobInv, FilesSound
    <3> QED BY <2>0, <3>1 DEF opVars
  <2>2. CASE RefusePartial
    BY <2>0, <2>2 DEF RefusePartial, Idle, opVars
  <2>3. CASE RenamePartial
    <3>1. /\ ~Idle /\ Idle' /\ jobs' = [jobs EXCEPT ![pend.id] = pend.rec]
          /\ jobs \in [JobIds -> JobRec] /\ (owner = "restore" => job \in JobIds)
      BY <2>3 DEF RenamePartial, Idle, JobInv, FilesSound, OperationHasJob
    <3> QED BY <2>0, <3>1 DEF opVars
  <2> QED BY <1>8, <2>1, <2>2, <2>3 DEF JobFileStep
<1>9. CASE RunRestore
  <2>1. ASSUME stage = "swapping" PROVE Marked(jobs[job])
    BY <1>9, <2>1, RestoreWrites DEF JobIsWritten, Effective, Ended, Marked, Destructive
  <2>2. ASSUME stage' \in {"active", "rollingback", "rbverify", "rescheduling"}
        PROVE  Marked(jobs[job])
    BY <1>9, <2>1, <2>2, RestoreWrites DEF LateMoves
  <2>3. ASSUME stage' \in {"active", "rollingback", "rescheduling"}, ~Idle', pend'.id = job
        PROVE  Marked(pend'.rec)
    <3>1. stage # "removing"
      BY <1>9, <2>3, RestoreWrites DEF LateMoves
    <3> QED BY <1>9, <2>2, <2>3, <3>1, RestoreWrites DEF JobWrote, Marked, Ended, Destructive
  <2>4. stage' = "rbverify" => Idle'
    BY <1>9, RestoreWrites DEF LateMoves
  <2> QED BY <1>9, <2>2, <2>3, <2>4, RestoreWrites
<1>10. CASE UNCHANGED vars
  BY <1>1, <1>10 DEF vars, fileVars
<1> QED BY <1>3, <1>4, <1>5, <1>6, <1>7, <1>8, <1>9, <1>10 DEF Next, Operation, Startup

-----------------------------------------------------------------------------
\* Recovery rewrites an interrupted job, and knows when it may have replaced the database.
RecoveryWrites ==
  stage = "recovering" /\ ~Idle =>
    pend.id \in Interrupted /\ (IsDestructive(jobs[pend.id]) => uncertain)

(* Every step keeps it so.                                                *)
LEMMA RecoveryWritesStep ==
  ASSUME JobInv, StartupHolds, SavedJob, RecoveryWrites, [Next]_vars PROVE RecoveryWrites'
<1> USE DEF RecoveryWrites
<1>1. ASSUME UNCHANGED <<stage, jobs, pend, uncertain>> PROVE RecoveryWrites'
  BY <1>1 DEF Idle, Interrupted
<1>2. ASSUME stage' # "recovering" \/ Idle' PROVE RecoveryWrites'
  BY <1>2
<1>3. CASE BeginBackup \/ RunCliRestore \/ \E w \in Writers : StartRestore(w)
  BY <1>2, <1>3 DEF BeginBackup, RunCliRestore, StartRestore
<1>4. ASSUME NEW w \in Writers, Request(w) PROVE RecoveryWrites'
  BY <1>1, <1>3, <1>4
     DEF Request, AppBeginWrite, AppEndWrite, StartManualBackup, DeleteBackup, fileVars, opVars,
         procVars
<1>5. CASE CheckScheduledBackup \/ StartScheduledBackup
  BY <1>1, <1>3, <1>5 DEF CheckScheduledBackup, StartScheduledBackup, fileVars, opVars
<1>6. CASE AbandonStart \/ Launch \/ DumpDatabase \/ Release
  BY <1>2, <1>6 DEF AbandonStart, Launch, DumpDatabase, Release
<1>7. CASE RunRestore
  BY <1>2, <1>7, RestoreWrites DEF LateMoves
<1>8. CASE RecoverJob
  <2>1. PICK j \in Interrupted : /\ uncertain' = (uncertain \/ IsDestructive(jobs[j]))
                                 /\ Persist(j, Recovered(jobs[j]))
    BY <1>8 DEF RecoverJob
  <2>2. jobs' = jobs /\ j \in JobIds
    BY <1>8 DEF RecoverJob, Interrupted
  <2>3. pend'.id = j
    BY <2>1, <2>2, PersistIsWrite
  <2> QED BY <2>1, <2>2, <2>3 DEF Interrupted
<1>9. CASE NextRecovery \/ RecoveryFails \/ AfterRecovery \/ RaiseGate \/ FinishStartup
           \/ StartApi \/ StartCli \/ ApiDies \/ CliDies
  BY <1>2, <1>9 DEF NextRecovery, RecoveryFails, AfterRecovery, RaiseGate,
                FinishStartup, StartApi, StartCli, ApiDies, CliDies, OperationDies
<1>10. CASE JobFileStep
  <2>0. UNCHANGED <<stage, uncertain>>
    BY <1>10, JobFilesOnly DEF opVars, procVars
  <2>1. CASE WritePartial
    <3>1. jobs' = jobs /\ pend'.id = pend.id /\ ~Idle
      BY <2>1 DEF WritePartial, JobInv, FilesSound
    <3> QED BY <2>0, <3>1 DEF Interrupted
  <2>2. CASE RefusePartial \/ RenamePartial
    BY <1>2, <2>2 DEF RefusePartial, RenamePartial, Idle
  <2> QED BY <1>10, <2>1, <2>2 DEF JobFileStep
<1>11. CASE UNCHANGED vars
  BY <1>1, <1>11 DEF vars, fileVars, opVars, procVars
<1> QED BY <1>3, <1>4, <1>5, <1>6, <1>7, <1>8, <1>9, <1>10, <1>11 DEF Next, Operation, Startup

-----------------------------------------------------------------------------
\* A job that recovery cannot write, since a dead process left a partial file of it.
Stuck == \E j \in Interrupted \cap partial : ~(pend.written /\ pend.id = j)

\* A restore of the API works on the database.
InSwap == owner = "restore" /\ host = "api" /\ maintenance /\ stage \in Unsettled

\* The gate stays shut, and the API does not die any more.
LockedOut ==
  /\ api # "down" /\ owner # "startup" /\ maintenance /\ crashes = scenario.deaths
  /\ owner = "restore" => stage = "release"

\* The API is stopped until a recovery command succeeds.
CliDecides == api = "down" /\ (cliFailed \/ host = "cli")

\* The API died in a restore: start-up finds the job of it, or gets stuck before.
Doubtful ==
  /\ api # "ready" /\ crashes = scenario.deaths /\ ~May("persist")
  /\ \/ owner = "none" /\ stage = "idle"
     \/ owner = "startup" /\ stage \in Recovery
  /\ Idle \/ stage = "recovering"
  /\ stage = "recovering" /\ Idle /\ perr => Stuck
  /\ IF uncertain THEN stage \in {"raising", "clean"} => maintenance
     ELSE /\ stage \notin {"raise", "raising", "clean"}
          /\ Stuck \/ \E j \in Interrupted : IsDestructive(jobs[j])

Guarded == ~trusted => InSwap \/ LockedOut \/ CliDecides \/ Doubtful

(* JobStore leaves a job that makes start-up shut the gate or fail.       *)
LEMMA DoubtfulWrites ==
  ASSUME JobInv, RecoveryWrites, Doubtful, JobFileStep PROVE Doubtful'
<1>0. UNCHANGED <<gateVars, opVars, dbVars, procVars>>
  BY JobFilesOnly
<1>1. ~Idle /\ stage = "recovering" /\ owner = "startup" /\ ~May("persist") /\ ~May("persist")'
  BY <1>0 DEF JobFileStep, WritePartial, RefusePartial, RenamePartial, Doubtful, May, procVars
<1>2. pend.id \in Interrupted /\ (IsDestructive(jobs[pend.id]) => uncertain)
  BY <1>1 DEF RecoveryWrites
<1> SUFFICES /\ (Idle /\ perr => Stuck)'
             /\ ~uncertain => Stuck' \/ \E j \in Interrupted' : IsDestructive(jobs'[j])
  BY <1>0, <1>1 DEF Doubtful, gateVars, opVars, procVars, Recovery
<1>3. ~uncertain => Stuck \/ \E j \in Interrupted : IsDestructive(jobs[j])
  BY DEF Doubtful
<1>4. CASE WritePartial
  <2>1. /\ jobs' = jobs /\ pend'.id = pend.id /\ ~Idle' /\ pend.id \notin partial
        /\ partial' = partial \cup {pend.id}
    BY <1>4 DEF WritePartial, JobInv, FilesSound, Idle, NoWrite
  <2>2. Interrupted' = Interrupted
    BY <2>1 DEF Interrupted
  <2>3. Stuck => Stuck'
    BY <2>1, <2>2 DEF Stuck
  <2> QED BY <1>3, <2>1, <2>2, <2>3
<1>5. CASE RefusePartial
  <2>1. jobs' = jobs /\ partial' = partial /\ pend' = NoWrite /\ pend.id \in partial
    BY <1>1, <1>5 DEF RefusePartial
  <2>2. Interrupted' = Interrupted /\ ~pend'.written
    BY <2>1 DEF Interrupted, NoWrite
  <2>3. Stuck'
    BY <1>2, <2>1, <2>2 DEF Stuck
  <2> QED BY <2>3
<1>6. CASE RenamePartial
  <2>1. /\ jobs' = [jobs EXCEPT ![pend.id] = pend.rec] /\ partial' = partial \ {pend.id}
        /\ pend' = NoWrite /\ ~perr' /\ pend.written /\ jobs \in [JobIds -> JobRec]
    BY <1>1, <1>6 DEF RenamePartial, JobInv, FilesSound
  <2>2. ~pend'.written
    BY <2>1 DEF NoWrite
  <2>3. ASSUME NEW j \in Interrupted, j # pend.id PROVE j \in Interrupted' /\ jobs'[j] = jobs[j]
    BY <2>1, <2>3 DEF Interrupted
  <2>4. Stuck => Stuck'
    <3> SUFFICES ASSUME NEW j \in Interrupted \cap partial, j # pend.id PROVE Stuck'
      BY <2>1 DEF Stuck
    <3> QED BY <2>1, <2>2, <2>3 DEF Stuck
  <2>5. ASSUME NEW j \in Interrupted, IsDestructive(jobs[j]), ~uncertain
        PROVE  \E k \in Interrupted' : IsDestructive(jobs'[k])
    <3>1. j # pend.id
      BY <1>2, <2>5
    <3> QED BY <2>3, <2>5, <3>1
  <2> QED BY <1>3, <2>1, <2>4, <2>5
<1> QED BY <1>4, <1>5, <1>6 DEF JobFileStep

-----------------------------------------------------------------------------
\* Who runs an operation.
HostInv ==
  /\ owner = "backup" => host = "api"
  /\ stage = "release" => owner \in {"restore", "backup"}

(* Every step keeps it.                                                   *)
LEMMA HostStep ==
  ASSUME JobInv, StartupHolds, SavedJob, HostInv, [Next]_vars PROVE HostInv'
<1> USE DEF HostInv
<1>1. ASSUME NEW w \in Writers, Request(w) PROVE HostInv'
  BY <1>1 DEF Request, AppBeginWrite, AppEndWrite, StartRestore, StartManualBackup,
              BeginBackup, DeleteBackup, opVars
<1>2. CASE CheckScheduledBackup \/ StartScheduledBackup
  BY <1>2 DEF CheckScheduledBackup, StartScheduledBackup, BeginBackup, opVars
<1>3. CASE JobFileStep
  BY <1>3, JobFilesOnly DEF opVars
<1>4. CASE AbandonStart \/ Launch \/ DumpDatabase \/ Release
  BY <1>4 DEF AbandonStart, Launch, DumpDatabase, Release
<1>5. CASE RunRestore
  BY <1>5, RestoreWrites
<1>6. CASE Startup
  BY <1>6 DEF Startup, RecoverJob, NextRecovery, RecoveryFails, AfterRecovery, RaiseGate,
              FinishStartup, RunCliRestore, StartupHolds
<1>7. CASE StartApi \/ StartCli \/ ApiDies \/ CliDies
  BY <1>7 DEF StartApi, StartCli, ApiDies, CliDies, OperationDies
<1>8. CASE UNCHANGED vars
  BY <1>8 DEF vars, opVars
<1> QED
  BY <1>1, <1>2, <1>3, <1>4, <1>5, <1>6, <1>7, <1>8 DEF Next, Operation

-----------------------------------------------------------------------------
(* A restore that the API runs stays behind the gate until its database   *)
(* has passed the checks, and so does the database a rollback gives up.   *)
LEMMA SwapGuarded ==
  ASSUME FewFaults, TypeOK, RestoreRunsAlone, LockoutInv, Guarded, RunRestore
  PROVE  Guarded'
<1> USE DEF At, runUnchanged, procVars
<1>0. /\ owner = "restore" /\ Idle /\ stage \notin {"saving", "release"}
      /\ UNCHANGED <<owner, host, api, cliFailed, crashes, scenario>>
  BY DEF RunRestore, EnterGate, FinishDrain, DrainTimesOut, ValidateSelected, SavePreJob,
         PreRestoreDump, FailPreRestore, FinishPreRestore, BuildStaging, NextPhase, SwapIn,
         VerifyActive, Reschedule, RemoveRetained, SwapBack, VerifyOriginal,
         RescheduleOriginal, DropStaging, ReopenGate
<1>1. CASE host = "cli"
  BY <1>0, <1>1 DEF Guarded, CliDecides, LockoutInv, ApiIsUp
<1>2. CASE host # "cli"
  <2>0. host = "api" /\ api # "down"
    BY <1>0, <1>2 DEF LockoutInv, ApiIsUp
  <2> SUFFICES ASSUME ~trusted' PROVE InSwap' \/ LockedOut'
    BY DEF Guarded
  <2>1. ~trusted => maintenance /\ stage \in Unsettled
    BY <1>0, <2>0 DEF Guarded, InSwap, LockedOut, CliDecides, Doubtful
  <2>2. stage \in {"swapping"} \cup Unsettled => maintenance
    BY <1>0, <2>0 DEF RestoreRunsAlone, InProtectedPart, Unsettled
  <2>3. SwapIn \/ VerifyActive \/ SwapBack \/ VerifyOriginal
    BY <2>1 DEF Unsettled, RunRestore, EnterGate, FinishDrain, DrainTimesOut,
         ValidateSelected, SavePreJob, PreRestoreDump, FailPreRestore, FinishPreRestore,
         BuildStaging, NextPhase, Reschedule, RemoveRetained, RescheduleOriginal, DropStaging,
         ReopenGate, dbVars
  <2>4. maintenance /\ maintenance'
    BY <2>2, <2>3 DEF SwapIn, VerifyActive, SwapBack, VerifyOriginal, gateVars, Unsettled
  <2>5. ASSUME FailUncertain, May("rollback") PROVE LockedOut'
    <3>1. scenario.deaths = 0 /\ crashes \in 0 .. scenario.deaths
      BY <2>5 DEF FewFaults, TypeOK
    <3> QED BY <1>0, <2>0, <2>4, <2>5, <3>1 DEF LockedOut, FailUncertain
  <2>6. stage' \in Unsettled => InSwap'
    BY <1>0, <2>0, <2>4 DEF InSwap
  <2>7. CASE SwapIn
    <3>1. stage # "active" /\ trusted
      BY <2>1, <2>7 DEF SwapIn, Unsettled
    <3>2. stage' = "active"
      BY <2>7, <3>1 DEF SwapIn, RenameIn, Announce, FewFaults, dbVars
    <3> QED BY <2>6, <3>2 DEF Unsettled
  <2>8. CASE VerifyActive
    BY <2>6, <2>8 DEF VerifyActive, StartRollback, Announce, Unsettled
  <2>9. CASE SwapBack
    BY <2>5, <2>6, <2>9 DEF SwapBack, FewFaults, Unsettled
  <2>10. CASE VerifyOriginal
    BY <2>5, <2>10 DEF VerifyOriginal
  <2> QED BY <2>3, <2>7, <2>8, <2>9, <2>10
<1> QED BY <1>1, <1>2

(* A start-up shuts the gate or does not end while the database is in     *)
(* doubt, and leaves the rest to the recovery command.                    *)
LEMMA StartupGuarded ==
  ASSUME JobInv, StartupHolds, LockoutInv, RecoveryWrites, Guarded,
         RecoverJob \/ NextRecovery \/ RecoveryFails \/ AfterRecovery \/ RaiseGate \/ FinishStartup
  PROVE  Guarded'
<1>0. /\ owner = "startup" /\ host \in {"api", "cli"} /\ stage \in Recovery /\ trusted' = trusted
      /\ UNCHANGED <<scenario, crashes, jobs>>
  BY DEF StartupHolds, RecoverJob, NextRecovery, RecoveryFails, AfterRecovery, RaiseGate,
         FinishStartup, Recovery, dbVars, procVars, fileVars
<1> SUFFICES ASSUME ~trusted PROVE LockedOut' \/ CliDecides' \/ Doubtful'
  BY <1>0 DEF Guarded
<1>1. CASE host = "cli"
  <2>1. /\ api = "down"
        /\ \/ UNCHANGED <<api, host>>
           \/ api' = "down" /\ cliFailed'
    BY <1>1 DEF LockoutInv, ApiIsUp, RecoverJob, NextRecovery, RecoveryFails, AfterRecovery,
                RaiseGate, FinishStartup, procVars
  <2> QED BY <1>1, <2>1 DEF CliDecides
<1>2. CASE host = "api"
  <2>0. Doubtful /\ ~May("persist") /\ ~May("persist")' /\ api # "down"
    BY <1>0, <1>2 DEF Guarded, InSwap, LockedOut, CliDecides, LockoutInv, ApiIsUp, Doubtful, May
  <2> USE DEF Doubtful, Recovery
  <2>1. Interrupted' = Interrupted
    BY <1>0 DEF Interrupted
  <2>2. CASE RecoverJob
    <3>1. PICK j \in Interrupted : /\ uncertain' = (uncertain \/ IsDestructive(jobs[j]))
                                   /\ Persist(j, Recovered(jobs[j]))
      BY <2>2 DEF RecoverJob
    <3>2. j \in JobIds /\ ~Idle' /\ ~pend'.written
      BY <3>1, PersistIsWrite DEF Interrupted, Persist
    <3>3. UNCHANGED <<owner, api, partial>> /\ stage' = "recovering" /\ stage = "recover"
      BY <2>2 DEF RecoverJob
    <3>4. Stuck => Stuck'
      BY <2>1, <3>2, <3>3 DEF Stuck
    <3> QED BY <1>0, <2>0, <2>1, <3>1, <3>2, <3>3, <3>4
  <2>3. CASE NextRecovery
    <3>1. /\ stage' = "recover" /\ Idle /\ UNCHANGED <<owner, api, partial, pend, uncertain>>
          /\ stage = "recovering"
      BY <2>3 DEF NextRecovery, procVars, fileVars
    <3>2. Stuck' = Stuck /\ Idle'
      BY <2>1, <3>1 DEF Stuck, Idle
    <3> QED BY <1>0, <2>0, <2>1, <3>1, <3>2
  <2>4. CASE RecoveryFails
    <3>1. /\ stage = "recovering" /\ Idle /\ perr /\ owner' = "none" /\ stage' = "idle"
          /\ ~uncertain' /\ api' = "down" /\ UNCHANGED <<partial, pend>>
      BY <2>4 DEF RecoveryFails, fileVars
    <3>2. Stuck' = Stuck /\ Idle'
      BY <2>1, <3>1 DEF Stuck, Idle
    <3> QED BY <1>0, <2>0, <3>1, <3>2
  <2>5. CASE AfterRecovery
    <3>1. /\ stage = "recover" /\ Idle /\ Interrupted = {}
          /\ UNCHANGED <<owner, api, pend, uncertain>>
          /\ stage' = IF uncertain THEN "raise" ELSE "clean"
      BY <1>2, <2>5 DEF AfterRecovery, fileVars, procVars
    <3>2. uncertain
      BY <2>0, <3>1 DEF Stuck
    <3> QED BY <1>0, <2>0, <3>1, <3>2 DEF Idle
  <2>6. CASE RaiseGate
    <3>1. /\ stage \in {"raise", "raising"} /\ UNCHANGED <<owner, api, pend, uncertain>>
          /\ stage' \in {"raising", "clean"}
          /\ stage = "raise" => maintenance'
          /\ stage = "raising" => maintenance' = maintenance
      BY <2>6 DEF RaiseGate, EnterMaintenance, Drained, fileVars, procVars
    <3>2. uncertain /\ maintenance'
      BY <2>0, <3>1
    <3> QED BY <1>0, <2>0, <3>1, <3>2 DEF Idle
  <2>7. CASE FinishStartup
    BY <1>0, <1>2, <2>0, <2>7 DEF FinishStartup, LockedOut, gateVars
  <2> QED BY <2>2, <2>3, <2>4, <2>5, <2>6, <2>7
<1> QED BY <1>0, <1>1, <1>2

-----------------------------------------------------------------------------
\* What the steps around a database in doubt rely on.
Surroundings ==
  /\ TypeOK /\ GateInv /\ RestoreRunsAlone /\ JobInv /\ ShutInv /\ LockoutInv
  /\ SavedJob /\ SuccessIsLast /\ HostInv /\ RecoveryWrites
  /\ ~May("persist") => SwapIsMarked

(* A request or the scheduler can only begin a backup behind the gate.    *)
LEMMA RequestGuarded ==
  ASSUME Surroundings, Guarded,
         (\E w \in Writers : Request(w)) \/ CheckScheduledBackup \/ StartScheduledBackup
  PROVE  Guarded'
<1> USE DEF Surroundings
<1>1. ASSUME UNCHANGED <<maintenance, owner, host, stage, jobs, partial, pend, perr, trusted, api,
                         uncertain, cliFailed, crashes, scenario>>
      PROVE  Guarded'
  BY <1>1 DEF Guarded, InSwap, LockedOut, CliDecides, Doubtful, Stuck, Interrupted, Idle, May
<1>2. ASSUME BeginBackup, api = "ready", UNCHANGED <<api, crashes, scenario>> PROVE Guarded'
  <2>1. /\ owner = "none" /\ owner' = "backup" /\ UNCHANGED <<maintenance, trusted>>
    BY <1>2 DEF BeginBackup, gateVars, dbVars
  <2> QED BY <1>2, <2>1 DEF Guarded, InSwap, LockedOut, CliDecides, Doubtful
<1>3. ASSUME NEW w \in Writers, Request(w) PROVE Guarded'
  <2>1. CASE AppBeginWrite(w) \/ AppEndWrite(w)
    BY <1>1, <2>1 DEF AppBeginWrite, AppEndWrite, BeginWrite, EndWrite, opVars, fileVars, dbVars,
                      procVars
  <2>2. CASE DeleteBackup(w)
    BY <1>1, <2>2 DEF DeleteBackup, gateVars, opVars, fileVars, procVars
  <2>3. CASE StartManualBackup(w)
    BY <1>2, <2>3 DEF StartManualBackup, procVars
  <2>4. CASE StartRestore(w)
    <3>1. /\ api = "ready" /\ owner = "none" /\ w \in Active /\ trusted' = trusted
      BY <2>4 DEF StartRestore, Active, dbVars
    <3>2. maintenance => dpc = "inside"
      BY <3>1 DEF ShutInv, StartupHolds
    <3>3. ~maintenance
      BY <3>1, <3>2, DrainedIsEmpty DEF NoWriterInside
    <3> QED BY <3>1, <3>3 DEF Guarded, InSwap, LockedOut, CliDecides, Doubtful
  <2> QED BY <1>3, <2>1, <2>2, <2>3, <2>4 DEF Request
<1>4. CASE CheckScheduledBackup
  BY <1>1, <1>4 DEF CheckScheduledBackup, gateVars, opVars, fileVars, dbVars
<1>5. CASE StartScheduledBackup
  <2>1. api = "ready" /\ UNCHANGED <<api, uncertain, cliFailed, crashes, scenario>>
    BY <1>5 DEF StartScheduledBackup, LockoutInv, ApiIsUp
  <2>2. CASE BeginBackup
    BY <1>2, <2>1, <2>2
  <2>3. CASE UNCHANGED <<gateVars, opVars, fileVars, dbVars>>
    BY <1>1, <2>1, <2>3 DEF gateVars, opVars, fileVars, dbVars
  <2> QED BY <1>5, <2>2, <2>3 DEF StartScheduledBackup
<1> QED BY <1>3, <1>4, <1>5

(* The end of an operation leaves the gate as it is, and a recovery       *)
(* command that did not succeed leaves the API stopped.                   *)
LEMMA EndGuarded ==
  ASSUME Surroundings, Guarded, AbandonStart \/ Launch \/ DumpDatabase \/ Release
  PROVE  Guarded'
<1> USE DEF Surroundings
<1>1. /\ UNCHANGED <<maintenance, trusted, api, crashes, scenario>>
      /\ stage \in {"saving", "dumping", "release"}
      /\ stage = "release" \/ (owner # "startup" /\ stage # "idle")
  BY DEF AbandonStart, Launch, DumpDatabase, Release, gateVars, dbVars, procVars, JobInv,
         OperationHasJob
<1>2. owner \in {"restore", "backup"}
  BY DEF AbandonStart, Launch, DumpDatabase, Release, JobInv, OperationHasJob, HostInv
<1> SUFFICES ASSUME ~trusted PROVE LockedOut' \/ CliDecides'
  BY <1>1 DEF Guarded
<1>3. LockedOut \/ CliDecides
  BY <1>1, <1>2 DEF Guarded, InSwap, Unsettled, Doubtful, Recovery
<1>4. ASSUME LockedOut PROVE LockedOut'
  BY <1>1, <1>2, <1>4 DEF LockedOut, AbandonStart, Launch, DumpDatabase, Release
<1>5. ASSUME CliDecides PROVE CliDecides'
  <2>1. api = "down" /\ (cliFailed \/ host = "cli")
    BY <1>5 DEF CliDecides
  <2>2. CASE Release
    <3>1. CASE host = "cli"
      <4>1. owner = "restore" /\ jobs[job].state # "succeeded"
        BY <1>2, <3>1 DEF HostInv, SuccessIsLast
      <4> QED BY <1>1, <2>1, <2>2, <3>1, <4>1 DEF Release, CliDecides
    <3>2. CASE host # "cli"
      BY <1>1, <2>1, <2>2, <3>2 DEF Release, CliDecides
    <3> QED BY <3>1, <3>2
  <2>3. CASE AbandonStart
    BY <1>1, <2>1, <2>3 DEF AbandonStart, CliDecides
  <2>4. CASE Launch \/ DumpDatabase
    BY <2>1, <2>4 DEF Launch, DumpDatabase, CliDecides, procVars
  <2> QED BY <2>2, <2>3, <2>4
<1> QED BY <1>3, <1>4, <1>5

(* A process that dies in a swap leaves a job that the next start-up      *)
(* finds, and a start keeps it.                                           *)
LEMMA DeathGuarded ==
  ASSUME FewFaults, Surroundings, Guarded, StartApi \/ StartCli \/ RunCliRestore \/ ApiDies \/ CliDies
  PROVE  Guarded'
<1> USE DEF Surroundings
<1>1. trusted' = trusted /\ scenario' = scenario
  BY DEF StartApi, StartCli, RunCliRestore, ApiDies, CliDies, dbVars, procVars
<1> SUFFICES ASSUME ~trusted PROVE CliDecides' \/ Doubtful'
  BY <1>1 DEF Guarded
<1>2. CASE StartCli \/ RunCliRestore \/ CliDies
  <2>1. api = "down" /\ api' = api /\ (host' = "cli" \/ cliFailed')
    BY <1>2 DEF StartCli, RunCliRestore, CliDies, ShutInv, StartupHolds, LockoutInv, ApiIsUp, procVars
  <2> QED BY <2>1 DEF CliDecides
<1>3. CASE StartApi
  <2>1. /\ api = "down" /\ host = "none" /\ ~cliFailed /\ api' = "starting" /\ owner' = "startup"
        /\ stage' = "recover"
        /\ UNCHANGED <<pend, perr, jobs, partial, uncertain, crashes, scenario>>
    BY <1>3 DEF StartApi, fileVars
  <2>2. Doubtful
    BY <2>1 DEF Guarded, InSwap, LockedOut, CliDecides
  <2>3. owner = "none" /\ stage = "idle" /\ Idle /\ ~uncertain
    BY <2>1, <2>2 DEF Doubtful, Recovery, ShutInv, StartupHolds, LockoutInv, ShutWhenUncertain
  <2>4. Stuck' = Stuck /\ Interrupted' = Interrupted /\ Idle'
    BY <2>1, <2>3 DEF Stuck, Interrupted, Idle
  <2> QED BY <2>1, <2>2, <2>3, <2>4 DEF Doubtful, Recovery, May
<1>4. CASE ApiDies
  <2>1. /\ api # "down" /\ crashes < scenario.deaths /\ crashes' = crashes + 1 /\ api' = "down"
        /\ owner' = "none" /\ stage' = "idle" /\ pend' = NoWrite /\ ~uncertain' /\ jobs' = jobs
    BY <1>4 DEF ApiDies, OperationDies
  <2>2. scenario.deaths \in Nat /\ crashes \in 0 .. scenario.deaths
    BY ServiceAssumption DEF TypeOK
  <2>3. crashes # scenario.deaths
    BY <2>2, <2>1
  <2>4. InSwap
    BY <2>1, <2>3 DEF Guarded, LockedOut, CliDecides, Doubtful
  <2>5. /\ scenario.deaths = 1 /\ ~May("persist") /\ ~May("persist")'
        /\ crashes' = scenario'.deaths
    BY <1>1, <2>2, <2>1 DEF FewFaults, May
  <2>6. Marked(jobs[job]) /\ job \in JobIds
    BY <2>4, <2>5 DEF InSwap, SwapIsMarked, JobInv, OperationHasJob
  <2>7. job \in Interrupted' /\ IsDestructive(jobs'[job])
    BY <2>1, <2>6 DEF Marked, Running, Interrupted, IsDestructive
  <2> QED BY <2>1, <2>5, <2>7 DEF Doubtful, Idle
<1> QED BY <1>2, <1>3, <1>4

(* Every step keeps a database that was not checked from the writers.     *)
LEMMA GuardedStep ==
  ASSUME FewFaults, Surroundings, Guarded, [Next]_vars PROVE Guarded'
<1> USE DEF Surroundings
<1>1. CASE UNCHANGED vars
  BY <1>1 DEF vars, gateVars, opVars, fileVars, dbVars, procVars, Guarded, InSwap, LockedOut,
              CliDecides, Doubtful, Stuck, Interrupted, Idle, May
<1>2. CASE (\E w \in Writers : Request(w)) \/ CheckScheduledBackup \/ StartScheduledBackup
  BY <1>2, RequestGuarded
<1>3. CASE JobFileStep
  <2>1. UNCHANGED <<gateVars, opVars, dbVars, procVars>>
    BY <1>3, JobFilesOnly
  <2>2. Doubtful => Doubtful'
    BY <1>3, DoubtfulWrites
  <2> QED BY <2>1, <2>2 DEF gateVars, opVars, dbVars, procVars, Guarded, InSwap, LockedOut, CliDecides
<1>4. CASE AbandonStart \/ Launch \/ DumpDatabase \/ Release
  BY <1>4, EndGuarded
<1>5. CASE RunRestore
  BY <1>5, SwapGuarded
<1>6. CASE \/ RecoverJob \/ NextRecovery \/ RecoveryFails \/ AfterRecovery \/ RaiseGate
           \/ FinishStartup
  BY <1>6, StartupGuarded DEF ShutInv
<1>7. CASE StartApi \/ StartCli \/ RunCliRestore \/ ApiDies \/ CliDies
  BY <1>7, DeathGuarded
<1> QED BY <1>1, <1>2, <1>3, <1>4, <1>5, <1>6, <1>7 DEF Next, Operation, Startup

(* As long as COMMIT tells the truth, and a process dies at most once and *)
(* then among faults that leave job files and rollbacks whole, the        *)
(* application serves only a database that passed its checks: for any     *)
(* number of writers and jobs, and any failed checks of a new database.   *)
THEOREM ServesOnlyCheckedDatabase == Spec => [](FewFaults => ServesOnlyValidated)
<1> DEFINE Inv == /\ SavedJob /\ SuccessIsLast /\ RecoveryWrites /\ HostInv /\ LockoutInv
                  /\ ~May("persist") => JobIsWritten /\ SwapIsMarked
                  /\ FewFaults => Guarded
<1>1. Init => Inv
  BY DEF Init, GateInit, SavedJob, SuccessIsLast, RecoveryWrites, HostInv, LockoutInv, ApiIsUp,
         ShutWhenUncertain, JobIsWritten, SwapIsMarked, Guarded
<1>2. TypeOK /\ GateInv /\ RestoreRunsAlone /\ JobInv /\ ShutInv /\ Inv /\ [Next]_vars => Inv'
  <2> SUFFICES ASSUME TypeOK, GateInv, RestoreRunsAlone, JobInv, ShutInv, Inv, [Next]_vars
               PROVE  Inv'
    OBVIOUS
  <2>1. scenario' = scenario
    BY ScenarioStays
  <2>2. (SavedJob /\ SuccessIsLast /\ RecoveryWrites /\ HostInv /\ LockoutInv)'
    BY SavedStep, SuccessStep, RecoveryWritesStep, HostStep, LockoutStep DEF ShutInv
  <2>3. (~May("persist") => JobIsWritten /\ SwapIsMarked)'
    BY <2>1, WrittenStep, MarkedStep DEF ShutInv, May
  <2>4. (FewFaults => Guarded)'
    BY <2>1, GuardedStep DEF FewFaults, May, Surroundings
  <2> QED BY <2>2, <2>3, <2>4
<1>3. Inv => (FewFaults => ServesOnlyValidated)
  BY DEF ServesOnlyValidated, Guarded, InSwap, LockedOut, CliDecides, Doubtful
<1>4. Spec => []GateInv
  BY ServiceUsesGate, GateInvariant, PTL DEF UsesGate
<1> HIDE DEF Inv
<1> QED BY <1>1, <1>2, <1>3, <1>4, JobFilesAreSound, RestoreIsAlone, ServiceTypes, PTL DEF Spec
=============================================================================
