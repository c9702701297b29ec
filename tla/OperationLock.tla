---------------------------- MODULE OperationLock ----------------------------
(***************************************************************************)
(* OperationLock of api/internal/backup/control.go.  Each process (the    *)
(* API, the recovery CLI) has one OperationLock value: a mutex, the name  *)
(* of the running operation and the open lock file.  The processes share  *)
(* the lock file, on which the kernel grants one exclusive flock.         *)
(* TryAcquire never waits for a running operation, but it holds the mutex *)
(* over several system calls, and a release clears the fields before it   *)
(* drops the flock.                                                       *)
(***************************************************************************)
EXTENDS FiniteSets

CONSTANTS Procs,        \* processes that share the lock file
          Callers,      \* goroutines that call TryAcquire
          NoCaller,
          ProcOf        \* the process each goroutine runs in

ASSUME LockAssumption == /\ NoCaller \notin Callers
                         /\ ProcOf \in [Callers -> Procs]

VARIABLES pc,           \* where each caller is in TryAcquire / release
          mu,           \* l.mu of each process: the caller inside it
          operation,    \* l.operation and l.file of each process: who set them
          flock,        \* the caller whose open file description has the flock
          reply         \* what the last TryAcquire of each caller returned

lockVars == <<pc, mu, operation, flock, reply>>

Pcs     == {"idle", "opening", "locked", "held", "releasing"}
Replies == {"none", "granted", "conflict", "error"}

LockTypeOK ==
  /\ pc \in [Callers -> Pcs]
  /\ mu \in [Procs -> Callers \cup {NoCaller}]
  /\ operation \in [Procs -> Callers \cup {NoCaller}]
  /\ flock \in Callers \cup {NoCaller}
  /\ reply \in [Callers -> Replies]

LockInit ==
  /\ pc = [c \in Callers |-> "idle"]
  /\ mu = [p \in Procs |-> NoCaller]
  /\ operation = [p \in Procs |-> NoCaller]
  /\ flock = NoCaller
  /\ reply = [c \in Callers |-> "none"]

Goto(c, label)   == pc' = [pc EXCEPT ![c] = label]
Return(c, value) == reply' = [reply EXCEPT ![c] = value]
LeaveMutex(c)    == mu' = [mu EXCEPT ![ProcOf[c]] = NoCaller]

-----------------------------------------------------------------------------
(* TryAcquire *)

\* The mutex is taken and another operation of this process is found.
RefuseBusy(c) ==
  /\ pc[c] = "idle" /\ mu[ProcOf[c]] = NoCaller
  /\ operation[ProcOf[c]] # NoCaller
  /\ Return(c, "conflict")
  /\ UNCHANGED <<pc, mu, operation, flock>>

\* The mutex is taken, no operation of this process runs, the file is opened.
OpenLockFile(c) ==
  /\ pc[c] = "idle" /\ mu[ProcOf[c]] = NoCaller
  /\ operation[ProcOf[c]] = NoCaller
  /\ mu' = [mu EXCEPT ![ProcOf[c]] = c]
  /\ Goto(c, "opening")
  /\ UNCHANGED <<operation, flock, reply>>

\* open, fstat or flock fails with something other than EWOULDBLOCK.
FailToOpen(c) ==
  /\ pc[c] = "opening"
  /\ Goto(c, "idle") /\ LeaveMutex(c) /\ Return(c, "error")
  /\ UNCHANGED <<operation, flock>>

\* flock answers EWOULDBLOCK: another open file description has it.
RefuseFlock(c) ==
  /\ pc[c] = "opening" /\ flock # NoCaller
  /\ Goto(c, "idle") /\ LeaveMutex(c) /\ Return(c, "conflict")
  /\ UNCHANGED <<operation, flock>>

\* A mistake to catch: the lock file is locked in shared mode.
SharedFlock(c) ==
  /\ pc[c] = "opening" /\ flock' = c /\ Goto(c, "locked")
  /\ UNCHANGED <<mu, operation, reply>>

GetFlock(c) ==
  /\ pc[c] = "opening" /\ flock = NoCaller
  /\ flock' = c
  /\ Goto(c, "locked")
  /\ UNCHANGED <<mu, operation, reply>>

\* A mistake to catch: this error path does not close the file.
LeakFlock(c) ==
  /\ pc[c] = "locked"
  /\ Goto(c, "idle") /\ LeaveMutex(c) /\ Return(c, "error")
  /\ UNCHANGED <<operation, flock>>

\* fchmod fails: the flock is given back before the error is returned.
FailToSecure(c) ==
  /\ pc[c] = "locked"
  /\ flock' = NoCaller
  /\ Goto(c, "idle") /\ LeaveMutex(c) /\ Return(c, "error")
  /\ UNCHANGED operation

Grant(c) ==
  /\ pc[c] = "locked"
  /\ operation' = [operation EXCEPT ![ProcOf[c]] = c]
  /\ Goto(c, "held") /\ LeaveMutex(c) /\ Return(c, "granted")
  /\ UNCHANGED flock

-----------------------------------------------------------------------------
(* the release function *)

ClearFields(c) ==
  /\ pc[c] = "held" /\ mu[ProcOf[c]] = NoCaller
  /\ operation' = [operation EXCEPT ![ProcOf[c]] = NoCaller]
  /\ Goto(c, "releasing")
  /\ UNCHANGED <<mu, flock, reply>>

\* A mistake to catch: release only clears the fields.
KeepFlock(c) ==
  /\ pc[c] = "releasing" /\ Goto(c, "idle")
  /\ UNCHANGED <<mu, operation, flock, reply>>

DropFlock(c) ==
  /\ pc[c] = "releasing"
  /\ flock' = IF flock = c THEN NoCaller ELSE flock
  /\ Goto(c, "idle")
  /\ UNCHANGED <<mu, operation, reply>>

\* The process dies; the kernel closes its files and drops its flock.  The
\* process that takes its place starts with a fresh OperationLock.
Die(p) ==
  /\ pc' = [c \in Callers |-> IF ProcOf[c] = p THEN "idle" ELSE pc[c]]
  /\ mu' = [mu EXCEPT ![p] = NoCaller]
  /\ operation' = [operation EXCEPT ![p] = NoCaller]
  /\ flock' = IF flock # NoCaller /\ ProcOf[flock] = p THEN NoCaller ELSE flock
  /\ reply' = [c \in Callers |-> IF ProcOf[c] = p THEN "none" ELSE reply[c]]

-----------------------------------------------------------------------------
CallerStep(c) ==
  \/ RefuseBusy(c) \/ OpenLockFile(c) \/ FailToOpen(c) \/ RefuseFlock(c)
  \/ GetFlock(c) \/ FailToSecure(c) \/ Grant(c) \/ ClearFields(c) \/ DropFlock(c)

LockNext == \/ \E c \in Callers : CallerStep(c)
            \/ \E p \in Procs : Die(p)

LockSpec == LockInit /\ [][LockNext]_lockVars

\* TryAcquire has no unbounded wait once it has the mutex, and every caller
\* of the source defers or calls its release function.
LockFairness ==
  \A c \in Callers :
    /\ WF_lockVars(FailToOpen(c) \/ RefuseFlock(c) \/ GetFlock(c))
    /\ WF_lockVars(FailToSecure(c) \/ Grant(c))
    /\ WF_lockVars(ClearFields(c))
    /\ WF_lockVars(DropFlock(c))

FairLockSpec == LockSpec /\ LockFairness

-----------------------------------------------------------------------------
(* Two callers, of one process or of two, never run an operation at the   *)
(* same time: TryAcquire, control.go:23, over flock and the two fields.   *)
MutualExclusion ==
  \A c, d \in Callers : pc[c] = "held" /\ pc[d] = "held" => c = d

(* The flock is never left with a caller that is not acquiring, running   *)
(* or releasing: every error return of TryAcquire after the flock, and    *)
(* every release, gives it back, or no later operation of any process     *)
(* could start again.                                                     *)
NoOrphanFlock ==
  flock # NoCaller => pc[flock] \in {"locked", "held", "releasing"}

(* The inductive invariant: the mutex of a process covers its caller      *)
(* inside TryAcquire, and an operation that runs is covered by both       *)
(* levels, the fields of its own process and the flock, so that callers   *)
(* of its own process and of the other one are refused (control.go:23).   *)
LockInv ==
  /\ LockTypeOK
  /\ NoOrphanFlock
  /\ \A c \in Callers :
       /\ pc[c] \in {"opening", "locked"} <=> mu[ProcOf[c]] = c
       /\ pc[c] \in {"locked", "held", "releasing"} => flock = c
       /\ pc[c] = "held" <=> operation[ProcOf[c]] = c
  /\ \A p \in Procs :
       /\ mu[p] # NoCaller => ProcOf[mu[p]] = p
       /\ operation[p] # NoCaller => ProcOf[operation[p]] = p

(* Every operation that was granted the lock ends with the flock free for *)
(* the next one: the release function and a process death both drop it.   *)
FlockIsHandedOver ==
  \A c \in Callers : pc[c] = "held" ~> flock # c

-----------------------------------------------------------------------------
(* The lock implements its abstract promise.                              *)
owner == IF \E c \in Callers : pc[c] = "held"
         THEN CHOOSE c \in Callers : pc[c] = "held"
         ELSE NoCaller

Abs == INSTANCE ExclusiveOperation WITH owner <- owner

(* Two-level locking with per-step failures and process deaths behaves as *)
(* a single owner that changes only through "nobody".                     *)
ImplementsExclusive == Abs!AbsSpec
=============================================================================
