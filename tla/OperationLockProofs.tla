------------------------- MODULE OperationLockProofs -------------------------
(***************************************************************************)
(* Mutual exclusion of OperationLock and its refinement of                *)
(* ExclusiveOperation, for every set of processes and goroutines.         *)
(***************************************************************************)
EXTENDS OperationLock, TLAPS

(* LockInv holds when the processes start: nobody has the mutex or flock. *)
LEMMA LockInvInit == LockInit => LockInv
  BY LockAssumption DEF LockInit, LockInv, LockTypeOK, NoOrphanFlock, Pcs, Replies

(* Every step of TryAcquire, of a release and of a process death keeps    *)
(* LockInv (control.go:23-65).                                            *)
LEMMA LockInvStep == LockInv /\ [LockNext]_lockVars => LockInv'
<1> SUFFICES ASSUME LockInv, [LockNext]_lockVars PROVE LockInv'
  OBVIOUS
<1> USE LockAssumption DEF LockInv, LockTypeOK, NoOrphanFlock, Pcs, Replies,
                           Goto, Return, LeaveMutex
<1>1. ASSUME NEW c \in Callers, RefuseBusy(c) PROVE LockInv'
  BY <1>1 DEF RefuseBusy
<1>2. ASSUME NEW c \in Callers, OpenLockFile(c) PROVE LockInv'
  BY <1>2 DEF OpenLockFile
<1>3. ASSUME NEW c \in Callers, FailToOpen(c) PROVE LockInv'
  BY <1>3 DEF FailToOpen
<1>4. ASSUME NEW c \in Callers, RefuseFlock(c) PROVE LockInv'
  BY <1>4 DEF RefuseFlock
<1>5. ASSUME NEW c \in Callers, GetFlock(c) PROVE LockInv'
  BY <1>5 DEF GetFlock
<1>6. ASSUME NEW c \in Callers, FailToSecure(c) PROVE LockInv'
  BY <1>6 DEF FailToSecure
<1>7. ASSUME NEW c \in Callers, Grant(c) PROVE LockInv'
  BY <1>7 DEF Grant
<1>8. ASSUME NEW c \in Callers, ClearFields(c) PROVE LockInv'
  BY <1>8 DEF ClearFields
<1>9. ASSUME NEW c \in Callers, DropFlock(c) PROVE LockInv'
  BY <1>9 DEF DropFlock
<1>10. ASSUME NEW p \in Procs, Die(p) PROVE LockInv'
  BY <1>10 DEF Die
<1>11. CASE UNCHANGED lockVars
  BY <1>11 DEF lockVars
<1> QED
  BY <1>1, <1>2, <1>3, <1>4, <1>5, <1>6, <1>7, <1>8, <1>9, <1>10, <1>11
     DEF LockNext, CallerStep

(* Both levels of the lock stay consistent in every behaviour.            *)
THEOREM LockInvariant == LockSpec => []LockInv
<1> QED BY LockInvInit, LockInvStep, PTL DEF LockSpec

(* LockInv rules out two operations at once.                              *)
LEMMA LockInvExcludes == LockInv => MutualExclusion
  BY LockAssumption DEF LockInv, MutualExclusion

(* No two operations of the API or the CLI ever run at the same time,     *)
(* with any number of processes and goroutines.                           *)
THEOREM OperationsExclude == LockSpec => []MutualExclusion
<1> QED BY LockInvariant, LockInvExcludes, PTL

-----------------------------------------------------------------------------
(* When an operation runs, it is the owner of the abstract lock.          *)
LEMMA OwnerIsHolder ==
  ASSUME LockInv, NEW c \in Callers, pc[c] = "held"
  PROVE  owner = c
  BY LockInvExcludes DEF owner, MutualExclusion

(* When none runs, the abstract lock is free.                             *)
LEMMA OwnerIsFree ==
  ASSUME \A c \in Callers : pc[c] # "held"
  PROVE  owner = NoCaller
  BY DEF owner

(* The owner of the abstract lock runs an operation, or there is none.    *)
LEMMA OwnerCases ==
  ASSUME LockInv
  PROVE  \/ owner = NoCaller /\ \A c \in Callers : pc[c] # "held"
         \/ \E c \in Callers : owner = c /\ pc[c] = "held"
  BY OwnerIsHolder, OwnerIsFree

(* A step that moves no caller into or out of its operation leaves the    *)
(* abstract owner as it is.                                               *)
LEMMA OwnerUnchanged ==
  ASSUME LockInv, LockInv',
         \A c \in Callers : pc[c] = "held" <=> pc'[c] = "held"
  PROVE  owner' = owner
<1>1. CASE \A c \in Callers : pc[c] # "held"
  <2>1. \A c \in Callers : pc'[c] # "held"
    BY <1>1
  <2>2. owner = NoCaller
    BY <1>1, OwnerIsFree
  <2>3. owner' = NoCaller
    BY <2>1 DEF owner
  <2> QED BY <2>2, <2>3
<1>2. ASSUME NEW c \in Callers, pc[c] = "held" PROVE owner' = owner
  <2>1. owner = c
    BY <1>2, OwnerIsHolder
  <2>2. pc'[c] = "held"
    BY <1>2
  <2>3. \A d \in Callers : pc'[d] = "held" => d = c
    BY <2>2 DEF LockInv
  <2>4. owner' = c
    BY <2>2, <2>3 DEF owner
  <2> QED BY <2>1, <2>4
<1> QED BY <1>1, <1>2

(* Each step of the two-level lock is a step of the abstract lock or      *)
(* leaves its owner alone.                                                *)
LEMMA LockStepRefines ==
  ASSUME LockInv, LockInv', [LockNext]_lockVars
  PROVE  [Abs!AbsNext]_owner
<1> USE LockAssumption DEF Goto, Return, LeaveMutex
<1>1. ASSUME NEW c \in Callers, Grant(c) PROVE [Abs!AbsNext]_owner
  <2>1. \A d \in Callers : pc[d] # "held"
    BY <1>1 DEF Grant, LockInv, LockTypeOK
  <2>2. owner = NoCaller
    BY <2>1, OwnerIsFree
  <2>3. pc'[c] = "held" /\ \A d \in Callers : pc'[d] = "held" => d = c
    BY <1>1, <2>1 DEF Grant, LockInv, LockTypeOK
  <2>4. owner' = c
    BY <2>3 DEF owner
  <2> QED BY <2>2, <2>4 DEF Abs!AbsNext, Abs!Begin
<1>2. ASSUME NEW c \in Callers, ClearFields(c) PROVE [Abs!AbsNext]_owner
  <2>1. owner = c
    BY <1>2, OwnerIsHolder DEF ClearFields
  <2>2. \A d \in Callers : pc'[d] # "held"
    BY <1>2 DEF ClearFields, LockInv, LockTypeOK
  <2>3. owner' = NoCaller
    BY <2>2 DEF owner
  <2> QED BY <2>1, <2>3 DEF Abs!AbsNext, Abs!End
<1>3. ASSUME NEW p \in Procs, Die(p) PROVE [Abs!AbsNext]_owner
  <2>1. CASE \E c \in Callers : pc[c] = "held" /\ ProcOf[c] = p
    <3>1. PICK c \in Callers : pc[c] = "held" /\ ProcOf[c] = p
      BY <2>1
    <3>2. owner = c
      BY <3>1, OwnerIsHolder
    <3>3. \A d \in Callers : pc'[d] # "held"
      BY <1>3, <3>1, LockInvExcludes DEF Die, MutualExclusion
    <3>4. owner' = NoCaller
      BY <3>3 DEF owner
    <3> QED BY <3>2, <3>4 DEF Abs!AbsNext, Abs!End
  <2>2. CASE \A c \in Callers : pc[c] = "held" => ProcOf[c] # p
    <3>1. \A c \in Callers : pc[c] = "held" <=> pc'[c] = "held"
      BY <1>3, <2>2 DEF Die
    <3> QED BY <3>1, OwnerUnchanged
  <2> QED BY <2>1, <2>2
<1>4. ASSUME NEW c \in Callers,
             RefuseBusy(c) \/ OpenLockFile(c) \/ FailToOpen(c) \/ RefuseFlock(c)
               \/ GetFlock(c) \/ FailToSecure(c) \/ DropFlock(c)
      PROVE  [Abs!AbsNext]_owner
  <2>1. \A d \in Callers : pc[d] = "held" <=> pc'[d] = "held"
    BY <1>4 DEF RefuseBusy, OpenLockFile, FailToOpen, RefuseFlock, GetFlock,
                FailToSecure, DropFlock, LockInv, LockTypeOK
  <2> QED BY <2>1, OwnerUnchanged
<1>5. CASE UNCHANGED lockVars
  BY <1>5, OwnerUnchanged DEF lockVars
<1> QED BY <1>1, <1>2, <1>3, <1>4, <1>5 DEF LockNext, CallerStep

(* OperationLock implements ExclusiveOperation: seen from its callers,    *)
(* two processes with a mutex and a flock each are one lock with one      *)
(* owner.                                                                 *)
THEOREM LockRefinement == LockSpec => ImplementsExclusive
<1>1. LockInit => Abs!AbsInit
  BY OwnerIsFree DEF LockInit, Abs!AbsInit
<1>2. LockInv /\ LockInv' /\ [LockNext]_lockVars => [Abs!AbsNext]_owner
  BY LockStepRefines
<1> QED BY <1>1, <1>2, LockInvariant, PTL DEF LockSpec, Abs!AbsSpec, ImplementsExclusive
=============================================================================
