-------------------------- MODULE ReviewAssistProofs --------------------------
(***************************************************************************)
(* Approval, suggestions and hints of AI Assist, for any number of groups *)
(* and requests and with failing statements.                              *)
(***************************************************************************)
EXTENDS ReviewAssist, TLAPS

(* No group has a job, a suggestion or a hint at first. *)
LEMMA AssistInvInit == Init => AssistInv
  BY AssistAssumption
     DEF Init, AssistInv, TypeOK, ApprovedHasNoJob, SuggestionIsCurrent, HintIsOfThisRequest,
         Busy, None

(* The steps of the requests keep AssistInv (review.go:490-594, 596, 764). *)
LEMMA RequestStep ==
  ASSUME AssistInv, NEW g \in Groups,
         \/ LockForQueue(g) \/ CommitQueue(g) \/ ForgetHint(g)
         \/ ApproveGroup(g) \/ DiscardGroup(g)
  PROVE  AssistInv'
<1> USE AssistAssumption
    DEF AssistInv, TypeOK, ApprovedHasNoJob, SuggestionIsCurrent, HintIsOfThisRequest,
        Busy, None, rowVars, queueVars, workerVars, runVars
<1>1. CASE LockForQueue(g)
  BY <1>1 DEF LockForQueue, Remember
<1>2. CASE CommitQueue(g)
  <2>1. CASE WriteQueued(g)
    BY <1>2, <2>1 DEF CommitQueue, WriteQueued
  <2>2. CASE UNCHANGED rowVars
    BY <1>2, <2>2 DEF CommitQueue
  <2> QED BY <1>2, <2>1, <2>2 DEF CommitQueue
<1>3. CASE ForgetHint(g)
  BY <1>3 DEF ForgetHint
<1>4. CASE ApproveGroup(g)
  BY <1>4 DEF ApproveGroup
<1>5. CASE DiscardGroup(g)
  BY <1>5 DEF DiscardGroup
<1> QED BY <1>1, <1>2, <1>3, <1>4, <1>5

(* The steps of the worker keep AssistInv (review_ai_worker.go:124-264). *)
LEMMA WorkerKeeps == ASSUME AssistInv, WorkerStep PROVE AssistInv'
<1> USE AssistAssumption
    DEF AssistInv, TypeOK, ApprovedHasNoJob, SuggestionIsCurrent, HintIsOfThisRequest,
        Busy, None, rowVars, queueVars, workerVars, runVars, WorkerGoes, JobDone
<1>1. CASE ResetStuckProcessing
  BY <1>1 DEF ResetStuckProcessing
<1>2. CASE ClaimNextJob
  BY <1>2 DEF ClaimNextJob, Queued
<1>3. CASE LoadJob
  BY <1>3 DEF LoadJob
<1>4. CASE CallProvider
  BY <1>4 DEF CallProvider
<1>5. CASE MarkSucceeded
  BY <1>5 DEF MarkSucceeded, Mark
<1>6. CASE MarkFailed
  BY <1>6 DEF MarkFailed, Mark
<1> QED BY <1>1, <1>2, <1>3, <1>4, <1>5, <1>6 DEF WorkerStep

(* Every step keeps AssistInv. *)
LEMMA AssistInvStep == AssistInv /\ [Next]_vars => AssistInv'
<1> SUFFICES ASSUME AssistInv, [Next]_vars PROVE AssistInv'
  OBVIOUS
<1>1. CASE Restart
  BY <1>1, AssistAssumption
     DEF Restart, AssistInv, TypeOK, ApprovedHasNoJob, SuggestionIsCurrent,
         HintIsOfThisRequest, Busy, None, rowVars
<1>2. CASE UNCHANGED vars
  BY <1>2 DEF vars, rowVars, queueVars, workerVars, runVars, AssistInv, TypeOK, ApprovedHasNoJob,
              SuggestionIsCurrent, HintIsOfThisRequest
<1> QED BY <1>1, <1>2, RequestStep, WorkerKeeps DEF Next

(* AssistInv holds in every behaviour, with any number of groups,         *)
(* requests and restarts and whatever statements fail.                    *)
THEOREM AssistInvariant == Spec => []AssistInv
<1> QED BY AssistInvInit, AssistInvStep, PTL DEF Spec

(* A group that was approved never has a waiting or running job: the      *)
(* check of Approve and the one of QueueAIAssist exclude each other.      *)
THEOREM ApprovalWaitsForJob == Spec => []ApprovedHasNoJob
<1>1. AssistInv => ApprovedHasNoJob
  BY DEF AssistInv
<1> QED BY <1>1, AssistInvariant, PTL

(* A reviewer never sees the suggestion of an earlier request.            *)
THEOREM SuggestionsAreCurrent == Spec => []SuggestionIsCurrent
<1>1. AssistInv => SuggestionIsCurrent
  BY DEF AssistInv
<1> QED BY <1>1, AssistInvariant, PTL

(* The provider never gets the hint of an earlier request.                *)
THEOREM HintsAreCurrent == Spec => []HintIsOfThisRequest
<1>1. AssistInv => HintIsOfThisRequest
  BY DEF AssistInv
<1> QED BY <1>1, AssistInvariant, PTL

(* A discarded group has no job, and an idle worker holds none.            *)
HeldInv == /\ AssistInv /\ ProcessingIsHeld
           /\ \A g \in Groups : group[g] = "gone" => ai[g] = "idle"
           /\ wpc \in {"start", "idle"} => job = NoGroup

LEMMA HeldStep == HeldInv /\ [Next]_vars => HeldInv'
<1> SUFFICES ASSUME HeldInv, [Next]_vars PROVE HeldInv'
  OBVIOUS
<1>0. AssistInv'
  BY AssistInvStep DEF HeldInv
<1> USE AssistAssumption
    DEF HeldInv, AssistInv, TypeOK, ProcessingIsHeld, Busy, rowVars, queueVars, workerVars, runVars
<1>1. ASSUME NEW g \in Groups, \/ LockForQueue(g) \/ ForgetHint(g)
                               \/ ApproveGroup(g) \/ DiscardGroup(g)
      PROVE  HeldInv'
  BY <1>0, <1>1 DEF LockForQueue, ForgetHint, ApproveGroup, DiscardGroup
<1>2. ASSUME NEW g \in Groups, CommitQueue(g)
      PROVE  HeldInv'
  <2>1. CASE WriteQueued(g)
    BY <1>0, <1>2, <2>1 DEF CommitQueue, WriteQueued
  <2>2. CASE UNCHANGED rowVars
    BY <1>0, <1>2, <2>2 DEF CommitQueue
  <2> QED BY <1>2, <2>1, <2>2 DEF CommitQueue
<1>3. CASE ResetStuckProcessing
  BY <1>0, <1>3 DEF ResetStuckProcessing, WorkerGoes
<1>4. CASE ClaimNextJob
  BY <1>0, <1>4 DEF ClaimNextJob, Queued, WorkerGoes
<1>5. CASE LoadJob \/ CallProvider
  BY <1>0, <1>5 DEF LoadJob, CallProvider, WorkerGoes, JobDone
<1>6. CASE MarkSucceeded \/ MarkFailed
  BY <1>0, <1>6 DEF MarkSucceeded, MarkFailed, Mark, WorkerGoes, JobDone
<1>7. CASE Restart \/ UNCHANGED vars
  BY <1>0, <1>7 DEF Restart, vars
<1> QED BY <1>1, <1>2, <1>3, <1>4, <1>5, <1>6, <1>7 DEF Next, WorkerStep

(* Without failing statements, only the group the worker holds is locked  *)
(* out of approval once the worker has looked for jobs left behind.       *)
THEOREM OnlyTheHeldJobRuns == Spec => []ProcessingIsHeld
<1>1. Init => HeldInv
  BY AssistInvInit DEF Init, HeldInv, ProcessingIsHeld
<1>2. HeldInv => ProcessingIsHeld
  BY DEF HeldInv
<1> QED BY <1>1, <1>2, HeldStep, PTL DEF Spec
=============================================================================
