------------------------------ MODULE ReviewAssist ------------------------------
(***************************************************************************)
(* AI Assist for review groups: QueueAIAssist, Approve and Delete of      *)
(* handlers/review.go and the worker of handlers/review_ai_worker.go.     *)
(* The job is a column of the group's row; the user's hint is kept in a   *)
(* map of the process, outside the transaction that queues the job.       *)
(*                                                                         *)
(* Requests that queue a job are numbered per group; a hint and a         *)
(* suggestion are known by the number of the request they belong to.      *)
(* QueueAIAssist holds the row lock from its checks to its commit, and    *)
(* the worker's claim skips locked rows.                                   *)
(***************************************************************************)
EXTENDS Naturals, FiniteSets

CONSTANTS Groups, NoGroup,
          MaxRequests,  \* bound: requests per group
          MaxCrashes,   \* bound: restarts of the API
          FaultSets     \* the faults behaviours may have

\* "db": a statement fails, or COMMIT reports a false error
ASSUME AssistAssumption == /\ NoGroup \notin Groups /\ MaxRequests \in Nat
                           /\ MaxCrashes \in Nat /\ FaultSets \subseteq SUBSET {"db"}

None == 0

VARIABLES group,      \* upload_groups.status
          ai,         \* ai_assist_status
          asked,      \* the request the job columns belong to
          shown,      \* the request whose suggestion the row shows
          hints,      \* reviewAssistHints
          before,     \* pairs of groups: the first one's last request began earlier
          locked,     \* groups whose row a queueing request has locked
          failing,    \* groups whose failed request has still to forget its hint
          wpc, job,   \* the worker and the group it works on
          used,       \* the hint it gave to the provider
          crashes,
          faults      \* the one of FaultSets that this behaviour has

rowVars    == <<group, ai, asked, shown>>
queueVars  == <<before, locked, failing>>
workerVars == <<wpc, job, used>>
runVars    == <<crashes, faults>>
vars       == <<rowVars, hints, queueVars, workerVars, runVars>>

Requests == 1 .. MaxRequests
Busy     == {"queued", "processing"}

TypeOK ==
  /\ group \in [Groups -> {"pending", "approved", "gone"}]
  /\ ai \in [Groups -> {"idle", "succeeded", "failed"} \cup Busy]
  /\ asked \in [Groups -> 0 .. MaxRequests] /\ shown \in [Groups -> 0 .. MaxRequests]
  /\ hints \in [Groups -> 0 .. MaxRequests] /\ before \in SUBSET (Groups \X Groups)
  /\ locked \in SUBSET Groups /\ failing \in SUBSET Groups
  /\ wpc \in {"start", "idle", "load", "call", "answer", "fail"}
  /\ job \in Groups \cup {NoGroup} /\ used \in 0 .. MaxRequests
  /\ crashes \in 0 .. MaxCrashes /\ faults \in FaultSets

Init ==
  /\ group = [g \in Groups |-> "pending"] /\ ai = [g \in Groups |-> "idle"]
  /\ asked = [g \in Groups |-> None] /\ shown = [g \in Groups |-> None]
  /\ hints = [g \in Groups |-> None] /\ before = {}
  /\ locked = {} /\ failing = {}
  /\ wpc = "start" /\ job = NoGroup /\ used = None
  /\ crashes = 0 /\ faults \in FaultSets

-----------------------------------------------------------------------------
(* Requests.  Every group has processed images and none in flight.        *)

\* A mistake to catch: a request without a hint leaves the older one.
RememberOnly(g, number, hint) ==
  hints' = [hints EXCEPT ![g] = IF hint THEN number ELSE @]

\* rememberReviewAssistHint: no hint forgets an older one.
Remember(g, number, hint) ==
  hints' = [hints EXCEPT ![g] = IF hint THEN number ELSE None]

\* QueueAIAssist up to its UPDATE.  The queue is in the order of now(), the time
\* the transaction began; one that waits for the row begins when it gets it.
LockForQueue(g) ==
  /\ g \notin locked /\ group[g] = "pending" /\ ai[g] \notin Busy
  /\ asked[g] < MaxRequests
  /\ \E hint \in BOOLEAN : Remember(g, asked[g] + 1, hint)
  /\ locked' = locked \cup {g}
  /\ before' = {p \in before : p[1] # g} \cup {<<h, g>> : h \in Groups \ {g}}
  /\ UNCHANGED <<rowVars, failing, workerVars, runVars>>

\* A mistake to catch: the older suggestion stays in the row.
WriteQueuedOver(g) ==
  /\ ai' = [ai EXCEPT ![g] = "queued"]
  /\ asked' = [asked EXCEPT ![g] = @ + 1]
  /\ UNCHANGED <<group, shown>>

\* The UPDATE of the row and the COMMIT that shows it.
WriteQueued(g) ==
  /\ ai' = [ai EXCEPT ![g] = "queued"]
  /\ asked' = [asked EXCEPT ![g] = @ + 1]
  /\ shown' = [shown EXCEPT ![g] = None]
  /\ UNCHANGED group

\* The lock goes with the transaction; after an error the hint is forgotten later.
CommitQueue(g) ==
  /\ g \in locked
  /\ \/ WriteQueued(g) /\ UNCHANGED failing
     \/ /\ "db" \in faults
        /\ WriteQueued(g) \/ UNCHANGED rowVars
        /\ failing' = failing \cup {g}
  /\ locked' = locked \ {g}
  /\ UNCHANGED <<hints, before, workerVars, runVars>>

ForgetHint(g) ==
  /\ g \in failing /\ failing' = failing \ {g}
  /\ hints' = [hints EXCEPT ![g] = None]
  /\ UNCHANGED <<rowVars, before, locked, workerVars, runVars>>

\* Mistakes to catch: the job is not looked at, or the row is not locked.
ApproveBusy(g) ==
  /\ g \notin locked /\ group[g] = "pending"
  /\ group' = [group EXCEPT ![g] = "approved"]
  /\ UNCHANGED <<ai, asked, shown, hints, queueVars, workerVars, runVars>>

ApproveUnlocked(g) ==
  /\ group[g] = "pending" /\ ai[g] \notin Busy
  /\ group' = [group EXCEPT ![g] = "approved"]
  /\ UNCHANGED <<ai, asked, shown, hints, queueVars, workerVars, runVars>>

ApproveGroup(g) ==
  /\ g \notin locked /\ group[g] = "pending" /\ ai[g] \notin Busy
  /\ group' = [group EXCEPT ![g] = "approved"]
  /\ UNCHANGED <<ai, asked, shown, hints, queueVars, workerVars, runVars>>

\* Delete does not look at the job.
DiscardGroup(g) ==
  /\ g \notin locked /\ group[g] = "pending"
  /\ group' = [group EXCEPT ![g] = "gone"] /\ ai' = [ai EXCEPT ![g] = "idle"]
  /\ shown' = [shown EXCEPT ![g] = None]
  /\ UNCHANGED <<asked, hints, queueVars, workerVars, runVars>>

-----------------------------------------------------------------------------
(* The worker *)
WorkerGoes(label) == wpc' = label

\* A mistake to catch: a restarted worker does not look for jobs left behind.
ResetNothing ==
  /\ wpc = "start" /\ WorkerGoes("idle")
  /\ UNCHANGED <<rowVars, hints, queueVars, job, used, runVars>>

\* resetStuckProcessing; an error is logged.
ResetStuckProcessing ==
  /\ wpc = "start" /\ WorkerGoes("idle")
  /\ \/ ai' = [g \in Groups |-> IF ai[g] = "processing" THEN "queued" ELSE ai[g]]
     \/ "db" \in faults /\ UNCHANGED ai
  /\ UNCHANGED <<group, asked, shown, hints, queueVars, job, used, runVars>>

Queued == {g \in Groups \ locked : group[g] # "gone" /\ ai[g] = "queued"}

\* claimNextJob: the oldest request whose row nobody has locked.
ClaimNextJob ==
  /\ wpc = "idle"
  /\ \E g \in Queued :
       /\ \A h \in Queued : <<h, g>> \notin before
       /\ job' = g /\ ai' = [ai EXCEPT ![g] = "processing"]
  /\ WorkerGoes("load")
  /\ UNCHANGED <<group, asked, shown, hints, queueVars, used, runVars>>

JobDone == WorkerGoes("idle") /\ job' = NoGroup /\ used' = None

\* A mistake to catch: a job that cannot be loaded is left as it is.
LoadOrReturn ==
  /\ wpc = "load"
  /\ \/ /\ used' = hints[job] /\ hints' = [hints EXCEPT ![job] = None]
        /\ WorkerGoes("call") /\ UNCHANGED job
     \/ JobDone /\ UNCHANGED hints
  /\ UNCHANGED <<rowVars, queueVars, runVars>>

\* loadGroup, the provider and the images, each of which may be missing; then
\* consumeReviewAssistHint.
LoadJob ==
  /\ wpc = "load"
  /\ \/ /\ group[job] = "pending"
        /\ used' = hints[job] /\ hints' = [hints EXCEPT ![job] = None]
        /\ WorkerGoes("call") /\ UNCHANGED job
     \/ WorkerGoes("fail") /\ UNCHANGED <<hints, job, used>>
     \/ group[job] = "approved" /\ JobDone /\ UNCHANGED hints
  /\ UNCHANGED <<rowVars, queueVars, runVars>>

\* The provider answers, refuses or times out.
CallProvider ==
  /\ wpc = "call" /\ (WorkerGoes("answer") \/ WorkerGoes("fail"))
  /\ UNCHANGED <<rowVars, hints, queueVars, job, used, runVars>>

\* UPDATE ... WHERE id = $1 AND status <> 'approved'; it waits for a row lock.
Mark(outcome, suggestion) ==
  /\ job \notin locked
  /\ \/ /\ group[job] = "pending"
        /\ ai' = [ai EXCEPT ![job] = outcome]
        /\ shown' = [shown EXCEPT ![job] = suggestion]
     \/ /\ group[job] # "pending" \/ "db" \in faults
        /\ UNCHANGED <<ai, shown>>
  /\ JobDone
  /\ UNCHANGED <<group, asked, hints, queueVars, runVars>>

MarkSucceeded == wpc = "answer" /\ Mark("succeeded", asked[job])
MarkFailed    == wpc = "fail" /\ Mark("failed", shown[job])

-----------------------------------------------------------------------------
\* The API restarts: the open transaction is rolled back and the hints are lost.
Restart ==
  /\ crashes < MaxCrashes /\ crashes' = crashes + 1
  /\ hints' = [g \in Groups |-> None]
  /\ locked' = {} /\ failing' = {}
  /\ wpc' = "start" /\ job' = NoGroup /\ used' = None
  /\ UNCHANGED <<rowVars, before, faults>>

WorkerStep == \/ ResetStuckProcessing \/ ClaimNextJob \/ LoadJob
              \/ CallProvider \/ MarkSucceeded \/ MarkFailed

Next ==
  \/ \E g \in Groups : \/ LockForQueue(g) \/ CommitQueue(g) \/ ForgetHint(g)
                      \/ ApproveGroup(g) \/ DiscardGroup(g)
  \/ WorkerStep \/ Restart

Spec == Init /\ [][Next]_vars

\* The worker's ticker fires, providers answer or time out, requests finish.
FairSpec == Spec /\ WF_vars(WorkerStep)
            /\ \A g \in Groups : WF_vars(CommitQueue(g))

-----------------------------------------------------------------------------
(* Approval and the job exclude each other: an approved group has no      *)
(* waiting or running job, although the worker's state, the row and the   *)
(* request are three parties (review.go:606, review_ai_worker.go:213).    *)
ApprovedHasNoJob == \A g \in Groups : group[g] = "approved" => ai[g] \notin Busy

(* The suggestion a reviewer sees answers the last request for that       *)
(* group, never an earlier one: markSucceeded does not compare requests,  *)
(* it relies on no request being accepted while a job is open.            *)
SuggestionIsCurrent ==
  \A g \in Groups : group[g] = "pending" /\ shown[g] # None
    => shown[g] = asked[g] /\ ai[g] = "succeeded"

(* The hint given to the provider is the one of the request that is being *)
(* answered, or none; an old hint left by a job that failed early is      *)
(* never used for a later request (review_ai_worker.go:442-469).          *)
HintIsOfThisRequest == used # None => used = asked[job]

(* Only a group the worker holds, or one a dead worker left before the    *)
(* next reset, is in processing: no other group is locked out of approval *)
(* (review_ai_worker.go:124), unless a statement fails.                   *)
ProcessingIsHeld ==
  faults = {} /\ wpc # "start" => \A g \in Groups : ai[g] = "processing" => job = g

(* The inductive invariant: while a request holds the row lock its group  *)
(* is undecided and has no job; the group the worker holds is in          *)
(* processing unless it was discarded; the hint kept for a group with a   *)
(* job is the one of that job (review.go:501-560,                         *)
(* review_ai_worker.go:164-264).                                          *)
AssistInv ==
  /\ TypeOK
  /\ ApprovedHasNoJob /\ SuggestionIsCurrent /\ HintIsOfThisRequest
  /\ \A g \in locked : /\ group[g] = "pending" /\ ai[g] \notin Busy
                       /\ asked[g] < MaxRequests /\ hints[g] \in {None, asked[g] + 1}
  /\ \A g \in Groups : ai[g] \in Busy => hints[g] \in {None, asked[g]}
  /\ IF wpc \in {"start", "idle"}
     THEN used = None
     ELSE /\ job # NoGroup /\ group[job] # "approved"
          /\ group[job] = "pending" => ai[job] = "processing"

(* Every queued job ends, also over restarts of the API: with a           *)
(* suggestion, an error or the discarded group; unless a statement fails. *)
AssistEnds == faults = {} => \A g \in Groups : ai[g] = "queued" ~> ai[g] \notin Busy
=============================================================================
