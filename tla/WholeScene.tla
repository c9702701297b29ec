------------------------------ MODULE WholeScene ------------------------------
(***************************************************************************)
(* One whole-scene scan: its analysis runs, the candidates they propose,   *)
(* the crops that show them, the review requests that approve or reject    *)
(* candidates until the scan is cleaned up (handlers/whole_scene.go), and  *)
(* the worker that serves two queues, analysis runs and candidate AI       *)
(* Assist (handlers/whole_scene_ai_worker.go, whole_scene_crops.go).       *)
(*                                                                         *)
(* Several of the transactions lock the same rows in different orders.  A  *)
(* transaction is therefore a plan of statements, each of which takes one  *)
(* kind of row lock and waits for those it conflicts with; what it writes  *)
(* is visible to others after its commit.  PostgreSQL aborts a transaction *)
(* of every cycle of waiting ones.                                         *)
(***************************************************************************)
EXTENDS Naturals, Sequences, FiniteSets

CONSTANTS Clients,      \* requests in progress at the same time
          Worker, Nobody,
          Candidates,   \* identities of whole_scene_candidates rows
          Images,       \* identities of crop images and their files
          NoImage,
          MaxRuns,      \* bound on analysis runs
          Scenarios     \* what clients ask for, the faults, bounds on both

Decisions == {"approve", "reject"}
Requests  == Decisions \cup {"queue", "add", "patch", "assist", "append", "delimg", "delete"}
TxOps == Requests \cup {"idle", "claim", "fail", "save", "reset", "requeue"}

\* "db": a statement of the worker fails and its transaction is rolled back
\* "victim": PostgreSQL may choose the worker's transaction to break a deadlock
\* "readback": the scan cannot be read after a commit, or the client went away
PossibleFaults == {"db", "victim", "readback"}

ASSUME SceneAssumption ==
  /\ Worker \notin Clients /\ Nobody \notin Candidates /\ NoImage \notin Images
  /\ MaxRuns \in Nat
  /\ Scenarios \subseteq [requests : SUBSET Requests, faults : SUBSET PossibleFaults,
                          asks : Nat, restarts : Nat]

Procs     == Clients \cup {Worker}
Runs      == 1 .. MaxRuns
Undecided == {"proposed", "edited"}
Open      == {"queued", "processing"}

VARIABLES scan,      \* whole_scene_scans.status, "none" and "gone" for no row
          source,    \* the source images: in flight, or all settled and usable or not
          runs,      \* whole_scene_analysis_runs.status by run_number
          status,    \* whole_scene_candidates.status, "none" and "gone" for no row
          run,       \* its analysis_run_id, 0 for a manual candidate
          assist,    \* its ai_assist_status
          row,       \* image_assets of a crop: a row without or with item_id, or none
          shows,     \* the candidate of whole_scene_candidate_crops
          files,     \* the crop images whose files exist
          tx,        \* what each request, and the worker, is doing
          job,       \* the run or the candidate the worker has claimed
          asked, restarts, scenario

sceneVars == <<scan, source, runs>>
candVars  == <<status, run, assist>>
imageVars == <<row, shows, files>>
limitVars == <<asked, restarts, scenario>>
vars      == <<sceneVars, candVars, imageVars, tx, job, limitVars>>

Exists     == scan \notin {"none", "gone"}
Queueable  == source = "usable"    \* every source image settled, one of them processed
May(fault) == fault \in scenario.faults
Asked(request) == /\ request \in scenario.requests /\ asked < scenario.asks
                  /\ asked' = asked + 1 /\ UNCHANGED <<restarts, scenario>>
HasRow(c)  == status[c] \notin {"none", "gone"}
Latest     == Cardinality({n \in Runs : runs[n] # "none"})
LatestIsOpen == Latest > 0 /\ runs[Latest] \in Open
CropsOf(c) == {i \in Images : row[i] = "crop" /\ shows[i] = c}

-----------------------------------------------------------------------------
(* Row locks.  "key" is the FOR KEY SHARE of a foreign key on the scan,   *)
(* "touch" its UPDATE, "scan" its FOR UPDATE; "cand" is one candidate and *)
(* "cands" all of the scan's; "run" is the latest analysis run; "rows" is *)
(* a DELETE that cascades from the scan; "count" locks nothing.           *)

\* A mistake to catch: each review counts what it sees, without the scan's lock.
ReviewPlanUnlocked == <<"cand", "count", "touch", "rows">>

ReviewPlan == <<"cand", "touch", "scan", "cands", "count", "rows">>

Plan == [op \in TxOps |->
  CASE op \in Decisions            -> ReviewPlan
    [] op \in {"append", "delimg"} -> <<"cand", "touch">>
    [] op = "add"                  -> <<"key", "touch">>
    [] op = "queue"                -> <<"scan", "run">>
    [] op = "delete"               -> <<"scan", "rows">>
    [] op \in {"claim", "fail", "reset"} -> <<"run", "touch">>
    [] op = "save"                 -> <<"key", "run", "touch">>
    [] op = "requeue"              -> <<"cands">>
    [] OTHER                       -> << >>]

Did(p)     == {Plan[tx[p].op][k] : k \in 1 .. tx[p].at}
NextLock(p) == Plan[tx[p].op][tx[p].at + 1]
Running(p) == tx[p].op # "idle" /\ ~tx[p].done
AtEnd(p)   == Running(p) /\ tx[p].at = Len(Plan[tx[p].op])

\* A review deletes the scan only when it counted no undecided candidate.
Deletes(p) == tx[p].op = "delete" \/ tx[p].saw = "reviewed"

HoldsCand(q, c) == {"cands", "rows"} \cap Did(q) # {} \/ ("cand" \in Did(q) /\ tx[q].cand = c)

Conflict(q, p) ==
  LET has(locks) == locks \cap Did(q) # {} IN
  CASE NextLock(p) = "cand"  -> HoldsCand(q, tx[p].cand)
    [] NextLock(p) = "cands" -> has({"cand", "cands", "rows"})
    [] NextLock(p) = "key"   -> has({"scan"})
    [] NextLock(p) = "touch" -> has({"touch", "scan"})
    [] NextLock(p) = "scan"  -> has({"key", "touch", "scan"})
    [] NextLock(p) = "run"   -> has({"run"}) \/ (has({"rows"}) /\ Deletes(q))
    [] NextLock(p) = "rows"  -> Deletes(p) /\ has({"cand", "cands", "run"})
    [] OTHER                 -> FALSE

WaitsFor(p) == IF Running(p) /\ ~AtEnd(p)
               THEN {q \in Procs \ {p} : Running(q) /\ Conflict(q, p)} ELSE {}

\* p waits in a cycle (of two or three transactions; more need more clients).
Deadlocked(p) ==
  \E q \in WaitsFor(p) : \/ p \in WaitsFor(q)
                         \/ \E r \in WaitsFor(q) : p \in WaitsFor(r)

Free(c) == \A q \in Procs : ~(Running(q) /\ HoldsCand(q, c))

Idle == [op |-> "idle", cand |-> Nobody, image |-> NoImage, at |-> 0, saw |-> "nothing",
         done |-> FALSE, doomed |-> {}]

\* Pool.Begin: no lock yet.
Begin(p, op, c, i) ==
  tx' = [tx EXCEPT ![p] = [Idle EXCEPT !.op = op, !.cand = c, !.image = i]]

-----------------------------------------------------------------------------
(* A statement finds its rows or ends the request with an error.          *)
Finds(p) ==
  LET t == tx[p] IN
  CASE NextLock(p) = "cand" ->
         /\ HasRow(t.cand)
         /\ t.op = "reject"  => status[t.cand] # "approved"
         /\ t.op = "approve" => status[t.cand] # "rejected"
         /\ t.op = "append"  => status[t.cand] \in Undecided
         /\ t.op = "delimg"  => row[t.image] = "crop" /\ shows[t.image] = t.cand
    [] NextLock(p) \in {"key", "scan"} ->
         Exists /\ (t.op = "queue" => Queueable)
    [] NextLock(p) = "run" /\ t.op = "queue" ->     \* bounded by MaxRuns
         Latest < MaxRuns \/ LatestIsOpen
    [] OTHER -> TRUE

\* A mistake to catch: a queued run does not stand for the next one.
SawStarted(p) ==
  CASE NextLock(p) = "run" /\ tx[p].op = "queue" ->
         IF Latest > 0 /\ runs[Latest] = "processing" THEN "open" ELSE "new"
    [] NextLock(p) = "count" ->
         IF \A c \in Candidates : HasRow(c) /\ c # tx[p].cand => status[c] \notin Undecided
         THEN "reviewed" ELSE "pending"
    [] OTHER -> tx[p].saw

\* What a statement reads that the commit depends on.
Saw(p) ==
  CASE NextLock(p) = "run" /\ tx[p].op = "queue" ->
         IF LatestIsOpen THEN "open" ELSE "new"
    [] NextLock(p) = "count" ->
         IF \A c \in Candidates : HasRow(c) /\ c # tx[p].cand => status[c] \notin Undecided
         THEN "reviewed" ELSE "pending"
    [] OTHER -> tx[p].saw

\* The crop of a proposed candidate is written once the candidate is inserted.
WritesCrop(p) == IF tx[p].op = "save" /\ NextLock(p) = "key" /\ tx[p].image # NoImage
                 THEN {tx[p].image} ELSE {}

Statement(p) ==
  /\ Running(p) /\ ~AtEnd(p) /\ WaitsFor(p) = {} /\ Finds(p)
  /\ tx' = [tx EXCEPT ![p].at = @ + 1, ![p].saw = Saw(p)]
  /\ files' = files \cup WritesCrop(p)
  /\ UNCHANGED <<sceneVars, candVars, row, shows, job, limitVars>>

\* Rollback.  UploadCandidateImages removes the file it wrote, the worker drops its job.
Abort(p) ==
  /\ tx' = [tx EXCEPT ![p] = Idle]
  /\ files' = IF tx[p].op = "append" THEN files \ {tx[p].image} ELSE files
  /\ job' = IF p = Worker THEN [job EXCEPT !.kind = "idle"] ELSE job
  /\ UNCHANGED <<sceneVars, candVars, row, shows, limitVars>>

Refuse(p) == Running(p) /\ ~AtEnd(p) /\ WaitsFor(p) = {} /\ ~Finds(p) /\ Abort(p)

\* Chosen to break a deadlock.
Victim(p) == Deadlocked(p) /\ (p = Worker => May("victim")) /\ Abort(p)

\* A client disconnects, or its request runs out of time.
Abandon(p) == p \in Clients /\ Running(p) /\ Abort(p)

LoseStatement == May("db") /\ Running(Worker) /\ Abort(Worker)

-----------------------------------------------------------------------------
(* Commits.                                                                *)
Committed(p, doomed) ==
  tx' = [tx EXCEPT ![p] = IF p = Worker THEN Idle
                          ELSE [@ EXCEPT !.done = TRUE, !.doomed = doomed]]

\* A mistake to catch: the clean-up lists the images that items now own.
CleanupOwned(p, newRow) ==
  /\ scan' = "gone" /\ runs' = [n \in Runs |-> "none"] /\ source' = "none"
  /\ status' = [c \in Candidates |-> IF HasRow(c) THEN "gone" ELSE status[c]]
  /\ row' = [i \in Images |-> IF newRow[i] = "crop" THEN "none" ELSE newRow[i]]
  /\ Committed(p, {i \in Images : newRow[i] # "none"})
  /\ UNCHANGED run
  /\ assist' = [c \in Candidates |-> IF HasRow(c) THEN "idle" ELSE assist[c]]

\* loadWholeSceneCleanupFilePaths: those of images no item owns.
CleanupFiles(newRow) == {i \in Images : newRow[i] = "crop"}

\* cleanupWholeSceneScanRows: rows without an item go, and after the commit their files.
Cleanup(p, newRow) ==
  /\ scan' = "gone" /\ runs' = [n \in Runs |-> "none"] /\ source' = "none"
  /\ status' = [c \in Candidates |-> IF HasRow(c) THEN "gone" ELSE status[c]]
  /\ assist' = [c \in Candidates |-> IF HasRow(c) THEN "idle" ELSE assist[c]]
  /\ row' = [i \in Images |-> IF newRow[i] = "crop" THEN "none" ELSE newRow[i]]
  /\ Committed(p, CleanupFiles(newRow))
  /\ UNCHANGED run

CommitDecision(p) ==
  LET c       == tx[p].cand
      approve == tx[p].op = "approve" /\ status[c] \in Undecided
      newRow  == [i \in Images |-> IF approve /\ i \in CropsOf(c) THEN "item" ELSE row[i]]
  IN /\ AtEnd(p) /\ tx[p].op \in Decisions
     /\ \/ tx[p].saw = "reviewed" /\ Cleanup(p, newRow)
        \/ /\ tx[p].saw # "reviewed" /\ Committed(p, {})
           /\ status' = [status EXCEPT ![c] =
                           IF tx[p].op = "approve" THEN "approved" ELSE "rejected"]
           /\ row' = newRow
           /\ UNCHANGED <<sceneVars, run, assist>>
     /\ UNCHANGED <<shows, files, job, limitVars>>

CommitDelete(p) ==
  /\ AtEnd(p) /\ tx[p].op = "delete" /\ Cleanup(p, row)
  /\ UNCHANGED <<shows, files, job, limitVars>>

\* AddManualCandidate
CommitAdd(p) ==
  /\ AtEnd(p) /\ tx[p].op = "add" /\ Committed(p, {})
  /\ status' = [status EXCEPT ![tx[p].cand] = "proposed"]
  /\ UNCHANGED <<sceneVars, run, assist, imageVars, job, limitVars>>

\* Both make a proposed candidate an edited one.
Edited(c) == status' = [status EXCEPT ![c] = IF @ = "proposed" THEN "edited" ELSE @]

\* AppendCandidateImages
CommitAppend(p) ==
  /\ AtEnd(p) /\ tx[p].op = "append" /\ Committed(p, {}) /\ Edited(tx[p].cand)
  /\ row' = [row EXCEPT ![tx[p].image] = "crop"]
  /\ shows' = [shows EXCEPT ![tx[p].image] = tx[p].cand]
  /\ UNCHANGED <<sceneVars, run, assist, files, job, limitVars>>

\* DeleteCandidateImage
CommitDeleteImage(p) ==
  /\ AtEnd(p) /\ tx[p].op = "delimg" /\ Committed(p, {tx[p].image}) /\ Edited(tx[p].cand)
  /\ row' = [row EXCEPT ![tx[p].image] = "none"]
  /\ UNCHANGED <<sceneVars, run, assist, shows, files, job, limitVars>>

CommitQueue(p) ==
  /\ AtEnd(p) /\ tx[p].op = "queue" /\ Committed(p, {})
  /\ IF tx[p].saw = "new"
     THEN runs' = [runs EXCEPT ![Latest + 1] = "queued"] /\ scan' = "queued"
     ELSE UNCHANGED runs /\ scan' = runs[Latest]
  /\ UNCHANGED <<source, candVars, imageVars, job, limitVars>>

\* GetScan after the commit.
CanRead == {Exists} \cup (IF May("readback") THEN {FALSE} ELSE {})

\* The response of a committed request: files go after the commit, or, when the scan
\* cannot be read, an image that was added is taken for one that was not.
Answer(p) ==
  /\ tx[p].done /\ tx' = [tx EXCEPT ![p] = Idle]
  /\ \E read \in CanRead :
       files' = files \ (CASE tx[p].op = "append" -> IF read THEN {} ELSE {tx[p].image}
                           [] tx[p].op = "delimg" -> IF read THEN tx[p].doomed ELSE {}
                           [] OTHER -> tx[p].doomed)
  /\ UNCHANGED <<sceneVars, candVars, row, shows, job, limitVars>>

-----------------------------------------------------------------------------
(* The scan, and what clients ask.                                         *)

CreateScan ==
  /\ scan = "none" /\ scan' = "created" /\ source' = "inflight"
  /\ UNCHANGED <<runs, candVars, imageVars, tx, job, limitVars>>

\* The intake worker has handled the last source image.
Settle ==
  /\ source = "inflight" /\ source' \in {"usable", "useless"}
  /\ UNCHANGED <<scan, runs, candVars, imageVars, tx, job, limitVars>>

\* Any identities will do for a new row or file; the number of them is a bound.
NewCandidates == {c \in Candidates : status[c] = "none" /\ \A p \in Procs : tx[p].cand # c}
NewImages     == {i \in Images : /\ row[i] = "none" /\ i \notin files
                                 /\ \A p \in Procs : tx[p].image # i /\ i \notin tx[p].doomed}
One(S) == {y \in S : y = CHOOSE x \in S : TRUE}

Ask(p, op, c, i) == tx[p].op = "idle" /\ Asked(op) /\ Begin(p, op, c, i)

RequestQueue(p) ==
  /\ scan # "none" /\ Ask(p, "queue", Nobody, NoImage)
  /\ UNCHANGED <<sceneVars, candVars, imageVars, job>>

RequestDelete(p) ==
  /\ scan # "none" /\ Ask(p, "delete", Nobody, NoImage)
  /\ UNCHANGED <<sceneVars, candVars, imageVars, job>>

RequestAdd(p) ==
  /\ scan # "none" /\ \E c \in One(NewCandidates) : Ask(p, "add", c, NoImage)
  /\ UNCHANGED <<sceneVars, candVars, imageVars, job>>

RequestReview(p) ==
  /\ \E c \in Candidates, op \in Decisions : HasRow(c) /\ Ask(p, op, c, NoImage)
  /\ UNCHANGED <<sceneVars, candVars, imageVars, job>>

\* UploadCandidateImages saves the file first.
RequestUpload(p) ==
  /\ \E c \in Candidates, i \in One(NewImages) :
       HasRow(c) /\ Ask(p, "append", c, i) /\ files' = files \cup {i}
  /\ UNCHANGED <<sceneVars, candVars, row, shows, job>>

RequestImageDelete(p) ==
  /\ \E c \in Candidates : \E i \in CropsOf(c) : HasRow(c) /\ Ask(p, "delimg", c, i)
  /\ UNCHANGED <<sceneVars, candVars, imageVars, job>>

PatchCandidate(c) ==
  /\ status[c] \in Undecided /\ Free(c) /\ Asked("patch")
  /\ status' = [status EXCEPT ![c] = "edited"]
  /\ UNCHANGED <<sceneVars, run, assist, imageVars, tx, job>>

QueueCandidateAIAssist(c) ==
  /\ status[c] \in Undecided /\ assist[c] \notin Open /\ Free(c) /\ Asked("assist")
  /\ assist' = [assist EXCEPT ![c] = "queued"]
  /\ UNCHANGED <<sceneVars, status, run, imageVars, tx, job>>

-----------------------------------------------------------------------------
(* The worker.  It is idle between two steps only when its transaction is. *)

Rested == tx[Worker].op = "idle"
Turn(kind) == job' = [job EXCEPT !.kind = kind]

\* resetStuckProcessing: first the runs, then the candidates; an error ends it.
StartReset ==
  /\ Rested /\ job.kind = "start"
  /\ IF \E n \in Runs : runs[n] = "processing"
     THEN Begin(Worker, "reset", Nobody, NoImage) /\ UNCHANGED job
     ELSE Turn("requeue") /\ UNCHANGED tx
  /\ UNCHANGED <<sceneVars, candVars, imageVars, limitVars>>

\* A mistake to catch: the restart trusts the run to be still under way.
CommitResetNothing ==
  /\ AtEnd(Worker) /\ tx[Worker].op = "reset" /\ Committed(Worker, {}) /\ Turn("requeue")
  /\ UNCHANGED <<sceneVars, candVars, imageVars, limitVars>>

CommitReset ==
  /\ AtEnd(Worker) /\ tx[Worker].op = "reset" /\ Committed(Worker, {}) /\ Turn("requeue")
  /\ runs' = [n \in Runs |-> IF runs[n] = "processing" THEN "queued" ELSE runs[n]]
  /\ scan' = IF \E n \in Runs : runs[n] = "processing" THEN "queued" ELSE scan
  /\ UNCHANGED <<source, candVars, imageVars, limitVars>>

StartRequeue ==
  /\ Rested /\ job.kind = "requeue"
  /\ IF \E c \in Candidates : assist[c] = "processing"
     THEN Begin(Worker, "requeue", Nobody, NoImage) /\ UNCHANGED job
     ELSE Turn("idle") /\ UNCHANGED tx
  /\ UNCHANGED <<sceneVars, candVars, imageVars, limitVars>>

CommitRequeue ==
  /\ AtEnd(Worker) /\ tx[Worker].op = "requeue" /\ Committed(Worker, {}) /\ Turn("idle")
  /\ assist' = [c \in Candidates |-> IF assist[c] = "processing" THEN "queued" ELSE assist[c]]
  /\ UNCHANGED <<sceneVars, status, run, imageVars, limitVars>>

\* FOR UPDATE SKIP LOCKED: a run whose row is locked is not found.
Claimable ==
  {n \in Runs : /\ runs[n] = "queued" /\ \A m \in Runs : m < n => runs[m] # "queued"
                /\ \A q \in Clients : ~(Running(q) /\ {"run", "rows"} \cap Did(q) # {})}

ClaimNextJob ==
  /\ Rested /\ job.kind = "idle"
  /\ \E n \in Claimable : job' = [job EXCEPT !.run = n]
  /\ tx' = [tx EXCEPT ![Worker] = [Idle EXCEPT !.op = "claim", !.at = 1]]
  /\ UNCHANGED <<sceneVars, candVars, imageVars, limitVars>>

CommitClaim ==
  /\ AtEnd(Worker) /\ tx[Worker].op = "claim" /\ Committed(Worker, {}) /\ Turn("run")
  /\ runs' = [runs EXCEPT ![job.run] = "processing"] /\ scan' = "processing"
  /\ UNCHANGED <<source, candVars, imageVars, limitVars>>

ClaimNextCandidateAssistJob ==
  /\ Rested /\ job.kind = "idle" /\ Claimable = {}
  /\ \E c \in Candidates :
       /\ assist[c] = "queued" /\ status[c] \in Undecided /\ Free(c)
       /\ assist' = [assist EXCEPT ![c] = "processing"]
       /\ job' = [job EXCEPT !.kind = "assist", !.cand = c]
  /\ UNCHANGED <<sceneVars, status, run, imageVars, tx, limitVars>>

\* processJob: any step up to the parsed answer fails, or there is an answer.  One
\* candidate stands for the several of an answer: they are saved together.
EndAnalysis ==
  /\ Rested /\ job.kind = "run"
  /\ \/ Begin(Worker, "fail", Nobody, NoImage)
     \/ \E c \in One(NewCandidates), i \in One(NewImages) \cup {NoImage} :
          (i # NoImage => Exists) /\ Begin(Worker, "save", c, i)
  /\ UNCHANGED <<sceneVars, candVars, imageVars, job, limitVars>>

\* markFailed and markParseFailed; no row, no effect.
CommitFail ==
  /\ AtEnd(Worker) /\ tx[Worker].op = "fail" /\ Committed(Worker, {}) /\ Turn("idle")
  /\ runs' = [runs EXCEPT ![job.run] = IF @ = "none" THEN @ ELSE "failed"]
  /\ scan' = IF Exists THEN "failed" ELSE scan
  /\ UNCHANGED <<source, candVars, imageVars, limitVars>>

\* markSucceededWithCandidates; "succeeded" is also a run with warnings ("partial").
CommitSave ==
  LET c == tx[Worker].cand
      i == tx[Worker].image
      stale == {d \in Candidates : run[d] = job.run /\ HasRow(d) /\ status[d] # "approved"}
  IN /\ AtEnd(Worker) /\ tx[Worker].op = "save" /\ Committed(Worker, {}) /\ Turn("idle")
     /\ status' = [d \in Candidates |-> IF d = c THEN "proposed"
                                         ELSE IF d \in stale THEN "gone" ELSE status[d]]
     /\ run' = [run EXCEPT ![c] = job.run]
     /\ assist' = [d \in Candidates |-> IF d \in stale THEN "idle" ELSE assist[d]]
     /\ row' = [j \in Images |-> IF j = i THEN "crop" ELSE row[j]]
     /\ shows' = [j \in Images |-> IF j = i THEN c ELSE shows[j]]
     /\ runs' = [runs EXCEPT ![job.run] = "succeeded"] /\ scan' = "succeeded"
     /\ UNCHANGED <<source, files, limitVars>>

\* A mistake to catch: the answer is written whatever became of the candidate.
EndAssistUnguarded ==
  /\ Rested /\ job.kind = "assist" /\ Free(job.cand) /\ Turn("idle")
  /\ HasRow(job.cand)
  /\ status' = [status EXCEPT ![job.cand] = "edited"]
  /\ assist' = [assist EXCEPT ![job.cand] = "succeeded"]
  /\ UNCHANGED <<sceneVars, run, imageVars, tx, limitVars>>

\* Both UPDATEs want an undecided candidate in processing; without one, or when they
\* fail, nothing is written.
AssistIsOpen(c) == status[c] \in Undecided /\ assist[c] = "processing"

\* The last UPDATE of runCandidateAIAssist.
SaveAssist(c) ==
  /\ AssistIsOpen(c)
  /\ assist' = [assist EXCEPT ![c] = "succeeded"] /\ status' = [status EXCEPT ![c] = "edited"]

MarkAssistFailed(c) ==
  AssistIsOpen(c) /\ assist' = [assist EXCEPT ![c] = "failed"] /\ UNCHANGED status

DropAssist(c) == (~AssistIsOpen(c) \/ May("db")) /\ UNCHANGED <<status, assist>>

EndAssist ==
  /\ Rested /\ job.kind = "assist" /\ Free(job.cand) /\ Turn("idle")
  /\ SaveAssist(job.cand) \/ MarkAssistFailed(job.cand) \/ DropAssist(job.cand)
  /\ UNCHANGED <<sceneVars, run, imageVars, tx, limitVars>>

\* Process death and start: open transactions are rolled back, files stay.
Restart ==
  /\ restarts < scenario.restarts /\ restarts' = restarts + 1
  /\ tx' = [p \in Procs |-> Idle] /\ job' = [job EXCEPT !.kind = "start"]
  /\ UNCHANGED <<sceneVars, candVars, imageVars, asked, scenario>>

-----------------------------------------------------------------------------
Init ==
  /\ scan = "none" /\ source = "none" /\ runs = [n \in Runs |-> "none"]
  /\ status = [c \in Candidates |-> "none"] /\ run = [c \in Candidates |-> 0]
  /\ assist = [c \in Candidates |-> "idle"]
  /\ row = [i \in Images |-> "none"] /\ shows = [i \in Images |-> Nobody] /\ files = {}
  /\ tx = [p \in Procs |-> Idle] /\ job = [kind |-> "start", run |-> 0, cand |-> Nobody]
  /\ asked = 0 /\ restarts = 0 /\ scenario \in Scenarios

Advance(p) == Statement(p) \/ Refuse(p)
CommitClient(p) == CommitDecision(p) \/ CommitDelete(p) \/ CommitAdd(p) \/ CommitAppend(p)
                     \/ CommitDeleteImage(p) \/ CommitQueue(p)
Request(p) == RequestQueue(p) \/ RequestDelete(p) \/ RequestAdd(p) \/ RequestReview(p)
                \/ RequestUpload(p) \/ RequestImageDelete(p)
WorkerStep == \/ StartReset \/ CommitReset \/ StartRequeue \/ CommitRequeue
              \/ ClaimNextJob \/ CommitClaim \/ ClaimNextCandidateAssistJob
              \/ EndAnalysis \/ CommitFail \/ CommitSave \/ EndAssist

Next ==
  \/ CreateScan \/ Settle
  \/ \E p \in Clients : Request(p) \/ CommitClient(p) \/ Answer(p) \/ Abandon(p)
  \/ \E p \in Procs : Advance(p) \/ Victim(p)
  \/ \E c \in Candidates : PatchCandidate(c) \/ QueueCandidateAIAssist(c)
  \/ WorkerStep \/ LoseStatement \/ Restart

Spec == Init /\ [][Next]_vars

\* Requests and the worker are scheduled, statements end, deadlocks are broken after
\* deadlock_timeout.  Nobody has to ask for anything.
Fairness == /\ \A p \in Clients : /\ WF_vars(CommitClient(p)) /\ WF_vars(Answer(p))
                                  /\ WF_vars(Victim(p))
            /\ \A p \in Procs : WF_vars(Advance(p))
            /\ WF_vars(WorkerStep)

FairSpec == Spec /\ Fairness

-----------------------------------------------------------------------------
(* Properties.                                                             *)

TypeOK ==
  /\ scan \in {"none", "created", "queued", "processing", "succeeded", "failed", "gone"}
  /\ source \in {"none", "inflight", "usable", "useless"}
  /\ runs \in [Runs -> {"none", "succeeded", "failed"} \cup Open]
  /\ status \in [Candidates -> Undecided \cup {"none", "approved", "rejected", "gone"}]
  /\ run \in [Candidates -> 0 .. MaxRuns]
  /\ assist \in [Candidates -> {"idle", "succeeded", "failed"} \cup Open]
  /\ row \in [Images -> {"none", "crop", "item"}]
  /\ shows \in [Images -> Candidates \cup {Nobody}] /\ files \subseteq Images
  /\ tx \in [Procs -> [op : TxOps, cand : Candidates \cup {Nobody},
                       image : Images \cup {NoImage}, at : 0 .. 6,
                       saw : {"nothing", "open", "new", "pending", "reviewed"},
                       done : BOOLEAN, doomed : SUBSET Images]]
  /\ job \in [kind : {"idle", "start", "requeue", "run", "assist"}, run : 0 .. MaxRuns,
              cand : Candidates \cup {Nobody}]
  /\ asked \in Nat /\ restarts \in Nat /\ scenario \in Scenarios

\* A scan has at most one open run, although QueueAnalysis decides on a read it made
\* before it inserts and the worker moves runs at the same time.
OneOpenRun == \A n, m \in Runs : runs[n] \in Open /\ runs[m] \in Open => n = m

\* The status of the scan is that of its latest run, although each is written by its
\* own statement, by the queueing request, the worker and its recovery.
ScanShowsItsRun == Exists /\ Latest > 0 => scan = runs[Latest]

\* An open run has no candidates, so saving its answer again (after a restart) deletes
\* none that somebody has looked at.
OpenRunIsEmpty == \A c \in Candidates : HasRow(c) /\ run[c] > 0 => runs[run[c]] \notin Open

RunsAreInOrder == TypeOK /\ OneOpenRun /\ ScanShowsItsRun /\ OpenRunIsEmpty

\* A scan whose candidates are all decided is cleaned up by the request that decides
\* the last one, whichever of two concurrent requests that is, and an addition at that
\* moment is seen or refused.
ReviewedScanIsGone ==
  Exists /\ (\E c \in Candidates : HasRow(c)) => \E c \in Candidates : status[c] \in Undecided

\* An image of an item or of a candidate keeps its file through the clean-up of the
\* scan.  The last-but-one condition leaves a known departure to a run of its own.
ImagesKeepFiles ==
  ~({"append", "approve"} \subseteq scenario.requests) /\ ~May("readback") =>
    \A i \in Images : row[i] # "none" => i \in files

\* The same for items whatever clients ask.
ItemKeepsImages == \A i \in Images : row[i] = "item" => i \in files

\* A decision is never taken back by an edit, an answer of the AI or the opposite
\* request, and an undecided candidate goes only with DeleteScan.
ReviewIsFinal ==
  [][\A c \in Candidates :
       /\ status[c] \in {"approved", "rejected"} => status'[c] \in {status[c], "gone"}
       /\ (status[c] \in Undecided /\ status'[c] = "gone") =>
            \E p \in Clients :
              /\ AtEnd(p)
              /\ \/ tx[p].op = "delete"
                 \/ tx[p].op \in Decisions /\ tx[p].cand = c
    ]_vars

\* Every queued run and every queued assist of an undecided candidate comes to an end,
\* also through restarts and deadlocks with requests.
JobsEnd ==
  ~May("db") /\ ~May("victim") =>
    /\ \A n \in Runs : runs[n] = "queued" ~> runs[n] \notin Open
    /\ \A c \in Candidates : (assist[c] = "queued" /\ status[c] \in Undecided)
                              ~> (assist[c] \notin Open \/ status[c] \notin Undecided)
=============================================================================
