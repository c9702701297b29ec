----------------------------- MODULE IntakePipeline -----------------------------
(***************************************************************************)
(* One upload session with one review group: the grouped upload           *)
(* (handlers/uploads.go), the intake worker that moves each file from the *)
(* intake directory to the originals (intakeworker/worker.go), the roll-up *)
(* of the session's status (uploadstatus/rollup.go), and the review       *)
(* requests that change the same rows and files meanwhile                 *)
(* (handlers/review.go).                                                   *)
(*                                                                         *)
(* A review request is one transaction that locks the group, the session  *)
(* and the image rows it reads, so its database part is one step; what it *)
(* does to files after the commit is another.  The worker's database      *)
(* calls are single statements outside any transaction.                   *)
(***************************************************************************)
EXTENDS Naturals, FiniteSets

CONSTANTS Uploads,      \* images of the grouped upload
          Extras,       \* images added in review
          NoImage,
          Scenarios     \* the requests clients make, the faults, a bound on stops

PossibleRequests == {"append", "delete", "discard", "approve"}

\* "db": a statement of the worker fails (also: its context is cancelled)
\* "move": rename and copy of a file fail, or only removing the source does
\* "commit": the upload is committed and COMMIT still reports an error
\* "readback": the read of the group after a committed change fails, or, which ends
\* alike, an addition is committed and COMMIT reports an error
PossibleFaults == {"db", "move", "commit", "readback"}

ASSUME IntakeAssumption ==
  /\ Uploads \cap Extras = {} /\ NoImage \notin Uploads \cup Extras
  /\ Scenarios \subseteq [requests : SUBSET PossibleRequests,
                          faults : SUBSET PossibleFaults, stops : Nat]

Images == Uploads \cup Extras
Dirs   == {"intake", "processing", "originals", "failed"}

VARIABLES status,     \* image_assets.status, "none" and "gone" for no row
          path,       \* the directory in image_assets.file_path
          files,      \* the directories that hold each image's file
          session,    \* upload_sessions.status
          group,      \* upload_groups.status
          upload,     \* where the upload request is
          adding,     \* the image a review request is adding
          doomed,     \* files a committed review request has still to remove
          denied,     \* images it has committed and answered with an error
          wpc,        \* where the intake worker is
          todo,       \* assets listed by its scan and not yet handled
          cur,        \* the asset it handles
          from,       \* the directory it last moved that asset's file to
          counts,     \* the statuses CountsForSession read
          up, stops,  \* whether the API process runs, and how often it was stopped
          scenario    \* the one of Scenarios that this behaviour belongs to

rowVars    == <<status, path, group>>
clientVars == <<upload, adding, doomed, denied>>
workVars   == <<wpc, todo, cur, from, counts>>
procVars   == <<up, stops, scenario>>
vars       == <<rowVars, files, session, clientVars, workVars, procVars>>

May(fault) == fault \in scenario.faults

InFlight == {"pending", "processing"}
Finished == {"processed", "completed_with_errors", "failed"}
HasRow(i) == status[i] \notin {"none", "gone"}
Rows      == {i \in Images : HasRow(i)}

TypeOK ==
  /\ status \in [Images -> {"none", "gone", "processed", "failed"} \cup InFlight]
  /\ path \in [Images -> Dirs] /\ files \in [Images -> SUBSET Dirs]
  /\ session \in {"none", "pending", "processing"} \cup Finished
  /\ group \in {"none", "pending", "approved", "gone"}
  /\ upload \in {"idle", "saved", "cleaning", "over"}
  /\ adding \in Extras \cup {NoImage} /\ doomed \subseteq Images \X Dirs
  /\ denied \subseteq Extras
  /\ wpc \in {"idle", "scan", "claim", "stage", "validate", "publish", "record",
              "spoil", "spoilt", "count", "rollup"}
  /\ todo \subseteq Images /\ cur \in Images \cup {NoImage} /\ from \in Dirs
  /\ counts \subseteq InFlight \cup {"processed", "failed"}
  /\ up \in BOOLEAN /\ stops \in 0 .. scenario.stops /\ scenario \in Scenarios

Init ==
  /\ status = [i \in Images |-> "none"] /\ path = [i \in Images |-> "intake"]
  /\ files = [i \in Images |-> {}]
  /\ session = "none" /\ group = "none"
  /\ upload = "idle" /\ adding = NoImage /\ doomed = {} /\ denied = {}
  /\ wpc = "idle" /\ todo = {} /\ cur = NoImage /\ from = "intake" /\ counts = {}
  /\ up = TRUE /\ stops = 0 /\ scenario \in Scenarios

\* A mistake to catch: assets that wait are not counted as in flight.
StatusWithoutPending(found) ==
  IF "processing" \in found \/ found = {"pending"} THEN "processing"
  ELSE IF "failed" \notin found THEN "processed"
  ELSE IF "processed" \notin found THEN "failed" ELSE "completed_with_errors"

\* StatusFromCounts, on the statuses that occur ("uploaded" is never written).
StatusFromCounts(found) ==
  CASE found = {}                      -> "pending"
    [] found \cap InFlight # {}        -> "processing"
    [] found = {"processed"}           -> "processed"
    [] found = {"failed"}              -> "failed"
    [] found = {"processed", "failed"} -> "completed_with_errors"

-----------------------------------------------------------------------------
(* The grouped upload *)

SaveUpload ==
  /\ up /\ upload = "idle" /\ upload' = "saved"
  /\ files' = [i \in Images |-> IF i \in Uploads THEN {"intake"} ELSE files[i]]
  /\ UNCHANGED <<rowVars, session, adding, doomed, denied, workVars, procVars>>

\* All rows, the group and the session appear together.
InsertUpload ==
  /\ status' = [i \in Images |-> IF i \in Uploads THEN "pending" ELSE status[i]]
  /\ group' = "pending" /\ session' = StatusFromCounts({"pending"})
  /\ UNCHANGED path

FinishUpload ==
  /\ up /\ upload = "saved"
  /\ \/ InsertUpload /\ upload' = "over"
     \/ upload' = "cleaning" /\ UNCHANGED <<rowVars, session>>
     \/ May("commit") /\ InsertUpload /\ upload' = "cleaning"
  /\ UNCHANGED <<files, adding, doomed, denied, workVars, procVars>>

\* cleanupWrittenFiles
CleanUpload ==
  /\ up /\ upload = "cleaning" /\ upload' = "over"
  /\ files' = [i \in Images |-> IF i \in Uploads THEN files[i] \ {"intake"} ELSE files[i]]
  /\ UNCHANGED <<rowVars, session, adding, doomed, denied, workVars, procVars>>

-----------------------------------------------------------------------------
(* The intake worker *)

\* listPending: its LIMIT of 25 is not reached.
ListPending ==
  /\ up /\ wpc = "idle" /\ \E i \in Images : status[i] = "pending"
  /\ todo' = {i \in Images : status[i] = "pending"} /\ wpc' = "scan"
  /\ UNCHANGED <<rowVars, files, session, clientVars, cur, from, counts, procVars>>

\* resolveSourcePath and isStable: a listed file is complete, or is missing.
NextAsset(i) ==
  /\ up /\ wpc = "scan" /\ i \in todo
  /\ cur' = i /\ todo' = todo \ {i} /\ from' = "intake" /\ wpc' = "claim"
  /\ UNCHANGED <<rowVars, files, session, clientVars, counts, procVars>>

EndScan ==
  /\ wpc = "scan" /\ todo = {} /\ wpc' = "idle"
  /\ UNCHANGED <<rowVars, files, session, clientVars, todo, cur, from, counts, procVars>>

\* The scan goes on with its next asset.
LeaveAsset == wpc' = "scan" /\ cur' = NoImage /\ from' = "intake" /\ counts' = {}

\* The file is looked for before the claim; a claim of no row ends the asset.
Claim ==
  /\ up /\ wpc = "claim"
  /\ \/ /\ status[cur] = "pending"
        /\ status' = [status EXCEPT ![cur] = "processing"]
        /\ wpc' = IF "intake" \in files[cur] THEN "stage" ELSE "spoil"
        /\ UNCHANGED <<cur, from, counts>>
     \/ /\ status[cur] # "pending" \/ May("db")
        /\ LeaveAsset /\ UNCHANGED status
  /\ UNCHANGED <<path, group, files, session, clientVars, todo, procVars>>

\* moveFile: rename, or copy and remove; a failure may leave both files.
Moved(i, source, target) ==
  files' = [files EXCEPT ![i] = (@ \ {source}) \cup {target}]

MoveBreaks(i, source, target) ==
  /\ source \notin files[i] \/ May("move")
  /\ files' \in {files} \cup IF source \notin files[i] THEN {}
                             ELSE {[files EXCEPT ![i] = @ \cup {target}]}

MoveFile(step, target, next) ==
  /\ up /\ wpc = step
  /\ \/ /\ from \in files[cur] /\ Moved(cur, from, target)
        /\ from' = target /\ wpc' = next
     \/ MoveBreaks(cur, from, target) /\ wpc' = "spoil" /\ UNCHANGED from
  /\ UNCHANGED <<rowVars, session, clientVars, todo, cur, counts, procVars>>

MoveToProcessing == MoveFile("stage", "processing", "validate")
MoveToOriginals  == MoveFile("publish", "originals", "record")

\* A mistake to catch: a file that is no image is only logged.
ValidateOrSkip ==
  /\ up /\ wpc = "validate"
  /\ \/ wpc' = "publish" /\ UNCHANGED <<cur, from, counts>>
     \/ LeaveAsset
  /\ UNCHANGED <<rowVars, files, session, clientVars, todo, procVars>>

\* validateAndHashImage
Validate ==
  /\ up /\ wpc = "validate"
  /\ \/ "processing" \in files[cur] /\ wpc' = "publish"
     \/ wpc' = "spoil"
  /\ UNCHANGED <<rowVars, files, session, clientVars, todo, cur, from, counts, procVars>>

\* UPDATE ... WHERE id = $1: no row, no change, no error.
Record(step, outcome, where) ==
  /\ up /\ wpc = step
  /\ \/ /\ IF HasRow(cur)
           THEN /\ status' = [status EXCEPT ![cur] = outcome]
                /\ path' = [path EXCEPT ![cur] = where]
           ELSE UNCHANGED <<status, path>>
        /\ wpc' = "count" /\ UNCHANGED <<cur, from, counts>>
     \/ May("db") /\ LeaveAsset /\ UNCHANGED <<status, path>>
  /\ UNCHANGED <<group, files, session, clientVars, todo, procVars>>

RecordProcessed == Record("record", "processed", "originals")

\* failAsset: the file goes to the failed directory where that is possible.
MoveToFailed ==
  /\ up /\ wpc = "spoil" /\ wpc' = "spoilt"
  /\ \/ from \in files[cur] /\ Moved(cur, from, "failed")
     \/ MoveBreaks(cur, from, "failed")
  /\ UNCHANGED <<rowVars, session, clientVars, todo, cur, from, counts, procVars>>

\* Mistakes to catch: the row keeps the path the file had, or none.
RecordFailedAtSource == Record("spoilt", "failed", from)
RecordFailedNowhere  == Record("spoilt", "failed", "")

RecordFailed == Record("spoilt", "failed", IF "failed" \in files[cur] THEN "failed" ELSE from)

\* A mistake to catch: the counts are read before the asset's own change.
CountTooEarly ==
  /\ up /\ wpc = "count" /\ wpc' = "rollup"
  /\ counts' = {status[i] : i \in Rows \ {cur}} \cup {"processing"}
  /\ UNCHANGED <<rowVars, files, session, clientVars, todo, cur, from, procVars>>

\* Recalculate reads the counts and writes the status it computed from them.
CountAssets ==
  /\ up /\ wpc = "count"
  /\ \/ counts' = {status[i] : i \in Rows} /\ wpc' = "rollup" /\ UNCHANGED <<cur, from>>
     \/ May("db") /\ LeaveAsset
  /\ UNCHANGED <<rowVars, files, session, clientVars, todo, procVars>>

WriteSession ==
  /\ up /\ wpc = "rollup" /\ LeaveAsset
  /\ \/ session' = IF session = "none" THEN "none" ELSE StatusFromCounts(counts)
     \/ May("db") /\ UNCHANGED session
  /\ UNCHANGED <<rowVars, files, clientVars, todo, procVars>>

-----------------------------------------------------------------------------
(* Review requests *)
Asked(request) == up /\ request \in scenario.requests

\* DeleteImage of any image of a group that is not approved.
DeleteImage(i) ==
  /\ Asked("delete") /\ group = "pending" /\ HasRow(i)
  /\ status' = [status EXCEPT ![i] = "gone"]
  /\ \/ doomed' = doomed \cup {<<i, path[i]>>}
     \/ May("readback") /\ UNCHANGED doomed
  /\ UNCHANGED <<path, group, files, session, upload, adding, denied, workVars, procVars>>

\* Delete of the group: no image may be in flight.
DiscardGroup ==
  /\ Asked("discard") /\ group = "pending"
  /\ \A i \in Rows : status[i] \notin InFlight
  /\ status' = [i \in Images |-> IF HasRow(i) THEN "gone" ELSE status[i]]
  /\ group' = "gone" /\ session' = "none"
  /\ doomed' = doomed \cup {<<i, path[i]>> : i \in Rows}
  /\ UNCHANGED <<path, files, upload, adding, denied, workVars, procVars>>

\* DeleteFiles
RemoveDoomed(d) ==
  /\ up /\ d \in doomed /\ doomed' = doomed \ {d}
  /\ files' = [files EXCEPT ![d[1]] = @ \ {d[2]}]
  /\ UNCHANGED <<rowVars, session, upload, adding, denied, workVars, procVars>>

\* A mistake to catch: one processed image is enough.
ApproveEarly ==
  /\ Asked("approve") /\ group = "pending"
  /\ \E i \in Rows : status[i] = "processed"
  /\ group' = "approved"
  /\ UNCHANGED <<status, path, files, session, clientVars, workVars, procVars>>

Approve ==
  /\ Asked("approve") /\ group = "pending"
  /\ \E i \in Rows : status[i] = "processed"
  /\ \A i \in Rows : status[i] \notin InFlight
  /\ group' = "approved"
  /\ UNCHANGED <<status, path, files, session, clientVars, workVars, procVars>>

\* UploadImages writes the original, then AppendImages inserts a processed row.
SaveExtra(i) ==
  /\ Asked("append") /\ adding = NoImage /\ status[i] = "none" /\ group # "none"
  /\ files[i] = {}
  /\ adding' = i /\ files' = [files EXCEPT ![i] = {"originals"}]
  /\ UNCHANGED <<rowVars, session, upload, doomed, denied, workVars, procVars>>

\* The addition is committed and not yet answered; its row may be deleted meanwhile.
Committed == status[adding] # "none"

CommitAppend ==
  /\ up /\ adding # NoImage /\ ~Committed /\ group = "pending"
  /\ status' = [status EXCEPT ![adding] = "processed"]
  /\ path' = [path EXCEPT ![adding] = "originals"]
  /\ UNCHANGED <<group, files, session, clientVars, workVars, procVars>>

\* Refused, or failed before the commit: the written files are removed.
RefuseAppend ==
  /\ up /\ adding # NoImage /\ ~Committed
  /\ files' = [files EXCEPT ![adding] = {}] /\ adding' = NoImage
  /\ UNCHANGED <<rowVars, session, upload, doomed, denied, workVars, procVars>>

\* The groups that GetUploadGroup finds.
Reviewable ==
  /\ group = "pending" /\ \E i \in Rows : status[i] = "processed"
  /\ \A i \in Rows : status[i] \notin InFlight

\* The group is read back outside the transaction.  No row, as for a group with an
\* image in flight or approved by now, counts as a failure: the written file goes.
AnswerAppend ==
  /\ up /\ adding # NoImage /\ Committed /\ adding' = NoImage
  /\ \/ Reviewable /\ UNCHANGED <<files, denied>>
     \/ /\ ~Reviewable \/ May("readback")
        /\ files' = [files EXCEPT ![adding] = {}] /\ denied' = denied \cup {adding}
  /\ UNCHANGED <<rowVars, session, upload, doomed, workVars, procVars>>

-----------------------------------------------------------------------------
\* SIGTERM or death: requests and the scan end where they are.
Stop ==
  /\ up /\ stops < scenario.stops /\ stops' = stops + 1 /\ up' = FALSE
  /\ upload' = (IF upload = "idle" THEN "idle" ELSE "over") /\ adding' = NoImage /\ doomed' = {}
  /\ wpc' = "idle" /\ todo' = {} /\ cur' = NoImage /\ from' = "intake" /\ counts' = {}
  /\ UNCHANGED <<rowVars, files, session, denied, scenario>>

\* intakeworker.New and Run: nothing is reset.
Start ==
  /\ ~up /\ up' = TRUE
  /\ UNCHANGED <<rowVars, files, session, clientVars, workVars, stops, scenario>>

Scan ==
  \/ ListPending \/ (\E i \in Images : NextAsset(i)) \/ EndScan \/ Claim
  \/ MoveToProcessing \/ Validate \/ MoveToOriginals \/ RecordProcessed
  \/ MoveToFailed \/ RecordFailed \/ CountAssets \/ WriteSession

Next ==
  \/ SaveUpload \/ FinishUpload \/ CleanUpload
  \/ Scan
  \/ \E i \in Images : DeleteImage(i)
  \/ \E d \in doomed : RemoveDoomed(d)
  \/ \E i \in Extras : SaveExtra(i)
  \/ DiscardGroup \/ Approve \/ CommitAppend \/ RefuseAppend \/ AnswerAppend
  \/ Stop \/ Start

Spec == Init /\ [][Next]_vars

\* The scan's ticker fires and a stopped container is started again.
FairSpec == Spec /\ WF_vars(Scan) /\ WF_vars(Start)

-----------------------------------------------------------------------------
(* An image row leads to its file, whatever the worker, the review        *)
(* requests and a stop of the process interleave to: a processed row to   *)
(* its original, a failed row to the file unless that is gone, and the    *)
(* file of a row in flight is in one of the directories (worker.go:165,   *)
(* review.go:411).  Two requests remove the files of rows they committed: *)
(* an upload whose COMMIT reports a false error (uploads.go:210) and an   *)
(* addition that is answered with an error because it did not find the    *)
(* group reviewable afterwards (review.go:408).  An addition answered     *)
(* with success, or by nothing as the process stops, keeps its file.      *)
RowsLeadToFiles ==
  \A i \in Rows :
    CASE status[i] = "processed" -> /\ path[i] = "originals"
                                    /\ "originals" \in files[i] \/ i \in denied
      [] status[i] = "failed"    -> files[i] = {} \/ path[i] \in files[i] \/ May("commit")
      [] OTHER                   -> files[i] # {} \/ May("commit")

(* The session is not reported as finished while one of its images is in  *)
(* flight, although Recalculate reads and writes in two statements.       *)
FinishedIsFinal ==
  session \in Finished => \A i \in Rows : status[i] \notin InFlight

(* Once a group is approved the worker and the review requests leave its  *)
(* rows and their files alone: Approve waits for every image, and the     *)
(* worker's unguarded UPDATEs (by id only) find nothing left to do.  Two  *)
(* requests can remove a file that late: an upload that takes a false     *)
(* COMMIT error for a failure, and an addition committed before the       *)
(* approval and answered with an error after it (review.go:408).          *)
ApprovedIsFrozen ==
  [][group = "approved" =>
       \A i \in Rows : /\ UNCHANGED <<status[i], path[i]>>
                       /\ UNCHANGED files[i] \/ May("commit") \/ i \in denied' \ denied]_vars

(* "Marks invalid or missing files failed" (api/README.md): every image   *)
(* of a committed upload is processed, failed or deleted in the end,      *)
(* unless a statement of the worker fails.                                *)
EveryImageSettles ==
  ~May("db") => \A i \in Images : status[i] = "pending" ~> status[i] \notin InFlight

(* "Background workers process images and update upload status"           *)
(* (Architecture.md): the session does not stay in processing, unless a   *)
(* single image is deleted, which recalculates nothing (review.go:411).   *)
SessionSettles ==
  (~May("db") /\ "delete" \notin scenario.requests)
     => (session = "processing" ~> session # "processing")
=============================================================================
