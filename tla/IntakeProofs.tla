---------------------------- MODULE IntakeProofs ----------------------------
(***************************************************************************)
(* For any images, requests, faults and stops: a finished session has no   *)
(* image in flight, and an approved group stays as it is.                  *)
(***************************************************************************)
EXTENDS IntakePipeline, TLAPS

(* Nothing happens before the upload is committed.                         *)
Nothing == /\ \A i \in Images : status[i] = "none"
           /\ session = "none" /\ group = "none" /\ wpc = "idle"
           /\ adding = NoImage /\ doomed = {}

BeforeUpload ==
  upload \in {"idle", "saved"} \/ (upload = "cleaning" /\ ~May("commit")) => Nothing

(* The asset the worker handles is in processing unless it was deleted.    *)
AtWork == {"stage", "validate", "publish", "record", "spoil", "spoilt"}

Claimed == /\ wpc = "claim" \/ wpc \in AtWork => cur \in Images
           /\ wpc \in AtWork => status[cur] \in {"processing", "gone"}

(* What the worker has counted and not yet written is still true enough.   *)
Settled == \A i \in Rows : status[i] \notin InFlight
Counted == wpc = "rollup" /\ StatusFromCounts(counts) \in Finished => Settled

(* An approved group is settled; files are removed only where no row is.   *)
ApprovedSettled == group = "approved" => Settled
DoomedAreGone   == \A d \in doomed : status[d[1]] = "gone"
AddedIsSettled  == /\ adding # NoImage => status[adding] \in {"none", "processed", "gone"}
                   /\ \A i \in denied : status[i] # "none" /\ i # adding

IntakeInv == /\ TypeOK /\ BeforeUpload /\ Claimed /\ Counted /\ ApprovedSettled
             /\ DoomedAreGone /\ AddedIsSettled /\ FinishedIsFinal

LEMMA IntakeInit == Init => IntakeInv
<1> SUFFICES ASSUME Init PROVE IntakeInv
  OBVIOUS
<1> USE DEF Init
<1>1. TypeOK
  BY IntakeAssumption DEF TypeOK, Dirs, Images, InFlight, Finished
<1>2. BeforeUpload /\ Claimed /\ Counted
  BY DEF BeforeUpload, Nothing, Claimed, AtWork, Counted
<1>3. ApprovedSettled /\ DoomedAreGone /\ AddedIsSettled /\ FinishedIsFinal
  BY DEF ApprovedSettled, DoomedAreGone, AddedIsSettled, FinishedIsFinal, Finished
<1> QED BY <1>1, <1>2, <1>3 DEF IntakeInv

LEMMA StatusOfFound ==
  ASSUME NEW found \in SUBSET (InFlight \cup {"processed", "failed"})
  PROVE  /\ StatusFromCounts(found) \in {"pending", "processing"} \cup Finished
         /\ StatusFromCounts(found) \in Finished => found \cap InFlight = {}
         /\ found \cap InFlight # {} => StatusFromCounts(found) = "processing"
<1>1. CASE found = {}
  BY <1>1 DEF StatusFromCounts, Finished
<1>2. CASE found # {} /\ found \cap InFlight # {}
  BY <1>2 DEF StatusFromCounts, Finished, InFlight
<1>3. CASE found # {} /\ found \cap InFlight = {}
  <2>1. found \in {{"processed"}, {"failed"}, {"processed", "failed"}}
    BY <1>3
  <2> QED BY <1>3, <2>1 DEF StatusFromCounts, Finished, InFlight
<1> QED BY <1>1, <1>2, <1>3

-----------------------------------------------------------------------------
(* The upload request.                                                     *)
LEMMA UploadStep ==
  ASSUME IntakeInv, SaveUpload \/ FinishUpload \/ CleanUpload PROVE IntakeInv'
<1>0. TypeOK /\ BeforeUpload
  BY DEF IntakeInv
<1>1. CASE SaveUpload
  <2>1. TypeOK'
    BY <1>0, <1>1 DEF SaveUpload, TypeOK, rowVars, workVars, procVars, Dirs
  <2> QED BY <1>1, <2>1
    DEF SaveUpload, IntakeInv, BeforeUpload, Nothing, May, Claimed, Counted, Settled, Rows, HasRow,
        ApprovedSettled, DoomedAreGone, AddedIsSettled, FinishedIsFinal, rowVars, workVars, procVars
<1>2. CASE FinishUpload
  <2>1. CASE InsertUpload
    <3>1. session' = "processing" /\ group' = "pending" /\ upload' \in {"over", "cleaning"}
          /\ (upload' = "cleaning" => May("commit")) /\ Nothing
          /\ UNCHANGED <<path, files, adding, doomed, denied, workVars, procVars>>
          /\ status' = [i \in Images |-> IF i \in Uploads THEN "pending" ELSE status[i]]
      <4>1. StatusFromCounts({"pending"}) = "processing"
        <5> DEFINE found == {"pending"}
        <5>1. /\ found \in SUBSET (InFlight \cup {"processed", "failed"})
              /\ found \cap InFlight # {}
          BY DEF InFlight
        <5> HIDE DEF found
        <5>2. StatusFromCounts(found) = "processing"
          BY <5>1, StatusOfFound
        <5> QED BY <5>2 DEF found
      <4> QED BY <1>0, <1>2, <2>1, <4>1 DEF FinishUpload, InsertUpload, BeforeUpload, Nothing
    <3>2. TypeOK'
      BY <1>0, <3>1 DEF TypeOK, InFlight, workVars, procVars
    <3>3. DoomedAreGone' /\ AddedIsSettled'
      BY <1>0, <3>1 DEF IntakeInv, TypeOK, Nothing, DoomedAreGone, AddedIsSettled, Images
    <3> QED BY <3>1, <3>2, <3>3
      DEF IntakeInv, BeforeUpload, Nothing, May, Claimed, AtWork, Counted, ApprovedSettled,
          FinishedIsFinal, Finished, workVars, procVars
  <2>2. CASE ~InsertUpload
    BY <1>0, <1>2, <2>2
    DEF FinishUpload, IntakeInv, TypeOK, BeforeUpload, Nothing, May, Claimed, Counted, Settled,
        Rows, HasRow, ApprovedSettled, DoomedAreGone, AddedIsSettled, FinishedIsFinal,
        rowVars, workVars, procVars
  <2> QED BY <2>1, <2>2
<1>3. CASE CleanUpload
  <2>1. TypeOK'
    BY <1>0, <1>3 DEF CleanUpload, TypeOK, rowVars, workVars, procVars, Dirs
  <2> QED BY <1>3, <2>1
    DEF CleanUpload, IntakeInv, BeforeUpload, Nothing, May, Claimed, Counted, Settled, Rows, HasRow,
        ApprovedSettled, DoomedAreGone, AddedIsSettled, FinishedIsFinal, rowVars, workVars, procVars
<1> QED BY <1>1, <1>2, <1>3

-----------------------------------------------------------------------------
(* A step of the worker that leaves rows and session alone.                *)
LEMMA WorkerOnly ==
  ASSUME IntakeInv, TypeOK', ~Nothing, UNCHANGED <<rowVars, session, clientVars, procVars>>,
         Claimed', Counted'
  PROVE  IntakeInv'
BY DEF IntakeInv, BeforeUpload, May, Settled, Rows, HasRow, ApprovedSettled,
       DoomedAreGone, AddedIsSettled, FinishedIsFinal, rowVars, clientVars, procVars

LEMMA LookStep ==
  ASSUME IntakeInv, ListPending \/ (\E i \in Images : NextAsset(i)) \/ EndScan PROVE IntakeInv'
<1>0. TypeOK /\ ~Nothing
  BY DEF IntakeInv, Nothing, ListPending, NextAsset, EndScan
<1>1. CASE ListPending
  BY <1>0, <1>1, WorkerOnly DEF ListPending, TypeOK, Claimed, AtWork, Counted, rowVars,
     clientVars, procVars
<1>2. ASSUME NEW i \in Images, NextAsset(i) PROVE IntakeInv'
  BY <1>0, <1>2, WorkerOnly DEF NextAsset, TypeOK, Claimed, AtWork, Counted, Dirs, rowVars,
     clientVars, procVars
<1>3. CASE EndScan
  BY <1>0, <1>3, WorkerOnly DEF EndScan, TypeOK, Claimed, AtWork, Counted, rowVars,
     clientVars, procVars
<1> QED BY <1>1, <1>2, <1>3

LEMMA MoveFileStep ==
  ASSUME IntakeInv, NEW step \in {"stage", "publish"}, NEW target \in Dirs,
         NEW next \in {"validate", "record"}, MoveFile(step, target, next)
  PROVE  IntakeInv'
<1>0. TypeOK /\ ~Nothing /\ Claimed /\ wpc \in AtWork /\ cur \in Images
  BY DEF IntakeInv, Nothing, MoveFile, Claimed, AtWork
<1>1. files' \in [Images -> SUBSET Dirs]
  BY <1>0 DEF MoveFile, Moved, MoveBreaks, TypeOK
<1>2. /\ wpc' \in {"validate", "record", "spoil"} /\ from' \in Dirs
      /\ UNCHANGED <<rowVars, session, clientVars, todo, cur, counts, procVars>>
  BY <1>0 DEF MoveFile, TypeOK
<1>3. TypeOK' /\ Claimed' /\ Counted'
  BY <1>0, <1>1, <1>2 DEF TypeOK, Claimed, AtWork, Counted, rowVars, clientVars, procVars
<1> QED BY <1>0, <1>2, <1>3, WorkerOnly

LEMMA FileStep ==
  ASSUME IntakeInv, MoveToProcessing \/ Validate \/ MoveToOriginals \/ MoveToFailed
  PROVE  IntakeInv'
<1>1. CASE MoveToProcessing \/ MoveToOriginals
  BY <1>1, MoveFileStep DEF MoveToProcessing, MoveToOriginals, Dirs
<1>2. CASE Validate \/ MoveToFailed
  <2>0. TypeOK /\ ~Nothing /\ Claimed /\ wpc \in AtWork /\ cur \in Images
    BY <1>2 DEF IntakeInv, Nothing, Validate, MoveToFailed, Claimed, AtWork
  <2>1. files' \in [Images -> SUBSET Dirs]
    BY <1>2, <2>0 DEF Validate, MoveToFailed, Moved, MoveBreaks, TypeOK, Dirs
  <2>2. /\ wpc' \in AtWork
        /\ UNCHANGED <<rowVars, session, clientVars, todo, cur, from, counts, procVars>>
    BY <1>2 DEF Validate, MoveToFailed, AtWork
  <2>3. TypeOK' /\ Claimed' /\ Counted'
    BY <2>0, <2>1, <2>2 DEF TypeOK, Claimed, AtWork, Counted, rowVars, clientVars, procVars
  <2> QED BY <2>0, <2>2, <2>3, WorkerOnly
<1> QED BY <1>1, <1>2

(* A step of the worker that changes a row, and none that is not in flight.*)
LEMMA WorkerRow ==
  ASSUME IntakeInv, TypeOK', ~Nothing, cur \in Images,
         status[cur] \in InFlight \/ ~HasRow(cur),
         NEW s \in InFlight \cup {"processed", "failed"},
         \/ HasRow(cur) /\ status' = [status EXCEPT ![cur] = s]
         \/ ~HasRow(cur) /\ status' = status,
         UNCHANGED <<group, session, clientVars, procVars>>, Claimed', wpc' # "rollup"
  PROVE  IntakeInv'
<1>1. status \in [Images -> {"none", "gone", "processed", "failed"} \cup InFlight]
  BY DEF IntakeInv, TypeOK
<1>2. Settled => Settled'
  BY <1>1 DEF Settled, Rows, HasRow
<1>3. DoomedAreGone'
  BY <1>1 DEF IntakeInv, DoomedAreGone, HasRow, clientVars, TypeOK, Images
<1>6. AddedIsSettled'
  <2>1. \A i \in Images : /\ status[i] \notin InFlight => status'[i] = status[i]
                          /\ status[i] # "none" => status'[i] # "none"
    BY <1>1 DEF HasRow, InFlight
  <2>2. /\ denied \subseteq Images /\ (adding # NoImage => adding \in Images)
        /\ AddedIsSettled /\ adding' = adding /\ denied' = denied
    BY DEF IntakeInv, TypeOK, Images, clientVars
  <2>3. adding # NoImage => status'[adding] \in {"none", "processed", "gone"}
    BY <2>1, <2>2 DEF AddedIsSettled, InFlight
  <2> QED BY <2>1, <2>2, <2>3 DEF AddedIsSettled
<1>4. BeforeUpload' /\ Counted'
  BY DEF IntakeInv, BeforeUpload, May, Counted, clientVars, procVars
<1>5. ApprovedSettled' /\ FinishedIsFinal'
  BY <1>2 DEF IntakeInv, ApprovedSettled, FinishedIsFinal, Settled
<1> QED BY <1>3, <1>4, <1>5, <1>6 DEF IntakeInv

LEMMA RowStep ==
  ASSUME IntakeInv, Claim \/ RecordProcessed \/ RecordFailed PROVE IntakeInv'
<1>0. TypeOK /\ ~Nothing /\ Claimed /\ cur \in Images
  BY DEF IntakeInv, Nothing, Claim, RecordProcessed, RecordFailed, Record, Claimed, AtWork
<1>1. CASE LeaveAsset /\ UNCHANGED <<status, path>>
  <2>1. TypeOK' /\ Claimed' /\ Counted' /\ UNCHANGED <<rowVars, session, clientVars, procVars>>
    BY <1>0, <1>1 DEF Claim, RecordProcessed, RecordFailed, Record, LeaveAsset, TypeOK, Dirs,
                      Claimed, AtWork, Counted, rowVars, clientVars, procVars
  <2> QED BY <1>0, <2>1, WorkerOnly
<1>2. CASE Claim /\ ~LeaveAsset
  <2>1. /\ status[cur] = "pending" /\ status' = [status EXCEPT ![cur] = "processing"]
        /\ wpc' \in {"stage", "spoil"}
        /\ UNCHANGED <<cur, from, counts, path, group, files, session, clientVars, todo, procVars>>
    BY <1>2 DEF Claim
  <2>2. TypeOK' /\ Claimed' /\ HasRow(cur)
    BY <1>0, <2>1 DEF TypeOK, InFlight, Claimed, AtWork, HasRow, clientVars, procVars
  <2> QED BY <1>0, <2>1, <2>2, WorkerRow DEF InFlight
<1>3. CASE (RecordProcessed \/ RecordFailed) /\ ~LeaveAsset
  <2>1. PICK s \in {"processed", "failed"}, d \in Dirs :
          /\ \/ HasRow(cur) /\ status' = [status EXCEPT ![cur] = s]
             \/ ~HasRow(cur) /\ status' = status
          /\ path' = IF HasRow(cur) THEN [path EXCEPT ![cur] = d] ELSE path
          /\ wpc' = "count"
          /\ UNCHANGED <<cur, from, counts, group, files, session, clientVars, todo, procVars>>
    <3>1. CASE RecordProcessed
      BY <1>3, <3>1 DEF RecordProcessed, Record, Dirs
    <3>2. CASE RecordFailed
      BY <1>0, <1>3, <3>2 DEF RecordFailed, Record, Dirs, TypeOK
    <3> QED BY <1>3, <3>1, <3>2
  <2>2. status[cur] \in {"processing", "gone"}
    BY <1>0, <1>3 DEF RecordProcessed, RecordFailed, Record, Claimed, AtWork
  <2>3. TypeOK' /\ Claimed'
    BY <1>0, <2>1 DEF TypeOK, InFlight, Claimed, AtWork, clientVars, procVars
  <2>4. /\ status[cur] \in InFlight \/ ~HasRow(cur)
        /\ s \in InFlight \cup {"processed", "failed"} /\ wpc' # "rollup"
        /\ UNCHANGED <<group, session, clientVars, procVars>>
    BY <2>1, <2>2 DEF InFlight, HasRow
  <2> QED BY <1>0, <2>1, <2>3, <2>4, WorkerRow
<1>4. LeaveAsset => UNCHANGED <<status, path>>
  BY DEF Claim, RecordProcessed, RecordFailed, Record, LeaveAsset
<1> QED BY <1>1, <1>2, <1>3, <1>4

(* The roll-up: what is counted as finished stays finished.                *)
LEMMA CountStep ==
  ASSUME IntakeInv, CountAssets PROVE IntakeInv'
<1>0. TypeOK /\ ~Nothing
  BY DEF IntakeInv, Nothing, CountAssets
<1>1. TypeOK' /\ Claimed' /\ UNCHANGED <<rowVars, session, clientVars, procVars>>
  <2>1. CASE counts' = {status[i] : i \in Rows}
    BY <1>0, <2>1 DEF CountAssets, LeaveAsset, TypeOK, Dirs, Claimed, AtWork, Rows, HasRow,
                      rowVars, clientVars, procVars
  <2>2. CASE LeaveAsset
    BY <1>0, <2>2 DEF CountAssets, LeaveAsset, TypeOK, Dirs, Claimed, AtWork,
                      rowVars, clientVars, procVars
  <2> QED BY <2>1, <2>2 DEF CountAssets
<1>2. Counted'
  <2> SUFFICES ASSUME wpc' = "rollup", StatusFromCounts(counts') \in Finished PROVE Settled'
    BY DEF Counted
  <2>1. counts' = {status[i] : i \in Rows} /\ counts' \subseteq InFlight \cup {"processed", "failed"}
    BY <1>1 DEF CountAssets, LeaveAsset, TypeOK
  <2>2. counts' \cap InFlight = {}
    BY <2>1, StatusOfFound
  <2> QED BY <1>1, <2>1, <2>2 DEF Settled, Rows, HasRow, rowVars
<1> QED BY <1>0, <1>1, <1>2, WorkerOnly

LEMMA WriteStep ==
  ASSUME IntakeInv, WriteSession PROVE IntakeInv'
<1>0. TypeOK /\ ~Nothing /\ Counted /\ FinishedIsFinal
  BY DEF IntakeInv, Nothing, WriteSession
<1>1. session' \in {session, "none", StatusFromCounts(counts)} /\ wpc = "rollup"
      /\ LeaveAsset /\ UNCHANGED <<rowVars, files, clientVars, todo, procVars>>
  BY DEF WriteSession
<1>2. StatusFromCounts(counts) \in {"pending", "processing"} \cup Finished
  BY <1>0, StatusOfFound DEF TypeOK
<1>3. TypeOK' /\ Claimed' /\ Counted'
  BY <1>0, <1>1, <1>2 DEF TypeOK, LeaveAsset, Dirs, Claimed, AtWork, Counted, rowVars,
     clientVars, procVars
<1>4. FinishedIsFinal'
  BY <1>0, <1>1 DEF FinishedIsFinal, Counted, Settled, Finished, Rows, HasRow, rowVars
<1> QED BY <1>0, <1>1, <1>3, <1>4
  DEF IntakeInv, BeforeUpload, May, Settled, Rows, HasRow, ApprovedSettled,
      DoomedAreGone, AddedIsSettled, rowVars, clientVars, procVars

-----------------------------------------------------------------------------
(* Rows go, or one is added, while no row starts to be in flight.          *)
LEMMA RowsSettle ==
  ASSUME IntakeInv, TypeOK', upload' = upload, scenario' = scenario, UNCHANGED workVars,
         ~Nothing, group # "none", wpc \in AtWork => status'[cur] \in {status[cur], "gone"},
         \A i \in Images : status'[i] \in InFlight => status'[i] = status[i],
         session' \in {session, "none"}, group' \in {group, "gone"} \/ Settled,
         DoomedAreGone', AddedIsSettled'
  PROVE  IntakeInv'
<1>1. TypeOK /\ TypeOK'
  BY DEF IntakeInv
<1>2. Settled => Settled'
  BY <1>1 DEF Settled, Rows, HasRow, InFlight, TypeOK
<1>3. BeforeUpload'
  BY DEF IntakeInv, BeforeUpload, May
<1>4. Claimed'
  BY DEF IntakeInv, Claimed, workVars, AtWork
<1>5. Counted' /\ ApprovedSettled' /\ FinishedIsFinal'
  BY <1>2 DEF IntakeInv, Counted, ApprovedSettled, FinishedIsFinal, Settled, Finished, workVars
<1> QED BY <1>3, <1>4, <1>5 DEF IntakeInv

LEMMA DeleteStep ==
  ASSUME IntakeInv, (\E i \in Images : DeleteImage(i)) \/ DiscardGroup PROVE IntakeInv'
<1>0. TypeOK /\ ~Nothing /\ DoomedAreGone /\ AddedIsSettled /\ Claimed
  BY DEF IntakeInv, Nothing, DeleteImage, DiscardGroup
<1>1. \A j \in Images : status'[j] \in {status[j], "gone"}
        /\ (status[j] \in {"none", "gone"} => status'[j] = status[j])
  BY <1>0 DEF DeleteImage, DiscardGroup, HasRow, TypeOK
<1>2. /\ status' \in [Images -> {"none", "gone", "processed", "failed"} \cup InFlight]
      /\ doomed' \subseteq Images \X Dirs
  BY <1>0 DEF DeleteImage, DiscardGroup, Rows, TypeOK
<1>3. /\ UNCHANGED <<path, files, upload, adding, denied, workVars, procVars>>
      /\ session' \in {session, "none"} /\ group' \in {group, "gone"} /\ group # "none"
  BY DEF DeleteImage, DiscardGroup
<1>4. TypeOK'
  BY <1>0, <1>2, <1>3 DEF TypeOK, workVars, procVars
<1>5. DoomedAreGone'
  <2>1. \A d \in doomed : d[1] \in Images
    BY <1>0 DEF TypeOK
  <2>2. ASSUME NEW i \in Images, DeleteImage(i) PROVE DoomedAreGone'
    <3>1. doomed' \subseteq doomed \cup {<<i, path[i]>>} /\ status'[i] = "gone"
      BY <1>0, <2>2 DEF DeleteImage, TypeOK
    <3> QED BY <1>0, <1>1, <2>1, <3>1 DEF DoomedAreGone
  <2>3. CASE DiscardGroup
    <3>1. doomed' = doomed \cup {<<j, path[j]>> : j \in Rows} /\ \A j \in Rows : status'[j] = "gone"
      BY <1>0, <2>3 DEF DiscardGroup, Rows
    <3> QED BY <1>0, <1>1, <2>1, <3>1 DEF DoomedAreGone
  <2> QED BY <2>2, <2>3
<1>6. AddedIsSettled'
  BY <1>0, <1>1, <1>3 DEF AddedIsSettled, TypeOK, Images
<1>7. \A j \in Images : status'[j] \in InFlight => status'[j] = status[j]
  BY <1>1 DEF InFlight
<1>8. wpc \in AtWork => status'[cur] \in {status[cur], "gone"}
  BY <1>0, <1>1 DEF Claimed
<1> QED BY <1>0, <1>3, <1>4, <1>5, <1>6, <1>7, <1>8, RowsSettle DEF procVars

(* Approvals, and images added in review.                                  *)
LEMMA ReviewStep ==
  ASSUME IntakeInv, Approve \/ CommitAppend PROVE IntakeInv'
<1>0. TypeOK /\ ~Nothing /\ DoomedAreGone /\ AddedIsSettled /\ Claimed
  BY DEF IntakeInv, Nothing, Approve, CommitAppend
<1>1. CASE Approve
  <2>1. TypeOK' /\ DoomedAreGone' /\ AddedIsSettled' /\ Settled
    BY <1>0, <1>1 DEF Approve, Asked, TypeOK, DoomedAreGone, AddedIsSettled, Settled, clientVars,
                      workVars, procVars
  <2> QED BY <1>0, <1>1, <2>1, RowsSettle DEF Approve, clientVars, procVars
<1>2. CASE CommitAppend
  <2>1. /\ adding \in Images /\ status[adding] = "none" /\ group = "pending"
        /\ status' = [status EXCEPT ![adding] = "processed"]
        /\ path' = [path EXCEPT ![adding] = "originals"]
        /\ UNCHANGED <<group, files, session, clientVars, workVars, procVars>>
    BY <1>0, <1>2 DEF CommitAppend, Committed, TypeOK, Images
  <2>2. TypeOK'
    BY <1>0, <2>1 DEF TypeOK, Dirs, clientVars, workVars, procVars
  <2>3. DoomedAreGone' /\ AddedIsSettled'
    BY <1>0, <2>1 DEF DoomedAreGone, AddedIsSettled, TypeOK, clientVars
  <2>4. wpc \in AtWork => status'[cur] \in {status[cur], "gone"}
    BY <1>0, <2>1 DEF Claimed, TypeOK
  <2>5. \A i \in Images : status'[i] \in InFlight => status'[i] = status[i]
    BY <1>0, <2>1 DEF TypeOK, InFlight
  <2> QED BY <1>0, <2>1, <2>2, <2>3, <2>4, <2>5, RowsSettle DEF clientVars, procVars
<1> QED BY <1>1, <1>2

(* Files come and go, and the process stops and starts.                    *)
LEMMA RestStep ==
  ASSUME IntakeInv,
         (\E d \in doomed : RemoveDoomed(d)) \/ (\E i \in Extras : SaveExtra(i))
           \/ RefuseAppend \/ AnswerAppend \/ Stop \/ Start
  PROVE  IntakeInv'
<1>0. TypeOK
  BY DEF IntakeInv
<1>1. ASSUME NEW d \in doomed, RemoveDoomed(d) PROVE IntakeInv'
  <2>1. files' \in [Images -> SUBSET Dirs] /\ doomed' \subseteq doomed /\ ~Nothing
    BY <1>0, <1>1 DEF RemoveDoomed, TypeOK, Nothing
  <2>2. UNCHANGED <<rowVars, session, upload, adding, denied, workVars, procVars>>
    BY <1>1 DEF RemoveDoomed
  <2> QED BY <1>0, <2>1, <2>2
    DEF IntakeInv, TypeOK, BeforeUpload, Nothing, May, Claimed, Counted, Settled, Rows, HasRow,
        ApprovedSettled, DoomedAreGone, AddedIsSettled, FinishedIsFinal, rowVars, workVars, procVars
<1>2. ASSUME NEW i \in Extras, SaveExtra(i) PROVE IntakeInv'
  <2>1. files' \in [Images -> SUBSET Dirs] /\ adding' = i /\ status[i] = "none" /\ ~Nothing
    BY <1>0, <1>2 DEF SaveExtra, TypeOK, Nothing, Dirs
  <2>2. UNCHANGED <<rowVars, session, upload, doomed, denied, workVars, procVars>>
    BY <1>2 DEF SaveExtra
  <2> QED BY <1>0, <2>1, <2>2
    DEF IntakeInv, TypeOK, BeforeUpload, Nothing, May, Claimed, Counted, Settled, Rows, HasRow,
        ApprovedSettled, DoomedAreGone, AddedIsSettled, FinishedIsFinal, rowVars, workVars, procVars
<1>3. CASE RefuseAppend \/ AnswerAppend
  <2>1. /\ files' \in [Images -> SUBSET Dirs] /\ adding' = NoImage /\ ~Nothing
        /\ denied' \subseteq Extras /\ AddedIsSettled'
    <3>1. AddedIsSettled /\ NoImage \notin Extras
      BY IntakeAssumption DEF IntakeInv
    <3>2. CASE RefuseAppend
      BY <1>0, <3>1, <3>2 DEF RefuseAppend, AddedIsSettled, TypeOK, Nothing, rowVars
    <3>3. CASE AnswerAppend
      BY <1>0, <3>1, <3>3 DEF AnswerAppend, Committed, AddedIsSettled, TypeOK, Nothing, rowVars
    <3> QED BY <1>3, <3>2, <3>3
  <2>2. UNCHANGED <<rowVars, session, upload, doomed, workVars, procVars>>
    BY <1>3 DEF RefuseAppend, AnswerAppend
  <2> QED BY <1>0, <2>1, <2>2
    DEF IntakeInv, TypeOK, BeforeUpload, Nothing, May, Claimed, Counted, Settled, Rows, HasRow,
        ApprovedSettled, DoomedAreGone, FinishedIsFinal, rowVars, workVars, procVars
<1>4. CASE Stop
  <2>1. TypeOK'
    <3>1. scenario.stops \in Nat /\ stops' \in 0 .. scenario'.stops
      BY <1>0, <1>4, IntakeAssumption DEF Stop, TypeOK
    <3> QED BY <1>0, <1>4, <3>1 DEF Stop, TypeOK, Dirs, rowVars
  <2>2. /\ upload' \in {"idle", "over"} /\ (upload' = "idle" => upload = "idle")
        /\ adding' = NoImage /\ doomed' = {} /\ wpc' = "idle"
        /\ UNCHANGED <<rowVars, files, session, denied, scenario>>
    BY <1>4 DEF Stop
  <2>3. AddedIsSettled'
    BY <1>0, <2>2, IntakeAssumption DEF IntakeInv, TypeOK, AddedIsSettled, rowVars
  <2> QED BY <2>1, <2>2, <2>3
    DEF IntakeInv, BeforeUpload, Nothing, May, Claimed, AtWork, Counted, Settled, Rows, HasRow,
        ApprovedSettled, DoomedAreGone, FinishedIsFinal, rowVars
<1>5. CASE Start
  BY <1>0, <1>5
  DEF Start, IntakeInv, TypeOK, BeforeUpload, Nothing, May, Claimed, Counted, Settled, Rows,
      HasRow, ApprovedSettled, DoomedAreGone, AddedIsSettled, FinishedIsFinal, rowVars, clientVars,
      workVars
<1> QED BY <1>1, <1>2, <1>3, <1>4, <1>5

-----------------------------------------------------------------------------
LEMMA IntakeStep == IntakeInv /\ [Next]_vars => IntakeInv'
<1> SUFFICES ASSUME IntakeInv, [Next]_vars PROVE IntakeInv'
  OBVIOUS
<1>1. CASE SaveUpload \/ FinishUpload \/ CleanUpload
  BY <1>1, UploadStep
<1>2. CASE Scan
  BY <1>2, LookStep, FileStep, RowStep, CountStep, WriteStep DEF Scan
<1>3. CASE (\E i \in Images : DeleteImage(i)) \/ DiscardGroup
  BY <1>3, DeleteStep
<1>4. CASE Approve \/ CommitAppend
  BY <1>4, ReviewStep
<1>5. CASE (\E d \in doomed : RemoveDoomed(d)) \/ (\E i \in Extras : SaveExtra(i))
             \/ RefuseAppend \/ AnswerAppend \/ Stop \/ Start
  BY <1>5, RestStep
<1>6. CASE UNCHANGED vars
  BY <1>6
  DEF vars, IntakeInv, TypeOK, BeforeUpload, Nothing, May, Claimed, Counted, Settled, Rows,
      HasRow, ApprovedSettled, DoomedAreGone, AddedIsSettled, FinishedIsFinal, rowVars, clientVars,
      workVars, procVars
<1> QED BY <1>1, <1>2, <1>3, <1>4, <1>5, <1>6 DEF Next

(* FinishedIsFinal holds of any session: what Recalculate counted as       *)
(* finished cannot be in flight again when it writes, nor later.           *)
THEOREM SessionsFinishOnce == Spec => []FinishedIsFinal
<1>1. IntakeInv => FinishedIsFinal
  BY DEF IntakeInv
<1> QED BY <1>1, IntakeInit, IntakeStep, PTL DEF Spec

-----------------------------------------------------------------------------
(* No file of a row changes in an approved group: the worker is busy only  *)
(* with an image whose row is gone, and so are those to be removed.        *)
LEMMA ApprovedStep ==
  ASSUME IntakeInv, [Next]_vars, group = "approved", NEW i \in Rows
  PROVE  /\ UNCHANGED <<status[i], path[i]>>
         /\ UNCHANGED files[i] \/ May("commit") \/ i \in denied' \ denied
<1>0. /\ TypeOK /\ ~Nothing /\ Claimed /\ DoomedAreGone /\ AddedIsSettled /\ i \in Images
      /\ status[i] \notin InFlight \cup {"none", "gone"}
      /\ \A j \in Images : status[j] # "pending"
      /\ upload \notin {"idle", "saved"} /\ (upload = "cleaning" => May("commit"))
  BY DEF IntakeInv, Nothing, BeforeUpload, ApprovedSettled, Settled, Rows, HasRow, InFlight
<1>1. wpc \in AtWork => cur # i /\ ~HasRow(cur)
  BY <1>0 DEF Claimed, IntakeInv, ApprovedSettled, Settled, Rows, HasRow, InFlight
<1>2. CASE SaveUpload \/ FinishUpload \/ CleanUpload
  BY <1>0, <1>2 DEF SaveUpload, FinishUpload, CleanUpload, rowVars
<1>3. CASE Scan
  <2>1. CASE ListPending \/ (\E j \in Images : NextAsset(j)) \/ EndScan \/ Validate
               \/ CountAssets \/ WriteSession
    BY <2>1 DEF ListPending, NextAsset, EndScan, Validate, CountAssets, WriteSession, rowVars
  <2>2. CASE Claim
    BY <1>0, <2>2 DEF Claim, Claimed
  <2>3. CASE RecordProcessed \/ RecordFailed
    BY <1>1, <2>3 DEF RecordProcessed, RecordFailed, Record, AtWork
  <2>4. CASE MoveToProcessing \/ MoveToOriginals \/ MoveToFailed
    <3>1. UNCHANGED rowVars /\ cur # i
      BY <1>1, <2>4 DEF MoveToProcessing, MoveToOriginals, MoveToFailed, MoveFile, AtWork
    <3>2. PICK S : files' = files \/ files' = [files EXCEPT ![cur] = S]
      BY <2>4 DEF MoveToProcessing, MoveToOriginals, MoveToFailed, MoveFile, Moved, MoveBreaks
    <3>3. files \in [Images -> SUBSET Dirs]
      BY <1>0 DEF TypeOK
    <3> QED BY <1>0, <3>1, <3>2, <3>3 DEF rowVars
  <2> QED BY <1>3, <2>1, <2>2, <2>3, <2>4 DEF Scan
<1>4. CASE \E d \in doomed : RemoveDoomed(d)
  BY <1>0, <1>4 DEF RemoveDoomed, DoomedAreGone, TypeOK, rowVars
<1>5. CASE (\E j \in Extras : SaveExtra(j)) \/ RefuseAppend \/ AnswerAppend
  <2>1. CASE (\E j \in Extras : SaveExtra(j)) \/ RefuseAppend
    BY <1>0, <2>1 DEF SaveExtra, RefuseAppend, Committed, TypeOK, rowVars
  <2>2. CASE AnswerAppend
    <3>1. /\ UNCHANGED rowVars /\ adding \in Images /\ adding \notin denied
          /\ \/ UNCHANGED files
             \/ files' = [files EXCEPT ![adding] = {}] /\ denied' = denied \cup {adding}
      BY <1>0, <2>2 DEF AnswerAppend, AddedIsSettled, TypeOK, Images
    <3> QED BY <1>0, <3>1 DEF TypeOK, rowVars
  <2> QED BY <1>5, <2>1, <2>2
<1>6. CASE Stop \/ Start \/ UNCHANGED vars
  BY <1>6 DEF Stop, Start, vars, rowVars
<1> QED BY <1>0, <1>2, <1>3, <1>4, <1>5, <1>6
  DEF Next, DeleteImage, DiscardGroup, Approve, CommitAppend, Asked

(* ApprovedIsFrozen holds of any group, images, requests and stops.        *)
THEOREM ApprovalFreezes == Spec => ApprovedIsFrozen
<1>1. IntakeInv /\ [Next]_vars =>
        [group = "approved" =>
           \A i \in Rows : /\ UNCHANGED <<status[i], path[i]>>
                           /\ UNCHANGED files[i] \/ May("commit") \/ i \in denied' \ denied]_vars
  BY ApprovedStep
<1> QED BY <1>1, IntakeInit, IntakeStep, PTL DEF Spec, ApprovedIsFrozen

-----------------------------------------------------------------------------
(* Files.  An upload is on disk before its rows exist, and the file of the *)
(* asset at work is where the worker looks for it.                         *)
SavedIsThere == upload = "saved" => \A i \in Uploads : "intake" \in files[i]

PendingIsThere == \A i \in Rows : status[i] = "pending" => "intake" \in files[i] \/ May("commit")

Place(at) == CASE at \in {"claim", "stage"}      -> from = "intake"
               [] at \in {"validate", "publish"} -> from = "processing"
               [] at = "record"                  -> from = "originals"
               [] OTHER                          -> TRUE

AtHand == /\ Place(wpc)
          /\ wpc \in AtWork /\ HasRow(cur) =>
               \/ from \in files[cur]
               \/ wpc = "spoilt" /\ "failed" \in files[cur]
               \/ wpc \in {"stage", "spoil", "spoilt"} /\ May("commit")

AddedIsThere == adding # NoImage /\ status[adding] = "none" => "originals" \in files[adding]

FileInv == /\ IntakeInv /\ SavedIsThere /\ AddedIsThere /\ PendingIsThere /\ AtHand
           /\ RowsLeadToFiles

(* Rows go and files without a row change.                                 *)
LEMMA OtherFiles ==
  ASSUME FileInv, IntakeInv', UNCHANGED <<scenario, denied>>, SavedIsThere', AddedIsThere',
         AtHand',
         \A i \in Rows' : /\ i \in Rows /\ status'[i] = status[i]
                          /\ path'[i] = path[i] /\ files'[i] = files[i]
  PROVE  FileInv'
<1>1. PendingIsThere'
  BY DEF FileInv, PendingIsThere, May
<1>2. RowsLeadToFiles'
  BY DEF FileInv, RowsLeadToFiles, May
<1> QED BY <1>1, <1>2 DEF FileInv

LEMMA WorkerLooks ==
  ASSUME FileInv, IntakeInv', UNCHANGED <<rowVars, files, clientVars, procVars>>, AtHand'
  PROVE  FileInv'
<1>1. SavedIsThere' /\ AddedIsThere'
  BY DEF FileInv, SavedIsThere, AddedIsThere, rowVars, clientVars
<1> QED BY <1>1, OtherFiles DEF rowVars, clientVars, procVars, Rows, HasRow

LEMMA ClientFiles ==
  ASSUME FileInv, IntakeInv', UNCHANGED <<scenario, denied, workVars>>, ~Nothing,
         upload' = upload, AddedIsThere',
         \A i \in Rows' : /\ i \in Rows /\ status'[i] = status[i]
                          /\ path'[i] = path[i] /\ files'[i] = files[i]
  PROVE  FileInv'
<1>1. AtHand'
  <2>1. wpc \in AtWork /\ HasRow(cur)' => HasRow(cur) /\ files'[cur] = files[cur]
    BY DEF FileInv, IntakeInv, Claimed, Rows, workVars
  <2> QED BY <2>1 DEF FileInv, AtHand, Place, May, workVars, HasRow
<1>2. SavedIsThere'
  BY DEF FileInv, IntakeInv, BeforeUpload, SavedIsThere
<1> QED BY <1>1, <1>2, OtherFiles

LEMMA UploadFiles ==
  ASSUME FileInv, IntakeInv', SaveUpload \/ FinishUpload \/ CleanUpload PROVE FileInv'
<1>0. TypeOK /\ BeforeUpload /\ Claimed
  BY DEF FileInv, IntakeInv
<1>1. CASE SaveUpload \/ (FinishUpload /\ ~InsertUpload)
  <2>1. Nothing /\ UNCHANGED <<scenario, denied, rowVars, workVars>>
    BY <1>0, <1>1 DEF SaveUpload, FinishUpload, BeforeUpload, procVars, InsertUpload
  <2>2. Rows' = {} /\ AtHand'
    BY <2>1 DEF Nothing, Rows, HasRow, AtHand, AtWork, Place, rowVars, workVars
  <2>3. SavedIsThere' /\ AddedIsThere'
    BY <1>0, <1>1, <2>1 DEF SaveUpload, FinishUpload, SavedIsThere, AddedIsThere, Nothing,
                            TypeOK, Images
  <2> QED BY <2>1, <2>2, <2>3, OtherFiles
<1>2. CASE FinishUpload /\ InsertUpload
  <2>1. Nothing /\ upload = "saved" /\ upload' # "saved"
        /\ status' = [i \in Images |-> IF i \in Uploads THEN "pending" ELSE status[i]]
        /\ UNCHANGED <<path, files, adding, workVars, scenario>>
    BY <1>0, <1>2 DEF FinishUpload, InsertUpload, BeforeUpload, procVars
  <2>2. \A i \in Rows' : status'[i] = "pending" /\ "intake" \in files[i]
    BY <2>1 DEF Nothing, Rows, HasRow, FileInv, SavedIsThere
  <2>3. PendingIsThere' /\ RowsLeadToFiles'
    BY <2>1, <2>2 DEF PendingIsThere, RowsLeadToFiles
  <2>4. SavedIsThere' /\ AddedIsThere' /\ AtHand'
    BY <2>1 DEF Nothing, SavedIsThere, AddedIsThere, AtHand, AtWork, Place, workVars
  <2> QED BY <2>3, <2>4 DEF FileInv
<1>3. CASE CleanUpload
  <2>1. /\ UNCHANGED <<rowVars, adding, denied, workVars, scenario>> /\ upload' = "over"
        /\ \A i \in Images : files[i] \ {"intake"} \subseteq files'[i] /\ files'[i] \subseteq files[i]
    BY <1>0, <1>3 DEF CleanUpload, TypeOK, procVars
  <2>2. Rows' = Rows /\ (May("commit") \/ Rows = {})
    BY <1>0, <1>3, <2>1 DEF CleanUpload, BeforeUpload, Nothing, Rows, HasRow, rowVars
  <2>3. PendingIsThere' /\ SavedIsThere' /\ AddedIsThere'
    BY <1>0, <2>1, <2>2 DEF FileInv, PendingIsThere, SavedIsThere, AddedIsThere, May, TypeOK,
                            Images, rowVars
  <2>4. RowsLeadToFiles'
    <3>1. ASSUME NEW i \in Rows, May("commit"), status[i] = "processed"
          PROVE  path[i] = "originals" /\ ("originals" \in files'[i] \/ i \in denied)
      BY <2>1, <3>1 DEF FileInv, RowsLeadToFiles, Rows
    <3> QED BY <2>1, <2>2, <3>1 DEF RowsLeadToFiles, May, rowVars
  <2>5. AtHand'
    <3>1. ASSUME wpc \in AtWork, HasRow(cur)
          PROVE  \/ from \in files'[cur]
                 \/ wpc = "spoilt" /\ "failed" \in files'[cur]
                 \/ wpc \in {"stage", "spoil", "spoilt"} /\ May("commit")
      <4>1. cur \in Images /\ cur \in Rows
        BY <1>0, <3>1 DEF Claimed, Rows
      <4> QED BY <2>1, <2>2, <3>1, <4>1 DEF FileInv, AtHand, Place, AtWork
    <3> QED BY <2>1, <3>1 DEF FileInv, AtHand, Place, May, HasRow, rowVars, workVars
  <2> QED BY <2>3, <2>4, <2>5 DEF FileInv
<1> QED BY <1>1, <1>2, <1>3

(* The file of the asset at work is moved, or stays, or is in two places.  *)
LEMMA AtHandMoves ==
  ASSUME FileInv, IntakeInv', wpc \in AtWork,
         UNCHANGED <<rowVars, cur, clientVars, procVars>>,
         files' = files \/ \E S : S # {} /\ files' = [files EXCEPT ![cur] = S],
         AtHand'
  PROVE  FileInv'
<1>0. /\ TypeOK /\ cur \in Images /\ status[cur] \in {"processing", "gone"}
      /\ SavedIsThere' /\ Rows' = Rows /\ Rows \subseteq Images
  BY DEF FileInv, IntakeInv, Claimed, BeforeUpload, Nothing, AtWork, SavedIsThere,
         Rows, HasRow, rowVars, clientVars
<1>1. \A i \in Images \ {cur} : files'[i] = files[i]
  BY <1>0 DEF TypeOK
<1>5. AddedIsThere'
  BY <1>0, <1>1 DEF FileInv, AddedIsThere, TypeOK, Images, rowVars, clientVars
<1>2. files'[cur] # {} \/ files'[cur] = files[cur]
  BY <1>0 DEF TypeOK
<1>3. PendingIsThere'
  BY <1>0, <1>1 DEF FileInv, PendingIsThere, May, rowVars, procVars
<1>4. RowsLeadToFiles'
  <2>1. ASSUME NEW i \in Rows, i # cur PROVE files'[i] = files[i]
    BY <1>0, <1>1, <2>1
  <2>2. cur \in Rows => files'[cur] # {} \/ May("commit")
    BY <1>0, <1>2 DEF FileInv, RowsLeadToFiles, Rows, HasRow
  <2> QED BY <1>0, <2>1, <2>2 DEF FileInv, RowsLeadToFiles, May, Rows, HasRow, rowVars, clientVars, procVars
<1> QED BY <1>0, <1>3, <1>4, <1>5 DEF FileInv

LEMMA MoveFiles ==
  ASSUME FileInv, IntakeInv', MoveToProcessing \/ MoveToOriginals \/ MoveToFailed
  PROVE  FileInv'
<1>1. /\ TypeOK /\ wpc \in {"stage", "publish", "spoil"} /\ wpc \in AtWork /\ AtHand
      /\ cur \in Images /\ UNCHANGED <<rowVars, cur, clientVars, procVars>>
  BY DEF FileInv, IntakeInv, Claimed, MoveToProcessing, MoveToOriginals, MoveToFailed, MoveFile,
         AtWork
<1>2. PICK target \in {"processing", "originals", "failed"} :
        /\ \/ from \in files[cur] /\ Moved(cur, from, target)
              /\ target \in files'[cur]
              /\ \/ wpc' = "validate" /\ from' = "processing" /\ target = "processing"
                 \/ wpc' = "record" /\ from' = "originals" /\ target = "originals"
                 \/ wpc' = "spoilt" /\ from' = from /\ target = "failed"
           \/ /\ MoveBreaks(cur, from, target) /\ wpc' \in {"spoil", "spoilt"} /\ from' = from
              /\ files[cur] \subseteq files'[cur]
  BY <1>1 DEF MoveToProcessing, MoveToOriginals, MoveToFailed, MoveFile, Moved, MoveBreaks, TypeOK
<1>3. files' = files \/ \E S : S # {} /\ files' = [files EXCEPT ![cur] = S]
  BY <1>1, <1>2 DEF Moved, MoveBreaks
<1>4. AtHand'
  BY <1>1, <1>2 DEF AtHand, Place, AtWork, May, HasRow, rowVars, procVars
<1> QED BY <1>1, <1>3, <1>4, AtHandMoves

LEMMA RowFiles ==
  ASSUME FileInv, IntakeInv', Claim \/ RecordProcessed \/ RecordFailed
  PROVE  FileInv'
<1>0. /\ TypeOK /\ Claimed /\ AtHand /\ cur \in Images /\ SavedIsThere'
      /\ UNCHANGED <<files, clientVars, procVars>>
      /\ \A i \in Images : status'[i] = "none" => status[i] = "none"
  BY DEF FileInv, IntakeInv, Claim, RecordProcessed, RecordFailed, Record, Claimed, AtWork,
         SavedIsThere, clientVars, TypeOK, HasRow
<1>4. AddedIsThere'
  BY <1>0 DEF FileInv, AddedIsThere, TypeOK, Images, clientVars
<1>1. CASE UNCHANGED <<status, path>>
  <2>1. wpc' \in {"scan", "count"}
    BY <1>0, <1>1 DEF Claim, RecordProcessed, RecordFailed, Record, LeaveAsset, TypeOK
  <2>2. AtHand'
    BY <2>1 DEF AtHand, Place, AtWork
  <2> QED BY <1>0, <1>1, <1>4, <2>2, OtherFiles DEF Rows, HasRow, clientVars, procVars
<1>2. CASE Claim /\ ~UNCHANGED <<status, path>>
  <2>1. /\ status[cur] = "pending" /\ status' = [status EXCEPT ![cur] = "processing"]
        /\ wpc' = IF "intake" \in files[cur] THEN "stage" ELSE "spoil"
        /\ UNCHANGED <<cur, from, path>> /\ from = "intake"
    BY <1>0, <1>2 DEF Claim, AtHand, Place
  <2>2. "intake" \in files[cur] \/ May("commit")
    BY <1>0, <2>1 DEF FileInv, PendingIsThere, Rows, HasRow
  <2>3. AtHand'
    BY <1>0, <2>1, <2>2 DEF AtHand, Place, AtWork, May, procVars
  <2>4. Rows' = Rows /\ cur \in Rows /\ \A i \in Rows : i # cur => status'[i] = status[i]
    BY <1>0, <2>1 DEF TypeOK, Rows, HasRow
  <2>5. PendingIsThere'
    BY <1>0, <2>1, <2>4 DEF FileInv, TypeOK, PendingIsThere, May, procVars
  <2>6. RowsLeadToFiles'
    <3>1. status'[cur] = "processing" /\ (files[cur] # {} \/ May("commit"))
      BY <1>0, <2>1, <2>2 DEF TypeOK
    <3> QED BY <1>0, <2>1, <2>4, <3>1 DEF FileInv, RowsLeadToFiles, May, clientVars, procVars
  <2> QED BY <1>0, <1>4, <2>3, <2>5, <2>6 DEF FileInv
<1>3. CASE (RecordProcessed \/ RecordFailed) /\ ~UNCHANGED <<status, path>>
  <2>1. /\ HasRow(cur) /\ wpc' = "count"
        /\ \/ /\ wpc = "record" /\ status' = [status EXCEPT ![cur] = "processed"]
              /\ path' = [path EXCEPT ![cur] = "originals"]
           \/ /\ wpc = "spoilt" /\ status' = [status EXCEPT ![cur] = "failed"]
              /\ path' = [path EXCEPT ![cur] = IF "failed" \in files[cur] THEN "failed" ELSE from]
    BY <1>3 DEF RecordProcessed, RecordFailed, Record
  <2>2. AtHand'
    BY <2>1 DEF AtHand, Place, AtWork
  <2>3. PendingIsThere'
    BY <1>0, <2>1 DEF FileInv, TypeOK, PendingIsThere, Rows, HasRow, May, procVars
  <2>4. RowsLeadToFiles'
    <3>1. ASSUME NEW i \in Rows, i # cur PROVE status'[i] = status[i] /\ path'[i] = path[i]
      BY <1>0, <2>1, <3>1 DEF TypeOK, Rows
    <3>2. \/ status'[cur] = "processed" /\ path'[cur] = "originals" /\ "originals" \in files[cur]
          \/ status'[cur] = "failed" /\ (path'[cur] \in files[cur] \/ May("commit"))
      BY <1>0, <2>1 DEF TypeOK, AtHand, Place, AtWork
    <3>3. Rows' = Rows
      BY <1>0, <2>1 DEF TypeOK, Rows, HasRow
    <3> QED BY <1>0, <3>1, <3>2, <3>3 DEF FileInv, RowsLeadToFiles, May, clientVars, procVars
  <2> QED BY <1>0, <1>4, <2>2, <2>3, <2>4 DEF FileInv
<1> QED BY <1>1, <1>2, <1>3

(* Review requests: images and groups are deleted, approved and added.     *)
LEMMA ReviewFiles ==
  ASSUME FileInv, IntakeInv',
         (\E i \in Images : DeleteImage(i)) \/ DiscardGroup \/ Approve \/ CommitAppend
  PROVE  FileInv'
<1>0. /\ TypeOK /\ ~Nothing /\ UNCHANGED <<upload, scenario, denied, workVars, files, adding>>
      /\ Claimed /\ AddedIsThere
  BY DEF FileInv, IntakeInv, Nothing, DeleteImage, DiscardGroup, Approve, CommitAppend,
         clientVars, procVars
<1>1. CASE (\E i \in Images : DeleteImage(i)) \/ DiscardGroup
  <2>1. path' = path /\ \A i \in Images : status'[i] = "none" => status[i] = "none"
    BY <1>0, <1>1 DEF DeleteImage, DiscardGroup, TypeOK
  <2>2. \A i \in Rows' : i \in Rows /\ status'[i] = status[i]
    BY <1>0, <1>1 DEF DeleteImage, DiscardGroup, TypeOK, Rows, HasRow
  <2>3. AddedIsThere'
    BY <1>0, <2>1 DEF AddedIsThere, Committed, TypeOK, Images
  <2> QED BY <1>0, <2>1, <2>2, <2>3, ClientFiles
<1>2. CASE Approve
  BY <1>0, <1>2, ClientFiles DEF Approve, AddedIsThere, Committed, Rows, HasRow
<1>3. CASE CommitAppend
  <2>1. /\ adding \in Images /\ status[adding] = "none"
        /\ status' = [status EXCEPT ![adding] = "processed"]
        /\ path' = [path EXCEPT ![adding] = "originals"]
        /\ "originals" \in files[adding]
    BY <1>0, <1>3 DEF CommitAppend, Committed, AddedIsThere, TypeOK, Images
  <2>2. \A i \in Rows : i # adding /\ status'[i] = status[i] /\ path'[i] = path[i]
    BY <1>0, <2>1 DEF TypeOK, Rows, HasRow
  <2>3. Rows' = Rows \cup {adding} /\ status'[adding] = "processed" /\ path'[adding] = "originals"
    BY <1>0, <2>1 DEF TypeOK, Rows, HasRow
  <2>4. PendingIsThere'
    BY <1>0, <2>2, <2>3 DEF FileInv, PendingIsThere, May
  <2>5. RowsLeadToFiles'
    BY <1>0, <2>1, <2>2, <2>3 DEF FileInv, RowsLeadToFiles, May
  <2>6. SavedIsThere' /\ AddedIsThere'
    BY <1>0, <2>3 DEF FileInv, IntakeInv, BeforeUpload, SavedIsThere, AddedIsThere, Committed
  <2>7. AtHand'
    <3>1. wpc \in AtWork /\ HasRow(cur)' => HasRow(cur)
      BY <1>0, <2>1, <2>2 DEF Claimed, Rows, HasRow, workVars, TypeOK
    <3> QED BY <1>0, <3>1 DEF FileInv, AtHand, Place, May, workVars
  <2> QED BY <1>0, <2>4, <2>5, <2>6, <2>7 DEF FileInv
<1> QED BY <1>1, <1>2, <1>3

(* The answer to an addition removes no file but its own, and denies it.   *)
LEMMA AnswerFiles ==
  ASSUME FileInv, IntakeInv', AnswerAppend PROVE FileInv'
<1>0. /\ TypeOK /\ ~Nothing /\ Claimed /\ AddedIsSettled
      /\ UNCHANGED <<rowVars, upload, scenario, workVars>>
  BY DEF FileInv, IntakeInv, Nothing, AnswerAppend, procVars
<1>1. /\ adding \in Images /\ adding' = NoImage /\ status[adding] \in {"processed", "gone"}
      /\ \A i \in Images \ {adding} : files'[i] = files[i]
      /\ \/ UNCHANGED <<files, denied>>
         \/ denied' = denied \cup {adding}
  BY <1>0 DEF AnswerAppend, Committed, AddedIsSettled, TypeOK, Images
<1>2. Rows' = Rows /\ UNCHANGED <<status, path>> /\ Rows \subseteq Images
  BY <1>0 DEF Rows, HasRow, rowVars
<1>3. PendingIsThere' /\ SavedIsThere' /\ AddedIsThere'
  BY <1>0, <1>1, <1>2 DEF FileInv, IntakeInv, BeforeUpload, PendingIsThere, SavedIsThere,
                          AddedIsThere, May
<1>4. RowsLeadToFiles'
  <2>1. ASSUME NEW i \in Rows, i # adding
        PROVE  files'[i] = files[i] /\ (i \in denied => i \in denied')
    BY <1>1, <1>2, <2>1
  <2>2. CASE UNCHANGED <<files, denied>>
    BY <1>0, <1>2, <2>2 DEF FileInv, RowsLeadToFiles, May
  <2>3. CASE denied' = denied \cup {adding}
    BY <1>0, <1>1, <1>2, <2>1, <2>3 DEF FileInv, RowsLeadToFiles, May, Rows, HasRow
  <2> QED BY <1>1, <2>2, <2>3
<1>5. AtHand'
  <2>1. wpc \in AtWork /\ HasRow(cur) => files'[cur] = files[cur]
    BY <1>0, <1>1 DEF Claimed, HasRow, AtWork
  <2> QED BY <1>0, <1>2, <2>1 DEF FileInv, AtHand, Place, May, workVars, HasRow
<1> QED BY <1>3, <1>4, <1>5 DEF FileInv

(* Files of images without a row, and the stop and start of the process.   *)
LEMMA RestFiles ==
  ASSUME FileInv, IntakeInv',
         (\E d \in doomed : RemoveDoomed(d)) \/ (\E i \in Extras : SaveExtra(i))
           \/ RefuseAppend \/ Stop \/ Start \/ UNCHANGED vars
  PROVE  FileInv'
<1>0. TypeOK /\ DoomedAreGone /\ AddedIsSettled /\ AddedIsThere
  BY DEF FileInv, IntakeInv
<1>1. CASE (\E d \in doomed : RemoveDoomed(d)) \/ (\E i \in Extras : SaveExtra(i)) \/ RefuseAppend
  <2>1. ~Nothing /\ UNCHANGED <<rowVars, upload, denied, workVars, scenario>>
    BY <1>1 DEF RemoveDoomed, SaveExtra, RefuseAppend, Nothing, procVars
  <2>2. \A i \in Rows : files'[i] = files[i]
    BY <1>0, <1>1 DEF RemoveDoomed, SaveExtra, RefuseAppend, Committed, DoomedAreGone, TypeOK,
                      Rows, HasRow
  <2>3. AddedIsThere'
    <3>1. CASE \E d \in doomed : RemoveDoomed(d)
      BY <1>0, <3>1 DEF RemoveDoomed, DoomedAreGone, AddedIsThere, TypeOK, Images, rowVars
    <3>2. CASE (\E i \in Extras : SaveExtra(i)) \/ RefuseAppend
      BY <1>0, <3>2 DEF SaveExtra, RefuseAppend, AddedIsThere, TypeOK, Images
    <3> QED BY <1>1, <3>1, <3>2
  <2>4. Rows' = Rows /\ UNCHANGED <<status, path>> /\ Rows \subseteq Images
    BY <2>1 DEF Rows, HasRow, rowVars
  <2> QED BY <2>1, <2>2, <2>3, <2>4, ClientFiles
<1>2. CASE Stop \/ Start \/ UNCHANGED vars
  <2>1. UNCHANGED <<rowVars, files, denied, scenario>> /\ SavedIsThere' /\ AddedIsThere'
    BY <1>2 DEF Stop, Start, vars, FileInv, SavedIsThere, AddedIsThere, rowVars, clientVars, procVars
  <2>2. AtHand'
    BY <1>2 DEF Stop, Start, vars, FileInv, AtHand, Place, AtWork, May, HasRow, rowVars, workVars,
                procVars
  <2> QED BY <2>1, <2>2, OtherFiles DEF Rows, HasRow, rowVars
<1> QED BY <1>1, <1>2

LEMMA FilesNext == FileInv /\ [Next]_vars => FileInv'
<1> SUFFICES ASSUME FileInv, [Next]_vars PROVE FileInv'
  OBVIOUS
<1>0. IntakeInv' /\ AtHand /\ IntakeInv
  BY IntakeStep DEF FileInv
<1>1. CASE SaveUpload \/ FinishUpload \/ CleanUpload
  BY <1>0, <1>1, UploadFiles
<1>2. CASE ListPending \/ (\E i \in Images : NextAsset(i)) \/ EndScan \/ CountAssets
             \/ WriteSession
  <2>1. UNCHANGED <<rowVars, files, clientVars, procVars>>
    BY <1>2 DEF ListPending, NextAsset, EndScan, CountAssets, WriteSession
  <2>2. AtHand'
    BY <1>2 DEF ListPending, NextAsset, EndScan, CountAssets, WriteSession, LeaveAsset,
                AtHand, Place, AtWork
  <2> QED BY <1>0, <2>1, <2>2, WorkerLooks
<1>3. CASE Validate
  <2>1. UNCHANGED <<rowVars, files, clientVars, procVars, from, cur>>
          /\ wpc = "validate" /\ wpc' \in {"publish", "spoil"}
    BY <1>3 DEF Validate
  <2>2. AtHand'
    BY <1>0, <2>1 DEF AtHand, Place, AtWork, HasRow, rowVars
  <2> QED BY <1>0, <2>1, <2>2, WorkerLooks
<1>4. CASE MoveToProcessing \/ MoveToOriginals \/ MoveToFailed
  BY <1>0, <1>4, MoveFiles
<1>5. CASE Claim \/ RecordProcessed \/ RecordFailed
  BY <1>0, <1>5, RowFiles
<1>6. CASE (\E i \in Images : DeleteImage(i)) \/ DiscardGroup \/ Approve \/ CommitAppend
  BY <1>0, <1>6, ReviewFiles
<1>7. CASE (\E d \in doomed : RemoveDoomed(d)) \/ (\E i \in Extras : SaveExtra(i))
             \/ RefuseAppend \/ Stop \/ Start \/ UNCHANGED vars
  BY <1>0, <1>7, RestFiles
<1>8. CASE AnswerAppend
  BY <1>0, <1>8, AnswerFiles
<1> QED BY <1>1, <1>2, <1>3, <1>4, <1>5, <1>6, <1>7, <1>8 DEF Next, Scan

(* RowsLeadToFiles holds for any images, requests, faults and stops: the   *)
(* row of an image leads to its file wherever the worker is with it.       *)
THEOREM RowsHaveFiles == Spec => []RowsLeadToFiles
<1>1. Init => FileInv
  <2>1. Init => Rows = {} /\ wpc = "idle" /\ upload = "idle" /\ adding = NoImage
    BY DEF Init, Rows, HasRow
  <2> QED BY <2>1, IntakeInit DEF FileInv, SavedIsThere, AddedIsThere, PendingIsThere, AtHand,
             Place, AtWork, RowsLeadToFiles
<1>2. FileInv => RowsLeadToFiles
  BY DEF FileInv
<1> QED BY <1>1, <1>2, FilesNext, PTL DEF Spec

(* The variables keep their types, for any images, requests and faults.    *)
THEOREM IntakeTypes == Spec => []TypeOK
<1>1. IntakeInv => TypeOK
  BY DEF IntakeInv
<1> QED BY <1>1, IntakeInit, IntakeStep, PTL DEF Spec
=============================================================================
