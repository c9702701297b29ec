-------------------------- MODULE WholeSceneProofs --------------------------
(***************************************************************************)
(* Runs, reviews, images and the clean-up of a scan, for any requests,     *)
(* candidates, images, runs and restarts, whatever statements fail and     *)
(* whichever transactions PostgreSQL aborts.                               *)
(***************************************************************************)
EXTENDS WholeScene, FiniteSetTheorems, TLAPS

Has(p, lock) == Running(p) /\ lock \in Did(p)

(* The plans leave no two transactions with conflicting locks.             *)
Exclusion ==
  \A p, q \in Procs : p # q =>
    /\ Has(p, "scan") => ~Has(q, "key") /\ ~Has(q, "touch") /\ ~Has(q, "scan")
    /\ Has(p, "cand") /\ Running(q) => ~HoldsCand(q, tx[p].cand)
    /\ Has(p, "rows") /\ Deletes(p) => ~Has(q, "run")

(* A transaction is somewhere in the plan of a request, or of the worker.  *)
WorkerOps == {"claim", "fail", "save", "reset", "requeue"}

InPlan ==
  /\ \A p \in Procs : tx[p].at <= Len(Plan[tx[p].op])
  /\ \A p \in Clients : tx[p].op \in Requests \cup {"idle"}
  /\ tx[Worker].op \in WorkerOps \cup {"idle"} /\ ~tx[Worker].done

(* What a statement has read stays true for as long as its locks are held. *)
SeesScan(p) == Has(p, "key") \/ Has(p, "scan") => Exists

SeesRuns(p) ==
  tx[p].op = "queue" /\ Has(p, "run") =>
    \/ tx[p].saw = "open" /\ Latest > 0
    \/ tx[p].saw = "new" /\ Latest < MaxRuns /\ ~LatestIsOpen

SeesCandidate(p) ==
  /\ tx[p].op \in Decisions \cup {"append", "delimg"} => tx[p].cand \in Candidates
  /\ tx[p].op \in Decisions /\ Has(p, "cand") =>
       /\ HasRow(tx[p].cand)
       /\ tx[p].op = "approve" => status[tx[p].cand] # "rejected"
       /\ tx[p].op = "reject" => status[tx[p].cand] # "approved"

OthersUndecided(c) == {d \in Candidates \ {c} : status[d] \in Undecided}

SeesOthers(p) ==
  tx[p].op \in Decisions =>
    /\ tx[p].saw \in {"nothing", "reviewed", "pending"}
    /\ ~Has(p, "count") /\ Running(p) => tx[p].saw = "nothing"
    /\ Has(p, "count") => tx[p].saw # "nothing"
    /\ Has(p, "count") => tx[p].saw = "reviewed" <=> OthersUndecided(tx[p].cand) = {}

NewOnes(p) ==
  /\ tx[p].op \in {"add", "save"} /\ Running(p) =>
       /\ tx[p].cand \in Candidates /\ status[tx[p].cand] = "none"
       /\ \A q \in Procs \ {p} : tx[q].cand # tx[p].cand
  /\ tx[p].op \in {"append", "delimg"} => tx[p].image \in Images

Sees == \A p \in Procs : /\ SeesScan(p) /\ SeesRuns(p) /\ SeesCandidate(p) /\ SeesOthers(p)
                         /\ NewOnes(p)

(* The rows of the scan.                                                   *)
InOrder == /\ Latest \in 0 .. MaxRuns
           /\ \A n \in Runs : runs[n] # "none" <=> n <= Latest
           /\ \A n \in Runs : runs[n] \in Open => n = Latest

RowsOfScan ==
  /\ ~Exists => /\ \A n \in Runs : runs[n] = "none"
                /\ \A c \in Candidates : ~HasRow(c)
  /\ \A c \in Candidates : /\ HasRow(c) /\ run[c] > 0 => runs[run[c]] \in {"succeeded", "failed"}
                           /\ status[c] = "none" => run[c] = 0

(* The worker's job.                                                       *)
Working ==
  /\ tx[Worker].op = "claim" => /\ job.kind = "idle" /\ job.run \in Runs
                                /\ runs[job.run] = "queued" /\ Has(Worker, "run")
  /\ tx[Worker].op \in {"fail", "save"} => job.kind = "run"
  /\ job.kind = "run" => /\ job.run \in Runs /\ scan # "none"
                         /\ Exists => runs[job.run] = "processing"
  /\ job.kind = "assist" => job.cand \in Candidates

SceneInv == /\ TypeOK /\ Exclusion /\ InPlan /\ Sees /\ InOrder /\ RowsOfScan /\ Working
            /\ ScanShowsItsRun /\ ReviewedScanIsGone

-----------------------------------------------------------------------------
(* Statements of a plan.                                                   *)

(* The plan of each operation is short and known.                          *)
LEMMA Plans ==
  /\ Plan["approve"] = <<"cand", "touch", "scan", "cands", "count", "rows">>
  /\ Plan["reject"] = <<"cand", "touch", "scan", "cands", "count", "rows">>
  /\ Plan["append"] = <<"cand", "touch">> /\ Plan["delimg"] = <<"cand", "touch">>
  /\ Plan["add"] = <<"key", "touch">> /\ Plan["queue"] = <<"scan", "run">>
  /\ Plan["delete"] = <<"scan", "rows">> /\ Plan["save"] = <<"key", "run", "touch">>
  /\ Plan["claim"] = <<"run", "touch">> /\ Plan["fail"] = <<"run", "touch">>
  /\ Plan["reset"] = <<"run", "touch">>
  /\ Plan["requeue"] = <<"cands">>
  /\ Plan["idle"] = << >> /\ Plan["patch"] = << >> /\ Plan["assist"] = << >>
  BY DEF Plan, TxOps, Requests, Decisions, ReviewPlan

(* What a transaction holds at its end.                                    *)
LEMMA AtTheEnd ==
  ASSUME InPlan, NEW p \in Procs, AtEnd(p)
  PROVE  /\ tx[p].op \in Decisions => \A s \in {"cand", "scan", "cands", "count", "rows"} : Has(p, s)
         /\ tx[p].op \in {"append", "delimg"} => Has(p, "cand")
         /\ tx[p].op = "add" => Has(p, "key")
         /\ tx[p].op = "queue" => Has(p, "scan") /\ Has(p, "run")
         /\ tx[p].op = "delete" => Has(p, "scan") /\ Has(p, "rows")
         /\ tx[p].op = "save" => Has(p, "key")
<1> DEFINE t == tx[p]
<1>1. Running(p) /\ t.at = Len(Plan[t.op])
  BY DEF AtEnd
<1>2. ASSUME t.op \in Decisions PROVE \A s \in {"cand", "scan", "cands", "count", "rows"} : Has(p, s)
  <2>1. Plan[t.op] = <<"cand", "touch", "scan", "cands", "count", "rows">>
    BY <1>2, Plans DEF Decisions
  <2> QED BY <1>1, <2>1 DEF Has, Did
<1>3. ASSUME t.op \in {"append", "delimg"} PROVE Has(p, "cand")
  <2>1. Plan[t.op] = <<"cand", "touch">>
    BY <1>3, Plans
  <2> QED BY <1>1, <2>1 DEF Has, Did
<1>4. ASSUME t.op = "add" PROVE Has(p, "key")
  <2>1. Plan[t.op] = <<"key", "touch">> /\ t.at = 2
    BY <1>1, <1>4, Plans
  <2> QED BY <1>1, <2>1 DEF Has, Did
<1>5. ASSUME t.op = "queue" PROVE Has(p, "scan") /\ Has(p, "run")
  <2>1. Plan[t.op] = <<"scan", "run">> /\ t.at = 2
    BY <1>1, <1>5, Plans
  <2> QED BY <1>1, <2>1 DEF Has, Did
<1>6. ASSUME t.op = "delete" PROVE Has(p, "scan") /\ Has(p, "rows")
  <2>1. Plan[t.op] = <<"scan", "rows">> /\ t.at = 2
    BY <1>1, <1>6, Plans
  <2> QED BY <1>1, <2>1 DEF Has, Did
<1>7. ASSUME t.op = "save" PROVE Has(p, "key")
  <2>1. Plan[t.op] = <<"key", "run", "touch">> /\ t.at = 3
    BY <1>1, <1>7, Plans
  <2> QED BY <1>1, <2>1 DEF Has, Did
<1> QED BY <1>2, <1>3, <1>4, <1>5, <1>6, <1>7

(* A statement is one of the plan of its operation.                        *)
LEMMA OfThePlan ==
  ASSUME TypeOK, InPlan, NEW p \in Procs, Running(p), ~AtEnd(p)
  PROVE  /\ tx[p].at + 1 \in 1 .. Len(Plan[tx[p].op]) /\ Len(Plan[tx[p].op]) <= 6
         /\ NextLock(p) = "cand" => tx[p].op \in Decisions \cup {"append", "delimg"}
         /\ NextLock(p) = "count" => tx[p].op \in Decisions /\ "rows" \notin Did(p)
                                     /\ "count" \notin Did(p) /\ Has(p, "scan") /\ Has(p, "cands")
         /\ NextLock(p) = "run" => tx[p].op \in {"queue", "claim", "fail", "reset", "save"}
         /\ NextLock(p) = "run" /\ tx[p].op = "queue" => Has(p, "scan")
         /\ NextLock(p) = "rows" => tx[p].op = "delete" \/ (tx[p].op \in Decisions /\ Has(p, "cands"))
<1> DEFINE t == tx[p]
<1>1. t.op \in TxOps /\ t.at \in 0 .. 6 /\ t.at <= Len(Plan[t.op]) /\ t.at # Len(Plan[t.op])
      /\ t.op # "idle"
  BY DEF TypeOK, InPlan, AtEnd, Running
<1>2. CASE t.op \in Decisions
  <2>1. Plan[t.op] = <<"cand", "touch", "scan", "cands", "count", "rows">>
    BY <1>2, Plans DEF Decisions
  <2>2. t.at \in 0 .. 5 /\ Len(Plan[t.op]) = 6
    BY <1>1, <2>1
  <2> QED BY <1>1, <1>2, <2>1, <2>2 DEF NextLock, Did, Has, Decisions
<1>3. CASE t.op \in {"append", "delimg"}
  <2>1. Plan[t.op] = <<"cand", "touch">>
    BY <1>3, Plans
  <2>2. t.at \in 0 .. 1 /\ Len(Plan[t.op]) = 2
    BY <1>1, <2>1
  <2> QED BY <1>1, <1>3, <2>1, <2>2 DEF NextLock, Did, Has, Decisions
<1>4. CASE t.op = "add"
  BY <1>1, <1>4, Plans DEF NextLock, Did, Has, Decisions
<1>5. CASE t.op = "queue"
  <2>1. t.at \in 0 .. 1 /\ Plan[t.op] = <<"scan", "run">>
    BY <1>1, <1>5, Plans
  <2> QED BY <1>1, <1>5, <2>1 DEF NextLock, Did, Has, Decisions
<1>6. CASE t.op = "delete"
  BY <1>1, <1>6, Plans DEF NextLock, Did, Has, Decisions
<1>7. CASE t.op = "save"
  BY <1>1, <1>7, Plans DEF NextLock, Did, Has, Decisions
<1>8. CASE t.op \in {"claim", "fail", "reset"}
  <2>1. Plan[t.op] = <<"run", "touch">>
    BY <1>8, Plans
  <2>2. t.at \in 0 .. 1 /\ Len(Plan[t.op]) = 2
    BY <1>1, <2>1
  <2> QED BY <1>1, <1>8, <2>1, <2>2 DEF NextLock, Did, Has, Decisions
<1>9. CASE t.op = "requeue"
  BY <1>1, <1>9, Plans DEF NextLock, Did, Has, Decisions
<1>10. t.op \notin {"idle", "patch", "assist"}
  BY <1>1, Plans
<1> QED BY <1>1, <1>2, <1>3, <1>4, <1>5, <1>6, <1>7, <1>8, <1>9, <1>10
        DEF TxOps, Requests, Decisions

(* A statement adds its lock to those of its transaction.                  *)
LEMMA StatementLocks ==
  ASSUME TypeOK, InPlan, NEW p \in Procs, Statement(p), NEW q \in Procs
  PROVE  /\ tx'[q].op = tx[q].op /\ tx'[q].cand = tx[q].cand /\ tx'[q].done = tx[q].done
         /\ Running(q)' = Running(q)
         /\ Did(q)' = IF q = p THEN Did(p) \cup {NextLock(p)} ELSE Did(q)
         /\ tx'[q].saw = IF q = p THEN Saw(p) ELSE tx[q].saw
<1>1. /\ tx'[q].op = tx[q].op /\ tx'[q].cand = tx[q].cand /\ tx'[q].done = tx[q].done
      /\ tx'[q].saw = IF q = p THEN Saw(p) ELSE tx[q].saw
      /\ tx'[q].at = IF q = p THEN tx[p].at + 1 ELSE tx[q].at
  BY DEF TypeOK, Statement
<1>2. tx[p].at \in Nat
  BY DEF TypeOK
<1>3. Did(q)' = {Plan[tx[q].op][k] : k \in 1 .. tx'[q].at}
  BY <1>1 DEF Did
<1>4. q = p => 1 .. tx'[q].at = (1 .. tx[p].at) \cup {tx[p].at + 1}
  BY <1>1, <1>2
<1> QED BY <1>1, <1>3, <1>4 DEF Did, Running, NextLock

-----------------------------------------------------------------------------
(* Locks.                                                                  *)

(* One of two locks.                                                       *)
LEMMA OneOfTwo ==
  ASSUME NEW a, NEW b, NEW locks
  PROVE  {a, b} \cap locks # {} <=> a \in locks \/ b \in locks
<1>1. ASSUME a \in locks \/ b \in locks PROVE {a, b} \cap locks # {}
  BY <1>1
<1>2. ASSUME {a, b} \cap locks # {} PROVE a \in locks \/ b \in locks
  BY <1>2
<1> QED BY <1>1, <1>2

(* A statement that runs waits for nobody.                                 *)
LEMMA NoConflict ==
  ASSUME NEW p \in Procs, Statement(p), NEW q \in Procs, q # p
  PROVE  /\ NextLock(p) = "scan" => ~Has(q, "key") /\ ~Has(q, "touch") /\ ~Has(q, "scan")
         /\ NextLock(p) \in {"key", "touch"} => ~Has(q, "scan")
         /\ NextLock(p) = "cand" /\ Running(q) => ~HoldsCand(q, tx[p].cand)
         /\ NextLock(p) = "cands" => ~Has(q, "cand")
         /\ NextLock(p) = "run" => ~(Has(q, "rows") /\ Deletes(q))
         /\ NextLock(p) = "rows" /\ Deletes(p) => ~Has(q, "cand") /\ ~Has(q, "run")
<1>1. Running(q) => ~Conflict(q, p)
  BY DEF Statement, WaitsFor
<1>2. NextLock(p) = "scan" => ~Has(q, "key") /\ ~Has(q, "touch") /\ ~Has(q, "scan")
  BY <1>1 DEF Conflict, Has
<1>3. NextLock(p) \in {"key", "touch"} => ~Has(q, "scan")
  BY <1>1 DEF Conflict, Has
<1>4. NextLock(p) = "cand" /\ Running(q) => ~HoldsCand(q, tx[p].cand)
  BY <1>1 DEF Conflict
<1>5. NextLock(p) = "cands" => ~Has(q, "cand")
  BY <1>1 DEF Conflict, Has
<1>6. NextLock(p) = "run" => ~(Has(q, "rows") /\ Deletes(q))
  BY <1>1 DEF Conflict, Has
<1>7. NextLock(p) = "rows" /\ Deletes(p) => ~Has(q, "cand") /\ ~Has(q, "run")
  BY <1>1 DEF Conflict, Has
<1> QED BY <1>2, <1>3, <1>4, <1>5, <1>6, <1>7

(* A transaction that begins, ends or goes on takes no lock from others.   *)
LEMMA LocksLoosen ==
  ASSUME Exclusion, \A q \in Procs : Running(q)' => Did(q)' = {} \/ tx'[q] = tx[q]
  PROVE  Exclusion'
<1>1. ASSUME NEW q \in Procs, tx'[q] = tx[q]
      PROVE  /\ Did(q)' = Did(q) /\ Running(q)' = Running(q) /\ Deletes(q)' = Deletes(q)
             /\ \A s : Has(q, s)' = Has(q, s)
             /\ \A c : HoldsCand(q, c)' = HoldsCand(q, c)
  BY <1>1 DEF Did, Running, Deletes, Has, HoldsCand
<1>2. ASSUME NEW q \in Procs, Did(q)' = {}
      PROVE  (\A s : ~Has(q, s)') /\ \A c : ~HoldsCand(q, c)'
  BY <1>2 DEF Has, HoldsCand
<1>3. ASSUME NEW q \in Procs, ~Running(q)' PROVE \A s : ~Has(q, s)'
  BY <1>3 DEF Has
<1>4. SUFFICES ASSUME NEW p \in Procs, NEW q \in Procs, p # q
               PROVE  /\ Has(p, "scan")' => ~Has(q, "key")' /\ ~Has(q, "touch")' /\ ~Has(q, "scan")'
                      /\ Has(p, "cand")' /\ Running(q)' => ~HoldsCand(q, tx[p].cand)'
                      /\ Has(p, "rows")' /\ Deletes(p)' => ~Has(q, "run")'
  BY DEF Exclusion
<1>5. CASE tx'[p] = tx[p] /\ tx'[q] = tx[q]
  BY <1>1, <1>4, <1>5 DEF Exclusion
<1>6. CASE ~Running(p)' \/ ~Running(q)' \/ Did(p)' = {} \/ Did(q)' = {}
  BY <1>2, <1>3, <1>6
<1> QED BY <1>5, <1>6

(* A statement keeps the locks apart (its plan and WaitsFor).              *)
LEMMA StatementExcludes ==
  ASSUME TypeOK, InPlan, Exclusion, NEW p \in Procs, Statement(p)
  PROVE  Exclusion'
<1> DEFINE n == NextLock(p)
<1>0. Running(p) /\ ~AtEnd(p)
  BY DEF Statement
<1>1. ASSUME NEW q \in Procs
      PROVE  /\ Running(q)' = Running(q)
             /\ Did(q)' = IF q = p THEN Did(p) \cup {n} ELSE Did(q)
             /\ tx'[q].cand = tx[q].cand /\ tx'[q].op = tx[q].op
             /\ tx'[q].saw = IF q = p THEN Saw(p) ELSE tx[q].saw
  BY StatementLocks
<1>2. ASSUME NEW q \in Procs, NEW s
      PROVE  Has(q, s)' <=> Has(q, s) \/ (q = p /\ n = s)
  BY <1>0, <1>1 DEF Has
<1>3. ASSUME NEW q \in Procs, NEW c
      PROVE  HoldsCand(q, c)' <=> \/ HoldsCand(q, c)
                                  \/ q = p /\ n \in {"cands", "rows"}
                                  \/ q = p /\ n = "cand" /\ tx[p].cand = c
  <2>1. HoldsCand(q, c)' <=> \/ "cands" \in Did(q)' \/ "rows" \in Did(q)'
                             \/ "cand" \in Did(q)' /\ tx'[q].cand = c
    BY OneOfTwo DEF HoldsCand
  <2>2. HoldsCand(q, c) <=> \/ "cands" \in Did(q) \/ "rows" \in Did(q)
                            \/ "cand" \in Did(q) /\ tx[q].cand = c
    BY OneOfTwo DEF HoldsCand
  <2> HIDE DEF n
  <2>3. \A s : s \in Did(q)' <=> s \in Did(q) \/ (q = p /\ n = s)
    BY <1>1
  <2> QED BY <1>1, <2>1, <2>2, <2>3
<1>4. ASSUME NEW q \in Procs, Has(q, "rows")', Deletes(q)'
      PROVE  Deletes(q) /\ (Has(q, "rows") \/ (q = p /\ n = "rows"))
  <2>1. Saw(p) = "reviewed" => tx[p].saw = "reviewed" \/ n = "count"
    BY DEF Saw
  <2>2. n = "count" => ~Has(p, "rows")
    BY <1>0, OfThePlan DEF Has
  <2> QED BY <1>1, <1>2, <1>4, <2>1, <2>2 DEF Deletes
<1>5. n = "rows" => Deletes(p) \/ Has(p, "cands")
  BY <1>0, OfThePlan DEF Deletes
<1> HIDE DEF n
<1>6. ASSUME NEW a \in Procs, NEW b \in Procs, a # b, Has(a, "scan")'
      PROVE  ~Has(b, "key")' /\ ~Has(b, "touch")' /\ ~Has(b, "scan")'
  BY <1>2, <1>6, NoConflict DEF Exclusion, n
<1>7. ASSUME NEW a \in Procs, NEW b \in Procs, a # b, Has(a, "cand")', Running(b)'
      PROVE  ~HoldsCand(b, tx[a].cand)'
  <2>1. Running(b) /\ tx'[a].cand = tx[a].cand
    BY <1>1, <1>7
  <2>2. CASE a = p /\ n = "cand"
    <3>1. ~HoldsCand(b, tx[p].cand)
      BY <2>1, <2>2, <1>7, NoConflict DEF n
    <3> QED BY <1>3, <1>7, <2>1, <2>2, <3>1
  <2>3. CASE Has(a, "cand")
    <3>1. ~HoldsCand(b, tx[a].cand)
      BY <2>1, <2>3, <1>7 DEF Exclusion
    <3>2. b = p => n \notin {"cands", "rows"}
      <4>1. b = p /\ n = "cands" => FALSE
        BY <2>3, <1>7, NoConflict DEF n
      <4>2. b = p /\ n = "rows" => FALSE
        BY <2>3, <1>5, <1>7, <3>1, NoConflict DEF n, Has, HoldsCand
      <4> QED BY <4>1, <4>2
    <3>3. b = p /\ n = "cand" => tx[p].cand # tx[a].cand
      <4>1. b = p /\ n = "cand" => ~HoldsCand(a, tx[p].cand)
        BY <1>7, <2>3, NoConflict DEF n, Has
      <4> QED BY <2>3, <4>1 DEF HoldsCand, Has
    <3> QED BY <1>3, <2>1, <3>1, <3>2, <3>3
  <2> QED BY <1>2, <1>7, <2>2, <2>3
<1>8. ASSUME NEW a \in Procs, NEW b \in Procs, a # b, Has(a, "rows")', Deletes(a)'
      PROVE  ~Has(b, "run")'
  BY <1>2, <1>4, <1>8, NoConflict DEF Exclusion, n
<1> QED BY <1>6, <1>7, <1>8 DEF Exclusion

(* What comes before a lock in the plan is held with it.                   *)
LEMMA Earlier ==
  ASSUME TypeOK, InPlan, NEW p \in Procs
  PROVE  /\ tx[p].op = "queue" /\ Has(p, "run") => Has(p, "scan")
         /\ tx[p].op \in Decisions /\ Has(p, "count") => Has(p, "scan") /\ Has(p, "cands")
<1> DEFINE t == tx[p]
<1>1. t.at \in 0 .. 6 /\ t.at <= Len(Plan[t.op])
  BY DEF TypeOK, InPlan
<1>2. ASSUME t.op = "queue", Has(p, "run") PROVE Has(p, "scan")
  <2>1. Plan[t.op] = <<"scan", "run">>
    BY <1>2, Plans
  <2>2. PICK k \in 1 .. t.at : Plan[t.op][k] = "run"
    BY <1>2 DEF Has, Did
  <2> QED BY <1>1, <1>2, <2>1, <2>2 DEF Has, Did
<1>3. ASSUME t.op \in Decisions, Has(p, "count") PROVE Has(p, "scan") /\ Has(p, "cands")
  <2>1. Plan[t.op] = <<"cand", "touch", "scan", "cands", "count", "rows">>
    BY <1>3, Plans DEF Decisions
  <2>2. PICK k \in 1 .. t.at : Plan[t.op][k] = "count"
    BY <1>3 DEF Has, Did
  <2>3. t.at >= 5
    BY <1>1, <2>1, <2>2
  <2> QED BY <1>1, <1>3, <2>1, <2>3 DEF Has, Did
<1> QED BY <1>2, <1>3

-----------------------------------------------------------------------------
(* Steps that only begin, continue or end a transaction.                   *)
Tx == [op : TxOps, cand : Candidates \cup {Nobody}, image : Images \cup {NoImage}, at : 0 .. 6,
       saw : {"nothing", "open", "new", "pending", "reviewed"}, done : BOOLEAN,
       doomed : SUBSET Images]

(* What begins does not share a new candidate with what is under way.      *)
Fresh(p, r) ==
  /\ r \in Tx /\ r.at = 0 /\ ~r.done /\ r.saw = "nothing"
  /\ IF p = Worker THEN r.op \in WorkerOps \cup {"idle"} ELSE r.op \in Requests \cup {"idle"}
  /\ r.op \in Decisions \cup {"append", "delimg"} => r.cand \in Candidates
  /\ r.op \in {"append", "delimg"} => r.image \in Images
  /\ r.op \in {"add", "save"} => /\ r.cand \in Candidates /\ status[r.cand] = "none"
                                 /\ \A q \in Procs \ {p} : tx[q].cand # r.cand
  /\ r.cand # Nobody => HasRow(r.cand) \/ \A q \in Procs \ {p} : tx[q].cand # r.cand

(* An idle record is fresh.                                                *)
LEMMA IdleIsFresh == ASSUME NEW p \in Procs PROVE Fresh(p, Idle)
  BY DEF Fresh, Idle, Tx, TxOps, Decisions

(* The knowledge of a transaction that a step leaves alone.                *)
LEMMA SameKnowledge ==
  ASSUME NEW q \in Procs, tx'[q] = tx[q], UNCHANGED <<scan, runs, status>>
  PROVE  /\ SeesScan(q) => SeesScan(q)'
         /\ SeesRuns(q) => SeesRuns(q)'
         /\ SeesCandidate(q) => SeesCandidate(q)'
         /\ SeesOthers(q) => SeesOthers(q)'
<1>1. Running(q)' = Running(q) /\ \A s : Has(q, s)' = Has(q, s)
  BY DEF Running, Has, Did
<1>2. /\ Exists' = Exists /\ Latest' = Latest /\ LatestIsOpen' = LatestIsOpen
      /\ \A c : HasRow(c)' = HasRow(c) /\ OthersUndecided(c)' = OthersUndecided(c)
  BY DEF Exists, Latest, LatestIsOpen, HasRow, OthersUndecided
<1>3. SeesScan(q) => SeesScan(q)'
  BY <1>1, <1>2 DEF SeesScan
<1>4. SeesRuns(q) => SeesRuns(q)'
  BY <1>1, <1>2 DEF SeesRuns
<1>5. SeesCandidate(q) => SeesCandidate(q)'
  BY <1>1, <1>2 DEF SeesCandidate
<1>6. SeesOthers(q) => SeesOthers(q)'
  BY <1>1, <1>2 DEF SeesOthers
<1> QED BY <1>3, <1>4, <1>5, <1>6

(* A transaction begins or is forgotten.                                   *)
LEMMA TxBegins ==
  ASSUME TypeOK, Exclusion, InPlan, Sees, NEW p \in Procs, NEW r, Fresh(p, r),
         tx' = [tx EXCEPT ![p] = r], UNCHANGED <<scan, runs, status>>
  PROVE  tx' \in [Procs -> Tx] /\ Exclusion' /\ InPlan' /\ Sees'
<1>1. /\ tx \in [Procs -> Tx] /\ tx'[p] = r /\ tx' \in [Procs -> Tx]
      /\ \A q \in Procs \ {p} : tx'[q] = tx[q]
  BY DEF TypeOK, Tx, Fresh
<1>2. Did(p)' = {}
  BY <1>1 DEF Did, Fresh
<1>3. Exclusion'
  <2>1. \A q \in Procs : Running(q)' => Did(q)' = {} \/ tx'[q] = tx[q]
    BY <1>1, <1>2
  <2> QED BY <2>1, LocksLoosen
<1>4. InPlan'
  <2>1. Len(Plan[r.op]) \in Nat
    BY Plans DEF Fresh, Tx, TxOps, Requests, Decisions
  <2> QED BY <1>1, <2>1, SceneAssumption DEF InPlan, Fresh, Procs
<1>5. ASSUME NEW q \in Procs
      PROVE  SeesScan(q)' /\ SeesRuns(q)' /\ SeesCandidate(q)' /\ SeesOthers(q)'
  <2>1. CASE q = p
    <3>1. \A s : ~Has(p, s)'
      BY <1>2 DEF Has
    <3> QED BY <1>1, <2>1, <3>1
      DEF SeesScan, SeesRuns, SeesCandidate, SeesOthers, Fresh
  <2>2. CASE q # p
    BY <1>1, <2>2, SameKnowledge DEF Sees
  <2> QED BY <2>1, <2>2
<1>6. ASSUME NEW q \in Procs PROVE NewOnes(q)'
  <2>1. CASE q = p
    BY <1>1, <2>1 DEF NewOnes, Fresh
  <2>2. CASE q # p
    <3>1. Running(q)' = Running(q) /\ NewOnes(q)
      BY <1>1, <2>2 DEF Running, Sees
    <3>2. tx[q].op \in {"add", "save"} /\ Running(q) => tx[q].cand # r.cand
      BY <2>2, <3>1, SceneAssumption DEF NewOnes, Fresh, HasRow
    <3> QED BY <1>1, <2>2, <3>1, <3>2 DEF NewOnes
  <2> QED BY <2>1, <2>2
<1> QED BY <1>1, <1>3, <1>4, <1>5, <1>6 DEF Sees

(* The part of the invariant that is about the rows of the scan.           *)
RowsInv == InOrder /\ RowsOfScan /\ ScanShowsItsRun /\ ReviewedScanIsGone

(* The rows of the scan in a step that leaves them alone.                  *)
LEMMA SameRows ==
  ASSUME RowsInv, UNCHANGED <<scan, runs, status, run>> PROVE RowsInv'
<1>1. Latest' = Latest /\ Exists' = Exists /\ \A c : HasRow(c)' = HasRow(c)
  BY DEF Latest, Exists, HasRow
<1> QED BY <1>1 DEF RowsInv, InOrder, RowsOfScan, ScanShowsItsRun, ReviewedScanIsGone

(* A statement sees what Finds wanted and Saw noted.                       *)
LEMMA StatementSees ==
  ASSUME TypeOK, InPlan, Exclusion, Sees, NEW p \in Procs, Statement(p)
  PROVE  Sees'
<1> DEFINE n == NextLock(p)
<1>0. Running(p) /\ ~AtEnd(p) /\ Finds(p) /\ UNCHANGED <<scan, runs, status>>
  BY DEF Statement, sceneVars, candVars
<1>1. ASSUME NEW q \in Procs
      PROVE  /\ Running(q)' = Running(q)
             /\ Did(q)' = IF q = p THEN Did(p) \cup {n} ELSE Did(q)
             /\ tx'[q].cand = tx[q].cand /\ tx'[q].op = tx[q].op
             /\ tx'[q].saw = IF q = p THEN Saw(p) ELSE tx[q].saw
             /\ tx'[q].image = tx[q].image
             /\ q # p => tx'[q] = tx[q]
  <2>1. tx'[q].image = tx[q].image /\ (q # p => tx'[q] = tx[q])
    BY DEF Statement, TypeOK
  <2> QED BY <2>1, StatementLocks
<1>2. ASSUME NEW s PROVE Has(p, s)' <=> Has(p, s) \/ n = s
  BY <1>0, <1>1 DEF Has
<1>3. /\ Exists' = Exists /\ Latest' = Latest /\ LatestIsOpen' = LatestIsOpen
      /\ \A c : HasRow(c)' = HasRow(c) /\ OthersUndecided(c)' = OthersUndecided(c)
  BY <1>0 DEF Exists, Latest, LatestIsOpen, HasRow, OthersUndecided
<1>4. ASSUME NEW q \in Procs PROVE NewOnes(q)'
  BY <1>0, <1>1, <1>4 DEF NewOnes, Sees
<1>5. ASSUME NEW q \in Procs, q # p
      PROVE  SeesScan(q)' /\ SeesRuns(q)' /\ SeesCandidate(q)' /\ SeesOthers(q)'
  BY <1>0, <1>1, <1>5, SameKnowledge DEF Sees
<1>6. SeesScan(p)'
  BY <1>0, <1>2, <1>3 DEF Finds, SeesScan, Sees
<1>7. SeesCandidate(p)'
  <2>1. n = "cand" /\ tx[p].op \in Decisions =>
          /\ HasRow(tx[p].cand)
          /\ tx[p].op = "approve" => status[tx[p].cand] # "rejected"
          /\ tx[p].op = "reject" => status[tx[p].cand] # "approved"
    BY <1>0 DEF Finds
  <2> QED BY <1>0, <1>1, <1>2, <1>3, <2>1 DEF SeesCandidate, Sees
<1>8. SeesRuns(p)'
  <2>1. CASE tx[p].op = "queue" /\ n = "run"
    <3>1. /\ Latest < MaxRuns \/ LatestIsOpen
          /\ Saw(p) = IF LatestIsOpen THEN "open" ELSE "new"
      BY <1>0, <2>1 DEF Finds, Saw
    <3> QED BY <1>1, <1>3, <3>1 DEF SeesRuns, LatestIsOpen
  <2>2. CASE tx[p].op = "queue" /\ n # "run"
    <3>1. n # "count"
      BY <1>0, <2>2, OfThePlan DEF Decisions
    <3>2. Saw(p) = tx[p].saw
      BY <2>2, <3>1 DEF Saw
    <3> QED BY <1>1, <1>2, <1>3, <2>2, <3>2 DEF SeesRuns, Sees
  <2>3. CASE tx[p].op # "queue"
    BY <1>1, <2>3 DEF SeesRuns
  <2> QED BY <2>1, <2>2, <2>3
<1>9. SeesOthers(p)'
  <2>1. CASE tx[p].op \in Decisions /\ n = "count"
    <3>1. Saw(p) = IF OthersUndecided(tx[p].cand) = {} THEN "reviewed" ELSE "pending"
      BY <2>1 DEF Saw, OthersUndecided, HasRow, Undecided
    <3> QED BY <1>1, <1>2, <1>3, <2>1, <3>1 DEF SeesOthers
  <2>2. CASE tx[p].op \in Decisions /\ n # "count"
    <3>1. n = "run" => tx[p].op # "queue"
      BY <2>2 DEF Decisions
    <3>2. Saw(p) = tx[p].saw
      BY <2>2, <3>1 DEF Saw
    <3> QED BY <1>0, <1>1, <1>2, <1>3, <2>2, <3>2 DEF SeesOthers, Sees
  <2>3. CASE tx[p].op \notin Decisions
    BY <1>1, <2>3 DEF SeesOthers
  <2> QED BY <2>1, <2>2, <2>3
<1> QED BY <1>4, <1>5, <1>6, <1>7, <1>8, <1>9 DEF Sees

(* A statement keeps the invariant (whole_scene.go, one query each).       *)
LEMMA StatementStep ==
  ASSUME SceneInv, NEW p \in Procs, Statement(p) PROVE SceneInv'
<1>0. Running(p) /\ ~AtEnd(p) /\ UNCHANGED <<sceneVars, candVars, row, shows, job, limitVars>>
  BY DEF Statement
<1>1. Exclusion' /\ Sees' /\ RowsInv'
  BY <1>0, StatementExcludes, StatementSees, SameRows
     DEF SceneInv, RowsInv, sceneVars, candVars
<1>2. tx[p].at + 1 \in 1 .. Len(Plan[tx[p].op]) /\ Len(Plan[tx[p].op]) <= 6
  BY <1>0, OfThePlan DEF SceneInv
<1>3. Saw(p) \in {"nothing", "open", "new", "pending", "reviewed"}
  BY DEF Saw, SceneInv, TypeOK
<1>4. /\ tx' = [tx EXCEPT ![p] = [tx[p] EXCEPT !.at = tx[p].at + 1, !.saw = Saw(p)]]
      /\ tx \in [Procs -> Tx]
  BY DEF Statement, SceneInv, TypeOK, Tx
<1> DEFINE r == [tx[p] EXCEPT !.at = tx[p].at + 1, !.saw = Saw(p)]
<1>5. r \in Tx /\ r.op = tx[p].op /\ r.at = tx[p].at + 1 /\ r.done = tx[p].done
  <2>1. tx[p] \in Tx /\ tx[p].at + 1 \in 0 .. 6
    BY <1>2, <1>4 DEF SceneInv, TypeOK
  <2> QED BY <1>3, <2>1 DEF Tx
<1> HIDE DEF r
<1>6. tx' \in [Procs -> Tx] /\ tx' = [tx EXCEPT ![p] = r]
  BY <1>4, <1>5 DEF r
<1>7. TypeOK'
  <2>1. files' \subseteq Images
    BY DEF Statement, WritesCrop, SceneInv, TypeOK
  <2> QED BY <1>0, <1>6, <2>1 DEF SceneInv, TypeOK, Tx, sceneVars, candVars, limitVars
<1>8. InPlan'
  BY <1>2, <1>4, <1>5, <1>6 DEF SceneInv, InPlan
<1>9. Working'
  <2>1. Has(Worker, "run") => Has(Worker, "run")'
    <3>1. Did(Worker)' = IF Worker = p THEN Did(p) \cup {NextLock(p)} ELSE Did(Worker)
      BY StatementLocks DEF SceneInv, Procs
    <3>2. Running(Worker)' = Running(Worker)
      BY StatementLocks DEF SceneInv, Procs
    <3> QED BY <3>1, <3>2 DEF Has
  <2>2. tx'[Worker].op = tx[Worker].op
    BY <1>4, <1>5, <1>6
  <2>3. Exists' = Exists
    BY <1>0 DEF Exists, sceneVars
  <2> QED BY <1>0, <2>1, <2>2, <2>3 DEF SceneInv, Working, sceneVars
<1> QED BY <1>1, <1>7, <1>8, <1>9 DEF SceneInv, RowsInv

(* A transaction that commits leaves the others as they are.               *)
LEMMA TxEnds ==
  ASSUME SceneInv, NEW p \in Procs, NEW d \in SUBSET Images, Committed(p, d)
  PROVE  /\ tx' \in [Procs -> Tx] /\ Exclusion' /\ InPlan'
         /\ SeesScan(p)' /\ SeesRuns(p)' /\ SeesCandidate(p)' /\ SeesOthers(p)' /\ NewOnes(p)'
         /\ ~Running(p)' /\ tx'[p].cand \in {tx[p].cand, Nobody}
         /\ p = Worker => tx'[Worker] = Idle
         /\ \A q \in Procs \ {p} : tx'[q] = tx[q] /\ Running(q)' = Running(q)
         /\ \A q \in Procs \ {p} : \A s : Has(q, s)' = Has(q, s)
<1> DEFINE r == IF p = Worker THEN Idle ELSE [tx[p] EXCEPT !.done = TRUE, !.doomed = d]
<1>1. tx' = [tx EXCEPT ![p] = r] /\ tx \in [Procs -> Tx]
  BY DEF Committed, SceneInv, TypeOK, Tx
<1>2. /\ r \in Tx /\ (r.op = "idle" \/ r.done) /\ r.at <= Len(Plan[r.op])
      /\ IF p = Worker THEN r = Idle
         ELSE /\ r.op = tx[p].op /\ r.cand = tx[p].cand /\ r.saw = tx[p].saw
              /\ r.image = tx[p].image
  <2>1. tx[p] \in Tx /\ tx[p].at <= Len(Plan[tx[p].op]) /\ Idle \in Tx /\ Len(Plan[Idle.op]) = 0
    BY <1>1, Plans DEF SceneInv, InPlan, Idle, Tx, TxOps
  <2>2. CASE p = Worker
    BY <2>1, <2>2 DEF Idle
  <2>3. CASE p # Worker
    <3>1. r = [tx[p] EXCEPT !.done = TRUE, !.doomed = d]
      BY <2>3
    <3>2. /\ r \in Tx /\ r.done /\ r.op = tx[p].op /\ r.cand = tx[p].cand /\ r.saw = tx[p].saw
          /\ r.image = tx[p].image /\ r.at = tx[p].at
      BY <2>1, <3>1 DEF Tx
    <3> HIDE DEF r
    <3> QED BY <2>1, <2>3, <3>2
  <2> QED BY <2>2, <2>3
<1> HIDE DEF r
<1>3. tx' \in [Procs -> Tx] /\ tx'[p] = r /\ \A q \in Procs \ {p} : tx'[q] = tx[q]
  BY <1>1, <1>2
<1>4. ~Running(p)' /\ \A s : ~Has(p, s)'
  BY <1>2, <1>3 DEF Running, Has
<1>5. ASSUME NEW q \in Procs \ {p}
      PROVE  tx'[q] = tx[q] /\ Running(q)' = Running(q) /\ \A s : Has(q, s)' = Has(q, s)
  BY <1>3 DEF Running, Has, Did
<1>6. Exclusion'
  <2>1. \A q \in Procs : Running(q)' => Did(q)' = {} \/ tx'[q] = tx[q]
    BY <1>3, <1>4
  <2> QED BY <2>1, LocksLoosen DEF SceneInv
<1>7. InPlan'
  BY <1>2, <1>3, SceneAssumption DEF SceneInv, InPlan, Procs, Idle
<1>8. SeesScan(p)' /\ SeesRuns(p)' /\ SeesCandidate(p)' /\ SeesOthers(p)' /\ NewOnes(p)'
  <2>1. SeesScan(p)' /\ SeesRuns(p)'
    BY <1>4 DEF SeesScan, SeesRuns
  <2>2. SeesCandidate(p)' /\ SeesOthers(p)' /\ NewOnes(p)'
    BY <1>2, <1>3, <1>4 DEF SceneInv, Sees, SeesCandidate, SeesOthers, NewOnes, Idle, Decisions
  <2> QED BY <2>1, <2>2
<1>9. tx'[p].cand \in {tx[p].cand, Nobody}
  <2>1. Idle.cand = Nobody
    BY DEF Idle
  <2> QED BY <1>2, <1>3, <2>1
<1>10. p = Worker => tx'[Worker] = Idle
  BY <1>2, <1>3
<1> QED BY <1>3, <1>4, <1>5, <1>6, <1>7, <1>8, <1>9, <1>10

-----------------------------------------------------------------------------
(* Commits.                                                                *)

(* The runs of a scan are numbered from 1 without a gap.                   *)
LEMMA LatestIs ==
  ASSUME NEW f, NEW k \in 0 .. MaxRuns, \A n \in Runs : f[n] # "none" <=> n <= k
  PROVE  Cardinality({n \in Runs : f[n] # "none"}) = k
<1>1. {n \in Runs : f[n] # "none"} = 1 .. k
  BY SceneAssumption DEF Runs
<1>2. Cardinality(1 .. k) = k
  BY FS_Interval, SceneAssumption
<1> QED BY <1>1, <1>2

(* cleanupWholeSceneScanRows: nobody else holds a lock on what goes.       *)
LEMMA CleanupStep ==
  ASSUME SceneInv, NEW p \in Clients, AtEnd(p), tx[p].op = "delete" \/ tx[p].op \in Decisions,
         Deletes(p), NEW newRow \in [Images -> {"none", "crop", "item"}], Cleanup(p, newRow),
         UNCHANGED <<shows, files, job, limitVars>>
  PROVE  SceneInv'
<1>0. p \in Procs /\ p # Worker
  BY SceneAssumption DEF Procs
<1>1. Has(p, "scan") /\ Has(p, "rows")
  BY <1>0, AtTheEnd DEF SceneInv
<1>2. /\ scan' = "gone" /\ runs' = [n \in Runs |-> "none"] /\ source' = "none" /\ run' = run
      /\ status' = [c \in Candidates |-> IF HasRow(c) THEN "gone" ELSE status[c]]
      /\ assist' = [c \in Candidates |-> IF HasRow(c) THEN "idle" ELSE assist[c]]
      /\ row' = [i \in Images |-> IF newRow[i] = "crop" THEN "none" ELSE newRow[i]]
      /\ Committed(p, CleanupFiles(newRow))
  BY DEF Cleanup
<1>3. CleanupFiles(newRow) \in SUBSET Images
  BY DEF CleanupFiles
<1>4. /\ tx' \in [Procs -> Tx] /\ Exclusion' /\ InPlan'
      /\ SeesScan(p)' /\ SeesRuns(p)' /\ SeesCandidate(p)' /\ SeesOthers(p)' /\ NewOnes(p)'
      /\ tx'[p].cand \in {tx[p].cand, Nobody}
      /\ \A q \in Procs \ {p} : tx'[q] = tx[q] /\ Running(q)' = Running(q)
      /\ \A q \in Procs \ {p} : \A s : Has(q, s)' = Has(q, s)
  BY <1>0, <1>2, <1>3, TxEnds
<1>5. /\ ~Exists' /\ \A c \in Candidates : ~HasRow(c)' /\ (status[c] = "none" <=> status'[c] = "none")
  BY <1>2 DEF Exists, HasRow
<1>6. ASSUME NEW q \in Procs, q # p
      PROVE  /\ ~Has(q, "scan") /\ ~Has(q, "key") /\ ~Has(q, "run") /\ ~Has(q, "cand")
             /\ tx[q].op \in Decisions => ~Has(q, "count")
  <2>1. ~Has(q, "scan") /\ ~Has(q, "key") /\ ~Has(q, "run")
    BY <1>0, <1>1, <1>6 DEF SceneInv, Exclusion
  <2>2. Running(p) /\ HoldsCand(p, tx[q].cand)
    BY <1>1, OneOfTwo DEF Has, HoldsCand
  <2>3. ~Has(q, "cand")
    BY <1>0, <1>6, <2>2 DEF SceneInv, Exclusion
  <2> QED BY <2>1, <2>3, Earlier DEF SceneInv
<1>7. ASSUME NEW q \in Procs, q # p
      PROVE  SeesScan(q)' /\ SeesRuns(q)' /\ SeesCandidate(q)' /\ SeesOthers(q)' /\ NewOnes(q)'
  <2>1. tx'[q] = tx[q] /\ Running(q)' = Running(q) /\ \A s : Has(q, s)' = Has(q, s)
    BY <1>4, <1>7
  <2>2. SeesScan(q)' /\ SeesRuns(q)'
    BY <1>6, <1>7, <2>1 DEF SeesScan, SeesRuns
  <2>3. SeesCandidate(q)' /\ SeesOthers(q)'
    BY <1>6, <1>7, <2>1 DEF SeesCandidate, SeesOthers, SceneInv, Sees
  <2>4. NewOnes(q)'
    <3>1. NewOnes(q)
      BY DEF SceneInv, Sees
    <3>2. tx[q].op \in {"add", "save"} /\ Running(q) => tx'[p].cand # tx[q].cand
      BY <1>0, <1>4, <1>7, <3>1, SceneAssumption DEF NewOnes
    <3> QED BY <1>4, <1>5, <2>1, <3>1, <3>2 DEF NewOnes
  <2> QED BY <2>2, <2>3, <2>4
<1>8. Sees'
  BY <1>4, <1>7 DEF Sees
<1>9. InOrder'
  <2>1. Latest' = 0
    <3>1. 0 \in 0 .. MaxRuns /\ \A n \in Runs : runs'[n] # "none" <=> n <= 0
      BY <1>2, SceneAssumption DEF Runs
    <3> QED BY <3>1, LatestIs DEF Latest
  <2> QED BY <1>2, <2>1, SceneAssumption DEF InOrder, Open, Runs
<1>10. RowsOfScan' /\ ScanShowsItsRun' /\ ReviewedScanIsGone'
  BY <1>2, <1>5 DEF SceneInv, RowsOfScan, ScanShowsItsRun, ReviewedScanIsGone
<1>11. Working'
  <2>1. tx'[Worker] = tx[Worker] /\ ~Has(Worker, "run")
    BY <1>0, <1>4, <1>6 DEF Procs
  <2> QED BY <1>2, <1>5, <2>1 DEF SceneInv, Working
<1>12. TypeOK'
  BY <1>2, <1>4 DEF SceneInv, TypeOK, Tx, limitVars
<1> QED BY <1>4, <1>8, <1>9, <1>10, <1>11, <1>12 DEF SceneInv

(* reviewCandidate and DeleteScan commit.                                  *)
LEMMA DecisionStep ==
  ASSUME SceneInv, NEW p \in Clients, CommitDecision(p) PROVE SceneInv'
<1> DEFINE c == tx[p].cand
           v == IF tx[p].op = "approve" THEN "approved" ELSE "rejected"
<1>0. p \in Procs /\ p # Worker /\ AtEnd(p) /\ tx[p].op \in Decisions
  BY SceneAssumption DEF CommitDecision, Procs
<1>1. Has(p, "scan") /\ Has(p, "rows") /\ Has(p, "cand") /\ Has(p, "count") /\ Has(p, "cands")
  BY <1>0, AtTheEnd DEF SceneInv
<1>2. c \in Candidates /\ HasRow(c) /\ Exists
  BY <1>0, <1>1 DEF SceneInv, Sees, SeesCandidate, SeesScan
<1>3. CASE tx[p].saw = "reviewed"
  <2> DEFINE newRow == [i \in Images |->
                IF (tx[p].op = "approve" /\ status[c] \in Undecided) /\ i \in CropsOf(c)
                THEN "item" ELSE row[i]]
  <2>1. newRow \in [Images -> {"none", "crop", "item"}]
    BY DEF SceneInv, TypeOK
  <2>2. Cleanup(p, newRow) /\ UNCHANGED <<shows, files, job, limitVars>>
    BY <1>3 DEF CommitDecision
  <2> HIDE DEF newRow
  <2>3. Deletes(p)
    BY <1>3 DEF Deletes
  <2> QED BY <1>0, <2>1, <2>2, <2>3, CleanupStep
<1>4. CASE tx[p].saw # "reviewed"
  <2>1. /\ Committed(p, {}) /\ status' = [status EXCEPT ![c] = v]
        /\ UNCHANGED <<scan, source, runs, run, assist, shows, files, job, asked, restarts, scenario>>
    BY <1>4 DEF CommitDecision, sceneVars, limitVars
  <2>2. row' \in [Images -> {"none", "crop", "item"}]
    BY <1>4 DEF CommitDecision, SceneInv, TypeOK
  <2>3. {} \in SUBSET Images /\ v \in {"approved", "rejected"}
    OBVIOUS
  <2> HIDE DEF v
  <2>4. /\ tx' \in [Procs -> Tx] /\ Exclusion' /\ InPlan'
        /\ SeesScan(p)' /\ SeesRuns(p)' /\ SeesCandidate(p)' /\ SeesOthers(p)' /\ NewOnes(p)'
        /\ tx'[p].cand \in {tx[p].cand, Nobody}
        /\ \A q \in Procs \ {p} : tx'[q] = tx[q] /\ Running(q)' = Running(q)
        /\ \A q \in Procs \ {p} : \A s : Has(q, s)' = Has(q, s)
    BY <1>0, <2>1, <2>3, TxEnds
  <2>5. /\ Exists' = Exists /\ Latest' = Latest /\ LatestIsOpen' = LatestIsOpen
        /\ \A d \in Candidates : HasRow(d)' = HasRow(d) /\ (d # c => status'[d] = status[d])
    BY <1>2, <2>1, <2>3 DEF Exists, Latest, LatestIsOpen, HasRow, SceneInv, TypeOK
  <2>6. ASSUME NEW q \in Procs, q # p
        PROVE  SeesScan(q)' /\ SeesRuns(q)' /\ SeesCandidate(q)' /\ SeesOthers(q)' /\ NewOnes(q)'
    <3>1. tx'[q] = tx[q] /\ Running(q)' = Running(q) /\ \A s : Has(q, s)' = Has(q, s)
      BY <2>4, <2>6
    <3>2. SeesScan(q) /\ SeesRuns(q) /\ SeesCandidate(q) /\ SeesOthers(q) /\ NewOnes(q)
      BY DEF SceneInv, Sees
    <3>3. SeesScan(q)' /\ SeesRuns(q)'
      BY <2>5, <3>1, <3>2 DEF SeesScan, SeesRuns
    <3>4. SeesCandidate(q)'
      <4>1. Has(q, "cand") => tx[q].cand # c
        <5>1. Running(p) /\ HoldsCand(p, c)
          BY <1>1, OneOfTwo DEF Has, HoldsCand
        <5> QED BY <1>0, <2>6, <5>1 DEF SceneInv, Exclusion
      <4> QED BY <2>5, <3>1, <3>2, <4>1 DEF SeesCandidate
    <3>5. SeesOthers(q)'
      <4>1. tx[q].op \in Decisions => ~Has(q, "count")
        BY <1>0, <1>1, <2>6, Earlier DEF SceneInv, Exclusion
      <4> QED BY <3>1, <3>2, <4>1 DEF SeesOthers
    <3>6. NewOnes(q)'
      <4>1. tx[q].op \in {"add", "save"} /\ Running(q) => tx[q].cand # c /\ tx'[p].cand # tx[q].cand
        BY <1>0, <1>2, <2>4, <2>6, <3>2, SceneAssumption DEF NewOnes, HasRow
      <4> QED BY <2>4, <2>5, <3>1, <3>2, <4>1 DEF NewOnes
    <3> QED BY <3>3, <3>4, <3>5, <3>6
  <2>7. InOrder' /\ RowsOfScan' /\ ScanShowsItsRun'
    BY <1>2, <2>1, <2>5 DEF SceneInv, InOrder, RowsOfScan, ScanShowsItsRun, HasRow
  <2>8. ReviewedScanIsGone'
    <3>1. PICK d \in Candidates \ {c} : status[d] \in Undecided
      BY <1>0, <1>1, <1>4 DEF SceneInv, Sees, SeesOthers, OthersUndecided
    <3> QED BY <2>5, <3>1 DEF ReviewedScanIsGone
  <2>9. Working'
    <3>1. tx'[Worker] = tx[Worker] /\ Has(Worker, "run")' = Has(Worker, "run")
      BY <1>0, <2>4 DEF Procs
    <3> QED BY <2>1, <2>5, <3>1 DEF SceneInv, Working
  <2>10. TypeOK'
    BY <2>1, <2>2, <2>3, <2>4 DEF SceneInv, TypeOK, Tx
  <2> QED BY <2>4, <2>6, <2>7, <2>8, <2>9, <2>10 DEF SceneInv, Sees
<1> QED BY <1>3, <1>4

(* DeleteScan commits.                                                     *)
LEMMA DeleteStep ==
  ASSUME SceneInv, NEW p \in Clients, CommitDelete(p) PROVE SceneInv'
<1>1. AtEnd(p) /\ tx[p].op = "delete" /\ Cleanup(p, row) /\ UNCHANGED <<shows, files, job, limitVars>>
  BY DEF CommitDelete
<1>2. row \in [Images -> {"none", "crop", "item"}] /\ Deletes(p)
  BY <1>1 DEF SceneInv, TypeOK, Deletes
<1> QED BY <1>1, <1>2, CleanupStep

(* An edit leaves a candidate undecided.                                   *)
EditsOnly == /\ UNCHANGED <<scan, runs, run>>
             /\ \A d \in Candidates : \/ status'[d] = status[d]
                                      \/ {status[d], status'[d]} \subseteq Undecided

(* What transactions have seen is not touched by an edit.                  *)
LEMMA EditedKnowledge ==
  ASSUME EditsOnly, NEW q \in Procs, tx'[q] = tx[q], Nobody \notin Candidates
  PROVE  /\ SeesScan(q) => SeesScan(q)'
         /\ SeesRuns(q) => SeesRuns(q)'
         /\ SeesCandidate(q) => SeesCandidate(q)'
         /\ SeesOthers(q) => SeesOthers(q)'
<1>1. Running(q)' = Running(q) /\ \A s : Has(q, s)' = Has(q, s)
  BY DEF Running, Has, Did
<1>2. /\ Exists' = Exists /\ Latest' = Latest /\ LatestIsOpen' = LatestIsOpen
      /\ \A c \in Candidates : HasRow(c)' = HasRow(c)
      /\ \A c : OthersUndecided(c)' = OthersUndecided(c)
  BY DEF EditsOnly, Exists, Latest, LatestIsOpen, HasRow, OthersUndecided, Undecided
<1>3. SeesScan(q) => SeesScan(q)'
  BY <1>1, <1>2 DEF SeesScan
<1>4. SeesRuns(q) => SeesRuns(q)'
  BY <1>1, <1>2 DEF SeesRuns
<1>5. SeesCandidate(q) => SeesCandidate(q)'
  BY <1>1, <1>2 DEF SeesCandidate, EditsOnly, Undecided
<1>6. SeesOthers(q) => SeesOthers(q)'
  BY <1>1, <1>2 DEF SeesOthers
<1> QED BY <1>3, <1>4, <1>5, <1>6

(* An edit keeps the rows of the scan consistent.                          *)
LEMMA EditedRows ==
  ASSUME RowsInv, EditsOnly PROVE RowsInv'
<1>1. /\ Latest' = Latest /\ Exists' = Exists
      /\ \A c \in Candidates : HasRow(c)' = HasRow(c)
  BY DEF EditsOnly, Latest, Exists, HasRow, Undecided
<1> QED BY <1>1 DEF EditsOnly, RowsInv, InOrder, RowsOfScan, ScanShowsItsRun, ReviewedScanIsGone,
                    Undecided

(* AppendCandidateImages and DeleteCandidateImage commit.                  *)
LEMMA ImageStep ==
  ASSUME SceneInv, NEW p \in Clients, CommitAppend(p) \/ CommitDeleteImage(p) PROVE SceneInv'
<1>1. /\ p \in Procs /\ p # Worker /\ tx[p].op \in {"append", "delimg"}
      /\ Edited(tx[p].cand)
      /\ UNCHANGED <<scan, source, runs, run, assist, files, job, asked, restarts, scenario>>
      /\ row' = [row EXCEPT ![tx[p].image] = "crop"] \/ row' = [row EXCEPT ![tx[p].image] = "none"]
      /\ shows' = shows \/ shows' = [shows EXCEPT ![tx[p].image] = tx[p].cand]
  BY SceneAssumption DEF CommitAppend, CommitDeleteImage, Procs, sceneVars, limitVars
<1>2. tx[p].cand \in Candidates /\ tx[p].image \in Images
  BY <1>1 DEF SceneInv, Sees, SeesCandidate, NewOnes
<1>3. PICK d \in SUBSET Images : Committed(p, d)
  BY <1>2 DEF CommitAppend, CommitDeleteImage
<1>4. EditsOnly /\ status' \in [Candidates -> Undecided \cup {"none", "approved", "rejected", "gone"}]
  BY <1>1, <1>2 DEF Edited, EditsOnly, Undecided, SceneInv, TypeOK
<1>5. /\ tx' \in [Procs -> Tx] /\ Exclusion' /\ InPlan'
      /\ SeesScan(p)' /\ SeesRuns(p)' /\ SeesCandidate(p)' /\ SeesOthers(p)' /\ NewOnes(p)'
      /\ tx'[p].cand \in {tx[p].cand, Nobody}
      /\ \A q \in Procs \ {p} : tx'[q] = tx[q] /\ Running(q)' = Running(q)
      /\ \A q \in Procs \ {p} : \A s : Has(q, s)' = Has(q, s)
  BY <1>1, <1>3, TxEnds
<1>6. ASSUME NEW q \in Procs, q # p
      PROVE  SeesScan(q)' /\ SeesRuns(q)' /\ SeesCandidate(q)' /\ SeesOthers(q)' /\ NewOnes(q)'
  <2>1. tx'[q] = tx[q] /\ Running(q)' = Running(q)
    BY <1>5, <1>6
  <2>2. SeesScan(q)' /\ SeesRuns(q)' /\ SeesCandidate(q)' /\ SeesOthers(q)'
    BY <1>4, <2>1, EditedKnowledge, SceneAssumption DEF SceneInv, Sees
  <2>3. NewOnes(q)
    BY DEF SceneInv, Sees
  <2>4. tx[q].op \in {"add", "save"} /\ Running(q) => tx'[p].cand # tx[q].cand
    BY <1>1, <1>5, <1>6, <2>3, SceneAssumption DEF NewOnes
  <2> QED BY <1>4, <1>5, <2>1, <2>2, <2>3, <2>4 DEF NewOnes, EditsOnly, Undecided
<1>7. RowsInv'
  BY <1>4, EditedRows DEF SceneInv, RowsInv
<1>8. Working'
  <2>1. tx'[Worker] = tx[Worker] /\ Has(Worker, "run")' = Has(Worker, "run") /\ Exists' = Exists
    BY <1>1, <1>5 DEF Procs, Exists
  <2> QED BY <1>1, <2>1 DEF SceneInv, Working
<1>9. TypeOK'
  <2>1. /\ row' \in [Images -> {"none", "crop", "item"}]
        /\ shows' \in [Images -> Candidates \cup {Nobody}]
    BY <1>1, <1>2 DEF SceneInv, TypeOK
  <2> QED BY <1>1, <1>4, <1>5, <2>1 DEF SceneInv, TypeOK, Tx
<1> QED BY <1>5, <1>6, <1>7, <1>8, <1>9 DEF SceneInv, Sees, RowsInv

(* AddManualCandidate commits: nobody counts while it holds its key lock.  *)
LEMMA AddStep ==
  ASSUME SceneInv, NEW p \in Clients, CommitAdd(p) PROVE SceneInv'
<1> DEFINE c == tx[p].cand
<1>1. /\ p \in Procs /\ p # Worker /\ AtEnd(p) /\ tx[p].op = "add" /\ Committed(p, {})
      /\ status' = [status EXCEPT ![c] = "proposed"]
      /\ UNCHANGED <<scan, source, runs, run, assist, row, shows, files, job, asked, restarts,
                     scenario>>
  BY SceneAssumption DEF CommitAdd, Procs, sceneVars, imageVars, limitVars
<1>2. Has(p, "key") /\ Running(p) /\ Exists /\ NewOnes(p)
  BY <1>1, AtTheEnd DEF SceneInv, Sees, SeesScan, Has
<1>3. c \in Candidates /\ status[c] = "none" /\ run[c] = 0
  BY <1>1, <1>2 DEF NewOnes, SceneInv, RowsOfScan
<1>4. {} \in SUBSET Images
  OBVIOUS
<1>5. /\ tx' \in [Procs -> Tx] /\ Exclusion' /\ InPlan'
      /\ SeesScan(p)' /\ SeesRuns(p)' /\ SeesCandidate(p)' /\ SeesOthers(p)' /\ NewOnes(p)'
      /\ tx'[p].cand \in {tx[p].cand, Nobody}
      /\ \A q \in Procs \ {p} : tx'[q] = tx[q] /\ Running(q)' = Running(q)
      /\ \A q \in Procs \ {p} : \A s : Has(q, s)' = Has(q, s)
  BY <1>1, <1>4, TxEnds
<1>6. /\ Exists' = Exists /\ Latest' = Latest /\ LatestIsOpen' = LatestIsOpen
      /\ \A d \in Candidates : d # c => HasRow(d)' = HasRow(d) /\ status'[d] = status[d]
      /\ status'[c] = "proposed"
  BY <1>1, <1>3 DEF Exists, Latest, LatestIsOpen, HasRow, SceneInv, TypeOK
<1>7. ASSUME NEW q \in Procs, q # p
      PROVE  SeesScan(q)' /\ SeesRuns(q)' /\ SeesCandidate(q)' /\ SeesOthers(q)' /\ NewOnes(q)'
  <2>1. tx'[q] = tx[q] /\ Running(q)' = Running(q) /\ \A s : Has(q, s)' = Has(q, s)
    BY <1>5, <1>7
  <2>2. SeesScan(q) /\ SeesRuns(q) /\ SeesCandidate(q) /\ SeesOthers(q) /\ NewOnes(q)
    BY DEF SceneInv, Sees
  <2>3. SeesScan(q)' /\ SeesRuns(q)'
    BY <1>6, <2>1, <2>2 DEF SeesScan, SeesRuns
  <2>4. SeesCandidate(q)'
    BY <1>3, <1>6, <2>1, <2>2 DEF SeesCandidate, HasRow
  <2>5. SeesOthers(q)'
    <3>1. tx[q].op \in Decisions => ~Has(q, "count")
      BY <1>1, <1>2, <1>7, Earlier DEF SceneInv, Exclusion
    <3> QED BY <2>1, <2>2, <3>1 DEF SeesOthers
  <2>6. NewOnes(q)'
    <3>1. tx[q].op \in {"add", "save"} /\ Running(q) => tx[q].cand # c /\ tx'[p].cand # tx[q].cand
      BY <1>1, <1>2, <1>5, <1>7, <2>2, SceneAssumption DEF NewOnes
    <3> QED BY <1>5, <1>6, <2>1, <2>2, <3>1 DEF NewOnes
  <2> QED BY <2>3, <2>4, <2>5, <2>6
<1>8. InOrder' /\ RowsOfScan' /\ ScanShowsItsRun' /\ ReviewedScanIsGone'
  <2>1. InOrder' /\ ScanShowsItsRun' /\ ReviewedScanIsGone'
    BY <1>1, <1>3, <1>6 DEF SceneInv, InOrder, ScanShowsItsRun, ReviewedScanIsGone, Undecided
  <2>2. RowsOfScan'
    BY <1>1, <1>2, <1>3, <1>6 DEF SceneInv, RowsOfScan
  <2> QED BY <2>1, <2>2
<1>9. Working'
  <2>1. tx'[Worker] = tx[Worker] /\ Has(Worker, "run")' = Has(Worker, "run")
    BY <1>1, <1>5 DEF Procs
  <2> QED BY <1>1, <1>6, <2>1 DEF SceneInv, Working
<1>10. TypeOK'
  BY <1>1, <1>3, <1>5 DEF SceneInv, TypeOK, Tx, Undecided
<1> QED BY <1>5, <1>7, <1>8, <1>9, <1>10 DEF SceneInv, Sees

(* QueueAnalysis commits: nobody moves a run while it holds the scan.      *)
LEMMA QueueStep ==
  ASSUME SceneInv, NEW p \in Clients, CommitQueue(p) PROVE SceneInv'
<1>1. /\ p \in Procs /\ p # Worker /\ AtEnd(p) /\ tx[p].op = "queue" /\ Committed(p, {})
      /\ UNCHANGED <<source, status, run, assist, row, shows, files, job, asked, restarts, scenario>>
  BY SceneAssumption DEF CommitQueue, Procs, candVars, imageVars, limitVars
<1>2. Has(p, "scan") /\ Has(p, "run") /\ Exists /\ SeesRuns(p)
  BY <1>1, AtTheEnd DEF SceneInv, Sees, SeesScan
<1>3. {} \in SUBSET Images /\ MaxRuns \in Nat
  BY SceneAssumption
<1>4. /\ tx' \in [Procs -> Tx] /\ Exclusion' /\ InPlan'
      /\ SeesScan(p)' /\ SeesRuns(p)' /\ SeesCandidate(p)' /\ SeesOthers(p)' /\ NewOnes(p)'
      /\ tx'[p].cand \in {tx[p].cand, Nobody}
      /\ \A q \in Procs \ {p} : tx'[q] = tx[q] /\ Running(q)' = Running(q)
      /\ \A q \in Procs \ {p} : \A s : Has(q, s)' = Has(q, s)
  BY <1>1, <1>3, TxEnds
<1>5. /\ runs' \in [Runs -> {"none", "succeeded", "failed"} \cup Open] /\ InOrder'
      /\ scan' \in {"queued", "processing", "succeeded", "failed"}
      /\ ScanShowsItsRun' /\ Latest' > 0
      /\ \A n \in Runs : runs[n] # "none" => runs'[n] = runs[n]
  <2>1. /\ runs \in [Runs -> {"none", "succeeded", "failed"} \cup Open] /\ Runs = 1 .. MaxRuns
        /\ Latest \in 0 .. MaxRuns
        /\ \A n \in Runs : runs[n] # "none" <=> n <= Latest
        /\ \A n \in Runs : runs[n] \in Open => n = Latest
    BY DEF SceneInv, TypeOK, InOrder, Runs
  <2>2. CASE tx[p].saw = "new"
    <3>1. Latest < MaxRuns /\ ~LatestIsOpen /\ runs' = [runs EXCEPT ![Latest + 1] = "queued"]
          /\ scan' = "queued"
      BY <1>1, <1>2, <2>2 DEF SeesRuns, CommitQueue
    <3>2. Latest + 1 \in 0 .. MaxRuns /\ Latest + 1 \in Runs /\ "queued" \in Open
      BY <1>3, <2>1, <3>1 DEF Open
    <3>3. \A n \in Runs : runs'[n] # "none" <=> n <= Latest + 1
      BY <1>3, <2>1, <3>1, <3>2
    <3>4. Latest' = Latest + 1
      BY <3>2, <3>3, LatestIs DEF Latest
    <3>5. \A n \in Runs : runs[n] \notin Open
      BY <1>3, <2>1, <3>1 DEF LatestIsOpen
    <3> QED BY <1>3, <2>1, <3>1, <3>2, <3>3, <3>4, <3>5 DEF InOrder, ScanShowsItsRun, Open
  <2>3. CASE tx[p].saw = "open"
    <3>1. Latest > 0 /\ runs' = runs /\ scan' = runs[Latest]
      BY <1>1, <1>2, <2>3 DEF SeesRuns, CommitQueue
    <3>2. Latest' = Latest /\ Latest \in Runs /\ runs[Latest] # "none"
      BY <1>3, <2>1, <3>1 DEF Latest
    <3> QED BY <2>1, <3>1, <3>2 DEF InOrder, ScanShowsItsRun, Open
  <2> QED BY <1>1, <1>2, <2>2, <2>3 DEF SeesRuns
<1>6. Exists' /\ \A c \in Candidates : HasRow(c)' = HasRow(c)
  BY <1>1, <1>5 DEF Exists, HasRow
<1>7. ASSUME NEW q \in Procs, q # p
      PROVE  SeesScan(q)' /\ SeesRuns(q)' /\ SeesCandidate(q)' /\ SeesOthers(q)' /\ NewOnes(q)'
  <2>1. tx'[q] = tx[q] /\ Running(q)' = Running(q) /\ \A s : Has(q, s)' = Has(q, s)
    BY <1>4, <1>7
  <2>2. SeesScan(q) /\ SeesRuns(q) /\ SeesCandidate(q) /\ SeesOthers(q) /\ NewOnes(q)
    BY DEF SceneInv, Sees
  <2>3. SeesScan(q)'
    BY <1>6 DEF SeesScan
  <2>4. SeesRuns(q)'
    <3>1. tx[q].op = "queue" => ~Has(q, "run")
      BY <1>1, <1>2, <1>7, Earlier DEF SceneInv, Exclusion
    <3> QED BY <2>1, <3>1 DEF SeesRuns
  <2>5. SeesCandidate(q)'
    BY <1>1, <1>6, <2>1, <2>2 DEF SeesCandidate
  <2>6. SeesOthers(q)'
    BY <1>1, <2>1, <2>2 DEF SeesOthers, OthersUndecided
  <2>7. NewOnes(q)'
    <3>1. tx[q].op \in {"add", "save"} /\ Running(q) => tx'[p].cand # tx[q].cand
      BY <1>1, <1>4, <1>7, <2>2, SceneAssumption DEF NewOnes
    <3> QED BY <1>1, <1>4, <2>1, <2>2, <3>1 DEF NewOnes
  <2> QED BY <2>3, <2>4, <2>5, <2>6, <2>7
<1>8. RowsOfScan' /\ ReviewedScanIsGone'
  <2>1. ReviewedScanIsGone'
    BY <1>1, <1>2, <1>6 DEF SceneInv, ReviewedScanIsGone
  <2>2. ASSUME NEW c \in Candidates, HasRow(c), run[c] > 0
        PROVE  runs'[run[c]] \in {"succeeded", "failed"}
    <3>1. run[c] \in Runs /\ runs[run[c]] \in {"succeeded", "failed"}
      BY <1>3, <2>2 DEF SceneInv, TypeOK, RowsOfScan, Runs
    <3> QED BY <1>5, <3>1
  <2>3. RowsOfScan'
    BY <1>1, <1>6, <2>2 DEF SceneInv, RowsOfScan
  <2> QED BY <2>1, <2>3
<1>9. Working'
  <2>1. tx'[Worker] = tx[Worker] /\ Has(Worker, "run")' = Has(Worker, "run")
    BY <1>1, <1>4 DEF Procs
  <2> QED BY <1>1, <1>2, <1>5, <2>1 DEF SceneInv, Working
<1>10. TypeOK'
  BY <1>1, <1>4, <1>5 DEF SceneInv, TypeOK, Tx
<1> QED BY <1>4, <1>5, <1>7, <1>8, <1>9, <1>10 DEF SceneInv, Sees

-----------------------------------------------------------------------------
(* The worker.                                                             *)

(* The worker moves open runs only, and the latest run stays the latest.   *)
MovesOpenRuns ==
  /\ runs' \in [Runs -> {"none", "succeeded", "failed"} \cup Open]
  /\ \A n \in Runs : \/ runs'[n] = runs[n]
                     \/ runs[n] \in Open /\ runs'[n] # "none"

(* Runs that move stay in order.                                           *)
LEMMA RunsMove ==
  ASSUME SceneInv, MovesOpenRuns
  PROVE  Latest' = Latest /\ InOrder' /\ (~LatestIsOpen => ~LatestIsOpen')
<1>1. \A n \in Runs : runs[n] # "none" <=> runs'[n] # "none"
  BY DEF MovesOpenRuns, Open
<1>2. Latest' = Latest
  <2>1. {n \in Runs : runs[n] # "none"} = {n \in Runs : runs'[n] # "none"}
    BY <1>1
  <2> QED BY <2>1 DEF Latest
<1>3. InOrder'
  BY <1>1, <1>2 DEF SceneInv, InOrder, MovesOpenRuns
<1>4. ~LatestIsOpen => ~LatestIsOpen'
  <2>1. Latest > 0 => Latest \in Runs
    BY SceneAssumption DEF SceneInv, InOrder, Runs
  <2> QED BY <1>2, <2>1 DEF LatestIsOpen, MovesOpenRuns
<1> QED BY <1>2, <1>3, <1>4

(* A transaction of the worker that changes runs or assists ends.          *)
LEMMA WorkerCommits ==
  ASSUME SceneInv, Committed(Worker, {}), MovesOpenRuns, Exists' = Exists, ScanShowsItsRun',
         scan' \in {scan, "queued", "processing", "failed"},
         assist' \in [Candidates -> {"idle", "succeeded", "failed"} \cup Open],
         UNCHANGED <<source, status, run, imageVars, limitVars>>, Working', job' = [job EXCEPT !.kind = job'.kind],
         job'.kind \in {"idle", "start", "requeue", "run", "assist"}
  PROVE  SceneInv'
<1>1. Worker \in Procs /\ {} \in SUBSET Images
  BY DEF Procs
<1>2. /\ tx' \in [Procs -> Tx] /\ Exclusion' /\ InPlan'
      /\ SeesScan(Worker)' /\ SeesRuns(Worker)' /\ SeesCandidate(Worker)'
      /\ SeesOthers(Worker)' /\ NewOnes(Worker)'
      /\ tx'[Worker] = Idle
      /\ \A q \in Procs \ {Worker} : tx'[q] = tx[q] /\ Running(q)' = Running(q)
      /\ \A q \in Procs \ {Worker} : \A s : Has(q, s)' = Has(q, s)
  BY <1>1, TxEnds
<1>3. Latest' = Latest /\ InOrder' /\ (~LatestIsOpen => ~LatestIsOpen')
  BY RunsMove
<1>4. \A c : HasRow(c)' = HasRow(c)
  BY DEF HasRow
<1>5. ASSUME NEW q \in Procs, q # Worker
      PROVE  SeesScan(q)' /\ SeesRuns(q)' /\ SeesCandidate(q)' /\ SeesOthers(q)' /\ NewOnes(q)'
  <2>1. tx'[q] = tx[q] /\ Running(q)' = Running(q) /\ \A s : Has(q, s)' = Has(q, s)
    BY <1>2, <1>5
  <2>2. SeesScan(q) /\ SeesRuns(q) /\ SeesCandidate(q) /\ SeesOthers(q) /\ NewOnes(q)
    BY DEF SceneInv, Sees
  <2>3. SeesScan(q)'
    BY <2>1, <2>2 DEF SeesScan
  <2>4. SeesRuns(q)'
    BY <1>3, <2>1, <2>2 DEF SeesRuns
  <2>5. SeesCandidate(q)' /\ SeesOthers(q)'
    BY <1>4, <2>1, <2>2 DEF SeesCandidate, SeesOthers, OthersUndecided
  <2>6. NewOnes(q)'
    <3>1. tx[q].op \in {"add", "save"} /\ Running(q) => tx'[Worker].cand # tx[q].cand
      BY <1>2, <2>2, SceneAssumption DEF NewOnes, Idle
    <3> QED BY <1>2, <2>1, <2>2, <3>1 DEF NewOnes
  <2> QED BY <2>3, <2>4, <2>5, <2>6
<1>6. RowsOfScan' /\ ReviewedScanIsGone'
  <2>1. ReviewedScanIsGone'
    BY <1>4 DEF SceneInv, ReviewedScanIsGone
  <2>2. ASSUME NEW c \in Candidates, HasRow(c), run[c] > 0
        PROVE  runs'[run[c]] \in {"succeeded", "failed"}
    <3>1. run[c] \in Runs /\ runs[run[c]] \in {"succeeded", "failed"}
      BY <2>2, SceneAssumption DEF SceneInv, TypeOK, RowsOfScan, Runs
    <3> QED BY <3>1 DEF MovesOpenRuns, Open
  <2>3. ~Exists => \A n \in Runs : runs'[n] = "none"
    BY DEF SceneInv, RowsOfScan, MovesOpenRuns, Open
  <2>4. RowsOfScan'
    BY <1>4, <2>2, <2>3 DEF SceneInv, RowsOfScan
  <2> QED BY <2>1, <2>4
<1>7. TypeOK'
  <2>1. job' \in [kind : {"idle", "start", "requeue", "run", "assist"}, run : 0 .. MaxRuns,
                  cand : Candidates \cup {Nobody}]
    BY DEF SceneInv, TypeOK
  <2> QED BY <1>2, <2>1 DEF SceneInv, TypeOK, Tx, imageVars, limitVars, MovesOpenRuns
<1> QED BY <1>2, <1>3, <1>5, <1>6, <1>7 DEF SceneInv, Sees

(* The step of the worker that resets what a stop left in processing.      *)
LEMMA ResetStep == ASSUME SceneInv, CommitReset \/ CommitRequeue PROVE SceneInv'
<1>1. CASE CommitReset
  <2>1. /\ Committed(Worker, {}) /\ job' = [job EXCEPT !.kind = "requeue"]
        /\ runs' = [n \in Runs |-> IF runs[n] = "processing" THEN "queued" ELSE runs[n]]
        /\ scan' = IF \E n \in Runs : runs[n] = "processing" THEN "queued" ELSE scan
        /\ UNCHANGED <<source, status, run, assist, imageVars, limitVars>>
    BY <1>1 DEF CommitReset, Turn, candVars
  <2>2. MovesOpenRuns
    BY <2>1 DEF SceneInv, TypeOK, MovesOpenRuns, Open
  <2>3. Exists' = Exists
    BY <2>1 DEF SceneInv, RowsOfScan, Exists
  <2>4. ScanShowsItsRun'
    <3>1. Latest' = Latest /\ (Latest > 0 => Latest \in Runs)
      BY <2>2, RunsMove, SceneAssumption DEF SceneInv, InOrder, Runs
    <3>2. \A n \in Runs : runs[n] = "processing" => n = Latest
      BY DEF SceneInv, InOrder, Open
    <3> QED BY <2>1, <2>3, <3>1, <3>2 DEF SceneInv, ScanShowsItsRun
  <2>5. job'.kind = "requeue"
    BY <2>1 DEF SceneInv, TypeOK
  <2>6. tx'[Worker].op = "idle"
    BY <2>1 DEF Committed, SceneInv, TypeOK, Idle, Procs
  <2>7. Working'
    BY <2>5, <2>6 DEF Working
  <2> QED BY <2>1, <2>2, <2>3, <2>4, <2>5, <2>7, WorkerCommits DEF SceneInv, TypeOK
<1>2. CASE CommitRequeue
  <2>1. /\ Committed(Worker, {}) /\ job' = [job EXCEPT !.kind = "idle"]
        /\ assist' = [c \in Candidates |-> IF assist[c] = "processing" THEN "queued" ELSE assist[c]]
        /\ UNCHANGED <<scan, source, runs, status, run, imageVars, limitVars>>
    BY <1>2 DEF CommitRequeue, Turn, sceneVars
  <2>2. MovesOpenRuns /\ Exists' = Exists /\ Latest' = Latest
    BY <2>1 DEF SceneInv, TypeOK, MovesOpenRuns, Exists, Latest
  <2>3. ScanShowsItsRun'
    BY <2>1, <2>2 DEF SceneInv, ScanShowsItsRun
  <2>4. job'.kind = "idle"
    BY <2>1 DEF SceneInv, TypeOK
  <2>5. tx'[Worker].op = "idle"
    BY <2>1 DEF Committed, SceneInv, TypeOK, Idle, Procs
  <2>6. Working'
    BY <2>4, <2>5 DEF Working
  <2>7. assist' \in [Candidates -> {"idle", "succeeded", "failed"} \cup Open]
    BY <2>1 DEF SceneInv, TypeOK, Open
  <2> QED BY <2>1, <2>2, <2>3, <2>4, <2>6, <2>7, WorkerCommits
<1> QED BY <1>1, <1>2

(* A claim finds its run as it was locked: the row cannot go meanwhile.    *)
LEMMA ClaimStep == ASSUME SceneInv, CommitClaim PROVE SceneInv'
<1>1. /\ Committed(Worker, {}) /\ job' = [job EXCEPT !.kind = "run"] /\ tx[Worker].op = "claim"
      /\ runs' = [runs EXCEPT ![job.run] = "processing"] /\ scan' = "processing"
      /\ UNCHANGED <<source, status, run, assist, imageVars, limitVars>>
  BY DEF CommitClaim, Turn, candVars
<1>2. job.run \in Runs /\ runs[job.run] = "queued"
  BY <1>1 DEF SceneInv, Working
<1>3. Exists /\ Exists' /\ job.run = Latest
  BY <1>1, <1>2 DEF SceneInv, RowsOfScan, InOrder, Open, Exists
<1>4. MovesOpenRuns
  BY <1>1, <1>2 DEF SceneInv, TypeOK, MovesOpenRuns, Open
<1>5. Latest' = Latest
  BY <1>4, RunsMove
<1>6. runs'[job.run] = "processing"
  BY <1>1, <1>2 DEF SceneInv, TypeOK
<1>7. ScanShowsItsRun'
  BY <1>1, <1>3, <1>5, <1>6 DEF ScanShowsItsRun
<1>8. job'.kind = "run" /\ job'.run = job.run
  BY <1>1 DEF SceneInv, TypeOK
<1>9. tx'[Worker].op = "idle"
  BY <1>1 DEF Committed, SceneInv, TypeOK, Idle, Procs
<1>10. Working'
  BY <1>1, <1>2, <1>6, <1>8, <1>9 DEF Working
<1> QED BY <1>1, <1>3, <1>4, <1>7, <1>8, <1>10, WorkerCommits DEF SceneInv, TypeOK

(* A failed run is the one in processing, or the scan is gone.             *)
LEMMA FailStep == ASSUME SceneInv, CommitFail PROVE SceneInv'
<1>1. /\ Committed(Worker, {}) /\ job' = [job EXCEPT !.kind = "idle"] /\ tx[Worker].op = "fail"
      /\ runs' = [runs EXCEPT ![job.run] = IF @ = "none" THEN @ ELSE "failed"]
      /\ scan' = IF Exists THEN "failed" ELSE scan
      /\ UNCHANGED <<source, status, run, assist, imageVars, limitVars>>
  BY DEF CommitFail, Turn, candVars
<1>2. job.run \in Runs /\ (Exists => runs[job.run] = "processing")
  BY <1>1 DEF SceneInv, Working
<1>3. runs[job.run] \in {"none", "processing"} /\ (~Exists => runs[job.run] = "none")
  BY <1>2 DEF SceneInv, RowsOfScan
<1>4. MovesOpenRuns
  BY <1>1, <1>2, <1>3 DEF SceneInv, TypeOK, MovesOpenRuns, Open
<1>5. Exists' = Exists /\ Latest' = Latest
  BY <1>1, <1>4, RunsMove DEF Exists
<1>6. ScanShowsItsRun'
  <2>1. Exists => job.run = Latest /\ runs'[job.run] = "failed" /\ scan' = "failed"
    BY <1>1, <1>2 DEF SceneInv, InOrder, Open, TypeOK
  <2> QED BY <1>5, <2>1 DEF ScanShowsItsRun
<1>7. job'.kind = "idle"
  BY <1>1 DEF SceneInv, TypeOK
<1>8. tx'[Worker].op = "idle"
  BY <1>1 DEF Committed, SceneInv, TypeOK, Idle, Procs
<1>9. Working'
  BY <1>7, <1>8 DEF Working
<1> QED BY <1>1, <1>4, <1>5, <1>6, <1>7, <1>9, WorkerCommits DEF SceneInv, TypeOK

(* A saved answer replaces no candidate: its run was open until now.       *)
LEMMA SaveStep == ASSUME SceneInv, CommitSave PROVE SceneInv'
<1> DEFINE c == tx[Worker].cand
           n == job.run
<1>1. /\ Worker \in Procs /\ AtEnd(Worker) /\ tx[Worker].op = "save" /\ Committed(Worker, {})
      /\ job' = [job EXCEPT !.kind = "idle"] /\ run' = [run EXCEPT ![c] = n]
      /\ runs' = [runs EXCEPT ![n] = "succeeded"] /\ scan' = "succeeded"
      /\ UNCHANGED <<source, files, asked, restarts, scenario>>
  BY DEF CommitSave, Turn, Procs, limitVars
<1>2. Has(Worker, "key") /\ Running(Worker) /\ Exists /\ NewOnes(Worker)
  BY <1>1, AtTheEnd DEF SceneInv, Sees, SeesScan, Has
<1>3. c \in Candidates /\ status[c] = "none" /\ run[c] = 0
  BY <1>1, <1>2 DEF NewOnes, SceneInv, RowsOfScan
<1>4. n \in Runs /\ runs[n] = "processing" /\ n = Latest
  BY <1>1, <1>2 DEF SceneInv, Working, InOrder, Open
<1>5. \A d \in Candidates : ~(run[d] = n /\ HasRow(d))
  BY <1>4, SceneAssumption DEF SceneInv, RowsOfScan, Runs
<1>6. /\ status' = [d \in Candidates |-> IF d = c THEN "proposed" ELSE status[d]]
      /\ assist' = [d \in Candidates |-> assist[d]]
      /\ row' \in [Images -> {"none", "crop", "item"}]
      /\ shows' \in [Images -> Candidates \cup {Nobody}]
  BY <1>3, <1>5 DEF CommitSave, SceneInv, TypeOK
<1> HIDE DEF c, n
<1>7. MovesOpenRuns
  BY <1>1, <1>4 DEF SceneInv, TypeOK, MovesOpenRuns, Open
<1>8. Latest' = Latest /\ InOrder' /\ (~LatestIsOpen => ~LatestIsOpen') /\ Exists'
  BY <1>1, <1>7, RunsMove DEF Exists
<1>9. {} \in SUBSET Images
  OBVIOUS
<1>10. /\ tx' \in [Procs -> Tx] /\ Exclusion' /\ InPlan'
       /\ SeesScan(Worker)' /\ SeesRuns(Worker)' /\ SeesCandidate(Worker)'
       /\ SeesOthers(Worker)' /\ NewOnes(Worker)'
       /\ tx'[Worker] = Idle
       /\ \A q \in Procs \ {Worker} : tx'[q] = tx[q] /\ Running(q)' = Running(q)
       /\ \A q \in Procs \ {Worker} : \A s : Has(q, s)' = Has(q, s)
  BY <1>1, <1>9, TxEnds
<1>11. /\ status'[c] = "proposed" /\ run'[c] = n /\ runs'[n] = "succeeded"
       /\ \A d \in Candidates : d # c => /\ status'[d] = status[d] /\ HasRow(d)' = HasRow(d)
                                        /\ run'[d] = run[d]
  BY <1>1, <1>3, <1>4, <1>6 DEF HasRow, SceneInv, TypeOK
<1>12. ASSUME NEW q \in Procs, q # Worker
       PROVE  SeesScan(q)' /\ SeesRuns(q)' /\ SeesCandidate(q)' /\ SeesOthers(q)' /\ NewOnes(q)'
  <2>1. tx'[q] = tx[q] /\ Running(q)' = Running(q) /\ \A s : Has(q, s)' = Has(q, s)
    BY <1>10, <1>12
  <2>2. SeesScan(q) /\ SeesRuns(q) /\ SeesCandidate(q) /\ SeesOthers(q) /\ NewOnes(q)
    BY DEF SceneInv, Sees
  <2>3. ~Has(q, "scan")
    BY <1>1, <1>2, <1>12 DEF SceneInv, Exclusion
  <2>4. SeesScan(q)' /\ SeesRuns(q)'
    BY <1>8, <2>1, <2>2 DEF SeesScan, SeesRuns
  <2>5. SeesCandidate(q)'
    BY <1>3, <1>11, <2>1, <2>2 DEF SeesCandidate, HasRow
  <2>6. SeesOthers(q)'
    <3>1. tx[q].op \in Decisions => ~Has(q, "count")
      BY <2>3, Earlier DEF SceneInv
    <3> QED BY <2>1, <2>2, <3>1 DEF SeesOthers
  <2>7. NewOnes(q)'
    <3>1. tx[q].op \in {"add", "save"} /\ Running(q) => tx[q].cand # c /\ tx'[Worker].cand # tx[q].cand
      BY <1>1, <1>10, <1>12, <2>2, SceneAssumption DEF NewOnes, Idle, c
    <3> QED BY <1>10, <1>11, <2>1, <2>2, <3>1 DEF NewOnes
  <2> QED BY <2>4, <2>5, <2>6, <2>7
<1>13. RowsOfScan'
  <2>1. ASSUME NEW d \in Candidates, HasRow(d)', run'[d] > 0
        PROVE  runs'[run'[d]] \in {"succeeded", "failed"}
    <3>1. CASE d = c
      BY <1>11, <3>1
    <3>2. CASE d # c
      <4>1. run[d] \in Runs /\ runs[run[d]] \in {"succeeded", "failed"}
        BY <1>11, <2>1, <3>2, SceneAssumption DEF SceneInv, TypeOK, RowsOfScan, Runs
      <4> QED BY <1>7, <1>11, <3>2, <4>1 DEF MovesOpenRuns, Open
    <3> QED BY <3>1, <3>2
  <2>2. ASSUME NEW d \in Candidates, status'[d] = "none" PROVE run'[d] = 0
    BY <1>11, <2>2 DEF SceneInv, RowsOfScan
  <2> QED BY <1>8, <2>1, <2>2 DEF RowsOfScan
<1>14. ScanShowsItsRun' /\ ReviewedScanIsGone'
  BY <1>1, <1>3, <1>4, <1>8, <1>11 DEF ScanShowsItsRun, ReviewedScanIsGone, Undecided
<1>15. Working'
  <2>1. job'.kind = "idle" /\ tx'[Worker].op = "idle"
    BY <1>1, <1>10 DEF SceneInv, TypeOK, Idle
  <2> QED BY <2>1 DEF Working
<1>16. TypeOK'
  <2>1. run' \in [Candidates -> 0 .. MaxRuns]
    <3>1. n \in 0 .. MaxRuns
      BY <1>4, SceneAssumption DEF Runs
    <3> QED BY <1>1, <3>1 DEF SceneInv, TypeOK
  <2>2. /\ status' \in [Candidates -> Undecided \cup {"none", "approved", "rejected", "gone"}]
        /\ assist' \in [Candidates -> {"idle", "succeeded", "failed"} \cup Open]
    BY <1>6 DEF SceneInv, TypeOK, Undecided
  <2>3. job' \in [kind : {"idle", "start", "requeue", "run", "assist"}, run : 0 .. MaxRuns,
                  cand : Candidates \cup {Nobody}]
    BY <1>1 DEF SceneInv, TypeOK
  <2> QED BY <1>1, <1>6, <1>7, <1>10, <2>1, <2>2, <2>3 DEF SceneInv, TypeOK, Tx, MovesOpenRuns
<1> QED BY <1>8, <1>10, <1>12, <1>13, <1>14, <1>15, <1>16 DEF SceneInv, Sees

-----------------------------------------------------------------------------
(* Beginnings, ends without a commit, and steps outside transactions.      *)

JobOK == job \in [kind : {"idle", "start", "requeue", "run", "assist"}, run : 0 .. MaxRuns,
                  cand : Candidates \cup {Nobody}]

(* A transaction begins, or ends without a commit.                         *)
LEMMA BeginStep ==
  ASSUME SceneInv, NEW p \in Procs, NEW r, Fresh(p, r), tx' = [tx EXCEPT ![p] = r],
         UNCHANGED <<sceneVars, candVars, row, shows, scenario>>, files' \subseteq Images,
         asked' \in Nat, restarts' \in Nat, JobOK', Working'
  PROVE  SceneInv'
<1>1. UNCHANGED <<scan, source, runs, status, run, assist, row, shows, scenario>>
  BY DEF sceneVars, candVars
<1>2. tx' \in [Procs -> Tx] /\ Exclusion' /\ InPlan' /\ Sees'
  BY <1>1, TxBegins DEF SceneInv
<1>3. RowsInv'
  BY <1>1, SameRows DEF SceneInv, RowsInv
<1>4. TypeOK'
  BY <1>1, <1>2 DEF SceneInv, TypeOK, Tx, JobOK
<1> QED BY <1>2, <1>3, <1>4 DEF SceneInv, RowsInv

(* What a client begins or ends is none of the worker's business.          *)
LEMMA ClientBegins ==
  ASSUME SceneInv, NEW p \in Clients, NEW r, Fresh(p, r), tx' = [tx EXCEPT ![p] = r],
         UNCHANGED <<sceneVars, candVars, row, shows, job, scenario, restarts>>,
         files' \subseteq Images, asked' \in Nat
  PROVE  SceneInv'
<1>1. p \in Procs /\ p # Worker /\ Worker \in Procs
  BY SceneAssumption DEF Procs
<1>2. tx'[Worker] = tx[Worker]
  BY <1>1 DEF SceneInv, TypeOK
<1>3. Has(Worker, "run")' = Has(Worker, "run") /\ Exists' = Exists
  BY <1>2 DEF Has, Did, Running, Exists, sceneVars
<1>4. Working'
  BY <1>2, <1>3 DEF SceneInv, Working, sceneVars
<1>5. restarts' \in Nat /\ JobOK'
  BY DEF SceneInv, TypeOK, JobOK
<1> QED BY <1>1, <1>4, <1>5, BeginStep

(* The requests of clients.                                                *)
LEMMA RequestStep == ASSUME SceneInv, NEW p \in Clients, Request(p) PROVE SceneInv'
<1>1. asked \in Nat /\ files \subseteq Images
  BY DEF SceneInv, TypeOK
<1>2. ASSUME NEW op \in Requests, NEW c \in Candidates \cup {Nobody}, NEW i \in Images \cup {NoImage},
             Ask(p, op, c, i), files' \subseteq Images,
             UNCHANGED <<sceneVars, candVars, row, shows, job>>,
             op \in Decisions \cup {"append", "delimg"} => HasRow(c) /\ c \in Candidates,
             op \in {"append", "delimg"} => i \in Images,
             op = "add" => c \in NewCandidates,
             op \notin Decisions \cup {"append", "delimg", "add"} => c = Nobody
      PROVE  SceneInv'
  <2> DEFINE r == [Idle EXCEPT !.op = op, !.cand = c, !.image = i]
  <2>1. /\ r.op = op /\ r.cand = c /\ r.image = i /\ r.at = 0 /\ r.saw = "nothing" /\ r.done = FALSE
    BY DEF Idle
  <2>0. r \in Tx
    <3>1. Idle \in Tx
      BY DEF Idle, Tx, TxOps
    <3>2. op \in TxOps
      BY DEF TxOps
    <3> QED BY <3>1, <3>2 DEF Tx
  <2>2. tx' = [tx EXCEPT ![p] = r] /\ UNCHANGED <<restarts, scenario>> /\ asked' = asked + 1
    BY <1>2 DEF Ask, Asked, Begin
  <2> HIDE DEF r
  <2>3. op # "save" /\ p # Worker
    BY SceneAssumption DEF Requests, Decisions
  <2>4. op = "add" => /\ c \in Candidates /\ status[c] = "none"
                      /\ \A q \in Procs : tx[q].cand # c
    BY <1>2 DEF NewCandidates
  <2>5. Fresh(p, r)
    BY <1>2, <2>0, <2>1, <2>3, <2>4 DEF Fresh
  <2>6. UNCHANGED <<sceneVars, candVars, row, shows, job, scenario, restarts>> /\ asked' \in Nat
    BY <1>1, <1>2, <2>2
  <2> QED BY <1>2, <2>2, <2>5, <2>6, ClientBegins
<1>3. CASE RequestQueue(p) \/ RequestDelete(p)
  <2>1. /\ Ask(p, "queue", Nobody, NoImage) \/ Ask(p, "delete", Nobody, NoImage)
        /\ UNCHANGED <<sceneVars, candVars, row, shows, files, job>>
    BY <1>3 DEF RequestQueue, RequestDelete, imageVars
  <2> QED BY <1>1, <1>2, <2>1 DEF Requests, Decisions
<1>4. CASE RequestAdd(p)
  <2>1. PICK c \in One(NewCandidates) : Ask(p, "add", c, NoImage)
    BY <1>4 DEF RequestAdd
  <2>2. c \in NewCandidates /\ c \in Candidates
    BY <2>1 DEF One, NewCandidates
  <2>3. UNCHANGED <<sceneVars, candVars, row, shows, files, job>>
    BY <1>4 DEF RequestAdd, imageVars
  <2> QED BY <1>1, <1>2, <2>1, <2>2, <2>3 DEF Requests, Decisions
<1>5. CASE RequestReview(p)
  <2>1. PICK c \in Candidates, op \in Decisions : HasRow(c) /\ Ask(p, op, c, NoImage)
    BY <1>5 DEF RequestReview
  <2>2. UNCHANGED <<sceneVars, candVars, row, shows, files, job>>
    BY <1>5 DEF RequestReview, imageVars
  <2> QED BY <1>1, <1>2, <2>1, <2>2 DEF Requests, Decisions
<1>6. CASE RequestUpload(p)
  <2>1. PICK c \in Candidates, i \in One(NewImages) :
               HasRow(c) /\ Ask(p, "append", c, i) /\ files' = files \cup {i}
    BY <1>6 DEF RequestUpload
  <2>2. i \in Images
    BY <2>1 DEF One, NewImages
  <2>3. UNCHANGED <<sceneVars, candVars, row, shows, job>>
    BY <1>6 DEF RequestUpload
  <2> QED BY <1>1, <1>2, <2>1, <2>2, <2>3 DEF Requests, Decisions
<1>7. CASE RequestImageDelete(p)
  <2>1. PICK c \in Candidates : \E i \in CropsOf(c) : HasRow(c) /\ Ask(p, "delimg", c, i)
    BY <1>7 DEF RequestImageDelete
  <2>2. PICK i \in Images : HasRow(c) /\ Ask(p, "delimg", c, i)
    BY <2>1 DEF CropsOf
  <2>3. UNCHANGED <<sceneVars, candVars, row, shows, files, job>>
    BY <1>7 DEF RequestImageDelete, imageVars
  <2> QED BY <1>1, <1>2, <2>2, <2>3 DEF Requests, Decisions
<1> QED BY <1>3, <1>4, <1>5, <1>6, <1>7 DEF Request

(* A rollback: a refused statement, a deadlock, a lost client or statement. *)
LEMMA AbortStep == ASSUME SceneInv, NEW p \in Procs, Abort(p) PROVE SceneInv'
<1>1. /\ tx' = [tx EXCEPT ![p] = Idle] /\ Fresh(p, Idle)
      /\ UNCHANGED <<sceneVars, candVars, row, shows, asked, restarts, scenario>>
  BY IdleIsFresh DEF Abort, limitVars
<1>2. files' \subseteq Images /\ asked \in Nat /\ restarts \in Nat
  BY DEF Abort, SceneInv, TypeOK
<1>3. CASE p = Worker
  <2>1. job' = [job EXCEPT !.kind = "idle"] /\ tx'[Worker].op = "idle"
    BY <1>1, <1>3 DEF Abort, SceneInv, TypeOK, Idle
  <2>2. JobOK' /\ job'.kind = "idle"
    BY <2>1 DEF SceneInv, TypeOK, JobOK
  <2>3. Working'
    BY <2>1, <2>2 DEF Working
  <2> QED BY <1>1, <1>2, <2>2, <2>3, BeginStep
<1>4. CASE p # Worker
  <2>1. p \in Clients /\ job' = job
    BY <1>4 DEF Abort, Procs
  <2> QED BY <1>1, <1>2, <2>1, ClientBegins
<1> QED BY <1>3, <1>4

(* The response.                                                           *)
LEMMA AnswerStep == ASSUME SceneInv, NEW p \in Clients, Answer(p) PROVE SceneInv'
<1>1. /\ tx' = [tx EXCEPT ![p] = Idle] /\ Fresh(p, Idle)
      /\ UNCHANGED <<sceneVars, candVars, row, shows, job, asked, restarts, scenario>>
  BY IdleIsFresh DEF Answer, limitVars, Procs
<1>2. files' \subseteq Images /\ asked \in Nat
  BY DEF Answer, SceneInv, TypeOK
<1> QED BY <1>1, <1>2, ClientBegins

(* A step outside every transaction edits candidates at most.              *)
LEMMA QuietStep ==
  ASSUME SceneInv, tx' = tx, EditsOnly, TypeOK', Working' PROVE SceneInv'
<1>1. Exclusion'
  BY LocksLoosen DEF SceneInv
<1>2. InPlan'
  BY DEF SceneInv, InPlan
<1>3. ASSUME NEW q \in Procs
      PROVE  SeesScan(q)' /\ SeesRuns(q)' /\ SeesCandidate(q)' /\ SeesOthers(q)' /\ NewOnes(q)'
  <2>1. SeesScan(q)' /\ SeesRuns(q)' /\ SeesCandidate(q)' /\ SeesOthers(q)'
    BY EditedKnowledge, SceneAssumption DEF SceneInv, Sees
  <2>2. NewOnes(q) /\ Running(q)' = Running(q)
    BY DEF SceneInv, Sees, Running
  <2> QED BY <2>1, <2>2 DEF NewOnes, EditsOnly, Undecided
<1>4. RowsInv'
  BY EditedRows DEF SceneInv, RowsInv
<1> QED BY <1>1, <1>2, <1>3, <1>4 DEF SceneInv, Sees, RowsInv

(* The job of the worker in a step that leaves its transaction alone.      *)
LEMMA SameWork ==
  ASSUME Working, tx' = tx, UNCHANGED <<scan, runs>>,
         \/ job' = job
         \/ job'.kind \in {"idle", "requeue"} /\ tx[Worker].op = "idle"
         \/ job'.kind = "assist" /\ job'.cand \in Candidates /\ tx[Worker].op = "idle"
  PROVE  Working'
<1>1. Has(Worker, "run")' = Has(Worker, "run") /\ Exists' = Exists
  BY DEF Has, Did, Running, Exists
<1> QED BY <1>1 DEF Working

(* Settled images, an edit, and a request of candidate AI Assist.          *)
LEMMA EditStep ==
  ASSUME SceneInv,
         Settle \/ \E c \in Candidates : PatchCandidate(c) \/ QueueCandidateAIAssist(c)
  PROVE  SceneInv'
<1>1. CASE Settle
  <2>1. tx' = tx /\ EditsOnly /\ TypeOK' /\ UNCHANGED <<scan, runs, job>>
    BY <1>1 DEF Settle, EditsOnly, SceneInv, TypeOK, candVars, imageVars, limitVars
  <2> QED BY <2>1, QuietStep, SameWork DEF SceneInv
<1>2. ASSUME NEW c \in Candidates, PatchCandidate(c) PROVE SceneInv'
  <2>1. /\ tx' = tx /\ status[c] \in Undecided /\ status' = [status EXCEPT ![c] = "edited"]
        /\ UNCHANGED <<scan, source, runs, run, assist, row, shows, files, job, restarts, scenario>>
        /\ asked' = asked + 1
    BY <1>2 DEF PatchCandidate, Asked, sceneVars, imageVars
  <2>2. EditsOnly /\ TypeOK'
    BY <2>1 DEF EditsOnly, SceneInv, TypeOK, Undecided
  <2> QED BY <2>1, <2>2, QuietStep, SameWork DEF SceneInv
<1>3. ASSUME NEW c \in Candidates, QueueCandidateAIAssist(c) PROVE SceneInv'
  <2>1. /\ tx' = tx /\ assist' = [assist EXCEPT ![c] = "queued"]
        /\ UNCHANGED <<scan, source, runs, status, run, row, shows, files, job, restarts, scenario>>
        /\ asked' = asked + 1
    BY <1>3 DEF QueueCandidateAIAssist, Asked, sceneVars, imageVars
  <2>2. EditsOnly /\ TypeOK'
    BY <2>1 DEF EditsOnly, SceneInv, TypeOK, Open
  <2> QED BY <2>1, <2>2, QuietStep, SameWork DEF SceneInv
<1> QED BY <1>1, <1>2, <1>3

(* CreateScan: until then there is nothing.                                *)
LEMMA CreateStep == ASSUME SceneInv, CreateScan PROVE SceneInv'
<1>1. /\ scan = "none" /\ scan' = "created" /\ source' = "inflight"
      /\ UNCHANGED <<runs, status, run, assist, row, shows, files, tx, job, asked, restarts, scenario>>
  BY DEF CreateScan, candVars, imageVars, limitVars
<1>2. ~Exists /\ Exists' /\ Latest' = Latest /\ LatestIsOpen' = LatestIsOpen
      /\ \A c : HasRow(c)' = HasRow(c) /\ OthersUndecided(c)' = OthersUndecided(c)
  BY <1>1 DEF Exists, Latest, LatestIsOpen, HasRow, OthersUndecided
<1>3. Exclusion'
  BY <1>1, LocksLoosen DEF SceneInv
<1>4. ASSUME NEW q \in Procs
      PROVE  SeesScan(q)' /\ SeesRuns(q)' /\ SeesCandidate(q)' /\ SeesOthers(q)' /\ NewOnes(q)'
  <2>1. Running(q)' = Running(q) /\ \A s : Has(q, s)' = Has(q, s)
    BY <1>1 DEF Running, Has, Did
  <2>2. SeesScan(q) /\ SeesRuns(q) /\ SeesCandidate(q) /\ SeesOthers(q) /\ NewOnes(q)
    BY DEF SceneInv, Sees
  <2>3. SeesScan(q)' /\ SeesRuns(q)'
    BY <1>1, <1>2, <2>1, <2>2 DEF SeesScan, SeesRuns
  <2>4. SeesCandidate(q)' /\ SeesOthers(q)' /\ NewOnes(q)'
    BY <1>1, <1>2, <2>1, <2>2 DEF SeesCandidate, SeesOthers, NewOnes
  <2> QED BY <2>3, <2>4
<1>5. InPlan' /\ InOrder' /\ RowsOfScan'
  BY <1>1, <1>2 DEF SceneInv, InPlan, InOrder, RowsOfScan
<1>6. ScanShowsItsRun' /\ ReviewedScanIsGone'
  <2>1. ~(Latest > 0)
    BY <1>2, SceneAssumption DEF SceneInv, InOrder, RowsOfScan, Runs
  <2> QED BY <1>1, <1>2, <2>1 DEF SceneInv, RowsOfScan, ScanShowsItsRun, ReviewedScanIsGone
<1>7. Working'
  <2>1. Has(Worker, "run")' = Has(Worker, "run")
    BY <1>1 DEF Has, Did, Running
  <2> QED BY <1>1, <2>1 DEF SceneInv, Working
<1>8. TypeOK'
  BY <1>1 DEF SceneInv, TypeOK
<1> QED BY <1>3, <1>4, <1>5, <1>6, <1>7, <1>8 DEF SceneInv, Sees

(* What the worker begins, apart from a claim.                             *)
LEMMA WorkerBegins ==
  ASSUME SceneInv, StartReset \/ StartRequeue \/ EndAnalysis PROVE SceneInv'
<1>0. Worker \in Procs /\ asked \in Nat /\ restarts \in Nat /\ files \subseteq Images
  BY DEF Procs, SceneInv, TypeOK
<1>1. ASSUME NEW op \in WorkerOps \ {"claim"}, NEW c \in Candidates \cup {Nobody},
             NEW i \in Images \cup {NoImage}, Begin(Worker, op, c, i),
             UNCHANGED <<sceneVars, candVars, imageVars, job, limitVars>>,
             op \in {"fail", "save"} => job.kind = "run",
             IF op = "save" THEN c \in NewCandidates ELSE c = Nobody
      PROVE  SceneInv'
  <2> DEFINE r == [Idle EXCEPT !.op = op, !.cand = c, !.image = i]
  <2>1. /\ r.op = op /\ r.cand = c /\ r.image = i /\ r.at = 0 /\ r.saw = "nothing" /\ r.done = FALSE
    BY DEF Idle
  <2>2. r \in Tx
    <3>1. Idle \in Tx
      BY DEF Idle, Tx, TxOps
    <3>2. op \in TxOps
      BY DEF TxOps, WorkerOps
    <3> QED BY <3>1, <3>2 DEF Tx
  <2>3. tx' = [tx EXCEPT ![Worker] = r]
    BY <1>1 DEF Begin
  <2> HIDE DEF r
  <2>4. op \notin Decisions \cup {"append", "delimg", "add", "claim"}
    BY DEF WorkerOps, Decisions
  <2>5. op = "save" => /\ c \in Candidates /\ status[c] = "none"
                       /\ \A q \in Procs : tx[q].cand # c
    BY <1>1 DEF NewCandidates
  <2>6. Fresh(Worker, r)
    BY <1>1, <2>1, <2>2, <2>4, <2>5 DEF Fresh
  <2>7. Working'
    <3>1. tx'[Worker].op = op /\ Exists' = Exists /\ UNCHANGED <<scan, runs, job>>
      BY <1>0, <1>1, <2>1, <2>3 DEF SceneInv, TypeOK, Exists, sceneVars
    <3> QED BY <1>1, <2>4, <3>1 DEF SceneInv, Working
  <2>8. UNCHANGED <<sceneVars, candVars, row, shows, scenario>> /\ files' \subseteq Images
        /\ asked' \in Nat /\ restarts' \in Nat /\ JobOK'
    BY <1>0, <1>1 DEF imageVars, limitVars, SceneInv, TypeOK, JobOK
  <2> QED BY <1>0, <2>3, <2>6, <2>7, <2>8, BeginStep
<1>2. ASSUME Turn("requeue") \/ Turn("idle"), tx[Worker].op = "idle",
             UNCHANGED <<sceneVars, candVars, imageVars, limitVars, tx>>
      PROVE  SceneInv'
  <2>1. UNCHANGED <<scan, source, runs, status, run, assist, row, shows, files, asked, restarts,
                    scenario, tx>>
    BY <1>2 DEF sceneVars, candVars, imageVars, limitVars
  <2>2. job'.kind \in {"requeue", "idle"} /\ JobOK'
    BY <1>2 DEF Turn, SceneInv, TypeOK, JobOK
  <2>3. EditsOnly /\ TypeOK' /\ Working'
    BY <1>2, <2>1, <2>2, SameWork DEF EditsOnly, SceneInv, TypeOK, JobOK
  <2> QED BY <2>1, <2>3, QuietStep
<1>3. CASE StartReset
  <2>1. /\ UNCHANGED <<sceneVars, candVars, imageVars, limitVars>> /\ tx[Worker].op = "idle"
        /\ \/ Begin(Worker, "reset", Nobody, NoImage) /\ UNCHANGED job
           \/ Turn("requeue") /\ UNCHANGED tx
    BY <1>3 DEF StartReset, Rested
  <2> QED BY <1>1, <1>2, <2>1 DEF WorkerOps
<1>4. CASE StartRequeue
  <2>1. /\ UNCHANGED <<sceneVars, candVars, imageVars, limitVars>> /\ tx[Worker].op = "idle"
        /\ \/ Begin(Worker, "requeue", Nobody, NoImage) /\ UNCHANGED job
           \/ Turn("idle") /\ UNCHANGED tx
    BY <1>4 DEF StartRequeue, Rested
  <2> QED BY <1>1, <1>2, <2>1 DEF WorkerOps
<1>5. CASE EndAnalysis
  <2>1. UNCHANGED <<sceneVars, candVars, imageVars, job, limitVars>> /\ job.kind = "run"
    BY <1>5 DEF EndAnalysis
  <2>2. CASE Begin(Worker, "fail", Nobody, NoImage)
    BY <1>1, <2>1, <2>2 DEF WorkerOps
  <2>3. CASE \E c \in One(NewCandidates), i \in One(NewImages) \cup {NoImage} :
               Begin(Worker, "save", c, i)
    <3>1. PICK c \in One(NewCandidates), i \in One(NewImages) \cup {NoImage} :
                 Begin(Worker, "save", c, i)
      BY <2>3
    <3>2. c \in NewCandidates /\ c \in Candidates /\ i \in Images \cup {NoImage}
      BY DEF One, NewCandidates, NewImages
    <3> QED BY <1>1, <2>1, <3>1, <3>2 DEF WorkerOps
  <2> QED BY <1>5, <2>2, <2>3 DEF EndAnalysis
<1> QED BY <1>3, <1>4, <1>5

(* claimNextJob: a run that somebody locks is skipped, so the lock is free. *)
LEMMA ClaimBegins == ASSUME SceneInv, ClaimNextJob PROVE SceneInv'
<1> DEFINE r == [Idle EXCEPT !.op = "claim", !.at = 1]
<1>1. PICK n \in Claimable : job' = [job EXCEPT !.run = n]
  BY DEF ClaimNextJob
<1>2. /\ n \in Runs /\ runs[n] = "queued" /\ job.kind = "idle"
      /\ \A q \in Clients : ~Has(q, "run") /\ ~Has(q, "rows")
      /\ UNCHANGED <<scan, source, runs, status, run, assist, row, shows, files, asked, restarts,
                     scenario>>
  <2>1. \A q \in Clients : ~(Running(q) /\ {"run", "rows"} \cap Did(q) # {})
    BY <1>1 DEF Claimable
  <2>2. \A q \in Clients : ~Has(q, "run") /\ ~Has(q, "rows")
    BY <2>1 DEF Has
  <2> QED BY <1>1, <2>2 DEF ClaimNextJob, Claimable, sceneVars, candVars, imageVars, limitVars
<1>3. /\ r \in Tx /\ r.op = "claim" /\ r.at = 1 /\ r.cand = Nobody /\ r.done = FALSE
      /\ r.saw = "nothing"
  <2>1. Idle \in Tx /\ Idle.cand = Nobody /\ Idle.done = FALSE /\ Idle.saw = "nothing"
    BY DEF Idle, Tx, TxOps
  <2>2. "claim" \in TxOps
    BY DEF TxOps
  <2>3. r \in Tx
    <3> DEFINE s == [Idle EXCEPT !.op = "claim"]
    <3>1. s \in Tx
      BY <2>1, <2>2 DEF Tx
    <3>2. r = [s EXCEPT !.at = 1]
      OBVIOUS
    <3> HIDE DEF s, r
    <3> QED BY <3>1, <3>2 DEF Tx
  <2>4. r.op = "claim" /\ r.at = 1 /\ r.cand = Idle.cand /\ r.done = Idle.done /\ r.saw = Idle.saw
    BY DEF Idle
  <2> QED BY <2>1, <2>3, <2>4
<1>4. tx' = [tx EXCEPT ![Worker] = r] /\ Worker \in Procs /\ tx \in [Procs -> Tx]
  BY DEF ClaimNextJob, Procs, SceneInv, TypeOK, Tx
<1> HIDE DEF r
<1>5. /\ tx' \in [Procs -> Tx] /\ tx'[Worker] = r
      /\ \A q \in Procs \ {Worker} : tx'[q] = tx[q]
  BY <1>3, <1>4
<1>6. Did(Worker)' = {"run"} /\ Running(Worker)' /\ ~Deletes(Worker)'
  <2>1. Plan["claim"] = <<"run", "touch">>
    BY Plans
  <2> QED BY <1>3, <1>5, <2>1 DEF Did, Running, Deletes
<1>7. ASSUME NEW q \in Procs, q # Worker
      PROVE  /\ tx'[q] = tx[q] /\ Running(q)' = Running(q) /\ Deletes(q)' = Deletes(q)
             /\ \A s : Has(q, s)' = Has(q, s)
             /\ \A c : HoldsCand(q, c)' = HoldsCand(q, c)
             /\ ~Has(q, "rows")
  BY <1>2, <1>5, <1>7 DEF Running, Deletes, Has, HoldsCand, Did, Procs
<1>8. ASSUME NEW s PROVE Has(Worker, s)' <=> s = "run"
  BY <1>6 DEF Has
<1>9. Exclusion'
  <2>1. \A c : ~HoldsCand(Worker, c)'
    BY <1>6 DEF HoldsCand
  <2>2. ASSUME NEW a \in Procs, NEW b \in Procs, a # b
        PROVE  /\ Has(a, "scan")' => ~Has(b, "key")' /\ ~Has(b, "touch")' /\ ~Has(b, "scan")'
               /\ Has(a, "cand")' /\ Running(b)' => ~HoldsCand(b, tx[a].cand)'
               /\ Has(a, "rows")' /\ Deletes(a)' => ~Has(b, "run")'
    <3>1. CASE a = Worker
      BY <1>8, <3>1
    <3>2. CASE b = Worker
      BY <1>7, <1>8, <2>1, <2>2, <3>2
    <3>3. CASE a # Worker /\ b # Worker
      BY <1>7, <2>2, <3>3 DEF SceneInv, Exclusion
    <3> QED BY <3>1, <3>2, <3>3
  <2> QED BY <2>2 DEF Exclusion
<1>10. InPlan'
  <2>1. Len(Plan["claim"]) = 2
    BY Plans
  <2>2. tx'[Worker].at <= Len(Plan[tx'[Worker].op])
    <3>1. tx'[Worker].at = 1
      BY <1>3, <1>5
    <3>2. Plan[tx'[Worker].op] = Plan["claim"]
      BY <1>3, <1>5
    <3>3. Len(Plan[tx'[Worker].op]) = 2
      BY <2>1, <3>2
    <3>4. 1 <= 2
      OBVIOUS
    <3> QED BY <3>1, <3>3, <3>4
  <2>3. ASSUME NEW q \in Clients PROVE q \in Procs \ {Worker} /\ tx'[q] = tx[q]
    <3>1. q \in Procs \ {Worker}
      BY SceneAssumption DEF Procs
    <3> QED BY <1>5, <3>1
  <2> QED BY <1>3, <1>5, <2>2, <2>3 DEF SceneInv, InPlan, Procs, WorkerOps
<1>11. ASSUME NEW q \in Procs
       PROVE  SeesScan(q)' /\ SeesRuns(q)' /\ SeesCandidate(q)' /\ SeesOthers(q)' /\ NewOnes(q)'
  <2>1. CASE q = Worker
    BY <1>3, <1>5, <1>8, <2>1 DEF SeesScan, SeesRuns, SeesCandidate, SeesOthers, NewOnes, Decisions
  <2>2. CASE q # Worker
    <3>1. SeesScan(q)' /\ SeesRuns(q)' /\ SeesCandidate(q)' /\ SeesOthers(q)'
      BY <1>2, <1>5, <2>2, SameKnowledge DEF SceneInv, Sees
    <3>2. NewOnes(q)
      BY DEF SceneInv, Sees
    <3>3. NewOnes(q)'
      BY <1>2, <1>3, <1>5, <1>7, <2>2, <3>2, SceneAssumption DEF NewOnes
    <3> QED BY <3>1, <3>3
  <2> QED BY <2>1, <2>2
<1>12. RowsInv'
  BY <1>2, SameRows DEF SceneInv, RowsInv
<1>13. job'.kind = "idle" /\ job'.run = n /\ JobOK'
  <2>1. n \in 0 .. MaxRuns
    BY <1>2, SceneAssumption DEF Runs
  <2> QED BY <1>1, <1>2, <2>1 DEF SceneInv, TypeOK, JobOK
<1>14. Working'
  BY <1>2, <1>3, <1>5, <1>8, <1>13 DEF Working
<1>15. TypeOK'
  BY <1>2, <1>5, <1>13 DEF SceneInv, TypeOK, Tx, JobOK
<1> QED BY <1>9, <1>10, <1>11, <1>12, <1>14, <1>15 DEF SceneInv, Sees, RowsInv

(* The beginning and the end of a candidate AI Assist.                     *)
LEMMA AssistStep ==
  ASSUME SceneInv, ClaimNextCandidateAssistJob \/ EndAssist PROVE SceneInv'
<1>1. CASE ClaimNextCandidateAssistJob
  <2>1. PICK c \in Candidates : /\ assist' = [assist EXCEPT ![c] = "processing"]
                                /\ job' = [job EXCEPT !.kind = "assist", !.cand = c]
    BY <1>1 DEF ClaimNextCandidateAssistJob
  <2>2. /\ UNCHANGED <<scan, source, runs, status, run, row, shows, files, tx, asked, restarts, scenario>>
        /\ tx[Worker].op = "idle"
    BY <1>1 DEF ClaimNextCandidateAssistJob, Rested, sceneVars, imageVars, limitVars
  <2>3. JobOK' /\ job'.kind = "assist" /\ job'.cand = c
    BY <2>1 DEF SceneInv, TypeOK, JobOK
  <2>4. EditsOnly /\ Working'
    BY <2>2, <2>3, SameWork DEF EditsOnly, SceneInv
  <2>5. assist' \in [Candidates -> {"idle", "succeeded", "failed"} \cup Open]
    BY <2>1 DEF SceneInv, TypeOK, Open
  <2>6. TypeOK'
    BY <2>2, <2>3, <2>5 DEF SceneInv, TypeOK, JobOK
  <2> QED BY <2>2, <2>4, <2>6, QuietStep
<1>2. CASE EndAssist
  <2>1. /\ UNCHANGED <<scan, source, runs, run, row, shows, files, tx, asked, restarts, scenario>>
        /\ tx[Worker].op = "idle" /\ job' = [job EXCEPT !.kind = "idle"] /\ job.kind = "assist"
        /\ SaveAssist(job.cand) \/ MarkAssistFailed(job.cand) \/ DropAssist(job.cand)
    BY <1>2 DEF EndAssist, Rested, Turn, sceneVars, imageVars, limitVars
  <2>2. JobOK' /\ job'.kind = "idle" /\ job.cand \in Candidates
    BY <2>1 DEF SceneInv, TypeOK, JobOK, Working
  <2> DEFINE c == job.cand
  <2>3. \/ UNCHANGED <<status, assist>>
        \/ /\ status[c] \in Undecided
           /\ status' = status \/ status' = [status EXCEPT ![c] = "edited"]
           /\ assist' = [assist EXCEPT ![c] = "succeeded"] \/ assist' = [assist EXCEPT ![c] = "failed"]
    BY <2>1 DEF SaveAssist, MarkAssistFailed, DropAssist, AssistIsOpen
  <2> HIDE DEF c
  <2>4. EditsOnly /\ Working'
    <3>1. Working'
      BY <2>1, <2>2, SameWork DEF SceneInv
    <3>2. EditsOnly
      BY <2>1, <2>3 DEF EditsOnly, SceneInv, TypeOK, Undecided
    <3> QED BY <3>1, <3>2
  <2>5. /\ status' \in [Candidates -> Undecided \cup {"none", "approved", "rejected", "gone"}]
        /\ assist' \in [Candidates -> {"idle", "succeeded", "failed"} \cup Open]
    BY <2>3 DEF SceneInv, TypeOK, Open, Undecided
  <2>6. TypeOK'
    BY <2>1, <2>2, <2>5 DEF SceneInv, TypeOK, JobOK
  <2> QED BY <2>1, <2>4, <2>6, QuietStep
<1> QED BY <1>1, <1>2

(* The process dies and starts.                                            *)
LEMMA RestartStep == ASSUME SceneInv, Restart PROVE SceneInv'
<1>1. /\ tx' = [p \in Procs |-> Idle] /\ job' = [job EXCEPT !.kind = "start"]
      /\ restarts' = restarts + 1
      /\ UNCHANGED <<scan, source, runs, status, run, assist, row, shows, files, asked, scenario>>
  BY DEF Restart, sceneVars, candVars, imageVars
<1>2. /\ Idle \in Tx /\ Idle.op = "idle" /\ Idle.at = 0 /\ Idle.done = FALSE /\ Idle.cand = Nobody
      /\ Len(Plan["idle"]) = 0
  BY Plans DEF Idle, Tx, TxOps
<1>3. ASSUME NEW q \in Procs PROVE tx'[q] = Idle /\ ~Running(q)' /\ \A s : ~Has(q, s)'
  BY <1>1, <1>2 DEF Running, Has
<1>4. Exclusion'
  BY <1>3, LocksLoosen DEF SceneInv
<1>5. InPlan'
  BY <1>2, <1>3 DEF InPlan, Procs
<1>6. Sees'
  BY <1>2, <1>3 DEF Sees, SeesScan, SeesRuns, SeesCandidate, SeesOthers, NewOnes, Decisions
<1>7. RowsInv'
  BY <1>1, SameRows DEF SceneInv, RowsInv
<1>8. JobOK' /\ job'.kind = "start" /\ restarts' \in Nat
  BY <1>1 DEF SceneInv, TypeOK, JobOK
<1>9. Working'
  <2>1. tx'[Worker].op = "idle"
    BY <1>2, <1>3 DEF Procs
  <2> QED BY <1>8, <2>1 DEF Working
<1>10. TypeOK'
  <2>1. tx' \in [Procs -> Tx]
    BY <1>1, <1>2
  <2> QED BY <1>1, <1>8, <2>1 DEF SceneInv, TypeOK, Tx, JobOK
<1> QED BY <1>4, <1>5, <1>6, <1>7, <1>9, <1>10 DEF SceneInv, RowsInv

-----------------------------------------------------------------------------
(* The invariant.                                                          *)

(* At first there is no scan.                                              *)
LEMMA SceneInit == ASSUME Init PROVE SceneInv
<1>1. MaxRuns \in Nat /\ Runs = 1 .. MaxRuns
  BY SceneAssumption DEF Runs
<1>2. /\ Idle \in Tx /\ Idle.op = "idle" /\ Idle.at = 0 /\ Idle.done = FALSE /\ Idle.cand = Nobody
      /\ Len(Plan["idle"]) = 0
  BY Plans DEF Idle, Tx, TxOps
<1>3. ASSUME NEW q \in Procs PROVE tx[q] = Idle /\ ~Running(q) /\ \A s : ~Has(q, s)
  BY <1>2 DEF Init, Running, Has
<1>4. TypeOK
  <2>1. tx \in [Procs -> Tx]
    BY <1>2 DEF Init
  <2> QED BY <1>1, <2>1 DEF Init, TypeOK, Tx, Open, Undecided
<1>5. Exclusion /\ InPlan
  BY <1>2, <1>3 DEF Exclusion, InPlan, Procs
<1>6. Sees
  BY <1>2, <1>3 DEF Sees, SeesScan, SeesRuns, SeesCandidate, SeesOthers, NewOnes, Decisions
<1>7. Latest = 0
  <2>1. 0 \in 0 .. MaxRuns /\ \A n \in Runs : runs[n] # "none" <=> n <= 0
    BY <1>1 DEF Init
  <2> QED BY <2>1, LatestIs DEF Latest
<1>8. InOrder /\ RowsOfScan /\ ScanShowsItsRun /\ ReviewedScanIsGone
  BY <1>1, <1>7 DEF Init, InOrder, RowsOfScan, ScanShowsItsRun, ReviewedScanIsGone, Exists, HasRow,
                    Open
<1>9. Working
  <2>1. tx[Worker].op = "idle"
    BY <1>2, <1>3 DEF Procs
  <2> QED BY <2>1 DEF Working, Init
<1> QED BY <1>4, <1>5, <1>6, <1>8, <1>9 DEF SceneInv

(* Every step keeps it.                                                    *)
LEMMA SceneNext == ASSUME SceneInv, [Next]_vars PROVE SceneInv'
<1>1. CASE CreateScan
  BY <1>1, CreateStep
<1>2. CASE Settle \/ \E c \in Candidates : PatchCandidate(c) \/ QueueCandidateAIAssist(c)
  BY <1>2, EditStep
<1>3. ASSUME NEW p \in Clients, Request(p) \/ Answer(p) PROVE SceneInv'
  BY <1>3, RequestStep, AnswerStep
<1>4. ASSUME NEW p \in Clients, CommitClient(p) PROVE SceneInv'
  BY <1>4, DecisionStep, DeleteStep, AddStep, ImageStep, QueueStep DEF CommitClient
<1>5. ASSUME NEW p \in Procs, Advance(p) \/ Victim(p) \/ Abandon(p) \/ LoseStatement PROVE SceneInv'
  <2>1. Statement(p) \/ Abort(p) \/ Abort(Worker)
    BY <1>5 DEF Advance, Refuse, Victim, Abandon, LoseStatement
  <2> QED BY <2>1, StatementStep, AbortStep DEF Procs
<1>6. CASE WorkerStep
  BY <1>6, WorkerBegins, ResetStep, ClaimBegins, ClaimStep, AssistStep, FailStep, SaveStep
     DEF WorkerStep
<1>7. CASE Restart
  BY <1>7, RestartStep
<1>8. CASE UNCHANGED vars
  <2>1. tx' = tx /\ EditsOnly /\ TypeOK' /\ UNCHANGED <<scan, runs, job>>
    BY <1>8 DEF vars, sceneVars, candVars, imageVars, limitVars, EditsOnly, SceneInv, TypeOK
  <2> QED BY <2>1, QuietStep, SameWork DEF SceneInv
<1>9. Clients \subseteq Procs /\ Worker \in Procs
  BY DEF Procs
<1> QED BY <1>1, <1>2, <1>3, <1>4, <1>5, <1>6, <1>7, <1>8, <1>9 DEF Next

(* The invariant holds in every reachable state.                           *)
THEOREM SceneIsSound == Spec => []SceneInv
<1>1. Init => SceneInv
  BY SceneInit
<1>2. SceneInv /\ [Next]_vars => SceneInv'
  BY SceneNext
<1> QED BY <1>1, <1>2, PTL DEF Spec

(* The runs of a scan are in order: one is open at most, it is the latest, *)
(* the scan shows it and it has no candidates (QueueAnalysis, the claim,   *)
(* the save and the recovery of the worker).                               *)
THEOREM RunsStayInOrder == Spec => []RunsAreInOrder
<1>1. SceneInv => RunsAreInOrder
  <2> SUFFICES ASSUME SceneInv PROVE RunsAreInOrder
    OBVIOUS
  <2>1. OneOpenRun
    BY DEF SceneInv, InOrder, OneOpenRun
  <2>2. ASSUME NEW c \in Candidates, HasRow(c), run[c] > 0 PROVE runs[run[c]] \notin Open
    BY <2>2 DEF SceneInv, RowsOfScan, Open
  <2> QED BY <2>1, <2>2 DEF RunsAreInOrder, SceneInv, OpenRunIsEmpty
<1> QED BY <1>1, SceneIsSound, PTL

(* A scan with decided candidates only is cleaned up by the request that   *)
(* decides the last one (reviewCandidate and its clean-up).                *)
THEOREM ReviewedScansGo == Spec => []ReviewedScanIsGone
<1>1. SceneInv => ReviewedScanIsGone
  BY DEF SceneInv
<1> QED BY <1>1, SceneIsSound, PTL

(* What one step may do to the status of candidates.                       *)
Final == \A c \in Candidates :
           /\ status[c] \in {"approved", "rejected"} => status'[c] \in {status[c], "gone"}
           /\ (status[c] \in Undecided /\ status'[c] = "gone") =>
                \E p \in Clients : /\ AtEnd(p)
                                   /\ \/ tx[p].op = "delete"
                                      \/ tx[p].op \in Decisions /\ tx[p].cand = c

(* A step that decides nothing takes no decision back.                     *)
LEMMA EditsAreNotFinal ==
  ASSUME \A d \in Candidates : \/ status'[d] = status[d]
                               \/ {status[d], status'[d]} \subseteq Undecided
                               \/ status[d] = "none"
  PROVE  Final
  BY DEF Final, Undecided

(* A review decides its own candidate, which it has locked, and cleans up  *)
(* only when no other is undecided.                                        *)
LEMMA DecisionIsFinal ==
  ASSUME SceneInv, NEW p \in Clients, CommitDecision(p) \/ CommitDelete(p) PROVE Final
<1>0. p \in Procs /\ AtEnd(p)
  BY DEF CommitDecision, CommitDelete, Procs
<1>1. CASE CommitDelete(p)
  <2>1. status' = [c \in Candidates |-> IF HasRow(c) THEN "gone" ELSE status[c]] /\ tx[p].op = "delete"
    BY <1>1 DEF CommitDelete, Cleanup
  <2> QED BY <1>0, <2>1 DEF Final
<1>2. CASE CommitDecision(p)
  <2> DEFINE c == tx[p].cand
  <2>1. /\ tx[p].op \in Decisions /\ c \in Candidates /\ Has(p, "count")
        /\ tx[p].op = "approve" => status[c] # "rejected"
        /\ tx[p].op = "reject" => status[c] # "approved"
    <3>1. tx[p].op \in Decisions
      BY <1>2 DEF CommitDecision
    <3>2. Has(p, "cand") /\ Has(p, "count")
      BY <1>0, <3>1, AtTheEnd DEF SceneInv
    <3> QED BY <1>0, <3>1, <3>2 DEF SceneInv, Sees, SeesCandidate
  <2>2. CASE tx[p].saw = "reviewed"
    <3>1. status' = [d \in Candidates |-> IF HasRow(d) THEN "gone" ELSE status[d]]
      BY <1>2, <2>2 DEF CommitDecision, Cleanup
    <3>2. \A d \in Candidates : status[d] \in Undecided => d = c
      BY <1>0, <2>1, <2>2 DEF SceneInv, Sees, SeesOthers, OthersUndecided
    <3> QED BY <1>0, <2>1, <3>1, <3>2 DEF Final
  <2>3. CASE tx[p].saw # "reviewed"
    <3>1. status' = [status EXCEPT ![c] = IF tx[p].op = "approve" THEN "approved" ELSE "rejected"]
      BY <1>2, <2>3 DEF CommitDecision
    <3>2. status \in [Candidates -> Undecided \cup {"none", "approved", "rejected", "gone"}]
      BY DEF SceneInv, TypeOK
    <3> HIDE DEF c
    <3>3. \A d \in Candidates : /\ d # c => status'[d] = status[d]
                                /\ status'[c] \in {"approved", "rejected"}
                                /\ status[c] \in {"approved", "rejected"} => status'[c] = status[c]
      BY <2>1, <3>1, <3>2 DEF Decisions
    <3> QED BY <3>3 DEF Final, Undecided
  <2> QED BY <2>2, <2>3
<1> QED BY <1>1, <1>2

(* The other steps that write candidates.                                  *)
LEMMA WritesAreNotFinal ==
  ASSUME SceneInv,
         \/ \E p \in Clients : CommitAdd(p) \/ CommitAppend(p) \/ CommitDeleteImage(p)
         \/ \E c \in Candidates : PatchCandidate(c)
         \/ CommitSave \/ EndAssist
  PROVE  Final
<1>0. status \in [Candidates -> Undecided \cup {"none", "approved", "rejected", "gone"}]
  BY DEF SceneInv, TypeOK
<1>1. ASSUME NEW p \in Clients, CommitAdd(p) PROVE Final
  <2>1. p \in Procs /\ status' = [status EXCEPT ![tx[p].cand] = "proposed"] /\ NewOnes(p)
        /\ tx[p].op = "add" /\ Running(p)
    BY <1>1 DEF CommitAdd, SceneInv, Sees, Procs, AtEnd
  <2>2. status[tx[p].cand] = "none" /\ tx[p].cand \in Candidates
    BY <2>1 DEF NewOnes
  <2>3. \A d \in Candidates : status'[d] = status[d] \/ status[d] = "none"
    BY <1>0, <2>1, <2>2
  <2> QED BY <2>3, EditsAreNotFinal
<1>2. ASSUME NEW c, Edited(c) PROVE Final
  <2>1. status' = [status EXCEPT ![c] = IF status[c] = "proposed" THEN "edited" ELSE status[c]]
    BY <1>2 DEF Edited
  <2>2. \A d \in Candidates : \/ status'[d] = status[d]
                              \/ {status[d], status'[d]} \subseteq Undecided
    BY <1>0, <2>1 DEF Undecided
  <2> QED BY <2>2, EditsAreNotFinal
<1>3. ASSUME NEW c, status[c] \in Undecided, status' = [status EXCEPT ![c] = "edited"] PROVE Final
  <2>1. \A d \in Candidates : \/ status'[d] = status[d]
                              \/ {status[d], status'[d]} \subseteq Undecided
    BY <1>0, <1>3 DEF Undecided
  <2> QED BY <2>1, EditsAreNotFinal
<1>4. CASE CommitSave
  <2>1. /\ AtEnd(Worker) /\ tx[Worker].op = "save" /\ Worker \in Procs
        /\ status' = [d \in Candidates |->
                        IF d = tx[Worker].cand THEN "proposed"
                        ELSE IF run[d] = job.run /\ HasRow(d) /\ status[d] # "approved" THEN "gone"
                        ELSE status[d]]
    BY <1>4 DEF CommitSave, Procs
  <2>2. Has(Worker, "key") /\ Running(Worker) /\ Exists /\ NewOnes(Worker)
    BY <2>1, AtTheEnd DEF SceneInv, Sees, SeesScan, Has
  <2>3. status[tx[Worker].cand] = "none"
    BY <2>1, <2>2 DEF NewOnes
  <2>4. job.run \in Runs /\ runs[job.run] = "processing"
    BY <2>1, <2>2 DEF SceneInv, Working
  <2>5. \A d \in Candidates : ~(run[d] = job.run /\ HasRow(d))
    BY <2>4, SceneAssumption DEF SceneInv, RowsOfScan, Runs
  <2>6. \A d \in Candidates : status'[d] = status[d] \/ status[d] = "none"
    BY <2>1, <2>3, <2>5
  <2> QED BY <2>6, EditsAreNotFinal
<1>5. CASE EndAssist
  <2>1. \/ status' = status
        \/ status[job.cand] \in Undecided /\ status' = [status EXCEPT ![job.cand] = "edited"]
    BY <1>5 DEF EndAssist, SaveAssist, MarkAssistFailed, DropAssist, AssistIsOpen
  <2>2. CASE status' = status
    BY <2>2, EditsAreNotFinal
  <2> QED BY <1>3, <2>1, <2>2
<1> QED BY <1>1, <1>2, <1>3, <1>4, <1>5 DEF CommitAppend, CommitDeleteImage, PatchCandidate

(* Every step leaves decisions alone.                                      *)
LEMMA StepIsFinal == ASSUME SceneInv, [Next]_vars PROVE [Final]_vars
<1>1. CASE \E p \in Clients : CommitDecision(p) \/ CommitDelete(p)
  BY <1>1, DecisionIsFinal
<1>2. CASE \/ \E p \in Clients : CommitAdd(p) \/ CommitAppend(p) \/ CommitDeleteImage(p)
           \/ \E c \in Candidates : PatchCandidate(c)
           \/ CommitSave \/ EndAssist
  BY <1>2, WritesAreNotFinal
<1>3. CASE status' = status
  BY <1>3, EditsAreNotFinal
<1>4. ASSUME NEW p \in Clients, Request(p) \/ Answer(p) \/ CommitQueue(p) PROVE status' = status
  BY <1>4 DEF Request, RequestQueue, RequestDelete, RequestAdd, RequestReview, RequestUpload,
              RequestImageDelete, Answer, CommitQueue, candVars
<1>5. ASSUME NEW p \in Procs, Advance(p) \/ Victim(p) \/ Abandon(p) \/ LoseStatement
      PROVE  status' = status
  BY <1>5 DEF Advance, Statement, Refuse, Victim, Abandon, LoseStatement, Abort, candVars
<1>6. ASSUME NEW c \in Candidates, QueueCandidateAIAssist(c) PROVE status' = status
  BY <1>6 DEF QueueCandidateAIAssist
<1>7. ASSUME CreateScan \/ Settle \/ Restart \/ UNCHANGED vars PROVE status' = status
  BY <1>7 DEF CreateScan, Settle, Restart, vars, candVars
<1>8. ASSUME \/ StartReset \/ CommitReset \/ StartRequeue \/ CommitRequeue \/ ClaimNextJob
             \/ CommitClaim \/ ClaimNextCandidateAssistJob \/ EndAnalysis \/ CommitFail
      PROVE  status' = status
  BY <1>8 DEF StartReset, CommitReset, StartRequeue, CommitRequeue, ClaimNextJob, CommitClaim,
              ClaimNextCandidateAssistJob, EndAnalysis, CommitFail, candVars
<1>9. Clients \subseteq Procs /\ Worker \in Procs
  BY DEF Procs
<1> QED BY <1>1, <1>2, <1>3, <1>4, <1>5, <1>6, <1>7, <1>8, <1>9 DEF Next, CommitClient, WorkerStep

(* A decision is never taken back and an undecided candidate goes only     *)
(* with DeleteScan or its own review (whatever the worker writes late).    *)
THEOREM ReviewsAreFinal == Spec => ReviewIsFinal
<1>1. SceneInv /\ [Next]_vars => [Final]_vars
  BY StepIsFinal
<1>2. ReviewIsFinal <=> [][Final]_vars
  BY DEF ReviewIsFinal, Final
<1> QED BY <1>1, <1>2, SceneIsSound, PTL DEF Spec
-----------------------------------------------------------------------------
(* The inductive reason why images keep their files: a file that a request *)
(* or the worker is about to make a row for belongs to no other            *)
(* transaction, and the files a response removes have lost their rows.     *)

\* A transaction that writes a new image, and has written its file.
Adds(t)    == t.op \in {"append", "save"} /\ ~t.done /\ t.image # NoImage
HasFile(t) == t.op = "append" \/ t.at # 0

ImagesApart ==
  \A p \in Procs : Adds(tx[p]) =>
    /\ tx[p].image \in Images /\ row[tx[p].image] = "none"
    /\ HasFile(tx[p]) => tx[p].image \in files
    /\ \A q \in Procs : /\ tx[p].image \notin tx[q].doomed
                        /\ q # p => tx[q].image # tx[p].image

DoomedIsGone == \A p \in Procs : \A i \in tx[p].doomed : row[i] = "none"

CropsOfScan ==
  /\ ~Exists => \A i \in Images : row[i] # "crop"
  /\ \A p \in Procs : tx[p].op = "append" /\ Has(p, "cand") => Exists

AskedFor ==
  /\ \A p \in Procs : tx[p].op \in {"append", "approve"} => tx[p].op \in scenario.requests
  /\ \A i \in Images : row[i] = "item" => "approve" \in scenario.requests

\* Nobody uploads, or uploads are not approved and their responses can read the scan.
Careful      == \/ "append" \notin scenario.requests
                \/ "approve" \notin scenario.requests /\ ~May("readback")
CarefulKeeps == Careful => \A i \in Images : row[i] # "none" => i \in files

FilesInv == ImagesApart /\ DoomedIsGone /\ CropsOfScan /\ AskedFor /\ CarefulKeeps

\* What a step of p may do to rows and files when its transaction becomes r.
OwnMove(p, r) ==
  /\ \A i \in Images : row[i] = "none" /\ row'[i] # "none" =>
       Adds(tx[p]) /\ i = tx[p].image /\ i \in files
  /\ \A i \in files : i \notin files' =>
       (i = tx[p].image \/ i \in tx[p].doomed) /\ (Careful => row'[i] = "none")

\* How r gets along with the other transactions.
GetsAlong(p, r) ==
  /\ Adds(r) => /\ r.image \in Images /\ row'[r.image] = "none" /\ r.image \notin r.doomed
                /\ HasFile(r) => r.image \in files'
                /\ \A q \in Procs \ {p} : tx[q].image # r.image /\ r.image \notin tx[q].doomed
  /\ \A q \in Procs \ {p} : Adds(tx[q]) => tx[q].image # r.image /\ tx[q].image \notin r.doomed
  /\ \A i \in r.doomed : row'[i] = "none"

ScanMove(r) ==
  /\ Exists => Exists'
  /\ \A i \in Images : row'[i] = "crop" => row[i] = "crop" \/ Exists'
  /\ r.op = "append" /\ ~r.done /\ r.at # 0 => Exists'

AskMove(r) ==
  /\ r.op \in {"append", "approve"} => r.op \in scenario.requests
  /\ \A i \in Images : row'[i] = "item" => row[i] = "item" \/ "approve" \in scenario.requests

(* A step of one transaction that respects the others keeps files and rows *)
(* together.                                                               *)
LEMMA TxMoves ==
  ASSUME TypeOK, ImagesApart, DoomedIsGone, CarefulKeeps, NEW p \in Procs, NEW r,
         tx' = [tx EXCEPT ![p] = r], scenario' = scenario, OwnMove(p, r), GetsAlong(p, r)
  PROVE  (ImagesApart /\ DoomedIsGone /\ CarefulKeeps)'
<1>1. tx'[p] = r /\ (\A q \in Procs \ {p} : tx'[q] = tx[q]) /\ Careful' = Careful
  BY DEF TypeOK, Careful, May
<1>2. \A q \in Procs : tx[q].doomed \subseteq Images
  BY DEF TypeOK
<1>3. ASSUME NEW q \in Procs \ {p}, Adds(tx[q])
      PROVE  /\ row'[tx[q].image] = "none" /\ (tx[q].image \in files => tx[q].image \in files')
             /\ tx[q].image \notin r.doomed /\ tx[q].image # r.image
  <2>1. /\ tx[q].image \in Images /\ row[tx[q].image] = "none"
        /\ tx[q].image \notin tx[p].doomed /\ tx[q].image # tx[p].image
    BY <1>3 DEF ImagesApart
  <2> QED BY <1>3, <2>1 DEF OwnMove, GetsAlong
<1>4. ImagesApart'
  <2> SUFFICES ASSUME NEW q \in Procs, Adds(tx'[q])
               PROVE  /\ tx'[q].image \in Images /\ row'[tx'[q].image] = "none"
                      /\ HasFile(tx'[q]) => tx'[q].image \in files'
                      /\ \A u \in Procs : /\ tx'[q].image \notin tx'[u].doomed
                                          /\ u # q => tx'[u].image # tx'[q].image
    BY DEF ImagesApart
  <2>1. CASE q = p
    BY <1>1, <2>1 DEF GetsAlong
  <2>2. CASE q # p
    BY <1>1, <1>3, <2>2 DEF ImagesApart
  <2> QED BY <2>1, <2>2
<1>5. DoomedIsGone'
  <2> SUFFICES ASSUME NEW q \in Procs, q # p, NEW i \in tx[q].doomed PROVE row'[i] = "none"
    BY <1>1 DEF DoomedIsGone, GetsAlong
  <2>1. i \in Images /\ row[i] = "none"
    BY <1>2 DEF DoomedIsGone
  <2>2. Adds(tx[p]) => i # tx[p].image
    BY DEF ImagesApart
  <2> QED BY <2>1, <2>2 DEF OwnMove
<1>6. CarefulKeeps'
  <2> SUFFICES ASSUME Careful, NEW i \in Images, row'[i] # "none" PROVE i \in files'
    BY <1>1 DEF CarefulKeeps
  <2>1. i \in files
    BY DEF CarefulKeeps, OwnMove
  <2> QED BY <2>1 DEF OwnMove
<1> QED BY <1>4, <1>5, <1>6

(* So does one that respects the scan and what clients asked.              *)
LEMMA FilesMove ==
  ASSUME TypeOK, FilesInv, NEW p \in Procs, NEW r,
         tx' = [tx EXCEPT ![p] = r], scenario' = scenario,
         OwnMove(p, r), GetsAlong(p, r), ScanMove(r), AskMove(r)
  PROVE  FilesInv'
<1>1. tx'[p] = r /\ \A q \in Procs \ {p} : tx'[q] = tx[q]
  BY DEF TypeOK
<1>2. (ImagesApart /\ DoomedIsGone /\ CarefulKeeps)'
  BY TxMoves DEF FilesInv
<1>3. AskedFor'
  BY <1>1 DEF AskedFor, AskMove, FilesInv
<1>4. CropsOfScan'
  <2>1. ASSUME NEW q \in Procs, tx'[q].op = "append", Has(q, "cand")' PROVE Exists'
    <3>1. CASE q = p
      <4>1. ~r.done /\ "cand" \in Did(p)'
        BY <1>1, <2>1, <3>1 DEF Has, Running
      <4>2. r.at # 0
        BY <1>1, <4>1 DEF Did
      <4> QED BY <1>1, <2>1, <3>1, <4>1, <4>2 DEF ScanMove
    <3>2. CASE q # p
      BY <1>1, <2>1, <3>2 DEF Has, Running, Did, ScanMove, FilesInv, CropsOfScan
    <3> QED BY <3>1, <3>2
  <2> QED BY <2>1 DEF CropsOfScan, ScanMove, FilesInv
<1> QED BY <1>2, <1>3, <1>4 DEF FilesInv

(* The idle record gets along with everyone.                               *)
LEMMA IdleGetsAlong ==
  ASSUME TypeOK, ImagesApart, NEW p \in Procs
  PROVE  GetsAlong(p, Idle) /\ Idle.op = "idle" /\ Idle.image = NoImage
  BY SceneAssumption DEF GetsAlong, Idle, Adds, ImagesApart

(* A step that leaves transactions, rows and files alone.                  *)
LEMMA FilesRest ==
  ASSUME FilesInv, UNCHANGED <<tx, row, files, scenario>>, Exists => Exists'
  PROVE  FilesInv'
<1>1. /\ \A p : Has(p, "cand")' = Has(p, "cand")
      /\ Careful' = Careful
  BY DEF Has, Running, Did, Careful, May
<1> QED BY <1>1 DEF FilesInv, ImagesApart, DoomedIsGone, CropsOfScan, AskedFor, CarefulKeeps

(* A transaction begins with an image of its own, or with one that has a   *)
(* row.                                                                    *)
LEMMA FilesBegin ==
  ASSUME TypeOK, FilesInv, NEW p \in Procs, NEW r, tx' = [tx EXCEPT ![p] = r],
         r.at = 0 \/ r.op \notin {"append", "save"}, r.doomed = {},
         UNCHANGED <<scan, row, scenario>>, files \subseteq files',
         \/ r.image = NoImage
         \/ r.op \in {"append", "save"} /\ r.image \in NewImages /\ (r.op = "append" => r.image \in files')
         \/ r.op = "delimg" /\ r.image \in Images /\ row[r.image] = "crop",
         r.op \in {"append", "approve"} => r.op \in scenario.requests
  PROVE  FilesInv'
<1>1. OwnMove(p, r) /\ ScanMove(r) /\ AskMove(r)
  BY DEF OwnMove, ScanMove, AskMove, Exists
<1>2. GetsAlong(p, r)
  <2>1. CASE r.image = NoImage
    BY <2>1, SceneAssumption DEF GetsAlong, Adds, FilesInv, ImagesApart
  <2>2. CASE r.op \in {"append", "save"} /\ r.image \in NewImages /\ (r.op = "append" => r.image \in files')
    BY <2>2 DEF GetsAlong, Adds, HasFile, NewImages, FilesInv, ImagesApart
  <2>3. CASE r.op = "delimg" /\ r.image \in Images /\ row[r.image] = "crop"
    BY <2>3 DEF GetsAlong, Adds, FilesInv, ImagesApart
  <2> QED BY <2>1, <2>2, <2>3
<1> QED BY <1>1, <1>2, FilesMove


(* A statement takes its image along, and writes the file of a crop before *)
(* anything counts on it.                                                  *)
LEMMA FilesStatement ==
  ASSUME SceneInv, FilesInv, NEW p \in Procs, Statement(p) PROVE FilesInv'
<1> DEFINE t == tx[p]
           r == [t EXCEPT !.at = @ + 1, !.saw = Saw(p)]
<1>1. /\ t \in Tx /\ Running(p) /\ ~AtEnd(p) /\ Finds(p) /\ TypeOK /\ InPlan
      /\ UNCHANGED <<scan, row, scenario>> /\ files' = files \cup WritesCrop(p)
  BY DEF Statement, SceneInv, TypeOK, Tx, sceneVars, limitVars
<1>2. /\ r.op = t.op /\ r.image = t.image /\ r.done = t.done /\ r.doomed = t.doomed
      /\ r.at = t.at + 1
  BY <1>1 DEF Tx
<1>3. tx' = [tx EXCEPT ![p] = r]
  BY DEF Statement
<1>4. t.op = "append" => Exists
  <2> SUFFICES ASSUME t.op = "append" PROVE Exists
    OBVIOUS
  <2>1. Plan[t.op] = <<"cand", "touch">> /\ t.at \in 0 .. 6
    BY <1>1, Plans DEF Tx
  <2>2. t.at = 0 \/ t.at = 1
    <3>1. t.at <= Len(Plan[t.op]) /\ t.at # Len(Plan[t.op])
      BY <1>1 DEF InPlan, AtEnd
    <3> QED BY <2>1, <3>1
  <2>3. CASE t.at = 0
    <3>1. NextLock(p) = "cand"
      BY <2>1, <2>3 DEF NextLock
    <3>2. HasRow(t.cand) /\ t.cand \in Candidates
      BY <1>1, <3>1 DEF Finds, SceneInv, Sees, SeesCandidate
    <3> QED BY <3>2 DEF SceneInv, RowsOfScan
  <2>4. CASE t.at = 1
    <3>1. "cand" \in Did(p)
      BY <2>1, <2>4 DEF Did
    <3> QED BY <1>1, <3>1 DEF Has, FilesInv, CropsOfScan
  <2> QED BY <2>2, <2>3, <2>4
<1>5. Adds(t) => t.image \in files'
  <2> SUFFICES ASSUME Adds(t), ~HasFile(t) PROVE t.image \in files'
    BY <1>1 DEF FilesInv, ImagesApart
  <2>1. t.op = "save" /\ t.at = 0 /\ t.image # NoImage
    BY DEF Adds, HasFile
  <2>2. NextLock(p) = "key"
    BY <2>1, Plans DEF NextLock
  <2> QED BY <1>1, <2>1, <2>2 DEF WritesCrop
<1> HIDE DEF r
<1>6. OwnMove(p, r)
  BY <1>1 DEF OwnMove
<1>7. GetsAlong(p, r)
  <2>1. Adds(r) <=> Adds(t)
    BY <1>2 DEF Adds
  <2>2. Adds(r) => /\ r.image \in Images /\ row'[r.image] = "none"
                   /\ r.image \notin t.doomed
                   /\ \A q \in Procs \ {p} : tx[q].image # r.image /\ r.image \notin tx[q].doomed
    BY <1>1, <1>2, <2>1 DEF FilesInv, ImagesApart
  <2>3. \A q \in Procs \ {p} : Adds(tx[q]) => tx[q].image # r.image /\ tx[q].image \notin r.doomed
    BY <1>2 DEF FilesInv, ImagesApart
  <2>4. \A i \in r.doomed : row'[i] = "none"
    BY <1>1, <1>2 DEF FilesInv, DoomedIsGone
  <2>5. Adds(r) => r.image \in files'
    BY <1>2, <1>5, <2>1
  <2> QED BY <1>2, <2>2, <2>3, <2>4, <2>5 DEF GetsAlong
<1>8. ScanMove(r) /\ AskMove(r)
  BY <1>1, <1>2, <1>4 DEF ScanMove, AskMove, Exists, FilesInv, AskedFor
<1> QED BY <1>1, <1>3, <1>6, <1>7, <1>8, FilesMove

(* A rollback takes no file of a row: the file of an upload has none yet.  *)
LEMMA FilesAbort ==
  ASSUME SceneInv, FilesInv, NEW p \in Procs, Running(p), Abort(p) PROVE FilesInv'
<1>1. /\ tx' = [tx EXCEPT ![p] = Idle] /\ UNCHANGED <<scan, row, scenario>> /\ TypeOK
      /\ files' = IF tx[p].op = "append" THEN files \ {tx[p].image} ELSE files
  BY DEF Abort, SceneInv, sceneVars, limitVars
<1>2. tx[p].op = "append" => Adds(tx[p]) \/ tx[p].image = NoImage
  BY DEF Running, Adds
<1>3. OwnMove(p, Idle)
  BY <1>1, <1>2, SceneAssumption DEF OwnMove, FilesInv, ImagesApart, TypeOK
<1>4. GetsAlong(p, Idle) /\ ScanMove(Idle) /\ AskMove(Idle)
  BY <1>1, IdleGetsAlong DEF ScanMove, AskMove, Exists, FilesInv
<1> QED BY <1>1, <1>3, <1>4, FilesMove

(* A response removes files of rows that are gone; one of an upload takes  *)
(* the image for one that was not added only when its row went with the    *)
(* scan.                                                                   *)
LEMMA FilesAnswer ==
  ASSUME SceneInv, FilesInv, NEW p \in Clients, Answer(p) PROVE FilesInv'
<1>1. /\ tx' = [tx EXCEPT ![p] = Idle] /\ UNCHANGED <<scan, row, scenario>> /\ TypeOK /\ p \in Procs
      /\ tx[p].done
  BY DEF Answer, SceneInv, sceneVars, limitVars, Procs
<1>2. PICK read \in CanRead :
        files' = files \ (CASE tx[p].op = "append" -> IF read THEN {} ELSE {tx[p].image}
                            [] tx[p].op = "delimg" -> IF read THEN tx[p].doomed ELSE {}
                            [] OTHER -> tx[p].doomed)
  BY DEF Answer
<1>3. OwnMove(p, Idle)
  <2>1. ASSUME NEW i \in files, i \notin files'
        PROVE  (i = tx[p].image \/ i \in tx[p].doomed) /\ (Careful => row'[i] = "none")
    <3>1. \/ i \in tx[p].doomed
          \/ i = tx[p].image /\ tx[p].op = "append" /\ ~read
      BY <1>2, <2>1
    <3>2. CASE i \in tx[p].doomed
      BY <1>1, <3>2 DEF FilesInv, DoomedIsGone
    <3>3. CASE i = tx[p].image /\ tx[p].op = "append" /\ ~read
      <4>1. Careful => ~May("readback") /\ "approve" \notin scenario.requests
        BY <1>1, <3>3 DEF Careful, FilesInv, AskedFor
      <4>2. Careful => ~Exists
        BY <1>2, <3>3, <4>1 DEF CanRead
      <4>3. i \in Images /\ row \in [Images -> {"none", "crop", "item"}]
        BY <1>1, <2>1 DEF TypeOK
      <4> QED BY <1>1, <3>3, <4>1, <4>2, <4>3 DEF FilesInv, AskedFor, CropsOfScan
    <3> QED BY <3>1, <3>2, <3>3
  <2> QED BY <1>1, <2>1 DEF OwnMove
<1>4. GetsAlong(p, Idle) /\ ScanMove(Idle) /\ AskMove(Idle)
  BY <1>1, IdleGetsAlong DEF ScanMove, AskMove, Exists, FilesInv
<1> QED BY <1>1, <1>3, <1>4, FilesMove

-----------------------------------------------------------------------------
(* Commits.                                                                *)

(* A commit that makes no row and leaves the scan.                         *)
LEMMA FilesCommit ==
  ASSUME TypeOK, FilesInv, NEW p \in Procs, Running(p), Committed(p, {}),
         UNCHANGED <<files, scenario>>, Exists => Exists',
         \A i \in Images : row'[i] = row[i] \/ (row[i] = "crop" /\ row'[i] = "item" /\ tx[p].op = "approve")
                           \/ (row[i] = "none" /\ row'[i] = "crop" /\ Exists' /\ Adds(tx[p])
                                 /\ i = tx[p].image /\ i \in files)
  PROVE  FilesInv'
<1> DEFINE r == IF p = Worker THEN Idle ELSE [tx[p] EXCEPT !.done = TRUE, !.doomed = {}]
<1>1. tx' = [tx EXCEPT ![p] = r] /\ tx[p] \in Tx
  BY DEF Committed, TypeOK, Tx
<1>2. /\ ~Adds(r) /\ r.doomed = {} /\ (r.op = "append" => r.done)
      /\ \/ r.op = "idle" /\ r.image = NoImage
         \/ r.op = tx[p].op /\ r.image = tx[p].image
  <2>1. CASE p = Worker
    <3>1. r = Idle
      BY <2>1
    <3> QED BY <3>1 DEF Idle, Adds
  <2>2. CASE p # Worker
    BY <1>1, <2>2 DEF Adds, Tx
  <2> QED BY <2>1, <2>2
<1> HIDE DEF r
<1>3. OwnMove(p, r)
  BY DEF OwnMove
<1>4. GetsAlong(p, r)
  BY <1>2, SceneAssumption DEF GetsAlong, FilesInv, ImagesApart
<1>5. tx[p].op \in {"append", "approve"} => tx[p].op \in scenario.requests
  BY DEF FilesInv, AskedFor
<1>6. ScanMove(r) /\ AskMove(r)
  BY <1>2, <1>5 DEF ScanMove, AskMove
<1> QED BY <1>1, <1>3, <1>4, <1>6, FilesMove

(* The clean-up takes the rows of crops, and then their files.             *)
LEMMA FilesCleanup ==
  ASSUME SceneInv, FilesInv, NEW p \in Clients, NEW newRow, Running(p), Has(p, "rows"),
         Cleanup(p, newRow), UNCHANGED <<files, scenario>>,
         \A i \in Images : newRow[i] = row[i]
                           \/ (row[i] = "crop" /\ newRow[i] = "item" /\ tx[p].op = "approve")
  PROVE  FilesInv'
<1> DEFINE D == CleanupFiles(newRow)
           r == [tx[p] EXCEPT !.done = TRUE, !.doomed = D]
<1>1. /\ tx' = [tx EXCEPT ![p] = r] /\ tx[p] \in Tx /\ tx \in [Procs -> Tx] /\ p \in Procs /\ TypeOK
      /\ row' = [i \in Images |-> IF newRow[i] = "crop" THEN "none" ELSE newRow[i]]
  BY SceneAssumption DEF Cleanup, Committed, SceneInv, TypeOK, Tx, Procs
<1>2. ~Adds(r) /\ r.doomed = D /\ r.done /\ r.op = tx[p].op /\ r.image = tx[p].image
  BY <1>1 DEF Adds, Tx
<1>3. \A i \in D : i \in Images /\ row'[i] = "none" /\ row[i] = "crop"
  BY <1>1 DEF CleanupFiles
<1> HIDE DEF r, D
<1>4. OwnMove(p, r)
  BY <1>1 DEF OwnMove
<1>5. GetsAlong(p, r)
  <2>1. ASSUME NEW q \in Procs \ {p}, Adds(tx[q])
        PROVE  tx[q].image # r.image /\ tx[q].image \notin D
    <3>1. q \in Procs /\ p \in Procs /\ p # q
      BY <1>1
    <3>2. tx[q].image # tx[p].image /\ row[tx[q].image] = "none"
      BY <2>1, <3>1 DEF FilesInv, ImagesApart
    <3> QED BY <1>2, <1>3, <3>2
  <2> QED BY <1>2, <1>3, <2>1 DEF GetsAlong
<1>6. (ImagesApart /\ DoomedIsGone /\ CarefulKeeps)'
  BY <1>1, <1>4, <1>5, TxMoves DEF FilesInv
<1>7. /\ tx'[p] = r /\ \A q \in Procs \ {p} : tx'[q] = tx[q]
      /\ tx[p].op = "approve" => "approve" \in scenario.requests
  BY <1>1 DEF FilesInv, AskedFor
<1>8. AskedFor'
  BY <1>1, <1>2, <1>7 DEF FilesInv, AskedFor
<1>9. CropsOfScan'
  <2>1. ASSUME NEW q \in Procs, tx'[q].op = "append", Has(q, "cand")' PROVE FALSE
    <3>1. q # p
      BY <1>2, <1>7, <2>1 DEF Has, Running
    <3>2. Has(q, "cand")
      BY <1>7, <2>1, <3>1 DEF Has, Running, Did
    <3>3. HoldsCand(p, tx[q].cand)
      BY DEF HoldsCand, Has
    <3> QED BY <1>1, <3>1, <3>2, <3>3 DEF SceneInv, Exclusion
  <2> QED BY <1>1, <2>1 DEF CropsOfScan
<1> QED BY <1>6, <1>8, <1>9 DEF FilesInv


(* Reviews and the deletion of the scan.                                   *)
LEMMA FilesDecision ==
  ASSUME SceneInv, FilesInv, NEW p \in Clients, CommitDecision(p) \/ CommitDelete(p)
  PROVE  FilesInv'
<1>1. /\ p \in Procs /\ AtEnd(p) /\ Running(p) /\ TypeOK /\ UNCHANGED <<files, scenario>>
      /\ tx[p].op \in Decisions \cup {"delete"}
  BY DEF CommitDecision, CommitDelete, Procs, AtEnd, SceneInv, limitVars
<1>2. Has(p, "rows")
  BY <1>1, AtTheEnd DEF SceneInv
<1>3. CASE CommitDelete(p)
  BY <1>1, <1>2, <1>3, FilesCleanup DEF CommitDelete
<1>4. CASE CommitDecision(p)
  <2> DEFINE c       == tx[p].cand
             approve == tx[p].op = "approve" /\ status[c] \in Undecided
             newRow  == [i \in Images |-> IF approve /\ i \in CropsOf(c) THEN "item" ELSE row[i]]
  <2>1. \A i \in Images : newRow[i] = row[i]
                          \/ (row[i] = "crop" /\ newRow[i] = "item" /\ tx[p].op = "approve")
    BY DEF CropsOf
  <2>2. \/ Cleanup(p, newRow)
        \/ Committed(p, {}) /\ row' = newRow /\ UNCHANGED sceneVars
    BY <1>4 DEF CommitDecision
  <2> HIDE DEF newRow
  <2>3. CASE Cleanup(p, newRow)
    BY <1>1, <1>2, <2>1, <2>3, FilesCleanup
  <2>4. CASE Committed(p, {}) /\ row' = newRow /\ UNCHANGED sceneVars
    <3>1. Exists => Exists'
      BY <2>4 DEF Exists, sceneVars
    <3> QED BY <1>1, <2>1, <2>4, <3>1, FilesCommit
  <2> QED BY <2>2, <2>3, <2>4
<1> QED BY <1>3, <1>4

(* A new crop gets its row when its file is there and the scan is locked.  *)
LEMMA FilesRow ==
  ASSUME SceneInv, FilesInv,
         CommitSave \/ \E p \in Clients : CommitAppend(p)
  PROVE  FilesInv'
<1>0. /\ row \in [Images -> {"none", "crop", "item"}] /\ TypeOK /\ InPlan
      /\ Worker \in Procs /\ Clients \subseteq Procs
  BY DEF SceneInv, TypeOK, Procs
<1>1. ASSUME NEW p \in Procs, AtEnd(p), tx[p].op = "append" \/ (tx[p].op = "save" /\ tx[p].at # 0),
             tx[p].image # NoImage
      PROVE  Running(p) /\ Adds(tx[p]) /\ tx[p].image \in files /\ row[tx[p].image] = "none"
             /\ tx[p].image \in Images
  <2>1. Running(p) /\ Adds(tx[p]) /\ HasFile(tx[p])
    BY <1>1 DEF AtEnd, Running, Adds, HasFile
  <2> QED BY <2>1 DEF FilesInv, ImagesApart
<1>2. ASSUME NEW p \in Clients, CommitAppend(p) PROVE FilesInv'
  <2>1. /\ p \in Procs /\ AtEnd(p) /\ tx[p].op = "append" /\ Committed(p, {})
        /\ row' = [row EXCEPT ![tx[p].image] = "crop"] /\ UNCHANGED <<scan, files, scenario>>
        /\ tx[p].image \in Images
    BY <1>0, <1>2 DEF CommitAppend, sceneVars, limitVars, SceneInv, Sees, NewOnes
  <2>2. Exists /\ Exists'
    <3>1. Has(p, "cand")
      BY <1>0, <2>1, AtTheEnd
    <3> QED BY <2>1, <3>1 DEF FilesInv, CropsOfScan, Exists
  <2>3. tx[p].image # NoImage
    BY <2>1, SceneAssumption
  <2>4. Running(p) /\ Adds(tx[p]) /\ tx[p].image \in files /\ row[tx[p].image] = "none"
    BY <1>1, <2>1, <2>3
  <2>5. \A i \in Images : row'[i] = row[i]
                          \/ (row[i] = "none" /\ row'[i] = "crop" /\ i = tx[p].image)
    BY <1>0, <2>1, <2>4
  <2> QED BY <1>0, <2>1, <2>2, <2>4, <2>5, FilesCommit
<1>3. CASE CommitSave
  <2>1. /\ AtEnd(Worker) /\ tx[Worker].op = "save" /\ Committed(Worker, {})
        /\ row' = [j \in Images |-> IF j = tx[Worker].image THEN "crop" ELSE row[j]]
        /\ scan' = "succeeded" /\ UNCHANGED <<files, scenario>>
    BY <1>3 DEF CommitSave, limitVars
  <2>2. Exists'
    BY <2>1 DEF Exists
  <2>3. Running(Worker) /\ tx[Worker].at # 0
    <3>1. tx[Worker].at = Len(Plan["save"])
      BY <2>1 DEF AtEnd
    <3> QED BY <2>1, <3>1, Plans DEF AtEnd
  <2>4. \A i \in Images : i = tx[Worker].image =>
          Adds(tx[Worker]) /\ i \in files /\ row[i] = "none"
    BY <1>0, <1>1, <2>1, <2>3, SceneAssumption
  <2>5. \A i \in Images : row'[i] = row[i]
                          \/ (row[i] = "none" /\ row'[i] = "crop" /\ i = tx[Worker].image)
    BY <2>1, <2>4
  <2> QED BY <1>0, <2>1, <2>2, <2>3, <2>4, <2>5, FilesCommit
<1> QED BY <1>2, <1>3

(* The deletion of a crop takes its row, and then its file.                *)
LEMMA FilesDeleteImage ==
  ASSUME SceneInv, FilesInv, NEW p \in Clients, CommitDeleteImage(p) PROVE FilesInv'
<1> DEFINE r == [tx[p] EXCEPT !.done = TRUE, !.doomed = {tx[p].image}]
<1>1. /\ tx' = [tx EXCEPT ![p] = r] /\ tx[p] \in Tx /\ p \in Procs /\ TypeOK
      /\ row' = [row EXCEPT ![tx[p].image] = "none"] /\ UNCHANGED <<scan, files, scenario>>
      /\ tx[p].op = "delimg" /\ row \in [Images -> {"none", "crop", "item"}]
  BY SceneAssumption
     DEF CommitDeleteImage, Committed, SceneInv, TypeOK, Tx, Procs, sceneVars, limitVars
<1>2. ~Adds(r) /\ r.doomed = {tx[p].image} /\ r.op = "delimg" /\ r.image = tx[p].image
  BY <1>1 DEF Adds, Tx
<1> HIDE DEF r
<1>3. tx[p].image \in Images /\ \A i \in Images : row'[i] = row[i] \/ row'[i] = "none"
  BY <1>1 DEF SceneInv, Sees, NewOnes
<1>4. row'[tx[p].image] = "none"
  BY <1>1, <1>3
<1>5. OwnMove(p, r)
  BY <1>1, <1>3 DEF OwnMove
<1>6. GetsAlong(p, r)
  <2>1. \A q \in Procs \ {p} : Adds(tx[q]) => tx[q].image # tx[p].image
    BY <1>1 DEF FilesInv, ImagesApart
  <2> QED BY <1>2, <1>4, <2>1 DEF GetsAlong
<1>7. ScanMove(r) /\ AskMove(r)
  BY <1>1, <1>2, <1>3 DEF ScanMove, AskMove, Exists
<1> QED BY <1>1, <1>5, <1>6, <1>7, FilesMove

(* Commits of runs, assists and candidates leave images alone.             *)
LEMMA FilesOtherCommits ==
  ASSUME SceneInv, FilesInv,
         \/ CommitReset \/ CommitRequeue \/ CommitClaim \/ CommitFail
         \/ \E p \in Clients : CommitAdd(p) \/ CommitQueue(p)
  PROVE  FilesInv'
<1>0. Worker \in Procs /\ Clients \subseteq Procs /\ TypeOK /\ runs \in [Runs -> {"none", "succeeded", "failed"} \cup Open]
  BY DEF Procs, SceneInv, TypeOK
<1>1. ASSUME NEW p \in Clients, CommitAdd(p) \/ CommitQueue(p) PROVE FilesInv'
  <2>1. /\ AtEnd(p) /\ Committed(p, {}) /\ UNCHANGED <<row, files, scenario>> /\ p \in Procs
    BY <1>0, <1>1 DEF CommitAdd, CommitQueue, imageVars, limitVars
  <2>2. Exists'
    <3>1. CASE CommitAdd(p)
      <4>1. Has(p, "key") /\ scan' = scan
        BY <2>1, <3>1, AtTheEnd DEF CommitAdd, SceneInv, sceneVars
      <4> QED BY <2>1, <4>1 DEF SceneInv, Sees, SeesScan, Exists
    <3>2. CASE CommitQueue(p)
      <4>1. Has(p, "run") /\ tx[p].op = "queue"
        BY <2>1, <3>2, AtTheEnd DEF CommitQueue, SceneInv
      <4>2. tx[p].saw = "new" \/ Latest > 0
        BY <2>1, <4>1 DEF SceneInv, Sees, SeesRuns
      <4>3. CASE tx[p].saw = "new"
        BY <3>2, <4>3 DEF CommitQueue, Exists
      <4>4. CASE tx[p].saw # "new"
        <5>1. scan' = runs[Latest] /\ Latest \in Runs /\ runs[Latest] # "none"
          BY <3>2, <4>2, <4>4, SceneAssumption DEF CommitQueue, SceneInv, InOrder, Runs
        <5> QED BY <1>0, <5>1 DEF Exists, Open
      <4> QED BY <4>3, <4>4
    <3> QED BY <1>1, <3>1, <3>2
  <2>3. Running(p)
    BY <2>1 DEF AtEnd
  <2> QED BY <1>0, <2>1, <2>2, <2>3, FilesCommit
<1>2. CASE CommitReset \/ CommitRequeue \/ CommitClaim \/ CommitFail
  <2>1. /\ Running(Worker) /\ Committed(Worker, {}) /\ UNCHANGED <<row, files, scenario>>
        /\ scan' = scan \/ scan' \in {"queued", "processing", "failed"}
    BY <1>2 DEF CommitReset, CommitRequeue, CommitClaim, CommitFail, AtEnd, imageVars, limitVars,
                sceneVars
  <2>2. Exists => Exists'
    BY <2>1 DEF Exists
  <2> QED BY <1>0, <2>1, <2>2, FilesCommit
<1> QED BY <1>1, <1>2

-----------------------------------------------------------------------------
(* Beginnings, and what leaves files alone.                                *)

(* A request takes an image nobody has, or one with a row.                 *)
LEMMA FilesRequest ==
  ASSUME SceneInv, FilesInv, NEW p \in Clients, Request(p) PROVE FilesInv'
<1>0. p \in Procs /\ TypeOK
  BY DEF Procs, SceneInv
<1>1. ASSUME NEW op, NEW c, NEW i, Ask(p, op, c, i), UNCHANGED <<scan, row>>, files \subseteq files',
             \/ i = NoImage
             \/ op = "append" /\ i \in NewImages /\ i \in files'
             \/ op = "delimg" /\ i \in Images /\ row[i] = "crop"
      PROVE  FilesInv'
  <2> DEFINE r == [Idle EXCEPT !.op = op, !.cand = c, !.image = i]
  <2>1. tx' = [tx EXCEPT ![p] = r] /\ scenario' = scenario /\ op \in scenario.requests
    BY <1>1 DEF Ask, Begin, Asked
  <2>2. r.op = op /\ r.image = i /\ r.at = 0 /\ r.doomed = {}
    BY DEF Idle
  <2> HIDE DEF r
  <2> QED BY <1>0, <1>1, <2>1, <2>2, FilesBegin
<1>2. CASE RequestQueue(p) \/ RequestDelete(p) \/ RequestAdd(p) \/ RequestReview(p)
  <2>1. /\ UNCHANGED <<scan, row, files>>
        /\ \E op, c : Ask(p, op, c, NoImage)
    BY <1>2 DEF RequestQueue, RequestDelete, RequestAdd, RequestReview, sceneVars, imageVars
  <2> QED BY <1>1, <2>1
<1>3. CASE RequestUpload(p)
  <2>1. PICK c \in Candidates : \E i \in One(NewImages) :
          HasRow(c) /\ Ask(p, "append", c, i) /\ files' = files \cup {i}
    BY <1>3 DEF RequestUpload
  <2>2. PICK i \in One(NewImages) : Ask(p, "append", c, i) /\ files' = files \cup {i}
    BY <2>1
  <2>3. UNCHANGED <<scan, row>> /\ i \in NewImages
    BY <1>3, <2>2 DEF RequestUpload, sceneVars, One
  <2> QED BY <1>1, <2>2, <2>3
<1>4. CASE RequestImageDelete(p)
  <2>1. PICK c \in Candidates : \E i \in CropsOf(c) : HasRow(c) /\ Ask(p, "delimg", c, i)
    BY <1>4 DEF RequestImageDelete
  <2>2. PICK i \in CropsOf(c) : Ask(p, "delimg", c, i)
    BY <2>1
  <2>3. UNCHANGED <<scan, row, files>> /\ i \in Images /\ row[i] = "crop"
    BY <1>4, <2>2 DEF RequestImageDelete, sceneVars, imageVars, CropsOf
  <2> QED BY <1>1, <2>2, <2>3
<1> QED BY <1>2, <1>3, <1>4 DEF Request

(* The worker reserves an image for the crop of an answer.                 *)
LEMMA FilesWorkerBegins ==
  ASSUME SceneInv, FilesInv, StartReset \/ StartRequeue \/ ClaimNextJob \/ EndAnalysis
  PROVE  FilesInv'
<1>0. Worker \in Procs /\ TypeOK /\ UNCHANGED <<scan, row, files, scenario>>
  BY DEF Procs, SceneInv, StartReset, StartRequeue, ClaimNextJob, EndAnalysis, sceneVars, imageVars,
         limitVars
<1>1. ASSUME NEW op, NEW c, NEW i, Begin(Worker, op, c, i), op \notin {"append", "approve"},
             i = NoImage \/ (op = "save" /\ i \in NewImages)
      PROVE  FilesInv'
  <2> DEFINE r == [Idle EXCEPT !.op = op, !.cand = c, !.image = i]
  <2>1. tx' = [tx EXCEPT ![Worker] = r]
    BY <1>1 DEF Begin
  <2>2. r.op = op /\ r.image = i /\ r.at = 0 /\ r.doomed = {}
    BY DEF Idle
  <2> HIDE DEF r
  <2> QED BY <1>0, <1>1, <2>1, <2>2, FilesBegin
<1>2. CASE tx' = tx
  BY <1>0, <1>2, FilesRest DEF Exists
<1>3. CASE StartReset \/ StartRequeue
  <2>1. \/ tx' = tx \/ Begin(Worker, "reset", Nobody, NoImage) \/ Begin(Worker, "requeue", Nobody, NoImage)
    BY <1>3 DEF StartReset, StartRequeue
  <2> QED BY <1>1, <1>2, <2>1
<1>4. CASE ClaimNextJob
  <2> DEFINE r == [Idle EXCEPT !.op = "claim", !.at = 1]
  <2>1. tx' = [tx EXCEPT ![Worker] = r]
    BY <1>4 DEF ClaimNextJob
  <2>2. r.op = "claim" /\ r.image = NoImage /\ r.doomed = {}
    BY DEF Idle
  <2> HIDE DEF r
  <2> QED BY <1>0, <2>1, <2>2, FilesBegin
<1>5. CASE EndAnalysis
  <2>1. CASE Begin(Worker, "fail", Nobody, NoImage)
    BY <1>1, <2>1
  <2>2. CASE \E c \in One(NewCandidates), i \in One(NewImages) \cup {NoImage} :
               Begin(Worker, "save", c, i)
    BY <1>1, <2>2 DEF One
  <2> QED BY <1>5, <2>1, <2>2 DEF EndAnalysis
<1> QED BY <1>3, <1>4, <1>5

(* A restart forgets transactions and keeps files.                         *)
LEMMA FilesRestart == ASSUME FilesInv, Restart PROVE FilesInv'
<1>1. /\ \A p \in Procs : tx'[p] = Idle
      /\ UNCHANGED <<scan, row, files, scenario>>
  BY DEF Restart, sceneVars, imageVars
<1>2. Idle.op = "idle" /\ Idle.doomed = {}
  BY DEF Idle
<1>3. ImagesApart' /\ DoomedIsGone'
  BY <1>1, <1>2 DEF ImagesApart, DoomedIsGone, Adds
<1>4. CropsOfScan' /\ AskedFor' /\ CarefulKeeps'
  BY <1>1, <1>2 DEF FilesInv, CropsOfScan, AskedFor, CarefulKeeps, Careful, May, Exists
<1> QED BY <1>3, <1>4 DEF FilesInv

(* Every step keeps files and rows together.                               *)
LEMMA FilesStep == ASSUME SceneInv, FilesInv, [Next]_vars PROVE FilesInv'
<1>1. ASSUME UNCHANGED <<tx, row, files, scenario>>,
             scan' = scan \/ scan' \in {"created", "queued", "processing"}
      PROVE  FilesInv'
  BY <1>1, FilesRest DEF Exists
<1>2. CASE CreateScan \/ Settle \/ UNCHANGED vars
  BY <1>1, <1>2 DEF CreateScan, Settle, vars, sceneVars, imageVars, limitVars
<1>3. ASSUME NEW c \in Candidates, PatchCandidate(c) \/ QueueCandidateAIAssist(c) PROVE FilesInv'
  BY <1>1, <1>3 DEF PatchCandidate, QueueCandidateAIAssist, Asked, sceneVars, imageVars
<1>4. CASE ClaimNextCandidateAssistJob \/ EndAssist
  BY <1>1, <1>4 DEF ClaimNextCandidateAssistJob, EndAssist, sceneVars, imageVars, limitVars
<1>5. ASSUME NEW p \in Clients, Request(p) \/ Answer(p) \/ CommitClient(p) PROVE FilesInv'
  BY <1>5, FilesRequest, FilesAnswer, FilesDecision, FilesOtherCommits, FilesRow, FilesDeleteImage
     DEF CommitClient
<1>6. ASSUME NEW p \in Procs, Advance(p) \/ Victim(p) \/ Abandon(p) \/ LoseStatement PROVE FilesInv'
  <2>1. \/ Statement(p)
        \/ Running(p) /\ Abort(p)
        \/ Running(Worker) /\ Abort(Worker)
    <3>1. CASE Victim(p)
      <4>1. Running(p)
        <5>1. WaitsFor(p) # {}
          BY <3>1 DEF Victim, Deadlocked
        <5> QED BY <5>1 DEF WaitsFor
      <4> QED BY <3>1, <4>1 DEF Victim
    <3> QED BY <1>6, <3>1 DEF Advance, Refuse, Abandon, LoseStatement
  <2>2. Worker \in Procs
    BY DEF Procs
  <2> QED BY <2>1, <2>2, FilesStatement, FilesAbort
<1>7. CASE WorkerStep
  BY <1>4, <1>7, FilesWorkerBegins, FilesOtherCommits, FilesRow DEF WorkerStep
<1>8. CASE Restart
  BY <1>8, FilesRestart
<1>9. Clients \subseteq Procs /\ Worker \in Procs
  BY DEF Procs
<1> QED BY <1>2, <1>3, <1>5, <1>6, <1>7, <1>8, <1>9 DEF Next

(* The invariant holds in every reachable state.                           *)
LEMMA FilesStay == Spec => []FilesInv
<1>1. Init => FilesInv
  <2> SUFFICES ASSUME Init PROVE FilesInv
    OBVIOUS
  <2>1. Idle.op = "idle" /\ Idle.doomed = {}
    BY DEF Idle
  <2> QED BY <2>1 DEF Init, FilesInv, ImagesApart, DoomedIsGone, CropsOfScan, AskedFor, CarefulKeeps,
                      Adds
<1>2. SceneInv /\ FilesInv /\ [Next]_vars => FilesInv'
  BY FilesStep
<1> QED BY <1>1, <1>2, SceneIsSound, PTL DEF Spec

(* An image of a candidate or of an item keeps its file through the        *)
(* clean-up of its scan, whatever fails and whoever deletes: the files a   *)
(* response removes are those of rows that are gone.                       *)
THEOREM ImagesStay == Spec => []ImagesKeepFiles
<1>1. FilesInv => ImagesKeepFiles
  BY DEF FilesInv, CarefulKeeps, Careful, ImagesKeepFiles
<1> QED BY <1>1, FilesStay, PTL

(* Without uploads to candidates, or without approvals, no item loses the  *)
(* file of an image, whatever else runs or fails.  What breaks it is an    *)
(* upload whose candidate is approved before its response reads the scan   *)
(* (AppendCandidateImages, then GetScan, in UploadCandidateImages).        *)
THEOREM OnlyUploadsTakeItemImages ==
  Spec => [](~({"append", "approve"} \subseteq scenario.requests) => ItemKeepsImages)
<1>1. FilesInv => (~({"append", "approve"} \subseteq scenario.requests) => ItemKeepsImages)
  BY DEF FilesInv, CarefulKeeps, Careful, AskedFor, ItemKeepsImages
<1> QED BY <1>1, FilesStay, PTL
=============================================================================
