-------------------------- MODULE MCRestoreService --------------------------
(* One request and one worker scan share the API with the restores. *)
EXTENDS RestoreService

CONSTANTS http, scan

MCWriters   == {http, scan}

Scenario(faults, deaths, jobIds) ==
  [faults |-> faults, deaths |-> deaths, jobs |-> jobIds]

\* Failing checks and a death; everything a swap can do; a full disk.
MCScenarios == {Scenario({"verify"}, 1, 4),
                Scenario({"verify", "rollback"}, 0, 4),
                Scenario({"verify", "rollback", "commit"}, 0, 4),
                Scenario({"verify", "persist"}, 0, 2)}

MCOneDeath  == {Scenario({}, 1, 2)}
MCTwoDeaths == {Scenario({}, 2, 2)}

\* In place of MCTwoDeaths: an unchecked database after one death and an unwritten phase.
MCFullDisk  == {Scenario({"persist"}, 1, 2)}
=============================================================================
