--------------------------- MODULE MCIntakePipeline ---------------------------
(* Two uploaded images and one added in review. *)
EXTENDS IntakePipeline

CONSTANTS i1, i2, x1

MCUploads == {i1, i2}
MCExtras  == {x1}

Scenario(requests, faults, most) ==
  [requests |-> requests, faults |-> faults, stops |-> most]

\* A stop and lost statements, twice; false COMMIT errors; additions; read-backs.
MCScenarios ==
  {Scenario({"delete", "discard", "approve"}, {"db", "move"}, 1),
   Scenario({"append", "discard"}, {"db"}, 1),
   Scenario({"delete", "discard", "approve"}, {"move", "commit"}, 0),
   Scenario({"append", "discard", "approve"}, {"move"}, 0),
   Scenario({"append", "delete"}, {"readback"}, 0)}

MCOneStop == {Scenario({}, {}, 1)}
=============================================================================
