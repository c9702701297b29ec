---------------------------- MODULE MCWholeScene ----------------------------
(* Instances of WholeScene for TLC.                                        *)
EXTENDS WholeScene

CONSTANTS p1, p2, c1, c2, i1, i2

MCClients    == {p1, p2}
MCCandidates == {c1, c2}
MCImages     == {i1, i2}

S(requests, faults, asks, limit) ==
  [requests |-> requests, faults |-> faults, asks |-> asks, restarts |-> limit]

MCScenarios ==
  { S({"add", "approve", "reject"}, {}, 4, 0),
    S({"queue", "add", "reject"}, {}, 3, 0),
    S({"queue", "approve"}, {}, 2, 2),
    S({"queue", "append", "delimg", "reject"}, {}, 3, 0),
    S({"queue", "append", "approve"}, {"readback"}, 3, 0),
    S({"queue", "approve", "delete"}, {"db", "victim"}, 3, 0),
    S({"add", "assist", "approve"}, {}, 4, 0),
    S({"add", "assist", "patch", "approve"}, {}, 3, 1) }

MCAppend == {S({"queue", "append", "approve"}, {}, 3, 0)}
=============================================================================
