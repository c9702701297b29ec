---------------------------- MODULE MCReviewAssist ----------------------------
(* Two groups that compete for the worker. *)
EXTENDS ReviewAssist

CONSTANTS g1, g2

MCGroups    == {g1, g2}
MCFaultSets == {{}, {"db"}}
=============================================================================
