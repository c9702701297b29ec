----------------------------- MODULE MCInventory -----------------------------
(* Instances of Inventory and Listings for TLC.                            *)
EXTENDS Listings

CONSTANTS p1, p2, x1, x2, g1, g2, k1, k2, shed, box, main, other, d1, d2

MCClients    == {p1, p2}
MCItems      == {x1}
MCImages     == {g1, g2}
MCContainers == {k1, k2}
MCDrafts     == {d1, d2}
MCPlaces     == {shed, box, main, other}
MCKindOf     == [l \in MCPlaces |-> CASE l = shed -> "location" [] l = box -> "type"
                                      [] OTHER -> "group"]

S(requests, asks, alone, readback) ==
  [requests |-> requests, asks |-> asks, alone |-> alone, readback |-> readback]

MCScenarios ==
  { S({"move", "dispose"}, 3, "none", FALSE),
    S({"append", "delimg", "delitem"}, 3, "none", FALSE),
    S({"append", "delcont"}, 3, "deletions", FALSE),
    S({"move", "dispose", "append", "delcont"}, 3, "all", FALSE),
    S({"append", "delimg"}, 2, "none", TRUE),
    S({"regroup", "delplace", "archive"}, 2, "none", FALSE),
    S({"assign", "delplace", "archive"}, 3, "none", FALSE),
    S({"draft", "export", "delitem"}, 3, "none", FALSE),
    S({"draft", "editdraft", "deldraft", "sell"}, 3, "none", FALSE) }

\* No group but the default one, which is not deleted.
MCUsedPlaces == {shed, box, main}
MCUsedKindOf == [l \in MCUsedPlaces |-> MCKindOf[l]]

MCUsed == {S({"assign", "delplace"}, 2, "none", FALSE)}
=============================================================================
