--------------------------- MODULE MCOperationLock ---------------------------
(* Two goroutines of the API and one of the recovery CLI. *)
EXTENDS OperationLock

CONSTANTS api, cli, a1, a2, k1

MCProcs   == {api, cli}
MCCallers == {a1, a2, k1}
MCProcOf  == [c \in MCCallers |-> IF c = k1 THEN cli ELSE api]
=============================================================================
