------------------------- MODULE ExclusiveOperation -------------------------
(***************************************************************************)
(* What OperationLock promises to its callers: at any time at most one    *)
(* backup, restore, validation, deletion, media or startup-recovery       *)
(* operation runs, whichever process (API or recovery CLI) started it.    *)
(***************************************************************************)
CONSTANTS Callers,      \* the goroutines that may ask for the lock
          NoCaller      \* no operation runs

VARIABLE owner          \* the caller whose operation runs

AbsInit == owner = NoCaller

Begin(c) == owner = NoCaller /\ owner' = c

\* The operation returns, or its process dies.
End(c) == owner = c /\ owner' = NoCaller

AbsNext == \E c \in Callers : Begin(c) \/ End(c)

AbsSpec == AbsInit /\ [][AbsNext]_owner
=============================================================================
