--------------------------- MODULE MaintenanceGate ---------------------------
(***************************************************************************)
(* MaintenanceGate of api/internal/backup/control.go.  Mutating HTTP      *)
(* requests and the scans of the background workers are writers: each     *)
(* calls BeginWrite and, when admitted, the function it returned.  A      *)
(* database restore closes the gate with EnterAndWait, which captures the *)
(* channel that the last active writer closes, and reopens it with Exit.  *)
(* Channels are numbered in the order in which BeginWrite makes them.     *)
(*                                                                         *)
(* OperationLock admits one restore at a time, so one drainer is enough.  *)
(***************************************************************************)
EXTENDS Naturals, FiniteSets

CONSTANTS Writers,        \* requests and worker scans that may change data
          MaxChannels     \* bound: channels made during one process lifetime

ASSUME GateAssumption == IsFiniteSet(Writers) /\ MaxChannels \in Nat

VARIABLES maintenance,    \* g.maintenance
          activeWrites,   \* g.activeWrites
          zero,           \* the channel in g.zero
          closedChans,    \* the channels that are closed
          wpc,            \* whether each writer is between BeginWrite and done
          dpc,            \* the goroutine that calls EnterAndWait
          captured        \* the channel it waits on

gateVars == <<maintenance, activeWrites, zero, closedChans, wpc, dpc, captured>>

Active == {w \in Writers : wpc[w] = "active"}

GateTypeOK ==
  /\ maintenance \in BOOLEAN
  /\ activeWrites \in Nat
  /\ zero \in 0 .. MaxChannels
  /\ closedChans \in SUBSET (0 .. MaxChannels)
  /\ wpc \in [Writers -> {"idle", "active"}]
  /\ dpc \in {"out", "waiting", "inside", "cancelled"}
  /\ captured \in 0 .. MaxChannels

\* NewMaintenanceGate: the first channel is closed from the start.
GateInit ==
  /\ maintenance = FALSE /\ activeWrites = 0
  /\ zero = 0 /\ closedChans = {0}
  /\ wpc = [w \in Writers |-> "idle"]
  /\ dpc = "out" /\ captured = 0

\* A mistake to catch: the flag is not looked at.
BeginWriteAnyway(w) ==
  /\ wpc[w] = "idle" /\ zero < MaxChannels
  /\ zero' = IF activeWrites = 0 THEN zero + 1 ELSE zero
  /\ activeWrites' = activeWrites + 1
  /\ wpc' = [wpc EXCEPT ![w] = "active"]
  /\ UNCHANGED <<maintenance, closedChans, dpc, captured>>

\* An admitted writer; the first one makes a fresh channel.
BeginWrite(w) ==
  /\ wpc[w] = "idle" /\ ~maintenance
  /\ \/ activeWrites = 0 /\ zero < MaxChannels /\ zero' = zero + 1
     \/ activeWrites > 0 /\ UNCHANGED zero
  /\ activeWrites' = activeWrites + 1
  /\ wpc' = [wpc EXCEPT ![w] = "active"]
  /\ UNCHANGED <<maintenance, closedChans, dpc, captured>>

\* Mistakes to catch: the channel is closed by every writer, or the returned
\* function counts down twice.
EndWriteCloses(w, closing, by) ==
  /\ wpc[w] = "active"
  /\ activeWrites' = activeWrites - by
  /\ closedChans' = closedChans \cup closing
  /\ wpc' = [wpc EXCEPT ![w] = "idle"]
  /\ UNCHANGED <<maintenance, zero, dpc, captured>>

EndWriteEager(w)  == EndWriteCloses(w, {zero}, 1)
EndWriteTwice(w)  == EndWriteCloses(w, IF activeWrites = 1 THEN {zero} ELSE {}, 2)

\* The function BeginWrite returned; the last one closes the channel.
EndWrite(w) ==
  /\ wpc[w] = "active"
  /\ activeWrites' = activeWrites - 1
  /\ closedChans' = IF activeWrites = 1 THEN closedChans \cup {zero} ELSE closedChans
  /\ wpc' = [wpc EXCEPT ![w] = "idle"]
  /\ UNCHANGED <<maintenance, zero, dpc, captured>>

\* EnterAndWait up to its select.
EnterMaintenance ==
  /\ dpc = "out"
  /\ maintenance' = TRUE /\ captured' = zero
  /\ dpc' = "waiting"
  /\ UNCHANGED <<activeWrites, zero, closedChans, wpc>>

\* A mistake to catch: the flag is set and nobody is waited for.
DrainedAtOnce ==
  /\ dpc = "waiting" /\ dpc' = "inside"
  /\ UNCHANGED <<maintenance, activeWrites, zero, closedChans, wpc, captured>>

\* The select sees the captured channel closed.
Drained ==
  /\ dpc = "waiting" /\ captured \in closedChans
  /\ dpc' = "inside"
  /\ UNCHANGED <<maintenance, activeWrites, zero, closedChans, wpc, captured>>

\* The select sees ctx.Done: the caller gives up and never calls Exit.
CancelWait ==
  /\ dpc = "waiting"
  /\ dpc' = "cancelled"
  /\ UNCHANGED <<maintenance, activeWrites, zero, closedChans, wpc, captured>>

ExitMaintenance ==
  /\ dpc = "inside"
  /\ maintenance' = FALSE
  /\ dpc' = "out"
  /\ UNCHANGED <<activeWrites, zero, closedChans, wpc, captured>>

\* The process ends and a new one builds a new gate.
GateReset ==
  /\ maintenance' = FALSE /\ activeWrites' = 0
  /\ zero' = 0 /\ closedChans' = {0}
  /\ wpc' = [w \in Writers |-> "idle"]
  /\ dpc' = "out" /\ captured' = 0

GateNext ==
  \/ \E w \in Writers : BeginWrite(w) \/ EndWrite(w)
  \/ EnterMaintenance \/ Drained \/ CancelWait \/ ExitMaintenance
  \/ GateReset

GateSpec == GateInit /\ [][GateNext]_gateVars

-----------------------------------------------------------------------------
(* Once EnterAndWait has returned, no request and no worker scan that the *)
(* gate admitted is still running, whatever order the calls of            *)
(* BeginWrite, done and EnterAndWait took (control.go:86-117).            *)
NoWriterInside == dpc = "inside" => Active = {}

(* The counter and the channel agree, so that done never closes a channel *)
(* twice (a panic under g.mu) and never leaves a drained gate waiting.    *)
ChannelMatchesWriters ==
  /\ activeWrites = Cardinality(Active)
  /\ zero \in closedChans <=> activeWrites = 0
  /\ \A n \in closedChans : n <= zero

(* While the gate is closed the channel the drainer captured is the one   *)
(* the remaining writers close.                                           *)
CapturesCurrentChannel ==
  dpc \in {"waiting", "inside"} => maintenance /\ captured = zero

GateInv ==
  /\ GateTypeOK
  /\ ChannelMatchesWriters
  /\ CapturesCurrentChannel
  /\ dpc = "inside" => captured \in closedChans

AdmitsNobody == \A w \in Writers : wpc[w] = "idle" => wpc'[w] = "idle"

(* No write is admitted between the start of EnterAndWait and Exit, except *)
(* by a new process.                                                      *)
GateStaysShut ==
  [][(dpc \in {"waiting", "inside"} /\ dpc' # "out") => AdmitsNobody]_gateVars
=============================================================================
