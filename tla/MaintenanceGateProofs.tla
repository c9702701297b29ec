------------------------ MODULE MaintenanceGateProofs ------------------------
(***************************************************************************)
(* No write runs inside a drained gate, for every finite set of writers   *)
(* and every number of channels.                                          *)
(***************************************************************************)
EXTENDS MaintenanceGate, FiniteSetTheorems, TLAPS

(* The writers that are active form a finite set.                         *)
LEMMA ActiveFinite == IsFiniteSet(Active) /\ Cardinality(Active) \in Nat
  BY GateAssumption, FS_Subset, FS_CardinalityType DEF Active

(* The counter is zero exactly when no writer is active.                  *)
LEMMA ActiveEmpty == Cardinality(Active) = 0 <=> Active = {}
  BY ActiveFinite, FS_EmptySet

(* A new gate satisfies the invariant.                                    *)
LEMMA FreshGate ==
  ASSUME GateInit PROVE GateInv
<1>1. Active = {}
  BY DEF GateInit, Active
<1>2. Cardinality(Active) = 0
  BY <1>1, FS_EmptySet
<1>3. 0 \in 0 .. MaxChannels /\ {0} \in SUBSET (0 .. MaxChannels)
  BY GateAssumption
<1>4. GateTypeOK
  BY <1>3 DEF GateInit, GateTypeOK
<1>5. ChannelMatchesWriters
  BY <1>2 DEF GateInit, ChannelMatchesWriters
<1> QED
  BY <1>4, <1>5 DEF GateInit, GateInv, CapturesCurrentChannel

(* BeginWrite counts the writer it admits and, for the first one, leaves  *)
(* an open channel (control.go:86-95).                                    *)
LEMMA BeginWriteKeeps ==
  ASSUME GateInv, NEW w \in Writers, BeginWrite(w)
  PROVE  GateInv'
<1>1. w \notin Active /\ Active' = Active \cup {w}
  BY DEF BeginWrite, GateInv, GateTypeOK, Active
<1>2. Cardinality(Active') = Cardinality(Active) + 1
  BY <1>1, ActiveFinite, FS_AddElement
<1>3. GateTypeOK'
  BY GateAssumption DEF BeginWrite, GateInv, GateTypeOK
<1>4. ChannelMatchesWriters'
  BY <1>2, GateAssumption DEF BeginWrite, GateInv, GateTypeOK, ChannelMatchesWriters
<1>5. CapturesCurrentChannel' /\ (dpc = "inside" => captured \in closedChans)'
  BY DEF BeginWrite, GateInv, GateTypeOK, CapturesCurrentChannel
<1> QED BY <1>3, <1>4, <1>5 DEF GateInv

(* The returned function uncounts the writer, and the last one closes the *)
(* current channel, which was open (control.go:96-103).                   *)
LEMMA EndWriteKeeps ==
  ASSUME GateInv, NEW w \in Writers, EndWrite(w)
  PROVE  GateInv'
<1>1. w \in Active /\ Active' = Active \ {w}
  BY DEF EndWrite, GateInv, GateTypeOK, Active
<1>2. Cardinality(Active') = Cardinality(Active) - 1
  BY <1>1, ActiveFinite, FS_RemoveElement
<1>3. Cardinality(Active) # 0
  BY <1>1, ActiveEmpty
<1>4. GateTypeOK'
  BY <1>3, ActiveFinite, GateAssumption
     DEF EndWrite, GateInv, GateTypeOK, ChannelMatchesWriters
<1>5. ChannelMatchesWriters'
  BY <1>2, <1>3, ActiveFinite, GateAssumption
     DEF EndWrite, GateInv, GateTypeOK, ChannelMatchesWriters
<1>6. CapturesCurrentChannel' /\ (dpc = "inside" => captured \in closedChans)'
  BY DEF EndWrite, GateInv, GateTypeOK, CapturesCurrentChannel
<1> QED BY <1>4, <1>5, <1>6 DEF GateInv

(* Steps that leave the writers and the channels alone.                   *)
LEMMA DrainerKeeps ==
  ASSUME GateInv, EnterMaintenance \/ Drained \/ CancelWait \/ ExitMaintenance
  PROVE  GateInv'
<1>1. UNCHANGED <<wpc, activeWrites, zero, closedChans>>
  BY DEF EnterMaintenance, Drained, CancelWait, ExitMaintenance
<1>2. Active' = Active
  BY <1>1 DEF Active
<1>3. ChannelMatchesWriters'
  BY <1>1, <1>2 DEF GateInv, ChannelMatchesWriters
<1>4. GateTypeOK' /\ CapturesCurrentChannel' /\ (dpc = "inside" => captured \in closedChans)'
  BY DEF EnterMaintenance, Drained, CancelWait, ExitMaintenance,
         GateInv, GateTypeOK, CapturesCurrentChannel
<1> QED BY <1>3, <1>4 DEF GateInv

(* A new process starts with a fresh gate.                                *)
LEMMA ResetKeeps ==
  ASSUME GateReset PROVE GateInv'
<1>1. Active' = {}
  BY DEF GateReset, Active
<1>2. Cardinality(Active') = 0
  BY <1>1, FS_EmptySet
<1>3. 0 \in 0 .. MaxChannels /\ {0} \in SUBSET (0 .. MaxChannels)
  BY GateAssumption
<1>4. GateTypeOK'
  BY <1>3 DEF GateReset, GateTypeOK
<1>5. ChannelMatchesWriters'
  BY <1>2 DEF GateReset, ChannelMatchesWriters
<1> QED
  BY <1>4, <1>5 DEF GateReset, GateInv, CapturesCurrentChannel

(* Every step of the gate keeps its invariant.                            *)
LEMMA GateStep ==
  ASSUME GateInv, [GateNext]_gateVars PROVE GateInv'
<1>1. CASE \E w \in Writers : BeginWrite(w)
  BY <1>1, BeginWriteKeeps
<1>2. CASE \E w \in Writers : EndWrite(w)
  BY <1>2, EndWriteKeeps
<1>3. CASE EnterMaintenance \/ Drained \/ CancelWait \/ ExitMaintenance
  BY <1>3, DrainerKeeps
<1>4. CASE GateReset
  BY <1>4, ResetKeeps
<1>5. CASE UNCHANGED gateVars
  <2>1. Active' = Active
    BY <1>5 DEF gateVars, Active
  <2> QED
    BY <1>5, <2>1 DEF gateVars, GateInv, GateTypeOK, ChannelMatchesWriters,
                      CapturesCurrentChannel
<1> QED BY <1>1, <1>2, <1>3, <1>4, <1>5 DEF GateNext

(* Type correctness, the agreement of counter and channel, and the        *)
(* captured channel being the current one hold in every behaviour.        *)
THEOREM GateInvariant == GateSpec => []GateInv
<1>1. GateInit => GateInv
  BY FreshGate
<1>2. GateInv /\ [GateNext]_gateVars => GateInv'
  BY GateStep
<1> QED BY <1>1, <1>2, PTL DEF GateSpec

(* A drained gate has no active writer.                                   *)
LEMMA DrainedIsEmpty ==
  ASSUME GateInv PROVE NoWriterInside
<1> SUFFICES ASSUME dpc = "inside" PROVE Active = {}
  BY DEF NoWriterInside
<1>1. activeWrites = 0
  BY DEF GateInv, CapturesCurrentChannel, ChannelMatchesWriters
<1> QED BY <1>1, ActiveEmpty DEF GateInv, ChannelMatchesWriters

(* After EnterAndWait returns and until Exit no admitted request or scan  *)
(* is running.                                                            *)
THEOREM GateExcludesWriters == GateSpec => []NoWriterInside
<1>1. GateInv => NoWriterInside
  BY DrainedIsEmpty
<1> QED BY <1>1, GateInvariant, PTL

(* From EnterAndWait to Exit no writer is admitted.                       *)
THEOREM GateHolds == GateSpec => GateStaysShut
<1>1. GateInv /\ [GateNext]_gateVars
        => [(dpc \in {"waiting", "inside"} /\ dpc' # "out") => AdmitsNobody]_gateVars
  BY DEF GateInv, GateTypeOK, CapturesCurrentChannel, AdmitsNobody, GateNext, BeginWrite,
         EndWrite, EnterMaintenance, Drained, CancelWait, ExitMaintenance, GateReset, gateVars
<1> QED BY <1>1, GateInvariant, PTL DEF GateSpec, GateStaysShut
=============================================================================
