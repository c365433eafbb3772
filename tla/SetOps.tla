-------------------------------- MODULE SetOps --------------------------------
(***************************************************************************)
(* The operations on sets, of all layouts: one call in a behaviour, of     *)
(* BitsetOps, PShort, PackedSets or BlockSets.  The variables of the other *)
(* modules keep the values below.                                          *)
(***************************************************************************)
EXTENDS PShort, PackedSets, BlockSets

vars == <<bitsetVars, j, inner, count, decoderVars, cardinality, blockVars>>

NoPShort == j = 0 /\ inner = -1 /\ count = 0
NoPacked ==
  /\ num_decoded = 0 /\ prev_result = << >> /\ bit_i = 0 /\ incr_data_i = FALSE
  /\ cardinality = 0
NoBlocks == worker = << >> /\ scratch = << >> /\ scratch1 = << >>
NoBitset ==
  /\ op = "blocks" /\ a = {} /\ b = {} /\ A = NoBytes /\ B = NoBytes
  /\ target = 0 /\ C = NoBytes /\ i = 0 /\ layout = NotHybrid
  /\ done = FALSE

Init ==
  \/ BitsetInit /\ NoPShort /\ NoPacked /\ NoBlocks
  \/ PShortInit /\ NoPacked /\ NoBlocks
  \/ PackedInit /\ NoPShort /\ NoBlocks
  \/ BlockInit /\ NoPShort /\ NoPacked /\ NoBitset

\* The call has returned.
Terminated ==
  /\ done \/ (op = "blocks" /\ BlocksDone)
  /\ UNCHANGED vars

Next ==
  \/ BitsetNext /\ UNCHANGED <<j, inner, count, decoderVars, cardinality, blockVars>>
  \/ PShortNext /\ UNCHANGED <<decoderVars, cardinality, blockVars>>
  \/ PackedNext /\ UNCHANGED <<j, inner, count, blockVars>>
  \/ /\ op = "blocks"
     /\ BlockNext
     /\ UNCHANGED <<bitsetVars, j, inner, count, decoderVars, cardinality>>
  \/ Terminated

Spec == Init /\ [][Next]_vars
==============================================================================
