-------------------------- MODULE MCParameterAcks --------------------------
(***************************************************************************)
(* Instances of ParameterAcks for TLC, in the disciplined environment of   *)
(* MCParameterUpdates.                                                     *)
(***************************************************************************)
EXTENDS ParameterAcks, MCParameterUpdates

TimelyAcksNext == (TimelyNext /\ Others) \/ \E n \in Nodes : AckStep(n)

TimelyAcksSpec == AcksInit /\ [][TimelyAcksNext]_allVars
=============================================================================
