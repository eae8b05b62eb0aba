------------------------------ MODULE MCPledges ------------------------------
(***************************************************************************)
(* Instances of Pledges for TLC.                                           *)
(***************************************************************************)
EXTENDS Pledges, TLC
=============================================================================
