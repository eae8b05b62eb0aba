------------------------------ MODULE MCTickets ------------------------------
(***************************************************************************)
(* Instances of Tickets for TLC.                                           *)
(***************************************************************************)
EXTENDS Tickets, TLC

Symmetry == Permutations(Handlers) \cup Permutations(Guests)
=============================================================================
