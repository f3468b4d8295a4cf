------------------------------ MODULE MCNs2Link ------------------------------
(***************************************************************************)
(* Ns2Link with interchangeable controllers.                               *)
(***************************************************************************)
EXTENDS Ns2Link, TLC

Symmetry == Permutations(Peer)

=============================================================================
