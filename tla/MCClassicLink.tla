---------------------------- MODULE MCClassicLink ----------------------------
(***************************************************************************)
(* ClassicLink on two controllers.                                         *)
(***************************************************************************)
EXTENDS ClassicLink

CONSTANTS p1, p2

=============================================================================
