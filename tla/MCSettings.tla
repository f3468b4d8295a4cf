----------------------------- MODULE MCSettings -----------------------------
(* Instances of Settings for TLC. *)
EXTENDS Settings

CONSTANTS v0, v1, bad, t1, t2, none, o0, o1, p0, p1, nothing

MCField == {1, 2}
MCFieldDefault == [f \in MCField |-> v0]
MCLegacy == {[target |-> t1, option |-> o0], [target |-> t2, option |-> o1]}

=============================================================================
