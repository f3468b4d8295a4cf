---------------------------- MODULE AtomicRecord ----------------------------
(***************************************************************************)
(* What a store of one record promises: a save takes effect at one point   *)
(* or not at all, and its answer tells which.  Between saves the record may *)
(* go bad, where the medium is one that does.                              *)
(***************************************************************************)
CONSTANTS
    Payload,        \* what may be saved
    NoPayload,      \* nothing
    MayDecay        \* the record may go bad at rest

VARIABLES
    stored,         \* what a load gives, or NoPayload
    pending,        \* what the save under way is to store, or NoPayload
    taken           \* that save has taken effect

vars == <<stored, pending, taken>>

Init == stored = NoPayload /\ pending = NoPayload /\ taken = FALSE

Begin(p) ==
    /\ pending = NoPayload
    /\ pending' = p
    /\ UNCHANGED <<stored, taken>>

Take ==
    /\ pending # NoPayload /\ ~taken
    /\ stored' = pending /\ taken' = TRUE
    /\ UNCHANGED pending

\* The save answers true exactly when it has taken effect; a power cut ends it
\* on either side of that point.
End ==
    /\ pending # NoPayload
    /\ pending' = NoPayload /\ taken' = FALSE
    /\ UNCHANGED stored

\* An older record is in force again, or none.
Decay ==
    /\ MayDecay /\ pending = NoPayload
    /\ stored' \in Payload \cup {NoPayload}
    /\ UNCHANGED <<pending, taken>>

Next == (\E p \in Payload : Begin(p)) \/ Take \/ End \/ Decay

Spec == Init /\ [][Next]_vars

=============================================================================
