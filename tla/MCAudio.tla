------------------------------ MODULE MCAudio ------------------------------
(***************************************************************************)
(* AudioPath and MicRing in one run.  To AudioPath the ring is the set of  *)
(* the epochs in it, so the two need not move together: part says which of *)
(* them does in this behaviour.  A microphone is opened, switched on and   *)
(* reset while it is on only with three epochs, which the behaviours of    *)
(* "microphone" have, where nothing is played; those of "streams" have     *)
(* both streams, and one epoch less.                                       *)
(***************************************************************************)
EXTENDS AudioPath, MicRing

VARIABLE part

\* A ring that does not move starts with one of the values of its memory.
MCInit ==
    /\ part \in {"microphone", "streams", "ring"}
    /\ Init /\ RingInit
    /\ part # "ring" => samples = [i \in Index |-> CHOOSE s \in Sample : TRUE]

\* A handler begins that may reset the microphone.
StartsMic == Free /\ todo' \cap {"bumpMic", "tell"} # {}

Audio ==
    /\ part \in {"microphone", "streams"}
    /\ part = "microphone" => audio_buf' = {} /\ SpeakerReset \cap todo' = {}
    /\ part = "streams" /\ StartsMic => mic_epoch + 1 < MaxMicEpoch

MCNext ==
    \/ Next /\ Audio /\ UNCHANGED <<ringVars, part>>
    \/ part = "ring" /\ RingNext /\ UNCHANGED <<vars, part>>

MCSpec ==
    /\ MCInit /\ [][MCNext]_<<vars, ringVars, part>>
    /\ WF_vars(part # "ring" /\ Continue) /\ WF_vars(part # "ring" /\ Core1)

=============================================================================
