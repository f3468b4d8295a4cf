------------------------------ MODULE MCInput ------------------------------
(***************************************************************************)
(* The three sides of the input in one run: which state of the controller  *)
(* the host is shown (InputState), and what becomes of its buttons         *)
(* (Mapping) and of its sticks (Axes) in a report.  The last two take a    *)
(* report for granted, so none needs the steps of another: part says which *)
(* of them moves in this behaviour.                                        *)
(***************************************************************************)
EXTENDS InputState, Mapping, Axes

VARIABLE part

mcVars == <<part, inputVars, buttonVars, stickVars>>

\* What does not move has one initial value.
MCInit ==
    /\ part \in {"state", "buttons", "sticks"}
    /\ InputInit /\ ButtonsInit /\ SticksInit
    /\ part # "state" => accepted = Source
    /\ part # "buttons" => holder = "ds5"
    /\ part # "sticks" => centre = CHOOSE c \in Centres : TRUE

MCNext ==
    \/ part = "state" /\ InputNext /\ UNCHANGED <<part, buttonVars, stickVars>>
    \/ part = "buttons" /\ ButtonsNext /\ UNCHANGED <<part, inputVars, stickVars>>
    \/ part = "sticks" /\ SticksNext /\ UNCHANGED <<part, inputVars, buttonVars>>

MCSpec ==
    /\ MCInit /\ [][MCNext]_mcVars
    /\ WF_inputVars(part = "state" /\ Elapse)
    /\ WF_inputVars(part = "state" /\ \E host \in Hosts : Send(host))
=============================================================================
