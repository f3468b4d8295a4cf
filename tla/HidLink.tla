------------------------------- MODULE HidLink -------------------------------
(***************************************************************************)
(* What bt.cpp promises about its link to everything that uses the link:   *)
(* which of its steps begin, complete, break and end a HID session.        *)
(* ClassicLink implements it; SendPath is built on it.                     *)
(***************************************************************************)

Channel == {"control", "interrupt"}

VARIABLES
    link,       \* an ACL is held
    leaving,    \* disconnect_pending
    open,       \* the open HID channels
    session     \* active_send_epoch # 0

linkVars == <<link, leaving, open, session>>

Init == link = FALSE /\ leaving = FALSE /\ open = {} /\ session = FALSE

\* Without a link: an attempt is given up, or has failed.
Attempt == ~link /\ leaving' \in BOOLEAN /\ UNCHANGED <<link, open, session>>

\* The ACL is up; a cancelled attempt may still bring one.
Up == ~link /\ link' = TRUE /\ UNCHANGED <<leaving, open, session>>

\* A wanted channel opens; the session begins with the second one.
ChannelUp(c) ==
    /\ link /\ ~leaving
    /\ open' = open \cup {c}
    /\ session' = (open' = Channel)
    /\ UNCHANGED <<link, leaving>>

\* disconnect_link on a link: the session is over before the link is.
Leave ==
    /\ link
    /\ leaving' = TRUE /\ session' = FALSE
    /\ UNCHANGED <<link, open>>

\* The first channel opens and the second is refused.
ChannelAlone(c) ==
    /\ link /\ ~leaving
    /\ open' = open \cup {c}
    /\ leaving' = TRUE /\ session' = FALSE
    /\ UNCHANGED link

\* A channel closes or fails to open.
ChannelDown(c) ==
    /\ link
    /\ open' = open \ {c}
    /\ leaving' = TRUE /\ session' = FALSE
    /\ UNCHANGED link

Down ==
    /\ link
    /\ link' = FALSE /\ leaving' = FALSE /\ open' = {} /\ session' = FALSE

Next == \/ Attempt \/ Up \/ Leave \/ Down
        \/ \E c \in Channel : ChannelUp(c) \/ ChannelAlone(c) \/ ChannelDown(c)

Spec == Init /\ [][Next]_linkVars

=============================================================================
