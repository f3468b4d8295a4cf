---------------------------- MODULE Arbitration ----------------------------
(***************************************************************************)
(* Which of the two controllers is the input of the bridge:                *)
(* src/src/profiles/auto_profile.cpp (the first to send locks the          *)
(* profile), src/src/bridge_connection_control.cpp (who may connect),      *)
(* the preference and the 60 s attempt of src/src/bridge_runtime.cpp, and  *)
(* src/src/main.cpp, whose loop and commands call them.                    *)
(*                                                                         *)
(* The radios are seen through the functions main.cpp calls; ClassicLink   *)
(* and Ns2Link have their insides.  A link is "part" while it is set up,   *)
(* "up" when its controller may send, "closing" once it is given up.       *)
(* One round of the main loop is a sequence of steps, told apart by pc.    *)
(***************************************************************************)
EXTENDS Naturals

CONSTANTS Ds5, Ns2,     \* the sources of input
          Any           \* no preference, no attempt, no input

ASSUME ArbitrationAssumption == Ds5 # Ns2 /\ Any \notin {Ds5, Ns2}

VARIABLES
    preference,         \* bridge_runtime: of the user
    target, elapsed,    \* the attempt of the user, and whether its time is over
    physical,           \* whose state is the input (physical.source)
    locked, active,     \* auto_profile
    applied,            \* profile_lock_applied
    radio,              \* for each source, see Radio
    dropped,            \* links lost in this poll
    pc                  \* where the main loop is

Source == {Ds5, Ns2}

policyVars == <<preference, target, elapsed>>
lockVars   == <<locked, active, applied>>
vars == <<policyVars, lockVars, physical, radio, dropped, pc>>

Radio ==
    [on : BOOLEAN,          \* classic_enabled, ~ble.suspended
     suppressed : BOOLEAN,  \* reconnect_suppressed, ble.manually_disconnected
     intent : BOOLEAN,      \* pairing_requested or active_reconnect_requested,
                            \* ble.requested_mode
     link : {"none", "part", "up", "closing"}]

-----------------------------------------------------------------------------
(* The radios, each operator from the state it finds to that it leaves.    *)

\* disconnect_link, disconnect_and_backoff
Close(r) == [r EXCEPT !.link = IF @ = "none" THEN @ ELSE "closing"]

\* bt_set_classic_enabled(false), ns2_ble_suspend_auto
TurnedOff(r) == Close([r EXCEPT !.on = FALSE])

\* bt_cancel_manual_request, ns2_ble_cancel_manual_request
Cancelled(r) ==
    IF r.intent /\ r.link # "up"
    THEN Close([r EXCEPT !.intent = FALSE]) ELSE [r EXCEPT !.intent = FALSE]

\* bt_resume_auto, bt_set_classic_enabled(true), ns2_ble_resume_auto
TurnedOn(r, s, user_requested) ==
    IF ~user_requested THEN [r EXCEPT !.on = TRUE]
    ELSE [(IF s = Ds5 THEN Cancelled(r) ELSE r) EXCEPT !.on = TRUE, !.suppressed = FALSE]

\* bt_pair, bt_reconnect, ns2_ble_pair, ns2_ble_reconnect
Started(r) == Close([r EXCEPT !.on = TRUE, !.suppressed = FALSE, !.intent = TRUE])

\* ns2_ble_reconnect without a saved controller
StartedInVain(r) == [r EXCEPT !.on = TRUE, !.suppressed = FALSE, !.intent = FALSE]

\* bt_disconnect (which leaves the intent to its caller), bt_forget,
\* ns2_ble_disconnect, ns2_ble_forget
Stopped(r, intent) == Close([r EXCEPT !.suppressed = TRUE, !.intent = intent])

\* bt_classic_connected, ns2_ble_connected: the latter holds while a link is
\* set up or taken down as well.
Connected(s) ==
    IF s = Ds5 THEN radio[s].link = "up" /\ radio[s].on /\ ~radio[s].suppressed
    ELSE radio[s].link # "none"

-----------------------------------------------------------------------------
(* Policy.                                                                 *)

\* bridge_runtime_effective_preference, with the values it is called upon
Effective(p, t) == IF t # Any THEN t ELSE p

Allowed(p, t, s) == Effective(p, t) \in {Any, s}

\* bridge_runtime_accepts
Accepts(s) == Allowed(preference, target, s)

\* bridge_connection_apply
ApplyTo(r, p, t, user_requested) ==
    [s \in Source |-> IF Allowed(p, t, s) THEN TurnedOn(r[s], s, user_requested)
                      ELSE TurnedOff(r[s])]

\* bridge_connection_reset
Reset(p) == ApplyTo([s \in Source |-> Cancelled(radio[s])], p, Any, FALSE)

Unlock == locked' = FALSE /\ active' = Ds5 /\ applied' = FALSE

\* What every reset_auto_session does besides.
Detect == Unlock /\ physical' = Any

\* reset_auto_session, the radios being left as r
ResetSession(r) == Detect /\ target' = Any /\ radio' = r /\ UNCHANGED elapsed

-----------------------------------------------------------------------------
(* Commands.                                                               *)

\* Mutant of Begin: the radios are left as before the attempt.
BeginUnapplied(s) == Reset(preference)

\* begin_manual_connection: what the radios are left as
Begin(s) == ApplyTo(Reset(preference), preference, s, FALSE)

\* The same, and then the call that leaves the radio of s as r
Attempt(s, r) ==
    /\ Detect /\ target' = s /\ elapsed' = FALSE /\ UNCHANGED preference
    /\ radio' = [Begin(s) EXCEPT ![s] = r]

\* ds5 pair, ds5 reconnect, ns2 pair, ns2 scan, ns2 reconnect
Connect(s) ==
    \/ Attempt(s, Started(Begin(s)[s]))
    \/ s = Ns2 /\ Attempt(s, StartedInVain(Begin(s)[s]))

\* bridge_connection_source_selected
Selected(s) == target = s \/ (locked /\ active = s)

\* ds5 disconnect, ds5 forget, ns2 disconnect, ns2 forget
Disconnect(s) ==
    \E intent \in {FALSE} \cup IF s = Ds5 THEN {radio[s].intent} ELSE {} :
        LET r == [radio EXCEPT ![s] = Stopped(@, intent)]
        IN  IF Selected(s)
            THEN /\ ResetSession(ApplyTo([x \in Source |-> Cancelled(r[x])], preference, Any, FALSE))
                 /\ UNCHANGED preference
            ELSE radio' = r /\ UNCHANGED <<policyVars, lockVars, physical>>

\* input set, settings reset
Prefer(p) ==
    /\ preference' = p /\ ResetSession(ApplyTo(Reset(p), p, Any, TRUE))

\* reset detect
ResetDetect == ResetSession(Reset(preference)) /\ UNCHANGED preference

\* ns2 auto on, ns2 auto off
NsAuto(on) ==
    /\ radio' = [radio EXCEPT ![Ns2].intent = FALSE, ![Ns2].suppressed = @ /\ ~on]
    /\ UNCHANGED <<policyVars, lockVars, physical>>

Command ==
    /\ pc = "manager" /\ pc' = "lock" /\ UNCHANGED dropped
    /\ \/ \E s \in Source : Connect(s) \/ Disconnect(s)
       \/ \E p \in Source \cup {Any} : Prefer(p)
       \/ ResetDetect
       \/ \E on \in BOOLEAN : NsAuto(on)

-----------------------------------------------------------------------------
(* What the radios report while they are polled.                           *)

Polled == pc = "poll" /\ UNCHANGED <<policyVars, pc>>

Relink(s, link) == radio' = [radio EXCEPT ![s].link = link]

\* A wanted connection comes up; not in the poll that has lost the last one,
\* for it takes the timers and several exchanges.
LinkBegins(s) ==
    /\ Polled /\ radio[s].link = "none" /\ s \notin dropped
    /\ radio[s].on /\ ~radio[s].suppressed
    /\ Relink(s, "part") /\ UNCHANGED <<lockVars, physical, dropped>>

\* The Classic session begins, and serves the intent; or the first BLE input
\* is there.
LinkUp(s) ==
    /\ Polled /\ radio[s].link = "part"
    /\ radio' = [radio EXCEPT ![s].link = "up", ![s].intent = @ /\ s = Ns2]
    /\ UNCHANGED <<lockVars, physical, dropped>>

\* ns2_ble_tick has stored the key or the target of the controller.
IntentServed ==
    /\ Polled /\ radio[Ns2].link = "up" /\ radio[Ns2].intent
    /\ radio' = [radio EXCEPT ![Ns2].intent = FALSE]
    /\ UNCHANGED <<lockVars, physical, dropped>>

\* A watchdog, an inactive controller, an error of the set-up
LinkGivenUp(s) ==
    /\ Polled /\ radio[s].link \in {"part", "up"}
    /\ Relink(s, "closing") /\ UNCHANGED <<lockVars, physical, dropped>>

LinkDown(s) ==
    /\ Polled /\ radio[s].link # "none"
    /\ Relink(s, "none") /\ dropped' = dropped \cup {s}
    /\ UNCHANGED <<lockVars, physical>>

\* lock_profile
MayLock(s) == locked => active = s

\* on_bt_data, on_ns2_input_auto.  A report that does not parse, or repeats
\* the last, locks the profile and leaves the input.
Input(s) ==
    /\ Polled /\ radio[s].link = "up" /\ UNCHANGED <<radio, dropped, applied>>
    /\ Accepts(s) /\ MayLock(s)
    /\ locked' = TRUE /\ active' = s
    /\ physical' \in {physical, s}

Poll ==
    \/ IntentServed
    \/ \E s \in Source : \/ LinkBegins(s) \/ LinkUp(s) \/ LinkGivenUp(s) \/ LinkDown(s)
                         \/ Input(s)

-----------------------------------------------------------------------------
(* The main loop.                                                          *)

PollDone ==
    /\ pc = "poll" /\ pc' = "manager" /\ dropped' = {}
    /\ UNCHANGED <<policyVars, lockVars, physical, radio>>

NoCommand ==
    /\ pc = "manager" /\ pc' = "lock"
    /\ UNCHANGED <<policyVars, lockVars, physical, radio, dropped>>

\* apply_profile_lock_actions
ApplyLock ==
    /\ pc = "lock" /\ pc' = "session"
    /\ UNCHANGED <<policyVars, locked, active, physical, dropped>>
    /\ applied' = (applied \/ locked)
    /\ radio' = [s \in Source |-> IF locked /\ ~applied /\ s # active THEN TurnedOff(radio[s])
                                  ELSE radio[s]]

\* Mutant of Lost: any controller will do.
LostAll == applied /\ \A s \in Source : ~Connected(s)

\* active_profile_connected, once a lock is applied
Lost == applied /\ ~Connected(active)

\* Mutant of Expired: not while the controller is connected.
ExpiredAlone == target # Any /\ ~locked /\ elapsed /\ ~Connected(target)

\* bridge_runtime_connection_tick
Expired == target # Any /\ ~locked /\ elapsed

\* auto_session_tick
SessionTick ==
    /\ pc = "session" /\ pc' = "poll" /\ UNCHANGED <<preference, dropped>>
    /\ IF Lost \/ Expired
       THEN ResetSession(Reset(preference))
       ELSE UNCHANGED <<target, elapsed, lockVars, physical, radio>>

\* 60 s pass.
Elapse ==
    /\ target # Any /\ ~elapsed /\ elapsed' = TRUE
    /\ UNCHANGED <<preference, target, lockVars, physical, radio, dropped, pc>>

-----------------------------------------------------------------------------

\* auto_profile_init, bridge_runtime_init and bridge_connection_apply at boot
Init ==
    /\ preference \in Source \cup {Any} /\ target = Any /\ elapsed = FALSE
    /\ physical = Any
    /\ locked = FALSE /\ active = Ds5 /\ applied = FALSE
    /\ radio = ApplyTo([s \in Source |-> [on |-> TRUE, suppressed |-> FALSE, intent |-> FALSE,
                                          link |-> "none"]], preference, Any, FALSE)
    /\ dropped = {} /\ pc = "poll"

Loop == PollDone \/ NoCommand \/ ApplyLock \/ SessionTick

Next == Loop \/ Command \/ Poll \/ Elapse

Spec == Init /\ [][Next]_vars

\* The main loop goes round whatever the radios report, and time passes.
FairSpec == Spec /\ WF_vars(Loop) /\ WF_vars(Elapse)

-----------------------------------------------------------------------------
(* Safety.                                                                 *)

\* Types, and that main.cpp never holds a lock that auto_profile has not
\* (profile_lock_applied and runtime.locked are set and reset apart).
TypeOK ==
    /\ preference \in Source \cup {Any} /\ target \in Source \cup {Any}
    /\ elapsed \in BOOLEAN /\ physical \in Source \cup {Any}
    /\ locked \in BOOLEAN /\ active \in Source /\ applied \in BOOLEAN
    /\ radio \in [Source -> Radio]
    /\ dropped \subseteq Source
    /\ pc \in {"poll", "manager", "lock", "session"}
    /\ applied => locked

\* Input comes from the one controller that locked the profile, and never from
\* one that neither the user's attempt nor the preference accepts.
OneSource == physical # Any => locked /\ active = physical /\ Accepts(physical)

\* Whatever sequence of commands, locks, losses and expired attempts has been:
\* before a lock those radios are on that the attempt, or else the preference,
\* allows, and under an applied lock the other controller is held off.
RadiosFollow ==
    \A s \in Source : radio[s].on <=> IF applied THEN s = active ELSE Accepts(s)

\* A radio pairs or pages for the user only during the user's attempt
\* (bridge_connection_control.cpp: "Expiring only the bridge target leaves the
\* radios in PairingScan/active paging").
IntentOwned == \A s \in Source : radio[s].intent => target = s

\* Input, radios and pairing serve one and the same choice of controller.
ChoiceIsObeyed == OneSource /\ RadiosFollow /\ IntentOwned

\* A controller that connects does not find the input of an earlier session:
\* every loss is followed by a reset before the next link is there.
NoCarryOver ==
    [][\A s \in Source : radio[s].link # "up" /\ radio'[s].link = "up" => physical # s]_vars

\* The source never changes but through neutral input.
NeutralBetween == [][physical # Any /\ physical' # physical => physical' = Any]_vars

\* No input of one session, or of one source, is shown in another.
SessionsAreApart == NoCarryOver /\ NeutralBetween

-----------------------------------------------------------------------------
(* Liveness.                                                               *)

\* Once the user leaves the bridge alone an attempt ends, in a lock or by its
\* time, also when the controller is connected and silent.
AttemptEnds == <>[][~Command]_vars => []<>(target = Any \/ locked)
=============================================================================
