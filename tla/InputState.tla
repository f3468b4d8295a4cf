----------------------------- MODULE InputState -----------------------------
(***************************************************************************)
(* The state of the controller that the host is shown: the duplicates that *)
(* src/src/ns2/ns2_input.cpp and src/src/bridge_runtime.cpp find, the      *)
(* frame kept as it was received besides the decoded one, its age, and the *)
(* reports made of them (bridge_output_tick of src/src/main.cpp and        *)
(* send_report_now of src/src/ns2/ns2_usb.cpp).                            *)
(*                                                                         *)
(* A frame is the state of the controller, and numbered by it; it may be   *)
(* repeated, or lost on the way.  Which controller is accepted, and when   *)
(* the session is reset, is Arbitration's; here either may happen any time.*)
(***************************************************************************)
EXTENDS Integers

CONSTANTS
    Ds5, Ns2, Nobody,   \* physical.source
    Frames, Neutral,    \* the states of a controller, and that of none
    Sequences,          \* the modulus of the number of a frame
    Clock, Stale,       \* the modulus of the clock, and stale_ms
    MaxSilence          \* how long a connected controller may be silent

ASSUME InputAssumption ==
    /\ Ds5 # Ns2 /\ Nobody \notin {Ds5, Ns2} /\ Neutral \notin Frames
    /\ Sequences \in Nat /\ Sequences > 2 /\ Clock \in Nat \ {0}
    /\ Stale \in 1..MaxSilence /\ MaxSilence \in Nat /\ MaxSilence < Clock

VARIABLES
    controller,     \* the controllers themselves
    input,          \* ns2_input.cpp: the last frame of the Switch 2 Pro
    accepted,       \* the sources whose frames are taken
    physical,       \* source, and the frame decoded
    native,         \* the frame as received, or Neutral without one
    sequence,       \* last_source_sequence
    has_sequence,
    last_fresh,     \* last_fresh_ms
    now,            \* the clock, as far as it is wide
    told,           \* the last report that the host has taken is of a controller
    received,       \* the last frame delivered since the reset
    age             \* how long ago that had changed

Source == {Ds5, Ns2}

stateVars == <<physical, native, sequence, has_sequence, last_fresh>>
inputVars == <<controller, input, accepted, stateVars, now, told, received, age>>

Nothing == [source |-> Nobody, frame |-> Neutral]
NoReport == [frame |-> Neutral, native |-> Neutral]

\* A controller with a frame that has not arrived, after so many others
WithFrame(number, frame, full, lost) ==
    [up |-> TRUE, number |-> number, frame |-> frame, full |-> full,
     delivered |-> FALSE, lost |-> lost]
NoController ==
    [up |-> FALSE, number |-> 0, frame |-> Neutral, full |-> FALSE,
     delivered |-> FALSE, lost |-> 0]
NoInput == [valid |-> FALSE, number |-> 0, frame |-> Neutral, full |-> FALSE]

-----------------------------------------------------------------------------
(* What is kept of a frame.                                                *)

\* bridge_runtime_reset_input
ResetInput ==
    /\ physical' = Nothing /\ native' = Neutral /\ has_sequence' = FALSE
    /\ received' = Neutral /\ UNCHANGED <<sequence, last_fresh, age>>

\* note: a change of the source resets before it looks for a number.
Fresh(s, number) ==
    physical.source # s \/ ~has_sequence \/ number # sequence

\* bridge_runtime_ds5, bridge_runtime_ns2: the frame as it was received
NativeOf(s, frame, full) == IF s = Ds5 \/ full THEN frame ELSE Neutral

\* note and its callers, for a frame that reaches them
Note(s, number, frame, full) ==
    /\ sequence' = number /\ has_sequence' = TRUE
    /\ IF Fresh(s, number)
       THEN /\ physical' = [source |-> s, frame |-> frame]
            /\ native' = NativeOf(s, frame, full)
            /\ last_fresh' = now
       ELSE UNCHANGED <<physical, native, last_fresh>>

\* What the controller says, as distinct from what is made of it: age is that
\* of a changed frame, of another source, or the first since a reset.
Deliver(s, frame) ==
    /\ received' = frame
    /\ age' = IF physical.source = s /\ controller[s].delivered THEN age ELSE 0

\* bridge_runtime_accepts and the lock: the first that sends is the only one
\* that is accepted until the next reset.
Take(s, number, frame, full) ==
    IF s \in accepted
    THEN /\ accepted' = {s} /\ Note(s, number, frame, full) /\ Deliver(s, frame)
    ELSE UNCHANGED <<accepted, stateVars, received, age>>

-----------------------------------------------------------------------------
(* The controllers.                                                        *)

\* A link comes up; ns2_input_reset.  Numbers start anywhere.
Connect(s) ==
    /\ ~controller[s].up
    /\ \E number \in 0..(Sequences - 1), frame \in Frames, full \in {TRUE, s = Ds5} :
          controller' = [controller EXCEPT ![s] = WithFrame(number, frame, full, 0)]
    /\ input' = IF s = Ns2 THEN NoInput ELSE input
    /\ UNCHANGED <<accepted, stateVars, now, told, received, age>>

\* The controller makes its next frame, whether the last was delivered or not;
\* fewer are lost in a row than there are numbers.
NextFrame(s) ==
    /\ controller[s].up /\ controller[s].lost < Sequences - 2
    /\ \E frame \in Frames, full \in {TRUE, s = Ds5} :
          controller' = [controller EXCEPT ![s] =
              WithFrame((controller[s].number + 1) % Sequences, frame, full,
                        controller[s].lost + 1)]
    /\ UNCHANGED <<input, accepted, stateVars, now, told, received, age>>

\* Its frame arrives, and is taken or not.
Arrived(c, taken) == [c EXCEPT !.delivered = taken, !.lost = 0]

\* on_bt_data, bridge_runtime_ds5
Ds5Frame ==
    LET c == controller[Ds5]
    IN  /\ c.up /\ Take(Ds5, c.number, c.frame, TRUE)
        /\ controller' = [controller EXCEPT ![Ds5] = Arrived(@, Ds5 \in accepted)]
        /\ UNCHANGED <<input, now, told>>

\* Mutant of Parsed: whatever follows the first frame is a repetition.
ParsedUnlessValid(c) ==
    IF input.valid THEN input
    ELSE [valid |-> TRUE, number |-> c.number, frame |-> c.frame, full |-> c.full]

\* The snapshot that ns2_input_parse_notify leaves
Parsed(c) ==
    IF input.valid /\ input.number = c.number THEN input
    ELSE [valid |-> TRUE, number |-> c.number, frame |-> c.frame, full |-> c.full]

\* ns2_input_parse_notify, on_ns2_input_auto, bridge_runtime_ns2
Ns2Frame ==
    LET c == controller[Ns2]
    IN  /\ c.up /\ input' = Parsed(c)
        /\ Take(Ns2, input'.number, input'.frame, input'.full)
        /\ controller' = [controller EXCEPT ![Ns2] = Arrived(@, Ns2 \in accepted)]
        /\ UNCHANGED <<now, told>>

\* A link is lost; ns2_input_reset, and in the same round of the main loop the
\* session tick resets what was of it.
Disconnect(s) ==
    /\ controller[s].up
    /\ controller' = [x \in Source |->
          IF x = s THEN NoController
          ELSE [controller[x] EXCEPT !.delivered = @ /\ accepted # {s}]]
    /\ input' = IF s = Ns2 THEN NoInput ELSE input
    /\ IF accepted = {s}
       THEN ResetInput /\ accepted' \in (SUBSET Source) \ {{}}
       ELSE UNCHANGED <<accepted, stateVars, received, age>>
    /\ UNCHANGED <<now, told>>

\* Every command that resets the session, or chooses a source
SessionCommand ==
    /\ ResetInput /\ accepted' \in (SUBSET Source) \ {{}}
    /\ controller' = [s \in Source |-> [controller[s] EXCEPT !.delivered = FALSE]]
    /\ UNCHANGED <<input, now, told>>

-----------------------------------------------------------------------------
(* Reports.                                                                *)

\* Mutant of Live: input is shown until there is other.
LiveAlways == physical.source # Nobody

\* bridge_runtime_live
Live == physical.source # Nobody /\ (now - last_fresh) % Clock < Stale

\* Whether a report to a host of this kind is the native one
IsNative(host) ==
    /\ native # Neutral
    /\ \/ physical.source = Ds5 /\ host = "sony"
       \/ physical.source = Ns2 /\ host = "nintendo"

\* bridge_runtime_report: the buttons are always those of the decoded frame.
Report(host) ==
    IF ~Live THEN NoReport
    ELSE [frame |-> physical.frame, native |-> IF IsNative(host) THEN native ELSE Neutral]

\* bridge_output_tick, send_report_now
Send(host) ==
    /\ told' = (Report(host) # NoReport)
    /\ UNCHANGED <<controller, input, accepted, stateVars, now, received, age>>

\* A Switch that is not sent reports as they come in
\* (ns2_config_usb_raw_passthrough_enabled) is one more host.
Hosts == {"sony", "nintendo", "nintendo decoded", "xbox"}

Elapse ==
    /\ physical.source # Nobody => age < MaxSilence
    /\ now' = (now + 1) % Clock
    /\ age' = IF age < MaxSilence THEN age + 1 ELSE age
    /\ UNCHANGED <<controller, input, accepted, stateVars, told, received>>

-----------------------------------------------------------------------------
InputInit ==
    /\ controller = [s \in Source |-> NoController]
    /\ input = NoInput /\ accepted \in (SUBSET Source) \ {{}}
    /\ physical = Nothing /\ native = Neutral /\ sequence = 0 /\ has_sequence = FALSE
    /\ last_fresh = 0 /\ now = 0
    /\ told = FALSE /\ received = Neutral /\ age = 0

Frame == Ds5Frame \/ Ns2Frame

InputNext ==
    \/ Frame \/ SessionCommand \/ Elapse
    \/ \E s \in Source : Connect(s) \/ NextFrame(s) \/ Disconnect(s)
    \/ \E host \in Hosts : Send(host)

InputSpec == InputInit /\ [][InputNext]_inputVars

\* Time passes, and the host goes on taking reports.
InputFairSpec ==
    InputSpec /\ WF_inputVars(Elapse) /\ WF_inputVars(\E host \in Hosts : Send(host))

-----------------------------------------------------------------------------
(* Safety.                                                                 *)

\* Types, and that nothing is kept of a source that is not the accepted one.
InputTypeOK ==
    /\ input \in [valid : BOOLEAN, number : 0..(Sequences - 1), frame : Frames \cup {Neutral},
                  full : BOOLEAN]
    /\ accepted \in (SUBSET Source) \ {{}}
    /\ physical \in [source : Source \cup {Nobody}, frame : Frames \cup {Neutral}]
    /\ native \in Frames \cup {Neutral}
    /\ sequence \in 0..(Sequences - 1) /\ has_sequence \in BOOLEAN
    /\ last_fresh \in 0..(Clock - 1) /\ now \in 0..(Clock - 1)
    /\ age \in 0..MaxSilence
    /\ physical.source # Nobody => accepted = {physical.source}
                                  /\ controller[physical.source].up

\* The host is not shown input of no controller, and a native report, whose
\* buttons are patched from the decoded frame, is of that same frame in all the
\* rest.  Whatever it is shown is the last frame that came of the accepted
\* controller, and came as a change less than stale_ms ago: no changed frame is
\* taken for a duplicate, also after a reset, a reconnect or a change of the
\* source, and "a duplicate does not refresh the physical frame's expiry time"
\* (docs/PARITY.md:64).
ShownIsFresh ==
    /\ InputTypeOK
    /\ \A host \in Hosts :
          /\ Report(host).frame # Neutral => Report(host).frame = received /\ age < Stale
          /\ Report(host).native \in {Neutral, Report(host).frame}

-----------------------------------------------------------------------------
(* Liveness.                                                               *)

\* Once no controller makes a new frame the host is told that nothing is
\* pressed, however often the last frame is repeated.
Released ==
    <>[][~(SessionCommand \/ \E s \in Source : Connect(s) \/ NextFrame(s))]_inputVars
        => <>[]~told
=============================================================================
