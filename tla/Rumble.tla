------------------------------- MODULE Rumble -------------------------------
(***************************************************************************)
(* The vibration of the Switch 2 Pro: the scheduler of                     *)
(* src/src/ns2/ns2_usb.cpp (hd_rumble_task), the source of the audio       *)
(* channels that src/src/bridge_ns2_audio_mixer.h adds to that of the      *)
(* game, the write of src/src/ns2/ns2_ble.cpp, and what src/src/main.cpp   *)
(* does to them when sessions, hosts and settings change.                  *)
(*                                                                         *)
(* A vibration is the set of the sources that are heard in it.  Times are  *)
(* what is left of them.  One round of the main loop is poll (events,      *)
(* callbacks and commands), session, output, rumble, audio.                *)
(***************************************************************************)
EXTENDS Naturals

CONSTANTS
    Hold,               \* hd_hold_us, one more than the time of a report
    AudioHold,          \* until_us_ - now of submit
    Tick, AudioTick,    \* hd_tick_us, and its limit while audio is active
    MaxStops,           \* HD_STOP_MAX_PACKETS
    DefaultStops        \* HD_STOP_DEFAULT_PACKETS

ASSUME RumbleAssumption ==
    /\ Hold \in Nat \ {0} /\ AudioHold \in Nat \ {0}
    /\ Tick \in Nat \ {0} /\ AudioTick \in 1..Tick
    /\ MaxStops \in Nat /\ DefaultStops \in 1..MaxStops

VARIABLES
    stream,     \* hd_stream_active, hd_stream_until_us, hd_*_vibration
    audio,      \* audio_mixer: active, until_us_
    enabled,    \* hd_enabled
    packets,    \* hd_stop_packets
    owed,       \* hd_stop_packets_pending
    due,        \* hd_next_tick_us
    link,       \* of the BLE side
    acked,      \* ~rumble_write_without_response
    pending,    \* rumble_write_pending
    held,       \* the vibration the controller was last given
    lost,       \* a stop packet was refused since the last were ordered
    locked,     \* auto_profile_locked, to this controller
    pc          \* where the main loop is

sourceVars == <<stream, audio, enabled, packets, owed, due, lost>>
linkVars   == <<link, acked, pending, held>>
vars == <<sourceVars, linkVars, locked, pc>>

Off == [active |-> FALSE, loud |-> FALSE, life |-> 0, session |-> FALSE]

\* ns2_ble_connected
Connected == link \in {"part", "ready", "closing"}

-----------------------------------------------------------------------------
(* The sources.                                                            *)

\* What every end of a source orders.
Order == owed' = packets /\ due' = 0 /\ lost' = FALSE

Keep == UNCHANGED <<owed, due, lost>>

\* stop_regular_rumble
StopRegular == stream' = Off /\ Order

\* stop_audio_rumble
StopAudio ==
    /\ audio' = [active |-> FALSE, life |-> 0] /\ UNCHANGED stream
    /\ IF audio.active THEN Order ELSE Keep

\* stop_hd_rumble; set_motors(0, 0) and set_audio_motors(0, 0)
StopAll == StopRegular /\ audio' = [active |-> FALSE, life |-> 0]

\* update_hd_rumble_stream
Update(loud, session) ==
    IF ~enabled THEN StopAll
    ELSE /\ stream' = [active |-> TRUE, loud |-> loud, life |-> Hold, session |-> session]
         /\ due' = 0 /\ UNCHANGED <<audio, owed, lost>>

\* ns2_usb_set_audio_motors with a block that is not silent; its amplitude
\* may be scaled to nothing.
Submit(loud) ==
    IF ~enabled THEN StopAudio
    ELSE IF loud
    THEN /\ audio' = [active |-> TRUE, life |-> AudioHold]
         /\ due' = 0 /\ UNCHANGED <<stream, owed, lost>>
    ELSE /\ audio' = [active |-> FALSE, life |-> 0] /\ UNCHANGED stream
         /\ IF audio.active THEN Order ELSE due' = 0 /\ UNCHANGED <<owed, lost>>

-----------------------------------------------------------------------------
(* Commands and callbacks, in the poll.                                    *)

Polling == pc = "poll" /\ UNCHANGED <<linkVars, pc>>

\* rumble test, rumble hold
TestCommand ==
    /\ Polling /\ Update(TRUE, FALSE) /\ UNCHANGED <<enabled, packets, locked>>

\* rumble stop; tud_umount_cb, tud_suspend_cb
StopCommand == Polling /\ StopAll /\ UNCHANGED <<enabled, packets, locked>>

\* rumble on, rumble off
EnableCommand(on) ==
    /\ Polling /\ enabled' = on /\ UNCHANGED <<packets, locked>>
    /\ IF on THEN UNCHANGED <<stream, audio>> /\ Keep ELSE StopAll

\* rumble tune, of which only the number of stop packets is kept
TuneCommand(n) ==
    /\ Polling /\ packets' = n /\ UNCHANGED <<stream, audio, enabled, locked>> /\ Keep

\* role: bridge_feedback(stop), audio_reset_session
RoleCommand ==
    /\ Polling /\ UNCHANGED <<enabled, packets, locked>>
    /\ IF locked THEN StopAll ELSE StopAudio

\* The host closes or opens the speaker (reset_speaker_buffers).
SpeakerReset == Polling /\ StopAudio /\ UNCHANGED <<enabled, packets, locked>>

\* reset_auto_session
ResetSession == StopAll /\ locked' = FALSE

\* The commands that call it: manual connections, input set, reset detect
ResetCommand == Polling /\ ResetSession /\ UNCHANGED <<enabled, packets>>

\* Mutant of InitUsb: the session is reset before the scheduler is.
InitUsbLast ==
    /\ stream' = Off /\ audio' = [active |-> FALSE, life |-> 0]
    /\ owed' = 0 /\ due' = 0 /\ lost' = FALSE /\ locked' = FALSE

\* settings reset: ns2_usb_init, with the defaults, and reset_auto_session
InitUsb ==
    /\ stream' = Off /\ audio' = [active |-> FALSE, life |-> 0]
    /\ owed' = packets' /\ due' = 0 /\ lost' = FALSE /\ locked' = FALSE

SettingsReset == Polling /\ enabled' = TRUE /\ packets' = DefaultStops /\ InitUsb

Command ==
    \/ TestCommand \/ StopCommand \/ RoleCommand \/ SpeakerReset \/ ResetCommand
    \/ SettingsReset
    \/ \E on \in BOOLEAN : EnableCommand(on)
    \/ \E n \in 1..MaxStops : TuneCommand(n)

-----------------------------------------------------------------------------
(* The link, in the poll.                                                  *)

Event == pc = "poll" /\ UNCHANGED <<sourceVars, pc>>

\* An ACL is there; not in the poll that has lost the last one ("lost"), for
\* it takes the timers of ns2_ble_tick.
LinkBegins == Event /\ link = "none" /\ link' = "part" /\ UNCHANGED <<acked, pending, held, locked>>

LinkReady ==
    /\ Event /\ link = "part" /\ link' = "ready" /\ acked' \in BOOLEAN
    /\ UNCHANGED <<pending, held, locked>>

LinkGivenUp ==
    /\ Event /\ link \in {"part", "ready"} /\ link' = "closing"
    /\ UNCHANGED <<acked, pending, held, locked>>

LinkDown ==
    /\ Event /\ Connected
    /\ link' = "lost" /\ held' = {} /\ pending' = FALSE /\ UNCHANGED <<acked, locked>>

\* GATT_EVENT_QUERY_COMPLETE of a vibration
Answered ==
    /\ Event /\ pending /\ link = "ready"
    /\ pending' = FALSE /\ UNCHANGED <<link, acked, held, locked>>

\* auto_profile_note_ns2_input
Input == Event /\ link = "ready" /\ locked' = TRUE /\ UNCHANGED linkVars

LinkEvent == LinkBegins \/ LinkReady \/ LinkGivenUp \/ LinkDown \/ Answered \/ Input

-----------------------------------------------------------------------------
(* The main loop.                                                          *)

PollDone ==
    /\ pc = "poll" /\ pc' = "session"
    /\ link' = IF link = "lost" THEN "none" ELSE link
    /\ UNCHANGED <<sourceVars, acked, pending, held, locked>>

\* auto_session_tick: the session has ended, or goes on
SessionTick ==
    /\ pc = "session" /\ pc' = "output"
    /\ UNCHANGED <<enabled, packets, linkVars>>
    /\ IF locked /\ ~Connected THEN ResetSession
       ELSE UNCHANGED <<stream, audio, owed, due, lost, locked>>

\* bridge_output_tick with a report of the host: a vibration for the locked
\* controller (bridge_feedback), or of a Nintendo host for whichever is
\* connected (bridge_hid_output_to_ble).
HostReport ==
    /\ pc = "output" /\ pc' = "rumble" /\ UNCHANGED <<enabled, packets, linkVars, locked>>
    /\ \/ \E loud \in BOOLEAN : Update(loud, locked)
       \/ StopRegular /\ UNCHANGED audio

NoReport ==
    /\ pc = "output" /\ pc' = "rumble" /\ UNCHANGED <<sourceVars, linkVars, locked>>

Expired == audio.active /\ audio.life = 0

\* Whether hd_rumble_task comes to a packet in this round
IsDue == Expired \/ due = 0

GameOn == stream.active /\ stream.life > 0

AudioOn == audio.active /\ audio.life > 0

\* Mutant of Ended: the end of the hold time is not said.
EndedAudio == Expired

\* A source whose time is over is ended now.
Ended == Expired \/ (stream.active /\ ~GameOn)

Owed == IF Ended THEN packets ELSE owed

\* Mutant of Vibration: the audio channels are laid over the game.
VibrationOverlaid ==
    IF AudioOn THEN {"audio"} ELSE IF GameOn /\ stream.loud THEN {"game"} ELSE {}

Vibration == (IF GameOn /\ stream.loud THEN {"game"} ELSE {}) \cup (IF AudioOn THEN {"audio"} ELSE {})

\* ns2_ble_send_rumble
Taken(vibration) ==
    link = "ready" /\ ~pending /\ held' = vibration /\ pending' = acked

Refused == UNCHANGED <<pending, held>>

\* A source whose time is over is ended.
EndSources ==
    /\ audio' = [active |-> AudioOn, life |-> audio.life]
    /\ stream' = [stream EXCEPT !.active = GameOn]

\* hd_rumble_task
RumbleTask ==
    /\ pc = "rumble" /\ pc' = "audio"
    /\ UNCHANGED <<enabled, packets, link, acked, locked>>
    /\ IF ~IsDue THEN UNCHANGED <<stream, audio, owed, due, lost, pending, held>>
       ELSE /\ EndSources
            /\ \/ /\ GameOn \/ AudioOn
                  /\ owed' = Owed /\ lost' = (lost /\ ~Ended)
                  /\ due' = IF AudioOn THEN AudioTick ELSE Tick
                  /\ Taken(Vibration) \/ Refused
               \/ /\ ~GameOn /\ ~AudioOn /\ Owed > 0
                  /\ owed' = Owed - 1 /\ due' = Tick
                  /\ \/ Taken({}) /\ lost' = (lost /\ ~Ended)
                     \/ Refused /\ lost' = TRUE
               \/ /\ ~GameOn /\ ~AudioOn /\ Owed = 0
                  /\ UNCHANGED <<owed, due, lost, pending, held>>

\* audio_loop_ns2_haptics with a block of the host, for the locked controller
AudioBlock ==
    /\ pc = "audio" /\ pc' = "poll" /\ locked /\ Connected
    /\ UNCHANGED <<enabled, packets, linkVars, locked>>
    /\ StopAudio \/ \E loud \in BOOLEAN : Submit(loud)

NoBlock ==
    /\ pc = "audio" /\ pc' = "poll" /\ UNCHANGED <<sourceVars, linkVars, locked>>

Less(n) == IF n = 0 THEN 0 ELSE n - 1

Elapse ==
    /\ stream.life > 0 \/ audio.life > 0 \/ due > 0
    /\ stream' = [stream EXCEPT !.life = Less(@)] /\ audio' = [audio EXCEPT !.life = Less(@)]
    /\ due' = Less(due)
    /\ UNCHANGED <<enabled, packets, owed, lost, linkVars, locked, pc>>

-----------------------------------------------------------------------------
Init ==
    /\ stream = Off /\ audio = [active |-> FALSE, life |-> 0]
    /\ enabled \in BOOLEAN /\ packets \in 1..MaxStops
    /\ owed = 0 /\ due = 0 /\ lost = FALSE
    /\ link = "none" /\ acked = FALSE /\ pending = FALSE /\ held = {}
    /\ locked = FALSE /\ pc = "poll"

Loop ==
    \/ PollDone \/ SessionTick \/ HostReport \/ NoReport \/ RumbleTask
    \/ AudioBlock \/ NoBlock

Next == Command \/ LinkEvent \/ Loop \/ Elapse

Spec == Init /\ [][Next]_vars

\* The main loop goes round, and time passes.  Of BTstack nothing is assumed.
FairSpec == Spec /\ WF_vars(Loop) /\ WF_vars(Elapse)

-----------------------------------------------------------------------------
(* Safety.                                                                 *)

Source == {"game", "audio"}

\* Types; nothing is held by a controller that is not there, and only a link
\* that can be written waits for a write.
TypeOK ==
    /\ stream \in [active : BOOLEAN, loud : BOOLEAN, life : 0..Hold, session : BOOLEAN]
    /\ audio \in [active : BOOLEAN, life : 0..AudioHold]
    /\ enabled \in BOOLEAN /\ packets \in 1..MaxStops
    /\ owed \in 0..MaxStops /\ due \in 0..Tick /\ lost \in BOOLEAN
    /\ link \in {"none", "part", "ready", "closing", "lost"}
    /\ acked \in BOOLEAN /\ pending \in BOOLEAN /\ held \subseteq Source
    /\ locked \in BOOLEAN
    /\ pc \in {"poll", "session", "output", "rumble", "audio"}
    /\ held # {} \/ pending => link \in {"ready", "closing"}

\* A controller vibrates with no source left only as long as a stop packet is
\* owed to it, or because BTstack took none of those that were: whatever ended
\* the sources, and in whatever order (hd_stop_packets_pending is set in four
\* places, and counted down before the write is known to be taken).
StopIsOwed ==
    held # {} /\ ~stream.active /\ ~audio.active => owed > 0 \/ lost

\* "Audio envelopes and game rumble have independent lifetimes ... silence in
\* the audio source restores ordinary rumble without stopping it"
\* (docs/PARITY.md:42-44): while the time of a source runs the controller is
\* given nothing without it, whatever has ordered stop packets meanwhile.
NoStopMidway ==
    [][pc = "rumble" /\ held' # held =>
          /\ stream.active /\ stream.loud /\ stream.life > 0 => "game" \in held'
          /\ audio.active /\ audio.life > 0 => "audio" \in held']_vars

\* Nor does one source end the other: before its time the game's is not ended
\* by a block of the audio channels or by their silence, and theirs not by a
\* report of the game.
OwnLifetimes ==
    [][/\ stream.active /\ stream.life > 0 /\ ~stream'.active => pc \in {"poll", "session", "output"}
       /\ audio.active /\ audio.life > 0 /\ ~audio'.active => pc \in {"poll", "session", "audio"}]_vars

\* What a session made vibrate is stopped before the next controller is there.
CleanStart ==
    [][link = "none" /\ link' = "part" => ~audio.active /\ ~(stream.active /\ stream.session)]_vars

\* A source vibrates for its own time, neither less, for what the other does, nor
\* more, into another session.
SourcesAreApart == NoStopMidway /\ OwnLifetimes /\ CleanStart

-----------------------------------------------------------------------------
(* Liveness.                                                               *)

Submission == Command \/ HostReport \/ AudioBlock

\* Once hosts and user are silent the controller stops vibrating, or its stop
\* packets were refused: none is sent again.
ComesToRest == <>[][~Submission]_vars => <>[](held = {} \/ lost)
=============================================================================
