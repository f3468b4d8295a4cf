------------------------------ MODULE AudioPath ------------------------------
(***************************************************************************)
(* The audio of src/src/audio.cpp between the main loop and the USB        *)
(* interrupt of core 0 and the codecs of core 1.  A sample is the epoch in *)
(* which it came.  Core 0 runs the steps of a handler one at a time: todo  *)
(* holds those it still has to run, and core 1 and the interrupt may run   *)
(* between any two.  The interrupt runs on core 0, and the critical        *)
(* sections keep it and core 0 out while core 1 is inside one.             *)
(***************************************************************************)
EXTENDS Naturals, Sequences, FiniteSets

CONSTANTS
    MicFrames,      \* capacity of mic_fifo, 4
    SpeakerFrames,  \* capacity of audio_fifo, 2
    HasDecoder,     \* mic_decoder was created
    HasEncoder,     \* encoder was created
    MaxMicEpoch, MaxSpeakerEpoch    \* bounds of the model

ASSUME AudioAssumption ==
    /\ MicFrames \in Nat \ {0} /\ SpeakerFrames \in Nat \ {0}
    /\ HasDecoder \in BOOLEAN /\ HasEncoder \in BOOLEAN
    /\ MaxMicEpoch \in Nat /\ MaxSpeakerEpoch \in Nat

VARIABLES
    todo,           \* steps that the handler on core 0 still has to run
    connected, mic_last_connection, mic_host_open, mic_enabled,
    mic_state_retries,
    told,           \* what the controller was last told of its microphone
    mic_epoch, mic_fifo,
    mic_ring,       \* epochs of the samples in it
    endpoint_in,    \* the same of the USB IN endpoint
    audio_epoch, audio_fifo,
    endpoint_out,   \* epochs of the samples in the USB OUT endpoint
    audio_buf,      \* and in the frame that audio_loop collects
    opus_buf,       \* opus_data_valid, and the epochs it was made from
    pc,             \* where core 1 is
    event,          \* its event register, set by __sev
    mic_work, element, current, decoder, decoder_epoch, encoder, encoder_epoch

linkVars == <<connected, mic_last_connection, mic_host_open, mic_enabled, mic_state_retries, told>>
micVars == <<mic_epoch, mic_fifo, mic_ring, endpoint_in>>
speakerVars == <<audio_epoch, audio_fifo, endpoint_out, audio_buf, opus_buf>>
coreVars == <<pc, mic_work, element, current, decoder, decoder_epoch, encoder, encoder_epoch>>
vars == <<todo, event, linkVars, micVars, speakerVars, coreVars>>

Epochs == Nat
\* UINT32_MAX, where the counter does not get
NoEpoch == MaxMicEpoch + 1
Frame == [epoch : Epochs, of : SUBSET Epochs]
NoFrame == [epoch |-> 0, of |-> {}]

\* reset_mic_buffers and reset_speaker_buffers, in steps
MicReset == {"bumpMic", "drainMic", "clearRing"}
SpeakerReset == {"bumpSpeaker", "clearOut", "drainSpeaker", "clearOpus"}
Steps == MicReset \cup SpeakerReset
             \cup {"tell", "roomMic", "addMic", "roomSpeaker", "addSpeaker", "sev"}

Free == todo = {}
\* Core 1 is inside mic_cs, inside opus_cs.
InMicCs == pc = "pushing"
InOpusCs == pc = "publishing"

Init ==
    /\ todo = {} /\ event = FALSE
    /\ connected = FALSE /\ mic_last_connection = FALSE /\ mic_host_open = FALSE
    /\ mic_enabled = FALSE /\ mic_state_retries = 0 /\ told = "unknown"
    /\ mic_epoch = 0 /\ mic_fifo = <<>> /\ mic_ring = {} /\ endpoint_in = {}
    /\ audio_epoch = 0 /\ audio_fifo = <<>> /\ endpoint_out = {} /\ audio_buf = {}
    /\ opus_buf = [valid |-> FALSE, of |-> {}]
    /\ pc = "mic" /\ mic_work = FALSE /\ element = NoFrame /\ current = 0
    /\ decoder = {} /\ decoder_epoch = NoEpoch
    /\ encoder = {} /\ encoder_epoch = 0

-----------------------------------------------------------------------------
(* Core 0: what starts a handler, in the main loop.                        *)

LinkUp ==
    /\ Free /\ ~connected /\ ~mic_last_connection
    /\ connected' = TRUE
    /\ UNCHANGED <<todo, event, mic_last_connection, mic_host_open, mic_enabled, mic_state_retries,
                   told, micVars, speakerVars, coreVars>>

LinkDown ==
    /\ Free /\ connected
    /\ connected' = FALSE /\ told' = "unknown"
    /\ UNCHANGED <<todo, event, mic_last_connection, mic_host_open, mic_enabled, mic_state_retries,
                   micVars, speakerVars, coreVars>>

\* audio_mic_set_open
SetOpen(open) ==
    /\ Free /\ mic_epoch < MaxMicEpoch
    /\ mic_host_open' = open
    /\ todo' = MicReset
    /\ UNCHANGED <<event, connected, mic_last_connection, mic_enabled, mic_state_retries, told,
                   micVars, speakerVars, coreVars>>

\* audio_speaker_set_open(false)
CloseSpeaker ==
    /\ Free /\ audio_epoch < MaxSpeakerEpoch
    /\ todo' = SpeakerReset
    /\ UNCHANGED <<event, linkVars, micVars, speakerVars, coreVars>>

\* audio_reset_session
ResetSession(close_capture) ==
    /\ Free /\ mic_epoch < MaxMicEpoch /\ audio_epoch < MaxSpeakerEpoch
    /\ mic_host_open' = (mic_host_open /\ ~close_capture)
    /\ todo' = MicReset \cup SpeakerReset
    /\ UNCHANGED <<event, connected, mic_last_connection, mic_enabled, mic_state_retries, told,
                   micVars, speakerVars, coreVars>>

\* Mutant of Rearmed: only a change of the state is told, a new controller not.
RearmedNot(enable) == enable # mic_enabled

\* The microphone state is to be told again.
Rearmed(enable) == enable # mic_enabled \/ (connected /\ ~mic_last_connection)

\* audio_mic_service, up to the report
Service(eligible) ==
    LET enable == eligible /\ connected /\ mic_host_open IN
    /\ Free /\ mic_epoch < MaxMicEpoch
    /\ mic_last_connection' = connected
    /\ IF Rearmed(enable)
       THEN mic_enabled' = enable /\ mic_state_retries' = 3 /\ todo' = MicReset \cup {"tell"}
       ELSE UNCHANGED <<mic_enabled, mic_state_retries>> /\ todo' = {"tell"}
    /\ UNCHANGED <<event, connected, mic_host_open, told, micVars, speakerVars, coreVars>>

\* Mutant of AddSteps: a frame is queued and core 1 not told.
AddStepsSilent(full, room, add) == {add} \cup IF full THEN {room} ELSE {}

\* A frame for core 1: make room in a full queue, add, __sev
AddSteps(full, room, add) == {add, "sev"} \cup IF full THEN {room} ELSE {}

\* audio_bt_input, a microphone frame while the microphone is enabled
BtInput ==
    /\ Free /\ connected /\ mic_enabled
    /\ todo' = AddSteps(Len(mic_fifo) = MicFrames, "roomMic", "addMic")
    /\ UNCHANGED <<event, linkVars, micVars, speakerVars, coreVars>>

\* audio_loop: the samples read, and the frame queued when it is complete
AudioLoop ==
    /\ Free /\ endpoint_out # {}
    /\ audio_buf' = audio_buf \cup endpoint_out
    /\ endpoint_out' = {}
    /\ \/ UNCHANGED todo
       \/ todo' = AddSteps(Len(audio_fifo) = SpeakerFrames, "roomSpeaker", "addSpeaker")
    /\ UNCHANGED <<event, linkVars, micVars, audio_epoch, audio_fifo, opus_buf, coreVars>>

\* The main loop throws away what no controller is to play.
Discard ==
    /\ Free /\ endpoint_out # {}
    /\ endpoint_out' = {}
    /\ UNCHANGED <<todo, event, linkVars, micVars, audio_epoch, audio_fifo, audio_buf, opus_buf, coreVars>>

Start ==
    \/ LinkUp \/ LinkDown \/ CloseSpeaker \/ BtInput \/ AudioLoop \/ Discard
    \/ \E b \in BOOLEAN : SetOpen(b) \/ ResetSession(b) \/ Service(b)

-----------------------------------------------------------------------------
(* Core 0: the steps.                                                      *)

Step(s, earlier) == s \in todo /\ todo \cap earlier = {} /\ todo' = todo \ {s}

\* fetch_add
NextEpoch(epoch) == epoch + 1

BumpMic ==
    /\ Step("bumpMic", {})
    /\ mic_epoch' = NextEpoch(mic_epoch)
    /\ UNCHANGED <<event, linkVars, mic_fifo, mic_ring, endpoint_in, speakerVars, coreVars>>

\* queue_try_remove until the queue is empty
DrainMic ==
    /\ Step("drainMic", {"bumpMic"})
    /\ mic_fifo' = <<>>
    /\ UNCHANGED <<event, linkVars, mic_epoch, mic_ring, endpoint_in, speakerVars, coreVars>>

Cleared == mic_ring' = {} /\ endpoint_in' = {}

ClearRing ==
    /\ Step("clearRing", {"bumpMic", "drainMic"}) /\ ~InMicCs
    /\ Cleared
    /\ UNCHANGED <<event, linkVars, mic_epoch, mic_fifo, speakerVars, coreVars>>

CountDown(queued) == IF queued THEN mic_state_retries - 1 ELSE mic_state_retries

\* audio_mic_service, the report: it may not be due, and bt_try_write may refuse it.
Tell ==
    /\ Step("tell", MicReset)
    /\ \/ UNCHANGED <<told, mic_state_retries>>
       \/ /\ connected /\ mic_state_retries > 0
          /\ \E queued \in BOOLEAN :
                /\ mic_state_retries' = CountDown(queued)
                /\ told' = IF queued THEN IF mic_enabled THEN "on" ELSE "off" ELSE told
    /\ UNCHANGED <<event, connected, mic_last_connection, mic_host_open, mic_enabled,
                   micVars, speakerVars, coreVars>>

\* The oldest frame goes, if core 1 has not emptied the queue since.
MakeRoom(fifo) == IF fifo = <<>> THEN fifo ELSE Tail(fifo)

RoomMic ==
    /\ Step("roomMic", {})
    /\ mic_fifo' = MakeRoom(mic_fifo)
    /\ UNCHANGED <<event, linkVars, mic_epoch, mic_ring, endpoint_in, speakerVars, coreVars>>

AddMic ==
    /\ Step("addMic", {"roomMic"})
    /\ mic_fifo' = Append(mic_fifo, mic_epoch)
    /\ UNCHANGED <<event, linkVars, mic_epoch, mic_ring, endpoint_in, speakerVars, coreVars>>

RoomSpeaker ==
    /\ Step("roomSpeaker", {})
    /\ audio_fifo' = MakeRoom(audio_fifo)
    /\ UNCHANGED <<event, linkVars, micVars, audio_epoch, endpoint_out, audio_buf, opus_buf, coreVars>>

AddSpeaker ==
    /\ Step("addSpeaker", {"roomSpeaker"})
    /\ audio_fifo' = Append(audio_fifo, [epoch |-> audio_epoch, of |-> audio_buf])
    /\ audio_buf' = {}
    /\ UNCHANGED <<event, linkVars, micVars, audio_epoch, endpoint_out, opus_buf, coreVars>>

Sev ==
    /\ Step("sev", {"addMic", "addSpeaker"})
    /\ event' = TRUE
    /\ UNCHANGED <<linkVars, micVars, speakerVars, coreVars>>

\* audio_buf_pos = 0
Collected == {}

BumpSpeaker ==
    /\ Step("bumpSpeaker", MicReset)
    /\ audio_epoch' = NextEpoch(audio_epoch)
    /\ audio_buf' = Collected
    /\ UNCHANGED <<event, linkVars, micVars, audio_fifo, endpoint_out, opus_buf, coreVars>>

ClearOut ==
    /\ Step("clearOut", MicReset \cup {"bumpSpeaker"})
    /\ endpoint_out' = {}
    /\ UNCHANGED <<event, linkVars, micVars, audio_epoch, audio_fifo, audio_buf, opus_buf, coreVars>>

DrainSpeaker ==
    /\ Step("drainSpeaker", MicReset \cup {"bumpSpeaker", "clearOut"})
    /\ audio_fifo' = <<>>
    /\ UNCHANGED <<event, linkVars, micVars, audio_epoch, endpoint_out, audio_buf, opus_buf, coreVars>>

ClearOpus ==
    /\ Step("clearOpus", MicReset \cup {"bumpSpeaker", "clearOut", "drainSpeaker"}) /\ ~InOpusCs
    /\ opus_buf' = [valid |-> FALSE, of |-> {}]
    /\ UNCHANGED <<event, linkVars, micVars, audio_epoch, audio_fifo, endpoint_out, audio_buf, coreVars>>

Continue ==
    \/ BumpMic \/ DrainMic \/ ClearRing \/ Tell \/ RoomMic \/ AddMic \/ Sev
    \/ RoomSpeaker \/ AddSpeaker \/ BumpSpeaker \/ ClearOut \/ DrainSpeaker \/ ClearOpus

-----------------------------------------------------------------------------
(* The USB interrupt.                                                      *)

\* What packet puts out of the samples it takes: silence unless mic_enabled
Heard(taken) == IF mic_enabled THEN taken ELSE {}

\* tud_audio_tx_done_isr: a packet leaves the ring, whole or in part.
TxDone ==
    /\ ~InMicCs /\ mic_ring # {}
    /\ \E taken, left \in SUBSET mic_ring :
          /\ taken \cup left = mic_ring
          /\ mic_ring' = left
          /\ endpoint_in' = endpoint_in \cup Heard(taken)
    /\ UNCHANGED <<todo, event, linkVars, mic_epoch, mic_fifo, speakerVars, coreVars>>

\* The host reads, and the host sends.
HostReads ==
    /\ endpoint_in # {}
    /\ endpoint_in' = {}
    /\ UNCHANGED <<todo, event, linkVars, mic_epoch, mic_fifo, mic_ring, speakerVars, coreVars>>

HostPlays ==
    /\ audio_epoch \notin endpoint_out
    /\ endpoint_out' = endpoint_out \cup {audio_epoch}
    /\ UNCHANGED <<todo, event, linkVars, micVars, audio_epoch, audio_fifo, audio_buf, opus_buf, coreVars>>

Interrupt == TxDone \/ HostReads \/ HostPlays

-----------------------------------------------------------------------------
(* Core 1: core1_entry and decode_mic_frame.                               *)

\* queue_try_remove(&mic_fifo)
TakeMic ==
    /\ pc = "mic"
    /\ \/ /\ mic_fifo = <<>>
          /\ mic_work' = FALSE /\ pc' = "speaker"
          /\ UNCHANGED <<mic_fifo, element>>
       \/ /\ mic_fifo # <<>>
          /\ mic_work' = TRUE /\ pc' = "load"
          /\ element' = [epoch |-> Head(mic_fifo), of |-> {}]
          /\ mic_fifo' = Tail(mic_fifo)
    /\ UNCHANGED <<todo, event, linkVars, mic_epoch, mic_ring, endpoint_in, speakerVars,
                   current, decoder, decoder_epoch, encoder, encoder_epoch>>

LoadMicEpoch ==
    /\ pc = "load"
    /\ current' = mic_epoch /\ pc' = "check"
    /\ UNCHANGED <<todo, event, linkVars, micVars, speakerVars, mic_work, element,
                   decoder, decoder_epoch, encoder, encoder_epoch>>

\* OPUS_RESET_STATE when the epoch is another
Renewed(codec, was, now) == IF was = now THEN codec ELSE {}

CheckMic ==
    /\ pc = "check"
    /\ IF HasDecoder /\ element.epoch = current /\ mic_enabled
       THEN /\ decoder' = Renewed(decoder, decoder_epoch, current)
            /\ decoder_epoch' = current /\ pc' = "decode"
       ELSE UNCHANGED <<decoder, decoder_epoch>> /\ pc' = "speaker"
    /\ UNCHANGED <<todo, event, linkVars, micVars, speakerVars, mic_work, element, current,
                   encoder, encoder_epoch>>

\* opus_decode, which may refuse the frame
Decode ==
    /\ pc = "decode"
    /\ decoder' = decoder \cup {element.epoch}
    /\ pc' \in {"enter", "speaker"}
    /\ UNCHANGED <<todo, event, linkVars, micVars, speakerVars, mic_work, element, current,
                   decoder_epoch, encoder, encoder_epoch>>

\* Mutant of StillWanted: no second look after the decoding.
StillWantedAnyway == TRUE

\* The second look, inside mic_cs
StillWanted == element.epoch = mic_epoch /\ mic_enabled

EnterMicCs ==
    /\ pc = "enter"
    /\ pc' = IF StillWanted THEN "pushing" ELSE "speaker"
    /\ UNCHANGED <<todo, event, linkVars, micVars, speakerVars, mic_work, element, current,
                   decoder, decoder_epoch, encoder, encoder_epoch>>

\* mic_ring.push
Push ==
    /\ pc = "pushing"
    /\ mic_ring' = mic_ring \cup {element.epoch} /\ pc' = "speaker"
    /\ UNCHANGED <<todo, event, linkVars, mic_epoch, mic_fifo, endpoint_in, speakerVars,
                   mic_work, element, current, decoder, decoder_epoch, encoder, encoder_epoch>>

\* queue_try_remove(&audio_fifo)
TakeSpeaker ==
    /\ pc = "speaker"
    /\ \/ /\ audio_fifo = <<>>
          /\ pc' = IF mic_work THEN "mic" ELSE "wfe"
          /\ UNCHANGED <<audio_fifo, element>>
       \/ /\ audio_fifo # <<>>
          /\ pc' = IF HasEncoder THEN "compare" ELSE "mic"
          /\ element' = Head(audio_fifo)
          /\ audio_fifo' = Tail(audio_fifo)
    /\ UNCHANGED <<todo, event, linkVars, micVars, audio_epoch, endpoint_out, audio_buf, opus_buf,
                   mic_work, current, decoder, decoder_epoch, encoder, encoder_epoch>>

Compare ==
    /\ pc = "compare"
    /\ IF element.epoch = audio_epoch
       THEN /\ encoder' = Renewed(encoder, encoder_epoch, audio_epoch)
            /\ encoder_epoch' = audio_epoch /\ pc' = "encode"
       ELSE UNCHANGED <<encoder, encoder_epoch>> /\ pc' = "mic"
    /\ UNCHANGED <<todo, event, linkVars, micVars, speakerVars, mic_work, element, current,
                   decoder, decoder_epoch>>

Encode ==
    /\ pc = "encode"
    /\ encoder' = encoder \cup element.of
    /\ pc' = "leave"
    /\ UNCHANGED <<todo, event, linkVars, micVars, speakerVars, mic_work, element, current,
                   decoder, decoder_epoch, encoder_epoch>>

\* The second look, inside opus_cs
StillPlayed == element.epoch = audio_epoch

EnterOpusCs ==
    /\ pc = "leave"
    /\ pc' = IF StillPlayed THEN "publishing" ELSE "mic"
    /\ UNCHANGED <<todo, event, linkVars, micVars, speakerVars, mic_work, element, current,
                   decoder, decoder_epoch, encoder, encoder_epoch>>

\* opus_buf and opus_data_valid, whether the encoder succeeded or not
Publish ==
    /\ pc = "publishing"
    /\ opus_buf' \in {[valid |-> TRUE, of |-> encoder], [valid |-> FALSE, of |-> {}]}
    /\ pc' = "mic"
    /\ UNCHANGED <<todo, event, linkVars, micVars, audio_epoch, audio_fifo, endpoint_out, audio_buf,
                   mic_work, element, current, decoder, decoder_epoch, encoder, encoder_epoch>>

\* __wfe
Wake ==
    /\ pc = "wfe" /\ event
    /\ event' = FALSE /\ pc' = "mic"
    /\ UNCHANGED <<todo, linkVars, micVars, speakerVars, mic_work, element, current,
                   decoder, decoder_epoch, encoder, encoder_epoch>>

Core1 ==
    \/ TakeMic \/ LoadMicEpoch \/ CheckMic \/ Decode \/ EnterMicCs \/ Push
    \/ TakeSpeaker \/ Compare \/ Encode \/ EnterOpusCs \/ Publish \/ Wake

Next == Start \/ Continue \/ Interrupt \/ Core1

Spec == Init /\ [][Next]_vars

\* Core 0 gets on with its handler, core 1 with its loop.
FairSpec == Spec /\ WF_vars(Continue) /\ WF_vars(Core1)

-----------------------------------------------------------------------------
(* Properties.                                                             *)

CoreStates ==
    {"mic", "load", "check", "decode", "enter", "pushing", "speaker", "compare",
     "encode", "leave", "publishing", "wfe"}

\* Queues stay within their capacity, the retries within three.
TypeOK ==
    /\ todo \subseteq Steps /\ event \in BOOLEAN /\ pc \in CoreStates
    /\ connected \in BOOLEAN /\ mic_last_connection \in BOOLEAN
    /\ mic_host_open \in BOOLEAN /\ mic_enabled \in BOOLEAN
    /\ mic_state_retries \in 0 .. 3 /\ told \in {"unknown", "on", "off"}
    /\ mic_epoch \in Epochs /\ audio_epoch \in Epochs
    /\ mic_fifo \in Seq(Epochs) /\ Len(mic_fifo) <= MicFrames
    /\ audio_fifo \in Seq(Frame) /\ Len(audio_fifo) <= SpeakerFrames
    /\ mic_ring \subseteq Epochs /\ endpoint_in \subseteq Epochs
    /\ endpoint_out \subseteq Epochs /\ audio_buf \subseteq Epochs
    /\ opus_buf \in [valid : BOOLEAN, of : SUBSET Epochs]
    /\ mic_work \in BOOLEAN /\ element \in Frame /\ current \in Epochs
    /\ decoder \subseteq Epochs /\ encoder \subseteq Epochs
    /\ decoder_epoch \in Epochs /\ encoder_epoch \in Epochs

\* Once reset_mic_buffers is through, the host hears no sample of a former
\* stream, though core 1 may have been decoding or pushing one (audio.cpp:187).
MicIsCurrent ==
    "clearRing" \notin todo => mic_ring \cup endpoint_in \subseteq {mic_epoch}

\* A microphone that is off is silent, whatever core 1 still holds.
SilentWhenOff ==
    ~mic_enabled /\ "clearRing" \notin todo => mic_ring = {} /\ endpoint_in = {}

\* After reset_speaker_buffers the controller is sent nothing of a former
\* session, neither from the encoder nor from a frame half collected.
OpusIsCurrent == "clearOpus" \notin todo => opus_buf.of \subseteq {audio_epoch}

\* No codec predicts a frame of one stream from the state of another.
CodecsUnmixed == decoder \subseteq {decoder_epoch} /\ encoder \subseteq {encoder_epoch}

\* Whoever hears or predicts a sample does so in the stream of that sample.
StreamsAreCurrent == MicIsCurrent /\ OpusIsCurrent /\ CodecsUnmixed

\* Core 1 never sleeps on a frame: whatever comes between its look at a queue
\* and its __wfe, the event is latched or still to come.
NoLostWakeup ==
    pc = "wfe" /\ ~event /\ "sev" \notin todo => mic_fifo = <<>> /\ audio_fifo = <<>>

\* When no report is left to send, the controller of this link was told
\* the state its microphone is in.
MicStateTold ==
    connected /\ mic_last_connection /\ mic_state_retries = 0
        => told = IF mic_enabled THEN "on" ELSE "off"

\* The microphone is what the host has made of it, at both of its ends: silent
\* for the host, and told to the controller.
MicFollowsHost == SilentWhenOff /\ MicStateTold

\* A frame in a queue is looked at or dropped; neither stream starves the other.
MicServed == mic_fifo # <<>> ~> (mic_fifo = <<>> \/ pc = "load")
SpeakerServed == audio_fifo # <<>> ~> (audio_fifo = <<>> \/ pc = "compare")

\* Both, on the one core and the one event they share.
FramesServed == MicServed /\ SpeakerServed

=============================================================================
