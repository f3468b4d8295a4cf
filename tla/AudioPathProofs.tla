--------------------------- MODULE AudioPathProofs ---------------------------
(***************************************************************************)
(* The invariants of AudioPath, for every capacity of the queues and any   *)
(* number of resets: each is one conjunct of an inductive invariant that   *)
(* adds where core 1 may be while core 0 is between two steps.  Then the   *)
(* ring of MicRing, for every capacity, priming level, packet length and   *)
(* sample: its indices stay in agreement, and it implements LossyFifo.     *)
(***************************************************************************)
EXTENDS AudioPath, MicRing, SequenceTheorems, TLAPS

-----------------------------------------------------------------------------
(* The inductive invariant.                                                *)

\* A handler has the later steps of a reset before it when it has the earlier;
\* a frame is added in a queue with room, and no reset runs meanwhile.
InOrder ==
    /\ "bumpMic" \in todo => "drainMic" \in todo
    /\ "drainMic" \in todo => "clearRing" \in todo
    /\ "bumpSpeaker" \in todo => "clearOut" \in todo
    /\ "clearOut" \in todo => "drainSpeaker" \in todo
    /\ "drainSpeaker" \in todo => "clearOpus" \in todo
    /\ "roomMic" \in todo => "addMic" \in todo
    /\ "roomSpeaker" \in todo => "addSpeaker" \in todo
    /\ "addMic" \in todo => "sev" \in todo
    /\ "addSpeaker" \in todo => "sev" \in todo /\ "clearOut" \notin todo
    /\ "addMic" \in todo /\ "roomMic" \notin todo => Len(mic_fifo) < MicFrames
    /\ "addSpeaker" \in todo /\ "roomSpeaker" \notin todo => Len(audio_fifo) < SpeakerFrames

\* A push that has passed its second look is of the epoch, or is cleared later.
PushIsCurrent ==
    "clearRing" \notin todo /\ pc = "pushing" => element.epoch = mic_epoch /\ mic_enabled

\* The microphone from the queue to the endpoint
MicSound == PushIsCurrent /\ MicIsCurrent /\ SilentWhenOff

\* Frames are made of samples of their own epoch.
FramesWhole ==
    /\ audio_buf \subseteq {audio_epoch}
    /\ "clearOut" \notin todo => endpoint_out \subseteq {audio_epoch}
    /\ \A i \in 1 .. Len(audio_fifo) : audio_fifo[i].of \subseteq {audio_fifo[i].epoch}
    /\ element.of \subseteq {element.epoch}

\* What core 1 has compared is the epoch of its codec.
CodecOfElement ==
    /\ pc = "decode" => element.epoch = decoder_epoch
    /\ pc \in {"encode", "leave", "publishing"} => element.epoch = encoder_epoch
    /\ "clearOpus" \notin todo /\ pc = "publishing" => element.epoch = audio_epoch

\* The speaker from the host to the report
SpeakerSound == FramesWhole /\ CodecOfElement /\ CodecsUnmixed /\ OpusIsCurrent

\* On its way to __wfe core 1 has seen queues that are empty still, or the
\* event is set or coming.
OnTheWay ==
    /\ pc \in {"load", "check", "decode", "enter", "pushing"} => mic_work
    /\ ~event /\ "sev" \notin todo /\ pc = "speaker" /\ ~mic_work => mic_fifo = <<>>

WakeSound == OnTheWay /\ NoLostWakeup

Sound == TypeOK /\ InOrder /\ MicSound /\ SpeakerSound /\ WakeSound /\ MicStateTold

-----------------------------------------------------------------------------
(* The initial states, and the types.                                      *)

LEMMA InitSound ==
    ASSUME Init
    PROVE  Sound
<1> USE AudioAssumption DEF Init, NoEpoch, Epochs, NoFrame, Frame
<1>1. TypeOK
    <2>1. mic_fifo \in Seq(Epochs) /\ Len(mic_fifo) = 0 /\ audio_fifo \in Seq(Frame) /\ Len(audio_fifo) = 0
        OBVIOUS
    <2>2. Len(mic_fifo) <= MicFrames /\ Len(audio_fifo) <= SpeakerFrames
        BY <2>1
    <2>3. opus_buf \in [valid : BOOLEAN, of : SUBSET Epochs] /\ element \in Frame
        OBVIOUS
    <2>4. decoder_epoch \in Epochs
        OBVIOUS
    <2>5. /\ todo \subseteq Steps /\ pc \in CoreStates
          /\ mic_state_retries \in 0 .. 3 /\ told \in {"unknown", "on", "off"}
        BY DEF Steps, CoreStates
    <2>6. /\ event \in BOOLEAN /\ connected \in BOOLEAN /\ mic_last_connection \in BOOLEAN
          /\ mic_host_open \in BOOLEAN /\ mic_enabled \in BOOLEAN /\ mic_work \in BOOLEAN
        OBVIOUS
    <2>7. /\ mic_epoch \in Epochs /\ audio_epoch \in Epochs /\ current \in Epochs
          /\ mic_ring \subseteq Epochs /\ endpoint_in \subseteq Epochs
          /\ endpoint_out \subseteq Epochs /\ audio_buf \subseteq Epochs
          /\ decoder \subseteq Epochs /\ encoder \subseteq Epochs /\ encoder_epoch \in Epochs
        OBVIOUS
    <2> QED BY ONLY <2>1, <2>2, <2>3, <2>4, <2>5, <2>6, <2>7 DEF TypeOK
<1>2. InOrder /\ MicSound
    BY DEF InOrder, MicSound, PushIsCurrent, MicIsCurrent, SilentWhenOff
<1>3. SpeakerSound
    BY DEF SpeakerSound, FramesWhole, CodecOfElement, CodecsUnmixed, OpusIsCurrent
<1>4. WakeSound /\ MicStateTold
    BY DEF WakeSound, OnTheWay, NoLostWakeup, MicStateTold
<1> QED BY <1>1, <1>2, <1>3, <1>4 DEF Sound

\* A queue with its oldest element removed
LEMMA MakeRoomType ==
    ASSUME NEW S, NEW q \in Seq(S)
    PROVE  /\ MakeRoom(q) \in Seq(S)
           /\ q # <<>> => Len(MakeRoom(q)) = Len(q) - 1
           /\ q = <<>> => MakeRoom(q) = <<>>
           /\ \A i \in 1 .. Len(MakeRoom(q)) : \E j \in 1 .. Len(q) : MakeRoom(q)[i] = q[j]
<1>1. CASE q = <<>>
    BY <1>1 DEF MakeRoom
<1>2. CASE q # <<>>
    BY <1>2, HeadTailProperties, LenProperties DEF MakeRoom
<1> QED BY <1>1, <1>2

LEMMA StartType ==
    ASSUME TypeOK, InOrder, Start
    PROVE  TypeOK'
<1> USE DEF TypeOK, linkVars, micVars, speakerVars, coreVars
<1>1. CASE LinkUp \/ LinkDown
    BY <1>1 DEF LinkUp, LinkDown
<1>2. CASE CloseSpeaker \/ BtInput
    BY <1>2 DEF CloseSpeaker, BtInput, AddSteps, Steps, SpeakerReset
<1>3. CASE AudioLoop \/ Discard
    BY <1>3 DEF AudioLoop, Discard, AddSteps, Steps
<1>4. ASSUME NEW b \in BOOLEAN, SetOpen(b) \/ ResetSession(b)
      PROVE  TypeOK'
    BY <1>4 DEF SetOpen, ResetSession, Steps
<1>5. ASSUME NEW b \in BOOLEAN, Service(b)
      PROVE  TypeOK'
    BY <1>5 DEF Service, Steps, MicReset
<1> QED BY <1>1, <1>2, <1>3, <1>4, <1>5 DEF Start

LEMMA ContinueType ==
    ASSUME TypeOK, InOrder, Continue
    PROVE  TypeOK'
<1> USE DEF TypeOK, linkVars, micVars, speakerVars, coreVars, Step, Epochs, Frame
<1>1. CASE BumpMic
    BY <1>1 DEF BumpMic, NextEpoch
<1>11. CASE BumpSpeaker
    BY <1>11 DEF BumpSpeaker, NextEpoch, Collected
<1>2. CASE DrainMic
    BY <1>2, AudioAssumption DEF DrainMic
<1>3. CASE DrainSpeaker
    BY <1>3, AudioAssumption DEF DrainSpeaker
<1>4. CASE ClearRing \/ ClearOut \/ Sev
    BY <1>4 DEF ClearRing, Cleared, ClearOut, Sev
<1>5. CASE ClearOpus
    BY <1>5 DEF ClearOpus
<1>6. CASE Tell
    BY <1>6 DEF Tell, CountDown
<1>7. CASE RoomMic
    <2>1. mic_fifo' \in Seq(Epochs) /\ Len(mic_fifo') <= Len(mic_fifo)
        BY <1>7, MakeRoomType, LenProperties DEF RoomMic
    <2>2. Len(mic_fifo') <= MicFrames
        BY <2>1, LenProperties, AudioAssumption
    <2> QED BY <1>7, <2>1, <2>2 DEF RoomMic
<1>8. CASE RoomSpeaker
    <2>1. audio_fifo' \in Seq(Frame) /\ Len(audio_fifo') <= Len(audio_fifo)
        BY <1>8, MakeRoomType, LenProperties DEF RoomSpeaker
    <2>2. Len(audio_fifo') <= SpeakerFrames
        BY <2>1, LenProperties, AudioAssumption
    <2> QED BY <1>8, <2>1, <2>2 DEF RoomSpeaker
<1>9. CASE AddMic
    <2>1. Len(mic_fifo) < MicFrames
        BY <1>9 DEF AddMic, InOrder
    <2>2. mic_fifo' \in Seq(Epochs) /\ Len(mic_fifo') = Len(mic_fifo) + 1
        BY <1>9, AppendProperties DEF AddMic
    <2> QED BY <1>9, <2>1, <2>2, LenProperties, AudioAssumption DEF AddMic
<1>10. CASE AddSpeaker
    <2>1. Len(audio_fifo) < SpeakerFrames
        BY <1>10 DEF AddSpeaker, InOrder
    <2>2. [epoch |-> audio_epoch, of |-> audio_buf] \in Frame
        OBVIOUS
    <2>3. audio_fifo' \in Seq(Frame) /\ Len(audio_fifo') = Len(audio_fifo) + 1
        BY <1>10, <2>2, AppendProperties DEF AddSpeaker
    <2> QED BY <1>10, <2>1, <2>3, LenProperties, AudioAssumption DEF AddSpeaker
<1> QED BY <1>1, <1>2, <1>3, <1>4, <1>5, <1>6, <1>7, <1>8, <1>9, <1>10, <1>11 DEF Continue

LEMMA InterruptType ==
    ASSUME TypeOK, Interrupt
    PROVE  TypeOK'
<1> USE DEF TypeOK, linkVars, micVars, speakerVars, coreVars
<1>1. CASE TxDone
    BY <1>1 DEF TxDone, Heard
<1>2. CASE HostReads \/ HostPlays
    BY <1>2 DEF HostReads, HostPlays
<1> QED BY <1>1, <1>2 DEF Interrupt

LEMMA PublishType ==
    ASSUME TypeOK, Publish
    PROVE  opus_buf' \in [valid : BOOLEAN, of : SUBSET Epochs]
<1>1. encoder \in SUBSET Epochs
    BY DEF TypeOK
<1>2. CASE opus_buf' = [valid |-> TRUE, of |-> encoder]
    BY <1>1, <1>2
<1>3. CASE opus_buf' = [valid |-> FALSE, of |-> {}]
    BY <1>3
<1> QED BY <1>2, <1>3 DEF Publish

LEMMA Core1Type ==
    ASSUME TypeOK, Core1
    PROVE  TypeOK'
<1> USE DEF TypeOK, linkVars, micVars, speakerVars, coreVars, CoreStates
<1>1. CASE TakeMic
    <2>1. CASE mic_fifo = <<>>
        BY <1>1, <2>1 DEF TakeMic
    <2>2. CASE mic_fifo # <<>>
        <3>1. /\ Head(mic_fifo) \in Epochs /\ Tail(mic_fifo) \in Seq(Epochs)
              /\ Len(Tail(mic_fifo)) = Len(mic_fifo) - 1
            BY <2>2, HeadTailProperties
        <3>2. element' \in Frame
            BY <1>1, <2>2, <3>1 DEF TakeMic, Frame
        <3>3. Len(mic_fifo') <= MicFrames
            BY <1>1, <2>2, <3>1, LenProperties, AudioAssumption DEF TakeMic
        <3>4. mic_fifo' \in Seq(Epochs)
            BY <1>1, <2>2, <3>1 DEF TakeMic
        <3> QED BY <1>1, <2>2, <3>2, <3>3, <3>4 DEF TakeMic
    <2> QED BY <2>1, <2>2
<1>2. CASE LoadMicEpoch \/ CheckMic
    BY <1>2 DEF LoadMicEpoch, CheckMic, Renewed
<1>3. CASE Decode \/ EnterMicCs \/ Push
    BY <1>3 DEF Decode, EnterMicCs, Push, Frame
<1>4. CASE TakeSpeaker
    <2>1. CASE audio_fifo = <<>>
        BY <1>4, <2>1 DEF TakeSpeaker
    <2>2. CASE audio_fifo # <<>>
        <3>1. /\ Head(audio_fifo) \in Frame /\ Tail(audio_fifo) \in Seq(Frame)
              /\ Len(Tail(audio_fifo)) = Len(audio_fifo) - 1
            BY <2>2, HeadTailProperties
        <3> QED BY <1>4, <2>2, <3>1, LenProperties, AudioAssumption DEF TakeSpeaker
    <2> QED BY <2>1, <2>2
<1>5. CASE Compare \/ Encode
    BY <1>5 DEF Compare, Encode, Renewed, Frame
<1>6. CASE EnterOpusCs \/ Wake
    BY <1>6 DEF EnterOpusCs, Wake
<1>7. CASE Publish
    <2>1. opus_buf' \in [valid : BOOLEAN, of : SUBSET Epochs]
        BY <1>7, PublishType
    <2> QED BY <1>7, <2>1 DEF Publish
<1> QED BY <1>1, <1>2, <1>3, <1>4, <1>5, <1>6, <1>7 DEF Core1

\* Every step keeps the types.
LEMMA NextType ==
    ASSUME TypeOK, InOrder, [Next]_vars
    PROVE  TypeOK'
<1>1. CASE UNCHANGED vars
    BY <1>1 DEF TypeOK, vars, linkVars, micVars, speakerVars, coreVars
<1> QED BY <1>1, StartType, ContinueType, InterruptType, Core1Type DEF Next

-----------------------------------------------------------------------------
(* The order of the steps.                                                 *)

LEMMA StartOrder ==
    ASSUME TypeOK, InOrder, Start
    PROVE  InOrder'
<1> USE DEF InOrder, Free, linkVars, micVars, speakerVars, coreVars
<1>1. CASE LinkUp \/ LinkDown
    BY <1>1 DEF LinkUp, LinkDown
<1>2. CASE CloseSpeaker
    BY <1>2 DEF CloseSpeaker, SpeakerReset
<1>3. CASE BtInput
    <2>1. Len(mic_fifo) # MicFrames => Len(mic_fifo) < MicFrames
        BY AudioAssumption, LenProperties DEF TypeOK
    <2> QED BY <1>3, <2>1 DEF BtInput, AddSteps
<1>4. CASE AudioLoop
    <2>1. Len(audio_fifo) # SpeakerFrames => Len(audio_fifo) < SpeakerFrames
        BY AudioAssumption, LenProperties DEF TypeOK
    <2> QED BY <1>4, <2>1 DEF AudioLoop, AddSteps
<1>5. CASE Discard
    BY <1>5 DEF Discard
<1>6. ASSUME NEW b \in BOOLEAN, SetOpen(b) \/ ResetSession(b) \/ Service(b)
      PROVE  InOrder'
    BY <1>6 DEF SetOpen, ResetSession, Service, MicReset, SpeakerReset
<1> QED BY <1>1, <1>2, <1>3, <1>4, <1>5, <1>6 DEF Start

LEMMA ContinueOrder ==
    ASSUME TypeOK, InOrder, Continue
    PROVE  InOrder'
<1> USE DEF InOrder, Step, linkVars, micVars, speakerVars, coreVars
<1>1. CASE BumpMic \/ ClearRing
    BY <1>1 DEF BumpMic, ClearRing
<1>2. CASE DrainMic
    <2>1. Len(mic_fifo') = 0
        BY <1>2 DEF DrainMic
    <2> QED BY <1>2, <2>1, AudioAssumption DEF DrainMic
<1>3. CASE Tell \/ Sev
    BY <1>3 DEF Tell, Sev, MicReset
<1>4. CASE RoomMic
    <2>1. Len(mic_fifo') < MicFrames
        BY <1>4, MakeRoomType, LenProperties, AudioAssumption DEF RoomMic, TypeOK
    <2> QED BY <1>4, <2>1 DEF RoomMic
<1>5. CASE RoomSpeaker
    <2>1. Len(audio_fifo') < SpeakerFrames
        BY <1>5, MakeRoomType, LenProperties, AudioAssumption DEF RoomSpeaker, TypeOK
    <2> QED BY <1>5, <2>1 DEF RoomSpeaker
<1>6. CASE AddMic \/ AddSpeaker
    BY <1>6 DEF AddMic, AddSpeaker
<1>7. CASE BumpSpeaker \/ ClearOut \/ ClearOpus
    BY <1>7 DEF BumpSpeaker, ClearOut, ClearOpus, MicReset
<1>8. CASE DrainSpeaker
    <2>1. Len(audio_fifo') = 0
        BY <1>8 DEF DrainSpeaker
    <2> QED BY <1>8, <2>1, AudioAssumption DEF DrainSpeaker
<1> QED BY <1>1, <1>2, <1>3, <1>4, <1>5, <1>6, <1>7, <1>8 DEF Continue

\* Core 1 makes the queues shorter and leaves the steps alone.
LEMMA Core1Order ==
    ASSUME TypeOK, InOrder, Core1
    PROVE  InOrder'
<1>1. todo' = todo
    BY DEF Core1, TakeMic, LoadMicEpoch, CheckMic, Decode, EnterMicCs, Push, TakeSpeaker, Compare,
           Encode, EnterOpusCs, Publish, Wake
<1>2. Len(mic_fifo) < MicFrames => Len(mic_fifo') < MicFrames
    <2>1. CASE mic_fifo' = mic_fifo
        BY <2>1
    <2>2. CASE mic_fifo # <<>> /\ mic_fifo' = Tail(mic_fifo)
        BY <2>2, HeadTailProperties, LenProperties, AudioAssumption DEF TypeOK
    <2> QED
        BY <2>1, <2>2 DEF Core1, TakeMic, LoadMicEpoch, CheckMic, Decode, EnterMicCs, Push, TakeSpeaker,
           Compare, Encode, EnterOpusCs, Publish, Wake, micVars
<1>3. Len(audio_fifo) < SpeakerFrames => Len(audio_fifo') < SpeakerFrames
    <2>1. CASE audio_fifo' = audio_fifo
        BY <2>1
    <2>2. CASE audio_fifo # <<>> /\ audio_fifo' = Tail(audio_fifo)
        BY <2>2, HeadTailProperties, LenProperties, AudioAssumption DEF TypeOK
    <2> QED
        BY <2>1, <2>2 DEF Core1, TakeMic, LoadMicEpoch, CheckMic, Decode, EnterMicCs, Push, TakeSpeaker,
           Compare, Encode, EnterOpusCs, Publish, Wake, speakerVars
<1> QED BY <1>1, <1>2, <1>3 DEF InOrder

LEMMA NextOrder ==
    ASSUME TypeOK, InOrder, [Next]_vars
    PROVE  InOrder'
<1>1. CASE UNCHANGED vars
    BY <1>1 DEF InOrder, vars, micVars, speakerVars
<1>2. CASE Interrupt
    BY <1>2 DEF Interrupt, TxDone, HostReads, HostPlays, InOrder, micVars, speakerVars
<1> QED BY <1>1, <1>2, StartOrder, ContinueOrder, Core1Order DEF Next

-----------------------------------------------------------------------------
(* The microphone.                                                         *)

\* The steps that touch the stream while a reset is under way are covered by
\* the clearing of the ring, which is still to come; no other step adds a
\* sample but a push that has just been found current.
LEMMA NextMic ==
    ASSUME TypeOK, InOrder, MicSound, [Next]_vars
    PROVE  MicSound'
<1> USE DEF MicSound, PushIsCurrent, MicIsCurrent, SilentWhenOff, linkVars, micVars, speakerVars, coreVars
<1>1. CASE UNCHANGED vars
    BY <1>1 DEF vars
<1>2. CASE Start
    <2>1. CASE LinkUp \/ LinkDown \/ CloseSpeaker \/ AudioLoop \/ Discard
        BY <1>2, <2>1 DEF LinkUp, LinkDown, CloseSpeaker, AudioLoop, Discard, Free
    <2>2. CASE BtInput
        BY <2>2 DEF BtInput, Free
    <2>3. ASSUME NEW b \in BOOLEAN, SetOpen(b) \/ ResetSession(b) \/ Service(b)
          PROVE  MicSound'
        BY <2>3 DEF SetOpen, ResetSession, Service, MicReset, Free
    <2> QED BY <1>2, <2>1, <2>2, <2>3 DEF Start
<1>3. CASE Continue
    <2> USE DEF Step
    <2>1. CASE BumpMic
        BY <2>1 DEF BumpMic, InOrder
    <2>2. CASE DrainMic \/ RoomMic \/ AddMic \/ Sev
        BY <2>2 DEF DrainMic, RoomMic, AddMic, Sev
    <2>3. CASE ClearRing
        BY <2>3 DEF ClearRing, Cleared, InMicCs
    <2>4. CASE Tell \/ RoomSpeaker \/ AddSpeaker
        BY <2>4 DEF Tell, RoomSpeaker, AddSpeaker
    <2>5. CASE BumpSpeaker \/ ClearOut \/ DrainSpeaker \/ ClearOpus
        BY <2>5 DEF BumpSpeaker, ClearOut, DrainSpeaker, ClearOpus
    <2> QED BY <1>3, <2>1, <2>2, <2>3, <2>4, <2>5 DEF Continue
<1>4. CASE Interrupt
    BY <1>4 DEF Interrupt, TxDone, HostReads, HostPlays, Heard
<1>5. CASE Core1
    <2>1. CASE TakeMic \/ LoadMicEpoch \/ CheckMic \/ Decode
        BY <2>1 DEF TakeMic, LoadMicEpoch, CheckMic, Decode
    <2>2. CASE EnterMicCs
        BY <2>2 DEF EnterMicCs, StillWanted
    <2>3. CASE Push
        BY <2>3 DEF Push
    <2>4. CASE TakeSpeaker \/ Compare \/ Encode
        BY <2>4 DEF TakeSpeaker, Compare, Encode
    <2>5. CASE EnterOpusCs \/ Publish \/ Wake
        BY <2>5 DEF EnterOpusCs, Publish, Wake
    <2> QED BY <1>5, <2>1, <2>2, <2>3, <2>4, <2>5 DEF Core1
<1> QED BY <1>1, <1>2, <1>3, <1>4, <1>5 DEF Next

LEMMA NextTold ==
    ASSUME TypeOK, MicStateTold, [Next]_vars
    PROVE  MicStateTold'
<1> USE DEF MicStateTold, linkVars, micVars, speakerVars, coreVars
<1>1. CASE UNCHANGED linkVars
    BY <1>1
<1>2. CASE LinkUp \/ LinkDown
    BY <1>2 DEF LinkUp, LinkDown
<1>3. ASSUME NEW b \in BOOLEAN, SetOpen(b) \/ ResetSession(b)
      PROVE  MicStateTold'
    <2>1. UNCHANGED <<connected, mic_last_connection, mic_enabled, mic_state_retries, told>>
        BY <1>3, Zenon DEF SetOpen, ResetSession
    <2> QED BY <2>1
<1>4. ASSUME NEW b \in BOOLEAN, Service(b)
      PROVE  MicStateTold'
    BY <1>4 DEF Service, Rearmed
<1>5. CASE Tell
    BY <1>5 DEF Tell, CountDown, TypeOK
<1>6. [Next]_vars => \/ UNCHANGED linkVars \/ LinkUp \/ LinkDown \/ Tell
                     \/ \E b \in BOOLEAN : SetOpen(b) \/ ResetSession(b) \/ Service(b)
    <2>1. Start => \/ UNCHANGED linkVars \/ LinkUp \/ LinkDown
                   \/ \E b \in BOOLEAN : SetOpen(b) \/ ResetSession(b) \/ Service(b)
        BY DEF Start, CloseSpeaker, BtInput, AudioLoop, Discard
    <2>2. Continue => UNCHANGED linkVars \/ Tell
        BY DEF Continue, BumpMic, DrainMic, ClearRing, RoomMic, AddMic, Sev, RoomSpeaker, AddSpeaker,
               BumpSpeaker, ClearOut, DrainSpeaker, ClearOpus
    <2>3. Interrupt => UNCHANGED linkVars
        BY DEF Interrupt, TxDone, HostReads, HostPlays
    <2>4. Core1 => UNCHANGED linkVars
        BY DEF Core1, TakeMic, LoadMicEpoch, CheckMic, Decode, EnterMicCs, Push, TakeSpeaker, Compare,
               Encode, EnterOpusCs, Publish, Wake
    <2>5. UNCHANGED vars => UNCHANGED linkVars
        BY DEF vars
    <2> QED BY <2>1, <2>2, <2>3, <2>4, <2>5 DEF Next
<1> QED BY <1>1, <1>2, <1>3, <1>4, <1>5, <1>6

-----------------------------------------------------------------------------
(* The speaker.                                                            *)

LEMMA StartSpeaker ==
    ASSUME TypeOK, SpeakerSound, Start
    PROVE  SpeakerSound'
<1> USE DEF SpeakerSound, FramesWhole, CodecOfElement, CodecsUnmixed, OpusIsCurrent, Free,
            linkVars, micVars, speakerVars, coreVars
<1>1. CASE LinkUp \/ LinkDown \/ CloseSpeaker \/ Discard
    BY <1>1 DEF LinkUp, LinkDown, CloseSpeaker, Discard
<1>2. CASE BtInput \/ AudioLoop
    BY <1>2 DEF BtInput, AudioLoop
<1>3. ASSUME NEW b \in BOOLEAN, SetOpen(b) \/ ResetSession(b) \/ Service(b)
      PROVE  SpeakerSound'
    BY <1>3 DEF SetOpen, ResetSession, Service
<1> QED BY <1>1, <1>2, <1>3 DEF Start

LEMMA ContinueSpeaker ==
    ASSUME TypeOK, InOrder, SpeakerSound, Continue
    PROVE  SpeakerSound'
<1> USE DEF SpeakerSound, FramesWhole, CodecOfElement, CodecsUnmixed, OpusIsCurrent, Step,
            linkVars, micVars, speakerVars, coreVars
<1>1. CASE BumpMic \/ DrainMic \/ ClearRing \/ Tell \/ RoomMic \/ AddMic \/ Sev
    BY <1>1 DEF BumpMic, DrainMic, ClearRing, Tell, RoomMic, AddMic, Sev
<1>2. CASE RoomSpeaker
    <2>1. \A i \in 1 .. Len(audio_fifo') : \E j \in 1 .. Len(audio_fifo) : audio_fifo'[i] = audio_fifo[j]
        BY <1>2, MakeRoomType DEF RoomSpeaker, TypeOK
    <2>2. \A i \in 1 .. Len(audio_fifo') : audio_fifo'[i].of \subseteq {audio_fifo'[i].epoch}
        BY <2>1
    <2> QED BY <1>2, <2>2 DEF RoomSpeaker
<1>3. CASE AddSpeaker
    <2>1. DEFINE new == [epoch |-> audio_epoch, of |-> audio_buf]
    <2>2. new \in Frame /\ new.of \subseteq {new.epoch}
        BY DEF TypeOK, Frame
    <2>3. audio_fifo' = Append(audio_fifo, new) /\ audio_fifo \in Seq(Frame)
        BY <1>3 DEF AddSpeaker, TypeOK
    <2>4. /\ Len(audio_fifo') = Len(audio_fifo) + 1 /\ Len(audio_fifo) \in Nat
          /\ \A i \in 1 .. Len(audio_fifo) : audio_fifo'[i] = audio_fifo[i]
          /\ audio_fifo'[Len(audio_fifo) + 1] = new
        BY <2>2, <2>3, AppendProperties, LenProperties
    <2> HIDE DEF new
    <2>5. \A i \in 1 .. Len(audio_fifo') : audio_fifo'[i].of \subseteq {audio_fifo'[i].epoch}
        BY <2>2, <2>4
    <2> QED BY <1>3, <2>5 DEF AddSpeaker
<1>4. CASE BumpSpeaker
    BY <1>4 DEF BumpSpeaker, Collected, InOrder
<1>5. CASE ClearOut
    BY <1>5 DEF ClearOut
<1>6. CASE DrainSpeaker
    BY <1>6 DEF DrainSpeaker
<1>7. CASE ClearOpus
    BY <1>7 DEF ClearOpus, InOpusCs
<1> QED BY <1>1, <1>2, <1>3, <1>4, <1>5, <1>6, <1>7 DEF Continue

LEMMA Core1Speaker ==
    ASSUME TypeOK, SpeakerSound, Core1
    PROVE  SpeakerSound'
<1> USE DEF SpeakerSound, FramesWhole, CodecOfElement, CodecsUnmixed, OpusIsCurrent,
            linkVars, micVars, speakerVars, coreVars
<1>1. CASE TakeMic
    BY <1>1 DEF TakeMic
<1>2. CASE LoadMicEpoch \/ CheckMic
    BY <1>2 DEF LoadMicEpoch, CheckMic, Renewed
<1>3. CASE Decode \/ EnterMicCs \/ Push
    BY <1>3 DEF Decode, EnterMicCs, Push
<1>4. CASE TakeSpeaker
    <2>1. CASE audio_fifo = <<>>
        BY <1>4, <2>1 DEF TakeSpeaker
    <2>2. CASE audio_fifo # <<>>
        <3>1. /\ Len(Tail(audio_fifo)) = Len(audio_fifo) - 1 /\ Len(audio_fifo) \in Nat
              /\ \A i \in 1 .. Len(Tail(audio_fifo)) : Tail(audio_fifo)[i] = audio_fifo[i + 1]
              /\ Head(audio_fifo) = audio_fifo[1] /\ Len(audio_fifo) >= 1
            BY <2>2, HeadTailProperties, LenProperties DEF TypeOK
        <3>2. Head(audio_fifo).of \subseteq {Head(audio_fifo).epoch}
            BY <3>1
        <3>3. \A i \in 1 .. Len(Tail(audio_fifo)) : Tail(audio_fifo)[i].of \subseteq {Tail(audio_fifo)[i].epoch}
            BY <3>1
        <3> QED BY <1>4, <2>2, <3>2, <3>3 DEF TakeSpeaker
    <2> QED BY <2>1, <2>2
<1>5. CASE Compare
    BY <1>5 DEF Compare, Renewed
<1>6. CASE Encode
    BY <1>6 DEF Encode
<1>7. CASE EnterOpusCs
    BY <1>7 DEF EnterOpusCs, StillPlayed
<1>8. CASE Publish
    <2>1. opus_buf'.of \subseteq encoder
        BY <1>8 DEF Publish
    <2> QED BY <1>8, <2>1 DEF Publish
<1>9. CASE Wake
    BY <1>9 DEF Wake
<1> QED BY <1>1, <1>2, <1>3, <1>4, <1>5, <1>6, <1>7, <1>8, <1>9 DEF Core1

LEMMA NextSpeaker ==
    ASSUME TypeOK, InOrder, SpeakerSound, [Next]_vars
    PROVE  SpeakerSound'
<1> USE DEF SpeakerSound, FramesWhole, CodecOfElement, CodecsUnmixed, OpusIsCurrent,
            linkVars, micVars, speakerVars, coreVars
<1>1. CASE UNCHANGED vars
    BY <1>1 DEF vars
<1>2. CASE Interrupt
    BY <1>2 DEF Interrupt, TxDone, HostReads, HostPlays
<1> QED BY <1>1, <1>2, StartSpeaker, ContinueSpeaker, Core1Speaker DEF Next

-----------------------------------------------------------------------------
(* The sleep of core 1.                                                    *)

LEMMA NextWake ==
    ASSUME TypeOK, InOrder, WakeSound, [Next]_vars
    PROVE  WakeSound'
<1> USE DEF WakeSound, OnTheWay, NoLostWakeup, linkVars, micVars, speakerVars, coreVars
<1>1. CASE UNCHANGED vars
    BY <1>1 DEF vars
<1>2. CASE Start
    <2>1. CASE LinkUp \/ LinkDown \/ CloseSpeaker \/ AudioLoop \/ Discard \/ BtInput
        BY <1>2, <2>1 DEF LinkUp, LinkDown, CloseSpeaker, AudioLoop, Discard, BtInput, Free
    <2>2. ASSUME NEW b \in BOOLEAN, SetOpen(b) \/ ResetSession(b) \/ Service(b)
          PROVE  WakeSound'
        BY <2>2 DEF SetOpen, ResetSession, Service, Free
    <2> QED BY <1>2, <2>1, <2>2 DEF Start
<1>3. CASE Continue
    <2> USE DEF Step
    <2>1. CASE BumpMic \/ DrainMic \/ ClearRing \/ Tell \/ Sev
        BY <2>1 DEF BumpMic, DrainMic, ClearRing, Tell, Sev
    <2>2. CASE RoomMic \/ RoomSpeaker
        BY <2>2 DEF RoomMic, RoomSpeaker, MakeRoom
    <2>3. CASE AddMic \/ AddSpeaker
        BY <2>3 DEF AddMic, AddSpeaker, InOrder
    <2>4. CASE BumpSpeaker \/ ClearOut \/ DrainSpeaker \/ ClearOpus
        BY <2>4 DEF BumpSpeaker, ClearOut, DrainSpeaker, ClearOpus
    <2> QED BY <1>3, <2>1, <2>2, <2>3, <2>4 DEF Continue
<1>4. CASE Interrupt
    BY <1>4 DEF Interrupt, TxDone, HostReads, HostPlays
<1>5. CASE Core1
    <2>1. CASE TakeMic \/ LoadMicEpoch \/ CheckMic \/ Decode
        BY <2>1 DEF TakeMic, LoadMicEpoch, CheckMic, Decode
    <2>2. CASE EnterMicCs \/ Push
        BY <2>2 DEF EnterMicCs, Push
    <2>3. CASE TakeSpeaker
        BY <2>3 DEF TakeSpeaker
    <2>4. CASE Compare \/ Encode \/ EnterOpusCs \/ Publish \/ Wake
        BY <2>4 DEF Compare, Encode, EnterOpusCs, Publish, Wake
    <2> QED BY <1>5, <2>1, <2>2, <2>3, <2>4 DEF Core1
<1> QED BY <1>1, <1>2, <1>3, <1>4, <1>5 DEF Next

-----------------------------------------------------------------------------
(* The theorems.                                                           *)

LEMMA NextSound ==
    ASSUME Sound, [Next]_vars
    PROVE  Sound'
    BY NextType, NextOrder, NextMic, NextTold, NextSpeaker, NextWake DEF Sound

\* The inductive invariant of the two cores and the interrupt
THEOREM AlwaysSound == Spec => []Sound
    BY InitSound, NextSound, PTL DEF Spec

\* Queues never outgrow their capacity, whatever it is (queue_try_add of
\* audio_bt_input and audio_loop never fails).
THEOREM TypeCorrect == Spec => []TypeOK
<1>1. Sound => TypeOK
    BY DEF Sound
<1> QED BY <1>1, AlwaysSound, PTL

\* No sample of a former microphone stream outlives a reset (audio.cpp:187).
THEOREM HearsCurrentStream == Spec => []MicIsCurrent
<1>1. Sound => MicIsCurrent
    BY DEF Sound, MicSound
<1> QED BY <1>1, AlwaysSound, PTL

\* A microphone that is off is silent, whatever core 1 still holds.
THEOREM OffIsSilent == Spec => []SilentWhenOff
<1>1. Sound => SilentWhenOff
    BY DEF Sound, MicSound
<1> QED BY <1>1, AlwaysSound, PTL

\* No sample of a former speaker session outlives a reset.
THEOREM PlaysCurrentStream == Spec => []OpusIsCurrent
<1>1. Sound => OpusIsCurrent
    BY DEF Sound, SpeakerSound
<1> QED BY <1>1, AlwaysSound, PTL

\* No codec mixes two streams (OPUS_RESET_STATE on a new epoch).
THEOREM CodecsNeverMix == Spec => []CodecsUnmixed
<1>1. Sound => CodecsUnmixed
    BY DEF Sound, SpeakerSound
<1> QED BY <1>1, AlwaysSound, PTL

\* All three: no stream is heard, sent or predicted from in another.
THEOREM StreamsNeverMix == Spec => []StreamsAreCurrent
<1>1. MicIsCurrent /\ OpusIsCurrent /\ CodecsUnmixed => StreamsAreCurrent
    BY DEF StreamsAreCurrent
<1> QED BY <1>1, HearsCurrentStream, PlaysCurrentStream, CodecsNeverMix, PTL

\* Core 1 never sleeps on a frame (__wfe of core1_entry).
THEOREM NeverSleepsOnFrame == Spec => []NoLostWakeup
<1>1. Sound => NoLostWakeup
    BY DEF Sound, WakeSound
<1> QED BY <1>1, AlwaysSound, PTL

\* The controller is told the state its microphone is in (audio_mic_service).
THEOREM TellsState == Spec => []MicStateTold
<1>1. Sound => MicStateTold
    BY DEF Sound
<1> QED BY <1>1, AlwaysSound, PTL

\* Both: what the host makes of the microphone is what it is.
THEOREM MicObeys == Spec => []MicFollowsHost
<1>1. SilentWhenOff /\ MicStateTold => MicFollowsHost
    BY DEF MicFollowsHost
<1> QED BY <1>1, OffIsSilent, TellsState, PTL

-----------------------------------------------------------------------------
(* The ring of the microphone                                              *)

\* An index stays an index.
LEMMA AdvancedType ==
    ASSUME NEW i \in Index, NEW n \in 0 .. Capacity
    PROVE  Advanced(i, n) \in Index
    BY SizeAssumption DEF Advanced, Index

\* Advancing twice is advancing once by the sum.
LEMMA AdvancedSum ==
    ASSUME NEW i \in Index, NEW n \in 0 .. Capacity, NEW k \in 0 .. Capacity, n + k \in 0 .. Capacity
    PROVE  Advanced(Advanced(i, n), k) = Advanced(i, n + k)
    BY SizeAssumption DEF Advanced, Index

\* Fewer than a whole turn apart, two places of the ring differ.
LEMMA AdvancedDiffers ==
    ASSUME NEW i \in Index, NEW n \in 0 .. Capacity, NEW k \in 0 .. Capacity, n < k, k - n < Capacity
    PROVE  Advanced(i, n) # Advanced(i, k)
    BY SizeAssumption DEF Advanced, Index

\* What a packet takes is there.
LEMMA FramesType ==
    ASSUME RingTypeOK
    PROVE  Frames \in 0 .. Capacity /\ Frames <= count
    BY SizeAssumption DEF RingTypeOK, Frames

LEMMA RingInitType ==
    ASSUME RingInit
    PROVE  RingTypeOK
<1>1. served \in Seq(Sample)
    BY DEF RingInit
<1>2. /\ head \in Index /\ tail \in Index /\ count \in 0 .. Capacity
      /\ head = Advanced(tail, count)
    BY SizeAssumption DEF RingInit, Index, Advanced
<1> QED BY <1>1, <1>2 DEF RingInit, RingTypeOK

LEMMA PushType ==
    ASSUME RingTypeOK, NEW s \in Sample, PushSample(s)
    PROVE  RingTypeOK'
<1>1. CASE count = Capacity
    BY <1>1, SizeAssumption DEF RingTypeOK, PushSample, DropOldest, Index, Advanced
<1>2. CASE count # Capacity
    BY <1>2, SizeAssumption DEF RingTypeOK, PushSample, DropOldest, Index, Advanced
<1> QED BY <1>1, <1>2

LEMMA PlayType ==
    ASSUME RingTypeOK, Play
    PROVE  RingTypeOK'
<1>1. Frames \in 0 .. Capacity /\ Frames <= count
    BY FramesType
<1>2. /\ tail' = Advanced(tail, Frames) /\ count' = count - Frames
      /\ head' = head /\ samples' = samples /\ primed' = StaysPrimed
    BY DEF Play
<1>3. tail' \in Index /\ count' \in 0 .. Capacity /\ primed' \in BOOLEAN
    <2>1. tail' \in Index
        BY <1>1, <1>2, AdvancedType DEF RingTypeOK
    <2>2. count' \in 0 .. Capacity
        BY <1>1, <1>2, SizeAssumption DEF RingTypeOK
    <2> QED BY <1>2, <2>1, <2>2 DEF StaysPrimed
<1>4. head' = Advanced(tail', count')
    <2>1. count - Frames \in 0 .. Capacity /\ Frames + (count - Frames) = count /\ count \in 0 .. Capacity
        BY <1>1, SizeAssumption DEF RingTypeOK
    <2>2. Advanced(Advanced(tail, Frames), count - Frames) = Advanced(tail, count)
        BY <1>1, <2>1, AdvancedSum DEF RingTypeOK
    <2> QED BY <1>2, <2>2 DEF RingTypeOK
<1>5. \A i \in 1 .. Frames : samples[Advanced(tail, i - 1)] \in Sample
    <2> SUFFICES ASSUME NEW i \in 1 .. Frames
                 PROVE  samples[Advanced(tail, i - 1)] \in Sample
        OBVIOUS
    <2>1. i - 1 \in 0 .. Capacity
        BY <1>1, SizeAssumption
    <2> QED BY <2>1, AdvancedType DEF RingTypeOK
<1>6. served' \in Seq(Sample)
    BY <1>1, <1>5 DEF Play
<1> QED BY <1>2, <1>3, <1>4, <1>6 DEF RingTypeOK

\* Every step keeps the type of the ring and the agreement of its indices.
LEMMA RingNextType ==
    ASSUME RingTypeOK, [RingNext]_ringVars
    PROVE  RingTypeOK'
<1>1. CASE \E s \in Sample : PushSample(s)
    BY <1>1, PushType
<1>2. CASE Reset
    <2>1. head' \in Index /\ tail' \in Index /\ count' \in 0 .. Capacity
        BY <1>2, SizeAssumption DEF Reset, Index
    <2>2. Advanced(tail', count') = head'
        BY <1>2, SizeAssumption DEF Reset, Advanced
    <2> QED BY <1>2, <2>1, <2>2 DEF RingTypeOK, Reset
<1>3. CASE Silence
    BY <1>3 DEF RingTypeOK, Silence
<1>4. CASE Play
    BY <1>4, PlayType
<1>5. CASE UNCHANGED ringVars
    BY <1>5 DEF RingTypeOK, ringVars
<1> QED BY <1>1, <1>2, <1>3, <1>4, <1>5 DEF RingNext, Packet

\* Whatever is pushed, played and reset, head stays count places after tail,
\* for every capacity (the agreement BridgeMicRing::push and packet rely on).
THEOREM RingTypeCorrect == RingSpec => []RingTypeOK
    BY RingInitType, RingNextType, PTL DEF RingSpec

-----------------------------------------------------------------------------
(* The refinement.                                                         *)

LEMMA ContentsType ==
    ASSUME RingTypeOK
    PROVE  Contents \in Seq(Sample) /\ Len(Contents) = count
<1>1. \A i \in 1 .. count : samples[Advanced(tail, i - 1)] \in Sample
    <2> SUFFICES ASSUME NEW i \in 1 .. count
                 PROVE  samples[Advanced(tail, i - 1)] \in Sample
        OBVIOUS
    <2>1. i - 1 \in 0 .. Capacity
        BY SizeAssumption DEF RingTypeOK
    <2> QED BY <2>1, AdvancedType DEF RingTypeOK
<1> QED BY <1>1 DEF RingTypeOK, Contents

\* A sequence with an element more, as a function
LEMMA AppendForm ==
    ASSUME NEW q \in Seq(Sample), NEW s \in Sample
    PROVE  Append(q, s) = [i \in 1 .. Len(q) + 1 |-> IF i = Len(q) + 1 THEN s ELSE q[i]]
<1>1. /\ Append(q, s) \in Seq(Sample) /\ Len(Append(q, s)) = Len(q) + 1
      /\ \A i \in 1 .. Len(q) : Append(q, s)[i] = q[i]
      /\ Append(q, s)[Len(q) + 1] = s /\ Len(q) \in Nat
    BY AppendProperties, LenProperties
<1>2. Append(q, s) = [i \in 1 .. Len(q) + 1 |-> Append(q, s)[i]]
    BY <1>1, LenProperties
<1>3. ASSUME NEW i \in 1 .. Len(q) + 1
      PROVE  Append(q, s)[i] = IF i = Len(q) + 1 THEN s ELSE q[i]
    BY <1>1
<1> QED BY <1>2, <1>3

LEMMA InitMaps ==
    ASSUME RingInit
    PROVE  Promise!Init
    BY DEF RingInit, Promise!Init, Contents

\* A sample pushed into a ring that is not full comes after the others.
LEMMA PushAppends ==
    ASSUME RingTypeOK, NEW s \in Sample, PushSample(s), count # Capacity
    PROVE  Contents' = Append(Contents, s)
<1>1. /\ tail' = tail /\ count' = count + 1 /\ head = Advanced(tail, count)
      /\ samples' = [samples EXCEPT ![head] = s]
      /\ tail \in Index /\ head \in Index /\ count \in 0 .. Capacity - 1
      /\ samples \in [Index -> Sample]
    BY SizeAssumption DEF PushSample, DropOldest, RingTypeOK
<1>2. samples'[Advanced(tail, count)] = s
    BY <1>1
<1>3. ASSUME NEW i \in 1 .. count
      PROVE  samples'[Advanced(tail, i - 1)] = samples[Advanced(tail, i - 1)]
    <2>1. i - 1 \in 0 .. Capacity /\ count \in 0 .. Capacity /\ i - 1 < count /\ count - (i - 1) < Capacity
        BY <1>1, SizeAssumption
    <2>2. Advanced(tail, i - 1) # head /\ Advanced(tail, i - 1) \in Index
        BY <1>1, <2>1, AdvancedDiffers, AdvancedType
    <2> QED BY <1>1, <2>2
<1>4. Contents' = [i \in 1 .. count + 1 |-> samples'[Advanced(tail, i - 1)]]
    BY <1>1 DEF Contents
<1>5. Contents = [i \in 1 .. count |-> samples[Advanced(tail, i - 1)]] /\ Contents \in Seq(Sample)
      /\ Len(Contents) = count
    BY ContentsType DEF Contents
<1>6. Append(Contents, s) = [i \in 1 .. count + 1 |-> IF i = count + 1 THEN s ELSE Contents[i]]
    BY <1>1, <1>5
<1>7. ASSUME NEW i \in 1 .. count + 1
      PROVE  samples'[Advanced(tail, i - 1)] = IF i = count + 1 THEN s ELSE Contents[i]
    BY <1>1, <1>2, <1>3, <1>5
<1> QED BY <1>4, <1>6, <1>7

\* A sample pushed into a full ring replaces the oldest one.
LEMMA PushReplaces ==
    ASSUME RingTypeOK, NEW s \in Sample, PushSample(s), count = Capacity
    PROVE  Contents' = Append(Tail(Contents), s)
<1>1. /\ tail' = Advanced(tail, 1) /\ count' = count /\ head = Advanced(tail, count)
      /\ samples' = [samples EXCEPT ![head] = s]
      /\ tail \in Index /\ head \in Index /\ count = Capacity /\ Capacity > 0 /\ Capacity \in Nat
      /\ samples \in [Index -> Sample] /\ head = tail
    BY SizeAssumption DEF PushSample, DropOldest, RingTypeOK, Advanced, Index
<1>2. Contents \in Seq(Sample) /\ Len(Contents) = count
    BY ContentsType
<1>3. Contents' = [i \in 1 .. Capacity |-> samples'[Advanced(Advanced(tail, 1), i - 1)]]
    BY <1>1 DEF Contents
<1>4. Append(Tail(Contents), s) = [i \in 1 .. Capacity |-> IF i = Capacity THEN s ELSE Contents[i + 1]]
    <2>1. Contents # <<>>
        BY <1>1, <1>2
    <2>2. Tail(Contents) \in Seq(Sample) /\ Len(Tail(Contents)) = Capacity - 1
          /\ \A i \in 1 .. Capacity - 1 : Tail(Contents)[i] = Contents[i + 1]
        BY <1>1, <1>2, <2>1
    <2>3. /\ \A i \in 1 .. Capacity - 1 : Append(Tail(Contents), s)[i] = Tail(Contents)[i]
          /\ Append(Tail(Contents), s)[Capacity] = s
          /\ Append(Tail(Contents), s) \in Seq(Sample) /\ Len(Append(Tail(Contents), s)) = Capacity
        BY <1>1, <2>2, AppendProperties
    <2>4. Append(Tail(Contents), s) = [i \in 1 .. Capacity |-> Append(Tail(Contents), s)[i]]
        BY <2>3, LenProperties
    <2>5. ASSUME NEW i \in 1 .. Capacity
          PROVE  Append(Tail(Contents), s)[i] = IF i = Capacity THEN s ELSE Contents[i + 1]
        BY <1>1, <2>2, <2>3
    <2> QED BY <2>4, <2>5
<1>5. ASSUME NEW i \in 1 .. Capacity
      PROVE  samples'[Advanced(Advanced(tail, 1), i - 1)] = IF i = Capacity THEN s ELSE Contents[i + 1]
    <2>1. i - 1 \in 0 .. Capacity /\ 1 \in 0 .. Capacity /\ 1 + (i - 1) \in 0 .. Capacity /\ 1 + (i - 1) = i
        BY <1>1
    <2>2. Advanced(Advanced(tail, 1), i - 1) = Advanced(tail, i)
        BY <1>1, <2>1, AdvancedSum
    <2>3. CASE i = Capacity
        BY <1>1, <2>2, <2>3 DEF Advanced, Index
    <2>4. CASE i # Capacity
        <3>1. Advanced(tail, i) # head /\ Advanced(tail, i) \in Index
            BY <1>1, <2>1, <2>4 DEF Advanced, Index
        <3>2. i + 1 \in 1 .. count /\ (i + 1) - 1 = i
            BY <1>1, <2>4
        <3>3. Contents[i + 1] = samples[Advanced(tail, i)]
            BY <3>2 DEF Contents
        <3> QED BY <1>1, <2>2, <2>4, <3>1, <3>3
    <2> QED BY <2>3, <2>4
<1> QED BY <1>3, <1>4, <1>5

\* What packet takes away is the front of the contents.
LEMMA PlayTakesFront ==
    ASSUME RingTypeOK, Play
    PROVE  /\ served' = SubSeq(Contents, 1, Frames)
           /\ Contents' = SubSeq(Contents, Frames + 1, count)
<1>1. /\ Frames \in 0 .. Capacity /\ Frames <= count /\ count \in 0 .. Capacity
      /\ tail \in Index /\ Capacity \in Nat
    BY FramesType, SizeAssumption DEF RingTypeOK
<1>2. /\ tail' = Advanced(tail, Frames) /\ count' = count - Frames /\ samples' = samples
      /\ served' = [i \in 1 .. Frames |-> samples[Advanced(tail, i - 1)]]
    BY DEF Play
<1>3. Contents \in Seq(Sample) /\ Len(Contents) = count
    BY ContentsType
<1>4. Contents = [i \in 1 .. count |-> samples[Advanced(tail, i - 1)]]
    BY DEF Contents
<1>5. served' = SubSeq(Contents, 1, Frames)
    <2>1. SubSeq(Contents, 1, Frames) = [i \in 1 .. Frames |-> Contents[i]]
        BY <1>1, <1>3
    <2>2. \A i \in 1 .. Frames : Contents[i] = samples[Advanced(tail, i - 1)]
        BY <1>1, <1>4
    <2> QED BY <1>2, <2>1, <2>2
<1>6. Contents' = [i \in 1 .. count - Frames |-> samples[Advanced(Advanced(tail, Frames), i - 1)]]
    BY <1>2 DEF Contents
<1>7. SubSeq(Contents, Frames + 1, count) = [i \in 1 .. count - Frames |-> Contents[i + Frames]]
    BY <1>1, <1>3
<1>8. ASSUME NEW i \in 1 .. count - Frames
      PROVE  samples[Advanced(Advanced(tail, Frames), i - 1)] = Contents[i + Frames]
    <2>1. /\ i - 1 \in 0 .. Capacity /\ Frames + (i - 1) \in 0 .. Capacity
          /\ i + Frames \in 1 .. count /\ (i + Frames) - 1 = Frames + (i - 1)
        BY <1>1
    <2>2. Advanced(Advanced(tail, Frames), i - 1) = Advanced(tail, Frames + (i - 1))
        BY <1>1, <2>1, AdvancedSum
    <2> QED BY <1>4, <2>1, <2>2
<1> QED BY <1>5, <1>6, <1>7, <1>8

\* Every step of the ring is a step of the jitter buffer or changes nothing in it.
LEMMA NextMaps ==
    ASSUME RingTypeOK, [RingNext]_ringVars
    PROVE  [Promise!Next]_(Promise!vars)
<1>0. Contents \in Seq(Sample) /\ Len(Contents) = count
    BY ContentsType
<1>1. ASSUME NEW s \in Sample, PushSample(s)
      PROVE  Promise!Push(s)
    <2>1. CASE count = Capacity
        BY <1>0, <1>1, <2>1, PushReplaces DEF Promise!Push, Promise!Pushed, PushSample
    <2>2. CASE count # Capacity
        BY <1>0, <1>1, <2>2, PushAppends DEF Promise!Push, Promise!Pushed, PushSample
    <2> QED BY <2>1, <2>2
<1>2. CASE Reset
    BY <1>2 DEF Reset, Promise!Next, Promise!Clear, Contents
<1>3. CASE Silence
    BY <1>0, <1>3 DEF Silence, Promise!Next, Promise!Packet, Promise!Wait, Contents
<1>4. CASE Play
    <2>1. Promise!Taken(Len(Contents)) = Frames
        BY <1>0 DEF Promise!Taken, Frames
    <2>2. primed' = (Len(Contents) >= PacketLen)
        BY <1>0, <1>4, SizeAssumption DEF Play, StaysPrimed, Frames, RingTypeOK
    <2>3. Promise!Serve
        BY <1>0, <1>4, <2>1, <2>2, PlayTakesFront DEF Play, Promise!Serve
    <2> QED BY <2>3 DEF Promise!Next, Promise!Packet
<1>5. CASE UNCHANGED ringVars
    BY <1>5 DEF ringVars, Promise!vars, Contents
<1> QED BY <1>1, <1>2, <1>3, <1>4, <1>5 DEF RingNext, Packet, Promise!Next

\* push and packet together are a jitter buffer: samples are played once, in
\* order, the oldest lost first, never before priming.
THEOREM RingKeepsOrder == RingSpec => KeepsOrder
<1>1. RingInit => Promise!Init
    BY InitMaps
<1>2. RingTypeOK /\ [RingNext]_ringVars => [Promise!Next]_(Promise!vars)
    BY NextMaps
<1> QED BY <1>1, <1>2, RingTypeCorrect, PTL DEF RingSpec, KeepsOrder, Promise!Spec

=============================================================================
