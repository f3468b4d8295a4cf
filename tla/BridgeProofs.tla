---------------------------- MODULE BridgeProofs ----------------------------
(***************************************************************************)
(* What main.cpp and bridge_runtime.cpp keep: the manager's commands and   *)
(* the identity switch (Manager), the journal of the settings              *)
(* (BridgeStore), and the input that the host is shown (InputState).       *)
(*                                                                         *)
(* Manager, for any set of roles, any times to wait, any length of replies *)
(* and any number of SETs: the inductive invariant has three parts, the    *)
(* device on the bus, the output report that waits, and the reply together *)
(* with what the host has read of it.                                      *)
(*                                                                         *)
(* The journal, for every set of settings, every width of the generation   *)
(* and any number of saves, failed writes and power cuts.                  *)
(*                                                                         *)
(* The input, for every set of states of the controllers, every modulus of *)
(* the number of a frame and of the clock, and every stale_ms.             *)
(***************************************************************************)
EXTENDS Manager, BridgeStore, InputState, SequenceTheorems, TLAPS

-----------------------------------------------------------------------------
(* The inductive invariant of Manager.                                     *)

\* A device taken off the bus by a switch is off it, and on its way back.
DeviceSound ==
    /\ ServedAsShown /\ LastRequestWins
    /\ disconnected => pending /\ ~plugged

\* No output report waits when a switch may end.
OutputSound ==
    /\ output # None => output = current
    /\ disconnected /\ pc \in {"tud", "manager", "usb"} => output = None

\* The reply due is the one queued, unless its command is still to be handled.
ReplySound ==
    /\ command_pending => command.n = due /\ heard = <<>> /\ ~reply_complete
    /\ reply_complete => answered
    /\ ~command_pending /\ ~answered => reply_len # 0 /\ reply = due
    /\ RebootAfterReply

\* What the host has read is the queued reply up to its offset.
ReadSoFar ==
    ~command_pending =>
        /\ heard = <<>> /\ reply_len # 0 => reply = due /\ reply_offset = 0
        /\ heard # <<>> /\ ~heard[Len(heard)].last =>
              reply_len # 0 /\ reply = heard[1].of /\ reply_offset = Len(heard)
        /\ heard # <<>> /\ heard[Len(heard)].last /\ reply_len # 0 =>
              reply_offset >= reply_len

\* Nothing follows the last chunk of a reply.
OneReply ==
    /\ AnswersCommand
    /\ \A i \in DOMAIN heard : heard[i].last => i = Len(heard)

Sound == TypeOK /\ DeviceSound /\ OutputSound /\ ReplySound /\ ReadSoFar /\ OneReply

-----------------------------------------------------------------------------
(* The host reads a chunk.                                                 *)

\* A chunk that starts a reply, or goes on where the host is, leaves one reply.
LEMMA HearsOneReply ==
    ASSUME TypeOK, OneReply, NEW c \in Chunk, Hear(c),
           heard # <<>> /\ ~heard[Len(heard)].last =>
               c.of = heard[1].of /\ c.at = Len(heard),
           heard = <<>> \/ heard[Len(heard)].last =>
               c.at = 0 /\ (c.of = due \/ (c.of = 0 /\ answered))
    PROVE  /\ OneReply' /\ heard' \in Seq(Chunk) /\ heard' # <<>>
           /\ heard'[Len(heard')] = c /\ heard'[1].of = c.of
           /\ Len(heard') = c.at + 1
           /\ answered' \in BOOLEAN /\ (answered => answered')
           /\ (c.last /\ c.of = due => answered')
<1>1. heard \in Seq(Chunk) /\ Len(heard) \in Nat /\ answered \in BOOLEAN
      /\ DOMAIN heard = 1 .. Len(heard)
  BY DEF TypeOK
<1>2. /\ sets' = sets /\ due' = due
      /\ answered' = (answered \/ (c.last /\ c.of = due))
      /\ heard' = IF heard = <<>> \/ heard[Len(heard)].last THEN <<c>> ELSE Append(heard, c)
  BY DEF Hear, Last
<1>3. CASE heard = <<>> \/ heard[Len(heard)].last
  <2>1. heard' = <<c>> /\ c.at = 0 /\ (c.of = due \/ (c.of = 0 /\ answered))
    BY <1>1, <1>2, <1>3
  <2>2. DOMAIN heard' = {1} /\ heard'[1] = c /\ Len(heard') = 1
    BY <2>1
  <2>3. OneReply'
    <3>1. c.of = due' \/ (c.of = 0 /\ answered')
      BY <1>1, <1>2, <2>1
    <3>2. \A i \in DOMAIN heard' : i = 1 /\ heard'[i] = c /\ i = Len(heard') /\ c.at = i - 1
      BY <2>1, <2>2
    <3> QED  BY <2>2, <3>1, <3>2 DEF OneReply, AnswersCommand
  <2>4. heard' \in Seq(Chunk) /\ heard' # <<>>
    BY <2>1
  <2> QED  BY <1>1, <1>2, <2>1, <2>2, <2>3, <2>4 DEF Chunk
<1>4. CASE heard # <<>> /\ ~heard[Len(heard)].last
  <2>1. heard' = Append(heard, c) /\ c.of = heard[1].of /\ c.at = Len(heard)
    BY <1>2, <1>4
  <2>2. /\ heard' \in Seq(Chunk) /\ Len(heard') = Len(heard) + 1
        /\ DOMAIN heard' = 1 .. Len(heard) + 1
        /\ heard'[Len(heard) + 1] = c
        /\ \A i \in 1 .. Len(heard) : heard'[i] = heard[i]
    BY <1>1, <2>1
  <2>3. Len(heard) > 0 /\ heard'[1] = heard[1] /\ Len(heard) \in DOMAIN heard
    BY <1>1, <1>4, <2>2, EmptySeq
  <2>4. \A i \in DOMAIN heard : ~heard[i].last
    BY <1>1, <1>4, <2>3 DEF OneReply
  <2>5. \A i \in DOMAIN heard' : /\ heard'[i].of = heard'[1].of /\ heard'[i].at = i - 1
                                 /\ (heard'[i].last => i = Len(heard'))
    <3> SUFFICES ASSUME NEW i \in DOMAIN heard'
                 PROVE  /\ heard'[i].of = heard'[1].of /\ heard'[i].at = i - 1
                        /\ (heard'[i].last => i = Len(heard'))
      OBVIOUS
    <3>1. CASE i = Len(heard) + 1
      BY <1>1, <2>1, <2>2, <2>3, <3>1
    <3>2. CASE i \in DOMAIN heard
      BY <1>1, <2>2, <2>3, <2>4, <3>2 DEF OneReply, AnswersCommand
    <3> QED  BY <1>1, <2>2, <3>1, <3>2
  <2>6. heard'[1].of = due' \/ (heard'[1].of = 0 /\ answered')
    BY <1>1, <1>2, <1>4, <2>3 DEF OneReply, AnswersCommand
  <2>7. OneReply'
    BY <1>1, <2>2, <2>5, <2>6 DEF OneReply, AnswersCommand
  <2>8. heard' # <<>> /\ heard'[Len(heard')] = c
    BY <1>1, <2>2
  <2> QED  BY <1>1, <1>2, <2>1, <2>2, <2>3, <2>7, <2>8
<1> QED  BY <1>3, <1>4

\* The feature report read keeps the invariant.
LEMMA GetSound == Sound /\ Get => Sound'
<1> SUFFICES ASSUME Sound, Get PROVE Sound'
  OBVIOUS
<1>1. /\ TypeOK /\ DeviceSound /\ OutputSound /\ ReplySound /\ ReadSoFar /\ OneReply
      /\ UNCHANGED <<roleVars, usbVars, cmdVars, output, pc>> /\ ~command_pending /\ pc = "tud"
  BY DEF Sound, Get, Busy
<1> USE DEF roleVars, usbVars, cmdVars, replyVars, hostVars
<1>2. PICK n, at, len : /\ Serve(n, at, len)
                        /\ \/ reply_len # 0 /\ n = reply /\ at = reply_offset /\ len = reply_len
                           \/ reply_len = 0 /\ n = 0 /\ at = 0 /\ len \in 1 .. MaxChunks
  BY DEF Get
<1>3. n \in 0 .. sets /\ at \in 0 .. MaxChunks /\ len \in 1 .. MaxChunks /\ at <= len
      /\ MaxChunks \in Nat /\ sets \in Nat
  BY <1>1, <1>2, ManagerAssumption DEF TypeOK
<1>4. DeviceSound' /\ OutputSound'
  BY <1>1 DEF DeviceSound, OutputSound, ServedAsShown, LastRequestWins
<1>5. CASE at >= len
  <2>1. UNCHANGED vars
    BY <1>1, <1>2, <1>5 DEF Serve, vars
  <2> QED
    BY <1>1, <1>4, <2>1 DEF Sound, TypeOK, ReplySound, ReadSoFar, OneReply, AnswersCommand,
       RebootAfterReply, vars
<1>6. CASE at < len
  <2> DEFINE c == [of |-> n, at |-> at, last |-> at + 1 = len]
  <2>1. /\ Hear(c) /\ reply' = n /\ reply_complete' \in BOOLEAN
        /\ at + 1 = len => reply_len' = 0 \/ (reply_len' = len /\ reply_offset' = len)
        /\ at + 1 # len => reply_len' = len /\ reply_offset' = at + 1
        /\ reply_complete' => at + 1 = len \/ reply_complete
        /\ reply_len' \in 0 .. MaxChunks /\ reply_offset' \in 0 .. MaxChunks
        /\ reply_len' # 0 => reply_offset' <= reply_len'
    <3>1. Hear(c) /\ reply' = n /\ reply_complete' = (LastOf(at, len) \/ (reply_len # 0 /\ reply_complete))
      BY <1>2, <1>3, <1>6 DEF Serve
    <3>2. LastOf(at, len) <=> at + 1 = len
      BY <1>3, <1>6 DEF LastOf
    <3>3. IF LastOf(at, len) /\ ~reboot_requested
          THEN reply_len' = 0 /\ reply_offset' = 0
          ELSE reply_len' = len /\ reply_offset' = at + 1
      BY <1>2, <1>3, <1>6 DEF Serve
    <3>4. reply_complete \in BOOLEAN
      BY <1>1 DEF TypeOK
    <3> QED  BY <1>3, <1>6, <3>1, <3>2, <3>3, <3>4
  <2>2. c \in Chunk /\ c.of = n /\ c.at = at /\ (c.last <=> at + 1 = len)
    <3>1. c.last \in BOOLEAN /\ n \in Nat /\ at \in Nat
      BY <1>3
    <3> QED  BY <3>1 DEF Chunk
  <2>3. heard # <<>> /\ ~heard[Len(heard)].last => c.of = heard[1].of /\ c.at = Len(heard)
    BY <1>1, <1>2, <2>2 DEF ReadSoFar
  <2>4. heard = <<>> \/ heard[Len(heard)].last =>
               c.at = 0 /\ (c.of = due \/ (c.of = 0 /\ answered))
    BY <1>1, <1>2, <1>3, <1>6, <2>2 DEF ReadSoFar, ReplySound
  <2> HIDE DEF c
  <2>5. /\ OneReply' /\ heard' \in Seq(Chunk) /\ heard' # <<>>
        /\ heard'[Len(heard')] = c /\ heard'[1].of = c.of
        /\ Len(heard') = c.at + 1
        /\ answered' \in BOOLEAN /\ (answered => answered')
        /\ (c.last /\ c.of = due => answered')
    BY <1>1, <2>1, <2>2, <2>3, <2>4, HearsOneReply
  <2>6. sets' = sets /\ due' = due
    BY <2>1 DEF Hear
  <2>7. TypeOK'
    BY <1>1, <1>3, <2>1, <2>5, <2>6 DEF TypeOK
  <2>8. ReplySound'
    BY <1>1, <1>2, <1>3, <2>1, <2>2, <2>5, <2>6 DEF ReplySound, RebootAfterReply
  <2>9. ReadSoFar'
    BY <1>1, <1>3, <2>1, <2>2, <2>5 DEF ReadSoFar
  <2> QED  BY <1>4, <2>5, <2>7, <2>8, <2>9 DEF Sound
<1> QED  BY <1>3, <1>5, <1>6

-----------------------------------------------------------------------------
(* Every step of Manager keeps the invariant.                              *)

LEMMA InitSound == Init => Sound
<1> SUFFICES ASSUME Init PROVE Sound
  OBVIOUS
<1>1. TypeOK
  <2>1. heard \in Seq(Chunk)
    BY DEF Init
  <2>2. command \in [op : Op, arg : Role \cup {None}, n : Nat] /\ command.op # "role"
    BY DEF Init, Op
  <2>3. /\ role \in Role /\ want \in Role \cup {DebugOnly}
        /\ current \in Identity /\ requested \in Identity /\ shown \in Identity
    BY DEF Init, Identity
  <2>4. /\ waited \in 0 .. DetachAfter + AttachAfter
        /\ sets \in 0 .. MaxSets /\ due \in 0 .. sets /\ reply \in 0 .. sets
        /\ reply_len \in 0 .. MaxChunks /\ reply_offset \in 0 .. MaxChunks
    BY ManagerAssumption DEF Init
  <2> QED  BY <2>1, <2>2, <2>3, <2>4 DEF Init, TypeOK
<1> QED
  BY <1>1, ManagerAssumption DEF Init, Sound, DeviceSound, OutputSound, ReplySound, ReadSoFar,
     OneReply, AnswersCommand, ServedAsShown, LastRequestWins, RebootAfterReply

\* A request leaves it to a switch under way to end where it asks.
LEMMA RequestSound ==
    ASSUME TypeOK, DeviceSound, NEW identity \in Identity, Request(identity)
    PROVE  /\ DeviceSound'
           /\ requested' \in Identity /\ pending' \in BOOLEAN /\ want' \in Identity
           /\ waited' \in 0 .. DetachAfter + AttachAfter
           /\ UNCHANGED <<current, disconnected, plugged, shown>>
<1> USE ManagerAssumption DEF Request, AlreadySo, TypeOK, DeviceSound, ServedAsShown, LastRequestWins
<1>1. CASE AlreadySo(identity)
  BY <1>1
<1>2. CASE ~AlreadySo(identity)
  BY <1>2
<1> QED  BY <1>1, <1>2

LEMMA SetSound == ASSUME Sound, NEW c \in Command, Set(c) PROVE Sound'
<1> USE DEF roleVars, usbVars, cmdVars, replyVars
<1>1. /\ TypeOK /\ DeviceSound /\ OutputSound /\ ReplySound /\ ReadSoFar /\ OneReply
      /\ UNCHANGED <<roleVars, usbVars, reboot_requested, output, pc>>
      /\ sets' = sets + 1 /\ heard' = <<>> /\ answered' = FALSE /\ pc = "tud"
      /\ sets < MaxSets /\ sets \in Nat /\ MaxSets \in Nat
  BY ManagerAssumption DEF Sound, Set, TypeOK
<1>2. DeviceSound' /\ OutputSound'
  BY <1>1 DEF DeviceSound, OutputSound, ServedAsShown, LastRequestWins
<1>3. OneReply'
  BY <1>1 DEF OneReply, AnswersCommand
<1>4. heard' \in Seq(Chunk)
  BY <1>1
<1>5. CASE c.op = "bad"
  <2>1. QueueJson(sets + 1, 1) /\ UNCHANGED <<command, command_pending>>
        /\ due' = IF command_pending THEN due ELSE sets + 1
    BY <1>5 DEF Set
  <2>2. TypeOK'
    <3>1. /\ reply' \in 0 .. sets' /\ reply_len' \in 0 .. MaxChunks /\ reply_offset' \in 0 .. MaxChunks
          /\ reply_offset' <= reply_len' /\ reply_complete' \in BOOLEAN
          /\ sets' \in 0 .. MaxSets /\ due' \in 0 .. sets'
      <4>1. sets + 1 \in 0 .. MaxSets /\ 0 .. sets \subseteq 0 .. sets + 1 /\ sets + 1 \in 0 .. sets + 1
        BY <1>1
      <4>2. 0 \in 0 .. MaxChunks /\ 1 \in 0 .. MaxChunks
        BY ManagerAssumption
      <4>3. due' \in 0 .. sets + 1
        BY <1>1, <2>1, <4>1 DEF TypeOK
      <4>4. reply' = sets + 1 /\ reply_len' = 1 /\ reply_offset' = 0 /\ reply_complete' = FALSE
        BY <2>1 DEF QueueJson
      <4>5. 0 <= 1 /\ sets' = sets + 1
        BY <1>1
      <4> QED  BY <4>1, <4>2, <4>3, <4>4, <4>5
    <3> QED  BY <1>1, <1>4, <2>1, <3>1 DEF TypeOK
  <2>3. ReplySound' /\ ReadSoFar'
    BY <1>1, <2>1 DEF ReplySound, ReadSoFar, QueueJson, RebootAfterReply, TypeOK
  <2> QED  BY <1>2, <1>3, <2>2, <2>3 DEF Sound
<1>6. CASE c.op # "bad"
  <2>1. Receive(c) /\ due' = sets + 1
    BY <1>6 DEF Set
  <2>2. command' \in [op : Op, arg : Role \cup {None}, n : Nat] /\ command'.n = sets + 1
        /\ (command'.op = "role" => command'.arg \in Role)
    BY <1>1, <2>1 DEF Receive, Command
  <2>3. TypeOK'
    <3>1. /\ reply' \in 0 .. sets' /\ reply_len' \in 0 .. MaxChunks /\ reply_len' = 0
          /\ reply_offset' \in 0 .. MaxChunks
          /\ reply_complete' \in BOOLEAN /\ command_pending' \in BOOLEAN
          /\ sets' \in 0 .. MaxSets /\ due' \in 0 .. sets'
      <4>1. sets + 1 \in 0 .. MaxSets /\ 0 .. sets \subseteq 0 .. sets + 1 /\ sets + 1 \in 0 .. sets + 1
        BY <1>1
      <4>2. reply \in 0 .. sets /\ reply_offset \in 0 .. MaxChunks /\ 0 \in 0 .. MaxChunks
        BY <1>1, ManagerAssumption DEF TypeOK
      <4>3. /\ reply' = reply /\ reply_len' = 0 /\ reply_offset' = reply_offset
            /\ reply_complete' = FALSE /\ command_pending' = TRUE
        BY <2>1 DEF Receive
      <4>4. sets' = sets + 1 /\ due' = sets + 1
        BY <1>1, <2>1
      <4> QED  BY <4>1, <4>2, <4>3, <4>4
    <3> QED  BY <1>1, <1>4, <2>2, <3>1 DEF TypeOK
  <2>4. ReplySound' /\ ReadSoFar'
    BY <1>1, <2>1, <2>2 DEF ReplySound, ReadSoFar, Receive, RebootAfterReply
  <2> QED  BY <1>2, <1>3, <2>3, <2>4 DEF Sound
<1> QED  BY <1>5, <1>6

\* What a command writes has its type.
CommandTyped ==
    /\ role \in Role /\ want \in Identity
    /\ current \in Identity /\ requested \in Identity /\ shown \in Identity
    /\ pending \in BOOLEAN /\ disconnected \in BOOLEAN /\ plugged \in BOOLEAN
    /\ waited \in 0 .. DetachAfter + AttachAfter
    /\ reboot_requested \in BOOLEAN /\ output \in Identity \cup {None}

\* The commands keep the device and the output report sound.
LEMMA HandleSound ==
    ASSUME TypeOK, DeviceSound, OutputSound, NEW c \in [op : Op, arg : Role \cup {None}, n : Nat],
           c.op = "role" => c.arg \in Role, Handle(c), pc = "manager", pc' = "usb"
    PROVE  CommandTyped' /\ DeviceSound' /\ OutputSound'
<1> USE DEF roleVars, usbVars
<1>1. CommandTyped
  BY DEF CommandTyped, TypeOK, Identity
<1>2. ASSUME NEW r \in Role, NewRole(r)
      PROVE  CommandTyped' /\ DeviceSound' /\ OutputSound'
  <2>1. r \in Identity /\ Request(r) /\ output' = None /\ role' = r
        /\ UNCHANGED reboot_requested
    BY <1>2 DEF NewRole, Identity
  <2> QED  BY <1>1, <2>1, RequestSound DEF CommandTyped, OutputSound
<1>3. CASE SetRole(c)
  BY <1>2, <1>3 DEF SetRole
<1>4. CASE Reset(c)
  BY <1>2, <1>4, ManagerAssumption DEF Reset
<1>5. CASE ReconnectUsb(c)
  <2>1. Request(current) /\ UNCHANGED <<role, output, reboot_requested>> /\ current \in Identity
    BY <1>1, <1>5 DEF ReconnectUsb, CommandTyped
  <2> QED  BY <1>1, <2>1, RequestSound DEF CommandTyped, OutputSound
<1>6. CASE Reboot(c)
  BY <1>1, <1>6 DEF Reboot, CommandTyped, DeviceSound, OutputSound, ServedAsShown, LastRequestWins
<1>7. CASE Status(c)
  BY <1>1, <1>7 DEF Status, CommandTyped, DeviceSound, OutputSound, ServedAsShown, LastRequestWins
<1> QED  BY <1>3, <1>4, <1>5, <1>6, <1>7 DEF Handle

LEMMA ManagerTaskSound == Sound /\ ManagerTask => Sound'
<1> SUFFICES ASSUME Sound, ManagerTask PROVE Sound'
  OBVIOUS
<1> USE DEF roleVars, usbVars, cmdVars, replyVars, hostVars
<1>1. /\ TypeOK /\ DeviceSound /\ OutputSound /\ ReplySound /\ ReadSoFar /\ OneReply
      /\ UNCHANGED <<hostVars, command>> /\ pc = "manager" /\ pc' = "usb"
  BY DEF Sound, ManagerTask
<1>2. OneReply'
  BY <1>1 DEF OneReply, AnswersCommand
<1>3. CASE ~command_pending /\ UNCHANGED <<roleVars, usbVars, replyVars, reboot_requested,
                                           command_pending, output>>
  BY <1>1, <1>2, <1>3 DEF Sound, TypeOK, DeviceSound, OutputSound, ReplySound, ReadSoFar,
     ServedAsShown, LastRequestWins, RebootAfterReply
<1>4. CASE /\ command_pending /\ command_pending' = FALSE
           /\ Handle(command)
           /\ \E len \in 1 .. MaxChunks : QueueJson(command.n, len)
  <2>1. PICK len \in 1 .. MaxChunks : QueueJson(command.n, len)
    BY <1>4
  <2>2. command \in [op : Op, arg : Role \cup {None}, n : Nat]
        /\ (command.op = "role" => command.arg \in Role)
    BY <1>1 DEF TypeOK
  <2>3. CommandTyped' /\ DeviceSound' /\ OutputSound'
    BY <1>1, <1>4, <2>2, HandleSound
  <2>4. ReplySound' /\ ReadSoFar'
    BY <1>1, <1>4, <2>1 DEF ReplySound, ReadSoFar, QueueJson, RebootAfterReply, TypeOK
  <2>5. TypeOK'
    <3>1. /\ reply' \in 0 .. sets /\ reply_len' \in 0 .. MaxChunks /\ reply_offset' \in 0 .. MaxChunks
          /\ reply_offset' <= reply_len' /\ reply_complete' \in BOOLEAN
      <4>1. command.n \in 0 .. sets
        BY <1>1, <1>4 DEF ReplySound, TypeOK
      <4>2. len \in 0 .. MaxChunks /\ 0 \in 0 .. MaxChunks /\ 0 <= len
        BY ManagerAssumption
      <4> QED  BY <2>1, <4>1, <4>2 DEF QueueJson
    <3>2. want' \in Role \cup {DebugOnly}
      BY <2>3 DEF CommandTyped, Identity
    <3> QED  BY <1>1, <1>4, <2>3, <3>1, <3>2 DEF TypeOK, CommandTyped
  <2> QED  BY <1>2, <2>3, <2>4, <2>5 DEF Sound
<1> QED  BY <1>3, <1>4 DEF ManagerTask

LEMMA UsbTaskSound == Sound /\ UsbTask => Sound'
<1> SUFFICES ASSUME Sound, UsbTask PROVE Sound'
  OBVIOUS
<1> USE DEF roleVars, usbVars, cmdVars, replyVars, hostVars
<1>1. /\ TypeOK /\ DeviceSound /\ OutputSound /\ ReplySound /\ ReadSoFar /\ OneReply
      /\ UNCHANGED <<roleVars, replyVars, cmdVars, hostVars, output>> /\ pc = "usb" /\ pc' = "reboot"
  BY DEF Sound, UsbTask
<1>2. OneReply' /\ ReplySound' /\ ReadSoFar'
  BY <1>1 DEF OneReply, AnswersCommand, ReplySound, ReadSoFar, RebootAfterReply
<1>3. CASE UNCHANGED usbVars
  BY <1>1, <1>2, <1>3 DEF Sound, TypeOK, DeviceSound, OutputSound, ServedAsShown, LastRequestWins
<1>4. CASE pending /\ ~disconnected /\ Detach
  <2>1. DeviceSound' /\ OutputSound'
    BY <1>1, <1>4 DEF DeviceSound, OutputSound, ServedAsShown, LastRequestWins, Detach
  <2>2. waited' \in 0 .. DetachAfter + AttachAfter
    BY <1>4, ManagerAssumption DEF Detach
  <2>3. TypeOK'
    BY <1>1, <1>4, <2>2 DEF TypeOK, Detach
  <2> QED  BY <1>2, <2>1, <2>3 DEF Sound
<1>5. CASE pending /\ disconnected /\ Attach
  <2>1. DeviceSound' /\ OutputSound'
    BY <1>1, <1>5 DEF DeviceSound, OutputSound, ServedAsShown, LastRequestWins, Attach, Shown
  <2>2. waited' \in 0 .. DetachAfter + AttachAfter
    BY <1>5, ManagerAssumption DEF Attach, Shown
  <2>3. TypeOK'
    BY <1>1, <1>5, <2>2 DEF TypeOK, Attach, Shown
  <2> QED  BY <1>2, <2>1, <2>3 DEF Sound
<1> QED  BY <1>3, <1>4, <1>5 DEF UsbTask

\* The other steps: the clock, the output report and the rest of the round.
LEMMA OtherStepsSound ==
    Sound /\ (Tick \/ Output \/ TudDone \/ RebootTask \/ OutputTick) => Sound'
<1> SUFFICES ASSUME Sound, Tick \/ Output \/ TudDone \/ RebootTask \/ OutputTick PROVE Sound'
  OBVIOUS
<1> USE DEF roleVars, usbVars, cmdVars, replyVars, hostVars
<1>1. TypeOK /\ DeviceSound /\ OutputSound /\ ReplySound /\ ReadSoFar /\ OneReply
  BY DEF Sound
<1>2. /\ UNCHANGED <<roleVars, current, requested, pending, disconnected, plugged, shown,
                     replyVars, cmdVars, hostVars>>
      /\ waited' \in 0 .. DetachAfter + AttachAfter
      /\ output' \in Identity \cup {None}
      /\ pc' \in {"tud", "manager", "usb", "reboot", "output", "off"}
  BY <1>1, ManagerAssumption
     DEF Tick, Output, TudDone, RebootTask, OutputTick, Kept, TypeOK
<1>3. TypeOK' /\ DeviceSound'
  BY <1>1, <1>2 DEF TypeOK, DeviceSound, ServedAsShown, LastRequestWins
<1>4. OneReply' /\ ReadSoFar'
  BY <1>1, <1>2 DEF OneReply, AnswersCommand, ReadSoFar
<1>5. OutputSound'
  BY <1>1, <1>2 DEF OutputSound, DeviceSound, ServedAsShown, TypeOK,
     Tick, Output, TudDone, RebootTask, OutputTick, Kept
<1>6. ReplySound'
  BY <1>1, <1>2 DEF ReplySound, RebootAfterReply, Tick, Output, TudDone, RebootTask, OutputTick,
     MayReboot
<1> QED  BY <1>3, <1>4, <1>5, <1>6 DEF Sound

-----------------------------------------------------------------------------
(* The theorems about Manager.                                             *)

\* The inductive invariant holds of every behaviour.
THEOREM AlwaysSound == Spec => []Sound
<1>1. Init => Sound
  BY InitSound
<1>2. Sound /\ [Next]_vars => Sound'
  <2> SUFFICES ASSUME Sound, [Next]_vars PROVE Sound'
    OBVIOUS
  <2>1. CASE UNCHANGED vars
    BY <2>1 DEF Sound, TypeOK, DeviceSound, OutputSound, ReplySound, ReadSoFar, OneReply,
       AnswersCommand, ServedAsShown, LastRequestWins, RebootAfterReply,
       vars, roleVars, usbVars, cmdVars, replyVars, hostVars
  <2>2. CASE Get
    BY <2>2, GetSound
  <2>3. CASE \E c \in Command : Set(c)
    BY <2>3, SetSound
  <2>4. CASE ManagerTask
    BY <2>4, ManagerTaskSound
  <2>5. CASE UsbTask
    BY <2>5, UsbTaskSound
  <2>6. CASE Tick \/ Output \/ TudDone \/ RebootTask \/ OutputTick
    BY <2>6, OtherStepsSound
  <2> QED  BY <2>1, <2>2, <2>3, <2>4, <2>5, <2>6 DEF Next, Loop
<1> QED  BY <1>1, <1>2, PTL DEF Spec

\* The state of the switch and of the manager is well typed, and the offset of
\* a reply never passes its end.
THEOREM TypeCorrect == Spec => []TypeOK
<1>1. Sound => TypeOK
  BY DEF Sound
<1> QED  BY <1>1, AlwaysSound, PTL

\* TinyUSB's callbacks serve the device the host has enumerated, and a device
\* off the bus comes back, whatever roles there are (auto_usb_task).
THEOREM ServesWhatIsShown == Spec => []ServedAsShown
<1>1. Sound => ServedAsShown
  BY DEF Sound, DeviceSound
<1> QED  BY <1>1, AlwaysSound, PTL

\* auto_usb_request_identity never loses the last request to an earlier one.
THEOREM LastRequestIsServed == Spec => []LastRequestWins
<1>1. Sound => LastRequestWins
  BY DEF Sound, DeviceSound
<1> QED  BY <1>1, AlwaysSound, PTL

\* No output report is decoded as another identity's (bridge_output_tick).
THEOREM DecodesOwnOutput == Spec => []OutputIsOwn
<1>1. Sound => OutputIsOwn
  BY DEF Sound, OutputSound, OutputIsOwn
<1> QED  BY <1>1, AlwaysSound, PTL

\* What the host reads after a SET is one reply, from its start, and that of
\* its last command, for replies of any length.
THEOREM ReadsItsAnswer == Spec => []AnswersCommand
<1>1. Sound => AnswersCommand
  BY DEF Sound, OneReply
<1> QED  BY <1>1, AlwaysSound, PTL

\* The receiver does not restart before its last reply has been read.
THEOREM RebootsAfterReply == Spec => []RebootAfterReply
<1>1. Sound => RebootAfterReply
  BY DEF Sound, ReplySound
<1> QED  BY <1>1, AlwaysSound, PTL

\* Together: the identity shown, served and asked for is one,
THEOREM ShowsOneIdentity == Spec => []IdentityIsOne
<1>1. ServedAsShown /\ LastRequestWins => IdentityIsOne
  BY DEF IdentityIsOne
<1> QED  BY <1>1, ServesWhatIsShown, LastRequestIsServed, PTL

\* and a reply is whole, its own, and read before the restart.
THEOREM RepliesInWhole == Spec => []RepliesAreWhole
<1>1. AnswersCommand /\ RebootAfterReply => RepliesAreWhole
  BY DEF RepliesAreWhole
<1> QED  BY <1>1, ReadsItsAnswer, RebootsAfterReply, PTL

-----------------------------------------------------------------------------
(* The journal: the order of generations.                                  *)

\* The next generation is newer than this one, and never the other way round,
\* across the wrap of the counter too.
LEMMA FollowingIsNewer ==
    ASSUME NEW g \in Generation
    PROVE  /\ Following(g) \in Generation
           /\ Newer(Following(g), g)
           /\ ~Newer(g, Following(g))
BY RangeAssumption DEF Generation, Following, Newer, Delta

Other(i) == 1 - i

\* The record that a slot alone would give
Content(i) == IF Valid(i) THEN slot[i].payload ELSE NoPayload

\* A damaged slot leaves the other one in force; a slot one generation ahead of
\* the other is in force.
InForce ==
    \A i \in Slot :
        /\ ~Valid(i) => Stored = Content(Other(i))
        /\ /\ Valid(i)
           /\ Valid(Other(i)) =>
                 slot[i].generation = Following(slot[Other(i)].generation)
           => Stored = slot[i].payload

LEMMA SlotInForce == StoreTypeOK => InForce
<1> SUFFICES ASSUME StoreTypeOK, NEW i \in Slot
             PROVE  /\ ~Valid(i) => Stored = Content(Other(i))
                    /\ /\ Valid(i)
                       /\ Valid(Other(i)) =>
                             slot[i].generation = Following(slot[Other(i)].generation)
                       => Stored = slot[i].payload
  BY DEF InForce
<1>1. CASE ~Valid(i)
  BY <1>1 DEF Slot, Other, Content, Stored, AnyValid, Latest
<1>2. CASE Valid(i) /\ ~Valid(Other(i))
  BY <1>2 DEF Slot, Other, Content, Stored, AnyValid, Latest
<1>3. CASE Valid(i) /\ Valid(Other(i))
  <2> SUFFICES ASSUME slot[i].generation = Following(slot[Other(i)].generation)
               PROVE  Stored = slot[i].payload
    BY <1>3
  <2>1. slot[Other(i)].generation \in Generation
    BY <1>3 DEF StoreTypeOK, Valid, Record, Slot, Other
  <2>2. /\ Newer(slot[i].generation, slot[Other(i)].generation)
        /\ ~Newer(slot[Other(i)].generation, slot[i].generation)
    BY <2>1, FollowingIsNewer
  <2> QED BY <1>3, <2>2 DEF Slot, Other, Stored, AnyValid, Latest
<1> QED BY <1>1, <1>2, <1>3

-----------------------------------------------------------------------------
(* The inductive invariant.  A save writes the slot that is not in force;  *)
(* the record it writes is one generation ahead of the slot it leaves      *)
(* alone, and that slot holds the promise until the write is verified.     *)

SaveIsSafe ==
    Saving =>
        /\ record \in Record
        /\ record.payload = settings
        /\ promised = Content(Other(target))
        /\ Valid(Other(target)) =>
              record.generation = Following(slot[Other(target)].generation)
        /\ stage = "erase" /\ Valid(target) =>
              /\ Valid(Other(target))
              /\ slot[Other(target)].generation = Following(slot[target].generation)
        /\ stage = "program" => ~Valid(target)
        /\ stage = "verify" => slot[target] \in {record, Damaged}

IdleKeepsPromise == stage = "idle" => Stored = promised /\ record = Damaged

\* Clean settings are the promise, also while a save is under way.
CleanIsPromised ==
    stage # "off" /\ ~dirty /\ ~decayed =>
        settings = IF promised = NoPayload THEN Default ELSE promised

IInv == StoreTypeOK /\ OneApart /\ SaveIsSafe /\ IdleKeepsPromise /\ CleanIsPromised
        /\ NothingLost

LEMMA InitIInv == StoreInit => IInv
BY PayloadAssumption, DamagedAssumption
   DEF StoreInit, IInv, StoreTypeOK, OneApart, SaveIsSafe, IdleKeepsPromise, CleanIsPromised,
       NothingLost, Slot, Saving, Stored, AnyValid, Valid

\* What Stored gives depends on the slots alone.
LEMMA StoredFrame == UNCHANGED slot => Stored' = Stored
BY DEF Stored, AnyValid, Latest, Valid

StoredTyped == Stored \in Payload \cup {NoPayload} /\ (Stored = NoPayload <=> ~AnyValid)

SlotTyped == slot \in [Slot -> Record \cup {Damaged}]

LEMMA StoredType == SlotTyped => StoredTyped
<1> SUFFICES ASSUME SlotTyped PROVE StoredTyped
  OBVIOUS
<1>1. ASSUME AnyValid PROVE Latest \in Slot /\ Valid(Latest)
  BY <1>1 DEF AnyValid, Latest, Slot
<1>2. ASSUME AnyValid PROVE Stored \in Payload
  BY <1>1, <1>2 DEF Stored, SlotTyped, Valid, Record
<1> QED BY <1>2, PayloadAssumption DEF StoredTyped, Stored

\* A new save chooses the slot that is not in force.
LEMMA BeginIsSafe ==
    ASSUME IInv, BeginSave
    PROVE  SaveIsSafe'
<1>0. PICK t \in Slot : t = TargetSlot
  BY DEF TargetSlot, Slot
<1> DEFINE o == Other(t)
<1>1. StoreTypeOK /\ OneApart /\ Stored = promised
  BY DEF IInv, IdleKeepsPromise, BeginSave
<1>2. o \in Slot /\ target' = t /\ record' = NextRecord
  BY <1>0 DEF Slot, Other, BeginSave
<1>3. NextRecord \in Record /\ NextRecord.payload = settings
  <2>1. ASSUME AnyValid PROVE Following(slot[Latest].generation) \in Generation
    <3>1. Latest \in Slot /\ Valid(Latest)
      BY <2>1 DEF AnyValid, Latest, Slot
    <3>2. slot[Latest].generation \in Generation
      BY <1>1, <3>1 DEF StoreTypeOK, Valid, Record
    <3> QED BY <3>2, FollowingIsNewer
  <2>2. 1 \in Generation
    BY RangeAssumption DEF Generation
  <2>3. settings \in Payload
    BY <1>1 DEF StoreTypeOK
  <2> QED BY <2>1, <2>2, <2>3 DEF NextRecord, Record
<1>4. CASE ~AnyValid
  <2>1. ~Valid(t) /\ ~Valid(o) /\ promised = NoPayload
    BY <1>1, <1>2, <1>4 DEF AnyValid, Stored
  <2> QED BY <1>2, <1>3, <2>1 DEF SaveIsSafe, Saving, BeginSave, Content, Valid,
                                  historyVars, runtimeVars
<1>5. CASE AnyValid
  <2>1. o = Latest /\ Valid(o)
    BY <1>0, <1>5 DEF TargetSlot, Other, AnyValid, Latest, Slot
  <2>2. Valid(t) => slot[o].generation = Following(slot[t].generation)
    <3> SUFFICES ASSUME Valid(t)
                 PROVE  slot[o].generation = Following(slot[t].generation)
      OBVIOUS
    <3>1. Valid(0) /\ Valid(1)
      BY <2>1, <1>2 DEF Slot, Other
    <3>2. slot[0].generation \in Generation /\ slot[1].generation \in Generation
      BY <1>1, <3>1 DEF StoreTypeOK, Valid, Record, Slot
    <3>3. CASE slot[1].generation = Following(slot[0].generation)
      <4>1. Newer(slot[1].generation, slot[0].generation)
        BY <3>2, <3>3, FollowingIsNewer
      <4>2. Latest = 1
        BY <3>1, <4>1 DEF Latest
      <4> QED BY <3>3, <2>1, <4>2, <1>2 DEF Slot, Other
    <3>4. CASE slot[0].generation = Following(slot[1].generation)
      <4>1. ~Newer(slot[1].generation, slot[0].generation)
        BY <3>2, <3>4, FollowingIsNewer
      <4>2. Latest = 0
        BY <3>1, <4>1 DEF Latest
      <4> QED BY <3>4, <2>1, <4>2, <1>2 DEF Slot, Other
    <3> QED BY <3>1, <3>3, <3>4, <1>1 DEF OneApart
  <2>3. promised = Content(o) /\ NextRecord.generation = Following(slot[o].generation)
    BY <1>1, <1>5, <2>1 DEF Content, Stored, NextRecord
  <2> HIDE DEF o
  <2>4. Other(target)' = o
    BY <1>2 DEF o, Other
  <2> QED BY <1>2, <1>3, <2>1, <2>2, <2>3, <2>4
         DEF SaveIsSafe, Saving, BeginSave, Content, Valid, historyVars, runtimeVars
<1> QED BY <1>4, <1>5

LEMMA NextIInv == IInv /\ [StoreNext]_storeVars => IInv'
<1> SUFFICES ASSUME IInv, [StoreNext]_storeVars PROVE IInv'
  OBVIOUS
<1> USE DEF IInv
<1> InForce /\ (StoreTypeOK => InForce)'
  BY SlotInForce, PTL
<1>1. CASE UNCHANGED storeVars
  BY <1>1 DEF storeVars, flashVars, runtimeVars, historyVars, StoreTypeOK, OneApart, SaveIsSafe,
              IdleKeepsPromise, CleanIsPromised, NothingLost, Saving, Content, Valid,
              Stored, AnyValid, Latest
<1>2. ASSUME NEW p \in Payload, Change(p) PROVE IInv'
  BY <1>2 DEF Change, flashVars, historyVars, StoreTypeOK, OneApart, SaveIsSafe,
              IdleKeepsPromise, CleanIsPromised, NothingLost, Saving, Content, Valid,
              Stored, AnyValid, Latest
<1>3. CASE BeginSave
  <2>1. SaveIsSafe'
    BY <1>3, BeginIsSafe
  <2>2. StoreTypeOK'
    BY <1>3, <2>1 DEF BeginSave, StoreTypeOK, runtimeVars, historyVars, TargetSlot, Slot,
                      SaveIsSafe, Saving
  <2>3. OneApart' /\ IdleKeepsPromise' /\ CleanIsPromised'
    BY <1>3 DEF BeginSave, OneApart, IdleKeepsPromise, CleanIsPromised, runtimeVars,
                historyVars, Valid
  <2>4. NothingLost'
    BY <1>3, StoredFrame DEF BeginSave, NothingLost, IdleKeepsPromise, historyVars
  <2> QED BY <2>1, <2>2, <2>3, <2>4
<1>4. CASE Refused
  <2>1. Stored' = promised' /\ stage' = "idle" /\ record' = Damaged
    BY <1>4, StoredFrame DEF Refused, NothingLost, historyVars
  <2>2. StoreTypeOK' /\ OneApart' /\ CleanIsPromised' /\ SaveIsSafe'
    BY <1>4 DEF Refused, StoreTypeOK, OneApart, CleanIsPromised, SaveIsSafe, Saving,
                runtimeVars, historyVars, Valid
  <2> QED BY <2>1, <2>2 DEF IdleKeepsPromise, NothingLost
<1>5. CASE Erase
  <2>1. StoreTypeOK' /\ OneApart' /\ IdleKeepsPromise' /\ CleanIsPromised'
    BY <1>5 DEF Erase, StoreTypeOK, OneApart, IdleKeepsPromise, CleanIsPromised,
                runtimeVars, historyVars, Valid
  <2>2. SaveIsSafe'
    BY <1>5 DEF Erase, SaveIsSafe, Saving, StoreTypeOK, Content, Valid, Slot, Other,
                runtimeVars, historyVars
  <2>3. Stored' = promised'
    BY <1>5, <2>1, <2>2 DEF Erase, SaveIsSafe, Saving, InForce, StoreTypeOK, Valid
  <2> QED BY <2>1, <2>2, <2>3 DEF NothingLost
<1>6. CASE Program
  <2>0. PICK written \in {record, Damaged} : slot' = [slot EXCEPT ![target] = written]
    BY <1>6 DEF Program
  <2>1. StoreTypeOK' /\ IdleKeepsPromise' /\ CleanIsPromised'
    BY <1>6, <2>0 DEF Program, StoreTypeOK, IdleKeepsPromise, CleanIsPromised, runtimeVars,
                      historyVars
  <2>2. SaveIsSafe'
    BY <1>6, <2>0 DEF Program, SaveIsSafe, Saving, StoreTypeOK, Content, Valid, Slot, Other,
                      runtimeVars, historyVars
  <2>3. OneApart'
    BY <1>6, <2>0, <2>2, DamagedAssumption
       DEF Program, SaveIsSafe, Saving, StoreTypeOK, OneApart, Valid, Slot, Other
  <2>4. NothingLost'
    <3>1. CASE slot'[target'] = Damaged
      BY <1>6, <2>1, <2>2, <3>1 DEF Program, SaveIsSafe, Saving, InForce, StoreTypeOK, Valid,
                                    NothingLost
    <3>2. CASE slot'[target'] = record'
      BY <1>6, <2>1, <2>2, <3>2, DamagedAssumption
         DEF Program, SaveIsSafe, Saving, InForce, StoreTypeOK, Valid, NothingLost
    <3> QED BY <1>6, <2>2, <3>1, <3>2 DEF Program, SaveIsSafe, Saving
  <2> QED BY <2>1, <2>2, <2>3, <2>4
<1>7. CASE Verify
  <2>1. StoreTypeOK' /\ OneApart' /\ SaveIsSafe'
    BY <1>7 DEF Verify, StoreTypeOK, OneApart, SaveIsSafe, Saving, Record, Valid
  <2>2. CleanIsPromised'
    BY <1>7, PayloadAssumption DEF Verify, CleanIsPromised, SaveIsSafe, Saving, StoreTypeOK
  <2>3. Stored' = promised'
    <3>1. CASE Verified
      BY <1>7, <3>1, StoredFrame, DamagedAssumption
         DEF Verify, Verified, SaveIsSafe, Saving, InForce, StoreTypeOK, Valid
    <3>2. CASE ~Verified
      BY <1>7, <3>2, StoredFrame
         DEF Verify, Verified, SaveIsSafe, Saving, InForce, StoreTypeOK, Valid
    <3> QED BY <3>1, <3>2
  <2> QED BY <1>7, <2>1, <2>2, <2>3 DEF Verify, IdleKeepsPromise, NothingLost
<1>8. CASE PowerCut
  BY <1>8, StoredFrame
     DEF PowerCut, flashVars, runtimeVars, historyVars, StoreTypeOK, OneApart, SaveIsSafe,
         IdleKeepsPromise, CleanIsPromised, NothingLost, Saving, Valid
<1>9. CASE Boot
  <2>1. Stored' = Stored /\ promised' = Stored
    BY <1>9, StoredFrame DEF Boot
  <2>2. StoreTypeOK' /\ OneApart' /\ SaveIsSafe'
    BY <1>9, StoredType, PayloadAssumption
       DEF SlotTyped, StoredTyped, Boot, StoreTypeOK, OneApart, SaveIsSafe, Saving, Loaded, Valid
  <2>3. CleanIsPromised'
    BY <1>9, StoredType DEF SlotTyped, StoreTypeOK, StoredTyped, Boot, CleanIsPromised, Loaded
  <2> QED BY <1>9, <2>1, <2>2, <2>3 DEF Boot, IdleKeepsPromise, NothingLost
<1>10. ASSUME NEW i \in Slot, Decay(i) PROVE IInv'
  <2>1. StoreTypeOK' /\ OneApart' /\ SaveIsSafe' /\ CleanIsPromised'
    <3>1. slot' \in [Slot -> Record \cup {Damaged}]
      BY <1>10 DEF Decay, StoreTypeOK
    <3>2. Stored' \in Payload \cup {NoPayload}
      <4>1. (SlotTyped => StoredTyped)'
        BY StoredType, PTL
      <4> QED BY <3>1, <4>1 DEF SlotTyped, StoredTyped
    <3> QED BY <1>10, <3>1, <3>2
            DEF Decay, StoreTypeOK, OneApart, SaveIsSafe, Saving, CleanIsPromised, Valid,
                runtimeVars
  <2> QED BY <1>10, <2>1 DEF Decay, IdleKeepsPromise, NothingLost
<1> QED BY <1>1, <1>2, <1>3, <1>4, <1>5, <1>6, <1>7, <1>8, <1>9, <1>10 DEF StoreNext, Save

-----------------------------------------------------------------------------
(* What holds of every behaviour of the journal.                           *)

LEMMA Invariance == StoreSpec => []IInv
BY InitIInv, NextIInv, PTL DEF StoreSpec

\* Every save, failure, power cut and boot leaves flash, RAM and history typed.
THEOREM StoreTypeCorrect == StoreSpec => []StoreTypeOK
BY Invariance, PTL DEF IInv

\* A load gives what was promised, in the middle of a write too.
THEOREM NothingIsLost == StoreSpec => []NothingLost
BY Invariance, PTL DEF IInv

\* latest() can order any two valid slots, whatever the wraps and failures.
THEOREM AlwaysOneApart == StoreSpec => []OneApart
BY Invariance, PTL DEF IInv

\* Settings shown as clean are those the next boot loads.
THEOREM CleanSettingsSaved == StoreSpec => []CleanIsSaved
<1>1. IInv => CleanIsSaved
  <2> SUFFICES ASSUME IInv, stage = "idle", ~dirty, ~decayed PROVE settings = Loaded
    BY DEF CleanIsSaved
  <2>1. Stored = promised /\ settings = IF promised = NoPayload THEN Default ELSE promised
    BY DEF IInv, IdleKeepsPromise, CleanIsPromised
  <2>2. StoredTyped
    BY StoredType DEF IInv, StoreTypeOK, SlotTyped
  <2> QED BY <2>1, <2>2 DEF StoredTyped, Loaded
<1> QED BY <1>1, Invariance, PTL

\* Both, and the types: what the runs check as one invariant.
THEOREM KeepsRecord == StoreSpec => []RecordIsKept
<1>1. StoreTypeOK /\ NothingLost /\ CleanIsSaved => RecordIsKept
  BY DEF RecordIsKept
<1> QED BY <1>1, StoreTypeCorrect, NothingIsLost, CleanSettingsSaved, PTL

-----------------------------------------------------------------------------
(* The refinement: the save takes effect in Program, when the whole record *)
(* has been written, or never.                                             *)

LEMMA InitRefines == StoreInit => Promise!Init
BY DEF StoreInit, Promise!Init, Stored, AnyValid, Valid, Saving, Slot

LEMMA StepRefines ==
    ASSUME IInv, [StoreNext]_storeVars
    PROVE  [Promise!Next]_Promise!vars
<1> USE DEF IInv
<1> SlotTyped /\ InForce /\ StoredTyped
  BY SlotInForce, StoredType DEF StoreTypeOK, SlotTyped
<1> (StoreTypeOK => InForce)' /\ StoreTypeOK' /\ SaveIsSafe'
  BY SlotInForce, NextIInv, PTL
<1> DEFINE Pending == IF Saving THEN record.payload ELSE NoPayload
           Taken == stage = "verify" /\ Verified
<1>1. CASE UNCHANGED storeVars
  BY <1>1, StoredFrame
     DEF storeVars, flashVars, Promise!vars, Saving, Verified
<1>2. ASSUME NEW p \in Payload, Change(p) PROVE UNCHANGED Promise!vars
  BY <1>2, StoredFrame DEF Change, flashVars, Promise!vars, Saving, Verified
<1>3. CASE BeginSave
  <2>1. record'.payload \in Payload
    BY <1>3 DEF SaveIsSafe, Saving, BeginSave, Record
  <2>2. Promise!Begin(record'.payload)
    BY <1>3, StoredFrame DEF BeginSave, Promise!Begin, Saving, Verified
  <2> QED BY <2>1, <2>2 DEF Promise!Next
<1>4. CASE Refused
  <2>1. Promise!End
    BY <1>4, StoredFrame, PayloadAssumption
       DEF Refused, Promise!End, Saving, Verified, SaveIsSafe, Record
  <2> QED BY <2>1 DEF Promise!Next
<1>5. CASE Erase
  <2>1. Stored' = Stored
    <3>1. Stored = promised
      BY <1>5 DEF Erase, NothingLost
    <3>2. Stored' = promised'
      BY <1>5 DEF Erase, SaveIsSafe, Saving, InForce, StoreTypeOK, Valid
    <3> QED BY <1>5, <3>1, <3>2 DEF Erase, historyVars
  <2> QED BY <1>5, <2>1 DEF Erase, Promise!vars, Saving, Verified
<1>6. CASE Program
  <2>0. Stored = promised
    BY <1>6 DEF Program, NothingLost
  <2>1. PICK written \in {record, Damaged} : slot' = [slot EXCEPT ![target] = written]
    BY <1>6 DEF Program
  <2>2. CASE written = record
    <3>1. slot'[target'] = record' /\ Stored' = record'.payload
      BY <1>6, <2>1, <2>2, DamagedAssumption
         DEF Program, SaveIsSafe, Saving, InForce, StoreTypeOK, Valid
    <3>2. Promise!Take
      BY <1>6, <3>1, PayloadAssumption
         DEF Program, Promise!Take, Saving, Verified, SaveIsSafe, Record
    <3> QED BY <3>2 DEF Promise!Next
  <2>3. CASE written = Damaged
    <3>1. slot'[target'] = Damaged /\ record' = record /\ Stored' = Stored
      BY <1>6, <2>0, <2>1, <2>3
         DEF Program, SaveIsSafe, Saving, InForce, StoreTypeOK, Valid, historyVars
    <3>2. record # Damaged
      BY <1>6, DamagedAssumption DEF Program, SaveIsSafe, Saving
    <3> QED BY <1>6, <3>1, <3>2 DEF Program, Promise!vars, Saving, Verified
  <2> QED BY <2>2, <2>3
<1>7. CASE Verify
  <2>1. Promise!End
    BY <1>7, StoredFrame, PayloadAssumption
       DEF Verify, Promise!End, Saving, Verified, SaveIsSafe, Record
  <2> QED BY <2>1 DEF Promise!Next
<1>8. CASE PowerCut
  <2>1. Stored' = Stored
    BY <1>8, StoredFrame DEF PowerCut, flashVars
  <2>2. CASE Saving
    <3>1. Promise!End
      BY <1>8, <2>1, <2>2, PayloadAssumption
         DEF PowerCut, Promise!End, Saving, Verified, SaveIsSafe, Record
    <3> QED BY <3>1 DEF Promise!Next
  <2>3. CASE ~Saving
    BY <1>8, <2>1, <2>3 DEF PowerCut, Promise!vars, Saving, Verified
  <2> QED BY <2>2, <2>3
<1>9. CASE Boot
  BY <1>9, StoredFrame DEF Boot, Promise!vars, Saving, Verified
<1>10. ASSUME NEW i \in Slot, Decay(i) PROVE Promise!Next
  <2>1. Stored' \in Payload \cup {NoPayload}
    <3>1. SlotTyped'
      BY DEF StoreTypeOK, SlotTyped
    <3>2. StoredTyped'
      BY <3>1, StoredType, PTL
    <3> QED BY <3>2 DEF StoredTyped
  <2>2. Promise!Decay
    BY <1>10, <2>1 DEF Decay, Promise!Decay, Saving, Verified
  <2> QED BY <2>2 DEF Promise!Next
<1> QED BY <1>1, <1>2, <1>3, <1>4, <1>5, <1>6, <1>7, <1>8, <1>9, <1>10 DEF StoreNext, Save

\* bridge_store_save replaces the one record atomically, whatever fails and
\* wherever the power is cut; only a slot that goes bad at rest can lose it.
THEOREM JournalIsAtomic == StoreSpec => SavesAtomically
<1>1. IInv /\ [StoreNext]_storeVars => [Promise!Next]_Promise!vars
  BY StepRefines
<1> QED BY <1>1, InitRefines, Invariance, PTL DEF StoreSpec, SavesAtomically, Promise!Spec

-----------------------------------------------------------------------------
(* The input that the host is shown.  The number of a frame and the clock  *)
(* go round, and fewer frames, and less time, than a turn lie between two  *)
(* that are compared.                                                      *)

\* The place k before n on a circle of m
Before(n, k, m) == IF k <= n THEN n - k ELSE n - k + m

\* The clock, and the number of a frame, go round.
LEMMA GoesRound ==
    ASSUME NEW m \in Nat \ {0}, NEW n \in 0..(m - 1)
    PROVE  (n + 1) % m = IF n = m - 1 THEN 0 ELSE n + 1
<1>1. CASE n = m - 1
  BY <1>1
<1>2. CASE n # m - 1
  BY <1>2
<1> QED BY <1>1, <1>2

\* Two places on a circle are as far apart as it takes to go from one to the other.
LEMMA Apart ==
    ASSUME NEW m \in Nat \ {0}, NEW n \in 0..(m - 1), NEW k \in 0..(m - 1)
    PROVE  (n - Before(n, k, m)) % m = k
<1>1. CASE k <= n
  BY <1>1 DEF Before
<1>2. CASE k > n
  <2>1. n - Before(n, k, m) = k - m
    BY <1>2 DEF Before
  <2>2. (k - m) % m = k
    OBVIOUS
  <2> QED BY <2>1, <2>2
<1> QED BY <1>1, <1>2

\* Going on, the place of origin is one further back.
LEMMA OneFurther ==
    ASSUME NEW m \in Nat \ {0}, NEW n \in 0..(m - 1), NEW k \in 0..(m - 2)
    PROVE  /\ (n + 1) % m \in 0..(m - 1)
           /\ Before((n + 1) % m, k + 1, m) = Before(n, k, m)
  BY GoesRound DEF Before

\* Less than a turn back is elsewhere.
LEMMA Elsewhere ==
    ASSUME NEW m \in Nat \ {0}, NEW n \in 0..(m - 1), NEW k \in 0..(m - 1)
    PROVE  /\ Before(n, k, m) \in 0..(m - 1)
           /\ Before(n, k, m) = n <=> k = 0
  BY DEF Before

-----------------------------------------------------------------------------
(* The invariant of the input: what is kept of a controller, and when it   *)
(* changed, is what arrived last and when.                                 *)

Number == 0..(Sequences - 1)
Snapshots == [valid : BOOLEAN, number : Number, frame : Frames \cup {Neutral}, full : BOOLEAN]

\* What a controller is: the frame it has, and how many it made since one arrived
Controllers ==
    [up : BOOLEAN, number : Number, frame : Frames \cup {Neutral}, full : BOOLEAN,
     delivered : BOOLEAN, lost : 0..(Sequences - 2)]

MadeFrames ==
    /\ controller \in [Source -> Controllers]
    /\ \A s \in Source : controller[s].up => controller[s].frame \in Frames

\* last_source_sequence is the number of the last frame that arrived, fewer than
\* a turn ago; without a frame made since, that frame is what was heard.
NumberIsLast ==
    physical.source # Nobody =>
        LET c == controller[physical.source]
        IN  /\ has_sequence /\ sequence = Before(c.number, c.lost, Sequences)
            /\ c.delivered <=> c.lost = 0
            /\ c.lost = 0 => received = c.frame

\* What is kept is what was heard, and last_fresh_ms the time when that changed.
KeptIsHeard ==
    physical.source # Nobody =>
        /\ physical.frame = received /\ received \in Frames
        /\ native \in {Neutral, received}
        /\ last_fresh = Before(now, age, Clock)

\* The same of the snapshot of ns2_input.cpp, whether it is accepted or not
SnapshotIsLast ==
    input.valid =>
        LET c == controller[Ns2]
        IN  /\ input.number = Before(c.number, c.lost, Sequences)
            /\ c.lost = 0 => input.frame = c.frame /\ input.full = c.full

InputInv == InputTypeOK /\ MadeFrames /\ NumberIsLast /\ KeptIsHeard /\ SnapshotIsLast

-----------------------------------------------------------------------------
(* Every step of the input keeps the invariant.                            *)

\* Nothing is kept at first.
LEMMA InputInitInv == InputInit => InputInv
<1> SUFFICES ASSUME InputInit PROVE InputInv
  OBVIOUS
<1>1. NoController \in Controllers /\ ~NoController.up
  BY InputAssumption DEF NoController, Controllers, Number, Snapshots
<1>2. MadeFrames
  BY <1>1 DEF InputInit, MadeFrames
<1>3. /\ NoInput \in Snapshots
      /\ Nothing \in [source : Source \cup {Nobody}, frame : Frames \cup {Neutral}]
      /\ ~NoInput.valid /\ Nothing.source = Nobody
  BY InputAssumption DEF NoInput, Nothing, Number, Snapshots
<1>4. InputTypeOK
  <2>1. 0 \in 0..(Sequences - 1) /\ 0 \in 0..(Clock - 1) /\ 0 \in 0..MaxSilence
    BY InputAssumption
  <2> QED BY <1>3, <2>1 DEF InputInit, InputTypeOK, Number, Snapshots
<1>5. NumberIsLast /\ KeptIsHeard /\ SnapshotIsLast
  BY <1>3 DEF InputInit, NumberIsLast, KeptIsHeard, SnapshotIsLast
<1> QED BY <1>2, <1>4, <1>5 DEF InputInv

\* A reset forgets all that the invariant is about, but for the snapshot.
LEMMA ResetKeeps ==
    ASSUME InputInv, ResetInput, UNCHANGED now,
           accepted' \in (SUBSET Source) \ {{}},
           MadeFrames', SnapshotIsLast', input' \in {NoInput, input}
    PROVE  InputInv'
<1>1. InputTypeOK'
  <2>1. NoInput \in Snapshots
    BY InputAssumption DEF NoInput, Number, Snapshots
  <2>2. input' \in Snapshots
    BY <2>1 DEF InputInv, InputTypeOK, Number, Snapshots
  <2>3. physical' \in [source : Source \cup {Nobody}, frame : Frames \cup {Neutral}]
        /\ physical'.source = Nobody
    BY DEF ResetInput, Nothing
  <2> QED BY <2>2, <2>3 DEF InputInv, InputTypeOK, ResetInput, Number, Snapshots
<1>2. NumberIsLast' /\ KeptIsHeard'
  BY DEF ResetInput, Nothing, NumberIsLast, KeptIsHeard
<1> QED BY <1>1, <1>2 DEF InputInv

\* A frame that is taken: with a number that is the last one's it is that same
\* frame, and with another it is kept, as of now.
LEMMA TakeKeeps ==
    ASSUME InputInv, NEW s \in Source, NEW full \in BOOLEAN,
           controller[s].up, s \in accepted,
           Take(s, controller[s].number, controller[s].frame, full), UNCHANGED now
    PROVE  /\ accepted' = {s} /\ physical'.source = s
           /\ physical' \in [source : Source \cup {Nobody}, frame : Frames \cup {Neutral}]
           /\ native' \in Frames \cup {Neutral} /\ last_fresh' \in 0..(Clock - 1)
           /\ sequence' = controller[s].number /\ has_sequence' = TRUE
           /\ age' \in 0..MaxSilence
           /\ received' = controller[s].frame
           /\ KeptIsHeard'
<1> DEFINE c == controller[s]
<1>0. /\ c \in Controllers /\ c.frame \in Frames /\ c.number \in Number
      /\ c.lost \in 0..(Sequences - 2) /\ s # Nobody /\ now \in 0..(Clock - 1)
  BY InputAssumption DEF InputInv, InputTypeOK, MadeFrames, Controllers, Source
<1>1. /\ accepted' = {s} /\ Note(s, c.number, c.frame, full) /\ Deliver(s, c.frame)
  BY DEF Take
<1>2. Before(now, 0, Clock) = now
  BY <1>0, InputAssumption, Elsewhere
<1>5. Before(c.number, c.lost, Sequences) = c.number <=> c.lost = 0
  <2>1. /\ Sequences \in Nat \ {0} /\ c.number \in 0..(Sequences - 1)
        /\ c.lost \in 0..(Sequences - 1)
    BY <1>0, InputAssumption DEF Number, Snapshots
  <2> HIDE DEF c
  <2> QED BY <2>1, Elsewhere
<1>6. physical.source = s =>
        /\ has_sequence /\ sequence = Before(c.number, c.lost, Sequences)
        /\ c.delivered <=> c.lost = 0
        /\ c.lost = 0 => received = c.frame
  BY <1>0 DEF InputInv, NumberIsLast
<1> HIDE DEF c
<1>3. CASE physical.source = s /\ c.lost = 0
  <2>1. c.delivered /\ received = c.frame /\ has_sequence /\ sequence = c.number
    BY <1>3, <1>5, <1>6
  <2>2. UNCHANGED <<physical, native, last_fresh, received, age>> /\ sequence' = c.number
        /\ has_sequence' = TRUE
    BY <2>1, <1>1, <1>3 DEF Note, Fresh, Deliver, c
  <2>3. KeptIsHeard'
    BY <2>2 DEF InputInv, KeptIsHeard
  <2> QED BY <2>1, <2>2, <2>3, <1>1, <1>3 DEF InputInv, InputTypeOK, c
<1>4. CASE ~(physical.source = s /\ c.lost = 0)
  <2>1. physical.source = s => ~c.delivered /\ sequence # c.number
    BY <1>4, <1>5, <1>6
  <2>2. /\ physical' = [source |-> s, frame |-> c.frame]
        /\ native' = NativeOf(s, c.frame, full) /\ last_fresh' = now
        /\ age' = 0 /\ received' = c.frame /\ sequence' = c.number /\ has_sequence' = TRUE
    BY <2>1, <1>1 DEF Note, Fresh, Deliver, c
  <2>3. native' \in {Neutral, c.frame}
    BY <2>2 DEF NativeOf
  <2>4. KeptIsHeard'
    BY <2>2, <2>3, <1>0, <1>2 DEF KeptIsHeard
  <2> QED BY <2>2, <2>3, <2>4, <1>0, <1>1, InputAssumption DEF c
<1> QED BY <1>3, <1>4

\* What Connect and NextFrame make of a controller, and the arrival of a frame.
LEMMA WithFrameIsController ==
    ASSUME NEW number \in Number, NEW frame \in Frames, NEW full \in BOOLEAN,
           NEW lost \in 0..(Sequences - 2)
    PROVE  WithFrame(number, frame, full, lost) \in Controllers
  BY DEF Controllers, WithFrame

\* A controller whose frame has arrived is still a controller, with the same frame.
LEMMA ArrivalIsController ==
    ASSUME NEW c \in Controllers, NEW b \in BOOLEAN
    PROVE  LET d == Arrived(c, b) IN
           /\ d \in Controllers
           /\ d.up = c.up /\ d.number = c.number /\ d.frame = c.frame /\ d.full = c.full
           /\ (d.delivered <=> b) /\ d.lost = 0
<1>1. 0 \in 0..(Sequences - 2)
  BY InputAssumption
<1> QED BY <1>1 DEF Controllers, Arrived

\* A link comes up: nothing kept is of its controller, and the snapshot is none.
LEMMA ConnectKeeps ==
    ASSUME InputInv, NEW s \in Source, Connect(s)
    PROVE  InputInv'
<1>1. PICK number \in Number, frame \in Frames, full \in {TRUE, s = Ds5} :
          controller' = [controller EXCEPT ![s] = WithFrame(number, frame, full, 0)]
  BY DEF Connect, Number, Snapshots
<1>2. WithFrame(number, frame, full, 0) \in Controllers /\ WithFrame(number, frame, full, 0).frame = frame
  <2>1. full \in BOOLEAN
    BY Zenon
  <2>2. 0 \in 0..(Sequences - 2)
    BY InputAssumption
  <2> QED BY <2>1, <2>2, WithFrameIsController DEF WithFrame
<1>3. MadeFrames'
  BY <1>1, <1>2 DEF InputInv, MadeFrames
<1>4. \A x \in Source \ {s} : controller'[x] = controller[x]
  BY <1>1 DEF InputInv, MadeFrames
<1>5. physical.source # Nobody => physical.source \in Source \ {s}
  BY DEF InputInv, InputTypeOK, Connect
<1>6. UNCHANGED <<accepted, stateVars, now, received, age>>
  BY DEF Connect
<1>7. NumberIsLast' /\ KeptIsHeard'
  BY <1>4, <1>5, <1>6 DEF InputInv, NumberIsLast, KeptIsHeard, stateVars
<1>8. SnapshotIsLast'
  <2>1. CASE s = Ns2
    BY <2>1 DEF Connect, NoInput, SnapshotIsLast
  <2>2. CASE s # Ns2
    BY <2>2, <1>4 DEF Connect, SnapshotIsLast, InputInv, Source
  <2> QED BY <2>1, <2>2
<1>9. InputTypeOK'
  <2>1. NoInput \in Snapshots
    BY InputAssumption DEF NoInput, Number, Snapshots
  <2>2. input' \in Snapshots
    BY <2>1 DEF Connect, InputInv, InputTypeOK, Number, Snapshots
  <2> QED BY <2>2, <1>4, <1>5, <1>6 DEF InputInv, InputTypeOK, stateVars, Number, Snapshots
<1> QED BY <1>3, <1>7, <1>8, <1>9 DEF InputInv

\* A controller makes a frame: number and count go on together, so that what
\* arrived before has the number it had.
LEMMA NextFrameKeeps ==
    ASSUME InputInv, NEW s \in Source, NextFrame(s)
    PROVE  InputInv'
<1> DEFINE c == controller[s]
<1>1. c \in Controllers /\ c.up /\ c.lost \in 0..(Sequences - 3) /\ c.number \in Number
  BY InputAssumption DEF InputInv, MadeFrames, NextFrame, Controllers
<1>2. PICK frame \in Frames, full \in {TRUE, s = Ds5} :
          controller' = [controller EXCEPT ![s] =
              WithFrame((c.number + 1) % Sequences, frame, full, c.lost + 1)]
  BY DEF NextFrame
<1>3. /\ (c.number + 1) % Sequences \in Number
      /\ Before((c.number + 1) % Sequences, c.lost + 1, Sequences)
            = Before(c.number, c.lost, Sequences)
  <2>1. /\ Sequences \in Nat \ {0} /\ c.number \in 0..(Sequences - 1)
        /\ c.lost \in 0..(Sequences - 2)
    BY <1>1, InputAssumption DEF Number, Snapshots
  <2> HIDE DEF c
  <2> QED BY <2>1, OneFurther DEF Number, Snapshots
<1>4. /\ controller'[s] \in Controllers /\ controller'[s].up /\ controller'[s].frame = frame
      /\ controller'[s].number = (c.number + 1) % Sequences
      /\ ~controller'[s].delivered /\ controller'[s].lost = c.lost + 1
  <2>1. controller'[s] = WithFrame((c.number + 1) % Sequences, frame, full, c.lost + 1)
    BY <1>2 DEF InputInv, MadeFrames
  <2>2. full \in BOOLEAN
    BY Zenon
  <2>3. c.lost + 1 \in 0..(Sequences - 2)
    BY <1>1, InputAssumption
  <2>4. controller'[s] \in Controllers
    BY <2>1, <2>2, <2>3, <1>3, WithFrameIsController
  <2> QED BY <2>1, <2>4 DEF WithFrame
<1>5. controller'[s].frame \in Frames
  BY <1>4
<1>6. \A x \in Source \ {s} : controller'[x] = controller[x]
  BY <1>2 DEF InputInv, MadeFrames
<1>7. MadeFrames'
  <2>1. controller' = [x \in Source |-> controller'[x]]
    BY <1>2 DEF InputInv, MadeFrames
  <2>2. \A x \in Source : controller'[x] \in Controllers
    BY <1>4, <1>6 DEF InputInv, MadeFrames
  <2> QED BY <2>1, <2>2, <1>5, <1>6 DEF InputInv, MadeFrames
<1>8. UNCHANGED <<input, accepted, stateVars, now, received, age>>
  BY DEF NextFrame
<1>9. c.lost + 1 # 0
  BY <1>1
<1>10. physical.source # Nobody => physical.source \in Source
  BY DEF InputInv, InputTypeOK
<1> HIDE DEF c
<1>11. NumberIsLast'
  <2>1. CASE physical.source = s
    BY <2>1, <1>3, <1>4, <1>8, <1>9 DEF InputInv, NumberIsLast, stateVars, c
  <2>2. CASE physical.source # s
    BY <2>2, <1>6, <1>8, <1>10 DEF InputInv, NumberIsLast, stateVars
  <2> QED BY <2>1, <2>2
<1>12. KeptIsHeard'
  BY <1>8 DEF InputInv, KeptIsHeard, stateVars
<1>13. SnapshotIsLast'
  <2>1. CASE s = Ns2
    BY <2>1, <1>3, <1>4, <1>8, <1>9 DEF InputInv, SnapshotIsLast, c
  <2>2. CASE s # Ns2
    BY <2>2, <1>6, <1>8 DEF InputInv, SnapshotIsLast, Source
  <2> QED BY <2>1, <2>2
<1>14. InputTypeOK'
  BY <1>1, <1>4, <1>6, <1>8, <1>10 DEF InputInv, InputTypeOK, stateVars
<1> QED BY <1>7, <1>11, <1>12, <1>13, <1>14 DEF InputInv

\* A frame arrives, the first or again, and of a controller that is accepted or not.
LEMMA ArrivalKeeps ==
    ASSUME InputInv, NEW s \in Source, NEW full \in BOOLEAN, NEW b \in BOOLEAN,
           b <=> s \in accepted, controller[s].up, UNCHANGED now,
           Take(s, controller[s].number, controller[s].frame, full),
           controller' = [controller EXCEPT ![s] = Arrived(controller[s], b)],
           input' \in Snapshots,
           SnapshotIsLast'
    PROVE  InputInv'
<1> DEFINE c == controller[s]
<1>1. c \in Controllers /\ c.frame \in Frames /\ c.number \in Number /\ s # Nobody
  BY InputAssumption DEF InputInv, MadeFrames, Controllers, Source
<1>2. /\ controller'[s] \in Controllers
      /\ controller'[s].up /\ controller'[s].number = c.number
      /\ controller'[s].frame = c.frame /\ controller'[s].full = c.full
      /\ (controller'[s].delivered <=> s \in accepted) /\ controller'[s].lost = 0
  <2>1. controller'[s] = Arrived(c, b)
    BY DEF InputInv, MadeFrames
  <2>2. /\ controller'[s] \in Controllers
        /\ controller'[s].up = c.up /\ controller'[s].number = c.number
        /\ controller'[s].frame = c.frame /\ controller'[s].full = c.full
        /\ (controller'[s].delivered <=> b) /\ controller'[s].lost = 0
    <3> HIDE DEF c
    <3> QED BY <2>1, <1>1, ArrivalIsController
  <2> QED BY <2>2
<1>3. controller'[s].frame \in Frames
  BY <1>1, <1>2
<1>4. \A x \in Source \ {s} : controller'[x] = controller[x]
  BY DEF InputInv, MadeFrames
<1>5. MadeFrames'
  <2>1. controller' = [x \in Source |-> controller'[x]]
    BY DEF InputInv, MadeFrames
  <2>2. \A x \in Source : controller'[x] \in Controllers
    BY <1>2, <1>4 DEF InputInv, MadeFrames
  <2> QED BY <2>1, <2>2, <1>3, <1>4 DEF InputInv, MadeFrames
<1>6. Before(c.number, 0, Sequences) = c.number
  <2>1. Sequences \in Nat \ {0} /\ c.number \in 0..(Sequences - 1) /\ 0 \in 0..(Sequences - 1)
    BY <1>1, InputAssumption DEF Number, Snapshots
  <2> HIDE DEF c
  <2> QED BY <2>1, Elsewhere
<1>7. CASE s \in accepted
  <2>1. /\ accepted' = {s} /\ physical'.source = s
        /\ physical' \in [source : Source \cup {Nobody}, frame : Frames \cup {Neutral}]
        /\ native' \in Frames \cup {Neutral} /\ last_fresh' \in 0..(Clock - 1)
        /\ sequence' = c.number /\ has_sequence' = TRUE
        /\ age' \in 0..MaxSilence
        /\ received' = c.frame
        /\ KeptIsHeard'
    BY <1>7, TakeKeeps
  <2>2. NumberIsLast'
    BY <2>1, <1>2, <1>6, <1>7 DEF NumberIsLast
  <2>3. InputTypeOK'
    BY <2>1, <1>1, <1>2 DEF InputInv, InputTypeOK, Number, Snapshots
  <2> QED BY <2>1, <2>2, <2>3, <1>5 DEF InputInv
<1>8. CASE s \notin accepted
  <2>1. UNCHANGED <<accepted, stateVars, received, age>>
    BY <1>8 DEF Take
  <2>2. physical.source # Nobody => physical.source \in Source \ {s}
    BY <1>8 DEF InputInv, InputTypeOK
  <2>3. NumberIsLast' /\ KeptIsHeard'
    BY <2>1, <2>2, <1>4 DEF InputInv, NumberIsLast, KeptIsHeard, stateVars
  <2>4. InputTypeOK'
    BY <2>1, <2>2, <1>4 DEF InputInv, InputTypeOK, stateVars, Number, Snapshots
  <2> QED BY <2>3, <2>4, <1>5 DEF InputInv
<1> QED BY <1>7, <1>8

\* A DualSense's frames are numbered by the controller.
LEMMA Ds5FrameKeeps ==
    ASSUME InputInv, Ds5Frame
    PROVE  InputInv'
<1>1. PICK b \in BOOLEAN : b = (Ds5 \in accepted)
  <2>1. (Ds5 \in accepted) \in BOOLEAN
    OBVIOUS
  <2> QED BY <2>1, Zenon
<1>2. controller' = [controller EXCEPT ![Ds5] = Arrived(controller[Ds5], b)]
  BY <1>1, Zenon DEF Ds5Frame
<1>3. /\ controller[Ds5].up /\ UNCHANGED <<input, now>> /\ Ds5 \in Source
      /\ Take(Ds5, controller[Ds5].number, controller[Ds5].frame, TRUE)
  BY DEF Ds5Frame, Source
<1>4. input' \in Snapshots
  BY <1>3 DEF InputInv, InputTypeOK, Number, Snapshots
<1>5. controller'[Ns2] = controller[Ns2]
  BY <1>2, InputAssumption DEF InputInv, MadeFrames, Source
<1>6. SnapshotIsLast'
  BY <1>3, <1>5 DEF InputInv, SnapshotIsLast
<1>7. b <=> Ds5 \in accepted
  BY <1>1
<1> HIDE DEF InputInv
<1> QED BY <1>2, <1>3, <1>4, <1>6, <1>7, ArrivalKeeps

\* The snapshot is that of the frame that arrives, whether it was parsed now or is
\* kept because the number is the last one.
LEMMA Ns2FrameKeeps ==
    ASSUME InputInv, Ns2Frame
    PROVE  InputInv'
<1> DEFINE c == controller[Ns2]
<1>1. PICK b \in BOOLEAN : b = (Ns2 \in accepted)
  <2>1. (Ns2 \in accepted) \in BOOLEAN
    OBVIOUS
  <2> QED BY <2>1, Zenon
<1>2. controller' = [controller EXCEPT ![Ns2] = Arrived(controller[Ns2], b)]
  BY <1>1, Zenon DEF Ns2Frame
<1>3. /\ c.up /\ UNCHANGED now /\ Ns2 \in Source /\ input' = Parsed(c)
      /\ Take(Ns2, input'.number, input'.frame, input'.full)
  BY DEF Ns2Frame, Source
<1>4. /\ c \in Controllers /\ c.number \in Number /\ c.frame \in Frames /\ c.full \in BOOLEAN
      /\ c.lost \in 0..(Sequences - 2)
  BY <1>3 DEF InputInv, MadeFrames, Controllers
<1>5. /\ Before(c.number, c.lost, Sequences) = c.number <=> c.lost = 0
      /\ Before(c.number, 0, Sequences) = c.number
  <2>1. /\ Sequences \in Nat \ {0} /\ c.number \in 0..(Sequences - 1)
        /\ c.lost \in 0..(Sequences - 1) /\ 0 \in 0..(Sequences - 1)
    BY <1>4, InputAssumption DEF Number, Snapshots
  <2> HIDE DEF c
  <2> QED BY <2>1, Elsewhere
<1>6. /\ input' \in Snapshots
      /\ input'.number = c.number /\ input'.frame = c.frame /\ input'.full = c.full
  <2>1. CASE input.valid /\ input.number = c.number
    <3>1. input' = input
      BY <1>3, <2>1 DEF Parsed
    <3>2. input.frame = c.frame /\ input.full = c.full
      BY <2>1, <1>5 DEF InputInv, SnapshotIsLast
    <3> QED BY <3>1, <3>2, <2>1 DEF InputInv, InputTypeOK, Number, Snapshots
  <2>2. CASE ~(input.valid /\ input.number = c.number)
    <3>1. input' = [valid |-> TRUE, number |-> c.number, frame |-> c.frame, full |-> c.full]
      BY <1>3, <2>2 DEF Parsed
    <3> QED BY <3>1, <1>4 DEF Snapshots
  <2> QED BY <2>1, <2>2
<1>7. SnapshotIsLast'
  <2>1. controller'[Ns2] = Arrived(c, b)
    BY <1>2, <1>3 DEF InputInv, MadeFrames
  <2>2. /\ controller'[Ns2].number = c.number /\ controller'[Ns2].frame = c.frame
        /\ controller'[Ns2].full = c.full /\ controller'[Ns2].lost = 0
    <3> HIDE DEF c
    <3> QED BY <2>1, <1>4, ArrivalIsController
  <2> QED BY <2>2, <1>5, <1>6 DEF SnapshotIsLast
<1>8. b <=> Ns2 \in accepted
  BY <1>1
<1>9. input'.full \in BOOLEAN /\ Take(Ns2, c.number, c.frame, input'.full)
  BY <1>3, <1>4, <1>6
<1> HIDE DEF InputInv
<1> QED BY <1>2, <1>3, <1>6, <1>7, <1>8, <1>9, ArrivalKeeps

\* What is of a link that is lost goes with it; of another link it stays.
LEMMA DisconnectKeeps ==
    ASSUME InputInv, NEW s \in Source, Disconnect(s)
    PROVE  InputInv'
<1>1. \A x \in Source \ {s} :
          controller'[x] = [controller[x] EXCEPT !.delivered = @ /\ accepted # {s}]
  BY DEF Disconnect
<1>2. controller'[s] = NoController
  BY DEF Disconnect
<1>3. NoController \in Controllers /\ ~NoController.up
  BY InputAssumption DEF NoController, Controllers, Number, Snapshots
<1>4. \A x \in Source \ {s} :
          /\ controller'[x] \in Controllers
          /\ controller'[x].up = controller[x].up
          /\ controller'[x].number = controller[x].number
          /\ controller'[x].frame = controller[x].frame
          /\ controller'[x].full = controller[x].full
          /\ controller'[x].lost = controller[x].lost
          /\ accepted # {s} => controller'[x] = controller[x]
  <2> TAKE x \in Source \ {s}
  <2>1. controller[x] \in Controllers
    BY DEF InputInv, MadeFrames
  <2>2. CASE accepted = {s}
    <3>1. controller'[x] = [controller[x] EXCEPT !.delivered = FALSE]
      BY <1>1, <2>2
    <3> QED BY <3>1, <2>1, <2>2 DEF Controllers
  <2>3. CASE accepted # {s}
    <3>1. controller'[x] = controller[x]
      BY <1>1, <2>1, <2>3 DEF Controllers
    <3> QED BY <3>1, <2>1
  <2> QED BY <2>2, <2>3
<1>5. MadeFrames'
  <2>1. controller' = [x \in Source |-> controller'[x]]
    BY DEF Disconnect
  <2>2. \A x \in Source : controller'[x] \in Controllers
    BY <1>2, <1>3, <1>4
  <2> QED BY <2>1, <2>2, <1>2, <1>3, <1>4 DEF InputInv, MadeFrames
<1>6. SnapshotIsLast'
  <2>1. CASE s = Ns2
    BY <2>1 DEF Disconnect, NoInput, SnapshotIsLast
  <2>2. CASE s # Ns2
    <3>1. Ns2 \in Source \ {s} /\ input' = input
      BY <2>2 DEF Disconnect, Source
    <3> QED BY <3>1, <1>4 DEF SnapshotIsLast, InputInv
  <2> QED BY <2>1, <2>2
<1>7. input' \in {NoInput, input} /\ UNCHANGED now
  BY DEF Disconnect
<1>8. CASE accepted = {s}
  <2>1. ResetInput /\ accepted' \in (SUBSET Source) \ {{}}
    BY <1>8 DEF Disconnect
  <2> QED BY <2>1, <1>5, <1>6, <1>7, ResetKeeps
<1>9. CASE accepted # {s}
  <2>1. UNCHANGED <<accepted, stateVars, received, age>>
    BY <1>9 DEF Disconnect
  <2>2. physical.source # Nobody => physical.source \in Source \ {s}
    BY <1>9 DEF InputInv, InputTypeOK
  <2>3. NumberIsLast' /\ KeptIsHeard'
    BY <2>1, <2>2, <1>4, <1>7, <1>9 DEF InputInv, NumberIsLast, KeptIsHeard, stateVars
  <2>4. NoInput \in Snapshots
    BY InputAssumption DEF NoInput, Number, Snapshots
  <2>5. input' \in Snapshots
    BY <2>4, <1>7 DEF InputInv, InputTypeOK, Number, Snapshots
  <2>6. InputTypeOK'
    BY <2>1, <2>2, <2>5, <1>4, <1>7, <1>9
    DEF InputInv, InputTypeOK, stateVars, Number, Snapshots
  <2> QED BY <2>3, <2>6, <1>5, <1>6 DEF InputInv
<1> QED BY <1>8, <1>9

\* A command forgets what was kept, and leaves the snapshot of ns2_input.cpp.
LEMMA CommandKeeps ==
    ASSUME InputInv, SessionCommand
    PROVE  InputInv'
<1>1. \A x \in Source :
          /\ controller'[x] \in Controllers
          /\ controller'[x].up = controller[x].up
          /\ controller'[x].number = controller[x].number
          /\ controller'[x].frame = controller[x].frame
          /\ controller'[x].full = controller[x].full
          /\ controller'[x].lost = controller[x].lost
  <2> TAKE x \in Source
  <2>1. controller[x] \in Controllers
    BY DEF InputInv, MadeFrames
  <2>2. controller'[x] = [controller[x] EXCEPT !.delivered = FALSE]
    BY DEF SessionCommand
  <2> QED BY <2>1, <2>2 DEF Controllers
<1>2. MadeFrames'
  <2>1. controller' = [x \in Source |-> controller'[x]]
    BY DEF SessionCommand
  <2> QED BY <2>1, <1>1 DEF InputInv, MadeFrames
<1>3. ResetInput /\ UNCHANGED <<input, now>> /\ accepted' \in (SUBSET Source) \ {{}}
  BY DEF SessionCommand
<1>4. SnapshotIsLast'
  BY <1>1, <1>3 DEF InputInv, SnapshotIsLast, Source
<1> QED BY <1>2, <1>3, <1>4, ResetKeeps

\* The clock and the age go on together, for as long as a controller is silent.
LEMMA ElapseKeeps ==
    ASSUME InputInv, Elapse
    PROVE  InputInv'
<1>1. /\ now' \in 0..(Clock - 1)
      /\ age + 1 < Clock => Before(now', age + 1, Clock) = Before(now, age, Clock)
  <2>1. /\ Clock \in Nat \ {0} /\ now \in 0..(Clock - 1) /\ age \in Nat
        /\ now' = (now + 1) % Clock
    BY InputAssumption DEF InputInv, InputTypeOK, Elapse
  <2>2. now' \in 0..(Clock - 1)
    BY <2>1, GoesRound
  <2>3. ASSUME age + 1 < Clock
        PROVE  Before(now', age + 1, Clock) = Before(now, age, Clock)
    BY <2>1, <2>3, OneFurther
  <2> QED BY <2>2, <2>3
<1>2. UNCHANGED <<controller, input, accepted, stateVars, received>>
  BY DEF Elapse
<1>3. age' \in 0..MaxSilence
  BY InputAssumption DEF InputInv, InputTypeOK, Elapse
<1>4. InputTypeOK'
  BY <1>1, <1>2, <1>3 DEF InputInv, InputTypeOK, stateVars
<1>5. physical.source # Nobody => age' = age + 1 /\ age + 1 < Clock
  BY InputAssumption DEF InputInv, InputTypeOK, Elapse
<1>6. KeptIsHeard'
  BY <1>1, <1>2, <1>5 DEF InputInv, KeptIsHeard, stateVars
<1>7. MadeFrames' /\ NumberIsLast' /\ SnapshotIsLast'
  BY <1>2 DEF InputInv, MadeFrames, NumberIsLast, SnapshotIsLast, stateVars
<1> QED BY <1>4, <1>6, <1>7 DEF InputInv

\* Every step of the input keeps the invariant; a report only reads.
LEMMA InputNextKeeps == InputInv /\ [InputNext]_inputVars => InputInv'
<1> SUFFICES ASSUME InputInv, [InputNext]_inputVars PROVE InputInv'
  OBVIOUS
<1>1. CASE Frame
  BY <1>1, Ds5FrameKeeps, Ns2FrameKeeps DEF Frame
<1>2. CASE SessionCommand
  BY <1>2, CommandKeeps
<1>3. CASE Elapse
  BY <1>3, ElapseKeeps
<1>4. CASE \E s \in Source : Connect(s) \/ NextFrame(s) \/ Disconnect(s)
  BY <1>4, ConnectKeeps, NextFrameKeeps, DisconnectKeeps
<1>5. ASSUME (\E host \in Hosts : Send(host)) \/ UNCHANGED inputVars
      PROVE  InputInv'
  <2>1. UNCHANGED <<controller, input, accepted, stateVars, now, received, age>>
    BY <1>5 DEF Send, inputVars
  <2> QED BY <2>1 DEF InputInv, InputTypeOK, MadeFrames, NumberIsLast, KeptIsHeard,
                      SnapshotIsLast, stateVars
<1> QED BY <1>1, <1>2, <1>3, <1>4, <1>5 DEF InputNext

\* What is live is as old as last_fresh_ms says, which is the age of what was heard.
LEMMA InvIsFresh == InputInv => ShownIsFresh
<1> SUFFICES ASSUME InputInv, NEW host \in Hosts
             PROVE  /\ Report(host).frame # Neutral =>
                          Report(host).frame = received /\ age < Stale
                    /\ Report(host).native \in {Neutral, Report(host).frame}
  BY DEF InputInv, ShownIsFresh
<1>1. CASE ~Live
  BY <1>1 DEF Report, NoReport
<1>2. CASE Live
  <2>1. /\ physical.frame = received /\ native \in {Neutral, received}
        /\ last_fresh = Before(now, age, Clock)
    BY <1>2 DEF Live, InputInv, KeptIsHeard
  <2>2. (now - last_fresh) % Clock = age
    <3>1. Clock \in Nat \ {0} /\ now \in 0..(Clock - 1) /\ age \in 0..(Clock - 1)
      BY InputAssumption DEF InputInv, InputTypeOK
    <3> QED BY <3>1, <2>1, Apart
  <2>3. age < Stale
    BY <1>2, <2>2 DEF Live
  <2>4. /\ Report(host).frame = physical.frame
        /\ Report(host).native \in {Neutral, native}
    BY <1>2 DEF Report
  <2> QED BY <2>1, <2>3, <2>4
<1> QED BY <1>1, <1>2

\* The host is shown the last frame of the accepted controller, as long as it came
\* as a change within stale_ms, whatever is repeated, lost, reset or reconnected:
\* for every modulus of the number and of the clock, and every stale_ms.
THEOREM ShowsFresh == InputSpec => []ShownIsFresh
<1>1. InputInit => InputInv
  BY InputInitInv
<1>2. InputInv /\ [InputNext]_inputVars => InputInv'
  BY InputNextKeeps
<1>3. InputInv => ShownIsFresh
  BY InvIsFresh
<1> QED BY <1>1, <1>2, <1>3, PTL DEF InputSpec
=============================================================================
