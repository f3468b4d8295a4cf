------------------------------ MODULE Manager ------------------------------
(***************************************************************************)
(* The manager on the host and the USB identity it switches:               *)
(* src/src/main.cpp (the feature report 0x7f, the commands about the role, *)
(* the part of the main loop that serves them) and                         *)
(* src/src/profiles/auto_usb.cpp (detach, wait, attach as another device). *)
(*                                                                         *)
(* One round of the main loop is a sequence of steps, told apart by pc.    *)
(* In tud_task the host may do several transfers; the others are one step  *)
(* each.  Times are counted in ticks of the clock, replies in chunks, and  *)
(* SETs are numbered, so that a reply says which of them it answers.       *)
(* "reboot" stands for bootsel too: the two differ in what starts next.    *)
(***************************************************************************)
EXTENDS Naturals, SequencesExt

CONSTANTS
    Role,           \* identities a role stands for
    DefaultRole,    \* SonyDs5
    DebugOnly,      \* the identity before the first switch; nobody sees it
    None,
    DetachAfter, AttachAfter,   \* 100 ms and 250 ms, in ticks
    MaxChunks,      \* the longest reply, in chunks
    MaxSets         \* SETs of the host: a bound of the model

ASSUME ManagerAssumption ==
    /\ DefaultRole \in Role /\ DebugOnly \notin Role
    /\ None \notin Role \cup {DebugOnly}
    /\ DetachAfter \in Nat /\ AttachAfter \in Nat
    /\ MaxChunks \in Nat \ {0} /\ MaxSets \in Nat

VARIABLES
    role,                                       \* bridge_runtime
    current, requested, pending, disconnected,  \* auto_usb
    waited,         \* ticks since requested_us, once disconnected since last_switch_us
    command, command_pending,                   \* the manager
    reply, reply_len, reply_offset, reply_complete,
    reboot_requested,
    output,         \* the output report to be processed: who the device was for its sender
    pc,             \* where the main loop is
    plugged, shown, \* the host sees a device, and as what it enumerated it
    sets, due,      \* history: SETs so far, and the one whose reply is due
    heard, answered,    \* history: chunks read since the SET, and whether that was all
    want            \* history: the identity asked for last

roleVars  == <<role, want>>
usbVars   == <<current, requested, pending, disconnected, waited, plugged, shown>>
replyVars == <<reply, reply_len, reply_offset, reply_complete>>
cmdVars   == <<command, command_pending, reboot_requested>>
hostVars  == <<sets, due, heard, answered>>
vars == <<roleVars, usbVars, replyVars, cmdVars, hostVars, output, pc>>

Identity == Role \cup {DebugOnly}

\* What the host may send: settings reset, ds5 usb reconnect, and commands
\* that change nothing here ("status") or are malformed ("bad").
Op == {"role", "reset", "reconnect", "status", "reboot", "bad"}

Command == {c \in [op : Op, arg : Role \cup {None}] : c.op = "role" <=> c.arg \in Role}

Chunk == [of : Nat, at : Nat, last : BOOLEAN]

-----------------------------------------------------------------------------
(* auto_usb.                                                               *)

AlreadySo(identity) ==
    \/ identity = current /\ ~pending
    \/ identity = requested /\ pending

\* auto_usb_request_identity.  The wait for the host starts again; that for
\* the next connection does not, for it counts from the disconnection.
Request(identity) ==
    /\ want' = identity
    /\ IF AlreadySo(identity)
       THEN UNCHANGED <<requested, pending, waited>>
       ELSE /\ requested' = identity /\ pending' = TRUE
            /\ waited' = IF disconnected THEN waited ELSE 0
    /\ UNCHANGED <<current, disconnected, plugged, shown>>

\* auto_usb_init, the request at boot for the role that was saved, and the
\* manager as it starts.
Init ==
    /\ role \in Role /\ want = role
    /\ current = DebugOnly /\ requested = role /\ pending = TRUE
    /\ disconnected = FALSE /\ waited = 0
    /\ plugged = FALSE /\ shown = DebugOnly
    /\ command = [op |-> "status", arg |-> None, n |-> 0] /\ command_pending = FALSE
    /\ reply = 0 /\ reply_len = 0 /\ reply_offset = 0 /\ reply_complete = FALSE
    /\ reboot_requested = FALSE /\ output = None /\ pc = "tud"
    /\ sets = 0 /\ due = 0 /\ heard = <<>> /\ answered = TRUE

Detach ==
    /\ waited >= DetachAfter
    /\ plugged' = FALSE /\ disconnected' = TRUE /\ waited' = 0
    /\ UNCHANGED <<current, requested, pending, shown>>

\* The host enumerates the device when it comes back to the bus.
Shown == IF plugged THEN shown ELSE requested

\* Mutant of Attach: the disconnection is not over.
AttachDisconnected ==
    /\ waited >= AttachAfter
    /\ current' = requested /\ shown' = Shown /\ plugged' = TRUE
    /\ pending' = FALSE /\ waited' = 0
    /\ UNCHANGED <<requested, disconnected>>

\* Mutant of Attach: the switch is not over.
AttachPending ==
    /\ waited >= AttachAfter
    /\ current' = requested /\ shown' = Shown /\ plugged' = TRUE
    /\ disconnected' = FALSE /\ waited' = 0
    /\ UNCHANGED <<requested, pending>>

Attach ==
    /\ waited >= AttachAfter
    /\ current' = requested /\ shown' = Shown /\ plugged' = TRUE
    /\ pending' = FALSE /\ disconnected' = FALSE /\ waited' = 0
    /\ UNCHANGED requested

Waits == waited < IF disconnected THEN AttachAfter ELSE DetachAfter

\* auto_usb_task
UsbTask ==
    /\ pc = "usb" /\ pc' = "reboot"
    /\ UNCHANGED <<roleVars, replyVars, cmdVars, hostVars, output>>
    /\ \/ (~pending \/ Waits) /\ UNCHANGED usbVars
       \/ pending /\ ~disconnected /\ Detach
       \/ pending /\ disconnected /\ Attach

Tick ==
    /\ pc # "off" /\ waited < DetachAfter + AttachAfter /\ pending /\ waited' = waited + 1
    /\ UNCHANGED <<roleVars, current, requested, pending, disconnected, plugged, shown,
                   replyVars, cmdVars, hostVars, output, pc>>

-----------------------------------------------------------------------------
(* The feature report.                                                     *)

\* auto_manager_queue_json
QueueJson(n, len) ==
    reply' = n /\ reply_len' = len /\ reply_offset' = 0 /\ reply_complete' = FALSE

Receive(c) ==
    /\ command' = [op |-> c.op, arg |-> c.arg, n |-> sets + 1] /\ command_pending' = TRUE
    /\ reply_len' = 0 /\ reply_complete' = FALSE
    /\ UNCHANGED <<reply, reply_offset>>

\* auto_manager_receive_feature_command.  A malformed SET is answered at once;
\* what the command it met, if that is still to be handled, says in the end.
Set(c) ==
    /\ pc = "tud" /\ plugged /\ sets < MaxSets
    /\ sets' = sets + 1 /\ heard' = <<>> /\ answered' = FALSE
    /\ UNCHANGED <<roleVars, usbVars, reboot_requested, output, pc>>
    /\ IF c.op = "bad"
       THEN /\ QueueJson(sets + 1, 1) /\ UNCHANGED <<command, command_pending>>
            /\ due' = IF command_pending THEN due ELSE sets + 1
       ELSE Receive(c) /\ due' = sets + 1

\* Mutant of LastOf: complete with the first chunk.
LastOfFirst(at, len) == TRUE

LastOf(at, len) == at + 1 >= len

Busy == command_pending

\* The host takes a chunk: the first of a reply, or one more.
Hear(c) ==
    /\ heard' = IF heard = <<>> \/ Last(heard).last THEN <<c>> ELSE Append(heard, c)
    /\ answered' = (answered \/ (c.last /\ c.of = due))
    /\ UNCHANGED <<sets, due>>

\* auto_manager_build_feature_report, once there is a reply.  The last reply
\* before a reboot is kept, and the report then has an empty chunk.
Serve(n, at, len) ==
    IF at >= len
    THEN UNCHANGED <<replyVars, hostVars>>
    ELSE /\ Hear([of |-> n, at |-> at, last |-> at + 1 = len])
         /\ reply' = n
         /\ reply_complete' = (LastOf(at, len) \/ (reply_len # 0 /\ reply_complete))
         /\ IF LastOf(at, len) /\ ~reboot_requested
            THEN reply_len' = 0 /\ reply_offset' = 0
            ELSE reply_len' = len /\ reply_offset' = at + 1

\* Without a reply to give it gives the status (reply 0).
Get ==
    /\ pc = "tud" /\ plugged /\ ~Busy
    /\ UNCHANGED <<roleVars, usbVars, cmdVars, output, pc>>
    /\ \/ reply_len # 0 /\ Serve(reply, reply_offset, reply_len)
       \/ reply_len = 0 /\ \E len \in 1 .. MaxChunks : Serve(0, 0, len)

\* tud_hid_set_report_cb keeps an output report for the end of the round.
Output ==
    /\ pc = "tud" /\ plugged /\ output' = shown
    /\ UNCHANGED <<roleVars, usbVars, replyVars, cmdVars, hostVars, pc>>

TudDone ==
    /\ pc = "tud" /\ pc' = "manager"
    /\ UNCHANGED <<roleVars, usbVars, replyVars, cmdVars, hostVars, output>>

-----------------------------------------------------------------------------
(* The main loop.                                                          *)

NewRole(r) == role' = r /\ output' = None /\ Request(r) /\ UNCHANGED reboot_requested

SetRole(c) == c.op = "role" /\ NewRole(c.arg)

Reset(c) == c.op = "reset" /\ NewRole(DefaultRole)

ReconnectUsb(c) ==
    c.op = "reconnect" /\ Request(current) /\ UNCHANGED <<role, output, reboot_requested>>

Reboot(c) ==
    /\ c.op = "reboot" /\ reboot_requested' = TRUE
    /\ UNCHANGED <<roleVars, usbVars, output>>

Status(c) ==
    c.op = "status" /\ UNCHANGED <<roleVars, usbVars, output, reboot_requested>>

\* handle_auto_command_json
Handle(c) == SetRole(c) \/ Reset(c) \/ ReconnectUsb(c) \/ Reboot(c) \/ Status(c)

ManagerTask ==
    /\ pc = "manager" /\ pc' = "usb"
    /\ UNCHANGED <<hostVars, command>>
    /\ \/ /\ command_pending /\ command_pending' = FALSE
          /\ Handle(command)
          /\ \E len \in 1 .. MaxChunks : QueueJson(command.n, len)
       \/ ~command_pending
          /\ UNCHANGED <<roleVars, usbVars, replyVars, reboot_requested, command_pending, output>>

MayReboot == reboot_requested /\ reply_complete

\* watchdog_reboot or reset_usb_boot: what comes next starts at Init.
RebootTask ==
    /\ pc = "reboot"
    /\ pc' = IF MayReboot THEN "off" ELSE "output"
    /\ UNCHANGED <<roleVars, usbVars, replyVars, cmdVars, hostVars, output>>

\* Mutant of Kept: an output report waits for the switch to end.
KeptWhilePending == IF pending THEN output ELSE None

\* What is left of the output report: it is processed, or discarded.
Kept == None

\* bridge_output_tick
OutputTick ==
    /\ pc = "output" /\ pc' = "tud" /\ output' = Kept
    /\ UNCHANGED <<roleVars, usbVars, replyVars, cmdVars, hostVars>>

Loop == TudDone \/ ManagerTask \/ UsbTask \/ RebootTask \/ OutputTick

Next == Loop \/ Tick \/ Get \/ Output \/ \E c \in Command : Set(c)

Spec == Init /\ [][Next]_vars

\* The main loop goes round, time passes, and the host asks again and again,
\* whatever else it does, for as long as it sees a device.
FairSpec == Spec /\ WF_vars(Loop) /\ WF_vars(Tick) /\ SF_vars(Get)

-----------------------------------------------------------------------------
(* Safety.                                                                 *)

\* Types, and that the offset of a reply never passes its end
\* (auto_manager_build_feature_report subtracts the one from the other).
TypeOK ==
    /\ role \in Role /\ want \in Role \cup {DebugOnly}
    /\ current \in Identity /\ requested \in Identity /\ shown \in Identity
    /\ pending \in BOOLEAN /\ disconnected \in BOOLEAN /\ plugged \in BOOLEAN
    /\ waited \in 0 .. DetachAfter + AttachAfter
    /\ command \in [op : Op, arg : Role \cup {None}, n : Nat]
    /\ (command.op = "role" => command.arg \in Role)
    /\ command_pending \in BOOLEAN
    /\ reply \in 0 .. sets /\ reply_len \in 0 .. MaxChunks
    /\ reply_offset \in 0 .. MaxChunks /\ (reply_len # 0 => reply_offset <= reply_len)
    /\ reply_complete \in BOOLEAN /\ reboot_requested \in BOOLEAN
    /\ output \in Identity \cup {None}
    /\ pc \in {"tud", "manager", "usb", "reboot", "output", "off"}
    /\ sets \in 0 .. MaxSets /\ due \in 0 .. sets
    /\ heard \in Seq(Chunk) /\ answered \in BOOLEAN

\* The callbacks of TinyUSB, which ask auto_usb_identity, serve the device the
\* host has enumerated, also when a new role is asked for half-way through a
\* switch; and a device that is off the bus is on its way back.
ServedAsShown == IF plugged THEN shown = current ELSE pending

\* However requests overtake each other, the last one is where auto_usb ends.
LastRequestWins == want = IF pending THEN requested ELSE current

\* What the host sees, what is served and what was asked for do not come apart.
IdentityIsOne == ServedAsShown /\ LastRequestWins

\* An output report written to one identity is never decoded as another's
\* (bridge_output_tick runs after auto_usb_task may have attached anew).
OutputIsOwn == output # None /\ ~pending => output = current

\* The chunks the host puts together after a SET are those of one reply, from
\* its start, none left out: that of the last command, and a status only
\* after it.
AnswersCommand ==
    /\ \A i \in DOMAIN heard : heard[i].of = heard[1].of /\ heard[i].at = i - 1
    /\ heard # <<>> => heard[1].of = due \/ (heard[1].of = 0 /\ answered)

\* The receiver does not leave before its last reply has been read (main.cpp,
\* reply_complete).
RebootAfterReply == pc = "off" => answered

\* The host gets the reply to its command: whole, its own, and before a restart.
RepliesAreWhole == AnswersCommand /\ RebootAfterReply

-----------------------------------------------------------------------------
(* Liveness.                                                               *)

\* A switch ends, whatever is asked for meanwhile.
SwitchEnds == pending ~> (~pending \/ pc = "off")

\* Every command gets its whole reply, across a switch of identity as well.
Answered == ~answered ~> answered

\* A reboot asked for comes.
RebootComes == reboot_requested ~> pc = "off"

\* Everything that is begun, be it a switch, an answer or a reboot, ends.
CommandsEnd == SwitchEnds /\ Answered /\ RebootComes

===========================================================================
