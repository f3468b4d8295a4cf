------------------------------ MODULE SendPath ------------------------------
(***************************************************************************)
(* How output leaves for the controller (src/src/bt.cpp): the interrupt    *)
(* FIFO with its session epochs, the queue of control requests, the        *)
(* CAN_SEND_NOW handshake with BTstack and the cache of feature reports.   *)
(*                                                                         *)
(* Every caller runs on core 0 (the radio is polled by the main loop, and  *)
(* so are the audio producers), so each call is one action.  A             *)
(* CAN_SEND_NOW that BTstack delivers inside the request for it is the     *)
(* same step taken right after.  The link is the one HidLink describes.    *)
(***************************************************************************)
EXTENDS Naturals, FiniteSets, SequencesExt

CONSTANTS
    Peer,           \* controllers, told apart by the feature reports they give
    None,           \* no feature report, no packet
    Data, Greeting, \* what is written to the interrupt channel
    Report,         \* ids of feature reports
    InitReports,    \* those a session asks for first, in order
    Volatile,       \* those asked for again although they are cached
    FifoCapacity, ControlLimit,
    EpochLimit      \* the epoch counter wraps here (2^32 in the code)

ASSUME SendPathAssumption ==
    /\ None \notin Peer
    /\ Greeting \notin Data /\ None \notin Data \cup {Greeting}
    /\ InitReports \in Seq(Report) /\ IsInjective(InitReports)
    /\ Volatile \subseteq Report
    /\ FifoCapacity \in Nat \ {0} /\ ControlLimit \in Nat
    /\ EpochLimit \in Nat \ {0, 1}

VARIABLES
    link, leaving, open,                        \* see HidLink
    active_send_epoch, next_send_epoch,
    send_fifo, send_requested,                  \* interrupt output
    control_send_queue, control_send_requested, \* feature requests
    feature_data,                               \* whose report is cached
    peer,           \* who is on the link
    owed,           \* channels BTstack owes a CAN_SEND_NOW
    asked,          \* feature reports the controller has been asked for
    wire            \* history: the interrupt packet sent last

Link == INSTANCE HidLink WITH session <- active_send_epoch # 0
Channel == Link!Channel

linkVars == <<link, leaving, open, peer>>
intVars  == <<active_send_epoch, next_send_epoch, send_fifo, send_requested>>
ctlVars  == <<control_send_queue, control_send_requested>>
airVars  == <<owed, asked>>
vars == <<linkVars, intVars, ctlVars, feature_data, airVars, wire>>

\* A control request: GET of a report, or a SET whose payload does not matter.
Get(r) == [kind |-> "get", id |-> r]
Set == [kind |-> "set", id |-> None]

Init ==
    /\ next_send_epoch = 0 /\ active_send_epoch = 0 /\ Link!Init
    /\ send_fifo = <<>> /\ send_requested = FALSE
    /\ control_send_queue = <<>> /\ control_send_requested = FALSE
    /\ feature_data = [r \in Report |-> None]
    /\ peer = None /\ owed = {} /\ asked = {} /\ wire = None

-----------------------------------------------------------------------------
(* Writers.                                                                *)

Packet(d, epoch) == [data |-> d, epoch |-> epoch]

\* Mutant of Queued: a full FIFO makes room by dropping its oldest packet.
QueuedOverOldest(fifo, packet) ==
    IF Len(fifo) < FifoCapacity THEN Append(fifo, packet) ELSE Append(Tail(fifo), packet)

\* queue_try_add
Queued(fifo, packet) == IF Len(fifo) < FifoCapacity THEN Append(fifo, packet) ELSE fifo

\* bt_try_write; without an epoch, or on a full FIFO, it returns false.
BtTryWrite(d) ==
    /\ active_send_epoch # 0
    /\ send_fifo' = Queued(send_fifo, Packet(d, active_send_epoch))
    /\ UNCHANGED <<linkVars, active_send_epoch, next_send_epoch, send_requested,
                   ctlVars, feature_data, airVars, wire>>

\* Mutant of ControlUsable: a link being taken down still takes requests.
ControlUsableOpen == "control" \in open

ControlUsable == "control" \in open /\ ~leaving

\* The queueing in get_feature_data.
Requested(queue, r) ==
    IF Get(r) \notin ToSet(queue) /\ Len(queue) < ControlLimit
    THEN Append(queue, Get(r)) ELSE queue

Wanted(r) == feature_data[r] = None \/ r \in Volatile

GetFeatureData(r) ==
    /\ Wanted(r) /\ ControlUsable
    /\ control_send_queue' = Requested(control_send_queue, r)
    /\ UNCHANGED <<linkVars, intVars, control_send_requested, feature_data, airVars, wire>>

SetFeatureData ==
    /\ ControlUsable /\ Len(control_send_queue) < ControlLimit
    /\ control_send_queue' = Append(control_send_queue, Set)
    /\ UNCHANGED <<linkVars, intVars, control_send_requested, feature_data, airVars, wire>>

-----------------------------------------------------------------------------
(* bt_tick and CAN_SEND_NOW.                                               *)

\* What bt_tick asks BTstack for.
Tick ==
    LET int == active_send_epoch # 0 /\ ~send_requested /\ send_fifo # <<>>
        ctl == "control" \in open /\ ~control_send_requested /\ control_send_queue # <<>>
    IN  /\ ~leaving /\ (int \/ ctl)
        /\ send_requested' = (send_requested \/ int)
        /\ control_send_requested' = (control_send_requested \/ ctl)
        /\ owed' = owed \cup {c \in Channel : IF c = "interrupt" THEN int ELSE ctl}
    /\ UNCHANGED <<linkVars, active_send_epoch, next_send_epoch, send_fifo,
                   control_send_queue, feature_data, asked, wire>>

\* The packet leaves the FIFO whether BTstack takes it or not.
SendHead ==
    /\ send_fifo' = Tail(send_fifo)
    /\ \/ wire' = Head(send_fifo).data /\ Head(send_fifo).epoch = active_send_epoch
       \/ UNCHANGED wire                    \* stale, or l2cap_send failed
    /\ send_requested' = (send_fifo' # <<>>)
    /\ owed' = IF send_fifo' # <<>> THEN owed ELSE owed \ {"interrupt"}

InterruptCanSendNow ==
    /\ "interrupt" \in owed \cap open
    /\ IF active_send_epoch # 0 /\ send_fifo # <<>>
       THEN SendHead
       ELSE /\ send_requested' = FALSE
            /\ owed' = owed \ {"interrupt"}
            /\ UNCHANGED <<send_fifo, wire>>
    /\ UNCHANGED <<linkVars, active_send_epoch, next_send_epoch, ctlVars, feature_data,
                   asked>>

\* Mutant of ControlTaken: the request flag cleared only when BTstack takes it.
ControlTakenOnly(taken) == control_send_requested' = (control_send_requested /\ ~taken)

ControlTaken(taken) == control_send_requested' = FALSE

\* A request that BTstack is too busy for stays at the head; bt_tick asks again.
ControlCanSendNow ==
    /\ "control" \in owed \cap open
    /\ owed' = owed \ {"control"}
    /\ \E taken \in BOOLEAN :
        /\ taken => ControlUsable /\ control_send_queue # <<>>
        /\ ControlTaken(taken)
        /\ control_send_queue' = IF taken THEN Tail(control_send_queue)
                                          ELSE control_send_queue
        /\ asked' = IF taken /\ Head(control_send_queue).kind = "get"
                    THEN asked \cup {Head(control_send_queue).id} ELSE asked
    /\ UNCHANGED <<linkVars, intVars, feature_data, wire>>

\* The controller answers a GET, or refuses it.  bt.cpp takes data only while
\* the whole session stands.
Answer(r) ==
    /\ r \in asked /\ link
    /\ asked' = asked \ {r}
    /\ \/ active_send_epoch # 0 /\ feature_data' = [feature_data EXCEPT ![r] = peer]
       \/ UNCHANGED feature_data
    /\ UNCHANGED <<linkVars, intVars, ctlVars, owed, wire>>

-----------------------------------------------------------------------------
(* The life of the link.                                                   *)

\* disconnect_link: no output, no request survives it.  The FIFO is emptied
\* only with the link.
DropOutput ==
    /\ active_send_epoch' = 0
    /\ send_requested' = FALSE
    /\ control_send_requested' = FALSE
    /\ control_send_queue' = <<>>
    /\ UNCHANGED next_send_epoch

Attempt ==
    /\ DropOutput /\ Link!Attempt
    /\ UNCHANGED <<peer, send_fifo, feature_data, airVars, wire>>

LinkUp(p) ==
    /\ UNCHANGED <<intVars, ctlVars, feature_data, airVars, wire>>
    /\ Link!Up
    /\ peer' = p

NextEpoch ==
    LET next == (next_send_epoch + 1) % EpochLimit IN IF next = 0 THEN 1 ELSE next

\* The places of InitReports for which a session queues a request: those of the
\* reports wanted and not requested yet, as many as the queue has room for.
InitRequests ==
    LET missing == {i \in DOMAIN InitReports :
                      Wanted(InitReports[i]) /\ Get(InitReports[i]) \notin ToSet(control_send_queue)}
    IN  {i \in missing : Len(control_send_queue) + Cardinality({j \in missing : j <= i}) <= ControlLimit}

\* init_feature: get_feature_data for one report after the other
InitFeature ==
    \E place \in [1 .. Cardinality(InitRequests) -> InitRequests] :
        /\ \A j, k \in DOMAIN place : j < k => place[j] < place[k]
        /\ control_send_queue' =
             control_send_queue \o [k \in DOMAIN place |-> Get(InitReports[place[k]])]

\* complete_hid_session, with init_feature and the first state report
BeginSession ==
    /\ next_send_epoch' = NextEpoch
    /\ active_send_epoch' = NextEpoch
    /\ send_requested' = FALSE
    /\ InitFeature
    /\ send_fifo' = Queued(send_fifo, Packet(Greeting, NextEpoch))

ChannelUp(c) ==
    /\ link /\ ~leaving /\ c \notin open
    /\ IF open \cup {c} = Channel THEN BeginSession
                                  ELSE UNCHANGED <<intVars, control_send_queue>>
    /\ open' = open \cup {c}
    /\ UNCHANGED <<link, leaving, peer, control_send_requested, feature_data, airVars, wire>>

\* Any of the reasons to take a link down.
Leave ==
    /\ DropOutput /\ Link!Leave
    /\ UNCHANGED <<peer, send_fifo, feature_data, airVars, wire>>

ChannelAlone(c) ==
    /\ c = "control" /\ open = {}
    /\ DropOutput /\ Link!ChannelAlone(c)
    /\ UNCHANGED <<peer, send_fifo, feature_data, airVars, wire>>

ChannelDown(c) ==
    /\ DropOutput /\ Link!ChannelDown(c)
    /\ owed' = owed \ {c}
    /\ UNCHANGED <<peer, send_fifo, feature_data, asked, wire>>

\* Mutant of Discarded: the FIFO is left to the next link.
DiscardedNever == send_fifo

Discarded == <<>>

Forgotten == [r \in Report |-> None]

\* DISCONNECTION_COMPLETE
LinkDown ==
    /\ DropOutput /\ Link!Down
    /\ send_fifo' = Discarded
    /\ feature_data' = Forgotten
    /\ peer' = None /\ owed' = {} /\ asked' = {}
    /\ UNCHANGED wire

Next ==
    \/ Tick \/ InterruptCanSendNow \/ ControlCanSendNow \/ SetFeatureData
    \/ Attempt \/ Leave \/ LinkDown
    \/ \E d \in Data : BtTryWrite(d)
    \/ \E r \in Report : GetFeatureData(r) \/ Answer(r)
    \/ \E p \in Peer : LinkUp(p)
    \/ \E c \in Channel : ChannelUp(c) \/ ChannelAlone(c) \/ ChannelDown(c)

Spec == Init /\ [][Next]_vars

\* The main loop runs bt_tick for ever and BTstack answers every request.
Fairness == WF_vars(Tick) /\ WF_vars(InterruptCanSendNow) /\ WF_vars(ControlCanSendNow)

FairSpec == Spec /\ Fairness

-----------------------------------------------------------------------------
(* Properties.                                                             *)

Epoch == 0..EpochLimit - 1
Request == {Get(r) : r \in Report} \cup {Set}

\* Every static of the send path has its type.
TypeOK ==
    /\ link \in BOOLEAN /\ leaving \in BOOLEAN /\ open \subseteq Channel
    /\ active_send_epoch \in Epoch /\ next_send_epoch \in Epoch
    /\ send_fifo \in Seq([data : Data \cup {Greeting}, epoch : Epoch \ {0}])
    /\ Len(send_fifo) <= FifoCapacity
    /\ control_send_queue \in Seq(Request) /\ Len(control_send_queue) <= ControlLimit
    /\ send_requested \in BOOLEAN /\ control_send_requested \in BOOLEAN
    /\ feature_data \in [Report -> Peer \cup {None}]
    /\ peer \in Peer \cup {None}
    /\ owed \subseteq Channel /\ asked \subseteq Report
    /\ wire \in Data \cup {Greeting, None}

\* Also across the wrap of the counter, an epoch is active exactly while the
\* whole link is usable; audio.cpp and main.cpp write on no other ground.
EpochIffWhole == active_send_epoch # 0 <=> link /\ ~leaving /\ open = Channel

\* While a session runs, the FIFO holds packets of that session only: no slot
\* of it is taken by what was meant for an earlier controller.
FifoIsCurrent ==
    active_send_epoch # 0 =>
        \A i \in DOMAIN send_fifo : send_fifo[i].epoch = active_send_epoch

\* A request flag that is set means BTstack still owes the event that clears
\* it; otherwise bt_tick would never ask again and the output would stop.
NoLostWakeup ==
    /\ send_requested => "interrupt" \in owed \cap open
    /\ control_send_requested => "control" \in owed \cap open

\* A control request waits only for the link it was meant for, and a report
\* is waited for once.
ControlQueueIsLive ==
    /\ control_send_queue # <<>> => "control" \in open /\ ~leaving
    /\ \A i, j \in DOMAIN control_send_queue :
        control_send_queue[i] = control_send_queue[j] /\ i # j => control_send_queue[i] = Set

\* A cached feature report (calibration, firmware) is the one of the controller
\* on the link, never of the one before it.
FeatureDataIsPeers ==
    \A r \in Report : feature_data[r] \in {None, peer}

\* The queues and request flags keep their bounds and always have someone who
\* empties them: output never stops for a flag that nothing clears.
QueuesAreLive == TypeOK /\ NoLostWakeup /\ ControlQueueIsLive

\* Nothing of one session is left in the next: no epoch, packet or answer.
SessionsApart == EpochIffWhole /\ FifoIsCurrent /\ FeatureDataIsPeers

\* Output that can leave is offered to BTstack again and again.
OutputMoves ==
    /\ <>[](EpochIffWhole /\ active_send_epoch # 0 /\ send_fifo # <<>>)
         => []<><<InterruptCanSendNow>>_vars
    /\ <>[](ControlUsable /\ control_send_queue # <<>>)
         => []<><<ControlCanSendNow>>_vars

\* The FIFO keeps the promise of Outbox: a session starts with its greeting,
\* and nothing is sent out of order, twice, or in a later session.
DataOf(fifo) == [i \in DOMAIN fifo |-> fifo[i].data]

Promise == INSTANCE Outbox WITH
    up <- active_send_epoch # 0,
    pending <- IF active_send_epoch = 0 THEN <<>> ELSE DataOf(send_fifo),
    Capacity <- FifoCapacity

KeepsOrder == Promise!Spec

=============================================================================
