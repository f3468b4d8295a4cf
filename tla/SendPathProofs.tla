---------------------------- MODULE SendPathProofs ----------------------------
(***************************************************************************)
(* The invariants of SendPath and its refinement of Outbox, for all        *)
(* controllers, packets and reports, any capacity of the queues and any    *)
(* width of the epoch counter.                                             *)
(***************************************************************************)
EXTENDS SendPath, SequenceTheorems, FiniteSetTheorems, TLAPS

-----------------------------------------------------------------------------
(* The inductive invariant.                                                *)

\* Without a link nobody is on it, and no channel of it is open.
IdleIsEmpty == ~link => open = {} /\ peer = None

\* What is in the FIFO has a session, or is what a session that is over left;
\* it is discarded with the link.
FifoHasLink == send_fifo # <<>> => link /\ (leaving \/ active_send_epoch # 0)

Sound ==
    /\ TypeOK
    /\ IdleIsEmpty /\ FifoHasLink
    /\ EpochIffWhole /\ FifoIsCurrent /\ FeatureDataIsPeers
    /\ NoLostWakeup /\ ControlQueueIsLive

Element == [data : Data \cup {Greeting}, epoch : Epoch \ {0}]

-----------------------------------------------------------------------------
(* The operators.                                                          *)

\* A packet added to the FIFO comes last, if there is room.
LEMMA QueuedType ==
    ASSUME NEW fifo \in Seq(Element), Len(fifo) <= FifoCapacity, NEW packet \in Element
    PROVE  /\ Queued(fifo, packet) \in Seq(Element)
           /\ Len(Queued(fifo, packet)) <= FifoCapacity
<1>1. CASE Len(fifo) < FifoCapacity
  BY <1>1, AppendProperties, SendPathAssumption DEF Queued
<1>2. CASE ~(Len(fifo) < FifoCapacity)
  BY <1>2 DEF Queued
<1> QED BY <1>1, <1>2

\* The epoch of a session is an epoch, and not the one that means none.
LEMMA NextEpochType ==
    ASSUME next_send_epoch \in Epoch
    PROVE  NextEpoch \in Epoch \ {0}
BY SendPathAssumption DEF NextEpoch, Epoch

\* No report is queued twice, and nothing else is a GET of it.
Distinct(queue) ==
    \A i, j \in DOMAIN queue : queue[i] = queue[j] /\ i # j => queue[i] = Set

\* GETs of different reports differ, and no GET is a SET.
LEMMA GetsDiffer ==
    /\ \A r \in Report : Get(r) \in Request /\ Get(r) # Set
    /\ \A r, s \in Report : Get(r) = Get(s) => r = s
    /\ Set \in Request
BY DEF Get, Set, Request

\* A queue with a request more keeps its bound and repeats no report.
LEMMA AppendRequest ==
    ASSUME NEW queue \in Seq(Request), Len(queue) < ControlLimit, Distinct(queue),
           NEW request \in Request, request = Set \/ request \notin ToSet(queue)
    PROVE  /\ Append(queue, request) \in Seq(Request)
           /\ Len(Append(queue, request)) <= ControlLimit
           /\ Distinct(Append(queue, request))
<1>1. /\ Append(queue, request) \in Seq(Request)
      /\ Len(Append(queue, request)) = Len(queue) + 1 /\ Len(queue) \in Nat
      /\ DOMAIN Append(queue, request) = 1 .. Len(queue) + 1 /\ DOMAIN queue = 1 .. Len(queue)
      /\ \A i \in 1 .. Len(queue) : Append(queue, request)[i] = queue[i]
      /\ Append(queue, request)[Len(queue) + 1] = request
  BY AppendProperties, LenProperties
<1>2. \A i \in 1 .. Len(queue) : queue[i] \in ToSet(queue)
  BY <1>1 DEF ToSet
<1>3. Distinct(Append(queue, request))
  <2> SUFFICES ASSUME NEW i \in 1 .. Len(queue) + 1, NEW j \in 1 .. Len(queue) + 1, i # j,
                      Append(queue, request)[i] = Append(queue, request)[j]
               PROVE  Append(queue, request)[i] = Set
    BY <1>1 DEF Distinct
  <2>1. CASE i = Len(queue) + 1 \/ j = Len(queue) + 1
    BY <1>1, <1>2, <2>1
  <2>2. CASE i # Len(queue) + 1 /\ j # Len(queue) + 1
    <3>1. i \in 1 .. Len(queue) /\ j \in 1 .. Len(queue)
      BY <1>1, <2>2
    <3> QED BY <1>1, <3>1 DEF Distinct
  <2> QED BY <2>1, <2>2
<1> QED BY <1>1, <1>3, SendPathAssumption

\* A queue without its head keeps what it promises.
LEMMA TailOfRequests ==
    ASSUME NEW queue \in Seq(Request), queue # <<>>, Len(queue) <= ControlLimit, Distinct(queue)
    PROVE  /\ Tail(queue) \in Seq(Request) /\ Head(queue) \in Request
           /\ Len(Tail(queue)) <= ControlLimit
           /\ Distinct(Tail(queue))
<1>1. /\ Tail(queue) \in Seq(Request) /\ Len(Tail(queue)) = Len(queue) - 1
      /\ Head(queue) \in Request /\ Len(queue) \in Nat
      /\ \A i \in 1 .. Len(Tail(queue)) : Tail(queue)[i] = queue[i + 1]
      /\ DOMAIN Tail(queue) = 1 .. Len(queue) - 1 /\ DOMAIN queue = 1 .. Len(queue)
  BY HeadTailProperties, LenProperties
<1>2. Distinct(Tail(queue))
  <2> SUFFICES ASSUME NEW i \in 1 .. Len(queue) - 1, NEW j \in 1 .. Len(queue) - 1, i # j,
                      Tail(queue)[i] = Tail(queue)[j]
               PROVE  Tail(queue)[i] = Set
    BY <1>1 DEF Distinct
  <2>1. /\ i + 1 \in DOMAIN queue /\ j + 1 \in DOMAIN queue /\ i + 1 # j + 1
        /\ queue[i + 1] = queue[j + 1] /\ Tail(queue)[i] = queue[i + 1]
    BY <1>1
  <2> QED BY <2>1 DEF Distinct
<1> QED BY <1>1, <1>2, SendPathAssumption

\* init_feature adds requests for other reports than those that wait, each once,
\* and no more than there is room for.
LEMMA InitFeatureKeeps ==
    ASSUME control_send_queue \in Seq(Request), Len(control_send_queue) <= ControlLimit,
           Distinct(control_send_queue), InitFeature
    PROVE  /\ control_send_queue' \in Seq(Request)
           /\ Len(control_send_queue') <= ControlLimit
           /\ Distinct(control_send_queue')
<1> DEFINE queue == control_send_queue
           missing == {i \in DOMAIN InitReports :
                         Wanted(InitReports[i]) /\ Get(InitReports[i]) \notin ToSet(queue)}
           upTo(m) == {j \in missing : j <= m}
           n == Cardinality(InitRequests)
<1>1. InitRequests = {i \in missing : Len(queue) + Cardinality(upTo(i)) <= ControlLimit}
  BY DEF InitRequests
<1>2. /\ DOMAIN InitReports = 1 .. Len(InitReports) /\ Len(InitReports) \in Nat
      /\ \A i \in missing : i \in Nat /\ InitReports[i] \in Report
  BY SendPathAssumption, LenProperties
<1>3. /\ IsFiniteSet(missing) /\ IsFiniteSet(InitRequests) /\ n \in Nat
      /\ \A m : IsFiniteSet(upTo(m)) /\ Cardinality(upTo(m)) \in Nat
  <2>1. IsFiniteSet(DOMAIN InitReports)
    BY <1>2, FS_Interval
  <2>2. IsFiniteSet(missing)
    BY <2>1, FS_Subset
  <2>3. IsFiniteSet(InitRequests) /\ \A m : IsFiniteSet(upTo(m))
    BY <1>1, <2>2, FS_Subset
  <2> QED BY <2>2, <2>3, FS_CardinalityType
<1> HIDE DEF missing
<1>4. PICK place \in [1 .. n -> InitRequests] :
        /\ \A j, k \in 1 .. n : j < k => place[j] < place[k]
        /\ control_send_queue' = queue \o [k \in 1 .. n |-> Get(InitReports[place[k]])]
  BY DEF InitFeature
<1> DEFINE new == [k \in 1 .. n |-> Get(InitReports[place[k]])]
<1>5. \A k \in 1 .. n : place[k] \in missing /\ place[k] \in Nat /\ new[k] \in Request
                       /\ new[k] \notin ToSet(queue)
  BY <1>1, <1>2, <1>4, GetsDiffer DEF missing
<1>6. new \in Seq(Request) /\ Len(new) = n
  BY <1>3, <1>5
<1>7. n = 0 \/ Len(queue) + n <= ControlLimit
  <2> SUFFICES ASSUME n # 0 PROVE Len(queue) + n <= ControlLimit
    OBVIOUS
  <2>1. n \in 1 .. n
    BY <1>3
  <2>2. Len(queue) + Cardinality(upTo(place[n])) <= ControlLimit
    BY <1>1, <1>4, <2>1
  <2>3. place \in Injection(1 .. n, upTo(place[n]))
    <3>1. \A k \in 1 .. n : place[k] \in upTo(place[n])
      BY <1>3, <1>4, <1>5, <2>1
    <3>2. \A j, k \in 1 .. n : place[j] = place[k] => j = k
      <4> SUFFICES ASSUME NEW j \in 1 .. n, NEW k \in 1 .. n, place[j] = place[k], j # k PROVE FALSE
        OBVIOUS
      <4>1. j < k \/ k < j
        BY <1>3
      <4>2. place[j] < place[k] \/ place[k] < place[j]
        BY <1>4, <4>1
      <4> QED BY <1>5, <4>2
    <3>3. place \in [1 .. n -> upTo(place[n])]
      BY <1>4, <3>1
    <3> HIDE DEF n
    <3> QED BY <3>2, <3>3 DEF Injection, IsInjective
  <2>4. Cardinality(1 .. n) <= Cardinality(upTo(place[n]))
    <3> DEFINE S == 1 .. n
               T == upTo(place[n])
    <3>1. place \in Injection(S, T) /\ IsFiniteSet(T)
      BY <1>3, <2>3
    <3> HIDE DEF S, T
    <3>2. Cardinality(S) <= Cardinality(T)
      BY <3>1, FS_Injection
    <3> QED BY <3>2 DEF S, T
  <2>5. Cardinality(1 .. n) = n
    BY <1>3, FS_Interval
  <2>6. Len(queue) \in Nat /\ Cardinality(upTo(place[n])) \in Nat /\ ControlLimit \in Nat
    BY <1>3, LenProperties, SendPathAssumption
  <2> HIDE DEF n, upTo
  <2> QED BY <1>3, <2>2, <2>4, <2>5, <2>6
<1>8. Distinct(new)
  <2> SUFFICES ASSUME NEW i \in 1 .. n, NEW j \in 1 .. n, i # j, new[i] = new[j]
               PROVE  FALSE
    BY <1>6 DEF Distinct
  <2>1. /\ place[i] \in DOMAIN InitReports /\ place[j] \in DOMAIN InitReports
        /\ InitReports[place[i]] \in Report /\ InitReports[place[j]] \in Report
        /\ place[i] \in Nat /\ place[j] \in Nat
    BY <1>2, <1>5 DEF missing
  <2>2. InitReports[place[i]] = InitReports[place[j]]
    BY <2>1, GetsDiffer
  <2>3. place[i] = place[j]
    BY <2>1, <2>2, SendPathAssumption DEF IsInjective
  <2>4. i < j \/ j < i
    BY <1>3
  <2> QED BY <1>4, <2>1, <2>3, <2>4
<1> HIDE DEF new, n
<1>9. /\ control_send_queue' = queue \o new /\ queue \o new \in Seq(Request)
      /\ Len(queue \o new) = Len(queue) + n /\ Len(queue) \in Nat
      /\ \A i \in 1 .. Len(queue) + n :
           (queue \o new)[i] = IF i <= Len(queue) THEN queue[i] ELSE new[i - Len(queue)]
  BY <1>4, <1>6, ConcatProperties, LenProperties DEF new
<1>10. Len(control_send_queue') <= ControlLimit
  BY <1>3, <1>7, <1>9, SendPathAssumption
<1>11. Distinct(queue \o new)
  <2> SUFFICES ASSUME NEW i \in 1 .. Len(queue) + n, NEW j \in 1 .. Len(queue) + n, i < j,
                      (queue \o new)[i] = (queue \o new)[j]
               PROVE  (queue \o new)[i] = Set
    <3>1. DOMAIN (queue \o new) = 1 .. Len(queue) + n
      BY <1>9, LenProperties
    <3> QED BY <1>3, <1>9, <3>1 DEF Distinct
  <2>1. CASE j <= Len(queue)
    <3>1. i \in DOMAIN queue /\ j \in DOMAIN queue /\ i # j
      BY <1>3, <1>9, <2>1, LenProperties
    <3> QED BY <1>3, <1>9, <2>1, <3>1 DEF Distinct
  <2>2. CASE i <= Len(queue) /\ ~(j <= Len(queue))
    <3>1. queue[i] \in ToSet(queue) /\ j - Len(queue) \in 1 .. n
      BY <1>3, <1>9, <2>2, LenProperties DEF ToSet
    <3> QED BY <1>5, <1>9, <2>2, <3>1
  <2>3. CASE ~(i <= Len(queue))
    <3>1. /\ i - Len(queue) \in 1 .. n /\ j - Len(queue) \in 1 .. n /\ i - Len(queue) # j - Len(queue)
          /\ ~(j <= Len(queue)) /\ DOMAIN new = 1 .. n
      BY <1>3, <1>6, <1>9, <2>3, LenProperties
    <3> QED BY <1>8, <1>9, <2>3, <3>1 DEF Distinct
  <2> QED BY <1>3, <1>9, <2>1, <2>2, <2>3
<1> QED BY <1>9, <1>10, <1>11

-----------------------------------------------------------------------------
(* Types.                                                                  *)

LinkTyped ==
    /\ link \in BOOLEAN /\ leaving \in BOOLEAN /\ open \subseteq Channel
    /\ peer \in Peer \cup {None}

IntTyped ==
    /\ active_send_epoch \in Epoch /\ next_send_epoch \in Epoch
    /\ send_fifo \in Seq(Element) /\ Len(send_fifo) <= FifoCapacity
    /\ send_requested \in BOOLEAN

CtlTyped ==
    /\ control_send_queue \in Seq(Request) /\ Len(control_send_queue) <= ControlLimit
    /\ Distinct(control_send_queue)
    /\ control_send_requested \in BOOLEAN

AirTyped ==
    /\ feature_data \in [Report -> Peer \cup {None}]
    /\ owed \subseteq Channel /\ asked \subseteq Report
    /\ wire \in Data \cup {Greeting, None}

Typed == LinkTyped /\ IntTyped /\ CtlTyped /\ AirTyped

\* The parts are the whole.
LEMMA TypeParts == Typed <=> TypeOK /\ Distinct(control_send_queue)
BY DEF Typed, LinkTyped, IntTyped, CtlTyped, AirTyped, TypeOK, Element

\* The link changes as HidLink says, and somebody is on it.
LEMMA NextLinkTyped == Typed /\ [Next]_vars => LinkTyped'
<1> SUFFICES ASSUME Typed, [Next]_vars PROVE LinkTyped'
  OBVIOUS
<1> USE DEF Typed, LinkTyped, linkVars
<1>1. CASE UNCHANGED linkVars
  BY <1>1
<1>2. CASE Attempt \/ Leave \/ LinkDown
  BY <1>2 DEF Attempt, Leave, LinkDown, Link!Attempt, Link!Leave, Link!Down
<1>3. ASSUME NEW p \in Peer, LinkUp(p) PROVE LinkTyped'
  BY <1>3 DEF LinkUp, Link!Up
<1>4. ASSUME NEW c \in Channel, ChannelUp(c) \/ ChannelAlone(c) \/ ChannelDown(c) PROVE LinkTyped'
  BY <1>4 DEF ChannelUp, ChannelAlone, ChannelDown, Link!ChannelAlone, Link!ChannelDown
<1>5. [Tick \/ InterruptCanSendNow \/ ControlCanSendNow \/ SetFeatureData]_vars => UNCHANGED linkVars
  BY DEF vars, Tick, InterruptCanSendNow, ControlCanSendNow, SetFeatureData
<1>6. ASSUME NEW d \in Data, BtTryWrite(d) PROVE UNCHANGED linkVars
  BY <1>6 DEF BtTryWrite
<1>7. ASSUME NEW r \in Report, GetFeatureData(r) \/ Answer(r) PROVE UNCHANGED linkVars
  BY <1>7 DEF GetFeatureData, Answer
<1> QED BY <1>1, <1>2, <1>3, <1>4, <1>5, <1>6, <1>7 DEF Next

\* The FIFO takes packets of the session that runs, and its greeting.
LEMMA NextIntTyped == Typed /\ [Next]_vars => IntTyped'
<1> SUFFICES ASSUME Typed, [Next]_vars PROVE IntTyped'
  OBVIOUS
<1> USE DEF Typed, IntTyped, intVars
<1>1. CASE UNCHANGED intVars
  BY <1>1
<1>2. CASE Tick
  BY <1>2 DEF Tick
<1>3. CASE InterruptCanSendNow
  <2>1. UNCHANGED <<active_send_epoch, next_send_epoch>> /\ send_requested' \in BOOLEAN
    BY <1>3 DEF InterruptCanSendNow, SendHead
  <2>2. CASE send_fifo' = send_fifo
    BY <2>1, <2>2
  <2>3. CASE send_fifo # <<>> /\ send_fifo' = Tail(send_fifo)
    <3>1. send_fifo' \in Seq(Element) /\ Len(send_fifo') = Len(send_fifo) - 1 /\ Len(send_fifo) \in Nat
      BY <2>3, HeadTailProperties, LenProperties
    <3> QED BY <2>1, <3>1, SendPathAssumption
  <2> QED BY <1>3, <2>2, <2>3 DEF InterruptCanSendNow, SendHead
<1>4. ASSUME NEW d \in Data, BtTryWrite(d) PROVE IntTyped'
  <2>1. Packet(d, active_send_epoch) \in Element
    BY <1>4 DEF BtTryWrite, Packet, Element
  <2> QED BY <1>4, <2>1, QueuedType DEF BtTryWrite
<1>5. ASSUME DropOutput, send_fifo' \in {send_fifo, <<>>} PROVE IntTyped'
  <2>1. 0 \in Epoch /\ <<>> \in Seq(Element) /\ Len(<<>>) = 0
    BY SendPathAssumption DEF Epoch
  <2>2. /\ active_send_epoch' = 0 /\ next_send_epoch' = next_send_epoch
        /\ send_requested' = FALSE
    BY <1>5 DEF DropOutput
  <2>3. send_fifo' \in Seq(Element) /\ Len(send_fifo') <= FifoCapacity
    <3>1. CASE send_fifo' = send_fifo
      BY <3>1
    <3>2. CASE send_fifo' = <<>>
      <4>1. Len(send_fifo') = 0
        BY <3>2
      <4> QED BY <2>1, <3>2, <4>1, SendPathAssumption
    <3> QED BY <1>5, <3>1, <3>2
  <2> QED BY <2>1, <2>2, <2>3
<1>6. CASE Attempt \/ Leave \/ LinkDown
  BY <1>5, <1>6 DEF Attempt, Leave, LinkDown, Discarded
<1>7. ASSUME NEW c \in Channel, ChannelUp(c) PROVE IntTyped'
  <2>1. CASE UNCHANGED intVars
    BY <2>1
  <2>2. CASE BeginSession
    <3>1. NextEpoch \in Epoch /\ Packet(Greeting, NextEpoch) \in Element
      BY NextEpochType DEF Packet, Element
    <3> QED BY <2>2, <3>1, QueuedType DEF BeginSession
  <2> QED BY <1>7, <2>1, <2>2 DEF ChannelUp
<1>8. ASSUME NEW c \in Channel, ChannelAlone(c) \/ ChannelDown(c) PROVE IntTyped'
  BY <1>5, <1>8 DEF ChannelAlone, ChannelDown
<1>9. [ControlCanSendNow \/ SetFeatureData]_vars => UNCHANGED intVars
  BY DEF vars, ControlCanSendNow, SetFeatureData
<1>10. ASSUME NEW p \in Peer, LinkUp(p) PROVE UNCHANGED intVars
  BY <1>10 DEF LinkUp
<1>11. ASSUME NEW r \in Report, GetFeatureData(r) \/ Answer(r) PROVE UNCHANGED intVars
  BY <1>11 DEF GetFeatureData, Answer
<1> QED BY <1>1, <1>2, <1>3, <1>4, <1>6, <1>7, <1>8, <1>9, <1>10, <1>11 DEF Next

\* The control queue is bounded, and asks for a report once.
LEMMA NextCtlTyped == Typed /\ [Next]_vars => CtlTyped'
<1> SUFFICES ASSUME Typed, [Next]_vars PROVE CtlTyped'
  OBVIOUS
<1> USE DEF Typed, CtlTyped, ctlVars
<1>1. CASE UNCHANGED ctlVars
  BY <1>1
<1>2. CASE Tick
  BY <1>2 DEF Tick
<1>3. CASE ControlCanSendNow
  <2>1. control_send_requested' \in BOOLEAN
    BY <1>3 DEF ControlCanSendNow, ControlTaken
  <2>2. \/ control_send_queue' = control_send_queue
        \/ control_send_queue # <<>> /\ control_send_queue' = Tail(control_send_queue)
    BY <1>3 DEF ControlCanSendNow
  <2> QED BY <2>1, <2>2, TailOfRequests
<1>4. CASE SetFeatureData
  BY <1>4, AppendRequest, GetsDiffer DEF SetFeatureData
<1>5. ASSUME NEW r \in Report, GetFeatureData(r) PROVE CtlTyped'
  BY <1>5, AppendRequest, GetsDiffer DEF GetFeatureData, Requested
<1>6. ASSUME DropOutput PROVE CtlTyped'
  <2>1. <<>> \in Seq(Request) /\ Len(<<>>) = 0 /\ DOMAIN <<>> = {}
    OBVIOUS
  <2>2. Distinct(<<>>)
    BY <2>1 DEF Distinct
  <2>3. control_send_queue' = <<>> /\ control_send_requested' = FALSE
    BY <1>6 DEF DropOutput
  <2>4. Len(control_send_queue') <= ControlLimit
    BY <2>1, <2>3, SendPathAssumption
  <2>5. control_send_queue' \in Seq(Request) /\ Distinct(control_send_queue')
    BY <2>1, <2>2, <2>3
  <2> QED BY <2>3, <2>4, <2>5
<1>7. CASE Attempt \/ Leave \/ LinkDown
  BY <1>6, <1>7 DEF Attempt, Leave, LinkDown
<1>8. ASSUME NEW c \in Channel, ChannelUp(c) PROVE CtlTyped'
  BY <1>8, InitFeatureKeeps DEF ChannelUp, BeginSession
<1>9. ASSUME NEW c \in Channel, ChannelAlone(c) \/ ChannelDown(c) PROVE CtlTyped'
  BY <1>6, <1>9 DEF ChannelAlone, ChannelDown
<1>10. [InterruptCanSendNow]_vars => UNCHANGED ctlVars
  BY DEF vars, InterruptCanSendNow
<1>11. ASSUME NEW p \in Peer, LinkUp(p) PROVE UNCHANGED ctlVars
  BY <1>11 DEF LinkUp
<1>12. ASSUME NEW d \in Data, BtTryWrite(d) PROVE UNCHANGED ctlVars
  BY <1>12 DEF BtTryWrite
<1>13. ASSUME NEW r \in Report, Answer(r) PROVE UNCHANGED ctlVars
  BY <1>13 DEF Answer
<1> QED BY <1>1, <1>2, <1>3, <1>4, <1>5, <1>7, <1>8, <1>9, <1>10, <1>11, <1>12, <1>13 DEF Next

\* Reports are cached for, and asked of, whoever is on the link.
LEMMA NextAirTyped == Typed /\ [Next]_vars => AirTyped'
<1> SUFFICES ASSUME Typed, [Next]_vars PROVE AirTyped'
  OBVIOUS
<1> USE DEF Typed, AirTyped, airVars
<1>1. CASE UNCHANGED <<feature_data, airVars, wire>>
  BY <1>1
<1>2. CASE Tick
  BY <1>2 DEF Tick
<1>3. CASE InterruptCanSendNow
  <2>1. UNCHANGED <<feature_data, asked>> /\ owed' \subseteq Channel
    BY <1>3 DEF InterruptCanSendNow, SendHead
  <2>2. CASE send_fifo # <<>> /\ wire' = Head(send_fifo).data
    <3>1. Head(send_fifo) \in Element
      BY <2>2, HeadTailProperties DEF IntTyped
    <3> QED BY <2>1, <2>2, <3>1 DEF Element
  <2> QED BY <1>3, <2>1, <2>2 DEF InterruptCanSendNow, SendHead
<1>4. CASE ControlCanSendNow
  <2>1. UNCHANGED <<feature_data, wire>> /\ owed' \subseteq Channel
    BY <1>4 DEF ControlCanSendNow
  <2>2. CASE control_send_queue # <<>> /\ Head(control_send_queue).kind = "get"
                /\ asked' = asked \cup {Head(control_send_queue).id}
    <3>1. Head(control_send_queue) \in Request
      BY <2>2, HeadTailProperties DEF CtlTyped
    <3>2. Head(control_send_queue).id \in Report
      BY <2>2, <3>1 DEF Request, Get, Set
    <3> QED BY <2>1, <2>2, <3>2
  <2>3. CASE asked' = asked
    BY <2>1, <2>3
  <2> QED BY <1>4, <2>2, <2>3 DEF ControlCanSendNow
<1>5. ASSUME NEW r \in Report, Answer(r) PROVE AirTyped'
  BY <1>5 DEF Answer, LinkTyped
<1>6. CASE LinkDown
  BY <1>6 DEF LinkDown, Forgotten
<1>7. ASSUME NEW c \in Channel, ChannelDown(c) PROVE AirTyped'
  BY <1>7 DEF ChannelDown
<1>8. [SetFeatureData \/ Attempt \/ Leave]_vars => UNCHANGED <<feature_data, airVars, wire>>
  BY DEF vars, SetFeatureData, Attempt, Leave
<1>9. ASSUME NEW p \in Peer, LinkUp(p) PROVE UNCHANGED <<feature_data, airVars, wire>>
  BY <1>9 DEF LinkUp
<1>10. ASSUME NEW d \in Data, BtTryWrite(d) PROVE UNCHANGED <<feature_data, airVars, wire>>
  BY <1>10 DEF BtTryWrite
<1>11. ASSUME NEW r \in Report, GetFeatureData(r) PROVE UNCHANGED <<feature_data, airVars, wire>>
  BY <1>11 DEF GetFeatureData
<1>12. ASSUME NEW c \in Channel, ChannelUp(c) \/ ChannelAlone(c)
       PROVE  UNCHANGED <<feature_data, airVars, wire>>
  BY <1>12 DEF ChannelUp, ChannelAlone
<1> QED BY <1>1, <1>2, <1>3, <1>4, <1>5, <1>6, <1>7, <1>8, <1>9, <1>10, <1>11, <1>12 DEF Next

\* Every step keeps the types.
LEMMA NextTyped == Typed /\ [Next]_vars => Typed'
BY NextLinkTyped, NextIntTyped, NextCtlTyped, NextAirTyped DEF Typed

-----------------------------------------------------------------------------
(* Sessions.                                                               *)

\* The channels opened by a handler belong to the link that stands.
LEMMA NextIdle == Typed /\ IdleIsEmpty /\ [Next]_vars => IdleIsEmpty'
<1> SUFFICES ASSUME Typed, IdleIsEmpty, [Next]_vars PROVE IdleIsEmpty'
  OBVIOUS
<1> USE DEF IdleIsEmpty, linkVars
<1>1. CASE UNCHANGED linkVars
  BY <1>1
<1>2. CASE Attempt \/ Leave \/ LinkDown
  BY <1>2 DEF Attempt, Leave, LinkDown, Link!Attempt, Link!Leave, Link!Down
<1>3. ASSUME NEW p \in Peer, LinkUp(p) PROVE IdleIsEmpty'
  BY <1>3 DEF LinkUp, Link!Up
<1>4. ASSUME NEW c \in Channel, ChannelUp(c) \/ ChannelAlone(c) \/ ChannelDown(c) PROVE IdleIsEmpty'
  BY <1>4 DEF ChannelUp, ChannelAlone, ChannelDown, Link!ChannelAlone, Link!ChannelDown
<1>5. [Tick \/ InterruptCanSendNow \/ ControlCanSendNow \/ SetFeatureData]_vars => UNCHANGED linkVars
  BY DEF vars, Tick, InterruptCanSendNow, ControlCanSendNow, SetFeatureData
<1>6. ASSUME NEW d \in Data, BtTryWrite(d) PROVE UNCHANGED linkVars
  BY <1>6 DEF BtTryWrite
<1>7. ASSUME NEW r \in Report, GetFeatureData(r) \/ Answer(r) PROVE UNCHANGED linkVars
  BY <1>7 DEF GetFeatureData, Answer
<1> QED BY <1>1, <1>2, <1>3, <1>4, <1>5, <1>6, <1>7 DEF Next

\* What disconnect_link, the end of an attempt or of the link, leaves: no epoch,
\* and no whole link.
LEMMA DropsSession ==
    ASSUME Typed, IdleIsEmpty,
           \/ Attempt \/ Leave \/ LinkDown
           \/ \E c \in Channel : ChannelAlone(c) \/ ChannelDown(c)
    PROVE  /\ DropOutput
           /\ ~link' \/ leaving'
           /\ send_fifo' = <<>> \/ (link' /\ link /\ send_fifo' = send_fifo) \/ (~link /\ send_fifo' = send_fifo)
BY DEF Attempt, Leave, LinkDown, ChannelAlone, ChannelDown, Link!Attempt, Link!Leave, Link!Down,
   Link!ChannelAlone, Link!ChannelDown, Discarded

\* An epoch begins with the second channel, and ends with any reason to take
\* the link down.
LEMMA NextEpochIffWhole == Typed /\ IdleIsEmpty /\ EpochIffWhole /\ [Next]_vars => EpochIffWhole'
<1> SUFFICES ASSUME Typed, IdleIsEmpty, EpochIffWhole, [Next]_vars PROVE EpochIffWhole'
  OBVIOUS
<1> USE DEF EpochIffWhole, linkVars, intVars
<1>1. CASE UNCHANGED <<linkVars, active_send_epoch>>
  BY <1>1
<1>2. CASE \/ Attempt \/ Leave \/ LinkDown
           \/ \E c \in Channel : ChannelAlone(c) \/ ChannelDown(c)
  BY <1>2, DropsSession DEF DropOutput
<1>3. ASSUME NEW p \in Peer, LinkUp(p) PROVE EpochIffWhole'
  BY <1>3 DEF LinkUp, Link!Up, IdleIsEmpty, Channel, Link!Channel
<1>4. ASSUME NEW c \in Channel, ChannelUp(c) PROVE EpochIffWhole'
  <2>1. CASE open \cup {c} = Channel
    <3>1. active_send_epoch' # 0
      BY <1>4, <2>1, NextEpochType DEF ChannelUp, BeginSession, Typed, IntTyped
    <3> QED BY <1>4, <2>1, <3>1 DEF ChannelUp
  <2>2. CASE open \cup {c} # Channel
    <3>1. open # Channel /\ UNCHANGED active_send_epoch
      BY <1>4, <2>2 DEF ChannelUp
    <3> QED BY <1>4, <2>2, <3>1 DEF ChannelUp
  <2> QED BY <2>1, <2>2
<1>5. [Tick \/ InterruptCanSendNow \/ ControlCanSendNow \/ SetFeatureData]_vars
        => UNCHANGED <<linkVars, active_send_epoch>>
  BY DEF vars, Tick, InterruptCanSendNow, ControlCanSendNow, SetFeatureData
<1>6. ASSUME NEW d \in Data, BtTryWrite(d) PROVE UNCHANGED <<linkVars, active_send_epoch>>
  BY <1>6 DEF BtTryWrite
<1>7. ASSUME NEW r \in Report, GetFeatureData(r) \/ Answer(r)
      PROVE  UNCHANGED <<linkVars, active_send_epoch>>
  BY <1>7 DEF GetFeatureData, Answer
<1> QED BY <1>1, <1>2, <1>3, <1>4, <1>5, <1>6, <1>7 DEF Next

\* The FIFO is empty when a session begins, takes packets of that session only,
\* and is discarded with the link.
LEMMA NextFifo ==
    Typed /\ IdleIsEmpty /\ EpochIffWhole /\ FifoHasLink /\ FifoIsCurrent /\ [Next]_vars
        => FifoHasLink' /\ FifoIsCurrent'
<1> SUFFICES ASSUME Typed, IdleIsEmpty, EpochIffWhole, FifoHasLink, FifoIsCurrent, [Next]_vars
             PROVE  FifoHasLink' /\ FifoIsCurrent'
  OBVIOUS
<1> USE DEF FifoHasLink, FifoIsCurrent, linkVars, intVars
<1>1. CASE UNCHANGED <<link, leaving, active_send_epoch, send_fifo>>
  BY <1>1
<1>2. ASSUME NEW fifo \in Seq(Element), Len(fifo) <= FifoCapacity, NEW packet \in Element,
             NEW epoch, packet.epoch = epoch,
             \A i \in DOMAIN fifo : fifo[i].epoch = epoch
      PROVE  \A i \in DOMAIN Queued(fifo, packet) : Queued(fifo, packet)[i].epoch = epoch
  <2>1. CASE Len(fifo) < FifoCapacity
    <3>1. /\ Queued(fifo, packet) = Append(fifo, packet)
          /\ DOMAIN Append(fifo, packet) = 1 .. Len(fifo) + 1 /\ DOMAIN fifo = 1 .. Len(fifo)
          /\ \A i \in 1 .. Len(fifo) : Append(fifo, packet)[i] = fifo[i]
          /\ Append(fifo, packet)[Len(fifo) + 1] = packet /\ Len(fifo) \in Nat
      BY <1>2, <2>1, AppendProperties, LenProperties DEF Queued
    <3> QED BY <1>2, <3>1
  <2>2. CASE ~(Len(fifo) < FifoCapacity)
    BY <1>2, <2>2 DEF Queued
  <2> QED BY <2>1, <2>2
<1>3. ASSUME NEW d \in Data, BtTryWrite(d) PROVE FifoHasLink' /\ FifoIsCurrent'
  <2>1. /\ active_send_epoch # 0 /\ UNCHANGED <<link, leaving, active_send_epoch>>
        /\ send_fifo' = Queued(send_fifo, Packet(d, active_send_epoch))
        /\ Packet(d, active_send_epoch) \in Element
        /\ Packet(d, active_send_epoch).epoch = active_send_epoch
    BY <1>3 DEF BtTryWrite, Packet, Element, Typed, IntTyped
  <2>2. FifoIsCurrent'
    BY <1>2, <2>1 DEF Typed, IntTyped
  <2> QED BY <2>1, <2>2 DEF EpochIffWhole
<1>4. CASE InterruptCanSendNow
  <2>1. UNCHANGED <<link, leaving, active_send_epoch>>
    BY <1>4 DEF InterruptCanSendNow
  <2>2. CASE send_fifo' = send_fifo
    BY <2>1, <2>2
  <2>3. CASE send_fifo # <<>> /\ send_fifo' = Tail(send_fifo)
    <3>1. /\ DOMAIN Tail(send_fifo) = 1 .. Len(send_fifo) - 1 /\ Len(send_fifo) \in Nat
          /\ DOMAIN send_fifo = 1 .. Len(send_fifo)
          /\ \A i \in 1 .. Len(send_fifo) - 1 : Tail(send_fifo)[i] = send_fifo[i + 1]
      BY <2>3, HeadTailProperties, LenProperties DEF Typed, IntTyped
    <3>2. \A i \in 1 .. Len(send_fifo) - 1 : i + 1 \in DOMAIN send_fifo
      BY <3>1
    <3> QED BY <2>1, <2>3, <3>1, <3>2
  <2> QED BY <1>4, <2>2, <2>3 DEF InterruptCanSendNow, SendHead
<1>5. CASE \/ Attempt \/ Leave \/ LinkDown
           \/ \E c \in Channel : ChannelAlone(c) \/ ChannelDown(c)
  <2>1. active_send_epoch' = 0
    BY <1>5, DropsSession DEF DropOutput
  <2>2. send_fifo' # <<>> => send_fifo' = send_fifo /\ link' /\ leaving'
    BY <1>5, DropsSession
  <2> QED BY <2>1, <2>2
<1>6. ASSUME NEW c \in Channel, ChannelUp(c) PROVE FifoHasLink' /\ FifoIsCurrent'
  <2>1. CASE UNCHANGED intVars
    BY <1>6, <2>1 DEF ChannelUp
  <2>2. CASE BeginSession
    <3>1. send_fifo = <<>> /\ <<>> \in Seq(Element) /\ Len(<<>>) = 0
      BY <1>6 DEF ChannelUp, EpochIffWhole
    <3>2. NextEpoch \in Epoch \ {0} /\ Packet(Greeting, NextEpoch) \in Element
          /\ Packet(Greeting, NextEpoch).epoch = NextEpoch
      BY NextEpochType DEF Packet, Element, Typed, IntTyped
    <3>3. /\ active_send_epoch' = NextEpoch
          /\ send_fifo' = Queued(send_fifo, Packet(Greeting, NextEpoch))
      BY <2>2 DEF BeginSession
    <3>4. FifoIsCurrent'
      <4>1. /\ send_fifo \in Seq(Element) /\ Len(send_fifo) <= FifoCapacity
            /\ \A i \in DOMAIN send_fifo : send_fifo[i].epoch = NextEpoch
        BY <3>1 DEF Typed, IntTyped
      <4>2. \A i \in DOMAIN Queued(send_fifo, Packet(Greeting, NextEpoch)) :
              Queued(send_fifo, Packet(Greeting, NextEpoch))[i].epoch = NextEpoch
        BY <1>2, <3>2, <4>1
      <4> QED BY <3>3, <4>2
    <3>5. link' = link /\ link
      BY <1>6 DEF ChannelUp
    <3> QED BY <3>2, <3>3, <3>4, <3>5
  <2> QED BY <1>6, <2>1, <2>2 DEF ChannelUp
<1>7. ASSUME NEW p \in Peer, LinkUp(p) PROVE FifoHasLink' /\ FifoIsCurrent'
  BY <1>7 DEF LinkUp, Link!Up
<1>8. [Tick \/ ControlCanSendNow \/ SetFeatureData]_vars
        => UNCHANGED <<link, leaving, active_send_epoch, send_fifo>>
  BY DEF vars, Tick, ControlCanSendNow, SetFeatureData
<1>9. ASSUME NEW r \in Report, GetFeatureData(r) \/ Answer(r)
      PROVE  UNCHANGED <<link, leaving, active_send_epoch, send_fifo>>
  BY <1>9 DEF GetFeatureData, Answer
<1> QED BY <1>1, <1>3, <1>4, <1>5, <1>6, <1>7, <1>8, <1>9 DEF Next

\* Answers are cached for the peer on the link, and forgotten with it.
LEMMA NextFeatureData ==
    Typed /\ IdleIsEmpty /\ FeatureDataIsPeers /\ [Next]_vars => FeatureDataIsPeers'
<1> SUFFICES ASSUME Typed, IdleIsEmpty, FeatureDataIsPeers, [Next]_vars PROVE FeatureDataIsPeers'
  OBVIOUS
<1> USE DEF FeatureDataIsPeers, linkVars
<1>1. CASE UNCHANGED <<peer, feature_data>>
  BY <1>1
<1>2. ASSUME NEW p \in Peer, LinkUp(p) PROVE FeatureDataIsPeers'
  BY <1>2 DEF LinkUp, Link!Up, IdleIsEmpty
<1>3. CASE LinkDown
  BY <1>3 DEF LinkDown, Forgotten
<1>4. ASSUME NEW r \in Report, Answer(r) PROVE FeatureDataIsPeers'
  BY <1>4 DEF Answer, Typed, AirTyped
<1>5. [Tick \/ InterruptCanSendNow \/ ControlCanSendNow \/ SetFeatureData \/ Attempt \/ Leave]_vars
        => UNCHANGED <<peer, feature_data>>
  BY DEF vars, Tick, InterruptCanSendNow, ControlCanSendNow, SetFeatureData, Attempt, Leave
<1>6. ASSUME NEW d \in Data, BtTryWrite(d) PROVE UNCHANGED <<peer, feature_data>>
  BY <1>6 DEF BtTryWrite
<1>7. ASSUME NEW r \in Report, GetFeatureData(r) PROVE UNCHANGED <<peer, feature_data>>
  BY <1>7 DEF GetFeatureData
<1>8. ASSUME NEW c \in Channel, ChannelUp(c) \/ ChannelAlone(c) \/ ChannelDown(c)
      PROVE  UNCHANGED <<peer, feature_data>>
  BY <1>8 DEF ChannelUp, ChannelAlone, ChannelDown
<1> QED BY <1>1, <1>2, <1>3, <1>4, <1>5, <1>6, <1>7, <1>8 DEF Next

-----------------------------------------------------------------------------
(* Queues.                                                                 *)

\* A flag is set with the request for its event, and cleared with the event, the
\* channel or the session.
LEMMA NextWakeup ==
    Typed /\ IdleIsEmpty /\ EpochIffWhole /\ NoLostWakeup /\ [Next]_vars => NoLostWakeup'
<1> SUFFICES ASSUME Typed, IdleIsEmpty, EpochIffWhole, NoLostWakeup, [Next]_vars PROVE NoLostWakeup'
  OBVIOUS
<1> USE DEF NoLostWakeup, linkVars, intVars, ctlVars, airVars
<1>1. CASE UNCHANGED <<send_requested, control_send_requested, owed, open>>
  BY <1>1
<1>2. CASE Tick
  <2>1. open' = open /\ owed \subseteq owed'
    BY <1>2 DEF Tick
  <2>2. send_requested' /\ ~send_requested => "interrupt" \in owed' \cap open
    BY <1>2 DEF Tick, EpochIffWhole, Channel, Link!Channel
  <2>3. control_send_requested' /\ ~control_send_requested => "control" \in owed' \cap open
    BY <1>2 DEF Tick, EpochIffWhole, Channel, Link!Channel
  <2> QED BY <2>1, <2>2, <2>3
<1>3. CASE InterruptCanSendNow
  <2>1. send_requested' => "interrupt" \in owed' \cap open'
    BY <1>3 DEF InterruptCanSendNow, SendHead
  <2>2. control_send_requested' => control_send_requested /\ "control" \in owed' \cap open'
    BY <1>3 DEF InterruptCanSendNow, SendHead
  <2> QED BY <2>1, <2>2
<1>4. CASE ControlCanSendNow
  BY <1>4 DEF ControlCanSendNow, ControlTaken
<1>5. CASE \/ Attempt \/ Leave \/ LinkDown
           \/ \E c \in Channel : ChannelAlone(c) \/ ChannelDown(c)
  BY <1>5, DropsSession DEF DropOutput
<1>6. ASSUME NEW c \in Channel, ChannelUp(c) PROVE NoLostWakeup'
  <2>1. /\ UNCHANGED <<owed, control_send_requested>> /\ open \subseteq open'
        /\ send_requested' => send_requested
    BY <1>6 DEF ChannelUp, BeginSession
  <2> QED BY <2>1
<1>7. ASSUME NEW p \in Peer, LinkUp(p) PROVE NoLostWakeup'
  BY <1>7 DEF LinkUp, Link!Up
<1>8. [SetFeatureData]_vars => UNCHANGED <<send_requested, control_send_requested, owed, open>>
  BY DEF vars, SetFeatureData
<1>9. ASSUME NEW d \in Data, BtTryWrite(d)
      PROVE  UNCHANGED <<send_requested, control_send_requested, owed, open>>
  BY <1>9 DEF BtTryWrite
<1>10. ASSUME NEW r \in Report, GetFeatureData(r) \/ Answer(r)
       PROVE  UNCHANGED <<send_requested, control_send_requested, owed, open>>
  BY <1>10 DEF GetFeatureData, Answer
<1> QED BY <1>1, <1>2, <1>3, <1>4, <1>5, <1>6, <1>7, <1>8, <1>9, <1>10 DEF Next

\* Requests wait only while the control channel is there to take them.
RequestsCanLeave == control_send_queue # <<>> => "control" \in open /\ ~leaving

\* They are queued with the channel open, and dropped by all that closes it.
LEMMA NextRequests ==
    Typed /\ IdleIsEmpty /\ RequestsCanLeave /\ [Next]_vars => RequestsCanLeave'
<1> SUFFICES ASSUME Typed, IdleIsEmpty, RequestsCanLeave, [Next]_vars PROVE RequestsCanLeave'
  OBVIOUS
<1> USE DEF RequestsCanLeave, linkVars, ctlVars
<1>1. CASE UNCHANGED <<control_send_queue, open, leaving>>
  BY <1>1
<1>2. CASE \/ Attempt \/ Leave \/ LinkDown
           \/ \E c \in Channel : ChannelAlone(c) \/ ChannelDown(c)
  BY <1>2, DropsSession DEF DropOutput
<1>3. CASE ControlCanSendNow
  BY <1>3 DEF ControlCanSendNow, ControlUsable
<1>4. CASE SetFeatureData
  BY <1>4 DEF SetFeatureData, ControlUsable
<1>5. ASSUME NEW r \in Report, GetFeatureData(r) PROVE RequestsCanLeave'
  BY <1>5 DEF GetFeatureData, ControlUsable
<1>6. ASSUME NEW c \in Channel, ChannelUp(c) PROVE RequestsCanLeave'
  <2>1. open \subseteq open' /\ UNCHANGED leaving /\ ~leaving
    BY <1>6 DEF ChannelUp
  <2>2. UNCHANGED control_send_queue \/ open' = Channel
    BY <1>6 DEF ChannelUp
  <2> QED BY <2>1, <2>2 DEF Channel, Link!Channel
<1>7. ASSUME NEW p \in Peer, LinkUp(p) PROVE RequestsCanLeave'
  BY <1>7 DEF LinkUp, Link!Up
<1>8. [Tick \/ InterruptCanSendNow]_vars => UNCHANGED <<control_send_queue, open, leaving>>
  BY DEF vars, Tick, InterruptCanSendNow
<1>9. ASSUME NEW d \in Data, BtTryWrite(d) PROVE UNCHANGED <<control_send_queue, open, leaving>>
  BY <1>9 DEF BtTryWrite
<1>10. ASSUME NEW r \in Report, Answer(r) PROVE UNCHANGED <<control_send_queue, open, leaving>>
  BY <1>10 DEF Answer
<1> QED BY <1>1, <1>2, <1>3, <1>4, <1>5, <1>6, <1>7, <1>8, <1>9, <1>10 DEF Next

-----------------------------------------------------------------------------
(* The invariants.                                                         *)

\* At first the queues are empty and there is no link.
LEMMA InitSound == Init => Sound
<1> SUFFICES ASSUME Init PROVE Sound
  OBVIOUS
<1>1. /\ <<>> \in Seq(Element) /\ <<>> \in Seq(Request) /\ Len(<<>>) = 0 /\ DOMAIN <<>> = {}
      /\ 0 \in Epoch
  BY SendPathAssumption DEF Epoch
<1>2. link = FALSE /\ leaving = FALSE /\ open = {}
  BY DEF Init, Link!Init
<1>3. TypeOK
  <2>1. LinkTyped /\ AirTyped
    BY <1>2 DEF Init, LinkTyped, AirTyped
  <2>2. IntTyped
    <3>1. send_fifo = <<>> /\ Len(send_fifo) = 0 /\ FifoCapacity \in Nat
      BY SendPathAssumption DEF Init
    <3>2. active_send_epoch = 0 /\ next_send_epoch = 0 /\ send_requested = FALSE
      BY DEF Init
    <3>3. send_fifo \in Seq(Element)
      BY <1>1, <3>1
    <3>4. Len(send_fifo) <= FifoCapacity
      BY <3>1
    <3> QED BY <1>1, <3>2, <3>3, <3>4 DEF IntTyped
  <2>3. CtlTyped
    <3>1. control_send_queue = <<>> /\ Len(control_send_queue) = 0 /\ ControlLimit \in Nat
      BY SendPathAssumption DEF Init
    <3>2. control_send_requested = FALSE
      BY DEF Init
    <3>3. control_send_queue \in Seq(Request) /\ Distinct(control_send_queue)
      BY <1>1, <3>1 DEF Distinct
    <3>4. Len(control_send_queue) <= ControlLimit
      BY <3>1
    <3> QED BY <3>2, <3>3, <3>4 DEF CtlTyped
  <2> QED BY <2>1, <2>2, <2>3, TypeParts DEF Typed
<1>4. EpochIffWhole /\ FifoIsCurrent /\ FeatureDataIsPeers
  BY <1>2 DEF Init, EpochIffWhole, FifoIsCurrent, FeatureDataIsPeers
<1>5. NoLostWakeup /\ ControlQueueIsLive
  BY <1>1 DEF Init, NoLostWakeup, ControlQueueIsLive
<1>6. IdleIsEmpty /\ FifoHasLink
  BY <1>2 DEF Init, IdleIsEmpty, FifoHasLink
<1> QED BY <1>3, <1>4, <1>5, <1>6 DEF Sound

\* The second half of ControlQueueIsLive is a type of the queue.
LEMMA QueueParts == ControlQueueIsLive <=> RequestsCanLeave /\ Distinct(control_send_queue)
BY DEF ControlQueueIsLive, RequestsCanLeave, Distinct

\* The invariant is inductive.
LEMMA NextSound == Sound /\ [Next]_vars => Sound'
<1> SUFFICES ASSUME Sound, [Next]_vars PROVE Sound'
  OBVIOUS
<1>1. Typed /\ RequestsCanLeave
  BY TypeParts, QueueParts DEF Sound
<1>2. Typed' /\ RequestsCanLeave'
  BY <1>1, NextTyped, NextRequests DEF Sound
<1>3. TypeOK' /\ ControlQueueIsLive'
  BY <1>2 DEF Typed, LinkTyped, IntTyped, CtlTyped, AirTyped, TypeOK, Element,
     ControlQueueIsLive, RequestsCanLeave, Distinct
<1>4. IdleIsEmpty' /\ EpochIffWhole' /\ FifoHasLink' /\ FifoIsCurrent'
  BY <1>1, NextIdle, NextEpochIffWhole, NextFifo DEF Sound
<1>5. FeatureDataIsPeers' /\ NoLostWakeup'
  BY <1>1, NextFeatureData, NextWakeup DEF Sound
<1> QED BY <1>3, <1>4, <1>5 DEF Sound

\* What the theorems below are read off from.
LEMMA Invariance == Spec => []Sound
BY InitSound, NextSound, PTL DEF Spec

\* Every static of the send path keeps its type: neither queue outgrows its
\* bound, whatever is written and however long BTstack is busy.
THEOREM TypeCorrect == Spec => []TypeOK
<1>1. Sound => TypeOK
  BY DEF Sound
<1> QED BY <1>1, Invariance, PTL

\* No flag is set that nothing clears, no request waits for a channel that is
\* gone, no report is waited for twice.
THEOREM QueuesStayLive == Spec => []QueuesAreLive
<1>1. Sound => QueuesAreLive
  BY DEF Sound, QueuesAreLive
<1> QED BY <1>1, Invariance, PTL

\* No epoch, packet or answer of one session is found by the next, also across
\* the wrap of the epoch counter.
THEOREM SessionsStayApart == Spec => []SessionsApart
<1>1. Sound => SessionsApart
  BY DEF Sound, SessionsApart
<1> QED BY <1>1, Invariance, PTL

-----------------------------------------------------------------------------
(* The refinement of Outbox.                                               *)

\* A packet added, by its data
LEMMA DataOfAppend ==
    ASSUME NEW fifo \in Seq(Element), NEW packet \in Element
    PROVE  /\ DataOf(Append(fifo, packet)) = Append(DataOf(fifo), packet.data)
           /\ Len(DataOf(fifo)) = Len(fifo)
<1>1. /\ DOMAIN Append(fifo, packet) = 1 .. Len(fifo) + 1 /\ DOMAIN fifo = 1 .. Len(fifo)
      /\ \A i \in 1 .. Len(fifo) : Append(fifo, packet)[i] = fifo[i]
      /\ Append(fifo, packet)[Len(fifo) + 1] = packet /\ Len(fifo) \in Nat
  BY AppendProperties, LenProperties
<1>2. DataOf(fifo) \in Seq(Data \cup {Greeting}) /\ Len(DataOf(fifo)) = Len(fifo)
  <2>1. \A i \in 1 .. Len(fifo) : fifo[i].data \in Data \cup {Greeting}
    <3>1. \A i \in 1 .. Len(fifo) : fifo[i] \in Element
      BY <1>1
    <3> QED BY <3>1 DEF Element
  <2> QED BY <1>1, <2>1 DEF DataOf
<1>3. packet.data \in Data \cup {Greeting}
  BY DEF Element
<1>4. /\ Append(DataOf(fifo), packet.data) \in Seq(Data \cup {Greeting})
      /\ Len(Append(DataOf(fifo), packet.data)) = Len(fifo) + 1
      /\ \A i \in 1 .. Len(fifo) : Append(DataOf(fifo), packet.data)[i] = DataOf(fifo)[i]
      /\ Append(DataOf(fifo), packet.data)[Len(fifo) + 1] = packet.data
  BY <1>2, <1>3, AppendProperties
<1>5. Append(DataOf(fifo), packet.data)
        = [i \in 1 .. Len(fifo) + 1 |-> Append(DataOf(fifo), packet.data)[i]]
  BY <1>4, LenProperties
<1>6. DataOf(Append(fifo, packet)) = [i \in 1 .. Len(fifo) + 1 |-> Append(fifo, packet)[i].data]
  BY <1>1 DEF DataOf
<1>7. \A i \in 1 .. Len(fifo) + 1 :
        Append(fifo, packet)[i].data = Append(DataOf(fifo), packet.data)[i]
  <2> SUFFICES ASSUME NEW i \in 1 .. Len(fifo) + 1
               PROVE  Append(fifo, packet)[i].data = Append(DataOf(fifo), packet.data)[i]
    OBVIOUS
  <2>1. CASE i = Len(fifo) + 1
    BY <1>1, <1>4, <2>1
  <2>2. CASE i # Len(fifo) + 1
    <3>1. i \in 1 .. Len(fifo)
      BY <1>1, <2>2
    <3> QED BY <1>1, <1>4, <3>1 DEF DataOf
  <2> QED BY <2>1, <2>2
<1> QED BY <1>2, <1>5, <1>6, <1>7

\* The oldest packet taken, by its data
LEMMA DataOfTail ==
    ASSUME NEW fifo \in Seq(Element), fifo # <<>>
    PROVE  /\ DataOf(Tail(fifo)) = Tail(DataOf(fifo))
           /\ Head(DataOf(fifo)) = Head(fifo).data /\ DataOf(fifo) # <<>>
<1>1. /\ DOMAIN Tail(fifo) = 1 .. Len(fifo) - 1 /\ DOMAIN fifo = 1 .. Len(fifo)
      /\ \A i \in 1 .. Len(fifo) - 1 : Tail(fifo)[i] = fifo[i + 1]
      /\ Len(fifo) \in Nat /\ Len(fifo) > 0 /\ Head(fifo) = fifo[1]
  BY HeadTailProperties, LenProperties, EmptySeq
<1>2. DataOf(fifo) \in Seq(Data \cup {Greeting}) /\ Len(DataOf(fifo)) = Len(fifo)
  <2>1. \A i \in 1 .. Len(fifo) : fifo[i].data \in Data \cup {Greeting}
    <3>1. \A i \in 1 .. Len(fifo) : fifo[i] \in Element
      BY <1>1
    <3> QED BY <3>1 DEF Element
  <2> QED BY <1>1, <2>1 DEF DataOf
<1>3. DataOf(fifo) # <<>>
  BY <1>1, <1>2
<1>4. /\ Tail(DataOf(fifo)) \in Seq(Data \cup {Greeting})
      /\ Len(Tail(DataOf(fifo))) = Len(fifo) - 1
      /\ \A i \in 1 .. Len(fifo) - 1 : Tail(DataOf(fifo))[i] = DataOf(fifo)[i + 1]
  BY <1>2, <1>3, HeadTailProperties
<1>5. Tail(DataOf(fifo)) = [i \in 1 .. Len(fifo) - 1 |-> Tail(DataOf(fifo))[i]]
  BY <1>4, LenProperties
<1>6. DataOf(Tail(fifo)) = [i \in 1 .. Len(fifo) - 1 |-> Tail(fifo)[i].data]
  BY <1>1 DEF DataOf
<1>7. \A i \in 1 .. Len(fifo) - 1 : Tail(fifo)[i].data = Tail(DataOf(fifo))[i]
  <2> SUFFICES ASSUME NEW i \in 1 .. Len(fifo) - 1
               PROVE  Tail(fifo)[i].data = Tail(DataOf(fifo))[i]
    OBVIOUS
  <2>1. i + 1 \in 1 .. Len(fifo)
    BY <1>1
  <2> QED BY <1>1, <1>4, <2>1 DEF DataOf
<1>8. Head(DataOf(fifo)) = Head(fifo).data
  BY <1>1, <1>2, <1>3 DEF DataOf
<1> QED BY <1>3, <1>5, <1>6, <1>7, <1>8

\* Nothing runs and nothing has been sent at first.
LEMMA InitMaps == Init => Promise!Init
BY DEF Init, Promise!Init

\* Every step is a step of the outbox, or changes nothing in it: a write accepts
\* or is refused, CAN_SEND_NOW delivers or loses the oldest packet, a session
\* opens the outbox with its greeting and disconnect_link closes it.
LEMMA NextMaps == Sound /\ [Next]_vars => [Promise!Next]_(Promise!vars)
<1> SUFFICES ASSUME Sound, [Next]_vars PROVE [Promise!Next]_(Promise!vars)
  OBVIOUS
<1>0. Typed /\ IdleIsEmpty /\ EpochIffWhole /\ FifoHasLink
  BY TypeParts, QueueParts DEF Sound
<1>1. send_fifo \in Seq(Element)
  BY <1>0 DEF Typed, IntTyped
<1> USE DEF linkVars, intVars
<1>2. CASE UNCHANGED <<active_send_epoch, send_fifo, wire>>
  BY <1>2 DEF Promise!vars
<1>3. ASSUME NEW d \in Data, BtTryWrite(d) PROVE [Promise!Next]_(Promise!vars)
  <2>1. /\ active_send_epoch # 0 /\ UNCHANGED <<active_send_epoch, wire>>
        /\ send_fifo' = Queued(send_fifo, Packet(d, active_send_epoch))
        /\ Packet(d, active_send_epoch) \in Element
        /\ Packet(d, active_send_epoch).data = d
    BY <1>0, <1>3 DEF BtTryWrite, Packet, Element, Typed, IntTyped
  <2>2. CASE Len(send_fifo) < FifoCapacity
    <3>1. send_fifo' = Append(send_fifo, Packet(d, active_send_epoch))
      BY <2>1, <2>2 DEF Queued
    <3>2. Promise!Accept(d)
      BY <1>1, <2>1, <2>2, <3>1, DataOfAppend DEF Promise!Accept
    <3> QED BY <3>2 DEF Promise!Next
  <2>3. CASE ~(Len(send_fifo) < FifoCapacity)
    BY <1>2, <2>1, <2>3 DEF Queued
  <2> QED BY <2>2, <2>3
<1>4. CASE InterruptCanSendNow
  <2>1. UNCHANGED active_send_epoch
    BY <1>4 DEF InterruptCanSendNow
  <2>2. CASE UNCHANGED <<send_fifo, wire>>
    BY <1>2, <2>1, <2>2
  <2>3. CASE active_send_epoch # 0 /\ send_fifo # <<>> /\ send_fifo' = Tail(send_fifo)
    <3>1. CASE wire' = Head(send_fifo).data
      <4>1. Promise!Deliver
        BY <1>1, <2>1, <2>3, <3>1, DataOfTail DEF Promise!Deliver
      <4> QED BY <4>1 DEF Promise!Next
    <3>2. CASE UNCHANGED wire
      <4>1. Promise!Lose
        BY <1>1, <2>1, <2>3, <3>2, DataOfTail DEF Promise!Lose
      <4> QED BY <4>1 DEF Promise!Next
    <3> QED BY <1>4, <2>3, <3>1, <3>2 DEF InterruptCanSendNow, SendHead
  <2> QED BY <1>4, <2>2, <2>3 DEF InterruptCanSendNow, SendHead
<1>5. CASE \/ Attempt \/ Leave \/ LinkDown
           \/ \E c \in Channel : ChannelAlone(c) \/ ChannelDown(c)
  <2>1. active_send_epoch' = 0
    BY <1>0, <1>5, DropsSession DEF DropOutput
  <2>2. UNCHANGED wire
    BY <1>5 DEF Attempt, Leave, LinkDown, ChannelAlone, ChannelDown
  <2>3. CASE active_send_epoch = 0
    BY <2>1, <2>2, <2>3 DEF Promise!vars
  <2>4. CASE active_send_epoch # 0
    <3>1. Promise!Close
      BY <2>1, <2>2, <2>4 DEF Promise!Close
    <3> QED BY <3>1 DEF Promise!Next
  <2> QED BY <2>3, <2>4
<1>6. ASSUME NEW c \in Channel, ChannelUp(c) PROVE [Promise!Next]_(Promise!vars)
  <2>1. CASE UNCHANGED intVars
    BY <1>2, <1>6, <2>1 DEF ChannelUp
  <2>2. CASE BeginSession
    <3>1. active_send_epoch = 0 /\ send_fifo = <<>>
      BY <1>0, <1>6 DEF ChannelUp, EpochIffWhole, FifoHasLink
    <3>2. /\ NextEpoch \in Epoch \ {0} /\ Packet(Greeting, NextEpoch) \in Element
          /\ Packet(Greeting, NextEpoch).data = Greeting
      BY <1>0, NextEpochType DEF Packet, Element, Typed, IntTyped
    <3>3. /\ active_send_epoch' # 0 /\ UNCHANGED wire
          /\ send_fifo' = Append(send_fifo, Packet(Greeting, NextEpoch))
      BY <1>6, <2>2, <3>1, <3>2, SendPathAssumption DEF ChannelUp, BeginSession, Queued
    <3>4. DataOf(send_fifo') = <<Greeting>>
      <4>1. DataOf(send_fifo) = <<>>
        BY <3>1 DEF DataOf
      <4>2. DataOf(send_fifo') = Append(<<>>, Greeting)
        BY <1>1, <3>2, <3>3, <4>1, DataOfAppend
      <4> QED BY <4>2
    <3>5. Promise!Open
      BY <3>1, <3>3, <3>4 DEF Promise!Open
    <3> QED BY <3>5 DEF Promise!Next
  <2> QED BY <1>6, <2>1, <2>2 DEF ChannelUp
<1>7. ASSUME NEW p \in Peer, LinkUp(p) PROVE UNCHANGED <<active_send_epoch, send_fifo, wire>>
  BY <1>7 DEF LinkUp
<1>8. [Tick \/ ControlCanSendNow \/ SetFeatureData]_vars
        => UNCHANGED <<active_send_epoch, send_fifo, wire>>
  BY DEF vars, Tick, ControlCanSendNow, SetFeatureData
<1>9. ASSUME NEW r \in Report, GetFeatureData(r) \/ Answer(r)
      PROVE  UNCHANGED <<active_send_epoch, send_fifo, wire>>
  BY <1>9 DEF GetFeatureData, Answer
<1> QED BY <1>2, <1>3, <1>4, <1>5, <1>6, <1>7, <1>8, <1>9 DEF Next

\* The FIFO keeps the promise of Outbox, for every capacity: a session starts
\* with its greeting, and nothing leaves out of order, twice, or in a later
\* session.
THEOREM FifoKeepsOrder == Spec => KeepsOrder
BY InitMaps, NextMaps, Invariance, PTL DEF Spec, KeepsOrder, Promise!Spec

=============================================================================
