------------------------------ MODULE LossyFifo ------------------------------
(***************************************************************************)
(* What a jitter buffer promises: samples leave in the order in which they *)
(* came; a full buffer loses the oldest; nothing leaves before Prime       *)
(* samples are there, and again after the buffer has run dry.              *)
(***************************************************************************)
EXTENDS Naturals, Sequences

CONSTANTS
    Sample,
    Capacity,       \* samples it holds
    Prime,          \* samples it waits for
    PacketLen       \* samples a packet takes

VARIABLES
    queue,          \* the samples, oldest first
    primed,         \* packets are being served
    served          \* the samples of the last packet; the rest of it is silence

vars == <<queue, primed, served>>

Init == queue = <<>> /\ primed = FALSE /\ served = <<>>

\* A buffer after one more sample
Pushed(q, s) == Append(IF Len(q) = Capacity THEN Tail(q) ELSE q, s)

Push(s) == queue' = Pushed(queue, s) /\ UNCHANGED <<primed, served>>

Clear == queue' = <<>> /\ primed' = FALSE /\ UNCHANGED served

\* Samples that a packet takes from a buffer of n
Taken(n) == IF n < PacketLen THEN n ELSE PacketLen

Wait == ~primed /\ Len(queue) < Prime /\ served' = <<>> /\ UNCHANGED <<queue, primed>>

Serve ==
    /\ primed \/ Len(queue) >= Prime
    /\ served' = SubSeq(queue, 1, Taken(Len(queue)))
    /\ queue' = SubSeq(queue, Taken(Len(queue)) + 1, Len(queue))
    /\ primed' = (Len(queue) >= PacketLen)

Packet == Wait \/ Serve

Next == (\E s \in Sample : Push(s)) \/ Clear \/ Packet

Spec == Init /\ [][Next]_vars

=============================================================================
