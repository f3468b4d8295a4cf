------------------------------- MODULE MicRing -------------------------------
(***************************************************************************)
(* BridgeMicRing (src/src/bridge_output_mic.h): the ring of microphone     *)
(* samples between the decoder on core 1 and the USB interrupt, whose      *)
(* callers hold a critical section.  push works sample by sample, so here  *)
(* it is a step per sample; packet is one step.                            *)
(***************************************************************************)
EXTENDS Naturals, Sequences

CONSTANTS
    Sample,
    Capacity,       \* capacity, 1920
    Prime,          \* 960
    PacketLen       \* 48

ASSUME SizeAssumption ==
    /\ Capacity \in Nat /\ Prime \in Nat /\ PacketLen \in Nat
    /\ 0 < PacketLen /\ PacketLen <= Prime /\ Prime <= Capacity

VARIABLES
    samples,        \* samples_
    head,           \* where the next sample goes
    tail,           \* where the oldest one is
    count,          \* how many there are
    primed,         \* primed_
    \* the output of packet: what it read, before gain and mute
    served

ringVars == <<samples, head, tail, count, primed, served>>

Index == 0 .. Capacity - 1

RingInit ==
    /\ samples \in [Index -> Sample]
    /\ head = 0 /\ tail = 0 /\ count = 0 /\ primed = FALSE
    /\ served = <<>>

\* (i + n) % capacity, for an index i and at most capacity places
Advanced(i, n) == IF i + n >= Capacity THEN i + n - Capacity ELSE i + n

Reset ==
    /\ head' = 0 /\ tail' = 0 /\ count' = 0 /\ primed' = FALSE
    /\ UNCHANGED <<samples, served>>

\* A full ring gives up its oldest sample.
DropOldest ==
    IF count = Capacity
    THEN tail' = Advanced(tail, 1) /\ count' = count
    ELSE tail' = tail /\ count' = count + 1

\* push, one sample of it
PushSample(s) ==
    /\ DropOldest
    /\ samples' = [samples EXCEPT ![head] = s]
    /\ head' = Advanced(head, 1)
    /\ UNCHANGED <<primed, served>>

Frames == IF count < PacketLen THEN count ELSE PacketLen

\* Mutant of StaysPrimed: an underflow does not ask for priming again.
StaysPrimedAlways == TRUE

\* frames < 48 ends the priming
StaysPrimed == Frames = PacketLen

\* packet while priming: silence
Silence ==
    /\ ~primed /\ count < Prime
    /\ served' = <<>>
    /\ UNCHANGED <<samples, head, tail, count, primed>>

\* packet
Play ==
    /\ primed \/ count >= Prime
    /\ served' = [i \in 1 .. Frames |-> samples[Advanced(tail, i - 1)]]
    /\ tail' = Advanced(tail, Frames)
    /\ count' = count - Frames
    /\ primed' = StaysPrimed
    /\ UNCHANGED <<samples, head>>

Packet == Silence \/ Play

RingNext == (\E s \in Sample : PushSample(s)) \/ Reset \/ Packet

RingSpec == RingInit /\ [][RingNext]_ringVars

-----------------------------------------------------------------------------
(* Properties.                                                             *)

\* Indices and count stay in range and agree: head is count places after tail.
RingTypeOK ==
    /\ samples \in [Index -> Sample]
    /\ head \in Index /\ tail \in Index /\ count \in 0 .. Capacity
    /\ head = Advanced(tail, count)
    /\ primed \in BOOLEAN
    /\ served \in Seq(Sample)

\* The samples between tail and head, oldest first
Contents == [i \in 1 .. count |-> samples[Advanced(tail, i - 1)]]

Promise == INSTANCE LossyFifo WITH queue <- Contents

\* The ring implements the jitter buffer: nothing is played twice, out of
\* order, from an unwritten place, or over an underflow without priming.
KeepsOrder == Promise!Spec

=============================================================================
