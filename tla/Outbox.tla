------------------------------- MODULE Outbox -------------------------------
(***************************************************************************)
(* What the output FIFO of bt.cpp promises to those who write to it: a     *)
(* session starts with the greeting and nothing else; packets leave in     *)
(* the order they were accepted, each at most once and within the session  *)
(* that accepted it.  A packet may be lost, never late.                    *)
(***************************************************************************)
EXTENDS Naturals, Sequences

CONSTANTS
    Data,       \* output packets
    Greeting,   \* the state report that every session starts with
    Capacity,   \* of send_fifo
    None        \* nothing sent yet

VARIABLES
    up,         \* a session runs
    pending,    \* accepted and not yet sent, oldest first
    wire        \* the packet sent last

vars == <<up, pending, wire>>

Init == up = FALSE /\ pending = <<>> /\ wire = None

Open == ~up /\ up' = TRUE /\ pending' = <<Greeting>> /\ UNCHANGED wire

Accept(d) ==
    /\ up /\ Len(pending) < Capacity
    /\ pending' = Append(pending, d)
    /\ UNCHANGED <<up, wire>>

Deliver ==
    /\ pending # <<>>
    /\ wire' = Head(pending) /\ pending' = Tail(pending)
    /\ UNCHANGED up

Lose == pending # <<>> /\ pending' = Tail(pending) /\ UNCHANGED <<up, wire>>

Close == up /\ up' = FALSE /\ pending' = <<>> /\ UNCHANGED wire

Next == Open \/ Deliver \/ Lose \/ Close \/ \E d \in Data : Accept(d)

Spec == Init /\ [][Next]_vars

=============================================================================
