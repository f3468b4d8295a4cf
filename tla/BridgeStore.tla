---------------------------- MODULE BridgeStore -----------------------------
(***************************************************************************)
(* The journal of the bridge settings (src/src/bridge_store.cpp) under the *)
(* runtime that owns the settings (src/src/bridge_runtime.cpp): two flash  *)
(* slots written in turn, the newer valid one being the record in force.   *)
(* A save is five steps that a power cut can separate.                     *)
(*                                                                         *)
(* A record with a wrong magic, length or checksum is Damaged, whatever    *)
(* else it holds; an erased slot is one.                                   *)
(***************************************************************************)
EXTENDS Naturals

CONSTANTS
    Payload,        \* settings: role, preference, the mapping profiles
    Default,        \* bridge_runtime_defaults
    NoPayload,      \* nothing stored
    Damaged,        \* contents of a slot that valid() rejects
    HalfRange,      \* half of the range of the generation (2^31)
    MayDecay        \* a slot may go bad at rest

Slot == {0, 1}
Generation == 0 .. 2 * HalfRange - 1
Record == [generation : Generation, payload : Payload]

ASSUME PayloadAssumption == Default \in Payload /\ NoPayload \notin Payload
ASSUME DamagedAssumption == Damaged \notin Record
ASSUME RangeAssumption == HalfRange \in Nat /\ HalfRange > 1
ASSUME DecayAssumption == MayDecay \in BOOLEAN

VARIABLES
    slot,           \* the two flash sectors
    stage,          \* where bridge_store_save is; "off" after a power cut
    target,         \* the slot it writes
    record,         \* what it writes
    settings,       \* the settings in RAM
    dirty,          \* they have changed since they were loaded or saved
    \* history
    promised,       \* what the last load gave or the last true save stored
    decayed         \* a slot went bad since the last boot

flashVars == <<slot, target, record>>
runtimeVars == <<settings, dirty>>
historyVars == <<promised, decayed>>
storeVars == <<stage, flashVars, runtimeVars, historyVars>>

-----------------------------------------------------------------------------
(* Pure parts of bridge_store.cpp.                                         *)

Valid(i) == slot[i] # Damaged

\* uint32_t: generation + 1, and the difference of two generations
Following(g) == IF g = 2 * HalfRange - 1 THEN 0 ELSE g + 1

Delta(b, a) == IF a <= b THEN b - a ELSE b + 2 * HalfRange - a

\* Mutant of Newer: compared without the wrap.
NewerPlain(b, a) == b > a

Newer(b, a) == Delta(b, a) # 0 /\ Delta(b, a) < HalfRange

\* Some slot is valid: latest() is not -1.
AnyValid == \E i \in Slot : Valid(i)

\* latest(), where it is not -1
Latest ==
    IF ~Valid(0) THEN 1
    ELSE IF Valid(1) /\ Newer(slot[1].generation, slot[0].generation) THEN 1 ELSE 0

\* What bridge_store_load gives.
Stored == IF AnyValid THEN slot[Latest].payload ELSE NoPayload

\* What bridge_runtime_init makes of it.
Loaded == IF AnyValid THEN Stored ELSE Default

\* The slot a save writes: never the one in force.
TargetSlot == IF AnyValid /\ Latest = 0 THEN 1 ELSE 0

NextRecord ==
    [generation |-> IF AnyValid THEN Following(slot[Latest].generation) ELSE 1,
     payload |-> settings]

-----------------------------------------------------------------------------
StoreInit ==
    /\ slot = [i \in Slot |-> Damaged]
    /\ stage = "idle" /\ target = 0 /\ record = Damaged
    /\ settings = Default /\ dirty = FALSE
    /\ promised = NoPayload /\ decayed = FALSE

\* bridge_runtime_set_role, _set_preference, _defaults, mapping set and reset
Change(p) ==
    /\ stage = "idle"
    /\ settings' = p /\ dirty' = TRUE
    /\ UNCHANGED <<stage, flashVars, historyVars>>

\* bridge_runtime_save and bridge_store_save, up to flash_safe_execute
BeginSave ==
    /\ stage = "idle"
    /\ stage' = "erase" /\ target' = TargetSlot /\ record' = NextRecord
    /\ UNCHANGED <<slot, runtimeVars, historyVars>>

\* flash_safe_execute cannot stop the other core: the save answers false.
Refused ==
    /\ stage = "erase"
    /\ stage' = "idle" /\ record' = Damaged
    /\ UNCHANGED <<slot, target, runtimeVars, historyVars>>

\* flash_range_erase
Erase ==
    /\ stage = "erase"
    /\ stage' = "program" /\ slot' = [slot EXCEPT ![target] = Damaged]
    /\ UNCHANGED <<target, record, runtimeVars, historyVars>>

\* flash_range_program, whole or not
Program ==
    /\ stage = "program"
    /\ stage' = "verify"
    /\ \E written \in {record, Damaged} : slot' = [slot EXCEPT ![target] = written]
    /\ UNCHANGED <<target, record, runtimeVars, historyVars>>

\* Mutant of Verified: the answer of flash_safe_execute is enough.
VerifiedBlindly == TRUE

\* valid(slot(index)) && memcmp(...) == 0
Verified == slot[target] = record

\* The end of bridge_store_save and of bridge_runtime_save
Verify ==
    /\ stage = "verify"
    /\ stage' = "idle" /\ record' = Damaged
    /\ IF Verified THEN dirty' = FALSE /\ promised' = record.payload
                   ELSE UNCHANGED <<dirty, promised>>
    /\ UNCHANGED <<slot, target, settings, decayed>>

PowerCut ==
    /\ stage # "off"
    /\ stage' = "off"
    /\ UNCHANGED <<flashVars, runtimeVars, historyVars>>

\* bridge_runtime_init after power is back
Boot ==
    /\ stage = "off"
    /\ stage' = "idle" /\ record' = Damaged
    /\ settings' = Loaded /\ dirty' = FALSE
    /\ promised' = Stored /\ decayed' = FALSE
    /\ UNCHANGED <<slot, target>>

\* Outside a write, a bit of a slot flips.  (The promise is then what is left.)
Decay(i) ==
    /\ MayDecay /\ stage = "idle" /\ Valid(i)
    /\ slot' = [slot EXCEPT ![i] = Damaged]
    /\ promised' = Stored' /\ decayed' = TRUE
    /\ UNCHANGED <<stage, target, record, runtimeVars>>

Save == BeginSave \/ Refused \/ Erase \/ Program \/ Verify

StoreNext ==
    \/ \E p \in Payload : Change(p)
    \/ Save \/ PowerCut \/ Boot
    \/ \E i \in Slot : Decay(i)

StoreSpec == StoreInit /\ [][StoreNext]_storeVars

-----------------------------------------------------------------------------
(* Properties.                                                             *)

\* The flash, the save under way, the settings and the history are typed.
StoreTypeOK ==
    /\ slot \in [Slot -> Record \cup {Damaged}]
    /\ stage \in {"idle", "erase", "program", "verify", "off"}
    /\ target \in Slot
    /\ record \in Record \cup {Damaged}
    /\ settings \in Payload /\ dirty \in BOOLEAN
    /\ promised \in Payload \cup {NoPayload} /\ decayed \in BOOLEAN

\* bridge_store_save never costs a record that was promised: at every moment,
\* also in the middle of an erase or a program, a load gives what the last
\* true save stored or what the last boot loaded.  Only the write in flight
\* may replace it, and it does so whole.
NothingLost ==
    \/ Stored = promised
    \/ stage \in {"verify", "off"} /\ record # Damaged /\ Stored = record.payload

\* Settings that `mapping get` reports clean (dirty = FALSE) are what the next
\* boot will load.
CleanIsSaved == stage = "idle" /\ ~dirty /\ ~decayed => settings = Loaded

\* No failure or power cut costs a record, or makes the runtime believe that one
\* is stored which is not.
RecordIsKept == StoreTypeOK /\ NothingLost /\ CleanIsSaved

\* However often the generation has wrapped, and whatever writes have failed,
\* two valid slots are one generation apart: the comparison in latest() never
\* meets a difference it cannot order.
OneApart ==
    Valid(0) /\ Valid(1) =>
        \/ slot[1].generation = Following(slot[0].generation)
        \/ slot[0].generation = Following(slot[1].generation)

-----------------------------------------------------------------------------
(* The journal implements a record that is saved atomically.               *)

Saving == stage \in {"erase", "program", "verify"}

Promise == INSTANCE AtomicRecord WITH
    stored <- Stored,
    pending <- IF Saving THEN record.payload ELSE NoPayload,
    taken <- stage = "verify" /\ Verified

\* Every behaviour of the two slots is one of a record that a save replaces at
\* one point or not at all (docs/PARITY.md:105-106), and that nothing but a slot
\* going bad at rest can cost.
SavesAtomically == Promise!Spec

=============================================================================
