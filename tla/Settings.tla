------------------------------ MODULE Settings ------------------------------
(***************************************************************************)
(* The three records of settings that survive a restart, and the commands  *)
(* that change and save them:                                              *)
(*   - the DualSense configuration (src/src/config.cpp), alone in the last *)
(*     flash sector, where the former firmware kept the NS2 record;        *)
(*   - the NS2 record with the saved controller (src/src/ns2/ns2_state.cpp)*)
(*     in a sector of its own;                                             *)
(*   - the bridge settings, of which AtomicRecord says what BridgeStore    *)
(*     is shown to implement.                                              *)
(* A save erases, programs and reads back; power can go between the three. *)
(* `settings save` and `settings reset` (src/src/main.cpp) save all three. *)
(***************************************************************************)

CONSTANTS
    Field,          \* fields of Config_body
    Value,          \* what config_valid lets stand
    OutOfRange,     \* what it does not
    FieldDefault,   \* config_default
    Target,         \* addresses of NS2 controllers
    NoTarget,       \* the empty address
    Option,         \* the other fields of the NS2 record
    OptionDefault,  \* ns2_config_reset_defaults
    Payload,        \* bridge settings
    NoPayload,      \* no bridge record in flash
    PayloadDefault, \* bridge_runtime_defaults
    Legacy,         \* NS2 records the former firmware may have left
    MayDamageHeader \* a fault of programming may spare the DS5 body only

Ds5Body == [Field -> Value]
Ns2Block == [target : Target \cup {NoTarget}, option : Option]

ASSUME FieldAssumption == OutOfRange \notin Value /\ FieldDefault \in Ds5Body
ASSUME Ns2Assumption ==
    NoTarget \notin Target /\ OptionDefault \in Option /\ Legacy \subseteq Ns2Block
ASSUME PayloadAssumption ==
    PayloadDefault \in Payload /\ NoPayload \notin Payload
ASSUME HeaderAssumption == MayDamageHeader \in BOOLEAN

VARIABLES
    on,             \* the firmware runs; FALSE without power
    ds5,            \* config.body in RAM
    ns2,            \* the NS2 record in RAM
    bridge,         \* the bridge settings in RAM
    flash,          \* what the two sectors hold
    stored,         \* the bridge record in flash (AtomicRecord)
    pending,        \* the bridge record being saved
    taken,          \* its save has taken effect
    job,            \* records the running command has still to save
    stage,          \* where the save of the next of them is
    strict,         \* the command stops at the first failure
    ok,             \* every save of the command so far was answered true
    \* history
    command,        \* records the command was to save
    told,           \* contents of the sector that a save answered true for
    wanted,         \* the controller the user last paired, or none if forgotten;
                    \* after a boot that follows harm, the one it found
    harmed,         \* the last NS2 save failed or was cut short
    orphaned        \* the only copy of the NS2 record was erased by a DS5 save

ramVars == <<ds5, ns2, bridge>>
bridgeVars == <<stored, pending, taken>>
jobVars == <<job, stage, strict, ok, command>>
historyVars == <<told, wanted, harmed, orphaned>>
vars == <<on, ramVars, flash, bridgeVars, jobVars, historyVars>>

Bridge == INSTANCE AtomicRecord WITH MayDecay <- FALSE

-----------------------------------------------------------------------------
AllRecords == {"bridge", "ds5", "ns2"}

(* Contents of a sector. A record with a wrong magic, version or checksum  *)
(* is one of the damaged ones; an erased sector is Blank.                  *)

Blank == [kind |-> "blank"]
Ds5Record(body, header) == [kind |-> "ds5", header |-> header, body |-> body]
Ns2Record(block) == [kind |-> "ns2", block |-> block]
\* The version alone is wrong: the checksum covers the body only.
BadVersion == [kind |-> "version"]

Content ==
    {Blank, BadVersion}
    \cup {Ds5Record(body, header) : body \in Ds5Body, header \in BOOLEAN}
    \cup {Ns2Record(block) : block \in Ns2Block}

\* Mutant of SectorOf: NS2 in the last sector too, as the former firmware.
SectorOfShared(record) == "last"

SectorOf(record) == IF record = "ds5" THEN "last" ELSE "own"

Ns2Defaults == [target |-> NoTarget, option |-> OptionDefault]

\* config_valid, field by field
Valid(raw) ==
    [f \in Field |-> IF raw[f] \in Value THEN raw[f] ELSE FieldDefault[f]]

\* What config_load would give.
Ds5Loaded ==
    LET held == flash[SectorOf("ds5")] IN
    IF held.kind = "ds5" /\ held.header THEN Valid(held.body) ELSE FieldDefault

\* ns2_config_load: a record of its own whose version alone is wrong is reset
\* without a look at the legacy one.
Ns2Loaded ==
    LET own == flash[SectorOf("ns2")]
        last == flash["last"]
    IN  IF own.kind = "ns2" THEN own.block
        ELSE IF own.kind # "version" /\ last.kind = "ns2" THEN last.block
        ELSE Ns2Defaults

BridgeLoaded == IF stored = NoPayload THEN PayloadDefault ELSE stored

-----------------------------------------------------------------------------
Init ==
    /\ on = FALSE
    /\ ds5 = FieldDefault /\ ns2 = Ns2Defaults /\ bridge = PayloadDefault
    /\ \E last \in {Blank} \cup {Ns2Record(block) : block \in Legacy} :
           flash = [last |-> last, own |-> Blank]
    /\ Bridge!Init
    /\ job = {} /\ stage = "call" /\ strict = FALSE /\ ok = TRUE /\ command = {}
    /\ told = [ds5 |-> Blank, ns2 |-> Blank]
    /\ wanted = Ns2Loaded.target
    /\ harmed = FALSE /\ orphaned = FALSE

\* main: config_load, bridge_runtime_init and ns2_config_load
Boot ==
    /\ ~on /\ on' = TRUE
    /\ ds5' = Ds5Loaded /\ ns2' = Ns2Loaded /\ bridge' = BridgeLoaded
    /\ wanted' = IF harmed THEN Ns2Loaded.target ELSE wanted
    /\ harmed' = FALSE
    /\ UNCHANGED <<flash, bridgeVars, jobVars, told, orphaned>>

\* The job, and with it the RAM, is gone. An NS2 save that had erased its
\* sector leaves it Blank or, from the middle of the programming, unreadable
\* all the same. (The RAM is set to the defaults here so that states without
\* power do not differ by it.)
PowerCut ==
    /\ on /\ on' = FALSE
    /\ ds5' = FieldDefault /\ ns2' = Ns2Defaults /\ bridge' = PayloadDefault
    /\ job' = {} /\ stage' = "call" /\ strict' = FALSE /\ ok' = TRUE /\ command' = {}
    /\ IF pending = NoPayload THEN UNCHANGED bridgeVars ELSE Bridge!End
    /\ harmed' = (harmed \/ "ns2" \in job)
    /\ UNCHANGED <<flash, told, wanted, orphaned>>

-----------------------------------------------------------------------------
(* Changes in RAM only.                                                    *)

Idle == on /\ job = {}

\* set_config: `ds5 set`, report F6 01, the host's volume control
SetConfig(raw) ==
    /\ Idle
    /\ ds5' = Valid(raw)
    /\ UNCHANGED <<on, ns2, bridge, flash, bridgeVars, jobVars, historyVars>>

\* the ns2_config_set_* of the manager's commands
SetOption(o) ==
    /\ Idle
    /\ ns2' = [ns2 EXCEPT !.option = o]
    /\ UNCHANGED <<on, ds5, bridge, flash, bridgeVars, jobVars, historyVars>>

\* bridge_runtime_set_role, _set_preference, mapping set and reset
SetBridge(p) ==
    /\ Idle
    /\ bridge' = p
    /\ UNCHANGED <<on, ds5, ns2, flash, bridgeVars, jobVars, historyVars>>

-----------------------------------------------------------------------------
(* Commands that save.                                                     *)

Start(records, stops) ==
    /\ Idle
    /\ job' = records /\ command' = records
    /\ stage' = "call" /\ strict' = stops /\ ok' = TRUE
    /\ UNCHANGED <<on, flash, bridgeVars, told, harmed, orphaned>>

\* `ds5 save` and report F6 02; `mapping save`; `settings save` of the NS2 role
SaveOne ==
    /\ \E record \in AllRecords : Start({record}, FALSE)
    /\ UNCHANGED <<ramVars, wanted>>

\* `settings save`
SaveAll == Start(AllRecords, FALSE) /\ UNCHANGED <<ramVars, wanted>>

\* Mutant of ResetNs2: the saved controller is not carried over.
ResetNs2All == Ns2Defaults

\* had_target ... ns2_config_set_saved_target
ResetNs2 == [Ns2Defaults EXCEPT !.target = ns2.target]

\* `settings reset`
Reset ==
    /\ Start(AllRecords, TRUE)
    /\ bridge' = PayloadDefault /\ ds5' = FieldDefault /\ ns2' = ResetNs2
    /\ UNCHANGED wanted

\* save_current_target_if_live
SaveTarget(t) ==
    /\ Start({"ns2"}, FALSE)
    /\ ns2' = [ns2 EXCEPT !.target = t] /\ wanted' = t
    /\ UNCHANGED <<ds5, bridge>>

\* ns2_ble_forget
Forget ==
    /\ Start({"ns2"}, FALSE)
    /\ ns2' = [ns2 EXCEPT !.target = NoTarget] /\ wanted' = NoTarget
    /\ UNCHANGED <<ds5, bridge>>

\* ns2_ble_set_auto_connect
SetAutoConnect(o) ==
    /\ Start({"ns2"}, FALSE)
    /\ ns2' = [ns2 EXCEPT !.option = o]
    /\ UNCHANGED <<ds5, bridge, wanted>>

-----------------------------------------------------------------------------
(* The save of the next record of the job: config_save, ns2_config_save.   *)

\* Both commands that save all save the bridge settings first, the NS2 last.
First == IF "bridge" \in job THEN "bridge" ELSE IF "ds5" \in job THEN "ds5" ELSE "ns2"

Saving(record, at) == on /\ record \in job /\ record = First /\ stage = at

\* Mutant of Answered: a failure is forgotten by the next save.
AnsweredLast(result) ==
    /\ ok' = result
    /\ job' = IF strict /\ ~result THEN {} ELSE job \ {First}
    /\ stage' = "call"
    /\ UNCHANGED <<strict, command>>

\* The save returns; `&&` leaves out those after the first that failed.
Answered(result) ==
    /\ ok' = (ok /\ result)
    /\ job' = IF strict /\ ~result THEN {} ELSE job \ {First}
    /\ stage' = "call"
    /\ UNCHANGED <<strict, command>>

\* flash_safe_execute fails: core 1 did not stop within 500 ms.
Refuse ==
    /\ \E record \in {"ds5", "ns2"} :
           /\ Saving(record, "call")
           /\ harmed' = (harmed \/ record = "ns2")
    /\ Answered(FALSE)
    /\ UNCHANGED <<on, ramVars, flash, bridgeVars, told, wanted, orphaned>>

Erase ==
    /\ \E record \in {"ds5", "ns2"} :
           /\ Saving(record, "call")
           /\ flash' = [flash EXCEPT ![SectorOf(record)] = Blank]
           /\ told' = [told EXCEPT ![record] = Blank]
           /\ orphaned' = (orphaned \/ ( /\ record = "ds5"
                                         /\ flash["last"].kind = "ns2"
                                         /\ flash["own"].kind # "ns2" ))
    /\ stage' = "program"
    /\ UNCHANGED <<on, ramVars, bridgeVars, job, strict, ok, command, wanted, harmed>>

\* What a programming of the DS5 page can leave.
Ds5Programmed ==
    {Ds5Record(ds5, TRUE), Blank}
    \cup (IF MayDamageHeader THEN {Ds5Record(ds5, FALSE)} ELSE {})

Program ==
    /\ stage' = "verify"
    /\ \/ /\ Saving("ds5", "program")
          /\ \E held \in Ds5Programmed : flash' = [flash EXCEPT ![SectorOf("ds5")] = held]
       \/ /\ Saving("ns2", "program")
          /\ \E held \in {Ns2Record(ns2), BadVersion, Blank} :
                 flash' = [flash EXCEPT ![SectorOf("ns2")] = held]
    /\ UNCHANGED <<on, ramVars, bridgeVars, job, strict, ok, command, historyVars>>

\* config_save compares the checksum of the body read back with that of the
\* body in RAM, and nothing of the header.
Ds5Verified == flash[SectorOf("ds5")].kind = "ds5" /\ flash[SectorOf("ds5")].body = ds5

\* ns2_config_save compares magic, version and checksum.
Ns2Verified == flash[SectorOf("ns2")].kind = "ns2"

Verify ==
    \/ /\ Saving("ds5", "verify")
       /\ Answered(Ds5Verified)
       /\ told' = [told EXCEPT !.ds5 = IF Ds5Verified THEN Ds5Record(ds5, TRUE) ELSE Blank]
       /\ UNCHANGED <<on, ramVars, flash, bridgeVars, wanted, harmed, orphaned>>
    \/ /\ Saving("ns2", "verify")
       /\ Answered(Ns2Verified)
       /\ told' = [told EXCEPT !.ns2 = IF Ns2Verified THEN Ns2Record(ns2) ELSE Blank]
       /\ harmed' = ~Ns2Verified
       /\ orphaned' = (orphaned /\ ~(Ns2Verified /\ ns2.target = wanted))
       /\ UNCHANGED <<on, ramVars, flash, bridgeVars, wanted>>

\* bridge_runtime_save, as AtomicRecord has it
SaveBridge ==
    \/ /\ Saving("bridge", "call")
       /\ Bridge!Begin(bridge) /\ stage' = "program"
       /\ UNCHANGED <<on, ramVars, flash, job, strict, ok, command, historyVars>>
    \/ /\ Saving("bridge", "program")
       /\ Bridge!Take
       /\ UNCHANGED <<on, ramVars, flash, jobVars, historyVars>>
    \/ /\ Saving("bridge", "program")
       /\ Answered(taken) /\ Bridge!End
       /\ UNCHANGED <<on, ramVars, flash, historyVars>>

-----------------------------------------------------------------------------
Next ==
    \/ Boot \/ PowerCut
    \/ \E raw \in [Field -> Value \cup {OutOfRange}] : SetConfig(raw)
    \/ \E o \in Option : SetOption(o) \/ SetAutoConnect(o)
    \/ \E p \in Payload : SetBridge(p)
    \/ SaveOne \/ SaveAll \/ Reset
    \/ \E t \in Target : SaveTarget(t)
    \/ Forget
    \/ Refuse \/ Erase \/ Program \/ Verify \/ SaveBridge

Spec == Init /\ [][Next]_vars

-----------------------------------------------------------------------------
(* Properties.                                                             *)

\* The records in RAM and flash and the job are typed; in RAM every field of
\* the DualSense configuration is in its range, whatever a command gave.
TypeOK ==
    /\ on \in BOOLEAN
    /\ ds5 \in Ds5Body /\ ns2 \in Ns2Block /\ bridge \in Payload
    /\ flash \in [{"last", "own"} -> Content]
    /\ stored \in Payload \cup {NoPayload} /\ pending \in Payload \cup {NoPayload}
    /\ taken \in BOOLEAN
    /\ job \subseteq AllRecords /\ command \subseteq AllRecords
    /\ stage \in {"call", "program", "verify"}
    /\ strict \in BOOLEAN /\ ok \in BOOLEAN
    /\ told \in [{"ds5", "ns2"} -> Content]
    /\ wanted \in Target \cup {NoTarget} /\ harmed \in BOOLEAN /\ orphaned \in BOOLEAN

\* A record that a save answered true for is what a boot loads until the next
\* save of the same record erases its sector: saves of the other records, and
\* power cuts in them, do not reach it (docs/PARITY.md:20, separate sectors).
SavedIsLoaded ==
    /\ told.ds5 # Blank => Ds5Loaded = told.ds5.body
    /\ told.ns2 # Blank => Ns2Loaded = told.ns2.block

\* What the next boot would make of a record, and what it is now
NextBoot(record) ==
    CASE record = "ds5" -> Ds5Loaded
      [] record = "ns2" -> Ns2Loaded
      [] record = "bridge" -> BridgeLoaded
InForce(record) ==
    CASE record = "ds5" -> ds5 [] record = "ns2" -> ns2 [] record = "bridge" -> bridge

\* A command that ends with the answer true ("saved":true) has stored all it
\* was to store: each of its records is loaded by the next boot as it is in RAM.
AnswerIsTrue ==
    [][ (job # {} /\ job' = {} /\ on' /\ ok') =>
            \A record \in command : NextBoot(record)' = InForce(record)' ]_vars

\* `settings reset` and restarts keep the paired controller, only pairing and
\* forgetting change it (docs/PARITY.md:90), except in a boot after an NS2 save
\* that failed or was cut short and over the loss of a record not yet migrated.
TargetKept == on /\ ~orphaned => ns2.target = wanted

=============================================================================
