------------------------------ MODULE Mapping ------------------------------
(***************************************************************************)
(* The buttons on their way from either controller to a host of any role:  *)
(* bl616_bridge_protocol.c and bl616_bridge_mapping.c of src/src/parity,   *)
(* the decoder of src/src/ns2/ns2_input.cpp, and bridge_runtime_report.    *)
(*                                                                         *)
(* A report is the set of its bits that are set, <<byte, mask>>.  A trigger*)
(* is pressed in full or not at all: its level is the bit <<byte, 255>>.   *)
(* The hat of a DualSense is the bit <<8, direction>>.  What is not a      *)
(* control, touch, motion and the vendor's bits, is Other of each report.  *)
(***************************************************************************)
EXTENDS Naturals, FiniteSets

CONSTANTS
    Rebound,        \* the buttons that the user binds, or binds others to
    MaxBindings,    \* how many of them at once
    MaxPressed      \* how many buttons are held at once

VARIABLES
    holder,         \* "ds5" or "ns2pro": the controller whose input is shown
    pressed, maps

buttonVars == <<holder, pressed, maps>>

Dpad == {"dpad_up", "dpad_down", "dpad_left", "dpad_right"}
Opposite == [dpad_up |-> "dpad_down", dpad_down |-> "dpad_up",
             dpad_left |-> "dpad_right", dpad_right |-> "dpad_left"]
Triggers == {"left_trigger", "right_trigger"}
Buttons ==
    Dpad \cup Triggers \cup {"south", "east", "west", "north", "left_shoulder", "right_shoulder", "back", "start", "left_stick", "right_stick", "guide",
    "touchpad", "mute", "capture", "left_paddle", "right_paddle", "left_function",
    "right_function", "c"}

ASSUME MappingAssumption ==
    Rebound \subseteq Buttons /\ MaxBindings \in Nat /\ MaxPressed \in Nat

Ds5Buttons == Buttons \ {"capture", "c"}
Ns2Buttons == Buttons \ {"touchpad", "mute", "left_function", "right_function"}
Profiles == {"ds5", "ns2pro"}
Roles == {"xbox", "sony", "nintendo"}

-----------------------------------------------------------------------------
(* The layouts.  DualSense, bl616_bridge_parse_ds5_usb_input.              *)

Ds5Parsed ==
    [west |-> <<8, 16>>, south |-> <<8, 32>>, east |-> <<8, 64>>, north |-> <<8, 128>>,
     left_shoulder |-> <<9, 1>>, right_shoulder |-> <<9, 2>>, left_trigger |-> <<9, 4>>,
     right_trigger |-> <<9, 8>>, back |-> <<9, 16>>, start |-> <<9, 32>>, left_stick |-> <<9, 64>>,
     right_stick |-> <<9, 128>>, guide |-> <<10, 1>>, touchpad |-> <<10, 2>>, mute |-> <<10, 4>>,
     left_function |-> <<10, 16>>, right_function |-> <<10, 32>>, left_paddle |-> <<10, 64>>,
     right_paddle |-> <<10, 128>>]

\* decode_ds5_dpad: the directions of the hat
HatParsed ==
    [dpad_up |-> {0, 1, 7}, dpad_right |-> {1, 2, 3}, dpad_down |-> {3, 4, 5}, dpad_left |-> {5, 6, 7}]

Ds5Level == [left_trigger |-> <<5, 255>>, right_trigger |-> <<6, 255>>]

\* The state that is made of a report: its buttons, and the triggers whose
\* level is not 0
ParseDs5(report) ==
    [buttons |-> {b \in DOMAIN Ds5Parsed : Ds5Parsed[b] \in report}
                     \cup {d \in Dpad : \E h \in HatParsed[d] : <<8, h>> \in report},
     levels |-> {t \in Triggers : Ds5Level[t] \in report}]

\* decode_fd2_buttons; <<5, 1>> is the lowest bit of the word.
Fd2Parsed ==
    [ButtonY |-> <<5, 1>>, ButtonX |-> <<5, 2>>, ButtonB |-> <<5, 4>>, ButtonA |-> <<5, 8>>,
     ButtonR |-> <<5, 64>>, ButtonZR |-> <<5, 128>>, ButtonMinus |-> <<6, 1>>, ButtonPlus |-> <<6, 2>>,
     ButtonRStick |-> <<6, 4>>, ButtonLStick |-> <<6, 8>>, ButtonHome |-> <<6, 16>>,
     ButtonCapture |-> <<6, 32>>, ButtonC |-> <<6, 64>>, ButtonDDown |-> <<7, 1>>,
     ButtonDUp |-> <<7, 2>>, ButtonDRight |-> <<7, 4>>, ButtonDLeft |-> <<7, 8>>,
     ButtonL |-> <<7, 64>>, ButtonZL |-> <<7, 128>>, ButtonGR |-> <<8, 1>>, ButtonGL |-> <<8, 2>>]

\* The numbers of ns2_input.cpp; what bl616_ns2_protocol.h makes of a number,
\* and bl616_bridge_state_from_ns2_snapshot of that
Ns2Number ==
    <<"ButtonB", "ButtonA", "ButtonY", "ButtonX", "ButtonR", "ButtonZR", "ButtonPlus", "ButtonRStick",
      "ButtonDDown", "ButtonDRight", "ButtonDLeft", "ButtonDUp", "ButtonL", "ButtonZL", "ButtonMinus",
      "ButtonLStick", "ButtonHome", "ButtonCapture", "ButtonGR", "ButtonGL", "ButtonC">>
Ns2Canonical ==
    <<"south", "east", "west", "north", "right_shoulder", "right_trigger", "start", "right_stick",
      "dpad_down", "dpad_right", "dpad_left", "dpad_up", "left_shoulder", "left_trigger", "back",
      "left_stick", "guide", "capture", "right_paddle", "left_paddle", "c">>

ParseNs2(report) ==
    LET down == {Ns2Canonical[i] : i \in {n \in 1..21 : Fd2Parsed[Ns2Number[n]] \in report}}
    IN  [buttons |-> down, levels |-> down \cap Triggers]

\* bl616_bridge_encode_ds5_input
Ds5Encoded ==
    [west |-> <<8, 16>>, south |-> <<8, 32>>, east |-> <<8, 64>>, north |-> <<8, 128>>,
     left_shoulder |-> <<9, 1>>, right_shoulder |-> <<9, 2>>, left_trigger |-> <<9, 4>>,
     right_trigger |-> <<9, 8>>, back |-> <<9, 16>>, start |-> <<9, 32>>, left_stick |-> <<9, 64>>,
     right_stick |-> <<9, 128>>, guide |-> <<10, 1>>, touchpad |-> <<10, 2>>, mute |-> <<10, 4>>,
     left_function |-> <<10, 16>>, right_function |-> <<10, 32>>, left_paddle |-> <<10, 64>>,
     right_paddle |-> <<10, 128>>]

\* Mutant of Uncancelled: the first of two opposite directions counts.
UncancelledFirst(down) ==
    down \ ((IF "dpad_up" \in down THEN {"dpad_down"} ELSE {})
             \cup (IF "dpad_left" \in down THEN {"dpad_right"} ELSE {}))

\* ds5_dpad: opposite directions cancel each other.
Uncancelled(down) ==
    down \ UNION {pair \in {{"dpad_up", "dpad_down"}, {"dpad_left", "dpad_right"}} : pair \subseteq down}

Hat(buttons) ==
    LET down == Uncancelled(buttons \cap Dpad)
    IN  CASE down = {"dpad_up"} -> 0
          [] down = {"dpad_up", "dpad_right"} -> 1
          [] down = {"dpad_right"} -> 2
          [] down = {"dpad_down", "dpad_right"} -> 3
          [] down = {"dpad_down"} -> 4
          [] down = {"dpad_down", "dpad_left"} -> 5
          [] down = {"dpad_left"} -> 6
          [] down = {"dpad_up", "dpad_left"} -> 7
          [] OTHER -> 8

Bits(table, buttons) == {table[b] : b \in buttons \cap DOMAIN table}

EncodeDs5(state) ==
    LET fallback == IF "capture" \in state.buttons THEN {"back"} ELSE {}
    IN  Bits(Ds5Encoded, state.buttons \cup state.levels \cup fallback)
            \cup {<<8, Hat(state.buttons)>>} \cup Bits(Ds5Level, state.levels)

\* bl616_bridge_encode_ns2pro_input
Ns2Encoded ==
    [west |-> <<5, 1>>, north |-> <<5, 2>>, south |-> <<5, 4>>, east |-> <<5, 8>>,
     right_shoulder |-> <<5, 64>>, right_trigger |-> <<5, 128>>, back |-> <<6, 1>>,
     start |-> <<6, 2>>, right_stick |-> <<6, 4>>, left_stick |-> <<6, 8>>, guide |-> <<6, 16>>,
     capture |-> <<6, 32>>, c |-> <<6, 64>>, dpad_down |-> <<7, 1>>, dpad_up |-> <<7, 2>>,
     dpad_right |-> <<7, 4>>, dpad_left |-> <<7, 8>>, left_shoulder |-> <<7, 64>>,
     left_trigger |-> <<7, 128>>, right_paddle |-> <<8, 1>>, left_paddle |-> <<8, 2>>]

EncodeNs2(state) ==
    LET fallback == IF "touchpad" \in state.buttons THEN {"capture"} ELSE {}
    IN  Bits(Ns2Encoded, state.buttons \cup state.levels \cup fallback)

\* bl616_bridge_encode_xinput
XboxEncoded ==
    [dpad_up |-> <<2, 1>>, dpad_down |-> <<2, 2>>, dpad_left |-> <<2, 4>>, dpad_right |-> <<2, 8>>,
     start |-> <<2, 16>>, back |-> <<2, 32>>, left_stick |-> <<2, 64>>, right_stick |-> <<2, 128>>,
     left_shoulder |-> <<3, 1>>, right_shoulder |-> <<3, 2>>, guide |-> <<3, 4>>,
     south |-> <<3, 16>>, east |-> <<3, 32>>, west |-> <<3, 64>>, north |-> <<3, 128>>]
XboxLevel == [left_trigger |-> <<4, 255>>, right_trigger |-> <<5, 255>>]

EncodeXbox(state) ==
    LET fallback == IF "capture" \in state.buttons THEN {"back"} ELSE {}
    IN  Bits(XboxEncoded, state.buttons \cup fallback) \cup Bits(XboxLevel, state.levels)

-----------------------------------------------------------------------------
(* What the controllers send, and what the hosts read.                     *)

\* Touch, motion and the vendor's bits, all of them set
Other ==
    [ds5 |-> {<<10, 8>>, <<28, 255>>, <<34, 1>>},
     ns2pro |-> {<<5, 16>>, <<5, 32>>, <<6, 128>>, <<7, 16>>, <<7, 32>>, <<8, 4>>, <<43, 255>>}]

\* The report of a controller, as it comes over the air
Native ==
    Other[holder] \cup
    IF holder = "ds5"
    THEN Bits(Ds5Parsed, pressed) \cup Bits(Ds5Level, pressed)
             \cup {<<8, CHOOSE h \in 0..8 : \A d \in Dpad : d \in pressed <=> h \in HatParsed[d]>>}
    ELSE {Fd2Parsed[Ns2Number[i]] : i \in {n \in 1..21 : Ns2Canonical[n] \in pressed}}

Xbox360Read ==
    [dpad_up |-> <<2, 1>>, dpad_down |-> <<2, 2>>, dpad_left |-> <<2, 4>>, dpad_right |-> <<2, 8>>,
     start |-> <<2, 16>>, back |-> <<2, 32>>, left_stick |-> <<2, 64>>, right_stick |-> <<2, 128>>,
     left_shoulder |-> <<3, 1>>, right_shoulder |-> <<3, 2>>, guide |-> <<3, 4>>,
     south |-> <<3, 16>>, east |-> <<3, 32>>, west |-> <<3, 64>>, north |-> <<3, 128>>]

ReadXbox(report) ==
    LET levels == {t \in Triggers : XboxLevel[t] \in report}
    IN  [buttons |-> {b \in DOMAIN Xbox360Read : Xbox360Read[b] \in report} \cup levels,
         levels |-> levels]

\* A host takes the bridge for the controller of its role.
Read(role, report) ==
    IF role = "xbox" THEN ReadXbox(report)
    ELSE IF role = "sony" THEN ParseDs5(report) ELSE ParseNs2(report)

-----------------------------------------------------------------------------
(* Bindings: the source of each target, or "none".                         *)

Identity == [b \in Buttons |-> b]

\* source_active, mapped_trigger
Active(state, source) == source \in state.buttons \cup state.levels
MappedTrigger(state, source) ==
    IF source \in Triggers THEN source \in state.levels ELSE Active(state, source)

\* bl616_bridge_mapping_apply
Apply(map, state) ==
    IF map = Identity THEN state
    ELSE [buttons |-> {t \in Buttons : Active(state, map[t])},
          levels |-> {t \in Triggers : MappedTrigger(state, map[t])}]

\* The bits that a patch leaves of the native report
KeptBit(role, bit) ==
    IF role = "sony"
    THEN bit[1] \notin {5, 6, 8, 9, 10} \/ bit = <<10, 8>>
    ELSE \/ bit[1] \notin {5, 6, 7, 8} \/ bit = <<6, 128>>
         \/ bit[1] \in {5, 7} /\ bit[2] \in {16, 32}
         \/ bit[1] = 8 /\ bit[2] \notin {1, 2}

\* bl616_bridge_mapping_patch_native_report
Patch(map, role, state, native) ==
    IF map = Identity THEN native
    ELSE LET mapped == Apply(map, state)
             encoded == IF role = "sony" THEN EncodeDs5(mapped) ELSE EncodeNs2(mapped)
         IN  {bit \in native : KeptBit(role, bit)} \cup {bit \in encoded : ~KeptBit(role, bit)}

\* Minus is the touchpad of a DualSense, as long as neither is bound.
Adapted(map, role, state) ==
    IF /\ holder = "ns2pro" /\ role = "sony"
       /\ map["back"] = "back" /\ map["touchpad"] = "touchpad"
    THEN [state EXCEPT !.buttons =
             (@ \ {"back"}) \cup IF "back" \in @ THEN {"touchpad"} ELSE {}]
    ELSE state

Encode(role, state) ==
    CASE role = "xbox" -> EncodeXbox(state)
      [] role = "sony" -> EncodeDs5(state)
      [] role = "nintendo" -> EncodeNs2(state)

\* mapping_for
MappingFor == maps[holder]

\* bridge_runtime_ds5, bridge_runtime_ns2 and bridge_runtime_report
ButtonReport(role, raw) ==
    LET state == IF holder = "ds5" THEN ParseDs5(Native) ELSE ParseNs2(Native)
    IN  IF \/ holder = "ds5" /\ role = "sony"
           \/ holder = "ns2pro" /\ role = "nintendo" /\ raw
        THEN Patch(MappingFor, role, state, Native)
        ELSE Encode(role, Adapted(MappingFor, role, Apply(MappingFor, state)))

-----------------------------------------------------------------------------
(* The user.                                                               *)

Physical(c) == IF c = "ds5" THEN Ds5Buttons ELSE Ns2Buttons

\* The cross of a DualSense does not take opposite directions.
Press(b) ==
    /\ b \in Physical(holder) \ pressed /\ Cardinality(pressed) < MaxPressed
    /\ holder = "ds5" /\ b \in Dpad => Opposite[b] \notin pressed
    /\ pressed' = pressed \cup {b} /\ UNCHANGED <<holder, maps>>

Release(b) ==
    /\ b \in pressed /\ pressed' = pressed \ {b} /\ UNCHANGED <<holder, maps>>

Change(c) ==
    /\ c # holder /\ holder' = c /\ pressed' = {} /\ UNCHANGED maps

Bindings == {pb \in Profiles \X Buttons : maps[pb[1]][pb[2]] # pb[2]}

\* mapping set; "active" is the profile of the controller that sends.
Set(profile, target, source) ==
    /\ <<profile, target>> \in Bindings \/ Cardinality(Bindings) < MaxBindings
    /\ maps' = [maps EXCEPT ![profile][target] = source] /\ UNCHANGED <<holder, pressed>>

\* mapping reset
Reset(profile) ==
    /\ maps' = [maps EXCEPT ![profile] = Identity] /\ UNCHANGED <<holder, pressed>>

ButtonsInit ==
    /\ holder \in Profiles /\ pressed = {} /\ maps = [p \in Profiles |-> Identity]

ButtonsNext ==
    \/ \E b \in Buttons : Press(b) \/ Release(b)
    \/ \E c \in Profiles : Change(c) \/ Reset(c)
    \/ \E p \in Profiles, t \in Rebound, s \in Rebound \cup {"none"} : Set(p, t, s)

ButtonsSpec == ButtonsInit /\ [][ButtonsNext]_buttonVars

-----------------------------------------------------------------------------
(* Safety.                                                                 *)

\* What a role has no control for
Lacks ==
    [xbox |-> {"touchpad", "mute", "capture", "c", "left_paddle", "right_paddle",
               "left_function", "right_function"},
     sony |-> {"capture", "c"},
     nintendo |-> {"touchpad", "mute", "left_function", "right_function"}]

\* What the comment at bl616_bridge_protocol.h:47 and the user's bindings say
\* of the buttons that are held
Promised(role) ==
    LET map == maps[holder]
        bound == {t \in Buttons : map[t] \in pressed}
        minus == /\ holder = "ns2pro" /\ role = "sony"
                 /\ map["back"] = "back" /\ map["touchpad"] = "touchpad"
        own == IF minus /\ "back" \in bound THEN (bound \ {"back"}) \cup {"touchpad"} ELSE bound
        all == own \cup (IF role # "nintendo" /\ "capture" \in own THEN {"back"} ELSE {})
                   \cup (IF role = "nintendo" /\ "touchpad" \in own THEN {"capture"} ELSE {})
        cross == IF role = "sony" THEN all \ {d \in Dpad \cap all : Opposite[d] \in all} ELSE all
    IN  [buttons |-> cross \ Lacks[role], levels |-> all \cap Triggers]

\* Types, and that the hat of a report has one direction.
ButtonsTypeOK ==
    /\ holder \in Profiles /\ pressed \subseteq Physical(holder)
    /\ maps \in [Profiles -> [Buttons -> Buttons \cup {"none"}]]
    /\ Cardinality({bit \in ButtonReport("sony", FALSE) : bit[1] = 8 /\ bit[2] < 9}) = 1

\* Every host reads what is bound to the buttons that are held, whatever the
\* controller and the role are, and whether the report was made of the decoded
\* state or patched into the native one.  What is bound for one controller has no
\* effect on the other: "Profiles follow the physical input source, never the
\* emulated USB role" (bl616_bridge_mapping.h:22).
\* Of a native report, "touch, motion, timestamps and vendor-specific bytes remain
\* byte-for-byte identical to the source report" (bl616_bridge_mapping.h:71).
ReadsBindings ==
    /\ ButtonsTypeOK
    /\ \A role \in Roles, raw \in BOOLEAN : Read(role, ButtonReport(role, raw)) = Promised(role)
    /\ holder = "ds5" => Other["ds5"] \subseteq ButtonReport("sony", TRUE)
    /\ holder = "ns2pro" => Other["ns2pro"] \subseteq ButtonReport("nintendo", TRUE)
=============================================================================
