-------------------------------- MODULE Axes --------------------------------
(***************************************************************************)
(* The position of a stick on its way from either controller to a host of  *)
(* any role: the integer codecs of bl616_bridge_protocol.c, in the widths  *)
(* of the source, and the calibrated decoder of ns2_input.cpp.             *)
(*                                                                         *)
(* A stick moves along one axis, a step at a time.  The axis of a DualSense*)
(* has 8 bits, its y grows downwards; that of a Switch 2 Pro has 12.       *)
(***************************************************************************)
EXTENDS Integers

\* The values of 12 bits
U12 == 0..4095

CONSTANT Centres    \* the centres that a calibration has learned
ASSUME AxesAssumption == Centres \subseteq U12

VARIABLES
    position,       \* of the stick, in 12 bits
    centre          \* center_lx, of the Switch 2 Pro

stickVars == <<position, centre>>

AXIS_DEADZONE == 48
AXIS_PHYSICAL_FULL_SCALE == 1600
CENTER_12BIT == 2048
INT16_MAX == 32767
INT16_MIN == -32768

\* A value as it is left in an int16_t
Int16(value) == ((value + 32768) % 65536) - 32768

-----------------------------------------------------------------------------
(* The codecs.                                                             *)

axis_from_u8(value) ==
    Int16(IF value >= 128 THEN ((value - 128) * 32767 + 63) \div 127
          ELSE -(((128 - value) * 32768 + 64) \div 128))

axis_to_u8(value) ==
    (IF value >= 0 THEN 128 + (value * 127 + 16383) \div 32767
     ELSE 128 - ((-value) * 128 + 16384) \div 32768) % 256

axis_from_u12(value) ==
    LET clamped == IF value > 4095 THEN 4095 ELSE value
    IN  Int16(IF clamped >= 2048 THEN ((clamped - 2048) * 32767 + 1023) \div 2047
              ELSE -(((2048 - clamped) * 32768 + 1024) \div 2048))

axis_to_u12(value) ==
    (IF value >= 0 THEN 2048 + (value * 2047 + 16383) \div 32767
     ELSE 2048 - ((-value) * 2048 + 16384) \div 32768) % 65536

\* Mutant of invert_axis: what an int16_t makes of -INT16_MIN.
invert_axis_plain(value) == Int16(-value)

invert_axis(value) ==
    IF value = INT16_MIN THEN INT16_MAX
    ELSE IF value = INT16_MAX THEN INT16_MIN ELSE Int16(-value)

trigger_from_u8(value) == (value * 257) % 65536
trigger_to_u8(value) == ((value + 128) \div 257) % 256

clamp12(value) == IF value < 0 THEN 0 ELSE IF value > 4095 THEN 4095 ELSE value

\* Mutant of normalize_axis_12bit: the dead zone is not taken off.
normalize_axis_12bit_jump(value, center) ==
    LET delta == value - center
        magnitude == IF delta < 0 THEN -delta ELSE delta
        target == IF delta < 0 THEN CENTER_12BIT ELSE 4095 - CENTER_12BIT
        scaled == (magnitude * target) \div AXIS_PHYSICAL_FULL_SCALE
    IN  IF magnitude <= AXIS_DEADZONE THEN CENTER_12BIT
        ELSE (IF delta < 0 THEN CENTER_12BIT - scaled ELSE CENTER_12BIT + scaled) % 65536

normalize_axis_12bit(value, center) ==
    LET delta == value - center
        magnitude == IF delta < 0 THEN -delta ELSE delta
        usable == AXIS_PHYSICAL_FULL_SCALE - AXIS_DEADZONE
        target == IF delta < 0 THEN CENTER_12BIT ELSE 4095 - CENTER_12BIT
        scaled == ((magnitude - AXIS_DEADZONE) * target + usable \div 2) \div usable
        kept == IF scaled > target THEN target ELSE scaled
    IN  IF magnitude <= AXIS_DEADZONE THEN CENTER_12BIT
        ELSE clamp12(IF delta < 0 THEN CENTER_12BIT - kept ELSE CENTER_12BIT + kept)

-----------------------------------------------------------------------------
(* The paths.                                                              *)

Controllers == {"ds5", "ns2pro"}
Axis == {"x", "y"}
StickRoles == {"xbox", "sony", "nintendo"}

\* What the controller sends for the position
Sent(controller) == IF controller = "ds5" THEN position \div 16 ELSE position

\* bl616_bridge_parse_ds5_usb_input, apply_axes with
\* bl616_bridge_state_from_ns2_snapshot: x grows to the right and y upwards
Decoded(controller, axis) ==
    IF controller = "ns2pro" THEN axis_from_u12(normalize_axis_12bit(Sent(controller), centre))
    ELSE IF axis = "y" THEN invert_axis(axis_from_u8(Sent(controller)))
    ELSE axis_from_u8(Sent(controller))

\* The encoders
Encoded(role, axis, value) ==
    CASE role = "xbox" -> value
      [] role = "sony" -> axis_to_u8(IF axis = "y" THEN invert_axis(value) ELSE value)
      [] role = "nintendo" -> axis_to_u12(value)

Shown(controller, role, axis) == Encoded(role, axis, Decoded(controller, axis))

\* Further to the right, or further down, is a larger number for whom
Grows(controller, role, axis) == axis = "x" \/ (controller = "ds5" <=> role = "sony")

SticksInit == position = 0 /\ centre \in Centres
Push == position < 4095 /\ position' = position + 1 /\ UNCHANGED centre
Pull == position > 0 /\ position' = position - 1 /\ UNCHANGED centre
SticksNext == Push \/ Pull

SticksSpec == SticksInit /\ [][SticksNext]_stickVars

-----------------------------------------------------------------------------
(* Safety.                                                                 *)

\* The least, the middle and the greatest of what a role has
Scale(role) ==
    CASE role = "xbox" -> <<INT16_MIN, 0, INT16_MAX>>
      [] role = "sony" -> <<0, 128, 255>>
      [] role = "nintendo" -> <<0, 2048, 4095>>

\* Types, and that no host is shown more than its scale has: "The 8-bit and
\* 12-bit codecs saturate both endpoints" (bl616_bridge_protocol.h:95).
SticksTypeOK ==
    /\ position \in U12 /\ centre \in Centres
    /\ \A controller \in Controllers, role \in StickRoles, axis \in Axis :
          Shown(controller, role, axis) \in Scale(role)[1]..Scale(role)[3]

\* The middle and the ends of a stick are shown as those of the host's scale.
KeepsEnds(controller, role, axis) ==
    LET end(low) == Scale(role)[IF low = Grows(controller, role, axis) THEN 1 ELSE 3]
        p == IF controller = "ds5" THEN Sent(controller) - 128 ELSE position - centre
    IN  /\ (IF controller = "ds5" THEN p = 0 ELSE p \in -48..48)
              => Shown(controller, role, axis) = Scale(role)[2]
        /\ (IF controller = "ds5" THEN p = -128 ELSE p <= -AXIS_PHYSICAL_FULL_SCALE)
              => Shown(controller, role, axis) = end(TRUE)
        /\ (IF controller = "ds5" THEN p = 127 ELSE p >= AXIS_PHYSICAL_FULL_SCALE)
              => Shown(controller, role, axis) = end(FALSE)

\* A stick that rests is shown at rest to every host, and one that is at its
\* end at the end of the host's scale: "Piecewise conversion keeps both
\* endpoints and the exact logical centre" (bl616_bridge_protocol.c:92).  A host
\* of the controller's own kind is shown what the controller sent: it makes no
\* difference whether its report is translated or native.
KeepsRestAndEnds ==
    /\ SticksTypeOK
    /\ \A controller \in Controllers, role \in StickRoles, axis \in Axis :
          KeepsEnds(controller, role, axis)
    /\ \A axis \in Axis :
          /\ Shown("ds5", "sony", axis) = Sent("ds5")
          /\ Shown("ns2pro", "nintendo", axis) = normalize_axis_12bit(position, centre)
    /\ trigger_to_u8(trigger_from_u8(Sent("ds5"))) = Sent("ds5")

\* A stick that is pushed on is never shown to come back, and never jumps: a
\* step of its own is a few steps of the host's at most.
Follows ==
    [][position' # position =>
          \A controller \in Controllers, role \in StickRoles, axis \in Axis :
              LET d == Shown(controller, role, axis)' - Shown(controller, role, axis)
                  forth == (position' > position) = Grows(controller, role, axis)
                  step == CASE role = "xbox" -> 288 [] role = "sony" -> 1 [] role = "nintendo" -> 18
              IN  IF forth THEN d \in 0..step ELSE d \in -step..0]_stickVars
=============================================================================
