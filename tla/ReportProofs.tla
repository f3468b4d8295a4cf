---------------------------- MODULE ReportProofs ----------------------------
(***************************************************************************)
(* What passes between the controller and the host: buttons and sticks     *)
(* on their way to the host (Mapping, Axes), vibration on its way back     *)
(* (Rumble).  None of the three shares state with another; each part of    *)
(* this module is about one of them, and its theorems are about the        *)
(* specification of that one.                                              *)
(***************************************************************************)
EXTENDS Mapping, Axes, Rumble, FiniteSetTheorems, TLAPS

-----------------------------------------------------------------------------
(***************************************************************************)
(* The buttons (Mapping).  A report is read back by its layout: no two     *)
(* controls share a bit, and the bits that a patch keeps are those of no   *)
(* control.  So what a host reads is what was put into its report; what    *)
(* was put there is what is bound to the buttons of the decoded state;     *)
(* and the decoder loses none of those that are held.                      *)
(***************************************************************************)

-----------------------------------------------------------------------------
(* The layouts.  What the proofs know of them: who has a control, that no  *)
(* two controls share a bit, and which bits a patch replaces.              *)

Injective(table) == \A a, b \in DOMAIN table : table[a] = table[b] => a = b

\* No two buttons of a DualSense share a bit; none is taken for the hat, nor for
\* a bit that a patch keeps.
LEMMA Ds5Layout ==
    /\ DOMAIN Ds5Parsed = Ds5Buttons \ Dpad /\ Injective(Ds5Parsed) /\ Ds5Encoded = Ds5Parsed
    /\ \A b \in DOMAIN Ds5Parsed :
          /\ Ds5Parsed[b][1] \in {8, 9, 10} /\ Ds5Parsed[b][2] \in Nat
          /\ Ds5Parsed[b][1] = 8 => Ds5Parsed[b][2] >= 16
          /\ Ds5Parsed[b] # <<10, 8>>
<1>1. DOMAIN Ds5Parsed = Ds5Buttons \ Dpad
  BY DEF Ds5Parsed, Ds5Buttons, Dpad, Buttons, Triggers
<1>2. Injective(Ds5Parsed)
  BY DEF Injective, Ds5Parsed
<1>3. Ds5Encoded = Ds5Parsed
  BY DEF Ds5Encoded, Ds5Parsed
<1>4. \A b \in DOMAIN Ds5Parsed :
          /\ Ds5Parsed[b][1] \in {8, 9, 10} /\ Ds5Parsed[b][2] \in Nat
          /\ Ds5Parsed[b][1] = 8 => Ds5Parsed[b][2] >= 16
          /\ Ds5Parsed[b] # <<10, 8>>
  BY DEF Ds5Parsed
<1> QED
  BY <1>1, <1>2, <1>3, <1>4

\* The triggers of a DualSense have bytes of their own.
LEMMA Ds5Levels ==
    /\ DOMAIN Ds5Level = Triggers /\ Injective(Ds5Level)
    /\ \A t \in Triggers : Ds5Level[t][1] \in {5, 6}
BY DEF Ds5Level, Injective, Triggers

\* A button of a Switch 2 Pro has one bit for the parser and for the encoder.
Agrees(number, b) == Fd2Parsed[number] = Ns2Encoded[b]

\* The parser and the encoder of a Switch 2 Pro know the same buttons, each with
\* a bit of its own that a patch replaces.
LEMMA Ns2Layout ==
    /\ DOMAIN Ns2Encoded = Ns2Buttons /\ Injective(Ns2Encoded)
    /\ \A b \in DOMAIN Ns2Encoded : ~KeptBit("nintendo", Ns2Encoded[b])
    /\ \A i \in 1..21 : /\ Ns2Canonical[i] \in Ns2Buttons
                        /\ Fd2Parsed[Ns2Number[i]] = Ns2Encoded[Ns2Canonical[i]]
    /\ \A b \in Ns2Buttons : \E i \in 1..21 : Ns2Canonical[i] = b
<1>1. DOMAIN Ns2Encoded = Ns2Buttons
  BY DEF Ns2Encoded, Ns2Buttons, Dpad, Buttons, Triggers
<1>2. Injective(Ns2Encoded)
  BY DEF Injective, Ns2Encoded
<1>3. \A b \in DOMAIN Ns2Encoded : ~KeptBit("nintendo", Ns2Encoded[b])
  BY DEF Ns2Encoded, KeptBit
<1>4. \A i \in 1..21 : Fd2Parsed[Ns2Number[i]] = Ns2Encoded[Ns2Canonical[i]]
  <2>1. /\ Agrees("ButtonB", "south") /\ Agrees("ButtonA", "east")
        /\ Agrees("ButtonY", "west") /\ Agrees("ButtonX", "north")
        /\ Agrees("ButtonR", "right_shoulder") /\ Agrees("ButtonZR", "right_trigger")
        /\ Agrees("ButtonPlus", "start") /\ Agrees("ButtonRStick", "right_stick")
        /\ Agrees("ButtonDDown", "dpad_down") /\ Agrees("ButtonDRight", "dpad_right")
        /\ Agrees("ButtonDLeft", "dpad_left") /\ Agrees("ButtonDUp", "dpad_up")
        /\ Agrees("ButtonL", "left_shoulder") /\ Agrees("ButtonZL", "left_trigger")
        /\ Agrees("ButtonMinus", "back") /\ Agrees("ButtonLStick", "left_stick")
        /\ Agrees("ButtonHome", "guide") /\ Agrees("ButtonCapture", "capture")
        /\ Agrees("ButtonGR", "right_paddle") /\ Agrees("ButtonGL", "left_paddle")
        /\ Agrees("ButtonC", "c")
    BY DEF Fd2Parsed, Ns2Encoded, Agrees
  <2>2. \A i \in 1..21 : Agrees(Ns2Number[i], Ns2Canonical[i])
    BY <2>1 DEF Ns2Number, Ns2Canonical
  <2> QED
    BY <2>2 DEF Agrees
<1>5. \A i \in 1..21 : Ns2Canonical[i] \in Ns2Buttons
  BY DEF Ns2Canonical, Ns2Buttons, Dpad, Buttons, Triggers
<1>6. \A b \in Ns2Buttons : \E i \in 1..21 : Ns2Canonical[i] = b
  BY DEF Ns2Canonical, Ns2Buttons, Dpad, Buttons, Triggers
<1> QED
  BY <1>1, <1>2, <1>3, <1>4, <1>5, <1>6

\* So do the encoder of an Xbox report and the host that reads it.
LEMMA XboxLayout ==
    /\ DOMAIN XboxEncoded = Buttons \ (Triggers \cup Lacks["xbox"]) /\ Injective(XboxEncoded)
    /\ Xbox360Read = XboxEncoded
    /\ \A b \in DOMAIN XboxEncoded : XboxEncoded[b][1] \in {2, 3}
    /\ DOMAIN XboxLevel = Triggers /\ Injective(XboxLevel)
    /\ \A t \in Triggers : XboxLevel[t][1] \in {4, 5}
<1>1. DOMAIN XboxEncoded = Buttons \ (Triggers \cup Lacks["xbox"])
  BY DEF XboxEncoded, Lacks, Dpad, Buttons, Triggers
<1>2. Injective(XboxEncoded)
  BY DEF Injective, XboxEncoded
<1>3. Xbox360Read = XboxEncoded /\ \A b \in DOMAIN XboxEncoded : XboxEncoded[b][1] \in {2, 3}
  BY DEF Xbox360Read, XboxEncoded
<1>4. /\ DOMAIN XboxLevel = Triggers /\ Injective(XboxLevel)
      /\ \A t \in Triggers : XboxLevel[t][1] \in {4, 5}
  BY DEF XboxLevel, Injective, Triggers
<1> QED
  BY <1>1, <1>2, <1>3, <1>4

\* The bit of a control is set when the control is in the set ...
LEMMA InBits ==
    ASSUME NEW table, Injective(table), NEW S, NEW b \in DOMAIN table
    PROVE  table[b] \in Bits(table, S) <=> b \in S
BY DEF Bits, Injective

\* ... and no other bit is.
LEMMA OfBits ==
    ASSUME NEW table, NEW S, NEW bit \in Bits(table, S)
    PROVE  \E b \in DOMAIN table : b \in S /\ bit = table[b]
BY DEF Bits

-----------------------------------------------------------------------------
(* What is read of a report, whatever else is in it.                       *)

\* A report of a DualSense: of X are the bits that a patch keeps
Ds5Report(X, S, L, h) == X \cup Bits(Ds5Parsed, S) \cup {<<8, h>>} \cup Bits(Ds5Level, L)

\* The state that it shows
Ds5State(S, L, h) ==
    [buttons |-> (S \cap DOMAIN Ds5Parsed) \cup {d \in Dpad : h \in HatParsed[d]},
     levels |-> L \cap Triggers]

\* What the hat of a report can be; the last is none of its directions.
Faces == 0..8

\* The directions of its hat
Hats(R) == {bit \in R : bit[1] = 8 /\ bit[2] < 9}

\* A patch replaces every control of a DualSense.
LEMMA Ds5Masks ==
    /\ \A b \in DOMAIN Ds5Parsed : ~KeptBit("sony", Ds5Parsed[b])
    /\ \A t \in Triggers : ~KeptBit("sony", Ds5Level[t])
    /\ \A h : ~KeptBit("sony", <<8, h>>)
BY Ds5Layout, Ds5Levels DEF KeptBit

\* What is read of a report of a DualSense is what was put there, whatever the
\* bits are that a patch keeps.
LEMMA Ds5Read ==
    ASSUME NEW X, \A bit \in X : KeptBit("sony", bit), NEW S, NEW L, NEW h \in Faces
    PROVE  /\ ParseDs5(Ds5Report(X, S, L, h)) = Ds5State(S, L, h)
           /\ Hats(Ds5Report(X, S, L, h)) = {<<8, h>>}
<1> DEFINE R == Ds5Report(X, S, L, h)
<1>1. \A b \in DOMAIN Ds5Parsed : Ds5Parsed[b] \in R <=> b \in S
  <2> SUFFICES ASSUME NEW b \in DOMAIN Ds5Parsed PROVE Ds5Parsed[b] \in R <=> b \in S
    OBVIOUS
  <2>1. Ds5Parsed[b] \notin X
    BY Ds5Masks
  <2>2. Ds5Parsed[b] # <<8, h>>
    BY Ds5Layout DEF Faces
  <2>3. Ds5Parsed[b] \notin Bits(Ds5Level, L)
    BY Ds5Layout, Ds5Levels, OfBits
  <2> QED
    BY <2>1, <2>2, <2>3, InBits, Ds5Layout DEF Ds5Report
<1>2. \A g \in Faces : <<8, g>> \in R <=> g = h
  <2> SUFFICES ASSUME NEW g \in Faces PROVE <<8, g>> \in R <=> g = h
    OBVIOUS
  <2>1. <<8, g>> \notin X
    BY Ds5Masks
  <2>2. <<8, g>> \notin Bits(Ds5Parsed, S)
    BY Ds5Layout, OfBits DEF Faces
  <2>3. <<8, g>> \notin Bits(Ds5Level, L)
    BY Ds5Levels, OfBits
  <2> QED
    BY <2>1, <2>2, <2>3 DEF Ds5Report
<1>3. \A t \in Triggers : Ds5Level[t] \in R <=> t \in L
  <2> SUFFICES ASSUME NEW t \in Triggers PROVE Ds5Level[t] \in R <=> t \in L
    OBVIOUS
  <2>1. Ds5Level[t] \notin X
    BY Ds5Masks
  <2>2. Ds5Level[t] # <<8, h>> /\ Ds5Level[t] \notin Bits(Ds5Parsed, S)
    BY Ds5Layout, Ds5Levels, OfBits
  <2> QED
    BY <2>1, <2>2, InBits, Ds5Levels DEF Ds5Report
<1>4. \A d \in Dpad : HatParsed[d] \subseteq Faces
  BY DEF Dpad, HatParsed, Faces
<1>5. Hats(R) = {<<8, h>>}
  <2>1. ASSUME NEW bit \in R, bit[1] = 8, bit[2] < 9 PROVE bit = <<8, h>>
    <3>1. bit \notin X
      BY <2>1 DEF KeptBit
    <3>2. bit \notin Bits(Ds5Parsed, S)
      BY <2>1, Ds5Layout, OfBits
    <3>3. bit \notin Bits(Ds5Level, L)
      BY <2>1, Ds5Levels, OfBits
    <3> QED
      BY <3>1, <3>2, <3>3 DEF Ds5Report
  <2>2. <<8, h>> \in R
    BY DEF Ds5Report
  <2> QED
    BY <2>1, <2>2 DEF Hats, Faces
<1> HIDE DEF R
<1>6. {b \in DOMAIN Ds5Parsed : Ds5Parsed[b] \in R} = S \cap DOMAIN Ds5Parsed
  BY <1>1
<1>7. {d \in Dpad : \E g \in HatParsed[d] : <<8, g>> \in R}
          = {d \in Dpad : h \in HatParsed[d]}
  BY <1>2, <1>4
<1>8. {t \in Triggers : Ds5Level[t] \in R} = L \cap Triggers
  BY <1>3
<1>9. ParseDs5(R) = Ds5State(S, L, h)
  BY <1>6, <1>7, <1>8 DEF ParseDs5, Ds5State
<1> QED
  BY <1>5, <1>9 DEF R

\* The same, of a Switch 2 Pro
LEMMA Ns2Read ==
    ASSUME NEW X, \A bit \in X : KeptBit("nintendo", bit), NEW S
    PROVE  ParseNs2(X \cup Bits(Ns2Encoded, S)) =
               [buttons |-> S \cap Ns2Buttons, levels |-> S \cap Triggers]
<1> DEFINE R == X \cup Bits(Ns2Encoded, S)
           down == {Ns2Canonical[i] : i \in {n \in 1..21 : Fd2Parsed[Ns2Number[n]] \in R}}
<1>1. \A b \in Ns2Buttons : Ns2Encoded[b] \in R <=> b \in S
  BY Ns2Layout, InBits
<1>2. \A b : b \in down <=> b \in Ns2Buttons /\ b \in S
  BY <1>1, Ns2Layout
<1>3. down = S \cap Ns2Buttons
  BY <1>2
<1>4. Triggers \subseteq Ns2Buttons
  BY DEF Triggers, Ns2Buttons, Buttons
<1>5. down \cap Triggers = S \cap Triggers
  BY <1>3, <1>4
<1> QED
  BY <1>3, <1>5 DEF ParseNs2

\* The same, of an Xbox report: there a trigger has its level only.
LEMMA XboxRead ==
    ASSUME NEW S, NEW L
    PROVE  ReadXbox(Bits(XboxEncoded, S) \cup Bits(XboxLevel, L)) =
               [buttons |-> (S \cap DOMAIN XboxEncoded) \cup (L \cap Triggers),
                levels |-> L \cap Triggers]
<1> DEFINE R == Bits(XboxEncoded, S) \cup Bits(XboxLevel, L)
<1>1. \A b \in DOMAIN XboxEncoded : XboxEncoded[b] \in R <=> b \in S
  <2> SUFFICES ASSUME NEW b \in DOMAIN XboxEncoded PROVE XboxEncoded[b] \in R <=> b \in S
    OBVIOUS
  <2>1. XboxEncoded[b] \notin Bits(XboxLevel, L)
    BY XboxLayout, OfBits
  <2> QED
    BY <2>1, InBits, XboxLayout
<1>2. \A t \in Triggers : XboxLevel[t] \in R <=> t \in L
  <2> SUFFICES ASSUME NEW t \in Triggers PROVE XboxLevel[t] \in R <=> t \in L
    OBVIOUS
  <2>1. XboxLevel[t] \notin Bits(XboxEncoded, S)
    BY XboxLayout, OfBits
  <2> QED
    BY <2>1, InBits, XboxLayout
<1> HIDE DEF R
<1>3. {b \in DOMAIN XboxEncoded : XboxEncoded[b] \in R} = S \cap DOMAIN XboxEncoded
  BY <1>1
<1>4. {t \in Triggers : XboxLevel[t] \in R} = L \cap Triggers
  BY <1>2
<1>5. ReadXbox(R) = [buttons |-> (S \cap DOMAIN XboxEncoded) \cup (L \cap Triggers),
                     levels |-> L \cap Triggers]
  BY <1>3, <1>4, XboxLayout DEF ReadXbox
<1> QED
  BY <1>5 DEF R

-----------------------------------------------------------------------------
(* The hat.                                                                *)

\* Directions have one opposite each, and are no triggers.
LEMMA Crosses ==
    /\ \A d \in Dpad : Opposite[d] \in Dpad /\ Opposite[Opposite[d]] = d /\ Opposite[d] # d
    /\ Dpad \subseteq Buttons /\ Triggers \subseteq Buttons /\ Dpad \cap Triggers = {}
BY DEF Dpad, Opposite, Triggers, Buttons

\* What is left of the cross when opposites cancel
LEMMA DpadUncancelled ==
    ASSUME NEW S
    PROVE  \A d : d \in Uncancelled(S \cap Dpad)
                      <=> d \in Dpad /\ d \in S /\ Opposite[d] \notin S
BY DEF Uncancelled, Dpad, Opposite

\* One direction of the hat for every set of directions without opposites
LEMMA HatOf ==
    ASSUME NEW D, D \subseteq Dpad, \A d \in D : Opposite[d] \notin D
    PROVE  \/ D = {} \/ \E d \in Dpad : D = {d}
           \/ D = {"dpad_up", "dpad_right"} \/ D = {"dpad_down", "dpad_right"}
           \/ D = {"dpad_down", "dpad_left"} \/ D = {"dpad_up", "dpad_left"}
<1>1. /\ \A d \in D : d \in {"dpad_up", "dpad_down", "dpad_left", "dpad_right"}
      /\ ~("dpad_up" \in D /\ "dpad_down" \in D) /\ ~("dpad_left" \in D /\ "dpad_right" \in D)
  BY DEF Dpad, Opposite
<1>2. CASE "dpad_up" \in D
  <2>1. D = {"dpad_up"} \/ D = {"dpad_up", "dpad_right"} \/ D = {"dpad_up", "dpad_left"}
    BY <1>1, <1>2
  <2> QED
    BY <2>1 DEF Dpad
<1>3. CASE "dpad_down" \in D
  <2>1. D = {"dpad_down"} \/ D = {"dpad_down", "dpad_right"} \/ D = {"dpad_down", "dpad_left"}
    BY <1>1, <1>3
  <2> QED
    BY <2>1 DEF Dpad
<1>4. CASE "dpad_up" \notin D /\ "dpad_down" \notin D
  <2>1. D = {} \/ D = {"dpad_right"} \/ D = {"dpad_left"}
    BY <1>1, <1>4
  <2> QED
    BY <2>1 DEF Dpad
<1> QED
  BY <1>2, <1>3, <1>4

\* The hat that Hat encodes is read as the directions that do not cancel.
LEMMA HatShows ==
    ASSUME NEW S
    PROVE  /\ Hat(S) \in Faces
           /\ \A d \in Dpad : Hat(S) \in HatParsed[d] <=> d \in S /\ Opposite[d] \notin S
<1> DEFINE D == Uncancelled(S \cap Dpad)
<1>1. D \subseteq Dpad /\ \A d \in D : Opposite[d] \notin D
  BY DpadUncancelled
<1> DEFINE Fits(h, cross) ==
               h \in Faces /\ \A d \in Dpad : h \in HatParsed[d] <=> d \in cross
<1>2. /\ Fits(0, {"dpad_up"}) /\ Fits(1, {"dpad_up", "dpad_right"}) /\ Fits(2, {"dpad_right"})
      /\ Fits(3, {"dpad_down", "dpad_right"}) /\ Fits(4, {"dpad_down"})
      /\ Fits(5, {"dpad_down", "dpad_left"}) /\ Fits(6, {"dpad_left"})
      /\ Fits(7, {"dpad_up", "dpad_left"}) /\ Fits(8, {})
  BY DEF HatParsed, Dpad, Faces
<1> HIDE DEF Fits
<1>3. Fits(Hat(S), D)
  <2>1. Hat(S) = CASE D = {"dpad_up"} -> 0
                   [] D = {"dpad_up", "dpad_right"} -> 1
                   [] D = {"dpad_right"} -> 2
                   [] D = {"dpad_down", "dpad_right"} -> 3
                   [] D = {"dpad_down"} -> 4
                   [] D = {"dpad_down", "dpad_left"} -> 5
                   [] D = {"dpad_left"} -> 6
                   [] D = {"dpad_up", "dpad_left"} -> 7
                   [] OTHER -> 8
    BY DEF Hat
  <2> HIDE DEF D
  <2>2. CASE D = {}
    BY <1>2, <2>1, <2>2
  <2>3. CASE \E d \in Dpad : D = {d}
    BY <1>2, <2>1, <2>3 DEF Dpad
  <2>4. CASE D = {"dpad_up", "dpad_right"}
    BY <1>2, <2>1, <2>4
  <2>5. CASE D = {"dpad_down", "dpad_right"}
    BY <1>2, <2>1, <2>5
  <2>6. CASE D = {"dpad_down", "dpad_left"}
    BY <1>2, <2>1, <2>6
  <2>7. CASE D = {"dpad_up", "dpad_left"}
    BY <1>2, <2>1, <2>7
  <2> QED
    BY <1>1, <2>2, <2>3, <2>4, <2>5, <2>6, <2>7, HatOf
<1> QED
  BY <1>3, DpadUncancelled DEF Fits

-----------------------------------------------------------------------------
(* The inductive invariant, and what it says of a native report.           *)

\* The cross of a DualSense does not take opposite directions.
ButtonsSound ==
    /\ holder \in Profiles /\ pressed \subseteq Physical(holder)
    /\ maps \in [Profiles -> [Buttons -> Buttons \cup {"none"}]]
    /\ holder = "ds5" => \A d \in Dpad : d \in pressed => Opposite[d] \notin pressed

\* What is no control of a native report is kept by a patch.
LEMMA OtherIsKept ==
    /\ \A bit \in Other["ds5"] : KeptBit("sony", bit)
    /\ \A bit \in Other["ns2pro"] : KeptBit("nintendo", bit)
BY DEF Other, KeptBit

\* The native report of a DualSense, in the form that is read back: its hat exists
\* for the directions that are held.
LEMMA Ds5Native ==
    ASSUME ButtonsSound, holder = "ds5"
    PROVE  \E h \in Faces :
              /\ Native = Ds5Report(Other["ds5"], pressed, pressed, h)
              /\ \A d \in Dpad : h \in HatParsed[d] <=> d \in pressed
<1> DEFINE Shows(h) == \A d \in Dpad : d \in pressed <=> h \in HatParsed[d]
           h == CHOOSE g \in Faces : Shows(g)
<1>1. \E g \in Faces : Shows(g)
  BY HatShows DEF ButtonsSound
<1>2. h \in Faces /\ Shows(h)
  BY <1>1
<1>3. Native = Ds5Report(Other["ds5"], pressed, pressed, h)
  BY DEF Native, Ds5Report, Faces
<1> QED
  BY <1>2, <1>3

\* The native report of a Switch 2 Pro is what the encoder would make of the
\* buttons, and the rest.
LEMMA Ns2Native ==
    ASSUME ButtonsSound, holder = "ns2pro"
    PROVE  Native = Other["ns2pro"] \cup Bits(Ns2Encoded, pressed)
<1>1. {Fd2Parsed[Ns2Number[i]] : i \in {n \in 1..21 : Ns2Canonical[n] \in pressed}}
          = Bits(Ns2Encoded, pressed)
  BY Ns2Layout DEF Bits
<1> QED
  BY <1>1 DEF Native

\* What is decoded of a native report are the buttons that are held.
Held == [buttons |-> pressed, levels |-> pressed \cap Triggers]

\* The decoder loses nothing of a native report.
LEMMA NativeRead ==
    ASSUME ButtonsSound
    PROVE  /\ holder = "ds5" => ParseDs5(Native) = Held
           /\ holder = "ns2pro" => ParseNs2(Native) = Held
<1>1. ASSUME holder = "ds5" PROVE ParseDs5(Native) = Held
  <2>1. PICK h \in Faces : /\ Native = Ds5Report(Other["ds5"], pressed, pressed, h)
                          /\ \A d \in Dpad : h \in HatParsed[d] <=> d \in pressed
    BY <1>1, Ds5Native
  <2>2. pressed \subseteq Ds5Buttons
    BY <1>1 DEF ButtonsSound, Physical
  <2>3. (pressed \cap DOMAIN Ds5Parsed) \cup {d \in Dpad : h \in HatParsed[d]} = pressed
    BY <2>1, <2>2, Ds5Layout
  <2>4. ParseDs5(Ds5Report(Other["ds5"], pressed, pressed, h)) = Ds5State(pressed, pressed, h)
    BY OtherIsKept, Ds5Read
  <2> QED
    BY <2>1, <2>3, <2>4 DEF Held, Ds5State
<1>2. ASSUME holder = "ns2pro" PROVE ParseNs2(Native) = Held
  <2>1. pressed \cap Ns2Buttons = pressed
    BY <1>2 DEF ButtonsSound, Physical
  <2> QED
    BY <1>2, <2>1, OtherIsKept, Ns2Native, Ns2Read DEF Held
<1> QED
  BY <1>1, <1>2

-----------------------------------------------------------------------------
(* The bindings.                                                           *)

Map == maps[holder]
Bound == {t \in Buttons : Map[t] \in pressed}

\* bl616_bridge_apply_mapping: a button is pressed when what is bound to it is,
\* also where the map is the identity and is skipped.
LEMMA Applied ==
    ASSUME ButtonsSound
    PROVE  Apply(Map, Held) = [buttons |-> Bound, levels |-> Bound \cap Triggers]
<1>1. pressed \subseteq Buttons /\ "none" \notin pressed
  BY DEF ButtonsSound, Physical, Ds5Buttons, Ns2Buttons, Dpad, Triggers, Buttons
<1>2. ASSUME Map = Identity
      PROVE  Apply(Map, Held) = [buttons |-> Bound, levels |-> Bound \cap Triggers]
  <2>1. Bound = pressed
    BY <1>1, <1>2 DEF Bound, Identity
  <2> QED
    BY <1>2, <2>1 DEF Apply, Held
<1>3. ASSUME Map # Identity
      PROVE  Apply(Map, Held) = [buttons |-> Bound, levels |-> Bound \cap Triggers]
  <2>1. \A source : Active(Held, source) <=> source \in pressed
    BY DEF Active, Held
  <2>2. \A source : MappedTrigger(Held, source) <=> source \in pressed
    BY <2>1 DEF MappedTrigger, Held
  <2>3. {t \in Buttons : Active(Held, Map[t])} = Bound
    BY <2>1 DEF Bound
  <2>4. {t \in Triggers : MappedTrigger(Held, Map[t])} = Bound \cap Triggers
    BY <2>2, Crosses DEF Bound
  <2> QED
    BY <1>3, <2>3, <2>4 DEF Apply
<1> QED
  BY <1>2, <1>3

\* Minus of a Switch 2 Pro, as Promised has it
Minus(role) ==
    /\ holder = "ns2pro" /\ role = "sony"
    /\ Map["back"] = "back" /\ Map["touchpad"] = "touchpad"
Own(role) ==
    IF Minus(role) /\ "back" \in Bound THEN (Bound \ {"back"}) \cup {"touchpad"} ELSE Bound

\* bridge_runtime_report presses the touchpad for Minus of a Switch 2 Pro.
LEMMA AdaptedIsOwn ==
    ASSUME ButtonsSound, NEW role
    PROVE  Adapted(Map, role, Apply(Map, Held)) =
               [buttons |-> Own(role), levels |-> Own(role) \cap Triggers]
<1>1. Apply(Map, Held) = [buttons |-> Bound, levels |-> Bound \cap Triggers]
  BY Applied
<1>2. Own(role) \cap Triggers = Bound \cap Triggers
  BY DEF Own, Triggers
<1>3. CASE Minus(role)
  <2>1. (Bound \ {"back"}) \cup (IF "back" \in Bound THEN {"touchpad"} ELSE {}) = Own(role)
    BY <1>3 DEF Own
  <2> QED
    BY <1>1, <1>2, <1>3, <2>1 DEF Adapted, Minus
<1>4. CASE ~Minus(role)
  BY <1>1, <1>2, <1>4 DEF Adapted, Minus, Own
<1> QED
  BY <1>3, <1>4

-----------------------------------------------------------------------------
(* What is read of what is encoded.                                        *)

\* What the encoders add for the buttons a role lacks
All(role, S) ==
    S \cup (IF role # "nintendo" /\ "capture" \in S THEN {"back"} ELSE {})
      \cup (IF role = "nintendo" /\ "touchpad" \in S THEN {"capture"} ELSE {})

\* What is seen of S in a report of the role
Seen(role, S) ==
    LET all == All(role, S)
        cross == IF role = "sony" THEN all \ {d \in Dpad \cap all : Opposite[d] \in all} ELSE all
    IN  [buttons |-> cross \ Lacks[role], levels |-> all \cap Triggers]

\* The promise to a role, in these terms
LEMMA PromisedIsSeen == \A role : Promised(role) = Seen(role, Own(role))
BY DEF Promised, Seen, All, Own, Minus, Bound, Map

\* What is encoded for a PlayStation host
LEMMA Ds5EncodedIs ==
    ASSUME NEW S
    PROVE  EncodeDs5([buttons |-> S, levels |-> S \cap Triggers])
               = Ds5Report({}, All("sony", S), S \cap Triggers, Hat(S))
<1>1. S \cup (S \cap Triggers) \cup (IF "capture" \in S THEN {"back"} ELSE {}) = All("sony", S)
  BY DEF All
<1>2. EncodeDs5([buttons |-> S, levels |-> S \cap Triggers]) =
          Bits(Ds5Encoded, S \cup (S \cap Triggers) \cup (IF "capture" \in S THEN {"back"} ELSE {}))
              \cup {<<8, Hat(S)>>} \cup Bits(Ds5Level, S \cap Triggers)
  BY DEF EncodeDs5
<1> QED
  BY <1>1, <1>2, Ds5Layout DEF Ds5Report

\* What is encoded for a Switch
LEMMA Ns2EncodedIs ==
    ASSUME NEW S
    PROVE  EncodeNs2([buttons |-> S, levels |-> S \cap Triggers])
               = Bits(Ns2Encoded, All("nintendo", S))
<1>1. S \cup (S \cap Triggers) \cup (IF "touchpad" \in S THEN {"capture"} ELSE {})
          = All("nintendo", S)
  BY DEF All
<1> QED
  BY <1>1 DEF EncodeNs2

\* What is encoded for an Xbox host
LEMMA XboxEncodedIs ==
    ASSUME NEW S
    PROVE  EncodeXbox([buttons |-> S, levels |-> S \cap Triggers])
               = Bits(XboxEncoded, All("xbox", S)) \cup Bits(XboxLevel, S \cap Triggers)
<1>1. S \cup (IF "capture" \in S THEN {"back"} ELSE {}) = All("xbox", S)
  BY DEF All
<1> QED
  BY <1>1 DEF EncodeXbox

\* X is what a patch keeps of the native report, or nothing.
LEMMA SeenBySony ==
    ASSUME NEW X, \A bit \in X : KeptBit("sony", bit), NEW S, S \subseteq Buttons
    PROVE  /\ ParseDs5(Ds5Report(X, All("sony", S), S \cap Triggers, Hat(S))) = Seen("sony", S)
           /\ Hats(Ds5Report(X, All("sony", S), S \cap Triggers, Hat(S))) = {<<8, Hat(S)>>}
<1> DEFINE all == All("sony", S)
           down == (all \cap DOMAIN Ds5Parsed) \cup {d \in Dpad : Hat(S) \in HatParsed[d]}
<1>1. all \subseteq Buttons /\ all \cap Triggers = S \cap Triggers /\ all \cap Dpad = S \cap Dpad
  BY DEF All, Buttons, Triggers, Dpad
<1>2. Lacks["sony"] = {"capture", "c"}
  BY DEF Lacks
<1>3. down = (all \ {d \in Dpad \cap all : Opposite[d] \in all}) \ Lacks["sony"]
  <2> HIDE DEF all
  <2>1. {d \in Dpad : Hat(S) \in HatParsed[d]} = {d \in Dpad : d \in S /\ Opposite[d] \notin S}
    BY HatShows
  <2>2. {d \in Dpad : d \in S /\ Opposite[d] \notin S}
            = {d \in Dpad : d \in all /\ Opposite[d] \notin all}
    BY <1>1, Crosses
  <2>3. DOMAIN Ds5Parsed = (Buttons \ {"capture", "c"}) \ Dpad
    BY Ds5Layout DEF Ds5Buttons
  <2>4. Dpad \subseteq Buttons \ {"capture", "c"}
    BY DEF Dpad, Buttons
  <2> QED
    BY <1>1, <1>2, <2>1, <2>2, <2>3, <2>4
<1>4. Seen("sony", S) = Ds5State(all, S \cap Triggers, Hat(S))
  BY <1>1, <1>3 DEF Seen, Ds5State
<1>5. Hat(S) \in Faces
  BY HatShows
<1> QED
  BY <1>4, <1>5, Ds5Read

\* The same, of a Switch
LEMMA SeenByNintendo ==
    ASSUME NEW X, \A bit \in X : KeptBit("nintendo", bit), NEW S, S \subseteq Buttons
    PROVE  ParseNs2(X \cup Bits(Ns2Encoded, All("nintendo", S))) = Seen("nintendo", S)
<1> DEFINE all == All("nintendo", S)
<1>1. all \subseteq Buttons
  BY DEF All, Buttons
<1>2. all \cap Ns2Buttons = all \ Lacks["nintendo"]
  BY <1>1 DEF Ns2Buttons, Lacks
<1> QED
  BY <1>2, Ns2Read DEF Seen

\* The same, of an Xbox host, which no report is patched for
LEMMA SeenByXbox ==
    ASSUME NEW S, S \subseteq Buttons
    PROVE  ReadXbox(Bits(XboxEncoded, All("xbox", S)) \cup Bits(XboxLevel, S \cap Triggers))
               = Seen("xbox", S)
<1> DEFINE all == All("xbox", S)
<1>1. all \subseteq Buttons /\ all \cap Triggers = S \cap Triggers
  BY DEF All, Buttons, Triggers
<1>2. Lacks["xbox"] \cap Triggers = {}
  BY DEF Lacks, Triggers
<1>3. (all \cap DOMAIN XboxEncoded) \cup ((S \cap Triggers) \cap Triggers) = all \ Lacks["xbox"]
  BY <1>1, <1>2, XboxLayout
<1>4. Seen("xbox", S) =
          [buttons |-> all \ Lacks["xbox"], levels |-> (S \cap Triggers) \cap Triggers]
  BY <1>1 DEF Seen
<1> QED
  BY <1>3, <1>4, XboxRead

-----------------------------------------------------------------------------
(* The reports.                                                            *)

\* With bindings, a patched report is an encoded one in what is kept of the
\* native; without, it is the native one.
LEMMA PatchedSony ==
    ASSUME ButtonsSound, holder = "ds5"
    PROVE  \E X : /\ \A bit \in X : KeptBit("sony", bit)
                  /\ Other["ds5"] \subseteq X
                  /\ \/ /\ Map = Identity
                        /\ Patch(Map, "sony", Held, Native) = Native
                     \/ Patch(Map, "sony", Held, Native) =
                            Ds5Report(X, All("sony", Bound), Bound \cap Triggers, Hat(Bound))
<1> DEFINE X == {bit \in Native : KeptBit("sony", bit)}
           E == Ds5Report({}, All("sony", Bound), Bound \cap Triggers, Hat(Bound))
<1>1. Other["ds5"] \subseteq X
  BY OtherIsKept DEF Native
<1>2. Map # Identity =>
          Patch(Map, "sony", Held, Native) = X \cup {bit \in E : ~KeptBit("sony", bit)}
  BY Applied, Ds5EncodedIs DEF Patch
<1>3. \A bit \in E : ~KeptBit("sony", bit)
  BY Ds5Masks, OfBits, Ds5Levels DEF Ds5Report
<1>4. X \cup {bit \in E : ~KeptBit("sony", bit)}
          = Ds5Report(X, All("sony", Bound), Bound \cap Triggers, Hat(Bound))
  BY <1>3 DEF Ds5Report
<1> QED
  BY <1>1, <1>2, <1>4 DEF Patch

\* The same, of a Switch 2 Pro
LEMMA PatchedNintendo ==
    ASSUME ButtonsSound, holder = "ns2pro"
    PROVE  \E X : /\ \A bit \in X : KeptBit("nintendo", bit)
                  /\ Other["ns2pro"] \subseteq X
                  /\ \/ /\ Map = Identity
                        /\ Patch(Map, "nintendo", Held, Native) = Native
                     \/ Patch(Map, "nintendo", Held, Native) =
                            X \cup Bits(Ns2Encoded, All("nintendo", Bound))
<1> DEFINE X == {bit \in Native : KeptBit("nintendo", bit)}
           E == Bits(Ns2Encoded, All("nintendo", Bound))
<1>1. Other["ns2pro"] \subseteq X
  BY OtherIsKept DEF Native
<1>2. Map # Identity =>
          Patch(Map, "nintendo", Held, Native) = X \cup {bit \in E : ~KeptBit("nintendo", bit)}
  BY Applied, Ns2EncodedIs DEF Patch
<1>3. \A bit \in E : ~KeptBit("nintendo", bit)
  BY Ns2Layout, OfBits
<1>4. X \cup {bit \in E : ~KeptBit("nintendo", bit)} = X \cup E
  BY <1>3
<1> QED
  BY <1>1, <1>2, <1>4 DEF Patch

\* A report that is native is patched.
IsNative(role, raw) ==
    \/ holder = "ds5" /\ role = "sony"
    \/ holder = "ns2pro" /\ role = "nintendo" /\ raw

\* Every report is a patched native one, or encoded of what is bound.
LEMMA ButtonReportIs ==
    ASSUME ButtonsSound, NEW role \in Roles, NEW raw \in BOOLEAN
    PROVE  ButtonReport(role, raw) =
               IF IsNative(role, raw) THEN Patch(Map, role, Held, Native)
               ELSE Encode(role, [buttons |-> Own(role), levels |-> Own(role) \cap Triggers])
<1>1. (IF holder = "ds5" THEN ParseDs5(Native) ELSE ParseNs2(Native)) = Held
  BY NativeRead DEF ButtonsSound, Profiles
<1>2. MappingFor = Map
  BY DEF MappingFor, Map
<1>3. Adapted(Map, role, Apply(Map, Held))
          = [buttons |-> Own(role), levels |-> Own(role) \cap Triggers]
  BY AdaptedIsOwn
<1>4. CASE IsNative(role, raw)
  BY <1>1, <1>2, <1>4 DEF ButtonReport, IsNative
<1>5. CASE ~IsNative(role, raw)
  BY <1>1, <1>2, <1>3, <1>5 DEF ButtonReport, IsNative
<1> QED
  BY <1>4, <1>5

\* Without bindings, a native report shows what was promised.
LEMMA NativeIsSeen ==
    ASSUME ButtonsSound, Map = Identity
    PROVE  /\ Bound = pressed
           /\ holder = "ds5" => Seen("sony", pressed) = Held
           /\ holder = "ns2pro" => Seen("nintendo", pressed) = Held
<1>1. pressed \subseteq Buttons
  BY DEF ButtonsSound, Physical, Ds5Buttons, Ns2Buttons, Dpad, Triggers, Buttons
<1>2. Bound = pressed
  BY <1>1 DEF Bound, Identity
<1>3. ASSUME holder = "ds5" PROVE Seen("sony", pressed) = Held
  <2>1. pressed \subseteq Ds5Buttons
    BY <1>3 DEF ButtonsSound, Physical
  <2>2. All("sony", pressed) = pressed
    BY <2>1 DEF All, Ds5Buttons
  <2>3. {d \in Dpad \cap pressed : Opposite[d] \in pressed} = {}
    BY <1>3 DEF ButtonsSound
  <2>4. (pressed \ {}) \ Lacks["sony"] = pressed
    BY <2>1 DEF Lacks, Ds5Buttons
  <2> QED
    BY <2>2, <2>3, <2>4 DEF Seen, Held
<1>4. ASSUME holder = "ns2pro" PROVE Seen("nintendo", pressed) = Held
  <2>1. pressed \subseteq Ns2Buttons
    BY <1>4 DEF ButtonsSound, Physical
  <2>2. All("nintendo", pressed) = pressed
    BY <2>1 DEF All, Ns2Buttons
  <2>3. pressed \ Lacks["nintendo"] = pressed
    BY <2>1 DEF Lacks, Ns2Buttons
  <2> QED
    BY <2>2, <2>3 DEF Seen, Held
<1> QED
  BY <1>2, <1>3, <1>4

\* Minus is changed for hosts of the other kind only.
LEMMA OwnButtons ==
    ASSUME NEW role
    PROVE  /\ Own(role) \subseteq Buttons
           /\ (holder = "ds5" \/ role # "sony") => Own(role) = Bound
BY DEF Own, Minus, Bound, Buttons

\* A DualSense to a PlayStation host: all that was promised, one hat, and what is
\* no control untouched
LEMMA Ds5Sony ==
    ASSUME ButtonsSound, holder = "ds5"
    PROVE  LET report == Patch(Map, "sony", Held, Native)
           IN  /\ ParseDs5(report) = Seen("sony", Bound)
               /\ \E h \in Faces : Hats(report) = {<<8, h>>}
               /\ Other["ds5"] \subseteq report
<1> DEFINE report == Patch(Map, "sony", Held, Native)
<1>1. PICK X : /\ \A bit \in X : KeptBit("sony", bit)
               /\ Other["ds5"] \subseteq X
               /\ \/ Map = Identity /\ report = Native
                  \/ report = Ds5Report(X, All("sony", Bound), Bound \cap Triggers, Hat(Bound))
  BY PatchedSony
<1>2. CASE Map = Identity /\ report = Native
  <2>1. ParseDs5(report) = Seen("sony", Bound)
    BY <1>2, NativeIsSeen, NativeRead
  <2>2. PICK h \in Faces : Native = Ds5Report(Other["ds5"], pressed, pressed, h)
    BY Ds5Native
  <2>3. Hats(Native) = {<<8, h>>}
    BY <2>2, OtherIsKept, Ds5Read
  <2>4. Other["ds5"] \subseteq Native
    BY DEF Native
  <2> QED
    BY <1>2, <2>1, <2>3, <2>4
<1>3. CASE report = Ds5Report(X, All("sony", Bound), Bound \cap Triggers, Hat(Bound))
  <2>1. Bound \subseteq Buttons
    BY DEF Bound
  <2>2. ParseDs5(report) = Seen("sony", Bound) /\ Hats(report) = {<<8, Hat(Bound)>>}
    BY <1>1, <1>3, <2>1, SeenBySony
  <2>3. Hat(Bound) \in Faces
    BY HatShows
  <2>4. Other["ds5"] \subseteq report
    BY <1>1, <1>3 DEF Ds5Report
  <2> QED
    BY <2>2, <2>3, <2>4
<1> QED
  BY <1>1, <1>2, <1>3

\* A Switch 2 Pro to a Switch: all that was promised, and what is no control
\* untouched
LEMMA Ns2Nintendo ==
    ASSUME ButtonsSound, holder = "ns2pro"
    PROVE  LET report == Patch(Map, "nintendo", Held, Native)
           IN  ParseNs2(report) = Seen("nintendo", Bound) /\ Other["ns2pro"] \subseteq report
<1> DEFINE report == Patch(Map, "nintendo", Held, Native)
<1>1. PICK X : /\ \A bit \in X : KeptBit("nintendo", bit)
               /\ Other["ns2pro"] \subseteq X
               /\ \/ Map = Identity /\ report = Native
                  \/ report = X \cup Bits(Ns2Encoded, All("nintendo", Bound))
  BY PatchedNintendo
<1>2. CASE Map = Identity /\ report = Native
  <2>1. ParseNs2(report) = Seen("nintendo", Bound)
    BY <1>2, NativeIsSeen, NativeRead
  <2>2. Other["ns2pro"] \subseteq Native
    BY DEF Native
  <2> QED
    BY <1>2, <2>1, <2>2
<1>3. CASE report = X \cup Bits(Ns2Encoded, All("nintendo", Bound))
  <2>1. Bound \subseteq Buttons
    BY DEF Bound
  <2>2. ParseNs2(report) = Seen("nintendo", Bound)
    BY <1>1, <1>3, <2>1, SeenByNintendo
  <2> QED
    BY <1>1, <1>3, <2>2
<1> QED
  BY <1>1, <1>2, <1>3

\* An encoded report of a PlayStation role: all that was promised, and one hat
LEMMA EncodedSony ==
    ASSUME NEW S, S \subseteq Buttons
    PROVE  LET report == EncodeDs5([buttons |-> S, levels |-> S \cap Triggers])
           IN  /\ ParseDs5(report) = Seen("sony", S)
               /\ \E h \in Faces : Hats(report) = {<<8, h>>}
<1>1. \A bit \in {} : KeptBit("sony", bit)
  OBVIOUS
<1>2. Hat(S) \in Faces
  BY HatShows
<1>3. EncodeDs5([buttons |-> S, levels |-> S \cap Triggers])
          = Ds5Report({}, All("sony", S), S \cap Triggers, Hat(S))
  BY Ds5EncodedIs
<1>4. LET report == Ds5Report({}, All("sony", S), S \cap Triggers, Hat(S))
      IN  ParseDs5(report) = Seen("sony", S) /\ Hats(report) = {<<8, Hat(S)>>}
  BY <1>1, SeenBySony
<1> QED
  BY <1>2, <1>3, <1>4

\* An encoded report of any role shows all that was promised.
LEMMA EncodedRead ==
    ASSUME NEW role \in Roles, NEW S, S \subseteq Buttons
    PROVE  Read(role, Encode(role, [buttons |-> S, levels |-> S \cap Triggers])) = Seen(role, S)
<1>1. CASE role = "xbox"
  BY <1>1, SeenByXbox, XboxEncodedIs DEF Read, Encode
<1>2. CASE role = "sony"
  BY <1>2, EncodedSony DEF Read, Encode
<1>3. CASE role = "nintendo"
  <2>1. \A bit \in {} : KeptBit("nintendo", bit)
    OBVIOUS
  <2>2. ParseNs2({} \cup Bits(Ns2Encoded, All("nintendo", S))) = Seen("nintendo", S)
    BY <2>1, SeenByNintendo
  <2>3. {} \cup Bits(Ns2Encoded, All("nintendo", S)) = Bits(Ns2Encoded, All("nintendo", S))
    OBVIOUS
  <2> QED
    BY <1>3, <2>2, <2>3, Ns2EncodedIs DEF Read, Encode
<1> QED
  BY <1>1, <1>2, <1>3 DEF Roles

\* Every report of every role does.
LEMMA ReadsOwn ==
    ASSUME ButtonsSound, NEW role \in Roles, NEW raw \in BOOLEAN
    PROVE  Read(role, ButtonReport(role, raw)) = Seen(role, Own(role))
<1>1. CASE holder = "ds5" /\ role = "sony"
  <2>1. ButtonReport(role, raw) = Patch(Map, "sony", Held, Native)
    BY <1>1, ButtonReportIs DEF IsNative
  <2> QED
    BY <1>1, <2>1, Ds5Sony, OwnButtons DEF Read
<1>2. CASE holder = "ns2pro" /\ role = "nintendo" /\ raw
  <2>1. ButtonReport(role, raw) = Patch(Map, "nintendo", Held, Native)
    BY <1>2, ButtonReportIs DEF IsNative
  <2> QED
    BY <1>2, <2>1, Ns2Nintendo, OwnButtons DEF Read
<1>3. CASE ~IsNative(role, raw)
  BY <1>3, ButtonReportIs, OwnButtons, EncodedRead
<1> QED
  BY <1>1, <1>2, <1>3 DEF IsNative

\* A report of a PlayStation role has one hat.
LEMMA OneHat ==
    ASSUME ButtonsSound
    PROVE  Cardinality({bit \in ButtonReport("sony", FALSE) : bit[1] = 8 /\ bit[2] < 9}) = 1
<1>1. \E h \in Faces : Hats(ButtonReport("sony", FALSE)) = {<<8, h>>}
  <2>1. "sony" \in Roles /\ FALSE \in BOOLEAN
    BY DEF Roles
  <2>2. CASE holder = "ds5"
    <3>1. ButtonReport("sony", FALSE) = Patch(Map, "sony", Held, Native)
      BY <2>1, <2>2, ButtonReportIs DEF IsNative
    <3> QED
      BY <2>2, <3>1, Ds5Sony
  <2>3. CASE holder # "ds5"
    <3>1. ButtonReport("sony", FALSE) =
              EncodeDs5([buttons |-> Own("sony"), levels |-> Own("sony") \cap Triggers])
      BY <2>1, <2>3, ButtonReportIs DEF IsNative, Encode
    <3> QED
      BY <3>1, OwnButtons, EncodedSony
  <2> QED
    BY <2>2, <2>3
<1>2. PICK h : Hats(ButtonReport("sony", FALSE)) = {<<8, h>>}
  BY <1>1
<1>3. Cardinality({<<8, h>>}) = 1
  BY FS_Singleton
<1> QED
  BY <1>2, <1>3 DEF Hats

-----------------------------------------------------------------------------
(* The theorem.                                                            *)

\* The invariant is inductive: a map binds buttons to buttons, those held are the
\* controller's own, and a cross is never held in opposite directions.  Without
\* the last a native report would have no hat to be read back.
THEOREM ButtonsStaySound == ButtonsSpec => []ButtonsSound
<1>1. ButtonsInit => ButtonsSound
  BY DEF ButtonsInit, ButtonsSound, Identity
<1>2. ButtonsSound /\ [ButtonsNext]_buttonVars => ButtonsSound'
  <2> SUFFICES ASSUME ButtonsSound, [ButtonsNext]_buttonVars PROVE ButtonsSound'
    OBVIOUS
  <2>1. ASSUME NEW b \in Buttons, Press(b) PROVE ButtonsSound'
    BY <2>1, Crosses DEF Press, ButtonsSound, Physical
  <2>2. ASSUME NEW b \in Buttons, Release(b) PROVE ButtonsSound'
    BY <2>2 DEF Release, ButtonsSound, Physical
  <2>3. ASSUME NEW c \in Profiles, Change(c) PROVE ButtonsSound'
    BY <2>3 DEF Change, ButtonsSound
  <2>4. ASSUME NEW c \in Profiles, Reset(c) PROVE ButtonsSound'
    <3>1. Identity \in [Buttons -> Buttons \cup {"none"}]
      BY DEF Identity
    <3> QED
      BY <2>4, <3>1 DEF Reset, ButtonsSound, Physical
  <2>5. ASSUME NEW p \in Profiles, NEW t \in Rebound, NEW s \in Rebound \cup {"none"},
               Set(p, t, s)
        PROVE  ButtonsSound'
    <3>1. t \in Buttons /\ s \in Buttons \cup {"none"}
      BY MappingAssumption
    <3> QED
      BY <2>5, <3>1 DEF Set, ButtonsSound, Physical
  <2>6. CASE UNCHANGED buttonVars
    BY <2>6 DEF buttonVars, ButtonsSound, Physical
  <2> QED
    BY <2>1, <2>2, <2>3, <2>4, <2>5, <2>6 DEF ButtonsNext
<1> QED
  BY <1>1, <1>2, PTL DEF ButtonsSpec

\* Every host reads what is bound to the buttons that are held, for every number
\* of bindings and of buttons held at once: by way of the decoded state
\* (bl616_bridge_apply_mapping and the encoders of bl616_bridge_protocol.c) as by a
\* patch of the native report (bl616_bridge_mapping.c), which touches nothing else.
THEOREM HostsReadBindings == ButtonsSpec => []ReadsBindings
<1>1. ButtonsSound => ReadsBindings
  <2> SUFFICES ASSUME ButtonsSound PROVE ReadsBindings
    OBVIOUS
  <2>1. ButtonsTypeOK
    BY OneHat DEF ButtonsTypeOK, ButtonsSound
  <2>2. \A role \in Roles, raw \in BOOLEAN : Read(role, ButtonReport(role, raw)) = Promised(role)
    BY ReadsOwn, PromisedIsSeen
  <2>3. holder = "ds5" => Other["ds5"] \subseteq ButtonReport("sony", TRUE)
    BY Ds5Sony, ButtonReportIs DEF IsNative, Roles
  <2>4. holder = "ns2pro" => Other["ns2pro"] \subseteq ButtonReport("nintendo", TRUE)
    BY Ns2Nintendo, ButtonReportIs DEF IsNative, Roles
  <2> QED
    BY <2>1, <2>2, <2>3, <2>4 DEF ReadsBindings
<1> QED
  BY <1>1, ButtonsStaySound, PTL

-----------------------------------------------------------------------------
(***************************************************************************)
(* The sticks (Axes).  Each codec is linear piece by piece, up to rounding:*)
(* what it computes, there and back, at rest and at the ends, and for one  *)
(* step of the stick, is arithmetic once the pieces are told apart.        *)
(***************************************************************************)

-----------------------------------------------------------------------------
(* Ranges.  The provers take a range of literals apart into its members,   *)
(* so what is proved of wide ones is stated with bounds.                   *)

Between(value, low, high) == value \in Int /\ low <= value /\ value <= high
Is8(value)  == Between(value, 0, 255)
Is12(value) == Between(value, 0, 4095)
Is16(value) == Between(value, -32768, 32767)

\* Membership of a range, as two bounds
LEMMA Ranges == \A low, high \in Int : \A v : v \in low..high <=> Between(v, low, high)
BY DEF Between

\* The 12 bits of a position, as two bounds
LEMMA Range12 == \A v : v \in U12 <=> Is12(v)
<1> DEFINE low == 0
           high == 4095
<1>1. low \in Int /\ high \in Int
  OBVIOUS
<1> HIDE DEF low, high
<1>2. \A v : v \in low..high <=> Between(v, low, high)
  BY <1>1, Ranges
<1>3. low..high = U12
  BY DEF low, high, U12
<1>4. \A v : Between(v, low, high) <=> Is12(v)
  BY DEF low, high, Is12
<1> QED
  BY <1>2, <1>3, <1>4

-----------------------------------------------------------------------------
(* What each codec computes, piece by piece.                               *)

\* What fits an int16_t is left in it as it is.
LEMMA Int16Identity == \A v : Is16(v) => Int16(v) = v
<1>1. \A n \in Int : 0 <= n /\ n <= 65535 => n % 65536 = n
  OBVIOUS
<1> QED
  BY <1>1 DEF Int16, Is16, Between

\* The three slopes of axis_from_u8: rounding adds one in the last quarter.
LEMMA FromU8 ==
    /\ \A v : Between(v, 0, 127) => axis_from_u8(v) = 256 * (v - 128)
    /\ \A v : Between(v, 128, 191) => axis_from_u8(v) = 258 * (v - 128)
    /\ \A v : Between(v, 192, 255) => axis_from_u8(v) = 258 * (v - 128) + 1
<1>1. \A v : Between(v, 0, 127) => ((128 - v) * 32768 + 64) \div 128 = 256 * (128 - v)
  BY DEF Between
<1>2. \A v : Between(v, 128, 191) => ((v - 128) * 32767 + 63) \div 127 = 258 * (v - 128)
  BY DEF Between
<1>3. \A v : Between(v, 192, 255) => ((v - 128) * 32767 + 63) \div 127 = 258 * (v - 128) + 1
  BY DEF Between
<1> QED
  BY <1>1, <1>2, <1>3, Int16Identity DEF axis_from_u8, Between, Is16

\* The fraction of a half that axis_from_u12 adds above the centre
Excess(v) == (15 * (v - 2048) + 1023) \div 2047

\* The fraction is a division by 2047, rounded.
LEMMA ExcessBounds ==
    \A v : Between(v, 2048, 4095) =>
        /\ Between(Excess(v), 0, 15)
        /\ 2047 * Excess(v) <= 15 * (v - 2048) + 1023
        /\ 15 * (v - 2048) + 1023 < 2047 * Excess(v) + 2047
BY DEF Between, Excess

\* The two slopes of axis_from_u12
LEMMA FromU12 ==
    /\ \A v : Between(v, 0, 2047) => axis_from_u12(v) = 16 * (v - 2048)
    /\ \A v : Between(v, 2048, 4095) => axis_from_u12(v) = 16 * (v - 2048) + Excess(v)
<1>1. \A v : Between(v, 0, 2047) => ((2048 - v) * 32768 + 1024) \div 2048 = 16 * (2048 - v)
  BY DEF Between
<1>2. \A v : Between(v, 2048, 4095) =>
          ((v - 2048) * 32767 + 1023) \div 2047 = 16 * (v - 2048) + Excess(v)
  BY DEF Between, Excess
<1> QED
  BY <1>1, <1>2, ExcessBounds, Int16Identity DEF axis_from_u12, Between, Is16

\* Both directions to 8 bits, without the width
LEMMA ToU8 ==
    /\ \A v : Between(v, 0, 32767) =>
          /\ axis_to_u8(v) = 128 + (v * 127 + 16383) \div 32767
          /\ Between(axis_to_u8(v), 128, 255)
    /\ \A v : Between(v, -32768, -1) =>
          /\ axis_to_u8(v) = 128 - ((-v) * 128 + 16384) \div 32768
          /\ Between(axis_to_u8(v), 0, 128)
<1>1. \A v : Between(v, 0, 32767) => Between((v * 127 + 16383) \div 32767, 0, 127)
  BY DEF Between
<1>2. \A v : Between(v, -32768, -1) => Between(((-v) * 128 + 16384) \div 32768, 0, 128)
  BY DEF Between
<1>3. \A v : Between(v, 0, 255) => v % 256 = v
  BY DEF Between
<1> QED
  BY <1>1, <1>2, <1>3 DEF axis_to_u8, Between

\* Both directions to 12 bits, without the width
LEMMA ToU12 ==
    /\ \A v : Between(v, 0, 32767) =>
          /\ axis_to_u12(v) = 2048 + (v * 2047 + 16383) \div 32767
          /\ Between(axis_to_u12(v), 2048, 4095)
    /\ \A v : Between(v, -32768, -1) =>
          /\ axis_to_u12(v) = 2048 - ((-v) * 2048 + 16384) \div 32768
          /\ Between(axis_to_u12(v), 0, 2048)
<1>1. \A v : Between(v, 0, 32767) => Between((v * 2047 + 16383) \div 32767, 0, 2047)
  BY DEF Between
<1>2. \A v : Between(v, -32768, -1) => Between(((-v) * 2048 + 16384) \div 32768, 0, 2048)
  BY DEF Between
<1>3. \A v : Between(v, 0, 4095) => v % 65536 = v
  BY DEF Between
<1> QED
  BY <1>1, <1>2, <1>3 DEF axis_to_u12, Between

\* Whatever fits the state fits the report.
LEMMA ToRange ==
    \A v : Is16(v) => Between(axis_to_u8(v), 0, 255) /\ Between(axis_to_u12(v), 0, 4095)
<1>1. \A v : Is16(v) => Between(v, 0, 32767) \/ Between(v, -32768, -1)
  BY DEF Is16, Between
<1> QED
  BY <1>1, ToU8, ToU12 DEF Between

\* invert_axis exchanges the ends and negates what is between them.
LEMMA Invert ==
    /\ invert_axis(-32768) = 32767 /\ invert_axis(32767) = -32768
    /\ \A v : Between(v, -32767, 32766) => invert_axis(v) = -v
<1>1. \A v : Between(v, -32767, 32766) => Int16(-v) = -v
  BY Int16Identity DEF Between, Is16
<1> QED
  BY <1>1 DEF invert_axis, INT16_MIN, INT16_MAX, Between

-----------------------------------------------------------------------------
(* There and back.                                                         *)

\* No value of 8 bits is lost on its way through the state and back.
LEMMA U8Back == \A v : Is8(v) => axis_to_u8(axis_from_u8(v)) = v
<1> SUFFICES ASSUME NEW v, Is8(v) PROVE axis_to_u8(axis_from_u8(v)) = v
  OBVIOUS
<1> DEFINE a == axis_from_u8(v)
<1>1. CASE v < 128
  <2>1. a = 256 * (v - 128) /\ Between(a, -32768, -1)
    BY <1>1, FromU8 DEF Is8, Between
  <2> HIDE DEF a
  <2>2. ((-a) * 128 + 16384) \div 32768 = 128 - v
    BY <1>1, <2>1 DEF Is8, Between
  <2> QED
    BY <2>1, <2>2, ToU8 DEF a, Is8, Between
<1>2. CASE v >= 128
  <2>1. a = 258 * (v - 128) + (IF v < 192 THEN 0 ELSE 1) /\ Between(a, 0, 32767)
    BY <1>2, FromU8 DEF Is8, Between
  <2> HIDE DEF a
  <2>2. (a * 127 + 16383) \div 32767 = v - 128
    BY <1>2, <2>1 DEF Is8, Between
  <2> QED
    BY <2>1, <2>2, ToU8 DEF a, Is8, Between
<1> QED
  BY <1>1, <1>2 DEF Is8, Between

\* Neither is one of 12 bits.
LEMMA U12Back == \A v : Is12(v) => axis_to_u12(axis_from_u12(v)) = v
<1> SUFFICES ASSUME NEW v, Is12(v) PROVE axis_to_u12(axis_from_u12(v)) = v
  OBVIOUS
<1> DEFINE a == axis_from_u12(v)
<1>1. CASE v < 2048
  <2>1. a = 16 * (v - 2048) /\ Between(a, -32768, -1)
    BY <1>1, FromU12 DEF Is12, Between
  <2> HIDE DEF a
  <2>2. ((-a) * 2048 + 16384) \div 32768 = 2048 - v
    BY <1>1, <2>1 DEF Is12, Between
  <2> QED
    BY <2>1, <2>2, ToU12 DEF a, Is12, Between
<1>2. CASE v >= 2048
  <2>1. Between(v, 2048, 4095)
    BY <1>2 DEF Is12, Between
  <2>2. a = 16 * (v - 2048) + Excess(v)
    BY <2>1, FromU12
  <2> HIDE DEF a
  <2>3. Between(a, 0, 32767) /\ (a * 2047 + 16383) \div 32767 = v - 2048
    BY <2>1, <2>2, ExcessBounds DEF Between
  <2> QED
    BY <2>1, <2>3, ToU12 DEF a, Between
<1> QED
  BY <1>1, <1>2 DEF Is12, Between

\* Nor the level of a trigger.
LEMMA TriggerBack == \A v : Is8(v) => trigger_to_u8(trigger_from_u8(v)) = v
<1>1. \A v : Is8(v) => (v * 257) % 65536 = v * 257
  BY DEF Is8, Between
<1>2. \A v : Is8(v) => (v * 257 + 128) \div 257 = v /\ v % 256 = v
  BY DEF Is8, Between
<1> QED
  BY <1>1, <1>2 DEF trigger_to_u8, trigger_from_u8

-----------------------------------------------------------------------------
(* The calibrated decoder.                                                 *)

\* What a distance from the centre, outside the dead zone, is scaled to
Kept(magnitude, target) ==
    LET scaled == ((magnitude - 48) * target + 776) \div 1552
    IN  IF scaled > target THEN target ELSE scaled

\* It grows with the distance, by 2 at most, from 1 to the end of the scale.
LEMMA KeptBounds ==
    ASSUME NEW t \in {2047, 2048}, NEW m, Between(m, 49, 4095)
    PROVE  /\ Between(Kept(m, t), 1, t)
           /\ m >= 1600 => Kept(m, t) = t
           /\ m = 49 => Kept(m, t) = 1
           /\ Between(Kept(m + 1, t) - Kept(m, t), 0, 2)
BY DEF Between, Kept

\* normalize_axis_12bit: a dead zone, and one such scale on either side of it
LEMMA Normalized ==
    ASSUME NEW v, NEW c, Is12(v), Is12(c)
    PROVE  normalize_axis_12bit(v, c) =
               IF v - c < -48 THEN 2048 - Kept(c - v, 2048)
               ELSE IF v - c > 48 THEN 2048 + Kept(v - c, 2047) ELSE 2048
<1>1. v \in Int /\ c \in Int
  BY DEF Is12, Between
<1>2. 776 = 1552 \div 2 /\ 4095 - 2048 = 2047 /\ 1600 - 48 = 1552
  OBVIOUS
<1>3. CASE v - c < -48
  <2>1. Between(c - v, 49, 4095)
    BY <1>3 DEF Is12, Between
  <2>2. Between(Kept(c - v, 2048), 1, 2048)
    BY <2>1, KeptBounds
  <2>3. -(v - c) = c - v
    BY <1>1
  <2> QED
    BY <1>1, <1>2, <1>3, <2>2, <2>3
    DEF normalize_axis_12bit, AXIS_PHYSICAL_FULL_SCALE, AXIS_DEADZONE, CENTER_12BIT, clamp12,
        Kept, Between
<1>4. CASE v - c > 48
  <2>1. Between(v - c, 49, 4095)
    BY <1>4 DEF Is12, Between
  <2>2. Between(Kept(v - c, 2047), 1, 2047)
    BY <2>1, KeptBounds
  <2> QED
    BY <1>1, <1>2, <1>4, <2>2
    DEF normalize_axis_12bit, AXIS_PHYSICAL_FULL_SCALE, AXIS_DEADZONE, CENTER_12BIT, clamp12,
        Kept, Between
<1>5. CASE -48 <= v - c /\ v - c <= 48
  BY <1>1, <1>5
  DEF normalize_axis_12bit, AXIS_DEADZONE, CENTER_12BIT
<1> QED
  BY <1>1, <1>3, <1>4, <1>5

\* It stays in 12 bits and reaches rest and both ends.
LEMMA NormalizedRange ==
    ASSUME NEW v, NEW c, Is12(v), Is12(c)
    PROVE  /\ Is12(normalize_axis_12bit(v, c))
           /\ v - c <= -1600 => normalize_axis_12bit(v, c) = 0
           /\ -48 <= v - c /\ v - c <= 48 => normalize_axis_12bit(v, c) = 2048
           /\ v - c >= 1600 => normalize_axis_12bit(v, c) = 4095
<1>1. v - c < -48 => Between(c - v, 49, 4095)
  BY DEF Is12, Between
<1>2. v - c > 48 => Between(v - c, 49, 4095)
  BY DEF Is12, Between
<1>3. v - c < -48 =>
          Between(Kept(c - v, 2048), 1, 2048) /\ (c - v >= 1600 => Kept(c - v, 2048) = 2048)
  BY <1>1, KeptBounds
<1>4. v - c > 48 =>
          Between(Kept(v - c, 2047), 1, 2047) /\ (v - c >= 1600 => Kept(v - c, 2047) = 2047)
  BY <1>2, KeptBounds
<1> QED
  BY <1>3, <1>4, Normalized DEF Is12, Between

\* One step of the stick is at most two of what is decoded, and forward.
LEMMA NormalizedStep ==
    ASSUME NEW v, NEW c, Is12(v), Is12(v + 1), Is12(c)
    PROVE  Between(normalize_axis_12bit(v + 1, c) - normalize_axis_12bit(v, c), 0, 2)
<1> DEFINE n == normalize_axis_12bit(v, c)
           m == normalize_axis_12bit(v + 1, c)
<1>1. /\ n = IF v - c < -48 THEN 2048 - Kept(c - v, 2048)
             ELSE IF v - c > 48 THEN 2048 + Kept(v - c, 2047) ELSE 2048
      /\ m = IF (v + 1) - c < -48 THEN 2048 - Kept(c - (v + 1), 2048)
             ELSE IF (v + 1) - c > 48 THEN 2048 + Kept((v + 1) - c, 2047) ELSE 2048
  BY Normalized
<1>2. CASE v - c < -49
  <2>1. Between(c - (v + 1), 49, 4095) /\ (c - (v + 1)) + 1 = c - v
    BY <1>2 DEF Is12, Between
  <2>2. Between(Kept(c - v, 2048) - Kept(c - (v + 1), 2048), 0, 2)
    BY <2>1, KeptBounds
  <2>3. Between(Kept(c - (v + 1), 2048), 1, 2048) /\ Between(c - v, 49, 4095)
    BY <2>1, KeptBounds, <1>2 DEF Is12, Between
  <2>4. Between(Kept(c - v, 2048), 1, 2048)
    BY <2>3, KeptBounds
  <2>5. n = 2048 - Kept(c - v, 2048) /\ m = 2048 - Kept(c - (v + 1), 2048)
    BY <1>1, <1>2 DEF Is12, Between
  <2> QED
    BY <2>2, <2>3, <2>4, <2>5 DEF Between
<1>3. CASE v - c = -49
  <2>1. Between(c - v, 49, 4095) /\ c - v = 49
    BY <1>3 DEF Is12, Between
  <2>2. Kept(c - v, 2048) = 1
    BY <2>1, KeptBounds
  <2>3. n = 2048 - Kept(c - v, 2048) /\ m = 2048
    BY <1>1, <1>3 DEF Is12, Between
  <2> QED
    BY <2>2, <2>3 DEF Between
<1>4. CASE -48 <= v - c /\ v - c < 48
  BY <1>1, <1>4 DEF Is12, Between
<1>5. CASE v - c = 48
  <2>1. Between((v + 1) - c, 49, 4095) /\ (v + 1) - c = 49
    BY <1>5 DEF Is12, Between
  <2>2. Kept((v + 1) - c, 2047) = 1
    BY <2>1, KeptBounds
  <2>3. n = 2048 /\ m = 2048 + Kept((v + 1) - c, 2047)
    BY <1>1, <1>5 DEF Is12, Between
  <2> QED
    BY <2>2, <2>3 DEF Between
<1>6. CASE v - c > 48
  <2>1. Between(v - c, 49, 4095) /\ (v - c) + 1 = (v + 1) - c
    BY <1>6 DEF Is12, Between
  <2>2. Between(Kept((v + 1) - c, 2047) - Kept(v - c, 2047), 0, 2)
    BY <2>1, KeptBounds
  <2>3. Between(Kept(v - c, 2047), 1, 2047) /\ Between((v + 1) - c, 49, 4095)
    BY <2>1, KeptBounds, <1>6 DEF Is12, Between
  <2>4. Between(Kept((v + 1) - c, 2047), 1, 2047)
    BY <2>3, KeptBounds
  <2>5. n = 2048 + Kept(v - c, 2047) /\ m = 2048 + Kept((v + 1) - c, 2047)
    BY <1>1, <1>6 DEF Is12, Between
  <2> QED
    BY <2>2, <2>3, <2>4, <2>5 DEF Between
<1> QED
  BY <1>2, <1>3, <1>4, <1>5, <1>6 DEF Is12, Between

-----------------------------------------------------------------------------
(* Steps.                                                                  *)

\* One step of 8 bits, in the scale of the state
LEMMA FromU8Step ==
    \A v : Between(v, 0, 254) =>
        /\ Is16(axis_from_u8(v)) /\ Is16(axis_from_u8(v + 1))
        /\ Between(axis_from_u8(v + 1) - axis_from_u8(v), 0, 259)
<1> SUFFICES ASSUME NEW v, Between(v, 0, 254)
             PROVE  /\ Is16(axis_from_u8(v)) /\ Is16(axis_from_u8(v + 1))
                    /\ Between(axis_from_u8(v + 1) - axis_from_u8(v), 0, 259)
  OBVIOUS
<1>1. CASE v < 127
  BY <1>1, FromU8 DEF Is16, Between
<1>2. CASE v = 127
  BY <1>2, FromU8 DEF Is16, Between
<1>3. CASE v > 127 /\ v < 191
  BY <1>3, FromU8 DEF Is16, Between
<1>4. CASE v >= 191
  BY <1>4, FromU8 DEF Is16, Between
<1> QED
  BY <1>1, <1>2, <1>3, <1>4 DEF Between

\* The 12 bits fill the scale of the state and no more.
LEMMA FromU12Range == \A v : Is12(v) => Is16(axis_from_u12(v))
BY FromU12, ExcessBounds DEF Is12, Is16, Between

\* Two steps of 12 bits at most, in the scale of the state
LEMMA FromU12Step ==
    ASSUME NEW v, NEW w, Is12(v), Is12(w), Between(w - v, 0, 2)
    PROVE  Between(axis_from_u12(w) - axis_from_u12(v), 0, 33)
<1>1. CASE w < 2048
  BY <1>1, FromU12 DEF Is12, Between
<1>2. CASE v < 2048 /\ w >= 2048
  BY <1>2, ExcessBounds, FromU12 DEF Is12, Between
<1>3. CASE v >= 2048
  BY <1>3, ExcessBounds, FromU12 DEF Is12, Between
<1> QED
  BY <1>1, <1>2, <1>3 DEF Is12, Between

\* Inverted, a step goes back, and is one more where an end is left.
LEMMA InvertStep ==
    ASSUME NEW v, NEW w, Is16(v), Is16(w), NEW k \in Nat, Between(w - v, 0, k)
    PROVE  /\ Is16(invert_axis(v)) /\ Is16(invert_axis(w))
           /\ Between(invert_axis(v) - invert_axis(w), 0, k + 1)
BY Invert DEF Is16, Between

\* Inverted twice, a value is back, but for the one next to the lower end.
LEMMA InvertTwice ==
    \A v : Is16(v) /\ v # -32767 => invert_axis(invert_axis(v)) = v
BY Invert DEF Is16, Between

\* What is one step of 12 bits is one of 8 at most.
LEMMA ToU8Step ==
    ASSUME NEW v, NEW w, Is16(v), Is16(w), Between(w - v, 0, 34)
    PROVE  Between(axis_to_u8(w) - axis_to_u8(v), 0, 1)
<1> DEFINE up(x) == (x * 127 + 16383) \div 32767
           low(x) == ((-x) * 128 + 16384) \div 32768
<1>1. CASE v >= 0
  <2>1. Between(up(w) - up(v), 0, 1)
    BY <1>1 DEF Is16, Between
  <2>2. axis_to_u8(v) = 128 + up(v) /\ axis_to_u8(w) = 128 + up(w)
    BY <1>1, ToU8 DEF Is16, Between
  <2> QED
    BY <2>1, <2>2, <1>1 DEF Is16, Between
<1>2. CASE w < 0
  <2>1. Between(low(v) - low(w), 0, 1)
    BY <1>2 DEF Is16, Between
  <2>2. axis_to_u8(v) = 128 - low(v) /\ axis_to_u8(w) = 128 - low(w)
    BY <1>2, ToU8 DEF Is16, Between
  <2> QED
    BY <2>1, <2>2, <1>2 DEF Is16, Between
<1>3. CASE v < 0 /\ w >= 0
  <2>1. low(v) = 0 /\ up(w) = 0
    BY <1>3 DEF Is16, Between
  <2>2. axis_to_u8(v) = 128 - low(v) /\ axis_to_u8(w) = 128 + up(w)
    BY <1>3, ToU8 DEF Is16, Between
  <2> QED
    BY <2>1, <2>2 DEF Between
<1> QED
  BY <1>1, <1>2, <1>3 DEF Is16, Between

\* What is one step of 8 bits is 18 of 12 at most.
LEMMA ToU12Step ==
    ASSUME NEW v, NEW w, Is16(v), Is16(w), Between(w - v, 0, 260)
    PROVE  Between(axis_to_u12(w) - axis_to_u12(v), 0, 18)
<1> DEFINE up(x) == (x * 2047 + 16383) \div 32767
           low(x) == ((-x) * 2048 + 16384) \div 32768
<1>1. CASE v >= 0
  <2>1. Between(up(w) - up(v), 0, 18)
    BY <1>1 DEF Is16, Between
  <2>2. axis_to_u12(v) = 2048 + up(v) /\ axis_to_u12(w) = 2048 + up(w)
    BY <1>1, ToU12 DEF Is16, Between
  <2> QED
    BY <2>1, <2>2, <1>1 DEF Is16, Between
<1>2. CASE w < 0
  <2>1. Between(low(v) - low(w), 0, 18)
    BY <1>2 DEF Is16, Between
  <2>2. axis_to_u12(v) = 2048 - low(v) /\ axis_to_u12(w) = 2048 - low(w)
    BY <1>2, ToU12 DEF Is16, Between
  <2> QED
    BY <2>1, <2>2, <1>2 DEF Is16, Between
<1>3. CASE v < 0 /\ w >= 0
  <2>1. Between(low(v) + up(w), 0, 18) /\ low(v) \in Int /\ up(w) \in Int
    BY <1>3 DEF Is16, Between
  <2>2. axis_to_u12(v) = 2048 - low(v) /\ axis_to_u12(w) = 2048 + up(w)
    BY <1>3, ToU12 DEF Is16, Between
  <2> QED
    BY <2>1, <2>2 DEF Between
<1> QED
  BY <1>1, <1>2, <1>3 DEF Is16, Between

-----------------------------------------------------------------------------
(* Rest and ends.                                                          *)

\* Who counts a y axis the other way than the state does
DecodesDown(controller, axis) == controller = "ds5" /\ axis = "y"
EncodesDown(role, axis) == role = "sony" /\ axis = "y"

\* Rest and ends of 8 bits; none of them is the value that invert_axis loses.
LEMMA FromU8Ends ==
    /\ axis_from_u8(0) = -32768 /\ axis_from_u8(128) = 0 /\ axis_from_u8(255) = 32767
    /\ \A v : Is8(v) => Is16(axis_from_u8(v)) /\ axis_from_u8(v) # -32767
<1>1. Between(0, 0, 127) /\ Between(128, 128, 191) /\ Between(255, 192, 255)
  BY DEF Between
<1>2. \A v : Is8(v) => Between(v, 0, 127) \/ Between(v, 128, 191) \/ Between(v, 192, 255)
  BY DEF Is8, Between
<1>3. \A v : Between(v, 0, 127) => Is16(256 * (v - 128)) /\ 256 * (v - 128) # -32767
  BY DEF Is16, Between
<1>4. \A v : Between(v, 128, 191) => Is16(258 * (v - 128)) /\ 258 * (v - 128) # -32767
  BY DEF Is16, Between
<1>5. \A v : Between(v, 192, 255) =>
          Is16(258 * (v - 128) + 1) /\ 258 * (v - 128) + 1 # -32767
  BY DEF Is16, Between
<1> QED
  BY <1>1, <1>2, <1>3, <1>4, <1>5, FromU8

\* Rest and ends of 12 bits
LEMMA FromU12Ends ==
    axis_from_u12(0) = -32768 /\ axis_from_u12(2048) = 0 /\ axis_from_u12(4095) = 32767
<1>1. Excess(2048) = 0 /\ Excess(4095) = 15
  BY DEF Excess
<1>2. Between(0, 0, 2047) /\ Between(2048, 2048, 4095) /\ Between(4095, 2048, 4095)
  BY DEF Between
<1> QED
  BY <1>1, <1>2, FromU12

\* Rest and ends on the way to the host
LEMMA ToEnds ==
    /\ axis_to_u8(-32768) = 0 /\ axis_to_u8(0) = 128 /\ axis_to_u8(32767) = 255
    /\ axis_to_u12(-32768) = 0 /\ axis_to_u12(0) = 2048 /\ axis_to_u12(32767) = 4095
    /\ invert_axis(0) = 0
<1>1. Between(0, 0, 32767) /\ Between(32767, 0, 32767) /\ Between(-32768, -32768, -1)
  BY DEF Between
<1>2. /\ (0 * 127 + 16383) \div 32767 = 0 /\ (32767 * 127 + 16383) \div 32767 = 127
      /\ ((-(-32768)) * 128 + 16384) \div 32768 = 128
      /\ (0 * 2047 + 16383) \div 32767 = 0 /\ (32767 * 2047 + 16383) \div 32767 = 2047
      /\ ((-(-32768)) * 2048 + 16384) \div 32768 = 2048
  OBVIOUS
<1>3. Between(0, -32767, 32766)
  BY DEF Between
<1> QED
  BY <1>1, <1>2, <1>3, ToU8, ToU12, Invert

\* Every role is shown what its scale has, rest as rest and ends as ends.
LEMMA Encodes ==
    ASSUME NEW role \in StickRoles, NEW axis \in Axis
    PROVE  /\ \A v : Is16(v) => Between(Encoded(role, axis, v), Scale(role)[1], Scale(role)[3])
           /\ Encoded(role, axis, 0) = Scale(role)[2]
           /\ Encoded(role, axis, -32768) = Scale(role)[IF EncodesDown(role, axis) THEN 3 ELSE 1]
           /\ Encoded(role, axis, 32767) = Scale(role)[IF EncodesDown(role, axis) THEN 1 ELSE 3]
<1>1. \A v : Is16(v) => Is16(invert_axis(v))
  BY Invert DEF Is16, Between
<1>2. CASE role = "xbox"
  BY <1>2 DEF Encoded, Scale, EncodesDown, Is16, INT16_MIN, INT16_MAX
<1>3. CASE role = "sony"
  BY <1>1, <1>3, ToRange, ToEnds, Invert DEF Encoded, Scale, EncodesDown
<1>4. CASE role = "nintendo"
  BY <1>4, ToRange, ToEnds DEF Encoded, Scale, EncodesDown
<1> QED
  BY <1>2, <1>3, <1>4 DEF StickRoles

\* What a stick that stands at p is decoded to, with the centre c
At(controller, axis, p, c) ==
    IF controller = "ns2pro" THEN axis_from_u12(normalize_axis_12bit(p, c))
    ELSE IF axis = "y" THEN invert_axis(axis_from_u8(p \div 16)) ELSE axis_from_u8(p \div 16)

\* What is shown is a function of position and centre.
LEMMA ShownAt ==
    \A controller \in Controllers : \A role, axis :
        /\ Shown(controller, role, axis) =
               Encoded(role, axis, At(controller, axis, position, centre))
        /\ Shown(controller, role, axis)' =
               Encoded(role, axis, At(controller, axis, position', centre'))
BY DEF Shown, Decoded, Sent, At, Controllers

\* Rest and ends of either controller are those of the state.
LEMMA Decodes ==
    ASSUME NEW controller \in Controllers, NEW axis \in Axis, NEW p, NEW c, Is12(p), Is12(c)
    PROVE  LET rest == IF controller = "ds5" THEN p \div 16 = 128 ELSE p - c \in -48..48
               low == IF controller = "ds5" THEN p \div 16 = 0 ELSE p - c <= -1600
               high == IF controller = "ds5" THEN p \div 16 = 255 ELSE p - c >= 1600
           IN  /\ Is16(At(controller, axis, p, c))
               /\ rest => At(controller, axis, p, c) = 0
               /\ low => At(controller, axis, p, c) =
                             IF DecodesDown(controller, axis) THEN 32767 ELSE -32768
               /\ high => At(controller, axis, p, c) =
                             IF DecodesDown(controller, axis) THEN -32768 ELSE 32767
<1>1. Is8(p \div 16)
  BY DEF Is12, Is8, Between
<1>2. \A v : Is16(v) => Is16(invert_axis(v))
  BY Invert DEF Is16, Between
<1>3. CASE controller = "ds5"
  BY <1>1, <1>2, <1>3, FromU8Ends, Invert, ToEnds DEF At, DecodesDown
<1>4. CASE controller = "ns2pro"
  <2>1. p - c \in -48..48 => -48 <= p - c /\ p - c <= 48
    OBVIOUS
  <2>2. Is16(axis_from_u12(normalize_axis_12bit(p, c)))
    BY NormalizedRange, FromU12Range
  <2> QED
    BY <1>4, <2>1, <2>2, NormalizedRange, FromU12Ends DEF At, DecodesDown
<1> QED
  BY <1>3, <1>4 DEF Controllers

\* Both ways together: what is shown is of the scale, with its rest and ends.
LEMMA Ends ==
    ASSUME NEW controller \in Controllers, NEW role \in StickRoles, NEW axis \in Axis,
           Is12(position), Is12(centre)
    PROVE  /\ Shown(controller, role, axis) \in Scale(role)[1]..Scale(role)[3]
           /\ KeepsEnds(controller, role, axis)
<1> DEFINE d == At(controller, axis, position, centre)
<1>1. Shown(controller, role, axis) = Encoded(role, axis, d)
  BY ShownAt
<1>2. Scale(role)[1] \in Int /\ Scale(role)[3] \in Int
  BY DEF StickRoles, Scale, INT16_MIN, INT16_MAX
<1>3. Is16(d)
  BY Decodes
<1>4. Shown(controller, role, axis) \in Scale(role)[1]..Scale(role)[3]
  BY <1>1, <1>2, <1>3, Encodes, Ranges
<1>5. position \in Int /\ position \div 16 \in Int /\ centre \in Int
  BY DEF Is12, Between
<1>6. (IF controller = "ds5" THEN Sent(controller) - 128 = 0
       ELSE position - centre \in -48..48)
          => d = 0
  BY <1>5, Decodes DEF Sent
<1>7. (IF controller = "ds5" THEN Sent(controller) - 128 = -128
       ELSE position - centre <= -AXIS_PHYSICAL_FULL_SCALE)
          => d = IF DecodesDown(controller, axis) THEN 32767 ELSE -32768
  BY <1>5, Decodes DEF Sent, AXIS_PHYSICAL_FULL_SCALE
<1>8. (IF controller = "ds5" THEN Sent(controller) - 128 = 127
       ELSE position - centre >= AXIS_PHYSICAL_FULL_SCALE)
          => d = IF DecodesDown(controller, axis) THEN -32768 ELSE 32767
  BY <1>5, Decodes DEF Sent, AXIS_PHYSICAL_FULL_SCALE
<1>9. Grows(controller, role, axis) \in BOOLEAN
      /\ (Grows(controller, role, axis)
              <=> (DecodesDown(controller, axis) <=> EncodesDown(role, axis)))
  BY DEF Grows, DecodesDown, EncodesDown, Axis
<1> HIDE DEF d
<1>10. /\ Encoded(role, axis, 0) = Scale(role)[2]
       /\ Encoded(role, axis, -32768) = Scale(role)[IF EncodesDown(role, axis) THEN 3 ELSE 1]
       /\ Encoded(role, axis, 32767) = Scale(role)[IF EncodesDown(role, axis) THEN 1 ELSE 3]
  BY Encodes
<1> QED
  BY <1>1, <1>4, <1>6, <1>7, <1>8, <1>9, <1>10 DEF KeepsEnds

\* A host of the controller's own kind is shown what the controller sent.
LEMMA OwnKind ==
    ASSUME NEW axis \in Axis, Is12(position), Is12(centre)
    PROVE  /\ Is8(Sent("ds5"))
           /\ Shown("ds5", "sony", axis) = Sent("ds5")
           /\ Shown("ns2pro", "nintendo", axis) = normalize_axis_12bit(position, centre)
<1>1. Is8(position \div 16) /\ Sent("ds5") = position \div 16 /\ Sent("ns2pro") = position
  BY DEF Is12, Is8, Between, Sent
<1>2. axis_to_u8(axis_from_u8(position \div 16)) = position \div 16
  BY <1>1, U8Back
<1>3. invert_axis(invert_axis(axis_from_u8(position \div 16))) = axis_from_u8(position \div 16)
  BY <1>1, FromU8Ends, InvertTwice
<1>4. axis_to_u12(axis_from_u12(normalize_axis_12bit(position, centre)))
          = normalize_axis_12bit(position, centre)
  BY NormalizedRange, U12Back
<1> QED
  BY <1>1, <1>2, <1>3, <1>4 DEF Shown, Decoded, Encoded

-----------------------------------------------------------------------------
(* The invariant.                                                          *)

SticksSound == position \in U12 /\ centre \in Centres

\* Position and centre have 12 bits, whatever centres were learned.
LEMMA SoundSticks == SticksSound => Is12(position) /\ Is12(centre)
<1>1. SticksSound => centre \in U12
  BY AxesAssumption DEF SticksSound
<1> QED
  BY <1>1, Range12 DEF SticksSound

\* The invariant is inductive: a stick stays in its 12 bits.  Which centres a
\* calibration has learned (ns2_input.cpp) makes no difference.
THEOREM SticksStaySound == SticksSpec => []SticksSound
<1>1. SticksInit => SticksSound
  <2>1. Is12(0)
    BY DEF Is12, Between
  <2> QED
    BY <2>1, Range12 DEF SticksInit, SticksSound
<1>2. SticksSound /\ [SticksNext]_stickVars => SticksSound'
  <2> SUFFICES ASSUME SticksSound, [SticksNext]_stickVars PROVE SticksSound'
    OBVIOUS
  <2>1. Is12(position)
    BY SoundSticks
  <2>2. Push => Is12(position')
    BY <2>1 DEF Push, Is12, Between
  <2>3. Pull => Is12(position')
    BY <2>1 DEF Pull, Is12, Between
  <2>4. UNCHANGED stickVars => Is12(position')
    BY <2>1 DEF stickVars
  <2>5. centre' = centre
    BY DEF SticksNext, Push, Pull, stickVars
  <2> QED
    BY <2>2, <2>3, <2>4, <2>5, Range12 DEF SticksNext, SticksSound
<1> QED
  BY <1>1, <1>2, PTL DEF SticksSpec

\* Rest is shown as rest and an end as an end, to every host and for every centre
\* that a calibration can learn (the codecs of bl616_bridge_protocol.c and
\* normalize_axis_12bit of ns2_input.cpp); a host of the controller's own kind is
\* shown what the controller sent.
THEOREM StickRestAndEnds == SticksSpec => []KeepsRestAndEnds
<1>1. SticksSound => KeepsRestAndEnds
  <2> SUFFICES ASSUME SticksSound PROVE KeepsRestAndEnds
    OBVIOUS
  <2>1. Is12(position) /\ Is12(centre)
    BY SoundSticks
  <2>2. Is8(Sent("ds5"))
    BY <2>1, OwnKind DEF Axis
  <2>3. trigger_to_u8(trigger_from_u8(Sent("ds5"))) = Sent("ds5")
    BY <2>2, TriggerBack
  <2>4. \A controller \in Controllers, role \in StickRoles, axis \in Axis :
            /\ Shown(controller, role, axis) \in Scale(role)[1]..Scale(role)[3]
            /\ KeepsEnds(controller, role, axis)
    BY <2>1, Ends
  <2>5. \A axis \in Axis :
          /\ Shown("ds5", "sony", axis) = Sent("ds5")
          /\ Shown("ns2pro", "nintendo", axis) = normalize_axis_12bit(position, centre)
    BY <2>1, OwnKind
  <2> QED
    BY <2>3, <2>4, <2>5 DEF KeepsRestAndEnds, SticksTypeOK, SticksSound
<1> QED
  BY <1>1, SticksStaySound, PTL

-----------------------------------------------------------------------------
(* Steps of a stick.                                                       *)

\* A step of the stick, in the scale of the state
LEMMA DecodesStep ==
    ASSUME NEW controller \in Controllers, NEW axis \in Axis, NEW p, NEW c,
           Is12(p), Is12(p + 1), Is12(c)
    PROVE  LET d == At(controller, axis, p + 1, c) - At(controller, axis, p, c)
               k == IF controller = "ds5" THEN 260 ELSE 33
           IN  IF DecodesDown(controller, axis) THEN Between(-d, 0, k) ELSE Between(d, 0, k)
<1>1. CASE controller = "ns2pro"
  BY <1>1, NormalizedStep, NormalizedRange, FromU12Step DEF At, DecodesDown
<1>2. CASE controller = "ds5"
  <2> DEFINE s == p \div 16
             t == (p + 1) \div 16
  <2>1. Is8(s) /\ Is8(t) /\ (t = s \/ t = s + 1)
    BY DEF Is12, Is8, Between
  <2> HIDE DEF s, t
  <2>2. /\ Is16(axis_from_u8(s)) /\ Is16(axis_from_u8(t))
        /\ Between(axis_from_u8(t) - axis_from_u8(s), 0, 259)
    <3>1. CASE t = s
      BY <2>1, <3>1, FromU8Ends DEF Is16, Between
    <3>2. CASE t = s + 1
      <4>1. Between(s, 0, 254)
        BY <2>1, <3>2 DEF Is8, Between
      <4> QED
        BY <3>2, <4>1, FromU8Step
    <3> QED
      BY <2>1, <3>1, <3>2
  <2>3. Between(invert_axis(axis_from_u8(s)) - invert_axis(axis_from_u8(t)), 0, 260)
        /\ Is16(invert_axis(axis_from_u8(s))) /\ Is16(invert_axis(axis_from_u8(t)))
    BY <2>2, InvertStep
  <2> QED
    BY <1>2, <2>2, <2>3 DEF At, DecodesDown, Between, Is16, s, t
<1> QED
  BY <1>1, <1>2 DEF Controllers

Steps == [xbox |-> 288, sony |-> 1, nintendo |-> 18]

\* A step in the scale of the state, in that of the host
LEMMA EncodesStep ==
    ASSUME NEW role \in StickRoles, NEW axis \in Axis, NEW v, NEW w, Is16(v), Is16(w),
           Between(w - v, 0, IF role = "sony" THEN 33 ELSE 260)
    PROVE  LET d == Encoded(role, axis, w) - Encoded(role, axis, v)
           IN  IF EncodesDown(role, axis) THEN Between(-d, 0, Steps[role])
               ELSE Between(d, 0, Steps[role])
<1>1. CASE role = "xbox"
  BY <1>1 DEF Encoded, EncodesDown, Steps, Between
<1>2. CASE role = "nintendo"
  BY <1>2, ToU12Step DEF Encoded, EncodesDown, Steps
<1>3. CASE role = "sony"
  <2>1. /\ Is16(invert_axis(v)) /\ Is16(invert_axis(w))
        /\ Between(invert_axis(v) - invert_axis(w), 0, 34)
    BY <1>3, InvertStep
  <2>2. Between(axis_to_u8(invert_axis(v)) - axis_to_u8(invert_axis(w)), 0, 1)
    BY <2>1, ToU8Step
  <2>3. Between(w - v, 0, 34)
    BY <1>3 DEF Between
  <2>4. Between(axis_to_u8(w) - axis_to_u8(v), 0, 1)
    BY <2>3, ToU8Step
  <2>5. /\ axis_to_u8(v) \in Int /\ axis_to_u8(w) \in Int
        /\ axis_to_u8(invert_axis(v)) \in Int /\ axis_to_u8(invert_axis(w)) \in Int
    BY <2>1, ToRange DEF Between
  <2> QED
    BY <1>3, <2>2, <2>4, <2>5 DEF Encoded, EncodesDown, Steps, Between
<1> QED
  BY <1>1, <1>2, <1>3 DEF StickRoles

\* A step of the stick, in the scale of the host
LEMMA ShownStep ==
    ASSUME NEW controller \in Controllers, NEW role \in StickRoles, NEW axis \in Axis,
           NEW p, NEW c, Is12(p), Is12(p + 1), Is12(c)
    PROVE  LET d == Encoded(role, axis, At(controller, axis, p + 1, c))
                        - Encoded(role, axis, At(controller, axis, p, c))
           IN  IF Grows(controller, role, axis) THEN Between(d, 0, Steps[role])
               ELSE Between(-d, 0, Steps[role])
<1> DEFINE v == At(controller, axis, p, c)
           w == At(controller, axis, p + 1, c)
           x == Encoded(role, axis, v)
           y == Encoded(role, axis, w)
           Claim == IF Grows(controller, role, axis) THEN Between(y - x, 0, Steps[role])
                    ELSE Between(-(y - x), 0, Steps[role])
<1>1. Is16(v) /\ Is16(w)
  BY Decodes
<1>2. Grows(controller, role, axis)
          <=> (DecodesDown(controller, axis) <=> EncodesDown(role, axis))
  BY DEF Grows, DecodesDown, EncodesDown, Axis
<1>3. x \in Int /\ y \in Int
  BY <1>1, Encodes DEF Between
<1>4. ASSUME role = "sony", controller = "ds5" PROVE Claim
  <2> DEFINE s == p \div 16
             t == (p + 1) \div 16
  <2>1. Is8(s) /\ Is8(t) /\ Between(t - s, 0, 1)
    BY DEF Is12, Is8, Between
  <2> HIDE DEF s, t
  <2>2. \A a : Is8(a) => /\ axis_to_u8(axis_from_u8(a)) = a
                         /\ invert_axis(invert_axis(axis_from_u8(a))) = axis_from_u8(a)
    BY U8Back, FromU8Ends, InvertTwice
  <2>3. x = s /\ y = t
    BY <1>4, <2>1, <2>2 DEF At, Encoded, s, t
  <2>4. Grows(controller, role, axis)
    BY <1>4 DEF Grows
  <2> QED
    BY <1>4, <2>1, <2>3, <2>4 DEF Steps
<1>5. ASSUME ~(role = "sony" /\ controller = "ds5") PROVE Claim
  <2> DEFINE k == IF role = "sony" THEN 33 ELSE 260
  <2>1. IF DecodesDown(controller, axis) THEN Between(v - w, 0, k) ELSE Between(w - v, 0, k)
    BY <1>1, <1>5, DecodesStep DEF Between, Is16, Controllers
  <2>2. ASSUME DecodesDown(controller, axis) PROVE Claim
    <3>1. IF EncodesDown(role, axis) THEN Between(-(x - y), 0, Steps[role])
          ELSE Between(x - y, 0, Steps[role])
      BY <1>1, <2>1, <2>2, EncodesStep
    <3> HIDE DEF x, y
    <3> QED
      BY <1>2, <1>3, <2>2, <3>1 DEF Between
  <2>3. ASSUME ~DecodesDown(controller, axis) PROVE Claim
    <3>1. IF EncodesDown(role, axis) THEN Between(-(y - x), 0, Steps[role])
          ELSE Between(y - x, 0, Steps[role])
      BY <1>1, <2>1, <2>3, EncodesStep
    <3> HIDE DEF x, y
    <3> QED
      BY <1>2, <1>3, <2>3, <3>1 DEF Between
  <2> QED
    BY <2>2, <2>3
<1> QED
  BY <1>4, <1>5

\* A stick that is pushed on is never shown to come back, and never jumps: the
\* slopes of the codecs and of the calibrated decoder meet where they change, at
\* rest, at the dead zone and at the ends, whatever the centre is.
THEOREM StickFollows == SticksSpec => Follows
<1> DEFINE d(controller, role, axis) ==
               Shown(controller, role, axis)' - Shown(controller, role, axis)
           forth(controller, role, axis) ==
               (position' > position) = Grows(controller, role, axis)
           step(role) ==
               CASE role = "xbox" -> 288 [] role = "sony" -> 1 [] role = "nintendo" -> 18
<1>1. ASSUME SticksSound, [SticksNext]_stickVars, position' # position,
             NEW controller \in Controllers, NEW role \in StickRoles, NEW axis \in Axis
      PROVE  IF forth(controller, role, axis) THEN d(controller, role, axis) \in 0..step(role)
             ELSE d(controller, role, axis) \in -step(role)..0
  <2>1. Is12(position) /\ Is12(centre) /\ centre' = centre
    BY <1>1, SoundSticks DEF SticksNext, Push, Pull, stickVars
  <2> DEFINE e(p) == Encoded(role, axis, At(controller, axis, p, centre))
  <2>2. /\ Shown(controller, role, axis) = e(position)
        /\ Shown(controller, role, axis)' = e(position')
    BY <2>1, ShownAt
  <2>3. step(role) = Steps[role] /\ Steps[role] \in Nat
    BY DEF Steps, StickRoles
  <2>4. Grows(controller, role, axis) \in BOOLEAN
    BY DEF Grows
  <2>5. \A p : Is12(p) => e(p) \in Int
    BY <2>1, Decodes, Encodes DEF Between
  <2>6. \A x \in Int, k \in Nat :
            (Between(x, 0, k) => x \in 0..k) /\ (Between(-x, 0, k) => x \in -k..0)
    BY DEF Between
  <2>7. ASSUME Push
        PROVE  IF forth(controller, role, axis) THEN d(controller, role, axis) \in 0..step(role)
               ELSE d(controller, role, axis) \in -step(role)..0
    <3>1. position' = position + 1 /\ Is12(position') /\ position' > position
      BY <2>1, <2>7 DEF Push, Is12, Between
    <3>2. IF Grows(controller, role, axis) THEN Between(e(position') - e(position), 0, Steps[role])
          ELSE Between(-(e(position') - e(position)), 0, Steps[role])
      BY <2>1, <3>1, ShownStep
    <3>3. forth(controller, role, axis) <=> Grows(controller, role, axis)
      BY <2>4, <3>1
    <3>4. d(controller, role, axis) = e(position') - e(position)
      BY <2>2
    <3>5. e(position) \in Int /\ e(position') \in Int
      BY <2>1, <2>5, <3>1
    <3> HIDE DEF e, d, forth, step
    <3> QED
      BY <2>3, <2>6, <3>2, <3>3, <3>4, <3>5
  <2>8. ASSUME Pull
        PROVE  IF forth(controller, role, axis) THEN d(controller, role, axis) \in 0..step(role)
               ELSE d(controller, role, axis) \in -step(role)..0
    <3>1. position' + 1 = position /\ Is12(position') /\ ~(position' > position)
      BY <2>1, <2>8 DEF Pull, Is12, Between
    <3>2. IF Grows(controller, role, axis) THEN Between(e(position) - e(position'), 0, Steps[role])
          ELSE Between(-(e(position) - e(position')), 0, Steps[role])
      BY <2>1, <3>1, ShownStep
    <3>3. forth(controller, role, axis) <=> ~Grows(controller, role, axis)
      BY <2>4, <3>1
    <3>4. d(controller, role, axis) = -(e(position) - e(position'))
      BY <2>1, <2>2, <2>5, <3>1
    <3>5. e(position) \in Int /\ e(position') \in Int
      BY <2>1, <2>5, <3>1
    <3>6. -(-(e(position) - e(position'))) = e(position) - e(position')
      BY <3>5
    <3> HIDE DEF e, d, forth, step
    <3> QED
      BY <2>3, <2>6, <3>2, <3>3, <3>4, <3>5, <3>6
  <2> QED
    BY <1>1, <2>7, <2>8 DEF SticksNext, stickVars
<1>2. SticksSound /\ [SticksNext]_stickVars =>
          [position' # position =>
              \A controller \in Controllers, role \in StickRoles, axis \in Axis :
                  IF forth(controller, role, axis) THEN d(controller, role, axis) \in 0..step(role)
                  ELSE d(controller, role, axis) \in -step(role)..0]_stickVars
  BY <1>1
<1> QED
  BY <1>2, SticksStaySound, PTL DEF SticksSpec, Follows

-----------------------------------------------------------------------------
(***************************************************************************)
(* The vibration (Rumble).  StopIsOwed is inductive with the types; the    *)
(* action properties need what is known of a source that is active: that   *)
(* vibration is enabled, and that a lock is there until the loss of its    *)
(* link has been seen.                                                     *)
(***************************************************************************)

-----------------------------------------------------------------------------
(* The inductive invariant.                                                *)

\* Nothing is active that "rumble off" has stopped.
ActiveIsEnabled == stream.active \/ audio.active => enabled

\* What is of a session has its lock.
SessionIsLocked == audio.active \/ (stream.active /\ stream.session) => locked

\* A lock outlives its link only to the next session tick.
LockHasLink == locked => Connected \/ link = "lost" \/ pc = "session"

\* A link is given up for lost in the poll that has lost it.
LostInPoll == link = "lost" => pc = "poll"

Sound == TypeOK /\ StopIsOwed /\ ActiveIsEnabled /\ SessionIsLocked /\ LockHasLink /\ LostInPoll

Streams == [active : BOOLEAN, loud : BOOLEAN, life : 0..Hold, session : BOOLEAN]
Audios  == [active : BOOLEAN, life : 0..AudioHold]

USE RumbleAssumption

LEMMA Bounds ==
    /\ 0 \in 0..Tick /\ Tick \in 0..Tick /\ AudioTick \in 0..Tick /\ 0 \in 0..MaxStops
    /\ DefaultStops \in 1..MaxStops /\ 0 \in 0..Hold /\ 0 \in 0..AudioHold
    /\ Hold \in 0..Hold /\ AudioHold \in 0..AudioHold
    /\ \A p \in 1..MaxStops : p \in 0..MaxStops /\ p > 0
    /\ \A p \in 0..MaxStops : p > 0 => p - 1 \in 0..MaxStops
OBVIOUS

\* The records the sources are set to.
LEMMA SourceTypes ==
    /\ Off \in Streams /\ ~Off.active /\ ~Off.session
    /\ [active |-> FALSE, life |-> 0] \in Audios
    /\ [active |-> TRUE, life |-> AudioHold] \in Audios
    /\ \A loud, session \in BOOLEAN :
          [active |-> TRUE, loud |-> loud, life |-> Hold, session |-> session] \in Streams
BY Bounds DEF Off, Streams, Audios

\* What the parts of Sound say of the sources alone.
Sources ==
    /\ stream \in Streams /\ audio \in Audios
    /\ owed \in 0..MaxStops /\ due \in 0..Tick /\ lost \in BOOLEAN

LEMMA TypesOfSources == TypeOK => Sources /\ packets \in 1..MaxStops
BY DEF TypeOK, Sources, Streams, Audios

\* Every way to stop keeps the types, leaves nothing that was not there, and
\* orders stop packets for what it ends.
LEMMA StopFacts ==
    ASSUME TypeOK, StopIsOwed, packets' \in 1..MaxStops, packets' = packets, held' = held,
           StopAll \/ StopAudio \/ (StopRegular /\ UNCHANGED audio)
    PROVE  /\ Sources' /\ StopIsOwed'
           /\ stream'.active => stream' = stream
           /\ audio'.active => audio' = audio
<1>1. Sources /\ packets \in 1..MaxStops
  BY TypesOfSources
<1>2. CASE StopAll
  BY <1>1, <1>2, SourceTypes, Bounds DEF StopAll, StopRegular, Order, Sources, StopIsOwed
<1>3. CASE StopAudio
  <2>1. CASE audio.active
    BY <1>1, <1>3, <2>1, SourceTypes, Bounds DEF StopAudio, Order, Sources, StopIsOwed
  <2>2. CASE ~audio.active
    BY <1>1, <1>3, <2>2, SourceTypes, Bounds DEF StopAudio, Keep, Sources, StopIsOwed
  <2> QED BY <2>1, <2>2
<1>4. CASE StopRegular /\ UNCHANGED audio
  BY <1>1, <1>4, SourceTypes, Bounds DEF StopRegular, Order, Sources, StopIsOwed
<1> QED BY <1>2, <1>3, <1>4

\* A vibration of the game.
LEMMA UpdateFacts ==
    ASSUME NEW loud \in BOOLEAN, NEW session \in BOOLEAN,
           TypeOK, StopIsOwed, packets' = packets, held' = held, Update(loud, session)
    PROVE  /\ Sources' /\ StopIsOwed'
           /\ stream'.active => enabled /\ stream'.session = session
           /\ audio'.active => audio' = audio
<1>1. CASE ~enabled
  BY <1>1, StopFacts, TypesOfSources, SourceTypes, Bounds DEF Update, StopAll, StopRegular
<1>2. CASE enabled
  BY <1>2, TypesOfSources, SourceTypes, Bounds DEF Update, Sources, StopIsOwed
<1> QED BY <1>1, <1>2

\* A block of the audio channels.
LEMMA SubmitFacts ==
    ASSUME NEW loud \in BOOLEAN,
           TypeOK, StopIsOwed, packets' = packets, held' = held, Submit(loud)
    PROVE  /\ Sources' /\ StopIsOwed' /\ stream' = stream
           /\ audio'.active => enabled
<1>1. CASE ~enabled
  BY <1>1, StopFacts, TypesOfSources DEF Submit, StopAudio
<1>2. CASE enabled /\ loud
  <2>1. audio' = [active |-> TRUE, life |-> AudioHold] /\ due' = 0 /\ UNCHANGED <<stream, owed, lost>>
    BY <1>2 DEF Submit
  <2>2. audio' \in Audios /\ audio'.active
    BY <2>1, SourceTypes
  <2>3. Sources'
    BY <2>1, <2>2, TypesOfSources, Bounds DEF Sources
  <2> QED BY <1>2, <2>1, <2>2, <2>3 DEF StopIsOwed
<1>3. CASE enabled /\ ~loud
  <2>1. CASE audio.active
    BY <1>3, <2>1, TypesOfSources, SourceTypes, Bounds DEF Submit, Order, Sources, StopIsOwed
  <2>2. CASE ~audio.active
    BY <1>3, <2>2, TypesOfSources, SourceTypes, Bounds DEF Submit, Sources, StopIsOwed
  <2> QED BY <2>1, <2>2
<1> QED BY <1>1, <1>2, <1>3

\* What is left of a time.
LEMMA LessFacts == \A n \in Nat : \A m \in 0..n : Less(m) \in 0..n
BY DEF Less

LEMMA InitSound == Init => Sound
BY SourceTypes, Bounds DEF Init, Sound, TypeOK, StopIsOwed, ActiveIsEnabled, SessionIsLocked,
   LockHasLink, LostInPoll, Off, Streams, Audios

-----------------------------------------------------------------------------
(* Every step keeps it.                                                    *)

\* The parts of Sound that are not of the sources, for a step that leaves the
\* link.
LEMMA PollKeeps ==
    ASSUME Sound, Polling, Sources', StopIsOwed', enabled' \in BOOLEAN,
           packets' \in 1..MaxStops, locked' \in BOOLEAN, locked' => locked,
           ActiveIsEnabled', SessionIsLocked'
    PROVE  Sound'
BY DEF Sound, TypeOK, Polling, linkVars, Sources, Streams, Audios, LockHasLink, LostInPoll, Connected

LEMMA CommandSound == Sound /\ Command => Sound'
<1> SUFFICES ASSUME Sound, Command PROVE Sound'
  OBVIOUS
<1>0. TypeOK /\ StopIsOwed /\ Sources /\ packets \in 1..MaxStops /\ enabled \in BOOLEAN
      /\ locked \in BOOLEAN
  BY TypesOfSources DEF Sound, TypeOK
<1>a. ActiveIsEnabled /\ SessionIsLocked
  BY DEF Sound
<1>1. CASE TestCommand
  <2>1. Polling /\ Update(TRUE, FALSE) /\ UNCHANGED <<enabled, packets, locked>> /\ held' = held
    BY <1>1 DEF TestCommand, Polling, linkVars
  <2>2. Sources' /\ StopIsOwed' /\ (stream'.active => enabled /\ ~stream'.session)
        /\ (audio'.active => audio' = audio)
    BY <1>0, <2>1, UpdateFacts
  <2> QED BY <1>0, <1>a, <2>1, <2>2, PollKeeps DEF ActiveIsEnabled, SessionIsLocked
<1>2. CASE StopCommand
  <2>1. Polling /\ StopAll /\ UNCHANGED <<enabled, packets, locked>> /\ held' = held
    BY <1>2 DEF StopCommand, Polling, linkVars
  <2>2. Sources' /\ StopIsOwed' /\ (stream'.active => stream' = stream)
        /\ (audio'.active => audio' = audio)
    BY <1>0, <2>1, StopFacts
  <2> QED BY <1>0, <1>a, <2>1, <2>2, PollKeeps DEF ActiveIsEnabled, SessionIsLocked
<1>3. CASE RoleCommand \/ SpeakerReset
  <2>1. Polling /\ (StopAll \/ StopAudio) /\ UNCHANGED <<enabled, packets, locked>> /\ held' = held
    BY <1>3 DEF RoleCommand, SpeakerReset, Polling, linkVars
  <2>2. Sources' /\ StopIsOwed' /\ (stream'.active => stream' = stream)
        /\ (audio'.active => audio' = audio)
    BY <1>0, <2>1, StopFacts
  <2> QED BY <1>0, <1>a, <2>1, <2>2, PollKeeps DEF ActiveIsEnabled, SessionIsLocked
<1>4. CASE ResetCommand
  <2>1. Polling /\ StopAll /\ UNCHANGED <<enabled, packets>> /\ held' = held /\ locked' = FALSE
    BY <1>4 DEF ResetCommand, ResetSession, Polling, linkVars
  <2>2. Sources' /\ StopIsOwed' /\ ~stream'.active /\ ~audio'.active
    BY <1>0, <2>1, StopFacts, SourceTypes, Bounds DEF StopAll, StopRegular
  <2> QED BY <1>0, <2>1, <2>2, PollKeeps DEF ActiveIsEnabled, SessionIsLocked
<1>5. CASE SettingsReset
  <2>1. Polling /\ enabled' = TRUE /\ packets' \in 1..MaxStops /\ locked' = FALSE
    BY <1>5 DEF SettingsReset, InitUsb
  <2>2. Sources' /\ StopIsOwed' /\ ~stream'.active /\ ~audio'.active
    BY <1>5, <2>1, SourceTypes, Bounds DEF SettingsReset, InitUsb, Sources, StopIsOwed
  <2> QED BY <2>1, <2>2, PollKeeps DEF ActiveIsEnabled, SessionIsLocked
<1>6. ASSUME NEW on \in BOOLEAN, EnableCommand(on) PROVE Sound'
  <2>1. Polling /\ enabled' = on /\ UNCHANGED <<packets, locked>> /\ held' = held
    BY <1>6 DEF EnableCommand, Polling, linkVars
  <2>2. CASE on
    <3>1. UNCHANGED <<stream, audio, owed, due, lost>>
      BY <1>6, <2>2 DEF EnableCommand, Keep
    <3>2. Sources' /\ StopIsOwed'
      BY <1>0, <2>1, <3>1 DEF Sources, StopIsOwed
    <3> QED BY <1>0, <1>a, <2>1, <2>2, <3>1, <3>2, PollKeeps DEF ActiveIsEnabled, SessionIsLocked
  <2>3. CASE ~on
    <3>1. StopAll
      BY <1>6, <2>3 DEF EnableCommand
    <3>2. Sources' /\ StopIsOwed' /\ ~stream'.active /\ ~audio'.active
      BY <1>0, <2>1, <3>1, StopFacts, SourceTypes, Bounds DEF StopAll, StopRegular
    <3> QED BY <1>0, <2>1, <3>2, PollKeeps DEF ActiveIsEnabled, SessionIsLocked
  <2> QED BY <2>2, <2>3
<1>7. ASSUME NEW n \in 1..MaxStops, TuneCommand(n) PROVE Sound'
  <2>1. Polling /\ packets' = n /\ UNCHANGED <<stream, audio, owed, due, lost, enabled, locked>>
        /\ held' = held
    BY <1>7 DEF TuneCommand, Keep, Polling, linkVars
  <2>2. Sources' /\ StopIsOwed'
    BY <1>0, <2>1 DEF Sources, StopIsOwed
  <2> QED BY <1>0, <1>a, <2>1, <2>2, PollKeeps DEF ActiveIsEnabled, SessionIsLocked
<1> QED BY <1>1, <1>2, <1>3, <1>4, <1>5, <1>6, <1>7 DEF Command

LEMMA LinkEventSound == Sound /\ LinkEvent => Sound'
<1> SUFFICES ASSUME Sound, LinkEvent PROVE Sound'
  OBVIOUS
<1>0. pc = "poll" /\ UNCHANGED <<sourceVars, pc>>
  BY DEF LinkEvent, LinkBegins, LinkReady, LinkGivenUp, LinkDown, Answered, Input, Event
<1>1. /\ UNCHANGED <<stream, audio, enabled, packets, owed, due, lost, pc>>
      /\ locked' \in BOOLEAN /\ (locked => locked')
      /\ held' \in {held, {}}
  BY DEF Sound, TypeOK, sourceVars, LinkEvent, LinkBegins, LinkReady, LinkGivenUp, LinkDown,
     Answered, Input, Event, linkVars
<1>2. /\ link' \in {"none", "part", "ready", "closing", "lost"}
      /\ acked' \in BOOLEAN /\ pending' \in BOOLEAN
      /\ held' # {} \/ pending' => link' \in {"ready", "closing"}
      /\ locked' => link' \in {"part", "ready", "closing", "lost"}
  <2>1. CASE LinkBegins
    BY <1>0, <2>1 DEF LinkBegins, Sound, TypeOK, LockHasLink, Connected, linkVars
  <2>2. CASE LinkReady
    BY <1>0, <2>2 DEF LinkReady, Sound, TypeOK, LockHasLink, Connected, linkVars
  <2>3. CASE LinkGivenUp
    BY <1>0, <2>3 DEF LinkGivenUp, Sound, TypeOK, LockHasLink, Connected, linkVars
  <2>4. CASE LinkDown
    BY <1>0, <2>4 DEF LinkDown, Sound, TypeOK, LockHasLink, Connected, linkVars
  <2>5. CASE Answered
    BY <1>0, <2>5 DEF Answered, Sound, TypeOK, LockHasLink, Connected, linkVars
  <2>6. CASE Input
    BY <1>0, <2>6 DEF Input, Sound, TypeOK, LockHasLink, Connected, linkVars
  <2> QED BY <2>1, <2>2, <2>3, <2>4, <2>5, <2>6 DEF LinkEvent
<1>3. TypeOK'
  BY <1>1, <1>2 DEF Sound, TypeOK
<1>4. StopIsOwed' /\ ActiveIsEnabled' /\ SessionIsLocked'
  BY <1>1 DEF Sound, StopIsOwed, ActiveIsEnabled, SessionIsLocked
<1> QED BY <1>0, <1>1, <1>2, <1>3, <1>4 DEF Sound, LockHasLink, LostInPoll, Connected

LEMMA SessionSound == Sound /\ (PollDone \/ SessionTick) => Sound'
<1> SUFFICES ASSUME Sound, PollDone \/ SessionTick PROVE Sound'
  OBVIOUS
<1>1. CASE PollDone
  BY <1>1 DEF Sound, PollDone, TypeOK, StopIsOwed, ActiveIsEnabled, SessionIsLocked, LockHasLink,
     LostInPoll, Connected, sourceVars
<1>2. CASE SessionTick
  <2>1. /\ pc = "session" /\ pc' = "output"
        /\ UNCHANGED <<enabled, packets, link, acked, pending, held>>
    BY <1>2 DEF SessionTick, linkVars
  <2>2. CASE locked /\ ~Connected
    <3>1. StopAll /\ locked' = FALSE
      BY <1>2, <2>2 DEF SessionTick, ResetSession
    <3>2. Sources' /\ StopIsOwed' /\ ~stream'.active /\ ~audio'.active
      BY <2>1, <3>1, StopFacts, TypesOfSources, SourceTypes, Bounds DEF Sound, StopAll, StopRegular
    <3> QED BY <2>1, <3>1, <3>2 DEF Sound, TypeOK, Sources, Streams, Audios, ActiveIsEnabled,
              SessionIsLocked, LockHasLink, LostInPoll, Connected
  <2>3. CASE ~(locked /\ ~Connected)
    BY <1>2, <2>1, <2>3 DEF SessionTick, Sound, TypeOK, StopIsOwed, ActiveIsEnabled,
       SessionIsLocked, LockHasLink, LostInPoll, Connected
  <2> QED BY <2>2, <2>3
<1> QED BY <1>1, <1>2

\* A step of the main loop after the session tick that leaves link and lock.
LEMMA OutputKeeps ==
    ASSUME Sound, Sources', StopIsOwed', ActiveIsEnabled', SessionIsLocked',
           UNCHANGED <<enabled, packets, linkVars, locked>>,
           pc \in {"output", "rumble", "audio"}, pc' \in {"rumble", "audio", "poll"}
    PROVE  Sound'
BY DEF Sound, TypeOK, linkVars, Sources, Streams, Audios, LockHasLink, LostInPoll, Connected

LEMMA OutputSound == Sound /\ (HostReport \/ NoReport \/ AudioBlock \/ NoBlock) => Sound'
<1> SUFFICES ASSUME Sound, HostReport \/ NoReport \/ AudioBlock \/ NoBlock PROVE Sound'
  OBVIOUS
<1>0. TypeOK /\ StopIsOwed /\ Sources /\ packets \in 1..MaxStops /\ locked \in BOOLEAN
  BY TypesOfSources DEF Sound, TypeOK
<1>a. ActiveIsEnabled /\ SessionIsLocked
  BY DEF Sound
<1>1. CASE HostReport
  <2>1. /\ pc = "output" /\ pc' = "rumble" /\ UNCHANGED <<enabled, packets, linkVars, locked>>
        /\ held' = held
    BY <1>1 DEF HostReport, linkVars
  <2>2. ASSUME NEW loud \in BOOLEAN, Update(loud, locked) PROVE Sound'
    <3>1. Sources' /\ StopIsOwed' /\ (stream'.active => enabled /\ stream'.session = locked)
          /\ (audio'.active => audio' = audio)
      BY <1>0, <2>1, <2>2, UpdateFacts
    <3> QED BY <1>a, <2>1, <3>1, OutputKeeps DEF ActiveIsEnabled, SessionIsLocked
  <2>3. CASE StopRegular /\ UNCHANGED audio
    <3>1. Sources' /\ StopIsOwed' /\ (stream'.active => stream' = stream)
      BY <1>0, <2>1, <2>3, StopFacts
    <3> QED BY <1>a, <2>1, <2>3, <3>1, OutputKeeps DEF ActiveIsEnabled, SessionIsLocked
  <2> QED BY <1>1, <2>2, <2>3 DEF HostReport
<1>2. CASE NoReport \/ NoBlock
  BY <1>2 DEF NoReport, NoBlock, Sound, TypeOK, StopIsOwed, ActiveIsEnabled, SessionIsLocked,
     LockHasLink, LostInPoll, Connected, sourceVars, linkVars
<1>3. CASE AudioBlock
  <2>1. /\ pc = "audio" /\ pc' = "poll" /\ UNCHANGED <<enabled, packets, linkVars, locked>>
        /\ held' = held /\ locked
    BY <1>3 DEF AudioBlock, linkVars
  <2>2. CASE StopAudio
    <3>1. Sources' /\ StopIsOwed' /\ (stream'.active => stream' = stream)
          /\ (audio'.active => audio' = audio)
      BY <1>0, <2>1, <2>2, StopFacts
    <3> QED BY <1>a, <2>1, <3>1, OutputKeeps DEF ActiveIsEnabled, SessionIsLocked
  <2>3. ASSUME NEW loud \in BOOLEAN, Submit(loud) PROVE Sound'
    <3>1. Sources' /\ StopIsOwed' /\ stream' = stream /\ (audio'.active => enabled)
      BY <1>0, <2>1, <2>3, SubmitFacts
    <3> QED BY <1>a, <2>1, <3>1, OutputKeeps DEF ActiveIsEnabled, SessionIsLocked
  <2> QED BY <1>3, <2>2, <2>3 DEF AudioBlock
<1> QED BY <1>1, <1>2, <1>3

\* The scheduler: what it ends it orders stop packets for, and it counts one
\* down only with its write.
LEMMA TaskFacts ==
    ASSUME Sound, RumbleTask
    PROVE  /\ Sources' /\ StopIsOwed' /\ held' \subseteq Source
           /\ pending' \in BOOLEAN /\ (pending' => pending \/ link = "ready")
           /\ held' # {} => held # {} \/ link = "ready"
           /\ stream'.active => stream.active /\ stream'.session = stream.session
           /\ audio'.active => audio.active
<1>0. TypeOK /\ Sources /\ packets \in 1..MaxStops /\ StopIsOwed
  BY TypesOfSources DEF Sound
<1>v. Vibration \subseteq Source
  BY DEF Vibration, Source
<1>1. CASE ~IsDue
  BY <1>0, <1>1 DEF RumbleTask, Sources, StopIsOwed, TypeOK
<1>2. CASE IsDue
  <2>1. EndSources /\ UNCHANGED <<packets, acked, link>>
    BY <1>2 DEF RumbleTask
  <2>2. /\ stream' \in Streams /\ audio' \in Audios
        /\ stream'.active = GameOn /\ audio'.active = AudioOn
        /\ stream'.session = stream.session
    BY <1>0, <2>1 DEF EndSources, Sources, Streams, Audios, GameOn, AudioOn
  <2>3. (GameOn => stream.active) /\ (AudioOn => audio.active)
    BY DEF GameOn, AudioOn
  <2>4. /\ Owed \in 0..MaxStops /\ Ended \in BOOLEAN /\ (Ended => Owed > 0)
        /\ (~Ended => Owed = owed /\ (stream.active => GameOn) /\ (audio.active => AudioOn))
    BY <1>0 DEF Owed, Ended, Expired, GameOn, AudioOn, Sources, Audios
  <2>5. acked \in BOOLEAN /\ pending \in BOOLEAN /\ held \subseteq Source /\ lost \in BOOLEAN
    BY <1>0 DEF TypeOK
  <2>6. CASE GameOn \/ AudioOn
    <3>1. /\ owed' = Owed /\ lost' = (lost /\ ~Ended)
          /\ due' = IF AudioOn THEN AudioTick ELSE Tick
          /\ Taken(Vibration) \/ Refused
      BY <1>2, <2>6 DEF RumbleTask
    <3>2. Sources'
      BY <2>2, <2>4, <2>5, <3>1, Bounds DEF Sources
    <3>3. StopIsOwed'
      BY <2>2, <2>6 DEF StopIsOwed
    <3> QED BY <1>v, <2>2, <2>3, <2>5, <3>1, <3>2, <3>3 DEF Taken, Refused
  <2>7. CASE ~GameOn /\ ~AudioOn /\ Owed > 0
    <3>1. /\ owed' = Owed - 1 /\ due' = Tick
          /\ \/ Taken({}) /\ lost' = (lost /\ ~Ended)
             \/ Refused /\ lost' = TRUE
      BY <1>2, <2>7 DEF RumbleTask
    <3>2. Sources'
      BY <2>2, <2>4, <2>5, <2>7, <3>1, Bounds DEF Sources
    <3>3. StopIsOwed'
      BY <3>1 DEF StopIsOwed, Taken
    <3> QED BY <2>2, <2>3, <2>5, <3>1, <3>2, <3>3 DEF Taken, Refused
  <2>8. CASE ~GameOn /\ ~AudioOn /\ Owed = 0
    <3>1. UNCHANGED <<owed, due, lost, pending, held>>
      BY <1>2, <2>8 DEF RumbleTask
    <3>2. ~stream.active /\ ~audio.active
      BY <2>4, <2>8
    <3> QED BY <1>0, <2>2, <2>3, <2>5, <3>1, <3>2 DEF Sources, StopIsOwed
  <2>9. GameOn \/ AudioOn \/ Owed > 0 \/ Owed = 0
    BY <2>4
  <2> QED BY <2>6, <2>7, <2>8, <2>9
<1> QED BY <1>1, <1>2

LEMMA TaskSound == Sound /\ RumbleTask => Sound'
<1> SUFFICES ASSUME Sound, RumbleTask PROVE Sound'
  OBVIOUS
<1>1. pc = "rumble" /\ pc' = "audio" /\ UNCHANGED <<enabled, packets, link, acked, locked>>
  BY DEF RumbleTask
<1> QED BY <1>1, TaskFacts DEF Sound, TypeOK, Sources, Streams, Audios, ActiveIsEnabled,
          SessionIsLocked, LockHasLink, LostInPoll, Connected

LEMMA ElapseSound == Sound /\ Elapse => Sound'
<1> SUFFICES ASSUME Sound, Elapse PROVE Sound'
  OBVIOUS
<1>1. Sources
  BY TypesOfSources DEF Sound
<1>2. /\ stream' = [stream EXCEPT !.life = Less(@)] /\ audio' = [audio EXCEPT !.life = Less(@)]
      /\ due' = Less(due)
      /\ UNCHANGED <<enabled, packets, owed, lost, link, acked, pending, held, locked, pc>>
  BY DEF Elapse, linkVars
<1>3. Less(stream.life) \in 0..Hold /\ Less(audio.life) \in 0..AudioHold /\ Less(due) \in 0..Tick
  BY <1>1, LessFacts DEF Sources, Streams, Audios
<1>4. /\ stream' \in Streams /\ stream'.active = stream.active /\ stream'.session = stream.session
      /\ audio' \in Audios /\ audio'.active = audio.active
  BY <1>1, <1>2, <1>3 DEF Sources, Streams, Audios
<1> QED BY <1>2, <1>3, <1>4 DEF Sound, TypeOK, Streams, Audios, StopIsOwed, ActiveIsEnabled,
          SessionIsLocked, LockHasLink, LostInPoll, Connected

\* The inductive invariant holds throughout.
THEOREM AlwaysSound == Spec => []Sound
<1>1. Sound /\ [Next]_vars => Sound'
  <2> SUFFICES ASSUME Sound, [Next]_vars PROVE Sound'
    OBVIOUS
  <2>1. CASE UNCHANGED vars
    BY <2>1 DEF vars, sourceVars, linkVars, Sound, TypeOK, StopIsOwed, ActiveIsEnabled,
       SessionIsLocked, LockHasLink, LostInPoll, Connected
  <2>2. CASE Loop
    BY <2>2, SessionSound, OutputSound, TaskSound DEF Loop
  <2> QED BY <2>1, <2>2, CommandSound, LinkEventSound, ElapseSound DEF Next
<1> QED BY InitSound, <1>1, PTL DEF Spec

-----------------------------------------------------------------------------
(* The properties of the runs.                                             *)

\* A write is waited for, and a vibration held, on a link that was ready only.
THEOREM TypeCorrect == Spec => []TypeOK
<1>1. Sound => TypeOK
  BY DEF Sound
<1> QED BY <1>1, AlwaysSound, PTL

\* Whatever ends the sources, a controller left vibrating is owed a stop, or
\* refused one.
THEOREM StopsAreOwed == Spec => []StopIsOwed
<1>1. Sound => StopIsOwed
  BY DEF Sound
<1> QED BY <1>1, AlwaysSound, PTL

\* While the time of a source runs nothing without it is given out.
THEOREM NeverStoppedMidway == Spec => NoStopMidway
<1>1. Sound /\ [Next]_vars =>
        [pc = "rumble" /\ held' # held =>
            /\ stream.active /\ stream.loud /\ stream.life > 0 => "game" \in held'
            /\ audio.active /\ audio.life > 0 => "audio" \in held']_vars
  <2> SUFFICES ASSUME Next, pc = "rumble", held' # held
               PROVE  /\ stream.active /\ stream.loud /\ stream.life > 0 => "game" \in held'
                      /\ audio.active /\ audio.life > 0 => "audio" \in held'
    BY DEF vars, linkVars
  <2>1. RumbleTask
    BY DEF Next, Command, TestCommand, StopCommand, RoleCommand, SpeakerReset, ResetCommand,
       SettingsReset, EnableCommand, TuneCommand, Polling, LinkEvent, LinkBegins, LinkReady,
       LinkGivenUp, LinkDown, Answered, Input, Event, Loop, PollDone, SessionTick, HostReport,
       NoReport, AudioBlock, NoBlock, Elapse, linkVars
  <2>2. \/ (GameOn \/ AudioOn) /\ held' = Vibration
        \/ ~GameOn /\ ~AudioOn
    BY <2>1 DEF RumbleTask, Taken, Refused
  <2> QED BY <2>2 DEF GameOn, AudioOn, Vibration
<1> QED BY <1>1, AlwaysSound, PTL DEF Spec, NoStopMidway

\* A source is ended before its time by its own reports, or by what stops all.
THEOREM LifetimesAreOwn == Spec => OwnLifetimes
<1>1. Sound /\ [Next]_vars =>
        [/\ stream.active /\ stream.life > 0 /\ ~stream'.active => pc \in {"poll", "session", "output"}
         /\ audio.active /\ audio.life > 0 /\ ~audio'.active => pc \in {"poll", "session", "audio"}]_vars
  <2> SUFFICES ASSUME Sound, Next
               PROVE  /\ pc \in {"rumble", "audio"} /\ stream.active /\ stream.life > 0 => stream'.active
                      /\ pc \in {"output", "rumble"} /\ audio.active /\ audio.life > 0 => audio'.active
    BY DEF Sound, TypeOK, vars, sourceVars
  <2>0. Sources /\ ActiveIsEnabled
    BY TypesOfSources DEF Sound
  <2>1. CASE Command \/ LinkEvent
    BY <2>1 DEF Command, TestCommand, StopCommand, RoleCommand, SpeakerReset, ResetCommand,
       SettingsReset, EnableCommand, TuneCommand, Polling, LinkEvent, LinkBegins, LinkReady,
       LinkGivenUp, LinkDown, Answered, Input, Event
  <2>2. CASE PollDone \/ SessionTick \/ NoReport \/ NoBlock
    BY <2>2 DEF PollDone, SessionTick, NoReport, NoBlock, sourceVars
  <2>3. CASE HostReport
    BY <2>0, <2>3 DEF HostReport, Update, ActiveIsEnabled
  <2>4. CASE AudioBlock
    BY <2>0, <2>4 DEF AudioBlock, StopAudio, Submit
  <2>5. CASE RumbleTask
    BY <2>0, <2>5 DEF RumbleTask, EndSources, GameOn, AudioOn, Sources, Streams, Audios
  <2>6. CASE Elapse
    BY <2>0, <2>6 DEF Elapse, Sources, Streams, Audios
  <2> QED BY <2>1, <2>2, <2>3, <2>4, <2>5, <2>6 DEF Next, Loop
<1> QED BY <1>1, AlwaysSound, PTL DEF Spec, OwnLifetimes

\* The next controller finds nothing of the session before.
THEOREM StartsClean == Spec => CleanStart
<1>1. Sound /\ [Next]_vars =>
        [link = "none" /\ link' = "part" => ~audio.active /\ ~(stream.active /\ stream.session)]_vars
  <2> SUFFICES ASSUME Sound, Next, link = "none", link' = "part"
               PROVE  ~audio.active /\ ~(stream.active /\ stream.session)
    BY DEF vars, linkVars
  <2>1. pc = "poll"
    BY DEF Next, Command, TestCommand, StopCommand, RoleCommand, SpeakerReset, ResetCommand,
       SettingsReset, EnableCommand, TuneCommand, Polling, LinkEvent, LinkBegins, LinkReady,
       LinkGivenUp, LinkDown, Answered, Input, Event, Loop, PollDone, SessionTick, HostReport,
       NoReport, RumbleTask, AudioBlock, NoBlock, Elapse, linkVars
  <2>2. ~locked
    BY <2>1 DEF Sound, LockHasLink, Connected
  <2> QED BY <2>2 DEF Sound, SessionIsLocked
<1> QED BY <1>1, AlwaysSound, PTL DEF Spec, CleanStart

\* All three: each source vibrates for its own time.
THEOREM SourcesStayApart == Spec => SourcesAreApart
BY NeverStoppedMidway, LifetimesAreOwn, StartsClean DEF SourcesAreApart
=============================================================================
