------------------------- MODULE ArbitrationProofs -------------------------
(***************************************************************************)
(* The invariants of Arbitration.  The inductive invariant adds where the  *)
(* input of a lost link may still be: only between the poll that loses it  *)
(* and the end of that round of the main loop.                             *)
(***************************************************************************)
EXTENDS Arbitration, TLAPS

-----------------------------------------------------------------------------
(* The inductive invariant.                                                *)

\* Input without a link is of a link lost in this round.
InputHasLink ==
    physical # Any =>
        /\ radio[physical].link # "part"
        /\ pc = "poll" /\ radio[physical].link = "none" => physical \in dropped

\* In a session tick a lock has been applied.
LockApplied == pc = "session" /\ locked => applied

\* Only a controller that was accepted locks, also by a report that is no input.
LockAccepted == locked => Accepts(active)

Sound == TypeOK /\ OneSource /\ RadiosFollow /\ IntentOwned /\ InputHasLink /\ LockApplied
         /\ LockAccepted

-----------------------------------------------------------------------------
(* The radios.                                                             *)

\* Every operator on a radio leaves a radio, and says what it leaves.
LEMMA RadioFacts ==
    ASSUME NEW r \in Radio, NEW s \in Source, NEW b \in BOOLEAN
    PROVE  /\ Close(r) \in Radio /\ Close(r).on = r.on /\ Close(r).intent = r.intent
           /\ TurnedOff(r) \in Radio /\ ~TurnedOff(r).on /\ TurnedOff(r).intent = r.intent
           /\ Cancelled(r) \in Radio /\ ~Cancelled(r).intent /\ Cancelled(r).on = r.on
           /\ TurnedOn(r, s, b) \in Radio /\ TurnedOn(r, s, b).on
           /\ TurnedOn(r, s, b).intent => r.intent
           /\ Started(r) \in Radio /\ Started(r).on
           /\ StartedInVain(r) \in Radio /\ StartedInVain(r).on /\ ~StartedInVain(r).intent
           /\ Stopped(r, b) \in Radio /\ Stopped(r, b).on = r.on
BY DEF Radio, Close, TurnedOff, Cancelled, TurnedOn, Started, StartedInVain, Stopped

\* No operator on a radio brings its link up.
LEMMA LinkFacts ==
    ASSUME NEW r \in Radio, NEW s \in Source, NEW b \in BOOLEAN, r.link # "up"
    PROVE  /\ Close(r).link # "up" /\ TurnedOff(r).link # "up" /\ Cancelled(r).link # "up"
           /\ TurnedOn(r, s, b).link # "up" /\ Started(r).link # "up"
           /\ StartedInVain(r).link # "up" /\ Stopped(r, b).link # "up"
BY DEF Radio, Close, TurnedOff, Cancelled, TurnedOn, Started, StartedInVain, Stopped

Choice == Source \cup {Any}

Radios == [Source -> Radio]

LEMMA ApplyFacts ==
    ASSUME NEW r \in Radios, NEW p \in Choice, NEW t \in Choice, NEW b \in BOOLEAN
    PROVE  /\ ApplyTo(r, p, t, b) \in Radios
           /\ \A s \in Source :
                 /\ ApplyTo(r, p, t, b)[s].on <=> Allowed(p, t, s)
                 /\ ApplyTo(r, p, t, b)[s].intent => r[s].intent
                 /\ r[s].link # "up" => ApplyTo(r, p, t, b)[s].link # "up"
<1>1. ASSUME NEW s \in Source
      PROVE  /\ r[s] \in Radio
             /\ TurnedOn(r[s], s, b) \in Radio /\ TurnedOff(r[s]) \in Radio
             /\ TurnedOn(r[s], s, b).on /\ ~TurnedOff(r[s]).on
             /\ TurnedOn(r[s], s, b).intent => r[s].intent
             /\ TurnedOff(r[s]).intent => r[s].intent
             /\ r[s].link # "up" => /\ TurnedOn(r[s], s, b).link # "up"
                                    /\ TurnedOff(r[s]).link # "up"
  BY RadioFacts, LinkFacts DEF Radios
<1> QED  BY <1>1 DEF ApplyTo, Radios

\* What Reset leaves of radios that have just been told to give up the intent
LEMMA ResetFacts ==
    ASSUME NEW r \in Radios, NEW p \in Choice,
           NEW c, c = [s \in Source |-> Cancelled(r[s])]
    PROVE  /\ ApplyTo(c, p, Any, FALSE) \in Radios
           /\ \A s \in Source :
                 /\ ApplyTo(c, p, Any, FALSE)[s].on <=> Allowed(p, Any, s)
                 /\ ~ApplyTo(c, p, Any, FALSE)[s].intent
                 /\ r[s].link # "up" => ApplyTo(c, p, Any, FALSE)[s].link # "up"
<1>1. c \in Radios /\ \A s \in Source : /\ ~c[s].intent
                                        /\ r[s].link # "up" => c[s].link # "up"
  <2>1. ASSUME NEW s \in Source
        PROVE  /\ Cancelled(r[s]) \in Radio /\ ~Cancelled(r[s]).intent
               /\ r[s].link # "up" => Cancelled(r[s]).link # "up"
    <3>1. r[s] \in Radio
      BY DEF Radios
    <3>2. \A b \in BOOLEAN : r[s].link # "up" => Cancelled(r[s]).link # "up"
      BY <3>1, LinkFacts
    <3> QED  BY <3>1, <3>2, RadioFacts
  <2> QED  BY <2>1 DEF Radios
<1> QED  BY <1>1, ApplyFacts DEF Choice

-----------------------------------------------------------------------------
(* Every step keeps the invariant.                                         *)

\* A session that is reset, with the radios left in any state r that follows
\* the preference p: the commands and auto_session_tick
LEMMA ResetSessionSound ==
    ASSUME TypeOK, NEW p \in Choice, NEW r \in Radios, preference' = p, ResetSession(r),
           dropped' \subseteq Source, pc' \in {"poll", "manager", "lock", "session"},
           \A s \in Source : (r[s].on <=> Allowed(p, Any, s)) /\ ~r[s].intent
    PROVE  Sound'
<1>1. /\ locked' = FALSE /\ active' = Ds5 /\ applied' = FALSE /\ physical' = Any
      /\ target' = Any /\ radio' = r /\ elapsed' = elapsed
  BY DEF ResetSession, Detect, Unlock
<1>2. TypeOK'
  BY <1>1 DEF TypeOK, Choice, Radios, Source
<1> QED
  BY <1>1, <1>2 DEF Sound, OneSource, RadiosFollow, IntentOwned, InputHasLink, LockApplied, LockAccepted, Accepts

LEMMA AttemptSound ==
    ASSUME Sound, NEW s \in Source, NEW r \in Radio, r.on, Attempt(s, r),
           dropped' = dropped, pc' = "lock"
    PROVE  /\ Sound'
           /\ \A x \in Source : x # s /\ radio[x].link # "up" => radio'[x].link # "up"
<1> DEFINE c == [x \in Source |-> Cancelled(radio[x])]
           q == ApplyTo(c, preference, Any, FALSE)
<1>1. radio \in Radios /\ preference \in Choice /\ s \in Choice /\ dropped \subseteq Source
  BY DEF Sound, TypeOK, Radios, Choice
<1>2. /\ q \in Radios
      /\ \A x \in Source : ~q[x].intent /\ (radio[x].link # "up" => q[x].link # "up")
  BY <1>1, ResetFacts
<1>3. Begin(s) = ApplyTo(q, preference, s, FALSE)
  BY DEF Begin, Reset
<1> HIDE DEF q
<1>4. /\ Begin(s) \in Radios
      /\ \A x \in Source : /\ Begin(s)[x].on <=> Allowed(preference, s, x)
                           /\ ~Begin(s)[x].intent
                           /\ radio[x].link # "up" => Begin(s)[x].link # "up"
  <2> DEFINE a == ApplyTo(q, preference, s, FALSE)
  <2>1. /\ a \in Radios
        /\ \A x \in Source : /\ a[x].on <=> Allowed(preference, s, x)
                             /\ a[x].intent => q[x].intent
                             /\ q[x].link # "up" => a[x].link # "up"
    BY <1>1, <1>2, ApplyFacts
  <2> HIDE DEF a
  <2>2. Begin(s) = a
    BY <1>3 DEF a
  <2>3. ASSUME NEW x \in Source
        PROVE  /\ Begin(s)[x].on <=> Allowed(preference, s, x)
               /\ ~Begin(s)[x].intent
               /\ radio[x].link # "up" => Begin(s)[x].link # "up"
    <3>1. /\ a[x].on <=> Allowed(preference, s, x)
          /\ a[x].intent => q[x].intent
          /\ q[x].link # "up" => a[x].link # "up"
      BY <2>1
    <3>2. ~q[x].intent /\ (radio[x].link # "up" => q[x].link # "up")
      BY <1>2
    <3> QED  BY <2>2, <3>1, <3>2
  <2> QED  BY <2>1, <2>2, <2>3
<1>5. /\ locked' = FALSE /\ active' = Ds5 /\ applied' = FALSE /\ physical' = Any
      /\ target' = s /\ elapsed' = FALSE /\ preference' = preference
      /\ radio' = [Begin(s) EXCEPT ![s] = r]
  BY DEF Attempt, Detect, Unlock
<1>6. /\ radio' \in Radios /\ radio'[s] = r
      /\ \A x \in Source : x # s => radio'[x] = Begin(s)[x]
  BY <1>4, <1>5 DEF Radios
<1>7. Allowed(preference, s, s)
  BY ArbitrationAssumption DEF Allowed, Effective, Source
<1>8. ASSUME NEW x \in Source
      PROVE  /\ radio'[x].on <=> Accepts(x)'
             /\ radio'[x].intent => target' = x
             /\ x # s /\ radio[x].link # "up" => radio'[x].link # "up"
  <2>1. CASE x = s
    BY <1>5, <1>6, <1>7, <2>1 DEF Accepts
  <2>2. CASE x # s
    <3>1. radio'[x] = Begin(s)[x]
      BY <1>6, <2>2
    <3>2. /\ Begin(s)[x].on <=> Allowed(preference, s, x)
          /\ ~Begin(s)[x].intent
          /\ radio[x].link # "up" => Begin(s)[x].link # "up"
      BY <1>4
    <3> QED  BY <1>5, <3>1, <3>2 DEF Accepts
  <2> QED  BY <2>1, <2>2
<1>10. RadiosFollow' /\ IntentOwned'
  BY <1>5, <1>8 DEF RadiosFollow, IntentOwned
<1>9. TypeOK'
  BY <1>1, <1>5, <1>6 DEF TypeOK, Choice, Radios, Source
<1>11. OneSource' /\ InputHasLink' /\ LockApplied' /\ LockAccepted'
  BY <1>5 DEF OneSource, InputHasLink, LockApplied, LockAccepted
<1>12. \A x \in Source : x # s /\ radio[x].link # "up" => radio'[x].link # "up"
  BY <1>8
<1> QED  BY <1>9, <1>10, <1>11, <1>12 DEF Sound

LEMMA CommandSound == Sound /\ Command => Sound'
<1> SUFFICES ASSUME Sound, Command PROVE Sound'
  OBVIOUS
<1>1. /\ TypeOK /\ OneSource /\ RadiosFollow /\ IntentOwned /\ InputHasLink
      /\ LockAccepted /\ pc = "manager" /\ pc' = "lock" /\ dropped' = dropped /\ dropped \subseteq Source
      /\ radio \in Radios /\ preference \in Choice /\ Any \in Choice
  BY DEF Sound, Command, TypeOK, Radios, Choice
<1>2. ASSUME NEW s \in Source, Connect(s) PROVE Sound'
  <2>1. Begin(s)[s] \in Radio
    <3>1. Reset(preference) \in Radios
      BY <1>1, ResetFacts DEF Reset
    <3>2. ApplyTo(Reset(preference), preference, s, FALSE) \in Radios
      BY <1>1, <3>1, ApplyFacts DEF Choice
    <3> QED  BY <3>2 DEF Begin, Radios
  <2>2. /\ Started(Begin(s)[s]) \in Radio /\ Started(Begin(s)[s]).on
        /\ StartedInVain(Begin(s)[s]) \in Radio /\ StartedInVain(Begin(s)[s]).on
    BY <2>1, RadioFacts
  <2> QED  BY <1>1, <1>2, <2>2, AttemptSound DEF Connect
<1>3. ASSUME NEW s \in Source, Disconnect(s) PROVE Sound'
  <2>1. PICK intent \in {FALSE} \cup IF s = Ds5 THEN {radio[s].intent} ELSE {} :
            LET r == [radio EXCEPT ![s] = Stopped(@, intent)]
            IN  IF Selected(s)
                THEN /\ ResetSession(ApplyTo([x \in Source |-> Cancelled(r[x])], preference, Any, FALSE))
                     /\ UNCHANGED preference
                ELSE radio' = r /\ UNCHANGED <<policyVars, lockVars, physical>>
    BY <1>3 DEF Disconnect
  <2> DEFINE r == [radio EXCEPT ![s] = Stopped(@, intent)]
             c == [x \in Source |-> Cancelled(r[x])]
  <2>2. intent \in BOOLEAN /\ (intent => radio[s].intent) /\ radio[s] \in Radio
    BY <1>1 DEF Radios, Radio
  <2>3. /\ Stopped(radio[s], intent) \in Radio /\ Stopped(radio[s], intent).on = radio[s].on
        /\ Stopped(radio[s], intent).intent => radio[s].intent
        /\ Stopped(radio[s], intent).link # "part" \/ radio[s].link = "part"
    BY <2>2 DEF Stopped, Close, Radio
  <2>4. r \in Radios /\ r[s] = Stopped(radio[s], intent)
        /\ \A x \in Source : x # s => r[x] = radio[x]
    BY <1>1, <2>3 DEF Radios
  <2>5. CASE Selected(s)
    <3>1. ResetSession(ApplyTo(c, preference, Any, FALSE)) /\ preference' = preference
      BY <2>1, <2>5
    <3> HIDE DEF r
    <3>2. /\ ApplyTo(c, preference, Any, FALSE) \in Radios
          /\ \A x \in Source : /\ ApplyTo(c, preference, Any, FALSE)[x].on
                                    <=> Allowed(preference, Any, x)
                               /\ ~ApplyTo(c, preference, Any, FALSE)[x].intent
      BY <1>1, <2>4, ResetFacts
    <3> HIDE DEF c
    <3> QED  BY <1>1, <3>1, <3>2, ResetSessionSound
  <2>6. CASE ~Selected(s)
    <3>1. radio' = r /\ UNCHANGED <<preference, target, elapsed, locked, active, applied, physical>>
      BY <2>1, <2>6 DEF policyVars, lockVars
    <3> HIDE DEF r
    <3>2. physical # s
      BY <1>1, <2>6, ArbitrationAssumption DEF OneSource, Selected, Source
    <3>3. TypeOK'
      BY <1>1, <2>4, <3>1 DEF TypeOK, Radios
    <3>4. OneSource' /\ RadiosFollow' /\ IntentOwned'
      BY <1>1, <2>2, <2>3, <2>4, <3>1 DEF OneSource, RadiosFollow, IntentOwned, Accepts
    <3>6. LockAccepted'
      BY <1>1, <3>1 DEF LockAccepted, Accepts
    <3>5. InputHasLink' /\ LockApplied'
      BY <1>1, <2>4, <3>1, <3>2 DEF InputHasLink, LockApplied, TypeOK
    <3> QED  BY <3>3, <3>4, <3>5, <3>6 DEF Sound
  <2> QED  BY <2>5, <2>6
<1>4. ASSUME NEW p \in Choice, Prefer(p) PROVE Sound'
  <2>1. /\ Reset(p) \in Radios
        /\ \A s \in Source : ~Reset(p)[s].intent
    BY <1>1, ResetFacts DEF Reset
  <2>2. /\ ApplyTo(Reset(p), p, Any, TRUE) \in Radios
        /\ \A s \in Source : /\ ApplyTo(Reset(p), p, Any, TRUE)[s].on <=> Allowed(p, Any, s)
                             /\ ~ApplyTo(Reset(p), p, Any, TRUE)[s].intent
    BY <1>1, <2>1, ApplyFacts
  <2> QED  BY <1>1, <1>4, <2>2, ResetSessionSound DEF Prefer
<1>5. CASE ResetDetect
  <2>1. /\ Reset(preference) \in Radios
        /\ \A s \in Source : /\ Reset(preference)[s].on <=> Allowed(preference, Any, s)
                             /\ ~Reset(preference)[s].intent
    BY <1>1, ResetFacts DEF Reset
  <2> QED  BY <1>1, <1>5, <2>1, ResetSessionSound DEF ResetDetect
<1>6. ASSUME NEW on \in BOOLEAN, NsAuto(on) PROVE Sound'
  <2>1. /\ radio' = [radio EXCEPT ![Ns2].intent = FALSE, ![Ns2].suppressed = @ /\ ~on]
        /\ UNCHANGED <<preference, target, elapsed, locked, active, applied, physical>>
    BY <1>6 DEF NsAuto, policyVars, lockVars
  <2>2. /\ radio' \in Radios
        /\ \A s \in Source : /\ radio'[s].on = radio[s].on /\ radio'[s].link = radio[s].link
                             /\ radio'[s].intent => radio[s].intent
    BY <1>1, <2>1 DEF Radios, Radio
  <2>3. TypeOK'
    BY <1>1, <2>1, <2>2 DEF TypeOK, Radios
  <2>4. OneSource' /\ LockAccepted'
    BY <1>1, <2>1 DEF OneSource, LockAccepted, Accepts
  <2>6. ASSUME NEW x \in Source
        PROVE  /\ radio'[x].on <=> IF applied' THEN x = active' ELSE Accepts(x)'
               /\ radio'[x].intent => target' = x
    <3>1. /\ radio[x].on <=> IF applied THEN x = active ELSE Accepts(x)
          /\ radio[x].intent => target = x
      BY <1>1 DEF RadiosFollow, IntentOwned
    <3>2. radio'[x].on = radio[x].on /\ (radio'[x].intent => radio[x].intent)
      BY <2>2
    <3> QED  BY <2>1, <3>1, <3>2 DEF Accepts
  <2>7. RadiosFollow' /\ IntentOwned'
    BY <2>6 DEF RadiosFollow, IntentOwned
  <2>5. InputHasLink' /\ LockApplied'
    BY <1>1, <2>1, <2>2 DEF InputHasLink, LockApplied, TypeOK, Choice
  <2> QED  BY <2>3, <2>4, <2>5, <2>7 DEF Sound
<1> QED  BY <1>2, <1>3, <1>4, <1>5, <1>6 DEF Command, Choice

-----------------------------------------------------------------------------
(* The radios report, and the main loop goes on.                           *)

\* A step of a radio that leaves its switch, and no intent that was not there
LEMMA RelinkSound ==
    ASSUME Sound, Polled, NEW s \in Source, UNCHANGED lockVars, UNCHANGED physical,
           radio' \in Radios, \A x \in Source : x # s => radio'[x] = radio[x],
           radio'[s].on = radio[s].on, radio'[s].intent => radio[s].intent,
           dropped' \in {dropped, dropped \cup {s}},
           physical = s => /\ radio'[s].link # "part"
                           /\ radio'[s].link = "none" => s \in dropped'
    PROVE  Sound'
<1>1. /\ UNCHANGED <<preference, target, elapsed, locked, active, applied, physical, pc>>
      /\ TypeOK /\ OneSource /\ RadiosFollow /\ IntentOwned /\ InputHasLink /\ LockApplied
      /\ LockAccepted
  BY DEF Polled, policyVars, lockVars, Sound
<1>2. TypeOK'
  BY <1>1 DEF TypeOK, Radios
<1>3. OneSource' /\ LockApplied' /\ LockAccepted'
  BY <1>1 DEF OneSource, Accepts, LockApplied, LockAccepted
<1>4. ASSUME NEW x \in Source
      PROVE  /\ radio'[x].on <=> IF applied' THEN x = active' ELSE Accepts(x)'
             /\ radio'[x].intent => target' = x
  <2>1. /\ radio[x].on <=> IF applied THEN x = active ELSE Accepts(x)
        /\ radio[x].intent => target = x
    BY <1>1 DEF RadiosFollow, IntentOwned
  <2>2. radio'[x].on = radio[x].on /\ (radio'[x].intent => radio[x].intent)
    <3>1. CASE x = s
      BY <3>1
    <3>2. CASE x # s
      BY <3>2
    <3> QED  BY <3>1, <3>2
  <2> QED  BY <1>1, <2>1, <2>2 DEF Accepts
<1>5. RadiosFollow' /\ IntentOwned'
  BY <1>4 DEF RadiosFollow, IntentOwned
<1>6. InputHasLink'
  <2> SUFFICES ASSUME physical' # Any PROVE InputHasLink'
    BY DEF InputHasLink
  <2>1. physical \in Source /\ dropped \subseteq dropped'
    BY <1>1 DEF TypeOK
  <2>2. CASE physical = s
    BY <1>1, <2>2 DEF InputHasLink
  <2>3. CASE physical # s
    BY <1>1, <2>1, <2>3 DEF InputHasLink
  <2> QED  BY <2>2, <2>3
<1> QED  BY <1>2, <1>3, <1>5, <1>6 DEF Sound

\* The same of a step that only moves the link of s
LEMMA MovedSound ==
    ASSUME Sound, Polled, NEW s \in Source, UNCHANGED lockVars, UNCHANGED physical,
           NEW link \in {"none", "part", "up", "closing"}, Relink(s, link),
           dropped' \in {dropped, dropped \cup {s}},
           physical = s => /\ link # "part"
                           /\ link = "none" => s \in dropped'
    PROVE  Sound'
<1>1. radio \in Radios
  BY DEF Sound, TypeOK, Radios
<1>2. radio' = [radio EXCEPT ![s].link = link]
  BY DEF Relink
<1>3. /\ radio' \in Radios /\ \A x \in Source : x # s => radio'[x] = radio[x]
      /\ radio'[s].on = radio[s].on /\ radio'[s].intent = radio[s].intent
      /\ radio'[s].link = link
  BY <1>1, <1>2 DEF Radios, Radio
<1> QED  BY <1>3, RelinkSound

LEMMA PollSound == Sound /\ Poll => Sound'
<1> SUFFICES ASSUME Sound, Poll PROVE Sound'
  OBVIOUS
<1>1. /\ TypeOK /\ OneSource /\ RadiosFollow /\ IntentOwned /\ InputHasLink /\ LockApplied
      /\ LockAccepted /\ radio \in Radios
  BY DEF Sound, TypeOK, Radios
<1>2. CASE IntentServed
  <2>1. /\ Polled /\ radio' = [radio EXCEPT ![Ns2].intent = FALSE] /\ radio[Ns2].link = "up"
        /\ UNCHANGED lockVars /\ UNCHANGED physical /\ dropped' = dropped /\ Ns2 \in Source
    BY <1>2 DEF IntentServed, Source
  <2>2. /\ radio' \in Radios /\ \A x \in Source : x # Ns2 => radio'[x] = radio[x]
        /\ radio'[Ns2].on = radio[Ns2].on /\ ~radio'[Ns2].intent
        /\ radio'[Ns2].link = "up"
    BY <1>1, <2>1 DEF Radios, Radio
  <2> QED  BY <2>1, <2>2, RelinkSound
<1>3. ASSUME NEW s \in Source, LinkBegins(s) PROVE Sound'
  <2>1. /\ Polled /\ Relink(s, "part") /\ radio[s].link = "none" /\ s \notin dropped
        /\ UNCHANGED lockVars /\ UNCHANGED physical /\ dropped' = dropped /\ pc = "poll"
    BY <1>3 DEF LinkBegins, Polled
  <2>2. physical # s
    BY <1>1, <2>1, ArbitrationAssumption DEF InputHasLink, Source
  <2> QED  BY <2>1, <2>2, MovedSound
<1>4. ASSUME NEW s \in Source, LinkUp(s) PROVE Sound'
  <2>1. /\ Polled /\ radio' = [radio EXCEPT ![s].link = "up", ![s].intent = @ /\ s = Ns2]
        /\ UNCHANGED lockVars /\ UNCHANGED physical /\ dropped' = dropped
    BY <1>4 DEF LinkUp
  <2>2. /\ radio' \in Radios /\ \A x \in Source : x # s => radio'[x] = radio[x]
        /\ radio'[s].on = radio[s].on /\ (radio'[s].intent => radio[s].intent)
        /\ radio'[s].link = "up"
    BY <1>1, <2>1 DEF Radios, Radio
  <2> QED  BY <2>1, <2>2, RelinkSound
<1>5. ASSUME NEW s \in Source, LinkGivenUp(s) PROVE Sound'
  BY <1>5, MovedSound DEF LinkGivenUp
<1>6. ASSUME NEW s \in Source, LinkDown(s) PROVE Sound'
  BY <1>6, MovedSound DEF LinkDown
<1>7. ASSUME NEW s \in Source, Input(s) PROVE Sound'
  <2>1. /\ pc = "poll" /\ radio[s].link = "up" /\ Accepts(s) /\ (locked => active = s)
        /\ UNCHANGED <<preference, target, elapsed, pc, radio, dropped, applied>>
        /\ locked' = TRUE /\ active' = s /\ physical' \in {physical, s}
    BY <1>7 DEF Input, Polled, policyVars, MayLock
  <2>2. physical' \in {s, Any}
    BY <1>1, <2>1 DEF OneSource
  <2>3. TypeOK'
    BY <1>1, <2>1, <2>2 DEF TypeOK
  <2>4. OneSource' /\ LockApplied' /\ LockAccepted'
    BY <2>1, <2>2 DEF OneSource, Accepts, LockApplied, LockAccepted
  <2>5. applied => locked /\ active' = active
    BY <1>1, <2>1 DEF TypeOK
  <2>6. RadiosFollow' /\ IntentOwned'
    BY <1>1, <2>1, <2>5 DEF RadiosFollow, IntentOwned, Accepts
  <2>7. InputHasLink'
    BY <2>1, <2>2 DEF InputHasLink
  <2> QED  BY <2>3, <2>4, <2>6, <2>7 DEF Sound
<1> QED  BY <1>2, <1>3, <1>4, <1>5, <1>6, <1>7 DEF Poll

LEMMA LoopSound == Sound /\ (Loop \/ Elapse) => Sound'
<1> SUFFICES ASSUME Sound, Loop \/ Elapse PROVE Sound'
  OBVIOUS
<1>1. /\ TypeOK /\ OneSource /\ RadiosFollow /\ IntentOwned /\ InputHasLink /\ LockApplied
      /\ LockAccepted /\ radio \in Radios /\ preference \in Choice
  BY DEF Sound, TypeOK, Radios, Choice
<1>2. ASSUME UNCHANGED <<preference, target, lockVars, physical, radio>>, elapsed' \in BOOLEAN,
             dropped' \subseteq Source, pc' \in {"poll", "manager", "lock", "session"},
             pc' = "session" => pc = "session", pc' = "poll" => pc = "poll" /\ dropped' = dropped
      PROVE  Sound'
  <2>1. UNCHANGED <<preference, target, locked, active, applied, physical, radio>>
    BY <1>2 DEF lockVars
  <2>2. TypeOK'
    BY <1>1, <1>2, <2>1 DEF TypeOK
  <2>3. OneSource' /\ LockApplied' /\ LockAccepted'
    BY <1>1, <1>2, <2>1 DEF OneSource, Accepts, LockApplied, LockAccepted
  <2>4. RadiosFollow' /\ IntentOwned'
    BY <1>1, <2>1 DEF RadiosFollow, IntentOwned, Accepts
  <2>5. InputHasLink'
    BY <1>1, <1>2, <2>1 DEF InputHasLink
  <2> QED  BY <2>2, <2>3, <2>4, <2>5 DEF Sound
<1>3. CASE PollDone
  BY <1>1, <1>2, <1>3 DEF PollDone, policyVars, TypeOK
<1>4. CASE NoCommand
  BY <1>1, <1>2, <1>4 DEF NoCommand, policyVars, TypeOK
<1>5. CASE Elapse
  BY <1>1, <1>2, <1>5 DEF Elapse, TypeOK
<1>6. CASE ApplyLock
  <2>1. /\ pc' = "session" /\ UNCHANGED <<preference, target, elapsed, locked, active>>
        /\ UNCHANGED <<physical, dropped>> /\ applied' = (applied \/ locked)
        /\ \A s \in Source : radio'[s] = IF locked /\ ~applied /\ s # active
                                         THEN TurnedOff(radio[s]) ELSE radio[s]
        /\ radio' = [s \in Source |-> IF locked /\ ~applied /\ s # active
                                      THEN TurnedOff(radio[s]) ELSE radio[s]]
    BY <1>6 DEF ApplyLock, policyVars
  <2>2. ASSUME NEW s \in Source
        PROVE  /\ radio[s] \in Radio /\ TurnedOff(radio[s]) \in Radio
               /\ ~TurnedOff(radio[s]).on /\ TurnedOff(radio[s]).intent = radio[s].intent
               /\ radio[s].link # "part" => TurnedOff(radio[s]).link # "part"
    BY <1>1 DEF Radios, Radio, TurnedOff, Close
  <2>3. TypeOK'
    <3>1. radio' \in Radios
      BY <2>1, <2>2 DEF Radios
    <3> QED  BY <1>1, <2>1, <3>1 DEF TypeOK, Radios
  <2>4. OneSource' /\ LockApplied' /\ LockAccepted'
    BY <1>1, <2>1 DEF OneSource, Accepts, LockApplied, LockAccepted
  <2>5. ASSUME NEW s \in Source
        PROVE  /\ radio'[s].on <=> IF applied' THEN s = active' ELSE Accepts(s)'
               /\ radio'[s].intent => target' = s
    <3>1. /\ radio[s].on <=> IF applied THEN s = active ELSE Accepts(s)
          /\ radio[s].intent => target = s
      BY <1>1 DEF RadiosFollow, IntentOwned
    <3>2. CASE locked /\ ~applied /\ s # active
      BY <2>1, <2>2, <3>1, <3>2
    <3>3. CASE locked /\ ~applied /\ s = active
      <4>1. radio'[s] = radio[s]
        BY <2>1, <3>3
      <4>2. Accepts(s)
        BY <1>1, <3>3 DEF TypeOK, LockAccepted
      <4> QED  BY <2>1, <3>1, <3>3, <4>1, <4>2
    <3>4. CASE ~locked \/ applied
      <4>1. radio'[s] = radio[s] /\ applied' = applied
        BY <1>1, <2>1, <3>4 DEF TypeOK
      <4> QED  BY <2>1, <3>1, <4>1 DEF Accepts
    <3> QED  BY <3>2, <3>3, <3>4
  <2>6. RadiosFollow' /\ IntentOwned'
    BY <2>5 DEF RadiosFollow, IntentOwned
  <2>7. InputHasLink'
    BY <1>1, <2>1, <2>2 DEF InputHasLink, TypeOK
  <2> QED  BY <2>3, <2>4, <2>6, <2>7 DEF Sound
<1>7. CASE SessionTick
  <2>1. pc = "session" /\ pc' = "poll" /\ preference' = preference /\ dropped' = dropped
    BY <1>7 DEF SessionTick
  <2>2. CASE Lost \/ Expired
    <3>1. ResetSession(Reset(preference))
      BY <1>7, <2>2 DEF SessionTick
    <3>2. /\ Reset(preference) \in Radios
          /\ \A s \in Source : /\ Reset(preference)[s].on <=> Allowed(preference, Any, s)
                               /\ ~Reset(preference)[s].intent
      BY <1>1, ResetFacts DEF Reset
    <3>3. dropped' \subseteq Source
      BY <1>1, <2>1 DEF TypeOK
    <3> QED  BY <1>1, <2>1, <3>1, <3>2, <3>3, ResetSessionSound
  <2>3. CASE ~(Lost \/ Expired)
    <3>1. UNCHANGED <<preference, target, elapsed, locked, active, applied, physical, radio>>
      BY <1>7, <2>3 DEF SessionTick, lockVars
    <3>2. TypeOK'
      BY <1>1, <2>1, <3>1 DEF TypeOK
    <3>3. OneSource' /\ LockApplied' /\ LockAccepted'
      BY <1>1, <2>1, <3>1 DEF OneSource, Accepts, LockApplied, LockAccepted
    <3>4. RadiosFollow' /\ IntentOwned'
      BY <1>1, <3>1 DEF RadiosFollow, IntentOwned, Accepts
    <3>5. InputHasLink'
      <4> SUFFICES ASSUME physical # Any
                   PROVE  radio[physical].link # "part" /\ radio[physical].link # "none"
        BY <3>1 DEF InputHasLink
      <4>1. applied /\ active = physical
        BY <1>1, <2>1 DEF OneSource, LockApplied
      <4>2. Connected(physical)
        BY <2>3, <4>1 DEF Lost
      <4>3. radio[physical].link # "none"
        BY <4>2 DEF Connected
      <4> QED  BY <1>1, <4>3 DEF InputHasLink
    <3> QED  BY <3>2, <3>3, <3>4, <3>5 DEF Sound
  <2> QED  BY <2>2, <2>3
<1> QED  BY <1>3, <1>4, <1>5, <1>6, <1>7 DEF Loop

-----------------------------------------------------------------------------
(* What the invariant says of steps.                                       *)

\* No command has a link come up.
LEMMA CommandRaisesNoLink ==
    Sound /\ Command => \A x \in Source : radio[x].link # "up" => radio'[x].link # "up"
<1> SUFFICES ASSUME Sound, Command, NEW x \in Source, radio[x].link # "up"
             PROVE  radio'[x].link # "up"
  OBVIOUS
<1>1. radio \in Radios /\ preference \in Choice /\ Any \in Choice
  BY DEF Sound, TypeOK, Radios, Choice
<1>2. ASSUME NEW r \in Radios, NEW p \in Choice, NEW c,
             c = [s \in Source |-> Cancelled(r[s])], r[x].link # "up"
      PROVE  /\ ApplyTo(c, p, Any, FALSE) \in Radios
             /\ ApplyTo(c, p, Any, FALSE)[x].link # "up"
  BY <1>2, ResetFacts
<1>3. ASSUME NEW p \in Choice PROVE Reset(p) \in Radios /\ Reset(p)[x].link # "up"
  BY <1>1, <1>2 DEF Reset
<1>4. ASSUME NEW s \in Source, Connect(s) PROVE radio'[x].link # "up"
  <2>1. Begin(s) \in Radios /\ Begin(s)[x].link # "up"
    BY <1>1, <1>3, ApplyFacts DEF Begin, Choice
  <2>2. radio' = [Begin(s) EXCEPT ![s] = Started(Begin(s)[s])]
        \/ radio' = [Begin(s) EXCEPT ![s] = StartedInVain(Begin(s)[s])]
    BY <1>4 DEF Connect, Attempt
  <2>3. Begin(s)[x] \in Radio
    BY <2>1 DEF Radios
  <2>4. Started(Begin(s)[x]).link # "up" /\ StartedInVain(Begin(s)[x]).link # "up"
    BY <2>1, <2>3, LinkFacts
  <2> QED  BY <2>1, <2>2, <2>4 DEF Radios
<1>5. ASSUME NEW s \in Source, Disconnect(s) PROVE radio'[x].link # "up"
  <2>1. PICK intent \in {FALSE} \cup IF s = Ds5 THEN {radio[s].intent} ELSE {} :
            LET r == [radio EXCEPT ![s] = Stopped(@, intent)]
            IN  IF Selected(s)
                THEN /\ ResetSession(ApplyTo([y \in Source |-> Cancelled(r[y])], preference, Any, FALSE))
                     /\ UNCHANGED preference
                ELSE radio' = r /\ UNCHANGED <<policyVars, lockVars, physical>>
    BY <1>5 DEF Disconnect
  <2> DEFINE r == [radio EXCEPT ![s] = Stopped(@, intent)]
             c == [y \in Source |-> Cancelled(r[y])]
  <2>2. intent \in BOOLEAN /\ radio[s] \in Radio
    BY <1>1 DEF Radios, Radio
  <2>3. /\ Stopped(radio[s], intent) \in Radio
        /\ radio[s].link # "up" => Stopped(radio[s], intent).link # "up"
    BY <2>2 DEF Stopped, Close, Radio
  <2>4. r \in Radios /\ r[x].link # "up"
    BY <1>1, <2>3 DEF Radios
  <2>5. radio' = r \/ radio' = ApplyTo(c, preference, Any, FALSE)
    BY <2>1 DEF ResetSession
  <2> HIDE DEF r
  <2>6. ApplyTo(c, preference, Any, FALSE)[x].link # "up"
    BY <1>1, <1>2, <2>4
  <2> QED  BY <2>4, <2>5, <2>6
<1>6. ASSUME NEW p \in Choice, Prefer(p) PROVE radio'[x].link # "up"
  <2>1. ApplyTo(Reset(p), p, Any, TRUE)[x].link # "up"
    BY <1>1, <1>3, ApplyFacts
  <2> QED  BY <1>6, <2>1 DEF Prefer, ResetSession
<1>7. CASE ResetDetect
  BY <1>1, <1>3, <1>7 DEF ResetDetect, ResetSession
<1>8. ASSUME NEW on \in BOOLEAN, NsAuto(on) PROVE radio'[x].link # "up"
  BY <1>1, <1>8 DEF NsAuto, Radios, Radio
<1> QED  BY <1>4, <1>5, <1>6, <1>7, <1>8 DEF Command, Choice

LEMMA NextCarriesNothing ==
    Sound /\ [Next]_vars =>
        \A s \in Source : radio[s].link # "up" /\ radio'[s].link = "up" => physical # s
<1> SUFFICES ASSUME Sound, [Next]_vars, NEW s \in Source,
                    radio[s].link # "up", radio'[s].link = "up", physical = s
             PROVE  FALSE
  OBVIOUS
<1>1. radio[s].link # "part" /\ radio \in Radios /\ preference \in Choice
  BY ArbitrationAssumption DEF Sound, TypeOK, InputHasLink, Radios, Choice, Source
<1>2. CASE UNCHANGED vars
  BY <1>2 DEF vars
<1>3. CASE Command
  BY <1>3, CommandRaisesNoLink
<1>4. CASE Poll
  <2>1. CASE IntentServed
    BY <1>1, <2>1 DEF IntentServed, Radios, Radio
  <2>2. ASSUME NEW x \in Source, LinkBegins(x) \/ LinkGivenUp(x) \/ LinkDown(x) PROVE FALSE
    BY <1>1, <2>2 DEF LinkBegins, LinkGivenUp, LinkDown, Relink, Radios, Radio
  <2>3. ASSUME NEW x \in Source, LinkUp(x) PROVE FALSE
    BY <1>1, <2>3 DEF LinkUp, Radios, Radio
  <2>4. ASSUME NEW x \in Source, Input(x) PROVE FALSE
    BY <2>4 DEF Input
  <2> QED  BY <1>4, <2>1, <2>2, <2>3, <2>4 DEF Poll
<1>5. CASE PollDone \/ NoCommand \/ Elapse
  BY <1>5 DEF PollDone, NoCommand, Elapse
<1>6. CASE ApplyLock
  <2>1. TurnedOff(radio[s]).link # "up"
    BY <1>1 DEF TurnedOff, Close, Radios, Radio
  <2> QED  BY <1>6, <2>1 DEF ApplyLock
<1>7. CASE SessionTick
  <2>1. Reset(preference)[s].link # "up"
    BY <1>1, ResetFacts DEF Reset
  <2> QED  BY <1>7, <2>1 DEF SessionTick, ResetSession
<1> QED  BY <1>2, <1>3, <1>4, <1>5, <1>6, <1>7 DEF Next, Loop

LEMMA NextNeutral ==
    Sound /\ [Next]_vars => (physical # Any /\ physical' # physical => physical' = Any)
<1> SUFFICES ASSUME Sound, [Next]_vars, physical # Any, physical' # physical
             PROVE  physical' = Any
  OBVIOUS
<1>1. locked /\ active = physical
  BY DEF Sound, OneSource
<1>2. ASSUME NEW s \in Source, Input(s) PROVE FALSE
  BY <1>1, <1>2 DEF Input, MayLock
<1>3. CASE Poll
  BY <1>2, <1>3 DEF Poll, IntentServed, LinkBegins, LinkUp, LinkGivenUp, LinkDown
<1>4. CASE Command
  BY <1>4 DEF Command, Connect, Attempt, Disconnect, Prefer, ResetDetect, NsAuto, ResetSession, Detect
<1>5. CASE Loop \/ Elapse \/ UNCHANGED vars
  BY <1>5 DEF Loop, PollDone, NoCommand, ApplyLock, SessionTick, Elapse, vars, ResetSession, Detect
<1> QED  BY <1>3, <1>4, <1>5 DEF Next

-----------------------------------------------------------------------------
(* The theorems.                                                           *)

LEMMA InitSound == Init => Sound
<1> SUFFICES ASSUME Init PROVE Sound
  OBVIOUS
<1> DEFINE fresh == [on |-> TRUE, suppressed |-> FALSE, intent |-> FALSE, link |-> "none"]
           r == [s \in Source |-> fresh]
<1>1. /\ preference \in Choice /\ target = Any /\ elapsed = FALSE /\ physical = Any
      /\ locked = FALSE /\ active = Ds5 /\ applied = FALSE /\ dropped = {} /\ pc = "poll"
      /\ radio = ApplyTo(r, preference, Any, FALSE)
  BY DEF Init, Choice
<1>2. r \in Radios /\ \A s \in Source : ~r[s].intent
  BY DEF Radios, Radio
<1> HIDE DEF r
<1>3. /\ radio \in Radios
      /\ \A s \in Source : (radio[s].on <=> Allowed(preference, Any, s)) /\ ~radio[s].intent
  BY <1>1, <1>2, ApplyFacts DEF Choice
<1>4. TypeOK
  BY <1>1, <1>3 DEF TypeOK, Choice, Radios, Source
<1>5. OneSource /\ LockApplied /\ LockAccepted /\ InputHasLink
  BY <1>1 DEF OneSource, LockApplied, LockAccepted, InputHasLink
<1>6. RadiosFollow /\ IntentOwned
  BY <1>1, <1>3 DEF RadiosFollow, IntentOwned, Accepts
<1> QED  BY <1>4, <1>5, <1>6 DEF Sound

LEMMA NextSound == Sound /\ [Next]_vars => Sound'
<1>1. Sound /\ UNCHANGED vars => Sound'
  BY DEF Sound, vars, policyVars, lockVars, TypeOK, OneSource, RadiosFollow, IntentOwned,
         InputHasLink, LockApplied, LockAccepted, Accepts
<1> QED  BY <1>1, CommandSound, PollSound, LoopSound DEF Next

\* The inductive invariant
THEOREM AlwaysSound == Spec => []Sound
BY InitSound, NextSound, PTL DEF Spec

\* Types, and that main.cpp applies no lock that auto_profile has not.
THEOREM TypeCorrect == Spec => []TypeOK
BY AlwaysSound, PTL DEF Sound

\* Input is of the one accepted controller that locked the profile.
THEOREM InputHasOneSource == Spec => []OneSource
BY AlwaysSound, PTL DEF Sound

\* The radios follow the attempt, the preference and the lock.
THEOREM RadiosObey == Spec => []RadiosFollow
BY AlwaysSound, PTL DEF Sound

\* A radio pairs or pages only during the user's attempt.
THEOREM IntentHasOwner == Spec => []IntentOwned
BY AlwaysSound, PTL DEF Sound

\* A controller that connects finds no input of an earlier session.
THEOREM NothingCarriedOver == Spec => NoCarryOver
<1>1. Sound /\ [Next]_vars => [\A s \in Source : radio[s].link # "up" /\ radio'[s].link = "up"
                                                   => physical # s]_vars
  BY NextCarriesNothing
<1> QED  BY <1>1, AlwaysSound, PTL DEF Spec, NoCarryOver

\* The source changes through neutral input.
THEOREM ChangesThroughNeutral == Spec => NeutralBetween
<1>1. Sound /\ [Next]_vars => [physical # Any /\ physical' # physical => physical' = Any]_vars
  BY NextNeutral
<1> QED  BY <1>1, AlwaysSound, PTL DEF Spec, NeutralBetween

\* Together: one choice of controller governs input, radios and pairing,
THEOREM ObeysChoice == Spec => []ChoiceIsObeyed
<1>1. OneSource /\ RadiosFollow /\ IntentOwned => ChoiceIsObeyed
  BY DEF ChoiceIsObeyed
<1> QED  BY <1>1, InputHasOneSource, RadiosObey, IntentHasOwner, PTL

\* and input never passes from one session to another.
THEOREM SessionsStayApart == Spec => SessionsAreApart
BY NothingCarriedOver, ChangesThroughNeutral DEF SessionsAreApart
=============================================================================
