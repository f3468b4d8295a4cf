--------------------------- MODULE SettingsProofs ----------------------------
(***************************************************************************)
(* Theorems about the settings records, for every set of fields, values,   *)
(* controllers and settings, and any number of saves, failures and power   *)
(* cuts.                                                                   *)
(***************************************************************************)
EXTENDS Settings, TLAPS

-----------------------------------------------------------------------------
(* The inductive invariant: what each stage of a save may rely on, what a  *)
(* record that was told saved still is, what the command has done so far,  *)
(* and which controller a boot would find.                                 *)

Stages ==
    /\ (~on \/ job = {}) => job = {} /\ stage = "call"
    /\ Saving("ds5", "program") => flash["last"] = Blank
    /\ Saving("ds5", "verify") => flash["last"] \in Ds5Programmed
    /\ Saving("ns2", "verify") => flash["own"] \in {Ns2Record(ns2), BadVersion, Blank}
    /\ Saving("bridge", "program") => pending = bridge /\ (taken => stored = bridge)
    /\ ~Saving("bridge", "program") => pending = NoPayload /\ ~taken

ToldStands ==
    /\ told["ds5"] # Blank =>
          /\ \E body \in Ds5Body : told["ds5"] = Ds5Record(body, TRUE)
          /\ flash["last"] = told["ds5"]
          /\ ~Saving("ds5", "program") /\ ~Saving("ds5", "verify")
    /\ told["ns2"] # Blank =>
          /\ \E block \in Ns2Block : told["ns2"] = Ns2Record(block)
          /\ flash["own"] = told["ns2"]
          /\ ~Saving("ns2", "program") /\ ~Saving("ns2", "verify")

\* What is done comes before what is left.
InOrder ==
    job # {} =>
        /\ "ns2" \in command => "ns2" \in job
        /\ "ds5" \in command /\ "bridge" \in job => "ds5" \in job

DoneIsStored ==
    job # {} /\ ok => \A record \in command \ job : NextBoot(record) = InForce(record)

TargetStored ==
    ~harmed /\ ~orphaned /\ job # {"ns2"} => Ns2Loaded.target = wanted

IInv == TypeOK /\ Stages /\ InOrder /\ TargetKept /\ TargetStored
        /\ (~MayDamageHeader => ToldStands /\ DoneIsStored)

-----------------------------------------------------------------------------
(* What the loads depend on.                                               *)

LEMMA ValidTyped ==
    ASSUME NEW raw \in [Field -> Value \cup {OutOfRange}]
    PROVE  Valid(raw) \in Ds5Body
BY FieldAssumption DEF Valid, Ds5Body

LEMMA ValidSame == ASSUME NEW body \in Ds5Body PROVE Valid(body) = body
BY DEF Valid, Ds5Body

LEMMA ContentKinds ==
    /\ Blank \in Content /\ BadVersion \in Content
    /\ \A body \in Ds5Body, h \in BOOLEAN : Ds5Record(body, h) \in Content
    /\ \A block \in Ns2Block : Ns2Record(block) \in Content
    /\ \A c \in Content : c.kind = "ns2" => c.block \in Ns2Block /\ c = Ns2Record(c.block)
    /\ \A c \in Content : c.kind = "ds5" => c.body \in Ds5Body
    /\ Blank.kind = "blank" /\ BadVersion.kind = "version"
    /\ \A body, h : /\ Ds5Record(body, h).kind = "ds5"
                    /\ Ds5Record(body, h).header = h
                    /\ Ds5Record(body, h).body = body
    /\ \A block : Ns2Record(block).kind = "ns2" /\ Ns2Record(block).block = block
<1>1. /\ Blank \in Content /\ BadVersion \in Content
      /\ \A body \in Ds5Body, h \in BOOLEAN : Ds5Record(body, h) \in Content
      /\ \A block \in Ns2Block : Ns2Record(block) \in Content
  BY DEF Content
<1>2. /\ Blank.kind = "blank" /\ BadVersion.kind = "version"
      /\ \A body, h : /\ Ds5Record(body, h).kind = "ds5"
                      /\ Ds5Record(body, h).header = h
                      /\ Ds5Record(body, h).body = body
      /\ \A block : Ns2Record(block).kind = "ns2" /\ Ns2Record(block).block = block
  BY DEF Blank, BadVersion, Ds5Record, Ns2Record
<1>3. ASSUME NEW c \in Content
      PROVE  /\ c.kind = "ns2" => c.block \in Ns2Block /\ c = Ns2Record(c.block)
             /\ c.kind = "ds5" => c.body \in Ds5Body
  <2>1. CASE c \in {Blank, BadVersion}
    BY <1>2, <2>1
  <2>2. CASE \E body \in Ds5Body, h \in BOOLEAN : c = Ds5Record(body, h)
    BY <1>2, <2>2
  <2>3. CASE \E block \in Ns2Block : c = Ns2Record(block)
    BY <1>2, <2>3
  <2> QED BY <2>1, <2>2, <2>3 DEF Content
<1> QED BY <1>1, <1>2, <1>3

LEMMA LoadedTyped ==
    ASSUME TypeOK
    PROVE  Ds5Loaded \in Ds5Body /\ Ns2Loaded \in Ns2Block /\ BridgeLoaded \in Payload
<1>1. flash["last"] \in Content /\ flash["own"] \in Content
  BY DEF TypeOK
<1>2. Ds5Loaded \in Ds5Body
  BY <1>1, ContentKinds, ValidSame, FieldAssumption DEF Ds5Loaded, SectorOf
<1>3. Ns2Loaded \in Ns2Block
  BY <1>1, ContentKinds, Ns2Assumption DEF Ns2Loaded, SectorOf, Ns2Defaults, Ns2Block
<1>4. BridgeLoaded \in Payload
  BY PayloadAssumption DEF TypeOK, BridgeLoaded
<1> QED BY <1>2, <1>3, <1>4

LEMMA LoadFrame ==
    /\ flash'["last"] = flash["last"] => Ds5Loaded' = Ds5Loaded
    /\ flash' = flash => Ds5Loaded' = Ds5Loaded /\ Ns2Loaded' = Ns2Loaded
    /\ stored' = stored => BridgeLoaded' = BridgeLoaded
BY DEF Ds5Loaded, Ns2Loaded, BridgeLoaded, SectorOf

-----------------------------------------------------------------------------
(* The steps of TypeOK.                                                    *)

LEMMA FirstOfJob ==
    ASSUME job \subseteq AllRecords, job # {}
    PROVE  /\ First \in job
           /\ First = "ns2" <=> job = {"ns2"}
           /\ First # "bridge" => "bridge" \notin job
BY DEF First, AllRecords

LEMMA InitIInv == Init => IInv
<1> SUFFICES ASSUME Init PROVE IInv
  OBVIOUS
<1>1. TypeOK
  <2>1. \A block \in Legacy : Ns2Record(block) \in Content
    BY Ns2Assumption, ContentKinds
  <2>2. flash \in [{"last", "own"} -> Content]
    BY <2>1, ContentKinds DEF Init
  <2>3. Ns2Loaded.target \in Target \cup {NoTarget}
    BY <2>2, ContentKinds, Ns2Assumption DEF Ns2Loaded, SectorOf, Ns2Defaults, Ns2Block
  <2>4. told \in [{"ds5", "ns2"} -> Content]
    BY ContentKinds DEF Init
  <2>5. Ns2Defaults \in Ns2Block
    BY Ns2Assumption DEF Ns2Defaults, Ns2Block
  <2> QED BY <2>2, <2>3, <2>4, <2>5, FieldAssumption, PayloadAssumption
          DEF Init, TypeOK, Bridge!Init, AllRecords
<1>2. Stages /\ InOrder /\ TargetKept /\ TargetStored /\ ToldStands /\ DoneIsStored
  BY DEF Init, Bridge!Init, Stages, InOrder, Saving, TargetKept, TargetStored, ToldStands, DoneIsStored
<1> QED BY <1>1, <1>2 DEF IInv

LEMMA TypeStep == TypeOK /\ [Next]_vars => TypeOK'
<1> SUFFICES ASSUME TypeOK, [Next]_vars PROVE TypeOK'
  OBVIOUS
<1> USE DEF TypeOK
<1>1. CASE Boot
  BY <1>1, LoadedTyped DEF Boot, bridgeVars, jobVars, Ns2Block
<1>2. CASE PowerCut
  <2>1. Ns2Defaults \in Ns2Block
    BY Ns2Assumption DEF Ns2Defaults, Ns2Block
  <2> QED BY <1>2, <2>1, FieldAssumption, PayloadAssumption
          DEF PowerCut, bridgeVars, Bridge!End
<1>3. ASSUME NEW raw \in [Field -> Value \cup {OutOfRange}], SetConfig(raw) PROVE TypeOK'
  BY <1>3, ValidTyped DEF SetConfig, bridgeVars, jobVars, historyVars
<1>4. ASSUME NEW o \in Option, SetOption(o) \/ SetAutoConnect(o) PROVE TypeOK'
  <2>1. [ns2 EXCEPT !.option = o] \in Ns2Block
    BY DEF Ns2Block
  <2> QED BY <1>4, <2>1 DEF SetOption, SetAutoConnect, Start, bridgeVars, jobVars, historyVars, AllRecords
<1>5. ASSUME NEW p \in Payload, SetBridge(p) PROVE TypeOK'
  BY <1>5 DEF SetBridge, bridgeVars, jobVars, historyVars
<1>6. CASE SaveOne \/ SaveAll
  BY <1>6 DEF SaveOne, SaveAll, Start, ramVars, bridgeVars
<1>7. CASE Reset
  <2>1. ResetNs2 \in Ns2Block
    BY Ns2Assumption DEF ResetNs2, Ns2Defaults, Ns2Block
  <2> QED BY <1>7, <2>1, FieldAssumption, PayloadAssumption DEF Reset, Start, bridgeVars
<1>8. ASSUME NEW t \in Target \cup {NoTarget},
             /\ Start({"ns2"}, FALSE)
             /\ ns2' = [ns2 EXCEPT !.target = t] /\ wanted' = t
             /\ UNCHANGED <<ds5, bridge>>
      PROVE  TypeOK'
  <2>1. ns2' \in Ns2Block
    BY <1>8 DEF Ns2Block
  <2> QED BY <1>8, <2>1 DEF Start, bridgeVars, AllRecords
<1>9. CASE Refuse
  BY <1>9 DEF Refuse, Answered, ramVars, bridgeVars, AllRecords
<1>10. CASE Erase
  BY <1>10, ContentKinds DEF Erase, SectorOf, ramVars, bridgeVars
<1>11. CASE Program
  <2>1. Ds5Programmed \subseteq Content
    BY ContentKinds DEF Ds5Programmed
  <2> QED BY <1>11, <2>1, ContentKinds DEF Program, SectorOf, ramVars, bridgeVars, historyVars
<1>12. CASE Verify
  <2>1. Ds5Verified \in BOOLEAN /\ Ns2Verified \in BOOLEAN
    BY DEF Ds5Verified, Ns2Verified
  <2>2. told' \in [{"ds5", "ns2"} -> Content]
    <3>1. Ds5Record(ds5, TRUE) \in Content /\ Ns2Record(ns2) \in Content /\ Blank \in Content
      BY ContentKinds
    <3> QED BY <1>12, <3>1 DEF Verify
  <2>4. harmed' \in BOOLEAN /\ orphaned' \in BOOLEAN
    <3>1. CASE UNCHANGED <<harmed, orphaned>>
      BY <3>1
    <3>2. CASE harmed' = ~Ns2Verified /\ orphaned' = (orphaned /\ ~(Ns2Verified /\ ns2.target = wanted))
      BY <2>1, <3>2, Zenon
    <3> QED BY <1>12, <3>1, <3>2 DEF Verify
  <2>3. /\ ok' \in BOOLEAN /\ job' \subseteq AllRecords /\ stage' \in {"call", "program", "verify"}
        /\ UNCHANGED <<strict, command>>
    BY <1>12, <2>1 DEF Verify, Answered
  <2> QED BY <1>12, <2>2, <2>3, <2>4 DEF Verify, ramVars, bridgeVars
<1>13. CASE SaveBridge
  BY <1>13 DEF SaveBridge, Answered, Bridge!Begin, Bridge!Take, Bridge!End, ramVars,
               jobVars, historyVars
<1>14. CASE UNCHANGED vars
  BY <1>14 DEF vars, ramVars, bridgeVars, jobVars, historyVars
<1> QED BY <1>1, <1>2, <1>3, <1>4, <1>5, <1>6, <1>7, <1>8, <1>9, <1>10, <1>11, <1>12,
           <1>13, <1>14 DEF Next, SaveTarget, Forget

-----------------------------------------------------------------------------
(* Every step is of one of these kinds.                                    *)

\* The settings in RAM change and nothing else does.
RamStep == Idle /\ UNCHANGED <<on, flash, bridgeVars, jobVars, historyVars, ns2.target>>

\* A command begins to save.
StartStep ==
    /\ \E records \in SUBSET AllRecords, stops \in BOOLEAN :
           records # {} /\ Start(records, stops)
    /\ \/ UNCHANGED <<ns2.target, wanted>>
       \/ job' = {"ns2"} /\ ns2'.target = wanted'

LEMMA Kinds ==
    ASSUME TypeOK, [Next]_vars
    PROVE  \/ Boot \/ PowerCut \/ RamStep \/ StartStep
           \/ Refuse \/ Erase \/ Program \/ Verify \/ SaveBridge \/ UNCHANGED vars
<1>0. ns2 \in Ns2Block
  BY DEF TypeOK
<1>1. ASSUME NEW raw, SetConfig(raw) PROVE RamStep
  BY <1>1 DEF SetConfig, RamStep
<1>2. ASSUME NEW o, SetOption(o) PROVE RamStep
  BY <1>0, <1>2 DEF SetOption, RamStep, Ns2Block
<1>3. ASSUME NEW p, SetBridge(p) PROVE RamStep
  BY <1>3 DEF SetBridge, RamStep
<1>4. CASE SaveOne \/ SaveAll
  BY <1>4 DEF SaveOne, SaveAll, StartStep, ramVars, AllRecords
<1>5. CASE Reset
  BY <1>5 DEF Reset, ResetNs2, Ns2Defaults, StartStep, AllRecords
<1>6. ASSUME NEW o, SetAutoConnect(o) PROVE StartStep
  BY <1>0, <1>6 DEF SetAutoConnect, StartStep, AllRecords, Ns2Block
<1>7. ASSUME NEW t, SaveTarget(t) PROVE StartStep
  BY <1>0, <1>7 DEF SaveTarget, Start, StartStep, AllRecords, Ns2Block
<1>8. CASE Forget
  BY <1>0, <1>8 DEF Forget, Start, StartStep, AllRecords, Ns2Block
<1> QED BY <1>1, <1>2, <1>3, <1>4, <1>5, <1>6, <1>7, <1>8 DEF Next

-----------------------------------------------------------------------------
(* The steps of the other parts.                                           *)

LEMMA StagesStep ==
    ASSUME TypeOK, Stages, [Next]_vars
    PROVE  Stages'
<1> USE DEF Stages, Saving
<1>0. job \subseteq AllRecords
  BY DEF TypeOK
<1>1. CASE Boot
  BY <1>1 DEF Boot, bridgeVars, jobVars
<1>2. CASE PowerCut
  BY <1>2, PayloadAssumption DEF PowerCut, bridgeVars, Bridge!End, TypeOK
<1>3. CASE RamStep
  BY <1>3 DEF RamStep, Idle, bridgeVars, jobVars
<1>4. CASE StartStep
  BY <1>4 DEF StartStep, Start, Idle, bridgeVars
<1>5. CASE Refuse
  <2>1. on' /\ stage' = "call" /\ pending' = NoPayload /\ ~taken'
    BY <1>5 DEF Refuse, Answered, bridgeVars
  <2> QED BY <2>1
<1>6. CASE Erase
  BY <1>6 DEF Erase, SectorOf, TypeOK, bridgeVars, First
<1>7. CASE Program
  BY <1>7 DEF Program, SectorOf, TypeOK, bridgeVars, ramVars, Ds5Programmed, First
<1>8. CASE Verify
  <2>0. /\ Saving("ds5", "verify") \/ Saving("ns2", "verify")
        /\ on' = on /\ pending' = pending /\ taken' = taken /\ stage' = "call"
    <3>1. CASE Saving("ds5", "verify") /\ Answered(Ds5Verified) /\ UNCHANGED <<on, bridgeVars>>
      BY <3>1 DEF Answered, bridgeVars
    <3>2. CASE Saving("ns2", "verify") /\ Answered(Ns2Verified) /\ UNCHANGED <<on, bridgeVars>>
      BY <3>2 DEF Answered, bridgeVars
    <3> HIDE DEF Saving
    <3> QED BY <1>8, <3>1, <3>2 DEF Verify
  <2>1. on' /\ stage' = "call" /\ pending' = NoPayload /\ ~taken'
    BY <2>0
  <2> QED BY <2>1
<1>9. CASE SaveBridge
  BY <1>9, PayloadAssumption DEF SaveBridge, Answered, Bridge!Begin, Bridge!Take, Bridge!End,
     ramVars, jobVars, historyVars, First, TypeOK
<1>10. CASE UNCHANGED vars
  BY <1>10 DEF vars, ramVars, bridgeVars, jobVars, First, Ds5Programmed
<1> QED BY <1>1, <1>2, <1>3, <1>4, <1>5, <1>6, <1>7, <1>8, <1>9, <1>10, Kinds

LEMMA ToldStep ==
    ASSUME TypeOK, Stages, ToldStands, ~MayDamageHeader, [Next]_vars
    PROVE  ToldStands'
<1> USE DEF ToldStands
<1>0. job \subseteq AllRecords /\ told \in [{"ds5", "ns2"} -> Content]
      /\ flash \in [{"last", "own"} -> Content] /\ ds5 \in Ds5Body /\ ns2 \in Ns2Block
  BY DEF TypeOK
<1>1. CASE Boot \/ PowerCut \/ RamStep
  BY <1>1 DEF Boot, PowerCut, RamStep, Idle, jobVars, historyVars, Saving, Stages
<1>2. CASE StartStep
  BY <1>2 DEF StartStep, Start, Saving
<1>3. CASE Refuse
  BY <1>3 DEF Refuse, Answered, Saving
<1>4. CASE Erase
  BY <1>0, <1>4 DEF Erase, SectorOf, Saving, First
<1>5. CASE Program
  BY <1>0, <1>5 DEF Program, SectorOf, historyVars, Saving, First
<1>6. CASE Verify
  <2>1. ~Saving("ds5", "program")' /\ ~Saving("ds5", "verify")'
        /\ ~Saving("ns2", "program")' /\ ~Saving("ns2", "verify")'
    BY <1>6 DEF Verify, Answered, Saving
  <2>2. CASE Saving("ds5", "verify")
    <3>1. Ds5Verified => flash["last"] = Ds5Record(ds5, TRUE)
      BY <2>2, ContentKinds DEF Stages, Ds5Programmed, Ds5Verified, SectorOf
    <3>2. UNCHANGED flash /\ told' = [told EXCEPT !["ds5"] = IF Ds5Verified THEN Ds5Record(ds5, TRUE) ELSE Blank]
      BY <1>6, <2>2 DEF Verify, Saving
    <3> QED BY <1>0, <2>1, <3>1, <3>2
  <2>3. CASE Saving("ns2", "verify")
    <3>1. Ns2Verified => flash["own"] = Ns2Record(ns2)
      BY <2>3, ContentKinds DEF Stages, Ns2Verified, SectorOf
    <3>2. UNCHANGED flash /\ told' = [told EXCEPT !["ns2"] = IF Ns2Verified THEN Ns2Record(ns2) ELSE Blank]
      BY <1>6, <2>3 DEF Verify, Saving
    <3> QED BY <1>0, <2>1, <3>1, <3>2
  <2> QED BY <1>6, <2>2, <2>3 DEF Verify
<1>7. CASE SaveBridge
  BY <1>7 DEF SaveBridge, Answered, jobVars, historyVars, Saving, First
<1>8. CASE UNCHANGED vars
  BY <1>8 DEF vars, historyVars, jobVars, Saving, First
<1> QED BY <1>1, <1>2, <1>3, <1>4, <1>5, <1>6, <1>7, <1>8, Kinds

LEMMA OrderStep ==
    ASSUME TypeOK, Stages, InOrder, [Next]_vars
    PROVE  InOrder'
<1> USE DEF InOrder
<1>0. job \subseteq AllRecords
  BY DEF TypeOK
<1>1. CASE Boot \/ PowerCut \/ RamStep \/ StartStep \/ Erase \/ Program \/ UNCHANGED vars
  BY <1>1 DEF Boot, PowerCut, RamStep, StartStep, Start, Erase, Program, vars, jobVars, historyVars
<1>2. ASSUME NEW result, Answered(result), job # {} PROVE InOrder'
  BY <1>0, <1>2, FirstOfJob DEF Answered, First
<1>3. CASE Refuse \/ Verify
  BY <1>2, <1>3 DEF Refuse, Verify, Saving
<1>4. CASE SaveBridge
  <2>1. CASE Answered(taken) /\ job # {}
    BY <1>2, <2>1
  <2> QED BY <1>4, <2>1 DEF SaveBridge, Saving, jobVars
<1> QED BY <1>1, <1>3, <1>4, Kinds

\* A step of a command that has gone well so far leaves what it has done
\* stored, the step that ends it included.
LEMMA DoneStep ==
    ASSUME TypeOK, Stages, InOrder, DoneIsStored, ~MayDamageHeader, [Next]_vars,
           job # {}, on', ok'
    PROVE  /\ command' = command
           /\ \A record \in command \ job' : NextBoot(record)' = InForce(record)'
<1> USE DEF NextBoot, InForce
<1>0. /\ job \subseteq AllRecords /\ command \subseteq AllRecords
      /\ flash \in [{"last", "own"} -> Content] /\ ds5 \in Ds5Body /\ ns2 \in Ns2Block
      /\ ok \in BOOLEAN /\ bridge \in Payload
  BY DEF TypeOK
<1>1. CASE Boot \/ PowerCut \/ RamStep \/ StartStep \/ Refuse
  BY <1>1 DEF Boot, PowerCut, RamStep, StartStep, Start, Idle, Refuse, Answered, Stages
<1>2. CASE UNCHANGED vars
  BY <1>2, LoadFrame DEF vars, ramVars, jobVars, bridgeVars, DoneIsStored
<1>3. CASE Erase \/ Program
  <2>1. /\ UNCHANGED <<ramVars, stored, job, command, ok>>
        /\ First \in {"ds5", "ns2"} /\ First \in job
        /\ First = "ns2" => flash'["last"] = flash["last"]
    BY <1>0, <1>3 DEF Erase, Program, Saving, SectorOf, bridgeVars, historyVars
  <2>2. \A record \in command \ job : record = "bridge" \/ (record = "ds5" /\ First = "ns2")
    BY <1>0, <2>1 DEF InOrder, AllRecords
  <2> QED BY <2>1, <2>2, LoadFrame DEF ramVars, DoneIsStored
<1>4. CASE Verify
  <2>1. UNCHANGED <<ramVars, flash, stored, command>>
    BY <1>4 DEF Verify, Answered, bridgeVars
  <2>2. CASE Saving("ds5", "verify") /\ Answered(Ds5Verified)
    <3>1. ok /\ Ds5Verified /\ job' = job \ {"ds5"}
      BY <1>0, <2>2 DEF Answered, Saving
    <3>2. flash["last"] = Ds5Record(ds5, TRUE)
      BY <2>2, <3>1, ContentKinds DEF Stages, Ds5Programmed, Ds5Verified, SectorOf
    <3>3. Ds5Loaded = ds5
      <4>1. /\ flash["last"].kind = "ds5" /\ flash["last"].header = TRUE
            /\ flash["last"].body = ds5
        BY <3>2 DEF Ds5Record
      <4>2. Valid(ds5) = ds5
        BY <1>0, ValidSame
      <4> QED BY <4>1, <4>2 DEF Ds5Loaded, SectorOf
    <3> QED BY <2>1, <3>1, <3>3, LoadFrame DEF ramVars, DoneIsStored
  <2>3. CASE Saving("ns2", "verify") /\ Answered(Ns2Verified)
    <3>1. ok /\ Ns2Verified /\ job' = job \ {"ns2"}
      BY <1>0, <2>3 DEF Answered, Saving
    <3>2. flash["own"] = Ns2Record(ns2)
      BY <2>3, <3>1, ContentKinds DEF Stages, Ns2Verified, SectorOf
    <3>3. Ns2Loaded = ns2
      BY <3>2, ContentKinds DEF Ns2Loaded, SectorOf
    <3> QED BY <2>1, <3>1, <3>3, LoadFrame DEF ramVars, DoneIsStored
  <2> QED BY <1>4, <2>2, <2>3 DEF Verify
<1>5. CASE SaveBridge
  <2>1. UNCHANGED <<ramVars, flash, command>> /\ Saving("bridge", stage)
    BY <1>5 DEF SaveBridge, Answered, jobVars, Saving
  <2>2. command \ job = {}
    BY <1>0, <2>1 DEF Saving, InOrder, AllRecords
  <2>3. CASE UNCHANGED job
    BY <2>1, <2>2, <2>3
  <2>4. CASE Saving("bridge", "program") /\ Answered(taken) /\ Bridge!End
    <3>1. taken /\ job' = job \ {"bridge"} /\ stored' = stored
      BY <1>0, <2>4, Zenon DEF Answered, Saving, Bridge!End
    <3>2. BridgeLoaded = bridge
      BY <1>0, <2>4, <3>1, PayloadAssumption DEF Stages, BridgeLoaded
    <3> QED BY <2>1, <2>2, <3>1, <3>2, LoadFrame DEF ramVars
  <2> QED BY <1>5, <2>3, <2>4 DEF SaveBridge, jobVars
<1> QED BY <1>1, <1>2, <1>3, <1>4, <1>5, Kinds

LEMMA DoneIsStoredStep ==
    ASSUME TypeOK, Stages, InOrder, DoneIsStored, ~MayDamageHeader, [Next]_vars
    PROVE  DoneIsStored'
<1> SUFFICES ASSUME job' # {}, ok'
             PROVE  \A record \in command' \ job' : NextBoot(record)' = InForce(record)'
  BY DEF DoneIsStored
<1>1. CASE job = {}
  <2>1. command' = job'
    BY <1>1, Kinds DEF Boot, PowerCut, RamStep, StartStep, Start, Refuse, Erase, Program, Verify,
       SaveBridge, Saving, vars, jobVars
  <2> QED BY <2>1
<1>2. CASE job # {}
  <2>1. on'
    BY <1>2, Kinds DEF Boot, PowerCut, RamStep, StartStep, Start, Idle, Refuse, Erase, Program,
       Verify, SaveBridge, Saving, vars, Stages
  <2> QED BY <1>2, <2>1, DoneStep
<1> QED BY <1>1, <1>2

\* The saved controller, in RAM and for the next boot
LEMMA TargetStep ==
    ASSUME TypeOK, Stages, TargetKept, TargetStored, [Next]_vars
    PROVE  TargetKept' /\ TargetStored'
<1> USE DEF TargetKept, TargetStored
<1>0. /\ job \subseteq AllRecords /\ flash \in [{"last", "own"} -> Content]
      /\ harmed \in BOOLEAN /\ orphaned \in BOOLEAN
  BY DEF TypeOK
<1>1. CASE Boot
  BY <1>1, LoadFrame DEF Boot, jobVars, Stages
<1>2. CASE PowerCut
  <2>1. flash' = flash /\ wanted' = wanted /\ orphaned' = orphaned /\ ~on' /\ job' = {}
        /\ (~harmed' => ~harmed /\ "ns2" \notin job)
    BY <1>0, <1>2 DEF PowerCut
  <2> QED BY <2>1, LoadFrame
<1>3. CASE RamStep
  BY <1>3, LoadFrame DEF RamStep, jobVars, historyVars
<1>4. CASE StartStep
  BY <1>4, LoadFrame DEF StartStep, Start, Idle
<1>5. CASE Refuse
  <2>1. /\ UNCHANGED <<on, ns2, flash, wanted, orphaned>>
        /\ First = "ns2" => harmed'
        /\ First # "ns2" => harmed' = harmed
        /\ job # {}
    BY <1>0, <1>5 DEF Refuse, ramVars, Saving
  <2>2. First # "ns2" => job # {"ns2"}
    BY <1>0, <2>1, FirstOfJob
  <2> QED BY <2>1, <2>2, LoadFrame
<1>6. CASE Erase
  <2>1. UNCHANGED <<on, ns2, job, wanted, harmed>> /\ job # {}
    BY <1>6 DEF Erase, ramVars, Saving
  <2>2. CASE Saving("ns2", "call")
    <3>1. job = {"ns2"} /\ orphaned' = orphaned
      BY <1>0, <1>6, <2>1, <2>2, FirstOfJob DEF Erase, Saving
    <3> QED BY <2>1, <3>1
  <2>3. CASE Saving("ds5", "call")
    <3>1. /\ flash' = [flash EXCEPT !["last"] = Blank]
          /\ orphaned' = (orphaned \/ (flash["last"].kind = "ns2" /\ flash["own"].kind # "ns2"))
      BY <1>6, <2>3 DEF Erase, Saving, SectorOf
    <3>2. ~orphaned' => ~orphaned /\ Ns2Loaded' = Ns2Loaded
      BY <1>0, <3>1, ContentKinds DEF Ns2Loaded, SectorOf
    <3> QED BY <2>1, <3>1, <3>2
  <2> QED BY <1>6, <2>2, <2>3 DEF Erase
<1>7. CASE Program
  <2>1. UNCHANGED <<on, ns2, job, wanted, harmed, orphaned>> /\ job # {}
    BY <1>7 DEF Program, ramVars, historyVars, Saving
  <2>2. CASE Saving("ns2", "program")
    <3>1. job = {"ns2"}
      BY <1>0, <2>1, <2>2, FirstOfJob DEF Saving
    <3> QED BY <2>1, <3>1
  <2>3. CASE Saving("ds5", "program")
    <3>1. PICK held \in Ds5Programmed : flash' = [flash EXCEPT !["last"] = held]
      BY <1>7, <2>3 DEF Program, Saving, SectorOf
    <3>2. held.kind # "ns2" /\ flash["last"].kind # "ns2"
      BY <2>3 DEF Ds5Programmed, Ds5Record, Blank, Stages
    <3>3. Ns2Loaded' = Ns2Loaded
      BY <1>0, <3>1, <3>2 DEF Ns2Loaded, SectorOf
    <3> QED BY <2>1, <3>3
  <2> QED BY <1>7, <2>2, <2>3 DEF Program
<1>8. CASE Verify
  <2>1. UNCHANGED <<on, ns2, flash, wanted>> /\ on /\ job # {}
    BY <1>8 DEF Verify, ramVars, Saving
  <2>2. CASE Saving("ds5", "verify") /\ UNCHANGED <<harmed, orphaned>>
    <3>1. job # {"ns2"}
      BY <2>2 DEF Saving
    <3> QED BY <2>1, <2>2, <3>1, LoadFrame
  <2>3. CASE /\ Saving("ns2", "verify") /\ harmed' = ~Ns2Verified
             /\ orphaned' = (orphaned /\ ~(Ns2Verified /\ ns2.target = wanted))
    <3>1. ~orphaned' => ns2.target = wanted
      BY <1>0, <2>1, <2>3
    <3>2. Ns2Verified => Ns2Loaded = ns2
      BY <2>3, ContentKinds DEF Stages, Ns2Verified, Ns2Loaded, SectorOf
    <3> QED BY <2>1, <2>3, <3>1, <3>2, LoadFrame
  <2> QED BY <1>8, <2>2, <2>3 DEF Verify
<1>9. CASE SaveBridge
  <2>1. UNCHANGED <<on, ns2, flash, wanted, harmed, orphaned>> /\ "bridge" \in job
    BY <1>9 DEF SaveBridge, ramVars, historyVars, Saving
  <2> QED BY <2>1, LoadFrame
<1>10. CASE UNCHANGED vars
  BY <1>10, LoadFrame DEF vars, ramVars, jobVars, historyVars
<1> QED BY <1>1, <1>2, <1>3, <1>4, <1>5, <1>6, <1>7, <1>8, <1>9, <1>10, Kinds

-----------------------------------------------------------------------------
LEMMA IInvStep == IInv /\ [Next]_vars => IInv'
BY TypeStep, StagesStep, ToldStep, OrderStep, DoneIsStoredStep, TargetStep DEF IInv

LEMMA Invariance == Spec => []IInv
<1>1. Init => IInv
  BY InitIInv
<1>2. IInv /\ [Next]_vars => IInv'
  BY IInvStep
<1> QED BY <1>1, <1>2, PTL DEF Spec

\* The records, the job and its history stay typed; what config_valid lets
\* through is all that is ever in force (config.cpp).
THEOREM TypeCorrect == Spec => []TypeOK
<1>1. IInv => TypeOK
  BY DEF IInv
<1> QED BY <1>1, Invariance, PTL

\* Restarts, saves of any kind, resets and failures leave the NS2 target the
\* user chose, but for the loss of a record that was not migrated.
THEOREM KeepsTarget == Spec => []TargetKept
<1>1. IInv => TargetKept
  BY DEF IInv
<1> QED BY <1>1, Invariance, PTL

\* Where programming does not damage the header alone, what config_save and
\* ns2_config_save answered true for is loaded until the next save of it.
THEOREM SavedLoads == ~MayDamageHeader => (Spec => []SavedIsLoaded)
<1> SUFFICES ASSUME ~MayDamageHeader PROVE Spec => []SavedIsLoaded
  OBVIOUS
<1>1. IInv => SavedIsLoaded
  <2> SUFFICES ASSUME IInv PROVE SavedIsLoaded
    OBVIOUS
  <2>1. ASSUME told["ds5"] # Blank PROVE Ds5Loaded = told["ds5"].body
    <3>1. PICK body \in Ds5Body : told["ds5"] = Ds5Record(body, TRUE)
      BY <2>1 DEF IInv, ToldStands
    <3>2. flash["last"] = told["ds5"]
      BY <2>1 DEF IInv, ToldStands
    <3>3. Ds5Loaded = Valid(body) /\ told["ds5"].body = body
      BY <3>1, <3>2 DEF Ds5Loaded, Ds5Record, SectorOf
    <3> QED BY <3>3, ValidSame
  <2>2. ASSUME told["ns2"] # Blank PROVE Ns2Loaded = told["ns2"].block
    BY <2>2, ContentKinds DEF IInv, ToldStands, Ns2Loaded, SectorOf
  <2> QED BY <2>1, <2>2 DEF SavedIsLoaded
<1> QED BY <1>1, Invariance, PTL

\* Under the same condition a command that answers true has stored every record
\* it was to store.
THEOREM AnswersTruly == ~MayDamageHeader => (Spec => AnswerIsTrue)
<1> SUFFICES ASSUME ~MayDamageHeader PROVE Spec => AnswerIsTrue
  OBVIOUS
<1> DEFINE Ended == job # {} /\ job' = {} /\ on' /\ ok'
<1> DEFINE Stored == \A record \in command : NextBoot(record)' = InForce(record)'
<1>1. IInv /\ [Next]_vars => [Ended => Stored]_vars
  BY DoneStep DEF IInv
<1>2. Spec => [][Ended => Stored]_vars
  BY <1>1, Invariance, PTL DEF Spec
<1> QED BY <1>2 DEF AnswerIsTrue

=============================================================================
