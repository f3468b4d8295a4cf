--------------------------- MODULE Ns2LinkProofs ----------------------------
(***************************************************************************)
(* Theorems about the link to a Switch 2 Pro controller, for every set of  *)
(* controllers, every length of the set-up and every order of commands,    *)
(* ticks, answers and losses.                                              *)
(*                                                                         *)
(* The functions of ns2_ble.cpp call each other, and so do the lemmas: one *)
(* for each function says what it leaves if it finds a sound link.  A      *)
(* command, a composition of functions, then needs their names only.       *)
(***************************************************************************)
EXTENDS Ns2Link, TLAPS

-----------------------------------------------------------------------------
(* The record ble.  What is assigned to a field is of its kind, so whoever *)
(* makes assignments only leaves a record of the type.                     *)

\* The kind of each field, as in Runtime
Kind ==
    [scanning |-> BOOLEAN, hci_ready |-> BOOLEAN, suspended |-> BOOLEAN,
     manually_disconnected |-> BOOLEAN, forget_addr |-> Someone, requested_mode |-> Modes,
     connect_mode |-> Modes, connecting |-> BOOLEAN, disconnect_pending |-> BOOLEAN,
     pending_addr |-> Someone, current_addr |-> Someone, con_handle |-> Someone,
     auto_start_due |-> BOOLEAN, next_retry |-> BOOLEAN, save_target_pending |-> BOOLEAN,
     saved_target_dirty |-> BOOLEAN, target_saved |-> BOOLEAN, gatt_stage |-> Stages,
     security_pending |-> BOOLEAN, mtu_exchange_due |-> BOOLEAN,
     mtu_exchange_pending |-> BOOLEAN, service_discovery_due |-> BOOLEAN,
     retries |-> 0 .. MaxRetries, services_left |-> 0 .. MaxServices,
     listening |-> SUBSET {"ack", "input"}, init_index |-> 0 .. InitCount,
     init_send_due |-> BOOLEAN, init_command_sent |-> BOOLEAN,
     pairing_required |-> BOOLEAN, pair_step |-> {0} \cup Steps,
     pair_waiting_ack |-> BOOLEAN, pair_save_pending |-> BOOLEAN,
     crypto |-> {"none", "random", "aes"}, crypto_current |-> BOOLEAN,
     rumble_write_pending |-> BOOLEAN, state |-> States, auto_connect |-> BOOLEAN,
     saved_target |-> Someone, prefers_ds5 |-> BOOLEAN, attempt |-> BOOLEAN,
     bt_scanning |-> BOOLEAN, bt_connect |-> Someone, bt_links |-> SUBSET Peer,
     bt_closing |-> SUBSET Peer, bt_security |-> BOOLEAN,
     bt_query |-> {"none", "mtu", "query", "rumble"}]

Fields ==
    {"scanning", "hci_ready", "suspended", "manually_disconnected", "forget_addr",
     "requested_mode", "connect_mode", "connecting", "disconnect_pending", "pending_addr",
     "current_addr", "con_handle", "auto_start_due", "next_retry", "save_target_pending",
     "saved_target_dirty", "target_saved", "gatt_stage", "security_pending",
     "mtu_exchange_due", "mtu_exchange_pending", "service_discovery_due", "retries",
     "services_left", "listening", "init_index", "init_send_due", "init_command_sent",
     "pairing_required", "pair_step", "pair_waiting_ack", "pair_save_pending", "crypto",
     "crypto_current", "rumble_write_pending", "state", "auto_connect", "saved_target",
     "prefers_ds5", "attempt", "bt_scanning", "bt_connect", "bt_links", "bt_closing",
     "bt_security", "bt_query"}

Shaped(b) == b = [f \in Fields |-> b[f]]
Typed(b) == Shaped(b) /\ \A f \in Fields : b[f] \in Kind[f]

LEMMA Put ==
    ASSUME NEW b, Typed(b), NEW f \in Fields, NEW v \in Kind[f]
    PROVE  Typed([b EXCEPT ![f] = v])
BY DEF Typed, Shaped

LEMMA KindOf ==
    /\ Kind["scanning"] = BOOLEAN /\ Kind["hci_ready"] = BOOLEAN
    /\ Kind["suspended"] = BOOLEAN /\ Kind["manually_disconnected"] = BOOLEAN
    /\ Kind["forget_addr"] = Someone /\ Kind["requested_mode"] = Modes
    /\ Kind["connect_mode"] = Modes /\ Kind["connecting"] = BOOLEAN
    /\ Kind["disconnect_pending"] = BOOLEAN /\ Kind["pending_addr"] = Someone
    /\ Kind["current_addr"] = Someone /\ Kind["con_handle"] = Someone
    /\ Kind["auto_start_due"] = BOOLEAN /\ Kind["next_retry"] = BOOLEAN
    /\ Kind["save_target_pending"] = BOOLEAN /\ Kind["saved_target_dirty"] = BOOLEAN
    /\ Kind["target_saved"] = BOOLEAN /\ Kind["gatt_stage"] = Stages
    /\ Kind["security_pending"] = BOOLEAN /\ Kind["mtu_exchange_due"] = BOOLEAN
    /\ Kind["mtu_exchange_pending"] = BOOLEAN /\ Kind["service_discovery_due"] = BOOLEAN
    /\ Kind["retries"] = 0 .. MaxRetries /\ Kind["services_left"] = 0 .. MaxServices
    /\ Kind["listening"] = SUBSET {"ack", "input"} /\ Kind["init_index"] = 0 .. InitCount
    /\ Kind["init_send_due"] = BOOLEAN /\ Kind["init_command_sent"] = BOOLEAN
    /\ Kind["pairing_required"] = BOOLEAN /\ Kind["pair_step"] = {0} \cup Steps
    /\ Kind["pair_waiting_ack"] = BOOLEAN /\ Kind["pair_save_pending"] = BOOLEAN
    /\ Kind["crypto"] = {"none", "random", "aes"} /\ Kind["crypto_current"] = BOOLEAN
    /\ Kind["rumble_write_pending"] = BOOLEAN /\ Kind["state"] = States
    /\ Kind["auto_connect"] = BOOLEAN /\ Kind["saved_target"] = Someone
    /\ Kind["prefers_ds5"] = BOOLEAN /\ Kind["attempt"] = BOOLEAN
    /\ Kind["bt_scanning"] = BOOLEAN /\ Kind["bt_connect"] = Someone
    /\ Kind["bt_links"] = SUBSET Peer /\ Kind["bt_closing"] = SUBSET Peer
    /\ Kind["bt_security"] = BOOLEAN
    /\ Kind["bt_query"] = {"none", "mtu", "query", "rumble"}
BY DEF Kind

LEMMA FieldNames ==
    /\ "scanning" \in Fields /\ "hci_ready" \in Fields /\ "suspended" \in Fields
    /\ "manually_disconnected" \in Fields /\ "forget_addr" \in Fields
    /\ "requested_mode" \in Fields /\ "connect_mode" \in Fields /\ "connecting" \in Fields
    /\ "disconnect_pending" \in Fields /\ "pending_addr" \in Fields
    /\ "current_addr" \in Fields /\ "con_handle" \in Fields /\ "auto_start_due" \in Fields
    /\ "next_retry" \in Fields /\ "save_target_pending" \in Fields
    /\ "saved_target_dirty" \in Fields /\ "target_saved" \in Fields
    /\ "gatt_stage" \in Fields /\ "security_pending" \in Fields
    /\ "mtu_exchange_due" \in Fields /\ "mtu_exchange_pending" \in Fields
    /\ "service_discovery_due" \in Fields /\ "retries" \in Fields
    /\ "services_left" \in Fields /\ "listening" \in Fields /\ "init_index" \in Fields
    /\ "init_send_due" \in Fields /\ "init_command_sent" \in Fields
    /\ "pairing_required" \in Fields /\ "pair_step" \in Fields
    /\ "pair_waiting_ack" \in Fields /\ "pair_save_pending" \in Fields
    /\ "crypto" \in Fields /\ "crypto_current" \in Fields
    /\ "rumble_write_pending" \in Fields /\ "state" \in Fields /\ "auto_connect" \in Fields
    /\ "saved_target" \in Fields /\ "prefers_ds5" \in Fields /\ "attempt" \in Fields
    /\ "bt_scanning" \in Fields /\ "bt_connect" \in Fields /\ "bt_links" \in Fields
    /\ "bt_closing" \in Fields /\ "bt_security" \in Fields /\ "bt_query" \in Fields
BY DEF Fields

\* What the functions assign.
LEMMA Values ==
    /\ TRUE \in Kind["scanning"] /\ FALSE \in Kind["scanning"]
    /\ TRUE \in Kind["hci_ready"] /\ FALSE \in Kind["hci_ready"]
    /\ TRUE \in Kind["suspended"] /\ FALSE \in Kind["suspended"]
    /\ TRUE \in Kind["manually_disconnected"] /\ FALSE \in Kind["manually_disconnected"]
    /\ TRUE \in Kind["connecting"] /\ FALSE \in Kind["connecting"]
    /\ TRUE \in Kind["disconnect_pending"] /\ FALSE \in Kind["disconnect_pending"]
    /\ TRUE \in Kind["auto_start_due"] /\ FALSE \in Kind["auto_start_due"]
    /\ TRUE \in Kind["next_retry"] /\ FALSE \in Kind["next_retry"]
    /\ TRUE \in Kind["save_target_pending"] /\ FALSE \in Kind["save_target_pending"]
    /\ TRUE \in Kind["saved_target_dirty"] /\ FALSE \in Kind["saved_target_dirty"]
    /\ TRUE \in Kind["target_saved"] /\ FALSE \in Kind["target_saved"]
    /\ TRUE \in Kind["security_pending"] /\ FALSE \in Kind["security_pending"]
    /\ TRUE \in Kind["mtu_exchange_due"] /\ FALSE \in Kind["mtu_exchange_due"]
    /\ TRUE \in Kind["mtu_exchange_pending"] /\ FALSE \in Kind["mtu_exchange_pending"]
    /\ TRUE \in Kind["service_discovery_due"] /\ FALSE \in Kind["service_discovery_due"]
    /\ TRUE \in Kind["init_send_due"] /\ FALSE \in Kind["init_send_due"]
    /\ TRUE \in Kind["init_command_sent"] /\ FALSE \in Kind["init_command_sent"]
    /\ TRUE \in Kind["pairing_required"] /\ FALSE \in Kind["pairing_required"]
    /\ TRUE \in Kind["pair_waiting_ack"] /\ FALSE \in Kind["pair_waiting_ack"]
    /\ TRUE \in Kind["pair_save_pending"] /\ FALSE \in Kind["pair_save_pending"]
    /\ TRUE \in Kind["crypto_current"] /\ FALSE \in Kind["crypto_current"]
    /\ TRUE \in Kind["rumble_write_pending"] /\ FALSE \in Kind["rumble_write_pending"]
    /\ TRUE \in Kind["auto_connect"] /\ FALSE \in Kind["auto_connect"]
    /\ TRUE \in Kind["prefers_ds5"] /\ FALSE \in Kind["prefers_ds5"]
    /\ TRUE \in Kind["attempt"] /\ FALSE \in Kind["attempt"]
    /\ TRUE \in Kind["bt_scanning"] /\ FALSE \in Kind["bt_scanning"]
    /\ TRUE \in Kind["bt_security"] /\ FALSE \in Kind["bt_security"]
    /\ NoPeer \in Kind["forget_addr"] /\ NoPeer \in Kind["pending_addr"]
    /\ NoPeer \in Kind["current_addr"] /\ NoPeer \in Kind["con_handle"]
    /\ NoPeer \in Kind["saved_target"] /\ NoPeer \in Kind["bt_connect"]
    /\ "None" \in Kind["requested_mode"] /\ "PairingScan" \in Kind["requested_mode"]
    /\ "ScanAuto" \in Kind["requested_mode"] /\ "None" \in Kind["connect_mode"]
    /\ "PairingScan" \in Kind["connect_mode"] /\ "ScanAuto" \in Kind["connect_mode"]
    /\ "Idle" \in Kind["gatt_stage"] /\ "MtuExchange" \in Kind["gatt_stage"]
    /\ "DiscoverServices" \in Kind["gatt_stage"]
    /\ "DiscoverCharacteristics" \in Kind["gatt_stage"]
    /\ "SubscribeAck" \in Kind["gatt_stage"] /\ "Initializing" \in Kind["gatt_stage"]
    /\ "SubscribeInput" \in Kind["gatt_stage"] /\ "Ready" \in Kind["gatt_stage"]
    /\ 0 \in Kind["retries"] /\ 0 \in Kind["services_left"] /\ {} \in Kind["listening"]
    /\ 0 \in Kind["init_index"] /\ 0 \in Kind["pair_step"] /\ 1 \in Kind["pair_step"]
    /\ 4 \in Kind["pair_step"] /\ 2 \in Kind["pair_step"] /\ 3 \in Kind["pair_step"]
    /\ "none" \in Kind["crypto"] /\ "random" \in Kind["crypto"] /\ "aes" \in Kind["crypto"]
    /\ "Idle" \in Kind["state"] /\ "Backoff" \in Kind["state"]
    /\ "ConnectedNoNotify" \in Kind["state"] /\ "ConnectedLive" \in Kind["state"]
    /\ "Busy" \in Kind["state"] /\ "none" \in Kind["bt_query"]
    /\ "mtu" \in Kind["bt_query"] /\ "query" \in Kind["bt_query"]
    /\ "rumble" \in Kind["bt_query"]
BY KindOf, Ns2Assumption DEF Modes, Stages, States, Steps, Someone

LEMMA TypedIsRuntime == ASSUME NEW b, Typed(b) PROVE b \in Runtime
BY DEF Fields, Kind, Typed, Shaped, Runtime

-----------------------------------------------------------------------------
(* The invariant, first of a record, whatever function it is passed to.    *)

\* The radio has the link of con_handle and links being closed; an attempt is
\* the one that is known of; nothing is attempted while there is a link.
Links(b) ==
    /\ b.bt_links \subseteq b.bt_closing \cup {b.con_handle}
    /\ Linked(b) => /\ b.con_handle \in b.bt_links /\ b.current_addr = b.con_handle
                    /\ b.bt_connect = NoPeer /\ ~b.connecting /\ ~b.scanning
    /\ b.connecting => b.bt_connect # NoPeer /\ b.pending_addr = b.bt_connect
    /\ ~b.connecting => b.pending_addr = NoPeer

\* An attempt is for the saved controller, or to pair; none is made against the
\* user's word, or before an erasure.
Aims(b) ==
    /\ b.connecting => b.saved_target = b.pending_addr \/ b.connect_mode = "PairingScan"
    /\ Quiet(b) => ~b.scanning /\ ~b.connecting
    /\ b.forget_addr # NoPeer => ~b.connecting

\* Without a link nothing of the set-up is left.
Unlinked(b) ==
    ~Linked(b) =>
        /\ b.gatt_stage = "Idle" /\ b.listening = {} /\ b.pair_step = 0
        /\ ~b.rumble_write_pending /\ ~b.security_pending /\ ~b.pair_save_pending
        /\ ~b.save_target_pending /\ b.bt_query = "none" /\ ~b.bt_security

\* An initialization command, a pairing step and a crypto request take turns.
Turns(b) ==
    /\ b.init_command_sent =>
          /\ b.gatt_stage = "Initializing" /\ ~b.init_send_due /\ b.pair_step = 0
          /\ ~(b.crypto # "none" /\ b.crypto_current) /\ b.init_index < InitCount
    /\ b.pair_save_pending => b.pair_step = 3
    /\ b.crypto = "random" /\ b.crypto_current => b.pair_step = 0
    /\ b.disconnect_pending => b.gatt_stage \notin {"SubscribeInput", "Ready"}

\* What each stage of the set-up waits for.
Waits(b) ==
    /\ b.gatt_stage = "Idle" => b.security_pending
    /\ b.gatt_stage = "MtuExchange" => b.mtu_exchange_due \/ b.mtu_exchange_pending
    /\ b.gatt_stage = "DiscoverServices" => b.service_discovery_due \/ b.bt_query = "query"
    /\ b.gatt_stage \in {"DiscoverCharacteristics", "SubscribeAck", "SubscribeInput"} =>
          b.bt_query = "query"
    /\ b.gatt_stage = "Initializing" =>
          \/ b.init_send_due \/ b.init_command_sent \/ b.pair_waiting_ack
          \/ (b.crypto # "none" /\ b.crypto_current) \/ b.pair_save_pending
    /\ b.rumble_write_pending => b.gatt_stage = "Ready" /\ b.bt_query = "rumble"

\* The controller has a key, or else pairing is still to come.
Keyed(b, k) ==
    /\ ~b.pairing_required => k[b.con_handle] # "none"
    /\ b.pairing_required =>
          /\ b.gatt_stage \notin {"SubscribeInput", "Ready"} /\ "input" \notin b.listening
          /\ ~b.save_target_pending /\ b.init_index <= FinalizeIndex
          /\ b.init_command_sent => b.init_index < FinalizeIndex

\* A step of pairing comes after those before it have been received.
Heard(b, h) ==
    /\ b.pair_step = 4 => {1} \subseteq h
    /\ b.pair_step = 2 => {1, 4} \subseteq h
    /\ b.pair_step = 3 => {1, 4, 2} \subseteq h
    /\ b.crypto = "aes" /\ b.crypto_current => {1, 4, 2} \subseteq h
    /\ b.pair_save_pending => Steps \subseteq h

Base(b) == Typed(b) /\ Links(b) /\ Aims(b) /\ Unlinked(b) /\ Turns(b)

\* A link that is not being taken down.
Staying(b) == Linked(b) /\ ~b.disconnect_pending

SetUp(b, k, h) ==
    ~Quiet(b) /\ b.forget_addr = NoPeer /\ Waits(b) /\ Keyed(b, k) /\ Heard(b, h)

Sound(b, k, h) == Base(b) /\ (Staying(b) => SetUp(b, k, h))

\* A link that has been given up, or none: sound whatever was heard on it.
Left(b) == Base(b) /\ ~Staying(b)

LEMMA LeftIsSound == ASSUME NEW b, NEW k, NEW h, Left(b) PROVE Sound(b, k, h)
BY DEF Left, Sound

-----------------------------------------------------------------------------
(* Setting up and taking down.                                             *)

\* What a function leaves alone that neither scans nor connects nor saves.
Kept(b, c) ==
    /\ c.saved_target = b.saved_target /\ c.forget_addr = b.forget_addr
    /\ (c.scanning => b.scanning) /\ (c.connecting => b.connecting)

LEMMA ClearTyped == ASSUME NEW b, Typed(b) PROVE Typed(ClearGattResults(b))
BY Put, Values, FieldNames DEF ClearGattResults

LEMMA ResetTyped == ASSUME NEW b, Typed(b) PROVE Typed(ResetGattCache(b))
BY ClearTyped, Put, Values, FieldNames DEF ResetGattCache

LEMMA BackoffTyped == ASSUME NEW b, Typed(b) PROVE Typed(EnterBackoff(b))
BY ResetTyped, Put, Values, FieldNames DEF EnterBackoff

LEMMA ResetFields ==
    ASSUME NEW b, Shaped(b)
    PROVE  LET c == ResetGattCache(b) IN
           /\ c.gatt_stage = "Idle" /\ c.listening = {} /\ c.pair_step = 0
           /\ c.rumble_write_pending = FALSE /\ c.security_pending = FALSE
           /\ c.pair_save_pending = FALSE /\ c.init_command_sent = FALSE
           /\ c.scanning = b.scanning /\ c.connecting = b.connecting
           /\ c.pending_addr = b.pending_addr /\ c.current_addr = b.current_addr
           /\ c.con_handle = b.con_handle /\ c.connect_mode = b.connect_mode
           /\ c.bt_links = b.bt_links /\ c.bt_closing = b.bt_closing
           /\ c.bt_connect = b.bt_connect /\ c.suspended = b.suspended
           /\ c.manually_disconnected = b.manually_disconnected
           /\ c.forget_addr = b.forget_addr /\ c.saved_target = b.saved_target
           /\ c.save_target_pending = b.save_target_pending
           /\ c.bt_query = b.bt_query /\ c.bt_security = b.bt_security
BY DEF ResetGattCache, ClearGattResults, Shaped, Fields

LEMMA BackoffFields ==
    ASSUME NEW b, Shaped(b)
    PROVE  LET c == EnterBackoff(b) IN
           /\ c.gatt_stage = "Idle" /\ c.listening = {} /\ c.pair_step = 0
           /\ c.rumble_write_pending = FALSE /\ c.security_pending = FALSE
           /\ c.pair_save_pending = FALSE /\ c.init_command_sent = FALSE
           /\ c.scanning = FALSE /\ c.connecting = FALSE
           /\ c.pending_addr = NoPeer /\ c.con_handle = b.con_handle
           /\ c.bt_links = b.bt_links /\ c.bt_closing = b.bt_closing
           /\ c.forget_addr = b.forget_addr /\ c.saved_target = b.saved_target
           /\ c.save_target_pending = b.save_target_pending
           /\ c.bt_query = b.bt_query /\ c.bt_security = b.bt_security
BY DEF EnterBackoff, ResetGattCache, ClearGattResults, Shaped, Fields

\* The radio and BTstack have no part in a link that is over.
Over(b) ==
    /\ ~Linked(b) /\ b.bt_links \subseteq b.bt_closing \cup {b.con_handle}
    /\ ~b.save_target_pending /\ b.bt_query = "none" /\ ~b.bt_security

\* An attempt or a link that is over leaves nothing behind.
LEMMA BackoffSound ==
    ASSUME NEW b, Typed(b), Over(b)
    PROVE  Left(EnterBackoff(b)) /\ Kept(b, EnterBackoff(b))
<1> DEFINE c == EnterBackoff(b)
<1>1. Typed(c)
  BY BackoffTyped
<1>2. Shaped(b)
  BY DEF Typed
<1> HIDE DEF c
<1>3. Left(c) /\ Kept(b, c)
  BY <1>1, <1>2, BackoffFields
     DEF Left, Staying, Base, Links, Aims, Unlinked, Turns, Linked, Quiet, Over, Kept, c
<1> QED BY <1>3 DEF c

LEMMA ResetSound ==
    ASSUME NEW b, Typed(b), Links(b), Aims(b), Over(b)
    PROVE  Left(ResetGattCache(b)) /\ Kept(b, ResetGattCache(b))
<1> DEFINE c == ResetGattCache(b)
<1>1. Typed(c) /\ Shaped(b)
  BY ResetTyped DEF Typed
<1> HIDE DEF c
<1>2. Left(c) /\ Kept(b, c)
  BY <1>1, ResetFields
     DEF Left, Staying, Base, Links, Aims, Unlinked, Turns, Linked, Quiet, Over, Kept, c
<1> QED BY <1>2 DEF c

\* A link is given up once.
LEMMA DisconnectTyped ==
    ASSUME NEW b, Typed(b)
    PROVE  Typed(DisconnectAndBackoff(b))
<1>1. CASE ~Linked(b)
  BY <1>1, BackoffTyped DEF DisconnectAndBackoff
<1>2. CASE Linked(b) /\ b.disconnect_pending
  BY <1>2 DEF DisconnectAndBackoff
<1>3. CASE Linked(b) /\ ~b.disconnect_pending
  <2>1. b.bt_closing \cup {b.con_handle} \in Kind["bt_closing"]
    BY <1>3, KindOf, FieldNames DEF Typed, Linked, Someone
  <2>2. Typed(Closing(b))
    BY <2>1, Put, FieldNames DEF Closing
  <2> QED BY <1>3, <2>2, Put, Values, FieldNames DEF DisconnectAndBackoff
<1> QED BY <1>1, <1>2, <1>3

LEMMA DisconnectFields ==
    ASSUME NEW b, Shaped(b), Staying(b)
    PROVE  LET c == DisconnectAndBackoff(b) IN
           /\ c.disconnect_pending = TRUE /\ c.gatt_stage = "Idle"
           /\ c.init_command_sent = FALSE /\ c.crypto_current = FALSE
           /\ c.pair_step = b.pair_step
           /\ c.pair_save_pending = b.pair_save_pending
           /\ c.scanning = b.scanning /\ c.connecting = b.connecting
           /\ c.pending_addr = b.pending_addr /\ c.current_addr = b.current_addr
           /\ c.con_handle = b.con_handle /\ c.connect_mode = b.connect_mode
           /\ c.bt_links = b.bt_links /\ c.bt_closing = b.bt_closing \cup {b.con_handle}
           /\ c.bt_connect = b.bt_connect /\ c.suspended = b.suspended
           /\ c.manually_disconnected = b.manually_disconnected
           /\ c.forget_addr = b.forget_addr /\ c.saved_target = b.saved_target
BY DEF DisconnectAndBackoff, Closing, Shaped, Fields, Staying

\* The end of a link that is staying, at any stage of its set-up.
LEMMA EndIsLeft ==
    ASSUME NEW b, Typed(b), Links(b), Aims(b), Staying(b),
           b.pair_save_pending => b.pair_step = 3
    PROVE  Left(DisconnectAndBackoff(b)) /\ Kept(b, DisconnectAndBackoff(b))
<1> DEFINE c == DisconnectAndBackoff(b)
<1>1. Typed(c)
  BY DisconnectTyped
<1>2. Shaped(b)
  BY DEF Typed
<1> HIDE DEF c
<1>3. Left(c) /\ Kept(b, c)
  BY <1>1, <1>2, DisconnectFields
     DEF Left, Staying, Base, Links, Aims, Unlinked, Turns, Linked, Quiet, Kept, c
<1> QED BY <1>3 DEF c

LEMMA DisconnectSound ==
    ASSUME NEW b, Base(b)
    PROVE  Left(DisconnectAndBackoff(b)) /\ Kept(b, DisconnectAndBackoff(b))
<1>1. CASE ~Linked(b)
  BY <1>1, BackoffSound DEF DisconnectAndBackoff, Base, Links, Unlinked, Over
<1>2. CASE Linked(b) /\ b.disconnect_pending
  BY <1>2 DEF DisconnectAndBackoff, Left, Staying, Kept
<1>3. CASE Staying(b)
  BY <1>3, EndIsLeft DEF Base, Turns
<1> QED BY <1>1, <1>2, <1>3 DEF Staying

\* A function that touches the display, the delays or the user's wishes only, or
\* that stops a scan, leaves what was sound.
SameLink(b, c) ==
    /\ c.con_handle = b.con_handle /\ c.current_addr = b.current_addr
    /\ c.pending_addr = b.pending_addr /\ c.connecting = b.connecting
    /\ c.connect_mode = b.connect_mode /\ c.disconnect_pending = b.disconnect_pending
    /\ c.saved_target = b.saved_target /\ c.forget_addr = b.forget_addr
    /\ c.bt_links = b.bt_links /\ c.bt_closing = b.bt_closing
    /\ c.bt_connect = b.bt_connect
    /\ (Quiet(c) => Quiet(b)) /\ (c.scanning => b.scanning)

SameSetUp(b, c) ==
    /\ c.gatt_stage = b.gatt_stage /\ c.listening = b.listening
    /\ c.pair_step = b.pair_step /\ c.rumble_write_pending = b.rumble_write_pending
    /\ c.security_pending = b.security_pending
    /\ c.pair_save_pending = b.pair_save_pending
    /\ c.save_target_pending = b.save_target_pending
    /\ c.bt_query = b.bt_query /\ c.bt_security = b.bt_security
    /\ c.init_command_sent = b.init_command_sent /\ c.init_send_due = b.init_send_due
    /\ c.crypto = b.crypto /\ c.crypto_current = b.crypto_current
    /\ c.init_index = b.init_index /\ c.pairing_required = b.pairing_required
    /\ c.mtu_exchange_due = b.mtu_exchange_due
    /\ c.mtu_exchange_pending = b.mtu_exchange_pending
    /\ c.service_discovery_due = b.service_discovery_due
    /\ c.pair_waiting_ack = b.pair_waiting_ack

Same(b, c) == Typed(c) /\ SameLink(b, c) /\ SameSetUp(b, c)

LEMMA SameIsBase ==
    ASSUME NEW b, NEW c, Base(b), Same(b, c)
    PROVE  Base(c) /\ (Staying(c) <=> Staying(b)) /\ Kept(b, c)
BY DEF Base, Links, Aims, Unlinked, Turns, Same, SameLink, SameSetUp, Linked, Staying, Kept

LEMMA SameIsSound ==
    ASSUME NEW b, NEW c, NEW k, NEW h, Sound(b, k, h), Same(b, c)
    PROVE  Sound(c, k, h) /\ Kept(b, c)
<1>1. Base(c) /\ (Staying(c) <=> Staying(b)) /\ Kept(b, c)
  BY SameIsBase DEF Sound
<1>2. SetUp(b, k, h) => SetUp(c, k, h)
  BY DEF SetUp, Waits, Keyed, Heard, Same, SameLink, SameSetUp
<1> QED BY <1>1, <1>2 DEF Sound

LEMMA KeptTwice ==
    ASSUME NEW b, NEW c, NEW d, Kept(b, c), Kept(c, d)
    PROVE  Kept(b, d)
BY DEF Kept

LEMMA ShowSame ==
    ASSUME NEW b, Typed(b), NEW v \in Kind["state"]
    PROVE  Same(b, [b EXCEPT !.state = v])
<1> DEFINE c == [b EXCEPT !.state = v]
<1>1. Typed(c)
  BY Put, FieldNames
<1>2. SameLink(b, c) /\ SameSetUp(b, c)
  BY DEF SameLink, SameSetUp, Typed, Shaped, Fields, Quiet
<1> QED BY <1>1, <1>2 DEF Same

LEMMA StopScanSame ==
    ASSUME NEW b, Typed(b)
    PROVE  Same(b, StopScan(b)) /\ ~StopScan(b).scanning
<1> DEFINE c == [b EXCEPT !.scanning = FALSE, !.bt_scanning = FALSE]
<1>1. CASE b.scanning
  <2>1. Typed(c)
    BY Put, Values, FieldNames
  <2>2. SameLink(b, c) /\ SameSetUp(b, c) /\ ~c.scanning
    BY DEF SameLink, SameSetUp, Typed, Shaped, Fields, Quiet
  <2> QED BY <1>1, <2>1, <2>2 DEF StopScan, Same
<1>2. CASE ~b.scanning
  BY <1>2 DEF StopScan, Same, SameLink, SameSetUp
<1> QED BY <1>1, <1>2

LEMMA HciReadySame == ASSUME NEW b, Typed(b) PROVE Same(b, NoteHciReady(b))
<1> DEFINE c == [b EXCEPT !.hci_ready = TRUE, !.state = "Idle", !.auto_start_due = TRUE]
<1>1. Typed(c)
  BY Put, Values, FieldNames
<1>2. SameLink(b, c) /\ SameSetUp(b, c)
  BY DEF SameLink, SameSetUp, Typed, Shaped, Fields, Quiet
<1> QED BY <1>1, <1>2 DEF NoteHciReady, Same, SameLink, SameSetUp

\* A scan starts only where nothing else is under way.
LEMMA ScanSound ==
    ASSUME NEW b, NEW k, NEW h, Sound(b, k, h), NEW mode \in Modes
    PROVE  /\ Sound(StartScanInternal(b, mode), k, h)
           /\ StartScanInternal(b, mode).saved_target = b.saved_target
           /\ StartScanInternal(b, mode).forget_addr = b.forget_addr
<1> DEFINE c == [b EXCEPT !.scanning = TRUE, !.bt_scanning = TRUE, !.connect_mode = mode,
                          !.state = "Busy"]
<1>0. Base(b)
  BY DEF Sound
<1>1. CASE ~b.hci_ready \/ Quiet(b) \/ b.connecting \/ Linked(b)
  BY <1>1 DEF StartScanInternal
<1>2. CASE ~(~b.hci_ready \/ Quiet(b) \/ b.connecting \/ Linked(b))
  <2>1. Typed(c)
    BY <1>0, KindOf, Put, Values, FieldNames DEF Base
  <2>3. /\ c.con_handle = b.con_handle /\ c.connecting = b.connecting
        /\ c.pending_addr = b.pending_addr /\ c.bt_links = b.bt_links
        /\ c.bt_closing = b.bt_closing /\ c.saved_target = b.saved_target
        /\ c.forget_addr = b.forget_addr /\ c.suspended = b.suspended
        /\ c.manually_disconnected = b.manually_disconnected
        /\ c.disconnect_pending = b.disconnect_pending
    BY <1>0 DEF Base, Typed, Shaped, Fields
  <2>4. SameSetUp(b, c)
    BY <1>0 DEF Base, Typed, Shaped, Fields, SameSetUp
  <2> HIDE DEF c
  <2>5. Base(c)
    BY <1>0, <1>2, <2>1, <2>3, <2>4
       DEF Base, Links, Aims, Unlinked, Turns, SameSetUp, Linked, Quiet
  <2>6. ~Staying(c)
    BY <1>2, <2>3 DEF Staying, Linked
  <2> QED BY <1>2, <2>3, <2>5, <2>6 DEF Sound, StartScanInternal, c
<1> QED BY <1>1, <1>2

LEMMA AutoAttemptSound ==
    ASSUME NEW b, NEW k, NEW h, Sound(b, k, h)
    PROVE  /\ Sound(StartAutoAttempt(b), k, h)
           /\ StartAutoAttempt(b).saved_target = b.saved_target
           /\ StartAutoAttempt(b).forget_addr = b.forget_addr
<1>1. Typed(b) /\ Base(b)
  BY DEF Sound, Base
<1>2. CASE Quiet(b) \/ ~Wanted(b)
  <2>1. Same(b, [b EXCEPT !.state = "Idle"])
    BY <1>1, ShowSame, Values
  <2> QED BY <1>2, <2>1, SameIsSound DEF StartAutoAttempt, Kept
<1>3. CASE ~(Quiet(b) \/ ~Wanted(b))
  <2> DEFINE mode == IF b.requested_mode # "None" THEN b.requested_mode
                     ELSE IF b.saved_target # NoPeer THEN "ScanAuto" ELSE "PairingScan"
  <2>1. mode \in Modes
    BY <1>1, KindOf, FieldNames DEF Typed, Modes
  <2> HIDE DEF mode
  <2>2. /\ Sound(StartScanInternal(b, mode), k, h)
        /\ StartScanInternal(b, mode).saved_target = b.saved_target
        /\ StartScanInternal(b, mode).forget_addr = b.forget_addr
    BY <1>1, <2>1, ScanSound
  <2>3. StartAutoAttempt(b) = StartScanInternal(b, mode)
    BY <1>3 DEF StartAutoAttempt, mode
  <2> QED BY <2>2, <2>3
<1> QED BY <1>2, <1>3

\* What the functions that stand down have in common.
StoodDown(b, c) ==
    /\ Typed(c) /\ SameSetUp(b, c)
    /\ c.con_handle = b.con_handle /\ c.current_addr = b.current_addr
    /\ c.disconnect_pending = b.disconnect_pending
    /\ c.saved_target = b.saved_target /\ c.forget_addr = b.forget_addr
    /\ c.bt_links = b.bt_links /\ c.bt_closing = b.bt_closing
    /\ c.bt_connect = b.bt_connect
    /\ c.suspended = b.suspended /\ c.manually_disconnected = b.manually_disconnected
    /\ c.pending_addr = NoPeer /\ ~c.scanning /\ ~c.connecting

LEMMA StandDownFields == ASSUME NEW b, Typed(b) PROVE StoodDown(b, StandDown(b))
<1> DEFINE c == [b EXCEPT !.auto_start_due = FALSE, !.next_retry = FALSE,
                          !.pending_addr = NoPeer]
           d == [c EXCEPT !.scanning = FALSE, !.bt_scanning = FALSE]
<1>1. Typed(c) /\ Typed(StopConnect(c)) /\ Typed(StopConnect(d))
  BY Put, Values, FieldNames DEF StopConnect
<1>2. CASE b.scanning
  <2>1. StandDown(b) = StopConnect(d)
    BY <1>2 DEF StandDown, StopScan, Typed, Shaped, Fields
  <2>2. SameSetUp(b, StopConnect(d))
    BY DEF SameSetUp, StopConnect, Typed, Shaped, Fields
  <2>3. LET e == StopConnect(d) IN
        /\ e.con_handle = b.con_handle /\ e.current_addr = b.current_addr
        /\ e.disconnect_pending = b.disconnect_pending
        /\ e.saved_target = b.saved_target /\ e.forget_addr = b.forget_addr
        /\ e.bt_links = b.bt_links /\ e.bt_closing = b.bt_closing
        /\ e.bt_connect = b.bt_connect
        /\ e.suspended = b.suspended /\ e.manually_disconnected = b.manually_disconnected
        /\ e.pending_addr = NoPeer /\ e.connecting = FALSE /\ e.scanning = FALSE
    BY DEF StopConnect, Typed, Shaped, Fields
  <2> QED BY <1>1, <2>1, <2>2, <2>3 DEF StoodDown
<1>3. CASE ~b.scanning
  <2>1. StandDown(b) = StopConnect(c)
    BY <1>3 DEF StandDown, StopScan, Typed, Shaped, Fields
  <2>2. SameSetUp(b, StopConnect(c))
    BY DEF SameSetUp, StopConnect, Typed, Shaped, Fields
  <2>3. LET e == StopConnect(c) IN
        /\ e.con_handle = b.con_handle /\ e.current_addr = b.current_addr
        /\ e.disconnect_pending = b.disconnect_pending
        /\ e.saved_target = b.saved_target /\ e.forget_addr = b.forget_addr
        /\ e.bt_links = b.bt_links /\ e.bt_closing = b.bt_closing
        /\ e.bt_connect = b.bt_connect
        /\ e.suspended = b.suspended /\ e.manually_disconnected = b.manually_disconnected
        /\ e.pending_addr = NoPeer /\ e.connecting = FALSE /\ e.scanning = b.scanning
    BY DEF StopConnect, Typed, Shaped, Fields
  <2> QED BY <1>1, <1>3, <2>1, <2>2, <2>3 DEF StoodDown
<1> QED BY <1>2, <1>3

\* Standing down leaves nothing that the user's word could be against.
LEMMA StandDownBase ==
    ASSUME NEW b, Typed(b), Links(b), Unlinked(b), Turns(b)
    PROVE  /\ Base(StandDown(b)) /\ Kept(b, StandDown(b))
           /\ StandDown(b).con_handle = b.con_handle
           /\ StandDown(b).disconnect_pending = b.disconnect_pending
<1> DEFINE c == StandDown(b)
<1>1. StoodDown(b, c)
  BY StandDownFields
<1> HIDE DEF c
<1>2. /\ Base(c) /\ Kept(b, c)
      /\ c.con_handle = b.con_handle /\ c.disconnect_pending = b.disconnect_pending
  BY <1>1 DEF StoodDown, SameSetUp, Base, Links, Aims, Unlinked, Turns, Linked, Quiet, Kept
<1> QED BY <1>2 DEF c

\* A record that differs from a sound one in the user's wishes.
SameButWishes(b, c) ==
    /\ Typed(c)
    /\ c.con_handle = b.con_handle /\ c.current_addr = b.current_addr
    /\ c.pending_addr = b.pending_addr /\ c.connecting = b.connecting
    /\ c.scanning = b.scanning /\ c.disconnect_pending = b.disconnect_pending
    /\ c.saved_target = b.saved_target /\ c.forget_addr = b.forget_addr
    /\ c.bt_links = b.bt_links /\ c.bt_closing = b.bt_closing
    /\ c.bt_connect = b.bt_connect
    /\ c.gatt_stage = b.gatt_stage /\ c.listening = b.listening
    /\ c.pair_step = b.pair_step /\ c.rumble_write_pending = b.rumble_write_pending
    /\ c.security_pending = b.security_pending
    /\ c.pair_save_pending = b.pair_save_pending
    /\ (c.save_target_pending => b.save_target_pending)
    /\ c.bt_query = b.bt_query /\ c.bt_security = b.bt_security
    /\ c.init_command_sent = b.init_command_sent /\ c.init_send_due = b.init_send_due
    /\ c.crypto = b.crypto /\ c.crypto_current = b.crypto_current
    /\ c.init_index = b.init_index

\* The user's "no": no scan, no attempt, and a link is given up.
LEMMA StandDownAndLeave ==
    ASSUME NEW b, Base(b), NEW c, SameButWishes(b, c)
    PROVE  LET d == StandDown(c)
               e == IF Linked(d) THEN DisconnectAndBackoff(d) ELSE [d EXCEPT !.state = "Idle"]
           IN  Left(e) /\ Kept(b, e) /\ ~e.connecting /\ ~e.scanning
<1> DEFINE d == StandDown(c)
           e == IF Linked(d) THEN DisconnectAndBackoff(d) ELSE [d EXCEPT !.state = "Idle"]
<1>1. Typed(c) /\ Links(c) /\ Unlinked(c) /\ Turns(c) /\ Kept(b, c)
  BY DEF SameButWishes, Base, Links, Unlinked, Turns, Linked, Kept
<1>2. Base(d) /\ Kept(c, d) /\ StoodDown(c, d)
  BY <1>1, StandDownBase, StandDownFields
<1> HIDE DEF d
<1>3. CASE Linked(d)
  <2>1. Left(e) /\ Kept(d, e)
    BY <1>2, <1>3, DisconnectSound
  <2> HIDE DEF e
  <2> QED BY <1>1, <1>2, <2>1, KeptTwice DEF StoodDown, Kept, d, e
<1>4. CASE ~Linked(d)
  <2>1. Typed(d) /\ e = [d EXCEPT !.state = "Idle"]
    BY <1>2, <1>4 DEF Base
  <2>2. Same(d, e)
    BY <2>1, ShowSame, Values
  <2> HIDE DEF e
  <2>3. Base(e) /\ ~Staying(e) /\ Kept(d, e)
    BY <1>2, <1>4, <2>2, SameIsBase DEF Staying
  <2> QED BY <1>1, <1>2, <2>3, KeptTwice DEF StoodDown, Kept, Left, d, e
<1> QED BY <1>3, <1>4

-----------------------------------------------------------------------------
(* The functions that others call.                                         *)

LEMMA BleDisconnectSound ==
    ASSUME NEW b, Base(b)
    PROVE  /\ Left(Ns2BleDisconnect(b)) /\ Kept(b, Ns2BleDisconnect(b))
           /\ ~Ns2BleDisconnect(b).connecting
<1> DEFINE c == [b EXCEPT !.manually_disconnected = TRUE, !.requested_mode = "None",
                          !.save_target_pending = FALSE]
<1>1. Typed(c) /\ Shaped(b)
  BY Put, Values, FieldNames DEF Base, Typed
<1>2. SameButWishes(b, c)
  <2>1. c.save_target_pending = FALSE
    BY <1>1 DEF Shaped, Fields
  <2> QED BY <1>1, <2>1 DEF SameButWishes, Shaped, Fields
<1> HIDE DEF c
<1> QED BY <1>2, StandDownAndLeave DEF Ns2BleDisconnect, c

LEMMA SuspendSound ==
    ASSUME NEW b, Base(b)
    PROVE  Left(Ns2BleSuspendAuto(b)) /\ Kept(b, Ns2BleSuspendAuto(b))
<1> DEFINE c == [b EXCEPT !.suspended = TRUE, !.save_target_pending = FALSE]
<1>1. Typed(c) /\ Shaped(b)
  BY Put, Values, FieldNames DEF Base, Typed
<1>2. SameButWishes(b, c)
  <2>1. c.save_target_pending = FALSE
    BY <1>1 DEF Shaped, Fields
  <2> QED BY <1>1, <2>1 DEF SameButWishes, Shaped, Fields
<1> HIDE DEF c
<1> QED BY <1>2, StandDownAndLeave DEF Ns2BleSuspendAuto, c

LEMMA ResumeSound ==
    ASSUME NEW b, NEW k, NEW h, Sound(b, k, h), NEW user_requested \in BOOLEAN
    PROVE  /\ Sound(Ns2BleResumeAuto(b, user_requested), k, h)
           /\ Kept(b, Ns2BleResumeAuto(b, user_requested))
<1> DEFINE c == [b EXCEPT !.suspended = FALSE,
                          !.manually_disconnected = @ /\ ~user_requested]
           d == [c EXCEPT !.state = "Idle",
                   !.auto_start_due = @ \/ (c.auto_connect /\ ~c.manually_disconnected)]
<1>0. Typed(b)
  BY DEF Sound, Base
<1>1. Typed(c)
  <2>1. (b.manually_disconnected /\ ~user_requested) \in Kind["manually_disconnected"]
    BY KindOf
  <2> QED BY <1>0, <2>1, Put, Values, FieldNames
<1>2. Same(b, c)
  <2>1. SameSetUp(b, c)
    BY <1>0 DEF SameSetUp, Typed, Shaped, Fields
  <2>2. SameLink(b, c)
    BY <1>0 DEF SameLink, Typed, Shaped, Fields, Quiet
  <2> QED BY <1>1, <2>1, <2>2 DEF Same
<1> HIDE DEF c
<1>3. Same(c, d)
  <2>1. Typed(d)
    <3>1. (c.auto_start_due \/ (c.auto_connect /\ ~c.manually_disconnected))
             \in Kind["auto_start_due"]
      BY KindOf
    <3> QED BY <1>1, <3>1, Put, Values, FieldNames
  <2>2. SameLink(c, d) /\ SameSetUp(c, d)
    BY <1>1 DEF SameLink, SameSetUp, Typed, Shaped, Fields, Quiet
  <2> QED BY <2>1, <2>2 DEF Same
<1>4. Sound(c, k, h) /\ Kept(b, c) /\ Sound(d, k, h) /\ Kept(c, d)
  BY <1>2, <1>3, SameIsSound
<1> HIDE DEF d
<1>5. Kept(b, d)
  BY <1>4, KeptTwice
<1> QED BY <1>4, <1>5 DEF Ns2BleResumeAuto, c, d

LEMMA CancelSound ==
    ASSUME NEW b, NEW k, NEW h, Sound(b, k, h)
    PROVE  /\ Sound(Ns2BleCancelManualRequest(b), k, h)
           /\ Kept(b, Ns2BleCancelManualRequest(b))
<1> DEFINE c == [b EXCEPT !.requested_mode = "None"]
           d == StandDown(c)
           e == Ns2BleCancelManualRequest(b)
<1>0. Typed(b) /\ Base(b)
  BY DEF Sound, Base
<1>1. Same(b, c)
  <2>1. Typed(c)
    BY <1>0, Put, Values, FieldNames
  <2>2. SameLink(b, c) /\ SameSetUp(b, c)
    BY <1>0 DEF SameLink, SameSetUp, Typed, Shaped, Fields, Quiet
  <2> QED BY <2>1, <2>2 DEF Same
<1> HIDE DEF c
<1>2. Sound(c, k, h) /\ Kept(b, c) /\ Base(c)
  BY <1>1, SameIsSound DEF Sound
<1>3. Base(d) /\ Kept(c, d)
  BY <1>2, StandDownBase DEF Base
<1> HIDE DEF d
<1>4. Kept(b, d)
  BY <1>2, <1>3, KeptTwice
<1>5. CASE b.requested_mode = "None" \/ (Linked(b) /\ b.state = "ConnectedLive")
  BY <1>2, <1>5 DEF Ns2BleCancelManualRequest, c
<1>6. CASE /\ ~(b.requested_mode = "None" \/ (Linked(b) /\ b.state = "ConnectedLive"))
           /\ Linked(d)
  <2>1. Left(DisconnectAndBackoff(d)) /\ Kept(d, DisconnectAndBackoff(d))
    BY <1>3, DisconnectSound
  <2>2. e = DisconnectAndBackoff(d)
    BY <1>6 DEF Ns2BleCancelManualRequest, c, d
  <2> QED BY <1>4, <2>1, <2>2, LeftIsSound, KeptTwice
<1>7. CASE /\ ~(b.requested_mode = "None" \/ (Linked(b) /\ b.state = "ConnectedLive"))
           /\ ~Linked(d) /\ d.auto_connect /\ ~Quiet(d)
  <2>1. Left(EnterBackoff(d)) /\ Kept(d, EnterBackoff(d))
    BY <1>3, <1>7, BackoffSound DEF Base, Links, Unlinked, Over
  <2>2. e = EnterBackoff(d)
    BY <1>7 DEF Ns2BleCancelManualRequest, c, d
  <2> QED BY <1>4, <2>1, <2>2, LeftIsSound, KeptTwice
<1>8. CASE /\ ~(b.requested_mode = "None" \/ (Linked(b) /\ b.state = "ConnectedLive"))
           /\ ~Linked(d) /\ ~(d.auto_connect /\ ~Quiet(d))
  <2>1. Left(ResetGattCache(d)) /\ Kept(d, ResetGattCache(d))
    BY <1>3, <1>8, ResetSound DEF Base, Links, Unlinked, Over
  <2>2. Same(ResetGattCache(d), [ResetGattCache(d) EXCEPT !.state = "Idle"])
    BY <2>1, ShowSame, Values DEF Left, Base
  <2>3. e = [ResetGattCache(d) EXCEPT !.state = "Idle"]
    BY <1>8 DEF Ns2BleCancelManualRequest, c, d
  <2>4. Left(e) /\ Kept(ResetGattCache(d), e)
    BY <2>1, <2>2, <2>3, SameIsBase DEF Left
  <2> QED BY <1>4, <2>1, <2>4, LeftIsSound, KeptTwice
<1> QED BY <1>5, <1>6, <1>7, <1>8

LEMMA ForgetSound ==
    ASSUME NEW b, Base(b)
    PROVE  Left(Ns2BleForget(b)) /\ Ns2BleForget(b).saved_target = NoPeer
<1> DEFINE c == Ns2BleDisconnect(b)
           v == IF c.saved_target # NoPeer THEN c.saved_target ELSE c.forget_addr
           d == [c EXCEPT !.forget_addr = v, !.saved_target = NoPeer]
<1>1. Left(c) /\ ~c.connecting
  BY BleDisconnectSound
<1> HIDE DEF c
<1>2. Typed(c)
  BY <1>1 DEF Left, Base
<1>3. v \in Kind["forget_addr"]
  BY <1>2, KindOf, FieldNames DEF Typed
<1> HIDE DEF v
<1>4. Typed(d)
  BY <1>2, <1>3, Put, Values, FieldNames
<1>5. SameSetUp(c, d)
  BY <1>2 DEF SameSetUp, Typed, Shaped, Fields
<1>6. /\ d.con_handle = c.con_handle /\ d.current_addr = c.current_addr
      /\ d.pending_addr = c.pending_addr /\ d.connecting = c.connecting
      /\ d.scanning = c.scanning /\ d.disconnect_pending = c.disconnect_pending
      /\ d.saved_target = NoPeer
      /\ d.bt_links = c.bt_links /\ d.bt_closing = c.bt_closing
      /\ d.bt_connect = c.bt_connect
      /\ d.suspended = c.suspended /\ d.manually_disconnected = c.manually_disconnected
  BY <1>2 DEF Typed, Shaped, Fields
<1>7. d = Ns2BleForget(b)
  BY DEF Ns2BleForget, c, v
<1> HIDE DEF d
<1>8. Left(d)
  BY <1>1, <1>4, <1>5, <1>6
     DEF Left, Staying, Base, Links, Aims, Unlinked, Turns, SameSetUp, Linked, Quiet
<1> QED BY <1>6, <1>7, <1>8

LEMMA GiveUpAttempt ==
    ASSUME NEW b, Base(b), ~Linked(b)
    PROVE  Left(EnterBackoff(StopConnect(b))) /\ Kept(b, EnterBackoff(StopConnect(b)))
<1> DEFINE c == StopConnect(b)
<1>1. Typed(c)
  BY Put, Values, FieldNames DEF Base, StopConnect
<1>2. /\ c.con_handle = b.con_handle /\ c.bt_links = b.bt_links
      /\ c.bt_closing = b.bt_closing /\ c.save_target_pending = b.save_target_pending
      /\ c.bt_query = b.bt_query /\ c.bt_security = b.bt_security
      /\ c.saved_target = b.saved_target /\ c.forget_addr = b.forget_addr
      /\ c.scanning = b.scanning /\ c.connecting = FALSE
  BY DEF StopConnect, Base, Typed, Shaped, Fields
<1> HIDE DEF c
<1>3. Over(c) /\ Kept(b, c)
  BY <1>2 DEF Over, Base, Links, Unlinked, Linked, Kept
<1>4. Left(EnterBackoff(c)) /\ Kept(c, EnterBackoff(c))
  BY <1>1, <1>3, BackoffSound
<1> QED BY <1>3, <1>4, KeptTwice DEF c

LEMMA PairSound ==
    ASSUME NEW b, NEW k, NEW h, Sound(b, k, h)
    PROVE  Sound(Ns2BlePair(b), k, h) /\ Ns2BlePair(b).saved_target = b.saved_target
<1> DEFINE a == [b EXCEPT !.manually_disconnected = FALSE, !.suspended = FALSE,
                          !.requested_mode = "PairingScan"]
           c == StopScan(a)
           d == [c EXCEPT !.next_retry = FALSE]
<1>1. Same(b, a)
  <2>1. Typed(b)
    BY DEF Sound, Base
  <2>2. Typed(a)
    BY <2>1, Put, Values, FieldNames
  <2>3. SameLink(b, a) /\ SameSetUp(b, a)
    BY <2>1 DEF SameLink, SameSetUp, Typed, Shaped, Fields, Quiet
  <2> QED BY <2>2, <2>3 DEF Same
<1> HIDE DEF a
<1>2. Sound(a, k, h) /\ Kept(b, a)
  BY <1>1, SameIsSound
<1>3. Sound(c, k, h) /\ Kept(a, c)
  BY <1>1, <1>2, StopScanSame, SameIsSound DEF Same
<1> HIDE DEF c
<1>4. CASE c.connecting
  <2>1. Base(c) /\ ~Linked(c)
    BY <1>3, <1>4 DEF Sound, Base, Links
  <2>2. Ns2BlePair(b) = EnterBackoff(StopConnect(c))
    BY <1>4 DEF Ns2BlePair, a, c
  <2> QED BY <1>2, <1>3, <2>1, <2>2, GiveUpAttempt, LeftIsSound DEF Kept
<1>5. CASE ~c.connecting /\ Linked(c)
  <2>1. Ns2BlePair(b) = DisconnectAndBackoff(c)
    BY <1>5 DEF Ns2BlePair, a, c
  <2> QED BY <1>2, <1>3, <2>1, DisconnectSound, LeftIsSound DEF Sound, Kept
<1>6. CASE ~c.connecting /\ ~Linked(c)
  <2>1. Same(c, d)
    <3>1. Typed(d) /\ Typed(c)
      BY <1>3, Put, Values, FieldNames DEF Sound, Base
    <3>2. SameLink(c, d) /\ SameSetUp(c, d)
      BY <3>1 DEF SameLink, SameSetUp, Typed, Shaped, Fields, Quiet
    <3> QED BY <3>1, <3>2 DEF Same
  <2> HIDE DEF d
  <2>2. Sound(d, k, h) /\ Kept(c, d)
    BY <1>3, <2>1, SameIsSound
  <2>3. Ns2BlePair(b) = StartScanInternal(d, "PairingScan")
    BY <1>6 DEF Ns2BlePair, a, c, d
  <2> QED BY <1>2, <1>3, <2>2, <2>3, ScanSound DEF Kept, Modes
<1> QED BY <1>4, <1>5, <1>6

LEMMA ReconnectSound ==
    ASSUME NEW b, NEW k, NEW h, Sound(b, k, h)
    PROVE  Sound(Ns2BleReconnect(b), k, h) /\ Ns2BleReconnect(b).saved_target = b.saved_target
<1> DEFINE c == [b EXCEPT !.manually_disconnected = FALSE, !.suspended = FALSE,
                          !.requested_mode = "ScanAuto"]
           n == [c EXCEPT !.requested_mode = "None"]
           d == StopScan(c)
           e == [d EXCEPT !.next_retry = FALSE, !.state = "Idle"]
<1>1. Same(b, c)
  <2>1. Typed(b)
    BY DEF Sound, Base
  <2>2. Typed(c)
    BY <2>1, Put, Values, FieldNames
  <2>3. SameLink(b, c) /\ SameSetUp(b, c)
    BY <2>1 DEF SameLink, SameSetUp, Typed, Shaped, Fields, Quiet
  <2> QED BY <2>2, <2>3 DEF Same
<1> HIDE DEF c
<1>2. Sound(c, k, h) /\ Kept(b, c)
  BY <1>1, SameIsSound
<1>3. Same(c, n)
  <2>1. Typed(c) /\ Typed(n)
    BY <1>1, Put, Values, FieldNames DEF Same
  <2>2. SameLink(c, n) /\ SameSetUp(c, n)
    BY <2>1 DEF SameLink, SameSetUp, Typed, Shaped, Fields, Quiet
  <2> QED BY <2>1, <2>2 DEF Same
<1>4. Sound(n, k, h) /\ Kept(c, n)
  BY <1>2, <1>3, SameIsSound
<1> HIDE DEF n
<1>5. Sound(d, k, h) /\ Kept(c, d)
  BY <1>1, <1>2, StopScanSame, SameIsSound DEF Same
<1> HIDE DEF d
<1>6. CASE c.saved_target = NoPeer
  BY <1>2, <1>4, <1>6 DEF Ns2BleReconnect, Kept, c, n
<1>7. CASE c.saved_target # NoPeer /\ Linked(d)
  <2>1. Ns2BleReconnect(b) = DisconnectAndBackoff(d)
    BY <1>7 DEF Ns2BleReconnect, c, d
  <2> QED BY <1>2, <1>5, <2>1, DisconnectSound, LeftIsSound DEF Sound, Kept
<1>8. CASE c.saved_target # NoPeer /\ ~Linked(d) /\ d.connecting
  <2>1. Ns2BleReconnect(b) = EnterBackoff(StopConnect(d))
    BY <1>8 DEF Ns2BleReconnect, c, d
  <2> QED BY <1>2, <1>5, <1>8, <2>1, GiveUpAttempt, LeftIsSound DEF Sound, Kept
<1>9. CASE c.saved_target # NoPeer /\ ~Linked(d) /\ ~d.connecting
  <2>1. Same(d, e)
    <3>1. Typed(d) /\ Typed(e)
      BY <1>5, Put, Values, FieldNames DEF Sound, Base
    <3>2. SameLink(d, e) /\ SameSetUp(d, e)
      BY <3>1 DEF SameLink, SameSetUp, Typed, Shaped, Fields, Quiet
    <3> QED BY <3>1, <3>2 DEF Same
  <2> HIDE DEF e
  <2>2. Sound(e, k, h) /\ Kept(d, e)
    BY <1>5, <2>1, SameIsSound
  <2>3. Ns2BleReconnect(b) = StartAutoAttempt(e)
    BY <1>9 DEF Ns2BleReconnect, c, d, e
  <2> QED BY <1>2, <1>5, <2>2, <2>3, AutoAttemptSound DEF Kept
<1> QED BY <1>6, <1>7, <1>8, <1>9

LEMMA SetAutoSound ==
    ASSUME NEW b, NEW k, NEW h, Sound(b, k, h), NEW enabled \in BOOLEAN
    PROVE  /\ Sound(Ns2BleSetAutoConnect(b, enabled), k, h)
           /\ Kept(b, Ns2BleSetAutoConnect(b, enabled))
<1> DEFINE c == [b EXCEPT !.auto_connect = enabled, !.requested_mode = "None"]
           d == StandDown(c)
           e == [c EXCEPT !.manually_disconnected = FALSE, !.auto_start_due = TRUE]
           f == [d EXCEPT !.state = "Idle"]
<1>1. Same(b, c)
  <2>1. Typed(b)
    BY DEF Sound, Base
  <2>2. Typed(c)
    BY <2>1, KindOf, Put, Values, FieldNames
  <2>3. SameLink(b, c) /\ SameSetUp(b, c)
    BY <2>1 DEF SameLink, SameSetUp, Typed, Shaped, Fields, Quiet
  <2> QED BY <2>2, <2>3 DEF Same
<1> HIDE DEF c
<1>2. Sound(c, k, h) /\ Kept(b, c) /\ Typed(c)
  BY <1>1, SameIsSound DEF Same
<1>3. Same(c, e)
  <2>1. Typed(e)
    BY <1>2, Put, Values, FieldNames
  <2>2. SameLink(c, e) /\ SameSetUp(c, e)
    BY <1>2 DEF SameLink, SameSetUp, Typed, Shaped, Fields, Quiet
  <2> QED BY <2>1, <2>2 DEF Same
<1>4. Base(d) /\ Kept(c, d) /\ StoodDown(c, d)
  BY <1>2, StandDownBase, StandDownFields DEF Sound, Base
<1> HIDE DEF d, e
<1>5. CASE enabled
  <2>1. Ns2BleSetAutoConnect(b, enabled) = e
    BY <1>5 DEF Ns2BleSetAutoConnect, c, e
  <2> QED BY <1>2, <1>3, <2>1, SameIsSound, KeptTwice
<1>6. CASE ~enabled /\ Linked(d)
  <2>1. Ns2BleSetAutoConnect(b, enabled) = d
    BY <1>6 DEF Ns2BleSetAutoConnect, c, d
  <2>2. Linked(c) /\ c.pending_addr = NoPeer /\ ~c.connecting /\ ~c.scanning
    BY <1>2, <1>4, <1>6 DEF Sound, Base, Links, StoodDown, Linked
  <2>3. SetUp(c, k, h) => SetUp(d, k, h)
    BY <1>4 DEF SetUp, Waits, Keyed, Heard, StoodDown, SameSetUp, Quiet
  <2>4. Staying(d) => Staying(c)
    BY <1>4 DEF StoodDown, Staying, Linked
  <2> QED BY <1>2, <1>4, <2>1, <2>3, <2>4, KeptTwice DEF Sound
<1>7. CASE ~enabled /\ ~Linked(d)
  <2>1. Ns2BleSetAutoConnect(b, enabled) = f
    BY <1>7 DEF Ns2BleSetAutoConnect, c, d, f
  <2>2. Same(d, f)
    BY <1>4, ShowSame, Values DEF Base
  <2> HIDE DEF f
  <2>3. Left(f) /\ Kept(d, f)
    BY <1>4, <1>7, <2>2, SameIsBase DEF Left, Staying
  <2> QED BY <1>2, <1>4, <2>1, <2>3, LeftIsSound, KeptTwice
<1> QED BY <1>5, <1>6, <1>7

-----------------------------------------------------------------------------
(* Those who call them.                                                    *)

LEMMA ApplySound ==
    ASSUME NEW b, NEW k, NEW h, Sound(b, k, h), NEW user_requested \in BOOLEAN
    PROVE  /\ Sound(BridgeConnectionApply(b, user_requested), k, h)
           /\ Kept(b, BridgeConnectionApply(b, user_requested))
BY SuspendSound, ResumeSound, LeftIsSound DEF BridgeConnectionApply, Sound

LEMMA AttemptSame ==
    ASSUME NEW b, Typed(b), NEW v \in BOOLEAN
    PROVE  Same(b, [b EXCEPT !.attempt = v])
<1> DEFINE c == [b EXCEPT !.attempt = v]
<1>1. Typed(c)
  BY KindOf, Put, FieldNames
<1>2. SameLink(b, c) /\ SameSetUp(b, c)
  BY DEF SameLink, SameSetUp, Typed, Shaped, Fields, Quiet
<1> QED BY <1>1, <1>2 DEF Same

LEMMA ResetCallSound ==
    ASSUME NEW b, NEW k, NEW h, Sound(b, k, h)
    PROVE  Sound(BridgeConnectionReset(b), k, h) /\ Kept(b, BridgeConnectionReset(b))
<1> DEFINE c == Ns2BleCancelManualRequest(b)
           d == [c EXCEPT !.attempt = FALSE]
<1>1. Sound(c, k, h) /\ Kept(b, c)
  BY CancelSound
<1> HIDE DEF c
<1>2. Sound(d, k, h) /\ Kept(c, d)
  BY <1>1, AttemptSame, SameIsSound DEF Sound, Base
<1> HIDE DEF d
<1>3. /\ Sound(BridgeConnectionApply(d, FALSE), k, h)
      /\ Kept(d, BridgeConnectionApply(d, FALSE))
  BY <1>2, ApplySound
<1> QED BY <1>1, <1>2, <1>3, KeptTwice DEF BridgeConnectionReset, c, d

LEMMA BeginSound ==
    ASSUME NEW b, NEW k, NEW h, Sound(b, k, h)
    PROVE  Sound(BeginManualConnection(b), k, h) /\ Kept(b, BeginManualConnection(b))
<1> DEFINE c == BridgeConnectionReset(b)
           d == [c EXCEPT !.attempt = TRUE]
<1>1. Sound(c, k, h) /\ Kept(b, c)
  BY ResetCallSound
<1> HIDE DEF c
<1>2. Sound(d, k, h) /\ Kept(c, d)
  BY <1>1, AttemptSame, SameIsSound DEF Sound, Base
<1> HIDE DEF d
<1>3. /\ Sound(BridgeConnectionApply(d, FALSE), k, h)
      /\ Kept(d, BridgeConnectionApply(d, FALSE))
  BY <1>2, ApplySound
<1> QED BY <1>1, <1>2, <1>3, KeptTwice DEF BeginManualConnection, c, d

-----------------------------------------------------------------------------
(* The set-up of a link.                                                   *)

OnLink(b) ==
    /\ Typed(b) /\ Links(b) /\ Aims(b) /\ Linked(b)
    /\ Staying(b) => ~Quiet(b) /\ b.forget_addr = NoPeer

\* What is needed to begin a phase of the set-up.
Trusted(b, k, h) ==
    /\ ~b.pairing_required => k[b.con_handle] # "none"
    /\ b.pairing_required => ~b.save_target_pending
    /\ b.crypto = "aes" /\ b.crypto_current => {1, 4, 2} \subseteq h

Fresh(b, k, h) == OnLink(b) /\ Turns(b) /\ (Staying(b) => Trusted(b, k, h))

\* After an answer and before the next request: all but what is waited for.
Between(b, k, h) ==
    /\ OnLink(b) /\ Turns(b)
    /\ Staying(b) => /\ Keyed(b, k) /\ Heard(b, h)
                     /\ b.rumble_write_pending => b.gatt_stage = "Ready"

LEMMA BetweenIsFresh == ASSUME NEW b, NEW k, NEW h, Between(b, k, h) PROVE Fresh(b, k, h)
BY DEF Between, Fresh, Trusted, Keyed, Heard

LEMMA SoundIsBetween ==
    ASSUME NEW b, NEW k, NEW h, Sound(b, k, h), Linked(b)
    PROVE  Between(b, k, h)
BY DEF Sound, Base, SetUp, Between, OnLink, Waits

LEMMA BetweenIsSound ==
    ASSUME NEW b, NEW k, NEW h, Between(b, k, h), Staying(b) => Waits(b)
    PROVE  Sound(b, k, h)
BY DEF Sound, Base, SetUp, Between, OnLink, Unlinked

LEMMA OnLinkKept ==
    ASSUME NEW b, NEW c, OnLink(b), Typed(c), SameLink(b, c)
    PROVE  OnLink(c) /\ Kept(b, c) /\ (Staying(c) <=> Staying(b)) /\ c.con_handle = b.con_handle
BY DEF OnLink, Links, Aims, SameLink, Linked, Staying, Kept

\* A set-up that cannot go on is the end of the link.
LEMMA EndSound ==
    ASSUME NEW b, NEW k, NEW h, OnLink(b), Turns(b)
    PROVE  /\ Sound(DisconnectAndBackoff(b), k, h)
           /\ Kept(b, DisconnectAndBackoff(b))
BY DisconnectSound, LeftIsSound DEF OnLink, Base, Unlinked

LEMMA ClearFields ==
    ASSUME NEW b, Shaped(b)
    PROVE  LET c == ClearGattResults(b) IN
           /\ SameLink(b, c)
           /\ c.listening = {} /\ c.pair_step = 0 /\ c.rumble_write_pending = FALSE
           /\ c.security_pending = FALSE /\ c.pair_save_pending = FALSE
           /\ c.init_command_sent = FALSE /\ c.init_index = 0
           /\ c.gatt_stage = b.gatt_stage /\ c.bt_query = b.bt_query
           /\ c.bt_security = b.bt_security
           /\ c.crypto = b.crypto /\ c.crypto_current = b.crypto_current
           /\ c.pairing_required = b.pairing_required
           /\ c.save_target_pending = b.save_target_pending
BY DEF ClearGattResults, Shaped, Fields, SameLink, Quiet

\* A phase that begins with nothing but an answer to wait for.
Begun(b) ==
    /\ b.gatt_stage \in {"MtuExchange", "DiscoverServices"} /\ Waits(b)
    /\ b.listening = {} /\ b.pair_step = 0 /\ b.init_index = 0
    /\ ~b.init_command_sent /\ ~b.pair_save_pending

SameTrust(b, c) ==
    /\ c.crypto = b.crypto /\ c.crypto_current = b.crypto_current
    /\ c.pairing_required = b.pairing_required
    /\ c.save_target_pending = b.save_target_pending

LEMMA BegunSound ==
    ASSUME NEW b, NEW k, NEW h, Fresh(b, k, h),
           NEW c, Typed(c), SameLink(b, c), SameTrust(b, c), Begun(c)
    PROVE  Sound(c, k, h) /\ Kept(b, c) /\ Fresh(c, k, h)
<1>1. OnLink(c) /\ Kept(b, c) /\ (Staying(c) <=> Staying(b)) /\ c.con_handle = b.con_handle
  BY OnLinkKept DEF Fresh
<1>2. Turns(c)
  BY DEF Turns, Begun
<1>3. Staying(c) => Keyed(c, k) /\ Heard(c, h)
  BY <1>1, Ns2Assumption DEF Fresh, Trusted, Keyed, Heard, Begun, SameTrust
<1>4. Between(c, k, h)
  BY <1>1, <1>2, <1>3 DEF Between, Begun, Waits
<1> QED BY <1>1, <1>4, BetweenIsSound, BetweenIsFresh DEF Begun

LEMMA ScheduleSound ==
    ASSUME NEW b, NEW k, NEW h, Fresh(b, k, h)
    PROVE  Sound(ScheduleMtuExchange(b), k, h) /\ Kept(b, ScheduleMtuExchange(b))
<1> DEFINE a == ClearGattResults(b)
           c == [a EXCEPT !.gatt_stage = "MtuExchange", !.mtu_exchange_due = TRUE,
                          !.state = "Busy"]
<1>1. Typed(a) /\ SameLink(b, a) /\ Shaped(b)
  BY ClearTyped, ClearFields DEF Fresh, OnLink, Typed
<1>2. Typed(c)
  BY <1>1, Put, Values, FieldNames
<1>3. SameLink(b, c)
  BY <1>1 DEF ClearGattResults, Shaped, Fields, SameLink, Quiet
<1>4. SameTrust(b, c)
  BY <1>1 DEF ClearGattResults, Shaped, Fields, SameTrust
<1>5. /\ c.gatt_stage = "MtuExchange" /\ c.mtu_exchange_due = TRUE
      /\ c.rumble_write_pending = FALSE
      /\ c.listening = {} /\ c.pair_step = 0 /\ c.init_index = 0
      /\ c.init_command_sent = FALSE /\ c.pair_save_pending = FALSE
  BY <1>1 DEF ClearGattResults, Shaped, Fields
<1>6. ScheduleMtuExchange(b) = c
  BY DEF ScheduleMtuExchange
<1> HIDE DEF c
<1>7. Begun(c)
  BY <1>5 DEF Begun, Waits
<1> QED BY <1>2, <1>3, <1>4, <1>6, <1>7, BegunSound

LEMMA StartMtuSound ==
    ASSUME NEW b, NEW k, NEW h, Fresh(b, k, h)
    PROVE  Sound(StartMtuExchange(b), k, h) /\ Kept(b, StartMtuExchange(b))
<1> DEFINE a == ClearGattResults(b)
           q == IF a.bt_query = "none" THEN "mtu" ELSE a.bt_query
           c == [a EXCEPT !.gatt_stage = "MtuExchange", !.mtu_exchange_pending = TRUE,
                          !.state = "Busy", !.bt_query = q]
<1>1. Typed(a) /\ Shaped(b)
  BY ClearTyped DEF Fresh, OnLink, Typed
<1>2. q \in Kind["bt_query"]
  BY <1>1, KindOf, FieldNames DEF Typed
<1>3. StartMtuExchange(b) = c
  BY <1>1 DEF StartMtuExchange, Typed, Shaped, Fields
<1> HIDE DEF q
<1>4. Typed(c)
  BY <1>1, <1>2, Put, Values, FieldNames
<1>5. SameLink(b, c)
  BY <1>1 DEF ClearGattResults, Shaped, Fields, SameLink, Quiet
<1>6. SameTrust(b, c)
  BY <1>1 DEF ClearGattResults, Shaped, Fields, SameTrust
<1>7. /\ c.gatt_stage = "MtuExchange" /\ c.mtu_exchange_pending = TRUE
      /\ c.rumble_write_pending = FALSE
      /\ c.listening = {} /\ c.pair_step = 0 /\ c.init_index = 0
      /\ c.init_command_sent = FALSE /\ c.pair_save_pending = FALSE
  BY <1>1 DEF ClearGattResults, Shaped, Fields
<1> HIDE DEF c
<1>8. Begun(c)
  BY <1>7 DEF Begun, Waits
<1> QED BY <1>3, <1>4, <1>5, <1>6, <1>8, BegunSound

LEMMA RetrySound ==
    ASSUME NEW b, NEW k, NEW h, Fresh(b, k, h)
    PROVE  Sound(RetryServiceDiscovery(b), k, h) /\ Kept(b, RetryServiceDiscovery(b))
<1> DEFINE a == ClearGattResults(b)
           c == [a EXCEPT !.gatt_stage = "DiscoverServices", !.state = "Busy",
                          !.service_discovery_due = TRUE, !.retries = a.retries + 1]
<1>1. Typed(a) /\ Shaped(b) /\ Typed(b)
  BY ClearTyped DEF Fresh, OnLink, Typed
<1>2. CASE b.retries < MaxRetries
  <2>1. a.retries + 1 \in Kind["retries"]
    <3>1. b.retries \in 0 .. MaxRetries
      BY <1>1, KindOf, FieldNames DEF Typed
    <3>2. a.retries = b.retries
      BY <1>1 DEF ClearGattResults, Shaped, Fields
    <3> QED BY <1>2, <3>1, <3>2, KindOf, Ns2Assumption
  <2>2. Typed(c)
    BY <1>1, <2>1, Put, Values, FieldNames
  <2>3. SameLink(b, c)
    BY <1>1 DEF ClearGattResults, Shaped, Fields, SameLink, Quiet
  <2>4. SameTrust(b, c)
    BY <1>1 DEF ClearGattResults, Shaped, Fields, SameTrust
  <2>5. /\ c.gatt_stage = "DiscoverServices" /\ c.service_discovery_due = TRUE
        /\ c.rumble_write_pending = FALSE
        /\ c.listening = {} /\ c.pair_step = 0 /\ c.init_index = 0
        /\ c.init_command_sent = FALSE /\ c.pair_save_pending = FALSE
    BY <1>1 DEF ClearGattResults, Shaped, Fields
  <2>6. RetryServiceDiscovery(b) = c
    BY <1>1, <1>2 DEF RetryServiceDiscovery, Typed, Shaped, Fields
  <2> HIDE DEF c
  <2>7. Begun(c)
    BY <2>5 DEF Begun, Waits
  <2> QED BY <2>2, <2>3, <2>4, <2>6, <2>7, BegunSound
<1>3. CASE ~(b.retries < MaxRetries)
  BY <1>3, EndSound DEF RetryServiceDiscovery, Fresh
<1> QED BY <1>2, <1>3

LEMMA DiscoverSound ==
    ASSUME NEW b, NEW k, NEW h, Fresh(b, k, h), NEW ok \in BOOLEAN
    PROVE  /\ Sound(StartServiceDiscovery(b, ok), k, h)
           /\ Kept(b, StartServiceDiscovery(b, ok))
<1> DEFINE a == ClearGattResults(b)
           c == [a EXCEPT !.gatt_stage = "DiscoverServices",
                          !.service_discovery_due = FALSE, !.state = "Busy"]
           d == [c EXCEPT !.bt_query = "query"]
<1>1. Typed(a) /\ Shaped(b)
  BY ClearTyped DEF Fresh, OnLink, Typed
<1>2. Typed(c) /\ Typed(d)
  BY <1>1, Put, Values, FieldNames
<1>3. SameLink(b, c) /\ SameLink(b, d)
  BY <1>1 DEF ClearGattResults, Shaped, Fields, SameLink, Quiet
<1>4. SameTrust(b, c) /\ SameTrust(b, d)
  BY <1>1 DEF ClearGattResults, Shaped, Fields, SameTrust
<1>5. /\ d.gatt_stage = "DiscoverServices" /\ d.bt_query = "query"
      /\ d.rumble_write_pending = FALSE
      /\ d.listening = {} /\ d.pair_step = 0 /\ d.init_index = 0
      /\ d.init_command_sent = FALSE /\ d.pair_save_pending = FALSE
  BY <1>1 DEF ClearGattResults, Shaped, Fields
<1>6. /\ c.gatt_stage = "DiscoverServices" /\ c.pair_step = 0
      /\ c.init_command_sent = FALSE /\ c.pair_save_pending = FALSE
  BY <1>1 DEF ClearGattResults, Shaped, Fields
<1>7. StartServiceDiscovery(b, ok) = IF ok THEN d ELSE RetryServiceDiscovery(c)
  BY DEF StartServiceDiscovery
<1> HIDE DEF c, d
<1>8. CASE ok
  <2>1. Begun(d)
    BY <1>5 DEF Begun, Waits
  <2> QED BY <1>2, <1>3, <1>4, <1>7, <1>8, <2>1, BegunSound
<1>9. CASE ~ok
  <2>1. OnLink(c) /\ Kept(b, c) /\ (Staying(c) <=> Staying(b)) /\ c.con_handle = b.con_handle
    BY <1>2, <1>3, OnLinkKept DEF Fresh
  <2>2. Fresh(c, k, h)
    BY <1>4, <1>6, <2>1 DEF Fresh, Turns, Trusted, SameTrust
  <2> QED BY <1>7, <1>9, <2>1, <2>2, RetrySound, KeptTwice
<1> QED BY <1>8, <1>9

SamePairing(b, c) ==
    /\ c.pair_step = b.pair_step /\ c.pair_save_pending = b.pair_save_pending
    /\ c.crypto = b.crypto /\ c.crypto_current = b.crypto_current
    /\ c.pairing_required = b.pairing_required
    /\ c.save_target_pending = b.save_target_pending

SameInit(b, c) ==
    /\ c.init_index = b.init_index /\ c.init_command_sent = b.init_command_sent
    /\ c.init_send_due = b.init_send_due

\* A query that is answered leaves the link between two requests.
LEMMA SubscribeSound ==
    ASSUME NEW b, NEW k, NEW h, Between(b, k, h), NEW ok \in BOOLEAN, NEW role \in {"ack", "input"},
           b.gatt_stage \in {"SubscribeAck", "SubscribeInput"},
           Staying(b) /\ b.pairing_required => role = "ack"
    PROVE  Sound(SubscribeNext(b, role, ok), k, h) /\ Kept(b, SubscribeNext(b, role, ok))
<1> DEFINE c == [b EXCEPT !.listening = b.listening \cup {role}, !.bt_query = "query"]
<1>1. Typed(b)
  BY DEF Between, OnLink
<1>2. Typed(c)
  <2>1. b.listening \cup {role} \in Kind["listening"]
    BY <1>1, KindOf, FieldNames DEF Typed
  <2> QED BY <1>1, <2>1, Put, Values, FieldNames
<1>3. SameLink(b, c) /\ SamePairing(b, c) /\ SameInit(b, c)
  BY <1>1 DEF Typed, Shaped, Fields, SameLink, Quiet, SamePairing, SameInit
<1>4. /\ c.gatt_stage = b.gatt_stage /\ c.listening = b.listening \cup {role}
      /\ c.bt_query = "query" /\ c.rumble_write_pending = b.rumble_write_pending
  BY <1>1 DEF Typed, Shaped, Fields
<1>5. SubscribeNext(b, role, ok) = IF ok THEN c ELSE DisconnectAndBackoff(b)
  BY <1>1 DEF SubscribeNext, Typed, Shaped, Fields
<1> HIDE DEF c
<1>6. CASE ok
  <2>1. OnLink(c) /\ Kept(b, c) /\ (Staying(c) <=> Staying(b)) /\ c.con_handle = b.con_handle
    BY <1>2, <1>3, OnLinkKept DEF Between
  <2>2. Turns(c)
    BY <1>3, <1>4, <2>1 DEF Between, Turns, SamePairing, SameInit, SameLink
  <2>3. Staying(c) => Keyed(c, k)
    BY <1>3, <1>4, <2>1 DEF Between, Keyed, SamePairing, SameInit
  <2>4. Staying(c) => Heard(c, h)
    BY <1>3, <2>1 DEF Between, Heard, SamePairing
  <2>5. Staying(c) => Waits(c)
    BY <1>4, <2>1 DEF Between, Waits
  <2>6. Between(c, k, h)
    BY <1>4, <2>1, <2>2, <2>3, <2>4 DEF Between
  <2> QED BY <1>5, <1>6, <2>1, <2>5, <2>6, BetweenIsSound
<1>7. CASE ~ok
  BY <1>5, <1>7, EndSound DEF Between
<1> QED BY <1>6, <1>7

\* The stage is all that changes, and the command of the last one is answered.
LEMMA StageBetween ==
    ASSUME NEW b, NEW k, NEW h, Between(b, k, h), ~b.init_command_sent,
           Staying(b) => ~b.rumble_write_pending, NEW s \in Stages,
           s \in {"SubscribeInput", "Ready"} => Staying(b) /\ ~b.pairing_required
    PROVE  LET c == [b EXCEPT !.gatt_stage = s, !.state = "Busy"] IN
           Between(c, k, h) /\ Kept(b, c) /\ c.gatt_stage = s
           /\ (Staying(c) <=> Staying(b)) /\ SamePairing(b, c)
<1> DEFINE c == [b EXCEPT !.gatt_stage = s, !.state = "Busy"]
<1>1. Typed(b)
  BY DEF Between, OnLink
<1>2. Typed(c)
  BY <1>1, KindOf, Put, Values, FieldNames
<1>3. SameLink(b, c) /\ SamePairing(b, c) /\ SameInit(b, c)
  BY <1>1 DEF Typed, Shaped, Fields, SameLink, Quiet, SamePairing, SameInit
<1>4. /\ c.gatt_stage = s /\ c.listening = b.listening
      /\ c.rumble_write_pending = b.rumble_write_pending
  BY <1>1 DEF Typed, Shaped, Fields
<1> HIDE DEF c
<1>5. OnLink(c) /\ Kept(b, c) /\ (Staying(c) <=> Staying(b)) /\ c.con_handle = b.con_handle
  BY <1>2, <1>3, OnLinkKept DEF Between
<1>6. Turns(c)
  BY <1>3, <1>4, <1>5 DEF Between, Turns, SamePairing, SameInit, SameLink, Staying
<1>7. Staying(c) => Keyed(c, k)
  BY <1>3, <1>4, <1>5 DEF Between, Keyed, SamePairing, SameInit
<1>8. Staying(c) => Heard(c, h)
  BY <1>3, <1>5 DEF Between, Heard, SamePairing
<1>9. Between(c, k, h)
  BY <1>4, <1>5, <1>6, <1>7, <1>8 DEF Between
<1> QED BY <1>3, <1>4, <1>5, <1>9 DEF c

LEMMA CharacteristicsSound ==
    ASSUME NEW b, NEW k, NEW h, Between(b, k, h), NEW ok \in BOOLEAN,
           Staying(b) => ~b.rumble_write_pending,
           b.gatt_stage \in {"DiscoverServices", "DiscoverCharacteristics"}
    PROVE  /\ Sound(DiscoverNextServiceCharacteristics(b, ok), k, h)
           /\ Kept(b, DiscoverNextServiceCharacteristics(b, ok))
<1> DEFINE c == [b EXCEPT !.gatt_stage = "DiscoverCharacteristics", !.bt_query = "query",
                          !.services_left = b.services_left - 1]
           d == [b EXCEPT !.gatt_stage = "SubscribeAck", !.state = "Busy"]
<1>1. Typed(b) /\ ~b.init_command_sent
  BY DEF Between, OnLink, Turns
<1>2. CASE b.services_left > 0
  <2>1. Typed(c)
    <3>1. b.services_left - 1 \in Kind["services_left"]
      <4>1. b.services_left \in 0 .. MaxServices
        BY <1>1, KindOf, FieldNames DEF Typed
      <4> QED BY <1>2, <4>1, KindOf, Ns2Assumption
    <3> QED BY <1>1, <3>1, Put, Values, FieldNames
  <2>2. SameLink(b, c) /\ SamePairing(b, c) /\ SameInit(b, c)
    BY <1>1 DEF Typed, Shaped, Fields, SameLink, Quiet, SamePairing, SameInit
  <2>3. /\ c.gatt_stage = "DiscoverCharacteristics" /\ c.listening = b.listening
        /\ c.bt_query = "query" /\ c.rumble_write_pending = b.rumble_write_pending
    BY <1>1 DEF Typed, Shaped, Fields
  <2>4. DiscoverNextServiceCharacteristics(b, ok) = c
    BY <1>1, <1>2 DEF DiscoverNextServiceCharacteristics, Typed, Shaped, Fields
  <2> HIDE DEF c
  <2>5. OnLink(c) /\ Kept(b, c) /\ (Staying(c) <=> Staying(b)) /\ c.con_handle = b.con_handle
    BY <2>1, <2>2, OnLinkKept DEF Between
  <2>6. Turns(c)
    BY <1>1, <2>2, <2>3 DEF Between, Turns, SamePairing, SameInit
  <2>7. Staying(c) => Keyed(c, k) /\ Heard(c, h) /\ Waits(c)
    BY <2>2, <2>3, <2>5 DEF Between, Keyed, Heard, Waits, SamePairing, SameInit
  <2> QED BY <2>3, <2>4, <2>5, <2>6, <2>7, BetweenIsSound DEF Between
<1>3. CASE ~(b.services_left > 0)
  <2>1. Between(d, k, h) /\ Kept(b, d) /\ d.gatt_stage = "SubscribeAck"
    BY <1>1, StageBetween DEF Stages
  <2>2. DiscoverNextServiceCharacteristics(b, ok) = SubscribeNext(d, "ack", ok)
    BY <1>3 DEF DiscoverNextServiceCharacteristics
  <2> HIDE DEF d
  <2> QED BY <2>1, <2>2, SubscribeSound, KeptTwice
<1> QED BY <1>2, <1>3

\* Input is listened to only with a key, as pairing would still be to come.
LEMMA InputSubscriptionSound ==
    ASSUME NEW b, NEW k, NEW h, Between(b, k, h), NEW ok \in BOOLEAN,
           Staying(b), ~b.pairing_required, ~b.init_command_sent, ~b.rumble_write_pending
    PROVE  /\ Sound(StartInputSubscriptions(b, ok), k, h)
           /\ Kept(b, StartInputSubscriptions(b, ok))
<1> DEFINE d == [b EXCEPT !.gatt_stage = "SubscribeInput", !.state = "Busy"]
<1>1. /\ Between(d, k, h) /\ Kept(b, d) /\ d.gatt_stage = "SubscribeInput"
      /\ SamePairing(b, d)
  BY StageBetween DEF Stages
<1> HIDE DEF d
<1>2. Sound(SubscribeNext(d, "input", ok), k, h) /\ Kept(d, SubscribeNext(d, "input", ok))
  BY <1>1, SubscribeSound DEF SamePairing
<1> QED BY <1>1, <1>2, KeptTwice DEF StartInputSubscriptions, d

LEMMA ControllerInitSound ==
    ASSUME NEW b, NEW k, NEW h, Between(b, k, h), NEW ok \in BOOLEAN,
           Staying(b) => ~b.rumble_write_pending, b.gatt_stage = "SubscribeAck"
    PROVE  Sound(StartControllerInit(b, ok), k, h) /\ Kept(b, StartControllerInit(b, ok))
<1> DEFINE c == [b EXCEPT !.gatt_stage = "Initializing", !.init_index = 0,
                          !.init_send_due = TRUE]
<1>1. Typed(b) /\ ~b.init_command_sent
  BY DEF Between, OnLink, Turns
<1>2. Typed(c)
  BY <1>1, Put, Values, FieldNames
<1>3. SameLink(b, c) /\ SamePairing(b, c)
  BY <1>1 DEF Typed, Shaped, Fields, SameLink, Quiet, SamePairing
<1>4. /\ c.gatt_stage = "Initializing" /\ c.listening = b.listening
      /\ c.init_index = 0 /\ c.init_send_due = TRUE
      /\ c.init_command_sent = b.init_command_sent
      /\ c.rumble_write_pending = b.rumble_write_pending
  BY <1>1 DEF Typed, Shaped, Fields
<1>5. StartControllerInit(b, ok) = IF ok THEN c ELSE DisconnectAndBackoff(b)
  BY DEF StartControllerInit
<1> HIDE DEF c
<1>6. CASE ok
  <2>1. OnLink(c) /\ Kept(b, c) /\ (Staying(c) <=> Staying(b)) /\ c.con_handle = b.con_handle
    BY <1>2, <1>3, OnLinkKept DEF Between
  <2>2. Turns(c)
    BY <1>1, <1>3, <1>4 DEF Between, Turns, SamePairing
  <2>3. Staying(c) => Keyed(c, k) /\ Heard(c, h) /\ Waits(c)
    BY <1>1, <1>3, <1>4, <2>1, Ns2Assumption
       DEF Between, Keyed, Heard, Waits, SamePairing
  <2> QED BY <1>4, <1>5, <1>6, <2>1, <2>2, <2>3, BetweenIsSound DEF Between
<1>7. CASE ~ok
  BY <1>5, <1>7, EndSound DEF Between
<1> QED BY <1>6, <1>7

\* The end of a query, wanted or not.
LEMMA QueryCompleteSound ==
    ASSUME NEW b, NEW k, NEW h, Between(b, k, h), NEW ok \in BOOLEAN, NEW success \in BOOLEAN,
           Staying(b) => ~b.rumble_write_pending,
           b.gatt_stage \notin {"DiscoverServices", "DiscoverCharacteristics",
                                "SubscribeAck", "SubscribeInput"} /\ Staying(b) => Waits(b)
    PROVE  /\ Sound(HandleGattQueryComplete(b, success, ok), k, h)
           /\ Kept(b, HandleGattQueryComplete(b, success, ok))
<1> DEFINE e == HandleGattQueryComplete(b, success, ok)
<1>1. CASE ~success
  <2>1. e = IF b.gatt_stage = "DiscoverServices" THEN RetryServiceDiscovery(b)
            ELSE DisconnectAndBackoff(b)
    BY <1>1 DEF HandleGattQueryComplete
  <2> HIDE DEF e
  <2> QED BY <2>1, RetrySound, BetweenIsFresh, EndSound DEF Between, e
<1>2. CASE success /\ b.gatt_stage \in {"DiscoverServices", "DiscoverCharacteristics"}
  <2>1. e = DiscoverNextServiceCharacteristics(b, ok)
    BY <1>2 DEF HandleGattQueryComplete
  <2> QED BY <1>2, <2>1, CharacteristicsSound
<1>3. CASE success /\ b.gatt_stage = "SubscribeAck"
  <2>1. e = StartControllerInit(b, ok)
    BY <1>3 DEF HandleGattQueryComplete
  <2> QED BY <1>3, <2>1, ControllerInitSound
<1>4. CASE success /\ b.gatt_stage = "SubscribeInput"
  <2> DEFINE c == [b EXCEPT !.gatt_stage = "Ready", !.state = "ConnectedNoNotify"]
  <2>1. Typed(b) /\ ~b.init_command_sent
    BY <1>4 DEF Between, OnLink, Turns
  <2>2. Staying(b) /\ ~b.pairing_required
    BY <1>4 DEF Between, OnLink, Turns, Keyed, Staying
  <2>3. Typed(c)
    BY <2>1, Put, Values, FieldNames
  <2>4. SameLink(b, c) /\ SamePairing(b, c) /\ SameInit(b, c)
    BY <2>1 DEF Typed, Shaped, Fields, SameLink, Quiet, SamePairing, SameInit
  <2>5. /\ c.gatt_stage = "Ready" /\ c.listening = b.listening
        /\ c.rumble_write_pending = b.rumble_write_pending
    BY <2>1 DEF Typed, Shaped, Fields
  <2>6. e = c
    BY <1>4 DEF HandleGattQueryComplete
  <2> HIDE DEF c, e
  <2>7. OnLink(c) /\ Kept(b, c) /\ (Staying(c) <=> Staying(b)) /\ c.con_handle = b.con_handle
    BY <2>3, <2>4, OnLinkKept DEF Between
  <2>8. Turns(c)
    BY <2>1, <2>2, <2>4, <2>5, <2>7 DEF Between, Turns, SamePairing, SameInit, Staying
  <2>9. Keyed(c, k) /\ Heard(c, h) /\ Waits(c)
    BY <2>2, <2>4, <2>5, <2>7 DEF Between, Keyed, Heard, Waits, SamePairing, SameInit
  <2> QED BY <2>5, <2>6, <2>7, <2>8, <2>9, BetweenIsSound DEF Between, e
<1>5. CASE success /\ b.gatt_stage \notin {"DiscoverServices", "DiscoverCharacteristics",
                                           "SubscribeAck", "SubscribeInput"}
  <2>1. e = b
    BY <1>5 DEF HandleGattQueryComplete
  <2> QED BY <1>5, <2>1, BetweenIsSound DEF Kept
<1> QED BY <1>1, <1>2, <1>3, <1>4, <1>5

-----------------------------------------------------------------------------
(* Vendor pairing and initialization.                                      *)

\* What neither an initialization command nor a step of pairing touches.
SameStage(b, c) ==
    /\ c.gatt_stage = b.gatt_stage /\ c.listening = b.listening /\ c.bt_query = b.bt_query
    /\ c.rumble_write_pending = b.rumble_write_pending
    /\ c.security_pending = b.security_pending /\ c.bt_security = b.bt_security
    /\ c.mtu_exchange_due = b.mtu_exchange_due
    /\ c.mtu_exchange_pending = b.mtu_exchange_pending
    /\ c.service_discovery_due = b.service_discovery_due

\* Whatever the stage, what it waits for is there if it is none of pairing.
LEMMA SameStageWaits ==
    ASSUME NEW b, NEW c, Waits(b), SameStage(b, c),
           b.gatt_stage = "Initializing" =>
               \/ c.init_send_due \/ c.init_command_sent \/ c.pair_waiting_ack
               \/ (c.crypto # "none" /\ c.crypto_current) \/ c.pair_save_pending
    PROVE  Waits(c)
BY DEF Waits, SameStage

LEMMA PairingStepSound ==
    ASSUME NEW b, NEW k, NEW h, Between(b, k, h), NEW ok \in BOOLEAN,
           b.gatt_stage = "Initializing", ~b.rumble_write_pending
    PROVE  Sound(SendPairingStep(b, ok), k, h) /\ Kept(b, SendPairingStep(b, ok))
<1> DEFINE c == [b EXCEPT !.pair_waiting_ack = TRUE]
<1>1. Typed(b)
  BY DEF Between, OnLink
<1>2. Typed(c)
  BY <1>1, Put, Values, FieldNames
<1>3. SameLink(b, c) /\ SamePairing(b, c) /\ SameInit(b, c) /\ SameStage(b, c)
  BY <1>1 DEF Typed, Shaped, Fields, SameLink, Quiet, SamePairing, SameInit, SameStage
<1>4. c.pair_waiting_ack = TRUE
  BY <1>1 DEF Typed, Shaped, Fields
<1>5. SendPairingStep(b, ok) = IF ok THEN c ELSE DisconnectAndBackoff(b)
  BY DEF SendPairingStep
<1> HIDE DEF c
<1>6. CASE ok
  <2>1. OnLink(c) /\ Kept(b, c) /\ (Staying(c) <=> Staying(b)) /\ c.con_handle = b.con_handle
    BY <1>2, <1>3, OnLinkKept DEF Between
  <2>2. Turns(c)
    BY <1>3, <2>1 DEF Between, Turns, SamePairing, SameInit, SameStage, SameLink
  <2>3. Staying(c) => Keyed(c, k) /\ Heard(c, h) /\ Waits(c)
    BY <1>3, <1>4, <2>1 DEF Between, Keyed, Heard, Waits, SamePairing, SameInit, SameStage
  <2> QED BY <1>3, <1>5, <1>6, <2>1, <2>2, <2>3, BetweenIsSound DEF Between, SameStage
<1>7. CASE ~ok
  BY <1>5, <1>7, EndSound DEF Between
<1> QED BY <1>6, <1>7

\* With its turn: no command is out, no step of pairing and no crypto request.
LEMMA InitCommandSound ==
    ASSUME NEW b, NEW k, NEW h, Between(b, k, h), NEW ok \in BOOLEAN, Staying(b),
           b.gatt_stage = "Initializing", ~b.rumble_write_pending,
           ~b.init_send_due, ~b.init_command_sent, b.pair_step = 0, b.crypto = "none"
    PROVE  /\ Sound(SendCurrentInitCommand(b, ok), k, h)
           /\ Kept(b, SendCurrentInitCommand(b, ok))
<1> DEFINE s == IF b.init_index = FinalizeIndex THEN b.init_index + 1 ELSE b.init_index
           c == [b EXCEPT !.init_index = s]
           r == [b EXCEPT !.crypto = "random", !.crypto_current = TRUE]
           d == [c EXCEPT !.init_command_sent = TRUE, !.state = "Busy"]
<1>1. Typed(b)
  BY DEF Between, OnLink
<1>2. b.init_index \in 0 .. InitCount
  BY <1>1, KindOf, FieldNames DEF Typed
<1>3. CASE PairingIsNext(b)
  <2>1. Typed(r)
    BY <1>1, Put, Values, FieldNames
  <2>2. SameLink(b, r) /\ SameInit(b, r) /\ SameStage(b, r)
    BY <1>1 DEF Typed, Shaped, Fields, SameLink, Quiet, SameInit, SameStage
  <2>3. /\ r.crypto = "random" /\ r.crypto_current = TRUE /\ r.pair_step = b.pair_step
        /\ r.pair_save_pending = b.pair_save_pending
        /\ r.pairing_required = b.pairing_required
        /\ r.save_target_pending = b.save_target_pending
    BY <1>1 DEF Typed, Shaped, Fields
  <2>4. SendCurrentInitCommand(b, ok) = r
    BY <1>3 DEF SendCurrentInitCommand
  <2> HIDE DEF r
  <2>5. OnLink(r) /\ Kept(b, r) /\ (Staying(r) <=> Staying(b)) /\ r.con_handle = b.con_handle
    BY <2>1, <2>2, OnLinkKept DEF Between
  <2>6. Turns(r)
    BY <2>2, <2>3, <2>5 DEF Between, Turns, SameInit, SameStage, SameLink
  <2>7. Keyed(r, k) /\ Heard(r, h) /\ Waits(r)
    BY <2>2, <2>3, <2>5 DEF Between, Keyed, Heard, Waits, SameInit, SameStage
  <2> QED BY <2>2, <2>4, <2>5, <2>6, <2>7, BetweenIsSound DEF Between, SameStage
<1>4. CASE ~PairingIsNext(b)
  <2>1. s \in 0 .. InitCount /\ (s < InitCount => b.init_index < InitCount)
    BY <1>2, Ns2Assumption
  <2>2. b.pairing_required => s < FinalizeIndex
    BY <1>2, <1>4, Ns2Assumption DEF Between, Keyed, PairingIsNext
  <2> HIDE DEF s
  <2>3. Typed(c)
    BY <1>1, <2>1, KindOf, Put, FieldNames
  <2>4. SameLink(b, c) /\ SamePairing(b, c) /\ SameStage(b, c)
    BY <1>1 DEF Typed, Shaped, Fields, SameLink, Quiet, SamePairing, SameStage
  <2>5. /\ c.init_index = s /\ c.init_command_sent = b.init_command_sent
        /\ c.init_send_due = b.init_send_due
    BY <1>1 DEF Typed, Shaped, Fields
  <2> HIDE DEF c
  <2>6. OnLink(c) /\ Kept(b, c) /\ (Staying(c) <=> Staying(b)) /\ c.con_handle = b.con_handle
    BY <2>3, <2>4, OnLinkKept DEF Between
  <2>7. Turns(c)
    BY <2>4, <2>5, <2>6 DEF Between, Turns, SamePairing, SameStage, SameLink
  <2>8. Keyed(c, k) /\ Heard(c, h)
    BY <2>1, <2>2, <2>4, <2>5, <2>6, Ns2Assumption
       DEF Between, Keyed, Heard, SamePairing, SameStage
  <2>9. Between(c, k, h)
    BY <2>4, <2>6, <2>7, <2>8 DEF Between, SameStage
  <2>10. CASE s = InitCount
    <3>1. ~c.pairing_required
      BY <2>2, <2>4, <2>10, Ns2Assumption DEF SamePairing
    <3>2. SendCurrentInitCommand(b, ok) = StartInputSubscriptions(c, ok)
      BY <1>4, <2>10 DEF SendCurrentInitCommand, s, c
    <3> QED BY <2>4, <2>5, <2>6, <2>9, <3>1, <3>2, InputSubscriptionSound, KeptTwice
            DEF SameStage
  <2>11. CASE s # InitCount /\ ok
    <3>1. Typed(d)
      BY <2>3, Put, Values, FieldNames
    <3>2. SameLink(c, d) /\ SamePairing(c, d) /\ SameStage(c, d)
      BY <2>3 DEF Typed, Shaped, Fields, SameLink, Quiet, SamePairing, SameStage
    <3>3. /\ d.init_index = c.init_index /\ d.init_command_sent = TRUE
          /\ d.init_send_due = c.init_send_due
      BY <2>3 DEF Typed, Shaped, Fields
    <3>4. SendCurrentInitCommand(b, ok) = d
      BY <1>4, <2>11 DEF SendCurrentInitCommand, s, c
    <3> HIDE DEF d
    <3>5. OnLink(d) /\ Kept(c, d) /\ (Staying(d) <=> Staying(c)) /\ d.con_handle = c.con_handle
      BY <2>9, <3>1, <3>2, OnLinkKept DEF Between
    <3>6. d.init_index < InitCount /\ (d.pairing_required => d.init_index < FinalizeIndex)
      BY <2>1, <2>2, <2>4, <2>5, <2>11, <3>2, <3>3, Ns2Assumption DEF SamePairing
    <3>7. Turns(d)
      BY <2>4, <2>5, <2>9, <3>2, <3>3, <3>5, <3>6
         DEF Between, Turns, SamePairing, SameStage, SameLink
    <3>8. Keyed(d, k) /\ Heard(d, h) /\ Waits(d)
      BY <2>4, <2>6, <2>8, <3>2, <3>3, <3>5, <3>6
         DEF Keyed, Heard, Waits, SamePairing, SameStage
    <3>9. Between(d, k, h)
      BY <2>4, <3>2, <3>5, <3>7, <3>8 DEF Between, SameStage
    <3> QED BY <2>6, <3>4, <3>5, <3>8, <3>9, BetweenIsSound, KeptTwice
  <2>12. CASE s # InitCount /\ ~ok
    <3>1. SendCurrentInitCommand(b, ok) = DisconnectAndBackoff(c)
      BY <1>4, <2>12 DEF SendCurrentInitCommand, s, c
    <3> QED BY <2>6, <2>9, <3>1, EndSound, KeptTwice DEF Between
  <2> QED BY <2>10, <2>11, <2>12
<1> QED BY <1>3, <1>4

\* A step of pairing becomes due.
LEMMA StepDueSound ==
    ASSUME NEW b, NEW k, NEW h, Sound(b, k, h), Linked(b), ~b.init_command_sent,
           NEW c, Typed(c), SameLink(b, c), SameStage(b, c),
           c.pair_step \in Steps, c.init_send_due = TRUE,
           c.init_command_sent = b.init_command_sent, c.init_index = b.init_index,
           c.pair_save_pending = b.pair_save_pending,
           c.pair_save_pending => c.pair_step = 3,
           c.pairing_required = b.pairing_required,
           c.save_target_pending = b.save_target_pending,
           ~(c.crypto = "random" /\ c.crypto_current),
           Staying(b) => /\ c.crypto = "aes" /\ c.crypto_current => {1, 4, 2} \subseteq h
                         /\ c.pair_step = 4 => {1} \subseteq h
                         /\ c.pair_step = 2 => {1, 4} \subseteq h
                         /\ c.pair_step = 3 => {1, 4, 2} \subseteq h
    PROVE  Sound(c, k, h) /\ Kept(b, c)
<1>0. Between(b, k, h)
  BY SoundIsBetween
<1>1. OnLink(c) /\ Kept(b, c) /\ (Staying(c) <=> Staying(b)) /\ c.con_handle = b.con_handle
  BY <1>0, OnLinkKept DEF Between
<1>2. Turns(c)
  BY <1>0, <1>1 DEF Between, Turns, SameStage, SameLink
<1>3. Staying(c) => Keyed(c, k)
  BY <1>0, <1>1 DEF Between, Keyed, SameStage
<1>4. Staying(c) => Heard(c, h)
  BY <1>0, <1>1 DEF Between, Heard
<1>5. Staying(c) => Waits(c)
  BY <1>1, SameStageWaits DEF Sound, SetUp
<1>6. Between(c, k, h)
  BY <1>0, <1>1, <1>2, <1>3, <1>4 DEF Between, SameStage
<1> QED BY <1>1, <1>5, <1>6, BetweenIsSound

LEMMA CryptoSound ==
    ASSUME NEW b, NEW k, NEW h, Sound(b, k, h), b.crypto # "none", NEW equal \in BOOLEAN
    PROVE  Sound(CryptoReady(b, equal), k, h) /\ Kept(b, CryptoReady(b, equal))
<1> DEFINE c == [b EXCEPT !.crypto = "none"]
           r == [c EXCEPT !.pair_step = 1, !.init_send_due = TRUE]
           a == [c EXCEPT !.pair_step = 3, !.init_send_due = TRUE]
<1>1. Typed(b) /\ Base(b)
  BY DEF Sound, Base
<1>2. Typed(c) /\ Typed(r) /\ Typed(a)
  <2>1. Typed(c)
    BY <1>1, Put, Values, FieldNames
  <2> HIDE DEF c
  <2> QED BY <2>1, Put, Values, FieldNames
<1>3. /\ SameLink(b, c) /\ SameStage(b, c) /\ SameLink(b, r) /\ SameStage(b, r)
      /\ SameLink(b, a) /\ SameStage(b, a)
  BY <1>1 DEF Typed, Shaped, Fields, SameLink, Quiet, SameStage
<1>4. /\ c.crypto = "none" /\ c.pair_step = b.pair_step /\ SameInit(b, c)
      /\ c.crypto_current = b.crypto_current
      /\ c.pair_save_pending = b.pair_save_pending
      /\ c.pairing_required = b.pairing_required
      /\ c.save_target_pending = b.save_target_pending
      /\ c.pair_waiting_ack = b.pair_waiting_ack
  BY <1>1 DEF Typed, Shaped, Fields, SameInit
<1>5. /\ r.crypto = "none" /\ r.pair_step = 1 /\ r.init_send_due = TRUE
      /\ r.init_command_sent = b.init_command_sent /\ r.init_index = b.init_index
      /\ r.pair_save_pending = b.pair_save_pending
      /\ r.pairing_required = b.pairing_required
      /\ r.save_target_pending = b.save_target_pending
  BY <1>1 DEF Typed, Shaped, Fields
<1>6. /\ a.crypto = "none" /\ a.pair_step = 3 /\ a.init_send_due = TRUE
      /\ a.init_command_sent = b.init_command_sent /\ a.init_index = b.init_index
      /\ a.pair_save_pending = b.pair_save_pending
      /\ a.pairing_required = b.pairing_required
      /\ a.save_target_pending = b.save_target_pending
  BY <1>1 DEF Typed, Shaped, Fields
<1>7. CryptoReady(b, equal) =
          IF ~b.crypto_current \/ ~Linked(b) THEN c
          ELSE IF b.crypto = "random" THEN r
          ELSE IF equal THEN a ELSE DisconnectAndBackoff(c)
  BY DEF CryptoReady
<1> HIDE DEF c, r, a
<1>8. CASE ~Linked(b)
  <2>1. Left(c) /\ Kept(b, c)
    BY <1>1, <1>2, <1>3, <1>4, <1>8
       DEF Left, Staying, Base, Links, Aims, Unlinked, Turns, SameLink, SameStage, SameInit,
           Linked, Kept
  <2> QED BY <1>7, <1>8, <2>1, LeftIsSound
<1>9. CASE Linked(b)
  <2>1. Between(b, k, h)
    BY <1>9, SoundIsBetween
  <2>2. OnLink(c) /\ Kept(b, c) /\ (Staying(c) <=> Staying(b)) /\ c.con_handle = b.con_handle
    BY <1>2, <1>3, <2>1, OnLinkKept DEF Between
  <2>3. Turns(c)
    BY <1>3, <1>4, <2>1, <2>2 DEF Between, Turns, SameStage, SameInit, SameLink
  <2>4. CASE ~b.crypto_current
    <3>1. Staying(c) => Keyed(c, k) /\ Heard(c, h)
      BY <1>3, <1>4, <2>1, <2>2 DEF Between, Keyed, Heard, SameStage, SameInit
    <3>2. Staying(c) => Waits(c)
      BY <1>3, <1>4, <2>2, <2>4 DEF Sound, SetUp, Waits, SameStage, SameInit
    <3>3. Between(c, k, h)
      BY <1>3, <2>1, <2>2, <2>3, <3>1 DEF Between, SameStage
    <3> QED BY <1>7, <2>2, <2>4, <3>2, <3>3, BetweenIsSound
  <2>5. CASE b.crypto_current
    <3>1. ~b.init_command_sent
      BY <2>1, <2>5 DEF Between, Turns
    <3>2. CASE b.crypto = "random"
      <4>1. ~b.pair_save_pending
        BY <2>1, <2>5, <3>2 DEF Between, Turns
      <4>2. /\ r.pair_step \in Steps /\ (r.pair_save_pending => r.pair_step = 3)
            /\ r.crypto = "none"
            /\ r.pair_step # 4 /\ r.pair_step # 2 /\ r.pair_step # 3
        BY <1>5, <4>1 DEF Steps
      <4>3. Sound(r, k, h) /\ Kept(b, r)
        BY <1>2, <1>3, <1>5, <1>9, <3>1, <4>2, StepDueSound
      <4> QED BY <1>7, <1>9, <2>5, <3>2, <4>3
    <3>3. CASE b.crypto # "random" /\ equal
      <4>1. b.crypto = "aes"
        BY <1>1, <3>3, KindOf, FieldNames DEF Typed
      <4>2. Staying(b) => {1, 4, 2} \subseteq h
        BY <2>1, <2>5, <4>1 DEF Between, Heard
      <4>3. Sound(a, k, h) /\ Kept(b, a)
        BY <1>2, <1>3, <1>6, <1>9, <3>1, <4>2, StepDueSound DEF Steps
      <4> QED BY <1>7, <1>9, <2>5, <3>3, <4>3
    <3>4. CASE b.crypto # "random" /\ ~equal
      BY <1>7, <1>9, <2>2, <2>3, <2>5, <3>4, EndSound, KeptTwice
    <3> QED BY <3>2, <3>3, <3>4
  <2> QED BY <2>4, <2>5
<1> QED BY <1>8, <1>9

\* An answer is to the step that was sent last, which the controller has had.
LEMMA PairingAckSound ==
    ASSUME NEW b, NEW k, NEW h, Sound(b, k, h), Linked(b), b.pair_step # 0,
           NEW step, step \in Steps => step \in h
    PROVE  Sound(HandlePairingAck(b, step), k, h) /\ Kept(b, HandlePairingAck(b, step))
<1> DEFINE c == [b EXCEPT !.pair_waiting_ack = FALSE]
           n == IF step = 1 THEN 4 ELSE 2
           d == [c EXCEPT !.pair_step = n, !.init_send_due = TRUE]
           a == [c EXCEPT !.crypto = "aes", !.crypto_current = TRUE]
           s == [c EXCEPT !.pair_save_pending = TRUE]
           e == HandlePairingAck(b, step)
<1>1. Typed(b) /\ Base(b) /\ Between(b, k, h)
  BY SoundIsBetween DEF Sound, Base
<1>2. b.pair_step \in Steps /\ ~b.init_command_sent
  BY <1>1, KindOf, FieldNames DEF Typed, Base, Turns
<1>3. CASE ~b.pair_waiting_ack
  BY <1>3 DEF HandlePairingAck, Kept
<1>4. CASE b.pair_waiting_ack /\ step # b.pair_step
  <2>1. e = DisconnectAndBackoff(b)
    BY <1>4 DEF HandlePairingAck
  <2> QED BY <1>1, <2>1, EndSound DEF Between
<1>5. CASE b.pair_waiting_ack /\ step = b.pair_step /\ step \in {1, 4}
  <2>1. n \in Steps /\ n \in Kind["pair_step"] /\ n # 3
    BY KindOf DEF Steps
  <2>2. e = d
    <3>1. CASE step = 1
      BY <1>5, <3>1 DEF HandlePairingAck
    <3>2. CASE step = 4
      BY <1>5, <3>2 DEF HandlePairingAck
    <3> QED BY <1>5, <3>1, <3>2
  <2>3. Staying(b) => (n = 4 => {1} \subseteq h) /\ (n = 2 => {1, 4} \subseteq h)
    BY <1>1, <1>2, <1>5 DEF Between, Heard, Steps
  <2> HIDE DEF n
  <2>4. Typed(d)
    BY <1>1, <2>1, Put, Values, FieldNames
  <2>5. SameLink(b, d) /\ SameStage(b, d)
    BY <1>1 DEF Typed, Shaped, Fields, SameLink, Quiet, SameStage
  <2>6. /\ d.pair_step = n /\ d.init_send_due = TRUE
        /\ d.init_command_sent = b.init_command_sent /\ d.init_index = b.init_index
        /\ d.pair_save_pending = b.pair_save_pending
        /\ d.pairing_required = b.pairing_required
        /\ d.save_target_pending = b.save_target_pending
        /\ d.crypto = b.crypto /\ d.crypto_current = b.crypto_current
    BY <1>1 DEF Typed, Shaped, Fields
  <2> HIDE DEF d, e
  <2>7. ~b.pair_save_pending
    BY <1>1, <1>5 DEF Between, Turns
  <2>8. /\ d.pair_step \in Steps /\ (d.pair_save_pending => d.pair_step = 3)
        /\ ~(d.crypto = "random" /\ d.crypto_current) /\ d.pair_step # 3
        /\ Staying(b) => /\ d.crypto = "aes" /\ d.crypto_current => {1, 4, 2} \subseteq h
                         /\ d.pair_step = 4 => {1} \subseteq h
                         /\ d.pair_step = 2 => {1, 4} \subseteq h
    BY <1>1, <1>2, <2>1, <2>3, <2>6, <2>7 DEF Between, Turns, Heard, Steps
  <2> QED BY <1>2, <2>2, <2>4, <2>5, <2>6, <2>8, StepDueSound DEF e
<1>6. CASE b.pair_waiting_ack /\ step = b.pair_step /\ step = 2
  <2>1. e = a
    BY <1>6 DEF HandlePairingAck
  <2>2. Typed(a)
    BY <1>1, Put, Values, FieldNames
  <2>3. SameLink(b, a) /\ SameStage(b, a) /\ SameInit(b, a)
    BY <1>1 DEF Typed, Shaped, Fields, SameLink, Quiet, SameStage, SameInit
  <2>4. /\ a.crypto = "aes" /\ a.crypto_current = TRUE /\ a.pair_step = b.pair_step
        /\ a.pair_save_pending = b.pair_save_pending
        /\ a.pairing_required = b.pairing_required
        /\ a.save_target_pending = b.save_target_pending
    BY <1>1 DEF Typed, Shaped, Fields
  <2> HIDE DEF a, e
  <2>5. OnLink(a) /\ Kept(b, a) /\ (Staying(a) <=> Staying(b)) /\ a.con_handle = b.con_handle
    BY <1>1, <2>2, <2>3, OnLinkKept DEF Between
  <2>6. Turns(a)
    BY <1>1, <1>2, <2>3, <2>4, <2>5 DEF Between, Turns, SameStage, SameInit, SameLink
  <2>7. Staying(b) => {1, 4, 2} \subseteq h
    BY <1>1, <1>2, <1>6 DEF Between, Heard
  <2>8. Staying(a) => Keyed(a, k) /\ Heard(a, h)
    BY <1>1, <2>3, <2>4, <2>5, <2>7 DEF Between, Keyed, Heard, SameStage, SameInit
  <2>9. Staying(a) => Waits(a)
    BY <2>3, <2>4, <2>5, SameStageWaits DEF Sound, SetUp
  <2>10. Between(a, k, h)
    BY <1>1, <2>3, <2>5, <2>6, <2>8 DEF Between, SameStage
  <2> QED BY <2>1, <2>5, <2>9, <2>10, BetweenIsSound DEF e
<1>7. CASE b.pair_waiting_ack /\ step = b.pair_step /\ step = 3
  <2>1. e = s
    BY <1>7 DEF HandlePairingAck
  <2>2. Typed(s)
    BY <1>1, Put, Values, FieldNames
  <2>3. SameLink(b, s) /\ SameStage(b, s) /\ SameInit(b, s)
    BY <1>1 DEF Typed, Shaped, Fields, SameLink, Quiet, SameStage, SameInit
  <2>4. /\ s.crypto = b.crypto /\ s.crypto_current = b.crypto_current
        /\ s.pair_step = b.pair_step /\ s.pair_save_pending = TRUE
        /\ s.pairing_required = b.pairing_required
        /\ s.save_target_pending = b.save_target_pending
    BY <1>1 DEF Typed, Shaped, Fields
  <2> HIDE DEF s, e
  <2>5. OnLink(s) /\ Kept(b, s) /\ (Staying(s) <=> Staying(b)) /\ s.con_handle = b.con_handle
    BY <1>1, <2>2, <2>3, OnLinkKept DEF Between
  <2>6. Turns(s)
    BY <1>1, <1>7, <2>3, <2>4, <2>5 DEF Between, Turns, SameStage, SameInit, SameLink
  <2>7. Staying(b) => Steps \subseteq h
    BY <1>1, <1>2, <1>7 DEF Between, Heard, Steps
  <2>8. Staying(s) => Keyed(s, k) /\ Heard(s, h)
    BY <1>1, <2>3, <2>4, <2>5, <2>7 DEF Between, Keyed, Heard, SameStage, SameInit
  <2>9. Staying(s) => Waits(s)
    BY <2>3, <2>4, <2>5, SameStageWaits DEF Sound, SetUp
  <2>10. Between(s, k, h)
    BY <1>1, <2>3, <2>5, <2>6, <2>8 DEF Between, SameStage
  <2> QED BY <2>1, <2>5, <2>9, <2>10, BetweenIsSound DEF e
<1> QED BY <1>2, <1>3, <1>4, <1>5, <1>6, <1>7 DEF Steps

LEMMA AckSound ==
    ASSUME NEW b, NEW k, NEW h, Sound(b, k, h), Linked(b),
           NEW step, step \in Steps => step \in h
    PROVE  Sound(HandleAck(b, step), k, h) /\ Kept(b, HandleAck(b, step))
<1> DEFINE c == [b EXCEPT !.init_command_sent = FALSE, !.init_index = b.init_index + 1,
                          !.init_send_due = TRUE]
           e == HandleAck(b, step)
<1>1. Typed(b) /\ Between(b, k, h)
  BY SoundIsBetween DEF Sound, Base
<1>2. CASE b.disconnect_pending \/ Quiet(b)
  BY <1>2 DEF HandleAck, Kept
<1>3. CASE ~(b.disconnect_pending \/ Quiet(b)) /\ b.pair_step # 0
  BY <1>3, PairingAckSound DEF HandleAck
<1>4. CASE /\ ~(b.disconnect_pending \/ Quiet(b)) /\ b.pair_step = 0
           /\ step = InitAnswer /\ b.gatt_stage = "Initializing" /\ b.init_command_sent
  <2>1. b.init_index \in 0 .. InitCount /\ b.init_index < InitCount
    BY <1>1, <1>4, KindOf, FieldNames DEF Typed, Between, Turns
  <2>2. Typed(c)
    <3>1. b.init_index + 1 \in Kind["init_index"]
      BY <2>1, KindOf, Ns2Assumption
    <3> QED BY <1>1, <3>1, Put, Values, FieldNames
  <2>3. SameLink(b, c) /\ SameStage(b, c) /\ SamePairing(b, c)
    BY <1>1 DEF Typed, Shaped, Fields, SameLink, Quiet, SameStage, SamePairing
  <2>4. /\ c.init_index = b.init_index + 1 /\ c.init_command_sent = FALSE
        /\ c.init_send_due = TRUE
    BY <1>1 DEF Typed, Shaped, Fields
  <2>5. e = c
    BY <1>1, <1>4 DEF HandleAck, Typed, Shaped, Fields
  <2> HIDE DEF c, e
  <2>6. OnLink(c) /\ Kept(b, c) /\ (Staying(c) <=> Staying(b)) /\ c.con_handle = b.con_handle
    BY <1>1, <2>2, <2>3, OnLinkKept DEF Between
  <2>7. Turns(c)
    BY <1>1, <2>3, <2>4, <2>6 DEF Between, Turns, SameStage, SamePairing, SameLink
  <2>8. b.init_index < FinalizeIndex => c.init_index <= FinalizeIndex
    BY <2>1, <2>4, Ns2Assumption
  <2>9. Staying(c) => Keyed(c, k) /\ Heard(c, h)
    BY <1>1, <1>4, <2>3, <2>4, <2>6, <2>8 DEF Between, Keyed, Heard, SameStage, SamePairing
  <2>10. Staying(c) => Waits(c)
    BY <2>3, <2>4, <2>6, SameStageWaits DEF Sound, SetUp
  <2>11. Between(c, k, h)
    BY <1>1, <2>3, <2>6, <2>7, <2>9 DEF Between, SameStage
  <2> QED BY <2>5, <2>6, <2>10, <2>11, BetweenIsSound DEF e
<1>5. CASE /\ ~(b.disconnect_pending \/ Quiet(b)) /\ b.pair_step = 0
           /\ ~(step = InitAnswer /\ b.gatt_stage = "Initializing" /\ b.init_command_sent)
  BY <1>5 DEF HandleAck, Kept
<1> QED BY <1>2, <1>3, <1>4, <1>5

\* Input comes with a key, and its controller is to be saved.
LEMMA InputSound ==
    ASSUME NEW b, NEW k, NEW h, Sound(b, k, h), Linked(b), "input" \in b.listening
    PROVE  Sound(HandleInput(b), k, h) /\ Kept(b, HandleInput(b))
<1> DEFINE c == [b EXCEPT !.save_target_pending = TRUE, !.state = "ConnectedLive"]
<1>1. Typed(b) /\ Between(b, k, h)
  BY SoundIsBetween DEF Sound, Base
<1>2. CASE b.disconnect_pending \/ Quiet(b)
  BY <1>2 DEF HandleInput, Kept
<1>3. CASE ~(b.disconnect_pending \/ Quiet(b))
  <2>1. Typed(c)
    BY <1>1, Put, Values, FieldNames
  <2>2. SameLink(b, c) /\ SameStage(b, c) /\ SameInit(b, c)
    BY <1>1 DEF Typed, Shaped, Fields, SameLink, Quiet, SameStage, SameInit
  <2>3. /\ c.crypto = b.crypto /\ c.crypto_current = b.crypto_current
        /\ c.pair_step = b.pair_step /\ c.pair_save_pending = b.pair_save_pending
        /\ c.pairing_required = b.pairing_required
        /\ c.pair_waiting_ack = b.pair_waiting_ack
    BY <1>1 DEF Typed, Shaped, Fields
  <2>4. HandleInput(b) = c
    BY <1>3 DEF HandleInput
  <2> HIDE DEF c
  <2>5. OnLink(c) /\ Kept(b, c) /\ (Staying(c) <=> Staying(b)) /\ c.con_handle = b.con_handle
    BY <1>1, <2>1, <2>2, OnLinkKept DEF Between
  <2>6. Turns(c)
    BY <1>1, <2>2, <2>3, <2>5 DEF Between, Turns, SameStage, SameInit, SameLink
  <2>7. Staying(b) => ~b.pairing_required
    BY <1>1 DEF Between, Keyed
  <2>8. Staying(c) => Keyed(c, k) /\ Heard(c, h)
    BY <1>1, <2>2, <2>3, <2>5, <2>7 DEF Between, Keyed, Heard, SameStage, SameInit
  <2>9. Staying(c) => Waits(c)
    BY <2>2, <2>3, <2>5 DEF Sound, SetUp, Waits, SameStage, SameInit
  <2>10. Between(c, k, h)
    BY <1>1, <2>2, <2>5, <2>6, <2>8 DEF Between, SameStage
  <2> QED BY <2>4, <2>5, <2>9, <2>10, BetweenIsSound
<1> QED BY <1>2, <1>3

-----------------------------------------------------------------------------
(* Saving, and the deadlines.                                              *)

\* The key of a link that stays is not taken from the database, and what was
\* heard is not forgotten.
LEMMA SoundLater ==
    ASSUME NEW b, NEW k, NEW h, Sound(b, k, h), NEW kk, NEW hh, h \subseteq hh,
           Staying(b) /\ k[b.con_handle] # "none" => kk[b.con_handle] # "none"
    PROVE  Sound(b, kk, hh)
BY DEF Sound, SetUp, Keyed, Heard

\* c is b, but for the record of the target.
SameButTarget(b, c) ==
    /\ c.con_handle = b.con_handle /\ c.current_addr = b.current_addr
    /\ c.pending_addr = b.pending_addr /\ c.connecting = b.connecting
    /\ c.scanning = b.scanning
    /\ c.connect_mode = b.connect_mode /\ c.disconnect_pending = b.disconnect_pending
    /\ c.forget_addr = b.forget_addr
    /\ c.bt_links = b.bt_links /\ c.bt_closing = b.bt_closing
    /\ c.bt_connect = b.bt_connect /\ c.suspended = b.suspended
    /\ c.manually_disconnected = b.manually_disconnected
    /\ SameStage(b, c) /\ SameInit(b, c)
    /\ c.crypto = b.crypto /\ c.crypto_current = b.crypto_current
    /\ c.pair_step = b.pair_step /\ c.pair_save_pending = b.pair_save_pending
    /\ c.pairing_required = b.pairing_required
    /\ c.pair_waiting_ack = b.pair_waiting_ack

SavedFrom(b, c) ==
    /\ Typed(c) /\ SameButTarget(b, c)
    /\ c.saved_target \in {b.saved_target, b.current_addr}

LEMMA SaveFields ==
    ASSUME NEW b, Typed(b), NEW ok \in BOOLEAN
    PROVE  SavedFrom(b, SaveCurrentTargetIfLive(b, ok))
<1> DEFINE t == [b EXCEPT !.target_saved = TRUE]
           s == [b EXCEPT !.saved_target = b.current_addr, !.saved_target_dirty = ~ok,
                          !.save_target_pending = ~ok, !.target_saved = ok]
<1>1. Typed(t)
  BY Put, Values, FieldNames
<1>2. Typed(s)
  <2>1. /\ b.current_addr \in Kind["saved_target"] /\ (~ok) \in Kind["saved_target_dirty"]
        /\ (~ok) \in Kind["save_target_pending"] /\ ok \in Kind["target_saved"]
    BY KindOf, FieldNames DEF Typed
  <2> QED BY <2>1, Put, FieldNames
<1>3. SavedFrom(b, t)
  <2>1. t.saved_target = b.saved_target
    BY DEF Typed, Shaped, Fields
  <2>2. SameButTarget(b, t)
    BY DEF SameButTarget, SameStage, SameInit, Typed, Shaped, Fields
  <2> QED BY <1>1, <2>1, <2>2 DEF SavedFrom
<1>4. SavedFrom(b, s)
  <2>1. s.saved_target = b.current_addr
    BY DEF Typed, Shaped, Fields
  <2>2. SameButTarget(b, s)
    BY DEF SameButTarget, SameStage, SameInit, Typed, Shaped, Fields
  <2> QED BY <1>2, <2>1, <2>2 DEF SavedFrom
<1>5. SavedFrom(b, b)
  BY DEF SavedFrom, SameButTarget, SameStage, SameInit
<1> HIDE DEF t, s
<1> QED BY <1>3, <1>4, <1>5 DEF SaveCurrentTargetIfLive, t, s

\* Whoever is saved is on a link that stays, and has a key.
SavedWell(b, c, k) ==
    \/ c.saved_target = b.saved_target
    \/ Staying(b) /\ c.saved_target = b.con_handle /\ k[b.con_handle] # "none"

LEMMA SavedSound ==
    ASSUME NEW b, NEW k, NEW h, Sound(b, k, h), Staying(b), ~b.pairing_required,
           NEW c, SavedFrom(b, c)
    PROVE  Sound(c, k, h)
<1>1. Base(c)
  BY DEF Sound, Base, SavedFrom, SameButTarget, SameStage, SameInit, Links, Aims, Unlinked, Turns, Linked,
         Staying, Quiet
<1>2. SetUp(c, k, h)
  BY DEF Sound, SavedFrom, SameButTarget, SameStage, SameInit, SetUp, Waits, Keyed, Heard, Quiet
<1> QED BY <1>1, <1>2 DEF Sound

LEMMA SaveTargetSound ==
    ASSUME NEW b, NEW k, NEW h, Sound(b, k, h), ~EarlyReturn(b), NEW saved \in BOOLEAN
    PROVE  /\ Sound(TickSaveTarget(b, saved), k, h)
           /\ SavedWell(b, TickSaveTarget(b, saved), k)
           /\ SavedFrom(b, TickSaveTarget(b, saved))
<1> DEFINE a == [b EXCEPT !.save_target_pending = FALSE]
           c == SaveCurrentTargetIfLive(a, saved)
           d == [c EXCEPT !.requested_mode = "None"]
           e == TickSaveTarget(b, saved)
<1>1. Typed(b)
  BY DEF Sound, Base
<1>2. CASE ~b.save_target_pending \/ ~Linked(b)
  BY <1>1, <1>2 DEF TickSaveTarget, SavedFrom, SameButTarget, SavedWell, SameStage, SameInit
<1>3. CASE b.save_target_pending /\ Linked(b)
  <2>1. Typed(a)
    BY <1>1, Put, Values, FieldNames
  <2>2. SavedFrom(b, a)
    <3>1. a.saved_target = b.saved_target
      BY <1>1 DEF Typed, Shaped, Fields
    <3>2. SameButTarget(b, a)
      BY <1>1 DEF SameButTarget, SameStage, SameInit, Typed, Shaped, Fields
    <3> QED BY <2>1, <3>1, <3>2 DEF SavedFrom
  <2> HIDE DEF a
  <2>3. SavedFrom(a, c)
    BY <2>1, SaveFields
  <2> HIDE DEF c
  <2>4. SavedFrom(c, d)
    <3>1. Typed(d) /\ Typed(c)
      BY <2>3, Put, Values, FieldNames DEF SavedFrom
    <3>2. SameButTarget(c, d)
      BY <3>1 DEF SameButTarget, SameStage, SameInit, Typed, Shaped, Fields
    <3>3. d.saved_target = c.saved_target
      BY <3>1 DEF Typed, Shaped, Fields
    <3> QED BY <3>1, <3>2, <3>3 DEF SavedFrom
  <2> HIDE DEF d
  <2>5. a.saved_target = b.saved_target /\ d.saved_target = c.saved_target
    BY <1>1, <2>3 DEF a, d, SavedFrom, Typed, Shaped, Fields
  <2>6. SavedFrom(b, c) /\ SavedFrom(b, d)
    BY <2>2, <2>3, <2>4, <2>5 DEF SavedFrom, SameButTarget, SameStage, SameInit
  <2>7. e = c \/ e = d
    BY <1>3 DEF TickSaveTarget, a, c, d
  <2> HIDE DEF e
  <2>8. SavedFrom(b, e)
    BY <2>6, <2>7
  <2>9. Staying(b) /\ ~b.pairing_required /\ k[b.con_handle] # "none"
        /\ b.current_addr = b.con_handle
    BY <1>3 DEF EarlyReturn, Staying, Sound, SetUp, Keyed, Base, Links
  <2>10. SavedWell(b, e, k)
    BY <2>8, <2>9 DEF SavedWell, SavedFrom
  <2>11. Sound(e, k, h)
    BY <2>8, <2>9, SavedSound
  <2> QED BY <2>8, <2>10, <2>11 DEF e
<1> QED BY <1>2, <1>3

\* The controller on the link has been paired with, and its key is stored.
LEMMA SavePairingSound ==
    ASSUME NEW b, NEW k, NEW h, Sound(b, k, h), ~EarlyReturn(b),
           NEW stored \in BOOLEAN, NEW saved \in BOOLEAN,
           b.pair_save_pending /\ Linked(b) /\ stored => k[b.con_handle] # "none"
    PROVE  /\ Sound(TickSavePairing(b, stored, saved), k, h)
           /\ SavedWell(b, TickSavePairing(b, stored, saved), k)
           /\ TickSavePairing(b, stored, saved).forget_addr = b.forget_addr
           /\ TickSavePairing(b, stored, saved).con_handle = b.con_handle
<1> DEFINE c == [b EXCEPT !.pair_save_pending = FALSE]
           a == [c EXCEPT !.pairing_required = FALSE, !.pair_step = 0,
                          !.requested_mode = "None"]
           d == SaveCurrentTargetIfLive(a, saved)
           f == [d EXCEPT !.init_index = FinalizeIndex + 1, !.init_send_due = TRUE]
           e == TickSavePairing(b, stored, saved)
<1>1. Typed(b)
  BY DEF Sound, Base
<1>2. CASE ~b.pair_save_pending \/ ~Linked(b)
  BY <1>2 DEF TickSavePairing, SavedWell
<1>3. CASE b.pair_save_pending /\ Linked(b)
  <2>1. Between(b, k, h) /\ Staying(b) /\ ~b.init_command_sent
    BY <1>3, SoundIsBetween DEF EarlyReturn, Staying, Between, Turns
  <2>2. Typed(c) /\ Typed(a)
    BY <1>1, Put, Values, FieldNames
  <2>3. CASE ~stored
    <3>1. SameLink(b, c) /\ SameStage(b, c) /\ SameInit(b, c)
      BY <1>1 DEF Typed, Shaped, Fields, SameLink, Quiet, SameStage, SameInit
    <3>2. /\ c.crypto = b.crypto /\ c.crypto_current = b.crypto_current
          /\ c.pair_step = b.pair_step /\ c.pair_save_pending = FALSE
      BY <1>1 DEF Typed, Shaped, Fields
    <3>3. e = DisconnectAndBackoff(c)
      BY <1>3, <2>3 DEF TickSavePairing
    <3> HIDE DEF c, e
    <3>4. /\ OnLink(c) /\ Kept(b, c) /\ (Staying(c) <=> Staying(b))
          /\ c.con_handle = b.con_handle
      BY <2>1, <2>2, <3>1, OnLinkKept DEF Between
    <3>5. Turns(c)
      BY <2>1, <3>1, <3>2, <3>4 DEF Between, Turns, SameStage, SameInit, SameLink
    <3>6. Sound(e, k, h) /\ Kept(c, e)
      BY <3>3, <3>4, <3>5, EndSound
    <3>7. e.con_handle = c.con_handle
      BY <2>1, <2>2, <3>3, <3>4, DisconnectFields DEF Typed
    <3> QED BY <3>4, <3>6, <3>7 DEF SavedWell, Kept, e
  <2>4. CASE stored
    <3>1. SameLink(b, a) /\ SameStage(b, a) /\ SameInit(b, a)
      BY <1>1 DEF Typed, Shaped, Fields, SameLink, Quiet, SameStage, SameInit
    <3>2. /\ a.crypto = b.crypto /\ a.crypto_current = b.crypto_current
          /\ a.pair_step = 0 /\ a.pair_save_pending = FALSE /\ a.pairing_required = FALSE
      BY <1>1 DEF Typed, Shaped, Fields
    <3>3. e = f
      BY <1>3, <2>4 DEF TickSavePairing
    <3> HIDE DEF a
    <3>4. /\ OnLink(a) /\ Kept(b, a) /\ (Staying(a) <=> Staying(b))
          /\ a.con_handle = b.con_handle
      BY <2>1, <2>2, <3>1, OnLinkKept DEF Between
    <3>5. SavedFrom(a, d)
      BY <2>2, SaveFields
    <3> HIDE DEF d
    <3>6. FinalizeIndex + 1 \in Kind["init_index"]
      BY KindOf, Ns2Assumption
    <3>7. Typed(f) /\ Typed(d)
      BY <3>5, <3>6, Put, Values, FieldNames DEF SavedFrom
    <3>8. SameLink(d, f) /\ SameStage(d, f) /\ SamePairing(d, f)
      BY <3>7 DEF Typed, Shaped, Fields, SameLink, Quiet, SameStage, SamePairing
    <3>9. /\ f.init_index = FinalizeIndex + 1 /\ f.init_send_due = TRUE
          /\ f.init_command_sent = d.init_command_sent
      BY <3>7 DEF Typed, Shaped, Fields
    <3> HIDE DEF f, e
    <3>10. OnLink(d) /\ (Staying(d) <=> Staying(b)) /\ d.con_handle = b.con_handle
      BY <2>1, <3>4, <3>5, <3>7
         DEF OnLink, Links, Aims, SavedFrom, SameButTarget, Linked, Staying, Quiet
    <3>11. /\ OnLink(f) /\ Kept(d, f) /\ (Staying(f) <=> Staying(d))
           /\ f.con_handle = d.con_handle
      BY <3>7, <3>8, <3>10, OnLinkKept
    <3>12. Turns(f)
      BY <2>1, <3>1, <3>2, <3>5, <3>8, <3>9, <3>10, <3>11
         DEF Between, Turns, SavedFrom, SameButTarget, SamePairing, SameStage, SameInit,
             SameLink, Staying
    <3>13. k[f.con_handle] # "none"
      BY <1>3, <2>4, <3>10, <3>11
    <3>14. Keyed(f, k)
      BY <3>2, <3>5, <3>8, <3>13 DEF Keyed, SavedFrom, SameButTarget, SamePairing
    <3>15. Heard(f, h)
      BY <2>1, <3>2, <3>5, <3>8
         DEF Between, Heard, SavedFrom, SameButTarget, SamePairing
    <3>16. Waits(f)
      <4>1. Waits(b)
        BY <2>1 DEF Sound, SetUp
      <4>2. SameStage(b, f)
        BY <3>1, <3>5, <3>8 DEF SameStage, SavedFrom, SameButTarget
      <4> QED BY <3>9, <4>1, <4>2, SameStageWaits
    <3>17. Between(f, k, h)
      BY <3>11, <3>12, <3>14, <3>15, <3>16 DEF Between, Waits
    <3>18. Sound(f, k, h)
      BY <3>16, <3>17, BetweenIsSound
    <3>19. f.saved_target \in {b.saved_target, b.con_handle} /\ f.forget_addr = b.forget_addr
      BY <3>1, <3>4, <3>5, <3>8
         DEF SavedFrom, SameButTarget, SameLink, OnLink, Links, Kept
    <3> QED BY <1>3, <2>1, <2>4, <3>3, <3>10, <3>11, <3>18, <3>19 DEF SavedWell, e
  <2> QED BY <2>3, <2>4
<1> QED BY <1>2, <1>3

LEMMA TwoSavesWell ==
    ASSUME NEW b, NEW c, NEW d, NEW k, SavedWell(b, c, k), SavedWell(c, d, k),
           c.con_handle = b.con_handle, Staying(c) => Staying(b)
    PROVE  SavedWell(b, d, k)
BY DEF SavedWell

\* The deadlines, each where it may have passed.
LEMMA TickSendSound ==
    ASSUME NEW b, NEW k, NEW h, Sound(b, k, h), Staying(b), MaySend(b), NEW ok \in BOOLEAN
    PROVE  Sound(TickSend(b, ok), k, h) /\ Kept(b, TickSend(b, ok))
<1> DEFINE c == [b EXCEPT !.init_send_due = FALSE]
<1>1. Typed(b) /\ Between(b, k, h) /\ ~b.init_command_sent /\ ~b.rumble_write_pending
  BY SoundIsBetween DEF Sound, Base, SetUp, Waits, Turns, MaySend, Staying
<1>2. Typed(c)
  BY <1>1, Put, Values, FieldNames
<1>3. SameLink(b, c) /\ SameStage(b, c) /\ SamePairing(b, c)
  BY <1>1 DEF Typed, Shaped, Fields, SameLink, Quiet, SameStage, SamePairing
<1>4. /\ c.init_send_due = FALSE /\ c.init_command_sent = b.init_command_sent
      /\ c.init_index = b.init_index
  BY <1>1 DEF Typed, Shaped, Fields
<1>5. TickSend(b, ok) = IF b.pair_step # 0 THEN SendPairingStep(c, ok)
                        ELSE SendCurrentInitCommand(c, ok)
  BY DEF TickSend
<1> HIDE DEF c
<1>6. OnLink(c) /\ Kept(b, c) /\ (Staying(c) <=> Staying(b)) /\ c.con_handle = b.con_handle
  BY <1>1, <1>2, <1>3, OnLinkKept DEF Between
<1>7. Turns(c)
  BY <1>1, <1>3, <1>4, <1>6 DEF Between, Turns, SameStage, SamePairing, SameLink
<1>8. Keyed(c, k) /\ Heard(c, h)
  BY <1>1, <1>3, <1>4, <1>6 DEF Between, Keyed, Heard, SameStage, SamePairing
<1>9. Between(c, k, h)
  BY <1>1, <1>3, <1>6, <1>7, <1>8 DEF Between, SameStage
<1>10. c.gatt_stage = "Initializing" /\ c.crypto = "none" /\ c.pair_step = b.pair_step
  BY <1>3 DEF MaySend, SameStage, SamePairing
<1>11. CASE b.pair_step # 0
  BY <1>1, <1>3, <1>5, <1>6, <1>9, <1>10, <1>11, PairingStepSound, KeptTwice DEF SameStage
<1>12. CASE b.pair_step = 0
  BY <1>1, <1>3, <1>4, <1>5, <1>6, <1>9, <1>10, <1>12, InitCommandSound, KeptTwice
     DEF SameStage
<1> QED BY <1>11, <1>12

\* A deadline that is cleared, before what it stands for is done.
LEMMA ClearedIsFresh ==
    ASSUME NEW b, NEW k, NEW h, Between(b, k, h),
           NEW f \in {"mtu_exchange_due", "mtu_exchange_pending", "security_pending"}
    PROVE  LET c == [b EXCEPT ![f] = FALSE] IN Fresh(c, k, h) /\ Kept(b, c)
<1> DEFINE c == [b EXCEPT ![f] = FALSE]
<1>1. Typed(b)
  BY DEF Between, OnLink
<1>2. Typed(c)
  BY <1>1, Put, Values, FieldNames
<1>3. SameLink(b, c) /\ SamePairing(b, c) /\ SameInit(b, c) /\ c.gatt_stage = b.gatt_stage
  BY <1>1 DEF Typed, Shaped, Fields, SameLink, Quiet, SamePairing, SameInit
<1> HIDE DEF c
<1>4. OnLink(c) /\ Kept(b, c) /\ (Staying(c) <=> Staying(b)) /\ c.con_handle = b.con_handle
  BY <1>2, <1>3, OnLinkKept DEF Between
<1>5. Turns(c)
  BY <1>3, <1>4 DEF Between, Turns, SamePairing, SameInit, SameLink
<1>6. Staying(c) => Trusted(c, k, h)
  BY <1>3, <1>4 DEF Between, Trusted, Keyed, Heard, SamePairing
<1> QED BY <1>4, <1>5, <1>6 DEF Fresh, c

LEMMA OnDueSound ==
    ASSUME NEW b, NEW k, NEW h, Sound(b, k, h), ~EarlyReturn(b), NEW d \in Timers, Due(b, d),
           NEW ok \in BOOLEAN
    PROVE  /\ Sound(OnDue(b, d, ok), k, h)
           /\ OnDue(b, d, ok).saved_target = b.saved_target
           /\ OnDue(b, d, ok).forget_addr = b.forget_addr
<1>1. Base(b) /\ Typed(b)
  BY DEF Sound, Base
<1>2. Linked(b) => Staying(b) /\ Between(b, k, h)
  BY SoundIsBetween DEF EarlyReturn, Staying
<1>3. CASE d = "none"
  BY <1>3 DEF OnDue
<1>4. CASE d = "send"
  BY <1>2, <1>4, TickSendSound DEF OnDue, Due, Kept
<1>5. CASE d = "start"
  <2> DEFINE c == [b EXCEPT !.auto_start_due = FALSE]
  <2>1. Typed(c)
    BY <1>1, Put, Values, FieldNames
  <2>2. SameLink(b, c) /\ SameSetUp(b, c)
    BY <1>1 DEF Typed, Shaped, Fields, SameLink, Quiet, SameSetUp
  <2>3. OnDue(b, d, ok) = StartAutoAttempt(c)
    BY <1>5 DEF OnDue
  <2> HIDE DEF c
  <2>4. Sound(c, k, h) /\ Kept(b, c)
    BY <2>1, <2>2, SameIsSound DEF Same
  <2> QED BY <2>3, <2>4, AutoAttemptSound DEF Kept
<1>6. CASE d = "retry"
  BY <1>6, AutoAttemptSound DEF OnDue
<1>7. CASE d = "mtu"
  <2> DEFINE c == [b EXCEPT !.mtu_exchange_due = FALSE]
  <2>1. Fresh(c, k, h) /\ Kept(b, c)
    BY <1>2, <1>7, ClearedIsFresh DEF Due
  <2>2. OnDue(b, d, ok) = StartMtuExchange(c)
    BY <1>7 DEF OnDue
  <2> HIDE DEF c
  <2> QED BY <2>1, <2>2, StartMtuSound DEF Kept
<1>8. CASE d = "mtu_late"
  <2> DEFINE c == [b EXCEPT !.mtu_exchange_pending = FALSE]
  <2>1. Fresh(c, k, h) /\ Kept(b, c)
    BY <1>2, <1>8, ClearedIsFresh DEF Due
  <2>2. OnDue(b, d, ok) = StartServiceDiscovery(c, ok)
    BY <1>8 DEF OnDue
  <2> HIDE DEF c
  <2> QED BY <2>1, <2>2, DiscoverSound DEF Kept
<1>9. CASE d = "discover"
  BY <1>2, <1>9, DiscoverSound, BetweenIsFresh DEF OnDue, Due, Kept
<1>10. CASE d = "security"
  <2> DEFINE c == [b EXCEPT !.security_pending = FALSE]
  <2>1. Fresh(c, k, h) /\ Kept(b, c)
    BY <1>2, <1>10, ClearedIsFresh DEF Due
  <2>2. OnDue(b, d, ok) = DisconnectAndBackoff(c)
    BY <1>10 DEF OnDue
  <2> HIDE DEF c
  <2> QED BY <2>1, <2>2, EndSound DEF Kept, Fresh
<1>11. CASE d = "watchdog"
  <2>1. ~Linked(b)
    BY <1>1, <1>11 DEF Due, Base, Links
  <2> QED BY <1>1, <1>11, <2>1, GiveUpAttempt, LeftIsSound DEF OnDue, Kept
<1>12. CASE d \in {"pair", "init", "notify"}
  <2>1. OnDue(b, d, ok) = DisconnectAndBackoff(b)
    BY <1>12 DEF OnDue
  <2> QED BY <1>1, <2>1, DisconnectSound, LeftIsSound DEF Kept
<1> QED BY <1>3, <1>4, <1>5, <1>6, <1>7, <1>8, <1>9, <1>10, <1>11, <1>12 DEF Timers

-----------------------------------------------------------------------------
(* The events of BTstack.                                                  *)

\* An attempt is made for the controller whose advertisement was received.
LEMMA ConnectSound ==
    ASSUME NEW b, NEW k, NEW h, Sound(b, k, h), NEW p \in Peer, NEW mode \in Modes,
           b.saved_target = p \/ mode = "PairingScan", b.forget_addr = NoPeer,
           NEW taken \in BOOLEAN
    PROVE  /\ Sound(StartConnect(b, p, mode, taken), k, h)
           /\ StartConnect(b, p, mode, taken).saved_target = b.saved_target
           /\ StartConnect(b, p, mode, taken).forget_addr = b.forget_addr
<1> DEFINE s == StopScan(b)
           r == ResetGattCache(s)
           c == [r EXCEPT !.pending_addr = p, !.current_addr = NoPeer, !.target_saved = FALSE,
                          !.connect_mode = mode, !.connecting = TRUE, !.state = "Busy"]
           d == [c EXCEPT !.bt_connect = p]
           e == StartConnect(b, p, mode, taken)
<1>1. CASE ~b.hci_ready \/ Quiet(b) \/ b.connecting \/ Linked(b)
  BY <1>1 DEF StartConnect
<1>2. CASE ~(~b.hci_ready \/ Quiet(b) \/ b.connecting \/ Linked(b))
  <2>1. Base(b) /\ Typed(b)
    BY DEF Sound, Base
  <2>2. Same(b, s) /\ ~s.scanning
    BY <2>1, StopScanSame
  <2>3. s.suspended = b.suspended /\ s.manually_disconnected = b.manually_disconnected
    BY <2>1 DEF StopScan, Typed, Shaped, Fields
  <2> HIDE DEF s
  <2>4. Base(s) /\ ~Linked(s) /\ ~Quiet(s) /\ Kept(b, s)
    BY <1>2, <2>1, <2>2, <2>3, SameIsBase DEF Linked, Quiet, Same, SameLink
  <2>5. Left(r) /\ Kept(s, r)
    BY <2>4, ResetSound DEF Base, Links, Unlinked, Over
  <2>6. /\ r.con_handle = s.con_handle /\ r.suspended = s.suspended
        /\ r.manually_disconnected = s.manually_disconnected
        /\ r.scanning = s.scanning /\ r.connecting = s.connecting
        /\ r.gatt_stage = "Idle" /\ r.init_command_sent = FALSE
        /\ r.pair_step = 0 /\ r.pair_save_pending = FALSE
    BY <2>4, ResetFields DEF Base, Typed
  <2> HIDE DEF r
  <2>7. Typed(r) /\ Typed(c) /\ Typed(d)
    <3>1. Typed(r)
      BY <2>5 DEF Left, Base
    <3>2. p \in Kind["pending_addr"] /\ p \in Kind["bt_connect"] /\ mode \in Kind["connect_mode"]
      BY KindOf DEF Someone
    <3>3. Typed([r EXCEPT !.pending_addr = p, !.current_addr = NoPeer, !.target_saved = FALSE])
      BY <3>1, <3>2, Put, Values, FieldNames
    <3>4. Typed(c)
      BY <3>2, <3>3, Put, Values, FieldNames
    <3> QED BY <3>1, <3>2, <3>4, Put, FieldNames
  <2> Shaped(r)
    BY <2>7 DEF Typed
  <2>8. SameSetUp(r, c) /\ SameSetUp(r, d)
    BY DEF Shaped, Fields, SameSetUp
  <2>9. /\ c.con_handle = r.con_handle /\ c.bt_links = r.bt_links
        /\ c.bt_closing = r.bt_closing /\ c.saved_target = r.saved_target
        /\ c.forget_addr = r.forget_addr
    BY DEF Shaped, Fields
  <2>10. /\ d.con_handle = r.con_handle /\ d.bt_links = r.bt_links
         /\ d.bt_closing = r.bt_closing /\ d.saved_target = r.saved_target
         /\ d.forget_addr = r.forget_addr /\ d.suspended = r.suspended
         /\ d.manually_disconnected = r.manually_disconnected
         /\ d.disconnect_pending = r.disconnect_pending
         /\ d.pending_addr = p /\ d.bt_connect = p /\ d.connect_mode = mode
         /\ d.connecting = TRUE /\ d.scanning = r.scanning
    BY DEF Shaped, Fields
  <2>11. e = IF taken THEN d ELSE EnterBackoff(c)
    BY <1>2 DEF StartConnect, s, r
  <2> HIDE DEF c, d, e
  <2>12. CASE taken
    <3>1. Base(d) /\ ~Staying(d)
      BY <2>4, <2>5, <2>6, <2>7, <2>8, <2>10, Ns2Assumption
         DEF Left, Base, Links, Aims, Unlinked, Turns, SameSetUp, Linked, Staying, Quiet, Kept
    <3> QED BY <2>4, <2>5, <2>10, <2>11, <2>12, <3>1 DEF Sound, Kept, e
  <2>13. CASE ~taken
    <3>1. Over(c)
      BY <2>4, <2>5, <2>6, <2>8, <2>9
         DEF Over, Left, Base, Links, Unlinked, SameSetUp, Linked
    <3>2. Left(EnterBackoff(c)) /\ Kept(c, EnterBackoff(c))
      BY <2>7, <3>1, BackoffSound
    <3> QED BY <2>4, <2>5, <2>9, <2>11, <2>13, <3>2, LeftIsSound DEF Kept, e
  <2> QED BY <2>12, <2>13
<1> QED BY <1>1, <1>2

\* The radio has one link more, its handle known to ns2_ble.cpp or not, or one less.
Landed(b) ==
    [b EXCEPT !.bt_connect = NoPeer, !.bt_links = b.bt_links \cup {b.bt_connect}]
Held(b) ==
    [b EXCEPT !.bt_connect = NoPeer, !.bt_links = b.bt_links \cup {b.bt_connect},
              !.con_handle = b.bt_connect]
Gone(b, p) == [b EXCEPT !.bt_links = b.bt_links \ {p}, !.bt_closing = b.bt_closing \ {p}]

\* The attempt that was made has succeeded, and a link begins: nothing was heard
\* on it yet.
LEMMA OnConnectedSound ==
    ASSUME NEW b, Base(b), b.connecting, ~Quiet(b), NEW h
    PROVE  Sound(OnConnected(Held(b)), keys, h) /\ Kept(b, OnConnected(Held(b)))
<1> DEFINE p == b.bt_connect
           n == [b EXCEPT !.bt_connect = NoPeer, !.bt_links = b.bt_links \cup {p},
                          !.con_handle = p]
           r == n.connect_mode = "PairingScan"
           c == [n EXCEPT
                   !.disconnect_pending = FALSE, !.connecting = FALSE, !.scanning = FALSE,
                   !.pending_addr = NoPeer, !.current_addr = n.pending_addr,
                   !.crypto_current = FALSE, !.pairing_required = r, !.next_retry = FALSE]
           d == [c EXCEPT !.security_pending = TRUE, !.bt_security = TRUE]
           e == OnConnected(n)
<1>1. /\ Typed(b) /\ p \in Peer /\ b.pending_addr = p /\ ~Linked(b)
      /\ b.bt_links \subseteq Peer
      /\ b.forget_addr = NoPeer /\ (b.saved_target = p \/ b.connect_mode = "PairingScan")
  <2>1. p \in Someone /\ b.bt_links \subseteq Peer
    BY KindOf, FieldNames DEF Base, Typed
  <2> QED BY <2>1 DEF Base, Links, Aims, Someone, Linked
<1>2. Typed(n)
  <2>1. /\ p \in Kind["con_handle"] /\ b.bt_links \cup {p} \in Kind["bt_links"]
    BY <1>1, KindOf, FieldNames DEF Typed, Someone
  <2> HIDE DEF p
  <2> QED BY <1>1, <2>1, Put, Values, FieldNames
<1>3. /\ n.con_handle = p /\ n.bt_links = b.bt_links \cup {p}
      /\ n.bt_closing = b.bt_closing /\ n.bt_connect = NoPeer
      /\ n.pending_addr = p /\ n.saved_target = b.saved_target
      /\ n.forget_addr = b.forget_addr /\ n.suspended = b.suspended
      /\ n.manually_disconnected = b.manually_disconnected
      /\ n.connect_mode = b.connect_mode /\ SameSetUp(b, n)
  BY <1>1 DEF Typed, Shaped, Fields, SameSetUp
<1> HIDE DEF n, p
<1>4. Typed(c)
  <2>1. n.pending_addr \in Kind["current_addr"] /\ r \in Kind["pairing_required"]
    BY <1>2, KindOf, FieldNames DEF Typed
  <2> HIDE DEF r
  <2> QED BY <1>2, <2>1, Put, Values, FieldNames
<1>5. /\ c.con_handle = n.con_handle /\ c.current_addr = n.pending_addr
      /\ c.pending_addr = NoPeer /\ c.connecting = FALSE /\ c.scanning = FALSE
      /\ c.disconnect_pending = FALSE /\ c.bt_links = n.bt_links
      /\ c.bt_closing = n.bt_closing /\ c.bt_connect = n.bt_connect
      /\ c.saved_target = n.saved_target /\ c.forget_addr = n.forget_addr
      /\ c.suspended = n.suspended /\ c.manually_disconnected = n.manually_disconnected
      /\ c.pairing_required = r /\ c.crypto_current = FALSE
  BY <1>2 DEF Typed, Shaped, Fields
<1>6. SameStage(n, c) /\ SameInit(n, c)
      /\ c.pair_step = n.pair_step /\ c.pair_save_pending = n.pair_save_pending
      /\ c.save_target_pending = n.save_target_pending
  BY <1>2 DEF Typed, Shaped, Fields, SameStage, SameInit
<1>7. e = IF c.pairing_required \/ c.saved_target # c.current_addr
          THEN ScheduleMtuExchange(c)
          ELSE IF keys[c.current_addr] = "none" THEN DisconnectAndBackoff(c) ELSE d
  BY DEF OnConnected
<1> OnConnected(Held(b)) = e
  BY DEF Held, n, p
<1> HIDE DEF c, e
<1>8. OnLink(c) /\ Staying(c) /\ Kept(b, c) /\ ~c.scanning
  BY <1>1, <1>3, <1>4, <1>5, Ns2Assumption
     DEF OnLink, Base, Links, Aims, Linked, Staying, Quiet, Kept
<1>9. Turns(c)
  BY <1>1, <1>3, <1>5, <1>6
     DEF Base, Unlinked, Turns, SameSetUp, SameStage, SameInit
<1>10. CASE c.pairing_required
  <2>1. Fresh(c, keys, h)
    BY <1>1, <1>3, <1>5, <1>6, <1>8, <1>9, <1>10
       DEF Fresh, Trusted, Base, Unlinked, SameSetUp
  <2> QED BY <1>7, <1>8, <1>10, <2>1, ScheduleSound, KeptTwice DEF Kept
<1>11. CASE ~c.pairing_required
  <2>1. c.saved_target = c.current_addr /\ c.current_addr = c.con_handle
    BY <1>1, <1>3, <1>5, <1>11
  <2>2. CASE keys[c.current_addr] = "none"
    BY <1>7, <1>8, <1>9, <1>11, <2>1, <2>2, EndSound, KeptTwice DEF Kept
  <2>3. CASE keys[c.current_addr] # "none"
    <3>1. Typed(d)
      BY <1>4, Put, Values, FieldNames
    <3>2. SameLink(c, d) /\ SameInit(c, d) /\ SamePairing(c, d)
      BY <1>4 DEF Typed, Shaped, Fields, SameLink, Quiet, SameInit, SamePairing
    <3>3. /\ d.gatt_stage = c.gatt_stage /\ d.security_pending = TRUE
          /\ d.rumble_write_pending = c.rumble_write_pending
      BY <1>4 DEF Typed, Shaped, Fields
    <3>4. e = d
      BY <1>7, <1>11, <2>1, <2>3
    <3> HIDE DEF d
    <3>5. /\ OnLink(d) /\ Kept(c, d) /\ (Staying(d) <=> Staying(c))
          /\ d.con_handle = c.con_handle
      BY <1>8, <3>1, <3>2, OnLinkKept
    <3>6. Turns(d)
      BY <1>9, <3>2, <3>3, <3>5 DEF Turns, SameInit, SamePairing, SameLink
    <3>7. /\ c.gatt_stage = "Idle" /\ c.pair_step = 0 /\ ~c.pair_save_pending
          /\ ~c.rumble_write_pending
      BY <1>1, <1>3, <1>6 DEF Base, Unlinked, SameSetUp, SameStage
    <3>8. Keyed(d, keys) /\ Heard(d, h) /\ Waits(d)
      BY <1>5, <1>11, <2>1, <2>3, <3>2, <3>3, <3>5, <3>7
         DEF Keyed, Heard, Waits, SamePairing
    <3>9. Sound(d, keys, h)
      BY <3>3, <3>5, <3>6, <3>7, <3>8, BetweenIsSound DEF Between
    <3> QED BY <1>8, <3>4, <3>5, <3>9, KeptTwice DEF Kept
  <2> QED BY <2>2, <2>3
<1> QED BY <1>10, <1>11

\* A link that nobody wants any more is closed.
LEMMA RefusedSound ==
    ASSUME NEW b, NEW k, NEW h, Sound(b, k, h), b.bt_connect # NoPeer,
           Quiet(b) \/ b.pending_addr = NoPeer \/ Linked(b)
    PROVE  LET c == Refused(Landed(b), b.bt_connect) IN
           Sound(c, k, h) /\ Kept(b, c) /\ c.con_handle = b.con_handle
<1> DEFINE p == b.bt_connect
           n == [b EXCEPT !.bt_connect = NoPeer, !.bt_links = b.bt_links \cup {p}]
           c == [n EXCEPT !.bt_closing = n.bt_closing \cup {p}]
<1>1. Typed(b) /\ Base(b) /\ p \in Peer /\ ~b.connecting /\ ~Linked(b)
  <2>1. Typed(b) /\ Base(b)
    BY DEF Sound, Base
  <2>2. p \in Someone
    BY <2>1, KindOf, FieldNames DEF Typed
  <2> QED BY <2>1, <2>2 DEF Base, Links, Aims, Someone, Linked
<1>2. Typed(n)
  <2>1. b.bt_links \cup {p} \in Kind["bt_links"]
    BY <1>1, KindOf, FieldNames DEF Typed
  <2> HIDE DEF p
  <2> QED BY <1>1, <2>1, Put, Values, FieldNames
<1>3. Typed(c)
  <2>1. n.bt_closing \cup {p} \in Kind["bt_closing"]
    BY <1>1, <1>2, KindOf, FieldNames DEF Typed
  <2> HIDE DEF p, n
  <2> QED BY <1>2, <2>1, Put, FieldNames
<1> HIDE DEF p
<1>4. /\ c.con_handle = b.con_handle /\ c.bt_links = b.bt_links \cup {p}
      /\ c.bt_closing = b.bt_closing \cup {p} /\ c.bt_connect = NoPeer
      /\ c.pending_addr = b.pending_addr /\ c.saved_target = b.saved_target
      /\ c.forget_addr = b.forget_addr /\ c.suspended = b.suspended
      /\ c.manually_disconnected = b.manually_disconnected
      /\ c.disconnect_pending = b.disconnect_pending
      /\ c.connecting = b.connecting /\ c.scanning = b.scanning /\ SameSetUp(b, c)
  BY <1>1 DEF Typed, Shaped, Fields, SameSetUp
<1>5. Refused(n, p) = c
  BY <1>2 DEF Refused, Typed, Shaped, Fields
<1> HIDE DEF c
<1>6. Left(c) /\ Kept(b, c)
  BY <1>1, <1>3, <1>4
     DEF Left, Base, Links, Aims, Unlinked, Turns, SameSetUp, Linked, Staying, Quiet, Kept
<1>7. Landed(b) = n
  BY DEF Landed, p
<1> HIDE DEF n
<1> QED BY <1>4, <1>5, <1>6, <1>7, LeftIsSound DEF p

LEMMA ResetShown ==
    ASSUME NEW b, Typed(b), Links(b), Aims(b), Over(b)
    PROVE  LET c == [ResetGattCache(b) EXCEPT !.state = "Idle"] IN Left(c) /\ Kept(b, c)
<1> DEFINE r == ResetGattCache(b)
           c == [r EXCEPT !.state = "Idle"]
<1>1. Left(r) /\ Kept(b, r)
  BY ResetSound
<1> HIDE DEF r
<1>2. Same(r, c)
  BY <1>1, ShowSame, Values DEF Left, Base
<1> HIDE DEF c
<1>3. Left(c) /\ Kept(r, c)
  BY <1>1, <1>2, SameIsBase DEF Left
<1> QED BY <1>1, <1>3, KeptTwice DEF r, c

LEMMA ConnectionFailedSound ==
    ASSUME NEW b, Base(b), b.bt_connect # NoPeer
    PROVE  LET n == [b EXCEPT !.bt_connect = NoPeer]
           IN  Left(OnConnectionFailed(n)) /\ Kept(b, OnConnectionFailed(n))
<1> DEFINE n == [b EXCEPT !.bt_connect = NoPeer]
           c == [n EXCEPT !.connecting = FALSE, !.pending_addr = NoPeer]
           e == OnConnectionFailed(n)
<1>1. Typed(b) /\ ~Linked(b)
  BY DEF Base, Links
<1>2. Typed(n)
  BY <1>1, Put, Values, FieldNames
<1>3. Typed(c)
  BY <1>2, Put, Values, FieldNames
<1>4. /\ c.con_handle = b.con_handle /\ c.bt_links = b.bt_links
      /\ c.bt_closing = b.bt_closing /\ c.pending_addr = NoPeer
      /\ c.saved_target = b.saved_target /\ c.forget_addr = b.forget_addr
      /\ c.suspended = b.suspended /\ c.manually_disconnected = b.manually_disconnected
      /\ c.connecting = FALSE /\ c.scanning = b.scanning /\ SameSetUp(b, c)
  BY <1>1 DEF Typed, Shaped, Fields, SameSetUp
<1>5. e = IF Quiet(n) \/ ~Wanted(n) THEN [ResetGattCache(c) EXCEPT !.state = "Idle"]
          ELSE EnterBackoff(c)
  BY DEF OnConnectionFailed
<1> HIDE DEF c, e, n
<1>6. Links(c) /\ Aims(c) /\ Over(c) /\ Kept(b, c)
  BY <1>1, <1>4
     DEF Base, Links, Aims, Unlinked, SameSetUp, Linked, Quiet, Over, Kept
<1>7. CASE Quiet(n) \/ ~Wanted(n)
  BY <1>3, <1>5, <1>6, <1>7, ResetShown, KeptTwice DEF e, n
<1>8. CASE ~(Quiet(n) \/ ~Wanted(n))
  BY <1>3, <1>5, <1>6, <1>8, BackoffSound, KeptTwice DEF e, n
<1> QED BY <1>7, <1>8

\* The link is gone, and with it the queries and the encryption on it.
LEMMA LinkLostSound ==
    ASSUME NEW b, Base(b), Linked(b)
    PROVE  LET e == OnDisconnected(Gone(b, b.con_handle)) IN Left(e) /\ Kept(b, e)
<1> DEFINE p == b.con_handle
           n == [b EXCEPT !.bt_links = b.bt_links \ {p}, !.bt_closing = b.bt_closing \ {p}]
           c == [n EXCEPT
                   !.con_handle = NoPeer, !.disconnect_pending = FALSE, !.connecting = FALSE,
                   !.scanning = FALSE, !.current_addr = NoPeer, !.security_pending = FALSE,
                   !.save_target_pending = FALSE, !.bt_security = FALSE, !.bt_query = "none"]
           e == OnDisconnected(n)
<1>1. Typed(b)
  BY DEF Base
<1>2. Typed(n)
  <2>1. b.bt_links \ {p} \in Kind["bt_links"] /\ b.bt_closing \ {p} \in Kind["bt_closing"]
    BY <1>1, KindOf, FieldNames DEF Typed
  <2> HIDE DEF p
  <2> QED BY <1>1, <2>1, Put, FieldNames
<1> HIDE DEF p
<1>3. Typed(c)
  BY <1>2, Put, Values, FieldNames
<1>4. /\ c.con_handle = NoPeer /\ c.bt_links = b.bt_links \ {p}
      /\ c.bt_closing = b.bt_closing \ {p} /\ c.pending_addr = b.pending_addr
      /\ c.saved_target = b.saved_target /\ c.forget_addr = b.forget_addr
      /\ c.connecting = FALSE /\ c.scanning = FALSE
      /\ c.save_target_pending = FALSE /\ c.bt_security = FALSE /\ c.bt_query = "none"
  BY <1>1 DEF Typed, Shaped, Fields
<1>5. e = IF Quiet(n) \/ ~Wanted(n) THEN [ResetGattCache(c) EXCEPT !.state = "Idle"]
          ELSE EnterBackoff(c)
  BY DEF OnDisconnected
<1> OnDisconnected(Gone(b, b.con_handle)) = e
  BY DEF Gone, p
<1> HIDE DEF c, e, n
<1>6. Links(c) /\ Aims(c) /\ Over(c) /\ Kept(b, c)
  BY <1>1, <1>4 DEF Base, Links, Aims, Linked, Quiet, Over, Kept, p
<1>7. CASE Quiet(n) \/ ~Wanted(n)
  BY <1>3, <1>5, <1>6, <1>7, ResetShown, KeptTwice
<1>8. CASE ~(Quiet(n) \/ ~Wanted(n))
  BY <1>3, <1>5, <1>6, <1>8, BackoffSound, KeptTwice
<1> QED BY <1>7, <1>8

LEMMA OtherLostSound ==
    ASSUME NEW b, NEW k, NEW h, Sound(b, k, h), NEW p \in Peer, p # b.con_handle
    PROVE  Sound(Gone(b, p), k, h) /\ Kept(b, Gone(b, p))
<1> DEFINE n == Gone(b, p)
<1>1. Typed(b) /\ Base(b)
  BY DEF Sound, Base
<1>2. Typed(n)
  <2>1. b.bt_links \ {p} \in Kind["bt_links"] /\ b.bt_closing \ {p} \in Kind["bt_closing"]
    BY <1>1, KindOf, FieldNames DEF Typed
  <2> QED BY <1>1, <2>1, Put, FieldNames DEF Gone
<1>3. /\ n.con_handle = b.con_handle /\ n.current_addr = b.current_addr
      /\ n.pending_addr = b.pending_addr /\ n.connecting = b.connecting
      /\ n.scanning = b.scanning /\ n.connect_mode = b.connect_mode
      /\ n.disconnect_pending = b.disconnect_pending
      /\ n.saved_target = b.saved_target /\ n.forget_addr = b.forget_addr
      /\ n.bt_links = b.bt_links \ {p} /\ n.bt_closing = b.bt_closing \ {p}
      /\ n.bt_connect = b.bt_connect /\ n.suspended = b.suspended
      /\ n.manually_disconnected = b.manually_disconnected /\ SameSetUp(b, n)
  BY <1>1 DEF Gone, Typed, Shaped, Fields, SameSetUp
<1> HIDE DEF n
<1>4. Base(n) /\ Kept(b, n)
  BY <1>1, <1>2, <1>3
     DEF Base, Links, Aims, Unlinked, Turns, SameSetUp, Linked, Quiet, Kept
<1>5. SetUp(b, k, h) => SetUp(n, k, h)
  BY <1>3 DEF SetUp, Waits, Keyed, Heard, SameSetUp, Quiet
<1> QED BY <1>3, <1>4, <1>5 DEF Sound, Staying, Linked, n

-----------------------------------------------------------------------------
(* The invariant, and the steps.                                           *)

\* The sound record with what is outside it; and an erasure that is waiting when
\* the radio is polled has no scan beside it, so that no attempt can begin.
IInv ==
    /\ Sound(ble, keys, heard)
    /\ keys \in [Peer -> {"none", "shared", "stale"}]
    /\ heard \subseteq Steps
    /\ tick_due \in BOOLEAN
    /\ ble.forget_addr # NoPeer /\ ~tick_due => ~ble.scanning

LEMMA BootedLeft ==
    ASSUME NEW saved \in Someone, NEW auto \in BOOLEAN, NEW ds5 \in BOOLEAN
    PROVE  LET b == Booted(saved, auto, ds5) IN
           Left(b) /\ b.forget_addr = NoPeer /\ b.scanning = FALSE
<1> DEFINE b == Booted(saved, auto, ds5)
<1>1. Shaped(b)
  <2>1. DOMAIN b = Fields
    BY DEF Booted, Fields
  <2>2. b = [f \in DOMAIN b |-> b[f]]
    BY DEF Booted
  <2> QED BY <2>1, <2>2 DEF Shaped
<1>2. /\ b.hci_ready = FALSE /\ b.suspended = FALSE /\ b.manually_disconnected = FALSE
      /\ b.forget_addr = NoPeer /\ b.requested_mode = "None" /\ b.connect_mode = "None"
      /\ b.scanning = FALSE /\ b.connecting = FALSE /\ b.disconnect_pending = FALSE
      /\ b.pending_addr = NoPeer /\ b.current_addr = NoPeer /\ b.con_handle = NoPeer
      /\ b.auto_start_due = FALSE /\ b.next_retry = FALSE
      /\ b.save_target_pending = FALSE /\ b.saved_target_dirty = FALSE
      /\ b.target_saved = FALSE /\ b.gatt_stage = "Idle" /\ b.security_pending = FALSE
      /\ b.mtu_exchange_due = FALSE /\ b.mtu_exchange_pending = FALSE
      /\ b.service_discovery_due = FALSE /\ b.retries = 0 /\ b.services_left = 0
      /\ b.listening = {} /\ b.init_index = 0 /\ b.init_send_due = FALSE
      /\ b.init_command_sent = FALSE /\ b.pairing_required = FALSE /\ b.pair_step = 0
      /\ b.pair_waiting_ack = FALSE /\ b.pair_save_pending = FALSE
      /\ b.crypto = "none" /\ b.crypto_current = FALSE
      /\ b.rumble_write_pending = FALSE /\ b.state = "Busy"
      /\ b.auto_connect = auto /\ b.saved_target = saved /\ b.prefers_ds5 = ds5
      /\ b.attempt = FALSE /\ b.bt_scanning = FALSE /\ b.bt_connect = NoPeer
      /\ b.bt_links = {} /\ b.bt_closing = {} /\ b.bt_security = FALSE
      /\ b.bt_query = "none"
  BY DEF Booted
<1> HIDE DEF b
<1>3. \A f \in Fields : b[f] \in Kind[f]
  <2> DEFINE W(f) == b[f] \in Kind[f]
  <2>1. /\ W("auto_connect") /\ W("saved_target") /\ W("prefers_ds5") /\ W("state")
        /\ W("bt_links") /\ W("bt_closing")
    BY <1>2, Values, KindOf
  <2>2. /\ W("scanning") /\ W("hci_ready") /\ W("suspended")
        /\ W("manually_disconnected") /\ W("forget_addr") /\ W("requested_mode")
        /\ W("connect_mode") /\ W("connecting") /\ W("disconnect_pending")
        /\ W("pending_addr") /\ W("current_addr") /\ W("con_handle")
        /\ W("auto_start_due") /\ W("next_retry")
    BY <1>2, Values, Zenon
  <2>3. /\ W("save_target_pending") /\ W("saved_target_dirty") /\ W("target_saved")
        /\ W("gatt_stage") /\ W("security_pending") /\ W("mtu_exchange_due")
        /\ W("mtu_exchange_pending") /\ W("service_discovery_due") /\ W("retries")
        /\ W("services_left") /\ W("listening") /\ W("init_index")
        /\ W("init_send_due") /\ W("init_command_sent")
    BY <1>2, Values, Zenon
  <2>4. /\ W("pairing_required") /\ W("pair_step") /\ W("pair_waiting_ack")
        /\ W("pair_save_pending") /\ W("crypto") /\ W("crypto_current")
        /\ W("rumble_write_pending") /\ W("attempt") /\ W("bt_scanning")
        /\ W("bt_connect") /\ W("bt_security")
        /\ W("bt_query")
    BY <1>2, Values, Zenon
  <2> HIDE DEF W
  <2>5. \A f \in Fields : W(f)
    BY <2>1, <2>2, <2>3, <2>4 DEF Fields
  <2> QED BY <2>5 DEF W
<1>4. Left(b)
  BY <1>1, <1>2, <1>3
     DEF Left, Typed, Base, Links, Aims, Unlinked, Turns, Linked, Staying, Quiet
<1> QED BY <1>2, <1>4 DEF b

LEMMA InitIInv == Init => IInv
<1> SUFFICES ASSUME Init PROVE IInv
  OBVIOUS
<1>1. PICK saved \in Someone, auto \in AutoSettings, ds5 \in Preferences :
          ble = BridgeConnectionApply(Booted(saved, auto, ds5), FALSE)
  BY DEF Init
<1> DEFINE b == Booted(saved, auto, ds5)
<1>2. Left(b) /\ b.forget_addr = NoPeer
  BY BootedLeft, Ns2Assumption
<1> HIDE DEF b
<1>3. Sound(b, keys, heard)
  BY <1>2, LeftIsSound
<1>4. /\ Sound(BridgeConnectionApply(b, FALSE), keys, heard)
      /\ Kept(b, BridgeConnectionApply(b, FALSE))
  BY <1>3, ApplySound
<1>5. Sound(ble, keys, heard) /\ ble.forget_addr = NoPeer
  BY <1>1, <1>2, <1>4 DEF b, Kept
<1> QED BY <1>5 DEF Init, IInv

\* What a step may do to the keys and to the record of the target.
CommitsKeys == \A p \in Peer : keys[p] = "none" => keys'[p] # "stale"
SavesPartners ==
    \/ ble'.saved_target \in {ble.saved_target, NoPeer}
    \/ Staying(ble) /\ ble'.saved_target = ble.con_handle /\ keys'[ble.con_handle] # "none"

StepIsSound == IInv' /\ CommitsKeys /\ SavesPartners

LEMMA PolledSound ==
    ASSUME IInv, ~tick_due, UNCHANGED <<tick_due, keys>>, heard' \subseteq Steps,
           Sound(ble', keys, heard'), Kept(ble, ble')
    PROVE  StepIsSound
BY DEF IInv, StepIsSound, CommitsKeys, SavesPartners, Kept

LEMMA CommandSound ==
    ASSUME IInv, NEW c, Command(c), Sound(c, keys, heard),
           c.saved_target \in {ble.saved_target, NoPeer}
    PROVE  StepIsSound
BY DEF IInv, StepIsSound, CommitsKeys, SavesPartners, Command

LEMMA CalledStep == ASSUME IInv, Called PROVE StepIsSound
<1>1. Sound(ble, keys, heard) /\ Base(ble) /\ Typed(ble)
  BY DEF IInv, Sound, Base
<1>2. CASE PairCommand
  <2>1. Sound(BeginManualConnection(ble), keys, heard) /\ Kept(ble, BeginManualConnection(ble))
    BY <1>1, BeginSound
  <2> QED BY <1>2, <2>1, PairSound, CommandSound DEF PairCommand, Kept
<1>3. CASE ReconnectCommand
  <2>1. Sound(BeginManualConnection(ble), keys, heard) /\ Kept(ble, BeginManualConnection(ble))
    BY <1>1, BeginSound
  <2> QED BY <1>3, <2>1, ReconnectSound, CommandSound DEF ReconnectCommand, Kept
<1>4. CASE Ds5Command
  <2>1. Sound(BridgeConnectionReset(ble), keys, heard) /\ Kept(ble, BridgeConnectionReset(ble))
    BY <1>1, ResetCallSound
  <2>2. Base(BridgeConnectionReset(ble))
    BY <2>1 DEF Sound
  <2> QED BY <1>4, <2>1, <2>2, SuspendSound, LeftIsSound, CommandSound DEF Ds5Command, Kept
<1>5. CASE LockDs5
  BY <1>1, <1>5, SuspendSound, LeftIsSound, CommandSound DEF LockDs5, Kept
<1>6. CASE SessionEnds
  BY <1>1, <1>6, ResetCallSound, PolledSound DEF SessionEnds, IInv
<1>7. ASSUME NEW selected \in BOOLEAN, DisconnectCommand(selected) PROVE StepIsSound
  <2> DEFINE b == Ns2BleDisconnect(ble)
  <2>1. Sound(b, keys, heard) /\ Kept(ble, b)
    BY <1>1, BleDisconnectSound, LeftIsSound
  <2> HIDE DEF b
  <2>2. Sound(BridgeConnectionReset(b), keys, heard) /\ Kept(b, BridgeConnectionReset(b))
    BY <2>1, ResetCallSound
  <2>3. Command(BridgeConnectionReset(b)) \/ Command(b)
    BY <1>7 DEF DisconnectCommand, b
  <2> QED BY <2>1, <2>2, <2>3, CommandSound DEF Kept
<1>8. ASSUME NEW selected \in BOOLEAN, ForgetCommand(selected) PROVE StepIsSound
  <2> DEFINE b == Ns2BleForget(ble)
  <2>1. Sound(b, keys, heard) /\ b.saved_target = NoPeer
    BY <1>1, ForgetSound, LeftIsSound
  <2> HIDE DEF b
  <2>2. Sound(BridgeConnectionReset(b), keys, heard) /\ Kept(b, BridgeConnectionReset(b))
    BY <2>1, ResetCallSound
  <2>3. Command(BridgeConnectionReset(b)) \/ Command(b)
    BY <1>8 DEF ForgetCommand, b
  <2> QED BY <2>1, <2>2, <2>3, CommandSound DEF Kept
<1>9. ASSUME NEW enabled \in AutoSettings, AutoCommand(enabled) PROVE StepIsSound
  <2>1. enabled \in BOOLEAN
    BY <1>9, Ns2Assumption
  <2> QED BY <1>1, <1>9, <2>1, SetAutoSound, CommandSound DEF AutoCommand, Kept
<1>10. ASSUME NEW b, Same(ble, b),
              Command(BridgeConnectionApply(BridgeConnectionReset(b), TRUE))
       PROVE  StepIsSound
  <2>1. Sound(b, keys, heard) /\ Kept(ble, b)
    BY <1>1, <1>10, SameIsSound
  <2>2. Sound(BridgeConnectionReset(b), keys, heard) /\ Kept(b, BridgeConnectionReset(b))
    BY <2>1, ResetCallSound
  <2> QED BY <1>10, <2>1, <2>2, ApplySound, CommandSound DEF Kept
<1>11. ASSUME NEW ds5 \in Preferences, SourceCommand(ds5) PROVE StepIsSound
  <2> DEFINE b == [ble EXCEPT !.prefers_ds5 = ds5, !.attempt = FALSE]
  <2>1. Typed(b)
    <3>1. ds5 \in Kind["prefers_ds5"]
      BY <1>11, KindOf, Ns2Assumption
    <3> QED BY <1>1, <3>1, Put, Values, FieldNames
  <2>2. SameLink(ble, b) /\ SameSetUp(ble, b)
    BY <1>1 DEF SameLink, SameSetUp, Typed, Shaped, Fields, Quiet
  <2> QED BY <1>10, <1>11, <2>1, <2>2 DEF SourceCommand, Same
<1>12. CASE ResetCommand
  <2> DEFINE b == [ble EXCEPT !.auto_connect = TRUE, !.prefers_ds5 = FALSE,
                              !.attempt = FALSE]
  <2>1. Typed(b)
    BY <1>1, Put, Values, FieldNames
  <2>2. SameLink(ble, b) /\ SameSetUp(ble, b)
    BY <1>1 DEF SameLink, SameSetUp, Typed, Shaped, Fields, Quiet
  <2> QED BY <1>10, <1>12, <2>1, <2>2 DEF ResetCommand, Same
<1> QED BY <1>2, <1>3, <1>4, <1>5, <1>6, <1>7, <1>8, <1>9, <1>11, <1>12 DEF Called


\* What BTstack answers, one event after the other.
LEMMA HciWorkingStep == ASSUME IInv, HciWorking PROVE StepIsSound
BY HciReadySame, SameIsSound, PolledSound DEF IInv, Sound, Base, HciWorking, Polled

LEMMA AdvertisementStep ==
    ASSUME IInv, NEW p \in Peer, NEW pairing \in BOOLEAN, Advertisement(p, pairing)
    PROVE  StepIsSound
<1> DEFINE mode == IF ble.saved_target = p /\ pairing THEN "PairingScan"
                   ELSE ble.connect_mode
<1>1. mode \in Modes
  BY KindOf, FieldNames DEF IInv, Sound, Base, Typed, Modes
<1>2. ble.saved_target = p \/ mode = "PairingScan"
  BY DEF Advertisement
<1>3. ble.forget_addr = NoPeer /\ ~tick_due
  BY DEF Advertisement, Polled, IInv
<1>4. PICK taken \in BOOLEAN : ble' = StartConnect(ble, p, mode, taken)
  BY DEF Advertisement
<1> HIDE DEF mode
<1>5. /\ Sound(ble', keys, heard)
      /\ ble'.saved_target = ble.saved_target /\ ble'.forget_addr = ble.forget_addr
  BY <1>1, <1>2, <1>3, <1>4, ConnectSound DEF IInv
<1>6. UNCHANGED <<keys, heard, tick_due>>
  BY DEF Advertisement, Polled
<1> QED BY <1>3, <1>5, <1>6 DEF IInv, StepIsSound, CommitsKeys, SavesPartners

LEMMA ConnectedStep == ASSUME IInv, Connected PROVE StepIsSound
<1> DEFINE p == ble.bt_connect
           n == Landed(ble)
           m == [n EXCEPT !.con_handle = p]
<1>1. /\ Sound(ble, keys, heard) /\ Base(ble) /\ Typed(ble)
      /\ ~tick_due /\ UNCHANGED <<tick_due, keys>> /\ p # NoPeer
  BY DEF IInv, Sound, Base, Connected, Polled
<1>2. /\ n.suspended = ble.suspended /\ n.manually_disconnected = ble.manually_disconnected
      /\ n.pending_addr = ble.pending_addr /\ n.con_handle = ble.con_handle
  BY <1>1 DEF Landed, Typed, Shaped, Fields
<1>3. m = Held(ble)
  BY <1>1 DEF Landed, Held, Typed, Shaped, Fields
<1>4. /\ ble' = IF Unwanted(n) THEN Refused(n, p) ELSE OnConnected(m)
      /\ heard' = IF ble'.con_handle = ble.con_handle THEN heard ELSE {}
  BY DEF Connected, Landed
<1>5. CASE Unwanted(n)
  <2>1. Quiet(ble) \/ ble.pending_addr = NoPeer \/ Linked(ble)
    BY <1>2, <1>5 DEF Unwanted, Quiet, Linked
  <2>2. /\ Sound(Refused(n, p), keys, heard) /\ Kept(ble, Refused(n, p))
        /\ Refused(n, p).con_handle = ble.con_handle
    BY <1>1, <2>1, RefusedSound
  <2> HIDE DEF n, p
  <2> QED BY <1>1, <1>4, <1>5, <2>2, PolledSound DEF IInv
<1>6. CASE ~Unwanted(n)
  <2>1. ~Quiet(ble) /\ ble.connecting
    BY <1>1, <1>2, <1>6 DEF Unwanted, Quiet, Linked, Base, Links
  <2>2. Sound(OnConnected(Held(ble)), keys, heard') /\ Kept(ble, OnConnected(Held(ble)))
    BY <1>1, <2>1, OnConnectedSound
  <2> HIDE DEF m, n, p
  <2>3. ble' = OnConnected(Held(ble))
    BY <1>3, <1>4, <1>6
  <2>4. heard' \subseteq Steps
    BY <1>4 DEF IInv
  <2> QED BY <1>1, <2>2, <2>3, <2>4, PolledSound
<1> QED BY <1>5, <1>6

LEMMA ConnectionFailedStep == ASSUME IInv, ConnectionFailed PROVE StepIsSound
<1>1. /\ Base(ble) /\ ~tick_due /\ UNCHANGED <<tick_due, keys, heard>>
      /\ ble.bt_connect # NoPeer /\ heard' \subseteq Steps
      /\ ble' = OnConnectionFailed([ble EXCEPT !.bt_connect = NoPeer])
  BY DEF IInv, Sound, ConnectionFailed, Polled
<1> QED BY <1>1, ConnectionFailedSound, LeftIsSound, PolledSound

LEMMA DisconnectedStep ==
    ASSUME IInv, NEW p \in Peer, Disconnected(p) PROVE StepIsSound
<1> DEFINE n == Gone(ble, p)
<1>1. /\ Sound(ble, keys, heard) /\ Base(ble) /\ ~tick_due /\ UNCHANGED <<tick_due, keys>>
      /\ ble' = (IF p = ble.con_handle THEN OnDisconnected(n) ELSE n)
      /\ heard' = (IF p = ble.con_handle THEN {} ELSE heard) /\ heard' \subseteq Steps
  BY DEF IInv, Sound, Disconnected, Polled, Gone
<1>2. CASE p = ble.con_handle
  <2>1. Linked(ble)
    BY <1>2, Ns2Assumption DEF Linked
  <2>2. Left(OnDisconnected(n)) /\ Kept(ble, OnDisconnected(n))
    BY <1>1, <1>2, <2>1, LinkLostSound
  <2> HIDE DEF n
  <2> QED BY <1>1, <1>2, <2>2, LeftIsSound, PolledSound
<1>3. CASE p # ble.con_handle
  <2>1. Sound(n, keys, heard) /\ Kept(ble, n)
    BY <1>1, <1>3, OtherLostSound
  <2> HIDE DEF n
  <2> QED BY <1>1, <1>3, <2>1, PolledSound
<1> QED BY <1>2, <1>3

\* BTstack has finished what it did on the link; what it was is not looked at.
LEMMA AnsweredIsBetween ==
    ASSUME NEW b, NEW k, NEW h, Between(b, k, h),
           NEW c, \/ c = [b EXCEPT !.bt_query = "none"]
                  \/ c = [b EXCEPT !.bt_security = FALSE]
    PROVE  /\ Between(c, k, h) /\ Kept(b, c) /\ (Staying(c) <=> Staying(b))
           /\ c.gatt_stage = b.gatt_stage /\ c.rumble_write_pending = b.rumble_write_pending
           /\ c.security_pending = b.security_pending /\ SameInit(b, c) /\ SamePairing(b, c)
           /\ c.mtu_exchange_due = b.mtu_exchange_due
           /\ c.mtu_exchange_pending = b.mtu_exchange_pending
           /\ c.service_discovery_due = b.service_discovery_due
           /\ c.pair_waiting_ack = b.pair_waiting_ack
<1>1. Typed(b)
  BY DEF Between, OnLink
<1>2. Typed(c)
  <2>1. /\ Typed([b EXCEPT !.bt_query = "none"])
        /\ Typed([b EXCEPT !.bt_security = FALSE])
    BY <1>1, Put, Values, FieldNames
  <2> QED BY <2>1
<1>3. SameLink(b, c) /\ SamePairing(b, c) /\ SameInit(b, c)
  BY <1>1 DEF Typed, Shaped, Fields, SameLink, Quiet, SamePairing, SameInit
<1>4. /\ c.gatt_stage = b.gatt_stage /\ c.rumble_write_pending = b.rumble_write_pending
      /\ c.security_pending = b.security_pending /\ c.listening = b.listening
      /\ c.mtu_exchange_due = b.mtu_exchange_due
      /\ c.mtu_exchange_pending = b.mtu_exchange_pending
      /\ c.service_discovery_due = b.service_discovery_due
      /\ c.pair_waiting_ack = b.pair_waiting_ack
  BY <1>1 DEF Typed, Shaped, Fields
<1>5. OnLink(c) /\ Kept(b, c) /\ (Staying(c) <=> Staying(b)) /\ c.con_handle = b.con_handle
  BY <1>2, <1>3, OnLinkKept DEF Between
<1>6. Turns(c)
  BY <1>3, <1>4, <1>5 DEF Between, Turns, SamePairing, SameInit, SameLink
<1>7. Between(c, k, h)
  BY <1>3, <1>4, <1>5, <1>6 DEF Between, Keyed, Heard, SamePairing, SameInit
<1> QED BY <1>3, <1>4, <1>5, <1>7

LEMMA SecurityCompleteStep ==
    ASSUME IInv, NEW success \in BOOLEAN, SecurityComplete(success) PROVE StepIsSound
<1> DEFINE b == [ble EXCEPT !.bt_security = FALSE]
           c == [b EXCEPT !.security_pending = FALSE]
<1>1. /\ ~tick_due /\ UNCHANGED <<tick_due, keys, heard>> /\ ble.bt_security
      /\ ble' = IF ~success THEN DisconnectAndBackoff(c)
                ELSE IF b.security_pending THEN ScheduleMtuExchange(c) ELSE b
  BY DEF SecurityComplete, Polled
<1>2. Between(ble, keys, heard)
  BY <1>1, SoundIsBetween DEF IInv, Sound, Base, Unlinked
<1>3. /\ Between(b, keys, heard) /\ Kept(ble, b) /\ (Staying(b) <=> Staying(ble))
      /\ (Staying(b) /\ ~b.security_pending => Waits(b))
  <2>1. b.bt_query = ble.bt_query
    BY <1>2 DEF Between, OnLink, Typed, Shaped, Fields
  <2> HIDE DEF b
  <2> QED BY <1>2, <2>1, AnsweredIsBetween
             DEF b, IInv, Sound, SetUp, Waits, SameInit, SamePairing
<1> HIDE DEF b
<1>4. Fresh(c, keys, heard) /\ Kept(b, c)
  BY <1>3, ClearedIsFresh
<1> HIDE DEF c
<1>5. CASE ~success
  BY <1>1, <1>3, <1>4, <1>5, EndSound, KeptTwice, PolledSound DEF Fresh, IInv
<1>6. CASE success /\ b.security_pending
  BY <1>1, <1>3, <1>4, <1>6, ScheduleSound, KeptTwice, PolledSound DEF IInv
<1>7. CASE success /\ ~b.security_pending
  BY <1>1, <1>3, <1>7, BetweenIsSound, PolledSound DEF IInv
<1> QED BY <1>5, <1>6, <1>7

LEMMA MtuExchangedStep == ASSUME IInv, MtuExchanged PROVE StepIsSound
<1> DEFINE b == [ble EXCEPT !.bt_query = "none"]
           c == [b EXCEPT !.mtu_exchange_pending = FALSE]
<1>1. ~tick_due /\ UNCHANGED <<tick_due, keys, heard>> /\ ble.bt_query = "mtu"
  BY DEF MtuExchanged, Polled
<1>2. PICK ok \in BOOLEAN :
          ble' = IF b.gatt_stage = "MtuExchange" THEN StartServiceDiscovery(c, ok) ELSE b
  BY DEF MtuExchanged
<1>3. Between(ble, keys, heard)
  BY <1>1, SoundIsBetween DEF IInv, Sound, Base, Unlinked
<1> HIDE DEF b
<1>4. /\ Between(b, keys, heard) /\ Kept(ble, b) /\ (Staying(b) <=> Staying(ble))
      /\ (Staying(b) /\ b.gatt_stage # "MtuExchange" => Waits(b))
  BY <1>1, <1>3, AnsweredIsBetween
     DEF b, IInv, Sound, SetUp, Waits, SameInit, SamePairing
<1>5. Fresh(c, keys, heard) /\ Kept(b, c)
  BY <1>4, ClearedIsFresh
<1> HIDE DEF c
<1>6. CASE b.gatt_stage = "MtuExchange"
  BY <1>1, <1>2, <1>4, <1>5, <1>6, DiscoverSound, KeptTwice, PolledSound DEF IInv
<1>7. CASE b.gatt_stage # "MtuExchange"
  BY <1>1, <1>2, <1>4, <1>7, BetweenIsSound, PolledSound DEF IInv
<1> QED BY <1>6, <1>7

LEMMA QueryCompleteStep ==
    ASSUME IInv, NEW success \in BOOLEAN, QueryComplete(success) PROVE StepIsSound
<1> DEFINE b == [ble EXCEPT !.bt_query = "none"]
           r == [b EXCEPT !.rumble_write_pending = FALSE]
<1>1. /\ ~tick_due /\ UNCHANGED <<tick_due, keys, heard>>
      /\ ble.bt_query \in {"query", "rumble"}
  BY DEF QueryComplete, Polled
<1>2. PICK ok \in BOOLEAN, n \in 0 .. MaxServices :
          LET c == IF b.gatt_stage = "DiscoverServices"
                   THEN [b EXCEPT !.services_left = n] ELSE b
          IN  ble' = IF b.rumble_write_pending /\ b.gatt_stage = "Ready" THEN r
                     ELSE HandleGattQueryComplete(c, success, ok)
  BY Zenon DEF QueryComplete
<1> DEFINE c == IF b.gatt_stage = "DiscoverServices" THEN [b EXCEPT !.services_left = n]
                ELSE b
<1>3. Between(ble, keys, heard)
  BY <1>1, SoundIsBetween DEF IInv, Sound, Base, Unlinked
<1> HIDE DEF b
<1>4. /\ Between(b, keys, heard) /\ Kept(ble, b) /\ Typed(b)
      /\ Staying(b) /\ b.gatt_stage \notin {"DiscoverServices", "DiscoverCharacteristics",
                                            "SubscribeAck", "SubscribeInput"} =>
             /\ b.gatt_stage = "Idle" => b.security_pending
             /\ b.gatt_stage = "MtuExchange" => b.mtu_exchange_due \/ b.mtu_exchange_pending
             /\ b.gatt_stage = "Initializing" =>
                   \/ b.init_send_due \/ b.init_command_sent \/ b.pair_waiting_ack
                   \/ (b.crypto # "none" /\ b.crypto_current) \/ b.pair_save_pending
  BY <1>1, <1>3, AnsweredIsBetween
     DEF b, IInv, Sound, SetUp, Waits, SameInit, SamePairing, Between, OnLink
<1>5. CASE b.rumble_write_pending /\ b.gatt_stage = "Ready"
  <2>1. Typed(r)
    BY <1>4, Put, Values, FieldNames
  <2>2. SameLink(b, r) /\ SamePairing(b, r) /\ SameInit(b, r)
    BY <1>4 DEF Typed, Shaped, Fields, SameLink, Quiet, SamePairing, SameInit
  <2>3. /\ r.gatt_stage = b.gatt_stage /\ r.rumble_write_pending = FALSE
        /\ r.listening = b.listening
    BY <1>4 DEF Typed, Shaped, Fields
  <2>4. ble' = r
    BY <1>2, <1>5
  <2> HIDE DEF r
  <2>5. OnLink(r) /\ Kept(b, r) /\ (Staying(r) <=> Staying(b)) /\ r.con_handle = b.con_handle
    BY <1>4, <2>1, <2>2, OnLinkKept DEF Between
  <2>6. Turns(r)
    BY <1>4, <2>2, <2>3, <2>5 DEF Between, Turns, SamePairing, SameInit, SameLink
  <2>7. Between(r, keys, heard) /\ Waits(r)
    BY <1>4, <1>5, <2>2, <2>3, <2>5, <2>6
       DEF Between, Keyed, Heard, SamePairing, SameInit, Waits
  <2> QED BY <1>1, <1>4, <2>4, <2>5, <2>7, BetweenIsSound, KeptTwice, PolledSound DEF IInv
<1>6. CASE ~(b.rumble_write_pending /\ b.gatt_stage = "Ready")
  <2>1. ble' = HandleGattQueryComplete(c, success, ok)
    BY <1>2, <1>6
  <2>2. CASE b.gatt_stage = "DiscoverServices"
    <3> DEFINE s == [b EXCEPT !.services_left = n]
    <3>1. Typed(s)
      <4>1. n \in Kind["services_left"]
        BY KindOf
      <4> QED BY <1>4, <4>1, Put, FieldNames
    <3>2. SameLink(b, s) /\ SamePairing(b, s) /\ SameInit(b, s)
      BY <1>4 DEF Typed, Shaped, Fields, SameLink, Quiet, SamePairing, SameInit
    <3>3. /\ s.gatt_stage = b.gatt_stage /\ s.listening = b.listening
          /\ s.rumble_write_pending = b.rumble_write_pending
      BY <1>4 DEF Typed, Shaped, Fields
    <3>4. c = s
      BY <2>2
    <3> HIDE DEF s, c
    <3>5. /\ OnLink(s) /\ Kept(b, s) /\ (Staying(s) <=> Staying(b))
          /\ s.con_handle = b.con_handle
      BY <1>4, <3>1, <3>2, OnLinkKept DEF Between
    <3>6. Turns(s)
      BY <1>4, <3>2, <3>3, <3>5 DEF Between, Turns, SamePairing, SameInit, SameLink
    <3>7. Between(s, keys, heard)
      BY <1>4, <3>2, <3>3, <3>5, <3>6 DEF Between, Keyed, Heard, SamePairing, SameInit
    <3>8. /\ Sound(HandleGattQueryComplete(s, success, ok), keys, heard)
          /\ Kept(s, HandleGattQueryComplete(s, success, ok))
      BY <2>2, <3>3, <3>7, QueryCompleteSound DEF Between
    <3> QED BY <1>1, <1>4, <2>1, <3>4, <3>5, <3>8, KeptTwice, PolledSound DEF IInv
  <2>3. CASE b.gatt_stage # "DiscoverServices"
    <3>1. c = b
      BY <2>3
    <3> HIDE DEF c
    <3>2. Staying(b) => ~b.rumble_write_pending
      BY <1>4, <1>6 DEF Between
    <3>3. b.gatt_stage \notin {"DiscoverServices", "DiscoverCharacteristics",
                               "SubscribeAck", "SubscribeInput"} /\ Staying(b) => Waits(b)
      BY <1>4, <3>2 DEF Waits
    <3>4. /\ Sound(HandleGattQueryComplete(b, success, ok), keys, heard)
          /\ Kept(b, HandleGattQueryComplete(b, success, ok))
      BY <1>4, <3>2, <3>3, QueryCompleteSound
    <3> QED BY <1>1, <1>4, <2>1, <3>1, <3>4, KeptTwice, PolledSound DEF IInv
  <2> QED BY <2>2, <2>3
<1> QED BY <1>5, <1>6

LEMMA CommandRefusedStep == ASSUME IInv, CommandRefused PROVE StepIsSound
BY DisconnectSound, LeftIsSound, PolledSound DEF IInv, Sound, CommandRefused, Polled

LEMMA AckNotificationStep ==
    ASSUME IInv, NEW step, AckNotification(step) PROVE StepIsSound
<1>1. /\ Sound(ble, keys, heard) /\ Linked(ble) /\ (step \in Steps => step \in heard)
      /\ ~tick_due /\ UNCHANGED <<tick_due, keys, heard>> /\ heard' \subseteq Steps
      /\ ble' = HandleAck(ble, step)
  BY DEF IInv, AckNotification, Polled
<1> QED BY <1>1, AckSound, PolledSound

LEMMA InputNotificationStep == ASSUME IInv, InputNotification PROVE StepIsSound
<1>1. /\ Sound(ble, keys, heard) /\ Linked(ble) /\ "input" \in ble.listening
      /\ ~tick_due /\ UNCHANGED <<tick_due, keys, heard>> /\ heard' \subseteq Steps
      /\ ble' = HandleInput(ble)
  BY DEF IInv, InputNotification, Polled
<1> QED BY <1>1, InputSound, PolledSound

LEMMA CryptoCallbackStep == ASSUME IInv, CryptoCallback PROVE StepIsSound
<1>1. /\ Sound(ble, keys, heard) /\ ble.crypto # "none"
      /\ ~tick_due /\ UNCHANGED <<tick_due, keys, heard>> /\ heard' \subseteq Steps
      /\ \E equal \in BOOLEAN : ble' = CryptoReady(ble, equal)
  BY DEF IInv, CryptoCallback, Polled
<1> QED BY <1>1, CryptoSound, PolledSound

\* A key that the controller no longer holds is still in the database.
LEMMA KeyLostStep == ASSUME IInv, NEW p \in Peer, KeyLost(p) PROVE StepIsSound
<1>1. /\ keys' = [keys EXCEPT ![p] = "stale"] /\ keys[p] = "shared"
      /\ UNCHANGED <<ble, heard, tick_due>>
  BY DEF KeyLost
<1>2. /\ keys' \in [Peer -> {"none", "shared", "stale"}]
      /\ \A q \in Peer : keys[q] = "none" <=> keys'[q] = "none"
  BY <1>1 DEF IInv
<1>3. Staying(ble) => ble.con_handle \in Peer
  BY KindOf, FieldNames DEF IInv, Sound, Base, Typed, Someone, Staying, Linked
<1>4. Sound(ble, keys', heard)
  BY <1>2, <1>3, SoundLater DEF IInv
<1> QED BY <1>1, <1>2, <1>4 DEF IInv, StepIsSound, CommitsKeys, SavesPartners

LEMMA SendRumbleStep == ASSUME IInv, SendRumble PROVE StepIsSound
<1> DEFINE c == [ble EXCEPT !.rumble_write_pending = TRUE, !.bt_query = "rumble"]
<1>1. /\ Linked(ble) /\ ble.gatt_stage = "Ready" /\ ble' = c
      /\ UNCHANGED <<keys, heard, tick_due>>
  BY DEF SendRumble
<1>2. Between(ble, keys, heard) /\ Typed(ble)
  BY <1>1, SoundIsBetween DEF IInv, Sound, Base
<1>3. Typed(c)
  BY <1>2, Put, Values, FieldNames
<1>4. SameLink(ble, c) /\ SamePairing(ble, c) /\ SameInit(ble, c)
  BY <1>2 DEF Typed, Shaped, Fields, SameLink, Quiet, SamePairing, SameInit
<1>5. /\ c.gatt_stage = ble.gatt_stage /\ c.listening = ble.listening
      /\ c.bt_query = "rumble"
  BY <1>2 DEF Typed, Shaped, Fields
<1> HIDE DEF c
<1>6. /\ OnLink(c) /\ Kept(ble, c) /\ (Staying(c) <=> Staying(ble))
      /\ c.con_handle = ble.con_handle
  BY <1>2, <1>3, <1>4, OnLinkKept DEF Between
<1>7. Turns(c)
  BY <1>2, <1>4, <1>5, <1>6 DEF Between, Turns, SamePairing, SameInit, SameLink
<1>8. Between(c, keys, heard) /\ Waits(c)
  BY <1>1, <1>2, <1>4, <1>5, <1>6, <1>7
     DEF Between, Keyed, Heard, SamePairing, SameInit, Waits
<1>9. Sound(c, keys, heard)
  BY <1>8, BetweenIsSound
<1> QED BY <1>1, <1>6, <1>9 DEF Kept, IInv, StepIsSound, CommitsKeys, SavesPartners

LEMMA EventStep == ASSUME IInv, Event PROVE StepIsSound
BY HciWorkingStep, AdvertisementStep, ConnectedStep, ConnectionFailedStep, DisconnectedStep,
   SecurityCompleteStep, MtuExchangedStep, QueryCompleteStep, CommandRefusedStep,
   AckNotificationStep, InputNotificationStep, CryptoCallbackStep, KeyLostStep,
   SendRumbleStep
   DEF Event

-----------------------------------------------------------------------------
(* A tick.                                                                 *)

\* The keys after a tick: one is taken only from a controller that has no link,
\* one is put in for the controller on the link, and it is the right one.
LEMMA TickKeys ==
    ASSUME IInv, NEW b, NEW stored \in BOOLEAN, NEW committed \in BOOLEAN
    PROVE  LET k == KeysAfterTick(b, stored, committed) IN
           /\ k \in [Peer -> {"none", "shared", "stale"}]
           /\ \A p \in Peer : keys[p] = "none" => k[p] # "stale"
           /\ Staying(ble) /\ keys[ble.con_handle] # "none" => k[ble.con_handle] # "none"
           /\ ble.pair_save_pending /\ Linked(ble) /\ ~EarlyReturn(ble) /\ stored =>
                 k[ble.con_handle] # "none"
<1> DEFINE stores == ble.pair_save_pending /\ Linked(ble) /\ ~EarlyReturn(ble) /\ stored
           k == KeysAfterTick(b, stored, committed)
<1>1. stores => heard = Steps /\ ble.current_addr = ble.con_handle
  BY DEF IInv, Sound, SetUp, Heard, Base, Links, Staying, EarlyReturn
<1>2. Linked(ble) => ble.con_handle \in Peer
  BY KindOf, FieldNames DEF IInv, Sound, Base, Typed, Someone, Linked
<1>3. keys \in [Peer -> {"none", "shared", "stale"}]
  BY DEF IInv
<1>4. MayErase => ~Linked(ble)
  BY DEF MayErase
<1>5. k = [p \in Peer |->
            IF MayErase /\ p = ble.forget_addr THEN "none"
            ELSE IF stores /\ p = ble.current_addr
            THEN IF heard = Steps /\ p = ble.con_handle THEN "shared" ELSE "stale"
            ELSE IF committed /\ p = b.con_handle /\ keys[p] = "shared" THEN "stale"
            ELSE keys[p]]
  BY DEF KeysAfterTick
<1>6. stores => Linked(ble)
  OBVIOUS
<1> HIDE DEF k, stores
<1>7. k \in [Peer -> {"none", "shared", "stale"}]
  BY <1>3, <1>5
<1>8. \A p \in Peer : keys[p] = "none" => k[p] # "stale"
  BY <1>1, <1>3, <1>5
<1>9. Staying(ble) /\ keys[ble.con_handle] # "none" => k[ble.con_handle] # "none"
  BY <1>2, <1>3, <1>4, <1>5 DEF Staying
<1>10. stores => k[ble.con_handle] # "none"
  BY <1>1, <1>2, <1>4, <1>5, <1>6
<1> QED BY <1>7, <1>8, <1>9, <1>10 DEF k, stores

\* An erasure is for a controller without a link.
LEMMA TickEraseSound ==
    ASSUME IInv, NEW k, NEW h, Sound(ble, k, h)
    PROVE  LET e == TickErase IN
           /\ Sound(e, k, h) /\ (EarlyReturn(e) <=> EarlyReturn(ble))
           /\ e.saved_target = ble.saved_target /\ e.con_handle = ble.con_handle
           /\ e.disconnect_pending = ble.disconnect_pending
           /\ e.pair_save_pending = ble.pair_save_pending
           /\ (e.forget_addr # NoPeer => e = ble /\ Linked(ble))
<1>1. CASE MayErase
  <2> DEFINE e == [ble EXCEPT !.forget_addr = NoPeer]
  <2>1. Typed(ble) /\ Base(ble) /\ ~Linked(ble)
    BY <1>1 DEF Sound, Base, MayErase
  <2>2. Typed(e)
    BY <2>1, Put, Values, FieldNames
  <2>3. /\ e.con_handle = ble.con_handle /\ e.current_addr = ble.current_addr
        /\ e.pending_addr = ble.pending_addr /\ e.connecting = ble.connecting
        /\ e.scanning = ble.scanning /\ e.connect_mode = ble.connect_mode
        /\ e.disconnect_pending = ble.disconnect_pending
        /\ e.saved_target = ble.saved_target /\ e.forget_addr = NoPeer
        /\ e.bt_links = ble.bt_links /\ e.bt_closing = ble.bt_closing
        /\ e.bt_connect = ble.bt_connect /\ e.suspended = ble.suspended
        /\ e.manually_disconnected = ble.manually_disconnected /\ SameSetUp(ble, e)
    BY <2>1 DEF Typed, Shaped, Fields, SameSetUp
  <2>4. TickErase = e
    BY <1>1 DEF TickErase
  <2> HIDE DEF e
  <2>5. Left(e)
    BY <2>1, <2>2, <2>3
       DEF Left, Base, Links, Aims, Unlinked, Turns, SameSetUp, Linked, Staying, Quiet
  <2> QED BY <2>3, <2>4, <2>5, LeftIsSound DEF EarlyReturn, Quiet, SameSetUp
<1>2. CASE ~MayErase
  BY <1>2 DEF TickErase, MayErase, Sound, Base, Aims
<1> QED BY <1>1, <1>2

LEMMA TickStep == ASSUME IInv, Tick(Timers) PROVE StepIsSound
<1>1. PICK saved \in BOOLEAN, stored \in BOOLEAN :
          \E d \in IF EarlyReturn(TickSaves(saved, stored)) THEN Timers \cap {"none"}
                   ELSE {t \in Timers : Due(TickSaves(saved, stored), t)},
             ok \in BOOLEAN, committed \in BOOLEAN :
                /\ heard' \subseteq Steps /\ heard \subseteq heard'
                /\ keys' = KeysAfterTick(TickSaves(saved, stored), stored, committed)
                /\ ble' = OnDue(TickSaves(saved, stored), d, ok)
  <2>1. \A asked : Answers(asked) \subseteq BOOLEAN
    BY DEF Answers
  <2>2. PICK saved \in Answers(ble.save_target_pending \/ ble.pair_save_pending),
             stored \in Answers(ble.pair_save_pending) :
           LET b == TickSaves(saved, stored)
           IN  \E d \in IF EarlyReturn(b) THEN Timers \cap {"none"}
                        ELSE {t \in Timers : Due(b, t)} :
               \E ok \in Answers(d \in {"send", "mtu_late", "discover"}) :
                  LET sent == IF d = "send" /\ ok THEN {b.pair_step} \cap Steps ELSE {}
                  IN  /\ d \in {"mtu_late", "discover"} /\ ok => b.bt_query = "none"
                      /\ heard' = heard \cup sent
                      /\ keys' = KeysAfterTick(b, stored, 3 \in sent)
                      /\ ble' = OnDue(b, d, ok)
    BY Zenon DEF Tick
  <2>3. saved \in BOOLEAN /\ stored \in BOOLEAN
    BY <2>1, <2>2
  <2> DEFINE b == TickSaves(saved, stored)
  <2>4. PICK d \in IF EarlyReturn(b) THEN Timers \cap {"none"} ELSE {t \in Timers : Due(b, t)} :
           \E ok \in Answers(d \in {"send", "mtu_late", "discover"}) :
              LET sent == IF d = "send" /\ ok THEN {b.pair_step} \cap Steps ELSE {}
              IN  /\ heard' = heard \cup sent
                  /\ keys' = KeysAfterTick(b, stored, 3 \in sent)
                  /\ ble' = OnDue(b, d, ok)
    BY <2>2
  <2>5. PICK ok \in BOOLEAN :
           LET sent == IF d = "send" /\ ok THEN {b.pair_step} \cap Steps ELSE {}
           IN  /\ heard' = heard \cup sent
               /\ keys' = KeysAfterTick(b, stored, 3 \in sent)
               /\ ble' = OnDue(b, d, ok)
    BY <2>1, <2>4
  <2> DEFINE sent == IF d = "send" /\ ok THEN {b.pair_step} \cap Steps ELSE {}
             committed == 3 \in sent
  <2>6. sent \subseteq Steps /\ committed \in BOOLEAN
    OBVIOUS
  <2> HIDE DEF b
  <2>7. /\ heard' = heard \cup sent /\ ble' = OnDue(b, d, ok)
        /\ keys' = KeysAfterTick(b, stored, committed)
    BY <2>5
  <2> HIDE DEF sent, committed
  <2>8. heard' \subseteq Steps /\ heard \subseteq heard'
    BY <2>6, <2>7 DEF IInv
  <2> QED BY <2>3, <2>4, <2>6, <2>7, <2>8 DEF b
<1> DEFINE e == TickErase
           f == TickSaveTarget(e, saved)
           b == TickSaves(saved, stored)
<1>2. PICK d \in IF EarlyReturn(b) THEN Timers \cap {"none"} ELSE {t \in Timers : Due(b, t)},
           ok \in BOOLEAN, committed \in BOOLEAN :
              /\ heard' \subseteq Steps /\ heard \subseteq heard'
              /\ keys' = KeysAfterTick(b, stored, committed)
              /\ ble' = OnDue(b, d, ok)
  BY <1>1
<1>3. tick_due' = FALSE
  BY DEF Tick
<1>4. b = IF EarlyReturn(e) THEN e ELSE TickSavePairing(f, stored, saved)
  BY DEF TickSaves
<1> HIDE DEF b
<1>5. /\ keys' \in [Peer -> {"none", "shared", "stale"}] /\ CommitsKeys
      /\ Staying(ble) /\ keys[ble.con_handle] # "none" => keys'[ble.con_handle] # "none"
      /\ ble.pair_save_pending /\ Linked(ble) /\ ~EarlyReturn(ble) /\ stored =>
            keys'[ble.con_handle] # "none"
  BY <1>2, TickKeys DEF CommitsKeys
<1>6. Sound(ble, keys', heard')
  BY <1>2, <1>5, SoundLater DEF IInv
<1>7. /\ Sound(e, keys', heard') /\ (EarlyReturn(e) <=> EarlyReturn(ble))
      /\ e.saved_target = ble.saved_target /\ e.con_handle = ble.con_handle
      /\ e.disconnect_pending = ble.disconnect_pending
      /\ e.pair_save_pending = ble.pair_save_pending
      /\ (e.forget_addr # NoPeer => e = ble /\ Linked(ble))
  BY <1>6, TickEraseSound
<1> HIDE DEF e
<1>8. CASE EarlyReturn(e)
  <2>1. ble' = e
    BY <1>2, <1>4, <1>8 DEF OnDue
  <2>2. ble'.forget_addr # NoPeer => ~ble'.scanning
    BY <1>7, <2>1 DEF Sound, Base, Links
  <2> QED BY <1>2, <1>3, <1>5, <1>7, <2>1, <2>2 DEF IInv, StepIsSound, SavesPartners
<1>9. CASE ~EarlyReturn(e)
  <2>1. e.forget_addr = NoPeer
    BY <1>7, <1>9 DEF EarlyReturn, Staying, Sound, SetUp
  <2>2. Sound(f, keys', heard') /\ SavedWell(e, f, keys') /\ SavedFrom(e, f)
    BY <1>7, <1>9, SaveTargetSound
  <2> HIDE DEF f
  <2>3. /\ f.con_handle = e.con_handle /\ f.forget_addr = e.forget_addr
        /\ (Staying(f) <=> Staying(e)) /\ ~EarlyReturn(f)
        /\ f.pair_save_pending = e.pair_save_pending
    BY <1>9, <2>2 DEF SavedFrom, SameButTarget, Staying, Linked, EarlyReturn, Quiet
  <2>4. f.pair_save_pending /\ Linked(f) /\ stored => keys'[f.con_handle] # "none"
    BY <1>5, <1>7, <1>9, <2>3 DEF Linked
  <2>5. b = TickSavePairing(f, stored, saved)
    BY <1>4, <1>9
  <2>6. /\ Sound(b, keys', heard') /\ SavedWell(f, b, keys')
        /\ b.forget_addr = f.forget_addr /\ b.con_handle = f.con_handle
    BY <2>2, <2>3, <2>4, <2>5, SavePairingSound
  <2>7. SavedWell(e, b, keys')
    BY <2>2, <2>3, <2>6, TwoSavesWell
  <2>8. /\ Sound(ble', keys', heard') /\ ble'.saved_target = b.saved_target
        /\ ble'.forget_addr = b.forget_addr
    <3>1. CASE EarlyReturn(b)
      BY <1>2, <2>6, <3>1 DEF OnDue
    <3>2. CASE ~EarlyReturn(b)
      <4>1. d \in Timers /\ Due(b, d)
        BY <1>2, <3>2
      <4> QED BY <1>2, <2>6, <3>2, <4>1, OnDueSound
    <3> QED BY <3>1, <3>2
  <2>9. SavesPartners
    BY <1>7, <2>7, <2>8 DEF SavesPartners, SavedWell, Staying, Linked
  <2> QED BY <1>2, <1>3, <1>5, <2>1, <2>3, <2>6, <2>8, <2>9 DEF IInv, StepIsSound
<1> QED BY <1>8, <1>9

-----------------------------------------------------------------------------
(* The theorems.                                                           *)

LEMMA NextStep == ASSUME IInv, Next PROVE StepIsSound
BY EventStep, CalledStep, TickStep DEF Next

LEMMA StutterStep == ASSUME IInv, UNCHANGED vars PROVE StepIsSound
BY DEF IInv, vars, StepIsSound, CommitsKeys, SavesPartners

LEMMA SpecIInv == Spec => []IInv
<1>1. IInv /\ [Next]_vars => IInv'
  BY NextStep, StutterStep DEF StepIsSound
<1> QED BY InitIInv, <1>1, PTL DEF Spec

\* The state of the link keeps its type: init_index within the commands there are,
\* the retries within their bound, every address one that is known or none.
THEOREM TypeCorrect == Spec => []TypeOK
<1>1. IInv => TypeOK
  BY TypedIsRuntime DEF IInv, Sound, Base, TypeOK
<1> QED BY SpecIInv, <1>1, PTL

\* A set-up always waits for something that comes or times out, and output is
\* blocked only while BTstack has a write of it: no answer that is late, repeated,
\* garbled or refused leaves a link behind on which nothing more would happen.
THEOREM WaitsStayAnswered == Spec => []WaitsAreAnswered
<1>1. IInv => TypeOK
  BY TypedIsRuntime DEF IInv, Sound, Base, TypeOK
<1>2. IInv => SetUpIsDriven
  BY KindOf, FieldNames
     DEF IInv, Sound, Base, Typed, Stages, SetUp, Waits, Staying, SetUpIsDriven
<1>3. IInv => RumbleIsAnswered
  BY DEF IInv, Sound, Base, Unlinked, Turns, SetUp, Waits, Staying, RumbleIsAnswered
<1>4. IInv => WaitsAreAnswered
  BY <1>1, <1>2, <1>3 DEF WaitsAreAnswered
<1> QED BY SpecIInv, <1>4, PTL

\* A bridge that was told to keep quiet neither scans nor connects, and takes down
\* the link it has, although an attempt that was cancelled may still succeed.
THEOREM QuietStays == Spec => []QuietWhenTold
<1>1. IInv => QuietWhenTold
  BY DEF IInv, Sound, Base, Aims, SetUp, Staying, QuietWhenTold
<1> QED BY SpecIInv, <1>1, PTL

\* Handle, address and key belong to one and the same controller, from the attempt
\* to the input, whichever completions, losses and commands come in between.
THEOREM OneController == Spec => []LinkIsOneControllers
<1>1. IInv => LinksAreOwned
  BY DEF IInv, Sound, Base, Links, LinksAreOwned
<1>2. IInv => LinkIsCurrent
  BY DEF IInv, Sound, Base, Links, LinkIsCurrent
<1>3. IInv => ReadyIsKeyed
  BY DEF IInv, Sound, Base, Unlinked, Turns, SetUp, Keyed, Staying, ReadyIsKeyed
<1>4. IInv => LinkIsOneControllers
  BY <1>1, <1>2, <1>3 DEF LinkIsOneControllers
<1> QED BY SpecIInv, <1>4, PTL

\* A bond is erased before there is a new link, so that the erasure cannot hit one
\* that was made after it was asked for.
THEOREM EraseFirst == Spec => []EraseBeforeNewLink
<1>1. IInv => EraseBeforeNewLink
  BY DEF IInv, Sound, Base, Aims, SetUp, Staying, EraseBeforeNewLink
<1> QED BY SpecIInv, <1>1, PTL

\* Nothing is kept of a controller with which no pairing was completed: a key comes
\* into the database after all steps of pairing on this very link, and a target is
\* saved for a controller that has a key, on a link that stays.
THEOREM PartnersOnly == Spec => OnlyPartnersKept
<1>1. IInv /\ [Next]_vars => StepIsSound
  BY NextStep, StutterStep
<1>2. IInv /\ [Next]_vars => [\A p \in Peer : keys[p] = "none" => keys'[p] # "stale"]_vars
  BY <1>1 DEF StepIsSound, CommitsKeys
<1>3. IInv /\ [Next]_vars =>
         [ble'.saved_target \notin {ble.saved_target, NoPeer} =>
             /\ ble'.saved_target = ble.con_handle /\ ~ble.disconnect_pending
             /\ keys'[ble.con_handle] # "none"]_vars
  BY <1>1 DEF StepIsSound, SavesPartners, Staying
<1>4. Spec => KeyIsCommitted
  BY SpecIInv, <1>2, PTL DEF Spec, KeyIsCommitted
<1>5. Spec => OnlyPartnersSaved
  BY SpecIInv, <1>3, PTL DEF Spec, OnlyPartnersSaved
<1> QED BY <1>4, <1>5 DEF OnlyPartnersKept
=============================================================================
