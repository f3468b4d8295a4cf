------------------------------- MODULE Ns2Link -------------------------------
(***************************************************************************)
(* The Bluetooth LE link to a Switch 2 Pro controller                      *)
(* (src/src/ns2/ns2_ble.cpp), and the commands and resets by which         *)
(* main.cpp and bridge_connection_control.cpp drive it.                    *)
(*                                                                         *)
(* Each function of the source is an operator from the state it finds to   *)
(* the state it leaves, so that a command that makes several calls is      *)
(* their composition, and one step.  ble has the fields of BleRuntime, of  *)
(* the NS2 configuration and of its status that decide anything; deadlines *)
(* are reduced to "armed".  Fields bt_* are BTstack's.                     *)
(*                                                                         *)
(* DirectSaved and ManualScan, known_handle_due_ms and                     *)
(* pair_required_after_disconnect are never set in the source and absent   *)
(* here; security_required always goes with security_pending.              *)
(***************************************************************************)
EXTENDS Naturals, FiniteSets

CONSTANTS
    Peer,           \* controllers in range
    NoPeer,
    FinalizeIndex,  \* the initialization command replaced by pairing (3)
    InitCount,      \* ns2_gatt_init_command_count()
    MaxRetries,     \* MAX_GATT_DISCOVERY_RETRIES
    MaxServices,    \* services a controller may show
    Preferences,    \* whether the user ever prefers the DualSense
    AutoSettings    \* whether the user ever switches auto_connect off

ASSUME Ns2Assumption ==
    /\ NoPeer \notin Peer
    /\ FinalizeIndex \in Nat /\ InitCount \in Nat /\ FinalizeIndex < InitCount
    /\ MaxRetries \in Nat /\ MaxServices \in Nat
    /\ Preferences \subseteq BOOLEAN /\ AutoSettings \subseteq BOOLEAN

VARIABLES
    ble,
    keys,       \* per controller: no entry in the device database, the key the
                \* controller holds too, or one it no longer holds
    heard,      \* pairing steps the controller on the link has received
    tick_due    \* a command has been executed, and ns2_ble_tick comes next

vars == <<ble, keys, heard, tick_due>>

Modes == {"None", "ScanAuto", "PairingScan"}
Stages == {"Idle", "MtuExchange", "DiscoverServices", "DiscoverCharacteristics",
           "SubscribeAck", "Initializing", "SubscribeInput", "Ready"}

\* The states that some handler asks for; the others differ in display only.
States == {"Idle", "Backoff", "ConnectedNoNotify", "ConnectedLive", "Busy"}

Steps == {1, 4, 2, 3}   \* of vendor pairing, in this order
Garbled == 0            \* an answer that does not parse
InitAnswer == 5         \* the answer to an initialization command

Someone == Peer \cup {NoPeer}

Runtime ==
    [hci_ready : BOOLEAN, suspended : BOOLEAN, manually_disconnected : BOOLEAN,
     forget_addr : Someone,                 \* forget_bond_pending, and whose
     requested_mode : Modes, connect_mode : Modes,
     scanning : BOOLEAN, connecting : BOOLEAN, disconnect_pending : BOOLEAN,
     pending_addr : Someone,                \* with pending_connect_valid
     current_addr : Someone,                \* with current_addr_valid
     con_handle : Someone,                  \* the controller at the other end
     auto_start_due : BOOLEAN, next_retry : BOOLEAN,
     save_target_pending : BOOLEAN, saved_target_dirty : BOOLEAN,
     target_saved : BOOLEAN,                \* target_saved_this_connection
     gatt_stage : Stages, security_pending : BOOLEAN,
     mtu_exchange_due : BOOLEAN, mtu_exchange_pending : BOOLEAN,
     service_discovery_due : BOOLEAN, retries : 0 .. MaxRetries,
     services_left : 0 .. MaxServices,
     listening : SUBSET {"ack", "input"},   \* registered for notifications
     init_index : 0 .. InitCount, init_send_due : BOOLEAN, init_command_sent : BOOLEAN,
     pairing_required : BOOLEAN, pair_step : {0} \cup Steps, pair_waiting_ack : BOOLEAN,
     pair_save_pending : BOOLEAN,
     crypto : {"none", "random", "aes"},    \* pair_crypto_pending, and for what
     crypto_current : BOOLEAN,              \* pair_crypto_session = session
     rumble_write_pending : BOOLEAN,
     state : States,                        \* ns2_status_get_state
     auto_connect : BOOLEAN, saved_target : Someone,
     prefers_ds5 : BOOLEAN,                 \* bridge_runtime_preference() = 1
     attempt : BOOLEAN,                     \* bridge_runtime_connection_target() = 2
     bt_scanning : BOOLEAN, bt_connect : Someone,
     bt_links : SUBSET Peer, bt_closing : SUBSET Peer,
     bt_security : BOOLEAN, bt_query : {"none", "mtu", "query", "rumble"}]

-----------------------------------------------------------------------------
(* Setting up and taking down.                                             *)

Linked(b) == b.con_handle # NoPeer
Quiet(b) == b.suspended \/ b.manually_disconnected
Wanted(b) == b.auto_connect \/ b.requested_mode # "None"

ClearGattResults(b) ==
    [b EXCEPT !.listening = {}, !.rumble_write_pending = FALSE, !.security_pending = FALSE,
              !.mtu_exchange_pending = FALSE, !.mtu_exchange_due = FALSE,
              !.init_index = 0, !.init_command_sent = FALSE, !.init_send_due = FALSE,
              !.pair_waiting_ack = FALSE, !.pair_step = 0, !.pair_save_pending = FALSE]

ResetGattCache(b) ==
    [ClearGattResults(b) EXCEPT !.gatt_stage = "Idle", !.retries = 0,
                                !.service_discovery_due = FALSE]

\* It does not tell BTstack to stop scanning.
EnterBackoff(b) ==
    [ResetGattCache(b) EXCEPT
        !.next_retry = TRUE, !.scanning = FALSE, !.connecting = FALSE,
        !.pending_addr = NoPeer, !.current_addr = NoPeer, !.connect_mode = "None",
        !.state = "Backoff"]

\* if (ble.scanning) { gap_stop_scan(); ble.scanning = false; }
StopScan(b) ==
    IF b.scanning THEN [b EXCEPT !.scanning = FALSE, !.bt_scanning = FALSE] ELSE b

\* if (ble.connecting) { gap_connect_cancel(); ... }: it completes later.
StopConnect(b) == [b EXCEPT !.connecting = FALSE]

\* gap_disconnect
Closing(b) == [b EXCEPT !.bt_closing = @ \cup {b.con_handle}]

DisconnectAndBackoff(b) ==
    IF ~Linked(b) THEN EnterBackoff(b)
    ELSE IF b.disconnect_pending THEN b
    ELSE [Closing(b) EXCEPT
            !.disconnect_pending = TRUE, !.gatt_stage = "Idle", !.init_send_due = FALSE,
            !.init_command_sent = FALSE, !.pair_waiting_ack = FALSE,
            !.crypto_current = FALSE]       \* ++session

NoteHciReady(b) ==
    IF b.hci_ready THEN b
    ELSE [b EXCEPT !.hci_ready = TRUE, !.state = "Idle", !.auto_start_due = TRUE]

StartScanInternal(b, mode) ==
    IF ~b.hci_ready \/ Quiet(b) \/ b.connecting \/ Linked(b) THEN b
    ELSE [b EXCEPT !.scanning = TRUE, !.bt_scanning = TRUE, !.connect_mode = mode,
                   !.state = "Busy"]

StartAutoAttempt(b) ==
    IF Quiet(b) \/ ~Wanted(b) THEN [b EXCEPT !.state = "Idle"]
    ELSE StartScanInternal(b,
            IF b.requested_mode # "None" THEN b.requested_mode
            ELSE IF b.saved_target # NoPeer THEN "ScanAuto" ELSE "PairingScan")

\* "taken": gap_connect returned success.
StartConnect(b, p, mode, taken) ==
    LET c == [ResetGattCache(StopScan(b)) EXCEPT
                !.pending_addr = p, !.current_addr = NoPeer, !.target_saved = FALSE,
                !.connect_mode = mode, !.connecting = TRUE, !.state = "Busy"]
    IN  IF ~b.hci_ready \/ Quiet(b) \/ b.connecting \/ Linked(b) THEN b
        ELSE IF taken THEN [c EXCEPT !.bt_connect = p] ELSE EnterBackoff(c)

ScheduleMtuExchange(b) ==
    [ClearGattResults(b) EXCEPT !.gatt_stage = "MtuExchange", !.mtu_exchange_due = TRUE,
                                !.state = "Busy"]

\* BTstack ignores the request while an operation of this link is under way.
StartMtuExchange(b) ==
    [ClearGattResults(b) EXCEPT
        !.gatt_stage = "MtuExchange", !.mtu_exchange_pending = TRUE, !.state = "Busy",
        !.bt_query = IF @ = "none" THEN "mtu" ELSE @]

\* Mutant of RetryServiceDiscovery: the retries are not counted.
RetryServiceDiscoveryForever(b) ==
    [ClearGattResults(b) EXCEPT !.gatt_stage = "DiscoverServices", !.state = "Busy",
                                !.service_discovery_due = TRUE]

RetryServiceDiscovery(b) ==
    IF b.retries < MaxRetries
    THEN [ClearGattResults(b) EXCEPT !.gatt_stage = "DiscoverServices", !.state = "Busy",
                                     !.service_discovery_due = TRUE, !.retries = @ + 1]
    ELSE DisconnectAndBackoff(b)

\* "ok", here and below: BTstack takes the operation.
StartServiceDiscovery(b, ok) ==
    LET c == [ClearGattResults(b) EXCEPT !.gatt_stage = "DiscoverServices",
                                         !.service_discovery_due = FALSE, !.state = "Busy"]
    IN  IF ok THEN [c EXCEPT !.bt_query = "query"] ELSE RetryServiceDiscovery(c)

\* subscribe_next for a role of which the controller shows one characteristic;
\* without one, or refused, the caller gives the link up.
SubscribeNext(b, role, ok) ==
    IF ok THEN [b EXCEPT !.listening = @ \cup {role}, !.bt_query = "query"]
    ELSE DisconnectAndBackoff(b)

DiscoverNextServiceCharacteristics(b, ok) ==
    IF b.services_left > 0
    THEN [b EXCEPT !.gatt_stage = "DiscoverCharacteristics", !.bt_query = "query",
                   !.services_left = @ - 1]
    ELSE SubscribeNext([b EXCEPT !.gatt_stage = "SubscribeAck", !.state = "Busy"], "ack", ok)

StartInputSubscriptions(b, ok) ==
    SubscribeNext([b EXCEPT !.gatt_stage = "SubscribeInput", !.state = "Busy"], "input", ok)

\* "ok": the controller has a command characteristic.
StartControllerInit(b, ok) ==
    IF ok THEN [b EXCEPT !.gatt_stage = "Initializing", !.init_index = 0,
                         !.init_send_due = TRUE]
    ELSE DisconnectAndBackoff(b)

-----------------------------------------------------------------------------
(* Vendor pairing and initialization.                                      *)

\* "ok": the write is taken, and the controller receives it.
SendPairingStep(b, ok) ==
    IF ok THEN [b EXCEPT !.pair_waiting_ack = TRUE] ELSE DisconnectAndBackoff(b)

PairingIsNext(b) == b.init_index = FinalizeIndex /\ b.pairing_required

SendCurrentInitCommand(b, ok) ==
    LET skipped == IF b.init_index = FinalizeIndex THEN b.init_index + 1 ELSE b.init_index
        c == [b EXCEPT !.init_index = skipped]
    IN  IF PairingIsNext(b)
        THEN IF b.crypto = "none"
             THEN [b EXCEPT !.crypto = "random", !.crypto_current = TRUE] ELSE b
        ELSE IF skipped = InitCount THEN StartInputSubscriptions(c, ok)
        ELSE IF ok THEN [c EXCEPT !.init_command_sent = TRUE, !.state = "Busy"]
        ELSE DisconnectAndBackoff(c)

\* pair_random_ready and pair_aes_ready; "equal": the answer to the challenge is right.
CryptoReady(b, equal) ==
    LET c == [b EXCEPT !.crypto = "none"]
    IN  IF ~b.crypto_current \/ ~Linked(b) THEN c
        ELSE IF b.crypto = "random" THEN [c EXCEPT !.pair_step = 1, !.init_send_due = TRUE]
        ELSE IF equal THEN [c EXCEPT !.pair_step = 3, !.init_send_due = TRUE]
        ELSE DisconnectAndBackoff(c)

HandlePairingAck(b, step) ==
    LET c == [b EXCEPT !.pair_waiting_ack = FALSE]
    IN  IF ~b.pair_waiting_ack THEN b
        ELSE IF step # b.pair_step THEN DisconnectAndBackoff(b)
        ELSE CASE step = 1 -> [c EXCEPT !.pair_step = 4, !.init_send_due = TRUE]
               [] step = 4 -> [c EXCEPT !.pair_step = 2, !.init_send_due = TRUE]
               [] step = 2 -> [c EXCEPT !.crypto = "aes", !.crypto_current = TRUE]
               [] step = 3 -> [c EXCEPT !.pair_save_pending = TRUE]

\* handle_notification from the ACK characteristic.
HandleAck(b, step) ==
    IF b.disconnect_pending \/ Quiet(b) THEN b
    ELSE IF b.pair_step # 0 THEN HandlePairingAck(b, step)
    ELSE IF step = InitAnswer /\ b.gatt_stage = "Initializing" /\ b.init_command_sent
    THEN [b EXCEPT !.init_command_sent = FALSE, !.init_index = @ + 1, !.init_send_due = TRUE]
    ELSE b

\* handle_notification from an input characteristic.
HandleInput(b) ==
    IF b.disconnect_pending \/ Quiet(b) THEN b
    ELSE [b EXCEPT !.save_target_pending = TRUE, !.state = "ConnectedLive"]

\* "ok": the settings reach flash.
SaveCurrentTargetIfLive(b, ok) ==
    IF b.current_addr = NoPeer \/ b.target_saved THEN b
    ELSE IF b.saved_target = b.current_addr /\ ~b.saved_target_dirty
    THEN [b EXCEPT !.target_saved = TRUE]
    ELSE [b EXCEPT !.saved_target = b.current_addr, !.saved_target_dirty = ~ok,
                   !.save_target_pending = ~ok, !.target_saved = ok]

HandleGattQueryComplete(b, success, ok) ==
    IF ~success
    THEN IF b.gatt_stage = "DiscoverServices" THEN RetryServiceDiscovery(b)
         ELSE DisconnectAndBackoff(b)
    ELSE CASE b.gatt_stage \in {"DiscoverServices", "DiscoverCharacteristics"} ->
                DiscoverNextServiceCharacteristics(b, ok)
           [] b.gatt_stage = "SubscribeAck" -> StartControllerInit(b, ok)
           [] b.gatt_stage = "SubscribeInput" ->
                [b EXCEPT !.gatt_stage = "Ready", !.state = "ConnectedNoNotify"]
           [] OTHER -> b

-----------------------------------------------------------------------------
(* Events of BTstack.  They are polled, and the main loop has been round,  *)
(* and through ns2_ble_tick, since the last command.                       *)

Polled == ~tick_due /\ UNCHANGED tick_due

HciWorking == Polled /\ UNCHANGED <<keys, heard>> /\ ble' = NoteHciReady(ble)

\* handle_advertising_report.  "pairing": the controller is in sync mode and
\* strong enough.  gap_connect is refused while another attempt, or a link to
\* the same controller, is still there.
Advertisement(p, pairing) ==
    LET saved == ble.saved_target = p
        mode == IF saved /\ pairing THEN "PairingScan" ELSE ble.connect_mode
    IN  /\ Polled /\ UNCHANGED <<keys, heard>>
        /\ ble.bt_scanning /\ ble.scanning
        /\ IF ble.connect_mode = "PairingScan" THEN pairing ELSE saved
        /\ \E taken \in BOOLEAN :
              /\ taken => ble.bt_connect = NoPeer /\ p \notin ble.bt_links
              /\ ble' = StartConnect(ble, p, mode, taken)

\* on_connected.  A saved controller is encrypted with its key before use.
OnConnected(b) ==
    LET c == [b EXCEPT
                !.disconnect_pending = FALSE, !.connecting = FALSE, !.scanning = FALSE,
                !.pending_addr = NoPeer, !.current_addr = b.pending_addr,
                !.crypto_current = FALSE,       \* ++session
                !.pairing_required = (b.connect_mode = "PairingScan"),
                !.next_retry = FALSE]
    IN  IF c.pairing_required \/ c.saved_target # c.current_addr
        THEN ScheduleMtuExchange(c)
        ELSE IF keys[c.current_addr] = "none" THEN DisconnectAndBackoff(c)
        ELSE [c EXCEPT !.security_pending = TRUE, !.bt_security = TRUE]

\* Mutant of Unwanted: an attempt that was cancelled is not remembered as such.
UnwantedUnlessPending(b) == Quiet(b) \/ Linked(b)

Unwanted(b) == Quiet(b) \/ b.pending_addr = NoPeer \/ Linked(b)

\* gap_disconnect(handle)
Refused(b, p) == [b EXCEPT !.bt_closing = @ \cup {p}]

\* GAP_SUBEVENT_LE_CONNECTION_COMPLETE; a cancelled attempt may still succeed.
Connected ==
    LET p == ble.bt_connect
        b == [ble EXCEPT !.bt_connect = NoPeer, !.bt_links = @ \cup {p}]
    IN  /\ Polled /\ UNCHANGED keys
        /\ p # NoPeer
        /\ ble' = IF Unwanted(b) THEN Refused(b, p)
                  ELSE OnConnected([b EXCEPT !.con_handle = p])
        /\ heard' = IF ble'.con_handle = ble.con_handle THEN heard ELSE {}

OnConnectionFailed(b) ==
    LET c == [b EXCEPT !.connecting = FALSE, !.pending_addr = NoPeer]
    IN  IF Quiet(b) \/ ~Wanted(b) THEN [ResetGattCache(c) EXCEPT !.state = "Idle"]
        ELSE EnterBackoff(c)

ConnectionFailed ==
    /\ Polled /\ UNCHANGED <<keys, heard>>
    /\ ble.bt_connect # NoPeer
    /\ ble' = OnConnectionFailed([ble EXCEPT !.bt_connect = NoPeer])

\* Mutant of OnDisconnected: input of the old link still saves its successor.
OnDisconnectedStillSaving(b) ==
    LET c == [b EXCEPT
                !.con_handle = NoPeer, !.disconnect_pending = FALSE, !.connecting = FALSE,
                !.scanning = FALSE, !.current_addr = NoPeer, !.security_pending = FALSE,
                !.bt_security = FALSE, !.bt_query = "none"]
    IN  IF Quiet(b) \/ ~Wanted(b) THEN [ResetGattCache(c) EXCEPT !.state = "Idle"]
        ELSE EnterBackoff(c)

OnDisconnected(b) ==
    LET c == [b EXCEPT
                !.con_handle = NoPeer, !.disconnect_pending = FALSE, !.connecting = FALSE,
                !.scanning = FALSE, !.current_addr = NoPeer, !.security_pending = FALSE,
                !.save_target_pending = FALSE, !.bt_security = FALSE, !.bt_query = "none"]
    IN  IF Quiet(b) \/ ~Wanted(b) THEN [ResetGattCache(c) EXCEPT !.state = "Idle"]
        ELSE EnterBackoff(c)

\* HCI_EVENT_DISCONNECTION_COMPLETE, asked for or not.
Disconnected(p) ==
    LET b == [ble EXCEPT !.bt_links = @ \ {p}, !.bt_closing = @ \ {p}]
    IN  /\ Polled /\ UNCHANGED keys
        /\ p \in ble.bt_links
        /\ ble' = IF p = ble.con_handle THEN OnDisconnected(b) ELSE b
        /\ heard' = IF p = ble.con_handle THEN {} ELSE heard

\* SM_EVENT_REENCRYPTION_COMPLETE, or SM_EVENT_PAIRING_COMPLETE in its place.
SecurityComplete(success) ==
    LET b == [ble EXCEPT !.bt_security = FALSE]
        c == [b EXCEPT !.security_pending = FALSE]
    IN  /\ Polled /\ UNCHANGED <<keys, heard>>
        /\ ble.bt_security
        /\ success => keys[ble.con_handle] = "shared"
        /\ ble' = IF ~success THEN DisconnectAndBackoff(c)
                  ELSE IF b.security_pending THEN ScheduleMtuExchange(c) ELSE b

\* GATT_EVENT_MTU; one that comes too late is ignored.
MtuExchanged ==
    LET b == [ble EXCEPT !.bt_query = "none"]
    IN  /\ Polled /\ UNCHANGED <<keys, heard>>
        /\ ble.bt_query = "mtu"
        /\ \E ok \in BOOLEAN :
              ble' = IF b.gatt_stage = "MtuExchange"
                     THEN StartServiceDiscovery([b EXCEPT !.mtu_exchange_pending = FALSE], ok)
                     ELSE b

\* GATT_EVENT_QUERY_COMPLETE, with the results of a query that came before it.
QueryComplete(success) ==
    LET b == [ble EXCEPT !.bt_query = "none"]
    IN  /\ Polled /\ UNCHANGED <<keys, heard>>
        /\ ble.bt_query \in {"query", "rumble"}
        /\ \E ok \in BOOLEAN, n \in 0 .. MaxServices :
              LET c == IF b.gatt_stage = "DiscoverServices"
                       THEN [b EXCEPT !.services_left = n] ELSE b
              IN  ble' = IF b.rumble_write_pending /\ b.gatt_stage = "Ready"
                         THEN [b EXCEPT !.rumble_write_pending = FALSE]
                         ELSE HandleGattQueryComplete(c, success, ok)

\* An initialization or pairing command written with response has failed.
CommandRefused ==
    /\ Polled /\ UNCHANGED <<keys, heard>>
    /\ Linked(ble) /\ ble.gatt_stage = "Initializing"
    /\ ble.init_command_sent \/ ble.pair_waiting_ack
    /\ ble' = DisconnectAndBackoff(ble)

\* The controller answers what it has received, late, twice or wrongly.
AckNotification(step) ==
    /\ Polled /\ UNCHANGED <<keys, heard>>
    /\ Linked(ble) /\ "ack" \in ble.listening
    /\ step \in Steps => step \in heard
    /\ ble' = HandleAck(ble, step)

InputNotification ==
    /\ Polled /\ UNCHANGED <<keys, heard>>
    /\ Linked(ble) /\ "input" \in ble.listening
    /\ ble' = HandleInput(ble)

CryptoCallback ==
    /\ Polled /\ UNCHANGED <<keys, heard>>
    /\ ble.crypto # "none"
    /\ \E equal \in BOOLEAN : ble' = CryptoReady(ble, equal)

\* The controller is paired with another host.
KeyLost(p) ==
    /\ keys[p] = "shared"
    /\ keys' = [keys EXCEPT ![p] = "stale"]
    /\ UNCHANGED <<ble, heard, tick_due>>

\* ns2_ble_send_rumble; a write without response leaves nothing behind.
SendRumble ==
    /\ Linked(ble) /\ ble.gatt_stage = "Ready" /\ ~ble.rumble_write_pending
    /\ ble.bt_query = "none"
    /\ ble' = [ble EXCEPT !.rumble_write_pending = TRUE, !.bt_query = "rumble"]
    /\ UNCHANGED <<keys, heard, tick_due>>

-----------------------------------------------------------------------------
(* ns2_ble_tick.  A tick erases and saves what is pending, then looks at   *)
(* the deadlines; one that finds several passed does what as many ticks do *)
(* that find one each.                                                     *)

Timers == {"none", "send", "pair", "start", "retry", "mtu", "mtu_late", "discover", "security",
           "watchdog", "init", "notify"}

EarlyReturn(b) == Quiet(b) \/ b.disconnect_pending

\* Mutant of MayErase: erasing waits until the bridge is idle.
MayEraseWhenIdle == ble.forget_addr # NoPeer /\ ~Linked(ble) /\ ble.state = "Idle"

\* A bond is erased once the link it may belong to is gone.
MayErase == ble.forget_addr # NoPeer /\ ~Linked(ble) /\ ~ble.connecting

TickErase == IF MayErase THEN [ble EXCEPT !.forget_addr = NoPeer] ELSE ble

TickSaveTarget(b, saved) ==
    LET c == SaveCurrentTargetIfLive([b EXCEPT !.save_target_pending = FALSE], saved)
    IN  IF ~b.save_target_pending \/ ~Linked(b) THEN b
        ELSE IF c.target_saved THEN [c EXCEPT !.requested_mode = "None"] ELSE c

\* "stored": persist_pairing succeeds.
TickSavePairing(b, stored, saved) ==
    LET c == [b EXCEPT !.pair_save_pending = FALSE]
        d == SaveCurrentTargetIfLive([c EXCEPT !.pairing_required = FALSE, !.pair_step = 0,
                                               !.requested_mode = "None"], saved)
    IN  IF ~b.pair_save_pending \/ ~Linked(b) THEN b
        ELSE IF ~stored THEN DisconnectAndBackoff(c)
        ELSE [d EXCEPT !.init_index = FinalizeIndex + 1, !.init_send_due = TRUE]

TickSaves(saved, stored) ==
    IF EarlyReturn(TickErase) THEN TickErase
    ELSE TickSavePairing(TickSaveTarget(TickErase, saved), stored, saved)

\* The delays before a new attempt outlast the cancelling of the last one.
Drained(b) == b.bt_connect = NoPeer

\* Mutant of MaySend: a crypto request of an old session is not waited for.
MaySendAlways(b) == b.gatt_stage = "Initializing" /\ b.init_send_due

MaySend(b) == b.gatt_stage = "Initializing" /\ b.init_send_due /\ b.crypto = "none"

Due(b, d) ==
    CASE d = "none" -> TRUE
      [] d = "send" -> Linked(b) /\ MaySend(b)
      [] d = "pair" -> Linked(b) /\ (b.pair_waiting_ack \/ (b.crypto # "none" /\ b.crypto_current))
      [] d = "start" -> b.hci_ready /\ Wanted(b) /\ b.auto_start_due /\ b.state = "Idle"
                        /\ Drained(b)
      [] d = "retry" -> b.state = "Backoff" /\ Wanted(b) /\ b.next_retry /\ Drained(b)
      [] d = "mtu" -> Linked(b) /\ b.mtu_exchange_due
      [] d = "mtu_late" -> Linked(b) /\ b.mtu_exchange_pending
      [] d = "discover" -> Linked(b) /\ b.service_discovery_due
      [] d = "security" -> Linked(b) /\ b.security_pending
      [] d = "watchdog" -> b.connecting
      [] d = "init" -> b.gatt_stage = "Initializing" /\ b.init_command_sent
      [] d = "notify" -> b.state \in {"ConnectedNoNotify", "ConnectedLive"}

TickSend(b, ok) ==
    LET c == [b EXCEPT !.init_send_due = FALSE]
    IN  IF b.pair_step # 0 THEN SendPairingStep(c, ok) ELSE SendCurrentInitCommand(c, ok)

OnDue(b, d, ok) ==
    CASE d = "none" -> b
      [] d = "send" -> TickSend(b, ok)
      [] d = "start" -> StartAutoAttempt([b EXCEPT !.auto_start_due = FALSE])
      [] d = "retry" -> StartAutoAttempt(b)
      [] d = "mtu" -> StartMtuExchange([b EXCEPT !.mtu_exchange_due = FALSE])
      [] d = "mtu_late" -> StartServiceDiscovery([b EXCEPT !.mtu_exchange_pending = FALSE], ok)
      [] d = "discover" -> StartServiceDiscovery(b, ok)
      [] d = "security" -> DisconnectAndBackoff([b EXCEPT !.security_pending = FALSE])
      [] d = "watchdog" -> EnterBackoff(StopConnect(b))
      [] d \in {"pair", "init", "notify"} -> DisconnectAndBackoff(b)

\* What a tick does to the keys: an erasure, a key stored for the current
\* address, or one that the controller commits to with the last pairing step.
KeysAfterTick(b, stored, committed) ==
    LET stores == ble.pair_save_pending /\ Linked(ble) /\ ~EarlyReturn(ble) /\ stored
    IN  [p \in Peer |->
            IF MayErase /\ p = ble.forget_addr THEN "none"
            ELSE IF stores /\ p = ble.current_addr
            THEN IF heard = Steps /\ p = ble.con_handle THEN "shared" ELSE "stale"
            ELSE IF committed /\ p = b.con_handle /\ keys[p] = "shared" THEN "stale"
            ELSE keys[p]]

\* What BTstack or flash may answer, where the tick asks at all.
Answers(asked) == IF asked THEN BOOLEAN ELSE {TRUE}

\* A tick that looks at these deadlines, and finds one passed.
Tick(deadlines) ==
    /\ tick_due' = FALSE
    /\ \E saved \in Answers(ble.save_target_pending \/ ble.pair_save_pending),
          stored \in Answers(ble.pair_save_pending) :
         LET b == TickSaves(saved, stored)
         IN  \E d \in IF EarlyReturn(b) THEN deadlines \cap {"none"} ELSE {t \in deadlines : Due(b, t)} :
             \E ok \in Answers(d \in {"send", "mtu_late", "discover"}) :
                LET sent == IF d = "send" /\ ok THEN {b.pair_step} \cap Steps ELSE {}
                IN  /\ d \in {"mtu_late", "discover"} /\ ok => b.bt_query = "none"
                    /\ heard' = heard \cup sent
                    /\ keys' = KeysAfterTick(b, stored, 3 \in sent)
                    /\ ble' = OnDue(b, d, ok)

-----------------------------------------------------------------------------
(* The functions that others call.                                         *)

\* Mutant of StandDown: an attempt goes on.
StandDownButConnect(b) ==
    StopScan([b EXCEPT !.auto_start_due = FALSE, !.next_retry = FALSE,
                       !.pending_addr = NoPeer])

\* What ns2_ble_disconnect, _suspend_auto and _cancel_manual_request begin with.
StandDown(b) ==
    StopConnect(StopScan([b EXCEPT !.auto_start_due = FALSE, !.next_retry = FALSE,
                                   !.pending_addr = NoPeer]))

Ns2BlePair(b) ==
    LET c == StopScan([b EXCEPT !.manually_disconnected = FALSE, !.suspended = FALSE,
                                !.requested_mode = "PairingScan"])
    IN  IF c.connecting THEN EnterBackoff(StopConnect(c))
        ELSE IF Linked(c) THEN DisconnectAndBackoff(c)
        ELSE StartScanInternal([c EXCEPT !.next_retry = FALSE], "PairingScan")

Ns2BleReconnect(b) ==
    LET c == [b EXCEPT !.manually_disconnected = FALSE, !.suspended = FALSE,
                       !.requested_mode = "ScanAuto"]
        d == StopScan(c)
    IN  IF c.saved_target = NoPeer THEN [c EXCEPT !.requested_mode = "None"]
        ELSE IF Linked(d) THEN DisconnectAndBackoff(d)
        ELSE IF d.connecting THEN EnterBackoff(StopConnect(d))
        ELSE StartAutoAttempt([d EXCEPT !.next_retry = FALSE, !.state = "Idle"])

Ns2BleDisconnect(b) ==
    LET c == StandDown([b EXCEPT !.manually_disconnected = TRUE, !.requested_mode = "None",
                                 !.save_target_pending = FALSE])
    IN  IF Linked(c) THEN DisconnectAndBackoff(c) ELSE [c EXCEPT !.state = "Idle"]

Ns2BleSuspendAuto(b) ==
    LET c == StandDown([b EXCEPT !.suspended = TRUE, !.save_target_pending = FALSE])
    IN  IF Linked(c) THEN DisconnectAndBackoff(c) ELSE [c EXCEPT !.state = "Idle"]

Ns2BleResumeAuto(b, user_requested) ==
    LET c == [b EXCEPT !.suspended = FALSE,
                       !.manually_disconnected = @ /\ ~user_requested]
    IN  IF Linked(c) \/ c.connecting \/ c.scanning THEN c
        ELSE [c EXCEPT !.state = "Idle",
                       !.auto_start_due = @ \/ (c.auto_connect /\ ~c.manually_disconnected)]

Ns2BleCancelManualRequest(b) ==
    LET c == [b EXCEPT !.requested_mode = "None"]
        d == StandDown(c)
    IN  IF b.requested_mode = "None" \/ (Linked(b) /\ b.state = "ConnectedLive") THEN c
        ELSE IF Linked(d) THEN DisconnectAndBackoff(d)
        ELSE IF d.auto_connect /\ ~Quiet(d) THEN EnterBackoff(d)
        ELSE [ResetGattCache(d) EXCEPT !.state = "Idle"]

Ns2BleForget(b) ==
    LET c == Ns2BleDisconnect(b)
    IN  [c EXCEPT !.forget_addr = IF c.saved_target # NoPeer THEN c.saved_target ELSE @,
                  !.saved_target = NoPeer]

Ns2BleSetAutoConnect(b, enabled) ==
    LET c == [b EXCEPT !.auto_connect = enabled, !.requested_mode = "None"]
        d == StandDown(c)
    IN  IF enabled THEN [c EXCEPT !.manually_disconnected = FALSE, !.auto_start_due = TRUE]
        ELSE IF Linked(d) THEN d ELSE [d EXCEPT !.state = "Idle"]

-----------------------------------------------------------------------------
(* Those who call them: main.cpp and bridge_connection_control.cpp.        *)

BridgeConnectionApply(b, user_requested) ==
    IF b.prefers_ds5 /\ ~b.attempt THEN Ns2BleSuspendAuto(b)
    ELSE Ns2BleResumeAuto(b, user_requested)

BridgeConnectionReset(b) ==
    BridgeConnectionApply([Ns2BleCancelManualRequest(b) EXCEPT !.attempt = FALSE], FALSE)

BeginManualConnection(b) ==
    BridgeConnectionApply([BridgeConnectionReset(b) EXCEPT !.attempt = TRUE], FALSE)

\* A command: the tick comes before anything is polled.
Command(b) == ble' = b /\ tick_due' = TRUE /\ UNCHANGED <<keys, heard>>

PairCommand == Command(Ns2BlePair(BeginManualConnection(ble)))

ReconnectCommand == Command(Ns2BleReconnect(BeginManualConnection(ble)))

\* "selected": bridge_connection_source_selected(2), at least during an attempt.
DisconnectCommand(selected) ==
    LET b == Ns2BleDisconnect(ble)
    IN  /\ ble.attempt => selected
        /\ Command(IF selected THEN BridgeConnectionReset(b) ELSE b)

ForgetCommand(selected) ==
    LET b == Ns2BleForget(ble)
    IN  /\ ble.attempt => selected
        /\ Command(IF selected THEN BridgeConnectionReset(b) ELSE b)

AutoCommand(enabled) == Command(Ns2BleSetAutoConnect(ble, enabled))

\* ds5 pair, ds5 reconnect: an attempt for the other controller.
Ds5Command == Command(Ns2BleSuspendAuto(BridgeConnectionReset(ble)))

\* input set
SourceCommand(ds5) ==
    LET b == [ble EXCEPT !.prefers_ds5 = ds5, !.attempt = FALSE]
    IN  Command(BridgeConnectionApply(BridgeConnectionReset(b), TRUE))

\* settings reset: the saved controller stays.
ResetCommand ==
    LET b == [ble EXCEPT !.auto_connect = TRUE, !.prefers_ds5 = FALSE, !.attempt = FALSE]
    IN  Command(BridgeConnectionApply(BridgeConnectionReset(b), TRUE))

\* apply_profile_lock_actions, the DualSense being first.
LockDs5 == ~ble.attempt /\ Command(Ns2BleSuspendAuto(ble))

\* auto_session_tick, after ns2_ble_tick: the link in use is gone, or the
\* attempt has taken its 60 seconds.
SessionEnds ==
    /\ ~tick_due
    /\ ble' = BridgeConnectionReset(ble)
    /\ UNCHANGED <<keys, heard, tick_due>>

-----------------------------------------------------------------------------
\* ns2_ble_init_common.
Booted(saved, auto, ds5) ==
    [hci_ready |-> FALSE, suspended |-> FALSE, manually_disconnected |-> FALSE,
     forget_addr |-> NoPeer, requested_mode |-> "None", connect_mode |-> "None",
     scanning |-> FALSE, connecting |-> FALSE, disconnect_pending |-> FALSE,
     pending_addr |-> NoPeer, current_addr |-> NoPeer, con_handle |-> NoPeer,
     auto_start_due |-> FALSE, next_retry |-> FALSE, save_target_pending |-> FALSE,
     saved_target_dirty |-> FALSE, target_saved |-> FALSE, gatt_stage |-> "Idle",
     security_pending |-> FALSE, mtu_exchange_due |-> FALSE, mtu_exchange_pending |-> FALSE,
     service_discovery_due |-> FALSE, retries |-> 0, services_left |-> 0,
     listening |-> {}, init_index |-> 0, init_send_due |-> FALSE,
     init_command_sent |-> FALSE, pairing_required |-> FALSE, pair_step |-> 0,
     pair_waiting_ack |-> FALSE, pair_save_pending |-> FALSE,
     crypto |-> "none", crypto_current |-> FALSE, rumble_write_pending |-> FALSE,
     state |-> "Busy", auto_connect |-> auto, saved_target |-> saved,
     prefers_ds5 |-> ds5, attempt |-> FALSE,
     bt_scanning |-> FALSE, bt_connect |-> NoPeer, bt_links |-> {},
     bt_closing |-> {}, bt_security |-> FALSE, bt_query |-> "none"]

\* main applies the preference once before its loop.
Init ==
    /\ \E saved \in Someone, auto \in AutoSettings, ds5 \in Preferences :
          ble = BridgeConnectionApply(Booted(saved, auto, ds5), FALSE)
    /\ keys \in [Peer -> {"none", "shared", "stale"}]
    /\ heard = {} /\ tick_due = FALSE

Event ==
    \/ HciWorking \/ Connected \/ ConnectionFailed \/ MtuExchanged \/ CommandRefused
    \/ InputNotification \/ CryptoCallback \/ SendRumble
    \/ \E p \in Peer : Disconnected(p) \/ KeyLost(p)
    \/ \E p \in Peer, pairing \in BOOLEAN : Advertisement(p, pairing)
    \/ \E success \in BOOLEAN : SecurityComplete(success) \/ QueryComplete(success)
    \/ \E step \in Steps \cup {Garbled, InitAnswer} : AckNotification(step)

Called ==
    \/ PairCommand \/ ReconnectCommand \/ Ds5Command \/ ResetCommand \/ LockDs5 \/ SessionEnds
    \/ \E selected \in BOOLEAN : DisconnectCommand(selected) \/ ForgetCommand(selected)
    \/ \E enabled \in AutoSettings : AutoCommand(enabled)
    \/ \E ds5 \in Preferences : SourceCommand(ds5)

Next == Event \/ Called \/ Tick(Timers)

Spec == Init /\ [][Next]_vars

\* The main loop ticks for ever and polls each time round, between commands too;
\* BTstack completes what it was asked for, an attempt once it is cancelled, and
\* an attempt of the user is given up after its time.  A controller need not do
\* or answer anything.
Answer ==
    \/ ~ble.connecting /\ (Connected \/ ConnectionFailed)
    \/ \E p \in ble.bt_closing : Disconnected(p)
    \/ \E success \in BOOLEAN : QueryComplete(success)
    \/ CryptoCallback

Fairness ==
    /\ WF_vars(Tick({"none"})) /\ WF_vars(Tick(Timers \ {"none"}))
    /\ SF_vars(Answer)
    /\ SF_vars(ble.attempt /\ ~Linked(ble) /\ SessionEnds)

FairSpec == Spec /\ Fairness

-----------------------------------------------------------------------------
(* Properties.                                                             *)

\* Every variable keeps its type.
TypeOK ==
    /\ ble \in Runtime
    /\ keys \in [Peer -> {"none", "shared", "stale"}]
    /\ heard \subseteq Steps
    /\ tick_due \in BOOLEAN

\* Every link of the radio is the one in con_handle or is being taken down, and
\* the one in con_handle exists (the completion handlers of HCI).
LinksAreOwned ==
    /\ ble.bt_links \subseteq ble.bt_closing \cup {ble.con_handle}
    /\ Linked(ble) => ble.con_handle \in ble.bt_links

\* The address that keys are looked up and stored under, and that is saved as
\* the target, is the address of the controller on the link, although the
\* completion of a connection is not compared with what was asked for.
LinkIsCurrent ==
    /\ Linked(ble) => ble.current_addr = ble.con_handle
    /\ ble.connecting => ble.pending_addr = ble.bt_connect /\ ~Linked(ble)

\* Suspended or disconnected by the user, the bridge neither scans nor connects,
\* and a link that is left is being taken down.
QuietWhenTold ==
    Quiet(ble) => /\ ~ble.scanning /\ ~ble.connecting
                  /\ Linked(ble) => ble.disconnect_pending

\* A pending erasure (ns2_ble_forget) is carried out before there is a new link,
\* so that it cannot hit the bond of a controller paired again.
EraseBeforeNewLink ==
    ble.forget_addr # NoPeer => /\ Linked(ble) => ble.disconnect_pending
                                /\ ble.connecting => tick_due

\* A key that enters the database is one that the controller has committed to, by
\* all four steps of pairing on this very link (persist_pairing).
KeyIsCommitted == [][\A p \in Peer : keys[p] = "none" => keys'[p] # "stale"]_vars

\* Input is subscribed to only on a link whose controller has a key in the
\* database, from this link or an earlier one.
ReadyIsKeyed ==
    ble.gatt_stage \in {"SubscribeInput", "Ready"} => keys[ble.con_handle] # "none"

\* A link that is being set up always waits for something that comes or times
\* out: an answer of BTstack, a deadline of the tick, a crypto callback.
SetUpIsDriven ==
    Linked(ble) /\ ~ble.disconnect_pending /\ ble.gatt_stage # "Ready" =>
        \/ ble.security_pending \/ ble.mtu_exchange_due \/ ble.mtu_exchange_pending
        \/ ble.service_discovery_due \/ ble.bt_query = "query"
        \/ ble.gatt_stage = "Initializing" /\
               (ble.init_send_due \/ ble.init_command_sent \/ ble.pair_waiting_ack
                \/ (ble.crypto # "none" /\ ble.crypto_current) \/ ble.pair_save_pending)

\* A target is saved for the controller on a link that is staying, and that has
\* a key: not for one that is leaving, nor for one that was only seen.
OnlyPartnersSaved ==
    [][ble'.saved_target \notin {ble.saved_target, NoPeer} =>
          /\ ble'.saved_target = ble.con_handle /\ ~ble.disconnect_pending
          /\ keys'[ble.con_handle] # "none"]_vars

\* Output is blocked only while BTstack has a write of it.
RumbleIsAnswered ==
    ble.rumble_write_pending /\ ble.gatt_stage = "Ready" => ble.bt_query = "rumble"

\* Whatever is waited for, in set-up and after it, is typed and outstanding.
WaitsAreAnswered == TypeOK /\ SetUpIsDriven /\ RumbleIsAnswered

\* Address, handle and key are those of one and the same controller at every
\* moment from the attempt to the input.
LinkIsOneControllers == LinksAreOwned /\ LinkIsCurrent /\ ReadyIsKeyed

\* Nothing is kept of a controller with which no pairing was completed.
OnlyPartnersKept == KeyIsCommitted /\ OnlyPartnersSaved

\* A link is being set up or taken down.
Underway == Linked(ble) /\ ble.gatt_stage # "Ready"

\* A controller is wanted, and nothing is done about it.
Stranded ==
    /\ ble.hci_ready /\ Wanted(ble) /\ ~Quiet(ble)
    /\ ~ble.scanning /\ ~ble.connecting /\ ~Linked(ble)

\* Setting up a link, and taking it down, end, in input or in the loss of the
\* link; and a bridge that wants a controller, and has not been told to keep
\* quiet, comes to scan or connect, whatever cancelled, failed or timed out.
NeverStuck == []<>(~Underway /\ ~Stranded)

=============================================================================
