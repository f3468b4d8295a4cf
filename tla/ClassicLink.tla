----------------------------- MODULE ClassicLink -----------------------------
(***************************************************************************)
(* The Bluetooth Classic side of the bridge (src/src/bt.cpp): one          *)
(* DualSense at a time is found, paged or accepted, taken through ACL and  *)
(* two HID channels, and dropped again.  Commands of the manager, the      *)
(* periodic bt_tick and the callbacks of BTstack all run on core 0, each   *)
(* to its end, in an order nobody controls: one action per call.           *)
(*                                                                         *)
(* BTstack is external.  It is modelled by what bt.cpp asks of it (an      *)
(* ACL per peer, two channels, an inquiry, a link-key table) and by the    *)
(* events it may answer with.  Time is abstracted: a deadline that is      *)
(* armed may be found due, or not due yet, by any tick.                    *)
(***************************************************************************)
CONSTANTS
    Peer,       \* Bluetooth addresses of controllers
    NoPeer      \* the zeroed address / the invalid connection handle

ASSUME PeerAssumption == NoPeer \notin Peer

Channel == {"control", "interrupt"}     \* PSM_HID_CONTROL, PSM_HID_INTERRUPT

VARIABLES
    \* policy, written by the commands
    classic_enabled,            \* FALSE while the bridge serves the other radio
    reconnect_suppressed,       \* the user disconnected: stay away
    pairing_requested,
    active_reconnect_requested, \* page the saved peer instead of waiting for it
    forget_keys_pending,        \* erase the keys once no link uses them
    forget_pair_keys_pending,   \* ... and that erasure belongs to a pair request
    \* discovery
    inquiring, device_found,
    retry_due,                  \* retry_due_ms # 0
    saved_device,               \* saved_device_addr, NoPeer if not saved_device_valid
    current_device,             \* current_device_addr
    prune_keys_pending, stack_was_working,
    page_scan,                  \* last gap_connectable_control
    \* the link
    connecting, disconnect_pending,
    acl_handle,                 \* the peer whose handle is held, or NoPeer
    new_pair,                   \* this side opens the HID channels
    hid_cid,                    \* channels with a nonzero hid_*_cid
    chan_open,                  \* channels with *_open set
    session,                    \* active_send_epoch # 0
    full_input_seen,
    \* BTstack
    hci_working,                \* hci_get_state() = HCI_STATE_WORKING
    acl,                        \* state of the ACL to each peer
    chan,                       \* state of each HID channel of the link
    inquiry,                    \* an inquiry runs: INQUIRY_COMPLETE is owed
    keys,                       \* peers in the link-key table
    \* history
    explicit_forget             \* a bt_forget whose erasure has not happened

intentVars == <<pairing_requested, active_reconnect_requested>>
policyVars == <<classic_enabled, reconnect_suppressed, intentVars>>
forgetVars == <<forget_keys_pending, forget_pair_keys_pending, explicit_forget>>
findVars   == <<inquiring, device_found, retry_due>>
savedVars  == <<saved_device, current_device, prune_keys_pending,
                stack_was_working, page_scan, keys>>
dropVars   == <<session, disconnect_pending, acl>>
setupVars  == <<connecting, acl_handle, new_pair, hid_cid, chan_open,
                full_input_seen>>
radioVars  == <<hci_working, chan, inquiry>>
vars == <<policyVars, forgetVars, findVars, savedVars, dropVars, setupVars,
          radioVars>>

-----------------------------------------------------------------------------
(* What several handlers share.                                            *)

NoLink == acl_handle = NoPeer
Willing == classic_enabled /\ ~reconnect_suppressed
Governing == Willing /\ ~disconnect_pending

\* bt_classic_connected
Connected == Governing /\ ~NoLink /\ chan_open = Channel

\* gap_disconnect
HangUp(needed) ==
    acl' = IF needed THEN [acl EXCEPT ![acl_handle] = "closing"] ELSE acl

\* Mutants of DisconnectLink: pending although nothing is under way; the epoch
\* left set.
DisconnectLinkUnowned ==
    /\ session' = FALSE
    /\ disconnect_pending' = TRUE
    /\ HangUp(~disconnect_pending /\ ~NoLink)

DisconnectLinkKeepEpoch ==
    /\ UNCHANGED session
    /\ disconnect_pending' = (disconnect_pending \/ ~NoLink \/ connecting)
    /\ HangUp(~disconnect_pending /\ ~NoLink)

\* disconnect_link: the session ends at once; the link, or the attempt that
\* cannot be cancelled, is owned until BTstack reports its end.
DisconnectLink ==
    /\ session' = FALSE
    /\ disconnect_pending' = (disconnect_pending \/ ~NoLink \/ connecting)
    /\ HangUp(~disconnect_pending /\ ~NoLink)

\* Mutants of ScheduleRetry: judged before the handle is cleared; the found
\* device not discarded.
ScheduleRetryUnlinked(willing) ==
    /\ device_found' = FALSE
    /\ retry_due' = (willing /\ NoLink)

ScheduleRetryKeepFound(willing) ==
    /\ UNCHANGED device_found
    /\ retry_due' = willing

\* schedule_retry arms nothing while the policy is to stay away.
ScheduleRetry(willing) ==
    /\ device_found' = FALSE
    /\ retry_due' = willing

\* load_saved_peer: the first entry of the table, in the order of the library
SavedAmong(table) == IF table = {} THEN {NoPeer} ELSE table

-----------------------------------------------------------------------------
Init ==
    /\ classic_enabled = TRUE /\ reconnect_suppressed = FALSE
    /\ pairing_requested = FALSE /\ active_reconnect_requested = FALSE
    /\ forget_keys_pending = FALSE /\ forget_pair_keys_pending = FALSE
    /\ explicit_forget = FALSE
    /\ keys \in SUBSET Peer
    /\ saved_device \in SavedAmong(keys) \cup {NoPeer}  \* the table may come up late
    /\ current_device = NoPeer
    /\ prune_keys_pending = FALSE /\ stack_was_working = FALSE
    /\ page_scan = TRUE
    /\ hci_working \in BOOLEAN      \* another client may have powered the radio
    /\ inquiring = FALSE /\ device_found = FALSE /\ retry_due = hci_working
    /\ connecting = FALSE /\ disconnect_pending = FALSE
    /\ acl_handle = NoPeer /\ new_pair = FALSE
    /\ hid_cid = {} /\ chan_open = {}
    /\ session = FALSE /\ full_input_seen = FALSE
    /\ acl = [p \in Peer |-> "none"]
    /\ chan = [c \in Channel |-> "none"]
    /\ inquiry = FALSE

-----------------------------------------------------------------------------
(* Commands.                                                               *)

StayAway ==
    /\ reconnect_suppressed' = TRUE
    /\ retry_due' = FALSE /\ inquiring' = FALSE
    /\ page_scan' = FALSE
    /\ DisconnectLink
    /\ UNCHANGED <<classic_enabled, device_found, saved_device, current_device,
                   prune_keys_pending, stack_was_working, keys, setupVars, radioVars>>

BtDisconnect == StayAway /\ UNCHANGED <<intentVars, forgetVars>>

BtForget ==
    /\ StayAway
    /\ forget_keys_pending' = TRUE /\ forget_pair_keys_pending' = FALSE
    /\ explicit_forget' = TRUE
    /\ pairing_requested' = FALSE /\ active_reconnect_requested' = FALSE

\* bt_pair and bt_reconnect share everything but the intent they record.
StartManual(pairing) ==
    /\ reconnect_suppressed' = FALSE /\ classic_enabled' = TRUE
    /\ pairing_requested' = pairing /\ active_reconnect_requested' = ~pairing
    /\ inquiring' = FALSE
    /\ DisconnectLink
    /\ ScheduleRetry(TRUE)
    /\ UNCHANGED <<explicit_forget, savedVars, setupVars, radioVars>>

BtPair ==
    /\ StartManual(TRUE)
    /\ forget_keys_pending' = TRUE /\ forget_pair_keys_pending' = TRUE

BtReconnect ==
    /\ StartManual(FALSE)
    /\ UNCHANGED <<forget_keys_pending, forget_pair_keys_pending>>

\* The erasure a pair request asked for is called off with it.
CancelPairErasure ==
    /\ forget_keys_pending' = (forget_keys_pending /\ ~forget_pair_keys_pending)
    /\ forget_pair_keys_pending' = FALSE
    /\ UNCHANGED explicit_forget

ManualAttempt == (pairing_requested \/ active_reconnect_requested) /\ ~Connected

BtCancelManualRequest ==
    /\ pairing_requested' = FALSE /\ active_reconnect_requested' = FALSE
    /\ CancelPairErasure
    /\ IF ManualAttempt
       THEN inquiring' = FALSE /\ DisconnectLink /\ ScheduleRetry(Willing)
       ELSE UNCHANGED <<findVars, dropVars>>
    /\ UNCHANGED <<classic_enabled, reconnect_suppressed, savedVars, setupVars,
                   radioVars>>

\* bt_resume_auto: a cancel, the policy back to its defaults, and a retry
\* unless the link that survives is whole.
BtResumeAuto ==
    /\ pairing_requested' = FALSE /\ active_reconnect_requested' = FALSE
    /\ CancelPairErasure
    /\ reconnect_suppressed' = FALSE /\ classic_enabled' = TRUE
    /\ IF ManualAttempt
       THEN inquiring' = FALSE /\ DisconnectLink
       ELSE UNCHANGED <<inquiring, dropVars>>
    /\ IF ~disconnect_pending' /\ ~NoLink /\ chan_open = Channel
       THEN UNCHANGED <<device_found, retry_due>>
       ELSE ScheduleRetry(TRUE)
    /\ UNCHANGED <<savedVars, setupVars, radioVars>>

BtSetClassicEnabled(enabled) ==
    /\ enabled # classic_enabled        \* otherwise an early return
    /\ classic_enabled' = enabled
    /\ \/ /\ ~enabled
          /\ device_found' = FALSE /\ inquiring' = FALSE /\ retry_due' = FALSE
          /\ page_scan' = FALSE
          /\ DisconnectLink
       \/ /\ enabled
          /\ IF hci_working /\ NoLink THEN ScheduleRetry(~reconnect_suppressed)
                                      ELSE UNCHANGED <<device_found, retry_due>>
          /\ UNCHANGED <<inquiring, page_scan, dropVars>>
    /\ UNCHANGED <<reconnect_suppressed, intentVars, forgetVars, saved_device,
                   current_device, prune_keys_pending, stack_was_working, keys,
                   setupVars, radioVars>>

\* bt_has_saved_peer, asked by the status report
BtHasSavedPeer ==
    /\ saved_device' \in SavedAmong(keys)
    /\ UNCHANGED <<policyVars, forgetVars, findVars, current_device, keys,
                   prune_keys_pending, stack_was_working, page_scan, dropVars,
                   setupVars, radioVars>>

-----------------------------------------------------------------------------
(* bt_tick.  Every path starts with the same maintenance; the paths differ *)
(* in the deadline they find due.                                          *)

WorkingEdge == ~stack_was_working       \* the stack came up without an event
PruneDue == prune_keys_pending /\ ~NoLink

EraseDue == forget_keys_pending /\ NoLink /\ ~connecting

\* Mutant of KeptKeys: the cached saved peer kept, not the one in use.
KeptKeysSaved == IF EraseDue THEN {}
                 ELSE IF PruneDue THEN keys \cap {saved_device} ELSE keys

KeptKeys == IF EraseDue THEN {}
            ELSE IF PruneDue THEN keys \cap {current_device} ELSE keys

Maintain ==
    /\ hci_working
    /\ stack_was_working' = TRUE
    /\ keys' = KeptKeys
    /\ forget_keys_pending' = (forget_keys_pending /\ ~EraseDue)
    /\ forget_pair_keys_pending' = (forget_pair_keys_pending /\ ~EraseDue)
    /\ explicit_forget' = (explicit_forget /\ ~EraseDue)
    /\ prune_keys_pending' = (prune_keys_pending /\ ~PruneDue)
    /\ UNCHANGED <<policyVars, hci_working, chan_open, acl_handle, full_input_seen>>

\* A tick that does not come to the idle part: what is loaded and armed is
\* what the maintenance left.
NotIdle ==
    /\ Maintain
    /\ saved_device' \in IF EraseDue \/ PruneDue THEN SavedAmong(KeptKeys)
                         ELSE IF WorkingEdge THEN SavedAmong(keys)
                         ELSE {saved_device}
    /\ current_device' = IF EraseDue THEN NoPeer ELSE current_device
    /\ IF WorkingEdge THEN ScheduleRetry(Willing)
                      ELSE UNCHANGED <<device_found, retry_due>>
    /\ UNCHANGED <<inquiring, page_scan, connecting, new_pair, hid_cid, chan, inquiry>>

\* Nothing is due, or the policy ends the tick early.
TickQuiet == NotIdle /\ UNCHANGED dropVars

TickWatchdog == NotIdle /\ Governing /\ DisconnectLink

\* 5 s after the HID session no complete input report has come.
TickNoInput == Connected /\ ~full_input_seen /\ TickWatchdog

\* Mutant of TickSetupTimeout: content with one open channel.
TickSetupTimeoutPartial == ~NoLink /\ chan_open = {} /\ TickWatchdog

\* 15 s after the ACL the channels are not both open.
TickSetupTimeout == ~NoLink /\ ~Connected /\ TickWatchdog

\* 20 s after the page or the accepted request there is no ACL.
TickPendingTimeout == connecting /\ NoLink /\ TickWatchdog

\* start_outgoing_hid: L2CAP queues the control channel and pages the peer,
\* or refuses at once; a retry the caller left armed stays armed.
StartOutgoingHid(p, armed) ==
    /\ disconnect_pending' = FALSE
    /\ \/ /\ connecting' = TRUE /\ new_pair' = TRUE
          /\ hid_cid' = hid_cid \cup {"control"}
          /\ chan' = [chan EXCEPT !["control"] = "opening"]
          /\ acl' = [acl EXCEPT ![p] = IF @ = "none" THEN "pending" ELSE @]
          /\ retry_due' = armed /\ UNCHANGED device_found
       \/ /\ connecting' = FALSE /\ new_pair' = FALSE
          /\ hid_cid' = hid_cid \ {"control"}
          /\ UNCHANGED <<chan, acl>>
          /\ ScheduleRetry(Willing)
    /\ UNCHANGED session

\* The idle part of a tick: the retry is due, and the policy chooses.
Retry ==
    /\ Maintain
    /\ Governing /\ NoLink /\ ~connecting /\ ~inquiring /\ hid_cid = {}
    /\ retry_due /\ ~WorkingEdge
    /\ saved_device' \in SavedAmong(KeptKeys)
    /\ page_scan' = TRUE

\* Stay connectable and let the saved controller page its host.
TickAwaitSaved ==
    /\ Retry
    /\ saved_device' # NoPeer /\ ~pairing_requested /\ ~active_reconnect_requested
    /\ retry_due' = FALSE
    /\ current_device' = IF EraseDue THEN NoPeer ELSE current_device
    /\ UNCHANGED <<inquiring, device_found, connecting, new_pair, hid_cid, dropVars,
                   chan, inquiry>>

TickPageSaved ==
    /\ Retry
    /\ saved_device' # NoPeer /\ ~pairing_requested /\ active_reconnect_requested
    /\ current_device' = saved_device'
    /\ StartOutgoingHid(saved_device', FALSE)
    /\ UNCHANGED <<inquiring, inquiry>>

TickInquire ==
    /\ Retry
    /\ saved_device' = NoPeer \/ pairing_requested
    /\ current_device' = IF EraseDue THEN NoPeer ELSE current_device
    /\ \/ /\ ~inquiry                   \* gap_inquiry_start accepts
          /\ inquiry' = TRUE /\ inquiring' = TRUE
          /\ retry_due' = FALSE /\ UNCHANGED device_found
       \/ /\ inquiring' = FALSE         \* busy or out of resources
          /\ UNCHANGED inquiry
          /\ ScheduleRetry(Willing)
    /\ UNCHANGED <<connecting, new_pair, hid_cid, dropVars, chan>>

Tick == \/ TickQuiet \/ TickNoInput \/ TickSetupTimeout \/ TickPendingTimeout
        \/ TickAwaitSaved \/ TickPageSaved \/ TickInquire

-----------------------------------------------------------------------------
(* HCI events (hci_packet_handler and the connection filter).              *)

\* BTSTACK_EVENT_STATE with HCI_STATE_WORKING
StackWorking ==
    /\ ~hci_working
    /\ hci_working' = TRUE
    /\ IF classic_enabled
       THEN /\ stack_was_working' = TRUE
            /\ saved_device' \in SavedAmong(keys)
            /\ ScheduleRetry(Willing)
       ELSE UNCHANGED <<stack_was_working, saved_device, device_found, retry_due>>
    /\ UNCHANGED <<policyVars, forgetVars, inquiring, current_device, keys, page_scan,
                   prune_keys_pending, dropVars, setupVars, chan, inquiry>>

\* A gamepad answers the inquiry.
InquiryResult(p) ==
    /\ inquiry
    /\ Willing /\ inquiring /\ ~connecting /\ ~device_found /\ NoLink
    /\ pairing_requested \/ saved_device \in {NoPeer, p}
    /\ current_device' = p
    /\ device_found' = TRUE
    /\ UNCHANGED <<policyVars, forgetVars, inquiring, retry_due, saved_device, keys,
                   prune_keys_pending, stack_was_working, page_scan, dropVars,
                   setupVars, radioVars>>

InquiryComplete ==
    /\ inquiry
    /\ inquiry' = FALSE
    /\ IF Willing /\ ~connecting /\ NoLink /\ (inquiring \/ device_found)
       THEN /\ inquiring' = FALSE
            /\ IF device_found
               THEN StartOutgoingHid(current_device, retry_due)
               ELSE /\ ScheduleRetry(Willing)
                    /\ UNCHANGED <<dropVars, connecting, new_pair, hid_cid, chan>>
       ELSE UNCHANGED <<findVars, dropVars, connecting, new_pair, hid_cid, chan>>
    /\ UNCHANGED <<policyVars, forgetVars, savedVars, acl_handle, chan_open,
                   full_input_seen, hci_working>>

\* The early returns of accept_classic_connection.
FilterOpen == Governing /\ ~forget_keys_pending /\ NoLink

\* A peer pages the bridge: accept_classic_connection decides, then the
\* CONNECTION_REQUEST event is seen.  A request from the peer that is being
\* paged joins that attempt.
ConnectionRequest(p) ==
    /\ hci_working
    /\ acl[p] \in {"none", "pending"}
    /\ FilterOpen
    /\ saved_device' \in IF saved_device = NoPeer THEN SavedAmong(keys)
                                                  ELSE {saved_device}
    /\ IF /\ saved_device' = NoPeer \/ pairing_requested \/ p = saved_device'
          /\ ~connecting \/ p = current_device
          /\ saved_device' # NoPeer \/ pairing_requested \/ device_found
       THEN /\ new_pair' = IF connecting THEN new_pair ELSE FALSE
            /\ current_device' = p
            /\ connecting' = TRUE
            /\ inquiring' = FALSE
            /\ acl' = [acl EXCEPT ![p] = "pending"]
       ELSE UNCHANGED <<new_pair, current_device, connecting, inquiring, acl>>
    /\ UNCHANGED <<policyVars, forgetVars, device_found, retry_due, keys, page_scan,
                   prune_keys_pending, stack_was_working, session, disconnect_pending,
                   acl_handle, hid_cid, chan_open, full_input_seen, radioVars>>

\* The handle held after an unwanted ACL came up.
RetainedHandle(p) ==
    IF NoLink /\ connecting /\ p = current_device THEN p ELSE acl_handle

\* CONNECTION_COMPLETE, status 0
ConnectionComplete(p) ==
    /\ acl[p] = "pending"
    /\ IF ~Willing \/ p # current_device \/ acl_handle \notin {NoPeer, p}
       THEN /\ acl_handle' = RetainedHandle(p)
            /\ acl' = [acl EXCEPT ![p] = "closing"]
            /\ UNCHANGED <<inquiring, retry_due>>
       ELSE /\ acl_handle' = p
            /\ inquiring' = FALSE /\ retry_due' = FALSE
            /\ acl' = [acl EXCEPT ![p] = IF disconnect_pending THEN "closing" ELSE "up"]
    /\ UNCHANGED <<policyVars, forgetVars, device_found, savedVars, session,
                   disconnect_pending, connecting, new_pair, hid_cid, chan_open,
                   full_input_seen, radioVars>>

\* The attempt fails.  L2CAP sees the failure first and reports its queued
\* control channel as CHANNEL_OPENED with an error; then bt.cpp sees
\* CONNECTION_COMPLETE with an error.  An accepted request has no channel.
ConnectionFailed(p) ==
    /\ acl[p] = "pending"
    /\ acl' = [acl EXCEPT ![p] = "none"]
    /\ LET queued == IF chan["control"] = "opening" THEN {"control"} ELSE {}
       IN  /\ IF (connecting /\ p = current_device) \/ queued \cap hid_cid # {}
              THEN /\ connecting' = FALSE /\ disconnect_pending' = FALSE
                   /\ new_pair' = FALSE
                   /\ ScheduleRetry(Willing)
              ELSE UNCHANGED <<connecting, disconnect_pending, new_pair,
                               device_found, retry_due>>
           /\ hid_cid' = hid_cid \ queued /\ chan_open' = chan_open \ queued
           /\ chan' = [c \in Channel |-> IF c \in queued THEN "none" ELSE chan[c]]
           /\ session' = (session /\ queued = {})
    /\ UNCHANGED <<policyVars, forgetVars, inquiring, savedVars, acl_handle,
                   full_input_seen, hci_working, inquiry>>

\* AUTHENTICATION_COMPLETE or ENCRYPTION_CHANGE reports that the link is not
\* secure.  The saved key is kept.
SecurityFailed ==
    /\ ~NoLink /\ acl[acl_handle] \in {"up", "closing"}
    /\ DisconnectLink
    /\ UNCHANGED <<policyVars, forgetVars, findVars, savedVars, setupVars, radioVars>>

\* BTstack stores the key that pairing on a link has produced.
LinkKeyStored(p) ==
    /\ acl[p] \in {"up", "closing"}
    /\ keys' = keys \cup {p}
    /\ UNCHANGED <<policyVars, forgetVars, findVars, saved_device, current_device,
                   prune_keys_pending, stack_was_working, page_scan, dropVars,
                   setupVars, radioVars>>

\* DISCONNECTION_COMPLETE, asked for or not; the channels are gone with it.
DisconnectionComplete(p) ==
    /\ acl[p] \in {"up", "closing"}
    /\ acl' = [acl EXCEPT ![p] = "none"]
    /\ IF p = acl_handle
       THEN /\ acl_handle' = NoPeer
            /\ connecting' = FALSE /\ disconnect_pending' = FALSE /\ new_pair' = FALSE
            /\ hid_cid' = {} /\ chan_open' = {}
            /\ chan' = [c \in Channel |-> "none"]
            /\ session' = FALSE /\ full_input_seen' = FALSE
            /\ ScheduleRetry(Willing)
       ELSE UNCHANGED <<setupVars, session, disconnect_pending, chan, device_found,
                        retry_due>>
    /\ UNCHANGED <<policyVars, forgetVars, inquiring, savedVars, hci_working, inquiry>>

-----------------------------------------------------------------------------
(* L2CAP events (l2cap_packet_handler).                                    *)

\* complete_hid_session, reading the channel state the event has just set
CompleteHidSession ==
    IF chan_open' = Channel /\ ~disconnect_pending /\ ~session
    THEN /\ session' = TRUE
         /\ connecting' = FALSE /\ full_input_seen' = FALSE
         /\ active_reconnect_requested' = FALSE /\ pairing_requested' = FALSE
         /\ prune_keys_pending' = TRUE
         /\ page_scan' = FALSE
    ELSE UNCHANGED <<session, connecting, full_input_seen, intentVars,
                     prune_keys_pending, page_scan>>

\* A channel BTstack has opened and bt.cpp does not want: l2cap_disconnect.
RefuseChannel(c) ==
    /\ ~Governing \/ c \notin hid_cid
    /\ chan' = [chan EXCEPT ![c] = "open"]
    /\ UNCHANGED <<setupVars, dropVars, intentVars, prune_keys_pending, page_scan>>

\* The control channel this side opened brings the interrupt channel after it.
OpenNextChannel(c) ==
    /\ Governing /\ c \in hid_cid
    /\ c = "control" /\ new_pair /\ "interrupt" \notin hid_cid
    /\ chan_open' = chan_open \cup {c}
    /\ \/ /\ hid_cid' = Channel
          /\ chan' = [chan EXCEPT ![c] = "open", !["interrupt"] = "opening"]
          /\ UNCHANGED dropVars
       \/ /\ DisconnectLink             \* l2cap_create_channel refused
          /\ chan' = [chan EXCEPT ![c] = "open"]
          /\ UNCHANGED hid_cid
    /\ UNCHANGED <<connecting, acl_handle, new_pair, full_input_seen, intentVars,
                   prune_keys_pending, page_scan>>

TakeChannel(c) ==
    /\ Governing /\ c \in hid_cid
    /\ ~(c = "control" /\ new_pair /\ "interrupt" \notin hid_cid)
    /\ chan_open' = chan_open \cup {c}
    /\ chan' = [chan EXCEPT ![c] = "open"]
    /\ CompleteHidSession
    /\ UNCHANGED <<hid_cid, acl_handle, new_pair, disconnect_pending, acl>>

\* CHANNEL_OPENED, status 0.  Both services ask for LEVEL_2, so BTstack has a
\* key for the peer by then.
ChannelOpened(c) ==
    /\ chan[c] = "opening"
    /\ ~NoLink /\ acl[acl_handle] \in {"up", "closing"}
    /\ acl_handle \in keys
    /\ RefuseChannel(c) \/ OpenNextChannel(c) \/ TakeChannel(c)
    /\ UNCHANGED <<classic_enabled, reconnect_suppressed, forgetVars, findVars,
                   saved_device, current_device, stack_was_working, keys,
                   hci_working, inquiry>>

\* A channel of the link is lost: one that survives is not a HID session.
LoseChannel(c) ==
    /\ chan' = [chan EXCEPT ![c] = "none"]
    /\ IF c \in hid_cid
       THEN /\ hid_cid' = hid_cid \ {c} /\ chan_open' = chan_open \ {c}
            /\ DisconnectLink
       ELSE UNCHANGED <<hid_cid, chan_open, dropVars>>
    /\ UNCHANGED <<policyVars, forgetVars, inquiring, retry_due, savedVars, connecting,
                   acl_handle, new_pair, full_input_seen, hci_working, inquiry>>

\* CHANNEL_OPENED with an error on a link that stands
ChannelOpenFailed(c) ==
    /\ chan[c] = "opening" /\ ~NoLink
    /\ LoseChannel(c)
    /\ device_found' = (device_found /\ c \notin hid_cid)

ChannelClosed(c) == chan[c] = "open" /\ LoseChannel(c) /\ UNCHANGED device_found

\* INCOMING_CONNECTION: the controller opens one of the channels.
IncomingChannel(c) ==
    /\ ~NoLink /\ acl[acl_handle] = "up"
    /\ Governing /\ c \notin hid_cid    \* otherwise declined
    /\ hid_cid' = hid_cid \cup {c}
    /\ chan' = [chan EXCEPT ![c] = "opening"]
    /\ UNCHANGED <<policyVars, forgetVars, findVars, savedVars, dropVars, connecting,
                   acl_handle, new_pair, chan_open, full_input_seen, hci_working,
                   inquiry>>

\* A complete input report; idle for too long, it ends the session.
InputReport ==
    /\ Connected /\ chan["interrupt"] = "open"
    /\ full_input_seen' = TRUE
    /\ DisconnectLink \/ UNCHANGED dropVars
    /\ UNCHANGED <<policyVars, forgetVars, findVars, savedVars, connecting, acl_handle,
                   new_pair, hid_cid, chan_open, radioVars>>

-----------------------------------------------------------------------------
Command == \/ BtHasSavedPeer \/ BtDisconnect \/ BtForget \/ BtPair \/ BtReconnect
           \/ BtCancelManualRequest \/ BtResumeAuto
           \/ \E enabled \in BOOLEAN : BtSetClassicEnabled(enabled)

HciEvent == \/ StackWorking \/ InquiryComplete \/ SecurityFailed
            \/ \E p \in Peer : \/ InquiryResult(p) \/ ConnectionRequest(p)
                               \/ ConnectionComplete(p) \/ ConnectionFailed(p)
                               \/ LinkKeyStored(p) \/ DisconnectionComplete(p)

L2capEvent == \/ InputReport
              \/ \E c \in Channel : \/ ChannelOpened(c) \/ ChannelOpenFailed(c)
                                    \/ IncomingChannel(c) \/ ChannelClosed(c)

Next == Command \/ Tick \/ HciEvent \/ L2capEvent

Spec == Init /\ [][Next]_vars

\* The main loop calls bt_tick for ever, so an armed deadline is met in the
\* end; the radio starts, and BTstack ends every attempt, every inquiry and
\* every disconnect it was asked for.  Nothing is assumed of users,
\* controllers or channels.
Fairness ==
    /\ WF_vars(TickQuiet) /\ WF_vars(TickSetupTimeout) /\ WF_vars(TickNoInput)
    /\ WF_vars(TickPendingTimeout)
    /\ WF_vars(TickAwaitSaved) /\ WF_vars(TickPageSaved) /\ WF_vars(TickInquire)
    /\ WF_vars(StackWorking) /\ WF_vars(InquiryComplete)
    /\ \A p \in Peer :
        /\ WF_vars(ConnectionComplete(p) \/ ConnectionFailed(p))
        /\ WF_vars(acl[p] = "closing" /\ DisconnectionComplete(p))

FairSpec == Spec /\ Fairness

-----------------------------------------------------------------------------
(* Properties.                                                             *)

PolicyTyped ==
    /\ classic_enabled \in BOOLEAN /\ reconnect_suppressed \in BOOLEAN
    /\ pairing_requested \in BOOLEAN /\ active_reconnect_requested \in BOOLEAN

ForgetTyped ==
    /\ forget_keys_pending \in BOOLEAN /\ forget_pair_keys_pending \in BOOLEAN
    /\ explicit_forget \in BOOLEAN

FindTyped == inquiring \in BOOLEAN /\ device_found \in BOOLEAN /\ retry_due \in BOOLEAN

SavedTyped ==
    /\ saved_device \in Peer \cup {NoPeer} /\ current_device \in Peer \cup {NoPeer}
    /\ prune_keys_pending \in BOOLEAN /\ stack_was_working \in BOOLEAN
    /\ page_scan \in BOOLEAN
    /\ keys \subseteq Peer

DropTyped ==
    /\ session \in BOOLEAN /\ disconnect_pending \in BOOLEAN
    /\ acl \in [Peer -> {"none", "pending", "up", "closing"}]

SetupTyped ==
    /\ connecting \in BOOLEAN /\ new_pair \in BOOLEAN /\ full_input_seen \in BOOLEAN
    /\ acl_handle \in Peer \cup {NoPeer}
    /\ hid_cid \subseteq Channel /\ chan_open \subseteq Channel

RadioTyped ==
    /\ hci_working \in BOOLEAN /\ inquiry \in BOOLEAN
    /\ chan \in [Channel -> {"none", "opening", "open"}]

\* Every static of bt.cpp and every BTstack object has its type.
TypeOK ==
    /\ PolicyTyped /\ ForgetTyped /\ FindTyped /\ SavedTyped
    /\ DropTyped /\ SetupTyped /\ RadioTyped

\* bt.cpp never loses track of the radio: every ACL that BTstack has, or is
\* building, is the one attempt or the one link bt.cpp owns.  Cancels and late
\* completions (bt.cpp:527-535) must neither leak a link nor open a second one.
EveryLinkIsOwned ==
    \A p \in Peer :
        /\ acl[p] = "pending" => connecting /\ NoLink /\ p = current_device
        /\ acl[p] \in {"up", "closing"} <=> p = acl_handle

\* bt_tick does nothing at all while disconnect_pending is set, so whatever
\* set it must be waiting for an event that BTstack owes.
PendingHasOwner ==
    disconnect_pending =>
        \/ NoLink /\ connecting /\ current_device \in Peer
           /\ acl[current_device] = "pending"
        \/ ~NoLink /\ acl[acl_handle] = "closing"

\* Audio and output may be queued exactly while the whole HID link is usable:
\* active_send_epoch is never left set on a link that is going away, and
\* never left 0 on one that is up.
SessionIffConnected == session <=> Connected

\* What bt.cpp believes of the radio and what BTstack does agree: no link leaks,
\* nothing is waited for that does not come, nothing is queued for a link that
\* is not whole, in whatever order cancels, losses and completions arrive.
RadioIsOwned == EveryLinkIsOwned /\ PendingHasOwner /\ SessionIffConnected

\* The controller policy never strands: when it should run and no link,
\* attempt or inquiry is in progress, a retry is armed, or the radio listens
\* for a saved controller.  (A lost schedule_retry would need a power cycle.)
NeverStranded ==
    /\ hci_working /\ stack_was_working
    /\ Willing
    /\ NoLink /\ ~connecting /\ ~inquiring
    =>  /\ hid_cid = {}
        /\ retry_due \/ (page_scan /\ saved_device # NoPeer)

\* No attempt, in either direction, starts while an erasure of the keys is
\* due: a peer the user forgot cannot slip back in with its old key.
NoAttemptBeforeErase ==
    [][~connecting /\ connecting' => ~forget_keys_pending']_vars

\* With a saved peer, and no pairing, only that peer gets an attempt, however
\* old the inquiry answer that named it.
OnlySavedPeer ==
    [][~connecting /\ connecting' =>
          \/ saved_device' \in {NoPeer, current_device'}
          \/ pairing_requested]_vars

\* A controller that the user forgot, or did not choose, gets no attempt,
\* whichever event starts it.
AttemptsAreWanted == NoAttemptBeforeErase /\ OnlySavedPeer

\* The controller in use keeps its bond, and the pruning that a session asks
\* for, done by whichever later tick finds a link, leaves that bond alone in
\* the table: the next boot can only choose the controller used last.
SessionKeepsItsBond ==
    session => /\ acl_handle \in keys
               /\ ~prune_keys_pending => keys = {acl_handle}

\* A disconnect is always finished, whoever asked for it and whenever.
DisconnectEnds == disconnect_pending ~> ~disconnect_pending

\* An erasure that stays requested is carried out.
ForgetHappens == forget_keys_pending ~> ~forget_keys_pending

\* A link whose HID channels do not both open, or that brings no input, is
\* dropped: it cannot occupy the only slot for ever.
NoHalfOpenLink == ~NoLink /\ ~full_input_seen ~> NoLink \/ full_input_seen

\* What bt.cpp has begun to take down, erase or set up, it finishes.
BegunEnds == DisconnectEnds /\ ForgetHappens /\ NoHalfOpenLink

\* What tests/classic_state.cpp:258-259 states, "explicit forget remains
\* explicit": while the old link is still being taken down, no later request
\* or cancel calls off the erasure the user asked for.
ExplicitForgetStays ==
    [][explicit_forget /\ (~NoLink \/ connecting) /\ forget_keys_pending
          => forget_keys_pending']_vars

\* The link as the rest of bt.cpp, and everyone who sends, may rely on it.
Lifecycle == INSTANCE HidLink WITH
    link <- acl_handle # NoPeer,
    leaving <- disconnect_pending,
    open <- chan_open

KeepsLifecycle == Lifecycle!Spec

=============================================================================
