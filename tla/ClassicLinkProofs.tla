-------------------------- MODULE ClassicLinkProofs --------------------------
(***************************************************************************)
(* Theorems about the Classic link, for every set of controllers.          *)
(***************************************************************************)
EXTENDS ClassicLink, TLAPS

(* The inductive invariant.  It says what a connection attempt, a link and *)
(* a pending disconnect look like between any two handlers.                *)

\* An attempt without a link is being paged, or was accepted and is coming up.
AttemptIsPending ==
    connecting /\ NoLink => current_device \in Peer /\ acl[current_device] = "pending"

\* An answer to the inquiry that may still start an attempt names a peer, and
\* no erasure has been asked for since.
FoundIsUsable ==
    device_found /\ Willing /\ NoLink /\ ~connecting =>
        ~forget_keys_pending /\ current_device \in Peer

\* The inquiry runs only while no erasure is due, and finds nothing for a bridge
\* that serves the other radio.
InquiryIsClean ==
    /\ inquiring => ~forget_keys_pending
    /\ device_found => classic_enabled

\* When the policy is to stay away, what is left of the link is going away.
UnwillingIsLeaving == ~Willing /\ (~NoLink \/ connecting) => disconnect_pending

\* Channels are open only on a link, and only the ones this link has.
ChannelsOnLink ==
    /\ chan_open \subseteq hid_cid
    /\ NoLink => chan_open = {}
    /\ \A c \in Channel : chan[c] = "open" => ~NoLink

Ownership ==
    /\ EveryLinkIsOwned /\ PendingHasOwner /\ SessionIffConnected
    /\ AttemptIsPending /\ FoundIsUsable /\ InquiryIsClean
    /\ UnwillingIsLeaving /\ ChannelsOnLink

LinkInv == TypeOK /\ Ownership

-----------------------------------------------------------------------------
(* Types.                                                                  *)

\* The statics of bt.cpp start with their types.
LEMMA InitTypeOK == Init => TypeOK
BY PeerAssumption DEF Init, TypeOK, PolicyTyped, ForgetTyped, FindTyped, SavedTyped, DropTyped,
      SetupTyped, RadioTyped, SavedAmong

\* Every handler leaves every static with its type.
LEMMA NextTypeOK == TypeOK /\ [Next]_vars => TypeOK'
<1> SUFFICES ASSUME TypeOK, [Next]_vars PROVE TypeOK'
  OBVIOUS
<1> USE DEF ScheduleRetry, DisconnectLink, HangUp, NoLink, Willing, TypeOK, PolicyTyped,
            ForgetTyped, FindTyped, SavedTyped, DropTyped, SetupTyped, RadioTyped,
            Channel, policyVars, intentVars, forgetVars, findVars, savedVars, dropVars,
            setupVars, radioVars
<1>1. CASE UNCHANGED vars
  BY <1>1 DEF vars
<1>2. CASE BtHasSavedPeer
  BY <1>2 DEF BtHasSavedPeer, SavedAmong
<1>3. CASE BtDisconnect
  <2>1. (PolicyTyped /\ ForgetTyped /\ FindTyped)'
    BY <1>3 DEF BtDisconnect, StayAway
  <2>2. (SavedTyped /\ DropTyped)'
    BY <1>3 DEF BtDisconnect, StayAway
  <2>3. (SetupTyped /\ RadioTyped)'
    BY <1>3 DEF BtDisconnect, StayAway
  <2> QED BY <2>1, <2>2, <2>3
<1>4. CASE BtForget
  <2>1. (PolicyTyped /\ ForgetTyped /\ FindTyped)'
    BY <1>4 DEF BtForget, StayAway
  <2>2. (SavedTyped /\ DropTyped)'
    BY <1>4 DEF BtForget, StayAway
  <2>3. (SetupTyped /\ RadioTyped)'
    BY <1>4 DEF BtForget, StayAway
  <2> QED BY <2>1, <2>2, <2>3
<1>5. CASE BtPair
  <2>1. (PolicyTyped /\ ForgetTyped /\ FindTyped)'
    BY <1>5 DEF BtPair, StartManual
  <2>2. (SavedTyped /\ DropTyped)'
    BY <1>5 DEF BtPair, StartManual
  <2>3. (SetupTyped /\ RadioTyped)'
    BY <1>5 DEF BtPair, StartManual
  <2> QED BY <2>1, <2>2, <2>3
<1>6. CASE BtReconnect
  <2>1. (PolicyTyped /\ ForgetTyped /\ FindTyped)'
    BY <1>6 DEF BtReconnect, StartManual
  <2>2. (SavedTyped /\ DropTyped)'
    BY <1>6 DEF BtReconnect, StartManual
  <2>3. (SetupTyped /\ RadioTyped)'
    BY <1>6 DEF BtReconnect, StartManual
  <2> QED BY <2>1, <2>2, <2>3
<1>7. CASE BtCancelManualRequest
  <2>1. (PolicyTyped /\ ForgetTyped /\ FindTyped)'
    BY <1>7 DEF BtCancelManualRequest, CancelPairErasure, ManualAttempt
  <2>2. (SavedTyped /\ DropTyped)'
    BY <1>7 DEF BtCancelManualRequest, CancelPairErasure, ManualAttempt
  <2>3. SetupTyped'
    BY <1>7 DEF BtCancelManualRequest, CancelPairErasure, ManualAttempt
  <2>4. RadioTyped'
    BY <1>7 DEF BtCancelManualRequest, CancelPairErasure, ManualAttempt
  <2> QED BY <2>1, <2>2, <2>3, <2>4
<1>8. CASE BtResumeAuto
  <2>1. (PolicyTyped /\ ForgetTyped /\ FindTyped)'
    BY <1>8 DEF BtResumeAuto, CancelPairErasure, ManualAttempt
  <2>2. (SavedTyped /\ DropTyped)'
    BY <1>8 DEF BtResumeAuto, CancelPairErasure, ManualAttempt
  <2>3. (SetupTyped /\ RadioTyped)'
    BY <1>8 DEF BtResumeAuto, CancelPairErasure, ManualAttempt
  <2> QED BY <2>1, <2>2, <2>3
<1>9. ASSUME NEW enabled \in BOOLEAN, BtSetClassicEnabled(enabled) PROVE TypeOK'
  <2>1. (PolicyTyped /\ ForgetTyped /\ FindTyped)'
    BY <1>9 DEF BtSetClassicEnabled
  <2>2. (SavedTyped /\ DropTyped)'
    BY <1>9 DEF BtSetClassicEnabled
  <2>3. (SetupTyped /\ RadioTyped)'
    BY <1>9 DEF BtSetClassicEnabled
  <2> QED BY <2>1, <2>2, <2>3
<1>10. CASE TickQuiet
  <2>1. (PolicyTyped /\ ForgetTyped /\ FindTyped)'
    BY <1>10 DEF TickQuiet, NotIdle, Maintain, SavedAmong, KeptKeys, WorkingEdge,
       EraseDue, PruneDue
  <2>2. (SavedTyped /\ DropTyped /\ SetupTyped /\ RadioTyped)'
    BY <1>10 DEF TickQuiet, NotIdle, Maintain, SavedAmong, KeptKeys, WorkingEdge,
       EraseDue, PruneDue
  <2> QED BY <2>1, <2>2
<1>11. CASE TickNoInput
  <2>1. (PolicyTyped /\ ForgetTyped /\ FindTyped)'
    BY <1>11 DEF TickNoInput, TickWatchdog, Governing, NotIdle, Maintain, SavedAmong,
       KeptKeys, WorkingEdge, EraseDue, PruneDue
  <2>2. (SavedTyped /\ DropTyped /\ SetupTyped /\ RadioTyped)'
    BY <1>11 DEF TickNoInput, TickWatchdog, Governing, NotIdle, Maintain, SavedAmong,
       KeptKeys, WorkingEdge, EraseDue, PruneDue
  <2> QED BY <2>1, <2>2
<1>12. CASE TickSetupTimeout
  <2>1. (PolicyTyped /\ ForgetTyped /\ FindTyped)'
    BY <1>12 DEF TickSetupTimeout, TickWatchdog, Governing, NotIdle, Maintain,
       SavedAmong, KeptKeys, WorkingEdge, EraseDue, PruneDue
  <2>2. (SavedTyped /\ DropTyped /\ SetupTyped /\ RadioTyped)'
    BY <1>12 DEF TickSetupTimeout, TickWatchdog, Governing, NotIdle, Maintain,
       SavedAmong, KeptKeys, WorkingEdge, EraseDue, PruneDue
  <2> QED BY <2>1, <2>2
<1>13. CASE TickPendingTimeout
  <2>1. (PolicyTyped /\ ForgetTyped /\ FindTyped)'
    BY <1>13 DEF TickPendingTimeout, TickWatchdog, Governing, NotIdle, Maintain,
       SavedAmong, KeptKeys, WorkingEdge, EraseDue, PruneDue
  <2>2. (SavedTyped /\ DropTyped /\ SetupTyped /\ RadioTyped)'
    BY <1>13 DEF TickPendingTimeout, TickWatchdog, Governing, NotIdle, Maintain,
       SavedAmong, KeptKeys, WorkingEdge, EraseDue, PruneDue
  <2> QED BY <2>1, <2>2
<1>14. CASE TickAwaitSaved
  BY <1>14 DEF TickAwaitSaved, Retry, Maintain, SavedAmong, KeptKeys, WorkingEdge,
     EraseDue, PruneDue, Governing
<1>15. CASE TickPageSaved
  <2>1. (PolicyTyped /\ ForgetTyped /\ FindTyped)'
    BY <1>15 DEF TickPageSaved, StartOutgoingHid, Retry, Maintain, SavedAmong, KeptKeys,
       WorkingEdge, EraseDue, PruneDue, Governing
  <2>2. (SavedTyped /\ DropTyped)'
    BY <1>15 DEF TickPageSaved, StartOutgoingHid, Retry, Maintain, SavedAmong, KeptKeys,
       WorkingEdge, EraseDue, PruneDue, Governing
  <2>3. SetupTyped'
    BY <1>15 DEF TickPageSaved, StartOutgoingHid, Retry, Maintain, SavedAmong, KeptKeys,
       WorkingEdge, EraseDue, PruneDue, Governing
  <2>4. RadioTyped'
    BY <1>15 DEF TickPageSaved, StartOutgoingHid, Retry, Maintain, SavedAmong, KeptKeys,
       WorkingEdge, EraseDue, PruneDue, Governing
  <2> QED BY <2>1, <2>2, <2>3, <2>4
<1>16. CASE TickInquire
  BY <1>16 DEF TickInquire, Retry, Maintain, SavedAmong, KeptKeys, WorkingEdge,
     EraseDue, PruneDue, Governing
<1>17. CASE StackWorking
  <2>1. (PolicyTyped /\ ForgetTyped /\ FindTyped)'
    BY <1>17 DEF StackWorking, SavedAmong
  <2>2. (SavedTyped /\ DropTyped)'
    BY <1>17 DEF StackWorking, SavedAmong
  <2>3. (SetupTyped /\ RadioTyped)'
    BY <1>17 DEF StackWorking, SavedAmong
  <2> QED BY <2>1, <2>2, <2>3
<1>18. ASSUME NEW p \in Peer, InquiryResult(p) PROVE TypeOK'
  BY <1>18 DEF InquiryResult
<1>19. CASE InquiryComplete
  <2>1. PolicyTyped'
    BY <1>19 DEF InquiryComplete, StartOutgoingHid
  <2>2. ForgetTyped'
    BY <1>19 DEF InquiryComplete, StartOutgoingHid
  <2>3. FindTyped'
    BY <1>19 DEF InquiryComplete, StartOutgoingHid
  <2>4. SavedTyped'
    BY <1>19 DEF InquiryComplete, StartOutgoingHid
  <2>5. DropTyped'
    BY <1>19 DEF InquiryComplete, StartOutgoingHid
  <2>6. (SetupTyped /\ RadioTyped)'
    BY <1>19 DEF InquiryComplete, StartOutgoingHid
  <2> QED BY <2>1, <2>2, <2>3, <2>4, <2>5, <2>6
<1>20. ASSUME NEW p \in Peer, ConnectionRequest(p) PROVE TypeOK'
  <2>1. (PolicyTyped /\ ForgetTyped /\ FindTyped)'
    BY <1>20 DEF ConnectionRequest, FilterOpen, Governing, SavedAmong
  <2>2. (SavedTyped /\ DropTyped)'
    BY <1>20 DEF ConnectionRequest, FilterOpen, Governing, SavedAmong
  <2>3. (SetupTyped /\ RadioTyped)'
    BY <1>20 DEF ConnectionRequest, FilterOpen, Governing, SavedAmong
  <2> QED BY <2>1, <2>2, <2>3
<1>21. ASSUME NEW p \in Peer, ConnectionComplete(p) PROVE TypeOK'
  <2>1. PolicyTyped'
    BY <1>21 DEF ConnectionComplete, RetainedHandle
  <2>2. (ForgetTyped /\ FindTyped)'
    BY <1>21 DEF ConnectionComplete, RetainedHandle
  <2>3. (SavedTyped /\ DropTyped /\ SetupTyped /\ RadioTyped)'
    BY <1>21 DEF ConnectionComplete, RetainedHandle
  <2> QED BY <2>1, <2>2, <2>3
<1>22. ASSUME NEW p \in Peer, ConnectionFailed(p) PROVE TypeOK'
  <2>1. PolicyTyped'
    BY <1>22 DEF ConnectionFailed
  <2>2. (ForgetTyped /\ FindTyped)'
    BY <1>22 DEF ConnectionFailed
  <2>3. (SavedTyped /\ DropTyped)'
    BY <1>22 DEF ConnectionFailed
  <2>4. (SetupTyped /\ RadioTyped)'
    BY <1>22 DEF ConnectionFailed
  <2> QED BY <2>1, <2>2, <2>3, <2>4
<1>23. CASE SecurityFailed
  <2>1. (PolicyTyped /\ ForgetTyped /\ FindTyped)'
    BY <1>23 DEF SecurityFailed
  <2>2. (SavedTyped /\ DropTyped)'
    BY <1>23 DEF SecurityFailed
  <2>3. (SetupTyped /\ RadioTyped)'
    BY <1>23 DEF SecurityFailed
  <2> QED BY <2>1, <2>2, <2>3
<1>24. ASSUME NEW p \in Peer, LinkKeyStored(p) PROVE TypeOK'
  BY <1>24 DEF LinkKeyStored
<1>25. ASSUME NEW p \in Peer, DisconnectionComplete(p) PROVE TypeOK'
  <2>1. PolicyTyped'
    BY <1>25 DEF DisconnectionComplete
  <2>2. (ForgetTyped /\ FindTyped)'
    BY <1>25 DEF DisconnectionComplete
  <2>3. (SavedTyped /\ DropTyped)'
    BY <1>25 DEF DisconnectionComplete
  <2>4. (SetupTyped /\ RadioTyped)'
    BY <1>25 DEF DisconnectionComplete
  <2> QED BY <2>1, <2>2, <2>3, <2>4
<1>26. ASSUME NEW c \in Channel, ChannelOpened(c) PROVE TypeOK'
  <2>1. PolicyTyped'
    BY <1>26 DEF ChannelOpened, RefuseChannel, OpenNextChannel, TakeChannel,
       CompleteHidSession, Governing
  <2>2. (ForgetTyped /\ FindTyped)'
    BY <1>26 DEF ChannelOpened, RefuseChannel, OpenNextChannel, TakeChannel,
       CompleteHidSession, Governing
  <2>3. SavedTyped'
    BY <1>26 DEF ChannelOpened, RefuseChannel, OpenNextChannel, TakeChannel,
       CompleteHidSession, Governing
  <2>4. DropTyped'
    BY <1>26 DEF ChannelOpened, RefuseChannel, OpenNextChannel, TakeChannel,
       CompleteHidSession, Governing
  <2>5. SetupTyped'
    BY <1>26 DEF ChannelOpened, RefuseChannel, OpenNextChannel, TakeChannel,
       CompleteHidSession, Governing
  <2>6. RadioTyped'
    BY <1>26 DEF ChannelOpened, RefuseChannel, OpenNextChannel, TakeChannel,
       CompleteHidSession, Governing
  <2> QED BY <2>1, <2>2, <2>3, <2>4, <2>5, <2>6
<1>27. ASSUME NEW c \in Channel, ChannelOpenFailed(c) PROVE TypeOK'
  <2>1. (PolicyTyped /\ ForgetTyped /\ FindTyped)'
    BY <1>27 DEF ChannelOpenFailed, LoseChannel
  <2>2. (SavedTyped /\ DropTyped)'
    BY <1>27 DEF ChannelOpenFailed, LoseChannel
  <2>3. (SetupTyped /\ RadioTyped)'
    BY <1>27 DEF ChannelOpenFailed, LoseChannel
  <2> QED BY <2>1, <2>2, <2>3
<1>28. ASSUME NEW c \in Channel, ChannelClosed(c) PROVE TypeOK'
  <2>1. (PolicyTyped /\ ForgetTyped /\ FindTyped)'
    BY <1>28 DEF ChannelClosed, LoseChannel
  <2>2. (SavedTyped /\ DropTyped)'
    BY <1>28 DEF ChannelClosed, LoseChannel
  <2>3. (SetupTyped /\ RadioTyped)'
    BY <1>28 DEF ChannelClosed, LoseChannel
  <2> QED BY <2>1, <2>2, <2>3
<1>29. ASSUME NEW c \in Channel, IncomingChannel(c) PROVE TypeOK'
  BY <1>29 DEF IncomingChannel, Governing
<1>30. CASE InputReport
  <2>1. (PolicyTyped /\ ForgetTyped /\ FindTyped)'
    BY <1>30 DEF InputReport, Connected, Governing
  <2>2. (SavedTyped /\ DropTyped)'
    BY <1>30 DEF InputReport, Connected, Governing
  <2>3. (SetupTyped /\ RadioTyped)'
    BY <1>30 DEF InputReport, Connected, Governing
  <2> QED BY <2>1, <2>2, <2>3
<1> QED
  BY <1>1, <1>2, <1>3, <1>4, <1>5, <1>6, <1>7, <1>8, <1>9, <1>10, <1>11, <1>12,
     <1>13, <1>14, <1>15, <1>16, <1>17, <1>18, <1>19, <1>20, <1>21, <1>22, <1>23,
     <1>24, <1>25, <1>26, <1>27, <1>28, <1>29, <1>30 DEF Next, Command, Tick,
     HciEvent, L2capEvent

-----------------------------------------------------------------------------
(* The inductive invariant.                                                *)

\* Before bt_init has run its course nothing is owned and nothing is owed.
LEMMA InitLinkInv == Init => LinkInv
<1> SUFFICES ASSUME Init PROVE LinkInv
  OBVIOUS
<1>1. TypeOK
  BY InitTypeOK
<1>2. Ownership
  BY PeerAssumption
     DEF Init, Ownership, EveryLinkIsOwned, PendingHasOwner, SessionIffConnected,
         AttemptIsPending, FoundIsUsable, InquiryIsClean, UnwillingIsLeaving,
         ChannelsOnLink, NoLink, Willing, Governing, Connected, Channel
<1> QED BY <1>1, <1>2 DEF LinkInv

\* Every handler leaves the link, the attempt and the pending disconnect owned.
LEMMA NextLinkInv == LinkInv /\ [Next]_vars => LinkInv'
<1> SUFFICES ASSUME LinkInv, [Next]_vars PROVE Ownership'
  BY NextTypeOK DEF LinkInv
<1>0. TypeOK'
  BY NextTypeOK DEF LinkInv
<1> USE DEF LinkInv, Ownership, EveryLinkIsOwned, PendingHasOwner, SessionIffConnected,
            AttemptIsPending, FoundIsUsable, InquiryIsClean, UnwillingIsLeaving,
            ChannelsOnLink, Governing, Connected, ScheduleRetry, DisconnectLink, HangUp,
            NoLink, Willing, TypeOK, PolicyTyped, ForgetTyped, FindTyped, SavedTyped,
            DropTyped, SetupTyped, RadioTyped, Channel, policyVars, intentVars,
            forgetVars, findVars, savedVars, dropVars, setupVars, radioVars
<1>1. CASE UNCHANGED vars
  BY <1>1, <1>0, PeerAssumption DEF vars
<1>2. CASE BtHasSavedPeer
  <2>1. (EveryLinkIsOwned /\ PendingHasOwner /\ SessionIffConnected /\ AttemptIsPending)'
    BY <1>2, <1>0, PeerAssumption DEF BtHasSavedPeer, SavedAmong
  <2>2. (FoundIsUsable /\ InquiryIsClean /\ UnwillingIsLeaving /\ ChannelsOnLink)'
    BY <1>2, <1>0, PeerAssumption DEF BtHasSavedPeer, SavedAmong
  <2> QED BY <2>1, <2>2
<1>3. CASE BtDisconnect
  BY <1>3, <1>0, PeerAssumption DEF BtDisconnect, StayAway
<1>4. CASE BtForget
  <2>1. EveryLinkIsOwned'
    BY <1>4, <1>0, PeerAssumption DEF BtForget, StayAway
  <2>2. PendingHasOwner'
    BY <1>4, <1>0, PeerAssumption DEF BtForget, StayAway
  <2>3. (SessionIffConnected /\ AttemptIsPending)'
    BY <1>4, <1>0, PeerAssumption DEF BtForget, StayAway
  <2>4. (FoundIsUsable /\ InquiryIsClean /\ UnwillingIsLeaving /\ ChannelsOnLink)'
    BY <1>4, <1>0, PeerAssumption DEF BtForget, StayAway
  <2> QED BY <2>1, <2>2, <2>3, <2>4
<1>5. CASE BtPair
  BY <1>5, <1>0, PeerAssumption DEF BtPair, StartManual
<1>6. CASE BtReconnect
  BY <1>6, <1>0, PeerAssumption DEF BtReconnect, StartManual
<1>7. CASE BtCancelManualRequest
  BY <1>7, <1>0, PeerAssumption DEF BtCancelManualRequest, CancelPairErasure,
     ManualAttempt
<1>8. CASE BtResumeAuto
  BY <1>8, <1>0, PeerAssumption DEF BtResumeAuto, CancelPairErasure, ManualAttempt
<1>9. ASSUME NEW enabled \in BOOLEAN, BtSetClassicEnabled(enabled) PROVE Ownership'
  BY <1>9, <1>0, PeerAssumption DEF BtSetClassicEnabled
<1>10. CASE TickQuiet
  BY <1>10, <1>0, PeerAssumption DEF TickQuiet, NotIdle, Maintain, SavedAmong, KeptKeys,
     WorkingEdge, EraseDue, PruneDue
<1>11. CASE TickNoInput
  BY <1>11, <1>0, PeerAssumption DEF TickNoInput, TickWatchdog, NotIdle, Maintain,
     SavedAmong, KeptKeys, WorkingEdge, EraseDue, PruneDue
<1>12. CASE TickSetupTimeout
  BY <1>12, <1>0, PeerAssumption DEF TickSetupTimeout, TickWatchdog, NotIdle, Maintain,
     SavedAmong, KeptKeys, WorkingEdge, EraseDue, PruneDue
<1>13. CASE TickPendingTimeout
  BY <1>13, <1>0, PeerAssumption DEF TickPendingTimeout, TickWatchdog, NotIdle,
     Maintain, SavedAmong, KeptKeys, WorkingEdge, EraseDue, PruneDue
<1>14. CASE TickAwaitSaved
  BY <1>14, <1>0, PeerAssumption DEF TickAwaitSaved, Retry, Maintain, SavedAmong,
     KeptKeys, WorkingEdge, EraseDue, PruneDue
<1>15. CASE TickPageSaved
  BY <1>15, <1>0, PeerAssumption DEF TickPageSaved, StartOutgoingHid, Retry, Maintain,
     SavedAmong, KeptKeys, WorkingEdge, EraseDue, PruneDue
<1>16. CASE TickInquire
  BY <1>16, <1>0, PeerAssumption DEF TickInquire, Retry, Maintain, SavedAmong, KeptKeys,
     WorkingEdge, EraseDue, PruneDue
<1>17. CASE StackWorking
  BY <1>17, <1>0, PeerAssumption DEF StackWorking, SavedAmong
<1>18. ASSUME NEW p \in Peer, InquiryResult(p) PROVE Ownership'
  BY <1>18, <1>0, PeerAssumption DEF InquiryResult
<1>19. CASE InquiryComplete
  BY <1>19, <1>0, PeerAssumption DEF InquiryComplete, StartOutgoingHid
<1>20. ASSUME NEW p \in Peer, ConnectionRequest(p) PROVE Ownership'
  <2> USE <1>20, <1>0, PeerAssumption DEF ConnectionRequest, FilterOpen, SavedAmong
  <2>1. CASE UNCHANGED <<new_pair, current_device, connecting, inquiring, acl>>
    BY <2>1
  <2>2. CASE /\ ~connecting \/ p = current_device
             /\ current_device' = p /\ connecting' = TRUE /\ inquiring' = FALSE
             /\ acl' = [acl EXCEPT ![p] = "pending"]
    <3>1. EveryLinkIsOwned'
      BY <2>2
    <3>2. (PendingHasOwner /\ SessionIffConnected /\ AttemptIsPending)'
      BY <2>2
    <3>3. (FoundIsUsable /\ InquiryIsClean /\ UnwillingIsLeaving)'
      BY <2>2
    <3>4. ChannelsOnLink'
      BY <2>2
    <3> QED BY <3>1, <3>2, <3>3, <3>4
  <2> QED BY <2>1, <2>2
<1>21. ASSUME NEW p \in Peer, ConnectionComplete(p) PROVE Ownership'
  BY <1>21, <1>0, PeerAssumption DEF ConnectionComplete, RetainedHandle
<1>22. ASSUME NEW p \in Peer, ConnectionFailed(p) PROVE Ownership'
  BY <1>22, <1>0, PeerAssumption DEF ConnectionFailed
<1>23. CASE SecurityFailed
  BY <1>23, <1>0, PeerAssumption DEF SecurityFailed
<1>24. ASSUME NEW p \in Peer, LinkKeyStored(p) PROVE Ownership'
  BY <1>24, <1>0, PeerAssumption DEF LinkKeyStored
<1>25. ASSUME NEW p \in Peer, DisconnectionComplete(p) PROVE Ownership'
  BY <1>25, <1>0, PeerAssumption DEF DisconnectionComplete
<1>26. ASSUME NEW c \in Channel, ChannelOpened(c) PROVE Ownership'
  BY <1>26, <1>0, PeerAssumption DEF ChannelOpened, RefuseChannel, OpenNextChannel,
     TakeChannel, CompleteHidSession
<1>27. ASSUME NEW c \in Channel, ChannelOpenFailed(c) PROVE Ownership'
  BY <1>27, <1>0, PeerAssumption DEF ChannelOpenFailed, LoseChannel
<1>28. ASSUME NEW c \in Channel, ChannelClosed(c) PROVE Ownership'
  BY <1>28, <1>0, PeerAssumption DEF ChannelClosed, LoseChannel
<1>29. ASSUME NEW c \in Channel, IncomingChannel(c) PROVE Ownership'
  BY <1>29, <1>0, PeerAssumption DEF IncomingChannel
<1>30. CASE InputReport
  BY <1>30, <1>0, PeerAssumption DEF InputReport
<1> QED
  BY <1>1, <1>2, <1>3, <1>4, <1>5, <1>6, <1>7, <1>8, <1>9, <1>10, <1>11, <1>12,
     <1>13, <1>14, <1>15, <1>16, <1>17, <1>18, <1>19, <1>20, <1>21, <1>22, <1>23,
     <1>24, <1>25, <1>26, <1>27, <1>28, <1>29, <1>30 DEF Next, Command, Tick,
     HciEvent, L2capEvent

\* What the theorems below are read off from.
LEMMA Invariance == Spec => []LinkInv
BY InitLinkInv, NextLinkInv, PTL DEF Spec

-----------------------------------------------------------------------------
(* The theorems.                                                           *)

\* Every static of bt.cpp keeps its type under any sequence of commands, ticks
\* and BTstack events.
THEOREM TypeCorrect == Spec => []TypeOK
<1>1. LinkInv => TypeOK
  BY DEF LinkInv
<1> QED BY <1>1, Invariance, PTL

\* bt.cpp never loses track of a link: every ACL that exists, or is being
\* built, is the one it owns.
THEOREM LinksAreOwned == Spec => []EveryLinkIsOwned
<1>1. LinkInv => EveryLinkIsOwned
  BY DEF LinkInv, Ownership
<1> QED BY <1>1, Invariance, PTL

\* disconnect_pending, which stops the tick, always has an event to wait for.
THEOREM PendingIsOwned == Spec => []PendingHasOwner
<1>1. LinkInv => PendingHasOwner
  BY DEF LinkInv, Ownership
<1> QED BY <1>1, Invariance, PTL

\* A send epoch is active exactly while the whole HID link is usable.
THEOREM EpochMatchesLink == Spec => []SessionIffConnected
<1>1. LinkInv => SessionIffConnected
  BY DEF LinkInv, Ownership
<1> QED BY <1>1, Invariance, PTL

\* All three: bt.cpp and the radio agree.
THEOREM OwnsItsRadio == Spec => []RadioIsOwned
<1>1. EveryLinkIsOwned /\ PendingHasOwner /\ SessionIffConnected => RadioIsOwned
  BY DEF RadioIsOwned
<1> QED BY <1>1, LinksAreOwned, PendingIsOwned, EpochMatchesLink, PTL

\* Only three handlers start an attempt.
LEMMA Starters ==
    [Next]_vars /\ ~connecting /\ connecting' =>
        TickPageSaved \/ InquiryComplete \/ \E p \in Peer : ConnectionRequest(p)
<1> SUFFICES ASSUME [Next]_vars, ~connecting, connecting'
             PROVE  TickPageSaved \/ InquiryComplete \/ \E p \in Peer : ConnectionRequest(p)
  OBVIOUS
<1> USE DEF policyVars, intentVars, forgetVars, findVars, savedVars, dropVars,
            setupVars, radioVars
<1>1. ~UNCHANGED vars
  BY DEF vars
<1>2. ~Command
  BY DEF Command, BtHasSavedPeer, BtDisconnect, BtForget, StayAway, BtPair,
         BtReconnect, StartManual, BtCancelManualRequest, BtResumeAuto,
         BtSetClassicEnabled
<1>3. Tick => TickPageSaved
  BY DEF Tick, TickQuiet, TickNoInput, TickSetupTimeout, TickPendingTimeout,
         TickWatchdog, NotIdle, TickAwaitSaved, TickInquire
<1>4. ~L2capEvent
  BY DEF L2capEvent, InputReport, ChannelOpened, RefuseChannel, OpenNextChannel,
         TakeChannel, CompleteHidSession, ChannelOpenFailed, ChannelClosed,
         LoseChannel, IncomingChannel
<1>5. HciEvent => InquiryComplete \/ \E p \in Peer : ConnectionRequest(p)
  BY DEF HciEvent, StackWorking, SecurityFailed, InquiryResult, ConnectionComplete,
         ConnectionFailed, LinkKeyStored, DisconnectionComplete
<1> QED BY <1>1, <1>2, <1>3, <1>4, <1>5 DEF Next

\* None of them does while an erasure of the keys is due.
LEMMA StartersRefuseForgotten ==
    LinkInv /\ [Next]_vars => (~connecting /\ connecting' => ~forget_keys_pending')
<1> SUFFICES ASSUME LinkInv, [Next]_vars, ~connecting, connecting'
             PROVE  ~forget_keys_pending'
  OBVIOUS
<1> USE DEF policyVars, intentVars, forgetVars, findVars, savedVars, dropVars,
            setupVars, radioVars
<1>1. CASE TickPageSaved
  BY <1>1 DEF TickPageSaved, Retry, Maintain, EraseDue
<1>2. CASE InquiryComplete
  BY <1>2 DEF InquiryComplete, LinkInv, Ownership, FoundIsUsable
<1>3. ASSUME NEW p \in Peer, ConnectionRequest(p) PROVE ~forget_keys_pending'
  BY <1>3 DEF ConnectionRequest, FilterOpen
<1> QED BY <1>1, <1>2, <1>3, Starters

\* A peer the user forgot cannot slip back in with its old key: no attempt, in
\* either direction, starts before the erasure.
THEOREM NoAttemptForForgotten == Spec => NoAttemptBeforeErase
<1>1. LinkInv /\ [Next]_vars =>
        [~connecting /\ connecting' => ~forget_keys_pending']_vars
  BY StartersRefuseForgotten
<1> QED BY <1>1, Invariance, PTL DEF Spec, NoAttemptBeforeErase

-----------------------------------------------------------------------------
(* Whom an attempt is for.                                                 *)

\* Discovery runs for a bridge that has no saved controller, in its cache or in
\* the table the cache is loaded from, or for a pair request; so what it found
\* stays wanted while the cache is loaded again and again.
DiscoveryIsOpen ==
    /\ inquiring => Willing /\ NoLink /\ ~connecting
    /\ inquiring \/ (device_found /\ Willing /\ NoLink /\ ~connecting) =>
          pairing_requested \/ (keys = {} /\ saved_device = NoPeer)

\* Nothing is found before the radio runs.
LEMMA InitDiscovery == Init => DiscoveryIsOpen
BY DEF Init, DiscoveryIsOpen

\* A handler that withdraws the pair request, stores a key or loads the cache
\* ends the discovery, or does so where none runs.
LEMMA NextDiscovery == LinkInv /\ DiscoveryIsOpen /\ [Next]_vars => DiscoveryIsOpen'
<1> SUFFICES ASSUME LinkInv, DiscoveryIsOpen, [Next]_vars PROVE DiscoveryIsOpen'
  OBVIOUS
<1>0. TypeOK /\ EveryLinkIsOwned /\ InquiryIsClean /\ FoundIsUsable
  BY DEF LinkInv, Ownership
<1> USE DEF DiscoveryIsOpen, EveryLinkIsOwned, InquiryIsClean, FoundIsUsable, Governing, Connected,
            ScheduleRetry, NoLink, Willing, TypeOK, PolicyTyped, ForgetTyped, FindTyped,
            SavedTyped, DropTyped, SetupTyped, RadioTyped, SavedAmong, policyVars,
            intentVars, forgetVars, findVars, savedVars, dropVars, setupVars, radioVars
<1>1. CASE UNCHANGED vars
  BY <1>1 DEF vars
<1>2. CASE BtHasSavedPeer
  BY <1>2, <1>0 DEF BtHasSavedPeer
<1>3. CASE BtDisconnect
  BY <1>3, <1>0 DEF BtDisconnect, StayAway
<1>4. CASE BtForget
  BY <1>4, <1>0 DEF BtForget, StayAway
<1>5. CASE BtPair
  BY <1>5, <1>0 DEF BtPair, StartManual
<1>6. CASE BtReconnect
  BY <1>6, <1>0 DEF BtReconnect, StartManual
<1>7. CASE BtCancelManualRequest
  BY <1>7, <1>0 DEF BtCancelManualRequest, CancelPairErasure, ManualAttempt
<1>8. CASE BtResumeAuto
  BY <1>8, <1>0 DEF BtResumeAuto, CancelPairErasure, ManualAttempt
<1>9. ASSUME NEW enabled \in BOOLEAN, BtSetClassicEnabled(enabled) PROVE DiscoveryIsOpen'
  BY <1>9, <1>0 DEF BtSetClassicEnabled
<1>10. ASSUME NotIdle, dropVars' = dropVars \/ DisconnectLink PROVE DiscoveryIsOpen'
  BY <1>10, <1>0 DEF NotIdle, Maintain, KeptKeys, WorkingEdge, EraseDue, PruneDue
<1>11. CASE TickAwaitSaved
  BY <1>11, <1>0 DEF TickAwaitSaved, Retry, Maintain, KeptKeys, WorkingEdge, EraseDue, PruneDue
<1>12. CASE TickPageSaved
  BY <1>12, <1>0 DEF TickPageSaved, StartOutgoingHid, Retry, Maintain, KeptKeys,
     WorkingEdge, EraseDue, PruneDue
<1>13. CASE TickInquire
  BY <1>13, <1>0, PeerAssumption DEF TickInquire, Retry, Maintain, KeptKeys, WorkingEdge,
     EraseDue, PruneDue
<1>14. CASE StackWorking
  BY <1>14, <1>0 DEF StackWorking
<1>15. ASSUME NEW p \in Peer, InquiryResult(p) PROVE DiscoveryIsOpen'
  BY <1>15, <1>0 DEF InquiryResult
<1>16. CASE InquiryComplete
  BY <1>16, <1>0 DEF InquiryComplete, StartOutgoingHid
<1>17. ASSUME NEW p \in Peer, ConnectionRequest(p) PROVE DiscoveryIsOpen'
  BY <1>17, <1>0 DEF ConnectionRequest, FilterOpen
<1>18. ASSUME NEW p \in Peer, ConnectionComplete(p) PROVE DiscoveryIsOpen'
  BY <1>18, <1>0, PeerAssumption DEF ConnectionComplete, RetainedHandle
<1>19. ASSUME NEW p \in Peer, ConnectionFailed(p) PROVE DiscoveryIsOpen'
  BY <1>19, <1>0 DEF ConnectionFailed
<1>20. CASE SecurityFailed
  BY <1>20, <1>0 DEF SecurityFailed
<1>21. ASSUME NEW p \in Peer, LinkKeyStored(p) PROVE DiscoveryIsOpen'
  BY <1>21, <1>0, PeerAssumption DEF LinkKeyStored
<1>22. ASSUME NEW p \in Peer, DisconnectionComplete(p) PROVE DiscoveryIsOpen'
  BY <1>22, <1>0, PeerAssumption DEF DisconnectionComplete
<1>23. ASSUME NEW c \in Channel, ChannelOpened(c) PROVE DiscoveryIsOpen'
  BY <1>23, <1>0 DEF ChannelOpened, RefuseChannel, OpenNextChannel, TakeChannel,
     CompleteHidSession
<1>24. ASSUME NEW c \in Channel, ChannelOpenFailed(c) PROVE DiscoveryIsOpen'
  BY <1>24, <1>0 DEF ChannelOpenFailed, LoseChannel
<1>25. ASSUME NEW c \in Channel, ChannelClosed(c) PROVE DiscoveryIsOpen'
  BY <1>25, <1>0 DEF ChannelClosed, LoseChannel
<1>26. ASSUME NEW c \in Channel, IncomingChannel(c) PROVE DiscoveryIsOpen'
  BY <1>26, <1>0 DEF IncomingChannel
<1>27. CASE InputReport
  BY <1>27, <1>0 DEF InputReport
<1>28. TickQuiet \/ TickNoInput \/ TickSetupTimeout \/ TickPendingTimeout
          => NotIdle /\ (dropVars' = dropVars \/ DisconnectLink)
  BY DEF TickQuiet, TickNoInput, TickSetupTimeout, TickPendingTimeout, TickWatchdog
<1> QED
  BY <1>1, <1>2, <1>3, <1>4, <1>5, <1>6, <1>7, <1>8, <1>9, <1>10, <1>11, <1>12,
     <1>13, <1>14, <1>15, <1>16, <1>17, <1>18, <1>19, <1>20, <1>21, <1>22, <1>23,
     <1>24, <1>25, <1>26, <1>27, <1>28 DEF Next, Command, Tick, HciEvent, L2capEvent

\* Each of the three handlers that start an attempt starts one that is wanted.
LEMMA StartersKeepToSaved ==
    LinkInv /\ DiscoveryIsOpen /\ [Next]_vars =>
        (~connecting /\ connecting' =>
            saved_device' \in {NoPeer, current_device'} \/ pairing_requested)
<1> SUFFICES ASSUME LinkInv, DiscoveryIsOpen, [Next]_vars, ~connecting, connecting'
             PROVE  saved_device' \in {NoPeer, current_device'} \/ pairing_requested
  OBVIOUS
<1>1. CASE TickPageSaved
  BY <1>1 DEF TickPageSaved
<1>2. CASE InquiryComplete
  BY <1>2 DEF InquiryComplete, DiscoveryIsOpen, savedVars
<1>3. ASSUME NEW p \in Peer, ConnectionRequest(p)
      PROVE  saved_device' \in {NoPeer, current_device'} \/ pairing_requested
  BY <1>3 DEF ConnectionRequest
<1> QED BY <1>1, <1>2, <1>3, Starters

\* With a saved peer, and no pairing, only that peer gets an attempt, however
\* old the inquiry answer that named it; and none gets one before an erasure
\* that is due.
THEOREM OnlyWantedAttempts == Spec => AttemptsAreWanted
<1>1. Init => LinkInv /\ DiscoveryIsOpen
  BY InitLinkInv, InitDiscovery
<1>2. LinkInv /\ DiscoveryIsOpen /\ [Next]_vars => (LinkInv /\ DiscoveryIsOpen)'
  BY NextLinkInv, NextDiscovery
<1>3. LinkInv /\ DiscoveryIsOpen /\ [Next]_vars =>
        [~connecting /\ connecting' =>
            \/ saved_device' \in {NoPeer, current_device'}
            \/ pairing_requested]_vars
  BY StartersKeepToSaved
<1>4. Spec => OnlySavedPeer
  BY <1>1, <1>2, <1>3, PTL DEF Spec, OnlySavedPeer
<1> QED BY <1>4, NoAttemptForForgotten DEF AttemptsAreWanted

-----------------------------------------------------------------------------
(* The refinement of HidLink.                                              *)

\* Nothing is linked at first.
LEMMA InitMaps == Init => Lifecycle!Init
BY DEF Init, Lifecycle!Init

\* disconnect_link leaves a link, gives up an attempt, or finds neither.
LEMMA DisconnectLinkMaps ==
    ASSUME LinkInv, DisconnectLink, UNCHANGED <<acl_handle, chan_open>>
    PROVE  [Lifecycle!Next]_(Lifecycle!linkVars)
<1>1. TypeOK /\ SessionIffConnected
  BY DEF LinkInv, Ownership
<1>2. CASE NoLink
  <2>1. Lifecycle!Attempt
    BY <1>1, <1>2 DEF DisconnectLink, HangUp, Lifecycle!Attempt, NoLink, SessionIffConnected,
       Connected, TypeOK, DropTyped, SetupTyped
  <2> QED BY <2>1 DEF Lifecycle!Next
<1>3. CASE ~NoLink
  <2>1. Lifecycle!Leave
    BY <1>1, <1>3 DEF DisconnectLink, Lifecycle!Leave, NoLink
  <2> QED BY <2>1 DEF Lifecycle!Next
<1> QED BY <1>2, <1>3

\* A channel of the link opens: alone, as the second one, or unwanted.
LEMMA ChannelOpenedMaps ==
    ASSUME LinkInv, NEW c \in Channel, ChannelOpened(c)
    PROVE  [Lifecycle!Next]_(Lifecycle!linkVars)
<1>1. /\ TypeOK /\ SessionIffConnected /\ ChannelsOnLink
      /\ acl_handle # NoPeer /\ acl_handle' = acl_handle
  BY DEF LinkInv, Ownership, ChannelOpened, NoLink, RefuseChannel, OpenNextChannel, TakeChannel,
     CompleteHidSession, setupVars
<1>2. CASE RefuseChannel(c)
  BY <1>2 DEF RefuseChannel, setupVars, dropVars, Lifecycle!linkVars
<1>3. CASE OpenNextChannel(c)
  <2>1. ~disconnect_pending /\ chan_open' = chan_open \cup {c}
    BY <1>3 DEF OpenNextChannel, Governing
  <2>2. CASE UNCHANGED dropVars
    <3>1. "interrupt" \notin chan_open' /\ session = FALSE
      BY <1>1, <1>3 DEF OpenNextChannel, ChannelsOnLink, SessionIffConnected, Connected, Channel,
         TypeOK, DropTyped
    <3>2. Lifecycle!ChannelUp(c)
      BY <1>1, <2>1, <2>2, <3>1 DEF Lifecycle!ChannelUp, Lifecycle!Channel, dropVars
    <3> QED BY <3>2 DEF Lifecycle!Next, Lifecycle!Channel, Channel
  <2>3. CASE DisconnectLink
    <3>1. Lifecycle!ChannelAlone(c)
      BY <1>1, <2>1, <2>3 DEF Lifecycle!ChannelAlone, DisconnectLink, NoLink
    <3> QED BY <3>1 DEF Lifecycle!Next, Lifecycle!Channel, Channel
  <2> QED BY <1>3, <2>2, <2>3 DEF OpenNextChannel
<1>4. CASE TakeChannel(c)
  <2>1. /\ ~disconnect_pending /\ disconnect_pending' = disconnect_pending
        /\ chan_open' = chan_open \cup {c} /\ Governing
    BY <1>4 DEF TakeChannel, Governing
  <2>2. session' = (chan_open' = Channel)
    BY <1>1, <1>4, <2>1 DEF TakeChannel, CompleteHidSession, SessionIffConnected, Connected,
       NoLink, TypeOK, DropTyped, SetupTyped
  <2>3. Lifecycle!ChannelUp(c)
    BY <1>1, <2>1, <2>2 DEF Lifecycle!ChannelUp, Lifecycle!Channel, Channel
  <2> QED BY <2>3 DEF Lifecycle!Next, Lifecycle!Channel, Channel
<1> QED BY <1>2, <1>3, <1>4 DEF ChannelOpened

\* Every handler is one step of the lifecycle, or none.
LEMMA NextMaps == LinkInv /\ [Next]_vars => [Lifecycle!Next]_(Lifecycle!linkVars)
<1> SUFFICES ASSUME LinkInv, [Next]_vars PROVE [Lifecycle!Next]_(Lifecycle!linkVars)
  OBVIOUS
<1>0. /\ TypeOK /\ EveryLinkIsOwned /\ SessionIffConnected /\ ChannelsOnLink
  BY DEF LinkInv, Ownership
<1> USE DEF setupVars, dropVars, policyVars, intentVars, forgetVars, findVars, savedVars, radioVars
<1>1. CASE UNCHANGED vars
  BY <1>1 DEF vars, Lifecycle!linkVars
<1>2. CASE Command
  <2>1. UNCHANGED <<acl_handle, chan_open>> /\ (DisconnectLink \/ UNCHANGED <<session, disconnect_pending>>)
    BY <1>2 DEF Command, BtHasSavedPeer, BtDisconnect, BtForget, StayAway, BtPair, BtReconnect,
       StartManual, BtCancelManualRequest, BtResumeAuto, BtSetClassicEnabled
  <2> QED BY <2>1, DisconnectLinkMaps DEF Lifecycle!linkVars
<1>3. CASE TickQuiet \/ TickNoInput \/ TickSetupTimeout \/ TickPendingTimeout
  <2>1. UNCHANGED <<acl_handle, chan_open>> /\ (DisconnectLink \/ UNCHANGED <<session, disconnect_pending>>)
    BY <1>3 DEF TickQuiet, TickNoInput, TickSetupTimeout, TickPendingTimeout, TickWatchdog,
       NotIdle, Maintain
  <2> QED BY <2>1, DisconnectLinkMaps DEF Lifecycle!linkVars
<1>4. CASE TickAwaitSaved \/ TickPageSaved \/ TickInquire
  <2>1. UNCHANGED <<acl_handle, chan_open, session, disconnect_pending>>
    BY <1>4, <1>0 DEF TickAwaitSaved, TickPageSaved, TickInquire, Retry, Maintain, Governing,
       StartOutgoingHid, TypeOK, DropTyped
  <2> QED BY <2>1 DEF Lifecycle!linkVars
<1>5. CASE StackWorking \/ \E p \in Peer : InquiryResult(p) \/ ConnectionRequest(p) \/ LinkKeyStored(p)
  <2>1. UNCHANGED <<acl_handle, chan_open, session, disconnect_pending>>
    BY <1>5 DEF StackWorking, InquiryResult, ConnectionRequest, LinkKeyStored
  <2> QED BY <2>1 DEF Lifecycle!linkVars
<1>6. CASE InquiryComplete
  <2>1. /\ UNCHANGED <<acl_handle, chan_open, session>>
        /\ UNCHANGED disconnect_pending \/ (NoLink /\ disconnect_pending' = FALSE)
    BY <1>6 DEF InquiryComplete, StartOutgoingHid
  <2>2. CASE NoLink /\ disconnect_pending' = FALSE
    <3>1. Lifecycle!Attempt
      BY <2>1, <2>2 DEF Lifecycle!Attempt, NoLink
    <3> QED BY <3>1 DEF Lifecycle!Next
  <2> QED BY <2>1, <2>2 DEF Lifecycle!linkVars
<1>7. ASSUME NEW p \in Peer, ConnectionComplete(p) PROVE [Lifecycle!Next]_(Lifecycle!linkVars)
  <2>1. /\ acl_handle = NoPeer /\ acl_handle' \in {NoPeer, p} /\ p # NoPeer
        /\ UNCHANGED <<chan_open, session, disconnect_pending>>
    BY <1>7, <1>0, PeerAssumption DEF ConnectionComplete, RetainedHandle, EveryLinkIsOwned, NoLink
  <2>2. CASE acl_handle' = NoPeer
    BY <2>1, <2>2 DEF Lifecycle!linkVars
  <2>3. CASE acl_handle' = p
    <3>1. Lifecycle!Up
      BY <2>1, <2>3 DEF Lifecycle!Up
    <3> QED BY <3>1 DEF Lifecycle!Next
  <2> QED BY <2>1, <2>2, <2>3
<1>8. ASSUME NEW p \in Peer, ConnectionFailed(p) PROVE [Lifecycle!Next]_(Lifecycle!linkVars)
  <2>1. /\ acl_handle = NoPeer /\ acl_handle' = NoPeer /\ chan_open = {} /\ session = FALSE
        /\ disconnect_pending' \in BOOLEAN
    BY <1>8, <1>0, PeerAssumption DEF ConnectionFailed, EveryLinkIsOwned, ChannelsOnLink, NoLink,
       SessionIffConnected, Connected, TypeOK, DropTyped
  <2>2. chan_open' = {} /\ session' = FALSE
    BY <1>8, <2>1 DEF ConnectionFailed
  <2>3. Lifecycle!Attempt
    BY <2>1, <2>2 DEF Lifecycle!Attempt
  <2> QED BY <2>3 DEF Lifecycle!Next
<1>9. CASE SecurityFailed
  BY <1>9, DisconnectLinkMaps DEF SecurityFailed
<1>10. ASSUME NEW p \in Peer, DisconnectionComplete(p) PROVE [Lifecycle!Next]_(Lifecycle!linkVars)
  <2>1. p = acl_handle /\ acl_handle # NoPeer
    BY <1>10, <1>0, PeerAssumption DEF DisconnectionComplete, EveryLinkIsOwned
  <2>2. Lifecycle!Down
    BY <1>10, <2>1 DEF DisconnectionComplete, Lifecycle!Down
  <2> QED BY <2>2 DEF Lifecycle!Next
<1>11. ASSUME NEW c \in Channel, ChannelOpened(c) PROVE [Lifecycle!Next]_(Lifecycle!linkVars)
  BY <1>11, ChannelOpenedMaps
<1>12. ASSUME NEW c \in Channel, LoseChannel(c), acl_handle # NoPeer
       PROVE  [Lifecycle!Next]_(Lifecycle!linkVars)
  <2>1. CASE c \in hid_cid
    <3>1. Lifecycle!ChannelDown(c)
      BY <1>12, <2>1 DEF LoseChannel, DisconnectLink, NoLink, Lifecycle!ChannelDown
    <3> QED BY <3>1 DEF Lifecycle!Next, Lifecycle!Channel, Channel
  <2>2. CASE c \notin hid_cid
    BY <1>12, <2>2 DEF LoseChannel, Lifecycle!linkVars
  <2> QED BY <2>1, <2>2
<1>13. ASSUME NEW c \in Channel, ChannelOpenFailed(c) \/ ChannelClosed(c)
       PROVE  LoseChannel(c) /\ acl_handle # NoPeer
  BY <1>13, <1>0 DEF ChannelOpenFailed, ChannelClosed, ChannelsOnLink, NoLink
<1>14. ASSUME NEW c \in Channel, IncomingChannel(c) PROVE [Lifecycle!Next]_(Lifecycle!linkVars)
  BY <1>14 DEF IncomingChannel, Lifecycle!linkVars
<1>15. CASE InputReport
  <2>1. UNCHANGED <<acl_handle, chan_open>> /\ (DisconnectLink \/ UNCHANGED <<session, disconnect_pending>>)
    BY <1>15 DEF InputReport
  <2> QED BY <2>1, DisconnectLinkMaps DEF Lifecycle!linkVars
<1> QED
  BY <1>1, <1>2, <1>3, <1>4, <1>5, <1>6, <1>7, <1>8, <1>9, <1>10, <1>11, <1>12,
     <1>13, <1>14, <1>15 DEF Next, Tick, HciEvent, L2capEvent

\* Everything that uses the link may rely on HidLink: sessions begin with the
\* second channel, end before the link does, and begin anew on a new link only.
THEOREM LinkHasLifecycle == Spec => KeepsLifecycle
BY InitMaps, NextMaps, Invariance, PTL DEF Spec, KeepsLifecycle, Lifecycle!Spec

-----------------------------------------------------------------------------
(* The bond of the controller in use.                                      *)

\* What prune_link_keys keeps is the controller of the link.
BondIsKept == acl_handle \in {NoPeer, current_device} /\ SessionKeepsItsBond

\* Without a link there is no bond to keep.
LEMMA InitBond == Init => BondIsKept
BY DEF Init, BondIsKept, SessionKeepsItsBond

\* Keys are erased without a link only, and pruned to the peer of the link; a
\* session finds the key of its peer in the table and asks for the pruning.
LEMMA NextBond == LinkInv /\ BondIsKept /\ [Next]_vars => BondIsKept'
<1> SUFFICES ASSUME LinkInv, BondIsKept, [Next]_vars PROVE BondIsKept'
  OBVIOUS
<1>0. TypeOK /\ EveryLinkIsOwned /\ SessionIffConnected
  BY DEF LinkInv, Ownership
<1>1. session => ~NoLink
  BY <1>0 DEF SessionIffConnected, Connected
<1> USE DEF BondIsKept, SessionKeepsItsBond, setupVars, dropVars, policyVars, intentVars,
            forgetVars, findVars, savedVars, radioVars
<1>2. ASSUME UNCHANGED <<acl_handle, current_device, keys, prune_keys_pending>>,
             (session' => session)
      PROVE  BondIsKept'
  BY <1>2
<1>3. CASE UNCHANGED vars
  BY <1>3, <1>2 DEF vars
<1>4. CASE Command
  <2>1. UNCHANGED <<acl_handle, current_device, keys, prune_keys_pending>>
    BY <1>4 DEF Command, BtHasSavedPeer, BtDisconnect, BtForget, StayAway, BtPair, BtReconnect,
       StartManual, BtCancelManualRequest, BtResumeAuto, BtSetClassicEnabled
  <2>2. session' => session
    BY <1>4 DEF Command, BtHasSavedPeer, BtDisconnect, BtForget, StayAway, BtPair, BtReconnect,
       StartManual, BtCancelManualRequest, BtResumeAuto, BtSetClassicEnabled, DisconnectLink
  <2> QED BY <2>1, <2>2, <1>2
<1>5. ASSUME NotIdle, (session' => session) PROVE BondIsKept'
  <2>1. UNCHANGED acl_handle /\ (~NoLink => UNCHANGED current_device)
    BY <1>5 DEF NotIdle, Maintain, EraseDue
  <2>2. CASE ~session'
    BY <2>1, <2>2, <1>5, <1>0 DEF NotIdle, Maintain, EraseDue, NoLink, TypeOK, SavedTyped, SetupTyped
  <2>3. CASE session'
    <3>1. session /\ ~NoLink /\ acl_handle = current_device /\ acl_handle \in keys
      BY <1>5, <1>1, <2>3 DEF NoLink
    <3>2. CASE prune_keys_pending
      <4>1. keys' = keys \cap {current_device} /\ prune_keys_pending' = FALSE
        BY <1>5, <3>1, <3>2 DEF NotIdle, Maintain, KeptKeys, EraseDue, PruneDue
      <4> QED BY <2>1, <3>1, <4>1
    <3>3. CASE ~prune_keys_pending
      <4>1. keys' = keys /\ keys = {acl_handle}
        BY <1>5, <3>1, <3>3 DEF NotIdle, Maintain, KeptKeys, EraseDue, PruneDue
      <4> QED BY <2>1, <3>1, <4>1
    <3> QED BY <3>2, <3>3
  <2> QED BY <2>2, <2>3
<1>6. TickQuiet \/ TickNoInput \/ TickSetupTimeout \/ TickPendingTimeout
        => NotIdle /\ (session' => session)
  BY DEF TickQuiet, TickNoInput, TickSetupTimeout, TickPendingTimeout, TickWatchdog, DisconnectLink
<1>7. ASSUME NoLink, UNCHANGED <<acl_handle, session>> PROVE BondIsKept'
  BY <1>7, <1>1 DEF NoLink
<1>8. CASE TickAwaitSaved \/ TickPageSaved \/ TickInquire
  BY <1>8, <1>7 DEF TickAwaitSaved, TickPageSaved, TickInquire, Retry, Maintain, StartOutgoingHid
<1>9. CASE StackWorking \/ InquiryComplete \/ SecurityFailed
  BY <1>9, <1>2 DEF StackWorking, InquiryComplete, StartOutgoingHid, SecurityFailed, DisconnectLink
<1>10. ASSUME NEW p \in Peer, InquiryResult(p) \/ ConnectionRequest(p) PROVE BondIsKept'
  BY <1>10, <1>7 DEF InquiryResult, ConnectionRequest, FilterOpen
<1>11. ASSUME NEW p \in Peer, ConnectionComplete(p) PROVE BondIsKept'
  BY <1>11, <1>0, <1>1 DEF ConnectionComplete, RetainedHandle, EveryLinkIsOwned
<1>12. ASSUME NEW p \in Peer, ConnectionFailed(p) PROVE BondIsKept'
  BY <1>12, <1>2, <1>0 DEF ConnectionFailed, TypeOK, DropTyped
<1>13. ASSUME NEW p \in Peer, LinkKeyStored(p) PROVE BondIsKept'
  BY <1>13, <1>0 DEF LinkKeyStored, EveryLinkIsOwned
<1>14. ASSUME NEW p \in Peer, DisconnectionComplete(p) PROVE BondIsKept'
  BY <1>14, <1>2 DEF DisconnectionComplete
<1>15. ASSUME NEW c \in Channel, ChannelOpened(c) PROVE BondIsKept'
  <2>1. UNCHANGED <<acl_handle, current_device, keys>> /\ acl_handle \in keys
    BY <1>15 DEF ChannelOpened, RefuseChannel, OpenNextChannel, TakeChannel, CompleteHidSession
  <2>2. ((session' => session) /\ UNCHANGED prune_keys_pending) \/ prune_keys_pending'
    BY <1>15 DEF ChannelOpened, RefuseChannel, OpenNextChannel, TakeChannel, CompleteHidSession,
       DisconnectLink
  <2> QED BY <2>1, <2>2
<1>16. ASSUME NEW c \in Channel, LoseChannel(c) \/ IncomingChannel(c) PROVE BondIsKept'
  BY <1>16, <1>2 DEF LoseChannel, IncomingChannel, DisconnectLink
<1>17. CASE InputReport
  BY <1>17, <1>2 DEF InputReport, DisconnectLink
<1> QED
  BY <1>3, <1>4, <1>5, <1>6, <1>8, <1>9, <1>10, <1>11, <1>12, <1>13, <1>14, <1>15, <1>16, <1>17
     DEF Next, Tick, HciEvent, L2capEvent, ChannelOpenFailed, ChannelClosed

\* The controller in use keeps its bond, and is alone in the table once the
\* pruning is done: the next boot can only choose the controller used last.
THEOREM KeepsBond == Spec => []SessionKeepsItsBond
<1>1. Init => LinkInv /\ BondIsKept
  BY InitLinkInv, InitBond
<1>2. LinkInv /\ BondIsKept /\ [Next]_vars => (LinkInv /\ BondIsKept)'
  BY NextLinkInv, NextBond
<1>3. BondIsKept => SessionKeepsItsBond
  BY DEF BondIsKept
<1> QED BY <1>1, <1>2, <1>3, PTL DEF Spec

-----------------------------------------------------------------------------
(* The policy keeps going.                                                 *)

\* Without a link the only channel is the queued one of an attempt.
QueuedOnAttempt ==
    NoLink => /\ hid_cid \subseteq {"control"}
              /\ "control" \in hid_cid => connecting /\ chan["control"] = "opening"

Waiting ==
    /\ hci_working /\ stack_was_working
    /\ Willing
    /\ NoLink /\ ~connecting /\ ~inquiring

\* A retry is given up only for a saved controller that can page, whose key is
\* in the table and stays there.
WaitsForSaved ==
    Waiting /\ ~retry_due =>
        page_scan /\ saved_device # NoPeer /\ keys # {} /\ ~forget_keys_pending

GoesOn == QueuedOnAttempt /\ WaitsForSaved

\* The stack has not been seen working yet.
LEMMA InitGoesOn == Init => GoesOn
BY DEF Init, GoesOn, QueuedOnAttempt, WaitsForSaved, Waiting

\* The queued channel ends with the attempt, and only an attempt queues one.
LEMMA NextQueued == LinkInv /\ GoesOn /\ [Next]_vars => QueuedOnAttempt'
<1> SUFFICES ASSUME LinkInv, GoesOn, [Next]_vars PROVE QueuedOnAttempt'
  OBVIOUS
<1>0. TypeOK /\ EveryLinkIsOwned /\ ChannelsOnLink
  BY DEF LinkInv, Ownership
<1> USE DEF GoesOn, QueuedOnAttempt, NoLink, setupVars, dropVars, policyVars, intentVars,
            forgetVars, findVars, savedVars, radioVars
<1>1. ASSUME UNCHANGED <<acl_handle, connecting, hid_cid, chan>> PROVE QueuedOnAttempt'
  BY <1>1
<1>2. CASE UNCHANGED vars
  BY <1>2, <1>1 DEF vars
<1>3. CASE Command
  BY <1>3, <1>1 DEF Command, BtHasSavedPeer, BtDisconnect, BtForget, StayAway, BtPair, BtReconnect,
     StartManual, BtCancelManualRequest, BtResumeAuto, BtSetClassicEnabled
<1>4. CASE TickQuiet \/ TickNoInput \/ TickSetupTimeout \/ TickPendingTimeout \/ TickAwaitSaved \/ TickInquire
  BY <1>4, <1>1 DEF TickQuiet, TickNoInput, TickSetupTimeout, TickPendingTimeout, TickWatchdog, NotIdle,
     Maintain, TickAwaitSaved, TickInquire, Retry
<1>5. ASSUME NEW p, NEW armed, StartOutgoingHid(p, armed), NoLink, hid_cid = {}, UNCHANGED acl_handle
      PROVE  QueuedOnAttempt'
  BY <1>5, <1>0 DEF StartOutgoingHid, TypeOK, RadioTyped, Channel
<1>6. CASE TickPageSaved
  BY <1>6, <1>5 DEF TickPageSaved, Retry, Maintain
<1>7. CASE InquiryComplete
  <2>1. CASE UNCHANGED <<connecting, hid_cid, chan>>
    BY <1>7, <2>1 DEF InquiryComplete
  <2>2. CASE ~UNCHANGED <<connecting, hid_cid, chan>>
    <3>1. StartOutgoingHid(current_device, retry_due) /\ NoLink /\ ~connecting /\ UNCHANGED acl_handle
      BY <1>7, <2>2 DEF InquiryComplete
    <3>2. hid_cid = {}
      BY <3>1
    <3> QED BY <3>1, <3>2, <1>5
  <2> QED BY <2>1, <2>2
<1>8. CASE StackWorking \/ SecurityFailed \/ InputReport
  BY <1>8, <1>1 DEF StackWorking, SecurityFailed, InputReport
<1>9. ASSUME NEW p \in Peer, InquiryResult(p) \/ ConnectionRequest(p) \/ LinkKeyStored(p)
      PROVE  QueuedOnAttempt'
  BY <1>9, <1>0 DEF InquiryResult, ConnectionRequest, LinkKeyStored
<1>10. ASSUME NEW p \in Peer, ConnectionComplete(p) PROVE QueuedOnAttempt'
  BY <1>10, <1>0 DEF ConnectionComplete, RetainedHandle, EveryLinkIsOwned
<1>11. ASSUME NEW p \in Peer, ConnectionFailed(p) PROVE QueuedOnAttempt'
  <2>1. NoLink /\ "control" \in hid_cid => chan["control"] = "opening"
    BY DEF NoLink
  <2>2. NoLink' => hid_cid' = {}
    BY <1>11, <2>1 DEF ConnectionFailed
  <2> QED BY <2>2
<1>12. ASSUME NEW p \in Peer, DisconnectionComplete(p) PROVE QueuedOnAttempt'
  BY <1>12 DEF DisconnectionComplete
<1>13. ASSUME NEW c \in Channel,
              ChannelOpened(c) \/ ChannelOpenFailed(c) \/ IncomingChannel(c) \/ ChannelClosed(c)
       PROVE  QueuedOnAttempt'
  <2>1. acl_handle # NoPeer
    BY <1>13, <1>0 DEF ChannelOpened, ChannelOpenFailed, IncomingChannel, ChannelClosed, ChannelsOnLink
  <2>2. acl_handle' = acl_handle
    BY <1>13 DEF ChannelOpened, RefuseChannel, OpenNextChannel, TakeChannel, ChannelOpenFailed,
       ChannelClosed, LoseChannel, IncomingChannel
  <2> QED BY <2>1, <2>2
<1>15. CASE L2capEvent
  <2>1. CASE InputReport
    BY <2>1, <1>8
  <2>2. CASE ~InputReport
    <3>1. PICK c \in Channel : \/ ChannelOpened(c) \/ ChannelOpenFailed(c)
                               \/ IncomingChannel(c) \/ ChannelClosed(c)
      BY <1>15, <2>2 DEF L2capEvent
    <3> QED BY <3>1, <1>13
  <2> QED BY <2>1, <2>2
<1>16. HciEvent => QueuedOnAttempt'
  BY <1>7, <1>8, <1>9, <1>10, <1>11, <1>12 DEF HciEvent
<1>17. Tick => QueuedOnAttempt'
  BY <1>4, <1>6 DEF Tick
<1> QED BY <1>2, <1>3, <1>15, <1>16, <1>17 DEF Next

\* Whatever ends an attempt, an inquiry, a link or the policy to stay away arms
\* a retry; whatever takes a retry starts one of them, or has a saved peer.
LEMMA NextWaits == LinkInv /\ GoesOn /\ [Next]_vars => WaitsForSaved'
<1> SUFFICES ASSUME LinkInv, GoesOn, [Next]_vars, Waiting', ~retry_due'
             PROVE  (page_scan /\ saved_device # NoPeer /\ keys # {} /\ ~forget_keys_pending)'
  BY DEF WaitsForSaved
<1>0. TypeOK /\ EveryLinkIsOwned
  BY DEF LinkInv, Ownership
<1> USE PeerAssumption DEF GoesOn, WaitsForSaved, Waiting, NoLink, Willing, Governing, ScheduleRetry,
        SavedAmong, setupVars, dropVars, policyVars, intentVars, forgetVars, findVars, savedVars, radioVars,
        TypeOK, PolicyTyped, FindTyped, SavedTyped, RadioTyped
<1>2. CASE UNCHANGED vars
  BY <1>2 DEF vars
<1>3. CASE BtHasSavedPeer
  BY <1>3, <1>0 DEF BtHasSavedPeer
<1>4. CASE BtDisconnect \/ BtForget
  BY <1>4 DEF BtDisconnect, BtForget, StayAway
<1>5. CASE BtPair \/ BtReconnect
  BY <1>5 DEF BtPair, BtReconnect, StartManual
<1>6. CASE BtCancelManualRequest
  BY <1>6, <1>0 DEF BtCancelManualRequest, CancelPairErasure
<1>7. CASE BtResumeAuto
  BY <1>7, <1>0 DEF BtResumeAuto, CancelPairErasure
<1>8. ASSUME NEW enabled \in BOOLEAN, BtSetClassicEnabled(enabled)
      PROVE  (page_scan /\ saved_device # NoPeer /\ keys # {} /\ ~forget_keys_pending)'
  BY <1>8, <1>0 DEF BtSetClassicEnabled
<1>9. CASE NotIdle
  BY <1>9, <1>0 DEF NotIdle, Maintain, KeptKeys, WorkingEdge, EraseDue, PruneDue
<1>10. TickQuiet \/ TickNoInput \/ TickSetupTimeout \/ TickPendingTimeout => NotIdle
  BY DEF TickQuiet, TickNoInput, TickSetupTimeout, TickPendingTimeout, TickWatchdog
<1>11. CASE TickAwaitSaved
  BY <1>11, <1>0 DEF TickAwaitSaved, Retry, Maintain, KeptKeys, EraseDue, PruneDue
<1>12. CASE TickPageSaved
  BY <1>12, <1>0 DEF TickPageSaved, StartOutgoingHid, Retry, Maintain, KeptKeys, EraseDue, PruneDue
<1>13. CASE TickInquire
  BY <1>13, <1>0 DEF TickInquire, Retry, Maintain, KeptKeys, EraseDue, PruneDue
<1>14. CASE StackWorking
  BY <1>14, <1>0 DEF StackWorking
<1>15. CASE InquiryComplete
  BY <1>15, <1>0 DEF InquiryComplete, StartOutgoingHid
<1>16. ASSUME NEW p \in Peer, InquiryResult(p) \/ ConnectionRequest(p) \/ LinkKeyStored(p)
       PROVE  (page_scan /\ saved_device # NoPeer /\ keys # {} /\ ~forget_keys_pending)'
  <2>1. CASE InquiryResult(p)
    BY <2>1 DEF InquiryResult
  <2>2. CASE ConnectionRequest(p)
    <3>1. ~connecting' => UNCHANGED <<connecting, inquiring>>
      BY <2>2 DEF ConnectionRequest
    <3>2. UNCHANGED <<hci_working, stack_was_working, classic_enabled, reconnect_suppressed, acl_handle,
                      page_scan, keys, forget_keys_pending, retry_due>>
      BY <2>2 DEF ConnectionRequest
    <3>3. saved_device # NoPeer => saved_device' = saved_device
      BY <2>2 DEF ConnectionRequest
    <3> QED BY <3>1, <3>2, <3>3
  <2>3. CASE LinkKeyStored(p)
    BY <2>3 DEF LinkKeyStored
  <2> QED BY <1>16, <2>1, <2>2, <2>3
<1>17. ASSUME NEW p \in Peer, ConnectionComplete(p)
       PROVE  (page_scan /\ saved_device # NoPeer /\ keys # {} /\ ~forget_keys_pending)'
  BY <1>17, <1>0 DEF ConnectionComplete, RetainedHandle, EveryLinkIsOwned
<1>18. ASSUME NEW p \in Peer, ConnectionFailed(p) \/ DisconnectionComplete(p)
       PROVE  (page_scan /\ saved_device # NoPeer /\ keys # {} /\ ~forget_keys_pending)'
  <2>1. CASE ConnectionFailed(p)
    <3>1. connecting /\ p = current_device
      BY <2>1, <1>0 DEF ConnectionFailed, EveryLinkIsOwned
    <3>2. retry_due' = Willing /\ UNCHANGED <<classic_enabled, reconnect_suppressed>>
      BY <2>1, <3>1 DEF ConnectionFailed
    <3> QED BY <3>2
  <2>2. CASE DisconnectionComplete(p)
    <3>1. p = acl_handle
      BY <2>2, <1>0 DEF DisconnectionComplete, EveryLinkIsOwned
    <3>2. retry_due' = Willing /\ UNCHANGED <<classic_enabled, reconnect_suppressed>>
      BY <2>2, <3>1 DEF DisconnectionComplete
    <3> QED BY <3>2
  <2> QED BY <1>18, <2>1, <2>2
<1>19. CASE L2capEvent \/ SecurityFailed
  <2>1. ~NoLink /\ ~NoLink'
    BY <1>19, <1>0 DEF L2capEvent, InputReport, Connected, ChannelOpened, RefuseChannel, OpenNextChannel,
       TakeChannel, ChannelOpenFailed, ChannelClosed, LoseChannel, IncomingChannel, SecurityFailed,
       LinkInv, Ownership, ChannelsOnLink
  <2> QED BY <2>1
<1> QED
  BY <1>2, <1>3, <1>4, <1>5, <1>6, <1>7, <1>8, <1>9, <1>10, <1>11, <1>12, <1>13, <1>14, <1>15, <1>16,
     <1>17, <1>18, <1>19 DEF Next, Command, Tick, HciEvent

\* The policy never strands: idle, it has a retry armed, or listens for a
\* controller it has saved; a lost schedule_retry would need a power cycle.
THEOREM PolicyGoesOn == Spec => []NeverStranded
<1>1. Init => LinkInv /\ GoesOn
  BY InitLinkInv, InitGoesOn
<1>2. LinkInv /\ GoesOn /\ [Next]_vars => (LinkInv /\ GoesOn)'
  BY NextLinkInv, NextQueued, NextWaits DEF GoesOn
<1>3. LinkInv /\ GoesOn => NeverStranded
  BY DEF GoesOn, QueuedOnAttempt, WaitsForSaved, Waiting, NeverStranded
<1> QED BY <1>1, <1>2, <1>3, PTL DEF Spec

=============================================================================
