----------------------------- MODULE MCSendPath -----------------------------
(***************************************************************************)
(* SendPath on two controllers, a FIFO of two packets, a control queue of  *)
(* three requests and an epoch counter that wraps after two sessions.      *)
(***************************************************************************)
EXTENDS SendPath

CONSTANTS calibration, firmware, test

\* Two of the five reports that init_feature asks for; "test" is 0x81.
MCReport == {calibration, firmware, test}
MCInitReports == <<calibration, firmware>>
MCVolatile == {test}

=============================================================================
