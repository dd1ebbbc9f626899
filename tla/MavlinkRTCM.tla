----------------------------- MODULE MavlinkRTCM -----------------------------
(***************************************************************************)
(* The corrections of the RTK station on their way to a vehicle:           *)
(* IAutopilot::sendRTCM (plugins/PluginMavlink/IAutopilot.cpp).            *)
(*                                                                         *)
(* A correction longer than a packet becomes a stack of fragments.  Of the *)
(* payload only what MavlinkCompare reads is kept: the flags and two bytes *)
(* of the data, which the correction and the place in it determine.        *)
(***************************************************************************)
EXTENDS Integers, Sequences

MAX_RTCM_L == 180

\* The flags: fragmented or not, the number of the fragment (2 bits) and the
\* sequence number of the correction (5 bits).  A fragment of -1 is the whole.
Flags(fragment, seq) ==
  (IF fragment < 0 THEN 0 ELSE 1 + 2 * (fragment % 4)) + 8 * (seq % 32)

CreateRTCM(fragment, seq, correction, pointer) ==
  [id |-> "GPS_RTCM_DATA", key |-> <<Flags(fragment, seq), correction, pointer>>]

\* The packets of a correction of `size` bytes, none if it takes more than four.
SendRTCM(correction, size, seq) ==
  IF size > 4 * MAX_RTCM_L THEN << >>
  ELSE IF size > MAX_RTCM_L
  THEN [k \in 1 .. 1 + (size - 1) \div MAX_RTCM_L |->
          CreateRTCM(k - 1, seq, correction, (k - 1) * MAX_RTCM_L)]
  ELSE <<CreateRTCM(-1, seq, correction, 0)>>
=============================================================================
