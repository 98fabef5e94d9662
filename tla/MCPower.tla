------------------------------- MODULE MCPower -------------------------------
(***************************************************************************)
(* Power for TLC: what documents and comments claim and the code does not  *)
(* keep.                                                                   *)
(***************************************************************************)
EXTENDS Power

\* "this thing sleeps after 30 s with its radio off" (main.cpp, loop), "without
\* this the poller kept the worker busy around the clock and the device could
\* never sleep" (hw_net.cpp, connectWifi): left alone, it goes to sleep.
GoesToSleep ==
    <>[](~prompt /\ mode # "ota") => []<>(mode = "asleep" \/ sinceKey = 0)

\* "device uptime when this arrived" (dash.h, receivedAtMs): what looks fresh
\* arrived recently, also after a stay in the OTA mode.
StampedOnArrival == frame = "silent" => made.age <= StaleAfter
=============================================================================
