---------------------------- MODULE MCNetClient ----------------------------
(***************************************************************************)
(* NetClient for TLC, with the claims the documentation makes about it     *)
(* that the code does not keep.                                            *)
(***************************************************************************)
EXTENDS NetClient

\* "At most one snapshot request waits in the queue at a time" (hw_net.h,
\* requestDash).
OneDashWaits ==
    \A i, j \in DOMAIN jobs : jobs[i] = Dash /\ jobs[j] = Dash => i = j

\* "Re-discover once and retry" (hw_net.cpp, runJob): a job that met silence
\* is put back one time.
OneRetry == \A p \in Presses : resent[p] <= 1

\* "verdicts queue up (none may be lost)" (hw_net.cpp, deliver): a press that
\* is owed a verdict stays owed until the UI task has read it.
VerdictsKept ==
    [][\A p \in Owed : p \in Owed' \cup heard' \/ upc' = "asleep"]_vars

\* "Never sleep on top of an in-flight request" (netplan.cpp, shouldSleep):
\* the device goes down with no job queued and none in the worker's hand.
NoSleepOnRequest ==
    [][upc # "asleep" /\ upc' = "asleep" => jobs = <<>> /\ ~Holding]_vars
=============================================================================
