----------------------------- MODULE MCWifiLink -----------------------------
(***************************************************************************)
(* WifiLink for TLC, with what the documentation claims and the code does  *)
(* not keep.                                                               *)
(***************************************************************************)
EXTENDS WifiLink

\* "A hint older than 24 h, or one that fails, is discarded"
\* (ARCHITECTURE.md, Power): the fast path is never taken on an old hint.
NoOldHintUsed == [][fast' /\ ~fast => ~hintOld]_vars

\* "A transport failure can mean the gateway moved.  Re-discover once and
\* retry, rather than staying broken until someone re-runs setup" (hw_net.cpp,
\* runJob): a gateway that has moved is found again.
MovedGatewayFound == calm /\ storedHost = "former" ~> lastStatus = "answer"
=============================================================================
