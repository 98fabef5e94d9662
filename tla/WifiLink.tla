------------------------------ MODULE WifiLink ------------------------------
(***************************************************************************)
(* How the worker task finds the network and the gateway, and what it      *)
(* remembers about them (connectWifi, discoverGateway and the link part of *)
(* runJob in firmware/src/hw_net.cpp; the access point hint in             *)
(* firmware/src/hw_store.cpp; apHintUsable in lib/core/netplan.cpp).       *)
(*                                                                         *)
(* Remembered across deep sleep: the hint (BSSID, channel and last lease,  *)
(* in RTC memory) and the gateway's address (in NVS).  Everything else is  *)
(* lost.  The world moves until it is calm: the access point changes       *)
(* channel, the router gives the address away, the gateway moves.  Once    *)
(* calm, an attempt succeeds exactly if what it relies on is right.        *)
(***************************************************************************)
EXTENDS Naturals

VARIABLES
    stage,         \* the worker: "boot", "idle", "wifi", "gateway", "http"; or "asleep"
    kind,          \* the job: "dash" or "act"
    link,          \* WiFi.status() == WL_CONNECTED
    static,        \* WiFi.config() holds a fixed address, so DHCP is off
    hint,          \* the RTC hint is valid
    fast,          \* g_status.usedFastPath
    holdoff,       \* g_status.retryAtMs is still ahead
    host,          \* g_cfg.host: "none", "current" or "former"
    storedHost,    \* the same, as NVS has it
    rediscovered,  \* g_rediscovered
    lastStatus,    \* g_status.lastStatus: "none", "answer" or "silence"
    tried,         \* jobs since boot that were not held off, up to MinJobs
    apRight,       \* the world: the hint's BSSID and channel are right
    leaseOurs,     \* the world: the remembered address is still the device's
    hintOld,       \* the world: the hint is older than kApHintTtlS
    calm           \* the world has stopped changing

ram  == <<link, static, fast, holdoff, host, rediscovered, lastStatus, tried>>
world == <<apRight, leaseOurs, hintOld, calm>>
vars == <<stage, kind, link, static, hint, fast, holdoff, host, storedHost,
          rediscovered, lastStatus, tried, apRight, leaseOurs, hintOld, calm>>

\* The device is awake for at least 30 s and polls at least every 4 s, while a
\* job takes at most 12: it cannot sleep with fewer jobs behind it.
MinJobs == 2

Init ==
    /\ stage = "boot" /\ kind = "dash"
    /\ link = FALSE /\ static = FALSE /\ fast = FALSE /\ holdoff = FALSE
    /\ storedHost \in {"none", "current"} /\ host = storedHost
    /\ rediscovered = FALSE /\ lastStatus = "none" /\ tried = 0
    /\ hint = FALSE /\ apRight = FALSE /\ leaseOurs = FALSE
    /\ hintOld = FALSE /\ calm = FALSE

-----------------------------------------------------------------------------
(* connectWifi().                                                          *)

\* A mutant: the fixed address survives the hint.
ConnectFailsKeepsAddress ==
    /\ ~(calm /\ (hint => apRight))
    /\ hint' = FALSE
    /\ static' = IF hint THEN TRUE ELSE static
    /\ holdoff' = TRUE
    /\ UNCHANGED <<link, fast, apRight, leaseOurs, hintOld>>

\* No association within the budget.  A hint that was tried is dropped, and
\* its address with it, so that the next attempt scans and asks DHCP.
ConnectFails ==
    /\ ~(calm /\ (hint => apRight))
    /\ hint' = FALSE
    /\ static' = IF hint THEN FALSE ELSE static
    /\ holdoff' = TRUE
    /\ UNCHANGED <<link, fast, apRight, leaseOurs, hintOld>>

\* Associated.  With a usable hint the address is the remembered one, without
\* it is leased.  Either way the hint is written afresh, with no time in it:
\* savedAtEpoch is 0, which apHintUsable() takes as "no clock yet", so that a
\* hint is usable whatever its age.
ConnectSucceeds ==
    /\ hint => apRight
    /\ link' = TRUE
    /\ fast' = hint
    /\ static' = (static \/ hint)
    /\ leaseOurs' = (leaseOurs \/ ~static')
    /\ hint' = TRUE /\ apRight' = TRUE /\ hintOld' = FALSE
    /\ UNCHANGED holdoff

\* The association before the worker's loop: no result is delivered.
BootConnect ==
    /\ stage = "boot"
    /\ ConnectFails \/ ConnectSucceeds
    /\ stage' = "idle"
    /\ UNCHANGED <<kind, host, storedHost, rediscovered, lastStatus, tried, calm>>

-----------------------------------------------------------------------------
(* discoverGateway(): mDNS is multicast and needs nothing but a link.      *)

CanDiscover(up) == up

\* A mutant: the address found is cut short.
FoundGarbled == host' = "garbled" /\ storedHost' = "garbled"

\* Found: used from now on, and written to NVS for the next boot.
Found    == host' = "current" /\ storedHost' = "current"
NotFound == UNCHANGED <<host, storedHost>>

-----------------------------------------------------------------------------
(* runJob().                                                               *)

Tries == tried' = IF tried < MinJobs THEN tried + 1 ELSE tried

StartJob(k) ==
    /\ stage = "idle"
    /\ kind' = k /\ stage' = "wifi"
    /\ UNCHANGED <<ram, hint, storedHost, world>>

LinkUp ==
    /\ stage = "wifi" /\ link
    /\ stage' = "gateway" /\ Tries
    /\ UNCHANGED <<kind, link, static, hint, fast, holdoff, host, storedHost,
                   rediscovered, lastStatus, world>>

\* A poll during the backoff fails at once.
PollHeldOff ==
    /\ stage = "wifi" /\ ~link /\ holdoff /\ kind = "dash"
    /\ stage' = "idle"
    /\ UNCHANGED <<kind, ram, hint, storedHost, world>>

\* A press, or a poll after the backoff, makes an attempt.
Attempt ==
    /\ stage = "wifi" /\ ~link /\ ~(holdoff /\ kind = "dash")
    /\ \/ ConnectFails /\ stage' = "idle"
       \/ ConnectSucceeds /\ stage' = "gateway"
    /\ Tries
    /\ UNCHANGED <<kind, host, storedHost, rediscovered, lastStatus, calm>>

HostKnown ==
    /\ stage = "gateway" /\ host # "none"
    /\ stage' = "http"
    /\ UNCHANGED <<kind, ram, hint, storedHost, world>>

FirstDiscovery ==
    /\ stage = "gateway" /\ host = "none"
    /\ \/ CanDiscover(link) /\ Found /\ stage' = "http"
       \/ ~(calm /\ CanDiscover(link)) /\ NotFound /\ stage' = "idle"
    /\ UNCHANGED <<kind, link, static, hint, fast, holdoff, rediscovered,
                   lastStatus, tried, world>>

Reachable == link /\ leaseOurs /\ host = "current"

\* The gateway answered, whatever it said.
HttpAnswer ==
    /\ stage = "http" /\ Reachable
    /\ lastStatus' = "answer"
    /\ rediscovered' = FALSE
    /\ stage' = "idle"
    /\ UNCHANGED <<kind, link, static, hint, fast, holdoff, host, storedHost,
                   tried, world>>

\* A mutant: silence on a remembered lease does not drop it.
HttpSilenceKeepsLease ==
    /\ stage = "http" /\ ~(calm /\ Reachable)
    /\ lastStatus' = "silence"
    /\ UNCHANGED <<hint, fast, link, static>>
    /\ rediscovered' = TRUE
    /\ \/ ~rediscovered /\ CanDiscover(link') /\ Found
       \/ (rediscovered \/ ~(calm /\ CanDiscover(link'))) /\ NotFound
    /\ stage' = "idle"
    /\ UNCHANGED <<kind, holdoff, tried, world>>

\* No answer.  On the fast path the lease is suspected: hint, address and
\* association go.  Then, unless that has been tried since the last answer,
\* the gateway is looked for again.
HttpSilence ==
    /\ stage = "http" /\ ~(calm /\ Reachable)
    /\ lastStatus' = "silence"
    /\ IF fast
       THEN hint' = FALSE /\ fast' = FALSE /\ link' = FALSE /\ static' = FALSE
       ELSE UNCHANGED <<hint, fast, link, static>>
    /\ rediscovered' = TRUE
    /\ \/ ~rediscovered /\ CanDiscover(link') /\ Found
       \/ (rediscovered \/ ~(calm /\ CanDiscover(link'))) /\ NotFound
    /\ stage' = "idle"
    /\ UNCHANGED <<kind, holdoff, tried, world>>

BackoffOver ==
    /\ holdoff /\ stage # "asleep"
    /\ holdoff' = FALSE
    /\ UNCHANGED <<stage, kind, link, static, hint, fast, host, storedHost,
                   rediscovered, lastStatus, tried, world>>

-----------------------------------------------------------------------------
(* Sleep and power.                                                        *)

RamLost ==
    /\ link' = FALSE /\ static' = FALSE /\ fast' = FALSE /\ holdoff' = FALSE
    /\ rediscovered' = FALSE /\ lastStatus' = "none" /\ tried' = 0
    /\ host' = storedHost

\* Deep sleep between two jobs; RTC memory survives it.
Sleep ==
    /\ stage = "idle" /\ tried = MinJobs
    /\ stage' = "asleep" /\ RamLost
    /\ UNCHANGED <<kind, hint, storedHost, world>>

Wake ==
    /\ stage = "asleep"
    /\ stage' = "boot"
    /\ UNCHANGED <<kind, ram, hint, storedHost, world>>

\* The battery is gone, and RTC memory with it.
PowerCycle ==
    /\ ~calm
    /\ stage' = "boot" /\ RamLost
    /\ hint' = FALSE
    /\ UNCHANGED <<kind, storedHost, world>>

-----------------------------------------------------------------------------
(* The world.                                                              *)

Turmoil ==
    /\ ~calm
    /\ UNCHANGED <<stage, kind, static, hint, fast, holdoff, rediscovered,
                   lastStatus, tried, calm>>
    /\ \/ /\ apRight' = FALSE
          /\ UNCHANGED <<link, host, storedHost, leaseOurs, hintOld>>
       \/ \* an address that is being renewed is not given away
          /\ ~(link /\ ~static) /\ leaseOurs' = FALSE
          /\ UNCHANGED <<link, host, storedHost, apRight, hintOld>>
       \/ \* the gateway has a new address
          /\ host' = (IF host = "none" THEN "none" ELSE "former")
          /\ storedHost' = (IF storedHost = "none" THEN "none" ELSE "former")
          /\ UNCHANGED <<link, apRight, leaseOurs, hintOld>>
       \/ \* the link goes, or the Wi-Fi stack brings it back by itself
          /\ stage \notin {"boot", "asleep"} /\ link' = ~link
          /\ UNCHANGED <<host, storedHost, apRight, leaseOurs, hintOld>>
       \/ hint /\ hintOld' = TRUE
          /\ UNCHANGED <<link, host, storedHost, apRight, leaseOurs>>

CalmDown ==
    /\ ~calm /\ calm' = TRUE
    /\ UNCHANGED <<stage, kind, ram, hint, storedHost, apRight, leaseOurs, hintOld>>

Worker == \/ BootConnect \/ StartJob("dash") \/ LinkUp \/ PollHeldOff
          \/ Attempt \/ HostKnown \/ FirstDiscovery \/ HttpAnswer \/ HttpSilence

Next == \/ Worker \/ StartJob("act") \/ BackoffOver \/ Sleep \/ Wake
        \/ PowerCycle \/ Turmoil \/ CalmDown

Spec == Init /\ [][Next]_vars

\* The worker runs, polls keep coming and the backoff ends.
AwakeSpec == Spec /\ WF_vars(Worker) /\ WF_vars(BackoffOver)

\* Besides, the device is put down now and then, and picked up again.
LiveSpec == AwakeSpec /\ SF_vars(Sleep) /\ WF_vars(Wake)

-----------------------------------------------------------------------------
(* Properties.                                                             *)

TypeOK ==
    /\ stage \in {"boot", "idle", "wifi", "gateway", "http", "asleep"}
    /\ kind \in {"dash", "act"}
    /\ {link, static, hint, fast, holdoff, rediscovered, apRight, leaseOurs,
        hintOld, calm} \subseteq BOOLEAN
    /\ {host, storedHost} \subseteq {"none", "current", "former"}
    /\ lastStatus \in {"none", "answer", "silence"} /\ tried \in 0 .. MinJobs

\* The fixed address never outlives the hint it came from: with the hint
\* dropped, the next association asks DHCP.  Otherwise a bad lease would be
\* kept, and saved again, for good.
AddressDropsWithHint == static => hint

\* Once the world is calm the device finds its way back to a gateway that is
\* where it was, or that it never knew: a moved access point and a lost lease
\* heal by themselves, across any number of sleeps.
Recovers == calm ~> lastStatus = "answer" \/ host = "former"

=============================================================================
