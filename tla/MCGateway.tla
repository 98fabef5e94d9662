------------------------------ MODULE MCGateway ------------------------------
(***************************************************************************)
(* Gateway for TLC: two small houses, and what the documentation claims    *)
(* and the code does not keep.                                             *)
(***************************************************************************)
EXTENDS Gateway, TLC

\* One source on each clock.
TwoSources == <<"lw", "wx">>
TwoInputs == [s \in {"lw", "wx"} |-> {s}]

\* A single source, for two requests at a time.
OneInput == [s \in {"lw"} |-> {s}]
OneSource == <<"lw">>

\* The fog section mixes two sources, one of which is written.
FogSources == <<"fog", "tank">>
FogInputs == [s \in {"fog"} |-> {"fog", "tank"}]

ThreadSymmetry == Permutations(Thread)

\* "A snapshot is reused for M5GW_CACHE_TTL" (API.md, Caching): what a poll is
\* given was read no longer ago than that, even granting that each of _last
\* and the cache was written last by the slower of two rounds.
ReusedForTtl ==
    \A t \in Thread, s \in Section : \A k \in Inputs[s] :
        pc[t] = "dashReply" /\ Current(t, s) =>
            me[t].now - me[t].snap.raw[k].at < CacheTtl + 2 * MaxCollect

\* "otherwise every network hiccup looks like a broken device" (API.md): a
\* section that was shown is shown again, current or old.
NeverBlanked ==
    [][\A s \in Section : Shows(cacheBody.raw, s) => Shows(cacheBody'.raw, s)]_vars

\* "The gateway drops its cached snapshot after every write, so the next poll
\* reflects reality" (API.md), with two requests at a time.
NextPollReal == PollAfterWrite

\* "The gateway drops its cached snapshot after every write, so the next poll
\* reflects reality" (API.md): a poll shows every write that has reached its
\* source, or says that it is old.  (One request at a time: nothing is written
\* while a poll is on its way.)
NextPollSeesWrite ==
    \A t \in Thread, s \in Section : \A k \in Inputs[s] :
        pc[t] = "dashReply" /\ Inputs[s] = {k} /\ Current(t, s) =>
            me[t].snap.raw[k].wr = house[k]

\* "Anything present in raw but missing from fresh is a last known value: it
\* still gets rendered, but is listed in old" (aggregate.py, build_dash): a
\* section that is not in old shows no reading older than the last write.
NoStaleInput ==
    \A t \in Thread, s \in Section : \A k \in Inputs[s] :
        pc[t] = "dashReply" /\ Current(t, s) /\ k \in DOMAIN me[t].snap.raw =>
            me[t].snap.raw[k].wr >= me[t].base[k]

\* "A remote that flips the wrong way is worse than one that says I don't know
\* yet" (actions.py, _resolve_toggle): no toggle is planned from a snapshot
\* that an answered action has made a lie.
NoToggleOnALie ==
    \A t \in Thread : \A k \in DOMAIN me[t].used :
        me[t].used[k].wr >= me[t].base[k]

\* "A snapshot is reused for M5GW_CACHE_TTL, so a burst of polls costs one
\* round of backend fetches" (API.md, Caching).
OneRoundPerBurst ==
    \A t, u \in Thread :
        /\ t # u /\ pc[t] = "fetch" /\ pc[u] = "fetch"
        /\ me[t].now = me[u].now
        => "lw" \notin me[t].asked \cap me[u].asked
=============================================================================
