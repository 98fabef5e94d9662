------------------------------- MODULE Ledger -------------------------------
(***************************************************************************)
(* What the gateway client promises the person who presses keys, stated    *)
(* without queues or tasks: an action that was accepted gets exactly one   *)
(* verdict, and the person is told each verdict once; one that was turned  *)
(* away is told so at once.  Depth verdicts can wait to be told.  A        *)
(* verdict is lost only if it comes while that many wait, or when the      *)
(* power goes down.                                                        *)
(* (firmware/src/hw_net.h, "Queue a write action", and the comment on      *)
(* Verdict in firmware/src/hw_net.cpp, which promises that none is lost.)  *)
(***************************************************************************)
EXTENDS Naturals, FiniteSets

CONSTANTS Press,
          Depth      \* verdicts that can wait

VARIABLES made,      \* presses made so far
          asked,     \* accepted, no verdict yet
          answered,  \* the verdict is there and waits to be told
          told       \* told the verdict, or turned away

vars == <<made, asked, answered, told>>

Init == made = {} /\ asked = {} /\ answered = {} /\ told = {}

Accept(p) ==
    /\ p \notin made
    /\ made' = made \cup {p} /\ asked' = asked \cup {p}
    /\ UNCHANGED <<answered, told>>

TurnAway(p) ==
    /\ p \notin made
    /\ made' = made \cup {p} /\ told' = told \cup {p}
    /\ UNCHANGED <<asked, answered>>

Answer(p) ==
    /\ p \in asked /\ Cardinality(answered) < Depth
    /\ asked' = asked \ {p} /\ answered' = answered \cup {p}
    /\ UNCHANGED <<made, told>>

\* The verdict comes while as many wait as can.
Lose(p) ==
    /\ p \in asked /\ Cardinality(answered) >= Depth
    /\ asked' = asked \ {p}
    /\ UNCHANGED <<made, answered, told>>

Tell(p) ==
    /\ p \in answered
    /\ answered' = answered \ {p} /\ told' = told \cup {p}
    /\ UNCHANGED <<made, asked>>

PowerDown == asked' = {} /\ answered' = {} /\ UNCHANGED <<made, told>>

Next ==
    \/ PowerDown
    \/ \E p \in Press : \/ Accept(p) \/ TurnAway(p)
                        \/ Answer(p) \/ Lose(p) \/ Tell(p)

Spec == Init /\ [][Next]_vars
=============================================================================
