-------------------------- MODULE ResetGestureProofs --------------------------
(***************************************************************************)
(* Theorems about ResetGesture for any window, hold, length of pass and    *)
(* stay in the OTA mode that are short beside the range of millis().       *)
(***************************************************************************)
EXTENDS ResetGesture, Integers, TLAPS

\* A remainder over less than two turns of the clock.
LEMMA ModOnce ==
    ASSUME NEW c \in Nat \ {0}, NEW a \in 0 .. 2 * c - 1
    PROVE  a % c = IF a < c THEN a ELSE a - c
  <1>1. a \in Int /\ c \in Int /\ c > 0 OBVIOUS
  <1>a. a % c \in 0 .. c - 1 BY <1>1
  <1>b. a \div c \in Int BY <1>1
  <1>d. a = c * (a \div c) + (a % c) BY <1>1
  <1>2. /\ a = c * (a \div c) + (a % c)
        /\ a % c \in 0 .. c - 1 /\ a \div c \in Int
    BY <1>a, <1>b, <1>d
  <1> DEFINE q == a \div c
             r == a % c
  <1> HIDE DEF q, r
  <1>3. a = c * q + r /\ r \in 0 .. c - 1 /\ q \in Int
    BY <1>2 DEF q, r
  <1>4. q = 0 \/ q = 1
    <2>1. CASE q >= 2
      <3>1. c * q >= c * 2 BY <1>1, <1>3, <2>1
      <3> QED BY <1>3, <3>1
    <2>2. CASE q <= -1
      <3>1. c * q <= c * (-1) BY <1>1, <1>3, <2>2
      <3> QED BY <1>3, <3>1
    <2> QED BY <1>3, <2>1, <2>2
  <1>5. r = IF a < c THEN a ELSE a - c
    BY <1>3, <1>4
  <1> QED BY <1>5 DEF r

-----------------------------------------------------------------------------
(* The inductive invariant.                                                *)

\* While the gesture is armed millis() has not wrapped yet: the window is found
\* closed before that, even after a hold that was given up late.
ArmedEarly ==
    /\ deadline = Window
    /\ fired => ~armed
    /\ armed => /\ coldBoot
                /\ uptime < Window + Hold + Longest + (IF fed THEN 0 ELSE Longest)
    /\ coldBoot /\ ~armed /\ ~fired => uptime >= Window

\* A hold was noticed inside the window, and is looked at often enough.
HoldNoticed ==
    armed /\ holding =>
        /\ began < Window /\ holdSince = began /\ began <= uptime
        /\ uptime < began + Hold + (IF fed THEN 0 ELSE Longest)

\* The key that is being held has been down since, unless the OTA mode came in
\* between.
HeldSince ==
    /\ downSince <= uptime /\ away <= uptime
    /\ armed /\ holding =>
        /\ fed => down
        /\ down /\ away <= began => downSince <= began

\* A key seen down inside the window is being held, or about to be noticed.
DownIsNoticed ==
    coldBoot /\ down /\ downSince < Window /\ ~fired =>
        /\ armed
        /\ fed => holding
        /\ holding => began <= downSince
        /\ ~holding => downSince = uptime

IInv == /\ TypeOK /\ ArmedEarly /\ HoldNoticed /\ HeldSince /\ DownIsNoticed
        /\ WipeIsMeant

-----------------------------------------------------------------------------
(* What the clock arithmetic comes to.                                     *)

LEMMA Parameters ==
    /\ Clock \in Nat \ {0} /\ Window \in Nat \ {0} /\ Hold \in Nat \ {0}
    /\ MaxPass \in Nat /\ MaxOta \in Nat /\ MaxUptime \in Nat /\ Longest \in Nat
    /\ MaxPass <= Longest /\ MaxOta <= Longest
    /\ 2 * (Window + Longest) < Clock /\ 2 * (Hold + 2 * Longest) < Clock
  BY ResetAssumption DEF Longest

\* Before its first wrap millis() is the time since boot.
LEMMA NotYetWrapped ==
    ASSUME NEW u \in Nat, u < Clock
    PROVE  u % Clock = u
  <1>1. u \in 0 .. 2 * Clock - 1 BY Parameters
  <1> QED BY <1>1, Parameters, ModOnce

\* The signed difference finds the window closed exactly when it is, as long as
\* the gesture is looked at soon after.
LEMMA WindowIsSeen ==
    ASSUME NEW u \in Nat, u < Window + Hold + 2 * Longest
    PROVE  AtOrAfter(u, Window) <=> u >= Window
  <1> DEFINE x == u + Clock - Window
  <1>1. x \in 0 .. 2 * Clock - 1 BY Parameters
  <1> HIDE DEF x
  <1>2. x % Clock = IF x < Clock THEN x ELSE x - Clock
    BY <1>1, Parameters, ModOnce
  <1>3. x % Clock = IF u >= Window THEN u - Window ELSE u + Clock - Window
    BY <1>2, Parameters DEF x
  <1>4. (x % Clock) < Clock \div 2 <=> u >= Window
    BY <1>3, Parameters
  <1> QED BY <1>4 DEF AtOrAfter, x

\* The length of a hold is the time since it began.
LEMMA HoldIsMeasured ==
    ASSUME NEW u \in Nat, NEW b \in Nat, b <= u, u - b < Clock
    PROVE  (u + Clock - b) % Clock = u - b
  <1> DEFINE x == u + Clock - b
  <1>1. x \in 0 .. 2 * Clock - 1 BY Parameters
  <1> HIDE DEF x
  <1>2. x % Clock = IF x < Clock THEN x ELSE x - Clock
    BY <1>1, Parameters, ModOnce
  <1>3. x % Clock = u - b
    BY <1>2, Parameters DEF x
  <1> QED BY <1>3 DEF x

-----------------------------------------------------------------------------
LEMMA InitInvariant == Init => IInv
  <1> SUFFICES ASSUME Init PROVE IInv OBVIOUS
  <1>1. Window % Clock = Window BY Parameters, NotYetWrapped
  <1>2. /\ Window \in 0 .. Clock - 1 /\ 0 \in 0 .. Clock - 1 /\ 0 \in 0 .. MaxUptime
        /\ coldBoot \in BOOLEAN
    BY Parameters DEF Init
  <1>t. TypeOK BY <1>1, <1>2 DEF Init, TypeOK
  <1>3. ArmedEarly BY <1>1, Parameters DEF Init, ArmedEarly
  <1> QED BY <1>t, <1>3 DEF Init, IInv, HoldNoticed, HeldSince, DownIsNoticed, WipeIsMeant

\* The typing facts the provers work with.
LEMMA Typing ==
    ASSUME TypeOK
    PROVE  /\ armed \in BOOLEAN /\ holding \in BOOLEAN /\ fired \in BOOLEAN
           /\ coldBoot \in BOOLEAN /\ down \in BOOLEAN /\ fed \in BOOLEAN
           /\ deadline \in 0 .. Clock - 1 /\ holdSince \in 0 .. Clock - 1
           /\ uptime \in Nat /\ downSince \in Nat /\ began \in Nat /\ away \in Nat
           /\ uptime <= MaxUptime /\ downSince <= MaxUptime
           /\ began <= MaxUptime /\ away <= MaxUptime
  BY Parameters DEF TypeOK

\* A gesture that is still armed when feed() is called is read before the wrap.
LEMMA FeedIsEarly ==
    ASSUME IInv, armed, ~fed
    PROVE  /\ millis = uptime
           /\ AtOrAfter(millis, deadline) <=> uptime >= Window
           /\ uptime < Clock
  <1>1. uptime \in Nat /\ uptime < Window + Hold + 2 * Longest /\ deadline = Window
    BY Typing, Parameters DEF IInv, ArmedEarly
  <1>2. uptime < Clock BY <1>1, Parameters
  <1> QED BY <1>1, <1>2, NotYetWrapped, WindowIsSeen DEF millis

LEMMA IdleStep ==
    ASSUME IInv, Feed, IdleFeed
    PROVE  IInv'
  <1>1. /\ armed /\ ~fired /\ ~holding /\ ~fed /\ fed' = TRUE
        /\ UNCHANGED <<fired, deadline, coldBoot, uptime, down, downSince, away>>
    BY DEF IdleFeed, Feed
  <1>2. /\ millis = uptime /\ uptime < Clock
        /\ AtOrAfter(millis, deadline) <=> uptime >= Window
    BY <1>1, FeedIsEarly
  <1>3. CASE uptime >= Window
    <2>1. armed' = FALSE /\ UNCHANGED <<holding, holdSince, began>>
      BY <1>2, <1>3 DEF IdleFeed
    <2>t. TypeOK'
      BY <1>1, <1>3, <2>1, Typing, Parameters DEF IInv, TypeOK
    <2>a. ArmedEarly' /\ HoldNoticed'
      BY <1>1, <1>3, <2>1, Typing, Parameters DEF IInv, ArmedEarly, HoldNoticed
    <2>h. HeldSince' /\ DownIsNoticed' /\ WipeIsMeant'
      BY <1>1, <1>3, <2>1, Typing, Parameters
         DEF IInv, ArmedEarly, HoldNoticed, HeldSince, DownIsNoticed, WipeIsMeant
    <2> QED BY <2>t, <2>a, <2>h DEF IInv
  <1>4. CASE ~(uptime >= Window) /\ down
    <2>1. armed' = TRUE /\ holding' = TRUE /\ holdSince' = uptime /\ began' = uptime
      BY <1>1, <1>2, <1>4 DEF IdleFeed
    <2>2. uptime < Window BY <1>4, Typing, Parameters DEF IInv
    <2>3. TypeOK'
      BY <1>1, <1>2, <2>1, Typing, Parameters DEF IInv, TypeOK
    <2>4. ArmedEarly' /\ HoldNoticed'
      BY <1>1, <2>1, <2>2, Typing, Parameters DEF IInv, ArmedEarly, HoldNoticed
    <2>5. HeldSince' /\ DownIsNoticed' /\ WipeIsMeant'
      BY <1>1, <1>4, <2>1, <2>2, Typing, Parameters
         DEF IInv, HeldSince, DownIsNoticed, WipeIsMeant
    <2> QED BY <2>3, <2>4, <2>5 DEF IInv
  <1>5. CASE ~(uptime >= Window) /\ ~down
    <2>1. UNCHANGED <<armed, holding, holdSince, began>>
      BY <1>1, <1>2, <1>5 DEF IdleFeed
    <2>2. uptime < Window BY <1>5, Typing, Parameters DEF IInv
    <2>t. TypeOK'
      BY <1>1, <1>5, <2>1, <2>2, Typing, Parameters DEF IInv, TypeOK
    <2>a. ArmedEarly' /\ HoldNoticed'
      BY <1>1, <1>5, <2>1, <2>2, Typing, Parameters DEF IInv, ArmedEarly, HoldNoticed
    <2>h. HeldSince' /\ DownIsNoticed' /\ WipeIsMeant'
      BY <1>1, <1>5, <2>1, <2>2, Typing, Parameters
         DEF IInv, ArmedEarly, HoldNoticed, HeldSince, DownIsNoticed, WipeIsMeant
    <2> QED BY <2>t, <2>a, <2>h DEF IInv
  <1> QED BY <1>3, <1>4, <1>5

LEMMA HoldingStep ==
    ASSUME IInv, Feed, HoldingFeed
    PROVE  IInv'
  <1>1. /\ armed /\ ~fired /\ holding /\ ~fed /\ fed' = TRUE
        /\ UNCHANGED <<deadline, coldBoot, uptime, down, downSince, away, holdSince, began>>
    BY DEF HoldingFeed, Feed
  <1>2. millis = uptime /\ uptime < Clock
    BY <1>1, FeedIsEarly
  <1>3. /\ began < Window /\ holdSince = began /\ began <= uptime
        /\ uptime < began + Hold + Longest
    BY <1>1 DEF IInv, HoldNoticed
  <1>4. CASE ~down
    <2>1. holding' = FALSE /\ UNCHANGED <<armed, fired>> BY <1>4 DEF HoldingFeed
    <2>t. TypeOK'
      BY <1>1, <1>3, <1>4, <2>1, Typing, Parameters DEF IInv, TypeOK
    <2>a. ArmedEarly' /\ HoldNoticed'
      BY <1>1, <1>3, <1>4, <2>1, Typing, Parameters DEF IInv, ArmedEarly, HoldNoticed
    <2>h. HeldSince' /\ DownIsNoticed' /\ WipeIsMeant'
      BY <1>1, <1>3, <1>4, <2>1, Typing, Parameters
         DEF IInv, ArmedEarly, HoldNoticed, HeldSince, DownIsNoticed, WipeIsMeant
    <2> QED BY <2>t, <2>a, <2>h DEF IInv
  <1>5. CASE down
    <2> DEFINE ms == (millis + Clock - holdSince) % Clock
    <2>1. ms = uptime - began
      <3>1. uptime \in Nat /\ began \in Nat BY Typing DEF IInv
      <3>2. uptime - began < Clock BY <3>1, <1>2, <1>3, Parameters
      <3> QED BY <1>2, <1>3, <3>1, <3>2, HoldIsMeasured
    <2>2. fired' = (uptime - began >= Hold) /\ armed' = ~fired' /\ UNCHANGED holding
      BY <1>1, <1>5, <2>1 DEF HoldingFeed
    <2>3. fired' \in BOOLEAN /\ armed' \in BOOLEAN BY <2>2
    <2>4. TypeOK' BY <1>1, <2>2, <2>3, Typing DEF IInv, TypeOK
    <2>x. armed' => ~fired' /\ uptime < began + Hold
      BY <1>1, <1>3, <2>2, <2>3, Typing, Parameters DEF IInv
    <2>y. coldBoot /\ (fired' => ~armed') /\ (~armed' => fired')
      BY <1>1, <2>2, <2>3 DEF IInv, ArmedEarly
    <2>5. ArmedEarly' /\ HoldNoticed'
      BY <1>1, <1>3, <2>x, <2>y, Typing, Parameters DEF IInv, ArmedEarly, HoldNoticed
    <2>6. HeldSince' /\ DownIsNoticed'
      BY <1>1, <1>3, <1>5, <2>2, <2>3, Typing, Parameters DEF IInv, HeldSince, DownIsNoticed
    <2>7. WipeIsMeant'
      <3>1. coldBoot BY <1>1 DEF IInv, ArmedEarly
      <3>2. away <= began => downSince <= began BY <1>1, <1>5 DEF IInv, HeldSince
      <3> QED BY <1>1, <1>3, <1>5, <2>2, <3>1, <3>2, Typing, Parameters DEF IInv, WipeIsMeant
    <2> QED BY <2>4, <2>5, <2>6, <2>7 DEF IInv
  <1> QED BY <1>4, <1>5

LEMMA DeadStep ==
    ASSUME IInv, Feed, DeadFeed
    PROVE  IInv'
  <1>1. /\ ~armed /\ ~fired /\ fed' = TRUE
        /\ UNCHANGED <<armed, deadline, holding, holdSince, fired, coldBoot, uptime, down,
                       downSince, began, away>>
    BY DEF DeadFeed, Feed
  <1> QED BY <1>1, Typing
          DEF IInv, TypeOK, ArmedEarly, HoldNoticed, HeldSince, DownIsNoticed, WipeIsMeant

LEMMA ShortPassStep ==
    ASSUME IInv, NEW t \in 1 .. MaxPass, ShortPass(t)
    PROVE  IInv'
  <1>1. /\ fed /\ ~fired /\ uptime + t <= MaxUptime /\ fed' = FALSE /\ uptime' = uptime + t
        /\ down' \in BOOLEAN /\ downSince' = IF down /\ down' THEN downSince ELSE uptime'
        /\ UNCHANGED <<armed, deadline, holding, holdSince, fired, coldBoot, began, away>>
    BY DEF ShortPass
  <1>2. t \in Nat \ {0} /\ t <= Longest BY Parameters
  <1>u. uptime + t \in 0 .. MaxUptime BY <1>1, <1>2, Typing, Parameters DEF IInv
  <1>3. TypeOK' BY <1>u, <1>1, <1>2, Typing, Parameters DEF IInv, TypeOK
  <1>4. ArmedEarly' /\ HoldNoticed'
    BY <1>1, <1>2, Typing, Parameters DEF IInv, ArmedEarly, HoldNoticed
  <1>5. HeldSince' /\ DownIsNoticed' /\ WipeIsMeant'
    BY <1>1, <1>2, Typing, Parameters
       DEF IInv, HeldSince, DownIsNoticed, WipeIsMeant, ArmedEarly, HoldNoticed
  <1> QED BY <1>3, <1>4, <1>5 DEF IInv

LEMMA OtaPassStep ==
    ASSUME IInv, NEW t \in 1 .. MaxOta, OtaPass(t)
    PROVE  IInv'
  <1>1. /\ fed /\ ~fired /\ uptime + t <= MaxUptime /\ fed' = FALSE /\ uptime' = uptime + t
        /\ down' \in BOOLEAN /\ downSince' = uptime' /\ away' = uptime'
        /\ UNCHANGED <<armed, deadline, holding, holdSince, fired, coldBoot, began>>
    BY DEF OtaPass
  <1>2. t \in Nat \ {0} /\ t <= Longest BY Parameters
  <1>u. uptime + t \in 0 .. MaxUptime BY <1>1, <1>2, Typing, Parameters DEF IInv
  <1>3. TypeOK' BY <1>u, <1>1, <1>2, Typing, Parameters DEF IInv, TypeOK
  <1>4. ArmedEarly' /\ HoldNoticed'
    BY <1>1, <1>2, Typing, Parameters DEF IInv, ArmedEarly, HoldNoticed
  <1>5. HeldSince' /\ DownIsNoticed' /\ WipeIsMeant'
    BY <1>1, <1>2, Typing, Parameters
       DEF IInv, HeldSince, DownIsNoticed, WipeIsMeant, ArmedEarly, HoldNoticed
  <1> QED BY <1>3, <1>4, <1>5 DEF IInv

LEMMA StepInvariant == IInv /\ [Next]_vars => IInv'
  <1> SUFFICES ASSUME IInv, [Next]_vars PROVE IInv' OBVIOUS
  <1>1. CASE Feed
    <2>1. IdleFeed \/ HoldingFeed \/ DeadFeed BY <1>1 DEF Feed
    <2> QED BY <1>1, <2>1, IdleStep, HoldingStep, DeadStep
  <1>2. CASE \E t \in 1 .. MaxPass : ShortPass(t) BY <1>2, ShortPassStep
  <1>3. CASE \E t \in 1 .. MaxOta : OtaPass(t) BY <1>3, OtaPassStep
  <1>4. CASE UNCHANGED vars
    BY <1>4 DEF vars, IInv, TypeOK, ArmedEarly, HoldNoticed, HeldSince, DownIsNoticed,
                WipeIsMeant
  <1> QED BY <1>1, <1>2, <1>3, <1>4 DEF Next

LEMMA Invariant == Spec => []IInv
  BY InitInvariant, StepInvariant, PTL DEF Spec

-----------------------------------------------------------------------------
\* Every field of the gesture keeps its range, however often millis() wraps.
THEOREM ResetTypeCorrect == Spec => []TypeOK
  <1>1. IInv => TypeOK BY DEF IInv
  <1> QED BY <1>1, Invariant, PTL

\* The device is wiped only by a hold that was noticed inside the window of a
\* cold boot and, but for the OTA mode, has lasted for Hold without a break.
THEOREM WipeIsMeantAlways == Spec => []WipeIsMeant
  <1>1. IInv => WipeIsMeant BY DEF IInv
  <1> QED BY <1>1, Invariant, PTL

\* A key first seen down inside the window and never let go wipes the device as
\* soon as it has been down for Hold: the gesture is still armed, and what it
\* counts began no later than this press.
THEOREM LongHoldFiresAlways == Spec => []LongHoldFires
  <1>1. IInv => LongHoldFires
    <2> SUFFICES ASSUME IInv, coldBoot, down, downSince < Window, fed, ~fired
                 PROVE  uptime - downSince < Hold
      BY DEF LongHoldFires
    <2>1. armed /\ holding /\ began <= downSince BY DEF IInv, DownIsNoticed
    <2>2. uptime < began + Hold BY <2>1, Typing, Parameters DEF IInv, HoldNoticed
    <2> QED BY <2>1, <2>2, Typing, Parameters DEF IInv
  <1> QED BY <1>1, Invariant, PTL

=============================================================================
