---------------------------- MODULE ResetGesture ----------------------------
(***************************************************************************)
(* The credential-reset gesture (firmware/lib/core/reset_gesture.cpp) as   *)
(* loop() polls it (firmware/src/main.cpp).  A cold boot arms it for       *)
(* Window; a key held for Hold from within that window wipes the device.   *)
(*                                                                         *)
(* loop() sees the keyboard once per pass.  A pass is short, except when   *)
(* loop() is inside ota::runMode(), whose length is the user's choice and  *)
(* which no press is polled during.  millis() wraps at Clock.              *)
(***************************************************************************)
EXTENDS Naturals

CONSTANTS
    Clock,       \* the modulus of millis(), 2^32 in the code
    Window,      \* kResetWindowMs
    Hold,        \* kResetHoldMs
    MaxPass,     \* bound: the longest ordinary pass of loop()
    MaxOta,      \* bound: the longest stay in ota::runMode(), 0 for none
    MaxUptime    \* bound: true uptime considered, past several wraps

\* The longest that loop() can be away from the gesture.
Longest == IF MaxPass >= MaxOta THEN MaxPass ELSE MaxOta

\* Everything the gesture measures is short beside millis(): a release, too, is
\* noticed, and the window found closed, before half its range has gone by.
ASSUME ResetAssumption ==
    /\ Clock \in Nat /\ Window \in Nat \ {0} /\ Hold \in Nat \ {0}
    /\ MaxPass \in Nat \ {0} /\ MaxOta \in Nat /\ MaxUptime \in Nat
    /\ 2 * (Window + Longest) < Clock /\ 2 * (Hold + 2 * Longest) < Clock

VARIABLES
    armed, deadline, holding, holdSince, fired,   \* the object's fields
    coldBoot,    \* what begin() was told
    uptime,      \* history: true time since boot; millis() is uptime % Clock
    down,        \* the key is down now
    downSince,   \* history: since when, without a break
    began,       \* history: true time at which the present hold was noticed
    away,        \* history: true time at which loop() last came back from OTA
    fed          \* this pass of loop() has called feed()

vars == <<armed, deadline, holding, holdSince, fired, coldBoot,
          uptime, down, downSince, began, away, fed>>

millis == uptime % Clock

\* begin(), from setup(): a wake from deep sleep disables the gesture.
Init ==
    /\ coldBoot \in BOOLEAN
    /\ armed = coldBoot
    /\ deadline = Window % Clock
    /\ holding = FALSE /\ holdSince = 0 /\ fired = FALSE
    /\ uptime = 0 /\ down = FALSE /\ downSince = 0 /\ began = 0
    /\ away = 0
    /\ fed = FALSE

-----------------------------------------------------------------------------
\* (int32_t)(a - b) >= 0
AtOrAfter(a, b) == (a + Clock - b) % Clock < Clock \div 2

\* A mutant: the gesture stays armed behind the window.
IdleFeedKeepsArmed ==
    /\ armed /\ ~fired /\ ~holding
    /\ IF ~AtOrAfter(millis, deadline) /\ down
       THEN holding' = TRUE /\ holdSince' = millis /\ began' = uptime
       ELSE UNCHANGED <<holding, holdSince, began>>
    /\ UNCHANGED <<armed, fired>>

\* feed() with no hold going on: the window may be over, else a key that is
\* down starts one.
IdleFeed ==
    /\ armed /\ ~fired /\ ~holding
    /\ IF AtOrAfter(millis, deadline)
       THEN armed' = FALSE /\ UNCHANGED <<holding, holdSince, began>>
       ELSE /\ IF down
               THEN holding' = TRUE /\ holdSince' = millis /\ began' = uptime
               ELSE UNCHANGED <<holding, holdSince, began>>
            /\ UNCHANGED armed
    /\ UNCHANGED fired

\* A mutant: the hold has to end inside the window as well.
HoldingFeedInWindow ==
    /\ armed /\ ~fired /\ holding
    /\ IF ~down \/ AtOrAfter(millis, deadline)
       THEN holding' = FALSE /\ UNCHANGED <<armed, fired>>
       ELSE /\ fired' = ((millis + Clock - holdSince) % Clock >= Hold)
            /\ armed' = ~fired'
            /\ UNCHANGED holding
    /\ UNCHANGED <<holdSince, began>>

\* feed() during a hold: released, long enough, or still counting.
HoldingFeed ==
    /\ armed /\ ~fired /\ holding
    /\ IF ~down
       THEN holding' = FALSE /\ UNCHANGED <<armed, fired>>
       ELSE /\ fired' = ((millis + Clock - holdSince) % Clock >= Hold)
            /\ armed' = ~fired'
            /\ UNCHANGED holding
    /\ UNCHANGED <<holdSince, began>>

\* feed() after a wake, after the window, or once it has fired.
DeadFeed ==
    /\ ~armed /\ ~fired
    /\ UNCHANGED <<armed, holding, holdSince, fired, began>>

Feed ==
    /\ ~fed
    /\ fed' = TRUE
    /\ IdleFeed \/ HoldingFeed \/ DeadFeed
    /\ UNCHANGED <<deadline, coldBoot, uptime, down, downSince, away>>

\* The rest of an ordinary pass: a key seen down at both ends stayed down.
ShortPass(t) ==
    /\ fed /\ ~fired /\ uptime + t <= MaxUptime
    /\ fed' = FALSE
    /\ uptime' = uptime + t
    /\ down' \in BOOLEAN
    /\ downSince' = IF down /\ down' THEN downSince ELSE uptime'
    /\ UNCHANGED <<armed, deadline, holding, holdSince, fired, coldBoot, began, away>>

\* The key was 'u': loop() sits in ota::runMode().  The key is let go, and
\* what is down afterwards, Esc perhaps, has only just gone down.
OtaPass(t) ==
    /\ fed /\ ~fired /\ down /\ uptime + t <= MaxUptime
    /\ fed' = FALSE
    /\ uptime' = uptime + t
    /\ down' \in BOOLEAN
    /\ downSince' = uptime' /\ away' = uptime'
    /\ UNCHANGED <<armed, deadline, holding, holdSince, fired, coldBoot, began>>

Next ==
    \/ Feed
    \/ \E t \in 1 .. MaxPass : ShortPass(t)
    \/ \E t \in 1 .. MaxOta : OtaPass(t)

Spec == Init /\ [][Next]_vars

-----------------------------------------------------------------------------
(* Properties.                                                             *)

TypeOK ==
    /\ armed \in BOOLEAN /\ holding \in BOOLEAN /\ fired \in BOOLEAN
    /\ coldBoot \in BOOLEAN /\ down \in BOOLEAN /\ fed \in BOOLEAN
    /\ deadline \in 0 .. Clock - 1 /\ holdSince \in 0 .. Clock - 1
    /\ uptime \in 0 .. MaxUptime /\ downSince \in 0 .. MaxUptime
    /\ began \in 0 .. MaxUptime /\ away \in 0 .. MaxUptime

\* The device is wiped only after a cold boot, by a hold that was noticed inside
\* the window, however often millis() has wrapped since, and that is continuous
\* (reset_gesture.h, kResetHoldMs): the key has been down, without a break, for
\* Hold.  A stay in the OTA mode during the hold is the exception, see
\* ContinuousHold.
WipeIsMeant ==
    fired => /\ coldBoot /\ began < Window
             /\ away <= began => down /\ uptime - downSince >= Hold

\* A key first seen down inside the window and never let go wipes the device as
\* soon as it has been down for Hold: no pass is missed, whatever the gesture was
\* counting before.
LongHoldFires ==
    coldBoot /\ down /\ downSince < Window /\ fed /\ ~fired
        => uptime - downSince < Hold

\* "continuous hold" (reset_gesture.h, kResetHoldMs), without the exception.
ContinuousHold == fired => down /\ uptime - downSince >= Hold

=============================================================================
