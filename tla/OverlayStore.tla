---------------------------- MODULE OverlayStore ----------------------------
(***************************************************************************)
(* The optimistic overlay (firmware/lib/core/optimistic.cpp) as loop()     *)
(* drives it (claimFor, pumpNetwork and loop in firmware/src/main.cpp).    *)
(*                                                                         *)
(* A press claims one field; the claim is painted over the last snapshot   *)
(* until its request is refused, a snapshot agrees or its time is up.      *)
(* Every field has two values, which is enough to agree and to disagree.   *)
(* Rooms have the one pair of fields that paint over each other, and a     *)
(* snapshot may lack a room; the rest of the fields are either set to a    *)
(* value read off the screen, as a room's are, or, the Toggles, computed   *)
(* by claimFor() from the snapshot.                                        *)
(*                                                                         *)
(* millis() wraps: time is a number modulo Clock, 2^32 in the code.        *)
(***************************************************************************)
EXTENDS Naturals, FiniteSets

CONSTANTS
    NSlots,      \* kMaxOverlays
    Rooms,       \* room ids
    Toggles,     \* fields claimed relative to the snapshot: Teufel and mute
    Clock,       \* the modulus of millis()
    Ttl,         \* kOverlayTtlMs
    IrTtl,       \* kUnconfirmedMs
    MaxPass,     \* bound: time between two pumps of loop(), claims living
    MaxClaim,    \* bound: claims made in one behaviour
    MaxMore      \* bound: lit rooms that the snapshot counts but does not list

ASSUME OverlayAssumption ==
    /\ NSlots \in Nat \ {0} /\ MaxClaim \in Nat
    /\ IsFiniteSet(Rooms) /\ MaxMore \in Nat
    /\ Clock \in Nat /\ Ttl \in Nat \ {0} /\ IrTtl \in Nat \ {0}
    /\ MaxPass \in Nat \ {0} /\ Toggles # {}
    /\ 2 * Ttl < Clock /\ 2 * IrTtl < Clock /\ 2 * MaxPass < Clock

Slot  == 1 .. NSlots
Field == ({"RoomOn", "RoomBri"} \X Rooms) \cup ({"Toggle"} \X Toggles)
Value == {0, 1}
Time  == 0 .. Clock - 1

\* An Overlay.  age is history: the time since the claim, which no wrap
\* of millis() changes.
Overlay == [field : Field, value : Value, expiresAt : Time, token : 0 .. MaxClaim,
            viaIr : BOOLEAN, active : BOOLEAN, age : 0 .. Clock]

VARIABLES
    slots,       \* slots_
    nextToken,   \* nextToken_
    dash,        \* g_dash, the last snapshot that parsed: what it says ...
    listed,      \* ... the rooms it lists, g_dash.hue.rooms ...
    litCount,    \* ... and how many it says are lit, g_dash.hue.litCount
    now,         \* millis() as loop() read it at the top of this pass
    stage,       \* "key", "pump" or "drawn": how far this pass has come
    asked        \* tokens of requests without a verdict yet

vars == <<slots, nextToken, dash, listed, litCount, now, stage, asked>>
snapshot == <<dash, listed, litCount>>

\* An inactive slot.  What it held before is never read again.
Free == [field |-> CHOOSE f \in Field : TRUE, value |-> 0, expiresAt |-> 0,
         token |-> 0, viaIr |-> FALSE, active |-> FALSE, age |-> 0]

Init ==
    /\ slots = [i \in Slot |-> Free]
    /\ nextToken = 1
    /\ dash = [f \in Field |-> 0] /\ listed = {} /\ litCount = 0
    /\ now = 0 /\ stage = "key" /\ asked = {}

-----------------------------------------------------------------------------
\* A mutant: the plain comparison, wrong when millis() has wrapped.
AliveUnwrapped(o, t) == o.active /\ o.expiresAt > t

\* alive(): the signed difference of two wrapping counters is positive.
Alive(o, t) ==
    o.active /\ (o.expiresAt + Clock - t) % Clock \in 1 .. (Clock - 1) \div 2

First(S) == CHOOSE i \in S : \A j \in S : i <= j

\* A mutant: a dead claim on the same field is not reused.
SlotForLive(f) ==
    LET same == {i \in Slot : Alive(slots[i], now) /\ slots[i].field = f}
        dead == {i \in Slot : ~Alive(slots[i], now)}
    IN  IF same # {} THEN First(same)
        ELSE IF dead # {} THEN First(dead) ELSE 1

\* The slot a claim on f goes into: the one that already holds f, else the
\* first that is free or dead, else the first of all.
SlotFor(f) ==
    LET same == {i \in Slot : slots[i].active /\ slots[i].field = f}
        dead == {i \in Slot : ~Alive(slots[i], now)}
    IN  IF same # {} THEN First(same)
        ELSE IF dead # {} THEN First(dead) ELSE 1

\* OverlayStore::claim, and claimText, which differs in what a value is.
Claim(f, v, ir) ==
    /\ slots' = [slots EXCEPT ![SlotFor(f)] =
            [field |-> f, value |-> v, token |-> nextToken,
             expiresAt |-> (now + IF ir THEN IrTtl ELSE Ttl) % Clock,
             viaIr |-> ir, active |-> TRUE, age |-> 0]]
    /\ nextToken' = nextToken + 1

-----------------------------------------------------------------------------
(* apply(): the claims painted over a snapshot, slot by slot.              *)

\* Whether a snapshot that lists these rooms has a place for field f.
Has(rooms, f) == f[1] = "Toggle" \/ f[2] \in rooms

\* A claim on a room that is not listed is passed over.  Setting a room's
\* brightness shows the room as on.
PaintOne(view, o) ==
    IF ~Has(listed, o.field) THEN view
    ELSE IF o.field[1] = "RoomBri"
    THEN [view EXCEPT ![o.field] = o.value, ![<<"RoomOn", o.field[2]>>] = 1]
    ELSE [view EXCEPT ![o.field] = o.value]

\* The fields that a claim is painted on.
Paints(o, f) ==
    /\ Has(listed, o.field)
    /\ \/ o.field = f
       \/ f[1] = "RoomOn" /\ o.field = <<"RoomBri", f[2]>>

\* A mutant: a claim is painted until it is taken out, dead or not.
ViewActive ==
    LET paint[i \in 0 .. NSlots] ==
            IF i = 0 THEN dash
            ELSE IF slots[i].active THEN PaintOne(paint[i - 1], slots[i])
            ELSE paint[i - 1]
    IN  paint[NSlots]

View ==
    LET paint[i \in 0 .. NSlots] ==
            IF i = 0 THEN dash
            ELSE IF Alive(slots[i], now) THEN PaintOne(paint[i - 1], slots[i])
            ELSE paint[i - 1]
    IN  paint[NSlots]

\* The recount that apply() ends with: the header shows LitIn(View), whatever
\* the snapshot counted.
LitIn(view) == Cardinality({r \in listed : view[<<"RoomOn", r>>] = 1})

-----------------------------------------------------------------------------
(* One pass of loop().                                                     *)

\* A key that claims nothing, or no key.
NoPress ==
    /\ stage = "key"
    /\ stage' = "pump"
    /\ UNCHANGED <<slots, nextToken, snapshot, now, asked>>

\* An intent that names the value it wants: on, off, bri, input, effect, mode.
\* Keys and console find a room in the list of the snapshot.
PressSet(f, v) ==
    /\ stage = "key" /\ nextToken <= MaxClaim
    /\ f[1] # "Toggle" /\ f[2] \in listed
    /\ Claim(f, v, FALSE)
    /\ asked' = asked \cup {nextToken}
    /\ stage' = "pump"
    /\ UNCHANGED <<snapshot, now>>

\* An intent that claimFor() turns into a value from the last snapshot.  Over
\* infrared nothing is asked and nothing will answer.
PressToggle(f, ir) ==
    /\ stage = "key" /\ nextToken <= MaxClaim
    /\ f[1] = "Toggle"
    /\ Claim(f, 1 - dash[f], ir)
    /\ asked' = IF ir THEN asked ELSE asked \cup {nextToken}
    /\ stage' = "pump"
    /\ UNCHANGED <<snapshot, now>>

\* OverlayStore::reject.
Reject(t) ==
    LET hit == {i \in Slot : slots[i].active /\ slots[i].token = t}
    IN  slots' = [i \in Slot |-> IF i \in hit THEN Free ELSE slots[i]]

\* The gateway refused, nothing answered, or the queue was full.
Refused(t) ==
    /\ stage = "pump" /\ t \in asked
    /\ Reject(t)
    /\ asked' = asked \ {t}
    /\ UNCHANGED <<nextToken, snapshot, now, stage>>

\* A verdict that says yes leaves the claim to the next snapshot.
Accepted(t) ==
    /\ stage = "pump" /\ t \in asked
    /\ asked' = asked \ {t}
    /\ UNCHANGED <<slots, nextToken, snapshot, now, stage>>

\* A mutant: infrared claims are settled like any other.
SettlesAny(o, d, rooms) ==
    Alive(o, now) /\ Has(rooms, o.field) /\ d[o.field] = o.value

\* Whether settleWith() retires claim o against snapshot d.
Settles(o, d, rooms) ==
    /\ Alive(o, now) /\ ~o.viaIr
    /\ Has(rooms, o.field) /\ d[o.field] = o.value

\* A snapshot that parsed: it becomes g_dash and settles what it agrees with.
\* Its own count of lit rooms covers those beyond the kMaxRooms it can list.
Snapshot(d, rooms, lit) ==
    /\ stage = "pump"
    /\ dash' = d /\ listed' = rooms /\ litCount' = lit
    /\ slots' = [i \in Slot |->
            IF Settles(slots[i], d, rooms) THEN Free ELSE slots[i]]
    /\ UNCHANGED <<nextToken, now, stage, asked>>

\* expire(), then the screen is drawn.
ExpireAndDraw ==
    /\ stage = "pump"
    /\ stage' = "drawn"
    /\ slots' = [i \in Slot |->
            IF slots[i].active /\ ~Alive(slots[i], now) THEN Free ELSE slots[i]]
    /\ UNCHANGED <<nextToken, snapshot, now, asked>>

\* Time goes by; the claims age.
Later(later) ==
    /\ now' = (now + later) % Clock
    /\ slots' = [i \in Slot |->
            [slots[i] EXCEPT !.age = IF slots[i].active THEN @ + later ELSE 0]]
    /\ stage' = "key"
    /\ UNCHANGED <<nextToken, snapshot, asked>>

\* The next pass begins some time later; how late depends on what drew and
\* on what blocked.
NextPass(later) == stage = "drawn" /\ Later(later)

\* How long a claim may be painted.
TtlOf(o) == IF o.viaIr THEN IrTtl ELSE Ttl

\* A pass that ends in ota::runMode() returns before the pump and expire().
\* Stays that follow one another add up to less than MaxPass.
OtaPass(later) ==
    /\ stage = "key"
    /\ \A i \in Slot : slots[i].active =>
           slots[i].age + later < TtlOf(slots[i]) + MaxPass
    /\ Later(later)

Pump == \/ \E t \in asked : Refused(t) \/ Accepted(t)
        \/ \E rooms \in SUBSET Rooms, more \in 0 .. MaxMore :
           \E d \in {x \in [Field -> Value] : \A f \in Field : Has(rooms, f) \/ x[f] = 0} :
               Snapshot(d, rooms, more + Cardinality({r \in rooms : d[<<"RoomOn", r>>] = 1}))

Next ==
    \/ NoPress
    \/ \E f \in Field, v \in Value : PressSet(f, v)
    \/ \E f \in Field, ir \in BOOLEAN : PressToggle(f, ir)
    \/ Pump
    \/ ExpireAndDraw
    \/ \E later \in 1 .. MaxPass : NextPass(later) \/ OtaPass(later)

Spec == Init /\ [][Next]_vars

-----------------------------------------------------------------------------
(* Properties.                                                             *)

TypeOK ==
    /\ slots \in [Slot -> Overlay]
    /\ nextToken \in 1 .. MaxClaim + 1
    /\ dash \in [Field -> Value] /\ listed \subseteq Rooms /\ litCount \in Nat
    /\ now \in Time
    /\ stage \in {"key", "pump", "drawn"}
    /\ asked \subseteq 1 .. MaxClaim

\* Repeated presses on a field are one moving claim: never two slots for the
\* same field, nor one token in two slots, so a verdict can only ever undo
\* the press it is about.
OneClaimPerField ==
    \A i, j \in Slot :
        slots[i].active /\ slots[j].active /\ i # j =>
            /\ slots[i].field # slots[j].field
            /\ slots[i].token # slots[j].token

\* A claim is on the screen for exactly its time, also when millis() wraps
\* between the press and the deadline: it neither outlives its ttl nor is
\* dropped early (alive, the signed difference).
PaintedForItsTime ==
    \A i \in Slot :
        slots[i].active =>
            (Alive(slots[i], now) <=>
                 slots[i].age < TtlOf(slots[i]))

\* What painting slot by slot comes to: a living claim on something that the
\* snapshot has is on the screen, unless a room is claimed off and a later slot
\* holds a living claim on its brightness, which shows it on (apply; the slots
\* are in no order of time).  What differs on the screen from the snapshot is
\* claimed; only the header may differ without a claim, where the snapshot
\* counts rooms that it does not list.
ClaimsShow ==
    LET view == View
        Painted(f) == \E i \in Slot : Alive(slots[i], now) /\ Paints(slots[i], f)
    IN
    /\ \A i \in Slot : Alive(slots[i], now) /\ Has(listed, slots[i].field) =>
           LET f == slots[i].field IN
           view[f] # slots[i].value =>
               /\ f[1] = "RoomOn" /\ slots[i].value = 0
               /\ \E j \in Slot : j > i /\ Alive(slots[j], now) /\ Paints(slots[j], f)
    /\ \A f \in Field : view[f] # dash[f] => Painted(f)
    /\ LitIn(view) # litCount =>
           \/ \E r \in listed : Painted(<<"RoomOn", r>>)
           \/ litCount # LitIn(dash)

\* While it lives, a claim leaves its slot only for a reason of its own: its
\* very request was refused, a snapshot agreed with a claim that was not made
\* over infrared, a new press on the same field took it over, or every slot
\* was alive and another field needed one.  A late refusal of an earlier
\* press never undoes a later one, and a snapshot that disagrees, or lacks the
\* room, takes no claim out: so says the head of optimistic.h ("until either a
\* fresher snapshot agrees ... or it expires"), while its comment on settleWith
\* says otherwise (SnapshotSettles in MCOverlayStore).
ClaimLeavesForCause ==
    [][\A i \in Slot :
        LET o == slots[i] IN
        Alive(o, now) /\ (slots'[i].token # o.token \/ ~slots'[i].active) =>
            \/ Refused(o.token)
            \/ /\ Snapshot(dash', listed', litCount') /\ ~o.viaIr
               /\ Has(listed', o.field) /\ dash'[o.field] = o.value
            \/ slots'[i].active /\ slots'[i].field = o.field
            \/ slots'[i].active /\ \A j \in Slot : Alive(slots[j], now)]_vars

=============================================================================
