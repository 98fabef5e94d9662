-------------------------- MODULE OverlayStoreProofs --------------------------
(***************************************************************************)
(* Theorems about OverlayStore for any number of slots, rooms and toggles, *)
(* any times and any modulus of millis() that exceeds twice each of them.  *)
(***************************************************************************)
EXTENDS OverlayStore, Integers, FiniteSetTheorems, WellFoundedInduction, TLAPS

\* A remainder over less than two turns of the clock.
LEMMA ModOnce ==
    ASSUME NEW c \in Nat \ {0}, NEW a \in 0 .. 2 * c - 1
    PROVE  a % c = IF a < c THEN a ELSE a - c
  <1>1. a \in Int /\ c \in Int /\ c > 0 OBVIOUS
  <1>a. a % c \in 0 .. c - 1 BY <1>1
  <1>b. a \div c \in Int BY <1>1
  <1>d. a = c * (a \div c) + (a % c) BY <1>1
  <1>2. /\ a = c * (a \div c) + (a % c)
        /\ a % c \in 0 .. c - 1 /\ a \div c \in Int
    BY <1>a, <1>b, <1>d
  <1> DEFINE q == a \div c
             r == a % c
  <1> HIDE DEF q, r
  <1>3. a = c * q + r /\ r \in 0 .. c - 1 /\ q \in Int
    BY <1>2 DEF q, r
  <1>4. q = 0 \/ q = 1
    <2>1. CASE q >= 2
      <3>1. c * q >= c * 2 BY <1>1, <1>3, <2>1
      <3> QED BY <1>3, <3>1
    <2>2. CASE q <= -1
      <3>1. c * q <= c * (-1) BY <1>1, <1>3, <2>2
      <3> QED BY <1>3, <3>1
    <2> QED BY <1>3, <2>1, <2>2
  <1>5. r = IF a < c THEN a ELSE a - c
    BY <1>3, <1>4
  <1> QED BY <1>5 DEF r

\* The first slot of a set of slots is one of them.
LEMMA FirstFacts ==
    ASSUME NEW S \in SUBSET Slot, S # {}
    PROVE  First(S) \in S
  <1> DEFINE R == {ss \in Nat \X Nat : ss[1] < ss[2]}
  <1>1. S \subseteq Nat BY OverlayAssumption DEF Slot
  <1>2. IsWellFoundedOn(R, Nat) BY NatLessThanWellFounded, Zenon DEF OpToRel
  <1>3. PICK x \in S : \A y \in S : <<y, x>> \notin R
    <2> HIDE DEF R
    <2> QED BY <1>1, <1>2, WFMin
  <1>4. ASSUME NEW y \in S PROVE x <= y
    <2>1. x \in Nat /\ y \in Nat BY <1>1
    <2>2. y < x => <<y, x>> \in R BY <2>1
    <2> QED BY <1>3, <2>1, <2>2
  <1> QED BY <1>4 DEF First

-----------------------------------------------------------------------------
(* The inductive invariant.                                                *)

\* The deadline is the claim's age before its time is up, on a clock that may
\* have wrapped in between, one way or the other.
Dated(o, t) ==
    LET end == t + TtlOf(o) - o.age
    IN  o.expiresAt = end \/ o.expiresAt = end - Clock \/ o.expiresAt = end + Clock

\* Every pass that reaches expire() takes the dead claims out before the others
\* age, so a claim never gets so old that the signed difference turns again.
ClaimsDated ==
    \A i \in Slot : slots[i].active =>
        /\ Dated(slots[i], now)
        /\ slots[i].age < TtlOf(slots[i]) + MaxPass
        /\ stage = "drawn" => slots[i].age < TtlOf(slots[i])

\* A token is given out once.
TokensUsed == \A i \in Slot : slots[i].active => slots[i].token < nextToken

\* The four together are inductive.
IInv == TypeOK /\ OneClaimPerField /\ TokensUsed /\ ClaimsDated

-----------------------------------------------------------------------------
\* alive() is right about a claim that is dated and not too old.
LEMMA AliveIfYoung ==
    ASSUME NEW o \in Overlay, NEW t \in Time, o.active,
           Dated(o, t), o.age < TtlOf(o) + MaxPass
    PROVE  Alive(o, t) <=> o.age < TtlOf(o)
  <1> DEFINE ttl == TtlOf(o)
             d == ttl - o.age
             x == o.expiresAt + Clock - t
  <1>1. /\ Clock \in Nat \ {0} /\ ttl \in Nat \ {0} /\ MaxPass \in Nat
        /\ 2 * ttl < Clock /\ 2 * MaxPass < Clock
    BY OverlayAssumption DEF TtlOf
  <1>2. o.expiresAt \in 0 .. Clock - 1 /\ t \in 0 .. Clock - 1 /\ o.age \in 0 .. Clock
    BY DEF Overlay, Time
  <1>3. \/ o.expiresAt = t + ttl - o.age
        \/ o.expiresAt = t + ttl - o.age - Clock
        \/ o.expiresAt = t + ttl - o.age + Clock
    BY <1>1, <1>2 DEF Dated
  <1>4. o.age < ttl + MaxPass OBVIOUS
  <1> HIDE DEF ttl
  <1>5. x \in 0 .. 2 * Clock - 1 /\ (x = d \/ x = d + Clock \/ x = d + 2 * Clock)
    BY <1>1, <1>2, <1>3
  <1>6. x % Clock = IF x < Clock THEN x ELSE x - Clock
    BY <1>1, <1>5, ModOnce
  <1>7. x % Clock = IF d >= 0 THEN d ELSE d + Clock
    BY <1>1, <1>2, <1>4, <1>5, <1>6
  <1>8. (x % Clock) \in 1 .. (Clock - 1) \div 2 <=> d > 0
    BY <1>1, <1>2, <1>4, <1>7
  <1> QED BY <1>1, <1>2, <1>8 DEF Alive, ttl

\* A fresh claim is dated: its deadline is its time from now, modulo the clock.
LEMMA DatedAtBirth ==
    ASSUME NEW o, o.age = 0, NEW t \in Time, o.expiresAt = (t + TtlOf(o)) % Clock
    PROVE  Dated(o, t) /\ o.expiresAt \in Time
  <1>1. /\ Clock \in Nat \ {0} /\ TtlOf(o) \in Nat \ {0} /\ 2 * TtlOf(o) < Clock
    BY OverlayAssumption DEF TtlOf
  <1>2. t \in 0 .. Clock - 1 BY DEF Time
  <1> DEFINE a == t + TtlOf(o)
  <1>3. a \in 0 .. 2 * Clock - 1 /\ o.expiresAt = a % Clock
    BY <1>1, <1>2
  <1> HIDE DEF a
  <1>4. o.expiresAt = IF a < Clock THEN a ELSE a - Clock
    BY <1>1, <1>3, ModOnce
  <1> QED BY <1>1, <1>2, <1>3, <1>4 DEF Dated, Time, a

\* Time passing keeps a claim dated, as long as it does not get too old.
LEMMA DatedLater ==
    ASSUME NEW o \in Overlay, NEW t \in Time, Dated(o, t),
           NEW later \in 1 .. MaxPass, o.age + later < TtlOf(o) + MaxPass
    PROVE  Dated([o EXCEPT !.age = @ + later], (t + later) % Clock)
  <1> DEFINE p == [o EXCEPT !.age = @ + later]
             ttl == TtlOf(o)
             u == (t + later) % Clock
  <1>1. /\ Clock \in Nat \ {0} /\ ttl \in Nat \ {0} /\ MaxPass \in Nat
        /\ 2 * ttl < Clock /\ 2 * MaxPass < Clock
    BY OverlayAssumption DEF TtlOf
  <1>2. o.expiresAt \in 0 .. Clock - 1 /\ t \in 0 .. Clock - 1 /\ o.age \in 0 .. Clock
    BY DEF Overlay, Time
  <1>3. u = IF t + later < Clock THEN t + later ELSE t + later - Clock
    <2> DEFINE a == t + later
    <2>1. a \in 0 .. 2 * Clock - 1 BY <1>1, <1>2
    <2> HIDE DEF a
    <2>2. a % Clock = IF a < Clock THEN a ELSE a - Clock
      BY <1>1, <2>1, ModOnce
    <2> QED BY <1>1, <1>2, <2>1, <2>2 DEF a, u
  <1>4. p.age = o.age + later /\ p.expiresAt = o.expiresAt /\ TtlOf(p) = ttl
    BY DEF Overlay, TtlOf
  <1>5. \/ o.expiresAt = t + ttl - o.age
        \/ o.expiresAt = t + ttl - o.age - Clock
        \/ o.expiresAt = t + ttl - o.age + Clock
    BY <1>1, <1>2 DEF Dated
  <1>6. o.age + later < ttl + MaxPass OBVIOUS
  <1> HIDE DEF p, ttl, u
  <1>7. \/ p.expiresAt = u + TtlOf(p) - p.age
        \/ p.expiresAt = u + TtlOf(p) - p.age - Clock
        \/ p.expiresAt = u + TtlOf(p) - p.age + Clock
    BY <1>1, <1>2, <1>3, <1>4, <1>5, <1>6
  <1>8. Dated(p, u)
    BY <1>1, <1>2, <1>3, <1>4, <1>7 DEF Dated
  <1> QED BY <1>8 DEF p, u

\* An empty slot is an overlay that claims nothing.
LEMMA FreeFacts == Free \in Overlay /\ ~Free.active
  <1>1. Field # {}
    <2>1. PICK x \in Toggles : TRUE BY OverlayAssumption
    <2>2. <<"Toggle", x>> \in Field BY DEF Field
    <2> QED BY <2>2
  <1>2. (CHOOSE f \in Field : TRUE) \in Field BY <1>1
  <1>3. 0 \in Value /\ 0 \in Time /\ 0 \in 0 .. MaxClaim /\ 0 \in 0 .. Clock
    BY OverlayAssumption DEF Value, Time
  <1> QED BY <1>2, <1>3 DEF Free, Overlay

\* Where a claim goes: into the slot of its field if there is one; then it is
\* the only one, and else no slot holds the field.  Only when nothing is dead
\* does it take the slot of a living claim on another field.
LEMMA SlotForFacts ==
    ASSUME TypeOK, OneClaimPerField, NEW f \in Field
    PROVE  /\ SlotFor(f) \in Slot
           /\ \A i \in Slot : slots[i].active /\ slots[i].field = f => i = SlotFor(f)
           /\ Alive(slots[SlotFor(f)], now) /\ slots[SlotFor(f)].field # f
                => \A j \in Slot : Alive(slots[j], now)
  <1> DEFINE same == {i \in Slot : slots[i].active /\ slots[i].field = f}
             dead == {i \in Slot : ~Alive(slots[i], now)}
  <1>1. CASE same # {}
    <2>1. SlotFor(f) \in same BY <1>1, FirstFacts DEF SlotFor
    <2> QED BY <2>1 DEF OneClaimPerField
  <1>2. CASE same = {} /\ dead # {}
    <2>1. SlotFor(f) \in dead BY <1>2, FirstFacts DEF SlotFor
    <2> QED BY <1>2, <2>1
  <1>3. CASE same = {} /\ dead = {}
    <2>1. SlotFor(f) = 1 /\ 1 \in Slot
      BY <1>3, OverlayAssumption DEF SlotFor, Slot
    <2> QED BY <1>3, <2>1
  <1> QED BY <1>1, <1>2, <1>3

-----------------------------------------------------------------------------
(* The steps.                                                              *)

\* A press: OverlayStore::claim keeps one claim per field, gives it a token of
\* its own and dates it.
LEMMA ClaimStep ==
    ASSUME IInv, NEW f \in Field, NEW v \in Value, NEW ir \in BOOLEAN,
           nextToken <= MaxClaim, Claim(f, v, ir), now' = now, stage' = "pump"
    PROVE  /\ slots' \in [Slot -> Overlay] /\ nextToken' \in 1 .. MaxClaim + 1
           /\ OneClaimPerField' /\ TokensUsed' /\ ClaimsDated'
  <1> DEFINE k == SlotFor(f)
             e == (now + IF ir THEN IrTtl ELSE Ttl) % Clock
             o == [field |-> f, value |-> v, token |-> nextToken, expiresAt |-> e,
                   viaIr |-> ir, active |-> TRUE, age |-> 0]
  <1>1. /\ slots \in [Slot -> Overlay] /\ nextToken \in 1 .. MaxClaim + 1
        /\ now \in Time /\ MaxClaim \in Nat
    BY OverlayAssumption DEF IInv, TypeOK
  <1>2. /\ k \in Slot
        /\ \A i \in Slot : slots[i].active /\ slots[i].field = f => i = k
    BY SlotForFacts DEF IInv
  <1>3. slots' = [slots EXCEPT ![k] = o] /\ nextToken' = nextToken + 1
    BY DEF Claim
  <1>4. /\ o.field = f /\ o.token = nextToken /\ o.active /\ o.age = 0
        /\ o.expiresAt = (now + TtlOf(o)) % Clock
    BY DEF TtlOf
  <1>5. Dated(o, now) /\ o.expiresAt \in Time
    BY <1>1, <1>4, DatedAtBirth
  <1>6. o \in Overlay
    BY <1>1, <1>5, OverlayAssumption DEF Overlay
  <1>7. 0 < TtlOf(o) /\ 0 < TtlOf(o) + MaxPass
    BY OverlayAssumption DEF TtlOf
  <1> HIDE DEF k, e, o
  <1>8. slots' \in [Slot -> Overlay] /\ nextToken' \in 1 .. MaxClaim + 1
    BY <1>1, <1>2, <1>3, <1>6
  <1>9. \A i \in Slot : slots'[i] = IF i = k THEN o ELSE slots[i]
    BY <1>1, <1>3
  <1>10. \A i \in Slot : slots[i].active => slots[i].token < nextToken
    BY DEF IInv, TokensUsed
  <1>11. OneClaimPerField'
    <2> SUFFICES ASSUME NEW i \in Slot, NEW j \in Slot, i # j,
                        slots'[i].active, slots'[j].active
                 PROVE  /\ slots'[i].field # slots'[j].field
                        /\ slots'[i].token # slots'[j].token
      BY DEF OneClaimPerField
    <2>1. slots[i] \in Overlay /\ slots[j] \in Overlay BY <1>1
    <2>2. CASE i = k
      <3>1. slots'[j] = slots[j] BY <1>9, <2>2
      <3> QED BY <1>1, <1>2, <1>4, <1>9, <1>10, <2>1, <2>2, <3>1 DEF Overlay
    <2>3. CASE j = k
      <3>1. slots'[i] = slots[i] BY <1>9, <2>3
      <3> QED BY <1>1, <1>2, <1>4, <1>9, <1>10, <2>1, <2>3, <3>1 DEF Overlay
    <2>4. CASE i # k /\ j # k
      BY <1>9, <2>4 DEF IInv, OneClaimPerField
    <2> QED BY <2>2, <2>3, <2>4
  <1>12. TokensUsed'
    <2> SUFFICES ASSUME NEW i \in Slot, slots'[i].active
                 PROVE  slots'[i].token < nextToken'
      BY DEF TokensUsed
    <2>1. slots[i].token \in 0 .. MaxClaim BY <1>1 DEF Overlay
    <2> QED BY <1>1, <1>3, <1>4, <1>9, <1>10, <2>1
  <1>13. ClaimsDated'
    <2> SUFFICES ASSUME NEW i \in Slot, slots'[i].active
                 PROVE  Dated(slots'[i], now) /\ slots'[i].age < TtlOf(slots'[i]) + MaxPass
      BY DEF ClaimsDated
    <2>1. CASE i = k
      BY <1>4, <1>5, <1>7, <1>9, <2>1
    <2>2. CASE i # k
      BY <1>9, <2>2 DEF IInv, ClaimsDated
    <2> QED BY <2>1, <2>2
  <1> QED BY <1>8, <1>11, <1>12, <1>13

\* Taking claims out (reject, settleWith, expire) disturbs no other.
LEMMA FreeingStep ==
    ASSUME IInv, DOMAIN slots' = Slot, slots' = [i \in Slot |-> slots'[i]],
           \A i \in Slot : slots'[i] = Free \/ slots'[i] = slots[i],
           UNCHANGED <<nextToken, now>>,
           stage' = "drawn" =>
               \A i \in Slot : slots'[i].active => slots'[i].age < TtlOf(slots'[i])
    PROVE  /\ slots' \in [Slot -> Overlay]
           /\ OneClaimPerField' /\ TokensUsed' /\ ClaimsDated'
  <1>1. \A i \in Slot : slots'[i].active => slots'[i] = slots[i] /\ slots[i].active
    BY FreeFacts
  <1>2. slots' \in [Slot -> Overlay]
    BY FreeFacts DEF IInv, TypeOK
  <1>3. OneClaimPerField' /\ TokensUsed'
    BY <1>1 DEF IInv, OneClaimPerField, TokensUsed
  <1>4. ClaimsDated'
    BY <1>1 DEF IInv, ClaimsDated
  <1> QED BY <1>2, <1>3, <1>4

\* The time between two passes: no claim that is left gets too old in it.
LEMMA LaterStep ==
    ASSUME IInv, NEW later \in 1 .. MaxPass, Later(later),
           \A i \in Slot : slots[i].active =>
               slots[i].age + later < TtlOf(slots[i]) + MaxPass
    PROVE  IInv'
  <1> DEFINE p(i) == [slots[i] EXCEPT !.age = IF slots[i].active THEN @ + later ELSE 0]
  <1>1. /\ slots \in [Slot -> Overlay] /\ now \in Time
        /\ UNCHANGED <<nextToken, dash, listed, litCount, asked>>
        /\ stage' = "key" /\ now' = (now + later) % Clock
        /\ slots' = [i \in Slot |-> p(i)]
    BY DEF IInv, TypeOK, Later, snapshot
  <1>2. now' \in Time
    BY <1>1, OverlayAssumption DEF Time
  <1>3. ASSUME NEW i \in Slot
        PROVE  /\ slots[i] \in Overlay
               /\ slots[i].active => slots'[i] = [slots[i] EXCEPT !.age = @ + later]
               /\ ~slots[i].active => slots'[i] = [slots[i] EXCEPT !.age = 0]
    BY <1>1
  <1>4. ASSUME NEW i \in Slot
        PROVE  /\ slots'[i].active = slots[i].active
               /\ slots'[i].field = slots[i].field /\ slots'[i].token = slots[i].token
               /\ TtlOf(slots'[i]) = TtlOf(slots[i])
               /\ slots[i].active => slots'[i].age = slots[i].age + later
               /\ slots[i].age \in Nat
    <2> DEFINE o == slots[i]
               n == slots'[i]
    <2>1. o \in Overlay BY <1>3
    <2>2. o.age \in Nat BY <2>1 DEF Overlay
    <2>3. CASE o.active
      <3>1. n = [o EXCEPT !.age = @ + later] BY <1>3, <2>3
      <3> HIDE DEF o, n
      <3>2. /\ n.active = o.active /\ n.field = o.field /\ n.token = o.token
            /\ n.viaIr = o.viaIr /\ n.age = o.age + later
        BY <2>1, <3>1 DEF Overlay
      <3> QED BY <2>2, <3>2 DEF TtlOf, o, n
    <2>4. CASE ~o.active
      <3>1. n = [o EXCEPT !.age = 0] BY <1>3, <2>4
      <3> HIDE DEF o, n
      <3>2. /\ n.active = o.active /\ n.field = o.field /\ n.token = o.token
            /\ n.viaIr = o.viaIr
        BY <2>1, <3>1 DEF Overlay
      <3> QED BY <2>2, <2>4, <3>2 DEF TtlOf, o, n
    <2> QED BY <2>3, <2>4
  <1>5. ASSUME NEW i \in Slot, slots[i].active
        PROVE  /\ Dated(slots'[i], now')
               /\ slots[i].age + later \in 0 .. Clock
               /\ slots[i].age + later < TtlOf(slots[i]) + MaxPass
    <2>1. /\ Dated(slots[i], now)
          /\ slots[i].age + later < TtlOf(slots[i]) + MaxPass
      BY <1>1, <1>5 DEF IInv, ClaimsDated
    <2>2. Dated(slots'[i], now')
      BY <1>1, <1>3, <1>5, <2>1, DatedLater
    <2>3. /\ TtlOf(slots[i]) \in Nat /\ MaxPass \in Nat
          /\ TtlOf(slots[i]) + MaxPass <= Clock
      BY OverlayAssumption DEF TtlOf
    <2>4. slots[i].age \in Nat BY <1>4
    <2> QED BY <2>1, <2>2, <2>3, <2>4, OverlayAssumption
  <1>6. ASSUME NEW i \in Slot PROVE slots'[i] \in Overlay
    <2>1. CASE slots[i].active
      BY <1>3, <1>5, <2>1 DEF Overlay
    <2>2. CASE ~slots[i].active
      <3>1. 0 \in 0 .. Clock BY OverlayAssumption
      <3> QED BY <1>3, <2>2, <3>1 DEF Overlay
    <2> QED BY <2>1, <2>2
  <1>7. TypeOK'
    BY <1>1, <1>2, <1>6 DEF IInv, TypeOK
  <1> HIDE DEF p
  <1>8. OneClaimPerField' /\ TokensUsed'
    BY <1>1, <1>4 DEF IInv, OneClaimPerField, TokensUsed
  <1>9. ClaimsDated'
    BY <1>1, <1>4, <1>5 DEF ClaimsDated
  <1> QED BY <1>7, <1>8, <1>9 DEF IInv

\* Nothing is claimed at boot.
LEMMA InitInvariant == Init => IInv
  <1> SUFFICES ASSUME Init PROVE IInv OBVIOUS
  <1>1. \A i \in Slot : slots[i] = Free BY DEF Init
  <1>2. TypeOK
    BY FreeFacts, OverlayAssumption DEF Init, TypeOK, Value, Time
  <1>3. OneClaimPerField /\ TokensUsed /\ ClaimsDated
    BY <1>1, FreeFacts DEF OneClaimPerField, TokensUsed, ClaimsDated
  <1> QED BY <1>2, <1>3 DEF IInv

\* Every step of loop() keeps the invariant.
LEMMA StepInvariant ==
    ASSUME IInv, [Next]_vars
    PROVE  IInv'
  <1>1. /\ slots \in [Slot -> Overlay] /\ nextToken \in 1 .. MaxClaim + 1
        /\ dash \in [Field -> Value] /\ now \in Time
        /\ listed \subseteq Rooms /\ litCount \in Nat
        /\ stage \in {"key", "pump", "drawn"} /\ asked \subseteq 1 .. MaxClaim
        /\ slots = [i \in Slot |-> slots[i]]
    BY DEF IInv, TypeOK
  <1>2. CASE NoPress
    BY <1>1, <1>2 DEF NoPress, snapshot, IInv, TypeOK, OneClaimPerField, TokensUsed, ClaimsDated
  <1>3. ASSUME NEW f \in Field, NEW v \in Value, PressSet(f, v) PROVE IInv'
    <2>1. Claim(f, v, FALSE) /\ nextToken <= MaxClaim
      BY <1>3 DEF PressSet
    <2>2. /\ UNCHANGED <<dash, listed, litCount, now>> /\ stage' = "pump"
          /\ asked' = asked \cup {nextToken}
      BY <1>3 DEF PressSet, snapshot
    <2>3. /\ slots' \in [Slot -> Overlay] /\ nextToken' \in 1 .. MaxClaim + 1
          /\ OneClaimPerField' /\ TokensUsed' /\ ClaimsDated'
      BY <2>1, <2>2, ClaimStep
    <2>4. asked' \subseteq 1 .. MaxClaim BY <1>1, <2>1, <2>2, OverlayAssumption
    <2> QED BY <1>1, <2>2, <2>3, <2>4 DEF IInv, TypeOK
  <1>4. ASSUME NEW f \in Field, NEW ir \in BOOLEAN, PressToggle(f, ir) PROVE IInv'
    <2>1. Claim(f, 1 - dash[f], ir) /\ nextToken <= MaxClaim /\ 1 - dash[f] \in Value
      BY <1>1, <1>4 DEF PressToggle, Value
    <2>2. /\ UNCHANGED <<dash, listed, litCount, now>> /\ stage' = "pump"
          /\ asked' \subseteq asked \cup {nextToken}
      BY <1>4 DEF PressToggle, snapshot
    <2>3. /\ slots' \in [Slot -> Overlay] /\ nextToken' \in 1 .. MaxClaim + 1
          /\ OneClaimPerField' /\ TokensUsed' /\ ClaimsDated'
      BY <2>1, <2>2, ClaimStep
    <2>4. asked' \subseteq 1 .. MaxClaim BY <1>1, <2>1, <2>2, OverlayAssumption
    <2> QED BY <1>1, <2>2, <2>3, <2>4 DEF IInv, TypeOK
  <1>5. ASSUME NEW t \in asked, Refused(t) \/ Accepted(t) PROVE IInv'
    <2>1. /\ UNCHANGED <<nextToken, dash, listed, litCount, now, stage>>
          /\ stage = "pump"
          /\ asked' \subseteq asked
      BY <1>5 DEF Refused, Accepted, snapshot
    <2>2. /\ slots' = [i \in Slot |-> slots'[i]]
          /\ \A i \in Slot : slots'[i] = Free \/ slots'[i] = slots[i]
      BY <1>1, <1>5 DEF Refused, Accepted, Reject
    <2>3. DOMAIN slots' = Slot BY <2>2
    <2>4. /\ slots' \in [Slot -> Overlay]
          /\ OneClaimPerField' /\ TokensUsed' /\ ClaimsDated'
      BY <2>1, <2>2, <2>3, FreeingStep
    <2> QED BY <1>1, <2>1, <2>4 DEF IInv, TypeOK
  <1>6. ASSUME NEW d \in [Field -> Value], NEW rooms \in SUBSET Rooms, NEW lit \in Nat,
               Snapshot(d, rooms, lit)
        PROVE  IInv'
    <2>1. /\ UNCHANGED <<nextToken, now, stage, asked>> /\ stage = "pump"
          /\ dash' = d /\ listed' = rooms /\ litCount' = lit
      BY <1>6 DEF Snapshot
    <2>2. /\ slots' = [i \in Slot |-> slots'[i]]
          /\ \A i \in Slot : slots'[i] = Free \/ slots'[i] = slots[i]
      BY <1>1, <1>6 DEF Snapshot
    <2>3. DOMAIN slots' = Slot BY <2>2
    <2>4. /\ slots' \in [Slot -> Overlay]
          /\ OneClaimPerField' /\ TokensUsed' /\ ClaimsDated'
      BY <2>1, <2>2, <2>3, FreeingStep
    <2> QED BY <1>1, <2>1, <2>4 DEF IInv, TypeOK
  <1>7. CASE ExpireAndDraw
    <2>1. /\ UNCHANGED <<nextToken, dash, listed, litCount, now, asked>>
          /\ stage' = "drawn"
      BY <1>7 DEF ExpireAndDraw, snapshot
    <2>2. /\ slots' = [i \in Slot |-> slots'[i]]
          /\ \A i \in Slot : slots'[i] = Free \/ slots'[i] = slots[i]
          /\ \A i \in Slot : slots'[i].active => slots'[i] = slots[i] /\ Alive(slots[i], now)
      BY <1>1, <1>7, FreeFacts DEF ExpireAndDraw
    <2>3. DOMAIN slots' = Slot BY <2>2
    <2>4. \A i \in Slot : slots'[i].active => slots'[i].age < TtlOf(slots'[i])
      BY <1>1, <2>2, AliveIfYoung DEF IInv, ClaimsDated
    <2>5. /\ slots' \in [Slot -> Overlay]
          /\ OneClaimPerField' /\ TokensUsed' /\ ClaimsDated'
      BY <2>1, <2>2, <2>3, <2>4, FreeingStep
    <2> QED BY <1>1, <2>1, <2>5 DEF IInv, TypeOK
  <1>8. ASSUME NEW later \in 1 .. MaxPass, NextPass(later) PROVE IInv'
    <2>1. \A i \in Slot : slots[i].active =>
              slots[i].age + later < TtlOf(slots[i]) + MaxPass
      <3> SUFFICES ASSUME NEW i \in Slot, slots[i].active
                   PROVE  slots[i].age + later < TtlOf(slots[i]) + MaxPass
        OBVIOUS
      <3>1. slots[i].age < TtlOf(slots[i])
        BY <1>8 DEF IInv, ClaimsDated, NextPass
      <3>2. slots[i].age \in Nat /\ TtlOf(slots[i]) \in Nat /\ MaxPass \in Nat
        BY <1>1, OverlayAssumption DEF TtlOf, Overlay
      <3> QED BY <3>1, <3>2
    <2> QED BY <1>8, <2>1, LaterStep DEF NextPass
  <1>10. ASSUME NEW later \in 1 .. MaxPass, OtaPass(later) PROVE IInv'
    BY <1>10, LaterStep DEF OtaPass
  <1>9. CASE UNCHANGED vars
    BY <1>9 DEF vars, snapshot, IInv, TypeOK, OneClaimPerField, TokensUsed, ClaimsDated
  <1>11. ASSUME NEW rooms \in SUBSET Rooms, NEW more \in 0 .. MaxMore, NEW d,
                Snapshot(d, rooms, more + Cardinality({r \in rooms : d[<<"RoomOn", r>>] = 1})),
                d \in [Field -> Value]
         PROVE  IInv'
    <2>1. Cardinality({r \in rooms : d[<<"RoomOn", r>>] = 1}) \in Nat
      <3>1. IsFiniteSet({r \in rooms : d[<<"RoomOn", r>>] = 1})
        BY OverlayAssumption, FS_Subset
      <3> QED BY <3>1, FS_CardinalityType
    <2>2. more + Cardinality({r \in rooms : d[<<"RoomOn", r>>] = 1}) \in Nat
      BY <2>1, OverlayAssumption
    <2> QED BY <1>6, <1>11, <2>2
  <1> QED BY <1>2, <1>3, <1>4, <1>5, <1>7, <1>8, <1>9, <1>10, <1>11 DEF Next, Pump

\* So it always holds.
LEMMA Invariant == Spec => []IInv
  BY InitInvariant, StepInvariant, PTL DEF Spec

-----------------------------------------------------------------------------
(* What is painted, a recursive function over the slots.                   *)

\* Induction by the least counterexample.
LEMMA LeastNumber ==
    ASSUME NEW T, T \subseteq Nat, T # {}
    PROVE  \E n \in T : \A m \in T : ~(m < n)
  <1> DEFINE R == {ss \in Nat \X Nat : ss[1] < ss[2]}
  <1>1. IsWellFoundedOn(R, Nat)
    BY NatLessThanWellFounded, Zenon DEF OpToRel
  <1>2. \A m, n \in T : m < n => <<m, n>> \in R
    OBVIOUS
  <1> HIDE DEF R
  <1>3. \E n \in T : \A m \in T : ~(<<m, n>> \in R)
    BY <1>1, WFMin
  <1> QED BY <1>2, <1>3

\* What holds of 0 and goes on from n to n + 1 holds of every number.
LEMMA Induction ==
    ASSUME NEW T, 0 \in T, \A n \in Nat : n \in T => n + 1 \in T
    PROVE  Nat \subseteq T
  <1> SUFFICES ASSUME Nat \ T # {} PROVE FALSE
    OBVIOUS
  <1>1. PICK n \in Nat \ T : \A m \in Nat \ T : ~(m < n)
    BY LeastNumber
  <1>2. n # 0 /\ n - 1 \in Nat /\ n - 1 < n
    OBVIOUS
  <1>3. n - 1 \in T
    BY <1>1, <1>2
  <1> QED BY <1>2, <1>3

\* There is a function with a given first value and given steps.
Iterates(g, S, a, F) ==
    g \in [Nat -> S] /\ g[0] = a /\ \A n \in Nat : g[n + 1] = F[n][g[n]]

LEMMA Recursion ==
    ASSUME NEW S, NEW a \in S, NEW F \in [Nat -> [S -> S]]
    PROVE  \E g : Iterates(g, S, a, F)
  <1> DEFINE B(n) == {h \in [0 .. n -> S] : h[0] = a /\ \A i \in 0 .. n - 1 : h[i + 1] = F[i][h[i]]}
             T == {n \in Nat : \E v \in S : (\E h \in B(n) : h[n] = v) /\ \A h \in B(n) : h[n] = v}
  <1>1. 0 \in T
    <2>1. [i \in 0 .. 0 |-> a] \in B(0) OBVIOUS
    <2> QED BY <2>1
  <1>2. ASSUME NEW n \in Nat, n \in T PROVE n + 1 \in T
    <2>1. PICK v \in S : (\E h \in B(n) : h[n] = v) /\ \A h \in B(n) : h[n] = v
      BY <1>2
    <2>2. PICK h \in B(n) : h[n] = v
      BY <2>1
    <2> DEFINE k == [i \in 0 .. n + 1 |-> IF i = n + 1 THEN F[n][v] ELSE h[i]]
    <2>3. k \in [0 .. n + 1 -> S] /\ k[0] = a /\ k[n + 1] = F[n][v]
      BY <2>1, <2>2
    <2>4. ASSUME NEW i \in 0 .. n PROVE k[i + 1] = F[i][k[i]]
      <3>1. CASE i = n BY <2>2, <3>1
      <3>2. CASE i # n
        <4>1. i \in 0 .. n - 1 /\ i + 1 \in 0 .. n + 1 /\ i + 1 # n + 1 /\ i # n + 1 BY <3>2
        <4>2. k[i + 1] = h[i + 1] /\ k[i] = h[i] BY <4>1
        <4>3. h[i + 1] = F[i][h[i]] BY <2>2, <4>1
        <4> HIDE DEF k
        <4> QED BY <4>2, <4>3
      <3> QED BY <3>1, <3>2
    <2>5. k \in B(n + 1)
      <3>1. (n + 1) - 1 = n OBVIOUS
      <3> HIDE DEF k
      <3> QED BY <2>3, <2>4, <3>1
    <2>6. ASSUME NEW x \in B(n + 1) PROVE x[n + 1] = F[n][v]
      <3> DEFINE y == [i \in 0 .. n |-> x[i]]
      <3>1. y \in B(n)
        <4>1. y \in [0 .. n -> S] /\ y[0] = a OBVIOUS
        <4>2. \A i \in 0 .. n - 1 : i \in 0 .. n /\ i + 1 \in 0 .. n OBVIOUS
        <4>3. \A i \in 0 .. n - 1 : y[i + 1] = F[i][y[i]] BY <4>2
        <4> QED BY <4>1, <4>3
      <3>2. y[n] = x[n] OBVIOUS
      <3>3. y[n] = v
        <4> HIDE DEF B, y
        <4> QED BY <2>1, <3>1
      <3> QED BY <3>2, <3>3
    <2>7. F[n][v] \in S OBVIOUS
    <2> HIDE DEF B, k
    <2> QED BY <2>3, <2>5, <2>6, <2>7
  <1>3. Nat \subseteq T
    <2> HIDE DEF T
    <2> QED BY <1>1, <1>2, Induction
  <1> DEFINE g == [n \in Nat |-> CHOOSE v \in S : \A h \in B(n) : h[n] = v]
  <1>4. ASSUME NEW n \in Nat
        PROVE  g[n] \in S /\ (\E h \in B(n) : h[n] = g[n]) /\ \A h \in B(n) : h[n] = g[n]
    <2>1. n \in T BY <1>3
    <2>2. \E v \in S : (\E h \in B(n) : h[n] = v) /\ \A h \in B(n) : h[n] = v
      BY <2>1
    <2> HIDE DEF B
    <2> QED BY <2>2
  <1>5. g \in [Nat -> S]
    BY <1>4
  <1>6. g[0] = a
    BY <1>4
  <1>7. ASSUME NEW n \in Nat PROVE g[n + 1] = F[n][g[n]]
    <2>1. PICK x \in B(n + 1) : x[n + 1] = g[n + 1]
      <3>1. n + 1 \in Nat OBVIOUS
      <3> HIDE DEF B, g
      <3> QED BY <1>4, <3>1
    <2> DEFINE y == [i \in 0 .. n |-> x[i]]
    <2>2. y \in B(n)
      <3>1. y \in [0 .. n -> S] /\ y[0] = a OBVIOUS
      <3>2. \A i \in 0 .. n - 1 : i \in 0 .. n /\ i + 1 \in 0 .. n OBVIOUS
      <3>3. \A i \in 0 .. n - 1 : y[i + 1] = F[i][y[i]] BY <3>2
      <3> QED BY <3>1, <3>3
    <2>3. y[n] = x[n] OBVIOUS
    <2>4. y[n] = g[n]
      <3> HIDE DEF B, g, y
      <3> QED BY <1>4, <2>2
    <2>5. x[n + 1] = F[n][x[n]] OBVIOUS
    <2> HIDE DEF g, y
    <2> QED BY <2>1, <2>3, <2>4, <2>5
  <1> HIDE DEF g
  <1> QED BY <1>5, <1>6, <1>7 DEF Iterates


\* One claim painted.
LEMMA PaintOneFacts ==
    ASSUME NEW v \in [Field -> Value], NEW o \in Overlay
    PROVE  /\ PaintOne(v, o) \in [Field -> Value]
           /\ Has(listed, o.field) => PaintOne(v, o)[o.field] = o.value
           /\ \A f \in Field : /\ ~Paints(o, f) => PaintOne(v, o)[f] = v[f]
                               /\ Paints(o, f) /\ o.field # f => PaintOne(v, o)[f] = 1
  <1>1. o.field \in Field /\ o.value \in Value /\ 1 \in Value
    BY DEF Overlay, Value
  <1>2. CASE ~Has(listed, o.field)
    <2>1. PaintOne(v, o) = v BY <1>2 DEF PaintOne
    <2>2. \A f : ~Paints(o, f) BY <1>2 DEF Paints
    <2> QED BY <1>2, <2>1, <2>2
  <1>3. CASE Has(listed, o.field) /\ o.field[1] = "RoomBri"
    <2>1. PICK r \in Rooms : o.field = <<"RoomBri", r>>
      BY <1>1, <1>3 DEF Field
    <2> DEFINE on == <<"RoomOn", r>>
    <2>2. o.field[2] = r /\ on \in Field /\ on # o.field
      BY <2>1 DEF Field
    <2>3. PaintOne(v, o) = [v EXCEPT ![o.field] = o.value, ![on] = 1]
      BY <1>3, <2>2 DEF PaintOne
    <2>4. \A f \in Field : f[1] = "RoomOn" /\ o.field = <<"RoomBri", f[2]>> <=> f = on
      BY <2>1 DEF Field
    <2>5. \A f \in Field : Paints(o, f) <=> f = o.field \/ f = on
      BY <1>3, <2>4 DEF Paints
    <2> HIDE DEF on
    <2> QED BY <1>1, <2>2, <2>3, <2>5
  <1>4. CASE Has(listed, o.field) /\ o.field[1] # "RoomBri"
    <2>1. PaintOne(v, o) = [v EXCEPT ![o.field] = o.value]
      BY <1>4 DEF PaintOne
    <2>2. \A x : o.field # <<"RoomBri", x>>
      BY <1>4
    <2>3. \A f \in Field : Paints(o, f) <=> f = o.field
      BY <1>4, <2>2 DEF Paints
    <2> QED BY <1>1, <2>1, <2>3
  <1> QED BY <1>2, <1>3, <1>4

\* The view after each slot: there is one, and View is the last.
LEMMA ViewFacts ==
    ASSUME TypeOK
    PROVE  \E p : /\ p[0] = dash /\ View = p[NSlots]
                  /\ \A i \in 0 .. NSlots : p[i] \in [Field -> Value]
                  /\ \A i \in Slot : p[i] = IF Alive(slots[i], now)
                                            THEN PaintOne(p[i - 1], slots[i]) ELSE p[i - 1]
  <1> DEFINE S == [Field -> Value]
             F == [n \in Nat |-> [v \in S |->
                      IF n + 1 \in Slot /\ Alive(slots[n + 1], now)
                      THEN PaintOne(v, slots[n + 1]) ELSE v]]
             Says(p) == p = [i \in 0 .. NSlots |->
                      IF i = 0 THEN dash
                      ELSE IF Alive(slots[i], now) THEN PaintOne(p[i - 1], slots[i])
                      ELSE p[i - 1]]
             p == CHOOSE x : Says(x)
  <1>1. NSlots \in Nat /\ NSlots > 0 /\ Slot = 1 .. NSlots
    BY OverlayAssumption DEF Slot
  <1>2. dash \in S /\ slots \in [Slot -> Overlay]
    BY DEF TypeOK
  <1>3. F \in [Nat -> [S -> S]]
    <2>1. \A n \in Nat, v \in S :
             (IF n + 1 \in Slot /\ Alive(slots[n + 1], now)
              THEN PaintOne(v, slots[n + 1]) ELSE v) \in S
      BY <1>2, PaintOneFacts
    <2> HIDE DEF S
    <2> QED BY <2>1
  <1>4. PICK g : Iterates(g, S, dash, F)
    <2> HIDE DEF F, S
    <2> QED BY <1>2, <1>3, Recursion, Zenon
  <1>5. /\ g \in [Nat -> S] /\ g[0] = dash
        /\ \A n \in Nat : g[n + 1] = F[n][g[n]]
    BY <1>4 DEF Iterates
  <1>6. ASSUME NEW i \in Slot
        PROVE  g[i] = IF Alive(slots[i], now) THEN PaintOne(g[i - 1], slots[i]) ELSE g[i - 1]
    <2> DEFINE m == i - 1
    <2>1. m \in Nat /\ m + 1 = i BY <1>1
    <2>2. g[m] \in S BY <1>5, <2>1
    <2>3. g[m + 1] = F[m][g[m]] BY <1>5, <2>1
    <2>4. F[m][g[m]] = IF m + 1 \in Slot /\ Alive(slots[m + 1], now)
                       THEN PaintOne(g[m], slots[m + 1]) ELSE g[m]
      <3> HIDE DEF m, S
      <3> QED BY <2>1, <2>2
    <2> HIDE DEF F, S
    <2> QED BY <2>1, <2>3, <2>4
  <1> DEFINE e == [i \in 0 .. NSlots |-> g[i]]
  <1>7. Says(e)
    <2> HIDE DEF F, S
    <2>1. \A i \in Slot : i \in 0 .. NSlots /\ i - 1 \in 0 .. NSlots BY <1>1
    <2>2. \A i \in 0 .. NSlots : i # 0 => i \in Slot BY <1>1
    <2>3. \A i \in Slot : e[i] = g[i] /\ e[i - 1] = g[i - 1] BY <2>1
    <2>4. ASSUME NEW i \in 0 .. NSlots
          PROVE  e[i] = IF i = 0 THEN dash
                        ELSE IF Alive(slots[i], now) THEN PaintOne(e[i - 1], slots[i])
                        ELSE e[i - 1]
      <3>1. CASE i = 0 BY <1>1, <1>5, <3>1
      <3>2. CASE i # 0
        <4>1. i \in Slot BY <2>2, <3>2
        <4> HIDE DEF e
        <4> QED BY <1>6, <2>3, <3>2, <4>1
      <3> QED BY <3>1, <3>2
    <2> QED BY <2>4
  <1>8. Says(p)
    <2> HIDE DEF Says, e
    <2> QED BY <1>7
  <1>9. View = p[NSlots]
    BY DEF View
  <1>10. /\ p[0] = dash
         /\ \A i \in Slot : p[i] = IF Alive(slots[i], now)
                                   THEN PaintOne(p[i - 1], slots[i]) ELSE p[i - 1]
    <2>1. \A i \in 0 .. NSlots :
             p[i] = IF i = 0 THEN dash
                    ELSE IF Alive(slots[i], now) THEN PaintOne(p[i - 1], slots[i])
                    ELSE p[i - 1]
      <3> HIDE DEF p
      <3> QED BY <1>8
    <2> HIDE DEF p
    <2>2. \A i \in Slot : i \in 0 .. NSlots /\ i # 0 BY <1>1
    <2>3. 0 \in 0 .. NSlots BY <1>1
    <2> QED BY <2>1, <2>2, <2>3
  <1> HIDE DEF p
  <1>11. \A i \in 0 .. NSlots : p[i] \in S
    <2> DEFINE T == {n \in Nat : n <= NSlots => p[n] \in S}
    <2>1. 0 \in T BY <1>2, <1>10
    <2>2. ASSUME NEW n \in Nat, n \in T PROVE n + 1 \in T
      <3> SUFFICES ASSUME n + 1 <= NSlots PROVE p[n + 1] \in S
        OBVIOUS
      <3>1. n + 1 \in Slot /\ (n + 1) - 1 = n /\ p[n] \in S BY <1>1, <2>2
      <3>2. p[n + 1] = IF Alive(slots[n + 1], now)
                       THEN PaintOne(p[n], slots[n + 1]) ELSE p[n]
        BY <1>10, <3>1
      <3>3. slots[n + 1] \in Overlay BY <1>2, <3>1
      <3> QED BY <3>1, <3>2, <3>3, PaintOneFacts
    <2> HIDE DEF T
    <2>3. Nat \subseteq T BY <2>1, <2>2, Induction
    <2>4. \A i \in 0 .. NSlots : i \in Nat /\ i <= NSlots BY <1>1
    <2> QED BY <2>3, <2>4 DEF T
  <1> QED BY <1>9, <1>10, <1>11

\* Slot after slot, the claims so far show in the view so far.
LEMMA ViewShows ==
    ASSUME IInv
    PROVE  ClaimsShow
  <1>1. PICK p : /\ p[0] = dash /\ View = p[NSlots]
                 /\ \A i \in 0 .. NSlots : p[i] \in [Field -> Value]
                 /\ \A i \in Slot : p[i] = IF Alive(slots[i], now)
                                           THEN PaintOne(p[i - 1], slots[i]) ELSE p[i - 1]
    BY ViewFacts DEF IInv
  <1>2. NSlots \in Nat /\ NSlots > 0 /\ Slot = 1 .. NSlots /\ Slot \subseteq Nat
    BY OverlayAssumption DEF Slot
  <1>3. \A i \in Slot : slots[i] \in Overlay
    BY DEF IInv, TypeOK
  <1>4. \A i \in Slot : slots[i].field \in Field /\ slots[i].value \in {0, 1}
    BY <1>3 DEF Overlay, Value
  <1> DEFINE Lit(i, n) == /\ slots[i].field[1] = "RoomOn" /\ slots[i].value = 0
                          /\ \E j \in Slot : /\ j > i /\ j <= n /\ Alive(slots[j], now)
                                             /\ Paints(slots[j], slots[i].field)
             Claims(n) == \A i \in Slot : i <= n /\ Alive(slots[i], now)
                                                /\ Has(listed, slots[i].field) =>
                              p[n][slots[i].field] = slots[i].value \/ Lit(i, n)
             Differs(n) == \A f \in Field : p[n][f] # dash[f] =>
                              \E i \in Slot : i <= n /\ Alive(slots[i], now) /\ Paints(slots[i], f)
             T == {n \in Nat : n <= NSlots => Claims(n) /\ Differs(n)}
  <1>5. 0 \in T
    <2>1. \A i \in Slot : ~(i <= 0) BY <1>2
    <2> QED BY <1>1, <2>1
  <1>6. ASSUME NEW n \in Nat, n \in T PROVE n + 1 \in T
    <2> SUFFICES ASSUME n + 1 <= NSlots PROVE Claims(n + 1) /\ Differs(n + 1)
      OBVIOUS
    <2> DEFINE k == n + 1
               o == slots[k]
    <2>1. k \in Slot /\ k - 1 = n /\ n \in 0 .. NSlots /\ k \in Nat BY <1>2
    <2>2. Claims(n) /\ Differs(n) BY <1>2, <1>6
    <2>3. p[n] \in [Field -> Value] BY <1>1, <2>1
    <2>4. p[k] = IF Alive(o, now) THEN PaintOne(p[n], o) ELSE p[n] BY <1>1, <2>1
    <2>5. o \in Overlay BY <1>3, <2>1
    <2>6. \A i \in Slot : i <= k <=> i <= n \/ i = k BY <1>2
    <2>7. \A i \in Slot : Lit(i, n) => Lit(i, k) BY <2>6
    <2> HIDE DEF k, Lit
    <2>8. CASE ~Alive(o, now)
      <3>1. p[k] = p[n] BY <2>4, <2>8
      <3>2. Claims(k) BY <2>2, <2>6, <2>7, <2>8, <3>1
      <3>3. Differs(k) BY <2>2, <2>6, <3>1
      <3> QED BY <3>2, <3>3 DEF k
    <2>9. CASE Alive(o, now)
      <3> DEFINE w == p[k]
      <3>1. w = PaintOne(p[n], o) BY <2>4, <2>9
      <3>2. /\ Has(listed, o.field) => w[o.field] = o.value
            /\ \A f \in Field : /\ ~Paints(o, f) => w[f] = p[n][f]
                                /\ Paints(o, f) /\ o.field # f => w[f] = 1
        BY <2>3, <2>5, <3>1, PaintOneFacts
      <3>3. ASSUME NEW i \in Slot, i <= k, Alive(slots[i], now),
                   Has(listed, slots[i].field)
            PROVE  w[slots[i].field] = slots[i].value \/ Lit(i, k)
        <4> DEFINE f == slots[i].field
        <4>1. CASE i = k BY <3>2, <3>3, <4>1
        <4>2. CASE i # k
          <5>1. i <= n /\ i < k BY <1>2, <2>1, <2>6, <3>3, <4>2
          <5>2. f # o.field
            BY <2>1, <2>9, <3>3, <4>2 DEF IInv, OneClaimPerField, Alive
          <5>3. f \in Field /\ slots[i].value \in {0, 1} BY <1>4
          <5>4. CASE Paints(o, f)
            <6>1. w[f] = 1 BY <3>2, <5>2, <5>3, <5>4
            <6>2. f[1] = "RoomOn" BY <5>2, <5>4 DEF Paints
            <6>3. slots[i].value = 0 => Lit(i, k)
              BY <1>2, <2>1, <2>9, <5>1, <5>4, <6>2 DEF Lit
            <6> QED BY <5>3, <6>1, <6>3
          <5>5. CASE ~Paints(o, f)
            <6>1. w[f] = p[n][f] BY <3>2, <5>3, <5>5
            <6>2. p[n][f] = slots[i].value \/ Lit(i, n) BY <2>2, <3>3, <5>1
            <6> QED BY <2>7, <6>1, <6>2
          <5> QED BY <5>4, <5>5
        <4> QED BY <4>1, <4>2
      <3>4. ASSUME NEW f \in Field, w[f] # dash[f]
            PROVE  \E i \in Slot : i <= k /\ Alive(slots[i], now) /\ Paints(slots[i], f)
        <4>1. CASE Paints(o, f) BY <2>1, <2>6, <2>9, <4>1
        <4>2. CASE ~Paints(o, f)
          <5>1. p[n][f] # dash[f] BY <3>2, <3>4, <4>2
          <5> QED BY <2>2, <2>6, <5>1
        <4> QED BY <4>1, <4>2
      <3> QED BY <3>3, <3>4 DEF k
    <2> QED BY <2>8, <2>9
  <1>7. Nat \subseteq T
    <2> HIDE DEF T
    <2> QED BY <1>5, <1>6, Induction
  <1>8. Claims(NSlots) /\ Differs(NSlots)
    BY <1>2, <1>7
  <1>9. \A i \in Slot : i <= NSlots BY <1>2
  <1>10. View = p[NSlots] BY <1>1
  <1> DEFINE Painted(f) == \E i \in Slot : Alive(slots[i], now) /\ Paints(slots[i], f)
  <1>11. \A f \in Field : View[f] # dash[f] => Painted(f)
    BY <1>8, <1>9, <1>10
  <1>12. (\A r \in listed : ~Painted(<<"RoomOn", r>>)) => LitIn(View) = LitIn(dash)
    <2> HAVE \A r \in listed : ~Painted(<<"RoomOn", r>>)
    <2>1. \A r \in listed : <<"RoomOn", r>> \in Field
      BY DEF IInv, TypeOK, Field
    <2>2. \A r \in listed : View[<<"RoomOn", r>>] = dash[<<"RoomOn", r>>]
      <3> HIDE DEF Painted
      <3> QED BY <1>11, <2>1
    <2>3. {r \in listed : View[<<"RoomOn", r>>] = 1} = {r \in listed : dash[<<"RoomOn", r>>] = 1}
      BY <2>2
    <2> QED BY <2>3 DEF LitIn
  <1>13. ASSUME NEW i \in Slot, Alive(slots[i], now), Has(listed, slots[i].field),
                View[slots[i].field] # slots[i].value
         PROVE  /\ slots[i].field[1] = "RoomOn" /\ slots[i].value = 0
                /\ \E j \in Slot : /\ j > i /\ Alive(slots[j], now)
                                   /\ Paints(slots[j], slots[i].field)
    BY <1>8, <1>9, <1>10, <1>13
  <1> QED BY <1>11, <1>12, <1>13 DEF ClaimsShow

-----------------------------------------------------------------------------
\* Types, with ages below the modulus of millis(): for any number of slots.
THEOREM OverlayTypeCorrect == Spec => []TypeOK
  <1>1. IInv => TypeOK BY DEF IInv
  <1> QED BY <1>1, Invariant, PTL

\* However presses, late verdicts and expiry interleave, a field never has two
\* claims and a token never two slots, so reject() undoes the press it is about
\* and no other.
THEOREM OneClaimPerFieldAlways == Spec => []OneClaimPerField
  <1>1. IInv => OneClaimPerField BY DEF IInv
  <1> QED BY <1>1, Invariant, PTL

\* alive() keeps a claim on the screen for exactly its time, for any ttl below
\* half the range of millis() and any pass of loop() below the other half.
THEOREM PaintedForItsTimeAlways == Spec => []PaintedForItsTime
  <1>1. IInv => PaintedForItsTime
    <2> SUFFICES ASSUME IInv, NEW i \in Slot, slots[i].active
                 PROVE  Alive(slots[i], now) <=> slots[i].age < TtlOf(slots[i])
      BY DEF PaintedForItsTime, TtlOf
    <2>1. slots[i] \in Overlay /\ now \in Time BY DEF IInv, TypeOK
    <2> QED BY <2>1, AliveIfYoung DEF IInv, ClaimsDated
  <1> QED BY <1>1, Invariant, PTL

\* Painting slot by slot shows every living claim on something the snapshot
\* has, and changes nothing that nobody claims but a count of the snapshot that
\* does not fit its list; for any number of slots and rooms.  A claim does not
\* show where a room claimed off lies below a living claim on its brightness.
THEOREM ClaimsShowAlways == Spec => []ClaimsShow
  <1>1. IInv => ClaimsShow BY ViewShows
  <1> QED BY <1>1, Invariant, PTL

\* "A press changes the screen now" (ARCHITECTURE.md), as far as the code keeps
\* it: the next frame shows what was pressed, for any number of slots and however
\* many claims live, unless a room was switched off below a living claim on its
\* brightness, in a later slot.  Keys and console only find rooms that the
\* snapshot lists, so apply() finds them as well.
PressShowsOrLit ==
    [][\A f \in Field, v \in Value, ir \in BOOLEAN :
        PressSet(f, v) \/ (PressToggle(f, ir) /\ v = 1 - dash[f]) =>
            \/ View'[f] = v
            \/ /\ f[1] = "RoomOn" /\ v = 0
               /\ \E j \in Slot : /\ j > SlotFor(f)
                                  /\ (Alive(slots[j], now) /\ Paints(slots[j], f))']_vars

THEOREM PressShowsOrLitAlways == Spec => PressShowsOrLit
  <1> DEFINE Shown(f, v) ==
            \/ View'[f] = v
            \/ /\ f[1] = "RoomOn" /\ v = 0
               /\ \E j \in Slot : /\ j > SlotFor(f)
                                  /\ (Alive(slots[j], now) /\ Paints(slots[j], f))'
  <1>1. ASSUME IInv, [Next]_vars, NEW f \in Field, NEW v \in Value, NEW ir \in BOOLEAN,
               PressSet(f, v) \/ (PressToggle(f, ir) /\ v = 1 - dash[f])
        PROVE  Shown(f, v)
    <2> DEFINE k == SlotFor(f)
    <2>1. IInv' BY <1>1, StepInvariant
    <2>2. ClaimsShow' BY <2>1, ViewShows, PTL
    <2>3. k \in Slot BY <1>1, SlotForFacts DEF IInv
    <2>4. PICK air \in BOOLEAN : Claim(f, v, air)
      BY <1>1 DEF PressSet, PressToggle
    <2>5. slots \in [Slot -> Overlay] /\ slots' \in [Slot -> Overlay] /\ now' \in Time
      BY <1>1, <2>1 DEF IInv, TypeOK
    <2> HIDE DEF k
    <2>6. /\ slots'[k].field = f /\ slots'[k].value = v
          /\ slots'[k].active /\ slots'[k].age = 0
      BY <2>3, <2>4, <2>5 DEF Claim, k
    <2>7. Dated(slots'[k], now') /\ slots'[k] \in Overlay
      BY <2>1, <2>3, <2>5, <2>6 DEF IInv, ClaimsDated
    <2>8. TtlOf(slots'[k]) \in Nat \ {0} /\ MaxPass \in Nat
      BY OverlayAssumption DEF TtlOf
    <2>9. Alive(slots'[k], now')
      BY <2>5, <2>6, <2>7, <2>8, AliveIfYoung
    <2>10. listed' = listed /\ Has(listed, f)
      BY <1>1 DEF PressSet, PressToggle, snapshot, Has
    <2> QED BY <2>2, <2>3, <2>6, <2>9, <2>10 DEF ClaimsShow, k, Has
  <1>2. IInv /\ [Next]_vars =>
            [\A f \in Field, v \in Value, ir \in BOOLEAN :
                PressSet(f, v) \/ (PressToggle(f, ir) /\ v = 1 - dash[f]) => Shown(f, v)]_vars
    BY <1>1
  <1> QED BY <1>2, Invariant, PTL DEF Spec, PressShowsOrLit

\* A living claim leaves its slot for one of four reasons only, whatever the
\* number of slots: no verdict, snapshot or press takes another's claim, except
\* a press that finds every slot alive.
THEOREM ClaimLeavesForCauseAlways == Spec => ClaimLeavesForCause
  <1> DEFINE Agreed(o) ==
        /\ Snapshot(dash', listed', litCount') /\ ~o.viaIr
        /\ Has(listed', o.field) /\ dash'[o.field] = o.value
  <1> DEFINE Cause(i) ==
        LET o == slots[i] IN
        Alive(o, now) /\ (slots'[i].token # o.token \/ ~slots'[i].active) =>
            \/ Refused(o.token)
            \/ Agreed(o)
            \/ slots'[i].active /\ slots'[i].field = o.field
            \/ slots'[i].active /\ \A j \in Slot : Alive(slots[j], now)
  <1>1. ASSUME IInv, [Next]_vars, NEW i \in Slot PROVE Cause(i)
    <2> DEFINE o == slots[i]
    <2> SUFFICES ASSUME Alive(o, now), slots'[i].token # o.token \/ ~slots'[i].active
                 PROVE  \/ Refused(o.token)
                        \/ Agreed(o)
                        \/ slots'[i].active /\ slots'[i].field = o.field
                        \/ slots'[i].active /\ \A j \in Slot : Alive(slots[j], now)
      OBVIOUS
    <2>1. slots \in [Slot -> Overlay] /\ o.active /\ slots'[i] # o
      BY <1>1 DEF IInv, TypeOK, Alive
    <2>2. ASSUME NEW f \in Field, NEW v, NEW ir, Claim(f, v, ir)
          PROVE  \/ slots'[i].active /\ slots'[i].field = o.field
                 \/ slots'[i].active /\ \A j \in Slot : Alive(slots[j], now)
      <3>1. i = SlotFor(f) /\ slots'[i].active /\ slots'[i].field = f
        BY <2>1, <2>2 DEF Claim
      <3> QED BY <1>1, <3>1, SlotForFacts DEF IInv
    <2>3. CASE \E f \in Field, v \in Value : PressSet(f, v)
      BY <2>2, <2>3 DEF PressSet
    <2>4. CASE \E f \in Field, ir \in BOOLEAN : PressToggle(f, ir)
      BY <2>2, <2>4 DEF PressToggle
    <2>5. ASSUME NEW t \in asked, Refused(t) PROVE Refused(o.token)
      <3>1. o.token = t BY <2>1, <2>5 DEF Refused, Reject
      <3> QED BY <2>5, <3>1
    <2>6. ASSUME NEW d, NEW rooms, NEW lit, Snapshot(d, rooms, lit)
          PROVE  Agreed(o)
      <3>1. dash' = d /\ listed' = rooms /\ litCount' = lit BY <2>6 DEF Snapshot
      <3>2. Settles(o, d, rooms) BY <2>1, <2>6 DEF Snapshot
      <3> QED BY <2>6, <3>1, <3>2 DEF Settles
    <2>7. ~ExpireAndDraw
      BY <2>1 DEF ExpireAndDraw
    <2>8. ASSUME NEW later \in 1 .. MaxPass PROVE ~NextPass(later) /\ ~OtaPass(later)
      <3>1. Later(later) => slots'[i].token = o.token /\ slots'[i].active = o.active
        BY <2>1 DEF Later, Overlay
      <3> QED BY <2>1, <3>1 DEF NextPass, OtaPass
    <2>9. ~NoPress /\ ~(\E t \in asked : Accepted(t)) /\ ~UNCHANGED vars
      BY <2>1 DEF NoPress, Accepted, vars
    <2> QED BY <1>1, <2>3, <2>4, <2>5, <2>6, <2>7, <2>8, <2>9 DEF Next, Pump
  <1>2. IInv /\ [Next]_vars => [\A i \in Slot : Cause(i)]_vars
    BY <1>1
  <1> QED BY <1>2, Invariant, PTL DEF Spec, ClaimLeavesForCause
=============================================================================
