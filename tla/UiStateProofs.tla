----------------------------- MODULE UiStateProofs -----------------------------
(***************************************************************************)
(* Theorems about UiState for any lists of rooms, any readings, any        *)
(* percentage and anything the gateway may know: what a key acts on, what  *)
(* asks first, and that remote and gateway agree on every request.         *)
(***************************************************************************)
EXTENDS UiState, TLAPS

-----------------------------------------------------------------------------
(* Everything the remote can ask for.                                      *)

HueRequest(i) ==
    \E r \in 1 .. 999 :
        \/ \E a \in {"on", "off"} : i = Intent("hue", a, [arg |-> r])
        \/ \E b \in 1 .. 254 : i = Intent("hue", "bri", [arg |-> r, arg2 |-> b])

LwRequest(i) ==
    \/ \E a \in {"on", "off", "toggle"} : i = Intent("lw", a, None)
    \/ \E name \in LwEffects : i = Intent("lw", "effect", [name |-> name])
    \/ \E b \in 0 .. 255 : i = Intent("lw", "bri", [arg2 |-> b])

YamRequest(i) ==
    \/ \E a \in {"on", "off", "toggle", "mute"} : i = Intent("yam", a, None)
    \/ \E step \in {2, -2} : i = Intent("yam", "vol", [arg |-> step])
    \/ \E name \in YamInputs : i = Intent("yam", "input", [name |-> name])

TfRequest(i) ==
    \/ \E a \in {"power", "mute"} : i = Intent("tf", a, None)
    \/ \E step \in {1, -1} : i = Intent("tf", "vol", [arg |-> step])
    \/ \E name \in TfInputs : i = Intent("tf", "input", [name |-> name])

DiscoRequest(i) ==
    \/ \E a \in {"on", "off", "toggle"} : i = Intent("disco", a, None)
    \/ \E name \in DiscoModes : i = Intent("disco", "mode", [name |-> name])

MacroRequest(i) == \E a \in {"wake", "alloff", "goodnight"} : i = Intent("macro", a, None)

\* Without a question, and with one.
PlainRequest(i) ==
    \/ HueRequest(i) \/ LwRequest(i) \/ YamRequest(i) \/ TfRequest(i) \/ DiscoRequest(i)
    \/ MacroRequest(i) \/ i = Intent("fog", "off", None)

Request(i) == PlainRequest(i) \/ i = FogOn

-----------------------------------------------------------------------------
(* The inductive invariant.                                                *)

\* What is sent is a request, by infrared only to the amplifier.
SentIsRequest ==
    /\ sent.intent = NoIntent \/ Request(sent.intent)
    /\ sent.path = "ir" => TfRequest(sent.intent)

\* The frame is what a redraw would show, unless one is due ...
FrameIsCurrent == ~dirty => drawn = Frame

\* ... and when loop() looks at the keyboard none is, but for the Home screen
\* after a boot or a stay in the OTA mode.
DrawnBeforeKey ==
    /\ stage = "sleep" => ~dirty
    /\ stage = "key" /\ dirty => screen = "Home" /\ pending = NoIntent

IInv == TypeOK /\ SentIsRequest /\ FrameIsCurrent /\ DrawnBeforeKey

-----------------------------------------------------------------------------
(* The body of a request.                                                  *)

LEMMA OnlyFacts ==
    ASSUME NEW k, NEW v
    PROVE  DOMAIN Only(k, v) = {k} /\ Only(k, v)[k] = v
  BY DEF Only

LEMMA NoneFacts == DOMAIN None = {}
  BY DEF None

LEMMA IntentFacts ==
    ASSUME NEW t, NEW a, NEW g
    PROVE  /\ Intent(t, a, g).target = t /\ Intent(t, a, g).action = a
           /\ Intent(t, a, g).given = g
           /\ t # "fog" => Intent(t, a, g) # FogOn
           /\ t # "none" => Intent(t, a, g) # NoIntent
  BY DEF Intent, FogOn, NoIntent

LEMMA BodyOfNothing ==
    ASSUME NEW i, i.given = None, i # FogOn
    PROVE  DOMAIN Body(i) = {}
  <1>1. DOMAIN i.given = {} BY NoneFacts
  <1>2. Body(i) = None BY <1>1 DEF Body
  <1> QED BY <1>2, NoneFacts

LEMMA BodyOfName ==
    ASSUME NEW i, NEW name, i.given = [name |-> name], i.target # "macro", i # FogOn
    PROVE  DOMAIN Body(i) = {i.action} /\ Body(i)[i.action] = name
  <1>1. "name" \in DOMAIN i.given /\ i.given.name = name OBVIOUS
  <1>2. Body(i) = Only(i.action, name) BY <1>1 DEF Body
  <1> QED BY <1>2, OnlyFacts

LEMMA BodyOfArg ==
    ASSUME NEW i, NEW v, i.given = [arg |-> v], i.target # "macro", i # FogOn
    PROVE  LET k == IF i.target = "hue" THEN "group" ELSE "step"
           IN  DOMAIN Body(i) = {k} /\ Body(i)[k] = v
  <1> DEFINE k == IF i.target = "hue" THEN "group" ELSE "step"
  <1>1. /\ "arg" \in DOMAIN i.given /\ i.given.arg = v
        /\ "arg2" \notin DOMAIN i.given /\ "name" \notin DOMAIN i.given
    OBVIOUS
  <1>2. Body(i) = Only(k, v) BY <1>1 DEF Body
  <1> HIDE DEF k
  <1>3. DOMAIN Body(i) = {k} /\ Body(i)[k] = v BY <1>2, OnlyFacts
  <1> QED BY <1>3 DEF k

LEMMA BodyOfLevel ==
    ASSUME NEW i, NEW b, i.given = [arg2 |-> b], i.target # "macro", i.action = "bri",
           i # FogOn
    PROVE  DOMAIN Body(i) = {"bri"} /\ Body(i)["bri"] = b
  <1>1. /\ "arg2" \in DOMAIN i.given /\ i.given.arg2 = b
        /\ "arg" \notin DOMAIN i.given /\ "name" \notin DOMAIN i.given
    OBVIOUS
  <1>2. Body(i) = [k \in {"bri"} \cup {} |-> IF k = "bri" THEN i.given.arg2 ELSE i.given.arg]
    BY <1>1 DEF Body
  <1> QED BY <1>1, <1>2

LEMMA BodyOfRoomLevel ==
    ASSUME NEW i, NEW r, NEW b, i.given = [arg |-> r, arg2 |-> b], i.target # "macro",
           i.action = "bri", i # FogOn
    PROVE  /\ DOMAIN Body(i) = {"bri", "group"}
           /\ Body(i)["bri"] = b /\ Body(i)["group"] = r
  <1>1. /\ "arg2" \in DOMAIN i.given /\ i.given.arg2 = b
        /\ "arg" \in DOMAIN i.given /\ i.given.arg = r /\ "name" \notin DOMAIN i.given
    OBVIOUS
  <1>2. Body(i) = [k \in {"bri"} \cup {"group"} |->
                      IF k = "bri" THEN i.given.arg2 ELSE i.given.arg]
    BY <1>1 DEF Body
  <1> QED BY <1>1, <1>2

-----------------------------------------------------------------------------
(* Remote and gateway agree, target by target.                             *)

\* The gateway takes i, if it knows what i starts from.
TakenIfKnown(i, s) == Plan(i, s).status = IF Needs(i) \subseteq DOMAIN s THEN 200 ELSE 409

\* What the screen claims is what the gateway asks the house for, up to the end
\* of the volume range.
ClaimIsPlan(i, s) == AtVolumeLimit(i, s) \/ Agree(Claim(i, s), Plan(i, s).effect)

LEMMA AgreeOnly ==
    ASSUME NEW k, NEW v, NEW effect, k \in DOMAIN effect, effect[k] = v
    PROVE  Agree(Only(k, v), effect)
  <1>1. DOMAIN Only(k, v) = {k} /\ Only(k, v)[k] = v BY OnlyFacts
  <1>2. ASSUME NEW f \in DOMAIN Only(k, v)
        PROVE  f \in DOMAIN effect /\ effect[f] = Only(k, v)[f]
    BY <1>1
  <1> QED BY <1>2 DEF Agree

LEMMA AgreeFog ==
    ASSUME NEW v
    PROVE  Agree(Only("FogOn", v), [FogOn |-> v])
  BY AgreeOnly

LEMMA AgreeNone == \A effect : Agree(None, effect)
  BY NoneFacts DEF Agree

LEMMA TakeFacts == \A e : Take(e).status = 200 /\ Take(e).effect = e
  BY DEF Take

LEMMA TurnFacts == \A n : Turn(n).status = n /\ Turn(n).effect = None
  BY DEF Turn

LEMMA SwitchStatus ==
    ASSUME NEW field, NEW a \in {"on", "off", "toggle"}, NEW s
    PROVE  Switch(field, a, s).status = IF a = "toggle" /\ field \notin DOMAIN s
                                        THEN 409 ELSE 200
  BY TakeFacts, TurnFacts DEF Switch

LEMMA SwitchEffect ==
    ASSUME NEW field, NEW a \in {"on", "off"}, NEW s
    PROVE  Agree(Only(field, a = "on"), Switch(field, a, s).effect)
  <1>1. Switch(field, a, s) = Take(Only(field, a = "on")) BY DEF Switch
  <1> QED BY <1>1, TakeFacts DEF Agree

LEMMA SwitchTaken ==
    ASSUME NEW i, NEW s, NEW field, NEW a \in {"on", "off", "toggle"},
           Plan(i, s) = Switch(field, a, s),
           Needs(i) = IF a = "toggle" THEN {field} ELSE {}
    PROVE  TakenIfKnown(i, s)
  <1>1. Switch(field, a, s).status = IF a = "toggle" /\ field \notin DOMAIN s THEN 409 ELSE 200
    BY SwitchStatus
  <1>2. Needs(i) \subseteq DOMAIN s <=> ~(a = "toggle" /\ field \notin DOMAIN s) OBVIOUS
  <1> QED BY <1>1, <1>2 DEF TakenIfKnown

LEMMA SwitchAgrees ==
    ASSUME NEW i, NEW s, NEW field, NEW a \in {"on", "off", "toggle"},
           Plan(i, s) = Switch(field, a, s),
           Claim(i, s) = IF a = "toggle" THEN None ELSE Only(field, a = "on")
    PROVE  ClaimIsPlan(i, s)
  <1>1. CASE a = "toggle" BY <1>1, AgreeNone DEF ClaimIsPlan
  <1>2. CASE a # "toggle" BY <1>2, SwitchEffect DEF ClaimIsPlan
  <1> QED BY <1>1, <1>2

\* A name that is on the gateway's list.
LEMMA NamedFacts ==
    ASSUME NEW field, NEW q, NEW k, NEW list, k \in DOMAIN q, q[k] \in list
    PROVE  /\ Named(field, q, k, list).status = 200
           /\ Agree(Only(field, q[k]), Named(field, q, k, list).effect)
  <1>1. Named(field, q, k, list) = Take(Only(field, q[k])) BY DEF Named
  <1> QED BY <1>1, TakeFacts DEF Agree

LEMMA FieldFacts ==
    /\ {"hue", "lw", "yam", "disco", "fog"} = DOMAIN SwitchField
    /\ SwitchField["hue"] = "RoomOn" /\ SwitchField["lw"] = "LwOn"
    /\ SwitchField["yam"] = "YamOn" /\ SwitchField["disco"] = "DiscoOn"
    /\ SwitchField["fog"] = "FogOn"
    /\ NameField["effect"] = "LwEffect" /\ NameField["mode"] = "DiscoMode"
  BY DEF SwitchField, NameField

LEMMA HueAgrees ==
    ASSUME NEW i, HueRequest(i), NEW s
    PROVE  TakenIfKnown(i, s) /\ ClaimIsPlan(i, s)
  <1>1. ASSUME NEW r \in 1 .. 999, NEW a \in {"on", "off"}, i = Intent("hue", a, [arg |-> r])
        PROVE  TakenIfKnown(i, s) /\ ClaimIsPlan(i, s)
    <2>1. /\ i.target = "hue" /\ i.action = a /\ i.given = [arg |-> r] /\ i # FogOn
      BY <1>1, IntentFacts
    <2>2. DOMAIN Body(i) = {"group"} /\ Body(i)["group"] = r
      BY <2>1, BodyOfArg
    <2>3. InRange(Body(i), "group", 1, 999) BY <2>2 DEF InRange
    <2>4. Plan(i, s) = Switch("RoomOn", a, s) BY <2>1, <2>3 DEF Plan, Hue
    <2>5. Needs(i) = {} BY <2>1 DEF Needs
    <2>6. Claim(i, s) = Only("RoomOn", a = "on") BY <2>1, FieldFacts DEF Claim
    <2>7. Plan(i, s).status = 200
      <3>1. a \in {"on", "off", "toggle"} /\ a # "toggle" OBVIOUS
      <3>2. Switch("RoomOn", a, s).status = 200 BY <3>1, SwitchStatus
      <3> QED BY <2>4, <3>2
    <2>9. TakenIfKnown(i, s) BY <2>5, <2>7 DEF TakenIfKnown
    <2>8. ClaimIsPlan(i, s) BY <2>4, <2>6, SwitchEffect DEF ClaimIsPlan
    <2> QED BY <2>8, <2>9
  <1>2. ASSUME NEW r \in 1 .. 999, NEW b \in 1 .. 254,
               i = Intent("hue", "bri", [arg |-> r, arg2 |-> b])
        PROVE  TakenIfKnown(i, s) /\ ClaimIsPlan(i, s)
    <2>1. /\ i.target = "hue" /\ i.action = "bri" /\ i.given = [arg |-> r, arg2 |-> b]
          /\ i # FogOn
      BY <1>2, IntentFacts
    <2>2. /\ DOMAIN Body(i) = {"bri", "group"}
          /\ Body(i)["bri"] = b /\ Body(i)["group"] = r
      BY <2>1, BodyOfRoomLevel
    <2>3. InRange(Body(i), "group", 1, 999) /\ InRange(Body(i), "bri", 1, 254)
      BY <2>2 DEF InRange
    <2>4. Plan(i, s) = Take([RoomOn |-> TRUE, RoomBri |-> b]) BY <2>1, <2>2, <2>3 DEF Plan, Hue
    <2>5. Needs(i) = {} BY <2>1 DEF Needs
    <2>6. Claim(i, s) = Only("RoomBri", b) BY <2>1 DEF Claim
    <2>7. Agree(Only("RoomBri", b), [RoomOn |-> TRUE, RoomBri |-> b]) BY AgreeOnly
    <2> QED BY <2>4, <2>5, <2>6, <2>7, TakeFacts DEF TakenIfKnown, ClaimIsPlan
  <1>3. PICK r \in 1 .. 999 :
           \/ \E a \in {"on", "off"} : i = Intent("hue", a, [arg |-> r])
           \/ \E b \in 1 .. 254 : i = Intent("hue", "bri", [arg |-> r, arg2 |-> b])
    BY DEF HueRequest
  <1>4. CASE \E a \in {"on", "off"} : i = Intent("hue", a, [arg |-> r])
    <2>1. PICK a \in {"on", "off"} : i = Intent("hue", a, [arg |-> r]) BY <1>4
    <2> QED BY <1>1, <2>1
  <1>5. CASE \E b \in 1 .. 254 : i = Intent("hue", "bri", [arg |-> r, arg2 |-> b])
    <2>1. PICK b \in 1 .. 254 : i = Intent("hue", "bri", [arg |-> r, arg2 |-> b]) BY <1>5
    <2> QED BY <1>2, <2>1
  <1> QED BY <1>3, <1>4, <1>5

LEMMA LwAgrees ==
    ASSUME NEW i, LwRequest(i), NEW s
    PROVE  TakenIfKnown(i, s) /\ ClaimIsPlan(i, s)
  <1>1. ASSUME NEW a \in {"on", "off", "toggle"}, i = Intent("lw", a, None)
        PROVE  TakenIfKnown(i, s) /\ ClaimIsPlan(i, s)
    <2>1. i.target = "lw" /\ i.action = a /\ i.given = None /\ i # FogOn
      BY <1>1, IntentFacts
    <2>2. Plan(i, s) = Switch("LwOn", a, s) BY <2>1 DEF Plan, Lichtwerk
    <2>3. Needs(i) = IF a = "toggle" THEN {"LwOn"} ELSE {} BY <2>1, FieldFacts DEF Needs
    <2>4. Claim(i, s) = IF a = "toggle" THEN None ELSE Only("LwOn", a = "on")
      BY <2>1, FieldFacts DEF Claim
    <2>5. TakenIfKnown(i, s) BY <2>2, <2>3, SwitchTaken
    <2>6. ClaimIsPlan(i, s) BY <2>2, <2>4, SwitchAgrees
    <2> QED BY <2>5, <2>6
  <1>2. ASSUME NEW name \in LwEffects, i = Intent("lw", "effect", [name |-> name])
        PROVE  TakenIfKnown(i, s) /\ ClaimIsPlan(i, s)
    <2>1. i.target = "lw" /\ i.action = "effect" /\ i.given = [name |-> name] /\ i # FogOn
      BY <1>2, IntentFacts
    <2>2. DOMAIN Body(i) = {"effect"} /\ Body(i)["effect"] = name BY <2>1, BodyOfName
    <2>3. Plan(i, s) = Take([LwEffect |-> name, LwOn |-> TRUE])
      BY <2>1, <2>2 DEF Plan, Lichtwerk
    <2>4. Needs(i) = {} BY <2>1 DEF Needs
    <2>5. Claim(i, s) = Only("LwEffect", name) BY <2>1, FieldFacts DEF Claim
    <2>6. Agree(Only("LwEffect", name), [LwEffect |-> name, LwOn |-> TRUE]) BY AgreeOnly
    <2> QED BY <2>3, <2>4, <2>5, <2>6, TakeFacts DEF TakenIfKnown, ClaimIsPlan
  <1>3. ASSUME NEW b \in 0 .. 255, i = Intent("lw", "bri", [arg2 |-> b])
        PROVE  TakenIfKnown(i, s) /\ ClaimIsPlan(i, s)
    <2>1. i.target = "lw" /\ i.action = "bri" /\ i.given = [arg2 |-> b] /\ i # FogOn
      BY <1>3, IntentFacts
    <2>2. DOMAIN Body(i) = {"bri"} /\ Body(i)["bri"] = b BY <2>1, BodyOfLevel
    <2>3. InRange(Body(i), "bri", 0, 255) BY <2>2 DEF InRange
    <2>4. Plan(i, s) = Take(Only("LwBri", b)) BY <2>1, <2>2, <2>3 DEF Plan, Lichtwerk
    <2>5. Needs(i) = {} BY <2>1 DEF Needs
    <2>6. Claim(i, s) = Only("LwBri", b) BY <2>1 DEF Claim
    <2> QED BY <2>4, <2>5, <2>6, TakeFacts DEF TakenIfKnown, ClaimIsPlan, Agree
  <1> QED BY <1>1, <1>2, <1>3 DEF LwRequest

\* A claim for a receiver volume: as far as the range goes, where the gateway
\* goes.
LEMMA YamAgrees ==
    ASSUME NEW i, YamRequest(i), NEW s, "YamRaw" \in DOMAIN s => s.YamRaw \in Int
    PROVE  /\ TakenIfKnown(i, s)
           /\ {"YamMute", "YamRaw"} \subseteq DOMAIN s => ClaimIsPlan(i, s)
  <1> DEFINE Goal == /\ TakenIfKnown(i, s)
                     /\ {"YamMute", "YamRaw"} \subseteq DOMAIN s => ClaimIsPlan(i, s)
  <1>1. ASSUME NEW a \in {"on", "off", "toggle"}, i = Intent("yam", a, None)
        PROVE  Goal
    <2>1. i.target = "yam" /\ i.action = a /\ i.given = None /\ i # FogOn
      BY <1>1, IntentFacts
    <2>2. Plan(i, s) = Switch("YamOn", a, s) BY <2>1 DEF Plan, Yamaha
    <2>3. Needs(i) = IF a = "toggle" THEN {"YamOn"} ELSE {} BY <2>1, FieldFacts DEF Needs
    <2>4. Claim(i, s) = IF a = "toggle" THEN None ELSE Only("YamOn", a = "on")
      BY <2>1, FieldFacts DEF Claim
    <2>5. TakenIfKnown(i, s) BY <2>2, <2>3, SwitchTaken
    <2>6. ClaimIsPlan(i, s) BY <2>2, <2>4, SwitchAgrees
    <2> QED BY <2>5, <2>6
  <1>2. ASSUME i = Intent("yam", "mute", None)
        PROVE  Goal
    <2>1. i.target = "yam" /\ i.action = "mute" /\ i.given = None /\ i # FogOn
      BY <1>2, IntentFacts
    <2>2. Plan(i, s) = Switch("YamMute", "toggle", s) BY <2>1 DEF Plan, Yamaha
    <2>3. Needs(i) = {"YamMute"} BY <2>1 DEF Needs
    <2>4. Claim(i, s) = Only("YamMute", ~s.YamMute) BY <2>1 DEF Claim
    <2>5. TakenIfKnown(i, s) BY <2>2, <2>3, SwitchStatus DEF TakenIfKnown
    <2>6. ASSUME "YamMute" \in DOMAIN s PROVE ClaimIsPlan(i, s)
      <3>1. Plan(i, s) = Take(Only("YamMute", ~s.YamMute)) BY <2>2, <2>6 DEF Switch
      <3> QED BY <2>4, <3>1, TakeFacts DEF ClaimIsPlan, Agree
    <2> QED BY <2>5, <2>6
  <1>3. ASSUME NEW step \in {2, -2}, i = Intent("yam", "vol", [arg |-> step])
        PROVE  Goal
    <2>1. i.target = "yam" /\ i.action = "vol" /\ i.given = [arg |-> step] /\ i # FogOn
      BY <1>3, IntentFacts
    <2>2. DOMAIN Body(i) = {"step"} /\ Body(i)["step"] = step BY <2>1, BodyOfArg
    <2>3. InRange(Body(i), "step", -40, 40) BY <2>2 DEF InRange
    <2>4. Plan(i, s) = IF "YamRaw" \notin DOMAIN s THEN Turn(409)
                       ELSE Take(Only("YamRaw", Clamp(s.YamRaw + step * 5, VolMin, VolMax)))
      BY <2>1, <2>2, <2>3 DEF Plan, Yamaha
    <2>5. Needs(i) = {"YamRaw"} BY <2>1 DEF Needs
    <2>6. TakenIfKnown(i, s) BY <2>4, <2>5, TakeFacts, TurnFacts DEF TakenIfKnown
    <2>7. ASSUME "YamRaw" \in DOMAIN s PROVE ClaimIsPlan(i, s)
      <3>1. Claim(i, s) = Only("YamRaw", s.YamRaw + step * 5) BY <2>1 DEF Claim
      <3>2. Plan(i, s) = Take(Only("YamRaw", Clamp(s.YamRaw + step * 5, VolMin, VolMax)))
        BY <2>4, <2>7
      <3>3. CASE s.YamRaw + step * 5 \in VolMin .. VolMax
        <4>1. Clamp(s.YamRaw + step * 5, VolMin, VolMax) = s.YamRaw + step * 5
          BY <2>7, <3>3 DEF Clamp, VolMin, VolMax
        <4> QED BY <3>1, <3>2, <4>1, TakeFacts DEF ClaimIsPlan, Agree
      <3>4. CASE s.YamRaw + step * 5 \notin VolMin .. VolMax
        BY <2>1, <3>4 DEF ClaimIsPlan, AtVolumeLimit
      <3> QED BY <3>3, <3>4
    <2> QED BY <2>6, <2>7
  <1>4. ASSUME NEW name \in YamInputs, i = Intent("yam", "input", [name |-> name])
        PROVE  Goal
    <2>1. i.target = "yam" /\ i.action = "input" /\ i.given = [name |-> name] /\ i # FogOn
      BY <1>4, IntentFacts
    <2>2. DOMAIN Body(i) = {"input"} /\ Body(i)["input"] = name BY <2>1, BodyOfName
    <2>3. Plan(i, s) = Named("YamInput", Body(i), "input", YamInputs)
      BY <2>1 DEF Plan, Yamaha
    <2>4. Needs(i) = {} BY <2>1 DEF Needs
    <2>5. Claim(i, s) = Only("YamInput", name) BY <2>1 DEF Claim
    <2> QED BY <2>2, <2>3, <2>4, <2>5, NamedFacts DEF TakenIfKnown, ClaimIsPlan
  <1> QED BY <1>1, <1>2, <1>3, <1>4 DEF YamRequest

LEMMA RelativeFacts ==
    ASSUME NEW field, NEW v, NEW s
    PROVE  /\ Relative(field, s, v).status = 200
           /\ field \in DOMAIN s => Agree(Only(field, v), Relative(field, s, v).effect)
  <1>1. CASE field \in DOMAIN s
    <2>1. Relative(field, s, v) = Take(Only(field, v)) BY <1>1 DEF Relative
    <2> QED BY <2>1, TakeFacts DEF Agree
  <1>2. CASE field \notin DOMAIN s
    <2>1. Relative(field, s, v) = Take(None) BY <1>2 DEF Relative
    <2> QED BY <1>2, <2>1, TakeFacts
  <1> QED BY <1>1, <1>2

\* For the amplifier also what the burst of infrared asks for, but for its input.
LEMMA TfAgrees ==
    ASSUME NEW i, TfRequest(i), NEW s
    PROVE  /\ TakenIfKnown(i, s)
           /\ {"TfOn", "TfMute", "TfVol"} \subseteq DOMAIN s => ClaimIsPlan(i, s)
           /\ i.action # "input" => Agree(Claim(i, s), Infrared(i, s))
  <1> DEFINE Goal == /\ TakenIfKnown(i, s)
                     /\ {"TfOn", "TfMute", "TfVol"} \subseteq DOMAIN s => ClaimIsPlan(i, s)
                     /\ i.action # "input" => Agree(Claim(i, s), Infrared(i, s))
  <1>1. ASSUME i = Intent("tf", "power", None)
        PROVE  Goal
    <2>1. i.target = "tf" /\ i.action = "power" BY <1>1, IntentFacts
    <2>2. Plan(i, s) = Relative("TfOn", s, ~s.TfOn) BY <2>1 DEF Plan, Teufel
    <2>3. Needs(i) = {} BY <2>1 DEF Needs
    <2>4. Claim(i, s) = Only("TfOn", ~s.TfOn) BY <2>1 DEF Claim
    <2>5. Infrared(i, s) = Only("TfOn", ~s.TfOn) BY <2>1 DEF Infrared
    <2> QED BY <2>2, <2>3, <2>4, <2>5, RelativeFacts DEF TakenIfKnown, ClaimIsPlan, Agree
  <1>2. ASSUME i = Intent("tf", "mute", None)
        PROVE  Goal
    <2>1. i.target = "tf" /\ i.action = "mute" BY <1>2, IntentFacts
    <2>2. Plan(i, s) = Relative("TfMute", s, ~s.TfMute) BY <2>1 DEF Plan, Teufel
    <2>3. Needs(i) = {} BY <2>1 DEF Needs
    <2>4. Claim(i, s) = Only("TfMute", ~s.TfMute) BY <2>1 DEF Claim
    <2>5. Infrared(i, s) = Only("TfMute", ~s.TfMute) BY <2>1 DEF Infrared
    <2> QED BY <2>2, <2>3, <2>4, <2>5, RelativeFacts DEF TakenIfKnown, ClaimIsPlan, Agree
  <1>3. ASSUME NEW step \in {1, -1}, i = Intent("tf", "vol", [arg |-> step])
        PROVE  Goal
    <2>1. i.target = "tf" /\ i.action = "vol" /\ i.given = [arg |-> step] /\ i # FogOn
      BY <1>3, IntentFacts
    <2>2. DOMAIN Body(i) = {"step"} /\ Body(i)["step"] = step BY <2>1, BodyOfArg
    <2>3. InRange(Body(i), "step", -20, 20) BY <2>2 DEF InRange
    <2>4. Plan(i, s) = Relative("TfVol", s, s.TfVol + step)
      BY <2>1, <2>2, <2>3 DEF Plan, Teufel
    <2>5. Needs(i) = {} BY <2>1 DEF Needs
    <2>6. Claim(i, s) = Only("TfVol", s.TfVol + step) BY <2>1 DEF Claim
    <2>7. Clamp(step, -10, 10) = step BY DEF Clamp
    <2>8. Infrared(i, s) = Only("TfVol", s.TfVol + step) BY <2>1, <2>7 DEF Infrared
    <2> QED BY <2>4, <2>5, <2>6, <2>8, RelativeFacts DEF TakenIfKnown, ClaimIsPlan, Agree
  <1>4. ASSUME NEW name \in TfInputs, i = Intent("tf", "input", [name |-> name])
        PROVE  Goal
    <2>1. i.target = "tf" /\ i.action = "input" /\ i.given = [name |-> name] /\ i # FogOn
      BY <1>4, IntentFacts
    <2>2. DOMAIN Body(i) = {"input"} /\ Body(i)["input"] = name BY <2>1, BodyOfName
    <2>3. Plan(i, s) = Named("TfInput", Body(i), "input", TfInputs)
      BY <2>1 DEF Plan, Teufel
    <2>4. Needs(i) = {} BY <2>1 DEF Needs
    <2>5. Claim(i, s) = Only("TfInput", name) BY <2>1 DEF Claim
    <2> QED BY <2>1, <2>2, <2>3, <2>4, <2>5, NamedFacts DEF TakenIfKnown, ClaimIsPlan
  <1> QED BY <1>1, <1>2, <1>3, <1>4 DEF TfRequest

LEMMA DiscoAgrees ==
    ASSUME NEW i, DiscoRequest(i), NEW s
    PROVE  TakenIfKnown(i, s) /\ ClaimIsPlan(i, s)
  <1>1. ASSUME NEW a \in {"on", "off", "toggle"}, i = Intent("disco", a, None)
        PROVE  TakenIfKnown(i, s) /\ ClaimIsPlan(i, s)
    <2>1. i.target = "disco" /\ i.action = a /\ i.given = None /\ i # FogOn
      BY <1>1, IntentFacts
    <2>2. Plan(i, s) = Switch("DiscoOn", a, s) BY <2>1 DEF Plan, Disco
    <2>3. Needs(i) = IF a = "toggle" THEN {"DiscoOn"} ELSE {} BY <2>1, FieldFacts DEF Needs
    <2>4. Claim(i, s) = IF a = "toggle" THEN None ELSE Only("DiscoOn", a = "on")
      BY <2>1, FieldFacts DEF Claim
    <2>5. TakenIfKnown(i, s) BY <2>2, <2>3, SwitchTaken
    <2>6. ClaimIsPlan(i, s) BY <2>2, <2>4, SwitchAgrees
    <2> QED BY <2>5, <2>6
  <1>2. ASSUME NEW name \in DiscoModes, i = Intent("disco", "mode", [name |-> name])
        PROVE  TakenIfKnown(i, s) /\ ClaimIsPlan(i, s)
    <2>1. i.target = "disco" /\ i.action = "mode" /\ i.given = [name |-> name] /\ i # FogOn
      BY <1>2, IntentFacts
    <2>2. DOMAIN Body(i) = {"mode"} /\ Body(i)["mode"] = name BY <2>1, BodyOfName
    <2>3. Plan(i, s) = Named("DiscoMode", Body(i), "mode", DiscoModes)
      BY <2>1 DEF Plan, Disco
    <2>4. Needs(i) = {} BY <2>1 DEF Needs
    <2>5. Claim(i, s) = Only("DiscoMode", name) BY <2>1, FieldFacts DEF Claim
    <2> QED BY <2>2, <2>3, <2>4, <2>5, NamedFacts DEF TakenIfKnown, ClaimIsPlan
  <1> QED BY <1>1, <1>2 DEF DiscoRequest

\* Macros claim nothing, and the gateway needs to know nothing.
LEMMA MacroAgrees ==
    ASSUME NEW i, MacroRequest(i), NEW s
    PROVE  TakenIfKnown(i, s) /\ ClaimIsPlan(i, s)
  <1>1. PICK a \in {"wake", "alloff", "goodnight"} : i = Intent("macro", a, None)
    BY DEF MacroRequest
  <1>2. i.target = "macro" /\ i.action = a BY <1>1, IntentFacts
  <1>3. Plan(i, s) = Macro(a, s) BY <1>2 DEF Plan
  <1>4. Macro(a, s).status = 200
    <2>1. PICK e : Macro(a, s) = Take(e) BY DEF Macro
    <2> QED BY <2>1, TakeFacts
  <1>5. Needs(i) = {} BY <1>2 DEF Needs
  <1>6. Claim(i, s) = None BY <1>2, FieldFacts DEF Claim
  <1> QED BY <1>3, <1>4, <1>5, <1>6, AgreeNone DEF TakenIfKnown, ClaimIsPlan

LEMMA TakenAsClaimed ==
    ASSUME NEW i, NEW s, NEW e, NEW claim,
           Plan(i, s) = Take(e), Needs(i) = {}, Claim(i, s) = claim, Agree(claim, e)
    PROVE  TakenIfKnown(i, s) /\ ClaimIsPlan(i, s)
  BY TakeFacts DEF TakenIfKnown, ClaimIsPlan

LEMMA FogAgrees ==
    ASSUME NEW i, i = FogOn \/ i = Intent("fog", "off", None), NEW s
    PROVE  TakenIfKnown(i, s) /\ ClaimIsPlan(i, s)
  <1>1. CASE i = FogOn
    <2>1. i.target = "fog" /\ i.action = "on" /\ i.given = None
      BY <1>1, IntentFacts DEF FogOn
    <2>2. Body(i) = [confirm |-> TRUE] BY <1>1, <2>1, NoneFacts DEF Body
    <2>3. "confirm" \in DOMAIN Body(i) BY <2>2
    <2>4. Plan(i, s) = Take([FogOn |-> TRUE]) BY <2>1, <2>3 DEF Plan, Fog
    <2>5. Needs(i) = {} BY <2>1 DEF Needs
    <2>6. Claim(i, s) = Only("FogOn", TRUE) BY <2>1, FieldFacts DEF Claim
    <2>7. Agree(Only("FogOn", TRUE), [FogOn |-> TRUE]) BY AgreeFog
    <2> QED BY <2>4, <2>5, <2>6, <2>7, TakenAsClaimed
  <1>2. CASE i = Intent("fog", "off", None)
    <2>1. i.target = "fog" /\ i.action = "off" BY <1>2, IntentFacts
    <2>2. Plan(i, s) = Take([FogOn |-> FALSE]) BY <2>1 DEF Plan, Fog
    <2>3. Needs(i) = {} BY <2>1 DEF Needs
    <2>4. Claim(i, s) = Only("FogOn", FALSE) BY <2>1, FieldFacts DEF Claim
    <2>5. Agree(Only("FogOn", FALSE), [FogOn |-> FALSE]) BY AgreeFog
    <2> QED BY <2>2, <2>3, <2>4, <2>5, TakenAsClaimed
  <1> QED BY <1>1, <1>2

-----------------------------------------------------------------------------
(* The contract: nothing but a request is needed for it.                   *)

LEMMA RequestsAreTaken ==
    ASSUME NEW i, Request(i), NEW s \in House
    PROVE  TakenIfKnown(i, s)
  <1>1. "YamRaw" \in DOMAIN s => s.YamRaw \in Int BY UiAssumption
  <1> QED BY <1>1, HueAgrees, LwAgrees, YamAgrees, TfAgrees, DiscoAgrees, MacroAgrees, FogAgrees
          DEF Request, PlainRequest

LEMMA ClaimsArePlanned ==
    ASSUME NEW i, Request(i), NEW s \in Complete
    PROVE  ClaimIsPlan(i, s)
  <1>1. s \in House /\ {"YamMute", "YamRaw", "TfOn", "TfMute", "TfVol"} \subseteq DOMAIN s
    BY DEF Complete
  <1>2. s.YamRaw \in Int BY <1>1, UiAssumption
  <1> QED BY <1>1, <1>2, HueAgrees, LwAgrees, YamAgrees, TfAgrees, DiscoAgrees, MacroAgrees, FogAgrees
          DEF Request, PlainRequest

LEMMA ContractHolds ==
    SentIsRequest => TakenByGateway /\ ClaimIsWhatIsAsked
  <1> SUFFICES ASSUME SentIsRequest, sent.intent # NoIntent
               PROVE  TakenByGateway /\ ClaimIsWhatIsAsked
    BY DEF TakenByGateway, ClaimIsWhatIsAsked
  <1>1. Request(sent.intent) BY DEF SentIsRequest
  <1>2. TakenByGateway BY <1>1, RequestsAreTaken DEF TakenByGateway, TakenIfKnown
  <1>3. ASSUME NEW s \in Complete
        PROVE  \/ AtVolumeLimit(sent.intent, s) \/ InputByInfrared
               \/ Agree(Claim(sent.intent, s), Asked(s))
    <2>1. CASE sent.path = "ir"
      <3>1. TfRequest(sent.intent) BY <2>1 DEF SentIsRequest
      <3> QED BY <2>1, <3>1, TfAgrees DEF InputByInfrared, Asked
    <2>2. CASE sent.path # "ir"
      <3>1. ClaimIsPlan(sent.intent, s) BY <1>1, ClaimsArePlanned
      <3> QED BY <2>2, <3>1 DEF ClaimIsPlan, Asked
    <2> QED BY <2>1, <2>2
  <1> QED BY <1>2, <1>3 DEF ClaimIsWhatIsAsked

-----------------------------------------------------------------------------
(* What a key sends is a request.                                          *)

\* A step through a list stays on the list.
LEMMA CycleStays ==
    ASSUME NEW list, Len(list) \in Nat \ {0}, DOMAIN list = 1 .. Len(list),
           NEW dirs, dirs \subseteq {1, -1}, NEW name \in CycleFrom(list, dirs)
    PROVE  \E k \in DOMAIN list : name = list[k]
  <1> DEFINE at(n, dir) == ((n - 1 + dir + Len(list)) % Len(list)) + 1
  <1>1. PICK n \in DOMAIN list, dir \in dirs : name = list[at(n, dir)]
    BY DEF CycleFrom
  <1>2. n - 1 + dir + Len(list) \in Int BY <1>1
  <1>3. (n - 1 + dir + Len(list)) % Len(list) \in 0 .. Len(list) - 1 BY <1>2
  <1>4. at(n, dir) \in DOMAIN list BY <1>3
  <1> QED BY <1>1, <1>4

LEMMA InputsAreKnown ==
    /\ \A name \in CycleFrom(kYamahaInputs, {1}) : name \in YamInputs
    /\ \A name \in CycleFrom(kTeufelInputs, {1}) : name \in TfInputs
  <1>1. ASSUME NEW name \in CycleFrom(kYamahaInputs, {1}) PROVE name \in YamInputs
    <2>1. Len(kYamahaInputs) = 8 /\ DOMAIN kYamahaInputs = 1 .. 8 BY DEF kYamahaInputs
    <2>2. Len(kYamahaInputs) \in Nat \ {0} /\ DOMAIN kYamahaInputs = 1 .. Len(kYamahaInputs) BY <2>1
    <2>3. PICK k \in DOMAIN kYamahaInputs : name = kYamahaInputs[k] BY <2>2, CycleStays
    <2>4. \A n \in 1 .. 8 : kYamahaInputs[n] \in YamInputs
      <3> DEFINE Stepped == {"Spotify", "AirPlay", "HDMI1", "HDMI2", "HDMI3", "AV1", "TUNER",
                             "AUX"}
      <3>1. \A n \in 1 .. 8 : kYamahaInputs[n] \in Stepped BY DEF kYamahaInputs
      <3>2. Stepped \subseteq YamInputs BY Zenon DEF YamInputs
      <3> QED BY <3>1, <3>2
    <2> QED BY <2>1, <2>3, <2>4
  <1>2. ASSUME NEW name \in CycleFrom(kTeufelInputs, {1}) PROVE name \in TfInputs
    <2>1. Len(kTeufelInputs) = 5 /\ DOMAIN kTeufelInputs = 1 .. 5 BY DEF kTeufelInputs
    <2>2. Len(kTeufelInputs) \in Nat \ {0} /\ DOMAIN kTeufelInputs = 1 .. Len(kTeufelInputs) BY <2>1
    <2>3. PICK k \in DOMAIN kTeufelInputs : name = kTeufelInputs[k] BY <2>2, CycleStays
    <2>4. \A n \in 1 .. 5 : kTeufelInputs[n] \in TfInputs BY DEF kTeufelInputs, TfInputs
    <2> QED BY <2>1, <2>3, <2>4
  <1> QED BY <1>1, <1>2

LEMMA EffectsAreKnown ==
    /\ \A name \in CycleFrom(kLwEffects, {1, -1}) : name \in LwEffects
    /\ \A name \in CycleFrom(kDiscoModes, {1, -1}) : name \in DiscoModes
  <1>1. ASSUME NEW name \in CycleFrom(kLwEffects, {1, -1}) PROVE name \in LwEffects
    <2>1. Len(kLwEffects) = 13 /\ DOMAIN kLwEffects = 1 .. 13 BY DEF kLwEffects
    <2>2. Len(kLwEffects) \in Nat \ {0} /\ DOMAIN kLwEffects = 1 .. Len(kLwEffects) BY <2>1
    <2>3. PICK k \in DOMAIN kLwEffects : name = kLwEffects[k] BY <2>2, CycleStays
    <2>4. \A n \in 1 .. 13 : kLwEffects[n] \in LwEffects BY DEF kLwEffects, LwEffects
    <2> QED BY <2>1, <2>3, <2>4
  <1>2. ASSUME NEW name \in CycleFrom(kDiscoModes, {1, -1}) PROVE name \in DiscoModes
    <2>1. Len(kDiscoModes) = 6 /\ DOMAIN kDiscoModes = 1 .. 6 BY DEF kDiscoModes
    <2>2. Len(kDiscoModes) \in Nat \ {0} /\ DOMAIN kDiscoModes = 1 .. Len(kDiscoModes) BY <2>1
    <2>3. PICK k \in DOMAIN kDiscoModes : name = kDiscoModes[k] BY <2>2, CycleStays
    <2>4. \A n \in 1 .. 6 : kDiscoModes[n] \in DiscoModes BY DEF kDiscoModes, DiscoModes
    <2> QED BY <2>1, <2>3, <2>4
  <1> QED BY <1>1, <1>2

LEMMA ElementOfSeq ==
    ASSUME NEW S, NEW q \in Seq(S), NEW n \in 1 .. Len(q)
    PROVE  q[n] \in S
  OBVIOUS

LEMMA RoomFacts ==
    ASSUME rooms \in RoomLists \cup {<<>>}
    PROVE  /\ Len(rooms) \in Nat /\ DOMAIN rooms = 1 .. Len(rooms)
           /\ \A n \in DOMAIN rooms : rooms[n] \in 1 .. 999
  <1>1. rooms \in Seq(1 .. 999)
    <2>1. CASE rooms \in RoomLists BY <2>1, UiAssumption
    <2>2. CASE rooms = <<>> BY <2>2
    <2> QED BY <2>1, <2>2
  <1>2. Len(rooms) \in Nat /\ DOMAIN rooms = 1 .. Len(rooms) BY <1>1
  <1>3. ASSUME NEW n \in DOMAIN rooms PROVE rooms[n] \in 1 .. 999
    <2> DEFINE S == 1 .. 999
    <2>1. rooms \in Seq(S) BY <1>1
    <2>2. n \in 1 .. Len(rooms) BY <1>2
    <2> HIDE DEF S
    <2>3. rooms[n] \in S BY <2>1, <2>2, ElementOfSeq
    <2> QED BY <2>3 DEF S
  <1> QED BY <1>2, <1>3

LEMMA Targets ==
    ASSUME NEW i
    PROVE  /\ HueRequest(i) => i.target = "hue"
           /\ LwRequest(i) => i.target = "lw"
           /\ YamRequest(i) => i.target = "yam"
           /\ TfRequest(i) => i.target = "tf"
           /\ DiscoRequest(i) => i.target = "disco"
           /\ MacroRequest(i) => i.target = "macro"
  <1>1. HueRequest(i) => i.target = "hue" BY DEF HueRequest, Intent
  <1>2. LwRequest(i) => i.target = "lw" BY DEF LwRequest, Intent
  <1>3. YamRequest(i) => i.target = "yam" BY DEF YamRequest, Intent
  <1>4. TfRequest(i) => i.target = "tf" BY DEF TfRequest, Intent
  <1>5. DiscoRequest(i) => i.target = "disco" BY DEF DiscoRequest, Intent
  <1>6. MacroRequest(i) => i.target = "macro" BY DEF MacroRequest, Intent
  <1> QED BY <1>1, <1>2, <1>3, <1>4, <1>5, <1>6

LEMMA PlainIsNotFog ==
    ASSUME NEW i, PlainRequest(i)
    PROVE  i # FogOn
  <1>1. CASE i = Intent("fog", "off", None)
    <2>1. i.action = "off" /\ FogOn.action = "on" BY <1>1, IntentFacts DEF FogOn
    <2> QED BY <2>1
  <1>2. CASE i # Intent("fog", "off", None)
    <2>1. i.target # "fog" /\ FogOn.target = "fog"
      BY <1>2, Targets, IntentFacts DEF PlainRequest, FogOn
    <2> QED BY <2>1
  <1> QED BY <1>1, <1>2

\* Only a request for a room has a room for its target.
LEMMA HueIsHue ==
    ASSUME NEW i, Request(i), i.target = "hue"
    PROVE  HueRequest(i)
  <1>1. i # FogOn /\ i # Intent("fog", "off", None) BY IntentFacts DEF FogOn
  <1> QED BY <1>1, Targets DEF Request, PlainRequest

\* The state of the interaction, after a key.
StTyped ==
    /\ screen' \in Screens /\ cursor' \in Nat /\ ir' \in BOOLEAN
    /\ pending' \in {NoIntent, FogOn, GoodNight}

\* A key without a prompt sends a request that needs no question, by infrared
\* only to the amplifier, and on the room list only for the room of the cursor.
SentPlainly ==
    /\ pending = NoIntent
    /\ PlainRequest(sent'.intent) /\ sent'.path \in Paths
    /\ sent'.path = "ir" => TfRequest(sent'.intent)
    /\ screen = "Rooms" =>
          cursor \in 0 .. Len(rooms) - 1 /\ sent'.intent.given.arg = rooms[cursor + 1]

SentConfirmed == pending # NoIntent /\ sent' = [intent |-> pending, path |-> "net"]

KeySends == sent' = sent \/ SentConfirmed \/ SentPlainly

LEMMA SendIsPlain ==
    ASSUME TypeOK, NEW i, Send(i), PlainRequest(i), pending = NoIntent,
           screen = "Teufel" => TfRequest(i),
           screen = "Rooms" => /\ cursor \in 0 .. Len(rooms) - 1
                               /\ i.given.arg = rooms[cursor + 1]
    PROVE  StTyped /\ KeySends
  <1>1. sent'.intent = i /\ sent'.path \in Paths /\ (sent'.path = "ir" => screen = "Teufel")
    BY DEF Send, Paths
  <1>2. SentPlainly BY <1>1 DEF SentPlainly
  <1>3. StTyped BY DEF TypeOK, StTyped, Send, st
  <1> QED BY <1>2, <1>3 DEF KeySends

LEMMA AskIsTyped ==
    ASSUME TypeOK, NEW i \in {FogOn, GoodNight}, Ask(i)
    PROVE  StTyped /\ KeySends
  BY DEF TypeOK, Ask, StTyped, KeySends

LEMMA GoToIsTyped ==
    ASSUME TypeOK, NEW s \in Screens, GoTo(s), cursor' \in Nat
    PROVE  StTyped /\ KeySends
  BY DEF TypeOK, GoTo, StTyped, KeySends

LEMMA NothingMoves ==
    ASSUME TypeOK, UNCHANGED <<st, sent>>
    PROVE  StTyped /\ KeySends
  BY DEF TypeOK, st, StTyped, KeySends

LEMMA RoomsKeySends ==
    ASSUME TypeOK, RoomsKey
    PROVE  StTyped /\ KeySends
  <1>1. pending = NoIntent /\ screen = "Rooms" BY DEF RoomsKey, Free
  <1>2. CASE cursor \notin 0 .. Len(rooms) - 1
    BY <1>2, NothingMoves DEF RoomsKey
  <1>3. CASE cursor \in 0 .. Len(rooms) - 1
    <2> DEFINE r == rooms[cursor + 1]
    <2>1. r \in 1 .. 999
      <3>1. cursor + 1 \in DOMAIN rooms BY <1>3, RoomFacts DEF TypeOK
      <3> QED BY <3>1, RoomFacts DEF TypeOK
    <2>2. \/ OnOff("hue", [arg |-> r])
          \/ \E bri \in Bris, dir \in {1, -1} :
                Send(Intent("hue", "bri", [arg |-> r, arg2 |-> BriStep(bri, dir, 1, 254)]))
      BY <1>3 DEF RoomsKey
    <2> HIDE DEF r
    <2>3. CASE OnOff("hue", [arg |-> r])
      <3>1. PICK a \in {"on", "off"} : Send(Intent("hue", a, [arg |-> r])) BY <2>3 DEF OnOff
      <3>2. PlainRequest(Intent("hue", a, [arg |-> r]))
        BY <2>1 DEF PlainRequest, HueRequest
      <3>3. Intent("hue", a, [arg |-> r]).given.arg = r BY IntentFacts
      <3> QED BY <1>1, <1>3, <3>1, <3>2, <3>3, SendIsPlain DEF r
    <2>4. ASSUME NEW bri \in Bris, NEW dir \in {1, -1},
                 Send(Intent("hue", "bri", [arg |-> r, arg2 |-> BriStep(bri, dir, 1, 254)]))
          PROVE  StTyped /\ KeySends
      <3> DEFINE b == BriStep(bri, dir, 1, 254)
      <3>1. b \in 1 .. 254
        <4>1. bri + dir * 32 \in Int BY UiAssumption
        <4> QED BY <4>1 DEF BriStep, Clamp
      <3> HIDE DEF b
      <3>2. PlainRequest(Intent("hue", "bri", [arg |-> r, arg2 |-> b]))
        BY <2>1, <3>1 DEF PlainRequest, HueRequest
      <3>3. Intent("hue", "bri", [arg |-> r, arg2 |-> b]).given.arg = r BY IntentFacts
      <3>4. Send(Intent("hue", "bri", [arg |-> r, arg2 |-> b])) BY <2>4 DEF b
      <3> QED BY <1>1, <1>3, <3>2, <3>3, <3>4, SendIsPlain DEF r
    <2> QED BY <2>2, <2>3, <2>4
  <1> QED BY <1>2, <1>3

LEMMA LichtwerkKeySends ==
    ASSUME TypeOK, LichtwerkKey
    PROVE  StTyped /\ KeySends
  <1>1. pending = NoIntent /\ screen = "Lichtwerk" BY DEF LichtwerkKey, Free
  <1>2. ASSUME NEW i, Send(i), LwRequest(i) PROVE StTyped /\ KeySends
    <2>1. PlainRequest(i) BY <1>2 DEF PlainRequest
    <2> QED BY <1>1, <1>2, <2>1, SendIsPlain
  <1>3. CASE OnOff("lw", None)
    <2>1. PICK a \in {"on", "off"} : Send(Intent("lw", a, None)) BY <1>3 DEF OnOff
    <2>2. LwRequest(Intent("lw", a, None)) BY DEF LwRequest
    <2> QED BY <1>2, <2>1, <2>2
  <1>4. CASE UNCHANGED <<st, sent>> BY <1>4, NothingMoves
  <1>5. ASSUME NEW name \in CycleFrom(kLwEffects, {1, -1}),
               Send(Intent("lw", "effect", [name |-> name]))
        PROVE  StTyped /\ KeySends
    <2>1. name \in LwEffects BY EffectsAreKnown
    <2>2. LwRequest(Intent("lw", "effect", [name |-> name])) BY <2>1 DEF LwRequest
    <2> QED BY <1>2, <1>5, <2>2
  <1>6. ASSUME NEW bri \in Bris, NEW dir \in {1, -1},
               Send(Intent("lw", "bri", [arg2 |-> BriStep(bri, dir, 0, 255)]))
        PROVE  StTyped /\ KeySends
    <2>1. bri + dir * 32 \in Int BY UiAssumption
    <2>2. BriStep(bri, dir, 0, 255) \in 0 .. 255 BY <2>1 DEF BriStep, Clamp
    <2>3. LwRequest(Intent("lw", "bri", [arg2 |-> BriStep(bri, dir, 0, 255)]))
      BY <2>2 DEF LwRequest
    <2> QED BY <1>2, <1>6, <2>3
  <1> QED BY <1>3, <1>4, <1>5, <1>6 DEF LichtwerkKey

LEMMA YamahaKeySends ==
    ASSUME TypeOK, YamahaKey
    PROVE  StTyped /\ KeySends
  <1>1. pending = NoIntent /\ screen = "Yamaha" BY DEF YamahaKey, Free
  <1>2. ASSUME NEW i, Send(i), YamRequest(i) PROVE StTyped /\ KeySends
    <2>1. PlainRequest(i) BY <1>2 DEF PlainRequest
    <2> QED BY <1>1, <1>2, <2>1, SendIsPlain
  <1>3. CASE OnOff("yam", None)
    <2>1. PICK a \in {"on", "off"} : Send(Intent("yam", a, None)) BY <1>3 DEF OnOff
    <2>2. YamRequest(Intent("yam", a, None)) BY DEF YamRequest
    <2> QED BY <1>2, <2>1, <2>2
  <1>4. ASSUME NEW step \in {2, -2}, Send(Intent("yam", "vol", [arg |-> step]))
        PROVE  StTyped /\ KeySends
    <2>1. YamRequest(Intent("yam", "vol", [arg |-> step])) BY DEF YamRequest
    <2> QED BY <1>2, <1>4, <2>1
  <1>5. ASSUME NEW name \in CycleFrom(kYamahaInputs, {1}),
               Send(Intent("yam", "input", [name |-> name]))
        PROVE  StTyped /\ KeySends
    <2>1. name \in YamInputs BY InputsAreKnown
    <2>2. YamRequest(Intent("yam", "input", [name |-> name])) BY <2>1 DEF YamRequest
    <2> QED BY <1>2, <1>5, <2>2
  <1>6. CASE Send(Intent("yam", "mute", None))
    <2>1. YamRequest(Intent("yam", "mute", None)) BY DEF YamRequest
    <2> QED BY <1>2, <1>6, <2>1
  <1> QED BY <1>3, <1>4, <1>5, <1>6 DEF YamahaKey

LEMMA TeufelKeySends ==
    ASSUME TypeOK, TeufelKey
    PROVE  StTyped /\ KeySends
  <1>1. pending = NoIntent /\ screen = "Teufel" BY DEF TeufelKey, Free
  <1>2. ASSUME NEW i, Send(i), TfRequest(i) PROVE StTyped /\ KeySends
    <2>1. PlainRequest(i) BY <1>2 DEF PlainRequest
    <2> QED BY <1>1, <1>2, <2>1, SendIsPlain
  <1>3. ASSUME NEW a \in {"power", "mute"}, Send(Intent("tf", a, None))
        PROVE  StTyped /\ KeySends
    <2>1. TfRequest(Intent("tf", a, None)) BY DEF TfRequest
    <2> QED BY <1>2, <1>3, <2>1
  <1>4. ASSUME NEW step \in {1, -1}, Send(Intent("tf", "vol", [arg |-> step]))
        PROVE  StTyped /\ KeySends
    <2>1. TfRequest(Intent("tf", "vol", [arg |-> step])) BY DEF TfRequest
    <2> QED BY <1>2, <1>4, <2>1
  <1>5. ASSUME NEW name \in CycleFrom(kTeufelInputs, {1}),
               Send(Intent("tf", "input", [name |-> name]))
        PROVE  StTyped /\ KeySends
    <2>1. name \in TfInputs BY InputsAreKnown
    <2>2. TfRequest(Intent("tf", "input", [name |-> name])) BY <2>1 DEF TfRequest
    <2> QED BY <1>2, <1>5, <2>2
  <1> QED BY <1>3, <1>4, <1>5 DEF TeufelKey

LEMMA DiscoKeySends ==
    ASSUME TypeOK, DiscoKey
    PROVE  StTyped /\ KeySends
  <1>1. pending = NoIntent /\ screen = "Disco" BY DEF DiscoKey, Free
  <1>2. ASSUME NEW i, Send(i), DiscoRequest(i) PROVE StTyped /\ KeySends
    <2>1. PlainRequest(i) BY <1>2 DEF PlainRequest
    <2> QED BY <1>1, <1>2, <2>1, SendIsPlain
  <1>3. CASE OnOff("disco", None)
    <2>1. PICK a \in {"on", "off"} : Send(Intent("disco", a, None)) BY <1>3 DEF OnOff
    <2>2. DiscoRequest(Intent("disco", a, None)) BY DEF DiscoRequest
    <2> QED BY <1>2, <2>1, <2>2
  <1>4. ASSUME NEW name \in CycleFrom(kDiscoModes, {1, -1}),
               Send(Intent("disco", "mode", [name |-> name]))
        PROVE  StTyped /\ KeySends
    <2>1. name \in DiscoModes BY EffectsAreKnown
    <2>2. DiscoRequest(Intent("disco", "mode", [name |-> name])) BY <2>1 DEF DiscoRequest
    <2> QED BY <1>2, <1>4, <2>2
  <1> QED BY <1>3, <1>4 DEF DiscoKey

\* A line of the console asks for nothing a key could not.
LEMMA DeviceLinesAreRequests ==
    ASSUME NEW i \in DeviceLines
    PROVE  Request(i)
  <1>1. CASE \E a \in {"wake", "alloff", "goodnight"} : i = Intent("macro", a, None)
    BY <1>1 DEF Request, PlainRequest, MacroRequest
  <1>2. CASE \E t \in {"disco", "lw", "yam"} : i = Intent(t, "toggle", None)
    <2>1. PICK t \in {"disco", "lw", "yam"} : i = Intent(t, "toggle", None) BY <1>2
    <2>2. DiscoRequest(i) \/ LwRequest(i) \/ YamRequest(i)
      BY <2>1 DEF DiscoRequest, LwRequest, YamRequest
    <2> QED BY <2>2 DEF Request, PlainRequest
  <1>3. CASE \E n \in {2, -2} : i = Intent("yam", "vol", [arg |-> n])
    BY <1>3 DEF Request, PlainRequest, YamRequest
  <1>4. CASE i \in {Intent("tf", "power", None), FogOn}
    BY <1>4 DEF Request, PlainRequest, TfRequest
  <1> QED BY <1>1, <1>2, <1>3, <1>4 DEF DeviceLines

LEMMA RoomLinesAreRequests ==
    ASSUME TypeOK, NEW i \in RoomLines
    PROVE  Request(i)
  <1>1. Listed \subseteq 1 .. 999
    <2>1. rooms \in RoomLists \cup {<<>>} BY DEF TypeOK
    <2>2. \A n \in DOMAIN rooms : rooms[n] \in 1 .. 999 BY <2>1, RoomFacts
    <2> QED BY <2>2 DEF Listed
  <1>2. CASE \E a \in {"on", "off"}, r \in Listed : i = Intent("hue", a, [arg |-> r])
    <2>1. PICK a \in {"on", "off"}, r \in Listed : i = Intent("hue", a, [arg |-> r]) BY <1>2
    <2>2. r \in 1 .. 999 BY <1>1
    <2>3. HueRequest(i) BY <2>1, <2>2 DEF HueRequest
    <2> QED BY <2>3 DEF Request, PlainRequest
  <1>3. CASE \E r \in Listed, n \in Percents :
                i = Intent("hue", "bri", [arg |-> r, arg2 |-> BriOf(n)])
    <2>1. PICK r \in Listed, n \in Percents :
             i = Intent("hue", "bri", [arg |-> r, arg2 |-> BriOf(n)])
      BY <1>3
    <2>2. n \in Nat BY UiAssumption
    <2>3. (n * 254) \div 100 \in Int BY <2>2
    <2>4. BriOf(n) \in 1 .. 254 BY <2>3 DEF BriOf, Clamp
    <2>5. r \in 1 .. 999 BY <1>1
    <2>6. HueRequest(i) BY <2>1, <2>4, <2>5 DEF HueRequest
    <2> QED BY <2>6 DEF Request, PlainRequest
  <1> DEFINE Turned == {Intent("hue", a, [arg |-> r]) : a \in {"on", "off"}, r \in Listed}
             Dimmed == {Intent("hue", "bri", [arg |-> r, arg2 |-> BriOf(n)]) :
                          r \in Listed, n \in Percents}
  <1>4. i \in Turned \/ i \in Dimmed BY DEF RoomLines
  <1>5. i \in Turned => \E a \in {"on", "off"}, r \in Listed : i = Intent("hue", a, [arg |-> r])
    OBVIOUS
  <1>6. i \in Dimmed => \E r \in Listed, n \in Percents :
                           i = Intent("hue", "bri", [arg |-> r, arg2 |-> BriOf(n)])
    OBVIOUS
  <1> QED BY <1>2, <1>3, <1>4, <1>5, <1>6

LEMMA ParsedIsRequest ==
    ASSUME TypeOK, NEW i \in Parsed
    PROVE  Request(i)
  BY DeviceLinesAreRequests, RoomLinesAreRequests DEF Parsed

LEMMA ScreenNames ==
    /\ \A n \in 1 .. Len(kHomeRows) : kHomeRows[n] \in Screens
    /\ Len(kHomeRows) = 7 /\ {"Home", "Console", "Diagnostics"} \subseteq Screens
  <1>1. Len(kHomeRows) = 7 /\ DOMAIN kHomeRows = 1 .. 7 BY DEF kHomeRows
  <1> QED BY <1>1 DEF Screens

LEMMA RunLineSends ==
    ASSUME TypeOK, RunLine
    PROVE  StTyped /\ KeySends
  <1>1. pending = NoIntent /\ screen = "Console" BY DEF RunLine, Free
  <1>2. PICK i \in Parsed :
           IF NeedsConfirm(i) THEN pending' = i /\ UNCHANGED sent
           ELSE sent' = [intent |-> i, path |-> "net"] /\ UNCHANGED pending
    BY DEF RunLine
  <1>3. screen' \in Screens /\ cursor' \in Nat /\ ir' \in BOOLEAN
    BY ScreenNames DEF RunLine, TypeOK
  <1>4. CASE NeedsConfirm(i)
    BY <1>2, <1>3, <1>4 DEF NeedsConfirm, StTyped, KeySends
  <1>5. CASE ~NeedsConfirm(i)
    <2>1. PlainRequest(i) BY <1>5, ParsedIsRequest DEF Request, NeedsConfirm
    <2>2. sent'.intent = i /\ sent'.path = "net" BY <1>2, <1>5
    <2>3. SentPlainly BY <1>1, <2>1, <2>2 DEF SentPlainly, Paths
    <2>4. StTyped BY <1>2, <1>3, <1>5 DEF StTyped, TypeOK
    <2> QED BY <2>3, <2>4 DEF KeySends
  <1> QED BY <1>4, <1>5

LEMMA MoveCursorStays ==
    ASSUME TypeOK, MoveCursor
    PROVE  StTyped /\ KeySends
  <1>1. RowCount \in Nat /\ RowCount > 0
    <2>1. RowCount \in Nat BY RoomFacts, ScreenNames DEF RowCount, TypeOK
    <2> QED BY <2>1 DEF MoveCursor
  <1>2. PICK dir \in {1, -1} : cursor' = (cursor + dir + RowCount) % RowCount
    BY DEF MoveCursor
  <1>3. cursor + dir + RowCount \in Int BY <1>1 DEF TypeOK
  <1>4. cursor' \in Nat BY <1>1, <1>2, <1>3
  <1> QED BY <1>4 DEF MoveCursor, TypeOK, StTyped, KeySends

\* The whole of handleKey().
LEMMA KeyFacts ==
    ASSUME TypeOK, HandleKey
    PROVE  StTyped /\ KeySends
  <1>1. CASE Confirm BY <1>1 DEF Confirm, TypeOK, StTyped, KeySends, SentConfirmed
  <1>2. CASE Cancel BY <1>2 DEF Cancel, TypeOK, StTyped, KeySends
  <1>3. CASE RunLine BY <1>3, RunLineSends
  <1>4. CASE LeaveConsole
    BY <1>4, GoToIsTyped, ScreenNames DEF LeaveConsole, TypeOK
  <1>5. CASE EditLine BY <1>5, NothingMoves DEF EditLine
  <1>6. CASE GoHome BY <1>6, GoToIsTyped, ScreenNames DEF GoHome, TypeOK
  <1>7. CASE OpenConsole BY <1>7, GoToIsTyped, ScreenNames DEF OpenConsole, TypeOK
  <1>8. CASE OpenRow
    <2>1. PICK row \in 0 .. Len(kHomeRows) - 1 : GoTo(kHomeRows[row + 1])
      BY <1>8 DEF OpenRow
    <2>2. kHomeRows[row + 1] \in Screens BY ScreenNames
    <2> QED BY <1>8, <2>1, <2>2, GoToIsTyped DEF OpenRow
  <1>9. CASE EnterOnHome
    <2>1. HomeScreenAt(cursor) \in Screens BY ScreenNames DEF HomeScreenAt, TypeOK
    <2> QED BY <1>9, <2>1, GoToIsTyped DEF EnterOnHome
  <1>10. CASE OpenDiagnostics
    BY <1>10, GoToIsTyped, ScreenNames DEF OpenDiagnostics, TypeOK
  <1>11. CASE MoveCursor BY <1>11, MoveCursorStays
  <1>12. CASE HomeMacro
    <2>1. pending = NoIntent /\ screen = "Home" BY <1>12 DEF HomeMacro, Free
    <2>2. CASE Ask(GoodNight) BY <2>2, AskIsTyped
    <2>3. CASE Send(Intent("macro", "alloff", None))
      <3>1. PlainRequest(Intent("macro", "alloff", None)) BY DEF PlainRequest, MacroRequest
      <3> QED BY <2>1, <2>3, <3>1, SendIsPlain
    <2> QED BY <1>12, <2>2, <2>3 DEF HomeMacro
  <1>13. CASE RoomsKey BY <1>13, RoomsKeySends
  <1>14. CASE LichtwerkKey BY <1>14, LichtwerkKeySends
  <1>15. CASE YamahaKey BY <1>15, YamahaKeySends
  <1>16. CASE SwitchPath BY <1>16 DEF SwitchPath, TypeOK, StTyped, KeySends
  <1>17. CASE TeufelKey BY <1>17, TeufelKeySends
  <1>18. CASE DiscoKey BY <1>18, DiscoKeySends
  <1>19. CASE FogKey
    <2>1. pending = NoIntent /\ screen = "Fog" BY <1>19 DEF FogKey, Free
    <2>2. CASE Ask(FogOn) BY <2>2, AskIsTyped
    <2>3. CASE Send(Intent("fog", "off", None))
      <3>1. PlainRequest(Intent("fog", "off", None)) BY DEF PlainRequest
      <3> QED BY <2>1, <2>3, <3>1, SendIsPlain
    <2> QED BY <1>19, <2>2, <2>3 DEF FogKey
  <1> QED BY <1>1, <1>2, <1>3, <1>4, <1>5, <1>6, <1>7, <1>8, <1>9, <1>10, <1>11, <1>12, <1>13,
             <1>14, <1>15, <1>16, <1>17, <1>18, <1>19 DEF HandleKey

-----------------------------------------------------------------------------
(* The invariant is inductive.                                             *)

\* What a pass has sent, typed.
SentOK == SentIsRequest /\ sent.path \in Paths

LEMMA NothingIsOK ==
    ASSUME sent' = NothingSent
    PROVE  SentOK'
  <1>1. sent'.intent = NoIntent /\ sent'.path = "net" BY DEF NothingSent
  <1> QED BY <1>1 DEF SentOK, SentIsRequest, Paths

LEMMA KeySendsOK ==
    ASSUME TypeOK, SentIsRequest, KeySends
    PROVE  SentOK'
  <1>1. CASE sent' = sent BY <1>1 DEF SentOK, SentIsRequest, TypeOK
  <1>2. CASE SentConfirmed
    <2>1. Request(pending)
      <3>1. MacroRequest(GoodNight) BY DEF MacroRequest, GoodNight
      <3> QED BY <1>2, <3>1 DEF SentConfirmed, TypeOK, Request, PlainRequest
    <2>2. sent'.intent = pending /\ sent'.path = "net" BY <1>2 DEF SentConfirmed
    <2> QED BY <2>1, <2>2 DEF SentOK, SentIsRequest, Paths
  <1>3. CASE SentPlainly
    BY <1>3 DEF SentPlainly, SentOK, SentIsRequest, Request
  <1> QED BY <1>1, <1>2, <1>3 DEF KeySends

LEMMA FrameTyped ==
    ASSUME TypeOK
    PROVE  Frame.screen \in Screens /\ Frame.room \in Nat /\ Frame.prompt = pending
  <1>1. ASSUME cursor \in 0 .. Len(rooms) - 1 PROVE rooms[cursor + 1] \in Nat
    <2>1. cursor + 1 \in DOMAIN rooms BY <1>1, RoomFacts DEF TypeOK
    <2>2. rooms[cursor + 1] \in 1 .. 999 BY <2>1, RoomFacts DEF TypeOK
    <2> QED BY <2>2
  <1> QED BY <1>1 DEF Frame, TypeOK

LEMMA InitInvariant == Init => IInv
  <1> SUFFICES ASSUME Init PROVE IInv
    OBVIOUS
  <1>1. TypeOK BY ScreenNames DEF Init, TypeOK, NothingSent, Paths
  <1>2. SentIsRequest BY DEF Init, SentIsRequest, NothingSent
  <1>3. FrameIsCurrent /\ DrawnBeforeKey BY DEF Init, FrameIsCurrent, DrawnBeforeKey
  <1> QED BY <1>1, <1>2, <1>3 DEF IInv

LEMMA StepInvariant == IInv /\ [Next]_vars => IInv'
  <1> SUFFICES ASSUME IInv, [Next]_vars PROVE IInv'
    OBVIOUS
  <1> USE DEF IInv
  <1>1. CASE Key
    <2>1. StTyped /\ KeySends BY <1>1, KeyFacts DEF Key
    <2>2. stage' = "pump" /\ dirty' = TRUE /\ UNCHANGED <<rooms, drawn>>
      BY <1>1 DEF Key, Handled
    <2>3. SentOK' BY <2>1, KeySendsOK
    <2>4. TypeOK' BY <2>1, <2>2, <2>3 DEF TypeOK, StTyped, SentOK
    <2>5. FrameIsCurrent' /\ DrawnBeforeKey' BY <2>2 DEF FrameIsCurrent, DrawnBeforeKey
    <2> QED BY <2>3, <2>4, <2>5 DEF SentOK
  <1>2. CASE NoKey
    <2>1. TypeOK' /\ SentIsRequest' BY <1>2 DEF NoKey, st, TypeOK, SentIsRequest
    <2>2. Frame' = Frame BY <1>2 DEF NoKey, st, Frame
    <2>3. FrameIsCurrent' BY <1>2, <2>2 DEF NoKey, FrameIsCurrent
    <2>4. DrawnBeforeKey' BY <1>2 DEF NoKey, DrawnBeforeKey
    <2> QED BY <2>1, <2>3, <2>4
  <1>3. CASE Ota
    <2>1. TypeOK' /\ SentIsRequest' BY <1>3 DEF Ota, st, TypeOK, SentIsRequest
    <2>2. FrameIsCurrent' BY <1>3 DEF Ota, FrameIsCurrent
    <2>3. DrawnBeforeKey' BY <1>3 DEF Ota, Free, st, DrawnBeforeKey
    <2> QED BY <2>1, <2>2, <2>3
  <1>4. CASE Pump
    <2>1. rooms' \in RoomLists \cup {<<>>} /\ dirty' \in BOOLEAN BY <1>4 DEF Pump, TypeOK
    <2>2. TypeOK' /\ SentIsRequest' BY <1>4, <2>1 DEF Pump, st, TypeOK, SentIsRequest
    <2>3. FrameIsCurrent'
      <3>1. CASE dirty' = TRUE BY <3>1 DEF FrameIsCurrent
      <3>2. CASE UNCHANGED <<rooms, dirty>>
        <4>1. Frame' = Frame BY <1>4, <3>2 DEF Pump, st, Frame
        <4> QED BY <1>4, <3>2, <4>1 DEF Pump, FrameIsCurrent
      <3> QED BY <1>4, <3>1, <3>2 DEF Pump
    <2>4. DrawnBeforeKey' BY <1>4 DEF Pump, DrawnBeforeKey
    <2> QED BY <2>2, <2>3, <2>4
  <1>5. CASE Draw
    <2>1. SentOK' BY <1>5, NothingIsOK DEF Draw
    <2>2. Frame' = Frame BY <1>5 DEF Draw, st, Frame
    <2>3. CASE drawn' = Frame /\ dirty' = FALSE
      <3>1. drawn'.screen \in Screens /\ drawn'.room \in Nat BY <2>3, FrameTyped
      <3>2. TypeOK' BY <1>5, <2>1, <2>3, <3>1 DEF Draw, st, TypeOK, SentOK
      <3>3. FrameIsCurrent' BY <2>2, <2>3 DEF FrameIsCurrent
      <3>4. DrawnBeforeKey' BY <1>5, <2>3 DEF Draw, DrawnBeforeKey
      <3> QED BY <2>1, <3>2, <3>3, <3>4 DEF SentOK
    <2>4. CASE ~dirty /\ UNCHANGED <<drawn, dirty>>
      <3>1. TypeOK' BY <1>5, <2>1, <2>4 DEF Draw, st, TypeOK, SentOK
      <3>2. FrameIsCurrent' BY <2>2, <2>4 DEF FrameIsCurrent
      <3>3. DrawnBeforeKey' BY <1>5, <2>4 DEF Draw, DrawnBeforeKey
      <3> QED BY <2>1, <3>1, <3>2, <3>3 DEF SentOK
    <2> QED BY <1>5, <2>3, <2>4 DEF Draw
  <1>6. CASE NextPass
    <2>1. TypeOK' /\ SentIsRequest' BY <1>6 DEF NextPass, st, TypeOK, SentIsRequest
    <2>2. Frame' = Frame BY <1>6 DEF NextPass, st, Frame
    <2>3. FrameIsCurrent' BY <1>6, <2>2 DEF NextPass, FrameIsCurrent
    <2>4. DrawnBeforeKey' BY <1>6 DEF NextPass, DrawnBeforeKey
    <2> QED BY <2>1, <2>3, <2>4
  <1>7. CASE SleepAndWake
    <2>1. TypeOK' BY <1>7, ScreenNames DEF SleepAndWake, TypeOK
    <2>2. SentIsRequest' BY <1>7 DEF SleepAndWake, SentIsRequest
    <2>3. FrameIsCurrent' BY <1>7 DEF SleepAndWake, FrameIsCurrent
    <2>4. DrawnBeforeKey' BY <1>7 DEF SleepAndWake, DrawnBeforeKey
    <2> QED BY <2>1, <2>2, <2>3, <2>4
  <1>8. CASE UNCHANGED vars
    <2>1. TypeOK' /\ SentIsRequest' /\ DrawnBeforeKey'
      BY <1>8 DEF vars, TypeOK, SentIsRequest, DrawnBeforeKey
    <2>2. Frame' = Frame BY <1>8 DEF vars, Frame
    <2>3. FrameIsCurrent' BY <1>8, <2>2 DEF vars, FrameIsCurrent
    <2> QED BY <2>1, <2>3
  <1> QED BY <1>1, <1>2, <1>3, <1>4, <1>5, <1>6, <1>7, <1>8 DEF Next

LEMMA Invariant == Spec => []IInv
  BY InitInvariant, StepInvariant, PTL DEF Spec

-----------------------------------------------------------------------------
(* What a step may do.                                                     *)

\* Something new is sent only by a key.
LEMMA OnlyKeysSend ==
    ASSUME TypeOK, [Next]_vars, sent' # sent, sent'.intent # NoIntent
    PROVE  Key
  BY DEF Next, NoKey, Ota, Pump, Draw, NextPass, SleepAndWake, vars, NothingSent

\* With a prompt, and everywhere but on Home, the frame is the state of the screen.
LEMMA FrameAtKey ==
    ASSUME IInv, stage = "key", pending # NoIntent \/ screen # "Home"
    PROVE  drawn = Frame
  BY DEF IInv, TypeOK, FrameIsCurrent, DrawnBeforeKey

LEMMA FogStep ==
    IInv /\ [Next]_vars =>
        [sent' # sent /\ sent'.intent = FogOn => drawn.prompt = FogOn]_vars
  <1> SUFFICES ASSUME IInv, [Next]_vars, sent' # sent, sent'.intent = FogOn
               PROVE  drawn.prompt = FogOn
    OBVIOUS
  <1>1. TypeOK BY DEF IInv
  <1>2. FogOn # NoIntent BY DEF FogOn, NoIntent, Intent
  <1>3. Key BY <1>1, <1>2, OnlyKeysSend
  <1>4. stage = "key" /\ KeySends BY <1>1, <1>3, KeyFacts DEF Key, Handled
  <1>5. ~SentPlainly BY PlainIsNotFog DEF SentPlainly
  <1>6. pending = FogOn BY <1>4, <1>5 DEF KeySends, SentConfirmed
  <1> QED BY <1>1, <1>2, <1>4, <1>6, FrameAtKey, FrameTyped

LEMMA RoomStep ==
    IInv /\ [Next]_vars =>
        [sent' # sent /\ sent'.intent.target = "hue" /\ screen = "Rooms" =>
            drawn.screen = "Rooms" /\ sent'.intent.given.arg = drawn.room]_vars
  <1> SUFFICES ASSUME IInv, [Next]_vars, sent' # sent, sent'.intent.target = "hue",
                      screen = "Rooms"
               PROVE  drawn.screen = "Rooms" /\ sent'.intent.given.arg = drawn.room
    OBVIOUS
  <1>1. TypeOK BY DEF IInv
  <1>2. sent'.intent # NoIntent BY DEF NoIntent, Intent
  <1>3. Key BY <1>1, <1>2, OnlyKeysSend
  <1>4. stage = "key" /\ KeySends BY <1>1, <1>3, KeyFacts DEF Key, Handled
  <1>5. pending.target # "hue" BY <1>1 DEF TypeOK, NoIntent, FogOn, GoodNight, Intent
  <1>6. SentPlainly BY <1>4, <1>5 DEF KeySends, SentConfirmed
  <1>7. drawn = Frame BY <1>4, FrameAtKey
  <1> QED BY <1>6, <1>7 DEF SentPlainly, Frame

-----------------------------------------------------------------------------
(* Theorems.                                                               *)

\* The variables hold what the code's types allow, and only starting the fog
\* machine and the good-night macro ever wait for an answer.
THEOREM UiTypeCorrect == Spec => []TypeOK
  <1>1. IInv => TypeOK BY DEF IInv
  <1> QED BY <1>1, Invariant, PTL

\* Whatever list of rooms there is, whatever a device reads and whatever number
\* is typed: the gateway takes every request the remote makes, or says that it
\* does not know the state the request starts from.
THEOREM TakenByGatewayAlways == Spec => []TakenByGateway
  <1>1. IInv => TakenByGateway BY ContractHolds DEF IInv
  <1> QED BY <1>1, Invariant, PTL

\* With one snapshot between them, remote and gateway (or the amplifier, by
\* infrared) agree on what every press asks of the house, but for the end of
\* the volume range and the inputs infrared does not know.
THEOREM ClaimIsWhatIsAskedAlways == Spec => []ClaimIsWhatIsAsked
  <1>1. IInv => ClaimIsWhatIsAsked BY ContractHolds DEF IInv
  <1> QED BY <1>1, Invariant, PTL

\* The fog machine is started only by the answer to a prompt that has been on
\* the screen.
THEOREM FogOnlyAfterPromptAlways == Spec => FogOnlyAfterPrompt
  BY Invariant, FogStep, PTL DEF Spec, FogOnlyAfterPrompt

\* A key on the room list acts on the room that the frame in front of the user
\* marks, however the list under it changes.
THEOREM ActsOnTheRoomShownAlways == Spec => ActsOnTheRoomShown
  BY Invariant, RoomStep, PTL DEF Spec, ActsOnTheRoomShown

=============================================================================
