------------------------------- MODULE Actions -------------------------------
(***************************************************************************)
(* The contract between the remote and the gateway: the request the remote *)
(* makes of an intent (firmware/lib/core/command.cpp, buildActionBody),    *)
(* what the gateway makes of the request (gateway/m5gw/actions.py), and    *)
(* what the remote claims meanwhile (firmware/src/main.cpp, claimFor).     *)
(* Pure operators.                                                         *)
(*                                                                         *)
(* What an intent gives beside target and action is a record: arg, arg2 or *)
(* name, the fields with a has-flag or a text in the code.  A request is a *)
(* record of parameters.  A snapshot is a record of what is known, named   *)
(* like the fields of the overlay; what is not known is not there.         *)
(* Actions that no key and no line of the console asks for are left out.   *)
(***************************************************************************)
EXTENDS Integers, Sequences

None == [x \in {} |-> 0]

Only(k, v) == [x \in {k} |-> v]

Intent(target, action, given) ==
    [target |-> target, action |-> action, given |-> given]

FogOn     == Intent("fog", "on", None)
GoodNight == Intent("macro", "goodnight", None)

\* What the keys i, e and o step through (ui_state.cpp).
kYamahaInputs == <<"Spotify", "AirPlay", "HDMI1", "HDMI2", "HDMI3", "AV1", "TUNER", "AUX">>
kTeufelInputs == <<"AUX", "LINE", "OPTICAL", "USB", "BLUETOOTH">>
kLwEffects    == <<"solid", "rainbow", "pulse", "chase", "sparkle", "strobe", "meteor",
                   "breathe", "sinelon", "juggle", "theater", "gradient", "fire">>
kDiscoModes   == <<"rainbow", "party", "random", "pulse", "solid", "strobe">>

\* What the gateway takes (actions.py).
YamInputs  == {"Spotify", "JUKE", "AirPlay", "SERVER", "NET RADIO", "USB", "iPod (USB)",
               "TUNER", "AUX", "HDMI1", "HDMI2", "HDMI3", "HDMI4", "HDMI5", "HDMI6",
               "AV1", "AV2", "AV3", "AV4", "AV5", "AV6"}
TfInputs   == {"AUX", "LINE", "OPTICAL", "USB", "BLUETOOTH"}
LwEffects  == {"solid", "rainbow", "pulse", "chase", "sparkle", "strobe", "meteor",
               "breathe", "sinelon", "juggle", "theater", "gradient", "fire"}
DiscoModes == {"rainbow", "party", "random", "pulse", "solid", "strobe"}

VolMin == -805
VolMax == 165

Clamp(v, lo, hi) == IF v < lo THEN lo ELSE IF v > hi THEN hi ELSE v

-----------------------------------------------------------------------------
(* The request.                                                            *)

\* A mutant: a named value under the key of a number.
BodyNameAsValue(i) ==
    IF "name" \in DOMAIN i.given THEN Only("value", i.given.name) ELSE None

\* The parameters of the request, under the keys actions.py reads.
Body(i) ==
    LET has(f) == f \in DOMAIN i.given
        second == IF i.action = "bri" THEN "bri" ELSE "value"
        first  == IF i.target = "hue" THEN "group" ELSE "step"
    IN  CASE i.target = "macro" -> None
          [] i = FogOn          -> [confirm |-> TRUE]
          [] i.target # "macro" /\ i # FogOn /\ has("name") ->
                Only(i.action, i.given.name)
          [] i.target # "macro" /\ has("arg2") ->
                [k \in {second} \cup (IF has("arg") THEN {"group"} ELSE {}) |->
                    IF k = second THEN i.given.arg2 ELSE i.given.arg]
          [] i.target # "macro" /\ has("arg") /\ ~has("arg2") ->
                Only(first, i.given.arg)
          [] OTHER -> None

-----------------------------------------------------------------------------
(* What the gateway makes of it: an HTTP status and, with a 200, what the  *)
(* house is asked to become.                                               *)

Take(effect)  == [status |-> 200, effect |-> effect]
Turn(status)  == [status |-> status, effect |-> None]

InRange(q, k, lo, hi) == k \in DOMAIN q /\ q[k] \in lo .. hi

\* on and off are absolute, toggle needs to know where the device is.
Switch(field, action, s) ==
    IF action \in {"on", "off"} THEN Take(Only(field, action = "on"))
    ELSE IF field \in DOMAIN s THEN Take(Only(field, ~s[field]))
    ELSE Turn(409)

\* One of a whitelist.
Named(field, q, k, list) ==
    IF k \in DOMAIN q /\ q[k] \in list THEN Take(Only(field, q[k])) ELSE Turn(400)

\* A device that only knows how to flip, or to step: what it comes to is known
\* only if the snapshot is.
Relative(field, s, v) == Take(IF field \in DOMAIN s THEN Only(field, v) ELSE None)

Hue(action, q, s) ==
    CASE ~InRange(q, "group", 1, 999) -> Turn(400)
      [] InRange(q, "group", 1, 999) /\ action \in {"on", "off", "toggle"} ->
            Switch("RoomOn", action, s)
      [] InRange(q, "group", 1, 999) /\ action = "bri" ->
            IF InRange(q, "bri", 1, 254)
            THEN Take([RoomOn |-> TRUE, RoomBri |-> q.bri]) ELSE Turn(400)
      [] OTHER -> Turn(400)

Lichtwerk(action, q, s) ==
    CASE action \in {"on", "off", "toggle"} -> Switch("LwOn", action, s)
      [] action = "bri" ->
            IF InRange(q, "bri", 0, 255) THEN Take(Only("LwBri", q.bri)) ELSE Turn(400)
      [] action = "effect" ->
            IF "effect" \in DOMAIN q /\ q.effect \in LwEffects
            THEN Take([LwEffect |-> q.effect, LwOn |-> TRUE]) ELSE Turn(400)
      [] OTHER -> Turn(400)

Yamaha(action, q, s) ==
    CASE action \in {"on", "off", "toggle"} -> Switch("YamOn", action, s)
      [] action = "vol" ->
            IF "step" \notin DOMAIN q THEN Turn(400)
            ELSE IF "YamRaw" \notin DOMAIN s THEN Turn(409)
            ELSE IF ~InRange(q, "step", -40, 40) THEN Turn(400)
            ELSE Take(Only("YamRaw", Clamp(s.YamRaw + q.step * 5, VolMin, VolMax)))
      [] action = "mute"  -> Switch("YamMute", "toggle", s)
      [] action = "input" -> Named("YamInput", q, "input", YamInputs)
      [] OTHER -> Turn(400)

Teufel(action, q, s) ==
    CASE action = "power" -> Relative("TfOn", s, ~s.TfOn)
      [] action = "mute"  -> Relative("TfMute", s, ~s.TfMute)
      [] action = "vol"   ->
            IF InRange(q, "step", -20, 20) /\ q.step # 0
            THEN Relative("TfVol", s, s.TfVol + q.step) ELSE Turn(400)
      [] action = "input" -> Named("TfInput", q, "input", TfInputs)
      [] OTHER -> Turn(400)

Fog(action, q) ==
    CASE action = "off" -> Take([FogOn |-> FALSE])
      [] action = "on"  -> IF "confirm" \in DOMAIN q THEN Take([FogOn |-> TRUE])
                                                     ELSE Turn(409)
      [] OTHER -> Turn(400)

Disco(action, q, s) ==
    CASE action \in {"on", "off", "toggle"} -> Switch("DiscoOn", action, s)
      [] action = "mode" -> Named("DiscoMode", q, "mode", DiscoModes)
      [] OTHER -> Turn(400)

\* macro(): the receiver is switched off only if it is known to be on.
Macro(name, s) ==
    CASE name \in {"alloff", "goodnight"} ->
            Take([f \in {"RoomOn", "LwOn", "DiscoOn", "FogOn"} \cup
                     (IF "YamOn" \in DOMAIN s /\ s.YamOn THEN {"YamOn"} ELSE {}) |-> FALSE])
      [] name \in {"allon", "wake"} -> Take([RoomOn |-> TRUE])
      [] OTHER -> Turn(404)

Plan(i, s) ==
    LET q == Body(i)
    IN  CASE i.target = "hue"   -> Hue(i.action, q, s)
          [] i.target = "lw"    -> Lichtwerk(i.action, q, s)
          [] i.target = "yam"   -> Yamaha(i.action, q, s)
          [] i.target = "tf"    -> Teufel(i.action, q, s)
          [] i.target = "fog"   -> Fog(i.action, q)
          [] i.target = "disco" -> Disco(i.action, q, s)
          [] i.target = "macro" -> Macro(i.action, s)
          [] OTHER -> Turn(404)

-----------------------------------------------------------------------------
(* What the amplifier makes of an intent sent by infrared, sendTeufelIr(): *)
(* whatever input is asked for, the code is that of AUX.                   *)

Infrared(i, s) ==
    CASE i.action = "power" -> Only("TfOn", ~s.TfOn)
      [] i.action = "mute"  -> Only("TfMute", ~s.TfMute)
      [] i.action = "vol"   -> Only("TfVol", s.TfVol + Clamp(i.given.arg, -10, 10))
      [] i.action = "input" -> Only("TfInput", "AUX")

-----------------------------------------------------------------------------
(* What the remote claims, given the snapshot s it holds.                  *)

\* The devices an on or off is claimed for, and the field.
SwitchField == [hue |-> "RoomOn", lw |-> "LwOn", yam |-> "YamOn",
                disco |-> "DiscoOn", fog |-> "FogOn"]

NameField == [effect |-> "LwEffect", mode |-> "DiscoMode"]

\* A mutant: the receiver's volume moves by one notch a step, not five.
ClaimSmallStep(i, s) ==
    IF i.target = "yam" /\ i.action = "vol" THEN Only("YamRaw", s.YamRaw + i.given.arg)
    ELSE None

\* claimFor(): toggles, macros and what the console calls toggle claim
\* nothing.  s knows everything: what never arrived reads as zero.
Claim(i, s) ==
    LET t == i.target  a == i.action
    IN  CASE a \in {"on", "off"} /\ t \in DOMAIN SwitchField ->
                Only(SwitchField[t], a = "on")
          [] a = "bri" -> Only(IF t = "hue" THEN "RoomBri" ELSE "LwBri", i.given.arg2)
          [] a \in {"effect", "mode"} -> Only(NameField[a], i.given.name)
          [] a = "input" -> Only(IF t = "yam" THEN "YamInput" ELSE "TfInput", i.given.name)
          [] t = "yam" /\ a = "vol"  -> Only("YamRaw", s.YamRaw + i.given.arg * 5)
          [] t = "yam" /\ a = "mute" -> Only("YamMute", ~s.YamMute)
          [] t = "tf" /\ a = "power" -> Only("TfOn", ~s.TfOn)
          [] t = "tf" /\ a = "vol"   -> Only("TfVol", s.TfVol + i.given.arg)
          [] t = "tf" /\ a = "mute"  -> Only("TfMute", ~s.TfMute)
          [] OTHER -> None

\* The claim is part of what the gateway is asked to bring about.
Agree(claim, effect) ==
    \A f \in DOMAIN claim : f \in DOMAIN effect /\ effect[f] = claim[f]

\* What the gateway must know to take an intent.
Needs(i) == CASE i.action = "toggle" -> {SwitchField[i.target]}
              [] i.target = "yam" /\ i.action = "vol"  -> {"YamRaw"}
              [] i.target = "yam" /\ i.action = "mute" -> {"YamMute"}
              [] OTHER -> {}

\* The claim goes past the end of the volume range, where the gateway stops.
AtVolumeLimit(i, s) ==
    i.target = "yam" /\ i.action = "vol" /\ s.YamRaw + i.given.arg * 5 \notin VolMin .. VolMax
=============================================================================
