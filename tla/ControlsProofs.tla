----------------------------- MODULE ControlsProofs ----------------------------
(***************************************************************************)
(* Theorems about Controls for any lists of rooms, any readings and        *)
(* anything the gateway may know: the window follows the cursor, the       *)
(* amplifier has one path, and whatever a row sends the gateway takes.     *)
(* The last is not proved anew: what a row sends is a request in the sense *)
(* of UiStateProofs, and the contract for requests is proved there.        *)
(***************************************************************************)
EXTENDS Controls, FunctionTheorems, WellFoundedInduction, TLAPS

\* The keys of today's screens, for what they may ask for.
Ui == INSTANCE UiStateProofs WITH
         sent <- [intent |-> sent.intent, path |-> sent.path], Percents <- {},
         dirty <- FALSE, drawn <- 0, stage <- "key"

-----------------------------------------------------------------------------
(* The rows of the table.                                                  *)

ToggleBinds == {"RoomOn", "LwOn", "YamOn", "YamMute", "TfOn", "TfMute", "DiscoOn", "FogOn"}
LevelBinds  == {"RoomBri", "LwBri", "YamVol", "TfVol"}

\* What activate() and adjust() rely on in a row: the kind says how its bind is
\* to be read.
WellMade(c, s) ==
    \/ c.kind = "Toggle" /\ c.bind \in ToggleBinds
    \/ c.kind = "Level" /\ c.bind \in LevelBinds
    \/ c.kind = "Choice" /\ c.bind \in DOMAIN Choices \cup {"TfPath"}
    \/ c.kind = "Link" /\ c.bind \in Screens \ {s}
    \/ c.kind = "Readout" /\ c.bind = "None"

LEMMA RowFacts ==
    ASSUME NEW kind, NEW bind, NEW key
    PROVE  Row(kind, bind, key).kind = kind /\ Row(kind, bind, key).bind = bind
  BY DEF Row

LEMMA ScreenNames ==
    Screens = {"Home", "Rooms", "Room", "Lichtwerk", "Yamaha", "Teufel", "Disco", "Fog",
               "Climate"}
  BY DEF Screens, Specs

LEMMA ChoiceNames == DOMAIN Choices = {"LwEffect", "YamInput", "TfInput", "DiscoMode"}
  BY DEF Choices

LEMMA HomeRows ==
    /\ Len(Specs["Home"]) = 7 /\ DOMAIN Specs["Home"] = 1 .. 7
    /\ \A k \in 1 .. 7 : WellMade(Specs["Home"][k], "Home")
  <1>1. Len(HomeLinks) = 7 /\ DOMAIN HomeLinks = 1 .. 7 BY DEF HomeLinks
  <1>2. Specs["Home"] = [k \in 1 .. 7 |-> Row("Link", HomeLinks[k], "none")]
    BY <1>1 DEF Specs
  <1>3. \A k \in 1 .. 7 : HomeLinks[k] \in Screens \ {"Home"}
    BY ScreenNames DEF HomeLinks
  <1>4. ASSUME NEW k \in 1 .. 7 PROVE WellMade(Specs["Home"][k], "Home")
    <2>1. Specs["Home"][k] = Row("Link", HomeLinks[k], "none") BY <1>2
    <2> QED BY <1>3, <2>1, RowFacts DEF WellMade
  <1>5. Len(Specs["Home"]) = 7 /\ DOMAIN Specs["Home"] = 1 .. 7 BY <1>2
  <1> QED BY <1>4, <1>5

LEMMA ReadoutFacts ==
    ASSUME NEW n \in Nat
    PROVE  /\ Len(Readouts(n)) = n /\ DOMAIN Readouts(n) = 1 .. n
           /\ Readouts(n) \in Seq({Row("Readout", "None", "none")})
           /\ \A k \in 1 .. n : Readouts(n)[k] = Row("Readout", "None", "none")
  BY DEF Readouts

LEMMA FogRows ==
    /\ Len(Specs["Fog"]) = 3 /\ DOMAIN Specs["Fog"] = 1 .. 3
    /\ \A k \in 1 .. 3 : WellMade(Specs["Fog"][k], "Fog")
  <1> DEFINE toggle == Row("Toggle", "FogOn", "p")
             readout == Row("Readout", "None", "none")
             R == {toggle, readout}
  <1>1. Specs["Fog"] = <<toggle>> \o Readouts(2) BY DEF Specs
  <1>2. WellMade(toggle, "Fog") /\ WellMade(readout, "Fog")
    BY RowFacts DEF WellMade, ToggleBinds
  <1> HIDE DEF toggle, readout
  <1>3. /\ Readouts(2) \in Seq(R) /\ Len(Readouts(2)) = 2
        /\ \A k \in 1 .. 2 : Readouts(2)[k] = readout
    BY ReadoutFacts DEF readout, Readouts
  <1>4. <<toggle>> \in Seq(R) /\ Len(<<toggle>>) = 1 /\ <<toggle>>[1] = toggle OBVIOUS
  <1> HIDE DEF R
  <1>5. Specs["Fog"] \in Seq(R) /\ Len(Specs["Fog"]) = 3 BY <1>1, <1>3, <1>4
  <1>6. DOMAIN Specs["Fog"] = 1 .. 3 BY <1>5
  <1>7. ASSUME NEW k \in 1 .. 3 PROVE Specs["Fog"][k] \in R
    BY <1>5
  <1> QED BY <1>2, <1>5, <1>6, <1>7 DEF R

\* The screens whose rows are written out.
LEMMA PlainRows ==
    ASSUME NEW s \in {"Room", "Lichtwerk", "Yamaha", "Teufel", "Disco"}
    PROVE  /\ Len(Specs[s]) \in 1 .. 5 /\ DOMAIN Specs[s] = 1 .. Len(Specs[s])
           /\ \A k \in DOMAIN Specs[s] : WellMade(Specs[s][k], s)
  <1>1. CASE s = "Room"
    <2>1. Specs[s] = <<Row("Toggle", "RoomOn", "p"), Row("Level", "RoomBri", "none")>>
      BY <1>1 DEF Specs
    <2> QED BY <2>1, RowFacts DEF WellMade, ToggleBinds, LevelBinds
  <1>2. CASE s = "Lichtwerk"
    <2>1. Specs[s] = <<Row("Toggle", "LwOn", "p"), Row("Level", "LwBri", "none"),
                       Row("Choice", "LwEffect", "e")>>
      BY <1>2 DEF Specs
    <2> QED BY <2>1, RowFacts, ChoiceNames DEF WellMade, ToggleBinds, LevelBinds
  <1>3. CASE s = "Yamaha"
    <2>1. Specs[s] = <<Row("Toggle", "YamOn", "p"), Row("Level", "YamVol", "none"),
                       Row("Choice", "YamInput", "i"), Row("Toggle", "YamMute", "m")>>
      BY <1>3 DEF Specs
    <2> QED BY <2>1, RowFacts, ChoiceNames DEF WellMade, ToggleBinds, LevelBinds
  <1>4. CASE s = "Teufel"
    <2>1. Specs[s] = <<Row("Toggle", "TfOn", "p"), Row("Choice", "TfPath", "w"),
                       Row("Level", "TfVol", "none"), Row("Choice", "TfInput", "i"),
                       Row("Toggle", "TfMute", "m")>>
      BY <1>4 DEF Specs
    <2> QED BY <2>1, RowFacts, ChoiceNames DEF WellMade, ToggleBinds, LevelBinds
  <1>5. CASE s = "Disco"
    <2>1. Specs[s] = <<Row("Toggle", "DiscoOn", "p"), Row("Choice", "DiscoMode", "o")>>
      BY <1>5 DEF Specs
    <2> QED BY <2>1, RowFacts, ChoiceNames DEF WellMade, ToggleBinds, LevelBinds
  <1> QED BY <1>1, <1>2, <1>3, <1>4, <1>5

LEMMA ClimateRows ==
    /\ Len(Specs["Climate"]) = 5 /\ DOMAIN Specs["Climate"] = 1 .. 5
    /\ \A k \in 1 .. 5 : WellMade(Specs["Climate"][k], "Climate")
  <1>1. Specs["Climate"] = Readouts(5) BY DEF Specs
  <1>2. WellMade(Row("Readout", "None", "none"), "Climate") BY RowFacts DEF WellMade
  <1>3. /\ Len(Readouts(5)) = 5 /\ DOMAIN Readouts(5) = 1 .. 5
        /\ \A k \in 1 .. 5 : Readouts(5)[k] = Row("Readout", "None", "none")
    BY ReadoutFacts
  <1> QED BY <1>1, <1>2, <1>3

-----------------------------------------------------------------------------
(* The list of a screen.                                                   *)

RoomsKnown == rooms \in RoomLists \cup {<<>>}

LEMMA ElementOfSeq ==
    ASSUME NEW S, NEW q \in Seq(S), NEW n \in 1 .. Len(q)
    PROVE  q[n] \in S
  OBVIOUS

LEMMA RoomFacts ==
    ASSUME NEW rs \in RoomLists \cup {<<>>}
    PROVE  /\ Len(rs) \in Nat /\ DOMAIN rs = 1 .. Len(rs)
           /\ \A n \in DOMAIN rs : rs[n] \in 1 .. 999
  <1>1. rs \in Seq(1 .. 999)
    <2>1. CASE rs \in RoomLists BY <2>1, ControlsAssumption
    <2>2. CASE rs = <<>> BY <2>2
    <2> QED BY <2>1, <2>2
  <1>2. Len(rs) \in Nat /\ DOMAIN rs = 1 .. Len(rs) BY <1>1
  <1>3. ASSUME NEW n \in DOMAIN rs PROVE rs[n] \in 1 .. 999
    <2> DEFINE S == 1 .. 999
    <2>1. rs \in Seq(S) BY <1>1
    <2>2. n \in 1 .. Len(rs) BY <1>2
    <2> HIDE DEF S
    <2>3. rs[n] \in S BY <2>1, <2>2, ElementOfSeq
    <2> QED BY <2>3 DEF S
  <1> QED BY <1>2, <1>3

\* On the list of rooms every row is a link to one of the rooms.
RoomRow(c) == c.kind = "Link" /\ c.bind = "None" /\ c.key \in 1 .. 999

LEMMA Capped ==
    \A m \in Nat : LET n == IF m < kMaxControls THEN m ELSE kMaxControls
                  IN  n \in 0 .. kMaxControls /\ n <= m
  BY DEF kMaxControls

LEMMA ListFacts ==
    ASSUME NEW s \in Screens, NEW rs \in RoomLists \cup {<<>>}
    PROVE  LET l == BuildScreen(s, rs)
           IN  /\ Len(l) \in 0 .. kMaxControls /\ DOMAIN l = 1 .. Len(l)
               /\ s = "Rooms" => \A k \in DOMAIN l : RoomRow(l[k])
               /\ s = "Rooms" => \A k \in DOMAIN l : k \in DOMAIN rs /\ l[k].key = rs[k]
               /\ s # "Rooms" => \A k \in DOMAIN l : WellMade(l[k], s)
  <1>1. CASE s = "Rooms"
    <2> DEFINE n == IF Len(rs) < kMaxControls THEN Len(rs) ELSE kMaxControls
               l == BuildScreen(s, rs)
    <2>0. /\ Len(rs) \in Nat /\ DOMAIN rs = 1 .. Len(rs)
          /\ \A k \in DOMAIN rs : rs[k] \in 1 .. 999
      BY RoomFacts
    <2>1. n \in 0 .. kMaxControls /\ 1 .. n \subseteq DOMAIN rs
      <3>1. n \in 0 .. kMaxControls /\ n <= Len(rs) BY <2>0, Capped
      <3> HIDE DEF n
      <3>2. 1 .. n \subseteq 1 .. Len(rs) BY <2>0, <3>1 DEF kMaxControls
      <3> QED BY <2>0, <3>1, <3>2
    <2>2. l = [k \in 1 .. n |-> [kind |-> "Link", bind |-> "None", accel |-> "none", key |-> rs[k]]]
      BY <1>1 DEF BuildScreen
    <2> HIDE DEF n, l
    <2>3. DOMAIN l = 1 .. n /\ Len(l) = n BY <2>1, <2>2 DEF kMaxControls
    <2>4. ASSUME NEW k \in 1 .. n PROVE RoomRow(l[k]) /\ k \in DOMAIN rs /\ l[k].key = rs[k]
      <3>1. rs[k] \in 1 .. 999 BY <2>0, <2>1
      <3>2. k \in DOMAIN rs BY <2>1
      <3> QED BY <2>2, <3>1, <3>2 DEF RoomRow
    <2> QED BY <1>1, <2>1, <2>3, <2>4 DEF l
  <1>2. CASE s # "Rooms"
    <2>1. BuildScreen(s, rs) = Specs[s] BY <1>2 DEF BuildScreen
    <2>2. CASE s = "Home" BY <1>2, <2>1, <2>2, HomeRows DEF kMaxControls
    <2>3. CASE s = "Fog" BY <1>2, <2>1, <2>3, FogRows DEF kMaxControls
    <2>4. CASE s = "Climate" BY <1>2, <2>1, <2>4, ClimateRows DEF kMaxControls
    <2>5. CASE s \in {"Room", "Lichtwerk", "Yamaha", "Teufel", "Disco"}
      BY <1>2, <2>1, <2>5, PlainRows DEF kMaxControls
    <2> QED BY <1>2, <2>2, <2>3, <2>4, <2>5, ScreenNames
  <1> QED BY <1>1, <1>2

-----------------------------------------------------------------------------
(* The cursor and the window.                                              *)

\* A set of numbers has a least one.
LEMMA LeastFacts ==
    ASSUME NEW S \in SUBSET Nat, S # {}
    PROVE  (CHOOSE k \in S : \A j \in S : k <= j) \in S
  <1> DEFINE R == {ss \in Nat \X Nat : ss[1] < ss[2]}
  <1>1. IsWellFoundedOn(R, Nat) BY NatLessThanWellFounded, Zenon DEF OpToRel
  <1>2. PICK x \in S : \A y \in S : <<y, x>> \notin R
    <2> HIDE DEF R
    <2> QED BY <1>1, WFMin
  <1>3. ASSUME NEW y \in S PROVE x <= y
    <2>1. x \in Nat /\ y \in Nat OBVIOUS
    <2>2. y < x => <<y, x>> \in R BY <2>1
    <2> QED BY <1>2, <2>1, <2>2
  <1> QED BY <1>3

\* The cursor lands on a row that can be landed on, or stays, or there is none.
LEMMA CursorLands ==
    ASSUME NEW l, Len(l) \in Nat, NEW from \in Int, NEW dir \in {1, -1}
    PROVE  \/ NextSelectable(l, from, dir) = -1 /\ Len(l) = 0
           \/ NextSelectable(l, from, dir) = from
           \/ NextSelectable(l, from, dir) \in Selectable(l)
  <1> DEFINE n == Len(l)
             At(k) == (from + k * dir + 2 * n) % n
             hits == {k \in 1 .. n : At(k) \in Selectable(l)}
             first == CHOOSE k \in hits : \A j \in hits : k <= j
  <1>1. CASE n = 0 BY <1>1 DEF NextSelectable
  <1>2. CASE n # 0 /\ hits = {} BY <1>2 DEF NextSelectable
  <1>3. CASE n # 0 /\ hits # {}
    <2>1. NextSelectable(l, from, dir) = At(first) BY <1>3 DEF NextSelectable
    <2>2. hits \in SUBSET Nat OBVIOUS
    <2>3. first \in hits
      <3> HIDE DEF hits
      <3> QED BY <1>3, <2>2, LeastFacts
    <2> QED BY <2>1, <2>3
  <1> QED BY <1>1, <1>2, <1>3

\* firstVisible() in one: whatever the list, the window, the cursor and where
\* the window was, it starts where it may; with a row under the cursor it shows
\* that row; and no other place that does is nearer.
LEMMA WindowFacts ==
    ASSUME NEW l, Len(l) \in Nat, DOMAIN l = 1 .. Len(l), NEW rows \in Nat \ {0},
           NEW c \in Int, NEW from \in Int
    PROVE  LET w == FirstVisible(l, rows, c, from)
               good == {x \in Starts(l, rows) : c \in x .. x + rows - 1}
               Far(x) == IF x > from THEN x - from ELSE from - x
           IN  /\ w \in Starts(l, rows)
               /\ c + 1 \in DOMAIN l => w \in good /\ \A x \in good : Far(w) <= Far(x)
  <1> DEFINE n == Len(l)
             last == IF n > rows THEN n - rows ELSE 0
             up == IF c < from THEN c ELSE from
             down == IF c >= up + rows THEN c - rows + 1 ELSE up
             w == FirstVisible(l, rows, c, from)
             good == {x \in Starts(l, rows) : c \in x .. x + rows - 1}
             Far(x) == IF x > from THEN x - from ELSE from - x
  <1>1. w = IF down < 0 THEN 0 ELSE IF down > last THEN last ELSE down
    BY DEF FirstVisible, Clamp
  <1>2. Starts(l, rows) = 0 .. last BY DEF Starts
  <1>3. n \in Nat /\ last \in Nat /\ up \in Int /\ down \in Int /\ w \in Int BY <1>1
  <1>4. w \in Starts(l, rows) BY <1>1, <1>2, <1>3
  <1>5. ASSUME c + 1 \in DOMAIN l PROVE w \in good
    <2>1. c \in 0 .. n - 1 BY <1>5
    <2>2. c \in w .. w + rows - 1 BY <1>1, <1>3, <2>1
    <2> QED BY <1>4, <2>2
  <1>6. ASSUME c + 1 \in DOMAIN l, NEW x \in good PROVE Far(w) <= Far(x)
    <2>1. c \in 0 .. n - 1 BY <1>6
    <2>2. x \in 0 .. last /\ c \in x .. x + rows - 1 BY <1>2
    <2> QED BY <1>1, <1>3, <2>1, <2>2
  <1> QED BY <1>4, <1>5, <1>6

-----------------------------------------------------------------------------
(* What a row sends is a request.                                          *)

\* One contract, seen from two modules.
LEMMA SameNames ==
    /\ Ui!None = None /\ Ui!FogOn = FogOn /\ Ui!NoIntent = NoIntent
    /\ Ui!YamInputs = YamInputs /\ Ui!TfInputs = TfInputs
    /\ Ui!LwEffects = LwEffects /\ Ui!DiscoModes = DiscoModes
    /\ \A t, a, g : Ui!Intent(t, a, g) = Intent(t, a, g)
  BY DEF Ui!None, None, Ui!FogOn, FogOn, Ui!NoIntent, NoIntent, Ui!Intent, Intent,
         Ui!YamInputs, YamInputs, Ui!TfInputs, TfInputs, Ui!LwEffects, LwEffects,
         Ui!DiscoModes, DiscoModes

\* A request, and what is for the amplifier one of the amplifier's.
Fit(i) == Ui!Request(i) /\ (i.target = "tf" => Ui!TfRequest(i))

LEMMA IntentFacts ==
    ASSUME NEW t, NEW a, NEW g
    PROVE  /\ Intent(t, a, g).target = t /\ Intent(t, a, g).action = a
           /\ Intent(t, a, g).given = g
           /\ t # "fog" => Intent(t, a, g) # FogOn
           /\ t # "none" => Intent(t, a, g) # NoIntent
  BY DEF Intent, FogOn, NoIntent

LEMMA RoomRequests ==
    ASSUME NEW r \in 1 .. 999
    PROVE  /\ \A a \in {"on", "off"} : Fit(Intent("hue", a, [arg |-> r]))
           /\ \A b \in 1 .. 254 : Fit(Intent("hue", "bri", [arg |-> r, arg2 |-> b]))
  <1>1. ASSUME NEW a \in {"on", "off"} PROVE Fit(Intent("hue", a, [arg |-> r]))
    <2>1. Ui!HueRequest(Intent("hue", a, [arg |-> r])) BY SameNames DEF Ui!HueRequest
    <2> QED BY <2>1, IntentFacts DEF Fit, Ui!Request, Ui!PlainRequest
  <1>2. ASSUME NEW b \in 1 .. 254 PROVE Fit(Intent("hue", "bri", [arg |-> r, arg2 |-> b]))
    <2>1. Ui!HueRequest(Intent("hue", "bri", [arg |-> r, arg2 |-> b]))
      BY SameNames DEF Ui!HueRequest
    <2> QED BY <2>1, IntentFacts DEF Fit, Ui!Request, Ui!PlainRequest
  <1> QED BY <1>1, <1>2

LEMMA LwRequests ==
    /\ \A a \in {"on", "off"} : Fit(Intent("lw", a, None))
    /\ \A b \in 0 .. 255 : Fit(Intent("lw", "bri", [arg2 |-> b]))
    /\ \A name \in LwEffects : Fit(Intent("lw", "effect", [name |-> name]))
  <1>1. ASSUME NEW a \in {"on", "off"} PROVE Fit(Intent("lw", a, None))
    <2>1. Ui!LwRequest(Intent("lw", a, None)) BY SameNames DEF Ui!LwRequest
    <2> QED BY <2>1, IntentFacts DEF Fit, Ui!Request, Ui!PlainRequest
  <1>2. ASSUME NEW b \in 0 .. 255 PROVE Fit(Intent("lw", "bri", [arg2 |-> b]))
    <2>1. Ui!LwRequest(Intent("lw", "bri", [arg2 |-> b])) BY SameNames DEF Ui!LwRequest
    <2> QED BY <2>1, IntentFacts DEF Fit, Ui!Request, Ui!PlainRequest
  <1>3. ASSUME NEW name \in LwEffects PROVE Fit(Intent("lw", "effect", [name |-> name]))
    <2>1. Ui!LwRequest(Intent("lw", "effect", [name |-> name]))
      BY SameNames DEF Ui!LwRequest
    <2> QED BY <2>1, IntentFacts DEF Fit, Ui!Request, Ui!PlainRequest
  <1> QED BY <1>1, <1>2, <1>3

LEMMA YamRequests ==
    /\ \A a \in {"on", "off", "mute"} : Fit(Intent("yam", a, None))
    /\ \A step \in {2, -2} : Fit(Intent("yam", "vol", [arg |-> step]))
    /\ \A name \in YamInputs : Fit(Intent("yam", "input", [name |-> name]))
  <1>1. ASSUME NEW a \in {"on", "off", "mute"} PROVE Fit(Intent("yam", a, None))
    <2>1. Ui!YamRequest(Intent("yam", a, None)) BY SameNames DEF Ui!YamRequest
    <2> QED BY <2>1, IntentFacts DEF Fit, Ui!Request, Ui!PlainRequest
  <1>2. ASSUME NEW step \in {2, -2} PROVE Fit(Intent("yam", "vol", [arg |-> step]))
    <2>1. Ui!YamRequest(Intent("yam", "vol", [arg |-> step])) BY SameNames DEF Ui!YamRequest
    <2> QED BY <2>1, IntentFacts DEF Fit, Ui!Request, Ui!PlainRequest
  <1>3. ASSUME NEW name \in YamInputs PROVE Fit(Intent("yam", "input", [name |-> name]))
    <2>1. Ui!YamRequest(Intent("yam", "input", [name |-> name]))
      BY SameNames DEF Ui!YamRequest
    <2> QED BY <2>1, IntentFacts DEF Fit, Ui!Request, Ui!PlainRequest
  <1> QED BY <1>1, <1>2, <1>3

LEMMA TfRequests ==
    /\ \A a \in {"power", "mute"} : Fit(Intent("tf", a, None))
    /\ \A step \in {1, -1} : Fit(Intent("tf", "vol", [arg |-> step]))
    /\ \A name \in TfInputs : Fit(Intent("tf", "input", [name |-> name]))
  <1>1. ASSUME NEW a \in {"power", "mute"} PROVE Fit(Intent("tf", a, None))
    <2>1. Ui!TfRequest(Intent("tf", a, None)) BY SameNames DEF Ui!TfRequest
    <2> QED BY <2>1 DEF Fit, Ui!Request, Ui!PlainRequest
  <1>2. ASSUME NEW step \in {1, -1} PROVE Fit(Intent("tf", "vol", [arg |-> step]))
    <2>1. Ui!TfRequest(Intent("tf", "vol", [arg |-> step])) BY SameNames DEF Ui!TfRequest
    <2> QED BY <2>1 DEF Fit, Ui!Request, Ui!PlainRequest
  <1>3. ASSUME NEW name \in TfInputs PROVE Fit(Intent("tf", "input", [name |-> name]))
    <2>1. Ui!TfRequest(Intent("tf", "input", [name |-> name]))
      BY SameNames DEF Ui!TfRequest
    <2> QED BY <2>1 DEF Fit, Ui!Request, Ui!PlainRequest
  <1> QED BY <1>1, <1>2, <1>3

LEMMA DiscoAndFogRequests ==
    /\ \A a \in {"on", "off"} : Fit(Intent("disco", a, None))
    /\ \A name \in DiscoModes : Fit(Intent("disco", "mode", [name |-> name]))
    /\ Fit(Intent("fog", "off", None)) /\ Fit(FogOn)
  <1>1. ASSUME NEW a \in {"on", "off"} PROVE Fit(Intent("disco", a, None))
    <2>1. Ui!DiscoRequest(Intent("disco", a, None)) BY SameNames DEF Ui!DiscoRequest
    <2> QED BY <2>1, IntentFacts DEF Fit, Ui!Request, Ui!PlainRequest
  <1>2. ASSUME NEW name \in DiscoModes PROVE Fit(Intent("disco", "mode", [name |-> name]))
    <2>1. Ui!DiscoRequest(Intent("disco", "mode", [name |-> name]))
      BY SameNames DEF Ui!DiscoRequest
    <2> QED BY <2>1, IntentFacts DEF Fit, Ui!Request, Ui!PlainRequest
  <1>3. Fit(Intent("fog", "off", None))
    BY SameNames, IntentFacts DEF Fit, Ui!Request, Ui!PlainRequest
  <1>4. Fit(FogOn)
    <2>1. FogOn.target = "fog" BY DEF FogOn, Intent
    <2> QED BY <2>1, SameNames DEF Fit, Ui!Request
  <1> QED BY <1>1, <1>2, <1>3, <1>4

-----------------------------------------------------------------------------
(* What a key on a row sends.                                              *)

\* A key sends nothing, or a request by the path that is set for it.
RowSends ==
    \/ sent' = NothingSent
    \/ \E i, v : /\ Fit(i) /\ ir' = ir
                 /\ sent' = [intent |-> i, value |-> v,
                             path |-> IF ir /\ i.target = "tf" THEN "ir" ELSE "net"]

\* A key on a row that stays where it is.
Stays == UNCHANGED <<where, pending>>

LEMMA SendIsFit ==
    ASSUME NEW i, NEW blind, NEW v, Send(i, blind, v), Fit(i), blind <=> i.target = "tf"
    PROVE  RowSends /\ Stays /\ ir' = ir
  <1>1. /\ sent' = [intent |-> i, path |-> IF ir /\ blind THEN "ir" ELSE "net", value |-> v]
        /\ Stays /\ ir' = ir
    BY DEF Send, Stays
  <1>2. (ir /\ blind) <=> (ir /\ i.target = "tf") OBVIOUS
  <1>3. sent' = [intent |-> i, value |-> v,
                 path |-> IF ir /\ i.target = "tf" THEN "ir" ELSE "net"]
    BY <1>1, <1>2
  <1> QED BY <1>1, <1>3 DEF RowSends

LEMMA NothingIsSent ==
    ASSUME Nothing
    PROVE  RowSends /\ Stays /\ ir' = ir
  BY DEF Nothing, RowSends, Stays

\* The room a row acts on.
RoomHere == roomId \in 1 .. 999

LEMMA OnOffFits ==
    ASSUME NEW v
    PROVE  /\ RoomHere => Fit(OnOff("hue", v, [arg |-> roomId]))
           /\ Fit(OnOff("lw", v, None)) /\ Fit(OnOff("yam", v, None))
           /\ Fit(OnOff("disco", v, None)) /\ Fit(OnOff("fog", v, None))
           /\ \A t, g : OnOff(t, v, g).target = t
  <1> DEFINE a == IF v = 1 THEN "off" ELSE "on"
  <1>1. a \in {"on", "off"} OBVIOUS
  <1>2. \A t, g : OnOff(t, v, g) = Intent(t, a, g) BY DEF OnOff
  <1>3. Fit(Intent("fog", a, None))
    <2>1. FogOn = Intent("fog", "on", None) BY DEF FogOn
    <2> QED BY <2>1, DiscoAndFogRequests
  <1> HIDE DEF a
  <1>4. RoomHere => Fit(Intent("hue", a, [arg |-> roomId])) BY <1>1, RoomRequests DEF RoomHere
  <1>5. Fit(Intent("lw", a, None)) BY <1>1, LwRequests
  <1>6. Fit(Intent("yam", a, None)) BY <1>1, YamRequests
  <1>7. Fit(Intent("disco", a, None)) BY <1>1, DiscoAndFogRequests
  <1>8. \A t, g : Intent(t, a, g).target = t BY IntentFacts
  <1> QED BY <1>2, <1>3, <1>4, <1>5, <1>6, <1>7, <1>8

LEMMA FlipFits ==
    ASSUME NEW c, c.bind \in ToggleBinds, c.bind = "RoomOn" => RoomHere, NEW v
    PROVE  Fit(Flip(c, v)) /\ (ActivateBlind(c) <=> Flip(c, v).target = "tf")
  <1> DEFINE Goal == Fit(Flip(c, v)) /\ (ActivateBlind(c) <=> Flip(c, v).target = "tf")
  <1>1. CASE c.bind = "RoomOn"
    <2>1. Flip(c, v) = OnOff("hue", v, [arg |-> roomId]) BY <1>1 DEF Flip
    <2> QED BY <1>1, <2>1, OnOffFits DEF ActivateBlind
  <1>2. CASE c.bind = "LwOn"
    <2>1. Flip(c, v) = OnOff("lw", v, None) BY <1>2 DEF Flip
    <2> QED BY <1>2, <2>1, OnOffFits DEF ActivateBlind
  <1>3. CASE c.bind = "YamOn"
    <2>1. Flip(c, v) = OnOff("yam", v, None) BY <1>3 DEF Flip
    <2> QED BY <1>3, <2>1, OnOffFits DEF ActivateBlind
  <1>4. CASE c.bind = "DiscoOn"
    <2>1. Flip(c, v) = OnOff("disco", v, None) BY <1>4 DEF Flip
    <2> QED BY <1>4, <2>1, OnOffFits DEF ActivateBlind
  <1>5. CASE c.bind = "FogOn"
    <2>1. Flip(c, v) = OnOff("fog", v, None) BY <1>5 DEF Flip
    <2> QED BY <1>5, <2>1, OnOffFits DEF ActivateBlind
  <1>6. CASE c.bind = "YamMute"
    <2>1. Flip(c, v) = Intent("yam", "mute", None) BY <1>6 DEF Flip
    <2> QED BY <1>6, <2>1, YamRequests, IntentFacts DEF ActivateBlind
  <1>7. CASE c.bind = "TfOn"
    <2>1. Flip(c, v) = Intent("tf", "power", None) BY <1>7 DEF Flip
    <2> QED BY <1>7, <2>1, TfRequests, IntentFacts DEF ActivateBlind
  <1>8. CASE c.bind = "TfMute"
    <2>1. Flip(c, v) = Intent("tf", "mute", None) BY <1>8 DEF Flip
    <2> QED BY <1>8, <2>1, TfRequests, IntentFacts DEF ActivateBlind
  <1> QED BY <1>1, <1>2, <1>3, <1>4, <1>5, <1>6, <1>7, <1>8 DEF ToggleBinds

\* What a Choice steps through.
LEMMA ChoiceFacts ==
    ASSUME NEW b \in DOMAIN Choices
    PROVE  LET ch == Choices[b]
           IN  /\ Len(ch.list) \in Nat \ {0} /\ DOMAIN ch.list = 1 .. Len(ch.list)
               /\ \A k \in DOMAIN ch.list :
                     Fit(Intent(ch.target, ch.action, [name |-> ch.list[k]]))
               /\ b = "TfInput" <=> ch.target = "tf"
  <1>1. CASE b = "LwEffect"
    <2>1. /\ Choices[b].list = kLwEffects /\ Choices[b].target = "lw"
          /\ Choices[b].action = "effect"
      BY <1>1 DEF Choices
    <2>2. Len(kLwEffects) = 13 /\ DOMAIN kLwEffects = 1 .. 13 BY DEF kLwEffects
    <2>3. \A k \in 1 .. 13 : kLwEffects[k] \in LwEffects BY DEF kLwEffects, LwEffects
    <2> QED BY <1>1, <2>1, <2>2, <2>3, LwRequests
  <1>2. CASE b = "YamInput"
    <2>1. /\ Choices[b].list = kYamahaInputs /\ Choices[b].target = "yam"
          /\ Choices[b].action = "input"
      BY <1>2 DEF Choices
    <2>2. Len(kYamahaInputs) = 8 /\ DOMAIN kYamahaInputs = 1 .. 8 BY DEF kYamahaInputs
    <2>3. \A k \in 1 .. 8 : kYamahaInputs[k] \in YamInputs
      <3> DEFINE Stepped == {"Spotify", "AirPlay", "HDMI1", "HDMI2", "HDMI3", "AV1", "TUNER",
                             "AUX"}
      <3>1. \A k \in 1 .. 8 : kYamahaInputs[k] \in Stepped BY DEF kYamahaInputs
      <3>2. Stepped \subseteq YamInputs BY Zenon DEF YamInputs
      <3> QED BY <3>1, <3>2
    <2> QED BY <1>2, <2>1, <2>2, <2>3, YamRequests
  <1>3. CASE b = "TfInput"
    <2>1. /\ Choices[b].list = kTeufelInputs /\ Choices[b].target = "tf"
          /\ Choices[b].action = "input"
      BY <1>3 DEF Choices
    <2>2. Len(kTeufelInputs) = 5 /\ DOMAIN kTeufelInputs = 1 .. 5 BY DEF kTeufelInputs
    <2>3. \A k \in 1 .. 5 : kTeufelInputs[k] \in TfInputs BY DEF kTeufelInputs, TfInputs
    <2> QED BY <1>3, <2>1, <2>2, <2>3, TfRequests
  <1>4. CASE b = "DiscoMode"
    <2>1. /\ Choices[b].list = kDiscoModes /\ Choices[b].target = "disco"
          /\ Choices[b].action = "mode"
      BY <1>4 DEF Choices
    <2>2. Len(kDiscoModes) = 6 /\ DOMAIN kDiscoModes = 1 .. 6 BY DEF kDiscoModes
    <2>3. \A k \in 1 .. 6 : kDiscoModes[k] \in DiscoModes BY DEF kDiscoModes, DiscoModes
    <2> QED BY <1>4, <2>1, <2>2, <2>3, DiscoAndFogRequests
  <1> QED BY <1>1, <1>2, <1>3, <1>4, ChoiceNames

LEMMA ChoiceSends ==
    ASSUME NEW c, c.bind \in DOMAIN Choices, NEW v \in DOMAIN Choices[c.bind].list,
           NEW dir \in {1, -1}, Choice(c, v, dir)
    PROVE  RowSends /\ Stays /\ ir' = ir
  <1> DEFINE ch == Choices[c.bind]
             n == Len(ch.list)
             k == ((v - 1 + dir + n) % n) + 1
             i == Intent(ch.target, ch.action, [name |-> ch.list[k]])
  <1>1. n \in Nat \ {0} /\ DOMAIN ch.list = 1 .. n BY ChoiceFacts
  <1>2. (v - 1 + dir + n) \in Int BY <1>1
  <1>3. (v - 1 + dir + n) % n \in 0 .. n - 1
    <2>1. \A x \in Int, m \in Nat \ {0} : x % m \in 0 .. m - 1 OBVIOUS
    <2> HIDE DEF n
    <2> QED BY <1>1, <1>2, <2>1
  <1>4. k \in DOMAIN ch.list BY <1>1, <1>3
  <1>5. Fit(i) BY <1>4, ChoiceFacts
  <1>6. AdjustBlind(c) <=> i.target = "tf"
    <2>1. i.target = ch.target BY IntentFacts
    <2>2. c.bind = "TfInput" <=> ch.target = "tf" BY ChoiceFacts
    <2>3. c.bind # "TfVol" BY ChoiceNames
    <2> QED BY <2>1, <2>2, <2>3 DEF AdjustBlind
  <1>7. Send(i, AdjustBlind(c), v) BY DEF Choice
  <1> HIDE DEF i
  <1> QED BY <1>5, <1>6, <1>7, SendIsFit

LEMMA ClampFacts ==
    \A v \in Int : Clamp(v, 1, 254) \in 1 .. 254 /\ Clamp(v, 0, 255) \in 0 .. 255
  BY DEF Clamp

LEMMA RoomBrightnessFits ==
    ASSUME NEW id \in 1 .. 999, NEW v \in Int, NEW delta \in Int
    PROVE  Fit(RoomBrightness(id, v, delta)) /\ RoomBrightness(id, v, delta).target = "hue"
  <1> DEFINE b == Clamp(v + delta, 1, 254)
             i == Intent("hue", "bri", [arg |-> id, arg2 |-> b])
  <1>1. b \in 1 .. 254
    <2>1. v + delta \in Int OBVIOUS
    <2> QED BY <2>1, ClampFacts
  <1>2. RoomBrightness(id, v, delta) = i BY DEF RoomBrightness
  <1> HIDE DEF b
  <1>3. Fit(i) BY <1>1, RoomRequests
  <1>4. i.target = "hue" BY IntentFacts
  <1> QED BY <1>2, <1>3, <1>4

LEMMA LevelSends ==
    ASSUME NEW c, c.bind \in LevelBinds, c.bind = "RoomBri" => RoomHere,
           NEW v \in Int, NEW dir \in {1, -1}, Level(c, v, dir)
    PROVE  RowSends /\ Stays /\ ir' = ir
  <1>1. CASE c.bind = "RoomBri"
    <2>1. Bounds[c.bind].step = 30 BY <1>1 DEF Bounds
    <2>2. Send(RoomBrightness(roomId, v, dir * 30), FALSE, v) BY <1>1, <2>1 DEF Level
    <2>3. dir * 30 \in Int OBVIOUS
    <2>4. /\ Fit(RoomBrightness(roomId, v, dir * 30))
          /\ RoomBrightness(roomId, v, dir * 30).target = "hue"
      BY <1>1, <2>3, RoomBrightnessFits DEF RoomHere
    <2> QED BY <2>2, <2>4, SendIsFit
  <1>2. CASE c.bind = "LwBri"
    <2> DEFINE next == Clamp(v + dir * 32, 0, 255)
    <2>1. /\ Bounds[c.bind].step = 32 /\ Bounds[c.bind].min = 0
          /\ Bounds[c.bind].max = 255
      BY <1>2 DEF Bounds
    <2>2. Send(Intent("lw", "bri", [arg2 |-> next]), FALSE, v) BY <1>2, <2>1 DEF Level
    <2>3. next \in 0 .. 255
      <3>1. v + dir * 32 \in Int OBVIOUS
      <3> QED BY <3>1, ClampFacts
    <2>4. Fit(Intent("lw", "bri", [arg2 |-> next])) BY <2>3, LwRequests
    <2>5. Intent("lw", "bri", [arg2 |-> next]).target = "lw" BY IntentFacts
    <2> QED BY <2>2, <2>4, <2>5, SendIsFit
  <1>3. CASE c.bind = "YamVol"
    <2> DEFINE i == Intent("yam", "vol", [arg |-> dir * 2])
    <2>1. Send(i, FALSE, v) \/ Nothing BY <1>3 DEF Level
    <2>2. Fit(i)
      <3>1. dir * 2 \in {2, -2} OBVIOUS
      <3> QED BY <3>1, YamRequests
    <2>3. i.target = "yam" BY IntentFacts
    <2> HIDE DEF i
    <2> QED BY <2>1, <2>2, <2>3, SendIsFit, NothingIsSent
  <1>4. CASE c.bind = "TfVol"
    <2> DEFINE i == Intent("tf", "vol", [arg |-> dir])
    <2>1. Send(i, AdjustBlind(c), v) \/ Nothing BY <1>4 DEF Level
    <2>2. Fit(i) BY TfRequests
    <2>3. i.target = "tf" BY IntentFacts
    <2>4. AdjustBlind(c) BY <1>4 DEF AdjustBlind
    <2> HIDE DEF i
    <2>5. CASE Send(i, AdjustBlind(c), v) BY <2>2, <2>3, <2>4, <2>5, SendIsFit
    <2> QED BY <2>1, <2>5, NothingIsSent
  <1> QED BY <1>1, <1>2, <1>3, <1>4 DEF LevelBinds

\* Asking first, and going to the screen behind a row.
Asks  == pending' = FogOn /\ UNCHANGED where
Opens == /\ screen' \in Screens \ {screen} /\ roomId' \in Nat
         /\ cursor' = 0 /\ scroll' = 0 /\ pending' = pending

RowDone == RowSends /\ ir' \in BOOLEAN /\ (Stays \/ Asks \/ Opens)

LEMMA RowHere ==
    ASSUME TypeOK, NEW k \in DOMAIN List
    PROVE  IF screen = "Rooms"
           THEN RoomRow(List[k]) /\ k \in DOMAIN rooms /\ List[k].key = rooms[k]
           ELSE WellMade(List[k], screen)
  BY ListFacts DEF TypeOK, List

\* A row of a room that is not on the list refuses.
LEMMA EnabledRoom ==
    ASSUME TypeOK, NEW c, NEW w, Enabled(c, w), c.bind \in {"RoomOn", "RoomBri"}
    PROVE  RoomHere
  <1>1. PICK k \in DOMAIN rooms : rooms[k] = roomId BY DEF Enabled
  <1> QED BY <1>1, RoomFacts DEF TypeOK, RoomHere

LEMMA ToggleSends ==
    ASSUME TypeOK, NEW c, c.bind \in ToggleBinds, NEW w, Enabled(c, w), NEW v,
           ActivateToggle(c, v)
    PROVE  RowDone
  <1>1. CASE Flip(c, v) = FogOn
    BY <1>1 DEF ActivateToggle, RowDone, RowSends, Asks, TypeOK
  <1>2. CASE Flip(c, v) # FogOn
    <2>1. Send(Flip(c, v), ActivateBlind(c), v) BY <1>2 DEF ActivateToggle
    <2>2. c.bind = "RoomOn" => RoomHere BY EnabledRoom
    <2>3. Fit(Flip(c, v)) /\ (ActivateBlind(c) <=> Flip(c, v).target = "tf") BY <2>2, FlipFits
    <2>4. RowSends /\ Stays /\ ir' = ir BY <2>1, <2>3, SendIsFit
    <2> QED BY <2>4 DEF RowDone, TypeOK
  <1> QED BY <1>1, <1>2

LEMMA NothingIsDone ==
    ASSUME TypeOK, Nothing
    PROVE  RowDone
  BY NothingIsSent DEF RowDone, TypeOK

LEMMA OpenLinkOpens ==
    ASSUME TypeOK, NEW k \in DOMAIN List, List[k].kind = "Link", OpenLink(List[k])
    PROVE  RowDone
  <1>1. RowSends /\ ir' \in BOOLEAN BY DEF OpenLink, RowSends, TypeOK
  <1>2. CASE screen = "Rooms"
    <2>1. List[k].key \in 1 .. 999 BY <1>2, RowHere DEF RoomRow
    <2>2. "Room" \in Screens \ {"Rooms"} BY ScreenNames
    <2> QED BY <1>1, <1>2, <2>1, <2>2 DEF OpenLink, Opens, RowDone
  <1>3. CASE screen # "Rooms"
    <2>1. List[k].bind \in Screens \ {screen} BY <1>3, RowHere DEF WellMade
    <2> QED BY <1>1, <1>3, <2>1 DEF OpenLink, Opens, RowDone, TypeOK
  <1> QED BY <1>2, <1>3

\* The whole of activate().
LEMMA ActivateDone ==
    ASSUME TypeOK, NEW k \in DOMAIN List, NEW v, NEW w, Activate(List[k], v, w)
    PROVE  RowDone
  <1>1. CASE List[k].kind = "Toggle" /\ Enabled(List[k], w) /\ ActivateToggle(List[k], v)
    <2>1. List[k].bind \in ToggleBinds BY <1>1, RowHere DEF RoomRow, WellMade
    <2> QED BY <1>1, <2>1, ToggleSends
  <1>2. CASE List[k].kind = "Link" /\ OpenLink(List[k]) BY <1>2, OpenLinkOpens
  <1>3. CASE Nothing BY <1>3, NothingIsDone
  <1> QED BY <1>1, <1>2, <1>3 DEF Activate

LEMMA ValueFacts ==
    ASSUME TypeOK, NEW k \in DOMAIN List, NEW v \in Values(List[k])
    PROVE  /\ List[k].kind = "Level" => v \in Int
           /\ List[k].kind = "Choice" /\ List[k].bind # "TfPath" =>
                 List[k].bind \in DOMAIN Choices /\ v \in DOMAIN Choices[List[k].bind].list
           /\ List[k].kind = "Link" /\ screen = "Rooms" => v \in Int
  <1> DEFINE c == List[k]
  <1>1. Bris \subseteq Int /\ Raws \subseteq Int /\ Volumes \subseteq Int
    BY ControlsAssumption
  <1>2. ASSUME c.kind = "Level" PROVE v \in Int
    <2>1. c.bind \in LevelBinds BY <1>2, RowHere DEF RoomRow, WellMade
    <2> QED BY <1>1, <1>2, <2>1 DEF Values, LevelBinds
  <1>3. ASSUME c.kind = "Choice", c.bind # "TfPath"
        PROVE  c.bind \in DOMAIN Choices /\ v \in DOMAIN Choices[c.bind].list
    <2>1. c.bind \in DOMAIN Choices BY <1>3, RowHere DEF RoomRow, WellMade
    <2> QED BY <1>3, <2>1, ChoiceNames DEF Values
  <1>4. ASSUME c.kind = "Link", screen = "Rooms" PROVE v \in Int
    <2>1. c.bind = "None" BY <1>4, RowHere DEF RoomRow
    <2> QED BY <1>1, <1>4, <2>1 DEF Values
  <1> QED BY <1>2, <1>3, <1>4

\* The whole of adjust().
LEMMA AdjustDone ==
    ASSUME TypeOK, NEW k \in DOMAIN List, NEW v \in Values(List[k]), NEW w,
           NEW dir \in {1, -1}, Adjust(List[k], v, dir, w)
    PROVE  RowDone
  <1> DEFINE c == List[k]
  <1>1. CASE Activate(c, v, w) BY <1>1, ActivateDone
  <1>2. CASE c.kind = "Link" /\ screen = "Rooms" /\ Send(RoomBrightness(c.key, v, dir * 30), FALSE, v)
    <2>1. c.key \in 1 .. 999 BY <1>2, RowHere DEF RoomRow
    <2>2. v \in Int BY <1>2, ValueFacts
    <2>3. dir * 30 \in Int OBVIOUS
    <2>4. /\ Fit(RoomBrightness(c.key, v, dir * 30))
          /\ RoomBrightness(c.key, v, dir * 30).target = "hue"
      BY <2>1, <2>2, <2>3, RoomBrightnessFits
    <2>5. RowSends /\ Stays /\ ir' = ir BY <1>2, <2>4, SendIsFit
    <2> QED BY <2>5 DEF RowDone, TypeOK
  <1>3. CASE c.kind = "Level" /\ Enabled(c, w) /\ Level(c, v, dir)
    <2>1. c.bind \in LevelBinds BY <1>3, RowHere DEF RoomRow, WellMade
    <2>2. v \in Int BY <1>3, ValueFacts
    <2>3. c.bind = "RoomBri" => RoomHere BY <1>3, EnabledRoom
    <2>4. RowSends /\ Stays /\ ir' = ir BY <1>3, <2>1, <2>2, <2>3, LevelSends
    <2> QED BY <2>4 DEF RowDone, TypeOK
  <1>4. CASE SwitchPath
    BY <1>4 DEF SwitchPath, RowDone, RowSends, Stays, TypeOK
  <1>5. CASE c.kind = "Choice" /\ c.bind # "TfPath" /\ Choice(c, v, dir)
    <2>1. c.bind \in DOMAIN Choices /\ v \in DOMAIN Choices[c.bind].list
      BY <1>5, ValueFacts
    <2>2. RowSends /\ Stays /\ ir' = ir BY <1>5, <2>1, ChoiceSends
    <2> QED BY <2>2 DEF RowDone, TypeOK
  <1>6. CASE Nothing BY <1>6, NothingIsDone
  <1> QED BY <1>1, <1>2, <1>3, <1>4, <1>5, <1>6 DEF Adjust

-----------------------------------------------------------------------------
(* The contract, for what a row sends.                                     *)

LEMMA SamePlan == \A i, s : Ui!Plan(i, s) = Plan(i, s)
  BY DEF None, Ui!None, Only, Ui!Only, Intent, Ui!Intent, FogOn, Ui!FogOn, YamInputs,
         Ui!YamInputs, TfInputs, Ui!TfInputs, LwEffects, Ui!LwEffects, DiscoModes,
         Ui!DiscoModes, VolMin, Ui!VolMin, VolMax, Ui!VolMax, Clamp, Ui!Clamp, Body,
         Ui!Body, Take, Ui!Take, Turn, Ui!Turn, InRange, Ui!InRange, Switch, Ui!Switch,
         Named, Ui!Named, Relative, Ui!Relative, Hue, Ui!Hue, Lichtwerk, Ui!Lichtwerk,
         Yamaha, Ui!Yamaha, Teufel, Ui!Teufel, Fog, Ui!Fog, Disco, Ui!Disco, Macro,
         Ui!Macro, Plan, Ui!Plan

LEMMA SameClaim ==
    /\ \A i, s : Ui!Claim(i, s) = Claim(i, s)
    /\ \A i, s : Ui!Infrared(i, s) = Infrared(i, s)
  BY DEF Only, Ui!Only, None, Ui!None, SwitchField, Ui!SwitchField, NameField,
         Ui!NameField, Claim, Ui!Claim, Clamp, Ui!Clamp, Infrared, Ui!Infrared

LEMMA SameJudgement ==
    /\ \A c, e : Ui!Agree(c, e) = Agree(c, e)
    /\ \A i : Ui!Needs(i) = Needs(i)
    /\ \A i, s : Ui!AtVolumeLimit(i, s) <=> AtVolumeLimit(i, s)
  BY DEF Agree, Ui!Agree, SwitchField, Ui!SwitchField, Needs, Ui!Needs, VolMin,
         Ui!VolMin, VolMax, Ui!VolMax, AtVolumeLimit, Ui!AtVolumeLimit

-----------------------------------------------------------------------------
(* The inductive invariant.                                                *)

\* What was sent is a request, by infrared only to the amplifier.
SentIsRequest ==
    /\ sent.intent = NoIntent \/ Ui!Request(sent.intent)
    /\ sent.path = "ir" => Ui!TfRequest(sent.intent)

LEMMA ContractHolds == SentIsRequest => RowsAgree
  <1> SUFFICES ASSUME SentIsRequest, sent.intent # NoIntent PROVE RowsAgree
    BY DEF RowsAgree
  <1>1. Ui!UiAssumption BY ControlsAssumption DEF Ui!UiAssumption
  <1>2. Ui!SentIsRequest BY SameNames DEF SentIsRequest, Ui!SentIsRequest
  <1>3. Ui!TakenByGateway /\ Ui!ClaimIsWhatIsAsked BY <1>1, <1>2, Ui!ContractHolds
  <1>4. ASSUME sent.path = "net", NEW s \in House
        PROVE  Plan(sent.intent, s).status = IF Needs(sent.intent) \subseteq DOMAIN s
                                             THEN 200 ELSE 409
    <2>1. Ui!Plan(sent.intent, s).status = IF Ui!Needs(sent.intent) \subseteq DOMAIN s
                                           THEN 200 ELSE 409
      BY <1>3, <1>4, SameNames DEF Ui!TakenByGateway
    <2> QED BY <2>1, SamePlan, SameJudgement
  <1>5. ASSUME NEW s \in Complete
        PROVE  \/ AtVolumeLimit(sent.intent, s) \/ InputByInfrared
               \/ Agree(Claim(sent.intent, s), Asked(s))
    <2>1. s \in Ui!Complete BY DEF Complete, Ui!Complete
    <2>2. \/ Ui!AtVolumeLimit(sent.intent, s) \/ Ui!InputByInfrared
          \/ Ui!Agree(Ui!Claim(sent.intent, s), Ui!Asked(s))
      BY <1>3, <2>1, SameNames DEF Ui!ClaimIsWhatIsAsked
    <2>3. Ui!InputByInfrared <=> InputByInfrared BY DEF Ui!InputByInfrared, InputByInfrared
    <2>4. Ui!Asked(s) = Asked(s) BY SamePlan, SameClaim DEF Ui!Asked, Asked
    <2> QED BY <2>2, <2>3, <2>4, SameClaim, SameJudgement
  <1> QED BY <1>4, <1>5 DEF RowsAgree

\* A window starts where it may on the list and, if the cursor is on a row,
\* shows it.
InWindow(l, rows, c, w) ==
    w \in Starts(l, rows) /\ (c + 1 \in DOMAIN l => c \in w .. w + rows - 1)

InSight == InWindow(List, VisibleRows(screen), cursor, scroll)

IInv == TypeOK /\ SentIsRequest /\ OnePath /\ InSight

\* What a step leaves in sent.
SentOK == SentIsRequest /\ OnePath /\ sent.path \in {"net", "ir"}

LEMMA NothingIsOK ==
    ASSUME sent' = NothingSent
    PROVE  SentOK'
  <1>1. sent'.intent = NoIntent /\ sent'.path = "net" BY DEF NothingSent
  <1>2. sent'.intent.target # "tf" BY <1>1 DEF NoIntent, Intent
  <1> QED BY <1>1, <1>2 DEF SentOK, SentIsRequest, OnePath

LEMMA RowSendsOK ==
    ASSUME RowSends
    PROVE  SentOK'
  <1>1. CASE sent' = NothingSent BY <1>1, NothingIsOK
  <1>2. CASE \E i, v : /\ Fit(i) /\ ir' = ir
                       /\ sent' = [intent |-> i, value |-> v,
                                   path |-> IF ir /\ i.target = "tf" THEN "ir" ELSE "net"]
    <2>1. PICK i, v : /\ Fit(i) /\ ir' = ir
                      /\ sent' = [intent |-> i, value |-> v,
                                  path |-> IF ir /\ i.target = "tf" THEN "ir" ELSE "net"]
      BY <1>2
    <2>2. /\ sent'.intent = i
          /\ sent'.path = IF ir /\ i.target = "tf" THEN "ir" ELSE "net"
      BY <2>1
    <2> QED BY <2>1, <2>2 DEF SentOK, SentIsRequest, OnePath, Fit
  <1> QED BY <1>1, <1>2 DEF RowSends

LEMMA AnswerOK ==
    ASSUME TypeOK, Answer
    PROVE  SentOK'
  <1>1. CASE sent' = NothingSent BY <1>1, NothingIsOK
  <1>2. CASE sent' = [NothingSent EXCEPT !.intent = pending]
    <2>1. pending = FogOn BY DEF Answer, Calm, TypeOK
    <2>2. sent'.intent = FogOn /\ sent'.path = "net" BY <1>2, <2>1 DEF NothingSent
    <2>3. FogOn.target # "tf" BY DEF FogOn, Intent
    <2> QED BY <2>2, <2>3, DiscoAndFogRequests DEF SentOK, SentIsRequest, OnePath, Fit
  <1> QED BY <1>1, <1>2 DEF Answer

\* How many rows a window has, and how far down it can start.
LEMMA SomeRows == \A s : VisibleRows(s) \in {7, 8}
  BY DEF VisibleRows

LEMMA ListTyped ==
    ASSUME NEW s \in Screens, NEW rs \in RoomLists \cup {<<>>}
    PROVE  LET l == BuildScreen(s, rs)
           IN  /\ Len(l) \in 0 .. kMaxControls /\ DOMAIN l = 1 .. Len(l)
               /\ Starts(l, VisibleRows(s)) \subseteq 0 .. kMaxControls - 1
               /\ InWindow(l, VisibleRows(s), 0, 0)
  <1> DEFINE l == BuildScreen(s, rs)
  <1>1. Len(l) \in 0 .. kMaxControls /\ DOMAIN l = 1 .. Len(l) BY ListFacts
  <1>2. VisibleRows(s) \in {7, 8} BY SomeRows
  <1> HIDE DEF l
  <1>3. Starts(l, VisibleRows(s)) \subseteq 0 .. kMaxControls - 1
    <2>1. \A m \in 0 .. kMaxControls, r \in {7, 8} :
             0 .. (IF m > r THEN m - r ELSE 0) \subseteq 0 .. kMaxControls - 1
      BY DEF kMaxControls
    <2> QED BY <1>1, <1>2, <2>1 DEF Starts
  <1>4. InWindow(l, VisibleRows(s), 0, 0) BY <1>1, <1>2 DEF InWindow, Starts, kMaxControls
  <1> QED BY <1>1, <1>3, <1>4 DEF l

\* A change that passes through firstVisible().
LEMMA WindowKept ==
    ASSUME TypeOK, screen' = screen, rooms' \in RoomLists \cup {<<>>}, cursor' \in Int,
           scroll' = FirstVisible(List', VisibleRows(screen), cursor', scroll)
    PROVE  /\ InSight' /\ scroll' \in 0 .. kMaxControls - 1
           /\ LET good == {w \in Starts(List', VisibleRows(screen)) :
                              cursor' \in w .. w + VisibleRows(screen) - 1}
                  Far(w) == IF w > scroll THEN w - scroll ELSE scroll - w
              IN  cursor' + 1 \in DOMAIN List' =>
                     scroll' \in good /\ \A w \in good : Far(scroll') <= Far(w)
  <1> DEFINE l == List'
             rows == VisibleRows(screen)
             good == {w \in Starts(l, rows) : cursor' \in w .. w + rows - 1}
             Far(w) == IF w > scroll THEN w - scroll ELSE scroll - w
  <1>1. l = BuildScreen(screen, rooms') BY DEF List
  <1>2. /\ Len(l) \in 0 .. kMaxControls /\ DOMAIN l = 1 .. Len(l)
        /\ Starts(l, rows) \subseteq 0 .. kMaxControls - 1
    BY <1>1, ListTyped DEF TypeOK
  <1>3. rows \in Nat \ {0} BY SomeRows
  <1>4. scroll \in Int /\ Len(l) \in Nat BY <1>2 DEF TypeOK, kMaxControls
  <1> HIDE DEF l, rows
  <1>5. /\ scroll' \in Starts(l, rows)
        /\ cursor' + 1 \in DOMAIN l => scroll' \in good /\ \A w \in good : Far(scroll') <= Far(w)
    BY <1>2, <1>3, <1>4, WindowFacts DEF l, rows
  <1>6. InWindow(l, rows, cursor', scroll') BY <1>5 DEF InWindow
  <1>7. InSight' BY <1>6 DEF InSight, l, rows
  <1> QED BY <1>2, <1>5, <1>7 DEF l, rows

\* A step that leaves list, cursor and window alone.
LEMMA StaysInSight ==
    ASSUME InSight, UNCHANGED <<where, rooms>>
    PROVE  InSight'
  BY DEF InSight, InWindow, List, where

\* A step to the top of the list of a screen.
LEMMA TopInSight ==
    ASSUME screen' \in Screens, rooms' \in RoomLists \cup {<<>>}, cursor' = 0, scroll' = 0
    PROVE  InSight'
  BY ListTyped DEF InSight, List

LEMMA MoveTyped ==
    ASSUME TypeOK, NEW dir \in {1, -1}
    PROVE  NextSelectable(List, cursor, dir) \in -1 .. kMaxControls - 1
  <1>1. Len(List) \in 0 .. kMaxControls BY ListFacts DEF List, TypeOK
  <1>2. cursor \in -1 .. kMaxControls - 1 BY DEF TypeOK
  <1>3. Len(List) \in Nat /\ cursor \in Int BY <1>1, <1>2 DEF kMaxControls
  <1>4. \/ NextSelectable(List, cursor, dir) \in {-1, cursor}
        \/ NextSelectable(List, cursor, dir) \in Selectable(List)
    BY <1>3, CursorLands
  <1>5. Selectable(List) \subseteq 0 .. kMaxControls - 1
    <2>1. \A m \in 0 .. kMaxControls : 0 .. m - 1 \subseteq 0 .. kMaxControls - 1
      BY DEF kMaxControls
    <2>2. Selectable(List) \subseteq 0 .. Len(List) - 1 BY DEF Selectable
    <2> QED BY <1>1, <2>1, <2>2
  <1> QED BY <1>2, <1>4, <1>5 DEF kMaxControls

-----------------------------------------------------------------------------
(* The invariant is inductive, and what a step may do.                     *)

\* One step, as WindowFollows sees it.
Follows ==
    LET l == BuildScreen(screen', rooms')
        rows == VisibleRows(screen')
        good == {w \in Starts(l, rows) : cursor' \in w .. w + rows - 1}
        Far(w) == IF w > scroll THEN w - scroll ELSE scroll - w
    IN  screen' = screen /\ cursor' + 1 \in DOMAIN l =>
            scroll' \in good /\ \A w \in good : Far(scroll') <= Far(w)

\* Where nothing moves the window is where it should be.
LEMMA StillFollows ==
    ASSUME IInv, UNCHANGED <<where, rooms>>
    PROVE  Follows
  <1> DEFINE l == BuildScreen(screen, rooms)
             rows == VisibleRows(screen)
  <1>1. screen' = screen /\ cursor' = cursor /\ scroll' = scroll /\ rooms' = rooms
    BY DEF where
  <1>2. InWindow(l, rows, cursor, scroll) BY DEF IInv, InSight, List
  <1>3. /\ Len(l) \in 0 .. kMaxControls
        /\ Starts(l, rows) \subseteq 0 .. kMaxControls - 1
    BY ListTyped DEF IInv, TypeOK
  <1>4. scroll \in Int BY DEF IInv, TypeOK
  <1>5. ASSUME NEW w \in Starts(l, rows)
        PROVE  0 <= IF w > scroll THEN w - scroll ELSE scroll - w
    <2>1. w \in Int BY <1>3 DEF kMaxControls
    <2> QED BY <1>4, <2>1
  <1>6. (IF scroll > scroll THEN scroll - scroll ELSE scroll - scroll) = 0 BY <1>4
  <1> HIDE DEF l, rows
  <1>7. cursor + 1 \in DOMAIN l =>
           /\ scroll \in {w \in Starts(l, rows) : cursor \in w .. w + rows - 1}
           /\ \A w \in {w \in Starts(l, rows) : cursor \in w .. w + rows - 1} :
                 (IF scroll > scroll THEN scroll - scroll ELSE scroll - scroll)
                     <= IF w > scroll THEN w - scroll ELSE scroll - w
    BY <1>2, <1>5, <1>6 DEF InWindow
  <1> QED BY <1>1, <1>7 DEF Follows, l, rows

\* A key on a row.
LEMMA RowStep ==
    ASSUME IInv, RowDone, rooms' = rooms
    PROVE  IInv' /\ Follows
  <1>1. SentOK' BY RowSendsOK DEF RowDone
  <1>2. CASE Stays \/ Asks
    <2>1. UNCHANGED where BY <1>2 DEF Stays, Asks
    <2>2. pending' \in {NoIntent, FogOn} BY <1>2 DEF Stays, Asks, IInv, TypeOK
    <2>3. TypeOK' BY <1>1, <2>1, <2>2 DEF IInv, TypeOK, RowDone, SentOK, where
    <2>4. InSight' BY <2>1, StaysInSight DEF IInv
    <2> QED BY <1>1, <2>1, <2>3, <2>4, StillFollows DEF IInv, SentOK
  <1>3. CASE Opens
    <2>1. TypeOK' BY <1>1, <1>3 DEF IInv, TypeOK, RowDone, SentOK, Opens, kMaxControls
    <2>2. InSight' BY <1>3, <2>1, TopInSight DEF Opens, TypeOK
    <2>3. Follows BY <1>3 DEF Opens, Follows
    <2> QED BY <1>1, <2>1, <2>2, <2>3 DEF IInv, SentOK
  <1> QED BY <1>2, <1>3 DEF RowDone

LEMMA InitInvariant == Init => IInv
  <1> SUFFICES ASSUME Init PROVE IInv
    OBVIOUS
  <1>1. TypeOK
    <2>1. screen \in Screens BY ScreenNames DEF Init
    <2>2. /\ cursor \in -1 .. kMaxControls - 1 /\ scroll \in 0 .. kMaxControls - 1
          /\ roomId \in Nat
      BY DEF Init, kMaxControls
    <2>3. rooms \in RoomLists \cup {<<>>} /\ pending \in {NoIntent, FogOn} /\ ir \in BOOLEAN
      BY DEF Init
    <2>4. sent.path \in {"net", "ir"} BY DEF Init, NothingSent
    <2> QED BY <2>1, <2>2, <2>3, <2>4 DEF TypeOK
  <1>2. SentIsRequest /\ OnePath
    BY DEF Init, SentIsRequest, OnePath, NothingSent, NoIntent, Intent
  <1>3. InSight BY <1>1, ListTyped DEF Init, TypeOK, InSight, List
  <1> QED BY <1>1, <1>2, <1>3 DEF IInv

LEMMA StepFacts ==
    ASSUME IInv, [Next]_vars
    PROVE  IInv' /\ Follows
  <1>0. TypeOK BY DEF IInv
  <1>1. CASE Move
    <2>1. PICK dir \in {1, -1} : cursor' = NextSelectable(List, cursor, dir)
      BY <1>1 DEF Move
    <2>2. cursor' \in -1 .. kMaxControls - 1 BY <1>0, <2>1, MoveTyped
    <2>3. screen' = screen /\ rooms' = rooms /\ List' = List BY <1>1 DEF Move, List
    <2>4. scroll' = FirstVisible(List', VisibleRows(screen), cursor', scroll)
      BY <1>1, <2>3 DEF Move, Window
    <2>5. cursor' \in Int /\ rooms' \in RoomLists \cup {<<>>}
      BY <1>0, <2>2, <2>3 DEF TypeOK, kMaxControls
    <2>6. InSight' /\ scroll' \in 0 .. kMaxControls - 1
      BY <1>0, <2>3, <2>4, <2>5, WindowKept
    <2>7. Follows
      BY <1>0, <2>3, <2>4, <2>5, WindowKept DEF Follows, List
    <2>8. SentOK' BY <1>1, NothingIsOK DEF Move
    <2>9. TypeOK' BY <1>0, <1>1, <2>2, <2>6, <2>8 DEF Move, TypeOK, SentOK
    <2> QED BY <2>6, <2>7, <2>8, <2>9 DEF IInv, SentOK
  <1>2. CASE Snapshot
    <2>1. /\ screen' = screen /\ cursor' = cursor /\ cursor' \in Int
          /\ rooms' \in RoomLists \cup {<<>>} /\ List' = BuildScreen(screen, rooms')
      BY <1>0, <1>2 DEF Snapshot, TypeOK, List, kMaxControls
    <2>2. scroll' = FirstVisible(List', VisibleRows(screen), cursor', scroll)
      BY <1>2, <2>1 DEF Snapshot, Window
    <2>3. InSight' /\ scroll' \in 0 .. kMaxControls - 1
      BY <1>0, <2>1, <2>2, WindowKept
    <2>4. Follows BY <1>0, <2>1, <2>2, WindowKept DEF Follows
    <2>5. SentOK' BY <1>2, NothingIsOK DEF Snapshot
    <2>6. TypeOK' BY <1>0, <1>2, <2>1, <2>3, <2>5 DEF Snapshot, TypeOK, SentOK
    <2> QED BY <2>3, <2>4, <2>5, <2>6 DEF IInv, SentOK
  <1>3. CASE Back
    <2>1. screen' \in Screens BY <1>3, ScreenNames DEF Back, ParentScreen
    <2>2. SentOK' BY <1>3, NothingIsOK DEF Back
    <2>3. TypeOK' BY <1>0, <1>3, <2>1, <2>2 DEF Back, TypeOK, SentOK, kMaxControls
    <2>4. InSight' BY <1>3, <2>3, TopInSight DEF Back, TypeOK
    <2>5. Follows
      <3>1. CASE screen' # screen BY <3>1 DEF Follows
      <3>2. CASE screen' = screen
        <4>1. screen = "Home" BY <1>3, <3>2 DEF Back, ParentScreen
        <4>2. List = Specs["Home"] /\ Len(List) = 7 /\ VisibleRows(screen) = 8
          BY <4>1, HomeRows DEF List, BuildScreen, VisibleRows
        <4>3. scroll \in 0 .. 0 BY <4>2 DEF IInv, InSight, InWindow, Starts
        <4>4. scroll' = scroll /\ rooms' = rooms /\ List' = List
          BY <1>3, <3>2, <4>3 DEF Back, List
        <4>5. \A w \in Starts(List, VisibleRows(screen)) : w = 0 BY <4>2 DEF Starts
        <4>6. InWindow(List', VisibleRows(screen'), cursor', scroll')
          BY <2>4 DEF InSight
        <4> QED BY <3>2, <4>3, <4>4, <4>5, <4>6 DEF Follows, InWindow, List
      <3> QED BY <3>1, <3>2
    <2> QED BY <2>2, <2>3, <2>4, <2>5 DEF IInv, SentOK
  <1>4. CASE ActivateKey
    <2>1. PICK k \in KeyRows, warnOwned \in BOOLEAN :
             \E v \in Values(List[k]) : Activate(List[k], v, warnOwned)
      BY <1>4 DEF ActivateKey
    <2>2. k \in DOMAIN List BY DEF KeyRows, PrimaryToggle, Accels
    <2>3. RowDone BY <1>0, <2>1, <2>2, ActivateDone
    <2> QED BY <1>4, <2>3, RowStep DEF ActivateKey
  <1>5. CASE AdjustKey
    <2>1. PICK k \in KeyRows, warnOwned \in BOOLEAN, dir \in {1, -1} :
             \E v \in Values(List[k]) : Adjust(List[k], v, dir, warnOwned)
      BY <1>5 DEF AdjustKey
    <2>2. k \in DOMAIN List BY DEF KeyRows, PrimaryToggle, Accels
    <2>3. RowDone BY <1>0, <2>1, <2>2, AdjustDone
    <2> QED BY <1>5, <2>3, RowStep DEF AdjustKey
  <1>6. CASE NoRow
    <2>1. RowDone BY <1>0, <1>6, NothingIsDone DEF NoRow
    <2> QED BY <1>6, <2>1, RowStep DEF NoRow
  <1>7. CASE ToggleRoom
    <2>1. PICK on \in {0, 1} : Send(OnOff("hue", on, [arg |-> rooms[cursor + 1]]), FALSE, on)
      BY <1>7 DEF ToggleRoom
    <2> DEFINE i == OnOff("hue", on, [arg |-> rooms[cursor + 1]])
    <2>2. rooms[cursor + 1] \in 1 .. 999
      <3>1. cursor + 1 \in DOMAIN List /\ screen = "Rooms" BY <1>7 DEF ToggleRoom
      <3>2. cursor + 1 \in DOMAIN rooms BY <1>0, <3>1, RowHere
      <3>3. \A n \in DOMAIN rooms : rooms[n] \in 1 .. 999 BY <1>0, RoomFacts DEF TypeOK
      <3> QED BY <3>2, <3>3
    <2>3. Fit(i)
      <3> DEFINE a == IF on = 1 THEN "off" ELSE "on"
      <3>1. a \in {"on", "off"} OBVIOUS
      <3>2. i = Intent("hue", a, [arg |-> rooms[cursor + 1]]) BY DEF OnOff
      <3> HIDE DEF a, i
      <3> QED BY <2>2, <3>1, <3>2, RoomRequests
    <2>4. i.target = "hue" BY IntentFacts DEF OnOff
    <2> HIDE DEF i
    <2>5. Send(i, FALSE, on) BY <2>1 DEF i
    <2>6. RowSends /\ Stays /\ ir' = ir BY <2>3, <2>4, <2>5, SendIsFit
    <2>7. RowDone BY <1>0, <2>6 DEF RowDone, TypeOK
    <2> QED BY <1>7, <2>7, RowStep DEF ToggleRoom
  <1>8. CASE Answer
    <2>1. SentOK' BY <1>0, <1>8, AnswerOK
    <2>2. UNCHANGED <<where, rooms>> BY <1>8 DEF Answer
    <2>3. TypeOK' BY <1>0, <1>8, <2>1 DEF Answer, TypeOK, SentOK, where
    <2>4. InSight' BY <2>2, StaysInSight DEF IInv
    <2> QED BY <2>1, <2>2, <2>3, <2>4, StillFollows DEF IInv, SentOK
  <1>9. CASE UNCHANGED vars
    <2>1. UNCHANGED <<where, rooms>> /\ sent' = sent /\ ir' = ir /\ pending' = pending
      BY <1>9 DEF vars, where
    <2>2. TypeOK' /\ SentIsRequest' /\ OnePath'
      BY <2>1 DEF IInv, TypeOK, SentIsRequest, OnePath, where
    <2>3. InSight' BY <2>1, StaysInSight DEF IInv
    <2> QED BY <2>1, <2>2, <2>3, StillFollows DEF IInv
  <1> QED BY <1>1, <1>2, <1>3, <1>4, <1>5, <1>6, <1>7, <1>8, <1>9 DEF Next

LEMMA Invariant == Spec => []IInv
  <1>1. IInv /\ [Next]_vars => IInv' BY StepFacts
  <1> QED BY <1>1, InitInvariant, PTL DEF Spec

-----------------------------------------------------------------------------
(* Theorems.                                                               *)

\* The variables hold what the code's types allow: the cursor stays a row some
\* list has, or none, and only heat ever waits for an answer.
THEOREM ControlsTypeCorrect == Spec => []TypeOK
  <1>1. IInv => TypeOK BY DEF IInv
  <1> QED BY <1>1, Invariant, PTL

\* The amplifier is reached by the path that is set and no other, whichever of
\* its rows and whichever function of the two decides.
THEOREM OnePathAlways == Spec => []OnePath
  <1>1. IInv => OnePath BY DEF IInv
  <1> QED BY <1>1, Invariant, PTL

\* Whatever list of rooms there is and whatever a row reads: the gateway takes
\* what the row sends, or says it does not know where that starts from, and the
\* screen claims what the house is asked for.
THEOREM RowsAgreeAlways == Spec => []RowsAgree
  <1>1. IInv => RowsAgree BY ContractHolds DEF IInv
  <1> QED BY <1>1, Invariant, PTL

\* The window keeps the row of the cursor in sight and moves as little as that
\* takes, on lists of any length.
THEOREM WindowFollowsAlways == Spec => WindowFollows
  <1>1. IInv /\ [Next]_vars => [Follows]_vars BY StepFacts
  <1>2. [][Follows]_vars => WindowFollows BY PTL DEF WindowFollows, Follows
  <1> QED BY <1>1, <1>2, Invariant, PTL DEF Spec
=============================================================================
