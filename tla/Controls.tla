------------------------------- MODULE Controls -------------------------------
(***************************************************************************)
(* The control lists (firmware/lib/core/controls.cpp and the table         *)
(* controls_table.h): every screen as rows, a cursor that moves over them, *)
(* and what a key on a row comes to.                                       *)
(*                                                                         *)
(* Nothing in the firmware calls them yet but their tests, so the caller   *)
(* is the contract of controls.h: it builds the list anew for every key,   *)
(* uses it before anything else happens, passes each change through        *)
(* firstVisible(), and leaves the prompt to the confirmation gate of       *)
(* ui_state.cpp.  As in UiState, what the house shows is an input of the   *)
(* key; of the snapshot only the rooms stay.  Texts are left out.          *)
(***************************************************************************)
EXTENDS Actions, FiniteSets

CONSTANTS
    RoomLists,   \* lists of room ids a snapshot may have, at most kMaxRooms
    Bris,        \* brightness readings considered
    Raws,        \* receiver volumes considered
    Volumes,     \* Teufel volumes considered
    House        \* what the gateway may know, see Actions

\* Rooms are numbered by the bridge; what is read into a row is a number.
ASSUME ControlsAssumption ==
    /\ RoomLists \subseteq Seq(1 .. 999) /\ Bris \cup Raws \cup Volumes \subseteq Int
    /\ \A s \in House : "YamRaw" \in DOMAIN s => s.YamRaw \in Int

kMaxControls == 16

-----------------------------------------------------------------------------
(* The table.                                                              *)

Row(kind, bind, key) == [kind |-> kind, bind |-> bind, accel |-> key]

\* Home's rows and the screens they link to.
HomeLinks == <<"Rooms", "Lichtwerk", "Yamaha", "Teufel", "Disco", "Fog", "Climate">>

Readouts(n) == [k \in 1 .. n |-> Row("Readout", "None", "none")]

Specs ==
    [Home |-> [k \in DOMAIN HomeLinks |-> Row("Link", HomeLinks[k], "none")],
     Rooms |-> <<>>,
     Room |-> <<Row("Toggle", "RoomOn", "p"), Row("Level", "RoomBri", "none")>>,
     Lichtwerk |-> <<Row("Toggle", "LwOn", "p"), Row("Level", "LwBri", "none"),
                     Row("Choice", "LwEffect", "e")>>,
     Yamaha |-> <<Row("Toggle", "YamOn", "p"), Row("Level", "YamVol", "none"),
                  Row("Choice", "YamInput", "i"), Row("Toggle", "YamMute", "m")>>,
     Teufel |-> <<Row("Toggle", "TfOn", "p"), Row("Choice", "TfPath", "w"),
                  Row("Level", "TfVol", "none"), Row("Choice", "TfInput", "i"),
                  Row("Toggle", "TfMute", "m")>>,
     Disco |-> <<Row("Toggle", "DiscoOn", "p"), Row("Choice", "DiscoMode", "o")>>,
     Fog |-> <<Row("Toggle", "FogOn", "p")>> \o Readouts(2),
     Climate |-> Readouts(5)]

Screens == DOMAIN Specs

Bounds == [RoomBri |-> [min |-> 1, max |-> 254, step |-> 30],
           LwBri   |-> [min |-> 0, max |-> 255, step |-> 32],
           YamVol  |-> [min |-> -800, max |-> -200, step |-> 10],
           TfVol   |-> [min |-> 0, max |-> 50, step |-> 1]]

\* What a Choice steps through, and the intent that carries the name.
Choices == [LwEffect  |-> [list |-> kLwEffects, target |-> "lw", action |-> "effect"],
            YamInput  |-> [list |-> kYamahaInputs, target |-> "yam", action |-> "input"],
            TfInput   |-> [list |-> kTeufelInputs, target |-> "tf", action |-> "input"],
            DiscoMode |-> [list |-> kDiscoModes, target |-> "disco", action |-> "mode"]]

-----------------------------------------------------------------------------
VARIABLES
    screen, cursor, scroll, roomId,   \* of UiState in ui_state.h
    pending,   \* st.pending while st.confirming
    ir,        \* st.teufelUseIr
    rooms,     \* ids in Dash.hue, in order
    sent       \* the KeyResult of the last key, with the value it started from

where == <<screen, cursor, scroll, roomId>>
vars  == <<screen, cursor, scroll, roomId, pending, ir, rooms, sent>>

NoIntent    == Intent("none", "none", None)
NothingSent == [intent |-> NoIntent, path |-> "net", value |-> 0]

Init ==
    /\ screen = "Home" /\ cursor = 0 /\ scroll = 0 /\ roomId = 0
    /\ pending = NoIntent /\ ir = FALSE /\ rooms = <<>> /\ sent = NothingSent

\* buildScreen(): a Link per room, or the rows of the table.
BuildScreen(s, rs) ==
    IF s = "Rooms"
    THEN [k \in 1 .. (IF Len(rs) < kMaxControls THEN Len(rs) ELSE kMaxControls) |->
             [kind |-> "Link", bind |-> "None", accel |-> "none", key |-> rs[k]]]
    ELSE Specs[s]

List == BuildScreen(screen, rooms)

VisibleRows(s) == IF s = "Home" THEN 8 ELSE 7

\* What fill() may read into a row.
Values(c) == CASE c.kind = "Toggle" -> {0, 1}
               [] c.bind \in {"RoomBri", "LwBri"} -> Bris
               [] c.bind = "YamVol" -> Raws
               [] c.bind = "TfVol"  -> Volumes
               [] c.kind = "Choice" /\ c.bind # "TfPath" -> DOMAIN Choices[c.bind].list
               [] c.kind = "Link" /\ screen = "Rooms" -> Bris
               [] OTHER -> {0}

\* With the room gone, or the strip in the hands of strip-warn, a row refuses.
Enabled(c, warnOwned) ==
    CASE c.bind \in {"RoomOn", "RoomBri"}  -> \E k \in DOMAIN rooms : rooms[k] = roomId
      [] c.bind \in {"LwBri", "LwEffect"} -> ~warnOwned
      [] OTHER -> TRUE

-----------------------------------------------------------------------------
(* The cursor.  Rows count from 0, -1 is none.                             *)

Selectable(l) == {k \in 0 .. Len(l) - 1 : l[k + 1].kind # "Readout"}

\* A mutant: the ends are not joined.
NextNoWrap(l, from, dir) == IF Len(l) = 0 THEN -1 ELSE from + dir

\* The first row to land on, going round at most once.
NextSelectable(l, from, dir) ==
    LET n == Len(l)
        At(k) == (from + k * dir + 2 * n) % n
        hits == IF n = 0 THEN {} ELSE {k \in 1 .. n : At(k) \in Selectable(l)}
    IN  IF n = 0 THEN -1
        ELSE IF hits = {} THEN from
        ELSE At(CHOOSE k \in hits : \A j \in hits : k <= j)

\* A mutant: the row under the window counts as in it.
FirstVisibleLate(l, rows, c, from) ==
    LET up   == IF c < from THEN c ELSE from
        down == IF c > up + rows THEN c - rows + 1 ELSE up
        last == IF Len(l) > rows THEN Len(l) - rows ELSE 0
    IN  Clamp(down, 0, last)

FirstVisible(l, rows, c, from) ==
    LET up   == IF c < from THEN c ELSE from
        down == IF c >= up + rows THEN c - rows + 1 ELSE up
        last == IF Len(l) > rows THEN Len(l) - rows ELSE 0
    IN  Clamp(down, 0, last)

Window(l) == scroll' = FirstVisible(l, VisibleRows(screen), cursor', scroll)

Calm == pending = NoIntent

Move ==
    /\ Calm
    /\ \E dir \in {1, -1} : cursor' = NextSelectable(List, cursor, dir)
    /\ Window(List)
    /\ sent' = NothingSent
    /\ UNCHANGED <<screen, roomId, pending, ir, rooms>>

\* A snapshot; the cursor stays where it is.
Snapshot ==
    /\ rooms' \in RoomLists /\ cursor' = cursor
    /\ Window(BuildScreen(screen, rooms'))
    /\ sent' = NothingSent
    /\ UNCHANGED <<screen, roomId, pending, ir>>

ParentScreen(s) == IF s = "Room" THEN "Rooms" ELSE "Home"

Back ==
    /\ Calm
    /\ screen' = ParentScreen(screen) /\ cursor' = 0 /\ scroll' = 0
    /\ sent' = NothingSent
    /\ UNCHANGED <<roomId, pending, ir, rooms>>

-----------------------------------------------------------------------------
(* A key on a row: c is the row, v the value in it.                        *)

Send(i, blind, v) ==
    /\ sent' = [intent |-> i, path |-> IF ir /\ blind THEN "ir" ELSE "net", value |-> v]
    /\ UNCHANGED <<where, pending, ir>>

Nothing == sent' = NothingSent /\ UNCHANGED <<where, pending, ir>>

OnOff(target, v, given) == Intent(target, IF v = 1 THEN "off" ELSE "on", given)

\* A mutant: the amplifier's mute always takes the network.
ActivateBlindPower(c) == c.bind = "TfOn"

ActivateBlind(c) == c.bind \in {"TfOn", "TfMute"}
AdjustBlind(c)   == c.bind \in {"TfVol", "TfInput"}

\* What a Toggle asks for.
Flip(c, v) ==
    CASE c.bind = "RoomOn"  -> OnOff("hue", v, [arg |-> roomId])
      [] c.bind = "LwOn"    -> OnOff("lw", v, None)
      [] c.bind = "YamOn"   -> OnOff("yam", v, None)
      [] c.bind = "DiscoOn" -> OnOff("disco", v, None)
      [] c.bind = "FogOn"   -> OnOff("fog", v, None)
      [] c.bind = "YamMute" -> Intent("yam", "mute", None)
      [] c.bind = "TfOn"    -> Intent("tf", "power", None)
      [] c.bind = "TfMute"  -> Intent("tf", "mute", None)

\* Heat is asked for; everything else goes out.
ActivateToggle(c, v) ==
    IF Flip(c, v) = FogOn
    THEN pending' = FogOn /\ sent' = NothingSent /\ UNCHANGED <<where, ir>>
    ELSE Send(Flip(c, v), ActivateBlind(c), v)

OpenLink(c) ==
    /\ IF screen = "Rooms" THEN screen' = "Room" /\ roomId' = c.key
                           ELSE screen' = c.bind /\ UNCHANGED roomId
    /\ cursor' = 0 /\ scroll' = 0 /\ sent' = NothingSent
    /\ UNCHANGED <<pending, ir>>

\* activate(): Enter, Space on the primary toggle, a letter.
Activate(c, v, warnOwned) ==
    \/ c.kind = "Toggle" /\ Enabled(c, warnOwned) /\ ActivateToggle(c, v)
    \/ c.kind = "Link" /\ OpenLink(c)
    \/ (c.kind \notin {"Toggle", "Link"} \/ ~Enabled(c, warnOwned)) /\ Nothing

\* A mutant: down to 0, which the bridge takes for off.
RoomBrightnessToZero(id, v, delta) ==
    Intent("hue", "bri", [arg |-> id, arg2 |-> Clamp(v + delta, 0, 254)])

RoomBrightness(id, v, delta) ==
    Intent("hue", "bri", [arg |-> id, arg2 |-> Clamp(v + delta, 1, 254)])

\* What a Level asks for, and whether it does: next is the value shown.
Level(c, v, dir) ==
    LET b == Bounds[c.bind]
        next == Clamp(v + dir * b.step, b.min, b.max)
    IN  CASE c.bind = "RoomBri" -> Send(RoomBrightness(roomId, v, dir * b.step), FALSE, v)
          [] c.bind = "LwBri"   -> Send(Intent("lw", "bri", [arg2 |-> next]), FALSE, v)
          [] c.bind = "YamVol" /\ next # v -> Send(Intent("yam", "vol", [arg |-> dir * 2]), FALSE, v)
          [] c.bind = "TfVol" /\ next # v  -> Send(Intent("tf", "vol", [arg |-> dir]), AdjustBlind(c), v)
          [] OTHER -> Nothing

Choice(c, v, dir) ==
    LET ch == Choices[c.bind]
        n  == Len(ch.list)
    IN  Send(Intent(ch.target, ch.action, [name |-> ch.list[((v - 1 + dir + n) % n) + 1]]),
             AdjustBlind(c), v)

SwitchPath == ir' = ~ir /\ sent' = NothingSent /\ UNCHANGED <<where, pending>>

\* adjust(): a key to the left or to the right.
Adjust(c, v, dir, warnOwned) ==
    \/ c.kind = "Toggle" /\ Activate(c, v, warnOwned)
    \/ c.kind = "Link" /\ screen = "Rooms" /\ Send(RoomBrightness(c.key, v, dir * 30), FALSE, v)
    \/ c.kind = "Level" /\ Enabled(c, warnOwned) /\ Level(c, v, dir)
    \/ c.bind = "TfPath" /\ SwitchPath
    \/ c.kind = "Choice" /\ c.bind # "TfPath" /\ Enabled(c, warnOwned) /\ Choice(c, v, dir)
    \/ (c.kind = "Readout" \/ (c.kind = "Link" /\ screen # "Rooms") \/ ~Enabled(c, warnOwned))
          /\ c.kind # "Toggle" /\ Nothing

-----------------------------------------------------------------------------
(* The keys.                                                               *)

PrimaryToggle == {k \in DOMAIN List :
                     List[k].kind = "Toggle" /\ \A j \in 1 .. k - 1 : List[j].kind # "Toggle"}

\* Rows with a letter that no row above has.
Accels == {k \in DOMAIN List :
              List[k].accel # "none" /\ \A j \in 1 .. k - 1 : List[j].accel # List[k].accel}

\* The row of the cursor, if there is one, or one that a letter or Space finds.
KeyRows == ({cursor + 1} \cap DOMAIN List) \cup PrimaryToggle \cup Accels

ActivateKey ==
    /\ Calm
    /\ \E k \in KeyRows, warnOwned \in BOOLEAN :
          \E v \in Values(List[k]) : Activate(List[k], v, warnOwned)
    /\ UNCHANGED rooms

AdjustKey ==
    /\ Calm
    /\ \E k \in KeyRows, warnOwned \in BOOLEAN, dir \in {1, -1} :
          \E v \in Values(List[k]) : Adjust(List[k], v, dir, warnOwned)
    /\ UNCHANGED rooms

\* A row index that the list does not have is ignored.
NoRow ==
    /\ Calm /\ cursor + 1 \notin DOMAIN List
    /\ Nothing /\ UNCHANGED rooms

\* toggleRoom(): Space on the list of rooms.
ToggleRoom ==
    /\ Calm /\ screen = "Rooms" /\ cursor + 1 \in DOMAIN List
    /\ \E on \in {0, 1} : Send(OnOff("hue", on, [arg |-> rooms[cursor + 1]]), FALSE, on)
    /\ UNCHANGED rooms

\* The gate: the answer to the prompt.
Answer ==
    /\ ~Calm /\ pending' = NoIntent
    /\ \/ sent' = [NothingSent EXCEPT !.intent = pending]
       \/ sent' = NothingSent
    /\ UNCHANGED <<where, ir, rooms>>

Next ==
    \/ Move \/ Snapshot \/ Back
    \/ ActivateKey \/ AdjustKey \/ NoRow \/ ToggleRoom \/ Answer

Spec == Init /\ [][Next]_vars

-----------------------------------------------------------------------------
(* Properties.                                                             *)

\* The variables hold what the code's types allow; the cursor is a row that
\* some list has, or none.
TypeOK ==
    /\ screen \in Screens /\ cursor \in -1 .. kMaxControls - 1
    /\ scroll \in 0 .. kMaxControls - 1 /\ roomId \in Nat
    /\ pending \in {NoIntent, FogOn} /\ ir \in BOOLEAN
    /\ rooms \in RoomLists \cup {<<>>} /\ sent.path \in {"net", "ir"}

\* Where a window may start on a list.
Starts(l, rows) == 0 .. (IF Len(l) > rows THEN Len(l) - rows ELSE 0)

\* The window keeps the row of the cursor in sight and moves as little as that
\* takes, also when a snapshot shortens the list under both (firstVisible).
WindowFollows ==
    [][LET l == BuildScreen(screen', rooms')
           rows == VisibleRows(screen')
           good == {w \in Starts(l, rows) : cursor' \in w .. w + rows - 1}
           Far(w) == IF w > scroll THEN w - scroll ELSE scroll - w
       IN  screen' = screen /\ cursor' + 1 \in DOMAIN l =>
               scroll' \in good /\ \A w \in good : Far(scroll') <= Far(w)]_vars

\* The amplifier is reached by one path, the one that is set: no key of its
\* screen goes another way (viaIr is decided in adjust() for some rows, in
\* activate() for the others).
OnePath == sent.intent.target = "tf" => (sent.path = "ir" <=> ir)

\* Complete snapshots: what is known to the gateway is known to the remote.
Complete == {s \in House : {"LwOn", "YamOn", "YamMute", "YamRaw", "TfOn", "TfMute",
                            "TfVol", "DiscoOn"} \subseteq DOMAIN s}

InputByInfrared == sent.path = "ir" /\ sent.intent.action = "input"

Asked(s) == IF sent.path = "ir" THEN Infrared(sent.intent, s)
                                ELSE Plan(sent.intent, s).effect

\* Whatever a row sends the gateway takes, unless it does not know the state a
\* relative action starts from, and what the screen claims meanwhile is what
\* the house is asked for (the table's bounds and steps against plan() and
\* claimFor()).  The exceptions are those of UiState.
RowsAgree ==
    sent.intent # NoIntent =>
        /\ sent.path = "net" =>
              \A s \in House :
                  Plan(sent.intent, s).status = IF Needs(sent.intent) \subseteq DOMAIN s
                                                THEN 200 ELSE 409
        /\ \A s \in Complete :
              \/ AtVolumeLimit(sent.intent, s) \/ InputByInfrared
              \/ Agree(Claim(sent.intent, s), Asked(s))
=============================================================================
