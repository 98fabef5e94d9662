------------------------------- MODULE UiState -------------------------------
(***************************************************************************)
(* The interaction model of the remote (firmware/lib/core/ui_state.cpp,    *)
(* parseCommand() of command.cpp) and the pass of loop() around it: a key, *)
(* a snapshot, a frame, perhaps sleep (firmware/src/main.cpp).             *)
(*                                                                         *)
(* Of the snapshot only the list of rooms outlives a key: it is what the   *)
(* cursor points into.  Everything else a key looks at, claims painted     *)
(* over it included, is an input of that key.  So are the cycle indices,   *)
(* each of which may be anything in its list, and the line typed on the    *)
(* console, which is known by what it parses to.                           *)
(***************************************************************************)
EXTENDS Actions

CONSTANTS
    RoomLists,   \* lists of room ids a snapshot may have, at most kMaxRooms
    Bris,        \* brightness readings considered
    Percents,    \* percentages typed on the console
    Raws,        \* receiver volumes considered
    House        \* what the gateway may know, see Actions

\* Rooms are numbered by the bridge; the receiver's volume, when known, is a number.
ASSUME UiAssumption ==
    /\ RoomLists \subseteq Seq(1 .. 999) /\ Bris \subseteq Int /\ Percents \subseteq Nat
    /\ \A s \in House : "YamRaw" \in DOMAIN s => s.YamRaw \in Int

kHomeRows == <<"Rooms", "Lichtwerk", "Yamaha", "Teufel", "Disco", "Fog", "Climate">>

Screens == {kHomeRows[n] : n \in DOMAIN kHomeRows} \cup {"Home", "Console", "Diagnostics"}

NoIntent == Intent("none", "none", None)

VARIABLES
    screen,    \* st.screen; nothing leads to Screen::Room yet
    cursor,    \* st.cursor
    pending,   \* st.pending while st.confirming
    ir,        \* st.teufelUseIr
    rooms,     \* ids in g_dash.hue, in order
    sent,      \* what this pass has sent, and how
    dirty,     \* g_needRedraw
    drawn,     \* history: what the last frame showed
    stage      \* how far loop() has come

st   == <<screen, cursor, pending, ir>>
vars == <<screen, cursor, pending, ir, rooms, sent, dirty, drawn, stage>>

NothingSent == [intent |-> NoIntent, path |-> "net"]

\* drawRooms() marks the row under the cursor, if there is one, and draws the
\* prompt over everything.
Frame == [screen |-> screen, prompt |-> pending,
          room |-> IF screen = "Rooms" /\ cursor \in 0 .. Len(rooms) - 1
                   THEN rooms[cursor + 1] ELSE 0]

Init ==
    /\ screen = "Home" /\ cursor = 0 /\ pending = NoIntent /\ ir = FALSE
    /\ rooms = <<>> /\ sent = NothingSent
    /\ dirty = TRUE /\ stage = "key"
    /\ drawn = [screen |-> "Home", prompt |-> NoIntent, room |-> 0]

-----------------------------------------------------------------------------
(* What a key can come to.                                                 *)

\* A key is handled: handleKey() returned with redraw set.
Handled == stage = "key" /\ stage' = "pump" /\ dirty' = TRUE /\ UNCHANGED <<rooms, drawn>>

\* sendIntent(): by infrared only what the amplifier understands.
Send(i) ==
    /\ sent' = [intent |-> i,
                path |-> IF ir /\ screen = "Teufel" /\ i.target = "tf" THEN "ir" ELSE "net"]
    /\ UNCHANGED st

\* The confirmation gate takes an intent in.
Ask(i) == pending' = i /\ UNCHANGED <<sent, screen, cursor, ir>>

GoTo(s) == screen' = s /\ UNCHANGED <<sent, pending, ir>>

\* Step forwards or backwards through a list from what the house shows or, when
\* that is not in the list, from the last index used.
CycleFrom(list, dirs) ==
    {list[((n - 1 + dir + Len(list)) % Len(list)) + 1] : n \in DOMAIN list, dir \in dirs}

Free(s) == pending = NoIntent /\ screen = s

-----------------------------------------------------------------------------
(* The prompt.                                                             *)

\* y, j or Enter.
Confirm ==
    /\ pending # NoIntent
    /\ sent' = [intent |-> pending, path |-> "net"]
    /\ pending' = NoIntent
    /\ UNCHANGED <<screen, cursor, ir>>

\* Every other key.
Cancel ==
    /\ pending # NoIntent
    /\ pending' = NoIntent
    /\ UNCHANGED <<sent, screen, cursor, ir>>

-----------------------------------------------------------------------------
(* The console.                                                            *)

\* A percentage as a Hue brightness.
BriOf(percent) == Clamp((percent * 254) \div 100, 1, 254)

Listed == {rooms[n] : n \in DOMAIN rooms}

\* parseCommand(): what a line may ask for.  Rooms are found by a score that
\* stays below the threshold for two typos; which line names which room plays
\* no part here.
RoomLines ==
    {Intent("hue", a, [arg |-> r]) : a \in {"on", "off"}, r \in Listed}
    \cup {Intent("hue", "bri", [arg |-> r, arg2 |-> BriOf(n)]) : r \in Listed, n \in Percents}

DeviceLines ==
    {Intent("macro", a, None) : a \in {"wake", "alloff", "goodnight"}}
    \cup {Intent(t, "toggle", None) : t \in {"disco", "lw", "yam"}}
    \cup {Intent("yam", "vol", [arg |-> n]) : n \in {2, -2}}
    \cup {Intent("tf", "power", None), FogOn}

Parsed == DeviceLines \cup RoomLines

\* A mutant: nothing typed is worth a question.
NeedsConfirmNever(i) == FALSE

NeedsConfirm(i) == i = FogOn

\* Enter on a line that parses: back to Home, and ask or send.  The cursor
\* stays where the screen before the console had left it.
RunLine ==
    /\ Free("Console")
    /\ screen' = "Home"
    /\ UNCHANGED <<cursor, ir>>
    /\ \E i \in Parsed :
          IF NeedsConfirm(i) THEN pending' = i /\ UNCHANGED sent
          ELSE sent' = [intent |-> i, path |-> "net"] /\ UNCHANGED pending

LeaveConsole == Free("Console") /\ GoTo("Home") /\ UNCHANGED cursor

\* Characters, backspace, completion, and Enter on what does not parse.
EditLine == Free("Console") /\ UNCHANGED <<st, sent>>

-----------------------------------------------------------------------------
(* Keys that go somewhere.                                                 *)

InApp == pending = NoIntent /\ screen # "Console"

\* Esc and backspace.
GoHome ==
    /\ InApp
    /\ GoTo("Home")
    /\ cursor' = IF screen = "Home" THEN cursor ELSE 0

\* Tab; on Home also / and the right arrow.
OpenConsole == InApp /\ GoTo("Console") /\ UNCHANGED cursor

\* 1 to 7, and Enter on the row of the cursor.
OpenRow ==
    /\ Free("Home")
    /\ \E row \in 0 .. Len(kHomeRows) - 1 : GoTo(kHomeRows[row + 1])
    /\ cursor' = 0

HomeScreenAt(row) == IF row \in 0 .. Len(kHomeRows) - 1 THEN kHomeRows[row + 1] ELSE "Home"

EnterOnHome == Free("Home") /\ GoTo(HomeScreenAt(cursor)) /\ cursor' = 0

OpenDiagnostics == Free("Home") /\ GoTo("Diagnostics") /\ UNCHANGED cursor

RowCount == CASE screen = "Rooms" -> Len(rooms)
              [] screen = "Home"  -> Len(kHomeRows)
              [] OTHER            -> 0

\* A mutant: the cursor wraps at one end only.
MoveCursorOneWay ==
    /\ InApp /\ RowCount > 0
    /\ \E dir \in {1, -1} : cursor' = IF cursor + dir = RowCount THEN 0 ELSE cursor + dir
    /\ UNCHANGED <<sent, screen, pending, ir>>

MoveCursor ==
    /\ InApp /\ RowCount > 0
    /\ \E dir \in {1, -1} : cursor' = (cursor + dir + RowCount) % RowCount
    /\ UNCHANGED <<sent, screen, pending, ir>>

HomeMacro ==
    /\ Free("Home")
    /\ \/ Ask(GoodNight)
       \/ Send(Intent("macro", "alloff", None))

-----------------------------------------------------------------------------
(* Keys that act.  on, mute, bri and raw are what the view says.           *)

OnOff(target, given) ==
    \E on \in BOOLEAN : Send(Intent(target, IF on THEN "off" ELSE "on", given))

BriStep(bri, dir, lo, hi) == Clamp(bri + dir * 32, lo, hi)

\* With the cursor past the end, every key but the arrows is swallowed.
RoomsKey ==
    /\ Free("Rooms")
    /\ IF cursor \notin 0 .. Len(rooms) - 1 THEN UNCHANGED <<st, sent>>
       ELSE LET r == rooms[cursor + 1]
            IN  \/ OnOff("hue", [arg |-> r])
                \/ \E bri \in Bris, dir \in {1, -1} :
                      Send(Intent("hue", "bri", [arg |-> r, arg2 |-> BriStep(bri, dir, 1, 254)]))

\* With the strip in the hands of strip-warn an effect is refused.
LichtwerkKey ==
    /\ Free("Lichtwerk")
    /\ \/ OnOff("lw", None)
       \/ UNCHANGED <<st, sent>>
       \/ \E name \in CycleFrom(kLwEffects, {1, -1}) : Send(Intent("lw", "effect", [name |-> name]))
       \/ \E bri \in Bris, dir \in {1, -1} :
             Send(Intent("lw", "bri", [arg2 |-> BriStep(bri, dir, 0, 255)]))

YamahaKey ==
    /\ Free("Yamaha")
    /\ \/ OnOff("yam", None)
       \/ \E step \in {2, -2} : Send(Intent("yam", "vol", [arg |-> step]))
       \/ \E name \in CycleFrom(kYamahaInputs, {1}) : Send(Intent("yam", "input", [name |-> name]))
       \/ Send(Intent("yam", "mute", None))

SwitchPath == Free("Teufel") /\ ir' = ~ir /\ UNCHANGED <<sent, screen, cursor, pending>>

TeufelKey ==
    /\ Free("Teufel")
    /\ \/ \E a \in {"power", "mute"} : Send(Intent("tf", a, None))
       \/ \E step \in {1, -1} : Send(Intent("tf", "vol", [arg |-> step]))
       \/ \E name \in CycleFrom(kTeufelInputs, {1}) : Send(Intent("tf", "input", [name |-> name]))

DiscoKey ==
    /\ Free("Disco")
    /\ \/ OnOff("disco", None)
       \/ \E name \in CycleFrom(kDiscoModes, {1, -1}) : Send(Intent("disco", "mode", [name |-> name]))

\* Off at once, on only through the prompt.
FogKey ==
    /\ Free("Fog")
    /\ Send(Intent("fog", "off", None)) \/ Ask(FogOn)

-----------------------------------------------------------------------------
(* The pass of loop().                                                     *)

HandleKey ==
    \/ Confirm \/ Cancel
    \/ RunLine \/ LeaveConsole \/ EditLine
    \/ GoHome \/ OpenConsole \/ OpenRow \/ EnterOnHome \/ OpenDiagnostics
    \/ MoveCursor \/ HomeMacro
    \/ RoomsKey \/ LichtwerkKey \/ YamahaKey \/ SwitchPath \/ TeufelKey
    \/ DiscoKey \/ FogKey

Key == Handled /\ HandleKey

\* No key, or one that handleKey() has no use for on this screen.
NoKey == stage = "key" /\ stage' = "pump" /\ UNCHANGED <<st, rooms, sent, dirty, drawn>>

\* u on Home: a stay in ota::runMode(), after which loop() starts again
\* without having pumped or drawn.
Ota ==
    /\ stage = "key" /\ Free("Home")
    /\ dirty' = TRUE
    /\ UNCHANGED <<st, rooms, sent, drawn, stage>>

\* A mutant: a snapshot waits for the slow tick to be drawn.
PumpQuietly ==
    /\ stage = "pump" /\ stage' = "draw"
    /\ rooms' \in RoomLists
    /\ UNCHANGED <<st, sent, dirty, drawn>>

\* pumpNetwork(): a snapshot that parses, or nothing new.
Pump ==
    /\ stage = "pump" /\ stage' = "draw"
    /\ \/ rooms' \in RoomLists /\ dirty' = TRUE
       \/ UNCHANGED <<rooms, dirty>>
    /\ UNCHANGED <<st, sent, drawn>>

\* A frame when something changed, or when the slow tick is due.
Draw ==
    /\ stage = "draw" /\ stage' = "sleep"
    /\ \/ drawn' = Frame /\ dirty' = FALSE
       \/ ~dirty /\ UNCHANGED <<drawn, dirty>>
    /\ sent' = NothingSent
    /\ UNCHANGED <<st, rooms>>

NextPass == stage = "sleep" /\ stage' = "key" /\ UNCHANGED <<st, rooms, sent, dirty, drawn>>

\* Sleep, never with a prompt open, is a reset: setup() draws the snapshot it
\* finds in RTC memory, if any.  It may be an older one: a snapshot that does
\* not fit is not saved.
SleepAndWake ==
    /\ stage = "sleep" /\ pending = NoIntent
    /\ stage' = "key"
    /\ screen' = "Home" /\ cursor' = 0 /\ ir' = FALSE
    /\ rooms' \in RoomLists \cup {<<>>}
    /\ drawn' = [screen |-> "Home", prompt |-> NoIntent, room |-> 0]
    /\ dirty' = TRUE
    /\ UNCHANGED <<pending, sent>>

Next == Key \/ NoKey \/ Ota \/ Pump \/ Draw \/ NextPass \/ SleepAndWake

Spec == Init /\ [][Next]_vars

-----------------------------------------------------------------------------
(* Properties.                                                             *)

Paths == {"net", "ir"}

\* The variables hold what the code's types allow, and only the two actions
\* that are worth a question ever wait for an answer.
TypeOK ==
    /\ screen \in Screens /\ cursor \in Nat /\ ir \in BOOLEAN
    /\ pending \in {NoIntent, FogOn, GoodNight}
    /\ rooms \in RoomLists \cup {<<>>}
    /\ sent.path \in Paths /\ dirty \in BOOLEAN
    /\ drawn.screen \in Screens /\ drawn.room \in Nat
    /\ stage \in {"key", "pump", "draw", "sleep"}

\* The fog machine is started only by a key that answered its prompt, and only
\* after a frame with that prompt had been on the screen: from the key, from
\* the console, across snapshots and sleep (handleKey, confirmation gate).
FogOnlyAfterPrompt ==
    [][sent' # sent /\ sent'.intent = FogOn => drawn.prompt = FogOn]_vars

\* A key on the room list acts on the room that the frame in front of the
\* user marks, although the list under it may change with every snapshot.
ActsOnTheRoomShown ==
    [][sent' # sent /\ sent'.intent.target = "hue" /\ screen = "Rooms" =>
          drawn.screen = "Rooms" /\ sent'.intent.given.arg = drawn.room]_vars

\* Whatever a key or a line sends over the network, the gateway takes, unless
\* it does not know the state a relative action starts from, and then it says
\* so (buildActionBody against plan, on every request the remote can make).
TakenByGateway ==
    sent.intent # NoIntent /\ sent.path = "net" =>
        \A s \in House :
            Plan(sent.intent, s).status = IF Needs(sent.intent) \subseteq DOMAIN s
                                          THEN 200 ELSE 409

\* Complete snapshots: what is known to the gateway is known to the remote.
Complete == {s \in House : {"LwOn", "YamOn", "YamMute", "YamRaw", "TfOn", "TfMute",
                            "TfVol", "DiscoOn"} \subseteq DOMAIN s}

InputByInfrared == sent.path = "ir" /\ sent.intent.action = "input"

Asked(s) == IF sent.path = "ir" THEN Infrared(sent.intent, s)
                                ELSE Plan(sent.intent, s).effect

\* As long as remote and gateway hold the same snapshot, what the screen
\* claims after a press is what the gateway, or the burst of infrared, asks
\* the house for: claimFor(), plan() and sendTeufelIr() agree on directions,
\* steps, names and ranges.  There are two exceptions: the claim goes past the
\* end of the volume range, and infrared knows one input only.
ClaimIsWhatIsAsked ==
    sent.intent # NoIntent =>
        \A s \in Complete :
            \/ AtVolumeLimit(sent.intent, s) \/ InputByInfrared
            \/ Agree(Claim(sent.intent, s), Asked(s))
=============================================================================
