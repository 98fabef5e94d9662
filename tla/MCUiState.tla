------------------------------ MODULE MCUiState ------------------------------
(***************************************************************************)
(* UiState for TLC: lists of rooms and readings at the ends of their       *)
(* ranges, and what documents and tests claim and the code does not keep.  *)
(***************************************************************************)
EXTENDS UiState

\* No room, one, three, and as many as fit (kMaxRooms), more than Home has rows.
SomeLists == {<<>>, <<2>>, <<1, 2, 3>>, <<1, 2, 3, 4, 5, 6, 7, 8>>}

SomeRaws == {-805, -800, -280, 160, 165}

Full(b, raw) == [RoomOn |-> b, LwOn |-> b, YamOn |-> b, YamMute |-> b, YamRaw |-> raw,
                 TfOn |-> b, TfMute |-> b, TfVol |-> 10, DiscoOn |-> b]

KnownParts == LET f == DOMAIN Full(TRUE, 0)
              IN  {f, {}} \cup {f \ {x} : x \in f} \cup {{x} : x \in f}

SomeHouses == {[x \in k |-> Full(b, raw)[x]] :
                  k \in KnownParts, b \in BOOLEAN, raw \in Raws}

\* "g: Gute Nacht (asks first)", "nacht: goodnight macro (asks first)"
\* (README.md, keys and command line): it is sent only from its prompt.
GoodNightAsks ==
    [][sent' # sent /\ sent'.intent = GoodNight => pending = GoodNight]_vars

\* "the home cursor stays in range" (test_ui.cpp): on Home there is always a
\* row for Enter to open.
HomeCursorInRange == screen = "Home" => cursor \in 0 .. Len(kHomeRows) - 1

\* "Map an intent onto an optimistic claim, so the screen moves on the press"
\* (main.cpp, claimFor): also when the press goes out by infrared.
InfraredInput ==
    InputByInfrared =>
        \A s \in Complete : Agree(Claim(sent.intent, s), Asked(s))

\* "what the remote may optimistically assume" (actions.py, Plan.optimistic):
\* the claim stays within what the gateway will ask for.
ClaimWithinRange ==
    sent.intent # NoIntent =>
        \A s \in Complete : Agree(Claim(sent.intent, s), Plan(sent.intent, s).effect)
=============================================================================
