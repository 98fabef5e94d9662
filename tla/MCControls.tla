----------------------------- MODULE MCControls ------------------------------
(***************************************************************************)
(* Controls for TLC: lists of rooms, readings at the ends of their ranges, *)
(* and what a comment and a test claim and the code does not keep.         *)
(***************************************************************************)
EXTENDS Controls

\* No room, one, some of them in another order, and as many as fit (kMaxRooms).
SomeLists == {<<>>, <<2>>, <<3, 1>>, <<1, 2, 3>>, <<1, 2, 3, 4, 5, 6, 7, 8>>}

\* At, within and beyond the ends of the row; the receiver has half steps.
SomeRaws == {-805, -800, -795, -280, -205, -200, -195}

Full(b, raw) == [RoomOn |-> b, LwOn |-> b, YamOn |-> b, YamMute |-> b, YamRaw |-> raw,
                 TfOn |-> b, TfMute |-> b, TfVol |-> 10, DiscoOn |-> b]

\* Everything known, and everything but one.
SomeHouses == LET f == DOMAIN Full(TRUE, 0)
              IN  {[x \in k |-> Full(b, raw)[x]] :
                      k \in {f} \cup {f \ {x} : x \in f}, b \in BOOLEAN, raw \in {-800, 160}}

\* "at the edge: nothing past it" (controls.cpp, adjust), "receiver volume is a
\* step and stops at the ceiling" (test_controls.cpp): what a step asks for is
\* in the range of the row.
VolumeStopsAtTheEdge ==
    sent.intent.target = "yam" /\ sent.intent.action = "vol" =>
        sent.value + sent.intent.given.arg * 5 \in Bounds.YamVol.min .. Bounds.YamVol.max
=============================================================================
