--------------------------- MODULE MCOverlayStore ---------------------------
(***************************************************************************)
(* OverlayStore for TLC, with what the documentation claims for the screen *)
(* and the code does not keep.                                             *)
(***************************************************************************)
EXTENDS OverlayStore

\* "A press changes the screen now" (ARCHITECTURE.md, Optimistic rendering;
\* optimistic.h says a key press changes the screen *now*): the field a press
\* sets shows that value on the next frame.
PressShows ==
    [][\A f \in Field, v \in Value : PressSet(f, v) => View'[f] = v]_vars

\* "holding + is one moving claim" (ARCHITECTURE.md, Optimistic rendering): a
\* relative press moves what the screen shows, like the one before it.
RelativePressMoves ==
    [][\A f \in Field, ir \in BOOLEAN :
            PressToggle(f, ir) => View'[f] # View[f]]_vars

\* A snapshot arrives.
Arrives == Snapshot(dash', listed', litCount')

\* "a fresher snapshot agrees (the claim retires silently, nothing flickers)"
\* (ARCHITECTURE.md): retiring a claim changes nothing on the screen.
SettlingIsSilent ==
    [][\A i \in Slot :
        Arrives /\ Settles(slots[i], dash', listed') =>
            /\ View'[slots[i].field] = View[slots[i].field]
            /\ slots[i].field[1] = "RoomBri" =>
                   LET on == <<"RoomOn", slots[i].field[2]>> IN View'[on] = View[on]]_vars

\* "A snapshot newer than a claim settles it, whichever way it went"
\* (optimistic.h, settleWith): a snapshot that comes a pass or more after a
\* press leaves no claim of that press.
SnapshotSettles ==
    [][\A i \in Slot : Arrives /\ slots[i].age > 0 => ~slots'[i].active]_vars

\* "until a network poll independently agrees" (optimistic.h, kUnconfirmedMs):
\* a snapshot that agrees with an infrared claim ends its being unconfirmed.
PollConfirmsInfrared ==
    [][\A i \in Slot :
        LET o == slots[i] IN
        Arrives /\ o.active /\ o.viaIr /\ dash'[o.field] = o.value =>
            ~slots'[i].active]_vars

\* "oldest wins; never drop the press" (optimistic.cpp, claim): when the table
\* is full, the claim that makes room is the oldest one.
OldestMakesRoom ==
    [][\A i \in Slot :
        Alive(slots[i], now) /\ slots'[i].active
                /\ slots'[i].field # slots[i].field =>
            \A j \in Slot : slots[i].token <= slots[j].token]_vars
=============================================================================
