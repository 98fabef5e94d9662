--------------------------------- MODULE Boot ---------------------------------
(***************************************************************************)
(* Where the configuration in use comes from: the store in flash           *)
(* (firmware/src/hw_store.cpp), what setup() seeds into it, loads from it  *)
(* and has typed in (main.cpp), what the reset gesture erases, and what    *)
(* the worker writes back when it finds the gateway (hw_net.cpp).          *)
(*                                                                         *)
(* The store is five keys, written one by one; power may go at any time.   *)
(* A value is known by the set of values it was entered with, "" when it   *)
(* is blank or absent, and "found" when mDNS supplied it.                  *)
(***************************************************************************)
EXTENDS Sequences

CONSTANTS
    Baked,      \* compiled-in sets with a network name and a token
    Typed,      \* sets a user may type
    Partial,    \* of these, the ones with neither password nor host
    Builds      \* firmware: members of Baked, or anything else for a build
                \* whose compiled-in values are missing or incomplete

\* setup() seeds, and runSetup() accepts, only what has a name and a token.
ASSUME BootAssumption == "" \notin Baked \cup Typed

Keys  == <<"ssid", "pass", "host", "token", "port">>
Field == {Keys[n] : n \in DOMAIN Keys}
Creds == {"ssid", "pass", "token"}

\* The configuration as it is entered.
Config(s) == [k \in Field |-> IF s \in Partial /\ k \in {"pass", "host"} THEN "" ELSE s]
Blank     == [k \in Field |-> ""]

VARIABLES
    build,   \* what is flashed
    nvs,     \* the five keys
    seedfp,  \* the build whose values were seeded last, or ""
    pc,      \* where the main task is
    todo,    \* keys its save() has still to write
    typing,  \* the set that save() writes
    cfg,     \* the configuration in use, g_cfg of hw_net.cpp; Blank before
    find,    \* discoverGateway(): "no", "load" or "save"
    saved,   \* its copy of the configuration
    left,    \* keys its save() has still to write
    last,    \* history: the set whose token was written last, "" once erased
    excused  \* history: see Reflash and FoundWrite

store  == <<nvs, seedfp>>
worker == <<find, saved, left>>
vars   == <<build, store, pc, todo, typing, cfg, worker, last, excused>>

Init ==
    /\ build \in Builds /\ nvs = Blank /\ seedfp = ""
    /\ pc = "off" /\ todo = <<>> /\ typing = "" /\ cfg = Blank
    /\ find = "no" /\ saved = Blank /\ left = <<>>
    /\ last = "" /\ excused = FALSE

-----------------------------------------------------------------------------
(* setup().                                                                *)

WorkerDown == find' = "no" /\ saved' = Blank /\ left' = <<>>

\* A mutant: what is compiled in is used whatever it is.
SeedsAll(b) == seedfp # b

Seeds(b) == b \in Baked /\ seedfp # b

\* A mutant: the fingerprint is set before the values are written.
BeginMarked ==
    /\ pc = "boot"
    /\ IF Seeds(build)
         THEN pc' = "seed" /\ todo' = Keys /\ typing' = build /\ seedfp' = build
         ELSE pc' = "load" /\ UNCHANGED <<todo, typing, seedfp>>
    /\ UNCHANGED <<build, nvs, cfg, worker, last, excused>>

Begin ==
    /\ pc = "boot"
    /\ IF Seeds(build) THEN pc' = "seed" /\ todo' = Keys /\ typing' = build
                       ELSE pc' = "load" /\ UNCHANGED <<todo, typing>>
    /\ UNCHANGED <<build, store, cfg, worker, last, excused>>

\* One key of save(), of the compiled-in set or of the typed one.  With the
\* token the set is in force: load() has a default for the port.
WriteKey ==
    /\ pc \in {"seed", "typed"} /\ todo # <<>>
    /\ nvs' = [nvs EXCEPT ![Head(todo)] = Config(typing)[Head(todo)]]
    /\ todo' = Tail(todo)
    /\ IF Head(todo) = "token" THEN last' = typing /\ excused' = FALSE
                               ELSE UNCHANGED <<last, excused>>
    /\ UNCHANGED <<build, seedfp, pc, typing, cfg, worker>>

\* setSeedFingerprint().
Seeded ==
    /\ pc = "seed" /\ todo = <<>>
    /\ seedfp' = build /\ pc' = "load" /\ typing' = ""
    /\ UNCHANGED <<build, nvs, todo, cfg, worker, last, excused>>

\* A mutant: a network name is enough.
LoadableByName(c) == c.ssid # ""

Loadable(c) == c.ssid # "" /\ c.token # ""

Load ==
    /\ pc = "load"
    /\ IF Loadable(nvs) THEN cfg' = nvs /\ pc' = "run" ELSE pc' = "setup" /\ UNCHANGED cfg
    /\ UNCHANGED <<build, store, todo, typing, worker, last, excused>>

\* runSetup() until the last Enter: name and token are required.
Type ==
    /\ pc = "setup"
    /\ typing' \in Typed /\ todo' = Keys /\ pc' = "typed"
    /\ UNCHANGED <<build, store, cfg, worker, last, excused>>

SetupDone ==
    /\ pc = "typed" /\ todo = <<>>
    /\ cfg' = Config(typing) /\ pc' = "run" /\ typing' = ""
    /\ UNCHANGED <<build, store, todo, worker, last, excused>>

-----------------------------------------------------------------------------
(* The reset gesture.                                                      *)

\* erase(): everything in the namespace.
Erase ==
    /\ pc = "run"
    /\ nvs' = Blank /\ seedfp' = "" /\ last' = "" /\ pc' = "erased"
    /\ UNCHANGED <<build, todo, typing, cfg, worker, excused>>

\* ESP.restart(), 1.2 s later; the worker runs until then.
Restart ==
    /\ pc = "erased" /\ pc' = "boot"
    /\ cfg' = Blank /\ WorkerDown
    /\ UNCHANGED <<build, store, todo, typing, last, excused>>

-----------------------------------------------------------------------------
(* discoverGateway(), when there is no host or the gateway is silent.      *)

Up == pc \in {"run", "erased"}

WithFound(c) == [c EXCEPT !.host = "found", !.port = "found"]

Found ==
    /\ Up /\ find = "no"
    /\ cfg' = WithFound(cfg) /\ find' = "load"
    /\ UNCHANGED <<build, store, pc, todo, typing, saved, left, last, excused>>

FoundLoad ==
    /\ Up /\ find = "load"
    /\ IF Loadable(nvs) THEN find' = "save" /\ saved' = WithFound(nvs) /\ left' = Keys
                        ELSE WorkerDown
    /\ UNCHANGED <<build, store, pc, todo, typing, cfg, last, excused>>

\* One key of its save().  After an erase it brings back what was erased.
FoundWrite ==
    /\ Up /\ find = "save" /\ left # <<>>
    /\ nvs' = [nvs EXCEPT ![Head(left)] = saved[Head(left)]]
    /\ left' = Tail(left)
    /\ excused' = (excused \/ last = "")
    /\ UNCHANGED <<build, seedfp, pc, todo, typing, cfg, find, saved, last>>

FoundDone ==
    /\ Up /\ find = "save" /\ left = <<>> /\ WorkerDown
    /\ UNCHANGED <<build, store, pc, todo, typing, cfg, last, excused>>

-----------------------------------------------------------------------------
(* The world.                                                              *)

PowerOn ==
    /\ pc = "off" /\ pc' = "boot"
    /\ UNCHANGED <<build, store, todo, typing, cfg, worker, last, excused>>

\* Also deep sleep, and a power cut between any two writes.
PowerOff ==
    /\ pc # "off" /\ pc' = "off"
    /\ todo' = <<>> /\ typing' = "" /\ cfg' = Blank /\ WorkerDown
    /\ UNCHANGED <<build, store, last, excused>>

\* A seeding begun and not finished.  Only the build that began it repeats it
\* on the next boot.
Unfinished == build \in Baked /\ nvs.ssid = build /\ seedfp # build

Reflash ==
    /\ pc = "off" /\ build' \in Builds \ {build}
    /\ excused' = (excused \/ Unfinished)
    /\ UNCHANGED <<store, pc, todo, typing, cfg, worker, last>>

Next ==
    \/ Begin \/ WriteKey \/ Seeded \/ Load \/ Type \/ SetupDone
    \/ Erase \/ Restart
    \/ Found \/ FoundLoad \/ FoundWrite \/ FoundDone
    \/ PowerOn \/ PowerOff \/ Reflash

Spec == Init /\ [][Next]_vars

-----------------------------------------------------------------------------
(* Properties.                                                             *)

Value == Baked \cup Typed \cup {"", "found"}

\* The variables hold what the code's types allow; a fingerprint is that of a
\* complete set of values.
TypeOK ==
    /\ build \in Builds /\ nvs \in [Field -> Value] /\ seedfp \in Baked \cup {""}
    /\ pc \in {"off", "boot", "seed", "load", "setup", "typed", "run", "erased"}
    /\ todo \in Seq(Field) /\ left \in Seq(Field)
    /\ typing \in Baked \cup Typed \cup {""}
    /\ cfg \in [Field -> Value] /\ saved \in [Field -> Value]
    /\ find \in {"no", "load", "save"} /\ last \in Baked \cup Typed \cup {""}
    /\ excused \in BOOLEAN

\* Network name, password and token in use were entered together, and are the
\* last ones entered: whatever was cut short by a power failure, whatever the
\* worker wrote in between, and never after an erase (save, load, the order of
\* seeding, discoverGateway).  Two ways out of this are excused: a write of the
\* worker that comes after an erase, and an unfinished seeding that another
\* build finds.
InUseWasEntered ==
    pc = "run" /\ ~excused =>
        last # "" /\ \A k \in Creds : cfg[k] = Config(last)[k]

\* A build that has values of its own runs on them, whatever was seeded, typed,
\* torn or erased before it was flashed (setup: the fingerprint is written after
\* the values), with the same two excuses.
BakedWins ==
    pc = "run" /\ build \in Baked /\ ~excused => \A k \in Creds : cfg[k] = Config(build)[k]
=============================================================================
