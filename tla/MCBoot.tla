------------------------------- MODULE MCBoot --------------------------------
(***************************************************************************)
(* Boot for TLC: what documents claim and the code does not keep.          *)
(***************************************************************************)
EXTENDS Boot

\* "the reset gesture still wipes everything" (main.cpp, setup): what is in use
\* after it was entered after it.
WipesEverything == pc = "run" => last # ""

\* "a config typed on the device survives until the baked values themselves
\* change" (main.cpp, setup), and no mixture ever runs.
NoMixture == pc = "run" => \E s \in Baked \cup Typed : \A k \in Creds : cfg[k] = Config(s)[k]
=============================================================================
