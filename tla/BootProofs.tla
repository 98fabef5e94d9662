------------------------------ MODULE BootProofs ------------------------------
(***************************************************************************)
(* Theorems about Boot for any sets of builds and of typed values, and, at *)
(* the end, about the other thing the store keeps, the hint of WifiLink.   *)
(***************************************************************************)
EXTENDS Boot, Integers, TLAPS

\* The variables of WifiLink, for the instance of it.
VARIABLES stage, kind, link, static, hint, fast, holdoff, host, storedHost,
          rediscovered, lastStatus, tried, apRight, leaseOurs, hintOld, calm

Link == INSTANCE WifiLink

\* What save() may still have to write.
Rests == {Keys, <<"pass", "host", "token", "port">>, <<"host", "token", "port">>,
          <<"token", "port">>, <<"port">>, <<>>}

KeysOf(s) == {s[n] : n \in DOMAIN s}

\* The credentials of c are those of the set entered last.
Agrees(c) == last # "" /\ \A k \in Creds : c[k] = Config(last)[k]

Written == Field \ KeysOf(todo)

\* Where the main task is says whether the fingerprint is that of the build,
\* and the worker runs only beside loop().
Flow ==
    /\ pc \in {"load", "setup", "typed", "run"} => ~Seeds(build)
    /\ pc = "seed" => Seeds(build) /\ typing = build
    /\ pc = "typed" => typing \in Typed
    /\ pc \in {"setup", "typed", "erased"} => seedfp = ""
    /\ pc = "erased" => last = ""
    /\ find # "no" => Up

\* How far save() has come in setup().  The old token is gone before a typed
\* set is written: setup() would not ask for one otherwise.
Writing ==
    pc \in {"seed", "typed"} =>
        /\ todo \in Rests
        /\ \A k \in Written : nvs[k] = Config(typing)[k]
        /\ "token" \in Written => last = typing /\ ~excused
        /\ pc = "typed" /\ "token" \notin Written => excused \/ nvs["token"] = ""

\* A configuration that load() rejects is never called seeded.
SeededLoads == seedfp # "" => Loadable(nvs)

\* What is in flash: no token, the set entered last, or a seeding that the next
\* boot repeats; and the fingerprint names that set, with the same exception.
Stored ==
    ~excused =>
        /\ nvs["token"] = "" \/ Agrees(nvs) \/ Unfinished
        /\ seedfp # "" => last = seedfp \/ Unfinished
        /\ pc = "setup" => nvs["token"] = ""
        /\ pc = "run" => Agrees(nvs) /\ Agrees(cfg)

\* What the worker is about to write back.
WrittenBack ==
    find = "save" => Loadable(saved) /\ (~excused /\ last # "" => Agrees(saved))

\* The strengthened invariant: inductive, and it implies the three properties.
IInv == TypeOK /\ Flow /\ Writing /\ SeededLoads /\ Stored /\ WrittenBack
-----------------------------------------------------------------------------
\* The five keys, and which of them are credentials.
LEMMA FieldFacts ==
    Field = {"ssid", "pass", "host", "token", "port"} /\ Creds \subseteq Field
  <1>1. DOMAIN Keys = 1 .. 5
    BY DEF Keys
  <1>2. Field = {Keys[1], Keys[2], Keys[3], Keys[4], Keys[5]}
    BY <1>1 DEF Field
  <1> QED BY <1>2 DEF Keys, Creds

\* A set that may be entered has a name and a token of its own.
LEMMA ConfigFacts ==
    ASSUME NEW s \in Baked \cup Typed
    PROVE  /\ s # "" /\ Config(s) \in [Field -> Value]
           /\ Config(s)["ssid"] = s /\ Config(s)["token"] = s
  BY BootAssumption, FieldFacts DEF Config, Value

\* save() writes its keys in one order, whatever it has got through.
LEMMA RestFacts ==
    /\ Keys \in Rests /\ <<>> \in Rests
    /\ KeysOf(Keys) = Field /\ KeysOf(<<>>) = {}
    /\ \A t \in Rests : KeysOf(t) \subseteq Field /\ t \in Seq(Field)
    /\ \A t \in Rests : t # <<>> =>
          /\ Head(t) \in KeysOf(t) /\ Tail(t) \in Rests
          /\ KeysOf(Tail(t)) = KeysOf(t) \ {Head(t)}
          /\ Head(t) # "ssid" => "ssid" \notin KeysOf(t)
          /\ Head(t) = "token" => KeysOf(t) = {"token", "port"}
    /\ \A t \in Rests : "token" \notin KeysOf(t) => KeysOf(t) \subseteq {"port"}
  <1>1. /\ KeysOf(Keys) = {"ssid", "pass", "host", "token", "port"}
        /\ Head(Keys) = "ssid" /\ Tail(Keys) = <<"pass", "host", "token", "port">>
    <2>1. DOMAIN Keys = 1 .. 5
      BY DEF Keys
    <2>2. KeysOf(Keys) = {Keys[1], Keys[2], Keys[3], Keys[4], Keys[5]}
      BY <2>1 DEF KeysOf
    <2> QED BY <2>2 DEF Keys
  <1>2. /\ KeysOf(<<"pass", "host", "token", "port">>) = {"pass", "host", "token", "port"}
        /\ Head(<<"pass", "host", "token", "port">>) = "pass"
        /\ Tail(<<"pass", "host", "token", "port">>) = <<"host", "token", "port">>
    BY DEF KeysOf
  <1>3. /\ KeysOf(<<"host", "token", "port">>) = {"host", "token", "port"}
        /\ Head(<<"host", "token", "port">>) = "host"
        /\ Tail(<<"host", "token", "port">>) = <<"token", "port">>
    BY DEF KeysOf
  <1>4. /\ KeysOf(<<"token", "port">>) = {"token", "port"}
        /\ Head(<<"token", "port">>) = "token" /\ Tail(<<"token", "port">>) = <<"port">>
    BY DEF KeysOf
  <1>5. /\ KeysOf(<<"port">>) = {"port"}
        /\ Head(<<"port">>) = "port" /\ Tail(<<"port">>) = <<>>
    BY DEF KeysOf
  <1>6. KeysOf(<<>>) = {}
    BY DEF KeysOf
  <1>7. \A t \in Rests : t \in Seq(Field)
    <2>1. /\ "ssid" \in Field /\ "pass" \in Field /\ "host" \in Field
          /\ "token" \in Field /\ "port" \in Field
      BY FieldFacts
    <2>2. <<"port">> \in Seq(Field) /\ <<>> \in Seq(Field)
      BY <2>1
    <2>3. <<"token", "port">> \in Seq(Field)
      BY <2>1
    <2>4. <<"host", "token", "port">> \in Seq(Field)
      BY <2>1
    <2>5. <<"pass", "host", "token", "port">> \in Seq(Field)
      BY <2>1
    <2>6. Keys \in Seq(Field)
      BY <2>1 DEF Keys
    <2> QED BY <2>2, <2>3, <2>4, <2>5, <2>6 DEF Rests
  <1>8. \A t \in Rests : KeysOf(t) \subseteq Field
    BY <1>1, <1>2, <1>3, <1>4, <1>5, <1>6, FieldFacts DEF Rests
  <1>9. ASSUME NEW t \in Rests, t # <<>>
        PROVE  /\ Head(t) \in KeysOf(t) /\ Tail(t) \in Rests
               /\ KeysOf(Tail(t)) = KeysOf(t) \ {Head(t)}
               /\ Head(t) # "ssid" => "ssid" \notin KeysOf(t)
               /\ Head(t) = "token" => KeysOf(t) = {"token", "port"}
    <2>1. CASE t = Keys
      BY <1>1, <1>2, <2>1 DEF Rests
    <2>2. CASE t = <<"pass", "host", "token", "port">>
      BY <1>2, <1>3, <2>2 DEF Rests
    <2>3. CASE t = <<"host", "token", "port">>
      BY <1>3, <1>4, <2>3 DEF Rests
    <2>4. CASE t = <<"token", "port">>
      BY <1>4, <1>5, <2>4 DEF Rests
    <2>5. CASE t = <<"port">>
      BY <1>5, <1>6, <2>5 DEF Rests
    <2> QED BY <1>9, <2>1, <2>2, <2>3, <2>4, <2>5 DEF Rests
  <1>10. \A t \in Rests : "token" \notin KeysOf(t) => KeysOf(t) \subseteq {"port"}
    BY <1>1, <1>2, <1>3, <1>4, <1>5, <1>6 DEF Rests
  <1> QED BY <1>1, <1>6, <1>7, <1>8, <1>9, <1>10, FieldFacts DEF Rests
-----------------------------------------------------------------------------
\* Finding the gateway leaves the credentials alone.
LEMMA FoundFacts ==
    ASSUME NEW c \in [Field -> Value]
    PROVE  /\ WithFound(c) \in [Field -> Value]
           /\ \A k \in Creds : WithFound(c)[k] = c[k]
           /\ Loadable(c) => Loadable(WithFound(c))
  BY FieldFacts DEF WithFound, Value, Creds, Loadable

\* A set that was typed or compiled in is what load() accepts.
LEMMA AgreesLoads ==
    ASSUME TypeOK, NEW c \in [Field -> Value], Agrees(c)
    PROVE  Loadable(c) /\ c["token"] = last /\ c["ssid"] = last
  BY ConfigFacts DEF TypeOK, Agrees, Loadable, Creds

\* The strengthened invariant holds of a device that was never on.
LEMMA InitInvariant == Init => IInv
  <1> SUFFICES ASSUME Init PROVE IInv
    OBVIOUS
  <1>1. Blank \in [Field -> Value] /\ <<>> \in Seq(Field)
    BY DEF Blank, Value
  <1>2. Blank["token"] = ""
    BY FieldFacts DEF Blank
  <1> QED
    BY <1>1, <1>2 DEF Init, IInv, TypeOK, Flow, Writing, SeededLoads, Stored, WrittenBack, Up

\* Every step of the main task, the worker and the world preserves it.
LEMMA StepInvariant == IInv /\ [Next]_vars => IInv'
  <1> SUFFICES ASSUME IInv, [Next]_vars PROVE IInv'
    OBVIOUS
  <1> USE DEF IInv
  <1>0. /\ Blank \in [Field -> Value] /\ Blank["token"] = ""
        /\ <<>> \in Seq(Field) /\ Keys \in Seq(Field)
    BY FieldFacts, RestFacts DEF Blank, Value
  <1>1. CASE Begin
    <2>1. TypeOK'
      <3>1. CASE Seeds(build)
        BY <1>0, <1>1, <3>1 DEF Begin, store, worker, TypeOK, Seeds
      <3>2. CASE ~Seeds(build)
        BY <1>1, <3>2 DEF Begin, store, worker, TypeOK
      <3> QED BY <3>1, <3>2
    <2>2. Writing'
      <3>1. CASE Seeds(build)
        BY <1>1, <3>1, RestFacts DEF Begin, store, worker, Writing, Written
      <3>2. CASE ~Seeds(build)
        BY <1>1, <3>2 DEF Begin, Writing
      <3> QED BY <3>1, <3>2
    <2>3. Flow' /\ SeededLoads' /\ Stored' /\ WrittenBack'
      BY <1>1, <1>0 DEF Begin, store, worker, Flow, Up, Seeds, SeededLoads, Loadable,
         Stored, Agrees, Unfinished, WrittenBack
    <2> QED BY <2>1, <2>2, <2>3
  <1>2. CASE WriteKey
    <2> DEFINE h == Head(todo)
    <2>a. /\ typing \in Baked \cup Typed /\ todo \in Rests /\ todo # <<>>
          /\ \A k \in Written : nvs[k] = Config(typing)[k]
      BY <1>2 DEF WriteKey, Flow, Writing, Seeds
    <2>b. /\ h \in Field /\ Tail(todo) \in Rests
          /\ h \notin Written /\ Written' = Written \cup {h} /\ "ssid" \in Written'
      BY <1>2, <2>a, RestFacts, FieldFacts DEF WriteKey, Written
    <2>c. nvs' \in [Field -> Value] /\ \A k \in Written' : nvs'[k] = Config(typing)[k]
      <3>1. Config(typing)[h] \in Value
        BY <2>a, <2>b, ConfigFacts
      <3>2. nvs' = [nvs EXCEPT ![h] = Config(typing)[h]]
        BY <1>2 DEF WriteKey
      <3> QED BY <2>a, <2>b, <3>1, <3>2 DEF TypeOK, Written
    <2>d. nvs'["ssid"] = typing /\ typing # ""
      BY <2>a, <2>b, <2>c, ConfigFacts
    <2>e. \A k \in Field \ {h} : nvs'[k] = nvs[k]
      BY <1>2, <2>b DEF WriteKey, TypeOK
    <2>1. TypeOK'
      BY <1>2, <2>a, <2>b, <2>c, RestFacts DEF WriteKey, worker, TypeOK
    <2>2. Writing'
      <3>1. CASE h = "token"
        BY <1>2, <2>b, <2>c, <3>1 DEF WriteKey, Writing
      <3>2. CASE h # "token"
        <4>1. nvs'["token"] = nvs["token"]
          BY <2>e, <3>2, FieldFacts
        <4> QED BY <1>2, <2>b, <2>c, <3>2, <4>1 DEF WriteKey, Writing
      <3> QED BY <3>1, <3>2
    <2>3. SeededLoads'
      <3> SUFFICES ASSUME seedfp' # "" PROVE nvs'["token"] # ""
        BY <2>d DEF SeededLoads, Loadable
      <3>1. nvs["token"] # ""
        BY <1>2 DEF WriteKey, SeededLoads, Loadable
      <3>2. CASE h = "token"
        BY <2>a, <2>b, <2>c, <3>2, ConfigFacts
      <3>3. CASE h # "token"
        BY <2>e, <3>1, <3>3, FieldFacts
      <3> QED BY <3>2, <3>3
    <2>4. Stored'
      <3>1. ASSUME {"ssid", "pass", "token"} \subseteq Written', last' = typing
            PROVE  Agrees(nvs)'
        BY <2>c, <2>d, <3>1 DEF Agrees, Creds
      <3>2. pc' \in {"seed", "typed"} /\ (pc = "seed" => Unfinished') /\ (pc = "typed" => seedfp' = "")
        BY <1>2, <2>d DEF WriteKey, Flow, Seeds, Unfinished
      <3>3. CASE h = "token"
        <4>1. {"ssid", "pass", "token"} \subseteq Written'
          BY <2>a, <2>b, <3>3, RestFacts, FieldFacts DEF Written
        <4> QED BY <1>2, <3>1, <3>2, <3>3, <4>1 DEF WriteKey, Stored, Flow, Agrees
      <3>4. CASE h # "token"
        <4>1. excused' = excused /\ last' = last /\ nvs'["token"] = nvs["token"]
          BY <1>2, <2>e, <3>4, FieldFacts DEF WriteKey
        <4>2. ASSUME pc = "typed", "token" \in Written PROVE Agrees(nvs)'
          <5>1. {"ssid", "pass", "token"} \subseteq Written'
            BY <2>a, <2>b, <4>2, RestFacts, FieldFacts DEF Written
          <5> QED BY <1>2, <3>1, <4>1, <4>2, <5>1 DEF WriteKey, Writing
        <4>3. ASSUME pc = "typed", "token" \notin Written, ~excused PROVE nvs'["token"] = ""
          BY <4>1, <4>3 DEF Writing
        <4> QED BY <1>2, <3>2, <4>1, <4>2, <4>3 DEF WriteKey, Stored
      <3> QED BY <3>3, <3>4
    <2>5. WrittenBack'
      BY <1>2, <1>0 DEF WriteKey, worker, WrittenBack, Loadable, Agrees, Flow, TypeOK, Up, Seeds
    <2>6. Flow'
      BY <1>2 DEF WriteKey, worker, Flow, Up, Seeds
    <2> QED BY <2>1, <2>2, <2>3, <2>4, <2>5, <2>6
  <1>3. CASE Seeded
    <2>a. typing = build /\ build \in Baked /\ last = build /\ ~excused
      BY <1>3, RestFacts, FieldFacts DEF Seeded, Flow, Writing, Written, Seeds
    <2>b. Agrees(nvs)
      <3>1. \A k \in Creds : nvs[k] = Config(typing)[k]
        BY <1>3, RestFacts, FieldFacts DEF Seeded, Writing, Written
      <3> QED BY <2>a, <3>1, ConfigFacts DEF Agrees
    <2>1. TypeOK'
      BY <1>3, <2>a DEF Seeded, worker, TypeOK
    <2>2. SeededLoads'
      BY <1>3, <2>b, AgreesLoads DEF Seeded, TypeOK, SeededLoads, Loadable
    <2>3. Stored'
      BY <1>3, <2>a, <2>b DEF Seeded, Stored, Agrees
    <2>4. Flow' /\ Writing' /\ WrittenBack'
      BY <1>3, <1>0 DEF Seeded, worker, Flow, Up, Seeds, Writing, Written, WrittenBack,
         Loadable, Agrees
    <2> QED BY <2>1, <2>2, <2>3, <2>4
  <1>4. CASE Load
    <2>a. ASSUME ~excused PROVE nvs["token"] = "" \/ Agrees(nvs)
      BY <1>4, <2>a DEF Load, Flow, Seeds, Stored, Unfinished
    <2>b. ASSUME Agrees(nvs) PROVE Loadable(nvs)
      BY <2>b, AgreesLoads DEF TypeOK
    <2>1. TypeOK'
      BY <1>4 DEF Load, store, worker, TypeOK
    <2>2. Flow'
      BY <1>4 DEF Load, store, worker, Flow, Up, Seeds, SeededLoads
    <2>3. Stored'
      <3>1. CASE Loadable(nvs)
        BY <1>4, <2>a, <3>1 DEF Load, store, worker, Stored, Agrees, Loadable, Unfinished
      <3>2. CASE ~Loadable(nvs)
        BY <1>4, <2>a, <2>b, <3>2 DEF Load, store, worker, Stored, Agrees, Unfinished
      <3> QED BY <3>1, <3>2
    <2>4. Writing' /\ SeededLoads' /\ WrittenBack'
      BY <1>4 DEF Load, store, worker, Writing, Written, SeededLoads, Loadable, WrittenBack,
         Agrees
    <2> QED BY <2>1, <2>2, <2>3, <2>4
  <1>5. CASE Type
    <2>1. TypeOK'
      BY <1>0, <1>5 DEF Type, store, worker, TypeOK
    <2>2. Writing'
      BY <1>5, RestFacts, FieldFacts DEF Type, store, worker, Writing, Written, Stored
    <2>3. Flow' /\ SeededLoads' /\ Stored' /\ WrittenBack'
      BY <1>5, <1>0 DEF Type, store, worker, Flow, Up, Seeds, SeededLoads, Loadable, Stored,
         Agrees, Unfinished, WrittenBack
    <2> QED BY <2>1, <2>2, <2>3
  <1>6. CASE SetupDone
    <2>a. /\ typing \in Typed /\ last = typing /\ ~excused
          /\ \A k \in Creds : nvs[k] = Config(typing)[k]
      BY <1>6, RestFacts, FieldFacts DEF SetupDone, Flow, Writing, Written
    <2>1. TypeOK'
      BY <1>6, <2>a, ConfigFacts DEF SetupDone, store, worker, TypeOK
    <2>2. Stored'
      <3>1. Agrees(nvs)' /\ Agrees(cfg)'
        BY <1>6, <2>a, ConfigFacts DEF SetupDone, store, Agrees
      <3> QED BY <1>6, <3>1 DEF SetupDone, store, Flow, Stored
    <2>3. Flow' /\ Writing' /\ SeededLoads' /\ WrittenBack'
      BY <1>6, <1>0 DEF SetupDone, store, worker, Flow, Up, Seeds, Writing, Written,
         SeededLoads, Loadable, WrittenBack, Agrees
    <2> QED BY <2>1, <2>2, <2>3
  <1>7. CASE Erase
    <2>1. TypeOK'
      BY <1>7, <1>0 DEF Erase, worker, TypeOK
    <2>2. Flow' /\ Writing' /\ SeededLoads' /\ Stored' /\ WrittenBack'
      BY <1>7, <1>0 DEF Erase, worker, Flow, Up, Seeds, Writing, Written, SeededLoads,
         Loadable, Stored, Agrees, Unfinished, WrittenBack
    <2> QED BY <2>1, <2>2
  <1>8. CASE Restart
    <2>1. TypeOK'
      BY <1>8, <1>0 DEF Restart, store, WorkerDown, TypeOK
    <2>2. Flow' /\ Writing' /\ SeededLoads' /\ Stored' /\ WrittenBack'
      BY <1>8, <1>0 DEF Restart, store, WorkerDown, Flow, Up, Seeds, Writing, Written,
         SeededLoads, Loadable, Stored, Agrees, Unfinished, WrittenBack
    <2> QED BY <2>1, <2>2
  <1>9. CASE Found
    <2>1. TypeOK'
      BY <1>9, FoundFacts DEF Found, store, TypeOK
    <2>2. Stored'
      BY <1>9, FoundFacts DEF Found, store, TypeOK, Stored, Agrees, Unfinished
    <2>3. Flow' /\ Writing' /\ SeededLoads' /\ WrittenBack'
      BY <1>9 DEF Found, store, Flow, Up, Seeds, Writing, Written, SeededLoads, Loadable,
         WrittenBack, Agrees
    <2> QED BY <2>1, <2>2, <2>3
  <1>10. CASE FoundLoad
    <2>1. TypeOK'
      BY <1>0, <1>10, FoundFacts DEF FoundLoad, WorkerDown, store, TypeOK
    <2>2. WrittenBack'
      <3> SUFFICES ASSUME find' = "save"
                   PROVE  Loadable(saved') /\ (~excused' /\ last' # "" => Agrees(saved)')
        BY DEF WrittenBack, Loadable
      <3>1. saved' = WithFound(nvs) /\ Loadable(nvs)
        BY <1>10 DEF FoundLoad, WorkerDown
      <3>2. ASSUME ~excused, last # "" PROVE Agrees(nvs)
        BY <1>10, <3>2 DEF FoundLoad, Up, Flow, Stored
      <3> QED BY <1>10, <3>1, <3>2, FoundFacts DEF FoundLoad, TypeOK, Agrees
    <2>3. Flow' /\ Writing' /\ SeededLoads' /\ Stored'
      BY <1>10, <1>0 DEF FoundLoad, store, WorkerDown, Flow, Up, Seeds, Writing, Written,
         SeededLoads, Loadable, Stored, Agrees, Unfinished
    <2> QED BY <2>1, <2>2, <2>3
  <1>11. CASE FoundWrite
    <2>a. Head(left) \in Field /\ Tail(left) \in Seq(Field)
      <3>1. left \in Seq(Field) /\ left # <<>>
        BY <1>11 DEF FoundWrite, TypeOK
      <3> QED BY <3>1
    <2>b. ASSUME ~excused' PROVE pc = "run" /\ Agrees(saved) /\ Agrees(nvs) /\ Agrees(nvs)'
      <3>1. ~excused /\ last # "" /\ pc = "run"
        BY <1>11, <2>b DEF FoundWrite, Up, Flow, TypeOK
      <3>2. Agrees(saved) /\ Agrees(nvs)
        BY <1>11, <3>1 DEF FoundWrite, WrittenBack, Stored
      <3> QED BY <1>11, <2>a, <3>1, <3>2, FieldFacts DEF FoundWrite, TypeOK, Agrees
    <2>1. TypeOK'
      BY <1>11, <2>a DEF FoundWrite, TypeOK
    <2>2. Writing'
      BY <1>11 DEF FoundWrite, Up, Writing
    <2>3. SeededLoads'
      BY <1>11, <2>a, FieldFacts DEF FoundWrite, TypeOK, SeededLoads, WrittenBack, Loadable
    <2>4. Stored'
      BY <1>11, <2>b DEF FoundWrite, Up, Flow, Seeds, Stored, Agrees, Unfinished
    <2>5. Flow' /\ WrittenBack'
      BY <1>11, <1>0 DEF FoundWrite, Flow, Up, Seeds, WrittenBack, Loadable, Agrees
    <2> QED BY <2>1, <2>2, <2>3, <2>4, <2>5
  <1>12. CASE FoundDone
    <2>1. TypeOK'
      BY <1>12, <1>0 DEF FoundDone, store, WorkerDown, TypeOK
    <2>2. Flow' /\ Writing' /\ SeededLoads' /\ Stored' /\ WrittenBack'
      BY <1>12, <1>0 DEF FoundDone, store, WorkerDown, Flow, Up, Seeds, Writing, Written,
         SeededLoads, Loadable, Stored, Agrees, Unfinished, WrittenBack
    <2> QED BY <2>1, <2>2
  <1>13. CASE PowerOn
    <2>1. TypeOK'
      BY <1>13 DEF PowerOn, store, worker, TypeOK
    <2>2. Flow' /\ Writing' /\ SeededLoads' /\ Stored' /\ WrittenBack'
      BY <1>13 DEF PowerOn, store, worker, Flow, Up, Seeds, Writing, Written, SeededLoads,
         Loadable, Stored, Agrees, Unfinished, WrittenBack
    <2> QED BY <2>1, <2>2
  <1>14. CASE PowerOff
    <2>1. TypeOK'
      BY <1>14, <1>0 DEF PowerOff, store, WorkerDown, TypeOK
    <2>2. Flow' /\ Writing' /\ SeededLoads' /\ Stored' /\ WrittenBack'
      BY <1>14, <1>0 DEF PowerOff, store, WorkerDown, Flow, Up, Seeds, Writing, Written,
         SeededLoads, Loadable, Stored, Agrees, Unfinished, WrittenBack
    <2> QED BY <2>1, <2>2
  <1>15. CASE Reflash
    <2>1. TypeOK'
      BY <1>15 DEF Reflash, store, worker, TypeOK
    <2>2. Flow' /\ Writing' /\ SeededLoads' /\ Stored' /\ WrittenBack'
      BY <1>15 DEF Reflash, store, worker, Flow, Up, Seeds, Writing, Written, SeededLoads,
         Loadable, Stored, Agrees, Unfinished, WrittenBack
    <2> QED BY <2>1, <2>2
  <1>16. CASE UNCHANGED vars
    <2> USE <1>16 DEF vars, store, worker
    <2>1. TypeOK' /\ Flow'
      BY DEF TypeOK, Flow, Up, Seeds
    <2>2. Writing' /\ SeededLoads' /\ WrittenBack'
      BY DEF Writing, Written, SeededLoads, WrittenBack, Loadable, Agrees
    <2>3. Stored'
      BY DEF Stored, Agrees, Unfinished
    <2> QED BY <2>1, <2>2, <2>3
  <1> QED BY <1>1, <1>2, <1>3, <1>4, <1>5, <1>6, <1>7, <1>8,
             <1>9, <1>10, <1>11, <1>12, <1>13, <1>14, <1>15, <1>16 DEF Next

-----------------------------------------------------------------------------
\* The strengthened invariant holds in every behaviour.
LEMMA InvariantHolds == Spec => []IInv
  BY InitInvariant, StepInvariant, PTL DEF Spec

\* Type correctness: what the five keys and both copies of the configuration
\* hold is of a set that was entered, or found, or blank.
THEOREM BootTypeCorrect == Spec => []TypeOK
  <1>1. IInv => TypeOK
    BY DEF IInv
  <1> QED BY <1>1, InvariantHolds, PTL

\* Whatever is interrupted, and wherever: loop() runs on credentials that were
\* entered together, and last (save, load, seeding, setup, write-back).
THEOREM InUseWasEnteredAlways == Spec => []InUseWasEntered
  <1>1. IInv => InUseWasEntered
    BY DEF IInv, Stored, InUseWasEntered, Agrees
  <1> QED BY <1>1, InvariantHolds, PTL

\* A build with values of its own runs on them, whichever builds came before
\* (setup writes the fingerprint last, erase takes it away first).
THEOREM BakedWinsAlways == Spec => []BakedWins
  <1>1. IInv => BakedWins
    <2> SUFFICES ASSUME IInv, pc = "run", build \in Baked, ~excused
                 PROVE  \A k \in Creds : cfg[k] = Config(build)[k]
      BY DEF BakedWins
    <2>1. seedfp = build /\ build # ""
      BY BootAssumption DEF IInv, Flow, Seeds
    <2>2. last = build
      BY <2>1 DEF IInv, Stored, Unfinished
    <2> QED BY <2>2 DEF IInv, Stored, Agrees
  <1> QED BY <1>1, InvariantHolds, PTL

-----------------------------------------------------------------------------
(* The link: what is remembered of it goes together.                       *)

LinkInv == Link!TypeOK /\ Link!AddressDropsWithHint

LEMMA NoneTried == 0 \in 0 .. Link!MinJobs
  BY DEF Link!MinJobs

LEMMA LinkInit == Link!Init => LinkInv
  <1> SUFFICES ASSUME Link!Init PROVE LinkInv
    OBVIOUS
  <1>1. {host, storedHost} \subseteq {"none", "current", "former"} /\ tried \in 0 .. Link!MinJobs
    BY NoneTried DEF Link!Init
  <1>2. {link, static, hint, fast, holdoff, rediscovered, apRight, leaseOurs, hintOld, calm}
            \subseteq BOOLEAN
    BY DEF Link!Init
  <1> QED BY <1>1, <1>2 DEF Link!Init, LinkInv, Link!TypeOK, Link!AddressDropsWithHint

\* The two outcomes of connectWifi().
LEMMA ConnectKeeps ==
    ASSUME LinkInv, Link!ConnectFails \/ Link!ConnectSucceeds
    PROVE  /\ {link', static', hint', fast', holdoff', apRight', leaseOurs', hintOld'}
                 \subseteq BOOLEAN
           /\ static' => hint'
  BY DEF LinkInv, Link!TypeOK, Link!AddressDropsWithHint, Link!ConnectFails,
         Link!ConnectSucceeds

LEMMA LinkStep ==
    ASSUME LinkInv, [Link!Next]_(Link!vars)
    PROVE  LinkInv'
  <1> USE DEF LinkInv, Link!TypeOK, Link!AddressDropsWithHint
  <1>1. CASE Link!BootConnect
    BY <1>1, ConnectKeeps DEF Link!BootConnect
  <1>2. CASE Link!StartJob("dash") \/ Link!StartJob("act")
    BY <1>2 DEF Link!StartJob, Link!ram, Link!world
  <1>3. CASE Link!LinkUp
    BY <1>3 DEF Link!LinkUp, Link!Tries, Link!MinJobs, Link!world
  <1>4. CASE Link!PollHeldOff \/ Link!HostKnown
    BY <1>4 DEF Link!PollHeldOff, Link!HostKnown, Link!ram, Link!world
  <1>5. CASE Link!Attempt
    BY <1>5, ConnectKeeps DEF Link!Attempt, Link!Tries, Link!MinJobs
  <1>6. CASE Link!FirstDiscovery
    BY <1>6 DEF Link!FirstDiscovery, Link!Found, Link!NotFound, Link!world
  <1>7. CASE Link!HttpAnswer
    BY <1>7 DEF Link!HttpAnswer, Link!world
  <1>8. CASE Link!HttpSilence
    BY <1>8 DEF Link!HttpSilence, Link!Found, Link!NotFound, Link!world
  <1>9. CASE Link!BackoffOver
    BY <1>9 DEF Link!BackoffOver, Link!world
  <1>10. CASE Link!Sleep \/ Link!PowerCycle
    BY <1>10, NoneTried DEF Link!Sleep, Link!PowerCycle, Link!RamLost, Link!world
  <1>11. CASE Link!Wake
    BY <1>11 DEF Link!Wake, Link!ram, Link!world
  <1>14. CASE Link!CalmDown
    BY <1>14 DEF Link!CalmDown, Link!ram
  <1>12. CASE Link!Turmoil
    BY <1>12 DEF Link!Turmoil
  <1>13. CASE UNCHANGED Link!vars
    BY <1>13 DEF Link!vars
  <1> QED BY <1>1, <1>2, <1>3, <1>4, <1>5, <1>6, <1>7, <1>8, <1>9, <1>10, <1>11,
             <1>12, <1>13, <1>14 DEF Link!Next, Link!Worker

\* The fixed address goes with the hint it came from, whatever access point,
\* router and gateway do, and through sleep (connectWifi, runJob): an association
\* without a hint always asks DHCP.
THEOREM AddressDropsWithHintAlways ==
    Link!Spec => [](Link!TypeOK /\ Link!AddressDropsWithHint)
  <1>1. LinkInv /\ [Link!Next]_(Link!vars) => LinkInv'
    BY LinkStep
  <1> QED BY <1>1, LinkInit, PTL DEF Link!Spec, LinkInv
=============================================================================
