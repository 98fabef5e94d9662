----------------------------- MODULE GatewayProofs -----------------------------
(***************************************************************************)
(* Theorems about Gateway.  For any number of requests at a time: types,   *)
(* where the loop over the known values can fail, and that nothing keeps a *)
(* request from its end.  For requests that come one at a time: what a     *)
(* reply says is current, is.                                              *)
(***************************************************************************)
EXTENDS Gateway, FunctionTheorems, FiniteSetTheorems, WellFoundedInduction, TLAPS

-----------------------------------------------------------------------------
(* Dictionaries, readings and locals.                                      *)

LEMMA Parameters ==
    /\ CacheTtl \in Nat /\ CacheTtl > 0 /\ SlowTtl \in Nat /\ SlowTtl > 0
    /\ MaxClock \in Nat /\ MaxWrite \in Nat
    /\ Writable \subseteq Source /\ Writable \cap Slow = {}
  BY GatewayAssumption

LEMMA DictFacts ==
    ASSUME NEW V, NEW d
    PROVE  d \in Dicts(V) <=> DOMAIN d \subseteq Source /\ d \in [DOMAIN d -> V]
  BY DEF Dicts

LEMMA NothingIsEmpty ==
    ASSUME NEW V
    PROVE  Nothing \in Dicts(V) /\ DOMAIN Nothing = {}
  <1>1. DOMAIN Nothing = {} /\ Nothing \in [{} -> V] BY DEF Nothing
  <1> QED BY <1>1, DictFacts

LEMMA PutTyped ==
    ASSUME NEW V, NEW d \in Dicts(V), NEW k \in Source, NEW v \in V
    PROVE  Put(d, k, v) \in Dicts(V)
  <1>1. DOMAIN d \subseteq Source /\ d \in [DOMAIN d -> V] BY DictFacts
  <1>2. Put(d, k, v) \in [DOMAIN d \cup {k} -> V] BY <1>1 DEF Put
  <1>3. DOMAIN Put(d, k, v) = DOMAIN d \cup {k} BY DEF Put
  <1> QED BY <1>1, <1>2, <1>3, DictFacts

LEMMA SnapFacts ==
    /\ NoSnap \in Snapshot /\ NoSnap.made = FALSE /\ NoSnap.raw = Nothing
    /\ \A x \in Snapshot : x.raw \in Dicts(Reading) /\ DOMAIN x.raw \subseteq Source
  <1>1. NoSnap \in Snapshot BY NothingIsEmpty DEF NoSnap, Snapshot
  <1>2. ASSUME NEW x \in Snapshot
        PROVE  x.raw \in Dicts(Reading) /\ DOMAIN x.raw \subseteq Source
    BY DictFacts DEF Snapshot
  <1> QED BY <1>1, <1>2 DEF NoSnap

LEMMA BlankFacts ==
    /\ Blank \in Locals /\ Blank.todo = {} /\ Blank.base = [k \in Source |-> 0]
    /\ Blank.now = 0 /\ Blank.snap = NoSnap /\ Blank.fresh = {} /\ DOMAIN Blank.got = {}
  BY NothingIsEmpty, SnapFacts, Parameters DEF Blank, Locals, Time

LEMMA ForemostFacts ==
    ASSUME NEW S
    PROVE  /\ Foremost(S) \subseteq S \cap Source
           /\ \A j, k \in Foremost(S) : j = k
  <1>1. Foremost(S) \subseteq S \cap Source BY DEF Foremost, Source
  <1>2. ASSUME NEW j \in Foremost(S), NEW k \in Foremost(S) PROVE j = k
    <2>1. PICK m \in DOMAIN SourceSeq : /\ SourceSeq[m] = j /\ j \in S
                                        /\ \A n \in 1 .. m - 1 : SourceSeq[n] \notin S
      BY DEF Foremost
    <2>2. PICK n \in DOMAIN SourceSeq : /\ SourceSeq[n] = k /\ k \in S
                                        /\ \A i \in 1 .. n - 1 : SourceSeq[i] \notin S
      BY DEF Foremost
    <2>3. m \in Nat \ {0} /\ n \in Nat \ {0}
      <3>1. DOMAIN SourceSeq = 1 .. Len(SourceSeq) /\ Len(SourceSeq) \in Nat
        BY GatewayAssumption
      <3> QED BY <3>1
    <2>4. ~(m < n) /\ ~(n < m) BY <2>1, <2>2, <2>3
    <2> QED BY <2>1, <2>2, <2>3, <2>4
  <1> QED BY <1>1, <1>2

\* A thread moves on, and the others stay where they are.
LEMMA ThreadMoves ==
    ASSUME TypeOK, NEW t \in Thread, NEW m \in Locals, me' = [me EXCEPT ![t] = m]
    PROVE  /\ me' \in [Thread -> Locals] /\ me'[t] = m
           /\ \A u \in Thread : u # t => me'[u] = me[u]
  BY DEF TypeOK

LEMMA ThreadGoes ==
    ASSUME TypeOK, NEW t \in Thread, NEW p \in Places, Goto(t, p)
    PROVE  /\ pc' \in [Thread -> Places] /\ pc'[t] = p
           /\ \A u \in Thread : u # t => pc'[u] = pc[u]
  BY DEF TypeOK, Goto
-----------------------------------------------------------------------------
(* Types.                                                                  *)

LEMMA InitTypes == Init => TypeOK
  <1> SUFFICES ASSUME Init PROVE TypeOK
    OBVIOUS
  <1>1. clock \in Time /\ cacheAt \in Time \cup {LongAgo} BY Parameters DEF Init, Time
  <1>2. house \in [Source -> 0 .. MaxWrite] /\ done \in [Source -> 0 .. MaxWrite]
    BY Parameters DEF Init
  <1>3. last \in Dicts(Reading) /\ lastAt \in Dicts(Time) BY NothingIsEmpty DEF Init
  <1>4. {cacheDash, cacheBody} \subseteq Snapshot BY SnapFacts DEF Init
  <1>5. pc \in [Thread -> Places] BY DEF Init, Places
  <1>6. me \in [Thread -> Locals] BY BlankFacts DEF Init
  <1> QED BY <1>1, <1>2, <1>3, <1>4, <1>5, <1>6 DEF TypeOK

\* What is left alone stays typed.
LEMMA SharedStays ==
    ASSUME TypeOK, UNCHANGED shared
    PROVE  /\ clock' \in Time
           /\ house' \in [Source -> 0 .. MaxWrite] /\ done' \in [Source -> 0 .. MaxWrite]
           /\ last' \in Dicts(Reading) /\ lastAt' \in Dicts(Time)
           /\ cacheAt' \in Time \cup {LongAgo}
           /\ {cacheDash', cacheBody'} \subseteq Snapshot
  BY DEF TypeOK, shared, poller, cache

LEMMA LocalsMove ==
    ASSUME TypeOK, UNCHANGED shared, NEW t \in Thread, NEW p \in Places, NEW m \in Locals,
           Goto(t, p), me' = [me EXCEPT ![t] = m]
    PROVE  TypeOK'
  <1>1. me' \in [Thread -> Locals] BY ThreadMoves
  <1>2. pc' \in [Thread -> Places] BY ThreadGoes
  <1> QED BY <1>1, <1>2, SharedStays DEF TypeOK

LEMMA OnlyGoes ==
    ASSUME TypeOK, UNCHANGED <<shared, me>>, NEW t \in Thread, NEW p \in Places, Goto(t, p)
    PROVE  TypeOK'
  <1>1. me' \in [Thread -> Locals] BY DEF TypeOK
  <1>2. pc' \in [Thread -> Places] BY ThreadGoes
  <1> QED BY <1>1, <1>2, SharedStays DEF TypeOK

\* The locals a request begins with.
LEMMA NewLocals ==
    ASSUME TypeOK
    PROVE  /\ [Blank EXCEPT !.now = clock, !.base = done] \in Locals
           /\ \A k \in Source : [Blank EXCEPT !.todo = {k}, !.base = done] \in Locals
           /\ \A k \in Source, d \in Dicts(Reading) :
                 [Blank EXCEPT !.todo = {k}, !.base = done, !.used = d] \in Locals
           /\ [Blank EXCEPT !.todo = Writable, !.base = done] \in Locals
  <1>1. Blank \in Locals BY BlankFacts
  <1>2. clock \in Time /\ done \in [Source -> 0 .. MaxWrite] BY DEF TypeOK
  <1>3. Writable \subseteq Source BY Parameters
  <1> QED BY <1>1, <1>2, <1>3 DEF Locals

LEMMA RequestTypes ==
    ASSUME TypeOK, NEW t \in Thread, Request(t)
    PROVE  TypeOK'
  <1>1. ASSUME NEW force \in BOOLEAN, StartDash(t, force) PROVE TypeOK'
    <2>1. PICK p \in {"collectAll", "hit", "collect"} : Goto(t, p) BY <1>1 DEF StartDash
    <2>2. p \in Places BY DEF Places
    <2> QED BY <1>1, <2>1, <2>2, NewLocals, LocalsMove DEF StartDash
  <1>2. ASSUME NEW k \in Writable, StartAct(t, k) PROVE TypeOK'
    <2>1. k \in Source /\ "send" \in Places BY Parameters DEF Places
    <2> QED BY <1>2, <2>1, NewLocals, LocalsMove DEF StartAct
  <1>3. ASSUME NEW k \in Writable, StartRelative(t, k) PROVE TypeOK'
    <2>1. k \in Source /\ {"send", "refused"} \subseteq Places BY Parameters DEF Places
    <2>2. CASE Tells(cacheDash.raw, k)
      <3>1. cacheDash.raw \in Dicts(Reading) BY SnapFacts DEF TypeOK
      <3>2. cacheDash.raw[k] \in Reading BY <2>2, <3>1, DictFacts DEF Tells
      <3>3. Put(Nothing, k, cacheDash.raw[k]) \in Dicts(Reading)
        BY <2>1, <3>2, NothingIsEmpty, PutTyped
      <3>4. [Blank EXCEPT !.todo = {k}, !.base = done, !.used = Put(Nothing, k, cacheDash.raw[k])]
               \in Locals
        BY <2>1, <3>3, NewLocals
      <3> QED BY <1>3, <2>1, <2>2, <3>4, LocalsMove DEF StartRelative
    <2>3. CASE ~Tells(cacheDash.raw, k)
      BY <1>3, <2>1, <2>3, OnlyGoes DEF StartRelative
    <2> QED BY <2>2, <2>3
  <1>4. CASE StartMacro(t)
    <2>1. "send" \in Places BY DEF Places
    <2> QED BY <1>4, <2>1, NewLocals, LocalsMove DEF StartMacro
  <1> QED BY <1>1, <1>2, <1>3, <1>4 DEF Request

\* Locals of which one field is another.
LEMMA FieldsTyped ==
    ASSUME NEW m \in Locals
    PROVE  /\ \A x \in Snapshot : [m EXCEPT !.snap = x] \in Locals
           /\ \A S \in SUBSET Source : [m EXCEPT !.todo = S, !.asked = S] \in Locals
           /\ \A d \in Dicts(Reading) : [m EXCEPT !.got = d] \in Locals
           /\ \A k : [m EXCEPT !.todo = @ \ {k}] \in Locals
           /\ \A k \in Source : [m EXCEPT !.fresh = @ \cup {k}, !.todo = @ \ {k}] \in Locals
           /\ \A S \in SUBSET Source : [m EXCEPT !.seen = S] \in Locals
           /\ [m EXCEPT !.fresh = @ \cup (m.seen \ m.asked)] \in Locals
  BY DEF Locals

LEMMA LastTyped ==
    ASSUME TypeOK
    PROVE  last \in Dicts(Reading) /\ DOMAIN last \subseteq Source
  BY DictFacts DEF TypeOK

LEMMA GotTyped ==
    ASSUME TypeOK, NEW t \in Thread
    PROVE  /\ me[t] \in Locals /\ me[t].got \in Dicts(Reading) /\ me[t].now \in Time
           /\ me[t].todo \subseteq Source /\ me[t].asked \subseteq Source
           /\ me[t].fresh \subseteq Source /\ me[t].seen \subseteq Source
           /\ me[t].snap \in Snapshot /\ me[t].base \in [Source -> 0 .. MaxWrite]
           /\ \A k \in DOMAIN me[t].got : me[t].got[k] \in Reading
  <1>1. me[t] \in Locals BY DEF TypeOK
  <1>2. me[t].got \in Dicts(Reading) BY <1>1 DEF Locals
  <1>3. \A k \in DOMAIN me[t].got : me[t].got[k] \in Reading BY <1>2, DictFacts
  <1> QED BY <1>1, <1>2, <1>3 DEF Locals

LEMMA FetchTypes ==
    ASSUME TypeOK, NEW t \in Thread, NEW k \in Source, Fetch(t, k)
    PROVE  TypeOK'
  <1>0. PICK x \in Shapes : me' = [me EXCEPT ![t].got = Put(@, k, Answer(k, x))]
    BY DEF Fetch
  <1> DEFINE d == Put(me[t].got, k, Answer(k, x))
             m == [me[t] EXCEPT !.got = d]
  <1>1. Answer(k, x) \in Reading BY DEF TypeOK, Reading, Answer
  <1>2. d \in Dicts(Reading) BY <1>1, GotTyped, PutTyped
  <1>3. m \in Locals BY <1>2, GotTyped, FieldsTyped
  <1>4. me' = [me EXCEPT ![t] = m] BY <1>0
  <1> HIDE DEF m
  <1>5. me' \in [Thread -> Locals] BY <1>3, <1>4, ThreadMoves
  <1>6. pc' \in [Thread -> Places] /\ UNCHANGED shared BY DEF Fetch, TypeOK
  <1> QED BY <1>5, <1>6, SharedStays DEF TypeOK

LEMMA SubmitTypes ==
    ASSUME TypeOK, NEW t \in Thread, Submit(t)
    PROVE  TypeOK'
  <1> DEFINE jobs == {k \in Source : pc[t] = "collectAll" \/ Due(k, me[t].now)}
             m == [me[t] EXCEPT !.todo = jobs, !.asked = jobs]
  <1>1. jobs \in SUBSET Source OBVIOUS
  <1>2. me' = [me EXCEPT ![t].todo = jobs, ![t].asked = jobs] /\ Goto(t, "fetch")
        /\ UNCHANGED shared
    BY DEF Submit
  <1> HIDE DEF jobs
  <1>3. me' = [me EXCEPT ![t] = m] BY <1>2 DEF TypeOK
  <1>4. m \in Locals BY <1>1, GotTyped, FieldsTyped
  <1>5. "fetch" \in Places BY DEF Places
  <1> HIDE DEF m
  <1> QED BY <1>2, <1>3, <1>4, <1>5, LocalsMove

LEMMA StoreTypes ==
    ASSUME TypeOK, NEW t \in Thread, Store(t)
    PROVE  TypeOK'
  <1>1. PICK k \in Foremost(me[t].todo) :
           IF k \in DOMAIN me[t].got
           THEN last' = Put(last, k, me[t].got[k]) /\ Goto(t, "stamp") /\ UNCHANGED me
           ELSE me' = [me EXCEPT ![t].todo = @ \ {k}] /\ UNCHANGED <<last, pc>>
    BY DEF Store
  <1>2. k \in Source BY ForemostFacts
  <1>3. CASE k \in DOMAIN me[t].got
    <2>1. last' \in Dicts(Reading)
      <3>1. me[t].got[k] \in Reading BY <1>3, GotTyped
      <3>2. Put(last, k, me[t].got[k]) \in Dicts(Reading) BY <1>2, <3>1, LastTyped, PutTyped
      <3> QED BY <1>1, <1>3, <3>2
    <2>2. "stamp" \in Places BY DEF Places
    <2>3. pc' \in [Thread -> Places] BY <1>1, <1>3, <2>2, ThreadGoes
    <2>4. me' \in [Thread -> Locals] BY <1>1, <1>3 DEF TypeOK
    <2> QED BY <2>1, <2>3, <2>4 DEF Store, TypeOK, cache
  <1>4. CASE k \notin DOMAIN me[t].got
    <2> DEFINE m == [me[t] EXCEPT !.todo = @ \ {k}]
    <2>1. m \in Locals BY GotTyped, FieldsTyped
    <2>2. me' = [me EXCEPT ![t] = m] BY <1>1, <1>4
    <2> HIDE DEF m
    <2>3. me' \in [Thread -> Locals] BY <2>1, <2>2, ThreadMoves
    <2>4. UNCHANGED shared /\ pc' \in [Thread -> Places]
      BY <1>1, <1>4 DEF Store, shared, poller, TypeOK
    <2> QED BY <2>3, <2>4, SharedStays DEF TypeOK
  <1> QED BY <1>3, <1>4

LEMMA StampTypes ==
    ASSUME TypeOK, NEW t \in Thread, Stamp(t)
    PROVE  TypeOK'
  <1>1. PICK k \in Foremost(me[t].todo) :
           /\ lastAt' = Put(lastAt, k, me[t].now)
           /\ me' = [me EXCEPT ![t].fresh = @ \cup {k}, ![t].todo = @ \ {k}]
    BY DEF Stamp
  <1> DEFINE m == [me[t] EXCEPT !.fresh = @ \cup {k}, !.todo = @ \ {k}]
  <1>2. k \in Source BY ForemostFacts
  <1>3. lastAt' \in Dicts(Time) BY <1>1, <1>2, GotTyped, PutTyped DEF TypeOK
  <1>4. me' = [me EXCEPT ![t] = m] BY <1>1 DEF TypeOK
  <1>5. m \in Locals BY <1>2, GotTyped, FieldsTyped
  <1> HIDE DEF m
  <1>6. me' \in [Thread -> Locals] BY <1>4, <1>5, ThreadMoves
  <1>7. "fetch" \in Places /\ Goto(t, "fetch") BY DEF Places, Stamp
  <1>8. pc' \in [Thread -> Places] BY <1>7, ThreadGoes
  <1> QED BY <1>3, <1>6, <1>8 DEF Stamp, TypeOK, cache

LEMMA MarkTypes ==
    ASSUME TypeOK, NEW t \in Thread, Mark(t) \/ Marked(t) \/ MarkFails(t) \/ Stored(t)
    PROVE  TypeOK'
  <1>1. {"mark", "marking", "copy", "error"} \subseteq Places BY DEF Places
  <1>2. CASE Mark(t)
    <2> DEFINE m == [me[t] EXCEPT !.seen = DOMAIN last]
    <2>1. m \in Locals BY GotTyped, LastTyped, FieldsTyped
    <2>2. me' = [me EXCEPT ![t] = m] BY <1>2 DEF Mark
    <2> HIDE DEF m
    <2> QED BY <1>1, <1>2, <2>1, <2>2, LocalsMove DEF Mark
  <1>3. CASE Marked(t)
    <2> DEFINE m == [me[t] EXCEPT !.fresh = @ \cup (me[t].seen \ me[t].asked)]
    <2>1. m \in Locals BY GotTyped, FieldsTyped
    <2>2. me' = [me EXCEPT ![t] = m] BY <1>3 DEF Marked
    <2> HIDE DEF m
    <2> QED BY <1>1, <1>3, <2>1, <2>2, LocalsMove DEF Marked
  <1>4. CASE MarkFails(t)
    <2>1. me' = [me EXCEPT ![t] = Blank] /\ Goto(t, "error") /\ UNCHANGED shared
      BY <1>4 DEF MarkFails
    <2> QED BY <1>1, <2>1, BlankFacts, LocalsMove
  <1>5. CASE Stored(t)
    <2>1. Goto(t, "mark") /\ UNCHANGED <<shared, me>> BY <1>5 DEF Stored
    <2> QED BY <1>1, <2>1, OnlyGoes
  <1> QED BY <1>2, <1>3, <1>4, <1>5

\* The snapshot a poll builds.
Built(t) == [made |-> TRUE, raw |-> last, old |-> OldSections(last, me[t].fresh)]

Packed(t) == [Blank EXCEPT !.now = me[t].now, !.base = me[t].base, !.snap = Built(t)]

LEMMA PackedTyped ==
    ASSUME TypeOK, NEW t \in Thread
    PROVE  Built(t) \in Snapshot /\ Packed(t) \in Locals
  <1>1. OldSections(last, me[t].fresh) \in SUBSET Section BY DEF OldSections
  <1>2. Built(t) \in Snapshot BY <1>1, LastTyped DEF Built, Snapshot
  <1>3. Packed(t) \in Locals BY <1>2, GotTyped, BlankFacts DEF Packed, Locals
  <1> QED BY <1>2, <1>3

LEMMA CachingTypes ==
    ASSUME TypeOK, NEW t \in Thread,
           CopyAndBuild(t) \/ CacheDash(t) \/ CacheAt(t) \/ CacheBody(t) \/ Hit(t) \/ Reply(t)
    PROVE  TypeOK'
  <1>1. {"cacheDash", "cacheAt", "cacheBody", "dashReply", "idle"} \subseteq Places BY DEF Places
  <1>2. CASE CopyAndBuild(t)
    <2>1. me' = [me EXCEPT ![t] = Packed(t)] /\ Goto(t, "cacheDash") /\ UNCHANGED shared
      BY <1>2 DEF CopyAndBuild, Packed, Built
    <2> QED BY <1>1, <2>1, PackedTyped, LocalsMove
  <1>3. CASE CacheDash(t) \/ CacheAt(t) \/ CacheBody(t)
    <2>1. PICK p \in {"cacheAt", "cacheBody", "dashReply"} : Goto(t, p)
      BY <1>3 DEF CacheDash, CacheAt, CacheBody
    <2>2. p \in Places BY DEF Places
    <2>3. pc' \in [Thread -> Places] BY <2>1, <2>2, ThreadGoes
    <2> QED BY <1>3, <2>3, GotTyped DEF CacheDash, CacheAt, CacheBody, TypeOK, poller
  <1>4. CASE Hit(t)
    <2> DEFINE m == [me[t] EXCEPT !.snap = cacheBody]
    <2>1. cacheBody \in Snapshot BY DEF TypeOK
    <2>2. m \in Locals BY <2>1, GotTyped, FieldsTyped
    <2>3. me' = [me EXCEPT ![t] = m] BY <1>4 DEF Hit
    <2> HIDE DEF m
    <2> QED BY <1>1, <1>4, <2>2, <2>3, LocalsMove DEF Hit
  <1>5. CASE Reply(t)
    BY <1>1, <1>5, BlankFacts, LocalsMove DEF Reply
  <1> QED BY <1>2, <1>3, <1>4, <1>5

LEMMA SendTypes ==
    ASSUME TypeOK, NEW t \in Thread, Send(t)
    PROVE  TypeOK'
  <1>1. PICK k \in Foremost(me[t].todo) :
           \/ /\ house[k] < MaxWrite
              /\ house' = [house EXCEPT ![k] = @ + 1]
              /\ me' = [me EXCEPT ![t].todo = @ \ {k}, ![t].base[k] = house'[k],
                                  ![t].used = Nothing]
           \/ /\ me' = [me EXCEPT ![t].todo = @ \ {k}, ![t].used = Nothing]
              /\ UNCHANGED house
    BY DEF Send
  <1>2. k \in Source BY ForemostFacts
  <1>3. CASE /\ house[k] < MaxWrite
             /\ house' = [house EXCEPT ![k] = @ + 1]
             /\ me' = [me EXCEPT ![t].todo = @ \ {k}, ![t].base[k] = house'[k],
                                 ![t].used = Nothing]
    <2> DEFINE m == [me[t] EXCEPT !.todo = @ \ {k}, !.base[k] = house'[k], !.used = Nothing]
    <2>1. house' \in [Source -> 0 .. MaxWrite] BY <1>2, <1>3, Parameters DEF TypeOK
    <2>2. me' = [me EXCEPT ![t] = m]
      <3> DEFINE h == house'[k]
      <3>1. me' = [me EXCEPT ![t].todo = @ \ {k}, ![t].base[k] = h, ![t].used = Nothing]
        BY <1>3
      <3>2. me \in [Thread -> Locals] /\ me[t] \in Locals BY DEF TypeOK
      <3> HIDE DEF h
      <3>3. me' = [me EXCEPT ![t] = [me[t] EXCEPT !.todo = @ \ {k}, !.base[k] = h,
                                                  !.used = Nothing]]
        BY <3>1, <3>2
      <3> QED BY <3>3 DEF h
    <2>3. Nothing \in Dicts(Reading) BY NothingIsEmpty
    <2>4. m \in Locals BY <1>2, <2>1, <2>3, GotTyped DEF Locals
    <2> HIDE DEF m
    <2>5. me' \in [Thread -> Locals] BY <2>2, <2>4, ThreadMoves
    <2> QED BY <2>1, <2>5 DEF Send, TypeOK, poller, cache
  <1>4. CASE me' = [me EXCEPT ![t].todo = @ \ {k}, ![t].used = Nothing] /\ UNCHANGED house
    <2> DEFINE m == [me[t] EXCEPT !.todo = @ \ {k}, !.used = Nothing]
    <2>1. me' = [me EXCEPT ![t] = m] BY <1>4 DEF TypeOK
    <2>2. Nothing \in Dicts(Reading) BY NothingIsEmpty
    <2>3. m \in Locals BY <2>2, GotTyped DEF Locals
    <2> HIDE DEF m
    <2>4. me' \in [Thread -> Locals] BY <2>1, <2>3, ThreadMoves
    <2> QED BY <1>4, <2>4 DEF Send, TypeOK, poller, cache
  <1> QED BY <1>1, <1>3, <1>4

LEMMA SendRaisesTypes ==
    ASSUME TypeOK, NEW t \in Thread, SendRaises(t)
    PROVE  TypeOK'
  <1>1. PICK k \in Foremost(me[t].todo) :
           \/ house[k] < MaxWrite /\ house' = [house EXCEPT ![k] = @ + 1]
           \/ UNCHANGED house
    BY DEF SendRaises
  <1>2. k \in Source BY ForemostFacts
  <1>3. house' \in [Source -> 0 .. MaxWrite] BY <1>1, <1>2, Parameters DEF TypeOK
  <1>4. "error" \in Places /\ Goto(t, "error") /\ me' = [me EXCEPT ![t] = Blank]
    BY DEF Places, SendRaises
  <1>5. pc' \in [Thread -> Places] BY <1>4, ThreadGoes
  <1>6. me' \in [Thread -> Locals] BY <1>4, BlankFacts, ThreadMoves
  <1> QED BY <1>3, <1>5, <1>6 DEF SendRaises, TypeOK, poller, cache

LEMMA DropTypes ==
    ASSUME TypeOK, NEW t \in Thread, Drop(t)
    PROVE  TypeOK'
  <1>1. done' \in [Source -> 0 .. MaxWrite]
    <2>1. me[t].base \in [Source -> 0 .. MaxWrite] BY GotTyped
    <2> QED BY <2>1 DEF Drop, TypeOK
  <1>2. "actReply" \in Places /\ Goto(t, "actReply") /\ me' = [me EXCEPT ![t] = Blank]
    BY DEF Places, Drop
  <1>3. pc' \in [Thread -> Places] BY <1>2, ThreadGoes
  <1>4. me' \in [Thread -> Locals] BY <1>2, BlankFacts, ThreadMoves
  <1> QED BY <1>1, <1>3, <1>4 DEF Drop, TypeOK, poller

LEMMA StepTypes == TypeOK /\ [Next]_vars => TypeOK'
  <1> SUFFICES ASSUME TypeOK, [Next]_vars PROVE TypeOK'
    OBVIOUS
  <1>1. CASE Tick
    <2>1. clock' \in Time BY <1>1, Parameters DEF Tick, TypeOK, Time
    <2> QED BY <1>1, <2>1 DEF Tick, TypeOK, poller, cache
  <1>2. ASSUME NEW t \in Thread, Request(t) PROVE TypeOK'
    BY <1>2, RequestTypes
  <1>3. ASSUME NEW t \in Thread, Handle(t) PROVE TypeOK'
    BY <1>3, SubmitTypes, StoreTypes, StampTypes, MarkTypes, CachingTypes, SendTypes,
       SendRaisesTypes, DropTypes
       DEF Handle
  <1>4. ASSUME NEW t \in Thread, NEW k \in Source, Fetch(t, k) PROVE TypeOK'
    BY <1>4, FetchTypes
  <1>5. CASE UNCHANGED vars
    BY <1>5 DEF vars, TypeOK, poller, cache
  <1> QED BY <1>1, <1>2, <1>3, <1>4, <1>5 DEF Next

\* What every variable holds, whatever overlaps.
THEOREM GatewayTypeCorrect == Spec => []TypeOK
  BY InitTypes, StepTypes, PTL DEF Spec

-----------------------------------------------------------------------------
(* The loop over the known values.                                         *)

\* Nothing that was known is forgotten while a thread loops over it.
SeenIsKnown == \A t \in Thread : pc[t] = "marking" => me[t].seen \subseteq DOMAIN last

LEMMA LastGrows ==
    ASSUME TypeOK, [Next]_vars
    PROVE  DOMAIN last \subseteq DOMAIN last'
  <1>1. ASSUME NEW t \in Thread, Store(t) PROVE DOMAIN last \subseteq DOMAIN last'
    <2>1. last' = last \/ \E k : last' = Put(last, k, me[t].got[k]) BY <1>1 DEF Store
    <2> QED BY <2>1 DEF Put
  <1>2. CASE last' = last BY <1>2
  <1>3. Tick => last' = last BY DEF Tick, poller
  <1>4. ASSUME NEW t \in Thread PROVE Request(t) => last' = last
    BY DEF Request, StartDash, StartAct, StartRelative, StartMacro, shared, poller
  <1>5. ASSUME NEW t \in Thread, Handle(t) PROVE DOMAIN last \subseteq DOMAIN last'
    <2>1. CASE Store(t) BY <1>1, <2>1
    <2>2. CASE \/ Hit(t) \/ Submit(t) \/ Stamp(t) \/ Stored(t) \/ Mark(t) \/ Marked(t)
               \/ MarkFails(t) \/ CopyAndBuild(t) \/ CacheDash(t) \/ CacheAt(t)
               \/ CacheBody(t) \/ Send(t) \/ SendRaises(t) \/ Drop(t) \/ Reply(t)
      BY <2>2 DEF Hit, Submit, Stamp, Stored, Mark, Marked, MarkFails, CopyAndBuild, CacheDash,
                  CacheAt, CacheBody, Send, SendRaises, Drop, Reply, shared, poller
    <2> QED BY <1>5, <2>1, <2>2 DEF Handle
  <1>6. ASSUME NEW t \in Thread, NEW k \in Source PROVE Fetch(t, k) => last' = last
    BY DEF Fetch, shared, poller
  <1>7. UNCHANGED vars => last' = last BY DEF vars, poller
  <1> QED BY <1>2, <1>3, <1>4, <1>5, <1>6, <1>7 DEF Next

\* Nobody else moves a thread, and only Mark brings it to the loop.
LEMMA LoopBegins ==
    ASSUME TypeOK, [Next]_vars, NEW t \in Thread, pc'[t] = "marking"
    PROVE  Mark(t) \/ (pc[t] = "marking" /\ me'[t].seen = me[t].seen)
  <1>1. pc \in [Thread -> Places] /\ me \in [Thread -> Locals] BY DEF TypeOK
  <1>2. CASE UNCHANGED <<pc, me>> BY <1>2
  <1>3. Tick => UNCHANGED <<pc, me>> BY DEF Tick
  <1>4. UNCHANGED vars => UNCHANGED <<pc, me>> BY DEF vars
  <1>5. ASSUME NEW u \in Thread, Request(u)
        PROVE  pc[t] = "marking" /\ me'[t] = me[t]
    BY <1>1, <1>5 DEF Request, StartDash, StartAct, StartRelative, StartMacro, Goto
  <1>6. ASSUME NEW u \in Thread, Handle(u)
        PROVE  Mark(t) \/ (pc[t] = "marking" /\ me'[t] = me[t])
    <2>1. CASE Hit(u) \/ Stored(u) \/ Mark(u) \/ Marked(u) \/ MarkFails(u) \/ CopyAndBuild(u)
      BY <1>1, <2>1 DEF Hit, Stored, Mark, Marked, MarkFails, CopyAndBuild, Goto
    <2>2. CASE Submit(u) \/ Stamp(u)
      BY <1>1, <2>2 DEF Submit, Stamp, Goto
    <2>3. CASE Store(u) \/ Send(u) \/ SendRaises(u)
      BY <1>1, <2>3 DEF Store, Send, SendRaises, Goto
    <2>4. CASE CacheDash(u) \/ CacheAt(u) \/ CacheBody(u) \/ Drop(u) \/ Reply(u)
      BY <1>1, <2>4 DEF CacheDash, CacheAt, CacheBody, Drop, Reply, Goto
    <2> QED BY <1>6, <2>1, <2>2, <2>3, <2>4 DEF Handle
  <1>7. ASSUME NEW u \in Thread, NEW k \in Source, Fetch(u, k)
        PROVE  pc[t] = "marking" /\ me'[t].seen = me[t].seen
    BY <1>1, <1>7 DEF Fetch, Locals
  <1> QED BY <1>2, <1>3, <1>4, <1>5, <1>6, <1>7 DEF Next

LEMMA SeenInvariant == TypeOK /\ SeenIsKnown /\ [Next]_vars => SeenIsKnown'
  <1> SUFFICES ASSUME TypeOK, SeenIsKnown, [Next]_vars, NEW t \in Thread, pc'[t] = "marking"
               PROVE  me'[t].seen \subseteq DOMAIN last'
    BY DEF SeenIsKnown
  <1>1. DOMAIN last \subseteq DOMAIN last' BY LastGrows
  <1>2. CASE Mark(t)
    <2>1. me'[t].seen = DOMAIN last
      <3> DEFINE d == DOMAIN last
      <3>1. me' = [me EXCEPT ![t].seen = d] BY <1>2 DEF Mark
      <3> HIDE DEF d
      <3>2. me'[t].seen = d BY <3>1 DEF TypeOK, Locals
      <3> QED BY <3>2 DEF d
    <2> QED BY <1>1, <2>1
  <1>3. CASE pc[t] = "marking" /\ me'[t].seen = me[t].seen
    BY <1>1, <1>3 DEF SeenIsKnown
  <1> QED BY <1>2, <1>3, LoopBegins

\* However many requests overlap, the loop over _last fails only while some
\* source is still to be heard for the first time.
THEOREM NoErrorOnceKnownAlways == Spec => NoErrorOnceKnown
  <1>1. Init => SeenIsKnown BY DEF Init, SeenIsKnown
  <1>2. Spec => []SeenIsKnown
    BY <1>1, SeenInvariant, GatewayTypeCorrect, PTL DEF Spec
  <1>3. TypeOK /\ SeenIsKnown => \A t \in Thread : MarkFails(t) => me[t].seen # Source
    <2> SUFFICES ASSUME TypeOK, SeenIsKnown, NEW t \in Thread, MarkFails(t)
                 PROVE  me[t].seen # Source
      OBVIOUS
    <2>1. me[t].seen \subseteq DOMAIN last /\ DOMAIN last # me[t].seen
      BY DEF SeenIsKnown, MarkFails
    <2>2. DOMAIN last \subseteq Source BY LastTyped
    <2> QED BY <2>1, <2>2
  <1> QED BY <1>2, <1>3, GatewayTypeCorrect, PTL DEF NoErrorOnceKnown

-----------------------------------------------------------------------------
(* Requests that come one at a time.                                       *)

OneAtATime == \A t, u \in Thread : t = u

\* How old a reading may be that a poll calls current.
Age(k) == IF k \in Slow THEN SlowTtl - 1 ELSE 0

\* A poll that came at time n, after the writes b were announced, may call r current.
Sound(k, r, n, b) == n - r.at <= Age(k) /\ r.wr >= b[k]

\* Every section that is shown and not old rests on such a reading.
GoodSnap(x, n, b) ==
    \A s \in Section :
        Shows(x.raw, s) /\ s \notin x.old =>
            \E k \in Inputs[s] \cap DOMAIN x.raw : Sound(k, x.raw[k], n, b)

\* Writes are announced after they have reached the backend, and only some
\* backends are written to.
WritesCount ==
    /\ \A k \in Source : done[k] <= house[k] /\ (k \notin Writable => house[k] = 0)
    /\ \A t \in Thread : /\ \A k \in Source : me[t].base[k] <= house[k]
                         /\ pc[t] = "send" => me[t].todo \subseteq Writable

\* No time is noted before it has come.
NotedIsPast ==
    /\ \A t \in Thread : me[t].now <= clock
    /\ \A k \in DOMAIN lastAt : lastAt[k] <= clock

\* What is noted to have been read at some time was not read before it.
NotedIsRead == \A k \in DOMAIN lastAt : k \in DOMAIN last /\ last[k].at >= lastAt[k]

\* A poll knows what has been announced, and no round is newer than its own.
PollIsNewest ==
    \A t \in Thread : Polling(t) =>
        me[t].base = done /\ \A k \in DOMAIN lastAt : lastAt[k] <= me[t].now

\* The value of k in last is one that t's round has brought.
Brought(t, k) ==
    k \in DOMAIN last /\ last[k].at >= me[t].now /\ last[k].wr >= me[t].base[k]

\* It begins empty-handed.
RoundStarts ==
    \A t \in Thread : pc[t] \in {"collect", "collectAll"} =>
        me[t].fresh = {} /\ DOMAIN me[t].got = {}

\* A round of collect(): what it asked, what has come, what it left out.
RoundOK ==
    \A t \in Thread : pc[t] \in {"fetch", "stamp", "mark", "marking"} =>
        /\ me[t].todo \subseteq me[t].asked /\ me[t].fresh \subseteq me[t].asked
        /\ \A k \in DOMAIN me[t].got :
              me[t].got[k].at >= me[t].now /\ me[t].got[k].wr >= me[t].base[k]
        /\ \A k \in me[t].fresh : Brought(t, k)
        /\ \A k \in Source \ me[t].asked :
              k \in Slow /\ k \in DOMAIN lastAt /\ me[t].now - lastAt[k] < SlowTtl
        /\ pc[t] = "stamp" => \A k \in Foremost(me[t].todo) : Brought(t, k)

\* What is fresh at the end of the round may be called current.
FreshIsSound ==
    \A t \in Thread : pc[t] = "copy" =>
        \A k \in me[t].fresh : k \in DOMAIN last /\ Sound(k, last[k], me[t].now, me[t].base)

\* The snapshot on its way into the cache.
BuiltIsGood ==
    \A t \in Thread : pc[t] \in {"cacheDash", "cacheAt", "cacheBody"} =>
        /\ GoodSnap(me[t].snap, me[t].now, me[t].base)
        /\ DOMAIN cacheBody.raw \subseteq DOMAIN me[t].snap.raw
        /\ DOMAIN me[t].snap.raw \subseteq DOMAIN last
        /\ pc[t] = "cacheBody" => cacheAt = me[t].now

\* The cached snapshot is good for its time and for all that is announced,
\* unless an action has dropped it, or its successor is half stored.
CacheIsGood ==
    /\ DOMAIN cacheBody.raw \subseteq DOMAIN last
    /\ cacheBody.made /\ cacheAt # LongAgo /\ (\A t \in Thread : pc[t] # "cacheBody") =>
          GoodSnap(cacheBody, cacheAt, done)

\* A hit is one.
HitIsRecent ==
    \A t \in Thread : pc[t] = "hit" =>
        cacheBody.made /\ cacheAt # LongAgo /\ me[t].now - cacheAt < CacheTtl

\* A reply rests on a snapshot that was good at a time the cache still allows.
ReplyIsGood ==
    \A t \in Thread : pc[t] = "dashReply" =>
        \E n \in Time : me[t].now - n < CacheTtl /\ GoodSnap(me[t].snap, n, me[t].base)

NotesOK == WritesCount /\ NotedIsPast /\ NotedIsRead /\ PollIsNewest

PollOK ==
    /\ RoundStarts /\ RoundOK /\ FreshIsSound /\ BuiltIsGood
    /\ CacheIsGood /\ HitIsRecent /\ ReplyIsGood

IInv == TypeOK /\ NotesOK /\ PollOK

LEMMA RepliesAreGood ==
    ASSUME TypeOK, ReplyIsGood
    PROVE  CurrentIsRecent /\ PollAfterWrite
  <1>1. ASSUME NEW t \in Thread, NEW s \in Section, pc[t] = "dashReply", Current(t, s)
        PROVE  \E k \in Inputs[s] \cap DOMAIN me[t].snap.raw :
                  /\ me[t].now - me[t].snap.raw[k].at
                        <= (IF k \in Slow THEN SlowTtl - 1 ELSE 0) + CacheTtl - 1
                  /\ me[t].snap.raw[k].wr >= me[t].base[k]
    <2>1. PICK n \in Time : me[t].now - n < CacheTtl /\ GoodSnap(me[t].snap, n, me[t].base)
      BY <1>1 DEF ReplyIsGood
    <2>2. PICK k \in Inputs[s] \cap DOMAIN me[t].snap.raw :
             Sound(k, me[t].snap.raw[k], n, me[t].base)
      BY <1>1, <2>1 DEF GoodSnap, Current
    <2>3. me[t].snap.raw \in Dicts(Reading) BY GotTyped, SnapFacts
    <2>4. me[t].snap.raw[k] \in Reading BY <2>2, <2>3, DictFacts
    <2>5. me[t].snap.raw[k].at \in Int /\ n \in Int /\ me[t].now \in Int
      BY <2>4, GotTyped, Parameters DEF Reading, Time
    <2>6. me[t].now - me[t].snap.raw[k].at <= Age(k) + CacheTtl - 1
      BY <2>1, <2>2, <2>5, Parameters DEF Sound, Age
    <2> QED BY <2>2, <2>6 DEF Sound, Age
  <1>2. CurrentIsRecent BY <1>1 DEF CurrentIsRecent
  <1>3. ASSUME NEW t \in Thread, NEW s \in Section, NEW k \in Inputs[s],
               pc[t] = "dashReply", Inputs[s] = {k}, Current(t, s)
        PROVE  me[t].snap.raw[k].wr >= me[t].base[k]
    BY <1>1, <1>3
  <1> QED BY <1>2, <1>3 DEF PollAfterWrite

LEMMA InitInvariant == Init => IInv
  <1> SUFFICES ASSUME Init PROVE IInv
    OBVIOUS
  <1>1. TypeOK BY InitTypes
  <1>2. \A t \in Thread : pc[t] = "idle" /\ me[t] = Blank BY DEF Init
  <1>3. WritesCount BY <1>2, BlankFacts DEF Init, WritesCount
  <1>4. DOMAIN lastAt = {} BY NothingIsEmpty DEF Init
  <1>5. NotedIsPast /\ NotedIsRead /\ PollIsNewest
    BY <1>2, <1>4, BlankFacts DEF Init, NotedIsPast, NotedIsRead, PollIsNewest, Polling
  <1>6. RoundStarts /\ RoundOK /\ FreshIsSound /\ BuiltIsGood /\ HitIsRecent /\ ReplyIsGood
    BY <1>2 DEF RoundStarts, RoundOK, FreshIsSound, BuiltIsGood, HitIsRecent, ReplyIsGood
  <1>7. CacheIsGood BY SnapFacts, NothingIsEmpty DEF Init, CacheIsGood
  <1> QED BY <1>1, <1>3, <1>5, <1>6, <1>7 DEF IInv, NotesOK, PollOK

-----------------------------------------------------------------------------
(* The steps of the one request there is.                                  *)

\* Numbers.
LEMMA Numbers ==
    ASSUME TypeOK
    PROVE  /\ clock \in Nat /\ cacheAt \in Int /\ (cacheAt # LongAgo => cacheAt \in Time)
           /\ \A k \in Source : house[k] \in Nat /\ done[k] \in Nat
           /\ \A k \in DOMAIN lastAt : k \in Source /\ lastAt[k] \in Time /\ lastAt[k] \in Nat
           /\ \A k \in DOMAIN last : k \in Source /\ last[k].at \in Nat /\ last[k].wr \in Nat
           /\ \A t \in Thread : /\ me[t].now \in Nat
                                /\ \A k \in Source : me[t].base[k] \in Nat
                                /\ \A k \in DOMAIN me[t].got : /\ k \in Source
                                                              /\ me[t].got[k].at \in Nat
                                                              /\ me[t].got[k].wr \in Nat
  <1>1. clock \in Nat /\ cacheAt \in Int /\ (cacheAt # LongAgo => cacheAt \in Time)
    BY Parameters DEF TypeOK, Time, LongAgo
  <1>2. \A k \in Source : house[k] \in Nat /\ done[k] \in Nat BY Parameters DEF TypeOK
  <1>3. ASSUME NEW k \in DOMAIN lastAt
        PROVE  k \in Source /\ lastAt[k] \in Time /\ lastAt[k] \in Nat
    <2>1. k \in Source /\ lastAt[k] \in Time BY DictFacts DEF TypeOK
    <2> QED BY <2>1, Parameters DEF Time
  <1>4. ASSUME NEW k \in DOMAIN last
        PROVE  k \in Source /\ last[k].at \in Nat /\ last[k].wr \in Nat
    <2>1. k \in Source /\ last[k] \in Reading BY LastTyped, DictFacts
    <2> QED BY <2>1, Parameters DEF Reading, Time
  <1>5. ASSUME NEW t \in Thread
        PROVE  me[t].now \in Nat /\ \A k \in Source : me[t].base[k] \in Nat
    BY GotTyped, Parameters DEF Time
  <1>6. ASSUME NEW t \in Thread, NEW k \in DOMAIN me[t].got
        PROVE  k \in Source /\ me[t].got[k].at \in Nat /\ me[t].got[k].wr \in Nat
    <2>1. me[t].got[k] \in Reading /\ k \in Source BY GotTyped, DictFacts
    <2> QED BY <2>1, Parameters DEF Reading, Time
  <1> QED BY <1>1, <1>2, <1>3, <1>4, <1>5, <1>6

\* A request begins that is no poll, or one ends.
LEMMA Lands ==
    ASSUME IInv, OneAtATime, NEW t \in Thread, UNCHANGED shared, pc[t] # "cacheBody",
           pc'[t] \in {"idle", "send", "actReply", "refused", "error"},
           me'[t].now <= clock, \A k \in Source : me'[t].base[k] <= house[k],
           pc'[t] = "send" => me'[t].todo \subseteq Writable
    PROVE  NotesOK' /\ PollOK'
  <1>1. \A u \in Thread : u = t BY DEF OneAtATime
  <1>2. /\ clock' = clock /\ house' = house /\ done' = done /\ last' = last
        /\ lastAt' = lastAt /\ cacheAt' = cacheAt /\ cacheBody' = cacheBody
    BY DEF shared, poller, cache
  <1>3. WritesCount' BY <1>1, <1>2 DEF IInv, NotesOK, WritesCount
  <1>4. NotedIsPast' BY <1>1, <1>2 DEF IInv, NotesOK, NotedIsPast
  <1>5. NotedIsRead' BY <1>2 DEF IInv, NotesOK, NotedIsRead
  <1>6. PollIsNewest' BY <1>1 DEF PollIsNewest, Polling
  <1>7. RoundStarts' /\ RoundOK' /\ FreshIsSound' /\ BuiltIsGood' /\ HitIsRecent' /\ ReplyIsGood'
    BY <1>1 DEF RoundStarts, RoundOK, FreshIsSound, BuiltIsGood, HitIsRecent, ReplyIsGood
  <1>8. CacheIsGood' BY <1>1, <1>2 DEF IInv, PollOK, CacheIsGood
  <1> QED BY <1>3, <1>4, <1>5, <1>6, <1>7, <1>8 DEF NotesOK, PollOK

LEMMA TickStep ==
    ASSUME IInv, Tick
    PROVE  NotesOK' /\ PollOK'
  <1>1. /\ clock' = clock + 1 /\ house' = house /\ done' = done /\ last' = last
        /\ lastAt' = lastAt /\ cacheAt' = cacheAt /\ cacheBody' = cacheBody
        /\ pc' = pc /\ me' = me
    BY DEF Tick, poller, cache
  <1>2. WritesCount' BY <1>1 DEF IInv, NotesOK, WritesCount
  <1>3. NotedIsPast' BY <1>1, Numbers DEF IInv, NotesOK, NotedIsPast
  <1>4. NotedIsRead' BY <1>1 DEF IInv, NotesOK, NotedIsRead
  <1>5. PollIsNewest' BY <1>1 DEF IInv, NotesOK, PollIsNewest, Polling
  <1>6. RoundStarts' /\ RoundOK' BY <1>1 DEF IInv, PollOK, RoundStarts, RoundOK, Brought
  <1>7. FreshIsSound' BY <1>1 DEF IInv, PollOK, FreshIsSound
  <1>8. BuiltIsGood' BY <1>1 DEF IInv, PollOK, BuiltIsGood
  <1>9. CacheIsGood' BY <1>1 DEF IInv, PollOK, CacheIsGood
  <1>10. HitIsRecent' /\ ReplyIsGood' BY <1>1 DEF IInv, PollOK, HitIsRecent, ReplyIsGood
  <1> QED BY <1>2, <1>3, <1>4, <1>5, <1>6, <1>7, <1>8, <1>9, <1>10 DEF NotesOK, PollOK

LEMMA RequestStep ==
    ASSUME IInv, OneAtATime, NEW t \in Thread, Request(t)
    PROVE  NotesOK' /\ PollOK'
  <1> USE DEF IInv
  <1>1. \A k \in Source : done[k] <= house[k] BY DEF NotesOK, WritesCount
  <1>2. me \in [Thread -> Locals] /\ pc \in [Thread -> Places] BY DEF TypeOK
  <1>3. Blank \in Locals /\ Blank.now = 0 /\ clock >= 0 BY BlankFacts, Numbers
  <1>4. ASSUME NEW force \in BOOLEAN, StartDash(t, force)
        PROVE  NotesOK' /\ PollOK'
    <2>1. \A u \in Thread : u = t BY DEF OneAtATime
    <2>2. /\ clock' = clock /\ house' = house /\ done' = done /\ last' = last
          /\ lastAt' = lastAt /\ cacheAt' = cacheAt /\ cacheBody' = cacheBody
      BY <1>4 DEF StartDash, shared, poller, cache
    <2>3. me'[t] = [Blank EXCEPT !.now = clock, !.base = done]
      BY <1>2, <1>4 DEF StartDash
    <2>4. me'[t].now = clock /\ me'[t].base = done BY <1>3, <2>3 DEF Locals
    <2>5. /\ pc[t] = "idle" /\ pc'[t] \in {"collectAll", "hit", "collect"}
          /\ pc'[t] = "hit" => cacheBody.made /\ clock - cacheAt < CacheTtl
      BY <1>2, <1>4 DEF StartDash, Goto
    <2>6. WritesCount' BY <1>1, <2>1, <2>2, <2>4, <2>5 DEF NotesOK, WritesCount
    <2>7. NotedIsPast' BY <2>1, <2>2, <2>4, <1>3, Numbers DEF NotesOK, NotedIsPast
    <2>8. NotedIsRead' BY <2>2 DEF NotesOK, NotedIsRead
    <2>9. PollIsNewest' BY <2>1, <2>2, <2>4 DEF NotesOK, NotedIsPast, PollIsNewest
    <2>13. me'[t].fresh = {} /\ DOMAIN me'[t].got = {}
      BY <1>3, <2>3, BlankFacts DEF Locals
    <2>14. RoundStarts' BY <2>1, <2>13 DEF RoundStarts
    <2>10. RoundOK' /\ FreshIsSound' /\ BuiltIsGood' /\ ReplyIsGood'
      BY <2>1, <2>5 DEF RoundOK, FreshIsSound, BuiltIsGood, ReplyIsGood
    <2>11. CacheIsGood' BY <2>1, <2>2, <2>5 DEF PollOK, CacheIsGood
    <2>12. HitIsRecent'
      <3>1. cacheAt = LongAgo => ~(clock - cacheAt < CacheTtl)
        BY Numbers, Parameters DEF LongAgo
      <3> QED BY <2>1, <2>2, <2>4, <2>5, <3>1 DEF HitIsRecent
    <2> QED BY <2>6, <2>7, <2>8, <2>9, <2>10, <2>11, <2>12,
               <2>14 DEF NotesOK, PollOK
  <1>5. ASSUME NEW k \in Writable, StartAct(t, k)
        PROVE  NotesOK' /\ PollOK'
    <2>1. me'[t] = [Blank EXCEPT !.todo = {k}, !.base = done] BY <1>2, <1>5 DEF StartAct
    <2>2. me'[t].now = 0 /\ me'[t].base = done /\ me'[t].todo = {k}
      BY <1>3, <2>1 DEF Locals
    <2>3. pc[t] = "idle" /\ pc'[t] = "send" /\ UNCHANGED shared
      BY <1>2, <1>5 DEF StartAct, Goto
    <2> QED BY <1>1, <1>3, <2>2, <2>3, Lands
  <1>6. ASSUME NEW k \in Writable, StartRelative(t, k)
        PROVE  NotesOK' /\ PollOK'
    <2>1. CASE Tells(cacheDash.raw, k)
      <3>1. me'[t] = [Blank EXCEPT !.todo = {k}, !.base = done,
                                   !.used = Put(Nothing, k, cacheDash.raw[k])]
        BY <1>2, <1>6, <2>1 DEF StartRelative
      <3>2. me'[t].now = 0 /\ me'[t].base = done /\ me'[t].todo = {k}
        BY <1>3, <3>1 DEF Locals
      <3>3. pc[t] = "idle" /\ pc'[t] = "send" /\ UNCHANGED shared
        BY <1>2, <1>6, <2>1 DEF StartRelative, Goto
      <3> QED BY <1>1, <1>3, <3>2, <3>3, Lands
    <2>2. CASE ~Tells(cacheDash.raw, k)
      <3>1. pc[t] = "idle" /\ pc'[t] = "refused" /\ me' = me /\ UNCHANGED shared
        BY <1>2, <1>6, <2>2 DEF StartRelative, Goto
      <3>2. me[t].now <= clock /\ \A j \in Source : me[t].base[j] <= house[j]
        BY DEF NotesOK, WritesCount, NotedIsPast
      <3> QED BY <3>1, <3>2, Lands
    <2> QED BY <2>1, <2>2
  <1>7. CASE StartMacro(t)
    <2>1. me'[t] = [Blank EXCEPT !.todo = Writable, !.base = done] BY <1>2, <1>7 DEF StartMacro
    <2>2. me'[t].now = 0 /\ me'[t].base = done /\ me'[t].todo = Writable
      BY <1>3, <2>1 DEF Locals
    <2>3. pc[t] = "idle" /\ pc'[t] = "send" /\ UNCHANGED shared
      BY <1>2, <1>7 DEF StartMacro, Goto
    <2> QED BY <1>1, <1>3, <2>2, <2>3, Lands
  <1> QED BY <1>4, <1>5, <1>6, <1>7 DEF Request

\* A poll goes on in its round, and notes, knows or asks nothing new.
LEMMA NotesStay ==
    ASSUME IInv, OneAtATime, NEW t \in Thread,
           clock' = clock, house' = house, done' = done, last' = last, lastAt' = lastAt,
           Polling(t), pc'[t] # "send",
           me'[t].now = me[t].now, me'[t].base = me[t].base
    PROVE  NotesOK'
  <1>1. \A u \in Thread : u = t BY DEF OneAtATime
  <1>2. WritesCount' BY <1>1 DEF IInv, NotesOK, WritesCount
  <1>3. NotedIsPast' BY <1>1 DEF IInv, NotesOK, NotedIsPast
  <1>4. NotedIsRead' BY DEF IInv, NotesOK, NotedIsRead
  <1>5. PollIsNewest' BY <1>1 DEF IInv, NotesOK, PollIsNewest
  <1> QED BY <1>2, <1>3, <1>4, <1>5 DEF NotesOK

\* While a round is on, only the round matters.
LEMMA RoundGoesOn ==
    ASSUME IInv, OneAtATime, NEW t \in Thread, RoundOK',
           pc[t] \in {"collect", "collectAll", "fetch", "stamp", "mark", "marking"},
           pc'[t] \in {"fetch", "stamp", "mark", "marking"},
           cacheAt' = cacheAt, cacheBody' = cacheBody, done' = done,
           DOMAIN last \subseteq DOMAIN last'
    PROVE  PollOK'
  <1>1. \A u \in Thread : u = t BY DEF OneAtATime
  <1>2. RoundStarts' /\ FreshIsSound' /\ BuiltIsGood' /\ HitIsRecent' /\ ReplyIsGood'
    BY <1>1 DEF RoundStarts, FreshIsSound, BuiltIsGood, HitIsRecent, ReplyIsGood
  <1>3. CacheIsGood' BY <1>1 DEF IInv, PollOK, CacheIsGood
  <1> QED BY <1>2, <1>3 DEF PollOK

LEMMA SubmitStep ==
    ASSUME IInv, OneAtATime, NEW t \in Thread, Submit(t)
    PROVE  NotesOK' /\ PollOK'
  <1> USE DEF IInv
  <1> DEFINE jobs == {k \in Source : pc[t] = "collectAll" \/ Due(k, me[t].now)}
  <1>1. \A u \in Thread : u = t BY DEF OneAtATime
  <1>2. /\ clock' = clock /\ house' = house /\ done' = done /\ last' = last
        /\ lastAt' = lastAt /\ cacheAt' = cacheAt /\ cacheBody' = cacheBody
    BY DEF Submit, shared, poller, cache
  <1>3. pc[t] \in {"collect", "collectAll"} /\ pc'[t] = "fetch" BY DEF Submit, Goto, TypeOK
  <1>4. /\ me'[t].todo = jobs /\ me'[t].asked = jobs /\ me'[t].now = me[t].now
        /\ me'[t].base = me[t].base /\ me'[t].fresh = me[t].fresh /\ me'[t].got = me[t].got
    <2>1. me' = [me EXCEPT ![t].todo = jobs, ![t].asked = jobs] BY DEF Submit
    <2> HIDE DEF jobs
    <2> QED BY <2>1 DEF TypeOK, Locals
  <1>5. NotesOK' BY <1>2, <1>3, <1>4, NotesStay DEF Polling
  <1>6. me[t].fresh = {} /\ DOMAIN me[t].got = {} BY <1>3 DEF PollOK, RoundStarts
  <1>7. RoundOK'
    <2>1. ASSUME NEW k \in Source \ jobs
          PROVE  k \in Slow /\ k \in DOMAIN lastAt /\ me[t].now - lastAt[k] < SlowTtl
      <3>1. pc[t] = "collect" /\ ~Due(k, me[t].now) BY <1>3
      <3>2. k \in DOMAIN lastAt BY <3>1 DEF Due
      <3>3. lastAt[k] <= me[t].now BY <1>3, <3>2 DEF NotesOK, PollIsNewest, Polling
      <3>4. ~(me[t].now - lastAt[k] >= IF k \in Slow THEN SlowTtl ELSE 0) BY <3>1 DEF Due
      <3> QED BY <3>2, <3>3, <3>4, Numbers, Parameters
    <2> HIDE DEF jobs
    <2> QED BY <1>1, <1>2, <1>3, <1>4, <1>6, <2>1 DEF RoundOK
  <1> QED BY <1>2, <1>3, <1>5, <1>7, RoundGoesOn

LEMMA FetchStep ==
    ASSUME IInv, OneAtATime, NEW t \in Thread, NEW k \in Source, Fetch(t, k)
    PROVE  NotesOK' /\ PollOK'
  <1> USE DEF IInv
  <1>0. PICK x \in Shapes : me' = [me EXCEPT ![t].got = Put(@, k, Answer(k, x))]
    BY DEF Fetch
  <1> DEFINE r == Answer(k, x)
  <1>1. \A u \in Thread : u = t BY DEF OneAtATime
  <1>2. /\ clock' = clock /\ house' = house /\ done' = done /\ last' = last
        /\ lastAt' = lastAt /\ cacheAt' = cacheAt /\ cacheBody' = cacheBody
    BY DEF Fetch, shared, poller, cache
  <1>3. pc[t] \in {"fetch", "stamp"} /\ pc' = pc BY DEF Fetch
  <1>4. /\ me'[t].todo = me[t].todo /\ me'[t].asked = me[t].asked /\ me'[t].now = me[t].now
        /\ me'[t].base = me[t].base /\ me'[t].fresh = me[t].fresh
        /\ me'[t].got = Put(me[t].got, k, r)
    <2>1. me' = [me EXCEPT ![t].got = Put(@, k, r)] BY <1>0
    <2> HIDE DEF r
    <2> QED BY <2>1 DEF TypeOK, Locals
  <1>5. NotesOK' BY <1>2, <1>3, <1>4, NotesStay DEF Polling
  <1>6. ASSUME NEW j \in DOMAIN me'[t].got
        PROVE  me'[t].got[j].at >= me[t].now /\ me'[t].got[j].wr >= me[t].base[j]
    <2>1. r \in Reading /\ r.at = clock /\ r.wr = house[k] BY DEF TypeOK, Reading, Answer
    <2>2. r.at >= me[t].now /\ r.wr >= me[t].base[k]
      BY <2>1, Numbers DEF NotesOK, NotedIsPast, WritesCount
    <2> HIDE DEF r
    <2>3. /\ DOMAIN me'[t].got = DOMAIN me[t].got \cup {k} /\ me'[t].got[k] = r
          /\ \A i \in DOMAIN me[t].got : i # k => me'[t].got[i] = me[t].got[i]
      BY <1>4 DEF Put
    <2>4. \A i \in DOMAIN me[t].got :
             me[t].got[i].at >= me[t].now /\ me[t].got[i].wr >= me[t].base[i]
      BY <1>3 DEF PollOK, RoundOK
    <2> QED BY <2>2, <2>3, <2>4
  <1>7. RoundOK'
    BY <1>1, <1>2, <1>3, <1>4, <1>6 DEF PollOK, RoundOK, Brought
  <1> QED BY <1>2, <1>3, <1>5, <1>7, RoundGoesOn

LEMMA StoreStep ==
    ASSUME IInv, OneAtATime, NEW t \in Thread, Store(t)
    PROVE  NotesOK' /\ PollOK'
  <1> USE DEF IInv
  <1>1. \A u \in Thread : u = t BY DEF OneAtATime
  <1>2. /\ clock' = clock /\ house' = house /\ done' = done
        /\ lastAt' = lastAt /\ cacheAt' = cacheAt /\ cacheBody' = cacheBody
    BY DEF Store, cache
  <1>3. pc[t] = "fetch" BY DEF Store
  <1>4. PICK k \in Foremost(me[t].todo) :
           IF k \in DOMAIN me[t].got
           THEN last' = Put(last, k, me[t].got[k]) /\ Goto(t, "stamp") /\ UNCHANGED me
           ELSE me' = [me EXCEPT ![t].todo = @ \ {k}] /\ UNCHANGED <<last, pc>>
    BY DEF Store
  <1>5. k \in Source /\ k \in me[t].todo /\ \A j \in Foremost(me[t].todo) : j = k
    BY ForemostFacts
  <1>6. CASE k \in DOMAIN me[t].got
    <2>1. pc'[t] = "stamp" /\ me' = me BY <1>4, <1>6 DEF Goto, TypeOK
    <2>2. me[t].got[k] \in Reading BY <1>6, GotTyped
    <2>3. /\ DOMAIN last' = DOMAIN last \cup {k} /\ last'[k] = me[t].got[k]
          /\ \A j \in DOMAIN last : j # k => last'[j] = last[j]
      BY <1>4, <1>6 DEF Put
    <2>4. last'[k].at >= me[t].now /\ last'[k].wr >= me[t].base[k]
      BY <1>3, <1>6, <2>3 DEF PollOK, RoundOK
    <2>5. WritesCount' /\ NotedIsPast' /\ PollIsNewest'
      <3>1. WritesCount' BY <1>1, <1>2, <1>3, <2>1 DEF NotesOK, WritesCount
      <3>2. NotedIsPast' BY <1>2, <2>1 DEF NotesOK, NotedIsPast
      <3>3. PollIsNewest' BY <1>1, <1>2, <1>3, <2>1 DEF NotesOK, PollIsNewest, Polling
      <3> QED BY <3>1, <3>2, <3>3
    <2>6. NotedIsRead'
      <3>1. k \in DOMAIN lastAt => lastAt[k] <= me[t].now
        BY <1>3 DEF NotesOK, PollIsNewest, Polling
      <3>2. k \in DOMAIN lastAt => last'[k].at >= lastAt[k]
        BY <1>6, <2>3, <2>4, <3>1, Numbers
      <3>3. \A j \in DOMAIN lastAt : j \in DOMAIN last /\ last[j].at >= lastAt[j]
        BY DEF NotesOK, NotedIsRead
      <3> QED BY <1>2, <2>3, <3>2, <3>3 DEF NotedIsRead
    <2>7. RoundOK'
      <3>1. \A j \in Source : (j = k \/ Brought(t, j)) => Brought(t, j)'
        BY <2>1, <2>3, <2>4 DEF Brought
      <3>2. me[t].fresh \subseteq Source BY GotTyped
      <3> QED BY <1>1, <1>2, <1>3, <1>5, <2>1, <3>1, <3>2 DEF PollOK, RoundOK
    <2>8. PollOK' BY <1>2, <1>3, <2>1, <2>3, <2>7, RoundGoesOn
    <2> QED BY <2>5, <2>6, <2>8 DEF NotesOK
  <1>7. CASE k \notin DOMAIN me[t].got
    <2>1. me' = [me EXCEPT ![t].todo = @ \ {k}] /\ last' = last /\ pc' = pc BY <1>4, <1>7
    <2>2. /\ me'[t].todo = me[t].todo \ {k} /\ me'[t].asked = me[t].asked
          /\ me'[t].now = me[t].now /\ me'[t].base = me[t].base
          /\ me'[t].fresh = me[t].fresh /\ me'[t].got = me[t].got
      BY <2>1 DEF TypeOK, Locals
    <2>3. NotesOK' BY <1>2, <1>3, <2>1, <2>2, NotesStay DEF Polling
    <2>4. RoundOK'
      BY <1>1, <1>2, <1>3, <2>1, <2>2 DEF PollOK, RoundOK, Brought
    <2> QED BY <1>2, <1>3, <2>1, <2>3, <2>4, RoundGoesOn
  <1> QED BY <1>6, <1>7

LEMMA StampStep ==
    ASSUME IInv, OneAtATime, NEW t \in Thread, Stamp(t)
    PROVE  NotesOK' /\ PollOK'
  <1> USE DEF IInv
  <1>1. \A u \in Thread : u = t BY DEF OneAtATime
  <1>2. /\ clock' = clock /\ house' = house /\ done' = done /\ last' = last
        /\ cacheAt' = cacheAt /\ cacheBody' = cacheBody
    BY DEF Stamp, cache
  <1>3. pc[t] = "stamp" /\ pc'[t] = "fetch" BY DEF Stamp, Goto, TypeOK
  <1>4. PICK k \in Foremost(me[t].todo) :
           /\ lastAt' = Put(lastAt, k, me[t].now)
           /\ me' = [me EXCEPT ![t].fresh = @ \cup {k}, ![t].todo = @ \ {k}]
    BY DEF Stamp
  <1>5. k \in Source /\ k \in me[t].todo BY ForemostFacts
  <1>6. Brought(t, k) BY <1>3 DEF PollOK, RoundOK
  <1>7. /\ DOMAIN lastAt' = DOMAIN lastAt \cup {k} /\ lastAt'[k] = me[t].now
        /\ \A j \in DOMAIN lastAt : j # k => lastAt'[j] = lastAt[j]
    BY <1>4 DEF Put
  <1>8. /\ me'[t].todo = me[t].todo \ {k} /\ me'[t].asked = me[t].asked
        /\ me'[t].now = me[t].now /\ me'[t].base = me[t].base
        /\ me'[t].fresh = me[t].fresh \cup {k} /\ me'[t].got = me[t].got
    BY <1>4 DEF TypeOK, Locals
  <1>9. NotesOK'
    <2>1. WritesCount' BY <1>1, <1>2, <1>3, <1>8 DEF NotesOK, WritesCount
    <2>2. NotedIsPast' BY <1>1, <1>2, <1>7, <1>8 DEF NotesOK, NotedIsPast
    <2>3. NotedIsRead'
      <3>1. k \in DOMAIN last' /\ last'[k].at >= lastAt'[k]
        BY <1>2, <1>6, <1>7 DEF Brought
      <3>2. \A j \in DOMAIN lastAt : j # k => j \in DOMAIN last' /\ last'[j].at >= lastAt'[j]
        BY <1>2, <1>7 DEF NotesOK, NotedIsRead
      <3>3. \A j \in DOMAIN lastAt' : j = k \/ j \in DOMAIN lastAt BY <1>7
      <3> QED BY <3>1, <3>2, <3>3 DEF NotedIsRead
    <2>4. PollIsNewest'
      <3>1. me[t].base = done /\ \A j \in DOMAIN lastAt : lastAt[j] <= me[t].now
        BY <1>3 DEF NotesOK, PollIsNewest, Polling
      <3>2. \A j \in DOMAIN lastAt' : lastAt'[j] <= me[t].now BY <1>7, <3>1, Numbers
      <3> QED BY <1>1, <1>2, <1>8, <3>1, <3>2 DEF PollIsNewest
    <2> QED BY <2>1, <2>2, <2>3, <2>4 DEF NotesOK
  <1>10. RoundOK'
    <2>1. \A j \in Source : Brought(t, j) => Brought(t, j)' BY <1>2, <1>8 DEF Brought
    <2>2. me[t].fresh \subseteq Source BY GotTyped
    <2> QED BY <1>1, <1>2, <1>3, <1>5, <1>6, <1>7, <1>8, <2>1, <2>2 DEF PollOK, RoundOK
  <1> QED BY <1>2, <1>3, <1>9, <1>10, RoundGoesOn

LEMMA MarkStep ==
    ASSUME IInv, OneAtATime, NEW t \in Thread, Stored(t) \/ Mark(t) \/ MarkFails(t)
    PROVE  NotesOK' /\ PollOK'
  <1> USE DEF IInv
  <1>1. \A u \in Thread : u = t BY DEF OneAtATime
  <1>2. UNCHANGED shared BY DEF Stored, Mark, MarkFails
  <1>3. /\ clock' = clock /\ house' = house /\ done' = done /\ last' = last
        /\ lastAt' = lastAt /\ cacheAt' = cacheAt /\ cacheBody' = cacheBody
    BY <1>2 DEF shared, poller, cache
  <1>4. CASE Stored(t) \/ Mark(t)
    <2>1. pc[t] \in {"fetch", "mark"} /\ pc'[t] \in {"mark", "marking"}
      BY <1>4 DEF Stored, Mark, Goto, TypeOK
    <2>2. /\ me'[t].todo = me[t].todo /\ me'[t].asked = me[t].asked /\ me'[t].now = me[t].now
          /\ me'[t].base = me[t].base /\ me'[t].fresh = me[t].fresh
          /\ me'[t].got = me[t].got
      <3> DEFINE d == DOMAIN last
      <3>1. me' = me \/ me' = [me EXCEPT ![t].seen = d] BY <1>4 DEF Stored, Mark
      <3> HIDE DEF d
      <3> QED BY <3>1 DEF TypeOK, Locals
    <2>3. NotesOK' BY <1>3, <2>1, <2>2, NotesStay DEF Polling
    <2>4. RoundOK' BY <1>1, <1>3, <2>1, <2>2 DEF PollOK, RoundOK, Brought
    <2> QED BY <1>3, <2>1, <2>3, <2>4, RoundGoesOn
  <1>5. CASE MarkFails(t)
    <2>1. pc[t] = "marking" /\ pc'[t] = "error" /\ me'[t] = Blank
      BY <1>5 DEF MarkFails, Goto, TypeOK
    <2>2. Blank.now <= clock /\ \A k \in Source : Blank.base[k] <= house[k]
      BY BlankFacts, Numbers
    <2> QED BY <1>2, <2>1, <2>2, Lands
  <1> QED BY <1>4, <1>5

\* What was asked for and came is sound, and so is what was not asked for: the
\* clock of its source says so, and it is never written to.
LEMMA MarkedStep ==
    ASSUME IInv, OneAtATime, NEW t \in Thread, Marked(t)
    PROVE  NotesOK' /\ PollOK'
  <1> USE DEF IInv
  <1>1. \A u \in Thread : u = t BY DEF OneAtATime
  <1>2. /\ clock' = clock /\ house' = house /\ done' = done /\ last' = last
        /\ lastAt' = lastAt /\ cacheAt' = cacheAt /\ cacheBody' = cacheBody
    BY DEF Marked, shared, poller, cache
  <1>3. pc[t] = "marking" /\ pc'[t] = "copy" /\ DOMAIN last = me[t].seen
    BY DEF Marked, Goto, TypeOK
  <1>4. /\ me'[t].now = me[t].now /\ me'[t].base = me[t].base
        /\ me'[t].fresh = me[t].fresh \cup (me[t].seen \ me[t].asked)
    <2> DEFINE d == me[t].seen \ me[t].asked
    <2>1. me' = [me EXCEPT ![t].fresh = @ \cup d] BY DEF Marked
    <2> HIDE DEF d
    <2>2. me'[t].now = me[t].now /\ me'[t].base = me[t].base /\ me'[t].fresh = me[t].fresh \cup d
      BY <2>1 DEF TypeOK, Locals
    <2> QED BY <2>2 DEF d
  <1>5. NotesOK' BY <1>2, <1>3, <1>4, NotesStay DEF Polling
  <1>6. ASSUME NEW k \in me'[t].fresh
        PROVE  k \in DOMAIN last /\ Sound(k, last[k], me[t].now, me[t].base)
    <2>1. CASE k \in me[t].fresh
      <3>1. Brought(t, k) BY <1>3, <2>1 DEF PollOK, RoundOK
      <3>2. k \in DOMAIN last /\ me[t].now - last[k].at <= 0
        BY <3>1, Numbers DEF Brought
      <3>3. Age(k) >= 0 /\ Age(k) \in Int BY Parameters DEF Age
      <3> QED BY <3>1, <3>2, <3>3, Numbers DEF Sound, Brought
    <2>2. CASE k \in me[t].seen \ me[t].asked
      <3>1. k \in DOMAIN last /\ k \in Source BY <1>3, <2>2, Numbers
      <3>2. k \in Slow /\ k \in DOMAIN lastAt /\ me[t].now - lastAt[k] < SlowTtl
        BY <1>3, <2>2, <3>1 DEF PollOK, RoundOK
      <3>3. last[k].at >= lastAt[k] BY <3>2 DEF NotesOK, NotedIsRead
      <3>4. me[t].now - last[k].at <= Age(k)
        BY <3>1, <3>2, <3>3, Numbers, Parameters DEF Age
      <3>5. house[k] = 0 BY <3>1, <3>2, Parameters DEF NotesOK, WritesCount
      <3>6. me[t].base[k] <= house[k] BY <3>1 DEF NotesOK, WritesCount
      <3>7. last[k].wr >= me[t].base[k] BY <3>1, <3>5, <3>6, Numbers
      <3> QED BY <3>1, <3>4, <3>7 DEF Sound
    <2> QED BY <1>4, <2>1, <2>2
  <1>7. FreshIsSound' BY <1>1, <1>2, <1>4, <1>6 DEF FreshIsSound
  <1>8. RoundStarts' /\ RoundOK' /\ BuiltIsGood' /\ HitIsRecent' /\ ReplyIsGood'
    BY <1>1, <1>3 DEF RoundStarts, RoundOK, BuiltIsGood, HitIsRecent, ReplyIsGood
  <1>9. CacheIsGood' BY <1>1, <1>2, <1>3 DEF PollOK, CacheIsGood
  <1> QED BY <1>5, <1>7, <1>8, <1>9 DEF PollOK

LEMMA BuildStep ==
    ASSUME IInv, OneAtATime, NEW t \in Thread, CopyAndBuild(t)
    PROVE  NotesOK' /\ PollOK'
  <1> USE DEF IInv
  <1>1. \A u \in Thread : u = t BY DEF OneAtATime
  <1>2. /\ clock' = clock /\ house' = house /\ done' = done /\ last' = last
        /\ lastAt' = lastAt /\ cacheAt' = cacheAt /\ cacheBody' = cacheBody
    BY DEF CopyAndBuild, shared, poller, cache
  <1>3. pc[t] = "copy" /\ pc'[t] = "cacheDash" BY DEF CopyAndBuild, Goto, TypeOK
  <1>4. /\ me'[t].now = me[t].now /\ me'[t].base = me[t].base /\ me'[t].snap = Built(t)
    <2>1. me' = [me EXCEPT ![t] = Packed(t)] BY DEF CopyAndBuild, Packed, Built
    <2>2. me'[t] = Packed(t) BY <2>1 DEF TypeOK
    <2> QED BY <2>2, BlankFacts DEF Packed, Locals
  <1>5. NotesOK' BY <1>2, <1>3, <1>4, NotesStay DEF Polling
  <1>6. GoodSnap(Built(t), me[t].now, me[t].base)
    <2>1. \A k \in me[t].fresh : k \in DOMAIN last /\ Sound(k, last[k], me[t].now, me[t].base)
      BY <1>3 DEF PollOK, FreshIsSound
    <2>2. Built(t).raw = last /\ Built(t).old = OldSections(last, me[t].fresh) BY DEF Built
    <2>3. ASSUME NEW s \in Section, Shows(last, s),
                 s \notin OldSections(last, me[t].fresh)
          PROVE  \E k \in Inputs[s] \cap DOMAIN last : Sound(k, last[k], me[t].now, me[t].base)
      <3>1. PICK k \in Inputs[s] \cap me[t].fresh : TRUE BY <2>3 DEF OldSections
      <3> QED BY <2>1, <3>1
    <2> QED BY <2>2, <2>3 DEF GoodSnap
  <1>7. BuiltIsGood'
    <2>1. DOMAIN cacheBody.raw \subseteq DOMAIN last BY DEF PollOK, CacheIsGood
    <2>2. Built(t).raw = last BY DEF Built
    <2> QED BY <1>1, <1>2, <1>3, <1>4, <1>6, <2>1, <2>2 DEF BuiltIsGood
  <1>8. RoundStarts' /\ RoundOK' /\ FreshIsSound' /\ HitIsRecent' /\ ReplyIsGood'
    BY <1>1, <1>3 DEF RoundStarts, RoundOK, FreshIsSound, HitIsRecent, ReplyIsGood
  <1>9. CacheIsGood' BY <1>1, <1>2, <1>3 DEF PollOK, CacheIsGood
  <1> QED BY <1>5, <1>7, <1>8, <1>9 DEF PollOK

LEMMA CacheStep ==
    ASSUME IInv, OneAtATime, NEW t \in Thread, CacheDash(t) \/ CacheAt(t) \/ CacheBody(t)
    PROVE  NotesOK' /\ PollOK'
  <1> USE DEF IInv
  <1>1. \A u \in Thread : u = t BY DEF OneAtATime
  <1>2. /\ clock' = clock /\ house' = house /\ done' = done /\ last' = last
        /\ lastAt' = lastAt /\ me' = me
    BY DEF CacheDash, CacheAt, CacheBody, poller
  <1>3. /\ pc[t] \in {"cacheDash", "cacheAt", "cacheBody"}
        /\ pc'[t] \in {"cacheAt", "cacheBody", "dashReply"}
    BY DEF CacheDash, CacheAt, CacheBody, Goto, TypeOK
  <1>4. NotesOK' BY <1>2, <1>3, NotesStay DEF Polling
  <1>5. /\ GoodSnap(me[t].snap, me[t].now, me[t].base)
        /\ DOMAIN cacheBody.raw \subseteq DOMAIN me[t].snap.raw
        /\ DOMAIN me[t].snap.raw \subseteq DOMAIN last
        /\ pc[t] = "cacheBody" => cacheAt = me[t].now
    BY <1>3 DEF PollOK, BuiltIsGood
  <1>6. RoundStarts' /\ RoundOK' /\ FreshIsSound' /\ HitIsRecent'
    BY <1>1, <1>3 DEF RoundStarts, RoundOK, FreshIsSound, HitIsRecent
  <1>7. CASE CacheDash(t) \/ CacheAt(t)
    <2>1. /\ cacheBody' = cacheBody /\ pc'[t] \in {"cacheAt", "cacheBody"}
          /\ pc'[t] = "cacheBody" => cacheAt' = me[t].now
          /\ pc'[t] # "cacheBody" => cacheAt' = cacheAt
          /\ pc[t] # "cacheBody"
      BY <1>7 DEF CacheDash, CacheAt, Goto, TypeOK
    <2>2. BuiltIsGood' BY <1>1, <1>2, <1>5, <2>1 DEF BuiltIsGood
    <2>3. CacheIsGood' BY <1>1, <1>2, <2>1 DEF PollOK, CacheIsGood
    <2>4. ReplyIsGood' BY <1>1, <2>1 DEF ReplyIsGood
    <2> QED BY <1>4, <1>6, <2>2, <2>3, <2>4 DEF PollOK
  <1>8. CASE CacheBody(t)
    <2>1. /\ pc[t] = "cacheBody" /\ pc'[t] = "dashReply" /\ cacheAt' = cacheAt
          /\ cacheBody' = me[t].snap
      BY <1>8 DEF CacheBody, Goto, TypeOK
    <2>2. me[t].base = done BY <1>3 DEF NotesOK, PollIsNewest, Polling
    <2>3. BuiltIsGood' BY <1>1, <2>1 DEF BuiltIsGood
    <2>4. CacheIsGood' BY <1>2, <1>5, <2>1, <2>2 DEF CacheIsGood
    <2>5. ReplyIsGood'
      <3>1. me[t].now \in Time /\ me[t].now - me[t].now < CacheTtl
        BY GotTyped, Numbers, Parameters
      <3> QED BY <1>1, <1>2, <1>5, <3>1 DEF ReplyIsGood
    <2> QED BY <1>4, <1>6, <2>3, <2>4, <2>5 DEF PollOK
  <1> QED BY <1>7, <1>8

LEMMA HitStep ==
    ASSUME IInv, OneAtATime, NEW t \in Thread, Hit(t)
    PROVE  NotesOK' /\ PollOK'
  <1> USE DEF IInv
  <1>1. \A u \in Thread : u = t BY DEF OneAtATime
  <1>2. /\ clock' = clock /\ house' = house /\ done' = done /\ last' = last
        /\ lastAt' = lastAt /\ cacheAt' = cacheAt /\ cacheBody' = cacheBody
    BY DEF Hit, shared, poller, cache
  <1>3. pc[t] = "hit" /\ pc'[t] = "dashReply" BY DEF Hit, Goto, TypeOK
  <1>4. me'[t].now = me[t].now /\ me'[t].base = me[t].base /\ me'[t].snap = cacheBody
    BY DEF Hit, TypeOK, Locals
  <1>5. NotesOK' BY <1>2, <1>3, <1>4, NotesStay DEF Polling
  <1>6. cacheBody.made /\ cacheAt # LongAgo /\ me[t].now - cacheAt < CacheTtl
    BY <1>3 DEF PollOK, HitIsRecent
  <1>7. \A u \in Thread : pc[u] # "cacheBody" BY <1>1, <1>3
  <1>8. GoodSnap(cacheBody, cacheAt, done) BY <1>6, <1>7 DEF PollOK, CacheIsGood
  <1>9. me[t].base = done BY <1>3 DEF NotesOK, PollIsNewest, Polling
  <1>10. ReplyIsGood'
    <2>1. cacheAt \in Time BY <1>6, Numbers
    <2> QED BY <1>1, <1>4, <1>6, <1>8, <1>9, <2>1 DEF ReplyIsGood
  <1>11. RoundStarts' /\ RoundOK' /\ FreshIsSound' /\ BuiltIsGood' /\ HitIsRecent'
    BY <1>1, <1>3 DEF RoundStarts, RoundOK, FreshIsSound, BuiltIsGood, HitIsRecent
  <1>12. CacheIsGood' BY <1>2, <1>7 DEF PollOK, CacheIsGood
  <1> QED BY <1>5, <1>10, <1>11, <1>12 DEF PollOK

LEMMA ReplyStep ==
    ASSUME IInv, OneAtATime, NEW t \in Thread, Reply(t)
    PROVE  NotesOK' /\ PollOK'
  <1>1. pc[t] # "cacheBody" /\ pc'[t] = "idle" /\ me'[t] = Blank /\ UNCHANGED shared
    BY DEF IInv, Reply, Goto, TypeOK
  <1>2. Blank.now <= clock /\ \A k \in Source : Blank.base[k] <= house[k]
    BY BlankFacts, Numbers DEF IInv
  <1> QED BY <1>1, <1>2, Lands

LEMMA SendStep ==
    ASSUME IInv, OneAtATime, NEW t \in Thread, Send(t)
    PROVE  NotesOK' /\ PollOK'
  <1> USE DEF IInv
  <1>1. \A u \in Thread : u = t BY DEF OneAtATime
  <1>2. /\ clock' = clock /\ done' = done /\ last' = last /\ lastAt' = lastAt
        /\ cacheAt' = cacheAt /\ cacheBody' = cacheBody /\ pc' = pc
    BY DEF Send, poller, cache
  <1>3. pc[t] = "send" BY DEF Send
  <1>4. PICK k \in Foremost(me[t].todo) :
           \/ /\ house[k] < MaxWrite
              /\ house' = [house EXCEPT ![k] = @ + 1]
              /\ me' = [me EXCEPT ![t].todo = @ \ {k}, ![t].base[k] = house'[k],
                                  ![t].used = Nothing]
           \/ /\ me' = [me EXCEPT ![t].todo = @ \ {k}, ![t].used = Nothing]
              /\ UNCHANGED house
    BY DEF Send
  <1>5. k \in me[t].todo /\ k \in Writable /\ k \in Source
    BY <1>3, ForemostFacts DEF NotesOK, WritesCount
  <1>6. WritesCount' /\ NotedIsPast'
    <2>1. CASE /\ house' = [house EXCEPT ![k] = @ + 1]
               /\ me' = [me EXCEPT ![t].todo = @ \ {k}, ![t].base[k] = house'[k],
                                   ![t].used = Nothing]
      <3> DEFINE h == house'[k]
      <3>1. /\ me'[t].todo = me[t].todo \ {k} /\ me'[t].now = me[t].now
            /\ me'[t].base = [me[t].base EXCEPT ![k] = h]
        <4>1. me' = [me EXCEPT ![t].todo = @ \ {k}, ![t].base[k] = h, ![t].used = Nothing]
          BY <2>1
        <4>2. me \in [Thread -> Locals] /\ me[t] \in Locals BY DEF TypeOK
        <4> HIDE DEF h
        <4>3. me' = [me EXCEPT ![t] = [me[t] EXCEPT !.todo = @ \ {k}, !.base[k] = h,
                                                    !.used = Nothing]]
          BY <4>1, <4>2
        <4>4. me'[t] = [me[t] EXCEPT !.todo = @ \ {k}, !.base[k] = h, !.used = Nothing]
          BY <4>2, <4>3
        <4> QED BY <4>2, <4>4 DEF Locals
      <3>2. h = house[k] + 1 /\ \A j \in Source : j # k => house'[j] = house[j]
        BY <1>5, <2>1 DEF TypeOK
      <3>3. me'[t].base[k] = h /\ \A j \in Source : j # k => me'[t].base[j] = me[t].base[j]
        BY <1>5, <3>1, GotTyped
      <3>4. \A j \in Source : /\ done[j] <= house[j] /\ (j \notin Writable => house[j] = 0)
                              /\ me[t].base[j] <= house[j]
        BY DEF NotesOK, WritesCount
      <3>5. \A j \in Source : /\ done[j] <= house'[j] /\ (j \notin Writable => house'[j] = 0)
                              /\ me'[t].base[j] <= house'[j]
        BY <1>5, <3>2, <3>3, <3>4, Numbers
      <3>6. me'[t].todo \subseteq Writable BY <1>3, <3>1 DEF NotesOK, WritesCount
      <3>7. WritesCount' BY <1>1, <1>2, <3>5, <3>6 DEF WritesCount
      <3>8. NotedIsPast' BY <1>1, <1>2, <3>1 DEF NotesOK, NotedIsPast
      <3> QED BY <3>7, <3>8
    <2>2. CASE me' = [me EXCEPT ![t].todo = @ \ {k}, ![t].used = Nothing] /\ house' = house
      <3>1. /\ me'[t].todo = me[t].todo \ {k} /\ me'[t].now = me[t].now
            /\ me'[t].base = me[t].base
        BY <2>2 DEF TypeOK, Locals
      <3>2. WritesCount' BY <1>1, <1>2, <1>3, <2>2, <3>1 DEF NotesOK, WritesCount
      <3>3. NotedIsPast' BY <1>1, <1>2, <3>1 DEF NotesOK, NotedIsPast
      <3> QED BY <3>2, <3>3
    <2> QED BY <1>4, <2>1, <2>2
  <1>7. NotedIsRead' BY <1>2 DEF NotesOK, NotedIsRead
  <1>8. PollIsNewest' BY <1>1, <1>2, <1>3 DEF PollIsNewest, Polling
  <1>9. RoundStarts' /\ RoundOK' /\ FreshIsSound' /\ BuiltIsGood' /\ HitIsRecent' /\ ReplyIsGood'
    BY <1>1, <1>2, <1>3
       DEF RoundStarts, RoundOK, FreshIsSound, BuiltIsGood, HitIsRecent, ReplyIsGood
  <1>10. CacheIsGood' BY <1>2 DEF PollOK, CacheIsGood
  <1> QED BY <1>6, <1>7, <1>8, <1>9, <1>10 DEF NotesOK, PollOK

\* It leaves writes behind that are not announced.
LEMMA SendRaisesStep ==
    ASSUME IInv, OneAtATime, NEW t \in Thread, SendRaises(t)
    PROVE  NotesOK' /\ PollOK'
  <1> USE DEF IInv
  <1>1. \A u \in Thread : u = t BY DEF OneAtATime
  <1>2. /\ clock' = clock /\ done' = done /\ last' = last /\ lastAt' = lastAt
        /\ cacheAt' = cacheAt /\ cacheBody' = cacheBody
    BY DEF SendRaises, poller, cache
  <1>3. pc[t] = "send" /\ pc'[t] = "error" /\ me'[t] = Blank
    BY DEF SendRaises, Goto, TypeOK
  <1>4. WritesCount'
    <2>1. PICK k \in Foremost(me[t].todo) :
             \/ house[k] < MaxWrite /\ house' = [house EXCEPT ![k] = @ + 1]
             \/ UNCHANGED house
      BY DEF SendRaises
    <2>2. k \in Writable /\ k \in Source
      BY <1>3, ForemostFacts DEF NotesOK, WritesCount
    <2>3. \A j \in Source : house'[j] = house[j] \/ (j = k /\ house'[j] = house[j] + 1)
      BY <2>1, <2>2 DEF TypeOK
    <2>4. \A j \in Source : done[j] <= house[j] /\ (j \notin Writable => house[j] = 0)
      BY DEF NotesOK, WritesCount
    <2>5. \A j \in Source : done[j] <= house'[j] /\ (j \notin Writable => house'[j] = 0)
      BY <2>2, <2>3, <2>4, Numbers
    <2>6. \A j \in Source : Blank.base[j] <= house'[j]
      BY <2>3, BlankFacts, Numbers
    <2> QED BY <1>1, <1>2, <1>3, <2>5, <2>6 DEF WritesCount
  <1>5. NotedIsPast'
    <2>1. Blank.now <= clock BY BlankFacts, Numbers
    <2> QED BY <1>1, <1>2, <1>3, <2>1 DEF NotesOK, NotedIsPast
  <1>6. NotedIsRead' BY <1>2 DEF NotesOK, NotedIsRead
  <1>7. PollIsNewest' BY <1>1, <1>3 DEF PollIsNewest, Polling
  <1>8. RoundStarts' /\ RoundOK' /\ FreshIsSound' /\ BuiltIsGood' /\ HitIsRecent' /\ ReplyIsGood'
    BY <1>1, <1>3 DEF RoundStarts, RoundOK, FreshIsSound, BuiltIsGood, HitIsRecent, ReplyIsGood
  <1>9. CacheIsGood' BY <1>1, <1>2, <1>3 DEF PollOK, CacheIsGood
  <1> QED BY <1>4, <1>5, <1>6, <1>7, <1>8, <1>9 DEF NotesOK, PollOK

LEMMA DropStep ==
    ASSUME IInv, OneAtATime, NEW t \in Thread, Drop(t)
    PROVE  NotesOK' /\ PollOK'
  <1> USE DEF IInv
  <1>1. \A u \in Thread : u = t BY DEF OneAtATime
  <1>2. /\ clock' = clock /\ house' = house /\ last' = last /\ lastAt' = lastAt
        /\ cacheAt' = LongAgo /\ cacheBody' = cacheBody
    BY DEF Drop, poller
  <1>3. pc[t] = "send" /\ pc'[t] = "actReply" /\ me'[t] = Blank
    BY DEF Drop, Goto, TypeOK
  <1>4. \A k \in Source : done'[k] = done[k] \/ done'[k] = me[t].base[k] BY DEF Drop
  <1>5. WritesCount'
    <2>1. \A k \in Source : /\ done[k] <= house[k] /\ (k \notin Writable => house[k] = 0)
                            /\ me[t].base[k] <= house[k]
      BY DEF NotesOK, WritesCount
    <2>2. \A k \in Source : Blank.base[k] <= house[k] BY BlankFacts, Numbers
    <2> QED BY <1>1, <1>2, <1>3, <1>4, <2>1, <2>2 DEF WritesCount
  <1>6. NotedIsPast'
    <2>1. Blank.now <= clock BY BlankFacts, Numbers
    <2> QED BY <1>1, <1>2, <1>3, <2>1 DEF NotesOK, NotedIsPast
  <1>7. NotedIsRead' BY <1>2 DEF NotesOK, NotedIsRead
  <1>8. PollIsNewest' BY <1>1, <1>3 DEF PollIsNewest, Polling
  <1>9. RoundStarts' /\ RoundOK' /\ FreshIsSound' /\ BuiltIsGood' /\ HitIsRecent' /\ ReplyIsGood'
    BY <1>1, <1>3 DEF RoundStarts, RoundOK, FreshIsSound, BuiltIsGood, HitIsRecent, ReplyIsGood
  <1>10. CacheIsGood' BY <1>2 DEF PollOK, CacheIsGood
  <1> QED BY <1>5, <1>6, <1>7, <1>8, <1>9, <1>10 DEF NotesOK, PollOK

LEMMA StepInvariant == IInv /\ OneAtATime /\ [Next]_vars => IInv'
  <1> SUFFICES ASSUME IInv, OneAtATime, [Next]_vars PROVE IInv'
    OBVIOUS
  <1>1. TypeOK' BY StepTypes DEF IInv
  <1>2. CASE Tick BY <1>1, <1>2, TickStep DEF IInv
  <1>3. ASSUME NEW t \in Thread, Request(t) PROVE IInv'
    BY <1>1, <1>3, RequestStep DEF IInv
  <1>4. ASSUME NEW t \in Thread, Handle(t) PROVE IInv'
    <2>1. NotesOK' /\ PollOK'
      BY <1>4, SubmitStep, StoreStep, StampStep, MarkStep, MarkedStep, BuildStep, CacheStep,
         HitStep, ReplyStep, SendStep, SendRaisesStep, DropStep
         DEF Handle
    <2> QED BY <1>1, <2>1 DEF IInv
  <1>5. ASSUME NEW t \in Thread, NEW k \in Source, Fetch(t, k) PROVE IInv'
    BY <1>1, <1>5, FetchStep DEF IInv
  <1>6. CASE UNCHANGED vars
    BY <1>1, <1>6
       DEF IInv, vars, NotesOK, WritesCount, NotedIsPast, NotedIsRead, PollIsNewest, Polling,
           PollOK, RoundStarts, RoundOK, Brought, FreshIsSound, BuiltIsGood, CacheIsGood,
           HitIsRecent, ReplyIsGood
  <1> QED BY <1>2, <1>3, <1>4, <1>5, <1>6 DEF Next

-----------------------------------------------------------------------------
(* What a reply says.                                                      *)

LEMMA AlwaysIInv == ASSUME OneAtATime PROVE Spec => []IInv
  BY InitInvariant, StepInvariant, PTL DEF Spec

\* Of a section that a reply does not call old some input has answered as lately
\* as its clock and the cache allow, whatever the sources, the clocks, the
\* timeouts and the shapes of the replies.
THEOREM CurrentIsRecentAlways == OneAtATime => (Spec => []CurrentIsRecent)
  <1> SUFFICES ASSUME OneAtATime PROVE Spec => []CurrentIsRecent
    OBVIOUS
  <1>1. IInv => CurrentIsRecent BY RepliesAreGood DEF IInv, PollOK
  <1> QED BY <1>1, AlwaysIInv, PTL

\* A poll that came after an action was answered, 200 or 502, shows the house as
\* the action left it, or says that what it shows is old, whatever actions have
\* ended as a 500 between the two.
THEOREM PollAfterWriteAlways == OneAtATime => (Spec => []PollAfterWrite)
  <1> SUFFICES ASSUME OneAtATime PROVE Spec => []PollAfterWrite
    OBVIOUS
  <1>1. IInv => PollAfterWrite BY RepliesAreGood DEF IInv, PollOK
  <1> QED BY <1>1, AlwaysIInv, PTL

\* The cached snapshot changes in one step only, and its successor is given
\* whatever it was given.
LEMMA KnownStaysKnown ==
    ASSUME IInv, [Next]_vars
    PROVE  cacheBody' = cacheBody \/ DOMAIN cacheBody.raw \subseteq DOMAIN cacheBody'.raw
  <1>1. ASSUME NEW t \in Thread, CacheBody(t)
        PROVE  DOMAIN cacheBody.raw \subseteq DOMAIN cacheBody'.raw
    BY <1>1 DEF CacheBody, IInv, PollOK, BuiltIsGood
  <1>2. Tick => cacheBody' = cacheBody BY DEF Tick, cache
  <1>3. ASSUME NEW t \in Thread PROVE Request(t) => cacheBody' = cacheBody
    BY DEF Request, StartDash, StartAct, StartRelative, StartMacro, shared, cache
  <1>4. ASSUME NEW t \in Thread, Handle(t), ~CacheBody(t) PROVE cacheBody' = cacheBody
    BY <1>4 DEF Handle, Hit, Submit, Store, Stamp, Stored, Mark, Marked, MarkFails,
                CopyAndBuild, CacheDash, CacheAt, Send, SendRaises, Drop, Reply, shared, cache
  <1>5. ASSUME NEW t \in Thread, NEW k \in Source PROVE Fetch(t, k) => cacheBody' = cacheBody
    BY DEF Fetch, shared, cache
  <1>6. UNCHANGED vars => cacheBody' = cacheBody BY DEF vars, cache
  <1> QED BY <1>1, <1>2, <1>3, <1>4, <1>5, <1>6 DEF Next

\* What was given in place of what could be shown and is not shown itself.
Blanks(old, new, s) ==
    \E k \in Inputs[s] \cap DOMAIN new :
        new[k].shape # "good" /\ (k \in DOMAIN old => old[k] # new[k])

LEMMA OnlyAnswersBlank ==
    ASSUME NEW old, NEW new, NEW s \in Section, DOMAIN old \subseteq DOMAIN new,
           Shows(old, s), ~Shows(new, s)
    PROVE  Blanks(old, new, s)
  <1> DEFINE heard == Inputs[s] \cap DOMAIN new
  <1>1. PICK g \in Inputs[s] \cap DOMAIN old : old[g].shape = "good" BY DEF Shows
  <1>2. \A k \in Inputs[s] \cap DOMAIN old : old[k].shape # "broken" BY DEF Shows
  <1>3. CASE \E k \in heard : new[k].shape = "broken"
    <2>1. PICK k \in heard : new[k].shape = "broken" BY <1>3
    <2>2. new[k].shape # "good" BY <2>1
    <2>3. k \in DOMAIN old => old[k] # new[k] BY <1>2, <2>1
    <2> QED BY <2>2, <2>3 DEF Blanks
  <1>4. CASE \A k \in heard : new[k].shape # "good"
    <2>1. g \in heard BY <1>1
    <2>2. new[g].shape # "good" /\ old[g] # new[g] BY <1>1, <1>4, <2>1
    <2> QED BY <2>1, <2>2 DEF Blanks
  <1> QED BY <1>3, <1>4 DEF Shows

\* What the cached snapshot shows, its successor shows too, unless something
\* was answered meanwhile that it cannot be built from.
THEOREM ShownStaysShownAlways == OneAtATime => (Spec => ShownStaysShown)
  <1> SUFFICES ASSUME OneAtATime PROVE Spec => ShownStaysShown
    OBVIOUS
  <1>1. IInv /\ [Next]_vars =>
           [\A s \in Section : Shows(cacheBody.raw, s) =>
               \/ Shows(cacheBody'.raw, s)
               \/ \E k \in Inputs[s] \cap DOMAIN cacheBody'.raw :
                     /\ cacheBody'.raw[k].shape # "good"
                     /\ k \in DOMAIN cacheBody.raw =>
                           cacheBody.raw[k] # cacheBody'.raw[k]]_vars
    <2> SUFFICES ASSUME IInv, [Next]_vars, NEW s \in Section, Shows(cacheBody.raw, s),
                        ~Shows(cacheBody'.raw, s)
                 PROVE  Blanks(cacheBody.raw, cacheBody'.raw, s)
      BY Zenon DEF Blanks
    <2>1. CASE cacheBody' = cacheBody BY <2>1
    <2>2. CASE DOMAIN cacheBody.raw \subseteq DOMAIN cacheBody'.raw
      BY <2>2, OnlyAnswersBlank
    <2> QED BY <2>1, <2>2, KnownStaysKnown
  <1> QED BY <1>1, AlwaysIInv, PTL DEF Spec, ShownStaysShown

-----------------------------------------------------------------------------
(* Every request ends: the part of it that needs no fairness.              *)

\* Wherever a thread is, something is left to do, and the guard of one of its
\* steps holds: nobody has to wait for another thread or for a backend.
CanGoOn(t) ==
    \/ pc[t] \in {"idle", "hit", "collect", "collectAll", "mark", "marking", "copy",
                  "cacheDash", "cacheAt", "cacheBody", "dashReply", "error",
                  "actReply", "refused"}
    \/ pc[t] \in {"fetch", "send"} /\ me[t].todo = {}
    \/ pc[t] \in {"fetch", "stamp", "send"} /\ Foremost(me[t].todo) # {}

NobodyStuck == \A t \in Thread : CanGoOn(t) /\ Left(t) \in 0 .. 9 + 2 * Cardinality(Source)

\* What NobodyStuck needs of the places.
InPlace == \A t \in Thread : pc[t] # "drop" /\ (pc[t] = "stamp" => me[t].todo # {})

\* Every set of numbers has a least one, so somebody is first in every line.
LEMMA LeastNumber ==
    ASSUME NEW T, T \subseteq Nat, T # {}
    PROVE  \E n \in T : \A m \in T : ~(m < n)
  <1> DEFINE R == {ss \in Nat \X Nat : ss[1] < ss[2]}
  <1>1. IsWellFoundedOn(R, Nat)
    BY NatLessThanWellFounded, Zenon DEF OpToRel
  <1>2. \A m, n \in T : m < n => <<m, n>> \in R
    OBVIOUS
  <1> HIDE DEF R
  <1>3. \E n \in T : \A m \in T : ~(<<m, n>> \in R)
    BY <1>1, WFMin
  <1> QED BY <1>2, <1>3

LEMMA SomebodyIsForemost ==
    ASSUME NEW S, S \subseteq Source, S # {}
    PROVE  Foremost(S) # {}
  <1>1. PICK len \in Nat : DOMAIN SourceSeq = 1 .. len
    BY GatewayAssumption
  <1> DEFINE T == {n \in DOMAIN SourceSeq : SourceSeq[n] \in S}
  <1>2. T \subseteq Nat /\ T # {}
    BY <1>1 DEF Source
  <1>3. PICK n \in T : \A m \in T : ~(m < n)
    BY <1>2, LeastNumber
  <1>4. \A m \in 1 .. n - 1 : m \in DOMAIN SourceSeq /\ m < n
    BY <1>1, <1>3
  <1>5. \A m \in 1 .. n - 1 : SourceSeq[m] \notin S
    BY <1>3, <1>4
  <1>6. SourceSeq[n] \in Foremost(S)
    BY <1>3, <1>5 DEF Foremost
  <1> QED BY <1>6

LEMMA SourcesFinite ==
    /\ IsFiniteSet(Source) /\ Cardinality(Source) \in Nat
    /\ \A S \in SUBSET Source :
          /\ IsFiniteSet(S) /\ Cardinality(S) \in Nat /\ Cardinality(S) <= Cardinality(Source)
          /\ Cardinality(S) = 0 <=> S = {}
          /\ \A k \in S : Cardinality(S \ {k}) = Cardinality(S) - 1
  <1>1. SourceSeq \in Seq(Source) BY GatewayAssumption
  <1> DEFINE n == Len(SourceSeq)
  <1>2. n \in Nat /\ SourceSeq \in [1 .. n -> Source] BY <1>1
  <1>3. SourceSeq \in Surjection(1 .. n, Source)
    <2>1. \A k \in Source : \E i \in 1 .. n : SourceSeq[i] = k BY <1>2 DEF Source
    <2> QED BY <1>2, <2>1 DEF Surjection
  <1> HIDE DEF n
  <1>4. IsFiniteSet(1 .. n) BY <1>2, FS_Interval
  <1>5. IsFiniteSet(Source) BY <1>3, <1>4, FS_Surjection
  <1>6. Cardinality(Source) \in Nat BY <1>5, FS_CardinalityType
  <1>7. ASSUME NEW S \in SUBSET Source
        PROVE  /\ IsFiniteSet(S) /\ Cardinality(S) \in Nat
               /\ Cardinality(S) <= Cardinality(Source)
               /\ Cardinality(S) = 0 <=> S = {}
               /\ \A k \in S : Cardinality(S \ {k}) = Cardinality(S) - 1
    <2>1. IsFiniteSet(S) /\ Cardinality(S) <= Cardinality(Source) BY <1>5, FS_Subset
    <2>2. Cardinality(S) \in Nat BY <2>1, FS_CardinalityType
    <2>3. Cardinality(S) = 0 <=> S = {} BY <2>1, FS_EmptySet
    <2>4. \A k \in S : Cardinality(S \ {k}) = Cardinality(S) - 1 BY <2>1, FS_RemoveElement
    <2> QED BY <2>1, <2>2, <2>3, <2>4
  <1> QED BY <1>5, <1>6, <1>7

LEMMA BeyondFacts ==
    /\ Beyond["idle"] = 0 /\ Beyond["dashReply"] = 1 /\ Beyond["actReply"] = 1
    /\ Beyond["refused"] = 1 /\ Beyond["error"] = 1 /\ Beyond["drop"] = 1
    /\ Beyond["hit"] = 2 /\ Beyond["cacheBody"] = 2 /\ Beyond["send"] = 2
    /\ Beyond["cacheAt"] = 3 /\ Beyond["cacheDash"] = 4 /\ Beyond["copy"] = 5
    /\ Beyond["marking"] = 6 /\ Beyond["mark"] = 7 /\ Beyond["stamp"] = 7
    /\ Beyond["fetch"] = 8
    /\ Beyond["collect"] = 9 + 2 * Cardinality(Source)
    /\ Beyond["collectAll"] = 9 + 2 * Cardinality(Source)
  BY DEF Beyond, Places

LEMMA LeftFacts ==
    ASSUME TypeOK, NEW t \in Thread
    PROVE  /\ Left(t) \in 0 .. 9 + 2 * Cardinality(Source)
           /\ pc[t] # "idle" => Left(t) > 0
  <1> DEFINE n == Cardinality(Source)
             c == Cardinality(me[t].todo)
  <1>1. pc[t] \in Places /\ me[t].todo \subseteq Source BY GotTyped DEF TypeOK
  <1>2. n \in Nat /\ c \in Nat /\ c <= n BY <1>1, SourcesFinite
  <1>3. Left(t) = Beyond[pc[t]] + (IF pc[t] \in {"fetch", "stamp"} THEN 2 * c
                                   ELSE IF pc[t] = "send" THEN c ELSE 0)
    BY DEF Left, InLine
  <1> HIDE DEF n, c
  <1>4. /\ Beyond["collect"] = 9 + 2 * n /\ Beyond["collectAll"] = 9 + 2 * n
    BY BeyondFacts DEF n
  <1>5. Left(t) \in 0 .. 9 + 2 * n /\ (pc[t] # "idle" => Left(t) > 0)
    BY <1>1, <1>2, <1>3, <1>4, BeyondFacts DEF Places
  <1> QED BY <1>5 DEF n

LeftTyped == \A t \in Thread : Left(t) \in Nat

LEMMA LeftNatural == TypeOK => LeftTyped
  BY LeftFacts, SourcesFinite DEF LeftTyped

\* A step of another thread leaves this one where it is.
LEMMA OthersStay ==
    ASSUME TypeOK, NEW t \in Thread, NEW u \in Thread, u # t,
           Request(u) \/ Handle(u) \/ \E k \in Source : Fetch(u, k)
    PROVE  pc'[t] = pc[t] /\ me'[t] = me[t]
  <1>1. \A p : Goto(u, p) => pc'[t] = pc[t]
    BY DEF Goto, TypeOK
  <1>2. CASE Request(u)
    BY <1>1, <1>2 DEF Request, StartDash, StartAct, StartRelative, StartMacro, TypeOK
  <1>3. CASE \E k \in Source : Fetch(u, k)
    BY <1>3 DEF Fetch, TypeOK
  <1>4. CASE Hit(u) \/ Submit(u) \/ Store(u) \/ Stamp(u) \/ Stored(u) \/ Mark(u) \/ Marked(u)
    BY <1>1, <1>4 DEF Hit, Submit, Store, Stamp, Stored, Mark, Marked, TypeOK
  <1>5. CASE MarkFails(u) \/ CopyAndBuild(u) \/ CacheDash(u) \/ CacheAt(u) \/ CacheBody(u)
    BY <1>1, <1>5 DEF MarkFails, CopyAndBuild, CacheDash, CacheAt, CacheBody, TypeOK
  <1>6. CASE Send(u) \/ SendRaises(u) \/ Drop(u) \/ Reply(u)
    BY <1>1, <1>6 DEF Send, SendRaises, Drop, Reply, TypeOK
  <1> QED BY <1>2, <1>3, <1>4, <1>5, <1>6 DEF Handle

\* One future or plan less in line.
LEMMA TodoShrinks ==
    ASSUME TypeOK, NEW t \in Thread, NEW k \in Foremost(me[t].todo),
           me'[t].todo = me[t].todo \ {k}
    PROVE  /\ Cardinality(me[t].todo) \in Nat
           /\ Cardinality(me'[t].todo) = Cardinality(me[t].todo) - 1
  <1>1. me[t].todo \subseteq Source BY GotTyped
  <1>2. k \in me[t].todo BY ForemostFacts
  <1> QED BY <1>1, <1>2, SourcesFinite

LEMMA HandleGoes ==
    ASSUME TypeOK, NEW t \in Thread, Handle(t)
    PROVE  /\ Left(t)' < Left(t)
           /\ pc'[t] # "drop" /\ (pc'[t] = "stamp" => me'[t].todo # {})
  <1> DEFINE c == Cardinality(me[t].todo)
             d == Cardinality(me'[t].todo)
             N == Cardinality(Source)
  <1>1. /\ Left(t) = Beyond[pc[t]] + InLine(pc[t], me[t].todo)
        /\ Left(t)' = Beyond[pc'[t]] + InLine(pc'[t], me'[t].todo)
    BY DEF Left
  <1>2. /\ pc[t] \in Places /\ me[t] \in Locals /\ me[t].todo \subseteq Source
        /\ c \in Nat /\ N \in Nat
    BY GotTyped, SourcesFinite DEF TypeOK
  <1>3. \A p : Goto(t, p) => pc'[t] = p
    BY DEF Goto, TypeOK
  <1>4. CASE Submit(t)
    <2> DEFINE jobs == {k \in Source : pc[t] = "collectAll" \/ Due(k, me[t].now)}
               m == [me[t] EXCEPT !.todo = jobs, !.asked = jobs]
    <2>1. me' = [me EXCEPT ![t] = m] BY <1>4 DEF Submit, TypeOK
    <2>2. jobs \subseteq Source OBVIOUS
    <2> HIDE DEF jobs
    <2>3. m.todo = jobs BY <1>2 DEF Locals
    <2>4. me'[t] = m BY <2>1 DEF TypeOK
    <2>5. d \in Nat /\ d <= N BY <2>2, <2>3, <2>4, SourcesFinite
    <2>6. pc'[t] = "fetch" /\ pc[t] \in {"collect", "collectAll"} BY <1>3, <1>4 DEF Submit
    <2>7. Left(t)' = 8 + 2 * d BY <1>1, <2>6, BeyondFacts DEF InLine
    <2>8. Left(t) = 9 + 2 * N
      BY <1>1, <1>2, <2>6, BeyondFacts DEF InLine
    <2> HIDE DEF d, N
    <2> QED BY <1>2, <2>5, <2>6, <2>7, <2>8
  <1>5. CASE Store(t)
    <2>1. PICK k \in Foremost(me[t].todo) :
             IF k \in DOMAIN me[t].got
             THEN Goto(t, "stamp") /\ UNCHANGED me
             ELSE me' = [me EXCEPT ![t].todo = @ \ {k}] /\ UNCHANGED pc
      BY <1>5 DEF Store
    <2>2. pc[t] = "fetch" /\ k \in me[t].todo BY <1>5, ForemostFacts DEF Store
    <2>3. Left(t) = 8 + 2 * c BY <1>1, <2>2, BeyondFacts DEF InLine
    <2>4. CASE k \in DOMAIN me[t].got
      <3>1. pc'[t] = "stamp" /\ me'[t] = me[t] BY <1>3, <2>1, <2>4
      <3>2. Left(t)' = 7 + 2 * c BY <1>1, <3>1, BeyondFacts DEF InLine
      <3> HIDE DEF c
      <3> QED BY <1>2, <2>2, <2>3, <3>1, <3>2
    <2>5. CASE k \notin DOMAIN me[t].got
      <3> DEFINE m == [me[t] EXCEPT !.todo = @ \ {k}]
      <3>1. me' = [me EXCEPT ![t] = m] /\ pc' = pc BY <2>1, <2>5 DEF TypeOK
      <3>2. m.todo = me[t].todo \ {k} BY <1>2 DEF Locals
      <3>3. me'[t] = m BY <3>1 DEF TypeOK
      <3>4. d = c - 1 BY <3>2, <3>3, TodoShrinks
      <3>5. Left(t)' = 8 + 2 * d BY <1>1, <2>2, <3>1, BeyondFacts DEF InLine
      <3> HIDE DEF c, d
      <3> QED BY <1>2, <2>2, <2>3, <3>1, <3>4, <3>5
    <2> QED BY <2>4, <2>5
  <1>6. CASE Stamp(t)
    <2>1. PICK k \in Foremost(me[t].todo) :
             me' = [me EXCEPT ![t].fresh = @ \cup {k}, ![t].todo = @ \ {k}]
      BY <1>6 DEF Stamp
    <2> DEFINE m == [me[t] EXCEPT !.fresh = @ \cup {k}, !.todo = @ \ {k}]
    <2>2. me' = [me EXCEPT ![t] = m] BY <2>1 DEF TypeOK
    <2>3. m.todo = me[t].todo \ {k} BY <1>2 DEF Locals
    <2>4. me'[t] = m BY <2>2 DEF TypeOK
    <2>5. d = c - 1 BY <2>3, <2>4, TodoShrinks
    <2>6. pc[t] = "stamp" /\ pc'[t] = "fetch" BY <1>3, <1>6 DEF Stamp
    <2>7. Left(t) = 7 + 2 * c /\ Left(t)' = 8 + 2 * d
      BY <1>1, <2>6, BeyondFacts DEF InLine
    <2> HIDE DEF c, d
    <2> QED BY <1>2, <2>5, <2>6, <2>7
  <1>7. CASE Send(t)
    <2>1. PICK k \in Foremost(me[t].todo) :
             \/ me' = [me EXCEPT ![t].todo = @ \ {k}, ![t].base[k] = house'[k],
                                 ![t].used = Nothing]
             \/ me' = [me EXCEPT ![t].todo = @ \ {k}, ![t].used = Nothing]
      BY <1>7 DEF Send
    <2> DEFINE m == [me[t] EXCEPT !.todo = @ \ {k}, !.base[k] = house'[k], !.used = Nothing]
               n == [me[t] EXCEPT !.todo = @ \ {k}, !.used = Nothing]
    <2>2. me' = [me EXCEPT ![t] = m] \/ me' = [me EXCEPT ![t] = n] BY <2>1 DEF TypeOK
    <2>3. m.todo = me[t].todo \ {k} /\ n.todo = me[t].todo \ {k} BY <1>2 DEF Locals
    <2>4. me'[t] = m \/ me'[t] = n
      <3> HIDE DEF m, n
      <3> QED BY <2>2 DEF TypeOK
    <2>5. d = c - 1 BY <2>3, <2>4, TodoShrinks
    <2>6. pc[t] = "send" /\ pc'[t] = "send" BY <1>7 DEF Send
    <2>7. Left(t) = 2 + c /\ Left(t)' = 2 + d
      BY <1>1, <2>6, BeyondFacts DEF InLine
    <2> HIDE DEF c, d
    <2> QED BY <1>2, <2>5, <2>6, <2>7
  <1>10. CASE SendRaises(t)
    <2>1. pc[t] = "send" /\ pc'[t] = "error" BY <1>3, <1>10 DEF SendRaises
    <2>2. Left(t) = 2 + c /\ Left(t)' = 1 BY <1>1, <2>1, BeyondFacts DEF InLine
    <2> HIDE DEF c
    <2> QED BY <1>2, <2>1, <2>2
  <1>8. CASE Stored(t) \/ Drop(t)
    <2>1. me[t].todo = {} /\ Cardinality({}) = 0 BY <1>8, FS_EmptySet DEF Stored, Drop
    <2>2. \/ pc[t] = "fetch" /\ pc'[t] = "mark"
          \/ pc[t] = "send" /\ pc'[t] = "actReply"
      BY <1>3, <1>8 DEF Stored, Drop
    <2> QED BY <1>1, <2>1, <2>2, BeyondFacts DEF InLine
  <1>9. CASE \/ Hit(t) \/ Mark(t) \/ Marked(t) \/ MarkFails(t) \/ CopyAndBuild(t)
             \/ CacheDash(t) \/ CacheAt(t) \/ CacheBody(t) \/ Reply(t)
    <2>1. \/ pc[t] = "hit" /\ pc'[t] = "dashReply"
          \/ pc[t] = "mark" /\ pc'[t] = "marking"
          \/ pc[t] = "marking" /\ pc'[t] \in {"copy", "error"}
          \/ pc[t] = "copy" /\ pc'[t] = "cacheDash"
          \/ pc[t] = "cacheDash" /\ pc'[t] = "cacheAt"
          \/ pc[t] = "cacheAt" /\ pc'[t] = "cacheBody"
          \/ pc[t] = "cacheBody" /\ pc'[t] = "dashReply"
          \/ pc[t] \in {"dashReply", "actReply", "refused", "error"} /\ pc'[t] = "idle"
      BY <1>3, <1>9 DEF Hit, Mark, Marked, MarkFails, CopyAndBuild, CacheDash, CacheAt,
                        CacheBody, Reply
    <2> QED BY <1>1, <2>1, BeyondFacts DEF InLine
  <1> QED BY <1>4, <1>5, <1>6, <1>7, <1>8, <1>9, <1>10 DEF Handle

\* What a step does to a thread that it is not a step of, or that only listens.
LEMMA Onwards ==
    ASSUME TypeOK, [Next]_vars, NEW t \in Thread
    PROVE  \/ Handle(t)
           \/ pc[t] = "idle" /\ Request(t)
           \/ pc'[t] = pc[t] /\ me'[t].todo = me[t].todo
  <1>1. CASE Tick \/ UNCHANGED vars
    BY <1>1 DEF Tick, vars
  <1>2. ASSUME NEW u \in Thread, u # t,
               Request(u) \/ Handle(u) \/ \E k \in Source : Fetch(u, k)
        PROVE  pc'[t] = pc[t] /\ me'[t] = me[t]
    BY <1>2, OthersStay
  <1>3. ASSUME NEW k \in Source, Fetch(t, k)
        PROVE  pc'[t] = pc[t] /\ me'[t].todo = me[t].todo
    <2>0. PICK x \in Shapes : me' = [me EXCEPT ![t].got = Put(@, k, Answer(k, x))]
      BY <1>3 DEF Fetch
    <2> DEFINE g == Put(me[t].got, k, Answer(k, x))
               m == [me[t] EXCEPT !.got = g]
    <2>1. me' = [me EXCEPT ![t] = m] /\ pc' = pc BY <1>3, <2>0 DEF Fetch, TypeOK
    <2> HIDE DEF g
    <2>2. m.todo = me[t].todo BY GotTyped DEF Locals
    <2> QED BY <2>1, <2>2 DEF TypeOK
  <1>4. Request(t) => pc[t] = "idle"
    BY DEF Request, StartDash, StartAct, StartRelative, StartMacro
  <1> QED BY <1>1, <1>2, <1>3, <1>4 DEF Next

\* However many requests overlap, and whatever the backends do: every step of a
\* thread that has a request brings the end of that request nearer, and no other
\* step takes it farther away.
THEOREM EveryStepIsProgressAlways == Spec => EveryStepIsProgress
  <1>0. TypeOK' => LeftTyped'
    BY LeftNatural, PTL
  <1>1. ASSUME TypeOK, [Next]_vars, NEW t \in Thread
        PROVE  /\ Handle(t) => Left(t)' < Left(t)
               /\ pc[t] # "idle" => Left(t)' <= Left(t)
    <2>1. TypeOK' BY <1>1, StepTypes
    <2>2. Left(t) \in Nat BY <1>1, LeftFacts, SourcesFinite
    <2>3. Left(t)' \in Nat BY <1>0, <2>1 DEF LeftTyped
    <2>4. Handle(t) => Left(t)' < Left(t) BY <1>1, HandleGoes
    <2>5. pc'[t] = pc[t] /\ me'[t].todo = me[t].todo => Left(t)' = Left(t) BY DEF Left
    <2> QED BY <1>1, <2>2, <2>3, <2>4, <2>5, Onwards
  <1>2. TypeOK /\ [Next]_vars =>
            [\A t \in Thread : /\ Handle(t) => Left(t)' < Left(t)
                               /\ pc[t] # "idle" => Left(t)' <= Left(t)]_vars
    BY <1>1
  <1> QED BY <1>2, GatewayTypeCorrect, PTL DEF Spec, EveryStepIsProgress

LEMMA PlacesKept ==
    ASSUME TypeOK, InPlace, [Next]_vars
    PROVE  InPlace'
  <1> SUFFICES ASSUME NEW t \in Thread
               PROVE  pc'[t] # "drop" /\ (pc'[t] = "stamp" => me'[t].todo # {})
    BY DEF InPlace
  <1>1. CASE Handle(t)
    BY <1>1, HandleGoes
  <1>2. CASE Request(t)
    <2>1. \A p : Goto(t, p) => pc'[t] = p BY DEF Goto, TypeOK
    <2>2. pc'[t] \in {"hit", "collect", "collectAll", "send", "refused"}
      BY <1>2, <2>1 DEF Request, StartDash, StartAct, StartRelative, StartMacro
    <2> QED BY <2>2
  <1>3. CASE pc'[t] = pc[t] /\ me'[t].todo = me[t].todo
    BY <1>3 DEF InPlace
  <1> QED BY <1>1, <1>2, <1>3, Onwards

\* No thread ever waits for another one or for a backend, at most 9 steps and
\* two for every source separate it from the end of its request, and while any
\* are left one of them can be taken.
THEOREM NobodyStuckAlways == Spec => []NobodyStuck
  <1>1. Init => InPlace
    BY DEF Init, InPlace
  <1>2. TypeOK /\ InPlace /\ [Next]_vars => InPlace'
    BY PlacesKept
  <1>3. ASSUME TypeOK, InPlace
        PROVE  NobodyStuck
    <2> SUFFICES ASSUME NEW t \in Thread PROVE CanGoOn(t)
      BY <1>3, LeftFacts DEF NobodyStuck
    <2>1. pc[t] \in Places /\ me[t].todo \subseteq Source BY <1>3, GotTyped DEF TypeOK
    <2>2. me[t].todo # {} => Foremost(me[t].todo) # {} BY <2>1, SomebodyIsForemost
    <2>3. pc[t] # "drop" /\ (pc[t] = "stamp" => me[t].todo # {}) BY <1>3 DEF InPlace
    <2> QED BY <2>1, <2>2, <2>3 DEF CanGoOn, Places
  <1> QED BY <1>1, <1>2, <1>3, GatewayTypeCorrect, PTL DEF Spec

================================================================================
