------------------------------- MODULE Gateway -------------------------------
(***************************************************************************)
(* The gateway on the Pi: GET /api/dash and POST /api/act                  *)
(* (gateway/m5gw/app.py), the Poller both clocks of which live in          *)
(* gateway/m5gw/backends.py, and what build_dash() lists as old            *)
(* (gateway/m5gw/aggregate.py).                                            *)
(*                                                                         *)
(* Flask runs every request in a thread of its own and there is no lock:   *)
(* the snapshot cache and the poller's two dictionaries are shared by all. *)
(* A step is one access to what is shared.  What a backend says is reduced *)
(* to when it said it and to its shape: a reading carries the number of    *)
(* writes that had reached the backend, the time, and whether a section    *)
(* can be built from it.                                                   *)
(***************************************************************************)
EXTENDS Integers, Sequences, FiniteSets

CONSTANTS
    Thread,       \* request threads
    SourceSeq,    \* the keys of SOURCES and "yam", in the order of collect()
    Slow,         \* SLOW_SOURCES
    Writable,     \* sources whose backend actions go to
    Section,      \* the keys of _BUILDERS
    Inputs,       \* section -> the sources it is built from
    Shapes,       \* bound: the shapes of the replies considered, see Reading
    CacheTtl,     \* CACHE_TTL
    SlowTtl,      \* SLOW_TTL
    MaxCollect,   \* bound: how long a collect() takes; the code has its timeouts
    MaxClock,     \* bound: time considered
    MaxWrite      \* bound: writes that reach one backend

Source == {SourceSeq[i] : i \in DOMAIN SourceSeq}

ASSUME GatewayAssumption ==
    /\ SourceSeq \in Seq(Source)
    /\ Slow \subseteq Source /\ Writable \subseteq Source \ Slow
    /\ Inputs \in [Section -> SUBSET Source \ {{}}]
    /\ Shapes \subseteq {"good", "empty", "broken"}
    /\ CacheTtl \in Nat \ {0} /\ SlowTtl \in Nat \ {0}
    /\ MaxCollect \in Nat /\ MaxClock \in Nat /\ MaxWrite \in Nat

Time    == 0 .. MaxClock
LongAgo == -CacheTtl       \* 0.0 on a host that is up for longer than the TTL

\* To the summary of its section a reply that could be decoded is "good",
\* "empty" (of another type than expected: it adds nothing), or "broken" (a
\* field of it raises an exception).  The poller keeps all three alike.
Reading == [wr : 0 .. MaxWrite, at : Time, shape : Shapes]

\* A Python dictionary with sources for keys.
Dicts(V) == UNION {[S -> V] : S \in SUBSET Source}
Nothing  == [k \in {} |-> 0]
Put(d, k, v) == [x \in DOMAIN d \cup {k} |-> IF x = k THEN v ELSE d[x]]

\* What build_dash() returns, as the raw values that it was given and the
\* sections listed in old.  Shows says what it shows of them.
Snapshot == [made : BOOLEAN, raw : Dicts(Reading), old : SUBSET Section]
NoSnap   == [made |-> FALSE, raw |-> Nothing, old |-> {}]

\* The section is built from whatever inputs are good, unless one of them
\* raises an exception.  What is not shown is listed in err.
Shows(raw, s) ==
    LET heard == Inputs[s] \cap DOMAIN raw
    IN  /\ \E k \in heard : raw[k].shape = "good"
        /\ \A k \in heard : raw[k].shape # "broken"

VARIABLES
    clock,      \* time.monotonic()
    house,      \* history: writes that have reached each backend
    done,       \* history: of those, how many an answered action has announced
    last,       \* Poller._last
    lastAt,     \* Poller._at
    cacheAt,    \* cache["at"]
    cacheDash,  \* cache["dash"]
    cacheBody,  \* cache["body"]
    pc,         \* where each thread is in its request
    me          \* the locals of each thread, see Locals

vars == <<clock, house, done, last, lastAt, cacheAt, cacheDash, cacheBody, pc, me>>

Places == {"idle", "hit", "collect", "collectAll", "fetch", "stamp", "mark",
           "marking", "copy", "cacheDash", "cacheAt", "cacheBody", "dashReply",
           "error", "send", "drop", "actReply", "refused"}

\* now:   time.monotonic() when the request came
\* todo:  futures of collect() not looked at yet, or plans not sent yet
\* asked: the keys of collect()'s jobs
\* got:   results of the futures that are done
\* fresh: collect()'s set of that name
\* seen:  the keys of _last when the loop over them began
\* snap:  the snapshot being built, or the body being returned
\* base:  history: the writes announced before the request came
\* used:  history: what the cached snapshot said of the source to be toggled
Locals == [now : Time, todo : SUBSET Source, asked : SUBSET Source,
           got : Dicts(Reading), fresh : SUBSET Source, seen : SUBSET Source,
           snap : Snapshot, base : [Source -> 0 .. MaxWrite], used : Dicts(Reading)]

Blank == [now |-> 0, todo |-> {}, asked |-> {}, got |-> Nothing, fresh |-> {},
          seen |-> {}, snap |-> NoSnap, base |-> [k \in Source |-> 0],
          used |-> Nothing]

Init ==
    /\ clock = 0
    /\ house = [k \in Source |-> 0] /\ done = house
    /\ last = Nothing /\ lastAt = Nothing
    /\ cacheAt = LongAgo /\ cacheDash = NoSnap /\ cacheBody = NoSnap
    /\ pc = [t \in Thread |-> "idle"]
    /\ me = [t \in Thread |-> Blank]

cache  == <<cacheAt, cacheDash, cacheBody>>
poller == <<last, lastAt>>
shared == <<clock, house, done, poller, cache>>

Goto(t, place) == pc' = [pc EXCEPT ![t] = place]

\* Of the sources in S the one whose turn it is, if there is any.
Foremost(S) ==
    {SourceSeq[i] : i \in {n \in DOMAIN SourceSeq :
        SourceSeq[n] \in S /\ \A m \in 1 .. n - 1 : SourceSeq[m] \notin S}}

-----------------------------------------------------------------------------
(* GET /api/dash.                                                          *)

\* The test of the cache.
StartDash(t, force) ==
    /\ pc[t] = "idle"
    /\ Goto(t, IF force THEN "collectAll"
               ELSE IF cacheBody.made /\ clock - cacheAt < CacheTtl THEN "hit"
               ELSE "collect")
    /\ me' = [me EXCEPT ![t] = [Blank EXCEPT !.now = clock, !.base = done]]
    /\ UNCHANGED shared

Hit(t) ==
    /\ pc[t] = "hit"
    /\ me' = [me EXCEPT ![t].snap = cacheBody]
    /\ Goto(t, "dashReply")
    /\ UNCHANGED shared

\* Poller._due
Due(k, now) ==
    k \in DOMAIN lastAt => now - lastAt[k] >= IF k \in Slow THEN SlowTtl ELSE 0

\* collect() submits one future for every source that is due.
Submit(t) ==
    /\ pc[t] \in {"collect", "collectAll"}
    /\ LET jobs == {k \in Source : pc[t] = "collectAll" \/ Due(k, me[t].now)}
       IN  me' = [me EXCEPT ![t].todo = jobs, ![t].asked = jobs]
    /\ Goto(t, "fetch")
    /\ UNCHANGED shared

\* What backend k says now, in one shape or another.
Answer(k, x) == [wr |-> house[k], at |-> clock, shape |-> x]

\* A backend answers a future that somebody still waits for.
Fetch(t, k) ==
    /\ pc[t] \in {"fetch", "stamp"}
    /\ k \in me[t].todo \ DOMAIN me[t].got
    /\ \E x \in Shapes : me' = [me EXCEPT ![t].got = Put(@, k, Answer(k, x))]
    /\ UNCHANGED <<shared, pc>>

\* A mutant: what did not answer is forgotten.
StoreOrForget(t) ==
    /\ pc[t] = "fetch"
    /\ \E k \in Foremost(me[t].todo) :
       IF k \in DOMAIN me[t].got
       THEN last' = Put(last, k, me[t].got[k]) /\ Goto(t, "stamp") /\ UNCHANGED me
       ELSE /\ me' = [me EXCEPT ![t].todo = @ \ {k}]
            /\ last' = [x \in DOMAIN last \ {k} |-> last[x]] /\ UNCHANGED pc
    /\ UNCHANGED <<clock, house, done, lastAt, cache>>

\* A mutant: the result is waited for without a timeout.
StoreWhenever(t) ==
    /\ pc[t] = "fetch"
    /\ \E k \in Foremost(me[t].todo) :
       /\ k \in DOMAIN me[t].got
       /\ last' = Put(last, k, me[t].got[k])
    /\ Goto(t, "stamp")
    /\ UNCHANGED <<clock, house, done, lastAt, cache, me>>

\* The next future in line: its value is stored, whatever its shape, or it
\* failed or took longer than its timeout.
Store(t) ==
    /\ pc[t] = "fetch"
    /\ \E k \in Foremost(me[t].todo) :
       IF k \in DOMAIN me[t].got
       THEN last' = Put(last, k, me[t].got[k]) /\ Goto(t, "stamp") /\ UNCHANGED me
       ELSE me' = [me EXCEPT ![t].todo = @ \ {k}] /\ UNCHANGED <<last, pc>>
    /\ UNCHANGED <<clock, house, done, lastAt, cache>>

Stamp(t) ==
    /\ pc[t] = "stamp"
    /\ \E k \in Foremost(me[t].todo) :
       /\ lastAt' = Put(lastAt, k, me[t].now)
       /\ me' = [me EXCEPT ![t].fresh = @ \cup {k}, ![t].todo = @ \ {k}]
    /\ Goto(t, "fetch")
    /\ UNCHANGED <<clock, house, done, last, cache>>

Stored(t) ==
    /\ pc[t] = "fetch" /\ me[t].todo = {}
    /\ Goto(t, "mark")
    /\ UNCHANGED <<shared, me>>

\* The loop over _last: it begins ...
Mark(t) ==
    /\ pc[t] = "mark"
    /\ me' = [me EXCEPT ![t].seen = DOMAIN last]
    /\ Goto(t, "marking")
    /\ UNCHANGED shared

\* A mutant: whatever is known counts as current.
MarkedAll(t) ==
    /\ pc[t] = "marking" /\ DOMAIN last = me[t].seen
    /\ me' = [me EXCEPT ![t].fresh = @ \cup me[t].seen]
    /\ Goto(t, "copy")
    /\ UNCHANGED shared

\* A mutant: the loop is begun again.
MarkAgain(t) ==
    /\ pc[t] = "marking" /\ DOMAIN last # me[t].seen
    /\ Goto(t, "mark")
    /\ UNCHANGED <<shared, me>>

\* ... and ends: what was not polled this round is current.
Marked(t) ==
    /\ pc[t] = "marking" /\ DOMAIN last = me[t].seen
    /\ me' = [me EXCEPT ![t].fresh = @ \cup (me[t].seen \ me[t].asked)]
    /\ Goto(t, "copy")
    /\ UNCHANGED shared

\* Another thread has stored a key that was not there before: "dictionary
\* changed size during iteration", which nobody catches.
MarkFails(t) ==
    /\ pc[t] = "marking" /\ DOMAIN last # me[t].seen
    /\ me' = [me EXCEPT ![t] = Blank]
    /\ Goto(t, "error")
    /\ UNCHANGED shared

\* What is in old: shown, and no input of it is fresh.
OldSections(raw, fresh) ==
    {s \in Section : Shows(raw, s) /\ Inputs[s] \cap fresh = {}}

\* collect() returns a copy of _last, and build_dash() sums it up.
CopyAndBuild(t) ==
    /\ pc[t] = "copy"
    /\ me' = [me EXCEPT ![t] = [Blank EXCEPT
                 !.now = me[t].now, !.base = me[t].base,
                 !.snap = [made |-> TRUE, raw |-> last,
                           old |-> OldSections(last, me[t].fresh)]]]
    /\ Goto(t, "cacheDash")
    /\ UNCHANGED shared

CacheDash(t) ==
    /\ pc[t] = "cacheDash"
    /\ cacheDash' = me[t].snap
    /\ Goto(t, "cacheAt")
    /\ UNCHANGED <<clock, house, done, poller, cacheAt, cacheBody, me>>

\* The time is the one at which the request came.
CacheAt(t) ==
    /\ pc[t] = "cacheAt"
    /\ cacheAt' = me[t].now
    /\ Goto(t, "cacheBody")
    /\ UNCHANGED <<clock, house, done, poller, cacheDash, cacheBody, me>>

CacheBody(t) ==
    /\ pc[t] = "cacheBody"
    /\ cacheBody' = me[t].snap
    /\ Goto(t, "dashReply")
    /\ UNCHANGED <<clock, house, done, poller, cacheAt, cacheDash, me>>

Reply(t) ==
    /\ pc[t] \in {"dashReply", "actReply", "refused", "error"}
    /\ me' = [me EXCEPT ![t] = Blank]
    /\ Goto(t, "idle")
    /\ UNCHANGED shared

-----------------------------------------------------------------------------
(* POST /api/act.                                                          *)

\* An action that says what it wants needs no state.
StartAct(t, k) ==
    /\ pc[t] = "idle"
    /\ me' = [me EXCEPT ![t] = [Blank EXCEPT !.todo = {k}, !.base = done]]
    /\ Goto(t, "send")
    /\ UNCHANGED shared

\* What k is set to can be looked up in a snapshot of these values.
Tells(raw, k) ==
    /\ k \in DOMAIN raw /\ raw[k].shape = "good"
    /\ \E s \in Section : k \in Inputs[s] /\ Shows(raw, s)

\* A toggle or a volume step is planned from the cached snapshot, or refused.
StartRelative(t, k) ==
    /\ pc[t] = "idle"
    /\ IF Tells(cacheDash.raw, k)
       THEN /\ me' = [me EXCEPT ![t] = [Blank EXCEPT !.todo = {k}, !.base = done,
                          !.used = Put(Nothing, k, cacheDash.raw[k])]]
            /\ Goto(t, "send")
       ELSE Goto(t, "refused") /\ UNCHANGED me
    /\ UNCHANGED shared

\* A macro sends several plans, one after the other.
StartMacro(t) ==
    /\ pc[t] = "idle"
    /\ me' = [me EXCEPT ![t] = [Blank EXCEPT !.todo = Writable, !.base = done]]
    /\ Goto(t, "send")
    /\ UNCHANGED shared

\* One plan: it reaches its backend or not.  Whether an answer comes back
\* decides between 200 and 502 and changes nothing here; either way the next
\* plan follows.  (SendRaises is the other way this can go.)
Send(t) ==
    /\ pc[t] = "send"
    /\ \E k \in Foremost(me[t].todo) :
       \/ /\ house[k] < MaxWrite
          /\ house' = [house EXCEPT ![k] = @ + 1]
          /\ me' = [me EXCEPT ![t].todo = @ \ {k}, ![t].base[k] = house'[k],
                              ![t].used = Nothing]
       \/ /\ me' = [me EXCEPT ![t].todo = @ \ {k}, ![t].used = Nothing]
          /\ UNCHANGED house
    /\ UNCHANGED <<clock, done, poller, cache, pc>>

\* The backend speaks something that is not HTTP, or stops in the middle of it:
\* fetch() does not catch http.client.HTTPException, so the plans left are not
\* sent, the cache keeps its time, and the request ends as a 500.
SendRaises(t) ==
    /\ pc[t] = "send"
    /\ \E k \in Foremost(me[t].todo) :
       \/ house[k] < MaxWrite /\ house' = [house EXCEPT ![k] = @ + 1]
       \/ UNCHANGED house
    /\ me' = [me EXCEPT ![t] = Blank]
    /\ Goto(t, "error")
    /\ UNCHANGED <<clock, done, poller, cache>>

\* A mutant: the cache is left alone.
DropNothing(t) ==
    /\ pc[t] = "send" /\ me[t].todo = {}
    /\ done' = [k \in Source |->
                    IF me[t].base[k] > done[k] THEN me[t].base[k] ELSE done[k]]
    /\ me' = [me EXCEPT ![t] = Blank]
    /\ Goto(t, "actReply")
    /\ UNCHANGED <<clock, house, poller, cache>>

\* cache["at"] = 0.0, and the action is answered.
Drop(t) ==
    /\ pc[t] = "send" /\ me[t].todo = {}
    /\ cacheAt' = LongAgo
    /\ done' = [k \in Source |->
                    IF me[t].base[k] > done[k] THEN me[t].base[k] ELSE done[k]]
    /\ me' = [me EXCEPT ![t] = Blank]
    /\ Goto(t, "actReply")
    /\ UNCHANGED <<clock, house, poller, cacheDash, cacheBody>>

-----------------------------------------------------------------------------
\* Requests that wait for backends have timeouts; none lasts longer.
Polling(t) == pc[t] \notin {"idle", "dashReply", "send", "actReply", "refused", "error"}

Tick ==
    /\ clock < MaxClock
    /\ \A t \in Thread : Polling(t) => clock - me[t].now < MaxCollect
    /\ clock' = clock + 1
    /\ UNCHANGED <<house, done, poller, cache, pc, me>>

Request(t) ==
    \/ \E force \in BOOLEAN : StartDash(t, force)
    \/ \E k \in Writable : StartAct(t, k) \/ StartRelative(t, k)
    \/ StartMacro(t)

\* What a thread does once its request has come.
Handle(t) ==
    \/ Hit(t) \/ Submit(t) \/ Store(t) \/ Stamp(t) \/ Stored(t)
    \/ Mark(t) \/ Marked(t) \/ MarkFails(t) \/ CopyAndBuild(t)
    \/ CacheDash(t) \/ CacheAt(t) \/ CacheBody(t)
    \/ Send(t) \/ SendRaises(t) \/ Drop(t) \/ Reply(t)

Next ==
    \/ Tick
    \/ \E t \in Thread : Request(t) \/ Handle(t) \/ \E k \in Source : Fetch(t, k)

Spec == Init /\ [][Next]_vars

\* The threads run.  Nothing is assumed of the backends: they may hang.
FairSpec == Spec /\ \A t \in Thread : WF_vars(Handle(t))

-----------------------------------------------------------------------------
(* Properties.                                                             *)

TypeOK ==
    /\ clock \in Time
    /\ house \in [Source -> 0 .. MaxWrite] /\ done \in [Source -> 0 .. MaxWrite]
    /\ last \in Dicts(Reading) /\ lastAt \in Dicts(Time)
    /\ cacheAt \in Time \cup {LongAgo}
    /\ {cacheDash, cacheBody} \subseteq Snapshot
    /\ pc \in [Thread -> Places]
    /\ me \in [Thread -> Locals]

\* Thread t's reply shows section s and does not list it in old.
Current(t, s) == Shows(me[t].snap.raw, s) /\ s \notin me[t].snap.old

\* Of a section that is not listed in old some input has answered as lately as
\* its clock and the cache allow, so a source that fails round after round never
\* goes on looking current.  (A section of one source shows that very answer;
\* MCGateway has the others.  This and the next two hold for requests that come
\* one at a time; MCGateway shows what overlapping ones do to them.)
CurrentIsRecent ==
    \A t \in Thread, s \in Section :
        pc[t] = "dashReply" /\ Current(t, s) =>
            \E k \in Inputs[s] \cap DOMAIN me[t].snap.raw :
                me[t].now - me[t].snap.raw[k].at
                    <= (IF k \in Slow THEN SlowTtl - 1 ELSE 0) + CacheTtl - 1

\* "The gateway drops its cached snapshot after every write, so the next poll
\* reflects reality" (API.md): a poll that came after an action was answered
\* with what became of it, 200 or 502, shows the house as that action left it, or
\* says that it is old.  (Sections of one source; the others mix.  An action that
\* ended as a 500 has announced nothing: see MCGateway.)
PollAfterWrite ==
    \A t \in Thread, s \in Section : \A k \in Inputs[s] :
        pc[t] = "dashReply" /\ Inputs[s] = {k} /\ Current(t, s) =>
            me[t].snap.raw[k].wr >= me[t].base[k]

\* A failed poll never looks like a broken device (build_dash): a section that
\* the cached snapshot shows is shown by its successor too, current or old,
\* unless an input of it has meanwhile answered with something that nothing can
\* be built from.  Silence blanks nothing.
ShownStaysShown ==
    [][\A s \in Section : Shows(cacheBody.raw, s) =>
          \/ Shows(cacheBody'.raw, s)
          \/ \E k \in Inputs[s] \cap DOMAIN cacheBody'.raw :
                /\ cacheBody'.raw[k].shape # "good"
                /\ k \in DOMAIN cacheBody.raw => cacheBody.raw[k] # cacheBody'.raw[k]]_vars

\* The unguarded loop over _last costs a poll its answer only while some source
\* is heard for the first time, never after that.
NoErrorOnceKnown ==
    [][\A t \in Thread : MarkFails(t) => me[t].seen # Source]_vars

\* An upper bound on the steps a thread has still to take: one for every place
\* between it and the reply, and one or two for every future, or plan, in line.
Beyond ==
    [p \in Places |->
        CASE p = "idle" -> 0
          [] p \in {"dashReply", "actReply", "refused", "error", "drop"} -> 1
          [] p \in {"hit", "cacheBody", "send"} -> 2
          [] p = "cacheAt" -> 3
          [] p = "cacheDash" -> 4
          [] p = "copy" -> 5
          [] p = "marking" -> 6
          [] p \in {"mark", "stamp"} -> 7
          [] p = "fetch" -> 8
          [] p \in {"collect", "collectAll"} -> 9 + 2 * Cardinality(Source)]

InLine(place, todo) ==
    IF place \in {"fetch", "stamp"} THEN 2 * Cardinality(todo)
    ELSE IF place = "send" THEN Cardinality(todo) ELSE 0

Left(t) == Beyond[pc[t]] + InLine(pc[t], me[t].todo)

\* However many requests overlap, and whatever the backends do: what a thread
\* does for a request (dash(), act()) brings its end nearer, and what the other
\* threads, the backends and the clock do takes it no farther.
EveryStepIsProgress ==
    [][\A t \in Thread :
        /\ Handle(t) => Left(t)' < Left(t)
        /\ pc[t] # "idle" => Left(t)' <= Left(t)]_vars

\* Every request is answered, also when a backend hangs.
EveryRequestEnds == \A t \in Thread : pc[t] # "idle" ~> pc[t] = "idle"

=============================================================================
