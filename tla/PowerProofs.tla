------------------------------ MODULE PowerProofs ------------------------------
(***************************************************************************)
(* Theorems about Power for any times, any lengths of an exchange and any  *)
(* length of the queue: what the screen says of the age of its data.       *)
(***************************************************************************)
EXTENDS Power, WellFoundedInduction, TLAPS

-----------------------------------------------------------------------------
(* The inductive invariant.                                                *)

\* What the worker has in its hands.
WorkIsWhole ==
    /\ work.phase = "none" <=> work = NoWork
    /\ work.job = "none" <=> work = NoWork
    /\ work.phase = "http" => work.job \in {"dash", "act"}
    /\ work.phase = "http" /\ ~work.slow => work.left < PollIdle

\* Data stamped by this clock are no older than their stamp and their wait say.
MadeIsStamped ==
    mode # "asleep" /\ dash.stamp = "now" /\ dash.age < StaleAfter
        => made.age <= dash.age + made.late

\* A frame that says nothing was right when it was drawn, and one tick may have
\* gone by since.
SilentFrame ==
    frame = "silent" =>
        /\ mode # "ota"
        /\ made.age <= StaleAfter + made.late
        /\ mode = "on" /\ (stage = "sleep" \/ settled) => made.age < StaleAfter + made.late

\* Data whose stamp no longer counts, or that come from before, have a cause.
OddStampInTrouble == dash.stamp \in {"ahead", "slept"} => trouble

\* Without trouble, and up to the next answer, there is at most a poll under way.
OnSchedule == mode = "on" /\ ~trouble /\ dash.stamp = "now"

PollsOnly ==
    OnSchedule =>
        /\ work.job \in {"none", "dash"} /\ work.phase \in {"none", "http"} /\ ~work.slow
        /\ reply.there => reply.ok

\* A poll is asked for in time ...
PollsInTime ==
    OnSchedule /\ (stage = "sleep" \/ settled) /\ sincePoll = PollIdle => Contains(jobs, "act")

\* ... and answered in time.
AnsweredInTime ==
    OnSchedule /\ ~reply.there =>
        /\ work = NoWork => dash.age <= PollIdle
        /\ work = NoWork /\ jobs = <<>> => dash.age <= sincePoll
        /\ work # NoWork => dash.age + work.left < 2 * PollIdle

Schedule == PollsOnly /\ PollsInTime /\ AnsweredInTime

IInv == /\ TypeOK /\ WorkIsWhole /\ MadeIsStamped /\ SilentFrame
        /\ OddStampInTrouble /\ Schedule /\ OldOnlyInTrouble

-----------------------------------------------------------------------------
(* Parameters and the queue.                                               *)

LEMMA Parameters ==
    /\ PollIdle \in Nat \ {0} /\ PollActive \in Nat \ {0} /\ PollActive <= PollIdle
    /\ StaleAfter \in Nat /\ 2 * PollIdle <= StaleAfter
    /\ SleepAfter \in Nat /\ BackoffMax \in Nat /\ MaxFailures \in Nat
    /\ QueueLen \in Nat \ {0}
    /\ LateCap = 1 /\ MadeCap = StaleAfter + 2
  BY PowerAssumption DEF LateCap, MadeCap

Queues == {q \in Seq({"dash", "act"}) : Len(q) <= QueueLen}

\* A queue that refuses a poll is full of presses.
LEMMA FullOfPresses ==
    ASSUME NEW q \in Queues, ~DashTaken(q)
    PROVE  Contains(q, "act") /\ WithDash(q) = q
  <1>1. q \in Seq({"dash", "act"}) /\ Len(q) >= QueueLen /\ ~Contains(q, "dash")
    BY Parameters DEF DashTaken, CanQueue, Queues
  <1>2. 1 \in 1 .. Len(q) BY <1>1, Parameters
  <1>3. q[1] \in {"dash", "act"} BY <1>1, <1>2
  <1>4. q[1] # "dash" BY <1>1, <1>2 DEF Contains
  <1>5. Contains(q, "act") BY <1>2, <1>3, <1>4 DEF Contains
  <1> QED BY <1>5 DEF WithDash, DashTaken

\* After requestDash() the queue is no longer than before its limit, nor empty.
LEMMA DashQueued ==
    ASSUME NEW q \in Queues
    PROVE  WithDash(q) \in Queues /\ WithDash(q) # <<>>
  <1>1. q \in Seq({"dash", "act"}) /\ Len(q) \in Nat /\ Len(q) <= QueueLen
    BY DEF Queues
  <1>2. CASE ~Contains(q, "dash") /\ CanQueue(q)
    <2>1. WithDash(q) = Append(q, "dash") BY <1>2 DEF WithDash
    <2>2. Append(q, "dash") \in Seq({"dash", "act"}) /\ Len(Append(q, "dash")) = Len(q) + 1
      BY <1>1
    <2>3. Len(q) + 1 <= QueueLen BY <1>1, <1>2, Parameters DEF CanQueue
    <2> QED BY <1>1, <2>1, <2>2, <2>3 DEF Queues
  <1>3. CASE Contains(q, "dash")
    <2>1. WithDash(q) = q /\ q # <<>> BY <1>1, <1>3 DEF WithDash, Contains
    <2> QED BY <2>1
  <1>4. CASE ~Contains(q, "dash") /\ ~CanQueue(q)
    <2>1. WithDash(q) = q /\ q # <<>> BY <1>1, <1>4, Parameters DEF WithDash, CanQueue
    <2> QED BY <2>1
  <1> QED BY <1>2, <1>3, <1>4

LEMMA PressQueued ==
    ASSUME NEW q \in Queues
    PROVE  WithAct(q) \in Queues /\ WithAct(q) # <<>>
  <1>1. q \in Seq({"dash", "act"}) /\ Len(q) \in Nat /\ Len(q) <= QueueLen
    BY DEF Queues
  <1>2. CASE CanQueue(q)
    <2>1. WithAct(q) = Append(q, "act") BY <1>2 DEF WithAct
    <2>2. Append(q, "act") \in Seq({"dash", "act"}) /\ Len(Append(q, "act")) = Len(q) + 1
      BY <1>1
    <2>3. Len(q) + 1 <= QueueLen BY <1>1, <1>2, Parameters DEF CanQueue
    <2> QED BY <1>1, <2>1, <2>2, <2>3 DEF Queues
  <1>3. CASE ~CanQueue(q)
    <2>1. WithAct(q) = q /\ q # <<>> BY <1>1, <1>3, Parameters DEF WithAct, CanQueue
    <2> QED BY <2>1
  <1> QED BY <1>2, <1>3

\* What remains when the first job is taken.
LEMMA Taken ==
    ASSUME NEW q \in Queues, q # <<>>
    PROVE  /\ Tail(q) \in Queues /\ Head(q) \in {"dash", "act"}
           /\ Head(q) = "dash" /\ Contains(q, "act") => Contains(Tail(q), "act")
  <1>1. /\ q \in Seq({"dash", "act"}) /\ Len(q) \in Nat \ {0} /\ Len(q) <= QueueLen
    BY DEF Queues
  <1>2. /\ Tail(q) \in Seq({"dash", "act"}) /\ Len(Tail(q)) = Len(q) - 1
        /\ Head(q) = q[1] /\ q[1] \in {"dash", "act"}
    BY <1>1
  <1>3. Tail(q) \in Queues BY <1>1, <1>2, Parameters DEF Queues
  <1>4. ASSUME Head(q) = "dash", Contains(q, "act") PROVE Contains(Tail(q), "act")
    <2>1. PICK i \in 1 .. Len(q) : q[i] = "act" BY <1>4 DEF Contains
    <2>2. i # 1 BY <1>2, <1>4, <2>1
    <2>3. i - 1 \in 1 .. Len(Tail(q)) /\ Tail(q)[i - 1] = q[i] BY <1>1, <1>2, <2>2
    <2> QED BY <2>1, <2>3 DEF Contains
  <1> QED BY <1>2, <1>3, <1>4

\* A count that stops at its cap.
LEMMA CappedFacts ==
    ASSUME NEW cap \in Nat, NEW n \in 0 .. cap
    PROVE  /\ Capped(n, cap) \in 0 .. cap /\ Capped(n, cap) <= n + 1
           /\ n < cap => Capped(n, cap) = n + 1
  BY DEF Capped

\* What a pause, an age and a label are.
LEMMA BackoffFacts == \A f : backoffDelay(f) \in 0 .. BackoffMax
  BY Parameters DEF backoffDelay

Stamps == {"none", "now", "ahead", "slept"}

LEMMA LabelFacts ==
    ASSUME NEW d \in [stamp : Stamps, age : 0 .. StaleAfter]
    PROVE  /\ ageLabel(d) \in {"waiting", "slept", "old", "silent"}
           /\ ageLabel(d) = "silent" => d.stamp = "now" /\ d.age < StaleAfter
           /\ ageLabel(d) = "old" => d.stamp = "ahead" \/ (d.stamp = "now" /\ d.age = StaleAfter)
  <1>1. d.stamp \in Stamps /\ d.age \in 0 .. StaleAfter OBVIOUS
  <1>2. CASE d.stamp = "none" BY <1>2 DEF ageLabel
  <1>3. CASE d.stamp = "slept" BY <1>3 DEF ageLabel
  <1>4. CASE d.stamp = "ahead"
    <2>1. isStale(d) BY <1>4, Parameters DEF isStale, ageMs
    <2> QED BY <1>4, <2>1 DEF ageLabel
  <1>5. CASE d.stamp = "now"
    <2>1. isStale(d) <=> d.age >= StaleAfter BY <1>5 DEF isStale, ageMs
    <2>2. CASE d.age >= StaleAfter
      <3>1. ageLabel(d) = "old" BY <1>5, <2>1, <2>2 DEF ageLabel
      <3> QED BY <1>1, <1>5, <2>2, <3>1, Parameters
    <2>3. CASE ~(d.age >= StaleAfter)
      <3>1. ageLabel(d) = "silent" BY <1>5, <2>1, <2>3 DEF ageLabel
      <3>2. d.age < StaleAfter BY <1>1, <2>3, Parameters
      <3> QED BY <1>5, <3>1, <3>2
    <2> QED BY <2>2, <2>3
  <1> QED BY <1>1, <1>2, <1>3, <1>4, <1>5 DEF Stamps

-----------------------------------------------------------------------------
(* The first states.                                                       *)

LEMMA InitInvariant == Init => IInv
  <1> SUFFICES ASSUME Init PROVE IInv OBVIOUS
  <1>1. TypeOK
    <2>1. /\ 0 \in 0 .. StaleAfter /\ 0 \in 0 .. SleepAfter /\ 0 \in 0 .. PollIdle
          /\ 0 \in 0 .. LateCap /\ 0 \in 0 .. MadeCap /\ 0 \in 0 .. MaxFailures
          /\ 0 \in 0 .. BackoffMax /\ 0 <= QueueLen
      BY Parameters
    <2>2. jobs \in Seq({"dash", "act"}) /\ Len(jobs) <= QueueLen BY <2>1 DEF Init
    <2>3. LoopOK BY <2>1 DEF Init, LoopOK
    <2>4. WorkerOK BY <2>1, <2>2 DEF Init, WorkerOK, NoWork, NoLink, NoReply
    <2>5. DataOK BY <2>1 DEF Init, DataOK, Dash
    <2> QED BY <2>3, <2>4, <2>5 DEF TypeOK
  <1>2. WorkIsWhole BY DEF Init, WorkIsWhole, NoWork
  <1>3. MadeIsStamped /\ SilentFrame /\ OddStampInTrouble /\ OldOnlyInTrouble /\ Schedule
    BY DEF Init, MadeIsStamped, SilentFrame, OddStampInTrouble, OldOnlyInTrouble, Dash,
           Schedule, PollsOnly, PollsInTime, AnsweredInTime, OnSchedule
  <1> QED BY <1>1, <1>2, <1>3 DEF IInv

-----------------------------------------------------------------------------
(* setup() and what it takes over.                                         *)

LEMMA BootStep ==
    ASSUME NEW found \in BOOLEAN, Booted(found), prompt' \in BOOLEAN
    PROVE  IInv'
  <1> DEFINE d == Dash(IF found THEN "slept" ELSE "none")
  <1>1. /\ mode' = "on" /\ stage' = "loop" /\ settled' = FALSE /\ prompt' = FALSE
        /\ sinceKey' = 0 /\ sincePoll' = 0 /\ jobs' = <<"dash">>
        /\ work' = [job |-> "begin", phase |-> "connect", left |-> 0, slow |-> FALSE]
        /\ net' = NoLink /\ reply' = NoReply /\ dash' = d /\ frame' = ageLabel(d)
        /\ made' = [age |-> IF found THEN MadeCap ELSE 0, late |-> 0]
        /\ trouble' = TRUE
    BY DEF Booted
  <1>2. d \in [stamp : Stamps, age : 0 .. StaleAfter] /\ d.stamp \in {"none", "slept"}
    BY Parameters DEF Dash, Stamps
  <1>3. frame' \in {"waiting", "slept", "old", "silent"} /\ frame' # "silent" /\ frame' # "old"
    <2> HIDE DEF d
    <2> QED BY <1>1, <1>2, LabelFacts
  <1>4. <<"dash">> \in Seq({"dash", "act"}) /\ Len(<<"dash">>) <= QueueLen
    BY Parameters
  <1>5. TypeOK'
    <2>1. /\ 0 \in 0 .. SleepAfter /\ 0 \in 0 .. PollIdle /\ 0 \in 0 .. LateCap
          /\ {0, MadeCap} \subseteq 0 .. MadeCap /\ 0 \in 0 .. MaxFailures
          /\ 0 \in 0 .. BackoffMax
      BY Parameters
    <2> HIDE DEF d
    <2>2. made' \in [age : 0 .. MadeCap, late : 0 .. LateCap] BY <1>1, <2>1
    <2>3. LoopOK' BY <1>1, <1>3, <2>1 DEF LoopOK
    <2>4. WorkerOK' BY <1>1, <1>4, <2>1 DEF WorkerOK, NoLink, NoReply
    <2>5. DataOK' BY <1>1, <1>2, <2>2 DEF DataOK, Stamps
    <2> QED BY <2>3, <2>4, <2>5 DEF TypeOK
  <1>6. WorkIsWhole' BY <1>1 DEF WorkIsWhole, NoWork
  <1>7. /\ MadeIsStamped' /\ SilentFrame' /\ OddStampInTrouble' /\ OldOnlyInTrouble'
    BY <1>1, <1>2, <1>3 DEF MadeIsStamped, SilentFrame, OddStampInTrouble, OldOnlyInTrouble
  <1>8. Schedule'
    BY <1>1 DEF Schedule, PollsOnly, PollsInTime, AnsweredInTime, OnSchedule
  <1> QED BY <1>5, <1>6, <1>7, <1>8 DEF IInv

-----------------------------------------------------------------------------
(* A pass of loop().                                                       *)

\* What the schedule makes of the queue and of its own count.
LEMMA PollFacts ==
    ASSUME NEW q \in Queues, NEW sPoll \in 0 .. PollIdle, NEW sKey \in 0 .. SleepAfter,
           NEW newJobs, NEW newPoll,
           newJobs = IF shouldPoll(sPoll, sKey) THEN WithDash(q) ELSE q,
           newPoll = IF shouldPoll(sPoll, sKey) /\ DashTaken(q) THEN 0 ELSE sPoll
    PROVE  /\ newJobs \in Queues /\ newPoll \in 0 .. PollIdle
           /\ newPoll = PollIdle => Contains(newJobs, "act")
           /\ newJobs = <<>> => q = <<>> /\ newPoll = sPoll
  <1>1. pollInterval(sKey) \in 1 .. PollIdle BY Parameters DEF pollInterval
  <1>2. WithDash(q) \in Queues /\ WithDash(q) # <<>> BY DashQueued
  <1>3. newJobs \in Queues /\ newPoll \in 0 .. PollIdle
    BY <1>2, Parameters
  <1>4. ASSUME newPoll = PollIdle PROVE Contains(newJobs, "act")
    <2>1. newPoll # 0 BY <1>4, Parameters
    <2>2. shouldPoll(sPoll, sKey)
      <3>1. sPoll = PollIdle BY <1>4, <2>1
      <3> QED BY <1>1, <3>1, Parameters DEF shouldPoll
    <2>3. ~DashTaken(q) BY <2>1, <2>2
    <2> QED BY <2>2, <2>3, FullOfPresses
  <1>5. ASSUME newJobs = <<>> PROVE q = <<>> /\ newPoll = sPoll
    <2>1. ~shouldPoll(sPoll, sKey) BY <1>2, <1>5
    <2> QED BY <1>5, <2>1
  <1> QED BY <1>3, <1>4, <1>5

\* The state a pass starts from.
LEMMA Typing ==
    ASSUME TypeOK
    PROVE  /\ jobs \in Queues /\ sincePoll \in 0 .. PollIdle /\ sinceKey \in 0 .. SleepAfter
           /\ dash \in [stamp : Stamps, age : 0 .. StaleAfter]
           /\ dash.stamp \in Stamps /\ dash.age \in 0 .. StaleAfter
           /\ reply.there \in BOOLEAN /\ reply.ok \in BOOLEAN /\ reply.age \in 0 .. LateCap
           /\ made.age \in 0 .. MadeCap /\ made.late \in 0 .. LateCap
           /\ work.left \in Nat /\ work.slow \in BOOLEAN
           /\ work.phase \in {"none", "connect", "http"}
           /\ work.job \in {"none", "begin", "dash", "act"}
           /\ net.wait \in 0 .. BackoffMax /\ net.failures \in 0 .. MaxFailures
  BY DEF TypeOK, LoopOK, WorkerOK, DataOK, Queues, Stamps

\* A queue made of the waiting jobs: a pass empties nothing.
LEMMA PassStep ==
    ASSUME IInv, Pass, prompt' \in BOOLEAN,
           NEW keyed \in BOOLEAN, NEW q \in Queues, NEW polled \in BOOLEAN,
           q = <<>> => jobs = <<>> /\ ~polled,
           Refresh(keyed, q, polled)
    PROVE  IInv'
  <1> DEFINE fresh == reply.there /\ reply.ok
             d     == IF fresh THEN Dash("now") ELSE dash
             sKey  == IF keyed THEN 0 ELSE sinceKey
             sPoll == IF polled THEN 0 ELSE sincePoll
  <1>1. /\ mode = "on" /\ stage = "loop" /\ stage' = "sleep"
        /\ UNCHANGED <<mode, settled, work, net>>
        /\ reply' = NoReply /\ dash' = d /\ frame' = ageLabel(d) /\ sinceKey' = sKey
        /\ made' = IF fresh THEN [age |-> reply.age, late |-> reply.age] ELSE made
        /\ trouble' = IF fresh THEN Delayed ELSE trouble
    BY DEF Pass, Refresh
  <1>2. /\ jobs' = IF shouldPoll(sPoll, sKey) THEN WithDash(q) ELSE q
        /\ sincePoll' = IF shouldPoll(sPoll, sKey) /\ DashTaken(q) THEN 0 ELSE sPoll
    BY DEF Refresh
  <1>t. TypeOK BY DEF IInv
  <1>3. sPoll \in 0 .. PollIdle /\ sKey \in 0 .. SleepAfter
    BY <1>t, Typing, Parameters
  <1>4. /\ jobs' \in Queues /\ sincePoll' \in 0 .. PollIdle
        /\ sincePoll' = PollIdle => Contains(jobs', "act")
        /\ jobs' = <<>> => jobs = <<>> /\ sincePoll' = sincePoll
    <2> HIDE DEF fresh, d, sKey
    <2>1. /\ jobs' \in Queues /\ sincePoll' \in 0 .. PollIdle
          /\ sincePoll' = PollIdle => Contains(jobs', "act")
          /\ jobs' = <<>> => q = <<>> /\ sincePoll' = sPoll
      <3> HIDE DEF sPoll
      <3> QED BY <1>2, <1>3, PollFacts
    <2> QED BY <2>1
  <1>5. /\ dash' \in [stamp : Stamps, age : 0 .. StaleAfter]
        /\ frame' \in {"waiting", "slept", "old", "silent"}
    <2>1. d \in [stamp : Stamps, age : 0 .. StaleAfter]
      BY <1>t, Typing, Parameters DEF Dash, Stamps
    <2>2. dash' = d /\ frame' = ageLabel(d) BY <1>1
    <2> HIDE DEF d
    <2> QED BY <2>1, <2>2, LabelFacts
  <1>l. /\ frame' = "silent" => d.stamp = "now" /\ d.age < StaleAfter
        /\ frame' = "old" => d.stamp = "ahead" \/ (d.stamp = "now" /\ d.age = StaleAfter)
    <2>1. d \in [stamp : Stamps, age : 0 .. StaleAfter] /\ frame' = ageLabel(d)
      BY <1>1, <1>5
    <2> HIDE DEF d
    <2> QED BY <2>1, LabelFacts
  <1>6. Delayed \in BOOLEAN
    BY <1>t, Typing DEF Delayed, SlowJob, Contains
  <1>7. /\ trouble' \in BOOLEAN /\ reply' = [there |-> FALSE, ok |-> FALSE, age |-> 0]
        /\ made' \in [age : 0 .. MadeCap, late : 0 .. LateCap]
    <2>1. CASE fresh
      <3>1. reply.age \in 0 .. LateCap /\ reply.age \in 0 .. MadeCap
        BY <1>t, Typing, Parameters
      <3> QED BY <1>1, <1>6, <2>1, <3>1 DEF NoReply
    <2>2. CASE ~fresh BY <1>1, <1>t, <2>2 DEF TypeOK, LoopOK, DataOK, NoReply
    <2> QED BY <2>1, <2>2
  <1>8. TypeOK'
    <2> HIDE DEF fresh, d, sPoll, sKey
    <2>1. 0 \in 0 .. LateCap BY Parameters
    <2>2. LoopOK'
      BY <1>1, <1>3, <1>4, <1>5, <1>7, <1>t, Parameters DEF TypeOK, LoopOK
    <2>3. WorkerOK' BY <1>1, <1>4, <1>7, <1>t, <2>1 DEF TypeOK, WorkerOK, Queues
    <2>4. DataOK' BY <1>5, <1>7 DEF DataOK, Stamps
    <2> QED BY <2>2, <2>3, <2>4 DEF TypeOK
  <1>9. WorkIsWhole' BY <1>1 DEF IInv, WorkIsWhole
  <1>10. CASE fresh
    <2>1. /\ dash' = [stamp |-> "now", age |-> 0] /\ made'.age = reply.age
          /\ made'.late = reply.age /\ trouble' = Delayed
      BY <1>1, <1>10 DEF Dash
    <2>2. /\ MadeIsStamped' /\ SilentFrame' /\ OddStampInTrouble' /\ OldOnlyInTrouble'
      <3>1. reply.age \in Nat BY <1>t, Typing, Parameters
      <3>2. dash'.stamp = "now" /\ dash'.age = 0 /\ d.stamp = "now" /\ d.age = 0
        BY <2>1, <1>10 DEF Dash
      <3>3. frame' # "old"
        <4> HIDE DEF d
        <4> QED BY <1>l, <3>2, Parameters
      <3> HIDE DEF fresh, d, sKey, sPoll
      <3> QED BY <1>1, <2>1, <3>1, <3>2, <3>3, Parameters
              DEF MadeIsStamped, SilentFrame, OddStampInTrouble, OldOnlyInTrouble
    <2>3. ASSUME ~trouble'
          PROVE  /\ work.job \in {"none", "dash"} /\ work.phase \in {"none", "http"}
                 /\ ~work.slow /\ (work # NoWork => work.left < PollIdle)
      <3>1. work.job # "act" /\ work.phase # "connect" /\ ~work.slow
        BY <2>1, <2>3 DEF Delayed, SlowJob
      <3> QED BY <1>t, <3>1, Typing DEF IInv, WorkIsWhole, NoWork
    <2>4. Schedule'
      <3> HIDE DEF fresh, d, sKey, sPoll
      <3>1. PollsOnly' BY <1>1, <1>7, <2>3 DEF PollsOnly, OnSchedule
      <3>2. PollsInTime' BY <1>4 DEF PollsInTime
      <3>3. AnsweredInTime'
        <4>1. dash'.age = 0 /\ work' = work /\ work.left \in Nat /\ sincePoll' \in Nat
          BY <1>1, <1>4, <1>t, <2>1, Typing, Parameters
        <4>2. ~trouble' /\ work # NoWork => 0 + work.left < 2 * PollIdle
          BY <2>3, <4>1, Parameters
        <4> QED BY <4>1, <4>2, Parameters DEF AnsweredInTime, OnSchedule
      <3> QED BY <3>1, <3>2, <3>3 DEF Schedule
    <2> QED BY <1>8, <1>9, <2>2, <2>4 DEF IInv
  <1>11. CASE ~fresh
    <2>1. UNCHANGED <<dash, made, trouble>> BY <1>1, <1>11
    <2>2. ASSUME OnSchedule PROVE ~reply.there
      BY <1>11, <2>2 DEF IInv, Schedule, PollsOnly
    <2>3. OnSchedule' = OnSchedule BY <1>1, <2>1 DEF OnSchedule
    <2>4. Schedule'
      <3> HIDE DEF fresh, d, sKey, sPoll
      <3>1. PollsOnly' BY <1>1, <1>7, <2>3 DEF IInv, Schedule, PollsOnly
      <3>2. PollsInTime' BY <1>4 DEF PollsInTime
      <3>3. AnsweredInTime'
        BY <1>1, <1>4, <2>1, <2>2, <2>3 DEF IInv, Schedule, AnsweredInTime
      <3> QED BY <3>1, <3>2, <3>3 DEF Schedule
    <2>5. OldOnlyInTrouble'
      <3> SUFFICES ASSUME frame' = "old", ~trouble' PROVE FALSE
        BY DEF OldOnlyInTrouble
      <3>1. dash.stamp # "ahead" BY <2>1 DEF IInv, OddStampInTrouble
      <3>2. dash.stamp = "now" /\ dash.age = StaleAfter BY <1>l, <1>11, <3>1
      <3>3. OnSchedule /\ ~reply.there BY <1>1, <2>1, <2>2, <3>2 DEF OnSchedule
      <3>4. dash.age <= PollIdle \/ dash.age + work.left < 2 * PollIdle
        BY <3>3 DEF IInv, Schedule, AnsweredInTime
      <3> QED BY <1>t, <3>2, <3>4, Typing, Parameters
    <2>6. MadeIsStamped' /\ SilentFrame' /\ OddStampInTrouble'
      <3>l. frame' = "silent" => dash.stamp = "now" /\ dash.age < StaleAfter BY <1>l, <1>11
      <3> HIDE DEF fresh, d, sKey, sPoll
      <3>1. /\ made.age \in Nat /\ made.late \in Nat /\ dash.age \in Nat
            /\ mode # "asleep" /\ mode # "ota"
        BY <1>1, <1>t, Typing, Parameters
      <3>2. MadeIsStamped' /\ OddStampInTrouble'
        BY <1>1, <2>1 DEF IInv, MadeIsStamped, OddStampInTrouble
      <3>3. frame' = "silent" => made.age < StaleAfter + made.late
        BY <3>l, <2>1, <3>1, Parameters DEF IInv, MadeIsStamped
      <3> QED BY <1>1, <2>1, <3>1, <3>2, <3>3, Parameters DEF SilentFrame
    <2> QED BY <1>8, <1>9, <2>4, <2>5, <2>6 DEF IInv
  <1> QED BY <1>10, <1>11

\* A pass without a key, and one with.
LEMMA QuietPassStep ==
    ASSUME IInv, QuietPass
    PROVE  IInv'
  <1>1. Pass /\ Refresh(FALSE, jobs, FALSE) /\ prompt' = prompt BY DEF QuietPass
  <1>2. jobs \in Queues /\ prompt \in BOOLEAN BY Typing DEF IInv, TypeOK, LoopOK, WorkerOK, DataOK
  <1> QED BY <1>1, <1>2, PassStep

LEMMA KeyPassStep ==
    ASSUME IInv, KeyPass
    PROVE  IInv'
  <1>1. Pass /\ prompt' \in BOOLEAN BY DEF KeyPass
  <1>2. PICK q \in {jobs, WithAct(jobs)}, polled \in BOOLEAN :
            Refresh(TRUE, IF polled THEN WithDash(q) ELSE q, polled)
    BY DEF KeyPass
  <1>3. jobs \in Queues BY Typing DEF IInv
  <1>4. q \in Queues /\ (q = <<>> => jobs = <<>>) BY <1>2, <1>3, PressQueued
  <1> DEFINE asked == IF polled THEN WithDash(q) ELSE q
  <1>5. asked \in Queues /\ (asked = <<>> => jobs = <<>> /\ ~polled)
    BY <1>4, DashQueued
  <1>6. Refresh(TRUE, asked, polled) BY <1>2
  <1> HIDE DEF asked
  <1> QED BY <1>1, <1>5, <1>6, PassStep

LEMMA StayUpStep ==
    ASSUME IInv, StayUp
    PROVE  IInv'
  <1>1. /\ mode = "on" /\ stage = "sleep" /\ stage' = "loop" /\ settled' = TRUE
        /\ UNCHANGED <<mode, prompt, sinceKey, sincePoll, jobs, work, net, reply,
                       dash, made, frame, trouble>>
    BY DEF StayUp, EndOfPass, data
  <1>2. TypeOK'
    <2>1. LoopOK' BY <1>1 DEF IInv, TypeOK, LoopOK
    <2>2. WorkerOK' BY <1>1 DEF IInv, TypeOK, WorkerOK
    <2>3. DataOK' BY <1>1 DEF IInv, TypeOK, DataOK
    <2> QED BY <2>1, <2>2, <2>3 DEF TypeOK
  <1>3. WorkIsWhole' /\ MadeIsStamped' /\ SilentFrame' /\ OddStampInTrouble' /\ OldOnlyInTrouble'
    BY <1>1 DEF IInv, WorkIsWhole, MadeIsStamped, SilentFrame, OddStampInTrouble,
                OldOnlyInTrouble
  <1>4. Schedule'
    BY <1>1 DEF IInv, Schedule, PollsOnly, PollsInTime, AnsweredInTime, OnSchedule
  <1> QED BY <1>2, <1>3, <1>4 DEF IInv

LEMMA GoToSleepStep ==
    ASSUME IInv, GoToSleep
    PROVE  IInv'
  <1>1. /\ mode = "on" /\ stage' = "loop" /\ settled' = TRUE /\ mode' = "asleep"
        /\ sinceKey' = 0 /\ sincePoll' = 0 /\ jobs' = <<>> /\ work' = NoWork
        /\ net' = NoLink /\ reply' = NoReply /\ dash' = [dash EXCEPT !.age = 0]
        /\ UNCHANGED <<prompt, made, frame, trouble>>
    BY DEF GoToSleep, EndOfPass
  <1>2. /\ 0 \in 0 .. StaleAfter /\ 0 \in 0 .. SleepAfter /\ 0 \in 0 .. PollIdle
        /\ 0 \in 0 .. LateCap /\ 0 \in 0 .. MaxFailures
        /\ 0 \in 0 .. BackoffMax /\ 0 <= QueueLen
    BY Parameters
  <1>3. jobs' \in Seq({"dash", "act"}) /\ Len(jobs') <= QueueLen BY <1>1, <1>2
  <1>t. TypeOK BY DEF IInv
  <1>4. dash' \in [stamp : Stamps, age : 0 .. StaleAfter] /\ dash'.stamp = dash.stamp
    BY <1>1, <1>2, <1>t, Typing
  <1>5. TypeOK'
    <2>1. LoopOK' BY <1>1, <1>2, <1>3, <1>4, <1>t DEF NoWork, NoLink, NoReply, Stamps, TypeOK, LoopOK
    <2>2. WorkerOK' BY <1>1, <1>2, <1>3, <1>4, <1>t DEF NoWork, NoLink, NoReply, Stamps, TypeOK, WorkerOK
    <2>3. DataOK' BY <1>1, <1>2, <1>3, <1>4, <1>t DEF NoWork, NoLink, NoReply, Stamps, TypeOK, DataOK
    <2> QED BY <2>1, <2>2, <2>3 DEF TypeOK
  <1>6. WorkIsWhole' BY <1>1 DEF WorkIsWhole, NoWork
  <1>7. MadeIsStamped' /\ SilentFrame' /\ OddStampInTrouble' /\ OldOnlyInTrouble'
    BY <1>1, <1>4 DEF IInv, MadeIsStamped, SilentFrame, OddStampInTrouble, OldOnlyInTrouble
  <1>8. Schedule'
    BY <1>1 DEF Schedule, PollsOnly, PollsInTime, AnsweredInTime, OnSchedule
  <1> QED BY <1>5, <1>6, <1>7, <1>8 DEF IInv

\* The stay in the OTA mode: no frame of the other modes is on the screen.
LEMMA OtaStep ==
    ASSUME IInv, EnterOta \/ LeaveOta
    PROVE  IInv'
  <1>1. CASE EnterOta
    <2>1. /\ mode = "on" /\ mode' = "ota" /\ frame' = "ota"
          /\ UNCHANGED <<stage, settled, prompt, sinceKey, sincePoll, jobs, work, net, reply,
                         dash, made, trouble>>
      BY <1>1 DEF EnterOta
    <2>2. TypeOK'
      <3>1. LoopOK' BY <2>1 DEF IInv, TypeOK, LoopOK
      <3>2. WorkerOK' BY <2>1 DEF IInv, TypeOK, WorkerOK
      <3>3. DataOK' BY <2>1 DEF IInv, TypeOK, DataOK
      <3> QED BY <3>1, <3>2, <3>3 DEF TypeOK
    <2>3. WorkIsWhole' /\ MadeIsStamped' /\ SilentFrame' /\ OddStampInTrouble' /\ OldOnlyInTrouble'
      BY <2>1 DEF IInv, WorkIsWhole, MadeIsStamped, SilentFrame, OddStampInTrouble,
                  OldOnlyInTrouble
    <2>4. Schedule'
      BY <2>1 DEF Schedule, PollsOnly, PollsInTime, AnsweredInTime, OnSchedule
    <2> QED BY <2>2, <2>3, <2>4 DEF IInv
  <1>2. CASE LeaveOta
    <2>1. /\ mode = "ota" /\ mode' = "on" /\ sinceKey' = 0 /\ settled' = FALSE
          /\ trouble' = TRUE
          /\ UNCHANGED <<stage, prompt, sincePoll, jobs, work, net, reply, dash, made, frame>>
      BY <1>2 DEF LeaveOta
    <2>2. 0 \in 0 .. SleepAfter BY Parameters
    <2>3. TypeOK'
      <3>1. LoopOK' BY <2>1, <2>2 DEF IInv, TypeOK, LoopOK
      <3>2. WorkerOK' BY <2>1, <2>2 DEF IInv, TypeOK, WorkerOK
      <3>3. DataOK' BY <2>1, <2>2 DEF IInv, TypeOK, DataOK
      <3> QED BY <3>1, <3>2, <3>3 DEF TypeOK
    <2>4. WorkIsWhole' /\ MadeIsStamped' /\ SilentFrame' /\ OddStampInTrouble' /\ OldOnlyInTrouble'
      BY <2>1 DEF IInv, WorkIsWhole, MadeIsStamped, SilentFrame, OddStampInTrouble,
                  OldOnlyInTrouble
    <2>5. Schedule'
      BY <2>1 DEF Schedule, PollsOnly, PollsInTime, AnsweredInTime, OnSchedule
    <2> QED BY <2>3, <2>4, <2>5 DEF IInv
  <1> QED BY <1>1, <1>2

-----------------------------------------------------------------------------
(* The worker and the world.                                               *)

\* deliver() puts a well-formed answer where the last one was, if it does.
LEMMA DeliveredFacts ==
    ASSUME TypeOK, NEW job, NEW ok \in BOOLEAN, Delivered(job, ok)
    PROVE  /\ reply' \in [there : BOOLEAN, ok : BOOLEAN, age : 0 .. LateCap]
           /\ trouble' = (trouble \/ ~ok \/ job # "dash") /\ UNCHANGED <<dash, made, frame>>
           /\ trouble' \in BOOLEAN /\ (~ok => trouble' = TRUE)
           /\ ~trouble' => reply'.there /\ reply'.ok
  <1>1. 0 \in 0 .. LateCap BY Parameters
  <1>2. [there |-> TRUE, ok |-> ok, age |-> 0]
            \in [there : BOOLEAN, ok : BOOLEAN, age : 0 .. LateCap]
    BY <1>1
  <1>3. reply \in [there : BOOLEAN, ok : BOOLEAN, age : 0 .. LateCap]
    BY DEF TypeOK, WorkerOK
  <1>4. /\ reply' = IF job = "dash" THEN [there |-> TRUE, ok |-> ok, age |-> 0] ELSE reply
        /\ trouble' = (trouble \/ ~ok \/ job # "dash") /\ UNCHANGED <<dash, made, frame>>
    BY DEF Delivered
  <1>5. reply' \in [there : BOOLEAN, ok : BOOLEAN, age : 0 .. LateCap]
    BY <1>2, <1>3, <1>4
  <1> QED BY <1>4, <1>5

\* What no step of the worker disturbs.
LEMMA DataKept ==
    ASSUME IInv, UNCHANGED <<mode, stage, dash, made, frame>>,
           trouble => trouble', settled' => settled
    PROVE  MadeIsStamped' /\ SilentFrame' /\ OddStampInTrouble' /\ OldOnlyInTrouble'
  BY DEF IInv, MadeIsStamped, SilentFrame, OddStampInTrouble, OldOnlyInTrouble

\* A failure, and whatever else is trouble, is off the schedule.
LEMMA OffSchedule ==
    ASSUME trouble'
    PROVE  Schedule'
  BY DEF Schedule, PollsOnly, PollsInTime, AnsweredInTime, OnSchedule

LEMMA TakeStep ==
    ASSUME IInv, Take
    PROVE  IInv'
  <1> DEFINE j == Head(jobs)
  <1>1. /\ work = NoWork /\ jobs # <<>> /\ jobs' = Tail(jobs) /\ settled' = FALSE
        /\ UNCHANGED <<mode, stage, prompt, sinceKey, sincePoll, net>>
    BY DEF Take
  <1>t. TypeOK BY DEF IInv
  <1>2. jobs \in Queues BY <1>t, Typing
  <1>3. /\ Tail(jobs) \in Queues /\ j \in {"dash", "act"}
        /\ j = "dash" /\ Contains(jobs, "act") => Contains(Tail(jobs), "act")
    BY <1>1, <1>2, Taken
  <1>4. jobs' \in Seq({"dash", "act"}) /\ Len(jobs') <= QueueLen BY <1>1, <1>3 DEF Queues
  <1> HIDE DEF j
  <1>5. CASE Delivered(j, FALSE) /\ UNCHANGED work
    <2>1. /\ reply' = IF j = "dash" THEN [there |-> TRUE, ok |-> FALSE, age |-> 0] ELSE reply
          /\ trouble' = TRUE /\ UNCHANGED <<work, dash, made, frame>>
      BY <1>5, <1>t DEF Delivered
    <2>2. 0 \in 0 .. LateCap BY Parameters
    <2>3. TypeOK'
      <3>1. LoopOK' BY <1>1, <1>4, <1>t, <2>1, <2>2 DEF TypeOK, LoopOK
      <3>2. WorkerOK' BY <1>1, <1>4, <1>t, <2>1, <2>2 DEF TypeOK, WorkerOK
      <3>3. DataOK' BY <1>1, <1>4, <1>t, <2>1, <2>2 DEF TypeOK, DataOK
      <3> QED BY <3>1, <3>2, <3>3 DEF TypeOK
    <2>4. WorkIsWhole' BY <2>1 DEF IInv, WorkIsWhole
    <2>5. MadeIsStamped' /\ SilentFrame' /\ OddStampInTrouble' /\ OldOnlyInTrouble'
      BY <1>1, <2>1, DataKept
    <2>6. Schedule' BY <2>1, OffSchedule
    <2> QED BY <2>3, <2>4, <2>5, <2>6 DEF IInv
  <1>6. CASE /\ work' = [job |-> j, phase |-> "connect", left |-> 0, slow |-> FALSE]
             /\ trouble' = TRUE
             /\ UNCHANGED <<reply, dash, made, frame>>
    <2>1. TypeOK'
      <3>1. LoopOK' BY <1>1, <1>3, <1>4, <1>6, <1>t DEF TypeOK, LoopOK
      <3>2. WorkerOK' BY <1>1, <1>3, <1>4, <1>6, <1>t DEF TypeOK, WorkerOK
      <3>3. DataOK' BY <1>1, <1>3, <1>4, <1>6, <1>t DEF TypeOK, DataOK
      <3> QED BY <3>1, <3>2, <3>3 DEF TypeOK
    <2>2. WorkIsWhole' BY <1>3, <1>6 DEF WorkIsWhole, NoWork
    <2>3. MadeIsStamped' /\ SilentFrame' /\ OddStampInTrouble' /\ OldOnlyInTrouble'
      BY <1>1, <1>6, DataKept
    <2>4. Schedule' BY <1>6, OffSchedule
    <2> QED BY <2>1, <2>2, <2>3, <2>4 DEF IInv
  <1>7. ASSUME NEW t \in HttpTakes, work' = Exchange(j, t),
               trouble' = (trouble \/ j = "act" \/ t >= PollIdle),
               UNCHANGED <<reply, dash, made, frame>>
        PROVE  IInv'
    <2>1. t \in Nat BY PowerAssumption
    <2>2. work' = [job |-> j, phase |-> "http", left |-> t, slow |-> t >= PollIdle]
      BY <1>7 DEF Exchange
    <2>3. (t >= PollIdle) \in BOOLEAN /\ trouble' \in BOOLEAN BY <1>7, <1>t DEF TypeOK, LoopOK
    <2>4. TypeOK'
      <3>1. LoopOK' BY <1>1, <1>3, <1>4, <1>7, <1>t, <2>1, <2>2, <2>3 DEF TypeOK, LoopOK
      <3>2. WorkerOK' BY <1>1, <1>3, <1>4, <1>7, <1>t, <2>1, <2>2, <2>3 DEF TypeOK, WorkerOK
      <3>3. DataOK' BY <1>1, <1>3, <1>4, <1>7, <1>t, <2>1, <2>2, <2>3 DEF TypeOK, DataOK
      <3> QED BY <3>1, <3>2, <3>3 DEF TypeOK
    <2>5. WorkIsWhole'
      <3>1. ~work'.slow => work'.left < PollIdle
        <4>1. work'.slow = (t >= PollIdle) /\ work'.left = t BY <2>2
        <4>2. t >= PollIdle \/ t < PollIdle BY <2>1, Parameters
        <4> QED BY <4>1, <4>2, Zenon
      <3> QED BY <1>3, <2>2, <3>1 DEF WorkIsWhole, NoWork
    <2>6. MadeIsStamped' /\ SilentFrame' /\ OddStampInTrouble' /\ OldOnlyInTrouble'
      BY <1>1, <1>7, DataKept
    <2>7. ASSUME OnSchedule'
          PROVE  OnSchedule /\ j = "dash" /\ t < PollIdle
      <3>1. ~trouble /\ j # "act" /\ ~(t >= PollIdle) BY <1>7, <2>7 DEF OnSchedule
      <3>2. OnSchedule BY <1>1, <1>7, <2>7, <3>1 DEF OnSchedule
      <3> QED BY <1>3, <2>1, <3>1, <3>2, Parameters
    <2>8. PollsOnly'
      <3> SUFFICES ASSUME OnSchedule'
                   PROVE  /\ work'.job = "dash" /\ work'.phase = "http" /\ ~work'.slow
                          /\ reply'.there => reply'.ok
        BY DEF PollsOnly
      <3>1. ~(t >= PollIdle) BY <2>1, <2>7, Parameters
      <3>2. reply.there => reply.ok BY <2>7 DEF IInv, Schedule, PollsOnly
      <3>3. work'.slow = (t >= PollIdle) /\ work'.job = j /\ work'.phase = "http" BY <2>2
      <3> QED BY <1>7, <2>7, <3>1, <3>2, <3>3
    <2>9. PollsInTime'
      BY <1>1, <1>3, <2>7 DEF IInv, Schedule, PollsInTime
    <2>10. AnsweredInTime'
      <3> SUFFICES ASSUME OnSchedule', ~reply'.there
                   PROVE  work' # NoWork /\ dash'.age + work'.left < 2 * PollIdle
        BY DEF AnsweredInTime
      <3>1. dash.age <= PollIdle /\ dash'.age = dash.age /\ dash.age \in Nat
        BY <1>1, <1>7, <1>t, <2>7, Typing, Parameters DEF IInv, Schedule, AnsweredInTime
      <3>2. work' # NoWork /\ work'.left = t BY <2>2 DEF NoWork
      <3> QED BY <2>1, <2>7, <3>1, <3>2, Parameters
    <2> QED BY <2>4, <2>5, <2>6, <2>8, <2>9, <2>10 DEF IInv, Schedule
  <1>8. \/ Delivered(j, FALSE) /\ UNCHANGED work
        \/ /\ work' = [job |-> j, phase |-> "connect", left |-> 0, slow |-> FALSE]
           /\ trouble' = TRUE
           /\ UNCHANGED <<reply, dash, made, frame>>
        \/ /\ \E t \in HttpTakes :
                 /\ work' = Exchange(j, t)
                 /\ trouble' = (trouble \/ j = "act" \/ t >= PollIdle)
           /\ UNCHANGED <<reply, dash, made, frame>>
    BY DEF Take, j
  <1> QED BY <1>5, <1>6, <1>7, <1>8

\* The link comes up: the data wait for it in any case, so this is trouble.
LEMMA ConnectedStep ==
    ASSUME IInv, Connected
    PROVE  IInv'
  <1>t. TypeOK BY DEF IInv
  <1>1. /\ work.phase = "connect" /\ net' = [net EXCEPT !.link = TRUE, !.failures = 0]
        /\ UNCHANGED <<mode, stage, prompt, sinceKey, sincePoll, jobs, reply,
                       dash, made, frame, trouble>>
        /\ \/ work.job = "begin" /\ work' = NoWork /\ settled' = FALSE
           \/ /\ work.job # "begin" /\ settled' = settled
              /\ \E t \in HttpTakes :
                    work' = [Exchange(work.job, t) EXCEPT !.slow = work.left + t >= PollIdle]
    BY DEF Connected, WorkerEnd, data, ui
  <1>2. /\ work' \in [job : {"none", "begin", "dash", "act"}, phase : {"none", "connect", "http"},
                      left : Nat, slow : BOOLEAN]
        /\ WorkIsWhole'
    <2>1. CASE work' = NoWork
      BY <2>1 DEF WorkIsWhole, NoWork
    <2>2. ASSUME NEW t \in HttpTakes, work.job # "begin",
                 work' = [Exchange(work.job, t) EXCEPT !.slow = work.left + t >= PollIdle]
          PROVE  /\ work' \in [job : {"none", "begin", "dash", "act"},
                               phase : {"none", "connect", "http"}, left : Nat, slow : BOOLEAN]
                 /\ WorkIsWhole'
      <3> DEFINE slow == work.left + t >= PollIdle
      <3>1. t \in Nat /\ work.left \in Nat /\ slow \in BOOLEAN
        BY <1>t, PowerAssumption, Typing
      <3>2. ~slow => t < PollIdle BY <3>1, Parameters
      <3>3. work' = [job |-> work.job, phase |-> "http", left |-> t, slow |-> slow]
        BY <2>2 DEF Exchange
      <3> HIDE DEF slow
      <3>4. work.job \in {"dash", "act"}
        BY <1>1, <1>t, <2>2, Typing DEF IInv, WorkIsWhole, NoWork
      <3>5. /\ work'.job = work.job /\ work'.phase = "http" /\ work'.left = t
            /\ work'.slow = slow
        BY <3>3
      <3> QED BY <3>1, <3>2, <3>3, <3>4, <3>5 DEF WorkIsWhole, NoWork
    <2> QED BY <1>1, <2>1, <2>2
  <1>3. 0 \in 0 .. MaxFailures BY Parameters
  <1>4. TypeOK'
    <2>1. LoopOK' BY <1>1, <1>t DEF TypeOK, LoopOK
    <2>2. WorkerOK' BY <1>1, <1>2, <1>3, <1>t DEF TypeOK, WorkerOK
    <2>3. DataOK' BY <1>1, <1>t DEF TypeOK, DataOK
    <2> QED BY <2>1, <2>2, <2>3 DEF TypeOK
  <1>5. MadeIsStamped' /\ SilentFrame' /\ OddStampInTrouble' /\ OldOnlyInTrouble'
    <2>1. settled' => settled BY <1>1
    <2> QED BY <1>1, <2>1, DataKept
  <1>6. ~OnSchedule' BY <1>1 DEF IInv, Schedule, PollsOnly, OnSchedule
  <1>7. Schedule' BY <1>6 DEF Schedule, PollsOnly, PollsInTime, AnsweredInTime
  <1> QED BY <1>2, <1>4, <1>5, <1>7 DEF IInv

\* A job that ends, with or without an answer.  What it leaves is trouble, but
\* for the answer to a poll.
LEMMA JobEnds ==
    ASSUME IInv, UNCHANGED <<mode, stage, prompt, sinceKey, sincePoll, dash, made, frame>>,
           work' = NoWork, settled' = FALSE, jobs' \in Queues,
           net' \in [link : BOOLEAN, failures : 0 .. MaxFailures, wait : 0 .. BackoffMax,
                     again : BOOLEAN],
           reply' \in [there : BOOLEAN, ok : BOOLEAN, age : 0 .. LateCap],
           trouble' \in BOOLEAN, trouble => trouble',
           ~trouble' => jobs' = jobs /\ reply'.there /\ reply'.ok
    PROVE  IInv'
  <1>t. TypeOK BY DEF IInv
  <1>1. TypeOK'
    <2>1. LoopOK' BY <1>t DEF TypeOK, LoopOK
    <2>2. WorkerOK' BY DEF WorkerOK, Queues, NoWork
    <2>3. DataOK' BY <1>t DEF TypeOK, DataOK
    <2> QED BY <2>1, <2>2, <2>3 DEF TypeOK
  <1>2. WorkIsWhole' BY DEF WorkIsWhole, NoWork
  <1>3. MadeIsStamped' /\ SilentFrame' /\ OddStampInTrouble' /\ OldOnlyInTrouble'
    BY DataKept
  <1>4. Schedule'
    <2>1. CASE trouble' BY <2>1, OffSchedule
    <2>2. CASE ~trouble'
      <3>1. OnSchedule' => OnSchedule BY <2>2 DEF OnSchedule
      <3>2. work'.job = "none" /\ work'.phase = "none" /\ work'.slow = FALSE BY DEF NoWork
      <3> QED BY <2>2, <3>1, <3>2
              DEF IInv, Schedule, PollsOnly, PollsInTime, AnsweredInTime
    <2> QED BY <2>1, <2>2
  <1> QED BY <1>1, <1>2, <1>3, <1>4 DEF IInv

LEMMA ConnectFailedStep ==
    ASSUME IInv, ConnectFailed
    PROVE  IInv'
  <1>t. TypeOK BY DEF IInv
  <1>1. /\ work.phase = "connect" /\ work' = NoWork /\ settled' = FALSE
        /\ net' = [net EXCEPT !.failures = Capped(net.failures, MaxFailures),
                              !.wait = backoffDelay(Capped(net.failures, MaxFailures))]
        /\ UNCHANGED <<mode, stage, prompt, sinceKey, sincePoll, jobs, dash, made, frame>>
        /\ reply' \in [there : BOOLEAN, ok : BOOLEAN, age : 0 .. LateCap]
        /\ UNCHANGED <<reply, trouble>> \/ trouble' = TRUE
    <2>1. CASE UNCHANGED <<reply, data>>
      BY <1>t, <2>1 DEF ConnectFailed, WorkerEnd, data, TypeOK, WorkerOK
    <2>2. CASE Delivered(work.job, FALSE)
      BY <1>t, <2>2, DeliveredFacts DEF ConnectFailed, WorkerEnd
    <2> QED BY <2>1, <2>2 DEF ConnectFailed
  <1>2. /\ Capped(net.failures, MaxFailures) \in 0 .. MaxFailures
        /\ backoffDelay(Capped(net.failures, MaxFailures)) \in 0 .. BackoffMax
    BY <1>t, Typing, Parameters, CappedFacts, BackoffFacts
  <1>3. net' \in [link : BOOLEAN, failures : 0 .. MaxFailures, wait : 0 .. BackoffMax,
                  again : BOOLEAN]
    BY <1>1, <1>2, <1>t DEF TypeOK, WorkerOK
  <1>5. trouble' \in BOOLEAN /\ jobs' \in Queues /\ (trouble => trouble')
    BY <1>1, <1>t, Typing DEF TypeOK, LoopOK
  <1>6. CASE trouble' BY <1>1, <1>3, <1>5, <1>6, JobEnds
  <1>7. CASE ~trouble'
    <2>1. UNCHANGED <<reply, trouble>> BY <1>1, <1>7
    <2>2. ~OnSchedule'
      BY <1>1, <2>1 DEF IInv, Schedule, PollsOnly, OnSchedule
    <2>3. TypeOK'
      <3>1. LoopOK' BY <1>1, <1>t, <2>1 DEF TypeOK, LoopOK
      <3>2. WorkerOK' BY <1>1, <1>3, <1>5 DEF WorkerOK, Queues, NoWork
      <3>3. DataOK' BY <1>1, <1>t DEF TypeOK, DataOK
      <3> QED BY <3>1, <3>2, <3>3 DEF TypeOK
    <2>4. WorkIsWhole' BY <1>1 DEF WorkIsWhole, NoWork
    <2>5. MadeIsStamped' /\ SilentFrame' /\ OddStampInTrouble' /\ OldOnlyInTrouble'
      BY <1>1, <1>5, DataKept
    <2>6. Schedule' BY <2>2 DEF Schedule, PollsOnly, PollsInTime, AnsweredInTime
    <2> QED BY <2>3, <2>4, <2>5, <2>6 DEF IInv
  <1> QED BY <1>6, <1>7

LEMMA AnsweredStep ==
    ASSUME IInv, Answered
    PROVE  IInv'
  <1>t. TypeOK BY DEF IInv
  <1>1. PICK ok \in BOOLEAN : Delivered(work.job, ok) BY DEF Answered
  <1>2. /\ work' = NoWork /\ settled' = FALSE /\ net' = [net EXCEPT !.again = FALSE]
        /\ UNCHANGED <<mode, stage, prompt, sinceKey, sincePoll, jobs>>
    BY DEF Answered, WorkerEnd
  <1>3. /\ reply' \in [there : BOOLEAN, ok : BOOLEAN, age : 0 .. LateCap]
        /\ trouble' \in BOOLEAN /\ (trouble => trouble') /\ UNCHANGED <<dash, made, frame>>
        /\ ~trouble' => reply'.there /\ reply'.ok
    BY <1>1, <1>t, DeliveredFacts
  <1>4. jobs' \in Queues BY <1>2, <1>t, Typing
  <1>5. net' \in [link : BOOLEAN, failures : 0 .. MaxFailures, wait : 0 .. BackoffMax,
                  again : BOOLEAN]
    BY <1>2, <1>t DEF TypeOK, WorkerOK
  <1> QED BY <1>2, <1>3, <1>4, <1>5, JobEnds

LEMMA SilenceStep ==
    ASSUME IInv, Silence
    PROVE  IInv'
  <1>t. TypeOK BY DEF IInv
  <1>0. work.phase = "http" /\ work' = NoWork /\ settled' = FALSE
        /\ UNCHANGED <<mode, stage, prompt, sinceKey, sincePoll>>
    BY DEF Silence, WorkerEnd
  <1>1. PICK up \in BOOLEAN, found \in BOOLEAN :
            /\ net' = [net EXCEPT !.link = up, !.again = TRUE]
            /\ \/ /\ CanQueue(jobs)
                  /\ jobs' = Append(jobs, work.job) /\ trouble' = TRUE
                  /\ UNCHANGED <<reply, dash, made, frame>>
               \/ Delivered(work.job, FALSE) /\ UNCHANGED jobs
    BY DEF Silence
  <1>2. net' \in [link : BOOLEAN, failures : 0 .. MaxFailures, wait : 0 .. BackoffMax,
                  again : BOOLEAN]
    BY <1>1, <1>t DEF TypeOK, WorkerOK
  <1>3. /\ trouble' = TRUE /\ UNCHANGED <<dash, made, frame>>
        /\ reply' \in [there : BOOLEAN, ok : BOOLEAN, age : 0 .. LateCap]
    <2>1. CASE trouble' = TRUE /\ UNCHANGED <<reply, dash, made, frame>>
      BY <1>t, <2>1 DEF TypeOK, WorkerOK
    <2>2. CASE Delivered(work.job, FALSE) BY <1>t, <2>2, DeliveredFacts
    <2> QED BY <1>1, <2>1, <2>2
  <1>4. jobs' \in Queues
    <2>1. jobs \in Queues BY <1>t, Typing
    <2>2. CASE CanQueue(jobs) /\ jobs' = Append(jobs, work.job)
      <3>1. work.job \in {"dash", "act"} BY <1>0 DEF IInv, WorkIsWhole
      <3>2. jobs \in Seq({"dash", "act"}) /\ Len(jobs) \in Nat /\ Len(jobs) < QueueLen
        BY <2>1, <2>2 DEF Queues, CanQueue
      <3>3. jobs' \in Seq({"dash", "act"}) /\ Len(jobs') = Len(jobs) + 1
        BY <2>2, <3>1, <3>2
      <3> QED BY <3>2, <3>3, Parameters DEF Queues
    <2>3. CASE UNCHANGED jobs BY <2>1, <2>3
    <2> QED BY <1>1, <2>2, <2>3
  <1> QED BY <1>0, <1>2, <1>3, <1>4, JobEnds

LEMMA WorldStep ==
    ASSUME IInv, LinkLost \/ ClockWraps
    PROVE  IInv'
  <1>t. TypeOK BY DEF IInv
  <1>1. CASE LinkLost
    <2>1. /\ net' = [net EXCEPT !.link = FALSE]
          /\ UNCHANGED <<mode, stage, settled, prompt, sinceKey, sincePoll, jobs, work,
                         reply, dash, made, frame, trouble>>
      BY <1>1 DEF LinkLost, ui, data
    <2>2. TypeOK'
      <3>1. LoopOK' BY <1>t, <2>1 DEF TypeOK, LoopOK
      <3>2. WorkerOK' BY <1>t, <2>1 DEF TypeOK, WorkerOK
      <3>3. DataOK' BY <1>t, <2>1 DEF TypeOK, DataOK
      <3> QED BY <3>1, <3>2, <3>3 DEF TypeOK
    <2>3. WorkIsWhole' BY <2>1 DEF IInv, WorkIsWhole
    <2>4. MadeIsStamped' /\ SilentFrame' /\ OddStampInTrouble' /\ OldOnlyInTrouble'
      BY <2>1, DataKept
    <2>5. Schedule'
      BY <2>1 DEF IInv, Schedule, PollsOnly, PollsInTime, AnsweredInTime, OnSchedule
    <2> QED BY <2>2, <2>3, <2>4, <2>5 DEF IInv
  <1>2. CASE ClockWraps
    <2>1. /\ dash' = [stamp |-> "ahead", age |-> 0] /\ trouble' = TRUE
          /\ UNCHANGED <<mode, stage, settled, prompt, sinceKey, sincePoll, jobs, work, net,
                         reply, made, frame>>
      BY <1>2 DEF ClockWraps, ui, Dash
    <2>2. TypeOK'
      <3>1. LoopOK' BY <1>t, <2>1 DEF TypeOK, LoopOK
      <3>2. WorkerOK' BY <1>t, <2>1 DEF TypeOK, WorkerOK
      <3>3. 0 \in 0 .. StaleAfter BY Parameters
      <3>4. DataOK' BY <1>t, <2>1, <3>3 DEF TypeOK, DataOK
      <3> QED BY <3>1, <3>2, <3>4 DEF TypeOK
    <2>3. WorkIsWhole' BY <2>1 DEF IInv, WorkIsWhole
    <2>4. MadeIsStamped' /\ SilentFrame' /\ OddStampInTrouble' /\ OldOnlyInTrouble'
      BY <2>1 DEF IInv, MadeIsStamped, SilentFrame, OddStampInTrouble, OldOnlyInTrouble
    <2>5. Schedule' BY <2>1, OffSchedule
    <2> QED BY <2>2, <2>3, <2>4, <2>5 DEF IInv
  <1> QED BY <1>1, <1>2

-----------------------------------------------------------------------------
(* A tick: everything that counts goes on by one.                          *)

LEMMA TickStep ==
    ASSUME IInv, Tick
    PROVE  IInv'
  <1>t. TypeOK BY DEF IInv
  <1>1. /\ mode # "asleep" /\ ~Urgent /\ settled' = FALSE
        /\ sinceKey' = Capped(sinceKey, SleepAfter)
        /\ sincePoll' = Capped(sincePoll, PollIdle)
        /\ work' = WorkLeft
        /\ net' = [net EXCEPT !.wait = IF @ > 0 THEN @ - 1 ELSE 0]
        /\ UNCHANGED <<mode, stage, prompt, jobs, frame, trouble>>
    BY DEF Tick, Awake
  <1>2. /\ work = NoWork => jobs = <<>>
        /\ work.phase = "http" => work.left # 0
        /\ mode = "on" => stage = "loop" /\ settled
    BY <1>1 DEF Urgent
  <1>3. /\ sinceKey' \in 0 .. SleepAfter /\ sincePoll' \in 0 .. PollIdle
        /\ sincePoll < PollIdle => sincePoll' = sincePoll + 1
    BY <1>1, <1>t, Typing, Parameters, CappedFacts
  <1>4. net' \in [link : BOOLEAN, failures : 0 .. MaxFailures, wait : 0 .. BackoffMax,
                  again : BOOLEAN]
    <2> DEFINE w == IF net.wait > 0 THEN net.wait - 1 ELSE 0
    <2>1. net.wait \in 0 .. BackoffMax BY <1>t, Typing
    <2>2. w \in 0 .. BackoffMax BY <2>1, Parameters
    <2>3. net' = [net EXCEPT !.wait = w] BY <1>1
    <2> HIDE DEF w
    <2> QED BY <1>t, <2>2, <2>3 DEF TypeOK, WorkerOK
  <1>5. /\ work' \in [job : {"none", "begin", "dash", "act"}, phase : {"none", "connect", "http"},
                      left : Nat, slow : BOOLEAN]
        /\ work'.job = work.job /\ work'.phase = work.phase /\ work'.slow = work.slow
        /\ work.phase = "http" => work'.left = work.left - 1
        /\ work.phase = "none" => work' = work
    <2>0. work \in [job : {"none", "begin", "dash", "act"}, phase : {"none", "connect", "http"},
                    left : Nat, slow : BOOLEAN]
      BY <1>t DEF TypeOK, WorkerOK
    <2>1. CASE work.phase = "http"
      <3>1. work' = [work EXCEPT !.left = work.left - 1] BY <1>1, <2>1 DEF WorkLeft
      <3>2. work.left - 1 \in Nat BY <1>2, <1>t, <2>1, Typing
      <3> QED BY <2>0, <2>1, <3>1, <3>2
    <2>2. CASE work.phase = "connect"
      <3>1. work' = [work EXCEPT !.left = work.left + 1] BY <1>1, <2>2 DEF WorkLeft
      <3>2. work.left + 1 \in Nat BY <1>t, Typing
      <3> QED BY <2>0, <2>2, <3>1, <3>2
    <2>3. CASE work.phase = "none"
      <3>1. work' = work BY <1>1, <2>3 DEF WorkLeft
      <3> QED BY <2>0, <2>3, <3>1
    <2> QED BY <2>0, <2>1, <2>2, <2>3
  <1>6. /\ reply' \in [there : BOOLEAN, ok : BOOLEAN, age : 0 .. LateCap]
        /\ reply'.there = reply.there /\ reply'.ok = reply.ok
    <2>0. reply \in [there : BOOLEAN, ok : BOOLEAN, age : 0 .. LateCap]
      BY <1>t DEF TypeOK, WorkerOK
    <2> DEFINE a == Capped(reply.age, LateCap)
    <2>1. a \in 0 .. LateCap BY <1>t, Typing, Parameters, CappedFacts
    <2>2. reply' = reply \/ reply' = [reply EXCEPT !.age = a] BY DEF Tick
    <2> HIDE DEF a
    <2> QED BY <2>0, <2>1, <2>2
  <1>7. /\ dash' \in [stamp : Stamps, age : 0 .. StaleAfter] /\ dash'.stamp = dash.stamp
        /\ dash'.age <= dash.age + 1
        /\ dash.stamp = "now" /\ dash.age < StaleAfter => dash'.age = dash.age + 1
        /\ dash.stamp = "now" /\ dash.age = StaleAfter => dash'.age = StaleAfter
    <2>0. dash \in [stamp : Stamps, age : 0 .. StaleAfter] BY <1>t, Typing
    <2> DEFINE a == Capped(dash.age, StaleAfter)
    <2>1. /\ a \in 0 .. StaleAfter /\ a <= dash.age + 1
          /\ dash.age < StaleAfter => a = dash.age + 1
          /\ dash.age = StaleAfter => a = StaleAfter
      <3>1. dash.age \in 0 .. StaleAfter /\ StaleAfter \in Nat BY <1>t, Typing, Parameters
      <3>2. /\ Capped(dash.age, StaleAfter) \in 0 .. StaleAfter
            /\ Capped(dash.age, StaleAfter) <= dash.age + 1
            /\ dash.age < StaleAfter => Capped(dash.age, StaleAfter) = dash.age + 1
        BY <3>1, CappedFacts
      <3>3. dash.age = StaleAfter => Capped(dash.age, StaleAfter) = StaleAfter
        BY <3>1 DEF Capped
      <3> QED BY <3>2, <3>3
    <2>2. dash' = IF dash.stamp = "now" THEN [dash EXCEPT !.age = a] ELSE dash BY DEF Tick
    <2> HIDE DEF a
    <2>3. CASE dash.stamp = "now"
      <3>1. dash' = [dash EXCEPT !.age = a] BY <2>2, <2>3
      <3>2. dash'.age = a /\ dash'.stamp = dash.stamp BY <2>0, <3>1
      <3>3. dash' \in [stamp : Stamps, age : 0 .. StaleAfter] BY <2>0, <2>1, <3>1
      <3> QED BY <2>1, <3>2, <3>3
    <2>4. CASE dash.stamp # "now"
      <3>1. dash' = dash /\ dash.age \in Nat BY <1>t, <2>2, <2>4, Typing, Parameters
      <3> QED BY <2>0, <2>4, <3>1
    <2> QED BY <2>3, <2>4
  <1>8. /\ made' \in [age : 0 .. MadeCap, late : 0 .. LateCap] /\ made'.late = made.late
        /\ made'.age <= made.age + 1
    <2>0. made \in [age : 0 .. MadeCap, late : 0 .. LateCap] BY <1>t DEF TypeOK, DataOK
    <2> DEFINE a == Capped(made.age, MadeCap)
    <2>1. a \in 0 .. MadeCap /\ a <= made.age + 1 /\ made.age \in Nat
      <3>1. made.age \in 0 .. MadeCap /\ MadeCap \in Nat BY <1>t, Typing, Parameters
      <3>2. /\ Capped(made.age, MadeCap) \in 0 .. MadeCap
            /\ Capped(made.age, MadeCap) <= made.age + 1
        BY <3>1, CappedFacts
      <3> QED BY <3>1, <3>2
    <2>2. made' = made \/ made' = [made EXCEPT !.age = a] BY DEF Tick
    <2> HIDE DEF a
    <2>3. CASE made' = made BY <2>0, <2>1, <2>3
    <2>4. CASE made' = [made EXCEPT !.age = a]
      <3>1. made'.age = a /\ made'.late = made.late BY <2>0, <2>4
      <3> QED BY <2>0, <2>1, <2>4, <3>1
    <2> QED BY <2>2, <2>3, <2>4
  <1>9. TypeOK'
    <2>1. LoopOK' BY <1>1, <1>3, <1>t DEF TypeOK, LoopOK
    <2>2. WorkerOK' BY <1>1, <1>4, <1>5, <1>6, <1>t DEF TypeOK, WorkerOK
    <2>3. DataOK' BY <1>7, <1>8 DEF DataOK, Stamps
    <2> QED BY <2>1, <2>2, <2>3 DEF TypeOK
  <1>10. WorkIsWhole'
    <2>1. work.phase = "none" <=> work = NoWork BY DEF IInv, WorkIsWhole
    <2>2. CASE work = NoWork
      <3>1. work' = work BY <1>5, <2>2 DEF NoWork
      <3> QED BY <3>1 DEF IInv, WorkIsWhole
    <2>3. CASE work # NoWork
      <3>1. work' # NoWork BY <1>5, <2>1, <2>3 DEF NoWork
      <3>2. work.phase = "http" /\ ~work.slow => work'.left < PollIdle
        BY <1>5, <1>t, Typing, Parameters DEF IInv, WorkIsWhole
      <3> QED BY <1>5, <2>1, <2>3, <3>1, <3>2 DEF IInv, WorkIsWhole
    <2> QED BY <2>2, <2>3
  <1>n. /\ dash.age \in 0 .. StaleAfter /\ made.age \in Nat /\ made.late \in Nat
        /\ dash'.age \in Nat /\ made'.age \in Nat /\ made'.late = made.late
    BY <1>t, <1>7, <1>8, Typing, Parameters
  <1>11. MadeIsStamped'
    <2> SUFFICES ASSUME dash'.stamp = "now", dash'.age < StaleAfter
                 PROVE  made'.age <= dash'.age + made'.late
      BY DEF MadeIsStamped
    <2>1. dash.stamp = "now" /\ dash.age < StaleAfter /\ dash'.age = dash.age + 1
      BY <1>7, <1>n, Parameters
    <2>2. made.age <= dash.age + made.late BY <1>1, <2>1 DEF IInv, MadeIsStamped
    <2> QED BY <1>8, <1>n, <2>1, <2>2
  <1>12. SilentFrame'
    <2> SUFFICES ASSUME frame = "silent"
                 PROVE  mode # "ota" /\ made'.age <= StaleAfter + made'.late
      BY <1>1, <1>2 DEF SilentFrame
    <2>1. mode = "on" /\ settled
      BY <1>1, <1>2, <1>t DEF IInv, SilentFrame, TypeOK, LoopOK
    <2>2. made.age < StaleAfter + made.late BY <2>1 DEF IInv, SilentFrame
    <2> QED BY <1>8, <1>n, <2>1, <2>2, Parameters
  <1>13. OddStampInTrouble' /\ OldOnlyInTrouble'
    BY <1>1, <1>7 DEF IInv, OddStampInTrouble, OldOnlyInTrouble
  <1>14. OnSchedule' = OnSchedule BY <1>1, <1>7 DEF OnSchedule
  <1>15. PollsOnly'
    BY <1>5, <1>6, <1>14 DEF IInv, Schedule, PollsOnly
  <1>16. PollsInTime' BY <1>1, <1>2, <1>14 DEF PollsInTime, OnSchedule
  <1>17. AnsweredInTime'
    <2> SUFFICES ASSUME OnSchedule, ~reply.there
                 PROVE  /\ work' = NoWork => dash'.age <= PollIdle
                        /\ work' = NoWork /\ jobs' = <<>> => dash'.age <= sincePoll'
                        /\ work' # NoWork => dash'.age + work'.left < 2 * PollIdle
      BY <1>6, <1>14 DEF AnsweredInTime
    <2>1. CASE work = NoWork
      <3>1. work' = NoWork BY <1>5, <2>1 DEF NoWork
      <3>2. jobs = <<>> /\ dash.age <= sincePoll
        BY <1>2, <2>1 DEF IInv, Schedule, AnsweredInTime
      <3>3. sincePoll # PollIdle
        <4>1. ~Contains(jobs, "act") BY <3>2 DEF Contains
        <4> QED BY <1>2, <4>1 DEF IInv, Schedule, PollsInTime, OnSchedule
      <3>4. sincePoll' = sincePoll + 1 /\ sincePoll \in Nat /\ sincePoll' <= PollIdle
        BY <1>3, <1>t, <3>3, Typing, Parameters
      <3> QED BY <1>7, <1>n, <3>1, <3>2, <3>4, Parameters
    <2>2. CASE work # NoWork
      <3>1. work.phase = "http" /\ work'.left = work.left - 1 /\ work.left \in Nat
        BY <1>5, <1>t, <2>2, Typing DEF IInv, Schedule, PollsOnly, WorkIsWhole
      <3>2. work' # NoWork BY <1>5, <3>1 DEF NoWork
      <3>3. dash.age + work.left < 2 * PollIdle
        BY <2>2 DEF IInv, Schedule, AnsweredInTime
      <3> QED BY <1>7, <1>n, <3>1, <3>2, <3>3, Parameters
    <2> QED BY <2>1, <2>2
  <1> QED BY <1>9, <1>10, <1>11, <1>12, <1>13, <1>15, <1>16, <1>17 DEF IInv, Schedule

-----------------------------------------------------------------------------
LEMMA StepInvariant == IInv /\ [Next]_vars => IInv'
  <1> SUFFICES ASSUME IInv, [Next]_vars PROVE IInv' OBVIOUS
  <1>1. CASE Wake
    <2>1. Booted(dash.stamp # "none") /\ (dash.stamp # "none") \in BOOLEAN
      BY <1>1 DEF Wake
    <2>2. prompt' \in BOOLEAN BY <2>1 DEF Booted
    <2> QED BY <2>1, <2>2, BootStep
  <1>2. CASE PowerCycle
    <2>1. Booted(FALSE) /\ prompt' \in BOOLEAN BY <1>2 DEF PowerCycle, Booted
    <2> QED BY <2>1, BootStep
  <1>3. CASE QuietPass BY <1>3, QuietPassStep
  <1>4. CASE KeyPass BY <1>4, KeyPassStep
  <1>5. CASE StayUp BY <1>5, StayUpStep
  <1>6. CASE GoToSleep BY <1>6, GoToSleepStep
  <1>7. CASE EnterOta \/ LeaveOta BY <1>7, OtaStep
  <1>8. CASE Worker
    BY <1>8, TakeStep, ConnectedStep, ConnectFailedStep, AnsweredStep, SilenceStep DEF Worker
  <1>9. CASE LinkLost \/ ClockWraps BY <1>9, WorldStep
  <1>10. CASE Tick BY <1>10, TickStep
  <1>11. CASE UNCHANGED vars
    <2>1. UNCHANGED <<mode, stage, settled, prompt, sinceKey, sincePoll, jobs, work, net,
                      reply, dash, made, frame, trouble>>
      BY <1>11 DEF vars, ui, data
    <2>2. TypeOK' BY <2>1 DEF IInv, TypeOK, LoopOK, WorkerOK, DataOK
    <2>3. WorkIsWhole' /\ MadeIsStamped' /\ SilentFrame' /\ OddStampInTrouble' /\ OldOnlyInTrouble'
      BY <2>1 DEF IInv, WorkIsWhole, MadeIsStamped, SilentFrame, OddStampInTrouble,
                  OldOnlyInTrouble
    <2>4. Schedule'
      BY <2>1 DEF IInv, Schedule, PollsOnly, PollsInTime, AnsweredInTime, OnSchedule
    <2> QED BY <2>2, <2>3, <2>4 DEF IInv
  <1> QED BY <1>1, <1>2, <1>3, <1>4, <1>5, <1>6, <1>7, <1>8, <1>9, <1>10, <1>11 DEF Next

LEMMA Invariant == Spec => []IInv
  BY InitInvariant, StepInvariant, PTL DEF Spec

-----------------------------------------------------------------------------
\* Counts, queue and pauses stay within their bounds.
THEOREM PowerTypeCorrect == Spec => []TypeOK
  <1>1. IInv => TypeOK BY DEF IInv
  <1> QED BY <1>1, Invariant, PTL

\* A frame without a word about age shows recent data, whatever the schedule,
\* through sleep, wake, power cycles and a wrapping clock.
THEOREM FreshIsRecentAlways == Spec => []FreshIsRecent
  <1>1. IInv => FreshIsRecent BY DEF IInv, SilentFrame, FreshIsRecent
  <1> QED BY <1>1, Invariant, PTL

\* "Stand N s alt" has a cause whenever two idle rounds fit into the age the
\* label is silent on: a poll is asked for within one and answered within the
\* next, unless something was in its way.
THEOREM OldOnlyInTroubleAlways == Spec => []OldOnlyInTrouble
  <1>1. IInv => OldOnlyInTrouble BY DEF IInv
  <1> QED BY <1>1, Invariant, PTL

-----------------------------------------------------------------------------
(* The pause after failures, a recursive function.                         *)

\* Induction by the least counterexample.
LEMMA LeastNumber ==
    ASSUME NEW T, T \subseteq Nat, T # {}
    PROVE  \E n \in T : \A m \in T : ~(m < n)
  <1> DEFINE R == {ss \in Nat \X Nat : ss[1] < ss[2]}
  <1>1. IsWellFoundedOn(R, Nat)
    BY NatLessThanWellFounded, Zenon DEF OpToRel
  <1>2. \A m, n \in T : m < n => <<m, n>> \in R
    OBVIOUS
  <1> HIDE DEF R
  <1>3. \E n \in T : \A m \in T : ~(<<m, n>> \in R)
    BY <1>1, WFMin
  <1> QED BY <1>2, <1>3

\* What holds of 0 and goes on from n to n + 1 holds of every number.
LEMMA Induction ==
    ASSUME NEW T, 0 \in T, \A n \in Nat : n \in T => n + 1 \in T
    PROVE  Nat \subseteq T
  <1> SUFFICES ASSUME Nat \ T # {} PROVE FALSE
    OBVIOUS
  <1>1. PICK n \in Nat \ T : \A m \in Nat \ T : ~(m < n)
    BY LeastNumber
  <1>2. n # 0 /\ n - 1 \in Nat /\ n - 1 < n
    OBVIOUS
  <1>3. n - 1 \in T
    BY <1>1, <1>2
  <1> QED BY <1>2, <1>3

\* There is a function with a given first value and a given step.
Iterates(g, S, a, F) ==
    g \in [Nat -> S] /\ g[0] = a /\ \A n \in Nat : g[n + 1] = F[g[n]]

LEMMA Recursion ==
    ASSUME NEW S, NEW a \in S, NEW F \in [S -> S]
    PROVE  \E g : Iterates(g, S, a, F)
  <1> DEFINE B(n) == {h \in [0 .. n -> S] : h[0] = a /\ \A i \in 0 .. n - 1 : h[i + 1] = F[h[i]]}
             T == {n \in Nat : \E v \in S : (\E h \in B(n) : h[n] = v) /\ \A h \in B(n) : h[n] = v}
  <1>1. 0 \in T
    <2>1. [i \in 0 .. 0 |-> a] \in B(0) OBVIOUS
    <2> QED BY <2>1
  <1>2. ASSUME NEW n \in Nat, n \in T PROVE n + 1 \in T
    <2>1. PICK v \in S : (\E h \in B(n) : h[n] = v) /\ \A h \in B(n) : h[n] = v
      BY <1>2
    <2>2. PICK h \in B(n) : h[n] = v
      BY <2>1
    <2> DEFINE k == [i \in 0 .. n + 1 |-> IF i = n + 1 THEN F[v] ELSE h[i]]
    <2>3. k \in [0 .. n + 1 -> S] /\ k[0] = a /\ k[n + 1] = F[v]
      BY <2>1, <2>2
    <2>4. ASSUME NEW i \in 0 .. n PROVE k[i + 1] = F[k[i]]
      <3>1. CASE i = n BY <2>2, <3>1
      <3>2. CASE i # n
        <4>1. i \in 0 .. n - 1 /\ i + 1 \in 0 .. n /\ i + 1 # n + 1 BY <3>2
        <4> QED BY <2>2, <4>1
      <3> QED BY <3>1, <3>2
    <2>5. k \in B(n + 1)
      BY <2>3, <2>4
    <2>6. ASSUME NEW x \in B(n + 1) PROVE x[n + 1] = F[v]
      <3> DEFINE y == [i \in 0 .. n |-> x[i]]
      <3>1. y \in B(n)
        <4>1. y \in [0 .. n -> S] /\ y[0] = a OBVIOUS
        <4>2. \A i \in 0 .. n - 1 : i \in 0 .. n /\ i + 1 \in 0 .. n OBVIOUS
        <4>3. \A i \in 0 .. n - 1 : y[i + 1] = F[y[i]] BY <4>2
        <4> QED BY <4>1, <4>3
      <3>2. y[n] = x[n] OBVIOUS
      <3>3. y[n] = v
        <4> HIDE DEF B, y
        <4> QED BY <2>1, <3>1
      <3> QED BY <3>2, <3>3
    <2>7. F[v] \in S OBVIOUS
    <2> HIDE DEF B, k
    <2> QED BY <2>3, <2>5, <2>6, <2>7
  <1>3. Nat \subseteq T
    <2> HIDE DEF T
    <2> QED BY <1>1, <1>2, Induction
  <1> DEFINE g == [n \in Nat |-> CHOOSE v \in S : \A h \in B(n) : h[n] = v]
  <1>4. ASSUME NEW n \in Nat
        PROVE  g[n] \in S /\ (\E h \in B(n) : h[n] = g[n]) /\ \A h \in B(n) : h[n] = g[n]
    <2>1. n \in T BY <1>3
    <2>2. \E v \in S : (\E h \in B(n) : h[n] = v) /\ \A h \in B(n) : h[n] = v
      BY <2>1
    <2> HIDE DEF B
    <2> QED BY <2>2
  <1>5. g \in [Nat -> S]
    BY <1>4
  <1>6. g[0] = a
    BY <1>4
  <1>7. ASSUME NEW n \in Nat PROVE g[n + 1] = F[g[n]]
    <2>1. PICK x \in B(n + 1) : x[n + 1] = g[n + 1]
      <3>1. n + 1 \in Nat OBVIOUS
      <3> HIDE DEF B, g
      <3> QED BY <1>4, <3>1
    <2> DEFINE y == [i \in 0 .. n |-> x[i]]
    <2>2. y \in B(n)
      <3>1. y \in [0 .. n -> S] /\ y[0] = a OBVIOUS
      <3>2. \A i \in 0 .. n - 1 : i \in 0 .. n /\ i + 1 \in 0 .. n OBVIOUS
      <3>3. \A i \in 0 .. n - 1 : y[i + 1] = F[y[i]] BY <3>2
      <3> QED BY <3>1, <3>3
    <2>3. y[n] = x[n] OBVIOUS
    <2>4. y[n] = g[n]
      <3> HIDE DEF B, g, y
      <3> QED BY <1>4, <2>2
    <2>5. x[n + 1] = F[x[n]] OBVIOUS
    <2> HIDE DEF g, y
    <2> QED BY <2>1, <2>3, <2>4, <2>5
  <1> HIDE DEF g
  <1> QED BY <1>5, <1>6, <1>7 DEF Iterates

\* The doubling is what its definition says.
LEMMA DoublingFacts ==
    /\ Doubled(0) = 0 /\ Doubled(1) = BackoffStart
    /\ \A n \in Nat \ {0} :
          /\ Doubled(n) \in Nat
          /\ Doubled(n + 1) = IF Doubled(n) < BackoffMax THEN 2 * Doubled(n) ELSE Doubled(n)
  <1> DEFINE F == [x \in Nat |-> IF x < BackoffMax THEN 2 * x ELSE x]
             Says(d) == d = [n \in Nat |-> IF n <= 1 THEN BackoffStart ELSE
                                IF d[n - 1] < BackoffMax THEN 2 * d[n - 1] ELSE d[n - 1]]
             d == CHOOSE x : Says(x)
  <1>1. BackoffStart \in Nat /\ BackoffMax \in Nat
    BY PowerAssumption
  <1>2. F \in [Nat -> Nat]
    BY <1>1
  <1>3. PICK g : Iterates(g, Nat, BackoffStart, F)
    <2> HIDE DEF F
    <2> QED BY <1>1, <1>2, Recursion, Zenon
  <1> DEFINE e == [n \in Nat |-> IF n = 0 THEN BackoffStart ELSE g[n - 1]]
  <1>4. Says(e)
    <2> SUFFICES ASSUME NEW n \in Nat
                 PROVE  e[n] = IF n <= 1 THEN BackoffStart ELSE
                               IF e[n - 1] < BackoffMax THEN 2 * e[n - 1] ELSE e[n - 1]
      OBVIOUS
    <2>1. CASE n <= 1 BY <1>3, <2>1 DEF Iterates
    <2>2. CASE n > 1
      <3> DEFINE m == n - 2
      <3>1. m \in Nat /\ m + 1 = n - 1 /\ n - 1 # 0 /\ n # 0 /\ n - 1 \in Nat BY <2>2
      <3>2. g[m + 1] = F[g[m]] /\ g[m] \in Nat BY <1>3, <3>1 DEF Iterates
      <3>3. e[n] = g[m + 1] /\ e[n - 1] = g[m] BY <3>1
      <3> HIDE DEF e, m
      <3> QED BY <2>2, <3>2, <3>3
    <2> QED BY <2>1, <2>2
  <1>5. Says(d)
    <2> HIDE DEF Says, e
    <2> QED BY <1>4
  <1>6. \A n \in Nat : d[n] = IF n <= 1 THEN BackoffStart ELSE
                              IF d[n - 1] < BackoffMax THEN 2 * d[n - 1] ELSE d[n - 1]
    <2> HIDE DEF d
    <2> QED BY <1>5
  <1>7. \A f : Doubled(f) = IF f = 0 THEN 0 ELSE d[f]
    BY DEF Doubled
  <1> HIDE DEF d
  <1>8. \A n \in Nat : d[n + 1] \in Nat
    <2> DEFINE T == {n \in Nat : d[n + 1] \in Nat}
    <2>1. 0 \in T BY <1>1, <1>6
    <2>2. ASSUME NEW n \in Nat, n \in T PROVE n + 1 \in T
      <3>1. d[(n + 1) + 1] = IF d[n + 1] < BackoffMax THEN 2 * d[n + 1] ELSE d[n + 1]
        BY <1>6
      <3>2. d[n + 1] \in Nat BY <2>2
      <3> QED BY <3>1, <3>2
    <2> HIDE DEF T
    <2>3. Nat \subseteq T BY <2>1, <2>2, Induction
    <2> QED BY <2>3 DEF T
  <1>9. ASSUME NEW n \in Nat \ {0} PROVE d[n] \in Nat
    <2>1. n - 1 \in Nat /\ (n - 1) + 1 = n OBVIOUS
    <2> QED BY <1>8, <2>1
  <1>10. \A n \in Nat \ {0} : d[n + 1] = IF d[n] < BackoffMax THEN 2 * d[n] ELSE d[n]
    BY <1>6
  <1>11. \A n \in Nat \ {0} : n + 1 # 0
    OBVIOUS
  <1>12. Doubled(0) = 0 /\ Doubled(1) = BackoffStart
    BY <1>1, <1>6, <1>7
  <1>13. ASSUME NEW n \in Nat \ {0}
         PROVE  Doubled(n) = d[n] /\ Doubled(n + 1) = d[n + 1]
    BY <1>7, <1>11
  <1> QED BY <1>9, <1>10, <1>12, <1>13

\* After the first failure the pause is the start; with every further one it
\* doubles until it is the maximum; it never shrinks, and a start above zero
\* gets to the maximum (backoffDelay in netplan.cpp), for any start and maximum.
THEOREM BackoffDoubles ==
    /\ backoffDelay(0) = 0
    /\ backoffDelay(1) = IF BackoffStart <= BackoffMax THEN BackoffStart ELSE BackoffMax
    /\ \A n \in Nat \ {0} :
          /\ backoffDelay(n + 1) = IF 2 * backoffDelay(n) <= BackoffMax
                                   THEN 2 * backoffDelay(n) ELSE BackoffMax
          /\ backoffDelay(n) <= backoffDelay(n + 1)
          /\ BackoffStart > 0 /\ n >= BackoffMax => backoffDelay(n) = BackoffMax
  <1>1. BackoffStart \in Nat /\ BackoffMax \in Nat
    BY PowerAssumption
  <1>2. /\ backoffDelay(0) = 0
        /\ backoffDelay(1) = IF BackoffStart <= BackoffMax THEN BackoffStart ELSE BackoffMax
    BY <1>1, DoublingFacts DEF backoffDelay
  <1>3. ASSUME NEW n \in Nat \ {0}
        PROVE  /\ backoffDelay(n) \in 0 .. BackoffMax
               /\ backoffDelay(n + 1) = IF 2 * backoffDelay(n) <= BackoffMax
                                        THEN 2 * backoffDelay(n) ELSE BackoffMax
    BY <1>1, DoublingFacts DEF backoffDelay
  <1> DEFINE T == {n \in Nat : BackoffStart > 0 =>
                        \/ backoffDelay(n + 1) = BackoffMax
                        \/ backoffDelay(n + 1) >= n + 1}
  <1>4. 0 \in T
    BY <1>1, <1>2
  <1>5. ASSUME NEW n \in Nat, n \in T PROVE n + 1 \in T
    <2>1. n + 1 \in Nat \ {0} OBVIOUS
    <2> DEFINE a == backoffDelay(n + 1)
               b == backoffDelay((n + 1) + 1)
    <2>2. a \in 0 .. BackoffMax /\ b = IF 2 * a <= BackoffMax THEN 2 * a ELSE BackoffMax
      BY <1>3, <2>1
    <2>3. BackoffStart > 0 => a = BackoffMax \/ a >= n + 1 BY <1>5
    <2> HIDE DEF a, b
    <2>4. BackoffStart > 0 => b = BackoffMax \/ b >= (n + 1) + 1 BY <1>1, <2>2, <2>3
    <2> QED BY <2>1, <2>4 DEF b
  <1>6. Nat \subseteq T
    <2> HIDE DEF T
    <2> QED BY <1>4, <1>5, Induction
  <1>7. ASSUME NEW n \in Nat \ {0}, BackoffStart > 0, n >= BackoffMax
        PROVE  backoffDelay(n) = BackoffMax
    <2>1. n - 1 \in T /\ (n - 1) + 1 = n BY <1>6
    <2>2. backoffDelay(n) = BackoffMax \/ backoffDelay(n) >= n BY <1>7, <2>1
    <2>3. backoffDelay(n) \in 0 .. BackoffMax BY <1>3
    <2> QED BY <1>1, <1>7, <2>2, <2>3
  <1>8. ASSUME NEW n \in Nat \ {0} PROVE backoffDelay(n) <= backoffDelay(n + 1)
    BY <1>1, <1>3
  <1> QED BY <1>2, <1>3, <1>7, <1>8
=============================================================================
