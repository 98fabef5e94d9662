--------------------------- MODULE NetClientProofs ---------------------------
(***************************************************************************)
(* Theorems about NetClient for every depth of the two queues and every    *)
(* number of presses.                                                      *)
(***************************************************************************)
EXTENDS NetClient, FiniteSetTheorems, TLAPS

\* What Append, Head and Tail do to a queue, in the form the proofs use.
LEMMA AppendFacts ==
    ASSUME NEW S, NEW s \in Seq(S), NEW e \in S
    PROVE  /\ Append(s, e) \in Seq(S)
           /\ Len(Append(s, e)) = Len(s) + 1
           /\ DOMAIN Append(s, e) = DOMAIN s \cup {Len(s) + 1}
           /\ Append(s, e)[Len(s) + 1] = e
           /\ \A i \in DOMAIN s : Append(s, e)[i] = s[i]
  OBVIOUS

\* Taking the oldest element (xQueueReceive) moves the others one place up.
LEMMA TailFacts ==
    ASSUME NEW S, NEW s \in Seq(S), s # <<>>
    PROVE  /\ Head(s) \in S /\ Head(s) = s[1] /\ 1 \in DOMAIN s
           /\ Tail(s) \in Seq(S)
           /\ Len(Tail(s)) = Len(s) - 1
           /\ \A i \in DOMAIN Tail(s) : i + 1 \in DOMAIN s /\ Tail(s)[i] = s[i + 1]
           /\ \A i \in DOMAIN s : i # 1 => /\ i - 1 \in DOMAIN Tail(s)
                                           /\ Tail(s)[i - 1] = s[i]
  OBVIOUS

\* The queues as xQueueCreate() makes them, and as a reset leaves them.
LEMMA EmptyQueues ==
    /\ <<>> \in Seq(Jobs) /\ Len(<<>>) <= JobLen
    /\ <<>> \in Seq(Verdict) /\ Len(<<>>) <= VerdictLen
  BY NetClientAssumption

\* The two bounded queues and what goes into them.
LEMMA JobFacts ==
    /\ Dash \in Jobs /\ Dash \notin Presses
    /\ \A j \in Jobs : j # Dash => j \in Presses
    /\ Presses \subseteq Jobs
    /\ 0 \in 0 .. MaxPress
    /\ \A n \in 0 .. MaxPress : n < MaxPress =>
            n + 1 \in Presses /\ n + 1 \in 0 .. MaxPress
  BY NetClientAssumption DEF Jobs, Presses, Dash

\* A verdict names a press and says yes or no.
LEMMA VerdictFacts ==
    /\ \A p \in Presses, b \in BOOLEAN : [id |-> p, ok |-> b] \in Verdict
    /\ \A v \in Verdict : v.id \in Presses /\ v.ok \in BOOLEAN
  BY DEF Verdict

-----------------------------------------------------------------------------
\* Type correctness: the variables stay within the types of hw_net.cpp and
\* the queues within their depths, whatever the two tasks do.
THEOREM TypeCorrect == Spec => []TypeOK
  <1> USE DEF shared, workers, uis, WorkerPlaces, UiPlaces, ReqPlaces
  <1>1. Init => TypeOK
    <2> SUFFICES ASSUME Init PROVE TypeOK OBVIOUS
    <2>1. resent \in [Presses -> 0 .. RetryCap]
      BY NetClientAssumption DEF Init
    <2>2. /\ jobs \in Seq(Jobs) /\ Len(jobs) <= JobLen
          /\ verdicts \in Seq(Verdict) /\ Len(verdicts) <= VerdictLen
      BY EmptyQueues DEF Init
    <2> QED BY <2>1, <2>2, JobFacts DEF Init, TypeOK
  <1>2. ASSUME TypeOK, [Next]_vars PROVE TypeOK'
    <2> USE <1>2, JobFacts DEF TypeOK
    <2>1. CASE Loop
      <3>1. CASE RequestDashTest
        BY <3>1 DEF RequestDashTest, AfterRequest
      <3>2. CASE RequestDashFlag
        BY <3>2 DEF RequestDashFlag
      <3>3. CASE RequestDashSend
        <4>1. upc' \in UiPlaces
          BY <3>3 DEF RequestDashSend, AfterRequest
        <4>2. jobs' \in Seq(Jobs) /\ Len(jobs') <= JobLen
          <5>1. CASE Len(jobs) < JobLen
            BY <3>3, <5>1, AppendFacts, NetClientAssumption DEF RequestDashSend
          <5>2. CASE ~(Len(jobs) < JobLen)
            BY <3>3, <5>2 DEF RequestDashSend
          <5> QED BY <5>1, <5>2
        <4> QED BY <3>3, <4>1, <4>2 DEF RequestDashSend
      <3>4. CASE RequestDashUnflag
        BY <3>4 DEF RequestDashUnflag, AfterRequest
      <3>5. CASE NoKey \/ NotDue
        BY <3>5 DEF NoKey, NotDue
      <3>6. CASE PumpVerdict
        <4>1. /\ Tail(verdicts) \in Seq(Verdict)
              /\ Len(Tail(verdicts)) <= VerdictLen
              /\ Head(verdicts).id \in Presses
          BY <3>6, TailFacts, VerdictFacts, NetClientAssumption DEF PumpVerdict
        <4> QED BY <3>6, <4>1 DEF PumpVerdict
      <3>7. CASE PumpReply \/ PumpDone
        <4>1. CASE PumpReply BY <4>1 DEF PumpReply
        <4>2. CASE PumpDone BY <4>2 DEF PumpDone
        <4> QED BY <3>7, <4>1, <4>2
      <3>8. CASE StayAwake \/ BusyFlagClear \/ JobsWaiting
        BY <3>8 DEF StayAwake, BusyFlagClear, JobsWaiting
      <3>9. CASE GoToSleep
        <4>1. /\ jobs' \in Seq(Jobs) /\ Len(jobs') <= JobLen
              /\ verdicts' \in Seq(Verdict) /\ Len(verdicts') <= VerdictLen
          BY <3>9, EmptyQueues DEF GoToSleep
        <4> QED BY <3>9, <4>1 DEF GoToSleep
      <3> QED BY <2>1, <3>1, <3>2, <3>3, <3>4, <3>5, <3>6, <3>7, <3>8, <3>9
              DEF Loop, RequestDash
    <2>2. CASE User
      <3>1. CASE SendIntent
        <4>1. pressed' \in Presses /\ pressed' \in Jobs /\ pressed' \in 0 .. MaxPress
          BY <3>1 DEF SendIntent
        <4>2. jobs' \in Seq(Jobs) /\ Len(jobs') <= JobLen
          <5>1. CASE Len(jobs) < JobLen
            <6>1. jobs' = Append(jobs, pressed')
              BY <3>1, <5>1 DEF SendIntent
            <6> QED BY <4>1, <5>1, <6>1, AppendFacts, NetClientAssumption
          <5>2. CASE ~(Len(jobs) < JobLen)
            BY <3>1, <5>2, <4>1 DEF SendIntent
          <5> QED BY <5>1, <5>2
        <4> QED BY <3>1, <4>1, <4>2 DEF SendIntent
      <3>2. CASE QuietKey \/ EnterOta \/ LeaveOta \/ Wake
        BY <3>2 DEF QuietKey, EnterOta, LeaveOta, Wake
      <3> QED BY <2>2, <3>1, <3>2 DEF User
    <2>3. CASE Worker
      <3>1. CASE FirstConnect
        BY <3>1 DEF FirstConnect
      <3>2. CASE TakeJob
        <4>1. /\ hand' \in Jobs
              /\ jobs' \in Seq(Jobs)
              /\ Len(jobs') <= JobLen
          BY <3>2, TailFacts, NetClientAssumption DEF TakeJob
        <4> QED BY <3>2, <4>1 DEF TakeJob
      <3>3. CASE SetBusy
        BY <3>3 DEF SetBusy
      <3>4. CASE ClearDashPending
        BY <3>4 DEF ClearDashPending
      <3>5. CASE StartJob \/ DeadEnd
        <4>1. CASE StartJob BY <4>1 DEF StartJob
        <4>2. CASE DeadEnd BY <4>2 DEF DeadEnd
        <4> QED BY <3>5, <4>1, <4>2
      <3>6. CASE HttpAnswer
        BY <3>6 DEF HttpAnswer
      <3>7. CASE HttpSilence
        BY <3>7 DEF HttpSilence
      <3>8. CASE Reflag \/ Unflag
        BY <3>8 DEF Reflag, Unflag
      <3>9. CASE Resend
        <4>1. CountResend \in [Presses -> 0 .. RetryCap]
          BY NetClientAssumption DEF CountResend
        <4>2. jobs' \in Seq(Jobs) /\ Len(jobs') <= JobLen
          <5>1. CASE Len(jobs) < JobLen
            BY <3>9, <5>1, AppendFacts, NetClientAssumption DEF Resend
          <5>2. CASE ~(Len(jobs) < JobLen)
            BY <3>9, <5>2 DEF Resend
          <5> QED BY <5>1, <5>2
        <4> QED BY <3>9, <4>1, <4>2 DEF Resend
      <3>10. CASE Deliver
        <4>1. hand # Dash => [id |-> hand, ok |-> ok] \in Verdict
          BY VerdictFacts
        <4>2. verdicts' \in Seq(Verdict) /\ Len(verdicts') <= VerdictLen
          <5>1. CASE hand # Dash /\ Len(verdicts) < VerdictLen
            <6>1. verdicts' = Append(verdicts, [id |-> hand, ok |-> ok])
              BY <3>10, <5>1 DEF Deliver
            <6> QED BY <4>1, <5>1, <6>1, AppendFacts, NetClientAssumption
          <5>2. CASE ~(hand # Dash /\ Len(verdicts) < VerdictLen)
            BY <3>10, <5>2, <4>1 DEF Deliver
          <5> QED BY <5>1, <5>2
        <4> QED BY <3>10, <4>2 DEF Deliver
      <3>11. CASE ClearBusy
        BY <3>11 DEF ClearBusy
      <3> QED BY <2>3, <3>1, <3>2, <3>3, <3>4, <3>5, <3>6, <3>7, <3>8, <3>9,
                 <3>10, <3>11 DEF Worker, RunJob
    <2>4. CASE UNCHANGED vars BY <2>4 DEF vars
    <2> QED BY <2>1, <2>2, <2>3, <2>4 DEF Next
  <1> QED BY <1>1, <1>2, PTL DEF Spec

-----------------------------------------------------------------------------
\* Job j is somewhere in queue s.
Waits(j, s) == \E i \in DOMAIN s : s[i] = j

\* Putting a job in the queue makes that job wait, and no other.
LEMMA WaitsAppend ==
    ASSUME NEW s \in Seq(Jobs), NEW e \in Jobs, NEW j
    PROVE  Waits(j, Append(s, e)) <=> Waits(j, s) \/ j = e
  BY AppendFacts DEF Waits

\* Taking a job leaves every other one waiting.
LEMMA WaitsTail ==
    ASSUME NEW s \in Seq(Jobs), s # <<>>, NEW j
    PROVE  Waits(j, s) => Head(s) = j \/ Waits(j, Tail(s))
  <1> SUFFICES ASSUME NEW i \in DOMAIN s, s[i] = j, Head(s) # j
               PROVE  Waits(j, Tail(s))
    BY DEF Waits
  <1>1. i # 1 BY TailFacts
  <1> QED BY <1>1, TailFacts DEF Waits

\* The step of the invariant that g_dashPending always has something behind
\* it.  It needs only that the queue is a queue.
LEMMA DashPendingBackedStep ==
    ASSUME TypeOK, DashPendingBacked, [Next]_vars
    PROVE  DashPendingBacked'
  <1> DEFINE Backed == \/ Waits(Dash, jobs)
                       \/ req \in {"send", "unset"}
                       \/ hand = Dash /\ wpc \in {"taken", "clear", "resend", "unflag"}
         Snapshot == wpc \in {"clear", "reflag", "unflag"} => hand = Dash
  <1>0. Snapshot'
    <2> USE DEF shared, workers, uis, DashPendingBacked
    <2>1. CASE Loop
      BY <2>1 DEF Loop, RequestDash, RequestDashTest, RequestDashFlag,
                  RequestDashSend, RequestDashUnflag, NoKey, NotDue, PumpVerdict,
                  PumpReply, PumpDone, StayAwake, BusyFlagClear, JobsWaiting,
                  GoToSleep
    <2>2. CASE User
      BY <2>2 DEF User, QuietKey, SendIntent, EnterOta, LeaveOta, Wake
    <2>3. CASE Worker
      BY <2>3 DEF Worker, RunJob, FirstConnect, TakeJob, SetBusy,
                  ClearDashPending, StartJob, DeadEnd, HttpAnswer, HttpSilence,
                  Reflag, Resend, Unflag, Deliver, ClearBusy
    <2>4. CASE UNCHANGED vars
      BY <2>4 DEF vars
    <2> QED BY <2>1, <2>2, <2>3, <2>4 DEF Next
  <1>1. dashPending => Backed
    BY DEF DashPendingBacked, Waits
  <1>2. DashPendingBacked' <=> (dashPending' => Backed')
    BY <1>0 DEF DashPendingBacked, Waits
  <1>3. ASSUME jobs' = jobs PROVE Waits(Dash, jobs)' = Waits(Dash, jobs)
    BY <1>3 DEF Waits
  <1>4. /\ jobs \in Seq(Jobs) /\ Dash \in Jobs
        /\ req \in ReqPlaces /\ wpc \in WorkerPlaces /\ hand \in Jobs
    BY JobFacts DEF TypeOK
  <1> USE DEF shared, workers, uis
  <1>5. CASE Loop
    <2>1. CASE RequestDashTest \/ RequestDashFlag
      BY <1>1, <1>2, <1>3, <2>1 DEF RequestDashTest, RequestDashFlag
    <2>2. CASE RequestDashSend
      <3>1. CASE Len(jobs) < JobLen
        <4>1. jobs' = Append(jobs, Dash) BY <2>2, <3>1 DEF RequestDashSend
        <4>2. Waits(Dash, jobs') BY <1>4, <4>1, WaitsAppend
        <4> QED BY <1>2, <4>2 DEF Waits
      <3>2. CASE ~(Len(jobs) < JobLen)
        BY <1>2, <2>2, <3>2 DEF RequestDashSend
      <3> QED BY <3>1, <3>2
    <2>3. CASE RequestDashUnflag
      BY <1>2, <2>3 DEF RequestDashUnflag
    <2>4. CASE NoKey \/ NotDue \/ PumpVerdict \/ PumpReply \/ PumpDone
      BY <1>1, <1>2, <1>3, <2>4
         DEF NoKey, NotDue, PumpVerdict, PumpReply, PumpDone
    <2>5. CASE StayAwake \/ BusyFlagClear \/ JobsWaiting
      BY <1>1, <1>2, <1>3, <2>5 DEF StayAwake, BusyFlagClear, JobsWaiting
    <2>6. CASE GoToSleep
      BY <1>2, <2>6 DEF GoToSleep
    <2> QED BY <1>5, <2>1, <2>2, <2>3, <2>4, <2>5, <2>6 DEF Loop, RequestDash
  <1>6. CASE User
    <2>1. CASE SendIntent
      <3>1. CASE Len(jobs) < JobLen
        <4>1. jobs' = Append(jobs, pressed') /\ pressed' \in Jobs
          BY <2>1, <3>1, JobFacts DEF SendIntent, TypeOK
        <4>2. Waits(Dash, jobs) => Waits(Dash, jobs') BY <1>4, <4>1, WaitsAppend
        <4> QED BY <1>1, <1>2, <2>1, <4>2 DEF SendIntent, Waits
      <3>2. CASE ~(Len(jobs) < JobLen)
        BY <1>1, <1>2, <1>3, <2>1, <3>2 DEF SendIntent
      <3> QED BY <3>1, <3>2
    <2>2. CASE QuietKey \/ EnterOta \/ LeaveOta \/ Wake
      BY <1>1, <1>2, <1>3, <2>2 DEF QuietKey, EnterOta, LeaveOta, Wake
    <2> QED BY <1>6, <2>1, <2>2 DEF User
  <1>7. CASE Worker
    <2>1. CASE TakeJob
      <3>1. Waits(Dash, jobs) => hand' = Dash \/ Waits(Dash, jobs')
        BY <1>4, <2>1, WaitsTail DEF TakeJob
      <3> QED BY <1>1, <1>2, <2>1, <3>1 DEF TakeJob, Waits
    <2>2. CASE FirstConnect \/ SetBusy \/ StartJob
      BY <1>1, <1>2, <1>3, <2>2 DEF FirstConnect, SetBusy, StartJob
    <2>3. CASE ClearDashPending \/ Unflag
      BY <1>2, <2>3 DEF ClearDashPending, Unflag
    <2>4. CASE DeadEnd \/ HttpAnswer \/ HttpSilence
      BY <1>1, <1>2, <1>3, <2>4 DEF DeadEnd, HttpAnswer, HttpSilence
    <2>5. CASE Reflag
      <3>1. hand = Dash
        BY <2>5 DEF Reflag, DashPendingBacked
      <3> QED BY <1>2, <2>5, <3>1 DEF Reflag
    <2>6. CASE Resend
      <3>1. CASE Len(jobs) < JobLen
        <4>1. jobs' = Append(jobs, hand) BY <2>6, <3>1 DEF Resend
        <4>2. Waits(Dash, jobs) \/ hand = Dash => Waits(Dash, jobs')
          BY <1>4, <4>1, WaitsAppend
        <4> QED BY <1>1, <1>2, <2>6, <4>2 DEF Resend, Waits
      <3>2. CASE ~(Len(jobs) < JobLen)
        BY <1>1, <1>2, <1>3, <2>6, <3>2 DEF Resend
      <3> QED BY <3>1, <3>2
    <2>7. CASE Deliver \/ ClearBusy
      BY <1>1, <1>2, <1>3, <2>7 DEF Deliver, ClearBusy
    <2> QED BY <1>7, <2>1, <2>2, <2>3, <2>4, <2>5, <2>6, <2>7
            DEF Worker, RunJob
  <1>8. CASE UNCHANGED vars
    BY <1>1, <1>2, <1>3, <1>8 DEF vars
  <1> QED BY <1>5, <1>6, <1>7, <1>8 DEF Next

\* g_dashPending is never up with nothing behind it, so a poll is never folded
\* into a request that does not exist: for every queue depth, under every
\* interleaving of requestDash() with the worker's take, retry and rollback.
THEOREM DashPendingAlwaysBacked == Spec => []DashPendingBacked
  <1>1. Init => DashPendingBacked
    BY DEF Init, DashPendingBacked
  <1>2. TypeOK /\ DashPendingBacked /\ [Next]_vars => DashPendingBacked'
    BY DashPendingBackedStep
  <1> QED BY <1>1, <1>2, TypeCorrect, PTL DEF Spec

-----------------------------------------------------------------------------
(* A press is in one place.                                                *)

PressesIn(s) == {s[i] : i \in DOMAIN s} \ {Dash}
IdsIn(v)     == {v[i].id : i \in DOMAIN v}
PressOnce(s) == \A i, j \in DOMAIN s : s[i] = s[j] /\ s[i] # Dash => i = j
IdOnce(v)    == \A i, j \in DOMAIN v : v[i].id = v[j].id => i = j

\* Queueing a press that is not queued keeps every press queued once.
LEMMA JobQueued ==
    ASSUME NEW s \in Seq(Jobs), NEW e \in Jobs
    PROVE  /\ PressesIn(Append(s, e)) = PressesIn(s) \cup ({e} \ {Dash})
           /\ PressOnce(s) /\ e \notin PressesIn(s) => PressOnce(Append(s, e))
  <1>1. PressesIn(Append(s, e)) = PressesIn(s) \cup ({e} \ {Dash})
    <2>1. {Append(s, e)[i] : i \in DOMAIN Append(s, e)}
            = {s[i] : i \in DOMAIN s} \cup {e}
      BY AppendFacts
    <2> QED BY <2>1 DEF PressesIn
  <1>2. ASSUME PressOnce(s), e \notin PressesIn(s) PROVE PressOnce(Append(s, e))
    BY <1>2, AppendFacts DEF PressOnce, PressesIn
  <1> QED BY <1>1, <1>2

\* Taking a job takes that press out, and it was there once.
LEMMA JobTaken ==
    ASSUME NEW s \in Seq(Jobs), s # <<>>, PressOnce(s)
    PROVE  /\ PressesIn(Tail(s)) = PressesIn(s) \ {Head(s)}
           /\ PressOnce(Tail(s))
           /\ Head(s) # Dash => Head(s) \in PressesIn(s)
  <1>1. \A i \in DOMAIN Tail(s) : /\ i + 1 \in DOMAIN s /\ i + 1 # 1
                                  /\ Tail(s)[i] = s[i + 1]
    BY TailFacts
  <1>2. PressOnce(Tail(s))
    BY <1>1, TailFacts DEF PressOnce
  <1>3. PressesIn(Tail(s)) \subseteq PressesIn(s) \ {Head(s)}
    BY <1>1, TailFacts DEF PressOnce, PressesIn
  <1>4. ASSUME NEW i \in DOMAIN s, s[i] # Head(s), s[i] # Dash
        PROVE  s[i] \in PressesIn(Tail(s))
    <2>1. i - 1 \in DOMAIN Tail(s) /\ Tail(s)[i - 1] = s[i]
      BY <1>4, TailFacts
    <2> QED BY <1>4, <2>1 DEF PressesIn
  <1>5. Head(s) # Dash => Head(s) \in PressesIn(s)
    BY TailFacts DEF PressesIn
  <1>6. PressesIn(s) \ {Head(s)} \subseteq PressesIn(Tail(s))
    BY <1>4 DEF PressesIn
  <1> QED BY <1>2, <1>3, <1>5, <1>6

\* The same for a verdict about a press that has none waiting.
LEMMA VerdictQueued ==
    ASSUME NEW v \in Seq(Verdict), NEW e \in Verdict
    PROVE  /\ IdsIn(Append(v, e)) = IdsIn(v) \cup {e.id}
           /\ IdOnce(v) /\ e.id \notin IdsIn(v) => IdOnce(Append(v, e))
  <1>1. IdsIn(Append(v, e)) = IdsIn(v) \cup {e.id}
    BY AppendFacts DEF IdsIn
  <1>2. ASSUME IdOnce(v), e.id \notin IdsIn(v) PROVE IdOnce(Append(v, e))
    BY <1>2, AppendFacts DEF IdOnce, IdsIn
  <1> QED BY <1>1, <1>2

\* Reading a verdict takes out the only one about its press.
LEMMA VerdictRead ==
    ASSUME NEW v \in Seq(Verdict), v # <<>>, IdOnce(v)
    PROVE  /\ IdsIn(Tail(v)) = IdsIn(v) \ {Head(v).id}
           /\ IdOnce(Tail(v))
           /\ Head(v).id \in IdsIn(v)
  <1>1. \A i \in DOMAIN Tail(v) : /\ i + 1 \in DOMAIN v /\ i + 1 # 1
                                  /\ Tail(v)[i] = v[i + 1]
    BY TailFacts
  <1>2. IdOnce(Tail(v))
    BY <1>1, TailFacts DEF IdOnce
  <1>3. IdsIn(Tail(v)) \subseteq IdsIn(v) \ {Head(v).id}
    BY <1>1, TailFacts DEF IdOnce, IdsIn
  <1>4. ASSUME NEW i \in DOMAIN v, v[i].id # Head(v).id
        PROVE  v[i].id \in IdsIn(Tail(v))
    <2>1. i - 1 \in DOMAIN Tail(v) /\ Tail(v)[i - 1] = v[i]
      BY <1>4, TailFacts
    <2> QED BY <2>1 DEF IdsIn
  <1>5. Head(v).id \in IdsIn(v)
    BY TailFacts DEF IdsIn
  <1>6. IdsIn(v) \ {Head(v).id} \subseteq IdsIn(Tail(v))
    BY <1>4 DEF IdsIn
  <1> QED BY <1>2, <1>3, <1>5, <1>6

\* OnePlace in terms of the lemmas' operators, with the pieces named.
OnePlaceParts ==
    /\ PressOnce(jobs) /\ IdOnce(verdicts)
    /\ QueuedPresses \cap PressInHand = {}
    /\ QueuedPresses \cap VerdictIds = {}
    /\ PressInHand \cap VerdictIds = {}
    /\ (QueuedPresses \cup PressInHand \cup VerdictIds)
            \cap (heard \cup refused) = {}
    /\ heard \cap refused = {}
    /\ QueuedPresses \cup PressInHand \cup VerdictIds \cup heard \cup refused
            \subseteq 1 .. pressed

\* The two forms say the same.
LEMMA OnePlaceSplit == OnePlace <=> OnePlaceParts
  BY DEF OnePlace, OnePlaceParts, Owed, PressOnce, IdOnce

\* The step of the invariant: each action moves a press from one place to the
\* next, and only SendIntent brings in a new one.
LEMMA OnePlaceStep ==
    ASSUME TypeOK, OnePlace, [Next]_vars
    PROVE  OnePlace'
  <1>0. OnePlaceParts BY OnePlaceSplit
  <1> SUFFICES OnePlaceParts'
    BY DEF OnePlace, OnePlaceParts, Owed, PressOnce, IdOnce
  <1> DEFINE Settled == heard \cup refused
  <1>1. /\ QueuedPresses = PressesIn(jobs) /\ QueuedPresses' = PressesIn(jobs')
        /\ VerdictIds = IdsIn(verdicts) /\ VerdictIds' = IdsIn(verdicts')
    BY DEF QueuedPresses, VerdictIds, PressesIn, IdsIn
  <1>2. /\ jobs \in Seq(Jobs) /\ verdicts \in Seq(Verdict) /\ hand \in Jobs
        /\ ok \in BOOLEAN /\ pressed \in 0 .. MaxPress /\ Dash \in Jobs
    BY JobFacts DEF TypeOK
  <1>3. ASSUME UNCHANGED <<jobs, verdicts, PressInHand, heard, refused, pressed>>
        PROVE  OnePlaceParts'
    BY <1>0, <1>1, <1>3 DEF OnePlaceParts
  <1>4. ASSUME UNCHANGED <<wpc, hand>> PROVE PressInHand' = PressInHand
    BY <1>4 DEF PressInHand, Holding
  <1>5. ASSUME jobs' = Append(jobs, Dash),
               UNCHANGED <<verdicts, PressInHand, heard, refused, pressed>>
        PROVE  OnePlaceParts'
    <2>1. Dash \notin PressesIn(jobs) BY DEF PressesIn
    <2>2. PressesIn(jobs') = PressesIn(jobs) /\ PressOnce(jobs')
      BY <1>0, <1>2, <1>5, <2>1, JobQueued DEF OnePlaceParts
    <2> QED BY <1>0, <1>1, <1>5, <2>2 DEF OnePlaceParts
  <1> USE DEF shared, workers, uis
  <1>6. CASE Loop
    <2>1. CASE RequestDashSend
      <3>1. CASE Len(jobs) < JobLen
        BY <1>4, <1>5, <2>1, <3>1 DEF RequestDashSend
      <3>2. CASE ~(Len(jobs) < JobLen)
        BY <1>3, <1>4, <2>1, <3>2 DEF RequestDashSend
      <3> QED BY <3>1, <3>2
    <2>2. CASE PumpVerdict
      <3>1. /\ IdsIn(verdicts') = IdsIn(verdicts) \ {Head(verdicts).id}
            /\ IdOnce(verdicts') /\ Head(verdicts).id \in IdsIn(verdicts)
        BY <1>0, <1>2, <2>2, VerdictRead DEF PumpVerdict, OnePlaceParts
      <3>2. PressInHand' = PressInHand BY <1>4, <2>2 DEF PumpVerdict
      <3> QED BY <1>0, <1>1, <2>2, <3>1, <3>2 DEF PumpVerdict, OnePlaceParts
    <2>3. CASE GoToSleep
      <3>1. PressesIn(jobs') = {} /\ IdsIn(verdicts') = {}
            /\ PressOnce(jobs') /\ IdOnce(verdicts')
        BY <2>3 DEF GoToSleep, PressesIn, IdsIn, PressOnce, IdOnce
      <3>2. PressInHand' = {}
        BY <2>3 DEF GoToSleep, PressInHand, Holding
      <3> QED BY <1>0, <1>1, <2>3, <3>1, <3>2 DEF GoToSleep, OnePlaceParts
    <2>4. CASE RequestDashTest \/ RequestDashFlag \/ RequestDashUnflag
      BY <1>3, <1>4, <2>4
         DEF RequestDashTest, RequestDashFlag, RequestDashUnflag
    <2>5. CASE NoKey \/ NotDue \/ PumpReply \/ PumpDone
      BY <1>3, <1>4, <2>5 DEF NoKey, NotDue, PumpReply, PumpDone
    <2>6. CASE StayAwake \/ BusyFlagClear \/ JobsWaiting
      BY <1>3, <1>4, <2>6 DEF StayAwake, BusyFlagClear, JobsWaiting
    <2> QED BY <1>6, <2>1, <2>2, <2>3, <2>4, <2>5, <2>6 DEF Loop, RequestDash
  <1>7. CASE User
    <2>1. CASE SendIntent
      <3>1. /\ pressed' \in Jobs /\ pressed' # Dash
            /\ pressed' \notin 1 .. pressed
            /\ 1 .. pressed' = (1 .. pressed) \cup {pressed'}
        BY <1>2, <2>1, JobFacts, NetClientAssumption DEF SendIntent, Dash
      <3>2. PressInHand' = PressInHand BY <1>4, <2>1 DEF SendIntent
      <3>3. CASE Len(jobs) < JobLen
        <4>1. jobs' = Append(jobs, pressed') BY <2>1, <3>3 DEF SendIntent
        <4>2. pressed' \notin PressesIn(jobs)
          BY <1>0, <1>1, <3>1 DEF OnePlaceParts
        <4>3. PressesIn(jobs') = PressesIn(jobs) \cup {pressed'}
              /\ PressOnce(jobs')
          BY <1>0, <1>2, <3>1, <4>1, <4>2, JobQueued DEF OnePlaceParts
        <4> QED BY <1>0, <1>1, <2>1, <3>1, <3>2, <3>3, <4>3
                DEF SendIntent, OnePlaceParts
      <3>4. CASE ~(Len(jobs) < JobLen)
        BY <1>0, <1>1, <2>1, <3>1, <3>2, <3>4 DEF SendIntent, OnePlaceParts
      <3> QED BY <3>3, <3>4
    <2>2. CASE QuietKey \/ EnterOta \/ LeaveOta \/ Wake
      BY <1>3, <1>4, <2>2 DEF QuietKey, EnterOta, LeaveOta, Wake
    <2> QED BY <1>7, <2>1, <2>2 DEF User
  <1>8. CASE Worker
    <2>1. CASE TakeJob
      <3>1. /\ PressesIn(jobs') = PressesIn(jobs) \ {Head(jobs)}
            /\ PressOnce(jobs')
            /\ Head(jobs) # Dash => Head(jobs) \in PressesIn(jobs)
        BY <1>0, <1>2, <2>1, JobTaken DEF TakeJob, OnePlaceParts
      <3>2. PressInHand' = {Head(jobs)} \ {Dash} /\ PressInHand = {}
        BY <2>1 DEF TakeJob, PressInHand, Holding
      <3> QED BY <1>0, <1>1, <2>1, <3>1, <3>2 DEF TakeJob, OnePlaceParts
    <2>2. CASE Resend
      <3>1. CASE Len(jobs) < JobLen
        <4>1. jobs' = Append(jobs, hand) BY <2>2, <3>1 DEF Resend
        <4>2. PressInHand = {hand} \ {Dash} /\ PressInHand' = {}
          BY <2>2, <3>1 DEF Resend, PressInHand, Holding
        <4>3. hand \notin PressesIn(jobs)
          BY <1>0, <1>1, <4>2 DEF OnePlaceParts, PressesIn
        <4>4. PressesIn(jobs') = PressesIn(jobs) \cup ({hand} \ {Dash})
              /\ PressOnce(jobs')
          BY <1>0, <1>2, <4>1, <4>3, JobQueued DEF OnePlaceParts
        <4> QED BY <1>0, <1>1, <2>2, <4>2, <4>4 DEF Resend, OnePlaceParts
      <3>2. CASE ~(Len(jobs) < JobLen)
        <4>1. PressInHand' = PressInHand
          BY <2>2, <3>2 DEF Resend, PressInHand, Holding
        <4> QED BY <1>3, <2>2, <3>2, <4>1 DEF Resend
      <3> QED BY <3>1, <3>2
    <2>3. CASE Deliver
      <3>1. PressInHand = {hand} \ {Dash} /\ PressInHand' = {}
        BY <2>3 DEF Deliver, PressInHand, Holding
      <3>2. CASE hand # Dash /\ Len(verdicts) < VerdictLen
        <4> DEFINE v == [id |-> hand, ok |-> ok]
        <4>1. verdicts' = Append(verdicts, v) BY <2>3, <3>2 DEF Deliver
        <4>2. v \in Verdict /\ v.id = hand
          BY <1>2, <3>2, JobFacts, VerdictFacts
        <4>3. v.id \notin IdsIn(verdicts)
          BY <1>0, <1>1, <3>1, <3>2, <4>2 DEF OnePlaceParts
        <4>4. IdsIn(verdicts') = IdsIn(verdicts) \cup {hand}
              /\ IdOnce(verdicts')
          BY <1>0, <1>2, <4>1, <4>2, <4>3, VerdictQueued DEF OnePlaceParts
        <4> QED BY <1>0, <1>1, <2>3, <3>1, <3>2, <4>4 DEF Deliver, OnePlaceParts
      <3>3. CASE ~(hand # Dash /\ Len(verdicts) < VerdictLen)
        <4>1. verdicts' = verdicts BY <2>3, <3>3 DEF Deliver
        <4> QED BY <1>0, <1>1, <2>3, <3>1, <4>1 DEF Deliver, OnePlaceParts
      <3> QED BY <3>2, <3>3
    <2>4. CASE \/ FirstConnect \/ SetBusy \/ ClearDashPending \/ StartJob
               \/ DeadEnd \/ HttpAnswer \/ HttpSilence \/ Reflag \/ Unflag
      <3>1. PressInHand' = PressInHand
        BY <2>4 DEF FirstConnect, SetBusy, ClearDashPending, StartJob, DeadEnd,
                    HttpAnswer, HttpSilence, Reflag, Unflag, PressInHand, Holding
      <3>2. UNCHANGED <<jobs, verdicts, heard, refused, pressed>>
        BY <2>4 DEF FirstConnect, SetBusy, ClearDashPending, StartJob, DeadEnd,
                    HttpAnswer, HttpSilence, Reflag, Unflag
      <3> QED BY <1>3, <3>1, <3>2
    <2>5. CASE ClearBusy
      <3>1. PressInHand' = PressInHand
        BY <2>5 DEF ClearBusy, PressInHand, Holding
      <3> QED BY <1>3, <2>5, <3>1 DEF ClearBusy
    <2> QED BY <1>8, <2>1, <2>2, <2>3, <2>4, <2>5 DEF Worker, RunJob
  <1>9. CASE UNCHANGED vars
    BY <1>3, <1>4, <1>9 DEF vars
  <1> QED BY <1>6, <1>7, <1>8, <1>9 DEF Next

\* An accepted press is never in two places and never settled twice, however
\* the worker's retry, the pump and the sleep interleave.
THEOREM OnePlaceAlways == Spec => []OnePlace
  <1>1. Init => OnePlace
    BY DEF Init, OnePlace, Owed, QueuedPresses, PressInHand, Holding, VerdictIds
  <1>2. TypeOK /\ OnePlace /\ [Next]_vars => OnePlace'
    BY OnePlaceStep
  <1> QED BY <1>1, <1>2, TypeCorrect, PTL DEF Spec

-----------------------------------------------------------------------------
(* What a step can do to the presses.                                      *)

\* Nothing about the presses changes.
Idle == UNCHANGED <<jobs, verdicts, PressInHand, pressed, refused, heard,
                    acked, resent>>

\* A snapshot request is queued, by the UI task or by the worker's retry.
DashQueued ==
    /\ jobs' = Append(jobs, Dash)
    /\ UNCHANGED <<verdicts, PressInHand, pressed, refused, heard, acked, resent>>

\* The worker puts the press in its hand back at the end of the queue.
PressPutBack ==
    /\ hand # Dash /\ Holding /\ ~Holding'
    /\ jobs' = Append(jobs, hand) /\ resent' = CountResend
    /\ UNCHANGED <<verdicts, pressed, refused, heard, acked>>

\* Every step of the two tasks is one of these, so that the proofs below look
\* at eight kinds of step where Next has thirty.
LEMMA KindsOfStep ==
    ASSUME [Next]_vars
    PROVE  \/ Idle \/ DashQueued \/ SendIntent \/ PumpVerdict \/ GoToSleep
           \/ TakeJob \/ PressPutBack \/ Deliver \/ HttpAnswer
  <1> USE DEF shared, workers, uis, Idle, PressInHand, Holding
  <1>1. CASE Loop
    <2>1. CASE RequestDash
      BY <2>1 DEF RequestDash, RequestDashTest, RequestDashFlag, RequestDashSend,
                  RequestDashUnflag, DashQueued
    <2>2. CASE NoKey \/ NotDue \/ PumpReply \/ PumpDone
      BY <2>2 DEF NoKey, NotDue, PumpReply, PumpDone
    <2>3. CASE StayAwake \/ BusyFlagClear \/ JobsWaiting
      BY <2>3 DEF StayAwake, BusyFlagClear, JobsWaiting
    <2> QED BY <1>1, <2>1, <2>2, <2>3 DEF Loop
  <1>2. CASE User
    BY <1>2 DEF User, QuietKey, EnterOta, LeaveOta, Wake
  <1>3. CASE Worker
    <2>1. CASE FirstConnect \/ SetBusy \/ ClearDashPending \/ StartJob \/ DeadEnd
      BY <2>1 DEF FirstConnect, SetBusy, ClearDashPending, StartJob, DeadEnd
    <2>2. CASE HttpSilence \/ Reflag \/ Unflag \/ ClearBusy
      BY <2>2 DEF HttpSilence, Reflag, Unflag, ClearBusy
    <2>3. CASE Resend
      <3>1. CASE Len(jobs) < JobLen /\ hand = Dash
        BY <2>3, <3>1 DEF Resend, DashQueued, CountResend
      <3>2. CASE Len(jobs) < JobLen /\ hand # Dash
        BY <2>3, <3>2 DEF Resend, PressPutBack
      <3>3. CASE ~(Len(jobs) < JobLen)
        BY <2>3, <3>3 DEF Resend
      <3> QED BY <3>1, <3>2, <3>3
    <2> QED BY <1>3, <2>1, <2>2, <2>3 DEF Worker, RunJob
  <1>4. CASE UNCHANGED vars BY <1>4 DEF vars
  <1> QED BY <1>1, <1>2, <1>3, <1>4 DEF Next

-----------------------------------------------------------------------------
(* Verdicts say what the gateway said.                                     *)

\* The static Reply is about the job in hand: before runJob() resets it no
\* answer can have come, from then on it says yes exactly if the gateway did.
\* No press that still waits has been answered with a yes.
ReplyIsAboutHand ==
    /\ wpc \in {"run", "reflag", "resend"} => ok = FALSE
    /\ hand # Dash /\ wpc \in {"taken", "clear", "start", "run", "reflag", "resend"}
            => hand \notin acked
    /\ hand # Dash /\ wpc = "deliver" => (ok <=> hand \in acked)
    /\ wpc = "unflag" => hand = Dash
    /\ acked \cap QueuedPresses = {}
    /\ acked \subseteq 1 .. pressed

\* The invariant that carries VerdictTruthful.
TruthInv == VerdictTruthful /\ ReplyIsAboutHand

\* The step of that invariant: the answer reaches the Reply and the history at
\* once, and only Deliver copies the Reply.
LEMMA TruthStep ==
    ASSUME TypeOK, OnePlace, TruthInv, [Next]_vars
    PROVE  TruthInv'
  <1>1. /\ jobs \in Seq(Jobs) /\ verdicts \in Seq(Verdict) /\ hand \in Jobs
        /\ ok \in BOOLEAN /\ pressed \in 0 .. MaxPress /\ Dash \in Jobs
        /\ wpc \in WorkerPlaces
    BY JobFacts DEF TypeOK
  <1>2. OnePlaceParts BY OnePlaceSplit
  <1>3. QueuedPresses = PressesIn(jobs) /\ QueuedPresses' = PressesIn(jobs')
    BY DEF QueuedPresses, PressesIn
  <1>4. ASSUME UNCHANGED <<jobs, verdicts, hand, wpc, ok, acked, pressed>>
        PROVE  TruthInv'
    BY <1>4 DEF TruthInv, ReplyIsAboutHand, VerdictTruthful, QueuedPresses
  <1>5. ASSUME jobs' = Append(jobs, Dash),
               UNCHANGED <<verdicts, hand, wpc, ok, acked, pressed>>
        PROVE  TruthInv'
    <2>1. PressesIn(jobs') = PressesIn(jobs)
      BY <1>1, <1>5, JobQueued
    <2> QED BY <1>3, <1>5, <2>1 DEF TruthInv, ReplyIsAboutHand, VerdictTruthful
  <1> USE DEF shared, workers, uis
  <1>6. CASE Loop
    <2>1. CASE RequestDash
      BY <1>4, <1>5, <2>1 DEF RequestDash, RequestDashTest, RequestDashFlag,
                              RequestDashSend, RequestDashUnflag
    <2>2. CASE PumpVerdict
      <3>1. VerdictTruthful'
        <4> SUFFICES ASSUME NEW i \in DOMAIN Tail(verdicts)
                     PROVE  Tail(verdicts)[i].ok <=> Tail(verdicts)[i].id \in acked
          BY <2>2 DEF PumpVerdict, VerdictTruthful
        <4>1. i + 1 \in DOMAIN verdicts /\ Tail(verdicts)[i] = verdicts[i + 1]
          BY <1>1, <2>2, TailFacts DEF PumpVerdict
        <4> QED BY <4>1 DEF TruthInv, VerdictTruthful
      <3> QED BY <2>2, <3>1 DEF PumpVerdict, TruthInv, ReplyIsAboutHand, QueuedPresses
    <2>3. CASE GoToSleep
      BY <2>3 DEF GoToSleep, TruthInv, ReplyIsAboutHand, VerdictTruthful, QueuedPresses
    <2>4. CASE NoKey \/ NotDue \/ PumpReply \/ PumpDone
      BY <1>4, <2>4 DEF NoKey, NotDue, PumpReply, PumpDone
    <2>5. CASE StayAwake \/ BusyFlagClear \/ JobsWaiting
      BY <1>4, <2>5 DEF StayAwake, BusyFlagClear, JobsWaiting
    <2> QED BY <1>6, <2>1, <2>2, <2>3, <2>4, <2>5 DEF Loop
  <1>7. CASE User
    <2>1. CASE SendIntent
      <3>1. /\ pressed' = pressed + 1 /\ pressed' \in Jobs
            /\ UNCHANGED <<verdicts, hand, wpc, ok, acked>>
        BY <2>1, JobFacts, <1>1 DEF SendIntent
      <3>2. acked \subseteq 1 .. pressed BY DEF TruthInv, ReplyIsAboutHand
      <3>3. pressed' \notin acked /\ acked \subseteq 1 .. pressed'
        BY <1>1, <3>1, <3>2, NetClientAssumption
      <3>4. acked \cap PressesIn(jobs') = {}
        <4>1. CASE Len(jobs) < JobLen
          <5>1. jobs' = Append(jobs, pressed') BY <2>1, <4>1 DEF SendIntent
          <5>2. PressesIn(jobs') \subseteq PressesIn(jobs) \cup {pressed'}
            BY <1>1, <3>1, <5>1, JobQueued
          <5> QED BY <1>3, <3>3, <5>2 DEF TruthInv, ReplyIsAboutHand
        <4>2. CASE ~(Len(jobs) < JobLen)
          BY <1>3, <2>1, <4>2 DEF SendIntent, TruthInv, ReplyIsAboutHand
        <4> QED BY <4>1, <4>2
      <3> QED BY <1>3, <3>1, <3>3, <3>4 DEF TruthInv, ReplyIsAboutHand, VerdictTruthful
    <2>2. CASE QuietKey \/ EnterOta \/ LeaveOta \/ Wake
      BY <1>4, <2>2 DEF QuietKey, EnterOta, LeaveOta, Wake
    <2> QED BY <1>7, <2>1, <2>2 DEF User
  <1>8. CASE Worker
    <2>1. CASE FirstConnect \/ SetBusy \/ ClearDashPending \/ StartJob
      BY <2>1, <1>1 DEF FirstConnect, SetBusy, ClearDashPending, StartJob, TruthInv,
                        ReplyIsAboutHand, VerdictTruthful, QueuedPresses
    <2>2. CASE DeadEnd \/ HttpSilence \/ Reflag \/ Unflag \/ ClearBusy
      <3>1. UNCHANGED <<jobs, verdicts, ok, acked, pressed>>
        BY <2>2 DEF DeadEnd, HttpSilence, Reflag, Unflag, ClearBusy
      <3>2. VerdictTruthful' /\ (acked \cap QueuedPresses = {})'
        BY <3>1 DEF TruthInv, ReplyIsAboutHand, VerdictTruthful, QueuedPresses
      <3>3. CASE DeadEnd \/ HttpSilence \/ Reflag
        BY <1>1, <3>1, <3>2, <3>3
           DEF DeadEnd, HttpSilence, Reflag, TruthInv, ReplyIsAboutHand
      <3>4. CASE Unflag \/ ClearBusy
        BY <1>1, <3>1, <3>2, <3>4 DEF Unflag, ClearBusy, TruthInv, ReplyIsAboutHand
      <3> QED BY <2>2, <3>3, <3>4
    <2>3. CASE TakeJob
      <3>1. /\ PressesIn(jobs') = PressesIn(jobs) \ {Head(jobs)}
            /\ Head(jobs) # Dash => Head(jobs) \in PressesIn(jobs)
        BY <1>1, <1>2, <2>3, JobTaken DEF TakeJob, OnePlaceParts
      <3> QED BY <1>3, <2>3, <3>1
              DEF TakeJob, TruthInv, ReplyIsAboutHand, VerdictTruthful
    <2>4. CASE HttpAnswer
      <3>1. PressInHand = {hand} \ {Dash}
        BY <2>4 DEF HttpAnswer, PressInHand, Holding
      <3>2. /\ UNCHANGED <<jobs, verdicts, hand, pressed>> /\ wpc' = "deliver"
            /\ ok' \in BOOLEAN
            /\ acked' = IF ok' /\ hand # Dash THEN acked \cup {hand} ELSE acked
            /\ wpc = "run"
        BY <2>4 DEF HttpAnswer
      <3>3. hand # Dash => /\ hand \notin acked /\ hand \notin QueuedPresses
                           /\ hand \notin VerdictIds /\ hand \in 1 .. pressed
        BY <1>2, <3>1, <3>2 DEF OnePlaceParts, TruthInv, ReplyIsAboutHand
      <3>4. VerdictTruthful'
        BY <3>2, <3>3 DEF TruthInv, VerdictTruthful, VerdictIds
      <3>5. ReplyIsAboutHand'
        BY <3>2, <3>3 DEF TruthInv, ReplyIsAboutHand, QueuedPresses
      <3> QED BY <3>4, <3>5 DEF TruthInv
    <2>5. CASE Resend
      <3>1. CASE Len(jobs) < JobLen
        <4>1. PressesIn(jobs') = PressesIn(jobs) \cup ({hand} \ {Dash})
          BY <1>1, <2>5, <3>1, JobQueued DEF Resend
        <4> QED BY <1>3, <2>5, <3>1, <4>1
                DEF Resend, TruthInv, ReplyIsAboutHand, VerdictTruthful
      <3>2. CASE ~(Len(jobs) < JobLen)
        BY <2>5, <3>2 DEF Resend, TruthInv, ReplyIsAboutHand, VerdictTruthful,
                          QueuedPresses
      <3> QED BY <3>1, <3>2
    <2>6. CASE Deliver
      <3>1. ReplyIsAboutHand'
        BY <2>6 DEF Deliver, TruthInv, ReplyIsAboutHand, QueuedPresses
      <3>2. CASE hand # Dash /\ Len(verdicts) < VerdictLen
        <4> DEFINE v == [id |-> hand, ok |-> ok]
        <4>1. verdicts' = Append(verdicts, v) /\ acked' = acked
          BY <2>6, <3>2 DEF Deliver
        <4>2. v \in Verdict /\ v.id = hand /\ v.ok = ok
          BY <1>1, <3>2, JobFacts, VerdictFacts
        <4>3. v.ok <=> v.id \in acked
          BY <2>6, <3>2, <4>2 DEF Deliver, TruthInv, ReplyIsAboutHand
        <4> HIDE DEF v
        <4>4. \A i \in DOMAIN Append(verdicts, v) :
                  Append(verdicts, v)[i] = v \/ /\ i \in DOMAIN verdicts
                                                /\ Append(verdicts, v)[i] = verdicts[i]
          BY <1>1, <4>2, AppendFacts
        <4>5. VerdictTruthful'
          BY <4>1, <4>3, <4>4 DEF VerdictTruthful, TruthInv
        <4> QED BY <3>1, <4>5 DEF TruthInv
      <3>3. CASE ~(hand # Dash /\ Len(verdicts) < VerdictLen)
        <4>1. UNCHANGED <<verdicts, acked>> BY <2>6, <3>3 DEF Deliver
        <4> QED BY <3>1, <4>1 DEF TruthInv, VerdictTruthful
      <3> QED BY <3>2, <3>3
    <2> QED BY <1>8, <2>1, <2>2, <2>3, <2>4, <2>5, <2>6 DEF Worker, RunJob
  <1>9. CASE UNCHANGED vars
    BY <1>4, <1>9 DEF vars
  <1> QED BY <1>6, <1>7, <1>8, <1>9 DEF Next

\* A verdict says yes exactly if the gateway said yes to that press: runJob()
\* shares one static Reply among all jobs, and no order of retries, rollbacks
\* and deliveries carries its outcome from one job into the next.
THEOREM VerdictTruthfulAlways == Spec => []VerdictTruthful
  <1>1. Init => TruthInv
    BY DEF Init, TruthInv, VerdictTruthful, ReplyIsAboutHand, QueuedPresses
  <1>2. TypeOK /\ OnePlace /\ TruthInv /\ [Next]_vars => TruthInv'
    BY TruthStep
  <1>3. TruthInv => VerdictTruthful
    BY DEF TruthInv
  <1> QED BY <1>1, <1>2, <1>3, TypeCorrect, OnePlaceAlways, PTL DEF Spec

-----------------------------------------------------------------------------
(* The order in which presses are answered.                                *)

\* p waits, or is reported, before q.
JobAhead(s, p, q) == \E i, j \in DOMAIN s : i < j /\ s[i] = p /\ s[j] = q
IdAhead(v, p, q)  == \E i, j \in DOMAIN v : i < j /\ v[i].id = p /\ v[j].id = q

\* A job goes in behind all the others.
LEMMA JobAheadAppend ==
    ASSUME NEW s \in Seq(Jobs), NEW e \in Jobs, NEW p \in Presses, NEW q \in Presses,
           JobAhead(Append(s, e), p, q)
    PROVE  JobAhead(s, p, q) \/ (q = e /\ p \in PressesIn(s))
  <1> DEFINE t == Append(s, e)
  <1>1. PICK i, j \in DOMAIN t : i < j /\ t[i] = p /\ t[j] = q
    BY DEF JobAhead
  <1>2. Len(s) \in Nat /\ DOMAIN s = 1 .. Len(s) /\ DOMAIN t = 1 .. Len(s) + 1
    BY AppendFacts
  <1>3. i \in DOMAIN s /\ s[i] = p
    BY <1>1, <1>2, AppendFacts
  <1>4. CASE j \in DOMAIN s
    <2>1. s[j] = q BY <1>1, <1>4, AppendFacts
    <2>2. i < j BY <1>1
    <2>3. JobAhead(s, p, q) BY <1>3, <1>4, <2>1, <2>2 DEF JobAhead
    <2> QED BY <2>3
  <1>5. CASE j = Len(s) + 1
    BY <1>1, <1>3, <1>5, AppendFacts, JobFacts DEF PressesIn
  <1> QED BY <1>2, <1>4, <1>5

\* A verdict likewise.
LEMMA IdAheadAppend ==
    ASSUME NEW v \in Seq(Verdict), NEW e \in Verdict, NEW p, NEW q,
           IdAhead(Append(v, e), p, q)
    PROVE  IdAhead(v, p, q) \/ (q = e.id /\ p \in IdsIn(v))
  <1> DEFINE t == Append(v, e)
  <1>1. PICK i, j \in DOMAIN t : i < j /\ t[i].id = p /\ t[j].id = q
    BY DEF IdAhead
  <1>2. Len(v) \in Nat /\ DOMAIN v = 1 .. Len(v) /\ DOMAIN t = 1 .. Len(v) + 1
    BY AppendFacts
  <1>3. i \in DOMAIN v /\ v[i].id = p
    BY <1>1, <1>2, AppendFacts
  <1>4. CASE j \in DOMAIN v
    <2>1. v[j].id = q BY <1>1, <1>4, AppendFacts
    <2>2. i < j BY <1>1
    <2>3. IdAhead(v, p, q) BY <1>3, <1>4, <2>1, <2>2 DEF IdAhead
    <2> QED BY <2>3
  <1>5. CASE j = Len(v) + 1
    BY <1>1, <1>3, <1>5, AppendFacts DEF IdsIn
  <1> QED BY <1>2, <1>4, <1>5

\* The job taken was ahead of all the others, which keep their order.
LEMMA JobAheadTail ==
    ASSUME NEW s \in Seq(Jobs), s # <<>>, NEW p, NEW q
    PROVE  /\ JobAhead(Tail(s), p, q) => JobAhead(s, p, q)
           /\ p = Head(s) /\ q \in PressesIn(Tail(s)) => JobAhead(s, p, q)
  <1>1. \A i \in DOMAIN Tail(s) : /\ i + 1 \in DOMAIN s /\ i + 1 > 1
                                  /\ Tail(s)[i] = s[i + 1]
    BY TailFacts
  <1>2. \A i, j \in DOMAIN Tail(s) : i < j => i + 1 < j + 1
    OBVIOUS
  <1>3. JobAhead(Tail(s), p, q) => JobAhead(s, p, q)
    BY <1>1, <1>2 DEF JobAhead
  <1>4. 1 \in DOMAIN s /\ Head(s) = s[1] BY TailFacts
  <1>5. p = Head(s) /\ q \in PressesIn(Tail(s)) => JobAhead(s, p, q)
    BY <1>1, <1>4 DEF JobAhead, PressesIn
  <1> QED BY <1>3, <1>5

\* The verdicts left after one was read keep their order.
LEMMA IdAheadTail ==
    ASSUME NEW v \in Seq(Verdict), v # <<>>, NEW p, NEW q,
           IdAhead(Tail(v), p, q)
    PROVE  IdAhead(v, p, q)
  <1>1. \A i \in DOMAIN Tail(v) : i + 1 \in DOMAIN v /\ Tail(v)[i] = v[i + 1]
    BY TailFacts
  <1>2. \A i, j \in DOMAIN Tail(v) : i < j => i + 1 < j + 1
    OBVIOUS
  <1> QED BY <1>1, <1>2 DEF IdAhead

\* The step of the order: presses go in behind, come out in front, and only
\* the retry moves one to the end.
LEMMA PressOrderStep ==
    ASSUME RetryCap > 0, TypeOK, OnePlace, PressOrder, [Next]_vars
    PROVE  PressOrder'
  <1>1. /\ jobs \in Seq(Jobs) /\ verdicts \in Seq(Verdict) /\ hand \in Jobs
        /\ ok \in BOOLEAN /\ pressed \in 0 .. MaxPress /\ Dash \in Jobs
        /\ resent \in [Presses -> 0 .. RetryCap]
    BY JobFacts DEF TypeOK
  <1>2. OnePlaceParts BY OnePlaceSplit
  <1>3. /\ QueuedPresses = PressesIn(jobs) /\ QueuedPresses' = PressesIn(jobs')
        /\ VerdictIds = IdsIn(verdicts) /\ VerdictIds' = IdsIn(verdicts')
    BY DEF QueuedPresses, VerdictIds, PressesIn, IdsIn
  <1> SUFFICES ASSUME NEW p \in Presses, NEW q \in Presses, Ahead(p, q)', p > q
               PROVE  resent'[q] > 0
    BY DEF PressOrder
  <1>4. \/ IdAhead(verdicts', p, q)
        \/ p \in IdsIn(verdicts') /\ q \in PressInHand' \cup PressesIn(jobs')
        \/ p \in PressInHand' /\ q \in PressesIn(jobs')
        \/ JobAhead(jobs', p, q)
    BY <1>3 DEF Ahead, IdAhead, JobAhead
  <1>5. ASSUME \/ IdAhead(verdicts, p, q)
               \/ p \in IdsIn(verdicts) /\ q \in PressInHand \cup PressesIn(jobs)
               \/ p \in PressInHand /\ q \in PressesIn(jobs)
               \/ JobAhead(jobs, p, q)
        PROVE  resent[q] > 0
    BY <1>3, <1>5 DEF PressOrder, Ahead, IdAhead, JobAhead
  <1> HIDE DEF Ahead
  <1>6. CASE Idle
    BY <1>4, <1>5, <1>6 DEF Idle
  <1>7. CASE DashQueued
    <2>1. /\ PressesIn(jobs') = PressesIn(jobs)
          /\ JobAhead(jobs', p, q) => JobAhead(jobs, p, q)
      <3>1. jobs' = Append(jobs, Dash) /\ q # Dash
        BY <1>7, JobFacts DEF DashQueued
      <3>2. PressesIn(jobs') = PressesIn(jobs) BY <1>1, <3>1, JobQueued
      <3>3. JobAhead(jobs', p, q) => JobAhead(jobs, p, q)
        BY <1>1, <3>1, JobAheadAppend
      <3> QED BY <3>2, <3>3
    <2> QED BY <1>4, <1>5, <1>7, <2>1 DEF DashQueued
  <1>8. CASE SendIntent
    <2>1. /\ UNCHANGED <<verdicts, PressInHand, resent>>
          /\ pressed' = pressed + 1 /\ pressed' \in Jobs /\ pressed' # Dash
      BY <1>1, <1>8, JobFacts DEF SendIntent, workers, PressInHand, Holding, Dash
    <2>2. pressed' \in Presses /\ \A x \in 1 .. pressed : ~(x > pressed')
      BY <1>1, <1>8, <2>1, JobFacts DEF SendIntent
    <2>3. CASE Len(jobs) < JobLen
      <3>1. jobs' = Append(jobs, pressed') BY <1>8, <2>3 DEF SendIntent
      <3>2. /\ PressesIn(jobs') = PressesIn(jobs) \cup {pressed'}
            /\ JobAhead(jobs', p, q) =>
                  JobAhead(jobs, p, q) \/ (q = pressed' /\ p \in PressesIn(jobs))
        BY <1>1, <2>1, <3>1, JobQueued, JobAheadAppend
      <3>3. IdsIn(verdicts) \cup PressInHand \cup PressesIn(jobs) \subseteq 1 .. pressed
        BY <1>2, <1>3 DEF OnePlaceParts
      <3> QED BY <1>4, <1>5, <2>1, <2>2, <3>2, <3>3
    <2>4. CASE ~(Len(jobs) < JobLen)
      BY <1>4, <1>5, <1>8, <2>1, <2>4 DEF SendIntent
    <2> QED BY <2>3, <2>4
  <1>9. CASE PumpVerdict
    <2>1. /\ IdsIn(verdicts') \subseteq IdsIn(verdicts)
          /\ IdAhead(verdicts', p, q) => IdAhead(verdicts, p, q)
      BY <1>1, <1>2, <1>9, VerdictRead, IdAheadTail DEF PumpVerdict, OnePlaceParts
    <2>2. UNCHANGED <<jobs, PressInHand, resent>>
      BY <1>9 DEF PumpVerdict, workers, PressInHand, Holding
    <2> QED BY <1>4, <1>5, <2>1, <2>2
  <1>10. CASE GoToSleep
    BY <1>4, <1>10 DEF GoToSleep, IdAhead, JobAhead, IdsIn, PressesIn, PressInHand, Holding
  <1>11. CASE TakeJob
    <2>1. /\ PressesIn(jobs') = PressesIn(jobs) \ {Head(jobs)}
          /\ Head(jobs) # Dash => Head(jobs) \in PressesIn(jobs)
          /\ JobAhead(jobs', p, q) => JobAhead(jobs, p, q)
          /\ p = Head(jobs) /\ q \in PressesIn(jobs') => JobAhead(jobs, p, q)
      BY <1>1, <1>2, <1>11, JobTaken, JobAheadTail DEF TakeJob, OnePlaceParts
    <2>2. /\ UNCHANGED <<verdicts, resent>>
          /\ PressInHand' = {Head(jobs)} \ {Dash}
      BY <1>11 DEF TakeJob, PressInHand, Holding
    <2> QED BY <1>4, <1>5, <2>1, <2>2
  <1>12. CASE PressPutBack
    <2>1. /\ UNCHANGED verdicts /\ PressInHand' = {}
          /\ PressesIn(jobs') = PressesIn(jobs) \cup {hand}
          /\ JobAhead(jobs', p, q) => JobAhead(jobs, p, q) \/ q = hand
      BY <1>1, <1>12, JobQueued, JobAheadAppend
         DEF PressPutBack, PressInHand
    <2>2. /\ hand \in Presses
          /\ resent'[hand] > 0
          /\ resent[q] > 0 => resent'[q] > 0
      BY <1>1, <1>12, JobFacts, NetClientAssumption DEF PressPutBack, CountResend
    <2> QED BY <1>4, <1>5, <2>1, <2>2
  <1>13. CASE Deliver
    <2>1. /\ UNCHANGED <<jobs, resent>> /\ PressInHand' = {}
          /\ PressInHand = {hand} \ {Dash}
      BY <1>13 DEF Deliver, PressInHand, Holding
    <2>2. CASE hand # Dash /\ Len(verdicts) < VerdictLen
      <3> DEFINE v == [id |-> hand, ok |-> ok]
      <3>1. verdicts' = Append(verdicts, v)
        BY <1>13, <2>2 DEF Deliver
      <3>2. v \in Verdict /\ v.id = hand
        BY <1>1, <2>2, JobFacts, VerdictFacts
      <3> HIDE DEF v
      <3>3. /\ IdsIn(verdicts') = IdsIn(verdicts) \cup {hand}
            /\ IdAhead(verdicts', p, q) =>
                  IdAhead(verdicts, p, q) \/ (q = hand /\ p \in IdsIn(verdicts))
        BY <1>1, <3>1, <3>2, VerdictQueued, IdAheadAppend
      <3> QED BY <1>4, <1>5, <2>1, <2>2, <3>3
    <2>3. CASE ~(hand # Dash /\ Len(verdicts) < VerdictLen)
      <3>1. UNCHANGED verdicts BY <1>13, <2>3 DEF Deliver
      <3> QED BY <1>4, <1>5, <2>1, <3>1
    <2> QED BY <2>2, <2>3
  <1>14. CASE HttpAnswer
    <2>1. UNCHANGED <<jobs, verdicts, PressInHand, resent>>
      BY <1>14 DEF HttpAnswer, shared, PressInHand, Holding
    <2> QED BY <1>4, <1>5, <2>1
  <1> QED BY <1>6, <1>7, <1>8, <1>9, <1>10, <1>11, <1>12, <1>13, <1>14, KindsOfStep

\* Presses are answered in the order they were made, save those that runJob()
\* put back after a silence: for every depth of the queues.  RetryCap only caps
\* the history that tells a press was put back, so it must be able to.
THEOREM PressOrderAlways == ASSUME RetryCap > 0 PROVE Spec => []PressOrder
  <1>1. Init => PressOrder
    BY DEF Init, PressOrder, Ahead, VerdictIds, QueuedPresses, PressInHand, Holding
  <1>2. TypeOK /\ OnePlace /\ PressOrder /\ [Next]_vars => PressOrder'
    BY PressOrderStep
  <1> QED BY <1>1, <1>2, TypeCorrect, OnePlaceAlways, PTL DEF Spec

-----------------------------------------------------------------------------
(* The ledger.                                                             *)

\* What is asked for and what is answered, by the places a press can be in.
LEMMA BookParts ==
    /\ QueuedPresses  = PressesIn(jobs)  /\ VerdictIds  = IdsIn(verdicts)
    /\ QueuedPresses' = PressesIn(jobs') /\ VerdictIds' = IdsIn(verdicts')
  BY DEF QueuedPresses, VerdictIds, PressesIn, IdsIn

\* The ledger counts with the same Cardinality.
LEMMA BookCounts == \A S : Book!Cardinality(S) = Cardinality(S)
  BY Zenon DEF Book!Cardinality, Cardinality

\* A verdict queue that names every press once holds as many as it is long.
LEMMA VerdictsWaiting ==
    ASSUME NEW v \in Seq(Verdict), IdOnce(v)
    PROVE  Cardinality(IdsIn(v)) = Len(v)
  <1> DEFINE D == 1 .. Len(v)
             f == [i \in D |-> v[i].id]
  <1>1. Len(v) \in Nat /\ DOMAIN v = D
    OBVIOUS
  <1>2. IsFiniteSet(D) /\ Cardinality(D) = Len(v)
    BY <1>1, FS_Interval
  <1>3. f \in Surjection(D, IdsIn(v))
    BY <1>1 DEF Surjection, IdsIn
  <1>4. f \in Injection(D, IdsIn(v))
    BY <1>1, <1>3 DEF Injection, Surjection, IsInjective, IdOnce
  <1> HIDE DEF D, f
  <1> QED BY <1>2, <1>3, <1>4, FS_Surjection

\* Every step is one of the ledger's, or a stutter.
LEMMA LedgerStep ==
    ASSUME TypeOK, OnePlace, [Next]_vars
    PROVE  [Book!Next]_Book!vars
  <1>1. /\ jobs \in Seq(Jobs) /\ verdicts \in Seq(Verdict) /\ hand \in Jobs
        /\ ok \in BOOLEAN /\ pressed \in 0 .. MaxPress /\ Dash \in Jobs
        /\ Len(verdicts) <= VerdictLen
    BY JobFacts DEF TypeOK
  <1>2. OnePlaceParts BY OnePlaceSplit
  <1> DEFINE asked == QueuedPresses \cup PressInHand
  <1>3. /\ asked  = PressesIn(jobs)  \cup PressInHand
        /\ asked' = PressesIn(jobs') \cup PressInHand'
    BY BookParts
  <1>4. ASSUME asked' = asked, UNCHANGED <<verdicts, heard, refused, pressed>>
        PROVE  [Book!Next]_Book!vars
    BY <1>4, BookParts DEF Book!vars
  <1>6. CASE Idle
    BY <1>3, <1>4, <1>6 DEF Idle
  <1>7. CASE DashQueued
    <2>1. PressesIn(jobs') = PressesIn(jobs)
      BY <1>1, <1>7, JobQueued DEF DashQueued
    <2> QED BY <1>3, <1>4, <1>7, <2>1 DEF DashQueued
  <1>8. CASE SendIntent
    <2>1. /\ UNCHANGED <<verdicts, PressInHand, heard>>
          /\ pressed' = pressed + 1 /\ pressed' \in Jobs /\ pressed' # Dash
          /\ pressed' \in Presses /\ pressed' \notin 1 .. pressed
          /\ 1 .. pressed' = (1 .. pressed) \cup {pressed'}
      BY <1>1, <1>8, JobFacts, NetClientAssumption
         DEF SendIntent, workers, PressInHand, Holding, Dash
    <2>2. CASE Len(jobs) < JobLen
      <3>1. jobs' = Append(jobs, pressed') /\ refused' = refused
        BY <1>8, <2>2 DEF SendIntent
      <3>2. PressesIn(jobs') = PressesIn(jobs) \cup {pressed'}
        BY <1>1, <2>1, <3>1, JobQueued
      <3>3. Book!Accept(pressed')
        BY <1>3, <2>1, <3>1, <3>2, BookParts DEF Book!Accept
      <3> QED BY <2>1, <3>3 DEF Book!Next
    <2>3. CASE ~(Len(jobs) < JobLen)
      <3>1. refused' = refused \cup {pressed'} /\ jobs' = jobs
        BY <1>8, <2>3 DEF SendIntent
      <3>2. Book!TurnAway(pressed')
        BY <1>3, <2>1, <3>1, BookParts DEF Book!TurnAway
      <3> QED BY <2>1, <3>2 DEF Book!Next
    <2> QED BY <2>2, <2>3
  <1>9. CASE PumpVerdict
    <2> DEFINE p == Head(verdicts).id
    <2>1. /\ IdsIn(verdicts') = IdsIn(verdicts) \ {p} /\ p \in IdsIn(verdicts)
          /\ heard' = heard \cup {p}
          /\ UNCHANGED <<jobs, PressInHand, refused, pressed>>
      BY <1>1, <1>2, <1>9, VerdictRead
         DEF PumpVerdict, OnePlaceParts, workers, PressInHand, Holding
    <2>2. p \in Presses
      BY <1>1, <1>9, TailFacts, VerdictFacts DEF PumpVerdict
    <2> HIDE DEF p
    <2>4. Book!Tell(p)
      BY <1>3, <2>1, BookParts DEF Book!Tell
    <2> QED BY <2>2, <2>4 DEF Book!Next
  <1>10. CASE GoToSleep
    <2>1. /\ asked' = {} /\ IdsIn(verdicts') = {}
          /\ UNCHANGED <<heard, refused, pressed>>
      BY <1>3, <1>10 DEF GoToSleep, IdsIn, PressesIn, PressInHand, Holding
    <2> QED BY <2>1, BookParts DEF Book!Next, Book!PowerDown
  <1>11. CASE TakeJob
    <2>1. /\ PressesIn(jobs') = PressesIn(jobs) \ {Head(jobs)}
          /\ Head(jobs) # Dash => Head(jobs) \in PressesIn(jobs)
      BY <1>1, <1>2, <1>11, JobTaken DEF TakeJob, OnePlaceParts
    <2>2. /\ UNCHANGED <<verdicts, heard, refused, pressed>>
          /\ PressInHand' = {Head(jobs)} \ {Dash} /\ PressInHand = {}
      BY <1>11 DEF TakeJob, uis, PressInHand, Holding
    <2>3. Dash \notin PressesIn(jobs) BY DEF PressesIn
    <2> QED BY <1>3, <1>4, <2>1, <2>2, <2>3
  <1>12. CASE PressPutBack
    <2>1. /\ UNCHANGED <<verdicts, heard, refused, pressed>>
          /\ PressInHand' = {} /\ PressInHand = {hand}
          /\ PressesIn(jobs') = PressesIn(jobs) \cup {hand}
      BY <1>1, <1>12, JobQueued DEF PressPutBack, PressInHand
    <2> QED BY <1>3, <1>4, <2>1
  <1>13. CASE Deliver
    <2>1. /\ UNCHANGED <<jobs, heard, refused, pressed>> /\ PressInHand' = {}
          /\ PressInHand = {hand} \ {Dash}
      BY <1>13 DEF Deliver, uis, PressInHand, Holding
    <2>2. CASE hand = Dash
      <3>1. UNCHANGED verdicts BY <1>13, <2>2 DEF Deliver
      <3> QED BY <1>3, <1>4, <2>1, <2>2, <3>1
    <2>3. CASE hand # Dash
      <3>1. hand \in Presses /\ hand \in asked
        BY <1>1, <1>3, <2>1, <2>3, JobFacts
      <3>2. asked' = asked \ {hand}
        BY <1>2, <1>3, <2>1, <2>3, BookParts DEF OnePlaceParts
      <3>3. Book!Cardinality(VerdictIds) = Len(verdicts)
        BY <1>1, <1>2, BookCounts, BookParts, VerdictsWaiting DEF OnePlaceParts
      <3>4. CASE Len(verdicts) < VerdictLen
        <4> DEFINE v == [id |-> hand, ok |-> ok]
        <4>1. verdicts' = Append(verdicts, v)
          BY <1>13, <2>3, <3>4 DEF Deliver
        <4>2. v \in Verdict /\ v.id = hand
          BY <1>1, <2>3, JobFacts, VerdictFacts
        <4> HIDE DEF v
        <4>3. IdsIn(verdicts') = IdsIn(verdicts) \cup {hand}
          BY <1>1, <4>1, <4>2, VerdictQueued
        <4>4. Book!Answer(hand)
          BY <2>1, <3>1, <3>2, <3>3, <3>4, <4>3, BookParts DEF Book!Answer
        <4> QED BY <3>1, <4>4 DEF Book!Next
      <3>5. CASE ~(Len(verdicts) < VerdictLen)
        <4>1. UNCHANGED verdicts BY <1>13, <2>3, <3>5 DEF Deliver
        <4>2. Book!Cardinality(VerdictIds) >= VerdictLen
          BY <1>1, <3>3, <3>5, NetClientAssumption
        <4>3. Book!Lose(hand)
          BY <2>1, <3>1, <3>2, <4>1, <4>2, BookParts DEF Book!Lose
        <4> QED BY <3>1, <4>3 DEF Book!Next
      <3> QED BY <3>4, <3>5
    <2> QED BY <2>2, <2>3
  <1>14. CASE HttpAnswer
    <2>1. UNCHANGED <<jobs, verdicts, PressInHand, heard, refused, pressed>>
      BY <1>14 DEF HttpAnswer, shared, uis, PressInHand, Holding
    <2> QED BY <1>3, <1>4, <2>1
  <1> QED BY <1>6, <1>7, <1>8, <1>9, <1>10, <1>11, <1>12, <1>13, <1>14, KindsOfStep

\* Nothing is owed at boot.
LEMMA LedgerInit == Init => Book!Init
  BY BookParts, NetClientAssumption
     DEF Init, Book!Init, PressesIn, IdsIn, PressInHand, Holding

\* Whatever the depths of the two queues, the client keeps the ledger: a press
\* is lost to a full g_verdicts or to the deep sleep, and in no other way is
\* one lost, answered twice, or answered after it was turned away.
THEOREM KeepsBookAlways == Spec => KeepsBook
  <1>1. TypeOK /\ OnePlace /\ [Next]_vars => [Book!Next]_Book!vars
    BY LedgerStep
  <1> QED BY <1>1, LedgerInit, TypeCorrect, OnePlaceAlways, PTL
          DEF Spec, KeepsBook, Book!Spec

=============================================================================
