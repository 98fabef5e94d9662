-------------------------------- MODULE Power --------------------------------
(***************************************************************************)
(* When the remote polls, when it sleeps and how old it says its data are: *)
(* the timing policy (firmware/lib/core/netplan.cpp) and the age of a      *)
(* snapshot (dash.cpp) as loop() and setup() apply them (src/main.cpp),    *)
(* against a worker whose jobs take time (src/hw_net.cpp).                 *)
(*                                                                         *)
(* Time passes in ticks, and only when nothing is left to do at once: the  *)
(* worker has taken what it can take, and loop() has come round since.     *)
(* The two shared flags and queues themselves are NetClient's matter.      *)
(***************************************************************************)
EXTENDS Integers, Sequences, SequencesExt

CONSTANTS
    PollActive, PollIdle, ActiveWindow,  \* netplan.h, in ticks, as all times
    SleepAfter, BackoffStart, BackoffMax,
    StaleAfter,                          \* dash.h
    Connect,      \* what connectWifi() spends before it gives up
    HttpTakes,    \* how long an exchange with the gateway may take
    QueueLen,     \* kQueueLen
    MaxAct,       \* bound: presses that may wait at a time
    MaxFailures   \* bound: failures told apart, enough for the longest pause

\* Two rounds of the idle schedule fit into the age that the label is silent on.
ASSUME PowerAssumption ==
    /\ PollIdle \in Nat /\ PollActive \in 1 .. PollIdle /\ 2 * PollIdle <= StaleAfter
    /\ {ActiveWindow, SleepAfter, BackoffStart, BackoffMax, StaleAfter, Connect,
        MaxAct, MaxFailures} \subseteq Nat
    /\ QueueLen \in Nat \ {0} /\ HttpTakes \subseteq Nat

VARIABLES
    mode,      \* "on", "ota" or "asleep"
    stage,     \* how far a pass of loop() has come
    settled,   \* loop() has come round since the worker last did something
    prompt,    \* g_ui.confirming
    sinceKey, sincePoll,  \* now less g_lastKeyMs and g_lastPollMs
    jobs,      \* g_jobs
    work,      \* the job in the worker's hands
    net,       \* link, failed attempts in a row, time to the next, rediscovered
    reply,     \* g_replies
    dash,      \* g_dash: none, stamped now, stamped ahead of the clock (which has
               \* wrapped) or restored from sleep; if now, the time since
    made,      \* history: how old the data in g_dash, and with it in RTC memory
               \* and on the frame, really are, and how long they waited unread
    frame,     \* history: what the last frame said of the age
    trouble    \* history: something delayed the data since they last arrived

ui    == <<mode, stage, settled, prompt, sinceKey, sincePoll>>
data  == <<dash, made, frame, trouble>>
vars  == <<ui, jobs, work, net, reply, data>>

\* Ages are told apart up to here.
LateCap == 1
MadeCap == StaleAfter + LateCap + 1

Capped(n, cap) == IF n < cap THEN n + 1 ELSE cap

NoWork  == [job |-> "none", phase |-> "none", left |-> 0, slow |-> FALSE]
NoLink  == [link |-> FALSE, failures |-> 0, wait |-> 0, again |-> FALSE]
NoReply == [there |-> FALSE, ok |-> FALSE, age |-> 0]
Dash(stamp) == [stamp |-> stamp, age |-> 0]

-----------------------------------------------------------------------------
(* netplan.cpp and dash.cpp.                                               *)

\* A mutant: idle polling at half the pace.
PollIntervalSlow(since) == IF since < ActiveWindow THEN PollActive ELSE 2 * PollIdle

pollInterval(since) == IF since < ActiveWindow THEN PollActive ELSE PollIdle

shouldPoll(sPoll, sKey) == sPoll >= pollInterval(sKey)

shouldSleep(sKey, busy) == ~busy /\ sKey >= SleepAfter

\* A mutant: no pause between attempts.
NoBackoff(failures) == 0

\* The start, doubled with every failure until it is long enough.
Doubled(failures) ==
    LET d[n \in Nat] == IF n <= 1 THEN BackoffStart ELSE
                        IF d[n - 1] < BackoffMax THEN 2 * d[n - 1] ELSE d[n - 1]
    IN  IF failures = 0 THEN 0 ELSE d[failures]

\* A mutant: the last doubling goes past the maximum.
BackoffUnclipped(failures) == Doubled(failures)

\* Clipped: the last doubling may have gone past the maximum.
backoffDelay(failures) ==
    IF Doubled(failures) \in 0 .. BackoffMax THEN Doubled(failures) ELSE BackoffMax

\* A mutant: the age of a restored snapshot is what the clock says.
AgeByClock(d) == d.age

ageMs(d) == IF d.stamp \in {"ahead", "slept"} THEN StaleAfter ELSE d.age

isStale(d) == d.stamp = "none" \/ ageMs(d) >= StaleAfter

\* What ageLabel() says; the number of seconds is left out, and an empty label is
\* "silent".
ageLabel(d) == CASE d.stamp = "none"  -> "waiting"
                 [] d.stamp = "slept" -> "slept"
                 [] d.stamp \in {"now", "ahead"} -> IF isStale(d) THEN "old" ELSE "silent"

-----------------------------------------------------------------------------
(* Requests.                                                               *)

dashPending == Contains(jobs, "dash")

\* The worker's very first attempt at a link is no job.
busy == work.job \in {"dash", "act"} \/ jobs # <<>>

\* A job that takes as long as the idle schedule: the next poll waits behind it.
SlowJob == work.slow

CanQueue(q) == Len(q) < QueueLen

\* requestDash(): one that waits is enough; FALSE only if the queue is full.
DashTaken(q)  == Contains(q, "dash") \/ CanQueue(q)
WithDash(q)   == IF ~Contains(q, "dash") /\ CanQueue(q) THEN Append(q, "dash") ELSE q
WithAct(q)    == IF CanQueue(q) THEN Append(q, "act") ELSE q

\* Something other than the schedule holds up the next snapshot.
Delayed == work.job = "act" \/ Contains(jobs, "act") \/ work.phase = "connect" \/ SlowJob

Acts == Len(SelectSeq(jobs, LAMBDA j : j = "act"))

-----------------------------------------------------------------------------
(* setup(), loop() and the stay in the OTA mode.                           *)

\* What setup() leaves behind.  A snapshot found in RTC memory may be of any age.
Booted(found) ==
    LET d == Dash(IF found THEN "slept" ELSE "none")
    IN  /\ mode' = "on" /\ stage' = "loop" /\ settled' = FALSE /\ prompt' = FALSE
        /\ sinceKey' = 0 /\ sincePoll' = 0
        /\ jobs' = <<"dash">>
        /\ work' = [job |-> "begin", phase |-> "connect", left |-> 0, slow |-> FALSE]
        /\ net' = NoLink
        /\ reply' = NoReply
        /\ dash' = d /\ frame' = ageLabel(d)
        /\ made' = [age |-> IF found THEN MadeCap ELSE 0, late |-> 0]
        /\ trouble' = TRUE

Init ==
    /\ mode = "asleep" /\ stage = "loop" /\ settled = FALSE /\ prompt = FALSE
    /\ sinceKey = 0 /\ sincePoll = 0 /\ jobs = <<>> /\ work = NoWork
    /\ net = NoLink
    /\ reply = NoReply /\ dash = Dash("none")
    /\ made = [age |-> 0, late |-> 0]
    /\ frame = "waiting" /\ trouble = TRUE

\* A key out of deep sleep: setup() with what RTC memory holds.
Wake == mode = "asleep" /\ Booted(dash.stamp # "none")

\* Power lost and back: RTC memory is empty.
PowerCycle == Booted(FALSE)

\* The part of a pass after the key: the snapshot, the poll, the frame.  keyed
\* says whether this pass had a key, q and polled what the key has done.
Refresh(keyed, q, polled) ==
    LET fresh == reply.there /\ reply.ok
        d     == IF fresh THEN Dash("now") ELSE dash
        sKey  == IF keyed THEN 0 ELSE sinceKey
        sPoll == IF polled THEN 0 ELSE sincePoll
        due   == shouldPoll(sPoll, sKey)
    IN  /\ reply' = NoReply
        /\ dash' = d
        /\ made' = IF fresh THEN [age |-> reply.age, late |-> reply.age] ELSE made
        /\ trouble' = IF fresh THEN Delayed ELSE trouble
        /\ frame' = ageLabel(d)
        /\ sinceKey' = sKey
        /\ jobs' = IF due THEN WithDash(q) ELSE q
        /\ sincePoll' = IF due /\ DashTaken(q) THEN 0 ELSE sPoll

Pass == mode = "on" /\ stage = "loop" /\ stage' = "sleep" /\ UNCHANGED <<mode, settled, work, net>>

\* A pass without a key; when nothing is new since the last one it changes nothing.
QuietPass == ~settled /\ Pass /\ Refresh(FALSE, jobs, FALSE) /\ UNCHANGED prompt

\* A pass with a key: it may send a press, open the prompt or close it, and asks
\* for a snapshot if the last poll is more than 400 ms ago, which in whole
\* ticks is open when the count is zero.
KeyPass ==
    /\ Pass
    /\ prompt' \in IF prompt THEN {FALSE} ELSE BOOLEAN
    /\ \E q \in {jobs, WithAct(jobs)}, polled \in BOOLEAN :
          /\ q = jobs \/ (~prompt' /\ Acts < MaxAct)
          /\ sincePoll > 0 => polled
          /\ Refresh(TRUE, IF polled THEN WithDash(q) ELSE q, polled)

\* The end of a pass, with or without sleep.  What is not in RTC memory is lost.
EndOfPass == mode = "on" /\ stage = "sleep" /\ stage' = "loop" /\ settled' = TRUE

StayUp ==
    /\ EndOfPass
    /\ ~shouldSleep(sinceKey, busy \/ prompt)
    /\ UNCHANGED <<mode, prompt, sinceKey, sincePoll, jobs, work, net, reply, data>>

GoToSleep ==
    /\ EndOfPass
    /\ shouldSleep(sinceKey, busy \/ prompt)
    /\ mode' = "asleep"
    /\ sinceKey' = 0 /\ sincePoll' = 0 /\ jobs' = <<>> /\ work' = NoWork
    /\ net' = NoLink /\ reply' = NoReply /\ dash' = [dash EXCEPT !.age = 0]
    /\ UNCHANGED <<prompt, made, frame, trouble>>

\* u on Home, and Esc some time later: loop() starts over.
EnterOta ==
    /\ mode = "on" /\ stage = "loop" /\ ~prompt
    /\ mode' = "ota" /\ frame' = "ota"
    /\ UNCHANGED <<stage, settled, prompt, sinceKey, sincePoll, jobs, work, net, reply,
                   dash, made, trouble>>

LeaveOta ==
    /\ mode = "ota"
    /\ mode' = "on" /\ sinceKey' = 0 /\ settled' = FALSE /\ trouble' = TRUE
    /\ UNCHANGED <<stage, prompt, sincePoll, jobs, work, net, reply, dash, made, frame>>

-----------------------------------------------------------------------------
(* The worker.                                                             *)

Awake == mode # "asleep"

\* deliver(): a snapshot overwrites the one not yet read, failed or not.
Delivered(job, ok) ==
    /\ reply' = IF job = "dash" THEN [there |-> TRUE, ok |-> ok, age |-> 0] ELSE reply
    /\ trouble' = (trouble \/ ~ok \/ job # "dash")
    /\ UNCHANGED <<dash, made, frame>>

Exchange(job, takes) == [job |-> job, phase |-> "http", left |-> takes, slow |-> takes >= PollIdle]

\* A job without a link is an attempt to get one, but a poll that comes too
\* soon after the last attempt ends at once.
Take ==
    /\ Awake /\ work = NoWork /\ jobs # <<>>
    /\ jobs' = Tail(jobs) /\ settled' = FALSE
    /\ LET j == Head(jobs)
       IN  \/ /\ ~net.link /\ j = "dash" /\ net.wait > 0
              /\ Delivered(j, FALSE) /\ UNCHANGED work
           \/ /\ ~net.link /\ ~(j = "dash" /\ net.wait > 0)
              /\ work' = [job |-> j, phase |-> "connect", left |-> 0, slow |-> FALSE]
              /\ trouble' = TRUE
              /\ UNCHANGED <<reply, dash, made, frame>>
           \/ /\ net.link
              /\ \E t \in HttpTakes :
                    /\ work' = Exchange(j, t)
                    /\ trouble' = (trouble \/ j = "act" \/ t >= PollIdle)
              /\ UNCHANGED <<reply, dash, made, frame>>
    /\ UNCHANGED <<mode, stage, prompt, sinceKey, sincePoll, net>>

WorkerEnd == work' = NoWork /\ settled' = FALSE /\ UNCHANGED <<mode, stage, prompt, sinceKey, sincePoll>>

\* connectWifi() gets through, at any moment of its budget.  The worker's very
\* first attempt has no job.
Connected ==
    /\ Awake /\ work.phase = "connect"
    /\ net' = [net EXCEPT !.link = TRUE, !.failures = 0]
    /\ IF work.job = "begin" THEN WorkerEnd /\ UNCHANGED <<jobs, reply, data>>
       ELSE /\ \E t \in HttpTakes :
                  work' = [Exchange(work.job, t) EXCEPT !.slow = work.left + t >= PollIdle]
            /\ UNCHANGED <<ui, jobs, reply, data>>

ConnectFailed ==
    /\ Awake /\ work.phase = "connect" /\ work.left = Connect
    /\ net' = [net EXCEPT !.failures = Capped(net.failures, MaxFailures),
                          !.wait = backoffDelay(Capped(net.failures, MaxFailures))]
    /\ WorkerEnd /\ UNCHANGED jobs
    /\ IF work.job = "begin" THEN UNCHANGED <<reply, data>> ELSE Delivered(work.job, FALSE)

\* An answer, good or not.
Answered ==
    /\ Awake /\ work.phase = "http" /\ work.left = 0
    /\ net' = [net EXCEPT !.again = FALSE]
    /\ WorkerEnd /\ UNCHANGED jobs
    /\ \E ok \in BOOLEAN : Delivered(work.job, ok)

\* Silence: the link may be given up with its lease, and the job goes back to
\* the queue if this is the first silence and the gateway is found.
Silence ==
    /\ Awake /\ work.phase = "http" /\ work.left = 0
    /\ WorkerEnd
    /\ \E up, found \in BOOLEAN :
          LET back == found /\ ~net.again /\ CanQueue(jobs)
          IN  /\ net' = [net EXCEPT !.link = up, !.again = TRUE]
              /\ IF back THEN /\ jobs' = Append(jobs, work.job) /\ trouble' = TRUE
                              /\ UNCHANGED <<reply, dash, made, frame>>
                         ELSE Delivered(work.job, FALSE) /\ UNCHANGED jobs

-----------------------------------------------------------------------------
(* Time and the world.                                                     *)

LinkLost == net.link /\ net' = [net EXCEPT !.link = FALSE] /\ UNCHANGED <<ui, jobs, work, reply, data>>

Urgent == \/ work = NoWork /\ jobs # <<>>
          \/ work.phase = "http" /\ work.left = 0
          \/ work.phase = "connect" /\ work.left = Connect
          \/ mode = "on" /\ ~(stage = "loop" /\ settled)

WorkLeft == CASE work.phase = "http"    -> [work EXCEPT !.left = @ - 1]
              [] work.phase = "connect" -> [work EXCEPT !.left = @ + 1]
              [] OTHER                  -> work

Tick ==
    /\ Awake /\ ~Urgent
    /\ settled' = FALSE
    /\ sinceKey' = Capped(sinceKey, SleepAfter)
    /\ sincePoll' = Capped(sincePoll, PollIdle)
    /\ work' = WorkLeft
    /\ net' = [net EXCEPT !.wait = IF @ > 0 THEN @ - 1 ELSE 0]
    /\ reply' = IF reply.there THEN [reply EXCEPT !.age = Capped(@, LateCap)] ELSE reply
    /\ dash' = IF dash.stamp = "now" THEN [dash EXCEPT !.age = Capped(@, StaleAfter)] ELSE dash
    /\ made' = IF dash.stamp = "none" THEN made ELSE [made EXCEPT !.age = Capped(@, MadeCap)]
    /\ UNCHANGED <<mode, stage, prompt, jobs, frame, trouble>>

\* millis() wraps: a stamp from before is now ahead of the clock.
ClockWraps ==
    /\ Awake /\ dash.stamp = "now"
    /\ dash' = Dash("ahead") /\ trouble' = TRUE
    /\ UNCHANGED <<ui, jobs, work, net, reply, made, frame>>

Worker == Take \/ Connected \/ ConnectFailed \/ Answered \/ Silence

Next ==
    \/ Wake \/ PowerCycle
    \/ QuietPass \/ KeyPass \/ StayUp \/ GoToSleep \/ EnterOta \/ LeaveOta
    \/ Worker \/ LinkLost \/ ClockWraps
    \/ Tick

Spec == Init /\ [][Next]_vars

\* loop() and the worker run, and so does time.
FairSpec ==
    /\ Spec
    /\ WF_vars(QuietPass \/ KeyPass) /\ WF_vars(StayUp \/ GoToSleep)
    /\ WF_vars(Take \/ ConnectFailed \/ Answered \/ Silence)
    /\ WF_vars(Tick)

-----------------------------------------------------------------------------
(* Properties.                                                             *)

LoopOK ==
    /\ mode \in {"on", "ota", "asleep"} /\ stage \in {"loop", "sleep"}
    /\ settled \in BOOLEAN /\ prompt \in BOOLEAN /\ trouble \in BOOLEAN
    /\ sinceKey \in 0 .. SleepAfter /\ sincePoll \in 0 .. PollIdle
    /\ frame \in {"waiting", "slept", "old", "silent", "ota"}

WorkerOK ==
    /\ jobs \in Seq({"dash", "act"}) /\ Len(jobs) <= QueueLen
    /\ work \in [job : {"none", "begin", "dash", "act"}, phase : {"none", "connect", "http"},
                 left : Nat, slow : BOOLEAN]
    /\ net \in [link : BOOLEAN, failures : 0 .. MaxFailures, wait : 0 .. BackoffMax,
                again : BOOLEAN]
    /\ reply \in [there : BOOLEAN, ok : BOOLEAN, age : 0 .. LateCap]

DataOK ==
    /\ dash \in [stamp : {"none", "now", "ahead", "slept"}, age : 0 .. StaleAfter]
    /\ made \in [age : 0 .. MadeCap, late : 0 .. LateCap]

\* The variables hold what the code's types allow; a pause never exceeds the
\* longest one, and the queue not its length.
TypeOK == LoopOK /\ WorkerOK /\ DataOK

\* A frame without a word about age shows data that really are recent: through
\* sleep, wake, power cycles and a wrapping clock (ageMs, ageLabel, the slow
\* tick of loop()).  What had to wait for the OTA mode to end is that much older.
FreshIsRecent == frame = "silent" => made.age <= StaleAfter + made.late

\* "Stand N s alt" on the screen always has a cause: with the link up, answers
\* that are no slower than the idle schedule and no presses in between, the
\* schedule keeps the data younger than the label (shouldPoll against
\* kStaleAfterMs, requestDash() folding and refusing).
OldOnlyInTrouble == frame = "old" => trouble

\* Silence and answers do not alternate for ever: every silence after an answer
\* is worth a search and a second try, and both tries together are long.
Steady == <>[]net.again \/ <>[]~net.again

\* Left alone without a question on the screen, the remote goes to sleep: a
\* dead link, a silent or refusing gateway, retries and a full queue may delay
\* it, but not for ever (shouldPoll, shouldSleep, busy, backoffDelay), unless
\* jobs as long as the idle schedule come again and again.
SleepsWhenLeftAlone ==
    <>[](~prompt /\ mode # "ota") /\ Steady =>
        []<>(mode = "asleep" \/ sinceKey = 0 \/ SlowJob)
=============================================================================
