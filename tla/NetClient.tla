------------------------------ MODULE NetClient ------------------------------
(***************************************************************************)
(* The gateway client of the firmware: two FreeRTOS tasks that share three *)
(* queues and two flags (firmware/src/hw_net.cpp, and the parts of         *)
(* firmware/src/main.cpp that call it).                                    *)
(*                                                                         *)
(*   UI task, core 1      loop(): key, pumpNetwork, poll, sleep check      *)
(*   worker task, core 0  take a job, run it over HTTP, deliver the result *)
(*                                                                         *)
(* A press is known by the number of its optimistic claim (the overlay     *)
(* token); a snapshot request carries token 0, which is Dash.  How long    *)
(* anything takes, and whether a poll or the sleep is due, is left open;   *)
(* what the radio does is reduced to the three ways a job can end: before  *)
(* any request was made, with an answer, or in silence.                    *)
(***************************************************************************)
EXTENDS Naturals, Sequences, FiniteSets

CONSTANTS
    JobLen,        \* depth of g_jobs, kQueueLen in the code
    VerdictLen,    \* depth of g_verdicts, also kQueueLen in the code
    MaxPress,      \* bound: presses considered in one behaviour
    RetryCap       \* bound: re-sends of one press are counted up to this

ASSUME NetClientAssumption ==
    /\ JobLen \in Nat \ {0}
    /\ VerdictLen \in Nat \ {0}
    /\ MaxPress \in Nat
    /\ RetryCap \in Nat

Dash    == 0
Presses == 1 .. MaxPress
Jobs    == {Dash} \cup Presses
Verdict == [id : Presses, ok : BOOLEAN]

VARIABLES
    jobs,          \* g_jobs, oldest first
    verdicts,      \* g_verdicts, oldest first
    reply,         \* g_replies holds a snapshot reply
    dashPending,   \* g_dashPending
    busy,          \* g_busy
    wpc,           \* where the worker task is
    hand,          \* the worker's local Job
    ok,            \* r.ok of the worker's static Reply
    rediscovered,  \* g_rediscovered
    upc,           \* where the UI task is in loop()
    req,           \* where the UI task is inside requestDash()
    pressed,       \* history: presses made so far, also the last token
    refused,       \* history: presses requestAction() turned away
    heard,         \* history: presses whose verdict the UI task has read
    acked,         \* history: presses the gateway answered with a 2xx
    resent         \* history: how often each press was put back in g_jobs

shared  == <<jobs, verdicts, reply, dashPending, busy>>
workers == <<wpc, hand, ok, rediscovered, acked, resent>>
uis     == <<upc, req, pressed, refused, heard>>
vars    == <<jobs, verdicts, reply, dashPending, busy, wpc, hand, ok,
             rediscovered, upc, req, pressed, refused, heard, acked, resent>>

WorkerPlaces == {"connect", "wait", "taken", "clear", "start", "run",
                 "reflag", "resend", "unflag", "deliver", "done"}
UiPlaces     == {"setup", "key", "refresh", "pump", "poll", "sleep",
                 "sleepQueue", "ota", "asleep"}
ReqPlaces    == {"idle", "set", "send", "unset"}

Init ==
    /\ jobs = <<>> /\ verdicts = <<>> /\ reply = FALSE
    /\ dashPending = FALSE /\ busy = FALSE
    /\ wpc = "connect" /\ hand = Dash /\ ok = FALSE /\ rediscovered = FALSE
    /\ upc = "setup" /\ req = "idle"
    /\ pressed = 0 /\ refused = {} /\ heard = {} /\ acked = {}
    /\ resent = [p \in Presses |-> 0]

-----------------------------------------------------------------------------
(* requestDash(), one step per access to what the worker shares.           *)

\* Where the UI task goes on after each of the three calls of requestDash().
AfterRequest(place) ==
    IF place = "setup" THEN "key"
    ELSE IF place = "refresh" THEN "pump" ELSE "sleep"

\* The test of g_dashPending: a pending request swallows this one.
RequestDashTest ==
    /\ upc \in {"setup", "refresh", "poll"} /\ req = "idle"
    /\ IF dashPending
       THEN upc' = AfterRequest(upc) /\ UNCHANGED req
       ELSE req' = "set" /\ UNCHANGED upc
    /\ UNCHANGED <<shared, workers, pressed, refused, heard>>

RequestDashFlag ==
    /\ req = "set"
    /\ dashPending' = TRUE
    /\ req' = "send"
    /\ UNCHANGED <<jobs, verdicts, reply, busy, workers,
                   upc, pressed, refused, heard>>

\* A mutant: the flag is left up when the queue was full.
RequestDashSendNoRollback ==
    /\ req = "send"
    /\ IF Len(jobs) < JobLen THEN jobs' = Append(jobs, Dash)
                             ELSE UNCHANGED jobs
    /\ req' = "idle" /\ upc' = AfterRequest(upc)
    /\ UNCHANGED <<verdicts, reply, dashPending, busy, workers,
                   pressed, refused, heard>>

RequestDashSend ==
    /\ req = "send"
    /\ IF Len(jobs) < JobLen
       THEN jobs' = Append(jobs, Dash) /\ req' = "idle"
            /\ upc' = AfterRequest(upc)
       ELSE req' = "unset" /\ UNCHANGED <<jobs, upc>>
    /\ UNCHANGED <<verdicts, reply, dashPending, busy, workers,
                   pressed, refused, heard>>

RequestDashUnflag ==
    /\ req = "unset"
    /\ dashPending' = FALSE
    /\ req' = "idle" /\ upc' = AfterRequest(upc)
    /\ UNCHANGED <<jobs, verdicts, reply, busy, workers,
                   pressed, refused, heard>>

-----------------------------------------------------------------------------
(* The rest of the UI task's loop().                                       *)

\* No key event in this pass.
NoKey ==
    /\ upc = "key"
    /\ upc' = "pump"
    /\ UNCHANGED <<shared, workers, req, pressed, refused, heard>>

\* A key that sends nothing: navigation, or an infrared code.
QuietKey ==
    /\ upc = "key"
    /\ upc' = "refresh"
    /\ UNCHANGED <<shared, workers, req, pressed, refused, heard>>

\* A mutant: presses jump the queue.
SendIntentToFront ==
    /\ upc = "key" /\ pressed < MaxPress
    /\ pressed' = pressed + 1
    /\ IF Len(jobs) < JobLen
       THEN jobs' = <<pressed'>> \o jobs /\ UNCHANGED refused
       ELSE refused' = refused \cup {pressed'} /\ UNCHANGED jobs
    /\ upc' = "refresh"
    /\ UNCHANGED <<verdicts, reply, dashPending, busy, workers, req, heard>>

\* A key that is an intent: sendIntent() claims, then requestAction() queues
\* it or, the queue being full, the claim is rolled back on the spot.
SendIntent ==
    /\ upc = "key" /\ pressed < MaxPress
    /\ pressed' = pressed + 1
    /\ IF Len(jobs) < JobLen
       THEN jobs' = Append(jobs, pressed') /\ UNCHANGED refused
       ELSE refused' = refused \cup {pressed'} /\ UNCHANGED jobs
    /\ upc' = "refresh"
    /\ UNCHANGED <<verdicts, reply, dashPending, busy, workers, req, heard>>

\* 'u' on the home screen: the UI task stays in ota::runMode() until Esc, and
\* loop() then returns without reaching the pump.
EnterOta ==
    /\ upc = "key"
    /\ upc' = "ota"
    /\ UNCHANGED <<shared, workers, req, pressed, refused, heard>>

LeaveOta ==
    /\ upc = "ota"
    /\ upc' = "key"
    /\ UNCHANGED <<shared, workers, req, pressed, refused, heard>>

\* The refresh after a key, or the scheduled poll, is not due yet.
NotDue ==
    /\ req = "idle"
    /\ \/ upc = "refresh" /\ upc' = "pump"
       \/ upc = "poll"    /\ upc' = "sleep"
    /\ UNCHANGED <<shared, workers, req, pressed, refused, heard>>

\* takeResult(): verdicts before snapshots, until there is nothing left.
PumpVerdict ==
    /\ upc = "pump" /\ verdicts # <<>>
    /\ verdicts' = Tail(verdicts)
    /\ heard' = heard \cup {Head(verdicts).id}
    /\ UNCHANGED <<jobs, reply, dashPending, busy, workers,
                   upc, req, pressed, refused>>

PumpReply ==
    /\ upc = "pump" /\ verdicts = <<>> /\ reply
    /\ reply' = FALSE
    /\ UNCHANGED <<jobs, verdicts, dashPending, busy, workers, uis>>

PumpDone ==
    /\ upc = "pump" /\ verdicts = <<>> /\ ~reply
    /\ upc' = "poll"
    /\ UNCHANGED <<shared, workers, req, pressed, refused, heard>>

\* shouldSleep(): not due, or busy() reads g_busy and finds it set.
StayAwake ==
    /\ upc = "sleep"
    /\ upc' = "key"
    /\ UNCHANGED <<shared, workers, req, pressed, refused, heard>>

\* The sleep is due and busy() has read g_busy as false ...
BusyFlagClear ==
    /\ upc = "sleep" /\ ~busy
    /\ upc' = "sleepQueue"
    /\ UNCHANGED <<shared, workers, req, pressed, refused, heard>>

\* ... and now counts the waiting jobs.
JobsWaiting ==
    /\ upc = "sleepQueue" /\ jobs # <<>>
    /\ upc' = "key"
    /\ UNCHANGED <<shared, workers, req, pressed, refused, heard>>

\* Deep sleep is a reset: everything the two tasks share is in plain RAM.
GoToSleep ==
    /\ upc = "sleepQueue" /\ jobs = <<>>
    /\ upc' = "asleep"
    /\ verdicts' = <<>> /\ reply' = FALSE
    /\ dashPending' = FALSE /\ busy' = FALSE
    /\ wpc' = "connect" /\ hand' = Dash /\ ok' = FALSE
    /\ rediscovered' = FALSE
    /\ UNCHANGED <<jobs, req, pressed, refused, heard, acked, resent>>

Wake ==
    /\ upc = "asleep"
    /\ upc' = "setup"
    /\ UNCHANGED <<shared, workers, req, pressed, refused, heard>>

-----------------------------------------------------------------------------
(* The worker task.                                                        *)

\* The association before the loop; the loop is entered whatever came of it.
FirstConnect ==
    /\ wpc = "connect"
    /\ wpc' = "wait"
    /\ UNCHANGED <<shared, hand, ok, rediscovered, acked, resent, uis>>

TakeJob ==
    /\ wpc = "wait" /\ jobs # <<>>
    /\ hand' = Head(jobs)
    /\ jobs' = Tail(jobs)
    /\ wpc' = "taken"
    /\ UNCHANGED <<verdicts, reply, dashPending, busy,
                   ok, rediscovered, acked, resent, uis>>

SetBusy ==
    /\ wpc = "taken"
    /\ busy' = TRUE
    /\ wpc' = IF hand = Dash THEN "clear" ELSE "start"
    /\ UNCHANGED <<jobs, verdicts, reply, dashPending,
                   hand, ok, rediscovered, acked, resent, uis>>

\* A mutant: the flag is not cleared when the job is taken.
KeepDashPending ==
    /\ wpc = "clear"
    /\ wpc' = "start"
    /\ UNCHANGED <<shared, hand, ok, rediscovered, acked, resent, uis>>

ClearDashPending ==
    /\ wpc = "clear"
    /\ dashPending' = FALSE
    /\ wpc' = "start"
    /\ UNCHANGED <<jobs, verdicts, reply, busy,
                   hand, ok, rediscovered, acked, resent, uis>>

\* A mutant: the static Reply keeps the outcome of the job before.
StartJobStaleReply ==
    /\ wpc = "start"
    /\ wpc' = "run"
    /\ UNCHANGED <<shared, hand, ok, rediscovered, acked, resent, uis>>

\* runJob() resets the static Reply it fills in.
StartJob ==
    /\ wpc = "start"
    /\ ok' = FALSE
    /\ wpc' = "run"
    /\ UNCHANGED <<shared, hand, rediscovered, acked, resent, uis>>

\* A mutant: a dead end returns without a word.
DeadEndSilent ==
    /\ wpc = "run"
    /\ wpc' = "done"
    /\ UNCHANGED <<shared, hand, ok, rediscovered, acked, resent, uis>>

\* No request leaves the device: the poll falls into the Wi-Fi backoff, the
\* association fails, no gateway is found, or the client will not begin.
DeadEnd ==
    /\ wpc = "run"
    /\ wpc' = "deliver"
    /\ UNCHANGED <<shared, hand, ok, rediscovered, acked, resent, uis>>

\* code > 0: the gateway answered, with a 2xx or with an error.
HttpAnswer ==
    /\ wpc = "run"
    /\ ok' \in BOOLEAN
    /\ acked' = IF ok' /\ hand # Dash THEN acked \cup {hand} ELSE acked
    /\ rediscovered' = FALSE
    /\ wpc' = "deliver"
    /\ UNCHANGED <<shared, hand, resent, uis>>

\* code <= 0: no answer.  Unless g_rediscovered is up, the gateway is looked
\* for again and, if found, the job goes back into the queue.
HttpSilence ==
    /\ wpc = "run"
    /\ rediscovered' = TRUE
    /\ \/ wpc' = "deliver"
       \/ /\ ~rediscovered
          /\ wpc' = IF hand = Dash THEN "reflag" ELSE "resend"
    /\ UNCHANGED <<shared, hand, ok, acked, resent, uis>>

Reflag ==
    /\ wpc = "reflag"
    /\ dashPending' = TRUE
    /\ wpc' = "resend"
    /\ UNCHANGED <<jobs, verdicts, reply, busy,
                   hand, ok, rediscovered, acked, resent, uis>>

CountResend ==
    IF hand = Dash \/ resent[hand] = RetryCap THEN resent
    ELSE [resent EXCEPT ![hand] = @ + 1]

\* A mutant: the re-sent job is delivered as well.
ResendAndDeliver ==
    /\ wpc = "resend"
    /\ IF Len(jobs) < JobLen
       THEN jobs' = Append(jobs, hand) /\ resent' = CountResend
       ELSE UNCHANGED <<jobs, resent>>
    /\ wpc' = IF hand = Dash THEN "unflag" ELSE "deliver"
    /\ UNCHANGED <<verdicts, reply, dashPending, busy,
                   hand, ok, rediscovered, acked, uis>>

\* A mutant: the full queue is not noticed.
ResendUnbounded ==
    /\ wpc = "resend"
    /\ jobs' = Append(jobs, hand) /\ resent' = CountResend /\ wpc' = "done"
    /\ UNCHANGED <<verdicts, reply, dashPending, busy,
                   hand, ok, rediscovered, acked, uis>>

Resend ==
    /\ wpc = "resend"
    /\ IF Len(jobs) < JobLen
       THEN jobs' = Append(jobs, hand) /\ resent' = CountResend
            /\ wpc' = "done"
       ELSE wpc' = (IF hand = Dash THEN "unflag" ELSE "deliver")
            /\ UNCHANGED <<jobs, resent>>
    /\ UNCHANGED <<verdicts, reply, dashPending, busy,
                   hand, ok, rediscovered, acked, uis>>

Unflag ==
    /\ wpc = "unflag"
    /\ dashPending' = FALSE
    /\ wpc' = "deliver"
    /\ UNCHANGED <<jobs, verdicts, reply, busy,
                   hand, ok, rediscovered, acked, resent, uis>>

\* A mutant: verdicts go through an overwrite queue as snapshots do.
DeliverOverwrites ==
    /\ wpc = "deliver"
    /\ \/ hand = Dash /\ reply' = TRUE /\ UNCHANGED verdicts
       \/ /\ hand # Dash
          /\ verdicts' = <<[id |-> hand, ok |-> ok]>>
          /\ UNCHANGED reply
    /\ wpc' = "done"
    /\ UNCHANGED <<jobs, dashPending, busy,
                   hand, ok, rediscovered, acked, resent, uis>>

\* deliver(): a snapshot overwrites the one slot; a verdict is queued, and
\* what xQueueSend() says about a full queue is not looked at.
Deliver ==
    /\ wpc = "deliver"
    /\ \/ hand = Dash /\ reply' = TRUE /\ UNCHANGED verdicts
       \/ /\ hand # Dash
          /\ verdicts' = IF Len(verdicts) < VerdictLen
                         THEN Append(verdicts, [id |-> hand, ok |-> ok])
                         ELSE verdicts
          /\ UNCHANGED reply
    /\ wpc' = "done"
    /\ UNCHANGED <<jobs, dashPending, busy,
                   hand, ok, rediscovered, acked, resent, uis>>

\* The local Job is dead until the next xQueueReceive() fills it.
ClearBusy ==
    /\ wpc = "done"
    /\ busy' = FALSE
    /\ wpc' = "wait" /\ hand' = Dash
    /\ UNCHANGED <<jobs, verdicts, reply, dashPending,
                   ok, rediscovered, acked, resent, uis>>

-----------------------------------------------------------------------------
RequestDash == \/ RequestDashTest \/ RequestDashFlag
               \/ RequestDashSend \/ RequestDashUnflag

\* What loop() does without anybody's help.
Loop == \/ RequestDash \/ NoKey \/ NotDue \/ PumpVerdict \/ PumpReply
        \/ PumpDone \/ StayAwake \/ BusyFlagClear \/ JobsWaiting \/ GoToSleep

\* What the person holding the device does.
User == QuietKey \/ SendIntent \/ EnterOta \/ LeaveOta \/ Wake

RunJob == \/ StartJob \/ DeadEnd \/ HttpAnswer \/ HttpSilence
          \/ Reflag \/ Resend \/ Unflag \/ Deliver

\* Deep sleep stops the worker too.
Worker ==
    /\ upc # "asleep"
    /\ \/ FirstConnect \/ TakeJob \/ SetBusy \/ ClearDashPending
       \/ RunJob \/ ClearBusy

Next == Loop \/ User \/ Worker

Spec == Init /\ [][Next]_vars

\* Both tasks keep running: every call the worker blocks in has a timeout,
\* and loop() blocks only in ota::runMode(), which is the user's to leave.
Fairness == WF_vars(Loop) /\ WF_vars(Worker)

\* The house is reachable now and then: a press that is tried again and again
\* is answered in the end.
GatewayFairness == \A p \in Presses : SF_vars(hand = p /\ HttpAnswer)

FairSpec == Spec /\ Fairness

LiveSpec == Spec /\ Fairness /\ GatewayFairness

-----------------------------------------------------------------------------
(* Where a press can be.                                                   *)

QueuedPresses == {jobs[i] : i \in DOMAIN jobs} \ {Dash}

\* The worker holds a job from taking it until it has delivered or re-sent.
Holding == wpc \notin {"connect", "wait", "done"}

PressInHand == IF Holding THEN {hand} \ {Dash} ELSE {}

VerdictIds == {verdicts[i].id : i \in DOMAIN verdicts}

\* Presses that were accepted and are still on their way to a verdict.
Owed == QueuedPresses \cup PressInHand \cup VerdictIds

-----------------------------------------------------------------------------
(* Properties.                                                             *)

\* The variables hold what the code's types and queue depths allow.
TypeOK ==
    /\ jobs \in Seq(Jobs) /\ Len(jobs) <= JobLen
    /\ verdicts \in Seq(Verdict)
    /\ Len(verdicts) <= VerdictLen
    /\ reply \in BOOLEAN /\ dashPending \in BOOLEAN /\ busy \in BOOLEAN
    /\ wpc \in WorkerPlaces /\ hand \in Jobs
    /\ ok \in BOOLEAN /\ rediscovered \in BOOLEAN
    /\ upc \in UiPlaces /\ req \in ReqPlaces
    /\ pressed \in 0 .. MaxPress
    /\ refused \subseteq Presses /\ heard \subseteq Presses
    /\ acked \subseteq Presses /\ resent \in [Presses -> 0 .. RetryCap]

\* g_dashPending is never up with nothing behind it: a snapshot job waits, or
\* one of the two tasks is at the very point that queues one or takes the
\* flag down.  Otherwise requestDash() would swallow every later poll
\* ("polling would stop for good", requestDash).  The worker handles the flag
\* for a snapshot job only.
DashPendingBacked ==
    /\ dashPending =>
        \/ \E i \in DOMAIN jobs : jobs[i] = Dash
        \/ req \in {"send", "unset"}
        \/ hand = Dash /\ wpc \in {"taken", "clear", "resend", "unflag"}
    /\ wpc \in {"clear", "reflag", "unflag"} => hand = Dash

\* An accepted press is in one place only: once in the job queue, or in the
\* worker's hand, or once among the verdicts, or settled.  So it is never
\* answered twice and a refused press is never run.
OnePlace ==
    /\ \A i, j \in DOMAIN jobs : jobs[i] = jobs[j] /\ jobs[i] # Dash => i = j
    /\ \A i, j \in DOMAIN verdicts : verdicts[i].id = verdicts[j].id => i = j
    /\ QueuedPresses \cap (PressInHand \cup VerdictIds) = {}
    /\ PressInHand \cap VerdictIds = {}
    /\ Owed \cap (heard \cup refused) = {}
    /\ heard \cap refused = {}
    /\ Owed \cup heard \cup refused \subseteq 1 .. pressed

\* What a verdict says is what the gateway said about that very press: the
\* one static Reply never carries an outcome from one job into the next.
VerdictTruthful ==
    \A i \in DOMAIN verdicts : verdicts[i].ok <=> verdicts[i].id \in acked

\* As the queues stand, press p will be answered before press q.
Ahead(p, q) ==
    \/ \E i, j \in DOMAIN verdicts :
            i < j /\ verdicts[i].id = p /\ verdicts[j].id = q
    \/ p \in VerdictIds /\ q \in PressInHand \cup QueuedPresses
    \/ p \in PressInHand /\ q \in QueuedPresses
    \/ \E i, j \in DOMAIN jobs : i < j /\ jobs[i] = p /\ jobs[j] = q

\* A press is overtaken by a later one only if it was itself put back at the
\* end of the queue after a transport failure (runJob's retry).
PressOrder ==
    \A p, q \in Presses : Ahead(p, q) /\ p > q => resent[q] > 0

\* Polling never stops: the pending flag comes down again, whatever the
\* network does and wherever the UI task is.
PollingResumes == dashPending ~> ~dashPending

\* The verdict of p has just met a full verdict queue: deliver() is through
\* with it, and it is in neither queue.
Dropped(p) ==
    /\ wpc = "done" /\ hand = p
    /\ Len(verdicts) = VerdictLen
    /\ p \notin VerdictIds \cup QueuedPresses

\* Every accepted press is told its verdict in the end.  There are two ways
\* not to be told, and no third: the verdict comes while kQueueLen others wait
\* unread, or the device goes to sleep.  No dead end of runJob() and no retry
\* makes a press disappear.  It takes a person who does not stay in
\* ota::runMode() or call it up again and again (loop() then never pumps), and
\* a house that is reachable now and then.
PressAnswered ==
    <>[](upc # "ota") =>
        \A p \in Presses :
            p \in Owed ~> p \in heard \/ Dropped(p) \/ upc = "asleep"

-----------------------------------------------------------------------------
(* What the client promises, as a ledger of presses.                       *)

Book == INSTANCE Ledger WITH
    Press    <- Presses,
    Depth    <- VerdictLen,
    made     <- 1 .. pressed,
    asked    <- QueuedPresses \cup PressInHand,
    answered <- VerdictIds,
    told     <- heard \cup refused

\* Every press gets one verdict and is told it once.  It goes untold only if
\* its verdict finds the verdict queue full of others that are still unread
\* (deliver), or the device is switched off.
KeepsBook == Book!Spec

=============================================================================
