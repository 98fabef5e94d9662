# Verification of m5-smarthome

TLA+ models of the remote's firmware (`firmware/`) and of the gateway it talks
to (`gateway/`), TLC configurations that check them on small instances, and
theorems about them that TLAPS checks for every value of the constants.
Sources are named by their path in the repository.

## The system

A battery-powered remote (ESP32-S3, two cores) shows the state of a house and
sends key presses. A gateway on a Raspberry Pi collects the house's state from
some ten backends, hands it out as one snapshot, and turns a press into one
request to one backend.

```
 keys -> UI task (loop, core 1) --jobs--> worker task (core 0) --HTTP--> gateway --> backends
              ^   overlay store             |  Wi-Fi, mDNS                cache, poller
              +----- verdicts, snapshot ----+
```

### Components

| component | state | operations | talks to |
|---|---|---|---|
| Gateway client `firmware/src/hw_net.cpp` | job, reply and verdict queues, `g_dashPending`, `g_busy`, `g_rediscovered` | `requestDash`, `requestAction`, `takeResult`, `busy`; `worker`, `runJob`, `deliver` | two FreeRTOS tasks over three queues and two flags |
| Wi-Fi link `hw_net.cpp`, `hw_store.cpp` | association, fixed address, hint in RTC memory, gateway address in RAM and NVS, backoff | `connectWifi`, `discoverGateway`, the link part of `runJob`; sleep, wake, power cycle | access point, DHCP, mDNS |
| Optimistic overlay `lib/core/optimistic.cpp` | eight claims, the next token | `claim`, `reject`, `settleWith`, `expire`, `apply` | called by `loop()`; verdicts name tokens |
| Reset gesture `lib/core/reset_gesture.cpp` | armed, deadline, hold, fired | `begin`, `feed` | polled by `loop()`, which the OTA mode blocks |
| Gateway service `gateway/m5gw/app.py`, `backends.py` | snapshot cache (time, body, dash), last values and their times | `GET /api/dash`, `POST /api/act`, `Poller.collect` | one thread per request, a pool for fetches |
| Gateway actions `actions.py`, `yamaha_xml.py` | none | `plan`, `macro` | the cached snapshot |
| Snapshot summaries `aggregate.py` | none | `build_dash` | raw replies and the set of fresh ones |
| UI state machine `lib/core/ui_state.cpp` | screen, cursor, prompt, toast, infrared or network | `handleKey` | snapshot with claims applied; intents |
| Control table `lib/core/controls.cpp` | cursor, window, room and infrared flag of its caller | `buildScreen`, `nextSelectable`, `firstVisible`, `adjust`, `activate`, `toggleRoom` | host tests only, so far |
| Action body `lib/core/command.cpp` | none | `buildActionBody`, parsers | gateway's `act` |
| Snapshot parsing `lib/core/dash.cpp` | none | `parseDash`, ages | overlay, UI |
| Power and polling `lib/core/netplan.cpp`, `main.cpp` | times of the last key, poll and frame, age of the snapshot | `shouldPoll`, `shouldSleep`, `backoffDelay`, `ageMs`, `isStale` | client, link |
| Store and boot `hw_store.cpp`, `main.cpp` | five NVS keys, seed fingerprint, RTC memory | `load`, `save`, `erase`, seeding, first-run setup, snapshot | everything at boot; the worker's write-back |
| OTA, IR, keyboard, drawing | - | - | `loop()` |

### What is hard here

* **Two tasks without a lock.** Queue operations are atomic, but a flag and a
  queue together are not, nor are the two places `busy()` looks at.
* **A retry at the end of the queue** after a transport failure, with one flag
  for all jobs.
* **Claims and verdicts cross.** A verdict for one press may arrive after
  another press on the same field, after a snapshot, or after the claim's time.
* **`millis()` wraps.**
* **Memory of the network across deep sleep.** A bad lease looks like a link.
* **Threads without a lock in the gateway**, with a cache of three parts that
  polls fill over seconds and actions invalidate in an instant.
* **Sources that fail one by one**, and must look neither current nor broken.
* **Polling against sleep.** Both look at the same queue; a job that is always
  there keeps the remote awake, and one that never gets in leaves old data.
* **Five keys and a fingerprint, written one by one**, by two tasks, under a
  power switch and across firmware builds.
* **A cursor and a prompt that outlive the snapshot** they were made on.
* **One request in two languages**: the remote builds it, claims what it will
  do, and the gateway reads it; three tables that must agree.

### What makes each component correct

* Client: an accepted press is in one place, is told at most once, and its
  verdict is the gateway's; it is told unless its verdict meets a full queue;
  polling never stops.
* Link: whatever the hint got wrong is undone; the device finds its way back.
* Overlay: a claim is painted exactly as long as it may be and goes only for a
  reason of its own.
* Reset gesture: wipes on an early, long and continuous hold only, and then always.
* Gateway: what is not listed as old is recent; a poll after an action that was
  answered shows its effect; silence blanks nothing; every request is answered.
* UI: a key on the room list acts on the room shown; no fog without a prompt
  that was on the screen.
* Actions: the gateway takes what the remote sends; the remote claims what the
  gateway asks the house for.
* Control table: a row asks for what it claims, by the path that is set, and the
  window keeps the cursor in sight.
* Power: what looks fresh is, data look old only for a cause, a remote left
  alone sleeps.
* Boot: what is in use was entered together and last; the values compiled into
  a build win over any that came before.

## Modules

| module | models | state and actions |
|---|---|---|
| `Ledger` | what the client promises: presses made, asked, answered and told | `Accept`, `TurnAway`, `Answer`, `Lose` (only when `Depth` verdicts wait), `Tell`, `PowerDown` |
| `NetClient` | `hw_net.cpp` and its callers in `main.cpp` | one action per access to shared state; `upc`, `req`, `wpc` are the two program counters |
| `MCNetClient` | claims of comments and documents about it | |
| `NetClientProofs` | theorems about `NetClient` | |
| `WifiLink` | association, discovery, what survives sleep | `stage` is where the worker is; `Turmoil` is the world |
| `MCWifiLink` | claims of comments and documents about it | |
| `OverlayStore` | `optimistic.cpp` driven by `loop()` | `stage` is how far a pass of `loop()` has come |
| `MCOverlayStore` | claims of comments and documents about it | |
| `OverlayStoreProofs` | theorems about `OverlayStore` | |
| `ResetGesture` | `reset_gesture.cpp` polled by `loop()` | `Feed`, `ShortPass`, `OtaPass` |
| `ResetGestureProofs` | theorems about `ResetGesture` | |
| `Gateway` | `app.py`, `Poller`, `old` of `build_dash` | `pc` and the locals `me` of each request thread |
| `MCGateway` | two small houses, claims of documents about it | |
| `GatewayProofs` | theorems about `Gateway` | |
| `Actions` | `buildActionBody`, `claimFor`, `sendTeufelIr`, and on the other side `plan`, `macro` | pure operators on intents, requests and snapshots |
| `UiState` | `handleKey` and the pass of `loop()` around it; extends `Actions` | `HandleKey` has a disjunct per branch of `handleKey`; `stage` as above; `drawn` is what the last frame showed |
| `MCUiState` | room lists and houses, claims of documents and tests about it | |
| `UiStateProofs` | theorems about `UiState` | |
| `Controls` | `controls.cpp` and its table under the keys `controls.h` promises it; extends `Actions` | a row is a record; `Activate` and `Adjust` have a disjunct per kind of row |
| `MCControls` | room lists and houses, a claim of a comment about it | |
| `ControlsProofs` | theorems about `Controls`, on top of `UiStateProofs` | |
| `Power` | `netplan.cpp`, the ages of `dash.cpp`, `loop()`'s polling and sleeping, a worker whose jobs take time | `stage` is how far a pass has come, `work` what the worker holds; `Tick` is time |
| `MCPower` | claims of documents and comments about it | |
| `PowerProofs` | theorems about `Power` | |
| `Boot` | `hw_store.cpp`'s configuration, seeding and setup in `setup()`, `erase`, `discoverGateway`'s write-back | `pc` is the main task, `find` the worker; a write is one key |
| `MCBoot` | claims of comments about it | |
| `BootProofs` | theorems about `Boot`, and about `WifiLink` as an instance | |

Operators whose comment begins with "A mutant" are variants of the operator
that follows them, each with a bug one might really write. Nothing uses them in
the specifications. With one of them in the operator's place TLC finds the
property they are paired with violated, which shows that the property depends
on that piece of code.

The type invariants of `OverlayStore`, `ResetGesture` and `Gateway` are in no
run: TLAPS proves them for every value of the constants (`OverlayTypeCorrect`,
`ResetTypeCorrect`, `GatewayTypeCorrect`), and the runs are left to properties
that say more. The other modules' are checked and proved.

### Abstractions

* A press is the token of its claim; token 0 is a snapshot request. What is
  sent, and to what, plays no part in the client.
* How a job ends is one of: nothing left the device (`DeadEnd`), an answer, or
  silence. `WifiLink` models what leads to which, without the queues.
* Times: in `OverlayStore` and `ResetGesture` `millis()` is a number modulo a
  small `Clock`, with the true elapsed time as history beside it. In
  `NetClient` and `WifiLink` anything may take any time.
* A field has two values, enough to agree with a snapshot or not. Rooms keep
  the one pair of fields that paint over each other. What a snapshot has is the
  value of each field, the rooms it lists, and the header's count of lit rooms,
  which is the gateway's own and need not be the number lit among the listed.
* A reading in `Gateway` carries the number of writes the backend had seen, the
  time, and its shape: a section can be built from it, or it adds nothing to one,
  or it raises an exception in the summary. The poller stores all three as the
  last good value; a reply that cannot be decoded is a failed one.
* In `UiState` of the snapshot only the list of rooms is state. What else a key
  looks at (on, brightness, volume, the effect shown) is an input of that key,
  and so are the cycle indices, each of which may be anything in its list. A
  console line is known by what it parses to. `Screen::Room` is left out,
  nothing leads to it; so are actions of the gateway that the remote has no
  key or line for. Toasts and claims are left to `OverlayStore`.
* `Power`: a tick is two seconds. The constants of the run keep the order poll
  intervals, age at which data are called old, time to sleep, and the ratios the
  proofs assume (two idle intervals fit into that age). They are not to scale:
  the first pause of the backoff is one tick like the active interval (half of it
  in the code), and the active window and the longest pause are shorter than the
  age, where in the code they are longer. Time passes only when nothing is left to do at once: a pass of
  `loop()` and a step of the worker take milliseconds. Clocks are counts of
  ticks since or until; of a snapshot's stamp only its side of the clock is
  kept (now, ahead of a clock that wrapped, restored from sleep). A pass with
  nothing new in it is left out, it changes nothing. `g_dashPending` is read off
  the queue; where two snapshot requests wait (`OneDashWaits`) the code's flag is
  down after the first is taken and a third may join. A snapshot always fits
  into RTC memory; the code refuses one of 1400 bytes, after which a wake finds
  what an earlier sleep left, or nothing.
* `Boot`: a value is known by the set it was entered with. A fingerprint stands
  for the values it was made from (a hash of 32 bits, taken to be injective).
  Clearing the namespace is one step, as it is one call; a write that fails is
  not modelled, `save()` reports it and nobody looks. Rewriting the stored set
  with itself is the same steps.
* `Controls`: nothing in the firmware calls the control table yet. The caller
  modelled is the one `controls.h` describes: it builds the list anew for each
  key and confirms through the gate of `ui_state.cpp`. What the house shows is
  an input of the key.
* `StartDash` tests the cache and reads the clock in one step; the time that
  `collect()` reads a few instructions later is the same.

## Runs

Passing runs (`expect: pass`):

| run | question | bounds and why they are enough |
|---|---|---|
| `net_client` | no interleaving of the two tasks breaks the flag, doubles or mixes up a press, or reorders one that was not retried; polling resumes | queues of 2 (full, half full and empty all occur), two presses, so one may wait behind the other, a retry behind both, and a press find the queue full; one retry told apart |
| `net_ledger` | the client implements `Ledger`; every accepted press is told, or its verdict met a full queue, or the device slept | both queues of the same length as in the code, of 1, and three presses: the third verdict of a pass finds the queue full, so a loss occurs |
| `wifi_link` | the fixed address never outlives its hint; the device recovers | no bounds but `MinJobs` |
| `overlay` | claims, verdicts and snapshots in any order with a wrapping clock: one claim per field, painted for its time, what the slots come to on the screen, and why a claim goes | 2 slots, so the table is full with two fields; one room, listed or not, and lit rooms that are not listed; one toggle; the clock wraps under live claims; a pass may end in the OTA mode, before verdicts and old claims are looked at |
| `reset` | the gesture, over several wraps and with stays in the OTA mode | window, hold and pass are a few ticks; a stay is as long as the hold; uptime spans several wraps |
| `gateway` | two overlapping requests always end, each step of one counting towards its end, and fail only while a source is new | one source; writes play no part |
| `gateway_one` | one request at a time: recent, real, not blanked by silence | a fast and a slow source, time for a slow reading to fall due and go stale; replies that fit and replies that raise an exception (an empty one shows as little: each section has one source); actions that end as a 500 |
| `ui` | every key, screen, kind of line, snapshot and sleep, against the gateway's reading of what is sent | lists of 0, 1, 3 and 8 rooms (more than Home has rows); readings at and next to the ends of their ranges; houses of which everything, nothing, one thing or all but one is known |
| `controls` | every key on every row, with rooms coming and going | a list of 8 rooms is longer than its window of 7, the others are shorter; readings at, next to and off the ends and the grid of each row |
| `power` | data that look fresh are; old data have a cause; a remote left alone sleeps | three failures, so the pause doubles and meets its maximum; a queue of 2 and one press at a time, so a poll finds it empty, half full and full; exchanges shorter than and as long as the idle interval; ages to just past stale |
| `boot` | what is in use was entered together and last, and a build's values win | two builds with values and one without, two typed sets, one of each pair without password and host; no bound on boots, power cuts, erasures or reflashes |

Runs that show a disagreement between a document or comment and the code
(`expect: violation`); each checks one property:

| run | what the code does |
|---|---|
| `gateway_race` | a poll undoes an action's invalidation |

### Further disagreements

What else documents, comments and tests claim and the code does not keep. Each
claim is an operator of the module named, with the text it takes at its word in
the comment above it, and TLC finds it violated. A claim that needs constants of
its own has a configuration beside the runs (`tlc -config X.cfg M.tla`); for the
others put the claim in place of the properties in the configuration named.

| claim | module | configuration | what the code does |
|---|---|---|---|
| `VerdictsKept` | `MCNetClient` | `net_verdicts_kept` | a verdict is dropped when its queue is full |
| `OneRetry` | `MCNetClient` | `net_one_retry` | a press is re-sent more than once |
| `OneDashWaits` | `MCNetClient` | `net_one_dash_waits` | two snapshot requests wait, and one more with every further round, up to a full queue |
| `NoSleepOnRequest` | `MCNetClient` | `net_no_sleep_on_request` | sleep between taking a job and marking it |
| `MovedGatewayFound` | `MCWifiLink` | that of `wifi_link` | a moved gateway is not found by a device that wakes on the fast path |
| `NoOldHintUsed` | `MCWifiLink` | that of `wifi_link` | a hint of any age is used |
| `PressShows` | `MCOverlayStore` | that of `overlay` | an off stays invisible behind an older brightness claim |
| `RelativePressMoves` | `MCOverlayStore` | that of `overlay` | a second relative press does not move the screen |
| `SettlingIsSilent` | `MCOverlayStore` | that of `overlay` | a claim that retires lets another one show through |
| `SnapshotSettles` | `MCOverlayStore` | that of `overlay` | a snapshot that disagrees with a claim settles nothing: the claim shows over it until its time is up |
| `PollConfirmsInfrared` | `MCOverlayStore` | that of `overlay` | a snapshot that agrees with an infrared claim leaves it as it is |
| `OldestMakesRoom` | `MCOverlayStore` | `overlay_oldest` | the first slot makes room, not the oldest claim |
| `ReusedForTtl` | `MCGateway` | `gateway_reuse` | a snapshot of any age is served as current between two assignments |
| `NeverBlanked` | `MCGateway` | that of `gateway`, or of `gateway_one` | a slower poll takes back what a faster one showed; a reply of another shape than expected is stored in place of the last good one |
| `NextPollSeesWrite` | `MCGateway` | that of `gateway_one` | an exception that `fetch()` does not catch ends an action after a request went out and before the cache is dropped: the next poll shows the house from before |
| `OneRoundPerBurst` | `MCGateway` | that of `gateway` | a burst of polls costs as many rounds |
| `NoStaleInput` | `MCGateway` | `gateway_input` | one of two inputs is stale and the section is not old |
| `NoToggleOnALie` | `MCGateway` | `gateway_toggle` | two quick toggles send the same value |
| `ContinuousHold` | `ResetGesture` | that of `reset` | two presses around the OTA mode count as one hold |
| `GoodNightAsks` | `MCUiState` | that of `ui` | `nacht` on the console sends the macro without asking |
| `HomeCursorInRange` | `MCUiState` | that of `ui` | from the room list through the console, the cursor on Home is past the last row |
| `ClaimWithinRange` | `MCUiState` | that of `ui` | at the end of the volume range the claim goes on, until the next snapshot |
| `InfraredInput` | `MCUiState` | that of `ui` | by infrared every input press sends AUX, whatever is claimed |
| `VolumeStopsAtTheEdge` | `MCControls` | that of `controls` | a volume off the grid of its row, or past its end, is stepped out of the row |
| `GoesToSleep` | `MCPower` | that of `power` | requests that run into their timeout fill the time between two polls: the remote never sleeps |
| `StampedOnArrival` | `MCPower` | that of `power` | a snapshot that arrived during a stay in the OTA mode is dated when the stay ends |
| `WipesEverything` | `MCBoot` | that of `boot` | the worker writes a configuration back that the reset gesture has just erased |
| `NoMixture` | `MCBoot` | that of `boot` | a seeding cut short is completed by a build without values: name and token of different origin |

Deadlock is checked except in the run `reset`, where the device really stops
(`ESP.restart()`), and in those whose configuration says so because the bound
on presses or time is used up.

### Fairness

* `NetClient`: weak fairness of each task's own steps. FreeRTOS runs both, each
  on a core of its own, and every call the worker blocks in has a timeout;
  `loop()` blocks only in `ota::runMode()`, and `PressAnswered` speaks of a user
  who in the end stays out of it (`<>[](upc # "ota")`): what it promises is that
  the press is told, or that its verdict met a full queue, or that the device
  sleeps. `GatewayFairness` says that a press tried again
  and again is answered once: without it the retry may go on for ever.
* `WifiLink`: the worker runs and the backoff ends; `LiveSpec` adds that the
  device is put down and picked up again. `Recovers` speaks of a world that has
  become calm.
* `Power`: `loop()` runs, the worker takes jobs and its calls end, time passes;
  nothing is assumed of the user or of what a call returns.
  `SleepsWhenLeftAlone` therefore excludes a user who keeps pressing, a prompt
  and OTA mode left open, jobs that again and again last as long as the polling
  interval, and a gateway that alternates between silence and answers for ever.
* `Gateway`: the request threads run. Nothing is assumed of the backends.

## Proofs

Every `*Proofs` module extends the module it is about, so its theorems speak of
the specifications that TLC runs (`WifiLink` is instantiated, unchanged). They assume what the `ASSUME` of that module
says of the constants, and nothing else unless it stands in the theorem. Each
invariant below was checked by TLC on the bounds of the component's run before
it was proved.

**Client** (`NetClientProofs`; queue depths are positive, bounds are numbers).

* `TypeCorrect`, `DashPendingAlwaysBacked`, `OnePlaceAlways`: the first and the
  last are inductive as they stand, the last because it also says where tokens
  come from, so a new press is nowhere yet. The flag needs the types beside it:
  the invariant names the program points at which it may be up alone.
* `VerdictTruthfulAlways`: `runJob` shares one static `Reply` among all jobs. The
  invariant says at which points of the worker that reply is about the job in
  hand, and that a press still to be run has not been acknowledged.
* `PressOrderAlways` needs `OnePlace`: who is ahead of whom is decided by the one
  place a press is in. `RetryCap > 0` because a history capped at 0 could not
  tell that a press was put back.
* `KeepsBookAlways`: the client implements `Ledger` for queues of any length. The
  steps that matter are the two of `deliver`: a verdict that finds room is an
  answer, and one that finds none is a loss, which `Ledger` allows only while
  `Depth` answers wait. For that the invariant counts: as many answers wait as
  there are verdicts in the queue (`VerdictsWaiting`), since no press has two.
  `VerdictsKept`, that nothing is lost, is what the code does not keep: both
  queues have `kQueueLen` places, and more can come back between two pumps.

**Overlay** (`OverlayStoreProofs`; times to live and passes shorter than half the
range of `millis()`, as the signed difference requires).

* `OverlayTypeCorrect`, `OneClaimPerFieldAlways`, `PaintedForItsTimeAlways`. The
  invariant adds that a token is given out once, and that a deadline is the
  claim's remaining time from now on a clock that may have wrapped in between;
  a dead claim is taken out by the pass that finds it, so it never grows old
  enough for the signed difference to turn again (`AliveIfYoung`).
* `ClaimLeavesForCauseAlways`, from the same invariant.
* `ClaimsShowAlways`: `View` is a recursive function over the slots, the loop of
  `apply()`, followed by its recount of the lit rooms. The recursion theorem for
  it (`Recursion`) and induction over the slots (`Induction`, by the least
  counterexample) are proved in the module; slot after slot, the claims so far
  show in the view so far (`ViewShows`) if the snapshot lists their room, but for
  a room claimed off below a living claim on its brightness.
* `PressShowsOrLitAlways`: from this and the slot a press takes. It is what the
  code keeps of `PressShows`: the one way a press can stay invisible is the one
  TLC found.

**Reset gesture** (`ResetGestureProofs`; what the gesture measures is short beside
`millis()`, the stays away from it, `Longest`, included).

* `ResetTypeCorrect`, `WipeIsMeantAlways`, `LongHoldFiresAlways`. Before the first
  wrap the clock arithmetic is exact (`NotYetWrapped`, `WindowIsSeen`). The
  invariant shows that it never has to be more: the gesture is disarmed by the
  end of its window or of a hold that began in it, both long before half the
  range, and stays disarmed (`ArmedEarly`); a hold was noticed in the window and
  is looked at often enough (`HoldNoticed`); the key has been down since
  (`HeldSince`), and one seen down in time is being counted (`DownIsNoticed`).

**Gateway** (`GatewayProofs`; any threads, sources, sections and times to live;
what is written to is not among the slow sources, as in `SLOW_SOURCES`).

* For any number of overlapping requests: `GatewayTypeCorrect`, and
  `NoErrorOnceKnownAlways`, because nothing known is ever forgotten.
* `EveryStepIsProgressAlways`, `NobodyStuckAlways`: the part of `EveryRequestEnds`
  that needs no fairness. A thread has at most nine steps and two for every
  source to take (`Left`); each of its own takes one off at least (`HandleGoes`),
  nobody else's adds any (`Onwards`), and while some are left the guard of one
  holds (`CanGoOn`), because the loops over futures and plans always have a next
  one (`SomebodyIsForemost`) and none waits for an answer. With weak fairness of
  `Handle` every request ends; that last inference is TLC's.
* While requests come one at a time (`OneAtATime`, one thread), whatever the
  shapes of the replies and however many actions end as a 500:
  `CurrentIsRecentAlways`, `PollAfterWriteAlways`, `ShownStaysShownAlways`. With
  overlapping requests the code keeps none of them, as the violated claims of
  `MCGateway` show. The invariant follows a round of `collect()`: what it
  brings is no older than the request and has seen every write announced before
  (`RoundOK`); what it did not ask for is on the slow clock, was read within
  `SLOW_TTL` and is not written to (`FreshIsSound`); the snapshot built from
  this is good for its time (`BuiltIsGood`) and so is the cached one until an
  action drops it (`CacheIsGood`); a hit comes while that time lasts. Writes of an
  action that raised an exception are not among those announced, and nothing is
  said of them (`NextPollSeesWrite` is false). A section is blanked by nothing
  but an answer (`OnlyAnswersBlank`), because what is known stays known
  (`KnownStaysKnown`).

**User interface** (`UiStateProofs`; rooms are numbered 1 to 999, the receiver's
volume is a number when it is known).

* `TakenByGatewayAlways`, `ClaimIsWhatIsAskedAlways`: every key and line sends one
  of the requests listed at the top of the module (`SentIsRequest`), and of each
  of those `Plan` and `Claim` agree for any snapshot, target by target
  (`HueAgrees` to `FogAgrees`). The second half is about `Actions` alone.
* `FogOnlyAfterPromptAlways`, `ActsOnTheRoomShownAlways`: a key acts on what is
  stored, the user on what was drawn. The invariant says that the two are the
  same unless a redraw is due, and that none is when `loop()` looks at the
  keyboard, but for the Home screen after a boot.
* `UiTypeCorrect`.

**Control table** (`ControlsProofs`; as above, and every reading a row shows is a
number).

* `RowsAgreeAlways`: not proved anew. Whatever a row sends is one of the requests of
  `UiStateProofs`, which is used here as an instance, so the contract proved there
  holds for it. For that, each row of the table must be one `activate` and
  `adjust` know how to read (`WellMade`), a row of a room must refuse when the
  room is gone (`EnabledRoom`), and what a row asks for must be in the range of
  its target (`FlipFits`, `ChoiceSends`, `LevelSends`).
* `OnePathAlways`: the two functions that decide the path agree with the target of
  what they send, row by row.
* `WindowFollowsAlways`: `WindowFacts` says of `firstVisible` alone that it keeps
  the cursor in sight and moves as little as possible, for lists and windows of
  any length. Steps that do not call it rely on the invariant that the window is
  right already (`InSight`).
* `ControlsTypeCorrect`: the cursor lands on a row that can be landed on, or stays
  (`CursorLands`).

**Power** (`PowerProofs`; two idle intervals fit into the age at which data are
called old, as in `netplan.h` and `dash.h`).

* `PowerTypeCorrect`; `FreshIsRecentAlways`, from the relation between a
  snapshot's stamp, its age and the true one (`MadeIsStamped`).
* `OldOnlyInTroubleAlways`: as long as nothing is in the way only polls are
  queued, the next one is asked for in time (`PollsInTime`) and answered before
  the label turns (`AnsweredInTime`).
* `BackoffDoubles`: `backoffDelay` starts at the start, doubles until it is the
  maximum, never shrinks and gets to the maximum. Its doubling is a recursive
  function; that there is one with these values is proved first (`Recursion`).

**Boot** (`BootProofs`; a set of values that was entered is not blank: `setup()`
and `runSetup()` see to that).

* `BootTypeCorrect`, `InUseWasEnteredAlways`, `BakedWinsAlways`. The invariant
  adds what a power cut leaves behind: which keys have been written when
  `save()` is interrupted (`Writing`), that the flash then holds no token, the
  set entered last, or a seeding that the next boot repeats (`Stored`), that a
  fingerprint is only found beside a configuration that loads (`SeededLoads`),
  and what the worker's copy is worth (`WrittenBack`). The order of the keys
  matters once: the name is written before the token, so a torn seeding is
  recognised by its name.

**Link** (at the end of `BootProofs`, about `WifiLink` as the instance `Link`).

* `AddressDropsWithHintAlways`: the types and the fixed address, together
  inductive. `MinJobs` plays no part in it.

Only model-checked:

* All liveness (`PollingResumes`, `PressAnswered`, `EveryRequestEnds`, `Recovers`,
  `SleepsWhenLeftAlone`): TLAPS 1.4.5 has no rules for fairness and `ENABLED`.

## Plan

Done: the modules above, and the proofs of every safety property of the runs.
What is left:

1. `Remote`: client, overlay and a house composed over tokens. `OverlayStore` lets
   verdicts and snapshots come in any order, which covers whatever the client
   does; what a composition adds is which snapshot a claim may be settled by.
2. `Gateway` with macros over several sources in a run: one source is written to
   in `gateway_one`, and the proofs alone speak of more.

## Not modelled

* Drawing, the pulse encoding of infrared codes, the key map, the word matching
  of the console and the JSON and XML readers: stateless, pinned by host tests.
* Dimming of the backlight (`backlightFor`): it changes nothing else.
* `retryAtMs` on a clock that wraps: `Power` counts the pause down; the remote
  would have to be awake for 24 days.
* Writes to flash that fail: `save()` reports it and no caller looks.
* The protocols of DHCP, mDNS, HTTP and OTA: libraries, modelled by how the code
  uses them.
* Build and repository tools, and the sleep probe, a program of its own.
