# Trustmile in TLA+

Trustmile keeps the mileage of cars on a Corda ledger.  A track with two slot
cars stands for the road: sensors count laps, a device turns every lap into
1000 km and sends it by MQTT to an Azure IoT hub, from where it is posted to the
web server of the car's Corda node.  Flows put it on the ledger, compare it with
what was there, and mark the car FRAUD when the mileage was turned back; the
insurer's node sees the same state and web pages show both.

This directory holds a formal model of that system: TLA+ modules, the TLC
configurations that check them on small instances, and TLAPS proofs.  Every
definition is a translation of the sources; `PROJECT.json` maps each one to the
lines it stands for.

## The system

| Part | Where | State it keeps | Operations | What makes it correct |
|---|---|---|---|---|
| Contracts | `contracts/` | `CarState`, `CarEventState`: linear states, a new version replaces the one it spends | `create`, `update`, `CarContract.verify`, `CarEventContract.verify` | a chain keeps id, car and vin; no version is spent twice; a `NoUpdate` changes nothing |
| Flows | `workflows/` `CarFlow`, `CarEventFlow` | none of their own: they read the vault, build a transaction, have it signed, notarised and recorded | `Create`, `Update` and their responders | fraud is flagged when and only when the mileage was turned back; accidents are counted; policy and findings are not mixed up |
| Web server | `clients/.../Controller.java` | locals of a request across several calls | `POST /car-event`, `POST /car-policy`, GETs | an answered post has had its effect; every post is answered |
| Vault feed | `clients/.../VaultChangeScheduler.java` | a subscription to the node's vault per class of states | publishes a STOMP message per change, until an error | the page hears of every change while the feeds last |
| Web page | `clients/.../static/caller.js` | the event and policy it shows, and the mileage its next button starts from | load, subscribe, reload on message, buttons that post | what is shown is what the vault holds, or it is coming; a car that only drives on is not accused |
| Track device | `arduino/trustmile-capture` `main.cpp`, `Cars`, `AnalogState` | mileage per car, queue of messages, flag "a task is sending" | `loop`, `handleSwitches`, `sendMqttMessage`, `task_sendMQTTMessages` | a pulse is at most one lap; messages leave in order, none is left behind; a lower mileage comes from the hack button |
| MQTT client | `arduino/trustmile-capture` `Esp32MQTTClient.cpp` | messages in flight with a tracking id, connection status, time-outs | `Init`, `Close`, `CheckConnection`, `SendEventOnce`, confirmation and status callbacks | true is returned only for a message that arrived; the hub gets messages in order and once; every send ends |
| Lap sensor | `arduino/trustmile-lap` | per lane the limit, whether a car is below, the times of debouncing and relay | `setup`, `loop` | one lap per car |
| Azure IoT C SDK | `arduino/*/src/az_iot` (vendored) | outgoing messages, retry timers | `IoTHubClient_LL_*` | one confirmation per message |

How they meet: the sensor closes a relay that the device reads as a switch; the
device's `loop` pushes messages that a FreeRTOS task takes and hands to the MQTT
client; the hub (outside the repository) turns messages into posts; the
Controller calls the vault and the flows of its own node through RPC; flows call
the counterparty's responder, the notary and the vault; the vault feed notifies
the page, which calls the Controller's GETs.

What is hard: requests overlap, and each is several vault queries and two flows
with nothing atomic around them; insurers and cars update the same state from
different nodes; flows fail, and go on when the web server no longer listens;
posts are repeated; on the device a task and `loop` share a queue with no lock,
and confirmations race with time-outs, which a new connection does not end; the
page's reloads and posts overlap; clocks wrap and echoes are missing.  `PROJECT.json` lists each hazard at its
line with the properties that watch it.

## Modules

`InsuredCars` is the abstract specification: for every `CarState` ever issued
one current version, in a `registry`, that changes in two ways only.  `Repolicy`
replaces policy fields and leaves the findings (fraud, accidents), `Reassess`
replaces findings and leaves insurer and terms; a fraud is forgotten only by
`InsureMe`, an accident never.

`CarLedger` is the core: contracts, flows, Controller, vaults and notary.

| Variable | Stands for |
|---|---|
| `events`, `cars` | every `CarEventState` and `CarState` notarised, in the notary's order; a position is a state reference, `prev` the input spent (0: none), `id` the linear id |
| `vault` | per node, the car transactions recorded, in order.  A car event has one participant, whose vault is read off `events` |
| `req` | per thread of the web servers, the request in progress: a program counter and what it has read so far |
| `ackedEvents`, `ackedPolicies` | history: which posts were answered CREATED or OK, and what they wrote |

| Actions | Code |
|---|---|
| `SendCarEvent`, `LookupCar`, `SendCarPolicy` | `Controller.sendCarEvent` to its first check, `getCarStateFromExternalId`, `sendCarPolicy` to its check |
| `ReadEvent`, `FinalizeEvent` | `CarEventFlow`: the input read; transaction built, signed, notarised, recorded |
| `ReadCar`, `ReadConsumed`, `FinalizeCar` | `CarFlow.Update`: its first two queries, its third, the transaction; `FinalizeCar` is also `CarFlow.Create` |
| `NotaryRefuses`, `FlowFails`, `LoseRpc` | the three ways into `catch (Throwable)`: a spent input, a flow that throws, an RPC connection lost while its flow goes on |
| `Deliver` | a participant's node records a transaction another node finalised (the responders) |

A request is cut at every call, since that is where others interleave; what it
read stays in its record and is used stale.  `Wrong...` operators are variants
of a definition with a plausible bug in them; each property has one of them that
violates it, to show that the property depends on the code.

`MCCarLedger` gives the sets TLC needs.  `CarLedgerProofs`, `CarVersionsProofs` and
`AnsweredPostsProofs` hold the theorems.

The track device is several components, two of them composed with what they
meet: the queue with `loop()`, the switch with the lap sensor.

`ReportChannel` is the abstract specification of a way for messages: they come
out in the order they went in and none twice; some may be skipped.  `SendQueue`
implements it towards the MQTT client and `MqttClient` towards the hub, so the
two together do: what one hands on is what the other takes, and a part of a part
of a sequence, in order, is one in order.

`SendQueue` is `sendMqttMessage` and `task_sendMQTTMessages`, which share a
`std::list` and a flag across two cores with no lock.

| Variable | Stands for |
|---|---|
| `next`, `prev`, `body` | the links of the list's ring and its nodes; `body[n] = 0` is a free node |
| `messagesSending` | the flag |
| `post`, `task` | where `loop()` and each task are, with what they have read |
| `posted`, `handed` | history: messages are numbered as they are pushed |

| Actions | Code |
|---|---|
| `NewNode`, `LinkNext`, `LinkPrev` | `push_back`: its reads and writes of links |
| `TestFlag`, `StartTask` | `if (!messagesSending)`; the flag set and the task created, or not |
| `TestEmpty`, `Front`, `Pop`, `UnlinkNext`, `UnlinkPrev`, `Send`, `ClearFlag` | the task, line by line, `pop_front` by its reads and writes of links |
| `Panic`, `Restart` | the device restarts: by itself when `front()` meets a freed node, or at any time |

`AnalogState` is the class that reads a pin as a switch, as pure operators;
`LapSwitch` puts one switch behind a pin whose readings are noisy, and counts; without
WiFi `loop()` does not read it, and `unread` counts the levels of the pin that were over
before they were read.

`LapSensor` (`MCLapSensor` for TLC) is one lane of the lap sensor, from the car under it through the
sensor's `loop()` and its relay to that pin; it extends `LapSwitch`, whose steps
are conjuncts of its own.

| Variable | Stands for |
|---|---|
| `lane`, `pc` | which of the two measurements of `loop()` is ours, and where `loop()` is |
| `millis`, `curr` | the clock, in tenths of a second and wrapping at `MillisSize`; the variable `Curr` |
| `low`, `active`, `state`, `stateSw`, `led`, `ledSw`, `relay` | the variables of the lane and its output pin |
| `present`, `seen`, `unseen`, `absent` | the track: a car below, and the times since |
| `calibrated`, `passages`, `wraps`, `misses`, and `unread` of `LapSwitch` | history |

| Actions | Code |
|---|---|
| `MeasureFreeTrack`, `MeasureCar`, `MeasureBeside`, `MissEcho`, `MeasureOther` | `Measure_Red`, `Measure_Black`: what the echo shows, and the time it takes; the other lane counts as time |
| `DeviceLooks`, in each of these | the device reads the pin, or has no WiFi and does not |
| `Decide` | the rest of `loop()`: debouncing and pulse |
| `CarComes`, `CarGoes` | the track |

`MqttClient` is `Esp32MQTTClient.cpp` on top of what the vendored SDK does in
`IoTHubClient_LL_DoWork`, with the hub at the other end.

| Variable | Stands for |
|---|---|
| `pc`, `event`, `since` | where the sending task is, the message in its hands, the time it has taken |
| `trackingId`, `currentTrackingId`, `clientConnected`, `resetClient`, `handle` | the globals of those names; `handle` is that it is not NULL |
| `listened`, `link`, `aged`, `waitingToSend`, `waitingForAck` | the SDK: the status callback is set, the state of the transport, the token's age, its two lists |
| `peer`, `wire`, `acks` | the connection: the other end is there, messages and PUBACKs on their way |
| `received`, `taken`, `confirmed`, `stable`, `goodStart`, `restarts` | history |

| Actions | Code |
|---|---|
| `SendRefused`, `SendNow`, `Reconnect` | `SendEventOnce` to its loop: no client, `SendEventAsync`, or `CheckConnection` first (`Close`, `Init`) |
| `Boot`, `Connected`, `KeepConnecting` | `Init` and its waiting loop, called by `setup()` or `CheckConnection` |
| `SendConfirmed`, `GiveUp`, `KeepSending` | the loop of `SendEventOnce` |
| `Wait`, `OpenLink`, `OpenFails`, `Refuse`, `Accept`, `Expire`, `Subscribe`, `SubscribeAck`, `Publish`, `PublishFails`, `WriteFails` | one `DoWork` call each, with the callbacks it makes |
| `HubReceive`, `Drop`, `Age`, `Stabilise`, `Restart` | the hub, the network, the token's clock, the device's power |

`TrackDevice` (`MCTrackDevice` for TLC) is `loop()`: both switches, the hack button, `setup()` after a
restart, composed with the queue, whose steps interleave with those of `loop()`.

| Variable | Stands for |
|---|---|
| `mileage`, `switch`, `hackit` | the cars, their switches, the button as last seen |
| `loop` | where `loop()` is: at a car's switch, or at the button |
| `reports`, `boots`, `hacks` | history: messages by number, starts, changes of the button |

| Actions | Code |
|---|---|
| `HandleSwitch` | `handleSwitches` for one car: `readState`, and on a lap `addMileage` and `sendMqttMessage` up to its node |
| `CheckHack`, `SkipHack` | the button has changed, and both mileages are halved or doubled; it has not |
| `NoWifi` | the switches are not read |
| `QueueStep`, `Reboot` | the steps of the queue; a restart and `setup()` |

`Dashboard` (`MCDashboard` for TLC) is the page of a car, the feeds of vault changes and
as much of the node as the page can tell.

| Variable | Stands for |
|---|---|
| `events`, `unassessed`, `assessing`, `assessments`, `fraud` | the node: mileages recorded, and the flows that will assess, have read the last event, or have assessed (`CarLedger` has them in detail) |
| `posts`, `asked`, `answers`, `policyAsked`, `policyAnswers` | requests of the page and answers on their way, in any order |
| `listening`, `feed`, `subscription`, `news` | the two schedulers' feeds that have not ended and what they have not heard of; the topic |
| `shownEvent`, `shownPolicy`, `carMileage`, `mileage` | what the page shows; `ME_CAR_EVENT.mileage`, `ME_MILEAGE` |
| `presses`, `others`, `top`, `excused`, `suspect` | history, the last two for the reasons `BehindWithReason` and `AccusedWithReason` name |

| Actions | Code |
|---|---|
| `AddMileage`, `Crash`, `AddFraud` | the buttons, `addMileage` and `addFraud` |
| `Subscribe`, `LoseSocket`, `ReceiveNews`, `ReceiveEvent`, `ReceivePolicy` | `connect` and its callbacks, `get_vehicle`, `get_policy` |
| `TriggerChanged`, `FeedEnds` | `VaultChangeScheduler`: a change is published; an error ends the feed, and nobody subscribes again |
| `ServeEvent`, `ServePolicy`, `GetFails`, `Record`, `PostFails` | the Controller's two GETs and its POST |
| `ReadEvent`, `Assess`, `AssessFails` | `CarFlow.Update`: the car and the last event; that event's predecessor and the transaction; a spent car or another failure |
| `RecordOther` | the car's device posts too |

### Assumptions about what is outside the repository

* `FlowHelper.getLastState` (cordalo library) returns the unconsumed state of
  the given type that the node recorded last, whatever its vin or id.
* A vault query sees committed transactions.  Whether the two queries of one
  flow step see the same moment depends on the database's isolation: the
  constant `SnapshotReads` says so, and both values are checked.
* The notary accepts a transaction exactly if its input is unspent; notarising
  and recording at the initiating node are one step, since no other step of the
  model can tell a notarised from a recorded transaction without being able to
  run before or after both.
* A node records the transactions of one chain in their order (Corda resolves
  the predecessors of a transaction before recording it).
* Flows resume from checkpoints and end: a flow is never half way for ever.
* A thread stays occupied by a flow that outlives its request, which bounds the
  number of such flows by the number of threads.
* Devices post at cars only.  Insurers post policies only when their vault
  shows a car (with an empty vault `CarFlow.Create` would insure the insurer).

For the track device:

* `push_back` and `pop_front` do to the links what libstdc++'s `_M_hook` and
  `_M_unhook` do, in their order, and the cores see each other's writes at once.
  A node's body is copied before it is linked, and freed after it is unlinked.
* Reading a freed node with `front()` and freeing it again corrupts the heap,
  which the ESP32 answers with a panic and a restart.  A link written to a freed
  node is lost or, if the node is in use again, is its link now.
* `Send` of the queue is one step: that sending a message ends is what
  `MqttClient` shows (`SendEnds`).
* Whether there is WiFi, whether 200 ms have passed, what a pin reads and what
  the vault answers are left open, in `TrackDevice` and behind the lap sensor.
* A mileage stays below 2^30, so that `* 2 + 1` does not overflow an `int`.

For the lap sensor:

* The relay does not change while a measurement runs.  A relay that is switched on and
  off in one iteration of `loop()` is too short to be read.
* While it has WiFi the device looks at the pin every tenth of a second.  Whether it has
  is open at any time, and a level of the pin it misses is counted in `unread`.
* Cars come 0.8 s apart, give no echo of their own for 0.3 s at most (readings beside
  the car; the debouncing takes 0.5 s), and are long enough to be measured once, unless a
  missing echo holds `loop()` up: in that second a car may pass and not be measured.

For the MQTT client:

* A `DoWork` call is one step.  Between two messages nobody calls it, so no
  keep-alive is sent and the hub may drop the connection (`Drop`).
* The hub acknowledges what it got on the connection it came on, and an accepted
  connection ends an older one of the same device with what is under way on it.
* The SDK's transport notices a connection that broke only when a write fails:
  the IO layer ignores read errors.
* Credentials are constants, so `BAD_CREDENTIAL` does not occur.
* A good network (`stable`) also means that no call of the SDK fails and that it does not
  wait before it connects (`Wait`).  That is optimistic, since the SDK may still be backing
  off from failures before; `GoodStartArrives` and `GoodInv` rest on it, the other
  properties do not.

For the page: the broker delivers to those subscribed at that moment, the vault
holds an event when the page is opened, and a browser may have requests served
and answered in any order.

### Left out of `CarLedger`, and why

`MileageState` (always `IN_RANGE`), timestamps and event data (no decision
depends on them); policy number, rate and yearly mileage are one value, `terms`,
and the JSON details another; an unknown insurer (refused before anything is
read) and a post with no insurer (with an event it behaves like any other
policy, without one the flow throws); the GETs, which change nothing.  The event
contract demands one output, an input exactly for `Update`, and the signature of
the car: what `BuiltEvent` builds, so it refuses nothing.

### Left out of the track device, and why

The GETs of its own web server, logging, and what the MQTT client calls back:
none changes a car or the queue.  A message is its number; of its text only car
and mileage matter.

### Left out of the MQTT client, the sensor and the page, and why

Of the client: `Check`, reported states and the retrying `SendEvent`, which
nobody calls, and messages and methods from the hub, which change none of its
state.  Of the SDK: everything a client that only sends events does not reach.
The SDK publishes an event a second time after another minute; the clock of the
model ends before, and the client gives up long before the first time.

Of the sensor: the second lane's variables (the two lanes run the same
statements), and the LEDs.

Of the page: the chart, estimated values, names and logos, and a button pressed
before the first answer, whose mileage is not a number.  `[ / 2 ]` truncates, and the
30000 of `[ -30'000 ]` are a constant, `Decrement`.

## Runs

The runs of the ledger use one car, two insurers (one of them `InsureMe`) and mileages 1 and 2:
fraud is about two neighbours in one chain, and with three events there are two
pairs of neighbours, rising, equal and falling.  `MaxEvents` and `MaxCarTxs` stop
new posts, not requests in progress, so the ledgers grow a little beyond them.

| Run | Instance | Shows |
|---|---|---|
| `concurrent` | two threads, one policy, flows fail, RPC is lost | `LedgerInv`, `LinearHistory`, `FraudJustified`, `NoUpdateChangesNothing` hold however two requests overlap |
| `network` | two threads, policies of either insurer posted at the car and at the insurer | `KeepsPromise`: `CarLedger` implements `InsuredCars`; `CarSeesOneVersion` |
| `sequential` | one thread, accidents, a foreign vin, three policies, flows fail, RPC is lost | what an answer CREATED or OK means: `AckedTurnBackFlagged`, `AckedAccidentCounted`, `AckedEventKeepsPolicy`, `AckedPolicyApplied`; `OneChainPerNode`; and the invariants their proofs go by, `PostInv` and `PolicyInv` |
| `liveness` | two threads, fair, no failures | `EveryPostAnswered`, `InsurerLearnsFraud` |

Two runs of the ledger show where the code does not do what the repository says:

| Run | Violated | What happens |
|---|---|---|
| `turn_back_missed` | `TurnBackDetected` | one chain with mileages 2, 1, 2: the third event is recorded before the `CarFlow.Update` of the second one reads the vault, so both assessments compare the third with the second; the turn-back is never compared, and both posts are answered CREATED |
| `torn_read` | `FraudJustified` | with `SnapshotReads` FALSE an event recorded between two queries is compared with itself: FRAUD with rising mileages |

Three more the model shows without a run: a policy posted after the first event
is answered OK and dropped, all but its details, while `CarFlowTests.java` expects
the new rate of an update (`AckedPolicyApplied` excepts cars with events); an equal mileage, as of a repeated post,
is FRAUD (`FraudJustified` counts it as not risen); and the turned-back mileage
replaces the higher one in the current `CarEventState`, while README.md:21 of
the repository says the ledger kept it.

For the track device:

| Run | Instance | Shows |
|---|---|---|
| `queue` | three nodes, two tasks, five messages, a task not created, a restart, fair | `OneSender`, `SenderInv`: test and set of the flag need no lock, since only `loop()` sets it; `KeepsOrder`: `SendQueue` implements `ReportChannel`, so the race never repeats or reorders messages; `LostOnlyInRace`: a message the list no longer holds was pushed while another was being taken off, and `RaceInv`, the ring behind it; `FlagComesBack` |
| `track_device` | two messages of any car, three changes of the button, odd and even mileages, a restart or a panic | `DeviceInv`, `TurnBackNeedsHack`, `HackShows` |
| `lap_sensor` | one lane, three cars, noise of both ranges, one wrap, missing echo or level of the pin never read | `OneLapPerPulse`, `LapPerPassage`: from a calibrated sensor to the device no car is two laps, and none is missed but for what the device did not read; `UpsetsEnd`: what a wrap or a missing echo may cost besides; `NeedsFreeTrack`: what a sensor counts that starts over a car or without an echo; `SensorInv`, which all of them but `OneLapPerPulse` follow from |
| `mqtt` | three messages, one restart, any network | `ClientInv`, `ConfirmedArrived`: true only for what arrived, though tracking ids start again with each connection; `GoodStartArrives`: in a good network one reconnection heals, and `GoodInv`, why; `HubOrder`: the client implements `ReportChannel`, though the SDK publishes again; `SendEnds` |
| `dashboard` | two posts, of the page or the device, lost sockets, feeds that end, failures | `PageInv`, `BehindWithReason`, `AccusedWithReason`, `CatchesUp` |
| `left_behind` | fair, no failure | `ListDrains` is violated: the lost wake-up between the last `empty()` and the clearing of the flag |

That a `push_back` overlapping a `pop_front` can lose its message is what
`LostOnlyInRace` leaves, against "to not loose any message" (README.md:13 of the
repository).  Other things the models show: a sensor that starts without an echo
has a limit that wraps, and sees one endless car; a client whose `Create` failed
never sends until a restart; a device without WiFi for half a second misses a pulse; a
page whose socket broke never connects again, nor does a vault feed that an error has
ended; the `[ crash ]` button posts an unchanged mileage, which `CarFlow` takes for fraud,
as it does for two posts that overtake each other, for a car with two sources of events
and for an event recorded between the two queries of a flow (`AccusedWithReason` lists
the ways).  A device restarted without an answer of its vault starts from a random mileage, so `TurnBackNeedsHack` speaks of
one start.

Three nodes let a freed node be used again while another is linked, and five
messages fill a list torn earlier.  Two tasks are one more than there should
ever be.  A pulse is compared with the one before at most, so three of them meet
every state of a switch.  Fairness (`FairQueueSpec`): weak fairness of `loop()`
inside `sendMqttMessage` and of each task, which the two cores' schedulers
give; nobody has to drive a lap.  `FlagComesBack` leaves out tasks that cannot be
created: after one, the flag stays set until a restart (`FlagTellsSender`).

`LapSensor` counts tenths of a second.  `MillisSize` 26 is more than two time-outs of
an echo and the debouncing (`LongClock`, which the proofs ask for and the real clock
exceeds by far), so that a round of `loop()` never takes the clock past itself, and
lets the clock wrap between two cars.  An echo missing in the other lane may cost
two cars: the first one's pulse is over before the device looks, and the second, a
second later, is taken for the first.  `MaxUpsets` 1 allows one wrap, one missing echo
or one level of the pin that is never read, and three cars give one before, during and
after it; several of them together, in any order, are a matter of the proofs.  `MaxPulses`
20 is never reached.  `WordSize` only has to exceed every distance, and the real clock wraps far
more seldom.  `MCLapSensor` gives a `VIEW` without values the sensor does not read
again, such as the time of a state that is over; the times the invariants compare
are part of it while they are compared.

`MqttClient` counts tens of seconds; the three time-outs are 1, 3 and 6, so that
their order and the multiples are those of the code, and `MaxSince` 8 is beyond
them.  Two messages suffice for a late confirmation of the one before, the third
for what both leave behind.  Fairness (`Spec`): the task runs, the hub reads what
it gets, and time passes again and again while the task waits (strong fairness,
since waiting is interrupted by checks).

`Dashboard`'s two posts overlap with each other, with the device's, with the flows that
assess them and with the reloads they cause; `FirstMileage` 2 can be halved, doubled and
lowered by `Decrement`.  `MCDashboard` cuts the states in which the page is excused and
the car suspect: `excused` and `suspect` are never taken back, so `BehindWithReason`,
`AccusedWithReason` and `CatchesUp` hold from there on, and of `PageInv` only types and
`NothingMadeUp` are left, which are proved.  Fairness: the schedulers as long as their
feeds last, the server and the browser do not all stop while something is under way
(`Deliver`); nobody has to press a button, no post has to succeed, and a feed may end.

`AckedTurnBackFlagged`, `AckedAccidentCounted`, `AckedEventKeepsPolicy` and
`OneChainPerNode` hold only while the posts of one node do not overlap; the run
has one thread, and the theorems let the posts of different nodes overlap.
`AckedPolicyApplied` needs no such condition, and `FraudJustified` needs
`SnapshotReads`.

Fairness of the ledger (`FairSpec`): weak fairness of each thread, since a web server's
threads are scheduled and flows resume, and of delivery to each node, since
Corda's messaging retries until a message is acknowledged.  Nothing forces a
post to be made.  The liveness run has no failures: with them a thread is
answered all the sooner, by `FlowFails`.

## Proofs

`CarLedgerProofs`, for every value of the constants that satisfies
`ConstantsAssumption`:

* `LedgerInvariant`: `Spec => []LedgerInv`, which contains `TypeOK`.
* `LedgersAreLinear`: `Spec => []LinearHistory`.
* `FraudIsJustified`: with `SnapshotReads`, `Spec => []FraudJustified`.

`LinearHistory` by itself is not inductive: what a request will write depends on
what it has read, so `ReqsKnown` says of every program counter what the record
holds is still true of the ledger.  For `FraudJustified` that must include that
the consumed event is the predecessor of the event it is compared with.  The
argument: a query returns the last consumed event of the chain, in the prefix
of the ledger it saw; `OneTip` says that in every prefix a chain has a single
unconsumed end, so the chain's last event is the one that end spent
(`LastConsumedIsPredecessor`), and no later append changes a prefix
(`ConsumedStable`).  `LinearAppend`, `OneTipAppend` and `VaultAppend` are the
facts about extending a ledger or a vault by what the notary accepts; there is
one lemma per action, and `NextInv` collects them.

`SendQueueProofs`, for any nodes, tasks and bounds:

* `SenderInvariant`: `QueueSpec => []SenderInv`, and `OneTaskSends`:
  `QueueSpec => []OneSender`.  One sender is not inductive without
  `FlagTellsSender` and `StartsAlone`: between the test of the flag and the start
  of a task no other task can have started, because only `loop()` starts tasks;
  and a task clears the flag in the step in which it ends.
* `QueueKeepsOrder`: `QueueSpec => KeepsOrder`, the refinement of `ReportChannel`,
  whatever a race does to the list.  `OrderInvariant` (`OrderInv`) is why: either the
  list is what it should be from the header on (`Sound`), or a race has torn it so
  that the header's `next` never changes again (`Torn`).  Either way what a task may
  take is newer than what any has taken (`MessagesInOrder`): a node in use again
  holds a later message.
* `RaceIsTheOnlyLoss`: `QueueSpec => []LostOnlyInRace`.  `RaceInv` says that as long as
  no `push_back` has met a `pop_front` the list is a ring of the nodes in use, in
  order and linked both ways (`LinkedRing`), but for the one or two links the
  operation in progress has still to write (`IntactPush`, `IntactPop`).

`CarVersionsProofs` goes on from there:

* `NoUpdateIsNone`: `Spec => []NoUpdateChangesNothing`.
* `CarSeesOne`: `Spec => []CarSeesOneVersion`.
* `PromiseKept`: `Spec => KeepsPromise`, the refinement of `InsuredCars`.

All three need to know what a chain is: `ChainOrder` says that of two states of
one chain the later comes after the successor of the earlier, so a chain has
exactly one unspent end (`EndIs`, `EndExists`), which is what `Current` chooses.
For `CarSeesOne`, `CarsUpToDate` adds that a car has recorded every state of its
chain before any it has recorded, and that a request spends what its vault has;
the successor of a state is then on record before a later one is.  For
`PromiseKept`, `RegistryIssued` and `RegistryUpdated` say what one more
transaction does to the versions, `CreatedVersion` and `UpdatedVersion` that what
`CarFlow` builds is one of the three things `InsuredCars` allows.

`AnsweredPostsProofs` says what an answer CREATED or OK means.

* `PoliciesAreApplied`: `Spec => []AckedPolicyApplied`, for posts that overlap in
  any way.
* With `[]OnePostPerNode`, that no node serves two posts at once: `OneChainOfANode`,
  `AccidentsAreCounted` and `TurnBacksAreFlagged`, the last whichever value
  `SnapshotReads` has.  The invariant is `PostInv`.  `HomeRecorded` says that a car
  has a version of its own on record if there is any, and `PostKnown` that what a
  post has read of its node is still so when it is used, since nobody else writes
  events of that car: so the event compared is the one before the event posted.
  `AnswerKept` and `AnswerGiven` say that what was promised stays so and that the
  last step of a post makes it so.
* `PolicyInvariant`: with `PolicyNodes \subseteq Cars` as well, `[]PolicyInv`, and from
  it `EventsKeepPolicy`, `[]AckedEventKeepsPolicy`.  The second hypothesis is needed: an insurer's update
  that reaches the car between two reads of one post brings old details back.
  `PolicyInv` says that a car has recorded every version of its own, and that the
  details a request carries are those of the version it updates.

`LapSwitchProofs`: `PulsesCounted`, `SwitchSpec => []OneLapPerPulse`, and
`SensorDrivesSwitch`, the same for `LapSensor`, each of whose steps is one of
`LapSwitch` or leaves it alone.  The invariant
says that the remembered reading is in the range of the last one (readings of
different ranges never map to one value), and that the laps are ahead of the
pulses by the pulse in progress, once the switch has reported it, and behind by the
levels never read.  Further, of the sensor:

* `SensorTyped`: `Spec => [](SensorTypeOK /\ LowKnown)`.
* `LapsArePassages`: with `WellPlaced`, `Spec => []LapPerPassage`.  The invariant
  `CalmInv` relates five clocks: a round of `loop()` takes a tenth of a second
  (`RoundInv`), the relay goes off before the debouncing ends (`PulseInv`), a car keeps
  the debouncing up until it has gone and not until the next one comes (`CarInv`);
  hence the cars are the pulses on the pin, up to the one on its way (`CountInv`),
  whether the device reads it or not; what it does not read is `unread`.
* `BlindSensor`: with `OnlyNoise`, `Spec => []NeedsFreeTrack`, by `BlindInv`: a limit
  too low finds a car only in a missing echo, and one that has wrapped finds one car
  for ever.
* `UpsetsCostLittle`: with `WellPlaced` and `LongClock`, `Spec => []UpsetsEnd`, for any
  number of wraps and missing echoes, wherever they come in and however close to each
  other.  `ClockInv` says how far the clocks of the sensor may be apart, an upset or
  not: only a missing echo stretches a round of `loop()`, and the relay never outlasts
  the clock.  The rest is two accounts of one inequality each:
  * `SurplusInv`: the pulses, with the one in progress and those that may still begin
    without a car (`Surplus`), are at most the cars measured, two per wrap and one per
    missing echo.  Shortly before the clock wraps the debouncing ends at once, since
    `state + EvBuff` has overflowed and is already passed, so there may be two.
  * `LossInv`: the cars measured, with what may be lost without a further upset
    (`AtRisk`), are at most the pulses, the one about to begin, one per wrap and two
    per missing echo.  At risk are a pulse that is over within one measurement, a next
    car that comes while the lane still holds the last one or `loop()` waits, a state or a relay of the
    time before a wrap that hangs on, and the pulse the end of the clock suppresses.

  `SurplusDecide`, `LossMeasure` and the like show for each kind of step that
  it pays for what it changes.  With nothing below the sensor and the lane settled
  nothing is at risk, and the accounts are `UpsetsEnd`.
* `SensorInvariant`: with `OnlyNoise` too, `Spec => []SensorInv`, all of this as one
  inductive invariant, the one the run checks.

`WellPlaced`, `OnlyNoise` and `LongClock` relate the constants.  The first: a limit
taken over a free track separates a car, or no echo at all, from it, cars keep a
distance beyond the debouncing, and a car is not lost for as long.  The second: a
limit taken over a car is below everything measured, and one taken without an echo
above.  The third: the clock is longer than a round with two missing echoes and the
debouncing.  The constants of the run satisfy all three.

`TrackDeviceProofs`, for every increment, first mileage and set of readings:

* `DeviceInvariant`: `Spec => []DeviceInv`, and `HackIsShown`:
  `Spec => []HackShows`.  Mileages go up and down; what never falls is what a
  mileage is *worth* once the button is released, `2 * m + 1` while it is pressed.
  `HackKeepsWorth` and `LapAddsWorth` say so of the two operations, `WorthKept`
  carries it from the reports to now, `WorthGrows` from report to report.
  `HackDrifts` bounds what pressing and releasing may add, which is what
  `HackShows` needs.  `WorthDecides` turns worth into `OnlyHackedBack`.
* `DeviceImplementsQueue`: `Spec => QueueSpec`, so what is proved of the queue holds
  of the device; and `TurnBackIsHack`: `Spec => []TurnBackNeedsHack`, since the
  messages handed over come in the order of their reports (`HandedInOrder`, from
  `OrderInv`) and reports fall only with the button (`OnlyHackedBack`).

`MqttClientProofs`, for any number of messages and restarts:

* `ClientInvariant`: `Spec => []ClientInv`, and `ConfirmedHasArrived`:
  `Spec => []ConfirmedArrived`.  A stale tracking id does no harm because at most
  one event is ever in the SDK's lists (`OneInFlight`), and those of a destroyed
  client are called back as failed; the worst is a message that arrived and
  counts as lost.
* `HubGetsInOrder`: `Spec => HubOrder`.  Nothing is published again before its
  message is given up, so what is on the wire is in order and beyond what
  arrived.
* `GoodInvariant`: `Spec => []GoodInv`, and `GoodStartsArrive`:
  `Spec => []GoodStartArrives`.  `GoodInv` says that a message
  whose sending began in a good network has arrived or is on its way (`OnItsWay`).
  No time passes and no connection ends while it is, so nothing makes the client
  give it up, whatever an earlier message left behind.

`DashboardProofs`, for any increments, first mileage and number of posts:

* `PageInvariant`: `Spec => []PageInv`; `BehindForAReason`:
  `Spec => []BehindWithReason`; `AccusedForAReason`: `Spec => []AccusedWithReason`.
  `OnlyRises` is the inductive part: events and posts under way rise in the order
  of the presses, the page is not behind a post of its own, and a flow that has read
  the last event still has it when it asks for the one before.  The five reasons of
  `BehindWithReason` and of `AccusedWithReason` are in the comments of these properties;
  nothing like `SnapshotReads` is assumed.

Only model-checked is liveness, which is out of the prover's reach:
`EveryPostAnswered`, `InsurerLearnsFraud`, `FlagComesBack`, `SendEnds` and
`CatchesUp`.  Every safety property of a passing run is stated by a theorem; those
the findings refute are of course not.

## Order of construction

The ledger first (`InsuredCars`, `CarLedger`), which is the core; then the device's
queue and its composition with `loop()` (`ReportChannel`, `SendQueue`,
`AnalogState`, `LapSwitch`, `TrackDevice`); then both its neighbours, `LapSensor` on
the switch and `MqttClient` behind the queue; last `Dashboard`.  Proofs followed
their modules.

## Not modelled

* The vendored Azure SDK beyond one client that sends events, with its AMQP and
  HTTP transports, device twin, codecs and platform layer, and the second copy
  of it under the demonstration sketch.  These two copies are most of the lines
  of the repository, so the lines the modules stand for are a small share of all
  of them: the program's own logic is a few files.  Modelling more of the SDK
  would model code that this program does not run.
* Start-up, RPC configuration and the data classes of the web server, the REST
  client of the device (its answer, or none, is any first mileage), deployment
  scripts, static pages, the simulated device, demonstration sketches and the
  first version of the sensor: configuration, input and output, or no part of
  the running system.
* A journey from sensor to ledger in one state space: it would add nothing the
  parts do not say, since what joins them are the abstract channel and posts,
  and `CarLedger` already lets posts be lost, repeated and overlap.  The path
  from hub to web server is outside the repository.
* Several cars at one insurer's node.  `CarFlow.Update` updates the last car of the
  node that runs it, and an insurer's post does not say which car it means: there
  is no intention the result could be compared with.
* An old insurer's view of a car that has moved to another one: its node is told
  nothing more, and the code has nothing that would.
