------------------------------ MODULE LapSensor ------------------------------
(***************************************************************************)
(* One of the two lanes of the lap sensor (trustmile-lap), an Arduino of   *)
(* its own with an ultrasound sensor over each lane, and the pin of the    *)
(* track device its relay output drives (LapSwitch).                       *)
(*                                                                         *)
(* Time is counted in tenths of a second, by a millis() that wraps at      *)
(* MillisSize.  It passes while loop() waits for an echo; the lanes share  *)
(* that loop, so the other lane is here the time its measurement takes.    *)
(***************************************************************************)
EXTENDS LapSwitch

CONSTANTS
    ClearReadings,  \* distances in mm when no car is under the sensor
    CarReadings,    \* and when one is
    WordSize,       \* an unsigned long, as a distance,
    MillisSize,     \* and as a time
    MinGap,         \* cars pass at least this much apart
    MaxDropout,     \* a car under the sensor may give no echo of its own this long
    MaxPassages,    \* bound: no car passes beyond this many
    MaxUpsets       \* bound: how often millis() wraps, an echo is missing, or a level of
                    \* the pin is over before it is read

ASSUME SensorAssumption ==
    /\ ClearReadings \subseteq Nat \ {0} /\ CarReadings \subseteq Nat \ {0}
    /\ WordSize \in Nat /\ MillisSize \in Nat \ {0}
    /\ MinGap \in Nat /\ MaxDropout \in Nat
    /\ MaxPassages \in Nat /\ MaxUpsets \in Nat

EvBuff == 5         \* EV_Buff
LedTime == 2        \* how long the LED and the relay are on
EchoTimeout == 10   \* pulseIn gives up

VARIABLES
    lane,               \* Red is measured first, Black last
    pc,                 \* what loop() does next
    millis, curr,
    low, active,        \* Red_LOW, Red_mm < Red_LOW; or those of Black
    state, stateSw,     \* Red_State, Red_State_SW
    led, ledSw,         \* Red_LED, Red_LED_SW
    relay,              \* the output pin RedESP32
    present, seen,      \* a car is under the sensor, and has been measured
    unseen,             \* time since the last measurement of it
    absent,             \* time since the last car left
    calibrated,         \* history: setup() measured the free track
    passages,           \* history: the cars that came by
    wraps, misses

clock == <<millis, wraps>>
outputs == <<state, stateSw, led, ledSw, relay>>
traffic == <<present, seen, unseen, absent, passages>>
sensorVars == <<lane, pc, millis, curr, low, active, outputs, traffic, calibrated, wraps, misses,
                switchVars>>

-----------------------------------------------------------------------------
Unsigned(n) == n % WordSize

\* setup(): LOW is the first measurement less 5, in unsigned arithmetic.
WrongLowNoMargin(first) == first
Low(first) == Unsigned(first - 5 + WordSize)

Init ==
    /\ SwitchInit
    /\ lane \in {"Red", "Black"}
    /\ pc = "first"
    /\ millis = 2 /\ curr = 2 /\ state = 2 /\ led = 2
    /\ \E first \in ClearReadings \cup CarReadings \cup {0} :
          /\ low = Low(first)
          /\ calibrated = (first \in ClearReadings)
          /\ present = (first \in CarReadings) /\ seen = present
          /\ misses = IF first = 0 THEN 1 ELSE 0
    /\ active = FALSE /\ stateSw = FALSE /\ ledSw = FALSE /\ relay = FALSE
    /\ unseen = 0 /\ absent = MinGap
    /\ passages = 0 /\ wraps = 0

-----------------------------------------------------------------------------
(* The track and time.                                                      *)

CarComes ==
    /\ ~present /\ absent >= MinGap /\ passages < MaxPassages
    /\ present' = TRUE /\ seen' = FALSE /\ unseen' = 0
    /\ passages' = passages + 1
    /\ UNCHANGED <<lane, pc, millis, curr, low, active, outputs, absent, calibrated, wraps, misses,
                   switchVars>>

\* The time this round of loop() has taken; only a missing echo makes it long.
Elapsed == IF millis < curr THEN millis + MillisSize - curr ELSE millis - curr
Stretched == Elapsed > 1

\* A car is long enough to be measured once, unless a missing echo holds loop() up.
CarGoes ==
    /\ present /\ (seen \/ Stretched)
    /\ present' = FALSE /\ absent' = 0
    /\ UNCHANGED <<lane, pc, millis, curr, low, active, outputs, seen, unseen, passages, calibrated,
                   wraps, misses, switchVars>>

Capped(n, limit) == IF n > limit THEN limit ELSE n

\* loop() of the track device looks at the pin while the sensor measures, during which
\* the relay does not change, or has no WiFi and does not.
DeviceLooks ==
    \/ \E raw \in Raws : IsHigh(raw) = relay /\ Sample(raw)
    \/ Skip(relay)

Elapse(d) ==
    /\ millis' = (millis + d) % MillisSize
    /\ wraps' = wraps + (millis + d) \div MillisSize
    /\ absent' = IF present THEN absent ELSE Capped(absent + d, MinGap)
    /\ IF d = 0 THEN UNCHANGED switchVars ELSE DeviceLooks
    /\ wraps' + misses' + unread' <= MaxUpsets

-----------------------------------------------------------------------------
(* loop().                                                                  *)

\* Measure_Red, then Measure_Black, in either of which time d passes.
OwnTurn == IF lane = "Red" THEN "first" ELSE "second"
OtherTurn == IF lane = "Red" THEN "second" ELSE "first"

Measure(turn, d) ==
    /\ pc = turn
    /\ pc' = IF turn = "first" THEN "second" ELSE "decide"
    /\ misses' = IF d = EchoTimeout THEN misses + 1 ELSE misses
    /\ Elapse(d)
    /\ UNCHANGED <<lane, curr, low, outputs, present, passages, calibrated>>

MeasureFreeTrack(d) ==
    /\ Measure(OwnTurn, d)
    /\ ~present
    /\ \E mm \in ClearReadings : active' = (mm < low)
    /\ UNCHANGED <<seen, unseen>>

MeasureCar(d) ==
    /\ Measure(OwnTurn, d)
    /\ present
    /\ \E mm \in CarReadings : active' = (mm < low)
    /\ seen' = TRUE /\ unseen' = 0

MeasureBeside(d) ==
    /\ Measure(OwnTurn, d)
    /\ present /\ seen
    /\ unseen' = unseen + d /\ unseen' <= MaxDropout
    /\ \E mm \in ClearReadings : active' = (mm < low)
    /\ UNCHANGED seen

\* pulseIn gives up after a second and returns zero.
MissEcho ==
    /\ Measure(OwnTurn, EchoTimeout)
    /\ active' = (0 < low)
    /\ UNCHANGED <<seen, unseen>>

MeasureOther(d) ==
    /\ Measure(OtherTurn, d)
    /\ unseen' = IF present THEN unseen + d ELSE unseen
    /\ UNCHANGED <<active, seen>>

\* The comparisons of loop() add to a time before they compare.
After(t, wait) == curr > (t + wait) % MillisSize

NewlyActive == active /\ ~stateSw

WrongDebouncedNever == FALSE
WrongDebouncedAtOnce == ~active

Debounced == ~active /\ After(state, EvBuff)

\* The rest of loop(): the debouncing, the pulse on the relay, and the millis() of the
\* next one.  A relay that is switched on and off at once is too short to be read.
Decide ==
    /\ pc = "decide" /\ pc' = "first"
    /\ state' = IF active THEN curr ELSE state
    /\ stateSw' = (active \/ (stateSw /\ ~Debounced))
    /\ led' = IF NewlyActive THEN curr ELSE led
    /\ ledSw' = ((ledSw \/ NewlyActive) /\ ~After(led', LedTime))
    /\ relay' = ledSw'
    /\ curr' = millis
    /\ UNCHANGED <<lane, millis, low, active, traffic, calibrated, wraps, misses, switchVars>>

\* Two echoes together take less than a tenth of a second.
EchoTimes == IF pc = "first" THEN {0, 1} ELSE {0}

Next ==
    \/ CarComes \/ CarGoes
    \/ \E d \in EchoTimes : MeasureFreeTrack(d) \/ MeasureCar(d) \/ MeasureBeside(d)
    \/ MissEcho
    \/ \E d \in EchoTimes \cup {EchoTimeout} : MeasureOther(d)
    \/ Decide

Spec == Init /\ [][Next]_sensorVars

-----------------------------------------------------------------------------
\* The last car has left long enough ago, after a missing echo loop() has also gone on,
\* and the device has read the pin.
Settled ==
    /\ ~present /\ absent >= MinGap /\ UpToDate
    /\ misses = 0 \/ ~(active \/ relay \/ high)

\* The sums compared with millis() overflow a little before it wraps.
Wraps == wraps + IF millis + EvBuff >= MillisSize THEN 1 ELSE 0

\* From the car to the lap of the track device: with a sensor whose first measurement was
\* of the free track no car is counted twice, whatever the phase of its loop, though a
\* car may be missed in between and the switch of the device lags behind; and none is
\* missed, unless the device was without WiFi for a whole pulse, or a whole pause.
LapPerPassage ==
    calibrated /\ Wraps = 0 /\ misses = 0 =>
        /\ laps <= passages
        /\ Settled => passages <= laps + unread

\* A wrap of millis() costs one lap at most, and may count a car three times; a missing
\* echo costs two at most (a pulse over before the device looks, and a car that passes while
\* loop() waits or is taken for the one before), or is a car that was not there; a level
\* of the pin that the device never reads costs one.  The sensor finds back.
UpsetsEnd ==
    calibrated =>
        /\ laps <= passages + 2 * Wraps + misses
        /\ Settled => passages <= laps + unread + Wraps + 2 * misses

\* A sensor that starts with a car below it, or without an echo, sees nothing: its limit
\* is too low, and only a missing echo is below it, or so high that the first car never ends.
NeedsFreeTrack == ~calibrated => laps <= misses

-----------------------------------------------------------------------------
(* The inductive invariants behind them.                                    *)

SensorTypeOK ==
    /\ lane \in {"Red", "Black"} /\ pc \in {"first", "second", "decide"}
    /\ millis \in Nat /\ curr \in Nat /\ state \in Nat /\ led \in Nat
    /\ active \in BOOLEAN /\ stateSw \in BOOLEAN /\ ledSw \in BOOLEAN /\ relay \in BOOLEAN
    /\ present \in BOOLEAN /\ seen \in BOOLEAN /\ unseen \in Nat /\ absent \in Nat
    /\ calibrated \in BOOLEAN /\ passages \in Nat /\ wraps \in Nat /\ misses \in Nat
    /\ high \in BOOLEAN /\ pulses \in Nat

\* The limit is never set again.
LowKnown ==
    IF calibrated THEN \E first \in ClearReadings : low = Low(first)
    ELSE (misses # 0 /\ low = Low(0)) \/ \E first \in CarReadings : low = Low(first)

\* The sensor is well placed, the cars keep their distance, and a car under the sensor
\* is not lost for longer than the debouncing takes.
WellPlaced ==
    /\ \A first \in ClearReadings :
         /\ \A mm \in ClearReadings : ~(mm < Low(first))
         /\ \A mm \in CarReadings \cup {0} : mm < Low(first)
    /\ MinGap > EvBuff + 2
    /\ MaxDropout < EvBuff

\* Nothing is nearer than a car below the sensor, but for the noise, and nothing further
\* than the limit that wraps.
OnlyNoise ==
    /\ \A first \in CarReadings : \A mm \in ClearReadings \cup CarReadings : ~(mm < Low(first))
    /\ \A mm \in ClearReadings \cup CarReadings \cup {0} : mm < Low(0)

Calm == calibrated /\ Wraps = 0 /\ misses = 0

\* The lane has been measured in this round of loop().
Fresh == pc = "decide" \/ (pc = "second" /\ lane = "Red")

\* A round takes no longer than a tenth of a second.
RoundInv ==
    /\ curr <= millis /\ millis <= curr + 1
    /\ pc = "first" => millis = curr
    /\ state <= curr /\ led <= curr

\* The relay goes off before the debouncing ends, and the device has seen both edges
\* before the next car.
PulseInv ==
    /\ relay = ledSw
    /\ stateSw => led <= state /\ curr <= state + EvBuff + 1
    /\ ledSw => stateSw /\ curr <= led + LedTime + 1
    /\ relay /\ millis > led + 1 => high
    /\ high /\ ~relay => stateSw /\ millis <= led + LedTime + 2

\* A car that is measured keeps the debouncing up until it has gone, and not until the
\* next one comes.
CarInv ==
    /\ active /\ ~Fresh => stateSw
    /\ present /\ ~seen => ~active /\ ~stateSw
    /\ present /\ seen =>
         /\ IF Fresh /\ active THEN unseen = 0 ELSE stateSw /\ millis <= state + 1 + unseen
         /\ Fresh /\ ~active => unseen <= MaxDropout
    /\ ~present /\ stateSw => state + absent <= millis
    /\ ~present /\ active /\ Fresh => curr + absent <= millis

\* Cars that came are pulses that have ended, the one on its way, and the car that is
\* not yet measured or not yet debounced.
CountInv ==
    passages = pulses + (IF high \/ relay THEN 1 ELSE 0)
                      + (IF (present /\ ~seen) \/ (active /\ ~stateSw) THEN 1 ELSE 0)

CalmInv == Calm => RoundInv /\ PulseInv /\ CarInv /\ CountInv

\* A limit too low finds a car only when the one echo is missing; one that has wrapped
\* finds a car at once and for ever.
BlindInv ==
    ~calibrated =>
        /\ relay = ledSw
        /\ pulses + (IF high \/ relay THEN 1 ELSE 0) + (IF NewlyActive THEN 1 ELSE 0) <= misses
        /\ low = Low(0) =>
             /\ misses # 0
             /\ ~active => ~stateSw /\ ~relay /\ ~high /\ pulses = 0

\* With upsets.  Time is counted modulo MillisSize, in a clock that takes longer to wrap
\* than a round in which both echoes are missing.
LongClock == MillisSize >= 2 * EchoTimeout + EvBuff

One(p) == IF p THEN 1 ELSE 0
Least(m, n) == IF m < n THEN m ELSE n

Age(t) == IF curr < t THEN curr + MillisSize - t ELSE curr - t

Pulse == high \/ relay
Measured == passages - One(present /\ ~seen)

\* The measurements of a round, and a relay that is on.
ClockInv ==
    /\ millis < MillisSize /\ curr < MillisSize /\ state < MillisSize /\ led < MillisSize
    /\ Elapsed \in (IF pc = "first" THEN {0} ELSE IF pc = "second" THEN {0, 1, EchoTimeout}
                    ELSE {0, 1, EchoTimeout, EchoTimeout + 1, 2 * EchoTimeout})
    /\ Stretched => misses # 0
    /\ relay = ledSw
    /\ relay # high => Elapsed = 0
    /\ relay => led + LedTime < MillisSize
    /\ relay /\ led <= curr => curr <= led + LedTime + 2 * EchoTimeout
    /\ relay /\ ~stateSw => state < led \/ state + EvBuff >= MillisSize
    /\ active /\ ~Fresh => stateSw
    /\ calibrated /\ active /\ Fresh /\ ~Stretched =>
         IF present THEN seen ELSE absent <= Elapsed

\* A car that has been measured keeps the debouncing up, or an echo was missing.
Kept ==
    /\ unseen <= MaxDropout + (IF lane = "Black" /\ pc # "second" THEN 0 ELSE EchoTimeout)
    /\ IF Fresh /\ active THEN Elapsed <= 1 + unseen
       ELSE /\ stateSw /\ Elapsed + Age(state) <= 1 + unseen
            /\ Fresh => Age(state) <= 1 + MaxDropout

\* The pulses that may come without a car.  Shortly before the clock wraps the debouncing
\* ends at once, and two pulses may begin until it is too late for one.
Ending == curr + EvBuff >= MillisSize
Late == curr + LedTime >= MillisSize \/ (relay /\ led + EvBuff >= MillisSize /\ led <= curr)

Surplus ==
    IF Ending THEN 1 + One(~Late) - 2 * One(millis >= curr)
    ELSE One(NewlyActive) + One(present /\ seen /\ ~Kept)
           + One(lane = "Black" /\ pc = "second" /\ Stretched)

SurplusInv == calibrated => pulses + One(Pulse) + Surplus <= Measured + 2 * wraps + misses

\* A state or a relay of the time before the clock wrapped stays on.
SwitchHangs == stateSw /\ curr < state /\ state + EvBuff < MillisSize
RelayHangs == relay /\ ~(led <= state /\ state <= curr)

\* A next car may come before time t of the last one has passed.
Soon(t) == IF present THEN ~seen ELSE absent > Elapsed + t

\* What may be lost without another upset: the pulse on its way, the next car, the car
\* that finds the lane hanging, and a pulse that the end of the clock suppresses.
PulseAtRisk ==
    \/ relay /\ ~high /\ curr > led + LedTime
    \/ NewlyActive /\ ~RelayHangs /\ (Pulse \/ curr + LedTime >= MillisSize)
    \/ Stretched /\ \/ NewlyActive \/ (lane = "Black" /\ pc = "second")
                    \/ relay /\ millis < curr

NextAtRisk ==
    \/ Stretched /\ (IF present THEN ~seen ELSE absent # 0)
    \/ stateSw /\ ~SwitchHangs /\ Soon(Least(Age(state), EvBuff + 1))
    \/ Pulse /\ ~RelayHangs /\ Soon(Least(Age(led), EvBuff + (IF relay THEN 1 ELSE 2)))

Suppressed ==
    LET start == IF NewlyActive THEN curr ELSE led
    IN  /\ start + LedTime >= MillisSize /\ start <= curr
        /\ ~relay /\ (stateSw => led <= state)
        /\ Stretched \/ (IF present THEN seen ELSE absent <= Elapsed + curr - start)

WrapAhead == (millis + EvBuff >= MillisSize \/ millis < curr) /\ ~Suppressed

AtRisk ==
    One(PulseAtRisk) + One(NextAtRisk) + One(RelayHangs)
      + One(SwitchHangs /\ ~(active /\ Fresh)) + One(WrapAhead)

LossInv ==
    calibrated =>
        Measured + AtRisk <= pulses + One(Pulse) + One(NewlyActive) + Wraps + 2 * misses

SensorInv ==
    /\ SensorTypeOK /\ LowKnown /\ CalmInv /\ BlindInv
    /\ ClockInv /\ SurplusInv /\ LossInv

=============================================================================
