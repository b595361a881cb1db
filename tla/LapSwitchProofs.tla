--------------------------- MODULE LapSwitchProofs ---------------------------
(***************************************************************************)
(* Every pulse is counted once, whatever readings between 0 and 4095 the   *)
(* pin gives and however long the pulses and the pauses are; every car     *)
(* under a well placed sensor is one pulse; what a sensor counts that was  *)
(* switched on over a car; and how many laps missing echoes and a millis() *)
(* that wraps can cost or add.                                             *)
(***************************************************************************)
EXTENDS LapSensor, TLAPS

\* The pulses whose end is no news for the device, and those whose end it has read.
Ended == pulses - One(ReadHigh /\ ~high)
Taken == laps - One(ReadHigh /\ switch.state = Lap)

\* What the switch remembers is the last reading, up to one that maps to the
\* same value, and its state says whether the pulse in progress has counted.
SwitchInv ==
    /\ high \in BOOLEAN
    /\ pulses \in Nat
    /\ laps \in Nat
    /\ unread \in Nat
    /\ switch \in [raw: Readings \cup {-1}, value: Int, state: {Unknown, OnTheRun, Lap},
                   changed: BOOLEAN]
    /\ \/ switch.raw = -1 /\ switch.value = -1
       \/ switch.raw \in Readings /\ switch.value = Mapped(switch.raw)
    /\ Taken <= Ended /\ Ended <= Taken + unread

\* No reading below the limit maps to the value of one above it.
LEMMA MappedKeepsSide ==
    ASSUME NEW a \in Readings, NEW b \in Readings, Mapped(a) = Mapped(b)
    PROVE  IsHigh(a) = IsHigh(b)
<1>1. \A r \in Readings : r <= 1000 => Mapped(r) <= 999
  BY DEF Readings, Mapped
<1>2. \A r \in Readings : r >= 1001 => Mapped(r) >= 1000
  BY DEF Readings, Mapped
<1>3. Mapped(a) \in Int
  BY DEF Readings, Mapped
<1>4. a \in Int /\ b \in Int
  BY DEF Readings
<1>5. a > 1000 <=> Mapped(a) >= 1000
  BY <1>1, <1>2, <1>3, <1>4
<1>6. b > 1000 <=> Mapped(a) >= 1000
  BY <1>1, <1>2, <1>3, <1>4
<1> QED BY <1>5, <1>6 DEF IsHigh

\* A reading maps to no value that the switch starts with.
LEMMA MappedNotNegative ==
    ASSUME NEW a \in Readings
    PROVE  Mapped(a) \in Nat
  BY DEF Readings, Mapped

\* findStateIndex before the first reading, and for a reading.
LEMMA StateOfReading ==
    /\ StateOf(-1) = Unknown
    /\ \A r \in Readings : r # -1 /\ StateOf(r) = IF IsHigh(r) THEN Lap ELSE OnTheRun
<1>1. StateOf(-1) = Unknown
  <2>1. -1 \notin 1001..4095 /\ -1 \notin 0..1000 OBVIOUS
  <2> QED BY <2>1 DEF StateOf
<1>2. ASSUME NEW r \in Readings
      PROVE  r # -1 /\ StateOf(r) = IF IsHigh(r) THEN Lap ELSE OnTheRun
  <2>1. r # -1 BY DEF Readings
  <2>2. r \in Int /\ 0 <= r /\ r <= 4095 BY DEF Readings
  <2>3. /\ r \in 1001..4095 <=> r > 1000
        /\ r \in 0..1000 <=> ~(r > 1000)
    BY <2>2
  <2> QED BY <2>1, <2>3 DEF StateOf, IsHigh
<1> QED BY <1>1, <1>2

\* The three states of a switch differ.
LEMMA StatesDiffer == Lap # OnTheRun /\ Lap # Unknown /\ OnTheRun # Unknown
  BY DEF Lap, OnTheRun, Unknown

\* A level of the pin that is left unread hides one pulse from the device.
LEMMA PinStep ==
    ASSUME SwitchInv, NEW level \in BOOLEAN, Pin(level)
    PROVE  /\ high' = level /\ pulses' \in Nat /\ unread' \in Nat
           /\ Taken <= pulses' - One(ReadHigh /\ ~level)
           /\ pulses' - One(ReadHigh /\ ~level) <= Taken + unread'
<1>1. /\ high' = level
      /\ pulses' = IF high /\ ~level THEN pulses + 1 ELSE pulses
      /\ unread' = IF level # high /\ ReadHigh # high THEN unread + 1 ELSE unread
  BY DEF Pin, UpToDate
<1>2. /\ high \in BOOLEAN /\ pulses \in Nat /\ laps \in Nat /\ unread \in Nat
      /\ ReadHigh \in BOOLEAN /\ Taken \in Int
  BY DEF SwitchInv, ReadHigh, IsHigh, Taken, One
<1>3. PICK read \in BOOLEAN, n \in Nat, u \in Nat, taken \in Int :
         read = ReadHigh /\ n = pulses' /\ u = unread' /\ taken = Taken
  BY <1>1, <1>2
<1>4. /\ n = IF high /\ ~level THEN pulses + 1 ELSE pulses
      /\ u = IF level # high /\ read # high THEN unread + 1 ELSE unread
  BY <1>1, <1>3
<1>5. taken <= pulses - One(read /\ ~high) /\ pulses - One(read /\ ~high) <= taken + unread
  BY <1>3 DEF SwitchInv, Ended
<1>6. taken <= n - One(read /\ ~level) /\ n - One(read /\ ~level) <= taken + u
  <2>1. CASE level = high
    BY <1>2, <1>4, <1>5, <2>1
  <2>2. CASE level # high /\ read = high
    BY <1>2, <1>3, <1>4, <1>5, <2>2 DEF One
  <2>3. CASE level # high /\ read # high
    BY <1>2, <1>3, <1>4, <1>5, <2>3 DEF One
  <2> QED  BY <2>1, <2>2, <2>3
<1> QED  BY <1>1, <1>3, <1>6

\* A reading takes note of the end of a pulse that an earlier reading has found.
LEMMA SampleStep ==
    ASSUME SwitchInv, NEW raw \in Raws, Sample(raw)
    PROVE  /\ switch' \in [raw: Readings \cup {-1}, value: Int, state: {Unknown, OnTheRun, Lap},
                           changed: BOOLEAN]
           /\ switch'.raw \in Readings /\ switch'.value = Mapped(switch'.raw)
           /\ ReadHigh' = IsHigh(raw) /\ laps' \in Nat
           /\ Taken' = Taken + One(ReadHigh /\ ~IsHigh(raw))
<1> DEFINE old == StateOf(switch.raw)
           Switches == [raw: Readings \cup {-1}, value: Int, state: {Unknown, OnTheRun, Lap},
                        changed: BOOLEAN]
<1>1. raw \in Readings /\ laps \in Nat /\ switch \in Switches
  BY SwitchAssumption DEF SwitchInv
<1>2. Mapped(raw) \in Nat
  BY <1>1, MappedNotNegative
<1>3. /\ switch' = Read(switch, raw)
      /\ laps' = IF LapSeen(switch') THEN laps + 1 ELSE laps
  BY DEF Sample
<1>4. CASE switch.value = Mapped(raw)
  <2>1. switch.raw \in Readings /\ Mapped(switch.raw) = Mapped(raw)
    BY <1>2, <1>4 DEF SwitchInv
  <2>2. IsHigh(switch.raw) = IsHigh(raw)
    BY <1>1, <2>1, MappedKeepsSide
  <2>3. switch' = [switch EXCEPT !.changed = FALSE]
    BY <1>3, <1>4 DEF Read
  <2>4. switch'.raw = switch.raw /\ switch'.state = switch.state /\ switch'.value = switch.value
    BY <1>1, <2>3
  <2>5. laps' = laps
    BY <1>1, <1>3, <2>3 DEF LapSeen
  <2>6. Taken' = Taken /\ Taken \in Int /\ ReadHigh' = IsHigh(raw) /\ ReadHigh = IsHigh(raw)
    BY <1>1, <2>2, <2>4, <2>5 DEF Taken, ReadHigh, One
  <2>7. One(ReadHigh /\ ~IsHigh(raw)) = 0
    BY <2>6 DEF One
  <2>8. switch' \in Switches
    BY <1>1, <2>3
  <2> QED  BY <1>1, <1>4, <2>1, <2>4, <2>5, <2>6, <2>7, <2>8
<1>5. CASE switch.value # Mapped(raw)
  <2>1. switch' = [raw |-> raw, value |-> Mapped(raw), state |-> old,
                   changed |-> switch.state # old \/ old = Unknown]
    BY <1>3, <1>5 DEF Read
  <2>2. old \in {Unknown, OnTheRun, Lap}
    BY DEF StateOf
  <2>3. old = Lap <=> ReadHigh
    <3>1. CASE switch.raw = -1
      <4>1. ~ReadHigh
        BY <3>1 DEF ReadHigh, IsHigh
      <4> QED  BY <3>1, <4>1, StateOfReading, StatesDiffer
    <3>2. CASE switch.raw \in Readings
      BY <3>2, StateOfReading, StatesDiffer DEF ReadHigh
    <3> QED  BY <3>1, <3>2 DEF SwitchInv
  <2>4. /\ switch'.raw = raw /\ switch'.state = old /\ switch'.value = Mapped(raw)
        /\ switch' \in Switches
    BY <1>1, <1>2, <2>1, <2>2
  <2>5. LapSeen(switch') <=> ReadHigh /\ switch.state # Lap
    BY <2>1, <2>3, StatesDiffer DEF LapSeen
  <2>6. ReadHigh' = IsHigh(raw)
    BY <2>4 DEF ReadHigh
  <2>7. PICK read \in BOOLEAN, inLap \in BOOLEAN, level \in BOOLEAN :
           read = ReadHigh /\ inLap = (switch.state = Lap) /\ level = IsHigh(raw)
    <3>1. ReadHigh \in BOOLEAN /\ (switch.state = Lap) \in BOOLEAN /\ IsHigh(raw) \in BOOLEAN
      BY DEF ReadHigh, IsHigh
    <3> HIDE DEF old, Switches
    <3> QED  BY <3>1, Zenon
  <2>8. laps' = (IF read /\ ~inLap THEN laps + 1 ELSE laps) /\ laps' \in Nat
    <3>1. laps' = IF ReadHigh /\ switch.state # Lap THEN laps + 1 ELSE laps
      BY <1>3, <2>5
    <3>2. (ReadHigh /\ switch.state # Lap) = (read /\ ~inLap)
      BY <2>7, Zenon
    <3> QED  BY <1>1, <3>1, <3>2
  <2>9. PICK n \in Nat : n = laps'
    BY <2>8
  <2>10. Taken' = n - One(level /\ read) /\ Taken = laps - One(read /\ inLap)
    BY <2>3, <2>4, <2>6, <2>7, <2>9 DEF Taken
  <2>11. n - One(level /\ read) = laps - One(read /\ inLap) + One(read /\ ~level)
    <3>1. n = IF read /\ ~inLap THEN laps + 1 ELSE laps
      BY <2>8, <2>9
    <3> QED  BY <1>1, <2>7, <2>9, <3>1 DEF One
  <2>12. Taken' = Taken + One(ReadHigh /\ ~IsHigh(raw))
    BY <2>7, <2>10, <2>11
  <2> QED  BY <1>1, <2>4, <2>6, <2>8, <2>12
<1> QED  BY <1>4, <1>5

\* The switch has counted the pulses that ended, and the one in progress once it is read twice.
LEMMA SwitchInvariant == SwitchSpec => []SwitchInv
<1>1. SwitchInit => SwitchInv
  <2> SUFFICES ASSUME SwitchInit PROVE SwitchInv OBVIOUS
  <2>1. switch = [raw |-> -1, value |-> -1, state |-> Unknown, changed |-> FALSE]
    BY DEF SwitchInit, NewSwitch
  <2>2. switch \in [raw: Readings \cup {-1}, value: Int, state: {Unknown, OnTheRun, Lap},
                    changed: BOOLEAN]
    BY <2>1
  <2>3. switch.raw = -1 /\ switch.value = -1 /\ ~ReadHigh
    BY <2>1 DEF ReadHigh, IsHigh
  <2>4. high = FALSE /\ pulses = 0 /\ laps = 0 /\ unread = 0
    BY DEF SwitchInit
  <2>5. One(ReadHigh /\ switch.state = Lap) = 0 /\ One(ReadHigh /\ ~high) = 0
    BY <2>3 DEF One
  <2>6. Taken = 0 /\ Ended = 0
    BY <2>4, <2>5 DEF Taken, Ended
  <2>7. Taken <= Ended /\ Ended <= Taken + unread
    BY <2>4, <2>6
  <2> QED BY <2>2, <2>3, <2>4, <2>7 DEF SwitchInv
<1>2. SwitchInv /\ [SwitchNext]_switchVars => SwitchInv'
  <2> SUFFICES ASSUME SwitchInv, [SwitchNext]_switchVars PROVE SwitchInv' OBVIOUS
  <2>1. ASSUME NEW raw \in Raws, Sample(raw) PROVE SwitchInv'
    <3>1. PICK level \in BOOLEAN : level = IsHigh(raw) /\ Pin(level)
      <4>1. IsHigh(raw) \in BOOLEAN
        BY DEF IsHigh
      <4>2. Pin(IsHigh(raw))
        BY <2>1 DEF Sample
      <4> QED  BY <4>1, <4>2, Zenon
    <3>2. /\ high' = level /\ pulses' \in Nat /\ unread' \in Nat
          /\ Taken <= pulses' - One(ReadHigh /\ ~level)
          /\ pulses' - One(ReadHigh /\ ~level) <= Taken + unread'
      BY <3>1, PinStep
    <3>3. /\ switch' \in [raw: Readings \cup {-1}, value: Int, state: {Unknown, OnTheRun, Lap},
                          changed: BOOLEAN]
          /\ switch'.raw \in Readings /\ switch'.value = Mapped(switch'.raw)
          /\ ReadHigh' = level /\ laps' \in Nat
          /\ Taken' = Taken + One(ReadHigh /\ ~level)
      BY <2>1, <3>1, SampleStep
    <3>4. Ended' = pulses'
      <4>1. One(ReadHigh /\ ~high)' = 0
        BY <3>2, <3>3 DEF One
      <4>2. PICK n \in Nat : n = pulses'
        BY <3>2
      <4>3. n - 0 = n
        OBVIOUS
      <4> QED  BY <4>1, <4>2, <4>3 DEF Ended
    <3>5. PICK n \in Nat, u \in Nat, taken \in Int, one \in {0, 1} :
             n = pulses' /\ u = unread' /\ taken = Taken /\ one = One(ReadHigh /\ ~level)
      <4>1. Taken \in Int /\ One(ReadHigh /\ ~level) \in {0, 1}
        BY DEF SwitchInv, Taken, One
      <4> QED  BY <3>2, <4>1, Zenon
    <3>6. taken <= n - one /\ n - one <= taken + u
      BY <3>2, <3>5
    <3>7. taken + one <= n /\ n <= taken + one + u
      BY <3>5, <3>6
    <3>8. Taken' <= Ended' /\ Ended' <= Taken' + unread'
      BY <3>3, <3>4, <3>5, <3>7
    <3> QED  BY <3>1, <3>2, <3>3, <3>8 DEF SwitchInv
  <2>2. ASSUME NEW level \in BOOLEAN, Skip(level) PROVE SwitchInv'
    <3>1. UNCHANGED <<switch, laps>> /\ Pin(level)
      BY <2>2 DEF Skip
    <3>2. /\ high' = level /\ pulses' \in Nat /\ unread' \in Nat
          /\ Taken <= pulses' - One(ReadHigh /\ ~level)
          /\ pulses' - One(ReadHigh /\ ~level) <= Taken + unread'
      BY <3>1, PinStep
    <3>3. Taken' = Taken /\ Ended' = pulses' - One(ReadHigh /\ ~level)
      BY <3>1, <3>2 DEF Taken, Ended, ReadHigh
    <3> QED  BY <3>1, <3>2, <3>3 DEF SwitchInv
  <2>3. CASE UNCHANGED switchVars
    BY <2>3 DEF switchVars, SwitchInv, Taken, Ended, ReadHigh
  <2> QED BY <2>1, <2>2, <2>3 DEF SwitchNext
<1> QED BY <1>1, <1>2, PTL DEF SwitchSpec

\* One lap per pulse, for any readings of the pin, at any times.
THEOREM PulsesCounted == SwitchSpec => []OneLapPerPulse
<1>1. SwitchInv => OneLapPerPulse
  <2> SUFFICES ASSUME SwitchInv PROVE OneLapPerPulse OBVIOUS
  <2>1. PICK read \in BOOLEAN, inLap \in BOOLEAN :
           read = ReadHigh /\ inLap = (switch.state = Lap)
    <3>1. ReadHigh \in BOOLEAN /\ (switch.state = Lap) \in BOOLEAN
      BY DEF ReadHigh, IsHigh
    <3> QED  BY <3>1, Zenon
  <2>2. /\ laps - One(read /\ inLap) <= pulses - One(read /\ ~high)
        /\ pulses - One(read /\ ~high) <= laps - One(read /\ inLap) + unread
        /\ high \in BOOLEAN /\ pulses \in Nat /\ laps \in Nat /\ unread \in Nat
    BY <2>1 DEF SwitchInv, Taken, Ended
  <2>3. laps <= pulses + (IF high THEN 1 ELSE 0)
    BY <2>1, <2>2 DEF One
  <2>4. read = high => pulses <= laps + unread
    BY <2>1, <2>2 DEF One
  <2> QED BY <2>1, <2>3, <2>4 DEF OneLapPerPulse, UpToDate
<1> QED BY <1>1, SwitchInvariant, PTL

-----------------------------------------------------------------------------
(* From the car to the lap.                                                 *)

\* Division of natural numbers.
LEMMA DivModFacts ==
    ASSUME NEW m \in Nat, NEW M \in Nat \ {0}
    PROVE  /\ m % M \in Nat /\ m \div M \in Nat
           /\ m < M => m % M = m
           /\ m \div M = 0 => m < M
  OBVIOUS

\* What a measurement does to time and to the switch of the track device.
LEMMA MeasureFacts ==
    ASSUME SensorTypeOK, NEW turn, NEW d \in 0..EchoTimeout, Measure(turn, d)
    PROVE  /\ millis' \in Nat /\ wraps' \in Nat /\ misses' \in Nat /\ absent' \in Nat
           /\ high' \in BOOLEAN /\ pulses' \in Nat
           /\ high' = IF d = 0 THEN high ELSE relay
           /\ pulses' = IF d # 0 /\ high /\ ~relay THEN pulses + 1 ELSE pulses
           /\ misses' = IF d = EchoTimeout THEN misses + 1 ELSE misses
           /\ wraps' >= wraps
           /\ present => absent' = absent
           /\ ~present => absent' <= absent + d
           /\ wraps' = 0 => wraps = 0 /\ millis' = millis + d
<1>1. /\ millis \in Nat /\ MillisSize \in Nat \ {0} /\ d \in Nat /\ EchoTimeout \in Nat
      /\ wraps \in Nat /\ misses \in Nat /\ absent \in Nat /\ MinGap \in Nat
      /\ high \in BOOLEAN /\ relay \in BOOLEAN /\ present \in BOOLEAN /\ pulses \in Nat
  BY SensorAssumption DEF SensorTypeOK, EchoTimeout
<1>2. /\ millis' = (millis + d) % MillisSize
      /\ wraps' = wraps + (millis + d) \div MillisSize
      /\ absent' = IF present THEN absent ELSE Capped(absent + d, MinGap)
      /\ misses' = IF d = EchoTimeout THEN misses + 1 ELSE misses
      /\ IF d = 0 THEN UNCHANGED switchVars ELSE DeviceLooks
  BY DEF Measure, Elapse
<1>3. /\ (millis + d) % MillisSize \in Nat /\ (millis + d) \div MillisSize \in Nat
      /\ millis + d < MillisSize => (millis + d) % MillisSize = millis + d
      /\ (millis + d) \div MillisSize = 0 => millis + d < MillisSize
  <2>1. millis + d \in Nat
    BY <1>1
  <2> QED  BY <1>1, <2>1, DivModFacts
<1>4. /\ millis' \in Nat /\ wraps' \in Nat /\ wraps' >= wraps
      /\ wraps' = 0 => wraps = 0 /\ millis' = millis + d
  BY <1>1, <1>2, <1>3
<1>5. /\ high' = IF d = 0 THEN high ELSE relay
      /\ pulses' = IF d # 0 /\ high /\ ~relay THEN pulses + 1 ELSE pulses
  <2>1. CASE d = 0
    BY <1>2, <2>1 DEF switchVars
  <2>2. CASE d # 0
    <3>1. Pin(relay)
      BY <1>2, <2>2 DEF DeviceLooks, Sample, Skip
    <3> QED  BY <2>2, <3>1 DEF Pin
  <2> QED  BY <2>1, <2>2
<1>6. absent' \in Nat /\ (present => absent' = absent) /\ (~present => absent' <= absent + d)
  BY <1>1, <1>2 DEF Capped
<1> QED  BY <1>1, <1>2, <1>4, <1>5, <1>6

\* Every measurement is one of these five.
LEMMA SensorSteps ==
    ASSUME Next
    PROVE  \/ CarComes \/ CarGoes \/ Decide
           \/ \E d \in 0..EchoTimeout :
                \/ d \in EchoTimes /\ (MeasureFreeTrack(d) \/ MeasureCar(d) \/ MeasureBeside(d))
                \/ d = EchoTimeout /\ MissEcho
                \/ d \in EchoTimes \cup {EchoTimeout} /\ MeasureOther(d)
<1>1. EchoTimes \subseteq 0..EchoTimeout /\ EchoTimeout \in 0..EchoTimeout
  BY DEF EchoTimes, EchoTimeout
<1> QED  BY <1>1 DEF Next

\* No step leaves the types.
LEMMA SensorTypeStep ==
    ASSUME SensorTypeOK, [Next]_sensorVars
    PROVE  SensorTypeOK'
<1>1. ASSUME NEW d \in 0..EchoTimeout, NEW turn, Measure(turn, d),
             active' \in BOOLEAN, seen' \in BOOLEAN, unseen' \in Nat
      PROVE  SensorTypeOK'
  <2>1. pc' \in {"first", "second", "decide"}
        /\ UNCHANGED <<lane, curr, state, stateSw, led, ledSw, relay, present, passages,
                       calibrated>>
    BY <1>1 DEF Measure, outputs
  <2>2. /\ millis' \in Nat /\ wraps' \in Nat /\ misses' \in Nat /\ absent' \in Nat
        /\ high' \in BOOLEAN /\ pulses' \in Nat
    BY <1>1, MeasureFacts
  <2> QED  BY <1>1, <2>1, <2>2 DEF SensorTypeOK
<1>2. ASSUME NEW d \in 0..EchoTimeout,
             \/ MeasureFreeTrack(d) \/ MeasureCar(d) \/ MeasureBeside(d) \/ MeasureOther(d)
             \/ d = EchoTimeout /\ MissEcho
      PROVE  SensorTypeOK'
  <2>1. d \in Nat /\ unseen \in Nat /\ seen \in BOOLEAN /\ active \in BOOLEAN
    BY DEF SensorTypeOK, EchoTimeout
  <2>2. seen' \in BOOLEAN /\ unseen' \in Nat
    <3>1. seen' = seen \/ seen' = TRUE
      BY <1>2 DEF MeasureFreeTrack, MeasureCar, MeasureBeside, MeasureOther, MissEcho
    <3>2. unseen' = unseen \/ unseen' = 0 \/ unseen' = unseen + d
      BY <1>2 DEF MeasureFreeTrack, MeasureCar, MeasureBeside, MeasureOther, MissEcho
    <3>3. unseen' \in Nat
      BY <2>1, <3>2
    <3> QED  BY <2>1, <3>1, <3>3
  <2>3. active' = active \/ \E mm : active' = (mm < low)
    BY <1>2 DEF MeasureFreeTrack, MeasureCar, MeasureBeside, MeasureOther, MissEcho
  <2>4. active' \in BOOLEAN
    <3>1. ASSUME NEW mm, active' = (mm < low) PROVE active' \in BOOLEAN
      <4>1. CASE mm < low
        BY <3>1, <4>1
      <4>2. CASE ~(mm < low)
        BY <3>1, <4>2
      <4> QED  BY <4>1, <4>2
    <3> QED  BY <2>1, <2>3, <3>1
  <2> QED  BY <1>1, <1>2, <2>2, <2>4 DEF MeasureFreeTrack, MeasureCar, MeasureBeside,
                                         MeasureOther, MissEcho
<1>3. CASE CarComes
  <2>1. /\ UNCHANGED <<lane, pc, millis, curr, active, stateSw, state, led, ledSw, relay, absent,
                        calibrated, wraps, misses, high, pulses>>
        /\ present' = TRUE /\ seen' = FALSE /\ unseen' = 0 /\ passages' = passages + 1
    BY <1>3 DEF CarComes, outputs, switchVars
  <2>2. passages' \in Nat /\ unseen' \in Nat
    BY <2>1 DEF SensorTypeOK
  <2>3. present' \in BOOLEAN /\ seen' \in BOOLEAN
    BY <2>1
  <2> QED  BY <2>1, <2>2, <2>3 DEF SensorTypeOK
<1>4. CASE CarGoes
  BY <1>4 DEF CarGoes, SensorTypeOK, outputs, switchVars
<1>5. CASE Decide
  <2>1. stateSw' \in BOOLEAN /\ ledSw' \in BOOLEAN /\ relay' \in BOOLEAN /\ pc' = "first"
    BY <1>5 DEF Decide
  <2>2. state' \in Nat /\ led' \in Nat /\ curr' \in Nat
    BY <1>5 DEF Decide, SensorTypeOK
  <2> QED  BY <1>5, <2>1, <2>2 DEF Decide, SensorTypeOK, traffic, switchVars
<1>6. CASE UNCHANGED sensorVars
  BY <1>6 DEF sensorVars, SensorTypeOK, outputs, traffic, switchVars
<1> QED  BY <1>2, <1>3, <1>4, <1>5, <1>6, SensorSteps

\* No step sets the limit.
LEMMA LowKnownStep ==
    ASSUME SensorTypeOK, LowKnown, [Next]_sensorVars
    PROVE  LowKnown'
<1>1. low' = low /\ calibrated' = calibrated
  BY DEF Next, CarComes, CarGoes, Measure, MeasureFreeTrack, MeasureCar, MeasureBeside, MissEcho,
         MeasureOther, Decide, sensorVars
<1>2. misses # 0 => misses' # 0
  <2>1. ASSUME NEW d \in 0..EchoTimeout, NEW turn, Measure(turn, d), misses # 0
        PROVE  misses' # 0
    BY <2>1 DEF Measure, SensorTypeOK
  <2>2. CASE misses' = misses
    BY <2>2
  <2>3. CASE misses' # misses
    <3>1. \E d \in 0..EchoTimeout, turn \in {OwnTurn, OtherTurn} : Measure(turn, d)
      BY <2>3, SensorSteps DEF CarComes, CarGoes, MeasureFreeTrack, MeasureCar,
         MeasureBeside, MissEcho, MeasureOther, Decide, sensorVars
    <3> QED  BY <2>1, <3>1
  <2> QED  BY <2>2, <2>3
<1> QED  BY <1>1, <1>2 DEF LowKnown, Low, Unsigned

\* A calm lane has always been calm, and its clock has only gone on.
LEMMA CalmBefore ==
    ASSUME SensorTypeOK, [Next]_sensorVars, Calm'
    PROVE  Calm
<1>1. calibrated' = calibrated
  BY DEF Next, CarComes, CarGoes, Measure, MeasureFreeTrack, MeasureCar, MeasureBeside, MissEcho,
         MeasureOther, Decide, sensorVars
<1>2. CASE UNCHANGED <<millis, wraps, misses>>
  BY <1>1, <1>2 DEF Calm, Wraps
<1>3. ASSUME NEW d \in 0..EchoTimeout, NEW turn, Measure(turn, d)
      PROVE  Calm
  <2>1. /\ misses' = IF d = EchoTimeout THEN misses + 1 ELSE misses
        /\ wraps' \in Nat
        /\ wraps' = 0 => wraps = 0 /\ millis' = millis + d
    BY <1>3, MeasureFacts
  <2>2. wraps' = 0 /\ millis' + EvBuff < MillisSize /\ misses' = 0
    <3>1. PICK w \in Nat, m \in Nat : w = wraps' /\ m = millis'
      BY <1>3, MeasureFacts
    <3>2. misses' = 0 /\ w + (IF m + EvBuff >= MillisSize THEN 1 ELSE 0) = 0
      BY <3>1 DEF Calm, Wraps
    <3>3. w = 0 /\ m + EvBuff < MillisSize
      BY <3>2, SensorAssumption DEF EvBuff
    <3> QED  BY <3>1, <3>2, <3>3
  <2>3. misses = 0
    BY <2>1, <2>2 DEF SensorTypeOK
  <2>4. millis + EvBuff < MillisSize
    BY <2>1, <2>2, SensorAssumption DEF SensorTypeOK, EvBuff
  <2>5. ~(millis + EvBuff >= MillisSize)
    BY <2>4, SensorAssumption DEF SensorTypeOK, EvBuff
  <2> QED  BY <1>1, <2>1, <2>2, <2>3, <2>5 DEF Calm, Wraps
<1>4. CASE CarComes \/ CarGoes \/ Decide \/ UNCHANGED sensorVars
  BY <1>2, <1>4 DEF CarComes, CarGoes, Decide, sensorVars
<1> QED  BY <1>3, <1>4, SensorSteps DEF MeasureFreeTrack, MeasureCar, MeasureBeside, MissEcho,
            MeasureOther

CalmParts == RoundInv /\ PulseInv /\ CarInv /\ CountInv

\* The sums of a calm lane do not overflow.
LEMMA CalmAfter ==
    ASSUME SensorTypeOK, Calm, NEW t \in Nat, t <= millis, NEW wait \in 0..EvBuff
    PROVE  After(t, wait) <=> curr > t + wait
<1>1. millis \in Nat /\ wraps \in Nat /\ MillisSize \in Nat \ {0} /\ wait \in Nat /\ wait <= 5
  BY SensorAssumption DEF SensorTypeOK, EvBuff
<1>2. ~(millis + 5 >= MillisSize)
  BY <1>1 DEF Calm, Wraps, EvBuff
<1>3. t + wait \in Nat /\ t + wait < MillisSize
  BY <1>1, <1>2
<1>4. (t + wait) % MillisSize = t + wait
  BY <1>1, <1>3, DivModFacts
<1> QED  BY <1>4 DEF After

\* The debouncing and the relay.
LEMMA CalmDecide ==
    ASSUME SensorTypeOK, Calm, CalmParts, WellPlaced, Decide
    PROVE  CalmParts'
<1>1. /\ millis \in Nat /\ curr \in Nat /\ state \in Nat /\ led \in Nat /\ unseen \in Nat
      /\ absent \in Nat /\ passages \in Nat /\ pulses \in Nat /\ MaxDropout \in Nat
      /\ active \in BOOLEAN /\ stateSw \in BOOLEAN /\ ledSw \in BOOLEAN /\ relay \in BOOLEAN
      /\ present \in BOOLEAN /\ seen \in BOOLEAN /\ high \in BOOLEAN
  BY SensorAssumption DEF SensorTypeOK
<1>2. /\ curr <= millis /\ millis <= curr + 1 /\ state <= curr /\ led <= curr
      /\ relay = ledSw
      /\ stateSw => led <= state /\ curr <= state + 6
      /\ ledSw => stateSw /\ curr <= led + 3
      /\ relay /\ millis > led + 1 => high
      /\ high /\ ~relay => stateSw /\ millis <= led + 4
  BY <1>1 DEF CalmParts, RoundInv, PulseInv, EvBuff, LedTime
<1>3. /\ present /\ ~seen => ~active /\ ~stateSw
      /\ present /\ seen /\ active => unseen = 0
      /\ present /\ seen /\ ~active => stateSw /\ millis <= state + 1 + unseen /\ unseen < 5
      /\ ~present /\ stateSw => state + absent <= millis
      /\ ~present /\ active => curr + absent <= millis
  <2>1. Fresh
    BY DEF Decide, Fresh
  <2>2. MaxDropout < 5
    BY DEF WellPlaced, EvBuff
  <2> QED  BY <1>1, <2>1, <2>2 DEF CalmParts, CarInv
<1>4. /\ pc' = "first" /\ ~Fresh'
      /\ state' = IF active THEN curr ELSE state
      /\ led' = IF active /\ ~stateSw THEN curr ELSE led
      /\ relay' = ledSw' /\ curr' = millis
      /\ UNCHANGED <<millis, active, present, seen, unseen, absent, passages, high, pulses>>
  BY DEF Decide, NewlyActive, Fresh, traffic, switchVars
<1>5. /\ led' \in Nat /\ led' <= millis /\ state' \in Nat
  BY <1>1, <1>2, <1>4
<1>6. stateSw' = (active \/ (stateSw /\ ~(curr > state + 5)))
  <2>1. After(state, EvBuff) <=> curr > state + 5
    BY <1>1, <1>2, CalmAfter DEF EvBuff
  <2> QED  BY <2>1 DEF Decide, Debounced
<1>7. ledSw' = ((ledSw \/ (active /\ ~stateSw)) /\ ~(curr > led' + 2))
  <2>1. After(led', LedTime) <=> curr > led' + 2
    BY <1>5, CalmAfter DEF LedTime, EvBuff
  <2> QED  BY <2>1 DEF Decide, NewlyActive
<1>8. RoundInv'
  BY <1>1, <1>2, <1>4 DEF RoundInv
<1>9. PulseInv'
  <2>1. PICK st \in Nat, ld \in Nat : st = state' /\ ld = led'
    BY <1>5
  <2>2. stateSw' => ld <= st /\ millis <= st + 6
    BY <1>1, <1>2, <1>4, <1>6, <2>1
  <2>3. ledSw' => stateSw' /\ millis <= ld + 3
    <3>1. ledSw' => curr <= ld + 2
      <4>1. ledSw' => ~(curr > ld + 2)
        BY <1>7, <2>1
      <4>2. ~(curr > ld + 2) => curr <= ld + 2
        BY <1>1
      <4> QED  BY <4>1, <4>2
    <3>2. curr <= ld + 2 => millis <= ld + 3
      BY <1>1, <1>2
    <3>3. ledSw /\ curr <= led + 2 => stateSw /\ ~(curr > state + 5)
      BY <1>1, <1>2
    <3>4. ledSw /\ ~active => ld = led
      BY <1>4, <2>1
    <3> QED  BY <1>1, <1>6, <1>7, <3>1, <3>2, <3>3, <3>4
  <2>4. ledSw' /\ millis > ld + 1 => high
    BY <1>1, <1>2, <1>4, <1>7, <2>1
  <2>5. high /\ ~ledSw' => stateSw' /\ millis <= ld + 4
    BY <1>1, <1>2, <1>4, <1>6, <1>7, <2>1
  <2>6. st + EvBuff + 1 = st + 6 /\ ld + LedTime + 1 = ld + 3 /\ ld + LedTime + 2 = ld + 4
    BY DEF EvBuff, LedTime
  <2> QED  BY <1>4, <2>1, <2>2, <2>3, <2>4, <2>5, <2>6 DEF PulseInv
<1>10. CarInv'
  BY <1>1, <1>2, <1>3, <1>4, <1>6 DEF CarInv
<1>11. CountInv'
  <2>1. (high \/ relay') /\ ~(high \/ relay) <=> active /\ ~stateSw
    BY <1>1, <1>2, <1>4, <1>7
  <2>2. (high \/ relay) => (high \/ relay')
    BY <1>1, <1>2, <1>4, <1>7
  <2>3. ~(active' /\ ~stateSw')
    BY <1>4, <1>6
  <2>4. passages = pulses + (IF high \/ relay THEN 1 ELSE 0)
                      + (IF (present /\ ~seen) \/ (active /\ ~stateSw) THEN 1 ELSE 0)
    BY DEF CalmParts, CountInv
  <2>5. passages = pulses + (IF high \/ relay' THEN 1 ELSE 0)
                      + (IF present /\ ~seen THEN 1 ELSE 0)
    BY <1>1, <1>3, <2>1, <2>2, <2>4
  <2> QED  BY <1>4, <2>3, <2>5 DEF CountInv
<1> QED  BY <1>8, <1>9, <1>10, <1>11 DEF CalmParts

\* A measurement of a calm lane.
LEMMA CalmMeasure ==
    ASSUME SensorTypeOK, Calm, CalmParts, NEW turn \in {"first", "second"}, NEW d \in 0..1,
           Measure(turn, d), pc = "second" => d = 0, Calm'
    PROVE  /\ RoundInv' /\ PulseInv'
           /\ pulses' + (IF high' \/ relay' THEN 1 ELSE 0)
                = pulses + (IF high \/ relay THEN 1 ELSE 0)
           /\ millis' = millis + d /\ millis' \in Nat /\ absent' \in Nat
           /\ present => absent' = absent
           /\ ~present => absent' <= absent + d
<1>1. /\ millis \in Nat /\ curr \in Nat /\ state \in Nat /\ led \in Nat /\ pulses \in Nat
      /\ stateSw \in BOOLEAN /\ ledSw \in BOOLEAN /\ relay \in BOOLEAN /\ high \in BOOLEAN
      /\ d \in Nat /\ d <= 1 /\ d \in 0..EchoTimeout
  BY DEF SensorTypeOK, EchoTimeout
<1>2. /\ curr <= millis /\ millis <= curr + 1 /\ (pc = "first" => millis = curr)
      /\ state <= curr /\ led <= curr
      /\ relay = ledSw
      /\ stateSw => led <= state /\ curr <= state + EvBuff + 1
      /\ ledSw => stateSw /\ curr <= led + LedTime + 1
      /\ relay /\ millis > led + 1 => high
      /\ high /\ ~relay => stateSw /\ millis <= led + LedTime + 2
  BY DEF CalmParts, RoundInv, PulseInv
<1>3. /\ pc' # "first" /\ (pc = "first" \/ d = 0)
      /\ UNCHANGED <<curr, state, stateSw, led, ledSw, relay>>
  BY DEF Measure, outputs
<1>4. /\ high' = IF d = 0 THEN high ELSE relay
      /\ pulses' = IF d # 0 /\ high /\ ~relay THEN pulses + 1 ELSE pulses
      /\ wraps' \in Nat /\ misses' \in Nat /\ absent' \in Nat /\ millis' \in Nat
      /\ wraps' = 0 => millis' = millis + d
      /\ present => absent' = absent
      /\ ~present => absent' <= absent + d
  BY <1>1, MeasureFacts
<1>5. millis' = millis + d
  <2>1. PICK w \in Nat, m \in Nat : w = wraps' /\ m = millis'
    BY <1>4
  <2>2. w + (IF m + EvBuff >= MillisSize THEN 1 ELSE 0) = 0
    BY <2>1 DEF Calm, Wraps
  <2>3. w = 0
    BY <2>2
  <2> QED  BY <1>4, <2>1, <2>3
<1>6. RoundInv'
  <2>1. curr <= millis + d /\ millis + d <= curr + 1
    BY <1>1, <1>2, <1>3
  <2> QED  BY <1>2, <1>3, <1>5, <2>1 DEF RoundInv
<1>7. PulseInv'
  <2>1. relay /\ millis + d > led + 1 => (IF d = 0 THEN high ELSE relay)
    BY <1>1, <1>2
  <2>2. (IF d = 0 THEN high ELSE relay) /\ ~relay => stateSw /\ millis + d <= led + LedTime + 2
    BY <1>1, <1>2
  <2> QED  BY <1>2, <1>3, <1>4, <1>5, <2>1, <2>2 DEF PulseInv
<1>8. pulses' + (IF high' \/ relay' THEN 1 ELSE 0) = pulses + (IF high \/ relay THEN 1 ELSE 0)
  <2>1. CASE d = 0
    BY <1>3, <1>4, <2>1
  <2>2. CASE d # 0 /\ relay
    BY <1>3, <1>4, <2>2
  <2>3. CASE d # 0 /\ ~relay
    BY <1>1, <1>3, <1>4, <2>3
  <2> QED  BY <2>1, <2>2, <2>3
<1> QED  BY <1>4, <1>5, <1>6, <1>7, <1>8

\* What the five kinds of measurement do to a calm lane.
LEMMA CalmMeasured ==
    ASSUME SensorTypeOK, Calm, CalmParts, LowKnown, WellPlaced,
           NEW turn, NEW d \in 0..1, Measure(turn, d), pc = "second" => d = 0, Calm',
           \/ turn = OwnTurn /\ (MeasureFreeTrack(d) \/ MeasureCar(d) \/ MeasureBeside(d))
           \/ turn = OtherTurn /\ MeasureOther(d)
    PROVE  CalmParts'
<1>1. /\ millis \in Nat /\ curr \in Nat /\ state \in Nat /\ unseen \in Nat /\ absent \in Nat
      /\ active \in BOOLEAN /\ stateSw \in BOOLEAN /\ present \in BOOLEAN /\ seen \in BOOLEAN
      /\ d \in Nat
  BY DEF SensorTypeOK
<1>2. /\ millis' = millis + d /\ RoundInv' /\ PulseInv'
      /\ pulses' + (IF high' \/ relay' THEN 1 ELSE 0)
           = pulses + (IF high \/ relay THEN 1 ELSE 0)
      /\ absent' \in Nat
      /\ ~present => absent' <= absent + d
  <2>1. turn \in {"first", "second"}
    BY DEF OwnTurn, OtherTurn
  <2> QED  BY <2>1, CalmMeasure
<1>3. /\ UNCHANGED <<lane, curr, state, stateSw, present, passages>>
      /\ Fresh' <=> (turn = OwnTurn \/ Fresh)
      /\ turn = OwnTurn => ~Fresh
      /\ Fresh => d = 0
  <2>1. /\ UNCHANGED <<lane, curr, state, stateSw, present, passages>>
        /\ pc = turn /\ pc' = IF turn = "first" THEN "second" ELSE "decide"
    BY DEF Measure, outputs
  <2>2. lane = "Red" \/ lane = "Black"
    BY DEF SensorTypeOK
  <2>3. turn = "first" \/ turn = "second"
    BY DEF OwnTurn, OtherTurn
  <2>4. Fresh' <=> (turn = OwnTurn \/ Fresh)
    BY <2>1, <2>2, <2>3 DEF Fresh, OwnTurn
  <2>5. turn = OwnTurn => ~Fresh
    BY <2>1, <2>2, <2>3 DEF Fresh, OwnTurn
  <2>6. Fresh => d = 0
    BY <2>1, <2>3 DEF Fresh
  <2> QED  BY <2>1, <2>4, <2>5, <2>6
<1>4. /\ active /\ ~Fresh => stateSw
      /\ present /\ ~seen => ~active /\ ~stateSw
      /\ present /\ seen =>
           /\ IF Fresh /\ active THEN unseen = 0 ELSE stateSw /\ millis <= state + 1 + unseen
           /\ Fresh /\ ~active => unseen <= MaxDropout
      /\ ~present /\ stateSw => state + absent <= millis
      /\ ~present /\ active /\ Fresh => curr + absent <= millis
  BY DEF CalmParts, CarInv
<1>5. /\ \A mm \in ClearReadings : ~(mm < low)
      /\ \A mm \in CarReadings : mm < low
  BY DEF Calm, LowKnown, WellPlaced
<1>6. PICK ab \in Nat : ab = absent' /\ (~present => ab <= absent + d)
  BY <1>2
<1> DEFINE Later(t) == t + absent <= millis /\ ab <= absent + d => t + ab <= millis + d
<1>7. Later(state) /\ Later(curr)
  BY <1>1
<1>8. CarInv' /\ ((present /\ ~seen') \/ (active' /\ ~stateSw)
                    <=> (present /\ ~seen) \/ (active /\ ~stateSw))
  <2>1. CASE MeasureFreeTrack(d) /\ turn = OwnTurn
    <3>1. Fresh' /\ ~present /\ ~active' /\ (active => stateSw)
      BY <1>3, <1>4, <1>5, <2>1 DEF MeasureFreeTrack
    <3>2. stateSw => state + ab <= millis + d
      BY <1>4, <1>6, <1>7, <3>1
    <3> QED  BY <1>2, <1>3, <1>6, <3>1, <3>2 DEF CarInv
  <2>2. CASE MeasureCar(d) /\ turn = OwnTurn
    <3>1. Fresh' /\ present /\ seen' = TRUE /\ unseen' = 0 /\ (active => stateSw)
      BY <1>3, <1>4, <2>2 DEF MeasureCar
    <3>2. active' = TRUE
      BY <1>5, <2>2 DEF MeasureCar
    <3>3. seen <=> stateSw
      BY <1>1, <1>3, <1>4, <2>2, <3>1
    <3>4. CarInv'
      BY <1>3, <3>1, <3>2 DEF CarInv
    <3> QED  BY <3>1, <3>2, <3>3, <3>4
  <2>3. CASE MeasureBeside(d) /\ turn = OwnTurn
    <3>1. /\ Fresh' /\ present /\ seen /\ seen' = seen /\ unseen' = unseen + d
          /\ unseen' <= MaxDropout /\ ~active'
      BY <1>3, <1>5, <2>3 DEF MeasureBeside
    <3>2. stateSw /\ millis <= state + 1 + unseen
      BY <1>3, <1>4, <2>3, <3>1
    <3>3. millis + d <= state + 1 + (unseen + d)
      BY <1>1, <3>2
    <3> QED  BY <1>2, <1>3, <3>1, <3>2, <3>3 DEF CarInv
  <2>4. CASE MeasureOther(d) /\ turn = OtherTurn
    <3>1. /\ active' = active /\ seen' = seen
          /\ unseen' = IF present THEN unseen + d ELSE unseen
          /\ Fresh' <=> Fresh
      <4>1. OtherTurn # OwnTurn
        BY DEF OwnTurn, OtherTurn
      <4> QED  BY <1>3, <2>4, <4>1 DEF MeasureOther
    <3>2. present /\ millis <= state + 1 + unseen => millis + d <= state + 1 + unseen'
      BY <1>1, <3>1
    <3>3. Fresh => unseen' = unseen /\ (~present => ab <= absent) /\ millis + d = millis
      BY <1>1, <1>2, <1>3, <1>6, <3>1
    <3>4. ~present /\ stateSw => state + ab <= millis + d
      BY <1>4, <1>6, <1>7
    <3>5. ~present /\ active /\ Fresh => curr + ab <= millis + d
      BY <1>4, <1>6, <1>7
    <3> QED  BY <1>2, <1>3, <1>4, <1>6, <3>1, <3>2, <3>3, <3>4, <3>5 DEF CarInv
  <2> QED  BY <2>1, <2>2, <2>3, <2>4
<1>9. CountInv'
  <2>1. passages = pulses + (IF high \/ relay THEN 1 ELSE 0)
                      + (IF (present /\ ~seen) \/ (active /\ ~stateSw) THEN 1 ELSE 0)
    BY DEF CalmParts, CountInv
  <2>2. passages = pulses' + (IF high' \/ relay' THEN 1 ELSE 0)
                      + (IF (present /\ ~seen') \/ (active' /\ ~stateSw) THEN 1 ELSE 0)
    BY <1>2, <1>8, <2>1
  <2> QED  BY <1>3, <2>2 DEF CountInv
<1> QED  BY <1>2, <1>8, <1>9 DEF CalmParts

\* A car that comes finds the lane at rest: nothing of the last one is left.
LEMMA CalmCarComes ==
    ASSUME SensorTypeOK, Calm, CalmParts, WellPlaced, CarComes
    PROVE  CalmParts'
<1>1. /\ millis \in Nat /\ curr \in Nat /\ state \in Nat /\ led \in Nat /\ absent \in Nat
      /\ passages \in Nat /\ pulses \in Nat /\ MinGap \in Nat
      /\ active \in BOOLEAN /\ stateSw \in BOOLEAN /\ ledSw \in BOOLEAN /\ relay \in BOOLEAN
      /\ high \in BOOLEAN
  BY SensorAssumption DEF SensorTypeOK
<1>2. /\ UNCHANGED <<lane, pc, millis, curr, active, state, stateSw, led, ledSw, relay, high,
                     pulses, absent>>
      /\ ~present /\ absent >= MinGap /\ MinGap > 7
      /\ present' = TRUE /\ seen' = FALSE /\ unseen' = 0 /\ passages' = passages + 1
  BY DEF CarComes, outputs, switchVars, WellPlaced, EvBuff
<1>3. /\ curr <= millis /\ millis <= curr + 1
      /\ stateSw => curr <= state + 6
      /\ active /\ ~Fresh => stateSw
      /\ stateSw => state + absent <= millis
      /\ active /\ Fresh => curr + absent <= millis
  BY <1>1, <1>2 DEF CalmParts, RoundInv, PulseInv, CarInv, EvBuff
<1>4. ~stateSw
  BY <1>1, <1>2, <1>3
<1>5. ~active
  BY <1>1, <1>2, <1>3, <1>4
<1>6. RoundInv' /\ PulseInv'
  BY <1>2 DEF CalmParts, RoundInv, PulseInv
<1>7. CarInv'
  BY <1>2, <1>4, <1>5 DEF CarInv
<1>8. CountInv'
  BY <1>1, <1>2, <1>5 DEF CalmParts, CountInv
<1> QED  BY <1>6, <1>7, <1>8 DEF CalmParts

\* A car that goes has been measured.
LEMMA CalmCarGoes ==
    ASSUME SensorTypeOK, Calm, CalmParts, WellPlaced, CarGoes
    PROVE  CalmParts'
<1>1. /\ millis \in Nat /\ curr \in Nat /\ state \in Nat /\ unseen \in Nat
      /\ active \in BOOLEAN /\ stateSw \in BOOLEAN
  BY DEF SensorTypeOK
<1>2. /\ UNCHANGED <<lane, pc, millis, curr, active, state, stateSw, led, ledSw, relay, high,
                     pulses, passages>>
      /\ present /\ seen /\ present' = FALSE /\ absent' = 0
      /\ UNCHANGED <<seen, unseen>>
  <2>1. ~Stretched
    BY <1>1 DEF CalmParts, RoundInv, Stretched, Elapsed
  <2> QED  BY <2>1 DEF CarGoes, outputs, switchVars
<1>3. /\ curr <= millis /\ state <= curr
      /\ active /\ ~Fresh => stateSw
  BY DEF CalmParts, RoundInv, CarInv
<1>4. Fresh' <=> Fresh
  BY <1>2 DEF Fresh
<1>5. RoundInv' /\ PulseInv'
  BY <1>2 DEF CalmParts, RoundInv, PulseInv
<1>6. CarInv'
  BY <1>1, <1>2, <1>3, <1>4 DEF CarInv
<1>7. CountInv'
  BY <1>2 DEF CalmParts, CountInv
<1> QED  BY <1>5, <1>6, <1>7 DEF CalmParts

\* The counting of a calm lane is inductive.
LEMMA CalmStep ==
    ASSUME SensorTypeOK, LowKnown, WellPlaced, CalmInv, [Next]_sensorVars
    PROVE  CalmInv'
<1> SUFFICES ASSUME Calm' PROVE CalmParts'
  BY DEF CalmInv, CalmParts
<1>1. Calm /\ CalmParts
  BY CalmBefore DEF CalmInv, CalmParts
<1>2. CASE CarComes \/ CarGoes \/ Decide
  BY <1>1, <1>2, CalmCarComes, CalmCarGoes, CalmDecide
<1>3. CASE UNCHANGED sensorVars
  BY <1>1, <1>3 DEF CalmParts, RoundInv, PulseInv, CarInv, CountInv, Fresh, sensorVars, outputs,
     traffic, switchVars
<1>4. ASSUME NEW turn, NEW d \in 0..EchoTimeout, Measure(turn, d)
      PROVE  d # EchoTimeout
  <2>1. misses' = IF d = EchoTimeout THEN misses + 1 ELSE misses
    BY <1>4 DEF Measure
  <2>2. misses' = 0 /\ misses = 0
    BY <1>1 DEF Calm
  <2> QED  BY <2>1, <2>2
<1>5. ASSUME NEW turn, NEW d \in EchoTimes, Measure(turn, d),
             \/ turn = OwnTurn /\ (MeasureFreeTrack(d) \/ MeasureCar(d) \/ MeasureBeside(d))
             \/ turn = OtherTurn /\ MeasureOther(d)
      PROVE  CalmParts'
  <2>1. d \in 0..1 /\ (pc = "second" => d = 0)
    BY DEF EchoTimes
  <2> QED  BY <1>1, <1>5, <2>1, CalmMeasured
<1>6. ASSUME NEW d \in 0..EchoTimeout,
             \/ d \in EchoTimes /\ (MeasureFreeTrack(d) \/ MeasureCar(d) \/ MeasureBeside(d))
             \/ d = EchoTimeout /\ MissEcho
             \/ d \in EchoTimes \cup {EchoTimeout} /\ MeasureOther(d)
      PROVE  CalmParts'
  <2>1. CASE d \in EchoTimes /\ (MeasureFreeTrack(d) \/ MeasureCar(d) \/ MeasureBeside(d))
    <3>1. Measure(OwnTurn, d)
      BY <2>1 DEF MeasureFreeTrack, MeasureCar, MeasureBeside
    <3> QED  BY <1>5, <2>1, <3>1
  <2>2. CASE d = EchoTimeout /\ MissEcho
    BY <1>4, <2>2 DEF MissEcho
  <2>3. CASE d \in EchoTimes \cup {EchoTimeout} /\ MeasureOther(d)
    <3>1. Measure(OtherTurn, d)
      BY <2>3 DEF MeasureOther
    <3> QED  BY <1>4, <1>5, <2>3, <3>1
  <2> QED  BY <1>6, <2>1, <2>2, <2>3
<1> QED  BY <1>2, <1>3, <1>6, SensorSteps

\* setup() leaves the limit of its first measurement.
LEMMA SensorInit ==
    ASSUME Init
    PROVE  SensorTypeOK /\ LowKnown
<1>1. PICK first \in ClearReadings \cup CarReadings \cup {0} :
        /\ low = Low(first)
        /\ calibrated = (first \in ClearReadings)
        /\ present = (first \in CarReadings) /\ seen = present
        /\ misses = IF first = 0 THEN 1 ELSE 0
  BY DEF Init
<1>2. calibrated \in BOOLEAN /\ present \in BOOLEAN /\ seen \in BOOLEAN /\ misses \in Nat
  BY <1>1
<1>3. SensorTypeOK
  <2>1. MinGap \in Nat
    BY SensorAssumption
  <2>2. high \in BOOLEAN /\ pulses \in Nat
    BY DEF Init, SwitchInit
  <2>3. /\ lane \in {"Red", "Black"} /\ pc = "first"
        /\ millis = 2 /\ curr = 2 /\ state = 2 /\ led = 2
        /\ active = FALSE /\ stateSw = FALSE /\ ledSw = FALSE /\ relay = FALSE
        /\ unseen = 0 /\ absent = MinGap /\ passages = 0 /\ wraps = 0
    BY DEF Init
  <2> QED  BY <1>2, <2>1, <2>2, <2>3 DEF SensorTypeOK
<1>4. LowKnown
  <2>1. CASE calibrated
    BY <1>1, <2>1 DEF LowKnown
  <2>2. CASE ~calibrated
    <3>1. first \in CarReadings \/ first = 0
      BY <1>1, <2>2
    <3>2. first = 0 => misses # 0
      BY <1>1
    <3> QED  BY <1>1, <2>2, <3>1, <3>2 DEF LowKnown
  <2> QED  BY <2>1, <2>2
<1> QED  BY <1>3, <1>4

\* The type invariant of the lap sensor, and the limit that setup() has left.
THEOREM SensorTyped == Spec => [](SensorTypeOK /\ LowKnown)
<1>1. SensorTypeOK /\ LowKnown /\ [Next]_sensorVars => SensorTypeOK' /\ LowKnown'
  BY SensorTypeStep, LowKnownStep
<1> QED  BY <1>1, SensorInit, PTL DEF Spec

\* The lap sensor drives the pin of the track device: what it does is a behaviour of the
\* switch, so its pulses are counted, whatever the sensor measures.
THEOREM SensorDrivesSwitch == Spec => SwitchSpec /\ []OneLapPerPulse
<1>1. Init => SwitchInit
  BY DEF Init
<1>2. SensorTypeOK /\ [Next]_sensorVars => [SwitchNext]_switchVars
  <2> SUFFICES ASSUME SensorTypeOK, [Next]_sensorVars PROVE [SwitchNext]_switchVars OBVIOUS
  <2>1. ASSUME NEW turn, NEW d, Measure(turn, d)
        PROVE  [SwitchNext]_switchVars
    <3>1. relay \in BOOLEAN /\ (UNCHANGED switchVars \/ DeviceLooks)
      BY <2>1 DEF Measure, Elapse, SensorTypeOK
    <3> QED  BY <3>1 DEF DeviceLooks, SwitchNext
  <2>2. CASE CarComes \/ CarGoes \/ Decide \/ UNCHANGED sensorVars
    BY <2>2 DEF CarComes, CarGoes, Decide, sensorVars
  <2>3. CASE MissEcho
    BY <2>1, <2>3 DEF MissEcho
  <2>4. CASE \E d \in EchoTimes : MeasureFreeTrack(d) \/ MeasureCar(d) \/ MeasureBeside(d)
    BY <2>1, <2>4 DEF MeasureFreeTrack, MeasureCar, MeasureBeside
  <2>5. CASE \E d \in EchoTimes \cup {EchoTimeout} : MeasureOther(d)
    BY <2>1, <2>5 DEF MeasureOther
  <2> QED BY <2>2, <2>3, <2>4, <2>5 DEF Next
<1> QED BY <1>1, <1>2, PulsesCounted, SensorTyped, PTL DEF Spec, SwitchSpec

\* A lane set up on the free track is calm.
LEMMA CalmInit ==
    ASSUME Init, WellPlaced
    PROVE  CalmInv
<1> SUFFICES ASSUME calibrated PROVE CalmParts
  BY DEF CalmInv, CalmParts, Calm
<1>1. ~present /\ seen = present
  BY DEF Init, WellPlaced
<1>2. /\ pc = "first" /\ millis = 2 /\ curr = 2 /\ state = 2 /\ led = 2
      /\ active = FALSE /\ stateSw = FALSE /\ ledSw = FALSE /\ relay = FALSE
      /\ passages = 0 /\ high = FALSE /\ pulses = 0
  BY DEF Init, SwitchInit
<1>3. RoundInv /\ PulseInv
  <2>1. RoundInv
    BY <1>2 DEF RoundInv
  <2>2. ~stateSw /\ ~ledSw /\ ~relay /\ ~high /\ relay = ledSw
    BY <1>2
  <2> QED  BY <2>1, <2>2 DEF PulseInv
<1>4. CarInv /\ CountInv
  BY <1>1, <1>2 DEF CarInv, CountInv, Fresh
<1> QED  BY <1>3, <1>4 DEF CalmParts

\* Long after the last car nothing of it is left in the sensor.
LEMMA CalmSettles ==
    ASSUME SensorTypeOK, CalmParts, WellPlaced, Settled
    PROVE  ~stateSw /\ ~active /\ ~relay /\ ~high
<1>1. /\ millis \in Nat /\ curr \in Nat /\ state \in Nat /\ absent \in Nat /\ MinGap \in Nat
      /\ active \in BOOLEAN /\ stateSw \in BOOLEAN
  BY SensorAssumption DEF SensorTypeOK
<1>2. ~present /\ absent >= MinGap /\ MinGap > 7
  BY DEF Settled, WellPlaced, EvBuff
<1>3. /\ curr <= millis /\ millis <= curr + 1
      /\ stateSw => curr <= state + 6
      /\ active /\ ~Fresh => stateSw
      /\ stateSw => state + absent <= millis
      /\ active /\ Fresh => curr + absent <= millis
  BY <1>1, <1>2 DEF CalmParts, RoundInv, PulseInv, CarInv, EvBuff
<1>4. ~stateSw
  BY <1>1, <1>2, <1>3
<1>5. ~active
  BY <1>1, <1>2, <1>3, <1>4
<1>6. ~relay /\ ~high
  BY <1>4 DEF CalmParts, PulseInv
<1> QED  BY <1>4, <1>5, <1>6

\* From the car to the lap: a lane that is well placed counts no car twice, and misses
\* only what the device, being without WiFi, left unread, whatever distances it measures,
\* however long the cars stay and however the two loops interleave.
THEOREM LapsArePassages ==
    ASSUME WellPlaced
    PROVE  Spec => []LapPerPassage
<1>1. Init => CalmInv
  BY CalmInit
<1>2. SensorTypeOK /\ LowKnown /\ CalmInv /\ [Next]_sensorVars => CalmInv'
  BY CalmStep
<1>3. SensorTypeOK /\ CalmInv /\ SwitchInv /\ OneLapPerPulse => LapPerPassage
  <2> SUFFICES ASSUME SensorTypeOK, CalmInv, SwitchInv, OneLapPerPulse, Calm
               PROVE  laps <= passages /\ (Settled => passages <= laps + unread)
    BY DEF LapPerPassage, Calm
  <2>1. CalmParts
    BY DEF CalmInv, CalmParts
  <2>2. /\ laps \in Nat /\ pulses \in Nat /\ passages \in Nat /\ unread \in Nat
        /\ laps <= pulses + (IF high THEN 1 ELSE 0)
        /\ UpToDate => pulses <= laps + unread
        /\ passages = pulses + (IF high \/ relay THEN 1 ELSE 0)
                      + (IF (present /\ ~seen) \/ (active /\ ~stateSw) THEN 1 ELSE 0)
    BY <2>1 DEF SensorTypeOK, SwitchInv, OneLapPerPulse, CalmParts, CountInv
  <2>3. laps <= passages
    BY <2>2
  <2>4. ASSUME Settled PROVE passages <= laps + unread
    BY <2>1, <2>2, <2>4, CalmSettles DEF Settled
  <2> QED  BY <2>3, <2>4
<1> QED  BY <1>1, <1>2, <1>3, SensorDrivesSwitch, SwitchInvariant, SensorTyped, PTL DEF Spec

-----------------------------------------------------------------------------
(* A sensor that started with a car below it.                               *)

BlindParts ==
    /\ relay = ledSw
    /\ pulses + (IF high \/ relay THEN 1 ELSE 0) + (IF NewlyActive THEN 1 ELSE 0) <= misses
    /\ low = Low(0) =>
         /\ misses # 0
         /\ ~active => ~stateSw /\ ~relay /\ ~high /\ pulses = 0

\* Two limits are left: one that nothing is below, and one that everything is below.
LEMMA BlindLimits ==
    ASSUME LowKnown, OnlyNoise, ~calibrated
    PROVE  \/ low # Low(0) /\ \A mm \in ClearReadings \cup CarReadings : ~(mm < low)
           \/ low = Low(0) /\ misses # 0 /\ \A mm \in ClearReadings \cup CarReadings : mm < low
<1>1. CASE low = Low(0) /\ misses # 0
  BY <1>1 DEF OnlyNoise
<1>2. CASE \E first \in CarReadings : low = Low(first)
  <2>1. PICK first \in CarReadings : low = Low(first)
    BY <1>2
  <2>2. \A mm \in ClearReadings \cup CarReadings : ~(mm < low)
    BY <2>1 DEF OnlyNoise
  <2>3. low # Low(0)
    BY <2>2 DEF OnlyNoise
  <2> QED  BY <2>2, <2>3
<1> QED  BY <1>1, <1>2 DEF LowKnown

\* A blind lane becomes active by a missing echo only, or has been so for ever.
LEMMA BlindMeasure ==
    ASSUME SensorTypeOK, LowKnown, OnlyNoise, ~calibrated, BlindParts,
           NEW turn, NEW d \in 0..EchoTimeout, Measure(turn, d),
           \/ misses' = misses + 1 /\ active' = (0 < low)
           \/ active' = active
           \/ \E mm \in ClearReadings \cup CarReadings : active' = (mm < low)
    PROVE  BlindParts'
<1> DEFINE Out == IF high \/ relay THEN 1 ELSE 0
           New == IF NewlyActive THEN 1 ELSE 0
<1>1. /\ misses \in Nat /\ pulses \in Nat
      /\ active \in BOOLEAN /\ stateSw \in BOOLEAN /\ relay \in BOOLEAN /\ high \in BOOLEAN
  BY DEF SensorTypeOK
<1>2. /\ misses' \in Nat /\ pulses' \in Nat /\ high' \in BOOLEAN
      /\ high' = IF d = 0 THEN high ELSE relay
      /\ pulses' = IF d # 0 /\ high /\ ~relay THEN pulses + 1 ELSE pulses
      /\ misses' = misses \/ misses' = misses + 1
  BY MeasureFacts
<1>3. UNCHANGED <<low, stateSw, ledSw, relay>>
  BY DEF Measure, outputs
<1>4. pulses' + Out' = pulses + Out
  <2>1. CASE d = 0
    BY <1>2, <1>3, <2>1
  <2>2. CASE d # 0 /\ relay
    BY <1>1, <1>2, <1>3, <2>2
  <2>3. CASE d # 0 /\ ~relay
    BY <1>1, <1>2, <1>3, <2>3
  <2> QED  BY <2>1, <2>2, <2>3
<1>5. pulses + Out + New <= misses
  BY DEF BlindParts
<1>6. active' \in BOOLEAN
  <2>1. ASSUME NEW mm, active' = (mm < low) PROVE active' \in BOOLEAN
    <3>1. CASE mm < low
      BY <2>1, <3>1
    <3>2. CASE ~(mm < low)
      BY <2>1, <3>2
    <3> QED  BY <3>1, <3>2
  <2> QED  BY <1>1, <2>1
<1>7. New' = IF active' /\ ~stateSw THEN 1 ELSE 0
  BY <1>3 DEF NewlyActive
<1>8. New = IF active /\ ~stateSw THEN 1 ELSE 0
  BY DEF NewlyActive
<1> HIDE DEF New
<1>9. CASE low # Low(0)
  <2>1. New' <= New \/ (New' <= New + 1 /\ misses' = misses + 1)
    <3>1. CASE misses' = misses + 1
      BY <1>6, <1>7, <1>8, <3>1
    <3>2. CASE active' = active
      BY <1>7, <1>8, <3>2
    <3>3. CASE \E mm \in ClearReadings \cup CarReadings : active' = (mm < low)
      <4>1. ~active'
        BY <1>9, <3>3, BlindLimits
      <4> QED  BY <1>7, <1>8, <4>1
    <3> QED  BY <3>1, <3>2, <3>3
  <2>2. PICK p \in Nat, o \in 0..1, n \in 0..1, m \in Nat :
          p = pulses' /\ o = Out' /\ n = New' /\ m = misses'
    BY <1>2, <1>7
  <2>3. /\ p + o = pulses + Out /\ (n <= New \/ (n <= New + 1 /\ m = misses + 1))
        /\ (m = misses \/ m = misses + 1)
    BY <1>2, <1>4, <2>1, <2>2
  <2>4. p + o + n <= m
    BY <1>1, <1>5, <1>8, <2>3
  <2> QED  BY <1>3, <1>9, <2>2, <2>4 DEF BlindParts, Low, Unsigned, New
<1>10. CASE low = Low(0)
  <2>1. misses # 0 /\ (~active => ~stateSw /\ ~relay /\ ~high /\ pulses = 0)
    BY <1>10 DEF BlindParts
  <2>2. active => active'
    <3>1. \A mm \in ClearReadings \cup CarReadings \cup {0} : mm < low
      BY <1>10 DEF OnlyNoise
    <3> QED  BY <3>1
  <2>3. CASE active
    <3>1. New' = New
      BY <1>7, <1>8, <2>2, <2>3
    <3>2. PICK p \in Nat, o \in 0..1, m \in Nat : p = pulses' /\ o = Out' /\ m = misses'
      BY <1>2
    <3>3. p + o = pulses + Out /\ (m = misses \/ m = misses + 1)
      BY <1>2, <1>4, <3>2
    <3>4. p + o + New <= m
      BY <1>1, <1>5, <1>8, <3>3
    <3>5. misses' # 0
      BY <1>1, <1>2, <2>1
    <3> QED  BY <1>3, <2>2, <2>3, <3>1, <3>2, <3>4, <3>5 DEF BlindParts, Low, Unsigned, New
  <2>4. CASE ~active
    <3>1. ~stateSw' /\ ~relay' /\ ~high' /\ pulses' = 0 /\ Out' = 0
      BY <1>2, <1>3, <2>1, <2>4
    <3>2. misses' \in Nat \ {0}
      BY <1>1, <1>2, <2>1
    <3>3. New' \in 0..1
      BY <1>7
    <3>4. pulses' + Out' + New' <= misses'
      <4>1. PICK n \in 0..1, m \in Nat \ {0} : n = New' /\ m = misses'
        BY <3>2, <3>3
      <4>2. 0 + 0 + n <= m
        OBVIOUS
      <4> QED  BY <3>1, <4>1, <4>2
    <3> QED  BY <1>3, <3>1, <3>2, <3>4 DEF BlindParts, Low, Unsigned, New
  <2> QED  BY <1>1, <2>3, <2>4
<1> QED  BY <1>9, <1>10

\* A blind sensor stays blind.
LEMMA BlindStep ==
    ASSUME SensorTypeOK, LowKnown, OnlyNoise, BlindInv, [Next]_sensorVars
    PROVE  BlindInv'
<1>1. calibrated' = calibrated
  BY DEF Next, CarComes, CarGoes, Measure, MeasureFreeTrack, MeasureCar, MeasureBeside, MissEcho,
         MeasureOther, Decide, sensorVars
<1> SUFFICES ASSUME ~calibrated PROVE BlindParts'
  BY <1>1 DEF BlindInv, BlindParts
<1>2. BlindParts
  BY DEF BlindInv, BlindParts
<1>3. CASE CarComes \/ CarGoes \/ UNCHANGED sensorVars
  BY <1>2, <1>3 DEF CarComes, CarGoes, sensorVars, outputs, switchVars, BlindParts, NewlyActive,
                    Low, Unsigned
<1>4. CASE Decide
  <2>1. /\ active \in BOOLEAN /\ stateSw \in BOOLEAN /\ ledSw \in BOOLEAN /\ relay \in BOOLEAN
        /\ high \in BOOLEAN /\ pulses \in Nat /\ misses \in Nat
    BY DEF SensorTypeOK
  <2>2. /\ UNCHANGED <<low, active, misses, high, pulses>>
        /\ active => stateSw'
        /\ stateSw' => active \/ stateSw
        /\ relay' = ledSw'
        /\ ledSw' => ledSw \/ NewlyActive
    BY <1>4 DEF Decide, switchVars
  <2>3. ~NewlyActive'
    BY <2>1, <2>2 DEF NewlyActive
  <2>4. pulses + (IF high \/ relay THEN 1 ELSE 0) + (IF NewlyActive THEN 1 ELSE 0) <= misses
    BY <1>2 DEF BlindParts
  <2>5. pulses + (IF high \/ ledSw' THEN 1 ELSE 0) + 0 <= misses
    <3>1. ledSw' => relay \/ NewlyActive
      BY <1>2, <2>2 DEF BlindParts
    <3> HIDE DEF NewlyActive
    <3> QED  BY <2>1, <2>4, <3>1
  <2>6. pulses' + (IF high' \/ relay' THEN 1 ELSE 0) + (IF NewlyActive' THEN 1 ELSE 0) <= misses'
    BY <2>2, <2>3, <2>5
  <2>7. low = Low(0) => misses # 0 /\ (~active => ~stateSw' /\ ~relay' /\ ~high /\ pulses = 0)
    BY <1>2, <2>1, <2>2 DEF BlindParts, NewlyActive
  <2> QED  BY <2>2, <2>6, <2>7 DEF BlindParts, Low, Unsigned
<1>5. ASSUME NEW d \in 0..EchoTimeout,
             \/ d \in EchoTimes /\ (MeasureFreeTrack(d) \/ MeasureCar(d) \/ MeasureBeside(d))
             \/ d = EchoTimeout /\ MissEcho
             \/ d \in EchoTimes \cup {EchoTimeout} /\ MeasureOther(d)
      PROVE  BlindParts'
  <2>1. CASE MeasureFreeTrack(d) \/ MeasureCar(d) \/ MeasureBeside(d)
    <3>1. Measure(OwnTurn, d) /\ \E mm \in ClearReadings \cup CarReadings : active' = (mm < low)
      BY <2>1 DEF MeasureFreeTrack, MeasureCar, MeasureBeside
    <3> QED  BY <1>2, <3>1, BlindMeasure
  <2>2. CASE d = EchoTimeout /\ MissEcho
    <3>1. Measure(OwnTurn, d) /\ active' = (0 < low) /\ misses' = misses + 1
      BY <2>2 DEF MissEcho, Measure
    <3> QED  BY <1>2, <3>1, BlindMeasure
  <2>3. CASE MeasureOther(d)
    <3>1. Measure(OtherTurn, d) /\ active' = active
      BY <2>3 DEF MeasureOther
    <3> QED  BY <1>2, <3>1, BlindMeasure
  <2> QED  BY <1>5, <2>1, <2>2, <2>3
<1> QED  BY <1>3, <1>4, <1>5, SensorSteps

\* A lane set up over a car, or without an echo, is blind.
LEMMA BlindInit ==
    ASSUME Init, OnlyNoise
    PROVE  BlindInv
<1> SUFFICES ASSUME ~calibrated PROVE BlindParts
  BY DEF BlindInv, BlindParts
<1>1. PICK first \in ClearReadings \cup CarReadings \cup {0} :
        /\ low = Low(first) /\ calibrated = (first \in ClearReadings)
        /\ misses = IF first = 0 THEN 1 ELSE 0
  BY DEF Init
<1>2. /\ active = FALSE /\ stateSw = FALSE /\ ledSw = FALSE /\ relay = FALSE
      /\ high = FALSE /\ pulses = 0
  BY DEF Init, SwitchInit
<1>3. misses \in {0, 1} /\ (low = Low(0) => misses # 0)
  <2>1. CASE first = 0
    BY <1>1, <2>1
  <2>2. CASE first \in CarReadings
    <3>1. Low(first) # Low(0)
      BY <2>2 DEF OnlyNoise
    <3> QED  BY <1>1, <3>1
  <2> QED  BY <1>1, <2>1, <2>2
<1>4. ~NewlyActive
  BY <1>2 DEF NewlyActive
<1>5. pulses + (IF high \/ relay THEN 1 ELSE 0) + (IF NewlyActive THEN 1 ELSE 0) = 0
  <2> HIDE DEF NewlyActive
  <2> QED  BY <1>2, <1>4
<1>6. 0 <= misses
  BY <1>3
<1> QED  BY <1>2, <1>3, <1>5, <1>6 DEF BlindParts

\* A sensor that starts with a car below it, or without an echo, counts missing echoes
\* only, however often millis() wraps.
THEOREM BlindSensor ==
    ASSUME OnlyNoise
    PROVE  Spec => []NeedsFreeTrack
<1>1. Init => BlindInv
  BY BlindInit
<1>2. SensorTypeOK /\ LowKnown /\ BlindInv /\ [Next]_sensorVars => BlindInv'
  BY BlindStep
<1>3. SensorTypeOK /\ BlindInv /\ SwitchInv /\ OneLapPerPulse => NeedsFreeTrack
  <2> SUFFICES ASSUME SensorTypeOK, BlindInv, SwitchInv, OneLapPerPulse, ~calibrated
               PROVE  laps <= misses
    BY DEF NeedsFreeTrack
  <2>1. /\ laps \in Nat /\ pulses \in Nat /\ misses \in Nat
        /\ laps <= pulses + (IF high THEN 1 ELSE 0)
        /\ pulses + (IF high \/ relay THEN 1 ELSE 0) + (IF NewlyActive THEN 1 ELSE 0) <= misses
    BY DEF SwitchInv, OneLapPerPulse, BlindInv, SensorTypeOK
  <2> QED  BY <2>1
<1> QED  BY <1>1, <1>2, <1>3, SensorDrivesSwitch, SwitchInvariant, SensorTyped, PTL DEF Spec

-----------------------------------------------------------------------------
(* What an upset costs.                                                     *)

\* A sum that is less than two turns of the clock.
LEMMA OneTurn ==
    ASSUME NEW n \in Nat, NEW M \in Nat \ {0}, n < 2 * M
    PROVE  /\ n % M = IF n < M THEN n ELSE n - M
           /\ n \div M = IF n < M THEN 0 ELSE 1
<1>1. CASE n < M
  <2>1. n % M = n
    BY <1>1, DivModFacts
  <2>2. n \div M = 0
    BY <1>1
  <2> QED  BY <1>1, <2>1, <2>2
<1>2. CASE ~(n < M)
  <2>1. PICK k \in Nat : k = n - M
    BY <1>2
  <2>2. k < M /\ n = k + M
    BY <2>1
  <2>3. n \div M = 1
    BY <2>2
  <2>4. n % M = k
    BY <2>2
  <2> QED  BY <1>2, <2>1, <2>3, <2>4
<1> QED  BY <1>1, <1>2


\* The comparisons of loop() with a time of this turn or the last.
LEMMA AfterInTurn ==
    ASSUME SensorTypeOK, LongClock, NEW t \in Nat, t < MillisSize, NEW wait \in {EvBuff, LedTime}
    PROVE  /\ t + wait < MillisSize => (After(t, wait) <=> curr > t + wait)
           /\ t + wait >= MillisSize => (After(t, wait) <=> curr > t + wait - MillisSize)
           /\ After(t, wait) \in BOOLEAN
<1>1. MillisSize \in Nat \ {0} /\ MillisSize >= 25 /\ wait \in Nat /\ wait <= 5 /\ curr \in Nat
  BY SensorAssumption DEF LongClock, EchoTimeout, EvBuff, LedTime, SensorTypeOK
<1>2. PICK n \in Nat : n = t + wait /\ n < 2 * MillisSize
  BY <1>1
<1>3. n % MillisSize = IF n < MillisSize THEN n ELSE n - MillisSize
  BY <1>1, <1>2, OneTurn
<1>4. After(t, wait) <=> curr > n % MillisSize
  BY <1>2 DEF After
<1>5. After(t, wait) \in BOOLEAN
  BY DEF After
<1> QED  BY <1>1, <1>2, <1>3, <1>4, <1>5

\* The five kinds of measurement, as what they do to the lane.
LEMMA MeasureKinds ==
    ASSUME SensorTypeOK, LowKnown, WellPlaced, LongClock, ClockInv,
           Next, ~(CarComes \/ CarGoes \/ Decide)
    PROVE  \E d \in {0, 1, EchoTimeout} :
             /\ pc \in {"first", "second"} /\ (pc = "second" => d # 1)
             /\ pc' = IF pc = "first" THEN "second" ELSE "decide"
             /\ UNCHANGED <<lane, curr, state, stateSw, led, ledSw, relay, present, passages,
                            calibrated>>
             /\ millis' = IF millis + d < MillisSize THEN millis + d ELSE millis + d - MillisSize
             /\ wraps' = IF millis + d < MillisSize THEN wraps ELSE wraps + 1
             /\ misses' = IF d = EchoTimeout THEN misses + 1 ELSE misses
             /\ high' = IF d = 0 THEN high ELSE relay
             /\ pulses' = IF d # 0 /\ high /\ ~relay THEN pulses + 1 ELSE pulses
             /\ absent' \in Nat /\ (~present => absent' <= absent + d)
             /\ IF (lane = "Red" <=> pc = "first")
                THEN \/ ~present /\ (calibrated => ~active') /\ seen' = seen /\ d # EchoTimeout
                     \/ present /\ (calibrated => active') /\ seen' = TRUE /\ unseen' = 0
                          /\ d # EchoTimeout
                     \/ present /\ seen /\ (calibrated => ~active') /\ seen' = seen
                          /\ d # EchoTimeout /\ unseen' = unseen + d /\ unseen' <= MaxDropout
                     \/ (calibrated => active') /\ seen' = seen /\ unseen' = unseen
                          /\ d = EchoTimeout
                ELSE active' = active /\ seen' = seen
                       /\ unseen' = IF present THEN unseen + d ELSE unseen
<1>1. MillisSize \in Nat \ {0} /\ MillisSize >= 25 /\ millis \in Nat /\ millis < MillisSize
      /\ wraps \in Nat
  BY SensorAssumption DEF LongClock, EchoTimeout, EvBuff, SensorTypeOK, ClockInv
<1>2. calibrated => /\ \A mm \in ClearReadings : ~(mm < low)
                    /\ \A mm \in CarReadings : mm < low
                    /\ 0 < low
  <2> SUFFICES ASSUME calibrated
               PROVE  /\ \A mm \in ClearReadings : ~(mm < low)
                      /\ \A mm \in CarReadings : mm < low
                      /\ 0 < low
    OBVIOUS
  <2>1. PICK first \in ClearReadings : low = Low(first)
    BY DEF LowKnown
  <2> QED  BY <2>1 DEF WellPlaced
<1>3. ASSUME NEW turn, NEW d \in {0, 1, EchoTimeout}, Measure(turn, d)
      PROVE  /\ pc = turn /\ pc' = IF turn = "first" THEN "second" ELSE "decide"
             /\ UNCHANGED <<lane, curr, state, stateSw, led, ledSw, relay, present, passages,
                            calibrated>>
             /\ millis' = IF millis + d < MillisSize THEN millis + d ELSE millis + d - MillisSize
             /\ wraps' = IF millis + d < MillisSize THEN wraps ELSE wraps + 1
             /\ misses' = IF d = EchoTimeout THEN misses + 1 ELSE misses
             /\ high' = IF d = 0 THEN high ELSE relay
             /\ pulses' = IF d # 0 /\ high /\ ~relay THEN pulses + 1 ELSE pulses
             /\ absent' \in Nat /\ (~present => absent' <= absent + d)
  <2>1. d \in 0..EchoTimeout /\ d \in Nat /\ d <= 10
    BY DEF EchoTimeout
  <2>2. PICK n \in Nat : n = millis + d /\ n < 2 * MillisSize
    BY <1>1, <2>1
  <2>3. /\ millis' = n % MillisSize
        /\ wraps' = wraps + n \div MillisSize
    BY <1>3, <2>2 DEF Measure, Elapse
  <2>4. /\ millis' = IF millis + d < MillisSize THEN millis + d ELSE millis + d - MillisSize
        /\ wraps' = IF millis + d < MillisSize THEN wraps ELSE wraps + 1
    <3>1. /\ n % MillisSize = IF n < MillisSize THEN n ELSE n - MillisSize
          /\ n \div MillisSize = IF n < MillisSize THEN 0 ELSE 1
      BY <1>1, <2>2, OneTurn
    <3> QED  BY <1>1, <2>2, <2>3, <3>1
  <2> QED  BY <1>3, <2>1, <2>4, MeasureFacts DEF Measure, outputs
<1>4. EchoTimes \subseteq {0, 1, EchoTimeout} /\ (pc = "second" => 1 \notin EchoTimes)
      /\ EchoTimeout \notin EchoTimes
  BY DEF EchoTimes, EchoTimeout
<1>5. lane \in {"Red", "Black"}
  BY DEF SensorTypeOK
<1>6. CASE \E d \in EchoTimes : MeasureFreeTrack(d)
  <2>1. PICK d \in EchoTimes : MeasureFreeTrack(d)
    BY <1>6
  <2>2. Measure(OwnTurn, d) /\ ~present /\ (calibrated => ~active') /\ seen' = seen
    <3>1. ASSUME NEW mm \in ClearReadings, active' = (mm < low), calibrated PROVE ~active'
      <4>1. ~(mm < low)
        BY <1>2, <3>1
      <4> QED  BY <3>1, <4>1
    <3> QED  BY <2>1, <3>1 DEF MeasureFreeTrack
  <2>3. d \in {0, 1, EchoTimeout} /\ d # EchoTimeout /\ (pc = "second" => d # 1)
    BY <1>4
  <2> QED  BY <1>3, <1>5, <2>2, <2>3 DEF OwnTurn
<1>7. CASE \E d \in EchoTimes : MeasureCar(d)
  <2>1. PICK d \in EchoTimes : MeasureCar(d)
    BY <1>7
  <2>2. Measure(OwnTurn, d) /\ present /\ (calibrated => active') /\ seen' = TRUE /\ unseen' = 0
    <3>1. ASSUME NEW mm \in CarReadings, active' = (mm < low), calibrated PROVE active'
      BY <1>2, <3>1
    <3> QED  BY <2>1, <3>1 DEF MeasureCar
  <2>3. d \in {0, 1, EchoTimeout} /\ d # EchoTimeout /\ (pc = "second" => d # 1)
    BY <1>4
  <2> QED  BY <1>3, <1>5, <2>2, <2>3 DEF OwnTurn
<1>8. CASE \E d \in EchoTimes : MeasureBeside(d)
  <2>1. PICK d \in EchoTimes : MeasureBeside(d)
    BY <1>8
  <2>2. Measure(OwnTurn, d) /\ present /\ seen /\ (calibrated => ~active') /\ seen' = seen
        /\ unseen' = unseen + d /\ unseen' <= MaxDropout
    <3>1. ASSUME NEW mm \in ClearReadings, active' = (mm < low), calibrated PROVE ~active'
      <4>1. ~(mm < low)
        BY <1>2, <3>1
      <4> QED  BY <3>1, <4>1
    <3> QED  BY <2>1, <3>1 DEF MeasureBeside
  <2>3. d \in {0, 1, EchoTimeout} /\ d # EchoTimeout /\ (pc = "second" => d # 1)
    BY <1>4
  <2> QED  BY <1>3, <1>5, <2>2, <2>3 DEF OwnTurn
<1>9. CASE MissEcho
  <2>1. Measure(OwnTurn, EchoTimeout) /\ (calibrated => active') /\ seen' = seen /\ unseen' = unseen
    BY <1>2, <1>9 DEF MissEcho
  <2>2. EchoTimeout # 1
    BY DEF EchoTimeout
  <2> QED  BY <1>3, <1>5, <2>1, <2>2 DEF OwnTurn
<1>10. CASE \E d \in EchoTimes \cup {EchoTimeout} : MeasureOther(d)
  <2>1. PICK d \in EchoTimes \cup {EchoTimeout} : MeasureOther(d)
    BY <1>10
  <2>2. Measure(OtherTurn, d) /\ active' = active /\ seen' = seen
        /\ unseen' = IF present THEN unseen + d ELSE unseen
    BY <2>1 DEF MeasureOther
  <2>3. d \in {0, 1, EchoTimeout} /\ (pc = "second" => d # 1)
    BY <1>4 DEF EchoTimeout
  <2> QED  BY <1>3, <1>5, <2>2, <2>3 DEF OtherTurn
<1> QED  BY <1>6, <1>7, <1>8, <1>9, <1>10 DEF Next

\* What is known of the clock and of the cars.
LEMMA ClockFacts ==
    ASSUME SensorTypeOK, WellPlaced, LongClock
    PROVE  /\ MillisSize \in Nat /\ MillisSize >= 25 /\ MinGap \in Nat /\ MinGap >= 8
           /\ MaxDropout \in Nat /\ MaxDropout <= 4
  BY SensorAssumption DEF LongClock, WellPlaced, EchoTimeout, EvBuff

\* What the measurements of this round have taken.
LEMMA RoundFacts ==
    ASSUME SensorTypeOK, WellPlaced, LongClock, ClockInv
    PROVE  /\ Elapsed \in Nat /\ Elapsed <= 20 /\ (Elapsed <= 1 \/ Elapsed >= 10)
           /\ pc = "first" => Elapsed = 0
           /\ pc = "second" => Elapsed <= 10
           /\ millis = curr + Elapsed \/ millis = curr + Elapsed - MillisSize
           /\ millis < MillisSize /\ curr < MillisSize /\ state < MillisSize /\ led < MillisSize
           /\ relay # high => Elapsed = 0
           /\ relay => led + 2 < MillisSize
           /\ relay /\ led <= curr => curr <= led + 22
           /\ relay /\ ~stateSw => state < led \/ state + 5 >= MillisSize
           /\ Elapsed > 1 => misses # 0
<1>1. millis \in Nat /\ curr \in Nat /\ led \in Nat
  BY DEF SensorTypeOK
<1>2. MillisSize \in Nat /\ MillisSize >= 25
  BY ClockFacts
<1>3. Elapsed \in Nat /\ Elapsed <= 20 /\ (Elapsed <= 1 \/ Elapsed >= 10)
      /\ (pc = "second" => Elapsed <= 10)
  BY <1>1, <1>2 DEF ClockInv, EchoTimeout
<1>4. millis = curr + Elapsed \/ millis = curr + Elapsed - MillisSize
  BY <1>1, <1>2 DEF Elapsed
<1>5. /\ relay => led + 2 < MillisSize
      /\ relay /\ led <= curr => curr <= led + 22
      /\ relay /\ ~stateSw => state < led \/ state + 5 >= MillisSize
  BY <1>1, <1>2 DEF ClockInv, LedTime, EchoTimeout, EvBuff
<1> QED  BY <1>1, <1>2, <1>3, <1>4, <1>5 DEF ClockInv, Stretched

\* A clock that wraps in a round still tells how long the round has taken.
LEMMA ElapsedStep ==
    ASSUME SensorTypeOK, WellPlaced, LongClock, ClockInv, NEW d \in {0, 1, EchoTimeout},
           pc \in {"first", "second"}, curr' = curr,
           millis' = IF millis + d < MillisSize THEN millis + d ELSE millis + d - MillisSize
    PROVE  Elapsed' = Elapsed + d
<1>1. millis \in Nat /\ curr \in Nat /\ d \in Nat /\ d <= 10
  BY DEF SensorTypeOK, EchoTimeout
<1>2. MillisSize \in Nat /\ MillisSize >= 25
  BY ClockFacts
<1>3. /\ Elapsed \in Nat /\ Elapsed <= 10
      /\ millis = curr + Elapsed \/ millis = curr + Elapsed - MillisSize
      /\ millis < MillisSize /\ curr < MillisSize
  BY <1>1, RoundFacts
<1>4. PICK m1 \in Nat, e \in Nat : m1 = millis' /\ e = Elapsed
        /\ m1 = IF millis + d < MillisSize THEN millis + d ELSE millis + d - MillisSize
  BY <1>1, <1>2, <1>3
<1>5. Elapsed' = IF m1 < curr THEN m1 + MillisSize - curr ELSE m1 - curr
  BY <1>4 DEF Elapsed
<1>6. /\ m1 \in Nat /\ e \in Nat /\ e <= 10
      /\ m1 = IF millis + d < MillisSize THEN millis + d ELSE millis + d - MillisSize
      /\ millis = curr + e \/ millis = curr + e - MillisSize
  BY <1>3, <1>4
<1>7. (IF m1 < curr THEN m1 + MillisSize - curr ELSE m1 - curr) = e + d
  BY <1>1, <1>2, <1>3, <1>6
<1> QED  BY <1>4, <1>5, <1>7

\* The measurements of a round stay within its bounds, and a lane that is active knows why.
LEMMA ClockStep ==
    ASSUME SensorTypeOK, LowKnown, WellPlaced, LongClock, ClockInv, [Next]_sensorVars
    PROVE  ClockInv'
<1>1. /\ millis \in Nat /\ curr \in Nat /\ state \in Nat /\ led \in Nat
      /\ active \in BOOLEAN /\ stateSw \in BOOLEAN /\ ledSw \in BOOLEAN /\ relay \in BOOLEAN
      /\ high \in BOOLEAN /\ present \in BOOLEAN /\ seen \in BOOLEAN
      /\ absent \in Nat /\ misses \in Nat
      /\ lane \in {"Red", "Black"} /\ pc \in {"first", "second", "decide"}
  BY DEF SensorTypeOK
<1>2. MillisSize \in Nat /\ MillisSize >= 25 /\ MinGap \in Nat /\ MinGap >= 8
  BY ClockFacts
<1>3. CASE CarComes
  <2>1. /\ UNCHANGED <<lane, pc, millis, curr, active, stateSw, state, led, ledSw, relay, absent,
                        calibrated, misses, high>>
        /\ ~present /\ absent >= MinGap /\ present' = TRUE /\ seen' = FALSE
    BY <1>3 DEF CarComes, outputs, switchVars
  <2>2. ~(calibrated /\ active /\ Fresh /\ ~Stretched)
    BY <1>1, <1>2, <2>1 DEF ClockInv, Stretched
  <2> QED  BY <2>1, <2>2 DEF ClockInv, Fresh, Stretched, Elapsed
<1>4. CASE CarGoes
  <2>1. /\ UNCHANGED <<lane, pc, millis, curr, active, stateSw, state, led, ledSw, relay,
                        calibrated, misses, high>>
        /\ present' = FALSE /\ absent' = 0
    BY <1>4 DEF CarGoes, outputs, switchVars
  <2>2. 0 <= Elapsed
    BY <1>1, <1>2 DEF ClockInv, EchoTimeout, Elapsed
  <2> QED  BY <2>1, <2>2 DEF ClockInv, Fresh, Stretched, Elapsed
<1>5. CASE Decide
  <2>1. /\ UNCHANGED <<millis, misses, high, lane>> /\ curr' = millis /\ pc' = "first"
        /\ state' = (IF active THEN curr ELSE state)
        /\ (active' => stateSw')
        /\ relay' = ledSw'
        /\ led' = (IF NewlyActive THEN curr ELSE led)
        /\ ledSw' = ((ledSw \/ NewlyActive) /\ ~After(led', LedTime))
    BY <1>5 DEF Decide, switchVars
  <2>2. PICK ld \in Nat : ld = led' /\ ld < MillisSize
    BY <1>1, <2>1 DEF ClockInv
  <2>3. relay' => /\ (ld = curr \/ (ld = led /\ relay))
                  /\ ld + 2 < MillisSize => curr <= ld + 2
                  /\ ld + 2 >= MillisSize => curr <= ld + 2 - MillisSize
    <3>1. /\ ld + 2 < MillisSize => (After(ld, LedTime) <=> curr > ld + 2)
          /\ ld + 2 >= MillisSize => (After(ld, LedTime) <=> curr > ld + 2 - MillisSize)
          /\ After(ld, LedTime) \in BOOLEAN
      BY <2>2, AfterInTurn DEF LedTime
    <3>2. ASSUME relay' PROVE ~After(ld, LedTime) /\ (NewlyActive \/ relay)
      BY <2>1, <2>2, <3>2 DEF ClockInv
    <3>3. (NewlyActive => ld = curr) /\ (~NewlyActive => ld = led)
      BY <2>1, <2>2
    <3>4. ASSUME relay' PROVE ld = curr \/ (ld = led /\ relay)
      BY <3>2, <3>3, <3>4
    <3>5. ld \in Nat
      BY <2>2
    <3>6. ASSUME relay', ld + 2 < MillisSize PROVE curr <= ld + 2
      <4>1. ~(curr > ld + 2)
        BY <3>1, <3>2, <3>6
      <4> QED  BY <1>1, <1>2, <3>5, <4>1
    <3>7. ASSUME relay', ld + 2 >= MillisSize PROVE curr <= ld + 2 - MillisSize
      <4>1. ~(curr > ld + 2 - MillisSize)
        BY <3>1, <3>2, <3>7
      <4> QED  BY <1>1, <1>2, <3>5, <4>1
    <3> QED  BY <3>4, <3>6, <3>7
  <2>4. millis = curr + Elapsed \/ millis = curr + Elapsed - MillisSize
    BY <1>1, <1>2 DEF Elapsed
  <2>5. Elapsed \in Nat /\ Elapsed <= 20
    BY <1>1, <1>2 DEF ClockInv, EchoTimeout
  <2>6. relay' => /\ ld + 2 < MillisSize
                  /\ (ld <= millis => millis <= ld + 22)
    <3>1. /\ curr < MillisSize /\ led < MillisSize
          /\ relay => led + 2 < MillisSize /\ (led <= curr => curr <= led + 22)
      BY <1>1 DEF ClockInv, LedTime, EchoTimeout
    <3>2. PICK e \in Nat : e = Elapsed /\ e <= 20
      BY <2>5
    <3>3. millis = curr + e \/ millis = curr + e - MillisSize
      BY <2>4, <3>2
    <3>4. PICK r1 \in BOOLEAN : r1 = relay'
      BY <2>1
    <3>5. ld \in Nat /\ ld < MillisSize
      BY <2>2
    <3>6. r1 => /\ ld = curr \/ (ld = led /\ relay)
                /\ ld + 2 < MillisSize => curr <= ld + 2
                /\ ld + 2 >= MillisSize => curr <= ld + 2 - MillisSize
      BY <2>3, <3>4
    <3>7. r1 => /\ ld + 2 < MillisSize
                /\ ld <= millis => millis <= ld + 22
      BY <1>1, <1>2, <3>1, <3>2, <3>3, <3>5, <3>6
    <3> QED  BY <3>4, <3>7
  <2>7. Elapsed' = 0 /\ ~Fresh'
    BY <1>1, <2>1 DEF Elapsed, Fresh
  <2>8. ASSUME relay', ~stateSw', ~(state' + EvBuff >= MillisSize) PROVE state' < led'
    <3>1. ~active /\ (stateSw => After(state, EvBuff))
      BY <1>1, <1>5, <2>8 DEF Decide, Debounced
    <3>2. state' = state /\ led' = led /\ ~NewlyActive
      BY <2>1, <3>1 DEF NewlyActive
    <3>3. relay /\ led + 2 < MillisSize
      BY <1>1, <2>1, <2>8, <3>2 DEF ClockInv, LedTime
    <3>4. curr <= led + 2
      BY <1>1, <2>2, <2>3, <2>8, <3>2, <3>3
    <3>5. state + EvBuff < MillisSize /\ state < MillisSize
      BY <1>1, <1>2, <2>8, <3>2 DEF ClockInv, EvBuff
    <3>6. CASE stateSw
      <4>1. curr > state + EvBuff
        BY <1>1, <3>1, <3>5, <3>6, AfterInTurn
      <4>2. state < led
        BY <1>1, <3>4, <4>1 DEF EvBuff
      <4> QED  BY <3>2, <4>2
    <3>7. CASE ~stateSw
      <4>1. state < led
        BY <1>1, <1>2, <3>3, <3>5, <3>7 DEF ClockInv, EvBuff
      <4> QED  BY <3>2, <4>1
    <3> QED  BY <1>1, <3>6, <3>7
  <2> QED  BY <1>1, <2>1, <2>2, <2>6, <2>7, <2>8 DEF ClockInv, Stretched, LedTime, EchoTimeout
<1>6. CASE Next /\ ~(CarComes \/ CarGoes \/ Decide)
  <2>1. PICK d \in {0, 1, EchoTimeout} :
             /\ pc \in {"first", "second"} /\ (pc = "second" => d # 1)
             /\ pc' = IF pc = "first" THEN "second" ELSE "decide"
             /\ UNCHANGED <<lane, curr, state, stateSw, led, ledSw, relay, present, passages,
                            calibrated>>
             /\ millis' = IF millis + d < MillisSize THEN millis + d ELSE millis + d - MillisSize
             /\ misses' = IF d = EchoTimeout THEN misses + 1 ELSE misses
             /\ high' = IF d = 0 THEN high ELSE relay
             /\ absent' \in Nat /\ (~present => absent' <= absent + d)
             /\ IF (lane = "Red" <=> pc = "first")
                THEN \/ ~present /\ (calibrated => ~active') /\ seen' = seen /\ d # EchoTimeout
                     \/ present /\ (calibrated => active') /\ seen' = TRUE
                     \/ present /\ seen /\ (calibrated => ~active')
                     \/ d = EchoTimeout
                ELSE active' = active /\ seen' = seen
    BY <1>6, MeasureKinds
  <2>2. d \in Nat /\ d <= 10 /\ misses' \in Nat
    BY <1>1, <2>1 DEF EchoTimeout
  <2>3. Elapsed \in Nat /\ Elapsed <= 20
        /\ (millis = curr + Elapsed \/ millis = curr + Elapsed - MillisSize)
    BY <1>1, <1>2 DEF ClockInv, EchoTimeout, Elapsed
  <2>4. millis' \in Nat /\ millis' < MillisSize
    <3>1. millis + d < MillisSize \/ millis + d - MillisSize \in Nat
      BY <1>1, <1>2, <2>2
    <3>2. millis < MillisSize
      BY DEF ClockInv
    <3>3. PICK m1 \in Nat : m1 = millis' /\ m1 < MillisSize
      BY <1>1, <1>2, <2>1, <2>2, <3>1, <3>2
    <3> QED  BY <3>3
  <2>5. Elapsed' = Elapsed + d
    BY <2>1, ElapsedStep
  <2>6. Elapsed' \in (IF pc' = "first" THEN {0} ELSE IF pc' = "second" THEN {0, 1, EchoTimeout}
                    ELSE {0, 1, EchoTimeout, EchoTimeout + 1, 2 * EchoTimeout})
    <3>1. CASE pc = "first"
      BY <1>1, <2>1, <2>2, <2>3, <2>5, <3>1 DEF ClockInv, EchoTimeout
    <3>2. CASE pc = "second"
      BY <1>1, <2>1, <2>2, <2>3, <2>5, <3>2 DEF ClockInv, EchoTimeout
    <3> QED  BY <2>1, <3>1, <3>2
  <2>7. Stretched' => misses' # 0
    <3>1. Stretched' => d = EchoTimeout \/ Stretched
      <4>1. pc = "first" => Elapsed = 0
        BY DEF ClockInv
      <4>2. Stretched' => Elapsed + d > 1
        BY <2>5 DEF Stretched
      <4> QED  BY <1>1, <2>1, <2>2, <2>3, <4>1, <4>2 DEF Stretched
    <3>2. PICK x1 \in Nat : x1 = misses' /\ x1 = IF d = EchoTimeout THEN misses + 1 ELSE misses
      BY <1>1, <2>1, <2>2
    <3> QED  BY <1>1, <3>1, <3>2 DEF ClockInv
  <2>8. /\ relay' = ledSw' /\ (relay' # high' => Elapsed' = 0)
        /\ (relay' => led' + LedTime < MillisSize)
        /\ (relay' /\ led' <= curr' => curr' <= led' + LedTime + 2 * EchoTimeout)
    BY <1>1, <2>1, <2>2, <2>3, <2>5 DEF ClockInv
  <2>9. active' /\ ~Fresh' => stateSw'
    BY <1>1, <2>1 DEF ClockInv, Fresh
  <2>10. ASSUME calibrated, active', Fresh', ~Stretched'
         PROVE  IF present THEN seen' ELSE absent' <= Elapsed'
    <3>1. d # EchoTimeout /\ ~Stretched
      BY <1>1, <2>2, <2>3, <2>5, <2>10 DEF Stretched, EchoTimeout
    <3>2. CASE lane = "Red" <=> pc = "first"
      BY <1>1, <2>1, <2>10, <3>1, <3>2
    <3>3. CASE ~(lane = "Red" <=> pc = "first")
      <4>1. Fresh /\ active
        BY <1>1, <2>1, <2>10, <3>3 DEF Fresh
      <4>2. IF present THEN seen ELSE absent <= Elapsed
        BY <2>10, <3>1, <4>1 DEF ClockInv
      <4>3. PICK ab \in Nat : ab = absent'
        BY <2>1
      <4> QED  BY <1>1, <2>1, <2>2, <2>3, <2>5, <3>3, <4>2, <4>3
    <3> QED  BY <3>2, <3>3
  <2> QED  BY <2>1, <2>4, <2>6, <2>7, <2>8, <2>9, <2>10 DEF ClockInv
<1>7. CASE UNCHANGED sensorVars
  BY <1>7 DEF sensorVars, outputs, traffic, switchVars, ClockInv, Fresh, Stretched, Elapsed
<1> QED  BY <1>3, <1>4, <1>5, <1>6, <1>7

\* The rest of loop(), in terms of the times it compares.
DecideEffect(ld1, r1, st1, sw1) ==
    /\ ld1 \in Nat /\ r1 \in BOOLEAN /\ st1 \in Nat /\ sw1 \in BOOLEAN
    /\ ld1 < MillisSize /\ ld1 = IF active /\ ~stateSw THEN curr ELSE led
    /\ st1 < MillisSize /\ st1 = IF active THEN curr ELSE state
    /\ r1 => relay \/ (active /\ ~stateSw)
    /\ relay \/ (active /\ ~stateSw) =>
         /\ ld1 + 2 < MillisSize => (r1 <=> curr <= ld1 + 2)
         /\ ld1 + 2 >= MillisSize => (r1 <=> curr <= ld1 + 2 - MillisSize)
    /\ sw1 = (active \/ (stateSw /\ IF state + 5 < MillisSize THEN curr <= state + 5
                                    ELSE curr <= state + 5 - MillisSize))

\* What the rest of loop() does with the times of the state and of the LED.
LEMMA DecideFacts ==
    ASSUME SensorTypeOK, WellPlaced, LongClock, ClockInv, Decide
    PROVE  \E ld1 \in Nat, r1 \in BOOLEAN, st1 \in Nat, sw1 \in BOOLEAN :
             /\ ld1 = led' /\ r1 = relay' /\ st1 = state' /\ sw1 = stateSw'
             /\ DecideEffect(ld1, r1, st1, sw1)
<1>1. /\ millis \in Nat /\ curr \in Nat /\ state \in Nat /\ led \in Nat
      /\ active \in BOOLEAN /\ stateSw \in BOOLEAN /\ relay \in BOOLEAN
  BY DEF SensorTypeOK
<1>2. MillisSize \in Nat /\ MillisSize >= 25
  BY ClockFacts
<1>3. curr < MillisSize /\ state < MillisSize /\ led < MillisSize
  BY RoundFacts
<1>4. PICK ld1 \in Nat, r1 \in BOOLEAN, st1 \in Nat, sw1 \in BOOLEAN :
        /\ ld1 = led' /\ r1 = relay' /\ st1 = state' /\ sw1 = stateSw'
        /\ ld1 = IF active /\ ~stateSw THEN curr ELSE led
        /\ r1 = ((relay \/ (active /\ ~stateSw)) /\ ~After(ld1, LedTime))
        /\ st1 = IF active THEN curr ELSE state
        /\ sw1 = (active \/ (stateSw /\ ~After(state, EvBuff)))
  <2>1. /\ led' \in Nat /\ state' \in Nat
        /\ relay' = ((relay \/ NewlyActive) /\ ~After(led', LedTime))
        /\ stateSw' = (active \/ (stateSw /\ ~Debounced))
        /\ led' = IF NewlyActive THEN curr ELSE led
        /\ state' = IF active THEN curr ELSE state
    BY <1>1 DEF Decide, ClockInv
  <2>2. stateSw' = (active \/ (stateSw /\ ~After(state, EvBuff)))
    BY <1>1, <2>1 DEF Debounced
  <2>3. relay' \in BOOLEAN /\ stateSw' \in BOOLEAN
    BY <2>1
  <2> QED  BY <2>1, <2>2, <2>3 DEF NewlyActive
<1>5. ld1 \in Nat /\ ld1 < MillisSize /\ st1 \in Nat /\ st1 < MillisSize /\ r1 \in BOOLEAN
      /\ sw1 \in BOOLEAN /\ ld1 = (IF active /\ ~stateSw THEN curr ELSE led)
      /\ st1 = IF active THEN curr ELSE state
  BY <1>1, <1>3, <1>4
<1>6. r1 => relay \/ (active /\ ~stateSw)
  BY <1>1, <1>4
<1>7. relay \/ (active /\ ~stateSw) =>
        /\ ld1 + 2 < MillisSize => (r1 <=> curr <= ld1 + 2)
        /\ ld1 + 2 >= MillisSize => (r1 <=> curr <= ld1 + 2 - MillisSize)
  <2>1. /\ ld1 + 2 < MillisSize => (After(ld1, LedTime) <=> curr > ld1 + 2)
        /\ ld1 + 2 >= MillisSize => (After(ld1, LedTime) <=> curr > ld1 + 2 - MillisSize)
        /\ After(ld1, LedTime) \in BOOLEAN
    BY <1>5, AfterInTurn DEF LedTime
  <2>2. relay \/ (active /\ ~stateSw) => (r1 <=> ~After(ld1, LedTime))
    BY <1>4
  <2> QED  BY <1>1, <1>2, <1>5, <2>1, <2>2
<1>8. sw1 = (active \/ (stateSw /\ IF state + 5 < MillisSize THEN curr <= state + 5
                                   ELSE curr <= state + 5 - MillisSize))
  <2>1. /\ state + 5 < MillisSize => (After(state, EvBuff) <=> curr > state + 5)
        /\ state + 5 >= MillisSize => (After(state, EvBuff) <=> curr > state + 5 - MillisSize)
        /\ After(state, EvBuff) \in BOOLEAN
    BY <1>1, <1>3, AfterInTurn DEF EvBuff
  <2>2. sw1 = (active \/ (stateSw /\ ~After(state, EvBuff)))
    BY <1>4
  <2> QED  BY <1>1, <1>2, <2>1, <2>2
<1>9. ld1 = led' /\ r1 = relay' /\ st1 = state' /\ sw1 = stateSw'
  BY <1>4
<1> QED  BY <1>5, <1>6, <1>7, <1>8, <1>9 DEF DecideEffect

\* A pulse that begins is that of a car or of a missing echo, but shortly before millis() wraps.
LEMMA SurplusDecide ==
    ASSUME SensorTypeOK, WellPlaced, LongClock, ClockInv, SurplusInv, calibrated, Decide
    PROVE  SurplusInv'
<1>1. /\ millis \in Nat /\ curr \in Nat /\ state \in Nat /\ led \in Nat
      /\ active \in BOOLEAN /\ stateSw \in BOOLEAN /\ relay \in BOOLEAN
      /\ high \in BOOLEAN /\ present \in BOOLEAN /\ seen \in BOOLEAN
      /\ unseen \in Nat /\ misses \in Nat /\ wraps \in Nat /\ passages \in Nat /\ pulses \in Nat
      /\ lane \in {"Red", "Black"}
  BY DEF SensorTypeOK
<1>2. MillisSize \in Nat /\ MillisSize >= 25 /\ MaxDropout \in Nat /\ MaxDropout <= 4
  BY ClockFacts
<1>3. /\ Elapsed \in Nat /\ Elapsed <= 20 /\ (Elapsed <= 1 \/ Elapsed >= 10)
      /\ millis = curr + Elapsed \/ millis = curr + Elapsed - MillisSize
      /\ millis < MillisSize /\ curr < MillisSize /\ state < MillisSize /\ led < MillisSize
      /\ relay # high => Elapsed = 0
      /\ relay => led + 2 < MillisSize
      /\ relay /\ led <= curr => curr <= led + 22
      /\ relay /\ ~stateSw => state < led \/ state + 5 >= MillisSize
  BY RoundFacts
<1>4. PICK ld1 \in Nat, r1 \in BOOLEAN, st1 \in Nat, sw1 \in BOOLEAN :
        /\ ld1 = led' /\ r1 = relay' /\ st1 = state' /\ sw1 = stateSw'
        /\ DecideEffect(ld1, r1, st1, sw1)
  BY DecideFacts
<1>5. DecideEffect(ld1, r1, st1, sw1)
  BY <1>4
<1>6. Surplus' = IF millis + 5 >= MillisSize
                 THEN One(~(millis + 2 >= MillisSize
                            \/ (r1 /\ ld1 + 5 >= MillisSize /\ ld1 <= millis))) - 1
                 ELSE One(present /\ seen
                          /\ ~(/\ unseen <= MaxDropout + IF lane = "Black" THEN 0 ELSE 10
                               /\ sw1
                               /\ (IF millis < st1 THEN millis + MillisSize - st1
                                   ELSE millis - st1) <= 1 + unseen))
  <2>1. /\ curr' = millis /\ pc' = "first" /\ ~NewlyActive'
        /\ UNCHANGED <<lane, millis, active, present, seen, unseen>>
    <3>1. active => stateSw'
      BY DEF Decide
    <3> QED  BY <3>1 DEF Decide, traffic, NewlyActive
  <2>2. Elapsed' = 0 /\ ~Fresh' /\ ~Stretched'
    BY <1>1, <2>1 DEF Elapsed, Fresh, Stretched
  <2>3. Age(state)' = IF millis < st1 THEN millis + MillisSize - st1 ELSE millis - st1
    BY <1>4, <2>1 DEF Age
  <2>4. Kept' = /\ unseen <= MaxDropout + IF lane = "Black" THEN 0 ELSE 10
                /\ sw1
                /\ (IF millis < st1 THEN millis + MillisSize - st1 ELSE millis - st1) <= 1 + unseen
    <3>1. 0 + Age(state)' = Age(state)'
      BY <1>1, <1>2, <1>5, <2>3
    <3> QED  BY <1>4, <2>1, <2>2, <2>3, <3>1 DEF Kept, EchoTimeout
  <2>5. Late' = (millis + 2 >= MillisSize \/ (r1 /\ ld1 + 5 >= MillisSize /\ ld1 <= millis))
    BY <1>4, <2>1 DEF Late, LedTime, EvBuff
  <2>6. Surplus' = IF millis + EvBuff >= MillisSize THEN 1 + One(~Late') - 2 * One(TRUE)
                   ELSE One(FALSE) + One(present /\ seen /\ ~Kept') + One(FALSE)
    <3>1. /\ One(NewlyActive)' = One(FALSE)
          /\ One(lane = "Black" /\ pc = "second" /\ Stretched)' = One(FALSE)
      BY <2>1, <2>2 DEF One
    <3>2. One(millis >= curr)' = One(TRUE)
      BY <1>1, <2>1 DEF One
    <3>3. Ending' = (millis + EvBuff >= MillisSize)
      BY <2>1 DEF Ending
    <3>4. /\ One(~Late)' = One(~Late')
          /\ One(present /\ seen /\ ~Kept)' = One(present /\ seen /\ ~Kept')
      BY <2>1 DEF One
    <3> QED  BY <3>1, <3>2, <3>3, <3>4 DEF Surplus
  <2>7. /\ One(TRUE) = 1 /\ One(FALSE) = 0 /\ EvBuff = 5
        /\ One(~Late') \in Int /\ One(present /\ seen /\ ~Kept') \in Int
    BY DEF One, EvBuff
  <2>8. Surplus' = IF millis + 5 >= MillisSize THEN One(~Late') - 1
                   ELSE One(present /\ seen /\ ~Kept')
    <3>1. PICK o \in Int, k \in Int : o = One(~Late') /\ k = One(present /\ seen /\ ~Kept')
      BY <2>7
    <3>2. Surplus' = IF millis + 5 >= MillisSize THEN 1 + o - 2 * 1 ELSE 0 + k + 0
      BY <2>6, <2>7, <3>1
    <3>3. 1 + o - 2 * 1 = o - 1 /\ 0 + k + 0 = k
      OBVIOUS
    <3> QED  BY <3>1, <3>2, <3>3
  <2> QED  BY <2>4, <2>5, <2>8
<1>7. Surplus = IF curr + 5 >= MillisSize
                 THEN 1 + One(~(curr + 2 >= MillisSize
                            \/ (relay /\ led + 5 >= MillisSize /\ led <= curr)))
                        - 2 * One(millis >= curr)
                 ELSE One(active /\ ~stateSw) + One(present /\ seen
                          /\ ~(/\ unseen <= MaxDropout + IF lane = "Black" THEN 0 ELSE 10
                               /\ IF active THEN Elapsed <= 1 + unseen
                                  ELSE /\ stateSw /\ Elapsed + Age(state) <= 1 + unseen
                                       /\ Age(state) <= 1 + MaxDropout))
  <2>1. pc = "decide" /\ Fresh
    BY DEF Decide, Fresh
  <2> QED  BY <1>1, <2>1 DEF Surplus, Ending, Late, Kept, NewlyActive, EvBuff, LedTime, EchoTimeout,
                             One
<1>8. One(high \/ r1) + Surplus' <= One(high \/ relay) + Surplus
  BY <1>1, <1>2, <1>3, <1>5, <1>6, <1>7, SMTT(60) DEF One, Age, DecideEffect
<1>9. pulses + One(high \/ relay) + Surplus <= Measured + 2 * wraps + misses
  BY DEF SurplusInv, Pulse
<1>10. Surplus \in Int /\ Surplus' \in Int /\ Measured \in Int
  BY <1>1, <1>6, <1>7 DEF One, Measured
<1>11. PICK s0 \in Int, s1 \in Int : s0 = Surplus /\ s1 = Surplus'
  BY <1>10
<1>12. pulses + One(high \/ r1) + s1 <= Measured + 2 * wraps + misses
  <2>1. One(high \/ r1) + s1 <= One(high \/ relay) + s0
        /\ pulses + One(high \/ relay) + s0 <= Measured + 2 * wraps + misses
    BY <1>8, <1>9, <1>11
  <2>2. One(high \/ r1) \in Int /\ One(high \/ relay) \in Int
    BY DEF One
  <2> QED  BY <1>1, <1>10, <2>1, <2>2
<1> QED  BY <1>4, <1>11, <1>12 DEF SurplusInv, Pulse, Measured, Decide, traffic, switchVars

\* A car that comes or goes brings no pulse.
LEMMA SurplusTraffic ==
    ASSUME SensorTypeOK, SurplusInv, calibrated, CarComes \/ CarGoes
    PROVE  SurplusInv'
<1>1. /\ present \in BOOLEAN /\ seen \in BOOLEAN /\ wraps \in Nat /\ misses \in Nat
      /\ passages \in Nat /\ pulses \in Nat
  BY DEF SensorTypeOK
<1>2. UNCHANGED <<lane, pc, millis, curr, low, active, state, stateSw, led, ledSw, relay, wraps,
                  misses, high, pulses>>
  BY DEF CarComes, CarGoes, outputs, switchVars
<1>3. Ending' = Ending /\ Late' = Late /\ Stretched' = Stretched /\ NewlyActive' = NewlyActive
  BY <1>2 DEF Ending, Late, Stretched, Elapsed, NewlyActive
<1> DEFINE rest(k) == IF Ending THEN 1 + One(~Late) - 2 * One(millis >= curr)
                      ELSE One(NewlyActive) + k
                             + One(lane = "Black" /\ pc = "second" /\ Stretched)
<1>4. /\ Surplus = rest(One(present /\ seen /\ ~Kept))
      /\ Surplus' = rest(One(present' /\ seen' /\ ~Kept'))
  BY <1>2, <1>3 DEF Surplus, One
<1>5. /\ One(present /\ seen /\ ~Kept) \in {0, 1}
      /\ One(present' /\ seen' /\ ~Kept') = 0
  BY <1>1 DEF CarComes, CarGoes, One
<1>6. /\ One(~Late) \in Int /\ One(millis >= curr) \in Int /\ One(NewlyActive) \in Int
      /\ One(lane = "Black" /\ pc = "second" /\ Stretched) \in Int
  BY DEF One
<1>7. PICK s0 \in Int, s1 \in Int : s0 = Surplus /\ s1 = Surplus' /\ s1 <= s0
  <2>1. rest(0) \in Int /\ rest(1) \in Int /\ rest(0) <= rest(1)
    BY <1>6
  <2> HIDE DEF rest
  <2> QED  BY <1>4, <1>5, <2>1
<1>8. PICK m0 \in Int, m1 \in Int : m0 = Measured /\ m1 = Measured' /\ m0 <= m1
  <2>1. CASE CarComes
    <3>1. PICK n \in Nat : n = passages' /\ n = passages + 1
      BY <1>1, <2>1 DEF CarComes
    <3>2. Measured = passages - 0 /\ Measured' = n - 1
      BY <2>1, <3>1 DEF CarComes, Measured, One
    <3>3. passages - 0 \in Int /\ n - 1 \in Int /\ passages - 0 <= n - 1
      BY <1>1, <3>1
    <3> QED  BY <3>2, <3>3
  <2>2. CASE CarGoes
    <3>1. Measured = passages - One(present /\ ~seen) /\ Measured' = passages - 0
      BY <2>2 DEF CarGoes, Measured, One
    <3>2. passages - One(present /\ ~seen) \in Int /\ passages - 0 \in Int
          /\ passages - One(present /\ ~seen) <= passages - 0
      BY <1>1 DEF One
    <3> QED  BY <3>1, <3>2
  <2> QED  BY <2>1, <2>2
<1>9. One(Pulse) \in Int /\ One(Pulse)' = One(Pulse)
  BY <1>2 DEF One, Pulse
<1>10. pulses + One(Pulse) + s1 <= m1 + 2 * wraps + misses
  <2>1. pulses + One(Pulse) + s0 <= m0 + 2 * wraps + misses
    BY <1>7, <1>8 DEF SurplusInv
  <2>2. s0 \in Int /\ s1 \in Int /\ s1 <= s0 /\ m0 \in Int /\ m1 \in Int /\ m0 <= m1
    BY <1>7, <1>8
  <2> QED  BY <1>1, <1>9, <2>1, <2>2
<1> QED  BY <1>2, <1>7, <1>8, <1>9, <1>10 DEF SurplusInv

\* A measurement of a calibrated lane, which takes time d: own is whether it is this lane's,
\* and one whether it is the first of its round.
MeasureEffect(d, m1, w1, x1, p1, u1, b1, h1, a1, s1, own, one) ==
    /\ own \in BOOLEAN /\ one \in BOOLEAN /\ a1 \in BOOLEAN /\ h1 \in BOOLEAN /\ s1 \in BOOLEAN
    /\ m1 \in Nat /\ w1 \in Nat /\ x1 \in Nat /\ p1 \in Nat /\ u1 \in Nat /\ b1 \in Nat
    /\ d \in Nat /\ d <= 10 /\ (d <= 1 \/ d = 10)
    /\ m1 = IF millis + d < MillisSize THEN millis + d ELSE millis + d - MillisSize
    /\ w1 = IF millis + d < MillisSize THEN wraps ELSE wraps + 1
    /\ x1 = IF d = 10 THEN misses + 1 ELSE misses
    /\ h1 = IF d = 0 THEN high ELSE relay
    /\ p1 = IF d # 0 /\ high /\ ~relay THEN pulses + 1 ELSE pulses
    /\ ~present => b1 <= absent + d
    /\ one => Elapsed = 0
    /\ ~one => Elapsed <= 10 /\ d # 1
    /\ own \/ one => (active => stateSw)
    /\ active /\ ~own /\ ~one /\ Elapsed <= 1 => IF present THEN seen ELSE absent <= Elapsed
    /\ IF own
       THEN \/ ~present /\ ~a1 /\ s1 = seen /\ d # 10
            \/ present /\ a1 /\ s1 = TRUE /\ u1 = 0 /\ d # 10
            \/ present /\ seen /\ ~a1 /\ s1 = seen /\ d # 10
                 /\ u1 = unseen + d /\ u1 <= MaxDropout
            \/ a1 /\ s1 = seen /\ u1 = unseen /\ d = 10
       ELSE a1 = active /\ s1 = seen /\ u1 = IF present THEN unseen + d ELSE unseen

\* Every measurement of a calibrated lane has that effect.
LEMMA CalibratedMeasure ==
    ASSUME SensorTypeOK, LowKnown, WellPlaced, LongClock, ClockInv, calibrated,
           Next, ~(CarComes \/ CarGoes \/ Decide)
    PROVE  \E d \in {0, 1, EchoTimeout} :
             /\ UNCHANGED <<lane, curr, state, stateSw, led, relay, present, passages, calibrated>>
             /\ Elapsed' = Elapsed + d
             /\ \E own \in BOOLEAN, one \in BOOLEAN :
                  /\ (lane = "Black" /\ pc # "second") <=> (~own /\ one)
                  /\ (lane = "Black" /\ pc = "second") <=> (own /\ ~one)
                  /\ Fresh <=> (~own /\ ~one)
                  /\ (lane' = "Black" /\ pc' # "second") <=> (own /\ ~one)
                  /\ (lane' = "Black" /\ pc' = "second") <=> (~own /\ one)
                  /\ Fresh' <=> (own \/ ~one)
                  /\ MeasureEffect(d, millis', wraps', misses', pulses', unseen', absent', high',
                                   active', seen', own, one)
<1>1. /\ millis \in Nat /\ wraps \in Nat /\ lane \in {"Red", "Black"}
  BY DEF SensorTypeOK
<1>2. /\ Elapsed \in Nat
      /\ pc = "first" => Elapsed = 0
      /\ pc = "second" => Elapsed <= 10
  BY RoundFacts
<1>3. PICK d \in {0, 1, EchoTimeout} :
             /\ pc \in {"first", "second"} /\ (pc = "second" => d # 1)
             /\ pc' = IF pc = "first" THEN "second" ELSE "decide"
             /\ UNCHANGED <<lane, curr, state, stateSw, led, ledSw, relay, present, passages,
                            calibrated>>
             /\ millis' = IF millis + d < MillisSize THEN millis + d ELSE millis + d - MillisSize
             /\ wraps' = IF millis + d < MillisSize THEN wraps ELSE wraps + 1
             /\ misses' = IF d = EchoTimeout THEN misses + 1 ELSE misses
             /\ high' = IF d = 0 THEN high ELSE relay
             /\ pulses' = IF d # 0 /\ high /\ ~relay THEN pulses + 1 ELSE pulses
             /\ absent' \in Nat /\ (~present => absent' <= absent + d)
             /\ IF (lane = "Red" <=> pc = "first")
                THEN \/ ~present /\ (calibrated => ~active') /\ seen' = seen /\ d # EchoTimeout
                     \/ present /\ (calibrated => active') /\ seen' = TRUE /\ unseen' = 0
                          /\ d # EchoTimeout
                     \/ present /\ seen /\ (calibrated => ~active') /\ seen' = seen
                          /\ d # EchoTimeout /\ unseen' = unseen + d /\ unseen' <= MaxDropout
                     \/ (calibrated => active') /\ seen' = seen /\ unseen' = unseen
                          /\ d = EchoTimeout
                ELSE active' = active /\ seen' = seen
                       /\ unseen' = IF present THEN unseen + d ELSE unseen
  BY MeasureKinds
<1>4. d \in Nat /\ d <= 10 /\ (d = EchoTimeout <=> d = 10) /\ (d <= 1 \/ d = 10)
  BY DEF EchoTimeout
<1>5. Elapsed' = Elapsed + d
  BY <1>3, ElapsedStep
<1>6. SensorTypeOK'
  BY SensorTypeStep
<1>7. PICK m1 \in Nat, w1 \in Nat, x1 \in Nat, p1 \in Nat, u1 \in Nat, b1 \in Nat,
           h1 \in BOOLEAN,
           a1 \in BOOLEAN, s1 \in BOOLEAN, own \in BOOLEAN, one \in BOOLEAN :
        /\ m1 = millis' /\ w1 = wraps' /\ x1 = misses' /\ p1 = pulses' /\ u1 = unseen'
        /\ b1 = absent' /\ h1 = high' /\ a1 = active' /\ s1 = seen'
        /\ own = (lane = "Red" <=> pc = "first") /\ one = (pc = "first")
  <2>1. /\ millis' \in Nat /\ wraps' \in Nat /\ misses' \in Nat /\ pulses' \in Nat
        /\ unseen' \in Nat /\ absent' \in Nat
        /\ high' \in BOOLEAN /\ active' \in BOOLEAN /\ seen' \in BOOLEAN
    BY <1>6 DEF SensorTypeOK
  <2>2. (lane = "Red" <=> pc = "first") \in BOOLEAN /\ (pc = "first") \in BOOLEAN
    OBVIOUS
  <2> QED  BY <2>1, <2>2, Zenon
<1>8. /\ own \in BOOLEAN /\ one \in BOOLEAN /\ a1 \in BOOLEAN /\ h1 \in BOOLEAN /\ s1 \in BOOLEAN
      /\ m1 \in Nat /\ w1 \in Nat /\ x1 \in Nat /\ p1 \in Nat /\ u1 \in Nat /\ b1 \in Nat
      /\ ~present => b1 <= absent + d
      /\ m1 = IF millis + d < MillisSize THEN millis + d ELSE millis + d - MillisSize
      /\ w1 = IF millis + d < MillisSize THEN wraps ELSE wraps + 1
      /\ x1 = IF d = 10 THEN misses + 1 ELSE misses
      /\ h1 = IF d = 0 THEN high ELSE relay
      /\ p1 = IF d # 0 /\ high /\ ~relay THEN pulses + 1 ELSE pulses
      /\ one => Elapsed = 0
      /\ ~one => Elapsed <= 10 /\ d # 1
      /\ IF own
         THEN \/ ~present /\ ~a1 /\ s1 = seen /\ d # 10
              \/ present /\ a1 /\ s1 = TRUE /\ u1 = 0 /\ d # 10
              \/ present /\ seen /\ ~a1 /\ s1 = seen /\ d # 10
                   /\ u1 = unseen + d /\ u1 <= MaxDropout
              \/ a1 /\ s1 = seen /\ u1 = unseen /\ d = 10
         ELSE a1 = active /\ s1 = seen /\ u1 = IF present THEN unseen + d ELSE unseen
  BY <1>2, <1>3, <1>4, <1>7
<1>9. /\ (lane = "Black" /\ pc # "second") <=> (~own /\ one)
      /\ (lane = "Black" /\ pc = "second") <=> (own /\ ~one)
      /\ Fresh <=> (~own /\ ~one)
  BY <1>1, <1>3, <1>7 DEF Fresh
<1>10. /\ (lane' = "Black" /\ pc' # "second") <=> (own /\ ~one)
       /\ (lane' = "Black" /\ pc' = "second") <=> (~own /\ one)
       /\ Fresh' <=> (own \/ ~one)
  BY <1>1, <1>3, <1>7 DEF Fresh
<1>11. own \/ one => (active => stateSw)
  BY <1>9 DEF ClockInv
<1>12. active /\ ~own /\ ~one /\ Elapsed <= 1 => IF present THEN seen ELSE absent <= Elapsed
  BY <1>2, <1>9 DEF ClockInv, Stretched
<1>13. MeasureEffect(d, m1, w1, x1, p1, u1, b1, h1, a1, s1, own, one)
  BY <1>4, <1>8, <1>11, <1>12 DEF MeasureEffect
<1>14. MeasureEffect(d, millis', wraps', misses', pulses', unseen', absent', high', active', seen',
                     own, one)
  BY <1>7, <1>13
<1> QED  BY <1>3, <1>5, <1>9, <1>10, <1>14

\* A measurement turns a car into a pulse that may begin, or an echo was missing.
LEMMA SurplusMeasure ==
    ASSUME SensorTypeOK, LowKnown, WellPlaced, LongClock, ClockInv, SurplusInv, calibrated,
           Next, ~(CarComes \/ CarGoes \/ Decide)
    PROVE  SurplusInv'
<1>1. /\ millis \in Nat /\ curr \in Nat /\ state \in Nat /\ led \in Nat
      /\ active \in BOOLEAN /\ stateSw \in BOOLEAN /\ relay \in BOOLEAN
      /\ high \in BOOLEAN /\ present \in BOOLEAN /\ seen \in BOOLEAN
      /\ unseen \in Nat /\ misses \in Nat /\ wraps \in Nat /\ passages \in Nat /\ pulses \in Nat
      /\ lane \in {"Red", "Black"}
  BY DEF SensorTypeOK
<1>2. MillisSize \in Nat /\ MillisSize >= 25 /\ MaxDropout \in Nat /\ MaxDropout <= 4
  BY ClockFacts
<1>3. /\ Elapsed \in Nat /\ (Elapsed <= 1 \/ Elapsed >= 10)
      /\ pc = "first" => Elapsed = 0
      /\ pc = "second" => Elapsed <= 10
      /\ millis = curr + Elapsed \/ millis = curr + Elapsed - MillisSize
      /\ millis < MillisSize /\ curr < MillisSize /\ state < MillisSize /\ led < MillisSize
      /\ relay # high => Elapsed = 0
      /\ relay => led + 2 < MillisSize
      /\ relay /\ led <= curr => curr <= led + 22
      /\ relay /\ ~stateSw => state < led \/ state + 5 >= MillisSize
  BY RoundFacts
<1>4. PICK d \in {0, 1, EchoTimeout} :
        /\ UNCHANGED <<lane, curr, state, stateSw, led, relay, present, passages, calibrated>>
        /\ Elapsed' = Elapsed + d
        /\ \E own \in BOOLEAN, one \in BOOLEAN :
             /\ (lane = "Black" /\ pc # "second") <=> (~own /\ one)
             /\ (lane = "Black" /\ pc = "second") <=> (own /\ ~one)
             /\ Fresh <=> (~own /\ ~one)
             /\ (lane' = "Black" /\ pc' # "second") <=> (own /\ ~one)
             /\ (lane' = "Black" /\ pc' = "second") <=> (~own /\ one)
             /\ Fresh' <=> (own \/ ~one)
             /\ MeasureEffect(d, millis', wraps', misses', pulses', unseen', absent', high',
                              active', seen', own, one)
  BY CalibratedMeasure
<1>5. PICK own \in BOOLEAN, one \in BOOLEAN :
        /\ (lane = "Black" /\ pc # "second") <=> (~own /\ one)
        /\ (lane = "Black" /\ pc = "second") <=> (own /\ ~one)
        /\ Fresh <=> (~own /\ ~one)
        /\ (lane' = "Black" /\ pc' # "second") <=> (own /\ ~one)
        /\ (lane' = "Black" /\ pc' = "second") <=> (~own /\ one)
        /\ Fresh' <=> (own \/ ~one)
        /\ MeasureEffect(d, millis', wraps', misses', pulses', unseen', absent', high',
                         active', seen', own, one)
  BY <1>4
<1>6. SensorTypeOK'
  BY SensorTypeStep
<1>7. PICK m1 \in Nat, w1 \in Nat, x1 \in Nat, p1 \in Nat, u1 \in Nat, b1 \in Nat,
           h1 \in BOOLEAN, a1 \in BOOLEAN, s1 \in BOOLEAN :
        /\ m1 = millis' /\ w1 = wraps' /\ x1 = misses' /\ p1 = pulses' /\ u1 = unseen'
        /\ b1 = absent' /\ h1 = high' /\ a1 = active' /\ s1 = seen'
  BY <1>6 DEF SensorTypeOK
<1>8. MeasureEffect(d, m1, w1, x1, p1, u1, b1, h1, a1, s1, own, one)
  BY <1>5, <1>7
<1> DEFINE age == IF curr < state THEN curr + MillisSize - state ELSE curr - state
           late == curr + 2 >= MillisSize \/ (relay /\ led + 5 >= MillisSize /\ led <= curr)
           before == IF curr + 5 >= MillisSize THEN 1 + One(~late) - 2 * One(millis >= curr)
                   ELSE One(active /\ ~stateSw)
                     + One(present /\ seen /\
                           ~(/\ unseen <= MaxDropout + IF ~own /\ one THEN 0 ELSE 10
                             /\ IF ~own /\ ~one /\ active THEN Elapsed <= 1 + unseen
                                ELSE stateSw /\ Elapsed + age <= 1 + unseen
                                     /\ (~own /\ ~one => age <= 1 + MaxDropout)))
                     + One(own /\ ~one /\ Elapsed > 1)
           after == IF curr + 5 >= MillisSize THEN 1 + One(~late) - 2 * One(m1 >= curr)
                   ELSE One(a1 /\ ~stateSw)
                     + One(present /\ s1 /\
                           ~(/\ u1 <= MaxDropout + IF own /\ ~one THEN 0 ELSE 10
                             /\ IF (own \/ ~one) /\ a1 THEN Elapsed + d <= 1 + u1
                                ELSE stateSw /\ Elapsed + d + age <= 1 + u1
                                     /\ (own \/ ~one => age <= 1 + MaxDropout)))
                     + One(~own /\ one /\ Elapsed + d > 1)
<1>9. Surplus = before
  <2>1. One(NewlyActive) = One(active /\ ~stateSw) /\ One(~Late) = One(~late)
        /\ Ending = (curr + 5 >= MillisSize)
    BY DEF NewlyActive, Late, Ending, EvBuff, LedTime
  <2>2. One(lane = "Black" /\ pc = "second" /\ Stretched) = One(own /\ ~one /\ Elapsed > 1)
    BY <1>4, <1>5, <1>7 DEF Stretched, One
  <2>3. Kept <=> (/\ unseen <= MaxDropout + IF ~own /\ one THEN 0 ELSE 10
                  /\ IF ~own /\ ~one /\ active THEN Elapsed <= 1 + unseen
                     ELSE stateSw /\ Elapsed + age <= 1 + unseen
                          /\ (~own /\ ~one => age <= 1 + MaxDropout))
    BY <1>4, <1>5, <1>7 DEF Kept, EchoTimeout, Age
  <2> HIDE DEF late, age
  <2> QED  BY <2>1, <2>2, <2>3 DEF Surplus, One
<1>10. Surplus' = after
  <2>1. One(NewlyActive)' = One(a1 /\ ~stateSw) /\ One(~Late)' = One(~late)
        /\ Ending' = (curr + 5 >= MillisSize)
    BY <1>4, <1>5, <1>7 DEF NewlyActive, Late, Ending, EvBuff, LedTime, One
  <2>2. One(lane = "Black" /\ pc = "second" /\ Stretched)' = One(~own /\ one /\ Elapsed + d > 1)
    BY <1>4, <1>5, <1>7 DEF Stretched, One
  <2>3. Kept' <=> (/\ u1 <= MaxDropout + IF own /\ ~one THEN 0 ELSE 10
                  /\ IF (own \/ ~one) /\ a1 THEN Elapsed + d <= 1 + u1
                     ELSE stateSw /\ Elapsed + d + age <= 1 + u1
                          /\ (own \/ ~one => age <= 1 + MaxDropout))
    BY <1>4, <1>5, <1>7 DEF Kept, EchoTimeout, Age
  <2>4. One(millis >= curr)' = One(m1 >= curr)
    BY <1>4, <1>5, <1>7 DEF One
  <2>5. One(present /\ seen /\ ~Kept)' = One(present /\ s1 /\ ~Kept')
    BY <1>4, <1>5, <1>7 DEF One
  <2> HIDE DEF late, age
  <2> QED  BY <2>1, <2>2, <2>3, <2>4, <2>5 DEF Surplus, One
<1>11. before \in Int /\ after \in Int
  BY DEF One
<1>12. p1 + One(h1 \/ relay) + after + One(present /\ ~s1)
       <= pulses + One(high \/ relay) + before + One(present /\ ~seen) + 2 * (w1 - wraps)
            + x1 - misses
  BY <1>1, <1>2, <1>3, <1>8, SMTT(120) DEF One, MeasureEffect
<1> HIDE DEF before, after
<1>13. pulses + One(high \/ relay) + before <= passages - One(present /\ ~seen) + 2 * wraps + misses
  BY <1>9 DEF SurplusInv, Pulse, Measured
<1>14. /\ One(high \/ relay) \in Int /\ One(h1 \/ relay) \in Int
       /\ One(present /\ ~seen) \in Int /\ One(present /\ ~s1) \in Int
  BY DEF One
<1>15. p1 + One(h1 \/ relay) + after <= passages - One(present /\ ~s1) + 2 * w1 + x1
  BY <1>1, <1>8, <1>11, <1>12, <1>13, <1>14 DEF MeasureEffect
<1>16. One(Pulse)' = One(h1 \/ relay) /\ Measured' = passages - One(present /\ ~s1)
  BY <1>4, <1>5, <1>7 DEF Pulse, Measured, One
<1> QED  BY <1>4, <1>7, <1>10, <1>15, <1>16 DEF SurplusInv

\* A car that comes keeps its distance, so nothing is newly at risk.
LEMMA LossTraffic ==
    ASSUME SensorTypeOK, WellPlaced, LongClock, ClockInv, LossInv, calibrated,
           CarComes \/ CarGoes
    PROVE  LossInv'
<1>1. /\ millis \in Nat /\ curr \in Nat /\ state \in Nat /\ led \in Nat
      /\ active \in BOOLEAN /\ stateSw \in BOOLEAN /\ relay \in BOOLEAN
      /\ high \in BOOLEAN /\ present \in BOOLEAN /\ seen \in BOOLEAN /\ absent \in Nat
      /\ misses \in Nat /\ wraps \in Nat /\ passages \in Nat /\ pulses \in Nat
  BY DEF SensorTypeOK
<1>2. MillisSize \in Nat /\ MillisSize >= 25 /\ MinGap \in Nat /\ MinGap >= 8
  BY ClockFacts
<1>3. /\ Elapsed \in Nat /\ curr < MillisSize /\ state < MillisSize /\ led < MillisSize
      /\ relay # high => Elapsed = 0
  BY RoundFacts
<1>4. UNCHANGED <<lane, pc, millis, curr, active, state, stateSw, led, relay, wraps,
                  misses, high, pulses, calibrated>>
  BY DEF CarComes, CarGoes, outputs, switchVars
<1>5. /\ Elapsed' = Elapsed /\ Stretched' = Stretched /\ NewlyActive' = NewlyActive
      /\ Age(led)' = Age(led) /\ Age(state)' = Age(state) /\ Wraps' = Wraps
      /\ PulseAtRisk' = PulseAtRisk /\ RelayHangs' = RelayHangs /\ SwitchHangs' = SwitchHangs
      /\ (active /\ Fresh)' = (active /\ Fresh) /\ Pulse' = Pulse
  BY <1>4 DEF Stretched, Elapsed, NewlyActive, Age, PulseAtRisk, RelayHangs, SwitchHangs, Fresh,
              Pulse, Wraps
<1> DEFINE soon(t) == IF present' THEN ~seen' ELSE absent' > Elapsed + t
<1>6. NextAtRisk' <=> \/ Stretched /\ (IF present' THEN ~seen' ELSE absent' # 0)
                      \/ stateSw /\ ~SwitchHangs /\ soon(Least(Age(state), EvBuff + 1))
                      \/ Pulse /\ ~RelayHangs
                           /\ soon(Least(Age(led), EvBuff + (IF relay THEN 1 ELSE 2)))
  BY <1>4, <1>5 DEF NextAtRisk, Soon
<1>7. Age(state) \in Nat /\ Age(led) \in Nat
  BY <1>1, <1>2, <1>3 DEF Age
<1>8. /\ Least(Age(state), EvBuff + 1) \in Nat /\ Least(Age(state), EvBuff + 1) <= 6
      /\ Least(Age(led), EvBuff + (IF relay THEN 1 ELSE 2)) \in Nat
      /\ Least(Age(led), EvBuff + (IF relay THEN 1 ELSE 2)) <= (IF relay THEN 6 ELSE 7)
  BY <1>7 DEF Least, EvBuff
<1>9. ASSUME CarComes PROVE NextAtRisk' => NextAtRisk
  <2>1. ~present /\ absent >= 8
    BY <1>1, <1>2, <1>9 DEF CarComes
  <2>2. CASE Stretched
    BY <1>1, <2>1, <2>2 DEF NextAtRisk
  <2>3. CASE ~Stretched
    <3>1. Elapsed <= 1 /\ (Pulse /\ ~relay => Elapsed = 0)
      BY <1>1, <1>3, <2>3 DEF Stretched, Pulse
    <3>2. ASSUME NEW t \in Nat, t <= 7, t = 7 => Elapsed = 0 PROVE Soon(t)
      <4>1. t + Elapsed < absent
        BY <1>1, <1>3, <2>1, <3>1, <3>2
      <4> QED  BY <1>1, <1>3, <2>1, <3>2, <4>1 DEF Soon
    <3>3. Soon(Least(Age(state), EvBuff + 1))
      BY <1>8, <3>2
    <3>4. Pulse => Soon(Least(Age(led), EvBuff + (IF relay THEN 1 ELSE 2)))
      <4>1. CASE relay
        BY <1>8, <3>2, <4>1
      <4>2. CASE ~relay
        BY <1>8, <3>1, <3>2, <4>2
      <4> QED  BY <4>1, <4>2
    <3> HIDE DEF soon
    <3> QED  BY <1>6, <2>3, <3>3, <3>4 DEF NextAtRisk
  <2> QED  BY <2>2, <2>3
<1>10. ASSUME CarGoes PROVE ~NextAtRisk' /\ (~seen => NextAtRisk)
  <2>1. present' = FALSE /\ absent' = 0
    BY <1>10 DEF CarGoes
  <2>2. ASSUME NEW t \in Nat PROVE ~soon(t)
    BY <1>3, <2>1
  <2>3. ~soon(Least(Age(state), EvBuff + 1))
    BY <1>8, <2>2
  <2>4. ~soon(Least(Age(led), EvBuff + (IF relay THEN 1 ELSE 2)))
    BY <1>8, <2>2
  <2>5. ~NextAtRisk'
    <3> HIDE DEF soon
    <3> QED  BY <1>6, <2>1, <2>3, <2>4
  <2>6. ~seen => NextAtRisk
    BY <1>10 DEF CarGoes, NextAtRisk
  <2> QED  BY <2>5, <2>6
<1>11. Suppressed => Suppressed'
  <2> DEFINE start == IF NewlyActive THEN curr ELSE led
  <2> SUFFICES ASSUME Suppressed PROVE Suppressed'
    OBVIOUS
  <2>1. /\ start + LedTime >= MillisSize /\ start <= curr
        /\ ~relay /\ (stateSw => led <= state)
        /\ Stretched \/ (IF present THEN seen ELSE absent <= Elapsed + curr - start)
    BY DEF Suppressed
  <2>2. Stretched \/ (IF present' THEN seen' ELSE absent' <= Elapsed + curr - start)
    <3>1. CASE CarGoes
      <4>1. 0 <= Elapsed + curr - start
        BY <1>1, <1>2, <1>3, <2>1
      <4>2. present' = FALSE /\ absent' = 0
        BY <3>1 DEF CarGoes
      <4> QED  BY <4>1, <4>2
    <3>2. CASE CarComes
      <4>1. ~present /\ absent >= 8
        BY <1>1, <1>2, <3>2 DEF CarComes
      <4>2. curr - start <= 2 /\ start \in Nat
        BY <1>1, <1>2, <1>3, <2>1 DEF LedTime
      <4>3. Elapsed > 1
        BY <1>1, <1>2, <1>3, <2>1, <4>1, <4>2 DEF Stretched
      <4> QED  BY <4>3 DEF Stretched
    <3> QED  BY <3>1, <3>2
  <2>3. Suppressed' <=>
          /\ start + LedTime >= MillisSize /\ start <= curr
          /\ ~relay /\ (stateSw => led <= state)
          /\ Stretched \/ (IF present' THEN seen' ELSE absent' <= Elapsed + curr - start)
    BY <1>4, <1>5 DEF Suppressed
  <2> QED  BY <2>1, <2>2, <2>3
<1>12. WrapAhead' => WrapAhead
  BY <1>4, <1>11 DEF WrapAhead
<1>13. PICK m0 \in Int, m1 \in Int, n0 \in {0, 1}, n1 \in {0, 1} :
         /\ m0 = Measured /\ m1 = Measured' /\ n0 = One(NextAtRisk) /\ n1 = One(NextAtRisk)'
         /\ m1 + n1 <= m0 + n0
  <2>1. One(NextAtRisk) \in {0, 1} /\ One(NextAtRisk)' \in {0, 1}
    BY DEF One
  <2>2. CASE CarComes
    <3>1. PICK n \in Nat : n = passages' /\ n = passages + 1
      BY <1>1, <2>2 DEF CarComes
    <3>2. Measured = passages - 0 /\ Measured' = n - 1
      BY <2>2, <3>1 DEF CarComes, Measured, One
    <3>3. passages - 0 \in Int /\ n - 1 \in Int /\ n - 1 <= passages - 0
      BY <1>1, <3>1
    <3>4. PICK n0 \in {0, 1}, n1 \in {0, 1} :
            n0 = One(NextAtRisk) /\ n1 = One(NextAtRisk)' /\ n1 <= n0
      BY <1>9, <2>2 DEF One
    <3>5. n - 1 + n1 <= passages - 0 + n0
      BY <1>1, <3>1, <3>4
    <3> QED  BY <3>2, <3>3, <3>4, <3>5
  <2>3. CASE CarGoes
    <3>1. Measured = passages - One(~seen) /\ Measured' = passages - 0
      BY <2>3 DEF CarGoes, Measured, One
    <3>2. One(NextAtRisk)' = 0 /\ One(~seen) <= One(NextAtRisk)
      BY <1>10, <2>3 DEF One
    <3>3. PICK n0 \in {0, 1}, k \in {0, 1} : n0 = One(NextAtRisk) /\ k = One(~seen) /\ k <= n0
      BY <2>1, <3>2 DEF One
    <3>4. passages - k \in Int /\ passages - 0 \in Int /\ passages - 0 + 0 <= passages - k + n0
      BY <1>1, <3>3
    <3> QED  BY <3>1, <3>2, <3>3, <3>4
  <2> QED  BY <2>2, <2>3
<1>14. PICK w0 \in {0, 1}, w1 \in {0, 1} :
         w0 = One(WrapAhead) /\ w1 = One(WrapAhead)' /\ w1 <= w0
  BY <1>12 DEF One
<1>15. PICK rest \in Int :
         rest = One(PulseAtRisk) + One(RelayHangs) + One(SwitchHangs /\ ~(active /\ Fresh))
  BY DEF One
<1>16. AtRisk = n0 + w0 + rest
  <2>1. AtRisk = One(PulseAtRisk) + n0 + One(RelayHangs)
                   + One(SwitchHangs /\ ~(active /\ Fresh)) + w0
    BY <1>13, <1>14 DEF AtRisk
  <2>2. /\ One(PulseAtRisk) \in Int /\ One(RelayHangs) \in Int
        /\ One(SwitchHangs /\ ~(active /\ Fresh)) \in Int
    BY DEF One
  <2> QED  BY <1>15, <2>1, <2>2
<1>17. AtRisk' = n1 + w1 + rest
  <2>1. AtRisk' = One(PulseAtRisk) + n1 + One(RelayHangs)
                    + One(SwitchHangs /\ ~(active /\ Fresh)) + w1
    BY <1>5, <1>13, <1>14 DEF AtRisk, One
  <2>2. /\ One(PulseAtRisk) \in Int /\ One(RelayHangs) \in Int
        /\ One(SwitchHangs /\ ~(active /\ Fresh)) \in Int
    BY DEF One
  <2> QED  BY <1>15, <2>1, <2>2
<1>18. m1 + (n1 + w1 + rest) <= pulses + One(Pulse) + One(NewlyActive) + Wraps + 2 * misses
  <2>1. m0 + (n0 + w0 + rest) <= pulses + One(Pulse) + One(NewlyActive) + Wraps + 2 * misses
    BY <1>13, <1>16 DEF LossInv
  <2>2. /\ One(Pulse) \in Int /\ One(NewlyActive) \in Int /\ Wraps \in Int
    BY <1>1 DEF One, Wraps
  <2>3. m1 + n1 <= m0 + n0 /\ w1 <= w0
    BY <1>13, <1>14
  <2> QED  BY <1>1, <2>1, <2>2, <2>3
<1>19. One(Pulse)' = One(Pulse) /\ One(NewlyActive)' = One(NewlyActive)
  BY <1>5 DEF One
<1> QED  BY <1>4, <1>5, <1>13, <1>17, <1>18, <1>19 DEF LossInv

\* What the rest of loop() loses was at risk before it.
LEMMA LossDecide ==
    ASSUME SensorTypeOK, WellPlaced, LongClock, ClockInv, LossInv, calibrated, Decide
    PROVE  LossInv'
<1>1. /\ millis \in Nat /\ curr \in Nat /\ state \in Nat /\ led \in Nat
      /\ active \in BOOLEAN /\ stateSw \in BOOLEAN /\ relay \in BOOLEAN
      /\ high \in BOOLEAN /\ present \in BOOLEAN /\ seen \in BOOLEAN /\ absent \in Nat
      /\ misses \in Nat /\ wraps \in Nat /\ passages \in Nat /\ pulses \in Nat
  BY DEF SensorTypeOK
<1>2. MillisSize \in Nat /\ MillisSize >= 25
  BY ClockFacts
<1>3. /\ Elapsed \in Nat /\ Elapsed <= 20 /\ (Elapsed <= 1 \/ Elapsed >= 10)
      /\ millis = curr + Elapsed \/ millis = curr + Elapsed - MillisSize
      /\ millis < MillisSize /\ curr < MillisSize /\ state < MillisSize /\ led < MillisSize
      /\ relay # high => Elapsed = 0
      /\ relay => led + 2 < MillisSize
      /\ relay /\ led <= curr => curr <= led + 22
      /\ relay /\ ~stateSw => state < led \/ state + 5 >= MillisSize
  BY RoundFacts
<1>4. PICK ld1 \in Nat, r1 \in BOOLEAN, st1 \in Nat, sw1 \in BOOLEAN :
        /\ ld1 = led' /\ r1 = relay' /\ st1 = state' /\ sw1 = stateSw'
        /\ DecideEffect(ld1, r1, st1, sw1)
  BY DecideFacts
<1>5. DecideEffect(ld1, r1, st1, sw1)
  BY <1>4
<1>6. pc = "decide" /\ Fresh
  BY DEF Decide, Fresh
<1>7. active /\ Elapsed <= 1 => IF present THEN seen ELSE absent <= Elapsed
  BY <1>3, <1>6 DEF ClockInv, Stretched
<1> DEFINE age(c, t) == IF c < t THEN c + MillisSize - t ELSE c - t
           soon(e, t) == IF present THEN ~seen ELSE absent > e + t
           new == active /\ ~stateSw
           hangs0 == relay /\ ~(led <= state /\ state <= curr)
           hangs1 == r1 /\ ~(ld1 <= st1 /\ st1 <= millis)
           holds0 == stateSw /\ curr < state /\ state + 5 < MillisSize
           holds1 == sw1 /\ millis < st1 /\ st1 + 5 < MillisSize
           pulse0 == \/ relay /\ ~high /\ curr > led + 2
                     \/ new /\ ~hangs0 /\ ((high \/ relay) \/ curr + 2 >= MillisSize)
                     \/ Elapsed > 1 /\ (new \/ (relay /\ millis < curr))
           pulse1 == r1 /\ ~high /\ millis > ld1 + 2
           next0 == \/ Elapsed > 1 /\ (IF present THEN ~seen ELSE absent # 0)
                    \/ stateSw /\ ~holds0 /\ soon(Elapsed, Least(age(curr, state), 6))
                    \/ (high \/ relay) /\ ~hangs0
                         /\ soon(Elapsed, Least(age(curr, led), IF relay THEN 6 ELSE 7))
           next1 == \/ sw1 /\ ~holds1 /\ soon(0, Least(age(millis, st1), 6))
                    \/ (high \/ r1) /\ ~hangs1
                         /\ soon(0, Least(age(millis, ld1), IF r1 THEN 6 ELSE 7))
           wrap0 == (millis + 5 >= MillisSize \/ millis < curr)
                      /\ ~(/\ ld1 + 2 >= MillisSize /\ ld1 <= curr
                           /\ ~relay /\ (stateSw => led <= state)
                           /\ Elapsed > 1 \/ (IF present THEN seen
                                              ELSE absent <= Elapsed + curr - ld1))
           wrap1 == millis + 5 >= MillisSize
                      /\ ~(/\ ld1 + 2 >= MillisSize /\ ld1 <= millis
                           /\ ~r1 /\ (sw1 => ld1 <= st1)
                           /\ (IF present THEN seen ELSE absent <= 0 + millis - ld1))
           before == One(pulse0) + One(next0) + One(hangs0) + One(holds0 /\ ~active) + One(wrap0)
           after == One(pulse1) + One(next1) + One(hangs1) + One(holds1) + One(wrap1)
<1>8. AtRisk = before
  <2>1. PulseAtRisk <=> pulse0
    BY <1>6 DEF PulseAtRisk, LedTime, NewlyActive, RelayHangs, Pulse, Stretched
  <2>2. NextAtRisk <=> next0
    <3>1. /\ SwitchHangs <=> holds0
          /\ RelayHangs <=> hangs0
          /\ EvBuff + 1 = 6 /\ EvBuff + (IF relay THEN 1 ELSE 2) = IF relay THEN 6 ELSE 7
      BY DEF SwitchHangs, RelayHangs, EvBuff
    <3> HIDE DEF hangs0, holds0
    <3> QED  BY <3>1 DEF NextAtRisk, Soon, Age, Pulse, Stretched
  <2>3. RelayHangs <=> hangs0
    BY DEF RelayHangs
  <2>4. (SwitchHangs /\ ~(active /\ Fresh)) <=> (holds0 /\ ~active)
    BY <1>6 DEF SwitchHangs, EvBuff
  <2>5. WrapAhead <=> wrap0
    <3>1. ld1 = IF NewlyActive THEN curr ELSE led
      BY <1>5 DEF NewlyActive, DecideEffect
    <3> QED  BY <3>1 DEF WrapAhead, Suppressed, EvBuff, LedTime, Stretched
  <2> HIDE DEF pulse0, next0, hangs0, holds0, wrap0
  <2> QED  BY <2>1, <2>2, <2>3, <2>4, <2>5 DEF AtRisk, One
<1>9. /\ curr' = millis /\ pc' = "first"
      /\ UNCHANGED <<lane, millis, active, present, seen, absent, high, pulses, wraps, misses,
                     passages, calibrated>>
  BY DEF Decide, traffic, switchVars
<1>10. ~NewlyActive' /\ Elapsed' = 0 /\ ~Fresh' /\ ~Stretched'
  <2>1. active => stateSw'
    BY DEF Decide
  <2> QED  BY <1>1, <1>9, <2>1 DEF NewlyActive, Elapsed, Fresh, Stretched
<1>11. AtRisk' = after
  <2>1. PulseAtRisk' <=> pulse1
    BY <1>4, <1>9, <1>10 DEF PulseAtRisk, LedTime
  <2>2. (RelayHangs' <=> hangs1) /\ (SwitchHangs' <=> holds1)
    BY <1>4, <1>9 DEF RelayHangs, SwitchHangs, EvBuff
  <2>3. NextAtRisk' <=> next1
    <3>1. /\ EvBuff + 1 = 6 /\ EvBuff + (IF r1 THEN 1 ELSE 2) = IF r1 THEN 6 ELSE 7
      BY DEF EvBuff
    <3>2. /\ Age(state)' = age(millis, st1) /\ Age(led)' = age(millis, ld1)
      BY <1>4, <1>9 DEF Age
    <3>3. NextAtRisk' <=> \/ sw1 /\ ~holds1 /\ soon(0, Least(Age(state)', EvBuff + 1))
                          \/ (high \/ r1) /\ ~hangs1
                               /\ soon(0, Least(Age(led)', EvBuff + (IF r1 THEN 1 ELSE 2)))
      <4> HIDE DEF holds1, hangs1
      <4> QED  BY <1>4, <1>9, <1>10, <2>2 DEF NextAtRisk, Soon, Pulse, Least
    <3> HIDE DEF soon, age, holds1, hangs1
    <3> QED  BY <3>1, <3>2, <3>3
  <2>4. WrapAhead' <=> wrap1
    <3>1. ~(millis < millis)
      BY <1>1
    <3>2. Suppressed' <=> /\ ld1 + LedTime >= MillisSize /\ ld1 <= millis
                          /\ ~r1 /\ (sw1 => ld1 <= st1)
                          /\ IF present THEN seen ELSE absent <= 0 + millis - ld1
      <4>1. PICK b \in Nat : b = (IF NewlyActive' THEN curr' ELSE led') /\ b = ld1
        BY <1>4, <1>10
      <4>2. Suppressed' <=> /\ b + LedTime >= MillisSize /\ b <= curr'
                            /\ ~relay' /\ (stateSw' => led' <= state')
                            /\ Stretched' \/ (IF present' THEN seen'
                                              ELSE absent' <= Elapsed' + curr' - b)
        BY <4>1 DEF Suppressed
      <4>3. present' = present /\ seen' = seen
            /\ (absent' <= Elapsed' + curr' - b <=> absent <= 0 + millis - ld1)
        BY <1>9, <1>10, <4>1
      <4>4. (b <= curr' <=> ld1 <= millis) /\ b + LedTime = ld1 + LedTime
        BY <1>9, <4>1
      <4>5. relay' = r1 /\ stateSw' = sw1 /\ (led' <= state' <=> ld1 <= st1) /\ ~Stretched'
        BY <1>4, <1>10
      <4> QED  BY <4>2, <4>3, <4>4, <4>5
    <3>3. WrapAhead' <=> millis + EvBuff >= MillisSize /\ ~Suppressed'
      BY <1>9, <3>1 DEF WrapAhead
    <3> QED  BY <3>2, <3>3 DEF EvBuff, LedTime
  <2>5. (SwitchHangs /\ ~(active /\ Fresh))' <=> holds1
    BY <1>10, <2>2
  <2> HIDE DEF pulse1, next1, hangs1, holds1, wrap1
  <2> QED  BY <2>1, <2>2, <2>3, <2>4, <2>5 DEF AtRisk, One
<1>12. One(high \/ relay) + One(new) - before <= One(high \/ r1) - after
  <2>1. CASE Elapsed > 1
    <3>1. next1 => next0
      BY <1>1, <1>2, <1>3, <1>5, <2>1 DEF Least, DecideEffect
    <3>2. CASE new
      BY <1>1, <1>2, <1>3, <1>5, <2>1, <3>1, <3>2, SMTT(60) DEF One, Least, DecideEffect
    <3>3. CASE ~new /\ millis = curr + Elapsed
      BY <1>1, <1>2, <1>3, <1>5, <2>1, <3>1, <3>3, SMTT(60) DEF One, Least, DecideEffect
    <3>4. CASE ~new /\ millis # curr + Elapsed
      BY <1>1, <1>2, <1>3, <1>5, <2>1, <3>1, <3>4, SMTT(60) DEF One, Least, DecideEffect
    <3> QED  BY <3>2, <3>3, <3>4
  <2>2. CASE Elapsed <= 1 /\ new
    BY <1>1, <1>2, <1>3, <1>5, <1>7, <2>2, SMTT(120) DEF One, Least, DecideEffect
  <2>3. CASE Elapsed <= 1 /\ ~new
    BY <1>1, <1>2, <1>3, <1>5, <1>7, <2>3, SMTT(120) DEF One, Least, DecideEffect
  <2> HIDE DEF before, after, new
  <2> QED  BY <1>3, <2>1, <2>2, <2>3
<1>13. before \in Int /\ after \in Int
  BY DEF One
<1> HIDE DEF before, after
<1>14. Measured + before <= pulses + One(high \/ relay) + One(new) + Wraps + 2 * misses
  BY <1>8 DEF LossInv, Pulse, NewlyActive
<1>15. /\ One(high \/ relay) \in Int /\ One(new) \in Int /\ One(high \/ r1) \in Int
       /\ Measured \in Int /\ Wraps \in Int
  BY <1>1, <1>2 DEF One, Measured, Wraps
<1> HIDE DEF new
<1>16. Measured + after <= pulses + One(high \/ r1) + 0 + Wraps + 2 * misses
  BY <1>1, <1>12, <1>13, <1>14, <1>15
<1>17. Measured' = Measured /\ Wraps' = Wraps /\ One(Pulse)' = One(high \/ r1)
       /\ One(NewlyActive)' = 0
  BY <1>4, <1>9, <1>10 DEF Measured, Wraps, Pulse, One
<1> QED  BY <1>9, <1>11, <1>16, <1>17 DEF LossInv

\* What a measurement puts at risk is paid for by a missing echo or by the wrap ahead.
LEMMA LossMeasure ==
    ASSUME SensorTypeOK, LowKnown, WellPlaced, LongClock, ClockInv, LossInv, calibrated,
           Next, ~(CarComes \/ CarGoes \/ Decide)
    PROVE  LossInv'
<1>1. /\ millis \in Nat /\ curr \in Nat /\ state \in Nat /\ led \in Nat
      /\ active \in BOOLEAN /\ stateSw \in BOOLEAN /\ relay \in BOOLEAN
      /\ high \in BOOLEAN /\ present \in BOOLEAN /\ seen \in BOOLEAN /\ absent \in Nat
      /\ misses \in Nat /\ wraps \in Nat /\ passages \in Nat /\ pulses \in Nat
  BY DEF SensorTypeOK
<1>2. MillisSize \in Nat /\ MillisSize >= 25
  BY ClockFacts
<1>3. /\ Elapsed \in Nat /\ Elapsed <= 20 /\ (Elapsed <= 1 \/ Elapsed >= 10)
      /\ millis = curr + Elapsed \/ millis = curr + Elapsed - MillisSize
      /\ millis < MillisSize /\ curr < MillisSize /\ state < MillisSize /\ led < MillisSize
      /\ relay # high => Elapsed = 0
      /\ relay => led + 2 < MillisSize
      /\ relay /\ led <= curr => curr <= led + 22
      /\ relay /\ ~stateSw => state < led \/ state + 5 >= MillisSize
  BY RoundFacts
<1>4. PICK d \in {0, 1, EchoTimeout} :
        /\ UNCHANGED <<lane, curr, state, stateSw, led, relay, present, passages, calibrated>>
        /\ Elapsed' = Elapsed + d
        /\ \E own \in BOOLEAN, one \in BOOLEAN :
             /\ (lane = "Black" /\ pc # "second") <=> (~own /\ one)
             /\ (lane = "Black" /\ pc = "second") <=> (own /\ ~one)
             /\ Fresh <=> (~own /\ ~one)
             /\ (lane' = "Black" /\ pc' # "second") <=> (own /\ ~one)
             /\ (lane' = "Black" /\ pc' = "second") <=> (~own /\ one)
             /\ Fresh' <=> (own \/ ~one)
             /\ MeasureEffect(d, millis', wraps', misses', pulses', unseen', absent', high',
                              active', seen', own, one)
  BY CalibratedMeasure
<1>5. PICK own \in BOOLEAN, one \in BOOLEAN :
        /\ (lane = "Black" /\ pc # "second") <=> (~own /\ one)
        /\ (lane = "Black" /\ pc = "second") <=> (own /\ ~one)
        /\ Fresh <=> (~own /\ ~one)
        /\ (lane' = "Black" /\ pc' # "second") <=> (own /\ ~one)
        /\ (lane' = "Black" /\ pc' = "second") <=> (~own /\ one)
        /\ Fresh' <=> (own \/ ~one)
        /\ MeasureEffect(d, millis', wraps', misses', pulses', unseen', absent', high',
                         active', seen', own, one)
  BY <1>4
<1>6. SensorTypeOK'
  BY SensorTypeStep
<1>7. PICK m1 \in Nat, w1 \in Nat, x1 \in Nat, p1 \in Nat, u1 \in Nat, b1 \in Nat,
           h1 \in BOOLEAN, a1 \in BOOLEAN, s1 \in BOOLEAN :
        /\ m1 = millis' /\ w1 = wraps' /\ x1 = misses' /\ p1 = pulses' /\ u1 = unseen'
        /\ b1 = absent' /\ h1 = high' /\ a1 = active' /\ s1 = seen'
  BY <1>6 DEF SensorTypeOK
<1>8. MeasureEffect(d, m1, w1, x1, p1, u1, b1, h1, a1, s1, own, one)
  BY <1>5, <1>7
<1> DEFINE age(t) == IF curr < t THEN curr + MillisSize - t ELSE curr - t
           soon(car, gap, t) == IF present THEN ~car ELSE gap > t
           new(a) == a /\ ~stateSw
           hangs == relay /\ ~(led <= state /\ state <= curr)
           holds == stateSw /\ curr < state /\ state + 5 < MillisSize
           pulse(e, m, h, a, second) ==
               \/ relay /\ ~h /\ curr > led + 2
               \/ new(a) /\ ~hangs /\ ((h \/ relay) \/ curr + 2 >= MillisSize)
               \/ e > 1 /\ (new(a) \/ second \/ (relay /\ m < curr))
           next(e, h, car, gap) ==
               \/ e > 1 /\ (IF present THEN ~car ELSE gap # 0)
               \/ stateSw /\ ~holds /\ soon(car, gap, e + Least(age(state), 6))
               \/ (h \/ relay) /\ ~hangs
                    /\ soon(car, gap, e + Least(age(led), IF relay THEN 6 ELSE 7))
           start(a) == IF new(a) THEN curr ELSE led
           wrap(e, m, a, car, gap) ==
               /\ m + 5 >= MillisSize \/ m < curr
               /\ ~(/\ start(a) + 2 >= MillisSize /\ start(a) <= curr
                    /\ ~relay /\ (stateSw => led <= state)
                    /\ e > 1 \/ (IF present THEN car ELSE gap <= e + curr - start(a)))
           before == One(pulse(Elapsed, millis, high, active, own /\ ~one))
                       + One(next(Elapsed, high, seen, absent)) + One(hangs)
                       + One(holds /\ ~(active /\ ~own /\ ~one))
                       + One(wrap(Elapsed, millis, active, seen, absent))
           after == One(pulse(Elapsed + d, m1, h1, a1, ~own /\ one))
                       + One(next(Elapsed + d, h1, s1, b1)) + One(hangs)
                       + One(holds /\ ~(a1 /\ (own \/ ~one)))
                       + One(wrap(Elapsed + d, m1, a1, s1, b1))
           turn(w, m) == w + IF m + 5 >= MillisSize THEN 1 ELSE 0
<1>9. AtRisk = before
  <2>1. PulseAtRisk <=> pulse(Elapsed, millis, high, active, own /\ ~one)
    BY <1>5 DEF PulseAtRisk, LedTime, NewlyActive, RelayHangs, Pulse, Stretched
  <2>2. NextAtRisk <=> next(Elapsed, high, seen, absent)
    <3>1. /\ SwitchHangs <=> holds
          /\ RelayHangs <=> hangs
          /\ EvBuff + 1 = 6 /\ EvBuff + (IF relay THEN 1 ELSE 2) = IF relay THEN 6 ELSE 7
      BY DEF SwitchHangs, RelayHangs, EvBuff
    <3> HIDE DEF hangs, holds
    <3> QED  BY <3>1 DEF NextAtRisk, Soon, Age, Pulse, Stretched
  <2>3. RelayHangs <=> hangs
    BY DEF RelayHangs
  <2>4. (SwitchHangs /\ ~(active /\ Fresh)) <=> (holds /\ ~(active /\ ~own /\ ~one))
    BY <1>5 DEF SwitchHangs, EvBuff
  <2>5. WrapAhead <=> wrap(Elapsed, millis, active, seen, absent)
    BY DEF WrapAhead, Suppressed, EvBuff, LedTime, Stretched, NewlyActive
  <2> HIDE DEF pulse, next, hangs, holds, wrap
  <2> QED  BY <2>1, <2>2, <2>3, <2>4, <2>5 DEF AtRisk, One
<1>10. AtRisk' = after
  <2>1. PulseAtRisk' <=> pulse(Elapsed + d, m1, h1, a1, ~own /\ one)
    BY <1>4, <1>5, <1>7 DEF PulseAtRisk, LedTime, NewlyActive, RelayHangs, Pulse, Stretched
  <2>2. (RelayHangs' <=> hangs) /\ (SwitchHangs' <=> holds)
    BY <1>4 DEF RelayHangs, SwitchHangs, EvBuff
  <2>3. NextAtRisk' <=> next(Elapsed + d, h1, s1, b1)
    <3>1. EvBuff + 1 = 6 /\ EvBuff + (IF relay THEN 1 ELSE 2) = IF relay THEN 6 ELSE 7
      BY DEF EvBuff
    <3>2. Age(state)' = age(state) /\ Age(led)' = age(led)
      BY <1>4 DEF Age
    <3>3. NextAtRisk' <=>
            \/ Elapsed + d > 1 /\ (IF present THEN ~s1 ELSE b1 # 0)
            \/ stateSw /\ ~holds /\ soon(s1, b1, Elapsed + d + Least(Age(state)', EvBuff + 1))
            \/ (h1 \/ relay) /\ ~hangs
                 /\ soon(s1, b1, Elapsed + d + Least(Age(led)', EvBuff + (IF relay THEN 1 ELSE 2)))
      <4> HIDE DEF holds, hangs
      <4> QED  BY <1>4, <1>7, <2>2 DEF NextAtRisk, Soon, Pulse, Least, Stretched
    <3> HIDE DEF soon, age, holds, hangs
    <3> QED  BY <3>1, <3>2, <3>3
  <2>4. WrapAhead' <=> wrap(Elapsed + d, m1, a1, s1, b1)
    <3>1. PICK b \in Nat : b = (IF NewlyActive' THEN curr' ELSE led') /\ b = start(a1)
      BY <1>1, <1>4, <1>7 DEF NewlyActive
    <3>2. Suppressed' <=> /\ b + LedTime >= MillisSize /\ b <= curr'
                          /\ ~relay' /\ (stateSw' => led' <= state')
                          /\ Stretched' \/ (IF present' THEN seen'
                                            ELSE absent' <= Elapsed' + curr' - b)
      BY <3>1 DEF Suppressed
    <3> HIDE DEF start
    <3>3. Suppressed' <=> /\ start(a1) + 2 >= MillisSize /\ start(a1) <= curr
                          /\ ~relay /\ (stateSw => led <= state)
                          /\ Elapsed + d > 1 \/ (IF present THEN s1
                                                 ELSE b1 <= Elapsed + d + curr - start(a1))
      BY <1>4, <1>7, <3>1, <3>2 DEF Stretched, LedTime
    <3>4. WrapAhead' <=> (m1 + 5 >= MillisSize \/ m1 < curr) /\ ~Suppressed'
      BY <1>4, <1>7 DEF WrapAhead, EvBuff
    <3> QED  BY <3>3, <3>4
  <2>5. (SwitchHangs /\ ~(active /\ Fresh))' <=> (holds /\ ~(a1 /\ (own \/ ~one)))
    BY <1>5, <1>7, <2>2
  <2> HIDE DEF pulse, next, hangs, holds, wrap
  <2> QED  BY <2>1, <2>2, <2>3, <2>4, <2>5 DEF AtRisk, One
<1>11. before \in Int /\ after \in Int
  BY DEF One
<1>12. pulses + One(high \/ relay) + One(new(active)) + turn(wraps, millis) + 2 * misses - before
         + One(present /\ ~seen)
       <= p1 + One(h1 \/ relay) + One(new(a1)) + turn(w1, m1) + 2 * x1 - after
            + One(present /\ ~s1)
  BY <1>1, <1>2, <1>3, <1>8, SMTT(200) DEF One, Least, MeasureEffect
<1> HIDE DEF before, after, new, turn
<1>13. Measured = passages - One(present /\ ~seen) /\ Measured' = passages - One(present /\ ~s1)
  BY <1>4, <1>7 DEF Measured, One
<1>14. Wraps = turn(wraps, millis) /\ Wraps' = turn(w1, m1)
  BY <1>4, <1>7 DEF Wraps, EvBuff, turn
<1>15. passages - One(present /\ ~seen) + before
         <= pulses + One(high \/ relay) + One(new(active)) + turn(wraps, millis) + 2 * misses
  BY <1>9, <1>13, <1>14 DEF LossInv, Pulse, NewlyActive, new
<1>16. /\ One(high \/ relay) \in Int /\ One(h1 \/ relay) \in Int
       /\ One(new(active)) \in Int /\ One(new(a1)) \in Int
       /\ One(present /\ ~seen) \in Int /\ One(present /\ ~s1) \in Int
       /\ turn(wraps, millis) \in Int /\ turn(w1, m1) \in Int
  BY <1>1, <1>2, <1>8 DEF One, turn, MeasureEffect
<1>17. passages - One(present /\ ~s1) + after
         <= p1 + One(h1 \/ relay) + One(new(a1)) + turn(w1, m1) + 2 * x1
  BY <1>1, <1>8, <1>11, <1>12, <1>15, <1>16 DEF MeasureEffect
<1>18. One(Pulse)' = One(h1 \/ relay) /\ One(NewlyActive)' = One(new(a1))
  BY <1>4, <1>7 DEF Pulse, NewlyActive, new, One
<1> QED  BY <1>7, <1>10, <1>13, <1>14, <1>17, <1>18 DEF LossInv

\* What upsets cost is inductive.
LEMMA UpsetsStep ==
    ASSUME SensorTypeOK, LowKnown, WellPlaced, LongClock, ClockInv, SurplusInv, LossInv,
           [Next]_sensorVars
    PROVE  ClockInv' /\ SurplusInv' /\ LossInv'
<1>1. ClockInv'
  BY ClockStep
<1>2. calibrated' = calibrated
  BY DEF Next, CarComes, CarGoes, Measure, MeasureFreeTrack, MeasureCar, MeasureBeside, MissEcho,
         MeasureOther, Decide, sensorVars
<1>3. CASE ~calibrated
  BY <1>1, <1>2, <1>3 DEF SurplusInv, LossInv
<1>4. CASE calibrated /\ Next
  <2>1. CASE CarComes \/ CarGoes
    BY <1>1, <1>4, <2>1, SurplusTraffic, LossTraffic
  <2>2. CASE Decide
    BY <1>1, <1>4, <2>2, SurplusDecide, LossDecide
  <2>3. CASE ~(CarComes \/ CarGoes \/ Decide)
    BY <1>1, <1>4, <2>3, SurplusMeasure, LossMeasure
  <2> QED  BY <2>1, <2>2, <2>3
<1>5. CASE UNCHANGED sensorVars
  <2>1. SurplusInv'
    BY <1>5 DEF sensorVars, outputs, traffic, switchVars, SurplusInv, Pulse, Surplus, Measured,
                Ending, Late, NewlyActive, Kept, Stretched, Elapsed, Fresh, Age
  <2>2. LossInv'
    BY <1>5 DEF sensorVars, outputs, traffic, switchVars, LossInv, Pulse, Measured, AtRisk,
                PulseAtRisk, NextAtRisk, RelayHangs, SwitchHangs, WrapAhead, Suppressed, Soon,
                Wraps, NewlyActive, Stretched, Elapsed, Fresh, Age
  <2> QED  BY <1>1, <2>1, <2>2
<1> QED  BY <1>3, <1>4, <1>5

\* A lane that has just been set up has lost nothing.
LEMMA UpsetsInit ==
    ASSUME Init, WellPlaced, LongClock
    PROVE  ClockInv /\ SurplusInv /\ LossInv
<1>1. MillisSize \in Nat /\ MillisSize >= 25
  BY SensorInit, ClockFacts
<1>2. PICK first \in ClearReadings \cup CarReadings \cup {0} :
        /\ present = (first \in CarReadings) /\ seen = present
        /\ misses = IF first = 0 THEN 1 ELSE 0
        /\ calibrated = (first \in ClearReadings)
  BY DEF Init
<1>3. /\ pc = "first" /\ millis = 2 /\ curr = 2 /\ state = 2 /\ led = 2
      /\ ~active /\ ~stateSw /\ ~ledSw /\ ~relay /\ relay = ledSw
      /\ passages = 0 /\ wraps = 0 /\ ~high /\ pulses = 0
  BY DEF Init, SwitchInit
<1>4. misses \in Nat /\ present \in BOOLEAN /\ seen = present
  BY <1>2
<1>5. Elapsed = 0 /\ ~Stretched /\ ~Fresh /\ ~NewlyActive /\ ~Pulse
  BY <1>1, <1>3 DEF Elapsed, Stretched, Fresh, NewlyActive, Pulse
<1>6. ClockInv
  BY <1>1, <1>3, <1>5 DEF ClockInv
<1>7. Measured = 0
  <2>1. One(present /\ ~seen) = 0
    BY <1>4 DEF One
  <2> QED  BY <1>3, <2>1 DEF Measured
<1>8. calibrated => ~present
  BY <1>2 DEF WellPlaced
<1>9. SurplusInv
  <2> SUFFICES ASSUME calibrated
               PROVE  pulses + One(Pulse) + Surplus <= Measured + 2 * wraps + misses
    BY DEF SurplusInv
  <2>1. ~Ending
    BY <1>1, <1>3 DEF Ending, EvBuff
  <2>2. Surplus = 0
    BY <1>5, <1>8, <2>1 DEF Surplus, One
  <2>3. One(Pulse) = 0
    BY <1>5 DEF One
  <2> QED  BY <1>3, <1>4, <1>7, <2>2, <2>3
<1>10. LossInv
  <2>1. ~PulseAtRisk /\ ~NextAtRisk /\ ~RelayHangs /\ ~SwitchHangs
    BY <1>3, <1>5 DEF PulseAtRisk, NextAtRisk, RelayHangs, SwitchHangs
  <2>2. ~WrapAhead /\ Wraps = 0
    BY <1>1, <1>3 DEF WrapAhead, Wraps, EvBuff
  <2>3. AtRisk = 0
    BY <2>1, <2>2 DEF AtRisk, One
  <2>4. One(Pulse) = 0 /\ One(NewlyActive) = 0
    BY <1>5 DEF One
  <2> QED  BY <1>3, <1>4, <1>7, <2>2, <2>3, <2>4 DEF LossInv
<1> QED  BY <1>6, <1>9, <1>10

\* The inductive invariant of the lap sensor, calm, upset or blind.
THEOREM SensorInvariant ==
    ASSUME WellPlaced, OnlyNoise, LongClock
    PROVE  Spec => []SensorInv
<1>1. Init => SensorInv
  BY SensorInit, CalmInit, BlindInit, UpsetsInit DEF SensorInv
<1>2. SensorInv /\ [Next]_sensorVars => SensorInv'
  BY SensorTypeStep, LowKnownStep, CalmStep, BlindStep, UpsetsStep DEF SensorInv
<1> QED  BY <1>1, <1>2, PTL DEF Spec

\* However often millis() wraps, echoes are missing and levels of the pin stay unread, and
\* whenever that happens, a wrap costs one lap at most or counts a car twice too often, a
\* missing echo costs two or counts one, and a level that is not read costs one.
THEOREM UpsetsCostLittle ==
    ASSUME WellPlaced, LongClock
    PROVE  Spec => []UpsetsEnd
<1>1. Init => ClockInv /\ SurplusInv /\ LossInv
  BY UpsetsInit
<1>2. SensorTypeOK /\ LowKnown /\ ClockInv /\ SurplusInv /\ LossInv /\ [Next]_sensorVars
        => ClockInv' /\ SurplusInv' /\ LossInv'
  BY UpsetsStep
<1>3. SensorTypeOK /\ ClockInv /\ SurplusInv /\ LossInv /\ SwitchInv /\ OneLapPerPulse => UpsetsEnd
  <2> SUFFICES ASSUME SensorTypeOK, ClockInv, SurplusInv, LossInv, SwitchInv,
                      OneLapPerPulse, calibrated
               PROVE  /\ laps <= passages + 2 * Wraps + misses
                      /\ Settled => passages <= laps + unread + Wraps + 2 * misses
    BY DEF UpsetsEnd
  <2>1. /\ millis \in Nat /\ curr \in Nat /\ led \in Nat /\ laps \in Nat /\ pulses \in Nat
        /\ passages \in Nat /\ wraps \in Nat /\ misses \in Nat /\ absent \in Nat
        /\ present \in BOOLEAN /\ seen \in BOOLEAN /\ high \in BOOLEAN /\ relay \in BOOLEAN
        /\ active \in BOOLEAN /\ stateSw \in BOOLEAN
    BY DEF SensorTypeOK, SwitchInv
  <2>2. MillisSize \in Nat /\ MillisSize >= 25 /\ MinGap \in Nat /\ MinGap >= 8
    BY ClockFacts
  <2>3. laps <= pulses + One(Pulse) /\ (UpToDate => pulses <= laps + unread) /\ unread \in Nat
    BY <2>1 DEF OneLapPerPulse, SwitchInv, One, Pulse
  <2>4. /\ Measured \in Int /\ Measured <= passages /\ (~present => Measured = passages)
        /\ Wraps = wraps + One(millis + EvBuff >= MillisSize) /\ Wraps \in Nat
        /\ One(Pulse) \in 0..1 /\ One(NewlyActive) \in 0..1
    BY <2>1, <2>2 DEF Measured, Wraps, One
  <2>5. laps <= passages + 2 * Wraps + misses
    <3>1. PICK s \in Int : s = Surplus /\ s + 2 * (Wraps - wraps) >= 0
      <4>1. CASE Ending
        <5>1. One(~Late) \in 0..1
          BY DEF One
        <5>2. Surplus = 1 + One(~Late) - 2 * One(millis >= curr)
          BY <4>1 DEF Surplus
        <5>3. CASE millis >= curr
          <6>1. Wraps = wraps + 1
            BY <2>1, <2>2, <4>1, <5>3 DEF Wraps, Ending, EvBuff
          <6>2. Surplus = 1 + One(~Late) - 2
            BY <5>2, <5>3 DEF One
          <6> QED  BY <2>1, <5>1, <6>1, <6>2
        <5>4. CASE ~(millis >= curr)
          <6>1. Surplus = 1 + One(~Late) - 0
            BY <5>2, <5>4 DEF One
          <6>2. Wraps - wraps \in Nat
            BY <2>1, <2>4 DEF One
          <6> QED  BY <2>1, <5>1, <6>1, <6>2
        <5> QED  BY <5>3, <5>4
      <4>2. CASE ~Ending
        <5>1. Surplus \in Nat
          BY <4>2 DEF Surplus, One
        <5>2. Wraps - wraps \in Nat
          BY <2>1, <2>4 DEF One
        <5> QED  BY <5>1, <5>2
      <4> QED  BY <4>1, <4>2
    <3>2. pulses + One(Pulse) + s <= Measured + 2 * wraps + misses
      BY <3>1 DEF SurplusInv
    <3> QED  BY <2>1, <2>3, <2>4, <3>1, <3>2
  <2>6. ASSUME Settled PROVE passages <= laps + unread + Wraps + 2 * misses
    <3>1. Measured + AtRisk <= pulses + One(Pulse) + One(NewlyActive) + Wraps + 2 * misses
      BY DEF LossInv
    <3>2. ~present /\ absent >= 8 /\ pulses <= laps + unread
      BY <2>1, <2>2, <2>3, <2>6 DEF Settled
    <3>3. AtRisk \in Nat /\ (NextAtRisk \/ RelayHangs => AtRisk >= 1)
      BY DEF AtRisk, One
    <3>4. One(Pulse) + One(NewlyActive) <= AtRisk
      <4>1. CASE ~(active \/ relay \/ high)
        BY <3>3, <4>1 DEF One, Pulse, NewlyActive
      <4>2. CASE misses = 0
        <5>1. ~Stretched /\ Elapsed \in Nat /\ Elapsed <= 1 /\ (relay # high => Elapsed = 0)
              /\ curr < MillisSize /\ led < MillisSize
          BY <4>2, RoundFacts DEF ClockInv, Stretched
        <5>2. ~NewlyActive
          <6>1. active /\ Fresh => absent <= Elapsed
            BY <3>2, <5>1 DEF ClockInv
          <6>2. ~(active /\ Fresh)
            BY <2>1, <3>2, <5>1, <6>1
          <6> QED  BY <6>2 DEF NewlyActive, ClockInv
        <5>3. Pulse => NextAtRisk \/ RelayHangs
          <6> SUFFICES ASSUME Pulse
                       PROVE  Soon(Least(Age(led), EvBuff + (IF relay THEN 1 ELSE 2)))
            BY DEF NextAtRisk
          <6>1. Age(led) \in Nat
            BY <2>1, <2>2, <5>1 DEF Age
          <6>2. PICK t \in Nat : t = Least(Age(led), EvBuff + (IF relay THEN 1 ELSE 2))
                                 /\ t <= IF relay THEN 6 ELSE 7
            BY <6>1 DEF Least, EvBuff
          <6>3. ~relay => Elapsed = 0
            BY <2>1, <5>1 DEF Pulse
          <6>4. absent > Elapsed + t
            BY <2>1, <3>2, <5>1, <6>2, <6>3
          <6> QED  BY <3>2, <6>2, <6>4 DEF Soon
        <5> QED  BY <3>3, <5>2, <5>3 DEF One
      <4> QED  BY <2>6, <4>1, <4>2 DEF Settled
    <3>5. PICK a \in Nat : a = AtRisk
      BY <3>3
    <3> QED  BY <2>1, <2>3, <2>4, <3>1, <3>2, <3>4, <3>5
  <2> QED  BY <2>5, <2>6
<1> QED  BY <1>1, <1>2, <1>3, SensorDrivesSwitch, SwitchInvariant, SensorTyped, PTL DEF Spec

=============================================================================
