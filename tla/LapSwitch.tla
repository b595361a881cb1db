------------------------------ MODULE LapSwitch ------------------------------
(***************************************************************************)
(* One pin sampled by loop(), and the pulses of the lap sensor on it.  The *)
(* readings are noisy: while a car is under the sensor, and while it is    *)
(* not, they vary within their range.  Without WiFi, loop() reads no pin.  *)
(***************************************************************************)
EXTENDS AnalogState

CONSTANTS
    Raws,       \* the readings analogRead may return
    MaxPulses   \* bound: no pulse begins after this many

ASSUME SwitchAssumption == Raws \subseteq Readings /\ MaxPulses \in Nat

VARIABLES
    switch,     \* redCarLap or blackCarLap
    high,       \* the pin is in the range of Lap
    pulses,     \* history: how often the pin went high and low again
    laps,       \* history: how often handleSwitches saw a lap
    unread      \* history: how often the pin left a level that was never read

switchVars == <<switch, high, pulses, laps, unread>>

IsHigh(raw) == raw > 1000

\* The last reading was in the range of Lap, and agrees with the pin.
ReadHigh == IsHigh(switch.raw)
UpToDate == ReadHigh = high

SwitchInit ==
    /\ switch = NewSwitch
    /\ high = FALSE
    /\ pulses = 0
    /\ laps = 0
    /\ unread = 0

\* What is on the pin.
Pin(level) ==
    /\ pulses < MaxPulses \/ ~level
    /\ high' = level
    /\ pulses' = IF high /\ ~level THEN pulses + 1 ELSE pulses
    /\ unread' = IF level # high /\ ~UpToDate THEN unread + 1 ELSE unread

\* readState from handleSwitches
Sample(raw) ==
    /\ Pin(IsHigh(raw))
    /\ switch' = Read(switch, raw)
    /\ laps' = IF LapSeen(switch') THEN laps + 1 ELSE laps

\* loop() without WiFi waits and does not get to handleSwitches.
Skip(level) == Pin(level) /\ UNCHANGED <<switch, laps>>

SwitchNext == \/ \E raw \in Raws : Sample(raw)
              \/ \E level \in BOOLEAN : Skip(level)

SwitchSpec == SwitchInit /\ [][SwitchNext]_switchVars

-----------------------------------------------------------------------------
\* Every pulse is one lap, however the readings vary within it, although the
\* switch lags one change behind the pin: a lap is counted at the latest when
\* the end of the pulse is read, and never twice.  Only a pulse, or a pause, that
\* is over before it is read costs a lap, and one at most.
OneLapPerPulse ==
    /\ laps <= pulses + (IF high THEN 1 ELSE 0)
    /\ UpToDate => pulses <= laps + unread

=============================================================================
