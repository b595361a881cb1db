----------------------------- MODULE MCLapSensor -----------------------------
(***************************************************************************)
(* LapSensor for TLC: states that differ in dead values only are one.      *)
(***************************************************************************)
EXTENDS LapSensor

\* A limit is only compared with distances.
Below == {mm \in ClearReadings \cup CarReadings \cup {0} : mm < low}

\* loop() reads the time of a state or of a LED only while it is on, and the invariants
\* that of the last pulse until the device has seen its end, or just before millis() wraps;
\* what the track remembers of a car is used only while it is there, and a switch computes
\* anew whether it has changed.
Live ==
    <<lane, pc, millis, curr, Below, active, calibrated, passages, wraps, misses,
      switch.raw, switch.value, switch.state, high, pulses, laps, unread,
      stateSw, IF stateSw \/ relay THEN state ELSE 0,
      ledSw, IF Pulse \/ curr + LedTime >= MillisSize THEN led ELSE 0, relay,
      present, IF present THEN <<seen, unseen>> ELSE <<absent>> >>

=============================================================================
