----------------------------- MODULE AnalogState -----------------------------
(***************************************************************************)
(* A pin of the track device read as a switch (class AnalogState), set up  *)
(* the way setup() in main.cpp does: OnTheRun up to 1000, Lap above.       *)
(***************************************************************************)
EXTENDS Integers

Readings == 0..4095
OnTheRun == 0
Lap == 1
Unknown == -1

\* map(raw, 0, 4096, 0, 4095) in whole numbers: 0 and 1 become the same value.
Mapped(raw) == (raw * 4095) \div 4096

\* findStateIndex, with the states setup() has set: -1 before the first reading.
StateOf(raw) ==
    CASE raw \in 1001..4095 -> Lap
      [] raw \in 0..1000    -> OnTheRun
      [] OTHER              -> Unknown

\* What the object remembers.
NewSwitch == [raw |-> -1, value |-> -1, state |-> Unknown, changed |-> FALSE]

WrongReadAlwaysChanged(s, raw) ==
    CASE s.value = Mapped(raw) -> [s EXCEPT !.changed = FALSE]
      [] OTHER -> [raw |-> raw, value |-> Mapped(raw), state |-> StateOf(s.raw),
                   changed |-> TRUE]

\* readRawValue.  When the value has changed, the state becomes that of the
\* PREVIOUS reading, and a reading that does not change the value is not
\* remembered.  Before the first reading there is no previous state, and the
\* switch says it has changed to an unknown one.
Read(s, raw) ==
    CASE s.value = Mapped(raw) -> [s EXCEPT !.changed = FALSE]
      [] OTHER -> [raw |-> raw, value |-> Mapped(raw), state |-> StateOf(s.raw),
                   changed |-> s.state # StateOf(s.raw) \/ StateOf(s.raw) = Unknown]

\* handleSwitches: hasChanged && state == 1
LapSeen(s) == s.changed /\ s.state = Lap

=============================================================================
