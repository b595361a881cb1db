----------------------------- MODULE TrackDevice -----------------------------
(***************************************************************************)
(* The track device: loop() reads the two lap switches, adds 1000 km to a  *)
(* car per lap and posts its mileage to the queue, and every 200 ms reads  *)
(* the hack button.  It is composed of two switches (AnalogState), the     *)
(* queue with its task (SendQueue), whose steps interleave with those of   *)
(* loop(), and the cars (class Car).                                       *)
(***************************************************************************)
EXTENDS SendQueue, AnalogState

CONSTANTS
    IncMileage,     \* INC_MILEAGE
    FirstMileages,  \* what a car may start with: random, or from the vault
    Raws,           \* the readings of the switches
    MaxHacks        \* bound: how often the hack button changes

ASSUME DeviceAssumption ==
    /\ IncMileage \in Nat \ {0}
    /\ FirstMileages \subseteq Nat
    /\ Raws \subseteq Readings
    /\ MaxHacks \in Nat

VARIABLES
    mileage,        \* mileage[c]: what the object of car c holds
    switch,         \* switch[c]: redCarLap, blackCarLap
    hackit,         \* the hack button as last seen
    loop,           \* where loop() is: at a car's switch, or at the hack button
    reports,        \* history: the messages posted, in order
    hacks, boots    \* history: changes of the hack button, starts of the device

carVars == <<mileage, switch, hackit, loop>>
deviceVars == <<queueVars, carVars, reports, hacks, boots>>

Cars == {"Red", "Black"}
LoopPcs == {"Red", "Black", "hack"}

\* A message, as far as the ledger looks at it; hacked and boot are history.
Report == [car: Cars, mileage: Nat, hacked: BOOLEAN, boot: Nat]

Init ==
    /\ QueueInit
    /\ mileage \in [Cars -> FirstMileages]
    /\ switch = [c \in Cars |-> NewSwitch]
    /\ hackit = FALSE
    /\ loop = "Red"
    /\ reports = <<>>
    /\ hacks = 0
    /\ boots = 1

-----------------------------------------------------------------------------
\* The rest of loop() waits until sendMqttMessage has returned.
LoopAt(pc) == loop = pc /\ post.pc = "idle"

AfterCar(c) == IF c = "Red" THEN "Black" ELSE "hack"

\* Without WiFi the switches are not read, and laps pass unseen.
NoWifi ==
    /\ LoopAt("Red")
    /\ loop' = "hack"
    /\ UNCHANGED <<queueVars, mileage, switch, hackit, reports, hacks, boots>>

CurrentReport(c) == [car |-> c, mileage |-> mileage[c], hacked |-> hackit, boot |-> boots]

\* The lap of car c: addMileage, then sendMqttMessage up to the node of its push_back.
CountLap(c) ==
    /\ mileage' = [mileage EXCEPT ![c] = @ + IncMileage]
    /\ reports' = Append(reports, [CurrentReport(c) EXCEPT !.mileage = mileage'[c]])
    /\ \E n \in Nodes : NewNode(n)

\* handleSwitches, one car after the other.
HandleSwitch(c) ==
    /\ LoopAt(c)
    /\ loop' = AfterCar(c)
    /\ \E raw \in Raws :
          /\ switch' = [switch EXCEPT ![c] = Read(switch[c], raw)]
          /\ IF LapSeen(switch'[c]) THEN CountLap(c)
             ELSE UNCHANGED <<queueVars, mileage, reports>>
    /\ UNCHANGED <<hackit, hacks, boots>>

WrongHackedLosesRest(m, on) == IF on THEN m \div 2 ELSE m * 2

\* Car::hack, in whole numbers
Hacked(m, on) == IF on THEN m \div 2 ELSE m * 2 + 1

WrongCheckHackBlackOnly(on) ==
    /\ LoopAt("hack")
    /\ hackit # on /\ hacks < MaxHacks
    /\ hackit' = on
    /\ mileage' = [mileage EXCEPT !["Black"] = Hacked(@, on)]
    /\ hacks' = hacks + 1
    /\ loop' = "Red"
    /\ UNCHANGED <<queueVars, switch, reports, boots>>

\* The button has changed since it was last read, 200 ms ago or more.
CheckHack(on) ==
    /\ LoopAt("hack")
    /\ hackit # on /\ hacks < MaxHacks
    /\ hackit' = on
    /\ mileage' = [c \in Cars |-> Hacked(mileage[c], on)]
    /\ hacks' = hacks + 1
    /\ loop' = "Red"
    /\ UNCHANGED <<queueVars, switch, reports, boots>>

\* It has not, or it is too early to look.
SkipHack ==
    /\ LoopAt("hack")
    /\ loop' = "Red"
    /\ UNCHANGED <<queueVars, mileage, switch, hackit, reports, hacks, boots>>

\* setup() after a restart: the mileage is that of the last event in the vault,
\* or a random one when the vault does not answer.
Setup ==
    /\ mileage' \in [Cars -> FirstMileages]
    /\ switch' = [c \in Cars |-> NewSwitch]
    /\ hackit' = FALSE
    /\ loop' = "Red"
    /\ boots' = boots + 1
    /\ UNCHANGED <<reports, hacks>>

Reboot == (Restart \/ \E t \in Tasks : Panic(t)) /\ Setup

QueueStep ==
    /\ PostStep \/ \E t \in Tasks : SendStep(t)
    /\ UNCHANGED <<carVars, reports, hacks, boots>>

Next ==
    \/ NoWifi
    \/ \E c \in Cars : HandleSwitch(c)
    \/ \E on \in BOOLEAN : CheckHack(on)
    \/ SkipHack
    \/ QueueStep
    \/ Reboot

Spec == Init /\ [][Next]_deviceVars

-----------------------------------------------------------------------------
CarsTypeOK ==
    /\ mileage \in [Cars -> Nat]
    /\ hackit \in BOOLEAN
    /\ loop \in LoopPcs
    /\ reports \in Seq(Report)
    /\ boots \in Nat
    /\ posted = Len(reports)

\* What a mileage is worth once the button is released.
Released(m, hacked) == IF hacked THEN 2 * m + 1 ELSE m
Worth(r) == Released(r.mileage, r.hacked)

\* Reports of one car since one start of the device.
Comparable(r, s) == r.car = s.car /\ r.boot = s.boot

\* No report of a car is worth more than its mileage now,
WorthKept ==
    \A i \in DOMAIN reports :
        /\ reports[i].boot <= boots
        /\ reports[i].boot = boots =>
              Worth(reports[i]) <= Worth(CurrentReport(reports[i].car))

\* and of two reports the later one is worth more.
WorthGrows ==
    \A i, j \in DOMAIN reports :
        i < j /\ Comparable(reports[i], reports[j]) => Worth(reports[i]) < Worth(reports[j])

\* The last report of a car before now.
IsLast(i) == \A j \in DOMAIN reports :
                 i < j => ~Comparable(reports[i], reports[j])

\* Pressing and releasing the button, from m to now, adds one at most.
Drifted(m, now, hacked) ==
    IF hacked THEN now = m \div 2 ELSE now = m \/ now = 2 * (m \div 2) + 1

HackDrifts ==
    \A i \in DOMAIN reports :
        reports[i].boot = boots /\ ~reports[i].hacked /\ IsLast(i) =>
            Drifted(reports[i].mileage, mileage[reports[i].car], hackit)

\* The inductive invariant of the cars.
DeviceInv == CarsTypeOK /\ WorthKept /\ WorthGrows /\ HackDrifts

OnlyHackedBack(r, s) ==
    Comparable(r, s) /\ s.mileage <= r.mileage => s.hacked /\ ~r.hacked

\* What the ledger takes for fraud, a mileage that has not grown, comes from the
\* hack button alone: of two messages of a car that leave the device, posted
\* since it started, the later one shows no higher mileage only if the button
\* was pressed for it and not for the earlier one.  This must hold for any two
\* messages, since those between them may be lost.
TurnBackNeedsHack ==
    \A i, j \in DOMAIN handed :
        i < j => OnlyHackedBack(reports[handed[i]], reports[handed[j]])

\* README.md:20-21: the button makes the next message show less, whatever else
\* was pressed and released since the last one, for a car that has gone more
\* than two laps' worth.
HackShows ==
    \A i, j \in DOMAIN reports :
        /\ i < j /\ Comparable(reports[i], reports[j])
        /\ \A k \in DOMAIN reports : i < k /\ k < j => ~Comparable(reports[i], reports[k])
        /\ reports[j].hacked /\ ~reports[i].hacked
        /\ reports[i].mileage > 2 * IncMileage
        => reports[j].mileage < reports[i].mileage

=============================================================================
