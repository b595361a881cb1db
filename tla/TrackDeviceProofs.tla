-------------------------- MODULE TrackDeviceProofs --------------------------
(***************************************************************************)
(* What a car reports is turned back by the hack button alone, and shows   *)
(* it, for every increment per lap, every first mileage, all readings of   *)
(* the switches and every order of laps, hacks and restarts.               *)
(***************************************************************************)
EXTENDS TrackDevice, SendQueueProofs

\* A report appended to the history leaves the others where they are.
LEMMA AppendReport ==
    ASSUME NEW s \in Seq(Report), NEW r \in Report
    PROVE  LET t == Append(s, r) IN
           /\ t \in Seq(Report)
           /\ Len(t) = Len(s) + 1
           /\ DOMAIN t = 1 .. Len(s) + 1
           /\ DOMAIN s = 1 .. Len(s)
           /\ \A i \in DOMAIN s : i \in DOMAIN t /\ t[i] = s[i] /\ i < Len(t)
           /\ t[Len(t)] = r
  OBVIOUS

\* Releasing the button undoes pressing it, but for a rest of one.
LEMMA HackKeepsWorth ==
    ASSUME NEW m \in Nat, NEW on \in BOOLEAN
    PROVE  /\ Hacked(m, on) \in Nat
           /\ Released(m, ~on) \in Nat
           /\ Released(m, ~on) <= Released(Hacked(m, on), on)
  BY DEF Hacked, Released

\* Another press and release adds nothing.
LEMMA HackDriftsOnce ==
    ASSUME NEW m \in Nat, NEW now \in Nat, NEW on \in BOOLEAN, Drifted(m, now, ~on)
    PROVE  Drifted(m, Hacked(now, on), on)
<1>1. CASE on
  <2>1. now = m \/ now = 2 * (m \div 2) + 1 BY <1>1 DEF Drifted
  <2>2. (2 * (m \div 2) + 1) \div 2 = m \div 2 OBVIOUS
  <2> QED BY <1>1, <2>1, <2>2 DEF Drifted, Hacked
<1>2. CASE ~on
  <2>1. now = m \div 2 BY <1>2 DEF Drifted
  <2>2. Hacked(now, on) = now * 2 + 1 BY <1>2 DEF Hacked
  <2>3. now * 2 + 1 = 2 * (m \div 2) + 1 BY <2>1
  <2> QED BY <1>2, <2>2, <2>3 DEF Drifted
<1> QED BY <1>1, <1>2

\* A lap is worth its increment at least.
LEMMA LapAddsWorth ==
    ASSUME NEW m \in Nat, NEW h \in BOOLEAN
    PROVE  /\ m + IncMileage \in Nat
           /\ Released(m, h) < Released(m + IncMileage, h)
  BY DeviceAssumption DEF Released

\* The halved mileage and one lap are less than a mileage above two laps' worth.
LEMMA HalvedIsLess ==
    ASSUME NEW m \in Nat, NEW now \in Nat, Drifted(m, now, TRUE), m > 2 * IncMileage
    PROVE  now + IncMileage < m
  BY DeviceAssumption DEF Drifted

\* Of two comparable reports the one of higher worth has the lower mileage only
\* if the button was pressed for it alone.
LEMMA WorthDecides ==
    ASSUME NEW r \in Report, NEW s \in Report, Worth(r) < Worth(s)
    PROVE  OnlyHackedBack(r, s)
<1> DEFINE m == r.mileage
           n == s.mileage
<1>1. m \in Nat /\ n \in Nat /\ r.hacked \in BOOLEAN /\ s.hacked \in BOOLEAN
  BY DEF Report
<1>2. Released(m, r.hacked) < Released(n, s.hacked) BY DEF Worth
<1> HIDE DEF m, n
<1>3. n <= m => s.hacked /\ ~r.hacked
  BY <1>1, <1>2 DEF Released
<1> QED BY <1>3 DEF OnlyHackedBack, m, n

\* HackShows and DeviceInv together are inductive.
FullInv == DeviceInv /\ HackShows

LEMMA InitDevice ==
    ASSUME Init
    PROVE  FullInv
<1>1. DOMAIN reports = {} /\ reports \in Seq(Report) /\ Len(reports) = 0
  BY DEF Init
<1>2. CarsTypeOK
  BY <1>1, DeviceAssumption DEF Init, QueueInit, CarsTypeOK, LoopPcs
<1> QED BY <1>1, <1>2 DEF FullInv, DeviceInv, WorthKept, WorthGrows, HackDrifts, HackShows

\* The steps of the queue and of loop() that touch no car.
LEMMA QuietDevice ==
    ASSUME FullInv, loop' \in LoopPcs, posted' = posted,
           UNCHANGED <<mileage, hackit, reports, boots>>
    PROVE  FullInv'
  BY DEF FullInv, DeviceInv, CarsTypeOK, WorthKept, WorthGrows, HackDrifts, HackShows,
         CurrentReport, IsLast

LEMMA HackDevice ==
    ASSUME FullInv, NEW on \in BOOLEAN, CheckHack(on)
    PROVE  FullInv'
<1> USE DEF FullInv, DeviceInv
<1>1. UNCHANGED <<reports, boots, posted>> /\ hackit = ~on /\ hackit' = on /\ loop' = "Red"
  BY DEF CheckHack, queueVars, history, CarsTypeOK
<1>2. \A c \in Cars : mileage[c] \in Nat /\ mileage'[c] = Hacked(mileage[c], on)
  BY DEF CheckHack, CarsTypeOK
<1>3. mileage' \in [Cars -> Nat]
  BY <1>2, HackKeepsWorth DEF CheckHack
<1>4. CarsTypeOK'
  BY <1>1, <1>3 DEF CarsTypeOK, LoopPcs
<1>5. \A i \in DOMAIN reports : reports[i] \in Report
  BY DEF CarsTypeOK
<1>6. WorthKept'
  <2> SUFFICES ASSUME NEW i \in DOMAIN reports
               PROVE  /\ reports[i].boot <= boots
                      /\ reports[i].boot = boots =>
                           Worth(reports[i]) <= Worth(CurrentReport(reports[i].car)')
    BY <1>1 DEF WorthKept, Worth
  <2> DEFINE c == reports[i].car
             m == mileage[c]
             w == Worth(reports[i])
  <2>1. c \in Cars BY <1>5 DEF Report
  <2>2. w \in Nat BY <1>5 DEF Report, Worth, Released
  <2>3. Worth(CurrentReport(c)) = Released(m, ~on) BY <1>1 DEF Worth, CurrentReport
  <2>4. Worth(CurrentReport(c)') = Released(Hacked(m, on), on)
    BY <1>1, <1>2, <2>1 DEF Worth, CurrentReport
  <2>5. m \in Nat /\ Hacked(m, on) \in Nat BY <1>2, <2>1, HackKeepsWorth
  <2>6. Released(m, ~on) \in Nat /\ Released(Hacked(m, on), on) \in Nat
    BY <2>5 DEF Released
  <2>7. Released(m, ~on) <= Released(Hacked(m, on), on) BY <2>5, HackKeepsWorth
  <2>8. reports[i].boot = boots => w <= Released(m, ~on) BY <2>3 DEF WorthKept
  <2> HIDE DEF c, m, w
  <2>9. reports[i].boot = boots => w <= Released(Hacked(m, on), on)
    BY <2>2, <2>6, <2>7, <2>8
  <2> QED BY <2>4, <2>9 DEF WorthKept, c, w
<1>7. WorthGrows' BY <1>1 DEF WorthGrows
<1>8. HackDrifts'
  <2> SUFFICES ASSUME NEW i \in DOMAIN reports, reports[i].boot = boots,
                      ~reports[i].hacked, IsLast(i)
               PROVE  Drifted(reports[i].mileage, mileage'[reports[i].car], on)
    BY <1>1 DEF HackDrifts, IsLast
  <2>1. reports[i].car \in Cars /\ reports[i].mileage \in Nat BY <1>5 DEF Report
  <2>2. Drifted(reports[i].mileage, mileage[reports[i].car], ~on)
    BY <1>1 DEF HackDrifts
  <2> QED BY <1>2, <2>1, <2>2, HackDriftsOnce
<1>9. HackShows' BY <1>1 DEF HackShows
<1> QED BY <1>4, <1>6, <1>7, <1>8, <1>9

LEMMA SetupDevice ==
    ASSUME FullInv, Setup, posted' = posted
    PROVE  FullInv'
<1> USE DEF FullInv, DeviceInv
<1>1. reports' = reports /\ boots' = boots + 1 /\ boots \in Nat
  BY DEF Setup, CarsTypeOK
<1>2. CarsTypeOK'
  <2>1. mileage' \in [Cars -> FirstMileages] BY DEF Setup
  <2>2. mileage' \in [Cars -> Nat] BY <2>1, DeviceAssumption
  <2>3. hackit' \in BOOLEAN /\ loop' \in LoopPcs BY DEF Setup, LoopPcs
  <2>4. reports' \in Seq(Report) /\ posted' = Len(reports') BY <1>1 DEF CarsTypeOK
  <2>5. boots' \in Nat BY <1>1
  <2> QED BY <2>2, <2>3, <2>4, <2>5 DEF CarsTypeOK
<1>3. \A i \in DOMAIN reports : reports[i].boot \in Nat /\ reports[i].boot <= boots
  <2>1. \A i \in DOMAIN reports : reports[i] \in Report BY DEF CarsTypeOK
  <2>2. \A i \in DOMAIN reports : reports[i].boot \in Nat BY <2>1 DEF Report
  <2>3. \A i \in DOMAIN reports : reports[i].boot <= boots BY DEF WorthKept
  <2> QED BY <2>2, <2>3
<1>4. \A i \in DOMAIN reports : reports[i].boot <= boots' /\ reports[i].boot # boots'
  <2> SUFFICES ASSUME NEW i \in DOMAIN reports, NEW b, b = reports[i].boot
               PROVE  b <= boots' /\ b # boots'
    OBVIOUS
  <2>1. b \in Nat /\ b <= boots BY <1>3
  <2> QED BY <1>1, <2>1
<1>5. WorthKept' /\ HackDrifts' BY <1>1, <1>4 DEF WorthKept, HackDrifts
<1>6. WorthGrows' /\ HackShows' BY <1>1 DEF WorthGrows, HackShows
<1> QED BY <1>2, <1>5, <1>6

\* A lap: the new report is worth more than every comparable one, and shows less
\* than the last one if the button was pressed in between.
LEMMA LapDevice ==
    ASSUME FullInv, NEW c \in Cars, CountLap(c), loop' \in LoopPcs,
           UNCHANGED <<hackit, boots>>
    PROVE  FullInv'
<1> USE DEF FullInv, DeviceInv
<1> DEFINE m == mileage[c]
           r == [CurrentReport(c) EXCEPT !.mileage = mileage'[c]]
           n == Len(reports)
<1>1. /\ m \in Nat /\ hackit \in BOOLEAN /\ boots \in Nat
      /\ reports \in Seq(Report) /\ n \in Nat /\ posted = n
  BY DEF CarsTypeOK
<1>2. mileage' = [mileage EXCEPT ![c] = m + IncMileage] /\ m + IncMileage \in Nat
  BY <1>1, LapAddsWorth DEF CountLap
<1>3. mileage'[c] = m + IncMileage /\ \A d \in Cars : d # c => mileage'[d] = mileage[d]
  BY <1>2 DEF CarsTypeOK
<1>4. r = [car |-> c, mileage |-> m + IncMileage, hacked |-> hackit, boot |-> boots]
  BY <1>3 DEF CurrentReport
<1>5. r \in Report BY <1>1, <1>2, <1>4 DEF Report
<1>6. reports' = Append(reports, r) /\ posted' = posted + 1
  BY DEF CountLap, NewNode
<1> HIDE DEF r
<1>7. /\ reports' \in Seq(Report)
      /\ Len(reports') = n + 1
      /\ DOMAIN reports' = 1 .. n + 1
      /\ DOMAIN reports = 1 .. n
      /\ \A i \in 1 .. n : reports'[i] = reports[i]
      /\ reports'[n + 1] = r
  BY <1>1, <1>5, <1>6, AppendReport
<1>8. CarsTypeOK'
  BY <1>1, <1>2, <1>6, <1>7 DEF CarsTypeOK
<1>9. \A i \in 1 .. n : reports[i] \in Report /\ Worth(reports[i]) \in Nat
  <2> SUFFICES ASSUME NEW i \in 1 .. n PROVE reports[i] \in Report /\ Worth(reports[i]) \in Nat
    OBVIOUS
  <2>1. reports[i] \in Report BY <1>1, <1>7
  <2> QED BY <2>1 DEF Report, Worth, Released
<1>10. Worth(r) = Released(m + IncMileage, hackit) /\ Worth(r) \in Nat
  BY <1>1, <1>2, <1>4 DEF Worth, Released
<1>11. \A i \in 1 .. n : Comparable(reports[i], r) => Worth(reports[i]) < Worth(r)
  <2> SUFFICES ASSUME NEW i \in 1 .. n, Comparable(reports[i], r)
               PROVE  Worth(reports[i]) < Worth(r)
    OBVIOUS
  <2> DEFINE w == Worth(reports[i])
  <2>1. reports[i].car = c /\ reports[i].boot = boots BY <1>4 DEF Comparable
  <2>2. w <= Released(m, hackit)
    BY <1>7, <2>1 DEF WorthKept, Worth, CurrentReport
  <2>3. Released(m, hackit) < Released(m + IncMileage, hackit) BY <1>1, LapAddsWorth
  <2>4. w \in Nat /\ Released(m, hackit) \in Nat BY <1>1, <1>9 DEF Released
  <2> HIDE DEF w
  <2>5. w < Released(m + IncMileage, hackit) BY <1>10, <2>2, <2>3, <2>4
  <2> QED BY <1>10, <2>5 DEF w
<1>12. WorthGrows'
  <2> SUFFICES ASSUME NEW i \in 1 .. n + 1, NEW j \in 1 .. n + 1, i < j,
                      Comparable(reports'[i], reports'[j])
               PROVE  Worth(reports'[i]) < Worth(reports'[j])
    BY <1>7 DEF WorthGrows, Worth, Comparable
  <2>1. i \in 1 .. n BY <1>1
  <2>2. CASE j = n + 1 BY <1>7, <1>11, <2>1, <2>2
  <2>3. CASE j # n + 1
    <3>1. j \in 1 .. n BY <1>1, <2>3
    <3> QED BY <1>7, <2>1, <3>1 DEF WorthGrows
  <2> QED BY <2>2, <2>3
<1>13. r \in Report /\ r.car = c /\ r.boot = boots /\ r.mileage = m + IncMileage /\ r.hacked = hackit
  BY <1>4, <1>5
<1>14. WorthKept'
  <2> DEFINE now(d) == Released(mileage[d], hackit)
             later(d) == Released(mileage'[d], hackit)
  <2>1. later(c) = Worth(r) BY <1>3, <1>10
  <2>2. \A d \in Cars : d # c => later(d) = now(d) BY <1>3
  <2>3. \A d : Worth(CurrentReport(d)) = now(d) BY DEF Worth, CurrentReport
  <2>4. \A d : Worth([car |-> d, mileage |-> mileage'[d], hacked |-> hackit', boot |-> boots'])
                  = later(d)
    BY DEF Worth
  <2>5. \A i \in 1 .. n : /\ reports[i].boot <= boots
                          /\ reports[i].boot = boots =>
                                Worth(reports[i]) <= now(reports[i].car)
    BY <1>7, <2>3 DEF WorthKept
  <2> HIDE DEF now, later
  <2>6. ASSUME NEW i \in 1 .. n + 1
        PROVE  /\ reports'[i].boot <= boots
               /\ reports'[i].boot = boots => Worth(reports'[i]) <= later(reports'[i].car)
    <3>1. CASE i = n + 1
      <4>1. reports'[i] = r BY <1>7, <3>1
      <4>2. \A w \in Nat : w <= w OBVIOUS
      <4>3. boots <= boots BY <1>1
      <4> QED BY <1>10, <1>13, <2>1, <4>1, <4>2, <4>3
    <3>2. CASE i # n + 1
      <4>1. i \in 1 .. n /\ reports'[i] = reports[i] BY <1>1, <1>7, <3>2
      <4>2. reports[i].car \in Cars BY <1>9, <4>1 DEF Report
      <4>3. CASE reports[i].boot = boots /\ reports[i].car = c
        <5>1. Comparable(reports[i], r) BY <1>13, <4>3 DEF Comparable
        <5>2. Worth(reports[i]) < Worth(r) BY <1>11, <4>1, <5>1
        <5>3. Worth(reports[i]) <= Worth(r) BY <1>9, <1>10, <4>1, <5>2
        <5> QED BY <2>1, <2>5, <4>1, <4>3, <5>3
      <4>4. CASE ~(reports[i].boot = boots /\ reports[i].car = c)
        BY <2>2, <2>5, <4>1, <4>2, <4>4
      <4> QED BY <4>3, <4>4
    <3> QED BY <3>1, <3>2
  <2> QED BY <1>7, <2>4, <2>6 DEF WorthKept, CurrentReport, Worth
<1>15. HackDrifts'
  <2> SUFFICES ASSUME NEW i \in 1 .. n + 1, reports'[i].boot = boots, ~reports'[i].hacked,
                      IsLast(i)'
               PROVE  Drifted(reports'[i].mileage, mileage'[reports'[i].car], hackit)
    BY <1>7 DEF HackDrifts
  <2>1. CASE i = n + 1
    <3>1. reports'[i].mileage = m + IncMileage /\ reports'[i].car = c /\ ~hackit
      BY <1>4, <1>7, <2>1
    <3> QED BY <1>3, <3>1 DEF Drifted
  <2>2. CASE i # n + 1
    <3>1. i \in 1 .. n /\ reports'[i] = reports[i] /\ i < n + 1 BY <1>1, <1>7, <2>2
    <3>2. ~Comparable(reports[i], r)
      BY <1>1, <1>7, <3>1 DEF IsLast, Comparable
    <3>3. reports[i].car # c BY <1>4, <3>1, <3>2 DEF Comparable
    <3>4. IsLast(i) BY <1>7, <3>1 DEF IsLast, Comparable
    <3>5. reports[i].car \in Cars BY <1>9, <3>1 DEF Report
    <3>6. Drifted(reports[i].mileage, mileage[reports[i].car], hackit)
      BY <1>7, <3>1, <3>4 DEF HackDrifts
    <3> QED BY <1>3, <3>1, <3>3, <3>5, <3>6
  <2> QED BY <2>1, <2>2
<1>16. HackShows'
  <2> SUFFICES ASSUME NEW i \in 1 .. n + 1, NEW j \in 1 .. n + 1, i < j,
                      Comparable(reports'[i], reports'[j]),
                      \A k \in 1 .. n + 1 :
                          i < k /\ k < j => ~Comparable(reports'[i], reports'[k]),
                      reports'[j].hacked, ~reports'[i].hacked,
                      reports'[i].mileage > 2 * IncMileage
               PROVE  reports'[j].mileage < reports'[i].mileage
    BY <1>7 DEF HackShows, Comparable
  <2>1. i \in 1 .. n /\ reports'[i] = reports[i] BY <1>1, <1>7
  <2>2. CASE j = n + 1
    <3> DEFINE a == reports[i].mileage
    <3>1. reports'[j] = r /\ r.hacked = hackit /\ r.mileage = m + IncMileage
      BY <1>4, <1>7, <2>2
    <3>2. reports[i].car = c /\ reports[i].boot = boots
      BY <1>4, <2>1, <3>1 DEF Comparable
    <3>3. \A k \in 1 .. n : i < k => ~Comparable(reports[i], reports[k])
      BY <1>1, <1>7, <2>1, <2>2
    <3>4. IsLast(i) BY <1>7, <3>3 DEF IsLast
    <3>5. Drifted(a, m, TRUE)
      BY <1>1, <1>7, <2>1, <3>1, <3>2, <3>4 DEF HackDrifts
    <3>6. a \in Nat BY <1>9, <2>1 DEF Report
    <3>7. a > 2 * IncMileage BY <2>1
    <3> HIDE DEF a
    <3>8. m + IncMileage < a BY <1>1, <3>5, <3>6, <3>7, HalvedIsLess
    <3> QED BY <2>1, <3>1, <3>8 DEF a
  <2>3. CASE j # n + 1
    <3>1. j \in 1 .. n /\ reports'[j] = reports[j] BY <1>1, <1>7, <2>3
    <3>2. \A k \in 1 .. n : i < k /\ k < j => ~Comparable(reports[i], reports[k])
      BY <1>1, <1>7, <2>1
    <3> QED BY <1>7, <2>1, <3>1, <3>2 DEF HackShows
  <2> QED BY <2>2, <2>3
<1> QED BY <1>8, <1>12, <1>14, <1>15, <1>16

LEMMA NextDevice ==
    ASSUME FullInv, [Next]_deviceVars
    PROVE  FullInv'
<1>1. loop \in LoopPcs BY DEF FullInv, DeviceInv, CarsTypeOK
<1>2. CASE NoWifi \/ SkipHack
  BY <1>2, QuietDevice DEF NoWifi, SkipHack, queueVars, history, LoopPcs
<1>3. ASSUME NEW c \in Cars, HandleSwitch(c) PROVE FullInv'
  <2>1. loop' \in LoopPcs BY <1>3 DEF HandleSwitch, AfterCar, LoopPcs
  <2>2. CountLap(c) \/ UNCHANGED <<queueVars, mileage, reports>>
    BY <1>3 DEF HandleSwitch
  <2>3. UNCHANGED <<hackit, boots>> BY <1>3 DEF HandleSwitch
  <2> QED BY <2>1, <2>2, <2>3, LapDevice, QuietDevice DEF queueVars, history
<1>4. ASSUME NEW on \in BOOLEAN, CheckHack(on) PROVE FullInv'
  BY <1>4, HackDevice
<1>5. CASE QueueStep
  <2>1. posted' = posted
    BY <1>5 DEF QueueStep, PostStep, LinkNext, LinkPrev, TestFlag, StartTask, SendStep,
                TestEmpty, Front, Pop, UnlinkNext, UnlinkPrev, Send, ClearFlag, history
  <2> QED BY <1>1, <1>5, <2>1, QuietDevice DEF QueueStep, carVars
<1>6. CASE Reboot
  BY <1>6, SetupDevice DEF Reboot, Restart, Panic, Reset
<1>7. CASE UNCHANGED deviceVars
  BY <1>1, <1>7, QuietDevice DEF deviceVars, carVars, queueVars, history
<1> QED BY <1>2, <1>3, <1>4, <1>5, <1>6, <1>7 DEF Next

\* The cars' part of the device keeps its invariant.
THEOREM DeviceInvariant == Spec => []DeviceInv
<1>1. Init => FullInv BY InitDevice
<1>2. FullInv /\ [Next]_deviceVars => FullInv' BY NextDevice
<1>3. FullInv => DeviceInv BY DEF FullInv
<1> QED BY <1>1, <1>2, <1>3, PTL DEF Spec

\* The first report of a car after the button was pressed shows less than the one
\* before, whatever else was pressed and released in between.
THEOREM HackIsShown == Spec => []HackShows
<1>1. Init => FullInv BY InitDevice
<1>2. FullInv /\ [Next]_deviceVars => FullInv' BY NextDevice
<1>3. FullInv => HackShows BY DEF FullInv
<1> QED BY <1>1, <1>2, <1>3, PTL DEF Spec

-----------------------------------------------------------------------------
(* What leaves the device.                                                  *)

\* The queue and its task run on the device as they do alone.
LEMMA DeviceRunsQueue ==
    ASSUME [Next]_deviceVars
    PROVE  [QueueNext]_queueVars
<1>1. CASE NoWifi \/ SkipHack BY <1>1 DEF NoWifi, SkipHack
<1>2. ASSUME NEW c \in Cars, HandleSwitch(c) PROVE [QueueNext]_queueVars
  BY <1>2 DEF HandleSwitch, CountLap, QueueNext
<1>3. ASSUME NEW on \in BOOLEAN, CheckHack(on) PROVE [QueueNext]_queueVars
  BY <1>3 DEF CheckHack
<1>4. CASE QueueStep BY <1>4 DEF QueueStep, QueueNext, TaskStep
<1>5. CASE Reboot BY <1>5 DEF Reboot, QueueNext, TaskStep
<1>6. CASE UNCHANGED deviceVars BY <1>6 DEF deviceVars
<1> QED BY <1>1, <1>2, <1>3, <1>4, <1>5, <1>6 DEF Next

THEOREM DeviceImplementsQueue == Spec => QueueSpec
<1>1. Init => QueueInit BY DEF Init
<1>2. [Next]_deviceVars => [QueueNext]_queueVars BY DeviceRunsQueue
<1> QED BY <1>1, <1>2, PTL DEF Spec, QueueSpec

\* The messages handed to the MQTT client were posted, and each one after the one
\* handed before it.
HandedInOrder ==
    /\ \A i \in DOMAIN handed : handed[i] \in 1 .. posted
    /\ \A i, j \in DOMAIN handed : i < j => handed[i] < handed[j]

LEMMA QueueHandsInOrder ==
    ASSUME OrderInv, HandedInOrder, [QueueNext]_queueVars
    PROVE  HandedInOrder'
<1>1. TypeOK BY DEF OrderInv, SenderInv
<1>2. posted \in Nat /\ handed \in Seq(Nat) BY <1>1 DEF TypeOK
<1>3. ASSUME NEW t \in Tasks, Send(t) PROVE HandedInOrder'
  <2> DEFINE m == task[t].msg
             k == Len(handed)
  <2>1. m \in Nat /\ LastHanded < m /\ m <= posted
    BY <1>1, <1>3, SendOrder, Memory
  <2>2. handed' = Append(handed, m) /\ posted' = posted BY <1>3 DEF Send
  <2> HIDE DEF m
  <2>3. /\ DOMAIN handed = 1 .. k /\ DOMAIN handed' = 1 .. k + 1 /\ k \in Nat
        /\ handed'[k + 1] = m /\ \A i \in 1 .. k : handed'[i] = handed[i]
    BY <1>2, <2>1, <2>2
  <2>4. ASSUME NEW i \in 1 .. k PROVE handed[i] < m
    <3>1. k \in 1 .. k /\ LastHanded = handed[k]
      BY <1>2, <2>3 DEF LastHanded
    <3>2. handed[i] \in Nat /\ handed[k] \in Nat BY <1>2, <2>3, <3>1
    <3>3. handed[i] <= handed[k]
      <4>1. CASE i = k BY <3>2, <4>1
      <4>2. CASE i # k
        <5>1. \A p \in Nat : \A q \in 1 .. p : q = p \/ q < p OBVIOUS
        <5>2. i < k BY <2>3, <4>2, <5>1
        <5> QED BY <2>3, <3>1, <3>2, <5>2 DEF HandedInOrder
      <4> QED BY <4>1, <4>2
    <3> QED BY <2>1, <3>1, <3>2, <3>3
  <2>5. LastHanded \in Nat BY <1>1, Memory
  <2>6. m \in 1 .. posted BY <1>2, <2>1, <2>5
  <2>7. ASSUME NEW i \in 1 .. k + 1 PROVE handed'[i] \in 1 .. posted
    BY <2>3, <2>6 DEF HandedInOrder
  <2>8. ASSUME NEW i \in 1 .. k + 1, NEW j \in 1 .. k + 1, i < j
        PROVE  handed'[i] < handed'[j]
    <3>1. i \in 1 .. k BY <2>3, <2>8
    <3>2. CASE j = k + 1 BY <2>3, <2>4, <3>1, <3>2
    <3>3. CASE j # k + 1
      <4>1. j \in 1 .. k BY <2>3, <3>3
      <4> QED BY <2>3, <2>8, <3>1, <4>1 DEF HandedInOrder
    <3> QED BY <3>2, <3>3
  <2> QED BY <2>2, <2>3, <2>7, <2>8 DEF HandedInOrder
<1>4. CASE \A t \in Tasks : ~Send(t)
  <2>1. handed' = handed /\ posted' \in {posted, posted + 1}
    BY <1>4 DEF QueueNext, NewNode, PostStep, LinkNext, LinkPrev, TestFlag, StartTask, TaskStep,
                SendStep, TestEmpty, Front, Pop, UnlinkNext, UnlinkPrev, ClearFlag, Panic,
                Restart, Reset, history, queueVars
  <2>2. \A m \in 1 .. posted : m \in 1 .. posted' BY <1>2, <2>1
  <2> QED BY <2>1, <2>2 DEF HandedInOrder
<1> QED BY <1>3, <1>4

\* Of two reports of a car the ledger receives, however many between them are lost, a
\* later one that shows no higher mileage was made with the hack button pressed, and
\* the earlier one was not.
THEOREM TurnBackIsHack == Spec => []TurnBackNeedsHack
<1>1. Init => HandedInOrder BY DEF Init, QueueInit, HandedInOrder
<1>2. OrderInv /\ HandedInOrder /\ [Next]_deviceVars => HandedInOrder'
  BY DeviceRunsQueue, QueueHandsInOrder
<1>3. Spec => []OrderInv
  BY DeviceImplementsQueue, OrderInvariant, PTL
<1>4. Spec => []HandedInOrder BY <1>1, <1>2, <1>3, PTL DEF Spec
<1>5. DeviceInv /\ HandedInOrder => TurnBackNeedsHack
  <2> SUFFICES ASSUME DeviceInv, HandedInOrder, NEW i \in DOMAIN handed,
                      NEW j \in DOMAIN handed, i < j
               PROVE  OnlyHackedBack(reports[handed[i]], reports[handed[j]])
    BY DEF TurnBackNeedsHack
  <2> DEFINE a == handed[i]
             b == handed[j]
  <2>1. a \in 1 .. posted /\ b \in 1 .. posted /\ a < b BY DEF HandedInOrder
  <2> HIDE DEF a, b
  <2>2. /\ a \in DOMAIN reports /\ b \in DOMAIN reports
        /\ reports[a] \in Report /\ reports[b] \in Report
    BY <2>1 DEF DeviceInv, CarsTypeOK
  <2>3. CASE Comparable(reports[a], reports[b])
    <3>1. Worth(reports[a]) < Worth(reports[b]) BY <2>1, <2>2, <2>3 DEF DeviceInv, WorthGrows
    <3>2. OnlyHackedBack(reports[a], reports[b]) BY <2>2, <3>1, WorthDecides
    <3> QED BY <3>2 DEF a, b
  <2>4. CASE ~Comparable(reports[a], reports[b]) BY <2>4 DEF OnlyHackedBack, a, b
  <2> QED BY <2>3, <2>4
<1> QED BY <1>4, <1>5, DeviceInvariant, PTL

=============================================================================
