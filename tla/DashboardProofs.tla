--------------------------- MODULE DashboardProofs ---------------------------
(***************************************************************************)
(* Why a page is behind its node, and why the ledger accuses a car whose   *)
(* page only drives on: for any number of posts, buttons, reloads and      *)
(* failures.                                                               *)
(***************************************************************************)
EXTENDS Dashboard, FiniteSetTheorems, TLAPS

USE DashboardAssumption DEF DashboardAssumption, Versions, MaxVersion

\* A feed that has ended is one of the reasons.
FeedsExcuse == excused \/ listening = Feeds

\* One message more on its way, or one less.
LEMMA Counted ==
    ASSUME NEW S, NEW f \in [S -> Nat], NEW v \in S
    PROVE  /\ [f EXCEPT ![v] = @ + 1] \in [S -> Nat]
           /\ f[v] > 0 => [f EXCEPT ![v] = @ - 1] \in [S -> Nat]
<1>1. f[v] \in Nat /\ f[v] + 1 \in Nat /\ (f[v] > 0 => f[v] - 1 \in Nat)
  OBVIOUS
<1> QED  BY <1>1, Zenon

\* What stays a type, whatever a step does to the posts or the flows.
LEMMA PostsCounted ==
    ASSUME NEW S, IsFiniteSet(S), NEW p
    PROVE  /\ Cardinality(S) \in Nat
           /\ IsFiniteSet(S \cup {p}) /\ Cardinality(S \cup {p}) <= Cardinality(S) + 1
           /\ IsFiniteSet(S \ {p})
           /\ p \in S => Cardinality(S \ {p}) = Cardinality(S) - 1
           /\ p \notin S => S \ {p} = S
<1>1. Cardinality(S) \in Nat
  BY FS_CardinalityType
<1>2. IsFiniteSet(S \cup {p}) /\ Cardinality(S \cup {p}) <= Cardinality(S) + 1
  <2>1. CASE p \in S
    <3>1. S \cup {p} = S
      BY <2>1
    <3> QED BY <1>1, <3>1
  <2>2. CASE p \notin S
    <3>1. IsFiniteSet(S \cup {p}) /\ Cardinality(S \cup {p}) = Cardinality(S) + 1
      BY <2>2, FS_AddElement
    <3> QED BY <1>1, <3>1
  <2> QED BY <2>1, <2>2
<1>3. IsFiniteSet(S \ {p}) /\ (p \in S => Cardinality(S \ {p}) = Cardinality(S) - 1)
  BY <1>1, FS_RemoveElement
<1> QED BY <1>1, <1>2, <1>3

\* A change that a scheduler hears of, or does not.
LEMMA ChangedFeed ==
    ASSUME feed \in [Feeds -> Nat], NEW f \in Feeds, Changed(f)
    PROVE  /\ feed' \in [Feeds -> Nat]
           /\ f \in listening => feed'[f] > 0
<1>1. feed[f] + 1 \in Nat /\ feed[f] + 1 > 0
  OBVIOUS
<1>2. [feed EXCEPT ![f] = @ + 1] \in [Feeds -> Nat]
  BY Counted
<1> QED BY <1>1, <1>2 DEF Changed

\* The first event has been there from the start.
LEMMA SomeEvent ==
    ASSUME NodeTypeOK, NothingMadeUp
    PROVE  assessments >= 1 /\ assessments <= Len(events) /\ LastMileage \in Int
<1>1. Cardinality(unassessed) \in Nat /\ Cardinality(assessing) \in Nat
  BY FS_CardinalityType DEF NodeTypeOK
<1>2. assessments \in Nat /\ events \in Seq(Int) /\ Len(events) \in Nat
  BY DEF NodeTypeOK
<1>3. /\ 1 <= assessments
      /\ assessments + Cardinality(unassessed) + Cardinality(assessing) <= Len(events)
  BY DEF NothingMadeUp
<1>4. assessments >= 1 /\ assessments <= Len(events)
  BY <1>1, <1>2, <1>3
<1> QED BY <1>2, <1>4 DEF LastMileage

\* The page has been opened.
LEMMA InitPage ==
    ASSUME Init
    PROVE  PageInv /\ FeedsExcuse /\ BehindWithReason
<1>1. /\ IsFiniteSet(posts) /\ Cardinality(posts) = 0
      /\ IsFiniteSet(unassessed) /\ Cardinality(unassessed) = 0
      /\ IsFiniteSet(assessing) /\ Cardinality(assessing) = 0
  BY FS_EmptySet DEF Init
<1>2. Len(events) = 1 /\ events \in Seq(Int) /\ events[1] \in Nat
  BY DEF Init
<1>3. PageTypeOK
  <2>1. /\ fraud \in BOOLEAN /\ excused \in BOOLEAN /\ suspect \in BOOLEAN
        /\ posts \subseteq [no: Nat, mileage: Int]
    BY DEF Init
  <2>2. /\ unassessed \subseteq Nat /\ assessing = {}
        /\ assessments \in Versions /\ Len(events) \in Versions
        /\ shownEvent \in 0..Len(events) /\ shownPolicy \in 0..assessments
        /\ carMileage \in Int /\ mileage \in Int /\ top \in Int
        /\ presses \in Nat /\ others \in Nat /\ presses + others <= MaxPosts
    BY <1>2 DEF Init
  <2>3. NodeTypeOK /\ ShownTypeOK
    BY <1>1, <1>2, <2>1, <2>2 DEF NodeTypeOK, ShownTypeOK
  <2>4. WireTypeOK
    BY DEF Init, WireTypeOK
  <2> QED BY <2>3, <2>4 DEF PageTypeOK
<1>4. NothingMadeUp
  BY <1>1, <1>2 DEF Init, NothingMadeUp
<1>5. OnlyRises
  BY <1>2 DEF Init, OnlyRises
<1>6. FeedsExcuse /\ BehindWithReason
  BY DEF Init, FeedsExcuse, BehindWithReason, EventComing, PolicyComing, Coming
<1> QED BY <1>3, <1>4, <1>5, <1>6 DEF PageInv

\* A button: what is posted is above all before it, if the car is honest.
LEMMA PressPage ==
    ASSUME PageInv, NEW add \in Int, Press(add), suspect' \in BOOLEAN,
           ~suspect' => ~suspect /\ add > 0
    PROVE  PageInv'
<1> DEFINE new == [no |-> presses + 1, mileage |-> carMileage + add]
<1>1. /\ shownEvent # 0 /\ presses' = presses + 1 /\ presses + others < MaxPosts
      /\ carMileage' = carMileage + add
      /\ posts' = posts \cup {new}
      /\ top' = IF carMileage + add > top THEN carMileage + add ELSE top
  BY DEF Press, NextMileage
<1>2. UNCHANGED <<node, socket, gets, shownEvent, shownPolicy, mileage, others, excused>>
  BY DEF Press
<1>3. NodeTypeOK /\ WireTypeOK /\ ShownTypeOK /\ NothingMadeUp
  BY DEF PageInv, PageTypeOK
<1>4. /\ new \in [no: Nat, mileage: Int] /\ new.no = presses + 1
      /\ new.mileage = carMileage + add
      /\ carMileage \in Int /\ presses \in Nat /\ others \in Nat /\ top \in Int
      /\ posts \subseteq [no: Nat, mileage: Int] /\ IsFiniteSet(posts)
      /\ events \in Seq(Int)
  BY <1>3 DEF ShownTypeOK, NodeTypeOK
<1> HIDE DEF new
<1>5. /\ IsFiniteSet(posts') /\ Cardinality(posts') \in Nat
      /\ Cardinality(posts) \in Nat /\ Cardinality(posts') <= Cardinality(posts) + 1
  BY <1>1, <1>4, PostsCounted
<1>6. PageTypeOK'
  <2>1. NodeTypeOK'
    BY <1>1, <1>2, <1>3, <1>4, <1>5 DEF NodeTypeOK, node
  <2>2. WireTypeOK'
    BY <1>2, <1>3 DEF WireTypeOK, socket, gets
  <2>3. ShownTypeOK'
    BY <1>1, <1>2, <1>3, <1>4 DEF ShownTypeOK, node
  <2> QED BY <2>1, <2>2, <2>3 DEF PageTypeOK
<1>7. NothingMadeUp'
  <2>1. \A p \in posts' : p.no <= presses'
    BY <1>1, <1>3, <1>4 DEF NothingMadeUp
  <2>2. \A p, q \in posts' : p.no = q.no => p = q
    BY <1>1, <1>3, <1>4 DEF NothingMadeUp
  <2>3. Len(events') + Cardinality(posts') <= 1 + presses' + others'
    BY <1>1, <1>2, <1>3, <1>4, <1>5 DEF NothingMadeUp, node
  <2> QED BY <1>2, <1>3, <2>1, <2>2, <2>3 DEF NothingMadeUp, node, gets
<1>8. CASE suspect'
  BY <1>6, <1>7, <1>8 DEF PageInv
<1>9. CASE ~suspect'
  <2>1. OnlyRises /\ add > 0
    BY <1>9 DEF PageInv
  <2>2. LastMileage \in Int
    BY <1>3, SomeEvent
  <2>3. LastMileage < new.mileage /\ top < new.mileage
    BY <1>1, <1>4, <2>1, <2>2 DEF OnlyRises
  <2>4. top' = new.mileage
    BY <1>1, <1>4, <2>3
  <2>5. \A p \in posts : p.mileage <= top /\ p.no < presses + 1
    BY <1>3, <1>4, <2>1 DEF OnlyRises, NothingMadeUp
  <2>6. \A p, q \in posts' : p.no < q.no => p.mileage < q.mileage
    BY <1>1, <1>4, <2>1, <2>3, <2>5 DEF OnlyRises
  <2>7. \A p \in posts' : LastMileage < p.mileage /\ p.mileage <= top'
    BY <1>1, <1>4, <2>1, <2>2, <2>3, <2>4, <2>5 DEF OnlyRises
  <2>8. /\ UNCHANGED <<events, assessing, fraud, shownEvent>>
        /\ LastMileage' = LastMileage
    BY <1>2 DEF node, LastMileage
  <2>9. LastMileage <= top' /\ LastMileage' <= carMileage' /\ top' <= carMileage'
    BY <1>1, <1>4, <2>2, <2>3, <2>4, <2>8
  <2> QED BY <1>1, <1>6, <1>7, <2>1, <2>6, <2>7, <2>8, <2>9 DEF OnlyRises, PageInv
<1> QED BY <1>8, <1>9

\* The flows under way, as far as NodeTypeOK and NothingMadeUp speak of them.
FlowsTypeOK ==
    /\ unassessed \subseteq Nat /\ IsFiniteSet(unassessed)
    /\ assessing \subseteq [flow: Nat, event: 1..Len(events), car: Nat] /\ IsFiniteSet(assessing)

FlowsCount == assessments + Cardinality(unassessed) + Cardinality(assessing) <= Len(events)

\* An event that is recorded has a flow to come.
LEMMA RecordedFlows ==
    ASSUME NodeTypeOK, WireTypeOK, NothingMadeUp, NEW m \in Int, Recorded(m)
    PROVE  /\ Len(events') \in Nat /\ UNCHANGED <<listening, assessing, assessments, fraud>>
           /\ FlowsTypeOK' /\ feed' \in [Feeds -> Nat] /\ FlowsCount'
<1>1. /\ events \in Seq(Int) /\ Len(events) \in Nat /\ assessments \in Nat /\ FlowsTypeOK
  BY DEF NodeTypeOK, FlowsTypeOK
<1>2. Len(events') = Len(events) + 1 /\ Len(events') \in Nat
  BY <1>1 DEF Recorded
<1>3. unassessed' = unassessed \cup {Len(events')}
  BY DEF Recorded
<1>4. UNCHANGED <<listening, assessing, assessments, fraud>> /\ Changed("event")
  BY DEF Recorded
<1>5. /\ IsFiniteSet(unassessed') /\ Cardinality(unassessed') <= Cardinality(unassessed) + 1
      /\ Cardinality(unassessed) \in Nat /\ Cardinality(unassessed') \in Nat
  BY <1>1, <1>3, PostsCounted DEF FlowsTypeOK
<1>6. Cardinality(assessing) \in Nat
  BY <1>1, PostsCounted DEF FlowsTypeOK
<1>7. FlowsTypeOK'
  <2>1. 1..Len(events) \subseteq 1..Len(events')
    BY <1>1, <1>2
  <2>2. assessing' \subseteq [flow: Nat, event: 1..Len(events'), car: Nat]
    BY <1>1, <1>4, <2>1 DEF FlowsTypeOK
  <2> QED BY <1>1, <1>2, <1>3, <1>4, <1>5, <2>2 DEF FlowsTypeOK
<1>8. FlowsCount'
  <2>1. assessments + Cardinality(unassessed) + Cardinality(assessing) <= Len(events)
    BY DEF NothingMadeUp
  <2> QED BY <1>1, <1>2, <1>4, <1>5, <1>6, <2>1 DEF FlowsCount
<1>9. feed' \in [Feeds -> Nat]
  BY <1>4, ChangedFeed DEF WireTypeOK, Feeds
<1> QED BY <1>2, <1>4, <1>7, <1>8, <1>9

\* A post that is recorded in its turn lets the events rise.
LEMMA RecordPage ==
    ASSUME PageInv, NEW p \in posts, Record(p)
    PROVE  PageInv'
<1>1. NodeTypeOK /\ WireTypeOK /\ ShownTypeOK /\ NothingMadeUp
  BY DEF PageInv, PageTypeOK
<1>2. /\ p.no \in Nat /\ p.mileage \in Int /\ events \in Seq(Int) /\ Len(events) \in Nat
      /\ posts \subseteq [no: Nat, mileage: Int] /\ IsFiniteSet(posts)
      /\ assessments \in Nat
      /\ carMileage \in Int /\ top \in Int /\ presses \in Nat /\ others \in Nat
  BY <1>1 DEF NodeTypeOK, ShownTypeOK, WireTypeOK
<1>3. /\ posts' = posts \ {p} /\ events' = Append(events, p.mileage)
  BY DEF Record, Recorded
<1>4. UNCHANGED <<assessing, assessments, fraud, listening, subscription, news, gets, page,
                  presses, others, top, excused>>
  BY DEF Record, Recorded
<1>5. suspect' = (suspect \/ assessing # {} \/ \E q \in posts : q.no < p.no)
  BY DEF Record
<1>6. /\ IsFiniteSet(posts') /\ Cardinality(posts) \in Nat /\ Cardinality(posts') \in Nat
      /\ Cardinality(posts') = Cardinality(posts) - 1
  BY <1>2, <1>3, PostsCounted
<1>7. /\ events' \in Seq(Int) /\ Len(events') = Len(events) + 1
      /\ events'[Len(events')] = p.mileage
      /\ \A i \in 1..Len(events) : events'[i] = events[i]
  BY <1>2, <1>3
<1>8. Len(events') + Cardinality(posts') <= 1 + presses + others
  BY <1>1, <1>2, <1>6, <1>7 DEF NothingMadeUp
<1>9. PICK m \in Int : Recorded(m)
  BY <1>2 DEF Record
<1>10. /\ Len(events') \in Nat /\ UNCHANGED <<listening, assessing, assessments, fraud>>
       /\ FlowsTypeOK' /\ feed' \in [Feeds -> Nat] /\ FlowsCount'
  BY <1>1, <1>9, RecordedFlows
<1>11. PageTypeOK'
  <2>1. Len(events') \in Versions
    BY <1>1, <1>2, <1>6, <1>7, <1>8, SMTT(30) DEF ShownTypeOK
  <2>2. NodeTypeOK'
    BY <1>1, <1>2, <1>3, <1>4, <1>6, <1>7, <1>10, <2>1 DEF NodeTypeOK, FlowsTypeOK
  <2>3. WireTypeOK'
    BY <1>1, <1>4, <1>10 DEF WireTypeOK, gets
  <2>4. suspect' \in BOOLEAN
    BY <1>5
  <2>5. ShownTypeOK'
    BY <1>1, <1>2, <1>4, <1>7, <2>4 DEF ShownTypeOK, page
  <2> QED BY <2>2, <2>3, <2>5 DEF PageTypeOK
<1>12. NothingMadeUp'
  <2>1. \A v \in Versions : answers'[v] > 0 => v \in 1..Len(events')
    BY <1>1, <1>2, <1>4, <1>7 DEF NothingMadeUp, gets
  <2> QED BY <1>1, <1>3, <1>4, <1>8, <1>10, <2>1 DEF NothingMadeUp, FlowsCount, gets
<1>13. CASE suspect'
  BY <1>11, <1>12, <1>13 DEF PageInv
<1>14. CASE ~suspect'
  <2>1. OnlyRises /\ assessing' = {} /\ \A q \in posts : ~(q.no < p.no)
    BY <1>4, <1>5, <1>14 DEF PageInv
  <2>2. LastMileage \in Int /\ LastMileage < p.mileage /\ p.mileage <= top
    BY <1>1, <1>2, <2>1, SomeEvent DEF OnlyRises
  <2>3. \A q \in posts' : p.no < q.no /\ p.mileage < q.mileage /\ q.mileage <= top
    BY <1>1, <1>2, <1>3, <2>1 DEF OnlyRises, NothingMadeUp
  <2>4. \A i \in 1..Len(events) : events[i] < p.mileage
    BY <1>1, <1>2, <2>1, <2>2 DEF OnlyRises, LastMileage
  <2>5. \A i, j \in 1..Len(events') : i < j => events'[i] < events'[j]
    <3> SUFFICES ASSUME NEW i \in 1..Len(events'), NEW j \in 1..Len(events'), i < j
                 PROVE  events'[i] < events'[j]
      OBVIOUS
    <3>1. i \in 1..Len(events)
      BY <1>2, <1>7
    <3>2. CASE j \in 1..Len(events)
      BY <1>7, <2>1, <3>1, <3>2 DEF OnlyRises
    <3>3. CASE j = Len(events')
      BY <1>7, <2>4, <3>1, <3>3
    <3> QED BY <1>2, <1>7, <3>2, <3>3
  <2>6. shownEvent # 0 /\ p.mileage <= carMileage /\ top <= carMileage
    BY <1>2, <2>1, <2>2 DEF OnlyRises
  <2>7. /\ UNCHANGED <<fraud, shownEvent, carMileage, top>>
        /\ LastMileage' = p.mileage
    BY <1>4, <1>7 DEF page, LastMileage
  <2>8. \A q, r \in posts' : q.no < r.no => q.mileage < r.mileage
    BY <1>3, <2>1 DEF OnlyRises
  <2> QED BY <1>11, <1>12, <2>1, <2>2, <2>3, <2>5, <2>6, <2>7, <2>8 DEF OnlyRises, PageInv
<1> QED BY <1>13, <1>14

\* The steps of node, server and page that leave the posts alone.
LEMMA RestPage ==
    ASSUME PageInv,
           \/ RecordOther \/ AssessFails
           \/ (\E i \in unassessed : ReadEvent(i)) \/ (\E q \in assessing : Assess(q))
           \/ Subscribe \/ LoseSocket
           \/ \E f \in Feeds : TriggerChanged(f) \/ FeedEnds(f)
           \/ ServeEvent \/ ServePolicy \/ GetFails \/ ReceiveNews
           \/ \E v \in Versions : ReceiveEvent(v) \/ ReceivePolicy(v)
    PROVE  PageInv'
<1>1. NodeTypeOK /\ WireTypeOK /\ ShownTypeOK /\ NothingMadeUp
  BY DEF PageInv, PageTypeOK
<1>2. /\ events \in Seq(Int) /\ Len(events) \in Nat /\ posts \subseteq [no: Nat, mileage: Int]
      /\ assessments \in Nat /\ FlowsTypeOK
      /\ Cardinality(posts) \in Nat /\ Cardinality(unassessed) \in Nat
      /\ Cardinality(assessing) \in Nat
  BY <1>1, FS_CardinalityType DEF NodeTypeOK, FlowsTypeOK
\* The honest case of a step that touches none of what OnlyRises speaks of.
<1>3. ASSUME UNCHANGED <<events, fraud, posts, shownEvent, carMileage, top, suspect>>,
             assessing' \subseteq assessing
      PROVE  (suspect \/ OnlyRises)'
  BY <1>3 DEF PageInv, OnlyRises, LastMileage
<1>4. CASE RecordOther
  <2>1. PICK add \in Increments : Recorded(LastMileage + add)
    BY <1>4 DEF RecordOther, LastMileage
  <2>2. LastMileage + add \in Int
    BY <1>1, <1>2 DEF NothingMadeUp, LastMileage
  <2>3. /\ events' \in Seq(Int) /\ Len(events') = Len(events) + 1
        /\ UNCHANGED <<assessing, assessments, fraud, listening, subscription, news>>
        /\ FlowsTypeOK' /\ feed' \in [Feeds -> Nat] /\ FlowsCount'
    BY <1>1, <1>2, <2>1, <2>2, RecordedFlows DEF Recorded
  <2>4. /\ others' = others + 1 /\ presses + others < MaxPosts /\ suspect' = TRUE
        /\ UNCHANGED <<posts, gets, page, presses, top, excused>>
    BY <1>4 DEF RecordOther
  <2>5. suspect' \in BOOLEAN
    BY <2>4
  <2>6. Len(events') + Cardinality(posts') <= 1 + presses' + others'
    BY <1>1, <1>2, <2>3, <2>4 DEF NothingMadeUp, ShownTypeOK
  <2>7. Len(events') \in Versions
    BY <1>1, <1>2, <2>3, <2>4, <2>6 DEF ShownTypeOK
  <2>8. NodeTypeOK' /\ WireTypeOK' /\ ShownTypeOK'
    <3>1. NodeTypeOK'
      BY <1>1, <1>2, <2>3, <2>4, <2>7 DEF NodeTypeOK, FlowsTypeOK
    <3>2. WireTypeOK'
      <4>1. UNCHANGED <<listening, subscription, news, asked, answers, policyAsked,
                        policyAnswers>>
        BY <2>3, <2>4 DEF gets
      <4> QED BY <1>1, <2>3, <4>1 DEF WireTypeOK
    <3>3. ShownTypeOK'
      BY <1>1, <1>2, <2>3, <2>4, <2>5 DEF ShownTypeOK, page
    <3> QED BY <3>1, <3>2, <3>3
  <2>9. NothingMadeUp'
    <3>1. \A v \in Versions : answers'[v] > 0 => v \in 1..Len(events')
      <4>1. 1..Len(events) \subseteq 1..Len(events')
        BY <1>2, <2>3
      <4> QED BY <1>1, <2>4, <4>1 DEF NothingMadeUp, gets
    <3> QED BY <1>1, <2>3, <2>4, <2>6, <3>1 DEF NothingMadeUp, FlowsCount, gets
  <2> QED BY <2>4, <2>8, <2>9 DEF PageInv, PageTypeOK
<1>5. ASSUME NEW q \in assessing, Assess(q) PROVE PageInv'
  <2>1. /\ assessing' = assessing \ {q} /\ assessments' = assessments + 1
        /\ fraud' = (fraud \/ events[q.event] <= events[Len(events) - 1])
        /\ Changed("car")
    BY <1>5 DEF Assess, Predecessor
  <2>2. UNCHANGED <<events, unassessed, posts, listening, subscription, news, gets, page,
                    pageHistory>>
    BY <1>5 DEF Assess
  <2>3. /\ q \in [flow: Nat, event: 1..Len(events), car: Nat] /\ IsFiniteSet(assessing')
        /\ Cardinality(assessing') = Cardinality(assessing) - 1
        /\ Cardinality(assessing') \in Nat
    BY <1>2, <2>1, PostsCounted DEF FlowsTypeOK
  <2>4. assessments + Cardinality(unassessed) + Cardinality(assessing) <= Len(events)
    BY <1>1 DEF NothingMadeUp
  <2>5. assessments >= 1 /\ Len(events) > 1 /\ assessments + 1 <= Len(events)
    <3>1. Cardinality(assessing \ {q}) \in Nat
      BY <2>1, <2>3
    <3>2. Cardinality(assessing) >= 1
      <4>1. Cardinality(assessing \ {q}) = Cardinality(assessing) - 1
        BY <2>1, <2>3
      <4> QED BY <1>2, <3>1, <4>1
    <3>3. assessments >= 1
      BY <1>1, SomeEvent
    <3> QED BY <1>2, <2>4, <3>2, <3>3
  <2>6. PageTypeOK'
    <3>1. NodeTypeOK'
      <4>1. fraud' \in BOOLEAN
        BY <2>1
      <4>2. assessments' \in Versions
        BY <1>1, <1>2, <2>1, <2>5 DEF NodeTypeOK
      <4>3. assessing' \subseteq [flow: Nat, event: 1..Len(events), car: Nat]
        BY <1>2, <2>1 DEF FlowsTypeOK
      <4> QED BY <1>1, <2>2, <2>3, <4>1, <4>2, <4>3 DEF NodeTypeOK
    <3>2. WireTypeOK'
      <4>1. feed' \in [Feeds -> Nat]
        BY <1>1, <2>1, ChangedFeed DEF WireTypeOK, Feeds
      <4>2. UNCHANGED <<listening, subscription, news, asked, answers, policyAsked,
                        policyAnswers>>
        BY <2>2 DEF gets
      <4> QED BY <1>1, <4>1, <4>2 DEF WireTypeOK
    <3>3. ShownTypeOK'
      BY <1>1, <1>2, <2>1, <2>2 DEF ShownTypeOK, page, pageHistory
    <3> QED BY <3>1, <3>2, <3>3 DEF PageTypeOK
  <2>7. NothingMadeUp'
    <3>1. /\ 1 <= assessments'
          /\ assessments' + Cardinality(unassessed) + Cardinality(assessing') <= Len(events)
      BY <1>2, <2>1, <2>3, <2>4, <2>5
    <3>2. \A v \in Versions : policyAnswers[v] > 0 => v \in 1..assessments'
      BY <1>1, <1>2, <2>1 DEF NothingMadeUp
    <3> QED BY <1>1, <2>2, <3>1, <3>2 DEF NothingMadeUp, gets, pageHistory
  <2>8. ASSUME OnlyRises PROVE ~fraud'
    <3>1. q.event = Len(events)
      BY <2>8 DEF OnlyRises
    <3>2. events[Len(events) - 1] < events[Len(events)]
      BY <1>2, <2>5, <2>8 DEF OnlyRises
    <3>3. events[Len(events) - 1] \in Int /\ events[Len(events)] \in Int
      BY <1>2, <2>5
    <3>4. ~(events[q.event] <= events[Len(events) - 1])
      BY <3>1, <3>2, <3>3
    <3> QED BY <2>1, <2>8, <3>4 DEF OnlyRises
  <2>9. (suspect \/ OnlyRises)'
    BY <2>1, <2>2, <2>8 DEF PageInv, OnlyRises, LastMileage, page, pageHistory
  <2> QED BY <2>6, <2>7, <2>9 DEF PageInv
<1>6. ASSUME (\E i \in unassessed : ReadEvent(i)) \/ AssessFails PROVE PageInv'
  <2>1. UNCHANGED <<events, assessments, fraud, posts, socket, gets, page, pageHistory>>
    BY <1>6 DEF ReadEvent, AssessFails
  <2>2. /\ FlowsTypeOK' /\ FlowsCount'
        /\ \A q \in assessing' \ assessing : q.event = Len(events)
    <3>1. assessments + Cardinality(unassessed) + Cardinality(assessing) <= Len(events)
      BY <1>1 DEF NothingMadeUp
    <3>2. ASSUME NEW i \in unassessed, ReadEvent(i)
          PROVE  /\ FlowsTypeOK' /\ FlowsCount'
                 /\ \A q \in assessing' \ assessing : q.event = Len(events)
      <4> DEFINE new == [flow |-> i, event |-> Len(events), car |-> assessments]
      <4>1. unassessed' = unassessed \ {i} /\ assessing' = assessing \cup {new}
        BY <3>2 DEF ReadEvent
      <4>2. Len(events) \in 1..Len(events) /\ i \in Nat
        BY <1>1, <1>2 DEF NothingMadeUp, NodeTypeOK, FlowsTypeOK
      <4>3. new \in [flow: Nat, event: 1..Len(events), car: Nat] /\ new.event = Len(events)
        BY <1>2, <4>2
      <4> HIDE DEF new
      <4>4. /\ IsFiniteSet(unassessed') /\ Cardinality(unassessed') \in Nat
            /\ Cardinality(unassessed') = Cardinality(unassessed) - 1
        BY <1>2, <4>1, PostsCounted DEF FlowsTypeOK
      <4>5. /\ IsFiniteSet(assessing') /\ Cardinality(assessing') \in Nat
            /\ Cardinality(assessing') <= Cardinality(assessing) + 1
        BY <1>2, <4>1, PostsCounted DEF FlowsTypeOK
      <4>6. FlowsTypeOK'
        BY <1>2, <2>1, <4>1, <4>3, <4>4, <4>5 DEF FlowsTypeOK
      <4>7. FlowsCount'
        BY <1>2, <2>1, <3>1, <4>4, <4>5 DEF FlowsCount
      <4> QED BY <4>1, <4>3, <4>6, <4>7
    <3>3. ASSUME NEW i \in unassessed, unassessed' = unassessed \ {i}, UNCHANGED assessing
          PROVE  FlowsTypeOK' /\ FlowsCount'
      <4>1. /\ IsFiniteSet(unassessed') /\ Cardinality(unassessed') \in Nat
            /\ Cardinality(unassessed') = Cardinality(unassessed) - 1
        BY <1>2, <3>3, PostsCounted DEF FlowsTypeOK
      <4>2. FlowsTypeOK'
        BY <1>2, <2>1, <3>3, <4>1 DEF FlowsTypeOK
      <4> QED BY <1>2, <2>1, <3>1, <3>3, <4>1, <4>2 DEF FlowsCount
    <3>4. ASSUME NEW q \in assessing, assessing' = assessing \ {q}, UNCHANGED unassessed
          PROVE  FlowsTypeOK' /\ FlowsCount'
      <4>1. /\ IsFiniteSet(assessing') /\ Cardinality(assessing') \in Nat
            /\ Cardinality(assessing') = Cardinality(assessing) - 1
        BY <1>2, <3>4, PostsCounted DEF FlowsTypeOK
      <4>2. FlowsTypeOK'
        BY <1>2, <2>1, <3>4, <4>1 DEF FlowsTypeOK
      <4> QED BY <1>2, <2>1, <3>1, <3>4, <4>1, <4>2 DEF FlowsCount
    <3> QED BY <1>6, <3>2, <3>3, <3>4 DEF AssessFails
  <2>3. PageTypeOK' /\ NothingMadeUp'
    <3>1. NodeTypeOK'
      BY <1>1, <2>1, <2>2 DEF NodeTypeOK, FlowsTypeOK
    <3>2. WireTypeOK' /\ ShownTypeOK'
      BY <1>1, <2>1 DEF WireTypeOK, ShownTypeOK, socket, gets, page, pageHistory
    <3>3. NothingMadeUp'
      BY <1>1, <2>1, <2>2 DEF NothingMadeUp, FlowsCount, gets, pageHistory
    <3> QED BY <3>1, <3>2, <3>3 DEF PageTypeOK
  <2>4. (suspect \/ OnlyRises)'
    BY <2>1, <2>2 DEF PageInv, OnlyRises, LastMileage, page, pageHistory
  <2> QED BY <2>3, <2>4 DEF PageInv
<1>7. ASSUME \/ Subscribe \/ LoseSocket
             \/ \E f \in Feeds : TriggerChanged(f) \/ FeedEnds(f)
      PROVE  PageInv'
  <2>1. UNCHANGED <<node, posts, gets, page, presses, others, top, suspect>>
    BY <1>7 DEF Subscribe, LoseSocket, TriggerChanged, FeedEnds, pageHistory
  <2>2. excused' \in BOOLEAN
    BY <1>1, <1>7 DEF Subscribe, LoseSocket, TriggerChanged, FeedEnds, pageHistory, ShownTypeOK
  <2>3. subscription' \in {"none", "subscribed", "lost"} /\ news' \in Nat
    BY <1>1, <1>7 DEF Subscribe, LoseSocket, TriggerChanged, FeedEnds, WireTypeOK
  <2>4. listening' \subseteq Feeds /\ feed' \in [Feeds -> Nat]
    <3>1. feed \in [Feeds -> Nat] /\ listening \subseteq Feeds
      BY <1>1 DEF WireTypeOK
    <3>2. ASSUME NEW f \in Feeds, TriggerChanged(f) PROVE feed' \in [Feeds -> Nat]
      BY <3>1, <3>2, Counted DEF TriggerChanged
    <3>3. ASSUME NEW f \in Feeds, FeedEnds(f) PROVE feed' \in [Feeds -> Nat]
      BY <3>1, <3>3 DEF FeedEnds
    <3> QED BY <1>7, <3>1, <3>2, <3>3 DEF Subscribe, LoseSocket, TriggerChanged, FeedEnds
  <2>5. PageTypeOK' /\ NothingMadeUp'
    BY <1>1, <2>1, <2>2, <2>3, <2>4 DEF NodeTypeOK, WireTypeOK, ShownTypeOK, PageTypeOK,
       NothingMadeUp, node, gets, page
  <2> QED BY <1>3, <2>1, <2>5 DEF PageInv, node, page
<1>8. CASE ServeEvent \/ ServePolicy \/ GetFails \/ ReceiveNews
  <2>1. UNCHANGED <<node, posts, subscription, listening, feed, page, presses, others, top,
                    suspect>>
    BY <1>8 DEF ServeEvent, ServePolicy, GetFails, ReceiveNews, pageHistory, socket
  <2>2. excused' \in BOOLEAN
    BY <1>1, <1>8 DEF ServeEvent, ServePolicy, GetFails, ReceiveNews, pageHistory, ShownTypeOK
  <2>3. WireTypeOK' /\ NothingMadeUp'
    <3>1. CASE ServeEvent
      <4>1. /\ asked > 0 /\ asked' = asked - 1
            /\ answers' = [answers EXCEPT ![Len(events)] = @ + 1]
            /\ UNCHANGED <<socket, policyAsked, policyAnswers>>
        BY <3>1 DEF ServeEvent
      <4>2. Len(events) \in 1..Len(events) /\ Len(events) \in Versions
        BY <1>1, <1>2 DEF NothingMadeUp, NodeTypeOK
      <4>3. WireTypeOK'
        <5>1. asked' \in Nat /\ answers' \in [Versions -> Nat]
          BY <1>1, <4>1, <4>2, SMTT(30) DEF WireTypeOK
        <5> QED BY <1>1, <4>1, <5>1 DEF WireTypeOK, socket
      <4>4. \A v \in Versions : answers'[v] > 0 => v \in 1..Len(events)
        BY <1>1, <4>1, <4>2 DEF WireTypeOK, NothingMadeUp
      <4> QED BY <1>1, <2>1, <4>1, <4>3, <4>4 DEF NothingMadeUp, node
    <3>2. CASE ServePolicy
      <4>1. /\ policyAsked > 0 /\ policyAsked' = policyAsked - 1
            /\ policyAnswers' = [policyAnswers EXCEPT ![assessments] = @ + 1]
            /\ UNCHANGED <<socket, asked, answers>>
        BY <3>2 DEF ServePolicy
      <4>2. assessments \in 1..assessments /\ assessments \in Versions
        BY <1>1, <1>2 DEF NothingMadeUp, NodeTypeOK
      <4>3. WireTypeOK'
        <5>1. policyAsked' \in Nat /\ policyAnswers' \in [Versions -> Nat]
          BY <1>1, <4>1, <4>2, SMTT(30) DEF WireTypeOK
        <5> QED BY <1>1, <4>1, <5>1 DEF WireTypeOK, socket
      <4>4. \A v \in Versions : policyAnswers'[v] > 0 => v \in 1..assessments
        BY <1>1, <4>1, <4>2 DEF WireTypeOK, NothingMadeUp
      <4> QED BY <1>1, <2>1, <4>1, <4>3, <4>4 DEF NothingMadeUp, node
    <3>3. CASE GetFails
      <4>1. asked' \in Nat /\ policyAsked' \in Nat
        BY <1>1, <3>3 DEF GetFails, WireTypeOK
      <4>2. UNCHANGED <<socket, answers, policyAnswers>>
        BY <3>3 DEF GetFails
      <4> QED BY <1>1, <2>1, <4>1, <4>2 DEF WireTypeOK, NothingMadeUp, socket, node
    <3>4. CASE ReceiveNews
      <4>1. news > 0 /\ news' = news - 1 /\ asked' = asked + 1
        BY <3>4 DEF ReceiveNews, GetVehicle
      <4>2. UNCHANGED <<listening, feed, subscription, answers, policyAsked, policyAnswers>>
        BY <3>4 DEF ReceiveNews
      <4> QED BY <1>1, <2>1, <4>1, <4>2 DEF WireTypeOK, NothingMadeUp, node
    <3> QED BY <1>8, <3>1, <3>2, <3>3, <3>4
  <2>4. NodeTypeOK' /\ ShownTypeOK'
    BY <1>1, <2>1, <2>2 DEF NodeTypeOK, ShownTypeOK, node, page
  <2> QED BY <1>3, <2>1, <2>3, <2>4 DEF PageInv, PageTypeOK, node, page
<1>9. ASSUME NEW v \in Versions, ReceiveEvent(v) PROVE PageInv'
  <2>1. /\ answers[v] > 0 /\ answers' = [answers EXCEPT ![v] = @ - 1]
        /\ shownEvent' = v /\ carMileage' = events[v] /\ mileage' = events[v]
        /\ policyAsked' = policyAsked + 1
    BY <1>9 DEF ReceiveEvent, GetPolicy
  <2>2. UNCHANGED <<node, posts, socket, asked, policyAnswers, shownPolicy, presses, others, top>>
    BY <1>9 DEF ReceiveEvent
  <2>3. excused' \in BOOLEAN /\ suspect' \in BOOLEAN
    BY <1>9 DEF ReceiveEvent
  <2>4. v \in 1..Len(events) /\ events[v] \in Int
    BY <1>1, <1>2, <2>1 DEF NothingMadeUp
  <2>5. PageTypeOK'
    <3>1. NodeTypeOK'
      BY <1>1, <2>2 DEF NodeTypeOK, node
    <3>2. WireTypeOK'
      <4>1. answers' \in [Versions -> Nat] /\ policyAsked' \in Nat
        <5>1. answers \in [Versions -> Nat] /\ policyAsked \in Nat
          BY <1>1 DEF WireTypeOK
        <5>2. answers' \in [Versions -> Nat]
          BY <2>1, <5>1, Counted
        <5> QED BY <2>1, <5>1, <5>2
      <4>2. UNCHANGED <<listening, feed, subscription, news, asked, policyAnswers>>
        BY <2>2 DEF socket
      <4> QED BY <1>1, <4>1, <4>2, SMTT(30) DEF WireTypeOK
    <3>3. ShownTypeOK'
      BY <1>1, <1>2, <2>1, <2>2, <2>3, <2>4 DEF ShownTypeOK, node
    <3> QED BY <3>1, <3>2, <3>3 DEF PageTypeOK
  <2>6. NothingMadeUp'
    BY <1>1, <2>1, <2>2 DEF NothingMadeUp, WireTypeOK, node
  <2>7. ASSUME ~suspect' PROVE OnlyRises'
    <3>1. OnlyRises /\ ~(events[v] < top)
      BY <1>9, <2>7 DEF ReceiveEvent, PageInv
    <3>2. top <= events[v]
      BY <1>1, <2>4, <3>1 DEF ShownTypeOK
    <3>3. LastMileage <= events[v] /\ LastMileage \in Int
      <4>1. LastMileage \in Int /\ top \in Int
        BY <1>1, SomeEvent DEF ShownTypeOK
      <4>2. CASE Len(events) > 1
        BY <2>4, <3>1, <3>2, <4>1, <4>2 DEF OnlyRises
      <4>3. CASE ~(Len(events) > 1)
        BY <1>2, <2>4, <4>1, <4>3 DEF LastMileage
      <4> QED BY <4>1, <4>2, <4>3
    <3>4. v # 0
      BY <2>4
    <3> QED BY <2>1, <2>2, <3>1, <3>2, <3>3, <3>4 DEF OnlyRises, LastMileage, node
  <2> QED BY <2>5, <2>6, <2>7 DEF PageInv
<1>10. ASSUME NEW v \in Versions, ReceivePolicy(v) PROVE PageInv'
  <2>1. /\ policyAnswers[v] > 0 /\ policyAnswers' = [policyAnswers EXCEPT ![v] = @ - 1]
        /\ shownPolicy' = v
    BY <1>10 DEF ReceivePolicy
  <2>2. UNCHANGED <<node, posts, socket, asked, answers, policyAsked, shownEvent, carMileage,
                    mileage, presses, others, top, suspect>>
    BY <1>10 DEF ReceivePolicy
  <2>3. excused' \in BOOLEAN
    BY <1>10 DEF ReceivePolicy
  <2>4. v \in 1..assessments
    BY <1>1, <2>1 DEF NothingMadeUp
  <2>5. PageTypeOK' /\ NothingMadeUp'
    <3>1. NodeTypeOK'
      BY <1>1, <2>2 DEF NodeTypeOK, node
    <3>2. WireTypeOK'
      <4>1. policyAnswers' \in [Versions -> Nat]
        <5>1. policyAnswers \in [Versions -> Nat]
          BY <1>1 DEF WireTypeOK
        <5> QED BY <2>1, <5>1, Counted
      <4>2. UNCHANGED <<listening, feed, subscription, news, asked, answers, policyAsked>>
        BY <2>2 DEF socket
      <4> QED BY <1>1, <4>1, <4>2, SMTT(30) DEF WireTypeOK
    <3>3. ShownTypeOK'
      BY <1>1, <1>2, <2>1, <2>2, <2>3, <2>4 DEF ShownTypeOK, node
    <3>4. NothingMadeUp'
      BY <1>1, <2>1, <2>2 DEF NothingMadeUp, WireTypeOK, node
    <3> QED BY <3>1, <3>2, <3>3, <3>4 DEF PageTypeOK
  <2> QED BY <1>3, <2>2, <2>5 DEF PageInv, node
<1> QED BY <1>4, <1>5, <1>6, <1>7, <1>8, <1>9, <1>10

\* Nothing but the feed's error ends a feed.
LEMMA FeedsStep ==
    ASSUME FeedsExcuse, [Next]_dashboardVars
    PROVE  FeedsExcuse'
<1>1. ASSUME UNCHANGED <<excused, listening>> PROVE FeedsExcuse'
  BY <1>1 DEF FeedsExcuse
<1>2. CASE AddMileage \/ Crash \/ AddFraud
  BY <1>1, <1>2 DEF AddMileage, Crash, AddFraud, Press, socket
<1>3. ASSUME NEW p \in posts, Record(p) \/ PostFails(p) PROVE FeedsExcuse'
  BY <1>1, <1>3 DEF Record, Recorded, PostFails, socket, pageHistory
<1>4. CASE RecordOther \/ AssessFails
  BY <1>1, <1>4 DEF RecordOther, Recorded, AssessFails, socket, pageHistory
<1>5. CASE (\E i \in unassessed : ReadEvent(i)) \/ (\E q \in assessing : Assess(q))
  BY <1>1, <1>5 DEF ReadEvent, Assess, socket, pageHistory
<1>6. CASE LoseSocket \/ GetFails \/ \E f \in Feeds : FeedEnds(f)
  BY <1>6 DEF LoseSocket, GetFails, FeedEnds, FeedsExcuse
<1>7. CASE Subscribe \/ ServeEvent \/ ServePolicy \/ ReceiveNews
  BY <1>1, <1>7 DEF Subscribe, ServeEvent, ServePolicy, ReceiveNews, socket, pageHistory
<1>8. CASE \E f \in Feeds : TriggerChanged(f)
  BY <1>8 DEF TriggerChanged, FeedsExcuse
<1>9. CASE \E v \in Versions : ReceiveEvent(v) \/ ReceivePolicy(v)
  BY <1>9 DEF ReceiveEvent, ReceivePolicy, FeedsExcuse, socket
<1>10. CASE UNCHANGED dashboardVars
  BY <1>1, <1>10 DEF dashboardVars, socket, pageHistory
<1> QED BY <1>2, <1>3, <1>4, <1>5, <1>6, <1>7, <1>8, <1>9, <1>10 DEF Next, Deliver

\* The page is never behind without a reason; PageInv bounds the versions on their way.
LEMMA BehindStep ==
    ASSUME PageInv, FeedsExcuse, BehindWithReason, [Next]_dashboardVars
    PROVE  BehindWithReason'
<1> SUFFICES ASSUME ~excused'
             PROVE  (EventCurrent \/ EventComing)' /\ (PolicyCurrent \/ PolicyComing)'
  BY DEF BehindWithReason
<1>1. NodeTypeOK /\ WireTypeOK /\ ShownTypeOK /\ NothingMadeUp
  BY DEF PageInv, PageTypeOK
<1>2. /\ Len(events) \in Versions /\ assessments \in Versions /\ Len(events) \in Nat
      /\ assessments \in Nat /\ feed \in [Feeds -> Nat] /\ news \in Nat /\ asked \in Nat
      /\ policyAsked \in Nat
      /\ answers \in [Versions -> Nat] /\ policyAnswers \in [Versions -> Nat]
      /\ shownEvent \in 0..Len(events) /\ shownPolicy \in 0..assessments
  <2>1. /\ Len(events) \in Versions /\ assessments \in Versions /\ Len(events) \in Nat
        /\ assessments \in Nat
    BY <1>1 DEF NodeTypeOK
  <2> QED BY <1>1, <2>1 DEF WireTypeOK, ShownTypeOK
<1> USE DEF Coming, EventComing, PolicyComing, EventCurrent, PolicyCurrent
<1>3. ASSUME \E f \in Feeds : feed'[f] > 0
      PROVE  (EventCurrent \/ EventComing)' /\ (PolicyCurrent \/ PolicyComing)'
  BY <1>3
<1>4. ASSUME UNCHANGED <<events, assessments, socket, gets, shownEvent, shownPolicy, excused>>
      PROVE  (EventCurrent \/ EventComing)' /\ (PolicyCurrent \/ PolicyComing)'
  BY <1>4 DEF BehindWithReason, socket, gets
<1>5. ASSUME NEW add \in Int, Press(add)
      PROVE  (EventCurrent \/ EventComing)' /\ (PolicyCurrent \/ PolicyComing)'
  BY <1>4, <1>5 DEF Press, node
<1>6. CASE AddMileage \/ Crash \/ AddFraud
  <2>1. \A new \in {2 * mileage, mileage \div 2, mileage - Decrement} : new - mileage \in Int
    BY <1>1 DEF ShownTypeOK
  <2> QED BY <1>5, <1>6, <2>1 DEF AddMileage, Crash, AddFraud
<1>7. ASSUME NEW f \in Feeds, Changed(f), UNCHANGED <<excused, listening>>
       PROVE  (EventCurrent \/ EventComing)' /\ (PolicyCurrent \/ PolicyComing)'
  <2>1. f \in listening
    BY <1>7 DEF FeedsExcuse
  <2>2. feed'[f] > 0
    BY <1>2, <1>7, <2>1, ChangedFeed
  <2> QED BY <1>3, <2>2
<1>8. ASSUME NEW p \in posts, Record(p) \/ PostFails(p)
      PROVE  (EventCurrent \/ EventComing)' /\ (PolicyCurrent \/ PolicyComing)'
  BY <1>4, <1>8, <1>7 DEF Record, Recorded, PostFails, Feeds, node, page, pageHistory
<1>9. CASE RecordOther \/ \E q \in assessing : Assess(q)
  BY <1>9, <1>7 DEF RecordOther, Recorded, Assess, Feeds, pageHistory
<1>10. CASE (\E i \in unassessed : ReadEvent(i)) \/ AssessFails
  BY <1>4, <1>10 DEF ReadEvent, AssessFails, page, pageHistory
<1>11. CASE Subscribe
  BY <1>11 DEF Subscribe, BehindWithReason, node, gets, page, pageHistory
<1>12. CASE LoseSocket \/ \E f \in Feeds : FeedEnds(f)
  BY <1>12 DEF LoseSocket, FeedEnds
<1>13. CASE \E f \in Feeds : TriggerChanged(f)
  <2>1. subscription = "subscribed" /\ news' = news + 1
    BY <1>13 DEF TriggerChanged
  <2> QED BY <1>2, <2>1
<1>14. CASE ServeEvent
  <2>1. answers'[Len(events)] > 0 /\ UNCHANGED <<events, assessments, excused>>
    BY <1>2, <1>14 DEF ServeEvent, node, pageHistory
  <2> QED BY <1>2, <2>1
<1>15. CASE ServePolicy
  <2>1. /\ policyAnswers'[assessments] > 0
        /\ UNCHANGED <<events, assessments, excused, shownEvent, feed, news, asked, answers>>
    <3>1. policyAnswers'[assessments] > 0
      BY <1>2, <1>15 DEF ServePolicy
    <3> QED BY <1>15, <3>1 DEF ServePolicy, node, pageHistory, page, socket
  <2> QED BY <1>2, <2>1 DEF BehindWithReason
<1>16. CASE GetFails
  BY <1>16 DEF GetFails
<1>17. CASE ReceiveNews
  <2>1. asked' > 0
    BY <1>2, <1>17 DEF ReceiveNews, GetVehicle
  <2> QED BY <2>1
<1>18. ASSUME NEW v \in Versions, ReceiveEvent(v)
       PROVE  (EventCurrent \/ EventComing)' /\ (PolicyCurrent \/ PolicyComing)'
  <2>1. /\ answers[v] > 0 /\ answers' = [answers EXCEPT ![v] = @ - 1]
        /\ shownEvent' = v /\ policyAsked' = policyAsked + 1
        /\ UNCHANGED <<events, assessments, feed, news, asked>>
    BY <1>18 DEF ReceiveEvent, GetPolicy, node, socket
  <2>2. ~excused /\ ~(v < shownEvent)
    BY <1>18 DEF ReceiveEvent
  <2>3. v \in 1..Len(events)
    BY <1>1, <2>1 DEF NothingMadeUp
  <2>4. CASE v = Len(events)
    BY <1>2, <2>1, <2>4
  <2>5. CASE v # Len(events)
    <3>1. shownEvent # Len(events)
      BY <1>2, <2>2, <2>3, <2>5
    <3>2. answers'[Len(events)] = answers[Len(events)]
      BY <1>2, <2>1, <2>5
    <3>3. EventComing
      BY <2>2, <3>1 DEF BehindWithReason
    <3> QED BY <1>2, <2>1, <3>2, <3>3
  <2> QED BY <2>4, <2>5
<1>19. ASSUME NEW v \in Versions, ReceivePolicy(v)
       PROVE  (EventCurrent \/ EventComing)' /\ (PolicyCurrent \/ PolicyComing)'
  <2>1. /\ policyAnswers[v] > 0 /\ policyAnswers' = [policyAnswers EXCEPT ![v] = @ - 1]
        /\ shownPolicy' = v
        /\ UNCHANGED <<events, assessments, feed, news, asked, answers, policyAsked, shownEvent>>
    BY <1>19 DEF ReceivePolicy, node, socket
  <2>2. ~excused /\ ~(v < shownPolicy)
    BY <1>19 DEF ReceivePolicy
  <2>3. v \in 1..assessments
    BY <1>1, <2>1 DEF NothingMadeUp
  <2>4. (EventCurrent \/ EventComing)'
    BY <2>1, <2>2 DEF BehindWithReason
  <2>5. CASE v = assessments
    BY <2>1, <2>4, <2>5
  <2>6. CASE v # assessments
    <3>1. shownPolicy # assessments
      BY <1>2, <2>2, <2>3, <2>6
    <3>2. policyAnswers'[assessments] = policyAnswers[assessments]
      BY <1>2, <2>1, <2>6
    <3>3. PolicyComing
      BY <2>2, <3>1 DEF BehindWithReason
    <3> QED BY <2>1, <2>4, <3>2, <3>3
  <2> QED BY <2>5, <2>6
<1>20. CASE UNCHANGED dashboardVars
  BY <1>4, <1>20 DEF dashboardVars, node, page, pageHistory
<1> QED BY <1>6, <1>8, <1>9, <1>10, <1>11, <1>12, <1>13, <1>14, <1>15, <1>16, <1>17, <1>18,
           <1>19, <1>20 DEF Next, Deliver

\* Every step keeps the invariant.
LEMMA NextPage ==
    ASSUME PageInv, [Next]_dashboardVars
    PROVE  PageInv'
<1>1. ASSUME AddMileage PROVE PageInv'
  <2>1. PICK add \in Increments : Press(add) /\ UNCHANGED suspect
    BY <1>1 DEF AddMileage
  <2>2. add \in Int /\ add > 0
    OBVIOUS
  <2> QED BY <2>1, <2>2, PressPage DEF PageInv, PageTypeOK, ShownTypeOK
<1>2. ASSUME Crash PROVE PageInv'
  BY <1>2, PressPage DEF Crash
<1>3. ASSUME AddFraud PROVE PageInv'
  <2>1. PICK new \in {2 * mileage, mileage \div 2, mileage - Decrement} :
           Press(new - mileage) /\ suspect' = (suspect \/ new <= mileage)
    BY <1>3 DEF AddFraud
  <2>2. mileage \in Int /\ new \in Int /\ new - mileage \in Int
    BY DEF PageInv, PageTypeOK, ShownTypeOK
  <2>3. suspect' \in BOOLEAN
    BY <2>1
  <2>4. ~suspect' => ~suspect /\ ~(new <= mileage)
    BY <2>1
  <2>5. ~suspect' => ~suspect /\ new - mileage > 0
    BY <2>2, <2>4
  <2> QED BY <2>1, <2>2, <2>3, <2>5, PressPage
<1>4. ASSUME NEW p \in posts, PostFails(p) PROVE PageInv'
  <2>1. posts' = posts \ {p}
    BY <1>4 DEF PostFails
  <2>2. UNCHANGED <<node, socket, gets, page, pageHistory>>
    BY <1>4 DEF PostFails
  <2>3. NodeTypeOK /\ WireTypeOK /\ ShownTypeOK /\ NothingMadeUp
    BY DEF PageInv, PageTypeOK
  <2>4. IsFiniteSet(posts)
    BY <2>3 DEF NodeTypeOK
  <2>5. /\ Cardinality(posts) \in Nat /\ IsFiniteSet(posts')
        /\ Cardinality(posts') = Cardinality(posts) - 1
    BY <2>1, <2>4, PostsCounted
  <2>6. NodeTypeOK'
    BY <2>1, <2>2, <2>3, <2>5 DEF NodeTypeOK, node
  <2>7. WireTypeOK' /\ ShownTypeOK'
    BY <2>2, <2>3 DEF WireTypeOK, ShownTypeOK, node, socket, gets, page, pageHistory
  <2>8. NothingMadeUp'
    BY <2>1, <2>2, <2>3, <2>5 DEF NothingMadeUp, NodeTypeOK, ShownTypeOK, node, gets, pageHistory
  <2>9. (suspect \/ OnlyRises)'
    BY <2>1, <2>2 DEF PageInv, OnlyRises, LastMileage, node, page, pageHistory
  <2> QED BY <2>6, <2>7, <2>8, <2>9 DEF PageInv, PageTypeOK
<1>5. ASSUME UNCHANGED dashboardVars PROVE PageInv'
  BY <1>5 DEF PageInv, PageTypeOK, NodeTypeOK, WireTypeOK, ShownTypeOK, NothingMadeUp, OnlyRises,
     LastMileage, dashboardVars, node, socket, gets, page, pageHistory
<1> QED BY <1>1, <1>2, <1>3, <1>4, <1>5, RecordPage, RestPage DEF Next, Deliver

\* The page's inductive invariant (posts, reloads and crossing answers of caller.js).
THEOREM PageInvariant == Spec => []PageInv
<1>1. Init => PageInv
  BY InitPage
<1>2. PageInv /\ [Next]_dashboardVars => PageInv'
  BY NextPage
<1> QED BY <1>1, <1>2, PTL DEF Spec

\* A page that shows an old event or policy has been overtaken, was not subscribed, lost its
\* socket, a GET or a vault feed, or has the news on the way (get_vehicle, get_policy,
\* triggerChanged and the error that ends it).
THEOREM BehindForAReason == Spec => []BehindWithReason
<1>1. Init => FeedsExcuse /\ BehindWithReason
  BY InitPage
<1>2. FeedsExcuse /\ [Next]_dashboardVars => FeedsExcuse'
  BY FeedsStep
<1>3. PageInv /\ FeedsExcuse /\ BehindWithReason /\ [Next]_dashboardVars => BehindWithReason'
  BY BehindStep
<1> QED BY <1>1, <1>2, <1>3, PageInvariant, PTL DEF Spec

\* The ledger accuses no car whose page only drives on, but for the reasons that suspect
\* stands for (addMileage, get_vehicle and CarFlow.Update's comparison).
THEOREM AccusedForAReason == Spec => []AccusedWithReason
<1>1. PageInv => AccusedWithReason
  BY DEF PageInv, OnlyRises, AccusedWithReason
<1> QED BY <1>1, PageInvariant, PTL

=============================================================================
