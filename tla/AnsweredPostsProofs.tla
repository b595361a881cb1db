------------------------- MODULE AnsweredPostsProofs -------------------------
(***************************************************************************)
(* What the client of a web server may rely on once its post is answered,  *)
(* for every set of cars, insurers, posts and threads: a posted policy is  *)
(* applied while the car has no event; and, if no node serves two posts at *)
(* the same time, a node has one chain of events and one car, an accident  *)
(* is counted, a mileage that was turned back makes a fraud, and a post    *)
(* about an event leaves the policy as it was.                             *)
(***************************************************************************)
EXTENDS CarVersionsProofs

-----------------------------------------------------------------------------
(* The ledgers grow.                                                        *)

LEMMA EventsTyped ==
    ASSUME LedgerInv
    PROVE  /\ Len(events) \in Nat /\ DOMAIN events = 1..Len(events)
           /\ \A i \in DOMAIN events :
                /\ events[i] \in EventTx
                /\ events[i].prev = 0 => events[i].id = i
                /\ events[i].prev # 0 =>
                     /\ events[i].prev \in 1..(i - 1)
                     /\ events[i].id = events[events[i].prev].id
                     /\ events[i].car = events[events[i].prev].car
<1>1. events \in Seq(EventTx) /\ Len(events) \in Nat /\ DOMAIN events = 1..Len(events)
      /\ Linear(events)
  BY LenProperties DEF LedgerInv, TypeOK, LinearHistory
<1>2. \A i \in DOMAIN events : events[i] \in EventTx
  BY <1>1, ElementOfSeq
<1>3. \A i \in DOMAIN events : events[i].prev \in Nat
  BY <1>2 DEF EventTx
<1> QED  BY <1>1, <1>2, <1>3 DEF Linear

\* What FinalizeEvent adds.
LEMMA EventAppended ==
    ASSUME LedgerInv, NEW r \in Requests, FinalizeEvent(r)
    PROVE  LET q == req[r]
               tx == BuiltEvent(q)
               N == Len(events)
           IN  /\ q \in Req /\ ReqKnown(q) /\ q.pc = "finalizeEvent" /\ q.node \in Cars
               /\ Len(events') = N + 1 /\ DOMAIN events' = 1..(N + 1)
               /\ events'[N + 1] = tx /\ \A i \in 1..N : events'[i] = events[i]
               /\ tx \in EventTx /\ tx.prev = q.event /\ q.event \in 0..N
               /\ tx.prev = 0 => tx.id = N + 1 /\ tx.car = q.node
               /\ tx.prev # 0 => tx.id = events[tx.prev].id /\ tx.car = events[tx.prev].car
<1> DEFINE q == req[r]
           tx == BuiltEvent(q)
<1>1. /\ q \in Req /\ ReqKnown(q) /\ q.pc = "finalizeEvent" /\ q.node \in Cars
      /\ events' = Append(events, tx) /\ q.event \in 0..Len(events)
  BY DEF LedgerInv, TypeOK, ReqsKnown, FinalizeEvent, ReqKnown
<1>2. /\ tx \in EventTx /\ tx.prev = q.event
      /\ tx.prev = 0 => tx.id = Len(events) + 1
      /\ tx.prev # 0 => tx.id = events[tx.prev].id /\ tx.car = events[tx.prev].car
  <2>1. PICK z \in Req : z = q
    BY <1>1
  <2> QED  BY <1>1, <2>1, BuiltEventFine
<1>3. tx.prev = 0 => tx.car = q.node
  BY <1>2 DEF BuiltEvent
<1>4. events \in Seq(EventTx)
  BY DEF LedgerInv, TypeOK
<1> HIDE DEF tx, q
<1>5. /\ Len(events') = Len(events) + 1 /\ DOMAIN events' = 1..(Len(events) + 1)
      /\ events'[Len(events) + 1] = tx /\ \A i \in 1..Len(events) : events'[i] = events[i]
  BY <1>1, <1>2, <1>4, AppendFacts
<1> QED  BY <1>1, <1>2, <1>3, <1>5 DEF tx, q

LEMMA OnlyFinalizeEvent ==
    ASSUME [Next]_vars, \A r \in Requests : ~FinalizeEvent(r)
    PROVE  events' = events
  BY DEF Next, Serve, SendCarEvent, SendCarPolicy, ReadEvent, FinalizeCar, LookupCar, ReadCar,
         ReadConsumed, NotaryRefuses, FlowFails, LoseRpc, Deliver, Quiescent, vars

LEMMA OnlyFinalizeAnswers ==
    ASSUME [Next]_vars, \A r \in Requests : ~FinalizeCar(r)
    PROVE  ackedEvents' = ackedEvents /\ ackedPolicies' = ackedPolicies
  BY DEF Next, Serve, SendCarEvent, SendCarPolicy, ReadEvent, FinalizeEvent, LookupCar, ReadCar,
         ReadConsumed, NotaryRefuses, FlowFails, LoseRpc, Deliver, Quiescent, vars

\* What is on a ledger stays there.
LEMMA LedgersGrow ==
    ASSUME LedgerInv, [Next]_vars
    PROVE  /\ \A i \in DOMAIN events : i \in DOMAIN events' /\ events'[i] = events[i]
           /\ \A i \in DOMAIN cars : i \in DOMAIN cars' /\ cars'[i] = cars[i]
           /\ \A n : EventsOf(n) \subseteq EventsOf(n)'
<1>1. \A i \in DOMAIN events : i \in DOMAIN events' /\ events'[i] = events[i]
  <2>1. ASSUME NEW r \in Requests, FinalizeEvent(r), NEW i \in DOMAIN events
        PROVE  i \in DOMAIN events' /\ events'[i] = events[i]
    BY <2>1, EventsTyped, EventAppended
  <2> QED  BY <2>1, OnlyFinalizeEvent
<1>2. \A i \in DOMAIN cars : i \in DOMAIN cars' /\ cars'[i] = cars[i]
  <2>1. ASSUME NEW r \in Requests, FinalizeCar(r), NEW i \in DOMAIN cars
        PROVE  i \in DOMAIN cars' /\ cars'[i] = cars[i]
    BY <2>1, CarsTyped, CarAppended
  <2> QED  BY <2>1, OnlyFinalizeCar
<1>3. \A n : EventsOf(n) \subseteq EventsOf(n)'
  BY <1>1 DEF EventsOf
<1> QED  BY <1>1, <1>2, <1>3

-----------------------------------------------------------------------------
(* A posted policy.                                                         *)

PolicyApplied ==
    \A p \in ackedPolicies :
        /\ p.car \in DOMAIN cars
        /\ \/ cars[p.car].terms = p.terms
           \/ \E e \in DOMAIN events : events[e].car = cars[p.car].car

LEMMA PolicyAppliedStep ==
    ASSUME LedgerInv, PolicyApplied, [Next]_vars
    PROVE  PolicyApplied'
<1>1. \A p \in ackedPolicies :
        /\ p.car \in DOMAIN cars'
        /\ \/ cars'[p.car].terms = p.terms
           \/ \E e \in DOMAIN events' : events'[e].car = cars'[p.car].car
  BY LedgersGrow DEF PolicyApplied
<1>2. CASE ackedPolicies' = ackedPolicies
  BY <1>1, <1>2 DEF PolicyApplied
<1>3. ASSUME NEW r \in Requests, FinalizeCar(r), ackedPolicies' # ackedPolicies
      PROVE  PolicyApplied'
  <2> DEFINE q == req[r]
             tx == BuiltCar(q)
             N == Len(cars)
  <2>1. /\ q \in Req /\ ReqKnown(q) /\ q.pc = "finalizeCar"
        /\ N + 1 \in DOMAIN cars' /\ cars'[N + 1] = tx /\ tx \in CarTx /\ tx.prev = q.carRef
        /\ tx.prev # 0 => tx.car = cars[tx.prev].car
        /\ N \in Nat /\ q.carRef \in 0..N /\ DOMAIN cars = 1..N
    BY <1>3, CarAppended, CarsTyped
  <2>2. ackedPolicies' = ackedPolicies \cup {[terms |-> q.terms, car |-> N + 1]}
        /\ events' = events
    BY <1>3 DEF FinalizeCar
  <2>3. CASE q.event # 0
    <3>1. q.event \in DOMAIN events /\ q.carRef # 0 /\ events[q.event].car = cars[q.carRef].car
      BY <2>1, <2>3, EventsTyped DEF ReqKnown
    <3>2. \E e \in DOMAIN events' : events'[e].car = cars'[N + 1].car
      BY <2>1, <2>2, <3>1
    <3> QED  BY <1>1, <2>1, <2>2, <3>2 DEF PolicyApplied
  <2>4. CASE q.event = 0
    <3>1. tx.terms = q.terms
      <4>1. CASE q.carRef = 0
        BY <4>1 DEF BuiltCar, CreatedCar
      <4>2. CASE q.carRef # 0
        <5>1. cars[q.carRef] \in CarTx
          BY <2>1, <4>2, CarsTyped
        <5> QED  BY <2>4, <4>2, <5>1 DEF BuiltCar, UpdatedCar, Repoliced, CarTx
      <4> QED  BY <4>1, <4>2
    <3> QED  BY <1>1, <2>1, <2>2, <3>1 DEF PolicyApplied
  <2> QED  BY <2>3, <2>4
<1> QED  BY <1>2, <1>3, OnlyFinalizeAnswers

\* The terms of a policy that was answered OK are those of the car, unless the car has an
\* event, however the requests interleave: CarFlow.Update ignores them for an event of that
\* very car only.
THEOREM PoliciesAreApplied == Spec => []AckedPolicyApplied
<1>1. Init => PolicyApplied
  BY DEF Init, PolicyApplied
<1>2. LedgerInv /\ PolicyApplied /\ [Next]_vars => PolicyApplied'
  BY PolicyAppliedStep
<1>3. PolicyApplied => AckedPolicyApplied
  BY DEF PolicyApplied, AckedPolicyApplied, EventsOf
<1> QED  BY <1>1, <1>2, <1>3, LedgerInvariant, PTL DEF Spec

-----------------------------------------------------------------------------
(* What the queries return.                                                 *)

\* The newest event of a car is consumed by none.
LEMMA NewestUnconsumed ==
    ASSUME LedgerInv, NEW n, NEW e, IsNewestEvent(e, n), NEW k \in 0..Len(events)
    PROVE  e \in 1..Len(events) /\ events[e].car = n /\ ~ConsumedBy(e, k)
<1>1. e \in 1..Len(events) /\ events[e].car = n
  BY EventsTyped DEF IsNewestEvent, EventsOf
<1>2. ASSUME NEW j \in 1..k, events[j].prev = e
      PROVE  FALSE
  <2>1. j \in DOMAIN events /\ e \in 1..(j - 1) /\ events[j].car = n
    BY <1>1, <1>2, EventsTyped
  <2>2. j <= e
    BY <2>1 DEF IsNewestEvent, EventsOf
  <2> QED  BY <1>1, <2>1, <2>2
<1> QED  BY <1>1, <1>2 DEF ConsumedBy

\* getLastState finds the newest event of the car, if it has one.
LEMMA LastEventIsNewest ==
    ASSUME LedgerInv, NEW n, EventsOf(n) # {}
    PROVE  LastEvent(n) # 0 /\ IsNewestEvent(LastEvent(n), n)
<1> DEFINE N == Len(events)
           E == EventsOf(n)
           U == UnconsumedEvents(n)
           m == Latest(E)
<1>1. N \in Nat /\ E \in SUBSET (1..N) /\ U \subseteq E /\ U \in SUBSET (1..N)
  BY EventsTyped DEF EventsOf, UnconsumedEvents
<1> HIDE DEF E, U
<1>2. m \in E /\ \A i \in E : i <= m
  BY <1>1, LatestIsLast DEF E
<1> HIDE DEF m
<1>3. m \in U
  <2>1. IsNewestEvent(m, n)
    BY <1>2 DEF IsNewestEvent, E
  <2>2. ~ConsumedBy(m, N)
    BY <1>1, <2>1, NewestUnconsumed
  <2> QED  BY <1>2, <2>2 DEF UnconsumedEvents, U, E
<1>4. Latest(U) \in U /\ \A i \in U : i <= Latest(U)
  BY <1>1, <1>3, LatestIsLast
<1>5. Latest(U) = m
  <2>1. Latest(U) \in 1..N /\ m \in 1..N /\ Latest(U) <= m /\ m <= Latest(U)
    BY <1>1, <1>2, <1>3, <1>4
  <2> QED  BY <1>1, <2>1
<1>6. LastEvent(n) = m
  BY <1>3, <1>5 DEF LastEvent, U
<1> QED  BY <1>1, <1>2, <1>6 DEF IsNewestEvent, E

LEMMA NewestIsOne ==
    ASSUME LedgerInv, NEW n, NEW d, NEW e, IsNewestEvent(d, n), IsNewestEvent(e, n)
    PROVE  d = e
<1>1. d \in Nat /\ e \in Nat /\ d <= e /\ e <= d
  BY EventsTyped DEF IsNewestEvent, EventsOf
<1> QED  BY <1>1

\* The last consumed event of its chain is the one the newest has replaced, if any.
LEMMA LastConsumedOfNewest ==
    ASSUME LedgerInv, NEW k \in 0..Len(events), NEW e \in 1..k, ~ConsumedBy(e, k)
    PROVE  LastConsumed(e, k) = events[e].prev
<1>1. /\ events \in Seq(EventTx) /\ Linear(events) /\ OneTip
      /\ Len(events) \in Nat /\ e \in DOMAIN events
  BY EventsTyped DEF LedgerInv, TypeOK, LinearHistory
<1>2. CASE LastConsumed(e, k) # 0
  BY <1>1, <1>2, LastConsumedIsPredecessor
<1>3. CASE LastConsumed(e, k) = 0
  <2> SUFFICES ASSUME events[e].prev # 0 PROVE FALSE
    BY <1>3
  <2> DEFINE p == events[e].prev
             C == ConsumedEvents(e, k)
  <2>1. p \in 1..(e - 1) /\ events[e].id = events[p].id
    BY <1>1, EventsTyped
  <2>2. ConsumedBy(p, k)
    BY DEF ConsumedBy
  <2>3. k \in Nat /\ p \in 1..k
    BY <1>1, <2>1
  <2>4. p \in C /\ C \in SUBSET (1..k)
    BY <2>1, <2>2, <2>3 DEF ConsumedEvents
  <2> HIDE DEF C, p
  <2>5. Latest(C) \in C
    BY <2>3, <2>4, LatestIsLast
  <2>6. LastConsumed(e, k) = Latest(C)
    BY <2>4 DEF LastConsumed, C
  <2> QED  BY <1>3, <2>3, <2>4, <2>5, <2>6
<1> QED  BY <1>2, <1>3

\* getUnconsumedCar finds a car on the node of a car that has one.
LEMMA CarShowsItself ==
    ASSUME LedgerInv, HomeRecorded, NEW i \in DOMAIN cars
    PROVE  UnconsumedCars(cars[i].car) # {}
<1> DEFINE n == cars[i].car
           S == {j \in Recorded(n) : cars[j].car = n}
           m == Latest(S)
<1>1. n \in Cars /\ n \in Nodes /\ Len(cars) \in Nat
  BY CarsTyped DEF CarTx, Nodes
<1>2. Recorded(n) \subseteq 1..Len(cars)
  BY <1>1, CarsTyped DEF Recorded, LedgerInv, VaultKnown
<1>3. S \in SUBSET (1..Len(cars)) /\ S # {}
  BY <1>2 DEF HomeRecorded
<1> HIDE DEF S
<1>4. m \in S /\ \A j \in S : j <= m
  BY <1>1, <1>3, LatestIsLast
<1> HIDE DEF m
<1>5. m \in Recorded(n) /\ cars[m].car = n /\ m \in 1..Len(cars)
  BY <1>3, <1>4 DEF S
<1>6. ASSUME NEW j \in Recorded(n), cars[j].prev = m
      PROVE  FALSE
  <2>1. j \in DOMAIN cars /\ j \in Nat /\ m # 0
    BY <1>1, <1>2, <1>5, CarsTyped
  <2>2. m \in 1..(j - 1) /\ cars[j].car = n
    BY <1>5, <1>6, <2>1, CarsTyped
  <2>3. j \in S
    BY <2>2 DEF S
  <2> QED  BY <1>4, <1>5, <2>1, <2>2, <2>3
<1>7. PICK p \in DOMAIN vault[n] : vault[n][p] = m
  BY <1>5 DEF Recorded
<1> HIDE DEF n
<1>8. UnconsumedAt(n, p)
  BY <1>5, <1>6, <1>7 DEF UnconsumedAt, Participants
<1> QED  BY <1>8 DEF UnconsumedCars, UnconsumedPositions, n

-----------------------------------------------------------------------------
(* What a post knows of its node.                                           *)

PostsKnown == \A r \in Requests : PostKnown(req[r])

\* It stays so while others write about other cars.
LEMMA PostKnownStable ==
    ASSUME LedgerInv, NEW q \in Req, ReqKnown(q), PostKnown(q),
           EventsOf(q.node)' = EventsOf(q.node),
           \A i \in DOMAIN events : events'[i] = events[i],
           (\A i \in DOMAIN cars : cars[i].car # q.node)
             => \A i \in DOMAIN cars' : cars'[i].car # q.node
    PROVE  PostKnown(q)'
<1>1. q.event \in 0..Len(events) /\ DOMAIN events = 1..Len(events) /\ Len(events) \in Nat
  BY EventsTyped DEF ReqKnown
<1>2. q.event # 0 => events'[q.event] = events[q.event]
  BY <1>1
<1>3. IsNewestEvent(q.own, q.node) => events'[q.own] = events[q.own]
  BY DEF IsNewestEvent, EventsOf
<1>4. IsNewestEvent(q.own, q.node) => IsNewestEvent(q.own, q.node)'
  BY DEF IsNewestEvent
<1> QED  BY <1>2, <1>3, <1>4 DEF PostKnown

\* A step of a request that writes on no ledger.
LEMMA PostReads ==
    ASSUME LedgerInv, PostsKnown, NEW r \in Requests, NEW q, PostKnown(q),
           req' = [req EXCEPT ![r] = q], UNCHANGED <<events, cars>>
    PROVE  PostsKnown'
<1> SUFFICES ASSUME NEW s \in Requests PROVE PostKnown(req'[s])
  BY DEF PostsKnown, PostKnown, IsNewestEvent, EventsOf
<1> QED  BY DEF PostsKnown, LedgerInv, TypeOK

LEMMA IdlePostKnown == PostKnown(IdleReq)
  BY DEF PostKnown, IdleReq

LEMMA SendCarEventPost ==
    ASSUME LedgerInv, PostsKnown, NEW r \in Requests, SendCarEvent(r)
    PROVE  PostsKnown'
<1> DEFINE q(n, post) == [IdleReq EXCEPT !.pc = IF EventsOf(n) # {} THEN "readEvent"
                                                ELSE "finalizeEvent",
                                         !.node = n, !.vin = post.vin,
                                         !.mileage = post.mileage,
                                         !.accident = post.accident]
<1>1. PICK n \in Cars, post \in EventPosts : req' = [req EXCEPT ![r] = q(n, post)]
  BY DEF SendCarEvent
<1>2. PostKnown(q(n, post))
  BY DEF PostKnown, IdleReq
<1> HIDE DEF q
<1> QED  BY <1>1, <1>2, PostReads DEF SendCarEvent

LEMMA SendCarPolicyPost ==
    ASSUME LedgerInv, HomeRecorded, PostsKnown, NEW r \in Requests, SendCarPolicy(r)
    PROVE  PostsKnown'
<1> DEFINE q(n, post) == [IdleReq EXCEPT !.pc = IF UnconsumedCars(n) # {} THEN "readCar"
                                                ELSE "finalizeCar",
                                         !.op = "policy", !.node = n, !.vin = post.vin,
                                         !.insurer = post.insurer,
                                         !.terms = post.terms, !.details = post.terms]
<1>1. PICK n \in PolicyNodes, post \in PolicyPosts : req' = [req EXCEPT ![r] = q(n, post)]
  BY DEF SendCarPolicy
<1>2. UnconsumedCars(n) = {} => \A i \in DOMAIN cars : cars[i].car # n
  BY CarShowsItself
<1>3. PostKnown(q(n, post))
  BY <1>2 DEF PostKnown, IdleReq
<1> HIDE DEF q
<1> QED  BY <1>1, <1>3, PostReads DEF SendCarPolicy

LEMMA ReadEventPost ==
    ASSUME LedgerInv, PostsKnown, NEW r \in Requests, ReadEvent(r)
    PROVE  PostsKnown'
<1> DEFINE n == req[r].node
           q == [req[r] EXCEPT !.pc = "finalizeEvent", !.event = LastEvent(n)]
<1>1. req[r] \in Req /\ n \in Nodes
  BY DEF LedgerInv, TypeOK, Req
<1>2. q.pc = "finalizeEvent" /\ q.event = LastEvent(n) /\ q.node = n
  BY <1>1 DEF Req
<1>3. IF q.event = 0 THEN EventsOf(n) = {} ELSE events[q.event].car = n
  BY <1>1, <1>2, QueriesFine, LastEventIsNewest
<1>4. req' = [req EXCEPT ![r] = q]
  BY DEF ReadEvent, LedgerInv, TypeOK
<1> HIDE DEF q, n
<1>5. PostKnown(q)
  BY <1>2, <1>3 DEF PostKnown
<1> QED  BY <1>4, <1>5, PostReads DEF ReadEvent

LEMMA LookupCarPost ==
    ASSUME LedgerInv, PostsKnown, NEW r \in Requests, LookupCar(r)
    PROVE  PostsKnown'
<1>1. CASE Answer(r)
  BY <1>1, IdlePostKnown, PostReads DEF Answer, LookupCar
<1>2. CASE ~Answer(r)
  <2> DEFINE q(i) == [req[r] EXCEPT !.pc = "readCar", !.insurer = cars[i].insurer,
                                    !.terms = cars[i].terms, !.details = cars[i].details]
  <2>1. req \in [Requests -> Req] /\ req[r] \in Req
    BY DEF LedgerInv, TypeOK
  <2>2. PICK i : req' = [req EXCEPT ![r].pc = "readCar", ![r].insurer = cars[i].insurer,
                                    ![r].terms = cars[i].terms,
                                    ![r].details = cars[i].details]
    BY <1>2 DEF LookupCar
  <2>3. req' = [req EXCEPT ![r] = q(i)]
    BY <2>1, <2>2
  <2>4. /\ q(i).pc = "readCar" /\ q(i).op = req[r].op /\ q(i).own = req[r].own
        /\ q(i).node = req[r].node
    BY <2>1 DEF Req
  <2>5. PostKnown(req[r]) /\ req[r].pc = "lookup"
    BY DEF LookupCar, PostsKnown
  <2> HIDE DEF q
  <2>6. PostKnown(q(i))
    BY <2>4, <2>5 DEF PostKnown
  <2> QED  BY <2>3, <2>6, PostReads DEF LookupCar
<1> QED  BY <1>1, <1>2

LEMMA ReadCarPost ==
    ASSUME LedgerInv, PostsKnown, NEW r \in Requests, ReadCar(r)
    PROVE  PostsKnown'
<1> DEFINE p == req[r]
           n == p.node
           q == [p EXCEPT !.pc = IF LastEvent(n) = 0 THEN "finalizeCar" ELSE "readConsumed",
                          !.carRef = LastCar(n), !.event = LastEvent(n),
                          !.snap = Len(events)]
<1>1. p \in Req /\ n \in Nodes /\ PostKnown(p) /\ p.pc = "readCar"
  BY DEF LedgerInv, TypeOK, Req, PostsKnown, ReadCar
<1>2. CASE LastCar(n) = 0
  BY <1>2, IdlePostKnown, PostReads DEF ReadCar, Answer
<1>3. CASE LastCar(n) # 0
  <2>1. /\ q.pc = IF LastEvent(n) = 0 THEN "finalizeCar" ELSE "readConsumed"
        /\ q.carRef # 0 /\ q.event = LastEvent(n)
        /\ q.op = p.op /\ q.own = p.own /\ q.node = n
    BY <1>1, <1>3 DEF Req
  <2>2. req' = [req EXCEPT ![r] = q]
    BY <1>3 DEF ReadCar, LedgerInv, TypeOK
  <2>3. p.op = "event" => IsNewestEvent(p.own, n)
    BY <1>1 DEF PostKnown
  <2> HIDE DEF q, n, p
  <2>4. p.op = "event" => LastEvent(n) # 0 /\ LastEvent(n) = p.own
    <3> SUFFICES ASSUME p.op = "event" PROVE LastEvent(n) # 0 /\ LastEvent(n) = p.own
      OBVIOUS
    <3>1. EventsOf(n) # {}
      BY <2>3 DEF IsNewestEvent
    <3> QED  BY <2>3, <3>1, LastEventIsNewest, NewestIsOne
  <2>5. PostKnown(q)
    BY <2>1, <2>3, <2>4 DEF PostKnown
  <2> QED  BY <2>2, <2>5, PostReads DEF ReadCar
<1> QED  BY <1>2, <1>3

LEMMA ReadConsumedPost ==
    ASSUME LedgerInv, PostsKnown, NEW r \in Requests, ReadConsumed(r)
    PROVE  PostsKnown'
<1> DEFINE p == req[r]
           view == IF SnapshotReads THEN p.snap ELSE Len(events)
           last == LastConsumed(p.event, view)
           q == [p EXCEPT !.pc = "finalizeCar", !.last = last]
<1>1. p \in Req /\ PostKnown(p) /\ ReqKnown(p) /\ p.pc = "readConsumed"
  BY DEF LedgerInv, TypeOK, PostsKnown, ReqsKnown, ReadConsumed
<1>2. /\ q.pc = "finalizeCar" /\ q.last = last
      /\ q.op = p.op /\ q.own = p.own /\ q.node = p.node
      /\ q.event = p.event /\ q.carRef = p.carRef
  BY <1>1 DEF Req
<1>3. req' = [req EXCEPT ![r] = q]
  BY DEF ReadConsumed, LedgerInv, TypeOK
<1>4. p.op = "event" => p.event = p.own /\ IsNewestEvent(p.own, p.node)
  BY <1>1 DEF PostKnown
<1>5. p.carRef # 0 /\ p.event \in 0..Len(events) /\ p.event # 0
      /\ p.snap \in 0..Len(events) /\ p.event <= p.snap /\ Len(events) \in Nat
  BY <1>1, EventsTyped DEF ReqKnown
<1>6. p.op = "event" => last = events[p.own].prev
  <2> SUFFICES ASSUME p.op = "event" PROVE last = events[p.own].prev
    OBVIOUS
  <2>1. view \in 0..Len(events) /\ p.own \in 1..view
    BY <1>4, <1>5
  <2> HIDE DEF view, p
  <2>2. ~ConsumedBy(p.own, view)
    BY <1>4, <2>1, NewestUnconsumed
  <2> QED  BY <1>4, <2>1, <2>2, LastConsumedOfNewest
<1> HIDE DEF q, last, view, p
<1>7. PostKnown(q)
  BY <1>2, <1>4, <1>5, <1>6 DEF PostKnown
<1> QED  BY <1>3, <1>7, PostReads DEF ReadConsumed

LEMMA AbortPost ==
    ASSUME LedgerInv, PostsKnown, NEW r \in Requests,
           NotaryRefuses(r) \/ FlowFails(r) \/ LoseRpc(r)
    PROVE  PostsKnown'
<1>1. CASE Answer(r)
  BY <1>1, IdlePostKnown, PostReads DEF Answer, NotaryRefuses, FlowFails, LoseRpc
<1>2. CASE req' = [req EXCEPT ![r].live = FALSE]
  <2> DEFINE q == [req[r] EXCEPT !.live = FALSE]
  <2>1. req[r] \in Req /\ PostKnown(req[r])
    BY DEF LedgerInv, TypeOK, PostsKnown
  <2>2. /\ q.pc = req[r].pc /\ q.op = req[r].op /\ q.own = req[r].own
        /\ q.node = req[r].node /\ q.event = req[r].event
        /\ q.carRef = req[r].carRef /\ q.last = req[r].last
    BY <2>1 DEF Req
  <2>3. req' = [req EXCEPT ![r] = q]
    BY <1>2 DEF LedgerInv, TypeOK
  <2> HIDE DEF q
  <2>4. PostKnown(q)
    BY <2>1, <2>2 DEF PostKnown
  <2> QED  BY <2>3, <2>4, PostReads DEF NotaryRefuses, FlowFails, LoseRpc
<1> QED  BY <1>1, <1>2 DEF NotaryRefuses, FlowFails, LoseRpc

\* The event of one node is none of another's.
LEMMA FinalizeEventPost ==
    ASSUME LedgerInv, OnePostPerNode, PostsKnown, NEW r \in Requests, FinalizeEvent(r)
    PROVE  PostsKnown' /\ events'[Len(events) + 1].car = req[r].node
<1>1. PICK N, n : N = Len(events) /\ n = req[r].node
  OBVIOUS
<1>2. /\ req[r] \in Req /\ req[r].pc = "finalizeEvent" /\ n \in Cars
      /\ DOMAIN events' = 1..(N + 1) /\ \A i \in 1..N : events'[i] = events[i]
      /\ req[r].event \in 0..N
      /\ IF req[r].event = 0 THEN events'[N + 1].car = n
         ELSE events'[N + 1].car = events[req[r].event].car
      /\ N \in Nat /\ DOMAIN events = 1..N
  BY <1>1, EventAppended, EventsTyped
<1>3. events'[N + 1].car = n
  BY <1>1, <1>2 DEF PostsKnown, PostKnown
<1>4. cars' = cars /\ \A s \in Requests \ {r} : req'[s] = req[s]
  BY DEF FinalizeEvent, Answer, LedgerInv, TypeOK
<1>5. ASSUME NEW s \in Requests \ {r} PROVE PostKnown(req[s])'
  <2>1. PICK q \in Req : q = req[s] /\ ReqKnown(q) /\ PostKnown(q)
    BY DEF LedgerInv, TypeOK, ReqsKnown, PostsKnown
  <2>2. CASE q.pc = "idle"
    <3>1. PostKnown(q)'
      BY <2>2 DEF PostKnown
    <3> QED  BY <1>4, <2>1, <3>1 DEF PostKnown, IsNewestEvent, EventsOf
  <2>3. CASE q.pc # "idle"
    <3>1. q.node # n
      BY <1>1, <1>2, <2>1, <2>3 DEF OnePostPerNode, Idle
    <3>2. EventsOf(q.node)' = EventsOf(q.node)
      BY <1>2, <1>3, <3>1 DEF EventsOf
    <3>3. \A i \in DOMAIN events : events'[i] = events[i]
      BY <1>2
    <3>4. PostKnown(q)'
      BY <1>4, <2>1, <3>2, <3>3, PostKnownStable
    <3> QED  BY <1>4, <2>1, <3>4 DEF PostKnown, IsNewestEvent, EventsOf
  <2> QED  BY <2>2, <2>3
<1>6. PostKnown(req[r])'
  <2> DEFINE lookup == [IdleReq EXCEPT !.pc = "lookup", !.node = n, !.vin = req[r].vin,
                                       !.own = N + 1]
  <2>1. PICK q : q = req'[r] /\ q \in {lookup, IdleReq}
    BY <1>1 DEF FinalizeEvent, Answer, LedgerInv, TypeOK
  <2>2. q.pc = "idle" \/ (q.pc = "lookup" /\ q.node = n /\ q.own = N + 1)
    <3>1. /\ IdleReq.pc = "idle"
          /\ lookup.pc = "lookup" /\ lookup.node = n /\ lookup.own = N + 1
      BY DEF IdleReq
    <3> HIDE DEF lookup
    <3> QED  BY <2>1, <3>1
  <2>3. IsNewestEvent(N + 1, n)'
    <3>1. EventsOf(n)' \subseteq 1..(N + 1) /\ N + 1 \in EventsOf(n)'
      BY <1>2, <1>3 DEF EventsOf
    <3> QED  BY <1>2, <3>1 DEF IsNewestEvent
  <2>4. PostKnown(q)'
    BY <2>2, <2>3 DEF PostKnown
  <2> QED  BY <2>1, <2>4 DEF PostKnown, IsNewestEvent, EventsOf
<1> QED  BY <1>1, <1>3, <1>5, <1>6 DEF PostsKnown

\* The CarState of one node is none of another's.
LEMMA FinalizeCarPost ==
    ASSUME LedgerInv, OnePostPerNode, PostsKnown, NEW r \in Requests, FinalizeCar(r)
    PROVE  PostsKnown'
<1>1. PICK N, n : N = Len(cars) /\ n = req[r].node
  OBVIOUS
<1>2. /\ req[r].pc = "finalizeCar"
      /\ DOMAIN cars' = 1..(N + 1) /\ \A i \in 1..N : cars'[i] = cars[i]
      /\ N \in Nat /\ DOMAIN cars = 1..N
  BY <1>1, CarAppended, CarsTyped
<1>3. \/ cars'[N + 1].car = n
      \/ \E i \in 1..N : cars'[N + 1].car = cars[i].car
  <2> DEFINE tx == BuiltCar(req[r])
  <2>1. /\ cars'[N + 1] = tx /\ tx.prev = req[r].carRef /\ tx.prev \in 0..N
        /\ tx.prev # 0 => tx.car = cars[tx.prev].car
    BY <1>1, CarAppended
  <2>2. req[r].carRef = 0 => tx.car = n
    BY <1>1 DEF BuiltCar, CreatedCar
  <2> QED  BY <1>2, <2>1, <2>2
<1>4. events' = events /\ req' = [req EXCEPT ![r] = IdleReq]
  BY DEF FinalizeCar, Answer
<1>5. ASSUME NEW s \in Requests PROVE PostKnown(req[s])'
  <2>1. PICK q \in Req : q = req'[s] /\ ReqKnown(q) /\ PostKnown(q)
                        /\ (q.pc = "idle" \/ (s # r /\ q = req[s]))
    <3>1. req \in [Requests -> Req] /\ IdleReq.pc = "idle"
      BY DEF LedgerInv, TypeOK, IdleReq
    <3>2. CASE s = r
      BY <1>4, <3>1, <3>2, IdleReqFine, IdlePostKnown
    <3>3. CASE s # r
      BY <1>4, <3>1, <3>3 DEF LedgerInv, ReqsKnown, PostsKnown
    <3> QED  BY <3>2, <3>3
  <2>2. CASE q.pc = "idle"
    <3>1. PostKnown(q)'
      BY <2>2 DEF PostKnown
    <3> QED  BY <2>1, <3>1 DEF PostKnown, IsNewestEvent, EventsOf
  <2>3. CASE q.pc # "idle"
    <3>1. q.node # n
      BY <1>1, <1>2, <2>1, <2>3 DEF OnePostPerNode, Idle
    <3>2. (\A i \in DOMAIN cars : cars[i].car # q.node)
             => \A i \in DOMAIN cars' : cars'[i].car # q.node
      BY <1>2, <1>3, <3>1
    <3>3. EventsOf(q.node)' = EventsOf(q.node)
      BY <1>4 DEF EventsOf
    <3>4. PostKnown(q)'
      BY <1>4, <2>1, <3>2, <3>3, PostKnownStable
    <3> QED  BY <2>1, <3>4 DEF PostKnown, IsNewestEvent, EventsOf
  <2> QED  BY <2>2, <2>3
<1> QED  BY <1>5 DEF PostsKnown

LEMMA PostsKnownStep ==
    ASSUME LedgerInv, OnePostPerNode, HomeRecorded, PostsKnown, [Next]_vars
    PROVE  PostsKnown'
<1>1. ASSUME NEW r \in Requests,
             SendCarEvent(r) \/ SendCarPolicy(r) \/ Serve(r) \/ FlowFails(r) \/ LoseRpc(r)
      PROVE  PostsKnown'
  BY <1>1, SendCarEventPost, SendCarPolicyPost, ReadEventPost, FinalizeEventPost, LookupCarPost,
     ReadCarPost, ReadConsumedPost, FinalizeCarPost, AbortPost DEF Serve
<1>2. CASE UNCHANGED <<events, cars, req>>
  BY <1>2 DEF PostsKnown, PostKnown, IsNewestEvent, EventsOf
<1> QED  BY <1>1, <1>2 DEF Next, Deliver, Quiescent, vars

\* A node forgets nothing it has recorded.
LEMMA VaultGrows ==
    ASSUME LedgerInv, [Next]_vars, NEW n \in Nodes
    PROVE  Recorded(n) \subseteq Recorded(n)'
<1>1. ASSUME NEW m \in Nodes, NEW i, i \in Nat, vault' = [vault EXCEPT ![m] = Append(@, i)]
      PROVE  Recorded(n) \subseteq Recorded(n)'
  <2>1. Entries(vault[n]) \subseteq Entries(vault'[n])
    BY <1>1, RecordedAppend
  <2> QED  BY <2>1 DEF Entries, Recorded
<1>2. ASSUME NEW r \in Requests, FinalizeCar(r)
      PROVE  Recorded(n) \subseteq Recorded(n)'
  <2>1. Len(cars) + 1 \in Nat /\ req[r].node \in Nodes
    BY <1>2, CarAppended, CarsTyped
  <2> QED  BY <1>1, <1>2, <2>1 DEF FinalizeCar
<1>3. ASSUME NEW m \in Nodes, NEW i \in DOMAIN cars, Deliver(m, i)
      PROVE  Recorded(n) \subseteq Recorded(n)'
  <2>1. i \in Nat
    BY CarsTyped
  <2> QED  BY <1>1, <1>3, <2>1 DEF Deliver
<1>4. CASE vault' = vault
  BY <1>4 DEF Recorded
<1> QED  BY <1>2, <1>3, <1>4 DEF Next, Serve, SendCarEvent, SendCarPolicy, ReadEvent,
            FinalizeEvent, LookupCar, ReadCar, ReadConsumed, NotaryRefuses, FlowFails, LoseRpc,
            Quiescent, vars

\* The node that posts records the transaction at once.
LEMMA PosterRecords ==
    ASSUME LedgerInv, NEW r \in Requests, FinalizeCar(r), NEW n, n = req[r].node
    PROVE  n \in Nodes /\ Recorded(n)' = Recorded(n) \cup {Len(cars) + 1}
<1>1. Len(cars) + 1 \in Nat /\ n \in Nodes
  BY CarAppended, CarsTyped
<1>2. Entries(vault'[n]) = Entries(vault[n]) \cup {Len(cars) + 1}
  BY <1>1, RecordedAppend DEF FinalizeCar
<1> QED  BY <1>1, <1>2 DEF Entries, Recorded

\* A car records its own transactions as it makes them, and keeps them.
LEMMA HomeRecordedStep ==
    ASSUME LedgerInv, HomeRecorded, [Next]_vars
    PROVE  HomeRecorded'
<1>1. ASSUME NEW i \in DOMAIN cars, NEW n, n = cars[i].car
      PROVE  \E j \in Recorded(n)' : cars'[j].car = n
  <2>1. n \in Nodes
    BY <1>1, CarsTyped DEF CarTx, Nodes
  <2>2. PICK j \in Recorded(n) : cars[j].car = n
    BY <1>1 DEF HomeRecorded
  <2>3. j \in DOMAIN cars
    BY <2>1, <2>2 DEF Recorded, LedgerInv, VaultKnown
  <2>4. j \in Recorded(n)'
    BY <2>1, <2>2, VaultGrows
  <2> QED  BY <2>2, <2>3, <2>4, LedgersGrow
<1>2. ASSUME NEW i \in DOMAIN cars', NEW n, n = cars'[i].car
      PROVE  \E j \in Recorded(n)' : cars'[j].car = n
  <2>1. CASE cars' = cars
    BY <1>1, <1>2, <2>1
  <2>2. ASSUME NEW r \in Requests, FinalizeCar(r)
        PROVE  \E j \in Recorded(n)' : cars'[j].car = n
    <3> DEFINE tx == BuiltCar(req[r])
               N == Len(cars)
    <3>1. /\ DOMAIN cars' = 1..(N + 1) /\ cars'[N + 1] = tx
          /\ \A j \in 1..N : cars'[j] = cars[j]
          /\ N \in Nat /\ DOMAIN cars = 1..N
          /\ tx.prev = req[r].carRef /\ tx.prev \in 0..N
          /\ tx.prev # 0 => tx.car = cars[tx.prev].car
      BY <2>2, CarAppended, CarsTyped
    <3>2. req[r].carRef = 0 => tx.car = req[r].node
      BY DEF BuiltCar, CreatedCar
    <3> HIDE DEF tx
    <3>3. CASE i \in 1..N
      BY <1>1, <1>2, <3>1, <3>3
    <3>4. CASE i = N + 1 /\ tx.prev # 0
      <4>1. n = cars[tx.prev].car /\ tx.prev \in DOMAIN cars
        BY <1>2, <3>1, <3>4
      <4> QED  BY <1>1, <4>1
    <3>5. CASE i = N + 1 /\ tx.prev = 0
      <4>1. n = req[r].node
        BY <1>2, <3>1, <3>2, <3>5
      <4>2. N + 1 \in Recorded(n)'
        BY <2>2, <4>1, PosterRecords
      <4> QED  BY <1>2, <3>5, <4>2
    <3> QED  BY <1>2, <3>1, <3>3, <3>4, <3>5
  <2> QED  BY <2>1, <2>2, OnlyFinalizeCar
<1> QED  BY <1>2 DEF HomeRecorded, Recorded

-----------------------------------------------------------------------------
(* One chain of events and one car per node.                                *)

OneChain(ledger) ==
    \A i, j \in DOMAIN ledger : ledger[i].car = ledger[j].car => ledger[i].id = ledger[j].id

\* A transaction continues a chain, or starts the first of its car.
LEMMA OneChainAppend ==
    ASSUME NEW ledger, NEW new, NEW N \in Nat, OneChain(ledger), DOMAIN ledger = 1..N,
           DOMAIN new = 1..(N + 1), \A i \in 1..N : new[i] = ledger[i],
           \/ \A i \in 1..N : ledger[i].car # new[N + 1].car
           \/ \E p \in 1..N : new[N + 1].id = ledger[p].id /\ new[N + 1].car = ledger[p].car
    PROVE  OneChain(new)
<1>1. ASSUME NEW i \in 1..N, new[i].car = new[N + 1].car
      PROVE  new[i].id = new[N + 1].id
  BY <1>1 DEF OneChain
<1>2. ASSUME NEW i \in 1..N, NEW j \in 1..N, new[i].car = new[j].car
      PROVE  new[i].id = new[j].id
  BY <1>2 DEF OneChain
<1>3. \A i \in DOMAIN new : i \in 1..N \/ i = N + 1
  OBVIOUS
<1> QED  BY <1>1, <1>2, <1>3 DEF OneChain

LEMMA OneChainStep ==
    ASSUME LedgerInv, OnePostPerNode, PostsKnown, OneChainPerNode, [Next]_vars
    PROVE  OneChainPerNode'
<1>1. OneChain(events) /\ OneChain(cars)
  BY DEF OneChainPerNode, OneChain
<1>2. ASSUME NEW r \in Requests, FinalizeEvent(r)
      PROVE  OneChain(events')
  <2> DEFINE N == Len(events)
             q == req[r]
  <2>1. /\ DOMAIN events' = 1..(N + 1) /\ \A i \in 1..N : events'[i] = events[i]
        /\ N \in Nat /\ DOMAIN events = 1..N /\ q.event \in 0..N
        /\ q.event # 0 => /\ events'[N + 1].id = events[q.event].id
                          /\ events'[N + 1].car = events[q.event].car
    BY <1>2, EventAppended, EventsTyped
  <2>2. events'[N + 1].car = q.node /\ PostKnown(q) /\ q.pc = "finalizeEvent"
    BY <1>2, FinalizeEventPost, EventAppended DEF PostsKnown
  <2>3. q.event = 0 => \A i \in 1..N : events[i].car # events'[N + 1].car
    BY <2>1, <2>2 DEF PostKnown, EventsOf
  <2> HIDE DEF N, q
  <2> QED  BY <1>1, <2>1, <2>3, OneChainAppend, SMTT(30)
<1>3. ASSUME NEW r \in Requests, FinalizeCar(r)
      PROVE  OneChain(cars')
  <2> DEFINE N == Len(cars)
             q == req[r]
             tx == BuiltCar(q)
  <2>1. /\ DOMAIN cars' = 1..(N + 1) /\ \A i \in 1..N : cars'[i] = cars[i]
        /\ cars'[N + 1] = tx /\ tx.prev = q.carRef /\ tx.prev \in 0..N
        /\ N \in Nat /\ DOMAIN cars = 1..N
        /\ tx.prev # 0 => tx.id = cars[tx.prev].id /\ tx.car = cars[tx.prev].car
        /\ q.pc = "finalizeCar" /\ PostKnown(q)
    BY <1>3, CarAppended, CarsTyped DEF PostsKnown
  <2>2. q.carRef = 0 => tx.car = q.node
    BY DEF BuiltCar, CreatedCar
  <2> HIDE DEF tx
  <2>3. tx.prev = 0 => \A i \in 1..N : cars[i].car # tx.car
    BY <2>1, <2>2 DEF PostKnown
  <2> HIDE DEF N, q
  <2> QED  BY <1>1, <2>1, <2>3, OneChainAppend, SMTT(30)
<1>4. OneChain(events') /\ OneChain(cars')
  BY <1>1, <1>2, <1>3, OnlyFinalizeEvent, OnlyFinalizeCar
<1> QED  BY <1>4 DEF OneChainPerNode, OneChain

-----------------------------------------------------------------------------
(* A post about an event, when it is answered.                              *)

\* The version it leaves is the assessment of the event it has made, against the one
\* before, on top of the version it has read.
LEMMA AssessedCar ==
    ASSUME LedgerInv, PostsKnown, NEW r \in Requests, FinalizeCar(r), req[r].op = "event"
    PROVE  LET q == req[r]
               c == cars[q.carRef]
               e == events[q.own]
               tx == cars'[Len(cars) + 1]
           IN  /\ q.own \in DOMAIN events /\ q.carRef \in DOMAIN cars /\ q.carRef # 0
               /\ tx.prev = q.carRef /\ tx.car = e.car /\ e.car = q.node
               /\ tx.insurer = c.insurer /\ tx.terms = c.terms /\ tx.details = q.details
               /\ tx.state = IF c.insurer = InsureMe THEN "VALID"
                             ELSE NewState(c.state, q.own, e.prev)
               /\ tx.accident = NewAccidentState(c.accident, e.accident)
<1> DEFINE q == req[r]
           c == cars[q.carRef]
<1>1. /\ q \in Req /\ q.pc = "finalizeCar" /\ ReqKnown(q) /\ PostKnown(q)
      /\ cars'[Len(cars) + 1] = BuiltCar(q)
      /\ Len(cars) \in Nat /\ DOMAIN cars = 1..Len(cars)
  BY CarAppended, CarsTyped DEF PostsKnown
<1>2. q.own \in DOMAIN events /\ events[q.own].car = q.node /\ q.event = q.own
      /\ q.last = events[q.own].prev
  BY <1>1 DEF PostKnown, IsNewestEvent, EventsOf
<1>3. q.event # 0 /\ q.carRef # 0 /\ q.carRef \in DOMAIN cars
      /\ events[q.event].car = c.car
  BY <1>1, <1>2, EventsTyped DEF ReqKnown
<1>4. c \in CarTx
  BY <1>3, CarsTyped
<1>5. BuiltCar(q) = [Reassessed(q) EXCEPT !.command = IF SameCar(c, Reassessed(q))
                                                      THEN "NoUpdate" ELSE "Update"]
  BY <1>3 DEF BuiltCar, UpdatedCar
<1>6. /\ Reassessed(q).prev = q.carRef /\ Reassessed(q).car = c.car
      /\ Reassessed(q).insurer = c.insurer /\ Reassessed(q).terms = c.terms
      /\ Reassessed(q).details = q.details
      /\ Reassessed(q).state = IF c.insurer = InsureMe THEN "VALID"
                               ELSE NewState(c.state, q.event, q.last)
      /\ Reassessed(q).accident = NewAccidentState(c.accident, events[q.event].accident)
      /\ DOMAIN Reassessed(q) = DOMAIN c
  BY <1>4 DEF Reassessed, CarTx
<1>7. \A f \in {"prev", "car", "insurer", "terms", "details", "state", "accident"} :
        BuiltCar(q)[f] = Reassessed(q)[f]
  BY <1>4, <1>5, <1>6 DEF CarTx
<1>8. /\ BuiltCar(q).prev = Reassessed(q).prev /\ BuiltCar(q).car = Reassessed(q).car
      /\ BuiltCar(q).insurer = Reassessed(q).insurer /\ BuiltCar(q).terms = Reassessed(q).terms
      /\ BuiltCar(q).details = Reassessed(q).details /\ BuiltCar(q).state = Reassessed(q).state
      /\ BuiltCar(q).accident = Reassessed(q).accident
  BY <1>7
<1> QED  BY <1>1, <1>2, <1>3, <1>6, <1>8

\* What is promised of one answer.
Counted(a) ==
    events[a.event].accident =>
        /\ cars[a.car].accident # "NO"
        /\ cars[cars[a.car].prev].accident = "ONE" => cars[a.car].accident = "MORE_THAN_ONE"

Flagged(a) ==
    TurnedBack(a.event) => cars[a.car].state = "FRAUD" \/ cars[a.car].insurer = InsureMe

Known(a) == a.event \in DOMAIN events /\ a.car \in DOMAIN cars /\ cars[a.car].prev # 0

\* It is kept, once given.
LEMMA AnswerKept ==
    ASSUME LedgerInv, [Next]_vars, NEW a, Known(a), Counted(a), Flagged(a)
    PROVE  Known(a)' /\ Counted(a)' /\ Flagged(a)'
<1>1. /\ a.event \in DOMAIN events' /\ events'[a.event] = events[a.event]
      /\ a.car \in DOMAIN cars' /\ cars'[a.car] = cars[a.car]
  BY LedgersGrow DEF Known
<1>2. events[a.event].prev # 0 =>
        events'[events[a.event].prev] = events[events[a.event].prev]
  <2>1. events[a.event].prev # 0 => events[a.event].prev \in DOMAIN events
    BY EventsTyped DEF Known
  <2> QED  BY <2>1, LedgersGrow
<1>3. cars'[cars[a.car].prev] = cars[cars[a.car].prev]
  <2>1. cars[a.car].prev \in DOMAIN cars
    BY CarsTyped DEF Known
  <2> QED  BY <2>1, LedgersGrow
<1> QED  BY <1>1, <1>2, <1>3 DEF Known, Counted, Flagged, TurnedBack

\* It holds when the post is answered.
LEMMA AnswerGiven ==
    ASSUME LedgerInv, PostsKnown, NEW r \in Requests, FinalizeCar(r), req[r].op = "event",
           NEW a, a = [event |-> req[r].own, car |-> Len(cars) + 1]
    PROVE  Known(a)' /\ Counted(a)' /\ Flagged(a)'
<1> DEFINE q == req[r]
           c == cars[q.carRef]
           e == events[q.own]
           tx == cars'[Len(cars) + 1]
<1>1. /\ q.own \in DOMAIN events /\ q.carRef \in DOMAIN cars /\ q.carRef # 0
      /\ tx.prev = q.carRef /\ tx.insurer = c.insurer
      /\ tx.state = IF c.insurer = InsureMe THEN "VALID" ELSE NewState(c.state, q.own, e.prev)
      /\ tx.accident = NewAccidentState(c.accident, e.accident)
  BY AssessedCar
<1>2. /\ events' = events /\ Len(cars) + 1 \in DOMAIN cars'
      /\ cars'[q.carRef] = c
      /\ a.event = q.own /\ a.car = Len(cars) + 1
  <2>1. events' = events
    BY DEF FinalizeCar
  <2>2. /\ DOMAIN cars' = 1..(Len(cars) + 1)
        /\ \A i \in 1..Len(cars) : cars'[i] = cars[i]
    BY CarAppended
  <2>3. Len(cars) \in Nat /\ q.carRef \in 1..Len(cars)
    BY <1>1, CarsTyped
  <2> QED  BY <2>1, <2>2, <2>3
<1>3. Known(a)'
  BY <1>1, <1>2 DEF Known
<1>4. Counted(a)'
  BY <1>1, <1>2 DEF Counted, NewAccidentState
<1>5. Flagged(a)'
  <2> SUFFICES ASSUME TurnedBack(q.own), c.insurer # InsureMe
               PROVE  NewState(c.state, q.own, e.prev) = "FRAUD"
    BY <1>1, <1>2 DEF Flagged, TurnedBack
  <2>1. e \in EventTx /\ e.prev \in DOMAIN events /\ events[e.prev] \in EventTx
        /\ e.prev # 0 /\ events[e.prev].mileage > e.mileage
    BY <1>1, EventsTyped DEF TurnedBack
  <2>2. events[e.prev].mileage >= e.mileage
    BY <2>1 DEF EventTx
  <2> QED  BY <2>1, <2>2 DEF NewState
<1> QED  BY <1>3, <1>4, <1>5

LEMMA AnswersStep ==
    ASSUME LedgerInv, PostsKnown, AckedKnown, AckedAccidentCounted, AckedTurnBackFlagged,
           [Next]_vars
    PROVE  AckedKnown' /\ AckedAccidentCounted' /\ AckedTurnBackFlagged'
<1>1. \A a \in ackedEvents : Known(a)' /\ Counted(a)' /\ Flagged(a)'
  BY AnswerKept DEF AckedKnown, Known, AckedAccidentCounted, Counted, AckedTurnBackFlagged,
                    Flagged
<1>2. \A p \in ackedPolicies : p.car \in DOMAIN cars'
  BY LedgersGrow DEF AckedKnown
<1>3. ASSUME NEW r \in Requests, FinalizeCar(r)
      PROVE  /\ \A a \in ackedEvents' : Known(a)' /\ Counted(a)' /\ Flagged(a)'
             /\ \A p \in ackedPolicies' : p.car \in DOMAIN cars'
  <2>1. Len(cars) + 1 \in DOMAIN cars'
    BY <1>3, CarAppended, CarsTyped
  <2>2. \A a \in ackedEvents' : a \in ackedEvents
             \/ (req[r].op = "event" /\ a = [event |-> req[r].own, car |-> Len(cars) + 1])
    BY <1>3 DEF FinalizeCar
  <2>3. \A p \in ackedPolicies' : p \in ackedPolicies \/ p.car = Len(cars) + 1
    BY <1>3 DEF FinalizeCar
  <2> QED  BY <1>1, <1>2, <1>3, <2>1, <2>2, <2>3, AnswerGiven
<1>4. /\ \A a \in ackedEvents' : Known(a)' /\ Counted(a)' /\ Flagged(a)'
      /\ \A p \in ackedPolicies' : p.car \in DOMAIN cars'
  BY <1>1, <1>2, <1>3, OnlyFinalizeAnswers
<1> QED  BY <1>4 DEF AckedKnown, Known, AckedAccidentCounted, Counted, AckedTurnBackFlagged,
                     Flagged

\* While no node serves two posts at the same time, what a post has read stays true until
\* it uses it.
THEOREM PostInvariant == Spec /\ []OnePostPerNode => []PostInv
<1>1. Init => PostInv
  BY IdlePostKnown DEF Init, PostInv, AckedKnown, HomeRecorded, OneChainPerNode,
                       AckedAccidentCounted, AckedTurnBackFlagged
<1>2. LedgerInv /\ OnePostPerNode /\ PostInv /\ [Next]_vars => PostInv'
  BY PostsKnownStep, HomeRecordedStep, OneChainStep, AnswersStep DEF PostInv, PostsKnown
<1> QED  BY <1>1, <1>2, LedgerInvariant, PTL DEF Spec

\* hasAtLeastOneEvent and getUnconsumedCar keep a node at one chain of events and one car.
THEOREM OneChainOfANode == Spec /\ []OnePostPerNode => []OneChainPerNode
<1>1. PostInv => OneChainPerNode
  BY DEF PostInv
<1> QED  BY <1>1, PostInvariant, PTL

\* CarFlow.Update reads the accident off the very event that was posted.
THEOREM AccidentsAreCounted == Spec /\ []OnePostPerNode => []AckedAccidentCounted
<1>1. PostInv => AckedAccidentCounted
  BY DEF PostInv
<1> QED  BY <1>1, PostInvariant, PTL

\* It compares the mileage of that event with the one before, whatever the vault of other
\* nodes shows and whichever way a vault query sees the ledger.
THEOREM TurnBacksAreFlagged == Spec /\ []OnePostPerNode => []AckedTurnBackFlagged
<1>1. PostInv => AckedTurnBackFlagged
  BY DEF PostInv
<1> QED  BY <1>1, PostInvariant, PTL

-----------------------------------------------------------------------------
(* The policy under a post about an event.                                  *)

DetailsAllKnown == \A r \in Requests : DetailsKnown(req[r])

\* What a car sees unconsumed is its own.
LEMMA CarsSeeTheirOwn ==
    ASSUME LedgerInv, NEW n \in Cars, NEW i \in UnconsumedCars(n)
    PROVE  i \in DOMAIN cars /\ cars[i].car = n
<1>1. PICK p \in DOMAIN vault[n] : i = vault[n][p] /\ n \in Participants(cars[i])
  BY DEF UnconsumedCars, UnconsumedPositions, UnconsumedAt
<1>2. i \in DOMAIN cars
  BY <1>1 DEF LedgerInv, VaultKnown, Nodes
<1>3. cars[i].insurer \in Insurers
  BY <1>2, CarsTyped DEF CarTx
<1> QED  BY <1>1, <1>2, <1>3, ConstantsAssumption DEF Participants

LEMMA LastCarUnconsumed ==
    ASSUME LedgerInv, NEW n \in Nodes, LastCar(n) # 0
    PROVE  LastCar(n) \in UnconsumedCars(n)
<1> DEFINE U == UnconsumedPositions(n)
<1>1. vault[n] \in Seq(Nat)
  BY DEF LedgerInv, TypeOK
<1>2. Len(vault[n]) \in Nat /\ DOMAIN vault[n] = 1..Len(vault[n])
  BY <1>1, LenProperties
<1>3. U \in SUBSET (1..Len(vault[n])) /\ U # {} /\ LastCar(n) = vault[n][Latest(U)]
  BY <1>2 DEF LastCar, UnconsumedPositions
<1> HIDE DEF U
<1>4. Latest(U) \in U
  BY <1>2, <1>3, LatestIsLast
<1> QED  BY <1>3, <1>4 DEF UnconsumedCars, U

\* A vault shows the same cars as long as it records nothing.
LEMMA SameVaultSameCars ==
    ASSUME LedgerInv, NEW n \in Nodes, vault'[n] = vault[n],
           \A i \in DOMAIN cars : cars'[i] = cars[i]
    PROVE  UnconsumedCars(n)' = UnconsumedCars(n)
<1>1. \A p \in DOMAIN vault[n] : vault[n][p] \in DOMAIN cars
  BY DEF LedgerInv, VaultKnown
<1>2. Recorded(n)' = Recorded(n)
  BY DEF Recorded
<1>3. \A i \in Recorded(n) : cars'[i] = cars[i]
  BY <1>1 DEF Recorded
<1>4. \A p \in DOMAIN vault[n] : UnconsumedAt(n, p)' <=> UnconsumedAt(n, p)
  BY <1>1, <1>2, <1>3 DEF UnconsumedAt, Participants
<1>5. UnconsumedPositions(n)' = UnconsumedPositions(n)
  BY <1>4 DEF UnconsumedPositions
<1> QED  BY <1>5 DEF UnconsumedCars

\* A car sees one version, and it is the one getLastState takes.
LEMMA TheCarSeen ==
    ASSUME LedgerInv, OneChainPerNode, CarSeesOneVersion, NEW n \in Cars,
           NEW i \in UnconsumedCars(n), NEW j \in UnconsumedCars(n)
    PROVE  i = j
<1>1. i \in DOMAIN cars /\ j \in DOMAIN cars /\ cars[i].car = n /\ cars[j].car = n
  BY CarsSeeTheirOwn
<1>2. cars[i].id = cars[j].id
  BY <1>1 DEF OneChainPerNode
<1> QED  BY <1>2 DEF CarSeesOneVersion

\* A step of a request that writes on no ledger.
LEMMA DetailsReads ==
    ASSUME LedgerInv, DetailsAllKnown, NEW r \in Requests, NEW q, DetailsKnown(q),
           req' = [req EXCEPT ![r] = q], UNCHANGED <<cars, vault>>
    PROVE  DetailsAllKnown'
<1>1. ASSUME NEW s \in Requests PROVE DetailsKnown(req[s])'
  <2>1. PICK z : z = req'[s] /\ DetailsKnown(z)
    BY DEF DetailsAllKnown, LedgerInv, TypeOK
  <2>2. UnconsumedCars(z.node)' = UnconsumedCars(z.node)
    BY DEF UnconsumedCars, UnconsumedPositions, UnconsumedAt, Recorded
  <2>3. DetailsKnown(z)'
    BY <2>1, <2>2 DEF DetailsKnown
  <2> QED  BY <2>1, <2>3 DEF DetailsKnown, UnconsumedCars, UnconsumedPositions, UnconsumedAt,
                             Recorded
<1> QED  BY <1>1 DEF DetailsAllKnown

LEMMA IdleDetails == DetailsKnown(IdleReq)
  BY DEF DetailsKnown, IdleReq

LEMMA SendCarEventDetails ==
    ASSUME LedgerInv, DetailsAllKnown, NEW r \in Requests, SendCarEvent(r)
    PROVE  DetailsAllKnown'
<1> DEFINE q(n, post) == [IdleReq EXCEPT !.pc = IF EventsOf(n) # {} THEN "readEvent"
                                                ELSE "finalizeEvent",
                                         !.node = n, !.vin = post.vin,
                                         !.mileage = post.mileage,
                                         !.accident = post.accident]
<1>1. PICK n \in Cars, post \in EventPosts : req' = [req EXCEPT ![r] = q(n, post)]
  BY DEF SendCarEvent
<1>2. DetailsKnown(q(n, post))
  BY DEF DetailsKnown, IdleReq
<1> HIDE DEF q
<1> QED  BY <1>1, <1>2, DetailsReads DEF SendCarEvent

LEMMA SendCarPolicyDetails ==
    ASSUME PolicyNodes \subseteq Cars, LedgerInv, DetailsAllKnown,
           NEW r \in Requests, SendCarPolicy(r)
    PROVE  DetailsAllKnown'
<1> DEFINE q(n, post) == [IdleReq EXCEPT !.pc = IF UnconsumedCars(n) # {} THEN "readCar"
                                                ELSE "finalizeCar",
                                         !.op = "policy", !.node = n, !.vin = post.vin,
                                         !.insurer = post.insurer,
                                         !.terms = post.terms, !.details = post.terms]
<1>1. PICK n \in PolicyNodes, post \in PolicyPosts : req' = [req EXCEPT ![r] = q(n, post)]
  BY DEF SendCarPolicy
<1>2. DetailsKnown(q(n, post))
  BY DEF DetailsKnown, IdleReq
<1> HIDE DEF q
<1> QED  BY <1>1, <1>2, DetailsReads DEF SendCarPolicy

\* A step that changes nothing DetailsKnown looks at.
LEMMA DetailsUntouched ==
    ASSUME LedgerInv, DetailsAllKnown, NEW r \in Requests, NEW q,
           q.node = req[r].node, q.carRef = req[r].carRef, q.op = req[r].op,
           q.details = req[r].details, req[r].pc # "idle",
           q.pc = req[r].pc \/ (req[r].pc = "readConsumed" /\ q.pc = "finalizeCar")
             \/ q.pc \in {"finalizeEvent"},
           req' = [req EXCEPT ![r] = q], UNCHANGED <<cars, vault>>
    PROVE  DetailsAllKnown'
<1>1. DetailsKnown(req[r])
  BY DEF DetailsAllKnown
<1>2. DetailsKnown(q)
  BY <1>1 DEF DetailsKnown
<1> QED  BY <1>2, DetailsReads

LEMMA LookupCarDetails ==
    ASSUME LedgerInv, DetailsAllKnown, NEW r \in Requests, LookupCar(r)
    PROVE  DetailsAllKnown'
<1>1. CASE Answer(r)
  BY <1>1, IdleDetails, DetailsReads DEF Answer, LookupCar
<1>2. CASE ~Answer(r)
  <2> DEFINE q(i) == [req[r] EXCEPT !.pc = "readCar", !.insurer = cars[i].insurer,
                                    !.terms = cars[i].terms, !.details = cars[i].details]
  <2>1. req \in [Requests -> Req] /\ req[r] \in Req
    BY DEF LedgerInv, TypeOK
  <2>2. PICK i \in UnconsumedCars(req[r].node) :
          req' = [req EXCEPT ![r].pc = "readCar", ![r].insurer = cars[i].insurer,
                             ![r].terms = cars[i].terms, ![r].details = cars[i].details]
    BY <1>2 DEF LookupCar
  <2>3. req' = [req EXCEPT ![r] = q(i)]
    BY <2>1, <2>2
  <2>4. /\ q(i).pc = "readCar" /\ q(i).node = req[r].node /\ q(i).carRef = req[r].carRef
        /\ q(i).details = cars[i].details
    BY <2>1 DEF Req
  <2>5. DetailsKnown(req[r]) /\ req[r].pc = "lookup"
    BY DEF LookupCar, DetailsAllKnown
  <2> HIDE DEF q
  <2>6. DetailsKnown(q(i))
    BY <2>2, <2>4, <2>5 DEF DetailsKnown
  <2> QED  BY <2>3, <2>6, DetailsReads DEF LookupCar
<1> QED  BY <1>1, <1>2

\* getCarStateFromExternalId and getLastState have seen the same version.
LEMMA ReadCarDetails ==
    ASSUME LedgerInv, OneChainPerNode, CarSeesOneVersion, DetailsAllKnown,
           NEW r \in Requests, ReadCar(r)
    PROVE  DetailsAllKnown'
<1> DEFINE p == req[r]
           n == p.node
           q == [p EXCEPT !.pc = IF LastEvent(n) = 0 THEN "finalizeCar" ELSE "readConsumed",
                          !.carRef = LastCar(n), !.event = LastEvent(n),
                          !.snap = Len(events)]
<1>1. p \in Req /\ n \in Cars /\ DetailsKnown(p) /\ p.pc = "readCar"
  BY DEF LedgerInv, TypeOK, Req, DetailsAllKnown, DetailsKnown, ReadCar
<1>2. CASE LastCar(n) = 0
  BY <1>2, IdleDetails, DetailsReads DEF ReadCar, Answer
<1>3. CASE LastCar(n) # 0
  <2>1. /\ q.pc # "idle" /\ q.pc # "readCar" /\ q.carRef = LastCar(n)
        /\ q.op = p.op /\ q.details = p.details /\ q.node = n
    BY <1>1 DEF Req
  <2>2. req' = [req EXCEPT ![r] = q]
    BY <1>3 DEF ReadCar, LedgerInv, TypeOK
  <2>3. p.op = "event" => \E i \in UnconsumedCars(n) : cars[i].details = p.details
    BY <1>1 DEF DetailsKnown
  <2> HIDE DEF q, n, p
  <2>4. LastCar(n) \in UnconsumedCars(n)
    BY <1>1, <1>3, LastCarUnconsumed DEF Nodes
  <2>5. cars[LastCar(n)].car = n
    BY <1>1, <2>4, CarsSeeTheirOwn
  <2>6. p.op = "event" => cars[LastCar(n)].details = p.details
    BY <1>1, <2>3, <2>4, TheCarSeen
  <2>7. DetailsKnown(q)
    BY <1>1, <1>3, <2>1, <2>5, <2>6 DEF DetailsKnown
  <2> QED  BY <2>2, <2>7, DetailsReads DEF ReadCar
<1> QED  BY <1>2, <1>3

LEMMA OtherReadsDetails ==
    ASSUME LedgerInv, DetailsAllKnown, NEW r \in Requests,
           \/ ReadEvent(r) \/ ReadConsumed(r) \/ FinalizeEvent(r)
           \/ NotaryRefuses(r) \/ FlowFails(r) \/ LoseRpc(r)
    PROVE  DetailsAllKnown'
<1>1. req \in [Requests -> Req] /\ req[r] \in Req /\ DetailsKnown(req[r])
  BY DEF LedgerInv, TypeOK, DetailsAllKnown
<1>2. CASE Answer(r)
  BY <1>2, IdleDetails, DetailsReads DEF Answer, ReadEvent, ReadConsumed, FinalizeEvent,
     NotaryRefuses, FlowFails, LoseRpc
<1>3. CASE ReadEvent(r)
  <2> DEFINE q == [req[r] EXCEPT !.pc = "finalizeEvent", !.event = LastEvent(req[r].node)]
  <2>1. /\ q.pc = "finalizeEvent" /\ q.node = req[r].node /\ q.carRef = req[r].carRef
        /\ q.op = req[r].op /\ q.details = req[r].details
    BY <1>1 DEF Req
  <2>2. req' = [req EXCEPT ![r] = q] /\ UNCHANGED <<cars, vault>> /\ req[r].pc # "idle"
    BY <1>1, <1>3 DEF ReadEvent
  <2> HIDE DEF q
  <2> QED  BY <2>1, <2>2, DetailsUntouched
<1>4. CASE ReadConsumed(r)
  <2> DEFINE last == LastConsumed(req[r].event, IF SnapshotReads THEN req[r].snap
                                                ELSE Len(events))
             q == [req[r] EXCEPT !.pc = "finalizeCar", !.last = last]
  <2>1. /\ q.pc = "finalizeCar" /\ q.node = req[r].node /\ q.carRef = req[r].carRef
        /\ q.op = req[r].op /\ q.details = req[r].details
    BY <1>1 DEF Req
  <2>2. /\ req' = [req EXCEPT ![r] = q] /\ UNCHANGED <<cars, vault>>
        /\ req[r].pc = "readConsumed"
    BY <1>1, <1>4 DEF ReadConsumed
  <2> HIDE DEF q
  <2> QED  BY <2>1, <2>2, DetailsUntouched
<1>5. CASE FinalizeEvent(r) /\ ~Answer(r)
  <2> DEFINE q == [IdleReq EXCEPT !.pc = "lookup", !.node = req[r].node, !.vin = req[r].vin,
                                  !.own = Len(events) + 1]
  <2>1. q.pc = "lookup" /\ q.node = req[r].node /\ q.carRef = 0
    BY DEF IdleReq
  <2>2. req' = [req EXCEPT ![r] = q] /\ UNCHANGED <<cars, vault>> /\ req[r].pc # "idle"
    BY <1>5 DEF FinalizeEvent
  <2> HIDE DEF q
  <2>3. DetailsKnown(q)
    BY <1>1, <2>1, <2>2 DEF DetailsKnown
  <2> QED  BY <2>2, <2>3, DetailsReads
<1>6. CASE LoseRpc(r) /\ ~Answer(r)
  <2> DEFINE q == [req[r] EXCEPT !.live = FALSE]
  <2>1. /\ q.pc = req[r].pc /\ q.node = req[r].node /\ q.carRef = req[r].carRef
        /\ q.op = req[r].op /\ q.details = req[r].details
    BY <1>1 DEF Req
  <2>2. req' = [req EXCEPT ![r] = q] /\ UNCHANGED <<cars, vault>> /\ req[r].pc # "idle"
    BY <1>1, <1>6 DEF LoseRpc, Idle
  <2> HIDE DEF q
  <2> QED  BY <2>1, <2>2, DetailsUntouched
<1> QED  BY <1>2, <1>3, <1>4, <1>5, <1>6 DEF NotaryRefuses, FlowFails

\* A car that posts updates itself.
LEMMA PosterIsCar ==
    ASSUME LedgerInv, DetailsAllKnown, NEW r \in Requests, FinalizeCar(r)
    PROVE  req[r].node \in Cars /\ cars'[Len(cars) + 1].car = req[r].node
<1> DEFINE q == req[r]
           tx == BuiltCar(q)
<1>1. /\ q.pc = "finalizeCar" /\ DetailsKnown(q) /\ cars'[Len(cars) + 1] = tx
      /\ tx.prev = q.carRef
      /\ tx.prev # 0 => tx.car = cars[tx.prev].car
  BY CarAppended DEF DetailsAllKnown
<1>2. q.carRef = 0 => tx.car = q.node
  BY DEF BuiltCar, CreatedCar
<1> HIDE DEF tx
<1> QED  BY <1>1, <1>2 DEF DetailsKnown

\* Another car's transaction changes nothing a car sees.
LEMMA FinalizeCarDetails ==
    ASSUME LedgerInv, OnePostPerNode, DetailsAllKnown, NEW r \in Requests, FinalizeCar(r)
    PROVE  DetailsAllKnown'
<1>1. /\ req' = [req EXCEPT ![r] = IdleReq] /\ req \in [Requests -> Req]
      /\ req[r].pc = "finalizeCar" /\ IdleReq.pc = "idle"
      /\ req[r].node \in Nodes
      /\ vault' = [vault EXCEPT ![req[r].node] = Append(@, Len(cars) + 1)]
      /\ vault \in [Nodes -> Seq(Nat)]
  BY CarAppended DEF FinalizeCar, Answer, LedgerInv, TypeOK, IdleReq
<1>2. \A i \in DOMAIN cars : cars'[i] = cars[i]
  BY CarAppended, CarsTyped
<1>3. ASSUME NEW s \in Requests PROVE DetailsKnown(req[s])'
  <2>1. PICK z : z = req'[s] /\ DetailsKnown(z) /\ z.carRef \in 0..Len(cars)
                 /\ (z = IdleReq \/ (s # r /\ z = req[s]))
    <3>1. IdleReq.carRef = 0 /\ 0 \in 0..Len(cars)
      BY CarsTyped DEF IdleReq
    <3>2. \A t \in Requests : req[t].carRef \in 0..Len(cars) /\ DetailsKnown(req[t])
      BY DEF LedgerInv, ReqsKnown, ReqKnown, DetailsAllKnown
    <3> QED  BY <1>1, <3>1, <3>2, IdleDetails
  <2>2. CASE z.pc = "idle"
    <3>1. z.carRef # 0 => cars'[z.carRef] = cars[z.carRef]
      BY <1>2, <2>1, CarsTyped
    <3>2. DetailsKnown(z)'
      BY <2>1, <2>2, <3>1 DEF DetailsKnown
    <3> QED  BY <2>1, <3>2 DEF DetailsKnown, UnconsumedCars, UnconsumedPositions,
                               UnconsumedAt, Recorded
  <2>3. CASE z.pc # "idle"
    <3>1. s # r /\ z = req[s] /\ z.node # req[r].node
      BY <1>1, <2>1, <2>3 DEF OnePostPerNode, Idle
    <3>2. z.node \in Nodes
      BY <2>1, <2>3 DEF DetailsKnown, Nodes
    <3>3. vault'[z.node] = vault[z.node]
      BY <1>1, <3>1, <3>2
    <3>4. UnconsumedCars(z.node)' = UnconsumedCars(z.node)
      BY <1>2, <3>2, <3>3, SameVaultSameCars
    <3>5. z.carRef # 0 => cars'[z.carRef] = cars[z.carRef]
      BY <1>2, <2>1, CarsTyped
    <3>6. \A i \in UnconsumedCars(z.node) : cars'[i] = cars[i]
      BY <1>2, <2>1, <2>3, CarsSeeTheirOwn DEF DetailsKnown
    <3>7. DetailsKnown(z)'
      BY <2>1, <3>4, <3>5, <3>6 DEF DetailsKnown
    <3> QED  BY <2>1, <3>7 DEF DetailsKnown, UnconsumedCars, UnconsumedPositions,
                               UnconsumedAt, Recorded
  <2> QED  BY <2>2, <2>3
<1> QED  BY <1>3 DEF DetailsAllKnown

\* A car has recorded all that is its own: a car awaits nothing.
LEMMA CarsAwaitNothing ==
    ASSUME LedgerInv, HomeComplete, NEW n \in Nodes, NEW i \in DOMAIN cars, Deliver(n, i)
    PROVE  n \notin Cars
<1>1. n \in Participants(cars[i]) /\ i \notin Recorded(n)
  BY DEF Deliver, Awaits
<1>2. cars[i].insurer \in Insurers
  BY CarsTyped DEF CarTx
<1> QED  BY <1>1, <1>2, ConstantsAssumption DEF Participants, HomeComplete

LEMMA DeliverDetails ==
    ASSUME LedgerInv, HomeComplete, DetailsAllKnown,
           NEW n \in Nodes, NEW i \in DOMAIN cars, Deliver(n, i)
    PROVE  DetailsAllKnown'
<1>1. n \notin Cars /\ cars' = cars /\ req' = req /\ vault \in [Nodes -> Seq(Nat)]
      /\ vault' = [vault EXCEPT ![n] = Append(@, i)]
  BY CarsAwaitNothing DEF Deliver, LedgerInv, TypeOK
<1>2. ASSUME NEW s \in Requests PROVE DetailsKnown(req[s])'
  <2>1. PICK z : z = req'[s] /\ DetailsKnown(z)
    BY <1>1 DEF DetailsAllKnown
  <2>2. z.pc # "idle" => UnconsumedCars(z.node)' = UnconsumedCars(z.node)
    <3> SUFFICES ASSUME z.pc # "idle"
                 PROVE  UnconsumedCars(z.node)' = UnconsumedCars(z.node)
      OBVIOUS
    <3>1. z.node \in Nodes /\ z.node # n
      BY <1>1, <2>1 DEF DetailsKnown, Nodes
    <3>2. vault'[z.node] = vault[z.node]
      BY <1>1, <3>1
    <3> QED  BY <1>1, <3>1, <3>2, SameVaultSameCars
  <2>3. DetailsKnown(z)'
    BY <1>1, <2>1, <2>2 DEF DetailsKnown
  <2> QED  BY <2>1, <2>3 DEF DetailsKnown, UnconsumedCars, UnconsumedPositions,
                             UnconsumedAt, Recorded
<1> QED  BY <1>2 DEF DetailsAllKnown

LEMMA DetailsKnownStep ==
    ASSUME PolicyNodes \subseteq Cars, LedgerInv, OnePostPerNode, OneChainPerNode,
           CarSeesOneVersion, HomeComplete, DetailsAllKnown, [Next]_vars
    PROVE  DetailsAllKnown'
<1>1. ASSUME NEW r \in Requests,
             SendCarEvent(r) \/ SendCarPolicy(r) \/ Serve(r) \/ FlowFails(r) \/ LoseRpc(r)
      PROVE  DetailsAllKnown'
  BY <1>1, SendCarEventDetails, SendCarPolicyDetails, LookupCarDetails, ReadCarDetails,
     FinalizeCarDetails, OtherReadsDetails DEF Serve
<1>2. CASE UNCHANGED vars
  BY <1>2 DEF vars, DetailsAllKnown, DetailsKnown, UnconsumedCars, UnconsumedPositions,
              UnconsumedAt, Recorded
<1> QED  BY <1>1, <1>2, DeliverDetails DEF Next, Quiescent

LEMMA HomeCompleteStep ==
    ASSUME LedgerInv, DetailsAllKnown, HomeComplete, [Next]_vars
    PROVE  HomeComplete'
<1>1. ASSUME NEW i \in DOMAIN cars', NEW n, n = cars'[i].car
      PROVE  i \in Recorded(n)'
  <2>1. CASE i \in DOMAIN cars
    <3>1. cars'[i] = cars[i] /\ n \in Nodes /\ i \in Recorded(n)
      BY <1>1, <2>1, LedgersGrow, CarsTyped DEF CarTx, Nodes, HomeComplete
    <3> QED  BY <3>1, VaultGrows
  <2>2. CASE i \notin DOMAIN cars
    <3>1. PICK r \in Requests : FinalizeCar(r)
      BY <2>2, OnlyFinalizeCar
    <3>2. i = Len(cars) + 1
      BY <1>1, <2>2, <3>1, CarAppended, CarsTyped
    <3> QED  BY <1>1, <3>1, <3>2, PosterIsCar, PosterRecords
  <2> QED  BY <2>1, <2>2
<1> QED  BY <1>1 DEF HomeComplete, Recorded

\* What AckedEventKeepsPolicy promises of one answer.
Kept(a) ==
    LET c == cars[a.car] IN
    /\ c.car = events[a.event].car
    /\ \A f \in {"insurer", "terms", "details"} : c[f] = cars[c.prev][f]

LEMMA KeepsPolicyStep ==
    ASSUME LedgerInv, PostsKnown, AckedKnown, DetailsAllKnown, AckedEventKeepsPolicy,
           [Next]_vars
    PROVE  AckedEventKeepsPolicy'
<1>1. ASSUME NEW a \in ackedEvents PROVE Kept(a)'
  <2>1. a.event \in DOMAIN events /\ a.car \in DOMAIN cars /\ cars[a.car].prev # 0
        /\ Kept(a)
    BY DEF AckedKnown, AckedEventKeepsPolicy, Kept
  <2>2. cars[a.car].prev \in DOMAIN cars
    BY <2>1, CarsTyped
  <2>3. /\ events'[a.event] = events[a.event] /\ cars'[a.car] = cars[a.car]
        /\ cars'[cars[a.car].prev] = cars[cars[a.car].prev]
    BY <2>1, <2>2, LedgersGrow
  <2> QED  BY <2>1, <2>3 DEF Kept
<1>2. ASSUME NEW r \in Requests, FinalizeCar(r), req[r].op = "event",
             NEW a, a = [event |-> req[r].own, car |-> Len(cars) + 1]
      PROVE  Kept(a)'
  <2> DEFINE q == req[r]
             c == cars[q.carRef]
             tx == cars'[Len(cars) + 1]
  <2>1. /\ q.own \in DOMAIN events /\ q.carRef \in DOMAIN cars
        /\ tx.prev = q.carRef /\ tx.car = events[q.own].car
        /\ tx.insurer = c.insurer /\ tx.terms = c.terms /\ tx.details = q.details
    BY <1>2, AssessedCar
  <2>2. events' = events /\ cars'[q.carRef] = c /\ q.pc = "finalizeCar"
    BY <1>2, <2>1, CarAppended, CarsTyped DEF FinalizeCar
  <2>3. c.details = q.details
    BY <1>2, <2>2 DEF DetailsAllKnown, DetailsKnown
  <2> QED  BY <1>2, <2>1, <2>2, <2>3 DEF Kept
<1>3. ASSUME NEW r \in Requests, FinalizeCar(r)
      PROVE  \A a \in ackedEvents' : Kept(a)'
  <2>1. \A a \in ackedEvents' : a \in ackedEvents
             \/ (req[r].op = "event" /\ a = [event |-> req[r].own, car |-> Len(cars) + 1])
    BY <1>3 DEF FinalizeCar
  <2> QED  BY <1>1, <1>2, <1>3, <2>1
<1>4. \A a \in ackedEvents' : Kept(a)'
  BY <1>1, <1>3, OnlyFinalizeAnswers
<1> QED  BY <1>4 DEF AckedEventKeepsPolicy, Kept

\* If policies are posted to cars only and no car serves two posts at the same time, the
\* details a post goes on with are those of the one car its node holds unconsumed: nothing
\* written between the Controller's call for them and the flow's own read can make them stale.
THEOREM PolicyInvariant ==
    ASSUME PolicyNodes \subseteq Cars
    PROVE  Spec /\ []OnePostPerNode => []PolicyInv
<1>1. Init => PolicyInv
  BY IdleDetails DEF Init, PolicyInv, HomeComplete, AckedEventKeepsPolicy
<1>2. /\ LedgerInv /\ OnePostPerNode /\ PostInv /\ CarSeesOneVersion
      /\ PolicyInv /\ [Next]_vars
      => PolicyInv'
  BY DetailsKnownStep, HomeCompleteStep, KeepsPolicyStep
     DEF PostInv, PostsKnown, PolicyInv, DetailsAllKnown
<1> QED  BY <1>1, <1>2, LedgerInvariant, PostInvariant, CarSeesOne, PTL DEF Spec

\* If policies are posted to cars only and no car serves two posts at the same time, a
\* post about an event leaves the insurer, the terms and the details of the policy as they
\* were, although the Controller reads the details in a call of its own before CarFlow.Update
\* reads the car.
THEOREM EventsKeepPolicy ==
    ASSUME PolicyNodes \subseteq Cars
    PROVE  Spec /\ []OnePostPerNode => []AckedEventKeepsPolicy
<1>1. PolicyInv => AckedEventKeepsPolicy
  BY DEF PolicyInv
<1> QED  BY <1>1, PolicyInvariant, PTL

=============================================================================
