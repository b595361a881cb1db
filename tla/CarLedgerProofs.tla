--------------------------- MODULE CarLedgerProofs ---------------------------
(***************************************************************************)
(* Theorems about CarLedger for every set of cars, insurers, posts and     *)
(* threads: type correctness, linearity of both ledgers, and that a FRAUD  *)
(* is always founded on two successive events of the same car.             *)
(***************************************************************************)
EXTENDS CarLedger, SequenceTheorems, WellFoundedInduction, TLAPS

-----------------------------------------------------------------------------
(* Operators.                                                               *)

\* A nonempty set of references has a latest one, and Latest returns it.
LEMMA LatestIsLast ==
    ASSUME NEW k \in Nat, NEW S \in SUBSET (1..k), S # {}
    PROVE  Latest(S) \in S /\ \A j \in S : j <= Latest(S)
<1> DEFINE T == {k - i : i \in S}
<1>1. T \subseteq Nat /\ T # {}
  <2>1. PICK i \in S : TRUE
    OBVIOUS
  <2>2. k - i \in T
    BY <2>1
  <2>3. \A j \in S : k - j \in Nat
    OBVIOUS
  <2> QED  BY <2>2, <2>3
<1>2. PICK x \in T : \A y \in T : ~(<<y, x>> \in OpToRel(<, Nat))
  <2>1. IsWellFoundedOn(OpToRel(<, Nat), Nat)
    BY NatLessThanWellFounded
  <2> HIDE DEF T
  <2> QED  BY <1>1, <2>1, WFMin
<1>3. \A y \in T : ~(y < x)
  BY <1>1, <1>2 DEF OpToRel
<1>4. PICK i \in S : x = k - i
  OBVIOUS
<1>5. \A j \in S : j <= i
  <2> TAKE j \in S
  <2>1. k - j \in T
    OBVIOUS
  <2>2. ~(k - j < k - i)
    BY <1>3, <1>4, <2>1
  <2>3. i \in Int /\ j \in Int
    OBVIOUS
  <2> HIDE DEF T
  <2> QED  BY <2>2, <2>3
<1> QED  BY <1>5 DEF Latest

LEMMA AppendFacts ==
    ASSUME NEW S, NEW s \in Seq(S), NEW e \in S
    PROVE  /\ Append(s, e) \in Seq(S)
           /\ Len(s) \in Nat
           /\ DOMAIN s = 1..Len(s)
           /\ Len(Append(s, e)) = Len(s) + 1
           /\ DOMAIN Append(s, e) = 1..(Len(s) + 1)
           /\ Append(s, e)[Len(s) + 1] = e
           /\ \A i \in 1..Len(s) : Append(s, e)[i] = s[i]
  BY LenProperties

\* A transaction the notary accepts extends a linear ledger to a linear one.
LEMMA LinearAppend ==
    ASSUME NEW S, \A x \in S : x.prev \in Nat,
           NEW ledger \in Seq(S), NEW tx \in S,
           Linear(ledger), Unspent(ledger, tx.prev),
           \/ tx.prev = 0 /\ tx.id = Len(ledger) + 1
           \/ /\ tx.prev \in 1..Len(ledger)
              /\ tx.id = ledger[tx.prev].id
              /\ tx.car = ledger[tx.prev].car
              /\ tx.vin = ledger[tx.prev].vin
    PROVE  Linear(Append(ledger, tx))
<1> DEFINE new == Append(ledger, tx)
           N == Len(ledger)
<1>1. /\ N \in Nat /\ DOMAIN ledger = 1..N /\ DOMAIN new = 1..(N + 1)
      /\ new[N + 1] = tx /\ \A i \in 1..N : new[i] = ledger[i]
  BY AppendFacts
<1>2. \A i \in 1..N : ledger[i].prev \in Nat
  BY ElementOfSeq
<1> HIDE DEF new
<1>3. ASSUME NEW i \in 1..(N + 1)
      PROVE  IF new[i].prev = 0 THEN new[i].id = i
             ELSE /\ new[i].prev < i
                  /\ \A f \in {"id", "car", "vin"} : new[i][f] = new[new[i].prev][f]
                  /\ \A j \in 1..(N + 1) : new[j].prev = new[i].prev => j = i
  <2>1. CASE i = N + 1
    <3>1. CASE tx.prev = 0
      BY <1>1, <2>1, <3>1
    <3>2. CASE tx.prev # 0
      <4>1. tx.prev \in 1..N
        BY <3>2
      <4>2. \A f \in {"id", "car", "vin"} : new[i][f] = new[new[i].prev][f]
        BY <1>1, <2>1, <3>2, <4>1
      <4>3. \A j \in 1..N : ledger[j].prev # tx.prev
        BY <1>1, <3>2 DEF Unspent
      <4>4. \A j \in 1..(N + 1) : new[j].prev = new[i].prev => j = i
        BY <1>1, <2>1, <4>3
      <4> QED  BY <1>1, <2>1, <4>1, <4>2, <4>4
    <3> QED  BY <3>1, <3>2
  <2>2. CASE i \in 1..N
    <3>1. CASE ledger[i].prev = 0
      BY <1>1, <2>2, <3>1 DEF Linear
    <3>2. CASE ledger[i].prev # 0
      <4>1. /\ ledger[i].prev < i
            /\ \A f \in {"id", "car", "vin"} : ledger[i][f] = ledger[ledger[i].prev][f]
            /\ \A j \in 1..N : ledger[j].prev = ledger[i].prev => j = i
        BY <1>1, <2>2, <3>2 DEF Linear
      <4>2. ledger[i].prev \in 1..N
        BY <1>1, <1>2, <2>2, <3>2, <4>1
      <4>3. tx.prev # ledger[i].prev
        BY <1>1, <2>2, <3>2 DEF Unspent
      <4>4. \A j \in 1..(N + 1) : new[j].prev = new[i].prev => j = i
        BY <1>1, <2>2, <4>1, <4>3
      <4> QED  BY <1>1, <2>2, <3>2, <4>1, <4>2, <4>4
    <3> QED  BY <3>1, <3>2
  <2> QED  BY <1>1, <2>1, <2>2
<1> QED  BY <1>1, <1>3 DEF Linear, new

\* What the first k events consumed does not change when the ledger grows.
LEMMA ConsumedStable ==
    ASSUME events \in Seq(EventTx), NEW tx \in EventTx, events' = Append(events, tx),
           NEW k \in 0..Len(events), NEW i
    PROVE  ConsumedBy(i, k)' <=> ConsumedBy(i, k)
<1>1. \A j \in 1..k : events'[j] = events[j]
  BY AppendFacts
<1> QED  BY <1>1 DEF ConsumedBy

\* Accepting an event keeps one unconsumed end per chain in every prefix.
LEMMA OneTipAppend ==
    ASSUME events \in Seq(EventTx), IdsKnown, OneTip,
           NEW tx \in EventTx, events' = Append(events, tx),
           Unspent(events, tx.prev),
           \/ tx.prev = 0 /\ tx.id = Len(events) + 1
           \/ tx.prev \in 1..Len(events) /\ tx.id = events[tx.prev].id
    PROVE  OneTip' /\ IdsKnown'
<1> DEFINE N == Len(events)
<1>1. /\ N \in Nat /\ DOMAIN events = 1..N /\ DOMAIN events' = 1..(N + 1)
      /\ Len(events') = N + 1
      /\ events'[N + 1] = tx /\ \A i \in 1..N : events'[i] = events[i]
  BY AppendFacts
<1>2. \A i \in 1..N : events[i].id \in Nat /\ events[i].id <= i
  BY <1>1, ElementOfSeq DEF IdsKnown, EventTx
<1>3. IdsKnown'
  BY <1>1, <1>2 DEF IdsKnown
<1>4. ASSUME NEW k \in 0..(N + 1), NEW i \in 1..k, NEW j \in 1..k,
             events'[i].id = events'[j].id,
             ~ConsumedBy(i, k)', ~ConsumedBy(j, k)'
      PROVE  i = j
  <2>1. CASE k \in 0..N
    <3>1. ~ConsumedBy(i, k) /\ ~ConsumedBy(j, k)
      BY <1>4, <2>1, ConsumedStable
    <3>2. events[i].id = events[j].id
      BY <1>1, <1>4, <2>1
    <3> QED  BY <2>1, <3>1, <3>2 DEF OneTip
  <2>2. CASE k = N + 1
    <3>1. ASSUME NEW u \in 1..N, ~ConsumedBy(u, k)'
          PROVE  ~ConsumedBy(u, N) /\ tx.prev # u
      BY <1>1, <2>2, <3>1 DEF ConsumedBy
    <3>2. ASSUME NEW u \in 1..N, ~ConsumedBy(u, k)', events'[u].id = events'[N + 1].id
          PROVE  FALSE
      <4>1. ~ConsumedBy(u, N) /\ tx.prev # u /\ events[u].id = tx.id
        BY <1>1, <3>1, <3>2
      <4>2. tx.prev \in 1..N /\ tx.id = events[tx.prev].id
        BY <1>1, <1>2, <4>1
      <4>3. ~ConsumedBy(tx.prev, N)
        BY <1>1, <4>2 DEF Unspent, ConsumedBy
      <4> QED  BY <1>1, <4>1, <4>2, <4>3 DEF OneTip
    <3>3. CASE i = N + 1 \/ j = N + 1
      BY <1>1, <1>4, <2>2, <3>2, <3>3
    <3>4. CASE i \in 1..N /\ j \in 1..N
      <4>1. ~ConsumedBy(i, N) /\ ~ConsumedBy(j, N)
        BY <1>4, <3>1, <3>4
      <4> QED  BY <1>1, <1>4, <3>4, <4>1 DEF OneTip
    <3> QED  BY <1>1, <2>2, <3>3, <3>4
  <2> QED  BY <1>1, <2>1, <2>2
<1>5. OneTip'
  BY <1>1, <1>4 DEF OneTip
<1> QED  BY <1>3, <1>5

\* In a snapshot, the last consumed event of the chain of an unconsumed event is
\* the very event it replaced.
LEMMA LastConsumedIsPredecessor ==
    ASSUME events \in Seq(EventTx), Linear(events), OneTip,
           NEW k \in 0..Len(events), NEW e \in 1..k, ~ConsumedBy(e, k),
           LastConsumed(e, k) # 0
    PROVE  events[e].prev = LastConsumed(e, k)
<1> DEFINE C == ConsumedEvents(e, k)
           c == LastConsumed(e, k)
<1>1. Len(events) \in Nat /\ DOMAIN events = 1..Len(events)
  BY LenProperties
<1>2. C \in SUBSET (1..k) /\ C # {} /\ c = Latest(C)
  BY DEF LastConsumed, ConsumedEvents
<1>3. c \in C /\ \A j \in C : j <= c
  <2>1. k \in Nat
    BY <1>1
  <2> HIDE DEF C, c
  <2> QED  BY <1>2, <2>1, LatestIsLast
<1>4. PICK d \in 1..k : events[d].prev = c
  BY <1>3 DEF ConsumedEvents, ConsumedBy
<1>5. events[d].id = events[e].id /\ c < d
  <2>1. c \in 1..k /\ events[c].id = events[e].id
    BY <1>3 DEF ConsumedEvents
  <2>2. d \in DOMAIN events /\ events[d].prev # 0
    BY <1>1, <1>4, <2>1
  <2>3. events[d]["id"] = events[events[d].prev]["id"] /\ events[d].prev < d
    BY <2>2 DEF Linear
  <2> QED  BY <1>4, <2>1, <2>3
<1>6. ~ConsumedBy(d, k)
  <2>1. ConsumedBy(d, k) => d \in C
    BY <1>5 DEF ConsumedEvents
  <2> QED  BY <1>3, <1>5, <2>1 DEF ConsumedEvents
<1>7. d = e
  BY <1>5, <1>6 DEF OneTip
<1> QED  BY <1>4, <1>7

-----------------------------------------------------------------------------
(* Steps of a request that leave the ledgers alone.                         *)

LEMMA IdleReqFine ==
    ASSUME LedgerInv
    PROVE  IdleReq \in Req /\ ReqKnown(IdleReq)
<1>1. IdleReq \in Req
  BY ConstantsAssumption DEF IdleReq, Req, Pcs, Nodes
<1>2. Len(events) \in Nat /\ Len(cars) \in Nat
  BY LenProperties DEF LedgerInv, TypeOK
<1> QED  BY <1>1, <1>2 DEF IdleReq, ReqKnown

\* Such a step preserves the invariant if the new record of the request does.
LEMMA OnlyReqChanges ==
    ASSUME LedgerInv, NEW r \in Requests, NEW q \in Req, ReqKnown(q),
           req' = [req EXCEPT ![r] = q],
           UNCHANGED <<events, cars, vault, ackedEvents, ackedPolicies>>
    PROVE  LedgerInv'
<1>1. TypeOK'
  BY DEF LedgerInv, TypeOK
<1>2. ReqsKnown'
  <2> SUFFICES ASSUME NEW s \in Requests
               PROVE  ReqKnown(req[s])'
    BY DEF ReqsKnown
  <2>1. ReqKnown(req'[s])
    BY DEF LedgerInv, ReqsKnown, TypeOK
  <2> QED  BY <2>1 DEF ReqKnown, ConsumedBy
<1>3. VaultKnown'
  BY DEF LedgerInv, VaultKnown
<1>4. LinearHistory' /\ IdsKnown' /\ OneTip'
  BY DEF LedgerInv, LinearHistory, Linear, IdsKnown, OneTip, ConsumedBy
<1> QED  BY <1>1, <1>2, <1>3, <1>4 DEF LedgerInv

\* What the vault queries of a flow return.
LEMMA QueriesFine ==
    ASSUME LedgerInv, NEW n \in Nodes
    PROVE  /\ LastEvent(n) \in 0..Len(events)
           /\ LastEvent(n) # 0 => /\ events[LastEvent(n)].car = n
                                  /\ ~ConsumedBy(LastEvent(n), Len(events))
           /\ LastCar(n) \in 0..Len(cars)
           /\ LastCar(n) # 0 => n \in Participants(cars[LastCar(n)])
<1>1. /\ Len(events) \in Nat /\ DOMAIN events = 1..Len(events)
      /\ Len(cars) \in Nat /\ DOMAIN cars = 1..Len(cars)
      /\ vault[n] \in Seq(Nat)
  BY LenProperties DEF LedgerInv, TypeOK
<1>2. Len(vault[n]) \in Nat /\ DOMAIN vault[n] = 1..Len(vault[n])
  BY <1>1, LenProperties
<1>3. UnconsumedEvents(n) # {} => LastEvent(n) \in UnconsumedEvents(n)
  <2>1. UnconsumedEvents(n) \in SUBSET (1..Len(events))
    BY <1>1 DEF UnconsumedEvents, EventsOf
  <2> QED  BY <1>1, <2>1, LatestIsLast DEF LastEvent
<1>4. UnconsumedPositions(n) # {} =>
        Latest(UnconsumedPositions(n)) \in UnconsumedPositions(n)
  <2>1. UnconsumedPositions(n) \in SUBSET (1..Len(vault[n]))
    BY <1>2 DEF UnconsumedPositions
  <2> QED  BY <1>2, <2>1, LatestIsLast
<1>5. /\ LastEvent(n) \in 0..Len(events)
      /\ LastEvent(n) # 0 => /\ events[LastEvent(n)].car = n
                             /\ ~ConsumedBy(LastEvent(n), Len(events))
  BY <1>1, <1>3 DEF LastEvent, UnconsumedEvents, EventsOf
<1>6. /\ LastCar(n) \in 0..Len(cars)
      /\ LastCar(n) # 0 => n \in Participants(cars[LastCar(n)])
  <2>1. CASE UnconsumedPositions(n) = {}
    BY <1>1, <2>1 DEF LastCar
  <2>2. CASE UnconsumedPositions(n) # {}
    <3>1. PICK p \in DOMAIN vault[n] : UnconsumedAt(n, p) /\ LastCar(n) = vault[n][p]
      BY <1>4, <2>2 DEF LastCar, UnconsumedPositions
    <3>2. vault[n][p] \in 1..Len(cars)
      BY <1>1 DEF LedgerInv, VaultKnown
    <3> QED  BY <1>1, <3>1, <3>2 DEF UnconsumedAt
  <2> QED  BY <2>1, <2>2
<1> QED  BY <1>5, <1>6

LEMMA SendCarEventInv ==
    ASSUME LedgerInv, NEW r \in Requests, SendCarEvent(r)
    PROVE  LedgerInv'
<1>1. PICK n \in Cars, post \in EventPosts :
        req' = [req EXCEPT ![r] =
                  [IdleReq EXCEPT !.pc = IF EventsOf(n) # {} THEN "readEvent"
                                         ELSE "finalizeEvent",
                                  !.node = n, !.vin = post.vin,
                                  !.mileage = post.mileage,
                                  !.accident = post.accident]]
  BY DEF SendCarEvent
<1> DEFINE q == [IdleReq EXCEPT !.pc = IF EventsOf(n) # {} THEN "readEvent"
                                       ELSE "finalizeEvent",
                                !.node = n, !.vin = post.vin,
                                !.mileage = post.mileage,
                                !.accident = post.accident]
<1>2. q \in Req
  BY IdleReqFine, ConstantsAssumption DEF Req, Pcs, Nodes
<1>3. Len(events) \in Nat /\ Len(cars) \in Nat
  BY LenProperties DEF LedgerInv, TypeOK
<1>4. ReqKnown(q)
  BY <1>3 DEF IdleReq, ReqKnown
<1> HIDE DEF q
<1>5. req' = [req EXCEPT ![r] = q]
  BY <1>1 DEF q
<1> QED  BY <1>2, <1>4, <1>5, OnlyReqChanges DEF SendCarEvent

LEMMA ReadEventInv ==
    ASSUME LedgerInv, NEW r \in Requests, ReadEvent(r)
    PROVE  LedgerInv'
<1> DEFINE q == [req[r] EXCEPT !.pc = "finalizeEvent", !.event = LastEvent(req[r].node)]
<1>1. req[r] \in Req /\ ReqKnown(req[r]) /\ Len(events) \in Nat
  BY LenProperties DEF LedgerInv, TypeOK, ReqsKnown
<1>2. LastEvent(req[r].node) \in 0..Len(events)
  BY <1>1, QueriesFine DEF Req
<1>3. q \in Req
  <2>1. LastEvent(req[r].node) \in Nat /\ req[r] \in Req
    BY <1>1, <1>2
  <2> QED  BY <2>1 DEF Req, Pcs
<1>4. ReqKnown(q)
  <2>1. /\ q.pc = "finalizeEvent" /\ q.event = LastEvent(req[r].node)
        /\ q.node = req[r].node /\ q.last = req[r].last /\ q.own = req[r].own
        /\ q.snap = req[r].snap /\ q.carRef = req[r].carRef
    BY <1>1 DEF Req
  <2>2. req[r].node \in Cars
    BY <1>1 DEF ReqKnown, ReadEvent
  <2> HIDE DEF q
  <2> QED  BY <1>1, <1>2, <2>1, <2>2 DEF ReqKnown
<1>5. req' = [req EXCEPT ![r] = q]
  BY DEF ReadEvent, LedgerInv, TypeOK
<1> QED  BY <1>3, <1>4, <1>5, OnlyReqChanges DEF ReadEvent

LEMMA LookupCarInv ==
    ASSUME LedgerInv, NEW r \in Requests, LookupCar(r)
    PROVE  LedgerInv'
<1>1. req[r] \in Req /\ ReqKnown(req[r]) /\ req[r].pc = "lookup"
  BY DEF LedgerInv, TypeOK, ReqsKnown, LookupCar
<1>2. CASE Answer(r)
  BY <1>2, IdleReqFine, OnlyReqChanges DEF Answer, LookupCar
<1>3. ASSUME NEW i \in UnconsumedCars(req[r].node),
             req' = [req EXCEPT ![r].pc = "readCar", ![r].insurer = cars[i].insurer,
                                ![r].terms = cars[i].terms,
                                ![r].details = cars[i].details]
      PROVE  LedgerInv'
  <2> DEFINE q == [req[r] EXCEPT !.pc = "readCar", !.insurer = cars[i].insurer,
                                 !.terms = cars[i].terms, !.details = cars[i].details]
  <2>1. cars[i] \in CarTx
    <3>1. i \in DOMAIN cars
      BY <1>1 DEF UnconsumedCars, UnconsumedPositions, LedgerInv, VaultKnown, Req
    <3> QED  BY <3>1, LenProperties, ElementOfSeq DEF LedgerInv, TypeOK
  <2>2. q \in Req
    BY <1>1, <2>1 DEF Req, Pcs, CarTx
  <2>3. ReqKnown(q)
    BY <1>1 DEF ReqKnown, Req
  <2>4. req' = [req EXCEPT ![r] = q]
    BY <1>3 DEF LedgerInv, TypeOK
  <2> QED  BY <2>2, <2>3, <2>4, OnlyReqChanges DEF LookupCar
<1> QED  BY <1>2, <1>3 DEF LookupCar

LEMMA SendCarPolicyInv ==
    ASSUME LedgerInv, NEW r \in Requests, SendCarPolicy(r)
    PROVE  LedgerInv'
<1> DEFINE q(n, post) ==
             [IdleReq EXCEPT !.pc = IF UnconsumedCars(n) # {} THEN "readCar"
                                    ELSE "finalizeCar",
                             !.op = "policy", !.node = n, !.vin = post.vin,
                             !.insurer = post.insurer,
                             !.terms = post.terms, !.details = post.terms]
<1>1. PICK n \in PolicyNodes, post \in PolicyPosts :
        /\ n \in Insurers => UnconsumedCars(n) # {}
        /\ req' = [req EXCEPT ![r] = q(n, post)]
  BY DEF SendCarPolicy
<1>2. q(n, post) \in Req
  BY IdleReqFine, ConstantsAssumption, ZenonT(60) DEF Req, Pcs, Nodes
<1>3. Len(events) \in Nat /\ Len(cars) \in Nat
  BY LenProperties DEF LedgerInv, TypeOK
<1>4. UnconsumedCars(n) = {} => n \in Cars
  BY <1>1, ConstantsAssumption
<1>5. ReqKnown(q(n, post))
  BY <1>3, <1>4 DEF IdleReq, ReqKnown
<1> HIDE DEF q
<1> QED  BY <1>1, <1>2, <1>5, OnlyReqChanges DEF SendCarPolicy

LEMMA ReadCarInv ==
    ASSUME LedgerInv, NEW r \in Requests, ReadCar(r)
    PROVE  LedgerInv'
<1> DEFINE n == req[r].node
           q == [req[r] EXCEPT !.pc = IF LastEvent(n) = 0 THEN "finalizeCar"
                                      ELSE "readConsumed",
                               !.carRef = LastCar(n), !.event = LastEvent(n),
                               !.snap = Len(events)]
<1>1. req[r] \in Req /\ ReqKnown(req[r]) /\ req[r].pc = "readCar" /\ n \in Nodes
  BY DEF LedgerInv, TypeOK, ReqsKnown, ReadCar, Req
<1>2. /\ Len(events) \in Nat /\ DOMAIN events = 1..Len(events)
      /\ Len(cars) \in Nat /\ DOMAIN cars = 1..Len(cars)
  BY LenProperties DEF LedgerInv, TypeOK
<1>3. CASE LastCar(n) = 0
  <2>1. Answer(r)
    BY <1>3 DEF ReadCar
  <2> QED  BY <2>1, IdleReqFine, OnlyReqChanges DEF Answer, ReadCar
<1>4. CASE LastCar(n) # 0
  <2>1. /\ LastEvent(n) \in 0..Len(events)
        /\ LastEvent(n) # 0 => /\ events[LastEvent(n)].car = n
                               /\ ~ConsumedBy(LastEvent(n), Len(events))
        /\ LastCar(n) \in 1..Len(cars)
        /\ n \in Participants(cars[LastCar(n)])
    BY <1>1, <1>2, <1>4, QueriesFine
  <2>2. q \in Req
    <3>1. LastEvent(n) \in Nat /\ LastCar(n) \in Nat /\ Len(events) \in Nat /\ req[r] \in Req
      BY <1>1, <1>2, <2>1
    <3> QED  BY <3>1 DEF Req, Pcs
  <2>3. LastEvent(n) # 0 => events[LastEvent(n)].car = cars[LastCar(n)].car
    <3> SUFFICES ASSUME LastEvent(n) # 0
                 PROVE  n = cars[LastCar(n)].car
      BY <2>1
    <3>1. events[LastEvent(n)] \in EventTx /\ cars[LastCar(n)] \in CarTx
      BY <1>2, <2>1, ElementOfSeq DEF LedgerInv, TypeOK
    <3>2. n \in Cars /\ cars[LastCar(n)].insurer \in Insurers
      BY <2>1, <3>1 DEF EventTx, CarTx
    <3> QED  BY <2>1, <3>2, ConstantsAssumption DEF Participants
  <2>4. ReqKnown(q)
    <3>1. /\ q.pc = IF LastEvent(n) = 0 THEN "finalizeCar" ELSE "readConsumed"
          /\ q.event = LastEvent(n) /\ q.carRef = LastCar(n) /\ q.snap = Len(events)
          /\ q.last = req[r].last /\ q.own = req[r].own
      BY <1>1 DEF Req
    <3>2. req[r].last = 0 /\ req[r].own \in 0..Len(events)
      BY <1>1 DEF ReqKnown
    <3> HIDE DEF q, n
    <3>3. CASE LastEvent(n) = 0
      BY <1>2, <2>1, <3>1, <3>2, <3>3 DEF ReqKnown
    <3>4. CASE LastEvent(n) # 0
      BY <1>2, <2>1, <2>3, <3>1, <3>2, <3>4 DEF ReqKnown
    <3> QED  BY <3>3, <3>4
  <2>5. req' = [req EXCEPT ![r] = q]
    BY <1>4 DEF ReadCar, LedgerInv, TypeOK
  <2> QED  BY <2>2, <2>4, <2>5, OnlyReqChanges DEF ReadCar
<1> QED  BY <1>3, <1>4

LEMMA ReadConsumedInv ==
    ASSUME LedgerInv, NEW r \in Requests, ReadConsumed(r)
    PROVE  LedgerInv'
<1> DEFINE p == req[r]
           view == IF SnapshotReads THEN p.snap ELSE Len(events)
           last == LastConsumed(p.event, view)
           q == [p EXCEPT !.pc = "finalizeCar", !.last = last]
<1>1. p \in Req /\ ReqKnown(p) /\ p.pc = "readConsumed"
  BY DEF LedgerInv, TypeOK, ReqsKnown, ReadConsumed
<1>2. Len(events) \in Nat /\ DOMAIN events = 1..Len(events)
  BY LenProperties DEF LedgerInv, TypeOK
<1>3. /\ view \in 0..Len(events) /\ p.event # 0
      /\ p.event \in 0..Len(events) /\ p.event <= p.snap
      /\ ~ConsumedBy(p.event, p.snap) /\ p.snap \in 0..Len(events)
      /\ p.carRef # 0 /\ p.carRef \in 0..Len(cars) /\ p.own \in 0..Len(events)
      /\ events[p.event].car = cars[p.carRef].car
  BY <1>1, <1>2 DEF ReqKnown
<1>4. last \in 0..Len(events)
  <2> DEFINE C == ConsumedEvents(p.event, view)
  <2>1. C \in SUBSET (1..view) /\ last = IF C = {} THEN 0 ELSE Latest(C)
    BY DEF LastConsumed, ConsumedEvents
  <2> HIDE DEF C, last, view
  <2>2. view \in Nat
    BY <1>2, <1>3
  <2>3. C # {} => Latest(C) \in C
    BY <2>1, <2>2, LatestIsLast
  <2> QED  BY <1>2, <1>3, <2>1, <2>3
<1>5. SnapshotReads /\ last # 0 => events[p.event].prev = last
  <2> SUFFICES ASSUME SnapshotReads, last # 0
               PROVE  events[p.event].prev = last
    OBVIOUS
  <2>1. view = p.snap /\ p.event \in 1..p.snap
    BY <1>2, <1>3
  <2> QED  BY <1>3, <2>1, LastConsumedIsPredecessor
             DEF LedgerInv, TypeOK, LinearHistory
<1>6. q \in Req
  <2>1. last \in Nat /\ p \in Req
    BY <1>1, <1>2, <1>4
  <2> HIDE DEF last, p
  <2> QED  BY <2>1 DEF Req, Pcs
<1>7. ReqKnown(q)
  <2>1. /\ q.pc = "finalizeCar" /\ q.last = last
        /\ q.event = p.event /\ q.carRef = p.carRef /\ q.snap = p.snap
        /\ q.own = p.own
    BY <1>1 DEF Req
  <2> HIDE DEF q, p, last, view
  <2> QED  BY <1>3, <1>4, <1>5, <2>1 DEF ReqKnown
<1>8. req' = [req EXCEPT ![r] = q]
  BY DEF ReadConsumed, LedgerInv, TypeOK
<1> QED  BY <1>6, <1>7, <1>8, OnlyReqChanges DEF ReadConsumed

LEMMA AbortInv ==
    ASSUME LedgerInv, NEW r \in Requests, NotaryRefuses(r) \/ FlowFails(r) \/ LoseRpc(r)
    PROVE  LedgerInv'
<1>1. CASE Answer(r)
  BY <1>1, IdleReqFine, OnlyReqChanges DEF Answer, NotaryRefuses, FlowFails, LoseRpc
<1>2. CASE req' = [req EXCEPT ![r].live = FALSE]
  <2> DEFINE q == [req[r] EXCEPT !.live = FALSE]
  <2>1. req[r] \in Req /\ ReqKnown(req[r])
    BY DEF LedgerInv, TypeOK, ReqsKnown
  <2>2. q \in Req
    BY <2>1 DEF Req
  <2>3. /\ q.pc = req[r].pc /\ q.last = req[r].last /\ q.own = req[r].own
        /\ q.event = req[r].event /\ q.carRef = req[r].carRef
        /\ q.snap = req[r].snap /\ q.node = req[r].node
    BY <2>1 DEF Req
  <2>4. req' = [req EXCEPT ![r] = q]
    BY <1>2 DEF LedgerInv, TypeOK
  <2> HIDE DEF q
  <2>5. ReqKnown(q)
    BY <2>1, <2>3 DEF ReqKnown
  <2> QED  BY <2>2, <2>4, <2>5, OnlyReqChanges DEF NotaryRefuses, FlowFails, LoseRpc
<1> QED  BY <1>1, <1>2 DEF NotaryRefuses, FlowFails, LoseRpc

-----------------------------------------------------------------------------
(* Steps that extend a ledger.                                              *)

\* What a request knows stays true when the ledgers grow.
LEMMA ReqKnownStable ==
    ASSUME LedgerInv, NEW q \in Req, ReqKnown(q),
           events' = events \/ \E tx \in EventTx : events' = Append(events, tx),
           cars' = cars \/ \E tx \in CarTx : cars' = Append(cars, tx)
    PROVE  ReqKnown(q)'
<1>1. /\ Len(events) \in Nat /\ Len(events') \in Nat /\ Len(events) <= Len(events')
      /\ \A i \in 1..Len(events) : events'[i] = events[i]
  BY AppendFacts, LenProperties, SMTT(30) DEF LedgerInv, TypeOK
<1>2. /\ Len(cars) \in Nat /\ Len(cars') \in Nat /\ Len(cars) <= Len(cars')
      /\ \A i \in 1..Len(cars) : cars'[i] = cars[i]
  BY AppendFacts, LenProperties DEF LedgerInv, TypeOK
<1>3. ConsumedBy(q.event, q.snap)' <=> ConsumedBy(q.event, q.snap)
  <2>1. q.snap \in 0..Len(events)
    BY DEF ReqKnown
  <2>2. \A j \in 1..q.snap : events'[j] = events[j]
    BY <1>1, <2>1
  <2> QED  BY <2>2 DEF ConsumedBy
<1>4. /\ q.event \in 0..Len(events') /\ q.last \in 0..Len(events')
      /\ q.own \in 0..Len(events') /\ q.snap \in 0..Len(events')
      /\ q.carRef \in 0..Len(cars')
  BY <1>1, <1>2, SMTT(30) DEF ReqKnown
<1>5. /\ q.event # 0 => events'[q.event] = events[q.event]
      /\ q.carRef # 0 => cars'[q.carRef] = cars[q.carRef]
  <2>1. q.event \in 0..Len(events) /\ q.carRef \in 0..Len(cars)
    BY DEF ReqKnown
  <2> QED  BY <1>1, <1>2, <2>1
<1> QED  BY <1>3, <1>4, <1>5 DEF ReqKnown

\* What CarEventFlow builds: a new chain, or the identity of its input kept.
LEMMA BuiltEventFine ==
    ASSUME LedgerInv, NEW q \in Req, ReqKnown(q), q.pc = "finalizeEvent"
    PROVE  LET tx == BuiltEvent(q) IN
           /\ tx \in EventTx /\ tx.prev = q.event
           /\ tx.prev = 0 => tx.id = Len(events) + 1
           /\ tx.prev # 0 => /\ tx.id = events[tx.prev].id
                             /\ tx.car = events[tx.prev].car
                             /\ tx.vin = events[tx.prev].vin
<1>1. /\ events \in Seq(EventTx) /\ Len(events) \in Nat
      /\ q.event \in 0..Len(events) /\ q.node \in Cars
  BY LenProperties DEF LedgerInv, TypeOK, ReqKnown
<1>2. CASE q.event = 0
  BY <1>1, <1>2 DEF BuiltEvent, EventTx, Req
<1>3. CASE q.event # 0
  <2>1. events[q.event] \in EventTx
    BY <1>1, <1>3, ElementOfSeq
  <2> QED  BY <1>1, <1>3, <2>1 DEF BuiltEvent, EventTx, Req
<1> QED  BY <1>2, <1>3

LEMMA FinalizeEventInv ==
    ASSUME LedgerInv, NEW r \in Requests, FinalizeEvent(r)
    PROVE  LedgerInv'
<1> DEFINE q == req[r]
           tx == BuiltEvent(q)
           next == IF q.live
                   THEN [IdleReq EXCEPT !.pc = "lookup", !.node = q.node, !.vin = q.vin,
                                        !.own = Len(events) + 1]
                   ELSE IdleReq
<1>1. /\ q \in Req /\ ReqKnown(q) /\ q.pc = "finalizeEvent"
      /\ Unspent(events, q.event) /\ events' = Append(events, tx)
      /\ UNCHANGED <<cars, vault, ackedEvents, ackedPolicies>>
      /\ req' = [req EXCEPT ![r] = next]
  BY DEF LedgerInv, TypeOK, ReqsKnown, FinalizeEvent, Answer
<1>2. /\ events \in Seq(EventTx) /\ Len(events) \in Nat
      /\ DOMAIN events = 1..Len(events)
      /\ q.event \in 0..Len(events) /\ q.node \in Cars
  BY <1>1, LenProperties DEF LedgerInv, TypeOK, ReqKnown
<1>3. /\ tx \in EventTx /\ tx.prev = q.event
      /\ tx.prev = 0 => tx.id = Len(events) + 1
      /\ tx.prev # 0 => /\ tx.id = events[tx.prev].id
                        /\ tx.car = events[tx.prev].car
                        /\ tx.vin = events[tx.prev].vin
  <2>1. PICK z \in Req : z = q
    BY <1>1
  <2> QED  BY <1>1, <2>1, BuiltEventFine
<1> HIDE DEF tx
<1>4. events' \in Seq(EventTx) /\ Len(events') = Len(events) + 1
  BY <1>1, <1>2, <1>3, AppendFacts
<1>5. next \in Req
  <2>1. Len(events) + 1 \in Nat
    BY <1>2
  <2> QED  BY <1>1, <2>1, IdleReqFine DEF Req, Pcs
<1>6. TypeOK'
  BY <1>1, <1>4, <1>5 DEF LedgerInv, TypeOK
<1>7. VaultKnown'
  BY <1>1 DEF LedgerInv, VaultKnown
<1>8. Linear(events') /\ OneTip' /\ IdsKnown'
  <2>1. \A x \in EventTx : x.prev \in Nat
    BY DEF EventTx
  <2>2. \/ tx.prev = 0 /\ tx.id = Len(events) + 1
        \/ /\ tx.prev \in 1..Len(events)
           /\ tx.id = events[tx.prev].id
           /\ tx.car = events[tx.prev].car
           /\ tx.vin = events[tx.prev].vin
    BY <1>2, <1>3
  <2>3. Linear(events')
    BY <1>1, <1>2, <1>3, <2>1, <2>2, LinearAppend DEF LedgerInv, LinearHistory
  <2>4. OneTip' /\ IdsKnown'
    BY <1>1, <1>2, <1>3, <2>2, OneTipAppend DEF LedgerInv
  <2> QED  BY <2>3, <2>4
<1>9. LinearHistory'
  BY <1>1, <1>8, ZenonT(60) DEF LedgerInv, LinearHistory, Linear
<1>10. ReqsKnown'
  <2> SUFFICES ASSUME NEW s \in Requests
               PROVE  ReqKnown(req[s])'
    BY DEF ReqsKnown
  <2>1. PICK z \in Req : z = req'[s]
    BY <1>6 DEF TypeOK
  <2>2. CASE s = r
    <3>1. z = next
      BY <1>1, <2>1, <2>2 DEF LedgerInv, TypeOK
    <3>2. /\ z.pc \in {"idle", "lookup"} /\ z.event = 0 /\ z.last = 0
          /\ z.own \in 0..Len(events') /\ z.snap = 0 /\ z.carRef = 0
      BY <1>2, <1>4, <3>1 DEF IdleReq
    <3>3. Len(cars') \in Nat /\ Len(events') \in Nat
      BY <1>1, <1>2, <1>4, LenProperties DEF LedgerInv, TypeOK
    <3>4. ReqKnown(z)'
      BY <3>2, <3>3 DEF ReqKnown
    <3> QED  BY <2>1, <3>4 DEF ReqKnown, ConsumedBy
  <2>3. CASE s # r
    <3>1. z = req[s] /\ ReqKnown(z)
      BY <1>1, <2>1, <2>3 DEF LedgerInv, TypeOK, ReqsKnown
    <3>2. ReqKnown(z)'
      BY <1>1, <1>3, <3>1, ReqKnownStable
    <3> QED  BY <2>1, <3>2 DEF ReqKnown, ConsumedBy
  <2> QED  BY <2>2, <2>3
<1> QED  BY <1>6, <1>7, <1>8, <1>9, <1>10 DEF LedgerInv

\* What CarFlow builds: the identity of its input is kept, and a FRAUD is either
\* inherited or founded on the two events the flow has read.
LEMMA BuiltCarFine ==
    ASSUME LedgerInv, NEW q \in Req, ReqKnown(q), q.pc = "finalizeCar"
    PROVE  LET tx == BuiltCar(q) IN
           /\ tx \in CarTx /\ tx.prev = q.carRef
           /\ tx.prev = 0 => tx.id = Len(cars) + 1 /\ tx.state = "VALID"
           /\ tx.prev # 0 =>
                /\ tx.id = cars[tx.prev].id
                /\ tx.car = cars[tx.prev].car
                /\ tx.vin = cars[tx.prev].vin
                /\ tx.state = "FRAUD" =>
                     \/ cars[tx.prev].state = "FRAUD"
                     \/ /\ q.event # 0 /\ q.last # 0
                        /\ events[q.last].mileage >= events[q.event].mileage
<1> DEFINE c == cars[q.carRef]
<1>1. /\ cars \in Seq(CarTx) /\ Len(cars) \in Nat /\ q.carRef \in 0..Len(cars)
      /\ events \in Seq(EventTx) /\ Len(events) \in Nat /\ q.event \in 0..Len(events)
  BY LenProperties DEF LedgerInv, TypeOK, ReqKnown
<1>2. CASE q.carRef = 0
  <2>1. q.node \in Cars /\ Len(cars) + 1 \in Nat
    BY <1>1, <1>2 DEF ReqKnown
  <2> QED  BY <1>2, <2>1 DEF BuiltCar, CreatedCar, CarTx, Req
<1>3. CASE q.carRef # 0
  <2>1. c \in CarTx
    BY <1>1, <1>3, ElementOfSeq
  <2> DEFINE new == IF q.event # 0 THEN Reassessed(q) ELSE Repoliced(q)
             cmd == IF SameCar(c, new) THEN "NoUpdate" ELSE "Update"
  <2>2. /\ new \in CarTx /\ new.prev = q.carRef
        /\ new.id = c.id /\ new.car = c.car /\ new.vin = c.vin
        /\ new.state = "FRAUD" =>
             \/ c.state = "FRAUD"
             \/ /\ q.event # 0 /\ q.last # 0
                /\ events[q.last].mileage >= events[q.event].mileage
    <3>1. CASE q.event = 0
      <4> HIDE DEF c
      <4>1. new = [c EXCEPT !.prev = q.carRef, !.insurer = q.insurer,
                            !.terms = q.terms, !.details = q.details]
        BY <3>1 DEF Repoliced, c
      <4> HIDE DEF new
      <4>2. q.carRef \in Nat
        BY <1>1
      <4> QED  BY <2>1, <3>1, <4>1, <4>2 DEF CarTx, Req
    <3>2. CASE q.event # 0
      <4> DEFINE state == IF c.insurer = InsureMe THEN "VALID"
                          ELSE NewState(c.state, q.event, q.last)
                 accident == NewAccidentState(c.accident, events[q.event].accident)
      <4>1. new = [c EXCEPT !.prev = q.carRef, !.state = state,
                            !.accident = accident, !.details = q.details]
        BY <3>2 DEF Reassessed
      <4>2. /\ state \in {"VALID", "FRAUD"}
            /\ state = "FRAUD" =>
                 \/ c.state = "FRAUD"
                 \/ q.last # 0 /\ events[q.last].mileage >= events[q.event].mileage
        BY DEF NewState
      <4>3. accident \in {"NO", "ONE", "MORE_THAN_ONE"}
        BY <2>1 DEF NewAccidentState, CarTx
      <4>4. q.carRef \in Nat
        BY <1>1
      <4> HIDE DEF c, new, state, accident
      <4> QED  BY <2>1, <3>2, <4>1, <4>2, <4>3, <4>4 DEF CarTx, Req
    <3> QED  BY <3>1, <3>2
  <2>3. BuiltCar(q) = [new EXCEPT !.command = cmd]
    BY <1>3 DEF BuiltCar, UpdatedCar
  <2>4. cmd \in {"Update", "NoUpdate"}
    OBVIOUS
  <2> HIDE DEF new, cmd
  <2> QED  BY <1>3, <2>2, <2>3, <2>4 DEF CarTx
<1> QED  BY <1>2, <1>3

\* Recording one more transaction of the ledger keeps the vaults well formed.
LEMMA VaultAppend ==
    ASSUME vault \in [Nodes -> Seq(Nat)], VaultKnown,
           NEW n \in Nodes, NEW i \in Nat, i \in DOMAIN cars',
           DOMAIN cars \subseteq DOMAIN cars',
           vault' = [vault EXCEPT ![n] = Append(@, i)]
    PROVE  vault' \in [Nodes -> Seq(Nat)] /\ VaultKnown'
<1>1. Append(vault[n], i) \in Seq(Nat)
  BY AppendFacts
<1>2. vault' \in [Nodes -> Seq(Nat)]
  BY <1>1
<1>3. ASSUME NEW m \in Nodes, NEW p \in DOMAIN vault'[m]
      PROVE  vault'[m][p] \in DOMAIN cars'
  <2>1. CASE m # n
    BY <1>3, <2>1 DEF VaultKnown
  <2>2. CASE m = n
    <3>1. vault'[m] = Append(vault[n], i) /\ vault[n] \in Seq(Nat)
      BY <2>2
    <3>2. p \in 1..(Len(vault[n]) + 1) /\ Len(vault[n]) \in Nat
      BY <1>3, <3>1, AppendFacts
    <3>3. CASE p = Len(vault[n]) + 1
      BY <3>1, <3>3, AppendFacts
    <3>4. CASE p \in 1..Len(vault[n])
      <4>1. vault'[m][p] = vault[n][p] /\ p \in DOMAIN vault[n]
        BY <3>1, <3>4, AppendFacts
      <4> QED  BY <4>1 DEF VaultKnown
    <3> QED  BY <3>2, <3>3, <3>4
  <2> QED  BY <2>1, <2>2
<1> QED  BY <1>2, <1>3 DEF VaultKnown

LEMMA FinalizeCarInv ==
    ASSUME LedgerInv, NEW r \in Requests, FinalizeCar(r)
    PROVE  LedgerInv'
<1> DEFINE q == req[r]
           tx == BuiltCar(q)
<1>1. /\ q \in Req /\ ReqKnown(q) /\ q.pc = "finalizeCar" /\ q.node \in Nodes
      /\ Unspent(cars, q.carRef) /\ cars' = Append(cars, tx)
      /\ vault' = [vault EXCEPT ![q.node] = Append(@, Len(cars) + 1)]
      /\ events' = events /\ req' = [req EXCEPT ![r] = IdleReq]
  BY DEF LedgerInv, TypeOK, ReqsKnown, FinalizeCar, Answer, Req
<1>2. /\ cars \in Seq(CarTx) /\ Len(cars) \in Nat /\ DOMAIN cars = 1..Len(cars)
      /\ q.carRef \in 0..Len(cars) /\ q.own \in Nat /\ q.terms \in Terms
  BY <1>1, LenProperties DEF LedgerInv, TypeOK, ReqKnown, Req
<1>3. /\ tx \in CarTx /\ tx.prev = q.carRef
      /\ tx.prev = 0 => tx.id = Len(cars) + 1
      /\ tx.prev # 0 => /\ tx.id = cars[tx.prev].id
                        /\ tx.car = cars[tx.prev].car
                        /\ tx.vin = cars[tx.prev].vin
  <2>1. PICK z \in Req : z = q
    BY <1>1
  <2> QED  BY <1>1, <2>1, BuiltCarFine
<1> HIDE DEF tx
<1>4. /\ cars' \in Seq(CarTx) /\ Len(cars') = Len(cars) + 1
      /\ DOMAIN cars' = 1..(Len(cars) + 1)
  BY <1>1, <1>2, <1>3, AppendFacts
<1>5. vault' \in [Nodes -> Seq(Nat)] /\ VaultKnown'
  <2>1. Len(cars) + 1 \in Nat /\ Len(cars) + 1 \in DOMAIN cars'
        /\ DOMAIN cars \subseteq DOMAIN cars'
    BY <1>2, <1>4
  <2> QED  BY <1>1, <2>1, VaultAppend DEF LedgerInv, TypeOK
<1>6. TypeOK'
  <2>1. req' \in [Requests -> Req]
    BY <1>1, IdleReqFine DEF LedgerInv, TypeOK
  <2>2. ackedEvents' \subseteq [event: Nat, car: Nat]
    BY <1>2 DEF LedgerInv, TypeOK, FinalizeCar
  <2>3. ackedPolicies' \subseteq [terms: Terms, car: Nat]
    BY <1>2 DEF LedgerInv, TypeOK, FinalizeCar
  <2> QED  BY <1>1, <1>4, <1>5, <2>1, <2>2, <2>3 DEF LedgerInv, TypeOK
<1>7. Linear(cars')
  <2>1. \A x \in CarTx : x.prev \in Nat
    BY DEF CarTx
  <2>2. \/ tx.prev = 0 /\ tx.id = Len(cars) + 1
        \/ /\ tx.prev \in 1..Len(cars)
           /\ tx.id = cars[tx.prev].id
           /\ tx.car = cars[tx.prev].car
           /\ tx.vin = cars[tx.prev].vin
    BY <1>2, <1>3
  <2> QED  BY <1>1, <1>2, <1>3, <2>1, <2>2, LinearAppend DEF LedgerInv, LinearHistory
<1>8. LinearHistory' /\ IdsKnown' /\ OneTip'
  <2>1. Linear(events') /\ IdsKnown' /\ OneTip'
    BY <1>1 DEF LedgerInv, LinearHistory, Linear, IdsKnown, OneTip, ConsumedBy
  <2> QED  BY <1>7, <2>1 DEF LinearHistory, Linear
<1>9. ReqsKnown'
  <2> SUFFICES ASSUME NEW s \in Requests
               PROVE  ReqKnown(req[s])'
    BY DEF ReqsKnown
  <2>1. PICK z \in Req : z = req'[s]
    BY <1>6 DEF TypeOK
  <2>2. z \in Req /\ ReqKnown(z)
    BY <1>1, <2>1, IdleReqFine DEF LedgerInv, TypeOK, ReqsKnown
  <2>3. ReqKnown(z)'
    BY <1>1, <1>3, <2>2, ReqKnownStable
  <2> QED  BY <2>1, <2>3 DEF ReqKnown, ConsumedBy
<1> QED  BY <1>5, <1>6, <1>8, <1>9 DEF LedgerInv

LEMMA DeliverInv ==
    ASSUME LedgerInv, NEW n \in Nodes, NEW i \in DOMAIN cars, Deliver(n, i)
    PROVE  LedgerInv'
<1>1. i \in Nat
  BY LenProperties DEF LedgerInv, TypeOK
<1>2. vault' \in [Nodes -> Seq(Nat)] /\ VaultKnown'
  BY <1>1, VaultAppend DEF LedgerInv, TypeOK, Deliver
<1>3. TypeOK' /\ ReqsKnown'
  BY <1>2 DEF LedgerInv, TypeOK, Deliver, ReqsKnown, ReqKnown, ConsumedBy
<1>4. LinearHistory' /\ IdsKnown' /\ OneTip'
  BY DEF LedgerInv, LinearHistory, Linear, IdsKnown, OneTip, ConsumedBy, Deliver
<1> QED  BY <1>2, <1>3, <1>4 DEF LedgerInv

-----------------------------------------------------------------------------
(* Theorems.                                                                *)

LEMMA InitInv == Init => LedgerInv
<1> SUFFICES ASSUME Init PROVE LedgerInv
  OBVIOUS
<1>1. /\ events = <<>> /\ cars = <<>> /\ Len(events) = 0 /\ Len(cars) = 0
      /\ DOMAIN events = {} /\ DOMAIN cars = {}
  BY DEF Init
<1>2. IdleReq \in Req
  BY ConstantsAssumption DEF IdleReq, Req, Pcs, Nodes
<1>3. TypeOK
  BY <1>1, <1>2, EmptySeq DEF Init, TypeOK
<1>4. ReqsKnown
  BY <1>1 DEF Init, ReqsKnown, ReqKnown, IdleReq
<1>5. VaultKnown
  BY DEF Init, VaultKnown
<1>6. LinearHistory /\ IdsKnown /\ OneTip
  BY <1>1 DEF LinearHistory, Linear, IdsKnown, OneTip
<1> QED  BY <1>3, <1>4, <1>5, <1>6 DEF LedgerInv

LEMMA NextInv == LedgerInv /\ [Next]_vars => LedgerInv'
<1> SUFFICES ASSUME LedgerInv, [Next]_vars PROVE LedgerInv'
  OBVIOUS
<1>1. ASSUME NEW r \in Requests,
             SendCarEvent(r) \/ SendCarPolicy(r) \/ Serve(r) \/ FlowFails(r) \/ LoseRpc(r)
      PROVE  LedgerInv'
  BY <1>1, SendCarEventInv, SendCarPolicyInv, ReadEventInv, FinalizeEventInv,
     LookupCarInv, ReadCarInv, ReadConsumedInv, FinalizeCarInv, AbortInv DEF Serve
<1>2. ASSUME NEW n \in Nodes, NEW i \in DOMAIN cars, Deliver(n, i)
      PROVE  LedgerInv'
  BY <1>2, DeliverInv
<1>3. ASSUME UNCHANGED vars
      PROVE  LedgerInv'
  BY <1>3 DEF vars, LedgerInv, TypeOK, VaultKnown, ReqsKnown, ReqKnown, LinearHistory,
              Linear, IdsKnown, OneTip, ConsumedBy
<1> QED  BY <1>1, <1>2, <1>3 DEF Next, Quiescent

\* The inductive invariant holds of the code with any number of cars, insurers,
\* threads and posts, with flows failing and RPC connections lost.
THEOREM LedgerInvariant == Spec => []LedgerInv
<1>1. Init => LedgerInv
  BY InitInv
<1>2. LedgerInv /\ [Next]_vars => LedgerInv'
  BY NextInv
<1> QED  BY <1>1, <1>2, PTL DEF Spec

\* Whatever requests overlap, each CarState and each car event is one line of
\* versions that keeps its id, car and vin.
THEOREM LedgersAreLinear == Spec => []LinearHistory
<1>1. LedgerInv => LinearHistory
  BY DEF LedgerInv
<1> QED  BY <1>1, LedgerInvariant, PTL

\* A car is in FRAUD only for two successive events of its own, however the
\* requests of one car overlap, provided the queries of a flow step see one
\* moment of the vault.
LEMMA FraudStep ==
    ASSUME SnapshotReads, LedgerInv, FraudJustified, [Next]_vars
    PROVE  FraudJustified'
<1>1. /\ events \in Seq(EventTx) /\ Len(events) \in Nat
      /\ DOMAIN events = 1..Len(events) /\ LinearHistory
      /\ cars \in Seq(CarTx) /\ Len(cars) \in Nat /\ DOMAIN cars = 1..Len(cars)
  BY LenProperties DEF LedgerInv, TypeOK
<1>2. ASSUME cars' = cars, events' = events
      PROVE  FraudJustified'
  BY <1>2 DEF FraudJustified, NotRaised
<1>3. ASSUME NEW r \in Requests, FinalizeEvent(r)
      PROVE  FraudJustified'
  <2>1. PICK q \in Req : q = req[r] /\ ReqKnown(q) /\ q.pc = "finalizeEvent"
    BY <1>3 DEF LedgerInv, TypeOK, ReqsKnown, FinalizeEvent
  <2>2. cars' = cars /\ events' = Append(events, BuiltEvent(q)) /\ BuiltEvent(q) \in EventTx
    BY <1>3, <2>1, BuiltEventFine DEF FinalizeEvent
  <2>3. /\ DOMAIN events \subseteq DOMAIN events'
        /\ \A e \in DOMAIN events : events'[e] = events[e]
    BY <1>1, <2>2, AppendFacts
  <2>4. \A e \in DOMAIN events : events[e].prev # 0 => events[e].prev \in DOMAIN events
    <3>1. ASSUME NEW e \in DOMAIN events, events[e].prev # 0
          PROVE  events[e].prev < e /\ events[e].prev \in Nat
      <4>1. events[e] \in EventTx
        BY <1>1, ElementOfSeq
      <4> QED  BY <1>1, <3>1, <4>1 DEF LinearHistory, Linear, EventTx
    <3> QED  BY <1>1, <3>1
  <2>5. \A e \in DOMAIN events : NotRaised(e) => NotRaised(e)'
    BY <2>3, <2>4 DEF NotRaised
  <2> QED  BY <2>2, <2>3, <2>5 DEF FraudJustified
<1>4. ASSUME NEW r \in Requests, FinalizeCar(r)
      PROVE  FraudJustified'
  <2>1. PICK q \in Req : q = req[r] /\ ReqKnown(q) /\ q.pc = "finalizeCar"
    BY <1>4 DEF LedgerInv, TypeOK, ReqsKnown, FinalizeCar
  <2> DEFINE tx == BuiltCar(q)
  <2>2. events' = events /\ cars' = Append(cars, tx)
    BY <1>4, <2>1 DEF FinalizeCar
  <2>3. /\ tx \in CarTx /\ tx.prev = q.carRef
        /\ tx.prev = 0 => tx.state = "VALID"
        /\ tx.prev # 0 =>
             /\ tx.car = cars[tx.prev].car
             /\ tx.state = "FRAUD" =>
                  \/ cars[tx.prev].state = "FRAUD"
                  \/ /\ q.event # 0 /\ q.last # 0
                     /\ events[q.last].mileage >= events[q.event].mileage
    BY <2>1, BuiltCarFine
  <2> HIDE DEF tx
  <2>4. /\ DOMAIN cars' = 1..(Len(cars) + 1) /\ cars'[Len(cars) + 1] = tx
        /\ \A i \in DOMAIN cars : cars'[i] = cars[i]
    BY <1>1, <2>2, <2>3, AppendFacts
  <2>5. tx.state = "FRAUD" =>
          \E e \in DOMAIN events : events[e].car = tx.car /\ NotRaised(e)
    <3> SUFFICES ASSUME tx.state = "FRAUD"
                 PROVE  \E e \in DOMAIN events : events[e].car = tx.car /\ NotRaised(e)
      OBVIOUS
    <3>1. tx.prev # 0 /\ tx.prev \in DOMAIN cars /\ tx.car = cars[tx.prev].car
      BY <1>1, <2>1, <2>3 DEF ReqKnown
    <3>2. CASE cars[tx.prev].state = "FRAUD"
      BY <3>1, <3>2 DEF FraudJustified
    <3>3. CASE /\ q.event # 0 /\ q.last # 0
               /\ events[q.last].mileage >= events[q.event].mileage
      <4>1. /\ q.event \in DOMAIN events
            /\ events[q.event].car = cars[q.carRef].car
            /\ events[q.event].prev = q.last
        BY <1>1, <2>1, <3>3 DEF ReqKnown
      <4>2. NotRaised(q.event)
        BY <3>3, <4>1 DEF NotRaised
      <4> QED  BY <2>3, <3>1, <4>1, <4>2
    <3> QED  BY <2>3, <3>1, <3>2, <3>3
  <2>6. ASSUME NEW i \in DOMAIN cars', cars'[i].state = "FRAUD"
        PROVE  \E e \in DOMAIN events : events[e].car = cars'[i].car /\ NotRaised(e)
    <3>1. CASE i = Len(cars) + 1
      BY <2>4, <2>5, <2>6, <3>1
    <3>2. CASE i \in DOMAIN cars
      BY <2>4, <2>6, <3>2 DEF FraudJustified
    <3> QED  BY <1>1, <2>4, <3>1, <3>2
  <2> QED  BY <2>2, <2>6 DEF FraudJustified, NotRaised
<1>5. ASSUME NEW r \in Requests,
             SendCarEvent(r) \/ SendCarPolicy(r) \/ Serve(r) \/ FlowFails(r) \/ LoseRpc(r)
      PROVE  FraudJustified'
  <2>1. CASE FinalizeEvent(r) \/ FinalizeCar(r)
    BY <1>3, <1>4, <2>1
  <2>2. CASE ~(FinalizeEvent(r) \/ FinalizeCar(r))
    BY <1>2, <1>5, <2>2 DEF Serve, SendCarEvent, SendCarPolicy, ReadEvent, LookupCar,
       ReadCar, ReadConsumed, NotaryRefuses, FlowFails, LoseRpc
  <2> QED  BY <2>1, <2>2
<1>6. ASSUME NEW n \in Nodes, NEW i \in DOMAIN cars, Deliver(n, i)
      PROVE  FraudJustified'
  BY <1>2, <1>6 DEF Deliver
<1>7. CASE UNCHANGED vars
  BY <1>2, <1>7 DEF vars
<1> QED  BY <1>5, <1>6, <1>7 DEF Next, Quiescent

THEOREM FraudIsJustified ==
    ASSUME SnapshotReads
    PROVE  Spec => []FraudJustified
<1>1. Init => FraudJustified
  BY DEF Init, FraudJustified
<1>2. LedgerInv /\ FraudJustified /\ [Next]_vars => FraudJustified'
  BY FraudStep
<1> QED  BY <1>1, <1>2, LedgerInvariant, PTL DEF Spec

=============================================================================
