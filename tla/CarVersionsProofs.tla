-------------------------- MODULE CarVersionsProofs --------------------------
(***************************************************************************)
(* Theorems about the CarStates of CarLedger, for every set of cars,       *)
(* insurers, posts and threads: NoUpdate changes nothing, a car sees one   *)
(* version of its state, and the requests and flows implement InsuredCars. *)
(***************************************************************************)
EXTENDS CarLedgerProofs

-----------------------------------------------------------------------------
(* The ledger of CarStates.                                                 *)

LEMMA CarsTyped ==
    ASSUME LedgerInv
    PROVE  /\ Len(cars) \in Nat /\ DOMAIN cars = 1..Len(cars)
           /\ \A i \in DOMAIN cars :
                /\ cars[i] \in CarTx
                /\ cars[i].prev = 0 => cars[i].id = i
                /\ cars[i].prev # 0 =>
                     /\ cars[i].prev \in 1..(i - 1)
                     /\ cars[i].id = cars[cars[i].prev].id
                     /\ cars[i].car = cars[cars[i].prev].car
                     /\ cars[i].vin = cars[cars[i].prev].vin
                     /\ \A j \in DOMAIN cars : cars[j].prev = cars[i].prev => j = i
<1>1. cars \in Seq(CarTx) /\ Len(cars) \in Nat /\ DOMAIN cars = 1..Len(cars) /\ Linear(cars)
  BY LenProperties DEF LedgerInv, TypeOK, LinearHistory
<1>2. \A i \in DOMAIN cars : cars[i] \in CarTx
  BY <1>1, ElementOfSeq
<1>3. \A i \in DOMAIN cars : cars[i].prev \in Nat
  BY <1>2 DEF CarTx
<1> QED  BY <1>1, <1>2, <1>3 DEF Linear

\* What FinalizeCar adds.
LEMMA CarAppended ==
    ASSUME LedgerInv, NEW r \in Requests, FinalizeCar(r)
    PROVE  LET q == req[r]
               tx == BuiltCar(q)
               N == Len(cars)
           IN  /\ q \in Req /\ ReqKnown(q) /\ q.pc = "finalizeCar" /\ q.node \in Nodes
               /\ DOMAIN cars' = 1..(N + 1) /\ Len(cars') = N + 1
               /\ cars'[N + 1] = tx /\ \A i \in 1..N : cars'[i] = cars[i]
               /\ tx \in CarTx /\ tx.prev = q.carRef /\ tx.prev \in 0..N
               /\ tx.prev # 0 => \A i \in 1..N : cars[i].prev # tx.prev
               /\ tx.prev = 0 => tx.id = N + 1
               /\ tx.prev # 0 => /\ tx.id = cars[tx.prev].id
                                 /\ tx.car = cars[tx.prev].car
                                 /\ tx.vin = cars[tx.prev].vin
<1> DEFINE q == req[r]
           tx == BuiltCar(q)
<1>1. /\ q \in Req /\ ReqKnown(q) /\ q.pc = "finalizeCar" /\ q.node \in Nodes
      /\ Unspent(cars, q.carRef) /\ cars' = Append(cars, tx)
  BY DEF LedgerInv, TypeOK, ReqsKnown, FinalizeCar, Req
<1>2. /\ cars \in Seq(CarTx) /\ Len(cars) \in Nat /\ DOMAIN cars = 1..Len(cars)
      /\ q.carRef \in 0..Len(cars)
  BY <1>1, LenProperties DEF LedgerInv, TypeOK, ReqKnown
<1>3. /\ tx \in CarTx /\ tx.prev = q.carRef
      /\ tx.prev = 0 => tx.id = Len(cars) + 1
      /\ tx.prev # 0 => /\ tx.id = cars[tx.prev].id
                        /\ tx.car = cars[tx.prev].car
                        /\ tx.vin = cars[tx.prev].vin
  <2>1. PICK z \in Req : z = q
    BY <1>1
  <2> QED  BY <1>1, <2>1, BuiltCarFine
<1> HIDE DEF tx, q
<1>4. /\ Len(cars') = Len(cars) + 1 /\ DOMAIN cars' = 1..(Len(cars) + 1)
      /\ cars'[Len(cars) + 1] = tx /\ \A i \in 1..Len(cars) : cars'[i] = cars[i]
  BY <1>1, <1>2, <1>3, AppendFacts
<1>5. tx.prev # 0 => \A i \in 1..Len(cars) : cars[i].prev # tx.prev
  BY <1>1, <1>2, <1>3 DEF Unspent
<1> QED  BY <1>1, <1>2, <1>3, <1>4, <1>5 DEF tx, q

\* Only FinalizeCar writes the ledger of CarStates.
LEMMA OnlyFinalizeCar ==
    ASSUME [Next]_vars, \A r \in Requests : ~FinalizeCar(r)
    PROVE  cars' = cars
  BY DEF Next, Serve, SendCarEvent, SendCarPolicy, ReadEvent, FinalizeEvent, LookupCar, ReadCar,
         ReadConsumed, NotaryRefuses, FlowFails, LoseRpc, Deliver, Quiescent, vars

-----------------------------------------------------------------------------
(* NoUpdate.                                                                *)

\* A transaction without what it does to the chain.
Content(c) == [c EXCEPT !.prev = 0, !.command = "Update"]

LEMMA SameCarIsSame ==
    ASSUME NEW c \in CarTx, NEW d \in CarTx, SameCar(c, d)
    PROVE  Content(c) = Content(d)
<1>1. /\ c.id = d.id /\ c.state = d.state /\ c.terms = d.terms /\ c.car = d.car
      /\ c.insurer = d.insurer /\ c.vin = d.vin /\ c.accident = d.accident
      /\ c.details = d.details
  BY DEF SameCar
<1> QED  BY <1>1 DEF CarTx, Content

\* A NoUpdate spends a state, and only its like.
NoUpdates ==
    \A i \in DOMAIN cars : cars[i].command = "NoUpdate" =>
        cars[i].prev # 0 /\ Content(cars[i]) = Content(cars[cars[i].prev])

LEMMA NoUpdatesStep ==
    ASSUME LedgerInv, NoUpdates, [Next]_vars
    PROVE  NoUpdates'
<1>1. CASE cars' = cars
  BY <1>1 DEF NoUpdates
<1>2. ASSUME NEW r \in Requests, FinalizeCar(r)
      PROVE  NoUpdates'
  <2> DEFINE tx == BuiltCar(req[r])
             N == Len(cars)
  <2>1. /\ DOMAIN cars' = 1..(N + 1) /\ cars'[N + 1] = tx
        /\ \A i \in 1..N : cars'[i] = cars[i]
        /\ tx \in CarTx /\ tx.prev \in 0..N
    BY <1>2, CarAppended
  <2>2. Verified(tx)
    BY <1>2 DEF FinalizeCar
  <2> HIDE DEF tx
  <2>3. /\ N \in Nat /\ DOMAIN cars = 1..N
        /\ \A i \in 1..N : cars[i] \in CarTx /\ (cars[i].prev # 0 => cars[i].prev \in 1..(i - 1))
    BY CarsTyped
  <2>4. ASSUME tx.command = "NoUpdate"
        PROVE  tx.prev \in 1..N /\ Content(tx) = Content(cars[tx.prev])
    <3>1. tx.prev # 0 /\ SameCar(cars[tx.prev], tx)
      BY <2>2, <2>4 DEF Verified
    <3>2. tx.prev \in 1..N
      BY <2>1, <2>3, <3>1
    <3>3. cars[tx.prev] \in CarTx
      BY <2>3, <3>2
    <3> QED  BY <2>1, <3>1, <3>2, <3>3, SameCarIsSame
  <2>5. ASSUME NEW i \in 1..N, cars[i].command = "NoUpdate"
        PROVE  cars[i].prev \in 1..N /\ Content(cars[i]) = Content(cars[cars[i].prev])
    <3>1. cars[i].prev # 0 /\ Content(cars[i]) = Content(cars[cars[i].prev])
      BY <2>3, <2>5 DEF NoUpdates
    <3>2. cars[i].prev \in 1..(i - 1)
      BY <2>3, <3>1
    <3> QED  BY <2>3, <3>1, <3>2
  <2>6. ASSUME NEW i \in 1..(N + 1), cars'[i].command = "NoUpdate"
        PROVE  cars'[i].prev # 0 /\ Content(cars'[i]) = Content(cars'[cars'[i].prev])
    <3>1. CASE i = N + 1
      <4>1. tx.prev \in 1..N /\ Content(tx) = Content(cars[tx.prev])
        BY <2>1, <2>4, <2>6, <3>1
      <4> QED  BY <2>1, <2>3, <3>1, <4>1
    <3>2. CASE i \in 1..N
      <4>1. cars[i].prev \in 1..N /\ Content(cars[i]) = Content(cars[cars[i].prev])
        BY <2>1, <2>5, <2>6, <3>2
      <4> QED  BY <2>1, <2>3, <3>2, <4>1
    <3> QED  BY <2>3, <3>1, <3>2
  <2> QED  BY <2>1, <2>6 DEF NoUpdates, Content
<1> QED  BY <1>1, <1>2, OnlyFinalizeCar

\* CarFlow.Update's choice of command and CarContract's demand of it, by CarState.equals,
\* leave no field a NoUpdate could change.
THEOREM NoUpdateIsNone == Spec => []NoUpdateChangesNothing
<1>1. Init => NoUpdates
  BY DEF Init, NoUpdates
<1>2. LedgerInv /\ NoUpdates /\ [Next]_vars => NoUpdates'
  BY NoUpdatesStep
<1>3. NoUpdates => NoUpdateChangesNothing
  BY DEF NoUpdates, NoUpdateChangesNothing, Content
<1> QED  BY <1>1, <1>2, <1>3, LedgerInvariant, PTL DEF Spec

-----------------------------------------------------------------------------
(* Chains of CarStates.                                                     *)

\* A chain starts at its id, and of two states of one chain the later one comes
\* after the successor of the earlier one.
ChainOrder ==
    /\ \A i \in DOMAIN cars : cars[i].id \in 1..i /\ cars[cars[i].id].prev = 0
    /\ \A i, j \in DOMAIN cars : i < j /\ cars[i].id = cars[j].id =>
         \E k \in (i + 1)..j : cars[k].prev = i

LEMMA ChainOrderStep ==
    ASSUME LedgerInv, ChainOrder, [Next]_vars
    PROVE  ChainOrder'
<1>1. CASE cars' = cars
  BY <1>1 DEF ChainOrder
<1>2. ASSUME NEW r \in Requests, FinalizeCar(r)
      PROVE  ChainOrder'
  <2> DEFINE tx == BuiltCar(req[r])
             N == Len(cars)
  <2>1. /\ DOMAIN cars' = 1..(N + 1) /\ cars'[N + 1] = tx
        /\ \A i \in 1..N : cars'[i] = cars[i]
        /\ tx.prev \in 0..N
        /\ tx.prev # 0 => \A i \in 1..N : cars[i].prev # tx.prev
        /\ tx.prev = 0 => tx.id = N + 1
        /\ tx.prev # 0 => tx.id = cars[tx.prev].id
    BY <1>2, CarAppended
  <2> HIDE DEF tx
  <2>2. N \in Nat /\ DOMAIN cars = 1..N
    BY CarsTyped
  <2>3. \A i \in 1..N : cars[i].id \in 1..i /\ cars[cars[i].id].prev = 0
    BY <2>2 DEF ChainOrder
  <2>4. \A i, j \in 1..N : i < j /\ cars[i].id = cars[j].id =>
          \E k \in (i + 1)..j : cars[k].prev = i
    BY <2>2 DEF ChainOrder
  <2>5. tx.id \in 1..(N + 1) /\ cars'[tx.id].prev = 0
    BY <2>1, <2>2, <2>3
  <2>6. ASSUME NEW i \in 1..(N + 1)
        PROVE  cars'[i].id \in 1..i /\ cars'[cars'[i].id].prev = 0
    BY <2>1, <2>2, <2>3, <2>5
  <2>7. ASSUME NEW i \in 1..N, cars[i].id = tx.id
        PROVE  \E k \in (i + 1)..(N + 1) : cars'[k].prev = i
    <3>1. tx.prev \in 1..N /\ cars[tx.prev].id = cars[i].id
      BY <2>1, <2>2, <2>3, <2>7
    <3>2. CASE i = tx.prev
      BY <2>1, <2>2, <3>2
    <3>3. CASE i < tx.prev
      <4>1. PICK k \in (i + 1)..tx.prev : cars[k].prev = i
        BY <2>4, <3>1, <3>3
      <4>2. k \in (i + 1)..(N + 1) /\ k \in 1..N
        BY <2>2, <3>1
      <4> QED  BY <2>1, <4>1, <4>2
    <3>4. CASE tx.prev < i
      <4>1. PICK k \in (tx.prev + 1)..i : cars[k].prev = tx.prev
        BY <2>4, <3>1, <3>4
      <4>2. k \in 1..N
        BY <2>2, <3>1
      <4> QED  BY <2>1, <3>1, <4>1, <4>2
    <3> QED  BY <2>2, <3>1, <3>2, <3>3, <3>4
  <2>8. ASSUME NEW i \in 1..(N + 1), NEW j \in 1..(N + 1),
               i < j, cars'[i].id = cars'[j].id
        PROVE  \E k \in (i + 1)..j : cars'[k].prev = i
    <3>1. CASE j = N + 1
      <4>1. i \in 1..N /\ cars[i].id = tx.id
        BY <2>1, <2>2, <2>8, <3>1
      <4> QED  BY <2>7, <3>1, <4>1
    <3>2. CASE j \in 1..N
      <4>1. i \in 1..N /\ cars[i].id = cars[j].id
        BY <2>1, <2>2, <2>8, <3>2
      <4>2. PICK k \in (i + 1)..j : cars[k].prev = i
        BY <2>4, <2>8, <3>2, <4>1
      <4>3. k \in 1..N
        BY <2>2, <3>2, <4>1
      <4> QED  BY <2>1, <4>2, <4>3
    <3> QED  BY <2>2, <3>1, <3>2
  <2> QED  BY <2>1, <2>6, <2>8 DEF ChainOrder
<1> QED  BY <1>1, <1>2, OnlyFinalizeCar

LEMMA ChainsOrdered == Spec => []ChainOrder
<1>1. Init => ChainOrder
  BY DEF Init, ChainOrder
<1>2. LedgerInv /\ ChainOrder /\ [Next]_vars => ChainOrder'
  BY ChainOrderStep
<1> QED  BY <1>1, <1>2, LedgerInvariant, PTL DEF Spec

EndOf(ledger, id) == CHOOSE i \in DOMAIN ledger : ledger[i].id = id /\ Unspent(ledger, i)

\* All that is known of the chains of a ledger of N states.
Chained(ledger, N) ==
    /\ N \in Nat /\ DOMAIN ledger = 1..N
    /\ \A i \in 1..N :
         /\ ledger[i].id \in 1..i /\ ledger[ledger[i].id].prev = 0
         /\ ledger[i].prev = 0 => ledger[i].id = i
         /\ ledger[i].prev # 0 => /\ ledger[i].prev \in 1..(i - 1)
                                  /\ ledger[i].id = ledger[ledger[i].prev].id
    /\ \A i, j \in 1..N : i < j /\ ledger[i].id = ledger[j].id =>
         \E k \in (i + 1)..j : ledger[k].prev = i

LEMMA CarsChained ==
    ASSUME LedgerInv, ChainOrder
    PROVE  Chained(cars, Len(cars))
  BY CarsTyped DEF ChainOrder, Chained

\* A chain has one end.
LEMMA EndIs ==
    ASSUME NEW ledger, NEW N, Chained(ledger, N), NEW e \in 1..N, Unspent(ledger, e)
    PROVE  EndOf(ledger, ledger[e].id) = e
<1>1. N \in Nat /\ DOMAIN ledger = 1..N
  BY DEF Chained
<1>2. ASSUME NEW i \in 1..N, ledger[i].id = ledger[e].id, Unspent(ledger, i)
      PROVE  i = e
  <2>1. ASSUME NEW a \in 1..N, NEW b \in 1..N,
               a < b, ledger[a].id = ledger[b].id, Unspent(ledger, a)
        PROVE  FALSE
    <3>1. PICK k \in (a + 1)..b : ledger[k].prev = a
      BY <2>1 DEF Chained
    <3>2. k \in 1..N /\ a # 0
      BY <1>1
    <3> QED  BY <1>1, <2>1, <3>1, <3>2 DEF Unspent
  <2>2. ~(i < e) /\ ~(e < i)
    BY <1>2, <2>1
  <2> QED  BY <1>1, <2>2
<1> QED  BY <1>1, <1>2 DEF EndOf

LEMMA EndExists ==
    ASSUME NEW ledger, NEW N, Chained(ledger, N), NEW id \in 1..N, ledger[id].prev = 0
    PROVE  LET e == EndOf(ledger, id) IN
           e \in 1..N /\ ledger[e].id = id /\ Unspent(ledger, e)
<1> DEFINE S == {i \in 1..N : ledger[i].id = id}
<1>1. N \in Nat /\ DOMAIN ledger = 1..N
  BY DEF Chained
<1>2. id \in S
  BY DEF Chained
<1>3. S \in SUBSET (1..N) /\ S # {}
  BY <1>2
<1> HIDE DEF S
<1>4. PICK e \in S : \A j \in S : j <= e
  BY <1>1, <1>3, LatestIsLast
<1>5. e \in 1..N /\ ledger[e].id = id
  BY DEF S
<1>6. Unspent(ledger, e)
  <2> SUFFICES ASSUME NEW i \in 1..N, e # 0, ledger[i].prev = e
               PROVE  FALSE
    BY <1>1 DEF Unspent
  <2>1. e \in 1..(i - 1) /\ ledger[i].id = id
    BY <1>5 DEF Chained
  <2>2. i \in S
    BY <2>1 DEF S
  <2> QED  BY <1>1, <1>4, <2>1, <2>2
<1> QED  BY <1>1, <1>5, <1>6 DEF EndOf

-----------------------------------------------------------------------------
(* What a car's own vault shows.                                            *)

\* The references of a vault.
Entries(v) == {v[p] : p \in DOMAIN v}

\* A car records the transactions of a chain in their order, those it makes
\* itself and those it is sent, and its requests spend what it has recorded.
CarsUpToDate ==
    /\ \A n \in Cars, i, j \in DOMAIN cars :
         j \in Entries(vault[n]) /\ i < j /\ cars[i].id = cars[j].id /\ cars[i].car = n
           => i \in Entries(vault[n])
    /\ \A r \in Requests : req[r].carRef # 0 /\ req[r].node \in Cars =>
         req[r].carRef \in Entries(vault[req[r].node])

\* Recording one more.
LEMMA RecordedAppend ==
    ASSUME LedgerInv, NEW n \in Nodes, NEW i, i \in Nat,
           vault' = [vault EXCEPT ![n] = Append(@, i)]
    PROVE  /\ Entries(vault'[n]) = Entries(vault[n]) \cup {i}
           /\ \A m \in Nodes : m # n => Entries(vault'[m]) = Entries(vault[m])
<1>1. vault \in [Nodes -> Seq(Nat)] /\ vault[n] \in Seq(Nat)
  BY DEF LedgerInv, TypeOK
<1>2. vault'[n] = Append(vault[n], i) /\ \A m \in Nodes : m # n => vault'[m] = vault[m]
  BY <1>1
<1>3. /\ Len(vault[n]) \in Nat /\ DOMAIN vault[n] = 1..Len(vault[n])
      /\ DOMAIN vault'[n] = 1..(Len(vault[n]) + 1)
      /\ vault'[n][Len(vault[n]) + 1] = i
      /\ \A p \in 1..Len(vault[n]) : vault'[n][p] = vault[n][p]
  BY <1>1, <1>2, AppendFacts
<1>4. Entries(vault'[n]) = Entries(vault[n]) \cup {i}
  <2>1. ASSUME NEW x \in Entries(vault'[n]) PROVE x \in Entries(vault[n]) \cup {i}
    BY <1>3, <2>1 DEF Entries
  <2>2. ASSUME NEW x \in Entries(vault[n]) PROVE x \in Entries(vault'[n])
    BY <1>3, <2>2 DEF Entries
  <2>3. i \in Entries(vault'[n])
    BY <1>3 DEF Entries
  <2> QED  BY <2>1, <2>2, <2>3
<1> QED  BY <1>2, <1>4 DEF Entries

\* The last car a vault shows is one it has recorded.
LEMMA LastCarRecorded ==
    ASSUME LedgerInv, NEW n \in Nodes, LastCar(n) # 0
    PROVE  LastCar(n) \in Entries(vault[n])
<1>1. vault[n] \in Seq(Nat)
  BY DEF LedgerInv, TypeOK
<1>2. Len(vault[n]) \in Nat /\ DOMAIN vault[n] = 1..Len(vault[n])
  BY <1>1, LenProperties
<1>3. /\ UnconsumedPositions(n) \in SUBSET (1..Len(vault[n]))
      /\ UnconsumedPositions(n) # {}
      /\ LastCar(n) = vault[n][Latest(UnconsumedPositions(n))]
  BY <1>2 DEF LastCar, UnconsumedPositions
<1>4. Latest(UnconsumedPositions(n)) \in UnconsumedPositions(n)
  BY <1>2, <1>3, LatestIsLast
<1> QED  BY <1>3, <1>4 DEF UnconsumedPositions, Entries

LEMMA UpToDateFinalize ==
    ASSUME LedgerInv, ChainOrder, CarsUpToDate, NEW r \in Requests, FinalizeCar(r)
    PROVE  CarsUpToDate'
<1> DEFINE q == req[r]
           tx == BuiltCar(q)
           N == Len(cars)
<1>1. /\ q \in Req /\ q.node \in Nodes
      /\ DOMAIN cars' = 1..(N + 1) /\ cars'[N + 1] = tx
      /\ \A i \in 1..N : cars'[i] = cars[i]
      /\ tx.prev = q.carRef /\ tx.prev \in 0..N
      /\ tx.prev # 0 => \A i \in 1..N : cars[i].prev # tx.prev
      /\ tx.prev = 0 => tx.id = N + 1
      /\ tx.prev # 0 => tx.id = cars[tx.prev].id /\ tx.car = cars[tx.prev].car
  BY CarAppended
<1>2. /\ vault' = [vault EXCEPT ![q.node] = Append(@, N + 1)]
      /\ req' = [req EXCEPT ![r] = IdleReq]
  BY DEF FinalizeCar, Answer
<1> HIDE DEF tx
<1>3. N \in Nat /\ DOMAIN cars = 1..N /\ \A i \in 1..N : cars[i].id \in 1..i
  BY CarsTyped DEF ChainOrder
<1>4. /\ Entries(vault'[q.node]) = Entries(vault[q.node]) \cup {N + 1}
      /\ \A m \in Nodes : m # q.node => Entries(vault'[m]) = Entries(vault[m])
  <2>1. q.node \in Nodes /\ N + 1 \in Nat
    BY <1>1, <1>3
  <2> HIDE DEF q
  <2> QED  BY <1>2, <2>1, RecordedAppend
<1>5. \A m \in Nodes : Entries(vault[m]) \subseteq 1..N
  BY <1>3 DEF LedgerInv, VaultKnown, Entries
<1>6. ASSUME NEW n \in Cars, NEW i \in 1..(N + 1), NEW j \in 1..(N + 1),
             j \in Entries(vault'[n]), i < j, cars'[i].id = cars'[j].id, cars'[i].car = n
      PROVE  i \in Entries(vault'[n])
  <2>1. n \in Nodes /\ i \in 1..N /\ cars'[i] = cars[i]
    BY <1>1, <1>3, <1>6 DEF Nodes
  <2>2. CASE j \in 1..N
    <3>1. j \in Entries(vault[n])
      <4>1. Entries(vault'[n]) \subseteq Entries(vault[n]) \cup {N + 1}
        BY <1>4, <2>1
      <4>2. j # N + 1
        BY <1>3, <2>2
      <4> QED  BY <1>6, <4>1, <4>2
    <3>2. i \in Entries(vault[n])
      BY <1>1, <1>3, <1>6, <2>1, <2>2, <3>1 DEF CarsUpToDate
    <3> QED  BY <1>4, <2>1, <3>2
  <2>3. CASE j = N + 1
    <3>1. n = q.node /\ cars[i].id = tx.id
      BY <1>1, <1>3, <1>4, <1>5, <1>6, <2>1, <2>3
    <3>2. tx.prev \in 1..N /\ cars[i].id = cars[tx.prev].id
      BY <1>1, <1>3, <2>1, <3>1
    <3>3. tx.prev \in Entries(vault[n])
      BY <1>1, <3>1, <3>2 DEF CarsUpToDate
    <3>4. CASE i = tx.prev
      BY <1>4, <2>1, <3>3, <3>4
    <3>5. CASE i < tx.prev
      <4>1. i \in Entries(vault[n])
        BY <1>3, <1>6, <2>1, <3>2, <3>3, <3>5 DEF CarsUpToDate
      <4> QED  BY <1>4, <2>1, <4>1
    <3>6. CASE tx.prev < i
      <4>1. PICK k \in (tx.prev + 1)..i : cars[k].prev = tx.prev
        BY <1>3, <2>1, <3>2, <3>6 DEF ChainOrder
      <4>2. k \in 1..N
        BY <1>3, <2>1, <3>2
      <4> QED  BY <1>1, <3>2, <4>1, <4>2
    <3> QED  BY <1>3, <2>1, <3>2, <3>4, <3>5, <3>6
  <2> QED  BY <1>3, <2>2, <2>3
<1>7. ASSUME NEW s \in Requests, req'[s].carRef # 0, req'[s].node \in Cars
      PROVE  req'[s].carRef \in Entries(vault'[req'[s].node])
  <2>1. req \in [Requests -> Req] /\ IdleReq.carRef = 0
    BY DEF LedgerInv, TypeOK, IdleReq
  <2>2. s # r /\ req'[s] = req[s]
    BY <1>2, <1>7, <2>1
  <2>3. req[s].carRef \in Entries(vault[req[s].node])
    BY <1>7, <2>2 DEF CarsUpToDate
  <2>4. req[s].node \in Nodes
    BY <1>7, <2>2 DEF Nodes
  <2> QED  BY <1>4, <2>2, <2>3, <2>4
<1> QED  BY <1>1, <1>6, <1>7 DEF CarsUpToDate

LEMMA UpToDateDeliver ==
    ASSUME LedgerInv, CarsUpToDate, NEW n \in Nodes, NEW i \in DOMAIN cars, Deliver(n, i)
    PROVE  CarsUpToDate'
<1>1. /\ cars' = cars /\ req' = req /\ DOMAIN cars = 1..Len(cars) /\ Len(cars) \in Nat
      /\ vault' = [vault EXCEPT ![n] = Append(@, i)]
      /\ \A j \in 1..(i - 1) : cars[j].id = cars[i].id => ~Awaits(n, j)
  BY CarsTyped DEF Deliver
<1>2. /\ Entries(vault'[n]) = Entries(vault[n]) \cup {i}
      /\ \A m \in Nodes : m # n => Entries(vault'[m]) = Entries(vault[m])
  <2>1. i \in Nat
    BY <1>1
  <2> QED  BY <1>1, <2>1, RecordedAppend
<1>3. ASSUME NEW m \in Cars, NEW k \in DOMAIN cars, NEW j \in DOMAIN cars,
             j \in Entries(vault'[m]), k < j, cars[k].id = cars[j].id, cars[k].car = m
      PROVE  k \in Entries(vault'[m])
  <2>1. m \in Nodes
    BY DEF Nodes
  <2>2. CASE j \in Entries(vault[m])
    <3>1. k \in Entries(vault[m])
      BY <1>3, <2>2 DEF CarsUpToDate
    <3> QED  BY <1>2, <2>1, <3>1
  <2>3. CASE m = n /\ j = i
    <3>1. ~Awaits(n, k)
      BY <1>1, <1>3, <2>3
    <3>2. k \in Entries(vault[n])
      BY <1>3, <2>3, <3>1 DEF Awaits, Participants, Recorded, Entries
    <3> QED  BY <1>2, <2>3, <3>2
  <2> QED  BY <1>2, <1>3, <2>1, <2>2, <2>3
<1>4. ASSUME NEW s \in Requests, req[s].carRef # 0, req[s].node \in Cars
      PROVE  req[s].carRef \in Entries(vault'[req[s].node])
  <2>1. req[s].carRef \in Entries(vault[req[s].node]) /\ req[s].node \in Nodes
    BY <1>4 DEF CarsUpToDate, Nodes
  <2> QED  BY <1>2, <2>1
<1> QED  BY <1>1, <1>3, <1>4 DEF CarsUpToDate

\* A step that leaves ledger and vaults alone and gives a request at most what
\* its vault shows.
LEMMA UpToDateRequest ==
    ASSUME LedgerInv, CarsUpToDate, NEW r \in Requests, NEW q,
           req' = [req EXCEPT ![r] = q], cars' = cars, vault' = vault,
           \/ q.carRef = 0
           \/ q.carRef = req[r].carRef /\ q.node = req[r].node
           \/ q.node \in Nodes /\ q.carRef = LastCar(q.node)
    PROVE  CarsUpToDate'
<1>1. \A n : Entries(vault'[n]) = Entries(vault[n])
  BY DEF Entries
<1>2. req \in [Requests -> Req]
  BY DEF LedgerInv, TypeOK
<1>3. ASSUME NEW s \in Requests, req'[s].carRef # 0, req'[s].node \in Cars
      PROVE  req'[s].carRef \in Entries(vault[req'[s].node])
  <2>1. CASE s # r
    BY <1>2, <1>3, <2>1 DEF CarsUpToDate
  <2>2. CASE s = r
    <3>1. req'[s] = q
      BY <1>2, <2>2
    <3> QED  BY <1>3, <2>2, <3>1, LastCarRecorded DEF CarsUpToDate
  <2> QED  BY <2>1, <2>2
<1> QED  BY <1>1, <1>3 DEF CarsUpToDate

LEMMA UpToDateStep ==
    ASSUME LedgerInv, ChainOrder, CarsUpToDate, [Next]_vars
    PROVE  CarsUpToDate'
<1>1. req \in [Requests -> Req] /\ IdleReq.carRef = 0
  BY DEF LedgerInv, TypeOK, IdleReq
<1>2. ASSUME NEW r \in Requests, Answer(r), cars' = cars, vault' = vault
      PROVE  CarsUpToDate'
  BY <1>1, <1>2, UpToDateRequest DEF Answer
<1>3. ASSUME NEW r \in Requests, SendCarEvent(r) PROVE CarsUpToDate'
  <2>1. PICK n \in Cars, post \in EventPosts :
          req' = [req EXCEPT ![r] =
                    [IdleReq EXCEPT !.pc = IF EventsOf(n) # {} THEN "readEvent"
                                           ELSE "finalizeEvent",
                                    !.node = n, !.vin = post.vin,
                                    !.mileage = post.mileage,
                                    !.accident = post.accident]]
    BY <1>3 DEF SendCarEvent
  <2> DEFINE q == [IdleReq EXCEPT !.pc = IF EventsOf(n) # {} THEN "readEvent"
                                         ELSE "finalizeEvent",
                                  !.node = n, !.vin = post.vin,
                                  !.mileage = post.mileage,
                                  !.accident = post.accident]
  <2>2. q.carRef = 0
    BY DEF IdleReq
  <2> HIDE DEF q
  <2> QED  BY <1>3, <2>1, <2>2, UpToDateRequest DEF SendCarEvent, q
<1>4. ASSUME NEW r \in Requests, SendCarPolicy(r) PROVE CarsUpToDate'
  <2> DEFINE q(n, post) ==
               [IdleReq EXCEPT !.pc = IF UnconsumedCars(n) # {} THEN "readCar"
                                      ELSE "finalizeCar",
                               !.op = "policy", !.node = n, !.vin = post.vin,
                               !.insurer = post.insurer,
                               !.terms = post.terms, !.details = post.terms]
  <2>1. PICK n \in PolicyNodes, post \in PolicyPosts : req' = [req EXCEPT ![r] = q(n, post)]
    BY <1>4 DEF SendCarPolicy
  <2>2. q(n, post).carRef = 0
    BY DEF IdleReq
  <2> HIDE DEF q
  <2> QED  BY <1>4, <2>1, <2>2, UpToDateRequest DEF SendCarPolicy
<1>5. ASSUME NEW r \in Requests, ReadEvent(r) PROVE CarsUpToDate'
  <2> DEFINE q == [req[r] EXCEPT !.pc = "finalizeEvent", !.event = LastEvent(req[r].node)]
  <2>1. q.carRef = req[r].carRef /\ q.node = req[r].node
    BY <1>1 DEF Req
  <2>2. req' = [req EXCEPT ![r] = q]
    BY <1>1, <1>5 DEF ReadEvent
  <2> HIDE DEF q
  <2> QED  BY <1>5, <2>1, <2>2, UpToDateRequest DEF ReadEvent
<1>6. ASSUME NEW r \in Requests, ReadConsumed(r) PROVE CarsUpToDate'
  <2> DEFINE q(l) == [req[r] EXCEPT !.pc = "finalizeCar", !.last = l]
  <2>1. PICK l : req' = [req EXCEPT ![r] = q(l)]
    BY <1>1, <1>6 DEF ReadConsumed
  <2>2. q(l).carRef = req[r].carRef /\ q(l).node = req[r].node
    BY <1>1 DEF Req
  <2> HIDE DEF q
  <2> QED  BY <1>6, <2>1, <2>2, UpToDateRequest DEF ReadConsumed
<1>7. ASSUME NEW r \in Requests, FinalizeEvent(r) PROVE CarsUpToDate'
  <2> DEFINE q == [IdleReq EXCEPT !.pc = "lookup", !.node = req[r].node,
                                  !.vin = req[r].vin, !.own = Len(events) + 1]
  <2>1. q.carRef = 0
    BY DEF IdleReq
  <2>2. Answer(r) \/ req' = [req EXCEPT ![r] = q]
    BY <1>7 DEF FinalizeEvent
  <2> HIDE DEF q
  <2> QED  BY <1>2, <1>7, <2>1, <2>2, UpToDateRequest DEF FinalizeEvent
<1>8. ASSUME NEW r \in Requests, LookupCar(r) PROVE CarsUpToDate'
  <2> DEFINE q(i) == [req[r] EXCEPT !.pc = "readCar", !.insurer = cars[i].insurer,
                                    !.terms = cars[i].terms, !.details = cars[i].details]
  <2>1. Answer(r) \/ \E i : req' = [req EXCEPT ![r] = q(i)]
    BY <1>1, <1>8 DEF LookupCar
  <2>2. \A i : q(i).carRef = req[r].carRef /\ q(i).node = req[r].node
    BY <1>1 DEF Req
  <2> HIDE DEF q
  <2> QED  BY <1>2, <1>8, <2>1, <2>2, UpToDateRequest DEF LookupCar
<1>9. ASSUME NEW r \in Requests, ReadCar(r) PROVE CarsUpToDate'
  <2> DEFINE n == req[r].node
             q == [req[r] EXCEPT !.pc = IF LastEvent(n) = 0 THEN "finalizeCar"
                                        ELSE "readConsumed",
                                 !.carRef = LastCar(n), !.event = LastEvent(n),
                                 !.snap = Len(events)]
  <2>1. q.carRef = LastCar(q.node) /\ q.node \in Nodes
    BY <1>1 DEF Req
  <2>2. Answer(r) \/ req' = [req EXCEPT ![r] = q]
    BY <1>1, <1>9 DEF ReadCar
  <2> HIDE DEF q
  <2> QED  BY <1>2, <1>9, <2>1, <2>2, UpToDateRequest DEF ReadCar
<1>10. ASSUME NEW r \in Requests, LoseRpc(r) PROVE CarsUpToDate'
  <2> DEFINE q == [req[r] EXCEPT !.live = FALSE]
  <2>1. q.carRef = req[r].carRef /\ q.node = req[r].node
    BY <1>1 DEF Req
  <2>2. Answer(r) \/ req' = [req EXCEPT ![r] = q]
    BY <1>1, <1>10 DEF LoseRpc
  <2> HIDE DEF q
  <2> QED  BY <1>2, <1>10, <2>1, <2>2, UpToDateRequest DEF LoseRpc
<1>11. CASE UNCHANGED vars
  BY <1>11 DEF vars, CarsUpToDate, Entries
<1>12. ASSUME NEW r \in Requests, NotaryRefuses(r) \/ FlowFails(r) PROVE CarsUpToDate'
  BY <1>2, <1>12 DEF NotaryRefuses, FlowFails
<1> QED
  BY <1>3, <1>4, <1>5, <1>6, <1>7, <1>8, <1>9, <1>10, <1>11, <1>12,
     UpToDateFinalize, UpToDateDeliver DEF Next, Serve, Quiescent

\* Both participants of a car sign and record every transaction of its chain, so its own
\* node, which is in all of them, never takes two versions of the car for current.
THEOREM CarSeesOne == Spec => []CarSeesOneVersion
<1>1. Init => CarsUpToDate
  BY DEF Init, CarsUpToDate, Entries, IdleReq
<1>2. LedgerInv /\ ChainOrder /\ CarsUpToDate /\ [Next]_vars => CarsUpToDate'
  BY UpToDateStep
<1>3. LedgerInv /\ ChainOrder /\ CarsUpToDate => CarSeesOneVersion
  <2> SUFFICES ASSUME LedgerInv, ChainOrder, CarsUpToDate, NEW n \in Cars,
                      NEW i \in UnconsumedCars(n), NEW j \in UnconsumedCars(n),
                      cars[i].id = cars[j].id, i # j
               PROVE  FALSE
    BY DEF CarSeesOneVersion
  <2>1. /\ Len(cars) \in Nat /\ DOMAIN cars = 1..Len(cars)
        /\ \A k \in DOMAIN cars :
             /\ cars[k] \in CarTx
             /\ cars[k].prev # 0 => /\ cars[k].id = cars[cars[k].prev].id
                                    /\ cars[k].car = cars[cars[k].prev].car
    BY CarsTyped
  <2>2. ASSUME NEW a \in UnconsumedCars(n)
        PROVE  /\ a \in DOMAIN cars /\ a \in Entries(vault[n]) /\ cars[a].car = n
               /\ \A k \in Entries(vault[n]) : cars[k].prev # a
    <3>1. PICK p \in DOMAIN vault[n] : a = vault[n][p] /\ UnconsumedAt(n, p)
      BY DEF UnconsumedCars, UnconsumedPositions
    <3>2. n \in Nodes
      BY DEF Nodes
    <3>3. a \in DOMAIN cars /\ a \in Entries(vault[n])
      BY <3>1, <3>2 DEF LedgerInv, VaultKnown, Entries
    <3>4. cars[a] \in CarTx /\ n \in Participants(cars[a])
      BY <2>1, <3>1, <3>3 DEF UnconsumedAt
    <3>5. cars[a].car = n
      BY <3>4, ConstantsAssumption DEF Participants, CarTx
    <3> QED  BY <3>1, <3>3, <3>5 DEF UnconsumedAt, Recorded, Entries
  <2>3. ASSUME NEW a \in UnconsumedCars(n), NEW b \in UnconsumedCars(n),
               cars[a].id = cars[b].id, a < b
        PROVE  FALSE
    <3>1. /\ a \in DOMAIN cars /\ b \in DOMAIN cars /\ b \in Entries(vault[n])
          /\ cars[a].car = n /\ \A k \in Entries(vault[n]) : cars[k].prev # a
      BY <2>2
    <3>2. PICK k \in (a + 1)..b : cars[k].prev = a
      BY <2>3, <3>1 DEF ChainOrder
    <3>3. k \in DOMAIN cars /\ a # 0
      BY <2>1, <3>1
    <3>4. cars[k].id = cars[b].id /\ cars[k].car = n
      BY <2>1, <2>3, <3>1, <3>2, <3>3
    <3>5. k \in Entries(vault[n])
      BY <2>1, <3>1, <3>2, <3>3, <3>4 DEF CarsUpToDate
    <3> QED  BY <3>1, <3>2, <3>5
  <2>4. i < j \/ j < i
    BY <2>1, <2>2
  <2> QED  BY <2>3, <2>4
<1> QED  BY <1>1, <1>2, <1>3, LedgerInvariant, ChainsOrdered, PTL DEF Spec

-----------------------------------------------------------------------------
(* The refinement.                                                          *)

Roots(ledger) == {i \in DOMAIN ledger : ledger[i].prev = 0}
RegistryOf(ledger) == [id \in Roots(ledger) |-> VersionOf(ledger[EndOf(ledger, id)])]

\* The end of a chain that is not continued stays its end.
LEMMA EndStays ==
    ASSUME NEW ledger, NEW new, NEW N, Chained(ledger, N), Chained(new, N + 1),
           \A i \in 1..N : new[i] = ledger[i],
           NEW id \in Roots(ledger), new[N + 1].prev # EndOf(ledger, id)
    PROVE  new[EndOf(new, id)] = ledger[EndOf(ledger, id)]
<1> DEFINE e == EndOf(ledger, id)
<1>1. N \in Nat /\ DOMAIN ledger = 1..N /\ DOMAIN new = 1..(N + 1)
  BY DEF Chained
<1>2. e \in 1..N /\ ledger[e].id = id /\ Unspent(ledger, e)
  BY <1>1, EndExists DEF Roots
<1>3. e \in 1..(N + 1) /\ new[e].id = id
  BY <1>1, <1>2
<1> HIDE DEF e
<1>4. Unspent(new, e)
  BY <1>1, <1>2 DEF Unspent, e
<1>5. EndOf(new, id) = e
  BY <1>3, <1>4, EndIs
<1> QED  BY <1>2, <1>5 DEF e

\* A state that has just been recorded is the end of its chain.
LEMMA LastIsEnd ==
    ASSUME NEW ledger, NEW N, Chained(ledger, N), N # 0
    PROVE  EndOf(ledger, ledger[N].id) = N
<1>1. N \in 1..N /\ N \in Nat /\ DOMAIN ledger = 1..N
  BY DEF Chained
<1>2. \A i \in 1..N : ledger[i].prev # N
  BY <1>1 DEF Chained
<1>3. Unspent(ledger, N)
  BY <1>1, <1>2 DEF Unspent
<1> QED  BY <1>1, <1>3, EndIs

\* A new chain adds its state to the registry.
LEMMA RegistryIssued ==
    ASSUME NEW ledger, NEW new, NEW N, Chained(ledger, N), Chained(new, N + 1),
           \A i \in 1..N : new[i] = ledger[i], new[N + 1].prev = 0
    PROVE  /\ N + 1 \notin Roots(ledger) /\ Roots(new) = Roots(ledger) \cup {N + 1}
           /\ RegistryOf(new)[N + 1] = VersionOf(new[N + 1])
           /\ \A id \in Roots(ledger) : RegistryOf(new)[id] = RegistryOf(ledger)[id]
<1>1. /\ N \in Nat /\ DOMAIN ledger = 1..N /\ DOMAIN new = 1..(N + 1)
      /\ new[N + 1].id = N + 1
  BY DEF Chained
<1>2. N + 1 \notin Roots(ledger) /\ Roots(new) = Roots(ledger) \cup {N + 1}
  BY <1>1 DEF Roots
<1>3. EndOf(new, N + 1) = N + 1
  BY <1>1, LastIsEnd
<1>4. ASSUME NEW id \in Roots(ledger)
      PROVE  new[EndOf(new, id)] = ledger[EndOf(ledger, id)]
  <2>1. EndOf(ledger, id) \in 1..N
    BY <1>1, EndExists DEF Roots
  <2>2. new[N + 1].prev # EndOf(ledger, id)
    BY <1>1, <2>1
  <2> QED  BY <2>2, EndStays
<1> QED  BY <1>2, <1>3, <1>4 DEF RegistryOf

\* A transaction that spends the end of a chain replaces its version.
LEMMA RegistryUpdated ==
    ASSUME NEW ledger, NEW new, NEW N, Chained(ledger, N), Chained(new, N + 1),
           \A i \in 1..N : new[i] = ledger[i],
           NEW p \in 1..N, new[N + 1].prev = p, Unspent(ledger, p)
    PROVE  /\ ledger[p].id \in Roots(ledger)
           /\ RegistryOf(ledger)[ledger[p].id] = VersionOf(ledger[p])
           /\ RegistryOf(new) = [RegistryOf(ledger) EXCEPT ![ledger[p].id] = VersionOf(new[N + 1])]
<1> DEFINE own == ledger[p].id
<1>1. /\ N \in Nat /\ DOMAIN ledger = 1..N /\ DOMAIN new = 1..(N + 1)
      /\ own \in Roots(ledger)
  BY DEF Chained, Roots
<1>2. Roots(new) = Roots(ledger)
  BY <1>1 DEF Roots
<1>3. EndOf(ledger, own) = p
  BY EndIs
<1>4. new[N + 1].id = own
  BY <1>1 DEF Chained
<1>5. EndOf(new, own) = N + 1
  <2>1. N + 1 # 0
    BY <1>1
  <2> QED  BY <1>4, <2>1, LastIsEnd
<1>6. ASSUME NEW id \in Roots(ledger), id # own
      PROVE  new[EndOf(new, id)] = ledger[EndOf(ledger, id)]
  <2>1. EndOf(ledger, id) \in 1..N /\ ledger[EndOf(ledger, id)].id = id
    BY <1>1, EndExists DEF Roots
  <2>2. EndOf(ledger, id) # p
    BY <1>6, <2>1
  <2> QED  BY <2>2, EndStays
<1> HIDE DEF own
<1>7. RegistryOf(new) = [RegistryOf(ledger) EXCEPT ![own] = VersionOf(new[N + 1])]
  BY <1>1, <1>2, <1>5, <1>6 DEF RegistryOf
<1>8. RegistryOf(ledger)[own] = VersionOf(ledger[p])
  BY <1>1, <1>3 DEF RegistryOf
<1> QED  BY <1>1, <1>7, <1>8 DEF own

\* What CarFlow builds is one of the three things InsuredCars allows.
LEMMA CreatedVersion ==
    ASSUME LedgerInv, NEW q \in Req, ReqKnown(q), q.pc = "finalizeCar", q.carRef = 0
    PROVE  LET v == VersionOf(BuiltCar(q)) IN
           v \in Promise!Version /\ v.state = "VALID" /\ v.accident = "NO"
<1>1. q.node \in Cars /\ q.vin \in Vins /\ q.insurer \in Insurers
      /\ q.terms \in Terms /\ q.details \in Terms
  BY DEF ReqKnown, Req
<1> QED  BY <1>1 DEF BuiltCar, CreatedCar, VersionOf, Promise!Version

\* A version that differs from another in these fields only.
LEMMA Amended ==
    ASSUME NEW u \in Promise!Version, NEW v \in Promise!Version, u.car = v.car, u.vin = v.vin
    PROVE  /\ u.state = v.state /\ u.accident = v.accident =>
                v = [u EXCEPT !.insurer = v.insurer, !.terms = v.terms, !.details = v.details]
           /\ u.insurer = v.insurer /\ u.terms = v.terms =>
                v = [u EXCEPT !.state = v.state, !.accident = v.accident, !.details = v.details]
  BY DEF Promise!Version

LEMMA VersionTyped ==
    ASSUME NEW c \in CarTx
    PROVE  /\ VersionOf(c) \in Promise!Version
           /\ VersionOf(c).car = c.car /\ VersionOf(c).vin = c.vin
           /\ VersionOf(c).insurer = c.insurer /\ VersionOf(c).terms = c.terms
           /\ VersionOf(c).details = c.details /\ VersionOf(c).state = c.state
           /\ VersionOf(c).accident = c.accident
  BY DEF VersionOf, CarTx, Promise!Version

LEMMA UpdatedVersion ==
    ASSUME LedgerInv, NEW q \in Req, ReqKnown(q), q.pc = "finalizeCar", q.carRef # 0
    PROVE  LET u == VersionOf(cars[q.carRef])
               v == VersionOf(BuiltCar(q))
           IN  \/ \E i \in Insurers, t \in Terms, d \in Terms :
                    v = [u EXCEPT !.insurer = i, !.terms = t, !.details = d]
               \/ \E s \in {"VALID", "FRAUD"}, a \in {"NO", "ONE", "MORE_THAN_ONE"}, d \in Terms :
                    /\ IF u.insurer = InsureMe THEN s = "VALID"
                       ELSE u.state = "FRAUD" => s = "FRAUD"
                    /\ a \in {u.accident, Promise!Worse(u.accident)}
                    /\ v = [u EXCEPT !.state = s, !.accident = a, !.details = d]
<1> DEFINE tx == BuiltCar(q)
           c == cars[q.carRef]
           u == VersionOf(c)
           v == VersionOf(tx)
<1>1. /\ cars \in Seq(CarTx) /\ Len(cars) \in Nat /\ q.carRef \in 1..Len(cars)
      /\ q.insurer \in Insurers /\ q.terms \in Terms /\ q.details \in Terms
  BY LenProperties DEF LedgerInv, TypeOK, ReqKnown, Req
<1>2. c \in CarTx /\ tx \in CarTx
  BY <1>1, BuiltCarFine
<1>3. /\ u \in Promise!Version /\ v \in Promise!Version
      /\ u.car = c.car /\ u.vin = c.vin /\ u.insurer = c.insurer /\ u.terms = c.terms
      /\ u.state = c.state /\ u.accident = c.accident
      /\ v.car = tx.car /\ v.vin = tx.vin /\ v.insurer = tx.insurer /\ v.terms = tx.terms
      /\ v.details = tx.details /\ v.state = tx.state /\ v.accident = tx.accident
  <2> HIDE DEF tx, c
  <2> QED  BY <1>2, VersionTyped
<1>4. CASE q.event = 0
  <2>1. /\ tx.car = c.car /\ tx.vin = c.vin /\ tx.state = c.state /\ tx.accident = c.accident
        /\ tx.insurer = q.insurer /\ tx.terms = q.terms /\ tx.details = q.details
    BY <1>1, <1>2, <1>4 DEF BuiltCar, UpdatedCar, Repoliced, CarTx
  <2> HIDE DEF tx, c, u, v
  <2>2. v = [u EXCEPT !.insurer = q.insurer, !.terms = q.terms, !.details = q.details]
    <3>1. /\ u.car = v.car /\ u.vin = v.vin /\ u.state = v.state /\ u.accident = v.accident
          /\ v.insurer = q.insurer /\ v.terms = q.terms /\ v.details = q.details
      BY <1>3, <2>1
    <3>2. v = [u EXCEPT !.insurer = v.insurer, !.terms = v.terms, !.details = v.details]
      BY <1>3, <3>1, Amended
    <3> QED  BY <3>1, <3>2, Zenon
  <2>3. \E i \in Insurers, t \in Terms, d \in Terms :
          v = [u EXCEPT !.insurer = i, !.terms = t, !.details = d]
    BY <1>1, <2>2, Zenon
  <2> QED  BY <2>3, Zenon DEF tx, c, u, v
<1>5. CASE q.event # 0
  <2> DEFINE s == IF c.insurer = InsureMe THEN "VALID" ELSE NewState(c.state, q.event, q.last)
             a == NewAccidentState(c.accident, events[q.event].accident)
  <2>1. /\ tx.car = c.car /\ tx.vin = c.vin /\ tx.insurer = c.insurer /\ tx.terms = c.terms
        /\ tx.state = s /\ tx.accident = a /\ tx.details = q.details
    BY <1>1, <1>2, <1>5 DEF BuiltCar, UpdatedCar, Reassessed, CarTx
  <2>2. /\ s \in {"VALID", "FRAUD"}
        /\ IF c.insurer = InsureMe THEN s = "VALID" ELSE c.state = "FRAUD" => s = "FRAUD"
    BY DEF NewState
  <2>3. a \in {"NO", "ONE", "MORE_THAN_ONE"} /\ a \in {c.accident, Promise!Worse(c.accident)}
    <3>1. c.accident \in {"NO", "ONE", "MORE_THAN_ONE"}
      BY <1>2 DEF CarTx
    <3> HIDE DEF c
    <3> QED  BY <3>1 DEF NewAccidentState, Promise!Worse
  <2> HIDE DEF s, a, tx, c, u, v
  <2>4. v = [u EXCEPT !.state = s, !.accident = a, !.details = q.details]
    <3>1. /\ u.car = v.car /\ u.vin = v.vin /\ u.insurer = v.insurer /\ u.terms = v.terms
          /\ v.state = s /\ v.accident = a /\ v.details = q.details
      BY <1>3, <2>1
    <3>2. v = [u EXCEPT !.state = v.state, !.accident = v.accident, !.details = v.details]
      BY <1>3, <3>1, Amended
    <3> QED  BY <3>1, <3>2, Zenon
  <2>5. /\ IF u.insurer = InsureMe THEN s = "VALID" ELSE u.state = "FRAUD" => s = "FRAUD"
        /\ a \in {u.accident, Promise!Worse(u.accident)}
    BY <1>3, <2>2, <2>3
  <2>6. \E s_1 \in {"VALID", "FRAUD"}, a_1 \in {"NO", "ONE", "MORE_THAN_ONE"}, d \in Terms :
          /\ IF u.insurer = InsureMe THEN s_1 = "VALID"
             ELSE u.state = "FRAUD" => s_1 = "FRAUD"
          /\ a_1 \in {u.accident, Promise!Worse(u.accident)}
          /\ v = [u EXCEPT !.state = s_1, !.accident = a_1, !.details = d]
    BY <1>1, <2>2, <2>3, <2>4, <2>5, Zenon
  <2> QED  BY <2>6, Zenon DEF tx, c, u, v
<1> QED  BY <1>4, <1>5

LEMMA PromiseStep ==
    ASSUME LedgerInv, Chained(cars, Len(cars)), Chained(cars', Len(cars')), [Next]_vars
    PROVE  [Promise!Next]_Registry
<1>1. Registry = RegistryOf(cars) /\ Registry' = RegistryOf(cars')
  BY DEF Registry, Issued, Current, RegistryOf, Roots, EndOf
<1>2. CASE cars' = cars
  BY <1>1, <1>2
<1>3. ASSUME NEW r \in Requests, FinalizeCar(r)
      PROVE  Promise!Next
  <2> DEFINE q == req[r]
             tx == BuiltCar(q)
             N == Len(cars)
  <2>1. /\ q \in Req /\ ReqKnown(q) /\ q.pc = "finalizeCar"
        /\ Len(cars') = N + 1 /\ cars'[N + 1] = tx /\ \A i \in 1..N : cars'[i] = cars[i]
        /\ tx.prev = q.carRef /\ tx.prev \in 0..N /\ Unspent(cars, q.carRef)
    BY <1>3, CarAppended DEF FinalizeCar
  <2>2. Chained(cars, N) /\ Chained(cars', N + 1)
    BY <2>1
  <2>3. CASE q.carRef = 0
    <3>1. VersionOf(tx) \in Promise!Version /\ VersionOf(tx).state = "VALID"
          /\ VersionOf(tx).accident = "NO"
      BY <2>1, <2>3, CreatedVersion
    <3> HIDE DEF tx, N
    <3>2. /\ N + 1 \notin Roots(cars) /\ Roots(cars') = Roots(cars) \cup {N + 1}
          /\ RegistryOf(cars')[N + 1] = VersionOf(tx)
          /\ \A id \in Roots(cars) : RegistryOf(cars')[id] = RegistryOf(cars)[id]
      <4>1. cars'[N + 1].prev = 0 /\ cars'[N + 1] = tx /\ \A i \in 1..N : cars'[i] = cars[i]
        BY <2>1, <2>3
      <4> QED  BY <2>2, <4>1, RegistryIssued
    <3>3. /\ DOMAIN RegistryOf(cars) = Roots(cars)
          /\ DOMAIN RegistryOf(cars') = Roots(cars) \cup {N + 1}
          /\ RegistryOf(cars') = [id \in Roots(cars) \cup {N + 1} |->
                                    IF id = N + 1 THEN VersionOf(tx) ELSE RegistryOf(cars)[id]]
      BY <3>2 DEF RegistryOf
    <3>4. Promise!Issue
      BY <1>1, <3>1, <3>2, <3>3 DEF Promise!Issue
    <3> QED  BY <3>4 DEF Promise!Next
  <2>4. CASE q.carRef # 0
    <3> DEFINE own == cars[q.carRef].id
               u == VersionOf(cars[q.carRef])
               v == VersionOf(tx)
    <3>1. /\ own \in DOMAIN Registry /\ Registry[own] = u
          /\ Registry' = [Registry EXCEPT ![own] = v]
      <4>1. q.carRef \in 1..N
        BY <2>1, <2>4
      <4> HIDE DEF tx, N
      <4>2. /\ own \in Roots(cars) /\ RegistryOf(cars)[own] = u
            /\ RegistryOf(cars') = [RegistryOf(cars) EXCEPT ![own] = v]
        BY <2>1, <2>2, <4>1, RegistryUpdated
      <4>3. DOMAIN RegistryOf(cars) = Roots(cars)
        BY DEF RegistryOf
      <4> QED  BY <1>1, <4>2, <4>3
    <3>2. \/ \E i \in Insurers, t \in Terms, d \in Terms :
               v = [u EXCEPT !.insurer = i, !.terms = t, !.details = d]
          \/ \E s \in {"VALID", "FRAUD"}, a \in {"NO", "ONE", "MORE_THAN_ONE"}, d \in Terms :
               /\ IF u.insurer = InsureMe THEN s = "VALID"
                  ELSE u.state = "FRAUD" => s = "FRAUD"
               /\ a \in {u.accident, Promise!Worse(u.accident)}
               /\ v = [u EXCEPT !.state = s, !.accident = a, !.details = d]
      BY <2>1, <2>4, UpdatedVersion
    <3> HIDE DEF own, u, v, tx, N, q
    <3>3. CASE \E i \in Insurers, t \in Terms, d \in Terms :
                 v = [u EXCEPT !.insurer = i, !.terms = t, !.details = d]
      <4>1. PICK i \in Insurers, t \in Terms, d \in Terms :
              v = [u EXCEPT !.insurer = i, !.terms = t, !.details = d]
        BY <3>3
      <4>2. Registry' = [Registry EXCEPT ![own] =
                           [Registry[own] EXCEPT !.insurer = i, !.terms = t, !.details = d]]
        BY <3>1, <4>1, Zenon
      <4>3. /\ own \in DOMAIN Registry
            /\ i \in Insurers /\ t \in Terms /\ d \in Terms
        BY <3>1
      <4>4. Promise!Repolicy
        BY <4>2, <4>3, Zenon DEF Promise!Repolicy
      <4> QED  BY <4>4 DEF Promise!Next
    <3>4. CASE \E s \in {"VALID", "FRAUD"}, a \in {"NO", "ONE", "MORE_THAN_ONE"}, d \in Terms :
                 /\ IF u.insurer = InsureMe THEN s = "VALID"
                    ELSE u.state = "FRAUD" => s = "FRAUD"
                 /\ a \in {u.accident, Promise!Worse(u.accident)}
                 /\ v = [u EXCEPT !.state = s, !.accident = a, !.details = d]
      <4>1. PICK s \in {"VALID", "FRAUD"}, a \in {"NO", "ONE", "MORE_THAN_ONE"}, d \in Terms :
              /\ IF u.insurer = InsureMe THEN s = "VALID"
                 ELSE u.state = "FRAUD" => s = "FRAUD"
              /\ a \in {u.accident, Promise!Worse(u.accident)}
              /\ v = [u EXCEPT !.state = s, !.accident = a, !.details = d]
        BY <3>4
      <4>2. Registry' = [Registry EXCEPT ![own] =
                           [Registry[own] EXCEPT !.state = s, !.accident = a, !.details = d]]
        BY <3>1, <4>1, Zenon
      <4>3. /\ own \in DOMAIN Registry
            /\ s \in {"VALID", "FRAUD"} /\ a \in {"NO", "ONE", "MORE_THAN_ONE"} /\ d \in Terms
            /\ IF Registry[own].insurer = InsureMe THEN s = "VALID"
               ELSE Registry[own].state = "FRAUD" => s = "FRAUD"
            /\ a \in {Registry[own].accident, Promise!Worse(Registry[own].accident)}
        BY <3>1, <4>1
      <4>4. Promise!Reassess
        BY <4>2, <4>3, Zenon DEF Promise!Reassess
      <4> QED  BY <4>4 DEF Promise!Next
    <3> QED  BY <3>2, <3>3, <3>4
  <2> QED  BY <2>3, <2>4
<1> QED  BY <1>2, <1>3, OnlyFinalizeCar

\* The flows, however they interleave and whatever the nodes and the network do, keep the
\* promise of InsuredCars: each FinalizeCar issues a car, replaces a policy or assesses a car
\* on its one current version, and everything else leaves the versions alone.
THEOREM PromiseKept == Spec => KeepsPromise
<1>1. Init => Promise!Init
  <2> SUFFICES ASSUME Init PROVE Promise!Init
    OBVIOUS
  <2>1. Issued = {}
    BY DEF Init, Issued
  <2> QED  BY <2>1 DEF Promise!Init, Registry
<1> DEFINE CarChains == Chained(cars, Len(cars))
<1>2. LedgerInv /\ ChainOrder => CarChains
  BY CarsChained
<1>3. LedgerInv /\ CarChains /\ CarChains' /\ [Next]_vars
        => [Promise!Next]_Registry
  <2>1. CarChains' => Chained(cars', Len(cars'))
    BY DEF Chained
  <2> QED  BY <2>1, PromiseStep
<1> HIDE DEF CarChains
<1> QED
  BY <1>1, <1>2, <1>3, LedgerInvariant, ChainsOrdered, PTL DEF Spec, KeepsPromise, Promise!Spec

=============================================================================
