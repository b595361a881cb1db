------------------------------ MODULE CarLedger ------------------------------
(***************************************************************************)
(* The Corda side of Trustmile.  Every car and every insurer runs a Corda  *)
(* node and, beside it, a web server whose Controller turns HTTP posts     *)
(* into flows:                                                             *)
(*                                                                         *)
(*   POST /car-event   CarEventFlow.Create or .Update, then CarFlow.Update *)
(*   POST /car-policy  CarFlow.Create or CarFlow.Update                    *)
(*                                                                         *)
(* A request is cut at every call it makes: what it read from the vault    *)
(* stays in its record and is used later, when other requests may have     *)
(* moved the ledger.  A transaction of either contract has at most one     *)
(* input and exactly one output, so the ledger is one sequence of          *)
(* CarEventStates and one of CarStates, in the order the notary accepted   *)
(* them; the position in the sequence is the reference of the state.       *)
(***************************************************************************)
EXTENDS Naturals, Sequences

CONSTANTS
    Cars,           \* nodes that are cars: the devices post their events here
    Insurers,       \* nodes that are insurers
    InsureMe,       \* the insurer CarFlow.Update names, a member of Insurers
    Vins,           \* vehicle identification numbers
    Terms,          \* contents of a policy (number, rate, yearly mileage, details)
    EventPosts,     \* bodies of the posts to /car-event
    PolicyPosts,    \* bodies of the posts to /car-policy with a known insurer
    PolicyNodes,    \* nodes to whose web server policies are posted
    Requests,       \* the threads of the web servers, one request each at a time
    SnapshotReads,  \* TRUE: one flow step reads the vault as of one moment
    Unreliable,     \* TRUE: flows may fail and RPC connections may be lost
    MaxEvents,      \* no new event is posted beyond this many CarEventStates
    MaxCarTxs       \* no new request is posted beyond this many CarStates

ASSUME ConstantsAssumption ==
    /\ InsureMe \in Insurers
    /\ Cars \cap Insurers = {}
    /\ PolicyNodes \subseteq Cars \cup Insurers
    /\ Vins # {}
    /\ Terms # {}
    /\ EventPosts \subseteq [vin: Vins, mileage: Nat, accident: BOOLEAN]
    /\ PolicyPosts \subseteq [vin: Vins, insurer: Insurers, terms: Terms]
    /\ SnapshotReads \in BOOLEAN
    /\ Unreliable \in BOOLEAN
    /\ MaxEvents \in Nat
    /\ MaxCarTxs \in Nat

VARIABLES
    events,         \* every CarEventState ever notarised
    cars,           \* every CarState ever notarised
    vault,          \* vault[n]: the car transactions node n recorded, in that order
    req,            \* req[r]: what thread r is doing
    ackedEvents,    \* history: the posts to /car-event answered CREATED
    ackedPolicies   \* history: the posts to /car-policy answered OK or CREATED

vars == <<events, cars, vault, req, ackedEvents, ackedPolicies>>

Nodes == Cars \cup Insurers

-----------------------------------------------------------------------------
(* States, and what CarState.update and CarEventState.update keep.          *)

\* A position is a reference, 0 is "no state".  A linear id is the position
\* of the state that created the chain.
EventTx == [id: Nat, prev: Nat, car: Cars, vin: Vins, mileage: Nat,
            accident: BOOLEAN]

CarTx == [id: Nat, prev: Nat, car: Cars, vin: Vins, insurer: Insurers,
          terms: Terms, details: Terms, state: {"VALID", "FRAUD"},
          accident: {"NO", "ONE", "MORE_THAN_ONE"},
          command: {"Create", "Update", "NoUpdate"}]

Pcs == {"idle", "readEvent", "finalizeEvent", "lookup", "readCar",
        "readConsumed", "finalizeCar"}

\* Wrong variants stand beside the definitions they distort; the runs must tell
\* each of them from the code.
WrongSameCarForgetsState(c, d) ==
    \A f \in {"id", "terms", "car", "insurer", "vin", "accident", "details"} : c[f] = d[f]

\* CarState.equals: every field of the state, none of the transaction.
SameCar(c, d) ==
    \A f \in {"id", "state", "terms", "car", "insurer", "vin", "accident", "details"} :
        c[f] = d[f]

WrongParticipantsNoCar(c) == {c.insurer}
WrongParticipantsNoInsurer(c) == {c.car}

\* CarState.getParticipants
Participants(c) == {c.car, c.insurer}

-----------------------------------------------------------------------------
(* The vault queries.                                                       *)

\* A CarEventState has one participant, its car: only that node holds it.
EventsOf(n) == {i \in DOMAIN events : events[i].car = n}

\* The event the first k events have consumed, or not.
ConsumedBy(i, k) == \E j \in 1..k : events[j].prev = i

Latest(S) == CHOOSE i \in S : \A j \in S : j <= i

\* FlowHelper.getLastState(CarEventState.class)
UnconsumedEvents(n) == {i \in EventsOf(n) : ~ConsumedBy(i, Len(events))}
LastEvent(n) == IF UnconsumedEvents(n) = {} THEN 0 ELSE Latest(UnconsumedEvents(n))

WrongConsumedEventsOfAnyId(i, k) == {j \in 1..k : ConsumedBy(j, k)}
WrongConsumedEventsOrNot(i, k) == {j \in 1..k : events[j].id = events[i].id}

\* getLastStateByCriteria(CarEventState.class, CONSUMED and the id of event i),
\* when the vault holds the first k events.
ConsumedEvents(i, k) == {j \in 1..k : events[j].id = events[i].id /\ ConsumedBy(j, k)}
LastConsumed(i, k) == IF ConsumedEvents(i, k) = {} THEN 0 ELSE Latest(ConsumedEvents(i, k))

\* The transactions a node has recorded.
Recorded(n) == {vault[n][p] : p \in DOMAIN vault[n]}

WrongUnconsumedAtAnyVersion(n, p) == n \in Participants(cars[vault[n][p]])

\* A node holds the outputs it participates in, and marks one consumed when it
\* records a transaction that spends it.
UnconsumedAt(n, p) ==
    /\ n \in Participants(cars[vault[n][p]])
    /\ \A i \in Recorded(n) : cars[i].prev # vault[n][p]
UnconsumedPositions(n) == {p \in DOMAIN vault[n] : UnconsumedAt(n, p)}
UnconsumedCars(n) == {vault[n][p] : p \in UnconsumedPositions(n)}

\* FlowHelper.getLastState(CarState.class)
LastCar(n) == IF UnconsumedPositions(n) = {} THEN 0
              ELSE vault[n][Latest(UnconsumedPositions(n))]

-----------------------------------------------------------------------------
(* What the flows build.                                                    *)

WrongNewStateSwapped(previous, e, l) ==
    IF previous = "FRAUD" \/ (l # 0 /\ events[l].mileage < events[e].mileage)
    THEN "FRAUD" ELSE "VALID"

\* CarFlow.Update.getNewState: e is the last event, l the last consumed one.
NewState(previous, e, l) ==
    IF previous = "FRAUD" \/ (l # 0 /\ events[l].mileage >= events[e].mileage)
    THEN "FRAUD" ELSE "VALID"

WrongNewAccidentStateForgets(current, isAccident) ==
    IF isAccident THEN "ONE" ELSE current

\* CarFlow.Update.getNewAccidentState
NewAccidentState(current, isAccident) ==
    IF ~isAccident THEN current
    ELSE IF current = "NO" THEN "ONE" ELSE "MORE_THAN_ONE"

WrongReassessedWithPolicy(q) ==
    LET c == cars[q.carRef] IN
    [c EXCEPT !.prev = q.carRef, !.insurer = q.insurer, !.terms = q.terms,
              !.state = IF c.insurer = InsureMe THEN "VALID"
                        ELSE NewState(c.state, q.event, q.last),
              !.accident = NewAccidentState(c.accident, events[q.event].accident),
              !.details = q.details]

\* CarFlow.Update.call: with an event on the ledger the posted policy fields
\* are ignored, all but the details; without one they replace the old ones.
Reassessed(q) ==
    LET c == cars[q.carRef] IN
    [c EXCEPT !.prev = q.carRef,
              !.state = IF c.insurer = InsureMe THEN "VALID"
                        ELSE NewState(c.state, q.event, q.last),
              !.accident = NewAccidentState(c.accident, events[q.event].accident),
              !.details = q.details]

WrongRepolicedKeepsTerms(q) ==
    [cars[q.carRef] EXCEPT !.prev = q.carRef, !.insurer = q.insurer, !.details = q.details]

Repoliced(q) ==
    [cars[q.carRef] EXCEPT !.prev = q.carRef, !.insurer = q.insurer,
                           !.terms = q.terms, !.details = q.details]

UpdatedCar(q) ==
    LET new == IF q.event # 0 THEN Reassessed(q) ELSE Repoliced(q)
    IN  [new EXCEPT !.command = IF SameCar(cars[q.carRef], new)
                                THEN "NoUpdate" ELSE "Update"]

\* CarFlow.Create.call
CreatedCar(q) ==
    [id |-> Len(cars) + 1, prev |-> 0, car |-> q.node, vin |-> q.vin,
     insurer |-> q.insurer, terms |-> q.terms, details |-> q.details,
     state |-> "VALID", accident |-> "NO", command |-> "Create"]

BuiltCar(q) == IF q.carRef = 0 THEN CreatedCar(q) ELSE UpdatedCar(q)

WrongBuiltEventNewId(q) ==
    [id |-> Len(events) + 1, prev |-> q.event, car |-> q.node, vin |-> q.vin,
     mileage |-> q.mileage, accident |-> q.accident]

\* CarEventFlow.Create.call and .Update.call: an update keeps the id, the car
\* and the vin of its input, whatever vin was posted.
BuiltEvent(q) ==
    IF q.event = 0
    THEN [id |-> Len(events) + 1, prev |-> 0, car |-> q.node, vin |-> q.vin,
          mileage |-> q.mileage, accident |-> q.accident]
    ELSE [events[q.event] EXCEPT !.prev = q.event, !.mileage = q.mileage,
                                 !.accident = q.accident]

\* CarContract.verify on the transaction that outputs c.  The signatures of
\* all participants are collected by the flow; a responder refuses none.
Verified(c) ==
    CASE c.command = "Create"   -> c.prev = 0
      [] c.command = "Update"   -> c.prev # 0
      [] c.command = "NoUpdate" -> c.prev # 0 /\ SameCar(cars[c.prev], c)

\* The notary accepts a transaction whose input nobody has spent.
Unspent(ledger, ref) == \A i \in DOMAIN ledger : ref # 0 => ledger[i].prev # ref

-----------------------------------------------------------------------------
(* The Controller.                                                          *)

\* A request: the post it serves, and what it has read so far.
Req == [pc: Pcs, op: {"event", "policy"}, live: BOOLEAN, node: Nodes, vin: Vins,
        mileage: Nat, accident: BOOLEAN, insurer: Insurers, terms: Terms,
        details: Terms, event: Nat, own: Nat, snap: Nat, last: Nat, carRef: Nat]

IdleReq == [pc |-> "idle", op |-> "event", live |-> TRUE, node |-> InsureMe,
            vin |-> CHOOSE v \in Vins : TRUE, mileage |-> 0, accident |-> FALSE,
            insurer |-> InsureMe, terms |-> CHOOSE t \in Terms : TRUE,
            details |-> CHOOSE t \in Terms : TRUE,
            event |-> 0, own |-> 0, snap |-> 0, last |-> 0, carRef |-> 0]

Idle(r) == req[r].pc = "idle"

\* The request is answered and its thread is free again.
Answer(r) == req' = [req EXCEPT ![r] = IdleReq]

\* sendCarEvent, as far as hasAtLeastOneEvent: an update if the vault holds
\* any CarEventState, of whatever vin, and a creation otherwise.
SendCarEvent(r) ==
    /\ Idle(r)
    /\ Len(events) < MaxEvents /\ Len(cars) < MaxCarTxs
    /\ \E n \in Cars, post \in EventPosts :
         req' = [req EXCEPT ![r] =
                   [IdleReq EXCEPT !.pc = IF EventsOf(n) # {} THEN "readEvent"
                                          ELSE "finalizeEvent",
                                   !.node = n, !.vin = post.vin,
                                   !.mileage = post.mileage,
                                   !.accident = post.accident]]
    /\ UNCHANGED <<events, cars, vault, ackedEvents, ackedPolicies>>

\* CarEventFlow.Update.call reads its input.
ReadEvent(r) ==
    /\ req[r].pc = "readEvent"
    /\ req' = [req EXCEPT ![r].pc = "finalizeEvent",
                          ![r].event = LastEvent(req[r].node)]
    /\ UNCHANGED <<events, cars, vault, ackedEvents, ackedPolicies>>

\* signSyncCollectAndFinalize of an event: notarised, and recorded by the only
\* participant.  A request whose RPC connection was lost ends here.
FinalizeEvent(r) ==
    LET q == req[r] IN
    /\ q.pc = "finalizeEvent"
    /\ Unspent(events, q.event)
    /\ events' = Append(events, BuiltEvent(q))
    /\ IF q.live
       THEN req' = [req EXCEPT ![r] =
                      [IdleReq EXCEPT !.pc = "lookup", !.node = q.node, !.vin = q.vin,
                                      !.own = Len(events) + 1]]
       ELSE Answer(r)
    /\ UNCHANGED <<cars, vault, ackedEvents, ackedPolicies>>

\* getCarStateFromExternalId: the query is not sorted, any match may come first.
\* Without a match the Controller meets a null: BAD_REQUEST.
LookupCar(r) ==
    LET q == req[r]
        found == {i \in UnconsumedCars(q.node) : cars[i].vin = q.vin}
    IN
    /\ q.pc = "lookup"
    /\ \/ /\ found = {}
          /\ Answer(r)
       \/ \E i \in found :
            req' = [req EXCEPT ![r].pc = "readCar", ![r].insurer = cars[i].insurer,
                               ![r].terms = cars[i].terms,
                               ![r].details = cars[i].details]
    /\ UNCHANGED <<events, cars, vault, ackedEvents, ackedPolicies>>

\* sendCarPolicy, as far as getUnconsumedCar.  An unknown insurer is refused
\* before anything is read and changes nothing; insurers post only about cars
\* their vault already shows.
SendCarPolicy(r) ==
    /\ Idle(r)
    /\ Len(cars) < MaxCarTxs
    /\ \E n \in PolicyNodes, post \in PolicyPosts :
         /\ n \in Insurers => UnconsumedCars(n) # {}
         /\ req' = [req EXCEPT ![r] =
                      [IdleReq EXCEPT !.pc = IF UnconsumedCars(n) # {} THEN "readCar"
                                             ELSE "finalizeCar",
                                      !.op = "policy", !.node = n, !.vin = post.vin,
                                      !.insurer = post.insurer,
                                      !.terms = post.terms, !.details = post.terms]]
    /\ UNCHANGED <<events, cars, vault, ackedEvents, ackedPolicies>>

\* CarFlow.Update.call reads the last car ("CarState not found" otherwise) and
\* the last event.
ReadCar(r) ==
    LET n == req[r].node IN
    /\ req[r].pc = "readCar"
    /\ IF LastCar(n) = 0
       THEN Answer(r)
       ELSE req' = [req EXCEPT ![r].pc = IF LastEvent(n) = 0 THEN "finalizeCar"
                                         ELSE "readConsumed",
                               ![r].carRef = LastCar(n), ![r].event = LastEvent(n),
                               ![r].snap = Len(events)]
    /\ UNCHANGED <<events, cars, vault, ackedEvents, ackedPolicies>>

\* CarFlow.Update.call, the second query: the last consumed event.
ReadConsumed(r) ==
    LET q == req[r]
        view == IF SnapshotReads THEN q.snap ELSE Len(events)
    IN
    /\ q.pc = "readConsumed"
    /\ req' = [req EXCEPT ![r].pc = "finalizeCar",
                          ![r].last = LastConsumed(q.event, view)]
    /\ UNCHANGED <<events, cars, vault, ackedEvents, ackedPolicies>>

\* signSyncCollectAndFinalize of a car, then the answer CREATED or OK.
FinalizeCar(r) ==
    LET q == req[r]
        ref == Len(cars) + 1
    IN
    /\ q.pc = "finalizeCar"
    /\ Unspent(cars, q.carRef)
    /\ Verified(BuiltCar(q))
    /\ cars' = Append(cars, BuiltCar(q))
    /\ vault' = [vault EXCEPT ![q.node] = Append(@, ref)]
    /\ Answer(r)
    /\ ackedEvents' = IF q.live /\ q.op = "event"
                      THEN ackedEvents \cup {[event |-> q.own, car |-> ref]}
                      ELSE ackedEvents
    /\ ackedPolicies' = IF q.live /\ q.op = "policy"
                        THEN ackedPolicies \cup {[terms |-> q.terms, car |-> ref]}
                        ELSE ackedPolicies
    /\ UNCHANGED events

WrongNotaryRefusesCarsOnly(r) ==
    /\ req[r].pc = "finalizeCar" /\ ~Unspent(cars, req[r].carRef)
    /\ Answer(r)
    /\ UNCHANGED <<events, cars, vault, ackedEvents, ackedPolicies>>

\* The notary refuses an input already spent: the flow throws, BAD_REQUEST.
NotaryRefuses(r) ==
    LET q == req[r] IN
    /\ \/ q.pc = "finalizeEvent" /\ ~Unspent(events, q.event)
       \/ q.pc = "finalizeCar" /\ ~Unspent(cars, q.carRef)
    /\ Answer(r)
    /\ UNCHANGED <<events, cars, vault, ackedEvents, ackedPolicies>>

-----------------------------------------------------------------------------
(* The environment: counterparties, the network, the RPC connection.        *)

\* Signing, notarising or the transfer fails and the flow throws.
FlowFails(r) ==
    /\ Unreliable
    /\ req[r].pc \in {"finalizeEvent", "finalizeCar"}
    /\ Answer(r)
    /\ UNCHANGED <<events, cars, vault, ackedEvents, ackedPolicies>>

\* The web server loses its RPC connection: the client is told BAD_REQUEST, the
\* flow goes on inside the node.  Between flows nothing goes on.
LoseRpc(r) ==
    /\ Unreliable
    /\ ~Idle(r) /\ req[r].live
    /\ IF req[r].pc = "lookup" THEN Answer(r)
       ELSE req' = [req EXCEPT ![r].live = FALSE]
    /\ UNCHANGED <<events, cars, vault, ackedEvents, ackedPolicies>>

\* The other participant of a car transaction records it later; it records
\* those of one chain in their order.
Awaits(n, i) == n \in Participants(cars[i]) /\ i \notin Recorded(n)

Deliver(n, i) ==
    /\ Awaits(n, i)
    /\ \A j \in 1..(i - 1) : cars[j].id = cars[i].id => ~Awaits(n, j)
    /\ vault' = [vault EXCEPT ![n] = Append(@, i)]
    /\ UNCHANGED <<events, cars, req, ackedEvents, ackedPolicies>>

\* Nothing to do: no request in progress, nothing to deliver.
Quiescent ==
    /\ \A r \in Requests : Idle(r)
    /\ \A n \in Nodes, i \in DOMAIN cars : ~Awaits(n, i)
    /\ UNCHANGED vars

-----------------------------------------------------------------------------

Init ==
    /\ events = <<>>
    /\ cars = <<>>
    /\ vault = [n \in Nodes |-> <<>>]
    /\ req = [r \in Requests |-> IdleReq]
    /\ ackedEvents = {}
    /\ ackedPolicies = {}

\* What the servers and the flows do once a request has been posted.
Serve(r) ==
    \/ ReadEvent(r)
    \/ FinalizeEvent(r)
    \/ LookupCar(r)
    \/ ReadCar(r)
    \/ ReadConsumed(r)
    \/ FinalizeCar(r)
    \/ NotaryRefuses(r)

Next ==
    \/ \E r \in Requests : SendCarEvent(r) \/ SendCarPolicy(r) \/ Serve(r)
                           \/ FlowFails(r) \/ LoseRpc(r)
    \/ \E n \in Nodes : \E i \in DOMAIN cars : Deliver(n, i)
    \/ Quiescent

Spec == Init /\ [][Next]_vars

\* Corda checkpoints its flows and resumes them, the notary answers every
\* request, and messages between nodes are delivered: nothing stops half way.
FairSpec ==
    /\ Spec
    /\ \A r \in Requests : WF_vars(Serve(r))
    /\ \A n \in Nodes : WF_vars(\E i \in DOMAIN cars : Deliver(n, i))

-----------------------------------------------------------------------------
(* Properties.                                                              *)

TypeOK ==
    /\ events \in Seq(EventTx)
    /\ cars \in Seq(CarTx)
    /\ vault \in [Nodes -> Seq(Nat)]
    /\ req \in [Requests -> Req]
    /\ ackedEvents \subseteq [event: Nat, car: Nat]
    /\ ackedPolicies \subseteq [terms: Terms, car: Nat]

\* A ledger of linear states: a transaction either starts a chain, whose id is
\* its own reference, or spends an earlier state of the same id, car and vin
\* that no other transaction spends.  (CarState.update and CarEventState.update
\* keep the identity; two flows may have read the same input.)
Linear(ledger) ==
    \A i \in DOMAIN ledger :
        IF ledger[i].prev = 0 THEN ledger[i].id = i
        ELSE /\ ledger[i].prev < i
             /\ \A f \in {"id", "car", "vin"} : ledger[i][f] = ledger[ledger[i].prev][f]
             /\ \A j \in DOMAIN ledger : ledger[j].prev = ledger[i].prev => j = i

LinearHistory == Linear(events) /\ Linear(cars)

\* The current version of a CarState is the one nobody has spent.
Issued == {i \in DOMAIN cars : cars[i].prev = 0}
Current(id) == CHOOSE i \in DOMAIN cars : cars[i].id = id /\ Unspent(cars, i)
VersionOf(c) ==
    [car |-> c.car, vin |-> c.vin, insurer |-> c.insurer, terms |-> c.terms,
     details |-> c.details, state |-> c.state, accident |-> c.accident]

Registry == [id \in Issued |-> VersionOf(cars[Current(id)])]

Promise == INSTANCE InsuredCars WITH registry <- Registry

\* The requests and flows, however they interleave, implement InsuredCars: one
\* current version per car, and no flow mixes a new policy with new findings,
\* drops a fraud or an accident, or works on a version that is not the current one.
KeepsPromise == Promise!Spec

\* Event e took back the mileage of its predecessor, or at least did not raise it.
NotRaised(e) == events[e].prev # 0 /\ events[events[e].prev].mileage >= events[e].mileage
TurnedBack(e) == events[e].prev # 0 /\ events[events[e].prev].mileage > events[e].mileage

\* A car is in FRAUD only if two successive events of that very car show a
\* mileage that was not raised: CarFlow.Update compares the last event with its
\* own predecessor, whatever other requests do between its queries.
FraudJustified ==
    \A i \in DOMAIN cars : cars[i].state = "FRAUD" =>
        \E e \in DOMAIN events : events[e].car = cars[i].car /\ NotRaised(e)

\* A post to /car-event that was answered CREATED and whose mileage had been
\* turned back left the car in FRAUD (unless it is insured by InsureMe).
AckedTurnBackFlagged ==
    \A a \in ackedEvents : TurnedBack(a.event) =>
        cars[a.car].state = "FRAUD" \/ cars[a.car].insurer = InsureMe

\* A post that reported an accident and was answered CREATED is counted.
AckedAccidentCounted ==
    \A a \in ackedEvents : events[a.event].accident =>
        /\ cars[a.car].accident # "NO"
        /\ cars[cars[a.car].prev].accident = "ONE" => cars[a.car].accident = "MORE_THAN_ONE"

\* A post to /car-event that was answered CREATED touched the car of the posting
\* node and left its policy as it was: the details the Controller read are those
\* CarFlow.Update replaces.
AckedEventKeepsPolicy ==
    \A a \in ackedEvents :
        LET c == cars[a.car] IN
        /\ c.car = events[a.event].car
        /\ \A f \in {"insurer", "terms", "details"} : c[f] = cars[c.prev][f]

\* hasAtLeastOneEvent and getUnconsumedCar keep a node at one chain of events and
\* one car, if posts do not overlap.
OneChainPerNode ==
    \A ledger \in {events, cars} : \A i, j \in DOMAIN ledger :
        ledger[i].car = ledger[j].car => ledger[i].id = ledger[j].id

Acked(e) == \E a \in ackedEvents : a.event = e

\* README.md:21, the ledger detects a fraud: when a node has one chain of events and one
\* car, and a turned-back mileage and all that follow it were answered CREATED, the car
\* has been in FRAUD (unless it was insured by InsureMe).  Not so if posts overlap:
\* CarFlow.Update looks at the last two events, whoever recorded them.
TurnBackDetected ==
    OneChainPerNode =>
        \A e \in DOMAIN events :
            TurnedBack(e) /\ (\A later \in e..Len(events) : Acked(later)) =>
                \E i \in DOMAIN cars : /\ cars[i].car = events[e].car
                                       /\ cars[i].state = "FRAUD" \/ cars[i].insurer = InsureMe

\* A car's own vault never shows two unconsumed versions of one CarState: it
\* takes part in every transaction of the chain, whoever started it.
CarSeesOneVersion ==
    \A n \in Cars : \A i, j \in UnconsumedCars(n) : cars[i].id = cars[j].id => i = j

\* What CarContract demands of NoUpdate and what CarFlow.Update takes for no
\* update agree: such a transaction changes nothing a reader can see.
NoUpdateChangesNothing ==
    \A i \in DOMAIN cars : cars[i].command = "NoUpdate" =>
        [cars[i] EXCEPT !.prev = 0, !.command = "Update"]
            = [cars[cars[i].prev] EXCEPT !.prev = 0, !.command = "Update"]

\* CarFlowTests.update_after_create_car: the rate a policy update carries is the rate of
\* the updated car.  It is, until the car has an event: from then on a posted policy is
\* answered OK and CarFlow.Update ignores all of it but the details.
AckedPolicyApplied ==
    \A p \in ackedPolicies :
        cars[p.car].terms = p.terms \/ EventsOf(cars[p.car].car) # {}

\* Every post is answered.
EveryPostAnswered == \A r \in Requests : ~Idle(r) ~> Idle(r)

\* A fraud on the ledger reaches the vault of the insurer of that state.
UnknownFraud(n) ==
    \E i \in DOMAIN cars :
        cars[i].state = "FRAUD" /\ cars[i].insurer = n /\ i \notin Recorded(n)
InsurerLearnsFraud == \A n \in Insurers : UnknownFraud(n) ~> ~UnknownFraud(n)

-----------------------------------------------------------------------------
(* The inductive invariant behind LinearHistory and FraudJustified.         *)

\* In every prefix of the events a chain has one unconsumed end: what a query
\* saw at any moment was one event per chain.
OneTip ==
    \A k \in 0..Len(events) : \A i, j \in 1..k :
        /\ events[i].id = events[j].id
        /\ ~ConsumedBy(i, k) /\ ~ConsumedBy(j, k)
        => i = j

IdsKnown == \A i \in DOMAIN events : events[i].id <= i

VaultKnown == \A n \in Nodes : \A p \in DOMAIN vault[n] : vault[n][p] \in DOMAIN cars

\* What a request has read is on the ledger; the event it compares belongs to
\* the car it updates, and the consumed one is the predecessor of that event.
ReqKnown(q) ==
    /\ q.event \in 0..Len(events) /\ q.last \in 0..Len(events)
    /\ q.own \in 0..Len(events) /\ q.snap \in 0..Len(events)
    /\ q.carRef \in 0..Len(cars)
    /\ q.pc \in {"readEvent", "finalizeEvent"} => q.node \in Cars
    /\ q.pc = "finalizeCar" /\ q.carRef = 0 => q.node \in Cars
    /\ q.pc \in {"lookup", "readCar"} => q.last = 0
    /\ q.pc = "readConsumed" => /\ q.last = 0 /\ q.event # 0
                                /\ q.event <= q.snap /\ ~ConsumedBy(q.event, q.snap)
    /\ q.pc \in {"readConsumed", "finalizeCar"} /\ q.event # 0 =>
         q.carRef # 0 /\ events[q.event].car = cars[q.carRef].car
    /\ q.pc = "finalizeCar" /\ q.last # 0 =>
         q.event # 0 /\ (SnapshotReads => events[q.event].prev = q.last)

ReqsKnown == \A r \in Requests : ReqKnown(req[r])

LedgerInv == TypeOK /\ VaultKnown /\ ReqsKnown /\ LinearHistory /\ IdsKnown /\ OneTip

-----------------------------------------------------------------------------
(* The inductive invariants behind what posts are promised when they are    *)
(* answered.                                                                *)

\* Every version of an answered post is on the ledger.
AckedKnown ==
    /\ \A a \in ackedEvents : /\ a.event \in DOMAIN events /\ a.car \in DOMAIN cars
                               /\ cars[a.car].prev # 0
    /\ \A p \in ackedPolicies : p.car \in DOMAIN cars

\* No node serves two posts at the same time; different nodes may.
OnePostPerNode ==
    \A r, s \in Requests : ~Idle(r) /\ ~Idle(s) /\ req[r].node = req[s].node => r = s

\* A car has recorded a version of its own, if there is any.
HomeRecorded ==
    \A i \in DOMAIN cars : \E j \in Recorded(cars[i].car) : cars[j].car = cars[i].car

IsNewestEvent(e, n) == e \in EventsOf(n) /\ \A i \in EventsOf(n) : i <= e

\* Then what a post has read of its node is still so when it is used: it creates an
\* event or a car only if there is none, and assesses the event it has made itself
\* against the one before.
PostKnown(q) ==
    /\ q.pc = "finalizeEvent" =>
         IF q.event = 0 THEN EventsOf(q.node) = {} ELSE events[q.event].car = q.node
    /\ q.pc = "finalizeCar" /\ q.carRef = 0 =>
         q.op = "policy" /\ \A i \in DOMAIN cars : cars[i].car # q.node
    /\ q.pc \in {"lookup", "readCar", "readConsumed", "finalizeCar"} /\ q.op = "event" =>
         IsNewestEvent(q.own, q.node)
    /\ q.pc \in {"readConsumed", "finalizeCar"} /\ q.op = "event" => q.event = q.own
    /\ q.pc = "finalizeCar" /\ q.op = "event" => q.last = events[q.own].prev

PostInv ==
    /\ AckedKnown /\ HomeRecorded /\ \A r \in Requests : PostKnown(req[r])
    /\ OneChainPerNode /\ AckedAccidentCounted /\ AckedTurnBackFlagged

\* If only cars post, a car has recorded every version of its own, updates no other
\* car, and a post about an event has looked up the details of the version it updates.
HomeComplete == \A i \in DOMAIN cars : i \in Recorded(cars[i].car)

DetailsKnown(q) ==
    /\ q.pc # "idle" => q.node \in Cars
    /\ q.carRef # 0 => cars[q.carRef].car = q.node
    /\ q.pc = "readCar" /\ q.op = "event" =>
         \E i \in UnconsumedCars(q.node) : cars[i].details = q.details
    /\ q.pc \in {"readConsumed", "finalizeCar"} /\ q.op = "event" =>
         q.carRef # 0 /\ cars[q.carRef].details = q.details

PolicyInv ==
    HomeComplete /\ (\A r \in Requests : DetailsKnown(req[r])) /\ AckedEventKeepsPolicy

=============================================================================
