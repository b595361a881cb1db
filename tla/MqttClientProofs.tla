--------------------------- MODULE MqttClientProofs ---------------------------
(***************************************************************************)
(* The client confirms only what the hub has got, in any network, and a    *)
(* good one carries every message, for every number of messages and of     *)
(* restarts.                                                               *)
(***************************************************************************)
EXTENDS MqttClient, TLAPS

LEMMA SeqDef ==
    ASSUME NEW S, NEW n \in Nat, NEW f \in [1..n -> S]
    PROVE  f \in Seq(S)
  OBVIOUS

LEMMA SeqRange ==
    ASSUME NEW S, NEW s \in Seq(S)
    PROVE  Len(s) \in Nat /\ DOMAIN s = 1 .. Len(s) /\ \A i \in DOMAIN s : s[i] \in S
  OBVIOUS

LEMMA ElementsOfEmpty == Elements(<<>>) = {}
  BY DEF Elements

LEMMA ElementsOfOne == ASSUME NEW e PROVE Elements(<<e>>) = {e}
  BY DEF Elements

LEMMA ElementsInSet ==
    ASSUME NEW S, NEW s \in Seq(S)
    PROVE  Elements(s) \subseteq S
  BY DEF Elements

LEMMA ElementsOfAppend ==
    ASSUME NEW S, NEW s \in Seq(S), NEW e
    PROVE  Elements(Append(s, e)) = Elements(s) \cup {e}
<1>1. /\ DOMAIN Append(s, e) = 1 .. Len(s) + 1
      /\ DOMAIN s = 1 .. Len(s) /\ Len(s) \in Nat
      /\ Append(s, e)[Len(s) + 1] = e
      /\ \A i \in DOMAIN s : Append(s, e)[i] = s[i]
  OBVIOUS
<1>2. \A i \in 1 .. Len(s) + 1 : i \in 1 .. Len(s) \/ i = Len(s) + 1
  BY <1>1
<1>3. Elements(Append(s, e)) \subseteq Elements(s) \cup {e}
  BY <1>1, <1>2 DEF Elements
<1>4. Elements(s) \cup {e} \subseteq Elements(Append(s, e))
  BY <1>1 DEF Elements
<1> QED BY <1>3, <1>4

LEMMA SeqMonotone ==
    ASSUME NEW S, NEW T, S \subseteq T
    PROVE  Seq(S) \subseteq Seq(T)
  OBVIOUS

LEMMA HeadInSet ==
    ASSUME NEW S, NEW s \in Seq(S), s # <<>>
    PROVE  Head(s) \in S /\ Tail(s) \in Seq(S)
  OBVIOUS

LEMMA AppendInSet ==
    ASSUME NEW S, NEW s \in Seq(S), NEW e \in S
    PROVE  Append(s, e) \in Seq(S)
  OBVIOUS

LEMMA NumbersInSet ==
    ASSUME NEW N, NEW s \in Seq([msg: N, id: Int])
    PROVE  Numbers(s) \in Seq(N)
<1>1. Len(s) \in Nat /\ DOMAIN s = 1 .. Len(s) /\ \A i \in DOMAIN s : s[i] \in [msg: N, id: Int]
  BY SeqRange
<1>2. Numbers(s) \in [1 .. Len(s) -> N]
  BY <1>1 DEF Numbers
<1> QED BY <1>1, <1>2, SeqDef

LEMMA OverdueNumbers ==
    ASSUME TypeOK, MaxMessages \in Nat, NEW again \in OverdueLists
    PROVE  Numbers(again) \in Seq(1..taken)
<1>1. PICK n \in 0..MaxMessages : again \in [1..n -> Overdue]
  BY DEF OverdueLists
<1>2. n \in Nat BY <1>1
<1>3. \A i \in 1..n : again[i].msg \in 1..taken
  BY <1>1 DEF Overdue, TypeOK, SentEvent
<1>4. Numbers(again) \in [1..n -> 1..taken]
  BY <1>1, <1>3 DEF Numbers
<1> QED BY <1>2, <1>4, SeqDef

\* Only a success makes the current id EventConfirmed, and only if it is among them.
LEMMA OnlySuccessConfirms ==
    ASSUME NEW current \in Int, NEW ids, NEW ok \in BOOLEAN
    PROVE  /\ AfterConfirmation(current, ids, ok) \in Int
           /\ AfterConfirmation(current, ids, ok) = EventConfirmed =>
                  current = EventConfirmed \/ (ok /\ current \in ids)
  BY DEF AfterConfirmation, EventConfirmed, EventFailed

LEMMA InitClient ==
    ASSUME Init
    PROVE  ClientInv
<1>1. Pending = {}
  BY ElementsOfEmpty DEF Init, Pending
<1>2. <<>> \in Seq(Event) /\ <<>> \in Seq(1..taken)
  OBVIOUS
<1>3. TypeOK
  <2>1. trackingId \in Nat /\ currentTrackingId \in Int /\ since \in Nat /\ taken \in Nat
    BY DEF Init
  <2> QED BY <1>2, <2>1, Zenon DEF Init, TypeOK, Pcs, Links
<1> QED BY <1>1, <1>3 DEF Init, ClientInv, OneInFlight, ConfirmationTrue, ConfirmedArrived,
                        EventConfirmed

-----------------------------------------------------------------------------
Connecting == {"boot", "connecting", "connectCheck"}
Sending == {"sending", "sendCheck"}

\* A step that gives the client no message, completes none and reads no confirmation.
NoNews ==
    /\ Pending' = Pending
    /\ UNCHANGED <<event, currentTrackingId, received, confirmed>>
    /\ acks' \subseteq acks
    /\ handle' => handle
    /\ resetClient => resetClient'
    /\ pc' \in Connecting => pc \in Connecting
    /\ pc' \in Sending => pc \in Sending
    /\ pc' = "idle" => pc = "idle"

LEMMA NoNewsKeeps ==
    ASSUME ClientInv, TypeOK', NoNews
    PROVE  ClientInv'
  BY DEF ClientInv, OneInFlight, ConfirmationTrue, ConfirmedArrived, NoNews, Connecting,
         Sending, Arrived

LEMMA ListsKept ==
    ASSUME UNCHANGED lists
    PROVE  Pending' = Pending
  BY DEF lists, Pending

\* The clock of a DoWork call, and where it leaves the caller.
LEMMA WorkStage ==
    ASSUME TypeOK, Work
    PROVE  /\ since' \in Nat /\ pc' \in Pcs /\ pc' \notin {"boot", "idle"}
           /\ pc \in {"connecting", "sending"}
           /\ pc = "connecting" => pc' = "connectCheck"
           /\ pc = "sending" => pc' = "sendCheck"
           /\ UNCHANGED <<event, trackingId, handle, listened, clientHistory>>
  BY DEF TypeOK, Work, Working, Elapse, Pcs

LEMMA CallbacksKeepType ==
    ASSUME TypeOK
    PROVE  /\ \A reset \in BOOLEAN : Unauthenticated(reset) =>
                   clientConnected' \in BOOLEAN /\ resetClient' \in BOOLEAN
                   /\ (resetClient => resetClient')
           /\ Authenticated =>
                   clientConnected' \in BOOLEAN /\ resetClient' = resetClient
  BY DEF TypeOK, Unauthenticated, Authenticated

\* DoWork while there is no connection to publish on.
LinkStep == Wait \/ OpenLink \/ OpenFails \/ Refuse \/ Accept \/ Expire \/ Subscribe \/ SubscribeAck

LEMMA LinkClient ==
    ASSUME ClientInv, LinkStep
    PROVE  ClientInv'
<1>1. TypeOK BY DEF ClientInv
<1>2. Work BY DEF LinkStep, Wait, OpenLink, OpenFails, Refuse, Accept, Expire, Subscribe,
                  SubscribeAck
<1>3. UNCHANGED <<currentTrackingId, lists>>
  BY DEF LinkStep, Wait, OpenLink, OpenFails, Refuse, Accept, Expire, Subscribe,
         SubscribeAck
<1>4. /\ link' \in Links /\ aged' \in BOOLEAN /\ peer' \in BOOLEAN
      /\ wire' \in Seq(1..taken) /\ acks' \subseteq acks
  <2>1. <<>> \in Seq(1..taken) OBVIOUS
  <2> QED BY <1>1, <2>1
          DEF LinkStep, Wait, OpenLink, OpenFails, Refuse, Accept, Expire, Subscribe,
              SubscribeAck, network, TypeOK, Links, Accepted
<1>5. /\ clientConnected' \in BOOLEAN /\ resetClient' \in BOOLEAN
      /\ resetClient => resetClient'
  BY <1>1, CallbacksKeepType
     DEF LinkStep, Wait, OpenLink, OpenFails, Refuse, Accept, Expire, Subscribe,
         SubscribeAck, TypeOK
<1>6. TypeOK'
  BY <1>1, <1>2, <1>3, <1>4, <1>5, WorkStage DEF TypeOK, lists, clientHistory, Event, SentEvent
<1>7. NoNews
  BY <1>1, <1>2, <1>3, <1>4, <1>5, WorkStage, ListsKept
     DEF NoNews, clientHistory, Connecting, Sending
<1> QED BY <1>6, <1>7, NoNewsKeeps

\* Another message taken: what was typed for the messages before is so still.
LEMMA TakeKeepsType ==
    ASSUME TypeOK, Take
    PROVE  /\ NextEvent \in Event' /\ event \in Event' \cup {NoEvent}
           /\ waitingToSend \in Seq(Event') /\ waitingForAck \subseteq SentEvent'
           /\ wire \in Seq(1..taken') /\ acks \subseteq 1..taken'
           /\ received' \in Seq(1..taken') /\ taken' \in Nat /\ confirmed' \subseteq 1..taken'
           /\ stable' \in BOOLEAN /\ goodStart' \subseteq 1..taken'
           /\ received' = received /\ confirmed' = confirmed
<1>1. /\ taken \in Nat /\ taken' = taken + 1 /\ received' = received /\ confirmed' = confirmed
      /\ stable' = stable
      /\ goodStart' \subseteq goodStart \cup {taken'}
  BY DEF Take, TypeOK
<1>2. 1..taken \subseteq 1..taken' /\ taken' \in 1..taken'
  BY <1>1
<1>3. Event \subseteq Event' /\ SentEvent \subseteq SentEvent'
  BY <1>2 DEF Event, SentEvent
<1>4. NextEvent \in Event'
  BY <1>1, <1>2 DEF NextEvent, Event, TypeOK
<1>5. Seq(1..taken) \subseteq Seq(1..taken') /\ Seq(Event) \subseteq Seq(Event')
  BY <1>2, <1>3, SeqMonotone
<1>6. taken' \in Nat BY <1>1
<1> HIDE DEF NextEvent, Event, SentEvent
<1> QED BY <1>1, <1>2, <1>3, <1>4, <1>5, <1>6 DEF TypeOK

LEMMA QuietClient ==
    ASSUME ClientInv,
           KeepConnecting \/ KeepSending \/ SendRefused \/ Drop \/ Age \/ Stabilise
               \/ UNCHANGED clientVars
    PROVE  ClientInv'
<1>1. TypeOK BY DEF ClientInv
<1> USE DEF clientVars, caller, flags, sdk, lists, network, clientHistory
<1>2. CASE KeepConnecting \/ KeepSending
  <2>1. TypeOK' BY <1>1, <1>2 DEF KeepConnecting, KeepSending, TypeOK, Pcs, Event, SentEvent
  <2>2. NoNews BY <1>2, ListsKept DEF KeepConnecting, KeepSending, NoNews, Connecting, Sending
  <2> QED BY <2>1, <2>2, NoNewsKeeps
<1>3. CASE SendRefused
  <2>1. Take /\ UNCHANGED <<caller, flags, sdk, network>> BY <1>3 DEF SendRefused
  <2>2. TypeOK' BY <1>1, <2>1, TakeKeepsType DEF TypeOK
  <2>3. NoNews BY <1>1, <2>1, ListsKept, TakeKeepsType DEF sdk, NoNews
  <2> QED BY <2>2, <2>3, NoNewsKeeps
<1>4. CASE Drop
  <2>1. <<>> \in Seq(1..taken) OBVIOUS
  <2>2. TypeOK' BY <1>1, <1>4, <2>1 DEF Drop, TypeOK, Event, SentEvent
  <2>3. NoNews BY <1>4, ListsKept DEF Drop, NoNews
  <2> QED BY <2>2, <2>3, NoNewsKeeps
<1>5. CASE Age \/ Stabilise \/ UNCHANGED clientVars
  <2>1. TypeOK'
    <3>1. CASE Age BY <1>1, <3>1 DEF Age, TypeOK, Event, SentEvent
    <3>2. CASE Stabilise BY <1>1, <3>2 DEF Stabilise, TypeOK, Event, SentEvent
    <3>3. CASE UNCHANGED clientVars BY <1>1, <3>3 DEF TypeOK, Event, SentEvent
    <3> QED BY <1>5, <3>1, <3>2, <3>3
  <2>2. NoNews BY <1>5, ListsKept DEF Age, Stabilise, NoNews
  <2> QED BY <2>1, <2>2, NoNewsKeeps
<1> QED BY <1>2, <1>3, <1>4, <1>5

\* The events in the SDK, as messages.
LEMMA PendingTyped ==
    ASSUME TypeOK
    PROVE  /\ Elements(waitingToSend) \subseteq Event
           /\ Pending \subseteq [msg: 1..taken, id: Int] \cup SentEvent
           /\ \A e \in Pending : e.id \in Int
           /\ AtNow(Overdue \cup Elements(waitingToSend)) \subseteq SentEvent
           /\ AtNow(Elements(waitingToSend)) \subseteq SentEvent
<1>1. Elements(waitingToSend) \subseteq Event
  BY ElementsInSet DEF TypeOK
<1>2. Overdue \subseteq SentEvent
  BY DEF TypeOK, Overdue
<1>3. \A E : E \subseteq Event \cup SentEvent => AtNow(E) \subseteq SentEvent
  BY DEF Event, SentEvent, AtNow, TypeOK
<1> QED BY <1>1, <1>2, <1>3 DEF Pending, TypeOK, Event, SentEvent

LEMMA PublishClient ==
    ASSUME ClientInv, Publish
    PROVE  ClientInv'
<1>1. TypeOK /\ Work /\ OneInFlight /\ ConfirmationTrue /\ ConfirmedArrived
  BY DEF ClientInv, Publish
<1> DEFINE all == (waitingForAck \ Overdue) \cup AtNow(Overdue \cup Elements(waitingToSend))
<1>2. PICK read \in SUBSET acks :
        /\ acks' = acks \ read
        /\ waitingForAck' = all \ {e \in all : e.msg \in read}
        /\ currentTrackingId' = AfterConfirmation(currentTrackingId,
                                    Ids({e \in all : e.msg \in read}), TRUE)
  BY DEF Publish
<1>3. waitingToSend' = <<>> /\ peer' = peer /\ link' = link /\ aged' = aged
      /\ UNCHANGED <<clientConnected, resetClient>>
  BY DEF Publish
<1>4. \A e \in all : \E f \in Pending : e.msg = f.msg
  BY DEF AtNow, Overdue, Pending
<1>5. all \subseteq SentEvent
  BY <1>1, PendingTyped DEF TypeOK, Overdue
<1>6. wire' \in Seq(1..taken)
  <2>1. PICK again \in OverdueLists :
          wire' = IF peer THEN wire \o Numbers(again) \o Numbers(waitingToSend) ELSE wire
    BY DEF Publish
  <2>2. Numbers(again) \in Seq(1..taken)
    BY <1>1, ClientAssumption, OverdueNumbers
  <2>3. Numbers(waitingToSend) \in Seq(1..taken)
    BY <1>1, NumbersInSet DEF TypeOK, Event
  <2>4. wire \in Seq(1..taken) BY <1>1 DEF TypeOK
  <2> HIDE DEF all
  <2>5. \A N : \A s, t, u \in Seq(N) : s \o t \o u \in Seq(N)
    OBVIOUS
  <2> QED BY <2>1, <2>2, <2>3, <2>4, <2>5
<1> HIDE DEF all
<1>7. Pending' = all \ {e \in all : e.msg \in read}
  BY <1>2, <1>3, ElementsOfEmpty DEF Pending
<1>8. /\ UNCHANGED <<event, received, confirmed, taken>>
      /\ pc \in {"connecting", "sending"}
      /\ pc = "connecting" => pc' = "connectCheck"
      /\ pc = "sending" => pc' = "sendCheck"
  BY <1>1, WorkStage DEF clientHistory
<1>9. currentTrackingId' \in Int
      /\ (currentTrackingId' = EventConfirmed /\ currentTrackingId # EventConfirmed =>
              \E e \in all : e.msg \in read)
  <2> DEFINE ids == Ids({e \in all : e.msg \in read})
  <2>1. currentTrackingId \in Int BY <1>1 DEF TypeOK
  <2>2. currentTrackingId' = AfterConfirmation(currentTrackingId, ids, TRUE) BY <1>2
  <2>3. ASSUME currentTrackingId \in ids PROVE \E e \in all : e.msg \in read
    BY <2>3 DEF Ids
  <2> HIDE DEF ids
  <2> QED BY <2>1, <2>2, <2>3, OnlySuccessConfirms
<1>10. TypeOK'
  <2>1. <<>> \in Seq(Event) OBVIOUS
  <2>2. waitingForAck' \subseteq SentEvent' /\ Event' = Event
    BY <1>2, <1>5, <1>8 DEF SentEvent, Event
  <2>3. acks' \subseteq acks BY <1>2
  <2> QED BY <1>1, <1>3, <1>6, <1>8, <1>9, <2>1, <2>2, <2>3, WorkStage
          DEF TypeOK, clientHistory
<1>11. OneInFlight'
  BY <1>1, <1>4, <1>7, <1>8 DEF OneInFlight
<1>12. ConfirmationTrue'
  <2>1. acks' \subseteq Arrived'
    BY <1>1, <1>2, <1>8 DEF ConfirmationTrue, Arrived
  <2>2. CASE pc = "connecting"
    <3>1. all = {} BY <1>1, <1>4, <2>2 DEF OneInFlight
    <3> QED BY <1>1, <1>8, <1>9, <2>1, <2>2, <3>1 DEF ConfirmationTrue
  <2>3. CASE pc = "sending"
    <3>1. \A e \in all : e.msg = event.msg
      BY <1>1, <1>4, <2>3 DEF OneInFlight
    <3>2. CASE currentTrackingId = EventConfirmed
      <4>1. all = {} /\ event.msg \in Arrived
        BY <1>1, <1>4, <2>3, <3>2 DEF ConfirmationTrue
      <4> QED BY <1>7, <1>8, <2>1, <2>3, <4>1 DEF ConfirmationTrue, Arrived
    <3>3. CASE currentTrackingId # EventConfirmed /\ currentTrackingId' = EventConfirmed
      <4>1. event.msg \in read BY <1>9, <3>1, <3>3
      <4>2. event.msg \in Arrived BY <1>1, <4>1 DEF ConfirmationTrue
      <4>3. Pending' = {} BY <1>7, <3>1, <4>1
      <4> QED BY <1>8, <2>1, <2>3, <4>2, <4>3 DEF ConfirmationTrue, Arrived
    <3> QED BY <1>8, <2>1, <2>3, <3>2, <3>3 DEF ConfirmationTrue
  <2> QED BY <1>8, <2>2, <2>3
<1>13. ConfirmedArrived'
  BY <1>1, <1>8 DEF ConfirmedArrived, Arrived
<1> QED BY <1>10, <1>11, <1>12, <1>13 DEF ClientInv

\* The publish that fails for lack of memory, or while writing.
LEMMA FailedPublishClient ==
    ASSUME ClientInv, PublishFails \/ WriteFails
    PROVE  ClientInv'
<1>1. TypeOK /\ Work /\ OneInFlight /\ ConfirmationTrue /\ ConfirmedArrived
  BY DEF ClientInv, PublishFails, WriteFails
<1>2. /\ UNCHANGED <<event, received, confirmed, taken, network>>
      /\ pc \in {"connecting", "sending"}
      /\ pc = "connecting" => pc' = "connectCheck"
      /\ pc = "sending" => pc' = "sendCheck"
  BY <1>1, WorkStage DEF clientHistory, PublishFails, WriteFails
<1>3. /\ waitingToSend' \in Seq(Event) /\ waitingForAck' \subseteq SentEvent
      /\ \A e \in Pending' : \E f \in Pending : e.msg = f.msg
  <2>1. <<>> \in Seq(Event) OBVIOUS
  <2>2. UNCHANGED lists \/ (waitingToSend' = <<>> /\ waitingForAck' = waitingForAck)
        \/ (waitingToSend' = <<>>
            /\ waitingForAck' = waitingForAck \cup AtNow(Elements(waitingToSend)))
    BY DEF PublishFails, WriteFails
  <2>3. \A e \in AtNow(Elements(waitingToSend)) : \E f \in Pending : e.msg = f.msg
    BY DEF AtNow, Pending
  <2>4. waitingToSend' = waitingToSend \/ waitingToSend' = <<>>
    BY <2>2 DEF lists
  <2>5. \A e \in waitingForAck' : e \in Pending \/ e \in AtNow(Elements(waitingToSend))
    BY <2>2 DEF lists, Pending
  <2>6. \A e \in Elements(waitingToSend') : e \in Pending
    BY <2>4, ElementsOfEmpty DEF Pending
  <2>7. waitingForAck' \subseteq SentEvent
    BY <1>1, <2>2, PendingTyped DEF TypeOK, lists
  <2>8. \A e \in Pending' : e \in waitingForAck' \/ e \in Elements(waitingToSend')
    BY DEF Pending
  <2> QED BY <1>1, <2>1, <2>3, <2>4, <2>5, <2>6, <2>7, <2>8 DEF TypeOK
<1>4. /\ currentTrackingId' \in Int
      /\ currentTrackingId' = EventConfirmed => currentTrackingId = EventConfirmed
  BY <1>1, OnlySuccessConfirms DEF PublishFails, WriteFails, TypeOK
<1>5. /\ clientConnected' \in BOOLEAN /\ resetClient' \in BOOLEAN /\ link' \in Links
      /\ aged' = aged
  BY <1>1, CallbacksKeepType DEF PublishFails, WriteFails, TypeOK, Links
<1>6. TypeOK'
  BY <1>1, <1>2, <1>3, <1>4, <1>5, WorkStage
     DEF TypeOK, Event, SentEvent, clientHistory, network
<1>7. OneInFlight'
  BY <1>1, <1>2, <1>3 DEF OneInFlight
<1>8. ConfirmationTrue'
  BY <1>1, <1>2, <1>3, <1>4 DEF ConfirmationTrue, Arrived, network
<1>9. ConfirmedArrived'
  BY <1>1, <1>2 DEF ConfirmedArrived, Arrived
<1> QED BY <1>6, <1>7, <1>8, <1>9 DEF ClientInv

LEMMA BootClient ==
    ASSUME ClientInv, Boot
    PROVE  ClientInv'
<1>1. TypeOK /\ OneInFlight /\ ConfirmationTrue /\ ConfirmedArrived BY DEF ClientInv
<1>2. /\ trackingId' = 0 /\ since' = 0 /\ link' = "down" /\ aged' = FALSE /\ waitingForAck' = {}
      /\ handle' \in BOOLEAN /\ listened' \in BOOLEAN
      /\ pc = "boot" /\ pc' \in {"connecting", "idle"}
      /\ UNCHANGED <<event, currentTrackingId, clientConnected, resetClient, waitingToSend,
                     network, clientHistory>>
  BY DEF Boot, NewClient
<1>3. TypeOK'
  BY <1>1, <1>2 DEF TypeOK, network, clientHistory, Pcs, Links, Event, SentEvent
<1>4. Pending' = {}
  BY <1>1, <1>2 DEF OneInFlight, Pending
<1>5. OneInFlight'
  BY <1>2, <1>4 DEF OneInFlight
<1>6. ConfirmationTrue' /\ ConfirmedArrived'
  BY <1>1, <1>2 DEF ConfirmationTrue, ConfirmedArrived, Arrived, network, clientHistory
<1> QED BY <1>3, <1>5, <1>6 DEF ClientInv

\* What follows when an event is queued, or cannot be, with nothing in the SDK's lists.
LEMMA QueueOne ==
    ASSUME TypeOK, NEW e, Pending = {}, Enqueue(e) \/ EnqueueFails, handle' = handle,
           waitingForAck' = waitingForAck
    PROVE  /\ \A f \in Pending' : pc' = "sending" /\ f = e /\ event' = e
           /\ \/ waitingToSend' = Append(waitingToSend, e) /\ pc' = "sending" /\ event' = e
              \/ waitingToSend' = waitingToSend /\ pc' = "idle" /\ event' = NoEvent
<1>1. waitingForAck = {} /\ Elements(waitingToSend) = {}
  BY DEF Pending
<1>2. CASE Enqueue(e)
  <2>1. Elements(waitingToSend') = {e}
    BY <1>1, <1>2, ElementsOfAppend DEF Enqueue, TypeOK
  <2> QED BY <1>1, <1>2, <2>1 DEF Enqueue, Pending
<1>3. CASE EnqueueFails
  BY <1>1, <1>3 DEF EnqueueFails, Pending
<1> QED BY <1>2, <1>3

LEMMA SendNowClient ==
    ASSUME ClientInv, SendNow
    PROVE  ClientInv'
<1>1. TypeOK /\ OneInFlight /\ ConfirmationTrue /\ ConfirmedArrived BY DEF ClientInv
<1>2. /\ Take /\ pc = "idle" /\ handle /\ ~resetClient
      /\ trackingId' = trackingId + 1 /\ currentTrackingId' = trackingId /\ since' = 0
      /\ UNCHANGED <<handle, clientConnected, resetClient, listened, link, aged, waitingForAck,
                     network>>
  BY DEF SendNow, Take
<1>3. Pending = {}
  BY <1>1, <1>2 DEF OneInFlight
<1>4. /\ \A f \in Pending' : pc' = "sending" /\ f = NextEvent /\ event' = NextEvent
      /\ \/ waitingToSend' = Append(waitingToSend, NextEvent) /\ pc' = "sending" /\ event' = NextEvent
         \/ waitingToSend' = waitingToSend /\ pc' = "idle" /\ event' = NoEvent
  BY <1>1, <1>2, <1>3, QueueOne DEF SendNow
<1>5. trackingId' \in Nat /\ currentTrackingId' \in Int /\ currentTrackingId' # EventConfirmed
  BY <1>1, <1>2 DEF TypeOK, EventConfirmed
<1>6. TypeOK'
  <2>1. waitingToSend' \in Seq(Event') /\ event' \in Event' \cup {NoEvent} /\ pc' \in Pcs
    <3>1. waitingToSend \in Seq(Event') /\ NextEvent \in Event'
      BY <1>1, <1>2, TakeKeepsType
    <3> QED BY <1>4, <3>1, AppendInSet DEF Pcs
  <2>2. since' \in Nat BY <1>2
  <2> QED BY <1>1, <1>2, <1>5, <2>1, <2>2, TakeKeepsType, Zenon DEF TypeOK, network
<1>7. OneInFlight'
  BY <1>4 DEF OneInFlight
<1>8. ConfirmationTrue' /\ ConfirmedArrived'
  BY <1>1, <1>2, <1>4, <1>5, TakeKeepsType
     DEF ConfirmationTrue, ConfirmedArrived, Arrived, network
<1> QED BY <1>6, <1>7, <1>8 DEF ClientInv

LEMMA ReconnectClient ==
    ASSUME ClientInv, Reconnect
    PROVE  ClientInv'
<1>1. TypeOK /\ OneInFlight /\ ConfirmationTrue /\ ConfirmedArrived BY DEF ClientInv
<1>2. /\ Take /\ trackingId' = 0 /\ since' = 0 /\ link' = "down" /\ aged' = FALSE
      /\ waitingForAck' = {} /\ handle' \in BOOLEAN /\ listened' \in BOOLEAN
      /\ currentTrackingId' = AfterConfirmation(trackingId, Ids(Pending), FALSE)
      /\ UNCHANGED <<clientConnected, network>>
  BY DEF Reconnect, NewClient
<1>3. /\ resetClient' \in BOOLEAN
      /\ \/ pc' = "connecting" /\ event' = NextEvent /\ waitingToSend' = <<>>
         \/ pc' = "sending" /\ event' = NextEvent /\ waitingToSend' = <<NextEvent>>
         \/ pc' = "idle" /\ event' = NoEvent /\ waitingToSend' = <<>>
  BY <1>1 DEF Reconnect, TypeOK
<1>4. currentTrackingId' \in Int /\ currentTrackingId' # EventConfirmed
  <2>1. trackingId \in Int /\ trackingId # EventConfirmed BY <1>1 DEF TypeOK, EventConfirmed
  <2> QED BY <1>2, <2>1, OnlySuccessConfirms
<1>5. NextEvent \in Event' BY <1>1, <1>2, TakeKeepsType
<1>6. TypeOK'
  <2>1. ASSUME NEW S, NEW e \in S PROVE <<>> \in Seq(S) /\ <<e>> \in Seq(S)
    OBVIOUS
  <2>2. waitingToSend' \in Seq(Event') /\ event' \in Event' \cup {NoEvent} /\ pc' \in Pcs
    BY <1>3, <1>5, <2>1 DEF Pcs
  <2>3. trackingId' \in Nat /\ since' \in Nat BY <1>2
  <2> QED BY <1>1, <1>2, <1>3, <1>4, <2>2, <2>3, TakeKeepsType DEF TypeOK, network, Links
<1>7. OneInFlight'
  <2>1. Pending' = Elements(waitingToSend') BY <1>2 DEF Pending
  <2> QED BY <1>3, <2>1, ElementsOfEmpty, ElementsOfOne DEF OneInFlight
<1>8. ConfirmationTrue' /\ ConfirmedArrived'
  BY <1>1, <1>2, <1>3, <1>4, TakeKeepsType
     DEF ConfirmationTrue, ConfirmedArrived, Arrived, network
<1> QED BY <1>6, <1>7, <1>8 DEF ClientInv

LEMMA ConnectedClient ==
    ASSUME ClientInv, Connected
    PROVE  ClientInv'
<1>1. TypeOK /\ OneInFlight /\ ConfirmationTrue /\ ConfirmedArrived BY DEF ClientInv
<1>2. /\ pc = "connectCheck" /\ handle' = handle /\ waitingForAck' = waitingForAck
      /\ UNCHANGED <<since, trackingId, currentTrackingId, clientConnected, listened, link,
                     aged, network, clientHistory>>
  BY DEF Connected
<1>3. Pending = {} /\ currentTrackingId # EventConfirmed
  BY <1>1, <1>2 DEF OneInFlight, ConfirmationTrue
<1>4. /\ \A f \in Pending' : pc' = "sending" /\ f = event /\ event' = event
      /\ \/ event # NoEvent /\ waitingToSend' = Append(waitingToSend, event)
            /\ pc' = "sending" /\ event' = event
         \/ waitingToSend' = waitingToSend /\ pc' = "idle" /\ event' = NoEvent
      /\ resetClient' \in BOOLEAN
  <2>1. CASE event = NoEvent
    BY <1>1, <1>2, <1>3, <2>1 DEF Connected, TypeOK, Pending
  <2>2. CASE event # NoEvent
    BY <1>1, <1>2, <1>3, <2>2, QueueOne DEF Connected
  <2> QED BY <2>1, <2>2
<1>5. TypeOK'
  <2>1. waitingToSend' \in Seq(Event) /\ event' \in Event \cup {NoEvent} /\ pc' \in Pcs
    <3>1. waitingToSend \in Seq(Event) /\ event \in Event \cup {NoEvent}
      BY <1>1 DEF TypeOK
    <3> QED BY <1>4, <3>1, AppendInSet DEF Pcs
  <2>2. Event' = Event /\ SentEvent' = SentEvent
    BY <1>2 DEF Event, SentEvent, clientHistory
  <2> QED BY <1>1, <1>2, <1>4, <2>1, <2>2, Zenon DEF TypeOK, network, clientHistory
<1>6. OneInFlight'
  BY <1>4 DEF OneInFlight
<1>7. ConfirmationTrue' /\ ConfirmedArrived'
  BY <1>1, <1>2, <1>3, <1>4
     DEF ConfirmationTrue, ConfirmedArrived, Arrived, network, clientHistory
<1> QED BY <1>5, <1>6, <1>7 DEF ClientInv

\* The end of a send: with the confirmation, or without it and with a reset.
LEMMA SendDoneClient ==
    ASSUME ClientInv, SendConfirmed \/ GiveUp
    PROVE  ClientInv'
<1>1. TypeOK /\ OneInFlight /\ ConfirmationTrue /\ ConfirmedArrived BY DEF ClientInv
<1>2. /\ pc = "sendCheck" /\ pc' = "idle" /\ event' = NoEvent
      /\ UNCHANGED <<since, trackingId, currentTrackingId, clientConnected, sdk, network,
                     received, taken, stable, goodStart, restarts>>
      /\ \/ GiveUp /\ resetClient' /\ resetClient' \in BOOLEAN /\ confirmed' = confirmed
         \/ SendConfirmed /\ resetClient' = resetClient /\ currentTrackingId = EventConfirmed
            /\ confirmed' = confirmed \cup {event.msg}
  BY DEF SendConfirmed, GiveUp, flags, clientHistory
<1>3. SendConfirmed => event.msg \in Arrived /\ Pending = {}
  BY <1>1, <1>2 DEF SendConfirmed, ConfirmationTrue
<1>4. Arrived \subseteq 1..taken
  BY <1>1, ElementsInSet DEF TypeOK, Arrived
<1>5. TypeOK'
  BY <1>1, <1>2, <1>3, <1>4 DEF TypeOK, sdk, lists, network, Pcs, Event, SentEvent
<1>6. OneInFlight'
  BY <1>2, <1>3, ListsKept DEF OneInFlight, sdk
<1>7. ConfirmationTrue' /\ ConfirmedArrived'
  BY <1>1, <1>2, <1>3 DEF ConfirmationTrue, ConfirmedArrived, Arrived, network
<1> QED BY <1>5, <1>6, <1>7 DEF ClientInv

LEMMA HubReceiveClient ==
    ASSUME ClientInv, HubReceive
    PROVE  ClientInv'
<1>1. TypeOK /\ OneInFlight /\ ConfirmationTrue /\ ConfirmedArrived BY DEF ClientInv
<1>2. /\ received' = Append(received, Head(wire)) /\ wire' = Tail(wire)
      /\ acks' \subseteq acks \cup {Head(wire)}
      /\ UNCHANGED <<caller, flags, sdk, peer, taken, confirmed, stable, goodStart, restarts>>
  BY DEF HubReceive
<1>3. Head(wire) \in 1..taken /\ Tail(wire) \in Seq(1..taken)
  BY <1>1, HeadInSet DEF HubReceive, TypeOK
<1>4. received' \in Seq(1..taken) /\ Arrived' = Arrived \cup {Head(wire)}
  BY <1>1, <1>2, <1>3, ElementsOfAppend DEF TypeOK, Arrived
<1>5. TypeOK'
  BY <1>1, <1>2, <1>3, <1>4 DEF TypeOK, caller, flags, sdk, lists, Event, SentEvent
<1>6. OneInFlight'
  BY <1>1, <1>2, ListsKept DEF OneInFlight, sdk, caller, flags
<1>7. ConfirmationTrue' /\ ConfirmedArrived'
  BY <1>1, <1>2, <1>4, ListsKept DEF ConfirmationTrue, ConfirmedArrived, sdk, caller, flags
<1> QED BY <1>5, <1>6, <1>7 DEF ClientInv

LEMMA RestartClient ==
    ASSUME ClientInv, Restart
    PROVE  ClientInv'
<1>1. TypeOK /\ ConfirmedArrived BY DEF ClientInv
<1>2. <<>> \in Seq(Event) OBVIOUS
<1>3. TypeOK'
  <2>1. trackingId' \in Nat /\ currentTrackingId' \in Int /\ since' \in Nat
        /\ currentTrackingId' # EventConfirmed
    BY DEF Restart, EventConfirmed
  <2> QED BY <1>1, <1>2, <2>1 DEF Restart, TypeOK, Pcs, Links, Event, SentEvent
<1>4. OneInFlight'
  BY ElementsOfEmpty DEF Restart, OneInFlight, Pending
<1>5. ConfirmationTrue' /\ ConfirmedArrived'
  BY <1>1 DEF Restart, ConfirmationTrue, ConfirmedArrived, Arrived, EventConfirmed
<1> QED BY <1>3, <1>4, <1>5 DEF ClientInv

LEMMA ClientStep ==
    ASSUME ClientInv, [Next]_clientVars
    PROVE  ClientInv'
<1>1. CASE DeviceStep
  <2>1. CASE Boot BY <2>1, BootClient
  <2>2. CASE LinkStep BY <2>2, LinkClient
  <2>3. CASE Publish BY <2>3, PublishClient
  <2>4. CASE PublishFails \/ WriteFails BY <2>4, FailedPublishClient
  <2>5. CASE Connected BY <2>5, ConnectedClient
  <2>6. CASE KeepConnecting \/ KeepSending BY <2>6, QuietClient
  <2>7. CASE SendConfirmed \/ GiveUp BY <2>7, SendDoneClient
  <2> QED BY <1>1, <2>1, <2>2, <2>3, <2>4, <2>5, <2>6, <2>7 DEF DeviceStep, DoWork, LinkStep
<1>2. CASE SendNow BY <1>2, SendNowClient
<1>3. CASE Reconnect BY <1>3, ReconnectClient
<1>4. CASE SendRefused \/ Drop \/ Age \/ Stabilise \/ UNCHANGED clientVars
  BY <1>4, QuietClient
<1>5. CASE HubReceive BY <1>5, HubReceiveClient
<1>6. CASE Restart BY <1>6, RestartClient
<1> QED BY <1>1, <1>2, <1>3, <1>4, <1>5, <1>6 DEF Next

\* The invariant of the MQTT client: at most the event in hand is in the SDK, and the
\* current tracking id is EventConfirmed only for a message the hub has.
THEOREM ClientInvariant == Spec => []ClientInv
<1>1. Init => ClientInv BY InitClient
<1>2. ClientInv /\ [Next]_clientVars => ClientInv' BY ClientStep
<1> QED BY <1>1, <1>2, PTL DEF Spec

\* Esp32MQTTClient_SendEventInstance returns true only for a message that has arrived.
THEOREM ConfirmedHasArrived == Spec => []ConfirmedArrived
<1>1. ClientInv => ConfirmedArrived BY DEF ClientInv
<1> QED BY <1>1, ClientInvariant, PTL

-----------------------------------------------------------------------------
(* The order at the hub.                                                    *)

Grows(s) == \A i, j \in DOMAIN s : i < j => s[i] < s[j]
Below(s, m) == \A i \in DOMAIN s : s[i] < m

\* What the hub has got and what is on its way there.
Stream == received \o wire

\* The stream grows, and what is still to be sent comes after it; while an event waits
\* for its acknowledgement a DoWork call starts before the time-out of the send, so
\* nothing is ever overdue.
StreamInv ==
    /\ Grows(Stream)
    /\ \A e \in Elements(waitingToSend) : Below(Stream, e.msg)
    /\ pc \in {"connecting", "connectCheck"} /\ event # NoEvent => Below(Stream, event.msg)
    /\ pc = "boot" => event = NoEvent
    /\ pc = "sending" => since = 0 \/ waitingForAck = {}
    /\ Len(waitingToSend) \in {0, 1}

LEMMA StreamTyped ==
    ASSUME TypeOK
    PROVE  /\ received \in Seq(Nat) /\ wire \in Seq(Nat) /\ Stream \in Seq(Nat)
           /\ Stream \in Seq(1..taken) /\ Below(Stream, taken + 1)
<1>1. /\ received \in Seq(1..taken) /\ wire \in Seq(1..taken) /\ taken \in Nat
  BY DEF TypeOK
<1>2. Seq(1..taken) \subseteq Seq(Nat)
  <2>1. 1..taken \subseteq Nat OBVIOUS
  <2> QED BY <2>1, SeqMonotone
<1>3. Stream \in Seq(1..taken)
  BY <1>1 DEF Stream
<1>4. Below(Stream, taken + 1)
  <2> HIDE DEF Stream
  <2>1. \A i \in DOMAIN Stream : Stream[i] \in 1..taken
    BY <1>3, SeqRange
  <2> QED BY <1>1, <2>1 DEF Below
<1> QED BY <1>1, <1>2, <1>3, <1>4

\* Giving up what is on its way leaves a part of the stream.
LEMMA StreamCut ==
    ASSUME NEW r \in Seq(Nat), NEW w \in Seq(Nat), Grows(r \o w)
    PROVE  /\ Grows(r \o <<>>)
           /\ \A m : Below(r \o w, m) => Below(r \o <<>>, m)
<1>1. /\ DOMAIN (r \o w) = 1 .. Len(r) + Len(w) /\ DOMAIN r = 1 .. Len(r)
      /\ Len(r) \in Nat /\ Len(w) \in Nat
      /\ \A i \in DOMAIN r : (r \o w)[i] = r[i]
  OBVIOUS
<1>2. DOMAIN r \subseteq DOMAIN (r \o w)
  BY <1>1
<1>3. DOMAIN (r \o <<>>) = DOMAIN r /\ \A i \in DOMAIN r : (r \o <<>>)[i] = r[i]
  OBVIOUS
<1> QED BY <1>1, <1>2, <1>3 DEF Grows, Below

LEMMA StreamExtended ==
    ASSUME NEW s \in Seq(Nat), NEW m \in Nat, Grows(s), Below(s, m)
    PROVE  Grows(Append(s, m)) /\ \A n \in Nat : m < n => Below(Append(s, m), n)
<1>1. /\ DOMAIN s = 1 .. Len(s) /\ Len(s) \in Nat
      /\ DOMAIN Append(s, m) = 1 .. Len(s) + 1
      /\ \A i \in DOMAIN s : Append(s, m)[i] = s[i] /\ s[i] \in Nat
      /\ Append(s, m)[Len(s) + 1] = m
  OBVIOUS
<1>2. \A i \in DOMAIN Append(s, m) : i \in DOMAIN s \/ i = Len(s) + 1
  BY <1>1
<1>3. ASSUME NEW i \in DOMAIN Append(s, m), NEW j \in DOMAIN Append(s, m), i < j
      PROVE  i \in DOMAIN s /\ (j \in DOMAIN s \/ j = Len(s) + 1)
  BY <1>1, <1>3
<1>4. Grows(Append(s, m))
  BY <1>1, <1>3 DEF Grows, Below
<1>5. ASSUME NEW n \in Nat, m < n PROVE Below(Append(s, m), n)
  BY <1>1, <1>2, <1>5 DEF Below
<1> QED BY <1>4, <1>5

\* What the hub receives stays in the stream.
LEMMA StreamShifted ==
    ASSUME NEW r \in Seq(Nat), NEW w \in Seq(Nat), w # <<>>
    PROVE  Append(r, Head(w)) \o Tail(w) = r \o w
  BY SMTT(30)

LEMMA HeadAfterLast ==
    ASSUME NEW r \in Seq(Nat), NEW w \in Seq(Nat), w # <<>>, Grows(r \o w), r # <<>>
    PROVE  r[Len(r)] < Head(w)
<1>1. /\ Len(r) \in Nat /\ Len(r) > 0 /\ Len(w) \in Nat /\ Len(w) > 0
      /\ DOMAIN (r \o w) = 1 .. Len(r) + Len(w)
      /\ (r \o w)[Len(r)] = r[Len(r)] /\ (r \o w)[Len(r) + 1] = Head(w)
  OBVIOUS
<1>2. Len(r) \in DOMAIN (r \o w) /\ Len(r) + 1 \in DOMAIN (r \o w)
  BY <1>1
<1>3. (r \o w)[Len(r)] < (r \o w)[Len(r) + 1]
  <2> DEFINE s == r \o w
  <2>1. Grows(s) /\ Len(r) \in DOMAIN s /\ Len(r) + 1 \in DOMAIN s /\ Len(r) < Len(r) + 1
    BY <1>1, <1>2
  <2> HIDE DEF s
  <2>2. s[Len(r)] < s[Len(r) + 1]
    BY <2>1 DEF Grows
  <2> QED BY <2>2 DEF s
<1> QED BY <1>1, <1>3

LEMMA ShortList ==
    ASSUME NEW S, NEW s \in Seq(S), Len(s) \in {0, 1}
    PROVE  s = <<>> \/ \E e \in S : s = <<e>> /\ Elements(s) = {e} /\ Numbers(s) = <<e.msg>>
<1>1. CASE Len(s) = 0 BY <1>1
<1>2. CASE Len(s) = 1
  <2>1. s[1] \in S /\ DOMAIN s = 1..1
    BY <1>2, SeqRange
  <2>2. s = <<s[1]>>
    BY <1>2, <2>1
  <2>3. Numbers(s) = <<s[1].msg>>
    BY <2>1 DEF Numbers
  <2> QED BY <2>1, <2>3, <2>2, ElementsOfOne
<1> QED BY <1>1, <1>2

\* The stream cut off or kept, with nothing added.
LEMMA StreamKept ==
    ASSUME TypeOK, StreamInv, received' = received, wire' = wire \/ wire' = <<>>
    PROVE  Grows(Stream') /\ \A m : Below(Stream, m) => Below(Stream', m)
<1>1. received \in Seq(Nat) /\ wire \in Seq(Nat) BY StreamTyped
<1>2. CASE wire' = wire
  BY <1>2 DEF Stream, StreamInv
<1>3. CASE wire' = <<>>
  BY <1>1, <1>3, StreamCut DEF Stream, StreamInv
<1> QED BY <1>2, <1>3

\* Nothing is overdue.
LEMMA NoneOverdue ==
    ASSUME ClientInv, StreamInv, pc \in {"connecting", "sending"}
    PROVE  Overdue = {} /\ \A again \in OverdueLists : Numbers(again) = <<>>
<1>1. pc = "sending" => since = 0 \/ waitingForAck = {} BY DEF StreamInv
<1>2. pc = "connecting" => waitingForAck = {}
  BY DEF ClientInv, OneInFlight, Pending
<1>3. \A e \in waitingForAck : e.at \in Nat
  BY DEF ClientInv, TypeOK, SentEvent
<1>4. Overdue = {}
  BY <1>1, <1>2, <1>3 DEF Overdue, ResendTimeout
<1>5. ASSUME NEW again \in OverdueLists PROVE Numbers(again) = <<>>
  <2>1. PICK n \in 0..MaxMessages : again \in [1..n -> Overdue] BY DEF OverdueLists
  <2>2. n = 0 BY <1>4, <2>1, ClientAssumption
  <2>3. DOMAIN again = 1..0 /\ 1..0 = {} BY <2>1, <2>2
  <2> QED BY <2>3 DEF Numbers
<1> QED BY <1>4, <1>5

LEMMA StreamOfPublish ==
    ASSUME ClientInv, StreamInv, Publish
    PROVE  /\ Grows(Stream')
           /\ pc = "connecting" => \A m : Below(Stream, m) => Below(Stream', m)
<1>1. TypeOK /\ pc \in {"connecting", "sending"} /\ received' = received
  BY WorkStage DEF ClientInv, Publish, clientHistory
<1>2. PICK again \in OverdueLists :
        wire' = IF peer THEN wire \o Numbers(again) \o Numbers(waitingToSend) ELSE wire
  BY DEF Publish
<1>3. CASE ~peer
  BY <1>1, <1>2, <1>3, StreamKept
<1>4. CASE peer
  <2>1. Numbers(again) = <<>> BY <1>1, NoneOverdue
  <2>2. received \in Seq(Nat) /\ wire \in Seq(Nat) /\ Stream \in Seq(Nat)
        /\ wire \o <<>> = wire
    <3>1. received \in Seq(Nat) /\ wire \in Seq(Nat) /\ Stream \in Seq(Nat)
      BY <1>1, StreamTyped
    <3> QED BY <3>1
  <2>3. wire' = wire \o Numbers(waitingToSend)
    BY <1>2, <1>4, <2>1, <2>2
  <2>4. waitingToSend \in Seq(Event) /\ Len(waitingToSend) \in {0, 1}
    BY <1>1 DEF TypeOK, StreamInv
  <2>5. CASE waitingToSend = <<>>
    <3>1. Numbers(waitingToSend) = <<>> BY <2>5 DEF Numbers
    <3> QED BY <1>1, <2>2, <2>3, <3>1, StreamKept
  <2>6. CASE \E e \in Event : /\ waitingToSend = <<e>> /\ Elements(waitingToSend) = {e}
                             /\ Numbers(waitingToSend) = <<e.msg>>
    <3>1. PICK e \in Event : /\ Elements(waitingToSend) = {e}
                             /\ Numbers(waitingToSend) = <<e.msg>>
      BY <2>6
    <3>2. e.msg \in Nat BY DEF Event
    <3>3. Grows(Stream) /\ Below(Stream, e.msg) BY <3>1 DEF StreamInv
    <3>4. ASSUME NEW u \in Seq(Nat), NEW v \in Seq(Nat), NEW m \in Nat
          PROVE  u \o (v \o <<m>>) = Append(u \o v, m)
      OBVIOUS
    <3>5. Stream' = Append(Stream, e.msg)
      BY <1>1, <2>2, <2>3, <3>1, <3>2, <3>4, SMTT(30) DEF Stream
    <3>6. pc # "connecting"
      BY <3>1 DEF ClientInv, OneInFlight, Pending
    <3> QED BY <2>2, <3>2, <3>3, <3>5, <3>6, StreamExtended
  <2> QED BY <2>4, <2>5, <2>6, ShortList
<1> QED BY <1>3, <1>4

LEMMA StreamOfHub ==
    ASSUME TypeOK, StreamInv, HubReceive
    PROVE  Stream' = Stream
  BY StreamTyped, StreamShifted DEF HubReceive, Stream

\* Steps that add nothing to the stream and queue nothing.
LEMMA StreamQuiet ==
    ASSUME ClientInv, StreamInv, received' = received, wire' = wire \/ wire' = <<>>,
           event' = event,
           waitingToSend' = waitingToSend \/ waitingToSend' = <<>>,
           pc' = "sending" =>
               since' = 0 \/ (pc = "sending" /\ since' = since /\ waitingForAck' = waitingForAck),
           pc' = "boot" => pc = "boot",
           pc' \in {"connecting", "connectCheck"} /\ event # NoEvent =>
               pc \in {"connecting", "connectCheck"}
    PROVE  StreamInv'
<1>1. Grows(Stream') /\ \A m : Below(Stream, m) => Below(Stream', m)
  BY StreamKept DEF ClientInv
<1>2. /\ \A e \in Elements(waitingToSend') : e \in Elements(waitingToSend)
      /\ Len(waitingToSend') \in {0, 1}
  BY ElementsOfEmpty DEF StreamInv
<1> HIDE DEF Stream, Below, Grows
<1> QED BY <1>1, <1>2 DEF StreamInv

\* An event queued in an empty list, behind the whole stream.
LEMMA StreamQueued ==
    ASSUME NEW e, Grows(Stream), Below(Stream, e.msg), Stream' = Stream,
           \/ waitingToSend' = <<e>>
           \/ waitingToSend = <<>> /\ waitingToSend' = Append(waitingToSend, e),
           pc' = "sending", waitingForAck' = {}
    PROVE  StreamInv'
<1>1. <<>> \in Seq({e}) /\ Len(<<>>) = 0 /\ Len(Append(<<>>, e)) = 1 /\ Len(<<e>>) = 1
  OBVIOUS
<1>2. Elements(waitingToSend') = {e} /\ Len(waitingToSend') = 1
  <2>1. Elements(<<e>>) = {e} /\ Elements(Append(<<>>, e)) = {e}
    BY <1>1, ElementsOfOne, ElementsOfAppend, ElementsOfEmpty
  <2> QED BY <1>1, <2>1
<1> HIDE DEF Stream
<1> QED BY <1>2 DEF StreamInv

\* No event in the SDK means that its list is empty.
LEMMA NonePending ==
    ASSUME TypeOK, StreamInv, Pending = {}
    PROVE  waitingToSend = <<>> /\ waitingForAck = {}
<1>1. waitingToSend \in Seq(Event) /\ Len(waitingToSend) \in {0, 1}
  BY DEF TypeOK, StreamInv
<1> QED BY <1>1, ShortList DEF Pending

LEMMA StreamOfTake ==
    ASSUME ClientInv, StreamInv, SendNow \/ Reconnect
    PROVE  StreamInv'
<1>1. TypeOK /\ Take /\ pc = "idle" BY DEF ClientInv, SendNow, Reconnect, Take
<1>2. Stream' = Stream
  BY <1>1, TakeKeepsType DEF SendNow, Reconnect, Stream, network
<1>3. Grows(Stream) /\ Below(Stream, NextEvent.msg)
  BY <1>1, StreamTyped DEF StreamInv, NextEvent
<1> HIDE DEF Stream, NextEvent
<1>4. CASE SendNow
  <2>1. waitingToSend = <<>> /\ waitingForAck = {}
    BY <1>1, <1>4, NonePending DEF SendNow, ClientInv, OneInFlight
  <2>2. CASE Enqueue(NextEvent)
    BY <1>2, <1>3, <1>4, <2>1, <2>2, StreamQueued DEF SendNow, Enqueue
  <2>3. CASE EnqueueFails
    BY <1>2, <1>3, <2>3 DEF EnqueueFails, StreamInv
  <2> QED BY <1>4, <2>2, <2>3 DEF SendNow
<1>5. CASE Reconnect
  <2>1. waitingForAck' = {} BY <1>5 DEF Reconnect, NewClient
  <2>2. CASE pc' = "connecting" /\ event' = NextEvent /\ waitingToSend' = <<>>
    BY <1>2, <1>3, <2>2, ElementsOfEmpty DEF StreamInv
  <2>3. CASE waitingToSend' = <<NextEvent>> /\ pc' = "sending"
    BY <1>2, <1>3, <2>1, <2>3, StreamQueued
  <2>4. CASE pc' = "idle" /\ waitingToSend' = <<>>
    BY <1>2, <1>3, <2>4, ElementsOfEmpty DEF StreamInv
  <2> QED BY <1>5, <2>2, <2>3, <2>4 DEF Reconnect
<1> QED BY <1>4, <1>5

LEMMA StreamOfConnected ==
    ASSUME ClientInv, StreamInv, Connected
    PROVE  StreamInv'
<1>1. TypeOK /\ pc = "connectCheck" /\ Pending = {} /\ waitingForAck' = waitingForAck
  BY DEF ClientInv, OneInFlight, Connected
<1>2. waitingToSend = <<>> /\ waitingForAck = {}
  BY <1>1, NonePending
<1>3. Stream' = Stream
  BY DEF Connected, Stream, network, clientHistory
<1> HIDE DEF Stream
<1>4. CASE event # NoEvent /\ Enqueue(event)
  <2>1. Grows(Stream) /\ Below(Stream, event.msg) BY <1>1, <1>4 DEF StreamInv
  <2> QED BY <1>1, <1>2, <1>3, <1>4, <2>1, StreamQueued DEF Enqueue
<1>5. CASE pc' = "idle" /\ waitingToSend' = waitingToSend
  BY <1>3, <1>5 DEF StreamInv
<1> QED BY <1>4, <1>5 DEF Connected, EnqueueFails

LEMMA StreamNext ==
    ASSUME ClientInv, StreamInv, [Next]_clientVars
    PROVE  StreamInv'
<1>1. TypeOK BY DEF ClientInv
<1>2. CASE LinkStep \/ PublishFails \/ WriteFails
  <2>1. Work BY <1>2 DEF LinkStep, Wait, OpenLink, OpenFails, Refuse, Accept, Expire, Subscribe,
                        SubscribeAck, PublishFails, WriteFails
  <2>2. /\ wire' = wire \/ wire' = <<>>
        /\ waitingToSend' = waitingToSend \/ waitingToSend' = <<>>
    BY <1>2 DEF LinkStep, Wait, OpenLink, OpenFails, Refuse, Accept, Expire, Subscribe,
                SubscribeAck, PublishFails, WriteFails, network, lists
  <2>3. /\ pc \in {"connecting", "sending"} /\ pc' \notin {"sending", "boot"}
        /\ pc = "sending" => pc' = "sendCheck"
        /\ event' = event /\ received' = received
    BY <1>1, <2>1, WorkStage DEF clientHistory
  <2> QED BY <2>2, <2>3, StreamQuiet
<1>3. CASE Publish
  <2>1. /\ pc = "connecting" => pc' = "connectCheck"
        /\ pc = "sending" => pc' = "sendCheck"
        /\ pc \in {"connecting", "sending"}
        /\ event' = event /\ waitingToSend' = <<>>
    BY <1>1, <1>3, WorkStage DEF Publish
  <2>2. /\ Grows(Stream')
        /\ pc = "connecting" => \A m : Below(Stream, m) => Below(Stream', m)
    BY <1>3, StreamOfPublish
  <2> HIDE DEF Stream
  <2> QED BY <2>1, <2>2, ElementsOfEmpty DEF StreamInv
<1>4. CASE Boot \/ KeepConnecting \/ KeepSending
  <2>1. pc = "sendCheck" /\ KeepSending => since = 0
    BY <1>1 DEF KeepSending, TimeIsUp, EventTimeout, TypeOK
  <2> QED BY <1>4, <2>1, StreamQuiet
          DEF Boot, KeepConnecting, KeepSending, StreamInv, sdk, lists, network, clientHistory
<1>5. CASE SendConfirmed \/ GiveUp
  <2>1. Stream' = Stream /\ waitingToSend' = waitingToSend /\ pc' = "idle"
    BY <1>5 DEF SendConfirmed, GiveUp, Stream, sdk, lists, network, clientHistory
  <2> HIDE DEF Stream
  <2> QED BY <2>1 DEF StreamInv
<1>6. CASE SendRefused \/ Drop \/ Age \/ Stabilise \/ UNCHANGED clientVars
  BY <1>1, <1>6, StreamQuiet, TakeKeepsType
     DEF SendRefused, Drop, Age, Stabilise, clientVars, caller, sdk, lists, network, clientHistory
<1>7. CASE HubReceive
  <2>1. Stream' = Stream /\ UNCHANGED <<pc, event, since, waitingToSend, waitingForAck>>
    BY <1>1, <1>7, StreamOfHub DEF HubReceive, caller, sdk, lists
  <2> HIDE DEF Stream
  <2> QED BY <2>1 DEF StreamInv
<1>8. CASE Restart
  <2>1. Grows(Stream')
    BY <1>1, <1>8, StreamKept DEF Restart
  <2> HIDE DEF Stream
  <2> QED BY <1>8, <2>1, ElementsOfEmpty DEF Restart, StreamInv
<1> QED BY <1>2, <1>3, <1>4, <1>5, <1>6, <1>7, <1>8, StreamOfTake, StreamOfConnected
        DEF Next, DeviceStep, DoWork, LinkStep

\* Esp32MQTTClient.cpp gives up a message long before the SDK would publish it again, and
\* sends one at a time: the hub gets the messages in their order and none twice.
THEOREM HubGetsInOrder == Spec => HubOrder
<1>1. Init => ClientInv /\ StreamInv /\ Channel!Init
  <2> SUFFICES ASSUME Init PROVE ClientInv /\ StreamInv /\ Channel!Init
    OBVIOUS
  <2>1. DOMAIN Stream = {} /\ Elements(waitingToSend) = {} /\ Len(waitingToSend) = 0
    BY ElementsOfEmpty DEF Init, Stream
  <2> HIDE DEF Stream
  <2>2. StreamInv BY <2>1 DEF Init, StreamInv, Grows, Below
  <2> QED BY <2>2, InitClient DEF Init, Channel!Init
<1>2. ClientInv /\ StreamInv /\ [Next]_clientVars => (ClientInv /\ StreamInv)'
  BY ClientStep, StreamNext
<1>3. ClientInv /\ StreamInv /\ [Next]_clientVars
          => [Channel!Post \/ Channel!Hand]_(Channel!channelVars)
  <2> SUFFICES ASSUME ClientInv, StreamInv, [Next]_clientVars,
                      <<taken, received>>' # <<taken, received>>
               PROVE  Channel!Post \/ Channel!Hand
    BY DEF Channel!channelVars
  <2>1. TypeOK BY DEF ClientInv
  <2>2. CASE SendRefused \/ SendNow \/ Reconnect
    BY <2>2 DEF SendRefused, SendNow, Reconnect, Take, Channel!Post
  <2>3. CASE HubReceive
    <3>1. /\ received \in Seq(Nat) /\ wire \in Seq(Nat) /\ Grows(received \o wire)
          /\ wire # <<>> /\ wire \in Seq(1..taken) /\ taken' = taken
          /\ received' = Append(received, Head(wire))
      BY <2>1, <2>3, StreamTyped DEF HubReceive, StreamInv, Stream, TypeOK
    <3>2. Head(wire) \in 1..taken BY <3>1, HeadInSet
    <3>3. Channel!LastHanded \in Nat /\ Channel!LastHanded < Head(wire)
      BY <3>1, <3>2, HeadAfterLast DEF Channel!LastHanded
    <3>4. Head(wire) \in Channel!LastHanded + 1 .. taken
      BY <3>2, <3>3
    <3> QED BY <3>1, <3>4 DEF Channel!Hand
  <2>4. CASE DeviceStep \/ Drop \/ Age \/ Stabilise \/ Restart \/ UNCHANGED clientVars
    <3>1. Work => UNCHANGED <<taken, received>> BY DEF Work, clientHistory
    <3> QED BY <2>4, <3>1
            DEF DeviceStep, DoWork, Wait, OpenLink, OpenFails, Refuse, Accept, Expire, Subscribe,
                SubscribeAck, Publish, PublishFails, WriteFails, Boot, Connected, KeepConnecting,
                SendConfirmed, GiveUp, KeepSending, Drop, Age, Stabilise, Restart,
                clientVars, clientHistory
  <2> QED BY <2>2, <2>3, <2>4 DEF Next
<1> QED BY <1>1, <1>2, <1>3, PTL DEF Spec, HubOrder, Channel!Spec

-----------------------------------------------------------------------------
(* What a good network carries.                                             *)

LEMMA ElementsOfConcat ==
    ASSUME NEW S, NEW s \in Seq(S), NEW t \in Seq(S)
    PROVE  Elements(s) \cup Elements(t) \subseteq Elements(s \o t)
<1>1. /\ DOMAIN s = 1 .. Len(s) /\ DOMAIN t = 1 .. Len(t) /\ Len(s) \in Nat /\ Len(t) \in Nat
      /\ DOMAIN (s \o t) = 1 .. Len(s) + Len(t)
      /\ \A i \in DOMAIN s : i \in DOMAIN (s \o t) /\ (s \o t)[i] = s[i]
      /\ \A i \in DOMAIN t : Len(s) + i \in DOMAIN (s \o t) /\ (s \o t)[Len(s) + i] = t[i]
  OBVIOUS
<1>2. Elements(s) \subseteq Elements(s \o t)
  BY <1>1 DEF Elements
<1>3. Elements(t) \subseteq Elements(s \o t)
  BY <1>1 DEF Elements
<1> QED BY <1>2, <1>3

LEMMA ElementsOfTail ==
    ASSUME NEW S, NEW s \in Seq(S), s # <<>>
    PROVE  Elements(s) \subseteq {Head(s)} \cup Elements(Tail(s))
<1>1. /\ DOMAIN s = 1 .. Len(s) /\ Len(s) \in Nat /\ Len(s) > 0 /\ s[1] = Head(s)
      /\ DOMAIN Tail(s) = 1 .. Len(s) - 1
      /\ \A i \in DOMAIN Tail(s) : Tail(s)[i] = s[i + 1]
  OBVIOUS
<1>2. ASSUME NEW i \in DOMAIN s, i # 1
      PROVE  s[i] \in Elements(Tail(s))
  <2>1. i - 1 \in DOMAIN Tail(s) /\ (i - 1) + 1 = i
    BY <1>1, <1>2
  <2>2. Tail(s)[i - 1] = s[i]
    BY <1>1, <2>1
  <2> QED BY <2>1, <2>2 DEF Elements
<1>3. \A i \in DOMAIN s : s[i] \in {Head(s)} \cup Elements(Tail(s))
  BY <1>1, <1>2
<1> QED BY <1>3 DEF Elements

\* A step that leaves the caller's message and what was given alone.
LEMMA GoodKept ==
    ASSUME GoodInv, goodStart' = goodStart, event' = event, Arrived \subseteq Arrived',
           pc' \in {"boot", "idle"} => pc \in {"boot", "idle"},
           OnItsWay /\ event.msg \in goodStart /\ event.msg \notin Arrived' => OnItsWay'
    PROVE  GoodInv'
  BY DEF GoodInv, GoodStartArrives

\* A message that is on its way and has not arrived keeps the clock still.
LEMMA NotInVain ==
    ASSUME OnItsWay, Work
    PROVE  since' = 0 /\ handle' = handle /\ stable' = stable /\ event' = event
           /\ listened' = listened
<1>1. ~InVain
  <2>1. CASE pc \in {"connecting", "connectCheck"}
    BY <2>1 DEF OnItsWay, Work, Working, InVain, Accepted
  <2>2. CASE waitingToSend = <<event>>
    <3>1. <<event>> # <<>> OBVIOUS
    <3> QED BY <2>2, <3>1 DEF InVain
  <2>3. CASE event.msg \in Elements(wire)
    BY <2>3, ElementsOfEmpty DEF InVain
  <2> QED BY <2>1, <2>2, <2>3 DEF OnItsWay
<1> QED BY <1>1 DEF OnItsWay, Work, Elapse, clientHistory

\* A DoWork call brings it a step further.
LEMMA WorkCarries ==
    ASSUME ClientInv, OnItsWay, DoWork
    PROVE  OnItsWay'
<1>1. Work
  BY DEF DoWork, Wait, OpenLink, OpenFails, Refuse, Accept, Expire, Subscribe, SubscribeAck,
         Publish, PublishFails, WriteFails
<1>2. /\ since' = 0 /\ handle' = handle /\ stable' = stable /\ event' = event
      /\ listened' = listened
      /\ stable /\ handle /\ (link \in Accepted => peer /\ ~aged)
      /\ pc' = IF pc = "connecting" THEN "connectCheck" ELSE "sendCheck"
      /\ pc \in {"connecting", "sending"}
  BY <1>1, NotInVain DEF OnItsWay, Work, Working
<1>3. OpenLink \/ Accept \/ Subscribe \/ Publish
  BY <1>2 DEF DoWork, Wait, OpenFails, Refuse, Expire, SubscribeAck, PublishFails, WriteFails,
              Usable, Accepted
<1>4. CASE pc = "connecting"
  <2>1. listened /\ link \notin Accepted
    BY <1>4 DEF OnItsWay
  <2>2. OpenLink \/ Accept
    BY <1>3, <2>1 DEF Subscribe, Publish, Usable, Accepted
  <2>3. CASE OpenLink
    BY <1>2, <1>4, <2>1, <2>3 DEF OpenLink, OnItsWay, Accepted
  <2>4. CASE Accept
    BY <1>2, <1>4, <2>1, <2>4 DEF Accept, OnItsWay, Authenticated, Accepted
  <2> QED BY <2>2, <2>3, <2>4
<1>5. CASE pc = "sending"
  <2>1. ~resetClient /\ (waitingToSend = <<event>> \/ (link \in Accepted /\ event.msg \in Elements(wire)))
    BY <1>5 DEF OnItsWay
  <2>2. pc' = "sendCheck"
    BY <1>2, <1>5
  <2>3. CASE OpenLink
    BY <1>2, <2>1, <2>2, <2>3 DEF OpenLink, OnItsWay, Accepted, lists
  <2>4. CASE Accept
    BY <1>2, <2>1, <2>2, <2>4 DEF Accept, OnItsWay, Authenticated, Accepted, lists
  <2>5. CASE Subscribe
    <3>1. link \in Accepted /\ ~aged /\ peer /\ link' \in Accepted
      BY <1>2, <2>5 DEF Subscribe, Usable, Accepted
    <3>2. UNCHANGED <<resetClient, aged, waitingToSend, peer, wire>>
      BY <2>5 DEF Subscribe, lists, network
    <3> QED BY <1>2, <2>1, <2>2, <3>1, <3>2 DEF OnItsWay
  <2>6. CASE Publish
    <3>1. /\ link' = link /\ link \in Accepted /\ ~aged /\ peer /\ peer' = peer /\ aged' = aged
          /\ resetClient' = resetClient
      BY <1>2, <2>6 DEF Publish, Usable
    <3>2. PICK again \in OverdueLists :
            wire' = wire \o Numbers(again) \o Numbers(waitingToSend)
      BY <2>6, <3>1 DEF Publish
    <3>3. /\ wire \in Seq(1..taken) /\ Numbers(again) \in Seq(1..taken)
          /\ waitingToSend \in Seq([msg: 1..taken, id: Int])
      BY OverdueNumbers, ClientAssumption DEF ClientInv, TypeOK, Event
    <3>4. Numbers(waitingToSend) \in Seq(1..taken)
      BY <3>3, NumbersInSet
    <3>5. wire \o Numbers(again) \in Seq(1..taken)
      BY <3>3
    <3>6. Elements(wire) \cup Elements(Numbers(waitingToSend)) \subseteq Elements(wire')
      BY <3>2, <3>3, <3>4, <3>5, ElementsOfConcat
    <3>7. waitingToSend = <<event>> => event.msg \in Elements(Numbers(waitingToSend))
      BY DEF Numbers, Elements
    <3>8. event.msg \in Elements(wire')
      BY <2>1, <3>6, <3>7
    <3> QED BY <1>2, <2>1, <2>2, <3>1, <3>8 DEF OnItsWay
  <2> QED BY <1>3, <2>3, <2>4, <2>5, <2>6
<1> QED BY <1>2, <1>4, <1>5

\* The hub reads what is on its way, or something before it.
LEMMA HubReceiveGood ==
    ASSUME ClientInv, GoodInv, HubReceive
    PROVE  GoodInv'
<1>1. /\ received' = Append(received, Head(wire)) /\ wire' = Tail(wire) /\ wire # <<>>
      /\ UNCHANGED <<pc, event, since, resetClient, clientConnected, handle, listened, link, aged,
                     waitingToSend, peer, stable, goodStart>>
  BY DEF HubReceive, caller, flags, sdk, lists
<1>2. wire \in Seq(1..taken) /\ received \in Seq(1..taken)
  BY DEF ClientInv, TypeOK
<1>3. Arrived' = Arrived \cup {Head(wire)}
  BY <1>1, <1>2, ElementsOfAppend DEF Arrived
<1>4. Elements(wire) \subseteq {Head(wire)} \cup Elements(wire')
  BY <1>1, <1>2, ElementsOfTail
<1>5. OnItsWay /\ event.msg \notin Arrived' => OnItsWay'
  BY <1>1, <1>3, <1>4 DEF OnItsWay
<1> QED BY <1>1, <1>3, <1>5, GoodKept

\* A message taken in a good network is queued, or waits for a connection.
LEMMA TakeGood ==
    ASSUME ClientInv, StreamInv, GoodInv, SendNow \/ Reconnect \/ SendRefused
    PROVE  GoodInv'
<1>1. TypeOK /\ Take
  BY DEF ClientInv, SendNow, Reconnect, SendRefused
<1>2. /\ pc = "idle" /\ taken' = taken + 1 /\ received' = received /\ stable' = stable
      /\ goodStart' = IF GoodConditions THEN goodStart \cup {taken'} ELSE goodStart
      /\ taken \in Nat
  BY <1>1 DEF Take, TypeOK
<1>3. event = NoEvent /\ event.msg = 0 /\ 0 \notin goodStart /\ goodStart \subseteq Arrived
  BY <1>1, <1>2 DEF GoodInv, GoodStartArrives, NoEvent, TypeOK
<1>4. /\ NextEvent.msg = taken' /\ taken' \notin goodStart /\ taken' # 0
  BY <1>1, <1>2 DEF NextEvent, TypeOK
<1>5. ASSUME ~GoodConditions, event' = NextEvent \/ event' = NoEvent,
             pc' \in {"boot", "idle"} => event' = NoEvent
      PROVE  GoodInv'
  <2>1. goodStart' = goodStart /\ Arrived' = Arrived
    BY <1>2, <1>5 DEF Arrived
  <2>2. event'.msg \notin goodStart
    BY <1>3, <1>4, <1>5 DEF NoEvent
  <2> QED BY <1>3, <1>5, <2>1, <2>2 DEF GoodInv, GoodStartArrives
<1>6. ASSUME GoodConditions, event' = NextEvent, pc' \notin {"boot", "idle"}, OnItsWay'
      PROVE  GoodInv'
  <2>1. goodStart' = goodStart \cup {taken'} /\ Arrived' = Arrived
    BY <1>2, <1>6 DEF Arrived
  <2>2. event'.msg = taken'
    BY <1>4, <1>6
  <2> QED BY <1>3, <1>6, <2>1, <2>2 DEF GoodInv, GoodStartArrives
<1> HIDE DEF NextEvent
<1>7. CASE SendNow
  <2>1. /\ handle /\ ~resetClient /\ since' = 0
        /\ UNCHANGED <<handle, resetClient, link, aged, peer, wire>>
        /\ Enqueue(NextEvent) \/ EnqueueFails
    BY <1>7 DEF SendNow, network
  <2>2. waitingToSend = <<>>
    BY <1>1, <1>2, <2>1, NonePending DEF ClientInv, OneInFlight
  <2>3. CASE GoodConditions
    <3>1. Enqueue(NextEvent)
      BY <1>2, <2>1, <2>3 DEF GoodConditions, EnqueueFails
    <3>2. pc' = "sending" /\ event' = NextEvent /\ waitingToSend' = <<NextEvent>>
      BY <2>2, <3>1 DEF Enqueue
    <3>3. OnItsWay'
      BY <1>2, <2>1, <2>3, <3>2 DEF OnItsWay, GoodConditions
    <3> QED BY <1>6, <2>3, <3>2, <3>3
  <2>4. CASE ~GoodConditions
    BY <1>5, <2>1, <2>4 DEF Enqueue, EnqueueFails
  <2> QED BY <2>3, <2>4
<1>8. CASE Reconnect
  <2>1. PICK waits \in BOOLEAN :
           /\ handle /\ resetClient /\ since' = 0 /\ NewClient(waits)
           /\ \/ waits /\ pc' = "connecting" /\ event' = NextEvent
              \/ ~waits /\ pc' = "sending" /\ event' = NextEvent
              \/ ~waits /\ pc' = "idle" /\ event' = NoEvent
    BY <1>8 DEF Reconnect
  <2>2. CASE GoodConditions
    <3>1. waits /\ handle' /\ listened' /\ link' = "down" /\ stable'
      BY <1>2, <2>1, <2>2 DEF NewClient, GoodConditions
    <3>2. OnItsWay'
      BY <2>1, <3>1 DEF OnItsWay, Accepted
    <3> QED BY <1>6, <2>1, <2>2, <3>1, <3>2
  <2>3. CASE ~GoodConditions
    BY <1>5, <2>1, <2>3
  <2> QED BY <2>2, <2>3
<1>9. CASE SendRefused
  BY <1>2, <1>3, <1>5, <1>9 DEF SendRefused, caller, GoodConditions
<1> QED BY <1>7, <1>8, <1>9

\* The end of Init's loop: a good message is queued behind nothing.
LEMMA ConnectedGood ==
    ASSUME ClientInv, StreamInv, GoodInv, Connected
    PROVE  GoodInv'
<1>1. /\ pc = "connectCheck"
      /\ UNCHANGED <<since, handle, link, aged, peer, wire, received, stable, goodStart>>
      /\ \/ pc' = "idle" /\ event' = event /\ event = NoEvent
         \/ resetClient' = FALSE /\ (Enqueue(event) \/ EnqueueFails)
  BY DEF Connected, network, clientHistory
<1>2. waitingToSend = <<>>
  BY <1>1, NonePending DEF ClientInv, OneInFlight
<1>3. Arrived' = Arrived
  BY <1>1 DEF Arrived
<1>4. CASE pc' = "idle" /\ event' = event /\ event = NoEvent
  <2>1. event'.msg \notin goodStart'
    BY <1>1, <1>4 DEF NoEvent, ClientInv, TypeOK
  <2> QED BY <1>1, <1>3, <1>4, <2>1 DEF GoodInv, GoodStartArrives
<1>5. CASE resetClient' = FALSE /\ Enqueue(event)
  <2>1. pc' = "sending" /\ event' = event /\ waitingToSend' = <<event>>
    BY <1>2, <1>5 DEF Enqueue
  <2>2. OnItsWay => OnItsWay'
    BY <1>1, <1>5, <2>1 DEF OnItsWay
  <2> QED BY <1>1, <1>3, <2>1, <2>2, GoodKept
<1>6. CASE EnqueueFails
  <2>1. event.msg \in goodStart => event.msg \in Arrived
    BY <1>1, <1>6 DEF EnqueueFails, GoodInv, OnItsWay
  <2>2. pc' = "idle" /\ event' = NoEvent
    BY <1>6 DEF EnqueueFails
  <2>3. event'.msg \notin goodStart'
    BY <1>1, <2>2 DEF NoEvent, ClientInv, TypeOK
  <2> QED BY <1>1, <1>3, <2>1, <2>2, <2>3 DEF GoodInv, GoodStartArrives
<1> QED BY <1>1, <1>4, <1>5, <1>6

\* The client stops waiting for a good message only after it has arrived.
LEMMA SendDoneGood ==
    ASSUME ClientInv, GoodInv, SendConfirmed \/ GiveUp
    PROVE  GoodInv'
<1>1. /\ pc = "sendCheck" /\ event' = NoEvent /\ received' = received /\ goodStart' = goodStart
      /\ currentTrackingId = EventConfirmed \/ since >= 1 \/ resetClient
  BY DEF SendConfirmed, GiveUp, clientHistory, TimeIsUp, EventTimeout
<1>2. ~OnItsWay \/ currentTrackingId = EventConfirmed
  BY <1>1 DEF OnItsWay
<1>3. event.msg \in goodStart => event.msg \in Arrived
  BY <1>1, <1>2 DEF GoodInv, ClientInv, ConfirmationTrue
<1>4. event'.msg \notin goodStart'
  BY <1>1 DEF NoEvent, ClientInv, TypeOK
<1>5. Arrived' = Arrived
  BY <1>1 DEF Arrived
<1> QED BY <1>1, <1>3, <1>4, <1>5 DEF GoodInv, GoodStartArrives

\* Steps that leave what is on its way where it is.
LEMMA GoodQuiet ==
    ASSUME ClientInv, GoodInv,
           Boot \/ KeepConnecting \/ KeepSending \/ Drop \/ Age \/ Stabilise
               \/ UNCHANGED clientVars
    PROVE  GoodInv'
<1>1. /\ goodStart' = goodStart /\ event' = event /\ received' = received
      /\ pc' \in {"boot", "idle"} => pc \in {"boot", "idle"}
  BY DEF Boot, NewClient, KeepConnecting, KeepSending, Drop, Age, Stabilise, clientVars, caller,
         clientHistory
<1>2. OnItsWay => OnItsWay'
  <2>1. CASE Boot \/ Drop \/ Age
    BY <2>1 DEF Boot, Drop, Age, OnItsWay
  <2>2. CASE KeepConnecting \/ KeepSending
    BY <2>2 DEF KeepConnecting, KeepSending, OnItsWay, flags, sdk, lists, network, clientHistory
  <2>3. CASE Stabilise \/ UNCHANGED clientVars
    BY <2>3 DEF Stabilise, OnItsWay, clientVars, caller, flags, sdk, lists, network, clientHistory
  <2> QED BY <2>1, <2>2, <2>3
<1>3. Arrived' = Arrived
  BY <1>1 DEF Arrived
<1> QED BY <1>1, <1>2, <1>3, GoodKept

LEMMA GoodStep ==
    ASSUME ClientInv, StreamInv, GoodInv, [Next]_clientVars
    PROVE  GoodInv'
<1>1. CASE DoWork
  <2>1. Work
    BY <1>1 DEF DoWork, Wait, OpenLink, OpenFails, Refuse, Accept, Expire, Subscribe,
                SubscribeAck, Publish, PublishFails, WriteFails
  <2>2. /\ goodStart' = goodStart /\ event' = event /\ received' = received
        /\ pc' \notin {"boot", "idle"}
    BY <2>1, WorkStage DEF ClientInv, clientHistory
  <2> QED BY <1>1, <2>2, WorkCarries, GoodKept DEF Arrived
<1>2. CASE Restart
  <2>1. /\ goodStart' \subseteq Arrived /\ Arrived' = Arrived /\ event' = NoEvent
        /\ goodStart' \subseteq goodStart
    BY <1>2 DEF Restart, GoodInv, GoodStartArrives, Arrived
  <2>2. event'.msg \notin goodStart'
    BY <2>1 DEF NoEvent, ClientInv, TypeOK
  <2> QED BY <2>1, <2>2 DEF GoodInv, GoodStartArrives
<1> QED BY <1>1, <1>2, TakeGood, ConnectedGood, SendDoneGood, HubReceiveGood, GoodQuiet
        DEF Next, DeviceStep

\* A message given to the client in a good network has arrived, or is still in the client's
\* hand and on its way: no time is lost, and it waits for the one reconnection, sits alone in
\* the queue, or is in the pipe of a connection that holds.
THEOREM GoodInvariant == Spec => []GoodInv
<1>1. Init => ClientInv /\ StreamInv /\ GoodInv
  <2> SUFFICES ASSUME Init PROVE ClientInv /\ StreamInv /\ GoodInv
    OBVIOUS
  <2>1. StreamInv
    <3>1. DOMAIN Stream = {} /\ Elements(waitingToSend) = {} /\ Len(waitingToSend) = 0
      BY ElementsOfEmpty DEF Init, Stream
    <3> HIDE DEF Stream
    <3> QED BY <3>1 DEF Init, StreamInv, Grows, Below
  <2> QED BY <2>1, InitClient DEF Init, GoodInv, GoodStartArrives
<1>2. ClientInv /\ StreamInv /\ GoodInv /\ [Next]_clientVars => (ClientInv /\ StreamInv /\ GoodInv)'
  BY ClientStep, StreamNext, GoodStep
<1> QED BY <1>1, <1>2, PTL DEF Spec

\* A message given to the client in a good network arrives: after one reconnection it is
\* queued, published and read before any time-out, whatever was lost or half set up before.
THEOREM GoodStartsArrive == Spec => []GoodStartArrives
<1>1. GoodInv => GoodStartArrives
  BY DEF GoodInv
<1> QED BY <1>1, GoodInvariant, PTL

=============================================================================
