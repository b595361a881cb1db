------------------------------ MODULE MqttClient ------------------------------
(***************************************************************************)
(* The MQTT client of the track device (Esp32MQTTClient.cpp) on top of the *)
(* Azure SDK, and the IoT hub at the other end.                            *)
(*                                                                         *)
(* One task sends one message at a time: SendEventOnce reconnects if the   *)
(* last send said so, queues the message and calls DoWork until the hub    *)
(* has confirmed it, ten seconds are over or the connection is reported    *)
(* broken.  Nobody calls DoWork between two messages.  A DoWork call is    *)
(* one step here; what the network answers, and when, is open.             *)
(***************************************************************************)
EXTENDS Integers, Sequences

CONSTANTS
    MaxMessages,    \* bound: no message is given to the client beyond this many
    MaxRestarts     \* bound: how often the device may restart

ASSUME ClientAssumption == MaxMessages \in Nat /\ MaxRestarts \in Nat

\* Time is counted in tens of seconds.
EventTimeout == 1       \* EVENT_TIMEOUT_MS
ConnectTimeout == 3     \* CONNECT_TIMEOUT_MS
ResendTimeout == 6      \* RESEND_TIMEOUT_VALUE_MIN
MaxSince == 8           \* bound of the clock; the time-outs stay below it

\* Values of currentTrackingId that are not ids.
EventConfirmed == -2
EventFailed == -3

VARIABLES
    pc, event,          \* where the one caller is, and the message in its hands
    since,              \* time since it started to send, or to connect
    trackingId, currentTrackingId, clientConnected, resetClient,
    handle,             \* iotHubClientHandle is not NULL
    listened,           \* the connection status callback is set
    link,               \* the state of the transport
    aged,               \* the connection is older than the SAS token may be
    waitingToSend,      \* the events the SDK has not published, in order
    waitingForAck,      \* those it has, and when
    peer,               \* the other end of the connection is still there
    wire, acks,         \* on their way: messages to the hub, PUBACKs to the device
    received,           \* history: what the hub got, in order
    taken, confirmed,   \* history: messages given to the client, those it returned true for
    stable,             \* history: from now on the network is good
    goodStart,          \* history: messages it was given under good conditions
    restarts

caller == <<pc, event, since>>
flags == <<trackingId, currentTrackingId, clientConnected, resetClient>>
lists == <<waitingToSend, waitingForAck>>
sdk == <<handle, listened, link, aged, lists>>
network == <<peer, wire, acks>>
clientHistory == <<received, taken, confirmed, stable, goodStart, restarts>>
clientVars == <<caller, flags, sdk, network, clientHistory>>

NoEvent == [msg |-> 0, id |-> -1]
Accepted == {"connack", "subscribing", "suback", "publish"}
Links == {"down", "opening"} \cup Accepted
Pcs == {"boot", "idle", "connecting", "connectCheck", "sending", "sendCheck"}

Elements(s) == {s[i] : i \in DOMAIN s}
Pending == Elements(waitingToSend) \cup waitingForAck
Ids(events) == {e.id : e \in events}

-----------------------------------------------------------------------------
(* Callbacks of the SDK.                                                    *)

\* SendConfirmationCallback for the events of these ids.
WrongAfterConfirmationAnyResult(current, ids, ok) ==
    IF current \in ids THEN EventConfirmed ELSE current

AfterConfirmation(current, ids, ok) ==
    IF current \notin ids THEN current
    ELSE IF ok THEN EventConfirmed ELSE EventFailed

\* ConnectionStatusCallback: NO_NETWORK and EXPIRED_SAS_TOKEN ask for a reset, the
\* other refusals do not.
Unauthenticated(reset) ==
    IF listened
    THEN /\ clientConnected' = FALSE
         /\ resetClient' = (resetClient \/ reset)
    ELSE UNCHANGED <<clientConnected, resetClient>>

Authenticated ==
    /\ clientConnected' = (clientConnected \/ listened)
    /\ UNCHANGED resetClient

-----------------------------------------------------------------------------
(* IoTHubClient_LL_DoWork.                                                  *)

Working == pc \in {"connecting", "sending"}

\* Once the network is stable, time goes by only while nothing is under way.
InVain ==
    /\ link = "publish"
    /\ waitingToSend = <<>> /\ wire = <<>> /\ acks = {}

\* The call and the sleep before it take up to ten seconds.
Elapse ==
    \/ since' = since
    \/ /\ stable => InVain
       /\ since < MaxSince
       /\ since' = since + 1

\* What every DoWork has in common.
Work ==
    /\ Working
    /\ Elapse
    /\ pc' = IF pc = "connecting" THEN "connectCheck" ELSE "sendCheck"
    /\ UNCHANGED <<event, trackingId, handle, listened, clientHistory>>

\* The transport waits for its next attempt, or for an answer.
Wait ==
    /\ Work
    /\ link \in {"down", "opening"} /\ ~stable
    /\ UNCHANGED <<currentTrackingId, clientConnected, resetClient, link, aged, lists, network>>

\* InitializeConnection: SendMqttConnectMsg opens a connection.
OpenLink ==
    /\ Work
    /\ link = "down"
    /\ link' = "opening"
    /\ UNCHANGED <<currentTrackingId, clientConnected, resetClient, aged, lists, network>>

\* The TLS connection fails, or the token has expired before the attempt.
OpenFails ==
    /\ Work
    /\ link \in {"down", "opening"} /\ ~stable
    /\ link' = "down"
    /\ Unauthenticated(TRUE)
    /\ UNCHANGED <<currentTrackingId, aged, lists, network>>

\* CONNACK with a refusal that may be tried again (the credentials are constant): the
\* device is disabled, or, which is not called back, the server is unavailable.
Refuse ==
    /\ Work
    /\ link = "opening" /\ ~stable
    /\ link' = "down"
    /\ Unauthenticated(FALSE) \/ UNCHANGED <<clientConnected, resetClient>>
    /\ UNCHANGED <<currentTrackingId, aged, lists, network>>

\* CONNACK: the hub gives up an older connection of the same device, with what is
\* still on its way there.
Accept ==
    /\ Work
    /\ link = "opening"
    /\ link' = "connack" /\ aged' = FALSE
    /\ Authenticated
    /\ peer' = TRUE /\ wire' = <<>> /\ acks' = {}
    /\ UNCHANGED <<currentTrackingId, lists>>

\* InitializeConnection: a connection older than the SAS token may be is closed.
Expire ==
    /\ Work
    /\ link \in Accepted /\ aged
    /\ link' = "down"
    /\ Unauthenticated(TRUE)
    /\ UNCHANGED <<currentTrackingId, aged, lists, network>>

Usable == link \in Accepted /\ ~aged

\* SUBSCRIBE is sent once; the next call goes on without waiting for SUBACK.
Subscribe ==
    /\ Work
    /\ Usable /\ link # "publish"
    /\ link' = IF link = "connack" THEN "subscribing" ELSE "publish"
    /\ UNCHANGED <<currentTrackingId, clientConnected, resetClient, aged, lists, network>>

\* SUBACK is read, sooner or later.
SubscribeAck ==
    /\ Work
    /\ Usable /\ link \in {"subscribing", "publish"} /\ ~stable
    /\ link' = "suback"
    /\ UNCHANGED <<currentTrackingId, clientConnected, resetClient, aged, lists, network>>

\* Published events the hub has not acknowledged for a minute are published again,
\* in the order of the list, which is that of the messages.  (The SDK would do so
\* twice, and the time of the second comes after MaxSince.)
Overdue == {e \in waitingForAck : since - e.at > ResendTimeout}

InOrder(s) == \A i, j \in DOMAIN s : i < j => s[i].msg < s[j].msg

OverdueLists ==
    {s \in UNION {[1..n -> Overdue] : n \in 0..MaxMessages} : Elements(s) = Overdue /\ InOrder(s)}

AtNow(events) == {[msg |-> e.msg, id |-> e.id, at |-> since] : e \in events}
Numbers(s) == [i \in DOMAIN s |-> s[i].msg]

\* publish_mqtt_telemetry_msg, and the PUBACKs that mqtt_client_dowork reads
\* afterwards: a PUBACK completes the event of its packet id.
Publish ==
    /\ Work
    /\ Usable /\ link = "publish"
    /\ \E again \in OverdueLists :
          wire' = IF peer THEN wire \o Numbers(again) \o Numbers(waitingToSend) ELSE wire
    /\ waitingToSend' = <<>>
    /\ \E read \in SUBSET acks :
          /\ stable => read = acks
          /\ acks' = acks \ read
          /\ LET all == (waitingForAck \ Overdue) \cup AtNow(Overdue \cup Elements(waitingToSend))
                 done == {e \in all : e.msg \in read}
             IN  /\ waitingForAck' = all \ done
                 /\ currentTrackingId' = AfterConfirmation(currentTrackingId, Ids(done), TRUE)
    /\ UNCHANGED <<clientConnected, resetClient, link, aged, peer>>

\* No memory for the packet: the event is completed with an error.
PublishFails ==
    /\ Work
    /\ Usable /\ link = "publish" /\ waitingToSend # <<>> /\ ~stable
    /\ waitingToSend' = <<>>
    /\ currentTrackingId' = AfterConfirmation(currentTrackingId, Ids(Elements(waitingToSend)), FALSE)
    /\ UNCHANGED <<clientConnected, resetClient, link, aged, waitingForAck, network>>

\* Writing to a connection whose other end has gone may fail, and only this is
\* noticed: read errors are ignored.  What was to be published counts as published.
WriteFails ==
    /\ Work
    /\ Usable /\ ~peer
    /\ link \in {"connack", "suback"} \/ (link = "publish" /\ waitingToSend # <<>>)
    /\ link' = "down"
    /\ Unauthenticated(TRUE)
    /\ IF link = "publish"
       THEN /\ waitingToSend' = <<>>
            /\ waitingForAck' = waitingForAck \cup AtNow(Elements(waitingToSend))
       ELSE UNCHANGED lists
    /\ UNCHANGED <<currentTrackingId, aged, network>>

DoWork ==
    \/ Wait \/ OpenLink \/ OpenFails \/ Refuse \/ Accept \/ Expire
    \/ Subscribe \/ SubscribeAck \/ Publish \/ PublishFails \/ WriteFails

-----------------------------------------------------------------------------
(* SendEventOnce, Init and Close.                                           *)

\* IoTHubClient_LL_SendEventAsync and what becomes of the event in hand; without
\* a handle, or without memory, SendEventOnce returns false.
Enqueue(e) ==
    /\ handle' /\ waitingToSend' = Append(waitingToSend, e)
    /\ pc' = "sending" /\ event' = e

EnqueueFails ==
    /\ handle' => ~stable
    /\ pc' = "idle" /\ event' = NoEvent
    /\ UNCHANGED waitingToSend

GoodConditions == stable /\ handle /\ (resetClient \/ link \notin Accepted \/ (peer /\ ~aged))

Take ==
    /\ pc = "idle" /\ taken < MaxMessages
    /\ taken' = taken + 1
    /\ goodStart' = IF GoodConditions THEN goodStart \cup {taken'} ELSE goodStart
    /\ UNCHANGED <<received, confirmed, stable, restarts>>

\* iotHubClientHandle is NULL: nothing is tried, not even to connect.
SendRefused ==
    /\ Take
    /\ ~handle
    /\ UNCHANGED <<caller, flags, sdk, network>>

NextEvent == [msg |-> taken + 1, id |-> trackingId]

SendNow ==
    /\ Take
    /\ handle /\ ~resetClient
    /\ trackingId' = trackingId + 1 /\ currentTrackingId' = trackingId
    /\ since' = 0
    /\ UNCHANGED handle
    /\ Enqueue(NextEvent) \/ EnqueueFails
    /\ UNCHANGED <<clientConnected, resetClient, listened, link, aged, waitingForAck, network>>

\* Esp32MQTTClient_Init creates a client, and waits to be connected when every call
\* succeeds.  When one fails it returns at once: with no handle, or with a handle and no
\* status callback yet, or with both.  Only trackingId is reset.
NewClient(waits) ==
    /\ trackingId' = 0
    /\ link' = "down" /\ aged' = FALSE
    /\ waitingForAck' = {}
    /\ IF waits THEN handle' = TRUE /\ listened' = TRUE
       ELSE ~stable /\ handle' \in BOOLEAN /\ listened' \in {FALSE, handle'}

\* CheckConnection: Close has the events of the old client called back, against the
\* id of the new one, before Init makes a new client.
Reconnect ==
    /\ Take
    /\ handle /\ resetClient
    /\ currentTrackingId' = AfterConfirmation(trackingId, Ids(Pending), FALSE)
    /\ since' = 0
    /\ \E waits \in BOOLEAN :
          /\ NewClient(waits)
          /\ IF waits
             THEN /\ pc' = "connecting" /\ event' = NextEvent
                  /\ waitingToSend' = <<>>
                  /\ UNCHANGED resetClient
             ELSE /\ resetClient' = FALSE
                  /\ \/ /\ handle' /\ waitingToSend' = <<NextEvent>>
                        /\ pc' = "sending" /\ event' = NextEvent
                     \/ pc' = "idle" /\ event' = NoEvent /\ waitingToSend' = <<>>
    /\ UNCHANGED <<clientConnected, network>>

\* initMQTT: Init in setup().
Boot ==
    /\ pc = "boot"
    /\ since' = 0
    /\ \E waits \in BOOLEAN :
          NewClient(waits) /\ pc' = IF waits THEN "connecting" ELSE "idle"
    /\ UNCHANGED <<event, currentTrackingId, clientConnected, resetClient, waitingToSend,
                   network, clientHistory>>

WrongConnectedKeepsReset ==
    /\ pc = "connectCheck"
    /\ clientConnected \/ since >= ConnectTimeout
    /\ UNCHANGED handle
    /\ IF event = NoEvent THEN pc' = "idle" /\ UNCHANGED <<event, waitingToSend>>
       ELSE Enqueue(event) \/ EnqueueFails
    /\ resetClient' = (resetClient \/ ~clientConnected)
    /\ UNCHANGED <<since, trackingId, currentTrackingId, clientConnected, listened, link, aged,
                   waitingForAck, network, clientHistory>>

\* The end of Init's loop.  A time-out asks for a reset, which CheckConnection
\* forgets; it queues the event in any case.
Connected ==
    /\ pc = "connectCheck"
    /\ clientConnected \/ since >= ConnectTimeout
    /\ UNCHANGED handle
    /\ IF event = NoEvent
       THEN /\ pc' = "idle"
            /\ resetClient' = (resetClient \/ ~clientConnected)
            /\ UNCHANGED <<event, waitingToSend>>
       ELSE /\ resetClient' = FALSE
            /\ Enqueue(event) \/ EnqueueFails
    /\ UNCHANGED <<since, trackingId, currentTrackingId, clientConnected, listened, link, aged,
                   waitingForAck, network, clientHistory>>

KeepConnecting ==
    /\ pc = "connectCheck"
    /\ ~clientConnected /\ since < ConnectTimeout
    /\ pc' = "connecting"
    /\ UNCHANGED <<event, since, flags, sdk, network, clientHistory>>

SendConfirmed ==
    /\ pc = "sendCheck" /\ currentTrackingId = EventConfirmed
    /\ confirmed' = confirmed \cup {event.msg}
    /\ pc' = "idle" /\ event' = NoEvent
    /\ UNCHANGED <<since, flags, sdk, network, received, taken, stable, goodStart, restarts>>

WrongTimeIsUpNever == FALSE
WrongTimeIsUpTooLate == since > ResendTimeout + 1

TimeIsUp == since >= EventTimeout

WrongGiveUpNoReset ==
    /\ pc = "sendCheck" /\ currentTrackingId # EventConfirmed
    /\ TimeIsUp \/ resetClient
    /\ pc' = "idle" /\ event' = NoEvent
    /\ UNCHANGED <<since, flags, sdk, network, clientHistory>>

\* The message is given up, and the next one has to reconnect.
GiveUp ==
    /\ pc = "sendCheck" /\ currentTrackingId # EventConfirmed
    /\ TimeIsUp \/ resetClient
    /\ resetClient' = TRUE
    /\ pc' = "idle" /\ event' = NoEvent
    /\ UNCHANGED <<since, trackingId, currentTrackingId, clientConnected, sdk, network,
                   clientHistory>>

KeepSending ==
    /\ pc = "sendCheck" /\ currentTrackingId # EventConfirmed
    /\ ~TimeIsUp /\ ~resetClient
    /\ pc' = "sending"
    /\ UNCHANGED <<event, since, flags, sdk, network, clientHistory>>

DeviceStep == Boot \/ DoWork \/ Connected \/ KeepConnecting \/ SendConfirmed \/ GiveUp \/ KeepSending

-----------------------------------------------------------------------------
(* The hub, the network and the device's power.                             *)

\* A PUBACK goes back if the connection the message came on is still the current one.
HubReceive ==
    /\ wire # <<>>
    /\ received' = Append(received, Head(wire))
    /\ wire' = Tail(wire)
    /\ acks' = IF peer /\ link \in Accepted THEN acks \cup {Head(wire)} ELSE acks
    /\ UNCHANGED <<caller, flags, sdk, peer, taken, confirmed, stable, goodStart, restarts>>

\* Also in a good network the hub drops a connection it has not heard of for longer
\* than the keep-alive time, and connections grow old, between two messages.
Drop ==
    /\ peer /\ (stable => pc = "idle")
    /\ peer' = FALSE /\ wire' = <<>> /\ acks' = {}
    /\ UNCHANGED <<caller, flags, sdk, clientHistory>>

Age ==
    /\ link \in Accepted /\ ~aged /\ (stable => pc = "idle")
    /\ aged' = TRUE
    /\ UNCHANGED <<caller, flags, handle, listened, link, lists, network, clientHistory>>

Stabilise ==
    /\ ~stable
    /\ stable' = TRUE
    /\ UNCHANGED <<caller, flags, sdk, network, received, taken, confirmed, goodStart, restarts>>

\* A restart loses everything but what is on its way to the hub.
Restart ==
    /\ restarts < MaxRestarts
    /\ restarts' = restarts + 1
    /\ pc' = "boot" /\ event' = NoEvent /\ since' = 0
    /\ trackingId' = 0 /\ currentTrackingId' = -1
    /\ clientConnected' = FALSE /\ resetClient' = FALSE
    /\ handle' = FALSE /\ listened' = FALSE /\ link' = "down" /\ aged' = FALSE
    /\ waitingToSend' = <<>> /\ waitingForAck' = {}
    /\ peer' = FALSE /\ acks' = {}
    /\ goodStart' = goodStart \ {event.msg}
    /\ UNCHANGED <<wire, received, taken, confirmed, stable>>

Init ==
    /\ pc = "boot" /\ event = NoEvent /\ since = 0
    /\ trackingId = 0 /\ currentTrackingId = -1
    /\ clientConnected = FALSE /\ resetClient = FALSE
    /\ handle = FALSE /\ listened = FALSE /\ link = "down" /\ aged = FALSE
    /\ waitingToSend = <<>> /\ waitingForAck = {}
    /\ peer = FALSE /\ acks = {}
    /\ wire = <<>>
    /\ received = <<>> /\ taken = 0 /\ confirmed = {}
    /\ stable = FALSE /\ goodStart = {} /\ restarts = 0

Next ==
    \/ SendRefused \/ SendNow \/ Reconnect
    \/ DeviceStep
    \/ HubReceive \/ Drop \/ Age \/ Stabilise \/ Restart

\* The task runs, the hub reads what it gets, and time passes while the task waits.
Spec ==
    /\ Init /\ [][Next]_clientVars
    /\ WF_clientVars(DeviceStep)
    /\ WF_clientVars(HubReceive)
    /\ SF_clientVars(DoWork /\ since' > since)

-----------------------------------------------------------------------------
Event == [msg: 1..taken, id: Int]
SentEvent == [msg: 1..taken, id: Int, at: Nat]

TypeOK ==
    /\ pc \in Pcs /\ event \in Event \cup {NoEvent} /\ since \in Nat
    /\ trackingId \in Nat /\ currentTrackingId \in Int
    /\ clientConnected \in BOOLEAN /\ resetClient \in BOOLEAN
    /\ handle \in BOOLEAN /\ listened \in BOOLEAN
    /\ link \in Links /\ aged \in BOOLEAN
    /\ waitingToSend \in Seq(Event) /\ waitingForAck \subseteq SentEvent
    /\ peer \in BOOLEAN /\ wire \in Seq(1..taken) /\ acks \subseteq 1..taken
    /\ received \in Seq(1..taken) /\ taken \in Nat /\ confirmed \subseteq 1..taken
    /\ stable \in BOOLEAN /\ goodStart \subseteq 1..taken

Arrived == Elements(received)

\* At most one event is in the SDK's lists, that of the message in hand; before the
\* next one is queued they are empty, or the client is to be reset.
OneInFlight ==
    /\ pc \in {"boot", "connecting", "connectCheck"} => Pending = {}
    /\ pc = "idle" /\ handle => Pending = {} \/ resetClient
    /\ pc \in {"sending", "sendCheck"} => \A e \in Pending : e.msg = event.msg

\* An acknowledgement on its way is for a message that arrived, and the event that
\* counts as confirmed is the one in hand.
ConfirmationTrue ==
    /\ acks \subseteq Arrived
    /\ pc \in {"boot", "connecting", "connectCheck"} => currentTrackingId # EventConfirmed
    /\ pc \in {"sending", "sendCheck"} /\ currentTrackingId = EventConfirmed =>
          event.msg \in Arrived /\ Pending = {}

\* The client returns true only for a message the hub has got, although tracking
\* ids start again from 0 with every reconnection and the events of the old client
\* are called back after the new one has its id.
ConfirmedArrived == confirmed \subseteq Arrived

\* The inductive invariant.
ClientInv == TypeOK /\ OneInFlight /\ ConfirmationTrue /\ ConfirmedArrived

\* A message the client is given while the network is good and the connection, if
\* there is one, neither dropped by the hub nor too old, arrives: whatever was lost,
\* timed out or half set up before is forgotten with one reconnection.
GoodStartArrives == goodStart \ {event.msg} \subseteq Arrived

\* Such a message in hand either has arrived or is on its way: no time is lost and the
\* connection holds, so nothing can make the client give it up.
OnItsWay ==
    /\ stable /\ handle /\ since = 0
    /\ link \in Accepted => peer /\ ~aged
    /\ \/ pc \in {"connecting", "connectCheck"} /\ listened
          /\ (link \in Accepted => pc = "connectCheck" /\ clientConnected)
       \/ pc \in {"sending", "sendCheck"} /\ ~resetClient
          /\ (waitingToSend = <<event>> \/ (link \in Accepted /\ event.msg \in Elements(wire)))

GoodInv ==
    /\ GoodStartArrives
    /\ pc \in {"boot", "idle"} => event = NoEvent
    /\ event.msg \in goodStart => event.msg \in Arrived \/ OnItsWay

\* The hub gets the messages in order and none twice, though the SDK publishes
\* again what is not acknowledged: the client gives up a message, and its
\* connection, before that.
Channel == INSTANCE ReportChannel WITH posted <- taken, handed <- received
HubOrder == Channel!Spec

\* A send ends, in the worst network.  The queue's task relies on it.
SendEnds == []<>(pc \in {"boot", "idle"})

=============================================================================
