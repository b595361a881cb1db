------------------------------ MODULE SendQueue ------------------------------
(***************************************************************************)
(* The queue between loop() of the track device and the task that sends.   *)
(*                                                                         *)
(*   loop()   sendMqttMessage: push_back, then start a task unless the     *)
(*            flag messagesSending says there is one                       *)
(*   a task   task_sendMQTTMessages: front, pop_front, send, until empty,  *)
(*            then clear the flag and end                                  *)
(*                                                                         *)
(* The two run on different cores of the ESP32 and share the std::list     *)
(* mqttMessages and the flag with no lock.  That is a data race: its       *)
(* outcomes are those of the reads and writes of the list's links in every *)
(* order, so push_back and pop_front are cut into them.  The list is a     *)
(* ring through its header (libstdc++).                                    *)
(***************************************************************************)
EXTENDS Naturals, Sequences, FiniteSets

CONSTANTS
    Nodes,          \* addresses of list nodes; a freed one is used again
    Tasks,          \* FreeRTOS tasks that may exist at the same time
    MaxMessages,    \* bound: no message is posted beyond this many
    MaxRefusals,    \* bound: how often xTaskCreatePinnedToCore may fail
    MaxRestarts     \* bound: how often the device may restart by itself

Header == "mqttMessages"

ASSUME QueueAssumption ==
    /\ Header \notin Nodes
    /\ MaxMessages \in Nat
    /\ MaxRefusals \in Nat
    /\ MaxRestarts \in Nat

VARIABLES
    next, prev,         \* the links of the header and of every node
    body,               \* body[n]: the message in node n, 0 if n is free
    messagesSending,
    post,               \* sendMqttMessage in progress: [pc, node]
    task,               \* task[t]: task_sendMQTTMessages in progress
    posted,             \* history: messages pushed so far, numbered from 1
    handed,             \* history: messages given to the MQTT client, in order
    refusals, restarts, \* history: tasks not created, restarts
    raced               \* history: a push_back has met a pop_front

list == <<next, prev, body>>
history == <<posted, handed, refusals, restarts, raced>>
queueVars == <<list, messagesSending, post, task, history>>

Ring == Nodes \cup {Header}
Free == {n \in Nodes : body[n] = 0}
Running == {t \in Tasks : task[t].pc # "none"}

IdlePost == [pc |-> "idle", node |-> Header]
NoTask == [pc |-> "none", msg |-> 0, node |-> Header, next |-> Header, prev |-> Header]

PostPcs == {"idle", "linkNext", "linkPrev", "testFlag", "start"}
TaskPcs == {"none", "testEmpty", "front", "pop", "unlinkNext", "unlinkPrev",
            "send", "clear"}

TypeOK ==
    /\ next \in [Ring -> Ring]
    /\ prev \in [Ring -> Ring]
    /\ body \in [Nodes -> Nat]
    /\ messagesSending \in BOOLEAN
    /\ post \in [pc: PostPcs, node: Ring]
    /\ task \in [Tasks -> [pc: TaskPcs, msg: Nat, node: Ring, next: Ring, prev: Ring]]
    /\ posted \in Nat
    /\ handed \in Seq(Nat)
    /\ refusals \in Nat
    /\ restarts \in Nat
    /\ raced \in BOOLEAN

\* The header of an empty list is its own neighbour.
SelfLinked == [n \in Ring |-> n]
NoBody == [n \in Nodes |-> 0]

QueueInit ==
    /\ next = SelfLinked
    /\ prev = SelfLinked
    /\ body = NoBody
    /\ messagesSending = FALSE
    /\ post = IdlePost
    /\ task = [t \in Tasks |-> NoTask]
    /\ posted = 0
    /\ handed = <<>>
    /\ refusals = 0
    /\ restarts = 0
    /\ raced = FALSE

\* A restart loses the queue, the flag and the tasks.
Reset ==
    /\ next' = SelfLinked
    /\ prev' = SelfLinked
    /\ body' = NoBody
    /\ messagesSending' = FALSE
    /\ post' = IdlePost
    /\ task' = [t \in Tasks |-> NoTask]
    /\ raced' = FALSE
    /\ UNCHANGED <<posted, handed>>

At(t, pc) == task[t].pc = pc

\* In the middle of push_back, of pop_front.
Pushing == post.pc \in {"linkNext", "linkPrev"}
Popping(t) == task[t].pc \in {"unlinkNext", "unlinkPrev"}

-----------------------------------------------------------------------------
(* loop(): sendMqttMessage.                                                 *)

\* getJSON, and push_back's new node with a copy of it: it points to the header
\* and back to what the header says is the last node.
NewNode(n) ==
    /\ post.pc = "idle"
    /\ posted < MaxMessages
    /\ n \in Free
    /\ posted' = posted + 1
    /\ body' = [body EXCEPT ![n] = posted']
    /\ next' = [next EXCEPT ![n] = Header]
    /\ prev' = [prev EXCEPT ![n] = prev[Header]]
    /\ post' = [pc |-> "linkNext", node |-> n]
    /\ raced' = (raced \/ \E t \in Tasks : Popping(t))
    /\ UNCHANGED <<messagesSending, task, handed, refusals, restarts>>

\* Wrong variants stand beside the definitions they distort; the runs must tell
\* each of them from the code.
WrongLinkNextOfFirst ==
    /\ post.pc = "linkNext"
    /\ next' = [next EXCEPT ![next[Header]] = post.node]
    /\ post' = [post EXCEPT !.pc = "linkPrev"]
    /\ UNCHANGED <<prev, body, messagesSending, task, history>>

\* The header's last node, read again, points to the new one.  If it has been
\* freed since, the write goes to memory nobody reads.
LinkNext ==
    /\ post.pc = "linkNext"
    /\ next' = [next EXCEPT ![prev[Header]] = post.node]
    /\ post' = [post EXCEPT !.pc = "linkPrev"]
    /\ UNCHANGED <<prev, body, messagesSending, task, history>>

LinkPrev ==
    /\ post.pc = "linkPrev"
    /\ prev' = [prev EXCEPT ![Header] = post.node]
    /\ post' = [post EXCEPT !.pc = "testFlag"]
    /\ UNCHANGED <<next, body, messagesSending, task, history>>

WrongTestFlagAlwaysStarts ==
    /\ post.pc = "testFlag"
    /\ post' = [post EXCEPT !.pc = "start"]
    /\ UNCHANGED <<list, messagesSending, task, history>>

\* if (!messagesSending)
TestFlag ==
    /\ post.pc = "testFlag"
    /\ post' = IF messagesSending THEN IdlePost ELSE [post EXCEPT !.pc = "start"]
    /\ UNCHANGED <<list, messagesSending, task, history>>

\* messagesSending = true; xTaskCreatePinnedToCore, whose result is not looked at
StartTask ==
    /\ post.pc = "start"
    /\ messagesSending' = TRUE
    /\ \/ /\ \E t \in Tasks \ Running : task' = [task EXCEPT ![t].pc = "testEmpty"]
          /\ UNCHANGED refusals
       \/ /\ refusals < MaxRefusals
          /\ refusals' = refusals + 1
          /\ UNCHANGED task
    /\ post' = IdlePost
    /\ UNCHANGED <<list, posted, handed, restarts, raced>>

-----------------------------------------------------------------------------
(* A task: task_sendMQTTMessages.                                           *)

\* while (!mqttMessages.empty())
TestEmpty(t) ==
    /\ At(t, "testEmpty")
    /\ task' = [task EXCEPT ![t].pc = IF next[Header] = Header THEN "clear" ELSE "front"]
    /\ UNCHANGED <<list, messagesSending, post, history>>

\* String bodyMessage = mqttMessages.front()
Front(t) ==
    /\ At(t, "front")
    /\ next[Header] \notin Free
    /\ task' = [task EXCEPT ![t] = [NoTask EXCEPT !.pc = "pop", !.msg = body[next[Header]]]]
    /\ UNCHANGED <<list, messagesSending, post, history>>

\* front() of a freed node copies freed memory, and pop_front frees it again:
\* the heap is corrupt, and the device panics and restarts.
Panic(t) ==
    /\ At(t, "front")
    /\ next[Header] \in Free
    /\ Reset
    /\ UNCHANGED <<refusals, restarts>>

\* pop_back in place of pop_front.
WrongPopLast(t) ==
    /\ At(t, "pop")
    /\ LET n == prev[Header] IN
       task' = [task EXCEPT ![t] = [pc |-> "unlinkNext", msg |-> task[t].msg, node |-> n,
                                    next |-> next[n], prev |-> prev[n]]]
    /\ raced' = (raced \/ Pushing)
    /\ UNCHANGED <<list, messagesSending, post, posted, handed, refusals, restarts>>

\* pop_front reads the first node and both its links,
Pop(t) ==
    /\ At(t, "pop")
    /\ LET n == next[Header] IN
       task' = [task EXCEPT ![t] = [pc |-> "unlinkNext", msg |-> task[t].msg, node |-> n,
                                    next |-> next[n], prev |-> prev[n]]]
    /\ raced' = (raced \/ Pushing)
    /\ UNCHANGED <<list, messagesSending, post, posted, handed, refusals, restarts>>

\* ... joins its neighbours
UnlinkNext(t) ==
    /\ At(t, "unlinkNext")
    /\ next' = [next EXCEPT ![task[t].prev] = task[t].next]
    /\ task' = [task EXCEPT ![t].pc = "unlinkPrev"]
    /\ UNCHANGED <<prev, body, messagesSending, post, history>>

\* ... and frees it.
UnlinkPrev(t) ==
    /\ At(t, "unlinkPrev")
    /\ prev' = [prev EXCEPT ![task[t].next] = task[t].prev]
    /\ body' = [body EXCEPT ![task[t].node] = 0]
    /\ task' = [task EXCEPT ![t] = [NoTask EXCEPT !.pc = "send", !.msg = task[t].msg]]
    /\ UNCHANGED <<next, messagesSending, post, history>>

\* Esp32MQTTClient_SendEventInstance, whose result is not looked at, and delay(2000)
Send(t) ==
    /\ At(t, "send")
    /\ handed' = Append(handed, task[t].msg)
    /\ task' = [task EXCEPT ![t] = [NoTask EXCEPT !.pc = "testEmpty"]]
    /\ UNCHANGED <<list, messagesSending, post, posted, refusals, restarts, raced>>

WrongClearFlagForgotten(t) ==
    /\ At(t, "clear")
    /\ task' = [task EXCEPT ![t] = NoTask]
    /\ UNCHANGED <<list, messagesSending, post, history>>

\* messagesSending = false; vTaskDelete(NULL)
ClearFlag(t) ==
    /\ At(t, "clear")
    /\ messagesSending' = FALSE
    /\ task' = [task EXCEPT ![t] = NoTask]
    /\ UNCHANGED <<list, post, history>>

-----------------------------------------------------------------------------
\* Power loss, the reset button, a watchdog.
Restart ==
    /\ restarts < MaxRestarts
    /\ restarts' = restarts + 1
    /\ Reset
    /\ UNCHANGED refusals

PostStep == LinkNext \/ LinkPrev \/ TestFlag \/ StartTask

SendStep(t) ==
    \/ TestEmpty(t) \/ Front(t) \/ Pop(t) \/ UnlinkNext(t) \/ UnlinkPrev(t)
    \/ Send(t) \/ ClearFlag(t)

TaskStep(t) == SendStep(t) \/ Panic(t)

QueueNext ==
    \/ \E n \in Nodes : NewNode(n)
    \/ PostStep
    \/ \E t \in Tasks : TaskStep(t)
    \/ Restart

\* Laps are not fair: nobody has to drive.
QueueSpec == QueueInit /\ [][QueueNext]_queueVars

\* loop() and the tasks run on cores of their own, and sending a message ends
\* with a time-out at the latest.
FairQueueSpec ==
    /\ QueueSpec
    /\ WF_queueVars(PostStep)
    /\ \A t \in Tasks : WF_queueVars(TaskStep(t))

-----------------------------------------------------------------------------
(* What the code gets right.                                                *)

\* Never two tasks that take messages off the list: the flag is read and set
\* with no lock, but only by loop() while no task runs.
OneSender == \A t, u \in Running : t = u

\* The flag is set while a task runs, and otherwise only after a task could not
\* be created (then it stays set, and nothing is sent until a restart).
FlagTellsSender ==
    /\ Running # {} => messagesSending
    /\ messagesSending => Running # {} \/ refusals > 0

\* Between the test of the flag and the start of a task, no other one starts.
StartsAlone == post.pc = "start" => Running = {}

\* front() is never called on an empty list, which would be undefined.
FrontHasNode ==
    /\ Pushing => post.node \in Nodes
    /\ \A t \in Tasks : At(t, "front") => next[Header] # Header

\* The inductive invariant of the sending task.
SenderInv == TypeOK /\ OneSender /\ FlagTellsSender /\ StartsAlone /\ FrontHasNode

\* The race on the list may lose messages, and the whole list, but it never has
\* the device send a message twice or two messages in the wrong order, across
\* restarts too.
Channel == INSTANCE ReportChannel
KeepsOrder == Channel!Spec

\* Unless a task could not be created, the flag is clear again and again: every
\* burst of messages ends, torn list or not, and a later lap can start a task.
FlagComesBack == []<>(messagesSending => refusals > 0)

\* Every node in use is linked both ways and its message is older than the next one's;
\* so the nodes in use are those on the list, and it is in the order of the pushes.
Linked(n) ==
    /\ next[n] \notin Free /\ prev[next[n]] = n
    /\ prev[n] \notin Free /\ next[prev[n]] = n
    /\ next[n] # Header => body[n] < body[next[n]]

\* While nobody is in the middle of push_back or pop_front, no message is lost from the
\* list and none has changed places, unless a pop_front has met a push_back (then an
\* empty list may have dropped a message that nobody ever sends).
LostOnlyInRace ==
    ~raced /\ ~Pushing /\ (\A t \in Tasks : ~Popping(t))
        => \A n \in Nodes \ Free : Linked(n)

-----------------------------------------------------------------------------
(* The inductive invariant behind KeepsOrder.                               *)

Used == Nodes \ Free

LastHanded == IF handed = <<>> THEN 0 ELSE handed[Len(handed)]

\* If n is a node in use, its message was posted after m.
Newer(m, n) == n \in Used => m < body[n]

\* The node at which a push_back continues, once it is done with its own.
Last == IF post.pc = "linkPrev" THEN post.node ELSE prev[Header]

\* The nodes in use from f on, without one that is not linked yet.  Those older
\* than f are off the list: a race has lost them.
From(f) == {n \in Used : body[f] <= body[n] /\ ~(post.pc = "linkNext" /\ n = post.node)}

\* From f the links lead from message to newer message up to the last one.
Chain(f) ==
    /\ f \in From(f) /\ Last \in From(f)
    /\ \A n \in From(f) :
          /\ body[n] <= body[Last]
          /\ IF n = Last THEN next[n] = Header
             ELSE next[n] \in From(f) /\ body[n] < body[next[n]]

\* A node whose push_back has not linked it yet is on no list and the newest.
UnlinkedNode ==
    post.pc = "linkNext" =>
        /\ post.node \in Used /\ body[post.node] = posted /\ next[post.node] = Header
        /\ post.node # next[Header]
        /\ LastHanded < posted
        /\ \A t \in Tasks : task[t].msg < posted /\ (Popping(t) => task[t].node # post.node)

EmptyList == next[Header] = Header /\ prev[Header] = Header /\ post.pc # "linkPrev"
ChainedList == next[Header] \in Used /\ prev[next[Header]] = Header /\ Chain(next[Header])

\* A task in the middle of pop_front: the rest of the list is in order, or there was
\* none when it looked, and what is pushed now is lost with the node it takes off.
OrderlyPop(q) ==
    /\ q.prev = Header
    /\ q.pc = "unlinkPrev" => next[Header] = q.next
    /\ IF q.next = Header THEN prev[Header] # Header \/ post.pc = "linkPrev"
       ELSE q.next \in Used /\ q.msg < body[q.next] /\ Chain(q.next)

Sound ==
    /\ UnlinkedNode
    /\ (\A t \in Tasks : ~Popping(t)) => EmptyList \/ ChainedList
    /\ \A t \in Tasks : Popping(t) => OrderlyPop(task[t])

\* The list after some races: the header's next never changes again, since neither
\* prev of the header nor that of its first node leads to the header.
Torn ==
    /\ prev[Header] # Header \/ post.pc = "linkPrev"
    /\ next[Header] # Header => prev[next[Header]] # Header
    /\ \A t \in Tasks : Popping(t) => task[t].prev # Header

\* A message in the hands of a task is newer than all handed before, and what the
\* header leads to is newer still, once the node it came in is freed.
MessagesInOrder ==
    /\ LastHanded <= posted
    /\ \A n \in Nodes : body[n] <= posted
    /\ \A m, n \in Used : body[m] = body[n] => m = n
    /\ (\A t \in Tasks : task[t].msg = 0) => Newer(LastHanded, next[Header])
    /\ \A t \in Tasks :
          /\ task[t].pc \in {"none", "testEmpty", "front", "clear"} => task[t].msg = 0
          /\ task[t].pc \in {"pop", "unlinkNext", "unlinkPrev", "send"} =>
                LastHanded < task[t].msg /\ task[t].msg <= posted
          /\ At(t, "pop") => next[Header] \in Used /\ body[next[Header]] = task[t].msg
          /\ Popping(t) => task[t].node \in Used /\ body[task[t].node] = task[t].msg
          /\ At(t, "unlinkNext") => next[Header] = task[t].node
          /\ At(t, "unlinkPrev") =>
                next[Header] = task[t].node \/ Newer(task[t].msg, next[Header])
          /\ At(t, "send") => Newer(task[t].msg, next[Header])

OrderInv == SenderInv /\ MessagesInOrder /\ (Sound \/ Torn)

\* The inductive invariant behind LostOnlyInRace: with no race, members and the header
\* are a doubly linked ring, but for what a push_back or pop_front in progress has written.
LinkedRing(members, nextOf) ==
    \A n \in members \cup {Header} :
        /\ nextOf[n] \in members \cup {Header} /\ prev[nextOf[n]] = n
        /\ prev[n] \in members \cup {Header} /\ nextOf[prev[n]] = n
        /\ n # Header /\ nextOf[n] # Header => body[n] < body[nextOf[n]]

IntactPush ==
    LET p == post.node IN
    /\ \A t \in Tasks : ~Popping(t)
    /\ p \in Used /\ body[p] = posted /\ next[p] = Header /\ prev[p] = prev[Header]
    /\ IF post.pc = "linkNext" THEN LinkedRing(Used \ {p}, next)
       ELSE /\ next[prev[Header]] = p
            /\ LinkedRing(Used \ {p}, [next EXCEPT ![prev[Header]] = Header])

IntactPop(q) ==
    /\ q.node \in Used /\ q.next = next[q.node] /\ q.prev = prev[q.node]
    /\ IF q.pc = "unlinkNext" THEN LinkedRing(Used, next)
       ELSE /\ next[q.prev] = q.next
            /\ LinkedRing(Used, [next EXCEPT ![q.prev] = q.node])

Intact ==
    /\ Pushing => IntactPush
    /\ \A t \in Tasks : Popping(t) => IntactPop(task[t])
    /\ ~Pushing /\ (\A t \in Tasks : ~Popping(t)) => LinkedRing(Used, next)

RaceInv == OrderInv /\ (~raced => Intact)

-----------------------------------------------------------------------------
(* What README.md:13 promises: "to not loose any message".                  *)

\* What is on the list is sent.  It is not: a task that has found the list empty
\* and has not cleared the flag yet leaves the message pushed in between.
ListDrains == (next[Header] # Header) ~> (next[Header] = Header)

=============================================================================
