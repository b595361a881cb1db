--------------------------- MODULE SendQueueProofs ---------------------------
(***************************************************************************)
(* What the queue guarantees, whatever the number of nodes, tasks,         *)
(* messages, refusals and restarts: at most one task sends; the race on    *)
(* the list never repeats or reorders messages; and only a push_back that  *)
(* meets a pop_front loses one.                                            *)
(***************************************************************************)
EXTENDS SendQueue, TLAPS

USE DEF PostPcs, TaskPcs, Ring, IdlePost, NoTask, Pushing

-----------------------------------------------------------------------------
(* One task.                                                                *)

\* The invariant holds when the device starts.
LEMMA InitSender ==
    ASSUME QueueInit
    PROVE  SenderInv
<1>1. TypeOK
  <2>1. next \in [Ring -> Ring] /\ prev \in [Ring -> Ring] /\ body \in [Nodes -> Nat]
    BY DEF QueueInit, SelfLinked, NoBody
  <2>2. task \in [Tasks -> [pc: TaskPcs, msg: Nat, node: Ring, next: Ring, prev: Ring]]
    BY DEF QueueInit
  <2>3. handed \in Seq(Nat)
    BY DEF QueueInit
  <2> QED BY <2>1, <2>2, <2>3 DEF QueueInit, TypeOK
<1>2. Running = {}
  BY DEF QueueInit, Running
<1>3. FrontHasNode
  BY DEF QueueInit, FrontHasNode, At
<1> QED BY <1>1, <1>2, <1>3 DEF QueueInit, SenderInv, OneSender, FlagTellsSender, StartsAlone

\* What a restart and a panic have in common.
LEMMA ResetSender ==
    ASSUME SenderInv, Reset, refusals' \in Nat, restarts' \in Nat
    PROVE  SenderInv'
<1>1. TypeOK'
  <2>1. /\ next' \in [Ring -> Ring]
        /\ prev' \in [Ring -> Ring]
        /\ body' \in [Nodes -> Nat]
    BY DEF Reset, SelfLinked, NoBody
  <2>2. task' \in [Tasks -> [pc: TaskPcs, msg: Nat, node: Ring, next: Ring, prev: Ring]]
    BY DEF Reset
  <2> QED BY <2>1, <2>2 DEF Reset, TypeOK, SenderInv
<1>2. Running' = {}
  BY DEF Reset, Running
<1>3. FrontHasNode'
  BY DEF Reset, FrontHasNode, At
<1> QED BY <1>1, <1>2, <1>3 DEF Reset, SenderInv, OneSender, FlagTellsSender, StartsAlone

\* sendMqttMessage: a task is started only when the flag was clear, hence with
\* none running.
LEMMA PostSender ==
    ASSUME SenderInv, (\E n \in Nodes : NewNode(n)) \/ PostStep
    PROVE  SenderInv'
<1> USE DEF SenderInv, TypeOK, Running
<1>1. ASSUME NEW n \in Nodes, NewNode(n) PROVE SenderInv'
  <2>1. TypeOK' BY <1>1 DEF NewNode
  <2>2. Running' = Running BY <1>1 DEF NewNode
  <2>3. FrontHasNode' BY <1>1, QueueAssumption DEF NewNode, FrontHasNode, At
  <2> QED BY <1>1, <2>1, <2>2, <2>3 DEF NewNode, OneSender, FlagTellsSender, StartsAlone
<1>2. ASSUME LinkNext \/ LinkPrev PROVE SenderInv'
  <2>1. TypeOK' BY <1>2 DEF LinkNext, LinkPrev, history
  <2>2. Running' = Running BY <1>2 DEF LinkNext, LinkPrev
  <2>3. FrontHasNode'
    BY <1>2, QueueAssumption DEF LinkNext, LinkPrev, FrontHasNode, At
  <2> QED BY <1>2, <2>1, <2>2, <2>3
          DEF LinkNext, LinkPrev, history, OneSender, FlagTellsSender, StartsAlone
<1>3. ASSUME TestFlag PROVE SenderInv'
  <2>1. TypeOK' BY <1>3 DEF TestFlag, list, history
  <2>2. Running' = Running BY <1>3 DEF TestFlag
  <2>3. FrontHasNode' BY <1>3 DEF TestFlag, list, FrontHasNode, At
  <2> QED BY <1>3, <2>1, <2>2, <2>3
          DEF TestFlag, list, history, OneSender, FlagTellsSender, StartsAlone
<1>4. ASSUME StartTask PROVE SenderInv'
  <2>1. Running = {} BY <1>4 DEF StartTask, StartsAlone
  <2>2. post' = IdlePost /\ messagesSending' = TRUE BY <1>4 DEF StartTask
  <2>3. UNCHANGED <<next, prev, body, posted, handed, restarts, raced>>
    BY <1>4 DEF StartTask, list
  <2>4. CASE refusals' = refusals /\ \E t \in Tasks : task' = [task EXCEPT ![t].pc = "testEmpty"]
    <3>1. PICK t \in Tasks : task' = [task EXCEPT ![t].pc = "testEmpty"] BY <2>4
    <3>2. \A u \in Tasks : u # t => task'[u] = task[u] BY <3>1
    <3>3. task'[t].pc = "testEmpty" BY <3>1
    <3>4. \A u \in Tasks : task'[u].pc # "none" <=> u = t
      BY <2>1, <3>2, <3>3
    <3>5. Running' = {t} BY <3>4
    <3>6. TypeOK'
      <4>1. task' \in [Tasks -> [pc: TaskPcs, msg: Nat, node: Ring, next: Ring, prev: Ring]]
        BY <3>1, ZenonT(60)
      <4> QED BY <2>2, <2>3, <2>4, <4>1
    <3>7. FrontHasNode' BY <2>2, <2>1, <3>2, <3>3 DEF FrontHasNode, At
    <3> QED BY <2>2, <3>5, <3>6, <3>7 DEF OneSender, FlagTellsSender, StartsAlone
  <2>5. CASE refusals' = refusals + 1 /\ UNCHANGED task
    <3>1. Running' = {} BY <2>1, <2>5
    <3>2. refusals' > 0 BY <2>5
    <3>3. OneSender' BY <3>1 DEF OneSender
    <3>4. FlagTellsSender' BY <2>2, <3>1, <3>2 DEF FlagTellsSender
    <3>5. StartsAlone' BY <2>2 DEF StartsAlone
    <3>6. TypeOK' BY <2>2, <2>3, <2>5
    <3>7. FrontHasNode' BY <2>2, <2>3, <2>5 DEF FrontHasNode, At
    <3> QED BY <3>3, <3>4, <3>5, <3>6, <3>7
  <2> QED BY <1>4, <2>4, <2>5 DEF StartTask
<1> QED BY <1>1, <1>2, <1>3, <1>4 DEF PostStep

\* A task that goes on stays the only one; the one that ends clears the flag.
LEMMA TaskSender ==
    ASSUME SenderInv, NEW t \in Tasks, TaskStep(t)
    PROVE  SenderInv'
<1> USE DEF SenderInv, TypeOK, Running, At
<1>1. ASSUME TestEmpty(t) \/ Front(t) \/ Pop(t) \/ UnlinkNext(t) \/ UnlinkPrev(t) \/ Send(t)
      PROVE  SenderInv'
  <2>1. TypeOK'
    <3>1. ASSUME TestEmpty(t) PROVE TypeOK'
      <4>1. PICK pc \in {"clear", "front"} : task' = [task EXCEPT ![t].pc = pc]
        BY <3>1 DEF TestEmpty
      <4>2. task' \in [Tasks -> [pc: TaskPcs, msg: Nat, node: Ring, next: Ring, prev: Ring]]
        BY <4>1, ZenonT(60)
      <4> QED BY <3>1, <4>2 DEF TestEmpty, list, history
    <3>2. ASSUME Front(t) PROVE TypeOK'
      <4>1. next[Header] \in Nodes BY <3>2 DEF Front, FrontHasNode
      <4>2. body[next[Header]] \in Nat BY <4>1
      <4>3. task' \in [Tasks -> [pc: TaskPcs, msg: Nat, node: Ring, next: Ring, prev: Ring]]
        BY <3>2, <4>2 DEF Front
      <4> QED BY <3>2, <4>3 DEF Front, list, history
    <3>3. ASSUME Pop(t) PROVE TypeOK' BY <3>3, ZenonT(60) DEF Pop, list, history
    <3>4. ASSUME UnlinkNext(t) PROVE TypeOK' BY <3>4, ZenonT(60) DEF UnlinkNext, history
    <3>5. ASSUME UnlinkPrev(t) PROVE TypeOK' BY <3>5, ZenonT(60) DEF UnlinkPrev, history
    <3>6. ASSUME Send(t) PROVE TypeOK' BY <3>6, SMTT(30) DEF Send, list
    <3> QED BY <1>1, <3>1, <3>2, <3>3, <3>4, <3>5, <3>6
  <2>2. Running' = Running
    <3>1. task[t].pc # "none" /\ task'[t].pc # "none"
      <4>1. CASE TestEmpty(t) BY <4>1 DEF TestEmpty
      <4>2. CASE Front(t) BY <4>2 DEF Front
      <4>3. CASE Pop(t) BY <4>3 DEF Pop
      <4>4. CASE UnlinkNext(t) BY <4>4 DEF UnlinkNext
      <4>5. CASE UnlinkPrev(t) BY <4>5 DEF UnlinkPrev
      <4>6. CASE Send(t) BY <4>6 DEF Send
      <4> QED BY <1>1, <4>1, <4>2, <4>3, <4>4, <4>5, <4>6
    <3>2. \A u \in Tasks : u # t => task'[u] = task[u]
      BY <1>1 DEF TestEmpty, Front, Pop, UnlinkNext, UnlinkPrev, Send
    <3> QED BY <3>1, <3>2
  <2>3. UNCHANGED <<messagesSending, post, refusals>>
    BY <1>1 DEF TestEmpty, Front, Pop, UnlinkNext, UnlinkPrev, Send, list, history
  <2>4. \A u \in Tasks : u # t => ~At(u, "front")
    <3>1. task[t].pc # "none"
      BY <1>1 DEF TestEmpty, Front, Pop, UnlinkNext, UnlinkPrev, Send
    <3> QED BY <3>1 DEF OneSender
  <2>5. \A u \in Tasks : u # t => task'[u] = task[u]
    BY <1>1 DEF TestEmpty, Front, Pop, UnlinkNext, UnlinkPrev, Send
  <2>6. At(t, "front")' => next'[Header] # Header
    <3>1. CASE TestEmpty(t) BY <3>1 DEF TestEmpty, list
    <3>2. CASE Front(t) BY <3>2 DEF Front
    <3>3. CASE Pop(t) BY <3>3 DEF Pop
    <3>4. CASE UnlinkNext(t) BY <3>4 DEF UnlinkNext
    <3>5. CASE UnlinkPrev(t) BY <3>5 DEF UnlinkPrev
    <3>6. CASE Send(t) BY <3>6 DEF Send
    <3> QED BY <1>1, <3>1, <3>2, <3>3, <3>4, <3>5, <3>6
  <2>7. FrontHasNode'
    BY <2>3, <2>4, <2>5, <2>6 DEF FrontHasNode
  <2> QED BY <2>1, <2>2, <2>3, <2>7 DEF OneSender, FlagTellsSender, StartsAlone
<1>2. ASSUME Panic(t) PROVE SenderInv'
  BY <1>2, ResetSender DEF Panic
<1>3. ASSUME ClearFlag(t) PROVE SenderInv'
  <2>1. TypeOK' BY <1>3 DEF ClearFlag, list, history
  <2>2. t \in Running BY <1>3 DEF ClearFlag
  <2>3. \A u \in Tasks : task'[u].pc = "none"
    BY <1>3, <2>2 DEF ClearFlag, OneSender
  <2>4. Running' = {} BY <2>3
  <2>5. FrontHasNode' BY <1>3, <2>3 DEF ClearFlag, list, FrontHasNode
  <2> QED BY <1>3, <2>1, <2>4, <2>5
          DEF ClearFlag, list, history, OneSender, FlagTellsSender, StartsAlone
<1> QED BY <1>1, <1>2, <1>3 DEF TaskStep, SendStep

\* One task at most sends, and the flag tells so: whatever the order in which
\* loop() and the task read and write the list and the flag.
THEOREM SenderInvariant == QueueSpec => []SenderInv
<1>1. QueueInit => SenderInv
  BY InitSender
<1>2. SenderInv /\ [QueueNext]_queueVars => SenderInv'
  <2> SUFFICES ASSUME SenderInv, [QueueNext]_queueVars PROVE SenderInv' OBVIOUS
  <2>1. CASE Restart
    BY <2>1, ResetSender, SMTT(30) DEF Restart, SenderInv, TypeOK
  <2>2. CASE UNCHANGED queueVars
    BY <2>2 DEF queueVars, list, history, SenderInv, TypeOK, OneSender, FlagTellsSender,
                StartsAlone, FrontHasNode, At, Running
  <2> QED BY <2>1, <2>2, PostSender, TaskSender DEF QueueNext
<1> QED BY <1>1, <1>2, PTL DEF QueueSpec

\* Never two tasks that take messages off the list.
THEOREM OneTaskSends == QueueSpec => []OneSender
<1>1. SenderInv => OneSender
  BY DEF SenderInv
<1> QED BY <1>1, SenderInvariant, PTL

-----------------------------------------------------------------------------
(* The order of the messages.                                               *)

HIDE DEF PostPcs, TaskPcs, IdlePost, NoTask, Pushing

\* A task that does something is the only one: the others hold nothing.
LEMMA OthersRest ==
    ASSUME OrderInv, NEW t \in Tasks, task[t].pc # "none",
           \A u \in Tasks \ {t} : task'[u] = task[u]
    PROVE  \A u \in Tasks \ {t} : /\ task[u].pc = "none" /\ task'[u].pc = "none"
                                  /\ task[u].msg = 0 /\ task'[u].msg = 0
                                  /\ ~Popping(u) /\ ~Popping(u)'
  BY DEF OrderInv, SenderInv, OneSender, Running, MessagesInOrder, Popping

\* Addresses, and what they hold.
LEMMA Memory ==
    ASSUME TypeOK
    PROVE  /\ Header \notin Used /\ Used \subseteq Nodes
           /\ \A n \in Nodes : body[n] \in Nat
           /\ \A n \in Nodes : n \in Used <=> body[n] # 0
           /\ \A n \in Ring : next[n] \in Ring /\ prev[n] \in Ring
           /\ \A n \in Ring : n = Header \/ n \in Nodes
           /\ \A t \in Tasks : task[t].msg \in Nat
           /\ LastHanded \in Nat /\ posted \in Nat
  BY QueueAssumption DEF TypeOK, Used, Free, LastHanded

\* No task holds a message that was not posted.
LEMMA HeldPosted ==
    ASSUME OrderInv
    PROVE  \A t \in Tasks : task[t].msg <= posted
<1>1. TypeOK BY DEF OrderInv, SenderInv
<1>2. \A t \in Tasks : task[t].pc \in TaskPcs BY <1>1 DEF TypeOK
<1> QED BY <1>1, <1>2, Memory DEF OrderInv, MessagesInOrder, TaskPcs

\* A chain stays one if its nodes keep their links and messages.
LEMMA ChainKept ==
    ASSUME NEW f, Chain(f), Last' = Last, From(f)' = From(f),
           \A n \in From(f) : next'[n] = next[n] /\ body'[n] = body[n]
    PROVE  Chain(f)'
  BY DEF Chain

-----------------------------------------------------------------------------
(* loop().                                                                  *)

\* The new node is on no list, and newer than everything.
LEMMA NewNodeOrder ==
    ASSUME OrderInv, NEW n \in Nodes, NewNode(n)
    PROVE  MessagesInOrder' /\ (Sound \/ Torn)'
<1>1. TypeOK BY DEF OrderInv, SenderInv
<1>2. /\ n \notin Used /\ n # Header
      /\ post.pc = "idle" /\ post' = [pc |-> "linkNext", node |-> n]
      /\ posted' = posted + 1
      /\ body'[n] = posted + 1 /\ \A m \in Nodes \ {n} : body'[m] = body[m]
      /\ next'[n] = Header /\ \A m \in Ring \ {n} : next'[m] = next[m]
      /\ prev'[n] = prev[Header] /\ \A m \in Ring \ {n} : prev'[m] = prev[m]
      /\ task' = task /\ handed' = handed
  BY <1>1, QueueAssumption DEF NewNode, TypeOK, Used, Free
<1>3. Used' = Used \cup {n} BY <1>1, <1>2, Memory DEF Used, Free
<1>4. LastHanded' = LastHanded BY <1>2 DEF LastHanded
<1>5. next'[Header] = next[Header] /\ prev'[Header] = prev[Header]
  BY <1>2
<1>p. \A t \in Tasks : (Popping(t)' <=> Popping(t)) /\ \A pc \in TaskPcs : At(t, pc)' <=> At(t, pc)
  BY <1>2 DEF Popping, At
<1>6. MessagesInOrder'
  BY <1>1, <1>2, <1>3, <1>4, <1>5, Memory DEF MessagesInOrder, OrderInv, Newer, At, Popping
<1>7. CASE Torn
  <2>1. prev[Header] # Header BY <1>2, <1>7 DEF Torn
  <2>2. next[Header] # Header => prev'[next[Header]] # Header
    BY <1>1, <1>2, <1>7, <2>1, Memory DEF Torn
  <2> QED BY <1>2, <1>5, <1>7, <1>p, <2>1, <2>2, <1>6 DEF Torn
<1>8. CASE Sound
  <2>1. Last' = Last BY <1>2, <1>5 DEF Last
  <2>2. \A f \in Used : From(f)' = From(f)
    BY <1>1, <1>2, <1>3, Memory DEF From
  <2>3. \A f \in Used : Chain(f) => Chain(f)'
    <3> SUFFICES ASSUME NEW f \in Used, Chain(f) PROVE Chain(f)' OBVIOUS
    <3>1. From(f) \subseteq Nodes \ {n} BY <1>1, <1>2, Memory DEF From
    <3> QED BY <1>2, <2>1, <2>2, <3>1, ChainKept
  <2>4. next[Header] # n
    BY <1>1, <1>2, <1>8, Memory
       DEF Sound, EmptyList, ChainedList, OrderlyPop, MessagesInOrder, OrderInv, At, Popping
  <2>5. UnlinkedNode'
    <3>1. \A t \in Tasks : task[t].msg < posted' BY <1>1, <1>2, HeldPosted, Memory
    <3>2. \A t \in Tasks : Popping(t) => task[t].node # n
      BY <1>2 DEF MessagesInOrder, OrderInv
    <3>3. LastHanded' < posted' BY <1>1, <1>2, <1>4, Memory DEF MessagesInOrder, OrderInv
    <3> QED BY <1>1, <1>2, <1>3, <1>5, <1>p, <2>4, <3>1, <3>2, <3>3, Memory DEF UnlinkedNode
  <2>6. (\A t \in Tasks : ~Popping(t)') => EmptyList' \/ ChainedList'
    BY <1>1, <1>2, <1>3, <1>5, <1>8, <1>p, <2>3, Memory DEF Sound, EmptyList, ChainedList
  <2>7. \A t \in Tasks : Popping(t)' => OrderlyPop(task[t])'
    BY <1>1, <1>2, <1>3, <1>5, <1>8, <1>p, <2>3, Memory DEF Sound, OrderlyPop
  <2> QED BY <1>6, <2>5, <2>6, <2>7 DEF Sound
<1> QED BY <1>6, <1>7, <1>8 DEF OrderInv

\* Chains look at the list, and at the node in the hands of push_back.
LEMMA ListKept ==
    ASSUME UNCHANGED list, post' = post \/ (~Pushing /\ ~Pushing')
    PROVE  /\ Used' = Used /\ Last' = Last
           /\ \A f : From(f)' = From(f) /\ (Chain(f)' <=> Chain(f))
           /\ EmptyList' <=> EmptyList
           /\ ChainedList' <=> ChainedList
<1>1. Used' = Used /\ Last' = Last BY DEF list, Used, Free, Last, Pushing
<1>2. \A f : From(f)' = From(f) BY <1>1 DEF From, list, Pushing
<1>3. \A f : Chain(f)' <=> Chain(f) BY <1>1, <1>2 DEF Chain, list
<1> QED BY <1>1, <1>2, <1>3 DEF EmptyList, ChainedList, list, Pushing

\* The node is linked behind the last one, or, if the header says that there is
\* none, becomes the first.
LEMMA LinkNextOrder ==
    ASSUME OrderInv, LinkNext
    PROVE  MessagesInOrder' /\ (Sound \/ Torn)'
<1> DEFINE p == post.node
           l == prev[Header]
<1>1. TypeOK BY DEF OrderInv, SenderInv
<1>2. /\ post.pc = "linkNext" /\ post'.pc = "linkPrev" /\ post'.node = p
      /\ next'[l] = p /\ \A m \in Ring \ {l} : next'[m] = next[m]
      /\ prev' = prev /\ body' = body /\ task' = task
      /\ posted' = posted /\ handed' = handed
  BY <1>1 DEF LinkNext, TypeOK, history
<1>3. Used' = Used /\ LastHanded' = LastHanded BY <1>2 DEF Used, Free, LastHanded
<1>4. p \in Nodes BY <1>2 DEF OrderInv, SenderInv, FrontHasNode, Pushing
<1>5. ASSUME Sound PROVE p \in Used /\ body[p] = posted /\ next[p] = Header /\ p # next[Header]
  BY <1>2, <1>5 DEF Sound, UnlinkedNode
<1>6. ASSUME Sound, NEW f \in Used, Chain(f) PROVE l \in Used /\ Chain(f)'
  <2>1. Last = l /\ Last' = p BY <1>2 DEF Last
  <2>2. From(f)' = From(f) \cup {p} /\ p \notin From(f)
    BY <1>1, <1>2, <1>3, <1>5, <1>6, Memory DEF From, OrderInv, MessagesInOrder
  <2>3. l \in From(f) /\ l \in Used /\ From(f) \subseteq Used BY <1>6, <2>1 DEF Chain, From
  <2>4. next'[p] = Header BY <1>1, <1>2, <1>4, <1>5, <1>6, <2>2, <2>3, Memory
  <2>5. \A n \in From(f) : body[n] <= posted /\ body[n] # posted
    BY <1>1, <1>5, <1>6, <2>2, <2>3, Memory DEF OrderInv, MessagesInOrder
  <2>6. \A n \in From(f) : body[n] < body[p] BY <1>1, <1>5, <1>6, <2>3, <2>5, Memory
  <2>7. \A n \in From(f) \ {l} : /\ next'[n] = next[n] /\ next[n] \in From(f)
                                 /\ body[n] < body[next[n]]
    BY <1>1, <1>2, <1>6, <2>1, <2>3, Memory DEF Chain
  <2>8. f \in From(f)' BY <1>6, <2>2 DEF Chain
  <2>9. \A n \in From(f)' : body[n] <= body[p]
    BY <1>1, <1>4, <2>2, <2>3, <2>6, Memory
  <2> QED BY <1>2, <2>1, <2>2, <2>3, <2>4, <2>6, <2>7, <2>8, <2>9 DEF Chain
<1>7. ASSUME l = Header
      PROVE  /\ Sound /\ EmptyList
             /\ \A t \in Tasks : ~Popping(t) /\ ~At(t, "pop")
  <2>1. Sound BY <1>2, <1>7 DEF OrderInv, Torn
  <2>2. \A f \in Used : ~Chain(f) BY <1>1, <1>6, <1>7, <2>1, Memory
  <2>3. \A t \in Tasks : ~Popping(t)
    BY <1>2, <1>7, <2>1, <2>2 DEF Sound, OrderlyPop
  <2>4. EmptyList BY <2>1, <2>2, <2>3 DEF Sound, ChainedList
  <2>5. \A t \in Tasks : ~At(t, "pop")
    BY <1>1, <2>4, Memory DEF EmptyList, OrderInv, MessagesInOrder
  <2> QED BY <2>1, <2>3, <2>4, <2>5
<1>8. MessagesInOrder'
  <2>1. CASE l # Header
    <3>1. next'[Header] = next[Header] BY <1>2, <2>1
    <3> QED BY <1>2, <1>3, <3>1 DEF OrderInv, MessagesInOrder, Newer, At, Popping
  <2>2. CASE l = Header
    <3>1. next'[Header] = p BY <1>2, <2>2
    <3>2. LastHanded < body[p] /\ \A t \in Tasks : task[t].msg < body[p]
      BY <1>2, <1>5, <1>7, <2>2 DEF Sound, UnlinkedNode
    <3> QED BY <1>2, <1>3, <1>7, <2>2, <3>1, <3>2
            DEF OrderInv, MessagesInOrder, Newer, At, Popping
  <2> QED BY <2>1, <2>2
<1>9. CASE Torn
  <2>1. l # Header BY <1>2, <1>9 DEF Torn
  <2>2. next'[Header] = next[Header] BY <1>2, <2>1
  <2> QED BY <1>2, <1>8, <1>9, <2>2 DEF Torn, Popping
<1>10. CASE Sound
  <2>1. UnlinkedNode' BY <1>2 DEF UnlinkedNode
  <2>2. CASE l = Header
    <3>1. next'[Header] = p BY <1>2, <2>2
    <3>2. CASE prev[p] = Header
      <4>1. From(p)' = {p}
        BY <1>1, <1>2, <1>3, <1>5, <1>10, Memory DEF From, OrderInv, MessagesInOrder
      <4>2. next'[p] = Header BY <1>1, <1>2, <1>4, <1>5, <1>10, <2>2, Memory
      <4>3. Last' = p BY <1>2 DEF Last
      <4>4. Chain(p)' BY <1>1, <1>2, <1>4, <4>1, <4>2, <4>3, Memory DEF Chain
      <4>5. Chain(next[Header])' BY <1>2, <3>1, <4>4 DEF Chain, From
      <4>6. ChainedList' BY <1>2, <1>3, <1>5, <1>10, <3>1, <3>2, <4>5 DEF ChainedList
      <4>7. \A t \in Tasks : ~Popping(t)' BY <1>2, <1>7, <2>2 DEF Popping
      <4> QED BY <1>8, <2>1, <4>6, <4>7 DEF Sound
    <3>3. CASE prev[p] # Header
      <4>1. \A t \in Tasks : ~Popping(t)' BY <1>2, <1>7, <2>2 DEF Popping
      <4> QED BY <1>2, <1>8, <3>1, <3>3, <4>1 DEF Torn
    <3> QED BY <3>2, <3>3
  <2>3. CASE l # Header
    <3>1. next'[Header] = next[Header] BY <1>2, <2>3
    <3>2. (\A t \in Tasks : ~Popping(t)') => ChainedList'
      BY <1>2, <1>3, <1>6, <1>10, <2>3, <3>1 DEF Sound, EmptyList, ChainedList, Popping, Chain, From
    <3>3. ASSUME NEW t \in Tasks, Popping(t)' PROVE OrderlyPop(task[t])'
      <4>1. OrderlyPop(task[t]) BY <1>2, <1>10, <3>3 DEF Sound, Popping
      <4>2. task[t].next # Header => Chain(task[t].next)' BY <1>2, <1>6, <1>10, <4>1 DEF OrderlyPop
      <4> QED BY <1>2, <1>3, <3>1, <4>1, <4>2 DEF OrderlyPop, Chain, From
    <3> QED BY <1>8, <2>1, <3>2, <3>3 DEF Sound
  <2> QED BY <2>2, <2>3
<1> QED BY <1>9, <1>10 DEF OrderInv

\* The header is told of the new last node.
LEMMA LinkPrevOrder ==
    ASSUME OrderInv, LinkPrev
    PROVE  MessagesInOrder' /\ (Sound \/ Torn)'
<1> DEFINE p == post.node
<1>1. TypeOK BY DEF OrderInv, SenderInv
<1>2. /\ post.pc = "linkPrev" /\ post'.pc = "testFlag" /\ post'.node = p
      /\ prev'[Header] = p /\ \A m \in Ring \ {Header} : prev'[m] = prev[m]
      /\ next' = next /\ body' = body /\ task' = task
      /\ posted' = posted /\ handed' = handed
  BY <1>1 DEF LinkPrev, TypeOK, history
<1>3. Used' = Used /\ LastHanded' = LastHanded BY <1>2 DEF Used, Free, LastHanded
<1>4. p # Header BY <1>2, QueueAssumption DEF OrderInv, SenderInv, FrontHasNode, Pushing
<1>5. MessagesInOrder'
  BY <1>2, <1>3 DEF OrderInv, MessagesInOrder, Newer, At, Popping
<1>6. CASE Torn
  <2>1. next[Header] # Header => prev'[next[Header]] # Header
    BY <1>1, <1>2, <1>6, Memory DEF Torn
  <2> QED BY <1>2, <1>4, <1>5, <1>6, <2>1 DEF Torn, Popping
<1>7. CASE Sound
  <2>1. UnlinkedNode' BY <1>2 DEF UnlinkedNode
  <2>2. Last' = Last /\ \A f : From(f)' = From(f) BY <1>2, <1>3 DEF Last, From
  <2>3. \A f : Chain(f) => Chain(f)' BY <1>2, <2>2 DEF Chain
  <2>4. (\A t \in Tasks : ~Popping(t)') => ChainedList'
    BY <1>1, <1>2, <1>3, <1>7, <2>3, Memory DEF Sound, EmptyList, ChainedList, Popping
  <2>5. \A t \in Tasks : Popping(t)' => OrderlyPop(task[t])'
    BY <1>2, <1>3, <1>4, <1>7, <2>3 DEF Sound, OrderlyPop, Popping
  <2> QED BY <1>5, <2>1, <2>4, <2>5 DEF Sound
<1> QED BY <1>6, <1>7 DEF OrderInv

\* The test of the flag and the start of a task leave the list alone.
LEMMA FlagOrder ==
    ASSUME OrderInv, TestFlag \/ StartTask
    PROVE  MessagesInOrder' /\ (Sound \/ Torn)'
<1>1. /\ UNCHANGED <<next, prev, body, posted, handed>>
      /\ post.pc \notin {"linkNext", "linkPrev"} /\ post'.pc \notin {"linkNext", "linkPrev"}
  <2>1. post \in [pc: PostPcs, node: Ring] BY DEF OrderInv, SenderInv, TypeOK
  <2>2. CASE TestFlag BY <2>1, <2>2 DEF TestFlag, list, history, IdlePost
  <2>3. CASE StartTask BY <2>1, <2>3 DEF StartTask, list, IdlePost
  <2> QED BY <2>2, <2>3
<1>2. /\ Used' = Used /\ LastHanded' = LastHanded /\ Last' = Last
      /\ \A f : Chain(f)' <=> Chain(f)
      /\ EmptyList' <=> EmptyList
      /\ ChainedList' <=> ChainedList
  <2>1. UNCHANGED list /\ ~Pushing /\ ~Pushing' BY <1>1 DEF list, Pushing
  <2> QED BY <1>1, <2>1, ListKept DEF LastHanded
<1>3. \A t \in Tasks : /\ task'[t].msg = task[t].msg
                       /\ \/ task'[t] = task[t]
                          \/ task[t].pc = "none" /\ task'[t].pc = "testEmpty"
  <2>1. \A t \in Tasks : task[t] \in [pc: TaskPcs, msg: Nat, node: Ring, next: Ring, prev: Ring]
    BY DEF OrderInv, SenderInv, TypeOK
  <2>2. ASSUME NEW u \in Tasks \ Running, task' = [task EXCEPT ![u].pc = "testEmpty"], NEW t \in Tasks
        PROVE  /\ task'[t].msg = task[t].msg
               /\ task'[t] = task[t] \/ (task[t].pc = "none" /\ task'[t].pc = "testEmpty")
    BY <2>1, <2>2 DEF OrderInv, SenderInv, TypeOK, Running
  <2>3. CASE task' = task BY <2>3
  <2> QED BY <2>2, <2>3 DEF TestFlag, StartTask
<1>4. MessagesInOrder'
  BY <1>1, <1>2, <1>3 DEF OrderInv, MessagesInOrder, Newer, At, Popping
<1>5. CASE Torn BY <1>1, <1>3, <1>4, <1>5 DEF Torn, Popping
<1>6. CASE Sound
  <2>1. UnlinkedNode' BY <1>1 DEF UnlinkedNode
  <2>2. \A t \in Tasks : Popping(t)' <=> Popping(t) BY <1>3 DEF Popping
  <2>3. \A t \in Tasks : Popping(t) => task'[t] = task[t] BY <1>3 DEF Popping
  <2>4. \A t \in Tasks : Popping(t)' => OrderlyPop(task[t])'
    BY <1>1, <1>2, <1>6, <2>2, <2>3 DEF Sound, OrderlyPop
  <2> QED BY <1>2, <1>4, <1>6, <2>1, <2>2, <2>4 DEF Sound
<1> QED BY <1>5, <1>6 DEF OrderInv

-----------------------------------------------------------------------------
(* A task.                                                                  *)

\* The steps of a task that do not write to the list, before and after a pop_front.
LEMMA ReadOrder ==
    ASSUME OrderInv, NEW t \in Tasks, task[t].pc \in {"testEmpty", "front", "send", "clear"},
           UNCHANGED <<next, prev, body, post, posted>>,
           \A u \in Tasks \ {t} : task'[u] = task[u],
           ~Popping(t)',
           LastHanded' \in {LastHanded, task[t].msg},
           task'[t].msg = 0 \/ (next[Header] \in Used /\ task'[t].msg = body[next[Header]])
    PROVE  (Sound \/ Torn)'
<1>1. TypeOK BY DEF OrderInv, SenderInv
<1>2. /\ Used' = Used /\ Last' = Last
      /\ \A f : Chain(f)' <=> Chain(f)
      /\ EmptyList' <=> EmptyList
      /\ ChainedList' <=> ChainedList
  BY ListKept DEF list
<1>3. \A u \in Tasks : ~Popping(u) /\ ~Popping(u)'
  BY OthersRest DEF Popping
<1>4. CASE Torn BY <1>2, <1>3, <1>4 DEF Torn
<1>5. CASE Sound
  <2>1. EmptyList' \/ ChainedList' BY <1>2, <1>3, <1>5 DEF Sound
  <2>2. ASSUME post.pc = "linkNext" PROVE LastHanded' < posted /\ \A u \in Tasks : task'[u].msg < posted
    <3>1. /\ post.node \in Used /\ body[post.node] = posted /\ post.node # next[Header]
          /\ LastHanded < posted
          /\ \A u \in Tasks : task[u].msg < posted
      BY <1>5, <2>2 DEF Sound, UnlinkedNode
    <3>2. LastHanded' < posted BY <3>1
    <3>3. task'[t].msg < posted
      BY <1>1, <3>1, Memory DEF OrderInv, MessagesInOrder
    <3> QED BY <3>1, <3>2, <3>3
  <2>3. UnlinkedNode' BY <1>2, <1>3, <1>5, <2>2 DEF Sound, UnlinkedNode
  <2> QED BY <1>3, <2>1, <2>3 DEF Sound
<1> QED BY <1>4, <1>5 DEF OrderInv

LEMMA TestEmptyOrder ==
    ASSUME OrderInv, NEW t \in Tasks, TestEmpty(t) \/ ClearFlag(t)
    PROVE  MessagesInOrder' /\ (Sound \/ Torn)'
<1>1. TypeOK BY DEF OrderInv, SenderInv
<1>2. /\ task[t].pc \in {"testEmpty", "clear"} /\ task[t].msg = 0
      /\ task'[t].pc \in {"none", "clear", "front"} /\ task'[t].msg = 0
      /\ \A u \in Tasks \ {t} : task'[u] = task[u]
      /\ UNCHANGED <<next, prev, body, post, posted, handed>>
  <2>1. task[t] \in [pc: TaskPcs, msg: Nat, node: Ring, next: Ring, prev: Ring] BY <1>1 DEF TypeOK
  <2>2. task[t].pc \in {"testEmpty", "clear"} /\ task[t].msg = 0
    BY DEF TestEmpty, ClearFlag, At, OrderInv, MessagesInOrder
  <2>3. CASE TestEmpty(t)
    BY <1>1, <2>1, <2>2, <2>3 DEF TestEmpty, list, history, TypeOK
  <2>4. CASE ClearFlag(t)
    BY <1>1, <2>2, <2>4 DEF ClearFlag, list, history, TypeOK, NoTask
  <2> QED BY <2>3, <2>4
<1>3. (Sound \/ Torn)' BY <1>2, ReadOrder DEF Popping, LastHanded
<1>4. \A u \in Tasks \ {t} : task'[u].pc = "none" /\ task'[u].msg = 0 /\ task[u].msg = 0
  BY <1>2, OthersRest
<1>5. Used' = Used /\ LastHanded' = LastHanded BY <1>2 DEF Used, Free, LastHanded
<1>6. MessagesInOrder'
  BY <1>2, <1>4, <1>5 DEF OrderInv, MessagesInOrder, At, Popping, Newer
<1> QED BY <1>3, <1>6

LEMMA FrontOrder ==
    ASSUME OrderInv, NEW t \in Tasks, Front(t)
    PROVE  MessagesInOrder' /\ (Sound \/ Torn)'
<1>1. TypeOK BY DEF OrderInv, SenderInv
<1>2. /\ task[t].pc = "front" /\ task[t].msg = 0
      /\ task'[t].pc = "pop" /\ task'[t].msg = body[next[Header]]
      /\ \A u \in Tasks \ {t} : task'[u] = task[u]
      /\ UNCHANGED <<next, prev, body, post, posted, handed>>
  BY <1>1 DEF Front, At, OrderInv, MessagesInOrder, list, history, TypeOK, NoTask
<1>3. next[Header] \in Used
  BY <1>1, Memory DEF Front, OrderInv, SenderInv, FrontHasNode, Used
<1>4. (Sound \/ Torn)' BY <1>2, <1>3, ReadOrder DEF Popping, LastHanded
<1>5. \A u \in Tasks \ {t} : task'[u].pc = "none" /\ task'[u].msg = 0 /\ task[u].msg = 0
  BY <1>2, OthersRest
<1>6. Used' = Used /\ LastHanded' = LastHanded BY <1>2 DEF Used, Free, LastHanded
<1>7. LastHanded < body[next[Header]] /\ body[next[Header]] <= posted
  BY <1>1, <1>2, <1>3, <1>5, Memory DEF OrderInv, MessagesInOrder, Newer
<1>8. MessagesInOrder'
  BY <1>1, <1>2, <1>3, <1>5, <1>6, <1>7, Memory DEF OrderInv, MessagesInOrder, At, Popping, Newer
<1> QED BY <1>4, <1>8

LEMMA SendOrder ==
    ASSUME OrderInv, NEW t \in Tasks, Send(t)
    PROVE  /\ MessagesInOrder' /\ (Sound \/ Torn)'
           /\ LastHanded < task[t].msg /\ task[t].msg <= posted
<1>1. TypeOK BY DEF OrderInv, SenderInv
<1>2. /\ task[t].pc = "send"
      /\ task'[t].pc = "testEmpty" /\ task'[t].msg = 0
      /\ \A u \in Tasks \ {t} : task'[u] = task[u]
      /\ UNCHANGED <<next, prev, body, post, posted>>
      /\ handed' = Append(handed, task[t].msg)
  BY <1>1 DEF Send, At, list, TypeOK, NoTask
<1>3. LastHanded' = task[t].msg
  BY <1>1, <1>2, Memory DEF LastHanded, TypeOK
<1>4. (Sound \/ Torn)' BY <1>2, <1>3, ReadOrder DEF Popping
<1>5. \A u \in Tasks \ {t} : task'[u].pc = "none" /\ task'[u].msg = 0
  BY <1>2, OthersRest
<1>6. Used' = Used BY <1>2 DEF Used, Free
<1>7. LastHanded < task[t].msg /\ task[t].msg <= posted /\ Newer(task[t].msg, next[Header])
  BY <1>2 DEF OrderInv, MessagesInOrder, At
<1>8. MessagesInOrder'
  BY <1>1, <1>2, <1>3, <1>5, <1>6, <1>7, Memory DEF OrderInv, MessagesInOrder, At, Popping, Newer
<1> QED BY <1>4, <1>7, <1>8

\* What follows the first node of a chain is a chain, unless it was the last.
LEMMA ChainTail ==
    ASSUME TypeOK, NEW f, Chain(f), f # Last
    PROVE  next[f] \in Used /\ body[f] < body[next[f]] /\ Chain(next[f])
<1>1. f \in From(f) /\ next[f] \in From(f) /\ body[f] < body[next[f]] BY DEF Chain
<1>2. From(f) \subseteq Used BY DEF From
<1>3. \A n \in From(f) : body[n] \in Nat BY <1>2, Memory
<1>4. \A n \in From(f) : n \in From(next[f]) <=> body[next[f]] <= body[n]
  BY <1>1, <1>2 DEF From
<1>5. From(next[f]) \subseteq From(f)
  BY <1>1, <1>2, <1>3, Memory DEF From
<1>6. next[f] \in From(next[f]) BY <1>1, <1>3, <1>4
<1>7. Last \in From(next[f]) BY <1>1, <1>4 DEF Chain
<1>8. \A n \in From(next[f]) : n # Last => next[n] \in From(next[f])
  BY <1>1, <1>3, <1>4, <1>5, <1>6 DEF Chain
<1> QED BY <1>1, <1>2, <1>5, <1>6, <1>7, <1>8 DEF Chain

\* pop_front takes the node whose message the task has; on a sound list that is the
\* first of its chain.
LEMMA PopOrder ==
    ASSUME OrderInv, NEW t \in Tasks, Pop(t)
    PROVE  MessagesInOrder' /\ (Sound \/ Torn)'
<1> DEFINE n == next[Header]
<1>1. TypeOK BY DEF OrderInv, SenderInv
<1>2. /\ task[t].pc = "pop" /\ task'[t].pc = "unlinkNext" /\ task'[t].msg = task[t].msg
      /\ task'[t].node = n /\ task'[t].next = next[n] /\ task'[t].prev = prev[n]
      /\ \A u \in Tasks \ {t} : task'[u] = task[u]
      /\ UNCHANGED <<next, prev, body, post, posted, handed>>
  BY <1>1 DEF Pop, At, list, TypeOK
<1>3. /\ Used' = Used /\ Last' = Last /\ LastHanded' = LastHanded
      /\ \A f : Chain(f)' <=> Chain(f)
  BY <1>2, ListKept DEF list, LastHanded
<1>4. n \in Used /\ body[n] = task[t].msg /\ LastHanded < task[t].msg /\ task[t].msg <= posted
  BY <1>2 DEF OrderInv, MessagesInOrder, At
<1>5. \A u \in Tasks \ {t} : task'[u].pc = "none" /\ task'[u].msg = 0 /\ ~Popping(u)'
  BY <1>2, OthersRest
<1>6. \A u \in Tasks : ~Popping(u) BY <1>2, OthersRest DEF Popping
<1>7. MessagesInOrder'
  BY <1>1, <1>2, <1>3, <1>4, <1>5, Memory DEF OrderInv, MessagesInOrder, At, Popping, Newer
<1>8. CASE Torn
  BY <1>1, <1>2, <1>4, <1>5, <1>7, <1>8, Memory DEF Torn
<1>9. CASE Sound
  <2>1. prev[n] = Header /\ Chain(n)
    BY <1>1, <1>4, <1>6, <1>9, Memory DEF Sound, EmptyList, ChainedList
  <2>2. UnlinkedNode'
    BY <1>2, <1>3, <1>5, <1>6, <1>9 DEF Sound, UnlinkedNode, Popping
  <2>3. OrderlyPop(task[t])'
    <3>1. CASE n = Last
      <4>1. next[n] = Header BY <2>1, <3>1 DEF Chain
      <4>2. prev[Header] # Header \/ post.pc = "linkPrev"
        BY <1>1, <1>4, <3>1, Memory DEF Last
      <4> QED BY <1>2, <2>1, <4>1, <4>2 DEF OrderlyPop
    <3>2. CASE n # Last
      <4>1. next[n] \in Used /\ body[n] < body[next[n]] /\ Chain(next[n])
        BY <1>1, <2>1, <3>2, ChainTail
      <4>2. Chain(next[n])' BY <1>2, <1>3, <4>1
      <4> QED BY <1>1, <1>2, <1>3, <1>4, <2>1, <4>1, <4>2, Memory DEF OrderlyPop
    <3> QED BY <3>1, <3>2
  <2>4. Popping(t)' BY <1>2 DEF Popping
  <2> QED BY <1>5, <1>7, <2>2, <2>3, <2>4 DEF Sound
<1> QED BY <1>8, <1>9 DEF OrderInv

\* The header leads to what follows the node, or, on a torn list, to the node still.
LEMMA UnlinkNextOrder ==
    ASSUME OrderInv, NEW t \in Tasks, UnlinkNext(t)
    PROVE  MessagesInOrder' /\ (Sound \/ Torn)'
<1> DEFINE q == task[t]
<1>1. TypeOK BY DEF OrderInv, SenderInv
<1>2. /\ q.pc = "unlinkNext" /\ task'[t].pc = "unlinkPrev" /\ task'[t].msg = q.msg
      /\ task'[t].node = q.node /\ task'[t].next = q.next /\ task'[t].prev = q.prev
      /\ \A u \in Tasks \ {t} : task'[u] = task[u]
      /\ q.prev \in Ring /\ q.next \in Ring
      /\ next'[q.prev] = q.next /\ \A m \in Ring \ {q.prev} : next'[m] = next[m]
      /\ UNCHANGED <<prev, body, post, posted, handed>>
  BY <1>1 DEF UnlinkNext, At, history, TypeOK
<1>3. Used' = Used /\ Last' = Last /\ LastHanded' = LastHanded /\ \A f : From(f)' = From(f)
  BY <1>2 DEF Used, Free, Last, LastHanded, From
<1>4. \A u \in Tasks \ {t} : task'[u].pc = "none" /\ task'[u].msg = 0 /\ ~Popping(u) /\ ~Popping(u)'
  BY <1>2, OthersRest
<1>5. Popping(t) /\ Popping(t)' BY <1>2 DEF Popping
<1>6. /\ q.node \in Used /\ body[q.node] = q.msg /\ next[Header] = q.node
      /\ LastHanded < q.msg /\ q.msg <= posted
  BY <1>2, <1>5 DEF OrderInv, MessagesInOrder, At
<1>7. ASSUME next'[Header] = q.node \/ Newer(q.msg, next'[Header]) PROVE MessagesInOrder'
  BY <1>1, <1>2, <1>3, <1>4, <1>6, <1>7, Memory DEF OrderInv, MessagesInOrder, At, Popping, Newer
<1>8. CASE Torn
  <2>1. q.prev # Header BY <1>5, <1>8 DEF Torn
  <2>2. next'[Header] = next[Header] BY <1>2, <2>1
  <2>3. MessagesInOrder' BY <1>6, <1>7, <2>2
  <2> QED BY <1>2, <1>4, <1>8, <2>1, <2>2, <2>3 DEF Torn
<1>9. CASE Sound
  <2>1. OrderlyPop(q) BY <1>5, <1>9 DEF Sound
  <2>2. next'[Header] = q.next BY <1>2, <2>1 DEF OrderlyPop
  <2>3. \A f : Chain(f) => Chain(f)'
    <3>1. \A f : \A n \in From(f) : next'[n] = next[n]
      BY <1>1, <1>2, <2>1, Memory DEF From, OrderlyPop
    <3> QED BY <1>2, <1>3, <3>1 DEF Chain
  <2>4. MessagesInOrder' BY <1>1, <1>7, <2>1, <2>2, Memory DEF OrderlyPop, Newer
  <2>5. OrderlyPop(task[t])'
    <3>1. q.next # Header => Chain(q.next)' BY <1>2, <2>1, <2>3 DEF OrderlyPop
    <3> QED BY <1>2, <1>3, <2>1, <2>2, <3>1 DEF OrderlyPop
  <2>6. UnlinkedNode'
    <3> SUFFICES ASSUME post.pc = "linkNext" PROVE UnlinkedNode'
      BY <1>2 DEF UnlinkedNode
    <3>1. /\ post.node \in Used /\ body[post.node] = posted /\ next[post.node] = Header
          /\ LastHanded < posted
          /\ \A u \in Tasks : task[u].msg < posted /\ (Popping(u) => task[u].node # post.node)
      BY <1>9 DEF Sound, UnlinkedNode
    <3>2. q.next # post.node
      BY <1>1, <2>1, <3>1, Memory DEF OrderlyPop, Chain, From
    <3>3. next'[post.node] = Header BY <1>1, <1>2, <2>1, <3>1, Memory DEF OrderlyPop
    <3>4. \A u \in Tasks : task'[u].msg < posted /\ (Popping(u)' => task'[u].node # post.node)
      BY <1>2, <1>4, <1>5, <3>1
    <3> QED BY <1>2, <1>3, <2>2, <3>1, <3>2, <3>3, <3>4 DEF UnlinkedNode
  <2> QED BY <1>4, <1>5, <2>4, <2>5, <2>6 DEF Sound
<1> QED BY <1>8, <1>9 DEF OrderInv

\* The node is freed.  What a push_back had linked behind it is lost with it.
LEMMA UnlinkPrevOrder ==
    ASSUME OrderInv, NEW t \in Tasks, UnlinkPrev(t)
    PROVE  MessagesInOrder' /\ (Sound \/ Torn)'
<1> DEFINE q == task[t]
<1>1. TypeOK BY DEF OrderInv, SenderInv
<1>2. /\ q.pc = "unlinkPrev" /\ task'[t].pc = "send" /\ task'[t].msg = q.msg
      /\ \A u \in Tasks \ {t} : task'[u] = task[u]
      /\ q.prev \in Ring /\ q.next \in Ring
      /\ prev'[q.next] = q.prev /\ \A m \in Ring \ {q.next} : prev'[m] = prev[m]
      /\ UNCHANGED <<next, post, posted, handed>>
  BY <1>1 DEF UnlinkPrev, At, history, TypeOK, NoTask
<1>3. Popping(t) BY <1>2 DEF Popping
<1>4. /\ q.node \in Used /\ body[q.node] = q.msg
      /\ next[Header] = q.node \/ Newer(q.msg, next[Header])
      /\ LastHanded < q.msg /\ q.msg <= posted
  BY <1>2, <1>3 DEF OrderInv, MessagesInOrder, At
<1>5. body'[q.node] = 0 /\ \A m \in Nodes \ {q.node} : body'[m] = body[m]
  BY <1>1, <1>4, Memory DEF UnlinkPrev, TypeOK
<1>6. Used' = Used \ {q.node} BY <1>1, <1>4, <1>5, Memory DEF Used, Free
<1>7. LastHanded' = LastHanded BY <1>2 DEF LastHanded
<1>8. \A u \in Tasks \ {t} : /\ task'[u].pc = "none" /\ task'[u].msg = 0
                             /\ ~Popping(u) /\ ~Popping(u)'
  BY <1>2, OthersRest
<1>9. ~Popping(t)' BY <1>2 DEF Popping
<1>10. MessagesInOrder'
  BY <1>1, <1>2, <1>4, <1>5, <1>6, <1>7, <1>8, Memory
     DEF OrderInv, MessagesInOrder, At, Popping, Newer
<1>11. CASE Torn
  <2>1. q.prev # Header BY <1>3, <1>11 DEF Torn
  <2> QED BY <1>1, <1>2, <1>8, <1>9, <1>10, <1>11, <2>1, Memory DEF Torn
<1>12. CASE Sound
  <2>1. OrderlyPop(q) /\ next[Header] = q.next
    BY <1>2, <1>3, <1>12 DEF Sound, OrderlyPop
  <2>2. UnlinkedNode'
    BY <1>1, <1>2, <1>3, <1>5, <1>6, <1>7, <1>8, <1>9, <1>12, Memory DEF Sound, UnlinkedNode
  <2>3. CASE q.next = Header
    <3>1. prev'[Header] = Header /\ next'[Header] = Header
      BY <1>2, <2>1, <2>3 DEF OrderlyPop
    <3>2. CASE post.pc = "linkPrev"
      BY <1>2, <1>8, <1>9, <1>10, <3>1, <3>2 DEF Torn
    <3>3. CASE post.pc # "linkPrev"
      <4>1. EmptyList' BY <1>2, <3>1, <3>3 DEF EmptyList
      <4> QED BY <1>8, <1>9, <1>10, <2>2, <4>1 DEF Sound
    <3> QED BY <3>2, <3>3
  <2>4. CASE q.next # Header
    <3> DEFINE f == q.next
    <3>1. f \in Used /\ q.msg < body[f] /\ Chain(f) BY <2>1, <2>4 DEF OrderlyPop
    <3>2. f # q.node BY <1>1, <1>4, <3>1, Memory
    <3>3. Last' = Last BY <1>1, <1>2, <2>4, Memory DEF Last
    <3>4. From(f) \subseteq Used /\ q.node \notin From(f)
      BY <1>1, <1>4, <3>1, Memory DEF From
    <3>5. ASSUME NEW g, g = f PROVE Chain(g)'
      <4>1. From(g)' = From(g)
        BY <1>1, <1>2, <1>5, <1>6, <3>1, <3>2, <3>4, <3>5, Memory DEF From
      <4>2. \A n \in From(g) : next'[n] = next[n] /\ body'[n] = body[n]
        BY <1>1, <1>2, <1>5, <3>4, <3>5, Memory
      <4> QED BY <3>1, <3>3, <3>5, <4>1, <4>2, ChainKept
    <3>6. Chain(next[Header])' BY <1>2, <2>1, <3>5
    <3>7. ChainedList'
      BY <1>2, <1>6, <2>1, <3>1, <3>2, <3>6 DEF ChainedList, OrderlyPop
    <3> QED BY <1>8, <1>9, <1>10, <2>2, <3>7 DEF Sound
  <2> QED BY <2>3, <2>4
<1> QED BY <1>11, <1>12 DEF OrderInv

-----------------------------------------------------------------------------
(* The theorems.                                                            *)

\* The empty list of a device that starts.
LEMMA EmptyOrder ==
    ASSUME /\ next = SelfLinked /\ prev = SelfLinked /\ body = NoBody
           /\ post = IdlePost /\ task = [t \in Tasks |-> NoTask],
           posted \in Nat, LastHanded <= posted
    PROVE  MessagesInOrder /\ Sound
<1>1. Used = {} BY DEF Used, Free, NoBody
<1>2. \A t \in Tasks : ~Popping(t) /\ task[t].msg = 0 /\ task[t].pc = "none"
  BY DEF Popping, NoTask
<1>3. \A n \in Nodes : body[n] = 0 BY DEF NoBody
<1>4. EmptyList BY DEF EmptyList, SelfLinked, IdlePost
<1>5. UnlinkedNode BY DEF UnlinkedNode, IdlePost
<1>6. MessagesInOrder BY <1>1, <1>2, <1>3 DEF MessagesInOrder, Newer, At
<1> QED BY <1>2, <1>4, <1>5, <1>6 DEF Sound

LEMMA ResetOrder ==
    ASSUME OrderInv, Reset
    PROVE  MessagesInOrder' /\ Sound'
<1>1. posted' \in Nat /\ LastHanded' <= posted'
  BY DEF Reset, OrderInv, SenderInv, TypeOK, MessagesInOrder, LastHanded
<1>2. Used' = {} BY DEF Reset, Used, Free, NoBody
<1>3. \A t \in Tasks : ~Popping(t)' /\ task'[t].msg = 0 /\ task'[t].pc = "none"
  BY DEF Reset, Popping, NoTask
<1>4. \A n \in Nodes : body'[n] = 0 BY DEF Reset, NoBody
<1>5. EmptyList' BY DEF Reset, EmptyList, SelfLinked, IdlePost
<1>6. UnlinkedNode' BY DEF Reset, UnlinkedNode, IdlePost
<1>7. MessagesInOrder' BY <1>1, <1>2, <1>3, <1>4 DEF MessagesInOrder, Newer, At
<1> QED BY <1>3, <1>5, <1>6, <1>7 DEF Sound

LEMMA InitOrder ==
    ASSUME QueueInit
    PROVE  OrderInv
<1>1. SenderInv BY InitSender
<1>2. posted = 0 /\ LastHanded = 0 BY DEF QueueInit, LastHanded
<1>3. MessagesInOrder /\ Sound BY <1>2, EmptyOrder DEF QueueInit
<1> QED BY <1>1, <1>3 DEF OrderInv

\* Every step keeps the messages in order, on a sound list and on a torn one.
LEMMA NextOrder ==
    ASSUME OrderInv, SenderInv', [QueueNext]_queueVars
    PROVE  OrderInv'
<1>1. CASE \E n \in Nodes : NewNode(n) BY <1>1, NewNodeOrder DEF OrderInv
<1>2. CASE PostStep
  BY <1>2, LinkNextOrder, LinkPrevOrder, FlagOrder DEF PostStep, OrderInv
<1>3. ASSUME NEW t \in Tasks, TaskStep(t) PROVE OrderInv'
  <2>1. CASE Panic(t) BY <2>1, ResetOrder DEF Panic, OrderInv
  <2>2. CASE SendStep(t)
    BY <2>2, TestEmptyOrder, FrontOrder, PopOrder, UnlinkNextOrder, UnlinkPrevOrder, SendOrder
       DEF SendStep, OrderInv
  <2> QED BY <1>3, <2>1, <2>2 DEF TaskStep
<1>4. CASE Restart BY <1>4, ResetOrder DEF Restart, OrderInv
<1>5. CASE UNCHANGED queueVars
  <2>1. UNCHANGED <<next, prev, body, post, task, posted, handed>>
    BY <1>5 DEF queueVars, list, history
  <2>2. /\ Used' = Used /\ LastHanded' = LastHanded /\ Last' = Last
        /\ \A f : Chain(f)' <=> Chain(f)
        /\ EmptyList' <=> EmptyList
        /\ ChainedList' <=> ChainedList
    BY <2>1, ListKept DEF list, LastHanded
  <2>3. MessagesInOrder' BY <2>1, <2>2 DEF OrderInv, MessagesInOrder, Newer, At, Popping
  <2>4. Torn => Torn' BY <2>1 DEF Torn, Popping
  <2>5. Sound => Sound' BY <2>1, <2>2 DEF Sound, UnlinkedNode, OrderlyPop, Popping
  <2> QED BY <2>3, <2>4, <2>5 DEF OrderInv
<1> QED BY <1>1, <1>2, <1>3, <1>4, <1>5 DEF QueueNext

\* The list is always sound, or torn and harmless: a task that takes a message takes
\* one newer than all before.
THEOREM OrderInvariant == QueueSpec => []OrderInv
<1>1. QueueInit => OrderInv BY InitOrder
<1>2. OrderInv /\ SenderInv' /\ [QueueNext]_queueVars => OrderInv' BY NextOrder
<1> QED BY <1>1, <1>2, SenderInvariant, PTL DEF QueueSpec

\* The queue implements ReportChannel: no race on the list, and no restart, makes the
\* device send a message twice, or two messages in the wrong order.
THEOREM QueueKeepsOrder == QueueSpec => KeepsOrder
<1>1. QueueInit => Channel!Init
  BY DEF QueueInit, Channel!Init
<1>2. OrderInv /\ [QueueNext]_queueVars
        => [Channel!Post \/ Channel!Hand]_(Channel!channelVars)
  <2> SUFFICES ASSUME OrderInv, [QueueNext]_queueVars
               PROVE  Channel!Post \/ Channel!Hand \/ UNCHANGED <<posted, handed>>
    BY DEF Channel!channelVars
  <2>1. CASE \E n \in Nodes : NewNode(n) BY <2>1 DEF NewNode, Channel!Post
  <2>2. CASE PostStep
    BY <2>2 DEF PostStep, LinkNext, LinkPrev, TestFlag, StartTask, history
  <2>3. ASSUME NEW t \in Tasks, TaskStep(t)
        PROVE  Channel!Hand \/ UNCHANGED <<posted, handed>>
    <3>1. CASE Send(t)
      <4>1. LastHanded < task[t].msg /\ task[t].msg <= posted BY <3>1, SendOrder
      <4>2. TypeOK BY DEF OrderInv, SenderInv
      <4>3. task[t].msg \in LastHanded + 1 .. posted BY <4>1, <4>2, Memory
      <4> QED BY <3>1, <4>3 DEF Send, Channel!Hand, Channel!LastHanded, LastHanded
    <3>2. CASE ~Send(t)
      BY <2>3, <3>2 DEF TaskStep, SendStep, TestEmpty, Front, Panic, Pop, UnlinkNext,
                        UnlinkPrev, ClearFlag, Reset, history
    <3> QED BY <3>1, <3>2
  <2>4. CASE Restart BY <2>4 DEF Restart, Reset
  <2>5. CASE UNCHANGED queueVars BY <2>5 DEF queueVars, history
  <2> QED BY <2>1, <2>2, <2>3, <2>4, <2>5 DEF QueueNext
<1> QED BY <1>1, <1>2, OrderInvariant, PTL DEF QueueSpec, KeepsOrder, Channel!Spec

-----------------------------------------------------------------------------
(* What gets lost.                                                          *)

\* A step that leaves the list and all who are at work on it alone.
LEMMA RingKept ==
    ASSUME Intact, UNCHANGED <<list, posted>>,
           Pushing' <=> Pushing, Pushing => post' = post,
           \A t \in Tasks : /\ Popping(t)' <=> Popping(t)
                            /\ Popping(t) => task'[t] = task[t]
    PROVE  Intact'
<1>1. next' = next /\ prev' = prev /\ body' = body BY DEF list
<1>2. Used' = Used BY <1>1 DEF Used, Free
<1>3. \A M, f : LinkedRing(M, f) => LinkedRing(M, f)' BY <1>1 DEF LinkedRing
<1>4. ASSUME Pushing PROVE IntactPush'
  BY <1>1, <1>2, <1>3, <1>4 DEF Intact, IntactPush, LinkedRing
<1>5. ASSUME NEW t \in Tasks, Popping(t) PROVE IntactPop(task[t])'
  BY <1>1, <1>2, <1>3, <1>5 DEF Intact, IntactPop, LinkedRing
<1>6. LinkedRing(Used, next) => LinkedRing(Used, next)'
  BY <1>1, <1>2 DEF LinkedRing
<1> QED BY <1>4, <1>5, <1>6 DEF Intact

LEMMA NewNodeRing ==
    ASSUME OrderInv, Intact, NEW n \in Nodes, NewNode(n), ~raced'
    PROVE  Intact'
<1>1. TypeOK BY DEF OrderInv, SenderInv
<1>2. /\ n \notin Used /\ n # Header
      /\ post.pc = "idle" /\ post' = [pc |-> "linkNext", node |-> n]
      /\ posted' = posted + 1
      /\ body'[n] = posted + 1 /\ \A m \in Nodes \ {n} : body'[m] = body[m]
      /\ next'[n] = Header /\ \A m \in Ring \ {n} : next'[m] = next[m]
      /\ prev'[n] = prev[Header] /\ \A m \in Ring \ {n} : prev'[m] = prev[m]
      /\ task' = task
  BY <1>1, QueueAssumption DEF NewNode, TypeOK, Used, Free
<1>3. Used' = Used \cup {n} BY <1>1, <1>2, Memory DEF Used, Free
<1>4. \A t \in Tasks : ~Popping(t) BY DEF NewNode
<1>5. LinkedRing(Used, next) BY <1>2, <1>4 DEF Intact, Pushing
<1>6. \A t \in Tasks : ~Popping(t)' BY <1>2, <1>4 DEF Popping
<1>7. Used' \ {n} = Used BY <1>2, <1>3
<1>8. LinkedRing(Used \ {n}, next)'
  <2>1. \A m \in Used \cup {Header} : next'[m] = next[m] /\ prev'[m] = prev[m]
    BY <1>1, <1>2, Memory
  <2>2. \A m \in Used : body'[m] = body[m] BY <1>1, <1>2, Memory
  <2> QED BY <1>5, <1>7, <2>1, <2>2 DEF LinkedRing
<1>9. prev'[n] = prev'[Header] BY <1>2
<1>10. IntactPush' BY <1>2, <1>3, <1>6, <1>8, <1>9 DEF IntactPush
<1> QED BY <1>2, <1>6, <1>10 DEF Intact, Pushing

LEMMA LinkNextRing ==
    ASSUME OrderInv, Intact, LinkNext
    PROVE  Intact'
<1> DEFINE p == post.node
           l == prev[Header]
<1>1. TypeOK BY DEF OrderInv, SenderInv
<1>2. /\ post.pc = "linkNext" /\ post'.pc = "linkPrev" /\ post'.node = p
      /\ next' = [next EXCEPT ![l] = p]
      /\ next \in [Ring -> Ring] /\ l \in Ring
      /\ prev' = prev /\ body' = body /\ task' = task /\ posted' = posted
  BY <1>1 DEF LinkNext, TypeOK, history
<1>3. Used' = Used BY <1>2 DEF Used, Free
<1>4. IntactPush /\ LinkedRing(Used \ {p}, next) BY <1>2 DEF Intact, Pushing, IntactPush
<1>5. l # p /\ next[l] = Header BY <1>1, <1>4, Memory DEF LinkedRing, IntactPush
<1>6. [next' EXCEPT ![l] = Header] = next BY <1>2, <1>5
<1>7. LinkedRing(Used \ {p}, [next EXCEPT ![prev[Header]] = Header])'
  <2>1. prev' = prev /\ body' = body /\ (Used \ {p})' = Used \ {p} BY <1>2, <1>3
  <2>2. [next EXCEPT ![prev[Header]] = Header]' = next BY <1>2, <1>6
  <2> QED BY <1>4, <2>1, <2>2 DEF LinkedRing
<1>8. \A t \in Tasks : ~Popping(t)' BY <1>2, <1>4 DEF IntactPush, Popping
<1>9. next'[p] = Header /\ next'[l] = p
  BY <1>1, <1>2, <1>4, <1>5, Memory DEF IntactPush
<1>10. IntactPush' BY <1>2, <1>3, <1>4, <1>7, <1>8, <1>9 DEF IntactPush
<1> QED BY <1>2, <1>8, <1>10 DEF Intact, Pushing

LEMMA LinkPrevRing ==
    ASSUME OrderInv, Intact, LinkPrev
    PROVE  Intact'
<1> DEFINE p == post.node
           l == prev[Header]
           M == Used \ {p}
           old == [next EXCEPT ![l] = Header]
<1>1. TypeOK BY DEF OrderInv, SenderInv
<1>2. /\ post.pc = "linkPrev" /\ post'.pc = "testFlag"
      /\ prev'[Header] = p /\ \A m \in Ring \ {Header} : prev'[m] = prev[m]
      /\ next \in [Ring -> Ring] /\ l \in Ring
      /\ next' = next /\ body' = body /\ task' = task
  BY <1>1 DEF LinkPrev, TypeOK, history
<1>3. Used' = Used BY <1>2 DEF Used, Free
<1>4. IntactPush /\ next[l] = p /\ LinkedRing(M, old)
  BY <1>2 DEF Intact, Pushing, IntactPush
<1>5. p \in Used /\ body[p] = posted /\ next[p] = Header /\ prev[p] = l
  BY <1>4 DEF IntactPush
<1>6. old[l] = Header /\ \A n \in Ring \ {l} : old[n] = next[n] BY <1>2
<1>7. l \in M \cup {Header} BY <1>4 DEF LinkedRing
<1>8. \A n \in M : body[n] < posted
  BY <1>1, <1>5, Memory DEF OrderInv, MessagesInOrder
<1>9. ASSUME NEW n \in (M \cup {Header}) \ {l}
      PROVE  /\ next[n] \in M /\ prev'[next[n]] = n
             /\ n # Header => body[n] < body[next[n]]
  <2>1. old[n] = next[n] BY <1>1, <1>6, Memory
  <2>2. next[n] \in M \cup {Header} /\ prev[next[n]] = n BY <1>4, <2>1 DEF LinkedRing
  <2>3. next[n] # Header BY <2>2
  <2> QED BY <1>1, <1>2, <1>4, <2>1, <2>2, <2>3, Memory DEF LinkedRing
<1>10. ASSUME NEW n \in M
       PROVE  prev'[n] \in M \cup {Header} /\ next[prev'[n]] = n
  <2>1. prev'[n] = prev[n] BY <1>1, <1>2, Memory
  <2>2. prev[n] \in M \cup {Header} /\ old[prev[n]] = n BY <1>4 DEF LinkedRing
  <2>3. prev[n] # l BY <1>1, <1>6, <2>2, Memory
  <2> QED BY <1>1, <1>6, <2>1, <2>2, <2>3, Memory
<1>11. prev'[p] = l BY <1>1, <1>2, <1>5, Memory
<1>12. LinkedRing(Used, next)'
  <2> SUFFICES ASSUME NEW n \in Used \cup {Header}
               PROVE  /\ next[n] \in Used \cup {Header} /\ prev'[next[n]] = n
                      /\ prev'[n] \in Used \cup {Header} /\ next[prev'[n]] = n
                      /\ n # Header /\ next[n] # Header => body[n] < body[next[n]]
    BY <1>2, <1>3 DEF LinkedRing
  <2>1. CASE n = p
    BY <1>1, <1>2, <1>4, <1>5, <1>7, <1>11, <2>1, Memory
  <2>2. CASE n # p
    <3>1. n \in M \cup {Header} BY <2>2
    <3>2. /\ next[n] \in Used \cup {Header} /\ prev'[next[n]] = n
          /\ n # Header /\ next[n] # Header => body[n] < body[next[n]]
      BY <1>4, <1>5, <1>8, <1>9, <1>11, <3>1
    <3>3. prev'[n] \in Used \cup {Header} /\ next[prev'[n]] = n
      BY <1>2, <1>5, <1>10, <3>1
    <3> QED BY <3>2, <3>3
  <2> QED BY <2>1, <2>2
<1>13. \A t \in Tasks : ~Popping(t)' BY <1>2, <1>4 DEF IntactPush, Popping
<1> QED BY <1>2, <1>12, <1>13 DEF Intact, Pushing

LEMMA PopRing ==
    ASSUME OrderInv, Intact, NEW t \in Tasks, Pop(t), ~raced'
    PROVE  Intact'
<1> DEFINE n == next[Header]
<1>1. TypeOK BY DEF OrderInv, SenderInv
<1>2. /\ task[t].pc = "pop" /\ task'[t].pc = "unlinkNext"
      /\ task'[t].node = n /\ task'[t].next = next[n] /\ task'[t].prev = prev[n]
      /\ \A u \in Tasks \ {t} : task'[u] = task[u]
      /\ UNCHANGED <<next, prev, body, post>>
  BY <1>1 DEF Pop, At, list, TypeOK
<1>3. ~Pushing BY DEF Pop
<1>4. \A u \in Tasks : ~Popping(u) /\ (u # t => ~Popping(u)')
  BY <1>2, OthersRest DEF Popping
<1>5. LinkedRing(Used, next) BY <1>3, <1>4 DEF Intact
<1>6. Used' = Used BY <1>2 DEF Used, Free
<1>7. LinkedRing(Used, next)' BY <1>2, <1>5, <1>6 DEF LinkedRing
<1>8. n \in Used BY <1>2 DEF OrderInv, MessagesInOrder, At
<1>9. IntactPop(task[t])' BY <1>2, <1>6, <1>7, <1>8 DEF IntactPop
<1>10. ~Pushing' BY <1>2, <1>3 DEF Pushing
<1>11. Popping(t)' BY <1>2 DEF Popping
<1> QED BY <1>4, <1>9, <1>10, <1>11 DEF Intact

LEMMA UnlinkNextRing ==
    ASSUME OrderInv, Intact, NEW t \in Tasks, UnlinkNext(t)
    PROVE  Intact'
<1> DEFINE q == task[t]
<1>1. TypeOK BY DEF OrderInv, SenderInv
<1>2. /\ q.pc = "unlinkNext" /\ task'[t].pc = "unlinkPrev"
      /\ task'[t].node = q.node /\ task'[t].next = q.next /\ task'[t].prev = q.prev
      /\ \A u \in Tasks \ {t} : task'[u] = task[u]
      /\ q.prev \in Ring /\ q.next \in Ring
      /\ next \in [Ring -> Ring] /\ next' = [next EXCEPT ![q.prev] = q.next]
      /\ UNCHANGED <<prev, body, post>>
  BY <1>1 DEF UnlinkNext, At, history, TypeOK
<1>3. Popping(t) /\ Popping(t)' BY <1>2 DEF Popping
<1>4. ~Pushing BY <1>3 DEF Intact, IntactPush
<1>5. \A u \in Tasks \ {t} : ~Popping(u)' BY <1>2, OthersRest
<1>6. /\ q.node \in Used /\ q.next = next[q.node] /\ q.prev = prev[q.node]
      /\ LinkedRing(Used, next)
  BY <1>2, <1>3 DEF Intact, IntactPop
<1>7. Used' = Used BY <1>2 DEF Used, Free
<1>8. next[q.prev] = q.node /\ q.prev # q.node
  <2>1. next[q.prev] = q.node BY <1>6 DEF LinkedRing
  <2>2. q.prev # q.node
    <3> SUFFICES ASSUME q.prev = q.node PROVE FALSE OBVIOUS
    <3>1. next[q.node] = q.node BY <2>1
    <3>2. body[q.node] < body[q.node] BY <1>1, <1>6, <3>1, Memory DEF LinkedRing
    <3> QED BY <1>1, <1>6, <3>2, Memory
  <2> QED BY <2>1, <2>2
<1>9. [next' EXCEPT ![q.prev] = q.node] = next BY <1>2, <1>8
<1>10. LinkedRing(Used, [next EXCEPT ![task[t].prev] = task[t].node])'
  <2> DEFINE old == [next EXCEPT ![task[t].prev] = task[t].node]
  <2>1. old' = next BY <1>2, <1>9
  <2>2. \A n \in Used \cup {Header} :
           /\ old'[n] \in Used \cup {Header} /\ prev[old'[n]] = n
           /\ prev[n] \in Used \cup {Header} /\ old'[prev[n]] = n
           /\ n # Header /\ old'[n] # Header => body[n] < body[old'[n]]
    BY <1>6, <2>1 DEF LinkedRing
  <2> HIDE DEF old
  <2>3. LinkedRing(Used, old)' BY <1>2, <1>7, <2>2 DEF LinkedRing
  <2> QED BY <2>3 DEF old
<1>11. next'[q.node] = q.next /\ next'[q.prev] = q.next
  BY <1>1, <1>2, <1>6, <1>8, Memory
<1>12. IntactPop(task[t])' BY <1>2, <1>6, <1>7, <1>10, <1>11 DEF IntactPop
<1>13. ~Pushing' BY <1>2, <1>4 DEF Pushing
<1> QED BY <1>3, <1>5, <1>12, <1>13 DEF Intact

LEMMA UnlinkPrevRing ==
    ASSUME OrderInv, Intact, NEW t \in Tasks, UnlinkPrev(t)
    PROVE  Intact'
<1> DEFINE q == task[t]
           x == q.node
           a == q.prev
           b == q.next
           old == [next EXCEPT ![a] = x]
<1>1. TypeOK BY DEF OrderInv, SenderInv
<1>2. /\ q.pc = "unlinkPrev" /\ task'[t].pc = "send"
      /\ \A u \in Tasks \ {t} : task'[u] = task[u]
      /\ a \in Ring /\ b \in Ring /\ next \in [Ring -> Ring]
      /\ prev'[b] = a /\ \A m \in Ring \ {b} : prev'[m] = prev[m]
      /\ UNCHANGED <<next, post>>
  BY <1>1 DEF UnlinkPrev, At, history, TypeOK, NoTask
<1>3. Popping(t) /\ ~Popping(t)' BY <1>2 DEF Popping
<1>4. ~Pushing /\ ~Pushing' BY <1>2, <1>3 DEF Intact, IntactPush, Pushing
<1>5. \A u \in Tasks \ {t} : ~Popping(u)' BY <1>2, OthersRest
<1>6. /\ x \in Used /\ b = next[x] /\ a = prev[x] /\ next[a] = b
      /\ LinkedRing(Used, old)
  BY <1>2, <1>3 DEF Intact, IntactPop
<1>7. body'[x] = 0 /\ \A m \in Nodes \ {x} : body'[m] = body[m]
  BY <1>1, <1>6, Memory DEF UnlinkPrev, TypeOK
<1>8. Used' = Used \ {x} BY <1>1, <1>6, <1>7, Memory DEF Used, Free
<1>9. old[a] = x /\ \A n \in Ring \ {a} : old[n] = next[n] BY <1>2
<1>10. a # x
  <2> SUFFICES ASSUME a = x PROVE FALSE OBVIOUS
  <2>1. old[x] = x BY <1>9
  <2>2. body[x] < body[x] BY <1>1, <1>6, <2>1, Memory DEF LinkedRing
  <2> QED BY <1>1, <1>6, <2>2, Memory
<1>11. /\ old[x] = b /\ prev[b] = x /\ b \in Used \cup {Header} /\ a \in Used \cup {Header}
       /\ b # Header => body[x] < body[b]
       /\ a # Header => body[a] < body[x]
  BY <1>1, <1>6, <1>9, <1>10, Memory DEF LinkedRing
<1>12. b # x BY <1>1, <1>6, <1>11, Memory
<1>13. ASSUME NEW n \in Used' \cup {Header}
       PROVE  /\ next[n] \in Used' \cup {Header} /\ prev'[next[n]] = n
              /\ n # Header /\ next[n] # Header => body'[n] < body'[next[n]]
  <2>1. CASE n = a
    BY <1>1, <1>2, <1>6, <1>7, <1>8, <1>10, <1>11, <1>12, <2>1, Memory
  <2>2. CASE n # a
    <3>1. old[n] = next[n] BY <1>1, <1>8, <1>9, <2>2, Memory
    <3>2. /\ next[n] \in Used \cup {Header} /\ prev[next[n]] = n
          /\ n # Header /\ next[n] # Header => body[n] < body[next[n]]
      BY <1>6, <1>8, <3>1 DEF LinkedRing
    <3>3. next[n] # x BY <1>6, <2>2, <3>2
    <3>4. next[n] # b BY <1>1, <1>6, <1>8, <1>11, <3>2, Memory
    <3> QED BY <1>1, <1>2, <1>6, <1>7, <1>8, <3>2, <3>3, <3>4, Memory
  <2> QED BY <2>1, <2>2
<1>14. ASSUME NEW n \in Used' \cup {Header}
       PROVE  prev'[n] \in Used' \cup {Header} /\ next[prev'[n]] = n
  <2>1. CASE n = b
    BY <1>2, <1>6, <1>8, <1>10, <1>11, <2>1
  <2>2. CASE n # b
    <3>1. prev'[n] = prev[n] BY <1>1, <1>2, <1>8, <2>2, Memory
    <3>2. prev[n] \in Used \cup {Header} /\ old[prev[n]] = n BY <1>6, <1>8 DEF LinkedRing
    <3>3. prev[n] # x BY <1>11, <2>2, <3>2
    <3>4. prev[n] # a BY <1>1, <1>6, <1>8, <1>9, <3>2, Memory
    <3> QED BY <1>1, <1>8, <1>9, <3>1, <3>2, <3>3, <3>4, Memory
  <2> QED BY <2>1, <2>2
<1>15. LinkedRing(Used, next)' BY <1>2, <1>13, <1>14 DEF LinkedRing
<1> QED BY <1>3, <1>4, <1>5, <1>15 DEF Intact

\* Every step keeps the ring, but for a push_back and a pop_front that meet.
LEMMA NextRing ==
    ASSUME RaceInv, OrderInv', [QueueNext]_queueVars
    PROVE  RaceInv'
<1> SUFFICES ASSUME ~raced' PROVE Intact' BY DEF RaceInv
<1>1. OrderInv BY DEF RaceInv
<1>2. CASE \E n \in Nodes : NewNode(n)
  BY <1>1, <1>2, NewNodeRing DEF RaceInv, NewNode
<1>3. CASE LinkNext \/ LinkPrev
  <2>1. raced' = raced BY <1>3 DEF LinkNext, LinkPrev, history
  <2>2. Intact BY <2>1 DEF RaceInv
  <2>3. CASE LinkNext BY <1>1, <2>2, <2>3, LinkNextRing
  <2>4. CASE LinkPrev BY <1>1, <2>2, <2>4, LinkPrevRing
  <2> QED BY <1>3, <2>3, <2>4
<1>4. CASE TestFlag \/ StartTask
  <2>1. UNCHANGED <<list, posted, raced>> /\ ~Pushing /\ ~Pushing'
    BY <1>1, <1>4 DEF TestFlag, StartTask, history, Pushing, IdlePost, OrderInv, SenderInv, TypeOK
  <2>2. ASSUME NEW u \in Tasks
        PROVE  task'[u] = task[u] \/ (task[u].pc = "none" /\ task'[u].pc = "testEmpty")
    <3>1. CASE TestFlag BY <3>1 DEF TestFlag
    <3>2. CASE StartTask BY <1>1, <3>2 DEF StartTask, Running, OrderInv, SenderInv, TypeOK
    <3> QED BY <1>4, <3>1, <3>2
  <2>3. \A u \in Tasks : /\ Popping(u)' <=> Popping(u)
                         /\ Popping(u) => task'[u] = task[u]
    BY <2>2 DEF Popping
  <2> QED BY <2>1, <2>3, RingKept DEF RaceInv
<1>5. ASSUME NEW t \in Tasks, TestEmpty(t) \/ Front(t) \/ Send(t) \/ ClearFlag(t)
      PROVE  Intact'
  <2>1. UNCHANGED <<list, posted, raced, post>>
    BY <1>5 DEF TestEmpty, Front, Send, ClearFlag, history
  <2>2. ~Popping(t) /\ ~Popping(t)' /\ \A u \in Tasks \ {t} : task'[u] = task[u]
    <3>1. TypeOK BY <1>1 DEF OrderInv, SenderInv
    <3>2. CASE TestEmpty(t) BY <3>1, <3>2 DEF TestEmpty, At, Popping, TypeOK
    <3>3. CASE Front(t) BY <3>1, <3>3 DEF Front, At, Popping, NoTask, TypeOK
    <3>4. CASE Send(t) BY <3>1, <3>4 DEF Send, At, Popping, NoTask, TypeOK
    <3>5. CASE ClearFlag(t) BY <3>1, <3>5 DEF ClearFlag, At, Popping, NoTask, TypeOK
    <3> QED BY <1>5, <3>2, <3>3, <3>4, <3>5
  <2>3. \A u \in Tasks : Popping(u)' <=> Popping(u)
    BY <2>2 DEF Popping
  <2>4. \A u \in Tasks : Popping(u) => task'[u] = task[u]
    BY <2>2
  <2>5. Pushing' <=> Pushing BY <2>1 DEF Pushing
  <2> QED BY <2>1, <2>3, <2>4, <2>5, RingKept DEF RaceInv
<1>6. ASSUME NEW t \in Tasks, Pop(t) \/ UnlinkNext(t) \/ UnlinkPrev(t)
      PROVE  Intact'
  BY <1>1, <1>6, PopRing, UnlinkNextRing, UnlinkPrevRing
     DEF RaceInv, Pop, UnlinkNext, UnlinkPrev, history
<1>7. CASE Reset
  <2>1. Used' = {} BY <1>7 DEF Reset, Used, Free, NoBody
  <2>2. \A t \in Tasks : ~Popping(t)' BY <1>7 DEF Reset, Popping, NoTask
  <2>3. ~Pushing' BY <1>7 DEF Reset, IdlePost, Pushing
  <2>4. LinkedRing(Used, next)' BY <1>7, <2>1 DEF Reset, SelfLinked, LinkedRing
  <2> QED BY <2>2, <2>3, <2>4 DEF Intact
<1>8. CASE UNCHANGED queueVars
  <2>1. UNCHANGED <<next, prev, body, post, task, posted, raced>>
    BY <1>8 DEF queueVars, list, history
  <2> QED BY <2>1 DEF RaceInv, Intact, IntactPush, IntactPop, LinkedRing, Used, Free, Pushing, Popping
<1> QED BY <1>2, <1>3, <1>4, <1>5, <1>6, <1>7, <1>8
        DEF QueueNext, PostStep, TaskStep, SendStep, Panic, Restart

THEOREM RaceInvariant == QueueSpec => []RaceInv
<1>1. QueueInit => Intact
  <2> SUFFICES ASSUME QueueInit PROVE Intact OBVIOUS
  <2>1. Used = {} BY DEF QueueInit, Used, Free, NoBody
  <2>2. ~Pushing /\ \A t \in Tasks : ~Popping(t)
    BY DEF QueueInit, IdlePost, NoTask, Pushing, Popping
  <2>3. LinkedRing(Used, next) BY <2>1 DEF QueueInit, SelfLinked, LinkedRing
  <2> QED BY <2>2, <2>3 DEF Intact
<1>2. QueueInit => RaceInv BY <1>1, InitOrder DEF RaceInv
<1>3. RaceInv /\ OrderInv' /\ [QueueNext]_queueVars => RaceInv' BY NextRing
<1> QED BY <1>2, <1>3, OrderInvariant, PTL DEF QueueSpec

\* Nothing is lost from the list and nothing changes places on it, unless a pop_front
\* of the task has met a push_back of the loop.
THEOREM RaceIsTheOnlyLoss == QueueSpec => []LostOnlyInRace
<1>1. RaceInv => LostOnlyInRace
  <2> SUFFICES ASSUME RaceInv, ~raced, ~Pushing, \A t \in Tasks : ~Popping(t),
                      NEW n \in Nodes \ Free
               PROVE  Linked(n)
    BY DEF LostOnlyInRace
  <2>1. LinkedRing(Used, next) BY DEF RaceInv, Intact
  <2>2. n \in Used /\ n # Header /\ \A m \in Used \cup {Header} : m \notin Free
    BY QueueAssumption DEF Used, Free
  <2> QED BY <2>1, <2>2 DEF LinkedRing, Linked
<1> QED BY <1>1, RaceInvariant, PTL

=============================================================================
