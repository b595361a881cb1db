------------------------------ MODULE Dashboard ------------------------------
(***************************************************************************)
(* The page of a car (caller.js), which shows the last event and the       *)
(* policy of the car's node and posts events itself, and the feed of vault *)
(* changes it listens to (VaultChangeScheduler, WebSocketConfig).          *)
(*                                                                         *)
(* A reload is a GET of the event and, with its answer, a GET of the       *)
(* policy.  Reloads overlap, and so do posts; a browser may have them      *)
(* served and answered in any order.  What the node does with a post is    *)
(* modelled as far as the page can tell: it records the event and assesses *)
(* the car later, in a flow that reads the last event and the one before   *)
(* in two queries, between which the next event may be recorded.           *)
(***************************************************************************)
EXTENDS Integers, Sequences, FiniteSets

CONSTANTS
    FirstMileage,   \* of the event the vault starts with
    Increments,     \* the buttons that add to the mileage
    Decrement,      \* of the button that takes off
    MaxPosts        \* bound: posts of the page and of other sources together

ASSUME DashboardAssumption ==
    /\ FirstMileage \in Nat
    /\ Increments \subseteq Nat \ {0} /\ Decrement \in Nat \ {0}
    /\ MaxPosts \in Nat

MaxVersion == 1 + MaxPosts
Feeds == {"event", "car"}   \* CarEventScheduler, CarPolicyScheduler

VARIABLES
    events,                 \* the mileages of the car's events, in order
    unassessed,             \* the numbers of the events whose CarFlow.Update is to come
    assessing,              \* the flows that have read the car and its last event
    assessments, fraud,     \* versions of the CarState, and whether it is FRAUD
    posts,                  \* posts on their way to the server
    listening,              \* the schedulers whose feed has not ended
    feed,                   \* the vault changes each of them has not heard of
    subscription,           \* of the page to /topic/vaultChanged/*
    news,                   \* messages of that topic on their way to the page
    asked, answers,         \* GETs of the event: not served, and answered with version v
    policyAsked, policyAnswers,
    shownEvent, shownPolicy,    \* the versions on the page, 0 before the first answer
    carMileage, mileage,    \* ME_CAR_EVENT.mileage, ME_MILEAGE
    presses, others,        \* history: buttons pressed, events from elsewhere
    top,                    \* history: the highest mileage the page has posted
    excused,                \* history: the page may be behind the vault
    suspect                 \* history: an honest car may be in FRAUD

node == <<events, unassessed, assessing, assessments, fraud>>
socket == <<listening, feed, subscription, news>>
gets == <<asked, answers, policyAsked, policyAnswers>>
page == <<shownEvent, shownPolicy, carMileage, mileage>>
pageHistory == <<presses, others, top, excused, suspect>>
dashboardVars == <<node, posts, socket, gets, page, pageHistory>>

Versions == 0 .. MaxVersion

\* The page has been opened: load_data asks for the event and connects.
Init ==
    /\ events = <<FirstMileage>> /\ unassessed = {} /\ assessing = {}
    /\ assessments = 1 /\ fraud = FALSE
    /\ posts = {}
    /\ listening = Feeds /\ feed = [f \in Feeds |-> 0]
    /\ subscription = "none" /\ news = 0
    /\ asked = 1 /\ answers = [v \in Versions |-> 0]
    /\ policyAsked = 0 /\ policyAnswers = [v \in Versions |-> 0]
    /\ shownEvent = 0 /\ shownPolicy = 0
    /\ carMileage = 0 /\ mileage = 0
    /\ presses = 0 /\ others = 0 /\ top = 0
    /\ excused = FALSE /\ suspect = FALSE

-----------------------------------------------------------------------------
(* The buttons.                                                             *)

WrongNextMileageFromShown(add) == mileage + add

\* addMileage adds to the event it has, which holds what it has posted before.
NextMileage(add) == carMileage + add

\* addMileage, once an event has been loaded.  A post that fails is not undone.
Press(add) ==
    /\ shownEvent # 0 /\ presses + others < MaxPosts
    /\ presses' = presses + 1
    /\ carMileage' = NextMileage(add)
    /\ posts' = posts \cup {[no |-> presses', mileage |-> carMileage']}
    /\ top' = IF carMileage' > top THEN carMileage' ELSE top
    /\ UNCHANGED <<node, socket, gets, shownEvent, shownPolicy, mileage, others, excused>>

AddMileage == \E add \in Increments : Press(add) /\ UNCHANGED suspect

\* [ crash ] posts the mileage of the event before.
Crash == Press(0) /\ suspect' = TRUE

\* addFraud: [ * 2 ], [ / 2 ] and [ -30'000 ], of the mileage shown
AddFraud ==
    \E new \in {2 * mileage, mileage \div 2, mileage - Decrement} :
        Press(new - mileage) /\ suspect' = (suspect \/ new <= mileage)

-----------------------------------------------------------------------------
(* The server and the node.                                                 *)

\* The scheduler of that class of states hears of a change, unless its feed has ended.
Changed(f) ==
    feed' = IF f \in listening THEN [feed EXCEPT ![f] = @ + 1] ELSE feed

\* A flow between its two queries is going to read the new event's predecessor.
Recorded(m) ==
    /\ events' = Append(events, m)
    /\ unassessed' = unassessed \cup {Len(events')}
    /\ Changed("event")
    /\ UNCHANGED <<assessing, assessments, fraud, listening, subscription, news>>

\* A post is recorded, possibly before one that was sent earlier.
Record(p) ==
    /\ Recorded(p.mileage)
    /\ posts' = posts \ {p}
    /\ suspect' = (suspect \/ assessing # {} \/ \E q \in posts : q.no < p.no)
    /\ UNCHANGED <<gets, page, presses, others, top, excused>>

PostFails(p) ==
    /\ posts' = posts \ {p}
    /\ UNCHANGED <<node, socket, gets, page, pageHistory>>

\* The track device posts to the same node.
RecordOther ==
    /\ presses + others < MaxPosts
    /\ \E add \in Increments : Recorded(events[Len(events)] + add)
    /\ others' = others + 1
    /\ suspect' = TRUE
    /\ UNCHANGED <<posts, gets, page, presses, top, excused>>

\* CarFlow.Update of event i reads the car and the last event.
ReadEvent(i) ==
    /\ unassessed' = unassessed \ {i}
    /\ assessing' = assessing \cup
           {[flow |-> i, event |-> Len(events), car |-> assessments]}
    /\ UNCHANGED <<events, assessments, fraud, posts, socket, gets, page, pageHistory>>

\* The last consumed event, when it is asked for.
Predecessor == events[Len(events) - 1]

\* Then it asks for the event before, compares, and replaces the car it has read.
Assess(q) ==
    /\ q.car = assessments
    /\ assessing' = assessing \ {q}
    /\ assessments' = assessments + 1
    /\ fraud' = (fraud \/ events[q.event] <= Predecessor)
    /\ Changed("car")
    /\ UNCHANGED <<events, unassessed, posts, listening, subscription, news, gets, page,
                   pageHistory>>

\* A flow fails: its car has been replaced (the notary), or for any other reason.
AssessFails ==
    /\ \/ \E i \in unassessed : unassessed' = unassessed \ {i} /\ UNCHANGED assessing
       \/ \E q \in assessing : assessing' = assessing \ {q} /\ UNCHANGED unassessed
    /\ UNCHANGED <<events, assessments, fraud, posts, socket, gets, page, pageHistory>>

\* The simple broker knows of the subscription.
Subscribe ==
    /\ subscription = "none"
    /\ subscription' = "subscribed"
    /\ UNCHANGED <<node, posts, listening, feed, news, gets, page, pageHistory>>

\* The page does not connect again.
LoseSocket ==
    /\ subscription # "lost"
    /\ subscription' = "lost" /\ news' = 0
    /\ excused' = TRUE
    /\ UNCHANGED <<node, posts, listening, feed, gets, page, presses, others, top, suspect>>

\* triggerChanged, for one class of states, reaches those subscribed at that moment.
TriggerChanged(f) ==
    /\ feed[f] > 0 /\ feed' = [feed EXCEPT ![f] = @ - 1]
    /\ news' = IF subscription = "subscribed" THEN news + 1 ELSE news
    /\ excused' = (excused \/ subscription # "subscribed")
    /\ UNCHANGED <<node, posts, listening, subscription, gets, page, presses, others, top, suspect>>

\* An error ends the feed: it is logged, and nobody subscribes to the vault again.
FeedEnds(f) ==
    /\ f \in listening /\ listening' = listening \ {f}
    /\ feed' = [feed EXCEPT ![f] = 0]
    /\ excused' = TRUE
    /\ UNCHANGED <<node, posts, subscription, news, gets, page, presses, others, top, suspect>>

ServeEvent ==
    /\ asked > 0 /\ asked' = asked - 1
    /\ answers' = [answers EXCEPT ![Len(events)] = @ + 1]
    /\ UNCHANGED <<node, posts, socket, policyAsked, policyAnswers, page, pageHistory>>

ServePolicy ==
    /\ policyAsked > 0 /\ policyAsked' = policyAsked - 1
    /\ policyAnswers' = [policyAnswers EXCEPT ![assessments] = @ + 1]
    /\ UNCHANGED <<node, posts, socket, asked, answers, page, pageHistory>>

\* A failed GET leaves an error message and the page as it is.
GetFails ==
    /\ \/ asked > 0 /\ asked' = asked - 1 /\ UNCHANGED policyAsked
       \/ policyAsked > 0 /\ policyAsked' = policyAsked - 1 /\ UNCHANGED asked
    /\ excused' = TRUE
    /\ UNCHANGED <<node, posts, socket, answers, policyAnswers, page, presses, others, top,
                   suspect>>

-----------------------------------------------------------------------------
(* The page.                                                                *)

WrongGetVehicleOnce == asked' = IF shownEvent = 0 THEN asked + 1 ELSE asked

\* get_vehicle
GetVehicle == asked' = asked + 1

ReceiveNews ==
    /\ news > 0 /\ news' = news - 1
    /\ GetVehicle
    /\ UNCHANGED <<node, posts, listening, feed, subscription, answers, policyAsked, policyAnswers,
                   page, pageHistory>>

WrongGetPolicyOfNewEvent(v) ==
    policyAsked' = IF v = shownEvent THEN policyAsked ELSE policyAsked + 1

\* get_policy, with version v of the event
GetPolicy(v) == policyAsked' = policyAsked + 1

\* The answer to get_vehicle overwrites what the page has, also what it has posted
\* since, and asks for the policy.
ReceiveEvent(v) ==
    /\ answers[v] > 0 /\ answers' = [answers EXCEPT ![v] = @ - 1]
    /\ shownEvent' = v
    /\ carMileage' = events[v] /\ mileage' = events[v]
    /\ GetPolicy(v)
    /\ excused' = (excused \/ v < shownEvent)
    /\ suspect' = (suspect \/ events[v] < top)
    /\ UNCHANGED <<node, posts, socket, asked, policyAnswers, shownPolicy, presses, others, top>>

ReceivePolicy(v) ==
    /\ policyAnswers[v] > 0 /\ policyAnswers' = [policyAnswers EXCEPT ![v] = @ - 1]
    /\ shownPolicy' = v
    /\ excused' = (excused \/ v < shownPolicy)
    /\ UNCHANGED <<node, posts, socket, asked, answers, policyAsked, shownEvent, carMileage,
                   mileage, presses, others, top, suspect>>

\* What is under way arrives, in any order.
Deliver ==
    \/ \E f \in Feeds : TriggerChanged(f)
    \/ ReceiveNews
    \/ ServeEvent \/ ServePolicy
    \/ \E v \in Versions : ReceiveEvent(v) \/ ReceivePolicy(v)

Next ==
    \/ AddMileage \/ Crash \/ AddFraud
    \/ \E p \in posts : Record(p) \/ PostFails(p)
    \/ RecordOther
    \/ (\E i \in unassessed : ReadEvent(i)) \/ (\E q \in assessing : Assess(q)) \/ AssessFails
    \/ Subscribe \/ LoseSocket \/ (\E f \in Feeds : FeedEnds(f)) \/ GetFails
    \/ Deliver

\* The schedulers (as long as their feeds last), the server and the browser do not all stop
\* while something is under way.
Fairness == WF_dashboardVars(Deliver)

Spec == Init /\ [][Next]_dashboardVars /\ Fairness

-----------------------------------------------------------------------------
NodeTypeOK ==
    /\ events \in Seq(Int) /\ Len(events) \in Versions
    /\ unassessed \subseteq Nat /\ IsFiniteSet(unassessed)
    /\ assessing \subseteq [flow: Nat, event: 1..Len(events), car: Nat] /\ IsFiniteSet(assessing)
    /\ assessments \in Versions /\ fraud \in BOOLEAN
    /\ posts \subseteq [no: Nat, mileage: Int] /\ IsFiniteSet(posts)

WireTypeOK ==
    /\ listening \subseteq Feeds /\ feed \in [Feeds -> Nat]
    /\ subscription \in {"none", "subscribed", "lost"} /\ news \in Nat
    /\ asked \in Nat /\ answers \in [Versions -> Nat]
    /\ policyAsked \in Nat /\ policyAnswers \in [Versions -> Nat]

ShownTypeOK ==
    /\ shownEvent \in 0..Len(events) /\ shownPolicy \in 0..assessments
    /\ carMileage \in Int /\ mileage \in Int /\ top \in Int
    /\ presses \in Nat /\ others \in Nat /\ presses + others <= MaxPosts
    /\ excused \in BOOLEAN /\ suspect \in BOOLEAN

PageTypeOK == NodeTypeOK /\ WireTypeOK /\ ShownTypeOK

LastMileage == events[Len(events)]

\* Every event has been posted, and every version answered has existed.
NothingMadeUp ==
    /\ Len(events) + Cardinality(posts) <= 1 + presses + others
    /\ 1 <= assessments
    /\ assessments + Cardinality(unassessed) + Cardinality(assessing) <= Len(events)
    /\ \A v \in Versions : answers[v] > 0 => v \in 1..Len(events)
    /\ \A v \in Versions : policyAnswers[v] > 0 => v \in 1..assessments
    /\ \A p \in posts : p.no <= presses
    /\ \A p, q \in posts : p.no = q.no => p = q

\* Why an honest car is not in FRAUD: the events and the posts under way rise in the
\* order of the presses, a flow has the last event until it asks for its predecessor,
\* and the page never goes back behind a post of its own.
OnlyRises ==
    /\ ~fraud
    /\ \A q \in assessing : q.event = Len(events)
    /\ Len(events) > 1 => LastMileage <= top
    /\ \A i, j \in 1..Len(events) : i < j => events[i] < events[j]
    /\ \A p \in posts : LastMileage < p.mileage /\ p.mileage <= top
    /\ \A p, q \in posts : p.no < q.no => p.mileage < q.mileage
    /\ shownEvent # 0 => LastMileage <= carMileage /\ top <= carMileage
    /\ shownEvent = 0 => posts = {} /\ Len(events) = 1

\* The inductive invariant of the page.
PageInv == PageTypeOK /\ NothingMadeUp /\ (suspect \/ OnlyRises)

\* A change that is on its way to the page.
Coming == (\E f \in Feeds : feed[f] > 0) \/ news > 0 \/ asked > 0

EventComing == Coming \/ answers[Len(events)] > 0

PolicyComing ==
    \/ Coming \/ policyAsked > 0
    \/ \E v \in Versions : answers[v] > 0
    \/ policyAnswers[assessments] > 0

EventCurrent == shownEvent = Len(events)
PolicyCurrent == shownPolicy = assessments

\* README.md:15, "display accurate mileage information": the page shows the last event
\* and the policy assessed last, or they are coming; unless an older answer has overtaken
\* a newer one, the vault changed before the subscription, the socket broke, a GET failed
\* or a vault feed ended with an error.  Nothing else leaves it behind: not the event that
\* is recorded before the policy is assessed, nor a reload that starts while another is
\* under way.
BehindWithReason ==
    ~excused => (EventCurrent \/ EventComing) /\ (PolicyCurrent \/ PolicyComing)

\* As long as what is under way goes on arriving, the page ends on the last event and
\* policy, or has one of the same five reasons not to.
CatchesUp == <>[](excused \/ (EventCurrent /\ PolicyCurrent))

\* README.md:5, the fraud to detect is turning back mileage.  A car whose page only
\* drives on is put in FRAUD for no other reason than these: two posts overtook each
\* other, an answer that did not know of a post yet set the page back, a crash was
\* posted with the mileage it happened at, the car has another source of events, or an
\* event was recorded between the two queries of a CarFlow.Update.
AccusedWithReason == fraud => suspect

=============================================================================
