--------------------------- MODULE MessagePipeline ---------------------------
(***************************************************************************)
(* The round trip of a Discord message or interaction:                     *)
(*                                                                         *)
(*   Discord    dispatches it to the gateway, like every message of the    *)
(*              guild, those the bot itself posts included;                *)
(*   gateway    DiscordGatewayService maps it and RabbitMqPublisher        *)
(*              publishes it, at once, on a channel nobody reopens;        *)
(*   worker     MessageCommandController and InteractionCommandController  *)
(*              may answer with a command's result;                        *)
(*   auto-response                                                         *)
(*              ScannerController may answer with a trigger's content;     *)
(*   gateway    posts the answers: module Outbound, whose actions are      *)
(*              composed here with what they do to the rest.               *)
(*                                                                         *)
(* Texts are left out: whether a person's message is a command or fires a  *)
(* trigger is decided by caches that change meanwhile (GuildSettings,      *)
(* TriggerCache), so both outcomes are possible, and an answer may read    *)
(* like a command or a trigger itself.                                     *)
(***************************************************************************)
EXTENDS Naturals, Sequences, SequencesExt, FiniteSets

CONSTANTS
    Messages,      \* what people write in the guild's channels
    Interactions,  \* the slash commands they give
    MaxWritten,    \* how many of both are sent in a behaviour
    MaxPosts,      \* messages the bot may post
    MaxFaults      \* crashes, broken connections and lost answers

Services == {"worker", "autoResponse"}
People   == Messages \cup Interactions
Posts    == 1..MaxPosts

\* What Discord dispatches, and what the gateway makes of it.
Item  == [id : People \cup Posts, kind : {"message", "interaction"}, bot : BOOLEAN]
Event == [id : People \cup Posts, kind : {"message", "interaction"}, isBot : BOOLEAN]

\* An outbound message: what it answers, and which service answers.
Answers == [to : People \cup Posts, by : Services]

\* Discord gives every message and interaction an id of its own.
ASSUME IdsAssumption    == Messages \cap Interactions = {} /\ People \cap Posts = {}
ASSUME BoundsAssumption == MaxWritten \in Nat /\ MaxPosts \in Nat /\ MaxFaults \in Nat

VARIABLES
    emitted, queue, bound, unacked, conn, handler, posted, refused, gone,
    faults,    \* the gateway's way out: see Outbound
    written,   \* what people have sent
    posts,     \* how many messages the bot has posted
    feed,      \* what Discord has still to dispatch
    pub,       \* the gateway's way in: the publisher and the websocket
    up,        \* the services that are listening
    declared,  \* the services whose durable queue exists and is bound
    queues,    \* worker.queue and auto-response.queue
    handling,  \* the events each service is handling
    handled,   \* ghost: the events each service is done with
    dropped    \* ghost: the events that never reached or left a service

Out == INSTANCE Outbound WITH Msgs <- Answers

outward  == <<emitted, queue, bound, unacked, conn, handler, posted, refused, gone>>
services == <<up, declared, queues, handling, handled, dropped>>
inward   == <<written, posts, feed, pub, services>>
vars     == <<outward, faults, inward>>

------------------------------------------------------------------------------
(***************************************************************************)
(* Discord and the gateway's way in.                                       *)
(***************************************************************************)

Write(id) ==
    /\ id \in People \ written
    /\ Cardinality(written) < MaxWritten
    /\ written' = written \cup {id}
    /\ feed' = feed \cup
        {[id |-> id, kind |-> IF id \in Messages THEN "message" ELSE "interaction",
          bot |-> FALSE]}
    /\ UNCHANGED <<outward, faults, posts, pub, services>>

\* DiscordGatewayService.start: publisher.connect, then manager.connect.
ConnectPublisher ==
    /\ pub = "none"
    /\ pub' = "connected"
    /\ UNCHANGED <<outward, faults, written, posts, feed, services>>

ConnectManager ==
    /\ pub = "connected"
    /\ pub' = "listening"
    /\ UNCHANGED <<outward, faults, written, posts, feed, services>>

\* createDiscordMessageEvent, createDiscordInteractionEvent.
EventOf(i) == [id |-> i.id, kind |-> i.kind, isBot |-> i.bot]

\* The patterns the two services subscribe to.
Reaches(e, s) == e.kind = "message" \/ s = "worker"

\* Publishing on a closed channel throws, which is logged; the exchange
\* drops what no queue is bound for.
Routed(e) == {s \in declared : pub = "listening" /\ Reaches(e, s)}

\* One dispatch: mapped and published before the event loop turns.  A gateway
\* that is not connected to Discord misses it.
Dispatch(i) ==
    LET e == EventOf(i) IN
    /\ i \in feed
    /\ feed' = feed \ {i}
    /\ queues' = [s \in Services |-> IF s \in Routed(e) THEN Append(queues[s], e) ELSE queues[s]]
    /\ dropped' = [s \in Services |-> IF Reaches(e, s) /\ s \notin Routed(e)
                                      THEN dropped[s] \cup {e} ELSE dropped[s]]
    /\ UNCHANGED <<outward, faults, written, posts, pub, up, declared, handling, handled>>

------------------------------------------------------------------------------
(***************************************************************************)
(* The worker and the auto-response service.                               *)
(***************************************************************************)

\* bootstrap: hydrate (GuildSettings, TriggerCache), then listen.
Listen(s) ==
    /\ s \notin up
    /\ up' = up \cup {s}
    /\ declared' = declared \cup {s}
    /\ UNCHANGED <<outward, faults, written, posts, feed, pub, queues, handling, handled, dropped>>

\* MUTANT of Left: noAck: false, and nobody acknowledges.
LeftUnacked(q) == q
\* noAck: an event leaves the queue as it is delivered.
Left(q) == Tail(q)

\* The handler runs to its first await; the next event need not wait for it.
Receive(s) ==
    /\ s \in up
    /\ queues[s] # <<>>
    /\ queues' = [queues EXCEPT ![s] = Left(@)]
    /\ handling' = [handling EXCEPT ![s] = @ \cup {Head(queues[s])}]
    /\ UNCHANGED <<outward, faults, written, posts, feed, pub, up, declared, handled, dropped>>

Done(s, e) ==
    /\ e \in handling[s]
    /\ handling' = [handling EXCEPT ![s] = @ \ {e}]
    /\ handled' = [handled EXCEPT ![s] = @ \cup {e}]
    /\ UNCHANGED <<written, posts, feed, pub, up, declared, queues, dropped>>

\* MUTANT of Heard: only the command parser ignores bots.
HeardByScanner(s, e) == s = "autoResponse" \/ ~e.isBot
\* findReply and parseMessage: a bot's message is never answered.
Heard(s, e) == ~e.isBot

\* scanMessage, handleMessage, handleInteraction: one answer is emitted.
Reply(s, e) ==
    /\ Heard(s, e)
    /\ Out!Emit([to |-> e.id, by |-> s])
    /\ Done(s, e)

\* No trigger fires, no command is named, or the handler throws.
Ignore(s, e) ==
    /\ Done(s, e)
    /\ UNCHANGED <<outward, faults>>

\* Both queues are consumed with noAck: handlers in flight and the n messages
\* already pushed die with the process.
CrashService(s, n) ==
    LET q == queues[s] IN
    /\ s \in up
    /\ Out!FaultElsewhere
    /\ up' = up \ {s}
    /\ queues' = [queues EXCEPT ![s] = SubSeq(q, n + 1, Len(q))]
    /\ handling' = [handling EXCEPT ![s] = {}]
    /\ dropped' = [dropped EXCEPT ![s] = @ \cup handling[s] \cup ToSet(SubSeq(q, 1, n))]
    /\ UNCHANGED <<written, posts, feed, pub, declared, handled>>

------------------------------------------------------------------------------
(***************************************************************************)
(* The gateway's way out, and its failures.                                *)
(***************************************************************************)

\* A post is a message like any other: Discord dispatches it in its turn.
Post(m) ==
    /\ posts < MaxPosts
    /\ Out!Accept(m)
    /\ posts' = posts + 1
    /\ feed' = feed \cup {[id |-> posts + 1, kind |-> "message", bot |-> TRUE]}
    /\ UNCHANGED <<written, pub, services>>

Settle(m) ==
    /\ Out!Deliver(m) \/ Out!Answer(m) \/ Out!Refuse(m) \/ Out!Ack(m) \/ Out!Nack(m)
    /\ UNCHANGED inward

Consume ==
    /\ Out!Connect \/ Out!Consume
    /\ UNCHANGED inward

ConsumerFails ==
    /\ Out!Break \/ \E m \in Answers : Out!LoseAnswer(m)
    /\ UNCHANGED inward

PublisherBreaks ==
    /\ pub # "broken"
    /\ Out!FaultElsewhere
    /\ pub' = "broken"
    /\ UNCHANGED <<written, posts, feed, services>>

\* The events the gateway published are persistent and stay queued.
BrokerRestarts ==
    /\ Out!BrokerRestarts
    /\ pub' = IF pub = "none" THEN "none" ELSE "broken"
    /\ UNCHANGED <<written, posts, feed, services>>

CrashGateway ==
    /\ Out!Crash
    /\ pub' = "none"
    /\ UNCHANGED <<written, posts, feed, services>>

------------------------------------------------------------------------------
Init ==
    /\ Out!Init
    /\ written = {}
    /\ posts = 0
    /\ feed = {}
    /\ pub = "none"
    /\ up = {}
    /\ declared = {}
    /\ queues = [s \in Services |-> <<>>]
    /\ handling = [s \in Services |-> {}]
    /\ handled = [s \in Services |-> {}]
    /\ dropped = [s \in Services |-> {}]

Handle(s)      == \E e \in handling[s] : Reply(s, e) \/ Ignore(s, e)
Service(s)     == Listen(s) \/ Receive(s) \/ Handle(s)
GatewayStarts  == ConnectPublisher \/ ConnectManager
Outward(m)     == Post(m) \/ Settle(m)

Failure ==
    \/ ConsumerFails \/ PublisherBreaks \/ BrokerRestarts \/ CrashGateway
    \/ \E s \in Services : \E n \in 0..Len(queues[s]) : CrashService(s, n)

Next ==
    \/ \E id \in People : Write(id)
    \/ \E i \in feed : Dispatch(i)
    \/ GatewayStarts \/ Consume \/ Failure
    \/ \E s \in Services : Service(s)
    \/ \E m \in Answers : Outward(m)

Spec == Init /\ [][Next]_vars

\* Containers are restarted, event loops run, handlers return, and Discord
\* dispatches and answers.  People need not write and nothing need fail.
Fairness ==
    /\ WF_vars(GatewayStarts) /\ WF_vars(Consume)
    /\ WF_vars(\E i \in feed : Dispatch(i))
    /\ \A s \in Services : WF_vars(Service(s))
    /\ WF_vars(\E m \in Answers : Outward(m))

FairSpec == Spec /\ Fairness

------------------------------------------------------------------------------
(***************************************************************************)
(* Properties.                                                             *)
(***************************************************************************)

\* Every variable has its type, those of the gateway's way out included.
TypeOK ==
    /\ Out!TypeOK
    /\ written \in SUBSET People
    /\ posts \in 0..MaxPosts
    /\ feed \in SUBSET Item
    /\ pub \in {"none", "connected", "listening", "broken"}
    /\ up \in SUBSET Services /\ declared \in SUBSET Services
    /\ queues \in [Services -> Seq(Event)]
    /\ handling \in [Services -> SUBSET Event]
    /\ handled \in [Services -> SUBSET Event]
    /\ dropped \in [Services -> SUBSET Event]

\* The bot talks to people only: whatever its answers say, in whatever order
\* the services see them, nothing is sent in answer to a message of its own.
NoEcho == \A m \in emitted : m.to \in People

Where(s, id) ==
    {p \in {"queued", "handling", "handled", "dropped"} :
        \E e \in CASE p = "queued"   -> ToSet(queues[s])
                   [] p = "handling" -> handling[s]
                   [] p = "handled"  -> handled[s]
                   [] p = "dropped"  -> dropped[s] : e.id = id}

\* Each service sees each event at most once, through crashes and restarts:
\* an event is queued, being handled, handled or dropped, never two of these,
\* and an answer is sent only by the service that has handled its event.
SeenOnce ==
    \A s \in Services :
        /\ IsInjective(queues[s])
        /\ \A id \in People \cup Posts : Cardinality(Where(s, id)) <= 1
        /\ \A m \in emitted : m.by = s => Where(s, m.to) = {"handled"}

\* Every conversation ends: once people stop writing, nothing is left to
\* dispatch, to handle or to post, unless the consumer's connection broke.
Quiet ==
    /\ feed = {}
    /\ \A s \in Services : queues[s] = <<>> /\ handling[s] = {}
    /\ conn = "broken" \/ (queue = {} /\ unacked = {})

EventuallyQuiet == <>[]Quiet
==============================================================================
