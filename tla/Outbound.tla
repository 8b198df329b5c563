------------------------------- MODULE Outbound -------------------------------
(***************************************************************************)
(* Outbound messages: from the services that emit them, through the        *)
(* durable gateway.queue, to Discord.                                      *)
(*                                                                         *)
(* The gateway's RabbitMqConsumer is the only manual acknowledger of the   *)
(* system: it takes every message the broker pushes (no prefetch), has     *)
(* DiscordOutboundService post it and then acks it, or nacks it without    *)
(* requeueing when anything threw.  It is started once; a connection that  *)
(* breaks is never replaced, while index.ts keeps the process alive by     *)
(* logging uncaught errors.                                                *)
(*                                                                         *)
(* A message is in the queue at most once, and no property depends on the  *)
(* order of different messages: the queue is a set.                        *)
(*                                                                         *)
(* External: RabbitMQ, Discord, and @discordjs/rest, which retries a post  *)
(* whose answer is lost.                                                   *)
(***************************************************************************)
EXTENDS Naturals

CONSTANTS
    Msgs,      \* the outbound messages, each emitted once
    MaxFaults  \* broken connections, crashes and lost answers

ASSUME FaultsAssumption == MaxFaults \in Nat

VARIABLES
    emitted,  \* the messages a service has emitted
    queue,    \* gateway.queue: the messages ready to be delivered
    bound,    \* whether the queue has been declared and bound
    unacked,  \* delivered on the open connection and not settled
    conn,     \* the consumer: its connection and channel
    handler,  \* where handleMessage is with each message
    posted,   \* how often Discord has accepted each message
    refused,  \* the messages that were nacked for good
    gone,     \* ghost: messages the exchange or a broker restart dropped
    faults

vars == <<emitted, queue, bound, unacked, conn, handler, posted, refused, gone, faults>>

Fault == faults > 0 /\ faults' = faults - 1

------------------------------------------------------------------------------
\* ClientProxy.emit: the exchange drops what no queue is bound for.
Emit(m) ==
    /\ m \notin emitted
    /\ emitted' = emitted \cup {m}
    /\ IF bound THEN queue' = queue \cup {m} /\ UNCHANGED gone
                ELSE gone' = gone \cup {m} /\ UNCHANGED queue
    /\ UNCHANGED <<bound, unacked, conn, handler, posted, refused, faults>>

------------------------------------------------------------------------------
(***************************************************************************)
(* RabbitMqConsumer.                                                       *)
(***************************************************************************)

\* start(), up to the channel it keeps in this.channel.
Connect ==
    /\ conn = "none"
    /\ conn' = "open"
    /\ UNCHANGED <<emitted, queue, bound, unacked, handler, posted, refused, gone, faults>>

\* start(), from assertQueue to consume.
Consume ==
    /\ conn = "open"
    /\ conn' = "consuming"
    /\ bound' = TRUE
    /\ UNCHANGED <<emitted, queue, unacked, handler, posted, refused, gone, faults>>

\* MUTANT of Delivered: consume with noAck: true.
DeliveredSettled(m) == unacked
Delivered(m) == unacked \cup {m}

\* handleMessage up to the post of DiscordOutboundService.
Deliver(m) ==
    /\ conn = "consuming"
    /\ m \in queue
    /\ queue' = queue \ {m}
    /\ unacked' = Delivered(m)
    /\ handler' = [handler EXCEPT ![m] = "posting"]
    /\ UNCHANGED <<emitted, bound, conn, posted, refused, gone, faults>>

\* MUTANT of Acked: a message that was posted is requeued.
AckedBack(q, m) == q \cup {m}
\* MUTANT of Nacked: nack with requeue.
NackedBack(q, m) == q \cup {m}
\* What ack and nack(message, false, false) put back: nothing.
Acked(q, m) == q
Nacked(q, m) == q

Settled(m) == unacked \ {m}

\* The post was answered: channel.ack.  On a broken channel ack throws, and
\* so does the nack of the catch clause: the rejection is only logged.
Ack(m) ==
    /\ handler[m] = "answered"
    /\ handler' = [handler EXCEPT ![m] = "none"]
    /\ IF conn = "consuming" THEN /\ unacked' = Settled(m)
                                  /\ queue' = Acked(queue, m)
                             ELSE UNCHANGED <<unacked, queue>>
    /\ UNCHANGED <<emitted, bound, conn, posted, refused, gone, faults>>

\* The post threw: channel.nack without requeue.
Nack(m) ==
    /\ handler[m] = "threw"
    /\ handler' = [handler EXCEPT ![m] = "none"]
    /\ IF conn = "consuming" THEN /\ unacked' = Settled(m)
                                  /\ queue' = Nacked(queue, m)
                             ELSE UNCHANGED <<unacked, queue>>
    /\ refused' = IF conn = "consuming" /\ queue' = queue THEN refused \cup {m} ELSE refused
    /\ UNCHANGED <<emitted, bound, conn, posted, gone, faults>>

------------------------------------------------------------------------------
(***************************************************************************)
(* Discord, behind @discordjs/rest.                                        *)
(***************************************************************************)

Accept(m) ==
    /\ handler[m] = "posting"
    /\ posted' = [posted EXCEPT ![m] = @ + 1]
    /\ handler' = [handler EXCEPT ![m] = "accepted"]
    /\ UNCHANGED <<emitted, queue, bound, unacked, conn, refused, gone, faults>>

Answer(m) ==
    /\ handler[m] = "accepted"
    /\ handler' = [handler EXCEPT ![m] = "answered"]
    /\ UNCHANGED <<emitted, queue, bound, unacked, conn, posted, refused, gone, faults>>

\* No permission, an expired interaction, a channel that is gone.
Refuse(m) ==
    /\ handler[m] = "posting"
    /\ handler' = [handler EXCEPT ![m] = "threw"]
    /\ UNCHANGED <<emitted, queue, bound, unacked, conn, posted, refused, gone, faults>>

\* The answer never arrives: the REST client posts again, or gives up.
LoseAnswer(m) ==
    /\ handler[m] = "accepted"
    /\ Fault
    /\ \E next \in {"posting", "threw"} : handler' = [handler EXCEPT ![m] = next]
    /\ UNCHANGED <<emitted, queue, bound, unacked, conn, posted, refused, gone>>

------------------------------------------------------------------------------
(***************************************************************************)
(* Failures.  What was delivered and not settled goes back to the queue.   *)
(***************************************************************************)

Requeue == queue' = queue \cup unacked /\ unacked' = {}

\* The connection breaks, or start() throws.  Handlers run on; this.channel
\* stays set, so start() would return at once, and nobody calls it.
Break ==
    /\ conn \in {"none", "open", "consuming"}
    /\ Fault
    /\ conn' = "broken"
    /\ Requeue
    /\ UNCHANGED <<emitted, bound, handler, posted, refused, gone>>

\* RabbitMQ restarts: the queue is durable, the messages in it are not.
BrokerRestarts ==
    /\ Fault
    /\ conn' = IF conn = "none" THEN "none" ELSE "broken"
    /\ gone' = gone \cup queue \cup unacked
    /\ queue' = {} /\ unacked' = {}
    /\ UNCHANGED <<emitted, bound, handler, posted, refused>>

\* The process exits, whatever state its connection is in; Docker starts it
\* anew.
Crash ==
    /\ Fault
    /\ conn' = "none"
    /\ handler' = [m \in Msgs |-> "none"]
    /\ Requeue
    /\ UNCHANGED <<emitted, bound, posted, refused, gone>>

\* A fault that hits another part of the system.
FaultElsewhere ==
    /\ Fault
    /\ UNCHANGED <<emitted, queue, bound, unacked, conn, handler, posted, refused, gone>>

------------------------------------------------------------------------------
Init ==
    /\ emitted = {}
    /\ queue = {}
    /\ bound = FALSE
    /\ unacked = {}
    /\ conn = "none"
    /\ handler = [m \in Msgs |-> "none"]
    /\ posted = [m \in Msgs |-> 0]
    /\ refused = {}
    /\ gone = {}
    /\ faults = MaxFaults

Handling(m) == Deliver(m) \/ Accept(m) \/ Answer(m) \/ Refuse(m) \/ Ack(m) \/ Nack(m)
Consumer    == Connect \/ Consume \/ \E m \in Msgs : Handling(m)
Failure     == Break \/ BrokerRestarts \/ Crash \/ FaultElsewhere \/ \E m \in Msgs : LoseAnswer(m)

Next == Consumer \/ Failure \/ \E m \in Msgs : Emit(m)

Spec == Init /\ [][Next]_vars

\* The process is started by Docker, its event loop runs, the broker delivers
\* and Discord answers one way or the other.  Nothing mends a broken
\* connection.
Fairness ==
    /\ WF_vars(Connect) /\ WF_vars(Consume)
    /\ \A m \in Msgs : WF_vars(Handling(m))

FairSpec == Spec /\ Fairness

------------------------------------------------------------------------------
(***************************************************************************)
(* Properties.                                                             *)
(***************************************************************************)

TypeOK ==
    /\ emitted \in SUBSET Msgs
    /\ queue \in SUBSET emitted
    /\ bound \in BOOLEAN
    /\ unacked \in SUBSET emitted
    /\ conn \in {"none", "open", "consuming", "broken"}
    /\ handler \in [Msgs -> {"none", "posting", "accepted", "answered", "threw"}]
    /\ posted \in [Msgs -> 0..(MaxFaults + 1)]
    /\ refused \in SUBSET emitted
    /\ gone \in SUBSET emitted
    /\ faults \in 0..MaxFaults

\* Whatever breaks in the gateway, a message that reached the queue is still
\* there, or held unsettled by the broker, or was posted, or was refused.
NothingLost ==
    \A m \in emitted \ gone :
        \/ m \in queue \cup unacked \cup refused
        \/ posted[m] > 0

\* A message is posted at most once, and once more for every fault.
FewDuplicates == \A m \in Msgs : posted[m] <= 1 + (MaxFaults - faults)

\* No delivery is forgotten: while the broker waits for it to be settled, a
\* handler is at it, and no message is at the same time queued again.
NoneForgotten ==
    /\ \A m \in unacked : handler[m] # "none"
    /\ queue \cap unacked = {}

\* A message that is queued is posted or refused in the end, unless the
\* connection of a gateway that keeps running broke.
EventuallySettled ==
    \A m \in Msgs :
        m \in emitted ~> (posted[m] > 0 \/ m \in refused \cup gone \/ conn = "broken")

------------------------------------------------------------------------------
(***************************************************************************)
(* The inductive invariant behind the three.                               *)
(***************************************************************************)

\* Handlers and unsettled deliveries go together while the consumer listens;
\* after a break handlers may run on, with nothing left to settle.
HandlersInStep ==
    /\ \A m \in Msgs : handler[m] # "none" => m \in emitted
    /\ \A m \in Msgs : handler[m] \in {"accepted", "answered"} => posted[m] > 0
    /\ conn \in {"none", "open"} => \A m \in Msgs : handler[m] = "none"
    /\ conn # "consuming" => unacked = {}
    /\ conn = "consuming" => \A m \in Msgs : handler[m] # "none" <=> m \in unacked

\* The posts of m that may still follow without another fault.
Coming(m) == (IF m \in emitted THEN 0 ELSE 1) + (IF m \in queue THEN 1 ELSE 0)
                 + (IF handler[m] = "posting" THEN 1 ELSE 0)

PostsInStep == \A m \in Msgs : posted[m] + Coming(m) <= 1 + (MaxFaults - faults)

OutboundInv == NothingLost /\ NoneForgotten /\ HandlersInStep /\ PostsInStep
==============================================================================
