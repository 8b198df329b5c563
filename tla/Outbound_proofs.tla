--------------------------- MODULE Outbound_proofs ---------------------------
(***************************************************************************)
(* Proofs about Outbound, for any number of messages and faults: no        *)
(* failure of the gateway loses a message that reached its queue, and no   *)
(* message is posted more often than faults explain.                       *)
(***************************************************************************)
EXTENDS Outbound, TLAPS

\* What TypeOK says of each variable but posted, whose bound needs
\* PostsInStep.
Types ==
    /\ emitted \in SUBSET Msgs
    /\ queue \in SUBSET emitted /\ unacked \in SUBSET emitted
    /\ bound \in BOOLEAN
    /\ conn \in {"none", "open", "consuming", "broken"}
    /\ handler \in [Msgs -> {"none", "posting", "accepted", "answered", "threw"}]
    /\ posted \in [Msgs -> Nat]
    /\ refused \in SUBSET emitted
    /\ gone \in SUBSET emitted
    /\ faults \in 0..MaxFaults

IInv == Types /\ OutboundInv

LEMMA Initially == Init => IInv
<1> SUFFICES ASSUME Init
             PROVE  IInv
  OBVIOUS
<1>1. MaxFaults \in Nat
  BY FaultsAssumption
<1>2. Types
  <2>1. faults \in 0..MaxFaults
    BY <1>1 DEF Init
  <2>2. /\ handler \in [Msgs -> {"none", "posting", "accepted", "answered", "threw"}]
        /\ posted \in [Msgs -> Nat]
    BY DEF Init
  <2>. QED BY <2>1, <2>2 DEF Init, Types
<1>3. NothingLost /\ NoneForgotten
  BY DEF Init, NothingLost, NoneForgotten
<1>4. HandlersInStep
  BY DEF Init, HandlersInStep
<1>5. PostsInStep
  <2> SUFFICES ASSUME NEW m \in Msgs
               PROVE  posted[m] + Coming(m) <= 1 + (MaxFaults - faults)
    BY DEF PostsInStep
  <2>1. posted[m] = 0 /\ Coming(m) = 1
    BY DEF Init, Coming
  <2>2. MaxFaults - faults = 0
    BY <1>1 DEF Init
  <2>. QED BY <2>1, <2>2
<1>. QED BY <1>2, <1>3, <1>4, <1>5 DEF IInv, OutboundInv

\* No step disturbs the types.
LEMMA TypesKept == IInv /\ [Next]_vars => Types'
<1> SUFFICES ASSUME IInv, [Next]_vars
             PROVE  Types'
  OBVIOUS
<1> USE DEF IInv, Types
<1>1. ASSUME NEW m \in Msgs, Emit(m) PROVE Types'
  BY <1>1 DEF Emit
<1>2. CASE Connect \/ Consume
  BY <1>2 DEF Connect, Consume
<1>3. ASSUME NEW m \in Msgs, Deliver(m) PROVE Types'
  BY <1>3 DEF Deliver, Delivered
<1>4. ASSUME NEW m \in Msgs, Ack(m) \/ Nack(m) PROVE Types'
  <2>1. m \in emitted
    BY <1>4 DEF Ack, Nack, OutboundInv, HandlersInStep
  <2>. QED BY <1>4, <2>1 DEF Ack, Nack, Acked, Nacked, Settled
<1>5. ASSUME NEW m \in Msgs, Accept(m) \/ Answer(m) \/ Refuse(m) PROVE Types'
  BY <1>5 DEF Accept, Answer, Refuse
<1>6. ASSUME NEW m \in Msgs, LoseAnswer(m) PROVE Types'
  BY <1>6, FaultsAssumption DEF LoseAnswer, Fault
<1>7. CASE Break \/ BrokerRestarts \/ Crash \/ FaultElsewhere
  BY <1>7, FaultsAssumption DEF Break, BrokerRestarts, Crash, FaultElsewhere, Requeue, Fault
<1>8. CASE UNCHANGED vars
  BY <1>8 DEF vars
<1>. QED
  BY <1>1, <1>2, <1>3, <1>4, <1>5, <1>6, <1>7, <1>8 DEF Next, Consumer, Handling, Failure

\* Nor what handlers, deliveries and the queue have to do with each other.
LEMMA DeliveriesKept ==
    IInv /\ [Next]_vars => NothingLost' /\ NoneForgotten' /\ HandlersInStep'
<1> SUFFICES ASSUME IInv, [Next]_vars
             PROVE  NothingLost' /\ NoneForgotten' /\ HandlersInStep'
  OBVIOUS
<1> DEFINE Kept == NothingLost' /\ NoneForgotten' /\ HandlersInStep'
<1> USE DEF IInv, Types, OutboundInv, NothingLost, NoneForgotten, HandlersInStep
<1>1. ASSUME NEW m \in Msgs, Emit(m) PROVE Kept
  BY <1>1 DEF Emit
<1>2. CASE Connect \/ Consume
  BY <1>2 DEF Connect, Consume
<1>3. ASSUME NEW m \in Msgs, Deliver(m) PROVE Kept
  BY <1>3 DEF Deliver, Delivered
<1>4. ASSUME NEW m \in Msgs, Ack(m) PROVE Kept
  BY <1>4 DEF Ack, Acked, Settled
<1>5. ASSUME NEW m \in Msgs, Nack(m) PROVE Kept
  BY <1>5 DEF Nack, Nacked, Settled
<1>6. ASSUME NEW m \in Msgs, Accept(m) PROVE Kept
  BY <1>6 DEF Accept
<1>7. ASSUME NEW m \in Msgs, Answer(m) \/ Refuse(m) PROVE Kept
  BY <1>7 DEF Answer, Refuse
<1>8. ASSUME NEW m \in Msgs, LoseAnswer(m) PROVE Kept
  BY <1>8 DEF LoseAnswer, Fault
<1>9. CASE Break
  BY <1>9 DEF Break, Requeue, Fault
<1>10. CASE BrokerRestarts
  BY <1>10 DEF BrokerRestarts, Fault
<1>11. CASE Crash
  BY <1>11 DEF Crash, Requeue, Fault
<1>12. CASE FaultElsewhere \/ UNCHANGED vars
  BY <1>12 DEF FaultElsewhere, vars
<1>. QED
  BY <1>1, <1>2, <1>3, <1>4, <1>5, <1>6, <1>7, <1>8, <1>9, <1>10, <1>11, <1>12
     DEF Next, Consumer, Handling, Failure

\* A step that is not a fault spends a coming post; a fault adds one at most.
LEMMA PostsKept == IInv /\ [Next]_vars => PostsInStep'
<1> SUFFICES ASSUME IInv, [Next]_vars, NEW p \in Msgs
             PROVE  (posted[p] + Coming(p) <= 1 + (MaxFaults - faults))'
  BY DEF PostsInStep
<1> DEFINE Kept == (posted[p] + Coming(p) <= 1 + (MaxFaults - faults))'
<1>0. /\ posted[p] \in Nat /\ faults \in Nat /\ MaxFaults \in Nat /\ Types
      /\ posted[p] + Coming(p) <= 1 + (MaxFaults - faults)
  BY FaultsAssumption DEF IInv, Types, OutboundInv, PostsInStep
<1> USE <1>0 DEF Types, Coming
<1>1. ASSUME NEW m \in Msgs, Emit(m) PROVE Kept
  BY <1>1 DEF Emit
<1>2. CASE Connect \/ Consume
  BY <1>2 DEF Connect, Consume
<1>3. ASSUME NEW m \in Msgs, Deliver(m) PROVE Kept
  BY <1>3 DEF Deliver
<1>4. ASSUME NEW m \in Msgs, Ack(m) \/ Nack(m) PROVE Kept
  BY <1>4 DEF Ack, Nack, Acked, Nacked
<1>5. ASSUME NEW m \in Msgs, Accept(m) PROVE Kept
  <2>1. CASE m = p
    BY <1>5, <2>1 DEF Accept
  <2>2. CASE m # p
    BY <1>5, <2>2 DEF Accept
  <2>. QED BY <2>1, <2>2
<1>6. ASSUME NEW m \in Msgs, Answer(m) \/ Refuse(m) PROVE Kept
  BY <1>6 DEF Answer, Refuse
<1>7. ASSUME NEW m \in Msgs, LoseAnswer(m) PROVE Kept
  BY <1>7 DEF LoseAnswer, Fault
<1>8. CASE Break
  <2>1. p \in unacked => p \notin queue
    BY DEF IInv, OutboundInv, NoneForgotten
  <2>. QED BY <1>8, <2>1 DEF Break, Requeue, Fault
<1>9. CASE BrokerRestarts
  BY <1>9 DEF BrokerRestarts, Fault
<1>10. CASE Crash
  BY <1>10 DEF Crash, Requeue, Fault
<1>11. CASE FaultElsewhere \/ UNCHANGED vars
  BY <1>11 DEF FaultElsewhere, Fault, vars
<1>. QED
  BY <1>1, <1>2, <1>3, <1>4, <1>5, <1>6, <1>7, <1>8, <1>9, <1>10, <1>11
     DEF Next, Consumer, Handling, Failure

LEMMA Invariance == Spec => []IInv
<1>1. IInv /\ [Next]_vars => IInv'
  BY TypesKept, DeliveriesKept, PostsKept DEF IInv, OutboundInv
<1>. QED BY <1>1, Initially, PTL DEF Spec

\* Every variable has its type; the number of posts is bounded by the faults.
THEOREM TypeCorrect == Spec => []TypeOK
<1>1. IInv => TypeOK
  <2> SUFFICES ASSUME IInv
               PROVE  TypeOK
    OBVIOUS
  <2>1. ASSUME NEW m \in Msgs
        PROVE  posted[m] \in 0..(MaxFaults + 1)
    <3>1. posted[m] \in Nat /\ faults \in 0..MaxFaults
          /\ posted[m] + Coming(m) <= 1 + (MaxFaults - faults)
      BY DEF IInv, Types, OutboundInv, PostsInStep
    <3>. QED BY <3>1, FaultsAssumption DEF Coming
  <2>. QED BY <2>1 DEF IInv, Types, TypeOK
<1>. QED BY <1>1, Invariance, PTL

\* Crashes, broken connections and lost answers of the gateway, in any order
\* and number, lose no message that the queue took.
THEOREM NoLoss == Spec => []NothingLost
<1>1. IInv => NothingLost
  BY DEF IInv, OutboundInv
<1>. QED BY <1>1, Invariance, PTL

\* A message is posted once, and once more at most for each fault.
THEOREM Duplicates == Spec => []FewDuplicates
<1>1. IInv => FewDuplicates
  <2> SUFFICES ASSUME IInv, NEW m \in Msgs
               PROVE  posted[m] <= 1 + (MaxFaults - faults)
    BY DEF FewDuplicates
  <2>1. posted[m] \in Nat /\ faults \in 0..MaxFaults
        /\ posted[m] + Coming(m) <= 1 + (MaxFaults - faults)
    BY DEF IInv, Types, OutboundInv, PostsInStep
  <2>. QED BY <2>1, FaultsAssumption DEF Coming
<1>. QED BY <1>1, Invariance, PTL

\* Every unsettled delivery has a handler that will settle it.
THEOREM Remembered == Spec => []NoneForgotten
<1>1. IInv => NoneForgotten
  BY DEF IInv, OutboundInv
<1>. QED BY <1>1, Invariance, PTL
==============================================================================
