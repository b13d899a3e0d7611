----------------------- MODULE CandidateBatchingProofs -----------------------
(***************************************************************************)
(* CandidateBatching implements CandidateDelivery, for every set of calls, *)
(* destinations and correlation ids.                                       *)
(***************************************************************************)
EXTENDS CandidateBatching, SequenceTheorems, TLAPS

\* A call that was not made left no trace
UnusedCalls ==
    \A c \in Call : key[c] = None =>
        /\ awaited[c] = None
        /\ sent[c] = <<>>
        /\ c \notin timers
        /\ \A d \in Call : awaited[d] # c

\* A call waits for the promise of the queue, or of the batch, it is in
CallsAwaitTheirBatch ==
    /\ \A k \in Key, c \in Call :
          c \in Range(queuedCandidates[k]) <=>
              awaited[c] # None /\ awaited[c] = deliveryPromises[k]
    /\ \A p \in Call : sent[p] # <<>> =>
          \A c \in Call : c \in Range(sent[p]) <=> awaited[c] = p

\* A promise settles only after its timer, which runs once
PromisesAreSettledLate ==
    /\ \A p \in timers : sent[p] = <<>>
    /\ \A p \in Call : settled[p] # "pending" => sent[p] # <<>>

BInv ==
    /\ TypeOK
    /\ QueuesHaveTimers
    /\ UnusedCalls
    /\ CallsAwaitTheirBatch
    /\ PromisesAreSettledLate

-----------------------------------------------------------------------------
\* What is in a queue after one more call
LEMMA RangeOfAppend ==
  ASSUME NEW S, NEW s \in Seq(S), NEW e
  PROVE  Range(Append(s, e)) = Range(s) \cup {e}
<1>1. /\ DOMAIN s = 1..Len(s)
      /\ DOMAIN Append(s, e) = 1..(Len(s) + 1)
      /\ Len(s) \in Nat
      /\ \A i \in 1..Len(s) : Append(s, e)[i] = s[i]
      /\ Append(s, e)[Len(s) + 1] = e
  OBVIOUS
<1>2. 1..(Len(s) + 1) = 1..Len(s) \cup {Len(s) + 1}
  BY <1>1
<1>3. QED
  BY <1>1, <1>2 DEF Range

\* A queue that was appended to exists
LEMMA AppendIsANonEmptySeq ==
  ASSUME NEW S, NEW s \in Seq(S), NEW e \in S
  PROVE  Append(s, e) # <<>> /\ Append(s, e) \in Seq(S)
  BY AppendProperties

\* There are no calls in an empty queue
LEMMA RangeOfEmpty == Range(<<>>) = {}
  BY DEF Range

\* Without calls the invariant holds
LEMMA InitBInv == Init => BInv
  BY RangeOfEmpty, NoneAssumption
  DEF Init, BInv, TypeOK, QueuesHaveTimers, UnusedCalls, CallsAwaitTheirBatch,
      PromisesAreSettledLate, Outcome

\* sendIceCandidates keeps the invariant, for a first and for a later call
LEMMA SendBInv ==
  ASSUME BInv, NEW c \in Call, NEW k \in Key, SendIceCandidates(c, k)
  PROVE  BInv'
<1> DEFINE first == queuedCandidates[k] = <<>>
           p == IF first THEN c ELSE deliveryPromises[k]
<1> USE NoneAssumption DEF BInv, TypeOK
<1>1. /\ key[c] = None /\ c \notin timers /\ awaited[c] = None
      /\ \A d \in Call : awaited[d] # c
      /\ sent[c] = <<>>
  BY DEF SendIceCandidates, UnusedCalls, Extended
<1>2. /\ deliveryPromises' = [deliveryPromises EXCEPT ![k] = p]
      /\ awaited' = [awaited EXCEPT ![c] = p]
      /\ p \in Call
      /\ timers' = timers \cup {p}
      /\ key'[p] = k
  BY DEF SendIceCandidates, QueuesHaveTimers, Extended
<1>3. queuedCandidates'[k] = Append(queuedCandidates[k], c)
  BY DEF SendIceCandidates, Extended
<1>4. /\ Append(queuedCandidates[k], c) # <<>>
      /\ Append(queuedCandidates[k], c) \in Seq(Call)
  <2>1. queuedCandidates[k] \in Seq(Call)
    OBVIOUS
  <2>2. QED
    BY <2>1, AppendIsANonEmptySeq
<1>5. TypeOK'
  BY <1>2, <1>4 DEF SendIceCandidates, Outcome, Extended
<1>6. QueuesHaveTimers'
  BY <1>1, <1>2, <1>3, <1>4 DEF SendIceCandidates, QueuesHaveTimers, Extended
<1>7. UnusedCalls'
  BY <1>1, <1>2 DEF SendIceCandidates, UnusedCalls, QueuesHaveTimers, Extended
<1>8. CallsAwaitTheirBatch'
  <2>1. Range(queuedCandidates'[k]) = Range(queuedCandidates[k]) \cup {c}
    BY <1>3, RangeOfAppend
  <2>2. \A j \in Key : j # k => deliveryPromises[j] # p
    BY <1>1, <1>2 DEF QueuesHaveTimers
  <2>3. sent[p] = <<>>
    BY <1>1, <1>2 DEF QueuesHaveTimers, PromisesAreSettledLate
  <2>4. QED
    BY <1>1, <1>2, <2>1, <2>2, <2>3, RangeOfEmpty
    DEF SendIceCandidates, CallsAwaitTheirBatch, QueuesHaveTimers, Extended
<1>9. PromisesAreSettledLate'
  BY <1>1, <1>2 DEF SendIceCandidates, PromisesAreSettledLate,
                    QueuesHaveTimers, Extended
<1>10. QED
  BY <1>5, <1>6, <1>7, <1>8, <1>9

\* A timer that fires keeps the invariant, and finds a queue to send
LEMMA TimerBInv ==
  ASSUME BInv, NEW p \in Call, TimerFires(p)
  PROVE  /\ BInv'
         /\ key[p] \in Key
         /\ queuedCandidates[key[p]] # <<>>
<1> DEFINE k == key[p]
<1> USE NoneAssumption DEF BInv, TypeOK
<1>1. k \in Key /\ deliveryPromises[k] = p /\ queuedCandidates[k] # <<>>
  BY DEF TimerFires, QueuesHaveTimers, UnusedCalls, PromiseLeft
<1>2. /\ queuedCandidates' = [queuedCandidates EXCEPT ![k] = <<>>]
      /\ deliveryPromises' = [deliveryPromises EXCEPT ![k] = None]
      /\ sent' = [sent EXCEPT ![p] = queuedCandidates[k]]
      /\ timers' = timers \ {p}
      /\ UNCHANGED <<key, awaited, settled>>
  BY <1>1 DEF TimerFires, PromiseLeft
<1>3. TypeOK' /\ QueuesHaveTimers' /\ UnusedCalls' /\ PromisesAreSettledLate'
  BY <1>1, <1>2 DEF QueuesHaveTimers, UnusedCalls, PromisesAreSettledLate
<1>4. CallsAwaitTheirBatch'
  BY <1>1, <1>2, RangeOfEmpty DEF CallsAwaitTheirBatch
<1>5. QED
  BY <1>1, <1>3, <1>4

\* Settling the promise of a batch keeps the invariant
LEMMA SettleBInv ==
  ASSUME BInv, NEW p \in Call, NEW outcome \in Outcome, DeliverySettles(p, outcome)
  PROVE  BInv'
  BY DEF BInv, TypeOK, QueuesHaveTimers, UnusedCalls, CallsAwaitTheirBatch,
         PromisesAreSettledLate, DeliverySettles, queues

\* Calls, queues, promises and timers stay as BInv has them
THEOREM BatchingInvariant == Spec => []BInv
<1>1. BInv /\ [Next]_vars => BInv'
  <2>1. ASSUME BInv, UNCHANGED vars PROVE BInv'
    BY <2>1
    DEF vars, queues, BInv, TypeOK, QueuesHaveTimers, UnusedCalls,
        CallsAwaitTheirBatch, PromisesAreSettledLate
  <2>2. QED
    BY <2>1, SendBInv, TimerBInv, SettleBInv DEF Next
<1>2. QED
  BY InitBInv, <1>1, PTL DEF Spec

\* Queues hold calls, and promises are named after calls, in every state
THEOREM BatchingTypeCorrect == Spec => []TypeOK
<1>1. BInv => TypeOK
  BY DEF BInv
<1>2. QED
  BY <1>1, BatchingInvariant, PTL

\* The records of a key agree: the "should never happen" throw never does
THEOREM QueuesAlwaysHaveTimers == Spec => []QueuesHaveTimers
<1>1. BInv => QueuesHaveTimers
  BY DEF BInv
<1>2. QED
  BY <1>1, BatchingInvariant, PTL

-----------------------------------------------------------------------------
(* The refinement: a firing timer is a post, all else has its own name. *)
Batches == {<<key[p], sent[p]>> : p \in {c \in Call : sent[c] # <<>>}}

Result == [c \in Call |-> IF awaited[c] = None THEN "unsent"
                          ELSE settled[awaited[c]]]

\* A new service has nothing waiting, posted or pending
LEMMA InitRefines == Init => Delivery!Init
  BY DEF Init, Delivery!Init

\* sendIceCandidates is a Send: its promise is new or that of a waiting batch
LEMMA SendRefines ==
  ASSUME BInv, NEW c \in Call, NEW k \in Key, SendIceCandidates(c, k)
  PROVE  Delivery!Send(c, k)
<1> DEFINE p == IF queuedCandidates[k] = <<>> THEN c ELSE deliveryPromises[k]
<1> USE NoneAssumption DEF BInv, TypeOK
<1>1. /\ key[c] = None /\ c \notin timers /\ awaited[c] = None
      /\ \A d \in Call : awaited[d] # c
      /\ sent[c] = <<>>
  BY DEF SendIceCandidates, UnusedCalls, Extended
<1>2. p \in Call /\ awaited' = [awaited EXCEPT ![c] = p] /\ sent[p] = <<>>
  BY <1>1 DEF SendIceCandidates, QueuesHaveTimers, PromisesAreSettledLate,
              Extended
<1>3. settled[p] = "pending" /\ settled' = settled
  BY <1>2 DEF PromisesAreSettledLate, SendIceCandidates, Extended
<1> HIDE DEF p
<1>4. Result[c] = "unsent" /\ Result' = [Result EXCEPT ![c] = "pending"]
  <2>1. Result[c] = "unsent"
    BY <1>1 DEF Result
  <2>2. awaited'[c] # None /\ settled'[awaited'[c]] = "pending"
    BY <1>2, <1>3
  <2>3. \A d \in Call \ {c} : awaited'[d] = awaited[d]
    BY <1>2
  <2>4. QED
    BY <1>3, <2>1, <2>2, <2>3 DEF Result
<1>5. Batches' = Batches
  BY <1>1 DEF Batches, SendIceCandidates, Extended
<1>6. queuedCandidates' = [queuedCandidates EXCEPT ![k] = Append(@, c)]
  BY DEF SendIceCandidates, Extended
<1>7. QED
  BY <1>4, <1>5, <1>6 DEF Delivery!Send, Batches, Result

\* The timer's callback is a Post of all that waits for its key
LEMMA TimerRefines ==
  ASSUME BInv, NEW p \in Call, TimerFires(p)
  PROVE  \E k \in Key : Delivery!Post(k)
<1> USE DEF BInv, TypeOK
<1>1. PICK k \in Key : k = key[p] /\ queuedCandidates[k] # <<>>
  BY TimerBInv
<1>2. /\ queuedCandidates' = [queuedCandidates EXCEPT ![k] = <<>>]
      /\ sent' = [sent EXCEPT ![p] = queuedCandidates[k]]
      /\ UNCHANGED <<key, awaited, settled>>
  BY <1>1 DEF TimerFires, PromiseLeft
<1>3. sent[p] = <<>>
  BY DEF TimerFires, PromisesAreSettledLate, PromiseLeft
<1>4. Batches' = Batches \cup {<<k, queuedCandidates[k]>>}
  BY <1>1, <1>2, <1>3 DEF Batches
<1>5. Result' = Result
  BY <1>2 DEF Result
<1>6. QED
  BY <1>1, <1>2, <1>4, <1>5 DEF Delivery!Post, Batches, Result

\* The settling of a post settles the calls it carried and no others
LEMMA SettleRefines ==
  ASSUME BInv, NEW p \in Call, NEW outcome \in Outcome, DeliverySettles(p, outcome)
  PROVE  \E batch \in Batches : Delivery!Settle(batch, outcome)
<1> USE NoneAssumption DEF BInv, TypeOK
<1>1. PICK batch \in Batches : batch = <<key[p], sent[p]>>
  BY DEF DeliverySettles, Batches
<1>2. sent[p] # <<>> /\ settled[p] = "pending" /\ batch[2] = sent[p]
  BY <1>1 DEF DeliverySettles
<1>3. \A c \in Call : c \in Range(sent[p]) <=> awaited[c] = p
  BY <1>2 DEF CallsAwaitTheirBatch
<1>4. Range(batch[2]) \subseteq Call
  BY <1>2 DEF Range
<1>5. \A c \in Range(batch[2]) : Result[c] = "pending"
  BY <1>2, <1>3, <1>4 DEF Result
<1>6. Result' = [c \in Call |-> IF c \in Range(batch[2]) THEN outcome ELSE Result[c]]
  BY <1>2, <1>3 DEF Result, DeliverySettles, queues
<1>7. UNCHANGED <<queuedCandidates, Batches>>
  BY DEF DeliverySettles, queues, Batches
<1>8. QED
  BY <1>1, <1>5, <1>6, <1>7 DEF Delivery!Settle, Delivery!Range, Range, Batches, Result

(***************************************************************************)
(* IceCandidateBatchingSignallingService delivers what it is given: the    *)
(* behaviours of CandidateBatching are behaviours of CandidateDelivery.    *)
(***************************************************************************)
THEOREM BatchingDelivers == Spec => DeliveryHolds
<1>1. BInv /\ [Next]_vars => [Delivery!Next]_<<queuedCandidates, Batches, Result>>
  <2> SUFFICES ASSUME BInv, [Next]_vars
               PROVE  [Delivery!Next]_<<queuedCandidates, Batches, Result>>
    OBVIOUS
  <2>1. CASE UNCHANGED vars
    BY <2>1 DEF vars, queues, Batches, Result
  <2>2. ASSUME NEW c \in Call, NEW k \in Key, SendIceCandidates(c, k)
        PROVE  Delivery!Next
    BY <2>2, SendRefines DEF Delivery!Next
  <2>3. ASSUME NEW p \in Call, TimerFires(p) PROVE Delivery!Next
    BY <2>3, TimerRefines DEF Delivery!Next
  <2>4. ASSUME NEW p \in Call, NEW outcome \in Outcome,
               DeliverySettles(p, outcome)
        PROVE  Delivery!Next
    BY <2>4, SettleRefines DEF Delivery!Next, Batches, Delivery!Outcome, Outcome
  <2>5. QED
    BY <2>1, <2>2, <2>3, <2>4 DEF Next
<1>2. QED
  BY InitRefines, BatchingInvariant, <1>1, PTL
  DEF Spec, DeliveryHolds, Delivery!Spec, Batches, Result
=============================================================================
