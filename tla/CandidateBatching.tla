-------------------------- MODULE CandidateBatching --------------------------
(***************************************************************************)
(* IceCandidateBatchingSignallingService: the candidates of several calls  *)
(* of sendIceCandidates for one destination and correlation id are kept    *)
(* for batchingDelayMs and then sent as one message.                       *)
(*                                                                         *)
(* A call stands for the array of candidates it passes.  A promise is      *)
(* named after the call that created it, as is the timer that settles it.  *)
(***************************************************************************)
EXTENDS Sequences, Functions

CONSTANTS
    Call,   \* calls of sendIceCandidates
    Key,    \* pairs of a destination id and a correlation id
    None

ASSUME NoneAssumption == None \notin Call \cup Key

VARIABLES
    key,               \* the destination and correlation id a call is for
    queuedCandidates,  \* per key; <<>> when there is no queue
    deliveryPromises,  \* per key; None when there is no promise
    timers,            \* promises whose setTimeout callback is still to run
    awaited,           \* the promise a call returned
    sent,              \* per promise, what was passed to the wrapped service
    settled            \* per promise: pending, resolved or rejected

queues == <<key, queuedCandidates, deliveryPromises, timers, awaited>>
vars == <<queues, sent, settled>>

Outcome == {"resolved", "rejected"}

Init ==
    /\ key = [c \in Call |-> None]
    /\ queuedCandidates = [k \in Key |-> <<>>]
    /\ deliveryPromises = [k \in Key |-> None]
    /\ timers = {}
    /\ awaited = [c \in Call |-> None]
    /\ sent = [c \in Call |-> <<>>]
    /\ settled = [c \in Call |-> "pending"]

\* Mutant: a call that finds a queue replaces it instead of extending it
Replaced(queue, c) == <<c>>

\* Mutant: the array is pushed as one element
Nested(queue, c) == Append(queue, <<c>>)

Extended(queue, c) == Append(queue, c)

\* The first call for a key schedules the delivery.  getPromise would throw
\* if a later one found no promise: awaited[c] is then None
SendIceCandidates(c, k) ==
    LET first == queuedCandidates[k] = <<>> IN
    /\ key[c] = None
    /\ key' = [key EXCEPT ![c] = k]
    /\ deliveryPromises' = [deliveryPromises EXCEPT ![k] = IF first THEN c ELSE @]
    /\ timers' = IF first THEN timers \cup {c} ELSE timers
    /\ queuedCandidates' = [queuedCandidates EXCEPT ![k] = Extended(@, c)]
    /\ awaited' = [awaited EXCEPT ![c] = deliveryPromises'[k]]
    /\ UNCHANGED <<sent, settled>>

\* Mutant: the promise is left in place when the queue is taken
PromiseKept(p) == p

PromiseLeft(p) == None

\* The callback of setTimeout.  Without a queue it only warns, and the
\* promise is never settled
TimerFires(p) ==
    LET k == key[p]
        queueToSend == queuedCandidates[k]
    IN
    /\ p \in timers
    /\ timers' = timers \ {p}
    /\ IF queueToSend # <<>>
       THEN /\ queuedCandidates' = [queuedCandidates EXCEPT ![k] = <<>>]
            /\ deliveryPromises' = [deliveryPromises EXCEPT ![k] = PromiseLeft(p)]
            /\ sent' = [sent EXCEPT ![p] = queueToSend]
       ELSE UNCHANGED <<queuedCandidates, deliveryPromises, sent>>
    /\ UNCHANGED <<key, awaited, settled>>

\* The wrapped service's promise settles, and the delivery promise with it
DeliverySettles(p, outcome) ==
    /\ sent[p] # <<>>
    /\ settled[p] = "pending"
    /\ settled' = [settled EXCEPT ![p] = outcome]
    /\ UNCHANGED <<queues, sent>>

Next ==
    \/ \E c \in Call, k \in Key : SendIceCandidates(c, k)
    \/ \E p \in Call : TimerFires(p)
    \/ \E p \in Call, outcome \in Outcome : DeliverySettles(p, outcome)

Spec == Init /\ [][Next]_vars

\* Timers run; nothing is assumed of the posts
FairSpec == Spec /\ \A p \in Call : WF_vars(TimerFires(p))

-----------------------------------------------------------------------------
TypeOK ==
    /\ key \in [Call -> Key \cup {None}]
    /\ queuedCandidates \in [Key -> Seq(Call)]
    /\ deliveryPromises \in [Key -> Call \cup {None}]
    /\ timers \subseteq Call
    /\ awaited \in [Call -> Call \cup {None}]
    /\ sent \in [Call -> Seq(Call)]
    /\ settled \in [Call -> Outcome \cup {"pending"}]

(***************************************************************************)
(* The queue, the promise and the timer of a key are three records of one  *)
(* fact.  Where they agree, the throw in getPromise ("this should never    *)
(* happen") and the branch that warns of an empty queue are not reached.   *)
(***************************************************************************)
QueuesHaveTimers ==
    /\ \A k \in Key : queuedCandidates[k] # <<>> <=> deliveryPromises[k] # None
    /\ \A k \in Key : deliveryPromises[k] # None =>
          deliveryPromises[k] \in timers /\ key[deliveryPromises[k]] = k
    /\ \A p \in timers : deliveryPromises[key[p]] = p

Delivery == INSTANCE CandidateDelivery WITH
    waiting <- queuedCandidates,
    batches <- {<<key[p], sent[p]>> : p \in {c \in Call : sent[c] # <<>>}},
    result <- [c \in Call |-> IF awaited[c] = None THEN "unsent"
                              ELSE settled[awaited[c]]]

(***************************************************************************)
(* Batching keeps the promise of the abstract service: nothing is lost,    *)
(* sent twice, sent for another key or out of order, and a caller is told  *)
(* of the post that carried its candidates and of no other.                *)
(***************************************************************************)
DeliveryHolds == Delivery!Spec

(***************************************************************************)
(* Every call's candidates are sent, also those of a call that comes       *)
(* while an earlier batch for the same key is still being posted.          *)
(***************************************************************************)
EveryCallIsSent ==
    \A c \in Call :
        key[c] # None ~> \E p \in Call : c \in Range(sent[p]) /\ key[p] = key[c]
=============================================================================
