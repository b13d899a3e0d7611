-------------------------- MODULE CandidateDelivery --------------------------
(***************************************************************************)
(* What a SignallingService that batches promises to the callers of        *)
(* sendIceCandidates: the candidates for one destination and correlation   *)
(* id are posted once each, in the order of the calls, and a call ends the *)
(* way the post that carried its candidates ends.                          *)
(***************************************************************************)
EXTENDS Sequences, Functions

CONSTANTS Call, Key

VARIABLES
    waiting,   \* per key, the calls whose candidates were not posted yet
    batches,   \* the posts made so far, each a pair of a key and its calls
    result     \* what the promise returned by each call came to

Outcome == {"resolved", "rejected"}

Init ==
    /\ waiting = [k \in Key |-> <<>>]
    /\ batches = {}
    /\ result = [c \in Call |-> "unsent"]

\* A caller hands over its candidates
Send(c, k) ==
    /\ result[c] = "unsent"
    /\ result' = [result EXCEPT ![c] = "pending"]
    /\ waiting' = [waiting EXCEPT ![k] = Append(@, c)]
    /\ UNCHANGED batches

\* All that wait for one key go out in one post
Post(k) ==
    /\ waiting[k] # <<>>
    /\ batches' = batches \cup {<<k, waiting[k]>>}
    /\ waiting' = [waiting EXCEPT ![k] = <<>>]
    /\ UNCHANGED result

\* A post ends, and so does every call in it and no other
Settle(batch, outcome) ==
    LET calls == Range(batch[2]) IN
    /\ \A c \in calls : result[c] = "pending"
    /\ result' = [c \in Call |-> IF c \in calls THEN outcome ELSE result[c]]
    /\ UNCHANGED <<waiting, batches>>

Next ==
    \/ \E c \in Call, k \in Key : Send(c, k)
    \/ \E k \in Key : Post(k)
    \/ \E batch \in batches, outcome \in Outcome : Settle(batch, outcome)

Spec == Init /\ [][Next]_<<waiting, batches, result>>
=============================================================================
