---------------------------- MODULE ChannelPairing ----------------------------
(***************************************************************************)
(* What establishing channels promises to the applications: a channel they *)
(* are given is one of a pair.  Its mate is the only channel paired with   *)
(* it, is on the node that was called and was called from there, and the   *)
(* two stay mates for good, whatever became of other attempts.             *)
(***************************************************************************)
CONSTANTS Channel, Node, None

VARIABLES
    state,      \* of a channel, to its application
    node, peer, \* where the channel is, and the node it is to
    mate        \* the channel it is paired with

vars == <<state, node, peer, mate>>

Init ==
    /\ state = [c \in Channel |-> "unused"]
    /\ node = [c \in Channel |-> None]
    /\ peer = [c \in Channel |-> None]
    /\ mate = [c \in Channel |-> None]

Begin(c, n, p) ==
    /\ state[c] = "unused"
    /\ state' = [state EXCEPT ![c] = "pending"]
    /\ node' = [node EXCEPT ![c] = n]
    /\ peer' = [peer EXCEPT ![c] = p]
    /\ UNCHANGED mate

Pair(c, d) ==
    /\ c # d
    /\ node[c] = peer[d] /\ peer[c] = node[d]
    /\ mate[c] = None /\ mate[d] = None
    /\ state[c] = "pending"
    /\ mate' = [mate EXCEPT ![c] = d, ![d] = c]
    /\ UNCHANGED <<state, node, peer>>

Open(c) ==
    /\ state[c] = "pending"
    /\ mate[c] # None
    /\ state' = [state EXCEPT ![c] = "open"]
    /\ UNCHANGED <<node, peer, mate>>

Fail(C) ==
    /\ \A c \in C : state[c] \in {"pending", "open"}
    /\ state' = [c \in Channel |-> IF c \in C THEN "ended" ELSE state[c]]
    /\ UNCHANGED <<node, peer, mate>>

Next ==
    \/ \E c \in Channel, n, p \in Node : Begin(c, n, p)
    \/ \E c, d \in Channel : Pair(c, d)
    \/ \E c \in Channel : Open(c)
    \/ \E C \in SUBSET Channel : Fail(C)

Spec == Init /\ [][Next]_vars
=============================================================================
