--------------------------- MODULE MessagePosting ---------------------------
(***************************************************************************)
(* SocketIOSignallingService.postToFirstAvailableServer over               *)
(* HttpRequestService: a message for another node is posted to the         *)
(* signalling servers of that node, in random order, until one takes it.   *)
(*                                                                         *)
(* Posts of different messages are independent but run at the same time.   *)
(***************************************************************************)
EXTENDS Naturals, FiniteSets

CONSTANTS
    Message,    \* messages to post
    Server,     \* signalling servers
    None

ASSUME NoneAssumption == None \notin Server

VARIABLES
    signalling,  \* the servers named by the pointer a message is posted to
    remaining,   \* those of them not tried yet
    request,     \* the server the current request was made to
    exchange,    \* how far that request is
    result,      \* unsent, pending, resolved or unreachable
    relayed,     \* per message, the servers that passed it on
    registered   \* servers that know the destination, which comes and goes

vars == <<signalling, remaining, request, exchange, result, relayed, registered>>

(***************************************************************************)
(* sent: no answer yet.  accepted: the server has relayed the message and  *)
(* answers 201.  refused: another status.  broken: the request failed with *)
(* an error event, which nobody listens to.                                *)
(***************************************************************************)
Exchange == {"none", "sent", "accepted", "refused", "broken"}

Init ==
    /\ signalling \in [Message -> SUBSET Server]
    /\ remaining = signalling
    /\ request = [m \in Message |-> None]
    /\ exchange = [m \in Message |-> "none"]
    /\ result = [m \in Message |-> "unsent"]
    /\ relayed = [m \in Message |-> {}]
    /\ registered \in SUBSET Server

\* Mutant: the recursive call passes the whole list on
AllAgain(servers, s) == servers

Without(servers, s) == servers \ {s}

\* Mutant: the last server of the list is not tried
OneLeft(m) == Cardinality(remaining[m]) <= 1

NoneLeft(m) == remaining[m] = {}

\* postToFirstAvailableServer, with the servers that are left
TryNext(m) ==
    IF NoneLeft(m)
    THEN /\ result' = [result EXCEPT ![m] = "unreachable"]
         /\ UNCHANGED <<remaining, request, exchange>>
    ELSE \E s \in remaining[m] :
            /\ result' = [result EXCEPT ![m] = "pending"]
            /\ remaining' = [remaining EXCEPT ![m] = Without(@, s)]
            /\ request' = [request EXCEPT ![m] = s]
            /\ exchange' = [exchange EXCEPT ![m] = "sent"]

\* sendOffer, sendAnswer or sendIceCandidates
Post(m) ==
    /\ result[m] = "unsent"
    /\ TryNext(m)
    /\ UNCHANGED <<signalling, relayed, registered>>

\* Mutant: any response resolves the request
HasResponse(m) == exchange[m] \in {"accepted", "refused"}

Resolves(m) == exchange[m] = "accepted"

\* Mutant: an error event rejects too, so that the next server is tried
RefusedOrBroken(m) == exchange[m] \in {"refused", "broken"}

Rejects(m) == exchange[m] = "refused"

\* executeRequest settles, and a rejection has the next server tried
Responded(m) ==
    /\ result[m] = "pending"
    /\ \/ /\ Resolves(m)
          /\ result' = [result EXCEPT ![m] = "resolved"]
          /\ UNCHANGED <<remaining, request, exchange>>
       \/ /\ Rejects(m)
          /\ TryNext(m)
    /\ UNCHANGED <<signalling, relayed, registered>>

-----------------------------------------------------------------------------
(* The servers and the network.  A server that does not know the           *)
(* destination refuses; one that refuses has not passed the message on.    *)

ServerRelays(m) ==
    /\ exchange[m] = "sent"
    /\ request[m] \in registered
    /\ relayed' = [relayed EXCEPT ![m] = @ \cup {request[m]}]
    /\ exchange' = [exchange EXCEPT ![m] = "accepted"]
    /\ UNCHANGED <<signalling, remaining, request, result, registered>>

ServerRefuses(m) ==
    /\ exchange[m] = "sent"
    /\ request[m] \notin registered
    /\ exchange' = [exchange EXCEPT ![m] = "refused"]
    /\ UNCHANGED <<signalling, remaining, request, result, relayed, registered>>

\* The server cannot be reached, or the connection breaks before it responds
ConnectionBreaks(m) ==
    /\ result[m] = "pending"
    /\ exchange[m] \in {"sent", "accepted", "refused"}
    /\ exchange' = [exchange EXCEPT ![m] = "broken"]
    /\ UNCHANGED <<signalling, remaining, request, result, relayed, registered>>

\* The destination connects to a server or loses its connection to it
RegistrationChanges(s) ==
    /\ registered' = (registered \ {s}) \cup ({s} \ registered)
    /\ UNCHANGED <<signalling, remaining, request, exchange, result, relayed>>

Next ==
    \/ \E m \in Message :
          \/ Post(m) \/ Responded(m)
          \/ ServerRelays(m) \/ ServerRefuses(m) \/ ConnectionBreaks(m)
    \/ \E s \in Server : RegistrationChanges(s)

Spec == Init /\ [][Next]_vars

(***************************************************************************)
(* A server that was asked responds, or the connection breaks; a response  *)
(* is handled.                                                             *)
(***************************************************************************)
FairSpec ==
    /\ Spec
    /\ \A m \in Message :
          /\ WF_vars(ServerRelays(m) \/ ServerRefuses(m) \/ ConnectionBreaks(m))
          /\ WF_vars(Responded(m))

-----------------------------------------------------------------------------
TypeOK ==
    /\ signalling \in [Message -> SUBSET Server]
    /\ remaining \in [Message -> SUBSET Server]
    /\ request \in [Message -> Server \cup {None}]
    /\ exchange \in [Message -> Exchange]
    /\ result \in [Message -> {"unsent", "pending", "resolved", "unreachable"}]
    /\ relayed \in [Message -> SUBSET Server]
    /\ registered \subseteq Server

\* The caller is told of success only where the message was passed on
ResolvedMeansRelayed ==
    \A m \in Message : result[m] = "resolved" => request[m] \in relayed[m]

(***************************************************************************)
(* "no longer connected to any of its signalling servers": the caller is   *)
(* told so only after every server was asked, and when none of them passed *)
(* the message on.                                                         *)
(***************************************************************************)
UnreachableMeansNotRelayed ==
    \A m \in Message : result[m] = "unreachable" =>
        remaining[m] = {} /\ relayed[m] = {}

(***************************************************************************)
(* The message is never posted to a second server after a first one passed *)
(* it on: a break that leaves open whether it did is not followed by       *)
(* another post.  (Nor is any other, see PostsEnd.)                        *)
(***************************************************************************)
RelayedOnce == \A m \in Message : Cardinality(relayed[m]) <= 1

\* Where no connection breaks every post comes to an end
PostsEndOnSoundConnections ==
    \A m \in Message :
        [](exchange[m] # "broken") =>
            (result[m] = "pending" ~> result[m] \in {"resolved", "unreachable"})

(***************************************************************************)
(* "Post an object to the first available signalling server": a server     *)
(* that cannot be reached is passed over, as the catch block there has it. *)
(***************************************************************************)
PostsEnd ==
    \A m \in Message :
        result[m] = "pending" ~> result[m] \in {"resolved", "unreachable"}
=============================================================================
