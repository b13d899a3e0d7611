-------------------------- MODULE HandshakeCompletion --------------------------
(***************************************************************************)
(* ChannelEstablishment over a network on which every message arrives at   *)
(* least once, though in any order and at any moment, answers and          *)
(* candidates more than once, and the calls of the two nodes may cross.    *)
(* Anything else may still fail: the WebRTC calls, the timeouts, the posts *)
(* as their sender sees them, the applications and the pages.  ICE has to  *)
(* be helped: a link comes up only when each end was handed candidates of  *)
(* the other.                                                              *)
(***************************************************************************)
EXTENDS ChannelEstablishment

CONSTANT Openers \* the channels made by openChannel, the others answer

VARIABLE arrived \* the messages that have come at least once

ASSUME OpenersAssumption ==
    /\ Openers \subseteq Channel
    /\ Handlers = Node

handshakeVars == <<vars, arrived>>

HasCandidatesOf(c, d) == \E m \in received[c] : m.sender = d

LinkUpByCandidates(c) ==
    \E d \in Channel : /\ HasCandidatesOf(c, d)
                       /\ HasCandidatesOf(d, c)
                       /\ LinkUp(c, d)

NoArrival(action) == action /\ UNCHANGED arrived

\* An offer is answered once; there is a Channel object left to answer it
OfferArrives(m) ==
    /\ \A d \in Channel : remoteDescription[d] # m.sender
    /\ ReceiveOffer(m)
    /\ \A c \in Openers : step'[c] = step[c]

Arrives(m) ==
    /\ OfferArrives(m) \/ ReceiveAnswer(m) \/ ReceiveCandidates(m)
    /\ arrived' = arrived \cup {m}

Proceed(c) ==
    \/ SendOffer(c)
    \/ OfferSent(c)
    \/ AnswerHandled(c)
    \/ AnswerCreated(c)
    \/ AnswerSent(c)
    \/ ChannelEstablished(c)
    \/ ChannelOpened(c)

EndEarly(c) ==
    \/ OpenChannelFails(c)
    \/ HandleOfferFails(c)
    \/ HandlerFails(c)
    \/ CloseByApplication(c)
    \/ DataChannelCloses(c)

HandshakeNext ==
    \/ \E c \in Openers, call \in Calls :
          NoArrival(OpenChannel(c, call[1], call[2]))
    \/ \E c \in Channel : \/ NoArrival(Proceed(c))
                          \/ NoArrival(EndEarly(c))
                          \/ NoArrival(CandidatesGathered(c))
                          \/ NoArrival(LinkUpByCandidates(c))
                          \/ NoArrival(DataChannelOpens(c))
    \/ \E n \in Node : NoArrival(Reload(n))
    \/ \E m \in network : Arrives(m)

(***************************************************************************)
(* What can go on goes on: posts and WebRTC calls are settled, candidates  *)
(* gathered, links come up and messages arrive.  Nothing has to fail, and  *)
(* a timeout need not fire.                                                *)
(***************************************************************************)
HandshakeFairness ==
    /\ \A c \in Channel : /\ WF_handshakeVars(NoArrival(Proceed(c)))
                          /\ WF_handshakeVars(NoArrival(CandidatesGathered(c)))
                          /\ WF_handshakeVars(NoArrival(LinkUpByCandidates(c)))
                          /\ WF_handshakeVars(NoArrival(DataChannelOpens(c)))
    /\ \A c \in Channel, type \in {"offer", "answer", "candidates"} :
          WF_handshakeVars(\E m \in network \ arrived :
                               m.sender = c /\ m.type = type /\ Arrives(m))

HandshakeSpec == Init /\ arrived = {} /\ [][HandshakeNext]_handshakeVars

FairHandshakeSpec == HandshakeSpec /\ HandshakeFairness

Broken(c) == step[c] \in Ended \/ dataChannel[c] = "closed"

(***************************************************************************)
(* openChannel opens its channel and handleOffer passes one on, although   *)
(* waitForAnswer would wait for ever for an answer that it missed and ICE  *)
(* would fail on candidates that came before anybody listened for them.    *)
(* Only a channel with a twin may stay behind, or one of a session of      *)
(* which an end failed, was closed, or lost its page or its link.          *)
(***************************************************************************)
HandshakesComplete ==
    \A c \in Channel :
        Live(c) ~> \/ step[c] = "open"
                   \/ \E d \in Channel : Twins(c, d) \/ Broken(d)

(***************************************************************************)
(* Where timeouts do fire, all that has a timeout ends: openChannel with   *)
(* an answer in hand and handleOffer past its post.                        *)
(***************************************************************************)
WaitsEnd == Fairness => EstablishmentSettles

(***************************************************************************)
(* The candidates sent for a channel are processed "as they are received", *)
(* or kept until it listens.  Where calls cross, the channel that answers  *)
(* the other node's call may be listening on the same event already: what  *)
(* is handed to that one alone is not kept for the other.                  *)
(***************************************************************************)
CandidatesReachTheirChannel ==
    \A c \in listening, m \in arrived :
        m.type = "candidates" /\ remoteDescription[m.sender] = c
            => m \in received[c]
=============================================================================
