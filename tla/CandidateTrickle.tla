--------------------------- MODULE CandidateTrickle ---------------------------
(***************************************************************************)
(* The way of ICE candidates from one end of a session to the other, which *)
(* composes what carries them: the PeerConnection that gathers them, the   *)
(* Channel that sends what it emits, CandidateBatching, the posts, the     *)
(* emitter of the other node and the PeerConnection that processes them.   *)
(*                                                                         *)
(* Each PeerConnection is an instance of the module of that name.  Of the  *)
(* sender only the local candidates matter here, of the receiver only the  *)
(* remote ones: the other half of each is at rest.                         *)
(***************************************************************************)
EXTENDS Naturals, Sequences, SequencesExt

CONSTANTS
    Candidate,  \* candidates the sender may gather
    Rejected,   \* those among them that the receiver's addIceCandidate rejects
    Run,        \* calls of the receiver's processRemoteIceCandidates
    Call,       \* calls of the sender's sendIceCandidates
    Session,    \* the remote id and correlation id of the session
    None

ASSUME TrickleAssumption ==
    /\ Rejected \subseteq Candidate
    /\ None \notin Candidate \cup Run \cup Call \cup Session

VARIABLES
    \* the sender's PeerConnection
    senderPhase, localIceCandidates, storedIceCandidates,
    emittingIceCandidates, sending, emitted,
    \* its IceCandidateBatchingSignallingService
    key, queuedCandidates, deliveryPromises, timers, awaited, sent, settled,
    content,    \* per call of sendIceCandidates, the candidates it was given
    \* the receiver's PeerConnection
    side, phase, remoteDescriptionSet, remoteIceCandidateCache, batch, status,
    awaitedRun, received,
    \* messages, each named after the promise of its batch
    relayed,    \* a server took it
    arrived,    \* it was emitted on the receiver's node
    handed,     \* it was given to the channel's candidates handler
    listening   \* the channel registered that handler

senderVars == <<senderPhase, localIceCandidates, storedIceCandidates,
                emittingIceCandidates, sending, emitted>>
batchingVars == <<key, queuedCandidates, deliveryPromises, timers, awaited,
                  sent, settled>>
receiverVars == <<side, phase, remoteDescriptionSet, remoteIceCandidateCache,
                  batch, status, awaitedRun, received>>
wireVars == <<relayed, arrived, handed, listening>>
vars == <<senderVars, batchingVars, content, receiverVars, wireVars>>

\* In place of a variable of the half that is at rest: the value v for good
AtRest(v) == CHOOSE x \in {v} : TRUE

Sender ==
    INSTANCE PeerConnection WITH
        Local <- Candidate, Remote <- {}, Rejected <- {}, Run <- {},
        side <- AtRest("sender"), phase <- senderPhase,
        remoteDescriptionSet <- AtRest(TRUE),
        remoteIceCandidateCache <- AtRest({}), batch <- AtRest(<<>>),
        status <- AtRest(<<>>), awaitedRun <- AtRest(None),
        received <- AtRest({})

Receiver ==
    INSTANCE PeerConnection WITH
        Local <- {}, Remote <- Candidate,
        localIceCandidates <- AtRest(<<>>), storedIceCandidates <- AtRest({}),
        emittingIceCandidates <- AtRest(FALSE), sending <- AtRest(FALSE),
        emitted <- AtRest(<<>>)

Batching == INSTANCE CandidateBatching WITH Key <- Session

Init ==
    /\ Receiver!Init
    /\ Batching!Init
    /\ senderPhase = "described"
    /\ localIceCandidates = <<>>
    /\ storedIceCandidates = {}
    /\ emittingIceCandidates = FALSE
    /\ sending = FALSE
    /\ emitted = <<>>
    /\ content = [c \in Call |-> {}]
    /\ relayed = {}
    /\ arrived = {}
    /\ handed = {}
    /\ listening = FALSE

(***************************************************************************)
(* A message that has arrived where the handler is registered is handled,  *)
(* and a PeerConnection that failed is closed, before any other event.     *)
(***************************************************************************)
BetweenEvents == phase # "failed" /\ (listening => arrived = handed)

CarriedBy(p) == UNION {content[c] : c \in ToSet(sent[p])}

-----------------------------------------------------------------------------
(* The sender.                                                             *)

\* The session descriptions are exchanged.  An answerer that receives has
\* registered its handler before it posted the answer
SenderReady ==
    /\ BetweenEvents
    /\ senderPhase = "described"
    /\ side = "answerer" => listening
    /\ senderPhase' = "ready"
    /\ UNCHANGED <<localIceCandidates, storedIceCandidates,
                   emittingIceCandidates, sending, emitted, batchingVars,
                   content, receiverVars, wireVars>>

\* What is emitted is passed to sendIceCandidates by the Channel's listener
Send ==
    IF emitted' = emitted THEN UNCHANGED <<batchingVars, content>>
    ELSE \E c \in Call, k \in Session :
            /\ Batching!SendIceCandidates(c, k)
            /\ content' = [content EXCEPT
                               ![c] = ToSet(emitted') \ ToSet(emitted)]

Gather(c) ==
    /\ BetweenEvents
    /\ Sender!LocalCandidate(c)
    /\ Send
    /\ UNCHANGED <<receiverVars, wireVars>>

StartSending ==
    /\ BetweenEvents
    /\ Sender!StartSending
    /\ Send
    /\ UNCHANGED <<receiverVars, wireVars>>

\* The data channel opens, or the channel is closed: what was sent so far
\* stays in the queue, and its timer runs
SenderStops ==
    /\ BetweenEvents
    /\ Sender!StopSending \/ Sender!Close
    /\ UNCHANGED <<batchingVars, content, receiverVars, wireVars>>

-----------------------------------------------------------------------------
(* Batches and posts.                                                      *)

TimerFires(p) ==
    /\ BetweenEvents
    /\ Batching!TimerFires(p)
    /\ UNCHANGED <<senderVars, content, receiverVars, wireVars>>

\* A server takes the message, which may arrive before the post settles
Relay(p) ==
    /\ BetweenEvents
    /\ sent[p] # <<>> /\ settled[p] = "pending"
    /\ relayed' = relayed \cup {p}
    /\ UNCHANGED <<senderVars, batchingVars, content, receiverVars, arrived,
                   handed, listening>>

\* A post resolves if a server took the message, and is only rejected if
\* none did; the Channel logs the rejection
PostSettles(p) ==
    /\ BetweenEvents
    /\ Batching!DeliverySettles(p, IF p \in relayed THEN "resolved"
                                   ELSE "rejected")
    /\ UNCHANGED <<senderVars, content, receiverVars, wireVars>>

-----------------------------------------------------------------------------
(* The receiver.                                                           *)

\* Messages arrive in any order, or not at all
Arrive(p) ==
    /\ BetweenEvents
    /\ p \in relayed \ arrived
    /\ arrived' = arrived \cup {p}
    /\ UNCHANGED <<senderVars, batchingVars, content, receiverVars, relayed,
                   handed, listening>>

\* startListeningForRemoteIceCandidates, in openChannel once the offer is
\* posted, in handleOffer once the answer is created.  What has arrived is
\* handed over at once
Listen ==
    /\ BetweenEvents
    /\ ~ listening
    /\ phase = IF side = "opener" THEN "described" ELSE "ready"
    /\ listening' = TRUE
    /\ UNCHANGED <<senderVars, batchingVars, content, receiverVars, relayed,
                   arrived, handed>>

\* The candidates handler, up to its await
Hand(r, p) ==
    /\ listening
    /\ p \in arrived \ handed
    /\ handed' = handed \cup {p}
    /\ Receiver!RemoteCandidates(r, CarriedBy(p))
    /\ UNCHANGED <<senderVars, batchingVars, content, relayed, arrived,
                   listening>>

\* The session descriptions, and the awaits of processRemoteIceCandidates
ReceiverProceeds ==
    /\ BetweenEvents
    /\ \/ Receiver!ApplyDescription /\ (side = "opener" => listening)
       \/ Receiver!AnswerHandled
       \/ Receiver!AnswerCreated
       \/ Receiver!DescriptionFails
       \/ \E r \in Run : Receiver!RunEnds(r) \/ Receiver!DescriptionApplied(r)
    /\ UNCHANGED <<senderVars, batchingVars, content, wireVars>>

ReceiverCloses ==
    /\ phase = "failed" \/ BetweenEvents
    /\ Receiver!Close
    /\ listening' = FALSE
    /\ UNCHANGED <<senderVars, batchingVars, content, relayed, arrived, handed>>

Next ==
    \/ SenderReady \/ StartSending \/ SenderStops
    \/ \E c \in Candidate : Gather(c)
    \/ \E p \in Call : TimerFires(p) \/ Relay(p) \/ PostSettles(p) \/ Arrive(p)
    \/ \E r \in Run, p \in Call : Hand(r, p)
    \/ Listen \/ ReceiverProceeds \/ ReceiverCloses

Spec == Init /\ [][Next]_vars

(***************************************************************************)
(* Timers run, and an event emitter calls its handlers.  Of the network it *)
(* is assumed that a message some server can take is taken and arrives.    *)
(***************************************************************************)
FairSpec ==
    /\ Spec
    /\ \A p \in Call : /\ WF_vars(TimerFires(p))
                       /\ WF_vars(Relay(p))
                       /\ WF_vars(Arrive(p))
                       /\ WF_vars(\E r \in Run : Hand(r, p))

-----------------------------------------------------------------------------
(***************************************************************************)
(* At any moment a candidate that was emitted is with one of those who     *)
(* carry it: queued, in a message the receiver was not given yet, or       *)
(* received.  None gets lost between two components, not even when the     *)
(* sender stops or closes, and none comes from nowhere.                    *)
(***************************************************************************)
NoCandidateVanishes ==
    LET queued == {c \in Call : \E k \in Session : c \in ToSet(queuedCandidates[k])}
    IN  /\ ToSet(emitted) \subseteq (UNION {content[c] : c \in queued})
                                \cup (UNION {CarriedBy(p) : p \in Call \ handed})
                                \cup received
        /\ received \subseteq ToSet(emitted)

Troubled ==
    \/ \E p \in Call : settled[p] = "rejected"
    \/ phase \in {"failed", "closed"}

(***************************************************************************)
(* From end to end: as long as no post is rejected and the receiver lives, *)
(* every candidate the sender emitted is passed to addIceCandidate, once   *)
(* there is a session description to add it to.                            *)
(***************************************************************************)
EveryCandidateIsAdded ==
    \A c \in Candidate :
        [](~ Troubled) => (c \in ToSet(emitted) /\ remoteDescriptionSet
                               ~> c \in Receiver!Passed)
=============================================================================
