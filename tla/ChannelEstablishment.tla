------------------------ MODULE ChannelEstablishment ------------------------
(***************************************************************************)
(* How two RTC clients establish a channel over the signalling servers:    *)
(* RTC.openChannel on one node, RTC.handleOffer on the other, the Channel  *)
(* objects they drive, and the two BufferingEventEmitters of the           *)
(* SocketIOSignallingService that route answers and ICE candidates to      *)
(* them.                                                                   *)
(*                                                                         *)
(* JavaScript runs to completion, so one action is everything from the     *)
(* resolution of one await (or the arrival of one event) to the next       *)
(* await.  step[c] names the await at which channel c is suspended.        *)
(***************************************************************************)
EXTENDS Naturals, FiniteSets

CONSTANTS
    Node,        \* local ids of the clients (kept in storage over a reload)
    Channel,     \* Channel objects that may be created, over all nodes
    Calls,       \* pairs <<n, p>>: the application on n opens channels to p
    Handlers,    \* nodes whose application called onChannel for the type
    MaxRestarts, \* bound on the reloads of one node
    None

ASSUME ConstantsAssumption ==
    /\ Calls \subseteq Node \X Node
    /\ Handlers \subseteq Node
    /\ MaxRestarts \in Nat
    /\ None \notin Node \cup Channel \cup Nat \cup {"opener", "answerer"}

VARIABLES
    step,                 \* where the async function driving the channel is
    node, peer,           \* the local id and the remotePeer of a channel
    role,                 \* created by openChannel or by handleOffer
    correlationId,        \* the offer's id, allocated by the offering node
    remoteDescription,    \* the channel whose session description was applied
    dataChannel,          \* readyState of the RTCDataChannel
    listening,            \* channels with a handler on their candidates event
    received,             \* candidates handed to processRemoteIceCandidates
    network,              \* every message posted so far
    buffered,             \* messages emitted when their event had no listener
    correlationIdCounter, \* per node, reset by a reload
    restarts              \* per node, how often it was reloaded

identity == <<node, peer, role>>
session == <<identity, correlationId, remoteDescription>>
emitters == <<listening, received, buffered>>
counters == <<correlationIdCounter, restarts>>
vars == <<step, session, dataChannel, emitters, network, counters>>

OpenerSteps == {"creatingOffer", "sendingOffer", "waitingForAnswer",
                "handlingAnswer"}
AnswererSteps == {"creatingAnswer", "sendingAnswer",
                  "waitingForEstablishment"}
Ended == {"failed", "closed", "reloaded"}
Step == {"unused", "waitingForOpen", "open"}
            \cup OpenerSteps \cup AnswererSteps \cup Ended

Message == [type : {"offer", "answer", "candidates"},
            sourceId : Node, destinationId : Node,
            correlationId : Nat, sender : Channel]

(***************************************************************************)
(* A message is never taken out of the network: one that is not received   *)
(* was lost, one that is received again was relayed more than once, which  *)
(* nothing in the client excludes.                                         *)
(* sender is the data of a message: the session description or the         *)
(* candidates of that channel's RTCPeerConnection.                         *)
(***************************************************************************)
MessageFrom(c, type, k) ==
    [type |-> type, sourceId |-> node[c], destinationId |-> peer[c],
     correlationId |-> k, sender |-> c]

Live(c) == step[c] \notin Ended \cup {"unused"}

\* Mutant: test the constructor's correlationId, which an opener never gets
OnlyAnswererIsResolved(c) ==
    step[c] # "unused" /\ role[c] = "answerer"

(***************************************************************************)
(* resolvedCorrelationId is set when the offer's post completes, or by the *)
(* constructor for a channel that answers.                                 *)
(***************************************************************************)
CorrelationIdIsResolved(c) ==
    step[c] \notin {"unused", "creatingOffer", "sendingOffer"}

\* c and d listen on the same `candidates-<remote id>-<correlation id>`
SameCandidatesEvent(c, d) ==
    /\ node[c] = node[d]
    /\ peer[c] = peer[d]
    /\ correlationId[c] = correlationId[d]

IsAnswerFor(m, c) ==
    /\ m.type = "answer"
    /\ m.destinationId = node[c]
    /\ m.correlationId = correlationId[c]

\* Mutant: a candidates event named after the remote id alone
IsCandidatesFromPeerOf(m, c) ==
    /\ m.type = "candidates"
    /\ m.destinationId = node[c]
    /\ m.sourceId = peer[c]

IsCandidatesFor(m, c) ==
    /\ m.type = "candidates"
    /\ m.destinationId = node[c]
    /\ m.sourceId = peer[c]
    /\ m.correlationId = correlationId[c]

-----------------------------------------------------------------------------
(* The library's BufferingEventEmitter, as the code and its tests use it:  *)
(* an event emitted with no listener is kept until one is added.           *)

\* Mutant: an emitter that does not buffer, so an early answer is not seen
NoKeptAnswers(c) == {}

KeptAnswers(c) == {m \in buffered : IsAnswerFor(m, c)}

KeptCandidates(c) == {m \in buffered : IsCandidatesFor(m, c)}

\* removeAllListeners may or may not also drop what is buffered for the event
MayForget(messages) ==
    buffered' \in {buffered, buffered \ messages}

\* on(): register the channel's candidates handler, which gets what is kept
Listen(c, kept) ==
    /\ listening' = listening \cup {c}
    /\ received' = [received EXCEPT ![c] = @ \cup kept]

-----------------------------------------------------------------------------
Init ==
    /\ step = [c \in Channel |-> "unused"]
    /\ node = [c \in Channel |-> None]
    /\ peer = [c \in Channel |-> None]
    /\ role = [c \in Channel |-> None]
    /\ correlationId = [c \in Channel |-> None]
    /\ remoteDescription = [c \in Channel |-> None]
    /\ dataChannel = [c \in Channel |-> "none"]
    /\ listening = {}
    /\ received = [c \in Channel |-> {}]
    /\ network = {}
    /\ buffered = {}
    /\ correlationIdCounter = [n \in Node |-> 0]
    /\ restarts = [n \in Node |-> 0]

Create(c, n, p, r) ==
    /\ step[c] = "unused"
    /\ node' = [node EXCEPT ![c] = n]
    /\ peer' = [peer EXCEPT ![c] = p]
    /\ role' = [role EXCEPT ![c] = r]

Goto(c, s) == step' = [step EXCEPT ![c] = s]

(***************************************************************************)
(* openChannel, up to each of its awaits.                                  *)
(***************************************************************************)

\* createChannel; createOffer creates the data channel before it awaits
OpenChannel(c, n, p) ==
    /\ Create(c, n, p, "opener")
    /\ Goto(c, "creatingOffer")
    /\ dataChannel' = [dataChannel EXCEPT ![c] = "connecting"]
    /\ UNCHANGED <<correlationId, remoteDescription, emitters, network,
                   counters>>

\* Mutant: the counter is read but not incremented
SameCorrelationId(k) == k

NextCorrelationId(k) == k + 1

\* sendOffer: allocate a correlation id and post the offer
SendOffer(c) ==
    LET k == correlationIdCounter[node[c]] IN
    /\ step[c] = "creatingOffer"
    /\ Goto(c, "sendingOffer")
    /\ correlationId' = [correlationId EXCEPT ![c] = k]
    /\ correlationIdCounter' = [correlationIdCounter EXCEPT
                                ![node[c]] = NextCorrelationId(k)]
    /\ network' = network \cup {MessageFrom(c, "offer", k)}
    /\ UNCHANGED <<identity, remoteDescription, dataChannel, emitters,
                   restarts>>

\* The post is acknowledged: listen for candidates, then waitForAnswer,
\* which an answer that came before the acknowledgement ends at once
OfferSent(c) ==
    LET others == buffered \ KeptCandidates(c) IN
    /\ step[c] = "sendingOffer"
    /\ Listen(c, KeptCandidates(c))
    /\ \/ /\ KeptAnswers(c) = {}
          /\ Goto(c, "waitingForAnswer")
          /\ buffered' = others
          /\ UNCHANGED remoteDescription
       \/ \E a \in KeptAnswers(c) :
             /\ Goto(c, "handlingAnswer")
             /\ remoteDescription' = [remoteDescription EXCEPT ![c] = a.sender]
             /\ buffered' \in {others \ {a}, others \ KeptAnswers(c)}
    /\ UNCHANGED <<identity, correlationId, dataChannel, network, counters>>

\* An answer reaches node m.destinationId.  The channel waiting for its
\* correlation id takes it and removes the listeners of that answer's event
ReceiveAnswer(m) ==
    /\ m.type = "answer"
    /\ \/ /\ ~ \E c \in Channel :
                  step[c] = "waitingForAnswer" /\ IsAnswerFor(m, c)
          /\ buffered' = buffered \cup {m}
          /\ UNCHANGED <<step, remoteDescription>>
       \/ \E c \in Channel :
             /\ step[c] = "waitingForAnswer"
             /\ IsAnswerFor(m, c)
             /\ Goto(c, "handlingAnswer")
             /\ remoteDescription' = [remoteDescription EXCEPT ![c] = m.sender]
             /\ MayForget(KeptAnswers(c))
    /\ UNCHANGED <<identity, correlationId, dataChannel, listening, received,
                   network, counters>>

\* Emitting the candidates gathered so far, if there are any
EmitCandidates(c) ==
    network' \in {network,
                  network \cup {MessageFrom(c, "candidates",
                                            correlationId[c])}}

\* handleAnswer resolves: startSendingIceCandidates, then waitForChannelToOpen
AnswerHandled(c) ==
    /\ step[c] = "handlingAnswer"
    /\ Goto(c, "waitingForOpen")
    /\ EmitCandidates(c)
    /\ UNCHANGED <<session, dataChannel, emitters, counters>>

(***************************************************************************)
(* handleOffer, up to each of its awaits.                                  *)
(***************************************************************************)

\* An offer reaches its destination; without a handler it is ignored
ReceiveOffer(m) ==
    /\ m.type = "offer"
    /\ IF m.destinationId \in Handlers
       THEN \E d \in Channel :
               /\ Create(d, m.destinationId, m.sourceId, "answerer")
               /\ Goto(d, "creatingAnswer")
               /\ correlationId' = [correlationId EXCEPT ![d] = m.correlationId]
               /\ remoteDescription' = [remoteDescription EXCEPT
                                            ![d] = m.sender]
       ELSE UNCHANGED <<step, session>>
    /\ UNCHANGED <<dataChannel, emitters, network, counters>>

\* createAnswer resolves: listen for candidates and post the answer
AnswerCreated(d) ==
    /\ step[d] = "creatingAnswer"
    /\ Goto(d, "sendingAnswer")
    /\ Listen(d, KeptCandidates(d))
    /\ buffered' = buffered \ KeptCandidates(d)
    /\ network' = network \cup {MessageFrom(d, "answer", correlationId[d])}
    /\ UNCHANGED <<session, dataChannel, counters>>

\* The post is acknowledged: startSendingIceCandidates, then
\* waitForChannelEstablishment
AnswerSent(d) ==
    /\ step[d] = "sendingAnswer"
    /\ Goto(d, "waitingForEstablishment")
    /\ EmitCandidates(d)
    /\ UNCHANGED <<session, dataChannel, emitters, counters>>

\* channelCreated was emitted, now or before the wait began
ChannelEstablished(d) ==
    /\ step[d] = "waitingForEstablishment"
    /\ dataChannel[d] # "none"
    /\ Goto(d, "waitingForOpen")
    /\ UNCHANGED <<session, dataChannel, emitters, network, counters>>

(***************************************************************************)
(* What both sides share.                                                  *)
(***************************************************************************)

\* Mutant: a data channel that was created is taken for an open one
HasDataChannel(c) == dataChannel[c] # "none"

HasOpened(c) == dataChannel[c] = "open"

\* waitForChannelToOpen resolves and stopSendingIceCandidates follows
ChannelOpened(c) ==
    /\ step[c] = "waitingForOpen"
    /\ HasOpened(c)
    /\ Goto(c, "open")
    /\ UNCHANGED <<session, dataChannel, emitters, network, counters>>

\* Mutant: candidates are sent as soon as they are gathered
SendsWhileLive(c) == Live(c)

\* Between startSendingIceCandidates and stopSendingIceCandidates
SendsCandidates(c) == step[c] \in {"waitingForOpen", "waitingForEstablishment"}

\* onicecandidate while the iceCandidates listener is attached
CandidatesGathered(c) ==
    /\ SendsCandidates(c)
    /\ network' = network \cup {MessageFrom(c, "candidates", correlationId[c])}
    /\ UNCHANGED <<step, session, dataChannel, emitters, counters>>

\* Candidates go to every channel that listens on their event
ReceiveCandidates(m) ==
    LET listeners == {c \in listening : IsCandidatesFor(m, c)} IN
    /\ m.type = "candidates"
    /\ received' = [c \in Channel |-> IF c \in listeners
                                      THEN received[c] \cup {m}
                                      ELSE received[c]]
    /\ buffered' = IF listeners = {} THEN buffered \cup {m} ELSE buffered
    /\ UNCHANGED <<step, session, dataChannel, listening, network, counters>>

\* Mutant: removeAllListeners() without the event of the channel
ListenersOfNode(c) == {d \in listening : node[d] = node[c]}

ListenersOfEvent(c) == {d \in listening : SameCandidatesEvent(c, d)}

\* Channel.close: removeAllListeners of the channel's candidates event, then
\* close the peer connection
Close(c, s) ==
    /\ Goto(c, s)
    /\ dataChannel' = [dataChannel EXCEPT ![c] = "closed"]
    /\ IF CorrelationIdIsResolved(c)
       THEN /\ listening' = listening \ ListenersOfEvent(c)
            /\ MayForget(KeptCandidates(c))
       ELSE UNCHANGED <<listening, buffered>>
    /\ UNCHANGED <<session, received, network, counters>>

\* Mutant: waitForChannelToOpen without a time limit
RejectsUntimed(c) ==
    step[c] \in {"creatingOffer", "sendingOffer", "handlingAnswer"}

MayReject(c) ==
    step[c] \in {"creatingOffer", "sendingOffer", "handlingAnswer",
                "waitingForOpen"}

\* An await of openChannel rejects: a WebRTC call, a post that no server
\* took, or the timeout of waitForChannelToOpen.  waitForAnswer never does
OpenChannelFails(c) ==
    /\ role[c] = "opener"
    /\ MayReject(c)
    /\ Close(c, "failed")

\* An await of handleOffer before the application's handler rejects
HandleOfferFails(d) ==
    /\ role[d] = "answerer"
    /\ step[d] \in AnswererSteps \cup {"waitingForOpen"}
    /\ Close(d, "failed")

\* The handler the application passed to onChannel rejects
HandlerFails(d) ==
    /\ role[d] = "answerer"
    /\ step[d] = "open"
    /\ Close(d, "failed")

CloseByApplication(c) ==
    /\ step[c] = "open"
    /\ Close(c, "closed")

(***************************************************************************)
(* The browsers, the servers and the page around the program.              *)
(***************************************************************************)

\* ICE and DTLS succeed between two ends that applied each other's session
\* descriptions: the opener's data channel opens, the answerer's is created
LinkUp(c, d) ==
    /\ Live(c) /\ Live(d)
    /\ remoteDescription[c] = d
    /\ remoteDescription[d] = c
    /\ dataChannel[c] = "connecting"
    /\ dataChannel[d] = "none"
    /\ dataChannel' = [dataChannel EXCEPT ![c] = "open", ![d] = "connecting"]
    /\ UNCHANGED <<step, session, emitters, network, counters>>

DataChannelChanges(c, from, to) ==
    /\ Live(c)
    /\ dataChannel[c] = from
    /\ dataChannel' = [dataChannel EXCEPT ![c] = to]
    /\ UNCHANGED <<step, session, emitters, network, counters>>

\* The answerer's data channel becomes open
DataChannelOpens(d) ==
    role[d] = "answerer" /\ DataChannelChanges(d, "connecting", "open")

\* The other end closed, or the network between the ends failed
DataChannelCloses(c) == DataChannelChanges(c, "open", "closed")

\* The page is reloaded: every object is gone, the local id is restored from
\* storage and correlation ids start again from 0
Reload(n) ==
    LET gone == {c \in Channel : node[c] = n /\ Live(c)} IN
    /\ restarts[n] < MaxRestarts
    /\ restarts' = [restarts EXCEPT ![n] = @ + 1]
    /\ correlationIdCounter' = [correlationIdCounter EXCEPT ![n] = 0]
    /\ step' = [c \in Channel |-> IF c \in gone THEN "reloaded" ELSE step[c]]
    /\ dataChannel' = [c \in Channel |-> IF c \in gone THEN "closed"
                                         ELSE dataChannel[c]]
    /\ listening' = {c \in listening : node[c] # n}
    /\ buffered' = {m \in buffered : m.destinationId # n}
    /\ UNCHANGED <<session, received, network>>

-----------------------------------------------------------------------------
\* The continuations of the async function that drives channel c
Continue(c) ==
    \/ SendOffer(c)
    \/ OfferSent(c)
    \/ AnswerHandled(c)
    \/ AnswerCreated(c)
    \/ AnswerSent(c)
    \/ ChannelEstablished(c)
    \/ ChannelOpened(c)
    \/ OpenChannelFails(c)
    \/ HandleOfferFails(c)

Receive(m) == ReceiveOffer(m) \/ ReceiveAnswer(m) \/ ReceiveCandidates(m)

Environment(c) ==
    \/ CandidatesGathered(c)
    \/ HandlerFails(c)
    \/ CloseByApplication(c)
    \/ \E d \in Channel : LinkUp(c, d)
    \/ DataChannelOpens(c)
    \/ DataChannelCloses(c)

Next ==
    \/ \E c \in Channel, call \in Calls : OpenChannel(c, call[1], call[2])
    \/ \E c \in Channel : Continue(c) \/ Environment(c)
    \/ \E m \in network : Receive(m)
    \/ \E n \in Node : Reload(n)

Spec == Init /\ [][Next]_vars

(***************************************************************************)
(* A channel suspended on a WebRTC promise or on a wait with a timeout     *)
(* moves on.  Nothing is assumed of the two posts (HttpRequestService does *)
(* not settle on every error) nor of waitForAnswer, which has no timeout.  *)
(***************************************************************************)
Settling == {"creatingOffer", "handlingAnswer", "creatingAnswer",
             "waitingForEstablishment", "waitingForOpen"}

Fairness ==
    \A c \in Channel : WF_vars(step[c] \in Settling /\ Continue(c))

FairSpec == Spec /\ Fairness

-----------------------------------------------------------------------------
TypeOK ==
    /\ step \in [Channel -> Step]
    /\ node \in [Channel -> Node \cup {None}]
    /\ peer \in [Channel -> Node \cup {None}]
    /\ role \in [Channel -> {"opener", "answerer", None}]
    /\ correlationId \in [Channel -> Nat \cup {None}]
    /\ remoteDescription \in [Channel -> Channel \cup {None}]
    /\ dataChannel \in [Channel -> {"none", "connecting", "open", "closed"}]
    /\ listening \subseteq Channel
    /\ received \in [Channel -> SUBSET Message]
    /\ network \subseteq Message
    /\ buffered \subseteq Message
    /\ correlationIdCounter \in [Node -> Nat]
    /\ restarts \in [Node -> Nat]

NeverReloaded(n) == restarts[n] = 0

\* The answer c applied was made, by the node c called, from c's own offer
AnswerIsFor(c) ==
    LET d == remoteDescription[c] IN
    /\ remoteDescription[d] = c
    /\ node[d] = peer[c]

(***************************************************************************)
(* An answer is matched by correlation id alone.  As long as a node is not *)
(* reloaded this is enough: however answers are delayed, duplicated or     *)
(* reordered, openChannel only applies the answer to its own offer.        *)
(***************************************************************************)
AnswersCorrelateUnlessReloaded ==
    \A c \in Channel :
        (role[c] = "opener" /\ remoteDescription[c] # None
            /\ NeverReloaded(node[c])) => AnswerIsFor(c)

(***************************************************************************)
(* The same for every node: answers that belong to another offer are       *)
(* ignored, as the test "ignores non-correlated answers" has it.           *)
(***************************************************************************)
AnswersCorrelate ==
    \A c \in Channel :
        (role[c] = "opener" /\ remoteDescription[c] # None) => AnswerIsFor(c)

(***************************************************************************)
(* waitForAnswer and startListeningForRemoteIceCandidates may run after    *)
(* the message they are for has come: nothing a suspended or listening     *)
(* channel is there to receive stays behind in an emitter's buffer.        *)
(***************************************************************************)
NothingMissed ==
    \A c \in Channel, m \in buffered :
        /\ step[c] = "waitingForAnswer" => ~ IsAnswerFor(m, c)
        /\ c \in listening => ~ IsCandidatesFor(m, c)

(***************************************************************************)
(* waitForAnswer removes all listeners of its answer's event when it ends, *)
(* which cuts off nobody else: no two channels of a node wait for one      *)
(* correlation id, not even across reloads.                                *)
(***************************************************************************)
OneWaiterPerAnswer ==
    \A c, d \in Channel :
        (/\ step[c] = "waitingForAnswer" /\ step[d] = "waitingForAnswer"
         /\ node[c] = node[d] /\ correlationId[c] = correlationId[d]) => c = d

(***************************************************************************)
(* A channel that failed or was closed keeps no handler registered: the    *)
(* error paths of openChannel and handleOffer release what they acquired   *)
(* at whichever await they are taken.                                      *)
(***************************************************************************)
EndedChannelsAreReleased ==
    \A c \in Channel : step[c] \in Ended => c \notin listening

Twins(c, d) == c # d /\ SameCandidatesEvent(c, d)

(***************************************************************************)
(* Candidates are routed by remote id and correlation id, which both ends  *)
(* allocate on their own.  A channel is only ever handed candidates of the *)
(* other end of its own session, unless its node has another channel with  *)
(* the same remote id and correlation id or the remote node was reloaded.  *)
(***************************************************************************)
CandidatesFromCounterpart ==
    \A c \in Channel : \A m \in received[c] :
        \/ remoteDescription[c] = m.sender
        \/ remoteDescription[m.sender] = c
        \/ \E d \in Channel : Twins(c, d)
        \/ ~ NeverReloaded(peer[c])

LosesListener(c) ==
    c \in listening /\ Live(c) /\ step'[c] \notin Ended /\ c \notin listening'

(***************************************************************************)
(* A live channel stops hearing candidates only because a channel with the *)
(* same remote id and correlation id is closed in that step.               *)
(***************************************************************************)
ListenersAreLostOnlyToTwins ==
    [][\A c \in Channel : LosesListener(c) =>
           \E d \in Channel : /\ Twins(c, d) /\ Live(d)
                              /\ step'[d] \in {"failed", "closed"}]_vars

(***************************************************************************)
(* RTC.openChannel's error path says it cleans up "our attempted channel   *)
(* establishment resources": closing a channel leaves the handlers of the  *)
(* other channels alone.                                                   *)
(***************************************************************************)
CloseReleasesOnlyItsOwn ==
    [][\A c \in Channel : ~ LosesListener(c)]_vars

(***************************************************************************)
(* Past its post, openChannel with an answer in hand and handleOffer       *)
(* always end, in an open channel or in one that was cleaned up.           *)
(***************************************************************************)
EstablishmentSettles ==
    \A c \in Channel :
        step[c] \in {"handlingAnswer", "waitingForEstablishment",
                     "waitingForOpen"}
            ~> step[c] \in Ended \cup {"open"}

(***************************************************************************)
(* Establishment implements ChannelPairing, over reloads, duplicates and   *)
(* the answers and candidates that reach the wrong channel: two channels   *)
(* are mates once each applied the other's session description, and a      *)
(* channel is only opened to an application when it has a mate.            *)
(***************************************************************************)
Progress ==
    [c \in Channel |-> IF step[c] \in Ended THEN "ended"
                      ELSE IF step[c] \in {"unused", "open"} THEN step[c]
                      ELSE "pending"]

Mate ==
    [c \in Channel |-> IF remoteDescription[c] # None
                         /\ remoteDescription[remoteDescription[c]] = c
                      THEN remoteDescription[c] ELSE None]

Pairing == INSTANCE ChannelPairing WITH state <- Progress, mate <- Mate

OpenChannelsArePaired == Pairing!Spec
=============================================================================
