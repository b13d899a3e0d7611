# A TLA+ model of cyclon.p2p-rtc-client

`cyclon.p2p-rtc-client` lets browsers open WebRTC data channels to each other.
Session descriptions and ICE candidates travel over *signalling servers*:
a client posts a message for another node to one of that node's servers by
HTTP, and the server relays it over the socket.io connection the node keeps to
it. Everything runs in one JavaScript thread per page. The hard part is what
happens between the awaits, and on the other nodes, meanwhile.

## The system

| component | state | operations | hard behaviour |
|---|---|---|---|
| `RTC` | the handler per channel type | `connect`, `onChannel`, `openChannel`, `handleOffer` | eight awaits on either side, each of which may fail; two sides in step |
| `Channel` | correlation id, data channel, handler on a candidates event | one method per step of the two functions above; `send`, `receive`, `close` | candidates that come before the handler; `close` at any await |
| `PeerConnection` | cache of remote candidates, queue of local ones, data channel | `createOffer`, `createAnswer`, `handleAnswer`, `processRemoteIceCandidates`, `startEmittingIceCandidates`, `waitForChannelToOpen`, `close` | a reentrant asynchronous method that clears what it read before its await |
| `SocketIOSignallingService` | correlation id counter, pointer counter, local id (stored), two buffering emitters | `sendOffer`, `waitForAnswer`, `sendAnswer`, `sendIceCandidates`, `createNewPointer` | answers routed by correlation id alone; a counter that restarts with the page; posts retried server by server |
| `IceCandidateBatchingSignallingService` | queue and promise per destination and correlation id | `sendIceCandidates`; everything else delegates | a timer, new calls and slow posts interleave |
| `RedundantSignallingSocket` | sockets, the connectivity interval, whether the page is unloading | `connect`, the interval, socket events | sockets fail at any time, also during an unload |
| `SignallingServerSelector` | disconnect times, random values, stored servers | `getServerSpecsInPriorityOrder`, `flagDisconnection`, `setLastConnectedServers` | order after failures and over reloads |
| `HttpRequestService` | none | `post`, `get` | errors that settle no promise |
| factories, `Builder`, `Defaults`, `StaticSignallingServerService`, interfaces | none | wiring | none |

How they interact: `RTC` drives a `Channel` per session; the `Channel` calls
its `PeerConnection` (a wrapper of the browser's) and the batching service,
which wraps `SocketIOSignallingService`, which posts through
`HttpRequestService`. In the other direction `RedundantSignallingSocket` emits
the messages that arrive on any socket, `SocketIOSignallingService` re-emits
them on its two `BufferingEventEmitter`s under a name made of the ids in the
message, and the `Channel` (or `waitForAnswer`, or `RTC` for offers) listens
there. `RedundantSignallingSocket` asks the selector where to connect and the
signalling service for the pointer it registers at each server.

What makes each part correct:

* channel establishment: an answer or a candidate reaches the channel it is
  meant for, whenever it comes; what a channel registered is released however
  it ends; closing one leaves the others alone; the timed parts end;
* batching: nothing lost, duplicated, reordered or sent elsewhere, and a caller
  is told the outcome of the post that carried its candidates;
* sockets: never more than preferred, always monitored by exactly one interval,
  servers tried in rotation, affinity with servers kept over reloads,
  registrations that become accurate;
* the peer connection: no candidate dropped or emitted twice, in any interleaving
  of candidates with the descriptions;
* posts: success means relayed, failure means every server was asked, and the
  message is not relayed twice;
* an open channel: messages of a type keep their order and none is lost while
  the channel is open; a call of `receive` ends, and leaves no handler behind;
* pointers: of two with one id the later has the greater sequence number, over
  reloads, crashes and storage failures;
* all together: a candidate that was gathered is added at the other end, a
  handshake on a network that delivers ends in two open channels, and an open
  channel is one of a pair.

`PROJECT.json` lists the places in the code where these could go wrong
("hazards"), and which property would notice.

## The modules

### ChannelEstablishment

`RTC.openChannel` on one node and `RTC.handleOffer` on another, the `Channel`
objects and the emitters between them, for any number of nodes and channels.

JavaScript runs to completion, so an action is everything from the resolution
of one await (or the arrival of one event) to the next await. `step[c]` names
the await at which the function that drives channel `c` is suspended:

| code | action |
|---|---|
| `createChannel`, `createOffer` called | `OpenChannel` |
| `sendOffer` called: id allocated, offer posted | `SendOffer` |
| the post is acknowledged: listen for candidates, `waitForAnswer` | `OfferSent` |
| an `answer` event | `ReceiveAnswer` |
| `handleAnswer` resolves, `startSendingIceCandidates` | `AnswerHandled` |
| an `offer` event: `createChannel`, `createAnswer` called | `ReceiveOffer` |
| `createAnswer` resolves: listen, post the answer | `AnswerCreated` |
| the post is acknowledged, `startSendingIceCandidates` | `AnswerSent` |
| `channelCreated` / `onopen` | `ChannelEstablished`, `ChannelOpened` |
| `onicecandidate`, a `candidates` event | `CandidatesGathered`, `ReceiveCandidates` |
| a rejected await, caught | `OpenChannelFails`, `HandleOfferFails`, `HandlerFails` |
| `close` by the application | `CloseByApplication` |
| the page is reloaded | `Reload` |

A session description is the name of the channel that made it, and so are the
candidates of a message (`sender`). Messages are never taken out of `network`:
one that is not received was lost, one received again was duplicated, and they
are received in any order. `buffered` is what the emitters keep for events
nobody listens to. `LinkUp` and the other `DataChannel...` actions stand for
ICE, DTLS and the browser, which connect two ends only if each applied the
other's description.

Whether `removeAllListeners` of the library's emitter also drops what it has
buffered for the event is not said in this repository: `MayForget` allows both.

`MCChannelEstablishment` gives the instances: two clients, with calls one way or
both ways.

### ChannelPairing

What establishment promises to the applications, for `ChannelEstablishment` to
implement: a channel they are given is one of a pair. Its mate is the only one
paired with it, on the node that was called, and stays its mate. In the
refinement mapping (`Pairing`) two channels are mates once each has applied the
session description of the other; the state of a channel is what its application
knows of it. An opener that applied a stale answer (see the findings) has applied
the description of a channel that answers another one: it gets no mate, and must
not be opened to its application.

### HandshakeCompletion

`ChannelEstablishment` with a network on which every message arrives at least
once (`arrived`), at any time and in any order, and with ICE that connects two
ends only when each was handed candidates of the other. Everything else may
still fail. It is the place for what must happen in the end: a handshake that
misses an answer or candidates stops half-way here, which no safety property of
the module it extends would notice.

### CandidateDelivery and CandidateBatching

`CandidateDelivery` is what a caller of `sendIceCandidates` relies on, without
timers or maps: calls wait, all that wait for one destination and correlation
id go out in one post in the order of the calls, and the calls of a post end as
it ends. `CandidateBatching` is the code: the queue, the promise and the timer
of a key are separate pieces of state. The refinement takes the queue for what
waits, the arguments of the wrapped `sendIceCandidates` for the posts, and the
state of the promise a call returned for its result.

A call stands for the array it passes. All arrays are non-empty, as
`PeerConnection` emits none that is empty.

### SignallingServerSelector and RedundantSignallingSocket

The second EXTENDS the first, as the socket owns its selector. Time is the order
of the last disconnection of each server, and which of them are less than the
retry delay ago: `lastDisconnectTimes` numbers the disconnections from 1, the
longest ago, and 0 stands for `undefined` (the numbers of the later ones move
down when a server disconnects again, so that they stay within the number of
servers). `SortValue` keeps the three ranges of the code's sort values:
0 for servers stored before a reload, random values in the past, disconnect
times above both. `Choices` is the loop of `connectToServers`: it walks the
servers in order until as many are connected as preferred, skipping those whose
socket cannot be created (`BadServers`). Servers with equal sort values come in
any order.

`Dispose` is the whole of `disposeOfSocket`, with the reconnection it makes.
`Connect` is `RTC.connect`, which may be called again after it threw. A storage
that throws (`StorageThrows`) ends a disposal, a check, a call of `connect` or
the making of a pointer half-way, at most once per page.

`intervals` counts running intervals, and `thrown` records the "BUG" error, so
that "one interval" is something to check and not an assumption. `registration`
is what the server was last told of the client's servers.

### PeerConnection

One `PeerConnection` from its descriptions to `close`. Each call of
`processRemoteIceCandidates` is a run of its own, suspended while
`addIceCandidate` works on its batch; several can be suspended at once.
Candidates come in, and are gathered, between any two steps.

### CandidateTrickle

The whole way of the candidates, composed of the modules that carry them: an
instance of `PeerConnection` for each end (of the sender only the local half, of
the receiver only the remote half moves), `CandidateBatching` between them, and
the posts, the emitter and the candidates handler as actions of its own. Each of
its actions conjoins an action of the component with what the `Channel`'s
listener does in the same event: what `Gather` and `StartSending` emit is passed
to `SendIceCandidates`, what `Hand` takes from the emitter goes to the receiver's
`RemoteCandidates`. `BetweenEvents` keeps the callbacks of one event together.

### TypedMailbox and ChannelMessaging

`ChannelMessaging` is `send`, `receive`, the message listener and `close` at the
two ends of an open data channel. A call of `receive` is `pending` while it waits
for its message, its timer or a rejection, `settled` until the microtask that
runs its `finally` block, and `done`. `Quiet` says that microtasks run before the
next task. Time is counted in ticks, and the timer is `ChannelStateTimeout`
whatever was asked for, as in the code. A handler of the emitter whose promise
has settled otherwise still takes a message (`takers` and `waiters` differ in
`Arrive`), and a `receive` on a closed channel rejects and throws at once.

`TypedMailbox` is what the applications rely on, without listeners and timers:
a mailbox per end and message type. In the refinement a mailbox is what is
buffered followed by what is in flight for the type.

### PointerIssuing

`createNewPointer`, `getNextPointerSequenceNumber` and `getLocalId`, over the
pages that share a storage. A page is gone between two calls only, as each is
synchronous, and `setItem` throws at either of its two places: after a new id is
in memory, or after the counter was incremented. Ids are named after the page
that made them up.

### MessagePosting

`postToFirstAvailableServer` over `HttpRequestService.executeRequest`: for each
message the servers left to try and how far the current request is. A request
that breaks with an error event stays `broken`: nothing in the code listens.
Servers are external. A server relays only to a node registered with it, and
one that refuses has not relayed: the client's retry relies on that.

## What is checked

Run any of them in this directory with `tlc -config <run>.cfg <module>`.

| run | module | shows |
|---|---|---|
| `establishment` | MCChannelEstablishment | the safety of establishment, and that it implements `ChannelPairing` |
| `handshakes_complete` | MCHandshakeCompletion | handshakes end in open channels; what has a timeout ends |
| `messaging` | MCChannelMessaging | an open channel implements `TypedMailbox`; handlers and calls end |
| `pointers` | PointerIssuing | sequence numbers grow |
| `trickle` | CandidateTrickle | candidates from end to end |
| `batching` | CandidateBatching | it implements `CandidateDelivery`; its records agree |
| `sockets` | MCRedundantSignallingSocket | the sockets, their interval and their storage; reachability |
| `peer_connection` | PeerConnection | candidates in both directions |
| `posting` | MessagePosting | what a caller is told |
| `stale_answer_after_reload` | MCChannelEstablishment | *violated*, see below |
| `crossing_calls_lose_candidates` | MCHandshakeCompletion | *violated*, see below |
| `post_after_network_error` | MessagePosting | *violated*, see below |

The properties, by module:

* **ChannelEstablishment.** `AnswersCorrelateUnlessReloaded`: an opener applies
  only the answer to its own offer, as long as its node was never reloaded.
  `NothingMissed`: no message for a suspended or listening channel is stuck in a
  buffer. `OneWaiterPerAnswer`: the `removeAllListeners` at the end of
  `waitForAnswer` never hits another wait. `EndedChannelsAreReleased`: no error
  path leaks a handler. `CandidatesFromCounterpart`: candidates are those of the
  channel's own session, but for two exceptions the code does have (a twin, that
  is another channel of the node with the same remote id and correlation id; a
  reloaded peer). `ListenersAreLostOnlyToTwins`: a live channel goes deaf only
  by the closing of a twin. `OpenChannelsArePaired`: the refinement of
  `ChannelPairing`.
* **HandshakeCompletion.** `HandshakesComplete`: a channel that was begun opens,
  unless it has a twin, or a channel failed, was closed or lost its link.
  `WaitsEnd`: under the timers' fairness, a channel past its wait for the answer,
  or its post, ends open or cleaned up.
* **ChannelMessaging.** `HandlersAreWaitingCalls`: between tasks the handlers are
  exactly those of the calls that still wait, so that none leaks and none is
  taken from a call that can still be answered. `MessagesKeepOrder`: the
  refinement. `ReceivesEnd`: every call ends, whatever becomes of the channel.
* **PointerIssuing.** `SequenceNumbersGrow`, `OneIdentity`, and
  `NextNumberIsAbove`, which relates the issued pointers to the storage and is
  what makes the first hold.
* **CandidateTrickle.** `NoCandidateVanishes`: at any moment an emitted candidate
  is with one of the components. `EveryCandidateIsAdded`: each is handed to
  `addIceCandidate`, if posts succeed and the receiver lives.
* **CandidateBatching.** `QueuesHaveTimers`, `DeliveryHolds` (the refinement),
  `EveryCallIsSent`.
* **RedundantSignallingSocket.** `SocketsWithinPreferred` and
  `MonitoredByOneInterval`, also where the storage throws;
  `StoredServersAreOpen`, `AffinityOutlivesUnload`, `ReloadsReconnect`;
  `ServersAreTriedRoundRobin`, `ClientsStayReachable`, `RegistrationsCatchUp`.
* **PeerConnection.** `RemoteCandidatesAreKept`, `ReadyAfterEarlyCandidates`,
  `LocalCandidatesAreEmittedOnce`, `AnswersAreHandled`.
* **MessagePosting.** `ResolvedMeansRelayed`, `UnreachableMeansNotRelayed`,
  `RelayedOnce`, `PostsEndOnSoundConnections`.

Each has a mutant beside the definition it changes (marked "Mutant:"): the
definition as a plausible slip would have it, under which TLC finds the property
violated.

### Where the code departs from what it says

Three runs show it, each with one property that TLC finds violated:

* `stale_answer_after_reload`: a node offers a channel, its page is reloaded,
  it offers another one. Correlation ids start again from 0 while the local id
  comes back from storage, and answers are routed by correlation id alone, so
  the late answer to the first offer is handed to the second one. The tests say
  non-correlated answers are ignored.
* `crossing_calls_lose_candidates`: two nodes call each other, with equal
  correlation ids. The channel that answers listens on the candidates event of
  the one that opens, possibly before it. Candidates for the latter are emitted
  to the former alone, and, having a listener, are not kept: they are lost.
* `post_after_network_error`: a connection error leaves `post` pending for ever,
  where "first available" and the catch block expect a rejection and the next
  server.

Further counterexamples have a `.cfg` of their own, to be run by hand:

| cfg | module | what TLC shows |
|---|---|---|
| `close_cuts_off_twin` | MCChannelEstablishment | closing one of two crossing channels unregisters the candidates handler of the other (`Channel.ts:193`), where `RTC.ts:57` means to clean up "our" resources |
| `connecting_sockets_are_current` | MCRedundantSignallingSocket | `getCurrentServerSpecs`, the servers "we're currently listening on", has sockets that are still connecting (`RedundantSignallingSocket.ts:185`) |
| `cancelled_unload` | MCRedundantSignallingSocket | `unloadInProgress` is never reset: after an unload the user cancels, a client without sockets stays so; with `StorageMayThrow = TRUE`, also after a disposal that the storage ends early (`RedundantSignallingSocket.ts:46`, `256`) |
| `connect_retried` | MCRedundantSignallingSocket | `connect` threw as the storage did, a disposal started the checks, and `connect` is called again: "BUG ::: Attempt was made to start connectivity checks twice" (`RedundantSignallingSocket.ts:75`) |
| `receive_waits_longer` | MCChannelMessaging | `receive` waits `channelStateTimeoutMs`, never `timeoutInMilliseconds` (`Channel.ts:183`) |
| `closing_hides_timeout` | MCChannelMessaging | a `receive` whose channel was closed rejects with a TypeError of its `finally` block, not with the timeout (`Channel.ts:186`) |
| `falsy_payloads` | MCChannelMessaging | `message \|\| {}` sends 0, false, the empty string and null as an empty object (`Channel.ts:154`) |
| `reply_lost_at_close` | MCChannelMessaging | a reply followed by `close()`, as in the README's example, may be lost with the connection (`Channel.ts:202`) |

### Bounds

* `establishment`: two nodes, three channels, one reload of each node. Three
  channels are needed: a crossing call (two openers, one answerer), a duplicated
  offer (one opener, two answerers) and an offer before and after a reload with
  the answerer of the first all take three. Messages may be received any number
  of times in any order. `MaxRestarts` bounds reloads in the guard of `Reload`.
* `handshakes_complete`: two nodes, a channel that opens and one that answers,
  one reload of each node, and every failure the module has. Liveness of a
  session is about its two channels; crossing calls make twins, which the
  property excepts and `crossing_calls_lose_candidates` (two openers, two
  answerers) shows the reason for.
* `messaging`: two ends, two types, two payloads of which one is falsy, two
  messages, two calls of `receive`, a timer of two ticks. Two calls for one type
  and two messages of it make order matter; a call and a message of the other
  type show that they do not mix. `MaxSends` bounds the messages.
* `pointers`: four pages and sequence numbers up to 4: enough for an id to be
  made, lost, replaced and for a page to go on from another page's number.
  `MaxPages` and `MaxSeq` bound them in the guards.
* `trickle`: two candidates, of which the receiver's browser rejects one, in one
  or two batches; three runs, so that each batch and the description have theirs.
* `batching`: four calls, two keys. A batch of two, a later batch for the same
  key while the first is in flight, and one for another key.
* `sockets`: three good servers and one that cannot be connected to; one or two
  sockets preferred, as the initial state chooses. With two there are choices
  between servers, and all of them can fail; with one, a wrong order of retries
  could go back and forth between two servers and starve the third. The storage
  throws at most once per page, in any place.
* `peer_connection`: three runs: that of the description, one before it is done
  and one after; two remote candidates and a refused one; two local candidates.
  `Run` bounds the calls that reach the cache.
* `posting`: two messages, three servers, every choice of servers in a pointer.

`CHECK_DEADLOCK FALSE` is set where a behaviour may properly come to its end:
when all channels have ended, or one waits for an answer that never comes
(`waitForAnswer` has no timeout); when all calls were made and ended; when all
pages are used; when a peer connection is closed.

### Fairness

* `ChannelEstablishment`: `Fairness` has the awaits of WebRTC promises and those
  wrapped in `timeLimitedPromise` go on. The two posts are left out, as
  `HttpRequestService` does not settle on every error, and so is `waitForAnswer`,
  which has no timeout. It is the premise of `WaitsEnd`.
* `HandshakeCompletion`: `HandshakeFairness` has posts and WebRTC calls settle,
  candidates gathered, links come up, and one message of every kind of every
  channel arrive. No timeout has to fire, and nothing has to fail. It is a
  sound network, and what the property needs: on any other one no code could
  open a channel.
* `ChannelMessaging`: time passes, timers that are due fire and microtasks run.
* `CandidateTrickle`: timers of the batching fire, a message that a server can
  take is taken and arrives, and an emitter calls its handlers. Nothing is
  assumed of the descriptions: the property waits for them.
* `CandidateBatching`: timers fire. Nothing is assumed of the posts.
* `RedundantSignallingSocket`: time passes, and the interval fires with no
  storage that throws, unless disposals replace it for ever (`Fairness` is a
  disjunction: a disposal starts the 30 seconds anew). No socket has to fail, and
  none has to connect.
* `PeerConnection`: `addIceCandidate` settles and a resolved await is resumed.
* `MessagePosting`: a server that was asked responds or the connection breaks,
  and a response is handled.

## What is proved

TLAPS checks the theorems of eight modules, one per component with `Proofs`
added to its name, for every value of the constants. Every invariant and every
action property of the passing runs is stated by one of them, and so are two of
the three refinements. Each inductive invariant was run through TLC before it
was proved.

The theorems rest on the assumptions on the constants, and on nothing else.
They say what the model means by its constants: calls are between nodes, the
refused candidates are candidates, the servers are finitely many, the payload an
absent message is replaced by is not itself falsy, numbers are natural numbers,
and `None` is nothing else.

**ChannelEstablishmentProofs** works in four layers.

1. `IInv` is inductive by itself. `AnswersCorrelateUnlessReloaded` is not: to
   know that the answer an opener takes was made from its own offer one must
   know that a message agrees with its sender (`MessagesMatchSenders`), that an
   answering channel carries the id of the opener whose offer it applied
   (`AnswerersMatchOpeners`), that an opener applied what an answerer posted
   (`OpenersApplyAnswers`), and that no two openers whose id still counts share
   one (`IdsAreDistinct`). The last is about the openers that are live or whose
   node was never reloaded: that is exactly what a reload breaks, and why the
   theorem has its "unless". Then the answer's channel applied the offer of
   *some* opener of this node with this id, and there is only one.
   `StepSorts` first reduces the many actions to six kinds of step, so that each
   part is proved six times and not twenty.
2. `EmitterInv` adds what listeners and buffers have to do with steps:
   `NothingIsMissed`, `EndingReleases`.
3. `DeliveryInv` adds what was received: `CandidatesAreOfTheSession`.
4. `PairingInv` adds what the refinement `EstablishmentPairs` needs: an opener
   has applied no answer until its wait ends, so that mates stay mates, and a
   data channel only comes up between mates, so that a channel that opens has
   one. A step of `ChannelEstablishment` begins, pairs, opens or ends channels
   of `ChannelPairing`, or is one that no application notices. Stale answers
   need no exception here: the opener that applied one has no mate.

`WaitersAreAlone` follows from `IdsAreDistinct` (a waiting opener is live).
`ListenersAreLostToTwins` is an action property and needs the types alone.

**CandidateBatchingProofs** has the invariant `BInv` (the three records of a key
agree, a call awaits the promise of the batch it is in, a promise is settled only
after its batch was passed on) and from it the refinement `BatchingDelivers`: a
call is a `Send`, a timer that fires is a `Post`, a promise that settles is a
`Settle`.

**PointerIssuingProofs.** `NextNumberIsAbove` is what makes `SequenceNumbersGrow`
hold, but is not inductive: a new page that finds no id in the storage makes one
up, and must not hit one that pointers were issued with. `IdsAreOfPages` says
that ids come from pages up to this one; `CountersHaveIds` that a page which
has counted has an id, so that making one up never takes over a counter. The
numbers of pages and pointers are bounded in the guards for TLC; the theorems
are for every bound.

**MessagePostingProofs.** `UnreachableMeansNotRelayed` needs to know which server
can have relayed a message at all: only that of the current request, and only
once it has accepted or its connection broke (`RelayedByRequest`). That a
refusal is followed by the next server and a break is not
(`ResultsMatchExchanges`) then gives `RelayedOnce`.

**PeerConnectionProofs.** `RemoteCandidatesAreKept` is about a cache that is
emptied after an await. `RunsMatchDescription` says that no run begins before
the description is set, and that a run that is done met no refusal;
`OpenersAwaitTheirRun` ties the opener's phase to its run, which gives
`ReadyAfterEarlyCandidates`. `GatheredOnce` is the strengthening of
`LocalCandidatesAreEmittedOnce`: what was gathered is, without repetition, in
`localIceCandidates` before sending starts, and in `emitted` while sending.

**RedundantSignallingSocketProofs.** The three invariants of the run are proved
together with `FirstLoadIsClean` (before anything happened there is no socket,
no interval and no disconnection), `StoredServersFit` (a socket to each stored server
could be created, and there are not more of them than preferred) and
`CheckedStoreIsExact` (as long as the checks run, the stored servers are exactly
those of the open sockets; a disposal only leaves one in the store after an
unload has stopped the checks). The heart of
`SocketsWithinPreferred` is arithmetic on cardinalities: the servers chosen are
no more than those missing (`ConnectingFits`). `UnloadKeepsAffinity` and
`ReloadReachesSameServers` are action properties: the second needs that stored
servers sort before all others (value 0) and that there are not more of them
than sockets wanted, so that the loop of `connectToServers` reaches each of them.

**ChannelMessagingProofs.** That handlers are exactly those of waiting calls is
true between tasks only. The invariant is what is true within them too: a
handler is of a call that did not end (`HandlersAreOfCalls`), a waiting call at
an end that was not closed has its handler (`PendingCallsAreHandled`), a closed
end does not open again (`ClosedEndsAreNotOpen`).

**CandidateTrickleProofs.** A candidate passes from the sender's connection
through the queue, the post and the emitter to the receiver. The invariant has
where it can be at each stage (`EmittedAreCarried`), that a batch is posted once
and only what was posted arrives (`HandedAreSent`), and that nothing is carried
that was not emitted (`NothingFromNowhere`). It needs nothing of the inside of
the receiver's `PeerConnection`, which has theorems of its own.

## What is only model-checked

* Everything under fairness (`HandshakesComplete`, `WaitsEnd`, `ReceivesEnd`,
  `EveryCandidateIsAdded`, `EveryCallIsSent`, `ServersAreTriedRoundRobin`,
  `ClientsStayReachable`, `RegistrationsCatchUp`, `AnswersAreHandled`,
  `PostsEndOnSoundConnections`): liveness and ENABLED are out of this prover's
  reach.
* The refinement of `TypedMailbox` (`MessagesKeepOrder`). A mailbox is what of
  the messages in flight is of its type, which the mapping says with
  `SelectSeq`; the prover's library states nothing of that operator, and what it
  returns for an appended or a shortened sequence takes an induction over data.
* The three runs whose property is violated: they are counterexamples.

## What is not modelled

* The contents of session descriptions, candidates, metadata and messages, URLs,
  JSON, logging and the events that are only reported (`offerReceived`,
  `incomingTimeout`, `incomingError`). `ChannelEstablishment` takes the local id
  as constant over reloads, which is what its storage is for (`PointerIssuing`
  has a storage that fails).
* The pointer a batch of candidates is posted with (that of its first call, and
  a later call may have brought a fresher one), and how servers compare the
  sequence numbers of pointers.
* The growth of what the buffering emitters keep for channels that are gone: no
  source states a bound for it.
* A clock that goes back; `Date.now` is the order of disconnections.
* `Builder`, `index`, `Defaults`, the factories and `NativeRTCObjectFactory`:
  they create objects and hand them to each other once, before anything
  happens, and have no state of their own. What their defaults mean for the
  models is there: the storage that is in memory (`LosingStorage`), the batching
  service around the signalling service (`CandidateTrickle`), the preferred
  number of sockets (`PreferredNumbers`). Type declarations.
* The load test under `loadtest/`: a script that runs many signalling clients
  against a server, and no part of the library.

## Plan

The order puts what every exchange depends on first.

1. Done: `ChannelEstablishment` with its proofs, `ChannelPairing` and
   `HandshakeCompletion` over it; `CandidateBatching` against `CandidateDelivery`
   with its proofs; `RedundantSignallingSocket` with the selector;
   `PeerConnection`; `MessagePosting`; `ChannelMessaging` against `TypedMailbox`;
   `PointerIssuing`; `CandidateTrickle`, the composition.
2. Done: the theorems of eight modules, see "What is proved".
3. Left: the refinement of `TypedMailbox`, if its mapping can be stated without
   `SelectSeq` and stay as plain as it is; the steps of it that do not touch
   what is in flight can be proved in any case.
