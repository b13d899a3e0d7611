--------------------------- MODULE ChannelMessaging ---------------------------
(***************************************************************************)
(* An established channel between two clients: Channel.send,               *)
(* Channel.receive and Channel.close at both ends, over an RTCDataChannel  *)
(* (ordered and reliable, as createDataChannel makes it by default).       *)
(*                                                                         *)
(* A call of receive is suspended twice: on the promise that a message,    *)
(* the timer or a wrong readyState settles ("pending"), and then until its *)
(* finally block runs ("settled").  That block is a microtask: no message, *)
(* timer or state change comes before it, but the application may call     *)
(* into the channel.                                                       *)
(***************************************************************************)
EXTENDS Naturals, Sequences, FiniteSets

CONSTANTS
    End,                 \* the two Channel objects
    Type,                \* message types
    Payload, Falsy,      \* what send is given; the JavaScript-falsy ones
    EmptyObject,         \* the payload {}
    Call,                \* calls of receive, over both ends
    Asked,               \* the timeoutInMilliseconds each call is given
    ChannelStateTimeout, \* channelStateTimeoutMs, in ticks
    MaxSends,            \* bound on the calls of send at both ends
    NetworkMayFail,
    None

ASSUME MessagingAssumption ==
    /\ Cardinality(End) = 2
    /\ Falsy \subseteq Payload
    /\ EmptyObject \notin Falsy
    /\ Asked \in [Call -> Nat]
    /\ ChannelStateTimeout \in Nat
    /\ MaxSends \in Nat
    /\ NetworkMayFail \in BOOLEAN

VARIABLES
    readyState, \* of the RTCDataChannel of an end
    closed,     \* ends that were closed: messages and rtcDataChannel deleted
    inFlight,   \* messages on their way to an end
    sends,      \* number of messages sent
    buffered,   \* messages of an end and type emitted with no listener
    handlers,   \* calls whose handler is registered with messages
    status,     \* where a call of receive is suspended
    request,    \* the end and the type it receives at
    age,        \* ticks since it was made
    message,    \* the message its promise was resolved with
    error       \* the error it was rejected with

channelVars == <<readyState, closed, inFlight, sends, buffered>>
callVars == <<handlers, status, request, age, message, error>>
vars == <<channelVars, callVars>>

Box == End \X Type
Other(e) == CHOOSE o \in End : o # e

\* message || {}
OnWire(p) == IF p \in Falsy THEN EmptyObject ELSE p

\* What is sent, with what the application gave for it
Message == {[type |-> t, payload |-> OnWire(p), given |-> p] :
                t \in Type, p \in Payload}

Quiet == \A r \in Call : status[r] # "settled"

Init ==
    /\ readyState = [e \in End |-> "connecting"]
    /\ closed = {}
    /\ inFlight = [e \in End |-> <<>>]
    /\ sends = 0
    /\ buffered = [b \in Box |-> <<>>]
    /\ handlers = {}
    /\ status = [r \in Call |-> "unused"]
    /\ request = [r \in Call |-> None]
    /\ age = [r \in Call |-> 0]
    /\ message = [r \in Call |-> None]
    /\ error = [r \in Call |-> None]

(***************************************************************************)
(* The application has a channel once it was open; from then on it may     *)
(* call send, receive and close at any time.  send throws, and does        *)
(* nothing, unless the data channel is open.                               *)
(***************************************************************************)
Send(e, t, p) ==
    LET m == [type |-> t, payload |-> OnWire(p), given |-> p] IN
    /\ readyState[e] = "open"
    /\ sends < MaxSends
    /\ sends' = sends + 1
    /\ inFlight' = IF readyState[Other(e)] = "closed" THEN inFlight
                   ELSE [inFlight EXCEPT ![Other(e)] = Append(@, m)]
    /\ UNCHANGED <<readyState, closed, buffered, callVars>>

Unhandled(b) == buffered[b]

\* messages.once(type, handler): a buffered message is handed over at once
Once(r, b) ==
    /\ status[r] = "unused"
    /\ request' = [request EXCEPT ![r] = b]
    /\ IF Unhandled(b) = <<>>
       THEN handlers' = handlers \cup {r} /\ UNCHANGED buffered
       ELSE buffered' = [buffered EXCEPT ![b] = Tail(@)] /\ UNCHANGED handlers
    /\ UNCHANGED <<readyState, closed, inFlight, sends, age>>

Receive(r, b) ==
    /\ readyState[b[1]] = "open"
    /\ Once(r, b)
    /\ status' = [status EXCEPT
           ![r] = IF Unhandled(b) = <<>> THEN "pending" ELSE "settled"]
    /\ message' = [message EXCEPT
           ![r] = IF Unhandled(b) = <<>> THEN None ELSE Head(Unhandled(b))]
    /\ UNCHANGED error

Reject(r, e) ==
    /\ status' = [status EXCEPT ![r] = "settled"]
    /\ error' = [error EXCEPT ![r] = e]
    /\ UNCHANGED message

\* The executor rejects but goes on to register its handler
ReceiveNotOpen(r, b) ==
    /\ readyState[b[1]] = "closed"
    /\ b[1] \notin closed
    /\ Once(r, b)
    /\ Reject(r, "NotOpenError")

\* messages is gone: the executor rejects, then throws in vain
ReceiveClosed(r, b) ==
    /\ status[r] = "unused"
    /\ b[1] \in closed
    /\ Reject(r, "NotOpenError")
    /\ request' = [request EXCEPT ![r] = b]
    /\ UNCHANGED <<channelVars, handlers, age>>

\* onmessage: parse the message and emit it
Arrive(e) ==
    LET m == Head(inFlight[e])
        b == <<e, m.type>>
        takers == {r \in handlers : request[r] = b}
        waiters == {r \in takers : status[r] = "pending"}
    IN
    /\ Quiet
    /\ readyState[e] = "open"
    /\ inFlight[e] # <<>>
    /\ inFlight' = [inFlight EXCEPT ![e] = Tail(@)]
    /\ buffered' = IF takers = {} THEN [buffered EXCEPT ![b] = Append(@, m)]
                   ELSE buffered
    /\ handlers' = handlers \ takers
    /\ status' = [r \in Call |-> IF r \in waiters THEN "settled" ELSE status[r]]
    /\ message' = [r \in Call |-> IF r \in waiters THEN m ELSE message[r]]
    /\ UNCHANGED <<readyState, closed, sends, request, age, error>>

\* Mutant: close() cancels the timers
DueUnlessClosed(r) ==
    age[r] = ChannelStateTimeout /\ request[r][1] \notin closed

Due(r) == age[r] = ChannelStateTimeout

\* The timer of timeLimitedPromise, which is not the timeout asked for
TimerFires(r) ==
    /\ Quiet
    /\ status[r] = "pending"
    /\ Due(r)
    /\ Reject(r, "TimeoutError")
    /\ UNCHANGED <<channelVars, handlers, request, age>>

\* Mutant: the handler is only removed when it was called
RemoveListenerNever(r) == handlers' = handlers

\* Mutant: removeAllListeners(messageType)
RemoveListenersOfType(r) ==
    handlers' = {s \in handlers : request[s] # request[r]}

RemoveListener(r) == handlers' = handlers \ {r}

\* The finally block, which throws when messages is gone
ReceiveEnds(r) ==
    /\ status[r] = "settled"
    /\ status' = [status EXCEPT ![r] = "done"]
    /\ IF request[r][1] \in closed
       THEN /\ error' = [error EXCEPT ![r] = "TypeError"]
            /\ message' = [message EXCEPT ![r] = None]
            /\ UNCHANGED handlers
       ELSE /\ RemoveListener(r)
            /\ UNCHANGED <<message, error>>
    /\ UNCHANGED <<channelVars, request, age>>

\* Channel.close; a second call finds everything deleted
Close(e) ==
    /\ readyState[e] # "connecting"
    /\ e \notin closed
    /\ closed' = closed \cup {e}
    /\ readyState' = [readyState EXCEPT ![e] = "closed"]
    /\ inFlight' = [inFlight EXCEPT ![e] = <<>>]
    /\ buffered' = [b \in Box |-> IF b[1] = e THEN <<>> ELSE buffered[b]]
    /\ handlers' = {r \in handlers : request[r][1] # e}
    /\ UNCHANGED <<sends, status, request, age, message, error>>

-----------------------------------------------------------------------------
(* The browsers, the network and the clock.                                *)

DataChannelOpens(e) ==
    /\ readyState[e] = "connecting"
    /\ readyState' = [readyState EXCEPT ![e] = "open"]
    /\ UNCHANGED <<closed, inFlight, sends, buffered, callVars>>

\* The other end closed its connection, which aborts the transport, or the
\* network failed: what is still on its way is lost
DataChannelCloses(e) ==
    /\ Quiet
    /\ readyState[e] # "closed"
    /\ readyState[Other(e)] = "closed" \/ NetworkMayFail
    /\ readyState' = [readyState EXCEPT ![e] = "closed"]
    /\ inFlight' = [inFlight EXCEPT ![e] = <<>>]
    /\ UNCHANGED <<closed, sends, buffered, callVars>>

Pending == {r \in Call : status[r] = "pending"}

\* Time passes; a timer that is due fires first
Tick ==
    /\ Pending # {}
    /\ \A r \in Pending : age[r] < ChannelStateTimeout
    /\ age' = [r \in Call |-> IF r \in Pending THEN age[r] + 1 ELSE age[r]]
    /\ UNCHANGED <<channelVars, handlers, status, request, message, error>>

Next ==
    \/ \E e \in End, t \in Type, p \in Payload : Send(e, t, p)
    \/ \E r \in Call, b \in Box :
          Receive(r, b) \/ ReceiveNotOpen(r, b) \/ ReceiveClosed(r, b)
    \/ \E r \in Call : TimerFires(r) \/ ReceiveEnds(r)
    \/ \E e \in End : \/ Arrive(e) \/ Close(e)
                      \/ DataChannelOpens(e) \/ DataChannelCloses(e)
    \/ Tick

Spec == Init /\ [][Next]_vars

\* Time passes, timers that are due fire and microtasks run
Fairness ==
    /\ WF_vars(Tick)
    /\ \A r \in Call : WF_vars(TimerFires(r)) /\ WF_vars(ReceiveEnds(r))

FairSpec == Spec /\ Fairness

-----------------------------------------------------------------------------
TypeOK ==
    /\ readyState \in [End -> {"connecting", "open", "closed"}]
    /\ closed \subseteq End
    /\ inFlight \in [End -> Seq(Message)]
    /\ sends \in Nat
    /\ buffered \in [Box -> Seq(Message)]
    /\ handlers \subseteq Call
    /\ status \in [Call -> {"unused", "pending", "settled", "done"}]
    /\ request \in [Call -> Box \cup {None}]
    /\ age \in [Call -> 0 .. ChannelStateTimeout]
    /\ message \in [Call -> Message \cup {None}]
    /\ \A r \in Call : message[r] # None => message[r].payload \notin Falsy
    /\ error \in [Call -> {"NotOpenError", "TimeoutError", "TypeError", None}]

(***************************************************************************)
(* Between tasks, exactly the calls of receive that still wait at an end   *)
(* that was not closed have a handler: a call leaves none behind, however  *)
(* it ends, and none is lost while its call can still be answered.         *)
(***************************************************************************)
HandlersAreWaitingCalls ==
    Quiet => handlers = {r \in Pending : request[r][1] \notin closed}

(***************************************************************************)
(* send and receive implement mailboxes per end and type: the mail is what *)
(* is buffered followed by what is in flight, for as long as the data      *)
(* channel of the end did not close.  The test "will return any unhandled  *)
(* messages before returning new ones" is about this order.                *)
(***************************************************************************)
Mailbox ==
    INSTANCE TypedMailbox WITH
        mail <- [b \in Box |->
            IF readyState[b[1]] = "closed" THEN <<>>
            ELSE buffered[b] \o SelectSeq(inFlight[b[1]],
                                          LAMBDA m : m.type = b[2])],
        open <- {e \in End : readyState[e] # "closed"},
        waiting <- [r \in Call |-> IF status[r] = "pending" THEN request[r]
                                   ELSE None],
        begun <- {r \in Call : status[r] # "unused"},
        got <- message

MessagesKeepOrder == Mailbox!Spec

(***************************************************************************)
(* Every call of receive ends, whatever becomes of the channel.            *)
(***************************************************************************)
ReceivesEnd ==
    \A r \in Call : status[r] = "pending" ~> status[r] = "done"

(***************************************************************************)
(* receive is documented to "Wait an amount of time for a particular type  *)
(* of message": its caller waits no longer than the time it asked for.     *)
(***************************************************************************)
WaitsAsLongAsAsked ==
    \A r \in Pending : age[r] <= Asked[r]

(***************************************************************************)
(* "will reject with a timeout error if the timeout expires before the     *)
(* message is received".                                                   *)
(***************************************************************************)
TimeoutsAreReported ==
    [][\A r \in Call : (status[r] = "settled" /\ error[r] = "TimeoutError"
            /\ status'[r] = "done") => error'[r] = "TimeoutError"]_vars

(***************************************************************************)
(* send is documented with "The message to send": what receive returns is  *)
(* what the application gave to send.                                      *)
(***************************************************************************)
PayloadsArriveAsGiven ==
    \A r \in Call :
        message[r] # None => message[r].payload = message[r].given

(***************************************************************************)
(* The README has a handler "reply with the PongMessage and finally close  *)
(* the channel": on a sound network, the reply reaches an end that has not *)
(* closed its own channel.                                                 *)
(***************************************************************************)
RepliesOutliveClosing ==
    [][\A e \in End :
          (Len(inFlight'[e]) < Len(inFlight[e])) =>
              e \in closed' \/ readyState'[e] = "open"]_vars
=============================================================================
