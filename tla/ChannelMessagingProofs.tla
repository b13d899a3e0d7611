------------------------ MODULE ChannelMessagingProofs ------------------------
(***************************************************************************)
(* Theorems about ChannelMessaging, for every set of types, payloads and   *)
(* calls of receive and every timeout.                                     *)
(***************************************************************************)
EXTENDS ChannelMessaging, SequenceTheorems, TLAPS

\* A handler is one of a call that did not end, at an end that was not closed
HandlersAreOfCalls ==
    \A r \in handlers :
        /\ status[r] \in {"pending", "settled"}
        /\ request[r][1] \notin closed

\* While a call waits at an end that was not closed it has its handler
PendingCallsAreHandled ==
    \A r \in Call :
        status[r] = "pending" /\ request[r][1] \notin closed => r \in handlers

\* Channel.close closes the data channel, for good
ClosedEndsAreNotOpen == \A e \in closed : readyState[e] = "closed"

\* A call that was made has a mailbox
CallsHaveBoxes == \A r \in Call : status[r] # "unused" => request[r] \in Box

IInv ==
    /\ TypeOK
    /\ CallsHaveBoxes
    /\ HandlersAreOfCalls
    /\ PendingCallsAreHandled
    /\ ClosedEndsAreNotOpen

-----------------------------------------------------------------------------
\* What send puts on the wire is a message, and its payload is never falsy
LEMMA SentIsMessage ==
  ASSUME NEW t \in Type, NEW p \in Payload
  PROVE  [type |-> t, payload |-> OnWire(p), given |-> p] \in Message
BY DEF Message

\* JavaScript would take a falsy payload for none: send replaces it by {}
LEMMA MessagesAreTruthy ==
  ASSUME NEW m \in Message
  PROVE  m.type \in Type /\ m.payload \notin Falsy
BY MessagingAssumption DEF Message, OnWire

\* Nobody uses a channel that did not exist
LEMMA InitIInv == Init => IInv
BY EmptySeq, MessagingAssumption
DEF Init, IInv, TypeOK, CallsHaveBoxes, HandlersAreOfCalls,
    PendingCallsAreHandled, ClosedEndsAreNotOpen

\* What the channel may do between two calls of receive
ChannelMoves ==
    /\ UNCHANGED <<closed, buffered, callVars>>
    /\ sends' \in Nat
    /\ readyState' \in [End -> {"connecting", "open", "closed"}]
    /\ inFlight' \in [End -> Seq(Message)]
    /\ \A e \in End : readyState[e] = "closed" => readyState'[e] = "closed"

\* send and the network change neither calls nor handlers
LEMMA ChannelStepIInv ==
  ASSUME IInv,
         \/ \E e \in End, t \in Type, p \in Payload : Send(e, t, p)
         \/ \E e \in End : DataChannelOpens(e) \/ DataChannelCloses(e)
         \/ UNCHANGED vars
  PROVE  IInv'
<1>1. ChannelMoves
  <2>1. ASSUME NEW e \in End, NEW t \in Type, NEW p \in Payload, Send(e, t, p)
        PROVE  ChannelMoves
    <3> DEFINE m == [type |-> t, payload |-> OnWire(p), given |-> p]
    <3>1. m \in Message
      BY SentIsMessage
    <3> HIDE DEF m
    <3>2. \/ inFlight' = inFlight
          \/ inFlight' = [inFlight EXCEPT ![Other(e)] = Append(@, m)]
      BY <2>1 DEF Send, m
    <3>3. \A f \in End : Append(inFlight[f], m) \in Seq(Message)
      BY <3>1 DEF IInv, TypeOK
    <3>4. inFlight' \in [End -> Seq(Message)]
      <4>1. inFlight \in [End -> Seq(Message)]
        BY DEF IInv, TypeOK
      <4>2. ASSUME NEW o, inFlight' = [inFlight EXCEPT ![o] = Append(@, m)]
            PROVE  inFlight' \in [End -> Seq(Message)]
        BY <3>3, <4>1, <4>2
      <4> QED
        BY <3>2, <4>1, <4>2
    <3> QED
      BY <2>1, <3>4 DEF IInv, TypeOK, Send, ChannelMoves
  <2>2. ASSUME NEW e \in End, DataChannelOpens(e) \/ DataChannelCloses(e)
        PROVE  ChannelMoves
    BY <2>2, EmptySeq
    DEF IInv, TypeOK, DataChannelOpens, DataChannelCloses, ChannelMoves
  <2>3. CASE UNCHANGED vars
    BY <2>3 DEF IInv, TypeOK, vars, channelVars, ChannelMoves
  <2> QED
    BY <2>1, <2>2, <2>3
<1>2. TypeOK'
  BY <1>1 DEF IInv, TypeOK, ChannelMoves, callVars
<1> QED
  BY <1>1, <1>2
  DEF IInv, TypeOK, CallsHaveBoxes, HandlersAreOfCalls, PendingCallsAreHandled,
      ClosedEndsAreNotOpen, ChannelMoves, callVars

\* A call that is answered from the buffer, or not at all, has no handler
LEMMA ReceiveIInv ==
  ASSUME IInv, NEW r \in Call, NEW b \in Box,
         Receive(r, b) \/ ReceiveNotOpen(r, b) \/ ReceiveClosed(r, b)
  PROVE  IInv'
<1>1. /\ status[r] = "unused"
      /\ request' = [request EXCEPT ![r] = b]
      /\ UNCHANGED <<readyState, closed, inFlight, sends, age>>
      /\ r \notin handlers
      /\ b[1] \in End
  BY DEF Receive, ReceiveNotOpen, ReceiveClosed, Once, channelVars, Box,
         IInv, HandlersAreOfCalls
<1>2. \/ /\ status' = [status EXCEPT ![r] = "pending"]
         /\ handlers' = handlers \cup {r}
         /\ buffered' = buffered /\ error' = error
         /\ message' = [message EXCEPT ![r] = None]
         /\ b[1] \notin closed
      \/ /\ status' = [status EXCEPT ![r] = "settled"]
         /\ handlers' \in {handlers, handlers \cup {r}}
         /\ handlers' = handlers \/ b[1] \notin closed
         /\ \/ buffered' = buffered
            \/ /\ buffered[b] # <<>>
               /\ buffered' = [buffered EXCEPT ![b] = Tail(@)]
         /\ \/ error' = error /\ buffered[b] # <<>>
               /\ message' = [message EXCEPT ![r] = Head(buffered[b])]
            \/ error' = [error EXCEPT ![r] = "NotOpenError"]
               /\ message' = message
  BY DEF Receive, ReceiveNotOpen, ReceiveClosed, Once, Unhandled, Reject,
         channelVars, IInv, ClosedEndsAreNotOpen
<1>3. buffered[b] # <<>> =>
         Head(buffered[b]) \in Message /\ Tail(buffered[b]) \in Seq(Message)
  BY DEF IInv, TypeOK
<1>4. TypeOK'
  <2>1. /\ buffered' \in [Box -> Seq(Message)]
        /\ handlers' \subseteq Call
        /\ status' \in [Call -> {"unused", "pending", "settled", "done"}]
        /\ request' \in [Call -> Box \cup {None}]
        /\ error' \in [Call -> {"NotOpenError", "TimeoutError", "TypeError", None}]
    BY <1>1, <1>2, <1>3 DEF IInv, TypeOK
  <2>2. /\ message' \in [Call -> Message \cup {None}]
        /\ \A q \in Call : message'[q] # None => message'[q].payload \notin Falsy
    BY <1>2, <1>3, MessagesAreTruthy DEF IInv, TypeOK
  <2> QED
    BY <1>1, <2>1, <2>2 DEF IInv, TypeOK
<1>5. CallsHaveBoxes'
  BY <1>1, <1>2 DEF IInv, TypeOK, CallsHaveBoxes
<1>6. HandlersAreOfCalls'
  BY <1>1, <1>2 DEF IInv, TypeOK, HandlersAreOfCalls
<1>7. PendingCallsAreHandled'
  BY <1>1, <1>2 DEF IInv, TypeOK, PendingCallsAreHandled
<1>8. ClosedEndsAreNotOpen'
  BY <1>1 DEF IInv, ClosedEndsAreNotOpen
<1> QED
  BY <1>4, <1>5, <1>6, <1>7, <1>8 DEF IInv

\* A message that arrives takes the handlers of its type along
LEMMA ArriveIInv ==
  ASSUME IInv, NEW e \in End, Arrive(e)
  PROVE  IInv'
<1> DEFINE m == Head(inFlight[e])
           b == <<e, m.type>>
           takers == {r \in handlers : request[r] = b}
           waiters == {r \in takers : status[r] = "pending"}
<1>1. /\ Quiet /\ inFlight[e] # <<>>
      /\ inFlight' = [inFlight EXCEPT ![e] = Tail(@)]
      /\ \/ buffered' = buffered
         \/ buffered' = [buffered EXCEPT ![b] = Append(@, m)]
      /\ handlers' = handlers \ takers
      /\ status' = [r \in Call |-> IF r \in waiters THEN "settled" ELSE status[r]]
      /\ message' = [r \in Call |-> IF r \in waiters THEN m ELSE message[r]]
      /\ UNCHANGED <<readyState, closed, sends, request, age, error>>
  BY DEF Arrive
<1>2. m \in Message /\ Tail(inFlight[e]) \in Seq(Message)
  BY <1>1 DEF IInv, TypeOK
<1>3. m.payload \notin Falsy /\ b \in Box
  BY <1>2, MessagesAreTruthy DEF Box
<1>4. waiters = takers
  BY <1>1 DEF Quiet, IInv, TypeOK, HandlersAreOfCalls
<1> HIDE DEF m
<1>5. TypeOK'
  <2>1. Append(buffered[b], m) \in Seq(Message)
    BY <1>2, <1>3 DEF IInv, TypeOK
  <2>2. buffered' \in [Box -> Seq(Message)]
    BY <1>1, <2>1 DEF IInv, TypeOK
  <2>3. inFlight' \in [End -> Seq(Message)]
    BY <1>1, <1>2 DEF IInv, TypeOK
  <2>4. /\ message' \in [Call -> Message \cup {None}]
        /\ \A q \in Call : message'[q] # None => message'[q].payload \notin Falsy
    BY <1>1, <1>2, <1>3 DEF IInv, TypeOK
  <2> QED
    BY <1>1, <2>2, <2>3, <2>4 DEF IInv, TypeOK
<1>6. CallsHaveBoxes' /\ ClosedEndsAreNotOpen'
  BY <1>1 DEF IInv, TypeOK, CallsHaveBoxes, ClosedEndsAreNotOpen
<1>7. HandlersAreOfCalls' /\ PendingCallsAreHandled'
  BY <1>1, <1>4
  DEF IInv, TypeOK, HandlersAreOfCalls, PendingCallsAreHandled
<1> QED
  BY <1>5, <1>6, <1>7 DEF IInv

\* A call that times out keeps its handler until its finally block removes it
LEMMA CallEndsIInv ==
  ASSUME IInv, NEW r \in Call, TimerFires(r) \/ ReceiveEnds(r)
  PROVE  IInv'
<1>1. /\ UNCHANGED <<channelVars, request, age>>
      /\ \/ /\ status[r] = "pending"
            /\ status' = [status EXCEPT ![r] = "settled"]
            /\ handlers' = handlers /\ message' = message
            /\ error' = [error EXCEPT ![r] = "TimeoutError"]
         \/ /\ status[r] = "settled"
            /\ status' = [status EXCEPT ![r] = "done"]
            /\ handlers' = handlers \ {r}
            /\ message' = message \/ message' = [message EXCEPT ![r] = None]
            /\ error' = error \/ error' = [error EXCEPT ![r] = "TypeError"]
  <2>1. ASSUME request[r][1] \in closed PROVE handlers \ {r} = handlers
    BY <2>1 DEF IInv, HandlersAreOfCalls
  <2> QED
    BY <2>1 DEF TimerFires, ReceiveEnds, Reject, RemoveListener
<1>2. TypeOK'
  BY <1>1 DEF IInv, TypeOK, channelVars
<1>3. CallsHaveBoxes' /\ ClosedEndsAreNotOpen'
  BY <1>1 DEF IInv, TypeOK, CallsHaveBoxes, ClosedEndsAreNotOpen, channelVars
<1>4. HandlersAreOfCalls' /\ PendingCallsAreHandled'
  BY <1>1
  DEF IInv, TypeOK, HandlersAreOfCalls, PendingCallsAreHandled, channelVars
<1> QED
  BY <1>2, <1>3, <1>4 DEF IInv

\* close deletes messages, and the handlers with it
LEMMA CloseIInv ==
  ASSUME IInv, NEW e \in End, Close(e)
  PROVE  IInv'
<1>1. TypeOK'
  BY EmptySeq DEF IInv, TypeOK, Close
<1> QED
  BY <1>1
  DEF IInv, TypeOK, Close, CallsHaveBoxes, HandlersAreOfCalls,
      PendingCallsAreHandled, ClosedEndsAreNotOpen

\* Time is counted up to the timeout
LEMMA TickIInv ==
  ASSUME IInv, Tick
  PROVE  IInv'
<1>1. /\ \A r \in Pending : age[r] < ChannelStateTimeout
      /\ age' = [r \in Call |-> IF r \in Pending THEN age[r] + 1 ELSE age[r]]
      /\ UNCHANGED <<channelVars, handlers, status, request, message, error>>
  BY DEF Tick
<1>2. age' \in [Call -> 0 .. ChannelStateTimeout]
  BY <1>1, MessagingAssumption DEF IInv, TypeOK
<1>3. TypeOK'
  BY <1>1, <1>2 DEF IInv, TypeOK, channelVars
<1> QED
  BY <1>1, <1>3
  DEF IInv, CallsHaveBoxes, HandlersAreOfCalls, PendingCallsAreHandled,
      ClosedEndsAreNotOpen, channelVars

-----------------------------------------------------------------------------
\* The invariant, over all interleavings of both applications and the network
THEOREM MessagingInvariant == Spec => []IInv
<1>1. IInv /\ [Next]_vars => IInv'
  BY ChannelStepIInv, ReceiveIInv, ArriveIInv, CallEndsIInv, CloseIInv, TickIInv
  DEF Next
<1> QED
  BY InitIInv, <1>1, PTL DEF Spec

\* No call of receive leaves its handler behind, and none loses it early
THEOREM NoHandlerIsLeft == Spec => []HandlersAreWaitingCalls
<1>1. IInv => HandlersAreWaitingCalls
  BY DEF IInv, TypeOK, HandlersAreOfCalls, PendingCallsAreHandled,
         HandlersAreWaitingCalls, Quiet, Pending
<1> QED
  BY <1>1, MessagingInvariant, PTL
=============================================================================
