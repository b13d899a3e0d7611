--------------------- MODULE ChannelEstablishmentProofs ---------------------
(***************************************************************************)
(* Theorems about ChannelEstablishment, for every set of nodes, channels,  *)
(* calls and handlers and every number of reloads.                         *)
(***************************************************************************)
EXTENDS ChannelEstablishment, TLAPS

\* What the role and the step of a channel say about its other fields
ChannelsAreFormed ==
    \A c \in Channel :
        /\ step[c] = "unused" =>
              /\ node[c] = None
              /\ role[c] = None
              /\ correlationId[c] = None
              /\ remoteDescription[c] = None
        /\ step[c] # "unused" =>
              /\ node[c] \in Node
              /\ peer[c] \in Node
              /\ role[c] \in {"opener", "answerer"}
        /\ step[c] \in OpenerSteps => role[c] = "opener"
        /\ step[c] \in AnswererSteps => role[c] = "answerer"
        /\ step[c] = "creatingOffer" => correlationId[c] = None
        /\ Live(c) /\ step[c] # "creatingOffer" => correlationId[c] # None

\* A message still says what its sender is
MessagesMatchSenders ==
    /\ buffered \subseteq network
    /\ \A m \in network :
        /\ node[m.sender] = m.sourceId
        /\ peer[m.sender] = m.destinationId
        /\ correlationId[m.sender] = m.correlationId
        /\ m.type = "offer" => role[m.sender] = "opener"
        /\ m.type = "answer" => role[m.sender] = "answerer"

\* An answerer applied the offer of an opener that was calling its node
AnswerersMatchOpeners ==
    \A d \in Channel : role[d] = "answerer" =>
        LET o == remoteDescription[d] IN
        /\ o \in Channel
        /\ role[o] = "opener"
        /\ node[o] = peer[d]
        /\ peer[o] = node[d]
        /\ correlationId[d] # None
        /\ correlationId[o] = correlationId[d]

\* The channels whose correlation ids cannot have been allocated again
HoldsId(c) ==
    /\ role[c] = "opener"
    /\ correlationId[c] # None
    /\ Live(c) \/ NeverReloaded(node[c])

IdsAreDistinct ==
    /\ \A c \in Channel :
          HoldsId(c) => correlationId[c] < correlationIdCounter[node[c]]
    /\ \A c, d \in Channel :
          (/\ HoldsId(c) /\ HoldsId(d)
           /\ node[c] = node[d] /\ correlationId[c] = correlationId[d]) => c = d

\* What an opener applied came from an answerer
OpenersApplyAnswers ==
    \A c \in Channel :
        (role[c] = "opener" /\ remoteDescription[c] # None) =>
            role[remoteDescription[c]] = "answerer"

TypeInv == TypeOK /\ ChannelsAreFormed

IInv ==
    /\ TypeInv
    /\ MessagesMatchSenders
    /\ AnswerersMatchOpeners
    /\ IdsAreDistinct
    /\ OpenersApplyAnswers
    /\ AnswersCorrelateUnlessReloaded

-----------------------------------------------------------------------------
(***************************************************************************)
(* Type correctness.  A channel posts only what it has: TypeOK alone is    *)
(* not inductive, since what MessageFrom(c, ...) is made of depends on the *)
(* step of c.                                                              *)
(***************************************************************************)
THEOREM InitTypeInv == Init => TypeInv
  BY ConstantsAssumption
  DEF Init, TypeInv, TypeOK, ChannelsAreFormed, Step, OpenerSteps,
      AnswererSteps, Ended, Live

\* What a created channel posts is a message
LEMMA MessageFromType ==
  ASSUME TypeInv, NEW c \in Channel, step[c] # "unused",
         NEW type \in {"offer", "answer", "candidates"}, NEW k \in Nat
  PROVE  MessageFrom(c, type, k) \in Message
  BY DEF TypeInv, ChannelsAreFormed, MessageFrom, Message

\* Channel.close keeps the types, whichever await it is called at
LEMMA CloseTypeInv ==
  ASSUME TypeInv, NEW c \in Channel, Live(c), NEW s \in {"failed", "closed"},
         Close(c, s)
  PROVE  TypeInv'
  BY DEF TypeInv, TypeOK, ChannelsAreFormed, Close, Goto, MayForget, identity,
         counters, Live, Ended, Step, OpenerSteps, AnswererSteps,
         KeptCandidates, ListenersOfEvent, session

\* Types are kept by every step of either side and of the environment
LEMMA StepTypeInv == TypeInv /\ [Next]_vars => TypeInv'
<1> SUFFICES ASSUME TypeInv, [Next]_vars PROVE TypeInv'
  OBVIOUS
<1> USE DEF TypeInv, TypeOK, ChannelsAreFormed, Live, Step, OpenerSteps,
            AnswererSteps, Ended, identity, emitters, counters, session
<1>1. ASSUME NEW c \in Channel, NEW call \in Calls,
             OpenChannel(c, call[1], call[2])
      PROVE  TypeInv'
  <2>1. call[1] \in Node /\ call[2] \in Node
    BY ConstantsAssumption
  <2>2. QED
    BY <1>1, <2>1 DEF OpenChannel, Create, Goto
<1>2. ASSUME NEW c \in Channel, SendOffer(c) PROVE TypeInv'
  <2> DEFINE k == correlationIdCounter[node[c]]
  <2>1. k \in Nat /\ k # None
    BY <1>2, ConstantsAssumption DEF SendOffer, NextCorrelationId
  <2>2. MessageFrom(c, "offer", k) \in Message
    BY <1>2, <2>1, MessageFromType DEF SendOffer, NextCorrelationId
  <2>3. QED
    BY <1>2, <2>1, <2>2 DEF SendOffer, Goto, NextCorrelationId
<1>3. ASSUME NEW c \in Channel, OfferSent(c) PROVE TypeInv'
  BY <1>3 DEF OfferSent, Goto, Listen, Message, KeptCandidates, KeptAnswers
<1>4. ASSUME NEW c \in Channel, AnswerHandled(c) PROVE TypeInv'
  BY <1>4, MessageFromType DEF AnswerHandled, Goto, EmitCandidates
<1>5. ASSUME NEW c \in Channel, AnswerCreated(c) PROVE TypeInv'
  BY <1>5, MessageFromType DEF AnswerCreated, Goto, Listen, KeptCandidates
<1>6. ASSUME NEW c \in Channel, AnswerSent(c) PROVE TypeInv'
  BY <1>6, MessageFromType DEF AnswerSent, Goto, EmitCandidates
<1>7. ASSUME NEW c \in Channel, ChannelEstablished(c) PROVE TypeInv'
  BY <1>7 DEF ChannelEstablished, Goto
<1>8. ASSUME NEW c \in Channel, ChannelOpened(c) PROVE TypeInv'
  BY <1>8 DEF ChannelOpened, Goto, HasOpened
<1>9. ASSUME NEW c \in Channel, OpenChannelFails(c) PROVE TypeInv'
  BY <1>9, CloseTypeInv DEF OpenChannelFails, MayReject
<1>10. ASSUME NEW c \in Channel, HandleOfferFails(c) PROVE TypeInv'
  BY <1>10, CloseTypeInv DEF HandleOfferFails
<1>11. ASSUME NEW c \in Channel, CandidatesGathered(c) PROVE TypeInv'
  BY <1>11, MessageFromType DEF CandidatesGathered, SendsCandidates
<1>12. ASSUME NEW c \in Channel, HandlerFails(c) PROVE TypeInv'
  BY <1>12, CloseTypeInv DEF HandlerFails
<1>13. ASSUME NEW c \in Channel, CloseByApplication(c) PROVE TypeInv'
  BY <1>13, CloseTypeInv DEF CloseByApplication
<1>14. ASSUME NEW c \in Channel, NEW d \in Channel, LinkUp(c, d)
       PROVE  TypeInv'
  BY <1>14 DEF LinkUp
<1>15. ASSUME NEW c \in Channel, DataChannelOpens(c) PROVE TypeInv'
  BY <1>15 DEF DataChannelOpens, DataChannelChanges
<1>16. ASSUME NEW c \in Channel, DataChannelCloses(c) PROVE TypeInv'
  BY <1>16 DEF DataChannelCloses, DataChannelChanges
<1>17. ASSUME NEW m \in network, ReceiveOffer(m) PROVE TypeInv'
  BY <1>17, ConstantsAssumption DEF ReceiveOffer, Create, Goto, Message
<1>18. ASSUME NEW m \in network, ReceiveAnswer(m) PROVE TypeInv'
  BY <1>18 DEF ReceiveAnswer, Goto, MayForget, Message, KeptAnswers
<1>19. ASSUME NEW m \in network, ReceiveCandidates(m) PROVE TypeInv'
  BY <1>19 DEF ReceiveCandidates
<1>20. ASSUME NEW n \in Node, Reload(n) PROVE TypeInv'
  BY <1>20 DEF Reload
<1>21. CASE UNCHANGED vars
  BY <1>21 DEF vars
<1>22. QED
  BY <1>1, <1>2, <1>3, <1>4, <1>5, <1>6, <1>7, <1>8, <1>9, <1>10, <1>11,
     <1>12, <1>13, <1>14, <1>15, <1>16, <1>17, <1>18, <1>19, <1>20, <1>21
  DEF Next, Continue, Environment, Receive

\* Every variable keeps its type, and a channel's fields agree with its step
THEOREM TypeCorrect == Spec => []TypeOK
<1>1. TypeInv => TypeOK
  BY DEF TypeInv
<1>2. QED
  BY InitTypeInv, StepTypeInv, <1>1, PTL DEF Spec

-----------------------------------------------------------------------------
(***************************************************************************)
(* For what follows the actions are of six sorts.  Four are actions of     *)
(* their own: OpenChannel, SendOffer, ReceiveOffer and Reload.  The fifth  *)
(* applies an answer to an opener, early (OfferSent) or not                *)
(* (ReceiveAnswer).  All others are quiet: no channel changes what it is,  *)
(* and what they post is not an offer.                                     *)
(***************************************************************************)
AppliesAnswer(c, m) ==
    /\ m \in network
    /\ step[c] \in {"sendingOffer", "waitingForAnswer"}
    /\ IsAnswerFor(m, c)
    /\ remoteDescription' = [remoteDescription EXCEPT ![c] = m.sender]
    /\ Goto(c, "handlingAnswer")
    /\ buffered' \subseteq buffered
    /\ UNCHANGED <<identity, correlationId, counters, network>>

Quiet ==
    /\ UNCHANGED <<identity, correlationId, remoteDescription, counters>>
    /\ \A c \in Channel : Live(c)' => Live(c)
    /\ buffered' \subseteq buffered \cup network
    /\ \/ network' = network
       \/ \E c \in Channel, type \in {"answer", "candidates"} :
             /\ type = "answer" => role[c] = "answerer"
             /\ network' = network \cup {MessageFrom(c, type,
                                                    correlationId[c])}

\* Closing is a quiet step: it posts nothing and applies no description
LEMMA CloseIsQuiet ==
  ASSUME NEW c \in Channel, TypeInv, NEW s \in {"failed", "closed"}, Close(c, s)
  PROVE  Quiet
  BY DEF TypeInv, TypeOK, Close, Goto, MayForget, Quiet, Live, Ended, identity,
         counters, KeptCandidates, ListenersOfEvent, session

\* What a step does to ids, descriptions and messages is one of six things
LEMMA StepSorts ==
  ASSUME IInv, [Next]_vars
  PROVE  \/ \E c \in Channel, call \in Calls : OpenChannel(c, call[1], call[2])
         \/ \E c \in Channel : SendOffer(c)
         \/ \E m \in network : ReceiveOffer(m)
         \/ \E c \in Channel, m \in network : AppliesAnswer(c, m)
         \/ \E n \in Node : Reload(n)
         \/ Quiet
<1> USE DEF IInv, TypeInv, TypeOK, Live, Ended, identity, emitters, counters,
            session
<1>1. ASSUME NEW c \in Channel, OfferSent(c)
      PROVE  Quiet \/ \E m \in network : AppliesAnswer(c, m)
  <2> DEFINE kept == {m \in buffered : IsCandidatesFor(m, c)}
             answers == {m \in buffered : IsAnswerFor(m, c)}
  <2>1. CASE Goto(c, "waitingForAnswer") /\ buffered' = buffered \ kept
                /\ UNCHANGED remoteDescription
    BY <1>1, <2>1 DEF OfferSent, Quiet, Goto, KeptCandidates, KeptAnswers
  <2>2. ASSUME NEW a \in answers,
               Goto(c, "handlingAnswer"),
               remoteDescription' = [remoteDescription EXCEPT ![c] = a.sender],
               buffered' \in {(buffered \ kept) \ {a}, (buffered \ kept) \ answers}
        PROVE  AppliesAnswer(c, a) /\ a \in network
    BY <1>1, <2>2 DEF OfferSent, AppliesAnswer, MessagesMatchSenders,
                      KeptCandidates, KeptAnswers
  <2>3. QED
    BY <1>1, <2>1, <2>2 DEF OfferSent, KeptCandidates, KeptAnswers
<1>2. ASSUME NEW m \in network, ReceiveAnswer(m)
      PROVE  Quiet \/ \E c \in Channel : AppliesAnswer(c, m)
  <2>1. CASE buffered' = buffered \cup {m} /\ UNCHANGED <<step, remoteDescription>>
    BY <1>2, <2>1 DEF ReceiveAnswer, Quiet, KeptAnswers
  <2>2. ASSUME NEW c \in Channel,
               step[c] = "waitingForAnswer",
               IsAnswerFor(m, c),
               Goto(c, "handlingAnswer"),
               remoteDescription' = [remoteDescription EXCEPT ![c] = m.sender],
               MayForget({a \in buffered : IsAnswerFor(a, c)})
        PROVE  AppliesAnswer(c, m)
    BY <1>2, <2>2 DEF ReceiveAnswer, AppliesAnswer, MayForget, KeptAnswers
  <2>3. QED
    BY <1>2, <2>1, <2>2 DEF ReceiveAnswer, KeptAnswers
<1>3. ASSUME NEW m \in network, ReceiveCandidates(m) PROVE Quiet
  BY <1>3 DEF ReceiveCandidates, Quiet
<1>4. ASSUME NEW c \in Channel,
             AnswerHandled(c) \/ AnswerCreated(c) \/ AnswerSent(c)
      PROVE  Quiet
  BY <1>4
  DEF AnswerHandled, AnswerCreated, AnswerSent, EmitCandidates, Listen, Goto,
      Quiet, ChannelsAreFormed, AnswererSteps, KeptCandidates
<1>5. ASSUME NEW c \in Channel, ChannelEstablished(c) \/ ChannelOpened(c)
      PROVE  Quiet
  BY <1>5 DEF ChannelEstablished, ChannelOpened, Goto, Quiet, HasOpened
<1>6. ASSUME NEW c \in Channel,
             OpenChannelFails(c) \/ HandleOfferFails(c) \/ HandlerFails(c)
                \/ CloseByApplication(c)
      PROVE  Quiet
  BY <1>6, CloseIsQuiet DEF OpenChannelFails, HandleOfferFails, HandlerFails,
                            CloseByApplication, MayReject
<1>7. ASSUME NEW c \in Channel, CandidatesGathered(c) PROVE Quiet
  BY <1>7 DEF CandidatesGathered, Quiet, SendsCandidates
<1>8. ASSUME NEW c \in Channel,
             \/ \E d \in Channel : LinkUp(c, d)
             \/ DataChannelOpens(c)
             \/ DataChannelCloses(c)
      PROVE  Quiet
  BY <1>8 DEF LinkUp, DataChannelOpens, DataChannelCloses, DataChannelChanges,
              Quiet
<1>9. CASE UNCHANGED vars
  BY <1>9 DEF vars, Quiet
<1>10. QED
  BY <1>1, <1>2, <1>3, <1>4, <1>5, <1>6, <1>7, <1>8, <1>9
  DEF Next, Continue, Environment, Receive

\* Only openChannel applies answers, and to an offer with an id
LEMMA AnswersAreAppliedByOpeners ==
  ASSUME TypeInv, NEW c \in Channel, NEW m \in network, AppliesAnswer(c, m)
  PROVE  role[c] = "opener" /\ correlationId[c] # None
  BY DEF TypeInv, ChannelsAreFormed, AppliesAnswer, OpenerSteps, Live, Ended

-----------------------------------------------------------------------------
(* Each part of IInv is preserved by each sort of step. *)

\* sourceId, destinationId and correlationId of a message stay its sender's
LEMMA StepMessages == IInv /\ [Next]_vars => MessagesMatchSenders'
<1> SUFFICES ASSUME IInv, [Next]_vars PROVE MessagesMatchSenders'
  OBVIOUS
<1> USE DEF IInv, TypeInv, TypeOK, MessagesMatchSenders, identity, emitters,
            counters, session
<1>1. ASSUME NEW c \in Channel, NEW call \in Calls,
             OpenChannel(c, call[1], call[2])
      PROVE  MessagesMatchSenders'
  BY <1>1, ConstantsAssumption
  DEF OpenChannel, Create, ChannelsAreFormed, Message
<1>2. ASSUME NEW c \in Channel, SendOffer(c) PROVE MessagesMatchSenders'
  <2>1. \A m \in network : m.sender # c
    BY <1>2, ConstantsAssumption DEF SendOffer, ChannelsAreFormed, Message,
                                     NextCorrelationId
  <2>2. /\ c \in Channel
        /\ role[c] = "opener"
        /\ correlationId'[c] = correlationIdCounter[node[c]]
    BY <1>2 DEF SendOffer, ChannelsAreFormed, OpenerSteps, NextCorrelationId
  <2>3. QED
    BY <1>2, <2>1, <2>2 DEF SendOffer, MessageFrom, NextCorrelationId
<1>3. ASSUME NEW m \in network, ReceiveOffer(m) PROVE MessagesMatchSenders'
  BY <1>3, ConstantsAssumption
  DEF ReceiveOffer, Create, ChannelsAreFormed, Message
<1>4. ASSUME NEW c \in Channel, NEW m \in network, AppliesAnswer(c, m)
      PROVE  MessagesMatchSenders'
  BY <1>4 DEF AppliesAnswer
<1>5. ASSUME NEW n \in Node, Reload(n) PROVE MessagesMatchSenders'
  BY <1>5 DEF Reload
<1>6. CASE Quiet
  BY <1>6 DEF Quiet, MessageFrom
<1>7. QED
  BY <1>1, <1>2, <1>3, <1>4, <1>5, <1>6, StepSorts

\* handleOffer answers the offer of an opener that called this node
LEMMA StepAnswerers == IInv /\ [Next]_vars => AnswerersMatchOpeners'
<1> SUFFICES ASSUME IInv, [Next]_vars PROVE AnswerersMatchOpeners'
  OBVIOUS
<1> USE DEF IInv, TypeInv, TypeOK, AnswerersMatchOpeners, MessagesMatchSenders,
            identity, emitters, counters, session
<1>1. ASSUME NEW c \in Channel, NEW call \in Calls,
             OpenChannel(c, call[1], call[2])
      PROVE  AnswerersMatchOpeners'
  BY <1>1 DEF OpenChannel, Create, ChannelsAreFormed
<1>2. ASSUME NEW c \in Channel, SendOffer(c) PROVE AnswerersMatchOpeners'
  <2>1. role[c] = "opener" /\ correlationId[c] = None
    BY <1>2 DEF SendOffer, ChannelsAreFormed, NextCorrelationId
  <2>2. \A d \in Channel : role[d] = "answerer" =>
            d # c /\ remoteDescription[d] # c
    BY <2>1
  <2>3. QED
    BY <1>2, <2>2 DEF SendOffer, NextCorrelationId
<1>3. ASSUME NEW m \in network, ReceiveOffer(m) PROVE AnswerersMatchOpeners'
  <2>1. CASE m.destinationId \notin Handlers
    BY <1>3, <2>1 DEF ReceiveOffer
  <2>2. ASSUME NEW d \in Channel,
               Create(d, m.destinationId, m.sourceId, "answerer"),
               correlationId' = [correlationId EXCEPT ![d] = m.correlationId],
               remoteDescription' = [remoteDescription EXCEPT ![d] = m.sender]
        PROVE  AnswerersMatchOpeners'
    <3>1. role[d] = None /\ None \notin {"opener", "answerer"}
      BY <2>2, ConstantsAssumption DEF Create, ChannelsAreFormed
    <3>2. /\ m.sender \in Channel
          /\ role[m.sender] = "opener"
          /\ node[m.sender] = m.sourceId
          /\ peer[m.sender] = m.destinationId
          /\ correlationId[m.sender] = m.correlationId
          /\ m.correlationId \in Nat
          /\ m.correlationId # None
      BY <1>3, ConstantsAssumption DEF ReceiveOffer, Message
    <3>3. QED
      BY <2>2, <3>1, <3>2 DEF Create
  <2>3. QED
    BY <1>3, <2>1, <2>2 DEF ReceiveOffer
<1>4. ASSUME NEW c \in Channel, NEW m \in network, AppliesAnswer(c, m)
      PROVE  AnswerersMatchOpeners'
  <2>1. role[c] = "opener"
    BY <1>4, AnswersAreAppliedByOpeners
  <2>2. QED
    BY <1>4, <2>1 DEF AppliesAnswer
<1>5. ASSUME NEW n \in Node, Reload(n) PROVE AnswerersMatchOpeners'
  BY <1>5 DEF Reload
<1>6. CASE Quiet
  BY <1>6 DEF Quiet
<1>7. QED
  BY <1>1, <1>2, <1>3, <1>4, <1>5, <1>6, StepSorts

\* Allocating, and losing the counter in a reload, keeps held ids distinct
LEMMA StepIds == IInv /\ [Next]_vars => IdsAreDistinct'
<1> SUFFICES ASSUME IInv, [Next]_vars PROVE IdsAreDistinct'
  OBVIOUS
<1> USE DEF IInv, TypeInv, TypeOK, IdsAreDistinct, HoldsId, NeverReloaded,
            Live, Ended, identity, emitters, counters, session
<1>1. ASSUME NEW c \in Channel, NEW call \in Calls,
             OpenChannel(c, call[1], call[2])
      PROVE  IdsAreDistinct'
  BY <1>1 DEF OpenChannel, Create, Goto, ChannelsAreFormed
<1>2. ASSUME NEW c \in Channel, SendOffer(c) PROVE IdsAreDistinct'
  BY <1>2 DEF SendOffer, Goto, ChannelsAreFormed, NextCorrelationId
<1>3. ASSUME NEW m \in network, ReceiveOffer(m) PROVE IdsAreDistinct'
  BY <1>3 DEF ReceiveOffer, Create, Goto
<1>4. ASSUME NEW c \in Channel, NEW m \in network, AppliesAnswer(c, m)
      PROVE  IdsAreDistinct'
  BY <1>4 DEF AppliesAnswer, Goto
<1>5. ASSUME NEW n \in Node, Reload(n) PROVE IdsAreDistinct'
  BY <1>5 DEF Reload
<1>6. CASE Quiet
  BY <1>6 DEF Quiet
<1>7. QED
  BY <1>1, <1>2, <1>3, <1>4, <1>5, <1>6, StepSorts

\* waitForAnswer hands openChannel what an answering channel posted
LEMMA StepOpeners == IInv /\ [Next]_vars => OpenersApplyAnswers'
<1> SUFFICES ASSUME IInv, [Next]_vars PROVE OpenersApplyAnswers'
  OBVIOUS
<1> USE DEF IInv, TypeInv, TypeOK, OpenersApplyAnswers, MessagesMatchSenders,
            identity, emitters, counters, session
<1>1. ASSUME NEW c \in Channel, NEW call \in Calls,
             OpenChannel(c, call[1], call[2])
      PROVE  OpenersApplyAnswers'
  BY <1>1, ConstantsAssumption DEF OpenChannel, Create, ChannelsAreFormed
<1>2. ASSUME NEW c \in Channel, SendOffer(c) PROVE OpenersApplyAnswers'
  BY <1>2 DEF SendOffer, NextCorrelationId
<1>3. ASSUME NEW m \in network, ReceiveOffer(m) PROVE OpenersApplyAnswers'
  BY <1>3 DEF ReceiveOffer, Create
<1>4. ASSUME NEW c \in Channel, NEW m \in network, AppliesAnswer(c, m)
      PROVE  OpenersApplyAnswers'
  BY <1>4 DEF AppliesAnswer, IsAnswerFor
<1>5. ASSUME NEW n \in Node, Reload(n) PROVE OpenersApplyAnswers'
  BY <1>5 DEF Reload
<1>6. CASE Quiet
  BY <1>6 DEF Quiet
<1>7. QED
  BY <1>1, <1>2, <1>3, <1>4, <1>5, <1>6, StepSorts

\* Matching answers by correlation id alone keeps them with their offers
LEMMA StepAnswers == IInv /\ [Next]_vars => AnswersCorrelateUnlessReloaded'
<1> SUFFICES ASSUME IInv, [Next]_vars PROVE AnswersCorrelateUnlessReloaded'
  OBVIOUS
<1> USE DEF IInv, TypeInv, TypeOK, AnswersCorrelateUnlessReloaded, AnswerIsFor,
            NeverReloaded, MessagesMatchSenders, AnswerersMatchOpeners,
            OpenersApplyAnswers, IdsAreDistinct, HoldsId, identity, emitters,
            counters, session
<1>1. ASSUME NEW c \in Channel, NEW call \in Calls,
             OpenChannel(c, call[1], call[2])
      PROVE  AnswersCorrelateUnlessReloaded'
  BY <1>1 DEF OpenChannel, Create, ChannelsAreFormed
<1>2. ASSUME NEW c \in Channel, SendOffer(c)
      PROVE  AnswersCorrelateUnlessReloaded'
  BY <1>2 DEF SendOffer, NextCorrelationId
<1>3. ASSUME NEW m \in network, ReceiveOffer(m)
      PROVE  AnswersCorrelateUnlessReloaded'
  BY <1>3 DEF ReceiveOffer, Create, ChannelsAreFormed
<1>4. ASSUME NEW c \in Channel, NEW m \in network, AppliesAnswer(c, m)
      PROVE  AnswersCorrelateUnlessReloaded'
  <2> DEFINE d == m.sender
             o == remoteDescription[d]
  <2>1. role[c] = "opener" /\ correlationId[c] # None
    BY <1>4, AnswersAreAppliedByOpeners
  <2>2. /\ d \in Channel
        /\ role[d] = "answerer"
        /\ peer[d] = node[c]
        /\ correlationId[d] = correlationId[c]
    BY <1>4 DEF AppliesAnswer, IsAnswerFor, Message
  <2>3. /\ o \in Channel
        /\ role[o] = "opener"
        /\ node[o] = node[c]
        /\ peer[o] = node[d]
        /\ correlationId[o] = correlationId[c]
    BY <2>2
  <2>4. NeverReloaded(node[c]) => o = c
    BY <2>1, <2>3
  <2>5. d # c
    BY <2>1, <2>2
  <2>6. QED
    BY <1>4, <2>1, <2>2, <2>3, <2>4, <2>5 DEF AppliesAnswer
<1>5. ASSUME NEW n \in Node, Reload(n) PROVE AnswersCorrelateUnlessReloaded'
  BY <1>5 DEF Reload
<1>6. CASE Quiet
  BY <1>6 DEF Quiet
<1>7. QED
  BY <1>1, <1>2, <1>3, <1>4, <1>5, <1>6, StepSorts

\* Before anything was opened, the invariant holds
THEOREM InitIInv == Init => IInv
  BY InitTypeInv, ConstantsAssumption
  DEF Init, IInv, MessagesMatchSenders, AnswerersMatchOpeners, IdsAreDistinct,
      HoldsId, OpenersApplyAnswers, AnswersCorrelateUnlessReloaded

\* IInv is inductive
THEOREM StepIInv == IInv /\ [Next]_vars => IInv'
  BY StepTypeInv, StepMessages, StepAnswerers, StepIds, StepOpeners, StepAnswers
  DEF IInv

\* IInv holds for ever: the invariant the theorems below rest on
THEOREM IInvAlways == Spec => []IInv
  BY InitIInv, StepIInv, PTL DEF Spec

(***************************************************************************)
(* On a node that was never reloaded openChannel applies only an answer    *)
(* the called node made from this very offer.                              *)
(***************************************************************************)
THEOREM AnswersBelongToOffers == Spec => []AnswersCorrelateUnlessReloaded
<1>1. IInv => AnswersCorrelateUnlessReloaded
  BY DEF IInv
<1>2. QED
  BY <1>1, IInvAlways, PTL

(***************************************************************************)
(* At most one channel waits for the answers of one correlation id, so     *)
(* that the removeAllListeners of waitForAnswer ends no other wait.        *)
(***************************************************************************)
THEOREM WaitersAreAlone == Spec => []OneWaiterPerAnswer
<1>1. ASSUME IInv, NEW c \in Channel, step[c] = "waitingForAnswer"
      PROVE  HoldsId(c)
  BY <1>1
  DEF IInv, TypeInv, ChannelsAreFormed, HoldsId, OpenerSteps, Live, Ended
<1>2. IInv => OneWaiterPerAnswer
  BY <1>1 DEF IInv, IdsAreDistinct, OneWaiterPerAnswer
<1>3. QED
  BY <1>2, IInvAlways, PTL

-----------------------------------------------------------------------------
(***************************************************************************)
(* The emitters.  A channel listens from the step after its correlation id *)
(* is known until it ends, which is why close() finds the handler to       *)
(* remove; and whatever starts to listen or to wait takes what was kept.   *)
(***************************************************************************)
ListenersAreResolved ==
    \A c \in listening : Live(c) /\ CorrelationIdIsResolved(c)

EmitterInv == ListenersAreResolved /\ NothingMissed

\* The steps that leave the emitters alone and make no channel wait
LeavesEmitters ==
    /\ UNCHANGED <<listening, received, buffered>>
    /\ \A c \in Channel :
          /\ step'[c] # "waitingForAnswer"
                \/ (step[c] = "waitingForAnswer"
                      /\ node'[c] = node[c]
                      /\ correlationId'[c] = correlationId[c])
          /\ c \in listening => /\ Live(c)' /\ CorrelationIdIsResolved(c)'
                                /\ node'[c] = node[c]
                                /\ peer'[c] = peer[c]
                                /\ correlationId'[c] = correlationId[c]

\* A step that leaves the emitters alone keeps what is said of them
LEMMA LeavingEmitters ==
  ASSUME TypeInv, EmitterInv, LeavesEmitters
  PROVE  EmitterInv'
  BY DEF EmitterInv, ListenersAreResolved, NothingMissed, LeavesEmitters,
         IsAnswerFor, IsCandidatesFor, TypeInv, TypeOK

\* Removing a candidates event's listeners keeps what is said of them
LEMMA CloseEmitters ==
  ASSUME TypeInv, EmitterInv, NEW c \in Channel, Live(c),
         NEW s \in {"failed", "closed"}, Close(c, s)
  PROVE  EmitterInv'
  BY DEF TypeInv, TypeOK, EmitterInv, ListenersAreResolved, NothingMissed,
         Close, Goto, MayForget, Live, Ended, CorrelationIdIsResolved,
         SameCandidatesEvent, IsAnswerFor, IsCandidatesFor, identity,
         KeptCandidates, ListenersOfEvent, session

\* Registering, emitting and removing keep the emitters' invariant
LEMMA StepEmitters == IInv /\ EmitterInv /\ [Next]_vars => EmitterInv'
<1> SUFFICES ASSUME TypeInv, EmitterInv, [Next]_vars PROVE EmitterInv'
  BY DEF IInv
<1> USE DEF TypeInv, TypeOK, Live, Ended, CorrelationIdIsResolved, identity,
            emitters, counters, session
<1>1. ASSUME NEW c \in Channel, NEW call \in Calls,
             OpenChannel(c, call[1], call[2])
      PROVE  EmitterInv'
  BY <1>1, LeavingEmitters
  DEF OpenChannel, Create, Goto, LeavesEmitters, EmitterInv, ListenersAreResolved
<1>2. ASSUME NEW c \in Channel, SendOffer(c) PROVE EmitterInv'
  BY <1>2, LeavingEmitters
  DEF SendOffer, Goto, LeavesEmitters, EmitterInv, ListenersAreResolved,
      NextCorrelationId
<1>3. ASSUME NEW c \in Channel, OfferSent(c) PROVE EmitterInv'
  BY <1>3
  DEF OfferSent, Goto, Listen, EmitterInv, ListenersAreResolved, NothingMissed,
      IsAnswerFor, IsCandidatesFor, KeptCandidates, KeptAnswers
<1>4. ASSUME NEW c \in Channel, AnswerCreated(c) PROVE EmitterInv'
  BY <1>4
  DEF AnswerCreated, Goto, Listen, EmitterInv, ListenersAreResolved,
      NothingMissed, IsAnswerFor, IsCandidatesFor, KeptCandidates
<1>5. ASSUME NEW c \in Channel,
             \/ AnswerHandled(c) \/ AnswerSent(c) \/ CandidatesGathered(c)
             \/ ChannelEstablished(c) \/ ChannelOpened(c)
             \/ \E d \in Channel : LinkUp(c, d)
             \/ DataChannelOpens(c) \/ DataChannelCloses(c)
      PROVE  EmitterInv'
  BY <1>5, LeavingEmitters
  DEF AnswerHandled, AnswerSent, CandidatesGathered, ChannelEstablished,
      ChannelOpened, LinkUp, DataChannelOpens, DataChannelCloses,
      DataChannelChanges, Goto, LeavesEmitters, EmitterInv,
      ListenersAreResolved, SendsCandidates, HasOpened
<1>6. ASSUME NEW c \in Channel,
             OpenChannelFails(c) \/ HandleOfferFails(c) \/ HandlerFails(c)
                \/ CloseByApplication(c)
      PROVE  EmitterInv'
  BY <1>6, CloseEmitters
  DEF OpenChannelFails, HandleOfferFails, HandlerFails, CloseByApplication,
      AnswererSteps, MayReject
<1>7. ASSUME NEW m \in network, ReceiveOffer(m) PROVE EmitterInv'
  BY <1>7, LeavingEmitters
  DEF ReceiveOffer, Create, Goto, LeavesEmitters, EmitterInv,
      ListenersAreResolved
<1>8. ASSUME NEW m \in network, ReceiveAnswer(m) PROVE EmitterInv'
  BY <1>8
  DEF ReceiveAnswer, Goto, MayForget, EmitterInv, ListenersAreResolved,
      NothingMissed, IsAnswerFor, IsCandidatesFor, KeptAnswers
<1>9. ASSUME NEW m \in network, ReceiveCandidates(m) PROVE EmitterInv'
  BY <1>9
  DEF ReceiveCandidates, EmitterInv, ListenersAreResolved, NothingMissed,
      IsAnswerFor, IsCandidatesFor
<1>10. ASSUME NEW n \in Node, Reload(n) PROVE EmitterInv'
  BY <1>10
  DEF Reload, EmitterInv, ListenersAreResolved, NothingMissed, IsAnswerFor,
      IsCandidatesFor
<1>11. CASE UNCHANGED vars
  BY <1>11, LeavingEmitters
  DEF vars, LeavesEmitters, EmitterInv, ListenersAreResolved
<1>12. QED
  BY <1>1, <1>2, <1>3, <1>4, <1>5, <1>6, <1>7, <1>8, <1>9, <1>10, <1>11
  DEF Next, Continue, Environment, Receive

\* Listeners and buffers of the emitters never disagree
THEOREM EmittersAlways == Spec => []EmitterInv
<1>1. Init => EmitterInv
  BY DEF Init, EmitterInv, ListenersAreResolved, NothingMissed
<1>2. QED
  BY <1>1, StepEmitters, IInvAlways, PTL DEF Spec

(***************************************************************************)
(* Nothing a channel listens or waits for is left in a buffer, in whatever *)
(* order messages, acknowledgements and awaits come.                       *)
(***************************************************************************)
THEOREM NothingIsMissed == Spec => []NothingMissed
<1>1. EmitterInv => NothingMissed
  BY DEF EmitterInv
<1>2. QED
  BY <1>1, EmittersAlways, PTL

\* Every way to end a channel leaves none of its handlers registered
THEOREM EndingReleases == Spec => []EndedChannelsAreReleased
<1>1. EmitterInv => EndedChannelsAreReleased
  BY DEF EmitterInv, ListenersAreResolved, EndedChannelsAreReleased, Live
<1>2. QED
  BY <1>1, EmittersAlways, PTL

-----------------------------------------------------------------------------
(* Losing a listener: only close() and a reload take channels off. *)
NoListenerIsLost == \A c \in Channel : ~ LosesListener(c)

LosesOnlyToTwins ==
    \A c \in Channel : LosesListener(c) =>
        \E d \in Channel : /\ Twins(c, d) /\ Live(d)
                           /\ step'[d] \in {"failed", "closed"}

\* A close takes listeners from nobody but the channel and its twins
LEMMA CloseLosesOnlyTwins ==
  ASSUME TypeInv, NEW d \in Channel, Live(d), NEW s \in {"failed", "closed"},
         Close(d, s)
  PROVE  LosesOnlyToTwins
  BY DEF TypeInv, TypeOK, LosesOnlyToTwins, LosesListener, Twins, Close, Goto,
         Ended, SameCandidatesEvent, KeptCandidates, ListenersOfEvent

\* No other step takes a listener from a live channel
LEMMA StepLoses == TypeInv /\ [Next]_vars => LosesOnlyToTwins
<1> SUFFICES ASSUME TypeInv, [Next]_vars PROVE LosesOnlyToTwins
  OBVIOUS
<1>1. ASSUME NEW d \in Channel,
             OpenChannelFails(d) \/ HandleOfferFails(d) \/ HandlerFails(d)
                \/ CloseByApplication(d)
      PROVE  LosesOnlyToTwins
  BY <1>1, CloseLosesOnlyTwins
  DEF OpenChannelFails, HandleOfferFails, HandlerFails, CloseByApplication,
      AnswererSteps, Live, Ended, MayReject
<1>2. ASSUME NEW n \in Node, Reload(n) PROVE NoListenerIsLost
  BY <1>2 DEF Reload, NoListenerIsLost, LosesListener, TypeInv, TypeOK, Ended
<1>3. CASE listening \subseteq listening'
  BY <1>3 DEF LosesOnlyToTwins, LosesListener
<1>4. ASSUME NEW c \in Channel,
             OfferSent(c) \/ AnswerCreated(c) \/ SendOffer(c)
      PROVE  listening \subseteq listening'
  BY <1>4 DEF OfferSent, AnswerCreated, SendOffer, Listen, emitters,
              KeptCandidates, KeptAnswers, NextCorrelationId
<1>5. ASSUME NEW c \in Channel, NEW call \in Calls,
             OpenChannel(c, call[1], call[2])
      PROVE  listening \subseteq listening'
  BY <1>5 DEF OpenChannel, emitters
<1>6. ASSUME NEW c \in Channel,
             \/ AnswerHandled(c) \/ AnswerSent(c) \/ CandidatesGathered(c)
             \/ ChannelEstablished(c) \/ ChannelOpened(c)
             \/ \E d \in Channel : LinkUp(c, d)
             \/ DataChannelOpens(c) \/ DataChannelCloses(c)
      PROVE  listening \subseteq listening'
  BY <1>6
  DEF AnswerHandled, AnswerSent, CandidatesGathered, ChannelEstablished,
      ChannelOpened, LinkUp, DataChannelOpens, DataChannelCloses,
      DataChannelChanges, emitters, SendsCandidates, HasOpened
<1>7. ASSUME NEW m \in network, Receive(m)
      PROVE  listening \subseteq listening'
  BY <1>7
  DEF Receive, ReceiveOffer, ReceiveAnswer, ReceiveCandidates, emitters,
      KeptAnswers
<1>8. CASE UNCHANGED vars
  BY <1>8, <1>3 DEF vars, emitters
<1>9. NoListenerIsLost => LosesOnlyToTwins
  BY DEF NoListenerIsLost, LosesOnlyToTwins
<1>10. QED
  BY <1>1, <1>2, <1>3, <1>4, <1>5, <1>6, <1>7, <1>8, <1>9
  DEF Next, Continue, Environment

\* No step but the closing of a twin makes a live channel deaf to candidates
THEOREM ListenersAreLostToTwins == Spec => ListenersAreLostOnlyToTwins
<1>1. IInv /\ [Next]_vars => [LosesOnlyToTwins]_vars
  BY StepLoses DEF IInv
<1>2. Spec => [][LosesOnlyToTwins]_vars
  BY <1>1, IInvAlways, PTL DEF Spec
<1>3. QED
  BY <1>2 DEF ListenersAreLostOnlyToTwins, LosesOnlyToTwins

-----------------------------------------------------------------------------
(***************************************************************************)
(* Whose candidates a channel is handed.  An opener sends none before it   *)
(* applied an answer, and that answer names the channel it shares its      *)
(* event with at the other end.                                            *)
(***************************************************************************)
OpenersHaveApplied ==
    \A c \in Channel :
        role[c] = "opener" /\ step[c] \in {"handlingAnswer", "waitingForOpen"}
            => remoteDescription[c] # None

CandidatesFollowAnswers ==
    \A m \in network :
        m.type = "candidates" /\ role[m.sender] = "opener"
            => remoteDescription[m.sender] # None

ReceivedAreRouted ==
    \A c \in Channel : \A m \in received[c] :
        m \in network /\ IsCandidatesFor(m, c)

DeliveryInv ==
    OpenersHaveApplied /\ CandidatesFollowAnswers /\ ReceivedAreRouted

\* Candidates keep to the sessions they were gathered for
LEMMA StepDelivery ==
  IInv /\ EmitterInv /\ DeliveryInv /\ [Next]_vars => DeliveryInv'
<1> SUFFICES ASSUME IInv, EmitterInv, DeliveryInv, [Next]_vars PROVE DeliveryInv'
  OBVIOUS
<1>0. TypeInv /\ MessagesMatchSenders /\ ListenersAreResolved
  BY DEF IInv, EmitterInv
<1> HIDE DEF IInv, EmitterInv
<1> USE DEF TypeInv, TypeOK, ChannelsAreFormed, DeliveryInv,
            OpenersHaveApplied, CandidatesFollowAnswers, ReceivedAreRouted,
            IsCandidatesFor, identity, emitters, counters, Goto, session
<1>1. ASSUME NEW c \in Channel, NEW call \in Calls,
             OpenChannel(c, call[1], call[2])
      PROVE  DeliveryInv'
  BY <1>0, <1>1, ConstantsAssumption
  DEF OpenChannel, Create, MessagesMatchSenders, Message
<1>2. ASSUME NEW c \in Channel, SendOffer(c) PROVE DeliveryInv'
  BY <1>0, <1>2, ConstantsAssumption DEF SendOffer, MessageFrom, Message,
                                         NextCorrelationId
<1>3. ASSUME NEW c \in Channel, OfferSent(c) PROVE DeliveryInv'
  BY <1>0, <1>3, ConstantsAssumption
  DEF OfferSent, Listen, MessagesMatchSenders, Message, KeptCandidates,
      KeptAnswers
<1>4. ASSUME NEW c \in Channel, AnswerCreated(c) PROVE DeliveryInv'
  BY <1>0, <1>4 DEF AnswerCreated, Listen, MessagesMatchSenders, MessageFrom,
                    KeptCandidates
<1>5. ASSUME NEW c \in Channel,
             AnswerHandled(c) \/ AnswerSent(c) \/ CandidatesGathered(c)
      PROVE  DeliveryInv'
  BY <1>0, <1>5
  DEF AnswerHandled, AnswerSent, CandidatesGathered, EmitCandidates,
      MessageFrom, OpenerSteps, AnswererSteps, SendsCandidates
<1>6. ASSUME NEW c \in Channel,
             \/ ChannelEstablished(c) \/ ChannelOpened(c)
             \/ \E d \in Channel : LinkUp(c, d)
             \/ DataChannelOpens(c) \/ DataChannelCloses(c)
      PROVE  DeliveryInv'
  BY <1>0, <1>6
  DEF ChannelEstablished, ChannelOpened, LinkUp, DataChannelOpens,
      DataChannelCloses, DataChannelChanges, AnswererSteps, HasOpened
<1>7. ASSUME NEW c \in Channel,
             OpenChannelFails(c) \/ HandleOfferFails(c) \/ HandlerFails(c)
                \/ CloseByApplication(c)
      PROVE  DeliveryInv'
  BY <1>0, <1>7
  DEF OpenChannelFails, HandleOfferFails, HandlerFails, CloseByApplication,
      Close, MayReject, KeptCandidates, ListenersOfEvent
<1>8. ASSUME NEW m \in network, ReceiveOffer(m) PROVE DeliveryInv'
  BY <1>0, <1>8, ConstantsAssumption
  DEF ReceiveOffer, Create, MessagesMatchSenders, Message
<1>9. ASSUME NEW m \in network, ReceiveAnswer(m) PROVE DeliveryInv'
  <2>1. m.sender \in Channel /\ m.sender # None
    BY <1>0, ConstantsAssumption DEF Message
  <2>2. CASE UNCHANGED <<step, remoteDescription>>
    BY <1>0, <1>9, <2>2 DEF ReceiveAnswer, KeptAnswers
  <2>3. ASSUME NEW c \in Channel, Goto(c, "handlingAnswer"),
               remoteDescription' = [remoteDescription EXCEPT ![c] = m.sender]
        PROVE  DeliveryInv'
    BY <1>0, <1>9, <2>1, <2>3 DEF ReceiveAnswer, KeptAnswers
  <2>4. QED
    BY <1>9, <2>2, <2>3 DEF ReceiveAnswer, KeptAnswers
<1>10. ASSUME NEW m \in network, ReceiveCandidates(m) PROVE DeliveryInv'
  BY <1>0, <1>10 DEF ReceiveCandidates
<1>11. ASSUME NEW n \in Node, Reload(n) PROVE DeliveryInv'
  BY <1>0, <1>11 DEF Reload
<1>12. CASE UNCHANGED vars
  BY <1>0, <1>12 DEF vars
<1>13. QED
  BY <1>1, <1>2, <1>3, <1>4, <1>5, <1>6, <1>7, <1>8, <1>9, <1>10, <1>11, <1>12
  DEF Next, Continue, Environment, Receive

\* Where ids are unique, routing by ids is routing by session
LEMMA CounterpartOfDelivery ==
  ASSUME IInv, DeliveryInv
  PROVE  CandidatesFromCounterpart
<1> SUFFICES ASSUME NEW c \in Channel, NEW m \in received[c],
                    ~ \E d \in Channel : Twins(c, d),
                    NeverReloaded(peer[c])
             PROVE  \/ remoteDescription[c] = m.sender
                    \/ remoteDescription[m.sender] = c
  BY DEF CandidatesFromCounterpart
<1> DEFINE s == m.sender
<1>1. m \in network /\ IsCandidatesFor(m, c)
  BY DEF DeliveryInv, ReceivedAreRouted
<1>2. /\ s \in Channel
      /\ node[s] = peer[c] /\ peer[s] = node[c]
      /\ correlationId[s] = correlationId[c]
      /\ correlationId[c] # None
  BY <1>1, ConstantsAssumption
  DEF IInv, TypeInv, TypeOK, MessagesMatchSenders, IsCandidatesFor, Message
<1>3. role[c] \in {"opener", "answerer"} /\ role[s] \in {"opener", "answerer"}
  BY <1>2 DEF IInv, TypeInv, ChannelsAreFormed
<1>4. CASE role[s] = "answerer"
  \* the opener of that session is c itself, or else a twin of c
  <2> DEFINE o == remoteDescription[s]
  <2>1. o \in Channel /\ SameCandidatesEvent(c, o)
    BY <1>2, <1>4 DEF IInv, AnswerersMatchOpeners, SameCandidatesEvent
  <2>2. QED
    BY <2>1 DEF Twins
<1>5. CASE role[s] = "opener" /\ role[c] = "answerer"
  \* both s and the opener c answered hold the same id on the peer's node
  <2> DEFINE o == remoteDescription[c]
  <2>1. /\ o \in Channel /\ role[o] = "opener"
        /\ node[o] = node[s] /\ correlationId[o] = correlationId[s]
    BY <1>2, <1>5 DEF IInv, AnswerersMatchOpeners
  <2>2. HoldsId(o) /\ HoldsId(s)
    BY <1>2, <1>5, <2>1 DEF HoldsId
  <2>3. QED
    BY <1>2, <2>1, <2>2 DEF IInv, IdsAreDistinct
<1>6. CASE role[s] = "opener" /\ role[c] = "opener"
  \* the answer s applied was made on c's node by a twin of c
  <2> DEFINE d == remoteDescription[s]
  <2>1. d # None
    BY <1>1, <1>6 DEF DeliveryInv, CandidatesFollowAnswers, IsCandidatesFor
  <2>2. d \in Channel
    BY <1>2, <2>1 DEF IInv, TypeInv, TypeOK
  <2>3. remoteDescription[d] = s /\ role[d] = "answerer"
    BY <1>2, <1>6, <2>1
    DEF IInv, AnswersCorrelateUnlessReloaded, AnswerIsFor, OpenersApplyAnswers
  <2>4. SameCandidatesEvent(c, d)
    BY <1>2, <2>2, <2>3 DEF IInv, AnswerersMatchOpeners, SameCandidatesEvent
  <2>5. QED
    BY <1>6, <2>2, <2>3, <2>4 DEF Twins
<1>7. QED
  BY <1>3, <1>4, <1>5, <1>6

(***************************************************************************)
(* Unless its node has a twin of it or the remote node was reloaded, a     *)
(* channel is handed the candidates of its own session and no others.      *)
(***************************************************************************)
THEOREM CandidatesAreOfTheSession == Spec => []CandidatesFromCounterpart
<1>1. Init => DeliveryInv
  BY DEF Init, DeliveryInv, OpenersHaveApplied, CandidatesFollowAnswers,
         ReceivedAreRouted
<1>2. Spec => []DeliveryInv
  BY <1>1, StepDelivery, IInvAlways, EmittersAlways, PTL DEF Spec
<1>3. QED
  BY <1>2, CounterpartOfDelivery, IInvAlways, PTL

-----------------------------------------------------------------------------
(***************************************************************************)
(* Establishment implements ChannelPairing.  Two facts beside IInv are     *)
(* needed: openChannel applies one answer at most, so that mates stay, and *)
(* a data channel only opens between mates.                                *)
(***************************************************************************)
AnswersAreAppliedOnce ==
    \A c \in Channel :
        /\ step[c] \in {"creatingOffer", "sendingOffer", "waitingForAnswer"}
              => remoteDescription[c] = None
        /\ step[c] = "unused" => dataChannel[c] = "none"

OpenDataChannelsHaveMates ==
    \A c \in Channel :
        (\/ dataChannel[c] = "open"
         \/ dataChannel[c] = "connecting" /\ role[c] = "answerer")
            => Mate[c] # None

PairingInv == IInv /\ AnswersAreAppliedOnce /\ OpenDataChannelsHaveMates

\* The mate of a channel is a channel, and has it for its mate
LEMMA MatesAreMutual ==
  ASSUME TypeInv, NEW c \in Channel
  PROVE  /\ Mate[c] \in Channel \cup {None}
         /\ \A d \in Channel : Mate[c] = d <=> /\ remoteDescription[c] = d
                                               /\ remoteDescription[d] = c
         /\ Mate[c] = None => \A d \in Channel :
                ~ (remoteDescription[c] = d /\ remoteDescription[d] = c)
  BY ConstantsAssumption DEF Mate, TypeInv, TypeOK

\* A created answerer applied an offer, but is in no description itself
LEMMA ReceiveOfferKeepsMates ==
  ASSUME IInv, NEW m \in network, ReceiveOffer(m)
  PROVE  Mate' = Mate
<1> USE DEF IInv, TypeInv, TypeOK, MessagesMatchSenders, AnswerersMatchOpeners,
            OpenersApplyAnswers, ChannelsAreFormed, session, identity
<1>1. CASE UNCHANGED session
  BY <1>1 DEF Mate
<1>2. ASSUME NEW d \in Channel,
             Create(d, m.destinationId, m.sourceId, "answerer"),
             remoteDescription' = [remoteDescription EXCEPT ![d] = m.sender]
      PROVE  Mate' = Mate
  <2>1. m \in Message /\ m.sender \in Channel /\ role[m.sender] = "opener"
    BY <1>2 DEF ReceiveOffer, Message
  <2>2. role[d] = None /\ remoteDescription[d] = None
    BY <1>2 DEF Create
  <2>3. \A c \in Channel : remoteDescription[c] # d
    <3>1. \A c \in Channel : step[c] # "unused" => role[c] \in {"opener", "answerer"}
      OBVIOUS
    <3>2. \A c \in Channel : remoteDescription[c] # None => step[c] # "unused"
      OBVIOUS
    <3>3. ASSUME NEW c \in Channel, remoteDescription[c] = d PROVE FALSE
      <4>1. role[d] \in {"opener", "answerer"}
        BY <3>1, <3>2, <3>3, ConstantsAssumption
      <4> QED
        BY <2>2, <4>1, ConstantsAssumption
    <3> QED
      BY <3>3
  <2>4. m.sender # d
    BY <2>1, <2>2, ConstantsAssumption
  <2>5. ASSUME NEW c \in Channel PROVE Mate'[c] = Mate[c]
    BY <1>2, <2>1, <2>2, <2>3, <2>4, ConstantsAssumption DEF Mate
  <2> QED
    BY <2>5 DEF Mate
<1> QED
  BY <1>1, <1>2 DEF ReceiveOffer

\* The answer to its own offer gives an opener its mate; any other answer
\* changes no mate
LEMMA AppliedAnswersPair ==
  ASSUME PairingInv, NEW c \in Channel, NEW m \in network, AppliesAnswer(c, m)
  PROVE  /\ m.sender \in Channel /\ c # m.sender
         /\ Mate[c] = None
         /\ \/ Mate' = Mate
            \/ /\ node[c] = peer[m.sender] /\ peer[c] = node[m.sender]
               /\ Mate[m.sender] = None
               /\ Mate' = [Mate EXCEPT ![c] = m.sender, ![m.sender] = c]
<1> USE DEF PairingInv, IInv, TypeInv, TypeOK, MessagesMatchSenders
<1> DEFINE a == m.sender
<1>1. role[c] = "opener" /\ remoteDescription[c] = None
  BY AnswersAreAppliedByOpeners DEF AppliesAnswer, AnswersAreAppliedOnce
<1>2. m.type = "answer" /\ a \in Channel /\ role[a] = "answerer"
  BY DEF AppliesAnswer, IsAnswerFor, Message
<1>3. remoteDescription' = [remoteDescription EXCEPT ![c] = a]
  BY DEF AppliesAnswer
<1> HIDE DEF a
<1>4. c # a /\ Mate[c] = None
  BY <1>1, <1>2 DEF Mate
<1>5. CASE remoteDescription[a] # c
  <2>1. ASSUME NEW e \in Channel PROVE Mate'[e] = Mate[e]
    BY <1>1, <1>2, <1>3, <1>4, <1>5, ConstantsAssumption DEF Mate
  <2> QED
    BY <1>2, <1>4, <2>1 DEF Mate, a
<1>6. CASE remoteDescription[a] = c
  <2>1. node[c] = peer[a] /\ peer[c] = node[a]
    BY <1>2, <1>6 DEF AnswerersMatchOpeners
  <2>2. Mate[a] = None
    BY <1>1, <1>2, <1>6, ConstantsAssumption DEF Mate
  <2>3. ASSUME NEW e \in Channel
        PROVE  Mate'[e] = IF e = a THEN c ELSE IF e = c THEN a ELSE Mate[e]
    BY <1>1, <1>2, <1>3, <1>4, <1>6, ConstantsAssumption DEF Mate
  <2>4. Mate' = [Mate EXCEPT ![c] = a, ![a] = c]
    BY <1>4, <2>3 DEF Mate
  <2> QED
    BY <1>2, <1>4, <2>1, <2>2, <2>4 DEF a
<1> QED
  BY <1>5, <1>6

\* A step changes mates only as ChannelPairing pairs two channels
LEMMA MatesOnlyPair ==
  ASSUME PairingInv, [Next]_vars
  PROVE  \/ Mate' = Mate
         \/ \E c \in Channel, m \in network : AppliesAnswer(c, m)
<1>1. ASSUME NEW c \in Channel, NEW call \in Calls,
             OpenChannel(c, call[1], call[2])
      PROVE  Mate' = Mate
  BY <1>1 DEF OpenChannel, Mate
<1>2. ASSUME NEW c \in Channel, SendOffer(c) PROVE Mate' = Mate
  BY <1>2 DEF SendOffer, Mate
<1>3. ASSUME NEW m \in network, ReceiveOffer(m) PROVE Mate' = Mate
  BY <1>3, ReceiveOfferKeepsMates DEF PairingInv
<1>4. ASSUME NEW n \in Node, Reload(n) PROVE Mate' = Mate
  BY <1>4 DEF Reload, session, Mate
<1>5. CASE Quiet
  BY <1>5 DEF Quiet, Mate
<1> QED
  BY <1>1, <1>2, <1>3, <1>4, <1>5, StepSorts DEF PairingInv

\* A channel that has a mate keeps it
LEMMA MatesStay ==
  ASSUME PairingInv, [Next]_vars, NEW c \in Channel, Mate[c] # None
  PROVE  Mate'[c] = Mate[c]
<1>1. ASSUME NEW d \in Channel, NEW m \in network, AppliesAnswer(d, m)
      PROVE  Mate'[c] = Mate[c]
  <2>1. c # d
    BY <1>1, AppliedAnswersPair
  <2>2. CASE Mate' = Mate
    BY <2>2
  <2>3. CASE /\ Mate[m.sender] = None
             /\ Mate' = [Mate EXCEPT ![d] = m.sender, ![m.sender] = d]
    BY <2>1, <2>3 DEF Mate
  <2> QED
    BY <1>1, <2>2, <2>3, AppliedAnswersPair
<1> QED
  BY <1>1, MatesOnlyPair

\* openChannel waits for an answer only while it has applied none
LEMMA StepApplied ==
  ASSUME PairingInv, [Next]_vars
  PROVE  AnswersAreAppliedOnce'
<1> USE DEF PairingInv, IInv, TypeInv, TypeOK, ChannelsAreFormed,
            AnswersAreAppliedOnce, session, identity
<1>1. ASSUME NEW c \in Channel, NEW call \in Calls,
             OpenChannel(c, call[1], call[2])
      PROVE  AnswersAreAppliedOnce'
  BY <1>1 DEF OpenChannel, Create, Goto
<1>2. ASSUME NEW c \in Channel, SendOffer(c) \/ OfferSent(c)
      PROVE  AnswersAreAppliedOnce'
  BY <1>2 DEF SendOffer, OfferSent, Goto
<1>3. ASSUME NEW m \in network, ReceiveOffer(m)
      PROVE  AnswersAreAppliedOnce'
  BY <1>3 DEF ReceiveOffer, Create, Goto
<1>4. ASSUME NEW m \in network, ReceiveAnswer(m) \/ ReceiveCandidates(m)
      PROVE  AnswersAreAppliedOnce'
  BY <1>4 DEF ReceiveAnswer, ReceiveCandidates, Goto
<1>5. ASSUME NEW c \in Channel,
             \/ AnswerHandled(c) \/ AnswerCreated(c) \/ AnswerSent(c)
             \/ ChannelEstablished(c) \/ ChannelOpened(c)
             \/ CandidatesGathered(c)
      PROVE  AnswersAreAppliedOnce'
  BY <1>5
  DEF AnswerHandled, AnswerCreated, AnswerSent, ChannelEstablished,
      ChannelOpened, CandidatesGathered, Goto
<1>6. ASSUME NEW c \in Channel,
             OpenChannelFails(c) \/ HandleOfferFails(c) \/ HandlerFails(c)
                \/ CloseByApplication(c)
      PROVE  AnswersAreAppliedOnce'
  BY <1>6
  DEF OpenChannelFails, HandleOfferFails, HandlerFails, CloseByApplication,
      Close, Goto
<1>7. ASSUME NEW c \in Channel,
             \/ \E d \in Channel : LinkUp(c, d)
             \/ DataChannelOpens(c)
             \/ DataChannelCloses(c)
      PROVE  AnswersAreAppliedOnce'
  BY <1>7 DEF LinkUp, DataChannelOpens, DataChannelCloses, DataChannelChanges,
              Live
<1>8. ASSUME NEW n \in Node, Reload(n) PROVE AnswersAreAppliedOnce'
  BY <1>8 DEF Reload, Live
<1>9. CASE UNCHANGED vars
  BY <1>9 DEF vars
<1> QED
  BY <1>1, <1>2, <1>3, <1>4, <1>5, <1>6, <1>7, <1>8, <1>9
  DEF Next, Continue, Environment, Receive

\* How a step changes a data channel that it does not close
DataChannelsComeUp ==
    \A c \in Channel :
        \/ dataChannel'[c] = dataChannel[c] /\ role'[c] = role[c]
        \/ dataChannel'[c] = "closed"
        \/ dataChannel'[c] = "connecting" /\ role'[c] = "opener"
        \/ dataChannel'[c] = "none"
        \/ dataChannel[c] = "connecting" /\ role[c] = "answerer"
        \/ Mate'[c] # None

\* Data channels only come up between mates
LEMMA StepDataChannels ==
  ASSUME PairingInv, [Next]_vars
  PROVE  DataChannelsComeUp
<1> USE DEF PairingInv, IInv, TypeInv, TypeOK, DataChannelsComeUp,
            session, identity
<1>1. ASSUME NEW c \in Channel, NEW call \in Calls,
             OpenChannel(c, call[1], call[2])
      PROVE  DataChannelsComeUp
  BY <1>1 DEF OpenChannel, Create
<1>2. ASSUME NEW m \in network, ReceiveOffer(m)
      PROVE  DataChannelsComeUp
  BY <1>2 DEF ReceiveOffer, Create, AnswersAreAppliedOnce
<1>3. CASE UNCHANGED <<dataChannel, role>>
  BY <1>3
<1>4. ASSUME NEW c \in Channel, NEW s \in {"failed", "closed"}, Close(c, s)
      PROVE  DataChannelsComeUp
  BY <1>4 DEF Close
<1>5. ASSUME NEW c \in Channel, NEW d \in Channel, LinkUp(c, d)
      PROVE  DataChannelsComeUp
  <2>1. Mate'[c] # None /\ Mate'[d] # None
    BY <1>5, ConstantsAssumption DEF LinkUp, Mate
  <2> QED
    BY <1>5, <2>1 DEF LinkUp
<1>6. ASSUME NEW c \in Channel, DataChannelOpens(c) \/ DataChannelCloses(c)
      PROVE  DataChannelsComeUp
  BY <1>6 DEF DataChannelOpens, DataChannelCloses, DataChannelChanges
<1>7. ASSUME NEW n \in Node, Reload(n) PROVE DataChannelsComeUp
  BY <1>7 DEF Reload
<1>8. ASSUME NEW c \in Channel, Continue(c)
      PROVE  DataChannelsComeUp
  BY <1>3, <1>4, <1>8
  DEF Continue, SendOffer, OfferSent, AnswerHandled, AnswerCreated, AnswerSent,
      ChannelEstablished, ChannelOpened, OpenChannelFails, HandleOfferFails
<1>9. ASSUME NEW c \in Channel,
             CandidatesGathered(c) \/ HandlerFails(c) \/ CloseByApplication(c)
      PROVE  DataChannelsComeUp
  BY <1>3, <1>4, <1>9
  DEF CandidatesGathered, HandlerFails, CloseByApplication
<1>10. ASSUME NEW m \in network, ReceiveAnswer(m) \/ ReceiveCandidates(m)
       PROVE  DataChannelsComeUp
  BY <1>3, <1>10 DEF ReceiveAnswer, ReceiveCandidates
<1> QED
  BY <1>1, <1>2, <1>3, <1>5, <1>6, <1>7, <1>8, <1>9, <1>10
  DEF Next, Environment, Receive, vars

\* PairingInv is inductive
LEMMA StepPairingInv == PairingInv /\ [Next]_vars => PairingInv'
<1> SUFFICES ASSUME PairingInv, [Next]_vars PROVE PairingInv'
  OBVIOUS
<1>1. OpenDataChannelsHaveMates'
  <2> SUFFICES ASSUME NEW c \in Channel,
                      \/ dataChannel'[c] = "open"
                      \/ dataChannel'[c] = "connecting" /\ role'[c] = "answerer",
                      Mate'[c] = None
               PROVE  FALSE
    BY DEF OpenDataChannelsHaveMates
  <2>1. Mate[c] = None
    BY MatesStay
  <2>2. \/ dataChannel'[c] = dataChannel[c] /\ role'[c] = role[c]
        \/ dataChannel[c] = "connecting" /\ role[c] = "answerer"
    BY StepDataChannels DEF DataChannelsComeUp
  <2> QED
    BY <2>1, <2>2 DEF PairingInv, OpenDataChannelsHaveMates
<1> QED
  BY <1>1, StepIInv, StepApplied DEF PairingInv

\* Before anything was opened there is nothing to pair
LEMMA InitPairingInv == Init => PairingInv
  BY InitIInv
  DEF Init, PairingInv, AnswersAreAppliedOnce, OpenDataChannelsHaveMates

\* PairingInv holds for ever
THEOREM PairingInvAlways == Spec => []PairingInv
  BY InitPairingInv, StepPairingInv, PTL DEF Spec

\* A step that no application notices pairs two channels, or nothing
LEMMA UnnoticedRefines ==
  ASSUME PairingInv, [Next]_vars, UNCHANGED <<Progress, node, peer>>
  PROVE  [Pairing!Next]_(Pairing!vars)
<1>1. CASE Mate' = Mate
  BY <1>1 DEF Pairing!vars
<1>2. ASSUME NEW c \in Channel, NEW m \in network, AppliesAnswer(c, m),
             Mate' # Mate
      PROVE  Pairing!Pair(c, m.sender) /\ m.sender \in Channel
  <2>1. Progress[c] = "pending"
    BY <1>2 DEF AppliesAnswer, Progress, Ended
  <2> QED
    BY <1>2, <2>1, AppliedAnswersPair DEF Pairing!Pair
<1> QED
  BY <1>1, <1>2, MatesOnlyPair DEF Pairing!Next

\* Closing a channel ends it
LEMMA CloseRefines ==
  ASSUME PairingInv, NEW c \in Channel, NEW s \in {"failed", "closed"},
         Live(c), Close(c, s)
  PROVE  Pairing!Fail({c})
<1>1. /\ Progress[c] \in {"pending", "open"}
      /\ Progress' = [d \in Channel |-> IF d \in {c} THEN "ended"
                                        ELSE Progress[d]]
  BY DEF PairingInv, IInv, TypeInv, TypeOK, Progress, Live, Ended, Close, Goto
<1>2. Mate' = Mate /\ UNCHANGED <<node, peer>>
  BY DEF Close, session, identity, Mate
<1> QED
  BY <1>1, <1>2 DEF Pairing!Fail

\* Every step is one of ChannelPairing, or none that it tells
LEMMA StepRefinesPairing ==
  ASSUME PairingInv, [Next]_vars
  PROVE  [Pairing!Next]_(Pairing!vars)
<1> USE DEF PairingInv, IInv, TypeInv, TypeOK, session, identity
<1>1. ASSUME NEW c \in Channel, NEW n \in Node, NEW p \in Node,
             Create(c, n, p, role'[c]), Mate' = Mate,
             step'[c] \in OpenerSteps \cup AnswererSteps, Goto(c, step'[c])
      PROVE  Pairing!Begin(c, n, p)
  BY <1>1
  DEF Create, Goto, Progress, Ended, OpenerSteps, AnswererSteps, Pairing!Begin
<1>2. ASSUME NEW c \in Channel, NEW call \in Calls,
             OpenChannel(c, call[1], call[2])
      PROVE  Pairing!Next
  <2>1. call[1] \in Node /\ call[2] \in Node
    BY ConstantsAssumption
  <2>2. /\ Create(c, call[1], call[2], role'[c]) /\ Mate' = Mate
        /\ step'[c] \in OpenerSteps /\ Goto(c, step'[c])
    BY <1>2 DEF OpenChannel, Create, Goto, Mate, OpenerSteps
  <2> QED
    BY <1>1, <2>1, <2>2 DEF Pairing!Next
<1>3. ASSUME NEW m \in network, ReceiveOffer(m)
      PROVE  [Pairing!Next]_(Pairing!vars)
  <2>1. Mate' = Mate
    BY <1>3, ReceiveOfferKeepsMates
  <2>2. m.destinationId \in Node /\ m.sourceId \in Node
    BY DEF Message
  <2>3. ASSUME NEW d \in Channel,
               Create(d, m.destinationId, m.sourceId, "answerer"),
               Goto(d, "creatingAnswer")
        PROVE  Pairing!Next
    <3>1. /\ Create(d, m.destinationId, m.sourceId, role'[d])
          /\ step'[d] \in AnswererSteps /\ Goto(d, step'[d])
      BY <2>3 DEF Create, Goto, AnswererSteps
    <3> QED
      BY <1>1, <2>1, <2>2, <3>1 DEF Pairing!Next
  <2>4. CASE UNCHANGED <<step, session>>
    BY <2>1, <2>4 DEF Progress, Pairing!vars
  <2> QED
    BY <1>3, <2>3, <2>4 DEF ReceiveOffer
<1>4. ASSUME NEW c \in Channel, ChannelOpened(c)
      PROVE  Pairing!Open(c)
  <2>1. Mate' = Mate /\ UNCHANGED <<node, peer>>
    BY <1>4 DEF ChannelOpened, Mate
  <2>2. Mate[c] # None
    BY <1>4 DEF ChannelOpened, HasOpened, OpenDataChannelsHaveMates
  <2>3. /\ Progress[c] = "pending"
        /\ Progress' = [Progress EXCEPT ![c] = "open"]
    BY <1>4 DEF ChannelOpened, Goto, Progress, Ended
  <2> QED
    BY <2>1, <2>2, <2>3 DEF Pairing!Open
<1>5. ASSUME NEW c \in Channel,
             OpenChannelFails(c) \/ HandleOfferFails(c) \/ HandlerFails(c)
                \/ CloseByApplication(c)
      PROVE  Pairing!Next
  <2>1. Pairing!Fail({c})
    BY <1>5, CloseRefines
    DEF OpenChannelFails, HandleOfferFails, HandlerFails, CloseByApplication,
        MayReject, Live, Ended, AnswererSteps
  <2>2. {c} \in SUBSET Channel
    OBVIOUS
  <2> QED
    BY <2>1, <2>2 DEF Pairing!Next
<1>6. ASSUME NEW n \in Node, Reload(n) PROVE Pairing!Next
  <2> DEFINE gone == {c \in Channel : node[c] = n /\ Live(c)}
  <2>1. Mate' = Mate /\ UNCHANGED <<node, peer>>
    BY <1>6 DEF Reload, Mate
  <2>2. \A c \in gone : Progress[c] \in {"pending", "open"}
    BY DEF Progress, Live, Ended
  <2>3. Progress' = [c \in Channel |-> IF c \in gone THEN "ended"
                                      ELSE Progress[c]]
    BY <1>6 DEF Reload, Progress, Live, Ended
  <2>4. Pairing!Fail(gone)
    BY <2>1, <2>2, <2>3 DEF Pairing!Fail
  <2>5. gone \in SUBSET Channel
    OBVIOUS
  <2> QED
    BY <2>4, <2>5 DEF Pairing!Next
<1>7. ASSUME NEW c \in Channel,
             \/ SendOffer(c) \/ OfferSent(c) \/ AnswerHandled(c)
             \/ AnswerCreated(c) \/ AnswerSent(c) \/ ChannelEstablished(c)
             \/ CandidatesGathered(c) \/ DataChannelOpens(c)
             \/ DataChannelCloses(c)
             \/ \E d \in Channel : LinkUp(c, d)
      PROVE  UNCHANGED <<Progress, node, peer>>
  BY <1>7
  DEF SendOffer, OfferSent, AnswerHandled, AnswerCreated, AnswerSent,
      ChannelEstablished, CandidatesGathered, DataChannelOpens,
      DataChannelCloses, DataChannelChanges, LinkUp, Goto, Progress, Ended
<1>8. ASSUME NEW m \in network, ReceiveAnswer(m) \/ ReceiveCandidates(m)
      PROVE  UNCHANGED <<Progress, node, peer>>
  BY <1>8 DEF ReceiveAnswer, ReceiveCandidates, Goto, Progress, Ended
<1>9. CASE UNCHANGED vars
  <2>1. UNCHANGED <<Progress, node, peer>>
    BY <1>9 DEF vars, Progress
  <2> QED
    BY <2>1, UnnoticedRefines
<1> QED
  BY <1>2, <1>3, <1>4, <1>5, <1>6, <1>7, <1>8, <1>9, UnnoticedRefines
  DEF Next, Continue, Environment, Receive, Pairing!Next

\* A channel given to an application is one of a pair, for good
THEOREM EstablishmentPairs == Spec => OpenChannelsArePaired
<1>1. Init => Pairing!Init
  BY DEF Init, Progress, Mate, Ended, Pairing!Init
<1>2. PairingInv /\ [Next]_vars => [Pairing!Next]_(Pairing!vars)
  BY StepRefinesPairing
<1> QED
  BY <1>1, <1>2, PairingInvAlways, PTL
  DEF Spec, OpenChannelsArePaired, Pairing!Spec
=============================================================================
