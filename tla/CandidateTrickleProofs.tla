------------------------ MODULE CandidateTrickleProofs ------------------------
(***************************************************************************)
(* No candidate vanishes between two components, for all sets of           *)
(* candidates, of calls of sendIceCandidates and of runs of                *)
(* processRemoteIceCandidates.                                             *)
(***************************************************************************)
EXTENDS CandidateTrickle, SequenceTheorems, TLAPS

\* The types of what the argument is about
TypeInv ==
    /\ emitted \in Seq(Candidate)
    /\ localIceCandidates \in Seq(Candidate)
    /\ key \in [Call -> Session \cup {None}]
    /\ queuedCandidates \in [Session -> Seq(Call)]
    /\ timers \subseteq Call
    /\ sent \in [Call -> Seq(Call)]
    /\ content \in [Call -> SUBSET Candidate]

\* A call that was not made has no candidates, no timer and no batch
UnusedCalls ==
    \A c \in Call : key[c] = None =>
        content[c] = {} /\ c \notin timers /\ sent[c] = <<>>

\* A batch is posted once, by its timer, and only what was posted arrives
HandedAreSent ==
    /\ \A p \in timers : sent[p] = <<>>
    /\ handed \subseteq arrived
    /\ arrived \subseteq relayed
    /\ relayed \subseteq {p \in Call : sent[p] # <<>>}

\* What is sent was emitted, and so is what the receiver was given
NothingFromNowhere ==
    /\ \A c \in Call : content[c] \subseteq ToSet(emitted)
    /\ received \subseteq ToSet(emitted)

\* Where a candidate may be
IsQueued(i) ==
    \E k \in Session, c \in Call : c \in ToSet(queuedCandidates[k]) /\ i \in content[c]

IsUnderWay(i) ==
    \E p \in Call \ handed, c \in Call : c \in ToSet(sent[p]) /\ i \in content[c]

EmittedAreCarried ==
    \A i \in ToSet(emitted) : IsQueued(i) \/ IsUnderWay(i) \/ i \in received

IInv ==
    /\ TypeInv
    /\ UnusedCalls
    /\ HandedAreSent
    /\ NothingFromNowhere
    /\ EmittedAreCarried

-----------------------------------------------------------------------------
\* The elements of a sequence are of its type
LEMMA ElementsOfSeq ==
  ASSUME NEW S, NEW s \in Seq(S)
  PROVE  ToSet(s) \subseteq S
BY DEF ToSet

\* Concatenating what is emitted loses nothing
LEMMA ConcatGrows ==
  ASSUME NEW S, NEW s \in Seq(S), NEW t \in Seq(S)
  PROVE  s \o t \in Seq(S) /\ ToSet(s) \subseteq ToSet(s \o t)
<1>1. /\ s \o t \in Seq(S)
      /\ Len(s \o t) = Len(s) + Len(t)
      /\ \A i \in 1 .. Len(s) + Len(t) :
            (s \o t)[i] = IF i <= Len(s) THEN s[i] ELSE t[i - Len(s)]
      /\ Len(s) \in Nat /\ Len(t) \in Nat
  BY ConcatProperties, LenProperties
<1>2. DOMAIN s = 1 .. Len(s) /\ DOMAIN (s \o t) = 1 .. Len(s) + Len(t)
  BY <1>1, LenProperties
<1>3. ASSUME NEW i \in 1 .. Len(s)
      PROVE  i \in 1 .. Len(s) + Len(t) /\ (s \o t)[i] = s[i]
  BY <1>1, <1>3
<1> QED
  BY <1>1, <1>2, <1>3 DEF ToSet

\* A queue that is appended to loses nothing
LEMMA AppendGrows ==
  ASSUME NEW S, NEW s \in Seq(S), NEW e \in S
  PROVE  /\ Append(s, e) \in Seq(S) /\ Append(s, e) # <<>>
         /\ ToSet(s) \cup {e} \subseteq ToSet(Append(s, e))
<1>1. /\ Append(s, e) \in Seq(S) /\ Append(s, e) # <<>>
      /\ DOMAIN s = 1 .. Len(s) /\ Len(s) \in Nat
      /\ DOMAIN Append(s, e) = 1 .. (Len(s) + 1)
      /\ Append(s, e)[Len(s) + 1] = e
      /\ \A i \in 1 .. Len(s) : Append(s, e)[i] = s[i]
  BY AppendProperties, LenProperties
<1>2. 1 .. (Len(s) + 1) = 1 .. Len(s) \cup {Len(s) + 1}
  BY <1>1
<1> QED
  BY <1>1, <1>2 DEF ToSet

\* The invariant says what NoCandidateVanishes does, in terms of queues
LEMMA CarriedDoNotVanish ==
  ASSUME IInv
  PROVE  NoCandidateVanishes
<1> DEFINE queued == {c \in Call : \E k \in Session : c \in ToSet(queuedCandidates[k])}
<1>1. ASSUME NEW i \in ToSet(emitted)
      PROVE  \/ i \in UNION {content[c] : c \in queued}
             \/ i \in UNION {CarriedBy(p) : p \in Call \ handed}
             \/ i \in received
  <2>1. CASE IsQueued(i)
    BY <2>1 DEF IsQueued
  <2>2. CASE IsUnderWay(i)
    <3>1. PICK p \in Call \ handed, c \in Call : c \in ToSet(sent[p]) /\ i \in content[c]
      BY <2>2 DEF IsUnderWay
    <3>2. i \in CarriedBy(p)
      BY <3>1 DEF CarriedBy
    <3> QED
      BY <3>2
  <2> QED
    BY <2>1, <2>2 DEF IInv, EmittedAreCarried
<1> QED
  BY <1>1 DEF NoCandidateVanishes, IInv, NothingFromNowhere

-----------------------------------------------------------------------------
\* Nothing was gathered yet
LEMMA InitIInv == Init => IInv
<1>1. ToSet(<<>>) = {} /\ \A S : <<>> \in Seq(S)
  BY EmptySeq DEF ToSet
<1> SUFFICES ASSUME Init PROVE IInv
  OBVIOUS
<1>2. /\ emitted = <<>> /\ localIceCandidates = <<>>
      /\ key = [c \in Call |-> None]
      /\ queuedCandidates = [k \in Session |-> <<>>]
      /\ timers = {}
      /\ sent = [c \in Call |-> <<>>]
      /\ content = [c \in Call |-> {}]
      /\ received = {} /\ handed = {} /\ arrived = {} /\ relayed = {}
  BY DEF Init, Batching!Init, Receiver!Init
<1> QED
  BY <1>1, <1>2
  DEF IInv, TypeInv, UnusedCalls, HandedAreSent, NothingFromNowhere,
      EmittedAreCarried

\* What the listener of the Channel is handed is added to what it was handed
LEMMA SenderEmits ==
  ASSUME TypeInv,
         \/ \E c \in Candidate : Sender!LocalCandidate(c)
         \/ Sender!StartSending \/ Sender!StopSending \/ Sender!Close
         \/ UNCHANGED senderVars
  PROVE  /\ emitted' \in Seq(Candidate)
         /\ ToSet(emitted) \subseteq ToSet(emitted')
         /\ localIceCandidates' \in Seq(Candidate)
<1> DEFINE Gathered(c) == Sender!GatheredWith(c)
<1>1. \A c \in Candidate \cup {None} : Gathered(c) \in Seq(Candidate)
  BY AppendGrows DEF TypeInv, Sender!GatheredWith
<1>2. <<>> \in Seq(Candidate)
  BY EmptySeq
<1>3. \/ emitted' = emitted
      \/ \E c \in Candidate \cup {None} : emitted' = emitted \o Gathered(c)
  BY DEF Sender!LocalCandidate, Sender!StartSending, Sender!StopSending,
         Sender!Close, Sender!Emit, senderVars
<1>4. \/ localIceCandidates' = <<>> \/ localIceCandidates' = localIceCandidates
      \/ \E c \in Candidate \cup {None} : localIceCandidates' = Gathered(c)
  BY DEF Sender!LocalCandidate, Sender!StartSending, Sender!StopSending,
         Sender!Close, Sender!Emit, senderVars
<1> HIDE DEF Gathered
<1>5. emitted' \in Seq(Candidate) /\ ToSet(emitted) \subseteq ToSet(emitted')
  <2>1. ASSUME NEW c \in Candidate \cup {None}, emitted' = emitted \o Gathered(c)
        PROVE  /\ emitted' \in Seq(Candidate)
               /\ ToSet(emitted) \subseteq ToSet(emitted')
    BY <1>1, <2>1, ConcatGrows DEF TypeInv
  <2> QED
    BY <1>3, <2>1 DEF TypeInv
<1> QED
  BY <1>1, <1>2, <1>4, <1>5 DEF TypeInv

-----------------------------------------------------------------------------
\* What is emitted goes into the queue of its session
LEMMA SendIInv ==
  ASSUME IInv, NEW c \in Call, NEW k \in Session,
         Batching!SendIceCandidates(c, k),
         content' = [content EXCEPT ![c] = ToSet(emitted') \ ToSet(emitted)],
         emitted' \in Seq(Candidate), ToSet(emitted) \subseteq ToSet(emitted'),
         localIceCandidates' \in Seq(Candidate),
         UNCHANGED <<receiverVars, wireVars>>
  PROVE  IInv'
<1> USE DEF IInv, TypeInv
<1>1. /\ key[c] = None /\ key' = [key EXCEPT ![c] = k]
      /\ queuedCandidates' =
            [queuedCandidates EXCEPT ![k] = Append(queuedCandidates[k], c)]
      /\ timers' \in {timers, timers \cup {c}}
      /\ sent' = sent
      /\ UNCHANGED <<received, relayed, arrived, handed>>
  BY DEF Batching!SendIceCandidates, Batching!Extended, receiverVars, wireVars
<1>2. content[c] = {} /\ c \notin timers /\ sent[c] = <<>> /\ k # None
  BY <1>1, TrickleAssumption DEF UnusedCalls
<1>3. /\ Append(queuedCandidates[k], c) \in Seq(Call)
      /\ ToSet(queuedCandidates[k]) \cup {c}
            \subseteq ToSet(Append(queuedCandidates[k], c))
  BY AppendGrows
<1>4. /\ \A j \in Session :
            ToSet(queuedCandidates[j]) \subseteq ToSet(queuedCandidates'[j])
      /\ c \in ToSet(queuedCandidates'[k])
  BY <1>1, <1>3
<1>5. ToSet(emitted') \subseteq Candidate
  BY ElementsOfSeq
<1>6. /\ \A d \in Call : content[d] \subseteq content'[d]
      /\ ToSet(emitted') \subseteq ToSet(emitted) \cup content'[c]
      /\ \A d \in Call : content'[d] \subseteq ToSet(emitted')
      /\ content' \in [Call -> SUBSET Candidate]
  BY <1>2, <1>5 DEF NothingFromNowhere
<1>7. TypeInv'
  BY <1>1, <1>3, <1>6
<1>8. UnusedCalls' /\ HandedAreSent'
  BY <1>1, <1>2 DEF UnusedCalls, HandedAreSent
<1>9. NothingFromNowhere'
  BY <1>1, <1>6 DEF NothingFromNowhere
<1>10. ASSUME NEW i \in ToSet(emitted')
       PROVE  IsQueued(i)' \/ IsUnderWay(i)' \/ i \in received'
  <2>1. CASE i \in content'[c]
    BY <1>4, <2>1 DEF IsQueued
  <2>2. CASE IsQueued(i)
    BY <1>4, <1>6, <2>2 DEF IsQueued
  <2>3. CASE IsUnderWay(i)
    BY <1>1, <1>6, <2>3 DEF IsUnderWay
  <2> QED
    BY <1>1, <1>6, <1>10, <2>1, <2>2, <2>3 DEF EmittedAreCarried
<1> QED
  BY <1>7, <1>8, <1>9, <1>10 DEF EmittedAreCarried

\* The sender gathers, starts and stops sending, or closes
LEMMA SenderIInv ==
  ASSUME IInv,
         \/ SenderReady \/ StartSending \/ SenderStops
         \/ \E c \in Candidate : Gather(c)
  PROVE  IInv'
<1>1. /\ emitted' \in Seq(Candidate)
      /\ ToSet(emitted) \subseteq ToSet(emitted')
      /\ localIceCandidates' \in Seq(Candidate)
  BY SenderEmits
  DEF IInv, SenderReady, StartSending, SenderStops, Gather, TypeInv
<1>2. UNCHANGED <<receiverVars, wireVars>>
  BY DEF SenderReady, StartSending, SenderStops, Gather
<1>3. CASE emitted' = emitted /\ UNCHANGED <<batchingVars, content>>
  BY <1>1, <1>2, <1>3
  DEF IInv, TypeInv, UnusedCalls, HandedAreSent, NothingFromNowhere,
      EmittedAreCarried, IsQueued, IsUnderWay, batchingVars, receiverVars,
      wireVars
<1>4. CASE \E c \in Call, k \in Session :
             /\ Batching!SendIceCandidates(c, k)
             /\ content' = [content EXCEPT
                               ![c] = ToSet(emitted') \ ToSet(emitted)]
  BY <1>1, <1>2, <1>4, SendIInv
<1> QED
  BY <1>3, <1>4
  DEF SenderReady, StartSending, SenderStops, Gather, Send, Sender!StopSending,
      Sender!Close

\* A queue becomes a message that was not handed to the receiver before
LEMMA TimerIInv ==
  ASSUME IInv, NEW p \in Call, TimerFires(p)
  PROVE  IInv'
<1> USE DEF IInv, TypeInv
<1> DEFINE k == key[p]
<1>1. /\ p \in timers /\ timers' = timers \ {p}
      /\ UNCHANGED <<emitted, localIceCandidates, key, content, received,
                     relayed, arrived, handed>>
  BY DEF TimerFires, Batching!TimerFires, senderVars, receiverVars, wireVars
<1>2. \/ /\ queuedCandidates[k] # <<>>
         /\ queuedCandidates' = [queuedCandidates EXCEPT ![k] = <<>>]
         /\ sent' = [sent EXCEPT ![p] = queuedCandidates[k]]
      \/ UNCHANGED <<queuedCandidates, sent>>
  BY DEF TimerFires, Batching!TimerFires
<1>3. k \in Session /\ sent[p] = <<>> /\ p \notin handed
  BY <1>1 DEF UnusedCalls, HandedAreSent
<1>4. ToSet(<<>>) = {} /\ <<>> \in Seq(Call)
  BY EmptySeq DEF ToSet
<1>5. TypeInv'
  BY <1>1, <1>2, <1>3, <1>4
<1>6. UnusedCalls' /\ HandedAreSent' /\ NothingFromNowhere'
  BY <1>1, <1>2, <1>3, TrickleAssumption
  DEF UnusedCalls, HandedAreSent, NothingFromNowhere
<1>7. ASSUME NEW i \in ToSet(emitted)
      PROVE  IsQueued(i)' \/ IsUnderWay(i)' \/ i \in received'
  <2>1. CASE IsQueued(i)
    <3>1. PICK j \in Session, d \in Call :
             d \in ToSet(queuedCandidates[j]) /\ i \in content[d]
      BY <2>1 DEF IsQueued
    <3>2. CASE queuedCandidates'[j] = queuedCandidates[j]
      BY <1>1, <3>1, <3>2 DEF IsQueued
    <3>3. CASE sent'[p] = queuedCandidates[j]
      BY <1>1, <1>3, <3>1, <3>3 DEF IsUnderWay
    <3> QED
      BY <1>2, <3>2, <3>3
  <2>2. CASE IsUnderWay(i)
    <3>1. PICK q \in Call \ handed, d \in Call :
             d \in ToSet(sent[q]) /\ i \in content[d]
      BY <2>2 DEF IsUnderWay
    <3>2. sent'[q] = sent[q]
      BY <1>2, <1>3, <1>4, <3>1
    <3> QED
      BY <1>1, <3>1, <3>2 DEF IsUnderWay
  <2> QED
    BY <1>1, <1>7, <2>1, <2>2 DEF EmittedAreCarried
<1> QED
  BY <1>1, <1>5, <1>6, <1>7 DEF EmittedAreCarried

\* Messages are relayed and arrive, posts settle and the receiver goes on
LEMMA WireIInv ==
  ASSUME IInv,
         \/ \E p \in Call : Relay(p) \/ PostSettles(p) \/ Arrive(p)
         \/ Listen \/ ReceiverProceeds \/ ReceiverCloses
         \/ UNCHANGED vars
  PROVE  IInv'
<1>1. UNCHANGED <<emitted, localIceCandidates, key, queuedCandidates, timers,
                  sent, content, received, handed>>
  BY DEF Relay, PostSettles, Arrive, Listen, ReceiverProceeds, ReceiverCloses,
         Batching!DeliverySettles, Batching!queues, Receiver!ApplyDescription,
         Receiver!AnswerHandled, Receiver!AnswerCreated,
         Receiver!DescriptionFails, Receiver!RunEnds,
         Receiver!DescriptionApplied, Receiver!Close, Receiver!remoteVars,
         vars, senderVars, batchingVars, receiverVars, wireVars
<1>2. /\ handed \subseteq arrived'
      /\ arrived' \subseteq relayed'
      /\ relayed' \subseteq {p \in Call : sent[p] # <<>>}
  BY DEF IInv, HandedAreSent, Relay, PostSettles, Arrive, Listen,
         ReceiverProceeds, ReceiverCloses, vars, wireVars
<1> QED
  BY <1>1, <1>2
  DEF IInv, TypeInv, UnusedCalls, HandedAreSent, NothingFromNowhere,
      EmittedAreCarried, IsQueued, IsUnderWay

\* The receiver is given all that a message carries
LEMMA HandIInv ==
  ASSUME IInv, NEW r \in Run, NEW p \in Call, Hand(r, p)
  PROVE  IInv'
<1>1. /\ UNCHANGED <<emitted, localIceCandidates, key, queuedCandidates, timers,
                     sent, content, relayed, arrived>>
      /\ p \in arrived /\ handed' = handed \cup {p}
      /\ received' = received \cup CarriedBy(p)
  BY DEF Hand, Receiver!RemoteCandidates, senderVars, batchingVars
<1>2. CarriedBy(p) \subseteq ToSet(emitted)
  <2>1. ToSet(sent[p]) \subseteq Call
    BY ElementsOfSeq DEF IInv, TypeInv
  <2> QED
    BY <2>1 DEF CarriedBy, IInv, NothingFromNowhere
<1>3. ASSUME NEW i \in ToSet(emitted)
      PROVE  IsQueued(i)' \/ IsUnderWay(i)' \/ i \in received'
  <2>1. CASE IsQueued(i)
    BY <1>1, <2>1 DEF IsQueued
  <2>2. CASE IsUnderWay(i)
    <3>1. PICK q \in Call \ handed, d \in Call :
             d \in ToSet(sent[q]) /\ i \in content[d]
      BY <2>2 DEF IsUnderWay
    <3>2. CASE q = p
      BY <1>1, <3>1, <3>2 DEF CarriedBy
    <3>3. CASE q # p
      BY <1>1, <3>1, <3>3 DEF IsUnderWay
    <3> QED
      BY <3>2, <3>3
  <2> QED
    BY <1>1, <1>3, <2>1, <2>2 DEF IInv, EmittedAreCarried
<1>4. HandedAreSent' /\ NothingFromNowhere'
  BY <1>1, <1>2 DEF IInv, HandedAreSent, NothingFromNowhere
<1> QED
  BY <1>1, <1>3, <1>4 DEF IInv, TypeInv, UnusedCalls, EmittedAreCarried

-----------------------------------------------------------------------------
\* The invariant, over all ways in which the five components interleave
THEOREM TrickleInvariant == Spec => []IInv
<1>1. IInv /\ [Next]_vars => IInv'
  BY SenderIInv, TimerIInv, WireIInv, HandIInv DEF Next
<1> QED
  BY InitIInv, <1>1, PTL DEF Spec

\* An emitted candidate is always with one of those who carry it
THEOREM CandidatesAreKept == Spec => []NoCandidateVanishes
<1>1. IInv => NoCandidateVanishes
  BY CarriedDoNotVanish
<1> QED
  BY <1>1, TrickleInvariant, PTL
=============================================================================
