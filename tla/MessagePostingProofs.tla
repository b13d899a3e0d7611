------------------------- MODULE MessagePostingProofs -------------------------
(***************************************************************************)
(* What the caller of a post is told is so, and no message is relayed by   *)
(* two servers: for any messages, servers and coming and going of          *)
(* registrations and connections.                                          *)
(***************************************************************************)
EXTENDS MessagePosting, FiniteSetTheorems, TLAPS

\* How the outcome of a post and that of its last request go together
ResultsMatchExchanges(m) ==
    /\ result[m] = "unsent" <=> request[m] = None /\ result[m] # "unreachable"
    /\ result[m] = "pending" => exchange[m] # "none"
    /\ result[m] = "resolved" => exchange[m] = "accepted"
    /\ result[m] = "unreachable" =>
          remaining[m] = {} /\ exchange[m] \in {"none", "refused"}
    /\ request[m] = None <=> exchange[m] = "none"

(***************************************************************************)
(* Only the server of the current request may have relayed the message,    *)
(* and it has not if it is yet to answer or has refused.                   *)
(***************************************************************************)
RelayedByRequest(m) ==
    relayed[m] = CASE exchange[m] = "accepted" -> {request[m]}
                   [] exchange[m] = "broken" -> relayed[m] \cap {request[m]}
                   [] OTHER -> {}

IInv ==
    /\ TypeOK
    /\ \A m \in Message : ResultsMatchExchanges(m) /\ RelayedByRequest(m)

-----------------------------------------------------------------------------
\* Nothing was posted yet
LEMMA InitIInv == Init => IInv
  BY NoneAssumption
  DEF Init, IInv, TypeOK, Exchange, ResultsMatchExchanges, RelayedByRequest

\* Asking the next server of a message that nobody relayed
LEMMA TryNextIInv ==
  ASSUME IInv, NEW m \in Message, TryNext(m),
         relayed[m] = {}, exchange[m] \in {"none", "refused"},
         UNCHANGED <<signalling, relayed, registered>>
  PROVE  IInv'
<1> USE NoneAssumption DEF IInv, TypeOK, Exchange
<1>1. TypeOK'
  BY DEF TryNext, Without, NoneLeft
<1>2. ASSUME NEW n \in Message
      PROVE  ResultsMatchExchanges(n)' /\ RelayedByRequest(n)'
  <2>1. CASE n = m /\ NoneLeft(m)
    BY <2>1 DEF TryNext, NoneLeft, ResultsMatchExchanges, RelayedByRequest
  <2>2. CASE n = m /\ ~ NoneLeft(m)
    BY <2>2 DEF TryNext, ResultsMatchExchanges, RelayedByRequest
  <2>3. CASE n # m
    BY <2>3 DEF TryNext, ResultsMatchExchanges, RelayedByRequest
  <2> QED
    BY <2>1, <2>2, <2>3
<1> QED
  BY <1>1, <1>2

\* A post that begins, or whose last request was refused, has one more to try
LEMMA PostIInv ==
  ASSUME IInv, NEW m \in Message, Post(m) \/ Responded(m)
  PROVE  IInv'
<1>1. CASE Post(m)
  BY <1>1, TryNextIInv
  DEF IInv, TypeOK, Post, ResultsMatchExchanges, RelayedByRequest
<1>2. CASE Responded(m) /\ Rejects(m) /\ TryNext(m)
  BY <1>2, TryNextIInv DEF IInv, Responded, Rejects, RelayedByRequest
<1>3. CASE Responded(m) /\ Resolves(m) /\ ~ (Rejects(m) /\ TryNext(m))
  BY <1>3
  DEF IInv, TypeOK, Exchange, Responded, Resolves, ResultsMatchExchanges,
      RelayedByRequest
<1> QED
  BY <1>1, <1>2, <1>3 DEF Responded

\* What servers and the network do to one request
LEMMA ExchangeIInv ==
  ASSUME IInv, NEW m \in Message,
         ServerRelays(m) \/ ServerRefuses(m) \/ ConnectionBreaks(m)
  PROVE  IInv'
<1> USE NoneAssumption DEF IInv, TypeOK, Exchange
<1>1. TypeOK'
  BY DEF ServerRelays, ServerRefuses, ConnectionBreaks
<1>2. ASSUME NEW n \in Message
      PROVE  ResultsMatchExchanges(n)' /\ RelayedByRequest(n)'
  BY DEF ServerRelays, ServerRefuses, ConnectionBreaks,
         ResultsMatchExchanges, RelayedByRequest
<1> QED
  BY <1>1, <1>2

\* Posts agree with their requests, and requests with what was relayed
THEOREM PostingInvariant == Spec => []IInv
<1>1. IInv /\ [Next]_vars => IInv'
  <2>1. ASSUME IInv, UNCHANGED vars PROVE IInv'
    BY <2>1 DEF vars, IInv, TypeOK, ResultsMatchExchanges, RelayedByRequest
  <2>2. ASSUME IInv, NEW s \in Server, RegistrationChanges(s) PROVE IInv'
    BY <2>2
    DEF RegistrationChanges, IInv, TypeOK, ResultsMatchExchanges,
        RelayedByRequest
  <2> QED
    BY <2>1, <2>2, PostIInv, ExchangeIInv DEF Next
<1> QED
  BY InitIInv, <1>1, PTL DEF Spec

\* A post that resolves was relayed by the server it was made to
THEOREM ResolvedIsRelayed == Spec => []ResolvedMeansRelayed
<1>1. IInv => ResolvedMeansRelayed
  BY DEF IInv, ResolvedMeansRelayed, ResultsMatchExchanges, RelayedByRequest
<1> QED
  BY <1>1, PostingInvariant, PTL

\* An UnreachableError says that every server was asked, and none relayed
THEOREM UnreachableIsNotRelayed == Spec => []UnreachableMeansNotRelayed
<1>1. IInv => UnreachableMeansNotRelayed
  BY DEF IInv, UnreachableMeansNotRelayed, ResultsMatchExchanges,
         RelayedByRequest
<1> QED
  BY <1>1, PostingInvariant, PTL

\* The retry of a post never has a second server relay the message
THEOREM NeverRelayedTwice == Spec => []RelayedOnce
<1>1. IInv => RelayedOnce
  <2> SUFFICES ASSUME IInv, NEW m \in Message
               PROVE  Cardinality(relayed[m]) <= 1
    BY DEF RelayedOnce
  <2>1. relayed[m] = {} \/ relayed[m] = {request[m]}
    BY DEF IInv, RelayedByRequest
  <2>2. Cardinality({}) = 0 /\ Cardinality({request[m]}) = 1
    BY FS_EmptySet, FS_Singleton
  <2> QED
    BY <2>1, <2>2
<1> QED
  BY <1>1, PostingInvariant, PTL
=============================================================================
