------------------------- MODULE PeerConnectionProofs -------------------------
(***************************************************************************)
(* No candidate is lost or repeated by a PeerConnection, in either         *)
(* direction, for any candidates and any runs that are suspended at once.  *)
(***************************************************************************)
EXTENDS PeerConnection, SequenceTheorems, TLAPS

\* Runs begin with the description, and those that are done had no refusal
RunsMatchDescription ==
    \A r \in Run :
        /\ status[r] = "unused" => batch[r] = {}
        /\ status[r] # "unused" => remoteDescriptionSet
        /\ status[r] = "done" => batch[r] \cap Rejected = {}

\* An opener awaits a run that began, and is ready when that one is done
OpenersAwaitTheirRun ==
    /\ phase = "answering" => side = "answerer"
    /\ phase = "processing" =>
          /\ side = "opener"
          /\ awaitedRun \in Run /\ status[awaitedRun] # "unused"
    /\ phase = "ready" /\ side = "opener" =>
          awaitedRun \in Run /\ status[awaitedRun] = "done"

(***************************************************************************)
(* Before startSendingIceCandidates everything gathered is kept for it,    *)
(* once; until stopSendingIceCandidates nothing is kept; and then nothing  *)
(* more is emitted.                                                        *)
(***************************************************************************)
GatheredOnce ==
    /\ IsInjective(emitted)
    /\ sending => /\ emittingIceCandidates
                  /\ localIceCandidates = <<>>
                  /\ ToSet(emitted) = storedIceCandidates
    /\ ~ emittingIceCandidates /\ phase # "closed" =>
          /\ emitted = <<>>
          /\ IsInjective(localIceCandidates)
          /\ ToSet(localIceCandidates) = storedIceCandidates

IInv ==
    /\ TypeOK
    /\ RemoteCandidatesAreKept
    /\ RunsMatchDescription
    /\ OpenersAwaitTheirRun
    /\ GatheredOnce

-----------------------------------------------------------------------------
\* A sequence without repetition, with one more element
LEMMA InjectiveAppend ==
  ASSUME NEW S, NEW s \in Seq(S), NEW e \in S
  PROVE  /\ Append(s, e) \in Seq(S)
         /\ Append(<<>>, e) = <<e>>
         /\ s \o <<e>> = Append(s, e)
         /\ ToSet(Append(s, e)) = ToSet(s) \cup {e}
         /\ IsInjective(s) /\ e \notin ToSet(s) => IsInjective(Append(s, e))
<1>1. /\ Append(s, e) \in Seq(S)
      /\ DOMAIN s = 1 .. Len(s) /\ Len(s) \in Nat
      /\ DOMAIN Append(s, e) = 1 .. (Len(s) + 1)
      /\ \A i \in 1 .. Len(s) : Append(s, e)[i] = s[i]
      /\ Append(s, e)[Len(s) + 1] = e
  BY AppendProperties, LenProperties
<1>2. 1 .. (Len(s) + 1) = 1 .. Len(s) \cup {Len(s) + 1}
  BY <1>1
<1>3. ToSet(Append(s, e)) = ToSet(s) \cup {e}
  BY <1>1, <1>2 DEF ToSet
<1>4. IsInjective(s) /\ e \notin ToSet(s) => IsInjective(Append(s, e))
  BY <1>1, <1>2 DEF ToSet, IsInjective
<1>5. s \o <<e>> = Append(s, e)
  BY AppendIsConcat
<1>6. Append(<<>>, e) = <<e>>
  OBVIOUS
<1> QED
  BY <1>1, <1>3, <1>4, <1>5, <1>6

\* Nothing is in the empty sequence
LEMMA EmptySequence ==
  /\ \A S : <<>> \in Seq(S)
  /\ ToSet(<<>>) = {} /\ IsInjective(<<>>)
  BY EmptySeq DEF ToSet, IsInjective

\* Concatenation with nothing
LEMMA ConcatWithEmpty ==
  ASSUME NEW S, NEW s \in Seq(S)
  PROVE  s \o <<>> = s /\ <<>> \o s = s
  BY ConcatEmptySeq

\* A new PeerConnection has seen no candidate
LEMMA InitIInv == Init => IInv
<1> SUFFICES ASSUME Init PROVE IInv
  OBVIOUS
<1>1. TypeOK
  BY EmptySequence DEF Init, TypeOK, Phase
<1>2. RemoteCandidatesAreKept /\ RunsMatchDescription /\ OpenersAwaitTheirRun
  BY DEF Init, RemoteCandidatesAreKept, RunsMatchDescription,
         OpenersAwaitTheirRun
<1>3. GatheredOnce
  BY EmptySequence DEF Init, GatheredOnce
<1> QED
  BY <1>1, <1>2, <1>3 DEF IInv

-----------------------------------------------------------------------------
(* Remote candidates and session descriptions: what is about local         *)
(* candidates stays as it is.                                              *)

\* Unless the PeerConnection is closed, the local half depends on localVars
LEMMA LocalHalfUnchanged ==
  ASSUME GatheredOnce, UNCHANGED localVars, phase = "closed" => phase' = "closed"
  PROVE  GatheredOnce'
  BY DEF GatheredOnce, localVars

\* A run takes the whole cache along, with what it was called with
LEMMA ProcessKeeps ==
  ASSUME TypeOK, RemoteCandidatesAreKept, RunsMatchDescription,
         NEW r \in Run, NEW candidates \in SUBSET Remote,
         Process(r, candidates, remoteDescriptionSet'),
         remoteDescriptionSet' \in BOOLEAN,
         remoteDescriptionSet => remoteDescriptionSet',
         received' = received \cup candidates
  PROVE  /\ RemoteCandidatesAreKept'
         /\ RunsMatchDescription'
         /\ remoteIceCandidateCache' \subseteq Remote
         /\ batch' \in [Run -> SUBSET Remote]
         /\ status' \in [Run -> {"unused", "adding", "done", "rejected"}]
         /\ \A q \in Run : status[q] # "unused" => status'[q] = status[q]
<1> DEFINE cache == remoteIceCandidateCache \cup candidates
<1>1. /\ status[r] = "unused" /\ batch[r] = {}
      /\ remoteIceCandidateCache' = cache
      /\ cache \subseteq Remote
  BY DEF Process, CacheWith, RunsMatchDescription, TypeOK
<1>2. CASE ~ remoteDescriptionSet'
  BY <1>1, <1>2
  DEF Process, TypeOK, RemoteCandidatesAreKept, RunsMatchDescription
<1>3. CASE remoteDescriptionSet'
  <2>1. /\ batch' = [batch EXCEPT ![r] = cache]
        /\ status' = [status EXCEPT ![r] = "adding"]
    BY <1>3 DEF Process, CacheWith
  <2>2. Passed' = Passed \cup cache
    BY <1>1, <2>1 DEF Passed, TypeOK
  <2>3. RemoteCandidatesAreKept'
    BY <1>3, <2>2 DEF RemoteCandidatesAreKept
  <2>4. RunsMatchDescription'
    BY <1>1, <1>3, <2>1 DEF RunsMatchDescription, TypeOK
  <2> QED
    BY <1>1, <2>1, <2>3, <2>4 DEF TypeOK
<1> QED
  BY <1>2, <1>3

\* A candidates message keeps the invariant
LEMMA RemoteCandidatesIInv ==
  ASSUME IInv, NEW r \in Run, NEW candidates \in SUBSET Remote,
         RemoteCandidates(r, candidates)
  PROVE  IInv'
<1>1. /\ remoteDescriptionSet' = remoteDescriptionSet
      /\ received' = received \cup candidates
      /\ Process(r, candidates, remoteDescriptionSet')
      /\ UNCHANGED <<side, phase, localVars, awaitedRun>>
  BY DEF RemoteCandidates
<1>2. /\ RemoteCandidatesAreKept' /\ RunsMatchDescription'
      /\ remoteIceCandidateCache' \subseteq Remote
      /\ batch' \in [Run -> SUBSET Remote]
      /\ status' \in [Run -> {"unused", "adding", "done", "rejected"}]
      /\ \A q \in Run : status[q] # "unused" => status'[q] = status[q]
  BY <1>1, ProcessKeeps DEF IInv, TypeOK
<1>3. TypeOK'
  BY <1>1, <1>2 DEF IInv, TypeOK, localVars
<1>4. OpenersAwaitTheirRun'
  BY <1>1, <1>2 DEF IInv, OpenersAwaitTheirRun
<1>5. GatheredOnce'
  BY <1>1, LocalHalfUnchanged DEF IInv
<1> QED
  BY <1>2, <1>3, <1>4, <1>5 DEF IInv

\* setRemoteDescription resolved: what came early is processed
LEMMA DescriptionAppliedIInv ==
  ASSUME IInv, NEW r \in Run, DescriptionApplied(r)
  PROVE  IInv'
<1>1. /\ phase = "applying" /\ remoteDescriptionSet' = TRUE
      /\ Process(r, {}, remoteDescriptionSet')
      /\ received' = received \cup {}
      /\ UNCHANGED <<side, localVars, received>>
      /\ phase' = IF side = "opener" THEN "processing" ELSE "answering"
      /\ awaitedRun' = IF side = "opener" THEN r ELSE awaitedRun
  BY DEF DescriptionApplied
<1>2. /\ RemoteCandidatesAreKept' /\ RunsMatchDescription'
      /\ remoteIceCandidateCache' \subseteq Remote
      /\ batch' \in [Run -> SUBSET Remote]
      /\ status' \in [Run -> {"unused", "adding", "done", "rejected"}]
  BY <1>1, ProcessKeeps DEF IInv, TypeOK
<1>3. status'[r] # "unused"
  BY <1>1 DEF Process, IInv, TypeOK
<1>4. TypeOK'
  BY <1>1, <1>2 DEF IInv, TypeOK, Phase, localVars
<1>5. OpenersAwaitTheirRun'
  BY <1>1, <1>3 DEF IInv, TypeOK, OpenersAwaitTheirRun
<1>6. GatheredOnce'
  BY <1>1, LocalHalfUnchanged DEF IInv
<1> QED
  BY <1>2, <1>4, <1>5, <1>6 DEF IInv

\* The cache is emptied only once everything received was passed on
LEMMA RunEndsIInv ==
  ASSUME IInv, NEW r \in Run, RunEnds(r)
  PROVE  IInv'
<1>1. /\ status[r] = "adding"
      /\ UNCHANGED <<side, phase, localVars, remoteDescriptionSet, batch,
                     awaitedRun, received>>
      /\ remoteIceCandidateCache' \in {{}, remoteIceCandidateCache}
      /\ \E s \in {"done", "rejected"} :
            /\ status' = [status EXCEPT ![r] = s]
            /\ s = "done" => batch[r] \cap Rejected = {}
  BY DEF RunEnds, Settles
<1>2. TypeOK'
  BY <1>1 DEF IInv, TypeOK, localVars
<1>3. remoteDescriptionSet
  BY <1>1 DEF IInv, RunsMatchDescription
<1>4. RemoteCandidatesAreKept'
  BY <1>1, <1>3 DEF IInv, RemoteCandidatesAreKept, Passed
<1>5. RunsMatchDescription'
  BY <1>1 DEF IInv, TypeOK, RunsMatchDescription
<1>6. OpenersAwaitTheirRun'
  BY <1>1 DEF IInv, TypeOK, OpenersAwaitTheirRun
<1>7. GatheredOnce'
  BY <1>1, LocalHalfUnchanged DEF IInv
<1> QED
  BY <1>2, <1>4, <1>5, <1>6, <1>7 DEF IInv

\* The other steps of the session descriptions change the phase only
LEMMA DescriptionsIInv ==
  ASSUME IInv,
         ApplyDescription \/ AnswerHandled \/ AnswerCreated \/ DescriptionFails
  PROVE  IInv'
<1>1. /\ UNCHANGED <<side, localVars, remoteVars>>
      /\ phase # "closed" /\ phase' \in Phase
  BY DEF ApplyDescription, AnswerHandled, AnswerCreated, DescriptionFails, Phase
<1>2. TypeOK'
  BY <1>1 DEF IInv, TypeOK, localVars, remoteVars, runVars
<1>3. RemoteCandidatesAreKept' /\ RunsMatchDescription'
  BY <1>1
  DEF IInv, RemoteCandidatesAreKept, RunsMatchDescription, Passed, remoteVars,
      runVars
<1>4. OpenersAwaitTheirRun'
  BY <1>1
  DEF IInv, OpenersAwaitTheirRun, ApplyDescription, AnswerHandled,
      AnswerCreated, DescriptionFails, IsOver, remoteVars, runVars
<1>5. GatheredOnce'
  BY <1>1, LocalHalfUnchanged DEF IInv
<1> QED
  BY <1>2, <1>3, <1>4, <1>5 DEF IInv

-----------------------------------------------------------------------------
(* Local candidates: what is about remote candidates stays as it is.       *)

\* The remote half depends on remoteVars, side and phase
LEMMA RemoteHalfUnchanged ==
  ASSUME RemoteCandidatesAreKept, RunsMatchDescription, OpenersAwaitTheirRun,
         UNCHANGED <<side, remoteVars>>, phase' \in {phase, "closed"}
  PROVE  RemoteCandidatesAreKept' /\ RunsMatchDescription' /\ OpenersAwaitTheirRun'
  BY DEF RemoteCandidatesAreKept, RunsMatchDescription, OpenersAwaitTheirRun,
         Passed, remoteVars, runVars

\* A gathered candidate is kept, or emitted, unless it was seen before
LEMMA LocalCandidateIInv ==
  ASSUME IInv, NEW c \in Local, LocalCandidate(c)
  PROVE  IInv'
<1> DEFINE gathered == GatheredWith(c)
<1> DEFINE listened == emittingIceCandidates /\ sending
<1>1. /\ phase # "closed"
      /\ storedIceCandidates' = storedIceCandidates \cup {c}
      /\ listened => emitted' = emitted \o gathered
      /\ ~ listened => emitted' = emitted
      /\ emittingIceCandidates => localIceCandidates' = <<>>
      /\ ~ emittingIceCandidates => localIceCandidates' = gathered
      /\ UNCHANGED <<side, phase, remoteVars>>
      /\ emittingIceCandidates' = emittingIceCandidates /\ sending' = sending
  BY DEF LocalCandidate, Emit
<1>2. /\ localIceCandidates \in Seq(Local) /\ emitted \in Seq(Local)
      /\ <<>> \in Seq(Local) /\ c # None
      /\ storedIceCandidates \subseteq Local
  BY EmptySequence, CandidatesAssumption DEF IInv, TypeOK
<1>3. gathered = IF c \in storedIceCandidates THEN localIceCandidates
                 ELSE Append(localIceCandidates, c)
  BY <1>2 DEF GatheredWith
<1> HIDE DEF gathered
<1>4. gathered \in Seq(Local)
  BY <1>2, <1>3, InjectiveAppend
<1>5. TypeOK'
  <2>1. emitted' \in Seq(Local) /\ localIceCandidates' \in Seq(Local)
    BY <1>1, <1>2, <1>4, ConcatProperties
  <2> QED
    BY <1>1, <2>1 DEF IInv, TypeOK, remoteVars, runVars
<1>6. GatheredOnce'
  <2>1. CASE ~ emittingIceCandidates
    <3>1. /\ IsInjective(emitted) /\ IsInjective(localIceCandidates)
          /\ emitted = <<>>
          /\ ToSet(localIceCandidates) = storedIceCandidates
      BY <1>1, <2>1 DEF IInv, GatheredOnce
    <3>2. IsInjective(gathered) /\ ToSet(gathered) = storedIceCandidates \cup {c}
      BY <1>2, <1>3, <3>1, InjectiveAppend
    <3>3. ~ sending /\ emitted' = emitted /\ localIceCandidates' = gathered
      BY <1>1, <2>1 DEF IInv, GatheredOnce
    <3> QED
      BY <1>1, <2>1, <3>1, <3>2, <3>3 DEF GatheredOnce
  <2>2. CASE emittingIceCandidates /\ sending
    <3>1. /\ localIceCandidates = <<>> /\ IsInjective(emitted)
          /\ ToSet(emitted) = storedIceCandidates
      BY <2>2 DEF IInv, GatheredOnce
    <3>2. emitted' = IF c \in storedIceCandidates THEN emitted
                     ELSE Append(emitted, c)
      BY <1>1, <1>2, <1>3, <2>2, <3>1, InjectiveAppend, ConcatWithEmpty
    <3>3. IsInjective(emitted') /\ ToSet(emitted') = storedIceCandidates \cup {c}
      BY <1>2, <3>1, <3>2, InjectiveAppend
    <3>4. localIceCandidates' = <<>>
      BY <1>1, <2>2
    <3> QED
      BY <1>1, <2>2, <3>3, <3>4 DEF GatheredOnce
  <2>3. CASE emittingIceCandidates /\ ~ sending
    <3>1. emitted' = emitted /\ IsInjective(emitted)
      BY <1>1, <2>3 DEF IInv, GatheredOnce
    <3> QED
      BY <1>1, <2>3, <3>1 DEF GatheredOnce
  <2> QED
    BY <2>1, <2>2, <2>3
<1> QED
  BY <1>1, <1>5, <1>6, RemoteHalfUnchanged DEF IInv

\* The listener is handed all that was gathered before
LEMMA StartSendingIInv ==
  ASSUME IInv, StartSending
  PROVE  IInv'
<1>1. /\ phase = "ready" /\ ~ emittingIceCandidates
      /\ sending' = TRUE /\ emittingIceCandidates' = TRUE
      /\ emitted' = emitted \o localIceCandidates
      /\ localIceCandidates' = <<>>
      /\ UNCHANGED <<side, phase, storedIceCandidates, remoteVars>>
  BY DEF StartSending, Emit, GatheredWith
<1>2. /\ localIceCandidates \in Seq(Local) /\ emitted = <<>>
      /\ IsInjective(localIceCandidates)
      /\ ToSet(localIceCandidates) = storedIceCandidates
  BY <1>1 DEF IInv, TypeOK, GatheredOnce
<1>3. emitted' = localIceCandidates
  BY <1>1, <1>2, ConcatWithEmpty
<1>4. TypeOK'
  BY <1>1, <1>2, <1>3, EmptySequence DEF IInv, TypeOK, remoteVars, runVars
<1>5. GatheredOnce'
  BY <1>1, <1>2, <1>3 DEF GatheredOnce
<1> QED
  BY <1>1, <1>4, <1>5, RemoteHalfUnchanged DEF IInv

\* Without a listener nothing more is emitted
LEMMA StopSendingIInv ==
  ASSUME IInv, StopSending \/ Close
  PROVE  IInv'
<1>1. /\ phase' \in {phase, "closed"}
      /\ phase' = "closed" \/ emittingIceCandidates
      /\ sending' = FALSE
      /\ localIceCandidates' \in {<<>>, localIceCandidates}
      /\ storedIceCandidates' \in {{}, storedIceCandidates}
      /\ UNCHANGED <<side, emittingIceCandidates, emitted, remoteVars>>
  BY DEF StopSending, Close, IInv, GatheredOnce
<1>2. TypeOK'
  BY <1>1, EmptySequence DEF IInv, TypeOK, Phase, remoteVars, runVars
<1>3. GatheredOnce'
  BY <1>1 DEF IInv, GatheredOnce
<1> QED
  BY <1>1, <1>2, <1>3, RemoteHalfUnchanged DEF IInv

-----------------------------------------------------------------------------
\* The invariant, over all interleavings of candidates with descriptions
THEOREM PeerConnectionInvariant == Spec => []IInv
<1>1. IInv /\ [Next]_vars => IInv'
  <2>1. ASSUME IInv, UNCHANGED vars PROVE IInv'
    <3>1. UNCHANGED <<side, phase, localVars, remoteVars>>
      BY <2>1 DEF vars
    <3>2. TypeOK'
      BY <2>1, <3>1 DEF IInv, TypeOK, localVars, remoteVars, runVars
    <3> QED
      BY <2>1, <3>1, <3>2, LocalHalfUnchanged, RemoteHalfUnchanged DEF IInv
  <2> QED
    BY <2>1, RemoteCandidatesIInv, RunEndsIInv, DescriptionAppliedIInv,
       LocalCandidateIInv, DescriptionsIInv, StartSendingIInv, StopSendingIInv
    DEF Next
<1> QED
  BY InitIInv, <1>1, PTL DEF Spec

\* Every variable keeps its type
THEOREM PeerConnectionTypes == Spec => []TypeOK
<1>1. IInv => TypeOK
  BY DEF IInv
<1> QED
  BY <1>1, PeerConnectionInvariant, PTL

\* What processRemoteIceCandidates clears it has passed on
THEOREM RemoteCandidatesStay == Spec => []RemoteCandidatesAreKept
<1>1. IInv => RemoteCandidatesAreKept
  BY DEF IInv
<1> QED
  BY <1>1, PeerConnectionInvariant, PTL

\* An opener that is ready has had all early candidates added
THEOREM EarlyCandidatesAreAdded == Spec => []ReadyAfterEarlyCandidates
<1>1. IInv => ReadyAfterEarlyCandidates
  BY DEF IInv, ReadyAfterEarlyCandidates, OpenersAwaitTheirRun,
         RunsMatchDescription
<1> QED
  BY <1>1, PeerConnectionInvariant, PTL

\* The listener is handed each gathered candidate once
THEOREM EmittedOnce == Spec => []LocalCandidatesAreEmittedOnce
<1>1. IInv => LocalCandidatesAreEmittedOnce
  BY DEF IInv, GatheredOnce, LocalCandidatesAreEmittedOnce
<1> QED
  BY <1>1, PeerConnectionInvariant, PTL
=============================================================================
