--------------------------- MODULE PeerConnection ---------------------------
(***************************************************************************)
(* One PeerConnection: the ICE candidates that go through it, while RTC    *)
(* and Channel take it from its session descriptions to close().           *)
(*                                                                         *)
(* Candidates reach it in both directions from callbacks that run between  *)
(* its awaits.  processRemoteIceCandidates is asynchronous and reentrant:  *)
(* each call is a run, and several may be suspended at their await.        *)
(***************************************************************************)
EXTENDS Naturals, Sequences, FiniteSets, SequencesExt

CONSTANTS
    Local,       \* candidates gathered here
    Remote,      \* candidates the other side may send
    Rejected,    \* those among them that addIceCandidate rejects
    Run,         \* calls of processRemoteIceCandidates that get to its await
    None

ASSUME CandidatesAssumption ==
    /\ Rejected \subseteq Remote
    /\ None \notin Run \cup Local

VARIABLES
    side,                     \* an opener's, or an answerer's
    phase,                    \* how far the descriptions are
    localIceCandidates,       \* gathered and not emitted yet
    storedIceCandidates,      \* seen before
    emittingIceCandidates,
    sending,                  \* Channel listens to iceCandidates
    emitted,                  \* what that listener was handed, in order
    remoteDescriptionSet,
    remoteIceCandidateCache,
    batch,                    \* per run, the candidates it passed on
    status,                   \* per run: unused, adding, done or rejected
    awaitedRun,               \* the run handleAnswer awaits
    received                  \* candidates handed to this object so far

localVars == <<localIceCandidates, storedIceCandidates, emittingIceCandidates,
               sending, emitted>>
runVars == <<remoteIceCandidateCache, batch, status>>
remoteVars == <<remoteDescriptionSet, runVars, awaitedRun, received>>
vars == <<side, phase, localVars, remoteVars>>

Phase == {"described", "applying", "processing", "answering", "ready", "failed",
          "closed"}

Passed == UNION {batch[r] : r \in Run}

\* described: the offer was created, or one was received
Init ==
    /\ side \in {"opener", "answerer"}
    /\ phase = "described"
    /\ localIceCandidates = <<>>
    /\ storedIceCandidates = {}
    /\ emittingIceCandidates = FALSE
    /\ sending = FALSE
    /\ emitted = <<>>
    /\ remoteDescriptionSet = FALSE
    /\ remoteIceCandidateCache = {}
    /\ batch = [r \in Run |-> {}]
    /\ status = [r \in Run |-> "unused"]
    /\ awaitedRun = None
    /\ received = {}

(***************************************************************************)
(* Remote candidates.                                                      *)
(***************************************************************************)

\* Mutant: candidates replace the ones that are cached
CacheLatest(candidates) == candidates

CacheWith(candidates) == remoteIceCandidateCache \cup candidates

\* processRemoteIceCandidates up to its await: the whole cache is added
Process(r, candidates, described) ==
    LET cache == CacheWith(candidates) IN
    /\ status[r] = "unused"
    /\ remoteIceCandidateCache' = cache
    /\ IF described
       THEN /\ batch' = [batch EXCEPT ![r] = cache]
            /\ status' = [status EXCEPT ![r] = "adding"]
       ELSE UNCHANGED <<batch, status>>

\* Mutant: a run with a candidate that is refused waits for ever
SettlesIfAdded(r) == status[r] = "adding" /\ batch[r] \cap Rejected = {}

Settles(r) == status[r] = "adding"

\* The await of a run ends.  If it resolves the cache is cleared, with what
\* came in during the await; if it rejects the cache stays
RunEnds(r) ==
    /\ Settles(r)
    /\ IF batch[r] \cap Rejected = {}
       THEN /\ status' = [status EXCEPT ![r] = "done"]
            /\ remoteIceCandidateCache' = {}
       ELSE /\ status' = [status EXCEPT ![r] = "rejected"]
            /\ UNCHANGED remoteIceCandidateCache
    /\ UNCHANGED <<side, phase, localVars, remoteDescriptionSet, batch,
                   awaitedRun, received>>

\* A candidates message, through the handler the Channel registered: an
\* opener's once the offer is posted, an answerer's after createAnswer
RemoteCandidates(r, candidates) ==
    /\ phase = "ready"
          \/ (side = "opener" /\ phase \in {"described", "applying", "processing"})
    /\ Process(r, candidates, remoteDescriptionSet)
    /\ received' = received \cup candidates
    /\ UNCHANGED <<side, phase, localVars, remoteDescriptionSet, awaitedRun>>

(***************************************************************************)
(* Session descriptions.                                                   *)
(***************************************************************************)

\* handleAnswer or createAnswer calls setRemoteDescription
ApplyDescription ==
    /\ phase = "described"
    /\ phase' = "applying"
    /\ UNCHANGED <<side, localVars, remoteVars>>

\* It resolves: process what is cached.  Only handleAnswer awaits that run
DescriptionApplied(r) ==
    /\ phase = "applying"
    /\ remoteDescriptionSet' = TRUE
    /\ Process(r, {}, TRUE)
    /\ IF side = "opener"
       THEN phase' = "processing" /\ awaitedRun' = r
       ELSE phase' = "answering" /\ UNCHANGED awaitedRun
    /\ UNCHANGED <<side, localVars, received>>

\* Mutant: handleAnswer does not await the run it started
HasBegun(r) == status[r] # "unused"

IsOver(r) == status[r] \in {"done", "rejected"}

\* handleAnswer ends as its run does, and openChannel closes if it rejects
AnswerHandled ==
    /\ phase = "processing"
    /\ IsOver(awaitedRun)
    /\ phase' = IF status[awaitedRun] = "rejected" THEN "failed" ELSE "ready"
    /\ UNCHANGED <<side, localVars, remoteVars>>

\* createAnswer resolves
AnswerCreated ==
    /\ phase = "answering"
    /\ phase' = "ready"
    /\ UNCHANGED <<side, localVars, remoteVars>>

\* setRemoteDescription rejects, or what follows it in createAnswer does
DescriptionFails ==
    /\ phase \in {"applying", "answering"}
    /\ phase' = "failed"
    /\ UNCHANGED <<side, localVars, remoteVars>>

(***************************************************************************)
(* Local candidates.                                                       *)
(***************************************************************************)

\* Mutant: the candidates emitted are kept
EmitKeeping(candidates, emitting, listening) ==
    /\ emitted' = IF emitting /\ listening THEN emitted \o candidates ELSE emitted
    /\ localIceCandidates' = candidates

\* Mutant: a null, or a candidate seen before, is gathered too
GatheredAnyway(c) == Append(localIceCandidates, c)

\* addLocalIceCandidate takes a null for no candidate
GatheredWith(c) ==
    IF c = None \/ c \in storedIceCandidates THEN localIceCandidates
    ELSE Append(localIceCandidates, c)

\* The end of addLocalIceCandidate: everything gathered since the last event
Emit(candidates, emitting, listening) ==
    /\ emitted' = IF emitting /\ listening THEN emitted \o candidates ELSE emitted
    /\ localIceCandidates' = IF emitting THEN <<>> ELSE candidates

\* onicecandidate, which may repeat a candidate
LocalCandidate(c) ==
    /\ phase \notin {"failed", "closed"}
    /\ storedIceCandidates' = storedIceCandidates \cup {c}
    /\ Emit(GatheredWith(c), emittingIceCandidates, sending)
    /\ UNCHANGED <<side, phase, emittingIceCandidates, sending, remoteVars>>

\* Channel.startSendingIceCandidates: listen, then emit what there is
StartSending ==
    /\ phase = "ready"
    /\ ~ emittingIceCandidates
    /\ sending' = TRUE
    /\ emittingIceCandidates' = TRUE
    /\ Emit(GatheredWith(None), TRUE, TRUE)
    /\ UNCHANGED <<side, phase, storedIceCandidates, remoteVars>>

\* Channel.stopSendingIceCandidates, when the data channel is open
StopSending ==
    /\ phase = "ready"
    /\ sending
    /\ sending' = FALSE
    /\ UNCHANGED <<side, phase, localIceCandidates, storedIceCandidates,
                   emittingIceCandidates, emitted, remoteVars>>

\* Channel.close: after a failure, or with the channel at any later time
Close ==
    /\ phase \in {"failed", "ready"}
    /\ phase' = "closed"
    /\ sending' = FALSE
    /\ localIceCandidates' = <<>>
    /\ storedIceCandidates' = {}
    /\ UNCHANGED <<side, emittingIceCandidates, emitted, remoteVars>>

Next ==
    \/ \E r \in Run, candidates \in SUBSET Remote \ {{}} :
          RemoteCandidates(r, candidates)
    \/ \E r \in Run : RunEnds(r) \/ DescriptionApplied(r)
    \/ \E c \in Local : LocalCandidate(c)
    \/ ApplyDescription \/ AnswerHandled \/ AnswerCreated \/ DescriptionFails
    \/ StartSending \/ StopSending \/ Close

Spec == Init /\ [][Next]_vars

\* addIceCandidate settles and handleAnswer goes on
FairSpec ==
    /\ Spec
    /\ \A r \in Run : WF_vars(RunEnds(r))
    /\ WF_vars(AnswerHandled)

-----------------------------------------------------------------------------
TypeOK ==
    /\ side \in {"opener", "answerer"}
    /\ phase \in Phase
    /\ localIceCandidates \in Seq(Local)
    /\ storedIceCandidates \subseteq Local
    /\ {emittingIceCandidates, sending, remoteDescriptionSet} \subseteq BOOLEAN
    /\ emitted \in Seq(Local)
    /\ remoteIceCandidateCache \subseteq Remote
    /\ batch \in [Run -> SUBSET Remote]
    /\ status \in [Run -> {"unused", "adding", "done", "rejected"}]
    /\ awaitedRun \in Run \cup {None}
    /\ received \subseteq Remote

(***************************************************************************)
(* The cache is emptied after an await during which it may have grown.     *)
(* No candidate is lost by that: each was passed to addIceCandidate, or    *)
(* waits in the cache for the description.                                 *)
(***************************************************************************)
RemoteCandidatesAreKept ==
    received \subseteq IF remoteDescriptionSet THEN Passed
                      ELSE remoteIceCandidateCache

(***************************************************************************)
(* openChannel does not go on while a candidate that came before the       *)
(* answer was applied is still being added, nor if one was refused.        *)
(***************************************************************************)
ReadyAfterEarlyCandidates ==
    phase = "ready" /\ side = "opener" =>
        status[awaitedRun] = "done" /\ batch[awaitedRun] \cap Rejected = {}

(***************************************************************************)
(* Between startSendingIceCandidates and stopSendingIceCandidates the      *)
(* other side has been sent every candidate gathered so far, once each.    *)
(***************************************************************************)
LocalCandidatesAreEmittedOnce ==
    /\ IsInjective(emitted)
    /\ sending => localIceCandidates = <<>> /\ ToSet(emitted) = storedIceCandidates

\* handleAnswer ends, even if other runs start while it waits for its own
AnswersAreHandled == phase = "processing" ~> phase \in {"ready", "failed"}
=============================================================================
