---------------------------- MODULE PointerIssuing ----------------------------
(***************************************************************************)
(* The node pointers a client makes over the life of its storage:          *)
(* createNewPointer, getNextPointerSequenceNumber and getLocalId of        *)
(* SocketIOSignallingService.  Pages come and go (a reload, a crash), the  *)
(* storage outlives them unless it is cleared, and setItem may throw.      *)
(* Each call is synchronous, so a page ends between calls only.            *)
(***************************************************************************)
EXTENDS Naturals, Sequences

CONSTANTS
    MaxPages, \* bound on the pages that ever run the client
    MaxSeq,   \* bound on the sequence numbers
    None

ASSUME IssuingAssumption ==
    /\ MaxPages \in Nat
    /\ MaxSeq \in Nat
    /\ None \notin Nat

VARIABLES
    page,           \* the number of this page; ids are named after pages
    localId,        \* in memory, None before getLocalId was called
    pointerCounter, \* in memory
    storedId,       \* RTC_LOCAL_ID_STORAGE_KEY
    storedSequence, \* POINTER_SEQUENCE_STORAGE_KEY
    issued          \* the pointers that were returned, in this order

memory == <<localId, pointerCounter>>
storage == <<storedId, storedSequence>>
vars == <<page, memory, storage, issued>>

Init ==
    /\ page = 0
    /\ localId = None
    /\ pointerCounter = 0
    /\ storedId = None
    /\ storedSequence = None
    /\ issued = <<>>

\* Mutant: an id of its own for every page
LocalIdOfPage ==
    IF localId = None THEN page ELSE localId

\* The id getLocalId uses: in memory, from storage, or a new GUID
LocalId ==
    IF localId # None THEN localId
    ELSE IF storedId # None THEN storedId ELSE page

\* Mutant: the stored number is not read
CounterOfMemory == pointerCounter

\* pointerCounter after it was restored
Counter ==
    IF pointerCounter = 0 /\ storedSequence # None THEN storedSequence
    ELSE pointerCounter

\* Mutant: store the number that is returned
StoredNumberUsed == Counter

\* this.pointerCounter.toString(), after the increment
StoredNumber == Counter + 1

IdIsNew == localId = None /\ storedId = None

\* Memory comes first, then setItem, which only a new id needs
Identify ==
    /\ localId' = LocalId
    /\ storedId' = IF IdIsNew THEN LocalId ELSE storedId

GetLocalId ==
    /\ Identify
    /\ UNCHANGED <<page, pointerCounter, storedSequence, issued>>

\* setItem throws in getLocalId, called by the application or for a pointer
StoringIdFails ==
    /\ IdIsNew
    /\ localId' = LocalId
    /\ UNCHANGED <<page, pointerCounter, storage, issued>>

\* A metadata provider that throws is caught and leaves no trace here
CreateNewPointer ==
    /\ Counter < MaxSeq
    /\ Identify
    /\ pointerCounter' = Counter + 1
    /\ storedSequence' = StoredNumber
    /\ issued' = Append(issued, [id |-> LocalId, seq |-> Counter])
    /\ UNCHANGED page

\* setItem throws in getNextPointerSequenceNumber: there is no pointer
StoringSequenceFails ==
    /\ Counter < MaxSeq
    /\ Identify
    /\ pointerCounter' = Counter + 1
    /\ UNCHANGED <<page, storedSequence, issued>>

\* The page goes away, by a reload or a crash, and another one starts
NewPage ==
    /\ page < MaxPages
    /\ page' = page + 1
    /\ localId' = None
    /\ pointerCounter' = 0
    /\ UNCHANGED issued

KeepingStorage == NewPage /\ UNCHANGED storage

\* The storage was in memory, as it is by default, or the user cleared it
LosingStorage ==
    /\ NewPage
    /\ storedId' = None
    /\ storedSequence' = None

Next ==
    \/ GetLocalId
    \/ StoringIdFails
    \/ CreateNewPointer
    \/ StoringSequenceFails
    \/ KeepingStorage
    \/ LosingStorage

Spec == Init /\ [][Next]_vars

-----------------------------------------------------------------------------
Id == 0 .. MaxPages

TypeOK ==
    /\ page \in Id
    /\ localId \in Id \cup {None}
    /\ pointerCounter \in Nat
    /\ storedId \in Id \cup {None}
    /\ storedSequence \in Nat \cup {None}
    /\ issued \in Seq([id : Id, seq : Nat])

(***************************************************************************)
(* A later pointer to a node replaces the earlier ones because its seq is  *)
(* greater: of two pointers with one id the later has the greater number,  *)
(* over crashes, lost storage and a setItem that throws at either place.   *)
(***************************************************************************)
SequenceNumbersGrow ==
    \A i, j \in DOMAIN issued :
        (i < j /\ issued[i].id = issued[j].id) => issued[i].seq < issued[j].seq

(***************************************************************************)
(* A client has one identity: once an id is stored, every page with this   *)
(* storage uses it, and a page never stores another id than it uses.       *)
(***************************************************************************)
OneIdentity ==
    (localId # None /\ storedId # None) => localId = storedId

(***************************************************************************)
(* What makes the numbers grow: the number that comes next, on this page   *)
(* or on one that starts from this storage, is above those issued with its *)
(* id.  A page that has no id yet makes one nobody used.                   *)
(***************************************************************************)
NextNumberIsAbove ==
    \A i \in DOMAIN issued :
        /\ issued[i].id = localId => issued[i].seq < Counter
        /\ issued[i].id = storedId =>
              storedSequence # None /\ issued[i].seq < storedSequence
        /\ issued[i].id = page => localId = page
=============================================================================
