------------------------- MODULE PointerIssuingProofs -------------------------
(***************************************************************************)
(* The sequence numbers of a node's pointers grow, for any number of       *)
(* pages, pointers, reloads, crashes and storage failures.                 *)
(***************************************************************************)
EXTENDS PointerIssuing, SequenceTheorems, TLAPS

\* Ids are named after pages that were there: a new page's name is unused
IdsAreOfPages ==
    /\ localId # None => localId <= page
    /\ storedId # None => storedId <= page
    /\ \A i \in DOMAIN issued : issued[i].id <= page

\* The counter is only used once there is an id
CountersHaveIds == pointerCounter # 0 => localId # None

IInv ==
    /\ TypeOK
    /\ OneIdentity
    /\ NextNumberIsAbove
    /\ SequenceNumbersGrow
    /\ IdsAreOfPages
    /\ CountersHaveIds

-----------------------------------------------------------------------------
\* What the pointers are after one more was issued
LEMMA IssuedAppend ==
  ASSUME NEW S, NEW s \in Seq(S), NEW e \in S
  PROVE  /\ Append(s, e) \in Seq(S)
         /\ DOMAIN s = 1 .. Len(s) /\ Len(s) \in Nat
         /\ DOMAIN Append(s, e) = 1 .. (Len(s) + 1)
         /\ \A i \in 1 .. Len(s) : Append(s, e)[i] = s[i]
         /\ Append(s, e)[Len(s) + 1] = e
  BY AppendProperties, LenProperties

\* What a pointer holds
LEMMA PointersAreTyped ==
  ASSUME TypeOK
  PROVE  \A i \in DOMAIN issued :
            /\ issued[i].id \in Id /\ issued[i].id # None
            /\ issued[i].seq \in Nat
<1>1. issued \in Seq([id : Id, seq : Nat])
  BY DEF TypeOK
<1>2. \A i \in DOMAIN issued : issued[i] \in [id : Id, seq : Nat]
  BY <1>1, LenProperties
<1> QED
  BY <1>2, IssuingAssumption DEF Id

\* Without pages, ids and pointers the invariant holds
LEMMA InitIInv == Init => IInv
  BY IssuingAssumption, EmptySeq
  DEF Init, IInv, TypeOK, Id, OneIdentity, NextNumberIsAbove,
      SequenceNumbersGrow, IdsAreOfPages, CountersHaveIds, StoredNumber

\* The id that is used is the stored one, or one that no pointer has
LEMMA LocalIdProperties ==
  ASSUME IInv
  PROVE  /\ LocalId \in Id /\ LocalId <= page
         /\ storedId # None => LocalId = storedId
         /\ \A i \in DOMAIN issued :
               issued[i].id = LocalId => issued[i].seq < Counter
         /\ Counter \in Nat
  BY IssuingAssumption
  DEF IInv, TypeOK, Id, OneIdentity, NextNumberIsAbove, IdsAreOfPages,
      CountersHaveIds, LocalId, Counter

\* Identify takes the id it would take again, and stores it if it is new
LEMMA IdentifyProperties ==
  ASSUME IInv,
         Identify \/ (IdIsNew /\ localId' = LocalId /\ storedId' = storedId),
         page' = page
  PROVE  /\ localId' = LocalId /\ localId' \in Id
         /\ storedId' \in Id \cup {None}
         /\ storedId' # None => storedId' = localId'
         /\ storedId' # None /\ storedId = None => 
               \A i \in DOMAIN issued : issued[i].id # storedId'
         /\ \A i \in DOMAIN issued : issued[i].id = page => localId' = page
<1> USE IssuingAssumption DEF IInv, TypeOK, Id
<1>1. CASE IdIsNew
  BY <1>1, LocalIdProperties
  DEF IdIsNew, Identify, LocalId, NextNumberIsAbove, OneIdentity
<1>2. CASE ~ IdIsNew
  BY <1>2, LocalIdProperties
  DEF IdIsNew, Identify, LocalId, NextNumberIsAbove, OneIdentity, IdsAreOfPages
<1> QED
  BY <1>1, <1>2

\* getLocalId keeps the invariant, whether or not its id is stored
LEMMA GetLocalIdIInv ==
  ASSUME IInv, GetLocalId \/ StoringIdFails
  PROVE  IInv'
<1>1. /\ Identify \/ (IdIsNew /\ localId' = LocalId /\ storedId' = storedId)
      /\ UNCHANGED <<page, pointerCounter, storedSequence, issued>>
      /\ Counter' = Counter
      /\ storedId' # None /\ storedId # None => storedId' = storedId
  BY DEF GetLocalId, StoringIdFails, Identify, IdIsNew, Counter, storage
<1> USE <1>1, IdentifyProperties, LocalIdProperties, IssuingAssumption
        DEF IInv, TypeOK, Id
<1>2. TypeOK' /\ OneIdentity' /\ SequenceNumbersGrow'
  BY DEF OneIdentity, SequenceNumbersGrow
<1>3. NextNumberIsAbove'
  <2> SUFFICES ASSUME NEW i \in DOMAIN issued
               PROVE  /\ issued[i].id = localId' => issued[i].seq < Counter
                      /\ issued[i].id = storedId' =>
                            storedSequence # None /\ issued[i].seq < storedSequence
                      /\ issued[i].id = page => localId' = page
    BY DEF NextNumberIsAbove
  <2>1. issued[i].id # None /\ (issued[i].id = storedId' => storedId # None)
    BY PointersAreTyped
  <2> QED
    BY <2>1 DEF NextNumberIsAbove
<1>4. IdsAreOfPages' /\ CountersHaveIds'
  BY DEF IdsAreOfPages, CountersHaveIds
<1> QED
  BY <1>2, <1>3, <1>4 DEF IInv

\* A pointer's number is above the earlier ones of its id, and the next one's
\* is above it
LEMMA CreateNewPointerIInv ==
  ASSUME IInv, CreateNewPointer
  PROVE  IInv'
<1> DEFINE pointer == [id |-> LocalId, seq |-> Counter]
<1>1. /\ Identify
      /\ UNCHANGED page
      /\ pointerCounter' = Counter + 1
      /\ storedSequence' = Counter + 1
      /\ issued' = Append(issued, pointer)
  BY DEF CreateNewPointer, StoredNumber
<1>2. Counter \in Nat /\ LocalId \in Id
  BY LocalIdProperties
<1>3. Counter' = Counter + 1
  BY <1>1, <1>2 DEF Counter
<1>4. issued \in Seq([id : Id, seq : Nat]) /\ pointer \in [id : Id, seq : Nat]
  BY <1>2 DEF IInv, TypeOK
<1>5. /\ issued' \in Seq([id : Id, seq : Nat])
      /\ DOMAIN issued = 1 .. Len(issued) /\ Len(issued) \in Nat
      /\ DOMAIN issued' = 1 .. (Len(issued) + 1)
      /\ \A i \in 1 .. Len(issued) : issued'[i] = issued[i]
      /\ issued'[Len(issued) + 1] = pointer
  BY <1>1, <1>4, IssuedAppend
<1>6. /\ localId' = LocalId
      /\ storedId' # None => storedId' = LocalId
      /\ storedId' \in Id \cup {None}
      /\ \A i \in DOMAIN issued : issued[i].id = page => localId' = page
  BY <1>1, IdentifyProperties
<1>7. /\ LocalId <= page
      /\ \A i \in DOMAIN issued :
            issued[i].id = LocalId => issued[i].seq < Counter
      /\ \A i \in DOMAIN issued : issued[i] \in [id : Id, seq : Nat]
  BY <1>4, LocalIdProperties, LenProperties
<1>8. LocalId # None
  BY <1>2, IssuingAssumption DEF Id
<1>9. TypeOK' /\ OneIdentity' /\ CountersHaveIds'
  BY <1>1, <1>2, <1>5, <1>6, <1>8
  DEF IInv, TypeOK, OneIdentity, CountersHaveIds, Id
<1>10. \A i \in DOMAIN issued' :
          /\ issued'[i].id <= page
          /\ issued'[i].id = LocalId => issued'[i].seq < Counter + 1
          /\ issued'[i].id = page => LocalId = page
  <2>1. ASSUME NEW i \in 1 .. Len(issued)
        PROVE  /\ issued'[i].id <= page
               /\ issued'[i].id = LocalId => issued'[i].seq < Counter + 1
               /\ issued'[i].id = page => LocalId = page
    BY <1>2, <1>5, <1>6, <1>7 DEF IInv, IdsAreOfPages
  <2>2. pointer.id = LocalId /\ pointer.seq = Counter
    OBVIOUS
  <2> QED
    BY <2>1, <2>2, <1>2, <1>5, <1>7
<1>11. NextNumberIsAbove'
  <2> SUFFICES ASSUME NEW i \in DOMAIN issued'
               PROVE  /\ issued'[i].id = localId' => issued'[i].seq < Counter'
                      /\ issued'[i].id = storedId' =>
                            /\ storedSequence' # None
                            /\ issued'[i].seq < storedSequence'
                      /\ issued'[i].id = page' => localId' = page'
    BY DEF NextNumberIsAbove
  <2>1. storedSequence' # None
    BY <1>1, <1>2, IssuingAssumption
  <2>2. issued'[i].id # None
    BY <1>5, <1>8, PointersAreTyped DEF IInv
  <2>3. /\ issued'[i].id = LocalId => issued'[i].seq < Counter + 1
        /\ issued'[i].id = page => LocalId = page
    BY <1>10
  <2>4. issued'[i].id = storedId' => issued'[i].id = LocalId
    BY <1>6, <2>2
  <2> QED
    BY <1>1, <1>3, <1>6, <2>1, <2>3, <2>4
<1>12. IdsAreOfPages'
  BY <1>1, <1>6, <1>7, <1>10 DEF IdsAreOfPages
<1>13. SequenceNumbersGrow'
  <2> SUFFICES ASSUME NEW i \in DOMAIN issued', NEW j \in DOMAIN issued',
                      i < j, issued'[i].id = issued'[j].id
               PROVE  issued'[i].seq < issued'[j].seq
    BY DEF SequenceNumbersGrow
  <2>1. i \in 1 .. Len(issued) /\ issued'[i] = issued[i]
    BY <1>5
  <2>2. CASE j \in 1 .. Len(issued)
    BY <2>1, <2>2, <1>5 DEF IInv, SequenceNumbersGrow
  <2>3. CASE j = Len(issued) + 1
    BY <2>1, <2>3, <1>5, <1>7
  <2> QED
    BY <2>2, <2>3, <1>5
<1> QED
  BY <1>9, <1>11, <1>12, <1>13 DEF IInv

\* A number that was not stored was not issued either
LEMMA StoringSequenceIInv ==
  ASSUME IInv, StoringSequenceFails
  PROVE  IInv'
<1>1. /\ Identify
      /\ UNCHANGED <<page, storedSequence, issued>>
      /\ pointerCounter' = Counter + 1
  BY DEF StoringSequenceFails
<1>2. Counter \in Nat /\ LocalId \in Id
  BY LocalIdProperties
<1>3. Counter' = Counter + 1
  BY <1>1, <1>2 DEF Counter
<1>4. LocalId # None
  BY <1>2, IssuingAssumption DEF Id
<1>5. storedId # None => storedId' = storedId
  BY <1>1 DEF Identify, IdIsNew
<1> USE <1>1, <1>2, IdentifyProperties, LocalIdProperties DEF IInv, TypeOK
<1>6. TypeOK' /\ OneIdentity' /\ SequenceNumbersGrow' /\ CountersHaveIds'
  BY <1>4 DEF OneIdentity, SequenceNumbersGrow, CountersHaveIds, Id
<1>7. \A i \in DOMAIN issued : issued[i].id # None /\ issued[i].seq \in Nat
  BY PointersAreTyped
<1>8. NextNumberIsAbove'
  BY <1>3, <1>5, <1>7 DEF NextNumberIsAbove
<1>9. IdsAreOfPages'
  BY <1>4 DEF IdsAreOfPages
<1> QED
  BY <1>6, <1>8, <1>9 DEF IInv

\* A new page starts from the storage, or from nothing, under a new name
LEMMA NewPageIInv ==
  ASSUME IInv, KeepingStorage \/ LosingStorage
  PROVE  IInv'
<1>1. /\ page < MaxPages /\ page' = page + 1
      /\ localId' = None /\ pointerCounter' = 0
      /\ issued' = issued
      /\ \/ storedId' = storedId /\ storedSequence' = storedSequence
         \/ storedId' = None /\ storedSequence' = None
  BY DEF KeepingStorage, LosingStorage, NewPage, storage
<1> USE <1>1, IssuingAssumption DEF IInv, TypeOK, Id
<1>2. \A i \in DOMAIN issued : issued[i].id \in Id /\ issued[i].id # None
  BY PointersAreTyped
<1>3. TypeOK' /\ OneIdentity' /\ SequenceNumbersGrow' /\ CountersHaveIds'
  BY DEF OneIdentity, SequenceNumbersGrow, CountersHaveIds
<1>4. IdsAreOfPages'
  BY <1>2 DEF IdsAreOfPages
<1>5. NextNumberIsAbove'
  BY <1>2 DEF NextNumberIsAbove, IdsAreOfPages
<1> QED
  BY <1>3, <1>4, <1>5 DEF IInv

\* The invariant, on every page and over every failure of the storage
THEOREM IssuingInvariant == Spec => []IInv
<1>1. IInv /\ [Next]_vars => IInv'
  <2>1. ASSUME IInv, UNCHANGED vars PROVE IInv'
    BY <2>1
    DEF vars, memory, storage, IInv, TypeOK, OneIdentity, NextNumberIsAbove,
        SequenceNumbersGrow, IdsAreOfPages, CountersHaveIds, Counter
  <2> QED
    BY <2>1, GetLocalIdIInv, CreateNewPointerIInv, StoringSequenceIInv,
       NewPageIInv DEF Next
<1> QED
  BY InitIInv, <1>1, PTL DEF Spec

\* Of two pointers of a node the later one has the greater sequence number
THEOREM NumbersGrow == Spec => []SequenceNumbersGrow
<1>1. IInv => SequenceNumbersGrow
  BY DEF IInv
<1> QED
  BY <1>1, IssuingInvariant, PTL

\* A page never goes by another id than the one that is stored
THEOREM IdentityIsOne == Spec => []OneIdentity
<1>1. IInv => OneIdentity
  BY DEF IInv
<1> QED
  BY <1>1, IssuingInvariant, PTL

\* The next number, of this page or a later one, is above all of its id
THEOREM NextNumbersAreAbove == Spec => []NextNumberIsAbove
<1>1. IInv => NextNumberIsAbove
  BY DEF IInv
<1> QED
  BY <1>1, IssuingInvariant, PTL
=============================================================================
