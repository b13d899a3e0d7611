------------------- MODULE RedundantSignallingSocketProofs -------------------
(***************************************************************************)
(* Theorems about RedundantSignallingSocket and its selector, for every    *)
(* finite set of servers, every set of servers for which no socket can be  *)
(* created and every preferred number of sockets.                          *)
(***************************************************************************)
EXTENDS RedundantSignallingSocket, FiniteSetTheorems, TLAPS

\* Until a connect or a storage has done something, the page is as loaded
FirstLoadIsClean ==
    ~ started /\ ~ storageThrew =>
        /\ OpenSockets = {}
        /\ lastDisconnectTimes = [s \in Server |-> 0]
        /\ recent = {}
        /\ ~ intervalId

\* What is stored was connected to, so it can be connected to again
StoredServersFit ==
    /\ lastConnectedServers \cap BadServers = {}
    /\ OpenSockets \cap BadServers = {}
    /\ Cardinality(lastConnectedServers) <= preferred

\* As long as the checks run nothing but the open sockets is stored
CheckedStoreIsExact ==
    started /\ ~ storageThrew /\ intervalId => lastConnectedServers = OpenSockets

IInv ==
    /\ TypeOK
    /\ SocketsWithinPreferred
    /\ MonitoredByOneInterval
    /\ StoredServersAreOpen
    /\ FirstLoadIsClean
    /\ StoredServersFit
    /\ CheckedStoreIsExact

-----------------------------------------------------------------------------
\* Every set of servers is finite, and the preferred number is one of sockets
LEMMA ServersAreFinite ==
  ASSUME NEW S \in SUBSET Server
  PROVE  /\ IsFiniteSet(S)
         /\ Cardinality(S) \in Nat
         /\ Cardinality(S) <= Cardinality(Server)
         /\ Cardinality(Server) \in Nat
         /\ PreferredNumbers \subseteq Nat
<1>1. IsFiniteSet(S) /\ Cardinality(S) <= Cardinality(Server)
  BY ServersAssumption, FS_Subset
<1>2. Cardinality(S) \in Nat /\ Cardinality(Server) \in Nat
  BY <1>1, ServersAssumption, FS_CardinalityType
<1> QED
  BY <1>1, <1>2, PreferredAssumption

\* Two sets of servers without a common one
LEMMA DisjointCardinality ==
  ASSUME NEW S \in SUBSET Server, NEW T \in SUBSET Server, S \cap T = {}
  PROVE  Cardinality(S \cup T) = Cardinality(S) + Cardinality(T)
<1>1. /\ IsFiniteSet(S) /\ Cardinality(S) \in Nat
      /\ IsFiniteSet(T) /\ Cardinality(T) \in Nat
  BY ServersAreFinite
<1>2. Cardinality(S \cup T)
        = Cardinality(S) + Cardinality(T) - Cardinality(S \cap T)
  BY <1>1, FS_Union
<1>3. Cardinality(S \cap T) = 0
  BY FS_EmptySet
<1> QED
  BY <1>1, <1>2, <1>3

\* flagDisconnection records a time for the server, and forgets none
LEMMA FlaggedIsTimes ==
  ASSUME SelectorTypeOK, NEW s \in Server
  PROVE  /\ Flagged(s) \in [Server -> 0..Cardinality(Server)]
         /\ \A t \in Disconnected \cup {s} : Flagged(s)[t] # 0
<1> DEFINE count == Cardinality(Disconnected \cup {s})
<1>1. count \in 1..Cardinality(Server) /\ Cardinality(Server) \in Nat
  <2>1. Disconnected \cup {s} \in SUBSET Server
    BY DEF Disconnected
  <2>2. /\ IsFiniteSet(Disconnected \cup {s})
        /\ count \in Nat /\ count <= Cardinality(Server)
        /\ Cardinality(Server) \in Nat
    BY <2>1, ServersAreFinite
  <2>3. count # 0
    BY <2>2, FS_EmptySet
  <2> QED
    BY <2>2, <2>3
<1> HIDE DEF count
<1>2. lastDisconnectTimes \in [Server -> 0..Cardinality(Server)]
  BY DEF SelectorTypeOK
<1>3. Flagged(s) = [t \in Server |->
         IF t = s THEN count
         ELSE IF s \in Disconnected
                 /\ lastDisconnectTimes[t] > lastDisconnectTimes[s]
              THEN lastDisconnectTimes[t] - 1 ELSE lastDisconnectTimes[t]]
  BY DEF Flagged, count
<1>4. ASSUME NEW t \in Server
      PROVE  /\ Flagged(s)[t] \in 0..Cardinality(Server)
             /\ t \in Disconnected \cup {s} => Flagged(s)[t] # 0
  BY <1>1, <1>2, <1>3 DEF Disconnected
<1> QED
  BY <1>3, <1>4 DEF Disconnected

-----------------------------------------------------------------------------
\* connectToServers keeps the sockets there are, and opens one for each of
\* the chosen servers, which are never too many
LEMMA ConnectingFits ==
  ASSUME NEW open \in SUBSET OpenSockets, NEW times, NEW tooRecent,
         TypeOK, SocketsWithinPreferred, OpenSocketsTo(open, times, tooRecent)
  PROVE  /\ socket' \in [Server -> {"none", "connecting", "connected"}]
         /\ open \subseteq OpenSockets'
         /\ OpenSockets' \subseteq open \cup (Server \ BadServers)
         /\ Cardinality(OpenSockets') <= preferred
<1> DEFINE idle == Server \ (open \cup tooRecent \cup BadServers)
<1>1. PICK chosen \in Choices(open, times, tooRecent) :
        socket' = [s \in Server |-> IF s \in chosen THEN "connecting"
                                    ELSE IF s \in open THEN socket[s]
                                    ELSE "none"]
  BY DEF OpenSocketsTo
<1>2. /\ chosen \subseteq idle
      /\ Cardinality(chosen) = IF Missing(open) \in 0..Cardinality(idle)
                               THEN Missing(open) ELSE Cardinality(idle)
  BY DEF Choices
<1>3. OpenSockets \subseteq Server /\ open \in SUBSET Server
      /\ chosen \in SUBSET Server /\ idle \in SUBSET Server
  BY <1>2 DEF OpenSockets
<1>4. OpenSockets' = open \cup chosen
  <2>1. \A s \in open : socket[s] # "none"
    BY DEF OpenSockets
  <2> QED
    BY <1>1, <1>3, <2>1 DEF OpenSockets
<1>5. /\ preferred \in Nat /\ Cardinality(open) \in Nat
      /\ Cardinality(chosen) \in Nat /\ Cardinality(idle) \in Nat
      /\ Cardinality(open) <= preferred
  <2>1. Cardinality(open) <= Cardinality(OpenSockets)
    BY <1>3, ServersAreFinite, FS_Subset
  <2> QED
    BY <1>3, <2>1, ServersAreFinite DEF TypeOK, SocketsWithinPreferred
<1>6. Cardinality(chosen) <= preferred - Cardinality(open)
  BY <1>2, <1>5 DEF Missing
<1>7. Cardinality(OpenSockets') = Cardinality(open) + Cardinality(chosen)
  BY <1>2, <1>3, <1>4, DisjointCardinality
<1>8. socket' \in [Server -> {"none", "connecting", "connected"}]
  BY <1>1 DEF TypeOK
<1> QED
  BY <1>2, <1>4, <1>5, <1>6, <1>7, <1>8

\* connectToServers, where it stores the servers, or where that throws
LEMMA StoringFits ==
  ASSUME IInv, NEW open \in SUBSET OpenSockets, NEW times, NEW tooRecent,
         OpenSocketsTo(open, times, tooRecent),
         StoreServers \/ StoreThrows, UNCHANGED preferred
  PROVE  /\ socket' \in [Server -> {"none", "connecting", "connected"}]
         /\ SocketsWithinPreferred'
         /\ StoredServersFit'
         /\ lastConnectedServers' \subseteq Server
         /\ open \subseteq OpenSockets'
<1>1. /\ socket' \in [Server -> {"none", "connecting", "connected"}]
      /\ open \subseteq OpenSockets'
      /\ OpenSockets' \subseteq open \cup (Server \ BadServers)
      /\ Cardinality(OpenSockets') <= preferred
  BY ConnectingFits DEF IInv
<1>2. lastConnectedServers' \in {lastConnectedServers, OpenSockets'}
  BY DEF StoreServers, StoreThrows
<1>3. OpenSockets' \subseteq Server /\ OpenSockets' \cap BadServers = {}
  BY <1>1 DEF IInv, StoredServersFit, OpenSockets
<1>4. StoredServersFit'
  BY <1>1, <1>2, <1>3 DEF IInv, StoredServersFit
<1> QED
  BY <1>1, <1>2, <1>3, <1>4
  DEF IInv, SocketsWithinPreferred, TypeOK, SelectorTypeOK

-----------------------------------------------------------------------------
\* A page that was just loaded
LEMMA InitIInv == Init => IInv
<1> SUFFICES ASSUME Init PROVE IInv
  OBVIOUS
<1> USE DEF Init, SelectorInit
<1>1. OpenSockets = {} /\ Cardinality(OpenSockets) = 0
  BY FS_EmptySet DEF OpenSockets
<1>2. preferred \in Nat /\ Cardinality(Server) \in Nat
  BY ServersAreFinite
<1>3. TypeOK
  <2>1. SelectorTypeOK
    BY <1>2 DEF SelectorTypeOK
  <2>2. {started, intervalId, thrown, unloadInProgress, storageThrew}
           \subseteq BOOLEAN
    BY Zenon
  <2> QED
    BY <2>1, <2>2 DEF TypeOK
<1>4. SocketsWithinPreferred /\ StoredServersFit
  BY <1>1, <1>2, FS_EmptySet DEF SocketsWithinPreferred, StoredServersFit
<1> QED
  BY <1>1, <1>3, <1>4
  DEF IInv, MonitoredByOneInterval, Monitored, StoredServersAreOpen,
      FirstLoadIsClean, CheckedStoreIsExact

\* A call of connect starts the checks, also one after a storage that threw
LEMMA ConnectIInv ==
  ASSUME IInv, Connect
  PROVE  IInv'
<1> USE DEF IInv
<1>1. /\ ~ started
      /\ OpenSocketsTo(OpenSockets, lastDisconnectTimes, recent)
      /\ StoreServers \/ StoreThrows
      /\ UNCHANGED <<lastDisconnectTimes, recent, randomSortValues, preferred,
                     registration, unloadInProgress>>
  BY DEF Connect
<1>2. \/ /\ StoreServers /\ intervalId' = TRUE /\ intervals' = 1
         /\ thrown' = (thrown \/ intervalId) /\ started' = ~ intervalId
      \/ /\ StoreThrows /\ started' = started
         /\ intervalId' = intervalId /\ intervals' = intervals
         /\ thrown' = thrown
  BY DEF Connect, Schedule, Leave, MonitoredByOneInterval
<1>3. /\ socket' \in [Server -> {"none", "connecting", "connected"}]
      /\ SocketsWithinPreferred'
      /\ StoredServersFit'
      /\ lastConnectedServers' \subseteq Server
  BY <1>1, StoringFits
<1>4. TypeOK'
  <2>1. /\ {started, intervalId, thrown, unloadInProgress, storageThrew}
              \subseteq BOOLEAN
        /\ intervals \in Nat /\ 1 \in Nat
    BY DEF TypeOK
  <2>2. /\ {started, intervalId, thrown, unloadInProgress, storageThrew}'
              \subseteq BOOLEAN
        /\ intervals' \in Nat
    BY <1>1, <1>2, <2>1, Zenon DEF StoreServers, StoreThrows, StorageThrows
  <2>3. SelectorTypeOK'
    BY <1>1, <1>3 DEF TypeOK, SelectorTypeOK, Disconnected
  <2> QED
    BY <1>1, <1>3, <2>2, <2>3 DEF TypeOK
<1>5. MonitoredByOneInterval'
  BY <1>1, <1>2
  DEF MonitoredByOneInterval, Monitored, FirstLoadIsClean, TypeOK,
      StoreServers, StoreThrows, StorageThrows
<1>6. StoredServersAreOpen' /\ CheckedStoreIsExact'
  BY <1>1, <1>2
  DEF StoredServersAreOpen, CheckedStoreIsExact, StoreServers, StoreThrows,
      StorageThrows
<1>7. FirstLoadIsClean'
  <2>1. StoreThrows => storageThrew'
    BY DEF StoreThrows, StorageThrows
  <2>2. storageThrew' \/ ~ intervalId
    BY <1>1, <2>1 DEF StoreServers, FirstLoadIsClean
  <2>3. started' = (~ intervalId) \/ storageThrew'
    BY <1>2, <2>1, Zenon
  <2>4. started' \/ storageThrew'
    BY <2>2, <2>3, Zenon
  <2> QED
    BY <2>4 DEF FirstLoadIsClean
<1> QED
  BY <1>3, <1>4, <1>5, <1>6, <1>7

\* A check keeps the sockets there are and stores the ones it adds
LEMMA ConnectivityCheckIInv ==
  ASSUME IInv, ConnectivityCheck
  PROVE  IInv'
<1> USE DEF IInv
<1>1. /\ intervals > 0
      /\ UNCHANGED <<lastDisconnectTimes, recent, randomSortValues, preferred,
                     started, intervalId, intervals, thrown, unloadInProgress>>
      /\ registration' \in [Server -> SUBSET Server]
  BY DEF ConnectivityCheck, UpdateRegistrations, UpdateThrows, checkVars,
         TypeOK, OpenSockets
<1>2. intervalId
  BY <1>1 DEF MonitoredByOneInterval
<1>3. \/ /\ OpenSocketsTo(OpenSockets, lastDisconnectTimes, recent)
         /\ StoreServers \/ StoreThrows
      \/ UpdateThrows
  BY DEF ConnectivityCheck
<1>4. /\ socket' \in [Server -> {"none", "connecting", "connected"}]
      /\ SocketsWithinPreferred'
      /\ StoredServersFit'
      /\ lastConnectedServers' \subseteq Server
  <2>1. CASE UpdateThrows
    BY <1>1, <2>1
    DEF UpdateThrows, TypeOK, SelectorTypeOK, SocketsWithinPreferred,
        StoredServersFit, OpenSockets
  <2> QED
    BY <1>1, <1>3, <2>1, StoringFits
<1>5. \/ UNCHANGED storageThrew /\ lastConnectedServers' = OpenSockets'
      \/ storageThrew' = TRUE
  BY <1>3 DEF StoreServers, StoreThrows, UpdateThrows, StorageThrows
<1>6. TypeOK'
  <2>1. {started, intervalId, thrown, unloadInProgress, storageThrew}'
           \subseteq BOOLEAN
    BY <1>1, <1>5 DEF TypeOK
  <2> QED
    BY <1>1, <1>4, <2>1 DEF TypeOK, SelectorTypeOK, Disconnected
<1>7. MonitoredByOneInterval'
  BY <1>1, <1>5 DEF MonitoredByOneInterval, Monitored
<1>8. StoredServersAreOpen' /\ CheckedStoreIsExact'
  BY <1>5 DEF StoredServersAreOpen, CheckedStoreIsExact
<1>9. FirstLoadIsClean'
  BY <1>1, <1>2, <1>5 DEF FirstLoadIsClean
<1> QED
  BY <1>4, <1>6, <1>7, <1>8, <1>9

\* A socket that connects stays one of the open ones
LEMMA SocketConnectsIInv ==
  ASSUME IInv, NEW s \in Server, SocketConnects(s)
  PROVE  IInv'
<1> USE DEF IInv
<1>1. /\ socket[s] = "connecting"
      /\ socket' = [socket EXCEPT ![s] = "connected"]
      /\ registration' \in [Server -> SUBSET Server]
      /\ UNCHANGED <<lastDisconnectTimes, recent, randomSortValues,
                     lastConnectedServers, preferred, started, intervalId,
                     intervals, thrown, unloadInProgress>>
      /\ storageThrew' = storageThrew \/ storageThrew' = TRUE
  BY DEF SocketConnects, StorageThrows, TypeOK, OpenSockets, selectorVars,
         checkVars
<1>2. OpenSockets' = OpenSockets
  BY <1>1 DEF OpenSockets, TypeOK
<1>3. TypeOK'
  <2>1. {started, intervalId, thrown, unloadInProgress, storageThrew}'
           \subseteq BOOLEAN
    BY <1>1 DEF TypeOK
  <2> QED
    BY <1>1, <2>1 DEF TypeOK, SelectorTypeOK, Disconnected
<1>4. SocketsWithinPreferred' /\ StoredServersFit'
  BY <1>1, <1>2 DEF SocketsWithinPreferred, StoredServersFit
<1>5. MonitoredByOneInterval' /\ StoredServersAreOpen'
  BY <1>1, <1>2 DEF MonitoredByOneInterval, Monitored, StoredServersAreOpen
<1>6. FirstLoadIsClean' /\ CheckedStoreIsExact'
  BY <1>1, <1>2 DEF FirstLoadIsClean, CheckedStoreIsExact
<1> QED
  BY <1>3, <1>4, <1>5, <1>6

\* A disposal stops the checks, and starts them again unless the page unloads
LEMMA DisposeIInv ==
  ASSUME IInv, NEW s \in Server, Dispose(s)
  PROVE  IInv'
<1> USE DEF IInv
<1>1. /\ socket[s] # "none"
      /\ registration' = [registration EXCEPT ![s] = {}]
      /\ lastDisconnectTimes' = Flagged(s)
      /\ recent' = recent \cup {s}
      /\ UNCHANGED <<randomSortValues, preferred, started, unloadInProgress>>
  BY DEF Dispose
<1>2. Stopped = [id |-> FALSE, running |-> 0]
  BY DEF Stopped, MonitoredByOneInterval
<1>3. \/ /\ OpenSocketsTo(OpenSockets \ {s}, Flagged(s), recent \cup {s})
         /\ StoreServers /\ Schedule(Stopped)
      \/ /\ OpenSocketsTo(OpenSockets \ {s}, Flagged(s), recent \cup {s})
         /\ StoreThrows /\ Leave(Stopped)
      \/ /\ unloadInProgress
         /\ socket' = [socket EXCEPT ![s] = "none"]
         /\ Leave(Stopped)
         /\ UNCHANGED <<lastConnectedServers, storageThrew>>
  BY DEF Dispose, ConnectAndMonitor, ConnectsAgain
<1>4. started \/ storageThrew
  BY <1>1 DEF OpenSockets, FirstLoadIsClean
<1>5. /\ socket' \in [Server -> {"none", "connecting", "connected"}]
      /\ SocketsWithinPreferred'
      /\ StoredServersFit'
      /\ lastConnectedServers' \subseteq Server
  <2>1. CASE /\ socket' = [socket EXCEPT ![s] = "none"]
             /\ UNCHANGED <<lastConnectedServers, storageThrew>>
    <3>1. OpenSockets' = OpenSockets \ {s}
      BY <2>1 DEF OpenSockets, TypeOK
    <3>2. /\ Cardinality(OpenSockets \ {s}) <= Cardinality(OpenSockets)
          /\ Cardinality(OpenSockets \ {s}) \in Nat
          /\ Cardinality(OpenSockets) \in Nat
      <4>1. OpenSockets \in SUBSET Server /\ OpenSockets \ {s} \in SUBSET Server
        BY DEF OpenSockets
      <4> QED
        BY <4>1, ServersAreFinite, FS_Subset
    <3>3. preferred \in Nat
      BY ServersAreFinite DEF TypeOK
    <3> QED
      BY <1>1, <2>1, <3>1, <3>2, <3>3
      DEF TypeOK, SelectorTypeOK, SocketsWithinPreferred, StoredServersFit
  <2> QED
    BY <1>1, <1>3, <2>1, StoringFits
<1>6. \/ /\ UNCHANGED storageThrew /\ lastConnectedServers' = OpenSockets'
         /\ intervalId' = TRUE /\ intervals' = 1 /\ thrown' = thrown
      \/ /\ storageThrew' = TRUE
         /\ intervalId' = FALSE /\ intervals' = 0 /\ thrown' = thrown
      \/ /\ UNCHANGED <<lastConnectedServers, storageThrew>>
         /\ OpenSockets' \subseteq OpenSockets /\ unloadInProgress
         /\ intervalId' = FALSE /\ intervals' = 0 /\ thrown' = thrown
  <2>1. Leave(Stopped) =>
           intervalId' = FALSE /\ intervals' = 0 /\ thrown' = thrown
    BY <1>2 DEF Leave
  <2>2. Schedule(Stopped) =>
           intervalId' = TRUE /\ intervals' = 1 /\ thrown' = thrown
    <3>1. thrown \in BOOLEAN
      BY DEF TypeOK
    <3>2. Schedule(Stopped) => thrown' = (thrown \/ FALSE)
      BY <1>2 DEF Schedule
    <3> QED
      BY <1>2, <3>1, <3>2 DEF Schedule
  <2>3. socket' = [socket EXCEPT ![s] = "none"] =>
           OpenSockets' \subseteq OpenSockets
    BY DEF OpenSockets, TypeOK
  <2> QED
    BY <1>3, <2>1, <2>2, <2>3 DEF StoreServers, StoreThrows, StorageThrows
<1>7. TypeOK'
  <2>1. {started, intervalId, thrown, unloadInProgress, storageThrew}'
           \subseteq BOOLEAN
    BY <1>1, <1>6 DEF TypeOK
  <2>2. SelectorTypeOK'
    BY <1>1, <1>5, FlaggedIsTimes DEF TypeOK, SelectorTypeOK, Disconnected
  <2>3. intervals' \in Nat /\ registration' \in [Server -> SUBSET Server]
    BY <1>1, <1>6 DEF TypeOK
  <2> QED
    BY <1>1, <1>5, <2>1, <2>2, <2>3 DEF TypeOK
<1>8. MonitoredByOneInterval'
  BY <1>1, <1>6 DEF MonitoredByOneInterval, Monitored
<1>9. StoredServersAreOpen' /\ CheckedStoreIsExact'
  BY <1>1, <1>6 DEF StoredServersAreOpen, CheckedStoreIsExact
<1>10. FirstLoadIsClean'
  BY <1>1, <1>4, <1>6 DEF FirstLoadIsClean
<1> QED
  BY <1>5, <1>7, <1>8, <1>9, <1>10

\* Once the page is unloading, the checks that still run store what is open
LEMMA BeforeUnloadIInv ==
  ASSUME IInv, BeforeUnload
  PROVE  IInv'
<1> USE DEF IInv
<1>1. /\ ~ unloadInProgress /\ unloadInProgress' = TRUE
      /\ UNCHANGED <<selectorVars, preferred, socket, registration, started,
                     intervalId, intervals, thrown, storageThrew>>
      /\ OpenSockets' = OpenSockets
  BY DEF BeforeUnload, OpenSockets
<1>2. TypeOK'
  <2>1. {started, intervalId, thrown, unloadInProgress, storageThrew}'
           \subseteq BOOLEAN
    BY <1>1 DEF TypeOK
  <2> QED
    BY <1>1, <2>1 DEF TypeOK, SelectorTypeOK, Disconnected, selectorVars
<1>3. SocketsWithinPreferred' /\ StoredServersFit'
  BY <1>1 DEF SocketsWithinPreferred, StoredServersFit, selectorVars
<1>4. MonitoredByOneInterval' /\ StoredServersAreOpen'
  BY <1>1
  DEF MonitoredByOneInterval, Monitored, StoredServersAreOpen, selectorVars
<1>5. FirstLoadIsClean' /\ CheckedStoreIsExact'
  BY <1>1 DEF FirstLoadIsClean, CheckedStoreIsExact, selectorVars
<1> QED
  BY <1>2, <1>3, <1>4, <1>5

\* A page that is loaded again keeps nothing but the storage
LEMMA ReloadIInv ==
  ASSUME IInv, Reload
  PROVE  IInv'
<1> USE DEF IInv, Reload, SelectorReload
<1>1. OpenSockets' = {} /\ Cardinality(OpenSockets') = 0
  BY FS_EmptySet DEF OpenSockets
<1>2. preferred \in Nat /\ Cardinality(Server) \in Nat
  BY ServersAreFinite DEF TypeOK
<1>3. TypeOK'
  <2>1. SelectorTypeOK'
    BY <1>2 DEF TypeOK, SelectorTypeOK
  <2>2. {started, intervalId, thrown, unloadInProgress, storageThrew}'
           \subseteq BOOLEAN
    OBVIOUS
  <2> QED
    BY <2>1, <2>2 DEF TypeOK
<1>4. SocketsWithinPreferred' /\ StoredServersFit'
  BY <1>1, <1>2 DEF SocketsWithinPreferred, StoredServersFit
<1>5. MonitoredByOneInterval' /\ StoredServersAreOpen' /\ CheckedStoreIsExact'
  BY DEF MonitoredByOneInterval, Monitored, StoredServersAreOpen,
         CheckedStoreIsExact
<1>6. FirstLoadIsClean'
  BY <1>1 DEF FirstLoadIsClean
<1> QED
  BY <1>3, <1>4, <1>5, <1>6

\* A server may be tried again: nothing else changes
LEMMA TimePassesIInv ==
  ASSUME IInv, TimePasses \/ UNCHANGED vars
  PROVE  IInv'
<1> USE DEF IInv
<1>1. /\ UNCHANGED <<lastDisconnectTimes, randomSortValues,
                     lastConnectedServers, preferred, socket, registration,
                     checkVars, storageThrew>>
      /\ recent' \subseteq recent
      /\ OpenSockets' = OpenSockets
  BY DEF TimePasses, DelayPasses, vars, selectorVars, OpenSockets
<1>2. TypeOK'
  BY <1>1 DEF TypeOK, SelectorTypeOK, Disconnected, checkVars
<1>3. SocketsWithinPreferred' /\ StoredServersFit'
  BY <1>1 DEF SocketsWithinPreferred, StoredServersFit
<1>4. MonitoredByOneInterval' /\ StoredServersAreOpen'
  BY <1>1
  DEF MonitoredByOneInterval, Monitored, StoredServersAreOpen, checkVars
<1>5. FirstLoadIsClean' /\ CheckedStoreIsExact'
  BY <1>1 DEF FirstLoadIsClean, CheckedStoreIsExact, checkVars
<1> QED
  BY <1>2, <1>3, <1>4, <1>5

-----------------------------------------------------------------------------
\* The invariant, however the sockets, the storage and the page interleave
THEOREM SocketInvariant == Spec => []IInv
<1>1. IInv /\ [Next]_vars => IInv'
  BY ConnectIInv, ConnectivityCheckIInv, SocketConnectsIInv, DisposeIInv,
     BeforeUnloadIInv, ReloadIInv, TimePassesIInv DEF Next
<1> QED
  BY InitIInv, <1>1, PTL DEF Spec

\* Every variable keeps its type
THEOREM SocketTypes == Spec => []TypeOK
<1>1. IInv => TypeOK
  BY DEF IInv
<1> QED
  BY <1>1, SocketInvariant, PTL

\* connectToServers never has a negative number of connections remaining
THEOREM NeverTooManySockets == Spec => []SocketsWithinPreferred
<1>1. IInv => SocketsWithinPreferred
  BY DEF IInv
<1> QED
  BY <1>1, SocketInvariant, PTL

\* No interval runs that cannot be stopped, and a connected client has one
THEOREM OneInterval == Spec => []MonitoredByOneInterval
<1>1. IInv => MonitoredByOneInterval
  BY DEF IInv
<1> QED
  BY <1>1, SocketInvariant, PTL

\* The storage names the servers in use
THEOREM StoreIsCurrent == Spec => []StoredServersAreOpen
<1>1. IInv => StoredServersAreOpen
  BY DEF IInv
<1> QED
  BY <1>1, SocketInvariant, PTL

-----------------------------------------------------------------------------
\* What is stored only grows during an unload
LEMMA UnloadKeepsStore ==
  ASSUME IInv, [Next]_vars, started, unloadInProgress, ~ storageThrew
  PROVE  lastConnectedServers \subseteq lastConnectedServers'
<1> USE DEF IInv
<1>1. ASSUME ConnectivityCheck
      PROVE  lastConnectedServers \subseteq lastConnectedServers'
  <2>1. intervalId
    BY <1>1 DEF ConnectivityCheck, MonitoredByOneInterval
  <2>2. lastConnectedServers = OpenSockets
    BY <2>1 DEF CheckedStoreIsExact
  <2>3. CASE UNCHANGED lastConnectedServers
    BY <2>3
  <2>4. CASE /\ OpenSocketsTo(OpenSockets, lastDisconnectTimes, recent)
             /\ StoreServers /\ UNCHANGED preferred
    BY <2>2, <2>4, StoringFits DEF StoreServers
  <2> QED
    BY <1>1, <2>3, <2>4 DEF ConnectivityCheck, StoreThrows, UpdateThrows
<1>2. ASSUME NEW s \in Server, Dispose(s)
      PROVE  UNCHANGED lastConnectedServers
  BY <1>2 DEF Dispose, ConnectsAgain
<1> QED
  BY <1>1, <1>2
  DEF Next, Connect, SocketConnects, TimePasses, DelayPasses, BeforeUnload,
      Reload, SelectorReload, vars, selectorVars

\* Disconnections during an unload take no server out of the store
THEOREM UnloadKeepsAffinity == Spec => AffinityOutlivesUnload
<1>1. IInv /\ [Next]_vars =>
         [started /\ unloadInProgress /\ ~ storageThrew =>
             lastConnectedServers \subseteq lastConnectedServers']_vars
  BY UnloadKeepsStore
<1> QED
  BY <1>1, SocketInvariant, PTL DEF Spec, AffinityOutlivesUnload

\* The servers that were stored have the lowest sort values of all, and there
\* is room for them, so the first connect chooses each of them
LEMMA StoredServersAreChosen ==
  ASSUME IInv, OpenSockets = {}, recent = {},
         lastDisconnectTimes = [s \in Server |-> 0],
         NEW chosen \in Choices(OpenSockets, lastDisconnectTimes, recent)
  PROVE  lastConnectedServers \subseteq chosen
<1> DEFINE idle == Server \ BadServers
<1>1. /\ chosen \subseteq idle
      /\ Cardinality(chosen) = IF preferred \in 0..Cardinality(idle)
                               THEN preferred ELSE Cardinality(idle)
      /\ \A s \in chosen, t \in idle \ chosen :
            SortValue(s, lastDisconnectTimes)
               <= SortValue(t, lastDisconnectTimes)
  <2>1. OpenSockets \cup recent \cup BadServers = BadServers
    OBVIOUS
  <2>2. /\ chosen \subseteq idle
        /\ Cardinality(chosen) =
             IF Missing(OpenSockets) \in 0..Cardinality(idle)
             THEN Missing(OpenSockets) ELSE Cardinality(idle)
        /\ \A s \in chosen, t \in idle \ chosen :
              SortValue(s, lastDisconnectTimes)
                 <= SortValue(t, lastDisconnectTimes)
    BY <2>1 DEF Choices
  <2>3. Missing(OpenSockets) = preferred
    BY FS_EmptySet, ServersAreFinite DEF Missing, IInv, TypeOK
  <2> QED
    BY <2>2, <2>3
<1>2. \A s \in Server : SortValue(s, lastDisconnectTimes) =
         IF s \in lastConnectedServers THEN 0 ELSE randomSortValues[s]
  BY DEF SortValue
<1>3. \A s \in Server : randomSortValues[s] \in Nat /\ randomSortValues[s] > 0
  <2>1. randomSortValues \in [Server -> 1..Cardinality(Server)]
    BY DEF IInv, TypeOK, SelectorTypeOK, Ranks
  <2>2. Cardinality(Server) \in Nat
    BY ServersAreFinite
  <2> QED
    BY <2>1, <2>2
<1>4. /\ lastConnectedServers \subseteq idle
      /\ Cardinality(lastConnectedServers) <= preferred
  BY DEF IInv, TypeOK, SelectorTypeOK, StoredServersFit
<1>5. SUFFICES ASSUME NEW t \in lastConnectedServers, t \notin chosen
               PROVE  FALSE
  OBVIOUS
<1>6. chosen \subseteq lastConnectedServers
  BY <1>1, <1>2, <1>3, <1>4, <1>5
<1>7. /\ Cardinality(chosen) \in Nat /\ Cardinality(idle) \in Nat
      /\ Cardinality(lastConnectedServers) \in Nat /\ preferred \in Nat
      /\ IsFiniteSet(idle) /\ IsFiniteSet(lastConnectedServers)
  <2>1. /\ chosen \in SUBSET Server /\ idle \in SUBSET Server
        /\ lastConnectedServers \in SUBSET Server
    BY <1>1, <1>4
  <2> QED
    BY <2>1, ServersAreFinite DEF IInv, TypeOK
<1>8. Cardinality(chosen) < Cardinality(lastConnectedServers)
  <2>1. /\ Cardinality(chosen) <= Cardinality(lastConnectedServers)
        /\ Cardinality(chosen) # Cardinality(lastConnectedServers)
    BY <1>5, <1>6, <1>7, FS_Subset
  <2> QED
    BY <1>7, <2>1
<1>9. Cardinality(lastConnectedServers) <= Cardinality(idle)
  BY <1>4, <1>7, FS_Subset
<1> QED
  BY <1>1, <1>4, <1>7, <1>8, <1>9

\* The first connect of a page reaches the servers of the page before it
LEMMA FirstConnectReaches ==
  ASSUME IInv, [Next]_vars, ~ started, started', ~ storageThrew
  PROVE  lastConnectedServers \subseteq OpenSockets'
<1>1. Connect
  BY DEF Next, ConnectivityCheck, SocketConnects, Dispose, TimePasses,
         BeforeUnload, Reload, vars, checkVars
<1>2. /\ OpenSockets = {} /\ recent = {}
      /\ lastDisconnectTimes = [s \in Server |-> 0]
  BY DEF IInv, FirstLoadIsClean
<1>3. PICK chosen \in Choices(OpenSockets, lastDisconnectTimes, recent) :
        socket' = [s \in Server |-> IF s \in chosen THEN "connecting"
                                    ELSE IF s \in OpenSockets THEN socket[s]
                                    ELSE "none"]
  BY <1>1 DEF Connect, OpenSocketsTo
<1>4. lastConnectedServers \subseteq chosen
  BY <1>2, StoredServersAreChosen
<1>5. lastConnectedServers \subseteq Server
  BY DEF IInv, TypeOK, SelectorTypeOK
<1> QED
  BY <1>3, <1>4, <1>5 DEF OpenSockets

\* After a reload the client connects to the servers it was connected to
THEOREM ReloadReachesSameServers == Spec => ReloadsReconnect
<1>1. IInv /\ [Next]_vars =>
         [~ started /\ started' /\ ~ storageThrew =>
             lastConnectedServers \subseteq OpenSockets']_vars
  BY FirstConnectReaches
<1> QED
  BY <1>1, SocketInvariant, PTL DEF Spec, ReloadsReconnect
=============================================================================
