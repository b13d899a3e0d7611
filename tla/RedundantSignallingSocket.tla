---------------------- MODULE RedundantSignallingSocket ----------------------
(***************************************************************************)
(* RedundantSignallingSocket: sockets to up to a preferred number of       *)
(* signalling servers, replaced when they fail, checked at an interval,    *)
(* and left alone while the page is unloading.                             *)
(***************************************************************************)
EXTENDS SignallingServerSelector

CONSTANTS
    PreferredNumbers, \* of sockets, one of which the client prefers
    BadServers,       \* servers createSocket throws for
    StorageMayThrow

ASSUME PreferredAssumption ==
    /\ PreferredNumbers \subseteq Nat
    /\ BadServers \subseteq Server
    /\ StorageMayThrow \in BOOLEAN

VARIABLES
    preferred,     \* getPreferredNumberOfSockets(), which never changes
    socket,        \* per server: none, connecting or connected
    registration,  \* per server: the servers named by the pointer last
                   \* registered on its socket
    started,       \* RTC.connect() has returned
    intervalId,    \* connectivityIntervalId is defined
    intervals,     \* how many connectivity intervals are running
    thrown,        \* "Attempt was made to start connectivity checks twice"
    unloadInProgress,
    storageThrew   \* the storage has thrown on this page

checkVars == <<started, intervalId, intervals, thrown, unloadInProgress>>
vars == <<selectorVars, preferred, socket, registration, checkVars, storageThrew>>

\* The keys of connectedSockets and connectedSpecs, which change together
OpenSockets == {s \in Server : socket[s] # "none"}

(***************************************************************************)
(* connectToServers goes through the servers that are not too recent in    *)
(* the order of their sort values until connectionsRemaining is exactly 0. *)
(* A server whose socket cannot be created is skipped.                     *)
(***************************************************************************)

\* Mutant: one too many
MissingAndOne(open) == preferred - Cardinality(open) + 1

\* connectionsRemaining
Missing(open) == preferred - Cardinality(open)

Choices(open, times, tooRecent) ==
    LET idle == Server \ (open \cup tooRecent \cup BadServers) IN
    {chosen \in SUBSET idle :
        /\ Cardinality(chosen) = IF Missing(open) \in 0..Cardinality(idle)
                                 THEN Missing(open) ELSE Cardinality(idle)
        /\ \A s \in chosen, t \in idle \ chosen :
              SortValue(s, times) <= SortValue(t, times)}

\* open: the sockets there are when connectToServers is called
OpenSocketsTo(open, times, tooRecent) ==
    \E chosen \in Choices(open, times, tooRecent) :
        socket' = [s \in Server |-> IF s \in chosen THEN "connecting"
                                    ELSE IF s \in open THEN socket[s]
                                    ELSE "none"]

\* Mutant: storing the servers is left to the next page
StoreNothing == UNCHANGED <<lastConnectedServers, storageThrew>>

\* The end of connectToServers: setLastConnectedServers
StoreServers ==
    lastConnectedServers' = OpenSockets' /\ UNCHANGED storageThrew

\* The storage is full, or forbidden to the page: at most once per page
StorageThrows ==
    StorageMayThrow /\ ~ storageThrew /\ storageThrew' = TRUE

\* storage.setItem throws instead
StoreThrows == StorageThrows /\ UNCHANGED lastConnectedServers

\* Mutant: the id is forgotten but the interval is not cleared
StoppedUncleared == [id |-> FALSE, running |-> intervals]

\* stopConnectivityChecks
Stopped ==
    [id |-> FALSE, running |-> IF intervalId THEN intervals - 1 ELSE intervals]

Leave(checks) ==
    /\ intervalId' = checks.id
    /\ intervals' = checks.running
    /\ UNCHANGED thrown

\* Mutant: the checks are not scheduled
ScheduleNothing(checks) == Leave(checks)

\* scheduleServerConnectivityChecks
Schedule(checks) ==
    /\ intervalId' = TRUE
    /\ intervals' = IF checks.id THEN checks.running ELSE checks.running + 1
    /\ thrown' = (thrown \/ checks.id)

\* connectAndMonitor, which ends early if connectToServers throws
ConnectAndMonitor(open, times, tooRecent, checks) ==
    /\ OpenSocketsTo(open, times, tooRecent)
    /\ \/ StoreServers /\ Schedule(checks)
       \/ StoreThrows /\ Leave(checks)

\* Mutant: a disposal during an unload connects again
ConnectsAgainAlways == TRUE

ConnectsAgain == ~ unloadInProgress

-----------------------------------------------------------------------------
Init ==
    /\ SelectorInit
    /\ preferred \in PreferredNumbers
    /\ socket = [s \in Server |-> "none"]
    /\ registration = [s \in Server |-> {}]
    /\ started = FALSE
    /\ intervalId = FALSE
    /\ intervals = 0
    /\ thrown = FALSE
    /\ unloadInProgress = FALSE
    /\ storageThrew = FALSE

\* RTC.connect, which calls connectAndMonitor until it has returned once: if
\* the storage threw, or the schedule does, the application may try again
Connect ==
    LET checks == [id |-> intervalId, running |-> intervals] IN
    /\ ~ started
    /\ OpenSocketsTo(OpenSockets, lastDisconnectTimes, recent)
    /\ \/ StoreServers /\ Schedule(checks) /\ started' = ~ intervalId
       \/ StoreThrows /\ Leave(checks) /\ UNCHANGED started
    /\ UNCHANGED <<lastDisconnectTimes, recent, randomSortValues, preferred,
                   registration, unloadInProgress>>

\* Mutant: the check connects but does not register
UpdateNoRegistrations == UNCHANGED registration

\* A register message for a socket that is still connecting waits in its
\* send buffer
UpdateRegistrations ==
    registration' = [s \in Server |-> IF s \in OpenSockets THEN OpenSockets
                                      ELSE registration[s]]

\* Storage throws while a pointer is made: the check ends at that socket
UpdateThrows ==
    /\ StorageThrows
    /\ \E registered \in SUBSET OpenSockets \ {OpenSockets} :
          registration' = [s \in Server |-> IF s \in registered THEN OpenSockets
                                            ELSE registration[s]]
    /\ UNCHANGED <<socket, lastConnectedServers>>

\* The interval: updateRegistrations, then connectToServers
ConnectivityCheck ==
    /\ intervals > 0
    /\ \/ /\ UpdateRegistrations
          /\ OpenSocketsTo(OpenSockets, lastDisconnectTimes, recent)
          /\ StoreServers \/ StoreThrows
       \/ UpdateThrows
    /\ UNCHANGED <<lastDisconnectTimes, recent, randomSortValues, preferred,
                   checkVars>>

\* "connect": register and join.  A buffered register message may be sent
\* before or after the one of this handler, or be the only one if making a
\* pointer throws
SocketConnects(s) ==
    /\ socket[s] = "connecting"
    /\ socket' = [socket EXCEPT ![s] = "connected"]
    /\ \/ /\ registration' = [registration EXCEPT ![s] = OpenSockets]
          /\ UNCHANGED storageThrew
       \/ /\ registration[s] # {}
          /\ UNCHANGED <<registration, storageThrew>>
       \/ /\ StorageThrows
          /\ UNCHANGED registration
    /\ UNCHANGED <<selectorVars, preferred, checkVars>>

\* "connect_error", "error" or "disconnect": stopConnectivityChecks, forget
\* the socket and, unless the page is unloading, connectAndMonitor
Dispose(s) ==
    /\ socket[s] # "none"
    /\ registration' = [registration EXCEPT ![s] = {}]
    /\ lastDisconnectTimes' = Flagged(s)
    /\ recent' = recent \cup {s}
    /\ IF ConnectsAgain
       THEN ConnectAndMonitor(OpenSockets \ {s}, Flagged(s), recent \cup {s},
                              Stopped)
       ELSE /\ socket' = [socket EXCEPT ![s] = "none"]
            /\ Leave(Stopped)
            /\ UNCHANGED <<lastConnectedServers, storageThrew>>
    /\ UNCHANGED <<randomSortValues, preferred, started, unloadInProgress>>

\* "beforeunload"; the user may still stay on the page
BeforeUnload ==
    /\ ~ unloadInProgress
    /\ unloadInProgress' = TRUE
    /\ UNCHANGED <<selectorVars, preferred, socket, registration, started,
                   intervalId, intervals, thrown, storageThrew>>

\* The page is gone, with or without a beforeunload event, and loaded again
Reload ==
    /\ SelectorReload
    /\ socket' = [s \in Server |-> "none"]
    /\ registration' = [s \in Server |-> {}]
    /\ started' = FALSE
    /\ intervalId' = FALSE
    /\ intervals' = 0
    /\ thrown' = FALSE
    /\ unloadInProgress' = FALSE
    /\ storageThrew' = FALSE
    /\ UNCHANGED preferred

TimePasses ==
    /\ \E s \in Server : DelayPasses(s)
    /\ UNCHANGED <<preferred, socket, registration, checkVars, storageThrew>>

Next ==
    \/ Connect
    \/ ConnectivityCheck
    \/ \E s \in Server : SocketConnects(s) \/ Dispose(s)
    \/ TimePasses
    \/ BeforeUnload
    \/ Reload

Spec == Init /\ [][Next]_vars

(***************************************************************************)
(* Time passes, and an interval that is running fires unless disposals     *)
(* replace it again and again: sockets that fail often enough put off the  *)
(* check for ever.  No socket has to fail, nor to connect, and no storage  *)
(* has to throw.                                                           *)
(***************************************************************************)
Fairness ==
    /\ WF_vars(TimePasses)
    /\ \/ WF_vars(ConnectivityCheck /\ UNCHANGED storageThrew)
       \/ []<><<\E s \in Server : Dispose(s)>>_vars

FairSpec == Spec /\ Fairness

-----------------------------------------------------------------------------
TypeOK ==
    /\ SelectorTypeOK
    /\ preferred \in PreferredNumbers
    /\ socket \in [Server -> {"none", "connecting", "connected"}]
    /\ registration \in [Server -> SUBSET Server]
    /\ {started, intervalId, thrown, unloadInProgress, storageThrew} \subseteq BOOLEAN
    /\ intervals \in Nat

(***************************************************************************)
(* The loop in connectToServers stops at exactly 0 connections remaining:  *)
(* it would connect to every server if there ever were too many sockets.   *)
(* It does not, also where the storage threw and the loop ran again.       *)
(***************************************************************************)
SocketsWithinPreferred == Cardinality(OpenSockets) <= preferred

Monitored == started /\ ~ unloadInProgress /\ ~ storageThrew

(***************************************************************************)
(* However disposals, checks, unloading, calls of connect and a storage    *)
(* that throws interleave, no interval runs that cannot be stopped.  As    *)
(* long as the storage did not throw, a connected client is checked until  *)
(* its page unloads and no disposal starts the checks a second time.       *)
(***************************************************************************)
MonitoredByOneInterval ==
    /\ intervals = (IF intervalId THEN 1 ELSE 0)
    /\ Monitored => intervalId
    /\ thrown => storageThrew

(***************************************************************************)
(* "BUG ::: Attempt was made to start connectivity checks twice": the      *)
(* error is not thrown.                                                    *)
(***************************************************************************)
ChecksStartOnce == ~ thrown

(***************************************************************************)
(* "Store the new set of connected servers in session storage so we can    *)
(* prefer them in the event of a reload": whenever the page goes away what *)
(* is stored names every server in use, and nothing else if the page went  *)
(* without an unload event.                                                *)
(***************************************************************************)
StoredServersAreOpen ==
    started /\ ~ storageThrew =>
        /\ OpenSockets \subseteq lastConnectedServers
        /\ unloadInProgress \/ lastConnectedServers \subseteq OpenSockets

(***************************************************************************)
(* Disconnections during an unload do not lose the "affinity with our      *)
(* previous signalling servers": no server is taken out of the store.      *)
(***************************************************************************)
AffinityOutlivesUnload ==
    [][started /\ unloadInProgress /\ ~ storageThrew =>
           lastConnectedServers \subseteq lastConnectedServers']_vars

\* After a reload the client connects to the servers it was connected to
ReloadsReconnect ==
    [][~ started /\ started' /\ ~ storageThrew =>
           lastConnectedServers \subseteq OpenSockets']_vars

(***************************************************************************)
(* "This will cause servers to be tried in a round robin pattern": where   *)
(* no connection lasts, every server is tried again and again.             *)
(***************************************************************************)
ServersAreTriedRoundRobin ==
    \A s \in Server \ BadServers :
        (/\ <>[]Monitored
         /\ \A t \in Server : []<>(socket[t] = "none")) => []<>(socket[s] # "none")

\* A client without any socket gets one, unless its page goes away or its
\* storage throws
ClientsStayReachable ==
    Monitored /\ OpenSockets = {} ~> ~ Monitored \/ OpenSockets # {}

(***************************************************************************)
(* The class "Maintains connections to up to a specified number of         *)
(* signalling servers": a connected client without any socket gets one,    *)
(* also if its storage threw or an unload was announced but cancelled.     *)
(***************************************************************************)
ConnectionsAreMaintained ==
    started /\ OpenSockets = {} ~> ~ started \/ OpenSockets # {}

(***************************************************************************)
(* Servers hand out the pointer registered with them last.  Once a         *)
(* client's sockets stay the same, that pointer names just these servers.  *)
(***************************************************************************)
RegistrationsCatchUp ==
    \A open \in SUBSET (Server \ BadServers) :
        <>[](Monitored /\ OpenSockets = open)
            => <>[](\A s \in open : socket[s] = "connected" => registration[s] = open)

(***************************************************************************)
(* getCurrentServerSpecs: "the list of server specs we're currently        *)
(* listening on".                                                          *)
(***************************************************************************)
CurrentServersAreListenedOn ==
    \A s \in OpenSockets : socket[s] = "connected"
=============================================================================
