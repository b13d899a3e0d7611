----------------------- MODULE SignallingServerSelector ----------------------
(***************************************************************************)
(* SignallingServerSelector: in which order signalling servers are tried.  *)
(*                                                                         *)
(* Of the clock only what the selector asks of it is kept: the order of    *)
(* the last disconnections, which are numbered from the longest ago on,    *)
(* and which of them are less than delayBeforeRetryMilliseconds ago.  No   *)
(* two disconnections have the same millisecond.                           *)
(***************************************************************************)
EXTENDS Integers, FiniteSets

CONSTANTS
    Server   \* signalling servers, by their signallingApiBase

ASSUME ServersAssumption == IsFiniteSet(Server)

VARIABLES
    lastDisconnectTimes,  \* per server: a number from 1, or 0 for undefined
    recent,               \* those still within the delay before a retry
    randomSortValues,     \* a rank per server, drawn anew by every page load
    lastConnectedServers  \* kept in storage

selectorVars == <<lastDisconnectTimes, recent, randomSortValues,
                  lastConnectedServers>>

Ranks == {r \in [Server -> 1..Cardinality(Server)] :
             \A s, t \in Server : r[s] = r[t] => s = t}

SelectorInit ==
    /\ lastDisconnectTimes = [s \in Server |-> 0]
    /\ recent = {}
    /\ randomSortValues \in Ranks
    /\ lastConnectedServers = {}

\* Mutant: the servers of the last visit are not preferred
SortValueUnaware(s, times) ==
    IF times[s] # 0 THEN Cardinality(Server) + times[s] ELSE randomSortValues[s]

\* Mutant: the server tried last sorts first
SortValueNewestFirst(s, times) ==
    IF times[s] # 0 THEN - times[s]
    ELSE IF s \in lastConnectedServers THEN 0
    ELSE randomSortValues[s]

\* A disconnection is later than any random value, and those are above 0
SortValue(s, times) ==
    IF times[s] # 0 THEN Cardinality(Server) + times[s]
    ELSE IF s \in lastConnectedServers THEN 0
    ELSE randomSortValues[s]

Disconnected == {s \in Server : lastDisconnectTimes[s] # 0}

\* Mutant: the time of the disconnection is not recorded
FlaggedNot(s) == lastDisconnectTimes

\* flagDisconnection: s was now disconnected from last
Flagged(s) ==
    LET later == {t \in Server : s \in Disconnected
                     /\ lastDisconnectTimes[t] > lastDisconnectTimes[s]}
    IN [t \in Server |->
           IF t = s THEN Cardinality(Disconnected \cup {s})
           ELSE IF t \in later THEN lastDisconnectTimes[t] - 1
           ELSE lastDisconnectTimes[t]]

\* The delay passes for the server disconnected from the longest ago
DelayPasses(s) ==
    /\ s \in recent
    /\ \A t \in recent : lastDisconnectTimes[s] <= lastDisconnectTimes[t]
    /\ recent' = recent \ {s}
    /\ UNCHANGED <<lastDisconnectTimes, randomSortValues, lastConnectedServers>>

\* A new page has a new selector, and the storage of the old one
SelectorReload ==
    /\ lastDisconnectTimes' = [s \in Server |-> 0]
    /\ recent' = {}
    /\ randomSortValues' \in Ranks
    /\ UNCHANGED lastConnectedServers

SelectorTypeOK ==
    /\ lastDisconnectTimes \in [Server -> 0..Cardinality(Server)]
    /\ recent \subseteq Disconnected
    /\ randomSortValues \in Ranks
    /\ lastConnectedServers \subseteq Server
=============================================================================
