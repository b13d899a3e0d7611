-------------------------- MODULE MCChannelMessaging --------------------------
(***************************************************************************)
(* Instances of ChannelMessaging for TLC: two ends, two types of message   *)
(* and two calls of receive.                                               *)
(***************************************************************************)
EXTENDS ChannelMessaging

CONSTANTS e1, e2, t1, t2, p0, p1, r1, r2

\* Every call asks for half of the channel's timeout
MCAsked == [r \in Call |-> 1]
=============================================================================
