----------------------------- MODULE TypedMailbox -----------------------------
(***************************************************************************)
(* What send and receive of a Channel promise together.  Every end has a   *)
(* mailbox for each message type.  Messages of one type are taken in the   *)
(* order they were sent, each by the calls of receive that wait for its    *)
(* type at that moment; none is lost while the mailbox is open, and a call *)
(* that gives up takes nothing with it.                                    *)
(***************************************************************************)
EXTENDS Sequences

CONSTANTS End, Type, Call, Message, None

Box == End \X Type

VARIABLES
    mail,    \* the messages of a mailbox that nobody took yet
    open,    \* the ends whose mailboxes are open
    waiting, \* the mailbox a call waits at
    begun,   \* the calls that were made
    got      \* the message a call took

vars == <<mail, open, waiting, begun, got>>

Waiters(b) == {r \in Call : waiting[r] = b}

Init ==
    /\ mail = [b \in Box |-> <<>>]
    /\ open = End
    /\ waiting = [r \in Call |-> None]
    /\ begun = {}
    /\ got = [r \in Call |-> None]

Put(b, m) ==
    /\ b[1] \in open
    /\ mail' = [mail EXCEPT ![b] = Append(@, m)]
    /\ UNCHANGED <<open, waiting, begun, got>>

\* The first message goes to the calls in takers, who wait no longer
HandOver(b, takers) ==
    /\ mail[b] # <<>>
    /\ mail' = [mail EXCEPT ![b] = Tail(@)]
    /\ got' = [r \in Call |-> IF r \in takers THEN Head(mail[b]) ELSE got[r]]
    /\ waiting' = [r \in Call |-> IF r \in takers THEN None ELSE waiting[r]]
    /\ UNCHANGED open

Begin(r) ==
    /\ r \notin begun
    /\ begun' = begun \cup {r}

Ask(r, b) ==
    /\ Begin(r)
    /\ waiting' = [waiting EXCEPT ![r] = b]
    /\ UNCHANGED <<mail, open, got>>

AskAndTake(r, b) ==
    /\ Begin(r)
    /\ Waiters(b) = {}
    /\ HandOver(b, {r})

AskInVain(r) ==
    /\ Begin(r)
    /\ UNCHANGED <<mail, open, waiting, got>>

Take(b) ==
    /\ Waiters(b) # {}
    /\ HandOver(b, Waiters(b))
    /\ UNCHANGED begun

GiveUp(r) ==
    /\ waiting[r] # None
    /\ waiting' = [waiting EXCEPT ![r] = None]
    /\ UNCHANGED <<mail, open, begun, got>>

Shut(e) ==
    /\ e \in open
    /\ open' = open \ {e}
    /\ mail' = [b \in Box |-> IF b[1] = e THEN <<>> ELSE mail[b]]
    /\ UNCHANGED <<waiting, begun, got>>

\* A call that took its message from a mailbox that is shut may yet fail
Withdraw(r) ==
    /\ open # End
    /\ got' = [got EXCEPT ![r] = None]
    /\ UNCHANGED <<mail, open, waiting, begun>>

Next ==
    \/ \E b \in Box : Take(b) \/ \E m \in Message : Put(b, m)
    \/ \E r \in Call, b \in Box : Ask(r, b) \/ AskAndTake(r, b)
    \/ \E r \in Call : AskInVain(r) \/ GiveUp(r) \/ Withdraw(r)
    \/ \E e \in End : Shut(e)

Spec == Init /\ [][Next]_vars
=============================================================================
