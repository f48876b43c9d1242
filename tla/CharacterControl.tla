-------------------------- MODULE CharacterControl --------------------------
(* What the account and session tables promise, without leases, credentials  *)
(* or rows: an avatar is driven by at most one connection, the connection is *)
(* live, an owner plays at most one avatar, and an avatar is put down before *)
(* another connection picks it up.                                           *)
EXTENDS Naturals

CONSTANTS Account, Guest, Character, CharacterAccount, Connection, None

Avatar == Character \cup Guest
Owner(p) == IF p \in Character THEN CharacterAccount[p] ELSE p

VARIABLES
    live,       \* connections that are open
    holder      \* the connection that drives each avatar, or None

HeldBy(c) == {p \in Avatar : holder[p] = c}

Init ==
    /\ live = {}
    /\ holder = [p \in Avatar |-> None]

Open(c) ==
    /\ c \notin live
    /\ live' = live \cup {c}
    /\ UNCHANGED holder

\* Put down any set of avatars.
Release(S) ==
    /\ holder' = [p \in Avatar |-> IF p \in S THEN None ELSE holder[p]]
    /\ UNCHANGED live

\* A connection that closes puts down everything it drives.
Close(c) ==
    /\ c \in live
    /\ live' = live \ {c}
    /\ holder' = [p \in Avatar |-> IF holder[p] = c THEN None ELSE holder[p]]

\* Pick up an avatar nobody drives, whose owner plays no other.
Acquire(c, p) ==
    /\ c \in live
    /\ \A q \in Avatar : Owner(q) = Owner(p) => holder[q] = None
    /\ holder' = [holder EXCEPT ![p] = c]
    /\ UNCHANGED live

Next ==
    \/ \E c \in Connection : Open(c) \/ Close(c)
    \/ \E S \in SUBSET Avatar : Release(S)
    \/ \E c \in Connection, p \in Avatar : Acquire(c, p)

Spec == Init /\ [][Next]_<<live, holder>>
=============================================================================
