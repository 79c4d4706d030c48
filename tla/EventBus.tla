------------------------------ MODULE EventBus ------------------------------
(***************************************************************************)
(* What the clients of a notification service may rely on: an event goes   *)
(* to members only, and to each of them at most once per membership.  It   *)
(* promises nothing about who misses it.                                   *)
(***************************************************************************)
CONSTANT Clients

VARIABLES
    members,    \* the clients that have registered and not left
    got         \* how often the current event has reached each client

Init ==
    /\ members = {}
    /\ got = [c \in Clients |-> 0]

Join(c) ==
    /\ c \notin members
    /\ members' = members \union {c}
    /\ UNCHANGED got

Leave(c) ==
    /\ c \in members
    /\ members' = members \ {c}
    /\ got' = [got EXCEPT ![c] = 0]

\* The service dies: everybody has to join its successor.
Restart ==
    /\ members' = {}
    /\ got' = [c \in Clients |-> 0]

NewEvent ==
    /\ got' = [c \in Clients |-> 0]
    /\ UNCHANGED members

Deliver(c) ==
    /\ c \in members
    /\ got[c] = 0
    /\ got' = [got EXCEPT ![c] = 1]
    /\ UNCHANGED members

Next ==
    \/ \E c \in Clients : Join(c) \/ Leave(c) \/ Deliver(c)
    \/ Restart \/ NewEvent

Spec == Init /\ [][Next]_<<members, got>>
=============================================================================
