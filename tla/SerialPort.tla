------------------------------ MODULE SerialPort ------------------------------
(***************************************************************************)
(* What _get_machine_lock (clients/_telnet_state.py) promises the callers  *)
(* of one machine's telnet port: calls are served one at a time, and a     *)
(* caller that asked is served or gives up.                                *)
(***************************************************************************)
CONSTANTS Clients, None

VARIABLES
    waiting,    \* clients that asked for the port
    serving     \* the client that has it

vars == <<waiting, serving>>

Init == waiting = {} /\ serving = None

Ask(c) ==
    /\ c \notin waiting /\ serving # c
    /\ waiting' = waiting \cup {c}
    /\ UNCHANGED serving

Serve(c) ==
    /\ c \in waiting /\ serving = None
    /\ waiting' = waiting \ {c}
    /\ serving' = c

\* The call returned, or was cancelled.
Release(c) ==
    /\ serving = c
    /\ serving' = None
    /\ UNCHANGED waiting

\* Cancelled while it waits.
GiveUp(c) ==
    /\ c \in waiting
    /\ waiting' = waiting \ {c}
    /\ UNCHANGED serving

Next == \E c \in Clients : Ask(c) \/ Serve(c) \/ Release(c) \/ GiveUp(c)

NobodyStarves == \A c \in Clients : c \in waiting ~> c \notin waiting

SafeSpec == Init /\ [][Next]_vars

Spec == SafeSpec /\ NobodyStarves
=============================================================================
