---------------------------- MODULE RelayService ----------------------------
(***************************************************************************)
(* What the relay pool promises the rest of the engine: it owns a set of   *)
(* connections, takes new ones only while it accepts, and closes only when *)
(* it owns none.  RelayPool implements this specification; Lifecycle       *)
(* composes it with the threads that use it.                               *)
(***************************************************************************)
CONSTANT Conns

VARIABLES
    open,       \* the pool runs (g_iocp # NULL)
    accepting,  \* g_relay_accepting
    live        \* connections the pool has taken over and not yet freed

svcVars == <<open, accepting, live>>

Init == open = FALSE /\ accepting = FALSE /\ live = {}

\* relay_pool_start
Open ==
    /\ ~open /\ live = {}
    /\ open' = TRUE /\ accepting' = TRUE
    /\ UNCHANGED live

\* relay_start returns TRUE
Take(c) ==
    /\ open /\ accepting /\ c \notin live
    /\ live' = live \cup {c}
    /\ UNCHANGED <<open, accepting>>

\* the last reference to c is gone: sockets closed, memory freed
Release(c) ==
    /\ c \in live
    /\ live' = live \ {c}
    /\ UNCHANGED <<open, accepting>>

\* relay_pool_abort
StopAccepting ==
    /\ accepting' = FALSE
    /\ UNCHANGED <<open, live>>

\* relay_pool_stop returns
Close ==
    /\ open /\ ~accepting /\ live = {}
    /\ open' = FALSE
    /\ UNCHANGED <<accepting, live>>

Next ==
    \/ Open \/ StopAccepting \/ Close
    \/ \E c \in Conns : Take(c) \/ Release(c)

Spec == Init /\ [][Next]_svcVars
=============================================================================
