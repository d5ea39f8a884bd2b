------------------------------ MODULE ConnLog ------------------------------
(***************************************************************************)
(* The list of logged connections, which keeps a connection from being     *)
(* reported twice.  The packet thread adds to it and trims it, with the    *)
(* lock released while it frees what it cut off; the API thread clears it; *)
(* the cleanup thread trims it without touching the counter.               *)
(***************************************************************************)
EXTENDS Integers, Sequences, FiniteSets

CONSTANTS
    Items,      \* (pid, destination, port, action) tuples
    Cap,        \* 100
    MaxClears,  \* bound: how often the API clears the list
    NoItem

VARIABLES
    logged,     \* logged_connections, newest first
    count,      \* g_logged_count
    pc,         \* the packet thread: "idle", "add" or "free"
    item,       \* the connection it reports
    cut,        \* freed: how many entries it cut off
    enabled,    \* g_traffic_logging_enabled
    clears

vars == <<logged, count, pc, item, cut, enabled, clears>>

Init ==
    /\ logged = << >> /\ count = 0
    /\ pc = "idle" /\ item = NoItem /\ cut = 0
    /\ enabled = TRUE /\ clears = 0

Entries(s) == {s[i] : i \in 1..Len(s)}

\* packet_processor: a connection that is_connection_already_logged does not
\* find is reported and, with logging enabled, added.
Report(x) ==
    /\ pc = "idle" /\ x \notin Entries(logged) /\ enabled
    /\ pc' = "add" /\ item' = x
    /\ UNCHANGED <<logged, count, cut, enabled, clears>>

\* The new entry becomes the head of the list; malloc may fail.
LinkItem(n) ==
    /\ \/ logged' = <<item>> \o logged /\ count' = n + 1
       \/ UNCHANGED logged /\ count' = n
    /\ pc' = "idle" /\ item' = NoItem /\ cut' = 0

\* Mutant: the limit is off by one.
AddTrim_OffByOne ==
    /\ pc = "add"
    /\ IF count > Cap /\ Len(logged) >= Cap
       THEN /\ cut' = Len(logged) - (Cap - 1)
            /\ logged' = SubSeq(logged, 1, Cap - 1)
            /\ pc' = "free"
            /\ UNCHANGED <<count, item>>
       ELSE LinkItem(count)
    /\ UNCHANGED <<enabled, clears>>

\* add_logged_connection: at the limit, keep the newest Cap - 1 entries and
\* release the lock to free the others.
AddTrim ==
    /\ pc = "add"
    /\ IF count >= Cap /\ Len(logged) >= Cap
       THEN /\ cut' = Len(logged) - (Cap - 1)
            /\ logged' = SubSeq(logged, 1, Cap - 1)
            /\ pc' = "free"
            /\ UNCHANGED <<count, item>>
       ELSE LinkItem(count)
    /\ UNCHANGED <<enabled, clears>>

\* Lock again, correct the counter, link the new entry.
AddLink ==
    /\ pc = "free"
    /\ LinkItem(count - cut)
    /\ UNCHANGED <<enabled, clears>>

\* ProxyBridge_ClearConnectionLogs, ProxyBridge_SetTrafficLoggingEnabled.
clear_logged_connections ==
    /\ clears < MaxClears
    /\ clears' = clears + 1
    /\ logged' = << >> /\ count' = 0
    /\ enabled' \in {enabled, FALSE}
    /\ UNCHANGED <<pc, item, cut>>

EnableLogging ==
    /\ ~enabled
    /\ enabled' = TRUE
    /\ UNCHANGED <<logged, count, pc, item, cut, clears>>

\* cleanup_stale_connections keeps the newest Cap entries.
CleanupTrim ==
    /\ Len(logged) > Cap
    /\ logged' = SubSeq(logged, 1, Cap)
    /\ UNCHANGED <<count, pc, item, cut, enabled, clears>>

Next ==
    \/ \E x \in Items : Report(x)
    \/ AddTrim \/ AddLink \/ clear_logged_connections \/ EnableLogging \/ CleanupTrim

Spec == Init /\ [][Next]_vars

----------------------------------------------------------------------------
(* Properties.                                                             *)

\* The list is bounded: every clear that hits the window in which the lock is
\* released can push the counter below the length by at most what was cut off.
ListBounded == Len(logged) <= Cap + clears
=============================================================================
