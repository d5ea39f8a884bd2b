----------------------------- MODULE ConnTrack -----------------------------
(***************************************************************************)
(* The connection table of pb_conntrack.c: the forward table, singly       *)
(* linked buckets chosen by the source port alone, and the reverse index   *)
(* keyed by the original destination.  The packet, listener and UDP relay  *)
(* threads work on it in single critical sections of `lock`.  The cleanup  *)
(* thread walks a bucket through a pointer to a link, and releases the     *)
(* lock around every free.                                                 *)
(*                                                                         *)
(* Entries are cells of a small heap.  A freed cell keeps its link until   *)
(* calloc hands it out again; its other fields are never read (NoEntry).   *)
(***************************************************************************)
EXTENDS Integers, FiniteSets

CONSTANTS
    Keys,           \* (src_port, is_udp, is_ipv6) triples
    UdpKeys,        \* those with is_udp
    Buckets,        \* 1..CONNECTION_HASH_SIZE
    Bucket,         \* src_port % CONNECTION_HASH_SIZE of a key
    Dests,          \* original destinations
    Cells,          \* bound: heap cells for CONNECTION_INFO
    Null,
    UdpTimeout,     \* 20000 ms
    FinTimeout,     \* 60000 ms
    StaleTimeout,   \* CONNECTION_STALE_TIMEOUT_MS
    MaxTime,        \* bound: the clock stops here
    TickMod         \* 2^w for the w-bit tick arithmetic

ASSUME ConnTrackAssumption ==
    /\ Buckets \subseteq Nat \ {0} /\ IsFiniteSet(Buckets)
    /\ Bucket \in [Keys -> Buckets]
    /\ UdpKeys \subseteq Keys /\ UdpTimeout \in Nat
    /\ FinTimeout \in Nat /\ StaleTimeout \in Nat /\ FinTimeout <= StaleTimeout
    /\ MaxTime \in Nat /\ TickMod \in Nat /\ StaleTimeout + MaxTime < TickMod
    /\ Null \notin Cells

VARIABLES
    head,       \* connection_hash_table
    cell,       \* CONNECTION_INFO, per cell
    rev,        \* connection_rev_table: the cells on the list of a destination
    alloc,      \* cells allocated and not freed
    clock,      \* GetTickCount64
    lock,       \* "free", or "cleanup" while that thread is inside a bucket
    pc,         \* cleanup_stale_connections: "idle", "bucket", "scan", "free"
    bucket,     \* i
    link,       \* conn_ptr: <<"head", i>> or <<"next", cell>>
    victim,     \* to_free
    snapshot    \* now

tables == <<head, cell, rev, alloc>>
cleanupVars == <<lock, pc, bucket, link, victim, snapshot>>
vars == <<tables, clock, cleanupVars>>

NoEntry == [key |-> Null, dest |-> Null, act |-> 0, fin |-> {}, next |-> Null]

Init ==
    /\ head = [b \in Buckets |-> Null]
    /\ cell = [n \in Cells |-> NoEntry]
    /\ rev = [t \in Dests |-> {}]
    /\ alloc = {}
    /\ clock = 0
    /\ lock = "free" /\ pc = "idle" /\ bucket = 0
    /\ link = <<"head", 0>> /\ victim = Null /\ snapshot = 0

\* A set that has the first cell of a list, and the next one of each of its own.
Holds(c, n, S) == n \in S \cup {Null} /\ \A m \in S : c[m].next \in S \cup {Null}

\* The cells on the list that starts at n in heap c, also if it runs in circles:
\* those that no such set lacks.
Reach(c, n) == {m \in Cells : \A S \in SUBSET (Cells \ {m}) : ~Holds(c, n, S)}

Chain(n) == Reach(cell, n)

Tracked == UNION {Chain(head[b]) : b \in Buckets}

\* The entries that the walk along a bucket finds for a key.
Find(k) == {n \in Chain(head[Bucket[k]]) : cell[n].key = k}

Freed(n) == [NoEntry EXCEPT !.next = cell[n].next]

\* Unlink n from the bucket of its key and free it.
UnlinkAndFree(n) ==
    LET b == Bucket[cell[n].key] IN
    /\ head' = [head EXCEPT ![b] = IF @ = n THEN cell[n].next ELSE @]
    /\ cell' = [m \in Cells |->
          IF m = n THEN Freed(n)
          ELSE IF m \in Chain(head[b]) /\ cell[m].next = n
               THEN [cell[m] EXCEPT !.next = cell[n].next]
               ELSE cell[m]]
    /\ alloc' = alloc \ {n}

rev_unlink(n) == rev' = [t \in Dests |-> rev[t] \ {n}]

----------------------------------------------------------------------------
(* The packet, listener and relay threads.                                 *)

\* Mutant: the reverse index keeps the old destination of a reused entry.
add_connection_NoRekey(k, t) ==
    /\ lock = "free"
    /\ \/ \E n \in Find(k) :
            /\ cell' = [cell EXCEPT ![n].dest = t, ![n].act = clock, ![n].fin = {}]
            /\ UNCHANGED <<head, rev, alloc>>
       \/ /\ Find(k) = {}
          /\ \E n \in Cells \ alloc :
               /\ alloc' = alloc \cup {n}
               /\ cell' = [cell EXCEPT ![n] = [key |-> k, dest |-> t, act |-> clock,
                                               fin |-> {}, next |-> head[Bucket[k]]]]
               /\ head' = [head EXCEPT ![Bucket[k]] = n]
               /\ rev' = [rev EXCEPT ![t] = @ \cup {n}]
    /\ UNCHANGED <<clock, cleanupVars>>

\* add_connection(_v6): re-key the existing entry, or link a new one; calloc
\* may fail.
add_connection(k, t) ==
    /\ lock = "free"
    /\ \/ \E n \in Find(k) :
            /\ cell' = [cell EXCEPT ![n].dest = t, ![n].act = clock, ![n].fin = {}]
            /\ rev' = [u \in Dests |-> IF u = t THEN rev[u] \cup {n} ELSE rev[u] \ {n}]
            /\ UNCHANGED <<head, alloc>>
       \/ /\ Find(k) = {}
          /\ \E n \in Cells \ alloc :
               /\ alloc' = alloc \cup {n}
               /\ cell' = [cell EXCEPT ![n] = [key |-> k, dest |-> t, act |-> clock,
                                               fin |-> {}, next |-> head[Bucket[k]]]]
               /\ head' = [head EXCEPT ![Bucket[k]] = n]
               /\ rev' = [rev EXCEPT ![t] = @ \cup {n}]
    /\ UNCHANGED <<clock, cleanupVars>>

\* get_connection, get_connection_full(_v6): a lookup marks the entry active.
get_connection(k) ==
    /\ lock = "free"
    /\ \E n \in Find(k) : cell' = [cell EXCEPT ![n].act = clock]
    /\ UNCHANGED <<head, rev, alloc, clock, cleanupVars>>

connection_fin(k, bit) ==
    /\ lock = "free" /\ k \notin UdpKeys
    /\ \E n \in Find(k) :
         cell' = [cell EXCEPT ![n].act = clock, ![n].fin = @ \cup {bit}]
    /\ UNCHANGED <<head, rev, alloc, clock, cleanupVars>>

remove_connection(k) ==
    /\ lock = "free"
    /\ \E n \in Find(k) : UnlinkAndFree(n) /\ rev_unlink(n)
    /\ UNCHANGED <<clock, cleanupVars>>

\* udp_flow_validate keeps and marks an entry for the same destination that is
\* not older than its limit; otherwise, or when the policy generation has
\* changed (UdpDecision), it drops the entry.
udp_flow_validate(k, t) ==
    /\ lock = "free" /\ k \in UdpKeys
    /\ \E n \in Find(k) :
         \/ /\ cell[n].dest = t /\ clock - cell[n].act <= UdpTimeout
            /\ cell' = [cell EXCEPT ![n].act = clock]
            /\ UNCHANGED <<head, rev, alloc>>
         \/ UnlinkAndFree(n) /\ rev_unlink(n)
    /\ UNCHANGED <<clock, cleanupVars>>

\* ProxyBridge_Stop, after every thread was joined.
FreeTables ==
    /\ pc = "idle"
    /\ alloc' = alloc \ Tracked
    /\ cell' = [n \in Cells |-> IF n \in Tracked THEN Freed(n) ELSE cell[n]]
    /\ head' = [b \in Buckets |-> Null]
    /\ rev' = [t \in Dests |-> {}]
    /\ UNCHANGED <<clock, cleanupVars>>

----------------------------------------------------------------------------
(* cleanup_stale_connections.                                              *)

\* *conn_ptr and the store through it, whatever the pointer points into.
Deref == IF link[1] = "head" THEN head[link[2]] ELSE cell[link[2]].next

StoreLink(n) ==
    IF link[1] = "head"
    THEN head' = [head EXCEPT ![link[2]] = n] /\ UNCHANGED cell
    ELSE cell' = [cell EXCEPT ![link[2]].next = n] /\ UNCHANGED head

Timeout(n) == IF cell[n].fin = {1, 2} THEN FinTimeout ELSE StaleTimeout

\* The unsigned comparison now - last_activity > timeout.
Expired(n) == (snapshot - cell[n].act) % TickMod > Timeout(n)

CleanupBegin ==
    /\ pc = "idle"
    /\ snapshot' = clock
    /\ bucket' = 1 /\ pc' = "bucket"
    /\ UNCHANGED <<tables, clock, lock, link, victim>>

\* Lock and start at the head of bucket i, or finish after the last one.
CleanupBucket ==
    /\ pc = "bucket"
    /\ IF bucket \in Buckets
       THEN /\ lock = "free" /\ lock' = "cleanup"
            /\ link' = <<"head", bucket>>
            /\ pc' = "scan" /\ UNCHANGED bucket
       ELSE /\ pc' = "idle" /\ bucket' = 0
            /\ UNCHANGED <<lock, link>>
    /\ UNCHANGED <<tables, clock, victim, snapshot>>

\* An entry that has not expired is stepped over.
CleanupKeep ==
    /\ pc = "scan" /\ Deref # Null /\ ~Expired(Deref)
    /\ link' = <<"next", Deref>>
    /\ UNCHANGED <<tables, clock, lock, pc, bucket, victim, snapshot>>

\* An expired one is unlinked from both tables; then the lock is released.
CleanupUnlink ==
    /\ pc = "scan" /\ Deref # Null /\ Expired(Deref)
    /\ victim' = Deref
    /\ StoreLink(cell[Deref].next)
    /\ rev_unlink(Deref)
    /\ lock' = "free" /\ pc' = "free"
    /\ UNCHANGED <<alloc, clock, bucket, link, snapshot>>

\* Mutants: the entry is unlinked and never freed; the rest of the bucket is
\* skipped after a free.
CleanupFree_Leak ==
    /\ pc = "free" /\ lock = "free"
    /\ victim' = Null
    /\ lock' = "cleanup" /\ pc' = "scan"
    /\ UNCHANGED <<tables, clock, bucket, link, snapshot>>

CleanupFree_Break ==
    /\ pc = "free" /\ lock = "free"
    /\ alloc' = alloc \ {victim}
    /\ cell' = [cell EXCEPT ![victim] = Freed(victim)]
    /\ victim' = Null
    /\ bucket' = bucket + 1 /\ pc' = "bucket"
    /\ UNCHANGED <<head, rev, clock, lock, link, snapshot>>

\* free, and lock again to go on where the pointer points.
CleanupFree ==
    /\ pc = "free" /\ lock = "free"
    /\ alloc' = alloc \ {victim}
    /\ cell' = [cell EXCEPT ![victim] = Freed(victim)]
    /\ victim' = Null
    /\ lock' = "cleanup" /\ pc' = "scan"
    /\ UNCHANGED <<head, rev, clock, bucket, link, snapshot>>

CleanupNext ==
    /\ pc = "scan" /\ Deref = Null
    /\ lock' = "free" /\ bucket' = bucket + 1 /\ pc' = "bucket"
    /\ UNCHANGED <<tables, clock, link, victim, snapshot>>

cleanup_stale_connections ==
    \/ CleanupBegin \/ CleanupBucket \/ CleanupKeep \/ CleanupUnlink
    \/ CleanupFree \/ CleanupNext

Tick == clock < MaxTime /\ clock' = clock + 1 /\ UNCHANGED <<tables, cleanupVars>>

Next ==
    \/ \E k \in Keys, t \in Dests : add_connection(k, t) \/ udp_flow_validate(k, t)
    \/ \E k \in Keys : \/ get_connection(k) \/ remove_connection(k)
                       \/ \E bit \in {1, 2} : connection_fin(k, bit)
    \/ FreeTables \/ cleanup_stale_connections \/ Tick

Spec == Init /\ [][Next]_vars

\* No other thread frees an entry of the bucket that
\* cleanup_stale_connections is in while that thread has released the lock.
Window ==
    pc = "free" => \A n \in alloc \ alloc' : n = victim \/ Bucket[cell[n].key] # bucket

WindowSpec == Init /\ [][Next /\ Window]_vars

----------------------------------------------------------------------------
(* Properties.                                                             *)

\* Type invariant.
TypeOK ==
    /\ head \in [Buckets -> Cells \cup {Null}]
    /\ cell \in [Cells -> [key : Keys \cup {Null}, dest : Dests \cup {Null},
                           act : 0..MaxTime, fin : SUBSET {1, 2}, next : Cells \cup {Null}]]
    /\ rev \in [Dests -> SUBSET Cells]
    /\ alloc \in SUBSET Cells
    /\ clock \in 0..MaxTime /\ snapshot \in 0..MaxTime
    /\ lock \in {"free", "cleanup"} /\ pc \in {"idle", "bucket", "scan", "free"}
    /\ bucket \in Nat /\ victim \in Cells \cup {Null}
    /\ link \in ({"head"} \X (Buckets \cup {0})) \cup ({"next"} \X Cells)

\* "every add/update/remove/cleanup keeps them consistent": the reverse index
\* holds exactly the entries of the forward table, each under its current
\* destination, and none of them was freed.
TablesConsistent ==
    /\ Tracked \subseteq alloc
    /\ \A t \in Dests : rev[t] = {n \in Tracked : cell[n].dest = t}

\* No entry is leaked: every allocated cell is in the table, or is the one the
\* cleanup thread is about to free.
NothingLeaked ==
    alloc \subseteq Tracked \cup (IF pc = "free" THEN {victim} ELSE {})

\* A pass leaves no stale entry behind: in the buckets it has finished, every
\* entry was active within the timeout before the pass began, whatever was
\* added, updated or removed while the lock was released.
PassIsComplete ==
    \A b \in Buckets :
        pc \in {"bucket", "scan"} /\ b < bucket =>
            \A n \in Chain(head[b]) : snapshot - cell[n].act <= Timeout(n)
=============================================================================
