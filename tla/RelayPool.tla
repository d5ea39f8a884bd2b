----------------------------- MODULE RelayPool -----------------------------
(***************************************************************************)
(* The IOCP relay pool of pb_relay.c: a fixed set of worker threads drives *)
(* the two directions of every proxied TCP connection through one I/O      *)
(* completion port.  A connection is freed by whoever drops its last       *)
(* reference; the engine's Stop aborts every connection, waits for the     *)
(* done event, sends one exit packet per worker and joins them.            *)
(*                                                                         *)
(* Threads: the pool workers, one connection worker per connection (it     *)
(* runs relay_start) and the thread that calls ProxyBridge_Start / _Stop.  *)
(* Grain: one step per interlocked operation, per critical section of      *)
(* g_relay_lock and per socket call; the only critical section that spans  *)
(* several steps is the sweep of relay_pool_abort.                         *)
(*                                                                         *)
(* External: the sockets and the completion port.  The peers' streams are  *)
(* chosen in Init (total bytes, and whether a clean EOF follows them), and *)
(* so is whether calls may fail on their own; the kernel may deliver the   *)
(* streams in any pieces and at any time.                                  *)
(***************************************************************************)
EXTENDS Integers, FiniteSets, Sequences

CONSTANTS
    Conns,      \* RELAY_CONN objects, one per relayed connection
    Workers,    \* threads of g_relay_workers
    BufSize,    \* RELAY_BUF_SIZE, in units of data
    PoolKeep,   \* RELAY_POOL_KEEP
    MaxBytes,   \* bound: units of data a peer sends in one direction
    NoDir,      \* a worker that waits on the port
    Exited      \* a worker that left relay_worker, or was never created

ASSUME RelayAssumption ==
    /\ IsFiniteSet(Workers)
    /\ BufSize \in Nat \ {0}
    /\ PoolKeep \in Nat
    /\ MaxBytes \in Nat
    /\ {NoDir, Exited} \cap (Conns \X {0, 1}) = {}
    /\ NoDir # Exited

Sides == {0, 1}                       \* rc->dir[0] uploads, rc->dir[1] downloads
Dirs  == Conns \X Sides
Sibling(d) == <<d[1], 1 - d[2]>>

VARIABLES
    running,    \* the engine's running flag
    iocp,       \* g_iocp # NULL
    accepting,  \* g_relay_accepting
    linked,     \* connections on the g_relay_head list
    active,     \* g_active_relays
    done,       \* g_relay_done is signalled
    conn,       \* life of the RELAY_CONN object
    refs,       \* rc->refs
    closing,    \* rc->closing
    shut,       \* both sockets had shutdown(SD_BOTH) and CancelIoEx
    starter,    \* program counter of relay_start for this connection
    ds,         \* where a direction is: in the kernel, in the port, in a thread
    op,         \* d->state: the operation posted last
    buf,        \* d->buf # NULL
    len, off,   \* d->len, d->off
    comp,       \* the completion packet of a queued direction
    rd,         \* units the kernel has copied out of the source stream
    out,        \* positions of the source stream written to the destination
    finOut,     \* shutdown(dst, SD_SEND) was called
    total, fin, \* the source stream: its length, and whether it ends cleanly
    faults,     \* whether socket calls and allocations may fail on their own
    freeBufs,   \* g_relay_pool_n
    heap,       \* buffers allocated with malloc and not yet freed
    worker,     \* the direction a worker handles, NoDir or Exited
    stopper,    \* program counter of the thread in Start / Stop
    todo,       \* connections relay_pool_abort still has to visit
    cursor,     \* {rc}: relay_pool_abort won rc's CAS, shutdown comes next
    exits       \* exit packets in the port

poolVars == <<running, iocp, accepting, linked, active, done>>
connVars == <<conn, refs, closing, shut, starter>>
dirVars  == <<ds, op, buf, len, off, comp>>
dataVars == <<rd, out, finOut>>
stopVars == <<stopper, todo, cursor, exits>>
vars == <<poolVars, connVars, dirVars, dataVars, total, fin, faults, freeBufs, heap, worker, stopVars>>

\* A direction that still owns one of the two references.
HoldsRef == {"off", "pending", "queued", "run", "abort", "shutdown", "dec"}
\* A direction through which some thread or the kernel still reaches its
\* RELAY_CONN.
Touches == HoldsRef \cup {"unlink", "close", "free"}

\* g_relay_lock is free: every other critical section is a single step.
LockFree == stopper \notin {"sweep1", "sweep2"}

Init ==
    /\ running = FALSE /\ iocp = FALSE /\ accepting = FALSE
    /\ linked = {} /\ active = 0 /\ done = FALSE
    /\ conn = [c \in Conns |-> "none"]
    /\ refs = [c \in Conns |-> 0]
    /\ closing = [c \in Conns |-> FALSE]
    /\ shut = [c \in Conns |-> FALSE]
    /\ starter = [c \in Conns |-> "idle"]
    /\ ds = [d \in Dirs |-> "off"]
    /\ op = [d \in Dirs |-> "wait"]
    /\ buf = [d \in Dirs |-> FALSE]
    /\ len = [d \in Dirs |-> 0]
    /\ off = [d \in Dirs |-> 0]
    /\ comp = [d \in Dirs |-> [ok |-> FALSE, n |-> 0]]
    /\ rd = [d \in Dirs |-> 0]
    /\ out = [d \in Dirs |-> << >>]
    /\ finOut = [d \in Dirs |-> FALSE]
    /\ total \in [Dirs -> 0..MaxBytes]
    /\ fin \in [Dirs -> BOOLEAN]
    /\ faults \in BOOLEAN
    /\ freeBufs = 0 /\ heap = 0
    /\ worker = [w \in Workers |-> Exited]
    /\ stopper = "down" /\ todo = {} /\ cursor = {} /\ exits = 0

----------------------------------------------------------------------------
(* The engine's Start and Stop, as far as they drive the pool.             *)

\* ProxyBridge_Start: running = TRUE, then relay_pool_start succeeds with at
\* least one of its threads.
relay_pool_start ==
    /\ stopper = "down"
    /\ stopper' = "up"
    /\ running' = TRUE /\ iocp' = TRUE /\ accepting' = TRUE /\ done' = TRUE
    /\ \E created \in IF faults THEN SUBSET Workers \ {{}} ELSE {Workers} :
         worker' = [w \in Workers |-> IF w \in created THEN NoDir ELSE Exited]
    /\ UNCHANGED <<linked, active, connVars, dirVars, dataVars, total, fin, faults,
                   freeBufs, heap, todo, cursor, exits>>

\* relay_pool_start fails (event, port or threads): every connection falls
\* back to the blocking relay.
PoolStartFails ==
    /\ faults
    /\ stopper = "down"
    /\ stopper' = "up"
    /\ running' = TRUE
    /\ UNCHANGED <<iocp, accepting, linked, active, done, connVars, dirVars,
                   dataVars, total, fin, faults, freeBufs, heap, worker, todo, cursor, exits>>

\* request_runtime_stop clears running; abort_active_relays then enters
\* relay_pool_abort, which takes the lock and stops accepting.
request_runtime_stop ==
    /\ stopper = "up"
    /\ running' = FALSE
    /\ stopper' = "aborting"
    /\ UNCHANGED <<iocp, accepting, linked, active, done, connVars, dirVars,
                   dataVars, total, fin, faults, freeBufs, heap, worker, todo, cursor, exits>>

\* relay_pool_abort: lock, accepting = FALSE, start at the head of the list.
SweepBegin ==
    /\ \/ stopper = "aborting" /\ stopper' = "sweep1"
       \/ stopper = "pool_stop" /\ iocp /\ stopper' = "sweep2"
    /\ accepting' = FALSE
    /\ todo' = linked
    /\ UNCHANGED <<running, iocp, linked, active, done, connVars, dirVars,
                   dataVars, total, fin, faults, freeBufs, heap, worker, cursor, exits>>

\* relay_abort for the next list entry: the compare-exchange on closing.
SweepCas(c) ==
    /\ ~LockFree /\ cursor = {} /\ c \in todo
    /\ todo' = todo \ {c}
    /\ cursor' = IF closing[c] THEN {} ELSE {c}
    /\ closing' = [closing EXCEPT ![c] = TRUE]
    /\ UNCHANGED <<poolVars, conn, refs, shut, starter, dirVars, dataVars,
                   total, fin, faults, freeBufs, heap, worker, stopper, exits>>

\* relay_abort won the exchange: shut both sockets down and cancel their I/O.
SweepShutdown(c) ==
    /\ cursor = {c}
    /\ cursor' = {}
    /\ shut' = [shut EXCEPT ![c] = TRUE]
    /\ UNCHANGED <<poolVars, conn, refs, closing, starter, dirVars, dataVars,
                   total, fin, faults, freeBufs, heap, worker, stopper, todo, exits>>

\* The sweep is over: release the lock.
SweepEnd ==
    /\ todo = {} /\ cursor = {}
    /\ \/ stopper = "sweep1" /\ stopper' = "drain"
       \/ stopper = "sweep2" /\ stopper' = "wait_done"
    /\ UNCHANGED <<poolVars, connVars, dirVars, dataVars, total, fin, faults, freeBufs, heap,
                   worker, todo, cursor, exits>>

\* wait_for_runtime_workers: no connection worker is left in relay_start
\* before relay_pool_stop is called; without a port it returns at once.
DrainConnectionWorkers ==
    /\ stopper = "drain"
    /\ \A c \in Conns : starter[c] \in {"idle", "done"}
    /\ stopper' = "pool_stop"
    /\ UNCHANGED <<poolVars, connVars, dirVars, dataVars, total, fin, faults, freeBufs, heap,
                   worker, todo, cursor, exits>>

NoPoolToStop ==
    /\ stopper = "pool_stop" /\ ~iocp
    /\ stopper' = "down"
    /\ UNCHANGED <<poolVars, connVars, dirVars, dataVars, total, fin, faults, freeBufs, heap,
                   worker, todo, cursor, exits>>

\* Mutant: the exit packets are posted without waiting for g_relay_done.
PostExits_NoWait ==
    /\ stopper = "wait_done"
    /\ stopper' = "join"
    /\ exits' = Cardinality({w \in Workers : worker[w] # Exited})
    /\ UNCHANGED <<poolVars, connVars, dirVars, dataVars, total, fin, faults, freeBufs, heap,
                   worker, todo, cursor>>

\* WaitForSingleObject(g_relay_done), then one exit packet per worker.
PostExits ==
    /\ stopper = "wait_done" /\ done
    /\ stopper' = "join"
    /\ exits' = Cardinality({w \in Workers : worker[w] # Exited})
    /\ UNCHANGED <<poolVars, connVars, dirVars, dataVars, total, fin, faults, freeBufs, heap,
                   worker, todo, cursor>>

\* All workers joined: close the port and the event, free the pooled buffers.
ClosePool ==
    /\ stopper = "join"
    /\ \A w \in Workers : worker[w] = Exited
    /\ stopper' = "down"
    /\ iocp' = FALSE /\ done' = FALSE
    /\ freeBufs' = 0 /\ heap' = heap - freeBufs
    /\ UNCHANGED <<running, accepting, linked, active, connVars, dirVars,
                   dataVars, total, fin, faults, worker, todo, cursor, exits>>

----------------------------------------------------------------------------
(* relay_start, on the connection's own worker thread.                     *)

\* The check before the allocation.
StartCheck(c) ==
    /\ starter[c] = "idle" /\ stopper # "down"
    /\ \/ iocp /\ running /\ starter' = [starter EXCEPT ![c] = "link"]
       \/ (~iocp \/ ~running \/ faults) /\ starter' = [starter EXCEPT ![c] = "done"]
    /\ UNCHANGED <<poolVars, conn, refs, closing, shut, dirVars, dataVars,
                   total, fin, faults, freeBufs, heap, worker, stopVars>>

\* Mutants: accepting is not re-checked under the lock; the done event is not
\* reset; only one reference is taken.
StartLink_NoRecheck(c) ==
    /\ starter[c] = "link" /\ LockFree
    /\ linked' = linked \cup {c}
    /\ active' = active + 1
    /\ done' = FALSE
    /\ conn' = [conn EXCEPT ![c] = "live"]
    /\ refs' = [refs EXCEPT ![c] = 2]
    /\ starter' = [starter EXCEPT ![c] = "post0"]
    /\ UNCHANGED <<running, iocp, accepting, closing, shut, dirVars, dataVars,
                   total, fin, faults, freeBufs, heap, worker, stopVars>>

StartLink_NoReset(c) ==
    /\ starter[c] = "link" /\ LockFree
    /\ IF accepting /\ running
       THEN /\ linked' = linked \cup {c}
            /\ active' = active + 1
            /\ conn' = [conn EXCEPT ![c] = "live"]
            /\ refs' = [refs EXCEPT ![c] = 2]
            /\ starter' = [starter EXCEPT ![c] = "post0"]
       ELSE /\ starter' = [starter EXCEPT ![c] = "done"]
            /\ UNCHANGED <<linked, active, conn, refs>>
    /\ UNCHANGED <<running, iocp, accepting, done, closing, shut, dirVars, dataVars,
                   total, fin, faults, freeBufs, heap, worker, stopVars>>

StartLink_OneRef(c) ==
    /\ starter[c] = "link" /\ LockFree
    /\ IF accepting /\ running
       THEN /\ linked' = linked \cup {c}
            /\ active' = active + 1
            /\ done' = FALSE
            /\ conn' = [conn EXCEPT ![c] = "live"]
            /\ refs' = [refs EXCEPT ![c] = 1]
            /\ starter' = [starter EXCEPT ![c] = "post0"]
       ELSE /\ starter' = [starter EXCEPT ![c] = "done"]
            /\ UNCHANGED <<linked, active, done, conn, refs>>
    /\ UNCHANGED <<running, iocp, accepting, closing, shut, dirVars, dataVars,
                   total, fin, faults, freeBufs, heap, worker, stopVars>>

\* Under the lock: link the connection, count it, reset the done event.
StartLink(c) ==
    /\ starter[c] = "link" /\ LockFree
    /\ IF accepting /\ running
       THEN /\ linked' = linked \cup {c}
            /\ active' = active + 1
            /\ done' = FALSE
            /\ conn' = [conn EXCEPT ![c] = "live"]
            /\ refs' = [refs EXCEPT ![c] = 2]
            /\ starter' = [starter EXCEPT ![c] = "post0"]
       ELSE /\ starter' = [starter EXCEPT ![c] = "done"]
            /\ UNCHANGED <<linked, active, done, conn, refs>>
    /\ UNCHANGED <<running, iocp, accepting, closing, shut, dirVars, dataVars,
                   total, fin, faults, freeBufs, heap, worker, stopVars>>

\* relay_post_wait for one side; a failed post runs relay_dir_end in place.
StartPost(c, s) ==
    /\ starter[c] = IF s = 0 THEN "post0" ELSE "post1"
    /\ \/ /\ ds' = [ds EXCEPT ![<<c, s>>] = "pending"]
          /\ starter' = [starter EXCEPT ![c] = IF s = 0 THEN "post1" ELSE "done"]
       \/ /\ faults \/ shut[c]
          /\ ds' = [ds EXCEPT ![<<c, s>>] = "abort"]
          /\ starter' = [starter EXCEPT ![c] = IF s = 0 THEN "end0" ELSE "end1"]
    /\ UNCHANGED <<poolVars, conn, refs, closing, shut, op, buf, len, off, comp,
                   dataVars, total, fin, faults, freeBufs, heap, worker, stopVars>>

\* relay_dir_end returned to relay_start.
StartResume(c) ==
    /\ \/ /\ starter[c] = "end0" /\ ds[<<c, 0>>] = "end"
          /\ starter' = [starter EXCEPT ![c] = "post1"]
       \/ /\ starter[c] = "end1" /\ ds[<<c, 1>>] = "end"
          /\ starter' = [starter EXCEPT ![c] = "done"]
    /\ UNCHANGED <<poolVars, conn, refs, closing, shut, dirVars, dataVars,
                   total, fin, faults, freeBufs, heap, worker, stopVars>>

----------------------------------------------------------------------------
(* The kernel: a posted operation completes (external).                    *)

\* How many units a successful completion of d's pending operation may carry:
\* a zero-byte receive waits for data or EOF; a read returns some of the data,
\* or 0 at EOF; a send takes some of the buffer.
OkSizes(d) ==
    CASE op[d] = "wait" -> IF rd[d] < total[d] \/ fin[d] THEN {0} ELSE {}
      [] op[d] = "read" -> IF rd[d] < total[d]
                           THEN {k \in 1..BufSize : k <= total[d] - rd[d]}
                           ELSE IF fin[d] THEN {0} ELSE {}
      [] op[d] = "send" -> (IF faults THEN 0 ELSE 1)..(len[d] - off[d])

\* The operation succeeds: a read has moved data into the buffer, a send has
\* moved it on to the destination.
Complete(d) ==
    /\ ds[d] = "pending" /\ ~shut[d[1]]
    /\ \E n \in OkSizes(d) :
         /\ comp' = [comp EXCEPT ![d] = [ok |-> TRUE, n |-> n]]
         /\ rd' = [rd EXCEPT ![d] = IF op[d] = "read" THEN @ + n ELSE @]
         /\ out' = [out EXCEPT ![d] =
               IF op[d] = "send"
               THEN @ \o [i \in 1..n |-> rd[d] - len[d] + off[d] + i]
               ELSE @]
    /\ ds' = [ds EXCEPT ![d] = "queued"]
    /\ UNCHANGED <<poolVars, connVars, op, buf, len, off, finOut, total, fin, faults,
                   freeBufs, heap, worker, stopVars>>

\* The operation fails: the connection was reset, or its sockets were shut
\* down and their I/O cancelled.
CompleteError(d) ==
    /\ ds[d] = "pending" /\ (faults \/ shut[d[1]])
    /\ comp' = [comp EXCEPT ![d] = [ok |-> FALSE, n |-> 0]]
    /\ ds' = [ds EXCEPT ![d] = "queued"]
    /\ UNCHANGED <<poolVars, connVars, op, buf, len, off, dataVars, total, fin, faults,
                   freeBufs, heap, worker, stopVars>>

----------------------------------------------------------------------------
(* relay_worker.                                                           *)

\* GetQueuedCompletionStatus hands one packet to one idle worker.
Dequeue(w, d) ==
    /\ worker[w] = NoDir /\ ds[d] = "queued"
    /\ worker' = [worker EXCEPT ![w] = d]
    /\ ds' = [ds EXCEPT ![d] = "run"]
    /\ UNCHANGED <<poolVars, connVars, op, buf, len, off, comp, dataVars, total,
                   fin, faults, freeBufs, heap, stopVars>>

\* An exit packet ends one worker.
WorkerExit(w) ==
    /\ worker[w] = NoDir /\ exits > 0
    /\ exits' = exits - 1
    /\ worker' = [worker EXCEPT ![w] = Exited]
    /\ UNCHANGED <<poolVars, connVars, dirVars, dataVars, total, fin, faults, freeBufs, heap,
                   stopper, todo, cursor>>

\* The worker (if any) that handled d goes back to the port.
Idle(d) == worker' = [w \in Workers |-> IF worker[w] = d THEN NoDir ELSE worker[w]]

\* WSARecv / WSASend as the last thing done with d: it is in the kernel now,
\* or the call failed and relay_dir_end(d, FALSE) follows.
Post(d, state) ==
    /\ op' = [op EXCEPT ![d] = state]
    /\ \/ ds' = [ds EXCEPT ![d] = "pending"] /\ Idle(d)
       \/ /\ faults \/ shut[d[1]]
          /\ ds' = [ds EXCEPT ![d] = "abort"] /\ UNCHANGED worker

\* relay_post_read: a direction without a buffer takes one from the pool or
\* from malloc, which may fail.
relay_post_read(d) ==
    \/ /\ buf[d]
       /\ Post(d, "read")
       /\ UNCHANGED <<buf, freeBufs, heap>>
    \/ /\ ~buf[d] /\ LockFree
       /\ buf' = [buf EXCEPT ![d] = TRUE]
       /\ IF freeBufs > 0
          THEN freeBufs' = freeBufs - 1 /\ UNCHANGED heap
          ELSE heap' = heap + 1 /\ UNCHANGED freeBufs
       /\ Post(d, "read")
    \/ /\ ~buf[d] /\ LockFree /\ freeBufs = 0 /\ faults
       /\ ds' = [ds EXCEPT ![d] = "abort"]
       /\ UNCHANGED <<buf, freeBufs, heap, op, worker>>

\* relay_buf_put for k buffers: kept for reuse up to PoolKeep, else freed.
relay_buf_put(k) ==
    LET kept == IF freeBufs + k <= PoolKeep THEN freeBufs + k ELSE PoolKeep
    IN  /\ freeBufs' = kept
        /\ heap' = heap - (freeBufs + k - kept)

\* Mutant: the direction keeps its buffer while it waits.
relay_post_wait_Keep(d) == Post(d, "wait") /\ UNCHANGED <<buf, freeBufs, heap>>

\* relay_post_wait from the worker: the buffer goes back to the pool.
relay_post_wait(d) ==
    /\ LockFree
    /\ relay_buf_put(IF buf[d] THEN 1 ELSE 0)
    /\ buf' = [buf EXCEPT ![d] = FALSE]
    /\ Post(d, "wait")

\* Mutant: an operation that was cancelled is tried again.
HandleError_Retry(d) ==
    /\ ds[d] = "run" /\ ~comp[d].ok
    /\ relay_post_wait(d)
    /\ UNCHANGED <<poolVars, connVars, len, off, comp, dataVars, total, fin, faults, stopVars>>

\* A failed completion: relay_dir_end(d, FALSE).
HandleError(d) ==
    /\ ds[d] = "run" /\ ~comp[d].ok
    /\ ds' = [ds EXCEPT ![d] = "abort"]
    /\ UNCHANGED <<poolVars, connVars, op, buf, len, off, comp, dataVars, total,
                   fin, faults, freeBufs, heap, worker, stopVars>>

\* RS_WAIT: data or a close is pending, read it.
HandleWait(d) ==
    /\ ds[d] = "run" /\ comp[d].ok /\ op[d] = "wait"
    /\ relay_post_read(d)
    /\ UNCHANGED <<poolVars, connVars, len, off, comp, dataVars, total, fin, faults, stopVars>>

\* RS_READ with data: send it.
HandleRead(d) ==
    /\ ds[d] = "run" /\ comp[d].ok /\ op[d] = "read" /\ comp[d].n > 0
    /\ len' = [len EXCEPT ![d] = comp[d].n]
    /\ off' = [off EXCEPT ![d] = 0]
    /\ Post(d, "send")
    /\ UNCHANGED <<poolVars, connVars, buf, comp, dataVars, total, fin, faults, freeBufs,
                   heap, stopVars>>

\* Mutant: a clean end of stream aborts the whole connection.
HandleEof_Abort(d) ==
    /\ ds[d] = "run" /\ comp[d].ok /\ op[d] = "read" /\ comp[d].n = 0
    /\ ds' = [ds EXCEPT ![d] = "abort"]
    /\ UNCHANGED <<poolVars, connVars, op, buf, len, off, comp, dataVars, total,
                   fin, faults, freeBufs, heap, worker, stopVars>>

\* Mutant: the end of the stream is not passed on.
HandleEof_Silent(d) ==
    /\ ds[d] = "run" /\ comp[d].ok /\ op[d] = "read" /\ comp[d].n = 0
    /\ ds' = [ds EXCEPT ![d] = "dec"]
    /\ UNCHANGED <<poolVars, connVars, op, buf, len, off, comp, dataVars, total,
                   fin, faults, freeBufs, heap, worker, stopVars>>

\* RS_READ at EOF: relay_dir_end(d, TRUE) closes only the destination's send
\* side and drops this direction's reference.
HandleEof(d) ==
    /\ ds[d] = "run" /\ comp[d].ok /\ op[d] = "read" /\ comp[d].n = 0
    /\ finOut' = [finOut EXCEPT ![d] = TRUE]
    /\ ds' = [ds EXCEPT ![d] = "dec"]
    /\ UNCHANGED <<poolVars, connVars, op, buf, len, off, comp, rd, out, total,
                   fin, faults, freeBufs, heap, worker, stopVars>>

\* Mutants: the unsent rest of a partial send is forgotten; it is sent again
\* from the start of the buffer.
HandleSend_DropRest(d) ==
    /\ ds[d] = "run" /\ comp[d].ok /\ op[d] = "send"
    /\ off' = [off EXCEPT ![d] = @ + comp[d].n]
    /\ IF len[d] < BufSize \div 4 THEN relay_post_wait(d) ELSE relay_post_read(d)
    /\ UNCHANGED <<poolVars, connVars, len, comp, dataVars, total, fin, faults, stopVars>>

HandleSend_Again(d) ==
    /\ ds[d] = "run" /\ comp[d].ok /\ op[d] = "send" /\ comp[d].n > 0
    /\ IF comp[d].n < len[d]
       THEN Post(d, "send") /\ UNCHANGED <<buf, freeBufs, heap>>
       ELSE IF len[d] < BufSize \div 4 THEN relay_post_wait(d)
                                       ELSE relay_post_read(d)
    /\ UNCHANGED <<poolVars, connVars, len, off, comp, dataVars, total, fin, faults, stopVars>>

\* RS_SEND: send the rest; then wait (light use) or read on (streaming).
HandleSend(d) ==
    /\ ds[d] = "run" /\ comp[d].ok /\ op[d] = "send"
    /\ IF comp[d].n = 0
       THEN /\ ds' = [ds EXCEPT ![d] = "abort"]
            /\ UNCHANGED <<op, buf, off, freeBufs, heap, worker>>
       ELSE /\ off' = [off EXCEPT ![d] = @ + comp[d].n]
            /\ IF off'[d] < len[d]
               THEN Post(d, "send") /\ UNCHANGED <<buf, freeBufs, heap>>
               ELSE IF len[d] < BufSize \div 4 THEN relay_post_wait(d)
                                               ELSE relay_post_read(d)
    /\ UNCHANGED <<poolVars, connVars, len, comp, dataVars, total, fin, faults, stopVars>>

----------------------------------------------------------------------------
(* relay_dir_end, on a pool worker or on the connection's starter.         *)

\* relay_abort: the compare-exchange on closing.
AbortCas(d) ==
    /\ ds[d] = "abort"
    /\ ds' = [ds EXCEPT ![d] = IF closing[d[1]] THEN "dec" ELSE "shutdown"]
    /\ closing' = [closing EXCEPT ![d[1]] = TRUE]
    /\ UNCHANGED <<poolVars, conn, refs, shut, starter, op, buf, len, off, comp,
                   dataVars, total, fin, faults, freeBufs, heap, worker, stopVars>>

\* relay_abort won: shut both sockets down, cancel the sibling's I/O.
AbortShutdown(d) ==
    /\ ds[d] = "shutdown"
    /\ shut' = [shut EXCEPT ![d[1]] = TRUE]
    /\ ds' = [ds EXCEPT ![d] = "dec"]
    /\ UNCHANGED <<poolVars, conn, refs, closing, starter, op, buf, len, off, comp,
                   dataVars, total, fin, faults, freeBufs, heap, worker, stopVars>>

\* relay_release: drop the reference; only the last one goes on.
ReleaseDec(d) ==
    /\ ds[d] = "dec"
    /\ refs' = [refs EXCEPT ![d[1]] = @ - 1]
    /\ IF refs[d[1]] = 1
       THEN ds' = [ds EXCEPT ![d] = "unlink"] /\ UNCHANGED worker
       ELSE ds' = [ds EXCEPT ![d] = "end"] /\ Idle(d)
    /\ UNCHANGED <<poolVars, conn, closing, shut, starter, op, buf, len, off, comp,
                   dataVars, total, fin, faults, freeBufs, heap, stopVars>>

\* Under the lock: unlink, uncount, signal done at zero.
ReleaseUnlink(d) ==
    /\ ds[d] = "unlink" /\ LockFree
    /\ linked' = linked \ {d[1]}
    /\ active' = active - 1
    /\ done' = (done \/ active = 1)
    /\ ds' = [ds EXCEPT ![d] = "close"]
    /\ UNCHANGED <<running, iocp, accepting, connVars, op, buf, len, off, comp,
                   dataVars, total, fin, faults, freeBufs, heap, worker, stopVars>>

\* closesocket on both sockets.
ReleaseClose(d) ==
    /\ ds[d] = "close"
    /\ conn' = [conn EXCEPT ![d[1]] = "closed"]
    /\ ds' = [ds EXCEPT ![d] = "free"]
    /\ UNCHANGED <<poolVars, refs, closing, shut, starter, op, buf, len, off, comp,
                   dataVars, total, fin, faults, freeBufs, heap, worker, stopVars>>

\* Mutant: the sibling's buffer is forgotten.
ReleaseFree_OneBuffer(d) ==
    /\ ds[d] = "free" /\ LockFree
    /\ relay_buf_put(IF buf[d] THEN 1 ELSE 0)
    /\ buf' = [x \in Dirs |-> buf[x] /\ x \notin {d, Sibling(d)}]
    /\ conn' = [conn EXCEPT ![d[1]] = "freed"]
    /\ ds' = [ds EXCEPT ![d] = "end"]
    /\ Idle(d)
    /\ UNCHANGED <<poolVars, refs, closing, shut, starter, op, len, off, comp,
                   dataVars, total, fin, faults, stopVars>>

\* Both buffers go back to the pool and the connection is freed.
ReleaseFree(d) ==
    /\ ds[d] = "free" /\ LockFree
    /\ relay_buf_put(Cardinality({x \in {d, Sibling(d)} : buf[x]}))
    /\ buf' = [x \in Dirs |-> buf[x] /\ x \notin {d, Sibling(d)}]
    /\ conn' = [conn EXCEPT ![d[1]] = "freed"]
    /\ ds' = [ds EXCEPT ![d] = "end"]
    /\ Idle(d)
    /\ UNCHANGED <<poolVars, refs, closing, shut, starter, op, len, off, comp,
                   dataVars, total, fin, faults, stopVars>>

----------------------------------------------------------------------------
Stopping ==
    \/ SweepBegin \/ SweepEnd \/ DrainConnectionWorkers \/ NoPoolToStop
    \/ PostExits \/ ClosePool
    \/ \E c \in Conns : SweepCas(c) \/ SweepShutdown(c)

relay_start(c) ==
    StartCheck(c) \/ StartLink(c) \/ StartPost(c, 0) \/ StartPost(c, 1) \/ StartResume(c)

\* The kernel completes d's pending operation.
Kernel(d) == Complete(d) \/ CompleteError(d)

\* The thread that handles d takes its next step.
relay_dir_end(d) ==
    \/ AbortCas(d) \/ AbortShutdown(d) \/ ReleaseDec(d) \/ ReleaseUnlink(d)
    \/ ReleaseClose(d) \/ ReleaseFree(d)

relay_worker(d) ==
    HandleError(d) \/ HandleWait(d) \/ HandleRead(d) \/ HandleEof(d) \/ HandleSend(d)

Next ==
    \/ relay_pool_start \/ PoolStartFails \/ request_runtime_stop \/ Stopping
    \/ \E c \in Conns : relay_start(c)
    \/ \E d \in Dirs : Kernel(d) \/ relay_worker(d) \/ relay_dir_end(d)
    \/ \E w \in Workers : WorkerExit(w) \/ \E d \in Dirs : Dequeue(w, d)

Spec == Init /\ [][Next]_vars

\* Every thread keeps running, and the kernel completes what it can.
Fairness ==
    /\ WF_vars(Stopping)
    /\ \A c \in Conns : WF_vars(relay_start(c))
    /\ \A d \in Dirs : /\ WF_vars(Kernel(d))
                       /\ WF_vars(relay_worker(d))
                       /\ WF_vars(relay_dir_end(d))
                       /\ WF_vars(\E w \in Workers : Dequeue(w, d))
    /\ \A w \in Workers : WF_vars(WorkerExit(w))

FairSpec == Spec /\ Fairness

----------------------------------------------------------------------------
(* Properties.                                                             *)

\* Types of the pool's and the connections' variables.
PoolTypeOK ==
    /\ running \in BOOLEAN /\ iocp \in BOOLEAN /\ accepting \in BOOLEAN
    /\ done \in BOOLEAN
    /\ linked \in SUBSET Conns
    /\ active \in Nat
    /\ conn \in [Conns -> {"none", "live", "closed", "freed"}]
    /\ refs \in [Conns -> 0..2]
    /\ closing \in [Conns -> BOOLEAN] /\ shut \in [Conns -> BOOLEAN]
    /\ starter \in [Conns -> {"idle", "link", "post0", "end0", "post1", "end1", "done"}]
    /\ freeBufs \in Nat /\ heap \in Int
    /\ worker \in [Workers -> Dirs \cup {NoDir, Exited}]
    /\ stopper \in {"down", "up", "aborting", "sweep1", "drain", "pool_stop",
                    "sweep2", "wait_done", "join"}
    /\ todo \in SUBSET Conns /\ cursor \in SUBSET Conns
    /\ exits \in Nat

\* Types of the directions' variables.
DirTypeOK ==
    /\ ds \in [Dirs -> Touches \cup {"end"}]
    /\ op \in [Dirs -> {"wait", "read", "send"}]
    /\ buf \in [Dirs -> BOOLEAN]
    /\ len \in [Dirs -> Nat] /\ off \in [Dirs -> Nat]
    /\ comp \in [Dirs -> [ok : BOOLEAN, n : Nat]]
    /\ rd \in [Dirs -> Nat]
    /\ out \in [Dirs -> Seq(Int)]
    /\ finOut \in [Dirs -> BOOLEAN]
    /\ total \in [Dirs -> Nat] /\ fin \in [Dirs -> BOOLEAN]
    /\ faults \in BOOLEAN

\* Type invariant: no reference count, relay count or packet count of the
\* pool ever leaves its range.
TypeOK == PoolTypeOK /\ DirTypeOK

\* relay_release closes the sockets and frees the connection only when
\* nothing can reach them any more: no operation in the kernel, no packet in
\* the port, no thread in relay_dir_end, no direction relay_start has yet to
\* post, and no sweep of relay_pool_abort that holds the connection.
NoUseAfterFree ==
    /\ \A d \in Dirs : /\ conn[d[1]] = "freed" => ds[d] \notin Touches
                       /\ conn[d[1]] = "closed" => ds[d] \notin HoldsRef
    /\ \A c \in todo \cup cursor : conn[c] = "live"

\* relay_pool_stop relies on g_relay_done: it is signalled exactly when no
\* connection is linked, and g_active_relays counts the linked ones.
DoneIsExact ==
    /\ active = Cardinality(linked)
    /\ iocp => (done <=> linked = {})

\* When the port is closed nothing of the pool is left: every worker has
\* left relay_worker, and every connection that was linked is freed.
CleanShutdown ==
    ~iocp => /\ \A w \in Workers : worker[w] = Exited
             /\ \A c \in Conns : conn[c] \in {"none", "freed"}

\* No buffer is leaked or put back twice: what malloc handed out is either in
\* the pool or owned by a direction, the pool respects RELAY_POOL_KEEP, and
\* relay_pool_stop frees the last one.
BuffersConserved ==
    /\ heap = freeBufs + Cardinality({d \in Dirs : buf[d]})
    /\ freeBufs <= PoolKeep
    /\ ~iocp => heap = 0

\* "an idle direction waits with a zero-byte receive and holds no buffer".
IdleHoldsNoBuffer ==
    \A d \in Dirs : ds[d] = "pending" /\ op[d] = "wait" => ~buf[d]

\* What reaches the destination is a prefix of the source stream, in order,
\* without gaps or repetitions, across partial reads and partial sends.
Prefix ==
    \A d \in Dirs : /\ out[d] = [i \in 1..Len(out[d]) |-> i]
                    /\ Len(out[d]) <= total[d]

\* relay_dir_end(d, TRUE): the destination sees end-of-stream only after all
\* of a cleanly ended source stream.
EofAfterAllData ==
    \A d \in Dirs : finOut[d] => fin[d] /\ Len(out[d]) = total[d]

\* A clean EOF of one direction leaves the reverse one alone: a connection
\* without faults of its own is shut down only after running was cleared.
EofKeepsReverse ==
    [][\A c \in Conns : closing'[c] /\ ~closing[c] => faults \/ ~running]_vars

\* The pool implements RelayService: it takes connections only while it
\* accepts, and relay_pool_stop returns only when every one was freed.
Service == INSTANCE RelayService
    WITH open <- iocp, live <- {c \in Conns : conn[c] \in {"live", "closed"}}
ImplementsService == Service!Spec

\* request_runtime_stop is followed by a closed pool: every pending operation
\* is cancelled, every worker gets its exit packet, every wait ends.
StopTerminates == stopper = "aborting" ~> stopper = "down"

\* Without faults and without Stop, everything a peer sends arrives, and a
\* stream that ends cleanly is half-closed at its destination.
AllDelivered ==
    \A d \in Dirs :
        conn[d[1]] = "live" ~>
            \/ Len(out[d]) = total[d] /\ (fin[d] => finOut[d])
            \/ closing[d[1]]
=============================================================================
