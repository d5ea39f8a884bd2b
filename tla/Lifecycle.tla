----------------------------- MODULE Lifecycle -----------------------------
(***************************************************************************)
(* ProxyBridge_Start and ProxyBridge_Stop against the threads they own:    *)
(* the named engine threads, which are joined, and the detached connection *)
(* workers, which are counted by begin/end_connection_worker and awaited   *)
(* through connection_workers_done_event.  A worker hands its sockets to   *)
(* the relay pool (RelayService) or runs the blocking relay, whose pairs   *)
(* are registered so that Stop can shut them down.                         *)
(*                                                                         *)
(* Grain: one step per interlocked operation, event operation, test of     *)
(* running, critical section of relay_pairs_lock, and join.                *)
(***************************************************************************)
EXTENDS Integers, FiniteSets, Sequences

CONSTANTS
    Conns,      \* accepted client connections; each is dispatched once
    MaxStarts,  \* bound: how often ProxyBridge_Start is called
    NoConn

ASSUME LifecycleAssumption == MaxStarts \in Nat /\ NoConn \notin Conns

\* The joined threads, in the order Start creates and Stop joins them.
StartOrder == <<"owner", "listener", "udp", "cleanup", "packet">>
JoinOrder  == <<"packet", "listener", "udp", "cleanup">>
Threads    == {"owner", "listener", "udp", "cleanup", "packet"}
ReportsReady == {"listener", "udp"}     \* publish_start_result

VARIABLES
    running,
    shutdownEvent,  \* "none" (NULL), "clear" or "set"
    doneEvent,      \* connection_workers_done_event, likewise
    activeWorkers,  \* active_connection_workers
    api,            \* program counter of the thread in Start / Stop
    stage,          \* index into StartOrder or JoinOrder
    starts,
    thread,         \* "none", "starting", "looping", "failed" or "exited"
    lpc,            \* program counter of the listener's accept loop
    lconn,          \* the connection the listener is dispatching
    worker,         \* program counter of connection_handler, per connection
    client,         \* the client socket: "none", "open" or "closed"
    registered,     \* pairs on active_relay_pairs
    shut,           \* connections whose sockets had shutdown(SD_BOTH)
    refs,           \* pair->refs
    relay,          \* program counter of one_way_relay, per direction
    open, accepting, live   \* the relay pool

svc == INSTANCE RelayService
svcVars == <<open, accepting, live>>
workerVars == <<worker, client, registered, shut, refs, relay>>
listenVars == <<lpc, lconn>>
eventVars == <<running, shutdownEvent, doneEvent>>
apiVars == <<api, stage, starts>>
vars == <<eventVars, activeWorkers, apiVars, thread, listenVars, workerVars, svcVars>>

Dirs == Conns \X {"up", "dn"}

Init ==
    /\ running = FALSE /\ shutdownEvent = "none" /\ doneEvent = "none"
    /\ activeWorkers = 0
    /\ api = "down" /\ stage = 1 /\ starts = 0
    /\ thread = [t \in Threads |-> "none"]
    /\ lpc = "top" /\ lconn = NoConn
    /\ worker = [c \in Conns |-> "none"]
    /\ client = [c \in Conns |-> "none"]
    /\ registered = {} /\ shut = {}
    /\ refs = [c \in Conns |-> 0]
    /\ relay = [d \in Dirs |-> "none"]
    /\ svc!Init

----------------------------------------------------------------------------
(* ProxyBridge_Start.                                                      *)

\* The running check, the fresh lifecycle events and counters, running = TRUE.
StartBegin ==
    /\ api = "down" /\ ~running /\ starts < MaxStarts
    /\ starts' = starts + 1
    /\ shutdownEvent' = "clear" /\ doneEvent' = "set"
    /\ activeWorkers' = 0
    /\ running' = TRUE
    /\ api' = "pool" /\ stage' = 1
    /\ UNCHANGED <<thread, listenVars, workerVars, svcVars>>

\* relay_pool_start: without the pool the engine goes on.
StartPool ==
    /\ api = "pool"
    /\ api' = "create"
    /\ svc!Open \/ UNCHANGED svcVars
    /\ UNCHANGED <<eventVars, activeWorkers, stage, starts, thread, listenVars, workerVars>>

\* The next stage of Start, or success after the last one.
NextStage ==
    IF stage < Len(StartOrder) THEN stage' = stage + 1 /\ api' = "create"
                               ELSE stage' = 1 /\ api' = "up"

\* start_failed: the same teardown as Stop.
StartFailed == api' = "stop" /\ stage' = 1

\* CreateThread for the current stage; the UDP relay only with a SOCKS5 config.
CreateWorkerThread ==
    /\ api = "create"
    /\ LET t == StartOrder[stage] IN
       \/ /\ t \in ReportsReady
          /\ thread' = [thread EXCEPT ![t] = "starting"]
          /\ api' = "ready" /\ UNCHANGED stage
       \/ /\ t \notin ReportsReady
          /\ thread' = [thread EXCEPT ![t] = "looping"]
          /\ NextStage
       \/ t = "udp" /\ NextStage /\ UNCHANGED thread
       \/ StartFailed /\ UNCHANGED thread
       \/ /\ t = "owner"     \* one of the two observers started
          /\ thread' = [thread EXCEPT ![t] = "looping"]
          /\ StartFailed
    /\ lpc' = IF StartOrder[stage] = "listener" THEN "top" ELSE lpc
    /\ UNCHANGED <<eventVars, activeWorkers, starts, lconn, workerVars, svcVars>>

\* wait_for_worker_ready: the thread reported success, or it failed, or the
\* five seconds passed.
WaitReady ==
    /\ api = "ready"
    /\ \/ thread[StartOrder[stage]] = "looping" /\ NextStage
       \/ StartFailed
    /\ UNCHANGED <<eventVars, activeWorkers, starts, thread, listenVars, workerVars, svcVars>>

\* The thread binds its sockets and publishes the result.
PublishStart(t) ==
    /\ thread[t] = "starting"
    /\ \/ thread' = [thread EXCEPT ![t] = "looping"]
       \/ thread' = [thread EXCEPT ![t] = "failed"]
    /\ UNCHANGED <<eventVars, activeWorkers, apiVars, listenVars, workerVars, svcVars>>

\* A loop other than the listener's sees running = FALSE (or its handle shut).
ThreadExit(t) ==
    /\ \/ thread[t] = "failed"
       \/ thread[t] = "looping" /\ t # "listener" /\ ~running
    /\ thread' = [thread EXCEPT ![t] = "exited"]
    /\ UNCHANGED <<eventVars, activeWorkers, apiVars, listenVars, workerVars, svcVars>>

----------------------------------------------------------------------------
(* ProxyBridge_Stop and the teardown of a failed Start.                    *)

StopCall ==
    /\ api = "up" /\ running
    /\ api' = "stop" /\ stage' = 1
    /\ UNCHANGED <<eventVars, activeWorkers, starts, thread, listenVars, workerVars, svcVars>>

\* request_runtime_stop: running first, then the event.
ClearRunning ==
    /\ api = "stop"
    /\ running' = FALSE
    /\ api' = "signal"
    /\ UNCHANGED <<shutdownEvent, doneEvent, activeWorkers, stage, starts, thread,
                   listenVars, workerVars, svcVars>>

SignalShutdown ==
    /\ api = "signal"
    /\ shutdownEvent' = "set"
    /\ api' = "owners"
    /\ UNCHANGED <<running, doneEvent, activeWorkers, stage, starts, thread,
                   listenVars, workerVars, svcVars>>

\* stop_owner_observers joins the owner threads.
StopOwners ==
    /\ api = "owners" /\ thread["owner"] \in {"none", "exited"}
    /\ thread' = [thread EXCEPT !["owner"] = "none"]
    /\ api' = "abort_pool"
    /\ UNCHANGED <<eventVars, activeWorkers, stage, starts, listenVars, workerVars, svcVars>>

\* abort_active_relays: the pool, then every registered pair under the lock.
AbortPool ==
    /\ api = "abort_pool"
    /\ svc!StopAccepting
    /\ api' = "abort_pairs"
    /\ UNCHANGED <<eventVars, activeWorkers, stage, starts, thread, listenVars, workerVars>>

AbortPairs ==
    /\ api = "abort_pairs"
    /\ shut' = shut \cup registered
    /\ api' = "join" /\ stage' = 1
    /\ UNCHANGED <<eventVars, activeWorkers, starts, thread, listenVars, worker, client,
                   registered, refs, relay, svcVars>>

\* Mutant: the join gives up on a thread that is still running.
Join_NoWait ==
    /\ api = "join"
    /\ IF stage < Len(JoinOrder) THEN stage' = stage + 1 /\ UNCHANGED api
                                 ELSE stage' = 1 /\ api' = "wait_done"
    /\ UNCHANGED <<eventVars, activeWorkers, starts, thread, listenVars, workerVars, svcVars>>

\* wait_for_runtime_workers: join the threads one after the other.
Join ==
    /\ api = "join" /\ thread[JoinOrder[stage]] \in {"none", "exited"}
    /\ thread' = [thread EXCEPT ![JoinOrder[stage]] = "none"]
    /\ IF stage < Len(JoinOrder) THEN stage' = stage + 1 /\ UNCHANGED api
                                 ELSE stage' = 1 /\ api' = "wait_done"
    /\ UNCHANGED <<eventVars, activeWorkers, starts, listenVars, workerVars, svcVars>>

\* WaitForSingleObject(connection_workers_done_event, INFINITE).
WaitDone ==
    /\ api = "wait_done" /\ doneEvent = "set"
    /\ api' = "pool_stop"
    /\ UNCHANGED <<eventVars, activeWorkers, stage, starts, thread, listenVars, workerVars, svcVars>>

\* relay_pool_stop.
PoolStop ==
    /\ api = "pool_stop"
    /\ svc!Close \/ (~open /\ UNCHANGED svcVars)
    /\ api' = "release"
    /\ UNCHANGED <<eventVars, activeWorkers, stage, starts, thread, listenVars, workerVars>>

\* Free the tables and close the events.
ReleaseState ==
    /\ api = "release"
    /\ shutdownEvent' = "none" /\ doneEvent' = "none"
    /\ api' = "down"
    /\ UNCHANGED <<running, activeWorkers, stage, starts, thread, listenVars, workerVars, svcVars>>

----------------------------------------------------------------------------
(* local_proxy_server: the accept loop and begin_connection_worker.        *)

Listening == thread["listener"] = "looping"

ListenTop ==
    /\ Listening /\ lpc = "top"
    /\ IF running
       THEN lpc' = "select" /\ UNCHANGED thread
       ELSE UNCHANGED lpc /\ thread' = [thread EXCEPT !["listener"] = "exited"]
    /\ UNCHANGED <<eventVars, activeWorkers, apiVars, lconn, workerVars, svcVars>>

\* select times out, or a connection is accepted and its conntrack entry and
\* peer address are found good (then begin_connection_worker) or not.
ListenAccept ==
    /\ Listening /\ lpc = "select"
    /\ \/ lpc' = "top" /\ UNCHANGED <<lconn, client>>
       \/ \E c \in Conns :
            /\ client[c] = "none"
            /\ \/ client' = [client EXCEPT ![c] = "open"] /\ lpc' = "inc" /\ lconn' = c
               \/ client' = [client EXCEPT ![c] = "closed"] /\ lpc' = "top" /\ UNCHANGED lconn
    /\ UNCHANGED <<eventVars, activeWorkers, apiVars, thread, worker, registered, shut,
                   refs, relay, svcVars>>

BeginIncrement ==
    /\ Listening /\ lpc = "inc"
    /\ activeWorkers' = activeWorkers + 1
    /\ lpc' = "reset"
    /\ UNCHANGED <<eventVars, apiVars, thread, lconn, workerVars, svcVars>>

BeginReset ==
    /\ Listening /\ lpc = "reset"
    /\ doneEvent' = IF doneEvent = "none" THEN "none" ELSE "clear"
    /\ lpc' = "check"
    /\ UNCHANGED <<running, shutdownEvent, activeWorkers, apiVars, thread, lconn,
                   workerVars, svcVars>>

\* The running check, then CreateThread; either may fail.
BeginCheck ==
    /\ Listening /\ lpc = "check"
    /\ \/ /\ running
          /\ worker' = [worker EXCEPT ![lconn] = "handshake"]
          /\ lpc' = "top" /\ lconn' = NoConn
       \/ lpc' = "undo" /\ UNCHANGED <<worker, lconn>>
    /\ UNCHANGED <<eventVars, activeWorkers, apiVars, thread, client, registered, shut,
                   refs, relay, svcVars>>

\* The decrement of a refused dispatch; at zero the event is signalled next.
BeginUndo ==
    /\ Listening /\ lpc = "undo"
    /\ activeWorkers' = activeWorkers - 1
    /\ lpc' = IF activeWorkers = 1 THEN "undo_set" ELSE "drop"
    /\ UNCHANGED <<eventVars, apiVars, thread, lconn, workerVars, svcVars>>

BeginUndoSet ==
    /\ Listening /\ lpc = "undo_set"
    /\ doneEvent' = IF doneEvent = "none" THEN "none" ELSE "set"
    /\ lpc' = "drop"
    /\ UNCHANGED <<running, shutdownEvent, activeWorkers, apiVars, thread, lconn,
                   workerVars, svcVars>>

\* closesocket of the refused client.
ListenDrop ==
    /\ Listening /\ lpc = "drop"
    /\ client' = [client EXCEPT ![lconn] = "closed"]
    /\ lpc' = "top" /\ lconn' = NoConn
    /\ UNCHANGED <<eventVars, activeWorkers, apiVars, thread, worker, registered, shut,
                   refs, relay, svcVars>>

----------------------------------------------------------------------------
(* connection_handler.                                                     *)

\* Connect to the proxy and shake hands, within the sockets' timeouts; on
\* failure both sockets are closed.
Handshake(c) ==
    /\ worker[c] = "handshake"
    /\ \/ worker' = [worker EXCEPT ![c] = "transfer"] /\ UNCHANGED client
       \/ worker' = [worker EXCEPT ![c] = "end"] /\ client' = [client EXCEPT ![c] = "closed"]
    /\ UNCHANGED <<eventVars, activeWorkers, apiVars, thread, listenVars, registered,
                   shut, refs, relay, svcVars>>

\* transfer_handler: relay_start takes the sockets, or the blocking relay runs.
Transfer(c) ==
    /\ worker[c] = "transfer"
    /\ \/ /\ running
          /\ svc!Take(c)
          /\ worker' = [worker EXCEPT ![c] = "end"]
       \/ worker' = [worker EXCEPT ![c] = "register"] /\ UNCHANGED svcVars
    /\ UNCHANGED <<eventVars, activeWorkers, apiVars, thread, listenVars, client,
                   registered, shut, refs, relay>>

\* Mutant: running is not re-checked under relay_pairs_lock.
Register_NoCheck(c) ==
    /\ worker[c] = "register"
    /\ registered' = registered \cup {c}
    /\ refs' = [refs EXCEPT ![c] = 2]
    /\ worker' = [worker EXCEPT ![c] = "spawn"]
    /\ UNCHANGED <<eventVars, activeWorkers, apiVars, thread, listenVars, client, shut,
                   relay, svcVars>>

\* register_relay_pair under relay_pairs_lock, or no memory for the pair.
Register(c) ==
    /\ worker[c] = "register"
    /\ \/ /\ shutdownEvent = "none" \/ running
          /\ registered' = registered \cup {c}
          /\ refs' = [refs EXCEPT ![c] = 2]
          /\ worker' = [worker EXCEPT ![c] = "spawn"]
          /\ UNCHANGED client
       \/ /\ worker' = [worker EXCEPT ![c] = "end"]
          /\ client' = [client EXCEPT ![c] = "closed"]
          /\ UNCHANGED <<registered, refs>>
    /\ UNCHANGED <<eventVars, activeWorkers, apiVars, thread, listenVars, shut, relay, svcVars>>

\* The upload thread is created, or the pair is unregistered again.
Spawn(c) ==
    /\ worker[c] = "spawn"
    /\ \/ /\ relay' = [relay EXCEPT ![<<c, "up">>] = "loop", ![<<c, "dn">>] = "loop"]
          /\ worker' = [worker EXCEPT ![c] = "relay"]
          /\ UNCHANGED registered
       \/ /\ registered' = registered \ {c}
          /\ worker' = [worker EXCEPT ![c] = "close"]
          /\ UNCHANGED relay
    /\ UNCHANGED <<eventVars, activeWorkers, apiVars, thread, listenVars, client, shut,
                   refs, svcVars>>

CloseUnspawned(c) ==
    /\ worker[c] = "close"
    /\ client' = [client EXCEPT ![c] = "closed"]
    /\ worker' = [worker EXCEPT ![c] = "end"]
    /\ UNCHANGED <<eventVars, activeWorkers, apiVars, thread, listenVars, registered,
                   shut, refs, relay, svcVars>>

\* one_way_relay leaves its loop on the shutdown event or a shut socket
\* (RelayStopped), on a clean EOF, or on an error, which shuts the pair down.
RelayStopped(d) ==
    /\ relay[d] = "loop" /\ (shutdownEvent = "set" \/ d[1] \in shut)
    /\ shut' = shut \cup {d[1]}
    /\ relay' = [relay EXCEPT ![d] = "dec"]
    /\ UNCHANGED <<eventVars, activeWorkers, apiVars, thread, listenVars, worker, client,
                   registered, refs, svcVars>>

RelayEnds(d) ==
    /\ relay[d] = "loop"
    /\ shut' \in {shut, shut \cup {d[1]}}
    /\ relay' = [relay EXCEPT ![d] = "dec"]
    /\ UNCHANGED <<eventVars, activeWorkers, apiVars, thread, listenVars, worker, client,
                   registered, refs, svcVars>>

\* Mutant: the sockets are closed while the pair is still registered.
RelayDec_CloseFirst(d) ==
    /\ relay[d] = "dec"
    /\ refs' = [refs EXCEPT ![d[1]] = @ - 1]
    /\ relay' = [relay EXCEPT ![d] = IF refs[d[1]] = 1 THEN "close" ELSE "done"]
    /\ UNCHANGED <<eventVars, activeWorkers, apiVars, thread, listenVars, worker, client,
                   registered, shut, svcVars>>

\* The last direction out unregisters the pair, then closes both sockets.
RelayDec(d) ==
    /\ relay[d] = "dec"
    /\ refs' = [refs EXCEPT ![d[1]] = @ - 1]
    /\ relay' = [relay EXCEPT ![d] = IF refs[d[1]] = 1 THEN "unregister" ELSE "done"]
    /\ UNCHANGED <<eventVars, activeWorkers, apiVars, thread, listenVars, worker, client,
                   registered, shut, svcVars>>

RelayUnregister(d) ==
    /\ relay[d] = "unregister"
    /\ registered' = registered \ {d[1]}
    /\ relay' = [relay EXCEPT ![d] = "close"]
    /\ UNCHANGED <<eventVars, activeWorkers, apiVars, thread, listenVars, worker, client,
                   shut, refs, svcVars>>

RelayClose(d) ==
    /\ relay[d] = "close"
    /\ client' = [client EXCEPT ![d[1]] = "closed"]
    /\ relay' = [relay EXCEPT ![d] = "done"]
    /\ UNCHANGED <<eventVars, activeWorkers, apiVars, thread, listenVars, worker,
                   registered, shut, refs, svcVars>>

\* transfer_handler ran the download and joined the upload.
RelayJoined(c) ==
    /\ worker[c] = "relay"
    /\ relay[<<c, "up">>] = "done" /\ relay[<<c, "dn">>] = "done"
    /\ worker' = [worker EXCEPT ![c] = "end"]
    /\ UNCHANGED <<eventVars, activeWorkers, apiVars, thread, listenVars, client,
                   registered, shut, refs, relay, svcVars>>

\* Mutant: the last worker out does not signal the event.
EndDecrement_NoSet(c) ==
    /\ worker[c] = "end"
    /\ activeWorkers' = activeWorkers - 1
    /\ worker' = [worker EXCEPT ![c] = "gone"]
    /\ UNCHANGED <<eventVars, apiVars, thread, listenVars, client, registered, shut,
                   refs, relay, svcVars>>

\* end_connection_worker: the decrement, then SetEvent if it reached zero.
EndDecrement(c) ==
    /\ worker[c] = "end"
    /\ activeWorkers' = activeWorkers - 1
    /\ worker' = [worker EXCEPT ![c] = IF activeWorkers = 1 THEN "end_set" ELSE "gone"]
    /\ UNCHANGED <<eventVars, apiVars, thread, listenVars, client, registered, shut,
                   refs, relay, svcVars>>

EndSet(c) ==
    /\ worker[c] = "end_set"
    /\ doneEvent' = IF doneEvent = "none" THEN "none" ELSE "set"
    /\ worker' = [worker EXCEPT ![c] = "gone"]
    /\ UNCHANGED <<running, shutdownEvent, activeWorkers, apiVars, thread, listenVars,
                   client, registered, shut, refs, relay, svcVars>>

\* The pool is done with a connection (RelayPool).
PoolRelease(c) ==
    /\ svc!Release(c)
    /\ client' = [client EXCEPT ![c] = "closed"]
    /\ UNCHANGED <<eventVars, activeWorkers, apiVars, thread, listenVars, worker,
                   registered, shut, refs, relay>>

----------------------------------------------------------------------------
Start == StartBegin \/ StartPool \/ CreateWorkerThread \/ WaitReady

Stop ==
    \/ ClearRunning \/ SignalShutdown \/ StopOwners \/ AbortPool \/ AbortPairs
    \/ Join \/ WaitDone \/ PoolStop \/ ReleaseState

local_proxy_server ==
    \/ ListenTop \/ ListenAccept \/ BeginIncrement \/ BeginReset \/ BeginCheck
    \/ BeginUndo \/ BeginUndoSet \/ ListenDrop

connection_handler(c) ==
    \/ Handshake(c) \/ Transfer(c) \/ Register(c) \/ Spawn(c) \/ CloseUnspawned(c)
    \/ RelayJoined(c) \/ EndDecrement(c) \/ EndSet(c)

one_way_relay(d) ==
    RelayStopped(d) \/ RelayDec(d) \/ RelayUnregister(d) \/ RelayClose(d)

Next ==
    \/ Start \/ StopCall \/ Stop \/ local_proxy_server
    \/ \E t \in Threads : PublishStart(t) \/ ThreadExit(t)
    \/ \E c \in Conns : connection_handler(c) \/ PoolRelease(c)
    \/ \E d \in Dirs : one_way_relay(d) \/ RelayEnds(d)

Spec == Init /\ [][Next]_vars

\* Every thread keeps running.  A handshake ends by its socket timeouts, a
\* relay that was told to stop does, and the pool releases what it aborted.
Fairness ==
    /\ WF_vars(Start) /\ WF_vars(Stop) /\ WF_vars(local_proxy_server)
    /\ \A t \in Threads : WF_vars(PublishStart(t)) /\ WF_vars(ThreadExit(t))
    /\ \A c \in Conns : /\ WF_vars(connection_handler(c))
                        /\ WF_vars(~accepting /\ PoolRelease(c))
    /\ \A d \in Dirs : WF_vars(one_way_relay(d))

FairSpec == Spec /\ Fairness

----------------------------------------------------------------------------
(* Properties.                                                             *)

\* Type invariant.
TypeOK ==
    /\ running \in BOOLEAN
    /\ shutdownEvent \in {"none", "clear", "set"}
    /\ doneEvent \in {"none", "clear", "set"}
    /\ activeWorkers \in Int
    /\ api \in {"down", "pool", "create", "ready", "up", "stop", "signal", "owners",
                "abort_pool", "abort_pairs", "join", "wait_done", "pool_stop", "release"}
    /\ stage \in 1..Len(StartOrder)
    /\ starts \in 0..MaxStarts
    /\ thread \in [Threads -> {"none", "starting", "looping", "failed", "exited"}]
    /\ lpc \in {"top", "select", "inc", "reset", "check", "undo", "undo_set", "drop"}
    /\ lconn \in Conns \cup {NoConn}
    /\ worker \in [Conns -> {"none", "handshake", "transfer", "register", "spawn",
                             "close", "relay", "end", "end_set", "gone"}]
    /\ client \in [Conns -> {"none", "open", "closed"}]
    /\ registered \in SUBSET Conns /\ shut \in SUBSET Conns
    /\ refs \in [Conns -> 0..2]
    /\ relay \in [Dirs -> {"none", "loop", "dec", "unregister", "close", "done"}]
    /\ open \in BOOLEAN /\ accepting \in BOOLEAN /\ live \in SUBSET Conns

Stopping == {"join", "wait_done", "pool_stop", "release"}
InHandler == {"handshake", "transfer", "register", "spawn", "close", "relay", "end"}

\* Stop (and a failed Start) returns only after every named engine thread was
\* joined, whichever stage Start had reached and however late a thread that
\* missed its five-second deadline reports.
ThreadsJoined ==
    api \in {"wait_done", "pool_stop", "release", "down"} =>
        \A t \in Threads : thread[t] = "none"

\* abort_active_relays never shuts down a socket that was closed (and whose
\* handle may belong to someone else): a registered pair has open sockets.
RegisteredPairsOpen == \A c \in registered : client[c] = "open"

\* No pair escapes Stop: register_relay_pair re-checks running under the lock
\* abort_active_relays sweeps under, so once the sweep is done every pair
\* still registered has been shut down.
StopReachesEveryPair == api \in Stopping => registered \subseteq shut

\* Stop always returns: no join waits for ever, the done event is never lost,
\* and the pool drains.
StopReturns == api = "stop" ~> api = "down"

\* "every detached connection worker can now drain before shared state is
\* released": when the wait for connection_workers_done_event returns, no
\* worker is inside connection_handler.
WorkersDrained ==
    api \in {"pool_stop", "release"} => \A c \in Conns : worker[c] \notin InHandler
=============================================================================
