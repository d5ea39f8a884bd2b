-------------------------- MODULE LifecycleProofs --------------------------
(***************************************************************************)
(* Proof that Stop reaches every thread and every relay pair, and never a  *)
(* closed socket, for any number of connections, starts and stops.         *)
(***************************************************************************)
EXTENDS Lifecycle, TLAPS

\* The named threads: what was joined stays joined until the next Start.
ThreadInv ==
    /\ api \in {"wait_done", "pool_stop", "release", "down", "pool"} =>
         \A t \in Threads : thread[t] = "none"
    /\ api \in {"abort_pool", "abort_pairs", "join"} => thread["owner"] = "none"
    /\ api = "join" => /\ stage \in 1..4
                       /\ \A i \in 1..4 : i < stage => thread[JoinOrder[i]] = "none"

\* The order of request_runtime_stop: running is cleared and the event set
\* before the pairs are swept, and both stay so until the state is released.
EventInv ==
    /\ api \in {"signal", "owners", "abort_pool", "abort_pairs", "down"} \cup Stopping => ~running
    /\ api \in {"owners", "abort_pool", "abort_pairs"} \cup Stopping => shutdownEvent = "set"
    /\ StopReachesEveryPair

\* A direction that still holds its reference to the pair.
Counted(c, s) == IF relay[<<c, s>>] \in {"loop", "dec"} THEN 1 ELSE 0

\* The blocking relay: the directions count the references, the one that drops
\* the last of them is alone, and what it has unregistered stays so.
RelayInv(c) ==
    /\ relay[<<c, "up">>] # "none" /\ relay[<<c, "dn">>] # "none"
    /\ refs[c] = Counted(c, "up") + Counted(c, "dn")
    /\ relay[<<c, "up">>] \in {"unregister", "close"} => relay[<<c, "dn">>] = "done"
    /\ relay[<<c, "dn">>] \in {"unregister", "close"} => relay[<<c, "up">>] = "done"
    /\ c \in registered =>
         refs[c] # 0 \/ relay[<<c, "up">>] = "unregister" \/ relay[<<c, "dn">>] = "unregister"

\* One connection: who holds its sockets, and what has been set up for it.
PairInv(c) ==
    /\ worker[c] \notin {"relay", "end", "end_set", "gone"} =>
         relay[<<c, "up">>] = "none" /\ relay[<<c, "dn">>] = "none"
    /\ worker[c] \in {"end", "end_set", "gone"} =>
         relay[<<c, "up">>] \in {"none", "done"} /\ relay[<<c, "dn">>] \in {"none", "done"}
    /\ worker[c] = "spawn" => refs[c] = 2
    /\ worker[c] = "relay" => RelayInv(c)
    /\ worker[c] \in {"handshake", "transfer", "register", "spawn", "close"} => client[c] = "open"
    /\ client[c] = "none" => worker[c] = "none"
    /\ c \in registered => worker[c] \in {"spawn", "relay"} /\ client[c] = "open"
    /\ c \in live => worker[c] \in {"end", "end_set", "gone"}

\* The connection the listener is dispatching is nobody else's.
ListenInv ==
    lpc \notin {"top", "select"} =>
        lconn \in Conns /\ worker[lconn] = "none" /\ client[lconn] = "open"

IInv == TypeOK /\ ThreadInv /\ EventInv /\ ListenInv /\ \A c \in Conns : PairInv(c)
----------------------------------------------------------------------------
\* Every step keeps the types; a reference is dropped only where one is held.
LEMMA TypeStep == ASSUME IInv, [Next]_vars PROVE TypeOK'
<1>0. TypeOK /\ ListenInv
  BY DEF IInv
<1> USE DEF TypeOK, ListenInv, Threads, Dirs, svcVars, workerVars, listenVars, eventVars, apiVars
<1>1. CASE StartBegin
  <2>1. starts' \in 0..MaxStarts
    BY <1>0, <1>1, LifecycleAssumption DEF StartBegin
  <2>2. QED
    BY <1>0, <1>1, <2>1 DEF StartBegin, StartOrder
<1>2. CASE StartPool
  <2>1. open' \in BOOLEAN /\ accepting' \in BOOLEAN /\ live' \in SUBSET Conns
    BY <1>0, <1>2, Zenon DEF StartPool, svc!Open
  <2>2. QED
    BY <1>0, <1>2, <2>1 DEF StartPool
<1>3. CASE CreateWorkerThread
  BY <1>0, <1>3 DEF CreateWorkerThread, NextStage, StartFailed, ReportsReady, StartOrder
<1>4. CASE WaitReady
  BY <1>0, <1>4 DEF WaitReady, NextStage, StartFailed, StartOrder
<1>5. CASE StopCall
  BY <1>0, <1>5 DEF StopCall
<1>6. CASE ClearRunning
  BY <1>0, <1>6, ZenonT(30) DEF ClearRunning
<1>7. CASE SignalShutdown
  BY <1>0, <1>7 DEF SignalShutdown
<1>8. CASE StopOwners
  BY <1>0, <1>8 DEF StopOwners
<1>9. CASE AbortPool
  BY <1>0, <1>9, ZenonT(30) DEF AbortPool, svc!StopAccepting
<1>10. CASE AbortPairs
  BY <1>0, <1>10 DEF AbortPairs
<1>11. CASE Join
  <2>1. thread' \in [Threads -> {"none", "starting", "looping", "failed", "exited"}]
    BY <1>0, <1>11 DEF Join
  <2>2. stage' \in 1..5 /\ api' \in {"join", "wait_done"}
    BY <1>0, <1>11 DEF Join, JoinOrder, StartOrder
  <2>3. QED
    BY <1>0, <1>11, <2>1, <2>2 DEF Join, StartOrder
<1>12. CASE WaitDone
  BY <1>0, <1>12 DEF WaitDone
<1>13. CASE PoolStop
  BY <1>0, <1>13, ZenonT(30) DEF PoolStop, svc!Close
<1>14. CASE ReleaseState
  BY <1>0, <1>14 DEF ReleaseState
<1>15. CASE \E t \in Threads : PublishStart(t)
  BY <1>0, <1>15 DEF PublishStart
<1>16. CASE \E t \in Threads : ThreadExit(t)
  BY <1>0, <1>16 DEF ThreadExit
<1>17. CASE ListenTop
  BY <1>0, <1>17 DEF ListenTop
<1>18. CASE ListenAccept
  <2>1. client' \in [Conns -> {"none", "open", "closed"}] /\ lconn' \in Conns \cup {NoConn}
        /\ lpc' \in {"top", "inc"}
    BY <1>0, <1>18 DEF ListenAccept
  <2>2. QED
    BY <1>0, <1>18, <2>1 DEF ListenAccept
<1>19. CASE BeginIncrement
  BY <1>0, <1>19 DEF BeginIncrement
<1>20. CASE BeginReset
  BY <1>0, <1>20 DEF BeginReset
<1>21. CASE BeginCheck
  BY <1>0, <1>21 DEF BeginCheck
<1>22. CASE BeginUndo
  BY <1>0, <1>22 DEF BeginUndo
<1>23. CASE BeginUndoSet
  BY <1>0, <1>23 DEF BeginUndoSet
<1>24. CASE ListenDrop
  BY <1>0, <1>24 DEF ListenDrop
<1>25. CASE \E c \in Conns : Handshake(c)
  BY <1>0, <1>25 DEF Handshake
<1>26. CASE \E c \in Conns : Transfer(c)
  BY <1>0, <1>26 DEF Transfer, svc!Take
<1>27. CASE \E c \in Conns : Register(c)
  BY <1>0, <1>27 DEF Register
<1>28. CASE \E c \in Conns : Spawn(c)
  <2>1. PICK c \in Conns : Spawn(c)
    BY <1>28
  <2>2. <<c, "up">> \in Dirs /\ <<c, "dn">> \in Dirs
    OBVIOUS
  <2>3. relay' \in [Dirs -> {"none", "loop", "dec", "unregister", "close", "done"}]
    BY <1>0, <2>1, <2>2 DEF Spawn
  <2>4. QED
    BY <1>0, <2>1, <2>3 DEF Spawn
<1>29. CASE \E c \in Conns : CloseUnspawned(c)
  BY <1>0, <1>29 DEF CloseUnspawned
<1>30. CASE \E c \in Conns : RelayJoined(c)
  BY <1>0, <1>30 DEF RelayJoined
<1>31. CASE \E c \in Conns : EndDecrement(c)
  BY <1>0, <1>31 DEF EndDecrement
<1>32. CASE \E c \in Conns : EndSet(c)
  BY <1>0, <1>32 DEF EndSet
<1>33. CASE \E c \in Conns : PoolRelease(c)
  BY <1>0, <1>33 DEF PoolRelease, svc!Release
<1>34. CASE \E d \in Dirs : RelayStopped(d)
  BY <1>0, <1>34 DEF RelayStopped
<1>35. CASE \E d \in Dirs : RelayEnds(d)
  BY <1>0, <1>35 DEF RelayEnds
<1>36. CASE \E d \in Dirs : RelayDec(d)
  <2>1. PICK c \in Conns, s \in {"up", "dn"} : RelayDec(<<c, s>>)
    BY <1>36
  <2>2. refs[c] \in 1..2
    <3>1. PairInv(c) /\ relay[<<c, s>>] = "dec"
      BY <2>1 DEF RelayDec, IInv
    <3>2. QED
      BY <1>0, <3>1, SMTT(30) DEF PairInv, RelayInv, Counted
  <2>3. refs' \in [Conns -> 0..2]
    BY <1>0, <2>1, <2>2 DEF RelayDec
  <2>4. relay' \in [Dirs -> {"none", "loop", "dec", "unregister", "close", "done"}]
    <3>1. PICK to \in {"unregister", "done"} : relay' = [relay EXCEPT ![<<c, s>>] = to]
      BY <2>1 DEF RelayDec
    <3>2. QED
      BY <1>0, <3>1
  <2>5. QED
    BY <1>0, <2>1, <2>3, <2>4 DEF RelayDec
<1>37. CASE \E d \in Dirs : RelayUnregister(d)
  BY <1>0, <1>37 DEF RelayUnregister
<1>38. CASE \E d \in Dirs : RelayClose(d)
  BY <1>0, <1>38 DEF RelayClose
<1>39. CASE UNCHANGED vars
  BY <1>0, <1>39 DEF vars
<1>40. QED
  BY <1>1, <1>2, <1>3, <1>4, <1>5, <1>6, <1>7, <1>8, <1>9, <1>10, <1>11, <1>12, <1>13, <1>14,
     <1>15, <1>16, <1>17, <1>18, <1>19, <1>20, <1>21, <1>22, <1>23, <1>24, <1>25, <1>26, <1>27,
     <1>28, <1>29, <1>30, <1>31, <1>32, <1>33, <1>34, <1>35, <1>36, <1>37, <1>38, <1>39
     DEF Next, Start, Stop, local_proxy_server, connection_handler, one_way_relay

\* Start and Stop in their order; a worker registers a pair only while running
\* is set or the engine has no shutdown event.
LEMMA ApiStep == ASSUME IInv, [Next]_vars PROVE ThreadInv' /\ EventInv'
<1>0. TypeOK /\ ThreadInv /\ EventInv
  BY DEF IInv
<1> USE DEF ThreadInv, EventInv, StopReachesEveryPair, Stopping, svcVars, workerVars, listenVars,
            eventVars, apiVars
<1>1. CASE StartBegin
  BY <1>0, <1>1 DEF StartBegin
<1>2. CASE StartPool
  BY <1>0, <1>2 DEF StartPool, svc!Open
<1>3. CASE CreateWorkerThread
  BY <1>0, <1>3 DEF CreateWorkerThread, NextStage, StartFailed, ReportsReady, StartOrder
<1>4. CASE WaitReady
  BY <1>0, <1>4 DEF WaitReady, NextStage, StartFailed, StartOrder
<1>5. CASE StopCall
  BY <1>0, <1>5 DEF StopCall
<1>6. CASE ClearRunning
  BY <1>0, <1>6 DEF ClearRunning
<1>7. CASE SignalShutdown
  BY <1>0, <1>7 DEF SignalShutdown
<1>8. CASE StopOwners
  <2>1. thread'["owner"] = "none" /\ api' = "abort_pool"
    BY <1>0, <1>8 DEF StopOwners, TypeOK, Threads
  <2>2. QED
    BY <1>0, <1>8, <2>1 DEF StopOwners
<1>9. CASE AbortPool
  BY <1>0, <1>9 DEF AbortPool, svc!StopAccepting
<1>10. CASE AbortPairs
  BY <1>0, <1>10 DEF AbortPairs
<1>11. CASE Join
  <2>1. /\ stage \in 1..4 /\ api' = IF stage < 4 THEN "join" ELSE "wait_done"
        /\ stage < 4 => stage' = stage + 1
        /\ JoinOrder[stage] \in Threads
        /\ UNCHANGED <<eventVars, workerVars>>
    BY <1>0, <1>11 DEF Join, JoinOrder, Threads
  <2>2. /\ thread'[JoinOrder[stage]] = "none"
        /\ \A t \in Threads : t # JoinOrder[stage] => thread'[t] = thread[t]
    BY <1>0, <1>11, <2>1 DEF Join, TypeOK
  <2>3. \A i \in 1..4 : JoinOrder[i] \in Threads
    BY DEF JoinOrder, Threads
  <2>4. thread'["owner"] = "none"
    BY <1>0, <1>11, <2>2 DEF Join, Threads
  <2>5. \A i \in 1..4 : i <= stage => thread'[JoinOrder[i]] = "none"
    BY <1>0, <1>11, <2>1, <2>2, <2>3 DEF Join
  <2>6. CASE stage < 4
    BY <1>0, <1>11, <2>1, <2>4, <2>5, <2>6 DEF Join
  <2>7. CASE stage = 4
    <3>1. \A t \in Threads : thread'[t] = "none"
      BY <2>4, <2>5, <2>7 DEF JoinOrder, Threads
    <3>2. QED
      BY <1>0, <1>11, <2>1, <2>7, <3>1 DEF Join
  <2>8. QED
    BY <2>1, <2>6, <2>7
<1>12. CASE WaitDone
  BY <1>0, <1>12 DEF WaitDone
<1>13. CASE PoolStop
  BY <1>0, <1>13 DEF PoolStop, svc!Close
<1>14. CASE ReleaseState
  BY <1>0, <1>14 DEF ReleaseState
<1>15. CASE \E t \in Threads : PublishStart(t)
  <2>1. PICK t \in Threads : PublishStart(t)
    BY <1>15
  <2>2. thread[t] # "none" /\ \A u \in Threads : u # t => thread'[u] = thread[u]
    BY <1>0, <2>1 DEF PublishStart, TypeOK
  <2>3. \A u \in Threads : thread[u] = "none" => thread'[u] = "none"
    BY <2>2
  <2>4. "owner" \in Threads /\ \A i \in 1..4 : JoinOrder[i] \in Threads
    BY DEF JoinOrder, Threads
  <2>5. QED
    BY <1>0, <2>1, <2>3, <2>4 DEF PublishStart
<1>16. CASE \E t \in Threads : ThreadExit(t)
  BY <1>0, <1>16 DEF ThreadExit
<1>17. CASE ListenTop
  <2>1. \A u \in Threads : thread[u] = "none" => thread'[u] = "none"
    BY <1>0, <1>17 DEF ListenTop, Listening, TypeOK
  <2>2. "owner" \in Threads /\ \A i \in 1..4 : JoinOrder[i] \in Threads
    BY DEF JoinOrder, Threads
  <2>3. QED
    BY <1>0, <1>17, <2>1, <2>2 DEF ListenTop
<1>18. CASE ListenAccept
  BY <1>0, <1>18 DEF ListenAccept
<1>19. CASE BeginIncrement
  BY <1>0, <1>19 DEF BeginIncrement
<1>20. CASE BeginReset
  BY <1>0, <1>20 DEF BeginReset
<1>21. CASE BeginCheck
  BY <1>0, <1>21 DEF BeginCheck
<1>22. CASE BeginUndo
  BY <1>0, <1>22 DEF BeginUndo
<1>23. CASE BeginUndoSet
  BY <1>0, <1>23 DEF BeginUndoSet
<1>24. CASE ListenDrop
  BY <1>0, <1>24 DEF ListenDrop
<1>25. CASE \E c \in Conns : Handshake(c)
  BY <1>0, <1>25 DEF Handshake
<1>26. CASE \E c \in Conns : Transfer(c)
  BY <1>0, <1>26 DEF Transfer, svc!Take
<1>27. CASE \E c \in Conns : Register(c)
  BY <1>0, <1>27 DEF Register
<1>28. CASE \E c \in Conns : Spawn(c)
  BY <1>0, <1>28 DEF Spawn
<1>29. CASE \E c \in Conns : CloseUnspawned(c)
  BY <1>0, <1>29 DEF CloseUnspawned
<1>30. CASE \E c \in Conns : RelayJoined(c)
  BY <1>0, <1>30 DEF RelayJoined
<1>31. CASE \E c \in Conns : EndDecrement(c)
  BY <1>0, <1>31 DEF EndDecrement
<1>32. CASE \E c \in Conns : EndSet(c)
  BY <1>0, <1>32 DEF EndSet
<1>33. CASE \E c \in Conns : PoolRelease(c)
  BY <1>0, <1>33 DEF PoolRelease, svc!Release
<1>34. CASE \E d \in Dirs : RelayStopped(d)
  BY <1>0, <1>34 DEF RelayStopped
<1>35. CASE \E d \in Dirs : RelayEnds(d)
  BY <1>0, <1>35 DEF RelayEnds
<1>36. CASE \E d \in Dirs : RelayDec(d)
  BY <1>0, <1>36 DEF RelayDec
<1>37. CASE \E d \in Dirs : RelayUnregister(d)
  BY <1>0, <1>37 DEF RelayUnregister
<1>38. CASE \E d \in Dirs : RelayClose(d)
  BY <1>0, <1>38 DEF RelayClose
<1>39. CASE UNCHANGED vars
  BY <1>0, <1>39 DEF vars
<1>40. QED
  BY <1>1, <1>2, <1>3, <1>4, <1>5, <1>6, <1>7, <1>8, <1>9, <1>10, <1>11, <1>12, <1>13, <1>14,
     <1>15, <1>16, <1>17, <1>18, <1>19, <1>20, <1>21, <1>22, <1>23, <1>24, <1>25, <1>26, <1>27,
     <1>28, <1>29, <1>30, <1>31, <1>32, <1>33, <1>34, <1>35, <1>36, <1>37, <1>38, <1>39
     DEF Next, Start, Stop, local_proxy_server, connection_handler, one_way_relay

----------------------------------------------------------------------------
\* What the invariant of a connection reads stays as it is.
Same(k) ==
    /\ worker'[k] = worker[k] /\ client'[k] = client[k] /\ refs'[k] = refs[k]
    /\ relay'[<<k, "up">>] = relay[<<k, "up">>] /\ relay'[<<k, "dn">>] = relay[<<k, "dn">>]
    /\ k \in registered' => k \in registered
    /\ k \in live' => k \in live

LEMMA SamePair == ASSUME NEW k \in Conns, PairInv(k), Same(k) PROVE PairInv(k)'
  BY DEF Same, PairInv, RelayInv, Counted

\* Start, Stop and the named threads leave the connections alone, but for a
\* new listener, which starts at the top of its loop.
LEMMA ApiPairs ==
    ASSUME IInv,
           \/ Start \/ StopCall \/ Stop \/ UNCHANGED vars
           \/ \E t \in Threads : PublishStart(t) \/ ThreadExit(t)
    PROVE  ListenInv' /\ \A k \in Conns : PairInv(k)'
<1> USE DEF svcVars, workerVars, listenVars
<1>1. UNCHANGED <<worker, client, registered, refs, relay, live, lconn>> /\ lpc' \in {lpc, "top"}
  <2>1. CASE Start
    BY <2>1 DEF Start, StartBegin, StartPool, svc!Open, CreateWorkerThread, WaitReady
  <2>2. CASE StopCall \/ Stop
    BY <2>2 DEF StopCall, Stop, ClearRunning, SignalShutdown, StopOwners, AbortPool, svc!StopAccepting,
                AbortPairs, Join, WaitDone, PoolStop, svc!Close, ReleaseState
  <2>3. CASE \E t \in Threads : PublishStart(t) \/ ThreadExit(t)
    BY <2>3 DEF PublishStart, ThreadExit
  <2>4. CASE UNCHANGED vars
    BY <2>4 DEF vars
  <2>5. QED
    BY <2>1, <2>2, <2>3, <2>4
<1>2. ListenInv'
  BY <1>1 DEF IInv, ListenInv
<1>3. ASSUME NEW k \in Conns PROVE PairInv(k)'
  BY <1>1, SamePair DEF IInv, Same
<1>4. QED
  BY <1>2, <1>3

\* The listener hands a connection to a worker that nobody has seen yet.
LEMMA ListenPairs ==
    ASSUME IInv, local_proxy_server
    PROVE  ListenInv' /\ \A k \in Conns : PairInv(k)'
<1>0. TypeOK /\ ListenInv /\ \A k \in Conns : PairInv(k)
  BY DEF IInv
<1> USE DEF svcVars, workerVars, listenVars
<1>1. CASE ListenTop \/ BeginIncrement \/ BeginReset \/ BeginUndo \/ BeginUndoSet
  <2>1. /\ UNCHANGED <<worker, client, registered, refs, relay, live, lconn>>
        /\ lpc' \notin {"top", "select"} => lpc \notin {"top", "select"}
    BY <1>1 DEF ListenTop, BeginIncrement, BeginReset, BeginUndo, BeginUndoSet
  <2>2. \A k \in Conns : Same(k)
    BY <2>1 DEF Same
  <2>3. QED
    BY <1>0, <2>1, <2>2, SamePair DEF ListenInv
<1>2. CASE ListenAccept
  <2>1. CASE lpc' = "top" /\ UNCHANGED <<lconn, client>>
    <3>1. \A k \in Conns : Same(k)
      BY <1>2, <2>1 DEF ListenAccept, Same
    <3>2. QED
      BY <1>0, <2>1, <3>1, SamePair DEF ListenInv
  <2>2. CASE \E c \in Conns, to \in {"open", "closed"} :
               /\ client[c] = "none" /\ client' = [client EXCEPT ![c] = to]
               /\ lpc' = "inc" => to = "open" /\ lconn' = c
               /\ lpc' \in {"inc", "top"}
    <3>1. PICK c \in Conns, to \in {"open", "closed"} :
               /\ client[c] = "none" /\ client' = [client EXCEPT ![c] = to]
               /\ lpc' = "inc" => to = "open" /\ lconn' = c
               /\ lpc' \in {"inc", "top"}
      BY <2>2
    <3>2. /\ UNCHANGED <<worker, registered, refs, relay, live>>
          /\ client'[c] = to /\ \A k \in Conns \ {c} : client'[k] = client[k]
      BY <1>0, <1>2, <3>1 DEF ListenAccept, TypeOK
    <3>3. worker[c] = "none" /\ c \notin registered
      BY <1>0, <3>1 DEF PairInv
    <3>4. PairInv(c)'
      BY <1>0, <3>1, <3>2, <3>3 DEF PairInv
    <3>5. ASSUME NEW k \in Conns \ {c} PROVE PairInv(k)'
      BY <1>0, <3>2, SamePair DEF Same
    <3>6. ListenInv'
      BY <3>1, <3>2, <3>3 DEF ListenInv
    <3>7. QED
      BY <3>4, <3>5, <3>6
  <2>3. QED
    BY <1>2, <2>1, <2>2 DEF ListenAccept
<1>3. CASE BeginCheck
  <2>1. CASE lpc' = "undo" /\ UNCHANGED <<worker, lconn>>
    <3>1. lpc = "check" /\ UNCHANGED client /\ \A k \in Conns : Same(k)
      BY <1>3, <2>1 DEF BeginCheck, Same
    <3>2. QED
      BY <1>0, <2>1, <3>1, SamePair DEF ListenInv
  <2>2. CASE lpc' = "top" /\ worker' = [worker EXCEPT ![lconn] = "handshake"]
    <3>1. /\ UNCHANGED <<client, registered, refs, relay, live>> /\ lpc = "check"
          /\ lconn \in Conns /\ worker[lconn] = "none" /\ client[lconn] = "open"
      BY <1>0, <1>3 DEF BeginCheck, ListenInv
    <3>2. worker'[lconn] = "handshake" /\ \A k \in Conns \ {lconn} : worker'[k] = worker[k]
      BY <1>0, <2>2, <3>1 DEF TypeOK
    <3>3. ASSUME NEW k \in Conns PROVE PairInv(k)'
      <4>1. CASE k = lconn
        BY <1>0, <3>1, <3>2, <4>1 DEF PairInv
      <4>2. CASE k # lconn
        BY <1>0, <3>1, <3>2, <4>2, SamePair DEF Same
      <4>3. QED
        BY <4>1, <4>2
    <3>4. QED
      BY <2>2, <3>3 DEF ListenInv
  <2>3. QED
    BY <1>3, <2>1, <2>2 DEF BeginCheck
<1>4. CASE ListenDrop
  <2>1. /\ UNCHANGED <<worker, registered, refs, relay, live>> /\ lpc' = "top"
        /\ lconn \in Conns /\ worker[lconn] = "none" /\ client' = [client EXCEPT ![lconn] = "closed"]
    BY <1>0, <1>4 DEF ListenDrop, ListenInv
  <2>2. client'[lconn] = "closed" /\ \A k \in Conns \ {lconn} : client'[k] = client[k]
    BY <1>0, <2>1 DEF TypeOK
  <2>3. ASSUME NEW k \in Conns PROVE PairInv(k)'
    <3>1. CASE k = lconn
      BY <1>0, <2>1, <2>2, <3>1 DEF PairInv
    <3>2. CASE k # lconn
      BY <1>0, <2>1, <2>2, <3>2, SamePair DEF Same
    <3>3. QED
      BY <3>1, <3>2
  <2>4. QED
    BY <2>1, <2>3 DEF ListenInv
<1>5. QED
  BY <1>1, <1>2, <1>3, <1>4 DEF local_proxy_server

\* A worker moves its own connection on, from the dispatch to the end.
LEMMA HandlerPairs ==
    ASSUME IInv, NEW c \in Conns, connection_handler(c) \/ PoolRelease(c)
    PROVE  ListenInv' /\ \A k \in Conns : PairInv(k)'
<1>0. TypeOK /\ ListenInv /\ \A k \in Conns : PairInv(k)
  BY DEF IInv
<1> USE DEF svcVars, workerVars, listenVars
<1>1. worker[c] # "none" /\ UNCHANGED listenVars
  <2>1. CASE Handshake(c)
    BY <1>0, <2>1 DEF Handshake, PairInv
  <2>2. CASE Transfer(c)
    BY <1>0, <2>2 DEF Transfer, svc!Take, PairInv
  <2>3. CASE Register(c)
    BY <1>0, <2>3 DEF Register, PairInv
  <2>4. CASE Spawn(c)
    BY <1>0, <2>4 DEF Spawn, PairInv
  <2>5. CASE CloseUnspawned(c)
    BY <1>0, <2>5 DEF CloseUnspawned, PairInv
  <2>6. CASE RelayJoined(c)
    BY <1>0, <2>6 DEF RelayJoined, PairInv
  <2>7. CASE EndDecrement(c)
    BY <1>0, <2>7 DEF EndDecrement, PairInv
  <2>8. CASE EndSet(c)
    BY <1>0, <2>8 DEF EndSet, PairInv
  <2>9. CASE PoolRelease(c)
    BY <1>0, <2>9 DEF PoolRelease, svc!Release, PairInv
  <2>10. QED
    BY <2>1, <2>2, <2>3, <2>4, <2>5, <2>6, <2>7, <2>8, <2>9 DEF connection_handler
<1>2. ASSUME NEW k \in Conns \ {c} PROVE Same(k)
  <2>1. CASE Handshake(c)
    BY <1>0, <2>1 DEF Handshake, TypeOK, Dirs, Same
  <2>2. CASE Transfer(c)
    BY <1>0, <2>2 DEF Transfer, svc!Take, TypeOK, Dirs, Same
  <2>3. CASE Register(c)
    BY <1>0, <2>3 DEF Register, TypeOK, Dirs, Same
  <2>4. CASE Spawn(c)
    BY <1>0, <2>4 DEF Spawn, TypeOK, Dirs, Same
  <2>5. CASE CloseUnspawned(c)
    BY <1>0, <2>5 DEF CloseUnspawned, TypeOK, Dirs, Same
  <2>6. CASE RelayJoined(c)
    BY <1>0, <2>6 DEF RelayJoined, TypeOK, Dirs, Same
  <2>7. CASE EndDecrement(c)
    BY <1>0, <2>7 DEF EndDecrement, TypeOK, Dirs, Same
  <2>8. CASE EndSet(c)
    BY <1>0, <2>8 DEF EndSet, TypeOK, Dirs, Same
  <2>9. CASE PoolRelease(c)
    BY <1>0, <2>9 DEF PoolRelease, svc!Release, TypeOK, Dirs, Same
  <2>10. QED
    BY <2>1, <2>2, <2>3, <2>4, <2>5, <2>6, <2>7, <2>8, <2>9 DEF connection_handler
<1>3. PairInv(c)'
  <2>1. CASE Handshake(c)
    BY <1>0, <2>1 DEF Handshake, TypeOK, Dirs, PairInv, RelayInv, Counted
  <2>2. CASE Transfer(c)
    BY <1>0, <2>2 DEF Transfer, svc!Take, TypeOK, Dirs, PairInv, RelayInv, Counted
  <2>3. CASE Register(c)
    BY <1>0, <2>3 DEF Register, TypeOK, Dirs, PairInv, RelayInv, Counted
  <2>4. CASE Spawn(c)
    BY <1>0, <2>4 DEF Spawn, TypeOK, Dirs, PairInv, RelayInv, Counted
  <2>5. CASE CloseUnspawned(c)
    BY <1>0, <2>5 DEF CloseUnspawned, TypeOK, Dirs, PairInv, RelayInv, Counted
  <2>6. CASE RelayJoined(c)
    BY <1>0, <2>6 DEF RelayJoined, TypeOK, Dirs, PairInv, RelayInv, Counted
  <2>7. CASE EndDecrement(c)
    BY <1>0, <2>7 DEF EndDecrement, TypeOK, Dirs, PairInv, RelayInv, Counted
  <2>8. CASE EndSet(c)
    BY <1>0, <2>8 DEF EndSet, TypeOK, Dirs, PairInv, RelayInv, Counted
  <2>9. CASE PoolRelease(c)
    BY <1>0, <2>9 DEF PoolRelease, svc!Release, TypeOK, Dirs, PairInv, RelayInv, Counted
  <2>10. QED
    BY <2>1, <2>2, <2>3, <2>4, <2>5, <2>6, <2>7, <2>8, <2>9 DEF connection_handler
<1>4. \A k \in Conns : PairInv(k)'
  BY <1>0, <1>2, <1>3, SamePair
<1>5. ListenInv'
  BY <1>0, <1>1, <1>2 DEF ListenInv, Same
<1>6. QED
  BY <1>4, <1>5

\* A direction of the blocking relay: the last one out unregisters the pair
\* before it closes the sockets.
LEMMA RelayPairs ==
    ASSUME IInv, NEW c \in Conns, NEW s \in {"up", "dn"}, one_way_relay(<<c, s>>) \/ RelayEnds(<<c, s>>)
    PROVE  ListenInv' /\ \A k \in Conns : PairInv(k)'
<1>0. TypeOK /\ ListenInv /\ \A k \in Conns : PairInv(k)
  BY DEF IInv
<1> USE DEF svcVars, workerVars, listenVars
<1>1. worker[c] = "relay" /\ UNCHANGED <<worker, listenVars>>
  <2>1. CASE RelayStopped(<<c, s>>)
    BY <1>0, <2>1 DEF RelayStopped, PairInv
  <2>2. CASE RelayEnds(<<c, s>>)
    BY <1>0, <2>2 DEF RelayEnds, PairInv
  <2>3. CASE RelayDec(<<c, s>>)
    BY <1>0, <2>3 DEF RelayDec, PairInv
  <2>4. CASE RelayUnregister(<<c, s>>)
    BY <1>0, <2>4 DEF RelayUnregister, PairInv
  <2>5. CASE RelayClose(<<c, s>>)
    BY <1>0, <2>5 DEF RelayClose, PairInv
  <2>6. QED
    BY <2>1, <2>2, <2>3, <2>4, <2>5 DEF one_way_relay
<1>2. ASSUME NEW k \in Conns \ {c} PROVE Same(k)
  <2>1. CASE RelayStopped(<<c, s>>)
    BY <1>0, <2>1 DEF RelayStopped, TypeOK, Dirs, Same
  <2>2. CASE RelayEnds(<<c, s>>)
    BY <1>0, <2>2 DEF RelayEnds, TypeOK, Dirs, Same
  <2>3. CASE RelayDec(<<c, s>>)
    BY <1>0, <2>3 DEF RelayDec, TypeOK, Dirs, Same
  <2>4. CASE RelayUnregister(<<c, s>>)
    BY <1>0, <2>4 DEF RelayUnregister, TypeOK, Dirs, Same
  <2>5. CASE RelayClose(<<c, s>>)
    BY <1>0, <2>5 DEF RelayClose, TypeOK, Dirs, Same
  <2>6. QED
    BY <2>1, <2>2, <2>3, <2>4, <2>5 DEF one_way_relay
<1>3. PairInv(c)'
  <2>1. CASE RelayStopped(<<c, s>>)
    BY <1>0, <1>1, <2>1 DEF RelayStopped, TypeOK, Dirs, PairInv, RelayInv, Counted
  <2>2. CASE RelayEnds(<<c, s>>)
    BY <1>0, <1>1, <2>2 DEF RelayEnds, TypeOK, Dirs, PairInv, RelayInv, Counted
  <2>3. CASE RelayDec(<<c, s>>)
    BY <1>0, <1>1, <2>3 DEF RelayDec, TypeOK, Dirs, PairInv, RelayInv, Counted
  <2>4. CASE RelayUnregister(<<c, s>>)
    BY <1>0, <1>1, <2>4 DEF RelayUnregister, TypeOK, Dirs, PairInv, RelayInv, Counted
  <2>5. CASE RelayClose(<<c, s>>)
    BY <1>0, <1>1, <2>5 DEF RelayClose, TypeOK, Dirs, PairInv, RelayInv, Counted
  <2>6. QED
    BY <2>1, <2>2, <2>3, <2>4, <2>5 DEF one_way_relay
<1>4. \A k \in Conns : PairInv(k)'
  BY <1>0, <1>2, <1>3, SamePair
<1>5. ListenInv'
  BY <1>0, <1>1, <1>2 DEF ListenInv, Same
<1>6. QED
  BY <1>4, <1>5

LEMMA PairStep == ASSUME IInv, [Next]_vars PROVE ListenInv' /\ \A c \in Conns : PairInv(c)'
<1>1. CASE \E c \in Conns : connection_handler(c) \/ PoolRelease(c)
  BY <1>1, HandlerPairs
<1>2. CASE \E d \in Dirs : one_way_relay(d) \/ RelayEnds(d)
  <2>1. PICK c \in Conns, s \in {"up", "dn"} : one_way_relay(<<c, s>>) \/ RelayEnds(<<c, s>>)
    BY <1>2 DEF Dirs
  <2>2. QED
    BY <2>1, RelayPairs
<1>3. QED
  BY <1>1, <1>2, ApiPairs, ListenPairs DEF Next

LEMMA InitInv == Init => IInv
<1> SUFFICES ASSUME Init PROVE IInv
  OBVIOUS
<1>1. TypeOK
  <2>1. running \in BOOLEAN /\ open \in BOOLEAN /\ accepting \in BOOLEAN
    BY Zenon DEF Init, svc!Init
  <2>2. starts \in 0..MaxStarts /\ stage \in 1..Len(StartOrder) /\ activeWorkers \in Int
    BY LifecycleAssumption DEF Init, StartOrder
  <2>3. /\ thread \in [Threads -> {"none"}] /\ worker \in [Conns -> {"none"}]
        /\ client \in [Conns -> {"none"}] /\ relay \in [Dirs -> {"none"}] /\ refs \in [Conns -> {0}]
    BY DEF Init
  <2>4. refs \in [Conns -> 0..2]
    BY <2>3
  <2>5. QED
    BY <2>1, <2>2, <2>3, <2>4 DEF Init, svc!Init, TypeOK
<1>2. ThreadInv /\ EventInv /\ ListenInv
  BY DEF Init, ThreadInv, EventInv, ListenInv, StopReachesEveryPair, Stopping
<1>3. \A c \in Conns : PairInv(c)
  BY DEF Init, svc!Init, PairInv, Dirs
<1>4. QED
  BY <1>1, <1>2, <1>3 DEF IInv

LEMMA Invariance == Spec => []IInv
<1>1. IInv /\ [Next]_vars => IInv'
  BY TypeStep, ApiStep, PairStep DEF IInv
<1>2. QED
  BY InitInv, <1>1, PTL DEF Spec

\* The variables keep their types: a pair never has more than the two
\* references its directions drop, over any number of starts and stops.
THEOREM Typing == Spec => []TypeOK
<1>1. IInv => TypeOK
  BY DEF IInv
<1>2. QED
  BY <1>1, Invariance, PTL

\* Stop, and the teardown of a Start that failed at any stage, returns only
\* when every named engine thread has been joined.
THEOREM Joined == Spec => []ThreadsJoined
<1>1. IInv => ThreadsJoined
  BY DEF IInv, ThreadInv, ThreadsJoined
<1>2. QED
  BY <1>1, Invariance, PTL

\* abort_active_relays shuts down open sockets only: whoever closes a
\* connection's sockets has taken the pair off the list first, or never put
\* it there.
THEOREM OpenPairs == Spec => []RegisteredPairsOpen
<1>1. IInv => RegisteredPairsOpen
  BY DEF IInv, TypeOK, PairInv, RegisteredPairsOpen
<1>2. QED
  BY <1>1, Invariance, PTL

\* No pair escapes Stop: after the sweep of abort_active_relays every pair that
\* is still registered has been shut down, although workers of an earlier run
\* may still be registering pairs of their own.
THEOREM StopReaches == Spec => []StopReachesEveryPair
<1>1. IInv => StopReachesEveryPair
  BY DEF IInv, EventInv
<1>2. QED
  BY <1>1, Invariance, PTL
=============================================================================
