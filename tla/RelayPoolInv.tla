---------------------------- MODULE RelayPoolInv ----------------------------
(***************************************************************************)
(* The inductive invariants of the IOCP relay pool: IInv is about          *)
(* references, threads and Stop, DInv adds the data; and that the steps of *)
(* the kernel, the workers, relay_abort, relay_start and relay_release     *)
(* keep IInv, and the buffers accounted for.                               *)
(***************************************************************************)
EXTENDS RelayPool, FiniteSetTheorems, TLAPS

\* Zenon is tried first; a leaf that it does not find cites SMT.
USE ZenonT(20), SMTT(30)

Last == {"unlink", "close", "free"}
InThread == {"run", "abort", "shutdown", "dec"} \cup Last

Ref(c, s) == IF ds[<<c, s>>] \in HoldsRef THEN 1 ELSE 0

\* One connection: rc->refs counts the directions that hold a reference, the
\* list holds exactly the connections not yet unlinked, and at most one
\* direction is in the final part of relay_release.
ConnInv(c) ==
    /\ conn[c] = "none" =>
         /\ c \notin linked /\ starter[c] \in {"idle", "link", "done"}
         /\ ds[<<c, 0>>] = "off" /\ ds[<<c, 1>>] = "off"
    /\ conn[c] # "none" => refs[c] = Ref(c, 0) + Ref(c, 1)
    /\ ds[<<c, 0>>] \in Last => ds[<<c, 1>>] = "end"
    /\ ds[<<c, 1>>] \in Last => ds[<<c, 0>>] = "end"
    /\ \A s \in Sides : ds[<<c, s>>] \in HoldsRef \cup {"unlink"} /\ conn[c] # "none"
                          => conn[c] = "live" /\ c \in linked
    /\ \A s \in Sides : ds[<<c, s>>] = "close" => conn[c] = "live" /\ c \notin linked
    /\ \A s \in Sides : ds[<<c, s>>] = "free" => conn[c] = "closed" /\ c \notin linked
    /\ ds[<<c, 0>>] = "end" /\ ds[<<c, 1>>] = "end" => conn[c] = "freed" /\ c \notin linked
    /\ starter[c] \in {"idle", "link"} => conn[c] = "none"
    /\ starter[c] = "post0" => ds[<<c, 0>>] = "off"
    /\ starter[c] \in {"post0", "end0", "post1"} => ds[<<c, 1>>] = "off"

\* Every direction that is inside a thread is inside a worker or the starter.
HandledInv(c) ==
    /\ ds[<<c, 0>>] \in InThread =>
         starter[c] = "end0" \/ \E w \in Workers : worker[w] = <<c, 0>>
    /\ ds[<<c, 1>>] \in InThread =>
         starter[c] = "end1" \/ \E w \in Workers : worker[w] = <<c, 1>>

\* The sweep of relay_pool_abort runs under the lock, over linked connections.
SweepInv ==
    /\ todo \subseteq linked /\ cursor \subseteq linked
    /\ LockFree => todo = {} /\ cursor = {}

\* How far Stop has come.
StopInv ==
    /\ stopper # "up" => ~running
    /\ stopper \in {"sweep1", "drain", "pool_stop", "sweep2", "wait_done", "join", "down"}
         => ~accepting
    /\ stopper \in {"pool_stop", "sweep2", "wait_done", "join", "down"}
         => \A c \in Conns : starter[c] \in {"idle", "done"}
    /\ stopper \in {"sweep2", "wait_done", "join"} => iocp
    /\ stopper = "join" => linked = {}
    /\ stopper = "down" => ~iocp
    /\ ~iocp => ~accepting /\ linked = {}

CountInv ==
    /\ IsFiniteSet(linked)
    /\ active = Cardinality(linked)
    /\ iocp => (done <=> linked = {})

IInv ==
    /\ TypeOK
    /\ \A c \in Conns : ConnInv(c) /\ HandledInv(c)
    /\ SweepInv /\ StopInv /\ CountInv /\ CleanShutdown

\* Units that were read and are still to be sent, while an operation is posted.
Held(d) == IF op[d] = "send" THEN len[d] - off[d] ELSE 0

\* One direction: what was read is sent, or in the buffer between off and len,
\* or in the completion packet; an abort needs a fault or a shut socket.
StreamInv(d) ==
    /\ out[d] = [i \in 1..Len(out[d]) |-> i]
    /\ Len(out[d]) <= rd[d] /\ rd[d] <= total[d]
    /\ ds[d] = "off" => op[d] = "wait"
    /\ ds[d] \in {"off", "pending"} =>
         /\ Len(out[d]) = rd[d] - Held(d)
         /\ op[d] = "wait" => ~buf[d]
    /\ ds[d] \in {"queued", "run"} /\ comp[d].ok =>
         /\ op[d] = "wait" => Len(out[d]) = rd[d]
         /\ op[d] = "read" => /\ Len(out[d]) = rd[d] - comp[d].n
                              /\ comp[d].n = 0 => fin[d] /\ rd[d] = total[d]
         /\ op[d] = "send" => /\ off[d] + comp[d].n <= len[d]
                              /\ Len(out[d]) = rd[d] - len[d] + off[d] + comp[d].n
                              /\ comp[d].n = 0 => faults
    /\ ds[d] \in {"queued", "run"} /\ ~comp[d].ok => faults \/ shut[d[1]]
    /\ ds[d] = "abort" => faults \/ shut[d[1]]
    /\ finOut[d] => /\ fin[d] /\ Len(out[d]) = total[d]
                    /\ ds[d] \in {"dec", "unlink", "close", "free", "end"}
    /\ buf[d] => conn[d[1]] \in {"live", "closed"}

\* Sockets are shut down only after the exchange on closing was won.
CloseInv(c) == shut[c] \/ ds[<<c, 0>>] = "shutdown" \/ ds[<<c, 1>>] = "shutdown" \/ c \in cursor
                 => closing[c]

\* The buffers in use are finitely many, and accounted for.
BufInv == IsFiniteSet({d \in Dirs : buf[d]}) /\ BuffersConserved

\* The invariant with the data.
DInv ==
    /\ IInv
    /\ \A d \in Dirs : StreamInv(d)
    /\ \A c \in Conns : CloseInv(c)
    /\ BufInv

USE DEF Sides, Dirs

\* A direction is a connection and a side.
LEMMA DirsPair == \A d \in Dirs : d[1] \in Conns /\ d[2] \in Sides /\ d = <<d[1], d[2]>>
BY SMT

\* Each direction of a connection is in one of the listed places.
LEMMA DirValues ==
  ASSUME IInv, NEW c \in Conns
  PROVE  ds[<<c, 0>>] \in Touches \cup {"end"} /\ ds[<<c, 1>>] \in Touches \cup {"end"}
<1>1. ds \in [Dirs -> Touches \cup {"end"}]
  BY DEF IInv, TypeOK, DirTypeOK
<1>2. <<c, 0>> \in Dirs /\ <<c, 1>> \in Dirs
  OBVIOUS
<1> QED BY <1>1, <1>2

\* A step of one direction that keeps its reference: the kernel, a worker
\* handling a packet, or the first half of relay_dir_end.
DirStep(c, s) ==
    /\ ds[<<c, s>>] \in HoldsRef \ {"off"}
    /\ \E to \in HoldsRef \ {"off"} :
         /\ ds' = [ds EXCEPT ![<<c, s>>] = to]
         /\ \/ to \notin InThread
            \/ ds[<<c, s>>] \in InThread /\ worker' = worker
            \/ \E w \in Workers : worker' = [worker EXCEPT ![w] = <<c, s>>]
    /\ \/ worker' = worker \/ Idle(<<c, s>>)
       \/ \E w \in Workers : worker[w] = NoDir /\ worker' = [worker EXCEPT ![w] = <<c, s>>]
    /\ UNCHANGED <<poolVars, conn, refs, starter, stopVars>>

\* The invariant holds at the start.
LEMMA InitInv == Init => IInv
<1> SUFFICES ASSUME Init PROVE IInv
  OBVIOUS
<1>1. PoolTypeOK
  <2>1. worker \in [Workers -> Dirs \cup {NoDir, Exited}]
    BY DEF Init
  <2>2. refs \in [Conns -> 0..2]
    BY SMT DEF Init
  <2>3. /\ conn \in [Conns -> {"none", "live", "closed", "freed"}]
        /\ starter \in [Conns -> {"idle", "link", "post0", "end0", "post1", "end1", "done"}]
    BY DEF Init
  <2>4. closing \in [Conns -> BOOLEAN] /\ shut \in [Conns -> BOOLEAN]
    BY DEF Init
  <2>5. running \in BOOLEAN /\ iocp \in BOOLEAN /\ accepting \in BOOLEAN /\ done \in BOOLEAN
    BY Zenon DEF Init
  <2>6. linked \in SUBSET Conns /\ todo \in SUBSET Conns /\ cursor \in SUBSET Conns
    BY DEF Init
  <2>7. /\ active \in Nat /\ freeBufs \in Nat /\ heap \in Int /\ exits \in Nat
        /\ stopper = "down"
    BY SMT DEF Init
  <2> QED BY <2>1, <2>2, <2>3, <2>4, <2>5, <2>6, <2>7 DEF PoolTypeOK
<1>2. DirTypeOK
  BY SMT, RelayAssumption DEF Init, DirTypeOK, Touches, HoldsRef
<1>3. ASSUME NEW c \in Conns PROVE ConnInv(c) /\ HandledInv(c)
  BY DEF Init, ConnInv, HandledInv, HoldsRef, Last, InThread, Ref
<1>4. SweepInv /\ StopInv /\ CleanShutdown
  BY DEF Init, SweepInv, StopInv, CleanShutdown, LockFree
<1>5. CountInv
  BY FS_EmptySet DEF Init, CountInv
<1> QED BY <1>1, <1>2, <1>3, <1>4, <1>5 DEF IInv, TypeOK

\* A step that keeps the reference keeps the invariant, types aside.
LEMMA DirStepInv ==
  ASSUME IInv, NEW c \in Conns, NEW s \in Sides, DirStep(c, s), TypeOK'
  PROVE  IInv'
<1>1. PICK to \in HoldsRef \ {"off"} :
        /\ ds' = [ds EXCEPT ![<<c, s>>] = to]
        /\ \/ to \notin InThread
           \/ ds[<<c, s>>] \in InThread /\ worker' = worker
           \/ \E w \in Workers : worker' = [worker EXCEPT ![w] = <<c, s>>]
  BY DEF DirStep
<1>2. /\ ds[<<c, s>>] \in HoldsRef \ {"off"}
      /\ \A k \in Conns, j \in Sides :
           ds'[<<k, j>>] = IF k = c /\ j = s THEN to ELSE ds[<<k, j>>]
  BY <1>1 DEF DirStep, IInv, TypeOK, DirTypeOK
<1>3. UNCHANGED <<conn, refs, starter, linked>>
  BY DEF DirStep, poolVars
<1>4. ASSUME NEW k \in Conns PROVE ConnInv(k)'
  <2>1. ConnInv(k)
    BY DEF IInv
  <2> QED BY <1>2, <1>3, <2>1 DEF ConnInv, HoldsRef, Last, Ref
<1>5. ASSUME NEW k \in Conns PROVE HandledInv(k)'
  <2>1. HandledInv(k)
    BY DEF IInv
  <2>2. worker \in [Workers -> Dirs \cup {NoDir, Exited}]
    BY DEF IInv, TypeOK, PoolTypeOK
  <2>3. ASSUME NEW j \in Sides, k # c \/ j # s,
               \E w \in Workers : worker[w] = <<k, j>>
        PROVE  \E w \in Workers : worker'[w] = <<k, j>>
    BY SMT, <2>2, <2>3, RelayAssumption DEF DirStep, Idle
  <2>4. to \in InThread => \/ ds[<<c, s>>] \in InThread /\ worker' = worker
                           \/ \E w \in Workers : worker'[w] = <<c, s>>
    BY <1>1, <2>2
  <2> QED BY <1>2, <1>3, <2>1, <2>3, <2>4 DEF HandledInv
<1>6. SweepInv' /\ StopInv' /\ CountInv'
  BY DEF IInv, DirStep, poolVars, stopVars, SweepInv, StopInv, CountInv, LockFree
<1>7. CleanShutdown'
  <2>1. iocp' = iocp /\ CleanShutdown /\ ConnInv(c)
    BY DEF DirStep, poolVars, IInv
  <2>2. ~iocp => FALSE
    BY <1>2, <2>1 DEF CleanShutdown, ConnInv, HoldsRef
  <2> QED BY <2>1, <2>2 DEF CleanShutdown
<1> QED BY <1>4, <1>5, <1>6, <1>7 DEF IInv

\* The kernel's steps keep the invariant.
LEMMA KernelInv ==
  ASSUME IInv, NEW c \in Conns, NEW s \in Sides, Kernel(<<c, s>>)
  PROVE  IInv'
<1>1. PoolTypeOK'
  BY DEF Kernel, Complete, CompleteError, IInv, TypeOK, PoolTypeOK, poolVars, connVars, stopVars
<1>2. DirTypeOK'
  <2>1. CASE CompleteError(<<c, s>>)
    BY <2>1 DEF CompleteError, IInv, TypeOK, DirTypeOK, dataVars, Touches, HoldsRef
  <2>2. CASE Complete(<<c, s>>)
    <3>1. PICK n \in OkSizes(<<c, s>>) :
            /\ comp' = [comp EXCEPT ![<<c, s>>] = [ok |-> TRUE, n |-> n]]
            /\ rd' = [rd EXCEPT ![<<c, s>>] = IF op[<<c, s>>] = "read" THEN @ + n ELSE @]
            /\ out' = [out EXCEPT ![<<c, s>>] =
                  IF op[<<c, s>>] = "send"
                  THEN @ \o [i \in 1..n |-> rd[<<c, s>>] - len[<<c, s>>] + off[<<c, s>>] + i]
                  ELSE @]
      BY <2>2 DEF Complete
    <3>2. n \in Nat
      BY SMT DEF OkSizes, IInv, TypeOK, DirTypeOK
    <3>3. [i \in 1..n |-> rd[<<c, s>>] - len[<<c, s>>] + off[<<c, s>>] + i] \in Seq(Int)
      BY SMT, <3>2 DEF IInv, TypeOK, DirTypeOK
    <3>4. out' \in [Dirs -> Seq(Int)]
      BY SMT, <3>1, <3>3 DEF IInv, TypeOK, DirTypeOK
    <3>5. comp' \in [Dirs -> [ok : BOOLEAN, n : Nat]]
      <4>1. [ok |-> TRUE, n |-> n] \in [ok : BOOLEAN, n : Nat]
        BY <3>2
      <4> QED BY <3>1, <4>1 DEF IInv, TypeOK, DirTypeOK
    <3>6. rd' \in [Dirs -> Nat]
      <4>1. rd \in [Dirs -> Nat] /\ <<c, s>> \in Dirs
        BY DEF IInv, TypeOK, DirTypeOK
      <4>2. (IF op[<<c, s>>] = "read" THEN rd[<<c, s>>] + n ELSE rd[<<c, s>>]) \in Nat
        BY SMT, <3>2, <4>1
      <4> QED BY <3>1, <4>1, <4>2
    <3>7. ds' \in [Dirs -> Touches \cup {"end"}]
      BY <2>2 DEF Complete, IInv, TypeOK, DirTypeOK, Touches, HoldsRef
    <3>8. UNCHANGED <<op, buf, len, off, finOut, total, fin, faults>>
      BY <2>2 DEF Complete, connVars, dataVars
    <3> QED BY <3>4, <3>5, <3>6, <3>7, <3>8 DEF IInv, TypeOK, DirTypeOK
  <2> QED BY <2>1, <2>2 DEF Kernel
<1>3. DirStep(c, s)
  BY DEF Kernel, Complete, CompleteError, DirStep, connVars, HoldsRef, InThread, Last
<1> QED BY <1>1, <1>2, <1>3, DirStepInv DEF TypeOK

\* A worker that takes a packet from the port keeps the invariant.
LEMMA DequeueInv ==
  ASSUME IInv, NEW c \in Conns, NEW s \in Sides, NEW w \in Workers, Dequeue(w, <<c, s>>)
  PROVE  IInv'
<1>1. PoolTypeOK'
  BY DEF Dequeue, IInv, TypeOK, PoolTypeOK, poolVars, connVars, stopVars
<1>2. DirTypeOK'
  BY DEF Dequeue, IInv, TypeOK, DirTypeOK, dataVars, Touches, HoldsRef
<1>3. DirStep(c, s)
  BY DEF Dequeue, DirStep, connVars, HoldsRef, InThread, Last
<1> QED BY <1>1, <1>2, <1>3, DirStepInv DEF TypeOK

\* Idle leaves the workers well-typed.
LEMMA IdleType ==
  ASSUME IInv, NEW d \in Dirs, Idle(d) \/ worker' = worker
  PROVE  worker' \in [Workers -> Dirs \cup {NoDir, Exited}]
BY DEF Idle, IInv, TypeOK, PoolTypeOK

\* relay_buf_put keeps the pool's counters well-typed.
LEMMA PutType ==
  ASSUME IInv, NEW k \in Nat, relay_buf_put(k)
  PROVE  freeBufs' \in Nat /\ heap' \in Int
BY SMT, RelayAssumption DEF relay_buf_put, IInv, TypeOK, PoolTypeOK

\* Post moves a direction into the kernel or into relay_dir_end.
LEMMA PostStep ==
  ASSUME IInv, NEW c \in Conns, NEW s \in Sides, ds[<<c, s>>] = "run",
         NEW state \in {"wait", "read", "send"}, Post(<<c, s>>, state)
  PROVE  /\ op' \in [Dirs -> {"wait", "read", "send"}]
         /\ \/ ds' = [ds EXCEPT ![<<c, s>>] = "pending"] /\ Idle(<<c, s>>)
            \/ ds' = [ds EXCEPT ![<<c, s>>] = "abort"] /\ worker' = worker
BY DEF Post, IInv, TypeOK, DirTypeOK

\* relay_post_read and relay_post_wait leave everything well-typed.
LEMMA PostReadStep ==
  ASSUME IInv, NEW c \in Conns, NEW s \in Sides, ds[<<c, s>>] = "run",
         relay_post_read(<<c, s>>)
  PROVE  /\ op' \in [Dirs -> {"wait", "read", "send"}]
         /\ buf' \in [Dirs -> BOOLEAN] /\ freeBufs' \in Nat /\ heap' \in Int
         /\ \/ ds' = [ds EXCEPT ![<<c, s>>] = "pending"] /\ Idle(<<c, s>>)
            \/ ds' = [ds EXCEPT ![<<c, s>>] = "abort"] /\ worker' = worker
<1>1. freeBufs' \in Nat /\ heap' \in Int
  BY SMT DEF relay_post_read, IInv, TypeOK, PoolTypeOK
<1>a. buf' \in [Dirs -> BOOLEAN]
  BY DEF relay_post_read, IInv, TypeOK, DirTypeOK
<1>2. CASE Post(<<c, s>>, "read")
  BY <1>1, <1>a, <1>2, PostStep
<1>3. CASE ds' = [ds EXCEPT ![<<c, s>>] = "abort"] /\ op' = op /\ worker' = worker
  BY <1>1, <1>a, <1>3 DEF IInv, TypeOK, DirTypeOK
<1> QED BY <1>2, <1>3 DEF relay_post_read

\* relay_post_wait leaves the direction waiting without a buffer, or to be
\* aborted.
LEMMA PostWaitStep ==
  ASSUME IInv, NEW c \in Conns, NEW s \in Sides, ds[<<c, s>>] = "run",
         relay_post_wait(<<c, s>>)
  PROVE  /\ op' \in [Dirs -> {"wait", "read", "send"}]
         /\ buf' \in [Dirs -> BOOLEAN] /\ freeBufs' \in Nat /\ heap' \in Int
         /\ \/ ds' = [ds EXCEPT ![<<c, s>>] = "pending"] /\ Idle(<<c, s>>)
            \/ ds' = [ds EXCEPT ![<<c, s>>] = "abort"] /\ worker' = worker
<1>1. freeBufs' \in Nat /\ heap' \in Int
  BY PutType DEF relay_post_wait
<1>2. buf' \in [Dirs -> BOOLEAN]
  BY DEF relay_post_wait, IInv, TypeOK, DirTypeOK
<1> QED BY <1>1, <1>2, PostStep DEF relay_post_wait

\* A worker that handles a packet keeps the invariant.
LEMMA WorkerInv ==
  ASSUME IInv, NEW c \in Conns, NEW s \in Sides, relay_worker(<<c, s>>)
  PROVE  IInv'
<1>1. /\ ds[<<c, s>>] = "run"
      /\ UNCHANGED <<poolVars, connVars, comp, rd, out, total, fin, faults, stopVars>>
  BY DEF relay_worker, HandleError, HandleWait, HandleRead, HandleEof, HandleSend, dataVars
<1>2. /\ op' \in [Dirs -> {"wait", "read", "send"}]
      /\ buf' \in [Dirs -> BOOLEAN] /\ freeBufs' \in Nat /\ heap' \in Int
      /\ len' \in [Dirs -> Nat] /\ off' \in [Dirs -> Nat]
      /\ finOut' \in [Dirs -> BOOLEAN]
      /\ \/ ds' = [ds EXCEPT ![<<c, s>>] = "pending"] /\ Idle(<<c, s>>)
         \/ ds' = [ds EXCEPT ![<<c, s>>] = "abort"] /\ worker' = worker
         \/ ds' = [ds EXCEPT ![<<c, s>>] = "dec"] /\ worker' = worker
  <2>0. /\ op \in [Dirs -> {"wait", "read", "send"}]
        /\ buf \in [Dirs -> BOOLEAN] /\ freeBufs \in Nat /\ heap \in Int
        /\ len \in [Dirs -> Nat] /\ off \in [Dirs -> Nat]
        /\ finOut \in [Dirs -> BOOLEAN]
        /\ comp[<<c, s>>].n \in Nat
    BY DEF IInv, TypeOK, PoolTypeOK, DirTypeOK
  <2>1. CASE HandleError(<<c, s>>)
    BY <2>0, <2>1 DEF HandleError, dataVars
  <2>2. CASE HandleWait(<<c, s>>)
    BY <2>0, <2>2, <1>1, PostReadStep DEF HandleWait, dataVars
  <2>3. CASE HandleRead(<<c, s>>)
    <3>1. len' \in [Dirs -> Nat] /\ off' \in [Dirs -> Nat]
      BY <2>0, <2>3 DEF HandleRead
    <3> QED BY <2>0, <2>3, <1>1, <3>1, PostStep, ZenonT(30) DEF HandleRead, dataVars
  <2>4. CASE HandleEof(<<c, s>>)
    BY <2>0, <2>4, SMTT(30) DEF HandleEof
  <2>5. CASE HandleSend(<<c, s>>)
    <3>1. len' = len /\ finOut' = finOut
      BY <2>5 DEF HandleSend, dataVars
    <3>2. \/ off' = off
          \/ off' = [off EXCEPT ![<<c, s>>] = off[<<c, s>>] + comp[<<c, s>>].n]
      BY <2>5, Zenon DEF HandleSend
    <3>3. off' \in [Dirs -> Nat]
      <4>1. off \in [Dirs -> Nat] /\ <<c, s>> \in Dirs
        BY <2>0
      <4>2. off[<<c, s>>] + comp[<<c, s>>].n \in Nat
        BY <2>0, <4>1, SMTT(30)
      <4> QED BY <3>2, <4>1, <4>2
    <3>4. \/ ds' = [ds EXCEPT ![<<c, s>>] = "abort"] /\ UNCHANGED <<op, buf, freeBufs, heap, worker>>
          \/ Post(<<c, s>>, "send") /\ UNCHANGED <<buf, freeBufs, heap>>
          \/ relay_post_wait(<<c, s>>)
          \/ relay_post_read(<<c, s>>)
      BY <2>5 DEF HandleSend
    <3> QED BY <2>0, <1>1, <3>1, <3>3, <3>4, PostStep, PostReadStep, PostWaitStep
  <2> QED BY <2>1, <2>2, <2>3, <2>4, <2>5 DEF relay_worker
<1>3. worker' \in [Workers -> Dirs \cup {NoDir, Exited}]
  BY SMT, <1>2, IdleType
<1>4. PoolTypeOK'
  BY <1>1, <1>2, <1>3 DEF IInv, TypeOK, PoolTypeOK, poolVars, connVars, stopVars
<1>5. DirTypeOK'
  <2>1. ds' \in [Dirs -> Touches \cup {"end"}]
    BY <1>2, ZenonT(30) DEF IInv, TypeOK, DirTypeOK, Touches, HoldsRef
  <2> QED BY <1>1, <1>2, <2>1 DEF IInv, TypeOK, DirTypeOK
<1>6. DirStep(c, s)
  BY SMT, <1>1, <1>2 DEF DirStep, connVars, HoldsRef, InThread, Last
<1> QED BY <1>4, <1>5, <1>6, DirStepInv DEF TypeOK

\* relay_abort inside relay_dir_end keeps the invariant.
LEMMA AbortInv ==
  ASSUME IInv, NEW c \in Conns, NEW s \in Sides,
         AbortCas(<<c, s>>) \/ AbortShutdown(<<c, s>>)
  PROVE  IInv'
<1>1. PoolTypeOK'
  BY ZenonT(30) DEF AbortCas, AbortShutdown, IInv, TypeOK, PoolTypeOK, poolVars, stopVars
<1>2. DirTypeOK'
  BY DEF AbortCas, AbortShutdown, IInv, TypeOK, DirTypeOK, dataVars, Touches, HoldsRef
<1>3. DirStep(c, s)
  BY DEF AbortCas, AbortShutdown, DirStep, HoldsRef, InThread, Last
<1> QED BY <1>1, <1>2, <1>3, DirStepInv DEF TypeOK

\* A step that moves one direction on and sends its worker back to the port
\* keeps every other direction handled.
LEMMA HandledFrame ==
  ASSUME IInv, NEW c \in Conns, NEW s \in Sides, NEW to,
         ds' = [ds EXCEPT ![<<c, s>>] = to], starter' = starter,
         \/ worker' = worker /\ ds[<<c, s>>] \in InThread
         \/ Idle(<<c, s>>) /\ to \notin InThread
  PROVE  \A k \in Conns : HandledInv(k)'
<1> SUFFICES ASSUME NEW k \in Conns PROVE HandledInv(k)'
  OBVIOUS
<1>1. HandledInv(k) /\ HandledInv(c)
  BY DEF IInv
<1>2. \A j \in Sides : ds'[<<k, j>>] = IF k = c /\ j = s THEN to ELSE ds[<<k, j>>]
  BY DEF IInv, TypeOK, DirTypeOK
<1>3. ASSUME NEW j \in Sides, k # c \/ j # s, \E w \in Workers : worker[w] = <<k, j>>
      PROVE  \E w \in Workers : worker'[w] = <<k, j>>
  BY SMT, <1>3 DEF Idle
<1> QED BY <1>1, <1>2, <1>3 DEF HandledInv

\* A direction that a worker or the kernel handles belongs to a live
\* connection of an open pool.
LEMMA HandledLive ==
  ASSUME IInv, NEW d \in Dirs, ds[d] \in {"pending", "queued", "run", "abort", "shutdown", "dec"}
  PROVE  conn[d[1]] = "live" /\ iocp
<1>1. PICK c \in Conns, s \in Sides : d = <<c, s>>
  BY DirsPair
<1>2. ConnInv(c) /\ conn[c] # "none"
  BY <1>1 DEF IInv, ConnInv
<1>3. conn[c] = "live"
  BY <1>1, <1>2 DEF ConnInv, HoldsRef
<1> QED BY <1>1, <1>3 DEF IInv, CleanShutdown

----------------------------------------------------------------------------
(* relay_start.                                                            *)

\* relay_start keeps the invariant: the check and the return from
\* relay_dir_end only move the starter on.
LEMMA StartMoveInv ==
  ASSUME IInv, NEW c \in Conns, StartCheck(c) \/ StartResume(c)
  PROVE  IInv'
<1>1. PICK to \in {"link", "post1", "done"} :
        /\ starter' = [starter EXCEPT ![c] = to]
        /\ to = "link" => starter[c] = "idle" /\ running
        /\ to = "post1" => starter[c] = "end0" /\ ds[<<c, 0>>] = "end"
        /\ to = "done" => \/ starter[c] = "idle"
                          \/ starter[c] = "end1" /\ ds[<<c, 1>>] = "end"
  BY DEF StartCheck, StartResume
<1>2. \A k \in Conns : starter'[k] = IF k = c THEN to ELSE starter[k]
  BY <1>1 DEF IInv, TypeOK, PoolTypeOK
<1>3. UNCHANGED <<poolVars, conn, refs, closing, shut, dirVars, dataVars, total, fin, faults,
                  freeBufs, heap, worker, stopVars>>
  BY DEF StartCheck, StartResume
<1>4. PoolTypeOK' /\ DirTypeOK'
  <2>1. starter' \in [Conns -> {"idle", "link", "post0", "end0", "post1", "end1", "done"}]
    BY <1>1 DEF IInv, TypeOK, PoolTypeOK
  <2> QED BY <1>3, <2>1
          DEF IInv, TypeOK, PoolTypeOK, DirTypeOK, poolVars, dirVars, dataVars, stopVars
<1>5. ASSUME NEW k \in Conns PROVE ConnInv(k)' /\ HandledInv(k)'
  <2>1. ConnInv(k) /\ HandledInv(k) /\ UNCHANGED <<conn, refs, linked, ds, worker>>
    BY <1>3 DEF IInv, poolVars, dirVars
  <2>2. ConnInv(k)'
    BY <1>1, <1>2, <2>1 DEF ConnInv, Ref
  <2>3. HandledInv(k)'
    BY <1>1, <1>2, <2>1 DEF ConnInv, HandledInv, InThread, Last
  <2> QED BY <2>2, <2>3
<1>6. SweepInv' /\ CountInv' /\ CleanShutdown'
  BY <1>3 DEF IInv, poolVars, stopVars, SweepInv, CountInv, CleanShutdown, LockFree
<1>7. StopInv'
  BY <1>1, <1>2, <1>3 DEF IInv, poolVars, stopVars, StopInv
<1> QED BY <1>4, <1>5, <1>6, <1>7 DEF IInv, TypeOK

\* Linking a connection under the lock.
LEMMA StartLinkInv ==
  ASSUME IInv, NEW c \in Conns, StartLink(c)
  PROVE  IInv'
<1>0. ConnInv(c) /\ conn[c] = "none" /\ c \notin linked /\ starter[c] = "link"
  <2>1. ConnInv(c) /\ starter[c] = "link"
    BY DEF IInv, StartLink
  <2> QED BY <2>1 DEF ConnInv
<1>1. UNCHANGED <<running, iocp, accepting, closing, shut, dirVars, dataVars, total, fin, faults,
                  freeBufs, heap, worker, stopVars>>
  BY DEF StartLink
<1>2. CASE accepting /\ running
  <2>1. /\ LockFree /\ linked' = linked \cup {c} /\ active' = active + 1 /\ done' = FALSE
        /\ conn' = [conn EXCEPT ![c] = "live"] /\ refs' = [refs EXCEPT ![c] = 2]
        /\ starter' = [starter EXCEPT ![c] = "post0"]
    BY <1>2 DEF StartLink
  <2>2. /\ \A k \in Conns : conn'[k] = IF k = c THEN "live" ELSE conn[k]
        /\ \A k \in Conns : refs'[k] = IF k = c THEN 2 ELSE refs[k]
        /\ \A k \in Conns : starter'[k] = IF k = c THEN "post0" ELSE starter[k]
    BY <2>1 DEF IInv, TypeOK, PoolTypeOK
  <2>3. CountInv'
    <3>1. IsFiniteSet(linked) /\ active = Cardinality(linked)
      BY DEF IInv, CountInv
    <3>2. IsFiniteSet(linked') /\ Cardinality(linked') = Cardinality(linked) + 1
      BY <1>0, <2>1, <3>1, FS_AddElement
    <3> QED BY <1>0, <2>1, <3>1, <3>2 DEF CountInv
  <2>4. PoolTypeOK'
    <3>1. linked' \in SUBSET Conns /\ active' \in Nat
      BY SMT, <2>1 DEF IInv, TypeOK, PoolTypeOK
    <3>4. done' \in BOOLEAN
      BY <2>1
    <3>2. /\ conn' \in [Conns -> {"none", "live", "closed", "freed"}]
          /\ starter' \in [Conns -> {"idle", "link", "post0", "end0", "post1", "end1", "done"}]
      BY <2>1 DEF IInv, TypeOK, PoolTypeOK
    <3>3. refs' \in [Conns -> 0..2]
      BY SMT, <2>1 DEF IInv, TypeOK, PoolTypeOK
    <3> QED BY <1>1, <3>1, <3>2, <3>3, <3>4 DEF IInv, TypeOK, PoolTypeOK, stopVars
  <2>5. DirTypeOK'
    BY <1>1 DEF IInv, TypeOK, DirTypeOK, dirVars, dataVars
  <2>6. ASSUME NEW k \in Conns PROVE ConnInv(k)' /\ HandledInv(k)'
    <3>1. ConnInv(k) /\ HandledInv(k) /\ UNCHANGED <<ds, worker>>
      BY <1>1 DEF IInv, dirVars
    <3>2. CASE k # c
      <4>1. /\ conn'[k] = conn[k] /\ refs'[k] = refs[k] /\ starter'[k] = starter[k]
            /\ k \in linked' <=> k \in linked
        BY <2>1, <2>2, <3>2
      <4>2. ConnInv(k)'
        BY <3>1, <4>1 DEF ConnInv, Ref
      <4>3. HandledInv(k)'
        BY <3>1, <4>1 DEF HandledInv
      <4> QED BY <4>2, <4>3
    <3>3. CASE k = c
      <4>1. /\ conn'[c] = "live" /\ refs'[c] = 2 /\ starter'[c] = "post0" /\ c \in linked'
            /\ ds'[<<c, 0>>] = "off" /\ ds'[<<c, 1>>] = "off"
        BY <1>0, <2>1, <2>2, <3>1 DEF ConnInv
      <4>2. ConnInv(c)'
        BY SMT, <4>1 DEF ConnInv, Ref, HoldsRef, Last
      <4>3. HandledInv(c)'
        BY <4>1 DEF HandledInv, InThread, Last
      <4> QED BY <3>3, <4>2, <4>3
    <3> QED BY <3>2, <3>3
  <2>7. SweepInv'
    BY <1>1, <2>1, SMTT(30) DEF IInv, stopVars, SweepInv, LockFree
  <2>8. StopInv' /\ CleanShutdown'
    BY <1>1, <1>2, <2>1, <2>2 DEF IInv, stopVars, StopInv, CleanShutdown
  <2> QED BY <2>3, <2>4, <2>5, <2>6, <2>7, <2>8 DEF IInv, TypeOK
<1>3. CASE ~(accepting /\ running)
  <2>1. /\ starter' = [starter EXCEPT ![c] = "done"]
        /\ UNCHANGED <<linked, active, done, conn, refs>>
    BY <1>3 DEF StartLink
  <2>2. \A k \in Conns : starter'[k] = IF k = c THEN "done" ELSE starter[k]
    BY <2>1 DEF IInv, TypeOK, PoolTypeOK
  <2>3. starter' \in [Conns -> {"idle", "link", "post0", "end0", "post1", "end1", "done"}]
    BY <2>1 DEF IInv, TypeOK, PoolTypeOK
  <2>4. PoolTypeOK' /\ DirTypeOK'
    BY <1>1, <2>1, <2>3, SMTT(30)
       DEF IInv, TypeOK, PoolTypeOK, DirTypeOK, dirVars, dataVars, stopVars
  <2>5. ASSUME NEW k \in Conns PROVE ConnInv(k)' /\ HandledInv(k)'
    <3>1. ConnInv(k) /\ HandledInv(k) /\ UNCHANGED <<ds, worker>>
      BY <1>1 DEF IInv, dirVars
    <3> QED BY <1>0, <2>1, <2>2, <3>1 DEF ConnInv, HandledInv, Ref, InThread, Last
  <2>6. SweepInv' /\ StopInv' /\ CountInv' /\ CleanShutdown'
    BY <1>1, <2>1, <2>2
       DEF IInv, stopVars, SweepInv, StopInv, CountInv, CleanShutdown, LockFree
  <2> QED BY <2>4, <2>5, <2>6 DEF IInv, TypeOK
<1> QED BY <1>2, <1>3

\* Posting the first receive of one side.
LEMMA StartPostInv ==
  ASSUME IInv, NEW c \in Conns, NEW s \in Sides, StartPost(c, s)
  PROVE  IInv'
<1>1. PICK to \in {"pending", "abort"}, pc \in {"end0", "post1", "end1", "done"} :
        /\ ds' = [ds EXCEPT ![<<c, s>>] = to] /\ starter' = [starter EXCEPT ![c] = pc]
        /\ starter[c] = IF s = 0 THEN "post0" ELSE "post1"
        /\ s = 0 => pc = IF to = "pending" THEN "post1" ELSE "end0"
        /\ s = 1 => pc = IF to = "pending" THEN "done" ELSE "end1"
  BY SMT DEF StartPost
<1>2. UNCHANGED <<poolVars, conn, refs, closing, shut, op, buf, len, off, comp, dataVars,
                  total, fin, faults, freeBufs, heap, worker, stopVars>>
  BY DEF StartPost
<1>3. /\ \A k \in Conns, j \in Sides :
           ds'[<<k, j>>] = IF k = c /\ j = s THEN to ELSE ds[<<k, j>>]
      /\ \A k \in Conns : starter'[k] = IF k = c THEN pc ELSE starter[k]
  <2>1. DOMAIN ds = Dirs /\ DOMAIN starter = Conns
    BY DEF IInv, TypeOK, PoolTypeOK, DirTypeOK
  <2>2. \A k \in Conns, j \in Sides :
          ds'[<<k, j>>] = IF k = c /\ j = s THEN to ELSE ds[<<k, j>>]
    BY <1>1, <2>1
  <2> QED BY <1>1, <2>1, <2>2
<1>4. ConnInv(c) /\ ds[<<c, s>>] = "off" /\ conn[c] # "none"
  <2>1. ConnInv(c) BY DEF IInv
  <2> QED BY <1>1, <2>1 DEF ConnInv
<1>5. PoolTypeOK'
  <2>1. starter' \in [Conns -> {"idle", "link", "post0", "end0", "post1", "end1", "done"}]
    BY <1>1 DEF IInv, TypeOK, PoolTypeOK
  <2> QED BY <1>2, <2>1 DEF IInv, TypeOK, PoolTypeOK, poolVars, stopVars
<1>6. DirTypeOK'
  <2>1. ds' \in [Dirs -> Touches \cup {"end"}]
    BY <1>1 DEF IInv, TypeOK, DirTypeOK, Touches, HoldsRef
  <2> QED BY <1>2, <2>1 DEF IInv, TypeOK, DirTypeOK, dataVars
<1>7. ASSUME NEW k \in Conns PROVE ConnInv(k)' /\ HandledInv(k)'
  <2>1. ConnInv(k) /\ HandledInv(k) /\ UNCHANGED <<conn, refs, linked, worker>>
    BY <1>2 DEF IInv, poolVars
  <2>2. CASE k # c
    BY <1>3, <2>1, <2>2, SMTT(30) DEF ConnInv, HandledInv, Ref
  <2>3. CASE k = c /\ s = 0
    <3>1. ConnInv(k)'
      <4>1. /\ starter[c] = "post0" /\ conn[c] # "none"
            /\ ds[<<c, 0>>] = "off" /\ ds[<<c, 1>>] = "off"
        BY <1>1, <1>4, <2>3 DEF ConnInv
      <4>2. conn[c] = "live" /\ c \in linked /\ refs[c] = 2
        BY SMTT(30), <1>4, <4>1 DEF ConnInv, Ref, HoldsRef, Sides
      <4>3. /\ conn'[c] = "live" /\ c \in linked' /\ refs'[c] = 2
            /\ ds'[<<c, 0>>] \in {"pending", "abort"} /\ ds'[<<c, 1>>] = "off"
            /\ starter'[c] \in {"post1", "end0"}
        BY <1>1, <1>3, <2>1, <2>3, <4>1, <4>2, SMTT(30)
      <4>4. ConnInv(c)'
        BY <4>3, SMTT(30) DEF ConnInv, Ref, HoldsRef, Last
      <4> QED BY <2>3, <4>4
    <3>2. HandledInv(k)'
      BY <1>1, <1>3, <1>4, <2>1, <2>3, SMTT(30) DEF ConnInv, HandledInv, InThread, Last
    <3> QED BY <3>1, <3>2, SMTT(30)
  <2>4. CASE k = c /\ s = 1
    <3>1. ConnInv(k)'
      <4>1. conn[c] # "none" /\ ds[<<c, 1>>] = "off"
        BY <1>4, <2>4
      <4>2. conn[c] = "live" /\ c \in linked /\ ds[<<c, 0>>] \notin Last
        BY <1>4, <4>1 DEF ConnInv, HoldsRef, Sides
      <4>3. refs[c] = Ref(c, 0) + 1
        BY <1>4, <4>1 DEF ConnInv, Ref, HoldsRef
      <4>4. /\ conn'[c] = "live" /\ c \in linked' /\ refs'[c] = refs[c]
            /\ ds'[<<c, 1>>] \in {"pending", "abort"} /\ ds'[<<c, 0>>] = ds[<<c, 0>>]
            /\ starter'[c] \in {"done", "end1"}
        BY <1>1, <1>3, <2>1, <2>4, <4>2
      <4>5. refs'[c] = Ref(c, 0)' + Ref(c, 1)'
        BY <4>3, <4>4 DEF Ref, HoldsRef
      <4>6. ConnInv(c)'
        BY <4>2, <4>4, <4>5, SMTT(30) DEF ConnInv, HoldsRef, Last
      <4> QED BY <2>4, <4>6
    <3>2. HandledInv(k)'
      BY <1>1, <1>3, <1>4, <2>1, <2>4 DEF ConnInv, HandledInv, InThread, Last
    <3> QED BY <3>1, <3>2
  <2> QED BY <2>2, <2>3, <2>4
<1>8. SweepInv' /\ CountInv' /\ CleanShutdown'
  BY <1>2 DEF IInv, poolVars, stopVars, SweepInv, CountInv, CleanShutdown, LockFree
<1>9. StopInv'
  BY <1>1, <1>2, <1>3 DEF IInv, poolVars, stopVars, StopInv
<1> QED BY <1>5, <1>6, <1>7, <1>8, <1>9 DEF IInv, TypeOK

----------------------------------------------------------------------------
(* Who shuts a connection down.                                            *)

\* The sockets of k, its sweep and its directions in relay_abort stay put.
ConnSame(k) ==
    /\ shut'[k] = shut[k] /\ closing'[k] = closing[k]
    /\ k \in cursor' => k \in cursor
    /\ \A s \in Sides : ds'[<<k, s>>] = "shutdown" => ds[<<k, s>>] = "shutdown"

\* Only relay_abort sets closing and shuts sockets down.
LEMMA CloseFrame ==
  ASSUME IInv, [Next]_vars, NEW k \in Conns,
         \A c \in Conns : ~SweepCas(c) /\ ~SweepShutdown(c),
         \A d \in Dirs : ~AbortCas(d) /\ ~AbortShutdown(d)
  PROVE  ConnSame(k)
<1>1. CASE \/ relay_pool_start \/ PoolStartFails \/ request_runtime_stop \/ Stopping
           \/ (\E w \in Workers : WorkerExit(w)) \/ UNCHANGED vars
  <2>1. UNCHANGED <<shut, closing, cursor, ds>>
    BY <1>1
       DEF relay_pool_start, PoolStartFails, request_runtime_stop, Stopping, SweepBegin, SweepEnd,
       DrainConnectionWorkers, NoPoolToStop, PostExits, ClosePool,
       WorkerExit, vars, connVars, dirVars, stopVars
  <2> QED BY <2>1 DEF ConnSame
<1>2. ASSUME NEW c \in Conns, relay_start(c) PROVE ConnSame(k)
  <2>1. UNCHANGED <<shut, closing, cursor>>
    BY <1>2 DEF relay_start, StartCheck, StartLink, StartPost, StartResume, stopVars
  <2>2. ASSUME NEW s \in Sides, ds'[<<k, s>>] = "shutdown" PROVE ds[<<k, s>>] = "shutdown"
    <3>1. \/ ds' = ds
          \/ \E j \in Sides : \/ ds' = [ds EXCEPT ![<<c, j>>] = "pending"]
                              \/ ds' = [ds EXCEPT ![<<c, j>>] = "abort"]
      BY <1>2 DEF relay_start, StartCheck, StartLink, StartPost, StartResume, dirVars
    <3> QED BY <2>2, <3>1, ZenonT(30) DEF IInv, TypeOK, DirTypeOK
  <2> QED BY <2>1, <2>2 DEF ConnSame
<1>3. ASSUME NEW d \in Dirs,
             \/ Kernel(d) \/ relay_worker(d) \/ relay_dir_end(d) \/ \E w \in Workers : Dequeue(w, d)
      PROVE  ConnSame(k)
  <2>1. UNCHANGED <<shut, closing, cursor>>
    BY <1>3
       DEF Kernel, Complete, CompleteError, relay_worker, HandleError, HandleWait, HandleRead,
       HandleEof, HandleSend, relay_dir_end, ReleaseDec, ReleaseUnlink, ReleaseClose, ReleaseFree,
       Dequeue, connVars, stopVars
  <2>2. \E to \in {"pending", "queued", "run", "abort", "dec", "unlink", "close", "free", "end"} :
           ds' = [ds EXCEPT ![d] = to]
    <3>1. CASE Kernel(d) \/ \E w \in Workers : Dequeue(w, d)
      BY <3>1 DEF Kernel, Complete, CompleteError, Dequeue
    <3>2. CASE relay_worker(d)
      <4>1. \/ ds' = [ds EXCEPT ![d] = "abort"] \/ ds' = [ds EXCEPT ![d] = "dec"]
            \/ ds' = [ds EXCEPT ![d] = "pending"]
        BY <3>2 DEF relay_worker, HandleError, HandleWait, HandleRead, HandleEof, HandleSend,
           relay_post_read, relay_post_wait, Post
      <4> QED BY <4>1
    <3>3. CASE relay_dir_end(d)
      BY <3>3 DEF relay_dir_end, ReleaseDec, ReleaseUnlink, ReleaseClose, ReleaseFree
    <3> QED BY <1>3, <3>1, <3>2, <3>3
  <2>3. ASSUME NEW s \in Sides, ds'[<<k, s>>] = "shutdown" PROVE ds[<<k, s>>] = "shutdown"
    BY <2>2, <2>3 DEF IInv, TypeOK, DirTypeOK
  <2> QED BY <2>1, <2>3 DEF ConnSame
<1> QED BY <1>1, <1>2, <1>3 DEF Next

\* relay_abort shuts the sockets down only after its exchange on closing.
LEMMA CloseStep ==
  ASSUME IInv, [Next]_vars, \A c \in Conns : CloseInv(c), NEW k \in Conns
  PROVE  CloseInv(k)'
<1>1. /\ DirTypeOK /\ closing \in [Conns -> BOOLEAN] /\ shut \in [Conns -> BOOLEAN]
  BY DEF IInv, TypeOK, PoolTypeOK
<1>2. ASSUME NEW c \in Conns, SweepCas(c) PROVE CloseInv(k)'
  <2>1. UNCHANGED <<ds, shut>> /\ closing'[c] = TRUE /\ (k # c => closing'[k] = closing[k])
    BY <1>1, <1>2 DEF SweepCas, dirVars
  <2>2. k \in cursor' => k = c
    BY <1>2 DEF SweepCas
  <2> QED BY <2>1, <2>2 DEF CloseInv
<1>3. ASSUME NEW c \in Conns, SweepShutdown(c) PROVE CloseInv(k)'
  <2>1. UNCHANGED <<ds, closing>> /\ cursor = {c} /\ cursor' = {} /\ (k # c => shut'[k] = shut[k])
    BY <1>1, <1>3 DEF SweepShutdown, dirVars
  <2> QED BY <2>1 DEF CloseInv
<1>4. ASSUME NEW d \in Dirs, AbortCas(d) \/ AbortShutdown(d) PROVE CloseInv(k)'
  <2>1. PICK c \in Conns, s \in Sides : d = <<c, s>>
    BY DirsPair
  <2>2. CASE AbortCas(d)
    <3>1. UNCHANGED <<shut, cursor>> /\ closing'[c] = TRUE /\ (k # c => closing'[k] = closing[k])
      BY <1>1, <2>1, <2>2 DEF AbortCas, stopVars
    <3>2. k # c => ds'[<<k, 0>>] = ds[<<k, 0>>] /\ ds'[<<k, 1>>] = ds[<<k, 1>>]
      BY <1>1, <2>1, <2>2 DEF AbortCas, DirTypeOK
    <3> QED BY <3>1, <3>2 DEF CloseInv
  <2>3. CASE AbortShutdown(d)
    <3>1. /\ UNCHANGED <<closing, cursor>> /\ ds[<<c, s>>] = "shutdown"
          /\ k # c => shut'[k] = shut[k]
      BY <1>1, <2>1, <2>3 DEF AbortShutdown, stopVars
    <3>2. k # c => ds'[<<k, 0>>] = ds[<<k, 0>>] /\ ds'[<<k, 1>>] = ds[<<k, 1>>]
      BY <1>1, <2>1, <2>3 DEF AbortShutdown, DirTypeOK
    <3>3. closing[c]
      BY <3>1 DEF CloseInv
    <3> QED BY <3>1, <3>2, <3>3 DEF CloseInv
  <2> QED BY <1>4, <2>2, <2>3
<1>5. CASE /\ \A c \in Conns : ~SweepCas(c) /\ ~SweepShutdown(c)
           /\ \A d \in Dirs : ~AbortCas(d) /\ ~AbortShutdown(d)
  <2>1. ConnSame(k)
    BY <1>5, CloseFrame
  <2> QED BY <2>1 DEF ConnSame, CloseInv
<1> QED BY <1>2, <1>3, <1>4, <1>5

\* closing is set for a stream without faults only by the sweep of Stop.
LEMMA KeepsReverse ==
  ASSUME DInv, [Next]_vars, NEW k \in Conns, closing'[k], ~closing[k]
  PROVE  faults \/ ~running
<1>1. ASSUME NEW c \in Conns, SweepCas(c) PROVE ~running
  BY <1>1 DEF SweepCas, LockFree, DInv, IInv, StopInv
<1>2. ASSUME NEW c \in Conns, SweepShutdown(c) PROVE FALSE
  BY <1>2 DEF SweepShutdown
<1>3. ASSUME NEW d \in Dirs, AbortCas(d) PROVE faults
  <2>1. d[1] = k
    BY <1>3 DEF AbortCas, DInv, IInv, TypeOK, PoolTypeOK
  <2>2. faults \/ shut[k]
    BY <1>3, <2>1 DEF AbortCas, DInv, StreamInv
  <2> QED BY <2>2 DEF DInv, CloseInv
<1>4. ASSUME NEW d \in Dirs, AbortShutdown(d) PROVE FALSE
  BY <1>4 DEF AbortShutdown
<1>5. CASE /\ \A c \in Conns : ~SweepCas(c) /\ ~SweepShutdown(c)
           /\ \A d \in Dirs : ~AbortCas(d) /\ ~AbortShutdown(d)
  BY <1>5, CloseFrame DEF ConnSame, DInv
<1> QED BY <1>1, <1>2, <1>3, <1>4, <1>5

----------------------------------------------------------------------------
(* Releases and closes.                                                    *)

\* relay_release keeps the invariant: one step per part of it.
LEMMA ReleaseDecInv ==
  ASSUME IInv, NEW c \in Conns, NEW s \in Sides, ReleaseDec(<<c, s>>)
  PROVE  IInv'
<1>0. ConnInv(c) /\ refs[c] \in 0..2 /\ conn[c] # "none"
  <2>1. ds[<<c, s>>] = "dec" BY DEF ReleaseDec
  <2> QED BY <2>1 DEF IInv, TypeOK, PoolTypeOK, ConnInv
<1>1. PICK to \in {"unlink", "end"} :
        /\ ds' = [ds EXCEPT ![<<c, s>>] = to]
        /\ to = "unlink" <=> refs[c] = 1
        /\ \/ worker' = worker /\ to = "unlink"
           \/ Idle(<<c, s>>) /\ to = "end"
  BY DEF ReleaseDec
<1>2. /\ ds[<<c, s>>] = "dec"
      /\ \A k \in Conns, j \in Sides :
           ds'[<<k, j>>] = IF k = c /\ j = s THEN to ELSE ds[<<k, j>>]
      /\ \A k \in Conns : refs'[k] = IF k = c THEN refs[k] - 1 ELSE refs[k]
  <2>1. ds \in [Dirs -> Touches \cup {"end"}] /\ refs \in [Conns -> 0..2]
    BY DEF IInv, TypeOK, DirTypeOK, PoolTypeOK
  <2>2. ds[<<c, s>>] = "dec" /\ refs' = [refs EXCEPT ![c] = @ - 1]
    BY DEF ReleaseDec
  <2>3. \A k \in Conns, j \in Sides :
          ds'[<<k, j>>] = IF k = c /\ j = s THEN to ELSE ds[<<k, j>>]
    BY <1>1, <2>1
  <2>4. \A k \in Conns : refs'[k] = IF k = c THEN refs[k] - 1 ELSE refs[k]
    BY <2>1, <2>2
  <2> QED BY <2>2, <2>3, <2>4
<1>3. UNCHANGED <<poolVars, conn, starter, closing, shut, freeBufs, heap, stopVars,
                  op, buf, len, off, comp, dataVars, total, fin, faults>>
  BY DEF ReleaseDec
<1>4. refs[c] \in {1, 2}
  BY SMT, <1>0, <1>2 DEF ConnInv, Ref, HoldsRef
<1>5. PoolTypeOK'
  <2>1. worker' \in [Workers -> Dirs \cup {NoDir, Exited}]
    BY SMT, <1>1, IdleType
  <2>2. refs' \in [Conns -> 0..2]
    BY SMT, <1>4 DEF ReleaseDec, IInv, TypeOK, PoolTypeOK
  <2> QED BY <1>3, <2>1, <2>2 DEF IInv, TypeOK, PoolTypeOK, poolVars, stopVars
<1>6. DirTypeOK'
  BY <1>1, <1>3 DEF IInv, TypeOK, DirTypeOK, dataVars, Touches
<1>7. ASSUME NEW k \in Conns PROVE ConnInv(k)'
  <2>1. ConnInv(k)
    BY DEF IInv
  <2>2. UNCHANGED <<conn, starter, linked>>
    BY <1>3 DEF poolVars
  <2>3. CASE k # c
    BY <1>2, <2>1, <2>2, <2>3 DEF ConnInv, Ref
  <2>4. CASE k = c
    <3>1. ds[<<c, 0>>] \in Touches \cup {"end"} /\ ds[<<c, 1>>] \in Touches \cup {"end"}
      BY DirValues
    <3>2. CASE s = 0
      <4>1. /\ ds[<<c, 0>>] = "dec" /\ ds'[<<c, 0>>] = to
            /\ ds'[<<c, 1>>] = ds[<<c, 1>>] /\ refs'[c] = refs[c] - 1
        BY SMT, <1>2, <3>2
      <4>2. /\ conn[c] = "live" /\ c \in linked /\ ds[<<c, 1>>] \notin Last
            /\ refs[c] = 1 + Ref(c, 1) /\ starter[c] \notin {"idle", "link", "post0"}
        BY <1>0, <4>1 DEF ConnInv, Ref, HoldsRef, Last
      <4>3. /\ to = "unlink" => ds[<<c, 1>>] = "end"
            /\ to = "end" => ds[<<c, 1>>] \in HoldsRef
        BY SMT, <1>1, <1>4, <3>1, <4>2 DEF Ref, Touches, Last
      <4> QED BY SMT, <1>0, <1>1, <2>2, <2>4, <4>1, <4>2, <4>3 DEF ConnInv, Ref, HoldsRef, Last
    <3>3. CASE s = 1
      <4>1. /\ ds[<<c, 1>>] = "dec" /\ ds'[<<c, 1>>] = to
            /\ ds'[<<c, 0>>] = ds[<<c, 0>>] /\ refs'[c] = refs[c] - 1
        BY SMT, <1>2, <3>3
      <4>2. /\ conn[c] = "live" /\ c \in linked /\ ds[<<c, 0>>] \notin Last
            /\ refs[c] = 1 + Ref(c, 0) /\ starter[c] \notin {"idle", "link", "post0", "end0", "post1"}
        BY SMT, <1>0, <4>1 DEF ConnInv, Ref, HoldsRef, Last
      <4>3. /\ to = "unlink" => ds[<<c, 0>>] = "end"
            /\ to = "end" => ds[<<c, 0>>] \in HoldsRef
        BY SMT, <1>1, <1>4, <3>1, <4>2 DEF Ref, Touches, Last
      <4> QED BY SMT, <1>0, <1>1, <2>2, <2>4, <4>1, <4>2, <4>3 DEF ConnInv, Ref, HoldsRef, Last
    <3> QED BY <3>2, <3>3
  <2> QED BY <2>3, <2>4
<1>8. \A k \in Conns : HandledInv(k)'
  <2>1. starter' = starter /\ ds[<<c, s>>] \in InThread /\ "end" \notin InThread
    BY <1>2, <1>3 DEF InThread, Last
  <2> QED BY <1>1, <2>1, HandledFrame
<1>9. SweepInv' /\ StopInv' /\ CountInv'
  BY <1>3 DEF IInv, poolVars, stopVars, SweepInv, StopInv, CountInv, LockFree
<1>10. CleanShutdown'
  <2>1. iocp' = iocp /\ CleanShutdown
    BY <1>3 DEF poolVars, IInv
  <2>2. ~iocp => FALSE
    BY <1>0, <1>2, <2>1 DEF CleanShutdown, ConnInv, HoldsRef
  <2> QED BY <2>1, <2>2 DEF CleanShutdown
<1> QED BY <1>5, <1>6, <1>7, <1>8, <1>9, <1>10 DEF IInv, TypeOK

\* relay_release takes the connection off the list under the lock.
LEMMA ReleaseUnlinkInv ==
  ASSUME IInv, NEW c \in Conns, NEW s \in Sides, ReleaseUnlink(<<c, s>>)
  PROVE  IInv'
<1>1. /\ ds[<<c, s>>] = "unlink" /\ LockFree
      /\ ds' = [ds EXCEPT ![<<c, s>>] = "close"]
      /\ \A k \in Conns, j \in Sides :
           ds'[<<k, j>>] = IF k = c /\ j = s THEN "close" ELSE ds[<<k, j>>]
      /\ linked' = linked \ {c} /\ active' = active - 1
      /\ done' = (done \/ active = 1)
  BY DEF ReleaseUnlink, IInv, TypeOK, DirTypeOK
<1>2. UNCHANGED <<running, iocp, accepting, connVars, op, buf, len, off, comp,
                  dataVars, total, fin, faults, freeBufs, heap, worker, stopVars>>
  BY DEF ReleaseUnlink
<1>3. ConnInv(c) /\ c \in linked /\ conn[c] = "live"
  <2>1. ConnInv(c) BY DEF IInv
  <2> QED BY <1>1, <2>1 DEF ConnInv
<1>4. CountInv'
  <2>1. /\ IsFiniteSet(linked) /\ active = Cardinality(linked)
        /\ iocp => (done <=> linked = {})
    BY DEF IInv, CountInv
  <2>2. /\ IsFiniteSet(linked \ {c})
        /\ Cardinality(linked \ {c}) = Cardinality(linked) - 1
    BY <1>3, <2>1, FS_RemoveElement
  <2>3. linked \ {c} = {} <=> Cardinality(linked) = 1
    <3>1. Cardinality(linked \ {c}) = 0 <=> linked \ {c} = {}
      BY <2>2, FS_EmptySet
    <3>2. Cardinality(linked) \in Nat
      BY <2>1, FS_CardinalityType
    <3> QED BY SMT, <2>2, <3>1, <3>2
  <2>4. linked # {}
    BY <1>3
  <2> QED BY <1>1, <1>2, <2>1, <2>2, <2>3, <2>4 DEF CountInv
<1>5. active' \in Nat
  <2>1. IsFiniteSet(linked') /\ active' = Cardinality(linked')
    BY <1>4 DEF CountInv
  <2> QED BY <2>1, FS_CardinalityType
<1>6. PoolTypeOK'
  BY <1>1, <1>2, <1>5 DEF IInv, TypeOK, PoolTypeOK, connVars, stopVars
<1>7. DirTypeOK'
  BY <1>1, <1>2 DEF IInv, TypeOK, DirTypeOK, dataVars, Touches
<1>8. ASSUME NEW k \in Conns PROVE ConnInv(k)'
  <2>1. ConnInv(k)
    BY DEF IInv
  <2>2. UNCHANGED <<conn, starter, refs>>
    BY <1>2 DEF connVars
  <2>3. CASE k # c
    BY <1>1, <2>1, <2>2, <2>3 DEF ConnInv, Ref
  <2>4. CASE k = c
    <3>1. CASE s = 0
      BY <1>1, <1>3, <2>2, <2>4, <3>1, SMTT(30) DEF ConnInv, Ref, HoldsRef, Last
    <3>2. CASE s = 1
      BY SMT, <1>1, <1>3, <2>2, <2>4, <3>2 DEF ConnInv, Ref, HoldsRef, Last
    <3> QED BY <3>1, <3>2, SMTT(30)
  <2> QED BY <2>3, <2>4
<1>9. \A k \in Conns : HandledInv(k)'
  <2>1. starter' = starter /\ worker' = worker /\ ds[<<c, s>>] \in InThread
    BY <1>1, <1>2 DEF InThread, Last, connVars
  <2> QED BY <1>1, <2>1, HandledFrame
<1>10. SweepInv' /\ StopInv'
  BY <1>1, <1>2 DEF IInv, connVars, stopVars, SweepInv, StopInv, LockFree
<1>11. CleanShutdown'
  BY <1>2, <1>3 DEF IInv, connVars, CleanShutdown
<1> QED BY <1>4, <1>6, <1>7, <1>8, <1>9, <1>10, <1>11 DEF IInv, TypeOK

\* relay_release closes the two sockets.
LEMMA ReleaseCloseInv ==
  ASSUME IInv, NEW c \in Conns, NEW s \in Sides, ReleaseClose(<<c, s>>)
  PROVE  IInv'
<1>1. /\ ds[<<c, s>>] = "close"
      /\ ds' = [ds EXCEPT ![<<c, s>>] = "free"]
      /\ \A k \in Conns, j \in Sides :
           ds'[<<k, j>>] = IF k = c /\ j = s THEN "free" ELSE ds[<<k, j>>]
      /\ conn' = [conn EXCEPT ![c] = "closed"]
      /\ \A k \in Conns : conn'[k] = IF k = c THEN "closed" ELSE conn[k]
  BY DEF ReleaseClose, IInv, TypeOK, DirTypeOK, PoolTypeOK
<1>2. UNCHANGED <<poolVars, refs, closing, shut, starter, op, buf, len, off, comp,
                  dataVars, total, fin, faults, freeBufs, heap, worker, stopVars>>
  BY DEF ReleaseClose
<1>3. ConnInv(c) /\ conn[c] = "live"
  <2>1. ConnInv(c) BY DEF IInv
  <2> QED BY <1>1, <2>1 DEF ConnInv
<1>4. PoolTypeOK'
  BY <1>1, <1>2 DEF IInv, TypeOK, PoolTypeOK, poolVars, stopVars
<1>5. DirTypeOK'
  BY <1>1, <1>2 DEF IInv, TypeOK, DirTypeOK, dataVars, Touches
<1>6. ASSUME NEW k \in Conns PROVE ConnInv(k)'
  <2>1. ConnInv(k)
    BY DEF IInv
  <2>2. UNCHANGED <<linked, starter, refs>>
    BY <1>2 DEF poolVars
  <2>3. CASE k # c
    BY <1>1, <2>1, <2>2, <2>3, SMTT(30) DEF ConnInv, Ref
  <2>4. CASE k = c
    <3>1. CASE s = 0
      BY SMT, <1>1, <1>3, <2>2, <2>4, <3>1 DEF ConnInv, Ref, HoldsRef, Last
    <3>2. CASE s = 1
      BY SMT, <1>1, <1>3, <2>2, <2>4, <3>2 DEF ConnInv, Ref, HoldsRef, Last
    <3> QED BY <3>1, <3>2
  <2> QED BY <2>3, <2>4
<1>7. \A k \in Conns : HandledInv(k)'
  <2>1. ds[<<c, s>>] \in InThread
    BY <1>1 DEF InThread, Last
  <2> QED BY <1>1, <1>2, <2>1, HandledFrame, ZenonT(30)
<1>8. SweepInv' /\ StopInv' /\ CountInv'
  BY <1>2, SMTT(30) DEF IInv, poolVars, stopVars, SweepInv, StopInv, CountInv, LockFree
<1>9. CleanShutdown'
  BY <1>2, <1>3 DEF IInv, poolVars, CleanShutdown
<1> QED BY <1>4, <1>5, <1>6, <1>7, <1>8, <1>9 DEF IInv, TypeOK

\* relay_release frees the connection and counts it out.
LEMMA ReleaseFreeInv ==
  ASSUME IInv, NEW c \in Conns, NEW s \in Sides, ReleaseFree(<<c, s>>)
  PROVE  IInv'
<1>1. /\ ds[<<c, s>>] = "free"
      /\ ds' = [ds EXCEPT ![<<c, s>>] = "end"]
      /\ \A k \in Conns, j \in Sides :
           ds'[<<k, j>>] = IF k = c /\ j = s THEN "end" ELSE ds[<<k, j>>]
      /\ conn' = [conn EXCEPT ![c] = "freed"]
      /\ \A k \in Conns : conn'[k] = IF k = c THEN "freed" ELSE conn[k]
      /\ Idle(<<c, s>>)
  BY DEF ReleaseFree, IInv, TypeOK, DirTypeOK, PoolTypeOK
<1>2. UNCHANGED <<poolVars, refs, closing, shut, starter, op, len, off, comp,
                  dataVars, total, fin, faults, stopVars>>
  BY DEF ReleaseFree
<1>3. ConnInv(c) /\ conn[c] = "closed"
  <2>1. ConnInv(c) BY DEF IInv
  <2> QED BY <1>1, <2>1 DEF ConnInv
<1>4. PoolTypeOK'
  <2>1. IsFiniteSet({<<c, s>>, Sibling(<<c, s>>)})
    <3>1. IsFiniteSet({<<c, s>>})
      BY FS_Singleton
    <3>2. IsFiniteSet({<<c, s>>} \cup {Sibling(<<c, s>>)})
      BY <3>1, FS_AddElement
    <3>3. {<<c, s>>} \cup {Sibling(<<c, s>>)} = {<<c, s>>, Sibling(<<c, s>>)}
      OBVIOUS
    <3> QED BY <3>2, <3>3
  <2> DEFINE owned == {x \in {<<c, s>>, Sibling(<<c, s>>)} : buf[x]}
  <2>2. Cardinality(owned) \in Nat
    <3>1. IsFiniteSet(owned)
      BY <2>1, FS_Subset
    <3> QED BY <3>1, FS_CardinalityType
  <2>3. freeBufs' \in Nat /\ heap' \in Int
    BY <2>2, PutType DEF ReleaseFree
  <2>4. worker' \in [Workers -> Dirs \cup {NoDir, Exited}]
    BY <1>1, IdleType
  <2> QED BY <1>1, <1>2, <2>3, <2>4 DEF IInv, TypeOK, PoolTypeOK, poolVars, stopVars
<1>5. DirTypeOK'
  <2>1. buf' \in [Dirs -> BOOLEAN]
    BY DEF ReleaseFree
  <2> QED BY <1>1, <1>2, <2>1, SMTT(30) DEF IInv, TypeOK, DirTypeOK, dataVars, Touches
<1>6. ASSUME NEW k \in Conns PROVE ConnInv(k)'
  <2>1. ConnInv(k)
    BY DEF IInv
  <2>2. UNCHANGED <<linked, starter, refs>>
    BY <1>2 DEF poolVars
  <2>3. CASE k # c
    BY <1>1, <2>1, <2>2, <2>3, SMTT(30) DEF ConnInv, Ref
  <2>4. CASE k = c
    <3>1. CASE s = 0
      BY <1>1, <1>3, <2>2, <2>4, <3>1, SMTT(30) DEF ConnInv, Ref, HoldsRef, Last
    <3>2. CASE s = 1
      BY SMTT(30), <1>1, <1>3, <2>2, <2>4, <3>2 DEF ConnInv, Ref, HoldsRef, Last
    <3> QED BY <3>1, <3>2
  <2> QED BY <2>3, <2>4
<1>7. \A k \in Conns : HandledInv(k)'
  <2>1. "end" \notin InThread
    BY DEF InThread, Last
  <2> QED BY <1>1, <1>2, <2>1, HandledFrame
<1>8. SweepInv' /\ StopInv' /\ CountInv'
  BY <1>2 DEF IInv, poolVars, stopVars, SweepInv, StopInv, CountInv, LockFree
<1>9. CleanShutdown'
  BY <1>2, <1>3 DEF IInv, poolVars, CleanShutdown
<1> QED BY <1>4, <1>5, <1>6, <1>7, <1>8, <1>9 DEF IInv, TypeOK

\* The thread handling a direction steps through relay_dir_end.
LEMMA DirEndInv ==
  ASSUME IInv, NEW c \in Conns, NEW s \in Sides, relay_dir_end(<<c, s>>)
  PROVE  IInv'
BY AbortInv, ReleaseDecInv, ReleaseUnlinkInv, ReleaseCloseInv, ReleaseFreeInv
   DEF relay_dir_end

----------------------------------------------------------------------------
(* The buffers.                                                            *)

Buffers == {d \in Dirs : buf[d]}

\* A direction takes a buffer, from the pool or from malloc.
LEMMA TakeBuffer ==
  ASSUME IInv, BufInv, NEW d \in Dirs, ~buf[d], iocp, iocp' = iocp,
         buf' = [buf EXCEPT ![d] = TRUE],
         IF freeBufs > 0 THEN freeBufs' = freeBufs - 1 /\ UNCHANGED heap
                         ELSE heap' = heap + 1 /\ UNCHANGED freeBufs
  PROVE  BufInv'
<1>1. Buffers' = Buffers \cup {d} /\ d \notin Buffers
  BY DEF Buffers, IInv, TypeOK, DirTypeOK
<1>2. /\ IsFiniteSet(Buffers) /\ Cardinality(Buffers) \in Nat
      /\ heap = freeBufs + Cardinality(Buffers) /\ freeBufs <= PoolKeep
      /\ freeBufs \in Nat /\ PoolKeep \in Nat
  BY FS_CardinalityType, RelayAssumption
     DEF Buffers, BufInv, BuffersConserved, IInv, TypeOK, PoolTypeOK
<1>3. IsFiniteSet(Buffers') /\ Cardinality(Buffers') = Cardinality(Buffers) + 1
  BY <1>1, <1>2, FS_AddElement
<1>4. heap' = freeBufs' + Cardinality(Buffers') /\ freeBufs' <= PoolKeep
  BY SMT, <1>2, <1>3
<1> QED BY <1>3, <1>4 DEF Buffers, BufInv, BuffersConserved

\* The buffers of the directions D go back: the pool keeps what it may.
LEMMA PutBuffers ==
  ASSUME IInv, BufInv, NEW D \in SUBSET Dirs, iocp, iocp' = iocp,
         Buffers' = Buffers \ D, relay_buf_put(Cardinality(Buffers \cap D))
  PROVE  BufInv'
<1> DEFINE k == Cardinality(Buffers \cap D)
<1>1. /\ IsFiniteSet(Buffers) /\ Cardinality(Buffers) \in Nat
      /\ heap = freeBufs + Cardinality(Buffers) /\ freeBufs <= PoolKeep
      /\ freeBufs \in Nat /\ PoolKeep \in Nat
  BY FS_CardinalityType, RelayAssumption
     DEF Buffers, BufInv, BuffersConserved, IInv, TypeOK, PoolTypeOK
<1>2. IsFiniteSet(Buffers') /\ Cardinality(Buffers') = Cardinality(Buffers) - k
  BY <1>1, FS_Difference
<1>3. IsFiniteSet(Buffers \cap D) /\ k \in Nat
  BY <1>1, FS_Intersection, FS_CardinalityType
<1> HIDE DEF k
<1>4. /\ freeBufs' = IF freeBufs + k <= PoolKeep THEN freeBufs + k ELSE PoolKeep
      /\ heap' = heap - (freeBufs + k - freeBufs')
  BY DEF relay_buf_put, k
<1>5. heap' = freeBufs' + Cardinality(Buffers') /\ freeBufs' <= PoolKeep
  BY SMT, <1>1, <1>2, <1>3, <1>4
<1> QED BY <1>2, <1>5 DEF Buffers, BufInv, BuffersConserved

\* relay_post_read and relay_post_wait keep the accounts.
LEMMA PostBuffers ==
  ASSUME IInv, BufInv, NEW d \in Dirs, iocp, iocp' = iocp,
         relay_post_read(d) \/ relay_post_wait(d)
  PROVE  BufInv'
<1>1. CASE UNCHANGED <<buf, freeBufs, heap>>
  BY <1>1 DEF BufInv, BuffersConserved
<1>2. CASE relay_post_wait(d)
  <2>1. buf' = [buf EXCEPT ![d] = FALSE] /\ relay_buf_put(IF buf[d] THEN 1 ELSE 0)
    BY <1>2 DEF relay_post_wait
  <2>2. Buffers' = Buffers \ {d}
    BY <2>1 DEF Buffers, IInv, TypeOK, DirTypeOK
  <2>3. Cardinality(Buffers \cap {d}) = IF buf[d] THEN 1 ELSE 0
    <3>1. CASE buf[d]
      <4>1. Buffers \cap {d} = {d}
        BY <3>1 DEF Buffers
      <4> QED BY <3>1, <4>1, FS_Singleton
    <3>2. CASE ~buf[d]
      <4>1. Buffers \cap {d} = {}
        BY <3>2 DEF Buffers
      <4> QED BY <3>2, <4>1, FS_EmptySet
    <3> QED BY <3>1, <3>2
  <2> QED BY <2>1, <2>2, <2>3, PutBuffers
<1>3. CASE relay_post_read(d) /\ ~UNCHANGED <<buf, freeBufs, heap>>
  BY <1>3, TakeBuffer DEF relay_post_read
<1> QED BY <1>1, <1>2, <1>3

\* No buffer outlives its connection, so closing the pool frees the last one.
LEMMA BufferStep ==
  ASSUME IInv, IInv', BufInv, \A d \in Dirs : StreamInv(d), [Next]_vars
  PROVE  BufInv'
<1>1. CASE UNCHANGED <<buf, freeBufs, heap>> /\ (iocp => iocp')
  BY <1>1 DEF BufInv, BuffersConserved
<1>2. CASE ClosePool
  <2>1. /\ iocp' = FALSE /\ freeBufs' = 0 /\ heap' = heap - freeBufs /\ UNCHANGED <<buf, conn>>
    BY <1>2 DEF ClosePool, connVars, dirVars
  <2>2. \A c \in Conns : conn[c] \in {"none", "freed"}
    BY <2>1 DEF IInv, CleanShutdown
  <2>3. Buffers = {}
    BY <2>2, DirsPair, ZenonT(30) DEF Buffers, StreamInv
  <2>4. heap = freeBufs + 0 /\ freeBufs \in Nat /\ PoolKeep \in Nat
    BY <2>3, FS_EmptySet, RelayAssumption
       DEF Buffers, BufInv, BuffersConserved, IInv, TypeOK, PoolTypeOK
  <2>5. Buffers' = {} /\ heap' = 0
    BY SMT, <2>1, <2>3, <2>4 DEF Buffers
  <2> QED BY SMT, <2>1, <2>4, <2>5, FS_EmptySet DEF Buffers, BufInv, BuffersConserved
<1>3. ASSUME NEW d \in Dirs, relay_worker(d) PROVE BufInv'
  <2>1. iocp /\ iocp' = iocp
    BY <1>3, HandledLive, ZenonT(30)
       DEF relay_worker, HandleError, HandleWait, HandleRead, HandleEof,
       HandleSend, poolVars
  <2>2. UNCHANGED <<buf, freeBufs, heap>> \/ relay_post_read(d) \/ relay_post_wait(d)
    BY <1>3 DEF relay_worker, HandleError, HandleWait, HandleRead, HandleEof, HandleSend
  <2> QED BY <1>1, <2>1, <2>2, PostBuffers
<1>4. ASSUME NEW d \in Dirs, ReleaseFree(d) PROVE BufInv'
  <2>1. PICK c \in Conns, s \in Sides : d = <<c, s>>
    BY DirsPair
  <2>2. /\ ds[d] = "free" /\ iocp' = iocp
        /\ relay_buf_put(Cardinality({x \in {d, Sibling(d)} : buf[x]}))
        /\ buf' = [x \in Dirs |-> buf[x] /\ x \notin {d, Sibling(d)}]
    BY <1>4 DEF ReleaseFree, poolVars
  <2>3. conn[c] = "closed" /\ iocp
    <3>1. ConnInv(c) /\ CleanShutdown
      BY DEF IInv
    <3>2. conn[c] = "closed"
      BY <2>1, <2>2, <3>1 DEF ConnInv
    <3> QED BY <3>1, <3>2 DEF CleanShutdown
  <2>4. {d, Sibling(d)} \in SUBSET Dirs
    BY SMT, <2>1 DEF Sibling
  <2>5. Buffers' = Buffers \ {d, Sibling(d)}
    <3>1. \A x \in Dirs : buf'[x] <=> buf[x] /\ x \notin {d, Sibling(d)}
      BY <2>2, Zenon
    <3> HIDE DEF Dirs
    <3> QED BY <3>1, Zenon DEF Buffers
  <2>6. {x \in {d, Sibling(d)} : buf[x]} = Buffers \cap {d, Sibling(d)}
    BY <2>4 DEF Buffers
  <2> QED BY <2>2, <2>3, <2>4, <2>5, <2>6, PutBuffers
<1>5. CASE relay_pool_start
  BY <1>1, <1>5 DEF relay_pool_start, dirVars
<1>6. CASE \/ PoolStartFails \/ request_runtime_stop \/ (Stopping /\ ~ClosePool)
           \/ (\E c \in Conns : relay_start(c)) \/ (\E w \in Workers : WorkerExit(w)) \/ UNCHANGED vars
  <2>1. UNCHANGED <<buf, freeBufs, heap>>
    BY <1>6, ZenonT(30)
       DEF PoolStartFails, request_runtime_stop, Stopping, SweepBegin, SweepEnd,
       DrainConnectionWorkers, NoPoolToStop, PostExits, SweepCas, SweepShutdown, relay_start,
       StartCheck, StartLink, StartPost, StartResume, WorkerExit, vars, dirVars
  <2>2. iocp' = iocp
    BY <1>6, ZenonT(30)
       DEF PoolStartFails, request_runtime_stop, Stopping, SweepBegin, SweepEnd,
       DrainConnectionWorkers, NoPoolToStop, PostExits, SweepCas, SweepShutdown, relay_start,
       StartCheck, StartLink, StartPost, StartResume, WorkerExit, vars, poolVars
  <2> QED BY <1>1, <2>1, <2>2
<1>7. ASSUME NEW d \in Dirs,
             \/ Kernel(d) \/ (relay_dir_end(d) /\ ~ReleaseFree(d)) \/ \E w \in Workers : Dequeue(w, d)
      PROVE  BufInv'
  BY <1>1, <1>7 DEF Kernel, Complete, CompleteError, relay_dir_end, AbortCas, AbortShutdown,
     ReleaseDec, ReleaseUnlink, ReleaseClose, Dequeue, poolVars
<1> QED BY <1>2, <1>3, <1>4, <1>5, <1>6, <1>7 DEF Next
=============================================================================
