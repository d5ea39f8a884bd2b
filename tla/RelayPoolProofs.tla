-------------------------- MODULE RelayPoolProofs ---------------------------
(***************************************************************************)
(* Machine-checked safety of the IOCP relay pool, for any number of        *)
(* connections and workers, any stream lengths, with and without faults.   *)
(***************************************************************************)
EXTENDS RelayPoolInv

\* Zenon is tried first; a leaf that it does not find cites SMT.
USE ZenonT(20), SMTT(30)

\* Nothing that StreamInv(d) depends on changes, except that a socket may be
\* shut down and a connection may advance from live to closed.
DirSame(d) ==
    /\ ds'[d] = ds[d] /\ op'[d] = op[d] /\ buf'[d] = buf[d]
    /\ len'[d] = len[d] /\ off'[d] = off[d] /\ comp'[d] = comp[d]
    /\ rd'[d] = rd[d] /\ out'[d] = out[d] /\ finOut'[d] = finOut[d]
    /\ UNCHANGED <<total, fin, faults>>
    /\ shut[d[1]] => shut'[d[1]]
    /\ conn[d[1]] \in {"live", "closed"} => conn'[d[1]] \in {"live", "closed"}

\* A step that leaves a direction alone keeps its stream in line.
LEMMA SameStream ==
  ASSUME NEW d \in Dirs, StreamInv(d), DirSame(d)
  PROVE  StreamInv(d)'
BY DEF StreamInv, DirSame, Held

\* A worker posts the next operation of d, or the call fails.
LEMMA PostedStream ==
  ASSUME NEW d \in Dirs, StreamInv(d), ds[d] = "run", conn[d[1]] = "live",
         out'[d] = out[d], rd'[d] = rd[d], finOut'[d] = finOut[d],
         UNCHANGED <<total, fin, faults, shut, conn>>,
         \/ /\ ds'[d] = "pending" /\ Len(out[d]) = rd[d] - Held(d)'
            /\ op'[d] = "wait" => ~buf'[d]
         \/ ds'[d] = "abort" /\ (faults \/ shut[d[1]])
  PROVE  StreamInv(d)'
BY DEF StreamInv

\* A completed send appends the next units of the stream.
LEMMA AppendNext ==
  ASSUME NEW s \in Seq(Int), s = [i \in 1..Len(s) |-> i], NEW n \in Nat
  PROVE  LET t == s \o [i \in 1..n |-> Len(s) + i]
         IN  t = [i \in 1..Len(t) |-> i] /\ Len(t) = Len(s) + n
<1> DEFINE u == [i \in 1..n |-> Len(s) + i]
           t == s \o u
<1>1. u \in Seq(Int) /\ Len(u) = n /\ Len(s) \in Nat
  BY SMT
<1>2. t \in Seq(Int) /\ Len(t) = Len(s) + n
  BY SMT, <1>1
<1>3. ASSUME NEW i \in 1..Len(t) PROVE t[i] = i
  <2>1. CASE i <= Len(s)
    <3>1. t[i] = s[i] /\ i \in 1..Len(s)
      BY SMT, <1>1, <1>2, <1>3, <2>1
    <3> QED BY <3>1
  <2>2. CASE i > Len(s)
    <3>1. t[i] = u[i - Len(s)] /\ i - Len(s) \in 1..n
      BY SMT, <1>1, <1>2, <1>3, <2>2
    <3> QED BY SMT, <1>1, <3>1
  <2> QED BY SMT, <1>1, <1>2, <2>1, <2>2
<1>4. t = [i \in 1..Len(t) |-> i]
  BY SMT, <1>2, <1>3
<1> QED BY <1>2, <1>4

\* The kernel completes an operation.
LEMMA KernelStream ==
  ASSUME IInv, NEW d \in Dirs, StreamInv(d), Kernel(d)
  PROVE  StreamInv(d)'
<1>1. DirTypeOK /\ conn[d[1]] = "live"
  BY HandledLive, DirsPair DEF Kernel, Complete, CompleteError, IInv, TypeOK
<1>2. UNCHANGED <<op, buf, len, off, finOut, total, fin, faults, shut, conn>> /\ ds[d] = "pending"
      /\ ds'[d] = "queued"
  BY <1>1 DEF Kernel, Complete, CompleteError, DirTypeOK, connVars, dataVars
<1>3. CASE CompleteError(d)
  <2>1. comp'[d].ok = FALSE /\ UNCHANGED <<rd, out>> /\ (faults \/ shut[d[1]])
    BY <1>1, <1>3 DEF CompleteError, DirTypeOK, dataVars
  <2> QED BY <1>2, <1>1, <2>1 DEF StreamInv
<1>4. CASE Complete(d)
  <2>1. PICK n \in OkSizes(d) :
         /\ comp' = [comp EXCEPT ![d] = [ok |-> TRUE, n |-> n]]
         /\ rd' = [rd EXCEPT ![d] = IF op[d] = "read" THEN @ + n ELSE @]
         /\ out' = [out EXCEPT ![d] =
               IF op[d] = "send"
               THEN @ \o [i \in 1..n |-> rd[d] - len[d] + off[d] + i]
               ELSE @]
    BY <1>4 DEF Complete
  <2>2. comp'[d].ok = TRUE /\ comp'[d].n = n
    BY <1>1, <2>1 DEF DirTypeOK
  <2>3. CASE op[d] = "wait"
    <3>1. rd'[d] = rd[d] /\ out'[d] = out[d]
      BY <1>1, <2>1, <2>3 DEF DirTypeOK
    <3>2. Len(out[d]) = rd[d] /\ ~finOut[d]
      BY SMT, <1>1, <1>2, <2>3 DEF StreamInv, Held, DirTypeOK
    <3> QED BY <1>1, <1>2, <2>2, <2>3, <3>1, <3>2 DEF StreamInv
  <2>4. CASE op[d] = "read"
    <3>1. /\ rd'[d] = rd[d] + n /\ out'[d] = out[d]
          /\ n \in Nat /\ (n <= total[d] - rd[d] \/ n = 0)
          /\ n = 0 => fin[d] /\ ~(rd[d] < total[d])
      BY SMT, <1>1, <2>1, <2>4, RelayAssumption DEF DirTypeOK, OkSizes
    <3>2. rd[d] \in Nat /\ total[d] \in Nat /\ out[d] \in Seq(Int)
      BY <1>1 DEF DirTypeOK
    <3> QED BY SMT, <1>1, <1>2, <2>2, <2>4, <3>1, <3>2 DEF StreamInv, Held
  <2>5. CASE op[d] = "send"
    <3>1. rd[d] \in Nat /\ len[d] \in Nat /\ off[d] \in Nat /\ out[d] \in Seq(Int) /\ total[d] \in Nat
      BY <1>1 DEF DirTypeOK
    <3>2. n \in Nat /\ n <= len[d] - off[d] /\ (n = 0 => faults)
      BY SMT, <2>5, <3>1 DEF OkSizes
    <3>3. Len(out[d]) = rd[d] - len[d] + off[d]
      BY SMTT(30), <1>2, <2>5, <3>1 DEF StreamInv, Held
    <3>4. rd'[d] = rd[d] /\ out'[d] = out[d] \o [i \in 1..n |-> Len(out[d]) + i]
      BY <1>1, <2>1, <2>5, <3>3 DEF DirTypeOK
    <3>5. out'[d] = [i \in 1..Len(out'[d]) |-> i] /\ Len(out'[d]) = Len(out[d]) + n
      <4>1. out[d] = [i \in 1..Len(out[d]) |-> i]
        BY DEF StreamInv
      <4> QED BY <3>1, <3>2, <3>4, <4>1, AppendNext
    <3>6. /\ Len(out'[d]) = rd[d] - len[d] + off[d] + n
          /\ Len(out'[d]) <= rd[d] /\ off[d] + n <= len[d]
      <4>1. Len(out'[d]) = rd[d] - len[d] + off[d] + n
        BY <3>3, <3>5
      <4>2. off[d] + n <= len[d]
        BY SMT, <3>1, <3>2
      <4> QED BY SMTT(30), <3>1, <3>2, <4>1, <4>2
    <3>7. ~finOut[d] /\ rd[d] <= total[d]
      BY <1>2 DEF StreamInv
    <3> QED BY <1>1, <1>2, <2>2, <2>5, <3>2, <3>4, <3>5, <3>6, <3>7, SMTT(30) DEF StreamInv
  <2> QED BY <1>1, <2>3, <2>4, <2>5 DEF DirTypeOK
<1> QED BY <1>3, <1>4 DEF Kernel

\* What relay_post_read does to d's operation, buffer and place.
LEMMA PostReadEffect ==
  ASSUME DirTypeOK, NEW d \in Dirs, relay_post_read(d)
  PROVE  \/ ds'[d] = "pending" /\ op'[d] = "read"
         \/ ds'[d] = "abort" /\ (faults \/ shut[d[1]])
BY DEF DirTypeOK, relay_post_read, Post

\* What relay_post_wait does.
LEMMA PostWaitEffect ==
  ASSUME DirTypeOK, NEW d \in Dirs, relay_post_wait(d)
  PROVE  \/ ds'[d] = "pending" /\ op'[d] = "wait" /\ ~buf'[d]
         \/ ds'[d] = "abort" /\ (faults \/ shut[d[1]])
BY DEF DirTypeOK, relay_post_wait, Post

\* A worker handles a completion packet.
LEMMA WorkerStream ==
  ASSUME IInv, NEW d \in Dirs, StreamInv(d), relay_worker(d)
  PROVE  StreamInv(d)'
<1>1. DirTypeOK /\ ds[d] = "run" /\ conn[d[1]] = "live"
  BY HandledLive DEF relay_worker, HandleError, HandleWait, HandleRead, HandleEof, HandleSend,
     IInv, TypeOK
<1>2. /\ rd[d] \in Nat /\ len[d] \in Nat /\ off[d] \in Nat /\ comp[d].n \in Nat
      /\ out[d] \in Seq(Int)
  BY <1>1 DEF DirTypeOK
<1>3. UNCHANGED <<rd, out, total, fin, faults, shut, conn>>
  BY
     DEF relay_worker, HandleError, HandleWait, HandleRead, HandleEof, HandleSend,
       connVars, dataVars
<1>4. CASE HandleEof(d)
  <2>1. finOut'[d] = TRUE /\ ds'[d] = "dec" /\ UNCHANGED <<op, comp, buf>>
    BY <1>1, <1>4 DEF HandleEof, DirTypeOK
  <2>2. fin[d] /\ rd[d] = total[d] /\ Len(out[d]) = total[d]
    <3>1. comp[d].ok /\ op[d] = "read" /\ comp[d].n = 0
      BY <1>4 DEF HandleEof
    <3>2. Len(out[d]) = rd[d] - comp[d].n /\ fin[d] /\ rd[d] = total[d]
      BY <1>1, <3>1 DEF StreamInv
    <3> QED BY SMT, <1>2, <3>1, <3>2
  <2> QED BY <1>1, <1>3, <2>1, <2>2 DEF StreamInv
<1>5. CASE HandleError(d)
  <2>1. ds'[d] = "abort" /\ (faults \/ shut[d[1]]) /\ finOut' = finOut
    BY <1>1, <1>5 DEF HandleError, DirTypeOK, StreamInv, dataVars
  <2> QED BY <1>1, <1>3, <2>1, PostedStream
<1>6. CASE HandleWait(d)
  <2>1. Len(out[d]) = rd[d] /\ finOut' = finOut /\ relay_post_read(d)
    BY <1>1, <1>6 DEF HandleWait, StreamInv, dataVars
  <2>2. CASE ds'[d] = "pending" /\ op'[d] = "read"
    <3>1. Held(d)' = 0
      BY <2>2 DEF Held
    <3> QED BY SMTT(30), <1>1, <1>2, <1>3, <2>1, <2>2, <3>1, PostedStream
  <2>3. CASE ds'[d] = "abort" /\ (faults \/ shut[d[1]])
    BY <1>1, <1>3, <2>1, <2>3, PostedStream
  <2> QED BY <1>1, <2>1, <2>2, <2>3, PostReadEffect
<1>7. CASE HandleRead(d)
  <2>1. /\ Len(out[d]) = rd[d] - comp[d].n /\ finOut' = finOut
        /\ len'[d] = comp[d].n /\ off'[d] = 0 /\ op'[d] = "send"
    BY <1>1, <1>7 DEF HandleRead, StreamInv, dataVars, Post, DirTypeOK
  <2>2. CASE ds'[d] = "pending"
    <3>1. Held(d)' = comp[d].n
      BY SMTT(30), <1>2, <2>1 DEF Held
    <3> QED BY <1>1, <1>2, <1>3, <2>1, <2>2, <3>1, PostedStream
  <2>3. CASE ds'[d] = "abort" /\ (faults \/ shut[d[1]])
    BY <1>1, <1>3, <2>1, <2>3, PostedStream
  <2> QED BY <1>1, <1>7, <2>2, <2>3 DEF HandleRead, Post, DirTypeOK
<1>8. CASE HandleSend(d)
  <2>1. /\ off[d] + comp[d].n <= len[d] /\ (comp[d].n = 0 => faults)
        /\ Len(out[d]) = rd[d] - len[d] + off[d] + comp[d].n
        /\ finOut' = finOut /\ len' = len
    BY <1>1, <1>8 DEF HandleSend, StreamInv, dataVars
  <2>2. CASE comp[d].n = 0
    <3>1. ds'[d] = "abort" /\ faults
      BY <1>1, <1>8, <2>1, <2>2 DEF HandleSend, DirTypeOK
    <3> QED BY <1>1, <1>3, <2>1, <3>1, PostedStream
  <2>3. CASE comp[d].n # 0
    <3>1. off'[d] = off[d] + comp[d].n
      BY <1>1, <1>8, <2>3 DEF HandleSend, DirTypeOK
    <3>2. CASE off'[d] < len[d]
      <4>1. Post(d, "send")
        BY <1>8, <2>3, <3>2 DEF HandleSend
      <4>2. CASE ds'[d] = "pending" /\ op'[d] = "send"
        <5>1. Held(d)' = len[d] - off[d] - comp[d].n
          BY SMT, <1>2, <2>1, <3>1, <4>2 DEF Held
        <5>2. Len(out[d]) = rd[d] - Held(d)'
          BY SMT, <1>2, <2>1, <5>1
        <5> QED BY <1>1, <1>3, <2>1, <4>2, <5>2, PostedStream
      <4>3. CASE ds'[d] = "abort" /\ (faults \/ shut[d[1]])
        BY <1>1, <1>3, <2>1, <4>3, PostedStream
      <4> QED BY <1>1, <4>1, <4>2, <4>3 DEF Post, DirTypeOK
    <3>3. CASE ~(off'[d] < len[d])
      <4>1. Len(out[d]) = rd[d]
        <5>1. off[d] + comp[d].n = len[d]
          <6>1. ~(off[d] + comp[d].n < len[d])
            BY <3>1, <3>3
          <6>2. \A a, b \in Int : a <= b /\ ~(a < b) => a = b
            BY SMT
          <6>3. off[d] + comp[d].n \in Int /\ len[d] \in Int
            BY SMTT(30), <1>2
          <6> QED BY <2>1, <6>1, <6>2, <6>3
        <5> QED BY SMTT(30), <1>2, <2>1, <5>1
      <4>2. relay_post_wait(d) \/ relay_post_read(d)
        BY <1>8, <2>3, <3>3 DEF HandleSend
      <4>3. CASE ds'[d] = "pending" /\ (op'[d] = "read" \/ (op'[d] = "wait" /\ ~buf'[d]))
        <5>1. Held(d)' = 0
          BY <4>3 DEF Held
        <5>2. Len(out[d]) = rd[d] - Held(d)' /\ (op'[d] = "wait" => ~buf'[d])
          BY SMTT(30), <1>2, <4>1, <4>3, <5>1
        <5> QED BY <1>1, <1>3, <2>1, <4>3, <5>2, PostedStream
      <4>4. CASE ds'[d] = "abort" /\ (faults \/ shut[d[1]])
        BY <1>1, <1>3, <2>1, <4>4, PostedStream
      <4> QED BY <1>1, <4>2, <4>3, <4>4, PostReadEffect, PostWaitEffect
    <3> QED BY <3>2, <3>3
  <2> QED BY <2>2, <2>3
<1> QED BY <1>4, <1>5, <1>6, <1>7, <1>8 DEF relay_worker

\* relay_start posts the first operation of one side.
LEMMA StartStream ==
  ASSUME IInv, NEW c \in Conns, NEW s \in Sides, StreamInv(<<c, s>>), StartPost(c, s)
  PROVE  StreamInv(<<c, s>>)'
<1> DEFINE d == <<c, s>>
<1>1. DirTypeOK /\ ConnInv(c) /\ d \in Dirs /\ d[1] = c
  BY DEF IInv, TypeOK, Dirs
<1>2. UNCHANGED <<op, buf, len, off, comp, rd, out, finOut, total, fin, faults, shut, conn>>
  BY DEF StartPost, dataVars
<1>3. ds[d] = "off"
  BY <1>1 DEF StartPost, ConnInv, Sides
<1>4. \/ ds'[d] = "pending"
      \/ ds'[d] = "abort" /\ (faults \/ shut[c])
  BY SMT, <1>1 DEF StartPost, DirTypeOK
<1> QED BY <1>1, <1>2, <1>3, <1>4 DEF StreamInv, Held

\* relay_dir_end and relay_release, up to the last step.
LEMMA DirEndStream ==
  ASSUME IInv, NEW d \in Dirs, StreamInv(d), relay_dir_end(d), ~ReleaseFree(d)
  PROVE  StreamInv(d)'
<1>1. DirTypeOK /\ conn \in [Conns -> {"none", "live", "closed", "freed"}] /\ d[1] \in Conns
  BY DirsPair DEF IInv, TypeOK, PoolTypeOK
<1>2. UNCHANGED <<op, buf, len, off, comp, rd, out, finOut, total, fin, faults>>
  BY
     DEF relay_dir_end, AbortCas, AbortShutdown, ReleaseDec, ReleaseUnlink, ReleaseClose, dataVars
<1>3. /\ ds'[d] \in {"shutdown", "dec", "unlink", "close", "free", "end"}
      /\ ds'[d] = "shutdown" => ds[d] = "abort"
  BY <1>1
     DEF relay_dir_end, AbortCas, AbortShutdown, ReleaseDec, ReleaseUnlink, ReleaseClose, DirTypeOK
<1>4. conn[d[1]] \in {"live", "closed"} => conn'[d[1]] \in {"live", "closed"}
  BY <1>1
     DEF relay_dir_end, AbortCas, AbortShutdown, ReleaseDec, ReleaseUnlink, ReleaseClose, connVars
<1> QED BY <1>1, <1>2, <1>3, <1>4 DEF StreamInv

\* Freeing a connection takes the buffers of both directions.
LEMMA FreeStream ==
  ASSUME IInv, NEW d \in Dirs, NEW e \in Dirs, StreamInv(e), ReleaseFree(d)
  PROVE  StreamInv(e)'
<1>1. PICK c \in Conns, s \in Sides : d = <<c, s>>
  BY DirsPair
<1>2. PICK k \in Conns, j \in Sides : e = <<k, j>>
  BY DirsPair
<1>3. DirTypeOK /\ ConnInv(c) /\ conn \in [Conns -> {"none", "live", "closed", "freed"}]
  BY DEF IInv, TypeOK, PoolTypeOK
<1>4. /\ UNCHANGED <<op, len, off, comp, rd, out, finOut, total, fin, faults, shut>>
      /\ ds[d] = "free" /\ ds' = [ds EXCEPT ![d] = "end"]
      /\ buf' = [x \in Dirs |-> buf[x] /\ x \notin {d, Sibling(d)}]
      /\ conn' = [conn EXCEPT ![c] = "freed"]
  BY <1>1 DEF ReleaseFree, dataVars
<1>5. CASE k = c
  <2>1. e \in {d, Sibling(d)}
    BY SMT, <1>1, <1>2, <1>5 DEF Sibling, Sides
  <2>2. ~buf'[e]
    BY <1>4, <2>1
  <2>3. ds'[e] = "end"
    BY <1>1, <1>2, <1>3, <1>4, <1>5 DEF ConnInv, Last, DirTypeOK, Dirs, Sides
  <2> QED BY <1>4, <2>2, <2>3 DEF StreamInv
<1>6. CASE k # c
  <2>1. e # d /\ e # Sibling(d) /\ e[1] = k
    BY <1>1, <1>2, <1>6 DEF Sibling
  <2>2. buf'[e] = buf[e]
    BY <1>3, <1>4, <2>1, Zenon DEF DirTypeOK
  <2>3. ds'[e] = ds[e] /\ conn'[k] = conn[k]
    BY <1>3, <1>4, <1>6, <2>1 DEF DirTypeOK
  <2> QED BY <1>4, <2>1, <2>2, <2>3, SameStream DEF DirSame
<1> QED BY <1>5, <1>6

\* A worker takes a packet from the port.
LEMMA DequeueStream ==
  ASSUME IInv, NEW w \in Workers, NEW d \in Dirs, StreamInv(d), Dequeue(w, d)
  PROVE  StreamInv(d)'
<1>1. DirTypeOK
  BY DEF IInv, TypeOK
<1>2. /\ ds[d] = "queued" /\ ds'[d] = "run"
      /\ UNCHANGED <<op, buf, len, off, comp, rd, out, finOut, total, fin, faults, shut, conn>>
  BY <1>1 DEF Dequeue, DirTypeOK, connVars, dataVars
<1> QED BY <1>2 DEF StreamInv

\* Posting for d leaves the other directions' operations and buffers alone.
LEMMA PostSame ==
  ASSUME DirTypeOK, NEW d \in Dirs, NEW e \in Dirs, e # d,
         \/ relay_post_read(d) \/ relay_post_wait(d)
         \/ (Post(d, "send") /\ buf' = buf)
  PROVE  ds'[e] = ds[e] /\ op'[e] = op[e] /\ buf'[e] = buf[e]
<1>1. DOMAIN ds = Dirs /\ DOMAIN op = Dirs /\ DOMAIN buf = Dirs
  BY DEF DirTypeOK
<1>2. ds' = [ds EXCEPT ![d] = "pending"] \/ ds' = [ds EXCEPT ![d] = "abort"]
  BY DEF relay_post_read, relay_post_wait, Post
<1>3. \/ op' = op \/ op' = [op EXCEPT ![d] = "read"]
      \/ op' = [op EXCEPT ![d] = "wait"] \/ op' = [op EXCEPT ![d] = "send"]
  BY DEF relay_post_read, relay_post_wait, Post
<1>4. buf' = buf \/ buf' = [buf EXCEPT ![d] = TRUE] \/ buf' = [buf EXCEPT ![d] = FALSE]
  BY DEF relay_post_read, relay_post_wait
<1>5. ds'[e] = ds[e]
  BY <1>1, <1>2
<1>6. op'[e] = op[e]
  BY <1>1, <1>3
<1>7. buf'[e] = buf[e]
  BY <1>1, <1>4
<1> QED BY <1>5, <1>6, <1>7

\* The kernel and the threads handle one direction at a time.
LEMMA OthersSame ==
  ASSUME IInv, NEW d \in Dirs, NEW e \in Dirs, e # d,
         \/ Kernel(d) \/ relay_worker(d) \/ (relay_dir_end(d) /\ ~ReleaseFree(d))
         \/ \E w \in Workers : Dequeue(w, d)
  PROVE  DirSame(e)
<1>1. /\ DirTypeOK /\ conn \in [Conns -> {"none", "live", "closed", "freed"}]
      /\ shut \in [Conns -> BOOLEAN] /\ d[1] \in Conns /\ e[1] \in Conns
  BY DirsPair DEF IInv, TypeOK, PoolTypeOK
<1>2. CASE Kernel(d)
  <2>1. UNCHANGED <<op, buf, len, off, finOut, total, fin, faults, shut, conn>>
    BY <1>2 DEF Kernel, Complete, CompleteError, connVars, dataVars
  <2>2. ds'[e] = ds[e] /\ comp'[e] = comp[e]
    BY <1>1, <1>2 DEF Kernel, Complete, CompleteError, DirTypeOK
  <2>3. rd'[e] = rd[e] /\ out'[e] = out[e]
    BY <1>1, <1>2 DEF Kernel, Complete, CompleteError, DirTypeOK, dataVars
  <2> QED BY <2>1, <2>2, <2>3 DEF DirSame
<1>3. CASE relay_worker(d)
  <2>1. UNCHANGED <<comp, rd, out, total, fin, faults, shut, conn>>
    BY <1>3, ZenonT(30)
       DEF relay_worker, HandleError, HandleWait, HandleRead, HandleEof, HandleSend,
       connVars, dataVars
  <2>2. CASE HandleError(d) \/ HandleEof(d)
    <3>1. UNCHANGED <<op, buf, len, off>> /\ ds'[e] = ds[e] /\ finOut'[e] = finOut[e]
      BY <1>1, <2>2 DEF HandleError, HandleEof, DirTypeOK, dataVars
    <3> QED BY <2>1, <3>1 DEF DirSame
  <2>3. CASE HandleWait(d)
    <3>1. UNCHANGED <<len, off, finOut>> /\ relay_post_read(d)
      BY <2>3 DEF HandleWait, dataVars
    <3>2. ds'[e] = ds[e] /\ op'[e] = op[e] /\ buf'[e] = buf[e]
      BY <1>1, <3>1, PostSame
    <3> QED BY <2>1, <3>1, <3>2 DEF DirSame
  <2>4. CASE HandleRead(d)
    <3>1. len'[e] = len[e] /\ off'[e] = off[e] /\ finOut' = finOut /\ Post(d, "send") /\ buf' = buf
      BY <1>1, <2>4 DEF HandleRead, DirTypeOK, dataVars
    <3>2. ds'[e] = ds[e] /\ op'[e] = op[e] /\ buf'[e] = buf[e]
      BY <1>1, <3>1, PostSame
    <3> QED BY <2>1, <3>1, <3>2 DEF DirSame
  <2>5. CASE HandleSend(d)
    <3>1. len' = len /\ off'[e] = off[e] /\ finOut' = finOut
      BY <1>1, <2>5 DEF HandleSend, DirTypeOK, dataVars
    <3>2. \/ UNCHANGED <<op, buf>> /\ ds'[e] = ds[e]
          \/ relay_post_read(d) \/ relay_post_wait(d) \/ (Post(d, "send") /\ buf' = buf)
      BY <1>1, <2>5 DEF HandleSend, DirTypeOK
    <3>3. ds'[e] = ds[e] /\ op'[e] = op[e] /\ buf'[e] = buf[e]
      BY <1>1, <3>2, PostSame
    <3> QED BY <2>1, <3>1, <3>3 DEF DirSame
  <2> QED BY <1>3, <2>2, <2>3, <2>4, <2>5 DEF relay_worker
<1>4. CASE relay_dir_end(d) /\ ~ReleaseFree(d)
  <2>1. /\ UNCHANGED <<op, buf, len, off, comp, rd, out, finOut, total, fin, faults>>
        /\ ds'[e] = ds[e]
    BY <1>1, <1>4, ZenonT(30)
       DEF relay_dir_end, AbortCas, AbortShutdown, ReleaseDec, ReleaseUnlink, ReleaseClose,
       DirTypeOK, dataVars
  <2>2. shut[e[1]] => shut'[e[1]]
    BY <1>1, <1>4, ZenonT(30)
       DEF relay_dir_end, AbortCas, AbortShutdown, ReleaseDec, ReleaseUnlink,
       ReleaseClose, connVars
  <2>3. conn[e[1]] \in {"live", "closed"} => conn'[e[1]] \in {"live", "closed"}
    BY <1>1, <1>4
       DEF relay_dir_end, AbortCas, AbortShutdown, ReleaseDec, ReleaseUnlink, ReleaseClose, connVars
  <2> QED BY <2>1, <2>2, <2>3 DEF DirSame
<1>5. CASE \E w \in Workers : Dequeue(w, d)
  <2>1. UNCHANGED <<op, buf, len, off, comp, rd, out, finOut, total, fin, faults, shut, conn>>
    BY <1>5 DEF Dequeue, connVars, dataVars
  <2>2. ds'[e] = ds[e]
    BY <1>1, <1>5 DEF Dequeue, DirTypeOK
  <2> QED BY <2>1, <2>2 DEF DirSame
<1> QED BY <1>2, <1>3, <1>4, <1>5

\* Start, Stop and the parts of relay_start before the first post.
LEMMA QuietSame ==
  ASSUME IInv, NEW e \in Dirs,
         \/ relay_pool_start \/ PoolStartFails \/ request_runtime_stop \/ Stopping
         \/ \E c \in Conns : StartCheck(c) \/ StartLink(c) \/ StartResume(c)
         \/ (\E w \in Workers : WorkerExit(w)) \/ UNCHANGED vars
  PROVE  DirSame(e)
<1>1. /\ shut \in [Conns -> BOOLEAN] /\ e[1] \in Conns
      /\ conn \in [Conns -> {"none", "live", "closed", "freed"}]
  BY DirsPair DEF IInv, TypeOK, PoolTypeOK
<1>2. UNCHANGED <<dirVars, dataVars, total, fin, faults>>
  BY ZenonT(30)
     DEF relay_pool_start, PoolStartFails, request_runtime_stop, Stopping, SweepBegin, SweepEnd,
     DrainConnectionWorkers, NoPoolToStop, PostExits, ClosePool, SweepCas, SweepShutdown,
     StartCheck, StartLink, StartResume, WorkerExit, vars
<1>3. shut[e[1]] => shut'[e[1]]
  BY <1>1, ZenonT(30)
     DEF relay_pool_start, PoolStartFails, request_runtime_stop, Stopping, SweepBegin, SweepEnd,
     DrainConnectionWorkers, NoPoolToStop, PostExits, ClosePool, SweepCas, SweepShutdown,
     StartCheck, StartLink, StartResume, WorkerExit, vars, connVars
<1>4. conn[e[1]] \in {"live", "closed"} => conn'[e[1]] \in {"live", "closed"}
  BY <1>1
     DEF relay_pool_start, PoolStartFails, request_runtime_stop, Stopping, SweepBegin, SweepEnd,
     DrainConnectionWorkers, NoPoolToStop, PostExits, ClosePool, SweepCas, SweepShutdown,
     StartCheck, StartLink, StartResume, WorkerExit, vars, connVars
<1> QED BY <1>2, <1>3, <1>4 DEF DirSame, dirVars, dataVars

\* Every step keeps the invariant of every direction.
LEMMA StreamStep ==
  ASSUME IInv, [Next]_vars, NEW e \in Dirs, StreamInv(e)
  PROVE  StreamInv(e)'
<1>1. CASE \/ relay_pool_start \/ PoolStartFails \/ request_runtime_stop \/ Stopping
           \/ \E c \in Conns : StartCheck(c) \/ StartLink(c) \/ StartResume(c)
           \/ (\E w \in Workers : WorkerExit(w)) \/ UNCHANGED vars
  BY <1>1, QuietSame, SameStream
<1>2. ASSUME NEW c \in Conns, NEW s \in Sides, StartPost(c, s) PROVE StreamInv(e)'
  <2>1. CASE e = <<c, s>>
    BY <1>2, <2>1, StartStream
  <2>2. CASE e # <<c, s>>
    <3>1. /\ UNCHANGED <<op, buf, len, off, comp, rd, out, finOut, total, fin, faults, shut, conn>>
          /\ ds'[e] = ds[e]
      BY <1>2, <2>2 DEF StartPost, IInv, TypeOK, DirTypeOK, dataVars
    <3> QED BY <3>1, SameStream DEF DirSame
  <2> QED BY <2>1, <2>2
<1>3. ASSUME NEW d \in Dirs, Kernel(d) \/ relay_worker(d) \/ relay_dir_end(d) PROVE StreamInv(e)'
  BY <1>3, KernelStream, WorkerStream, DirEndStream, FreeStream, OthersSame, SameStream
<1>4. ASSUME NEW w \in Workers, NEW d \in Dirs, Dequeue(w, d) PROVE StreamInv(e)'
  BY <1>4, DequeueStream, OthersSame, SameStream
<1>5. 0 \in Sides /\ 1 \in Sides
  BY DEF Sides
<1> QED BY <1>1, <1>2, <1>3, <1>4, <1>5 DEF Next, relay_start

----------------------------------------------------------------------------
\* The invariant with the data holds initially.
LEMMA DataInitial == Init => DInv
<1> SUFFICES ASSUME Init PROVE DInv
  OBVIOUS
<1>1. IInv
  BY InitInv
<1>2. ASSUME NEW d \in Dirs PROVE StreamInv(d)
  <2>1. /\ ds[d] = "off" /\ op[d] = "wait" /\ buf[d] = FALSE /\ rd[d] = 0 /\ out[d] = << >>
        /\ finOut[d] = FALSE /\ total[d] \in Nat
    BY SMT, RelayAssumption DEF Init
  <2>2. Held(d) = 0
    BY <2>1 DEF Held
  <2>3. Len(<< >>) = 0 /\ << >> = [i \in 1..0 |-> i]
    BY SMT
  <2>4. out[d] = [i \in 1..Len(out[d]) |-> i] /\ Len(out[d]) = 0
    BY <2>1, <2>3
  <2> QED BY SMT, <2>1, <2>2, <2>4 DEF StreamInv
<1>3. ASSUME NEW c \in Conns PROVE CloseInv(c)
  BY DEF Init, CloseInv, Dirs, Sides
<1>4. BufInv
  <2>1. {d \in Dirs : buf[d]} = {} /\ freeBufs = 0 /\ heap = 0
    BY DEF Init
  <2> QED BY SMT, <2>1, FS_EmptySet, RelayAssumption DEF BufInv, BuffersConserved
<1> QED BY <1>1, <1>2, <1>3, <1>4 DEF DInv

----------------------------------------------------------------------------
(* Stop, the rest of the steps, and the theorems.                          *)

USE DEF Sides, Dirs

\* Steps of Start and Stop that leave the connections, the directions and the
\* workers alone.
LEMMA StopMoveInv ==
  ASSUME IInv,
         \/ request_runtime_stop \/ SweepBegin \/ SweepEnd \/ DrainConnectionWorkers
         \/ NoPoolToStop \/ PostExits \/ PoolStartFails
  PROVE  IInv'
<1>1. UNCHANGED <<iocp, linked, active, done, connVars, dirVars, dataVars, total, fin, faults,
                  freeBufs, heap, worker, cursor>>
  BY DEF request_runtime_stop, SweepBegin, SweepEnd, DrainConnectionWorkers,
         NoPoolToStop, PostExits, PoolStartFails, poolVars
<1>2. exits' \in Nat
  <2>1. CASE PostExits
    <3>1. IsFiniteSet({w \in Workers : worker[w] # Exited})
      BY RelayAssumption, FS_Subset
    <3> QED BY <2>1, <3>1, FS_CardinalityType DEF PostExits
  <2>2. CASE exits' = exits
    BY <2>2 DEF IInv, TypeOK, PoolTypeOK
  <2> QED BY <2>1, <2>2 DEF request_runtime_stop, SweepBegin, SweepEnd,
             DrainConnectionWorkers, NoPoolToStop, PoolStartFails
<1>3. /\ running' \in BOOLEAN /\ accepting' \in BOOLEAN
      /\ todo' \in SUBSET Conns
      /\ stopper' \in {"down", "up", "aborting", "sweep1", "drain", "pool_stop",
                       "sweep2", "wait_done", "join"}
  BY DEF request_runtime_stop, SweepBegin, SweepEnd, DrainConnectionWorkers,
         NoPoolToStop, PostExits, PoolStartFails, poolVars, IInv, TypeOK, PoolTypeOK
<1>4. PoolTypeOK' /\ DirTypeOK'
  BY <1>1, <1>2, <1>3 DEF IInv, TypeOK, PoolTypeOK, DirTypeOK, connVars, dirVars, dataVars
<1>5. ASSUME NEW k \in Conns PROVE ConnInv(k)' /\ HandledInv(k)'
  BY <1>1, ZenonT(30) DEF IInv, ConnInv, HandledInv, connVars, dirVars, Ref
<1>6. CountInv' /\ CleanShutdown'
  BY <1>1 DEF IInv, CountInv, CleanShutdown, connVars
<1>7. SweepInv'
  <2>1. SweepInv /\ linked' = linked /\ cursor' = cursor
    BY <1>1 DEF IInv
  <2>2. CASE SweepBegin
    BY <2>1, <2>2 DEF SweepBegin, SweepInv, LockFree
  <2>3. CASE SweepEnd
    BY <2>1, <2>3 DEF SweepEnd, SweepInv
  <2>4. CASE todo' = todo /\ LockFree
    BY <2>1, <2>4, SMTT(30) DEF SweepInv
  <2> QED BY <2>2, <2>3, <2>4 DEF request_runtime_stop, DrainConnectionWorkers,
             NoPoolToStop, PostExits, PoolStartFails, LockFree
<1>8. StopInv'
  BY SMTT(30), <1>1 DEF request_runtime_stop, SweepBegin, SweepEnd, DrainConnectionWorkers,
         NoPoolToStop, PostExits, PoolStartFails, poolVars, connVars, IInv, StopInv, CountInv
<1> QED BY <1>4, <1>5, <1>6, <1>7, <1>8 DEF IInv, TypeOK

\* One visit of the sweep.
LEMMA SweepInvariant ==
  ASSUME IInv, NEW c \in Conns, SweepCas(c) \/ SweepShutdown(c)
  PROVE  IInv'
<1>1. UNCHANGED <<poolVars, conn, refs, starter, dirVars, dataVars, total, fin, faults,
                  freeBufs, heap, worker, stopper, exits>>
  BY DEF SweepCas, SweepShutdown
<1>2. closing' \in [Conns -> BOOLEAN] /\ shut' \in [Conns -> BOOLEAN]
  BY DEF SweepCas, SweepShutdown, IInv, TypeOK, PoolTypeOK
<1>3. todo' \in SUBSET Conns /\ cursor' \in SUBSET Conns
  BY DEF SweepCas, SweepShutdown, IInv, TypeOK, PoolTypeOK
<1>4. PoolTypeOK' /\ DirTypeOK'
  BY <1>1, <1>2, <1>3 DEF IInv, TypeOK, PoolTypeOK, DirTypeOK, poolVars, dirVars, dataVars
<1>5. ASSUME NEW k \in Conns PROVE ConnInv(k)' /\ HandledInv(k)'
  BY <1>1 DEF IInv, ConnInv, HandledInv, poolVars, dirVars, Ref
<1>6. CountInv' /\ CleanShutdown' /\ StopInv'
  BY <1>1 DEF IInv, CountInv, CleanShutdown, StopInv, poolVars
<1>7. SweepInv'
  BY <1>1 DEF SweepCas, SweepShutdown, IInv, SweepInv, LockFree, poolVars
<1> QED BY <1>4, <1>5, <1>6, <1>7 DEF IInv, TypeOK

\* A connection that never was, or is no more, has no direction in a thread.
LEMMA GoneIdle ==
  ASSUME IInv, NEW c \in Conns, NEW s \in Sides, conn[c] \in {"none", "freed"}
  PROVE  ds[<<c, s>>] \notin InThread
<1>1. ConnInv(c)
  BY DEF IInv
<1> QED BY <1>1 DEF ConnInv, HoldsRef, InThread, Last

\* Starting the pool finds it empty.
LEMMA PoolStartInv ==
  ASSUME IInv, relay_pool_start
  PROVE  IInv'
<1>1. /\ stopper = "down" /\ stopper' = "up"
      /\ running' = TRUE /\ iocp' = TRUE /\ accepting' = TRUE /\ done' = TRUE
      /\ UNCHANGED <<linked, active, connVars, dirVars, dataVars, total, fin, faults,
                     freeBufs, heap, todo, cursor, exits>>
  BY DEF relay_pool_start
<1>2. linked = {} /\ \A c \in Conns : conn[c] \in {"none", "freed"}
  BY <1>1 DEF IInv, StopInv, CleanShutdown
<1>3. PoolTypeOK'
  <2>1. worker' \in [Workers -> Dirs \cup {NoDir, Exited}]
    BY DEF relay_pool_start
  <2>2. running' \in BOOLEAN /\ iocp' \in BOOLEAN /\ accepting' \in BOOLEAN /\ done' \in BOOLEAN
    BY <1>1, Zenon
  <2> QED BY <1>1, <2>1, <2>2 DEF IInv, TypeOK, PoolTypeOK, connVars
<1>4. DirTypeOK'
  BY <1>1 DEF IInv, TypeOK, DirTypeOK, dirVars, dataVars
<1>5. ASSUME NEW k \in Conns PROVE ConnInv(k)' /\ HandledInv(k)'
  <2>1. ConnInv(k) /\ UNCHANGED <<conn, refs, starter, ds, linked>>
    BY <1>1 DEF IInv, connVars, dirVars
  <2>2. ds[<<k, 0>>] \notin InThread /\ ds[<<k, 1>>] \notin InThread
    BY <1>2, GoneIdle
  <2> QED BY <2>1, <2>2 DEF ConnInv, HandledInv, Ref
<1>6. SweepInv' /\ StopInv' /\ CountInv' /\ CleanShutdown'
  BY <1>1, <1>2 DEF IInv, SweepInv, StopInv, CountInv, CleanShutdown, LockFree, connVars
<1> QED BY <1>3, <1>4, <1>5, <1>6 DEF IInv, TypeOK

\* Closing the pool leaves nothing behind: no connection is linked, and one
\* that is unlinked but not yet freed would still be inside a worker.
LEMMA ClosePoolInv ==
  ASSUME IInv, ClosePool
  PROVE  IInv'
<1>1. /\ stopper = "join" /\ stopper' = "down" /\ iocp' = FALSE /\ done' = FALSE
      /\ freeBufs' = 0 /\ heap' = heap - freeBufs
      /\ \A w \in Workers : worker[w] = Exited
      /\ UNCHANGED <<running, accepting, linked, active, connVars, dirVars, dataVars,
                     total, fin, faults, worker, todo, cursor, exits>>
  BY DEF ClosePool
<1>2. ASSUME NEW c \in Conns PROVE conn[c] \in {"none", "freed"}
  <2>1. /\ ConnInv(c) /\ HandledInv(c) /\ linked = {} /\ starter[c] \in {"idle", "done"}
        /\ ds[<<c, 0>>] \in Touches \cup {"end"} /\ ds[<<c, 1>>] \in Touches \cup {"end"}
    BY <1>1, DirValues DEF IInv, StopInv
  <2>2. \A d \in Dirs, w \in Workers : worker[w] # d
    BY <1>1, RelayAssumption
  <2>3. ds[<<c, 0>>] \notin InThread /\ ds[<<c, 1>>] \notin InThread
    BY <2>1, <2>2 DEF HandledInv
  <2> QED BY <2>1, <2>3 DEF ConnInv, Touches, HoldsRef, InThread, Last
<1>3. PoolTypeOK'
  <2>1. iocp' \in BOOLEAN /\ done' \in BOOLEAN
    BY <1>1, Zenon
  <2>2. freeBufs' \in Nat /\ heap' \in Int
    BY SMT, <1>1 DEF IInv, TypeOK, PoolTypeOK
  <2> QED BY <1>1, <2>1, <2>2 DEF IInv, TypeOK, PoolTypeOK, connVars
<1>4. DirTypeOK'
  BY <1>1, SMTT(30) DEF IInv, TypeOK, DirTypeOK, dirVars, dataVars
<1>5. ASSUME NEW k \in Conns PROVE ConnInv(k)' /\ HandledInv(k)'
  BY <1>1, ZenonT(30) DEF IInv, ConnInv, HandledInv, connVars, dirVars, Ref
<1>6. SweepInv' /\ StopInv' /\ CountInv'
  BY <1>1 DEF IInv, SweepInv, StopInv, CountInv, LockFree, connVars
<1>7. CleanShutdown'
  BY <1>1, <1>2 DEF CleanShutdown, connVars
<1> QED BY <1>3, <1>4, <1>5, <1>6, <1>7 DEF IInv, TypeOK

\* A worker that takes an exit packet was idle.
LEMMA WorkerExitInv ==
  ASSUME IInv, NEW w \in Workers, WorkerExit(w)
  PROVE  IInv'
<1>1. /\ worker[w] = NoDir /\ exits > 0 /\ exits' = exits - 1
      /\ worker' = [worker EXCEPT ![w] = Exited]
      /\ UNCHANGED <<poolVars, connVars, dirVars, dataVars, total, fin, faults, freeBufs, heap,
                     stopper, todo, cursor>>
  BY DEF WorkerExit
<1>2. \A x \in Workers : worker'[x] = IF x = w THEN Exited ELSE worker[x]
  BY <1>1 DEF IInv, TypeOK, PoolTypeOK
<1>3. PoolTypeOK'
  <2>1. worker' \in [Workers -> Dirs \cup {NoDir, Exited}] /\ exits' \in Nat
    BY SMT, <1>1 DEF IInv, TypeOK, PoolTypeOK
  <2> QED BY <1>1, <2>1 DEF IInv, TypeOK, PoolTypeOK, poolVars, connVars
<1>4. DirTypeOK'
  BY <1>1, SMTT(30) DEF IInv, TypeOK, DirTypeOK, dirVars, dataVars
<1>5. ASSUME NEW k \in Conns PROVE ConnInv(k)' /\ HandledInv(k)'
  <2>1. ConnInv(k) /\ HandledInv(k) /\ UNCHANGED <<conn, refs, starter, ds, linked>>
    BY <1>1 DEF IInv, poolVars, connVars, dirVars
  <2>2. <<k, 0>> # NoDir /\ <<k, 1>> # NoDir
    BY RelayAssumption, SMTT(30)
  <2> QED BY <1>1, <1>2, <2>1, <2>2 DEF ConnInv, HandledInv, Ref
<1>6. SweepInv' /\ StopInv' /\ CountInv' /\ CleanShutdown'
  BY <1>1, <1>2
     DEF IInv, SweepInv, StopInv, CountInv, CleanShutdown, LockFree, poolVars, connVars
<1> QED BY <1>3, <1>4, <1>5, <1>6 DEF IInv, TypeOK

\* The invariant is inductive.
LEMMA NextInv == IInv /\ [Next]_vars => IInv'
<1> SUFFICES ASSUME IInv, [Next]_vars PROVE IInv'
  OBVIOUS
<1>1. CASE relay_pool_start
  BY <1>1, PoolStartInv
<1>2. CASE PoolStartFails \/ request_runtime_stop
  BY <1>2, StopMoveInv
<1>3. CASE Stopping
  BY <1>3, StopMoveInv, ClosePoolInv, SweepInvariant DEF Stopping
<1>4. ASSUME NEW c \in Conns, relay_start(c) PROVE IInv'
  BY <1>4, StartMoveInv, StartLinkInv, StartPostInv DEF relay_start
<1>5. ASSUME NEW d \in Dirs, Kernel(d) \/ relay_worker(d) \/ relay_dir_end(d) PROVE IInv'
  <2>1. PICK c \in Conns, s \in Sides : d = <<c, s>>
    BY DirsPair
  <2> QED BY <1>5, <2>1, KernelInv, WorkerInv, DirEndInv
<1>6. ASSUME NEW w \in Workers, WorkerExit(w) PROVE IInv'
  BY <1>6, WorkerExitInv
<1>7. ASSUME NEW w \in Workers, NEW d \in Dirs, Dequeue(w, d) PROVE IInv'
  <2>1. PICK c \in Conns, s \in Sides : d = <<c, s>>
    BY DirsPair
  <2> QED BY <1>7, <2>1, DequeueInv
<1>8. CASE UNCHANGED vars
  <2>1. UNCHANGED <<poolVars, connVars, dirVars, dataVars, total, fin, faults, freeBufs, heap, worker, stopVars>>
    BY <1>8, SMTT(30) DEF vars
  <2>2. PoolTypeOK' /\ DirTypeOK'
    BY <2>1, SMTT(30)
       DEF IInv, TypeOK, PoolTypeOK, DirTypeOK, poolVars, connVars, dirVars, dataVars, stopVars
  <2>3. ASSUME NEW k \in Conns PROVE ConnInv(k)' /\ HandledInv(k)'
    BY <2>1 DEF IInv, ConnInv, HandledInv, poolVars, connVars, dirVars, Ref
  <2>4. SweepInv' /\ StopInv' /\ CountInv' /\ CleanShutdown'
    BY <2>1
       DEF IInv, SweepInv, StopInv, CountInv, CleanShutdown, LockFree, poolVars, connVars, stopVars
  <2> QED BY <2>2, <2>3, <2>4 DEF IInv, TypeOK
<1> QED BY <1>1, <1>2, <1>3, <1>4, <1>5, <1>6, <1>7, <1>8 DEF Next

\* The invariant holds in every state.
LEMMA Inductive == Spec => []IInv
BY InitInv, NextInv, PTL DEF Spec

----------------------------------------------------------------------------
\* The pool's counters never leave their ranges: in particular rc->refs of
\* relay_release stays between 0 and 2 and g_active_relays never underflows.
THEOREM Typing == Spec => []TypeOK
<1>1. IInv => TypeOK
  BY DEF IInv
<1> QED BY <1>1, Inductive, PTL

\* relay_release never closes or frees a connection that the kernel, the
\* port, a thread or the abort sweep can still reach.
THEOREM RelayLifetime == Spec => []NoUseAfterFree
<1>1. IInv => NoUseAfterFree
  <2> SUFFICES ASSUME IInv PROVE NoUseAfterFree
    OBVIOUS
  <2>1. ASSUME NEW d \in Dirs
        PROVE  /\ conn[d[1]] = "freed" => ds[d] \notin Touches
               /\ conn[d[1]] = "closed" => ds[d] \notin HoldsRef
    <3>1. PICK c \in Conns, s \in Sides : d = <<c, s>>
      BY DirsPair
    <3>2. ConnInv(c)
      BY DEF IInv
    <3> QED BY <3>1, <3>2 DEF ConnInv, Touches, HoldsRef
  <2>2. ASSUME NEW c \in todo \cup cursor PROVE conn[c] = "live"
    <3>1. c \in linked /\ c \in Conns
      BY <2>2 DEF IInv, SweepInv, TypeOK, PoolTypeOK
    <3>2. ConnInv(c) /\ ds[<<c, 0>>] \in Touches \cup {"end"} /\ ds[<<c, 1>>] \in Touches \cup {"end"}
      BY <3>1, DirValues DEF IInv
    <3> QED BY <3>1, <3>2 DEF ConnInv, Touches, HoldsRef
  <2> QED BY <2>1, <2>2 DEF NoUseAfterFree
<1> QED BY <1>1, Inductive, PTL

\* g_relay_done is signalled exactly when no connection is linked, so the
\* wait in relay_pool_stop neither returns early nor hangs on a lost signal.
THEOREM DoneEvent == Spec => []DoneIsExact
<1>1. IInv => DoneIsExact
  BY DEF IInv, CountInv, DoneIsExact
<1> QED BY <1>1, Inductive, PTL

\* After relay_pool_stop closed the port no worker is inside relay_worker and
\* every linked connection was freed.
THEOREM Shutdown == Spec => []CleanShutdown
<1>1. IInv => CleanShutdown
  BY DEF IInv
<1> QED BY <1>1, Inductive, PTL

----------------------------------------------------------------------------
(* The pool implements RelayService.                                       *)

Owned == {c \in Conns : conn[c] \in {"live", "closed"}}

\* Everything except Start, Stop and the life of a connection is a stutter.
LEMMA ServiceStutter ==
  ASSUME UNCHANGED <<iocp, accepting, conn>>
  PROVE  UNCHANGED Service!svcVars
BY DEF Service!svcVars

\* Every step of the pool is a step of the service, or none.
LEMMA ServiceStep ==
  ASSUME IInv, IInv', [Next]_vars
  PROVE  [Service!Next]_(Service!svcVars)
<1>1. CASE relay_pool_start
  <2>1. ~iocp /\ \A c \in Conns : conn[c] \in {"none", "freed"}
    BY <1>1 DEF relay_pool_start, IInv, StopInv, CleanShutdown
  <2>2. iocp' = TRUE /\ accepting' = TRUE /\ conn' = conn
    BY <1>1 DEF relay_pool_start, connVars
  <2> QED BY <2>1, <2>2 DEF Service!Next, Service!Open
<1>2. CASE SweepBegin
  BY <1>2 DEF SweepBegin, connVars, Service!Next, Service!StopAccepting
<1>3. CASE ClosePool
  <2>1. iocp /\ ~accepting /\ iocp' = FALSE /\ conn' = conn /\ accepting' = accepting
    BY <1>3 DEF ClosePool, connVars, IInv, StopInv
  <2>2. \A c \in Conns : conn[c] \in {"none", "freed"}
    BY <2>1 DEF IInv, CleanShutdown
  <2> QED BY <2>1, <2>2 DEF Service!Next, Service!Close
<1>4. CASE \/ PoolStartFails \/ request_runtime_stop \/ SweepEnd \/ DrainConnectionWorkers
           \/ NoPoolToStop \/ PostExits \/ \E c \in Conns : SweepCas(c) \/ SweepShutdown(c)
  <2>1. UNCHANGED <<iocp, accepting, conn>>
    BY <1>4 DEF PoolStartFails, request_runtime_stop, SweepEnd, DrainConnectionWorkers,
       NoPoolToStop, PostExits, SweepCas, SweepShutdown, poolVars, connVars
  <2> QED BY <2>1, ServiceStutter
<1>5. ASSUME NEW c \in Conns, relay_start(c) PROVE [Service!Next]_(Service!svcVars)
  <2>1. CASE StartLink(c) /\ accepting /\ running
    <3>1. conn[c] = "none" /\ iocp
      BY <2>1 DEF StartLink, IInv, ConnInv, StopInv
    <3>2. /\ UNCHANGED <<iocp, accepting>>
          /\ conn' = [conn EXCEPT ![c] = "live"] /\ conn \in [Conns -> {"none", "live", "closed", "freed"}]
      BY <2>1 DEF StartLink, IInv, TypeOK, PoolTypeOK
    <3>3. c \notin Owned /\ Owned' = Owned \cup {c}
      BY <3>1, <3>2 DEF Owned
    <3> QED BY <2>1, <3>1, <3>2, <3>3 DEF Owned, Service!Next, Service!Take
  <2>2. CASE \/ StartLink(c) /\ ~(accepting /\ running)
             \/ StartCheck(c) \/ StartPost(c, 0) \/ StartPost(c, 1) \/ StartResume(c)
    <3>1. UNCHANGED <<iocp, accepting, conn>>
      BY <2>2 DEF StartLink, StartCheck, StartPost, StartResume, poolVars
    <3> QED BY <3>1, ServiceStutter
  <2> QED BY <1>5, <2>1, <2>2 DEF relay_start
<1>6. ASSUME NEW d \in Dirs, relay_dir_end(d) PROVE [Service!Next]_(Service!svcVars)
  <2>1. PICK c \in Conns, s \in Sides : d = <<c, s>>
    BY DirsPair
  <2>2. ConnInv(c) /\ conn \in [Conns -> {"none", "live", "closed", "freed"}]
    BY DEF IInv, TypeOK, PoolTypeOK
  <2>3. CASE ReleaseFree(d)
    <3>1. conn[c] = "closed" /\ conn' = [conn EXCEPT ![c] = "freed"] /\ UNCHANGED <<iocp, accepting>>
      BY <2>1, <2>2, <2>3 DEF ReleaseFree, ConnInv, poolVars
    <3>2. c \in Owned /\ Owned' = Owned \ {c}
      BY <2>2, <3>1 DEF Owned
    <3> QED BY <3>1, <3>2 DEF Owned, Service!Next, Service!Release
  <2>4. CASE ReleaseClose(d)
    <3>1. conn[c] = "live" /\ conn' = [conn EXCEPT ![c] = "closed"] /\ UNCHANGED <<iocp, accepting>>
      BY <2>1, <2>2, <2>4 DEF ReleaseClose, ConnInv, poolVars
    <3>2. Owned' = Owned
      BY <2>2, <3>1 DEF Owned
    <3> QED BY <3>1, <3>2 DEF Owned, Service!svcVars
  <2>5. CASE AbortCas(d) \/ AbortShutdown(d) \/ ReleaseDec(d) \/ ReleaseUnlink(d)
    <3>1. UNCHANGED <<iocp, accepting, conn>>
      BY <2>5 DEF AbortCas, AbortShutdown, ReleaseDec, ReleaseUnlink, poolVars, connVars
    <3> QED BY <3>1, ServiceStutter
  <2> QED BY <1>6, <2>3, <2>4, <2>5 DEF relay_dir_end
<1>7. ASSUME NEW d \in Dirs, Kernel(d) \/ relay_worker(d) \/ \E w \in Workers : Dequeue(w, d)
      PROVE  [Service!Next]_(Service!svcVars)
  <2>1. UNCHANGED <<iocp, accepting, conn>>
    BY <1>7
       DEF Kernel, Complete, CompleteError, relay_worker, HandleError, HandleWait, HandleRead,
       HandleEof, HandleSend, Dequeue, poolVars, connVars
  <2> QED BY <2>1, ServiceStutter
<1>8. CASE (\E w \in Workers : WorkerExit(w)) \/ UNCHANGED vars
  <2>1. UNCHANGED <<iocp, accepting, conn>>
    BY <1>8 DEF WorkerExit, vars, poolVars, connVars
  <2> QED BY <2>1, ServiceStutter
<1> QED BY <1>1, <1>2, <1>3, <1>4, <1>5, <1>6, <1>7, <1>8 DEF Next, Stopping

\* The pool implements RelayService: it takes connections only while it
\* accepts, frees each one once, and relay_pool_stop returns only when it
\* owns none.
THEOREM Refinement == Spec => ImplementsService
<1>1. Init => Service!Init
  BY DEF Init, Service!Init
<1>2. IInv /\ IInv' /\ [Next]_vars => [Service!Next]_(Service!svcVars)
  BY ServiceStep
<1> QED BY <1>1, <1>2, Inductive, PTL DEF Spec, ImplementsService, Service!Spec

----------------------------------------------------------------------------
(* The data.                                                               *)

\* The invariant with the data is inductive.
LEMMA DataStep == DInv /\ [Next]_vars => DInv'
<1> SUFFICES ASSUME DInv, [Next]_vars PROVE DInv'
  OBVIOUS
<1>1. IInv /\ IInv'
  BY NextInv DEF DInv
<1>2. \A d \in Dirs : StreamInv(d)'
  BY <1>1, StreamStep DEF DInv
<1>3. \A c \in Conns : CloseInv(c)'
  BY <1>1, CloseStep DEF DInv
<1>4. BufInv'
  BY <1>1, BufferStep DEF DInv
<1> QED BY <1>1, <1>2, <1>3, <1>4 DEF DInv

\* So does the one with the data.
LEMMA DataInductive == Spec => []DInv
BY DataInitial, DataStep, PTL DEF Spec

\* What reaches a destination is a prefix of the source stream, in order and
\* without gaps or repetitions, for streams of any length, buffers of any
\* size, partial reads and sends, and with every failure of relay_worker.
THEOREM StreamPrefix == Spec => []Prefix
<1>1. DInv => Prefix
  <2> SUFFICES ASSUME DInv, NEW d \in Dirs
               PROVE  out[d] = [i \in 1..Len(out[d]) |-> i] /\ Len(out[d]) <= total[d]
    BY DEF Prefix
  <2>1. rd[d] \in Nat /\ total[d] \in Nat /\ out[d] \in Seq(Int)
    BY DEF DInv, IInv, TypeOK, DirTypeOK
  <2> QED BY SMT, <2>1 DEF DInv, StreamInv
<1> QED BY <1>1, DataInductive, PTL

\* relay_dir_end half-closes a destination only after all of the stream.
THEOREM EofLast == Spec => []EofAfterAllData
<1>1. DInv => EofAfterAllData
  BY DEF DInv, StreamInv, EofAfterAllData
<1> QED BY <1>1, DataInductive, PTL

\* A direction that waits for its peer owns no buffer.
THEOREM IdleUnbuffered == Spec => []IdleHoldsNoBuffer
<1>1. DInv => IdleHoldsNoBuffer
  BY DEF DInv, StreamInv, IdleHoldsNoBuffer
<1> QED BY <1>1, DataInductive, PTL

\* Every buffer of relay_buf_get is in the pool or with one direction until
\* relay_buf_put or relay_pool_stop frees it; a closed pool holds none.
THEOREM BufferAccounts == Spec => []BuffersConserved
<1>1. DInv => BuffersConserved
  BY DEF DInv, BufInv
<1> QED BY <1>1, DataInductive, PTL

\* A clean end of one direction never makes relay_abort shut the connection:
\* without faults closing is set only after running was cleared.
THEOREM HalfClose == Spec => EofKeepsReverse
<1>1. DInv /\ [Next]_vars
        => [\A c \in Conns : closing'[c] /\ ~closing[c] => faults \/ ~running]_vars
  BY KeepsReverse
<1> QED BY <1>1, DataInductive, PTL DEF Spec, EofKeepsReverse
=============================================================================
