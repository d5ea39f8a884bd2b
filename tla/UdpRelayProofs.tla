--------------------------- MODULE UdpRelayProofs ---------------------------
(***************************************************************************)
(* Machine-checked safety of the UDP relay: the other threads and the      *)
(* world keep the invariant of the relay thread, and what follows from it. *)
(***************************************************************************)
EXTENDS UdpRelayInv

\* Zenon is tried first; a leaf that it does not find cites SMT.
USE ZenonT(20), SMTT(30)

----------------------------------------------------------------------------
(* The steps of the other threads, and of the world.                       *)

\* Datagram m is left alone, or nothing is promised about it any more.
Marked(m, n) == n = m \/ (m # None /\ n = [m EXCEPT !.peer = None])

\* The locals of the relay thread are left alone but for that.
Bystander ==
    /\ pc' = pc /\ assoc' = assoc /\ it' \in Iteration
    /\ it'.i = it.i /\ it'.ready = it.ready /\ it'.relay = it.relay
    /\ it'.replaced = it.replaced /\ it'.dest = it.dest /\ Marked(it.dg, it'.dg)

\* A datagram that was marked is the same datagram, with nothing promised.
LEMMA MarkedType ==
  ASSUME NEW m \in Datagrams \cup {None}, NEW n, Marked(m, n)
  PROVE  /\ n \in Datagrams \cup {None} /\ (m = None <=> n = None)
         /\ n # None => n.port = m.port /\ (n.peer # None => n = m)
<1>1. None \notin Datagrams
  BY UdpRelayAssumption DEF Datagrams
<1>2. CASE n = m
  BY <1>2
<1>3. CASE m \in Datagrams /\ n = [m EXCEPT !.peer = None]
  <2>1. n \in Datagrams /\ n.port = m.port /\ n.peer = None
    BY <1>3 DEF Datagrams
  <2> QED BY <1>1, <1>3, <2>1
<1> QED BY <1>2, <1>3 DEF Marked

\* A step beside the relay thread that keeps what select said of the sockets of
\* connected elements.
LEMMA Aside ==
  ASSUME IInv, Bystander, nextId' = nextId, Len(configs') = Len(configs),
         \A j \in K : /\ configs'[j].id = configs[j].id
                      /\ ctrl(j)' \in {ctrl(j), None} /\ send(j)' \in {send(j), None}
                      /\ configs'[j].udp_connected =>
                           /\ configs[j].udp_connected /\ ctrl(j)' = ctrl(j) /\ send(j)' = send(j)
                           /\ ctrl(j) \in eof => ctrl(j) \in eof'
                           /\ replies[send(j)] # {} => replies'[send(j)] # {},
         \A f \in Families : inbox[f] # None => inbox'[f] # None
  PROVE  SlotInv' /\ ReadyInv' /\ InboxInv' /\ IdInv' /\ HandInv'
<1>1. K' = K /\ IdInv'
  BY KeepIds DEF IInv
<1>2. \A S : At(S)' <=> At(S)
  BY DEF At, Bystander
<1>3. /\ it.dg = None <=> it'.dg = None
      /\ it'.dg # None /\ it'.dg.peer # None => it'.dg = it.dg
  BY MarkedType DEF IInv, TypeOK, Bystander
<1>4. SlotInv'
  <2>1. pc \in Sending \cup {"assoc"} => assoc.slot \in K
    BY DEF IInv, SlotInv
  <2>2. pc = "assoc" => /\ assoc.sock # None /\ assoc.ret # "top"
                        /\ ctrl(assoc.slot)' = None /\ send(assoc.slot)' = None
                        /\ ~configs'[assoc.slot].udp_connected
                        /\ assoc.ret \notin Sending => assoc.slot < it'.i
    <3> SUFFICES ASSUME pc = "assoc"
                 PROVE  /\ assoc.sock # None /\ assoc.ret # "top"
                        /\ ctrl(assoc.slot)' = None /\ send(assoc.slot)' = None
                        /\ ~configs'[assoc.slot].udp_connected
                        /\ assoc.ret \notin Sending => assoc.slot < it'.i
      OBVIOUS
    <3>1. PICK k \in K : k = assoc.slot /\ k = assoc'.slot
      BY <2>1 DEF Bystander
    <3>2. ctrl(k) = None /\ send(k) = None /\ ~configs[k].udp_connected
      BY <3>1 DEF IInv, SlotInv
    <3>3. ctrl(k)' = None /\ send(k)' = None /\ ~configs'[k].udp_connected
      BY <3>2
    <3>4. ctrl(assoc.slot)' = ctrl(k)' /\ send(assoc.slot)' = send(k)'
      BY <3>1 DEF ctrl, send
    <3> QED BY <3>1, <3>3, <3>4 DEF IInv, SlotInv, Bystander
  <2>3. At({"init"})' => \A k \in K : k >= it'.i => ~configs'[k].udp_connected
    BY <1>2 DEF IInv, SlotInv, Bystander
  <2>4. /\ pc # "assoc" => assoc.sock = None
        /\ pc = "exit" => \A k \in K : ctrl(k)' = None /\ send(k)' = None
    BY DEF IInv, SlotInv
  <2> QED BY <1>1, <2>1, <2>2, <2>3, <2>4 DEF SlotInv, Bystander
<1>5. ReadyInv'
  <2>1. \A k \in K : Ends(k) => Ends(k)'
    BY DEF Ends, Bystander
  <2>2. \A k \in K : Speaks(k) => Speaks(k)'
    BY DEF Speaks, Bystander
  <2> QED BY <1>1, <1>2, <2>1, <2>2 DEF IInv, ReadyInv, Bystander
<1>6. InboxInv'
  BY <1>2 DEF IInv, InboxInv, Bystander, TypeOK, Families
<1>7. HandInv'
  <2>1. At(Sending) => assoc.slot \in K
    BY DEF IInv, SlotInv, At
  <2>2. At(Sending) /\ Routed(assoc.slot) => Routed(assoc.slot)'
    BY <1>1, <2>1 DEF Routed, Bystander
  <2> QED BY <1>2, <1>3, <2>2 DEF IInv, HandInv, Bystander
<1> QED BY <1>1, <1>4, <1>5, <1>6, <1>7

\* Nothing but the datagram in hand changes for the relay thread.
LEMMA StandBy ==
  ASSUME TypeOK, UNCHANGED relayVars
  PROVE  Bystander
BY DEF TypeOK, relayVars, Bystander, Marked, Iteration

\* The packet thread: flows and datagrams change, no association does.
LEMMA PacketStep ==
  ASSUME IInv, UNCHANGED <<configs, apiVars, open, netVars>>, Bystander, FlowInv',
         flow' \in [Ports -> Flows \cup {None}], inbox' \in [Families -> Datagrams \cup {None}],
         back' \in Datagrams \cup {None},
         \A f \in Families : inbox[f] # None => inbox'[f] # None
  PROVE  IInv'
<1>1. \A j \in K : ctrl(j)' = ctrl(j) /\ send(j)' = send(j)
  BY DEF ctrl, send
<1>2. SlotInv' /\ ReadyInv' /\ InboxInv' /\ IdInv' /\ HandInv'
  BY <1>1, Aside DEF apiVars, netVars
<1>3. OwnInv' /\ NetInv'
  BY KeepSockets DEF IInv, Bystander, netVars
<1>4. TypeOK'
  BY DEF IInv, TypeOK, Bystander, apiVars, netVars, Iteration
<1> QED BY <1>2, <1>3, <1>4 DEF IInv

\* Mark takes its promise from a datagram of port p, and from no other.
LEMMA MarkEffect ==
  ASSUME NEW m \in Datagrams \cup {None}, NEW p
  PROVE  Marked(m, Mark(m, p)) /\ (m # None /\ Mark(m, p).peer # None => Mark(m, p) = m /\ m.port # p)
<1>1. CASE m # None /\ m.port = p
  <2>1. m \in Datagrams /\ Mark(m, p) = [m EXCEPT !.peer = None]
    BY <1>1 DEF Mark
  <2>2. Mark(m, p).peer = None
    BY <2>1 DEF Datagrams
  <2> QED BY <1>1, <2>1, <2>2 DEF Marked
<1>2. CASE ~(m # None /\ m.port = p)
  BY <1>2 DEF Mark, Marked
<1> QED BY <1>1, <1>2

\* The flow of port p changes and what is on its way is marked.
LEMMA FlowChanges ==
  ASSUME IInv, NEW p \in Ports, NEW x, flow' = [flow EXCEPT ![p] = x],
         NEW m \in Datagrams \cup {None}, Agrees(m), NEW n, n = Mark(m, p)
  PROVE  n = None \/ n.peer = None \/ flow'[n.port] = FlowOf(n.peer)
<1>1. /\ Marked(m, n) /\ (m # None /\ n.peer # None => n = m /\ m.port # p)
      /\ (m = None <=> n = None)
  BY MarkEffect, MarkedType
<1> SUFFICES ASSUME n # None, n.peer # None PROVE flow'[n.port] = FlowOf(n.peer)
  OBVIOUS
<1>2. n = m /\ m.port # p /\ m \in Datagrams
  BY <1>1
<1>3. m.port \in Ports /\ flow'[m.port] = flow[m.port]
  BY <1>2 DEF IInv, TypeOK, Datagrams
<1> QED BY <1>2, <1>3 DEF Agrees

\* A flow expires.
LEMMA ExpireStep ==
  ASSUME IInv, NEW p \in Ports, Expire(p)
  PROVE  IInv'
<1>1. /\ TypeOK /\ FlowInv /\ flow' = [flow EXCEPT ![p] = None]
      /\ inbox' = [g \in Families |-> Mark(inbox[g], p)] /\ back' = Mark(back, p)
      /\ it' = [it EXCEPT !.dg = Mark(@, p)]
      /\ UNCHANGED <<configs, apiVars, open, netVars, pc, assoc>>
  BY DEF IInv, Expire
<1>2. /\ it \in Iteration /\ it.dg \in Datagrams \cup {None} /\ back \in Datagrams \cup {None}
      /\ \A g \in Families : inbox[g] \in Datagrams \cup {None}
  BY <1>1 DEF TypeOK, Iteration
<1>3. \A m \in Datagrams \cup {None} :
         Mark(m, p) \in Datagrams \cup {None} /\ Marked(m, Mark(m, p)) /\ (m = None <=> Mark(m, p) = None)
  BY MarkEffect, MarkedType
<1>4. Bystander
  BY <1>1, <1>2, <1>3 DEF Bystander, Iteration
<1>5. \A m \in Datagrams \cup {None} : Agrees(m) =>
         Mark(m, p) = None \/ Mark(m, p).peer = None \/ flow'[Mark(m, p).port] = FlowOf(Mark(m, p).peer)
  BY <1>1, FlowChanges
<1>6. FlowInv'
  <2>1. \A q \in Ports : flow'[q] # None => flow'[q] = FlowOf(flow'[q].dst)
    BY <1>1 DEF FlowInv, TypeOK
  <2>2. \A f \in Families : Agrees(inbox[f])'
    BY <1>1, <1>2, <1>5 DEF FlowInv, Agrees, FlowOf
  <2>3. Agrees(back)'
    BY <1>1, <1>2, <1>5 DEF FlowInv, Agrees, FlowOf
  <2>4. it'.dg = Mark(it.dg, p)
    BY <1>1, <1>2 DEF Iteration
  <2>5. Agrees(it.dg)'
    BY <1>1, <1>2, <1>5, <2>4 DEF FlowInv, Agrees, FlowOf
  <2> QED BY <2>1, <2>2, <2>3, <2>5 DEF FlowInv, FlowOf
<1>7. /\ flow' \in [Ports -> Flows \cup {None}] /\ inbox' \in [Families -> Datagrams \cup {None}]
      /\ back' \in Datagrams \cup {None}
      /\ \A f \in Families : inbox[f] # None => inbox'[f] # None
  BY <1>1, <1>2, <1>3 DEF TypeOK
<1> QED BY <1>1, <1>4, <1>6, <1>7, PacketStep

\* A datagram of p to d is redirected: the flow of p is one to d.
LEMMA RedirectStep ==
  ASSUME IInv, NEW p \in Ports, NEW d \in Dests, Redirect(p, d)
  PROVE  IInv'
<1> DEFINE new == FlowOf(d)
           f == Family(p)
           M(m) == IF flow[p] = new THEN m ELSE Mark(m, p)
           dg == [port |-> p, peer |-> d]
<1>1. /\ TypeOK /\ FlowInv /\ flow' = [flow EXCEPT ![p] = new]
      /\ inbox' = [g \in Families |-> IF g = f /\ inbox[g] = None THEN dg ELSE M(inbox[g])]
      /\ back' = M(back) /\ it' = [it EXCEPT !.dg = M(@)]
      /\ UNCHANGED <<configs, apiVars, open, netVars, pc, assoc>>
  BY DEF IInv, Redirect, FlowOf
<1>2. /\ it \in Iteration /\ it.dg \in Datagrams \cup {None} /\ back \in Datagrams \cup {None}
      /\ \A g \in Families : inbox[g] \in Datagrams \cup {None}
      /\ flow \in [Ports -> Flows \cup {None}]
  BY <1>1 DEF TypeOK, Iteration
<1>3. new \in Flows /\ new.dst = d
  BY UdpRelayAssumption DEF FlowOf, Flows
<1>4. dg \in Datagrams /\ dg.port = p /\ dg.peer = d /\ None \notin Datagrams
  BY UdpRelayAssumption DEF Datagrams
<1>5. \A m \in Datagrams \cup {None} :
         M(m) \in Datagrams \cup {None} /\ Marked(m, M(m)) /\ (m = None <=> M(m) = None)
  BY MarkEffect, MarkedType DEF Marked
<1>6. \A m \in Datagrams \cup {None} : Agrees(m) =>
         M(m) = None \/ M(m).peer = None \/ flow'[M(m).port] = FlowOf(M(m).peer)
  <2>1. CASE flow[p] = new
    <3>1. flow' = flow
      BY <1>1, <1>2, <2>1
    <3> QED BY <2>1, <3>1 DEF Agrees
  <2>2. CASE flow[p] # new
    BY <1>1, <2>2, FlowChanges
  <2> QED BY <2>1, <2>2
<1> HIDE DEF new, f, M, dg
<1>7. it'.dg = M(it.dg)
  BY <1>1, <1>2 DEF Iteration
<1>8. Bystander
  BY <1>1, <1>2, <1>5 DEF Bystander, Iteration
<1>9. FlowInv'
  <2>1. \A q \in Ports : flow'[q] # None => flow'[q] = FlowOf(flow'[q].dst)
    BY <1>1, <1>2, <1>3 DEF FlowInv, new
  <2>2. \A g \in Families : Agrees(inbox[g])'
    <3> SUFFICES ASSUME NEW g \in Families PROVE Agrees(inbox[g])'
      OBVIOUS
    <3>1. CASE inbox'[g] = dg
      <4>1. flow'[p] = FlowOf(d)
        BY <1>1, <1>2 DEF new
      <4> QED BY <1>4, <3>1, <4>1 DEF Agrees, FlowOf
    <3>2. CASE inbox'[g] = M(inbox[g])
      <4>1. Agrees(inbox[g])
        BY <1>1 DEF FlowInv
      <4>2. M(inbox[g]) = None \/ M(inbox[g]).peer = None \/ flow'[M(inbox[g]).port] = FlowOf(M(inbox[g]).peer)
        BY <1>2, <1>6, <4>1
      <4> QED BY <3>2, <4>2 DEF Agrees, FlowOf
    <3> QED BY <1>1, <3>1, <3>2
  <2>3. Agrees(back)'
    BY <1>1, <1>2, <1>6 DEF FlowInv, Agrees, FlowOf
  <2>4. Agrees(it.dg)'
    BY <1>1, <1>2, <1>6, <1>7 DEF FlowInv, Agrees, FlowOf
  <2> QED BY <2>1, <2>2, <2>3, <2>4 DEF FlowInv, FlowOf
<1>10. /\ flow' \in [Ports -> Flows \cup {None}] /\ inbox' \in [Families -> Datagrams \cup {None}]
       /\ back' \in Datagrams \cup {None}
       /\ \A g \in Families : inbox[g] # None => inbox'[g] # None
  BY <1>1, <1>2, <1>3, <1>4, <1>5
<1> QED BY <1>1, <1>8, <1>9, <1>10, PacketStep

\* The application takes a datagram that came back.
LEMMA DeliverStep ==
  ASSUME IInv, Deliver
  PROVE  IInv'
<1>1. /\ TypeOK /\ FlowInv /\ back' = None
      /\ UNCHANGED <<configs, apiVars, flow, inbox, open, netVars, relayVars>>
  BY DEF IInv, Deliver
<1>2. Bystander
  BY <1>1, StandBy
<1>3. FlowInv'
  BY <1>1 DEF FlowInv, Agrees, relayVars, FlowOf
<1> QED BY <1>1, <1>2, <1>3, PacketStep DEF TypeOK

\* ProxyBridge_Stop clears running.
LEMMA StopStep ==
  ASSUME IInv, Stop
  PROVE  IInv'
<1>1. /\ TypeOK /\ running' = FALSE
      /\ UNCHANGED <<configs, nextId, calls, flow, inbox, back, open, eof, replies, pc, it, assoc>>
  BY DEF IInv, Stop, clientVars, netVars, relayVars
<1>2. TypeOK'
  <2>1. running' \in BOOLEAN
    BY <1>1, Zenon
  <2> QED BY SMT, <1>1, <2>1 DEF TypeOK
<1>3. K' = K /\ \A j \in K : ctrl(j)' = ctrl(j) /\ send(j)' = send(j)
  BY <1>1 DEF K, ctrl, send
<1>4. Bystander
  BY <1>1, StandBy DEF relayVars
<1>5. SlotInv' /\ ReadyInv' /\ InboxInv' /\ IdInv' /\ HandInv'
  BY <1>1, <1>3, <1>4, Aside
<1>6. OwnInv' /\ NetInv'
  BY <1>1, KeepSockets DEF IInv
<1>7. FlowInv'
  BY <1>1 DEF IInv, FlowInv, Agrees, FlowOf
<1> QED BY <1>2, <1>5, <1>6, <1>7 DEF IInv

\* ProxyBridge_EditProxyConfig closes the association of the element.
LEMMA EditStep ==
  ASSUME IInv, NEW k \in K, NEW type \in {"SOCKS5", "HTTP"}, NEW host \in Hosts,
         ProxyBridge_EditProxyConfig(k, type, host)
  PROVE  IInv'
<1>1. /\ TypeOK /\ OwnInv /\ NetInv /\ calls < MaxCalls /\ calls' = calls + 1
      /\ configs' = [Cut(k, FALSE) EXCEPT ![k].type = type, ![k].host = host]
      /\ Sockets(SocketsOf(k), {})
      /\ UNCHANGED <<nextId, running, flow, inbox, back, relayVars>>
  BY DEF IInv, ProxyBridge_EditProxyConfig, Call, clientVars
<1>2. Stores(k, None, None, FALSE)
  <2> DEFINE e == [configs[k] EXCEPT !.udp_tcp_ctrl = None, !.udp_send_sock = None,
                     !.udp_relay_addr = None, !.udp_connected = @ /\ FALSE, !.type = type, !.host = host]
  <2>1. configs \in Seq(ConfigType) /\ configs[k] \in ConfigType
    BY <1>1, ElementType DEF TypeOK
  <2>2. configs' = [configs EXCEPT ![k] = e]
    BY <1>1, <2>1 DEF Cut, K
  <2>3. e \in ConfigType /\ e.id = configs[k].id /\ e.udp_tcp_ctrl = None
        /\ e.udp_send_sock = None /\ e.udp_connected = FALSE
    BY <2>1 DEF ConfigType
  <2> HIDE DEF e
  <2> QED BY <2>1, <2>2, <2>3, Replaced
<1>3. OwnInv' /\ NetInv' /\ Survive(k)
  BY <1>1, <1>2, CloseSockets DEF relayVars
<1>4. SocketsOf(k) \in SUBSET Handles
  BY SMT, <1>1, ElementType DEF SocketsOf, TypeOK, ctrl, send
<1>5. NetType
  BY <1>1, <1>4, SocketsType
<1>6. SlotInv' /\ ReadyInv' /\ InboxInv' /\ IdInv' /\ HandInv'
  <2>1. /\ K' = K /\ ctrl(k)' = None /\ send(k)' = None /\ ~configs'[k].udp_connected
        /\ \A j \in K : j # k => /\ ctrl(j)' = ctrl(j) /\ send(j)' = send(j)
                                 /\ configs'[j].udp_connected = configs[j].udp_connected
    BY <1>2, StoresFields
  <2>2. \A j \in K : configs'[j].udp_connected => send(j) # None
    BY <1>1, <2>1 DEF OwnInv
  <2>3. Bystander
    BY <1>1, StandBy
  <2>4. \A j \in K : /\ configs'[j].id = configs[j].id
                     /\ ctrl(j)' \in {ctrl(j), None} /\ send(j)' \in {send(j), None}
    BY <1>2, <2>1 DEF Stores
  <2>5. \A j \in K : configs'[j].udp_connected =>
                       /\ configs[j].udp_connected /\ ctrl(j)' = ctrl(j) /\ send(j)' = send(j)
                       /\ ctrl(j) \in eof => ctrl(j) \in eof'
                       /\ replies[send(j)] # {} => replies'[send(j)] # {}
    BY <1>3, <2>1, <2>2 DEF Survive
  <2> QED BY <1>1, <1>2, <2>3, <2>4, <2>5, Aside DEF Stores
<1>7. FlowInv'
  BY <1>1 DEF IInv, FlowInv, Agrees, FlowOf, relayVars
<1>8. TypeOK'
  <2>1. calls' \in 0..MaxCalls
    BY SMT, <1>1, UdpRelayAssumption DEF TypeOK
  <2>2. configs' \in Seq(ConfigType) /\ Len(configs') <= MaxConfigs
    BY <1>1, <1>2 DEF TypeOK, Stores
  <2>3. UNCHANGED <<nextId, running, flow, inbox, back, pc, it, assoc>>
    BY <1>1 DEF relayVars
  <2>4. TypeOK
    BY DEF IInv
  <2> QED BY SMT, <1>5, <2>1, <2>2, <2>3, <2>4 DEF TypeOK, NetType
<1> QED BY <1>3, <1>6, <1>7, <1>8 DEF IInv

\* The time since the last attempt of an element passes.
LEMMA TickStep ==
  ASSUME IInv, NEW k \in K, Tick(k)
  PROVE  IInv'
<1>1. /\ TypeOK /\ OwnInv /\ NetInv /\ configs' = [configs EXCEPT ![k].recent = FALSE]
      /\ UNCHANGED <<nextId, calls, running, flow, inbox, back, open, eof, replies, pc, it, assoc>>
  BY DEF IInv, Tick, apiVars, clientVars, netVars, relayVars
<1>2. Stores(k, ctrl(k), send(k), configs[k].udp_connected)
  <2> DEFINE e == [configs[k] EXCEPT !.recent = FALSE]
  <2>1. configs \in Seq(ConfigType) /\ configs[k] \in ConfigType
    BY <1>1, ElementType DEF TypeOK
  <2>2. configs' = [configs EXCEPT ![k] = e]
    BY <1>1, <2>1 DEF K
  <2>3. e \in ConfigType /\ e.id = configs[k].id /\ e.udp_tcp_ctrl = ctrl(k)
        /\ e.udp_send_sock = send(k) /\ e.udp_connected = configs[k].udp_connected
    BY <2>1 DEF ConfigType, ctrl, send
  <2> HIDE DEF e
  <2> QED BY <2>1, <2>2, <2>3, Replaced
<1>3. K' = K /\ \A j \in K : /\ ctrl(j)' = ctrl(j) /\ send(j)' = send(j) /\ configs'[j].id = configs[j].id
                             /\ configs'[j].udp_connected = configs[j].udp_connected
  BY <1>2 DEF Stores, K, ctrl, send
<1>4. OwnInv'
  BY SMT, <1>1, <1>3 DEF OwnInv
<1>5. NetInv'
  BY <1>1, <1>3 DEF NetInv
<1>6. Bystander
  BY <1>1, StandBy DEF relayVars
<1>7. SlotInv' /\ ReadyInv' /\ InboxInv' /\ IdInv' /\ HandInv'
  BY <1>1, <1>2, <1>3, <1>6, Aside DEF Stores
<1>8. FlowInv'
  BY <1>1 DEF IInv, FlowInv, Agrees, FlowOf
<1>9. TypeOK'
  BY SMT, <1>1, <1>2 DEF TypeOK, Stores
<1> QED BY <1>4, <1>5, <1>7, <1>8, <1>9 DEF IInv

\* Something arrives on the sockets: only control connections end, and only
\* proxy sockets get datagrams.
LEMMA ArrivalStep ==
  ASSUME IInv, NEW k \in K, Hangup(k) \/ \E d \in Dests : Reply(k, d)
  PROVE  IInv'
<1>1. /\ TypeOK /\ OwnInv /\ NetInv
      /\ UNCHANGED <<configs, nextId, calls, running, flow, inbox, back, open, pc, it, assoc>>
  BY DEF IInv, Hangup, Reply, apiVars, clientVars, relayVars
<1>2. K' = K /\ \A j \in K : ctrl(j)' = ctrl(j) /\ send(j)' = send(j)
  BY <1>1 DEF K, ctrl, send
<1>3. \A j \in K : ctrl(j) \in Handles \cup {None} /\ send(j) \in Handles \cup {None}
  BY <1>1, ElementType DEF TypeOK
<1>4. \/ ctrl(k) # None /\ eof' = eof \cup {ctrl(k)} /\ replies' = replies
      \/ \E d \in Dests : send(k) # None /\ eof' = eof /\ replies' = [replies EXCEPT ![send(k)] = {d}]
  BY DEF Hangup, Reply, ctrl, send
<1>5. eof' \in SUBSET Handles /\ replies' \in [Handles -> SUBSET Dests]
  BY SMT, <1>1, <1>3, <1>4 DEF TypeOK
<1>6. /\ \A h \in Handles : h \in eof' => h \in eof \/ h = ctrl(k)
      /\ \A h \in Handles : replies'[h] # {} => replies[h] # {} \/ h = send(k)
      /\ eof \subseteq eof' /\ \A h \in Handles : replies[h] # {} => replies'[h] # {}
  <2>1. CASE ctrl(k) # None /\ eof' = eof \cup {ctrl(k)} /\ replies' = replies
    BY <2>1
  <2>2. CASE \E d \in Dests : send(k) # None /\ eof' = eof /\ replies' = [replies EXCEPT ![send(k)] = {d}]
    BY SMTT(30), <1>1, <1>3, <2>2 DEF TypeOK
  <2> QED BY <1>4, <2>1, <2>2
<1>7. OwnInv'
  BY SMT, <1>1, <1>2 DEF OwnInv
<1>8. NetInv'
  <2>1. ctrl(k) \in Handles => ctrl(k) \in open
    BY <1>1 DEF OwnInv
  <2>2. send(k) \in Handles => send(k) \in open
    BY <1>1 DEF OwnInv
  <2>3. \A h \in Handles \ open' : h \notin eof' /\ replies'[h] = {}
    BY <1>1, <1>6, <2>1, <2>2 DEF NetInv
  <2>4. None \notin eof' /\ None \notin Handles
    BY <1>5, UdpRelayAssumption
  <2>5. \A j \in K : send(j)' \notin eof' /\ (ctrl(j)' # None => replies'[ctrl(j)'] = {})
    BY SMT, <1>1, <1>2, <1>3, <1>6, <2>4 DEF NetInv, OwnInv
  <2>6. assoc'.sock # None => assoc'.sock \notin eof' /\ replies'[assoc'.sock] = {}
    BY <1>1, <1>6 DEF NetInv, OwnInv, TypeOK
  <2> QED BY <1>2, <2>3, <2>5, <2>6 DEF NetInv
<1>9. Bystander
  BY <1>1, StandBy DEF relayVars
<1>10. \A j \in K : configs'[j].udp_connected =>
                      /\ configs[j].udp_connected /\ ctrl(j)' = ctrl(j) /\ send(j)' = send(j)
                      /\ ctrl(j) \in eof => ctrl(j) \in eof'
                      /\ replies[send(j)] # {} => replies'[send(j)] # {}
  BY <1>1, <1>2, <1>3, <1>6 DEF OwnInv
<1>11. SlotInv' /\ ReadyInv' /\ InboxInv' /\ IdInv' /\ HandInv'
  BY <1>1, <1>2, <1>9, <1>10, Aside
<1>12. FlowInv'
  BY <1>1 DEF IInv, FlowInv, Agrees, FlowOf
<1>13. TypeOK'
  BY SMT, <1>1, <1>5 DEF TypeOK
<1> QED BY <1>7, <1>8, <1>11, <1>12, <1>13 DEF IInv

\* ProxyBridge_DeleteProxyConfig moves elements down, never into the part of the
\* array that a loop has passed.
LEMMA DeleteStep ==
  ASSUME IInv, NEW k \in K, ProxyBridge_DeleteProxyConfig(k)
  PROVE  IInv'
<1>1. /\ TypeOK /\ OwnInv /\ NetInv /\ IdInv /\ pc \notin Sending \cup {"assoc"}
      /\ calls < MaxCalls /\ calls' = calls + 1
      /\ configs' = [j \in 1..(Len(configs) - 1) |-> configs[IF j < k THEN j ELSE j + 1]]
      /\ Sockets(SocketsOf(k), {})
      /\ UNCHANGED <<nextId, running, flow, inbox, back, pc, it, assoc>>
  BY DEF IInv, ProxyBridge_DeleteProxyConfig, Call, clientVars, relayVars, Sending
<1>2. OwnInv' /\ NetInv' /\ Survive(k)
  BY <1>1, DeleteSockets
<1>3. /\ configs' \in Seq(ConfigType) /\ Len(configs') = Len(configs) - 1
      /\ K' = 1..(Len(configs) - 1)
      /\ \A j \in K' : /\ From(j, k) \in K /\ From(j, k) # k /\ From(j, k) >= j
                       /\ configs'[j] = configs[From(j, k)]
      /\ \A i, j \in K' : From(i, k) = From(j, k) => i = j
  BY <1>1, Shift DEF TypeOK
<1>4. \A j \in K' : ctrl(j)' = ctrl(From(j, k)) /\ send(j)' = send(From(j, k))
  BY <1>3 DEF ctrl, send
<1>5. \A j \in K' : j >= it.i => From(j, k) >= it.i
  <2>1. it.i \in Nat /\ K \subseteq Nat /\ Len(configs) \in Nat
    BY SMT, <1>1 DEF TypeOK, K
  <2>2. \A j \in K' : j \in Nat /\ From(j, k) \in Nat /\ From(j, k) >= j
    BY SMT, <1>3, <2>1
  <2> QED BY SMT, <2>1, <2>2
<1>6. SlotInv'
  <2>1. At({"init"})' => \A j \in K' : j >= it'.i => ~configs'[j].udp_connected
    BY <1>1, <1>3, <1>5 DEF IInv, SlotInv, At
  <2>2. pc = "exit" => \A j \in K' : ctrl(j)' = None /\ send(j)' = None
    BY <1>3, <1>4 DEF IInv, SlotInv
  <2>3. pc # "assoc" => assoc.sock = None
    BY DEF IInv, SlotInv
  <2> QED BY <1>1, <2>1, <2>2, <2>3 DEF SlotInv
<1>7. ReadyInv'
  <2>1. \A j \in K' : Ends(From(j, k)) => Ends(j)'
    BY <1>1, <1>2, <1>3, <1>4 DEF Ends, Survive
  <2>2. \A j \in K' : Speaks(From(j, k)) => Speaks(j)'
    BY <1>1, <1>2, <1>3, <1>4 DEF Speaks, Survive, OwnInv
  <2>3. At({"control"})' => \A j \in K' : j >= it'.i => Ends(j)'
    BY <1>1, <1>3, <1>5, <2>1 DEF IInv, ReadyInv, At
  <2>4. pc' \in {"control", "client", "lookup", "proxy"} /\ ~it'.replaced =>
          \A j \in K' : j >= it'.i => Speaks(j)'
    BY <1>1, <1>3, <1>5, <2>2 DEF IInv, ReadyInv
  <2> QED BY <1>1, <2>3, <2>4 DEF IInv, ReadyInv, At
<1>8. InboxInv' /\ FlowInv'
  BY <1>1 DEF IInv, InboxInv, FlowInv, Agrees, FlowOf, At
<1>9. IdInv'
  <2>1. \A j \in K' : configs'[j].id = configs[From(j, k)].id /\ From(j, k) \in K
    BY <1>3
  <2>2. \A j \in K' : configs'[j].id < nextId'
    BY <1>1, <2>1 DEF IdInv
  <2>3. \A i, j \in K' : configs'[i].id = configs'[j].id => i = j
    BY SMT, <1>1, <1>3, <2>1 DEF IdInv
  <2> QED BY <2>2, <2>3 DEF IdInv
<1>10. HandInv'
  BY <1>1 DEF IInv, HandInv, At, Sending
<1>11. TypeOK'
  <2>1. calls' \in 0..MaxCalls
    BY SMT, <1>1, UdpRelayAssumption DEF TypeOK
  <2>2. Len(configs') <= MaxConfigs
    <3>1. Len(configs) \in Nat /\ Len(configs) <= MaxConfigs /\ MaxConfigs \in Nat
      BY SMT, <1>1, UdpRelayAssumption DEF TypeOK
    <3> QED BY SMT, <1>3, <3>1
  <2>3. SocketsOf(k) \in SUBSET Handles
    BY SMTT(30), <1>1, ElementType DEF SocketsOf, TypeOK, ctrl, send
  <2>4. NetType
    BY <1>1, <2>3, SocketsType
  <2>5. TypeOK /\ UNCHANGED <<nextId, running, flow, inbox, back, pc, it, assoc>>
    BY <1>1
  <2> QED BY SMT, <1>3, <2>1, <2>2, <2>4, <2>5 DEF TypeOK, NetType
<1> QED BY <1>2, <1>6, <1>7, <1>8, <1>9, <1>10, <1>11 DEF IInv

\* ProxyBridge_AddProxyConfig: the new element has no association, and an id
\* that no other has.
LEMMA AddStep ==
  ASSUME IInv, NEW type \in {"SOCKS5", "HTTP"}, NEW host \in Hosts,
         ProxyBridge_AddProxyConfig(type, host)
  PROVE  IInv'
<1> DEFINE e == Config(nextId, type, host)
<1>1. /\ TypeOK /\ OwnInv /\ NetInv /\ IdInv /\ calls < MaxCalls /\ calls' = calls + 1
      /\ Len(configs) < MaxConfigs /\ configs' = Append(configs, e) /\ nextId' = nextId + 1
      /\ it' = IF pc # "lookup" /\ it.dg # None /\ Decide[it.dest] = nextId
               THEN [it EXCEPT !.dg.peer = None] ELSE it
      /\ UNCHANGED <<running, flow, inbox, back, open, eof, replies, pc, assoc>>
  BY DEF IInv, ProxyBridge_AddProxyConfig, Call, clientVars, netVars
<1>2. /\ configs \in Seq(ConfigType) /\ nextId \in Nat /\ it \in Iteration
      /\ it.dg \in Datagrams \cup {None}
  BY <1>1 DEF TypeOK, Iteration
<1>3. /\ e \in ConfigType /\ e.id = nextId /\ ~e.udp_connected
      /\ e.udp_tcp_ctrl = None /\ e.udp_send_sock = None
  BY <1>2 DEF Config, ConfigType
<1> HIDE DEF e
<1>0. PICK n \in Nat : n = Len(configs) + 1
  BY SMT, <1>2
<1>4. /\ configs' \in Seq(ConfigType) /\ Len(configs') = n /\ K' = K \cup {n} /\ n \notin K
      /\ configs'[n] = e /\ \A j \in K : configs'[j] = configs[j]
  BY SMT, <1>0, <1>1, <1>2, <1>3 DEF K
<1>5. /\ ctrl(n)' = None /\ send(n)' = None /\ ~configs'[n].udp_connected /\ configs'[n].id = nextId
      /\ \A j \in K : /\ ctrl(j)' = ctrl(j) /\ send(j)' = send(j)
                      /\ configs'[j].udp_connected = configs[j].udp_connected
                      /\ configs'[j].id = configs[j].id
  BY <1>3, <1>4 DEF ctrl, send
<1>a. K' = K \cup {n} /\ n \notin K /\ open' = open /\ assoc' = assoc /\ nextId \in Nat /\ nextId' = nextId + 1
  BY <1>1, <1>2, <1>4
<1>b. OwnInv /\ NetInv /\ IdInv
  BY DEF IInv
<1>6. OwnInv'
  <2>1. \A h \in Handles : h \in open' <=> (\E j \in K' : h \in {ctrl(j)', send(j)'}) \/ h = assoc'.sock
    BY SMT, <1>5, <1>a, <1>b, UdpRelayAssumption DEF OwnInv
  <2>2. \A i, j \in K' : /\ ctrl(i)' # None => ctrl(i)' # send(j)'
                         /\ i # j => /\ ctrl(i)' # None => ctrl(i)' # ctrl(j)'
                                     /\ send(i)' # None => send(i)' # send(j)'
    BY SMT, <1>5, <1>a, <1>b DEF OwnInv
  <2>3. \A j \in K' : /\ assoc'.sock # None => assoc'.sock # ctrl(j)' /\ assoc'.sock # send(j)'
                      /\ configs'[j].udp_connected => ctrl(j)' # None /\ send(j)' # None
    BY <1>5, <1>a, <1>b DEF OwnInv
  <2> QED BY <2>1, <2>2, <2>3 DEF OwnInv
<1>7. NetInv'
  BY SMTT(30), <1>1, <1>4, <1>5, UdpRelayAssumption DEF NetInv, TypeOK
<1>8. Bystander
  <2>1. CASE it' = it
    BY <1>1, <1>2, <2>1 DEF Bystander, Marked
  <2>2. CASE it.dg # None /\ it' = [it EXCEPT !.dg.peer = None]
    <3>1. it.dg \in Datagrams /\ it' = [it EXCEPT !.dg = [it.dg EXCEPT !.peer = None]]
      BY <1>2, <2>2
    <3>2. [it.dg EXCEPT !.peer = None] \in Datagrams
      BY <3>1 DEF Datagrams
    <3> QED BY <1>1, <1>2, <2>2, <3>1, <3>2 DEF Bystander, Marked, Iteration
  <2> QED BY <1>1, <2>1, <2>2
<1>9. /\ it.dg = None <=> it'.dg = None
      /\ it'.dg # None => it'.dg.port = it.dg.port /\ (it'.dg.peer # None => it'.dg = it.dg)
  <2>1. Marked(it.dg, it'.dg)
    BY <1>8 DEF Bystander
  <2> QED BY <1>2, <2>1, MarkedType
<1>10. /\ At({"init"})' <=> At({"init"})
       /\ At({"control"})' <=> At({"control"})
       /\ At({"send"})' <=> At({"send"})
       /\ At(Sending)' <=> At(Sending)
  BY <1>1 DEF At
<1>11. SlotInv'
  <2>1. /\ pc \in Sending \cup {"assoc"} => assoc.slot \in K'
        /\ pc # "assoc" => assoc.sock = None
    BY <1>4 DEF IInv, SlotInv
  <2>2. pc = "assoc" => /\ assoc.sock # None /\ assoc.ret # "top"
                        /\ ctrl(assoc.slot)' = None /\ send(assoc.slot)' = None
                        /\ ~configs'[assoc.slot].udp_connected
                        /\ assoc.ret \notin Sending => assoc.slot < it'.i
    BY <1>1, <1>4, <1>8 DEF IInv, SlotInv, ctrl, send, Bystander
  <2>3. At({"init"}) => \A j \in K' : j >= it'.i => ~configs'[j].udp_connected
    BY <1>4, <1>5, <1>8 DEF IInv, SlotInv, Bystander
  <2>4. pc = "exit" => \A j \in K' : ctrl(j)' = None /\ send(j)' = None
    BY <1>4, <1>5 DEF IInv, SlotInv
  <2> QED BY <1>1, <1>10, <2>1, <2>2, <2>3, <2>4 DEF SlotInv
<1>12. ReadyInv'
  <2>1. \A j \in K : (Ends(j) => Ends(j)') /\ (Speaks(j) => Speaks(j)')
    BY <1>1, <1>5, <1>8 DEF Ends, Speaks, Bystander
  <2>2. Ends(n)' /\ Speaks(n)'
    BY <1>5 DEF Ends, Speaks
  <2>3. At({"control"}) => \A j \in K' : j >= it'.i => Ends(j)'
    BY <1>4, <1>8, <2>1, <2>2 DEF IInv, ReadyInv, Bystander
  <2>4. pc \in {"control", "client", "lookup", "proxy"} /\ ~it.replaced =>
          \A j \in K' : j >= it'.i => Speaks(j)'
    BY <1>4, <1>8, <2>1, <2>2 DEF IInv, ReadyInv, Bystander
  <2> QED BY <1>1, <1>8, <1>10, <2>3, <2>4 DEF IInv, ReadyInv, Bystander
<1>13. InboxInv'
  BY <1>1, <1>8, <1>10 DEF IInv, InboxInv, Bystander
<1>14. FlowInv'
  <2>1. Agrees(it.dg)'
    BY <1>1, <1>9 DEF IInv, FlowInv, Agrees, FlowOf
  <2> QED BY <1>1, <2>1, KeepFlow DEF IInv
<1>15. IdInv'
  <2>1. \A j \in K : configs'[j].id \in Nat /\ configs'[j].id < nextId
    BY <1>1, <1>2, <1>5, ElementType DEF IdInv
  <2>2. \A j \in K' : configs'[j].id < nextId'
    BY SMT, <1>5, <1>a, <2>1
  <2>3. \A i, j \in K' : configs'[i].id = configs'[j].id => i = j
    BY SMT, <1>5, <1>a, <1>b, <2>1 DEF IdInv
  <2> QED BY <2>2, <2>3 DEF IdInv
<1>16. HandInv'
  <2>1. ASSUME At(Sending), it'.dg # None, it'.dg.peer # None
        PROVE  Routed(assoc.slot)'
    <3>1. assoc.slot \in K /\ pc # "lookup" /\ it'.dg = it.dg /\ Routed(assoc.slot)
      BY <1>9, <2>1 DEF IInv, SlotInv, HandInv, At, Sending
    <3>2. Decide[it.dest] # nextId
      <4> SUFFICES ASSUME Decide[it.dest] = nextId PROVE FALSE
        OBVIOUS
      <4>1. it.dg \in Datagrams /\ it' = [it EXCEPT !.dg = [it.dg EXCEPT !.peer = None]]
        BY <1>1, <1>2, <1>9, <2>1, <3>1
      <4>2. it'.dg = [it.dg EXCEPT !.peer = None]
        BY <1>2, <4>1 DEF Iteration
      <4>3. it'.dg.peer = None
        BY <4>1, <4>2 DEF Datagrams
      <4> QED BY <2>1, <4>3
    <3>3. it'.dest = it.dest
      BY <1>8 DEF Bystander
    <3>4. (\E j \in K' : configs'[j].id = Decide[it.dest]) => configs'[assoc.slot].id = Decide[it.dest]
      BY <1>4, <1>5, <3>1, <3>2 DEF Routed
    <3> QED BY <1>1, <3>3, <3>4 DEF Routed
  <2> QED BY <1>1, <1>8, <1>9, <1>10, <2>1 DEF IInv, HandInv, Bystander
<1>17. TypeOK'
  <2>1. calls' \in 0..MaxCalls
    BY SMT, <1>1, UdpRelayAssumption DEF TypeOK
  <2>2. Len(configs') <= MaxConfigs
    <3>1. Len(configs) \in Nat /\ Len(configs) < MaxConfigs /\ MaxConfigs \in Nat
      BY SMT, <1>1, UdpRelayAssumption DEF TypeOK
    <3> QED BY SMT, <1>0, <1>4, <3>1
  <2>3. nextId' \in Nat /\ it' \in Iteration
    BY SMT, <1>1, <1>2, <1>8 DEF Bystander
  <2>4. TypeOK /\ UNCHANGED <<running, flow, inbox, back, open, eof, replies, pc, assoc>>
    BY <1>1
  <2> QED BY <1>4, <2>1, <2>2, <2>3, <2>4 DEF TypeOK, Iteration
<1> QED BY <1>6, <1>7, <1>11, <1>12, <1>13, <1>14, <1>15, <1>16, <1>17 DEF IInv

----------------------------------------------------------------------------
(* The theorems.                                                           *)

\* The invariant holds at the start.
LEMMA InitInv == Init => IInv
<1> SUFFICES ASSUME Init PROVE IInv
  OBVIOUS
<1>1. PICK n \in 1..NStart : \E h \in [1..n -> Hosts] :
         configs = [k \in 1..n |-> Config(k, "SOCKS5", h[k])] /\ nextId = n + 1
  BY DEF Init
<1>2. PICK h \in [1..n -> Hosts] :
         configs = [k \in 1..n |-> Config(k, "SOCKS5", h[k])] /\ nextId = n + 1
  BY <1>1
<1>3. /\ calls = 0 /\ running = TRUE
      /\ flow = [p \in Ports |-> None] /\ inbox = [f \in Families |-> None] /\ back = None
      /\ open = {} /\ eof = {} /\ replies = [g \in Handles |-> {}]
      /\ pc = "init" /\ it = NoIteration /\ assoc = NoAssociation
  BY DEF Init
<1>4. n \in Nat /\ n <= MaxConfigs
  BY SMT, UdpRelayAssumption
<1>5. \A k \in 1..n : /\ configs[k] \in ConfigType /\ configs[k].id = k /\ ~configs[k].udp_connected
                      /\ ctrl(k) = None /\ send(k) = None
  BY SMT, <1>2, <1>4 DEF Config, ConfigType, ctrl, send
<1>6. configs \in Seq(ConfigType) /\ Len(configs) = n /\ K = 1..n
  <2>1. configs \in [1..n -> ConfigType]
    BY <1>2, <1>5
  <2> QED BY SMT, <1>4, <2>1 DEF K
<1>7. assoc.sock = None /\ it.dg = None /\ ~At({"control"}) /\ ~At({"send"}) /\ ~At(Sending)
  BY <1>3 DEF NoAssociation, NoIteration, At, Sending
<1>8. TypeOK
  <2>1. it \in Iteration
    BY <1>3, FirstIteration
  <2>2. running \in BOOLEAN
    BY <1>3, Zenon
  <2>3. calls \in 0..MaxCalls /\ nextId \in Nat
    BY SMT, <1>2, <1>3, <1>4, UdpRelayAssumption
  <2>4. /\ flow \in [Ports -> Flows \cup {None}] /\ inbox \in [Families -> Datagrams \cup {None}]
        /\ back \in Datagrams \cup {None} /\ open \in SUBSET Handles /\ eof \in SUBSET Handles
        /\ replies \in [Handles -> SUBSET Dests]
    BY <1>3
  <2> QED BY <1>3, <1>4, <1>6, <2>1, <2>2, <2>3, <2>4 DEF TypeOK, NoAssociation, Iteration
<1>9. SlotInv
  BY <1>3, <1>5, <1>6, <1>7 DEF SlotInv, Sending
<1>10. OwnInv
  BY <1>3, <1>5, <1>6, <1>7, UdpRelayAssumption DEF OwnInv
<1>11. NetInv
  BY <1>3, <1>5, <1>6, <1>7 DEF NetInv
<1>12. ReadyInv /\ InboxInv
  BY <1>3, <1>7 DEF ReadyInv, InboxInv
<1>13. FlowInv
  BY <1>3, <1>7 DEF FlowInv, Agrees
<1>14. IdInv
  BY SMT, <1>2, <1>4, <1>5, <1>6 DEF IdInv
<1>15. HandInv
  BY <1>3, <1>7 DEF HandInv
<1> QED BY <1>8, <1>9, <1>10, <1>11, <1>12, <1>13, <1>14, <1>15 DEF IInv

\* The invariant when nothing changes.
LEMMA Stutters == ASSUME IInv, UNCHANGED vars PROVE IInv'
<1>1. /\ UNCHANGED <<configs, nextId, calls, running, flow, inbox, back, open, eof, replies, pc, it, assoc>>
      /\ TypeOK /\ OwnInv /\ NetInv /\ FlowInv
  BY DEF IInv, vars, apiVars, clientVars, netVars, relayVars
<1>2. TypeOK'
  BY SMT, <1>1 DEF TypeOK
<1>3. FlowInv'
  BY <1>1 DEF FlowInv, Agrees, FlowOf
<1>4. Bystander
  BY <1>1, StandBy DEF relayVars
<1> QED BY <1>1, <1>2, <1>3, <1>4, PacketStep DEF apiVars, netVars, TypeOK

\* Every step preserves the invariant.
LEMMA NextInv == ASSUME IInv, [Next]_vars PROVE IInv'
<1>1. CASE Relay
  BY <1>1, AssociatedStep, NotAssociatedStep, ReconnectStep, TimeoutStep, SelectStep, ExitStep,
     ControlStep, ClientStep, LookupStep, SendStep, ProxyStep, Client6Step DEF Relay
<1>2. CASE Packets
  BY <1>2, ExpireStep, RedirectStep, DeliverStep DEF Packets
<1>3. CASE Api
  BY <1>3, AddStep, EditStep, DeleteStep, StopStep DEF Api, K
<1>4. CASE World
  BY <1>4, TickStep, ArrivalStep DEF World, K
<1>5. CASE Done \/ UNCHANGED vars
  BY <1>5, Stutters DEF Done
<1> QED BY <1>1, <1>2, <1>3, <1>4, <1>5 DEF Next

\* The inductive invariant, and with it the types of all variables.
THEOREM Invariant == Spec => []IInv
BY InitInv, NextInv, PTL DEF Spec

\* udp_relay_server never waits in recv on a control connection, or in recvfrom
\* on a proxy socket, with nothing to read there.
THEOREM Responsive == Spec => []NeverStalls
<1>1. IInv => NeverStalls
  BY DEF IInv, ReadyInv, NeverStalls
<1> QED BY <1>1, Invariant, PTL

\* The association sockets that are open are exactly those that an element of
\* g_proxy_configs or the association in progress owns, none has two owners, a
\* connected element has both, and none is open when the thread has ended.
THEOREM Accounted == Spec => []SocketsAccounted
<1>1. IInv => SocketsAccounted
  <2> SUFFICES ASSUME IInv PROVE SocketsAccounted
    OBVIOUS
  <2>1. TypeOK /\ OwnInv /\ SlotInv
    BY DEF IInv
  <2>2. /\ \A k \in K : ctrl(k) \in Handles \cup {None} /\ send(k) \in Handles \cup {None}
        /\ assoc.sock \in Handles \cup {None} /\ None \notin Handles /\ open \subseteq Handles
    BY <2>1, ElementType, UdpRelayAssumption DEF TypeOK
  <2>3. \A k \in K : SocketsOf(k) = {ctrl(k), send(k)} \ {None}
    BY DEF SocketsOf, ctrl, send
  <2>4. open = (UNION {SocketsOf(k) : k \in K}) \cup ({assoc.sock} \ {None})
    <3>1. \A h : h \in UNION {SocketsOf(k) : k \in K} <=> \E k \in K : h \in SocketsOf(k)
      OBVIOUS
    <3>2. \A h : h \in open <=> (\E k \in K : h \in SocketsOf(k)) \/ (h = assoc.sock /\ h # None)
      BY SMT, <2>1, <2>2, <2>3 DEF OwnInv
    <3> QED BY SMT, <3>1, <3>2
  <2>5. \A k \in K : /\ configs[k].udp_connected => ctrl(k) # None /\ send(k) # None
                     /\ ctrl(k) # None => ctrl(k) # send(k)
                     /\ assoc.sock \notin SocketsOf(k)
                     /\ \A j \in K \ {k} : SocketsOf(j) \cap SocketsOf(k) = {}
    BY SMT, <2>1, <2>2, <2>3 DEF OwnInv
  <2>6. pc = "exit" => open = {}
    BY <2>1, <2>2 DEF OwnInv, SlotInv
  <2> QED BY <2>4, <2>5, <2>6 DEF SocketsAccounted, K, ctrl, send
<1> QED BY <1>1, Invariant, PTL

\* A step that sends or delivers nothing.
LEMMA QuietSteps ==
  ASSUME Next
  PROVE  Quiet \/ Lookup \/ Send \/ Resend \/ Deliver \/ UNCHANGED vars
<1>1. Relay => Quiet \/ Lookup \/ Send \/ Resend
  BY DEF Relay, Associated, NotAssociated, Reconnect, SelectTimeout, SelectFails, Select, Exit,
         Control, Client, Proxy, Client6
<1>2. Packets => Quiet \/ Deliver
  BY DEF Packets, Expire, Redirect
<1>3. Api => Quiet
  BY DEF Api, ProxyBridge_AddProxyConfig, ProxyBridge_EditProxyConfig,
         ProxyBridge_DeleteProxyConfig, Stop
<1>4. World => Quiet
  BY DEF World, Tick, Hangup, Reply
<1> QED BY <1>1, <1>2, <1>3, <1>4 DEF Next, Done

\* A datagram leaves over element k as it was decided.
LEMMA SendsAsDecided ==
  ASSUME IInv, NEW k \in K, it.dg.peer # None => Routed(k), it.dg # None,
         out' = Datagram(k), UNCHANGED configs
  PROVE  SentAsDecided'
<1>1. out'.sent = it.dg /\ out'.to = it.dest /\ out'.via = configs[k].id
  BY DEF Datagram
<1>2. it.dg.peer # None => it.dest = it.dg.peer
  BY InHand
<1> QED BY <1>1, <1>2 DEF SentAsDecided, Routed, K

\* Sending puts the datagram where the rules want it, or drops it.
LEMMA SendToSends ==
  ASSUME IInv, NEW k \in K, SendTo(k), it.dg # None, it.dg.peer # None => Routed(k)
  PROVE  SentAsDecided'
<1>1. out' = None \/ (out' = Datagram(k) /\ UNCHANGED configs)
  BY DEF SendTo
<1>2. CASE out' = None
  BY <1>2 DEF SentAsDecided
<1> QED BY <1>1, <1>2, SendsAsDecided

\* A datagram of an application leaves udp_relay_server for the destination it
\* was addressed to, through the configuration the rules name for it.
THEOREM Sent == Spec => []SentAsDecided
<1>1. Init => SentAsDecided
  BY DEF Init, SentAsDecided
<1>2. IInv /\ SentAsDecided /\ [Next]_vars => SentAsDecided'
  <2> SUFFICES ASSUME IInv, SentAsDecided, [Next]_vars PROVE SentAsDecided'
    OBVIOUS
  <2>1. CASE out' = None
    BY <2>1 DEF SentAsDecided
  <2>2. CASE Lookup
    <3> DEFINE id == IF flow[it.dg.port] = None THEN 0 ELSE flow[it.dg.port].cfg
    <3>1. it.dg # None /\ pc = "lookup"
      BY <2>2 DEF IInv, HandInv, Lookup
    <3>2. out' = None \/ (IsSocks(find_proxy_config(id)) /\ SendTo(find_proxy_config(id)))
      BY <2>2 DEF Lookup
    <3>3. CASE IsSocks(find_proxy_config(id)) /\ SendTo(find_proxy_config(id))
      <4>1. PICK k \in K : k = find_proxy_config(id) /\ (it.dg.peer # None => Routed(k))
        BY <3>1, <3>3, LooksUp
      <4>2. SendTo(k)
        BY <3>3, <4>1
      <4> QED BY <3>1, <4>1, <4>2, SendToSends
    <3> QED BY <2>1, <3>2, <3>3
  <2>3. CASE Send \/ Resend
    <3>1. PICK k \in K : k = assoc.slot
      BY <2>3 DEF IInv, SlotInv, Send, Resend, Sending
    <3>2. it.dg # None /\ (it.dg.peer # None => Routed(k))
      BY <2>3, <3>1 DEF IInv, HandInv, At, Send, Resend, Sending
    <3>3. CASE Send
      BY <3>1, <3>2, <3>3, SendToSends DEF Send
    <3>4. CASE Resend
      BY <2>1, <3>1, <3>2, <3>4, SendsAsDecided DEF Resend
    <3> QED BY <2>3, <3>3, <3>4
  <2>4. CASE UNCHANGED vars
    BY <2>4 DEF SentAsDecided, vars
  <2>5. CASE Deliver \/ Quiet
    BY <2>1, <2>5 DEF Deliver, Quiet
  <2> QED BY <2>2, <2>3, <2>4, <2>5, QuietSteps
<1> QED BY <1>1, <1>2, Invariant, PTL DEF Spec

\* A datagram of a proxy is shown to the client as coming from the peer that
\* sent it.
THEOREM ReplySource == Spec => []ReplySourceExact
<1>1. Init => ReplySourceExact
  BY DEF Init, ReplySourceExact
<1>2. IInv /\ ReplySourceExact /\ [Next]_vars => ReplySourceExact'
  <2> SUFFICES ASSUME IInv, ReplySourceExact, [Next]_vars PROVE ReplySourceExact'
    OBVIOUS
  <2>1. CASE shown' = None
    BY <2>1 DEF ReplySourceExact
  <2>2. CASE Deliver
    <3> DEFINE f == flow[back.port]
    <3>1. back \in Datagrams /\ (back.peer # None => f = FlowOf(back.peer))
      BY <2>2 DEF Deliver, IInv, TypeOK, FlowInv, Agrees
    <3>2. shown' = None \/ shown' = [back |-> back, label |-> IF f = None THEN None ELSE f.dst]
      BY <2>2 DEF Deliver
    <3>3. back.peer # None => f # None /\ f.dst = back.peer
      <4> SUFFICES ASSUME back.peer # None PROVE f # None /\ f.dst = back.peer
        OBVIOUS
      <4>1. back.peer \in Dests /\ Decide[back.peer] \in Nat
        BY <3>1, UdpRelayAssumption DEF Datagrams
      <4>2. f \in [dst : Dests, cfg : Nat] /\ f.dst = back.peer
        BY SMT, <3>1, <4>1 DEF FlowOf
      <4> QED BY <4>2, UdpRelayAssumption
    <3> HIDE DEF f
    <3> QED BY SMT, <2>1, <3>2, <3>3 DEF ReplySourceExact
  <2>3. CASE Lookup \/ Send \/ Resend \/ Quiet
    BY <2>1, <2>3 DEF Lookup, Send, Resend, Quiet
  <2>4. CASE UNCHANGED vars
    BY <2>4 DEF ReplySourceExact, vars
  <2> QED BY <2>2, <2>3, <2>4, QuietSteps
<1> QED BY <1>1, <1>2, Invariant, PTL DEF Spec
=============================================================================
