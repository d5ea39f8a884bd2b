---------------------------- MODULE UdpRelayInv -----------------------------
(***************************************************************************)
(* The inductive invariant of the UDP relay, and that every step of the    *)
(* relay thread keeps it, for any number of ports, destinations, handles,  *)
(* configurations and calls.                                               *)
(***************************************************************************)
EXTENDS UdpRelay, TLAPS

\* Zenon is tried first; a leaf that it does not find cites SMT.
USE ZenonT(20), SMTT(30)

K == 1..Len(configs)
ctrl(k) == configs[k].udp_tcp_ctrl
send(k) == configs[k].udp_send_sock
Sending == {"send", "resend", "send6"}

\* Where the thread is: what the step at hand, or the caller of the
\* association that is being made, does.
At(S) == pc \in S \/ (pc = "assoc" /\ assoc.ret \in S)

\* The element of the array that the thread holds a pointer to.
SlotInv ==
    /\ pc \in Sending \cup {"assoc"} => assoc.slot \in K
    /\ pc = "assoc" => /\ assoc.sock # None /\ assoc.ret # "top"
                       /\ ctrl(assoc.slot) = None /\ send(assoc.slot) = None
                       /\ ~configs[assoc.slot].udp_connected
                       /\ assoc.ret \notin Sending => assoc.slot < it.i
    /\ pc # "assoc" => assoc.sock = None
    /\ At({"init"}) => \A k \in K : k >= it.i => ~configs[k].udp_connected
    /\ pc = "exit" => \A k \in K : ctrl(k) = None /\ send(k) = None

\* Who owns a socket.
OwnInv ==
    /\ \A h \in Handles : h \in open <=> (\E k \in K : h \in {ctrl(k), send(k)}) \/ h = assoc.sock
    /\ \A j, k \in K : /\ ctrl(j) # None => ctrl(j) # send(k)
                       /\ j # k => /\ ctrl(j) # None => ctrl(j) # ctrl(k)
                                   /\ send(j) # None => send(j) # send(k)
    /\ \A k \in K : /\ assoc.sock # None => assoc.sock # ctrl(k) /\ assoc.sock # send(k)
                    /\ configs[k].udp_connected => ctrl(k) # None /\ send(k) # None

\* What can be readable: control connections at their end, proxy sockets with
\* a datagram.
NetInv ==
    /\ \A h \in Handles \ open : h \notin eof /\ replies[h] = {}
    /\ \A k \in K : send(k) \notin eof /\ (ctrl(k) # None => replies[ctrl(k)] = {})
    /\ assoc.sock # None => assoc.sock \notin eof /\ replies[assoc.sock] = {}

\* What select reported is still true of the sockets that have yet to be read.
Ends(k) == configs[k].udp_connected /\ ctrl(k) \in it.ready => ctrl(k) \in eof
Speaks(k) == configs[k].udp_connected /\ send(k) \in it.ready => replies[send(k)] # {}

ReadyInv ==
    /\ pc # "stalled"
    /\ At({"control"}) => \A k \in K : k >= it.i => Ends(k)
    /\ (pc = "assoc" /\ assoc.ret = "control") \/ At({"send"}) => it.replaced
    /\ pc \in {"client", "lookup", "proxy", "client6"} => ~it.replaced
    /\ pc \in {"control", "client", "lookup", "proxy"} /\ ~it.replaced =>
         \A k \in K : k >= it.i => Speaks(k)
    /\ pc \in {"top", "client", "lookup"} => it.i = 1
    /\ At({"control"}) /\ ~it.replaced => it.i = 1

\* A relay socket that select reported has a datagram until it is read.
InboxInv ==
    /\ At({"control"}) \/ pc = "client" => \A f \in it.relay : inbox[f] # None
    /\ pc \in {"lookup", "proxy", "client6"} /\ "v6" \in it.relay => inbox["v6"] # None

\* A datagram on its way agrees with the flow of its port.
FlowOf(d) == [dst |-> d, cfg |-> Decide[d]]
Agrees(m) == m # None /\ m.peer # None => flow[m.port] = FlowOf(m.peer)

FlowInv ==
    /\ \A p \in Ports : flow[p] # None => flow[p] = FlowOf(flow[p].dst)
    /\ \A f \in Families : Agrees(inbox[f])
    /\ Agrees(back) /\ Agrees(it.dg)

\* Ids are unique and not used twice.
IdInv ==
    /\ \A k \in K : configs[k].id < nextId
    /\ \A j, k \in K : configs[j].id = configs[k].id => j = k

\* The datagram in hand: it has a destination, and is looked up once.
Routed(k) == (\E j \in K : configs[j].id = Decide[it.dest]) => configs[k].id = Decide[it.dest]

HandInv ==
    /\ it.dg # None => it.dest # None /\ (it.dg.peer # None => it.dest = it.dg.peer)
    /\ At(Sending) \/ pc = "lookup" => it.dg # None
    /\ At(Sending) /\ it.dg.peer # None => Routed(assoc.slot)

IInv == /\ TypeOK /\ SlotInv /\ OwnInv /\ NetInv /\ ReadyInv
        /\ InboxInv /\ FlowInv /\ IdInv /\ HandInv
----------------------------------------------------------------------------
(* The array of configurations.                                            *)

\* Element k has the sockets c and s, and is connected or not; the other
\* elements, and all ids, are as they were.
Stores(k, c, s, b) ==
    /\ configs' \in Seq(ConfigType) /\ Len(configs') = Len(configs)
    /\ \A j \in K : j # k => configs'[j] = configs[j]
    /\ configs'[k].id = configs[k].id /\ configs'[k].udp_connected = b
    /\ configs'[k].udp_tcp_ctrl = c /\ configs'[k].udp_send_sock = s

\* An element of the array has the fields of its type.
LEMMA ElementType ==
  ASSUME configs \in Seq(ConfigType), NEW k \in K
  PROVE  /\ configs[k] \in ConfigType /\ configs[k].id \in Nat
         /\ configs[k].udp_connected \in BOOLEAN
         /\ ctrl(k) \in Handles \cup {None} /\ send(k) \in Handles \cup {None}
         /\ configs[k].host \in Hosts
<1>1. configs[k] \in ConfigType
  BY SMT DEF K
<1>2. configs[k].udp_connected \in BOOLEAN
  BY <1>1, Zenon DEF ConfigType
<1> QED BY <1>1, <1>2 DEF ConfigType, ctrl, send

\* An element is replaced.
LEMMA Replaced ==
  ASSUME configs \in Seq(ConfigType), NEW k \in K, NEW r \in ConfigType,
         configs' = [configs EXCEPT ![k] = r], r.id = configs[k].id
  PROVE  Stores(k, r.udp_tcp_ctrl, r.udp_send_sock, r.udp_connected)
BY SMT DEF K, Stores

\* What Cut leaves.
LEMMA CutStores ==
  ASSUME configs \in Seq(ConfigType), NEW k \in K, NEW c \in BOOLEAN, configs' = Cut(k, c)
  PROVE  Stores(k, None, None, configs[k].udp_connected /\ c)
<1> DEFINE r == [configs[k] EXCEPT !.udp_tcp_ctrl = None, !.udp_send_sock = None,
                                   !.udp_relay_addr = None, !.udp_connected = @ /\ c]
<1>1. configs' = [configs EXCEPT ![k] = r]
  BY DEF Cut, K
<1>2. r \in ConfigType /\ r.id = configs[k].id
  BY ElementType DEF ConfigType
<1>3. r.udp_tcp_ctrl = None /\ r.udp_send_sock = None /\ r.udp_connected = (configs[k].udp_connected /\ c)
  BY ElementType DEF ConfigType
<1> QED BY <1>1, <1>2, <1>3, Replaced
----------------------------------------------------------------------------
(* Sockets.                                                                *)

\* The other elements keep what has arrived on their sockets.
Survive(k) ==
    \A j \in K : j # k => /\ ctrl(j) \in eof => ctrl(j) \in eof'
                          /\ send(j) # None /\ replies[send(j)] # {} => replies'[send(j)] # {}

\* The sockets of the elements after Stores.
LEMMA StoresFields ==
  ASSUME NEW k \in K, NEW c, NEW s, NEW b, Stores(k, c, s, b)
  PROVE  /\ K' = K /\ ctrl(k)' = c /\ send(k)' = s /\ configs'[k].udp_connected = b
         /\ \A j \in K : j # k => /\ ctrl(j)' = ctrl(j) /\ send(j)' = send(j)
                                  /\ configs'[j].udp_connected = configs[j].udp_connected
BY DEF Stores, K, ctrl, send

\* The association of k is closed.
LEMMA CloseSockets ==
  ASSUME TypeOK, OwnInv, NetInv, NEW k \in K, Stores(k, None, None, FALSE),
         Sockets(SocketsOf(k), {}), assoc'.sock = assoc.sock
  PROVE  OwnInv' /\ NetInv' /\ Survive(k)
<1>1. /\ K' = K /\ ctrl(k)' = None /\ send(k)' = None /\ ~configs'[k].udp_connected
      /\ \A j \in K : j # k => /\ ctrl(j)' = ctrl(j) /\ send(j)' = send(j)
                               /\ configs'[j].udp_connected = configs[j].udp_connected
  BY StoresFields
<1>2. /\ SocketsOf(k) = {ctrl(k), send(k)} \ {None}
      /\ \A j \in K : ctrl(j) \in Handles \cup {None} /\ send(j) \in Handles \cup {None}
      /\ assoc.sock \in Handles \cup {None} /\ None \notin Handles
  BY ElementType, UdpRelayAssumption DEF SocketsOf, ctrl, send, TypeOK
<1>3. /\ open' = open \ SocketsOf(k) /\ eof' = eof \ SocketsOf(k)
      /\ \A h \in Handles : replies'[h] = IF h \in SocketsOf(k) THEN {} ELSE replies[h]
  BY DEF Sockets
<1>4. OwnInv'
  BY SMT, <1>1, <1>2, <1>3 DEF OwnInv
<1>5. NetInv'
  <2>1. \A h \in Handles \ open' : h \notin eof' /\ replies'[h] = {}
    BY <1>3 DEF NetInv
  <2>2. \A j \in K : send(j)' \notin eof' /\ (ctrl(j)' # None => replies'[ctrl(j)'] = {})
    BY SMT, <1>1, <1>2, <1>3 DEF NetInv, TypeOK
  <2>3. assoc.sock # None => assoc.sock \notin eof' /\ replies'[assoc.sock] = {}
    BY <1>2, <1>3 DEF NetInv
  <2> QED BY <1>1, <2>1, <2>2, <2>3 DEF NetInv
<1>6. Survive(k)
  BY <1>1, <1>2, <1>3 DEF OwnInv, Survive
<1> QED BY <1>4, <1>5, <1>6

\* The association of k is closed, and a control connection h opened for a new
\* one; the value of h may be one that was closed.
LEMMA OpenSocket ==
  ASSUME TypeOK, OwnInv, NetInv, NEW k \in K, Stores(k, None, None, FALSE),
         NEW h \in Handles \ (open \ SocketsOf(k)),
         Sockets(SocketsOf(k), {h}), assoc.sock = None, assoc'.sock = h
  PROVE  OwnInv' /\ NetInv' /\ Survive(k)
<1>1. /\ K' = K /\ ctrl(k)' = None /\ send(k)' = None /\ ~configs'[k].udp_connected
      /\ \A j \in K : j # k => /\ ctrl(j)' = ctrl(j) /\ send(j)' = send(j)
                               /\ configs'[j].udp_connected = configs[j].udp_connected
  BY StoresFields
<1>2. /\ SocketsOf(k) = {ctrl(k), send(k)} \ {None}
      /\ \A j \in K : ctrl(j) \in Handles \cup {None} /\ send(j) \in Handles \cup {None}
      /\ None \notin Handles
  BY ElementType, UdpRelayAssumption DEF SocketsOf, ctrl, send, TypeOK
<1>3. /\ open' = (open \ SocketsOf(k)) \cup {h} /\ eof' = eof \ SocketsOf(k)
      /\ \A g \in Handles : replies'[g] = IF g \in SocketsOf(k) THEN {} ELSE replies[g]
  BY DEF Sockets
<1>4. \A j \in K : j # k => h # ctrl(j) /\ h # send(j)
  BY <1>2 DEF OwnInv
<1>5. OwnInv'
  BY SMT, <1>1, <1>2, <1>3, <1>4 DEF OwnInv
<1>6. NetInv'
  <2>1. \A g \in Handles \ open' : g \notin eof' /\ replies'[g] = {}
    BY <1>3 DEF NetInv
  <2>2. \A j \in K : send(j)' \notin eof' /\ (ctrl(j)' # None => replies'[ctrl(j)'] = {})
    BY SMT, <1>1, <1>2, <1>3 DEF NetInv, TypeOK
  <2>3. h \notin eof' /\ replies'[h] = {}
    BY <1>2, <1>3 DEF NetInv
  <2> QED BY <1>1, <2>1, <2>2, <2>3 DEF NetInv
<1>7. Survive(k)
  BY <1>1, <1>2, <1>3 DEF OwnInv, Survive
<1> QED BY <1>5, <1>6, <1>7

\* The association is granted: its sockets go to the element.
LEMMA GrantSockets ==
  ASSUME TypeOK, OwnInv, NetInv, NEW k \in K, ctrl(k) = None, send(k) = None,
         assoc.sock # None, NEW h \in Handles \ open, Stores(k, assoc.sock, h, TRUE),
         Sockets({}, {h}), assoc'.sock = None
  PROVE  OwnInv' /\ NetInv' /\ Survive(k)
<1>1. /\ K' = K /\ ctrl(k)' = assoc.sock /\ send(k)' = h /\ configs'[k].udp_connected = TRUE
      /\ \A j \in K : j # k => /\ ctrl(j)' = ctrl(j) /\ send(j)' = send(j)
                               /\ configs'[j].udp_connected = configs[j].udp_connected
  BY StoresFields
<1>2. /\ \A j \in K : ctrl(j) \in Handles \cup {None} /\ send(j) \in Handles \cup {None}
      /\ assoc.sock \in Handles \cup {None} /\ None \notin Handles
  BY ElementType, UdpRelayAssumption DEF TypeOK
<1>3. /\ open' = open \cup {h} /\ eof' = eof
      /\ \A g \in Handles : replies'[g] = replies[g]
  BY DEF Sockets
<1>4. h # assoc.sock /\ \A j \in K : h # ctrl(j) /\ h # send(j)
  BY <1>2 DEF OwnInv
<1>5. OwnInv'
  BY SMT, <1>1, <1>2, <1>3, <1>4 DEF OwnInv
<1>6. NetInv'
  <2>1. \A g \in Handles \ open' : g \notin eof' /\ replies'[g] = {}
    BY <1>3 DEF NetInv
  <2>2. \A j \in K : send(j)' \notin eof' /\ (ctrl(j)' # None => replies'[ctrl(j)'] = {})
    BY SMT, <1>1, <1>2, <1>3 DEF NetInv, TypeOK
  <2> QED BY <1>1, <2>1, <2>2 DEF NetInv
<1>7. Survive(k)
  BY <1>1, <1>2, <1>3 DEF OwnInv, Survive
<1> QED BY <1>5, <1>6, <1>7

\* Nothing changes that the invariants on sockets depend on.
LEMMA KeepSockets ==
  ASSUME OwnInv, NetInv, UNCHANGED <<configs, open, eof, replies>>, assoc'.sock = assoc.sock
  PROVE  OwnInv' /\ NetInv'
<1>1. K' = K /\ \A j \in K : ctrl(j)' = ctrl(j) /\ send(j)' = send(j)
  BY DEF K, ctrl, send
<1>2. OwnInv'
  BY SMT, <1>1 DEF OwnInv
<1>3. NetInv'
  BY <1>1 DEF NetInv
<1> QED BY <1>2, <1>3

\* The association is not granted: its control connection is closed.
LEMMA FailSocket ==
  ASSUME TypeOK, OwnInv, NetInv, UNCHANGED configs, assoc.sock # None,
         Sockets({assoc.sock}, {}), assoc'.sock = None
  PROVE  OwnInv' /\ NetInv' /\ \A k \in K : Survive(k)
<1>1. K' = K /\ \A j \in K : ctrl(j)' = ctrl(j) /\ send(j)' = send(j)
  BY DEF K, ctrl, send
<1>2. /\ \A j \in K : ctrl(j) \in Handles \cup {None} /\ send(j) \in Handles \cup {None}
      /\ assoc.sock \in Handles /\ None \notin Handles
  BY ElementType, UdpRelayAssumption DEF TypeOK
<1>3. /\ open' = open \ {assoc.sock} /\ eof' = eof \ {assoc.sock}
      /\ \A g \in Handles : replies'[g] = IF g = assoc.sock THEN {} ELSE replies[g]
  BY DEF Sockets
<1>4. OwnInv'
  BY SMT, <1>1, <1>2, <1>3 DEF OwnInv
<1>5. NetInv'
  <2>1. \A g \in Handles \ open' : g \notin eof' /\ replies'[g] = {}
    BY <1>3 DEF NetInv
  <2>2. \A j \in K : send(j)' \notin eof' /\ (ctrl(j)' # None => replies'[ctrl(j)'] = {})
    BY SMT, <1>1, <1>2, <1>3 DEF NetInv, TypeOK
  <2> QED BY <1>1, <2>1, <2>2 DEF NetInv
<1>6. \A k \in K : Survive(k)
  BY <1>1, <1>2, <1>3 DEF OwnInv, Survive
<1> QED BY <1>4, <1>5, <1>6

\* Element k is deleted: where the element that is now at j was.
From(j, k) == IF j < k THEN j ELSE j + 1

\* Where the elements after k are found once it was removed.
LEMMA Shift ==
  ASSUME configs \in Seq(ConfigType), NEW k \in K,
         configs' = [j \in 1..(Len(configs) - 1) |-> configs[IF j < k THEN j ELSE j + 1]]
  PROVE  /\ configs' \in Seq(ConfigType) /\ Len(configs') = Len(configs) - 1
         /\ K' = 1..(Len(configs) - 1)
         /\ \A j \in K' : /\ From(j, k) \in K /\ From(j, k) # k /\ From(j, k) >= j
                          /\ configs'[j] = configs[From(j, k)]
         /\ \A i, j \in K' : From(i, k) = From(j, k) => i = j
         /\ \A i \in K : i # k => \E j \in K' : From(j, k) = i
<1>1. Len(configs) \in Nat /\ Len(configs) >= 1 /\ k \in 1..Len(configs)
  BY SMT DEF K
<1>2. \A j \in 1..(Len(configs) - 1) : From(j, k) \in 1..Len(configs) /\ From(j, k) # k /\ From(j, k) >= j
  BY SMT, <1>1 DEF From
<1>3. configs' = [j \in 1..(Len(configs) - 1) |-> configs[From(j, k)]]
  BY DEF From
<1>4. configs' \in Seq(ConfigType) /\ Len(configs') = Len(configs) - 1
  BY SMT, <1>1, <1>2, <1>3
<1>5. K' = 1..(Len(configs) - 1)
  BY <1>4 DEF K
<1>6. \A i \in K : i # k => (IF i < k THEN i ELSE i - 1) \in K' /\ From(IF i < k THEN i ELSE i - 1, k) = i
  BY SMT, <1>1, <1>5 DEF K, From
<1>7. \A i, j \in K' : From(i, k) = From(j, k) => i = j
  BY SMT, <1>1, <1>5 DEF From
<1> QED BY <1>2, <1>3, <1>4, <1>5, <1>6, <1>7 DEF K

\* An element is deleted and the ones behind it move down.
LEMMA DeleteSockets ==
  ASSUME TypeOK, OwnInv, NetInv, NEW k \in K,
         configs' = [j \in 1..(Len(configs) - 1) |-> configs[IF j < k THEN j ELSE j + 1]],
         Sockets(SocketsOf(k), {}), assoc' = assoc
  PROVE  OwnInv' /\ NetInv' /\ Survive(k)
<1> DEFINE from(j) == From(j, k)
<1>1. /\ K' = 1..(Len(configs) - 1)
      /\ \A j \in K' : from(j) \in K /\ from(j) # k /\ configs'[j] = configs[from(j)]
      /\ \A i, j \in K' : from(i) = from(j) => i = j
      /\ \A i \in K : i # k => \E j \in K' : from(j) = i
  BY Shift DEF TypeOK
<1>2. \A j \in K' : /\ ctrl(j)' = ctrl(from(j)) /\ send(j)' = send(from(j))
                    /\ configs'[j].udp_connected = configs[from(j)].udp_connected
  BY <1>1 DEF ctrl, send
<1>3. /\ SocketsOf(k) = {ctrl(k), send(k)} \ {None}
      /\ \A j \in K : ctrl(j) \in Handles \cup {None} /\ send(j) \in Handles \cup {None}
      /\ assoc.sock \in Handles \cup {None} /\ None \notin Handles
  BY ElementType, UdpRelayAssumption DEF SocketsOf, ctrl, send, TypeOK
<1>4. /\ open' = open \ SocketsOf(k) /\ eof' = eof \ SocketsOf(k)
      /\ \A h \in Handles : replies'[h] = IF h \in SocketsOf(k) THEN {} ELSE replies[h]
  BY DEF Sockets
<1> HIDE DEF from
<1>5. OwnInv'
  <2>1. \A h \in Handles : h \in open' <=> (\E j \in K' : h \in {ctrl(j)', send(j)'}) \/ h = assoc.sock
    BY SMT, <1>1, <1>2, <1>3, <1>4 DEF OwnInv
  <2>2. \A i, j \in K' : /\ ctrl(i)' # None => ctrl(i)' # send(j)'
                         /\ i # j => /\ ctrl(i)' # None => ctrl(i)' # ctrl(j)'
                                     /\ send(i)' # None => send(i)' # send(j)'
    BY SMT, <1>1, <1>2 DEF OwnInv
  <2>3. \A j \in K' : /\ assoc.sock # None => assoc.sock # ctrl(j)' /\ assoc.sock # send(j)'
                      /\ configs'[j].udp_connected => ctrl(j)' # None /\ send(j)' # None
    BY SMTT(30), <1>1, <1>2 DEF OwnInv
  <2> QED BY <2>1, <2>2, <2>3 DEF OwnInv
<1>6. NetInv'
  <2>1. \A h \in Handles \ open' : h \notin eof' /\ replies'[h] = {}
    BY <1>4 DEF NetInv
  <2>2. \A j \in K' : send(j)' \notin eof' /\ (ctrl(j)' # None => replies'[ctrl(j)'] = {})
    <3> SUFFICES ASSUME NEW j \in K'
                 PROVE  send(j)' \notin eof' /\ (ctrl(j)' # None => replies'[ctrl(j)'] = {})
      OBVIOUS
    <3>1. from(j) \in K /\ ctrl(j)' = ctrl(from(j)) /\ send(j)' = send(from(j))
      BY <1>1, <1>2
    <3> QED BY <1>3, <1>4, <3>1 DEF NetInv
  <2>3. assoc.sock # None => assoc.sock \notin eof' /\ replies'[assoc.sock] = {}
    BY <1>3, <1>4 DEF NetInv
  <2> QED BY <2>1, <2>2, <2>3 DEF NetInv
<1>7. Survive(k)
  BY <1>3, <1>4 DEF OwnInv, Survive
<1> QED BY <1>5, <1>6, <1>7

----------------------------------------------------------------------------
(* establish_udp_associate_for_config.                                     *)

Loops == {"init", "timeout", "control"}
Iteration ==
    [i : Nat, ready : SUBSET Handles, relay : SUBSET Families, replaced : BOOLEAN,
     dg : Datagrams \cup {None}, dest : Dests \cup {None}]
NetType == open' \in SUBSET Handles /\ eof' \in SUBSET Handles /\ replies' \in [Handles -> SUBSET Dests]

\* At most element k changes, and not its id.
Changes(k) ==
    /\ configs' \in Seq(ConfigType) /\ Len(configs') = Len(configs)
    /\ \A j \in K : configs'[j].id = configs[j].id /\ (j # k => configs'[j] = configs[j])
    /\ OwnInv' /\ NetInv' /\ Survive(k) /\ NetType

\* The thread goes on without an association.
Refused(r, t) ==
    /\ assoc' = NoAssociation
    /\ \/ r \in Loops /\ pc' = r /\ it' = t
       \/ r \in Sending /\ pc' = "top" /\ it' = NoIteration

\* The thread waits for the proxy.
Asks(k, r, t) ==
    /\ pc' = "assoc" /\ it' = t
    /\ assoc' \in [slot : {k}, sock : Handles, target : Hosts, ret : {r}]
    /\ ctrl(k)' = None /\ send(k)' = None /\ ~configs'[k].udp_connected

\* A handle from the system is one that is not in use.
LEMMA NewHandle == ASSUME NEW S, NEW h \in Fresh(S) PROVE h \in Handles \ S
BY DEF Fresh

\* Closing handles and opening one keeps the types of the network.
LEMMA SocketsType ==
  ASSUME TypeOK, NEW S \in SUBSET Handles, NEW N \in SUBSET Handles, Sockets(S, N)
  PROVE  NetType
BY DEF TypeOK, Sockets, NetType

\* What udp_relay_associate does before the proxy answers: it closes what the
\* element had, and is refused or asks for an association on a new connection.
LEMMA EstablishStep ==
  ASSUME TypeOK, OwnInv, NetInv, NEW k \in K, NEW dropped \in BOOLEAN,
         dropped \/ ~configs[k].udp_connected, assoc.sock = None,
         NEW r \in Loops \cup Sending, NEW t, Establish(k, dropped, r, t)
  PROVE  Changes(k) /\ (Refused(r, t) \/ Asks(k, r, t))
<1>1. /\ SocketsOf(k) \in SUBSET Handles /\ configs[k].host \in Hosts
      /\ configs \in Seq(ConfigType) /\ None \notin Handles
      /\ configs[k] \in ConfigType /\ configs[k].udp_connected \in BOOLEAN
  BY SMT, ElementType, UdpRelayAssumption DEF SocketsOf, TypeOK, ctrl, send
<1>2. CASE /\ configs' = IF dropped THEN Cut(k, FALSE) ELSE configs
           /\ Sockets(IF dropped THEN SocketsOf(k) ELSE {}, {})
           /\ Return(k, r, t, FALSE)
  <2>1. Refused(r, t)
    BY <1>2 DEF Return, Refused, Loops, Sending, Top, Goto
  <2>2. assoc'.sock = None
    BY <2>1 DEF Refused, NoAssociation
  <2>3. CASE dropped
    <3>1. Stores(k, None, None, FALSE)
      BY <1>1, <1>2, <2>3, CutStores
    <3>2. Sockets(SocketsOf(k), {})
      BY <1>2, <2>3
    <3>3. OwnInv' /\ NetInv' /\ Survive(k)
      BY <2>2, <3>1, <3>2, CloseSockets
    <3>4. NetType
      BY <1>1, <3>2, SocketsType
    <3> QED BY <2>1, <3>1, <3>3, <3>4 DEF Changes, Stores
  <2>4. CASE ~dropped
    <3>1. configs' = configs /\ Sockets({}, {})
      BY <1>2, <2>4
    <3>2. open' = open /\ eof' = eof /\ replies' = replies
      BY <3>1 DEF Sockets, TypeOK
    <3>3. OwnInv' /\ NetInv'
      BY <2>2, <3>1, <3>2, KeepSockets
    <3>4. Survive(k)
      BY <3>2 DEF Survive
    <3> QED BY <1>1, <2>1, <2>4, <3>1, <3>2, <3>3, <3>4 DEF Changes, NetType, TypeOK
  <2> QED BY <2>3, <2>4
<1>3. CASE /\ configs' = [Cut(k, ~dropped) EXCEPT ![k].recent = TRUE]
           /\ \E h \in Fresh(open \ SocketsOf(k)) :
                /\ Sockets(SocketsOf(k), {h})
                /\ assoc' = [slot |-> k, sock |-> h, target |-> configs[k].host, ret |-> r]
           /\ Goto("assoc") /\ it' = t
  <2>1. PICK h \in Fresh(open \ SocketsOf(k)) :
                /\ Sockets(SocketsOf(k), {h})
                /\ assoc' = [slot |-> k, sock |-> h, target |-> configs[k].host, ret |-> r]
    BY <1>3
  <2>2. h \in Handles \ (open \ SocketsOf(k))
    BY NewHandle
  <2>3. Stores(k, None, None, FALSE)
    <3> DEFINE e == [configs[k] EXCEPT !.udp_tcp_ctrl = None, !.udp_send_sock = None,
                       !.udp_relay_addr = None, !.udp_connected = @ /\ ~dropped, !.recent = TRUE]
    <3>1. configs' = [configs EXCEPT ![k] = e]
      BY <1>1, <1>3 DEF Cut, K
    <3>2. e \in ConfigType /\ e.id = configs[k].id /\ e.udp_tcp_ctrl = None /\ e.udp_send_sock = None
      BY <1>1 DEF ConfigType
    <3>3. e.udp_connected = (configs[k].udp_connected /\ ~dropped)
      BY <1>1 DEF ConfigType
    <3> HIDE DEF e
    <3>4. e.udp_connected = FALSE
      BY <3>3
    <3> QED BY <1>1, <3>1, <3>2, <3>4, Replaced
  <2>4. OwnInv' /\ NetInv' /\ Survive(k)
    BY <2>1, <2>2, <2>3, OpenSocket
  <2>5. NetType
    BY <1>1, <2>1, <2>2, SocketsType
  <2>6. Asks(k, r, t)
    BY <1>1, <1>3, <2>1, <2>2, <2>3, StoresFields DEF Asks, Goto
  <2> QED BY <2>3, <2>4, <2>5, <2>6 DEF Changes, Stores
<1> QED BY <1>2, <1>3 DEF Establish

\* The locals at the top of the loop have their types.
LEMMA FirstIteration == NoIteration \in Iteration
BY DEF NoIteration, Iteration

\* The next iteration starts with nothing to keep.
LEMMA AtTop ==
  ASSUME pc' = "top", it' = NoIteration, assoc' = NoAssociation
  PROVE  SlotInv' /\ ReadyInv' /\ InboxInv' /\ HandInv' /\ Agrees(it.dg)'
<1>1. /\ pc' = "top" /\ assoc'.sock = None /\ it'.dg = None /\ it'.i = 1
  BY DEF NoIteration, NoAssociation
<1>2. \A S : S = Sending \/ S = {"init"} \/ S = {"control"} \/ S = {"send"} => ~At(S)'
  BY <1>1 DEF At, Sending
<1>3. SlotInv'
  BY <1>1, <1>2 DEF SlotInv, Sending
<1>4. ReadyInv' /\ InboxInv'
  BY <1>1, <1>2 DEF ReadyInv, InboxInv
<1>5. HandInv' /\ Agrees(it.dg)'
  BY <1>1, <1>2 DEF HandInv, Agrees
<1> QED BY <1>3, <1>4, <1>5

\* Ids, when no element comes or goes.
LEMMA KeepIds ==
  ASSUME IdInv, nextId' = nextId, Len(configs') = Len(configs),
         \A j \in K : configs'[j].id = configs[j].id
  PROVE  IdInv' /\ K' = K
BY DEF IdInv, K

\* Flows, when a datagram is only taken.
LEMMA KeepFlow ==
  ASSUME FlowInv, flow' = flow, \A f \in Families : inbox'[f] \in {inbox[f], None},
         back' \in {back, None}, Agrees(it.dg)'
  PROVE  FlowInv'
BY DEF FlowInv, Agrees

\* What the caller r of an association for element k has taken care of, its
\* locals being t.
Prepared(k, r, t) ==
    /\ t \in Iteration
    /\ r \in Loops => k < t.i
    /\ r = "init" => \A j \in K : j >= t.i => ~configs[j].udp_connected
    /\ r = "control" =>
         /\ t.replaced /\ \A f \in t.relay : inbox'[f] # None
         /\ \A j \in K : j >= t.i /\ configs[j].udp_connected /\ ctrl(j) \in t.ready => ctrl(j) \in eof
    /\ r = "send" => t.replaced
    /\ t.dg # None =>
         t.dest # None /\ (t.dg.peer # None => t.dest = t.dg.peer /\ flow'[t.dg.port] = FlowOf(t.dg.peer))
    /\ r \in Sending =>
         /\ t.dg # None
         /\ t.dg.peer # None /\ (\E j \in K : configs[j].id = Decide[t.dest])
              => configs[k].id = Decide[t.dest]

\* The thread goes on in a loop, or waits for an association.
LEMMA Onward ==
  ASSUME IInv, NEW k \in K, NEW r \in Loops \cup Sending, NEW t, Changes(k), Prepared(k, r, t),
         \/ r \in Loops /\ pc' = r /\ it' = t /\ assoc' = NoAssociation
         \/ r \in Sending /\ pc' = r /\ it' = t /\ assoc' = [NoAssociation EXCEPT !.slot = k]
         \/ Asks(k, r, t)
  PROVE  SlotInv' /\ ReadyInv' /\ InboxInv' /\ HandInv' /\ Agrees(it.dg)'
<1>1. /\ it' = t /\ (pc' = r \/ (pc' = "assoc" /\ assoc'.ret = r))
      /\ pc' # "assoc" => assoc'.sock = None
      /\ r \in Sending => assoc'.slot = k
      /\ pc' = "assoc" => /\ assoc'.slot = k /\ assoc'.sock # None /\ assoc'.ret = r
                          /\ ctrl(k)' = None /\ send(k)' = None /\ ~configs'[k].udp_connected
  BY SMT, UdpRelayAssumption DEF Asks, NoAssociation, Loops, Sending
<1>2. K' = K /\ \A j \in K : j # k => configs'[j] = configs[j]
  BY DEF Changes, K
<1>3. /\ At({"init"})' <=> r = "init"
      /\ At({"control"})' <=> r = "control"
      /\ At({"send"})' <=> r = "send"
      /\ At(Sending)' <=> r \in Sending
  BY SMT, <1>1 DEF At, Loops, Sending
<1>9. k \in Nat /\ t.i \in Nat
  BY SMT DEF K, Prepared, Iteration
<1>4. SlotInv'
  <2>1. pc' = "assoc" => /\ assoc'.sock # None /\ assoc'.ret # "top"
                         /\ ctrl(assoc.slot)' = None /\ send(assoc.slot)' = None
                         /\ ~configs'[assoc'.slot].udp_connected
                         /\ assoc'.ret \notin Sending => assoc'.slot < it'.i
    BY <1>1, <1>2 DEF Prepared, Loops, Sending, ctrl, send
  <2>2. r = "init" => \A j \in K' : j >= it'.i => ~configs'[j].udp_connected
    BY SMT, <1>1, <1>2, <1>9 DEF Prepared, Loops
  <2> QED BY <1>1, <1>2, <1>3, <2>1, <2>2 DEF SlotInv, Loops, Sending
<1>5. ReadyInv'
  <2>1. r = "control" => it'.replaced /\ \A j \in K' : j >= it'.i => Ends(j)'
    <3> SUFFICES ASSUME r = "control", NEW j \in K', j >= it'.i, configs'[j].udp_connected, ctrl(j)' \in it'.ready
                 PROVE  ctrl(j)' \in eof'
      BY <1>1 DEF Prepared, Ends
    <3>1. j \in K /\ j # k /\ configs'[j] = configs[j] /\ ctrl(j)' = ctrl(j)
      BY SMT, <1>1, <1>2, <1>9 DEF ctrl, Prepared, Loops, K
    <3>2. ctrl(j) \in eof
      BY <1>1, <3>1 DEF Prepared
    <3> QED BY <3>1, <3>2 DEF Changes, Survive
  <2>2. r = "send" => it'.replaced
    BY <1>1 DEF Prepared
  <2> QED BY <1>1, <1>3, <2>1, <2>2 DEF ReadyInv, Loops, Sending
<1>6. InboxInv'
  BY <1>1, <1>3 DEF InboxInv, Prepared, Loops, Sending
<1>7. Agrees(it.dg)'
  BY <1>1 DEF Agrees, Prepared, FlowOf
<1>8. HandInv'
  <2>2. \A j \in K : configs'[j].id = configs[j].id
    BY DEF Changes
  <2>3. r \in Sending /\ it'.dg.peer # None => Routed(assoc.slot)'
    BY <1>1, <1>2, <2>2 DEF Prepared, Routed
  <2>4. /\ it'.dg # None => it'.dest # None /\ (it'.dg.peer # None => it'.dest = it'.dg.peer)
        /\ r \in Sending => it'.dg # None
    BY <1>1 DEF Prepared
  <2> QED BY <1>1, <1>3, <2>3, <2>4 DEF HandInv, Loops, Sending
<1> QED BY <1>4, <1>5, <1>6, <1>7, <1>8

\* Every call of establish_udp_associate_for_config.
LEMMA EstablishInv ==
  ASSUME IInv, NEW k \in K, NEW dropped \in BOOLEAN, dropped \/ ~configs[k].udp_connected,
         pc # "assoc", NEW r \in Loops \cup Sending, NEW t, Prepared(k, r, t),
         Establish(k, dropped, r, t),
         UNCHANGED <<apiVars, flow, back>>, inbox' \in [Families -> Datagrams \cup {None}],
         \A f \in Families : inbox'[f] \in {inbox[f], None}
  PROVE  IInv'
<1>0. TypeOK /\ OwnInv /\ NetInv /\ FlowInv /\ IdInv /\ assoc.sock = None
  BY DEF IInv, SlotInv
<1>1. Changes(k) /\ (Refused(r, t) \/ Asks(k, r, t))
  BY <1>0, EstablishStep
<1>2. SlotInv' /\ ReadyInv' /\ InboxInv' /\ HandInv' /\ Agrees(it.dg)'
  <2>1. CASE r \in Sending /\ Refused(r, t)
    BY <2>1, AtTop DEF Refused, Loops, Sending
  <2>2. CASE ~(r \in Sending /\ Refused(r, t))
    BY <1>1, <2>2, Onward DEF Refused
  <2> QED BY <2>1, <2>2
<1>3. IdInv' /\ K' = K
  BY <1>0, <1>1, KeepIds DEF Changes, apiVars
<1>4. FlowInv'
  BY <1>0, <1>2, KeepFlow
<1>5. TypeOK'
  <2>1. it' \in Iteration
    BY <1>1, FirstIteration DEF Refused, Asks, Prepared
  <2>4. pc' \in Loops \cup {"top", "assoc"}
    BY <1>1 DEF Refused, Asks
  <2>2. assoc' \in [slot : Nat, sock : Handles \cup {None}, target : Hosts \cup {None},
                    ret : {"top", "init", "timeout", "control", "send", "resend", "send6"}]
    BY SMT, <1>1 DEF Refused, Asks, NoAssociation, K, Loops, Sending
  <2>3. configs' \in Seq(ConfigType) /\ Len(configs') = Len(configs) /\ NetType
    BY <1>1 DEF Changes
  <2> QED BY <1>0, <2>1, <2>2, <2>3, <2>4 DEF TypeOK, NetType, apiVars, Loops, Iteration
<1> QED BY <1>1, <1>2, <1>3, <1>4, <1>5 DEF IInv, Changes

----------------------------------------------------------------------------
(* The steps of the relay thread.                                          *)

\* A step that ends the iteration and changes no association.
LEMMA TopStep ==
  ASSUME IInv, pc # "assoc", Top, UNCHANGED <<configs, apiVars, open, netVars, flow, back>>,
         inbox' \in [Families -> Datagrams \cup {None}],
         \A f \in Families : inbox'[f] \in {inbox[f], None}
  PROVE  IInv'
<1>1. TypeOK /\ OwnInv /\ NetInv /\ FlowInv /\ IdInv /\ assoc.sock = None
  BY DEF IInv, SlotInv
<1>2. SlotInv' /\ ReadyInv' /\ InboxInv' /\ HandInv' /\ Agrees(it.dg)'
  BY AtTop DEF Top
<1>3. OwnInv' /\ NetInv'
  BY <1>1, KeepSockets DEF Top, NoAssociation, netVars
<1>4. IdInv'
  BY <1>1, KeepIds DEF apiVars
<1>5. FlowInv'
  BY <1>1, <1>2, KeepFlow
<1>6. TypeOK'
  <2>1. it' \in Iteration
    BY FirstIteration DEF Top
  <2> QED BY <1>1, <2>1 DEF Top, TypeOK, apiVars, netVars, NoAssociation, Iteration
<1> QED BY <1>2, <1>3, <1>4, <1>5, <1>6 DEF IInv

\* The locals after element k.
LEMMA FurtherFields ==
  ASSUME TypeOK, NEW k \in K
  PROVE  /\ Further(k) \in Iteration /\ Further(k).i = k + 1 /\ Further(k).ready = it.ready
         /\ Further(k).relay = it.relay /\ Further(k).replaced = it.replaced
         /\ Further(k).dg = it.dg /\ Further(k).dest = it.dest
<1>1. it \in Iteration /\ k + 1 \in Nat
  BY SMT DEF TypeOK, Iteration, K
<1>2. Further(k) \in Iteration
  BY <1>1 DEF Iteration, Further
<1> QED BY <1>1, <1>2 DEF Iteration, Further

\* The datagram in hand is fit to be carried over.
LEMMA InHand ==
  ASSUME IInv
  PROVE  it.dg # None =>
           it.dest # None /\ (it.dg.peer # None => it.dest = it.dg.peer /\ flow[it.dg.port] = FlowOf(it.dg.peer))
BY DEF IInv, HandInv, FlowInv, Agrees

\* The loop over the elements that are not connected tries the next one.
LEMMA ReconnectStep ==
  ASSUME IInv, Reconnect
  PROVE  IInv'
<1> DEFINE L == {k \in 1..Len(configs) : /\ IsSocks(k) /\ Referenced(configs[k].id)
                                         /\ pc = "timeout" => ~configs[k].udp_connected}
<1>1. TypeOK /\ it.i \in Nat
  BY DEF IInv, TypeOK
<1>2. pc \in {"init", "timeout"} /\ UNCHANGED <<apiVars, flow, back, inbox>>
  BY DEF Reconnect, clientVars
<1>3. CASE Top /\ UNCHANGED <<configs, open, eof, replies>>
  BY <1>1, <1>2, <1>3, TopStep DEF netVars, TypeOK
<1>4. CASE \E k \in First(L) : Establish(k, FALSE, pc, Further(k))
  <2>1. PICK k \in First(L) : Establish(k, FALSE, pc, Further(k))
    BY <1>4
  <2>2. k \in K /\ k >= it.i /\ (pc = "timeout" => ~configs[k].udp_connected)
    BY DEF First, K
  <2>3. pc = "init" => \A j \in K : j >= it.i => ~configs[j].udp_connected
    BY DEF IInv, SlotInv, At
  <2>4. Prepared(k, pc, Further(k))
    <3>1. k \in Nat
      BY SMT, <2>2 DEF K
    <3>2. \A j \in K : j >= k + 1 => j >= it.i
      BY SMT, <1>1, <2>2, <3>1 DEF K
    <3> QED BY SMT, <1>1, <1>2, <2>2, <2>3, <3>1, <3>2, FurtherFields, InHand
               DEF Prepared, Loops, Sending
  <2> QED BY <1>1, <1>2, <2>1, <2>2, <2>3, <2>4, EstablishInv DEF Loops, TypeOK
<1> QED BY <1>3, <1>4 DEF Reconnect

\* What the thread that waits for the proxy knows.
LEMMA InProgress ==
  ASSUME IInv, pc = "assoc", UNCHANGED <<flow, inbox>>
  PROVE  /\ assoc.slot \in K /\ ctrl(assoc.slot) = None /\ send(assoc.slot) = None
         /\ ~configs[assoc.slot].udp_connected /\ assoc.sock \in Handles
         /\ assoc.ret \in Loops \cup Sending
         /\ Prepared(assoc.slot, assoc.ret, it)
<1>1. TypeOK /\ it \in Iteration
  BY DEF IInv, TypeOK, Iteration
<1>2. /\ assoc.slot \in K /\ ctrl(assoc.slot) = None /\ send(assoc.slot) = None
      /\ ~configs[assoc.slot].udp_connected /\ assoc.sock \in Handles
      /\ assoc.ret \in Loops \cup Sending /\ (assoc.ret \in Loops => assoc.slot < it.i)
  BY DEF IInv, SlotInv, TypeOK, Loops, Sending
<1>3. assoc.ret = "init" => \A j \in K : j >= it.i => ~configs[j].udp_connected
  BY DEF IInv, SlotInv, At
<1>4. assoc.ret = "control" => /\ it.replaced /\ (\A f \in it.relay : inbox[f] # None)
                               /\ \A j \in K : j >= it.i => Ends(j)
  BY DEF IInv, ReadyInv, InboxInv, At
<1>5. /\ assoc.ret \in Sending => it.dg # None /\ (it.dg.peer # None => Routed(assoc.slot))
      /\ assoc.ret = "send" => it.replaced
  BY DEF IInv, HandInv, ReadyInv, At
<1> QED BY <1>1, <1>2, <1>3, <1>4, <1>5, InHand DEF Prepared, Ends, Routed

\* The proxy grants the association.
LEMMA AssociatedStep ==
  ASSUME IInv, Associated
  PROVE  IInv'
<1>1. /\ TypeOK /\ OwnInv /\ NetInv /\ FlowInv /\ IdInv
      /\ pc = "assoc" /\ UNCHANGED <<apiVars, flow, inbox, back>>
  BY DEF IInv, Associated, clientVars
<1>0. PICK k \in K : k = assoc.slot
  BY <1>1, InProgress
<1>2. /\ k \in K /\ ctrl(k) = None /\ send(k) = None
      /\ ~configs[k].udp_connected /\ assoc.sock \in Handles
      /\ assoc.ret \in Loops \cup Sending /\ Prepared(k, assoc.ret, it)
  BY <1>0, <1>1, InProgress
<1>3. PICK h \in Fresh(open) :
         /\ configs' = [configs EXCEPT ![k].udp_tcp_ctrl = assoc.sock, ![k].udp_send_sock = h,
                                       ![k].udp_connected = TRUE, ![k].udp_relay_addr = assoc.target]
         /\ Sockets({}, {h})
  BY <1>0 DEF Associated
<1>4. /\ it' = it /\ pc' = assoc.ret /\ assoc'.sock = None
      /\ \/ assoc.ret \in Loops /\ assoc' = NoAssociation
         \/ assoc.ret \in Sending /\ assoc' = [NoAssociation EXCEPT !.slot = k]
  BY SMT, <1>0 DEF Associated, Return, Goto, Loops, Sending, NoAssociation
<1>5. h \in Handles \ open /\ assoc.sock # None
  BY <1>2, NewHandle, UdpRelayAssumption
<1>6. Stores(k, assoc.sock, h, TRUE)
  <2> DEFINE e == [configs[k] EXCEPT !.udp_tcp_ctrl = assoc.sock, !.udp_send_sock = h,
                                     !.udp_connected = TRUE, !.udp_relay_addr = assoc.target]
  <2>1. configs \in Seq(ConfigType) /\ configs[k] \in ConfigType /\ assoc.target \in Hosts \cup {None}
    BY <1>1, <1>2, ElementType DEF TypeOK
  <2>2. configs' = [configs EXCEPT ![k] = e]
    BY <1>2, <1>3, <2>1 DEF K
  <2>3. e \in ConfigType /\ e.id = configs[k].id /\ e.udp_tcp_ctrl = assoc.sock
        /\ e.udp_send_sock = h /\ e.udp_connected = TRUE
    BY <1>2, <1>5, <2>1 DEF ConfigType
  <2> HIDE DEF e
  <2> QED BY <1>2, <2>1, <2>2, <2>3, Replaced
<1>7. OwnInv' /\ NetInv' /\ Survive(k)
  BY <1>1, <1>2, <1>3, <1>4, <1>5, <1>6, GrantSockets
<1>8. NetType
  BY <1>1, <1>3, <1>5, SocketsType
<1>9. Changes(k)
  BY <1>6, <1>7, <1>8 DEF Changes, Stores
<1>10. SlotInv' /\ ReadyInv' /\ InboxInv' /\ HandInv' /\ Agrees(it.dg)'
  BY <1>2, <1>4, <1>9, Onward
<1>11. IdInv' /\ FlowInv'
  BY <1>1, <1>9, <1>10, KeepIds, KeepFlow DEF Changes, apiVars
<1>12. TypeOK'
  <2>1. assoc' \in [slot : Nat, sock : Handles \cup {None}, target : Hosts \cup {None},
                    ret : {"top", "init", "timeout", "control", "send", "resend", "send6"}]
    BY SMT, <1>2, <1>4 DEF NoAssociation, K
  <2>2. pc' \in Loops \cup Sending
    BY <1>2, <1>4
  <2> QED BY <1>1, <1>4, <1>9, <2>1, <2>2 DEF TypeOK, Changes, NetType, apiVars, Loops, Sending
<1> QED BY <1>7, <1>10, <1>11, <1>12 DEF IInv

\* The proxy refuses, or the connection fails.
LEMMA NotAssociatedStep ==
  ASSUME IInv, NotAssociated
  PROVE  IInv'
<1>1. /\ TypeOK /\ OwnInv /\ NetInv /\ FlowInv /\ IdInv
      /\ pc = "assoc" /\ UNCHANGED <<configs, apiVars, flow, inbox, back>>
      /\ Sockets({assoc.sock}, {})
  BY DEF IInv, NotAssociated, clientVars
<1>0. PICK k \in K : k = assoc.slot
  BY <1>1, InProgress
<1>2. /\ k \in K /\ assoc.sock \in Handles /\ assoc.sock # None
      /\ assoc.ret \in Loops \cup Sending /\ Prepared(k, assoc.ret, it)
  BY <1>0, <1>1, InProgress, UdpRelayAssumption
<1>3. Refused(assoc.ret, it)
  BY DEF NotAssociated, Return, Refused, Loops, Sending, Top, Goto
<1>4. assoc'.sock = None
  BY <1>3 DEF Refused, NoAssociation
<1>5. OwnInv' /\ NetInv' /\ Survive(k)
  BY <1>1, <1>2, <1>4, FailSocket
<1>6. NetType
  BY SMT, <1>1, <1>2, SocketsType
<1>7. Changes(k)
  BY <1>1, <1>5, <1>6 DEF Changes, TypeOK
<1>8. SlotInv' /\ ReadyInv' /\ InboxInv' /\ HandInv' /\ Agrees(it.dg)'
  <2>1. CASE assoc.ret \in Sending
    BY <1>3, <2>1, AtTop DEF Refused, Loops, Sending
  <2>2. CASE assoc.ret \notin Sending
    BY <1>2, <1>3, <1>7, <2>2, Onward DEF Refused
  <2> QED BY <2>1, <2>2
<1>9. IdInv' /\ FlowInv'
  BY <1>1, <1>8, KeepIds, KeepFlow DEF apiVars
<1>10. TypeOK'
  <2>1. it' \in Iteration
    BY <1>1, <1>3, FirstIteration DEF Refused, TypeOK, Iteration
  <2>2. pc' \in Loops \cup {"top"}
    BY <1>3 DEF Refused
  <2> QED BY <1>1, <1>3, <1>6, <2>1, <2>2
          DEF TypeOK, Refused, NoAssociation, NetType, apiVars, Loops, Iteration
<1> QED BY <1>5, <1>8, <1>9, <1>10 DEF IInv

\* A step that changes no association and goes on with the iteration.
LEMMA Move ==
  ASSUME IInv, pc # "assoc", UNCHANGED <<configs, apiVars, open, netVars, flow, back>>,
         inbox' \in [Families -> Datagrams \cup {None}],
         \A f \in Families : inbox'[f] \in {inbox[f], None},
         it' \in Iteration, assoc' = assoc \/ assoc' = NoAssociation, Agrees(it.dg)',
         pc' \in {"timeout", "control", "client", "lookup", "proxy", "client6"},
         ReadyInv', InboxInv',
         it'.dg # None => it'.dest # None /\ (it'.dg.peer # None => it'.dest = it'.dg.peer),
         pc' = "lookup" => it'.dg # None
  PROVE  IInv'
<1>1. TypeOK /\ OwnInv /\ NetInv /\ FlowInv /\ IdInv /\ assoc.sock = None
  BY DEF IInv, SlotInv
<1>2. assoc'.sock = None
  BY SMT, <1>1 DEF NoAssociation
<1>3. ~At({"init"})' /\ ~At(Sending)'
  BY DEF At, Sending
<1>4. SlotInv'
  BY <1>2, <1>3 DEF SlotInv, Sending
<1>5. OwnInv' /\ NetInv'
  BY <1>1, <1>2, KeepSockets DEF netVars
<1>6. IdInv'
  BY <1>1, KeepIds DEF apiVars
<1>7. FlowInv'
  BY <1>1, KeepFlow
<1>8. HandInv'
  BY <1>3 DEF HandInv
<1>9. TypeOK'
  <2>1. assoc' \in [slot : Nat, sock : Handles \cup {None}, target : Hosts \cup {None},
                    ret : {"top", "init", "timeout", "control", "send", "resend", "send6"}]
    BY SMT, <1>1 DEF TypeOK, NoAssociation
  <2> QED BY <1>1, <2>1 DEF TypeOK, apiVars, netVars, Iteration
<1> QED BY <1>4, <1>5, <1>6, <1>7, <1>8, <1>9 DEF IInv

\* select times out or fails.
LEMMA TimeoutStep ==
  ASSUME IInv, SelectTimeout \/ SelectFails
  PROVE  IInv'
<1>1. /\ TypeOK /\ pc = "top" /\ pc' = "timeout"
      /\ UNCHANGED <<configs, apiVars, open, netVars, flow, back, inbox, it, assoc>>
  BY DEF IInv, SelectTimeout, SelectFails, Goto, clientVars
<1>2. ReadyInv' /\ InboxInv'
  BY <1>1 DEF ReadyInv, InboxInv, At
<1>3. it' \in Iteration /\ inbox' \in [Families -> Datagrams \cup {None}] /\ Agrees(it.dg)'
  BY <1>1 DEF IInv, TypeOK, Iteration, FlowInv, Agrees
<1>4. it'.dg # None => it'.dest # None /\ (it'.dg.peer # None => it'.dest = it'.dg.peer)
  BY <1>1, InHand
<1> QED BY <1>1, <1>2, <1>3, <1>4, Move

\* select reports what is there.
LEMMA SelectStep ==
  ASSUME IInv, Select
  PROVE  IInv'
<1>1. /\ TypeOK /\ pc = "top" /\ pc' = "control"
      /\ it' = [it EXCEPT !.ready = Readable, !.relay = Waiting]
      /\ UNCHANGED <<configs, apiVars, open, eof, replies, flow, back, inbox, assoc>>
  BY DEF IInv, Select, Goto, clientVars, netVars
<1>2. \A k \in K : ctrl(k) \in Handles \cup {None} /\ send(k) \in Handles \cup {None}
  BY <1>1, ElementType DEF TypeOK
<1>3. /\ Readable \in SUBSET Handles /\ Waiting \in SUBSET Families
      /\ \A h \in Readable : h \in eof \/ replies[h] # {}
      /\ \A f \in Waiting : inbox[f] # None
  <2>1. \A k \in K : SocketsOf(k) \subseteq Handles
    BY <1>2 DEF SocketsOf, ctrl, send
  <2>2. \A h \in Readable : h \in Handles /\ (h \in eof \/ replies[h] # {})
    BY <2>1 DEF Readable, K
  <2> QED BY <2>2 DEF Waiting
<1>4. /\ it' \in Iteration /\ it'.i = it.i /\ it'.dg = it.dg /\ it'.dest = it.dest
      /\ it'.ready = Readable /\ it'.relay = Waiting
  <2>1. it \in Iteration
    BY <1>1 DEF TypeOK, Iteration
  <2> QED BY <1>1, <1>3, <2>1 DEF Iteration
<1>5. ReadyInv'
  <2>1. it'.i = 1
    BY <1>1, <1>4 DEF IInv, ReadyInv
  <2>2. K' = K /\ \A k \in K : ctrl(k)' = ctrl(k) /\ send(k)' = send(k)
    BY <1>1 DEF K, ctrl, send
  <2>3. \A k \in K : Ends(k)'
    BY <1>1, <1>3, <1>4, <2>2 DEF IInv, OwnInv, NetInv, Ends
  <2>4. \A k \in K : Speaks(k)'
    BY <1>1, <1>3, <1>4, <2>2 DEF IInv, OwnInv, NetInv, Speaks
  <2> QED BY <1>1, <2>1, <2>2, <2>3, <2>4 DEF ReadyInv, At
<1>6. InboxInv'
  BY <1>1, <1>3, <1>4 DEF InboxInv
<1>7. inbox' \in [Families -> Datagrams \cup {None}] /\ Agrees(it.dg)'
  BY <1>1, <1>4 DEF IInv, TypeOK, FlowInv, Agrees
<1>8. it'.dg # None => it'.dest # None /\ (it'.dg.peer # None => it'.dest = it'.dg.peer)
  BY <1>4, InHand
<1> QED BY <1>1, <1>4, <1>5, <1>6, <1>7, <1>8, Move DEF netVars

\* The thread ends, and closes what is open.
LEMMA ExitStep ==
  ASSUME IInv, Exit
  PROVE  IInv'
<1> DEFINE all == UNION {SocketsOf(k) : k \in 1..Len(configs)}
<1>1. /\ TypeOK /\ pc = "top" /\ pc' = "exit" /\ Sockets(all, {}) /\ assoc.sock = None
      /\ configs' = [k \in 1..Len(configs) |-> Cut(k, FALSE)[k]]
      /\ UNCHANGED <<apiVars, flow, back, inbox, it, assoc>>
  BY DEF IInv, Exit, Goto, clientVars, SlotInv
<1>2. /\ configs' \in Seq(ConfigType) /\ Len(configs') = Len(configs)
      /\ \A k \in K : /\ configs'[k].udp_tcp_ctrl = None /\ configs'[k].udp_send_sock = None
                      /\ ~configs'[k].udp_connected /\ configs'[k].id = configs[k].id
  <2> DEFINE e(k) == [configs[k] EXCEPT !.udp_tcp_ctrl = None, !.udp_send_sock = None,
                                        !.udp_relay_addr = None, !.udp_connected = @ /\ FALSE]
  <2>1. Len(configs) \in Nat /\ K = 1..Len(configs)
    BY SMT, <1>1 DEF TypeOK, K
  <2>2. \A k \in K : configs[k] \in ConfigType
    BY <1>1, ElementType DEF TypeOK
  <2>3. \A k \in K : Cut(k, FALSE)[k] = e(k)
    <3> SUFFICES ASSUME NEW k \in K PROVE Cut(k, FALSE)[k] = e(k)
      OBVIOUS
    <3>1. k \in DOMAIN configs
      BY SMT, <1>1, <2>1 DEF TypeOK
    <3>2. Cut(k, FALSE) = [configs EXCEPT ![k] = e(k)]
      BY <3>1, Zenon DEF Cut
    <3> HIDE DEF e
    <3> QED BY <3>1, <3>2, Zenon
  <2>4. \A k \in K : e(k) \in ConfigType
    BY <2>2 DEF ConfigType
  <2>5. \A k \in K : /\ e(k).udp_tcp_ctrl = None /\ e(k).udp_send_sock = None
                     /\ ~e(k).udp_connected /\ e(k).id = configs[k].id
    BY <2>2 DEF ConfigType
  <2> HIDE DEF e
  <2>6. configs' = [k \in 1..Len(configs) |-> e(k)]
    BY <1>1, <2>1, <2>3
  <2>7. configs' \in Seq(ConfigType) /\ Len(configs') = Len(configs)
    BY SMT, <2>1, <2>4, <2>6
  <2> QED BY <2>1, <2>5, <2>6, <2>7
<1>3. K' = K /\ \A k \in K : ctrl(k)' = None /\ send(k)' = None
  BY <1>2 DEF K, ctrl, send
<1>4. /\ all \in SUBSET Handles /\ None \notin Handles
      /\ \A h \in Handles : h \in all <=> \E k \in K : h \in {ctrl(k), send(k)}
  <2>1. \A k \in K : ctrl(k) \in Handles \cup {None} /\ send(k) \in Handles \cup {None}
    BY <1>1, ElementType DEF TypeOK
  <2>2. \A h : h \in all <=> \E k \in K : h \in SocketsOf(k)
    BY DEF K
  <2>3. \A k \in K : SocketsOf(k) = {ctrl(k), send(k)} \ {None}
    BY DEF SocketsOf, ctrl, send
  <2> HIDE DEF all
  <2> QED BY SMT, <2>1, <2>2, <2>3, UdpRelayAssumption
<1> HIDE DEF all
<1>5. open' = {} /\ eof' = {} /\ replies' \in [Handles -> {{}}]
  <2>1. open \subseteq all
    BY SMTT(30), <1>1, <1>4, UdpRelayAssumption DEF IInv, TypeOK, OwnInv
  <2>2. \A h \in Handles \ all : h \notin eof /\ replies[h] = {}
    BY <1>1, <1>4 DEF IInv, OwnInv, NetInv
  <2> QED BY <1>1, <2>1, <2>2 DEF Sockets, TypeOK
<1>6. OwnInv' /\ NetInv'
  <2>1. OwnInv'
    BY <1>1, <1>2, <1>3, <1>4, <1>5 DEF OwnInv
  <2>2. NetInv'
    BY <1>1, <1>3, <1>5 DEF NetInv
  <2> QED BY <2>1, <2>2
<1>7. ~At({"init"})' /\ ~At({"control"})' /\ ~At({"send"})' /\ ~At(Sending)'
  BY <1>1 DEF At, Sending
<1>8. SlotInv'
  BY <1>1, <1>3, <1>7 DEF SlotInv, Sending
<1>9. ReadyInv' /\ InboxInv'
  BY <1>1, <1>7 DEF ReadyInv, InboxInv
<1>10. FlowInv'
  BY <1>1 DEF IInv, FlowInv, Agrees
<1>11. IdInv'
  BY <1>1, <1>2, KeepIds DEF IInv, apiVars
<1>12. HandInv'
  BY <1>1, <1>7 DEF IInv, HandInv
<1>13. TypeOK'
  BY <1>1, <1>2, <1>5 DEF TypeOK, apiVars
<1> QED BY <1>6, <1>8, <1>9, <1>10, <1>11, <1>12, <1>13 DEF IInv

\* A control connection that select reported has been closed by the proxy.
LEMMA ControlStep ==
  ASSUME IInv, Control
  PROVE  IInv'
<1>1. /\ TypeOK /\ it \in Iteration /\ it.i \in Nat /\ pc = "control" /\ At({"control"})
      /\ UNCHANGED <<apiVars, flow, back, inbox>>
  BY DEF IInv, TypeOK, Iteration, Control, clientVars, At
<1>2. inbox' \in [Families -> Datagrams \cup {None}]
  BY <1>1 DEF TypeOK
<1>3. CASE /\ ~it.replaced /\ Goto("client") /\ it' = [it EXCEPT !.i = 1]
           /\ UNCHANGED <<configs, open, eof, replies, assoc>>
  <2>1. /\ it' \in Iteration /\ it'.i = 1 /\ it'.ready = it.ready /\ it'.relay = it.relay
        /\ it'.replaced = it.replaced /\ it'.dg = it.dg /\ it'.dest = it.dest /\ pc' = "client"
    BY <1>1, <1>3 DEF Iteration, Goto
  <2>2. it.i = 1 /\ \A k \in K : k >= it.i => Speaks(k)
    BY <1>1, <1>3 DEF IInv, ReadyInv
  <2>3. \A k \in K' : k >= it'.i => Speaks(k)'
    BY <1>3, <2>1, <2>2 DEF Speaks, K, send
  <2>4. ReadyInv'
    BY <1>3, <2>1, <2>3 DEF ReadyInv, At
  <2>5. InboxInv'
    BY <1>1, <2>1 DEF IInv, InboxInv
  <2>6. Agrees(it.dg)'
    BY <1>1, <2>1 DEF IInv, FlowInv, Agrees
  <2>7. it'.dg # None => it'.dest # None /\ (it'.dg.peer # None => it'.dest = it'.dg.peer)
    BY <2>1, InHand
  <2> QED BY <1>1, <1>2, <1>3, <2>1, <2>4, <2>5, <2>6, <2>7, Move DEF netVars
<1>4. CASE Top /\ UNCHANGED <<configs, open, eof, replies>>
  BY <1>1, <1>2, <1>4, TopStep DEF netVars
<1>5. CASE \E k \in First(ControlsReported) : ControlOf(k)
  <2>1. PICK k \in First(ControlsReported) : ControlOf(k)
    BY <1>5
  <2>2. k \in K /\ k >= it.i /\ configs[k].udp_connected /\ ctrl(k) \in it.ready
    BY DEF First, ControlsReported, K, ctrl
  <2>3. \A j \in K : j >= it.i => Ends(j)
    BY <1>1 DEF IInv, ReadyInv
  <2>4. ctrl(k) \in eof
    BY <2>2, <2>3 DEF Ends
  <2> DEFINE t == [Further(k) EXCEPT !.replaced = TRUE]
  <2>5. Establish(k, TRUE, "control", t)
    BY <2>1, <2>4 DEF ControlOf, ctrl
  <2>6. /\ t \in Iteration /\ t.i = k + 1 /\ t.ready = it.ready /\ t.relay = it.relay
        /\ t.replaced = TRUE /\ t.dg = it.dg /\ t.dest = it.dest
    BY <1>1, <2>2, FurtherFields DEF Iteration
  <2> HIDE DEF t
  <2>7. k \in Nat /\ \A j \in K : j >= k + 1 => j >= it.i
    BY SMT, <1>1, <2>2 DEF K
  <2>8. \A f \in it.relay : inbox[f] # None
    BY <1>1 DEF IInv, InboxInv
  <2>9. Prepared(k, "control", t)
    BY SMT, <1>1, <2>3, <2>6, <2>7, <2>8, InHand DEF Prepared, Sending, Ends
  <2> QED BY <1>1, <1>2, <2>2, <2>5, <2>9, EstablishInv DEF Loops
<1> QED BY <1>3, <1>4, <1>5 DEF Control

\* The index that find_proxy_config returns.
LEMMA Finds ==
  ASSUME configs \in Seq(ConfigType), IdInv, NEW id, IsSocks(find_proxy_config(id))
  PROVE  /\ find_proxy_config(id) \in K
         /\ (\E j \in K : configs[j].id = id) => configs[find_proxy_config(id)].id = id
<1> DEFINE hit == {k \in 1..Len(configs) : configs[k].id = id}
           least(k) == k \in hit /\ \A j \in hit : k <= j
<1>1. CASE hit # {}
  <2>1. PICK i \in hit : TRUE
    BY <1>1
  <2>2. i \in K /\ \A j \in hit : j = i
    BY <2>1 DEF IdInv, K
  <2>3. least(i)
    BY SMT, <2>1, <2>2 DEF K
  <2>4. least(CHOOSE k \in hit : \A j \in hit : k <= j)
    BY <2>1, <2>3
  <2>5. find_proxy_config(id) = CHOOSE k \in hit : \A j \in hit : k <= j
    BY <1>1 DEF find_proxy_config
  <2> QED BY <2>4, <2>5 DEF K
<1>2. CASE hit = {}
  <2>1. find_proxy_config(id) = (IF configs # <<>> THEN 1 ELSE 0)
    BY <1>2 DEF find_proxy_config
  <2>2. configs # <<>> /\ find_proxy_config(id) = 1
    BY <2>1 DEF IsSocks
  <2>3. Len(configs) \in Nat /\ Len(configs) # 0
    BY SMT, <2>2
  <2> QED BY SMT, <1>2, <2>2, <2>3 DEF K
<1> QED BY <1>1, <1>2

\* A datagram is sent over element k, or a new association asked for.
LEMMA SendToStep ==
  ASSUME IInv, NEW k \in K, SendTo(k), pc \in {"lookup", "send"}, it.dg # None,
         it.dg.peer # None => Routed(k), UNCHANGED <<apiVars, clientVars>>
  PROVE  IInv'
<1>1. /\ TypeOK /\ it \in Iteration /\ UNCHANGED <<apiVars, flow, back, inbox>>
      /\ inbox' \in [Families -> Datagrams \cup {None}]
  BY DEF IInv, TypeOK, Iteration, clientVars
<1>2. CASE /\ it.replaced /\ Top
           /\ UNCHANGED <<configs, open, eof, replies>>
  BY <1>1, <1>2, TopStep DEF netVars
<1>3. CASE /\ ~it.replaced /\ Goto("proxy") /\ it' = [it EXCEPT !.dg = None, !.dest = None]
           /\ assoc' = NoAssociation
           /\ UNCHANGED <<configs, open, eof, replies>>
  <2>1. /\ it' \in Iteration /\ it'.i = it.i /\ it'.ready = it.ready /\ it'.relay = it.relay
        /\ it'.replaced = it.replaced /\ it'.dg = None /\ pc' = "proxy"
    BY <1>1, <1>3 DEF Iteration, Goto
  <2>2. pc = "lookup"
    BY <1>3 DEF IInv, ReadyInv, At
  <2>3. \A j \in K : j >= it.i => Speaks(j)
    BY <1>3, <2>2 DEF IInv, ReadyInv
  <2>4. \A j \in K' : j >= it'.i => Speaks(j)'
    BY <1>3, <2>1, <2>3 DEF Speaks, K, send
  <2>5. ReadyInv'
    BY <1>3, <2>1, <2>4 DEF ReadyInv, At
  <2>6. InboxInv'
    BY <1>1, <2>1, <2>2 DEF IInv, InboxInv, At
  <2>7. Agrees(it.dg)'
    BY <2>1 DEF Agrees
  <2> QED BY <1>1, <1>3, <2>1, <2>5, <2>6, <2>7, Move DEF netVars
<1>4. CASE Establish(k, TRUE, "resend", it)
  <2>1. Prepared(k, "resend", it)
    BY <1>1, InHand DEF Prepared, Loops, Sending, Routed
  <2> QED BY <1>1, <1>4, <2>1, EstablishInv DEF Sending
<1> QED BY <1>2, <1>3, <1>4 DEF SendTo

\* The configuration that the look-up of the datagram in hand finds is the one
\* the rules name, if there is one with that id.
LEMMA LooksUp ==
  ASSUME IInv, pc = "lookup", NEW id,
         id = IF flow[it.dg.port] = None THEN 0 ELSE flow[it.dg.port].cfg,
         IsSocks(find_proxy_config(id))
  PROVE  \E k \in K : k = find_proxy_config(id) /\ (it.dg.peer # None => Routed(k))
<1>1. it.dg # None /\ it.dg \in Datagrams /\ IdInv /\ configs \in Seq(ConfigType)
  BY DEF IInv, TypeOK, HandInv
<1>2. it.dg.peer # None => id = Decide[it.dest]
  <2> SUFFICES ASSUME it.dg.peer # None PROVE id = Decide[it.dest]
    OBVIOUS
  <2> DEFINE f == flow[it.dg.port]
  <2>1. f = FlowOf(it.dg.peer) /\ it.dest = it.dg.peer
    BY <1>1, InHand
  <2>2. it.dg.peer \in Dests /\ Decide[it.dg.peer] \in Nat
    BY <1>1, UdpRelayAssumption DEF Datagrams
  <2>3. f \in [dst : Dests, cfg : Nat] /\ f.cfg = Decide[it.dg.peer]
    BY SMT, <2>1, <2>2 DEF FlowOf
  <2>4. f # None
    BY <2>3, UdpRelayAssumption
  <2> QED BY <2>1, <2>3, <2>4
<1> QED BY <1>1, <1>2, Finds DEF Routed

\* The second look-up of a datagram: it finds the configuration of the flow.
LEMMA LookupStep ==
  ASSUME IInv, Lookup
  PROVE  IInv'
<1> DEFINE id == IF flow[it.dg.port] = None THEN 0 ELSE flow[it.dg.port].cfg
<1>1. /\ TypeOK /\ it \in Iteration /\ pc = "lookup" /\ it.dg # None /\ it.dg \in Datagrams
      /\ UNCHANGED <<apiVars, flow, back, inbox>>
      /\ inbox' \in [Families -> Datagrams \cup {None}]
  BY DEF IInv, TypeOK, Iteration, Lookup, clientVars, HandInv
<1>2. ASSUME IsSocks(find_proxy_config(id))
      PROVE  \E k \in K : k = find_proxy_config(id) /\ (it.dg.peer # None => Routed(k))
  BY <1>1, <1>2, LooksUp
<1> HIDE DEF id
<1>3. CASE /\ ~IsSocks(find_proxy_config(id)) /\ Top
           /\ UNCHANGED <<configs, open, eof, replies>>
  BY <1>1, <1>3, TopStep DEF netVars
<1>4. CASE IsSocks(find_proxy_config(id)) /\ SendTo(find_proxy_config(id))
  <2>1. PICK k \in K : k = find_proxy_config(id) /\ (it.dg.peer # None => Routed(k))
    BY <1>2, <1>4
  <2>2. SendTo(k)
    BY <1>4, <2>1
  <2>3. UNCHANGED <<apiVars, clientVars>>
    BY DEF Lookup
  <2> QED BY <1>1, <2>1, <2>2, <2>3, SendToStep
<1>5. CASE /\ IsSocks(find_proxy_config(id)) /\ ~configs[find_proxy_config(id)].udp_connected
           /\ Establish(find_proxy_config(id), FALSE, "send", [it EXCEPT !.replaced = TRUE])
  <2>1. PICK k \in K : k = find_proxy_config(id) /\ (it.dg.peer # None => Routed(k))
    BY <1>2, <1>5
  <2> DEFINE t == [it EXCEPT !.replaced = TRUE]
  <2>2. t \in Iteration /\ t.replaced /\ t.dg = it.dg /\ t.dest = it.dest
    BY <1>1 DEF Iteration
  <2>3. ~configs[k].udp_connected /\ Establish(k, FALSE, "send", t)
    BY <1>5, <2>1
  <2> HIDE DEF t
  <2>4. Prepared(k, "send", t)
    BY <1>1, <2>1, <2>2, InHand DEF Prepared, Loops, Sending, Routed
  <2> QED BY <1>1, <2>3, <2>4, EstablishInv DEF Sending
<1> QED BY <1>3, <1>4, <1>5 DEF Lookup, id

\* The datagram in hand is sent to the proxy, or sent again after the
\* association was made anew.
LEMMA SendStep ==
  ASSUME IInv, Send \/ Resend
  PROVE  IInv'
<1>1. TypeOK /\ UNCHANGED <<apiVars, clientVars>>
  BY DEF IInv, Send, Resend
<1>2. CASE Send
  <2>1. PICK k \in K : k = assoc.slot
    BY <1>2 DEF IInv, SlotInv, Send, Sending
  <2>2. SendTo(k) /\ pc = "send"
    BY <1>2, <2>1 DEF Send
  <2>3. it.dg # None /\ (it.dg.peer # None => Routed(k))
    BY <2>1, <2>2 DEF IInv, HandInv, At, Sending
  <2> QED BY <1>1, <2>2, <2>3, SendToStep
<1>3. CASE Resend
  <2>1. pc # "assoc" /\ Top /\ UNCHANGED <<configs, open, netVars>>
    BY <1>3 DEF Resend
  <2>2. inbox' \in [Families -> Datagrams \cup {None}]
    BY <1>1 DEF TypeOK, clientVars
  <2> QED BY <1>1, <2>1, <2>2, TopStep DEF clientVars
<1> QED BY <1>2, <1>3

\* A datagram that waits in a relay socket, and the flow of its port.
LEMMA Received ==
  ASSUME IInv, NEW f \in Families, inbox[f] # None, flow[inbox[f].port] # None
  PROVE  /\ inbox[f] \in Datagrams /\ flow[inbox[f].port] \in Flows
         /\ flow[inbox[f].port].dst \in Dests /\ flow[inbox[f].port].dst # None
         /\ inbox[f].peer # None => /\ flow[inbox[f].port] = FlowOf(inbox[f].peer)
                                    /\ flow[inbox[f].port].dst = inbox[f].peer
                                    /\ flow[inbox[f].port].cfg = Decide[inbox[f].peer]
<1>1. inbox[f] \in Datagrams
  BY DEF IInv, TypeOK
<1>2. flow[inbox[f].port] \in Flows
  <2>1. inbox[f].port \in Ports
    BY <1>1 DEF Datagrams
  <2> QED BY <2>1 DEF IInv, TypeOK
<1>3. flow[inbox[f].port].dst \in Dests /\ flow[inbox[f].port].dst # None
  BY <1>2, UdpRelayAssumption DEF Flows
<1>4. inbox[f].peer # None => flow[inbox[f].port] = FlowOf(inbox[f].peer)
  BY DEF IInv, FlowInv, Agrees
<1> QED BY SMT, <1>1, <1>2, <1>3, <1>4 DEF FlowOf

\* A relay socket is read.
LEMMA Take ==
  ASSUME TypeOK, NEW f \in Families, inbox' = [inbox EXCEPT ![f] = None]
  PROVE  /\ inbox' \in [Families -> Datagrams \cup {None}]
         /\ \A g \in Families : inbox'[g] \in {inbox[g], None} /\ (g # f => inbox'[g] = inbox[g])
BY DEF TypeOK

\* A datagram is received on the IPv4 socket.
LEMMA ClientStep ==
  ASSUME IInv, Client
  PROVE  IInv'
<1> DEFINE q == inbox["v4"]
<1>1. /\ TypeOK /\ it \in Iteration /\ pc = "client"
      /\ UNCHANGED <<configs, apiVars, flow, back, open, eof, replies>>
  BY DEF IInv, TypeOK, Iteration, Client, netVars
<1>2. /\ inbox' \in [Families -> Datagrams \cup {None}] /\ inbox'["v6"] = inbox["v6"]
      /\ \A f \in Families : inbox'[f] \in {inbox[f], None}
  <2>1. CASE inbox' = inbox
    BY <1>1, <2>1 DEF TypeOK
  <2>2. CASE inbox' = [inbox EXCEPT !["v4"] = None]
    BY <1>1, <2>2, Take DEF Families
  <2> QED BY <2>1, <2>2 DEF Client
<1>3. \A f \in it.relay : inbox[f] # None
  BY <1>1 DEF IInv, InboxInv
<1>4. ~it.replaced /\ it.i = 1 /\ \A j \in K : j >= it.i => Speaks(j)
  BY <1>1 DEF IInv, ReadyInv
<1>5. ASSUME it'.i = it.i, it'.ready = it.ready, it'.replaced = it.replaced, it'.relay = it.relay,
             pc' \in {"proxy", "lookup"}
      PROVE  ReadyInv' /\ InboxInv'
  <2>1. \A j \in K' : j >= it'.i => Speaks(j)'
    BY <1>1, <1>4, <1>5 DEF Speaks, K, send
  <2>2. ReadyInv'
    BY <1>4, <1>5, <2>1 DEF ReadyInv, At
  <2>3. InboxInv'
    BY <1>2, <1>3, <1>5 DEF InboxInv, At
  <2> QED BY <2>2, <2>3
<1>6. CASE Goto("proxy") /\ UNCHANGED <<it, assoc>>
  <2>1. ReadyInv' /\ InboxInv' /\ pc' = "proxy"
    BY <1>5, <1>6 DEF Goto
  <2>2. Agrees(it.dg)'
    BY <1>1, <1>6 DEF IInv, FlowInv, Agrees
  <2>3. it'.dg # None => it'.dest # None /\ (it'.dg.peer # None => it'.dest = it'.dg.peer)
    BY <1>6, InHand
  <2> QED BY <1>1, <1>2, <1>6, <2>1, <2>2, <2>3, Move DEF netVars
<1>7. CASE Top
  BY <1>1, <1>2, <1>7, TopStep DEF netVars
<1>8. CASE /\ "v4" \in it.relay /\ flow[q.port] # None
           /\ it' = [it EXCEPT !.dg = q, !.dest = flow[q.port].dst]
           /\ Goto("lookup") /\ UNCHANGED assoc
  <2>1. /\ q # None /\ q \in Datagrams /\ flow[q.port].dst \in Dests /\ flow[q.port].dst # None
        /\ q.peer # None => flow[q.port] = FlowOf(q.peer) /\ flow[q.port].dst = q.peer
    BY <1>3, <1>8, Received DEF Families
  <2> HIDE DEF q
  <2>2. /\ it' \in Iteration /\ it'.i = it.i /\ it'.ready = it.ready /\ it'.relay = it.relay
        /\ it'.replaced = it.replaced /\ it'.dg = q /\ it'.dest = flow[q.port].dst /\ pc' = "lookup"
    BY <1>1, <1>8, <2>1 DEF Iteration, Goto
  <2>3. ReadyInv' /\ InboxInv'
    BY <1>5, <2>2
  <2>4. Agrees(it.dg)'
    BY <1>1, <2>1, <2>2 DEF Agrees, FlowOf
  <2> QED BY <1>1, <1>2, <1>8, <2>1, <2>2, <2>3, <2>4, Move DEF netVars
<1> QED BY <1>6, <1>7, <1>8 DEF Client

\* A datagram of IPv6 is looked up once.
LEMMA Client6Step ==
  ASSUME IInv, Client6
  PROVE  IInv'
<1> DEFINE q == inbox["v6"]
           t == [it EXCEPT !.dg = q, !.dest = flow[q.port].dst]
           c == find_proxy_config(flow[q.port].cfg)
<1>1. /\ TypeOK /\ it \in Iteration /\ pc = "client6" /\ IdInv /\ assoc.sock = None
      /\ UNCHANGED <<apiVars, flow, back>>
  BY DEF IInv, TypeOK, Iteration, Client6, SlotInv
<1>2. /\ inbox' \in [Families -> Datagrams \cup {None}]
      /\ \A f \in Families : inbox'[f] \in {inbox[f], None}
  <2>1. CASE inbox' = inbox
    BY <1>1, <2>1 DEF TypeOK
  <2>2. CASE inbox' = [inbox EXCEPT !["v6"] = None]
    BY <1>1, <2>2, Take DEF Families
  <2> QED BY <2>1, <2>2 DEF Client6
<1>3. CASE Top /\ UNCHANGED <<configs, open, eof, replies>>
  BY <1>1, <1>2, <1>3, TopStep DEF netVars
<1>4. CASE /\ "v6" \in it.relay /\ flow[q.port] # None /\ IsSocks(c)
           /\ IF configs[c].udp_connected
              THEN Return(c, "send6", t, TRUE) /\ UNCHANGED <<configs, open, eof, replies>>
              ELSE Establish(c, FALSE, "send6", t)
  <2>1. q # None
    BY <1>1, <1>4 DEF IInv, InboxInv
  <2>2. /\ q \in Datagrams /\ flow[q.port] \in Flows /\ flow[q.port].dst \in Dests
        /\ flow[q.port].dst # None
        /\ q.peer # None => /\ flow[q.port] = FlowOf(q.peer) /\ flow[q.port].dst = q.peer
                            /\ flow[q.port].cfg = Decide[q.peer]
    BY <1>4, <2>1, Received DEF Families
  <2>3. t \in Iteration /\ t.dg = q /\ t.dest = flow[q.port].dst
    <3> HIDE DEF q
    <3> QED BY <1>1, <2>2 DEF Iteration
  <2>4. PICK k \in K : /\ k = c
                       /\ (\E j \in K : configs[j].id = flow[q.port].cfg)
                            => configs[k].id = flow[q.port].cfg
    BY <1>1, <1>4, Finds DEF TypeOK
  <2> HIDE DEF t, q, c
  <2>5. Prepared(k, "send6", t)
    BY <1>1, <2>1, <2>2, <2>3, <2>4 DEF Prepared, Loops, Sending
  <2>6. CASE ~configs[k].udp_connected /\ Establish(k, FALSE, "send6", t)
    BY <1>1, <1>2, <2>5, <2>6, EstablishInv DEF Sending
  <2>7. CASE Return(k, "send6", t, TRUE) /\ UNCHANGED <<configs, open, eof, replies>>
    <3>1. pc' = "send6" /\ it' = t /\ assoc' = [NoAssociation EXCEPT !.slot = k]
      BY <2>7 DEF Return, Goto
    <3>2. assoc'.sock = None
      BY <3>1 DEF NoAssociation
    <3>3. OwnInv' /\ NetInv'
      BY <1>1, <2>7, <3>2, KeepSockets DEF IInv
    <3>4. Changes(k)
      BY <1>1, <2>7, <3>3 DEF Changes, Survive, NetType, TypeOK
    <3>5. SlotInv' /\ ReadyInv' /\ InboxInv' /\ HandInv' /\ Agrees(it.dg)'
      BY <2>5, <3>1, <3>4, Onward DEF Sending
    <3>6. IdInv' /\ FlowInv'
      BY <1>1, <1>2, <2>7, <3>5, KeepIds, KeepFlow DEF IInv, apiVars
    <3>7. TypeOK'
      <4>1. assoc' \in [slot : Nat, sock : Handles \cup {None}, target : Hosts \cup {None},
                        ret : {"top", "init", "timeout", "control", "send", "resend", "send6"}]
        BY SMT, <3>1 DEF NoAssociation, K
      <4> QED BY <1>1, <1>2, <2>3, <2>7, <3>1, <4>1 DEF TypeOK, apiVars, Iteration
    <3> QED BY <3>3, <3>5, <3>6, <3>7 DEF IInv
  <2> QED BY <1>4, <2>4, <2>6, <2>7
<1> QED BY <1>3, <1>4 DEF Client6

\* The loop over the proxies' sockets goes on behind element k.
LEMMA NextSocket ==
  ASSUME IInv, pc = "proxy", NEW k \in K, k >= it.i, it' = Further(k),
         UNCHANGED <<pc, assoc, nextId, flow, inbox>>, Len(configs') = Len(configs),
         \A j \in K : configs'[j].id = configs[j].id /\ (j # k => configs'[j] = configs[j]),
         \A j \in K : j # k /\ send(j) # None /\ replies[send(j)] # {} => replies'[send(j)] # {}
  PROVE  SlotInv' /\ ReadyInv' /\ InboxInv' /\ IdInv' /\ HandInv' /\ Agrees(it.dg)'
<1>1. /\ it' \in Iteration /\ it'.i = k + 1 /\ it'.ready = it.ready /\ it'.relay = it.relay
      /\ it'.replaced = it.replaced /\ it'.dg = it.dg /\ it'.dest = it.dest
  BY FurtherFields DEF IInv
<1>2. ~At({"init"})' /\ ~At({"control"})' /\ ~At({"send"})' /\ ~At(Sending)'
  BY DEF At, Sending
<1>3. IdInv' /\ K' = K
  BY KeepIds DEF IInv
<1>4. SlotInv'
  BY <1>2 DEF IInv, SlotInv, Sending
<1>5. ReadyInv'
  <2>1. ~it.replaced /\ \A j \in K : j >= it.i => Speaks(j)
    BY DEF IInv, ReadyInv
  <2>2. k \in Nat /\ it.i \in Nat /\ \A j \in K : j >= k + 1 => j >= it.i /\ j # k
    BY SMT DEF IInv, TypeOK, K
  <2>3. \A j \in K' : j >= it'.i => Speaks(j)'
    <3> SUFFICES ASSUME NEW j \in K', j >= it'.i PROVE Speaks(j)'
      OBVIOUS
    <3>1. j \in K /\ j >= it.i /\ j # k /\ Speaks(j) /\ configs'[j] = configs[j] /\ send(j)' = send(j)
      BY <1>1, <1>3, <2>1, <2>2 DEF send
    <3>2. configs[j].udp_connected => send(j) # None
      BY <3>1 DEF IInv, OwnInv
    <3> QED BY <1>1, <3>1, <3>2 DEF Speaks
  <2> QED BY <1>1, <1>2, <2>1, <2>3 DEF ReadyInv
<1>6. InboxInv'
  BY <1>1, <1>2 DEF IInv, InboxInv
<1>7. HandInv'
  BY <1>1, <1>2 DEF IInv, HandInv
<1>8. Agrees(it.dg)'
  BY <1>1 DEF IInv, FlowInv, Agrees
<1> QED BY <1>3, <1>4, <1>5, <1>6, <1>7, <1>8

\* A datagram of a proxy socket is read.
LEMMA ReadSocket ==
  ASSUME TypeOK, OwnInv, NetInv, NEW k \in K, send(k) # None, NEW d \in Dests,
         replies' = [replies EXCEPT ![send(k)] = @ \ {d}],
         UNCHANGED <<configs, open, eof>>, assoc' = assoc
  PROVE  /\ OwnInv' /\ NetInv' /\ replies' \in [Handles -> SUBSET Dests]
         /\ \A j \in K : j # k /\ send(j) # None /\ replies[send(j)] # {} => replies'[send(j)] # {}
<1>1. K' = K /\ \A j \in K : ctrl(j)' = ctrl(j) /\ send(j)' = send(j)
  BY DEF K, ctrl, send
<1>2. \A j \in K : ctrl(j) \in Handles \cup {None} /\ send(j) \in Handles \cup {None}
  BY ElementType DEF TypeOK
<1>3. \A h \in Handles : replies'[h] \subseteq replies[h] /\ (h # send(k) => replies'[h] = replies[h])
  BY <1>2 DEF TypeOK
<1>4. OwnInv'
  BY SMT, <1>1 DEF OwnInv
<1>5. NetInv'
  <2>1. \A h \in Handles \ open' : h \notin eof' /\ replies'[h] = {}
    BY <1>3 DEF NetInv
  <2>2. \A j \in K : send(j)' \notin eof' /\ (ctrl(j)' # None => replies'[ctrl(j)'] = {})
    BY SMTT(30), <1>1, <1>2, <1>3 DEF NetInv
  <2>3. assoc.sock # None => assoc.sock \notin eof' /\ replies'[assoc.sock] = {}
    BY <1>3 DEF NetInv, TypeOK
  <2> QED BY <1>1, <2>1, <2>2, <2>3 DEF NetInv
<1>6. replies' \in [Handles -> SUBSET Dests]
  BY <1>2 DEF TypeOK
<1>7. \A j \in K : j # k /\ send(j) # None /\ replies[send(j)] # {} => replies'[send(j)] # {}
  BY <1>2, <1>3 DEF OwnInv
<1> QED BY <1>4, <1>5, <1>6, <1>7

\* What is forwarded to a client has the destination of its flow as the source.
LEMMA ForwardFlow ==
  ASSUME IInv, NEW d \in Dests, Forward(d), UNCHANGED <<flow, inbox>>, Agrees(it.dg)'
  PROVE  FlowInv' /\ back' \in Datagrams \cup {None}
<1>1. CASE back' = back
  BY <1>1, KeepFlow DEF IInv, TypeOK
<1>2. ASSUME NEW p \in Ports, flow[p] # None, flow[p].dst = d, back' = [port |-> p, peer |-> d]
      PROVE  FlowInv' /\ back' \in Datagrams \cup {None}
  <2>1. back' \in Datagrams /\ back'.port = p /\ back'.peer = d
    BY <1>2 DEF Datagrams
  <2>2. flow[p] = FlowOf(d)
    BY <1>2 DEF IInv, FlowInv
  <2>3. FlowInv'
    BY <2>1, <2>2 DEF IInv, FlowInv, Agrees, FlowOf
  <2> QED BY <2>1, <2>3
<1> QED BY <1>1, <1>2 DEF Forward

\* The loop over the sockets that proxies answer on reads the next one.
LEMMA ProxyStep ==
  ASSUME IInv, Proxy
  PROVE  IInv'
<1> DEFINE L == {k \in 1..Len(configs) :
                   /\ IsSocks(k) /\ configs[k].udp_connected
                   /\ configs[k].udp_send_sock \in it.ready \/ replies[configs[k].udp_send_sock] # {}}
<1>1. /\ TypeOK /\ OwnInv /\ NetInv /\ it \in Iteration /\ pc = "proxy"
      /\ UNCHANGED <<apiVars, flow, inbox, assoc>>
      /\ inbox' \in [Families -> Datagrams \cup {None}]
  BY DEF IInv, TypeOK, Iteration, Proxy
<1>2. CASE Goto("client6") /\ UNCHANGED <<configs, back, open, eof, replies, it>>
  <2>1. ReadyInv' /\ InboxInv'
    BY <1>1, <1>2 DEF IInv, ReadyInv, InboxInv, Goto, At
  <2>2. Agrees(it.dg)'
    BY <1>1, <1>2 DEF IInv, FlowInv, Agrees
  <2>3. it'.dg # None => it'.dest # None /\ (it'.dg.peer # None => it'.dest = it'.dg.peer)
    BY <1>2, InHand
  <2> QED BY <1>1, <1>2, <2>1, <2>2, <2>3, Move DEF netVars, Goto
<1>3. ASSUME NEW k \in First(L), it' = Further(k),
             \/ /\ replies[send(k)] = {} /\ Goto("stalled")
                /\ UNCHANGED <<configs, back, open, eof, replies>>
             \/ \E d \in replies[send(k)] :
                  /\ Forward(d) /\ replies' = [replies EXCEPT ![send(k)] = @ \ {d}]
                  /\ UNCHANGED <<configs, open, eof, pc>>
             \/ /\ configs' = Cut(k, FALSE) /\ Sockets(SocketsOf(k), {})
                /\ UNCHANGED <<back, pc>>
      PROVE  IInv'
  <2>1. /\ k \in K /\ k >= it.i /\ configs[k].udp_connected
        /\ send(k) \in it.ready \/ replies[send(k)] # {}
    BY DEF First, K, send
  <2>2. replies[send(k)] # {}
    BY <1>1, <2>1 DEF IInv, ReadyInv, Speaks
  <2>3. send(k) # None /\ send(k) \in Handles /\ replies[send(k)] \subseteq Dests
    BY <1>1, <2>1, ElementType DEF OwnInv, TypeOK
  <2>4. it' \in Iteration
    BY <1>1, <1>3, <2>1, FurtherFields
  <2>5. CASE \E d \in replies[send(k)] :
               /\ Forward(d) /\ replies' = [replies EXCEPT ![send(k)] = @ \ {d}]
               /\ UNCHANGED <<configs, open, eof, pc>>
    <3>1. PICK d \in Dests : /\ Forward(d) /\ replies' = [replies EXCEPT ![send(k)] = @ \ {d}]
                             /\ UNCHANGED <<configs, open, eof, pc>>
      BY <2>3, <2>5
    <3>2. /\ OwnInv' /\ NetInv' /\ replies' \in [Handles -> SUBSET Dests]
          /\ \A j \in K : j # k /\ send(j) # None /\ replies[send(j)] # {} => replies'[send(j)] # {}
      BY <1>1, <2>1, <2>3, <3>1, ReadSocket
    <3>3. SlotInv' /\ ReadyInv' /\ InboxInv' /\ IdInv' /\ HandInv' /\ Agrees(it.dg)'
      BY <1>1, <1>3, <2>1, <3>1, <3>2, NextSocket DEF apiVars
    <3>4. FlowInv' /\ back' \in Datagrams \cup {None}
      BY <1>1, <3>1, <3>3, ForwardFlow
    <3>5. TypeOK'
      BY <1>1, <2>4, <3>1, <3>2, <3>4 DEF TypeOK, apiVars, Iteration
    <3> QED BY <3>2, <3>3, <3>4, <3>5 DEF IInv
  <2>6. CASE /\ configs' = Cut(k, FALSE) /\ Sockets(SocketsOf(k), {})
             /\ UNCHANGED <<back, pc>>
    <3>1. Stores(k, None, None, FALSE)
      BY <1>1, <2>1, <2>6, CutStores DEF TypeOK
    <3>2. OwnInv' /\ NetInv' /\ Survive(k)
      BY <1>1, <2>1, <2>6, <3>1, CloseSockets
    <3>3. SocketsOf(k) \in SUBSET Handles
      BY <1>1, <2>1, ElementType DEF SocketsOf, TypeOK, ctrl, send
    <3>4. NetType
      BY <1>1, <2>6, <3>3, SocketsType
    <3>5. SlotInv' /\ ReadyInv' /\ InboxInv' /\ IdInv' /\ HandInv' /\ Agrees(it.dg)'
      BY <1>1, <1>3, <2>1, <2>6, <3>1, <3>2, NextSocket DEF apiVars, Stores, Survive
    <3>6. FlowInv'
      BY <1>1, <2>6, <3>5, KeepFlow DEF IInv
    <3>7. TypeOK'
      BY <1>1, <2>4, <2>6, <3>1, <3>4 DEF TypeOK, apiVars, Iteration, Stores, NetType
    <3> QED BY <3>2, <3>5, <3>6, <3>7 DEF IInv
  <2> QED BY <1>3, <2>2, <2>5, <2>6
<1> QED BY <1>2, <1>3 DEF Proxy, send
=============================================================================
