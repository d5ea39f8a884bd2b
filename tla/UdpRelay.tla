------------------------------ MODULE UdpRelay ------------------------------
(***************************************************************************)
(* udp_relay_server: one thread that carries datagrams between the         *)
(* application's ports and the SOCKS5 proxies, over one UDP association    *)
(* (a TCP control connection and a UDP socket) per proxy configuration.    *)
(* A step ends where the thread blocks or takes a lock: at select, in the  *)
(* handshake of an association, between the two look-ups of a datagram.    *)
(* The API thread edits the array of configurations without a lock; the    *)
(* packet thread sets and drops the flows.                                 *)
(*                                                                         *)
(* Handles are socket handle values.  A closed value may be handed out     *)
(* again at once, so what select said of a value can be about a socket     *)
(* that is gone.                                                           *)
(***************************************************************************)
EXTENDS Integers, Sequences, FiniteSets

CONSTANTS
    Ports,      \* source ports of the applications' UDP sockets
    Dests,      \* destinations
    V6,         \* the ports and destinations of IPv6
    Decide,     \* [Dests -> config ids]: the PROXY rules, none with id 0
    Hosts,      \* proxies
    Handles,    \* socket handle values, integers
    None,
    NStart,     \* at most so many configurations when the thread starts
    MaxConfigs, \* MAX_PROXY_CONFIGS
    MaxCalls    \* bound: configuration calls

ASSUME UdpRelayAssumption ==
    /\ Decide \in [Dests -> Nat \ {0}]
    /\ Handles \subseteq Int /\ None \notin Handles \cup Dests \cup Hosts
    /\ None \notin [dst : Dests, cfg : Nat] \cup [port : Ports, peer : Dests \cup {None}]
    /\ NStart \in Nat /\ MaxConfigs \in Nat /\ NStart <= MaxConfigs /\ MaxCalls \in Nat

VARIABLES
    configs,    \* g_proxy_configs[0 .. g_proxy_config_count - 1]
    nextId,     \* g_next_config_id
    calls,      \* configuration calls so far
    running,
    flow,       \* UDP entry of a port in the connection table, or None
    inbox,      \* datagram waiting in the relay socket of a family, or None
    back,       \* datagram from the relay to a client, or None
    open,       \* handles of open association sockets
    eof,        \* control connections the proxy has closed
    replies,    \* per handle: where the waiting datagrams of the proxy come from
    pc,         \* relay thread: next step
    it,         \* its locals of one iteration: loop index, read_fds after select
                \* (ready: association sockets, relay: relay sockets),
                \* assoc_replaced, datagram in hand, dest_ip and dest_port
    assoc,      \* those of establish_udp_associate_for_config: cfg, tcp_sock, the
                \* proxy it talks to, the caller
    out,        \* the datagram this step sent to a proxy
    shown       \* the datagram this step gave to a client

apiVars == <<nextId, calls, running>>
netVars == <<eof, replies>>
clientVars == <<flow, inbox, back>>
relayVars == <<pc, it, assoc>>
vars == <<configs, apiVars, clientVars, open, netVars, relayVars, out, shown>>

Families == {"v4", "v6"}
Family(x) == IF x \in V6 THEN "v6" ELSE "v4"

Config(id, type, host) ==
    [id |-> id, type |-> type, host |-> host, udp_connected |-> FALSE,
     udp_tcp_ctrl |-> None, udp_send_sock |-> None, udp_relay_addr |-> None,
     recent |-> FALSE]      \* recent: last_udp_attempt is less than a second ago

NoIteration == [i |-> 1, ready |-> {}, relay |-> {}, replaced |-> FALSE, dg |-> None, dest |-> None]
NoAssociation == [slot |-> 1, sock |-> None, target |-> None, ret |-> "top"]

Init ==
    /\ \E n \in 1..NStart : \E h \in [1..n -> Hosts] :
         /\ configs = [k \in 1..n |-> Config(k, "SOCKS5", h[k])]
         /\ nextId = n + 1
    /\ calls = 0 /\ running = TRUE
    /\ flow = [p \in Ports |-> None] /\ inbox = [f \in Families |-> None] /\ back = None
    /\ open = {} /\ eof = {} /\ replies = [h \in Handles |-> {}]
    /\ pc = "init" /\ it = NoIteration /\ assoc = NoAssociation
    /\ out = None /\ shown = None

\* is_proxy_config_referenced
Referenced(id) == \E d \in Dests : Decide[d] = id

\* Mutant: always the fallback.
find_proxy_config_First(id) == IF configs # <<>> THEN 1 ELSE 0

\* The index find_proxy_config returns, 0 for NULL.
find_proxy_config(id) ==
    LET hit == {k \in 1..Len(configs) : configs[k].id = id}
    IN  IF hit # {} THEN CHOOSE k \in hit : \A j \in hit : k <= j
        ELSE IF configs # <<>> THEN 1 ELSE 0

IsSocks(k) == k # 0 /\ configs[k].type = "SOCKS5"

SocketsOf(k) == {configs[k].udp_tcp_ctrl, configs[k].udp_send_sock} \ {None}

\* The association of k without its sockets, udp_connected too if c is FALSE.
\* udp_relay_addr is not read without them.
Cut(k, c) == [configs EXCEPT ![k].udp_tcp_ctrl = None, ![k].udp_send_sock = None,
                             ![k].udp_relay_addr = None, ![k].udp_connected = @ /\ c]

\* Values for a new socket when those in S are taken: one that select reported
\* and one that it did not, for values are alike otherwise.
Fresh(S) ==
    LET least(F) == {h \in F : \A g \in F : h <= g}
    IN  least((Handles \ S) \cap it.ready) \cup least((Handles \ S) \ it.ready)

\* Close the handles in S, create the ones in N.
Sockets(S, N) ==
    /\ open' = (open \ S) \cup N
    /\ eof' = eof \ S
    /\ replies' = [h \in Handles |-> IF h \in S THEN {} ELSE replies[h]]

\* Only a step that sends or delivers a datagram shows one.
Quiet == out' = None /\ shown' = None

Goto(l) == pc' = l

\* The next iteration: its locals start afresh.
Top == pc' = "top" /\ it' = NoIteration /\ assoc' = NoAssociation

----------------------------------------------------------------------------
(* establish_udp_associate_for_config.                                     *)

\* Return to caller r of an association for k, whose iteration has the locals t.
\* The loops over the configurations go on; a datagram without an association is
\* dropped.
Return(k, r, t, success) ==
    \/ /\ r \in {"init", "timeout", "control"}
       /\ Goto(r) /\ it' = t /\ assoc' = NoAssociation
    \/ /\ r \in {"send", "resend", "send6"} /\ success
       /\ Goto(r) /\ it' = t /\ assoc' = [NoAssociation EXCEPT !.slot = k]
    \/ /\ r \in {"send", "resend", "send6"} /\ ~success /\ Top

\* Up to the first blocking call.  The caller may have dropped the association
\* of k already.
Establish(k, dropped, r, t) ==
    \/ /\ configs[k].type # "SOCKS5" \/ configs[k].recent
       /\ configs' = IF dropped THEN Cut(k, FALSE) ELSE configs
       /\ Sockets(IF dropped THEN SocketsOf(k) ELSE {}, {})
       /\ Return(k, r, t, FALSE)
    \/ /\ configs[k].type = "SOCKS5" /\ ~configs[k].recent
       /\ configs' = [Cut(k, ~dropped) EXCEPT ![k].recent = TRUE]
       /\ \E h \in Fresh(open \ SocketsOf(k)) :
            /\ Sockets(SocketsOf(k), {h})
            /\ assoc' = [slot |-> k, sock |-> h, target |-> configs[k].host, ret |-> r]
       /\ Goto("assoc") /\ it' = t

\* The proxy grants the association: its address, then both sockets and the
\* flag are stored in the array element cfg points to.
Associated ==
    /\ pc = "assoc"
    /\ \E h \in Fresh(open) :
         /\ configs' = [configs EXCEPT ![assoc.slot].udp_tcp_ctrl = assoc.sock,
                                       ![assoc.slot].udp_send_sock = h,
                                       ![assoc.slot].udp_connected = TRUE,
                                       ![assoc.slot].udp_relay_addr = assoc.target]
         /\ Sockets({}, {h})
    /\ Return(assoc.slot, assoc.ret, it, TRUE)
    /\ UNCHANGED <<apiVars, clientVars>> /\ Quiet

\* Connect or handshake fails or times out.
NotAssociated ==
    /\ pc = "assoc"
    /\ Sockets({assoc.sock}, {})
    /\ Return(assoc.slot, assoc.ret, it, FALSE)
    /\ UNCHANGED <<configs, apiVars, clientVars>> /\ Quiet

----------------------------------------------------------------------------
(* The loop.                                                               *)

\* A loop over the configurations from it.i on: K are those it acts upon, and
\* Further(k) are the locals after k.
First(K) == {k \in K : k >= it.i /\ \A j \in K : j >= it.i => k <= j}
Over(K) == \A k \in K : k < it.i
Further(k) == [it EXCEPT !.i = k + 1]

\* Mutant: only at thread start.
Reconnect_Once ==
    LET K == {k \in 1..Len(configs) : /\ IsSocks(k) /\ Referenced(configs[k].id)
                                      /\ pc = "init"}
    IN  /\ pc \in {"init", "timeout"}
        /\ \/ Over(K) /\ Top /\ UNCHANGED <<configs, open, eof, replies>>
           \/ \E k \in First(K) : Establish(k, FALSE, pc, Further(k))
        /\ UNCHANGED <<apiVars, clientVars>> /\ Quiet

\* The loops over the configurations at thread start and after a timeout of
\* select.
Reconnect ==
    LET K == {k \in 1..Len(configs) : /\ IsSocks(k) /\ Referenced(configs[k].id)
                                      /\ pc = "timeout" => ~configs[k].udp_connected}
    IN  /\ pc \in {"init", "timeout"}
        /\ \/ Over(K) /\ Top /\ UNCHANGED <<configs, open, eof, replies>>
           \/ \E k \in First(K) : Establish(k, FALSE, pc, Further(k))
        /\ UNCHANGED <<apiVars, clientVars>> /\ Quiet

\* What select reports: control connections that were closed and proxy sockets
\* with a datagram, relay sockets with a datagram.
Readable ==
    LET watched == UNION {SocketsOf(k) : k \in {j \in 1..Len(configs) :
                                                IsSocks(j) /\ configs[j].udp_connected}}
    IN  {h \in watched : h \in eof \/ replies[h] # {}}

Waiting == {f \in Families : inbox[f] # None}

Pause == Readable = {} /\ Waiting = {}

SelectTimeout ==
    /\ pc = "top" /\ running /\ Pause
    /\ Goto("timeout")
    /\ UNCHANGED <<configs, apiVars, clientVars, open, netVars, it, assoc>> /\ Quiet

\* select fails because a call has closed one of its sockets meanwhile, which the
\* loop treats like a timeout.
SelectFails ==
    /\ pc = "top" /\ running /\ calls > 0
    /\ Goto("timeout")
    /\ UNCHANGED <<configs, apiVars, clientVars, open, netVars, it, assoc>> /\ Quiet

\* Mutant: the loop looks at running only when select times out.
Select_NoStop ==
    /\ pc = "top" /\ ~Pause
    /\ Goto("control") /\ it' = [it EXCEPT !.ready = Readable, !.relay = Waiting]
    /\ UNCHANGED <<configs, apiVars, clientVars, open, netVars, assoc>> /\ Quiet

Select ==
    /\ pc = "top" /\ running /\ ~Pause
    /\ Goto("control") /\ it' = [it EXCEPT !.ready = Readable, !.relay = Waiting]
    /\ UNCHANGED <<configs, apiVars, clientVars, open, netVars, assoc>> /\ Quiet

\* The loop ends: all association sockets are closed.
Exit ==
    /\ pc = "top" /\ ~running
    /\ configs' = [k \in 1..Len(configs) |-> Cut(k, FALSE)[k]]
    /\ Sockets(UNION {SocketsOf(k) : k \in 1..Len(configs)}, {})
    /\ Goto("exit")
    /\ UNCHANGED <<apiVars, clientVars, it, assoc>> /\ Quiet

\* A control connection that select reported is peeked at, and the association
\* replaced if the proxy has closed it.  recv on a connection with nothing to
\* read blocks.
ControlsReported == {k \in 1..Len(configs) : /\ IsSocks(k) /\ configs[k].udp_connected
                                             /\ configs[k].udp_tcp_ctrl \in it.ready}

ControlOf(k) ==
    \/ /\ configs[k].udp_tcp_ctrl \in eof
       /\ Establish(k, TRUE, "control", [Further(k) EXCEPT !.replaced = TRUE])
    \/ /\ configs[k].udp_tcp_ctrl \notin eof
       /\ Goto("stalled") /\ UNCHANGED <<configs, open, eof, replies, it, assoc>>

\* Mutant: the iteration goes on with what select said of the old sockets.
Control_GoOn ==
    /\ pc = "control"
    /\ \/ /\ Over(ControlsReported) /\ Goto("client") /\ it' = [it EXCEPT !.i = 1]
          /\ UNCHANGED <<configs, open, eof, replies, assoc>>
       \/ \E k \in First(ControlsReported) : ControlOf(k)
    /\ UNCHANGED <<apiVars, clientVars>> /\ Quiet

Control ==
    /\ pc = "control"
    /\ \/ /\ Over(ControlsReported) /\ ~it.replaced
          /\ Goto("client") /\ it' = [it EXCEPT !.i = 1]
          /\ UNCHANGED <<configs, open, eof, replies, assoc>>
       \/ /\ Over(ControlsReported) /\ it.replaced
          /\ Top /\ UNCHANGED <<configs, open, eof, replies>>
       \/ \E k \in First(ControlsReported) : ControlOf(k)
    /\ UNCHANGED <<apiVars, clientVars>> /\ Quiet

\* A datagram of an application, IPv4.  An error of recvfrom or a datagram that
\* is too long restarts the loop; one that is empty or without a flow
\* (get_connection) is dropped.
Client ==
    /\ pc = "client"
    /\ LET q == inbox["v4"] IN
       \/ /\ "v4" \notin it.relay
          /\ Goto("proxy") /\ UNCHANGED <<inbox, it, assoc>>
       \/ /\ "v4" \in it.relay /\ inbox' = [inbox EXCEPT !["v4"] = None]
          /\ \/ Top
             \/ Goto("proxy") /\ UNCHANGED <<it, assoc>>
             \/ /\ flow[q.port] # None
                /\ it' = [it EXCEPT !.dg = q, !.dest = flow[q.port].dst]
                /\ Goto("lookup") /\ UNCHANGED assoc
    /\ UNCHANGED <<configs, apiVars, flow, back, open, netVars>> /\ Quiet

Datagram(k) == [sent |-> it.dg, to |-> it.dest, via |-> configs[k].id]

\* sendto the proxy of configuration k.  A failure closes the association and
\* tries once more over a new one.
SendTo(k) ==
    \/ /\ configs[k].udp_send_sock # None /\ out' = Datagram(k)
       /\ \/ it.replaced /\ Top
          \/ /\ ~it.replaced /\ Goto("proxy") /\ it' = [it EXCEPT !.dg = None, !.dest = None]
             /\ assoc' = NoAssociation
       /\ UNCHANGED <<configs, open, eof, replies>>
    \/ Establish(k, TRUE, "resend", it) /\ out' = None

\* get_connection_proxy_id and find_proxy_config: the second look-up.
Lookup ==
    /\ pc = "lookup"
    /\ LET f == flow[it.dg.port]
           k == find_proxy_config(IF f = None THEN 0 ELSE f.cfg) IN
       \/ /\ ~IsSocks(k)
          /\ Top /\ out' = None /\ UNCHANGED <<configs, open, eof, replies>>
       \/ /\ IsSocks(k) /\ configs[k].udp_connected
          /\ SendTo(k)
       \/ /\ IsSocks(k) /\ ~configs[k].udp_connected
          /\ Establish(k, FALSE, "send", [it EXCEPT !.replaced = TRUE]) /\ out' = None
    /\ shown' = None /\ UNCHANGED <<apiVars, clientVars>>

\* The datagram goes over the association it was waiting for.
Send ==
    /\ pc = "send" /\ SendTo(assoc.slot)
    /\ shown' = None /\ UNCHANGED <<apiVars, clientVars>>

\* The second attempt, and the only one for IPv6: a failure goes unnoticed.
Resend ==
    /\ pc \in {"resend", "send6"}
    /\ \/ configs[assoc.slot].udp_send_sock # None /\ out' = Datagram(assoc.slot)
       \/ out' = None
    /\ Top
    /\ shown' = None /\ UNCHANGED <<configs, apiVars, clientVars, open, netVars>>

\* A datagram of a proxy goes to a client whose flow has its source as the
\* destination: the one active last, which this module does not tell from the
\* others.  Malformed datagrams and those without a client are dropped, and so is
\* what the network loses.  Mutant: clients of the same hash bucket.
Forward_Bucket(d) ==
    \/ \E p \in Ports : flow[p] # None /\ back = None
                        /\ back' = [port |-> p, peer |-> d]
    \/ UNCHANGED back

Forward(d) ==
    \/ \E p \in Ports : /\ flow[p] # None /\ flow[p].dst = d /\ back = None
                        /\ back' = [port |-> p, peer |-> d]
    \/ UNCHANGED back

\* The loop over the proxies' UDP sockets.  One that select did not report is
\* asked again without waiting; recvfrom on one with nothing to read blocks, and
\* an error of it closes the association.
Proxy ==
    LET send(k) == configs[k].udp_send_sock
        K == {k \in 1..Len(configs) : /\ IsSocks(k) /\ configs[k].udp_connected
                                      /\ send(k) \in it.ready \/ replies[send(k)] # {}}
    IN  /\ pc = "proxy" /\ UNCHANGED assoc
        /\ \/ /\ Over(K) /\ Goto("client6")
              /\ UNCHANGED <<configs, back, open, eof, replies, it>>
           \/ \E k \in First(K) :
                /\ it' = Further(k)
                /\ \/ /\ replies[send(k)] = {}
                      /\ Goto("stalled") /\ UNCHANGED <<configs, back, open, eof, replies>>
                   \/ \E d \in replies[send(k)] :
                        /\ Forward(d) /\ replies' = [replies EXCEPT ![send(k)] = @ \ {d}]
                        /\ UNCHANGED <<configs, open, eof, pc>>
                   \/ /\ replies[send(k)] # {}
                      /\ configs' = Cut(k, FALSE) /\ Sockets(SocketsOf(k), {})
                      /\ UNCHANGED <<back, pc>>
        /\ UNCHANGED <<apiVars, flow, inbox>> /\ Quiet

\* A datagram of an application, IPv6: one look-up (get_connection_full_v6).  It
\* is dropped if recvfrom fails or there is no flow or no SOCKS5 configuration.
Client6 ==
    /\ pc = "client6"
    /\ LET q == inbox["v6"] IN
       \/ /\ "v6" \notin it.relay
          /\ Top /\ UNCHANGED <<configs, inbox, open, eof, replies>>
       \/ /\ "v6" \in it.relay /\ inbox' = [inbox EXCEPT !["v6"] = None]
          /\ \/ Top /\ UNCHANGED <<configs, open, eof, replies>>
             \/ /\ flow[q.port] # None
                /\ LET k == find_proxy_config(flow[q.port].cfg)
                       t == [it EXCEPT !.dg = q, !.dest = flow[q.port].dst] IN
                   /\ IsSocks(k)
                   /\ IF configs[k].udp_connected
                      THEN Return(k, "send6", t, TRUE) /\ UNCHANGED <<configs, open, eof, replies>>
                      ELSE Establish(k, FALSE, "send6", t)
    /\ UNCHANGED <<apiVars, flow, back>> /\ Quiet

Relay == \/ Associated \/ NotAssociated \/ Reconnect \/ SelectTimeout \/ SelectFails \/ Select \/ Exit
         \/ Control \/ Client \/ Lookup \/ Send \/ Resend \/ Proxy \/ Client6

----------------------------------------------------------------------------
(* The packet thread.                                                      *)

\* m, on its way while the flow of p changes: nothing is promised about it.
Mark(m, p) == IF m # None /\ m.port = p THEN [m EXCEPT !.peer = None] ELSE m

\* A datagram that the rules send through a configuration: the flow is validated
\* or set anew, and the datagram redirected, unless the relay's socket is full.
Redirect(p, d) ==
    LET new  == [dst |-> d, cfg |-> Decide[d]]
        f    == Family(p)
        M(m) == IF flow[p] = new THEN m ELSE Mark(m, p)
    IN  /\ running /\ Family(d) = f
        /\ IsSocks(find_proxy_config(Decide[d]))
        /\ flow' = [flow EXCEPT ![p] = new]
        /\ inbox' = [g \in Families |-> IF g = f /\ inbox[g] = None
                                        THEN [port |-> p, peer |-> d]
                                        ELSE M(inbox[g])]
        /\ back' = M(back) /\ it' = [it EXCEPT !.dg = M(@)]
        /\ UNCHANGED <<configs, apiVars, open, netVars, pc, assoc>> /\ Quiet

\* cleanup_stale_connections, or a policy change.
Expire(p) ==
    /\ flow[p] # None
    /\ flow' = [flow EXCEPT ![p] = None]
    /\ inbox' = [g \in Families |-> Mark(inbox[g], p)]
    /\ back' = Mark(back, p) /\ it' = [it EXCEPT !.dg = Mark(@, p)]
    /\ UNCHANGED <<configs, apiVars, open, netVars, pc, assoc>> /\ Quiet

\* The relay's datagram to a client gets the destination of the client's flow as
\* its source.  Without a flow IPv4 drops it; IPv6 leaves the relay as the source.
Deliver ==
    /\ running /\ back # None
    /\ LET f == flow[back.port] IN
       shown' = IF f = None /\ Family(back.port) = "v4" THEN None
                ELSE [back |-> back, label |-> IF f = None THEN None ELSE f.dst]
    /\ back' = None /\ out' = None
    /\ UNCHANGED <<configs, apiVars, flow, inbox, open, netVars, relayVars>>

----------------------------------------------------------------------------
(* The API, and the world.                                                 *)

Call == calls < MaxCalls /\ calls' = calls + 1

\* Nothing is promised about a datagram that was to go through the new
\* configuration and has been looked up without it.
ProxyBridge_AddProxyConfig(type, host) ==
    /\ Call /\ Len(configs) < MaxConfigs
    /\ configs' = Append(configs, Config(nextId, type, host)) /\ nextId' = nextId + 1
    /\ it' = IF pc # "lookup" /\ it.dg # None /\ Decide[it.dest] = nextId
             THEN [it EXCEPT !.dg.peer = None] ELSE it
    /\ UNCHANGED <<running, clientVars, open, netVars, pc, assoc>> /\ Quiet

\* Mutant: the sockets are forgotten, not closed.
ProxyBridge_EditProxyConfig_Forget(k, type, host) ==
    /\ Call
    /\ configs' = [Cut(k, FALSE) EXCEPT ![k].type = type, ![k].host = host]
    /\ UNCHANGED <<nextId, running, clientVars, open, netVars, relayVars>> /\ Quiet

ProxyBridge_EditProxyConfig(k, type, host) ==
    /\ Call
    /\ configs' = [Cut(k, FALSE) EXCEPT ![k].type = type, ![k].host = host]
    /\ Sockets(SocketsOf(k), {})
    /\ UNCHANGED <<nextId, running, clientVars, relayVars>> /\ Quiet

\* The elements behind k move down.  Restriction: not while the relay holds a
\* pointer to an element of the array.
ProxyBridge_DeleteProxyConfig(k) ==
    /\ pc \notin {"assoc", "send", "resend", "send6"}
    /\ Call
    /\ configs' = [j \in 1..(Len(configs) - 1) |-> configs[IF j < k THEN j ELSE j + 1]]
    /\ Sockets(SocketsOf(k), {})
    /\ UNCHANGED <<nextId, running, clientVars, relayVars>> /\ Quiet

Stop ==
    /\ running /\ running' = FALSE
    /\ UNCHANGED <<configs, nextId, calls, clientVars, open, netVars, relayVars>> /\ Quiet

\* A second has passed since the last attempt of k.
Tick(k) ==
    /\ configs[k].recent /\ configs' = [configs EXCEPT ![k].recent = FALSE]
    /\ UNCHANGED <<apiVars, clientVars, open, netVars, relayVars>> /\ Quiet

\* A proxy closes a control connection.
Hangup(k) ==
    /\ configs[k].udp_tcp_ctrl # None /\ configs[k].udp_tcp_ctrl \notin eof
    /\ eof' = eof \cup {configs[k].udp_tcp_ctrl}
    /\ UNCHANGED <<configs, apiVars, clientVars, open, replies, relayVars>> /\ Quiet

\* A datagram from d reaches the proxy socket of k.
Reply(k, d) ==
    /\ configs[k].udp_send_sock # None /\ replies[configs[k].udp_send_sock] = {}
    /\ replies' = [replies EXCEPT ![configs[k].udp_send_sock] = {d}]
    /\ UNCHANGED <<configs, apiVars, clientVars, open, eof, relayVars>> /\ Quiet

Packets == \/ \E p \in Ports : Expire(p) \/ \E d \in Dests : Redirect(p, d)
           \/ Deliver

Api == \/ \E type \in {"SOCKS5", "HTTP"}, h \in Hosts :
            \/ ProxyBridge_AddProxyConfig(type, h)
            \/ \E k \in 1..Len(configs) : ProxyBridge_EditProxyConfig(k, type, h)
       \/ \E k \in 1..Len(configs) : ProxyBridge_DeleteProxyConfig(k)
       \/ Stop

World == \E k \in 1..Len(configs) : Tick(k) \/ Hangup(k) \/ \E d \in Dests : Reply(k, d)

Done == pc = "exit" /\ UNCHANGED vars

Next == Relay \/ Packets \/ Api \/ World \/ Done

Spec == Init /\ [][Next]_vars

\* The relay thread runs and time passes: select times out when nothing arrives
\* for long enough again and again.  A proxy that is asked again and again grants
\* an association.
Fairness ==
    /\ WF_vars(Relay) /\ SF_vars(SelectTimeout)
    /\ \A k \in 1..MaxConfigs : /\ WF_vars(k <= Len(configs) /\ Tick(k))
                                /\ SF_vars(assoc.slot = k /\ Associated)

----------------------------------------------------------------------------
ConfigType ==
    [id : Nat, type : {"SOCKS5", "HTTP"}, host : Hosts, udp_connected : BOOLEAN,
     udp_tcp_ctrl : Handles \cup {None}, udp_send_sock : Handles \cup {None},
     udp_relay_addr : Hosts \cup {None}, recent : BOOLEAN]
Flows == [dst : Dests, cfg : Nat]
Datagrams == [port : Ports, peer : Dests \cup {None}]

\* Type invariant.
TypeOK ==
    /\ configs \in Seq(ConfigType) /\ Len(configs) <= MaxConfigs
    /\ nextId \in Nat /\ calls \in 0..MaxCalls /\ running \in BOOLEAN
    /\ flow \in [Ports -> Flows \cup {None}]
    /\ inbox \in [Families -> Datagrams \cup {None}] /\ back \in Datagrams \cup {None}
    /\ open \in SUBSET Handles /\ eof \in SUBSET Handles /\ replies \in [Handles -> SUBSET Dests]
    /\ it \in [i : Nat, ready : SUBSET Handles, relay : SUBSET Families, replaced : BOOLEAN,
               dg : Datagrams \cup {None}, dest : Dests \cup {None}]
    /\ assoc \in [slot : Nat, sock : Handles \cup {None}, target : Hosts \cup {None},
                  ret : {"top", "init", "timeout", "control", "send", "resend", "send6"}]
    /\ pc \in {"init", "top", "timeout", "control", "client", "lookup", "send", "resend",
               "proxy", "client6", "send6", "assoc", "stalled", "exit"}

\* The relay thread never waits in recv or recvfrom on a socket with nothing to
\* read: a handle value that select reported still means the socket that was
\* readable, although values are reused at once.
NeverStalls == pc # "stalled"

\* Every open association socket has one owner, a field of a configuration or
\* the association that is being made; a connected configuration has both its
\* sockets, and none is left when the relay thread has ended.
SocketsAccounted ==
    LET ctrl(k) == configs[k].udp_tcp_ctrl
        send(k) == configs[k].udp_send_sock
        K == 1..Len(configs)
    IN  /\ open = (UNION {SocketsOf(k) : k \in K}) \cup ({assoc.sock} \ {None})
        /\ \A k \in K : /\ configs[k].udp_connected => ctrl(k) # None /\ send(k) # None
                        /\ ctrl(k) # None => ctrl(k) # send(k)
                        /\ assoc.sock \notin SocketsOf(k)
                        /\ \A j \in K \ {k} : SocketsOf(j) \cap SocketsOf(k) = {}
        /\ pc = "exit" => open = {}

\* A datagram of an application leaves for the destination it was addressed to,
\* through the configuration the rules name for that destination, unless the
\* port's flow changed or the configuration was added or deleted on the way.
SentAsDecided ==
    out # None /\ out.sent.peer # None =>
        /\ out.to = out.sent.peer
        /\ (\E k \in 1..Len(configs) : configs[k].id = Decide[out.to]) => out.via = Decide[out.to]

\* A client sees a proxied datagram come from the peer that sent it, unless the
\* port's flow changed on the way.
ReplySourceExact == shown # None /\ shown.back.peer # None => shown.label = shown.back.peer

\* A configuration that the rules want is connected again and again, whatever
\* hang-ups and failed sends happen, if traffic pauses again and again.
Reconnects ==
    \A k \in 1..MaxConfigs :
        /\ <>[](running /\ k <= Len(configs) /\ IsSocks(k) /\ Referenced(configs[k].id))
        /\ []<>(pc = "top" /\ Pause)
        => []<>(k <= Len(configs) /\ configs[k].udp_connected)

\* After a stop the relay thread ends, also out of an association in progress.
StopEnds == ~running ~> pc = "exit"
=============================================================================
