---------------------------- MODULE UdpDecision ----------------------------
(***************************************************************************)
(* The UDP path of packet_processor for one source port.  A DIRECT verdict *)
(* is remembered in udp_direct_entries, a PROXY verdict in the port's      *)
(* conntrack entry; both carry the value of g_udp_generation that the      *)
(* packet thread read before it asked the rules, and are used only while   *)
(* the generation stays the same.  The generation is advanced by the API   *)
(* thread after a change of policy and by the owner-event threads (WinDivert *)
(* SOCKET and FLOW layers) when an endpoint on the port comes or goes.     *)
(* Values are versions: a decision carries what it was based on.           *)
(***************************************************************************)
EXTENDS Integers

CONSTANTS
    Dests,          \* destinations of the port's datagrams, none of them exempt
                    \* from the rules (multicast, the proxy's own UDP endpoint)
    Slot,           \* [Dests -> slots]: udp_direct_slot
    Layers,         \* owner observers (SOCKET, FLOW)
    MaxEdits,       \* bound: policy changes
    MaxEndpoints    \* bound: sockets that own the port, one after another

ASSUME UdpAssumption == MaxEdits \in Nat /\ MaxEndpoints \in Nat

Slots == {Slot[d] : d \in Dests}

VARIABLES
    gen,            \* g_udp_generation
    rules,          \* version of rules, proxy configs and settings
    list,           \* what the rule list holds: enabled rules, domain filters
    active, domain, \* g_has_active_rules, g_has_domain_rules
    api,            \* API thread: "idle" or its next step
    life,           \* sockets of the port: 2e-1 when socket e is open, 2e once closed
    handled,        \* per layer: events received (open 1, close 1, open 2, ...)
    obs,            \* per layer: "recv", "update" (cache_owner_event) or "unlink"
    known,          \* per layer: socket in owner_cache, 0 if none
    pidCache,       \* socket in the PID cache of the table lookup, 0 if none
    pc, dst, g,     \* packet thread: step, destination, udp_generation
    basis,          \* what its verdict rests on
    direct,         \* udp_direct_entries, per slot
    flow,           \* the port's conntrack entry
    last            \* how the last datagram was passed, and what was decided for whom

policyVars == <<rules, list, active, domain, api>>
ownerVars == <<life, handled, obs, known, pidCache>>
packetVars == <<pc, dst, g, basis>>
vars == <<gen, policyVars, ownerVars, packetVars, direct, flow, last>>

\* No verdict, no entry.
NoBasis(d) == [dst |-> d, rules |-> 0, domain |-> FALSE, owner |-> 0, src |-> "none"]
NoEntry(d) == [dst |-> d, gen |-> 0, basis |-> NoBasis(d)]

Flags == {[active |-> FALSE, domain |-> FALSE], [active |-> TRUE, domain |-> FALSE],
          [active |-> TRUE, domain |-> TRUE]}

Init ==
    /\ gen = 1 /\ rules = 0 /\ api = "idle"
    /\ list = [active |-> FALSE, domain |-> FALSE] /\ active = FALSE /\ domain = FALSE
    /\ life = 0
    /\ handled = [l \in Layers |-> 0] /\ obs = [l \in Layers |-> "recv"]
    /\ known = [l \in Layers |-> 0] /\ pidCache = 0
    /\ pc = "recv" /\ dst \in Dests /\ g = 1 /\ basis = NoBasis(dst)
    /\ direct = [s \in Slots |-> NoEntry(dst)]
    /\ flow = NoEntry(dst)
    /\ last = [how |-> "none", dst |-> dst, for |-> dst]

\* `lock` is free: no owner observer is inside remove_owner_event_endpoint.
Unlocked == \A l \in Layers : obs[l] # "unlink"

\* The packet thread is done with the datagram.
Passed(how, b) ==
    /\ pc' = "recv"
    /\ last' = [how |-> how, dst |-> dst, for |-> b.dst]
    /\ basis' = NoBasis(dst)

----------------------------------------------------------------------------
(* The packet thread.                                                      *)

\* A datagram of the application; the generation is read before anything else.
Recv(d) ==
    /\ pc = "recv"
    /\ dst' = d /\ g' = gen /\ basis' = NoBasis(d) /\ pc' = "direct"
    /\ last' = [how |-> "none", dst |-> d, for |-> d]
    /\ UNCHANGED <<gen, policyVars, ownerVars, direct, flow>>

\* Mutant: the destination is not compared.
Usable_AnyDest(e) == e.gen = gen

Usable(e) == e.gen = gen /\ e.dst = dst

udp_direct_cached ==
    /\ pc = "direct"
    /\ LET e == direct[Slot[dst]]
       IN IF Usable(e) THEN Passed("direct", e.basis)
          ELSE pc' = "flow" /\ UNCHANGED <<basis, last>>
    /\ UNCHANGED <<gen, policyVars, ownerVars, dst, g, direct, flow>>

\* A flow that is not valid any more is removed and the rules are asked, unless
\* there are none to ask and nobody to tell.
udp_flow_validate ==
    /\ pc = "flow" /\ Unlocked
    /\ \/ Usable(flow) /\ Passed("flow", flow.basis) /\ UNCHANGED flow
       \/ /\ ~Usable(flow)
          /\ flow' = NoEntry(dst)
          /\ \/ pc' = "owner" /\ UNCHANGED <<basis, last>>
             \/ ~active /\ Passed("unchecked", basis)
    /\ UNCHANGED <<gen, policyVars, ownerVars, dst, g, direct>>

\* resolve_process_owner: the owner cache, the PID cache, the system's table,
\* again until a deadline.  The first has no entry for the datagram, or only
\* entries past OWNER_CACHE_TTL_MS, or one entry per layer.
get_owner_event_pid ==
    /\ pc = "owner" /\ Unlocked
    /\ \/ \E l \in Layers :
             /\ known[l] # 0
             /\ basis' = [basis EXCEPT !.owner = known[l], !.src = "event"]
          /\ pc' = "match"
       \/ pc' = "pid_cache" /\ UNCHANGED basis
    /\ UNCHANGED <<gen, policyVars, ownerVars, dst, g, direct, flow, last>>

get_cached_pid ==
    /\ pc = "pid_cache" /\ Unlocked
    /\ IF pidCache # 0
       THEN basis' = [basis EXCEPT !.owner = pidCache, !.src = "table"] /\ pc' = "match"
       ELSE pc' = "table" /\ UNCHANGED basis
    /\ UNCHANGED <<gen, policyVars, ownerVars, dst, g, direct, flow, last>>

\* owner_table_fetch sees the socket that is open now.
TableLookup ==
    /\ pc = "table"
    /\ \/ /\ life % 2 = 1
          /\ basis' = [basis EXCEPT !.owner = (life + 1) \div 2, !.src = "table"]
          /\ pc' = "cache_pid" /\ UNCHANGED last
       \/ life % 2 = 0 /\ pc' = "owner" /\ UNCHANGED <<basis, last>>
       \/ life % 2 = 0 /\ \E how \in {"unchecked", "drop"} : Passed(how, basis)
    /\ UNCHANGED <<gen, policyVars, ownerVars, dst, g, direct, flow>>

cache_pid ==
    /\ pc = "cache_pid" /\ Unlocked
    /\ pidCache' = basis.owner /\ pc' = "match"
    /\ UNCHANGED <<gen, policyVars, life, handled, obs, known, dst, g, basis, direct, flow, last>>

\* match_rule under the shared rules lock; a destination's name is looked up
\* only if g_has_domain_rules says so.
match_rule ==
    /\ pc = "match"
    /\ basis' = [basis EXCEPT !.rules = rules, !.domain = domain]
    /\ pc' = "apply"
    /\ UNCHANGED <<gen, policyVars, ownerVars, dst, g, direct, flow, last>>

Decision == [dst |-> dst, gen |-> g, basis |-> basis]

ApplyBlock ==
    /\ pc = "apply"
    /\ Passed("drop", basis)
    /\ UNCHANGED <<gen, policyVars, ownerVars, dst, g, direct, flow>>

udp_direct_remember ==
    /\ pc = "apply"
    /\ direct' = [direct EXCEPT ![Slot[dst]] = Decision]
    /\ Passed("checked", basis)
    /\ UNCHANGED <<gen, policyVars, ownerVars, dst, g, flow>>

\* add_connection stamps the entry with the generation of the moment...
add_connection ==
    /\ pc = "apply" /\ Unlocked
    /\ flow' \in {flow, [Decision EXCEPT !.gen = gen]}
    /\ pc' = "stamp"
    /\ UNCHANGED <<gen, policyVars, ownerVars, dst, g, basis, direct, last>>

\* Mutant: the entry keeps the generation add_connection gave it.
udp_flow_stamp_Keep ==
    /\ pc = "stamp" /\ Unlocked
    /\ Passed("checked", basis)
    /\ UNCHANGED <<gen, policyVars, ownerVars, dst, g, direct, flow>>

\* ... and udp_flow_stamp puts back the one read before the rules were asked.
udp_flow_stamp ==
    /\ pc = "stamp" /\ Unlocked
    /\ flow' = IF flow.gen = 0 THEN flow ELSE [flow EXCEPT !.gen = g]
    /\ Passed("checked", basis)
    /\ UNCHANGED <<gen, policyVars, ownerVars, dst, g, direct>>

\* A DIRECT entry reaches its age, a flow its idle time or the cleanup thread,
\* a PID and an owner their time to live.  An entry that could not be allocated
\* is one that expires at once.
Expire ==
    /\ \/ \E s \in Slots : direct' = [direct EXCEPT ![s] = NoEntry(direct[s].dst)]
                           /\ UNCHANGED <<flow, pidCache, known>>
       \/ Unlocked /\ flow' = NoEntry(flow.dst) /\ UNCHANGED <<direct, pidCache, known>>
       \/ Unlocked /\ pidCache' = 0 /\ UNCHANGED <<direct, flow, known>>
       \/ /\ Unlocked /\ \E l \in Layers : known' = [known EXCEPT ![l] = 0]
          /\ UNCHANGED <<direct, flow, pidCache>>
    /\ UNCHANGED <<gen, policyVars, life, handled, obs, packetVars, last>>

----------------------------------------------------------------------------
(* The API thread: a change, then invalidate_udp_decisions; for the rule list *)
(* update_has_active_rules then publishes the flags.                       *)

\* AddRule, EnableRule, DisableRule, DeleteRule, EditRule.
EditRules ==
    /\ api = "idle" /\ rules < MaxEdits
    /\ rules' = rules + 1 /\ list' \in Flags /\ api' = "invalidate_rules"
    /\ UNCHANGED <<gen, active, domain, ownerVars, packetVars, direct, flow, last>>

\* MoveRuleToPosition, the proxy configs and the setters.
ChangeSetting ==
    /\ api = "idle" /\ rules < MaxEdits
    /\ rules' = rules + 1 /\ api' = "invalidate"
    /\ UNCHANGED <<gen, list, active, domain, ownerVars, packetVars, direct, flow, last>>

invalidate_udp_decisions ==
    /\ api \in {"invalidate_rules", "invalidate"}
    /\ gen' = gen + 1
    /\ api' = IF api = "invalidate" THEN "idle" ELSE "set_active"
    /\ UNCHANGED <<rules, list, active, domain, ownerVars, packetVars, direct, flow, last>>

update_has_active_rules ==
    /\ \/ /\ api = "set_active"
          /\ active' = list.active /\ api' = "set_domain" /\ UNCHANGED domain
       \/ /\ api = "set_domain"
          /\ domain' = list.domain /\ api' = "idle" /\ UNCHANGED active
    /\ UNCHANGED <<gen, rules, list, ownerVars, packetVars, direct, flow, last>>

----------------------------------------------------------------------------
(* Sockets of the port and the observers of their events.                  *)

\* External: a socket is bound to the port, or closed.
Socket ==
    /\ life < 2 * MaxEndpoints
    /\ life' = life + 1
    /\ UNCHANGED <<gen, policyVars, handled, obs, known, pidCache, packetVars, direct, flow, last>>

\* Mutant: only a closed endpoint advances the generation.
OpenEvent_NoInvalidate(l) ==
    /\ obs[l] = "recv" /\ handled[l] < life /\ handled[l] % 2 = 0
    /\ handled' = [handled EXCEPT ![l] = @ + 1]
    /\ obs' = [obs EXCEPT ![l] = "update"]
    /\ UNCHANGED <<gen, policyVars, life, known, pidCache, packetVars, direct, flow, last>>

\* cache_owner_event, up to the lock: the generation first.
OpenEvent(l) ==
    /\ obs[l] = "recv" /\ handled[l] < life /\ handled[l] % 2 = 0
    /\ handled' = [handled EXCEPT ![l] = @ + 1]
    /\ gen' = gen + 1
    /\ obs' = [obs EXCEPT ![l] = "update"]
    /\ UNCHANGED <<policyVars, life, known, pidCache, packetVars, direct, flow, last>>

cache_owner_event(l) ==
    /\ obs[l] = "update" /\ Unlocked
    /\ known' = [known EXCEPT ![l] = (handled[l] + 1) \div 2]
    /\ obs' = [obs EXCEPT ![l] = "recv"]
    /\ UNCHANGED <<gen, policyVars, life, handled, pidCache, packetVars, direct, flow, last>>

\* remove_owner_event_endpoint, inside the lock: if the layer's entry has not
\* expired, the generation, then the PID cache and the entry.
CloseEvent(l) ==
    /\ obs[l] = "recv" /\ handled[l] < life /\ handled[l] % 2 = 1 /\ Unlocked
    /\ handled' = [handled EXCEPT ![l] = @ + 1]
    /\ IF known[l] # 0
       THEN gen' = gen + 1 /\ obs' = [obs EXCEPT ![l] = "unlink"]
       ELSE UNCHANGED <<gen, obs>>
    /\ UNCHANGED <<policyVars, life, known, pidCache, packetVars, direct, flow, last>>

remove_owner_event_endpoint(l) ==
    /\ obs[l] = "unlink"
    /\ known' = [known EXCEPT ![l] = 0]
    /\ pidCache' = 0
    /\ obs' = [obs EXCEPT ![l] = "recv"]
    /\ UNCHANGED <<gen, policyVars, life, handled, packetVars, direct, flow, last>>

packet_processor ==
    \/ \E d \in Dests : Recv(d)
    \/ udp_direct_cached \/ udp_flow_validate
    \/ get_owner_event_pid \/ get_cached_pid \/ TableLookup \/ cache_pid
    \/ match_rule \/ ApplyBlock \/ udp_direct_remember \/ add_connection \/ udp_flow_stamp

owner_event_processor(l) ==
    \/ OpenEvent(l) \/ cache_owner_event(l)
    \/ CloseEvent(l) \/ remove_owner_event_endpoint(l)

Next ==
    \/ packet_processor \/ Expire
    \/ EditRules \/ ChangeSetting \/ invalidate_udp_decisions \/ update_has_active_rules
    \/ Socket \/ \E l \in Layers : owner_event_processor(l)

Spec == Init /\ [][Next]_vars

----------------------------------------------------------------------------
(* Properties.                                                             *)

Bases == [dst : Dests, rules : 0..MaxEdits, domain : BOOLEAN, owner : 0..MaxEndpoints,
          src : {"none", "event", "table"}]
Entries == [dst : Dests, gen : 0..gen, basis : Bases]

\* Type invariant; no decision is ahead of the generation.
TypeOK ==
    /\ gen \in Nat \ {0} /\ g \in 0..gen
    /\ rules \in 0..MaxEdits /\ list \in Flags /\ active \in BOOLEAN /\ domain \in BOOLEAN
    /\ api \in {"idle", "invalidate_rules", "invalidate", "set_active", "set_domain"}
    /\ life \in 0..(2 * MaxEndpoints) /\ handled \in [Layers -> 0..life]
    /\ obs \in [Layers -> {"recv", "update", "unlink"}]
    /\ known \in [Layers -> 0..MaxEndpoints] /\ pidCache \in 0..MaxEndpoints
    /\ pc \in {"recv", "direct", "flow", "owner", "pid_cache", "table", "cache_pid",
               "match", "apply", "stamp"}
    /\ dst \in Dests /\ basis \in Bases
    /\ direct \in [Slots -> Entries] /\ flow \in Entries
    /\ last \in [how : {"none", "direct", "flow", "unchecked", "checked", "drop"},
                 dst : Dests, for : Dests]

\* Decisions a datagram could use now; a flow counts once it is stamped.
Remembered == {direct[s] : s \in Slots} \cup (IF pc = "stamp" THEN {} ELSE {flow})
Valid == {e \in Remembered : e.gen = gen}

\* "policy changes invalidate it too": once a call that changed the policy has
\* invalidated the decisions, every decision that can still be used was taken
\* under the new policy, also when the packet thread was between reading the
\* generation, asking the rules and storing the verdict.
PolicyFresh ==
    api \notin {"invalidate_rules", "invalidate"} => \A e \in Valid : e.basis.rules = rules

\* "Destination changes must re-evaluate rules, rather than carrying a PROXY
\* verdict to a new host/port": what passes without a rule check was decided
\* for the same destination, although slots are shared and a port has one flow.
DestinationExact == last.how \in {"direct", "flow"} => last.for = last.dst

\* "UDP owner events ... invalidate it too": once every layer has reported the
\* port's next socket, no usable decision rests on an owner event of an earlier
\* one, although the layers report in any order, entries expire unseen and the
\* packet thread may hold the earlier owner for any time.
ReusedPortForgotten ==
    \A e \in Valid : e.basis.src = "event" =>
        \E l \in Layers : handled[l] < 2 * e.basis.owner + 1
=============================================================================
