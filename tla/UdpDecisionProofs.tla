------------------------- MODULE UdpDecisionProofs -------------------------
(***************************************************************************)
(* Proof that UDP decisions are fresh with respect to the policy, made for *)
(* the datagram's destination, and not those of the port's earlier socket, *)
(* for any number of policy changes, sockets, layers, destinations, slots. *)
(***************************************************************************)
EXTENDS UdpDecision, TLAPS

\* The oldest policy a usable decision may rest on: between a change and its
\* invalidation the one before the change.
Invalidating == api \in {"invalidate_rules", "invalidate"}
Committed == IF Invalidating THEN rules - 1 ELSE rules
Recent(b) == b.rules >= Committed /\ b.rules <= rules

\* What is remembered under the current generation is recent.
FreshInv ==
    /\ \A s \in Slots : direct[s].gen = gen => Recent(direct[s].basis)
    /\ pc # "stamp" /\ flow.gen = gen => Recent(flow.basis)

\* So is a verdict on its way, if the generation read before it still stands.
PacketInv ==
    /\ pc \in {"apply", "stamp"} /\ g = gen => Recent(basis)
    /\ pc \in {"owner", "pid_cache", "table", "cache_pid", "match", "apply"} => flow.gen = 0
    /\ pc = "stamp" /\ flow.gen # 0 => flow.basis = basis

ApiInv == Invalidating => rules >= 1

\* What a layer's owner cache holds is the socket whose opening the layer
\* reported last; its entry outlives the socket's close event only until
\* remove_owner_event_endpoint has unlinked it.
OwnerInv ==
    \A l \in Layers :
        /\ known[l] # 0 => \/ handled[l] = 2 * known[l] - 1
                           \/ handled[l] = 2 * known[l] /\ obs[l] = "unlink"
        /\ obs[l] = "update" => handled[l] % 2 = 1 /\ known[l] = 0

\* Some layer has not reported yet the socket after the one the verdict rests on.
Owned(b) == b.src = "event" => \E l \in Layers : handled[l] < 2 * b.owner + 1

\* It is so for what is remembered under the current generation, and for what
\* the packet thread has found out since it read the generation.
OwnedInv ==
    /\ \A s \in Slots : direct[s].gen = gen => Owned(direct[s].basis)
    /\ pc # "stamp" /\ flow.gen = gen => Owned(flow.basis)
    /\ pc # "recv" /\ g = gen => Owned(basis)

\* A verdict is remembered for the destination it was given for.
DestInv ==
    /\ basis.dst = dst /\ flow.basis.dst = flow.dst
    /\ \A s \in Slots : direct[s].basis.dst = direct[s].dst
    /\ DestinationExact

IInv == TypeOK /\ ApiInv /\ FreshInv /\ PacketInv /\ OwnerInv /\ OwnedInv /\ DestInv

----------------------------------------------------------------------------
\* Typing of what the actions build.
LEMMA NoBasisType == ASSUME NEW d \in Dests PROVE NoBasis(d) \in Bases
  BY UdpAssumption DEF NoBasis, Bases

LEMMA NoEntryType == ASSUME gen \in Nat, NEW d \in Dests PROVE NoEntry(d) \in Entries
  BY NoBasisType DEF NoEntry, Entries

LEMMA RulesType ==
    ASSUME NEW b \in Bases, NEW r \in 0..MaxEdits, NEW f \in BOOLEAN
    PROVE  [b EXCEPT !.rules = r, !.domain = f] \in Bases
  BY DEF Bases

LEMMA OwnerFields ==
    ASSUME NEW b \in Bases, NEW o, NEW w
    PROVE  LET c == [b EXCEPT !.owner = o, !.src = w]
           IN  c.dst = b.dst /\ c.owner = o /\ c.src = w
  BY DEF Bases

LEMMA FlagsType == ASSUME NEW f \in Flags PROVE f.active \in BOOLEAN /\ f.domain \in BOOLEAN
  <1>1. CASE f = [active |-> FALSE, domain |-> FALSE]
    BY <1>1
  <1>2. CASE f = [active |-> TRUE, domain |-> FALSE]
    BY <1>2
  <1>3. CASE f = [active |-> TRUE, domain |-> TRUE]
    BY <1>3
  <1>4. QED
    BY <1>1, <1>2, <1>3 DEF Flags

LEMMA TypeInit == Init => TypeOK
  <1> SUFFICES ASSUME Init PROVE TypeOK
    OBVIOUS
  <1>1. basis \in Bases /\ flow \in Entries /\ direct \in [Slots -> Entries]
    BY NoBasisType, NoEntryType DEF Init
  <1>2. list \in Flags /\ active \in BOOLEAN /\ domain \in BOOLEAN
    BY DEF Init, Flags
  <1>3. QED
    BY <1>1, <1>2, UdpAssumption DEF Init, TypeOK

LEMMA TypeStep == ASSUME TypeOK, [Next]_vars PROVE TypeOK'
<1>1. CASE \E d \in Dests : Recv(d)
  BY UdpAssumption, <1>1 DEF Recv, NoBasis, TypeOK, Bases, Entries, Flags, policyVars, ownerVars, packetVars
<1>2. CASE udp_direct_cached
  <2>1. basis' \in Bases /\ direct[Slot[dst]].basis.dst \in Dests
    BY <1>2, NoBasisType DEF udp_direct_cached, Passed, TypeOK, Entries, Bases, Slots
  <2>2. QED
    BY <1>2, <2>1 DEF udp_direct_cached, Passed, TypeOK, Entries, policyVars, ownerVars, packetVars
<1>3. CASE udp_flow_validate
  <2>1. basis' \in Bases /\ flow' \in Entries /\ flow.basis.dst \in Dests /\ basis.dst \in Dests
    BY <1>3, NoBasisType, NoEntryType, SMTT(30) DEF udp_flow_validate, Passed, TypeOK, Entries, Bases
  <2>2. QED
    BY <1>3, <2>1 DEF udp_flow_validate, Passed, TypeOK, Entries, policyVars, ownerVars, packetVars
<1>4. CASE get_owner_event_pid
  <2>1. basis' \in Bases
    <3>1. CASE UNCHANGED basis
      BY <3>1 DEF TypeOK
    <3>2. CASE \E l \in Layers : /\ known[l] # 0
                                 /\ basis' = [basis EXCEPT !.owner = known[l], !.src = "event"]
      <4>1. PICK o \in 0..MaxEndpoints : basis' = [basis EXCEPT !.owner = o, !.src = "event"]
        BY <3>2 DEF TypeOK
      <4>2. QED
        BY <4>1 DEF TypeOK, Bases
    <3>3. QED
      BY <1>4, <3>1, <3>2 DEF get_owner_event_pid
  <2>2. QED
    BY <1>4, <2>1, ZenonT(30) DEF get_owner_event_pid, TypeOK, Entries, policyVars, ownerVars, packetVars
<1>5. CASE get_cached_pid
  <2>1. basis' \in Bases
    <3>1. CASE pidCache # 0
      BY <1>5, <3>1 DEF get_cached_pid, TypeOK, Bases
    <3>2. CASE pidCache = 0
      BY <1>5, <3>2 DEF get_cached_pid, TypeOK
    <3>3. QED
      BY <3>1, <3>2
  <2>2. QED
    BY <1>5, <2>1 DEF get_cached_pid, TypeOK, Entries, policyVars, ownerVars, packetVars
<1>6. CASE TableLookup
  <2>1. life % 2 = 1 => (life + 1) \div 2 \in 0..MaxEndpoints
    BY UdpAssumption DEF TypeOK
  <2>2. basis' \in Bases /\ basis.dst \in Dests
    <3>1. CASE life % 2 = 1
      <4> DEFINE o == (life + 1) \div 2
      <4>1. basis' = [basis EXCEPT !.owner = o, !.src = "table"]
        BY <1>6, <3>1 DEF TableLookup
      <4>2. o \in 0..MaxEndpoints
        BY <2>1, <3>1
      <4> HIDE DEF o
      <4>3. QED
        BY <4>1, <4>2 DEF TypeOK, Bases
    <3>2. CASE life % 2 = 0
      BY <1>6, <3>2, NoBasisType DEF TableLookup, Passed, TypeOK, Bases
    <3>3. QED
      BY <1>6, <3>1, <3>2 DEF TableLookup
  <2>3. QED
    BY <1>6, <2>2 DEF TableLookup, Passed, TypeOK, Entries, policyVars, ownerVars, packetVars
<1>7. CASE cache_pid
  BY UdpAssumption, <1>7 DEF cache_pid, TypeOK, Bases, Entries, Flags, policyVars, ownerVars, packetVars
<1>8. CASE match_rule
  <2>1. basis' \in Bases
    BY <1>8, RulesType DEF match_rule, TypeOK, policyVars
  <2>2. QED
    BY <1>8, <2>1 DEF match_rule, TypeOK, Entries, policyVars, ownerVars, packetVars
<1>9. CASE ApplyBlock
  BY UdpAssumption, <1>9 DEF ApplyBlock, Passed, NoBasis, TypeOK, Bases, Entries, Flags, policyVars,
     ownerVars, packetVars
<1>10. CASE udp_direct_remember
  BY UdpAssumption, <1>10 DEF udp_direct_remember, Passed, NoBasis, Decision, Slots, TypeOK, Bases,
     Entries, Flags, policyVars, ownerVars, packetVars
<1>11. CASE add_connection
  BY UdpAssumption, <1>11 DEF add_connection, Decision, TypeOK, Bases, Entries, Flags, policyVars,
     ownerVars, packetVars
<1>12. CASE udp_flow_stamp
  BY UdpAssumption, <1>12 DEF udp_flow_stamp, Passed, NoBasis, TypeOK, Bases, Entries, Flags,
     policyVars, ownerVars, packetVars
<1>13. CASE Expire
  <2>1. direct' \in [Slots -> Entries] /\ flow' \in Entries
    BY <1>13, NoEntryType DEF Expire, TypeOK, Entries
  <2>2. QED
    BY <1>13, <2>1, UdpAssumption DEF Expire, TypeOK, Entries, policyVars, ownerVars, packetVars
<1>14. CASE EditRules
  BY UdpAssumption, <1>14 DEF EditRules, TypeOK, Bases, Entries, Flags, policyVars, ownerVars, packetVars
<1>15. CASE ChangeSetting
  BY UdpAssumption, <1>15 DEF ChangeSetting, TypeOK, Bases, Entries, Flags, policyVars, ownerVars, packetVars
<1>16. CASE invalidate_udp_decisions
  BY UdpAssumption, <1>16 DEF invalidate_udp_decisions, TypeOK, Bases, Entries, Flags, policyVars,
     ownerVars, packetVars
<1>17. CASE update_has_active_rules
  <2>1. active' \in BOOLEAN /\ domain' \in BOOLEAN
    BY <1>17, FlagsType DEF update_has_active_rules, TypeOK
  <2>2. QED
    BY <1>17, <2>1 DEF update_has_active_rules, TypeOK, Entries, policyVars, ownerVars, packetVars
<1>18. CASE Socket
  BY UdpAssumption, <1>18 DEF Socket, TypeOK, Bases, Entries, Flags, policyVars, ownerVars, packetVars
<1>19. CASE \E l \in Layers : OpenEvent(l)
  BY UdpAssumption, <1>19 DEF OpenEvent, TypeOK, Bases, Entries, Flags, policyVars, ownerVars, packetVars
<1>20. CASE \E l \in Layers : cache_owner_event(l)
  BY UdpAssumption, <1>20 DEF cache_owner_event, TypeOK, Bases, Entries, Flags, policyVars, ownerVars, packetVars
<1>21. CASE \E l \in Layers : CloseEvent(l)
  BY UdpAssumption, <1>21 DEF CloseEvent, TypeOK, Bases, Entries, Flags, policyVars, ownerVars, packetVars
<1>22. CASE \E l \in Layers : remove_owner_event_endpoint(l)
  BY UdpAssumption, <1>22 DEF remove_owner_event_endpoint, TypeOK, Bases, Entries, Flags, policyVars,
     ownerVars, packetVars
<1>23. CASE UNCHANGED vars
  BY UdpAssumption, <1>23, SMTT(30) DEF vars, TypeOK, Bases, Entries, Flags, policyVars, ownerVars, packetVars
<1>24. QED
  BY <1>1, <1>2, <1>3, <1>4, <1>5, <1>6, <1>7, <1>8, <1>9, <1>10, <1>11, <1>12, <1>13, <1>14, <1>15,
     <1>16, <1>17, <1>18, <1>19, <1>20, <1>21, <1>22, <1>23 DEF Next, packet_processor,
     owner_event_processor

----------------------------------------------------------------------------
\* One step of the packet thread, the API thread, an observer or the cleanup
\* keeps what is remembered, and what is about to be, recent.
LEMMA FreshStep == ASSUME IInv, TypeOK', [Next]_vars PROVE ApiInv' /\ FreshInv' /\ PacketInv'
<1> USE DEF IInv, TypeOK, Entries, Bases, ApiInv, FreshInv, PacketInv, Recent, Committed,
            Invalidating, policyVars, ownerVars, packetVars
<1>1. CASE \E d \in Dests : Recv(d)
  BY <1>1 DEF Recv
<1>2. CASE udp_direct_cached
  BY <1>2 DEF udp_direct_cached, Passed
<1>3. CASE udp_flow_validate
  BY <1>3, SMTT(30) DEF udp_flow_validate, Passed, NoEntry
<1>4. CASE get_owner_event_pid
  BY <1>4 DEF get_owner_event_pid
<1>5. CASE get_cached_pid
  BY <1>5 DEF get_cached_pid
<1>6. CASE TableLookup
  BY <1>6 DEF TableLookup, Passed
<1>7. CASE cache_pid
  BY <1>7 DEF cache_pid
<1>8. CASE match_rule
  BY <1>8 DEF match_rule
<1>9. CASE ApplyBlock
  BY <1>9 DEF ApplyBlock, Passed
<1>10. CASE udp_direct_remember
  BY <1>10 DEF udp_direct_remember, Passed, Decision
<1>11. CASE add_connection
  BY <1>11 DEF add_connection, Decision
<1>12. CASE udp_flow_stamp
  BY <1>12 DEF udp_flow_stamp, Passed
<1>13. CASE Expire
  BY <1>13, SMTT(30), ZenonT(30) DEF Expire, NoEntry
<1>14. CASE EditRules
  BY <1>14 DEF EditRules
<1>15. CASE ChangeSetting
  BY <1>15 DEF ChangeSetting
<1>16. CASE invalidate_udp_decisions
  BY <1>16 DEF invalidate_udp_decisions
<1>17. CASE update_has_active_rules
  BY <1>17 DEF update_has_active_rules
<1>18. CASE Socket
  BY <1>18 DEF Socket
<1>19. CASE \E l \in Layers : OpenEvent(l)
  BY <1>19 DEF OpenEvent
<1>20. CASE \E l \in Layers : cache_owner_event(l)
  BY <1>20 DEF cache_owner_event
<1>21. CASE \E l \in Layers : CloseEvent(l)
  BY <1>21 DEF CloseEvent
<1>22. CASE \E l \in Layers : remove_owner_event_endpoint(l)
  BY <1>22 DEF remove_owner_event_endpoint
<1>23. CASE UNCHANGED vars
  BY <1>23 DEF vars
<1>24. QED
  BY <1>1, <1>2, <1>3, <1>4, <1>5, <1>6, <1>7, <1>8, <1>9, <1>10, <1>11, <1>12, <1>13, <1>14, <1>15,
     <1>16, <1>17, <1>18, <1>19, <1>20, <1>21, <1>22, <1>23 DEF Next, packet_processor,
     owner_event_processor

----------------------------------------------------------------------------
\* An owner cache follows its layer's events; only the observers and the
\* expiry touch it.
LEMMA OwnerStep == ASSUME TypeOK, OwnerInv, [Next]_vars PROVE OwnerInv'
<1> USE DEF TypeOK, OwnerInv
<1>1. CASE UNCHANGED <<handled, obs, known>>
  BY <1>1
<1>2. CASE Expire
  BY <1>2 DEF Expire
<1>3. CASE \E l \in Layers : OpenEvent(l)
  BY <1>3 DEF OpenEvent
<1>4. CASE \E l \in Layers : cache_owner_event(l)
  <2>1. PICK l \in Layers : cache_owner_event(l)
    BY <1>4
  <2>2. PICK k \in Int : known' = [known EXCEPT ![l] = k] /\ handled[l] = 2 * k - 1
    <3>1. handled[l] \in Int /\ handled[l] % 2 = 1
      BY <2>1 DEF cache_owner_event
    <3>2. handled[l] = 2 * ((handled[l] + 1) \div 2) - 1 /\ (handled[l] + 1) \div 2 \in Int
      BY <3>1
    <3>3. QED
      BY <2>1, <3>2 DEF cache_owner_event
  <2>3. obs' = [obs EXCEPT ![l] = "recv"] /\ handled' = handled
    BY <2>1 DEF cache_owner_event
  <2>4. QED
    BY <2>2, <2>3
<1>5. CASE \E l \in Layers : CloseEvent(l)
  BY <1>5 DEF CloseEvent
<1>6. CASE \E l \in Layers : remove_owner_event_endpoint(l)
  BY <1>6 DEF remove_owner_event_endpoint
<1>7. CASE packet_processor
  BY <1>1, <1>7 DEF ownerVars, packet_processor, Recv, udp_direct_cached, udp_flow_validate,
     get_owner_event_pid, get_cached_pid, TableLookup, cache_pid, match_rule, ApplyBlock,
     udp_direct_remember, add_connection, udp_flow_stamp
<1>8. CASE EditRules \/ ChangeSetting \/ invalidate_udp_decisions \/ update_has_active_rules \/ Socket
  BY <1>1, <1>8 DEF ownerVars, EditRules, ChangeSetting, invalidate_udp_decisions, update_has_active_rules, Socket
<1>9. QED
  BY <1>1, <1>2, <1>3, <1>4, <1>5, <1>6, <1>7, <1>8 DEF Next, owner_event_processor, vars, ownerVars

\* Nothing carries a generation that is still to come.
LEMMA Behind ==
    ASSUME TypeOK
    PROVE  g # gen + 1 /\ flow.gen # gen + 1 /\ \A s \in Slots : direct[s].gen # gen + 1
<1>1. gen \in Nat /\ g \in 0..gen /\ flow \in Entries /\ \A s \in Slots : direct[s] \in Entries
  BY DEF TypeOK
<1>2. \A e \in Entries : e.gen # gen + 1
  BY <1>1 DEF Entries
<1>3. QED
  BY <1>1, <1>2

\* The generation advances before a layer reports the next socket, and a close
\* event that leaves it alone does not reach past its own socket.
LEMMA OwnedStep == ASSUME IInv, TypeOK', [Next]_vars PROVE OwnedInv'
<1> USE DEF OwnedInv, Owned, policyVars, ownerVars, packetVars
<1>0. /\ OwnedInv /\ PacketInv /\ OwnerInv
      /\ TypeOK /\ gen \in Nat \ {0} /\ g \in 0..gen /\ basis \in Bases
      /\ flow \in Entries /\ direct \in [Slots -> Entries]
      /\ handled \in [Layers -> Nat] /\ known \in [Layers -> 0..MaxEndpoints]
  BY DEF IInv, TypeOK
<1>1. CASE \E d \in Dests : Recv(d)
  BY <1>0, <1>1 DEF Recv, NoBasis
<1>2. CASE udp_direct_cached
  BY <1>0, <1>2 DEF udp_direct_cached, Usable, Passed, NoBasis
<1>3. CASE udp_flow_validate
  <2>1. /\ UNCHANGED <<gen, g, handled, direct>> /\ pc = "flow"
        /\ flow' \in {flow, NoEntry(dst)}
        /\ pc' = "recv" \/ (pc' = "owner" /\ UNCHANGED basis)
    BY <1>3, Zenon DEF udp_flow_validate, Passed
  <2>2. NoEntry(dst).gen # gen
    <3>1. NoEntry(dst).gen = 0 /\ gen # 0
      BY <1>0, Zenon DEF NoEntry
    <3>2. QED
      BY <3>1
  <2>3. QED
    BY <1>0, <2>1, <2>2
<1>4. CASE get_owner_event_pid
  <2>1. UNCHANGED <<gen, g, handled, direct, flow>> /\ pc = "owner" /\ pc' # "stamp"
    BY <1>4 DEF get_owner_event_pid
  <2>2. CASE \E l \in Layers : /\ known[l] # 0
                               /\ basis' = [basis EXCEPT !.owner = known[l], !.src = "event"]
    <3>1. PICK l \in Layers : /\ known[l] # 0
                              /\ basis' = [basis EXCEPT !.owner = known[l], !.src = "event"]
      BY <2>2
    <3>2. basis'.owner = known[l]
      BY <1>0, <3>1, OwnerFields
    <3>3. handled[l] < 2 * known[l] + 1
      BY <1>0, <3>1 DEF OwnerInv
    <3>4. QED
      BY <1>0, <2>1, <3>2, <3>3
  <2>3. CASE UNCHANGED basis
    BY <1>0, <2>1, <2>3
  <2>4. QED
    BY <1>4, <2>2, <2>3, ZenonT(30) DEF get_owner_event_pid
<1>5. CASE get_cached_pid
  <2>1. UNCHANGED <<gen, g, handled, direct, flow>> /\ pc = "pid_cache" /\ pc' # "stamp"
    BY <1>5 DEF get_cached_pid
  <2>2. CASE basis' = [basis EXCEPT !.owner = pidCache, !.src = "table"]
    <3>1. basis'.src = "table"
      BY <1>0, <2>2, OwnerFields
    <3>2. QED
      BY <1>0, <2>1, <3>1
  <2>3. CASE UNCHANGED basis
    BY <1>0, <2>1, <2>3
  <2>4. QED
    BY <1>5, <2>2, <2>3 DEF get_cached_pid
<1>6. CASE TableLookup
  <2>1. UNCHANGED <<gen, g, handled, direct, flow>> /\ pc = "table" /\ pc' # "stamp"
    BY <1>6 DEF TableLookup, Passed
  <2>2. CASE basis' = [basis EXCEPT !.owner = (life + 1) \div 2, !.src = "table"]
    <3>1. basis'.src = "table"
      BY <1>0, <2>2, OwnerFields
    <3>2. QED
      BY <1>0, <2>1, <3>1
  <2>3. CASE UNCHANGED basis \/ pc' = "recv"
    BY <1>0, <2>1, <2>3
  <2>4. QED
    BY <1>6, <2>2, <2>3, Zenon DEF TableLookup, Passed
<1>7. CASE cache_pid
  BY <1>0, <1>7 DEF cache_pid
<1>8. CASE match_rule
  BY <1>0, <1>8 DEF match_rule
<1>9. CASE ApplyBlock
  BY <1>0, <1>9 DEF ApplyBlock, Passed, NoBasis
<1>10. CASE udp_direct_remember
  BY <1>0, <1>10 DEF udp_direct_remember, Passed, NoBasis, Decision
<1>11. CASE add_connection
  BY <1>0, <1>11 DEF add_connection, Decision
<1>12. CASE udp_flow_stamp
  <2>1. UNCHANGED <<gen, g, handled, direct>> /\ pc = "stamp" /\ pc' = "recv"
    BY <1>12 DEF udp_flow_stamp, Passed
  <2>2. CASE flow.gen = 0
    BY <1>0, <1>12, <2>1, <2>2 DEF udp_flow_stamp
  <2>3. CASE flow.gen # 0
    <3>1. flow'.gen = g /\ flow'.basis = basis
      BY <1>0, <1>12, <2>1, <2>3 DEF udp_flow_stamp, PacketInv, Entries
    <3>2. QED
      BY <1>0, <2>1, <3>1
  <2>4. QED
    BY <2>2, <2>3
<1>13. CASE Expire
  <2>1. UNCHANGED <<gen, g, handled, basis, pc>>
    BY <1>13 DEF Expire
  <2>2. \A d \in Dests : NoEntry(d).gen # gen
    BY <1>0 DEF NoEntry
  <2>3. flow.dst \in Dests /\ \A s \in Slots : direct[s].dst \in Dests
    BY <1>0 DEF Entries
  <2>4. flow' = flow \/ flow'.gen # gen
    BY <1>13, <2>2, <2>3 DEF Expire
  <2>5. \A s \in Slots : direct'[s] = direct[s] \/ direct'[s].gen # gen
    BY <1>0, <1>13, <2>2, <2>3 DEF Expire
  <2>6. QED
    BY <1>0, <2>1, <2>4, <2>5
<1>14. CASE EditRules
  BY <1>0, <1>14 DEF EditRules
<1>15. CASE ChangeSetting
  BY <1>0, <1>15 DEF ChangeSetting
<1>16. CASE invalidate_udp_decisions
  BY <1>0, <1>16, Behind DEF invalidate_udp_decisions
<1>17. CASE update_has_active_rules
  BY <1>0, <1>17 DEF update_has_active_rules
<1>18. CASE Socket
  BY <1>0, <1>18 DEF Socket
<1>19. CASE \E l \in Layers : OpenEvent(l)
  BY <1>0, <1>19, Behind DEF OpenEvent
<1>20. CASE \E l \in Layers : cache_owner_event(l)
  BY <1>0, <1>20 DEF cache_owner_event
<1>21. CASE \E l \in Layers : CloseEvent(l)
  <2>1. PICK l \in Layers : CloseEvent(l)
    BY <1>21
  <2>2. /\ UNCHANGED <<g, basis, pc, direct, flow>> /\ gen' \in {gen, gen + 1}
        /\ handled[l] % 2 = 1 /\ handled' = [handled EXCEPT ![l] = @ + 1]
    BY <2>1 DEF CloseEvent
  <2>3. ASSUME NEW b \in Bases, Owned(b) PROVE Owned(b)'
    <3>1. b.owner \in Nat
      BY DEF Bases
    <3>2. QED
      BY <1>0, <2>2, <2>3, <3>1
  <2>4. gen' = gen \/ (g # gen' /\ flow.gen # gen' /\ \A s \in Slots : direct[s].gen # gen')
    BY <1>0, <2>2, Behind
  <2>5. flow.basis \in Bases /\ \A s \in Slots : direct[s].basis \in Bases
    BY <1>0 DEF Entries
  <2> HIDE DEF Owned
  <2>6. QED
    BY <1>0, <2>2, <2>3, <2>4, <2>5
<1>22. CASE \E l \in Layers : remove_owner_event_endpoint(l)
  BY <1>0, <1>22 DEF remove_owner_event_endpoint
<1>23. CASE UNCHANGED vars
  BY <1>0, <1>23 DEF vars
<1>24. QED
  BY <1>1, <1>2, <1>3, <1>4, <1>5, <1>6, <1>7, <1>8, <1>9, <1>10, <1>11, <1>12, <1>13, <1>14, <1>15,
     <1>16, <1>17, <1>18, <1>19, <1>20, <1>21, <1>22, <1>23, ZenonT(30) DEF Next, packet_processor,
     owner_event_processor

\* Whatever a slot or the port's flow is reused for, it names the destination
\* of its verdict.
LEMMA DestStep == ASSUME TypeOK, DestInv, TypeOK', [Next]_vars PROVE DestInv'
<1> USE DEF TypeOK, Entries, Bases, DestInv, DestinationExact, policyVars, ownerVars, packetVars
<1>1. CASE \E d \in Dests : Recv(d)
  BY <1>1 DEF Recv, NoBasis
<1>2. CASE udp_direct_cached
  <2>1. Slot[dst] \in Slots /\ UNCHANGED <<dst, direct, flow>>
    BY <1>2 DEF udp_direct_cached, Slots
  <2>2. CASE Usable(direct[Slot[dst]])
    BY <1>2, <2>1, <2>2 DEF udp_direct_cached, Usable, Passed, NoBasis
  <2>3. CASE ~Usable(direct[Slot[dst]])
    BY <1>2, <2>1, <2>3 DEF udp_direct_cached
  <2>4. QED
    BY <2>2, <2>3
<1>3. CASE udp_flow_validate
  BY <1>3 DEF udp_flow_validate, Usable, Passed, NoBasis, NoEntry
<1>4. CASE get_owner_event_pid
  <2>1. basis'.dst = basis.dst
    <3>1. CASE \E o \in 0..MaxEndpoints : basis' = [basis EXCEPT !.owner = o, !.src = "event"]
      BY <3>1, OwnerFields
    <3>2. QED
      BY <1>4, <3>1 DEF get_owner_event_pid
  <2>2. QED
    BY <1>4, <2>1, ZenonT(30) DEF get_owner_event_pid
<1>5. CASE get_cached_pid
  <2>1. basis'.dst = basis.dst
    <3>1. CASE basis' = [basis EXCEPT !.owner = pidCache, !.src = "table"]
      BY <3>1, OwnerFields
    <3>2. QED
      BY <1>5, <3>1 DEF get_cached_pid
  <2>2. QED
    BY <1>5, <2>1 DEF get_cached_pid
<1>6. CASE TableLookup
  <2>1. UNCHANGED <<dst, direct, flow>> /\ (UNCHANGED last \/ last'.how \in {"unchecked", "drop"})
    BY <1>6 DEF TableLookup, Passed
  <2>2. basis'.dst = dst
    <3>1. CASE basis' = [basis EXCEPT !.owner = (life + 1) \div 2, !.src = "table"]
      BY <3>1, OwnerFields
    <3>2. CASE basis' \in {basis, NoBasis(dst)}
      BY <3>2 DEF NoBasis
    <3>3. QED
      BY <1>6, <3>1, <3>2 DEF TableLookup, Passed
  <2>3. QED
    BY <2>1, <2>2
<1>7. CASE cache_pid
  BY <1>7 DEF cache_pid
<1>8. CASE match_rule
  BY <1>8 DEF match_rule
<1>9. CASE ApplyBlock
  BY <1>9 DEF ApplyBlock, Passed, NoBasis
<1>10. CASE udp_direct_remember
  BY <1>10 DEF udp_direct_remember, Passed, NoBasis, Decision
<1>11. CASE add_connection
  BY <1>11 DEF add_connection, Decision
<1>12. CASE udp_flow_stamp
  BY <1>12 DEF udp_flow_stamp, Passed, NoBasis
<1>13. CASE Expire
  BY <1>13 DEF Expire, NoEntry, NoBasis
<1>14. CASE EditRules
  BY <1>14 DEF EditRules
<1>15. CASE ChangeSetting
  BY <1>15 DEF ChangeSetting
<1>16. CASE invalidate_udp_decisions
  BY <1>16 DEF invalidate_udp_decisions
<1>17. CASE update_has_active_rules
  BY <1>17 DEF update_has_active_rules
<1>18. CASE Socket
  BY <1>18 DEF Socket
<1>19. CASE \E l \in Layers : OpenEvent(l)
  BY <1>19 DEF OpenEvent
<1>20. CASE \E l \in Layers : cache_owner_event(l)
  BY <1>20 DEF cache_owner_event
<1>21. CASE \E l \in Layers : CloseEvent(l)
  BY <1>21 DEF CloseEvent
<1>22. CASE \E l \in Layers : remove_owner_event_endpoint(l)
  BY <1>22 DEF remove_owner_event_endpoint
<1>23. CASE UNCHANGED vars
  BY <1>23 DEF vars
<1>24. QED
  BY <1>1, <1>2, <1>3, <1>4, <1>5, <1>6, <1>7, <1>8, <1>9, <1>10, <1>11, <1>12, <1>13, <1>14, <1>15,
     <1>16, <1>17, <1>18, <1>19, <1>20, <1>21, <1>22, <1>23, ZenonT(30) DEF Next, packet_processor,
     owner_event_processor

LEMMA Invariance == Spec => []IInv
<1>1. Init => IInv
  BY TypeInit DEF Init, IInv, ApiInv, FreshInv, PacketInv, OwnerInv, OwnedInv, Owned, DestInv,
                  DestinationExact, Invalidating, NoEntry, NoBasis
<1>2. IInv /\ [Next]_vars => IInv'
  BY TypeStep, FreshStep, OwnerStep, OwnedStep, DestStep DEF IInv
<1>3. QED
  BY <1>1, <1>2, PTL DEF Spec

\* The variables keep their types, and no decision is ahead of the generation,
\* whatever the packet thread, the API thread and the observers do.
THEOREM Typing == Spec => []TypeOK
<1>1. IInv => TypeOK
  BY DEF IInv
<1>2. QED
  BY <1>1, Invariance, PTL

\* Every UDP decision that can be used once a policy change has invalidated the
\* older ones was taken under the new policy: reading the generation before the
\* rules, and changing the policy before the generation, is enough.
THEOREM Freshness == Spec => []PolicyFresh
<1>1. IInv => PolicyFresh
  <2> SUFFICES ASSUME IInv, ~Invalidating, NEW e \in Valid PROVE e.basis.rules = rules
    BY DEF PolicyFresh, Invalidating
  <2>1. rules \in Nat /\ e.gen = gen /\ Committed = rules
    BY UdpAssumption DEF IInv, TypeOK, Valid, Committed
  <2>2. CASE \E s \in Slots : e = direct[s]
    <3>1. PICK s \in Slots : e = direct[s]
      BY <2>2
    <3>2. direct[s] \in Entries
      BY DEF IInv, TypeOK
    <3>3. e.basis.rules \in Nat
      BY <3>1, <3>2 DEF Entries, Bases
    <3>4. Recent(e.basis)
      BY <2>1, <3>1 DEF IInv, FreshInv
    <3>5. QED
      BY <2>1, <3>3, <3>4 DEF Recent
  <2>3. CASE pc # "stamp" /\ e = flow
    BY <2>1, <2>3 DEF IInv, FreshInv, Recent, TypeOK, Entries, Bases
  <2>4. QED
    BY <2>2, <2>3 DEF Valid, Remembered
<1>2. QED
  BY <1>1, Invariance, PTL

\* A datagram passed without a rule check is passed on a verdict for its own
\* destination, although destinations share slots and a port has one flow.
THEOREM Destination == Spec => []DestinationExact
<1>1. IInv => DestinationExact
  BY DEF IInv, DestInv
<1>2. QED
  BY <1>1, Invariance, PTL

\* No usable decision rests on an owner event of a socket that every layer has
\* seen replaced: however the two layers' events, the expiry of their entries
\* and a packet thread that still holds the old owner interleave.
THEOREM Reuse == Spec => []ReusedPortForgotten
<1>1. IInv => ReusedPortForgotten
  BY DEF IInv, OwnedInv, Owned, ReusedPortForgotten, Valid, Remembered
<1>2. QED
  BY <1>1, Invariance, PTL
=============================================================================
