------------------------------- MODULE Rules -------------------------------
(***************************************************************************)
(* The rule list of pb_rules.c, the list of proxy configs of pb_proxy.c,   *)
(* and how a connection is matched against them.  rules_list is a singly   *)
(* linked list changed in place under g_rules_lock, so a call's relinking  *)
(* is one step; update_has_active_rules is a second one, after the lock.   *)
(* A rule's filters (hosts, ports, domains) are one filter on the host or  *)
(* on the domain; a request has a host and the domain the DNS cache holds  *)
(* for it.                                                                 *)
(***************************************************************************)
EXTENDS Integers, Sequences, FiniteSets, SequencesExt

CONSTANTS
    MaxRules,       \* bound: AddRule calls
    MaxConfigs,     \* bound: AddProxyConfig calls
    Bodies,         \* rule contents: [proc, kind, target, proto, action, cfg],
                    \* kind "any" (no filter), "host" or "domain"
    Requests,       \* connections: [proc, host, domain, udp, dns]
    Null

ASSUME RulesAssumption == MaxRules \in Nat /\ MaxConfigs \in Nat /\ Null \notin 1..MaxRules

Ids == 1..MaxRules

VARIABLES
    head, next,         \* rules_list and the links
    body, enabled,      \* contents, by id; Null when not allocated
    nextId,             \* g_next_rule_id
    active, domain,     \* g_has_active_rules, g_has_domain_rules
    api,                \* "idle", or "flags" before update_has_active_rules
    crashed,            \* a null pointer was followed
    dnsEnabled,         \* g_proxy_udp_dns_enabled
    configs, nextConfig \* g_proxy_configs, g_next_config_id

listVars == <<head, next, body, enabled, nextId>>
flagVars == <<active, domain>>
configVars == <<configs, nextConfig>>
vars == <<listVars, flagVars, api, crashed, dnsEnabled, configVars>>

Init ==
    /\ head = Null /\ next = [i \in Ids |-> Null]
    /\ body = [i \in Ids |-> Null] /\ enabled = [i \in Ids |-> FALSE]
    /\ nextId = 1 /\ active = FALSE /\ domain = FALSE
    /\ api = "idle" /\ crashed = FALSE /\ dnsEnabled = FALSE
    /\ configs = <<>> /\ nextConfig = 1

----------------------------------------------------------------------------
(* Walking the list.                                                       *)

\* The k-th node from h along the links nx, Null outside the list.
Node(h, nx, k) ==
    LET at[n \in Nat] == IF n = 0 THEN Null ELSE IF n = 1 THEN h
                         ELSE LET p == at[n - 1] IN IF p = Null THEN Null ELSE nx[p]
    IN at[k]

Length(h, nx) == Cardinality({k \in Ids : Node(h, nx, k) # Null})

Listed(i) == \E k \in Ids : Node(head, next, k) = i

\* The node before i, Null for the head.
Prev(i) == LET k == CHOOSE k \in Ids : Node(head, next, k) = i
           IN IF k = 1 THEN Null ELSE Node(head, next, k - 1)

\* head and links once p's link, or rules_list, points to i.
HeadAfter(p, i) == IF p = Null THEN i ELSE head
NextAfter(p, i) == IF p = Null THEN next ELSE [next EXCEPT ![p] = i]

----------------------------------------------------------------------------
(* The rule API.                                                           *)

Quiet == api = "idle" /\ ~crashed

ProxyBridge_AddRule(b) ==
    /\ Quiet /\ nextId <= MaxRules /\ b.proc # ""
    /\ LET tail == Node(head, next, Length(head, next))
       IN head' = HeadAfter(tail, nextId) /\ next' = NextAfter(tail, nextId)
    /\ body' = [body EXCEPT ![nextId] = b] /\ enabled' = [enabled EXCEPT ![nextId] = TRUE]
    /\ nextId' = nextId + 1
    /\ api' = "flags"
    /\ UNCHANGED <<flagVars, crashed, dnsEnabled, configVars>>

\* Mutant: the flags are not recomputed.
SetEnabled_NoFlags(i, e) ==
    /\ Quiet /\ Listed(i)
    /\ enabled' = [enabled EXCEPT ![i] = e]
    /\ UNCHANGED <<head, next, body, nextId, flagVars, api, crashed, dnsEnabled, configVars>>

\* EnableRule and DisableRule.
SetEnabled(i, e) ==
    /\ Quiet /\ Listed(i)
    /\ enabled' = [enabled EXCEPT ![i] = e]
    /\ api' = "flags"
    /\ UNCHANGED <<head, next, body, nextId, flagVars, crashed, dnsEnabled, configVars>>

ProxyBridge_EditRule(i, b) ==
    /\ Quiet /\ Listed(i)
    /\ body' = [body EXCEPT ![i] = b]
    /\ api' = "flags"
    /\ UNCHANGED <<head, next, enabled, nextId, flagVars, crashed, dnsEnabled, configVars>>

ProxyBridge_DeleteRule(i) ==
    /\ Quiet /\ Listed(i)
    /\ head' = HeadAfter(Prev(i), next[i])
    /\ next' = [NextAfter(Prev(i), next[i]) EXCEPT ![i] = Null]
    /\ body' = [body EXCEPT ![i] = Null] /\ enabled' = [enabled EXCEPT ![i] = FALSE]
    /\ api' = "flags"
    /\ UNCHANGED <<nextId, flagVars, crashed, dnsEnabled, configVars>>

\* Mutant: the walk stops one node early.
ProxyBridge_MoveRuleToPosition_Early(i, p) ==
    /\ Quiet /\ Listed(i) /\ p >= 1
    /\ LET h == HeadAfter(Prev(i), next[i])
           nx == NextAfter(Prev(i), next[i])
           at == IF Node(h, nx, p - 2) = Null THEN Node(h, nx, Length(h, nx))
                                              ELSE Node(h, nx, p - 2)
       IN \/ /\ p = 1
             /\ head' = i /\ next' = [nx EXCEPT ![i] = h]
          \/ /\ p > 1 /\ h # Null
             /\ head' = h /\ next' = [nx EXCEPT ![i] = nx[at], ![at] = i]
    /\ UNCHANGED <<body, enabled, nextId, flagVars, api, crashed, dnsEnabled, configVars>>

\* The rule is unlinked, giving list h, nx, and put after its (p-1)-th node, or
\* after its last one; the loop that looks for the last one starts at h.
ProxyBridge_MoveRuleToPosition(i, p) ==
    /\ Quiet /\ Listed(i) /\ p >= 1
    /\ LET h == HeadAfter(Prev(i), next[i])
           nx == NextAfter(Prev(i), next[i])
           at == IF Node(h, nx, p - 1) = Null THEN Node(h, nx, Length(h, nx))
                                              ELSE Node(h, nx, p - 1)
       IN \/ /\ p = 1
             /\ head' = i /\ next' = [nx EXCEPT ![i] = h]
             /\ UNCHANGED crashed
          \/ /\ p > 1 /\ h # Null
             /\ head' = h /\ next' = [nx EXCEPT ![i] = nx[at], ![at] = i]
             /\ UNCHANGED crashed
          \/ /\ p > 1 /\ h = Null
             /\ crashed' = TRUE
             /\ UNCHANGED <<head, next>>
    /\ UNCHANGED <<body, enabled, nextId, flagVars, api, dnsEnabled, configVars>>

ProxyBridge_GetRulePosition(i) ==
    IF Listed(i) THEN CHOOSE k \in Ids : Node(head, next, k) = i ELSE 0

Rules == {Node(head, next, k) : k \in Ids} \ {Null}

\* The flags are computed from the list and then published.
update_has_active_rules ==
    /\ api = "flags"
    /\ active' = (\E i \in Rules : enabled[i])
    /\ domain' = (\E i \in Rules : enabled[i] /\ body[i].kind = "domain")
    /\ api' = "idle"
    /\ UNCHANGED <<listVars, crashed, dnsEnabled, configVars>>

ProxyBridge_SetProxyUdpDnsEnabled(e) ==
    /\ Quiet /\ e # dnsEnabled
    /\ dnsEnabled' = e
    /\ UNCHANGED <<listVars, flagVars, api, crashed, configVars>>

----------------------------------------------------------------------------
(* The proxy configs.                                                      *)

Types == {"HTTP", "SOCKS5"}
ConfigIndices(c) == {k \in DOMAIN configs : configs[k].id = c}

ProxyBridge_AddProxyConfig(t) ==
    /\ Quiet /\ nextConfig <= MaxConfigs
    /\ configs' = Append(configs, [id |-> nextConfig, type |-> t])
    /\ nextConfig' = nextConfig + 1
    /\ UNCHANGED <<listVars, flagVars, api, crashed, dnsEnabled>>

ProxyBridge_EditProxyConfig(c, t) ==
    /\ Quiet
    /\ \E k \in ConfigIndices(c) : configs' = [configs EXCEPT ![k].type = t]
    /\ UNCHANGED <<listVars, flagVars, api, crashed, dnsEnabled, nextConfig>>

\* Mutant: the ids are shifted, the rest of the entries is not.
ProxyBridge_DeleteProxyConfig_KeepType(c) ==
    /\ Quiet
    /\ \E k \in ConfigIndices(c) :
          configs' = [j \in 1..(Len(configs) - 1) |->
                        IF j < k THEN configs[j] ELSE [configs[j + 1] EXCEPT !.type = configs[j].type]]
    /\ UNCHANGED <<listVars, flagVars, api, crashed, dnsEnabled, nextConfig>>

ProxyBridge_DeleteProxyConfig(c) ==
    /\ Quiet
    /\ \E k \in ConfigIndices(c) : configs' = RemoveAt(configs, k)
    /\ UNCHANGED <<listVars, flagVars, api, crashed, dnsEnabled, nextConfig>>

\* The config with the id, else the first one; 0 if there is none.
find_proxy_config(c) ==
    IF ConfigIndices(c) # {} THEN CHOOSE k \in ConfigIndices(c) : TRUE
    ELSE IF configs # <<>> THEN 1 ELSE 0

----------------------------------------------------------------------------
(* Matching.                                                               *)

\* PROXY rules take UDP port 53 if and only if the DNS setting says so,
\* whatever their protocol.
ProtocolFits(b, r) ==
    IF r.dns /\ r.udp /\ b.action = "PROXY" THEN dnsEnabled
    ELSE b.proto = "BOTH" \/ (b.proto = "UDP") = r.udp

KnownDomain(r) == IF domain THEN r.domain ELSE "unknown"

FilterFits(b, r) ==
    \/ b.kind = "any"
    \/ b.kind = "host" /\ b.target = r.host
    \/ b.kind = "domain" /\ b.target = KnownDomain(r)

\* An empty process list, which only EditRule can store, matches everything.
ProcessFits(b, r) == b.proc \in {"*", "", r.proc}

CatchAll(b) == b.proc = "*" /\ b.kind = "any"

\* Mutant: the last catch-all rule is kept instead of the first.
match_rule_LastCatchAll(r) ==
    LET walk[k \in 1..(MaxRules + 1), w \in Ids \cup {Null}] ==
            LET i == Node(head, next, k) IN
            IF i = Null THEN w
            ELSE IF ~enabled[i] \/ ~ProtocolFits(body[i], r) THEN walk[k + 1, w]
            ELSE IF CatchAll(body[i]) THEN walk[k + 1, i]
            ELSE IF ProcessFits(body[i], r) /\ FilterFits(body[i], r) THEN i
            ELSE walk[k + 1, w]
    IN walk[1, Null]

\* match_rule: the walk, with the first catch-all rule kept for the end; Null
\* when no rule applies.
match_rule(r) ==
    LET walk[k \in 1..(MaxRules + 1), w \in Ids \cup {Null}] ==
            LET i == Node(head, next, k) IN
            IF i = Null THEN w
            ELSE IF ~enabled[i] \/ ~ProtocolFits(body[i], r) THEN walk[k + 1, w]
            ELSE IF CatchAll(body[i]) THEN walk[k + 1, IF w = Null THEN i ELSE w]
            ELSE IF ProcessFits(body[i], r) /\ FilterFits(body[i], r) THEN i
            ELSE walk[k + 1, w]
    IN walk[1, Null]

\* check_process_rule for a request whose owner is known: the action, and the
\* proxy config that a PROXY rule resolves to.
check_process_rule(r) ==
    LET i == match_rule(r)
        k == find_proxy_config(body[i].cfg)
    IN IF i = Null THEN [action |-> "DIRECT", config |-> 0]
       ELSE IF body[i].action # "PROXY" THEN [action |-> body[i].action, config |-> 0]
       ELSE IF k = 0 \/ (r.udp /\ configs[k].type = "HTTP") THEN [action |-> "BLOCK", config |-> 0]
       ELSE [action |-> "PROXY", config |-> configs[k].id]

RuleApi ==
    \/ \E b \in Bodies : ProxyBridge_AddRule(b)
    \/ \E i \in Ids : \/ \E e \in BOOLEAN : SetEnabled(i, e)
                      \/ \E b \in Bodies : ProxyBridge_EditRule(i, b)
                      \/ ProxyBridge_DeleteRule(i)
                      \/ \E p \in 1..(MaxRules + 1) : ProxyBridge_MoveRuleToPosition(i, p)
    \/ update_has_active_rules

ConfigApi ==
    \E t \in Types : \/ ProxyBridge_AddProxyConfig(t)
                     \/ \E c \in 1..MaxConfigs : \/ ProxyBridge_EditProxyConfig(c, t)
                                                 \/ ProxyBridge_DeleteProxyConfig(c)

Next == RuleApi \/ ConfigApi \/ \E e \in BOOLEAN : ProxyBridge_SetProxyUdpDnsEnabled(e)

Spec == Init /\ [][Next]_vars

----------------------------------------------------------------------------
(* Properties.                                                             *)

\* Type invariant.
TypeOK ==
    /\ head \in Ids \cup {Null} /\ next \in [Ids -> Ids \cup {Null}]
    /\ body \in [Ids -> Bodies \cup {Null}] /\ enabled \in [Ids -> BOOLEAN]
    /\ nextId \in 1..(MaxRules + 1) /\ nextConfig \in 1..(MaxConfigs + 1)
    /\ active \in BOOLEAN /\ domain \in BOOLEAN /\ dnsEnabled \in BOOLEAN
    /\ api \in {"idle", "flags"} /\ crashed \in BOOLEAN
    /\ configs \in Seq([id : 1..MaxConfigs, type : Types])

\* The list in order, and what the API promises of it: the relinking done in
\* place by AddRule, DeleteRule and MoveRuleToPosition implements appending,
\* removing and moving to just the position asked for, keeps every other rule,
\* and makes no cycle.
Order == [k \in 1..Length(head, next) |-> Node(head, next, k)]
Content(b, e) == [rule |-> b, on |-> e]
Abstract == INSTANCE RuleList WITH
    order <- Order,
    body <- [i \in Rules |-> Content(body[i], enabled[i])]
ImplementsList ==
    /\ Abstract!Init
    /\ [][\/ UNCHANGED listVars
          \/ \E b \in Bodies : ProxyBridge_AddRule(b) /\ Abstract!AddLast(nextId, Content(b, TRUE))
          \/ \E i \in Ids :
               \/ \E e \in BOOLEAN : SetEnabled(i, e) /\ Abstract!Change(i, Content(body[i], e))
               \/ \E b \in Bodies :
                     ProxyBridge_EditRule(i, b) /\ Abstract!Change(i, Content(b, enabled[i]))
               \/ ProxyBridge_DeleteRule(i) /\ Abstract!Delete(i)
          \/ /\ UNCHANGED <<body, enabled, nextId>>
             /\ \E i \in Ids, p \in 1..(MaxRules + 1) : Abstract!MoveTo(i, p)
             /\ \A i \in Ids, p \in 1..(MaxRules + 1) :
                  ProxyBridge_MoveRuleToPosition(i, p) => Abstract!MoveTo(i, p)
         ]_(Abstract!rvars)

\* The fast-path flags that packets are passed on, or names looked up by,
\* describe the list whenever no call is in progress.
FlagsExact ==
    api = "idle" =>
        /\ active = (\E i \in Rules : enabled[i])
        /\ domain = (\E i \in Rules : enabled[i] /\ body[i].kind = "domain")

\* The rule that match_rule picks is the first in list order of the enabled
\* rules that fit, catch-all rules counting as if they were last.
Fits(i, r) == /\ enabled[i] /\ ProtocolFits(body[i], r)
              /\ ProcessFits(body[i], r) /\ FilterFits(body[i], r)
Before(i, j) ==
    IF CatchAll(body[i]) = CatchAll(body[j])
    THEN ProxyBridge_GetRulePosition(i) <= ProxyBridge_GetRulePosition(j)
    ELSE CatchAll(body[j])
MatchIsFirst ==
    \A r \in Requests :
        LET fit == {i \in Rules : Fits(i, r)}
        IN match_rule(r) = IF fit = {} THEN Null ELSE CHOOSE i \in fit : \A j \in fit : Before(i, j)

\* Adding or deleting a proxy config leaves the verdict on every connection as it
\* was, although the array is shifted, if the rule that decides names a config
\* that is there before and after.
Resolves(r) == match_rule(r) # Null /\ ConfigIndices(body[match_rule(r)].cfg) # {}
ConfigsStable ==
    [][Len(configs') # Len(configs) =>
         \A r \in Requests :
             Resolves(r) /\ Resolves(r)' => check_process_rule(r)' = check_process_rule(r)]_vars
============================================================================
