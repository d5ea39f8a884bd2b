---------------------------- MODULE TcpDecision ----------------------------
(***************************************************************************)
(* The TCP path of packet_processor for one source port: the fast path on  *)
(* the port's bits in port_decided_bitmap and port_direct_bitmap, the      *)
(* redirection of tracked connections, and the rule check.  An IPv4 and an *)
(* IPv6 connection may use the port at the same time; they have their own  *)
(* conntrack entries and share the bits.  The packet thread races with the *)
(* setters of the API thread, which clear both bitmaps word by word, with  *)
(* rule edits, which do not, and with the cleanup thread.                  *)
(***************************************************************************)
EXTENDS Integers

CONSTANTS
    Fams,           \* address families of the connections on the port
    MaxToggles      \* bound: calls of the setters that clear the bitmaps

Verdicts == {"DIRECT", "PROXY", "BLOCK"}
Outcomes == {"none", "direct", "redirect", "drop"}

VARIABLES
    decided, direct,    \* the port's bits
    tracked,            \* is_connection_tracked, per family
    policy,             \* what check_process_rule answers, per family
    api,                \* the setter: "idle", "decided" or "direct" (next to clear)
    toggles,            \* calls of the setters so far
    pc,                 \* packet thread: "recv", "check", "apply" or "set_direct"
    fam,                \* family of the packet it handles
    verdict,            \* what the rule check said; "uncached" without an owner
    own,                \* last verdict on the current connection, per family;
                        \* "older" for one that predates the engine
    sinceSyn,           \* verdicts since the last SYN from the port
    last                \* the previous packet: see Done

bits == <<decided, direct>>
history == <<own, sinceSyn>>
vars == <<bits, tracked, policy, api, toggles, pc, fam, verdict, history, last>>

Init ==
    /\ decided = FALSE /\ direct = FALSE
    /\ tracked = [f \in Fams |-> FALSE]
    /\ policy \in [Fams -> Verdicts]
    /\ api = "idle" /\ toggles = 0
    /\ pc = "recv" /\ fam \in Fams /\ verdict = "none"
    /\ own = [f \in Fams |-> "older"] /\ sinceSyn = {}
    /\ last = [fam |-> fam, tracked |-> FALSE, outcome |-> "none", cached |-> FALSE]

\* The packet is passed on unchanged, redirected to the relay, or dropped.
Done(f, t, how, fast) ==
    /\ pc' = "recv"
    /\ last' = [fam |-> f, tracked |-> t, outcome |-> how, cached |-> fast]

----------------------------------------------------------------------------
(* Outbound packets of the application.                                    *)

\* A packet on a connection the fast path does not pass and conntrack does not
\* know: FIN and RST go through, anything else needs a rule check.
Untracked(f, teardown) ==
    IF teardown THEN Done(f, FALSE, "direct", FALSE) /\ UNCHANGED fam
                ELSE /\ pc' = "check" /\ fam' = f
                     /\ last' = [last EXCEPT !.outcome = "none", !.cached = FALSE]

\* Mutants: only the conntrack entry is reset; only the bits are.
Syn_KeepBits(f) ==
    /\ pc = "recv"
    /\ tracked' = [tracked EXCEPT ![f] = FALSE]
    /\ own' = [own EXCEPT ![f] = "none"] /\ sinceSyn' = {}
    /\ IF decided /\ direct
       THEN Done(f, FALSE, "direct", TRUE) /\ UNCHANGED fam
       ELSE Untracked(f, FALSE)
    /\ UNCHANGED <<bits, policy, api, toggles, verdict>>

Syn_KeepEntry(f) ==
    /\ pc = "recv"
    /\ own' = [own EXCEPT ![f] = "none"] /\ sinceSyn' = {}
    /\ decided' = FALSE /\ direct' = FALSE
    /\ Untracked(f, FALSE)
    /\ UNCHANGED <<tracked, policy, api, toggles, verdict>>

\* A SYN: reset_stale_tcp_state forgets the port's previous connection of this
\* family and clears the shared bits; then the rules are asked.
Syn(f) ==
    /\ pc = "recv"
    /\ tracked' = [tracked EXCEPT ![f] = FALSE]
    /\ own' = [own EXCEPT ![f] = "none"] /\ sinceSyn' = {}
    /\ decided' = FALSE /\ direct' = FALSE
    /\ Untracked(f, FALSE)
    /\ UNCHANGED <<policy, api, toggles, verdict>>

\* A later packet: consume_direct_decision (FIN and RST clear the bits), then
\* the redirection of a tracked connection, whose RST removes it.
Segment(f, fin, rst) ==
    /\ pc = "recv"
    /\ decided' = (decided /\ ~fin /\ ~rst)
    /\ direct' = (direct /\ ~(decided /\ (fin \/ rst)) /\ ~(tracked[f] /\ rst))
    /\ IF decided /\ direct
       THEN Done(f, tracked[f], "direct", TRUE) /\ UNCHANGED <<tracked, fam>>
       ELSE IF tracked[f]
       THEN /\ Done(f, TRUE, "redirect", FALSE)
            /\ tracked' = [tracked EXCEPT ![f] = ~rst]
            /\ UNCHANGED fam
       ELSE Untracked(f, fin \/ rst) /\ UNCHANGED tracked
    /\ UNCHANGED <<policy, api, toggles, verdict, history>>

\* check_process_rule: loopback bypass, no active rules, or an owner that is
\* not found pass the packet without caching it; the last may also block it.
Check ==
    /\ pc = "check"
    /\ verdict' \in {policy[fam], "BLOCK", "uncached"}
    /\ own' = [own EXCEPT ![fam] = verdict']
    /\ sinceSyn' = sinceSyn \cup {verdict'}
    /\ pc' = "apply"
    /\ UNCHANGED <<bits, tracked, policy, api, toggles, fam, last>>

\* The verdict is applied; port_set_direct sets the decided bit first.
Apply ==
    /\ pc = "apply"
    /\ \/ /\ verdict = "uncached"
          /\ Done(fam, FALSE, "direct", FALSE)
          /\ UNCHANGED <<bits, tracked>>
       \/ /\ verdict = "DIRECT"
          /\ decided' = TRUE
          /\ pc' = "set_direct"
          /\ UNCHANGED <<direct, tracked, last>>
       \/ /\ verdict = "BLOCK"
          /\ decided' = TRUE
          /\ Done(fam, FALSE, "drop", FALSE)
          /\ UNCHANGED <<direct, tracked>>
       \/ /\ verdict = "PROXY"
          /\ tracked' = [tracked EXCEPT ![fam] = TRUE]
          /\ decided' = TRUE
          /\ Done(fam, FALSE, "redirect", FALSE)
          /\ UNCHANGED direct
    /\ UNCHANGED <<policy, api, toggles, fam, verdict, history>>

SetDirect ==
    /\ pc = "set_direct"
    /\ direct' = TRUE
    /\ Done(fam, FALSE, "direct", FALSE)
    /\ UNCHANGED <<decided, tracked, policy, api, toggles, fam, verdict, history>>

\* A packet of the relay to the application: RST removes the entry.
RelaySegment(f, rst) ==
    /\ pc = "recv" /\ tracked[f]
    /\ tracked' = [tracked EXCEPT ![f] = ~rst]
    /\ UNCHANGED <<bits, policy, api, toggles, pc, fam, verdict, history, last>>

----------------------------------------------------------------------------
(* The other threads.                                                      *)

\* Rule and proxy edits, and setters that only invalidate UDP decisions.
EditRules ==
    /\ api = "idle"
    /\ \E f \in Fams, v \in Verdicts : policy' = [policy EXCEPT ![f] = v]
    /\ UNCHANGED <<bits, tracked, api, toggles, pc, fam, verdict, history, last>>

\* ProxyBridge_SetLoopbackBypassEnabled, ProxyBridge_SetProxyUdpDnsEnabled: the
\* flag, then the port's word of either bitmap.
Toggle ==
    /\ api = "idle" /\ toggles < MaxToggles
    /\ toggles' = toggles + 1
    /\ api' = "decided"
    /\ UNCHANGED <<bits, tracked, policy, pc, fam, verdict, history, last>>

ClearDecided ==
    /\ api = "decided"
    /\ decided' = FALSE
    /\ api' = "direct"
    /\ UNCHANGED <<direct, tracked, policy, toggles, pc, fam, verdict, history, last>>

ClearDirect ==
    /\ api = "direct"
    /\ direct' = FALSE
    /\ api' = "idle"
    /\ UNCHANGED <<decided, tracked, policy, toggles, pc, fam, verdict, history, last>>

\* cleanup_stale_connections drops the entry.
Expire(f) ==
    /\ tracked[f]
    /\ tracked' = [tracked EXCEPT ![f] = FALSE]
    /\ UNCHANGED <<bits, policy, api, toggles, pc, fam, verdict, history, last>>

\* The IPv6 part of packet_processor does what the IPv4 part does.
Next ==
    \/ \E f \in Fams : \/ Syn(f) \/ Expire(f)
                       \/ Segment(f, FALSE, FALSE) \/ Segment(f, TRUE, FALSE)
                       \/ Segment(f, FALSE, TRUE)
                       \/ \E rst \in BOOLEAN : RelaySegment(f, rst)
    \/ Check \/ Apply \/ SetDirect
    \/ EditRules \/ Toggle \/ ClearDecided \/ ClearDirect

Spec == Init /\ [][Next]_vars

----------------------------------------------------------------------------
(* Properties.                                                             *)

\* Type invariant.
TypeOK ==
    /\ decided \in BOOLEAN /\ direct \in BOOLEAN
    /\ tracked \in [Fams -> BOOLEAN]
    /\ policy \in [Fams -> Verdicts]
    /\ api \in {"idle", "decided", "direct"} /\ toggles \in 0..MaxToggles
    /\ pc \in {"recv", "check", "apply", "set_direct"} /\ fam \in Fams
    /\ verdict \in Verdicts \cup {"none", "uncached"}
    /\ own \in [Fams -> Verdicts \cup {"none", "older", "uncached"}]
    /\ sinceSyn \subseteq Verdicts \cup {"uncached"}
    /\ last \in [fam : Fams, tracked : BOOLEAN, outcome : Outcomes, cached : BOOLEAN]

\* A connection that was redirected to the relay stays with it: as long as it
\* is tracked, none of its packets is passed to the network unchanged.  Only a
\* setter that clears the bits under the packet thread, or a verdict on the
\* other family's connection, can take it away.
TrackedNeverDirect ==
    toggles = 0 /\ (\A f \in Fams \ {last.fam} : own[f] = "older")
        => ~(last.tracked /\ last.outcome = "direct")

\* "a verdict cached for an IPv4 connection must not be inherited by a new IPv6
\* connection that happens to reuse the port number, or vice versa": what the
\* fast path passes belongs to a connection whose own verdict was DIRECT with
\* a known owner, if its SYN was seen.
InheritsNoVerdict == last.cached => own[last.fam] \in {"DIRECT", "older"}

\* A SYN starts the port afresh: the fast path passes only what some check
\* since the last SYN from the port has found DIRECT, however the setters'
\* clearing interleaves with port_set_direct and whatever the two families do.
ReuseStartsAfresh == last.cached => "DIRECT" \in sinceSyn
=============================================================================
