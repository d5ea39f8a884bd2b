----------------------------- MODULE MCUdpRelay -----------------------------
(***************************************************************************)
(* Instances of UdpRelay: IPv4 port p4 with the destinations d1 and d2,    *)
(* IPv6 port p6 with d6.                                                   *)
(*                                                                         *)
(* The safety run takes two configurations and one of four parts of the    *)
(* environment, chosen at the start: configuration calls and faults of the *)
(* proxies; traffic of either family, with faults of one proxy;            *)
(* configuration calls and traffic.  All of them at once are out of reach  *)
(* with two configurations; the liveness run has them with one.            *)
(***************************************************************************)
EXTENDS UdpRelay, TLC

CONSTANTS p4, p6, d1, d2, d6, hA

VARIABLE part

MCDecide == (d1 :> 1) @@ (d2 :> 2) @@ (d6 :> 2)
LiveDecide == [d \in Dests |-> 1]

Redirects(P) == \E p \in P, d \in Dests : Redirect(p, d)

Traffic(p) == Redirects({p}) \/ Expire(p) \/ Deliver

\* The proxies: time passes, d answers, and control connections end: all of them,
\* or that of d's configuration.
For(d, k) == Decide[d] = configs[k].id
Proxies(d) ==
    \E k \in 1..Len(configs) : Tick(k) \/ Hangup(k) \/ (For(d, k) /\ Reply(k, d))
ProxyOf(d) ==
    \E k \in 1..Len(configs) : Tick(k) \/ (For(d, k) /\ (Hangup(k) \/ Reply(k, d)))

PartNext ==
    /\ UNCHANGED part
    /\ \/ Relay
       \/ part = "links" /\ (Api \/ Proxies(d1))
       \/ part = "traffic4" /\ (Traffic(p4) \/ ProxyOf(d1))
       \/ part = "traffic6" /\ (Traffic(p6) \/ ProxyOf(d6))
       \/ part = "calls" /\ (Api \/ Redirects(Ports) \/ \E k \in 1..Len(configs) : Tick(k))
       \/ Done

\* The array is full at the start where there is traffic; where there is none it
\* may lack a configuration, which can then be added.
PartInit ==
    /\ Init /\ part \in {"links", "traffic4", "traffic6", "calls"}
    /\ part # "links" => Len(configs) = NStart

PartSpec == PartInit /\ [][PartNext]_<<vars, part>>

\* Spec with its fairness and everything at once.
LiveInit == Init /\ part = "all"

LiveSpec == LiveInit /\ [][Next /\ UNCHANGED part]_<<vars, part>> /\ Fairness
=============================================================================
