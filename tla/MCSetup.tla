------------------------------ MODULE MCSetup ------------------------------
(***************************************************************************)
(* Instances of what a new connection meets besides the tables: the rules  *)
(* (Rules), the list of logged connections (ConnLog), the DNS cache (Dns)  *)
(* and the handshake with the proxy (Handshake).  In this model they share *)
(* no state, so a behaviour has the steps of one of them.                  *)
(***************************************************************************)
EXTENDS Rules

CONSTANTS
    Items, Cap, MaxClears, NoItem,
    DomainLens, HostLen, DstLen, MaxJumps, Buckets, TTL, MaxTime, NoName

VARIABLES
    component,
    logged, count, lpc, item, cut, logging, clears,
    cache, now, todo, phase, offset, left, qname, seen, stored, latest,
    kind, script, hpc, sent, need, got, read, arrived, closed, broke

----------------------------------------------------------------------------
(* Rules and requests.                                                     *)

Body(p, k, t, proto, a, c) ==
    [proc |-> p, kind |-> k, target |-> t, proto |-> proto, action |-> a, cfg |-> c]

\* Two catch-all rules that differ, a filtered wildcard, a process rule for TCP
\* with a domain filter, and what an edit with an empty process list stores.
SomeBodies ==
    {Body("*", "any", "", "BOTH", "PROXY", 2), Body("*", "any", "", "UDP", "BLOCK", 0),
     Body("*", "host", "h", "BOTH", "DIRECT", 0),
     Body("app", "domain", "d", "TCP", "PROXY", 1), Body("", "any", "", "TCP", "BLOCK", 0)}

Request(p, h, d, u, n) == [proc |-> p, host |-> h, domain |-> d, udp |-> u, dns |-> n]
AllRequests ==
    {r \in {Request(p, h, d, u, n) : p \in {"app", "other"}, h \in {"h", "i"},
                                     d \in {"d", "unknown"}, u \in BOOLEAN, n \in BOOLEAN}
       : r.dns => r.udp}

----------------------------------------------------------------------------
(* Responses: names that are plain, compressed, empty, circular, too long  *)
(* or point nowhere; answers of several types; counts that do not fit.     *)

Name(raw, labels) == [raw |-> raw, labels |-> labels]
A    == Name(<<1, 97, 0>>, <<<<97>>>>)
AB   == Name(<<1, 97, 4, 98, 98, 98, 98, 0>>, <<<<97>>, <<98, 98, 98, 98>>>>)
Root == Name(<<0>>, << >>)
Loop == Name(<<192, 12>>, NoName)
Long == Name(<<10>> \o [j \in 1..10 |-> 97] \o <<0>>, NoName)
Ptr  == Name(<<192, 12>>, <<<<97>>>>)
Tail2 == Name(<<1, 120, 192, 12>>, <<<<120>>, <<97>>>>)
Far  == Name(<<255, 255>>, NoName)

Ans(name, type, class, data) == [name |-> name, type |-> type, class |-> class, data |-> data]
a1 == <<10, 0, 0, 1>>
a2 == <<10, 0, 0, 3>>
a6 == [j \in 1..16 |-> 9]

Msg(flags, questions, ancount, answers) ==
    [flags |-> flags, questions |-> questions, ancount |-> ancount, answers |-> answers]
Good == <<129, 128>>
Two == <<Ans(Ptr, 1, 1, a1), Ans(Ptr, 28, 1, a6)>>
Plain == Msg(Good, <<A>>, 2, Two)
Renamed == Msg(Good, <<AB>>, 2, <<Ans(Ptr, 1, 1, a1), Ans(Tail2, 1, 1, a2)>>)

MCResponses ==
    {Plain, Renamed, Msg(Good, <<A, AB>>, 1, Two), Msg(Good, <<A>>, 3, Two), Msg(Good, <<A>>, 0, Two),
     Msg(<<1, 128>>, <<A>>, 2, Two), Msg(<<129, 131>>, <<A>>, 2, Two),
     Msg(Good, <<A, Far>>, 2, Two),
     Msg(Good, <<A>>, 3, <<Ans(Ptr, 5, 1, <<192, 12>>), Ans(Tail2, 1, 3, a2), Ans(Ptr, 1, 1, a1)>>),
     Msg(Good, <<A>>, 3, <<Ans(Ptr, 1, 1, a1), Ans(Far, 1, 1, a2), Ans(Ptr, 28, 1, a6)>>)}
      \cup {Msg(Good, <<q>>, 2, Two) : q \in {Root, Loop, Long}}

----------------------------------------------------------------------------
L == INSTANCE ConnLog WITH pc <- lpc, enabled <- logging
D == INSTANCE Dns WITH Responses <- MCResponses, Followed <- {Plain, Renamed}
H == INSTANCE Handshake WITH pc <- hpc

logVars == <<logged, count, lpc, item, cut, logging, clears>>
dnsVars == <<cache, now, todo, phase, offset, left, qname, seen, stored, latest>>
handshakeVars == <<kind, script, hpc, sent, need, got, read, arrived, closed, broke>>
allVars == <<component, vars, logVars, dnsVars, handshakeVars>>

MCInit ==
    /\ component \in {"rules", "log", "dns", "handshake"}
    /\ Init /\ L!Init /\ D!Init /\ H!Init
    /\ component # "dns" => todo = <<D!Whole(Plain)>>
    /\ component # "handshake" => kind = "v4" /\ script = CHOOSE s \in H!SocksScripts : TRUE

\* Proxy configs together with one rule, or several rules without a config.
RulesStep ==
    /\ component = "rules" /\ Next /\ (nextConfig' > 1 => nextId' <= 2)
    /\ UNCHANGED <<logVars, dnsVars, handshakeVars>>
LogStep == component = "log" /\ L!Next /\ UNCHANGED <<vars, dnsVars, handshakeVars>>
DnsStep == component = "dns" /\ D!Next /\ UNCHANGED <<vars, logVars, handshakeVars>>
HandshakeStep(S) == component = "handshake" /\ S /\ UNCHANGED <<vars, logVars, dnsVars>>

MCNext == (RulesStep \/ LogStep \/ DnsStep \/ HandshakeStep(H!Next)) /\ UNCHANGED component

\* The worker's calls return: sockets have send and receive timeouts.
MCSpec ==
    /\ MCInit /\ [][MCNext]_allVars
    /\ WF_allVars(HandshakeStep(H!Worker) /\ UNCHANGED component)

----------------------------------------------------------------------------
(* The properties of ConnLog, Dns and Handshake, where they are stated in  *)
(* full.                                                                   *)

\* That list stays bounded.
ListBounded == L!ListBounded

\* The DNS parser stays within the payload and its buffers.
InBounds == D!InBounds

\* A DNS response stores the addresses of its complete answers and no others.
StoresExactly == D!StoresExactly

\* A look-up in the DNS cache gives the name last stored, until it expires.
LookupExact == component = "dns" => D!LookupExact

\* A SOCKS5 handshake leaves every byte of the tunnel to the relay.
TunnelUntouched == H!TunnelUntouched

\* The worker takes the proxy's verdict for what it is.
VerdictExact == H!VerdictExact

\* A proxy that stops answering does not hold the connection worker.
Answered == component = "handshake" => H!Answered
=============================================================================
