----------------------------- MODULE Handshake -----------------------------
(***************************************************************************)
(* A connection worker asks a proxy for a tunnel, or the UDP relay for an  *)
(* association, over a TCP connection that delivers the proxy's bytes in   *)
(* segments of any size.  What the worker leaves unread belongs to the     *)
(* tunnel and is relayed to the application.                               *)
(***************************************************************************)
EXTENDS Integers, Sequences, FiniteSets

CONSTANTS
    DomainLens, \* lengths of a BND.ADDR of type domain
    HostLen     \* length of the host name of a domain request

Socks == {"v4", "v6", "domain", "udp"}
Http  == {"http4", "http6"}

\* Bytes of an HTTP reply: "HTTP/1.", the space, digits of the status, other
\* bytes of the header, bytes of the tunnel.
Version == 1
Space == 2
Other == 3
Digit(n) == 48 + n
Tunnel == <<300, 301>>
Fill(n) == [j \in 1..n |-> 7]

\* What a proxy may say: the answer to the greeting, then the one to the request.
\* A refusal ends with the bytes that say so.
ReplyAddresses == {<<1>> \o Fill(4), <<4>> \o Fill(16)}
                    \cup {<<3, n>> \o Fill(n) : n \in DomainLens}
SocksScripts ==
    {[method |-> <<5, 0>>, reply |-> <<5, 0, 0>> \o a \o Fill(2), grant |-> TRUE] : a \in ReplyAddresses}
      \cup {[method |-> <<5, 0>>, reply |-> r, grant |-> FALSE] :
              r \in {<<5, 5, 0, 1>> \o Fill(6), <<4, 0, 0, 1>> \o Fill(6), <<5, 0, 0, 9>> \o Fill(6)}}
      \cup {[method |-> m, reply |-> << >>, grant |-> FALSE] : m \in {<<5, 255>>, <<4, 0>>}}
HttpScripts ==
    {[method |-> << >>, reply |-> <<Version, Space>> \o c \o <<Other, Other>>,
      grant |-> c = <<Digit(2), Digit(0), Digit(0)>>]
       : c \in {<<Digit(2), Digit(0), Digit(0)>>, <<Digit(4), Digit(0), Digit(3)>>}}

VARIABLES
    kind,       \* the function that is called
    script,     \* what the proxy says
    pc,         \* the message being sent or the field being read
    sent,       \* bytes of that message sent
    need,       \* bytes of that field
    got,        \* bytes of that field read
    read,       \* bytes of the stream read
    arrived,    \* bytes of the stream that have arrived
    closed,     \* the proxy has closed the connection
    broke       \* a call failed or timed out
proxyVars == <<arrived, closed>>
vars == <<kind, script, pc, sent, need, got, read, arrived, closed, broke>>

Init ==
    /\ \/ kind \in Socks /\ script \in SocksScripts
       \/ kind \in Http /\ script \in HttpScripts
    /\ pc = (IF kind \in Socks THEN "greeting" ELSE "connect")
    /\ sent = 0 /\ need = 0 /\ got = << >>
    /\ read = 0 /\ arrived = 0 /\ closed = FALSE /\ broke = FALSE

Stream == script.method \o script.reply \o (IF script.grant THEN Tunnel ELSE << >>)
ReplyEnd == Len(script.method) + Len(script.reply)

RequestLength == [v4 |-> 10, v6 |-> 22, domain |-> 7 + HostLen, udp |-> 10, http4 |-> 1, http6 |-> 1]
Length == IF pc = "greeting" THEN 3 ELSE RequestLength[kind]

Read(field, n) == pc' = field /\ need' = n /\ got' = << >>
Return(r) == pc' = r /\ need' = 0 /\ got' = << >>

----------------------------------------------------------------------------
\* send_all: the message goes out in parts.
SendAll ==
    /\ pc \in {"greeting", "request"}
    /\ \E n \in 1..(Length - sent) :
         IF sent + n < Length
         THEN sent' = sent + n /\ UNCHANGED <<pc, need, got>>
         ELSE sent' = 0 /\ (IF pc = "greeting" THEN Read("method", 2) ELSE Read("header", 4))
    /\ UNCHANGED <<kind, script, read, proxyVars, broke>>

\* http_connect: one send, one recv of any length.
SendHttp ==
    /\ pc = "connect" /\ Read("http", 0)
    /\ UNCHANGED <<kind, script, sent, read, proxyVars, broke>>

\* send fails, times out or, for HTTP, is partial.
SendFails ==
    /\ pc \in {"greeting", "request", "connect"}
    /\ Return("failed") /\ sent' = 0 /\ broke' = TRUE
    /\ UNCHANGED <<kind, script, read, proxyVars>>

\* Mutant: the reply's address has the type that was asked for.
Complete_OwnType(f) ==
    \/ pc = "method" /\ IF f = <<5, 0>> THEN Return("request") ELSE Return("failed")
    \/ /\ pc = "header"
       /\ IF f[1] # 5 \/ f[2] # 0 \/ (kind = "udp" /\ f[4] # 1) \/ f[4] \notin {1, 3, 4}
          THEN Return("failed")
          ELSE Read("address", IF kind = "v6" THEN 16 + 2 ELSE 4 + 2)
    \/ pc = "address" /\ Return("done")

\* The field f is complete: socks5_negotiate_no_auth, socks5_read_connect_reply,
\* socks5_udp_associate_with_config.
Complete(f) ==
    \/ pc = "method" /\ IF f = <<5, 0>> THEN Return("request") ELSE Return("failed")
    \/ /\ pc = "header"
       /\ IF f[1] # 5 \/ f[2] # 0 \/ (kind = "udp" /\ f[4] # 1) THEN Return("failed")
          ELSE \/ f[4] = 1 /\ Read("address", 4 + 2)
               \/ f[4] = 4 /\ Read("address", 16 + 2)
               \/ f[4] = 3 /\ Read("length", 1)
               \/ f[4] \notin {1, 3, 4} /\ Return("failed")
    \/ pc = "length" /\ Read("address", f[1] + 2)
    \/ pc = "address" /\ Return("done")

\* recv_n: whatever has arrived, up to the end of the field.  Mutant: one recv
\* has to bring the whole field.
RecvN_Once ==
    /\ pc \in {"method", "header", "length", "address"} /\ arrived > read
    /\ LET n == IF arrived - read < need THEN arrived - read ELSE need
           f == SubSeq(Stream, read + 1, read + n) IN
       /\ read' = read + n
       /\ IF n < need THEN Return("failed") ELSE Complete(f)
    /\ UNCHANGED <<kind, script, sent, proxyVars, broke>>

RecvN ==
    /\ pc \in {"method", "header", "length", "address"} /\ arrived > read
    /\ LET left == need - Len(got)
           n == IF arrived - read < left THEN arrived - read ELSE left
           f == got \o SubSeq(Stream, read + 1, read + n) IN
       /\ read' = read + n
       /\ IF n < left THEN got' = f /\ UNCHANGED <<pc, need>> ELSE Complete(f)
    /\ UNCHANGED <<kind, script, sent, proxyVars, broke>>

\* strchr and atoi on what one recv returned; http_connect_v6 does not look at
\* the version.
Status200(f) ==
    /\ kind = "http4" => f[1] = Version
    /\ \E j \in 1..(Len(f) - 3) : /\ f[j] = Space /\ \A k \in 1..(j - 1) : f[k] # Space
                                  /\ SubSeq(f, j + 1, j + 3) = <<Digit(2), Digit(0), Digit(0)>>

RecvHttp ==
    /\ pc = "http" /\ arrived > read
    /\ read' = arrived
    /\ Return(IF Status200(SubSeq(Stream, 1, arrived)) THEN "done" ELSE "failed")
    /\ UNCHANGED <<kind, script, sent, proxyVars, broke>>

\* Mutant: without SO_RCVTIMEO.
RecvFails_Wait ==
    /\ pc \in {"method", "header", "length", "address", "http"} /\ arrived = read /\ closed
    /\ Return("failed") /\ broke' = TRUE
    /\ UNCHANGED <<kind, script, sent, read, proxyVars>>

\* recv returns 0 or times out.
RecvFails ==
    /\ pc \in {"method", "header", "length", "address", "http"} /\ arrived = read
    /\ Return("failed") /\ broke' = TRUE
    /\ UNCHANGED <<kind, script, sent, read, proxyVars>>

Worker == SendAll \/ SendHttp \/ SendFails \/ RecvN \/ RecvHttp \/ RecvFails

\* The proxy answers what it has been asked; the tunnel's server may speak first.
Asked ==
    IF kind \in Socks /\ pc \in {"greeting", "method", "request"}
    THEN IF pc = "greeting" THEN 0 ELSE Len(script.method)
    ELSE IF pc = "connect" THEN 0 ELSE Len(Stream)

Arrive ==
    /\ ~closed /\ arrived < Asked /\ pc # "failed"
    /\ arrived' = arrived + 1
    /\ UNCHANGED <<kind, script, pc, sent, need, got, read, closed, broke>>

Close ==
    /\ ~closed /\ closed' = TRUE
    /\ UNCHANGED <<kind, script, pc, sent, need, got, read, arrived, broke>>

Done == pc \in {"done", "failed"} /\ UNCHANGED vars

Next == Worker \/ Arrive \/ Close \/ Done

Spec == Init /\ [][Next]_vars

----------------------------------------------------------------------------
(* Properties.                                                             *)

\* The proxy says yes: with an IPv4 endpoint, for an association.
Granted == script.grant /\ (kind = "udp" => script.reply[4] = 1)

\* A SOCKS5 handshake that succeeds has read the replies and nothing else,
\* whatever address type the proxy answered with and however the bytes were cut
\* into segments: the tunnel starts with its first byte.
TunnelUntouched == pc = "done" /\ kind \in Socks => read = ReplyEnd

\* The worker takes a yes for a yes, in any segmentation, and never a no; only
\* for HTTP a reply in several segments may be refused.
VerdictExact ==
    /\ pc = "done" => Granted
    /\ pc = "failed" /\ ~broke /\ kind \in Socks => ~Granted

\* A proxy that stops answering does not hold the worker.
Answered == <>(pc \in {"done", "failed"})
=============================================================================
