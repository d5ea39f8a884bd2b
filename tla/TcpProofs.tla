----------------------------- MODULE TcpProofs -----------------------------
(***************************************************************************)
(* The way of a TCP connection through the program.  First, what the       *)
(* port's bits and the conntrack entries guarantee to the connections on a *)
(* port (TcpDecision), for any number of address families, rule edits and  *)
(* setter calls.  Then, what the handshake with the proxy guarantees to    *)
(* the tunnel (Handshake), for any lengths of the names.                   *)
(***************************************************************************)
EXTENDS TcpDecision, Sequences, TLAPS

\* Zenon is tried first; a leaf that it does not find cites SMT.
USE ZenonT(20), SMTT(30)

Packets == [fam : Fams, tracked : BOOLEAN, outcome : Outcomes, cached : BOOLEAN]

\* What the proofs need of the types; no bound on the calls of the setters.
Types ==
    /\ decided \in BOOLEAN /\ direct \in BOOLEAN
    /\ tracked \in [Fams -> BOOLEAN] /\ toggles \in Nat
    /\ fam \in Fams /\ own \in [Fams -> Verdicts \cup {"none", "older", "uncached"}]
    /\ policy \in [Fams -> Verdicts]
    /\ last \in Packets

\* The rule check that the packet thread is in the middle of.
Checked == pc \in {"apply", "set_direct"}

\* The direct bit, set or about to be, rests on a check since the last SYN.
FreshInv ==
    /\ direct => "DIRECT" \in sinceSyn
    /\ Checked /\ verdict = "DIRECT" => "DIRECT" \in sinceSyn
    /\ pc = "set_direct" => verdict = "DIRECT"
    /\ ReuseStartsAfresh

\* A verdict was given on a connection of another family than f.
OtherVerdict(f) == \E h \in Fams \ {f} : own[h] # "older"

\* While no setter clears the bits under the packet thread, the direct bit is
\* set only after the decided bit, a packet reaches the rules only if neither
\* the direct bit nor a conntrack entry answers for it, and so the direct bit
\* meets a conntrack entry only if two families share the port.
StayInv ==
    toggles = 0 =>
        /\ api = "idle"
        /\ direct => decided
        /\ pc = "set_direct" => decided
        /\ pc # "recv" => ~direct /\ ~tracked[fam]
        /\ Checked => own[fam] = verdict
        /\ \A f \in Fams : direct /\ tracked[f] => OtherVerdict(f)
        /\ last.tracked /\ last.outcome = "direct" => OtherVerdict(last.fam)

IInv == Types /\ FreshInv /\ StayInv
----------------------------------------------------------------------------
\* A packet that goes on to the rules has not been passed yet.
LEMMA ToRules ==
    ASSUME Types, last' = [last EXCEPT !.outcome = "none", !.cached = FALSE]
    PROVE  last' \in Packets /\ last'.outcome = "none" /\ last'.cached = FALSE
  BY DEF Types, Packets, Outcomes

LEMMA PassedType ==
    ASSUME NEW f \in Fams, NEW t \in BOOLEAN, NEW how \in Outcomes, NEW fast \in BOOLEAN
    PROVE  [fam |-> f, tracked |-> t, outcome |-> how, cached |-> fast] \in Packets
  BY DEF Packets

\* A later packet meets the bits, then the conntrack entry, then the rules.
SegmentEffect(f) ==
    /\ pc = "recv" /\ decided' \in BOOLEAN /\ direct' \in BOOLEAN
    /\ (decided' => decided) /\ (direct' => direct)
    /\ direct /\ decided /\ ~decided' => ~direct'
    /\ UNCHANGED <<policy, api, toggles, verdict, history>>
    /\ \/ /\ decided /\ direct
          /\ pc' = "recv" /\ UNCHANGED <<tracked, fam>>
          /\ last' = [fam |-> f, tracked |-> tracked[f], outcome |-> "direct", cached |-> TRUE]
       \/ /\ ~(decided /\ direct) /\ tracked[f]
          /\ pc' = "recv" /\ UNCHANGED fam
          /\ tracked' \in [Fams -> BOOLEAN]
          /\ \A h \in Fams : tracked'[h] => tracked[h]
          /\ last' = [fam |-> f, tracked |-> TRUE, outcome |-> "redirect", cached |-> FALSE]
       \/ /\ ~(decided /\ direct) /\ ~tracked[f]
          /\ pc' = "recv" /\ UNCHANGED <<tracked, fam>>
          /\ last' = [fam |-> f, tracked |-> FALSE, outcome |-> "direct", cached |-> FALSE]
       \/ /\ ~(decided /\ direct) /\ ~tracked[f]
          /\ pc' = "check" /\ fam' = f /\ UNCHANGED tracked
          /\ last' \in Packets /\ last'.outcome = "none" /\ last'.cached = FALSE

LEMMA SegmentCases ==
    ASSUME Types, NEW f \in Fams, NEW fin \in BOOLEAN, NEW rst \in BOOLEAN, Segment(f, fin, rst)
    PROVE  SegmentEffect(f)
<1> USE DEF SegmentEffect
<1>1. pc = "recv" /\ UNCHANGED <<policy, api, toggles, verdict, history>>
  BY DEF Segment
<1>2. /\ decided' \in BOOLEAN /\ direct' \in BOOLEAN
      /\ (decided' => decided) /\ (direct' => direct)
      /\ direct /\ decided /\ ~decided' => ~direct'
  BY Zenon DEF Segment, Types
<1>3. CASE decided /\ direct
  BY <1>1, <1>2, <1>3, Zenon DEF Segment, Done
<1>4. CASE ~(decided /\ direct) /\ tracked[f]
  <2>1. tracked' = [tracked EXCEPT ![f] = ~rst]
    BY <1>4, Zenon DEF Segment
  <2>2. tracked' \in [Fams -> BOOLEAN] /\ \A h \in Fams : tracked'[h] => tracked[h]
    BY <1>4, <2>1 DEF Types
  <2>3. QED
    BY <1>1, <1>2, <1>4, <2>2, Zenon DEF Segment, Done
<1>5. CASE ~(decided /\ direct) /\ ~tracked[f]
  BY <1>1, <1>2, <1>5, ToRules, Zenon DEF Segment, Untracked, Done
<1>6. QED
  BY <1>3, <1>4, <1>5

\* The packet thread, the API thread and the cleanup keep the types.
LEMMA TypesStep == ASSUME Types, [Next]_vars PROVE Types'
<1> USE DEF Types, bits, history, Verdicts, Outcomes, Packets
<1>1. CASE \E f \in Fams : Syn(f)
  BY <1>1 DEF Syn, Untracked
<1>2. CASE \E f \in Fams : Expire(f)
  BY <1>2 DEF Expire
<1>3. CASE \E f \in Fams : SegmentEffect(f)
  <2>1. PICK f \in Fams : SegmentEffect(f)
    BY <1>3
  <2>2. last' \in Packets
    <3> HIDE DEF Packets, Verdicts
    <3>1. tracked[f] \in BOOLEAN /\ {"direct", "redirect"} \subseteq Outcomes
      OBVIOUS
    <3> HIDE DEF Outcomes
    <3>2. QED
      BY <2>1, <3>1, PassedType DEF SegmentEffect
  <2>3. tracked' \in [Fams -> BOOLEAN] /\ decided' \in BOOLEAN /\ direct' \in BOOLEAN
    <3> HIDE DEF Verdicts, Outcomes, Packets
    <3> QED BY <2>1, Zenon DEF SegmentEffect
  <2>4. QED
    BY <2>1, <2>2, <2>3 DEF SegmentEffect
<1>4. CASE \E f \in Fams, rst \in BOOLEAN : RelaySegment(f, rst)
  BY <1>4 DEF RelaySegment
<1>5. CASE Check
  BY <1>5 DEF Check
<1>6. CASE Apply
  <2>1. last' \in Packets
    <3> HIDE DEF Packets, Verdicts
    <3>1. {"direct", "drop", "redirect"} \subseteq Outcomes
      OBVIOUS
    <3> HIDE DEF Outcomes
    <3>2. QED
      BY <1>6, <3>1, PassedType DEF Apply, Done
  <2>2. tracked' \in [Fams -> BOOLEAN]
    BY <1>6 DEF Apply
  <2>3. decided' \in BOOLEAN /\ direct' \in BOOLEAN
    BY <1>6, Zenon DEF Apply
  <2>4. QED
    BY <1>6, <2>1, <2>2, <2>3 DEF Apply
<1>7. CASE SetDirect
  BY <1>7 DEF SetDirect, Done
<1>8. CASE EditRules
  BY <1>8 DEF EditRules
<1>9. CASE Toggle
  BY <1>9, SMT DEF Toggle
<1>10. CASE ClearDecided
  BY <1>10 DEF ClearDecided
<1>11. CASE ClearDirect
  BY <1>11 DEF ClearDirect
<1>12. CASE UNCHANGED vars
  BY <1>12 DEF vars
<1>13. QED
  BY <1>1, <1>2, <1>3, <1>4, <1>5, <1>6, <1>7, <1>8, <1>9, <1>10, <1>11, <1>12, SegmentCases DEF Next

\* A SYN clears the direct bit with what was found before it.
LEMMA FreshStep == ASSUME Types, FreshInv, [Next]_vars PROVE FreshInv'
<1> USE DEF Types, FreshInv, ReuseStartsAfresh, Checked, bits, history
<1>1. CASE \E f \in Fams : Syn(f)
  BY <1>1, ToRules DEF Syn, Untracked
<1>2. CASE \E f \in Fams : Expire(f)
  BY <1>2, SMT DEF Expire
<1>3. CASE \E f \in Fams : SegmentEffect(f)
  BY <1>3, SMT DEF SegmentEffect
<1>4. CASE \E f \in Fams, rst \in BOOLEAN : RelaySegment(f, rst)
  BY <1>4, SMT DEF RelaySegment
<1>5. CASE Check
  BY <1>5 DEF Check
<1>6. CASE Apply
  BY <1>6, SMT DEF Apply, Done
<1>7. CASE SetDirect
  BY <1>7 DEF SetDirect, Done
<1>8. CASE EditRules
  BY <1>8 DEF EditRules
<1>9. CASE Toggle
  BY <1>9 DEF Toggle
<1>10. CASE ClearDecided
  BY <1>10 DEF ClearDecided
<1>11. CASE ClearDirect
  BY <1>11 DEF ClearDirect
<1>12. CASE UNCHANGED vars
  BY <1>12 DEF vars
<1>13. QED
  BY <1>1, <1>2, <1>3, <1>4, <1>5, <1>6, <1>7, <1>8, <1>9, <1>10, <1>11, <1>12, SegmentCases DEF Next

\* No step gives the direct bit to a tracked connection of the only family.
LEMMA StayStep == ASSUME IInv, Types', [Next]_vars PROVE StayInv'
<1> USE DEF IInv, Types, FreshInv, StayInv, OtherVerdict, Checked, Verdicts, Outcomes, bits, history
<1>1. CASE \E f \in Fams : Syn(f)
  BY <1>1, ToRules DEF Syn, Untracked
<1>2. CASE \E f \in Fams : Expire(f)
  BY <1>2, SMT DEF Expire
<1>3. CASE \E f \in Fams : SegmentEffect(f)
  BY <1>3, SMT DEF SegmentEffect
<1>4. CASE \E f \in Fams, rst \in BOOLEAN : RelaySegment(f, rst)
  BY <1>4, SMT DEF RelaySegment
<1>5. CASE Check
  BY <1>5 DEF Check
<1>6. CASE Apply
  BY <1>6, SMT DEF Apply, Done
<1>7. CASE SetDirect
  BY <1>7 DEF SetDirect, Done
<1>8. CASE EditRules
  BY <1>8 DEF EditRules
<1>9. CASE Toggle
  BY <1>9, SMT DEF Toggle
<1>10. CASE ClearDecided
  BY <1>10 DEF ClearDecided
<1>11. CASE ClearDirect
  BY <1>11 DEF ClearDirect
<1>12. CASE UNCHANGED vars
  BY <1>12 DEF vars
<1>13. QED
  BY <1>1, <1>2, <1>3, <1>4, <1>5, <1>6, <1>7, <1>8, <1>9, <1>10, <1>11, <1>12, SegmentCases DEF Next

LEMMA Invariance == Spec => []IInv
<1>1. Init => IInv
  <2> SUFFICES ASSUME Init PROVE IInv
    OBVIOUS
  <2>1. last \in Packets /\ ~last.cached /\ last.outcome # "direct"
    BY DEF Init, Packets, Outcomes
  <2>2. Types
    BY <2>1 DEF Init, Types, Verdicts
  <2>3. FreshInv /\ StayInv
    BY <2>1 DEF Init, FreshInv, StayInv, ReuseStartsAfresh, Checked
  <2>4. QED
    BY <2>2, <2>3 DEF IInv
<1>2. IInv /\ [Next]_vars => IInv'
  BY TypesStep, FreshStep, StayStep DEF IInv
<1>3. QED
  BY <1>1, <1>2, PTL DEF Spec

\* A SYN starts the port afresh: a packet passes on the bits alone only if a
\* check since the last SYN from the port found DIRECT, however the setters
\* clear the bitmaps between the two writes of port_set_direct.
THEOREM Reuse == Spec => []ReuseStartsAfresh
<1>1. IInv => ReuseStartsAfresh
  BY DEF IInv, FreshInv
<1>2. QED
  BY <1>1, Invariance, PTL

\* A redirected connection stays with the relay: unless a setter clears the
\* bits or another family's connection on the port gets a verdict, no packet of
\* a tracked connection is passed to the network unchanged.
THEOREM Redirection == Spec => []TrackedNeverDirect
<1>1. IInv => TrackedNeverDirect
  BY DEF IInv, StayInv, TrackedNeverDirect, OtherVerdict
<1>2. QED
  BY <1>1, Invariance, PTL

----------------------------------------------------------------------------
(* The handshake of a connection that was redirected, with its proxy.      *)

CONSTANTS DomainLens, HostLen
VARIABLES kind, script, hpc, sent, need, got, read, arrived, closed, broke

H == INSTANCE Handshake WITH pc <- hpc

\* n bytes of an address.
LEMMA FillSeq ==
  ASSUME NEW n \in Nat
  PROVE  H!Fill(n) \in Seq(Nat) /\ Len(H!Fill(n)) = n
BY SMT DEF H!Fill

\* A sequence of bytes followed by another.
LEMMA Concat ==
  ASSUME NEW s \in Seq(Nat), NEW t \in Seq(Nat)
  PROVE  /\ s \o t \in Seq(Nat) /\ Len(s \o t) = Len(s) + Len(t)
         /\ \A i \in 1..Len(s) : (s \o t)[i] = s[i]
         /\ \A i \in 1..Len(t) : (s \o t)[Len(s) + i] = t[i]
BY SMT

Joined(s, t, m, n) ==
    /\ s \o t \in Seq(Nat) /\ Len(s \o t) = m + n
    /\ \A i \in 1..m : (s \o t)[i] = s[i]
    /\ \A i \in 1..n : (s \o t)[m + i] = t[i]

\* The same for known lengths m and n.
LEMMA Join ==
  ASSUME NEW s \in Seq(Nat), NEW t \in Seq(Nat), NEW m, NEW n, Len(s) = m, Len(t) = n
  PROVE  Joined(s, t, m, n)
BY Concat, Zenon DEF Joined

\* The bytes of a field of two.
LEMMA Pair ==
  ASSUME NEW f \in Seq(Nat), Len(f) = 2
  PROVE  f = <<5, 0>> <=> f[1] = 5 /\ f[2] = 0
BY SMT

\* f is the part of the stream S after its first b bytes, of length m.
Part(f, S, b, m) == f \in Seq(Nat) /\ Len(f) = m /\ \A i \in 1..m : f[i] = S[b + i]

\* What recv_n has, g, and the n bytes it gets next make a longer part.
LEMMA Longer ==
  ASSUME NEW S \in Seq(Nat), NEW b \in Nat, NEW k \in Nat, NEW n \in Nat,
         NEW r \in Nat, r = b + k, r + n <= Len(S), NEW g, Part(g, S, b, k)
  PROVE  Part(g \o SubSeq(S, r + 1, r + n), S, b, k + n)
<1> DEFINE t == SubSeq(S, r + 1, r + n)
<1>1. t \in Seq(Nat) /\ Len(t) = n /\ \A i \in 1..n : t[i] = S[r + i]
  BY SMT
<1> HIDE DEF t
<1>2. Joined(g, t, k, n)
  BY <1>1, Join DEF Part
<1>3. ASSUME NEW i \in 1..(k + n) PROVE (g \o t)[i] = S[b + i]
  <2>1. CASE i <= k
    <3>1. i \in 1..k
      BY <2>1, SMT
    <3> QED BY <3>1, <1>2, Zenon DEF Joined, Part
  <2>2. CASE i > k
    <3>1. i - k \in 1..n /\ r + (i - k) = b + i /\ k + (i - k) = i
      BY <2>2, SMT
    <3>2. (g \o t)[k + (i - k)] = t[i - k] /\ t[i - k] = S[r + (i - k)]
      BY <3>1, <1>1, <1>2, Zenon DEF Joined
    <3> QED BY <3>1, <3>2
  <2>3. i <= k \/ i > k
    BY SMT
  <2> QED BY <2>1, <2>2, <2>3
<1> QED BY <1>2, <1>3 DEF t, Joined, Part

----------------------------------------------------------------------------
(* What the scripts say.                                                   *)

GoodMethod(s) == s.method[1] = 5 /\ s.method[2] = 0

\* A granted request is answered with an address of a known type, whose length
\* the type or the byte after it tells; a refused one is not.
SocksFacts(s) ==
    /\ s.method \in Seq(Nat) /\ Len(s.method) = 2
    /\ s.reply \in Seq(Nat) /\ s.grant \in BOOLEAN
    /\ GoodMethod(s) => Len(s.reply) >= 4
    /\ s.grant => /\ GoodMethod(s) /\ s.reply[1] = 5 /\ s.reply[2] = 0 /\ s.reply[4] \in {1, 3, 4}
                  /\ s.reply[4] = 1 => Len(s.reply) = 10
                  /\ s.reply[4] = 4 => Len(s.reply) = 22
                  /\ s.reply[4] = 3 => Len(s.reply) >= 7 /\ Len(s.reply) = 7 + s.reply[5]
    /\ ~s.grant /\ GoodMethod(s) =>
         s.reply[1] # 5 \/ s.reply[2] # 0 \/ s.reply[4] \notin {1, 3, 4}

\* The first and only space of the status line comes before the status.
HttpFacts(s) ==
    /\ s.method = << >> /\ s.reply \in Seq(Nat) /\ s.grant \in BOOLEAN
    /\ Len(s.reply) = 7 /\ s.reply[1] # H!Space /\ s.reply[2] = H!Space
    /\ s.reply[3] = H!Digit(2) => s.grant

\* A reply that grants, with the bytes a of an address.
LEMMA GrantBytes ==
  ASSUME NEW a \in Seq(Nat), NEW k \in Nat, Len(a) = k, k >= 1
  PROVE  LET r == <<5, 0, 0>> \o a \o H!Fill(2) IN
         /\ r \in Seq(Nat) /\ Len(r) = k + 5
         /\ r[1] = 5 /\ r[2] = 0 /\ \A i \in 1..k : r[3 + i] = a[i]
<1> DEFINE h == <<5, 0, 0>>  z == H!Fill(2)
<1>1. h \in Seq(Nat) /\ Len(h) = 3 /\ h[1] = 5 /\ h[2] = 0
  BY SMT
<1>2. z \in Seq(Nat) /\ Len(z) = 2
  BY FillSeq
<1> HIDE DEF h, z
<1>3. Joined(h, a, 3, k)
  BY <1>1, Join
<1>4. Joined(h \o a, z, 3 + k, 2)
  <2>1. h \o a \in Seq(Nat) /\ Len(h \o a) = 3 + k
    BY <1>3 DEF Joined
  <2> QED BY <1>2, <2>1, Join
<1>5. ((h \o a) \o z)[1] = 5 /\ ((h \o a) \o z)[2] = 0
  <2>1. 1 \in 1..3 /\ 2 \in 1..3 /\ 1 \in 1..(3 + k) /\ 2 \in 1..(3 + k)
    BY SMT
  <2> QED BY <1>1, <1>3, <1>4, <2>1, Zenon DEF Joined
<1>6. ASSUME NEW i \in 1..k PROVE ((h \o a) \o z)[3 + i] = a[i]
  <2>1. 3 + i \in 1..(3 + k)
    BY SMT
  <2> QED BY <1>3, <1>4, <2>1, Zenon DEF Joined
<1>7. 3 + k + 2 = k + 5
  BY SMT
<1> QED BY <1>4, <1>5, <1>6, <1>7 DEF h, z, Joined

\* An address: of a type with a fixed length, or with its length after the type.
LEMMA AddressBytes ==
  ASSUME DomainLens \subseteq Nat, NEW a \in H!ReplyAddresses
  PROVE  /\ a \in Seq(Nat) /\ Len(a) >= 1
         /\ \/ a[1] = 1 /\ Len(a) = 5
            \/ a[1] = 4 /\ Len(a) = 17
            \/ a[1] = 3 /\ Len(a) = 2 + a[2] /\ a[2] \in Nat
<1>1. CASE a = <<1>> \o H!Fill(4)
  <2>1. <<1>> \in Seq(Nat) /\ Len(<<1>>) = 1 /\ <<1>>[1] = 1
    BY SMT
  <2>2. H!Fill(4) \in Seq(Nat) /\ Len(H!Fill(4)) = 4
    BY FillSeq
  <2>3. a \in Seq(Nat) /\ Len(a) = 1 + 4 /\ a[1] = 1
    <3>1. Joined(<<1>>, H!Fill(4), 1, 4)
      BY <2>1, <2>2, Join
    <3>2. 1 \in 1..1
      BY SMT
    <3> QED BY <1>1, <2>1, <3>1, <3>2, Zenon DEF Joined
  <2> QED BY <2>3, SMT
<1>2. CASE a = <<4>> \o H!Fill(16)
  <2>1. <<4>> \in Seq(Nat) /\ Len(<<4>>) = 1 /\ <<4>>[1] = 4
    BY SMT
  <2>2. H!Fill(16) \in Seq(Nat) /\ Len(H!Fill(16)) = 16
    BY FillSeq
  <2>3. a \in Seq(Nat) /\ Len(a) = 1 + 16 /\ a[1] = 4
    <3>1. Joined(<<4>>, H!Fill(16), 1, 16)
      BY <2>1, <2>2, Join
    <3>2. 1 \in 1..1
      BY SMT
    <3> QED BY <1>2, <2>1, <3>1, <3>2, Zenon DEF Joined
  <2> QED BY <2>3, SMT
<1>3. ASSUME NEW n \in DomainLens, a = <<3, n>> \o H!Fill(n)
      PROVE  a \in Seq(Nat) /\ Len(a) >= 1 /\ a[1] = 3 /\ Len(a) = 2 + a[2] /\ a[2] \in Nat
  <2>1. n \in Nat
    OBVIOUS
  <2>2. <<3, n>> \in Seq(Nat) /\ Len(<<3, n>>) = 2 /\ <<3, n>>[1] = 3 /\ <<3, n>>[2] = n
    BY <2>1, SMT
  <2>3. H!Fill(n) \in Seq(Nat) /\ Len(H!Fill(n)) = n
    BY <2>1, FillSeq
  <2>4. a \in Seq(Nat) /\ Len(a) = 2 + n /\ a[1] = 3 /\ a[2] = n
    <3>1. Joined(<<3, n>>, H!Fill(n), 2, n)
      BY <2>2, <2>3, Join
    <3>2. 1 \in 1..2 /\ 2 \in 1..2
      BY SMT
    <3> QED BY <1>3, <2>2, <3>1, <3>2, Zenon DEF Joined
  <2> QED BY <2>1, <2>4, SMT
<1> QED BY <1>1, <1>2, <1>3 DEF H!ReplyAddresses

\* The answers of a SOCKS5 proxy.
LEMMA SocksScript ==
  ASSUME DomainLens \subseteq Nat, NEW s \in H!SocksScripts
  PROVE  SocksFacts(s)
<1>1. ASSUME NEW a \in H!ReplyAddresses,
             s = [method |-> <<5, 0>>, reply |-> <<5, 0, 0>> \o a \o H!Fill(2), grant |-> TRUE]
      PROVE  SocksFacts(s)
  <2> DEFINE r == <<5, 0, 0>> \o a \o H!Fill(2)
  <2>1. /\ a \in Seq(Nat) /\ Len(a) >= 1
        /\ \/ a[1] = 1 /\ Len(a) = 5
           \/ a[1] = 4 /\ Len(a) = 17
           \/ a[1] = 3 /\ Len(a) = 2 + a[2] /\ a[2] \in Nat
    BY AddressBytes
  <2>2. Len(a) \in Nat
    BY <2>1, SMT
  <2>3. /\ r \in Seq(Nat) /\ Len(r) = Len(a) + 5 /\ r[1] = 5 /\ r[2] = 0
        /\ \A i \in 1..Len(a) : r[3 + i] = a[i]
    BY <2>1, <2>2, GrantBytes
  <2> HIDE DEF r
  <2>4. r[4] = a[1]
    BY <2>1, <2>2, <2>3, SMT
  <2>5. Len(a) >= 2 => r[5] = a[2]
    BY <2>1, <2>2, <2>3, SMT
  <2>6. s.method = <<5, 0>> /\ s.reply = r /\ s.grant = TRUE
    BY <1>1 DEF r
  <2>7. <<5, 0>> \in Seq(Nat) /\ Len(<<5, 0>>) = 2 /\ <<5, 0>>[1] = 5 /\ <<5, 0>>[2] = 0
    BY SMT
  <2>8. /\ Len(r) >= 4 /\ r[4] \in {1, 3, 4}
        /\ r[4] = 1 => Len(r) = 10
        /\ r[4] = 4 => Len(r) = 22
        /\ r[4] = 3 => Len(r) >= 7 /\ Len(r) = 7 + r[5]
    <3>1. CASE a[1] = 1 /\ Len(a) = 5
      BY <2>3, <2>4, <3>1, SMT
    <3>2. CASE a[1] = 4 /\ Len(a) = 17
      BY <2>3, <2>4, <3>2, SMT
    <3>3. CASE a[1] = 3 /\ Len(a) = 2 + a[2] /\ a[2] \in Nat
      <4>1. r[5] = a[2]
        BY <2>5, <3>3, SMT
      <4>2. Len(r) = Len(a) + 5
        BY <2>3
      <4> QED BY <2>4, <3>3, <4>1, <4>2, SMT
    <3> QED BY <2>1, <3>1, <3>2, <3>3
  <2> QED BY <2>3, <2>6, <2>7, <2>8 DEF SocksFacts, GoodMethod
<1>2. ASSUME NEW c \in Nat, NEW d \in Nat, NEW e \in Nat, c # 5 \/ d # 0 \/ e \notin {1, 3, 4},
             s = [method |-> <<5, 0>>, reply |-> <<c, d, 0, e>> \o H!Fill(6), grant |-> FALSE]
      PROVE  SocksFacts(s)
  <2> DEFINE r == <<c, d, 0, e>> \o H!Fill(6)
  <2>1. H!Fill(6) \in Seq(Nat) /\ Len(H!Fill(6)) = 6
    BY FillSeq
  <2>2. /\ <<c, d, 0, e>> \in Seq(Nat) /\ Len(<<c, d, 0, e>>) = 4 /\ <<c, d, 0, e>>[1] = c
        /\ <<c, d, 0, e>>[2] = d /\ <<c, d, 0, e>>[4] = e
    BY SMT
  <2>3. Joined(<<c, d, 0, e>>, H!Fill(6), 4, 6)
    BY <2>1, <2>2, Join
  <2>4. 1 \in 1..4 /\ 2 \in 1..4 /\ 4 \in 1..4 /\ 4 + 6 >= 4
    BY SMT
  <2>5. r \in Seq(Nat) /\ Len(r) >= 4 /\ r[1] = c /\ r[2] = d /\ r[4] = e
    BY <2>2, <2>3, <2>4, Zenon DEF Joined
  <2> HIDE DEF r
  <2>6. s.method = <<5, 0>> /\ s.reply = r /\ s.grant = FALSE
    BY <1>2 DEF r
  <2>7. <<5, 0>> \in Seq(Nat) /\ Len(<<5, 0>>) = 2
    BY SMT
  <2> QED BY <1>2, <2>5, <2>6, <2>7 DEF SocksFacts, GoodMethod
<1>3. ASSUME NEW c \in Nat, NEW d \in Nat, c # 5 \/ d # 0,
             s = [method |-> <<c, d>>, reply |-> << >>, grant |-> FALSE]
      PROVE  SocksFacts(s)
  <2>1. <<c, d>> \in Seq(Nat) /\ Len(<<c, d>>) = 2 /\ <<c, d>>[1] = c /\ <<c, d>>[2] = d
    BY SMT
  <2>2. << >> \in Seq(Nat)
    BY SMT
  <2>3. s.method = <<c, d>> /\ s.reply = << >> /\ s.grant = FALSE
    BY <1>3
  <2> QED BY <1>3, <2>1, <2>2, <2>3 DEF SocksFacts, GoodMethod
<1>4. /\ 5 \in Nat /\ 4 \in Nat /\ 0 \in Nat /\ 1 \in Nat /\ 9 \in Nat /\ 255 \in Nat
      /\ 5 # 0 /\ 4 # 5 /\ 255 # 0 /\ 9 \notin {1, 3, 4}
  BY SMT
<1>5. \/ \E a \in H!ReplyAddresses :
            s = [method |-> <<5, 0>>, reply |-> <<5, 0, 0>> \o a \o H!Fill(2), grant |-> TRUE]
      \/ \E r \in {<<5, 5, 0, 1>> \o H!Fill(6), <<4, 0, 0, 1>> \o H!Fill(6), <<5, 0, 0, 9>> \o H!Fill(6)} :
            s = [method |-> <<5, 0>>, reply |-> r, grant |-> FALSE]
      \/ \E m \in {<<5, 255>>, <<4, 0>>} : s = [method |-> m, reply |-> << >>, grant |-> FALSE]
  BY Zenon DEF H!SocksScripts
<1>6. ASSUME NEW r \in {<<5, 5, 0, 1>> \o H!Fill(6), <<4, 0, 0, 1>> \o H!Fill(6), <<5, 0, 0, 9>> \o H!Fill(6)},
             s = [method |-> <<5, 0>>, reply |-> r, grant |-> FALSE]
      PROVE  SocksFacts(s)
  <2>1. r = <<5, 5, 0, 1>> \o H!Fill(6) => SocksFacts(s)
    BY <1>2, <1>4, <1>6, Zenon
  <2>2. r = <<4, 0, 0, 1>> \o H!Fill(6) => SocksFacts(s)
    BY <1>2, <1>4, <1>6, Zenon
  <2>3. r = <<5, 0, 0, 9>> \o H!Fill(6) => SocksFacts(s)
    BY <1>2, <1>4, <1>6, Zenon
  <2> QED BY <2>1, <2>2, <2>3, Zenon
<1>7. ASSUME NEW m \in {<<5, 255>>, <<4, 0>>}, s = [method |-> m, reply |-> << >>, grant |-> FALSE]
      PROVE  SocksFacts(s)
  BY <1>3, <1>4, <1>7, Zenon
<1> QED BY <1>1, <1>5, <1>6, <1>7, Zenon

\* The answers of an HTTP proxy.
LEMMA HttpScript ==
  ASSUME NEW s \in H!HttpScripts
  PROVE  HttpFacts(s)
<1>1. ASSUME NEW d \in Nat, NEW e \in Nat, NEW f \in Nat, NEW g \in BOOLEAN, d = H!Digit(2) => g,
             s = [method |-> << >>,
                  reply |-> <<H!Version, H!Space>> \o <<d, e, f>> \o <<H!Other, H!Other>>,
                  grant |-> g]
      PROVE  HttpFacts(s)
  <2> DEFINE v == <<H!Version, H!Space>>  c == <<d, e, f>>  o == <<H!Other, H!Other>>
  <2>1. v \in Seq(Nat) /\ Len(v) = 2 /\ v[1] # H!Space /\ v[2] = H!Space
    BY SMT DEF H!Version, H!Space
  <2>2. c \in Seq(Nat) /\ Len(c) = 3 /\ c[1] = d
    BY SMT
  <2>3. o \in Seq(Nat) /\ Len(o) = 2
    BY SMT DEF H!Other
  <2> HIDE DEF v, c, o
  <2>4. Joined(v, c, 2, 3)
    BY <2>1, <2>2, Join
  <2>5. Joined(v \o c, o, 2 + 3, 2)
    <3>1. v \o c \in Seq(Nat) /\ Len(v \o c) = 2 + 3
      BY <2>4 DEF Joined
    <3> QED BY <2>3, <3>1, Join
  <2>6. /\ 1 \in 1..2 /\ 2 \in 1..2 /\ 1 \in 1..3 /\ 2 + 1 = 3
        /\ 1 \in 1..(2 + 3) /\ 2 \in 1..(2 + 3) /\ 3 \in 1..(2 + 3) /\ 2 + 3 + 2 = 7
    BY SMT
  <2>7. (v \o c)[1] = v[1] /\ (v \o c)[2] = v[2] /\ (v \o c)[3] = c[1]
    BY <2>4, <2>6, Zenon DEF Joined
  <2>8. /\ (v \o c) \o o \in Seq(Nat) /\ Len((v \o c) \o o) = 7
        /\ ((v \o c) \o o)[1] = v[1] /\ ((v \o c) \o o)[2] = v[2] /\ ((v \o c) \o o)[3] = c[1]
    BY <2>5, <2>6, <2>7, Zenon DEF Joined
  <2>9. s.method = << >> /\ s.reply = (v \o c) \o o /\ s.grant = g
    BY <1>1 DEF v, c, o
  <2> QED BY <1>1, <2>1, <2>2, <2>8, <2>9 DEF HttpFacts
<1>2. /\ H!Digit(2) \in Nat /\ H!Digit(0) \in Nat /\ H!Digit(4) \in Nat /\ H!Digit(3) \in Nat
      /\ H!Digit(4) # H!Digit(2)
  BY SMT DEF H!Digit
<1>3. \E c \in {<<H!Digit(2), H!Digit(0), H!Digit(0)>>, <<H!Digit(4), H!Digit(0), H!Digit(3)>>} :
        s = [method |-> << >>, reply |-> <<H!Version, H!Space>> \o c \o <<H!Other, H!Other>>,
             grant |-> c = <<H!Digit(2), H!Digit(0), H!Digit(0)>>]
  BY Zenon DEF H!HttpScripts
<1>4. PICK c \in {<<H!Digit(2), H!Digit(0), H!Digit(0)>>, <<H!Digit(4), H!Digit(0), H!Digit(3)>>} :
        s = [method |-> << >>, reply |-> <<H!Version, H!Space>> \o c \o <<H!Other, H!Other>>,
             grant |-> c = <<H!Digit(2), H!Digit(0), H!Digit(0)>>]
  BY <1>3
<1> DEFINE g == c = <<H!Digit(2), H!Digit(0), H!Digit(0)>>
<1>5. g \in BOOLEAN
  OBVIOUS
<1>6. CASE c = <<H!Digit(2), H!Digit(0), H!Digit(0)>>
  <2>1. g
    BY <1>6
  <2>2. s = [method |-> << >>,
             reply |-> <<H!Version, H!Space>> \o <<H!Digit(2), H!Digit(0), H!Digit(0)>> \o <<H!Other, H!Other>>,
             grant |-> g]
    BY <1>4, <1>6, Zenon
  <2> HIDE DEF g
  <2> QED BY <1>1, <1>2, <1>5, <2>1, <2>2, Zenon
<1>7. CASE c = <<H!Digit(4), H!Digit(0), H!Digit(3)>>
  <2>2. s = [method |-> << >>,
             reply |-> <<H!Version, H!Space>> \o <<H!Digit(4), H!Digit(0), H!Digit(3)>> \o <<H!Other, H!Other>>,
             grant |-> g]
    BY <1>4, <1>7, Zenon
  <2> HIDE DEF g
  <2> QED BY <1>1, <1>2, <1>5, <2>2, Zenon
<1> QED BY <1>4, <1>6, <1>7, Zenon

----------------------------------------------------------------------------
(* The invariant of the handshake.                                         *)

\* The stream is the script's bytes, and two of the tunnel after a yes.
LEMMA SocksStream ==
  ASSUME SocksFacts(script)
  PROVE  /\ H!Stream \in Seq(Nat) /\ H!ReplyEnd \in Nat
         /\ H!ReplyEnd = 2 + Len(script.reply) /\ H!ReplyEnd <= Len(H!Stream)
         /\ ~script.grant => Len(H!Stream) = H!ReplyEnd
         /\ \A i \in 1..2 : H!Stream[i] = script.method[i]
         /\ \A i \in 1..Len(script.reply) : H!Stream[2 + i] = script.reply[i]
<1> DEFINE m == script.method  r == script.reply  k == Len(script.reply)
           t == IF script.grant THEN H!Tunnel ELSE << >>
<1>1. m \in Seq(Nat) /\ Len(m) = 2 /\ r \in Seq(Nat) /\ k \in Nat
  BY SMT DEF SocksFacts
<1>2. t \in Seq(Nat) /\ Len(t) \in Nat /\ (~script.grant => Len(t) = 0)
  <2>1. H!Tunnel \in Seq(Nat) /\ Len(H!Tunnel) = 2
    BY SMT DEF H!Tunnel
  <2>2. << >> \in Seq(Nat) /\ Len(<< >>) = 0
    BY SMT
  <2>3. 2 \in Nat /\ 0 \in Nat
    BY SMT
  <2> QED BY <2>1, <2>2, <2>3, Zenon
<1> HIDE DEF m, r, k, t
<1>3. Joined(m, r, 2, k)
  BY <1>1, Join DEF k, r
<1>4. Joined(m \o r, t, 2 + k, Len(t))
  <2>1. m \o r \in Seq(Nat) /\ Len(m \o r) = 2 + k
    BY <1>3 DEF Joined
  <2> QED BY <1>2, <2>1, Join
<1>5. H!Stream = (m \o r) \o t /\ H!ReplyEnd = 2 + k
  BY <1>1 DEF H!Stream, H!ReplyEnd, m, r, t, k
<1>6. H!Stream \in Seq(Nat) /\ Len(H!Stream) = (2 + k) + Len(t)
  BY <1>4, <1>5, Zenon DEF Joined
<1>7. ASSUME NEW i \in 1..2 PROVE H!Stream[i] = m[i]
  <2>1. i \in 1..(2 + k)
    BY <1>1, SMT
  <2> QED BY <1>3, <1>4, <1>5, <2>1, Zenon DEF Joined
<1>8. ASSUME NEW i \in 1..k PROVE H!Stream[2 + i] = r[i]
  <2>1. 2 + i \in 1..(2 + k)
    BY <1>1, SMT
  <2> QED BY <1>3, <1>4, <1>5, <2>1, Zenon DEF Joined
<1>9. 2 + k \in Nat /\ 2 + k <= (2 + k) + Len(t) /\ (~script.grant => (2 + k) + Len(t) = 2 + k)
  BY <1>1, <1>2, SMT
<1> QED BY <1>5, <1>6, <1>7, <1>8, <1>9, Zenon DEF m, r, k

\* The stream of an HTTP proxy starts with its reply.
LEMMA HttpStream ==
  ASSUME HttpFacts(script)
  PROVE  H!Stream \in Seq(Nat) /\ \A i \in 1..7 : H!Stream[i] = script.reply[i]
<1> DEFINE m == script.method  r == script.reply
           t == IF script.grant THEN H!Tunnel ELSE << >>
<1>1. m \in Seq(Nat) /\ Len(m) = 0 /\ r \in Seq(Nat) /\ Len(r) = 7
  <2>1. << >> \in Seq(Nat) /\ Len(<< >>) = 0
    BY SMT
  <2> QED BY <2>1 DEF HttpFacts
<1>2. t \in Seq(Nat)
  <2>1. H!Tunnel \in Seq(Nat) /\ << >> \in Seq(Nat)
    BY SMT DEF H!Tunnel
  <2> QED BY <2>1, Zenon
<1> HIDE DEF m, r, t
<1>3. Joined(m, r, 0, 7)
  BY <1>1, Join
<1>4. Joined(m \o r, t, 0 + 7, Len(t))
  <2>1. m \o r \in Seq(Nat) /\ Len(m \o r) = 0 + 7
    BY <1>3 DEF Joined
  <2> QED BY <1>2, <2>1, Join
<1>5. H!Stream = (m \o r) \o t
  BY DEF H!Stream, m, r, t
<1>6. ASSUME NEW i \in 1..7 PROVE H!Stream[i] = r[i]
  <2>1. i \in 1..(0 + 7) /\ 0 + i = i
    BY SMT
  <2> QED BY <1>3, <1>4, <1>5, <2>1, Zenon DEF Joined
<1> QED BY <1>4, <1>5, <1>6, Zenon DEF Joined, r

\* The part of the field that was read is the stream's, from b on.
Prefix(b) ==
    /\ b \in Nat /\ read = b + Len(got) /\ Len(got) < need
    /\ Part(got, H!Stream, b, Len(got))

HTypes ==
    /\ \/ kind \in H!Socks /\ script \in H!SocksScripts
       \/ kind \in H!Http /\ script \in H!HttpScripts
    /\ got \in Seq(Nat) /\ need \in Nat /\ read \in Nat /\ arrived \in Nat
    /\ read <= arrived /\ arrived <= Len(H!Stream)

\* Every field is read from where the one before it ended; the length of the
\* address that is read is that of the reply's own address.
SocksInv ==
    /\ hpc \in {"greeting", "method", "request", "header", "length", "address", "done", "failed"}
    /\ hpc = "greeting" => read = 0
    /\ hpc = "method" => need = 2 /\ Prefix(0)
    /\ hpc = "request" => read = 2 /\ GoodMethod(script)
    /\ hpc = "header" => need = 4 /\ GoodMethod(script) /\ Prefix(2)
    /\ hpc = "length" => need = 1 /\ H!Granted /\ script.reply[4] = 3 /\ Prefix(6)
    /\ hpc = "address" => H!Granted /\ Prefix(H!ReplyEnd - need)
    /\ hpc = "done" => H!Granted /\ read = H!ReplyEnd
    /\ hpc = "failed" /\ ~broke => ~H!Granted

HttpInv == hpc \in {"connect", "http", "done", "failed"} /\ (hpc = "done" => H!Granted)

HInv == HTypes /\ (kind \in H!Socks => SocksInv) /\ (kind \in H!Http => HttpInv)

\* A step belongs to the same connection, with the same proxy.
LEMMA SameConnection ==
  ASSUME H!Next
  PROVE  kind' = kind /\ script' = script
BY DEF H!Next, H!Worker, H!SendAll, H!SendHttp, H!SendFails, H!RecvN, H!RecvHttp, H!RecvFails,
       H!Arrive, H!Close, H!Done, H!vars

\* The script is the same throughout.
LEMMA SameScript ==
  ASSUME kind' = kind, script' = script
  PROVE  /\ H!Stream' = H!Stream /\ H!ReplyEnd' = H!ReplyEnd /\ H!Granted' = H!Granted
         /\ GoodMethod(script)' = GoodMethod(script)
BY DEF H!Stream, H!ReplyEnd, H!Granted, GoodMethod

\* recv_n gets a part of the stream that goes on where the field's last part
\* ended, and leaves the field only when it is complete.
LEMMA RecvField ==
  ASSUME HTypes, H!Stream \in Seq(Nat), H!RecvN, NEW b \in Nat, Prefix(b)
  PROVE  \E f \in Seq(Nat) :
           /\ read' \in Nat /\ read' = b + Len(f) /\ read' <= arrived
           /\ Part(f, H!Stream, b, Len(f))
           /\ \/ Len(f) < need /\ got' = f /\ UNCHANGED <<hpc, need>>
              \/ Len(f) = need /\ H!Complete(f)
<1> DEFINE k == Len(got)  left == need - k
           n == IF arrived - read < left THEN arrived - read ELSE left
           f == got \o SubSeq(H!Stream, read + 1, read + n)
<1>1. k \in Nat /\ read = b + k /\ k < need
  BY SMT DEF HTypes, Prefix
<1>2. /\ left \in Nat /\ n \in Nat /\ read + n \in Nat /\ read + n <= arrived /\ n <= left
      /\ read + n = b + (k + n) /\ (n < left => k + n < need) /\ (~(n < left) => k + n = need)
  <2>1. arrived > read
    BY DEF H!RecvN
  <2> HIDE DEF k
  <2> QED BY <1>1, <2>1, SMT DEF HTypes
<1>3. read + n <= Len(H!Stream)
  <2>1. Len(H!Stream) \in Nat
    BY SMT
  <2> HIDE DEF n
  <2> QED BY <1>2, <2>1, SMT DEF HTypes
<1>4. Part(f, H!Stream, b, k + n)
  <2>1. read \in Nat /\ Part(got, H!Stream, b, k)
    BY DEF HTypes, Prefix
  <2> HIDE DEF k, n
  <2> QED BY <1>1, <1>2, <1>3, <2>1, Longer, Zenon
<1>5. read' = read + n /\ (IF n < left THEN got' = f /\ UNCHANGED <<hpc, need>> ELSE H!Complete(f))
  BY Zenon DEF H!RecvN
<1> HIDE DEF f, n, left, k
<1> QED BY <1>2, <1>4, <1>5, Zenon DEF Part

\* The steps that do not read keep what is known of the field.
LEMMA SameField ==
  ASSUME kind' = kind, script' = script, got' = got, need' = need, read' = read, NEW b,
         Prefix(b)
  PROVE  Prefix(b)'
BY SameScript DEF Prefix

\* A field starts where the bytes that have been read end.
LEMMA NewField ==
  ASSUME kind' = kind, script' = script, NEW field, NEW n \in Nat, n > 0, H!Read(field, n),
         NEW b \in Nat, read' = b
  PROVE  Prefix(b)'
<1>1. got' = << >> /\ need' = n
  BY DEF H!Read
<1>2. << >> \in Seq(Nat) /\ Len(<< >>) = 0 /\ 1..0 = {} /\ b = b + 0
  BY SMT
<1> QED BY <1>1, <1>2, Zenon DEF Prefix, Part

\* What a complete field tells.
LEMMA Told ==
  ASSUME SocksFacts(script), NEW f, NEW b, NEW n \in Nat, Part(f, H!Stream, b, n)
  PROVE  /\ b = 0 /\ n = 2 => f[1] = script.method[1] /\ f[2] = script.method[2]
         /\ b = 2 /\ n = 4 /\ GoodMethod(script) =>
              f[1] = script.reply[1] /\ f[2] = script.reply[2] /\ f[4] = script.reply[4]
         /\ b = 6 /\ n = 1 /\ Len(script.reply) >= 5 => f[1] = script.reply[5]
<1>1. /\ \A i \in 1..2 : H!Stream[i] = script.method[i]
      /\ \A i \in 1..Len(script.reply) : H!Stream[2 + i] = script.reply[i]
  BY SocksStream
<1>2. Len(script.reply) \in Nat
  BY SMT DEF SocksFacts
<1>3. ASSUME b = 0, n = 2 PROVE f[1] = script.method[1] /\ f[2] = script.method[2]
  <2>1. 1 \in 1..2 /\ 2 \in 1..2 /\ 0 + 1 = 1 /\ 0 + 2 = 2
    BY SMT
  <2>2. f[1] = H!Stream[0 + 1] /\ f[2] = H!Stream[0 + 2]
    BY <1>3, <2>1, Zenon DEF Part
  <2> QED BY <1>1, <2>1, <2>2, Zenon
<1>4. ASSUME b = 2, n = 4, GoodMethod(script)
      PROVE  f[1] = script.reply[1] /\ f[2] = script.reply[2] /\ f[4] = script.reply[4]
  <2>1. Len(script.reply) >= 4
    BY <1>4 DEF SocksFacts
  <2>2. /\ 1 \in 1..Len(script.reply) /\ 2 \in 1..Len(script.reply) /\ 4 \in 1..Len(script.reply)
        /\ 1 \in 1..4 /\ 2 \in 1..4 /\ 4 \in 1..4
    BY <1>2, <2>1, SMT
  <2>3. f[1] = H!Stream[2 + 1] /\ f[2] = H!Stream[2 + 2] /\ f[4] = H!Stream[2 + 4]
    BY <1>4, <2>2, Zenon DEF Part
  <2> QED BY <1>1, <2>2, <2>3, Zenon
<1>5. ASSUME b = 6, n = 1, Len(script.reply) >= 5 PROVE f[1] = script.reply[5]
  <2>1. 5 \in 1..Len(script.reply) /\ 1 \in 1..1 /\ 6 + 1 = 2 + 5
    BY <1>2, <1>5, SMT
  <2>2. f[1] = H!Stream[6 + 1]
    BY <1>5, <2>1, Zenon DEF Part
  <2> QED BY <1>1, <2>1, <2>2, Zenon
<1> QED BY <1>3, <1>4, <1>5, Zenon

\* Reading a field: the next one starts at its end, and the verdict of the bytes
\* is the proxy's.
LEMMA RecvStep ==
  ASSUME HTypes, SocksFacts(script), SocksInv, H!RecvN
  PROVE  SocksInv'
<1>0. /\ H!Stream \in Seq(Nat) /\ H!ReplyEnd \in Nat /\ H!ReplyEnd = 2 + Len(script.reply)
      /\ Len(script.reply) \in Nat
  BY SocksStream, SMT DEF SocksFacts
<1>1. /\ kind' = kind /\ script' = script /\ broke' = broke
      /\ hpc \in {"method", "header", "length", "address"}
  BY DEF H!RecvN
<1>2. /\ H!Stream' = H!Stream /\ H!ReplyEnd' = H!ReplyEnd /\ H!Granted' = H!Granted
      /\ GoodMethod(script)' = GoodMethod(script)
  BY <1>1, SameScript
<1>3. ASSUME NEW b \in Nat, NEW f \in Seq(Nat), read' = b + Len(f), Part(f, H!Stream, b, Len(f)),
             Len(f) < need, got' = f, UNCHANGED <<hpc, need>>
      PROVE  Prefix(b)'
  BY <1>2, <1>3, Zenon DEF Prefix
<1>4. CASE hpc = "method"
  <2>1. need = 2 /\ Prefix(0) /\ 0 \in Nat
    BY <1>4, SMT DEF SocksInv
  <2>2. PICK f \in Seq(Nat) :
           /\ read' \in Nat /\ read' = 0 + Len(f) /\ Part(f, H!Stream, 0, Len(f))
           /\ \/ Len(f) < need /\ got' = f /\ UNCHANGED <<hpc, need>>
              \/ Len(f) = need /\ H!Complete(f)
    BY <1>0, <2>1, RecvField, Zenon
  <2>3. CASE Len(f) < need /\ got' = f /\ UNCHANGED <<hpc, need>>
    <3>1. Prefix(0)'
      BY <1>3, <2>1, <2>2, <2>3, Zenon
    <3> QED BY <1>4, <2>1, <2>3, <3>1 DEF SocksInv
  <2>4. CASE Len(f) = need /\ H!Complete(f)
    <3>1. f[1] = script.method[1] /\ f[2] = script.method[2] /\ read' = 2
      <4>1. 2 \in Nat /\ 0 + 2 = 2
        BY SMT
      <4> QED BY <2>1, <2>2, <2>4, <4>1, Told, Zenon
    <3>2. f = <<5, 0>> <=> GoodMethod(script)
      <4>1. Len(f) = 2
        BY <2>1, <2>4
      <4>2. f = <<5, 0>> <=> f[1] = 5 /\ f[2] = 0
        BY <4>1, Pair
      <4> QED BY <3>1, <4>2 DEF GoodMethod
    <3>3. (hpc' = "request" /\ GoodMethod(script)) \/ (hpc' = "failed" /\ ~GoodMethod(script))
      BY <1>4, <2>4, <3>2, Zenon DEF H!Complete, H!Return
    <3>4. ~GoodMethod(script) => ~H!Granted
      BY DEF SocksFacts, H!Granted
    <3> QED BY <1>2, <3>1, <3>3, <3>4 DEF SocksInv
  <2> QED BY <2>2, <2>3, <2>4
<1>5. CASE hpc = "header"
  <2>1. need = 4 /\ Prefix(2) /\ 2 \in Nat /\ GoodMethod(script)
    BY <1>5, SMT DEF SocksInv
  <2>2. PICK f \in Seq(Nat) :
           /\ read' \in Nat /\ read' = 2 + Len(f) /\ Part(f, H!Stream, 2, Len(f))
           /\ \/ Len(f) < need /\ got' = f /\ UNCHANGED <<hpc, need>>
              \/ Len(f) = need /\ H!Complete(f)
    BY <1>0, <2>1, RecvField, Zenon
  <2>3. CASE Len(f) < need /\ got' = f /\ UNCHANGED <<hpc, need>>
    <3>1. Prefix(2)'
      BY <1>3, <2>1, <2>2, <2>3, Zenon
    <3> QED BY <1>2, <1>5, <2>1, <2>3, <3>1 DEF SocksInv
  <2>4. CASE Len(f) = need /\ H!Complete(f)
    <3>1. /\ f[1] = script.reply[1] /\ f[2] = script.reply[2] /\ f[4] = script.reply[4]
          /\ read' = 6
      <4>1. 4 \in Nat /\ 2 + 4 = 6
        BY SMT
      <4> QED BY <2>1, <2>2, <2>4, <4>1, Told, Zenon
    <3>2. \/ hpc' = "failed" /\ (f[1] # 5 \/ f[2] # 0 \/ (kind = "udp" /\ f[4] # 1) \/ f[4] \notin {1, 3, 4})
          \/ /\ ~(f[1] # 5 \/ f[2] # 0 \/ (kind = "udp" /\ f[4] # 1))
             /\ \/ f[4] = 1 /\ H!Read("address", 4 + 2)
                \/ f[4] = 4 /\ H!Read("address", 16 + 2)
                \/ f[4] = 3 /\ H!Read("length", 1)
      BY <1>5, <2>4, Zenon DEF H!Complete, H!Return
    <3>3. CASE hpc' = "failed" /\ (f[1] # 5 \/ f[2] # 0 \/ (kind = "udp" /\ f[4] # 1) \/ f[4] \notin {1, 3, 4})
      <4>1. ~H!Granted
        BY <3>1, <3>3 DEF SocksFacts, H!Granted
      <4> QED BY <1>2, <3>3, <4>1 DEF SocksInv
    <3>4. CASE /\ ~(f[1] # 5 \/ f[2] # 0 \/ (kind = "udp" /\ f[4] # 1))
               /\ \/ f[4] = 1 /\ H!Read("address", 4 + 2)
                  \/ f[4] = 4 /\ H!Read("address", 16 + 2)
                  \/ f[4] = 3 /\ H!Read("length", 1)
      <4>1. H!Granted
        BY <2>1, <3>1, <3>4 DEF SocksFacts, H!Granted
      <4>2. script.grant
        BY <4>1 DEF H!Granted
      <4>3. CASE f[4] = 1 /\ H!Read("address", 4 + 2)
        <5>1. Len(script.reply) = 10
          BY <3>1, <4>2, <4>3 DEF SocksFacts
        <5>2. 4 + 2 = 6 /\ 6 \in Nat /\ 6 > 0 /\ H!ReplyEnd - 6 = 6
          BY <1>0, <5>1, SMT
        <5>3. Prefix(6)' /\ need' = 6 /\ hpc' = "address"
          BY <1>1, <3>1, <4>3, <5>2, NewField, Zenon DEF H!Read
        <5>4. H!ReplyEnd' - need' = 6
          BY <1>2, <5>2, <5>3
        <5> QED BY <1>2, <4>1, <5>3, <5>4 DEF SocksInv
      <4>4. CASE f[4] = 4 /\ H!Read("address", 16 + 2)
        <5>1. Len(script.reply) = 22
          BY <3>1, <4>2, <4>4 DEF SocksFacts
        <5>2. 16 + 2 = 18 /\ 18 \in Nat /\ 6 \in Nat /\ 18 > 0 /\ H!ReplyEnd - 18 = 6
          BY <1>0, <5>1, SMT
        <5>3. Prefix(6)' /\ need' = 18 /\ hpc' = "address"
          BY <1>1, <3>1, <4>4, <5>2, NewField, Zenon DEF H!Read
        <5>4. H!ReplyEnd' - need' = 6
          BY <1>2, <5>2, <5>3
        <5> QED BY <1>2, <4>1, <5>3, <5>4 DEF SocksInv
      <4>5. CASE f[4] = 3 /\ H!Read("length", 1)
        <5>1. 1 \in Nat /\ 6 \in Nat /\ 1 > 0
          BY SMT
        <5>2. Prefix(6)' /\ need' = 1 /\ hpc' = "length"
          BY <1>1, <3>1, <4>5, <5>1, NewField, Zenon DEF H!Read
        <5>3. script.reply[4] = 3 /\ script'.reply[4] = 3
          BY <1>1, <3>1, <4>5
        <5> QED BY <1>2, <4>1, <5>2, <5>3 DEF SocksInv
      <4> QED BY <3>4, <4>3, <4>4, <4>5
    <3> QED BY <3>2, <3>3, <3>4
  <2> QED BY <2>2, <2>3, <2>4
<1>6. CASE hpc = "length"
  <2>1. need = 1 /\ Prefix(6) /\ 6 \in Nat /\ H!Granted /\ script.reply[4] = 3
    BY <1>6, SMT DEF SocksInv
  <2>2. PICK f \in Seq(Nat) :
           /\ read' \in Nat /\ read' = 6 + Len(f) /\ Part(f, H!Stream, 6, Len(f))
           /\ \/ Len(f) < need /\ got' = f /\ UNCHANGED <<hpc, need>>
              \/ Len(f) = need /\ H!Complete(f)
    BY <1>0, <2>1, RecvField, Zenon
  <2>3. CASE Len(f) < need /\ got' = f /\ UNCHANGED <<hpc, need>>
    <3>1. Prefix(6)'
      BY <1>3, <2>1, <2>2, <2>3, Zenon
    <3>2. script'.reply[4] = 3
      BY <1>1, <2>1
    <3> QED BY <1>2, <1>6, <2>1, <2>3, <3>1, <3>2 DEF SocksInv
  <2>4. CASE Len(f) = need /\ H!Complete(f)
    <3>1. Len(script.reply) = 7 + script.reply[5] /\ script.reply \in Seq(Nat) /\ Len(script.reply) >= 7
      BY <2>1 DEF SocksFacts, H!Granted
    <3>2. Len(script.reply) >= 5 /\ script.reply[5] \in Nat
      BY <3>1, SMT
    <3>3. Len(f) = 1
      BY <2>1, <2>4
    <3>4. f[1] = script.reply[5] /\ read' = 7
      <4>1. 1 \in Nat /\ 6 + 1 = 7
        BY SMT
      <4> QED BY <2>2, <3>2, <3>3, <4>1, Told, Zenon
    <3>5. H!Read("address", f[1] + 2)
      BY <1>6, <2>4, Zenon DEF H!Complete
    <3>6. f[1] + 2 \in Nat /\ f[1] + 2 > 0 /\ 7 \in Nat /\ H!ReplyEnd - (f[1] + 2) = 7
      <4>1. f[1] \in Nat /\ H!ReplyEnd = 2 + (7 + f[1])
        BY <1>0, <3>1, <3>2, <3>4, Zenon
      <4> QED BY <4>1, SMT
    <3>7. Prefix(7)' /\ need' = f[1] + 2 /\ hpc' = "address"
      BY <1>1, <3>4, <3>5, <3>6, NewField, Zenon DEF H!Read
    <3>8. H!ReplyEnd' - need' = 7
      BY <1>2, <3>6, <3>7
    <3> QED BY <1>2, <2>1, <3>7, <3>8 DEF SocksInv
  <2> QED BY <2>2, <2>3, <2>4
<1>7. CASE hpc = "address"
  <2>0. Prefix(H!ReplyEnd - need) /\ H!ReplyEnd - need \in Nat /\ H!Granted
    BY <1>7 DEF SocksInv, Prefix
  <2> PICK b \in Nat : b = H!ReplyEnd - need
    BY <2>0
  <2>1. Prefix(b) /\ H!Granted
    BY <2>0
  <2>2. PICK f \in Seq(Nat) :
           /\ read' \in Nat /\ read' = b + Len(f) /\ Part(f, H!Stream, b, Len(f))
           /\ \/ Len(f) < need /\ got' = f /\ UNCHANGED <<hpc, need>>
              \/ Len(f) = need /\ H!Complete(f)
    BY <1>0, <2>1, RecvField, Zenon
  <2>3. CASE Len(f) < need /\ got' = f /\ UNCHANGED <<hpc, need>>
    <3>1. Prefix(b)'
      BY <1>3, <2>1, <2>2, <2>3, Zenon
    <3>2. H!ReplyEnd' - need' = b
      BY <1>2, <2>3
    <3> QED BY <1>2, <1>7, <2>1, <2>3, <3>1, <3>2 DEF SocksInv
  <2>4. CASE Len(f) = need /\ H!Complete(f)
    <3>1. hpc' = "done"
      BY <1>7, <2>4 DEF H!Complete, H!Return
    <3>2. read' = H!ReplyEnd
      BY <1>0, <2>2, <2>4, SMT DEF HTypes
    <3> QED BY <1>2, <2>1, <3>1, <3>2 DEF SocksInv
  <2> QED BY <2>2, <2>3, <2>4
<1> QED BY <1>1, <1>4, <1>5, <1>6, <1>7

\* The first n bytes of a stream.
LEMMA Beginning ==
  ASSUME NEW S \in Seq(Nat), NEW n \in Nat, n <= Len(S)
  PROVE  /\ SubSeq(S, 1, n) \in Seq(Nat) /\ Len(SubSeq(S, 1, n)) = n
         /\ \A i \in 1..n : SubSeq(S, 1, n)[i] = S[i]
BY SMT

\* http_connect takes the status it finds behind the first space for the proxy's.
LEMMA StatusIsVerdict ==
  ASSUME HttpFacts(script), arrived \in Nat, arrived <= Len(H!Stream),
         H!Status200(SubSeq(H!Stream, 1, arrived))
  PROVE  script.grant
<1> DEFINE f == SubSeq(H!Stream, 1, arrived)
<1>1. H!Stream \in Seq(Nat) /\ \A i \in 1..7 : H!Stream[i] = script.reply[i]
  BY HttpStream
<1>2. f \in Seq(Nat) /\ Len(f) = arrived /\ \A i \in 1..arrived : f[i] = H!Stream[i]
  BY <1>1, Beginning
<1> HIDE DEF f
<1>3. PICK j \in 1..(arrived - 3) :
         /\ f[j] = H!Space /\ \A k \in 1..(j - 1) : f[k] # H!Space
         /\ SubSeq(f, j + 1, j + 3) = <<H!Digit(2), H!Digit(0), H!Digit(0)>>
  BY <1>2 DEF H!Status200, f
<1>4. f[1] = script.reply[1] /\ f[2] = script.reply[2] /\ f[3] = script.reply[3]
  <2>1. /\ 1 \in 1..arrived /\ 2 \in 1..arrived /\ 3 \in 1..arrived
        /\ 1 \in 1..7 /\ 2 \in 1..7 /\ 3 \in 1..7
    BY <1>3, SMT
  <2>2. f[1] = H!Stream[1] /\ f[2] = H!Stream[2] /\ f[3] = H!Stream[3]
    BY <1>2, <2>1, Zenon
  <2> QED BY <1>1, <2>1, <2>2, Zenon
<1>5. script.reply[1] # H!Space /\ script.reply[2] = H!Space
  BY DEF HttpFacts
<1>6. j = 2
  <2>1. j # 1
    BY <1>3, <1>4, <1>5, Zenon
  <2>2. 2 \notin 1..(j - 1)
    BY <1>3, <1>4, <1>5, Zenon
  <2> QED BY <1>3, <2>1, <2>2, SMT
<1>7. f[3] = H!Digit(2)
  <2>1. arrived >= 5
    BY <1>3, <1>6, SMT
  <2>2. SubSeq(f, 3, 5)[1] = f[3]
    BY <1>2, <2>1, SMT
  <2>3. 2 + 1 = 3 /\ 2 + 3 = 5
    BY SMT
  <2>4. SubSeq(f, 3, 5) = <<H!Digit(2), H!Digit(0), H!Digit(0)>>
    BY <1>3, <1>6, <2>3, Zenon
  <2>5. <<H!Digit(2), H!Digit(0), H!Digit(0)>>[1] = H!Digit(2)
    BY SMT
  <2> QED BY <2>2, <2>4, <2>5, Zenon
<1> QED BY <1>4, <1>7 DEF HttpFacts

\* A connection is asked for over SOCKS5 or over HTTP.
LEMMA OneProtocol == H!Socks \cap H!Http = {} /\ "udp" \notin H!Http
BY SMT DEF H!Socks, H!Http

\* The positions stay within the stream, the field within its length.
LEMMA HTypesStep ==
  ASSUME DomainLens \subseteq Nat, HInv, H!Next
  PROVE  HTypes'
<1>0. kind' = kind /\ script' = script
  BY SameConnection
<1>1. H!Stream' = H!Stream
  BY <1>0, SameScript
<1>2. << >> \in Seq(Nat) /\ 0 \in Nat /\ 2 \in Nat /\ 4 \in Nat
  BY SMT
<1>3. CASE H!SendAll \/ H!SendHttp \/ H!SendFails \/ H!RecvFails \/ H!Close \/ H!Done
  <2>1. UNCHANGED <<read, arrived>> /\ got' \in {got, << >>} /\ need' \in {need, 0, 2, 4}
    BY <1>3 DEF H!SendAll, H!SendHttp, H!SendFails, H!RecvFails, H!Close, H!Done, H!vars,
                H!proxyVars, H!Read, H!Return
  <2> QED BY <1>0, <1>1, <1>2, <2>1, Zenon DEF HInv, HTypes
<1>4. CASE H!RecvHttp
  <2>1. read' = arrived /\ arrived' = arrived /\ got' = << >> /\ need' = 0
    BY <1>4 DEF H!RecvHttp, H!Return, H!proxyVars
  <2>2. arrived <= arrived
    BY SMT DEF HInv, HTypes
  <2> QED BY <1>0, <1>1, <1>2, <2>1, <2>2, Zenon DEF HInv, HTypes
<1>5. CASE H!Arrive
  <2>1. arrived < H!Asked /\ arrived' = arrived + 1 /\ UNCHANGED <<got, need, read>>
    BY <1>5 DEF H!Arrive
  <2>2. H!Asked \in Nat /\ H!Asked <= Len(H!Stream) /\ Len(H!Stream) \in Nat
    <3>1. CASE kind \in H!Socks
      <4>1. SocksFacts(script)
        BY <3>1, SocksScript, OneProtocol DEF HInv, HTypes
      <4>2. Len(script.method) = 2 /\ H!Stream \in Seq(Nat) /\ 2 <= Len(H!Stream)
        <5>1. /\ H!Stream \in Seq(Nat) /\ H!ReplyEnd = 2 + Len(script.reply)
              /\ H!ReplyEnd <= Len(H!Stream)
          BY <4>1, SocksStream
        <5> QED BY <4>1, <5>1, SMT DEF SocksFacts
      <4>3. Len(H!Stream) \in Nat /\ Len(H!Stream) <= Len(H!Stream) /\ 0 <= Len(H!Stream)
        BY <4>2, SMT
      <4> QED BY <1>2, <4>2, <4>3, Zenon DEF H!Asked
    <3>2. CASE kind \in H!Http
      <4>1. HttpFacts(script)
        BY <3>2, HttpScript, OneProtocol DEF HInv, HTypes
      <4>2. H!Stream \in Seq(Nat)
        BY <4>1, HttpStream
      <4>3. Len(H!Stream) \in Nat /\ Len(H!Stream) <= Len(H!Stream) /\ 0 <= Len(H!Stream)
        BY <4>2, SMT
      <4> QED BY <1>2, <3>2, <4>3, OneProtocol, Zenon DEF H!Asked
    <3> QED BY <3>1, <3>2 DEF HInv, HTypes
  <2>3. arrived + 1 \in Nat /\ read <= arrived + 1 /\ arrived + 1 <= Len(H!Stream)
    BY <2>1, <2>2, SMT DEF HInv, HTypes
  <2> QED BY <1>0, <1>1, <2>1, <2>3, Zenon DEF HInv, HTypes
<1>6. CASE H!RecvN
  <2>1. hpc \in {"method", "header", "length", "address"} /\ arrived' = arrived
    BY <1>6 DEF H!RecvN, H!proxyVars
  <2>2. kind \in H!Socks /\ SocksInv
    BY <2>1 DEF HInv, HTypes, HttpInv
  <2>3. H!Stream \in Seq(Nat)
    BY <2>2, SocksScript, SocksStream, OneProtocol DEF HInv, HTypes
  <2>4. /\ \E b \in Nat : Prefix(b)
        /\ hpc = "length" => need = 1
    BY <2>1, <2>2 DEF SocksInv, Prefix
  <2>5. PICK f \in Seq(Nat) :
           /\ read' \in Nat /\ read' <= arrived
           /\ \/ Len(f) < need /\ got' = f /\ UNCHANGED <<hpc, need>>
              \/ Len(f) = need /\ H!Complete(f)
    BY <1>6, <2>3, <2>4, RecvField, Zenon DEF HInv
  <2>6. got' \in Seq(Nat) /\ need' \in Nat
    <3>1. CASE Len(f) < need /\ got' = f /\ UNCHANGED <<hpc, need>>
      BY <3>1 DEF HInv, HTypes
    <3>2. CASE Len(f) = need /\ H!Complete(f)
      <4>1. got' = << >> /\ (need' \in {0, 1, 4 + 2, 16 + 2} \/ (hpc = "length" /\ need' = f[1] + 2))
        BY <3>2, Zenon DEF H!Complete, H!Read, H!Return
      <4>2. ASSUME hpc = "length" PROVE f[1] + 2 \in Nat
        <5>1. Len(f) = 1
          BY <2>4, <3>2, <4>2
        <5> QED BY <5>1, SMT
      <4>3. 0 \in Nat /\ 1 \in Nat /\ 4 + 2 \in Nat /\ 16 + 2 \in Nat
        BY SMT
      <4> QED BY <1>2, <4>1, <4>2, <4>3, Zenon
    <3> QED BY <2>5, <3>1, <3>2
  <2> QED BY <1>0, <1>1, <2>1, <2>5, <2>6, Zenon DEF HInv, HTypes
<1> QED BY <1>3, <1>4, <1>5, <1>6 DEF H!Next, H!Worker

\* Every step of a SOCKS5 handshake.
LEMMA SocksStep ==
  ASSUME DomainLens \subseteq Nat, HInv, kind \in H!Socks, H!Next
  PROVE  SocksInv'
<1>0. HTypes /\ SocksInv /\ SocksFacts(script)
  BY SocksScript, OneProtocol DEF HInv, HTypes
<1>1. kind' = kind /\ script' = script
  BY SameConnection
<1>2. /\ H!Stream' = H!Stream /\ H!ReplyEnd' = H!ReplyEnd /\ H!Granted' = H!Granted
      /\ GoodMethod(script)' = GoodMethod(script)
  BY <1>1, SameScript
<1>3. ASSUME UNCHANGED <<hpc, need, got, read, broke>> PROVE SocksInv'
  <2>1. ASSUME NEW b, Prefix(b) PROVE Prefix(b)'
    BY <1>1, <1>3, <2>1, SameField
  <2>2. PICK e : e = H!ReplyEnd - need
    BY Zenon
  <2>3. H!ReplyEnd' - need' = e /\ script'.reply[4] = script.reply[4]
    BY <1>1, <1>2, <1>3, <2>2
  <2> QED BY <1>0, <1>2, <1>3, <2>1, <2>2, <2>3 DEF SocksInv
<1>4. ASSUME hpc' = "failed", broke' = TRUE PROVE SocksInv'
  BY <1>4 DEF SocksInv
<1>5. CASE H!SendAll
  <2>1. hpc \in {"greeting", "request"} /\ UNCHANGED <<read, broke>>
    BY <1>5 DEF H!SendAll
  <2>2. \/ UNCHANGED <<hpc, need, got, read, broke>>
        \/ hpc = "greeting" /\ H!Read("method", 2)
        \/ hpc = "request" /\ H!Read("header", 4)
    BY <1>5 DEF H!SendAll
  <2>3. 2 \in Nat /\ 4 \in Nat /\ 0 \in Nat /\ 2 > 0 /\ 4 > 0
    BY SMT
  <2>4. CASE hpc = "greeting" /\ H!Read("method", 2)
    <3>1. read' = 0
      BY <1>0, <2>1, <2>4 DEF SocksInv
    <3>2. Prefix(0)' /\ hpc' = "method" /\ need' = 2
      BY <1>1, <2>3, <2>4, <3>1, NewField, Zenon DEF H!Read
    <3> QED BY <3>2 DEF SocksInv
  <2>5. CASE hpc = "request" /\ H!Read("header", 4)
    <3>1. read' = 2 /\ GoodMethod(script)
      BY <1>0, <2>1, <2>5 DEF SocksInv
    <3>2. Prefix(2)' /\ hpc' = "header" /\ need' = 4
      BY <1>1, <2>3, <2>5, <3>1, NewField, Zenon DEF H!Read
    <3> QED BY <1>2, <3>1, <3>2 DEF SocksInv
  <2> QED BY <1>3, <2>2, <2>4, <2>5
<1>6. CASE H!SendHttp \/ H!RecvHttp
  <2>1. hpc \in {"connect", "http"}
    BY <1>6 DEF H!SendHttp, H!RecvHttp
  <2> QED BY <1>0, <2>1 DEF SocksInv
<1>7. CASE H!SendFails \/ H!RecvFails
  BY <1>4, <1>7 DEF H!SendFails, H!RecvFails, H!Return
<1>8. CASE H!RecvN
  BY <1>0, <1>8, RecvStep
<1>9. CASE H!Arrive \/ H!Close \/ H!Done
  BY <1>3, <1>9 DEF H!Arrive, H!Close, H!Done, H!vars
<1> QED BY <1>5, <1>6, <1>7, <1>8, <1>9 DEF H!Next, H!Worker

\* Every step of a handshake over HTTP.
LEMMA HttpStep ==
  ASSUME HInv, kind \in H!Http, H!Next
  PROVE  HttpInv'
<1>0. HTypes /\ HttpInv /\ HttpFacts(script)
  BY HttpScript, OneProtocol DEF HInv, HTypes
<1>1. kind' = kind /\ script' = script
  BY SameConnection
<1>2. H!Granted' = H!Granted
  BY <1>1, SameScript
<1>3. CASE H!RecvHttp
  <2>1. CASE H!Status200(SubSeq(H!Stream, 1, arrived))
    <3>1. script.grant
      BY <1>0, <2>1, StatusIsVerdict DEF HTypes
    <3>2. H!Granted
      BY <3>1, OneProtocol DEF H!Granted
    <3> QED BY <1>2, <1>3, <2>1, <3>2 DEF HttpInv, H!RecvHttp, H!Return
  <2>2. CASE ~H!Status200(SubSeq(H!Stream, 1, arrived))
    BY <1>3, <2>2 DEF HttpInv, H!RecvHttp, H!Return
  <2> QED BY <2>1, <2>2
<1>4. CASE H!SendAll \/ H!RecvN
  <2>1. hpc \in {"greeting", "request", "method", "header", "length", "address"}
    BY <1>4 DEF H!SendAll, H!RecvN
  <2> QED BY <1>0, <2>1 DEF HttpInv
<1>5. CASE H!SendHttp \/ H!SendFails \/ H!RecvFails
  BY <1>5 DEF HttpInv, H!SendHttp, H!SendFails, H!RecvFails, H!Read, H!Return
<1>6. CASE H!Arrive \/ H!Close \/ H!Done
  BY <1>0, <1>2, <1>6 DEF HttpInv, H!Arrive, H!Close, H!Done, H!vars
<1> QED BY <1>3, <1>4, <1>5, <1>6 DEF H!Next, H!Worker

\* The invariant of the handshake, for any lengths of the names.
LEMMA Handshaking ==
  ASSUME DomainLens \subseteq Nat
  PROVE  H!Spec => []HInv
<1>1. H!Init => HInv
  <2> SUFFICES ASSUME H!Init PROVE HInv
    OBVIOUS
  <2>1. << >> \in Seq(Nat) /\ 0 \in Nat /\ 0 <= 0
    BY SMT
  <2>2. H!Stream \in Seq(Nat)
    BY SocksScript, SocksStream, HttpScript, HttpStream DEF H!Init
  <2>3. 0 <= Len(H!Stream)
    BY <2>2, SMT
  <2>4. HTypes
    BY <2>1, <2>3, Zenon DEF H!Init, HTypes
  <2> QED BY <2>4, OneProtocol DEF H!Init, HInv, SocksInv, HttpInv
<1>2. HInv /\ [H!Next]_(H!vars) => HInv'
  <2>1. ASSUME HInv, H!Next PROVE HInv'
    <3>1. kind' = kind
      BY <2>1, SameConnection
    <3> QED BY <2>1, <3>1, HTypesStep, SocksStep, HttpStep DEF HInv
  <2>2. ASSUME HInv, UNCHANGED H!vars PROVE HInv'
    BY <2>1, <2>2 DEF H!Next, H!Done, H!vars, HInv, HTypes, SocksInv, HttpInv, Prefix,
                      H!Stream, H!ReplyEnd, H!Granted, GoodMethod
  <2> QED BY <2>1, <2>2
<1> QED BY <1>1, <1>2, PTL DEF H!Spec

\* A SOCKS5 handshake that succeeds has read the proxy's replies to their last
\* byte and no byte of the tunnel, for any address the proxy answers with and any
\* cut of the stream into segments: recv_n and the lengths that
\* socks5_read_connect_reply derives from the reply.
THEOREM Untouched ==
  ASSUME DomainLens \subseteq Nat
  PROVE  H!Spec => []H!TunnelUntouched
<1>1. HInv => H!TunnelUntouched
  BY DEF HInv, SocksInv, H!TunnelUntouched
<1> QED BY <1>1, Handshaking, PTL

\* A worker that goes on was granted the tunnel, over SOCKS5 and over HTTP; a
\* SOCKS5 worker that gives up without a failed call was refused.
THEOREM Verdict ==
  ASSUME DomainLens \subseteq Nat
  PROVE  H!Spec => []H!VerdictExact
<1>1. HInv => H!VerdictExact
  BY DEF HInv, HTypes, SocksInv, HttpInv, H!VerdictExact
<1> QED BY <1>1, Handshaking, PTL
=============================================================================
