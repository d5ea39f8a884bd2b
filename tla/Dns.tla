-------------------------------- MODULE Dns --------------------------------
(***************************************************************************)
(* The DNS snoop cache: the packet thread parses the DNS responses that    *)
(* come by and remembers, for every address of an answer, the name that    *)
(* was asked for.  Connection workers and the rules look names up; the     *)
(* cleanup thread drops what has expired.  Payloads are bytes, with the    *)
(* field sizes of the protocol; a response is a structured message, put    *)
(* into bytes by Encode and cut off anywhere.                              *)
(***************************************************************************)
EXTENDS Integers, Sequences, FiniteSets, SequencesExt

CONSTANTS
    Responses,  \* the messages: see Parts
    Followed,   \* those that may come one after the other
    DstLen,     \* size of the name buffers, 256
    MaxJumps,   \* 10
    Buckets,    \* DNS_CACHE_BUCKETS
    TTL,        \* DNS_CACHE_TTL_MS
    MaxTime,    \* bound: clock
    NoName

VARIABLES
    cache,      \* g_dns_cache and g_dns_cache_v6: lists of entries per bucket
    now,        \* GetTickCount64
    todo,       \* payloads to come, the first one in work: a response and its length
    phase,      \* snoop_dns_response: "start", "answers", "end"
    offset,
    left,       \* answers still to come by ancount
    qname,
    seen,       \* [read, written]: highest index read of the payload, written of a name
    stored,     \* ghost: what this payload has stored
    latest      \* ghost: the entry last stored for an address

parseVars == <<todo, phase, offset, left, qname, seen, stored>>
vars == <<cache, now, parseVars, latest>>

----------------------------------------------------------------------------
(* Messages.                                                               *)

Header(m) == <<0, 0, m.flags[1], m.flags[2], 0, Len(m.questions), 0, m.ancount, 0, 0, 0, 0>>
Question(q) == q.raw \o <<0, 1, 0, 1>>
Answer(a) == a.name.raw \o <<0, a.type, 0, a.class, 0, 0, 0, 0, 0, Len(a.data)>> \o a.data

\* A response: flags, questions, ancount, answers.  A name has its bytes (raw) and
\* its labels, NoName if it is malformed or too long.
Parts(m) == <<Header(m)>> \o [j \in 1..Len(m.questions) |-> Question(m.questions[j])]
                          \o [j \in 1..Len(m.answers) |-> Answer(m.answers[j])]
Encode(m) == FlattenSeq(Parts(m))
EndOf(m, j) == Len(FlattenSeq(SubSeq(Parts(m), 1, j)))

\* A response cut off anywhere, or two whole ones.
Whole(m) == [msg |-> m, cut |-> Len(Encode(m))]
Arrivals ==
    UNION {{<<[msg |-> m, cut |-> c]>> : c \in 0..Len(Encode(m))} : m \in Responses}
      \cup {<<Whole(x), Whole(y)>> : x, y \in Followed}

Payload == SubSeq(Encode(todo[1].msg), 1, todo[1].cut)

----------------------------------------------------------------------------
(* dns_parse_name.                                                         *)

\* payload[p]: beyond the end, anything.
Byte(m, p) == IF p < Len(m) THEN m[p + 1] ELSE 0
Larger(a, b) == IF a < b THEN b ELSE a

\* A pointer's second byte lies behind the end.
PointerCut(m, p) == p + 1 >= Len(m)

\* A label of n bytes, the dot before it and the final NUL fit behind out.
\* Mutant: without the check.
LabelFits_Always(out, n) == TRUE
LabelFits(out, n) == out + n + 2 < DstLen

\* One label, pointer or end after the other from s.pos on.  end is jumped_end,
\* -1 before a jump; top and out are the highest index read and the next one
\* written.
RECURSIVE Walk(_, _)
Walk(m, s) ==
    LET b == Byte(m, s.pos)
        t == [s EXCEPT !.top = Larger(@, s.pos)]
        u == [t EXCEPT !.top = Larger(@, s.pos + 1), !.jumps = @ + 1,
                       !.end = IF @ = -1 THEN s.pos + 2 ELSE @,
                       !.pos = (b % 64) * 256 + Byte(m, s.pos + 1)]
        no(x) == [x EXCEPT !.ok = FALSE]
    IN  IF s.pos >= Len(m) THEN no(s)
        ELSE IF b = 0 THEN [t EXCEPT !.end = IF @ = -1 THEN s.pos + 1 ELSE @]
        ELSE IF b >= 192
        THEN IF PointerCut(m, s.pos) THEN no(t)
             ELSE IF u.jumps > MaxJumps THEN no(u) ELSE Walk(m, u)
        ELSE IF s.pos + 1 + b > Len(m) \/ ~LabelFits(s.out, b) THEN no(t)
        ELSE Walk(m, [t EXCEPT !.top = Larger(@, s.pos + b), !.pos = s.pos + 1 + b,
                               !.out = @ + b + (IF @ > 0 THEN 1 ELSE 0),
                               !.name = Append(@, SubSeq(m, s.pos + 2, s.pos + 1 + b))])

\* ok, the labels, the offset behind the name (end), and top and out.
dns_parse_name(m, p) ==
    Walk(m, [ok |-> TRUE, pos |-> p, out |-> 0, jumps |-> 0, end |-> -1, top |-> 0, name |-> << >>])

----------------------------------------------------------------------------
(* The cache.                                                              *)

\* A table per family.
dns_bucket(addr) == <<Len(addr), addr[Len(addr)] % Buckets>>

Entry(addr, name) == [addr |-> addr, domain |-> name, expire_tick |-> now + TTL]

\* dns_cache_store: the entry of the address is renewed, or a new one becomes the
\* head of its bucket; malloc may fail.
dns_cache_store(addr, name) ==
    LET b == dns_bucket(addr)
        hit == {j \in 1..Len(cache[b]) : cache[b][j].addr = addr} IN
    \/ /\ hit # {}
       /\ cache' = [cache EXCEPT ![b][CHOOSE j \in hit : \A k \in hit : j <= k] = Entry(addr, name)]
       /\ latest' = [latest EXCEPT ![addr] = Entry(addr, name)]
    \/ /\ hit = {}
       /\ cache' = [cache EXCEPT ![b] = <<Entry(addr, name)>> \o @]
       /\ latest' = [latest EXCEPT ![addr] = Entry(addr, name)]
    \/ hit = {} /\ UNCHANGED <<cache, latest>>

\* The name dns_cache_lookup gives: that of the first entry of the address which
\* has not expired.  Mutant: expired entries too.
dns_cache_lookup_Stale(addr) ==
    LET c == SelectSeq(cache[dns_bucket(addr)], LAMBDA e : e.addr = addr)
    IN  IF c = << >> THEN NoName ELSE c[1].domain

dns_cache_lookup(addr) ==
    LET c == SelectSeq(cache[dns_bucket(addr)], LAMBDA e : e.addr = addr /\ e.expire_tick > now)
    IN  IF c = << >> THEN NoName ELSE c[1].domain

cleanup_stale_dns_cache ==
    /\ cache' = [b \in DOMAIN cache |-> SelectSeq(cache[b], LAMBDA e : e.expire_tick > now)]
    /\ UNCHANGED <<now, parseVars, latest>>

Tick ==
    /\ now < MaxTime /\ now' = now + 1
    /\ UNCHANGED <<cache, parseVars, latest>>

----------------------------------------------------------------------------
(* snoop_dns_response.                                                     *)

Addresses == {d \in {a.data : a \in UNION {ToSet(m.answers) : m \in Responses}} : Len(d) \in {4, 16}}

Init ==
    /\ cache = [b \in {4, 16} \X (0..(Buckets - 1)) |-> << >>] /\ now = 0
    /\ latest = [a \in Addresses |-> NoName]
    /\ todo \in Arrivals /\ phase = "start" /\ offset = 0 /\ left = 0 /\ qname = << >>
    /\ seen = [read |-> -1, written |-> 0] /\ stored = << >>

Word(m, p) == Byte(m, p) * 256 + Byte(m, p + 1)

Saw(r) == [read |-> Larger(seen.read, r.top), written |-> Larger(seen.written, r.out)]

\* The name of the first question, and the offset behind n more questions.
RECURSIVE Skip(_, _, _)
Skip(m, r, n) ==
    IF n <= 0 \/ ~r.ok \/ r.end >= Len(m) THEN r
    ELSE LET s == dns_parse_name(m, r.end)
         IN  Skip(m, [s EXCEPT !.end = @ + 4, !.top = Larger(@, r.top), !.out = Larger(@, r.out),
                               !.name = r.name], n - 1)

\* The header and the questions.
SnoopQuestions ==
    /\ phase = "start" /\ todo # << >>
    /\ LET m == Payload
           first == dns_parse_name(m, 12)
           r == Skip(m, [first EXCEPT !.end = @ + 4], Word(m, 4) - 1) IN
       IF Len(m) < 12 \/ Byte(m, 2) < 128 \/ Byte(m, 3) % 16 # 0 \/ Word(m, 6) = 0
       THEN phase' = "end" /\ UNCHANGED <<offset, left, qname, seen>>
       ELSE /\ seen' = Saw(r)
            /\ IF r.ok THEN phase' = "answers" /\ offset' = r.end /\ left' = Word(m, 6) /\ qname' = r.name
                       ELSE phase' = "end" /\ UNCHANGED <<offset, left, qname>>
    /\ UNCHANGED <<cache, now, todo, stored, latest>>

\* An A or AAAA record of class IN.  Mutant: of any class.
IsAddressRecord_AnyClass(class, type, rdlen) == (type = 1 /\ rdlen = 4) \/ (type = 28 /\ rdlen = 16)
IsAddressRecord(class, type, rdlen) ==
    class = 1 /\ ((type = 1 /\ rdlen = 4) \/ (type = 28 /\ rdlen = 16))

Store(addr) ==
    IF qname = << >> THEN UNCHANGED <<cache, latest, stored>>
    ELSE dns_cache_store(addr, qname) /\ stored' = Append(stored, addr)

\* An answer; each store takes the lock of its own.
SnoopAnswer ==
    /\ phase = "answers"
    /\ LET m == Payload
           r == dns_parse_name(m, offset)
           rdlen == Word(m, r.end + 8)
           o == r.end + 10
           type == Word(m, r.end)  class == Word(m, r.end + 2)
           whole == r.ok /\ o <= Len(m) /\ o + rdlen <= Len(m) IN
       \/ /\ left = 0 \/ offset >= Len(m)
          /\ phase' = "end" /\ UNCHANGED <<offset, left, seen, cache, latest, stored>>
       \/ /\ left > 0 /\ offset < Len(m) /\ ~whole
          /\ phase' = "end" /\ seen' = Saw(IF r.ok /\ o <= Len(m) THEN [r EXCEPT !.top = Larger(@, o - 1)] ELSE r)
          /\ UNCHANGED <<offset, left, cache, latest, stored>>
       \/ /\ left > 0 /\ offset < Len(m) /\ whole
          /\ seen' = Saw([r EXCEPT !.top = Larger(@, o + rdlen - 1)])
          /\ IF IsAddressRecord(class, type, rdlen)
             THEN Store(SubSeq(m, o + 1, o + rdlen))
             ELSE UNCHANGED <<cache, latest, stored>>
          /\ offset' = o + rdlen /\ left' = left - 1 /\ UNCHANGED phase
    /\ UNCHANGED <<now, todo, qname>>

NextPayload ==
    /\ phase = "end"
    /\ todo' = Tail(todo) /\ phase' = "start"
    /\ offset' = 0 /\ left' = 0 /\ qname' = << >> /\ stored' = << >>
    /\ seen' = [read |-> -1, written |-> 0]
    /\ UNCHANGED <<cache, now, latest>>

Done == todo = << >> /\ UNCHANGED vars

Next == SnoopQuestions \/ SnoopAnswer \/ NextPayload \/ cleanup_stale_dns_cache \/ Tick \/ Done

Spec == Init /\ [][Next]_vars

----------------------------------------------------------------------------
(* Properties.                                                             *)

\* No response, however cut off or malformed, makes the parser read behind the
\* payload or write behind a name buffer.
InBounds ==
    /\ todo # << >> => seen.read < todo[1].cut
    /\ seen.written < DstLen

\* The addresses of a response, by its structure: those of the answers that are
\* complete, up to the first one with a bad name.
IsAddress(a) == a.class = 1 /\ <<a.type, Len(a.data)>> \in {<<1, 4>>, <<28, 16>>}
Expected(m, cut) ==
    LET q == Len(m.questions)
        n == IF m.ancount < Len(m.answers) THEN m.ancount ELSE Len(m.answers)
        whole(j) == /\ EndOf(m, 1 + q + j) <= cut
                    /\ \A k \in 1..j : m.answers[k].name.labels # NoName
        usable == /\ m.flags[1] >= 128 /\ m.flags[2] % 16 = 0
                  /\ \A k \in 1..q : m.questions[k].labels # NoName
                  /\ m.questions[1].labels # << >>
    IN  FlattenSeq([j \in 1..n |-> IF usable /\ whole(j) /\ IsAddress(m.answers[j])
                                   THEN <<m.answers[j].data>> ELSE << >>])

\* A response stores the addresses of its complete answers, in order, under the
\* name of its first question, and nothing else, whatever else is in it and
\* wherever it is cut off.
StoresExactly ==
    phase = "end" => /\ stored = Expected(todo[1].msg, todo[1].cut)
                     /\ stored # << >> => qname = todo[1].msg.questions[1].labels

\* A look-up gives the name last stored for the address until it expires,
\* beside other addresses of the bucket and the cleanup thread.
LookupExact ==
    \A a \in Addresses :
        dns_cache_lookup(a) = IF latest[a] # NoName /\ latest[a].expire_tick > now
                              THEN latest[a].domain ELSE NoName
=============================================================================
