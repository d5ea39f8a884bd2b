-------------------------- MODULE ConnTrackProofs ---------------------------
(***************************************************************************)
(* Machine-checked safety of the connection table under WindowSpec, for    *)
(* any sets of keys, buckets, destinations and cells, and any timeouts.    *)
(*                                                                         *)
(* The tables are consistent because the lists of the buckets are proper:  *)
(* no two links lead to one cell, so taking a cell out through any link to *)
(* it takes out that cell and no other.  The lemmas on lists say so, and   *)
(* the lemma Aside says what the other threads owe the cleanup thread      *)
(* while it has released the lock.                                         *)
(*                                                                         *)
(* The last section is about the list of logged connections (ConnLog).     *)
(***************************************************************************)
EXTENDS ConnTrack, Sequences, TLAPS

\* Zenon is tried first; a leaf that it does not find cites SMT.
USE ZenonT(20), SMTT(30)

Links(c) == \A m \in Cells : c[m].next \in Cells \cup {Null}

\* No two links of a list lead to the same cell, and none to its first.
Proper(c, h) ==
    \A m \in Reach(c, h) :
        /\ c[m].next # h
        /\ \A k \in Reach(c, h) : c[k].next = c[m].next /\ c[m].next # Null => k = m

----------------------------------------------------------------------------
(* Lists.                                                                  *)

\* The cells of a list are the least set that holds it.
LEMMA ReachLeast ==
  ASSUME NEW c, NEW n, NEW S \in SUBSET Cells, Holds(c, n, S)
  PROVE  Reach(c, n) \subseteq S
<1> SUFFICES ASSUME NEW m \in Reach(c, n), m \notin S PROVE FALSE
  OBVIOUS
<1>1. S \in SUBSET (Cells \ {m})
  OBVIOUS
<1> QED BY <1>1 DEF Reach

\* That set holds the list, too.
LEMMA ReachHolds ==
  ASSUME NEW c, Links(c), NEW n \in Cells \cup {Null}
  PROVE  /\ Reach(c, n) \in SUBSET Cells
         /\ Null \notin Reach(c, n)
         /\ Holds(c, n, Reach(c, n))
<1>1. Reach(c, n) \in SUBSET Cells /\ Null \notin Reach(c, n)
  BY ConnTrackAssumption DEF Reach
<1>2. n \in Reach(c, n) \cup {Null}
  BY DEF Reach, Holds
<1>3. ASSUME NEW m \in Reach(c, n), c[m].next # Null
      PROVE  c[m].next \in Reach(c, n)
  <2>1. PICK x \in Cells : x = c[m].next
    BY <1>1, <1>3 DEF Links
  <2>2. ASSUME NEW S \in SUBSET (Cells \ {x}), Holds(c, n, S) PROVE FALSE
    <3>1. m \in S
      BY <2>2, ReachLeast
    <3> QED BY <1>3, <2>1, <2>2, <3>1 DEF Holds
  <2> QED BY <2>1, <2>2 DEF Reach
<1> QED BY <1>1, <1>2, <1>3 DEF Holds

\* A list is the same in two heaps that agree on the links of its cells.
LEMMA ReachSame ==
  ASSUME NEW c, Links(c), NEW d, Links(d), NEW n \in Cells \cup {Null},
         \A m \in Reach(c, n) : d[m].next = c[m].next
  PROVE  Reach(d, n) = Reach(c, n)
<1>1. /\ Reach(c, n) \in SUBSET Cells /\ Holds(c, n, Reach(c, n))
      /\ Reach(d, n) \in SUBSET Cells /\ Holds(d, n, Reach(d, n))
  BY ReachHolds
<1>2. Holds(d, n, Reach(c, n))
  BY <1>1 DEF Holds
<1>3. Reach(d, n) \subseteq Reach(c, n)
  BY <1>1, <1>2, ReachLeast
<1>4. Holds(c, n, Reach(d, n))
  BY <1>1, <1>3 DEF Holds
<1>5. Reach(c, n) \subseteq Reach(d, n)
  BY <1>1, <1>4, ReachLeast
<1> QED BY <1>3, <1>5

\* The empty list.
LEMMA ReachNull ==
  ASSUME NEW c
  PROVE  Reach(c, Null) = {}
<1>1. Holds(c, Null, {})
  BY DEF Holds
<1> QED BY <1>1, ReachLeast

\* A list is its first cell and the list of the next.
LEMMA ReachNext ==
  ASSUME NEW c, Links(c), NEW n \in Cells
  PROVE  Reach(c, n) = {n} \cup Reach(c, c[n].next)
<1>0. n # Null /\ c[n].next \in Cells \cup {Null}
  BY ConnTrackAssumption DEF Links
<1>1. /\ Reach(c, n) \in SUBSET Cells /\ Holds(c, n, Reach(c, n))
      /\ Reach(c, c[n].next) \in SUBSET Cells /\ Holds(c, c[n].next, Reach(c, c[n].next))
  BY <1>0, ReachHolds
<1>2. Holds(c, n, {n} \cup Reach(c, c[n].next))
  BY <1>1 DEF Holds
<1>3. Reach(c, n) \subseteq {n} \cup Reach(c, c[n].next)
  BY <1>1, <1>2, ReachLeast
<1>4. n \in Reach(c, n) /\ Holds(c, c[n].next, Reach(c, n))
  BY <1>0, <1>1 DEF Holds
<1>5. Reach(c, c[n].next) \subseteq Reach(c, n)
  BY <1>1, <1>4, ReachLeast
<1> QED BY <1>3, <1>4, <1>5

\* A cell does not follow itself.
LEMMA NoLoop ==
  ASSUME NEW c, Links(c), NEW h \in Cells \cup {Null}, Proper(c, h), NEW m \in Reach(c, h)
  PROVE  c[m].next # m
<1> SUFFICES ASSUME c[m].next = m PROVE FALSE
  OBVIOUS
<1>1. Reach(c, h) \in SUBSET Cells /\ Null \notin Reach(c, h) /\ Holds(c, h, Reach(c, h))
  BY ReachHolds
<1>2. m # h /\ \A k \in Reach(c, h) \ {m} : c[k].next # m
  BY <1>1 DEF Proper
<1>3. Holds(c, h, Reach(c, h) \ {m})
  BY <1>1, <1>2 DEF Holds
<1> QED BY <1>1, <1>3, ReachLeast

\* Where a list starts once n was taken out of it, and where the link of m leads.
HeadAfter(c, h, n) == IF h = n THEN c[n].next ELSE h
Skip(c, n, m) == IF c[m].next = n THEN c[n].next ELSE c[m].next

\* Taking a cell out of a list leaves the others, and no two links to one cell.
LEMMA Cut ==
  ASSUME NEW c, Links(c), NEW d, Links(d), NEW h \in Cells \cup {Null}, Proper(c, h),
         NEW n \in Reach(c, h), \A m \in Reach(c, h) \ {n} : d[m].next = Skip(c, n, m)
  PROVE  Reach(d, HeadAfter(c, h, n)) = Reach(c, h) \ {n} /\ Proper(d, HeadAfter(c, h, n))
<1> DEFINE C == Reach(c, h)
           g == HeadAfter(c, h, n)
<1>1. C \in SUBSET Cells /\ Null \notin C /\ Holds(c, h, C)
  BY ReachHolds
<1>2. c[n].next # n /\ c[n].next \in C \cup {Null} /\ h \in C \cup {Null}
  BY <1>1, NoLoop DEF Holds
<1>3. g \in C \cup {Null} /\ g # n /\ g \in Cells \cup {Null}
  BY <1>1, <1>2 DEF HeadAfter
<1>4. Holds(d, g, C \ {n})
  <2>1. ASSUME NEW m \in C \ {n} PROVE d[m].next \in (C \ {n}) \cup {Null}
    BY <1>1, <1>2 DEF Skip, Holds
  <2> QED BY <1>3, <2>1 DEF Holds
<1> DEFINE S == Reach(d, g)
<1>5. S \subseteq C \ {n} /\ S \in SUBSET Cells /\ Holds(d, g, S)
  BY <1>1, <1>3, <1>4, ReachLeast, ReachHolds, SMT
<1>6. C \subseteq S \cup {n}
  <2>1. CASE c[n].next \in S \cup {Null}
    <3>1. Holds(c, h, S \cup {n})
      <4>1. h \in S \cup {n} \cup {Null}
        BY <1>5 DEF Holds, HeadAfter
      <4>2. ASSUME NEW m \in S PROVE c[m].next \in S \cup {n} \cup {Null}
        BY <1>5 DEF Holds, Skip
      <4> QED BY <2>1, <4>1, <4>2 DEF Holds
    <3> QED BY <1>1, <1>5, <3>1, ReachLeast
  <2>2. CASE c[n].next \notin S \cup {Null}
    <3>1. h # n /\ \A m \in S : c[m].next # n
      BY <1>5, <2>2 DEF Holds, HeadAfter, Skip
    <3>2. Holds(c, h, S)
      BY <1>5, <3>1 DEF Holds, HeadAfter, Skip
    <3> QED BY <1>5, <3>2, ReachLeast
  <2> QED BY <2>1, <2>2
<1>7. Reach(d, g) = C \ {n}
  BY <1>5, <1>6
<1>8. ASSUME NEW m \in C \ {n} PROVE d[m].next # g
  <2>1. CASE h = n
    <3>1. c[n].next # Null
      <4>1. c[n].next = Null => Holds(c, h, {n})
        BY <2>1 DEF Holds
      <4> QED BY <1>1, <4>1, ReachLeast, SMT
    <3> QED BY <1>1, <1>2, <2>1, <3>1 DEF HeadAfter, Skip, Proper
  <2>2. CASE h # n
    BY <1>1, <1>2, <2>2 DEF HeadAfter, Skip, Proper
  <2> QED BY <2>1, <2>2
<1>9. ASSUME NEW m \in C \ {n}, NEW k \in C \ {n}, d[k].next = d[m].next, d[m].next # Null
      PROVE  k = m
  BY <1>1, <1>9 DEF Skip, Proper
<1> QED BY <1>7, <1>8, <1>9 DEF Proper

\* Once v was taken out through the one link to it, the cells behind it are those
\* that were.
LEMMA Rest ==
  ASSUME NEW c, Links(c), NEW d, Links(d), NEW v \in Cells,
         \A m \in Cells : d[m].next = c[m].next \/ c[m].next = v
  PROVE  Reach(c, v) \subseteq {v} \cup Reach(d, c[v].next)
<1>1. c[v].next \in Cells \cup {Null}
  BY DEF Links
<1> DEFINE S == Reach(d, c[v].next)
<1>2. S \in SUBSET Cells /\ Holds(d, c[v].next, S)
  BY <1>1, ReachHolds
<1>3. Holds(c, v, {v} \cup S)
  BY <1>2 DEF Holds
<1> QED BY <1>2, <1>3, ReachLeast

\* Putting a new cell in front of a list.
LEMMA Push ==
  ASSUME NEW c, Links(c), NEW d, Links(d), NEW h \in Cells \cup {Null}, Proper(c, h),
         NEW n \in Cells \ Reach(c, h), d[n].next = h,
         \A m \in Cells \ {n} : d[m].next = c[m].next
  PROVE  Reach(d, n) = {n} \cup Reach(c, h) /\ Proper(d, n)
<1>1. Reach(c, h) \in SUBSET Cells /\ Null \notin Reach(c, h) /\ Holds(c, h, Reach(c, h))
  BY ReachHolds
<1>2. Reach(d, h) = Reach(c, h)
  BY <1>1, ReachSame, SMT
<1>3. Reach(d, n) = {n} \cup Reach(c, h)
  BY <1>2, ReachNext
<1>4. ASSUME NEW m \in Reach(c, h) PROVE d[m].next # n /\ d[m].next # h /\ d[m].next = c[m].next
  <2>1. n # Null
    BY ConnTrackAssumption
  <2> QED BY <1>1, <2>1, SMT DEF Holds, Proper
<1>5. h # n
  BY <1>1, ConnTrackAssumption DEF Holds
<1> QED BY <1>3, <1>4, <1>5 DEF Proper

----------------------------------------------------------------------------
(* The inductive invariant.                                                *)

\* The lists of the buckets are proper, and hold allocated cells of their keys.
HeapInv ==
    \A b \in Buckets :
        /\ Proper(cell, head[b])
        /\ \A n \in Chain(head[b]) :
              n \in alloc /\ cell[n].key \in Keys /\ Bucket[cell[n].key] = b

\* What is allocated is in the table, but for the cell about to be freed.
AllocInv ==
    /\ NothingLeaked
    /\ pc = "free" => victim \in alloc /\ victim \notin Tracked

RevInv == \A t \in Dests : rev[t] = {n \in Tracked : cell[n].dest = t}

\* The cleanup thread has the lock while it scans; its pointer is a link of the
\* bucket that it is in, also while it has released the lock.
CleanInv ==
    /\ lock = "cleanup" <=> pc = "scan"
    /\ pc \in {"scan", "free"} =>
          /\ bucket \in Buckets
          /\ \/ link = <<"head", bucket>>
             \/ \E m \in Chain(head[bucket]) : link = <<"next", m>>

Young(n) == snapshot - cell[n].act <= Timeout(n)

\* The entries of the buckets behind the cleanup thread, and those that it has
\* passed in the bucket that it is in, are young.
PassInv ==
    /\ snapshot <= clock
    /\ pc # "idle" => \A b \in Buckets : b < bucket => \A n \in Chain(head[b]) : Young(n)
    /\ pc \in {"scan", "free"} =>
          \A n \in Chain(head[bucket]) : n \notin Chain(Deref) => Young(n)

IInv == TypeOK /\ HeapInv /\ AllocInv /\ RevInv /\ CleanInv /\ PassInv

----------------------------------------------------------------------------
(* Facts about one state.                                                  *)

\* The links of a well typed heap lead to cells, and the lists are sets of cells.
LEMMA Lists ==
  ASSUME TypeOK
  PROVE  /\ Links(cell)
         /\ \A b \in Buckets : head[b] \in Cells \cup {Null}
         /\ \A b \in Buckets : Chain(head[b]) \subseteq Cells /\ Null \notin Chain(head[b])
         /\ Tracked \subseteq Cells
<1>1. Links(cell) /\ \A b \in Buckets : head[b] \in Cells \cup {Null}
  BY SMT DEF TypeOK, Links
<1>2. \A b \in Buckets : Chain(head[b]) \subseteq Cells /\ Null \notin Chain(head[b])
  BY <1>1, ReachHolds DEF Chain
<1> QED BY <1>1, <1>2 DEF Tracked

\* No cell is in the lists of two buckets.
LEMMA Apart ==
  ASSUME HeapInv, NEW a \in Buckets, NEW b \in Buckets, NEW n \in Chain(head[a]),
         n \in Chain(head[b])
  PROVE  a = b
BY DEF HeapInv

\* Where the pointer of the cleanup thread leads while it is in a bucket.
LEMMA Pointed ==
  ASSUME TypeOK, CleanInv, pc \in {"scan", "free"}
  PROVE  /\ Deref \in Chain(head[bucket]) \cup {Null}
         /\ Deref \in Cells \cup {Null}
         /\ Chain(Deref) \subseteq Chain(head[bucket])
<1>1. /\ bucket \in Buckets /\ Links(cell) /\ head[bucket] \in Cells \cup {Null}
      /\ Chain(head[bucket]) \in SUBSET Cells
      /\ Holds(cell, head[bucket], Chain(head[bucket]))
  BY Lists, ReachHolds DEF CleanInv, Chain
<1>2. Deref \in Chain(head[bucket]) \cup {Null}
  <2>1. CASE link = <<"head", bucket>>
    <3>1. Deref = head[bucket]
      BY <2>1 DEF Deref
    <3> QED BY <1>1, <3>1 DEF Holds
  <2>2. ASSUME NEW m \in Chain(head[bucket]), link = <<"next", m>>
        PROVE  Deref \in Chain(head[bucket]) \cup {Null}
    <3>1. Deref = cell[m].next
      BY <2>2, SMT DEF Deref
    <3> QED BY <1>1, <3>1 DEF Holds
  <2> QED BY <2>1, <2>2 DEF CleanInv
<1>3. Holds(cell, Deref, Chain(head[bucket]))
  BY <1>1, <1>2 DEF Holds
<1> QED BY <1>1, <1>2, <1>3, ReachLeast DEF Chain

\* An entry that has not expired was active within its timeout before the pass:
\* the difference of the two times is less than the range of the counter.
LEMMA Unexpired ==
  ASSUME TypeOK, NEW n \in Cells, ~Expired(n)
  PROVE  Young(n)
<1>1. /\ snapshot \in 0..MaxTime /\ cell[n].act \in 0..MaxTime
      /\ Timeout(n) \in Nat /\ Timeout(n) <= StaleTimeout
      /\ MaxTime \in Nat /\ TickMod \in Nat /\ MaxTime < TickMod
  BY ConnTrackAssumption, SMT DEF TypeOK, Timeout
<1>2. CASE snapshot < cell[n].act
  BY <1>1, <1>2, SMT DEF Young
<1>3. CASE snapshot >= cell[n].act
  <2>1. snapshot - cell[n].act \in 0..(TickMod - 1)
    BY <1>1, <1>3, SMT
  <2>2. \A x \in 0..(TickMod - 1) : x % TickMod = x
    BY <1>1, SMT
  <2>3. (snapshot - cell[n].act) % TickMod <= Timeout(n)
    BY <1>1, <2>1, <2>2, SMT DEF Expired
  <2> QED BY <2>1, <2>2, <2>3 DEF Young
<1> QED BY <1>1, <1>2, <1>3, SMT

\* A list whose cells keep their links.
LEMMA Frame ==
  ASSUME NEW c, Links(c), NEW d, Links(d), NEW h \in Cells \cup {Null}, Proper(c, h),
         \A m \in Reach(c, h) : d[m].next = c[m].next
  PROVE  Reach(d, h) = Reach(c, h) /\ Proper(d, h)
<1>1. Reach(d, h) = Reach(c, h)
  BY ReachSame
<1> QED BY <1>1 DEF Proper

----------------------------------------------------------------------------
(* Entries.                                                                *)

Entry == [key : Keys \cup {Null}, dest : Dests \cup {Null}, act : 0..MaxTime,
          fin : SUBSET {1, 2}, next : Cells \cup {Null}]

Made(k, t, a, s, x) == [key |-> k, dest |-> t, act |-> a, fin |-> s, next |-> x]

\* An entry that one of the threads marked active.
Touch(n, t, s) ==
    cell' = [cell EXCEPT ![n] = Made(cell[n].key, t, clock, s, cell[n].next)]

\* The fields of an entry.
LEMMA MadeFields ==
  ASSUME NEW k, NEW t, NEW a, NEW s, NEW x
  PROVE  /\ Made(k, t, a, s, x).key = k /\ Made(k, t, a, s, x).dest = t
         /\ Made(k, t, a, s, x).act = a /\ Made(k, t, a, s, x).fin = s
         /\ Made(k, t, a, s, x).next = x
BY DEF Made

\* Entries are well typed when their fields are.
LEMMA MadeType ==
  ASSUME NEW k \in Keys \cup {Null}, NEW t \in Dests \cup {Null}, NEW a \in 0..MaxTime,
         NEW s \in SUBSET {1, 2}, NEW x \in Cells \cup {Null}
  PROVE  Made(k, t, a, s, x) \in Entry
BY SMT DEF Made, Entry

\* An entry is made of its fields.
LEMMA EntryMade ==
  ASSUME NEW e \in Entry
  PROVE  /\ e = Made(e.key, e.dest, e.act, e.fin, e.next)
         /\ e.key \in Keys \cup {Null} /\ e.dest \in Dests \cup {Null}
         /\ e.act \in 0..MaxTime /\ e.fin \in SUBSET {1, 2} /\ e.next \in Cells \cup {Null}
BY SMT DEF Made, Entry

\* A store to one field.
LEMMA MadeExcept ==
  ASSUME NEW k, NEW t, NEW a, NEW s, NEW x
  PROVE  /\ \A u : [Made(k, t, a, s, x) EXCEPT !.dest = u] = Made(k, u, a, s, x)
         /\ \A u : [Made(k, t, a, s, x) EXCEPT !.act = u] = Made(k, t, u, s, x)
         /\ \A u : [Made(k, t, a, s, x) EXCEPT !.fin = u] = Made(k, t, a, u, x)
         /\ \A u : [Made(k, t, a, s, x) EXCEPT !.next = u] = Made(k, t, a, s, u)
BY SMT DEF Made

\* The stores of add_connection to an existing entry.
LEMMA Rekeyed ==
  ASSUME cell \in [Cells -> Entry], NEW n \in Cells, NEW t,
         cell' = [cell EXCEPT ![n].dest = t, ![n].act = clock, ![n].fin = {}]
  PROVE  Touch(n, t, {})
<1>1. PICK k, d, a, s, x : cell[n] = Made(k, d, a, s, x)
  BY EntryMade, SMT
<1>2. cell[n].key = k /\ cell[n].next = x
  BY <1>1, MadeFields, SMT
<1>3. cell' = [cell EXCEPT ![n] = [cell[n] EXCEPT !.dest = t, !.act = clock, !.fin = {}]]
  BY Zenon
<1>4. [cell[n] EXCEPT !.dest = t] = Made(k, t, a, s, x)
  BY <1>1, MadeExcept, SMT
<1>5. [Made(k, t, a, s, x) EXCEPT !.act = clock] = Made(k, t, clock, s, x)
  BY MadeExcept, SMT
<1>6. [Made(k, t, clock, s, x) EXCEPT !.fin = {}] = Made(k, t, clock, {}, x)
  BY MadeExcept, SMT
<1>7. [cell[n] EXCEPT !.dest = t, !.act = clock, !.fin = {}] = Made(k, t, clock, {}, x)
  BY <1>4, <1>5, <1>6
<1> QED BY <1>2, <1>3, <1>7 DEF Touch

\* The store of a lookup.
LEMMA Marked ==
  ASSUME cell \in [Cells -> Entry], NEW n \in Cells, cell' = [cell EXCEPT ![n].act = clock]
  PROVE  Touch(n, cell[n].dest, cell[n].fin)
<1>1. PICK k, d, a, s, x : cell[n] = Made(k, d, a, s, x)
  BY EntryMade, SMT
<1>2. cell[n].key = k /\ cell[n].dest = d /\ cell[n].fin = s /\ cell[n].next = x
  BY <1>1, MadeFields, SMT
<1>3. cell' = [cell EXCEPT ![n] = [cell[n] EXCEPT !.act = clock]]
  BY Zenon
<1>4. [cell[n] EXCEPT !.act = clock] = Made(k, d, clock, s, x)
  BY <1>1, MadeExcept, SMT
<1> QED BY <1>2, <1>3, <1>4 DEF Touch

\* The stores of connection_fin.
LEMMA FinMarked ==
  ASSUME cell \in [Cells -> Entry], NEW n \in Cells, NEW bit,
         cell' = [cell EXCEPT ![n].act = clock, ![n].fin = @ \cup {bit}]
  PROVE  Touch(n, cell[n].dest, cell[n].fin \cup {bit})
<1>1. PICK k, d, a, s, x : cell[n] = Made(k, d, a, s, x)
  BY EntryMade, SMT
<1>2. cell[n].key = k /\ cell[n].dest = d /\ cell[n].fin = s /\ cell[n].next = x
  BY <1>1, MadeFields, SMT
<1>3. cell' = [cell EXCEPT ![n] = [cell[n] EXCEPT !.act = clock, !.fin = @ \cup {bit}]]
  BY Zenon
<1>4. [cell[n] EXCEPT !.act = clock] = Made(k, d, clock, s, x)
  BY <1>1, MadeExcept, SMT
<1>5. Made(k, d, clock, s, x).fin = s
  BY MadeFields, SMT
<1>6. \A u : [Made(k, d, clock, s, x) EXCEPT !.fin = u] = Made(k, d, clock, u, x)
  BY MadeExcept, SMT
<1>7. [cell[n] EXCEPT !.act = clock, !.fin = @ \cup {bit}] = Made(k, d, clock, s \cup {bit}, x)
  BY <1>4, <1>5, <1>6
<1> QED BY <1>2, <1>3, <1>7 DEF Touch

\* The store to the link of an entry.
LEMMA Relinked ==
  ASSUME cell \in [Cells -> Entry], NEW m \in Cells, NEW y
  PROVE  [cell[m] EXCEPT !.next = y]
           = Made(cell[m].key, cell[m].dest, cell[m].act, cell[m].fin, y)
<1>1. PICK k, d, a, s, x : cell[m] = Made(k, d, a, s, x)
  BY EntryMade, SMT
<1>2. cell[m].key = k /\ cell[m].dest = d /\ cell[m].act = a /\ cell[m].fin = s
  BY <1>1, MadeFields, SMT
<1> QED BY <1>1, <1>2, MadeExcept, SMT

\* What a mark changes.
LEMMA Touched ==
  ASSUME TypeOK, NEW n \in Cells, NEW t \in Dests \cup {Null}, NEW s \in SUBSET {1, 2},
         Touch(n, t, s)
  PROVE  /\ cell' \in [Cells -> Entry]
         /\ \A m \in Cells : cell'[m].next = cell[m].next /\ cell'[m].key = cell[m].key
         /\ \A m \in Cells \ {n} : cell'[m] = cell[m]
         /\ cell'[n].dest = t /\ cell'[n].act = clock
<1>1. cell \in [Cells -> Entry] /\ clock \in 0..MaxTime
  BY DEF TypeOK, Entry
<1> DEFINE e == Made(cell[n].key, t, clock, s, cell[n].next)
<1>2. e \in Entry
  <2>1. cell[n].key \in Keys \cup {Null} /\ cell[n].next \in Cells \cup {Null}
    BY SMT DEF TypeOK
  <2> QED BY <1>1, <2>1, MadeType
<1>3. e.key = cell[n].key /\ e.next = cell[n].next /\ e.dest = t /\ e.act = clock
  BY MadeFields, SMT
<1>4. cell' = [cell EXCEPT ![n] = e]
  BY DEF Touch
<1> HIDE DEF e
<1>5. cell'[n] = e /\ \A m \in Cells \ {n} : cell'[m] = cell[m]
  BY <1>1, <1>4, SMT
<1>6. cell' \in [Cells -> Entry]
  BY <1>1, <1>2, <1>4, SMT
<1> QED BY <1>3, <1>5, <1>6

\* What free leaves of an entry.
LEMMA FreedEntry ==
  ASSUME TypeOK, NEW n \in Cells
  PROVE  /\ Freed(n) = Made(Null, Null, 0, {}, cell[n].next) /\ Freed(n) \in Entry
         /\ Freed(n).next = cell[n].next
<1>1. 0 \in 0..MaxTime
  BY ConnTrackAssumption, SMT
<1>2. Freed(n) = Made(Null, Null, 0, {}, cell[n].next)
  BY SMT DEF Freed, NoEntry, Made
<1>3. cell[n].next \in Cells \cup {Null}
  BY SMT DEF TypeOK
<1>4. Made(Null, Null, 0, {}, cell[n].next) \in Entry
  BY <1>1, <1>3, MadeType
<1> QED BY <1>2, <1>4, MadeFields, SMT

\* An entry found for a key is a cell of the bucket of the key.
LEMMA Found ==
  ASSUME TypeOK, NEW k \in Keys, NEW n \in Find(k)
  PROVE  /\ n \in Cells /\ Bucket[k] \in Buckets /\ cell[n].key = k
         /\ n \in Chain(head[Bucket[k]]) /\ n \in Tracked
<1>1. Bucket[k] \in Buckets
  BY ConnTrackAssumption
<1>2. n \in Chain(head[Bucket[k]]) /\ cell[n].key = k
  BY DEF Find
<1> QED BY <1>1, <1>2, Lists DEF Tracked

----------------------------------------------------------------------------
(* The other threads: an entry is marked, taken out or put in.             *)

\* A cell is tracked when it is in the list of a bucket.
LEMMA InTable ==
  ASSUME NEW n
  PROVE  n \in Tracked <=> \E b \in Buckets : n \in Chain(head[b])
BY DEF Tracked

\* What leaves the lists leaves the table.
LEMMA OutOfTable ==
  ASSUME NEW n, \A b \in Buckets : Chain(head[b])' = Chain(head[b]) \ {n}
  PROVE  Tracked' = Tracked \ {n}
<1>1. \A m : m \in Tracked' <=> \E b \in Buckets : m \in Chain(head[b])'
  BY DEF Tracked
<1>2. ASSUME NEW m PROVE m \in Tracked' <=> m \in Tracked \ {n}
  <2>1. m \in Tracked' <=> \E b \in Buckets : m \in Chain(head[b]) \ {n}
    BY <1>1
  <2> QED BY <2>1, InTable
<1> QED BY <1>2

\* What the others must leave to the cleanup thread: the bucket that it is in
\* loses no entry and no link, and entries that join a list, or change, are new.
LEMMA Aside ==
  ASSUME TypeOK, TypeOK', CleanInv, PassInv, lock = "free", UNCHANGED cleanupVars,
         clock <= clock',
         pc = "free" => \A m \in Chain(head[bucket]) :
                           m \in Chain(head[bucket])' /\ cell'[m].next = cell[m].next,
         \A b \in Buckets : \A n \in Chain(head[b])' :
            \/ snapshot <= cell'[n].act
            \/ n \in Chain(head[b]) /\ cell'[n].act = cell[n].act /\ cell'[n].fin = cell[n].fin
  PROVE  CleanInv' /\ PassInv'
<1>1. /\ UNCHANGED <<lock, pc, bucket, link, victim, snapshot>> /\ pc # "scan"
      /\ pc \in {"idle", "bucket", "free"}
  BY DEF CleanInv, cleanupVars, TypeOK
<1>2. CleanInv'
  BY <1>1 DEF CleanInv
<1>3. ASSUME NEW b \in Buckets, NEW n \in Chain(head[b])', n \in Chain(head[b]) => Young(n)
      PROVE  Young(n)'
  <2>1. n \in Cells
    BY <1>3, Lists, ReachHolds DEF Chain, Reach
  <2>2. cell'[n].act \in Int /\ cell[n].act \in Int /\ snapshot \in Int
    BY <2>1, SMT DEF TypeOK
  <2>3. CASE snapshot <= cell'[n].act
    <3>1. Timeout(n)' \in Nat
      BY ConnTrackAssumption DEF Timeout
    <3> QED BY <1>1, <2>2, <2>3, <3>1, SMT DEF Young
  <2>4. CASE n \in Chain(head[b]) /\ cell'[n].act = cell[n].act /\ cell'[n].fin = cell[n].fin
    BY <1>1, <1>3, <2>4 DEF Young, Timeout
  <2> QED BY <1>3, <2>3, <2>4
<1>4. snapshot' <= clock'
  <2>1. snapshot \in Int /\ clock \in Int /\ clock' \in Int /\ snapshot' = snapshot
    BY <1>1, SMT DEF TypeOK
  <2> QED BY <2>1, SMT DEF PassInv
<1>5. ASSUME pc' # "idle", NEW b \in Buckets, b < bucket', NEW n \in Chain(head[b])'
      PROVE  Young(n)'
  BY <1>1, <1>3, <1>5 DEF PassInv
<1>6. ASSUME pc' = "free", NEW n \in Chain(head[bucket])', n \notin Chain(Deref)'
      PROVE  Young(n)'
  <2>1. bucket \in Buckets /\ bucket' = bucket /\ pc = "free"
    BY <1>1, <1>6 DEF CleanInv
  <2>2. CASE link = <<"head", bucket>>
    <3>1. Deref' = head'[bucket]
      BY <1>1, <2>2 DEF Deref
    <3> QED BY <1>6, <2>1, <3>1 DEF Chain
  <2>3. ASSUME NEW m \in Chain(head[bucket]), link = <<"next", m>> PROVE Young(n)'
    <3>1. Deref = cell[m].next /\ Deref' = cell'[m].next /\ Deref' = Deref
      BY <1>1, <2>1, <2>3, SMT DEF Deref
    <3>2. Reach(cell', Deref) = Reach(cell, Deref)
      <4>1. Links(cell) /\ Links(cell')
        BY SMT DEF TypeOK, Links
      <4>2. Deref \in Cells \cup {Null} /\ Reach(cell, Deref) \subseteq Chain(head[bucket])
        BY <2>1, Pointed DEF Chain
      <4> QED BY <2>1, <4>1, <4>2, ReachSame
    <3>3. n \notin Chain(Deref)
      BY <1>6, <3>1, <3>2 DEF Chain
    <3>4. n \in Chain(head[bucket]) => Young(n)
      BY <2>1, <3>3 DEF PassInv
    <3> QED BY <1>3, <1>6, <2>1, <3>4
  <2> QED BY <2>1, <2>2, <2>3 DEF CleanInv
<1> QED BY <1>1, <1>2, <1>4, <1>5, <1>6 DEF PassInv

\* Steps that leave every link alone leave the lists alone.
LEMMA SameLists ==
  ASSUME TypeOK, TypeOK', HeapInv, head' = head,
         \A m \in Cells : cell'[m].next = cell[m].next
  PROVE  /\ \A b \in Buckets : Chain(head[b])' = Chain(head[b]) /\ Proper(cell', head'[b])
         /\ Tracked' = Tracked
<1>1. Links(cell) /\ Links(cell') /\ \A b \in Buckets : head[b] \in Cells \cup {Null}
  BY SMT DEF TypeOK, Links
<1>2. ASSUME NEW b \in Buckets
      PROVE  Reach(cell', head[b]) = Reach(cell, head[b]) /\ Proper(cell', head[b])
  <2>1. \A m \in Reach(cell, head[b]) : cell'[m].next = cell[m].next
    BY <1>1 DEF Reach
  <2>2. Proper(cell, head[b])
    BY DEF HeapInv
  <2> QED BY <1>1, <2>1, <2>2, Frame
<1>3. \A b \in Buckets : Chain(head[b])' = Chain(head[b]) /\ Proper(cell', head'[b])
  BY <1>2 DEF Chain
<1> QED BY <1>3 DEF Tracked

\* The lists after a mark, and what the mark keeps.
LEMMA TouchStep ==
  ASSUME IInv, TypeOK', lock = "free", NEW n \in Tracked, NEW t \in Dests \cup {Null},
         NEW s \in SUBSET {1, 2}, Touch(n, t, s), UNCHANGED <<head, alloc, clock, cleanupVars>>
  PROVE  /\ HeapInv' /\ AllocInv' /\ CleanInv' /\ PassInv' /\ Tracked' = Tracked
<1> USE DEF IInv
<1>1. n \in Cells
  BY Lists
<1>2. /\ \A m \in Cells : cell'[m].next = cell[m].next /\ cell'[m].key = cell[m].key
      /\ \A m \in Cells \ {n} : cell'[m] = cell[m]
      /\ cell'[n].act = clock
  BY <1>1, Touched
<1>3. /\ \A b \in Buckets : Chain(head[b])' = Chain(head[b]) /\ Proper(cell', head'[b])
      /\ Tracked' = Tracked
  BY <1>2, SameLists
<1>4. \A b \in Buckets : Chain(head[b]) \subseteq Cells
  BY Lists
<1>5. HeapInv'
  BY <1>2, <1>3, <1>4, SMT DEF HeapInv
<1>6. AllocInv'
  BY <1>3 DEF AllocInv, NothingLeaked, cleanupVars
<1>7. snapshot <= clock /\ clock <= clock'
  BY SMT DEF PassInv, TypeOK
<1>8. CleanInv' /\ PassInv'
  <2>1. pc = "free" => bucket \in Buckets /\ bucket' = bucket
    BY DEF CleanInv, cleanupVars
  <2>2. pc = "free" => \A m \in Chain(head[bucket]) :
                           m \in Chain(head[bucket])' /\ cell'[m].next = cell[m].next
    <3>1. ASSUME pc = "free" PROVE Chain(head[bucket])' = Chain(head[bucket])
      BY <1>3, <2>1, <3>1
    <3> QED BY <1>2, <1>4, <2>1, <3>1
  <2>3. \A b \in Buckets : \A m \in Chain(head[b])' :
            \/ snapshot <= cell'[m].act
            \/ m \in Chain(head[b]) /\ cell'[m].act = cell[m].act /\ cell'[m].fin = cell[m].fin
    BY <1>2, <1>3, <1>4, <1>7
  <2> QED BY <1>7, <2>2, <2>3, Aside
<1> QED BY <1>3, <1>5, <1>6, <1>8

\* The heap after an entry was taken out of its list.
LEMMA Unlinked ==
  ASSUME TypeOK, NEW k \in Keys, NEW n \in Find(k), UnlinkAndFree(n)
  PROVE  /\ cell' \in [Cells -> Entry]
         /\ head' = [head EXCEPT ![Bucket[k]] = HeadAfter(cell, head[Bucket[k]], n)]
         /\ \A m \in Cells \ {n} : /\ cell'[m].key = cell[m].key /\ cell'[m].dest = cell[m].dest
                                   /\ cell'[m].act = cell[m].act /\ cell'[m].fin = cell[m].fin
         /\ \A m \in Chain(head[Bucket[k]]) \ {n} : cell'[m].next = Skip(cell, n, m)
         /\ \A m \in Cells \ Chain(head[Bucket[k]]) : cell'[m].next = cell[m].next
<1>1. /\ n \in Cells /\ cell[n].key = k /\ n \in Chain(head[Bucket[k]])
      /\ Chain(head[Bucket[k]]) \subseteq Cells /\ Bucket[k] \in Buckets
  BY Found, Lists
<1>2. cell \in [Cells -> Entry] /\ cell[n].next \in Cells \cup {Null}
  BY <1>1, SMT DEF TypeOK, Entry
<1>3. head' = [head EXCEPT ![Bucket[k]] = HeadAfter(cell, head[Bucket[k]], n)]
  BY <1>1 DEF UnlinkAndFree, HeadAfter
<1> DEFINE Cutlink(m) == Made(cell[m].key, cell[m].dest, cell[m].act, cell[m].fin, cell[n].next)
<1>4. cell' = [m \in Cells |->
          IF m = n THEN Made(Null, Null, 0, {}, cell[n].next)
          ELSE IF m \in Chain(head[Bucket[k]]) /\ cell[m].next = n THEN Cutlink(m) ELSE cell[m]]
  <2>1. Freed(n) = Made(Null, Null, 0, {}, cell[n].next)
    BY <1>1, FreedEntry
  <2>2. \A m \in Cells : [cell[m] EXCEPT !.next = cell[n].next] = Cutlink(m)
    BY <1>2, Relinked
  <2> QED BY <1>1, <2>1, <2>2 DEF UnlinkAndFree
<1>5. ASSUME NEW m \in Cells
      PROVE  /\ Cutlink(m) \in Entry /\ Cutlink(m).key = cell[m].key
             /\ Cutlink(m).dest = cell[m].dest /\ Cutlink(m).act = cell[m].act
             /\ Cutlink(m).fin = cell[m].fin /\ Cutlink(m).next = cell[n].next
  <2>1. /\ cell[m].key \in Keys \cup {Null} /\ cell[m].dest \in Dests \cup {Null}
        /\ cell[m].act \in 0..MaxTime /\ cell[m].fin \in SUBSET {1, 2}
    BY SMT DEF TypeOK
  <2>2. Cutlink(m) \in Entry
    BY <1>2, <2>1, MadeType
  <2> QED BY <2>2, MadeFields, SMT
<1>6. Made(Null, Null, 0, {}, cell[n].next) \in Entry
  BY <1>1, FreedEntry
<1> HIDE DEF Cutlink
<1>7. cell' \in [Cells -> Entry]
  BY <1>2, <1>4, <1>5, <1>6
<1>8. \A m \in Cells \ {n} : /\ cell'[m].key = cell[m].key /\ cell'[m].dest = cell[m].dest
                             /\ cell'[m].act = cell[m].act /\ cell'[m].fin = cell[m].fin
  BY <1>4, <1>5
<1>9. \A m \in Chain(head[Bucket[k]]) \ {n} : cell'[m].next = Skip(cell, n, m)
  BY <1>1, <1>4, <1>5 DEF Skip
<1>10. \A m \in Cells \ Chain(head[Bucket[k]]) : cell'[m].next = cell[m].next
  BY <1>1, <1>4
<1> QED BY <1>3, <1>7, <1>8, <1>9, <1>10

\* The types and the lists after an entry was removed, and what that keeps.
LEMMA UnlinkStep ==
  ASSUME IInv, lock = "free", NEW k \in Keys, NEW n \in Find(k), UnlinkAndFree(n),
         rev_unlink(n), Window, UNCHANGED <<clock, cleanupVars>>
  PROVE  IInv'
<1> USE DEF IInv
<1> DEFINE b0 == Bucket[k]
<1>1. /\ n \in Cells /\ cell[n].key = k /\ n \in Chain(head[b0]) /\ b0 \in Buckets
      /\ n \in Tracked /\ \A b \in Buckets : Chain(head[b]) \subseteq Cells
  BY Found, Lists
<1>2. /\ cell' \in [Cells -> Entry]
      /\ head' = [head EXCEPT ![b0] = HeadAfter(cell, head[b0], n)]
      /\ \A m \in Cells \ {n} : /\ cell'[m].key = cell[m].key /\ cell'[m].dest = cell[m].dest
                                /\ cell'[m].act = cell[m].act /\ cell'[m].fin = cell[m].fin
      /\ \A m \in Chain(head[b0]) \ {n} : cell'[m].next = Skip(cell, n, m)
      /\ \A m \in Cells \ Chain(head[b0]) : cell'[m].next = cell[m].next
  BY Unlinked
<1>3. Links(cell) /\ Links(cell') /\ \A b \in Buckets : head[b] \in Cells \cup {Null}
  <2>1. Links(cell')
    BY <1>2, SMT DEF Links, Entry
  <2> QED BY <2>1, Lists
<1>4. Reach(cell', HeadAfter(cell, head[b0], n)) = Chain(head[b0]) \ {n}
      /\ Proper(cell', HeadAfter(cell, head[b0], n))
  <2>1. Proper(cell, head[b0])
    BY <1>1 DEF HeapInv
  <2>2. n \in Reach(cell, head[b0])
    BY <1>1 DEF Chain
  <2>3. \A m \in Reach(cell, head[b0]) \ {n} : cell'[m].next = Skip(cell, n, m)
    BY <1>2 DEF Chain
  <2> QED BY <1>1, <1>3, <2>1, <2>2, <2>3, Cut DEF Chain
<1>5. ASSUME NEW b \in Buckets, b # b0
      PROVE  /\ n \notin Chain(head[b]) /\ Proper(cell', head[b])
             /\ Reach(cell', head[b]) = Chain(head[b])
             /\ \A m \in Chain(head[b]) : cell'[m].next = cell[m].next
  <2>1. \A m \in Chain(head[b]) : m \in Cells \ Chain(head[b0])
    BY <1>1, <1>5, Apart
  <2>2. \A m \in Reach(cell, head[b]) : cell'[m].next = cell[m].next
    BY <1>2, <2>1 DEF Chain
  <2>3. Proper(cell, head[b])
    BY DEF HeapInv
  <2> QED BY <1>1, <1>3, <2>1, <2>2, <2>3, Frame, SMT DEF Chain
<1>6. TypeOK'
  <2>1. HeadAfter(cell, head[b0], n) \in Cells \cup {Null}
    BY <1>1, <1>3 DEF Links, HeadAfter
  <2>2. head' \in [Buckets -> Cells \cup {Null}]
    BY <1>2, <2>1 DEF TypeOK
  <2>3. rev' \in [Dests -> SUBSET Cells] /\ alloc' \in SUBSET Cells
    BY SMT DEF TypeOK, rev_unlink, UnlinkAndFree
  <2> QED BY <1>2, <2>2, <2>3 DEF TypeOK, Entry, cleanupVars
<1>7. \A b \in Buckets : Chain(head[b])' = Chain(head[b]) \ {n} /\ Proper(cell', head'[b])
  <2>1. ASSUME NEW b \in Buckets
        PROVE  Reach(cell', head'[b]) = Chain(head[b]) \ {n} /\ Proper(cell', head'[b])
    <3>1. CASE b = b0
      BY <1>1, <1>2, <1>4, <3>1 DEF TypeOK
    <3>2. CASE b # b0
      <4>1. head'[b] = head[b]
        BY <1>2, <3>2 DEF TypeOK
      <4> QED BY <1>5, <3>2, <4>1
    <3> QED BY <3>1, <3>2
  <2> QED BY <2>1 DEF Chain
<1>8. Tracked' = Tracked \ {n}
  BY <1>7, OutOfTable
<1>9. alloc' = alloc \ {n} /\ n \in alloc
  BY <1>1 DEF UnlinkAndFree, HeapInv
<1>10. HeapInv'
  <2>1. ASSUME NEW b \in Buckets, NEW m \in Chain(head[b]) \ {n}
        PROVE  m \in alloc' /\ cell'[m].key \in Keys /\ Bucket[cell'[m].key] = b
    <3>1. m \in alloc /\ cell[m].key \in Keys /\ Bucket[cell[m].key] = b
      BY DEF HeapInv
    <3>2. cell'[m].key = cell[m].key
      BY <1>1, <1>2
    <3> QED BY <1>9, <3>1, <3>2
  <2> QED BY <1>7, <2>1 DEF HeapInv
<1>11. AllocInv'
  BY <1>1, <1>8, <1>9 DEF AllocInv, NothingLeaked, cleanupVars
<1>12. RevInv'
  <2>1. ASSUME NEW t \in Dests PROVE rev'[t] = {m \in Tracked' : cell'[m].dest = t}
    <3>1. rev'[t] = {m \in Tracked : cell[m].dest = t} \ {n}
      BY DEF rev_unlink, RevInv
    <3>2. \A m \in Tracked \ {n} : cell'[m].dest = cell[m].dest
      BY <1>2, Lists
    <3> QED BY <1>8, <3>1, <3>2
  <2> QED BY <2>1 DEF RevInv
<1>13. clock <= clock'
  BY SMT DEF TypeOK
<1>14. CleanInv' /\ PassInv'
  <2>1. ASSUME pc = "free"
        PROVE  bucket \in Buckets /\ bucket # b0 /\ bucket' = bucket
    <3>1. n # victim
      BY <1>1, <2>1 DEF AllocInv
    <3> QED BY <1>1, <1>9, <2>1, <3>1 DEF Window, CleanInv, cleanupVars
  <2>2. pc = "free" => \A m \in Chain(head[bucket]) :
                           m \in Chain(head[bucket])' /\ cell'[m].next = cell[m].next
    <3>1. ASSUME pc = "free"
          PROVE  /\ Chain(head[bucket])' = Chain(head[bucket]) \ {n}
                 /\ n \notin Chain(head[bucket])
                 /\ \A m \in Chain(head[bucket]) : cell'[m].next = cell[m].next
      BY <1>5, <1>7, <2>1, <3>1
    <3> QED BY <3>1
  <2>3. \A b \in Buckets : \A m \in Chain(head[b])' :
            \/ snapshot <= cell'[m].act
            \/ m \in Chain(head[b]) /\ cell'[m].act = cell[m].act /\ cell'[m].fin = cell[m].fin
    BY <1>1, <1>2, <1>7
  <2> QED BY <1>6, <1>13, <2>2, <2>3, Aside
<1> QED BY <1>6, <1>10, <1>11, <1>12, <1>14

\* A new entry in front of the list of its bucket.
Insert(k, t, n) ==
    /\ n \in Cells \ alloc
    /\ alloc' = alloc \cup {n}
    /\ cell' = [cell EXCEPT ![n] = Made(k, t, clock, {}, head[Bucket[k]])]
    /\ head' = [head EXCEPT ![Bucket[k]] = n]
    /\ rev' = [rev EXCEPT ![t] = @ \cup {n}]
    /\ UNCHANGED <<clock, cleanupVars>>

\* It keeps the invariant.
LEMMA InsertStep ==
  ASSUME IInv, lock = "free", NEW k \in Keys, NEW t \in Dests, NEW n \in Cells,
         Insert(k, t, n)
  PROVE  IInv'
<1> USE DEF IInv
<1> DEFINE b0 == Bucket[k]
           e == Made(k, t, clock, {}, head[b0])
<1>1. /\ b0 \in Buckets /\ Links(cell) /\ \A b \in Buckets : head[b] \in Cells \cup {Null}
      /\ \A b \in Buckets : Chain(head[b]) \subseteq Cells
  BY ConnTrackAssumption, Lists
<1>2. cell' = [cell EXCEPT ![n] = e] /\ e \in Entry
  <2>1. clock \in 0..MaxTime
    BY DEF TypeOK
  <2>2. e \in Entry
    BY <1>1, <2>1, MadeType
  <2> QED BY <2>2 DEF Insert
<1>3. e.key = k /\ e.dest = t /\ e.act = clock /\ e.next = head[b0]
  BY MadeFields, SMT
<1> HIDE DEF e
<1>4. cell \in [Cells -> Entry]
  BY DEF TypeOK, Entry
<1>5. cell'[n] = e /\ \A m \in Cells \ {n} : cell'[m] = cell[m]
  BY <1>2, <1>4, SMT
<1>6. TypeOK'
  <2>1. cell' \in [Cells -> Entry]
    BY <1>2, <1>4, SMT
  <2>2. head' \in [Buckets -> Cells \cup {Null}]
    BY <1>1 DEF TypeOK, Insert
  <2>3. rev' \in [Dests -> SUBSET Cells] /\ alloc' \in SUBSET Cells
    BY SMT DEF TypeOK, Insert
  <2>4. UNCHANGED <<clock, cleanupVars>>
    BY DEF Insert
  <2> QED BY <2>1, <2>2, <2>3, <2>4, SMT DEF TypeOK, Entry, cleanupVars
<1>7. Links(cell')
  BY <1>6, SMT DEF TypeOK, Links
<1>8. \A b \in Buckets : n \notin Chain(head[b])
  BY DEF HeapInv, Insert
<1>9. Reach(cell', n) = {n} \cup Chain(head[b0]) /\ Proper(cell', n)
  <2>1. Proper(cell, head[b0]) /\ n \in Cells \ Reach(cell, head[b0])
    BY <1>1, <1>8 DEF HeapInv, Chain
  <2>2. cell'[n].next = head[b0] /\ \A m \in Cells \ {n} : cell'[m].next = cell[m].next
    BY <1>3, <1>5
  <2>3. head[b0] \in Cells \cup {Null} /\ Links(cell)
    BY <1>1
  <2>4. Reach(cell', n) = {n} \cup Reach(cell, head[b0]) /\ Proper(cell', n)
    BY <1>7, <2>1, <2>2, <2>3, Push
  <2> QED BY <2>4 DEF Chain
<1>10. \A b \in Buckets \ {b0} : Chain(head[b])' = Chain(head[b]) /\ Proper(cell', head'[b])
  <2>1. ASSUME NEW b \in Buckets \ {b0}
        PROVE  Reach(cell', head'[b]) = Chain(head[b]) /\ Proper(cell', head'[b])
    <3>1. head'[b] = head[b]
      BY SMT DEF TypeOK, Insert
    <3>2. \A m \in Reach(cell, head[b]) : cell'[m].next = cell[m].next
      BY <1>1, <1>5, <1>8 DEF Chain
    <3>3. Proper(cell, head[b])
      BY DEF HeapInv
    <3>4. head[b] \in Cells \cup {Null} /\ Links(cell)
      BY <1>1
    <3>5. Reach(cell', head[b]) = Reach(cell, head[b]) /\ Proper(cell', head[b])
      BY <1>7, <3>2, <3>3, <3>4, Frame
    <3> QED BY <3>1, <3>5 DEF Chain
  <2> QED BY <2>1 DEF Chain
<1>11. Chain(head[b0])' = {n} \cup Chain(head[b0]) /\ Proper(cell', head'[b0])
  <2>1. head'[b0] = n
    BY <1>1, SMT DEF TypeOK, Insert
  <2> QED BY <1>9, <2>1 DEF Chain
<1>12. Tracked' = {n} \cup Tracked
  <2>1. \A m : m \in Tracked' <=> \E b \in Buckets : m \in Chain(head[b])'
    BY DEF Tracked
  <2> QED BY <1>1, <1>10, <1>11, <2>1, InTable, SMT
<1>13. HeapInv'
  <2>1. ASSUME NEW b \in Buckets, NEW m \in Chain(head[b])'
        PROVE  m \in alloc' /\ cell'[m].key \in Keys /\ Bucket[cell'[m].key] = b
    <3>1. CASE m = n
      <4>1. b = b0
        BY <1>8, <1>10, <2>1, <3>1
      <4> QED BY <1>3, <1>5, <3>1, <4>1 DEF Insert
    <3>2. CASE m # n
      <4>1. m \in Chain(head[b])
        BY <1>10, <1>11, <2>1, <3>2
      <4>2. m \in alloc /\ cell[m].key \in Keys /\ Bucket[cell[m].key] = b
        BY <4>1 DEF HeapInv
      <4>3. cell'[m] = cell[m] /\ alloc' = alloc \cup {n}
        BY <1>1, <1>5, <3>2, <4>1 DEF Insert
      <4> QED BY <4>2, <4>3
    <3> QED BY <3>1, <3>2
  <2>2. \A b \in Buckets : Proper(cell', head'[b])
    BY <1>10, <1>11
  <2> QED BY <2>1, <2>2 DEF HeapInv
<1>14. AllocInv'
  BY <1>12 DEF AllocInv, NothingLeaked, cleanupVars, Insert
<1>15. RevInv'
  <2>1. ASSUME NEW u \in Dests PROVE rev'[u] = {m \in Tracked' : cell'[m].dest = u}
    <3>1. rev'[u] = IF u = t THEN rev[u] \cup {n} ELSE rev[u]
      BY DEF TypeOK, Insert
    <3>2. rev[u] = {m \in Tracked : cell[m].dest = u}
      BY DEF RevInv
    <3>3. n \notin Tracked /\ \A m \in Tracked : cell'[m].dest = cell[m].dest
      BY <1>5, <1>8, InTable, Lists
    <3> QED BY <1>3, <1>5, <1>12, <3>1, <3>2, <3>3, SMT
  <2> QED BY <2>1 DEF RevInv
<1>16. clock <= clock' /\ snapshot <= clock
  BY SMT DEF TypeOK, PassInv, Insert
<1>17. CleanInv' /\ PassInv'
  <2>1. \A b \in Buckets : \A m \in Chain(head[b]) :
           m \in Chain(head[b])' /\ cell'[m] = cell[m]
    BY <1>1, <1>5, <1>8, <1>10, <1>11
  <2>2. pc = "free" => \A m \in Chain(head[bucket]) :
                           m \in Chain(head[bucket])' /\ cell'[m].next = cell[m].next
    <3>1. pc = "free" => bucket \in Buckets /\ bucket' = bucket
      BY DEF CleanInv, cleanupVars, Insert
    <3> QED BY <2>1, <3>1
  <2>3. \A b \in Buckets : \A m \in Chain(head[b])' :
            \/ snapshot <= cell'[m].act
            \/ m \in Chain(head[b]) /\ cell'[m].act = cell[m].act /\ cell'[m].fin = cell[m].fin
    BY <1>3, <1>5, <1>10, <1>11, <1>16, <2>1, SMT
  <2>4. UNCHANGED cleanupVars
    BY DEF Insert
  <2> QED BY <1>6, <1>16, <2>2, <2>3, <2>4, Aside
<1> QED BY <1>6, <1>13, <1>14, <1>15, <1>17

----------------------------------------------------------------------------
(* One lemma per operation of the other threads.                           *)

\* A mark keeps the invariant when the reverse index follows the destination.
LEMMA MarkStep ==
  ASSUME IInv, lock = "free", NEW n \in Tracked, NEW t \in Dests \cup {Null},
         NEW s \in SUBSET {1, 2}, Touch(n, t, s), UNCHANGED <<head, alloc, clock, cleanupVars>>,
         \A u \in Dests : rev'[u] = IF u = t THEN rev[u] \cup {n} ELSE rev[u] \ {n},
         rev' \in [Dests -> SUBSET Cells]
  PROVE  IInv'
<1> USE DEF IInv
<1>1. n \in Cells
  BY Lists
<1>2. /\ cell' \in [Cells -> Entry] /\ cell'[n].dest = t
      /\ \A m \in Cells \ {n} : cell'[m] = cell[m]
  BY <1>1, Touched
<1>3. TypeOK'
  BY <1>2, SMT DEF TypeOK, Entry, cleanupVars
<1>4. HeapInv' /\ AllocInv' /\ CleanInv' /\ PassInv' /\ Tracked' = Tracked
  BY <1>3, TouchStep
<1>5. RevInv'
  <2>1. ASSUME NEW u \in Dests PROVE rev'[u] = {m \in Tracked : cell'[m].dest = u}
    <3>1. rev[u] = {m \in Tracked : cell[m].dest = u}
      BY DEF RevInv
    <3>2. \A m \in Tracked \ {n} : cell'[m] = cell[m]
      BY <1>2, Lists
    <3> QED BY <1>2, <3>1, <3>2, SMT
  <2> QED BY <1>4, <2>1 DEF RevInv
<1> QED BY <1>3, <1>4, <1>5

\* So does one that leaves the destination and the index alone.
LEMMA LookupStep ==
  ASSUME IInv, lock = "free", NEW n \in Tracked, NEW s \in SUBSET {1, 2},
         Touch(n, cell[n].dest, s), UNCHANGED <<head, rev, alloc, clock, cleanupVars>>
  PROVE  IInv'
<1>1. n \in Cells /\ TypeOK
  BY Lists DEF IInv
<1>2. cell[n].dest \in Dests \cup {Null} /\ rev' \in [Dests -> SUBSET Cells]
  BY <1>1, SMT DEF TypeOK
<1>3. \A u \in Dests : rev'[u] = IF u = cell[n].dest THEN rev[u] \cup {n} ELSE rev[u] \ {n}
  BY DEF IInv, RevInv
<1> QED BY <1>2, <1>3, MarkStep

\* add_connection: the existing entry is re-keyed, or a new one is put in.
LEMMA AddStep ==
  ASSUME IInv, NEW k \in Keys, NEW t \in Dests, add_connection(k, t)
  PROVE  IInv'
<1>1. TypeOK /\ cell \in [Cells -> Entry] /\ lock = "free" /\ UNCHANGED <<clock, cleanupVars>>
  BY DEF IInv, add_connection, TypeOK, Entry
<1>2. ASSUME NEW n \in Find(k),
             cell' = [cell EXCEPT ![n].dest = t, ![n].act = clock, ![n].fin = {}],
             rev' = [u \in Dests |-> IF u = t THEN rev[u] \cup {n} ELSE rev[u] \ {n}],
             UNCHANGED <<head, alloc>>
      PROVE  IInv'
  <2>1. n \in Cells /\ n \in Tracked
    BY <1>1, Found
  <2>2. Touch(n, t, {})
    BY <1>1, <1>2, <2>1, Rekeyed
  <2>3. /\ \A u \in Dests : rev'[u] = IF u = t THEN rev[u] \cup {n} ELSE rev[u] \ {n}
        /\ rev' \in [Dests -> SUBSET Cells]
    BY <1>1, <1>2, <2>1, SMT DEF TypeOK
  <2> QED BY <1>1, <1>2, <2>1, <2>2, <2>3, MarkStep
<1>3. ASSUME NEW n \in Cells \ alloc, alloc' = alloc \cup {n},
             cell' = [cell EXCEPT ![n] = [key |-> k, dest |-> t, act |-> clock,
                                          fin |-> {}, next |-> head[Bucket[k]]]],
             head' = [head EXCEPT ![Bucket[k]] = n],
             rev' = [rev EXCEPT ![t] = @ \cup {n}]
      PROVE  IInv'
  <2>1. Insert(k, t, n)
    BY <1>1, <1>3 DEF Insert, Made
  <2> QED BY <1>1, <2>1, InsertStep
<1> QED BY <1>2, <1>3 DEF add_connection

\* udp_flow_validate: the flow goes on, or its entry is dropped.
LEMMA ValidateStep ==
  ASSUME IInv, NEW k \in Keys, NEW t \in Dests, udp_flow_validate(k, t), Window
  PROVE  IInv'
<1>1. TypeOK /\ cell \in [Cells -> Entry] /\ lock = "free" /\ UNCHANGED <<clock, cleanupVars>>
  BY DEF IInv, udp_flow_validate, TypeOK, Entry
<1>2. ASSUME NEW n \in Find(k), cell' = [cell EXCEPT ![n].act = clock],
             UNCHANGED <<head, rev, alloc>>
      PROVE  IInv'
  <2>1. n \in Cells /\ n \in Tracked
    BY <1>1, Found
  <2>2. Touch(n, cell[n].dest, cell[n].fin) /\ cell[n].fin \in SUBSET {1, 2}
    BY <1>1, <1>2, <2>1, Marked, EntryMade
  <2> QED BY <1>1, <1>2, <2>1, <2>2, LookupStep
<1>3. ASSUME NEW n \in Find(k), UnlinkAndFree(n), rev_unlink(n) PROVE IInv'
  BY <1>1, <1>3, UnlinkStep
<1> QED BY <1>2, <1>3 DEF udp_flow_validate

\* get_connection, get_connection_full(_v6).
LEMMA GetStep ==
  ASSUME IInv, NEW k \in Keys, get_connection(k)
  PROVE  IInv'
<1>1. TypeOK /\ cell \in [Cells -> Entry] /\ lock = "free"
      /\ UNCHANGED <<head, rev, alloc, clock, cleanupVars>>
  BY DEF IInv, get_connection, TypeOK, Entry
<1>2. PICK n \in Find(k) : cell' = [cell EXCEPT ![n].act = clock]
  BY DEF get_connection
<1>3. n \in Cells /\ n \in Tracked
  BY <1>1, Found
<1>4. Touch(n, cell[n].dest, cell[n].fin) /\ cell[n].fin \in SUBSET {1, 2}
  BY <1>1, <1>2, <1>3, Marked, EntryMade
<1> QED BY <1>1, <1>3, <1>4, LookupStep

\* connection_fin.
LEMMA FinStep ==
  ASSUME IInv, NEW k \in Keys, NEW bit \in {1, 2}, connection_fin(k, bit)
  PROVE  IInv'
<1>1. TypeOK /\ cell \in [Cells -> Entry] /\ lock = "free"
      /\ UNCHANGED <<head, rev, alloc, clock, cleanupVars>>
  BY DEF IInv, connection_fin, TypeOK, Entry
<1>2. PICK n \in Find(k) : cell' = [cell EXCEPT ![n].act = clock, ![n].fin = @ \cup {bit}]
  BY DEF connection_fin
<1>3. n \in Cells /\ n \in Tracked
  BY <1>1, Found
<1>4. Touch(n, cell[n].dest, cell[n].fin \cup {bit}) /\ cell[n].fin \in SUBSET {1, 2}
  BY <1>1, <1>2, <1>3, FinMarked, EntryMade
<1> QED BY <1>1, <1>3, <1>4, LookupStep

\* remove_connection.
LEMMA RemoveStep ==
  ASSUME IInv, NEW k \in Keys, remove_connection(k), Window
  PROVE  IInv'
<1>1. lock = "free" /\ UNCHANGED <<clock, cleanupVars>>
  BY DEF remove_connection
<1>2. PICK n \in Find(k) : UnlinkAndFree(n) /\ rev_unlink(n)
  BY DEF remove_connection
<1> QED BY <1>1, <1>2, UnlinkStep

\* ProxyBridge_Stop empties both tables.
LEMMA FreeTablesStep ==
  ASSUME IInv, FreeTables
  PROVE  IInv'
<1> USE DEF IInv
<1>1. pc = "idle" /\ pc' = pc /\ lock' = lock /\ snapshot' = snapshot /\ clock' = clock
  BY DEF FreeTables, cleanupVars
<1>2. TypeOK'
  <2>1. ASSUME NEW n \in Cells PROVE Freed(n) \in Entry
    BY FreedEntry
  <2>2. cell' \in [Cells -> Entry]
    BY <2>1 DEF FreeTables, TypeOK, Entry
  <2>3. /\ head' \in [Buckets -> Cells \cup {Null}] /\ rev' \in [Dests -> SUBSET Cells]
        /\ alloc' \in SUBSET Cells
    BY SMT DEF FreeTables, TypeOK
  <2> QED BY <2>2, <2>3, SMT DEF FreeTables, TypeOK, Entry, cleanupVars
<1>3. \A b \in Buckets : Chain(head[b])' = {}
  <2>1. \A b \in Buckets : head'[b] = Null
    BY DEF FreeTables
  <2> QED BY <2>1, ReachNull DEF Chain
<1>4. Tracked' = {}
  BY <1>3 DEF Tracked
<1>5. HeapInv'
  <2>1. \A b \in Buckets : Reach(cell', head'[b]) = {}
    BY <1>3 DEF Chain
  <2> QED BY <1>3, <2>1 DEF HeapInv, Proper
<1>6. alloc \subseteq Tracked
  BY <1>1 DEF AllocInv, NothingLeaked
<1>7. alloc' = {}
  BY <1>6 DEF FreeTables
<1>8. AllocInv'
  BY <1>1, <1>7 DEF AllocInv, NothingLeaked
<1>9. RevInv'
  BY <1>4 DEF RevInv, FreeTables
<1>10. CleanInv' /\ PassInv'
  BY <1>1 DEF CleanInv, PassInv
<1> QED BY <1>2, <1>5, <1>8, <1>9, <1>10

\* Time passes.
LEMMA TickStep ==
  ASSUME IInv, Tick
  PROVE  IInv'
<1> USE DEF IInv
<1>1. UNCHANGED <<tables, cleanupVars>>
  BY DEF Tick
<1>2. TypeOK'
  <2>1. clock' \in 0..MaxTime
    BY ConnTrackAssumption, SMT DEF Tick, TypeOK
  <2> QED BY <1>1, <2>1 DEF TypeOK, tables, cleanupVars
<1>3. HeapInv' /\ AllocInv' /\ RevInv' /\ CleanInv'
  BY <1>1, SMT
     DEF HeapInv, AllocInv, NothingLeaked, RevInv, CleanInv, Tracked, Chain, tables, cleanupVars
<1>4. snapshot' <= clock'
  BY <1>1, SMT DEF Tick, TypeOK, PassInv, cleanupVars
<1>5. PassInv'
  BY <1>1, <1>4 DEF PassInv, Chain, Young, Timeout, Deref, tables, cleanupVars
<1> QED BY <1>2, <1>3, <1>5

----------------------------------------------------------------------------
(* One lemma per step of the cleanup thread.                               *)

\* A step that leaves the tables alone leaves what is said of them alone.
LEMMA SameTables ==
  ASSUME HeapInv, RevInv, UNCHANGED tables
  PROVE  /\ HeapInv' /\ RevInv' /\ Tracked' = Tracked
         /\ \A b \in Buckets : Chain(head[b])' = Chain(head[b])
BY SMT DEF HeapInv, RevInv, Tracked, Chain, tables

\* The pass begins: no bucket is behind the thread.
LEMMA BeginStep ==
  ASSUME IInv, CleanupBegin
  PROVE  IInv'
<1> USE DEF IInv
<1>1. UNCHANGED tables /\ pc = "idle" /\ pc' = "bucket" /\ bucket' = 1 /\ lock' = lock
      /\ snapshot' = clock /\ clock' = clock
  BY DEF CleanupBegin
<1>2. TypeOK'
  BY <1>1, SMT DEF CleanupBegin, TypeOK, tables
<1>3. HeapInv' /\ RevInv' /\ Tracked' = Tracked
  BY <1>1, SameTables
<1>4. AllocInv' /\ CleanInv'
  BY <1>1, <1>3 DEF AllocInv, NothingLeaked, CleanInv, tables
<1>5. \A b \in Buckets : ~(b < bucket')
  BY <1>1, ConnTrackAssumption, SMT
<1>6. snapshot' <= clock'
  BY <1>1, SMT DEF TypeOK
<1>7. PassInv'
  BY <1>1, <1>5, <1>6 DEF PassInv
<1> QED BY <1>2, <1>3, <1>4, <1>7

\* A bucket is begun at its head, or the pass is over.
LEMMA BucketStep ==
  ASSUME IInv, CleanupBucket
  PROVE  IInv'
<1> USE DEF IInv
<1>1. UNCHANGED <<tables, clock, victim, snapshot>> /\ pc = "bucket"
  BY DEF CleanupBucket
<1>2. TypeOK'
  BY <1>1, SMT DEF CleanupBucket, TypeOK, tables
<1>3. HeapInv' /\ RevInv' /\ Tracked' = Tracked
  BY <1>1, SameTables
<1>4. snapshot' <= clock'
  BY <1>1 DEF PassInv
<1>5. CASE bucket \in Buckets
  <2>1. bucket' = bucket /\ pc' = "scan" /\ lock' = "cleanup" /\ link' = <<"head", bucket>>
    BY <1>5 DEF CleanupBucket
  <2>2. AllocInv' /\ CleanInv'
    BY <1>1, <1>3, <1>5, <2>1 DEF AllocInv, NothingLeaked, CleanInv, tables
  <2>3. Deref' = head'[bucket']
    BY <2>1 DEF Deref
  <2>4. PassInv'
    BY <1>1, <1>4, <2>1, <2>3 DEF PassInv, Chain, Young, Timeout, tables
  <2> QED BY <1>2, <1>3, <2>2, <2>4
<1>6. CASE bucket \notin Buckets
  <2>1. pc' = "idle" /\ lock' = lock
    BY <1>6 DEF CleanupBucket
  <2>2. AllocInv' /\ CleanInv' /\ PassInv'
    BY <1>1, <1>3, <1>4, <2>1 DEF AllocInv, NothingLeaked, CleanInv, PassInv, tables
  <2> QED BY <1>2, <1>3, <2>2
<1> QED BY <1>5, <1>6

\* An entry that has not expired is young, and the thread has now passed it.
LEMMA KeepStep ==
  ASSUME IInv, CleanupKeep
  PROVE  IInv'
<1> USE DEF IInv
<1>1. /\ UNCHANGED <<tables, clock, lock, pc, bucket, victim, snapshot>> /\ pc = "scan"
      /\ Deref # Null /\ ~Expired(Deref) /\ link' = <<"next", Deref>>
  BY DEF CleanupKeep
<1>2. /\ Deref \in Chain(head[bucket]) /\ Deref \in Cells /\ bucket \in Buckets
      /\ Links(cell)
  BY <1>1, Pointed, Lists DEF CleanInv
<1>3. TypeOK'
  <2>1. link' \in {"next"} \X Cells
    BY <1>1, <1>2, SMT
  <2> QED BY <1>1, <2>1 DEF TypeOK, tables
<1>4. HeapInv' /\ RevInv' /\ Tracked' = Tracked
  BY <1>1, SameTables
<1>5. AllocInv' /\ CleanInv'
  BY <1>1, <1>2, <1>4 DEF AllocInv, NothingLeaked, CleanInv, Chain, tables
<1>6. Young(Deref)
  BY <1>1, <1>2, Unexpired
<1>7. Deref' = cell[Deref].next
  BY <1>1, SMT DEF Deref, tables
<1>8. Chain(Deref) = {Deref} \cup Chain(cell[Deref].next)
  BY <1>2, ReachNext DEF Chain
<1>9. \A n \in Chain(head[bucket]) : n \notin Chain(cell[Deref].next) => Young(n)
  <2>1. \A n \in Chain(head[bucket]) : n \notin Chain(Deref) => Young(n)
    BY <1>1 DEF PassInv
  <2> QED BY <1>6, <1>8, <2>1
<1>10. Chain(Deref)' = Chain(cell[Deref].next)
  BY <1>1, <1>7 DEF Chain, tables
<1>11. UNCHANGED <<head, cell, clock, pc, bucket, snapshot>>
  BY <1>1 DEF tables
<1>12. PassInv'
  <2>1. snapshot' <= clock'
    BY <1>11 DEF PassInv
  <2>2. ASSUME NEW b \in Buckets, b < bucket', NEW n \in Chain(head[b])' PROVE Young(n)'
    BY <1>1, <1>11, <2>2 DEF PassInv, Chain, Young, Timeout
  <2>3. ASSUME NEW n \in Chain(head[bucket])', n \notin Chain(Deref)' PROVE Young(n)'
    BY <1>9, <1>10, <1>11, <2>3 DEF Chain, Young, Timeout
  <2> QED BY <2>1, <2>2, <2>3 DEF PassInv
<1> QED BY <1>3, <1>4, <1>5, <1>12

\* The end of the list: every entry of the bucket was passed.
LEMMA NextStep ==
  ASSUME IInv, CleanupNext
  PROVE  IInv'
<1> USE DEF IInv
<1>1. /\ UNCHANGED <<tables, clock, link, victim, snapshot>> /\ pc = "scan" /\ Deref = Null
      /\ lock' = "free" /\ bucket' = bucket + 1 /\ pc' = "bucket"
  BY DEF CleanupNext
<1>2. TypeOK'
  BY <1>1, SMT DEF TypeOK, tables
<1>3. HeapInv' /\ RevInv' /\ Tracked' = Tracked
  BY <1>1, SameTables
<1>4. AllocInv' /\ CleanInv'
  BY <1>1, <1>3 DEF AllocInv, NothingLeaked, CleanInv, tables
<1>5. \A n \in Chain(head[bucket]) : Young(n)
  BY <1>1, ReachNull DEF PassInv, Chain
<1>6. UNCHANGED <<head, cell, clock, snapshot>>
  BY <1>1 DEF tables
<1>7. \A b \in Buckets : b < bucket' => b < bucket \/ b = bucket
  BY <1>1, ConnTrackAssumption, SMT DEF TypeOK
<1>8. PassInv'
  <2>1. snapshot' <= clock'
    BY <1>6 DEF PassInv
  <2>2. ASSUME NEW b \in Buckets, b < bucket', NEW n \in Chain(head[b])' PROVE Young(n)'
    <3>1. n \in Chain(head[b])
      BY <1>6, <2>2 DEF Chain
    <3>2. Young(n)
      BY <1>1, <1>5, <1>7, <2>2, <3>1 DEF PassInv
    <3> QED BY <1>6, <3>2 DEF Young, Timeout
  <2> QED BY <1>1, <2>1, <2>2 DEF PassInv
<1> QED BY <1>2, <1>3, <1>4, <1>8

\* The victim is in no list, and keeps its link: the lists stay.
LEMMA FreeStep ==
  ASSUME IInv, CleanupFree
  PROVE  IInv'
<1> USE DEF IInv
<1>1. /\ pc = "free" /\ lock = "free" /\ alloc' = alloc \ {victim}
      /\ cell' = [cell EXCEPT ![victim] = Freed(victim)]
      /\ lock' = "cleanup" /\ pc' = "scan" /\ victim' = Null
      /\ UNCHANGED <<head, rev, clock, bucket, link, snapshot>>
  BY DEF CleanupFree
<1>2. victim \in alloc /\ victim \in Cells /\ victim \notin Tracked
  BY <1>1 DEF AllocInv, TypeOK
<1>3. cell \in [Cells -> Entry]
  BY DEF TypeOK, Entry
<1>4. Freed(victim) \in Entry /\ Freed(victim).next = cell[victim].next
  BY <1>2, FreedEntry
<1>5. /\ cell' \in [Cells -> Entry] /\ cell'[victim].next = cell[victim].next
      /\ \A m \in Cells \ {victim} : cell'[m] = cell[m]
  BY <1>1, <1>2, <1>3, <1>4, SMT
<1>6. TypeOK'
  BY <1>1, <1>5, SMT DEF TypeOK, Entry
<1>7. \A m \in Cells : cell'[m].next = cell[m].next
  BY <1>5
<1>8. /\ \A b \in Buckets : Chain(head[b])' = Chain(head[b]) /\ Proper(cell', head'[b])
      /\ Tracked' = Tracked
  BY <1>1, <1>6, <1>7, SameLists
<1>9. \A b \in Buckets : \A m \in Chain(head[b]) : m # victim /\ cell'[m] = cell[m]
  BY <1>2, <1>5, InTable, Lists
<1>10. HeapInv'
  <2>1. ASSUME NEW b \in Buckets, NEW m \in Chain(head[b])
        PROVE  m \in alloc' /\ cell'[m].key \in Keys /\ Bucket[cell'[m].key] = b
    <3>1. m \in alloc /\ cell[m].key \in Keys /\ Bucket[cell[m].key] = b
      BY DEF HeapInv
    <3>2. alloc' = alloc \ {victim}
      BY <1>1
    <3> QED BY <1>9, <3>1, <3>2
  <2> QED BY <1>8, <2>1 DEF HeapInv
<1>11. AllocInv'
  BY <1>1, <1>8 DEF AllocInv, NothingLeaked
<1>12. RevInv'
  <2>1. \A m \in Tracked : cell'[m] = cell[m]
    BY <1>2, <1>5, Lists
  <2>2. rev' = rev
    BY <1>1
  <2> QED BY <1>8, <2>1, <2>2 DEF RevInv
<1>13. bucket \in Buckets /\ bucket' = bucket /\ head' = head
  BY <1>1 DEF CleanInv
<1>14. CleanInv'
  BY <1>1, <1>8, <1>13 DEF CleanInv
<1>15. Chain(Deref)' = Chain(Deref)
  <2>1. Deref' = Deref
    <3>1. CASE link = <<"head", bucket>>
      BY <1>1, <3>1, SMT DEF Deref
    <3>2. ASSUME NEW m \in Chain(head[bucket]), link = <<"next", m>> PROVE Deref' = Deref
      <4>1. cell'[m] = cell[m]
        BY <1>9, <1>13
      <4> QED BY <1>1, <3>2, <4>1, SMT DEF Deref
    <3> QED BY <1>1, <3>1, <3>2 DEF CleanInv
  <2>2. Reach(cell', Deref) = Reach(cell, Deref)
    <3>1. Links(cell) /\ Links(cell')
      BY <1>6, SMT DEF TypeOK, Links
    <3>2. Deref \in Cells \cup {Null} /\ \A m \in Reach(cell, Deref) : cell'[m].next = cell[m].next
      BY <1>1, <1>7, Pointed DEF Reach
    <3> QED BY <3>1, <3>2, ReachSame
  <2> QED BY <2>1, <2>2 DEF Chain
<1>16. PassInv'
  <2>1. snapshot' <= clock'
    BY <1>1 DEF PassInv
  <2>2. \A b \in Buckets : \A m \in Chain(head[b]) : Young(m) => Young(m)'
    BY <1>1, <1>9 DEF Young, Timeout
  <2> QED BY <1>1, <1>8, <1>13, <1>15, <2>1, <2>2 DEF PassInv
<1> QED BY <1>6, <1>10, <1>11, <1>12, <1>14, <1>16

\* The store of the cleanup thread that takes the entry v out of its list.
LEMMA StoreCut ==
  ASSUME IInv, pc = "scan", link' = link, NEW v \in Cells, Deref = v, StoreLink(cell[v].next)
  PROVE  /\ cell' \in [Cells -> Entry] /\ head' \in [Buckets -> Cells \cup {Null}]
         /\ v \in Chain(head[bucket]) /\ Deref' = cell[v].next
         /\ head'[bucket] = HeadAfter(cell, head[bucket], v)
         /\ \A b \in Buckets \ {bucket} : head'[b] = head[b]
         /\ \A m \in Cells : /\ cell'[m].key = cell[m].key /\ cell'[m].dest = cell[m].dest
                             /\ cell'[m].act = cell[m].act /\ cell'[m].fin = cell[m].fin
         /\ \A m \in Cells : \/ cell'[m].next = cell[m].next
                             \/ cell[m].next = v /\ m \in Chain(head[bucket])
         /\ \A m \in Chain(head[bucket]) \ {v} : cell'[m].next = Skip(cell, v, m)
<1> USE DEF IInv
<1>1. /\ bucket \in Buckets /\ v \in Chain(head[bucket]) /\ Links(cell) /\ v # Null
      /\ Chain(head[bucket]) \subseteq Cells /\ head[bucket] \in Cells \cup {Null}
      /\ Proper(cell, head[bucket])
  <2>1. v # Null
    BY ConnTrackAssumption
  <2> QED BY <2>1, Pointed, Lists DEF CleanInv, HeapInv
<1>2. cell \in [Cells -> Entry] /\ cell[v].next \in Cells \cup {Null}
  BY SMT DEF TypeOK, Entry
<1>3. /\ \A m \in Chain(head[bucket]) : cell[m].next # head[bucket] /\ cell[m].next # m
      /\ \A m, k \in Chain(head[bucket]) : cell[k].next = v /\ cell[m].next = v => k = m
  <2>1. \A m \in Reach(cell, head[bucket]) : cell[m].next # m
    BY <1>1, NoLoop
  <2> QED BY <1>1, <2>1 DEF Proper, Chain
<1>4. CASE link = <<"head", bucket>>
  <2>1. head[bucket] = v
    BY <1>4, SMT DEF Deref
  <2>2. head' = [head EXCEPT ![bucket] = cell[v].next] /\ cell' = cell
    BY <1>4, SMT DEF StoreLink
  <2>3. /\ head' \in [Buckets -> Cells \cup {Null}] /\ head'[bucket] = cell[v].next
        /\ \A b \in Buckets \ {bucket} : head'[b] = head[b]
    BY <1>1, <1>2, <2>2, SMT DEF TypeOK
  <2>4. Deref' = cell[v].next
    BY <1>4, <2>3, SMT DEF Deref
  <2>5. \A m \in Chain(head[bucket]) \ {v} : cell'[m].next = Skip(cell, v, m)
    BY <1>3, <2>1, <2>2 DEF Skip
  <2>6. head'[bucket] = HeadAfter(cell, head[bucket], v)
    BY <2>1, <2>3 DEF HeadAfter
  <2> QED BY <1>1, <1>2, <2>2, <2>3, <2>4, <2>5, <2>6
<1>5. ASSUME NEW p \in Chain(head[bucket]), link = <<"next", p>>
      PROVE  /\ cell' \in [Cells -> Entry] /\ head' = head /\ Deref' = cell[v].next
             /\ head'[bucket] = HeadAfter(cell, head[bucket], v)
             /\ \A m \in Cells : /\ cell'[m].key = cell[m].key /\ cell'[m].dest = cell[m].dest
                                 /\ cell'[m].act = cell[m].act /\ cell'[m].fin = cell[m].fin
             /\ \A m \in Cells : \/ cell'[m].next = cell[m].next
                                 \/ cell[m].next = v /\ m \in Chain(head[bucket])
             /\ \A m \in Chain(head[bucket]) \ {v} : cell'[m].next = Skip(cell, v, m)
  <2>1. cell[p].next = v /\ p \in Cells
    BY <1>1, <1>5, SMT DEF Deref
  <2> DEFINE e == Made(cell[p].key, cell[p].dest, cell[p].act, cell[p].fin, cell[v].next)
  <2>2. head' = head /\ cell' = [cell EXCEPT ![p] = e]
    <3>1. head' = head /\ cell' = [cell EXCEPT ![p].next = cell[v].next]
      BY <1>5, SMT DEF StoreLink
    <3>2. [cell[p] EXCEPT !.next = cell[v].next] = e
      BY <1>2, <2>1, Relinked
    <3>3. [cell EXCEPT ![p].next = cell[v].next]
            = [cell EXCEPT ![p] = [cell[p] EXCEPT !.next = cell[v].next]]
      BY Zenon
    <3> QED BY <3>1, <3>2, <3>3
  <2>3. e \in Entry
    <3>1. /\ cell[p].key \in Keys \cup {Null} /\ cell[p].dest \in Dests \cup {Null}
          /\ cell[p].act \in 0..MaxTime /\ cell[p].fin \in SUBSET {1, 2}
      BY <2>1, SMT DEF TypeOK
    <3> QED BY <1>2, <3>1, MadeType
  <2>4. /\ e.key = cell[p].key /\ e.dest = cell[p].dest /\ e.act = cell[p].act
        /\ e.fin = cell[p].fin /\ e.next = cell[v].next
    BY MadeFields, SMT
  <2> HIDE DEF e
  <2>5. /\ cell' \in [Cells -> Entry] /\ cell'[p] = e
        /\ \A m \in Cells \ {p} : cell'[m] = cell[m]
    BY <1>2, <2>1, <2>2, <2>3, SMT
  <2>6. Deref' = cell[v].next
    BY <1>5, <2>4, <2>5, SMT DEF Deref
  <2>7. head'[bucket] = HeadAfter(cell, head[bucket], v)
    BY <1>3, <1>5, <2>1, <2>2 DEF HeadAfter
  <2>8. \A m \in Chain(head[bucket]) \ {v} : cell'[m].next = Skip(cell, v, m)
    BY <1>1, <1>3, <1>5, <2>1, <2>4, <2>5 DEF Skip
  <2>9. \A m \in Cells : /\ cell'[m].key = cell[m].key /\ cell'[m].dest = cell[m].dest
                         /\ cell'[m].act = cell[m].act /\ cell'[m].fin = cell[m].fin
    BY <2>4, <2>5
  <2> QED BY <1>5, <2>1, <2>2, <2>5, <2>6, <2>7, <2>8, <2>9
<1>6. head \in [Buckets -> Cells \cup {Null}]
  BY DEF TypeOK
<1>7. CASE \E p \in Chain(head[bucket]) : link = <<"next", p>>
  BY <1>1, <1>5, <1>6, <1>7
<1> QED BY <1>4, <1>7 DEF CleanInv

\* An expired entry leaves both tables; what was behind it in the list still is
\* behind the pointer.
LEMMA ExpireStep ==
  ASSUME IInv, CleanupUnlink
  PROVE  IInv'
<1> USE DEF IInv
<1>1. /\ pc = "scan" /\ Deref # Null /\ lock' = "free" /\ pc' = "free" /\ victim' = Deref
      /\ StoreLink(cell[Deref].next) /\ rev_unlink(Deref)
      /\ UNCHANGED <<alloc, clock, bucket, link, snapshot>>
  BY DEF CleanupUnlink
<1>2. PICK v \in Cells : v = Deref
  BY <1>1, Pointed
<1>3. /\ cell' \in [Cells -> Entry] /\ head' \in [Buckets -> Cells \cup {Null}]
      /\ v \in Chain(head[bucket]) /\ Deref' = cell[v].next
      /\ head'[bucket] = HeadAfter(cell, head[bucket], v)
      /\ \A b \in Buckets \ {bucket} : head'[b] = head[b]
      /\ \A m \in Cells : /\ cell'[m].key = cell[m].key /\ cell'[m].dest = cell[m].dest
                          /\ cell'[m].act = cell[m].act /\ cell'[m].fin = cell[m].fin
      /\ \A m \in Cells : \/ cell'[m].next = cell[m].next
                          \/ cell[m].next = v /\ m \in Chain(head[bucket])
      /\ \A m \in Chain(head[bucket]) \ {v} : cell'[m].next = Skip(cell, v, m)
  BY <1>1, <1>2, StoreCut
<1>4. TypeOK'
  <2>1. rev' \in [Dests -> SUBSET Cells]
    BY <1>1, SMT DEF rev_unlink, TypeOK
  <2> QED BY <1>1, <1>2, <1>3, <2>1 DEF TypeOK, Entry
<1>5. /\ Links(cell) /\ Links(cell') /\ bucket \in Buckets
      /\ \A b \in Buckets : head[b] \in Cells \cup {Null} /\ Chain(head[b]) \subseteq Cells
  <2>1. Links(cell')
    BY <1>4, SMT DEF TypeOK, Links
  <2> QED BY <1>1, <2>1, Lists DEF CleanInv
<1>6. /\ Reach(cell', head'[bucket]) = Chain(head[bucket]) \ {v}
      /\ Proper(cell', head'[bucket])
  <2>1. Proper(cell, head[bucket]) /\ head[bucket] \in Cells \cup {Null}
    BY <1>5 DEF HeapInv
  <2>2. v \in Reach(cell, head[bucket])
    BY <1>3 DEF Chain
  <2>3. \A m \in Reach(cell, head[bucket]) \ {v} : cell'[m].next = Skip(cell, v, m)
    BY <1>3 DEF Chain
  <2>4. /\ Reach(cell', HeadAfter(cell, head[bucket], v)) = Reach(cell, head[bucket]) \ {v}
        /\ Proper(cell', HeadAfter(cell, head[bucket], v))
    BY <1>5, <2>1, <2>2, <2>3, Cut
  <2> QED BY <1>3, <2>4 DEF Chain
<1>7. ASSUME NEW b \in Buckets, b # bucket
      PROVE  /\ v \notin Chain(head[b]) /\ Proper(cell', head'[b])
             /\ Reach(cell', head'[b]) = Chain(head[b])
  <2>1. \A m \in Chain(head[b]) : m \notin Chain(head[bucket])
    BY <1>5, <1>7, Apart
  <2>2. \A m \in Reach(cell, head[b]) : cell'[m].next = cell[m].next
    BY <1>3, <1>5, <2>1 DEF Chain
  <2>3. Proper(cell, head[b]) /\ head[b] \in Cells \cup {Null} /\ head'[b] = head[b]
    BY <1>3, <1>5, <1>7 DEF HeapInv
  <2>4. Reach(cell', head[b]) = Reach(cell, head[b]) /\ Proper(cell', head[b])
    BY <1>5, <2>2, <2>3, Frame
  <2> QED BY <1>3, <2>1, <2>3, <2>4 DEF Chain
<1>8. \A b \in Buckets : Chain(head[b])' = Chain(head[b]) \ {v} /\ Proper(cell', head'[b])
  BY <1>6, <1>7 DEF Chain
<1>9. Tracked' = Tracked \ {v}
  BY <1>8, OutOfTable
<1>10. HeapInv'
  <2>1. ASSUME NEW b \in Buckets, NEW m \in Chain(head[b])
        PROVE  m \in alloc' /\ cell'[m].key \in Keys /\ Bucket[cell'[m].key] = b
    <3>1. m \in alloc /\ cell[m].key \in Keys /\ Bucket[cell[m].key] = b
      BY DEF HeapInv
    <3>2. alloc' = alloc /\ cell'[m].key = cell[m].key
      BY <1>1, <1>3, <1>5
    <3> QED BY <3>1, <3>2
  <2> QED BY <1>8, <2>1 DEF HeapInv
<1>11. AllocInv'
  <2>1. v \in alloc /\ alloc \subseteq Tracked
    BY <1>1, <1>3, <1>5 DEF HeapInv, AllocInv, NothingLeaked
  <2> QED BY <1>1, <1>2, <1>9, <2>1 DEF AllocInv, NothingLeaked
<1>12. RevInv'
  <2>1. ASSUME NEW t \in Dests PROVE rev'[t] = {m \in Tracked' : cell'[m].dest = t}
    <3>1. rev'[t] = {m \in Tracked : cell[m].dest = t} \ {v}
      BY <1>1, <1>2 DEF rev_unlink, RevInv
    <3>2. \A m \in Tracked : cell'[m].dest = cell[m].dest
      BY <1>3, Lists
    <3> QED BY <1>9, <3>1, <3>2
  <2> QED BY <2>1 DEF RevInv
<1>13. CleanInv'
  <2>1. \/ link = <<"head", bucket>>
        \/ \E m \in Chain(head[bucket]) \ {v} : link = <<"next", m>>
    <3>1. ASSUME link = <<"next", v>> PROVE FALSE
      <4>1. cell[v].next = v
        BY <1>2, <3>1, SMT DEF Deref
      <4>2. v \in Reach(cell, head[bucket]) /\ Proper(cell, head[bucket])
        BY <1>3, <1>5 DEF Chain, HeapInv
      <4> QED BY <1>5, <4>1, <4>2, NoLoop
    <3> QED BY <1>1, <3>1 DEF CleanInv
  <2> QED BY <1>1, <1>5, <1>8, <2>1 DEF CleanInv
<1>14. PassInv'
  <2>1. snapshot' <= clock'
    BY <1>1 DEF PassInv
  <2>2. ASSUME NEW m \in Cells, Young(m) PROVE Young(m)'
    BY <1>1, <1>3, <2>2 DEF Young, Timeout
  <2>3. Chain(Deref) \subseteq {v} \cup Chain(Deref)'
    <3>1. Reach(cell, v) \subseteq {v} \cup Reach(cell', cell[v].next)
      BY <1>3, <1>5, Rest
    <3> QED BY <1>2, <1>3, <3>1 DEF Chain
  <2>4. ASSUME NEW m \in Chain(head[bucket])', m \notin Chain(Deref)' PROVE Young(m)'
    <3>1. m \in Chain(head[bucket]) /\ m # v
      BY <1>1, <1>5, <1>8, <2>4
    <3> QED BY <1>1, <1>5, <2>2, <2>3, <2>4, <3>1 DEF PassInv
  <2>5. ASSUME NEW b \in Buckets, b < bucket', NEW m \in Chain(head[b])' PROVE Young(m)'
    BY <1>1, <1>5, <1>8, <2>2, <2>5 DEF PassInv
  <2> QED BY <2>1, <2>4, <2>5 DEF PassInv
<1> QED BY <1>4, <1>10, <1>11, <1>12, <1>13, <1>14

----------------------------------------------------------------------------
(* The theorems.                                                           *)

\* The invariant holds at the start.
LEMMA InvInit ==
  ASSUME Init
  PROVE  IInv
<1>1. TypeOK
  <2>1. 0 \in 0..MaxTime /\ 0 \in Nat
    BY ConnTrackAssumption, SMT
  <2>2. cell = [n \in Cells |-> Made(Null, Null, 0, {}, Null)]
    BY DEF Init, NoEntry, Made
  <2>3. Made(Null, Null, 0, {}, Null) \in Entry
    BY <2>1, MadeType
  <2>4. cell \in [Cells -> Entry]
    BY <2>2, <2>3
  <2>5. link \in {"head"} \X (Buckets \cup {0})
    BY SMT DEF Init
  <2> QED BY <2>1, <2>4, <2>5 DEF Init, TypeOK, Entry
<1>2. \A b \in Buckets : Reach(cell, head[b]) = {}
  BY ReachNull DEF Init
<1>3. Tracked = {}
  BY <1>2 DEF Tracked, Chain
<1>4. HeapInv
  BY <1>2 DEF HeapInv, Chain, Proper
<1>5. AllocInv /\ RevInv /\ CleanInv
  BY <1>3 DEF AllocInv, NothingLeaked, RevInv, CleanInv, Init
<1>6. snapshot <= clock
  BY SMT DEF Init
<1>7. PassInv
  BY <1>6 DEF PassInv, Init
<1> QED BY <1>1, <1>4, <1>5, <1>7 DEF IInv

\* The state stays: so does the invariant.
LEMMA InvStutter ==
  ASSUME IInv, UNCHANGED vars
  PROVE  IInv'
<1>1. UNCHANGED <<head, cell, rev, alloc, clock, lock, pc, bucket, link, victim, snapshot>>
  BY DEF vars, tables, cleanupVars
<1>2. TypeOK' /\ HeapInv' /\ RevInv'
  BY <1>1, SMT DEF IInv, TypeOK, HeapInv, RevInv, Tracked, Chain
<1>3. AllocInv' /\ CleanInv'
  BY <1>1 DEF IInv, AllocInv, NothingLeaked, CleanInv, Tracked, Chain
<1>4. PassInv'
  BY <1>1 DEF IInv, PassInv, Deref, Young, Timeout, Chain
<1> QED BY <1>2, <1>3, <1>4 DEF IInv

\* Every step keeps it, as long as no other thread frees an entry of the bucket
\* that the cleanup thread is in while that thread has released the lock.
LEMMA InvStep ==
  ASSUME IInv, Next, Window
  PROVE  IInv'
<1>1. ASSUME NEW k \in Keys, NEW t \in Dests, add_connection(k, t) PROVE IInv'
  BY <1>1, AddStep
<1>2. ASSUME NEW k \in Keys, NEW t \in Dests, udp_flow_validate(k, t) PROVE IInv'
  BY <1>2, ValidateStep
<1>3. ASSUME NEW k \in Keys, get_connection(k) PROVE IInv'
  BY <1>3, GetStep
<1>4. ASSUME NEW k \in Keys, remove_connection(k) PROVE IInv'
  BY <1>4, RemoveStep
<1>5. ASSUME NEW k \in Keys, NEW bit \in {1, 2}, connection_fin(k, bit) PROVE IInv'
  BY <1>5, FinStep
<1>6. CASE FreeTables
  BY <1>6, FreeTablesStep
<1>7. CASE CleanupBegin
  BY <1>7, BeginStep
<1>8. CASE CleanupBucket
  BY <1>8, BucketStep
<1>9. CASE CleanupKeep
  BY <1>9, KeepStep
<1>10. CASE CleanupUnlink
  BY <1>10, ExpireStep
<1>11. CASE CleanupFree
  BY <1>11, FreeStep
<1>12. CASE CleanupNext
  BY <1>12, NextStep
<1>13. CASE Tick
  BY <1>13, TickStep
<1> QED BY <1>1, <1>2, <1>3, <1>4, <1>5, <1>6, <1>7, <1>8, <1>9, <1>10, <1>11, <1>12, <1>13
        DEF Next, cleanup_stale_connections

\* The invariant of the connection table.
THEOREM Invariant == WindowSpec => []IInv
<1>1. Init => IInv
  BY InvInit
<1>2. IInv /\ [Next /\ Window]_vars => IInv'
  BY InvStep, InvStutter
<1> QED BY <1>1, <1>2, PTL DEF WindowSpec

\* For any keys, buckets, destinations and timeouts, "every
\* add/update/remove/cleanup keeps them consistent": the reverse index holds
\* exactly the entries of the forward table, each under its current destination,
\* and none of them was freed.
THEOREM Consistent == WindowSpec => []TablesConsistent
<1>1. IInv => TablesConsistent
  <2>1. HeapInv => Tracked \subseteq alloc
    BY InTable DEF HeapInv
  <2> QED BY <2>1 DEF IInv, RevInv, TablesConsistent
<1> QED BY <1>1, Invariant, PTL

\* remove_connection, udp_flow_validate, the cleanup thread and ProxyBridge_Stop
\* free whatever they unlink: no entry is leaked.
THEOREM NoLeak == WindowSpec => []NothingLeaked
<1>1. IInv => NothingLeaked
  BY DEF IInv, AllocInv
<1> QED BY <1>1, Invariant, PTL

\* A pass of cleanup_stale_connections leaves no stale entry in the buckets it
\* has finished, whatever the other threads did while it had released the lock.
THEOREM Complete == WindowSpec => []PassIsComplete
<1>1. IInv => PassIsComplete
  BY DEF IInv, PassInv, PassIsComplete, Young
<1> QED BY <1>1, Invariant, PTL

----------------------------------------------------------------------------
(* The list of logged connections, the other state of pb_conntrack.c.      *)

CONSTANTS Items, Cap, MaxClears, NoItem
VARIABLES logged, count, lpc, item, cut, enabled, clears

Log == INSTANCE ConnLog WITH pc <- lpc

LogTypes ==
    /\ logged \in Seq(Items \cup {NoItem}) /\ item \in Items \cup {NoItem}
    /\ count \in Int /\ cut \in Nat /\ clears \in Nat

\* The counter lags behind the length of the list by at most one entry per
\* clear, counting what was cut off and is about to be subtracted: the trim cuts
\* off one entry more than the counter lags behind.
LogInv ==
    /\ LogTypes
    /\ Len(logged) <= Cap + clears
    /\ lpc # "free" => Len(logged) - count <= clears
    /\ lpc = "free" => /\ Len(logged) - (count - cut) <= clears
                       /\ Len(logged) < Cap /\ cut <= clears + 1

\* The newest n entries of the list.
LEMMA Newest ==
  ASSUME LogTypes, NEW n \in Nat, n <= Len(logged)
  PROVE  /\ SubSeq(logged, 1, n) \in Seq(Items \cup {NoItem})
         /\ Len(SubSeq(logged, 1, n)) = n
BY SMT DEF LogTypes

\* The new entry in front, or malloc failing, with the counter at n.
LEMMA LinkType ==
  ASSUME LogTypes, NEW n \in Int, Log!LinkItem(n), UNCHANGED clears
  PROVE  /\ LogTypes' /\ lpc' = "idle" /\ clears' = clears
         /\ Len(logged') - count' = Len(logged) - n
         /\ Len(logged') <= Len(logged) + 1
<1>1. CASE logged' = <<item>> \o logged /\ count' = n + 1
  <2>1. <<item>> \o logged \in Seq(Items \cup {NoItem}) /\ Len(<<item>> \o logged) = Len(logged) + 1
    BY SMT DEF LogTypes
  <2> QED BY <1>1, <2>1, SMT DEF LogTypes, Log!LinkItem
<1>2. CASE logged' = logged /\ count' = n
  BY <1>2, SMT DEF LogTypes, Log!LinkItem
<1> QED BY <1>1, <1>2 DEF Log!LinkItem

\* Every step on the log keeps its invariant.
LEMMA LogStep ==
  ASSUME Cap \in Nat \ {0}, LogInv, Log!Next
  PROVE  LogInv'
<1>1. ASSUME NEW x \in Items, Log!Report(x) PROVE LogInv'
  BY <1>1, SMT DEF LogInv, LogTypes, Log!Report
<1>2. CASE Log!AddTrim
  <2>1. CASE count >= Cap /\ Len(logged) >= Cap
    <3>1. /\ cut' = Len(logged) - (Cap - 1) /\ logged' = SubSeq(logged, 1, Cap - 1)
          /\ lpc = "add" /\ lpc' = "free" /\ UNCHANGED <<count, item, clears>>
      BY <1>2, <2>1 DEF Log!AddTrim
    <3>2. /\ logged' \in Seq(Items \cup {NoItem}) /\ Len(logged') = Cap - 1
          /\ Cap - 1 \in Nat
      <4>1. Cap - 1 \in Nat /\ Cap - 1 <= Len(logged)
        BY <2>1, SMT DEF LogInv, LogTypes
      <4> QED BY <3>1, <4>1, Newest DEF LogInv
    <3>3. Len(logged) \in Nat
      BY SMT DEF LogInv, LogTypes
    <3> QED BY <2>1, <3>1, <3>2, <3>3, SMT DEF LogInv, LogTypes
  <2>2. CASE ~(count >= Cap /\ Len(logged) >= Cap)
    <3>1. Log!LinkItem(count) /\ lpc = "add" /\ UNCHANGED clears
      BY <1>2, <2>2 DEF Log!AddTrim
    <3>2. /\ LogTypes' /\ lpc' = "idle" /\ clears' = clears
          /\ Len(logged') - count' = Len(logged) - count /\ Len(logged') <= Len(logged) + 1
      BY <3>1, LinkType DEF LogInv, LogTypes
    <3>3. Len(logged) \in Nat /\ Len(logged') \in Nat
      BY <3>2, SMT DEF LogInv, LogTypes
    <3> QED BY <2>2, <3>1, <3>2, <3>3, SMT DEF LogInv, LogTypes
  <2> QED BY <2>1, <2>2
<1>3. CASE Log!AddLink
  <2>1. Log!LinkItem(count - cut) /\ lpc = "free" /\ UNCHANGED clears
    BY <1>3 DEF Log!AddLink
  <2>2. count - cut \in Int
    BY SMT DEF LogInv, LogTypes
  <2>3. /\ LogTypes' /\ lpc' = "idle" /\ clears' = clears
        /\ Len(logged') - count' = Len(logged) - (count - cut)
        /\ Len(logged') <= Len(logged) + 1
    BY <2>1, <2>2, LinkType DEF LogInv
  <2>4. Len(logged) \in Nat /\ Len(logged') \in Nat
    BY <2>3, SMT DEF LogInv, LogTypes
  <2> QED BY <2>1, <2>3, <2>4, SMT DEF LogInv, LogTypes
<1>4. CASE Log!clear_logged_connections
  <2>1. << >> \in Seq(Items \cup {NoItem}) /\ Len(<< >>) = 0
    BY SMT
  <2> QED BY <1>4, <2>1, SMT DEF LogInv, LogTypes, Log!clear_logged_connections
<1>5. CASE Log!EnableLogging
  BY <1>5, SMT DEF LogInv, LogTypes, Log!EnableLogging
<1>6. CASE Log!CleanupTrim
  <2>1. /\ Len(logged) > Cap /\ logged' = SubSeq(logged, 1, Cap)
        /\ UNCHANGED <<count, lpc, item, cut, clears>>
    BY <1>6 DEF Log!CleanupTrim
  <2>2. Cap <= Len(logged) /\ Len(logged) \in Nat /\ Cap \in Nat
    BY <2>1, SMT DEF LogInv, LogTypes
  <2>3. logged' \in Seq(Items \cup {NoItem}) /\ Len(logged') = Cap
    BY <2>1, <2>2, Newest DEF LogInv
  <2> QED BY <2>1, <2>2, <2>3, SMT DEF LogInv, LogTypes
<1> QED BY <1>1, <1>2, <1>3, <1>4, <1>5, <1>6 DEF Log!Next

\* add_logged_connection, with the lock released in its middle, and the clears
\* and trims of other threads keep the list bounded, for any cap and any number
\* of clears: it exceeds the cap by at most one entry per clear.
THEOREM Bounded ==
  ASSUME Cap \in Nat \ {0}
  PROVE  Log!Spec => []Log!ListBounded
<1>1. Log!Init => LogInv
  <2>1. << >> \in Seq(Items \cup {NoItem}) /\ Len(<< >>) = 0
    BY SMT
  <2> QED BY <2>1, SMT DEF Log!Init, LogInv, LogTypes
<1>2. LogInv /\ [Log!Next]_(Log!vars) => LogInv'
  <2>1. ASSUME LogInv, UNCHANGED Log!vars PROVE LogInv'
    BY <2>1 DEF Log!vars, LogInv, LogTypes
  <2> QED BY <2>1, LogStep
<1>3. LogInv => Log!ListBounded
  BY DEF LogInv, Log!ListBounded
<1> QED BY <1>1, <1>2, <1>3, PTL DEF Log!Spec
=============================================================================
