---------------------------- MODULE MCRelayPool ----------------------------
(* Instances of RelayPool for TLC.                                         *)
EXTENDS RelayPool, TLC

Symmetry == Permutations(Conns) \cup Permutations(Workers)

Started == {c \in Conns : starter[c] # "idle"}

\* Two connections without data, or, under OneWithFaults, one connection with data
\* and faults.
\* Every stream ends cleanly: the kernel may delay an EOF for ever, so for
\* safety this includes the streams that never end.
LifetimeInit ==
    /\ Init
    /\ \A d \in Dirs : fin[d] /\ (total[d] > 0 => faults)
    /\ \A c \in Conns : total[<<c, 1>>] <= total[<<c, 0>>]
    /\ Cardinality({d[1] : d \in {e \in Dirs : total[e] > 0}}) <= 1

LifetimeSpec == LifetimeInit /\ [][Next]_vars

\* With faults only one connection is handed over.
OneWithFaults == faults => Cardinality(Started') <= 1

\* Fault-free streams: none, MaxBytes in one direction, or MaxBytes shared by both,
\* which then end.  The two directions run the same code and differ only in which
\* is posted first, so the first one carries the most.
StreamInit ==
    /\ Init /\ ~faults
    /\ \A c \in Conns :
         /\ total[<<c, 1>>] <= total[<<c, 0>>]
         /\ total[<<c, 0>>] + total[<<c, 1>>] \in {0, MaxBytes}
         /\ total[<<c, 1>>] > 0 => fin[<<c, 0>>] /\ fin[<<c, 1>>]

StreamSpec == StreamInit /\ [][Next]_vars /\ Fairness
=============================================================================
