----------------------------- MODULE MCPacket ------------------------------
(***************************************************************************)
(* Instances of packet_processor's two paths: UdpDecision and TcpDecision. *)
(* They share no state, so a behaviour has the packets of one of them.     *)
(***************************************************************************)
EXTENDS UdpDecision, TLC

CONSTANTS d1, d2, Fams, MaxToggles

VARIABLES
    path,
    decided, tdirect, tracked, policy, tapi, toggles, tpc, fam, verdict, own, sinceSyn, tlast

T == INSTANCE TcpDecision WITH direct <- tdirect, api <- tapi, pc <- tpc, last <- tlast

tcpVars == <<decided, tdirect, tracked, policy, tapi, toggles, tpc, fam, verdict, own, sinceSyn, tlast>>

\* Two destinations that hash to one slot of udp_direct_entries.
SharedSlot == (d1 :> 1) @@ (d2 :> 1)

MCInit ==
    /\ path \in {"policy", "owners", "tcp"}
    /\ Init /\ T!Init
    /\ path # "tcp" => (\A f \in Fams : policy[f] = "DIRECT") /\ fam = CHOOSE f \in Fams : TRUE
    /\ path # "policy" => dst = d1

\* Policy changes, datagrams to both destinations and one socket whose events
\* the observers do not deliver; or owner events, two sockets and datagrams to
\* one destination.
UdpStep ==
    /\ \/ path = "policy" /\ Next /\ life' <= 2 /\ \A l \in Layers : handled'[l] = 0
       \/ path = "owners" /\ Next /\ rules' = 0 /\ dst' = d1
    /\ UNCHANGED tcpVars

TcpStep == path = "tcp" /\ T!Next /\ UNCHANGED vars

MCNext == (UdpStep \/ TcpStep) /\ UNCHANGED path

MCSpec == MCInit /\ [][MCNext]_<<path, vars, tcpVars>>

----------------------------------------------------------------------------
(* The properties of TcpDecision, where they are stated in full.           *)

\* A redirected TCP connection stays with the relay.
TrackedNeverDirect == T!TrackedNeverDirect

\* A SYN starts the port afresh.
ReuseStartsAfresh == T!ReuseStartsAfresh
=============================================================================
