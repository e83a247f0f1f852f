---------------------------- MODULE GwlbTunnels -----------------------------
(***************************************************************************)
(* Gwlb implements Tunnels: the refinement mapping.  A tunnel is the veth  *)
(* of its endpoint, what it has cached is what the maps hold under the     *)
(* veth's ifindex, and a packet is in the tunnel of whoever has, at that   *)
(* moment, the ifindex its run carries.                                    *)
(***************************************************************************)
EXTENDS Gwlb

TunnelOf == [v \in Vpce |->
    IF vpce_to_ifindex[v] # None THEN "open"
    ELSE IF \E i \in Ifindex : veth[i] = v THEN "shut" ELSE "none"]

SuspectOf == {v \in Vpce : \E i \in dirty : veth[i] = v}

MapOf(kind) == IF kind = "flow" THEN flow_state ELSE frag_state

CachedOf == [v \in Vpce |->
    {e \in {"flow", "frag"} \X Tuple :
        \E i \in Ifindex : veth[i] = v /\ MapOf(e[1])[<<i, e[2]>>] # None}]

Nothing == [dir |-> "none", of |-> None, at |-> None, tuple |-> None, hdr |-> None]

\* A run whose ifindex is nobody's has no packet: the kernel drops what it redirects.
PacketOf == [c \in Cpu |->
    IF c \in InFlight /\ veth[run[c].ifindex] # None
    THEN [dir |-> IF run[c].st \in {"publish", "deliver"} THEN "in" ELSE "out",
          of |-> run[c].vpce, at |-> veth[run[c].ifindex], tuple |-> run[c].tuple,
          hdr |-> run[c].hdr]
    ELSE Nothing]

T == INSTANCE Tunnels WITH
        tunnel <- TunnelOf, suspect <- SuspectOf, cached <- CachedOf, packet <- PacketOf

\* Whatever the commands do to the maps, veths and ifindexes the endpoints share,
\* each endpoint has a tunnel of its own (the whole of bpf/ and cmd/).
ImplementsTunnels == T!Spec
=============================================================================
