------------------------------- MODULE Sizes -------------------------------
(***************************************************************************)
(* What setup and add size, and the packets that must fit: max_inner_len   *)
(* in decap and encap, the entries of the pinned maps, the MTU of a veth   *)
(* pair.  All of it is computed from the uplink's MTU and the flags of one *)
(* moment, while the uplink's MTU may be changed at any time: setup reads  *)
(* it once, and every add reads it again.                                  *)
(*                                                                         *)
(* A command is one step (their interleavings are in Cli).  Packets are    *)
(* their lengths, from the inner IP header onward.                         *)
(***************************************************************************)
EXTENDS Integers, FiniteSetsExt

CONSTANTS
    Mtus,           \* the MTUs the uplink may be given
    MaxChanges,     \* bound: how often it is changed
    MtuArgs,        \* --mtu of add, 0 for the default
    EndpointArgs,   \* --max-endpoints of setup
    Lengths,        \* of packets
    Word16, Word32, \* the widths of the outer lengths and of MaxEntries
    Rows,           \* __METRIC_MAX
    KernelMax,      \* the most entries the kernel accepts for a hash map
    None

\* Linux keeps a device's MTU below 2^16, and refuses a hash map for its number of
\* buckets (2^27 of 2^32) long before Rows rows for each of its entries would overflow.
ASSUME WidthAssumption ==
    /\ Word16 \in Nat /\ Word32 \in Nat /\ Rows \in Nat \ {0} /\ KernelMax \in Nat
    /\ MaxChanges \in Nat
    /\ Mtus \subseteq 0..(Word16 - 1) /\ Lengths \subseteq Nat /\ MtuArgs \subseteq Int
    /\ EndpointArgs \subseteq 0..(Word32 - 1)
    /\ Rows * (KernelMax + 1) < Word32
    /\ None \notin Int /\ None \notin [vpce : Int, metrics : Int]

GeneveOverhead == 68
minInnerLen == 68
GWLBMTU == 8500
MinDeviceMtu == 68

VARIABLES
    mtu,        \* the uplink's
    changes,    \* how often it was changed
    since,      \* ghost: the MTUs the uplink had since setup, the one setup read first
    pins,       \* MaxEntries of the pinned vpce_to_ifindex and metrics, or None
    inner,      \* max_inner_len of the attached decap and of encap, or None
    veth,       \* the MTU of the endpoint's veth pair, or None
    packet      \* the last packet of the endpoint and what became of it, or None

sizesVars == <<mtu, changes, since, pins, inner, veth, packet>>

SizesInit ==
    /\ mtu \in Mtus
    /\ changes = 0
    /\ since = {}
    /\ pins = None /\ inner = None /\ veth = None /\ packet = None

ChangeMtu ==
    /\ changes < MaxChanges
    /\ changes' = changes + 1
    /\ mtu' \in Mtus \ {mtu}
    /\ since' = IF inner = None THEN since ELSE since \cup {mtu'}
    /\ UNCHANGED <<pins, inner, veth, packet>>

----------------------------------------------------------------------------
(* Commands                                                                *)

HasRoom(uplinkMTU) == uplinkMTU - GeneveOverhead >= minInnerLen
MaxInnerLen(uplinkMTU) == uplinkMTU - GeneveOverhead

\* A mutant: no rows for the uplink's own counters.
EndpointsOnly(n) == (Rows * n) % Word32

MetricsEntries(n) == (Rows * ((n + 1) % Word32)) % Word32

\* What LoadAndAssign makes of the sizes: the kernel accepts them, and a map that is
\* pinned already must have them.
Loads(sizes) ==
    /\ sizes.vpce \in 1..KernelMax
    /\ sizes.metrics \in 1..KernelMax
    /\ pins \in {None, sizes}

\* RunSetup, on a host decap is not attached to.  Attaching it may fail, and leaves
\* the maps pinned; failing later undoes everything.
RunSetup(n) ==
    LET sizes == [vpce |-> n, metrics |-> MetricsEntries(n)]
    IN  /\ inner = None
        /\ HasRoom(mtu)
        /\ Loads(sizes)
        /\ \/ inner' = MaxInnerLen(mtu) /\ since' = {mtu} /\ pins' = sizes
           \/ pins' = sizes /\ UNCHANGED <<inner, since>>
           \/ pins' = None /\ UNCHANGED <<inner, since>>
        /\ UNCHANGED <<mtu, changes, veth, packet>>

RunTeardown ==
    /\ pins # None
    /\ pins' = None /\ inner' = None /\ veth' = None /\ packet' = None /\ since' = {}
    /\ UNCHANGED <<mtu, changes>>

Accepts(arg) == arg \in 0..MaxInnerLen(mtu)

VethMtu(arg) == IF arg = 0 THEN Min({GWLBMTU, MaxInnerLen(mtu)}) ELSE arg

\* RunAdd: uplinkVethMTU reads the uplink's MTU as it is now.
RunAdd(arg) ==
    /\ inner # None
    /\ veth = None
    /\ HasRoom(mtu)
    /\ Accepts(arg)
    /\ VethMtu(arg) >= MinDeviceMtu    \* the kernel's, in LinkAdd
    /\ veth' = VethMtu(arg)
    /\ UNCHANGED <<mtu, changes, since, pins, inner, packet>>

RunRemove ==
    /\ veth # None
    /\ veth' = None /\ packet' = None
    /\ UNCHANGED <<mtu, changes, since, pins, inner>>

----------------------------------------------------------------------------
(* Packets                                                                 *)

Outcome(kind, len, merged, total, udp) ==
    [kind |-> kind, len |-> len, merged |-> merged, total |-> total, udp |-> udp]

\* A mutant: the whole frame is held to the limit.
FrameOversize(len) == len + 14 > inner
\* A mutant: no limit.
NeverOversize(len) == FALSE
\* A mutant: the inner packet may have all of the uplink's MTU.
UnwrappedOversize(len) == len > inner + GeneveOverhead

Oversize(len) == len > inner

\* decap and the veth behind it.  merged: GRO made one packet of several, which may
\* be larger than the uplink's MTU.
Decap(len, merged) ==
    /\ veth # None
    /\ merged \/ len <= mtu - GeneveOverhead
    /\ packet' = Outcome(CASE Oversize(len) -> "decap_oversize"
                           [] ~Oversize(len) /\ len > veth -> "lost_at_veth"
                           [] OTHER -> "delivered", len, merged, 0, 0)
    /\ UNCHANGED <<mtu, changes, since, pins, inner, veth>>

\* The outer IP length as encap writes it, of 16 bits.
TotalLen(len) == (len + GeneveOverhead) % Word16

\* encap and the uplink behind it.  merged: the backend's stack handed over a
\* super-packet, which the veth's MTU does not hold back.
Encap(len, merged) ==
    /\ veth # None
    /\ merged \/ len <= veth
    /\ packet' = Outcome(CASE Oversize(len) -> "encap_oversize"
                           [] ~Oversize(len) /\ len + GeneveOverhead > mtu -> "lost_at_uplink"
                           [] OTHER -> "sent",
                         len, merged, TotalLen(len), (TotalLen(len) - 20) % Word16)
    /\ UNCHANGED <<mtu, changes, since, pins, inner, veth>>

SizesNext ==
    \/ ChangeMtu
    \/ \E n \in EndpointArgs : RunSetup(n)
    \/ RunTeardown
    \/ \E arg \in MtuArgs : RunAdd(arg)
    \/ RunRemove
    \/ \E len \in Lengths, merged \in BOOLEAN : Decap(len, merged) \/ Encap(len, merged)

SizesSpec == SizesInit /\ [][SizesNext]_sizesVars

----------------------------------------------------------------------------
(* Properties                                                              *)

Kinds == {"decap_oversize", "lost_at_veth", "delivered", "encap_oversize", "lost_at_uplink", "sent"}
SetupMtu == inner + GeneveOverhead
Shrunk == \E m \in since : m < SetupMtu
Grown == \E m \in since : m > SetupMtu

\* Nothing is attached without its maps, and what was read of the uplink's MTU leaves
\* room for an inner packet (maps.go:30-38).
SizesInv ==
    /\ mtu \in Mtus /\ since \subseteq Mtus /\ changes \in 0..MaxChanges
    /\ pins = None \/ pins \in [vpce : 1..KernelMax, metrics : 1..KernelMax]
    /\ inner # None => inner \in Nat /\ inner >= minInnerLen /\ pins # None
    /\ inner # None => SetupMtu \in since /\ mtu \in since
    /\ veth # None => inner # None /\ veth \in Nat /\ veth >= MinDeviceMtu
    /\ veth # None => \E m \in since : veth <= MaxInnerLen(m)
    /\ packet # None =>
        /\ packet.kind \in Kinds
        /\ packet.len \in Nat
        /\ veth # None

\* Both lengths in the outer headers of every reply that encap lets through are its
\* own, never cut to 16 bits (_encap.c:256-264).
LengthsTrue ==
    packet # None /\ packet.kind \in {"sent", "lost_at_uplink"} =>
        /\ packet.total = packet.len + GeneveOverhead
        /\ packet.udp = packet.total - 20

\* However many endpoints setup was asked for, metrics has a row for every counter of
\* each of them and of the uplink, although the product wraps (decap.go:59-61).
RoomForEveryCounter == pins # None => pins.metrics >= Rows * (pins.vpce + 1)

\* A reply is too large for the uplink only if the uplink's MTU has shrunk since
\* setup: encap drops, and counts, every other one (_encap.c:142-150).
LostOnlyIfShrunk == packet # None /\ packet.kind = "lost_at_uplink" => Shrunk

\* encap drops a reply the veth let through only if the uplink's MTU was raised since
\* setup: the veth was then made for more than max_inner_len (add.go:338-341).
OversizeOnlyIfGrown ==
    packet # None /\ packet.kind = "encap_oversize" => packet.merged \/ Grown

============================================================================
