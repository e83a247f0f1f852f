---------------------------- MODULE MCArguments -----------------------------
(***************************************************************************)
(* What the commands make of their arguments, and the XDP programs of what *)
(* is in a packet, for TLC: an endpoint ID (Ids), --allowed-origin-cidr    *)
(* (Origin), --max-endpoints, --mtu and the uplink's MTU (Sizes), an       *)
(* endpoint's packets (Datapath).  They share no state: each behaviour is  *)
(* of one of them, and the others rest at one initial state.               *)
(*                                                                         *)
(* Ids is at its real widths: IDs of eight bytes that are each 0 or 255,   *)
(* the spellings the tests try, and interface names that come close.       *)
(* Sizes has real MTUs; the 32 bits of MaxEntries, and with them the       *)
(* kernel's limit on a hash map, are scaled to 20.  Datapath has pairs of  *)
(* packets of a few flows between the same two addresses, and two          *)
(* datagrams that GWLB sends in fragments.                                 *)
(***************************************************************************)
EXTENDS Ids, Origin, Sizes, Datapath, FiniteSetsExt

VARIABLE part   \* which of the four this behaviour is of

MCSpellings ==
    LET digit(n) == [i \in 1..n |-> (i % 15) + 1]
    IN  {digit(n) : n \in {0, 7, 8, 9, 16, 17, 18}}
            \cup {Zeros(7) \o <<10>>, digit(7) \o <<16>>, Zeros(16) \o <<16>>,
                  Zeros(16) \o <<1>>, Zeros(9) \o digit(8), <<0, 0>> \o digit(16)}

MCForeignNames ==
    LET name(p, s) == [prefix |-> p, suffix |-> s]
        id == Base58Encode(<<0, 0, 255, 1, 2, 3, 4, 5>>)
    IN  <<name("other", id), name("gwlb", <<>>), name("gxdp", id),
          name("gwlb", Tail(id)), name("gxdp", <<0>> \o id),
          name("gwlb", [i \in 1..11 |-> 57]), name("gxdp", [i \in 1..11 |-> 58]),
          name("gxdp", [i \in 1..11 |-> 1]), name("gwlb", [i \in 1..10 |-> 57])>>

MCFlow(v6, src, dst, proto, sport, dport) ==
    [v6 |-> v6, src |-> src, dst |-> dst, proto |-> proto, sport |-> sport, dport |-> dport]

MCPacket(flow, type, exts, frag, short) ==
    [flow |-> flow, v6 |-> flow.v6, src |-> flow.src, dst |-> flow.dst, exts |-> exts,
     frag |-> frag, proto |-> flow.proto, type |-> type, sport |-> flow.sport,
     dport |-> flow.dport, short |-> short, quoted |-> <<>>, len |-> 100 + Len(exts)]

\* Two flows that differ in a port, one the other way, an echo and two without ports.
MCFlows(v6) ==
    {MCFlow(v6, 1, 2, "udp", 7, 8), MCFlow(v6, 1, 2, "udp", 7, 9), MCFlow(v6, 2, 1, "udp", 8, 7),
     MCFlow(v6, 1, 2, "icmp", 5, 5), MCFlow(v6, 1, 2, "gre", 0, 0)}

MCPacketOf(flow) ==
    MCPacket(flow, IF flow.proto = "icmp" THEN "echo" ELSE "none", <<>>, Whole, FALSE)

\* The first and a later fragment of a datagram.
MCFragments(flow, exts, id) ==
    {MCPacket(flow, "none", exts, [off |-> 0, more |-> TRUE, id |-> id], FALSE),
     MCPacket(flow, "none", exts, [off |-> 1, more |-> FALSE, id |-> id], FALSE)}

MCOdd(v6) ==
    LET udp == MCFlow(v6, 1, 2, "udp", 7, 8)
        other == MCPacket(MCFlow(v6, 1, 2, "icmp", 0, 0), "other", <<>>, Whole, FALSE)
        short == MCPacket(udp, "none", <<>>, Whole, TRUE)
    IN  {other, short, [ErrorAbout(MCPacketOf(udp)) EXCEPT !.src = 3],
         [ErrorAbout(short) EXCEPT !.src = 3]}
        \cup IF ~v6 THEN {}
             ELSE {MCPacket(udp, "none", exts, Whole, FALSE) :
                     exts \in {<<"hop">>, <<"hop", "fragment">>, <<"fragment", "opts">>}}

\* Two packets of the flows above, or one of them and an odd one.
MCPairs(v6) ==
    LET packets == {MCPacketOf(flow) : flow \in MCFlows(v6)}
    IN  kSubset(2, packets)
        \cup {{MCPacketOf(MCFlow(v6, 1, 2, "udp", 7, 8)), odd} : odd \in MCOdd(v6)}

\* An echo without an identifier, and another ICMP message between the same hosts.
MCNoId(v6) ==
    {MCPacket(MCFlow(v6, 1, 2, "icmp", 0, 0), type, <<>>, Whole, FALSE) : type \in {"echo", "other"}}

\* The same packet in both families, and two flows whose ports are not read.
MCFamilies == {MCPacketOf(MCFlow(v6, 1, 2, "udp", 7, 8)) : v6 \in BOOLEAN}
MCUnread ==
    {MCPacket(MCFlow(TRUE, 1, 2, "udp", 7, dport), "none", <<"opts">>, Whole, FALSE) : dport \in 8..9}

\* All of two fragmented datagrams, of two flows or of two identifications.
MCDatagrams(v6) ==
    LET exts == IF v6 THEN <<"fragment">> ELSE <<>>
        udp == MCFlow(v6, 1, 2, "udp", 7, 8)
        other == MCFlow(v6, 1, 2, "udp", 7, 9)
    IN  {MCFragments(udp, exts, 1) \cup MCFragments(other, exts, 1)}
        \cup IF ~v6 THEN {}
             ELSE {MCFragments(udp, exts, 1) \cup MCFragments(other, <<"hop">> \o exts, 65537)}

MCPlays ==
    {{}, MCFamilies, MCUnread}
    \cup UNION {MCPairs(v6) \cup MCDatagrams(v6) \cup {MCNoId(v6)} : v6 \in BOOLEAN}

MCMtuArgs == {-1, 0, 67, 68, 1432, 7932, 8500, 8933, 65467, 65468}

Init ==
    /\ part \in {"ids", "origin", "sizes", "packets"}
    /\ part = "ids" \/ typed = <<>>
    /\ IdsInit
    /\ part = "origin" \/ flag = [family |-> "none", addr |-> ZeroAddress, bits |-> 0]
    /\ OriginInit
    /\ part = "sizes" \/ mtu = 1500
    /\ SizesInit
    /\ part = "packets" \/ (inPlay = {} /\ vpce_mode = "nat")
    /\ DatapathInit

Next ==
    /\ UNCHANGED part
    /\ \/ part = "ids" /\ IdsNext /\ UNCHANGED <<originVars, sizesVars, datapathVars>>
       \/ part = "origin" /\ OriginNext /\ UNCHANGED <<idsVars, sizesVars, datapathVars>>
       \/ part = "sizes" /\ SizesNext /\ UNCHANGED <<idsVars, originVars, datapathVars>>
       \/ part = "packets" /\ DatapathNext /\ UNCHANGED <<idsVars, originVars, sizesVars>>

Spec == Init /\ [][Next]_<<part, idsVars, originVars, sizesVars, datapathVars>>
=============================================================================
