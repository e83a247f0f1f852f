------------------------------ MODULE Datapath ------------------------------
(***************************************************************************)
(* One endpoint's packets through decap and encap: which flow_state and    *)
(* frag_state entry each is filed under and looked up by                   *)
(* (bpf/geneve_defs.h, bpf/decap/_decap.c, bpf/encap/_encap.c).            *)
(*                                                                         *)
(* A run of a program is one step: each publishes with one update of a map *)
(* (Host interleaves the accesses, Sizes and Origin have the checks that   *)
(* come first).  A packet is its headers: addresses, extension headers,    *)
(* fragment fields, ports or ICMP type, and the packet an ICMP error       *)
(* quotes.  Frames reach encap in any order and any number of times.  The  *)
(* LRU maps may lose any entry at any time.                                *)
(***************************************************************************)
EXTENDS Integers, Sequences, Functions

CONSTANTS
    Plays,      \* bound: sets of packets that GWLB sends the endpoint in a behaviour
    Node,       \* GWLB's ends of the tunnels: a node's addresses and UDP port
    FragIds,    \* the identifications of replies the netns fragments, of 16 bits
    Modes       \* of --transparent: "nat", "transparent"

VARIABLES
    inPlay,     \* the packets GWLB sends in this behaviour
    vpce_mode,  \* in encap's .rodata
    delivered,  \* the packets decap has redirected into the endpoint's netns
    flow_state, \* flow key -> outer header of a reply
    frag_state, \* fragment key -> outer header
    current,    \* ghost: flow -> node it last came from, while its entry is kept
    heads       \* ghost: datagram -> cookie and node its first fragment was sent
                \* with, while its entry is kept

datapathVars == <<inPlay, vpce_mode, delivered, flow_state, frag_state, current, heads>>

Box == "box"
Overhead == 68
Whole == [off |-> 0, more |-> FALSE, id |-> 0]

With(f, k, v) == [x \in DOMAIN f \cup {k} |-> IF x = k THEN v ELSE f[x]]

----------------------------------------------------------------------------
(* geneve_defs.h                                                           *)

PortProtocols == {"tcp", "udp"}
L4Protocols == PortProtocols \cup {"icmp"}     \* ICMP or ICMPv6, by p.v6

\* p.exts from the header after those parse_ipv6 walks: hop-by-hop, then fragment.
AfterHop(p) == IF p.exts # <<>> /\ Head(p.exts) = "hop" THEN Tail(p.exts) ELSE p.exts
HasFragHeader(p) == AfterHop(p) # <<>> /\ Head(AfterHop(p)) = "fragment"
Unwalked(p) == IF HasFragHeader(p) THEN Tail(AfterHop(p)) ELSE AfterHop(p)

Proto(p) == IF Unwalked(p) = <<>> THEN p.proto ELSE Head(Unwalked(p))

\* An atomic fragment, which has the header but no other, is a whole packet.
Frag(p) ==
    CASE p.v6 /\ ~HasFragHeader(p) -> "none"
      [] p.frag.off # 0            -> "later"
      [] p.frag.more               -> "first"
      [] OTHER                     -> "none"

ReadsL4(p) == Frag(p) # "later" /\ Proto(p) \in L4Protocols
Malformed(p) == ReadsL4(p) /\ p.short
HasPorts(p) == ReadsL4(p) /\ (Proto(p) \in PortProtocols \/ p.type = "echo")
Sport(p) == IF HasPorts(p) THEN p.sport ELSE 0
Dport(p) == IF HasPorts(p) THEN p.dport ELSE 0

QuotingError(p) == ReadsL4(p) /\ Proto(p) = "icmp" /\ p.type = "error"
LinkLocalControl(p) == p.v6 /\ ReadsL4(p) /\ Proto(p) = "icmp" /\ p.type = "control"

build_flow_key(v6, saddr, daddr, sport, dport, proto) ==
    [is_v6 |-> v6, saddr |-> saddr, daddr |-> daddr,
     sport |-> sport, dport |-> dport, proto |-> proto]

FwdKey(p) == build_flow_key(p.v6, p.src, p.dst, Sport(p), Dport(p), Proto(p))
SwappedKey(p) == build_flow_key(p.v6, p.dst, p.src, Dport(p), Sport(p), Proto(p))

\* A mutant: half of an IPv6 identification.
LowFragKey(p) == build_flow_key(p.v6, p.src, p.dst, 0, p.frag.id % 65536, Proto(p))

frag_key(p) ==
    build_flow_key(p.v6, p.src, p.dst, p.frag.id \div 65536, p.frag.id % 65536, Proto(p))

outer_hdr_stable_eq(a, b) == [a EXCEPT !.total = 0] = [b EXCEPT !.total = 0]

----------------------------------------------------------------------------
(* What GWLB sends                                                         *)

\* The key of a flow as GWLB knows it.
LiteralKey(w) == build_flow_key(w.v6, w.src, w.dst, w.sport, w.dport, w.proto)

\* A packet that has a flow's whole tuple; others are told apart by their hosts alone.
TellsFlow(p) == ReadsL4(p) /\ ~QuotingError(p) /\ ~LinkLocalControl(p)

FlowFields == {"v6", "src", "dst", "sport", "dport", "proto"}
PacketFields ==
    {"flow", "v6", "src", "dst", "exts", "frag", "proto", "type", "sport", "dport", "short",
     "quoted", "len"}

\* p's headers are those of its flow, and have its ports if it has any.
OfFlow(p) ==
    /\ p.flow = [x \in FlowFields |-> p.flow[x]]
    /\ p.flow.v6 = p.v6 /\ p.flow.src = p.src /\ p.flow.dst = p.dst
    /\ TellsFlow(p) => LiteralKey(p.flow) = FwdKey(p)

\* Hop-by-hop options come first and a packet is fragmented once (RFC 8200, 4.1); link
\* control never leaves its link; an error quotes a packet.
GWLBPacket(p) ==
    /\ PacketFields \subseteq DOMAIN p
    /\ p.frag.id \in Nat
    /\ p.type # "control"
    /\ p.exts \in Seq(STRING) /\ (~p.v6 => p.exts = <<>>)
    /\ Unwalked(p) # <<>> => Head(Unwalked(p)) \notin {"hop", "fragment"}
    /\ IF QuotingError(p) THEN p.quoted # <<>> /\ OfFlow(p.quoted[1])
       ELSE p.quoted = <<>> /\ OfFlow(p)

ASSUME DatapathAssumption == FragIds \subseteq Nat /\ \A p \in UNION Plays : GWLBPacket(p)

----------------------------------------------------------------------------
(* decap                                                                   *)

\* The outer header p arrives with; the cookie is GWLB's, one for each flow.
Outer(p, node, ecn) ==
    [from |-> node, to |-> Box, ecn |-> ecn, cookie |-> p.flow, total |-> p.len + Overhead]

ReplyOriented(hdr) == [hdr EXCEPT !.from = hdr.to, !.to = hdr.from, !.ecn = 0]

Cacheable(p) == Frag(p) # "later" /\ ~QuotingError(p)

DecapPacket(p, node, ecn) ==
    LET key == FwdKey(p)
        cache == ReplyOriented(Outer(p, node, ecn))
        kept == key \in DOMAIN flow_state /\ outer_hdr_stable_eq(flow_state[key], cache)
    IN  /\ p \in inPlay
        /\ ~Malformed(p)
        /\ delivered' = delivered \cup {p}
        /\ flow_state' = IF Cacheable(p) /\ ~kept THEN With(flow_state, key, cache)
                         ELSE flow_state
        /\ current' = IF Cacheable(p) /\ TellsFlow(p) THEN With(current, p.flow, node)
                      ELSE current
        /\ UNCHANGED <<inPlay, vpce_mode, frag_state, heads>>

----------------------------------------------------------------------------
(* The netns, as far as encap sees it                                      *)

\* How a reply may be cut: whole, or a first or later fragment, of any identification.
Cuts == {Whole} \cup [off : {0, 1}, more : {TRUE}, id : FragIds]

\* What precedes the rest of an IPv6 packet: a whole one may have any of the headers.
Extensions(v6, cut) ==
    IF ~v6 THEN {<<>>}
    ELSE {<<"hop", "fragment">>} \cup IF cut = Whole THEN {<<>>, <<"hop">>, <<"fragment">>} ELSE {}

\* No host answers a fragment that is not the first, or an error.
Answerable(p) == Frag(p) # "later" /\ ~QuotingError(p)

\* What a NAT or terminating endpoint answers to p, of the same flow as p.
Replies(p) ==
    UNION {{[p EXCEPT !.src = p.dst, !.dst = p.src, !.sport = p.dport, !.dport = p.sport,
                      !.frag = cut, !.exts = exts \o Unwalked(p), !.len = p.len + 1] :
              exts \in Extensions(p.v6, cut)} : cut \in Cuts}

\* An ICMP error of the netns about p, which it quotes.
ErrorAbout(p) ==
    [flow |-> p.flow, v6 |-> p.v6, src |-> p.dst, dst |-> p.src, exts |-> <<>>, frag |-> Whole,
     proto |-> "icmp", type |-> "error", sport |-> 0, dport |-> 0, short |-> FALSE,
     quoted |-> <<p>>, len |-> p.len]

\* Neighbor discovery between the same addresses.
Control(p) == [ErrorAbout(p) EXCEPT !.type = "control", !.quoted = <<>>]

Frames ==
    (IF vpce_mode = "transparent" THEN delivered
     ELSE UNION {Replies(p) : p \in {q \in delivered : Answerable(q)}})
    \cup {ErrorAbout(p) : p \in {q \in delivered : Answerable(q)}}
    \cup {Control(p) : p \in {q \in delivered : q.v6}}

----------------------------------------------------------------------------
(* encap                                                                   *)

\* A mutant: an error is looked up as any other packet.
OwnTuple(f) == f

\* The packet whose tuple f is matched by.
Matched(f) == IF QuotingError(f) THEN f.quoted[1] ELSE f

\* The entry encap looks up: which map, and the key.
Found(f) ==
    CASE QuotingError(f)    -> [map |-> flow_state, key |-> FwdKey(Matched(f))]
      [] Frag(f) = "later"  -> [map |-> frag_state, key |-> frag_key(f)]
      [] OTHER              -> [map |-> flow_state,
                                key |-> IF vpce_mode = "transparent" THEN FwdKey(f)
                                        ELSE SwappedKey(f)]

Verdict(f) ==
    LET wellFormed == ~Malformed(f) /\ ~Malformed(Matched(f))
        found == Found(f).key \in DOMAIN Found(f).map
    IN  CASE ~wellFormed -> "malformed"
          [] wellFormed /\ LinkLocalControl(f) -> "pass"
          [] wellFormed /\ ~LinkLocalControl(f) /\ ~found -> "flow_miss"
          [] wellFormed /\ ~LinkLocalControl(f) /\ found -> "sent"

Entry(f) == Found(f).map[Found(f).key]

\* What a frame that is sent leaves the uplink with.
Replayed(f) == [Entry(f) EXCEPT !.total = f.len + Overhead]

\* Ghosts: the packet f is of or about, the flow it is to be sent in, and the datagram
\* it is a fragment of.
Subject(f) == IF f.quoted = <<>> THEN f ELSE f.quoted[1]
FlowOf(f) == Subject(f).flow
Datagram(f) ==
    [flow |-> FlowOf(f), v6 |-> f.v6, src |-> f.src, dst |-> f.dst, proto |-> Proto(f), id |-> f.frag.id]

\* Only a frame that changes a map is a step: a first fragment that matches its flow.
EncapFirst(f) ==
    /\ f \in Frames
    /\ Verdict(f) = "sent" /\ Frag(f) = "first"
    /\ frag_state' = With(frag_state, frag_key(f), Entry(f))
    /\ heads' = With(heads, Datagram(f), [cookie |-> Entry(f).cookie, to |-> Entry(f).to])
    /\ UNCHANGED <<inPlay, vpce_mode, delivered, flow_state, current>>

----------------------------------------------------------------------------
(* The LRU                                                                 *)

DatagramKey(d) == build_flow_key(d.v6, d.src, d.dst, d.id \div 65536, d.id % 65536, d.proto)

EvictFlow ==
    \E key \in DOMAIN flow_state :
        /\ flow_state' = Restrict(flow_state, DOMAIN flow_state \ {key})
        /\ current' = Restrict(current, {w \in DOMAIN current : LiteralKey(w) # key})
        /\ UNCHANGED <<inPlay, vpce_mode, delivered, frag_state, heads>>

EvictFragment ==
    \E key \in DOMAIN frag_state :
        /\ frag_state' = Restrict(frag_state, DOMAIN frag_state \ {key})
        /\ heads' = Restrict(heads, {d \in DOMAIN heads : DatagramKey(d) # key})
        /\ UNCHANGED <<inPlay, vpce_mode, delivered, flow_state, current>>

DatapathInit ==
    /\ inPlay \in Plays
    /\ vpce_mode \in Modes
    /\ delivered = {}
    /\ flow_state = <<>> /\ frag_state = <<>>
    /\ current = <<>> /\ heads = <<>>

DatapathNext ==
    \/ \E p \in inPlay, node \in Node, ecn \in {0, 3} : DecapPacket(p, node, ecn)
    \/ \E f \in Frames : EncapFirst(f)
    \/ EvictFlow \/ EvictFragment

DatapathSpec == DatapathInit /\ [][DatapathNext]_datapathVars

----------------------------------------------------------------------------
(* Properties                                                              *)

SameHosts(a, b) == a.v6 = b.v6 /\ a.src = b.src /\ a.dst = b.dst

\* Whatever the netns hands encap, in any order, leaves in the tunnel of its own flow:
\* with the cookie of the flow it answers, or that of the packet it quotes, to the node
\* that flow last came from, unmarked by congestion on the way in, and with its own
\* length.  Packets whose tuple is not read are only told apart by their hosts, and a later
\* fragment goes where a first fragment of its datagram, or of one that cannot be told
\* from it, went.  Link-local control never leaves (_encap.c:136-192, 204-209, 252-262).
ReplyInOwnFlow ==
    \A f \in Frames : Verdict(f) = "sent" =>
        LET hdr == Replayed(f)
            alike == {d \in DOMAIN heads : [d EXCEPT !.flow = FlowOf(f)] = Datagram(f)}
        IN  /\ f.type # "control"
            /\ hdr.from = Box /\ hdr.ecn = 0 /\ hdr.total = f.len + Overhead
            /\ CASE Frag(f) = "later" ->
                        \E d \in alike : heads[d] = [cookie |-> hdr.cookie, to |-> hdr.to]
                 [] Frag(f) # "later" /\ TellsFlow(Subject(f)) ->
                        /\ hdr.cookie = FlowOf(f)
                        /\ FlowOf(f) \in DOMAIN current /\ hdr.to = current[FlowOf(f)]
                 [] OTHER -> SameHosts(hdr.cookie, FlowOf(f))

\* An answer to a flow whose entry the LRU still holds is never dropped as a miss,
\* be it a reply, an error about the flow or a first fragment, and neither is a later
\* fragment after its first (_encap.c:178-200).
AnsweredUnlessForgotten ==
    \A f \in Frames :
        /\ /\ Frag(f) # "later" /\ TellsFlow(Subject(f)) /\ ~Malformed(Subject(f))
           /\ FlowOf(f) \in DOMAIN current
           => Verdict(f) = "sent"
        /\ Frag(f) = "later" /\ Datagram(f) \in DOMAIN heads => Verdict(f) = "sent"

============================================================================
