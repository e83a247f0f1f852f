---------------------------- MODULE PacketProofs ----------------------------
(***************************************************************************)
(* What the XDP programs do with packets, for all constants: Datapath, for *)
(* any packets, nodes and identifications; Origin, for addresses of any    *)
(* width; and Sizes, for any MTUs below the width of the outer lengths,    *)
(* any number of changes, any flags and packets.                           *)
(***************************************************************************)
EXTENDS Origin, Sizes, Datapath, SequenceTheorems, TLAPS

-----------------------------------------------------------------------------
(* Datapath: the invariant.                                                *)

HeaderFields == {"from", "to", "ecn", "cookie", "total"}
DatagramFields == {"flow", "v6", "src", "dst", "proto", "id"}

HeaderOK(h) ==
    /\ h = [x \in HeaderFields |-> h[x]]
    /\ h.from = Box /\ h.ecn = 0

EntriesOK ==
    \A k \in DOMAIN flow_state :
        /\ HeaderOK(flow_state[k])
        /\ flow_state[k].cookie.v6 = k.is_v6
        /\ flow_state[k].cookie.src = k.saddr /\ flow_state[k].cookie.dst = k.daddr

\* An entry under a whole tuple is that flow's, and has its node.
TuplesOK ==
    \A k \in DOMAIN flow_state : k.proto \in L4Protocols =>
        /\ flow_state[k].cookie \in DOMAIN current
        /\ LiteralKey(flow_state[k].cookie) = k

CurrentOK ==
    \A w \in DOMAIN current :
        /\ w = [x \in FlowFields |-> w[x]] /\ w.proto \in L4Protocols
        /\ LiteralKey(w) \in DOMAIN flow_state
        /\ flow_state[LiteralKey(w)].cookie = w
        /\ flow_state[LiteralKey(w)].to = current[w]

HeadsOK ==
    \A d \in DOMAIN heads :
        /\ d = [x \in DatagramFields |-> d[x]]
        /\ d.id \in Nat
        /\ DatagramKey(d) \in DOMAIN frag_state

\* An entry is the one some datagram's first fragment left.
FragmentsOK ==
    \A k \in DOMAIN frag_state :
        /\ HeaderOK(frag_state[k])
        /\ \E d \in DOMAIN heads :
            /\ DatagramKey(d) = k
            /\ heads[d] = [cookie |-> frag_state[k].cookie, to |-> frag_state[k].to]

DeliveredOK ==
    /\ inPlay \in Plays
    /\ delivered \subseteq inPlay
    /\ \A p \in delivered : ~Malformed(p)

DatapathInv ==
    DeliveredOK /\ EntriesOK /\ TuplesOK /\ CurrentOK /\ HeadsOK /\ FragmentsOK

-----------------------------------------------------------------------------
(* The model's operators.                                                  *)

\* A deletion keeps the rest.
LEMMA RestrictValue ==
    ASSUME NEW f, NEW S
    PROVE  DOMAIN Restrict(f, S) = S /\ \A x \in S : Restrict(f, S)[x] = f[x]
BY DEF Restrict

\* A tuple is one flow's.
LEMMA LiteralKeyInjective ==
    ASSUME NEW v, v = [x \in FlowFields |-> v[x]],
           NEW w, w = [x \in FlowFields |-> w[x]],
           LiteralKey(v) = LiteralKey(w)
    PROVE  v = w
<1>1. \A x \in FlowFields : v[x] = w[x]
    BY DEF LiteralKey, build_flow_key, FlowFields
<1> QED BY <1>1

\* An identification is the two ports it is filed under.
LEMMA DatagramKeyFields ==
    ASSUME NEW d, NEW e, d.id \in Nat, e.id \in Nat, DatagramKey(d) = DatagramKey(e)
    PROVE  d.v6 = e.v6 /\ d.src = e.src /\ d.dst = e.dst /\ d.proto = e.proto /\ d.id = e.id
<1>1. /\ d.v6 = e.v6 /\ d.src = e.src /\ d.dst = e.dst /\ d.proto = e.proto
      /\ d.id \div 65536 = e.id \div 65536 /\ d.id % 65536 = e.id % 65536
    BY DEF DatagramKey, build_flow_key
<1>2. ASSUME NEW n \in Nat PROVE n = 65536 * (n \div 65536) + (n % 65536)
    OBVIOUS
<1> QED BY <1>1, <1>2

\* A packet is filed under its hosts, and its transport if that is read.
LEMMA KeyFields ==
    ASSUME NEW p
    PROVE  /\ FwdKey(p).is_v6 = p.v6 /\ FwdKey(p).saddr = p.src /\ FwdKey(p).daddr = p.dst
           /\ FwdKey(p).proto = Proto(p)
BY DEF FwdKey, build_flow_key

\* Only a packet with a whole tuple has such a key.
LEMMA CacheableTells ==
    ASSUME NEW p, Cacheable(p), p.type # "control"
    PROVE  TellsFlow(p) <=> Proto(p) \in L4Protocols
BY DEF Cacheable, TellsFlow, ReadsL4, LinkLocalControl

-----------------------------------------------------------------------------
(* The steps.                                                              *)

\* Nothing is cached yet.
LEMMA InitInv == DatapathInit => DatapathInv
<1>1. DOMAIN <<>> = {}
    OBVIOUS
<1> QED
    BY <1>1 DEF DatapathInit, DatapathInv, DeliveredOK, EntriesOK, TuplesOK, CurrentOK,
                HeadsOK, FragmentsOK

\* What decap has in its hands is a packet of the play.
LEMMA PlayedPacket ==
    ASSUME DatapathInv, NEW p \in inPlay
    PROVE  GWLBPacket(p)
BY DatapathAssumption DEF DatapathInv, DeliveredOK

\* decap's entry is that of its packet's flow, made or found.
LEMMA DecapEntry ==
    ASSUME DatapathInv, NEW p, NEW node, NEW ecn, DecapPacket(p, node, ecn), Cacheable(p)
    PROVE  /\ DOMAIN flow_state' = DOMAIN flow_state \cup {FwdKey(p)}
           /\ \A k \in DOMAIN flow_state \ {FwdKey(p)} : flow_state'[k] = flow_state[k]
           /\ HeaderOK(flow_state'[FwdKey(p)])
           /\ flow_state'[FwdKey(p)].cookie = p.flow
           /\ flow_state'[FwdKey(p)].to = node
<1> DEFINE key == FwdKey(p)
           cache == ReplyOriented(Outer(p, node, ecn))
<1>1. /\ HeaderOK(cache) /\ cache.cookie = p.flow /\ cache.to = node
    BY DEF ReplyOriented, Outer, HeaderOK, HeaderFields
<1>2. CASE key \in DOMAIN flow_state /\ outer_hdr_stable_eq(flow_state[key], cache)
    <2>1. flow_state' = flow_state
        BY <1>2 DEF DecapPacket
    <2>2. HeaderOK(flow_state[key])
        BY <1>2 DEF DatapathInv, EntriesOK
    <2>3. flow_state[key].cookie = cache.cookie /\ flow_state[key].to = cache.to
        BY <1>1, <1>2, <2>2 DEF outer_hdr_stable_eq, HeaderOK, HeaderFields
    <2> QED BY <1>1, <1>2, <2>1, <2>2, <2>3
<1>3. CASE ~(key \in DOMAIN flow_state /\ outer_hdr_stable_eq(flow_state[key], cache))
    <2>1. flow_state' = With(flow_state, key, cache)
        BY <1>3 DEF DecapPacket
    <2> QED BY <1>1, <2>1 DEF With
<1> QED BY <1>2, <1>3

\* decap keeps the invariant.
LEMMA DecapStep ==
    ASSUME DatapathInv, NEW p \in inPlay, NEW node, NEW ecn, DecapPacket(p, node, ecn)
    PROVE  DatapathInv'
<1>0. GWLBPacket(p) /\ inPlay \in Plays
    BY PlayedPacket DEF DatapathInv, DeliveredOK
<1>1. UNCHANGED <<inPlay, frag_state, heads>> /\ delivered' = delivered \cup {p} /\ ~Malformed(p)
    BY DEF DecapPacket
<1>2. DeliveredOK' /\ HeadsOK' /\ FragmentsOK'
    <2>1. DeliveredOK'
        BY <1>1 DEF DatapathInv, DeliveredOK, Malformed
    <2>2. HeadsOK' /\ FragmentsOK'
        BY <1>1 DEF DatapathInv, HeadsOK, FragmentsOK
    <2> QED BY <2>1, <2>2
<1>3. CASE ~Cacheable(p)
    <2>1. UNCHANGED <<flow_state, current>>
        BY <1>3 DEF DecapPacket
    <2> QED BY <1>2, <2>1 DEF DatapathInv, EntriesOK, TuplesOK, CurrentOK
<1>4. CASE Cacheable(p)
    <2> DEFINE key == FwdKey(p)
    <2>1. /\ DOMAIN flow_state' = DOMAIN flow_state \cup {key}
          /\ \A k \in DOMAIN flow_state \ {key} : flow_state'[k] = flow_state[k]
          /\ HeaderOK(flow_state'[key])
          /\ flow_state'[key].cookie = p.flow /\ flow_state'[key].to = node
        BY <1>4, DecapEntry
    <2>2. OfFlow(p) /\ p.type # "control"
        BY <1>0, <1>4 DEF GWLBPacket, Cacheable
    <2>3. TellsFlow(p) <=> Proto(p) \in L4Protocols
        BY <1>4, <2>2, CacheableTells
    <2>4. EntriesOK'
        BY <2>1, <2>2, KeyFields DEF OfFlow, DatapathInv, EntriesOK
    <2>5. CASE TellsFlow(p)
        <3>1. LiteralKey(p.flow) = key /\ p.flow = [x \in FlowFields |-> p.flow[x]]
              /\ p.flow.proto \in L4Protocols
            BY <2>2, <2>3, <2>5 DEF OfFlow, LiteralKey, FwdKey, build_flow_key
        <3>2. current' = With(current, p.flow, node)
            BY <1>4, <2>5 DEF DecapPacket
        <3>3. /\ DOMAIN current' = DOMAIN current \cup {p.flow} /\ current'[p.flow] = node
              /\ \A w \in DOMAIN current \ {p.flow} : current'[w] = current[w]
            BY <3>2 DEF With
        <3>4. TuplesOK'
            BY <2>1, <3>1, <3>3 DEF DatapathInv, TuplesOK
        <3>5. \A w \in DOMAIN current \ {p.flow} : LiteralKey(w) # key
            BY <3>1, LiteralKeyInjective DEF DatapathInv, CurrentOK
        <3>6. CurrentOK'
            BY <2>1, <3>1, <3>3, <3>5 DEF DatapathInv, CurrentOK
        <3> QED BY <1>2, <2>4, <3>4, <3>6 DEF DatapathInv
    <2>6. CASE ~TellsFlow(p)
        <3>1. UNCHANGED current /\ key.proto \notin L4Protocols
            BY <2>3, <2>6, KeyFields DEF DecapPacket
        <3>2. \A w \in DOMAIN current : LiteralKey(w) # key
            BY <3>1 DEF DatapathInv, CurrentOK, LiteralKey, build_flow_key
        <3>3. TuplesOK' /\ CurrentOK'
            BY <2>1, <3>1, <3>2 DEF DatapathInv, TuplesOK, CurrentOK
        <3> QED BY <1>2, <2>4, <3>3 DEF DatapathInv
    <2> QED BY <2>5, <2>6
<1> QED BY <1>3, <1>4

\* The LRU forgets a flow's node with its entry.
LEMMA EvictFlowStep ==
    ASSUME DatapathInv, EvictFlow
    PROVE  DatapathInv'
<1>1. PICK key \in DOMAIN flow_state :
        /\ flow_state' = Restrict(flow_state, DOMAIN flow_state \ {key})
        /\ current' = Restrict(current, {w \in DOMAIN current : LiteralKey(w) # key})
        /\ UNCHANGED <<inPlay, vpce_mode, delivered, frag_state, heads>>
    BY DEF EvictFlow
<1>2. /\ DOMAIN flow_state' = DOMAIN flow_state \ {key}
      /\ \A k \in DOMAIN flow_state' : flow_state'[k] = flow_state[k]
    BY <1>1, RestrictValue
<1>3. /\ DOMAIN current' = {w \in DOMAIN current : LiteralKey(w) # key}
      /\ \A w \in DOMAIN current' : current'[w] = current[w]
    BY <1>1, RestrictValue
<1>4. EntriesOK' /\ TuplesOK' /\ CurrentOK'
    BY <1>2, <1>3 DEF DatapathInv, EntriesOK, TuplesOK, CurrentOK
<1>5. DeliveredOK' /\ HeadsOK' /\ FragmentsOK'
    BY <1>1 DEF DatapathInv, DeliveredOK, HeadsOK, FragmentsOK
<1> QED BY <1>4, <1>5 DEF DatapathInv

\* And a datagram's with its own.
LEMMA EvictFragmentStep ==
    ASSUME DatapathInv, EvictFragment
    PROVE  DatapathInv'
<1>1. PICK key \in DOMAIN frag_state :
        /\ frag_state' = Restrict(frag_state, DOMAIN frag_state \ {key})
        /\ heads' = Restrict(heads, {d \in DOMAIN heads : DatagramKey(d) # key})
        /\ UNCHANGED <<inPlay, vpce_mode, delivered, flow_state, current>>
    BY DEF EvictFragment
<1>2. /\ DOMAIN frag_state' = DOMAIN frag_state \ {key}
      /\ \A k \in DOMAIN frag_state' : frag_state'[k] = frag_state[k]
    BY <1>1, RestrictValue
<1>3. /\ DOMAIN heads' = {d \in DOMAIN heads : DatagramKey(d) # key}
      /\ \A d \in DOMAIN heads' : heads'[d] = heads[d]
    BY <1>1, RestrictValue
<1>4. HeadsOK'
    BY <1>2, <1>3 DEF DatapathInv, HeadsOK
<1>5. FragmentsOK'
    <2>1. SUFFICES ASSUME NEW k \in DOMAIN frag_state'
                   PROVE  /\ HeaderOK(frag_state'[k])
                          /\ \E d \in DOMAIN heads' :
                                /\ DatagramKey(d) = k
                                /\ heads'[d] = [cookie |-> frag_state'[k].cookie,
                                                to |-> frag_state'[k].to]
        BY DEF FragmentsOK
    <2>2. PICK d \in DOMAIN heads :
            /\ DatagramKey(d) = k
            /\ heads[d] = [cookie |-> frag_state[k].cookie, to |-> frag_state[k].to]
        BY <1>2 DEF DatapathInv, FragmentsOK
    <2>3. d \in DOMAIN heads'
        BY <1>2, <1>3, <2>2
    <2> QED BY <1>2, <1>3, <2>2, <2>3 DEF DatapathInv, FragmentsOK
<1>6. DeliveredOK' /\ EntriesOK' /\ TuplesOK' /\ CurrentOK'
    BY <1>1 DEF DatapathInv, DeliveredOK, EntriesOK, TuplesOK, CurrentOK
<1> QED BY <1>4, <1>5, <1>6 DEF DatapathInv

-----------------------------------------------------------------------------
(* What the netns hands encap.                                             *)

Prefixes == {<<>>, <<"hop">>, <<"fragment">>, <<"hop", "fragment">>}
Fragmenting(exts) == exts \in {<<"fragment">>, <<"hop", "fragment">>}

\* Headers put before those parse_ipv6 does not walk are walked, and no others.
LEMMA PrefixWalked ==
    ASSUME NEW f, NEW rest \in Seq(STRING), NEW exts \in Prefixes, f.exts = exts \o rest,
           rest # <<>> => Head(rest) \notin {"hop", "fragment"}
    PROVE  Unwalked(f) = rest /\ (HasFragHeader(f) <=> Fragmenting(exts))
<1>1. CASE exts = <<>>
    <2>1. f.exts = rest
        BY <1>1, ConcatEmptySeq
    <2> QED BY <1>1, <2>1 DEF Unwalked, HasFragHeader, AfterHop, Fragmenting
<1>2. CASE exts = <<"hop">>
    <2>1. f.exts # <<>> /\ Head(f.exts) = "hop" /\ Tail(f.exts) = rest
        BY <1>2
    <2> QED BY <1>2, <2>1 DEF Unwalked, HasFragHeader, AfterHop, Fragmenting
<1>3. CASE exts = <<"fragment">>
    <2>1. f.exts # <<>> /\ Head(f.exts) = "fragment" /\ Tail(f.exts) = rest
        BY <1>3
    <2> QED BY <1>3, <2>1 DEF Unwalked, HasFragHeader, AfterHop, Fragmenting
<1>4. CASE exts = <<"hop", "fragment">>
    <2>1. /\ f.exts # <<>> /\ Head(f.exts) = "hop" /\ Tail(f.exts) = <<"fragment">> \o rest
          /\ Tail(f.exts) # <<>> /\ Head(Tail(f.exts)) = "fragment" /\ Tail(Tail(f.exts)) = rest
        BY <1>4
    <2> QED BY <1>4, <2>1 DEF Unwalked, HasFragHeader, AfterHop, Fragmenting
<1> QED BY <1>1, <1>2, <1>3, <1>4 DEF Prefixes

\* Without such headers there is nothing to walk.
LEMMA NothingWalked ==
    ASSUME NEW f, f.exts = <<>>
    PROVE  Unwalked(f) = <<>> /\ ~HasFragHeader(f)
BY DEF Unwalked, HasFragHeader, AfterHop

\* What remains of a packet's headers.
LEMMA UnwalkedType ==
    ASSUME NEW p, p.exts \in Seq(STRING)
    PROVE  Unwalked(p) \in Seq(STRING)
<1>1. AfterHop(p) \in Seq(STRING)
    BY HeadTailProperties DEF AfterHop
<1> QED BY <1>1, HeadTailProperties DEF Unwalked, HasFragHeader

\* A frame is well formed, and its key that of its flow.
FrameOK(f) ==
    /\ ~Malformed(f) /\ f.frag.id \in Nat
    /\ f.type = "control" => LinkLocalControl(f)
    /\ QuotingError(f) <=> f.quoted # <<>>
    /\ Frag(f) # "later" /\ f.type # "control" =>
        /\ Found(f).key.is_v6 = FlowOf(f).v6
        /\ Found(f).key.saddr = FlowOf(f).src /\ Found(f).key.daddr = FlowOf(f).dst
        /\ TellsFlow(Subject(f)) => /\ Found(f).key = LiteralKey(FlowOf(f))
                                    /\ FlowOf(f) = [x \in FlowFields |-> FlowOf(f)[x]]

\* An error is looked up by what it quotes.
LEMMA FoundByQuoted ==
    ASSUME NEW f, QuotingError(f)
    PROVE  Found(f).key = FwdKey(Matched(f))
<1>0. Frag(f) # "later"
    BY DEF QuotingError, ReadsL4
<1>1. Found(f) = [map |-> flow_state, key |-> FwdKey(Matched(f))]
    BY <1>0 DEF Found
<1> QED BY <1>1

\* So are the packets decap has let through,
LEMMA DeliveredFrame ==
    ASSUME DatapathInv, NEW f \in delivered, vpce_mode = "transparent"
    PROVE  FrameOK(f)
<1>1. GWLBPacket(f) /\ ~Malformed(f)
    BY PlayedPacket DEF DatapathInv, DeliveredOK
<1>2. CASE QuotingError(f)
    <2>1. Found(f).key = FwdKey(f.quoted[1]) /\ FlowOf(f) = f.quoted[1].flow
        BY <1>1, <1>2, FoundByQuoted DEF Matched, FlowOf, Subject, GWLBPacket
    <2> QED BY <1>1, <1>2, <2>1, KeyFields DEF GWLBPacket, OfFlow, FrameOK, Subject
<1>3. CASE ~QuotingError(f)
    <2>1. /\ Frag(f) # "later" => Found(f).key = FwdKey(f)
          /\ FlowOf(f) = f.flow /\ Subject(f) = f
        BY <1>1, <1>3 DEF Found, FlowOf, Subject, GWLBPacket
    <2> QED BY <1>1, <1>3, <2>1, KeyFields DEF GWLBPacket, OfFlow, FrameOK
<1> QED BY <1>2, <1>3

\* the errors about them,
LEMMA ErrorFrame ==
    ASSUME DatapathInv, NEW p \in delivered, Answerable(p)
    PROVE  FrameOK(ErrorAbout(p))
<1> DEFINE f == ErrorAbout(p)
<1>1. GWLBPacket(p) /\ ~Malformed(p)
    BY PlayedPacket DEF DatapathInv, DeliveredOK
<1>2. /\ f.exts = <<>> /\ f.frag = Whole /\ f.proto = "icmp" /\ f.type = "error" /\ ~f.short
      /\ f.quoted = <<p>>
    BY DEF ErrorAbout
<1>3. Frag(f) = "none" /\ Proto(f) = "icmp"
    BY <1>2, NothingWalked DEF Frag, Proto, Whole
<1>4. QuotingError(f) /\ ~Malformed(f)
    BY <1>2, <1>3 DEF QuotingError, Malformed, ReadsL4, L4Protocols
<1>5. Found(f).key = FwdKey(p) /\ Subject(f) = p /\ FlowOf(f) = p.flow
    <2>1. Matched(f) = p /\ Subject(f) = p
        BY <1>2, <1>4 DEF Matched, Subject
    <2> QED BY <1>4, <2>1, FoundByQuoted DEF FlowOf
<1>6. OfFlow(p)
    BY <1>1 DEF Answerable, GWLBPacket
<1>7. f.frag.id \in Nat
    BY <1>2 DEF Whole
<1> QED BY <1>2, <1>4, <1>5, <1>6, <1>7, KeyFields DEF OfFlow, FrameOK

\* the link's own control packets,
LEMMA ControlFrame ==
    ASSUME NEW p, p.v6
    PROVE  FrameOK(Control(p))
<1> DEFINE f == Control(p)
<1>1. /\ f.v6 /\ f.exts = <<>> /\ f.frag = Whole /\ f.proto = "icmp" /\ f.type = "control"
      /\ ~f.short /\ f.quoted = <<>>
    BY DEF Control, ErrorAbout
<1>2. Frag(f) = "none" /\ Proto(f) = "icmp"
    BY <1>1, NothingWalked DEF Frag, Proto, Whole
<1>3. LinkLocalControl(f) /\ ~QuotingError(f) /\ ~Malformed(f)
    BY <1>1, <1>2 DEF LinkLocalControl, QuotingError, Malformed, ReadsL4, L4Protocols
<1> QED BY <1>1, <1>3 DEF FrameOK, Whole

\* and the replies, whole or in fragments.
LEMMA ReplyFrame ==
    ASSUME DatapathInv, NEW p \in delivered, Answerable(p), NEW f \in Replies(p),
           vpce_mode # "transparent"
    PROVE  FrameOK(f)
<1>1. GWLBPacket(p) /\ ~Malformed(p) /\ OfFlow(p) /\ p.quoted = <<>>
    BY PlayedPacket DEF Answerable, GWLBPacket, DatapathInv, DeliveredOK
<1>0. PICK cut \in Cuts :
        f \in {[p EXCEPT !.src = p.dst, !.dst = p.src, !.sport = p.dport, !.dport = p.sport,
                         !.frag = cut, !.exts = exts \o Unwalked(p), !.len = p.len + 1] :
                    exts \in Extensions(p.v6, cut)}
    BY DEF Replies
<1>2. PICK exts \in Extensions(p.v6, cut) :
        f = [p EXCEPT !.src = p.dst, !.dst = p.src, !.sport = p.dport, !.dport = p.sport,
                      !.frag = cut, !.exts = exts \o Unwalked(p), !.len = p.len + 1]
    BY <1>0
<1>3. /\ f.src = p.dst /\ f.dst = p.src /\ f.sport = p.dport /\ f.dport = p.sport
      /\ f.frag = cut /\ f.exts = exts \o Unwalked(p)
      /\ f.v6 = p.v6 /\ f.flow = p.flow /\ f.proto = p.proto /\ f.type = p.type
      /\ f.short = p.short /\ f.quoted = <<>>
    <2> HIDE DEF Unwalked
    <2> QED BY <1>1, <1>2 DEF GWLBPacket, PacketFields
<1>4. exts \in Prefixes /\ f.frag.id \in Nat
    <2>1. exts \in Prefixes
        BY DEF Extensions, Prefixes
    <2>2. cut.id \in Nat
        <3>1. CASE cut = Whole
            BY <3>1 DEF Whole
        <3>2. CASE cut \in [off : {0, 1}, more : {TRUE}, id : FragIds]
            BY <3>2, DatapathAssumption
        <3> QED BY <3>1, <3>2 DEF Cuts
    <2> QED BY <1>3, <2>1, <2>2
<1>5. Unwalked(f) = Unwalked(p)
    <2>1. /\ p.exts \in Seq(STRING)
          /\ Unwalked(p) # <<>> => Head(Unwalked(p)) \notin {"hop", "fragment"}
        BY <1>1 DEF GWLBPacket
    <2>2. Unwalked(p) \in Seq(STRING)
        BY <2>1, UnwalkedType
    <2> QED BY <1>3, <1>4, <2>1, <2>2, PrefixWalked
<1>6. Proto(f) = Proto(p)
    BY <1>3, <1>5 DEF Proto
<1>7. Frag(p) # "later"
    BY DEF Answerable
<1>8. CASE Frag(f) = "later"
    BY <1>1, <1>3, <1>4, <1>8
    DEF FrameOK, Malformed, QuotingError, ReadsL4, LinkLocalControl, GWLBPacket
<1>9. CASE Frag(f) # "later"
    <2>1. /\ ReadsL4(f) = ReadsL4(p) /\ Malformed(f) = Malformed(p)
          /\ QuotingError(f) = QuotingError(p) /\ HasPorts(f) = HasPorts(p)
          /\ LinkLocalControl(f) = LinkLocalControl(p)
        BY <1>3, <1>6, <1>7, <1>9
        DEF ReadsL4, Malformed, QuotingError, HasPorts, LinkLocalControl
    <2>2. ~QuotingError(f) /\ Subject(f) = f /\ FlowOf(f) = p.flow
        BY <1>3, <2>1 DEF Answerable, Subject, FlowOf
    <2>3. SwappedKey(f) = FwdKey(p)
        BY <1>3, <1>6, <2>1 DEF SwappedKey, FwdKey, Sport, Dport
    <2>4. Found(f).key = FwdKey(p)
        BY <1>9, <2>2, <2>3 DEF Found
    <2>5. TellsFlow(f) = TellsFlow(p)
        BY <2>1 DEF TellsFlow
    <2> QED BY <1>1, <1>3, <1>4, <2>1, <2>2, <2>4, <2>5, KeyFields
            DEF GWLBPacket, OfFlow, FrameOK
<1> QED BY <1>8, <1>9

\* Whatever the netns hands encap is well formed.
LEMMA FramesOK ==
    ASSUME DatapathInv, NEW f \in Frames
    PROVE  FrameOK(f)
BY DeliveredFrame, ErrorFrame, ControlFrame, ReplyFrame DEF Frames, FrameOK

-----------------------------------------------------------------------------
(* What encap makes of it.                                                 *)

\* The entry encap sends with.
LEMMA EntrySent ==
    ASSUME NEW f, Verdict(f) = "sent"
    PROVE  /\ Found(f).key \in DOMAIN Found(f).map
           /\ ~LinkLocalControl(f)
           /\ Found(f) = IF Frag(f) = "later" THEN [map |-> frag_state, key |-> frag_key(f)]
                         ELSE [map |-> flow_state, key |-> Found(f).key]
<1>1. Found(f).key \in DOMAIN Found(f).map /\ ~LinkLocalControl(f)
    BY DEF Verdict
<1>2. QuotingError(f) => Frag(f) # "later"
    BY DEF QuotingError, ReadsL4
<1> QED BY <1>1, <1>2 DEF Found

\* A first fragment's is kept for its datagram.
LEMMA EncapFirstStep ==
    ASSUME DatapathInv, NEW f \in Frames, EncapFirst(f)
    PROVE  DatapathInv'
<1>1. /\ frag_state' = With(frag_state, frag_key(f), Entry(f))
      /\ heads' = With(heads, Datagram(f), [cookie |-> Entry(f).cookie, to |-> Entry(f).to])
      /\ UNCHANGED <<inPlay, vpce_mode, delivered, flow_state, current>>
      /\ Verdict(f) = "sent" /\ Frag(f) = "first"
    BY DEF EncapFirst
<1>2. DeliveredOK' /\ EntriesOK' /\ TuplesOK' /\ CurrentOK'
    BY <1>1 DEF DatapathInv, DeliveredOK, EntriesOK, TuplesOK, CurrentOK
<1>3. HeaderOK(Entry(f))
    <2>1. Found(f).map = flow_state /\ Found(f).key \in DOMAIN flow_state
        BY <1>1, EntrySent
    <2> QED BY <2>1 DEF Entry, DatapathInv, EntriesOK
<1>4. DatagramKey(Datagram(f)) = frag_key(f)
    BY DEF DatagramKey, Datagram, frag_key
<1>5. /\ DOMAIN frag_state' = DOMAIN frag_state \cup {frag_key(f)}
      /\ frag_state'[frag_key(f)] = Entry(f)
      /\ \A k \in DOMAIN frag_state \ {frag_key(f)} : frag_state'[k] = frag_state[k]
    BY <1>1 DEF With
<1>6. /\ DOMAIN heads' = DOMAIN heads \cup {Datagram(f)}
      /\ heads'[Datagram(f)] = [cookie |-> Entry(f).cookie, to |-> Entry(f).to]
      /\ \A d \in DOMAIN heads \ {Datagram(f)} : heads'[d] = heads[d]
    BY <1>1 DEF With
<1>7. HeadsOK'
    <2>1. Datagram(f) = [x \in DatagramFields |-> Datagram(f)[x]] /\ Datagram(f).id \in Nat
        BY FramesOK DEF FrameOK, Datagram, DatagramFields
    <2> QED BY <1>4, <1>5, <1>6, <2>1 DEF DatapathInv, HeadsOK
<1>8. FragmentsOK'
    <2>1. SUFFICES ASSUME NEW k \in DOMAIN frag_state'
                   PROVE  /\ HeaderOK(frag_state'[k])
                          /\ \E d \in DOMAIN heads' :
                                /\ DatagramKey(d) = k
                                /\ heads'[d] = [cookie |-> frag_state'[k].cookie,
                                                to |-> frag_state'[k].to]
        BY DEF FragmentsOK
    <2>2. CASE k = frag_key(f)
        BY <1>3, <1>4, <1>5, <1>6, <2>2
    <2>3. CASE k # frag_key(f)
        <3>1. PICK d \in DOMAIN heads :
                /\ DatagramKey(d) = k
                /\ heads[d] = [cookie |-> frag_state[k].cookie, to |-> frag_state[k].to]
            BY <1>5, <2>1, <2>3 DEF DatapathInv, FragmentsOK
        <3>2. d # Datagram(f)
            BY <1>4, <2>3, <3>1
        <3> QED BY <1>5, <1>6, <2>1, <2>3, <3>1, <3>2 DEF DatapathInv, FragmentsOK
    <2> QED BY <2>2, <2>3
<1> QED BY <1>2, <1>7, <1>8 DEF DatapathInv

\* The inductive invariant.
THEOREM DatapathInvariance == DatapathSpec => []DatapathInv
<1>1. DatapathInv /\ [DatapathNext]_datapathVars => DatapathInv'
    <2>1. CASE UNCHANGED datapathVars
        BY <2>1 DEF datapathVars, DatapathInv, DeliveredOK, EntriesOK, TuplesOK, CurrentOK,
                    HeadsOK, FragmentsOK
    <2> QED BY <2>1, DecapStep, EncapFirstStep, EvictFlowStep, EvictFragmentStep
            DEF DatapathNext
<1> QED BY <1>1, InitInv, PTL DEF DatapathSpec

-----------------------------------------------------------------------------
(* The properties.                                                         *)

\* A later fragment leaves as a first one of its datagram did.
LEMMA LaterAsFirst ==
    ASSUME DatapathInv, NEW f \in Frames, Verdict(f) = "sent", Frag(f) = "later"
    PROVE  /\ HeaderOK(Entry(f))
           /\ \E d \in DOMAIN heads :
                /\ [d EXCEPT !.flow = FlowOf(f)] = Datagram(f)
                /\ heads[d] = [cookie |-> Entry(f).cookie, to |-> Entry(f).to]
<1>1. frag_key(f) \in DOMAIN frag_state /\ Entry(f) = frag_state[frag_key(f)]
    BY EntrySent DEF Entry
<1>2. PICK d \in DOMAIN heads :
        /\ DatagramKey(d) = frag_key(f)
        /\ heads[d] = [cookie |-> Entry(f).cookie, to |-> Entry(f).to]
    BY <1>1 DEF DatapathInv, FragmentsOK
<1>3. DatagramKey(Datagram(f)) = frag_key(f) /\ Datagram(f).id \in Nat
    BY FramesOK DEF DatagramKey, Datagram, frag_key, FrameOK
<1>4. d = [x \in DatagramFields |-> d[x]] /\ d.id \in Nat
    BY DEF DatapathInv, HeadsOK
<1>5. /\ d.v6 = f.v6 /\ d.src = f.src /\ d.dst = f.dst /\ d.proto = Proto(f)
      /\ d.id = f.frag.id
    BY <1>2, <1>3, <1>4, DatagramKeyFields DEF Datagram
<1>6. [d EXCEPT !.flow = FlowOf(f)] = Datagram(f)
    BY <1>4, <1>5 DEF Datagram, DatagramFields
<1> QED BY <1>1, <1>2, <1>6 DEF DatapathInv, FragmentsOK

\* Any other frame leaves with the entry of its flow, or of its hosts.
LEMMA OthersByFlow ==
    ASSUME DatapathInv, NEW f \in Frames, Verdict(f) = "sent", Frag(f) # "later"
    PROVE  /\ HeaderOK(Entry(f))
           /\ SameHosts(Entry(f).cookie, FlowOf(f))
           /\ TellsFlow(Subject(f)) => /\ Entry(f).cookie = FlowOf(f)
                                       /\ FlowOf(f) \in DOMAIN current
                                       /\ Entry(f).to = current[FlowOf(f)]
<1> DEFINE k == Found(f).key
           w == FlowOf(f)
<1>1. k \in DOMAIN flow_state /\ Entry(f) = flow_state[k] /\ ~LinkLocalControl(f)
    BY EntrySent DEF Entry
<1>2. /\ k.is_v6 = w.v6 /\ k.saddr = w.src /\ k.daddr = w.dst
      /\ TellsFlow(Subject(f)) => k = LiteralKey(w) /\ w = [x \in FlowFields |-> w[x]]
    BY <1>1, FramesOK DEF FrameOK
<1>3. HeaderOK(Entry(f)) /\ SameHosts(Entry(f).cookie, w)
    BY <1>1, <1>2 DEF DatapathInv, EntriesOK, SameHosts
<1>4. ASSUME TellsFlow(Subject(f))
      PROVE  Entry(f).cookie = w /\ w \in DOMAIN current /\ Entry(f).to = current[w]
    <2>1. k.proto \in L4Protocols
        <3>1. CASE QuotingError(f)
            <4>1. k = FwdKey(Subject(f))
                BY <3>1, FoundByQuoted, FramesOK DEF FrameOK, Matched, Subject
            <4> QED BY <1>4, <4>1, KeyFields DEF TellsFlow, ReadsL4
        <3>2. CASE ~QuotingError(f)
            <4>1. Subject(f) = f
                BY <3>2, FramesOK DEF FrameOK, Subject
            <4>2. k \in {FwdKey(f), SwappedKey(f)}
                BY <3>2 DEF Found
            <4>3. k.proto = Proto(f)
                BY <4>2 DEF FwdKey, SwappedKey, build_flow_key
            <4> QED BY <1>4, <4>1, <4>3 DEF TellsFlow, ReadsL4
        <3> QED BY <3>1, <3>2
    <2>2. Entry(f).cookie \in DOMAIN current /\ LiteralKey(Entry(f).cookie) = k
        BY <1>1, <2>1 DEF DatapathInv, TuplesOK
    <2>3. Entry(f).cookie = w
        BY <1>2, <1>4, <2>2, LiteralKeyInjective DEF DatapathInv, CurrentOK
    <2> QED BY <1>1, <2>2, <2>3 DEF DatapathInv, CurrentOK
<1> QED BY <1>3, <1>4

\* Whatever the netns hands encap leaves in the tunnel of its own flow (_encap.c).
THEOREM RepliesInOwnFlow == DatapathSpec => []ReplyInOwnFlow
<1>1. ASSUME DatapathInv PROVE ReplyInOwnFlow
    <2> SUFFICES ASSUME NEW f \in Frames, Verdict(f) = "sent"
                 PROVE  /\ f.type # "control"
                        /\ Replayed(f).from = Box /\ Replayed(f).ecn = 0
                        /\ Replayed(f).total = f.len + Overhead
                        /\ CASE Frag(f) = "later" ->
                                \E d \in {e \in DOMAIN heads :
                                            [e EXCEPT !.flow = FlowOf(f)] = Datagram(f)} :
                                    heads[d] = [cookie |-> Replayed(f).cookie,
                                                to |-> Replayed(f).to]
                             [] Frag(f) # "later" /\ TellsFlow(Subject(f)) ->
                                /\ Replayed(f).cookie = FlowOf(f)
                                /\ FlowOf(f) \in DOMAIN current
                                /\ Replayed(f).to = current[FlowOf(f)]
                             [] OTHER -> SameHosts(Replayed(f).cookie, FlowOf(f))
        BY DEF ReplyInOwnFlow
    <2>1. HeaderOK(Entry(f)) /\ f.type # "control"
        BY <1>1, LaterAsFirst, OthersByFlow, EntrySent, FramesOK DEF FrameOK
    <2>2. /\ Replayed(f).from = Box /\ Replayed(f).ecn = 0
          /\ Replayed(f).total = f.len + Overhead
          /\ Replayed(f).cookie = Entry(f).cookie /\ Replayed(f).to = Entry(f).to
        BY <2>1 DEF Replayed, HeaderOK, HeaderFields
    <2>3. CASE Frag(f) = "later"
        BY <1>1, <2>1, <2>2, <2>3, LaterAsFirst
    <2>4. CASE Frag(f) # "later" /\ TellsFlow(Subject(f))
        BY <1>1, <2>1, <2>2, <2>4, OthersByFlow
    <2>5. CASE Frag(f) # "later" /\ ~TellsFlow(Subject(f))
        BY <1>1, <2>1, <2>2, <2>5, OthersByFlow
    <2> QED BY <2>3, <2>4, <2>5
<1> QED BY <1>1, DatapathInvariance, PTL

\* encap drops no answer to a flow the LRU still holds, and no later fragment after its
\* first (_encap.c).
THEOREM AnsweredIfKept == DatapathSpec => []AnsweredUnlessForgotten
<1>1. ASSUME DatapathInv PROVE AnsweredUnlessForgotten
    <2> SUFFICES ASSUME NEW f \in Frames
                 PROVE  /\ /\ Frag(f) # "later" /\ TellsFlow(Subject(f))
                           /\ ~Malformed(Subject(f)) /\ FlowOf(f) \in DOMAIN current
                           => Verdict(f) = "sent"
                        /\ Frag(f) = "later" /\ Datagram(f) \in DOMAIN heads
                           => Verdict(f) = "sent"
        BY DEF AnsweredUnlessForgotten
    <2>0. FrameOK(f)
        BY <1>1, FramesOK
    <2>1. ASSUME Frag(f) # "later", TellsFlow(Subject(f)), ~Malformed(Subject(f)),
                 FlowOf(f) \in DOMAIN current
          PROVE  Verdict(f) = "sent"
        <3>1. Matched(f) = Subject(f)
            BY <2>0 DEF FrameOK, Matched, Subject
        <3>2. ~LinkLocalControl(f)
            BY <2>0, <2>1 DEF FrameOK, Subject, TellsFlow, LinkLocalControl, QuotingError
        <3>3. Found(f).map = flow_state
            BY <2>1 DEF Found
        <3>4. Found(f).key \in DOMAIN flow_state
            <4>1. f.type # "control"
                BY <2>0, <3>2 DEF FrameOK
            <4> QED BY <1>1, <2>0, <2>1, <4>1 DEF FrameOK, DatapathInv, CurrentOK
        <3> QED BY <2>0, <2>1, <3>1, <3>2, <3>3, <3>4 DEF FrameOK, Verdict
    <2>2. ASSUME Frag(f) = "later", Datagram(f) \in DOMAIN heads
          PROVE  Verdict(f) = "sent"
        <3>1. ~QuotingError(f) /\ ~LinkLocalControl(f) /\ Matched(f) = f
            BY <2>2 DEF QuotingError, LinkLocalControl, ReadsL4, Matched
        <3>2. Found(f) = [map |-> frag_state, key |-> frag_key(f)]
            BY <2>2, <3>1 DEF Found
        <3>3. DatagramKey(Datagram(f)) = frag_key(f)
            BY DEF DatagramKey, Datagram, frag_key
        <3>4. frag_key(f) \in DOMAIN frag_state
            BY <1>1, <2>2, <3>3 DEF DatapathInv, HeadsOK
        <3> QED BY <2>0, <3>1, <3>2, <3>4 DEF FrameOK, Verdict
    <2> QED BY <2>1, <2>2
<1> QED BY <1>1, DatapathInvariance, PTL

-----------------------------------------------------------------------------
(* Origin.                                                                 *)

\* decap's constants are what the flag makes them, and its verdict is theirs.
OriginInv ==
    /\ flag.bits \in Nat /\ flag.addr \in Address
    /\ result \in {"none", "error", "ok"}
    /\ result # "none" \/ allowed = [addr |-> ZeroAddress, mask |-> ZeroAddress]
    /\ result = "ok" =>
        /\ ~Rejected
        /\ allowed = IF flag.family = "none" THEN [addr |-> ZeroAddress, mask |-> ZeroAddress]
                     ELSE [addr |-> Masked, mask |-> Mask]
    /\ source # NoPacket =>
        result = "ok" /\ source \in Address /\ verdict \in BOOLEAN /\ verdict = Passes(source)

\* The mask has a one for each bit of the prefix.
LEMMA MaskOnes ==
    ASSUME flag.bits \in 0..Width
    PROVE  /\ Mask = [i \in 1..Width |-> IF i <= flag.bits THEN 1 ELSE 0]
           /\ flag.bits = 0 => Masked = ZeroAddress
<1>1. CASE flag.bits = 0
    BY <1>1, AddressAssumption DEF Mask, ZeroAddress, Masked
<1>2. CASE flag.bits > 0
    <2>1. ASSUME NEW i \in 1..Width
          PROVE  i + (Width - flag.bits) <= Width <=> i <= flag.bits
        BY AddressAssumption
    <2>2. ASSUME NEW i \in 1..Width, i <= flag.bits
          PROVE  i + (Width - flag.bits) \in 1..Width
        BY <2>2, AddressAssumption
    <2> DEFINE shifted(i) == IF i + (Width - flag.bits) <= Width
                             THEN [j \in 1..Width |-> 1][i + (Width - flag.bits)] ELSE 0
    <2>3. Mask = [i \in 1..Width |-> shifted(i)]
        BY <1>2 DEF Mask, ShiftLeft
    <2>4. ASSUME NEW i \in 1..Width
          PROVE  shifted(i) = IF i <= flag.bits THEN 1 ELSE 0
        BY <2>1, <2>2
    <2> HIDE DEF shifted
    <2> QED BY <1>2, <2>3, <2>4
<1> QED BY <1>1, <1>2, AddressAssumption

\* Under a mask of ones and then zeros a comparison looks at the ones.
LEMMA PassesPrefix ==
    ASSUME NEW src \in Address, flag.bits \in 0..Width, flag.addr \in Address,
           allowed = [addr |-> Masked, mask |-> Mask]
    PROVE  Passes(src) <=> \A i \in 1..flag.bits : src[i] = flag.addr[i]
<1>0. /\ allowed.mask = [i \in 1..Width |-> IF i <= flag.bits THEN 1 ELSE 0]
      /\ allowed.addr = Masked
    BY MaskOnes
<1>1. ASSUME NEW i \in 1..Width
      PROVE  /\ And(src, allowed.mask)[i] = IF i <= flag.bits THEN src[i] ELSE 0
             /\ allowed.addr[i] = IF i <= flag.bits THEN flag.addr[i] ELSE 0
    <2>1. src[i] * 1 = src[i] /\ src[i] * 0 = 0
        BY DEF Address
    <2> QED BY <1>0, <2>1 DEF And, Masked
<1>2. Passes(src) <=> \A i \in 1..Width : And(src, allowed.mask)[i] = allowed.addr[i]
    BY DEF Passes, And, Masked
<1>3. \A i \in 1..flag.bits : i \in 1..Width /\ i <= flag.bits
    BY AddressAssumption
<1>4. \A i \in 1..Width : i <= flag.bits => i \in 1..flag.bits
    BY AddressAssumption
<1> QED BY <1>1, <1>2, <1>3, <1>4

\* The zeros of no flag let everything through.
LEMMA PassesAll ==
    ASSUME NEW src \in Address, allowed = [addr |-> ZeroAddress, mask |-> ZeroAddress]
    PROVE  Passes(src)
<1>1. \A i \in 1..Width : src[i] * 0 = 0
    BY DEF Address
<1> QED BY <1>1 DEF Passes, And, ZeroAddress

\* The flag and the packet.
LEMMA OriginNextInv ==
    ASSUME OriginInv, [OriginNext]_originVars
    PROVE  OriginInv'
<1>1. CASE ApplyFlag
    BY <1>1 DEF ApplyFlag, OriginInv, Rejected, Masked, Mask, Passes
<1>2. CASE Filter
    BY <1>2 DEF Filter, OriginInv, Rejected, Masked, Mask, Passes
<1>3. CASE UNCHANGED originVars
    BY <1>3 DEF originVars, OriginInv, Rejected, Masked, Mask, Passes
<1> QED BY <1>1, <1>2, <1>3 DEF OriginNext, OriginDone

\* decap lets exactly the prefix's addresses through (decap.go Load, _decap.c).
THEOREM ExactlyThePrefix == OriginSpec => []PrefixEnforced
<1>1. OriginInit => OriginInv
    BY AddressAssumption DEF OriginInit, OriginInv
<1>2. ASSUME OriginInv PROVE PrefixEnforced
    <2>1. result = "ok" => flag.family \in {"none", "v4"} /\ flag.bits \in 0..Width
        BY <1>2, AddressAssumption DEF OriginInv, Rejected
    <2> QED BY <1>2, <2>1, PassesPrefix, PassesAll DEF OriginInv, PrefixEnforced
<1> QED BY <1>1, <1>2, OriginNextInv, PTL DEF OriginSpec

-----------------------------------------------------------------------------
(* Sizes.                                                                  *)

\* What Min of two numbers is.
LEMMA MinOfTwo ==
    ASSUME NEW a \in Int, NEW b \in Int
    PROVE  Min({a, b}) = IF a <= b THEN a ELSE b
<1>1. CASE a <= b
    BY <1>1 DEF Min
<1>2. CASE ~(a <= b)
    BY <1>2 DEF Min
<1> QED BY <1>1, <1>2

\* Products grow with their factors.
LEMMA TimesMonotone ==
    ASSUME NEW k \in Nat, NEW a \in Nat, NEW b \in Nat, a <= b
    PROVE  k * a \in Nat /\ k * b \in Nat /\ k * a <= k * b
OBVIOUS

\* The kernel refuses every number of endpoints whose rows would wrap.
LEMMA NoWrap ==
    ASSUME NEW n \in 1..KernelMax
    PROVE  MetricsEntries(n) = Rows * (n + 1)
<1>1. /\ n + 1 \in Nat /\ KernelMax + 1 \in Nat /\ n + 1 <= KernelMax + 1
      /\ Rows \in Nat \ {0} /\ Word32 \in Nat
    BY WidthAssumption
<1>2. Rows * (n + 1) \in Nat /\ Rows * (n + 1) <= Rows * (KernelMax + 1)
    BY <1>1, TimesMonotone
<1>3. Rows * (n + 1) < Word32
    BY <1>1, <1>2, WidthAssumption
<1>4. 1 * (n + 1) <= Rows * (n + 1)
    BY <1>1
<1>5. (n + 1) % Word32 = n + 1
    BY <1>1, <1>2, <1>3, <1>4
<1>6. (Rows * (n + 1)) % Word32 = Rows * (n + 1)
    BY <1>1, <1>2, <1>3
<1> QED BY <1>5, <1>6 DEF MetricsEntries

USE DEF GeneveOverhead, minInnerLen, GWLBMTU, MinDeviceMtu, MaxInnerLen, HasRoom, SetupMtu

\* Nothing is set up yet.
LEMMA SizesInitInv == ASSUME SizesInit PROVE SizesInv
BY WidthAssumption DEF SizesInit, SizesInv

\* Every change of the MTU, command and packet keeps the sizes consistent.
LEMMA SizesStep ==
    ASSUME SizesInv, [SizesNext]_sizesVars
    PROVE  SizesInv'
<1> USE WidthAssumption DEF SizesInv, Kinds
<1>1. CASE ChangeMtu
    BY <1>1 DEF ChangeMtu
<1>2. ASSUME NEW n \in EndpointArgs, RunSetup(n) PROVE SizesInv'
    <2>1. mtu \in Nat /\ MaxInnerLen(mtu) \in Nat /\ MaxInnerLen(mtu) >= minInnerLen
        BY <1>2 DEF RunSetup
    <2>2. pins' = None \/ pins' \in [vpce : 1..KernelMax, metrics : 1..KernelMax]
        BY <1>2 DEF RunSetup, Loads
    <2>3. inner' = None \/ (inner' = MaxInnerLen(mtu) /\ since' = {mtu} /\ pins' # None)
        <3> DEFINE sizes == [vpce |-> n, metrics |-> MetricsEntries(n)]
        <3>1. sizes # None
            BY <1>2 DEF RunSetup, Loads
        <3> QED BY <1>2, <3>1 DEF RunSetup
    <2>4. UNCHANGED <<mtu, changes, veth, packet>> /\ veth = None /\ packet = None
             /\ (since' = since \/ since' = {mtu})
        BY <1>2 DEF RunSetup
    <2>5. CASE inner' = None
        BY <2>1, <2>2, <2>4, <2>5
    <2>6. CASE inner' = MaxInnerLen(mtu) /\ since' = {mtu} /\ pins' # None
        <3>1. inner' \in Nat /\ SetupMtu' = mtu
            BY <2>1, <2>6
        <3> QED BY <2>1, <2>2, <2>4, <2>6, <3>1
    <2> QED BY <2>3, <2>5, <2>6
<1>3. CASE RunTeardown
    BY <1>3 DEF RunTeardown
<1>4. ASSUME NEW arg \in MtuArgs, RunAdd(arg) PROVE SizesInv'
    <2>1. VethMtu(arg) \in Nat /\ VethMtu(arg) <= MaxInnerLen(mtu)
        BY <1>4, MinOfTwo DEF RunAdd, Accepts, VethMtu
    <2> QED BY <1>4, <2>1 DEF RunAdd
<1>5. CASE RunRemove
    BY <1>5 DEF RunRemove
<1>6. ASSUME NEW len \in Lengths, NEW merged \in BOOLEAN, Decap(len, merged) PROVE SizesInv'
    BY <1>6 DEF Decap, Outcome
<1>7. ASSUME NEW len \in Lengths, NEW merged \in BOOLEAN, Encap(len, merged) PROVE SizesInv'
    BY <1>7 DEF Encap, Outcome
<1>8. CASE UNCHANGED sizesVars
    BY <1>8 DEF sizesVars
<1> QED BY <1>1, <1>2, <1>3, <1>4, <1>5, <1>6, <1>7, <1>8 DEF SizesNext

\* The inductive invariant: nothing is attached without its maps, and both max_inner_len
\* and the veth's MTU were computed from an MTU the uplink had since setup.
THEOREM SizesInvariance == SizesSpec => []SizesInv
<1>1. SizesInit => SizesInv
    BY SizesInitInv
<1>2. SizesInv /\ [SizesNext]_sizesVars => SizesInv'
    BY SizesStep
<1> QED BY <1>1, <1>2, PTL DEF SizesSpec

----------------------------------------------------------------------------
\* What a step may do to the last packet: forget it, keep it with all it was judged by
\* (the uplink may have had one more MTU since), or be a packet itself.
LEMMA PacketStep ==
    ASSUME SizesInv, [SizesNext]_sizesVars
    PROVE  \/ packet' = None
           \/ packet' = packet /\ (packet # None => inner' = inner /\ since \subseteq since')
           \/ /\ inner \in Nat /\ inner' = inner /\ since' = since /\ mtu' = mtu /\ veth' = veth
              /\ \E len \in Lengths, merged \in BOOLEAN : Decap(len, merged) \/ Encap(len, merged)
<1> USE DEF SizesInv
<1>1. CASE ChangeMtu
    BY <1>1 DEF ChangeMtu
<1>2. ASSUME NEW n \in EndpointArgs, RunSetup(n) PROVE packet' = packet /\ packet = None
    BY <1>2 DEF RunSetup
<1>3. CASE RunTeardown \/ RunRemove
    BY <1>3 DEF RunTeardown, RunRemove
<1>4. ASSUME NEW arg \in MtuArgs, RunAdd(arg) PROVE packet' = packet /\ packet = None
    BY <1>4 DEF RunAdd
<1>5. ASSUME NEW len \in Lengths, NEW merged \in BOOLEAN, Decap(len, merged) \/ Encap(len, merged)
      PROVE  inner \in Nat /\ inner' = inner /\ since' = since /\ mtu' = mtu /\ veth' = veth
    BY <1>5 DEF Decap, Encap
<1>6. CASE UNCHANGED sizesVars
    BY <1>6 DEF sizesVars
<1> QED BY <1>1, <1>2, <1>3, <1>4, <1>5, <1>6 DEF SizesNext

\* A property of the last packet that later MTUs of the uplink do not spoil and that
\* every packet has is always true: the three below differ in the last of these steps.
LEMMA LengthsStep ==
    ASSUME SizesInv, LengthsTrue, [SizesNext]_sizesVars
    PROVE  LengthsTrue'
<1> USE DEF LengthsTrue
<1>1. CASE packet' = None \/ packet' = packet
    BY <1>1
<1>2. ASSUME NEW len \in Lengths, NEW merged \in BOOLEAN, Decap(len, merged)
      PROVE  LengthsTrue'
    BY <1>2 DEF Decap, Outcome
<1>3. ASSUME NEW len \in Lengths, NEW merged \in BOOLEAN, Encap(len, merged),
             packet'.kind \in {"sent", "lost_at_uplink"}
      PROVE  LengthsTrue'
    <2>1. ~Oversize(len) /\ packet'.len = len /\ packet'.total = TotalLen(len)
             /\ packet'.udp = (TotalLen(len) - 20) % Word16
        BY <1>3 DEF Encap, Outcome
    <2>2. len \in Nat /\ len <= inner /\ inner + GeneveOverhead < Word16
          /\ inner \in Nat /\ Word16 \in Nat
        BY <1>3, <2>1, WidthAssumption DEF Oversize, SizesInv, Encap
    <2>3. TotalLen(len) = len + 68
        BY <2>2 DEF TotalLen
    <2>4. (TotalLen(len) - 20) % Word16 = TotalLen(len) - 20
        BY <2>2, <2>3
    <2> QED BY <2>1, <2>3, <2>4
<1> QED BY <1>1, <1>2, <1>3, PacketStep DEF Encap

\* However large an MTU or a merged packet, no length encap writes is cut.
THEOREM NoTruncation == SizesSpec => []LengthsTrue
<1>1. SizesInit => LengthsTrue
    BY DEF SizesInit, LengthsTrue
<1>2. SizesInv /\ LengthsTrue /\ [SizesNext]_sizesVars => LengthsTrue'
    BY LengthsStep
<1> QED BY <1>1, <1>2, SizesInvariance, PTL DEF SizesSpec

----------------------------------------------------------------------------
\* Only a setup makes a map, and it makes it large enough.
LEMMA RoomStep ==
    ASSUME SizesInv, RoomForEveryCounter, [SizesNext]_sizesVars
    PROVE  RoomForEveryCounter'
<1> USE DEF RoomForEveryCounter
<1>1. ASSUME NEW n \in EndpointArgs, RunSetup(n) PROVE RoomForEveryCounter'
    <2>1. n \in 1..KernelMax
        BY <1>1 DEF RunSetup, Loads
    <2>2. pins' = None \/ pins' = [vpce |-> n, metrics |-> Rows * (n + 1)]
        BY <1>1, <2>1, NoWrap DEF RunSetup
    <2>3. Rows * (n + 1) \in Nat
        BY <2>1, WidthAssumption
    <2> QED BY <2>2, <2>3
<1>2. ASSUME pins' \in {pins, None} PROVE RoomForEveryCounter'
    BY <1>2
<1> QED
    BY <1>1, <1>2
    DEF SizesNext, ChangeMtu, RunTeardown, RunAdd, RunRemove, Decap, Encap, sizesVars

\* metrics never lacks a row for a counter of an endpoint that vpce_to_ifindex has
\* room for, or of the uplink.
THEOREM CountersFit == SizesSpec => []RoomForEveryCounter
<1>1. SizesInit => RoomForEveryCounter
    BY DEF SizesInit, RoomForEveryCounter
<1>2. SizesInv /\ RoomForEveryCounter /\ [SizesNext]_sizesVars => RoomForEveryCounter'
    BY RoomStep
<1> QED BY <1>1, <1>2, SizesInvariance, PTL DEF SizesSpec

----------------------------------------------------------------------------
\* The outcome of a packet is judged by the MTUs since setup.
LEMMA LostStep ==
    ASSUME SizesInv, LostOnlyIfShrunk, [SizesNext]_sizesVars
    PROVE  LostOnlyIfShrunk'
<1> USE DEF LostOnlyIfShrunk, Shrunk
<1>1. CASE packet' = None
    BY <1>1
<1>2. CASE packet' = packet /\ packet # None /\ inner' = inner /\ since \subseteq since'
    BY <1>2
<1>3. ASSUME NEW len \in Lengths, NEW merged \in BOOLEAN, Decap(len, merged)
      PROVE  LostOnlyIfShrunk'
    BY <1>3 DEF Decap, Outcome
<1>4. ASSUME NEW len \in Lengths, NEW merged \in BOOLEAN, Encap(len, merged),
             packet'.kind = "lost_at_uplink"
      PROVE  Shrunk'
    <2>1. ~Oversize(len) /\ len + GeneveOverhead > mtu
        BY <1>4 DEF Encap, Outcome
    <2>2. mtu \in since /\ mtu < SetupMtu /\ inner' = inner /\ since' = since
        BY <1>4, <2>1, WidthAssumption DEF Oversize, SizesInv, Encap
    <2> QED BY <2>2
<1> QED BY <1>1, <1>2, <1>3, <1>4, PacketStep

\* A reply that encap let through is too large for the uplink only if the uplink's MTU
\* has shrunk since setup.
THEOREM LostExplained == SizesSpec => []LostOnlyIfShrunk
<1>1. SizesInit => LostOnlyIfShrunk
    BY DEF SizesInit, LostOnlyIfShrunk
<1>2. SizesInv /\ LostOnlyIfShrunk /\ [SizesNext]_sizesVars => LostOnlyIfShrunk'
    BY LostStep
<1> QED BY <1>1, <1>2, SizesInvariance, PTL DEF SizesSpec

\* Likewise for what encap drops.
LEMMA OversizeStep ==
    ASSUME SizesInv, OversizeOnlyIfGrown, [SizesNext]_sizesVars
    PROVE  OversizeOnlyIfGrown'
<1> USE DEF OversizeOnlyIfGrown, Grown
<1>1. CASE packet' = None
    BY <1>1
<1>2. CASE packet' = packet /\ packet # None /\ inner' = inner /\ since \subseteq since'
    BY <1>2
<1>3. ASSUME NEW len \in Lengths, NEW merged \in BOOLEAN, Decap(len, merged)
      PROVE  OversizeOnlyIfGrown'
    BY <1>3 DEF Decap, Outcome
<1>4. ASSUME NEW len \in Lengths, NEW merged \in BOOLEAN, Encap(len, merged),
             packet'.kind = "encap_oversize", ~packet'.merged
      PROVE  Grown'
    <2>1. Oversize(len) /\ ~merged /\ len <= veth /\ veth # None
        BY <1>4 DEF Encap, Outcome
    <2>2. PICK m \in since : veth <= MaxInnerLen(m)
        BY <2>1 DEF SizesInv
    <2>3. m > SetupMtu /\ inner' = inner /\ since' = since
        BY <1>4, <2>1, <2>2, WidthAssumption DEF Oversize, SizesInv, Encap
    <2> QED BY <2>3
<1> QED BY <1>1, <1>2, <1>3, <1>4, PacketStep

\* encap refuses a reply the veth let through only if the uplink's MTU was raised
\* between setup and add.
THEOREM OversizeExplainedByGrowth == SizesSpec => []OversizeOnlyIfGrown
<1>1. SizesInit => OversizeOnlyIfGrown
    BY DEF SizesInit, OversizeOnlyIfGrown
<1>2. SizesInv /\ OversizeOnlyIfGrown /\ [SizesNext]_sizesVars => OversizeOnlyIfGrown'
    BY OversizeStep
<1> QED BY <1>1, <1>2, SizesInvariance, PTL DEF SizesSpec

=============================================================================
