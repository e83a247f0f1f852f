------------------------------ MODULE Tunnels -------------------------------
(***************************************************************************)
(* What gwlb-xdp promises its endpoints: each has a tunnel of its own.     *)
(* There are no ifindexes, no shared maps, no commands and no programs     *)
(* here: a packet is in one tunnel, a tunnel caches headers of its own     *)
(* flows, forgets any of them at any time, and takes them with it when it  *)
(* goes.  Of a suspect tunnel, made where a command was killed or failed   *)
(* to clean up, what it has cached may be another's.                       *)
(***************************************************************************)
CONSTANTS Cpu, Vpce, Tuple, None

VARIABLES
    tunnel,     \* "none", "shut" or, if packets are let in, "open"
    suspect,
    cached,     \* the flows, and fragmented replies, whose header a tunnel has
    packet      \* what each CPU has in hand

vars == <<tunnel, suspect, cached, packet>>

Entry == {"flow", "frag"} \X Tuple

NoPacket == [dir |-> "none", of |-> None, at |-> None, tuple |-> None, hdr |-> None]

Init ==
    /\ tunnel = [v \in Vpce |-> "none"]
    /\ suspect = {}
    /\ cached = [v \in Vpce |-> {}]
    /\ packet = [c \in Cpu |-> NoPacket]

\* Nothing is cached that was not, but for entry e of v.
CachedAtMost(v, e) ==
    /\ cached' \in [Vpce -> SUBSET Entry]
    /\ \A w \in Vpce : cached'[w] \subseteq cached[w] \cup (IF w = v THEN {e} ELSE {})

-----------------------------------------------------------------------------
\* A new tunnel has cached nothing, unless it is suspect.
Make(v) ==
    /\ tunnel[v] = "none"
    /\ tunnel' = [tunnel EXCEPT ![v] = "shut"]
    /\ \/ UNCHANGED <<suspect, cached>>
       \/ /\ suspect' = suspect \cup {v}
          /\ \E S \in SUBSET Entry : cached' = [cached EXCEPT ![v] = S]
    /\ UNCHANGED packet

Open(v) ==
    /\ tunnel[v] = "shut"
    /\ tunnel' = [tunnel EXCEPT ![v] = "open"]
    /\ UNCHANGED <<suspect, cached, packet>>

Shut(v) ==
    /\ tunnel[v] = "open"
    /\ tunnel' = [tunnel EXCEPT ![v] = "shut"]
    /\ UNCHANGED <<suspect, cached, packet>>

\* Its packets in hand, and its cache, go with a tunnel.
Destroy(v) ==
    /\ tunnel[v] = "shut"
    /\ tunnel' = [tunnel EXCEPT ![v] = "none"]
    /\ suspect' = suspect \ {v}
    /\ cached' = [cached EXCEPT ![v] = {}]
    /\ packet' = [c \in Cpu |-> IF packet[c].at = v THEN NoPacket ELSE packet[c]]

\* teardown: every tunnel is shut and empty.
Reset ==
    /\ tunnel' = [v \in Vpce |-> IF tunnel[v] = "none" THEN "none" ELSE "shut"]
    /\ suspect' = {}
    /\ cached' = [v \in Vpce |-> {}]
    /\ packet' = [c \in Cpu |-> NoPacket]

Forget ==
    /\ cached' \in [Vpce -> SUBSET Entry]
    /\ \A v \in Vpce : cached'[v] \subseteq cached[v]
    /\ UNCHANGED <<tunnel, suspect, packet>>

-----------------------------------------------------------------------------
\* A packet of v comes in, with its own header.
Receive(c, v, t) ==
    /\ packet[c] = NoPacket
    /\ tunnel[v] = "open"
    /\ packet' = [packet EXCEPT ![c] = [dir |-> "in", of |-> v, at |-> v, tuple |-> t, hdr |-> v]]
    /\ UNCHANGED <<tunnel, suspect, cached>>

\* Its header is cached for the replies.
Learn(c) ==
    /\ packet[c].dir = "in"
    /\ CachedAtMost(packet[c].at, <<"flow", packet[c].tuple>>)
    /\ UNCHANGED <<tunnel, suspect, packet>>

\* v's backend sends a reply, which as yet has no header.
Reply(c, v, t) ==
    /\ packet[c] = NoPacket
    /\ tunnel[v] # "none"
    /\ packet' = [packet EXCEPT ![c] = [dir |-> "out", of |-> v, at |-> v, tuple |-> t, hdr |-> None]]
    /\ UNCHANGED <<tunnel, suspect, cached>>

\* It gets one its own tunnel has cached: its own endpoint's.
Find(c) ==
    /\ packet[c].dir = "out"
    /\ LET v == packet[c].at
           t == packet[c].tuple IN
       /\ {<<"flow", t>>, <<"frag", t>>} \cap cached[v] # {}
       /\ \E h \in Vpce : /\ v \notin suspect => h = packet[c].of
                          /\ packet' = [packet EXCEPT ![c].hdr = h]
    /\ UNCHANGED <<tunnel, suspect, cached>>

\* A first fragment's header is cached for the later ones.
Record(c) ==
    /\ packet[c].dir = "out"
    /\ CachedAtMost(packet[c].at, <<"frag", packet[c].tuple>>)
    /\ UNCHANGED <<tunnel, suspect, packet>>

\* A packet leaves: an incoming one into its own tunnel, a reply with its header, if
\* it has one.
Leave(c) ==
    /\ packet[c] # NoPacket
    /\ packet' = [packet EXCEPT ![c] = NoPacket]
    /\ UNCHANGED <<tunnel, suspect, cached>>

Next ==
    \/ \E v \in Vpce : Make(v) \/ Open(v) \/ Shut(v) \/ Destroy(v)
    \/ Reset \/ Forget
    \/ \E c \in Cpu : \/ \E v \in Vpce, t \in Tuple : Receive(c, v, t) \/ Reply(c, v, t)
                      \/ Learn(c) \/ Find(c) \/ Record(c) \/ Leave(c)

Spec == Init /\ [][Next]_vars
=============================================================================
