-------------------------------- MODULE Xdp ---------------------------------
(***************************************************************************)
(* The decap and encap XDP programs, one run per CPU.  Each access to a    *)
(* map another CPU or a command may touch is a step of its own, so runs    *)
(* interleave with each other and with the commands between a lookup and   *)
(* the write that follows it.                                              *)
(***************************************************************************)
EXTENDS Host

\* Leaving a program is leaving its RCU read-side critical section: a LinkDel
\* that was waiting for this run stops waiting for it.
Leave(c) ==
    /\ run' = [run EXCEPT ![c] = NoRun]
    /\ grace' = grace \ {c}

xdpUnchanged == UNCHANGED <<cmdVars, job, veth, netns, attached, pinVars,
                            vpce_to_ifindex, dirty>>

-----------------------------------------------------------------------------
(* decap, on the uplink.                                                   *)

\* A GENEVE packet of endpoint v is decapped: decap is attached and finds v in
\* vpce_to_ifindex.  info->ifindex is read here and used ever after.
DecapReceive(c, v, t) ==
    /\ run[c] = NoRun
    /\ "decap_link" \in pinned
    /\ vpce_to_ifindex[v] # None
    /\ run' = [run EXCEPT ![c] =
                 [st |-> "publish", ifindex |-> vpce_to_ifindex[v],
                  tuple |-> t, vpce |-> v, hdr |-> v]]
    /\ UNCHANGED <<grace, mapVars>>
    /\ xdpUnchanged

\* flow_state is written only if the cached header differs; packets that are not
\* cached (later fragments, ICMP errors) or are dropped after the endpoint
\* lookup (oversize, malformed) skip this and only count.
DecapPublish(c) ==
    /\ run[c].st = "publish"
    /\ LET k == <<run[c].ifindex, run[c].tuple>> IN
       /\ flow_state[k] # run[c].hdr
       /\ \E victim \in Key \cup {None} :
            flow_state' = LruUpdate(flow_state, k, run[c].hdr, victim)
    /\ run' = [run EXCEPT ![c].st = "deliver"]
    /\ UNCHANGED <<grace, frag_state, metrics>>
    /\ xdpUnchanged

DecapSkipCache(c) ==
    /\ run[c].st = "publish"
    /\ run' = [run EXCEPT ![c].st = "deliver"]
    /\ UNCHANGED <<grace, mapVars>>
    /\ xdpUnchanged

\* Count the packet under the endpoint's ifindex and redirect it there, or drop it.
DecapDeliver(c) ==
    /\ run[c].st = "deliver"
    /\ Increment(run[c].ifindex, run[c].vpce)
    /\ Leave(c)
    /\ UNCHANGED <<flow_state, frag_state>>
    /\ xdpUnchanged

-----------------------------------------------------------------------------
(* encap, on an endpoint's outer veth.                                     *)

\* A frame from the backend behind veth i reaches encap.  vpce is ghost: the
\* endpoint the frame truly comes from.
EncapReceive(c, i, t) ==
    /\ run[c] = NoRun
    /\ i \in attached
    /\ run' = [run EXCEPT ![c] =
                 [st |-> "lookup", ifindex |-> i, tuple |-> t,
                  vpce |-> veth[i], hdr |-> None]]
    /\ UNCHANGED <<grace, mapVars>>
    /\ xdpUnchanged

\* A whole packet, a first fragment, or an ICMP error quoting a delivered packet
\* matches in flow_state.  A miss, or a frame dropped before the lookup, is
\* counted and dropped.  first: the frame is a first fragment.
EncapLookupFlow(c, first) ==
    /\ run[c].st = "lookup"
    /\ LET h == flow_state[<<run[c].ifindex, run[c].tuple>>] IN
       run' = [run EXCEPT ![c].hdr = h,
                          ![c].st = IF first /\ h # None THEN "record" ELSE "send"]
    /\ UNCHANGED <<grace, mapVars>>
    /\ xdpUnchanged

\* A later fragment has no ports to key on, and matches in frag_state.
EncapLookupFrag(c) ==
    /\ run[c].st = "lookup"
    /\ run' = [run EXCEPT ![c].hdr = frag_state[<<run[c].ifindex, run[c].tuple>>],
                          ![c].st = "send"]
    /\ UNCHANGED <<grace, mapVars>>
    /\ xdpUnchanged

\* A first fragment's header is recorded for the datagram's later fragments.
EncapRecord(c) ==
    /\ run[c].st = "record"
    /\ \E victim \in Key \cup {None} :
         frag_state' = LruUpdate(frag_state, <<run[c].ifindex, run[c].tuple>>,
                                 run[c].hdr, victim)
    /\ run' = [run EXCEPT ![c].st = "send"]
    /\ UNCHANGED <<grace, flow_state, metrics>>
    /\ xdpUnchanged

\* Replay the header and redirect to the uplink, or drop on a miss; both count.
EncapSend(c) ==
    /\ run[c].st = "send"
    /\ Increment(run[c].ifindex, run[c].vpce)
    /\ Leave(c)
    /\ UNCHANGED <<flow_state, frag_state>>
    /\ xdpUnchanged

\* A run whose maps teardown has unpinned: all it does is end.
StrayLeave(c) ==
    /\ run[c].st = "stray"
    /\ Leave(c)
    /\ UNCHANGED mapVars
    /\ xdpUnchanged

-----------------------------------------------------------------------------
\* The rest of a run, once a packet has started it.
RunStep(c) ==
    \/ DecapPublish(c) \/ DecapSkipCache(c) \/ DecapDeliver(c)
    \/ \E first \in BOOLEAN : EncapLookupFlow(c, first)
    \/ EncapLookupFrag(c) \/ EncapRecord(c) \/ EncapSend(c) \/ StrayLeave(c)

Receive(c) ==
    \E t \in Tuple : \/ \E v \in Vpce : DecapReceive(c, v, t)
                     \/ \E i \in Ifindex : EncapReceive(c, i, t)
=============================================================================
