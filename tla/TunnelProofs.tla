---------------------------- MODULE TunnelProofs ----------------------------
(***************************************************************************)
(* Gwlb implements Tunnels under the mapping of GwlbTunnels, for any       *)
(* numbers of commands, CPUs, endpoints, ifindexes and flows: every step   *)
(* of a command or of an XDP run is a step of the tunnels, or none.        *)
(***************************************************************************)
EXTENDS GwlbTunnels, CommandProofs

-----------------------------------------------------------------------------
(* The invariant of the refinement.                                        *)

\* A frame has no header before encap has looked for one.
NoHeaderYet == \A c \in Cpu : run[c].st = "lookup" => run[c].hdr = None

TunnelInv == IInv /\ VethUnique /\ NoHeaderYet

\* Only EncapLookupFlow and EncapLookupFrag give a frame its header.
LEMMA HeaderStep ==
    ASSUME TypeOK, NoHeaderYet, [Next]_vars
    PROVE  NoHeaderYet'
<1>0. run \in [Cpu -> RunType]
  BY DEF TypeOK
<1> USE DEF NoHeaderYet
<1>1. ASSUME NEW c \in Cpu, NEW r, run' = [run EXCEPT ![c] = r], r.st = "lookup" => r.hdr = None
      PROVE  NoHeaderYet'
  BY <1>0, <1>1
<1>2. ASSUME NEW c \in Cpu, NEW t \in Tuple,
             \/ \E v \in Vpce : DecapReceive(c, v, t)
             \/ \E i \in Ifindex : EncapReceive(c, i, t)
      PROVE  NoHeaderYet'
  BY <1>1, <1>2 DEF DecapReceive, EncapReceive
<1>3. ASSUME NEW c \in Cpu, RunStep(c) PROVE NoHeaderYet'
  <2>1. CASE DecapPublish(c) \/ DecapSkipCache(c) \/ EncapLookupFrag(c) \/ EncapRecord(c)
    BY <1>0, <2>1 DEF DecapPublish, DecapSkipCache, EncapLookupFrag, EncapRecord, RunType
  <2>2. ASSUME NEW first \in BOOLEAN, EncapLookupFlow(c, first) PROVE NoHeaderYet'
    BY <1>0, <2>2 DEF EncapLookupFlow, RunType
  <2>3. CASE DecapDeliver(c) \/ EncapSend(c) \/ StrayLeave(c)
    BY <1>1, <2>3 DEF DecapDeliver, EncapSend, StrayLeave, Leave, NoRun
  <2> QED BY <1>3, <2>1, <2>2, <2>3 DEF RunStep
<1>4. ASSUME NEW p \in Proc, JobStep(p) \/ Begin(p) \/ Crash(p)
      PROVE  UNCHANGED run \/ TeardownUnpin(p)
  BY <1>4
     DEF JobStep, SetupLoad, SetupAttachDecap, SetupLoadEncap, SetupPinEncap, AddCheck, AddNetns, AddVeth,
         AddConfigure, AddInsert, AddClearPin, AddAttach, UndoEntry, UndoVeth, UndoWait, UndoSweep, UndoNetns,
         RemoveEntry, RemoveDetach, RemoveVeth, RemoveWait, RemoveSweep, RemoveNetns, TeardownList,
         TeardownNext, TeardownDetachDecap, Unlock, Begin, Start, Crash, Release
<1>5. ASSUME NEW p \in Proc, TeardownUnpin(p) PROVE NoHeaderYet'
  BY <1>0, <1>5 DEF TeardownUnpin, InFlight, NoRun
<1> QED BY <1>2, <1>3, <1>4, <1>5 DEF Next, Receive, vars

\* What the mapping relies on holds throughout.
LEMMA TunnelInvariance == Spec => []TunnelInv
<1>1. Init => NoHeaderYet
  BY DEF Init, NoHeaderYet, NoRun
<1>2. IInv /\ NoHeaderYet /\ [Next]_vars => NoHeaderYet'
  BY HeaderStep DEF IInv
<1>3. PromisesOK => VethUnique
  BY DEF PromisesOK
<1> QED BY Invariance, Promises, <1>1, <1>2, <1>3, PTL DEF Spec, TunnelInv

-----------------------------------------------------------------------------
(* The mapping.                                                            *)

\* What the mapping reads.
tunnelVars == <<veth, vpce_to_ifindex, flow_state, frag_state, run, dirty>>

\* A step that leaves what the mapping reads alone is a stutter.
LEMMA SameTunnels ==
    ASSUME UNCHANGED tunnelVars
    PROVE  UNCHANGED T!vars
BY DEF tunnelVars, T!vars, TunnelOf, SuspectOf, CachedOf, PacketOf, MapOf, InFlight

\* What the mapping reads besides the maps and the runs.
LEMMA SameDevices ==
    ASSUME UNCHANGED <<veth, vpce_to_ifindex, dirty>>
    PROVE  UNCHANGED <<TunnelOf, SuspectOf>>
BY DEF TunnelOf, SuspectOf

\* A packet is in one run's hands, and is seen by what the run carries.
PacketSeen(r) ==
    IF r.st \notin {"none", "stray"} /\ veth[r.ifindex] # None
    THEN [dir |-> IF r.st \in {"publish", "deliver"} THEN "in" ELSE "out",
          of |-> r.vpce, at |-> veth[r.ifindex], tuple |-> r.tuple, hdr |-> r.hdr]
    ELSE Nothing

\* What a tunnel has cached depends on the maps and its own veths.
LEMMA CachedByVeths ==
    ASSUME \A e \in {"flow", "frag"} \X Tuple : MapOf(e[1])' = MapOf(e[1]),
           NEW w \in Vpce, \A k \in Ifindex : veth'[k] = w <=> veth[k] = w
    PROVE  CachedOf'[w] = CachedOf[w]
<1>1. ASSUME NEW e \in {"flow", "frag"} \X Tuple
      PROVE  (\E k \in Ifindex : veth'[k] = w /\ MapOf(e[1])'[<<k, e[2]>>] # None)
             <=> (\E k \in Ifindex : veth[k] = w /\ MapOf(e[1])[<<k, e[2]>>] # None)
  BY <1>1
<1> QED BY <1>1 DEF CachedOf

\* A step of one run: the packets of the others stay.
LEMMA OneRun ==
    ASSUME TypeOK, NEW c \in Cpu, NEW r, run' = [run EXCEPT ![c] = r], UNCHANGED veth
    PROVE  PacketOf' = [PacketOf EXCEPT ![c] = PacketSeen(r)]
BY DEF PacketOf, PacketSeen, InFlight, TypeOK

-----------------------------------------------------------------------------
(* The commands.                                                           *)

\* Steps the tunnels do not see.
LEMMA UnseenSteps ==
    ASSUME NEW p \in Proc,
           \/ SetupLoad(p) \/ SetupAttachDecap(p) \/ SetupLoadEncap(p) \/ SetupPinEncap(p)
           \/ AddCheck(p) \/ AddNetns(p) \/ AddConfigure(p) \/ AddClearPin(p)
           \/ AddAttach(p)
           \/ UndoWait(p) \/ UndoNetns(p) \/ RemoveDetach(p) \/ RemoveWait(p) \/ RemoveNetns(p)
           \/ TeardownList(p) \/ TeardownNext(p) \/ TeardownDetachDecap(p) \/ Unlock(p)
           \/ Begin(p) \/ Crash(p)
    PROVE  UNCHANGED T!vars
<1>1. UNCHANGED tunnelVars
  BY DEF SetupLoad, SetupAttachDecap, SetupLoadEncap, SetupPinEncap, AddCheck, AddNetns, AddConfigure,
         AddClearPin, AddAttach, UndoWait, UndoNetns, RemoveDetach, RemoveWait, RemoveNetns, TeardownList,
         TeardownNext, TeardownDetachDecap, Unlock, Begin, Start, Crash, Release,
         tunnelVars, devVars, pinVars, mapVars
<1> QED BY <1>1, SameTunnels

\* LinkAdd makes a tunnel; it is suspect where the ifindex was not swept.
LEMMA AddVethMakes ==
    ASSUME TunnelInv, NEW p \in Proc, AddVeth(p)
    PROVE  T!Next \/ UNCHANGED T!vars
<1> DEFINE v == job[p].vpce
<1>1. /\ TypeOK /\ grace = {} /\ v \in Vpce /\ vpce_to_ifindex[v] = None
      /\ UNCHANGED <<vpce_to_ifindex, flow_state, frag_state, run, dirty>>
      /\ veth \in [Ifindex -> Vpce \cup {None}] /\ v # None
  BY AtStep, NoneAssumption
     DEF TunnelInv, AddVeth, At, WaitPC, JobOK, JobType, VpcePC, FreshPC, mapVars, TypeOK
<1>2. CASE UNCHANGED veth
  BY <1>1, <1>2, SameTunnels DEF tunnelVars
<1>3. ASSUME NEW i \in Ifindex, veth[i] = None, veth' = [veth EXCEPT ![i] = v],
             \A k \in Ifindex : veth[k] # v
      PROVE  T!Make(v)
  <2>0. /\ \A w \in Vpce \ {v}, k \in Ifindex : veth'[k] = w <=> veth[k] = w
        /\ \A k \in Ifindex : veth'[k] = v <=> k = i
    BY <1>1, <1>3, NoneAssumption
  <2>1. TunnelOf[v] = "none" /\ TunnelOf' = [TunnelOf EXCEPT ![v] = "shut"]
    <3>1. TunnelOf[v] = "none" /\ TunnelOf'[v] = "shut"
      BY <1>1, <1>3, <2>0 DEF TunnelOf
    <3>2. \A w \in Vpce \ {v} : TunnelOf'[w] = TunnelOf[w]
      BY <1>1, <2>0 DEF TunnelOf
    <3> QED BY <3>1, <3>2 DEF TunnelOf
  <2>2. PacketOf' = PacketOf
    <3>1. \A c \in InFlight : run[c].ifindex \in Ifindex \ {i}
      BY <1>1, <1>3, LiveRuns, NoneAssumption DEF TunnelInv
    <3>2. \A c \in InFlight : veth'[run[c].ifindex] = veth[run[c].ifindex]
      BY <1>1, <1>3, <3>1
    <3>3. InFlight' = InFlight /\ run' = run
      BY <1>1 DEF InFlight
    <3> QED BY <3>2, <3>3 DEF PacketOf
  <2> DEFINE S == {e \in {"flow", "frag"} \X Tuple : MapOf(e[1])[<<i, e[2]>>] # None}
  <2>3. CachedOf' = [CachedOf EXCEPT ![v] = S]
    <3>1. \A e \in {"flow", "frag"} \X Tuple : MapOf(e[1])' = MapOf(e[1])
      BY <1>1 DEF MapOf
    <3>2. CachedOf'[v] = S
      <4>1. CachedOf'[v] = {e \in {"flow", "frag"} \X Tuple :
                               \E k \in Ifindex : veth'[k] = v /\ MapOf(e[1])'[<<k, e[2]>>] # None}
        BY <1>1 DEF CachedOf
      <4>2. ASSUME NEW e \in {"flow", "frag"} \X Tuple
            PROVE  (\E k \in Ifindex : veth'[k] = v /\ MapOf(e[1])'[<<k, e[2]>>] # None)
                   <=> MapOf(e[1])[<<i, e[2]>>] # None
        BY <2>0, <3>1
      <4> QED BY <4>1, <4>2
    <3>3. \A w \in Vpce \ {v} : CachedOf'[w] = CachedOf[w]
      BY <2>0, <3>1, CachedByVeths
    <3> QED BY <3>2, <3>3 DEF CachedOf
  <2>4. S \in SUBSET T!Entry
    BY DEF T!Entry
  <2>5. CASE i \in dirty
    <3>1. SuspectOf' = SuspectOf \cup {v}
      BY <1>1, <2>0, <2>5 DEF SuspectOf, TypeOK
    <3> QED BY <2>1, <2>2, <2>3, <2>4, <3>1 DEF T!Make
  <2>6. CASE i \notin dirty
    <3>1. SuspectOf' = SuspectOf
      BY <1>1, <1>3, <2>0, <2>6 DEF SuspectOf, TypeOK
    <3>2. S = {}
      BY <1>3, <2>6 DEF TunnelInv, IInv, EntriesOK, Unused, MapOf
    <3>3. CachedOf[v] = {}
      BY <1>1, <1>3 DEF CachedOf
    <3>4. CachedOf' = CachedOf
      BY <2>3, <3>2, <3>3 DEF CachedOf
    <3> QED BY <2>1, <2>2, <3>1, <3>4 DEF T!Make
  <2> QED BY <2>5, <2>6
<1>4. T!Make(v) => T!Next
  BY <1>1 DEF T!Next
<1>5. UNCHANGED veth \/ \E i \in Ifindex : /\ veth[i] = None /\ veth' = [veth EXCEPT ![i] = v]
                                          /\ \A k \in Ifindex : veth[k] # v
  BY <1>1, NoneAssumption DEF AddVeth, LinkByName
<1> QED BY <1>2, <1>3, <1>4, <1>5

\* The map entry is what opens a tunnel to packets.
LEMMA EntryOpens ==
    ASSUME TunnelInv, NEW v \in Vpce, NEW i \in Ifindex, veth[i] = v, vpce_to_ifindex[v] = None,
           vpce_to_ifindex' = [vpce_to_ifindex EXCEPT ![v] = i],
           UNCHANGED <<veth, flow_state, frag_state, run, dirty>>
    PROVE  T!Open(v)
<1>1. TypeOK /\ i # None /\ vpce_to_ifindex \in [Vpce -> Ifindex \cup {None}]
  BY NoneAssumption DEF TunnelInv, IInv, TypeOK
<1>2. TunnelOf[v] = "shut" /\ TunnelOf' = [TunnelOf EXCEPT ![v] = "open"]
  BY <1>1 DEF TunnelOf
<1>3. UNCHANGED <<SuspectOf, CachedOf, PacketOf>>
  BY DEF SuspectOf, CachedOf, PacketOf, MapOf, InFlight
<1> QED BY <1>2, <1>3 DEF T!Open

\* An entry of vpce_to_ifindex that goes shuts its tunnel, and does nothing else.
LEMMA EntryShuts ==
    ASSUME TunnelInv, NEW v \in Vpce, vpce_to_ifindex' = [vpce_to_ifindex EXCEPT ![v] = None],
           UNCHANGED <<veth, flow_state, frag_state, run, dirty>>
    PROVE  T!Next \/ UNCHANGED T!vars
<1>1. TypeOK /\ vpce_to_ifindex \in [Vpce -> Ifindex \cup {None}]
  BY DEF TunnelInv, IInv, TypeOK
<1>2. CASE vpce_to_ifindex[v] = None
  <2>1. vpce_to_ifindex' = vpce_to_ifindex
    BY <1>1, <1>2
  <2> QED BY <2>1, SameTunnels DEF tunnelVars
<1>3. CASE vpce_to_ifindex[v] # None
  <2>1. \E i \in Ifindex : veth[i] = v
    BY <1>1, <1>3 DEF TunnelInv, IInv, DevicesOK
  <2>2. TunnelOf[v] = "open" /\ TunnelOf' = [TunnelOf EXCEPT ![v] = "shut"]
    BY <1>1, <1>3, <2>1 DEF TunnelOf
  <2>3. UNCHANGED <<SuspectOf, CachedOf, PacketOf>>
    BY DEF SuspectOf, CachedOf, PacketOf, MapOf, InFlight
  <2> QED BY <2>2, <2>3 DEF T!Shut, T!Next
<1> QED BY <1>2, <1>3

\* LinkDel takes a tunnel away, the packets in it too.
LEMMA LinkDelDestroys ==
    ASSUME TunnelInv, NEW v \in Vpce, NEW i \in Ifindex, veth[i] = v, vpce_to_ifindex[v] = None,
           veth' = [veth EXCEPT ![i] = None], dirty' \in {dirty, dirty \cup {i}},
           UNCHANGED <<vpce_to_ifindex, flow_state, frag_state, run>>
    PROVE  T!Destroy(v)
<1>1. TypeOK /\ veth \in [Ifindex -> Vpce \cup {None}] /\ v # None /\ dirty \subseteq Ifindex
  BY NoneAssumption DEF TunnelInv, IInv, TypeOK
<1>2. \A k \in Ifindex : veth[k] = v <=> k = i
  BY <1>1 DEF TunnelInv, VethUnique
<1>3. /\ \A k \in Ifindex : veth'[k] # v
      /\ \A w \in Vpce \ {v}, k \in Ifindex : veth'[k] = w <=> veth[k] = w
  BY <1>1, <1>2, NoneAssumption
<1>4. TunnelOf[v] = "shut" /\ TunnelOf' = [TunnelOf EXCEPT ![v] = "none"]
  <2>1. TunnelOf[v] = "shut" /\ TunnelOf'[v] = "none"
    BY <1>1, <1>3 DEF TunnelOf
  <2>2. \A w \in Vpce \ {v} : TunnelOf'[w] = TunnelOf[w]
    BY <1>3 DEF TunnelOf
  <2>3. /\ TunnelOf = [w \in Vpce |-> TunnelOf[w]]
        /\ TunnelOf' = [w \in Vpce |-> TunnelOf'[w]]
    BY DEF TunnelOf
  <2> QED BY <2>1, <2>2, <2>3
<1>5. SuspectOf' = SuspectOf \ {v}
  <2>1. v \notin SuspectOf'
    BY <1>1, <1>3 DEF SuspectOf
  <2>2. ASSUME NEW w \in Vpce \ {v} PROVE w \in SuspectOf' <=> w \in SuspectOf
    BY <1>1, <1>2, <1>3, <2>2 DEF SuspectOf
  <2> QED BY <2>1, <2>2 DEF SuspectOf
<1>6. CachedOf' = [CachedOf EXCEPT ![v] = {}]
  <2>1. \A e \in {"flow", "frag"} \X Tuple : MapOf(e[1])' = MapOf(e[1])
    BY DEF MapOf
  <2>2. CachedOf'[v] = {}
    BY <1>3 DEF CachedOf
  <2>3. \A w \in Vpce \ {v} : CachedOf'[w] = CachedOf[w]
    BY <1>3, <2>1, CachedByVeths
  <2> QED BY <2>2, <2>3 DEF CachedOf
<1>7. PacketOf' = [c \in Cpu |-> IF PacketOf[c].at = v THEN Nothing ELSE PacketOf[c]]
  <2> SUFFICES ASSUME NEW c \in Cpu
               PROVE  PacketOf'[c] = IF PacketOf[c].at = v THEN Nothing ELSE PacketOf[c]
    BY DEF PacketOf
  <2>1. InFlight' = InFlight /\ run' = run
    BY DEF InFlight
  <2>2. CASE c \notin InFlight
    BY <1>1, <2>1, <2>2 DEF PacketOf, Nothing
  <2>3. CASE c \in InFlight
    <3>1. run[c].ifindex \in Ifindex
      BY <1>1, <2>3 DEF TunnelInv, IInv, RunsOK, TypeOK, RunType, InFlight
    <3>2. CASE run[c].ifindex = i
      BY <1>1, <2>1, <2>3, <3>2 DEF PacketOf, Nothing
    <3>3. CASE run[c].ifindex # i
      <4>1. veth'[run[c].ifindex] = veth[run[c].ifindex] /\ veth[run[c].ifindex] # v
        BY <1>1, <1>2, <3>1, <3>3
      <4> QED BY <1>1, <2>1, <2>3, <4>1 DEF PacketOf, Nothing
    <3> QED BY <3>2, <3>3
  <2> QED BY <2>2, <2>3
<1> QED BY <1>4, <1>5, <1>6, <1>7 DEF T!Destroy, T!NoPacket, Nothing

\* A sweep makes a tunnel that is still there forget, and is not seen otherwise.
LEMMA SweepForgets ==
    ASSUME TunnelInv, NEW i \in Ifindex, NEW failed, Sweep(i, failed),
           UNCHANGED <<veth, vpce_to_ifindex, run>>
    PROVE  T!Forget
<1>1. flow_state \in [Key -> Vpce \cup {None}] /\ frag_state \in [Key -> Vpce \cup {None}]
  BY DEF TunnelInv, IInv, TypeOK
<1>2. \A k \in Key : /\ flow_state'[k] \in {flow_state[k], None}
                     /\ frag_state'[k] \in {frag_state[k], None}
  BY <1>1 DEF Sweep, WithoutIfindex
<1>3. UNCHANGED <<TunnelOf, PacketOf>>
  BY DEF TunnelOf, PacketOf, InFlight
<1>4. UNCHANGED SuspectOf
  BY NoneAssumption DEF SuspectOf, Sweep
<1>5. \A v \in Vpce : CachedOf'[v] \subseteq CachedOf[v]
  BY <1>2 DEF CachedOf, MapOf, Key
<1>6. CachedOf' \in [Vpce -> SUBSET T!Entry]
  BY DEF CachedOf, T!Entry
<1> QED BY <1>3, <1>4, <1>5, <1>6 DEF T!Forget

\* teardown's last step shuts and empties every tunnel.
LEMMA UnpinResets ==
    ASSUME TunnelInv, NEW p \in Proc, TeardownUnpin(p)
    PROVE  T!Next \/ UNCHANGED T!vars
<1>1. CASE UNCHANGED <<pinVars, attached, vpce_to_ifindex, mapVars, run, dirty>>
  BY <1>1, SameTunnels DEF TeardownUnpin, tunnelVars, mapVars
<1>2. CASE /\ vpce_to_ifindex' = [v \in Vpce |-> None]
           /\ flow_state' = NoEntries /\ frag_state' = NoEntries
           /\ run' = [c \in Cpu |-> IF c \in InFlight THEN [NoRun EXCEPT !.st = "stray"] ELSE run[c]]
           /\ dirty' = {}
  <2>1. TypeOK /\ UNCHANGED veth
    BY DEF TunnelInv, IInv, TeardownUnpin
  <2>2. TunnelOf' = [v \in Vpce |-> IF TunnelOf[v] = "none" THEN "none" ELSE "shut"]
    BY <1>2, <2>1 DEF TunnelOf, TunnelInv, IInv, DevicesOK, TypeOK
  <2>3. SuspectOf' = {}
    BY <1>2 DEF SuspectOf
  <2>4. CachedOf' = [v \in Vpce |-> {}]
    BY <1>2 DEF CachedOf, MapOf, NoEntries, Key
  <2>5. PacketOf' = [c \in Cpu |-> Nothing]
    BY <1>2, <2>1 DEF PacketOf, InFlight, NoRun
  <2> QED BY <2>2, <2>3, <2>4, <2>5 DEF T!Reset, T!NoPacket, Nothing, T!Next
<1> QED BY <1>1, <1>2 DEF TeardownUnpin

\* Every step of a command.
LEMMA CommandStep ==
    ASSUME TunnelInv, NEW p \in Proc, JobStep(p) \/ Begin(p) \/ Crash(p)
    PROVE  T!Next \/ UNCHANGED T!vars
<1>0. TypeOK /\ veth \in [Ifindex -> Vpce \cup {None}]
  BY DEF TunnelInv, IInv, TypeOK
<1>1. CASE AddVeth(p)
  BY <1>1, AddVethMakes
<1>2. CASE AddInsert(p)
  <2>1. /\ job[p].vpce \in Vpce /\ job[p].idx \in Ifindex /\ veth[job[p].idx] = job[p].vpce
        /\ vpce_to_ifindex[job[p].vpce] = None /\ UNCHANGED <<veth, flow_state, frag_state, run, dirty>>
    BY <1>2, AtStep
       DEF TunnelInv, AddInsert, At, JobOK, JobType, VpcePC, FreshPC, IdxPC, VethPC, devVars, mapVars
  <2>2. CASE UNCHANGED vpce_to_ifindex
    BY <2>1, <2>2, SameTunnels DEF tunnelVars
  <2>3. CASE vpce_to_ifindex' = [vpce_to_ifindex EXCEPT ![job[p].vpce] = job[p].idx]
    BY <2>1, <2>3, EntryOpens DEF T!Next
  <2> QED BY <1>2, <2>2, <2>3 DEF AddInsert
<1>3. CASE UndoEntry(p) \/ RemoveEntry(p)
  <2>1. job[p].vpce \in Vpce /\ UNCHANGED <<veth, flow_state, frag_state, run, dirty>>
    BY <1>3, AtStep DEF TunnelInv, UndoEntry, RemoveEntry, At, JobOK, JobType, VpcePC, devVars, mapVars
  <2>2. CASE UNCHANGED vpce_to_ifindex
    BY <2>1, <2>2, SameTunnels DEF tunnelVars
  <2>3. CASE vpce_to_ifindex' = [vpce_to_ifindex EXCEPT ![job[p].vpce] = None]
    BY <2>1, <2>3, EntryShuts
  <2> QED BY <1>3, <2>2, <2>3 DEF UndoEntry, RemoveEntry, EntryDeleted
<1>4. CASE UndoVeth(p) \/ RemoveVeth(p)
  <2>1. /\ job[p].vpce \in Vpce /\ job[p].idx \in Ifindex /\ veth[job[p].idx] = job[p].vpce
        /\ vpce_to_ifindex[job[p].vpce] = None
        /\ UNCHANGED <<vpce_to_ifindex, flow_state, frag_state, run>>
    BY <1>4, AtStep
       DEF TunnelInv, UndoVeth, RemoveVeth, At, JobOK, JobType, VpcePC, UndoPC, UnwirePC, IdxPC, VethPC,
           mapVars
  <2>2. CASE UNCHANGED <<veth, dirty>>
    BY <2>1, <2>2, SameTunnels DEF tunnelVars
  <2>3. CASE LinkDel(job[p].idx) /\ dirty' \in {dirty, dirty \cup {job[p].idx}}
    BY <2>1, <2>3, LinkDelDestroys DEF T!Next, LinkDel
  <2> QED BY <1>4, <2>2, <2>3 DEF UndoVeth, RemoveVeth
<1>5. CASE UndoSweep(p) \/ RemoveSweep(p)
  <2>1. /\ job[p].idx \in Ifindex /\ UNCHANGED <<veth, vpce_to_ifindex, run>>
    BY <1>5, AtStep DEF TunnelInv, UndoSweep, RemoveSweep, At, JobOK, JobType, IdxPC, devVars
  <2>2. CASE UNCHANGED <<mapVars, dirty>>
    BY <2>1, <2>2, SameTunnels DEF tunnelVars, mapVars
  <2>3. ASSUME NEW failed, Sweep(job[p].idx, failed) PROVE T!Forget
    BY <2>1, <2>3, SweepForgets
  <2> QED BY <1>5, <2>2, <2>3 DEF UndoSweep, RemoveSweep, T!Next
<1>6. CASE TeardownUnpin(p)
  BY <1>6, UnpinResets
<1>7. CASE ~(\/ AddVeth(p) \/ AddInsert(p) \/ UndoEntry(p) \/ RemoveEntry(p) \/ UndoVeth(p)
             \/ RemoveVeth(p) \/ UndoSweep(p) \/ RemoveSweep(p) \/ TeardownUnpin(p))
  BY <1>7, UnseenSteps DEF JobStep
<1> QED BY <1>1, <1>2, <1>3, <1>4, <1>5, <1>6, <1>7

-----------------------------------------------------------------------------
(* The XDP runs.                                                           *)

\* A packet comes in by its tunnel's entry, a reply by its tunnel's veth.
LEMMA ReceiveSteps ==
    ASSUME TunnelInv, NEW c \in Cpu, Receive(c)
    PROVE  T!Next
<1>0. /\ TypeOK /\ UNCHANGED <<veth, vpce_to_ifindex, dirty, flow_state, frag_state>>
      /\ veth \in [Ifindex -> Vpce \cup {None}] /\ run[c] = NoRun
      /\ UNCHANGED <<TunnelOf, SuspectOf, CachedOf>>
  <2>1. UNCHANGED <<veth, vpce_to_ifindex, dirty, flow_state, frag_state>> /\ run[c] = NoRun
    BY DEF Receive, DecapReceive, EncapReceive, xdpUnchanged, mapVars
  <2> QED BY <2>1, SameDevices DEF TunnelInv, IInv, TypeOK, CachedOf, MapOf
<1>1. PacketOf[c] = T!NoPacket
  BY <1>0 DEF PacketOf, InFlight, NoRun, Nothing, T!NoPacket
<1>2. ASSUME NEW t \in Tuple, NEW v \in Vpce, DecapReceive(c, v, t)
      PROVE  T!Receive(c, v, t)
  <2>1. TunnelOf[v] = "open" /\ veth[vpce_to_ifindex[v]] = v /\ v # None
    BY <1>2, NoneAssumption DEF DecapReceive, TunnelOf, TunnelInv, IInv, DevicesOK
  <2> DEFINE r == [st |-> "publish", ifindex |-> vpce_to_ifindex[v], tuple |-> t, vpce |-> v, hdr |-> v]
  <2>2. run' = [run EXCEPT ![c] = r]
    BY <1>2 DEF DecapReceive
  <2>3. PacketOf' = [PacketOf EXCEPT ![c] = PacketSeen(r)]
    BY <1>0, <2>2, OneRun
  <2>4. PacketSeen(r) = [dir |-> "in", of |-> v, at |-> v, tuple |-> t, hdr |-> v]
    BY <2>1 DEF PacketSeen
  <2> QED BY <1>0, <1>1, <2>1, <2>3, <2>4 DEF T!Receive
<1>3. ASSUME NEW t \in Tuple, NEW i \in Ifindex, EncapReceive(c, i, t)
      PROVE  veth[i] \in Vpce /\ T!Reply(c, veth[i], t)
  <2>1. veth[i] \in Vpce /\ veth[i] # None /\ TunnelOf[veth[i]] # "none"
    BY <1>0, <1>3 DEF EncapReceive, TunnelOf, TunnelInv, IInv, DevicesOK
  <2> DEFINE r == [st |-> "lookup", ifindex |-> i, tuple |-> t, vpce |-> veth[i], hdr |-> None]
  <2>2. run' = [run EXCEPT ![c] = r]
    BY <1>3 DEF EncapReceive
  <2>3. PacketOf' = [PacketOf EXCEPT ![c] = PacketSeen(r)]
    BY <1>0, <2>2, OneRun
  <2>4. PacketSeen(r) = [dir |-> "out", of |-> veth[i], at |-> veth[i], tuple |-> t, hdr |-> None]
    BY <2>1 DEF PacketSeen
  <2> QED BY <1>0, <1>1, <2>1, <2>3, <2>4 DEF T!Reply
<1> QED BY <1>2, <1>3 DEF Receive, T!Next

\* What an LRU update adds to the tunnels' caches.
LEMMA UpdateCaches ==
    ASSUME TunnelInv, UNCHANGED veth, NEW i \in Ifindex, NEW t \in Tuple, NEW h, NEW victim,
           NEW kind \in {"flow", "frag"},
           kind = "flow" => flow_state' = LruUpdate(flow_state, <<i, t>>, h, victim) /\ UNCHANGED frag_state,
           kind = "frag" => frag_state' = LruUpdate(frag_state, <<i, t>>, h, victim) /\ UNCHANGED flow_state
    PROVE  /\ CachedOf' \in [Vpce -> SUBSET T!Entry]
           /\ \A w \in Vpce :
                 CachedOf'[w] \subseteq CachedOf[w] \cup (IF w = veth[i] THEN {<<kind, t>>} ELSE {})
<1>1. CachedOf' \in [Vpce -> SUBSET T!Entry]
  BY DEF CachedOf, T!Entry
<1>2. ASSUME NEW w \in Vpce, NEW e \in CachedOf'[w], e \notin CachedOf[w]
      PROVE  w = veth[i] /\ e = <<kind, t>>
  <2>1. e \in {"flow", "frag"} \X Tuple
    BY <1>2 DEF CachedOf
  <2>2. PICK k \in Ifindex : veth[k] = w /\ MapOf(e[1])'[<<k, e[2]>>] # None
    BY <1>2 DEF CachedOf
  <2>3. MapOf(e[1])[<<k, e[2]>>] = None
    BY <1>2, <2>1, <2>2 DEF CachedOf
  <2>4. e[1] = kind /\ <<k, e[2]>> = <<i, t>>
    <3>1. e[1] \in {"flow", "frag"} /\ <<k, e[2]>> \in Key
      BY <2>1 DEF Key
    <3>2. CASE kind = "flow"
      BY <2>2, <2>3, <3>1, <3>2 DEF MapOf, LruUpdate
    <3>3. CASE kind = "frag"
      BY <2>2, <2>3, <3>1, <3>3 DEF MapOf, LruUpdate
    <3> QED BY <3>2, <3>3
  <2> QED BY <2>1, <2>2, <2>4
<1> QED BY <1>1, <1>2

\* A run goes on: its packet learns, or is recorded, or nobody has its tunnel.
LEMMA UpdateSteps ==
    ASSUME TunnelInv, NEW c \in Cpu, DecapPublish(c) \/ EncapRecord(c)
    PROVE  T!Next
<1>0. /\ TypeOK /\ UNCHANGED <<veth, vpce_to_ifindex, dirty>> /\ c \in InFlight
      /\ run[c].ifindex \in Ifindex /\ run[c].tuple \in Tuple
      /\ veth \in [Ifindex -> Vpce \cup {None}]
      /\ UNCHANGED <<TunnelOf, SuspectOf>> /\ run \in [Cpu -> RunType]
  <2>1. UNCHANGED <<veth, vpce_to_ifindex, dirty>> /\ c \in InFlight
    BY DEF DecapPublish, EncapRecord, xdpUnchanged, InFlight
  <2> QED BY <2>1, SameDevices DEF TunnelInv, IInv, RunsOK, TypeOK, RunType
<1> DEFINE v == veth[run[c].ifindex]
           t == run[c].tuple
<1>1. UNCHANGED PacketOf
  BY <1>0 DEF DecapPublish, EncapRecord, PacketOf, InFlight, RunType
<1>2. ASSUME NEW kind \in {"flow", "frag"}, CachedOf' \in [Vpce -> SUBSET T!Entry],
             \A w \in Vpce :
                 CachedOf'[w] \subseteq CachedOf[w] \cup (IF w = v THEN {<<kind, t>>} ELSE {}),
             kind = "flow" <=> run[c].st = "publish",
             kind = "frag" <=> run[c].st = "record"
      PROVE  T!Next
  <2>1. CASE v = None
    <3>1. \A w \in Vpce : w # v
      BY <2>1, NoneAssumption
    <3> QED BY <1>0, <1>1, <1>2, <3>1 DEF T!Forget, T!Next
  <2>2. CASE v # None
    <3>1. /\ PacketOf[c].at = v /\ PacketOf[c].tuple = t
          /\ PacketOf[c].dir = IF kind = "flow" THEN "in" ELSE "out"
      BY <1>0, <1>2, <2>2 DEF PacketOf
    <3> QED BY <1>0, <1>1, <1>2, <3>1 DEF T!Learn, T!Record, T!CachedAtMost, T!Next
  <2> QED BY <2>1, <2>2
<1>3. CASE DecapPublish(c)
  <2>1. PICK victim \in Key \cup {None} :
          flow_state' = LruUpdate(flow_state, <<run[c].ifindex, t>>, run[c].hdr, victim)
    BY <1>3 DEF DecapPublish
  <2> QED BY <1>0, <1>2, <1>3, <2>1, UpdateCaches DEF DecapPublish
<1>4. CASE EncapRecord(c)
  <2>1. PICK victim \in Key \cup {None} :
          frag_state' = LruUpdate(frag_state, <<run[c].ifindex, t>>, run[c].hdr, victim)
    BY <1>4 DEF EncapRecord
  <2> QED BY <1>0, <1>2, <1>4, <2>1, UpdateCaches DEF EncapRecord
<1> QED BY <1>3, <1>4

\* A reply finds a header its own tunnel has cached.
LEMMA LookupSteps ==
    ASSUME TunnelInv, NEW c \in Cpu,
           EncapLookupFrag(c) \/ \E first \in BOOLEAN : EncapLookupFlow(c, first)
    PROVE  T!Next \/ UNCHANGED T!vars
<1>0. /\ TypeOK /\ UNCHANGED <<veth, vpce_to_ifindex, dirty, flow_state, frag_state>>
      /\ c \in InFlight /\ run[c].st = "lookup" /\ run[c].hdr = None
      /\ run[c].ifindex \in Ifindex /\ run[c].tuple \in Tuple
      /\ veth \in [Ifindex -> Vpce \cup {None}] /\ run \in [Cpu -> RunType]
      /\ UNCHANGED <<TunnelOf, SuspectOf, CachedOf>>
  <2>1. UNCHANGED <<veth, vpce_to_ifindex, dirty, flow_state, frag_state>> /\ run[c].st = "lookup"
    BY DEF EncapLookupFrag, EncapLookupFlow, xdpUnchanged, mapVars
  <2> QED BY <2>1, SameDevices DEF TunnelInv, IInv, RunsOK, TypeOK, RunType, CachedOf, MapOf,
                                   NoHeaderYet, InFlight
<1> DEFINE i == run[c].ifindex
           t == run[c].tuple
           v == veth[i]
<1>1. PICK kind \in {"flow", "frag"}, st \in {"record", "send"} :
        run' = [run EXCEPT ![c] = [run[c] EXCEPT !.hdr = MapOf(kind)[<<i, t>>], !.st = st]]
  <2>1. CASE EncapLookupFrag(c)
    <3>1. run' = [run EXCEPT ![c] = [run[c] EXCEPT !.hdr = frag_state[<<i, t>>], !.st = "send"]]
      BY <1>0, <2>1 DEF EncapLookupFrag
    <3> QED BY <3>1 DEF MapOf
  <2>2. ASSUME NEW first \in BOOLEAN, EncapLookupFlow(c, first)
        PROVE  \E st \in {"record", "send"} :
                 run' = [run EXCEPT ![c] = [run[c] EXCEPT !.hdr = flow_state[<<i, t>>], !.st = st]]
    <3> DEFINE st == IF first /\ flow_state[<<i, t>>] # None THEN "record" ELSE "send"
    <3>1. run' = [run EXCEPT ![c] = [run[c] EXCEPT !.hdr = flow_state[<<i, t>>], !.st = st]]
      BY <1>0, <2>2 DEF EncapLookupFlow
    <3> QED BY <3>1
  <2> QED BY <2>1, <2>2 DEF MapOf
<1> DEFINE h == MapOf(kind)[<<i, t>>]
           r == [run[c] EXCEPT !.hdr = h, !.st = st]
<1>2. PacketOf' = [PacketOf EXCEPT ![c] = PacketSeen(r)]
  BY <1>0, <1>1, OneRun
<1>3. /\ r.st = st /\ r.hdr = h /\ r.ifindex = i /\ r.tuple = t /\ r.vpce = run[c].vpce
  BY <1>0 DEF RunType
<1>4. h \in Vpce \cup {None}
  BY <1>0 DEF MapOf, Key, TypeOK
<1>5. CASE v = None
  <2>1. PacketSeen(r) = PacketOf[c]
    BY <1>0, <1>3, <1>5 DEF PacketSeen, PacketOf
  <2>2. PacketOf' = PacketOf
    BY <1>2, <2>1 DEF PacketOf
  <2> QED BY <1>0, <2>2 DEF T!vars
<1>6. CASE v # None
  <2>1. /\ PacketOf[c] = [dir |-> "out", of |-> run[c].vpce, at |-> v, tuple |-> t, hdr |-> None]
        /\ PacketSeen(r) = [dir |-> "out", of |-> run[c].vpce, at |-> v, tuple |-> t, hdr |-> h]
    BY <1>0, <1>3, <1>6 DEF PacketOf, PacketSeen
  <2>2. CASE h = None
    <3>1. PacketOf' = PacketOf
      BY <1>2, <2>1, <2>2 DEF PacketOf
    <3> QED BY <1>0, <3>1 DEF T!vars
  <2>3. CASE h # None
    <3>1. <<kind, t>> \in CachedOf[v]
      <4> DEFINE e == <<kind, t>>
      <4>1. e \in {"flow", "frag"} \X Tuple /\ e[1] = kind /\ e[2] = t
        BY <1>0
      <4>2. veth[i] = v /\ MapOf(e[1])[<<i, e[2]>>] # None
        BY <2>3, <4>1
      <4> QED BY <1>0, <1>6, <4>1, <4>2 DEF CachedOf
    <3>2. v \notin SuspectOf => h = run[c].vpce
      <4>1. run[c].vpce = v
        BY <1>0, <1>6 DEF TunnelInv, IInv, RunsOK
      <4>2. v \notin SuspectOf => i \notin dirty
        BY <1>0, <1>6 DEF SuspectOf
      <4>3. i \notin dirty => h = v
        BY <1>0, <1>6, <2>3 DEF TunnelInv, IInv, EntriesBelongToOwner, Mine, MapOf
      <4> QED BY <4>1, <4>2, <4>3
    <3>3. PacketOf' = [PacketOf EXCEPT ![c].hdr = h]
      <4>1. [PacketOf[c] EXCEPT !.hdr = h] = PacketSeen(r)
        BY <2>1
      <4> QED BY <1>2, <4>1
    <3>4. h \in Vpce /\ {<<"flow", t>>, <<"frag", t>>} \cap CachedOf[v] # {}
      BY <1>4, <2>3, <3>1
    <3>5. T!Find(c)
      <4>1. /\ PacketOf[c].dir = "out" /\ PacketOf[c].at = v /\ PacketOf[c].tuple = t
            /\ PacketOf[c].of = run[c].vpce
        BY <2>1
      <4>2. \E g \in Vpce : /\ v \notin SuspectOf => g = PacketOf[c].of
                            /\ PacketOf' = [PacketOf EXCEPT ![c].hdr = g]
        BY <3>2, <3>3, <3>4, <4>1
      <4> QED BY <1>0, <3>4, <4>1, <4>2 DEF T!Find
    <3> QED BY <3>5 DEF T!Next
  <2> QED BY <2>2, <2>3
<1> QED BY <1>5, <1>6

\* The rest: a packet is passed on unseen, or leaves.
LEMMA OtherRunSteps ==
    ASSUME TunnelInv, NEW c \in Cpu,
           DecapSkipCache(c) \/ DecapDeliver(c) \/ EncapSend(c) \/ StrayLeave(c)
    PROVE  T!Next \/ UNCHANGED T!vars
<1>0. /\ TypeOK /\ UNCHANGED <<veth, vpce_to_ifindex, dirty, flow_state, frag_state>>
      /\ run \in [Cpu -> RunType] /\ UNCHANGED <<TunnelOf, SuspectOf, CachedOf>>
  <2>1. UNCHANGED <<veth, vpce_to_ifindex, dirty, flow_state, frag_state>>
    BY DEF DecapSkipCache, DecapDeliver, EncapSend, StrayLeave, xdpUnchanged, mapVars
  <2> QED BY <2>1, SameDevices DEF TunnelInv, IInv, TypeOK, CachedOf, MapOf
<1>1. CASE DecapSkipCache(c)
  <2>1. UNCHANGED PacketOf
    BY <1>0, <1>1 DEF DecapSkipCache, PacketOf, InFlight, RunType
  <2> QED BY <1>0, <2>1 DEF T!vars
<1>2. CASE Leave(c)
  <2>1. PacketOf' = [PacketOf EXCEPT ![c] = T!NoPacket]
    <3>1. PacketSeen(NoRun) = T!NoPacket
      BY DEF PacketSeen, NoRun, Nothing, T!NoPacket
    <3>2. run' = [run EXCEPT ![c] = NoRun]
      BY <1>2 DEF Leave
    <3> QED BY <1>0, <3>1, <3>2, OneRun
  <2>2. CASE PacketOf[c] = T!NoPacket
    <3>1. PacketOf' = PacketOf
      BY <2>1, <2>2 DEF PacketOf
    <3> QED BY <1>0, <3>1 DEF T!vars
  <2>3. CASE PacketOf[c] # T!NoPacket
    BY <1>0, <2>1, <2>3 DEF T!Leave, T!Next
  <2> QED BY <2>2, <2>3
<1> QED BY <1>1, <1>2 DEF DecapDeliver, EncapSend, StrayLeave

-----------------------------------------------------------------------------
(* The refinement.                                                         *)

LEMMA InitTunnels == Init => T!Init
<1> SUFFICES ASSUME Init PROVE T!Init
  OBVIOUS
<1>1. TunnelOf = [v \in Vpce |-> "none"]
  <2>1. \A v \in Vpce : vpce_to_ifindex[v] = None /\ ~\E i \in Ifindex : veth[i] = v
    BY NoneAssumption DEF Init
  <2> QED BY <2>1 DEF TunnelOf
<1>2. SuspectOf = {}
  BY DEF Init, SuspectOf
<1>3. CachedOf = [v \in Vpce |-> {}]
  <2>1. \A v \in Vpce, i \in Ifindex : veth[i] # v
    BY NoneAssumption DEF Init
  <2> QED BY <2>1 DEF CachedOf
<1>4. PacketOf = [c \in Cpu |-> Nothing]
  BY DEF Init, PacketOf, InFlight, NoRun
<1> QED BY <1>1, <1>2, <1>3, <1>4 DEF T!Init, T!NoPacket, Nothing

\* Every step of the host is one of the tunnels, or a stutter.
LEMMA NextTunnels ==
    ASSUME TunnelInv, [Next]_vars
    PROVE  [T!Next]_T!vars
<1>1. CASE UNCHANGED vars
  BY <1>1, SameTunnels DEF vars, tunnelVars
<1>2. ASSUME NEW c \in Cpu, Receive(c) \/ RunStep(c)
      PROVE  T!Next \/ UNCHANGED T!vars
  BY <1>2, ReceiveSteps, UpdateSteps, LookupSteps, OtherRunSteps DEF RunStep
<1> QED BY <1>1, <1>2, CommandStep DEF Next

\* Each endpoint has a tunnel of its own, though they share maps and ifindexes, and
\* though commands fail or are killed (the whole of bpf/ and cmd/).
THEOREM Implementation == Spec => ImplementsTunnels
BY TunnelInvariance, InitTunnels, NextTunnels, PTL DEF Spec, ImplementsTunnels, T!Spec

=============================================================================
