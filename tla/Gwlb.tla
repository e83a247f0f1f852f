-------------------------------- MODULE Gwlb --------------------------------
(***************************************************************************)
(* A gwlb-xdp host: the commands of Cli.tla, serialised by the flock, and  *)
(* the XDP runs of Xdp.tla, serialised by nothing, over the state of       *)
(* Host.tla; and the properties the two must establish together.           *)
(***************************************************************************)
EXTENDS Xdp, Cli

\* A host before the first setup.  A netns by an endpoint's name may be there
\* already, made by someone else.
Init ==
    /\ lock = None
    /\ job = [p \in Proc |-> Idle]
    /\ found = None
    /\ faults = 0
    /\ veth = [i \in Ifindex |-> None]
    /\ netns \in SUBSET Vpce
    /\ attached = {}
    /\ grace = {}
    /\ pinned = {}
    /\ encap_pin = {}
    /\ vpce_to_ifindex = [v \in Vpce |-> None]
    /\ flow_state = NoEntries
    /\ frag_state = NoEntries
    /\ metrics = NoMetrics
    /\ run = [c \in Cpu |-> NoRun]
    /\ dirty = {}

Next ==
    \/ \E p \in Proc : Begin(p) \/ JobStep(p) \/ Crash(p)
    \/ \E c \in Cpu : Receive(c) \/ RunStep(c)

Spec == Init /\ [][Next]_vars

\* A command keeps running once it has the lock (its --script returns), and the
\* BPF verifier bounds every XDP run.  Nothing makes a command start, or a
\* packet arrive.
Fairness ==
    /\ \A p \in Proc : WF_vars(JobStep(p))
    /\ \A c \in Cpu : WF_vars(RunStep(c))

FairSpec == Spec /\ Fairness

-----------------------------------------------------------------------------
(* Isolation of the endpoints from one another.                            *)

Mine(v) == {None, v}

\* What the maps hold under a live veth's ifindex comes from its own endpoint,
\* though the ifindex had other owners: SweepEndpoint ran after the last write
\* of the previous one (decap.go SweepEndpoint).  Only an ifindex whose last
\* owner went without a completed sweep is exempt.
EntriesBelongToOwner ==
    \A i \in Ifindex \ dirty : veth[i] # None =>
        /\ \A t \in Tuple : /\ flow_state[<<i, t>>] \in Mine(veth[i])
                            /\ frag_state[<<i, t>>] \in Mine(veth[i])
        /\ metrics[i] \subseteq {veth[i]}

\* The same with no exemption: a future endpoint that reuses an ifindex never
\* inherits entries (README, "What remove does", step 4).
NoInheritance ==
    \A i \in Ifindex : veth[i] # None =>
        /\ \A t \in Tuple : /\ flow_state[<<i, t>>] \in Mine(veth[i])
                            /\ frag_state[<<i, t>>] \in Mine(veth[i])
        /\ metrics[i] \subseteq {veth[i]}

\* The ifindex decap looked up and will redirect to is never, by then, the veth
\* of another endpoint (_decap.c: info->ifindex to bpf_redirect).
DeliveredToOwner ==
    \A c \in Cpu : run[c].st \in {"publish", "deliver"} =>
        veth[run[c].ifindex] \in Mine(run[c].vpce)

\* encap replays onto a reply only a header of the endpoint the reply came from
\* (_encap.c: the cache lookup to bpf_redirect).
ReplyCarriesOwnHeader ==
    \A c \in Cpu : run[c].st \in {"record", "send"} /\ run[c].ifindex \notin dirty =>
        run[c].hdr \in Mine(run[c].vpce)

-----------------------------------------------------------------------------
(* What the commands promise.                                              *)

\* All there is of endpoint v outside the flow maps.
Provisioning(v) ==
    <<vpce_to_ifindex[v], v \in netns,
      {i \in Ifindex : veth[i] = v}, {i \in attached : veth[i] = v}>>

\* Only a command working on an endpoint, or teardown removing every pin, changes
\* its provisioning: the ifindex remove or a rollback acts on is never another's
\* by the time it acts (utils.go withStateLock).
OnlyOwnEndpointTouched ==
    [][\A v \in Vpce : Provisioning(v)' # Provisioning(v) =>
          \E p \in Proc : job[p].vpce = v \/ job[p].pc = "unpin"]_vars

\* An add that fails, and none of whose cleanup steps does, leaves the host's veths,
\* netns, map entries and attachments as it found them (RunAdd's deferred rollback).
\* One failure is no clean one: when netns.Get fails, CreateNamedNetns takes a netns by
\* the endpoint's name with it (Netns!ExistingNetnsSpared), and that alone.
FailedAddRestores ==
    \A p \in Proc : job[p].cmd = "add" /\ job[p].pc = "failed" /\ ~job[p].faulty =>
        /\ netns = found.netns \ (IF job[p].getFailed THEN {job[p].vpce} ELSE {})
        /\ veth = found.veth
        /\ attached = found.attached
        /\ vpce_to_ifindex = found.endpoints

\* A remove none of whose steps failed leaves nothing of its endpoint, whatever
\* interrupted command or failed remove came before it: entry, veth, netns, pin,
\* and no map entry under its ifindex, in-flight runs notwithstanding (RunRemove).
RemoveCompletes ==
    \A p \in Proc : job[p].cmd = "remove" /\ job[p].pc = "done" /\ ~job[p].faulty =>
        /\ vpce_to_ifindex[job[p].vpce] = None
        /\ job[p].vpce \notin netns
        /\ \A i \in Ifindex : veth[i] # job[p].vpce
        /\ job[p].idx # None => Unused(job[p].idx) /\ job[p].idx \notin encap_pin

\* A setup of a host that is already set up fails without tearing it down: the
\* rollback is armed only once decap is attached by this setup (RunSetup).
FailedSetupSparesHost ==
    \A p \in Proc : job[p].cmd = "setup" /\ job[p].pc = "failed"
                    /\ "decap_link" \in found.pinned =>
        /\ "decap_link" \in pinned
        /\ vpce_to_ifindex = found.endpoints
        /\ veth = found.veth /\ netns = found.netns /\ attached = found.attached

\* Between commands, an endpoint decap delivers to has its veth, and encap is
\* attached to it: no add leaves it half wired, no remove leaves it half removed.
EndpointsWhole ==
    lock = None => \A v \in Provisioned :
        LET i == vpce_to_ifindex[v] IN veth[i] = v /\ i \in attached \cap encap_pin

\* teardown, none of whose steps failed, fully cleans the host: no endpoint's
\* veth, entry, attachment or pin is left (RunTeardown).
TeardownLeavesNothing ==
    \A p \in Proc : job[p].cmd = "teardown" /\ job[p].pc = "done" /\ ~job[p].faulty =>
        /\ Provisioned = {} /\ attached = {} /\ pinned = {} /\ encap_pin = {}
        /\ \A i \in Ifindex : veth[i] = None /\ Unused(i)

\* setup can be run again on a host that is set up (add.go uplinkVethMTU, README
\* on a changed uplink MTU).
SetupRerunnable ==
    \A p \in Proc : ~(job[p].cmd = "setup" /\ job[p].pc = "failed")

\* Every command gives the lock back: the grace period a LinkDel waits for ends
\* though packets keep arriving.
LockReleased == \A p \in Proc : lock = p ~> lock # p

-----------------------------------------------------------------------------
(* Why the endpoints stay apart: an inductive invariant.                   *)

WaitPC  == {"wait", "undo_wait"}
FreshPC == {"netns", "veth", "configure", "insert"}
UndoPC  == {"undo_veth", "undo_wait", "undo_sweep", "undo_netns"}
UnwirePC == {"detach", "del_veth"}
EncapPC == {"clear_pin", "attach"}
VpcePC  == FreshPC \cup EncapPC \cup UndoPC \cup UnwirePC
           \cup {"check", "undo_entry", "remove_entry", "wait", "sweep", "del_netns"}
VethPC  == {"configure", "insert", "undo_veth"} \cup EncapPC \cup UnwirePC
InsertedPC == {"undo_entry", "done", "failed"} \cup EncapPC \cup UndoPC
IdxPC   == VethPC \cup {"undo_wait", "undo_sweep", "wait", "sweep"}

\* No run is using ifindex i, and nothing can start one.
Untouched(i) ==
    /\ i \notin attached
    /\ \A c \in InFlight : run[c].ifindex # i
    /\ i \notin dirty => Unused(i)

\* When add comes to attach encap, no pin of an earlier owner of the ifindex is in the
\* way, whatever failed or was killed before (encap.go Attach).
NoPinInTheWay(p) == job[p].pc = "attach" => job[p].idx \notin encap_pin

\* What a command knows of the endpoint and the veth it is working on.
JobOK(p) ==
    LET j == job[p] IN
    /\ j.pc \in VpcePC => j.vpce # None
    /\ j.pc \in IdxPC => j.idx # None
    /\ j.inserted => j.idx # None /\ j.pc \in InsertedPC
    /\ j.pc \in EncapPC => j.inserted
    /\ NoPinInTheWay(p)
    /\ j.pc \in {"check", "netns", "veth"} => j.idx = None
    /\ j.pc \in FreshPC \cup UndoPC \cup UnwirePC => vpce_to_ifindex[j.vpce] = None
    /\ j.pc = "undo_entry" /\ ~j.inserted => vpce_to_ifindex[j.vpce] = None
    /\ j.pc \in VethPC => veth[j.idx] = j.vpce
    /\ j.pc = "undo_entry" /\ j.idx # None => veth[j.idx] = j.vpce
    /\ j.pc \in {"configure", "insert", "undo_veth", "undo_entry"} /\ ~j.inserted
         /\ j.idx # None => Untouched(j.idx)

JobsOK == \A p \in Proc : JobOK(p)

\* Entries and attachments are of live veths only; a grace period runs only while
\* the holder of the lock waits for it.
DevicesOK ==
    /\ \A v \in Vpce : vpce_to_ifindex[v] # None => veth[vpce_to_ifindex[v]] = v
    /\ \A i \in attached : veth[i] # None
    /\ grace # {} => lock # None /\ job[lock].pc \in WaitPC

\* A run in flight is on its own endpoint's veth, or on one that is gone, not
\* swept yet, and whose deletion still waits for the run.
RunsOK ==
    \A c \in InFlight : LET r == run[c] IN
        /\ r.ifindex # None /\ r.tuple # None /\ r.vpce # None
        /\ \/ veth[r.ifindex] = r.vpce
           \/ veth[r.ifindex] = None /\ c \in grace /\ r.ifindex \in dirty
        /\ r.st \in {"publish", "deliver"} => r.hdr = r.vpce

\* Under an ifindex in no use, nothing is left, unless it is dirty.
EntriesOK == \A i \in Ifindex \ dirty : veth[i] = None => Unused(i)

IInv == /\ TypeOK /\ JobsOK /\ DevicesOK /\ RunsOK /\ EntriesOK
        /\ EntriesBelongToOwner /\ ReplyCarriesOwnHeader
=============================================================================
