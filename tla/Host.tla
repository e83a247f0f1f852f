-------------------------------- MODULE Host --------------------------------
(***************************************************************************)
(* The state of one gwlb-xdp host: the root network namespace's veths, the *)
(* named network namespaces, the BPF maps and links pinned under           *)
(* /sys/fs/bpf/gwlb-xdp, the XDP program runs in flight on each CPU, and   *)
(* the gwlb-xdp commands that are running.  Xdp.tla has the actions of the *)
(* two XDP programs, Cli.tla those of the commands; Gwlb.tla composes them.*)
(*                                                                         *)
(* A packet's outer GENEVE header is abstracted to the VPC endpoint it     *)
(* carries, and an inner flow (or a fragmented datagram) to a Tuple: what  *)
(* keeps endpoints apart is the ifindex half of a key, modelled exactly.   *)
(***************************************************************************)
EXTENDS Naturals, FiniteSets

CONSTANTS
    Proc,          \* gwlb-xdp invocations: setup, add, remove, teardown
    Cpu,           \* CPUs, each running at most one XDP program at a time
    Vpce,          \* VPC endpoint IDs
    Ifindex,       \* ifindexes the kernel gives out, and gives out again
    Tuple,         \* inner flows; the same tuples recur behind every endpoint
    MaxEndpoints,  \* capacity of vpce_to_ifindex (setup --max-endpoints)
    MayFail,       \* whether setting something up may fail in the kernel
    MaxFaults,     \* bound on the commands that are killed, or fail to clean up
    None           \* no endpoint, no ifindex, no map entry, nobody

ASSUME NoneAssumption ==
    None \notin Proc \cup Cpu \cup Vpce \cup Ifindex \cup Tuple
ASSUME BoundAssumption ==
    MayFail \in BOOLEAN /\ MaxFaults \in Nat /\ MaxEndpoints \in Nat

VARIABLES
    \* Commands.
    lock,             \* holder of the flock on /run/gwlb-xdp.lock
    job,              \* what each invocation is doing
    \* Kernel objects.
    veth,             \* outer veth by ifindex: the endpoint it was made for
    netns,            \* named network namespaces, by endpoint
    attached,         \* veths the encap program is attached to
    grace,            \* runs the LinkDel in progress still waits for
    \* Pins under /sys/fs/bpf/gwlb-xdp.
    pinned,           \* maps, decap link, encap program
    encap_pin,        \* link_encap_<ifindex> pins
    \* BPF maps.
    vpce_to_ifindex,
    flow_state,
    frag_state,
    metrics,          \* endpoints whose packets the rows of an ifindex counted
    \* XDP program runs.
    run,
    \* Ghosts, read by properties only.
    found,            \* the host as the running command found it
    faults,           \* commands so far that were killed or failed to clean up
    dirty             \* ifindexes whose veth went without a completed sweep

cmdVars  == <<lock, found, faults>>
devVars  == <<veth, netns, attached, grace>>
pinVars  == <<pinned, encap_pin>>
mapVars  == <<flow_state, frag_state, metrics>>
vars == <<lock, found, faults, job, veth, netns, attached, grace, pinned, encap_pin,
          vpce_to_ifindex, flow_state, frag_state, metrics, run, dirty>>

-----------------------------------------------------------------------------
(* XDP runs.  "none": the CPU is not in a program.  decap goes publish,    *)
(* deliver; encap goes lookup, record, send.  "stray" is a run that still  *)
(* uses maps teardown has unpinned since.                                  *)

NoRun == [st |-> "none", ifindex |-> None, tuple |-> None, vpce |-> None,
          hdr |-> None]

RunState == {"none", "publish", "deliver", "lookup", "record", "send", "stray"}

RunType == [st : RunState, ifindex : Ifindex \cup {None},
            tuple : Tuple \cup {None}, vpce : Vpce \cup {None},
            hdr : Vpce \cup {None}]

\* Runs that may still write a map entry under the ifindex they carry.
InFlight == {c \in Cpu : run[c].st \notin {"none", "stray"}}

-----------------------------------------------------------------------------
(* Commands.  Two of a job's fields are for properties only: faulty, that  *)
(* a cleanup step could not do its work, and getFailed, that netns.Get did *)
(* fail in CreateNamedNetns.                                               *)

Command == {"setup", "add", "remove", "teardown"}

Idle == [cmd |-> "idle", pc |-> "idle", vpce |-> None, idx |-> None,
         isolated |-> FALSE, createdNetns |-> FALSE, getFailed |-> FALSE,
         inserted |-> FALSE, todo |-> {}, faulty |-> FALSE]

PC == {"idle",
       "load", "attach_decap", "load_encap", "pin_encap",
       "check", "netns", "veth", "configure", "insert", "clear_pin", "attach",
       "undo_entry", "undo_veth", "undo_wait", "undo_sweep", "undo_netns",
       "remove_entry", "detach", "del_veth", "wait", "sweep", "del_netns",
       "list", "next", "detach_decap", "unpin",
       "done", "failed"}

JobType == [cmd : Command \cup {"idle"}, pc : PC, vpce : Vpce \cup {None},
            idx : Ifindex \cup {None}, isolated : BOOLEAN,
            createdNetns : BOOLEAN, getFailed : BOOLEAN, inserted : BOOLEAN,
            todo : SUBSET Vpce, faulty : BOOLEAN]

Pin == {"maps", "decap_link", "encap_prog"}

-----------------------------------------------------------------------------
(* Maps.                                                                   *)

Key == Ifindex \X Tuple
NoEntries == [k \in Key |-> None]
NoMetrics == [i \in Ifindex |-> {}]

\* What is left in the three maps under ifindex i.
Unused(i) ==
    /\ \A t \in Tuple : flow_state[<<i, t>>] = None /\ frag_state[<<i, t>>] = None
    /\ metrics[i] = {}

\* bpf_map_update_elem on an LRU hash: the kernel may evict any other entry.
LruUpdate(m, k, v, victim) ==
    [q \in Key |-> IF q = k THEN v ELSE IF q = victim THEN None ELSE m[q]]

\* increment_metric for a packet of endpoint v, whatever the counter.
Increment(i, v) == metrics' = [metrics EXCEPT ![i] = @ \cup {v}]

Provisioned == {v \in Vpce : vpce_to_ifindex[v] # None}

\* Types, and that only the holder of the lock is doing anything.
TypeOK ==
    /\ lock \in Proc \cup {None}
    /\ job \in [Proc -> JobType]
    /\ \A p \in Proc : p # lock => job[p] = Idle
    /\ veth \in [Ifindex -> Vpce \cup {None}]
    /\ netns \subseteq Vpce
    /\ attached \subseteq Ifindex
    /\ grace \subseteq Cpu
    /\ pinned \subseteq Pin
    /\ encap_pin \subseteq Ifindex
    /\ vpce_to_ifindex \in [Vpce -> Ifindex \cup {None}]
    /\ flow_state \in [Key -> Vpce \cup {None}]
    /\ frag_state \in [Key -> Vpce \cup {None}]
    /\ metrics \in [Ifindex -> SUBSET Vpce]
    /\ run \in [Cpu -> RunType]
    /\ faults \in Nat
    /\ dirty \subseteq Ifindex
=============================================================================
