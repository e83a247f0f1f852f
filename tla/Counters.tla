------------------------------ MODULE Counters ------------------------------
(***************************************************************************)
(* The pinned metrics map: packets counted on several CPUs into rows keyed *)
(* by ifindex, rows created on the way, and swept when their endpoint is   *)
(* removed.  One counter stands for the map's twenty: rows of different    *)
(* counters never meet.  Serve.tla samples the map meanwhile.              *)
(***************************************************************************)
EXTENDS Naturals, FiniteSets, Functions

CONSTANTS
    Cpu,
    Ifindex,       \* numbers: the order of their rows in the hash map
    Uplink,        \* the ifindex decap is attached to
    Vpce,
    MaxEndpoints,  \* capacity of vpce_to_ifindex
    Capacity,      \* capacity of metrics, in rows of the one counter
    MaxCount,      \* bound on the packets counted
    MaxChanges,    \* bound on adds, removes and missed sweeps
    None

ASSUME CountersAssumption ==
    /\ IsFiniteSet(Cpu)
    /\ Ifindex \subseteq Nat /\ IsFiniteSet(Ifindex) /\ Uplink \in Ifindex
    /\ "uplink" \notin Vpce
    /\ MaxEndpoints \in Nat /\ Capacity \in Nat
    /\ None \notin Ifindex \cup Vpce \cup Nat \cup {"uplink"}
    /\ None \notin [Cpu -> Nat]

VARIABLES
    iface,      \* the interface that has an ifindex: the uplink, a veth, or none
    rows,       \* the metrics map: per-CPU values by ifindex
    run,        \* increment_metric in progress, by CPU
    removing,   \* an ifindex whose veth is deleted and whose row is not swept yet
    changes,
    \* Ghosts.
    counted,    \* packets counted, by interface
    since,      \* packets counted under an ifindex since its last sweep
    uncounted,  \* packets that found no row
    missed      \* whether a sweep was missed

counterVars == <<iface, rows, run, removing, changes, counted, since, uncounted, missed>>

Name == Vpce \cup {"uplink"}
Zeros == [c \in Cpu |-> 0]
NoRows == [i \in Ifindex |-> None]
NoRun == [st |-> "none", ifindex |-> None]

Live == {i \in Ifindex \ {Uplink} : iface[i] # None}
Rows(m) == {i \in Ifindex : m[i] # None}

\* A row's value summed across CPUs.
Total(m, i) == IF m[i] = None THEN 0 ELSE SumFunction(m[i])

CountersInit ==
    /\ iface \in [Ifindex -> Vpce \cup {"uplink", None}]
    /\ \A i \in Ifindex : iface[i] = "uplink" <=> i = Uplink
    /\ \A i, j \in Live : iface[i] = iface[j] => i = j
    /\ Cardinality(Live) <= MaxEndpoints
    /\ rows = NoRows
    /\ run = [c \in Cpu |-> NoRun]
    /\ removing = None
    /\ changes = 0
    /\ counted = [n \in Name |-> 0]
    /\ since = [i \in Ifindex |-> 0]
    /\ uncounted = 0
    /\ missed = FALSE

-----------------------------------------------------------------------------
(* increment_metric.                                                       *)

netUnchanged == UNCHANGED <<iface, removing, changes, missed>>

\* Mutant: the row is written whether or not another CPU has made it meanwhile.
CreateAnyway(i) == Cardinality(Rows(rows) \cup {i}) <= Capacity

\* BPF_NOEXIST, and a full map refuses.
MayCreate(i) == rows[i] = None /\ Cardinality(Rows(rows)) < Capacity

\* A packet of the interface that has ifindex i.
CountLookup(c, i) ==
    /\ run[c] = NoRun
    /\ iface[i] # None
    /\ SumFunction(counted) + uncounted + Cardinality({d \in Cpu : run[d] # NoRun}) < MaxCount
    /\ run' = [run EXCEPT ![c] = [st |-> IF rows[i] = None THEN "create" ELSE "add",
                                  ifindex |-> i]]
    /\ UNCHANGED <<rows, counted, since, uncounted>>
    /\ netUnchanged

CountCreate(c) ==
    /\ run[c].st = "create"
    /\ rows' = IF MayCreate(run[c].ifindex)
               THEN [rows EXCEPT ![run[c].ifindex] = Zeros] ELSE rows
    /\ run' = [run EXCEPT ![c].st = "relookup"]
    /\ UNCHANGED <<counted, since, uncounted>>
    /\ netUnchanged

CountRelookup(c) ==
    /\ run[c].st = "relookup"
    /\ \/ /\ rows[run[c].ifindex] # None
          /\ run' = [run EXCEPT ![c].st = "add"]
          /\ UNCHANGED uncounted
       \/ /\ rows[run[c].ifindex] = None
          /\ run' = [run EXCEPT ![c] = NoRun]
          /\ uncounted' = uncounted + 1
    /\ UNCHANGED <<rows, counted, since>>
    /\ netUnchanged

\* The add is not atomic and need not be: the value is this CPU's own.
CountAdd(c) ==
    /\ run[c].st = "add"
    /\ LET i == run[c].ifindex IN
       /\ rows' = [rows EXCEPT ![i][c] = @ + 1]
       /\ counted' = [counted EXCEPT ![iface[i]] = @ + 1]
       /\ since' = [since EXCEPT ![i] = @ + 1]
    /\ run' = [run EXCEPT ![c] = NoRun]
    /\ UNCHANGED uncounted
    /\ netUnchanged

-----------------------------------------------------------------------------
(* Endpoints come and go, as Gwlb.tla has it in detail: the lock makes the *)
(* changes one at a time, and no run is under way on an ifindex whose      *)
(* LinkDel has returned (Gwlb's RunsOK).                                   *)

Change == changes < MaxChanges /\ changes' = changes + 1

Plug(v, i) ==
    /\ Change
    /\ removing = None
    /\ iface[i] = None
    /\ \A j \in Live : iface[j] # v
    /\ Cardinality(Live) < MaxEndpoints
    /\ iface' = [iface EXCEPT ![i] = v]
    /\ UNCHANGED <<rows, run, removing, counted, since, uncounted, missed>>

\* LinkDel returns.
Unplug(i) ==
    /\ Change
    /\ removing = None
    /\ i \in Live
    /\ \A c \in Cpu : run[c].ifindex # i
    /\ iface' = [iface EXCEPT ![i] = None]
    /\ removing' = i
    /\ UNCHANGED <<rows, run, counted, since, uncounted, missed>>

\* Mutant: the row is not deleted.
RowKept(i) == rows

SweptRows(i) == [rows EXCEPT ![i] = None]

\* MetricsRemove, or a remove that is killed, or fails, before it.
SweepRow ==
    /\ removing # None
    /\ removing' = None
    /\ \/ /\ rows' = SweptRows(removing)
          /\ since' = [since EXCEPT ![removing] = 0]
          /\ UNCHANGED <<missed, changes>>
       \/ /\ Change
          /\ missed' = TRUE
          /\ UNCHANGED <<rows, since>>
    /\ UNCHANGED <<iface, run, counted, uncounted>>

Endpoints ==
    \/ \E v \in Vpce, i \in Ifindex : Plug(v, i)
    \/ \E i \in Ifindex : Unplug(i)
    \/ SweepRow

Packets ==
    \E c \in Cpu : \/ \E i \in Ifindex : CountLookup(c, i)
                   \/ CountCreate(c) \/ CountRelookup(c) \/ CountAdd(c)

-----------------------------------------------------------------------------
\* A row holds exactly what was counted under its ifindex since it was last
\* swept, however the CPUs raced to create it (maps.h increment_metric).
CountsExact == \A i \in Ifindex : Total(rows, i) = since[i]

\* Every packet finds a row: metrics has room for every endpoint's and the
\* uplink's, and no sweep takes a row from under a packet, unless a missed sweep
\* left rows that nothing deletes (decap.go Load, maps.h increment_metric).
EveryPacketCounted == ~missed => uncounted = 0
=============================================================================
