----------------------------- MODULE ServeProofs ----------------------------
(***************************************************************************)
(* Counting and pushing (Counters.tla, Serve.tla): every packet finds a    *)
(* row, rows lose nothing, and serve pushes what was counted, once; for    *)
(* any numbers of CPUs, ifindexes and endpoints, of packets, adds,         *)
(* removes and failed samples.                                             *)
(***************************************************************************)
EXTENDS Serve, SumProofs, TLAPS

-----------------------------------------------------------------------------
(* The invariant.                                                          *)

CountersTypeOK ==
    /\ iface \in [Ifindex -> Vpce \cup {"uplink", None}]
    /\ rows \in [Ifindex -> [Cpu -> Nat] \cup {None}]
    /\ run \in [Cpu -> [st : {"none", "create", "relookup", "add"}, ifindex : Ifindex \cup {None}]]
    /\ removing \in Ifindex \cup {None}
    /\ missed \in BOOLEAN

\* A veth that is going leaves room for one only when its row is swept.
Owners == Live \cup (IF removing = None THEN {} ELSE {removing})

RoomForOwners ==
    /\ iface[Uplink] = "uplink"
    /\ removing # None => removing # Uplink /\ iface[removing] = None
    /\ IsFiniteSet(Owners) /\ Cardinality(Owners) <= MaxEndpoints

\* A run is on an interface that is there, and its row stays once it has found it.
RunsHaveRows ==
    \A c \in Cpu : run[c] # NoRun =>
        /\ run[c].ifindex \in Ifindex /\ iface[run[c].ifindex] # None
        /\ run[c].st \in {"create", "relookup", "add"}
        /\ run[c].st = "add" => rows[run[c].ifindex] # None
        /\ run[c].st = "relookup" /\ ~missed /\ MaxEndpoints < Capacity =>
            rows[run[c].ifindex] # None

\* Rows are those of the uplink, of the endpoints, and of the one being removed.
RowsHaveOwners == ~missed => Rows(rows) \subseteq Owners \cup {Uplink}

\* No interface has two ifindexes.
OneIfindexEach ==
    \A i, j \in Ifindex : iface[i] # None /\ iface[i] = iface[j] => i = j

CountersInv ==
    /\ CountersTypeOK /\ RoomForOwners /\ RunsHaveRows /\ RowsHaveOwners /\ OneIfindexEach
    /\ MaxEndpoints < Capacity => EveryPacketCounted

-----------------------------------------------------------------------------
(* The steps.                                                              *)

\* While no sweep has been missed there is room for the row of any interface.
LEMMA RoomForRow ==
    ASSUME CountersInv, MaxEndpoints < Capacity, ~missed, NEW i \in Ifindex, iface[i] # None,
           rows[i] = None
    PROVE  Cardinality(Rows(rows)) < Capacity
<1>1. Rows(rows) \subseteq (Owners \cup {Uplink}) \ {i}
  BY DEF CountersInv, RowsHaveOwners, Rows
<1>2. i \in Owners \cup {Uplink}
  BY DEF Owners, Live
<1>3. IsFiniteSet(Owners) /\ Cardinality(Owners) \in Nat /\ Cardinality(Owners) <= MaxEndpoints
  BY FS_CardinalityType DEF CountersInv, RoomForOwners
<1>4. /\ IsFiniteSet(Owners \cup {Uplink})
      /\ Cardinality(Owners \cup {Uplink}) <= Cardinality(Owners) + 1
      /\ Cardinality(Owners \cup {Uplink}) \in Nat
  <2>1. /\ IsFiniteSet(Owners \cup {Uplink})
        /\ Cardinality(Owners \cup {Uplink}) \in {Cardinality(Owners), Cardinality(Owners) + 1}
    BY <1>3, FS_AddElement
  <2> QED BY <1>3, <2>1
<1>5. /\ IsFiniteSet((Owners \cup {Uplink}) \ {i})
      /\ Cardinality((Owners \cup {Uplink}) \ {i}) = Cardinality(Owners \cup {Uplink}) - 1
  BY <1>2, <1>4, FS_RemoveElement
<1>6. Cardinality(Rows(rows)) <= Cardinality((Owners \cup {Uplink}) \ {i})
      /\ Cardinality(Rows(rows)) \in Nat
  BY <1>1, <1>5, FS_Subset, FS_CardinalityType
<1> QED BY <1>3, <1>4, <1>5, <1>6, CountersAssumption

\* Counting.
LEMMA PacketsStep ==
    ASSUME CountersInv, Packets
    PROVE  CountersInv'
<1>0. /\ CountersTypeOK /\ RoomForOwners /\ RunsHaveRows /\ RowsHaveOwners /\ OneIfindexEach
      /\ MaxEndpoints < Capacity => EveryPacketCounted
      /\ UNCHANGED <<iface, removing, missed>>
  BY DEF CountersInv, Packets, CountLookup, CountCreate, CountRelookup, CountAdd, netUnchanged
<1>1. RoomForOwners' /\ OneIfindexEach'
  BY <1>0 DEF RoomForOwners, Owners, Live, OneIfindexEach
<1>2. PICK c \in Cpu : \/ \E i \in Ifindex : CountLookup(c, i)
                       \/ CountCreate(c) \/ CountRelookup(c) \/ CountAdd(c)
  BY DEF Packets
<1>3. None \notin Ifindex /\ None \notin [Cpu -> Nat] /\ Zeros \in [Cpu -> Nat]
  BY CountersAssumption DEF Zeros
<1> USE DEF CountersTypeOK, RunsHaveRows, RowsHaveOwners, EveryPacketCounted, NoRun, Rows
<1>4. ASSUME NEW i \in Ifindex, CountLookup(c, i) PROVE CountersInv'
  BY <1>0, <1>1, <1>4 DEF CountLookup, CountersInv, Owners, Live
<1>5. CASE CountCreate(c)
  <2>1. run[c].ifindex \in Ifindex /\ iface[run[c].ifindex] # None /\ run[c].st = "create"
    BY <1>0, <1>5 DEF CountCreate
  <2> DEFINE i == run[c].ifindex
  <2>2. ~missed /\ MaxEndpoints < Capacity => rows'[i] # None
    <3>1. CASE rows[i] = None /\ ~missed /\ MaxEndpoints < Capacity
      <4>1. rows' = [rows EXCEPT ![i] = Zeros]
        BY <1>5, <2>1, <3>1, RoomForRow DEF CountCreate, MayCreate
      <4> QED BY <1>0, <1>3, <2>1, <4>1
    <3>2. CASE rows[i] # None
      BY <1>5, <3>2 DEF CountCreate, MayCreate
    <3> QED BY <3>1, <3>2
  <2>3. /\ rows' \in [Ifindex -> [Cpu -> Nat] \cup {None}]
        /\ \A k \in Ifindex : rows[k] # None => rows'[k] # None
        /\ \A k \in Ifindex \ {i} : rows'[k] = rows[k]
    BY <1>0, <1>3, <1>5, <2>1 DEF CountCreate
  <2>4. run' = [run EXCEPT ![c] = [st |-> "relookup", ifindex |-> i]]
    <3>1. run' = [run EXCEPT ![c].st = "relookup"]
      BY <1>5 DEF CountCreate
    <3>2. [run[c] EXCEPT !.st = "relookup"] = [st |-> "relookup", ifindex |-> i]
      BY <1>0
    <3> QED BY <3>1, <3>2
  <2>5. RunsHaveRows'
    BY <1>0, <2>1, <2>2, <2>3, <2>4
  <2>6. i \in Owners \cup {Uplink}
    BY <2>1 DEF Owners, Live
  <2>7. RowsHaveOwners'
    BY <1>0, <2>3, <2>6 DEF Owners, Live
  <2> QED BY <1>0, <1>1, <1>5, <2>1, <2>3, <2>4, <2>5, <2>7 DEF CountersInv, CountCreate
<1>6. CASE CountRelookup(c)
  <2>1. /\ run[c].st = "relookup" /\ run[c].ifindex \in Ifindex /\ iface[run[c].ifindex] # None
        /\ ~missed /\ MaxEndpoints < Capacity => rows[run[c].ifindex] # None
    BY <1>0, <1>6 DEF CountRelookup
  <2>2. CASE /\ rows[run[c].ifindex] # None /\ run' = [run EXCEPT ![c].st = "add"]
             /\ UNCHANGED uncounted
    <3>1. run' = [run EXCEPT ![c] = [st |-> "add", ifindex |-> run[c].ifindex]] /\ UNCHANGED rows
      BY <1>0, <1>6, <2>2 DEF CountRelookup
    <3>2. RunsHaveRows'
      BY <1>0, <2>1, <2>2, <3>1
    <3> QED BY <1>0, <1>1, <2>1, <2>2, <3>1, <3>2 DEF CountersInv, Owners, Live
  <2>3. CASE rows[run[c].ifindex] = None /\ run' = [run EXCEPT ![c] = NoRun]
    BY <1>0, <1>1, <1>6, <2>1, <2>3 DEF CountersInv, Owners, Live, CountRelookup
  <2> QED BY <1>6, <2>2, <2>3 DEF CountRelookup
<1>7. CASE CountAdd(c)
  <2>1. /\ run[c].st = "add" /\ run[c].ifindex \in Ifindex /\ rows[run[c].ifindex] \in [Cpu -> Nat]
    BY <1>0, <1>7 DEF CountAdd
  <2>2. rows' = [rows EXCEPT ![run[c].ifindex] = [rows[run[c].ifindex] EXCEPT ![c] = @ + 1]]
    BY <1>7 DEF CountAdd
  <2>3. [rows[run[c].ifindex] EXCEPT ![c] = @ + 1] \in [Cpu -> Nat]
    BY <2>1
  <2>4. /\ rows' \in [Ifindex -> [Cpu -> Nat] \cup {None}]
        /\ \A k \in Ifindex : rows[k] = None <=> rows'[k] = None
    BY <1>0, <1>3, <2>1, <2>2, <2>3
  <2>5. run' = [run EXCEPT ![c] = NoRun] /\ UNCHANGED uncounted
    BY <1>7 DEF CountAdd
  <2> QED BY <1>0, <1>1, <2>4, <2>5 DEF CountersInv, Owners, Live
<1> QED BY <1>2, <1>4, <1>5, <1>6, <1>7

\* Endpoints come, and go.
LEMMA EndpointsStep ==
    ASSUME CountersInv, Endpoints
    PROVE  CountersInv'
<1>0. /\ CountersTypeOK /\ RoomForOwners /\ RunsHaveRows /\ RowsHaveOwners /\ OneIfindexEach
      /\ MaxEndpoints < Capacity => EveryPacketCounted
      /\ None \notin Ifindex /\ None \notin Vpce /\ None # "uplink" /\ UNCHANGED <<run, uncounted>>
  BY CountersAssumption DEF CountersInv, Endpoints, Plug, Unplug, SweepRow
<1> USE DEF CountersTypeOK, RunsHaveRows, RowsHaveOwners, EveryPacketCounted, Rows
<1>1. ASSUME NEW v \in Vpce, NEW i \in Ifindex, Plug(v, i) PROVE CountersInv'
  <2>1. /\ iface[i] = None /\ iface' = [iface EXCEPT ![i] = v] /\ removing = None
        /\ Cardinality(Live) < MaxEndpoints /\ i # Uplink
        /\ UNCHANGED <<rows, removing, missed>>
    BY <1>0, <1>1 DEF Plug, RoomForOwners
  <2>2. Live' = Live \cup {i} /\ Owners = Live /\ Owners' = Live \cup {i} /\ i \notin Live
    BY <1>0, <2>1 DEF Live, Owners
  <2>3. IsFiniteSet(Live) /\ Cardinality(Live) \in Nat
    BY <1>0, <2>2, FS_CardinalityType DEF RoomForOwners
  <2>4. IsFiniteSet(Live \cup {i}) /\ Cardinality(Live \cup {i}) = Cardinality(Live) + 1
    BY <2>2, <2>3, FS_AddElement
  <2>5. RoomForOwners'
    BY <1>0, <2>1, <2>2, <2>3, <2>4, CountersAssumption DEF RoomForOwners
  <2>6. RunsHaveRows' /\ CountersTypeOK'
    BY <1>0, <2>1
  <2>7. OneIfindexEach'
    <3>1. \A j \in Ifindex : iface[j] # v
      BY <1>0, <1>1, CountersAssumption DEF Plug, Live, RoomForOwners
    <3> QED BY <1>0, <2>1, <3>1 DEF OneIfindexEach
  <2> QED BY <1>0, <2>1, <2>2, <2>5, <2>6, <2>7 DEF CountersInv
<1>2. ASSUME NEW i \in Ifindex, Unplug(i) PROVE CountersInv'
  <2>1. /\ iface' = [iface EXCEPT ![i] = None] /\ removing = None /\ removing' = i
        /\ i \in Live /\ i # Uplink /\ UNCHANGED <<rows, missed>>
        /\ \A c \in Cpu : run[c].ifindex # i
    BY <1>2 DEF Unplug, Live
  <2>2. Owners' = Owners
    BY <1>0, <2>1 DEF Owners, Live
  <2>3. RoomForOwners'
    BY <1>0, <2>1, <2>2, CountersAssumption DEF RoomForOwners
  <2>4. RunsHaveRows' /\ CountersTypeOK'
    BY <1>0, <2>1
  <2>5. OneIfindexEach'
    BY <1>0, <2>1 DEF OneIfindexEach
  <2> QED BY <1>0, <2>1, <2>2, <2>3, <2>4, <2>5 DEF CountersInv
<1>3. CASE SweepRow
  <2>1. /\ removing \in Ifindex /\ removing' = None /\ UNCHANGED iface
        /\ removing \notin Live
    BY <1>0, <1>3 DEF SweepRow, RoomForOwners, Live
  <2>2. Owners' = Owners \ {removing} /\ Owners = Live \cup {removing}
    BY <1>0, <2>1 DEF Owners, Live
  <2>3. IsFiniteSet(Owners') /\ Cardinality(Owners') <= MaxEndpoints
    <3>1. IsFiniteSet(Owners \ {removing}) /\ Cardinality(Owners \ {removing}) = Cardinality(Owners) - 1
      BY <1>0, <2>1, <2>2, FS_RemoveElement DEF RoomForOwners
    <3> QED BY <1>0, <2>2, <3>1, FS_CardinalityType, CountersAssumption DEF RoomForOwners
  <2>4. RoomForOwners'
    BY <1>0, <2>1, <2>3 DEF RoomForOwners
  <2>0. OneIfindexEach'
    BY <1>0, <2>1 DEF OneIfindexEach
  <2>5. CASE rows' = SweptRows(removing) /\ UNCHANGED missed
    <3>1. /\ \A k \in Ifindex \ {removing} : rows'[k] = rows[k]
          /\ rows'[removing] = None /\ CountersTypeOK'
      BY <1>0, <2>1, <2>5 DEF SweptRows
    <3>2. RunsHaveRows'
      BY <1>0, <2>1, <2>5, <3>1 DEF RoomForOwners
    <3>3. RowsHaveOwners'
      BY <1>0, <2>1, <2>2, <2>5, <3>1
    <3> QED BY <1>0, <2>0, <2>4, <2>5, <3>1, <3>2, <3>3 DEF CountersInv
  <2>6. CASE missed' = TRUE /\ UNCHANGED rows
    BY <1>0, <2>0, <2>1, <2>4, <2>6 DEF CountersInv
  <2> QED BY <1>3, <2>5, <2>6 DEF SweepRow
<1> QED BY <1>1, <1>2, <1>3 DEF Endpoints

\* Sampling only reads the map.
LEMMA ServeLeavesCounters ==
    ASSUME CountersInv, UNCHANGED counterVars
    PROVE  CountersInv'
BY DEF counterVars, CountersInv, CountersTypeOK, RoomForOwners, Owners, Live, RunsHaveRows,
       RowsHaveOwners, Rows, EveryPacketCounted, OneIfindexEach

\* An empty map has room.
LEMMA InitCounters == Init => CountersInv
<1> SUFFICES ASSUME Init PROVE CountersInv
  OBVIOUS
<1>1. CountersTypeOK
  BY CountersAssumption DEF Init, CountersInit, CountersTypeOK, NoRows, NoRun
<1>2. Owners = Live
  BY DEF Init, CountersInit, Owners
<1>3. RoomForOwners
  <2>1. IsFiniteSet(Live)
    BY CountersAssumption, FS_Subset DEF Live
  <2> QED BY <1>2, <2>1, CountersAssumption DEF Init, CountersInit, RoomForOwners
<1>4. RunsHaveRows /\ RowsHaveOwners /\ EveryPacketCounted
  BY DEF Init, CountersInit, RunsHaveRows, RowsHaveOwners, EveryPacketCounted, Rows, NoRows
<1>5. OneIfindexEach
  BY DEF Init, CountersInit, OneIfindexEach, Live
<1> QED BY <1>1, <1>3, <1>4, <1>5 DEF CountersInv

\* Every step of packets, endpoints and serve keeps the room.
LEMMA NextCounters ==
    ASSUME CountersInv, [Next]_vars
    PROVE  CountersInv'
<1>1. CASE ServeStep
  BY <1>1, ServeLeavesCounters
     DEF ServeStep, Tick, SampleAborted, SampleNext, SampleRead, SampleEnd, SampleFails, Fail, Label, Push
<1>2. CASE UNCHANGED vars
  BY <1>2, ServeLeavesCounters DEF vars
<1> QED BY <1>1, <1>2, PacketsStep, EndpointsStep DEF Next, HostStep

\* With room for the endpoints' rows and the uplink's, which decap.Load sees to, every
\* packet is counted (maps.h increment_metric).
THEOREM RoomForEveryRow == ASSUME MaxEndpoints < Capacity PROVE Spec => []EveryPacketCounted
<1>1. CountersInv => EveryPacketCounted
  BY DEF CountersInv
<1> QED BY InitCounters, NextCounters, <1>1, PTL DEF Spec

-----------------------------------------------------------------------------
(* What the rows add up to.                                                *)

\* A total is a natural number, and that of a row there is not is zero.
LEMMA TotalType ==
    ASSUME NEW m \in [Ifindex -> [Cpu -> Nat] \cup {None}], NEW i \in Ifindex
    PROVE  Total(m, i) \in Nat /\ (m[i] = None => Total(m, i) = 0)
<1>1. CASE m[i] = None
  BY <1>1 DEF Total
<1>2. CASE m[i] # None
  <2>1. m[i] \in [Cpu -> Nat]
    BY <1>2
  <2>2. SumFunction(m[i]) \in Nat
    BY <2>1, SumIsNat, CountersAssumption
  <2> QED BY <1>2, <2>2 DEF Total
<1> QED BY <1>1, <1>2

\* A packet is one more in the row of its interface, or changes no total.
LEMMA PacketTotals ==
    ASSUME CountersInv, Packets
    PROVE  /\ Rows(rows) \subseteq Rows(rows') /\ UNCHANGED <<iface, removing, missed>>
           /\ \/ /\ UNCHANGED <<counted, since>>
                 /\ \A i \in Ifindex : Total(rows', i) = Total(rows, i)
              \/ \E i \in Ifindex :
                 /\ iface[i] # None
                 /\ counted' = [counted EXCEPT ![iface[i]] = @ + 1]
                 /\ since' = [since EXCEPT ![i] = @ + 1]
                 /\ Total(rows', i) = Total(rows, i) + 1
                 /\ \A j \in Ifindex \ {i} : Total(rows', j) = Total(rows, j)
<1>0. /\ CountersTypeOK /\ RunsHaveRows /\ None \notin [Cpu -> Nat] /\ IsFiniteSet(Cpu)
      /\ None \notin Ifindex /\ UNCHANGED <<iface, removing, missed>>
  BY CountersAssumption DEF CountersInv, Packets, CountLookup, CountCreate, CountRelookup, CountAdd, netUnchanged
<1>1. PICK c \in Cpu : \/ \E i \in Ifindex : CountLookup(c, i)
                       \/ CountCreate(c) \/ CountRelookup(c) \/ CountAdd(c)
  BY DEF Packets
<1>2. CASE UNCHANGED <<rows, counted, since>>
  BY <1>0, <1>2
<1>3. CASE CountCreate(c)
  <2> DEFINE k == run[c].ifindex
  <2>1. k \in Ifindex
    BY <1>0, <1>3 DEF CountCreate, RunsHaveRows, NoRun
  <2>2. CASE MayCreate(k)
    <3>1. rows' = [rows EXCEPT ![k] = Zeros] /\ rows[k] = None /\ UNCHANGED <<counted, since>>
      BY <1>3, <2>2 DEF CountCreate, MayCreate
    <3>2. rows \in [Ifindex -> [Cpu -> Nat] \cup {None}] /\ Zeros \in [Cpu -> Nat]
      BY <1>0 DEF CountersTypeOK, Zeros
    <3> HIDE DEF k
    <3>3. rows'[k] = Zeros /\ \A j \in Ifindex \ {k} : rows'[j] = rows[j]
      BY <2>1, <3>1, <3>2
    <3>4. Total(rows', k) = 0 /\ Total(rows, k) = 0
      <4>1. SumFunction(Zeros) = 0
        BY <1>0, SumOfZeros DEF Zeros
      <4> QED BY <1>0, <3>1, <3>2, <3>3, <4>1 DEF Total
    <3>5. \A j \in Ifindex \ {k} : Total(rows', j) = Total(rows, j)
      BY <3>3 DEF Total
    <3>6. Rows(rows) \subseteq Rows(rows')
      BY <3>1, <3>3 DEF Rows
    <3> QED BY <1>0, <3>1, <3>4, <3>5, <3>6
  <2>3. CASE ~MayCreate(k)
    BY <1>2, <1>3, <2>3 DEF CountCreate
  <2> QED BY <2>2, <2>3
<1>4. CASE CountAdd(c)
  <2> DEFINE k == run[c].ifindex
  <2>1. /\ k \in Ifindex /\ iface[k] # None /\ rows[k] # None
        /\ rows \in [Ifindex -> [Cpu -> Nat] \cup {None}]
    BY <1>0, <1>4 DEF CountAdd, RunsHaveRows, CountersTypeOK, NoRun
  <2>2. /\ rows' = [rows EXCEPT ![k] = [rows[k] EXCEPT ![c] = @ + 1]]
        /\ counted' = [counted EXCEPT ![iface[k]] = @ + 1]
        /\ since' = [since EXCEPT ![k] = @ + 1]
    BY <1>4 DEF CountAdd
  <2> HIDE DEF k
  <2>3. rows[k] \in [Cpu -> Nat]
    BY <2>1
  <2>4. /\ rows'[k] = [rows[k] EXCEPT ![c] = @ + 1] /\ rows'[k] \in [Cpu -> Nat] /\ rows'[k] # None
        /\ \A j \in Ifindex \ {k} : rows'[j] = rows[j]
    BY <1>0, <2>1, <2>2, <2>3
  <2>5. SumFunction(rows'[k]) = SumFunction(rows[k]) + 1
    BY <1>0, <2>3, <2>4, SumIncremented
  <2>6. Total(rows', k) = Total(rows, k) + 1
    BY <2>1, <2>4, <2>5 DEF Total
  <2>7. \A j \in Ifindex \ {k} : Total(rows', j) = Total(rows, j)
    BY <2>4 DEF Total
  <2>8. Rows(rows) \subseteq Rows(rows')
    BY <2>1, <2>4 DEF Rows
  <2> QED BY <1>0, <2>1, <2>2, <2>6, <2>7, <2>8
<1> QED BY <1>1, <1>2, <1>3, <1>4 DEF CountLookup, CountRelookup

\* Endpoints change no total but that of a row that is swept.
LEMMA EndpointTotals ==
    ASSUME CountersInv, Endpoints
    PROVE  /\ UNCHANGED counted
           /\ \/ UNCHANGED <<rows, since>>
              \/ /\ removing \in Ifindex /\ iface[removing] = None /\ UNCHANGED <<iface, missed>>
                 /\ removing' = None
                 /\ rows' = [rows EXCEPT ![removing] = None]
                 /\ since' = [since EXCEPT ![removing] = 0]
                 /\ Total(rows', removing) = 0
                 /\ \A j \in Ifindex \ {removing} : Total(rows', j) = Total(rows, j)
<1>0. CountersTypeOK /\ RoomForOwners
  BY DEF CountersInv
<1>1. CASE rows' = SweptRows(removing) /\ since' = [since EXCEPT ![removing] = 0] /\ SweepRow
           /\ UNCHANGED missed
  <2>1. removing \in Ifindex /\ iface[removing] = None /\ rows \in [Ifindex -> [Cpu -> Nat] \cup {None}]
    BY <1>0, <1>1 DEF SweepRow, CountersTypeOK, RoomForOwners
  <2>2. rows'[removing] = None /\ \A j \in Ifindex \ {removing} : rows'[j] = rows[j]
    BY <1>1, <2>1 DEF SweptRows
  <2> QED BY <1>1, <2>1, <2>2 DEF SweepRow, SweptRows, Total
<1> QED BY <1>1 DEF Endpoints, Plug, Unplug, SweepRow

\* A row holds what was counted under its ifindex since it was last swept, for any
\* number of CPUs that race to create it (maps.h increment_metric).
THEOREM NoCountLost == Spec => []CountsExact
<1> DEFINE Inv == CountersInv /\ since \in [Ifindex -> Nat] /\ CountsExact
<1>1. Init => Inv
  BY InitCounters DEF Init, CountersInit, CountsExact, NoRows, Total
<1>2. Inv /\ [Next]_vars => Inv'
  <2> SUFFICES ASSUME Inv, [Next]_vars PROVE Inv'
    OBVIOUS
  <2>0. CountersInv'
    BY NextCounters
  <2>1. CASE UNCHANGED <<rows, since>>
    BY <2>0, <2>1 DEF CountsExact
  <2>2. CASE Packets
    <3>1. CASE UNCHANGED since /\ \A i \in Ifindex : Total(rows', i) = Total(rows, i)
      BY <2>0, <3>1 DEF CountsExact
    <3>2. ASSUME NEW i \in Ifindex, since' = [since EXCEPT ![i] = @ + 1],
                 Total(rows', i) = Total(rows, i) + 1,
                 \A j \in Ifindex \ {i} : Total(rows', j) = Total(rows, j)
          PROVE  Inv'
      BY <2>0, <3>2 DEF CountsExact
    <3> QED BY <2>2, <3>1, <3>2, PacketTotals
  <2>3. CASE Endpoints
    BY <2>0, <2>1, <2>3, EndpointTotals DEF CountsExact
  <2>4. CASE ServeStep
    BY <2>1, <2>4
       DEF ServeStep, Tick, SampleAborted, SampleNext, SampleRead, SampleEnd, SampleFails, Fail,
           Label, Push, counterVars
  <2> QED BY <2>1, <2>2, <2>3, <2>4 DEF Next, HostStep, vars, counterVars
<1>3. Inv => CountsExact
  OBVIOUS
<1> QED BY <1>1, <1>2, <1>3, PTL DEF Spec

-----------------------------------------------------------------------------
(* The samples.                                                            *)

SampleTypeOK ==
    /\ pc \in {"select", "next", "read", "label", "push"}
    /\ prev \in [Ifindex -> Nat] \cup {None}
    /\ cur \in [Ifindex -> Nat]
    /\ cursor \in Ifindex \cup {None}
    /\ labels \in [Ifindex -> Name \cup {None}]
    /\ counted \in [Name -> Nat] /\ pushed \in [Name -> Nat]
    /\ base \in Nat /\ overlapped \in BOOLEAN

\* The keys the iterator has behind it: their rows have been read, or were not there.
Passed(i) ==
    \/ pc \in {"label", "push"}
    \/ cursor # None /\ (i < cursor \/ (i = cursor /\ pc = "next"))

\* What the last sample has of a row.
Last(i) == IF prev = None THEN 0 ELSE prev[i]

PushesOK ==
    /\ pc = "select" => cursor = None
    /\ pc = "read" => cursor # None
    /\ pc \in {"label", "push"} => prev # None
    /\ prev = None => \A n \in Name : pushed[n] = 0
    /\ pc = "push" =>
        /\ \A i, j \in Ifindex : labels[i] # None /\ labels[i] = labels[j] => i = j
        /\ labels[Uplink] = "uplink"

\* Without a sweep in the sample, the iterator never starts over.
SampleOK ==
    ~overlapped =>
        /\ pc \in {"next", "read"} /\ cursor # None => rows[cursor] # None
        /\ \A i \in Ifindex : cur[i] <= Total(rows, i) /\ (~Passed(i) => cur[i] = 0)

\* The uplink's row only grows, from one sample to the next.
UplinkGrows ==
    ~overlapped =>
        Last(Uplink) <= Total(rows, Uplink) /\ (Passed(Uplink) => Last(Uplink) <= cur[Uplink])

\* What is counted of an interface and not pushed yet is at least what its row has
\* grown by since the last sample; all of it, if the row is new since then.
Unpushed(i) ==
    \/ counted[iface[i]] >= pushed[iface[i]] + Total(rows, i)
    \/ /\ counted[iface[i]] + Last(i) >= pushed[iface[i]] + Total(rows, i)
       /\ Last(i) <= Total(rows, i)
       /\ Passed(i) => Last(i) <= cur[i]

\* An interface that has gone since it was labelled has nothing to push, once another
\* may have its name.
LabelStale(i) ==
    \/ cur[i] = 0
    \/ removing = i /\ iface[i] = None /\ \A j \in Ifindex : iface[j] # labels[i]

LabelsOK ==
    pc = "push" =>
        \A i \in Ifindex : labels[i] # None =>
            /\ pushed[labels[i]] + Growth(i) <= counted[labels[i]]
            /\ iface[i] # labels[i] => LabelStale(i)

AccountsOK ==
    ~overlapped /\ ~missed =>
        /\ \A i \in Ifindex : iface[i] # None => Unpushed(i)
        /\ \A n \in Name : pushed[n] <= counted[n]
        /\ LabelsOK

SampleInv ==
    CountersInv /\ SampleTypeOK /\ PushesOK /\ SampleOK /\ UplinkGrows /\ UplinkExact /\ AccountsOK

\* The totals of a state the invariant holds in.
LEMMA Totals ==
    ASSUME CountersInv
    PROVE  \A i \in Ifindex : Total(rows, i) \in Nat /\ (rows[i] = None => Total(rows, i) = 0)
BY TotalType DEF CountersInv, CountersTypeOK

\* An interface has a name.
LEMMA NamesOfInterfaces ==
    ASSUME CountersInv
    PROVE  /\ \A i \in Ifindex : iface[i] # None => iface[i] \in Name
           /\ iface[Uplink] = "uplink" /\ "uplink" \in Name /\ Uplink \in Ifindex /\ None \notin Name
           /\ None \notin Ifindex
BY CountersAssumption DEF CountersInv, CountersTypeOK, RoomForOwners, Name

\* Packets are counted while serve samples.
LEMMA PacketsKeepSamples ==
    ASSUME SampleInv, Packets, HostStep
    PROVE  SampleInv'
<1>0. /\ CountersInv /\ CountersInv' /\ SampleTypeOK /\ PushesOK /\ SampleOK /\ UplinkGrows
      /\ UplinkExact /\ AccountsOK
  BY NextCounters DEF SampleInv, Next
<1>1. /\ UNCHANGED <<pc, prev, cur, cursor, steps, labels, failures, pushed, base>>
      /\ UNCHANGED <<iface, removing, missed>> /\ Rows(rows) \subseteq Rows(rows')
  BY PacketTotals, <1>0 DEF HostStep
<1>2. overlapped' = overlapped
  BY <1>0, <1>1 DEF HostStep, SampleTypeOK
<1>3. /\ \A i \in Ifindex : Total(rows, i) \in Nat /\ Total(rows', i) \in Nat
      /\ \A i \in Ifindex : rows[i] # None => rows'[i] # None
  BY <1>0, <1>1, Totals, TotalType DEF Rows, CountersInv, CountersTypeOK
<1>4. /\ counted' \in [Name -> Nat] /\ \A n \in Name : counted[n] <= counted'[n]
      /\ \A j \in Ifindex : Total(rows, j) <= Total(rows', j)
      /\ \A j \in Ifindex : iface[j] # None =>
            counted'[iface[j]] - counted[iface[j]] = Total(rows', j) - Total(rows, j)
  <2>0. counted \in [Name -> Nat] /\ OneIfindexEach
    BY <1>0 DEF SampleTypeOK, CountersInv
  <2>1. CASE UNCHANGED counted /\ \A i \in Ifindex : Total(rows', i) = Total(rows, i)
    BY <1>0, <1>3, <2>0, <2>1, NamesOfInterfaces
  <2>2. ASSUME NEW i \in Ifindex, iface[i] # None, counted' = [counted EXCEPT ![iface[i]] = @ + 1],
               Total(rows', i) = Total(rows, i) + 1,
               \A j \in Ifindex \ {i} : Total(rows', j) = Total(rows, j)
        PROVE  /\ counted' \in [Name -> Nat] /\ \A n \in Name : counted[n] <= counted'[n]
               /\ \A j \in Ifindex : Total(rows, j) <= Total(rows', j)
               /\ \A j \in Ifindex : iface[j] # None =>
                    counted'[iface[j]] - counted[iface[j]] = Total(rows', j) - Total(rows, j)
    <3>1. iface[i] \in Name /\ \A j \in Ifindex : iface[j] # None => iface[j] \in Name
      BY <1>0, <2>2, NamesOfInterfaces
    <3>2. counted' \in [Name -> Nat] /\ counted'[iface[i]] = counted[iface[i]] + 1
          /\ \A n \in Name \ {iface[i]} : counted'[n] = counted[n]
      BY <2>0, <2>2, <3>1
    <3>3. \A j \in Ifindex \ {i} : iface[j] # iface[i]
      BY <2>0, <2>2 DEF OneIfindexEach
    <3>4. ASSUME NEW j \in Ifindex, iface[j] # None
          PROVE  counted'[iface[j]] - counted[iface[j]] = Total(rows', j) - Total(rows, j)
      <4>1. CASE j = i
        BY <1>3, <2>0, <2>2, <3>1, <3>2, <4>1
      <4>2. CASE j # i
        BY <1>3, <2>0, <2>2, <3>1, <3>2, <3>3, <3>4, <4>2
      <4> QED BY <4>1, <4>2
    <3>5. \A n \in Name : counted[n] <= counted'[n]
      BY <2>0, <3>1, <3>2
    <3>6. \A j \in Ifindex : Total(rows, j) <= Total(rows', j)
      BY <1>3, <2>2
    <3> QED BY <3>2, <3>4, <3>5, <3>6
  <2> QED BY <1>0, <2>1, <2>2, PacketTotals
<1>5. SampleTypeOK' /\ PushesOK' /\ UplinkExact'
  BY <1>0, <1>1, <1>2, <1>4 DEF SampleTypeOK, PushesOK, UplinkExact
<1>6. \A i : (Passed(i)' <=> Passed(i)) /\ Last(i)' = Last(i) /\ (Growth(i))' = Growth(i)
  BY <1>1 DEF Passed, Last, Growth
<1>7. SampleOK'
  BY <1>0, <1>1, <1>2, <1>3, <1>4, <1>6 DEF SampleOK, SampleTypeOK
<1>8. \A i \in Ifindex : Last(i) \in Nat
  BY <1>0 DEF Last, SampleTypeOK
<1>9. UplinkGrows'
  BY <1>0, <1>1, <1>2, <1>3, <1>4, <1>6, <1>8, NamesOfInterfaces DEF UplinkGrows
<1>10. AccountsOK'
  <2> SUFFICES ASSUME ~overlapped, ~missed
               PROVE  /\ \A i \in Ifindex : iface[i] # None => Unpushed(i)'
                      /\ \A n \in Name : pushed[n] <= counted'[n]
                      /\ LabelsOK'
    BY <1>1, <1>2 DEF AccountsOK
  <2>1. /\ \A i \in Ifindex : iface[i] # None => Unpushed(i)
        /\ \A n \in Name : pushed[n] <= counted[n]
        /\ LabelsOK
    BY <1>0 DEF AccountsOK
  <2>2. counted \in [Name -> Nat] /\ pushed \in [Name -> Nat] /\ labels \in [Ifindex -> Name \cup {None}]
        /\ cur \in [Ifindex -> Nat]
    BY <1>0 DEF SampleTypeOK
  <2>3. ASSUME NEW i \in Ifindex, iface[i] # None PROVE Unpushed(i)'
    <3>1. /\ iface[i] \in Name /\ Unpushed(i)
          /\ counted'[iface[i]] - counted[iface[i]] = Total(rows', i) - Total(rows, i)
          /\ Total(rows, i) <= Total(rows', i) /\ Total(rows, i) \in Nat /\ Total(rows', i) \in Nat
          /\ Last(i) \in Nat /\ (Passed(i)' <=> Passed(i)) /\ Last(i)' = Last(i)
      BY <1>0, <1>3, <1>4, <1>6, <1>8, <2>1, <2>3, NamesOfInterfaces
    <3>2. counted[iface[i]] \in Nat /\ counted'[iface[i]] \in Nat /\ pushed[iface[i]] \in Nat
      BY <1>4, <2>2, <3>1
    <3>3. cur'[i] = cur[i] /\ iface'[i] = iface[i] /\ pushed' = pushed
      BY <1>1
    <3> QED BY <3>1, <3>2, <3>3 DEF Unpushed
  <2>4. \A n \in Name : pushed[n] <= counted'[n]
    BY <1>4, <2>1, <2>2
  <2>5. LabelsOK'
    <3> SUFFICES ASSUME pc = "push", NEW i \in Ifindex, labels[i] # None
                 PROVE  /\ pushed[labels[i]] + Growth(i) <= counted'[labels[i]]
                        /\ iface[i] # labels[i] => LabelStale(i)'
      BY <1>1, <1>6 DEF LabelsOK
    <3>1. /\ pushed[labels[i]] + Growth(i) <= counted[labels[i]]
          /\ iface[i] # labels[i] => LabelStale(i)
      BY <2>1 DEF LabelsOK
    <3>2. labels[i] \in Name
      BY <2>2
    <3>3. Growth(i) \in Nat
      BY <1>0, <2>2 DEF Growth, PushesOK, SampleTypeOK
    <3>4. pushed[labels[i]] + Growth(i) <= counted'[labels[i]]
      BY <1>4, <2>2, <3>1, <3>2, <3>3
    <3> QED BY <1>1, <3>1, <3>4 DEF LabelStale
  <2> QED BY <2>3, <2>4, <2>5
<1> QED BY <1>0, <1>5, <1>7, <1>9, <1>10 DEF SampleInv

\* Endpoints come and go while serve samples.  An endpoint that comes has a new row.
LEMMA PlugKeepsSamples ==
    ASSUME SampleInv, NEW v \in Vpce, NEW i \in Ifindex, Plug(v, i), HostStep
    PROVE  SampleInv'
<1>0. /\ CountersInv /\ CountersInv' /\ SampleTypeOK /\ PushesOK /\ SampleOK /\ UplinkGrows
      /\ UplinkExact /\ AccountsOK
  <2>1. Next
    BY DEF Next
  <2> QED BY <2>1, NextCounters DEF SampleInv
<1>1. /\ UNCHANGED <<pc, prev, cur, cursor, steps, labels, failures, pushed, base>>
      /\ UNCHANGED <<rows, removing, counted, since, missed>>
      /\ iface' = [iface EXCEPT ![i] = v] /\ iface[i] = None /\ removing = None
  BY DEF HostStep, Plug
<1>2. overlapped' = overlapped
  BY <1>0, <1>1 DEF HostStep, SampleTypeOK, Rows
<1>3. SampleTypeOK' /\ PushesOK' /\ UplinkExact' /\ SampleOK' /\ UplinkGrows'
  BY <1>0, <1>1, <1>2 DEF SampleTypeOK, PushesOK, UplinkExact, SampleOK, UplinkGrows, Passed, Last
<1>4. /\ iface \in [Ifindex -> Vpce \cup {"uplink", None}] /\ iface'[i] = v /\ v \in Name
      /\ \A j \in Ifindex \ {i} : iface'[j] = iface[j]
  BY <1>0, <1>1 DEF CountersInv, CountersTypeOK, Name
<1>5. AccountsOK'
  <2> SUFFICES ASSUME ~overlapped, ~missed
               PROVE  /\ \A j \in Ifindex : iface'[j] # None => Unpushed(j)'
                      /\ \A n \in Name : pushed[n] <= counted[n]
                      /\ LabelsOK'
    BY <1>1, <1>2 DEF AccountsOK
  <2>1. /\ \A j \in Ifindex : iface[j] # None => Unpushed(j)
        /\ \A n \in Name : pushed[n] <= counted[n]
        /\ LabelsOK
    BY <1>0 DEF AccountsOK
  <2>2. Total(rows, i) = 0
    <3>1. i \notin Owners \cup {Uplink}
      BY <1>0, <1>1, NamesOfInterfaces DEF Owners, Live
    <3>2. rows[i] = None
      BY <1>0, <3>1 DEF CountersInv, RowsHaveOwners, Rows
    <3> QED BY <1>0, <3>2, Totals
  <2>3. Unpushed(i)'
    <3>1. counted \in [Name -> Nat] /\ pushed \in [Name -> Nat] /\ pushed[v] <= counted[v]
      BY <1>0, <1>4, <2>1 DEF SampleTypeOK
    <3>2. counted[v] >= pushed[v] + Total(rows, i)
      BY <1>4, <2>2, <3>1
    <3> QED BY <1>1, <1>4, <3>2 DEF Unpushed
  <2>4. ASSUME NEW j \in Ifindex \ {i}, iface'[j] # None PROVE Unpushed(j)'
    BY <1>1, <1>4, <2>1, <2>4 DEF Unpushed, Last, Passed
  <2>5. LabelsOK'
    <3> SUFFICES ASSUME pc = "push", NEW k \in Ifindex, labels[k] # None
                 PROVE  /\ pushed[labels[k]] + Growth(k) <= counted[labels[k]]
                        /\ iface'[k] # labels[k] => LabelStale(k)'
      BY <1>1 DEF LabelsOK, Growth
    <3>1. /\ pushed[labels[k]] + Growth(k) <= counted[labels[k]]
          /\ iface[k] # labels[k] => LabelStale(k)
      BY <2>1 DEF LabelsOK
    <3>2. iface'[k] # labels[k] => iface[k] # labels[k]
      BY <1>1, <1>4
    <3>3. LabelStale(k) => cur[k] = 0
      BY <1>0, <1>1, NamesOfInterfaces DEF LabelStale
    <3>4. cur[k] = 0 => LabelStale(k)'
      BY <1>1 DEF LabelStale
    <3> QED BY <3>1, <3>2, <3>3, <3>4
  <2> QED BY <2>1, <2>3, <2>4, <2>5
<1> QED BY <1>0, <1>3, <1>5 DEF SampleInv

\* One that goes has its name to itself until its row is swept.
LEMMA UnplugKeepsSamples ==
    ASSUME SampleInv, NEW i \in Ifindex, Unplug(i), HostStep
    PROVE  SampleInv'
<1>0. /\ CountersInv /\ CountersInv' /\ SampleTypeOK /\ PushesOK /\ SampleOK /\ UplinkGrows
      /\ UplinkExact /\ AccountsOK
  <2>1. Next
    BY DEF Next
  <2> QED BY <2>1, NextCounters DEF SampleInv
<1>1. /\ UNCHANGED <<pc, prev, cur, cursor, steps, labels, failures, pushed, base>>
      /\ UNCHANGED <<rows, counted, since, missed>>
      /\ iface' = [iface EXCEPT ![i] = None] /\ iface[i] # None /\ removing = None /\ removing' = i
  BY DEF HostStep, Unplug, Live
<1>2. overlapped' = overlapped
  BY <1>0, <1>1 DEF HostStep, SampleTypeOK, Rows
<1>3. SampleTypeOK' /\ PushesOK' /\ UplinkExact' /\ SampleOK' /\ UplinkGrows'
  BY <1>0, <1>1, <1>2 DEF SampleTypeOK, PushesOK, UplinkExact, SampleOK, UplinkGrows, Passed, Last
<1>4. /\ iface \in [Ifindex -> Vpce \cup {"uplink", None}] /\ iface'[i] = None
      /\ \A j \in Ifindex \ {i} : iface'[j] = iface[j]
  BY <1>0, <1>1 DEF CountersInv, CountersTypeOK
<1>5. AccountsOK'
  <2> SUFFICES ASSUME ~overlapped, ~missed
               PROVE  /\ \A j \in Ifindex : iface'[j] # None => Unpushed(j)'
                      /\ \A n \in Name : pushed[n] <= counted[n]
                      /\ LabelsOK'
    BY <1>1, <1>2 DEF AccountsOK
  <2>1. /\ \A j \in Ifindex : iface[j] # None => Unpushed(j)
        /\ \A n \in Name : pushed[n] <= counted[n]
        /\ LabelsOK
    BY <1>0 DEF AccountsOK
  <2>2. ASSUME NEW j \in Ifindex, iface'[j] # None PROVE Unpushed(j)'
    <3>1. j # i /\ iface'[j] = iface[j]
      BY <1>4, <2>2
    <3> QED BY <1>1, <2>1, <2>2, <3>1 DEF Unpushed, Last, Passed
  <2>3. LabelsOK'
    <3> SUFFICES ASSUME pc = "push", NEW k \in Ifindex, labels[k] # None
                 PROVE  /\ pushed[labels[k]] + Growth(k) <= counted[labels[k]]
                        /\ iface'[k] # labels[k] => LabelStale(k)'
      BY <1>1 DEF LabelsOK, Growth
    <3>1. /\ pushed[labels[k]] + Growth(k) <= counted[labels[k]]
          /\ iface[k] # labels[k] => LabelStale(k)
      BY <2>1 DEF LabelsOK
    <3>2. CASE iface[k] # labels[k]
      <4>1. cur[k] = 0
        BY <1>0, <1>1, <3>1, <3>2, NamesOfInterfaces DEF LabelStale
      <4> QED BY <1>1, <3>1, <4>1 DEF LabelStale
    <3>3. CASE iface[k] = labels[k] /\ k # i
      BY <1>4, <3>1, <3>3
    <3>4. CASE iface[k] = labels[k] /\ k = i
      <4>1. \A j \in Ifindex : iface'[j] # labels[i]
        BY <1>0, <1>1, <1>4, <3>4 DEF CountersInv, OneIfindexEach
      <4> QED BY <1>1, <1>4, <3>1, <3>4, <4>1 DEF LabelStale
    <3> QED BY <3>2, <3>3, <3>4
  <2> QED BY <2>1, <2>2, <2>3
<1> QED BY <1>0, <1>3, <1>5 DEF SampleInv

\* A sweep overlaps a sample, or finds no row, or falls between samples.
LEMMA SweepKeepsSamples ==
    ASSUME SampleInv, SweepRow, HostStep
    PROVE  SampleInv'
<1>0. /\ CountersInv /\ CountersInv' /\ SampleTypeOK /\ PushesOK /\ SampleOK /\ UplinkGrows
      /\ UplinkExact /\ AccountsOK
  <2>1. Next
    BY DEF Next
  <2> QED BY <2>1, NextCounters DEF SampleInv
<1> DEFINE r == removing
<1>1. /\ UNCHANGED <<pc, prev, cur, cursor, steps, labels, failures, pushed, base>>
      /\ UNCHANGED <<iface, counted>> /\ removing' = None
      /\ r \in Ifindex /\ r # Uplink /\ iface[r] = None
  BY <1>0, CountersAssumption DEF HostStep, SweepRow, CountersInv, CountersTypeOK, RoomForOwners
<1>2. SampleTypeOK' /\ PushesOK' /\ (UplinkExact /\ (~overlapped' => ~overlapped) => UplinkExact')
  BY <1>0, <1>1 DEF SampleTypeOK, PushesOK, UplinkExact, HostStep, Sampling
<1>3. CASE rows' = SweptRows(r) /\ UNCHANGED missed
  <2>1. /\ rows \in [Ifindex -> [Cpu -> Nat] \cup {None}] /\ rows'[r] = None
        /\ \A j \in Ifindex \ {r} : rows'[j] = rows[j]
    BY <1>0, <1>1, <1>3 DEF SweptRows, CountersInv, CountersTypeOK
  <2>2. /\ \A j \in Ifindex \ {r} : Total(rows', j) = Total(rows, j)
        /\ Total(rows', r) = 0
        /\ \A j \in Ifindex : Total(rows, j) \in Nat /\ (rows[j] = None => Total(rows, j) = 0)
    BY <1>0, <2>1, Totals DEF Total
  <2>3. CASE overlapped'
    BY <1>0, <1>2, <2>3 DEF SampleInv, SampleOK, UplinkGrows, UplinkExact, AccountsOK
  <2>4. CASE ~overlapped'
    <3>1. ~overlapped /\ (pc = "select" \/ rows[r] = None)
      BY <1>0, <1>1, <2>1, <2>4 DEF HostStep, Sampling, Rows, SampleTypeOK
    <3>2. cur[r] = 0
      <4>1. CASE pc = "select"
        BY <1>0, <1>1, <3>1, <4>1 DEF SampleOK, Passed, PushesOK
      <4>2. CASE rows[r] = None
        BY <1>0, <1>1, <2>2, <3>1, <4>2 DEF SampleOK, SampleTypeOK
      <4> QED BY <3>1, <4>1, <4>2
    <3>3. \A i : (Passed(i)' <=> Passed(i)) /\ Last(i)' = Last(i) /\ (Growth(i))' = Growth(i)
      BY <1>1 DEF Passed, Last, Growth
    <3>4. SampleOK'
      <4>1. pc \in {"next", "read"} /\ cursor # None => rows'[cursor] # None
        BY <1>0, <1>1, <2>1, <3>1 DEF SampleOK, SampleTypeOK
      <4>2. ASSUME NEW i \in Ifindex PROVE cur[i] <= Total(rows', i) /\ (~Passed(i) => cur[i] = 0)
        BY <1>0, <1>1, <2>2, <3>1, <3>2 DEF SampleOK
      <4> QED BY <1>1, <3>3, <4>1, <4>2 DEF SampleOK
    <3>5. UplinkGrows'
      BY <1>0, <1>1, <2>2, <3>1, <3>3, NamesOfInterfaces DEF UplinkGrows
    <3>6. AccountsOK'
      <4> SUFFICES ASSUME ~missed
                   PROVE  /\ \A j \in Ifindex : iface[j] # None => Unpushed(j)'
                          /\ \A n \in Name : pushed[n] <= counted[n]
                          /\ LabelsOK'
        BY <1>1, <1>3 DEF AccountsOK
      <4>1. /\ \A j \in Ifindex : iface[j] # None => Unpushed(j)
            /\ \A n \in Name : pushed[n] <= counted[n]
            /\ LabelsOK
        BY <1>0, <3>1 DEF AccountsOK
      <4>2. ASSUME NEW j \in Ifindex, iface[j] # None PROVE Unpushed(j)'
        <5>1. j # r
          BY <1>1, <4>2
        <5> QED BY <1>1, <2>2, <3>3, <4>1, <4>2, <5>1 DEF Unpushed
      <4>3. LabelsOK'
        <5> SUFFICES ASSUME pc = "push", NEW k \in Ifindex, labels[k] # None
                     PROVE  /\ pushed[labels[k]] + Growth(k) <= counted[labels[k]]
                            /\ iface[k] # labels[k] => LabelStale(k)'
          BY <1>1, <3>3 DEF LabelsOK
        <5>1. /\ pushed[labels[k]] + Growth(k) <= counted[labels[k]]
              /\ iface[k] # labels[k] => LabelStale(k)
          BY <4>1 DEF LabelsOK
        <5>2. LabelStale(k) => cur[k] = 0
          BY <3>2 DEF LabelStale
        <5>3. cur[k] = 0 => LabelStale(k)'
          BY <1>1 DEF LabelStale
        <5> QED BY <5>1, <5>2, <5>3
      <4> QED BY <4>1, <4>2, <4>3
    <3> QED BY <1>0, <1>2, <3>1, <3>4, <3>5, <3>6 DEF SampleInv
  <2> QED BY <2>3, <2>4
<1>4. CASE rows' = rows /\ missed' = TRUE
  <2>1. overlapped' = overlapped
    BY <1>0, <1>4 DEF HostStep, SampleTypeOK, Rows
  <2>2. SampleOK' /\ UplinkGrows' /\ AccountsOK'
    BY <1>0, <1>1, <1>4, <2>1 DEF SampleOK, UplinkGrows, AccountsOK, Passed, Last
  <2> QED BY <1>0, <1>2, <2>1, <2>2 DEF SampleInv
<1> QED BY <1>3, <1>4 DEF SweepRow

\* The first of the keys is the least of them.
LEMMA FirstIsLeast ==
    ASSUME NEW S \in SUBSET Nat, S # {}
    PROVE  First(S) \in S /\ \A j \in S : First(S) <= j
BY LeastExists DEF First

\* The next key is past the cursor, and there are no rows in between.
LEMMA NextKey ==
    ASSUME SampleInv, ~overlapped, pc = "next", After(cursor) # {}
    PROVE  LET key == First(After(cursor)) IN
           /\ key \in Ifindex /\ rows[key] # None
           /\ cursor # None => cursor < key
           /\ \A i \in Ifindex : i < key /\ ~Passed(i) => rows[i] = None
<1>1. SampleTypeOK /\ SampleOK /\ Ifindex \subseteq Nat /\ None \notin Ifindex
  BY CountersAssumption DEF SampleInv
<1>2. After(cursor) \in SUBSET Nat /\ After(cursor) \subseteq Rows(rows)
  BY <1>1 DEF After, Rows
<1> DEFINE key == First(After(cursor))
<1>3. key \in After(cursor) /\ \A j \in After(cursor) : key <= j
  BY <1>2, FirstIsLeast
<1> HIDE DEF key
<1>4. key \in Ifindex /\ rows[key] # None
  BY <1>2, <1>3 DEF Rows
<1>5. CASE cursor = None
  <2>1. After(cursor) = Rows(rows)
    BY <1>5 DEF After
  <2>2. ASSUME NEW i \in Ifindex, i < key PROVE rows[i] = None
    BY <1>1, <1>3, <1>4, <2>1, <2>2 DEF Rows
  <2> QED BY <1>4, <1>5, <2>2 DEF key
<1>6. CASE cursor # None
  <2>1. After(cursor) = {i \in Rows(rows) : i > cursor} /\ cursor \in Ifindex
    BY <1>1, <1>6 DEF After, SampleOK, SampleTypeOK
  <2>2. cursor < key
    BY <1>1, <1>3, <1>4, <2>1
  <2>3. ASSUME NEW i \in Ifindex, i < key, ~Passed(i) PROVE rows[i] = None
    <3>1. i > cursor
      BY <1>1, <1>6, <2>1, <2>3 DEF Passed
    <3> QED BY <1>1, <1>3, <1>4, <2>1, <2>3, <3>1 DEF Rows
  <2> QED BY <1>4, <2>2, <2>3 DEF key
<1> QED BY <1>5, <1>6

\* At the end of the sample, a key that was not passed has no row.
LEMMA NoKeyLeft ==
    ASSUME SampleInv, ~overlapped, pc = "next", After(cursor) = {}, NEW i \in Ifindex, ~Passed(i)
    PROVE  rows[i] = None
<1>1. SampleTypeOK /\ SampleOK /\ Ifindex \subseteq Nat /\ None \notin Ifindex
  BY CountersAssumption DEF SampleInv
<1>2. CASE cursor = None
  BY <1>2 DEF After, Rows
<1>3. CASE cursor # None
  <2>1. cursor \in Ifindex /\ {j \in Rows(rows) : j > cursor} = {}
    BY <1>1, <1>3 DEF After, SampleOK, SampleTypeOK
  <2>2. i > cursor
    BY <1>1, <1>3, <2>1 DEF Passed
  <2> QED BY <2>1, <2>2 DEF Rows
<1> QED BY <1>2, <1>3

\* The accounts stand while nothing is counted or pushed, and a key is passed once
\* its row has been read, or if it has none.
LEMMA AccountsStand ==
    ASSUME SampleInv, SampleTypeOK', UNCHANGED <<counterVars, prev, pushed, overlapped>>,
           \A i \in Ifindex : ~overlapped /\ Passed(i)' =>
                \/ cur'[i] = Total(rows, i)
                \/ Passed(i) /\ cur'[i] = cur[i]
                \/ rows[i] = None
    PROVE  /\ UplinkGrows'
           /\ ~overlapped /\ ~missed =>
                /\ \A i \in Ifindex : iface[i] # None => Unpushed(i)'
                /\ \A n \in Name : pushed[n] <= counted[n]
<1>0. CountersInv /\ SampleTypeOK /\ UplinkGrows /\ UplinkExact /\ AccountsOK
  BY DEF SampleInv
<1>1. UNCHANGED <<iface, rows, removing, counted, missed>>
  BY DEF counterVars
<1>2. \A i \in Ifindex : Last(i)' = Last(i) /\ Last(i) \in Nat /\ cur[i] \in Nat /\ cur'[i] \in Nat
  BY <1>0 DEF Last, SampleTypeOK
<1>3. \A i \in Ifindex : Total(rows, i) \in Nat /\ (rows[i] = None => Total(rows, i) = 0)
  BY <1>0, Totals
<1>4. ASSUME ~overlapped, NEW i \in Ifindex, Last(i) <= Total(rows, i),
             Passed(i) => Last(i) <= cur[i], Passed(i)'
      PROVE  Last(i) <= cur'[i]
  BY <1>2, <1>3, <1>4
<1>5. UplinkGrows'
  BY <1>0, <1>1, <1>2, <1>4, NamesOfInterfaces DEF UplinkGrows
<1>6. ASSUME ~overlapped, ~missed, NEW i \in Ifindex, iface[i] # None PROVE Unpushed(i)'
  <2>1. Unpushed(i)
    BY <1>0, <1>6 DEF AccountsOK
  <2>2. Last(i) <= Total(rows, i) /\ (Passed(i) => Last(i) <= cur[i]) => (Passed(i)' => Last(i) <= cur'[i])
    BY <1>4, <1>6
  <2> QED BY <1>1, <1>2, <2>1, <2>2 DEF Unpushed
<1> QED BY <1>0, <1>5, <1>6 DEF AccountsOK

\* A sample begins, or is given up.
LEMMA IdleKeepsSamples ==
    ASSUME SampleInv, Tick \/ SampleAborted \/ SampleFails
    PROVE  SampleInv'
<1>0. /\ CountersInv /\ SampleTypeOK /\ PushesOK /\ SampleOK /\ UplinkGrows /\ UplinkExact /\ AccountsOK
      /\ None \notin Ifindex
  BY CountersAssumption DEF SampleInv
<1>1. UNCHANGED <<counterVars, prev, pushed, base, overlapped>>
  BY DEF Tick, SampleAborted, SampleFails, Fail, KeptPrev
<1>2. /\ pc' \in {"select", "next"} /\ cursor' = None /\ cur' \in [Ifindex -> Nat]
      /\ labels' \in [Ifindex -> Name \cup {None}]
  BY <1>0 DEF Tick, SampleAborted, SampleFails, Fail, Idle, SampleTypeOK, PushesOK, Nothing, NoLabels
<1>3. \A i \in Ifindex : ~overlapped => cur'[i] = 0
  BY <1>0 DEF Tick, SampleAborted, SampleFails, Fail, Idle, Nothing, SampleOK, Passed, PushesOK
<1>4. SampleTypeOK' /\ PushesOK' /\ CountersInv' /\ UplinkExact'
  BY <1>0, <1>1, <1>2, ServeLeavesCounters DEF SampleTypeOK, PushesOK, UplinkExact, counterVars
<1>5. \A i : ~Passed(i)'
  BY <1>2 DEF Passed
<1>6. SampleOK'
  BY <1>0, <1>1, <1>2, <1>3, Totals DEF SampleOK, counterVars
<1>7. UplinkGrows' /\ AccountsOK'
  BY <1>1, <1>2, <1>4, <1>5, AccountsStand DEF AccountsOK, LabelsOK, counterVars
<1> QED BY <1>4, <1>6, <1>7 DEF SampleInv

\* The iterator moves on.
LEMMA NextKeepsSamples ==
    ASSUME SampleInv, SampleNext
    PROVE  SampleInv'
<1>0. /\ CountersInv /\ SampleTypeOK /\ PushesOK /\ SampleOK /\ None \notin Ifindex /\ Ifindex \subseteq Nat
      /\ UplinkExact
  BY CountersAssumption DEF SampleInv
<1>1. /\ UNCHANGED <<counterVars, prev, cur, labels, pushed, base, overlapped>>
      /\ pc = "next" /\ pc' = "read" /\ cursor' = First(After(cursor)) /\ After(cursor) # {}
  BY DEF SampleNext
<1>2. cursor' \in Ifindex
  <2>1. After(cursor) \in SUBSET Nat /\ After(cursor) \subseteq Ifindex
    BY <1>0 DEF After, Rows
  <2> QED BY <1>1, <2>1, FirstIsLeast
<1>3. SampleTypeOK' /\ PushesOK' /\ CountersInv' /\ UplinkExact'
  BY <1>0, <1>1, <1>2, ServeLeavesCounters DEF SampleTypeOK, PushesOK, UplinkExact, counterVars
<1>4. ASSUME ~overlapped
      PROVE  /\ rows[cursor'] # None
             /\ \A i \in Ifindex : Passed(i) => Passed(i)'
             /\ \A i \in Ifindex : Passed(i)' => Passed(i) \/ rows[i] = None
  <2>1. /\ rows[cursor'] # None /\ (cursor # None => cursor < cursor')
        /\ \A i \in Ifindex : i < cursor' /\ ~Passed(i) => rows[i] = None
    BY <1>1, <1>4, NextKey
  <2>2. ASSUME NEW i \in Ifindex, Passed(i) PROVE Passed(i)'
    <3>1. cursor \in Ifindex /\ i <= cursor
      BY <1>0, <1>1, <2>2 DEF Passed, SampleTypeOK
    <3>2. i < cursor'
      BY <1>0, <1>2, <2>1, <3>1
    <3> QED BY <1>0, <1>2, <3>2 DEF Passed
  <2>3. ASSUME NEW i \in Ifindex, Passed(i)' PROVE i < cursor'
    BY <1>1, <2>3 DEF Passed
  <2> QED BY <2>1, <2>2, <2>3
<1>5. SampleOK'
  BY <1>0, <1>1, <1>4 DEF SampleOK, counterVars
<1>6. UplinkGrows' /\ AccountsOK'
  BY <1>1, <1>3, <1>4, AccountsStand DEF AccountsOK, LabelsOK, counterVars
<1> QED BY <1>3, <1>5, <1>6 DEF SampleInv

\* The iterator's row is read.
LEMMA ReadKeepsSamples ==
    ASSUME SampleInv, SampleRead
    PROVE  SampleInv'
<1>0. /\ CountersInv /\ SampleTypeOK /\ PushesOK /\ SampleOK /\ None \notin Ifindex /\ Ifindex \subseteq Nat
      /\ UplinkExact
  BY CountersAssumption DEF SampleInv
<1>1. /\ UNCHANGED <<counterVars, prev, cursor, labels, pushed, base, overlapped>>
      /\ pc = "read" /\ pc' = "next" /\ cur' = [cur EXCEPT ![cursor] = @ + Total(rows, cursor)]
  BY DEF SampleRead
<1>2. cursor \in Ifindex /\ cur \in [Ifindex -> Nat] /\ \A i \in Ifindex : Total(rows, i) \in Nat
  BY <1>0, <1>1, Totals DEF PushesOK, SampleTypeOK
<1>3. /\ cur' \in [Ifindex -> Nat] /\ cur'[cursor] = cur[cursor] + Total(rows, cursor)
      /\ \A i \in Ifindex \ {cursor} : cur'[i] = cur[i]
  BY <1>1, <1>2
<1>4. SampleTypeOK' /\ PushesOK' /\ CountersInv' /\ UplinkExact'
  BY <1>0, <1>1, <1>3, ServeLeavesCounters DEF SampleTypeOK, PushesOK, UplinkExact, counterVars
<1>5. ~Passed(cursor) /\ \A i \in Ifindex : Passed(i)' <=> Passed(i) \/ i = cursor
  BY <1>0, <1>1, <1>2 DEF Passed
<1>6. ~overlapped => cur'[cursor] = Total(rows, cursor)
  BY <1>0, <1>2, <1>3, <1>5 DEF SampleOK
<1>7. SampleOK'
  <2> SUFFICES ASSUME ~overlapped
               PROVE  /\ rows[cursor] # None
                      /\ \A i \in Ifindex : cur'[i] <= Total(rows, i) /\ (~Passed(i)' => cur'[i] = 0)
    BY <1>1 DEF SampleOK, counterVars
  <2>1. rows[cursor] # None
    BY <1>0, <1>1, <1>2 DEF SampleOK
  <2>2. ASSUME NEW i \in Ifindex PROVE cur'[i] <= Total(rows, i) /\ (~Passed(i)' => cur'[i] = 0)
    <3>1. cur[i] <= Total(rows, i) /\ (~Passed(i) => cur[i] = 0)
      BY <1>0 DEF SampleOK
    <3>2. CASE i = cursor
      BY <1>2, <1>5, <1>6, <3>2
    <3>3. CASE i # cursor
      BY <1>3, <1>5, <3>1, <3>3
    <3> QED BY <3>2, <3>3
  <2> QED BY <2>1, <2>2
<1>8. \A i \in Ifindex : ~overlapped /\ Passed(i)' =>
        cur'[i] = Total(rows, i) \/ (Passed(i) /\ cur'[i] = cur[i])
  BY <1>3, <1>5, <1>6
<1>9. UplinkGrows' /\ AccountsOK'
  BY <1>1, <1>4, <1>8, AccountsStand DEF AccountsOK, LabelsOK, counterVars
<1> QED BY <1>4, <1>7, <1>9 DEF SampleInv

\* The first sample ends: what was counted before it is not pushed.
LEMMA FirstSampleKept ==
    ASSUME SampleInv, SampleEnd, prev = None, prev' = cur, base' = cur[Uplink], Idle
    PROVE  SampleInv'
<1>0. /\ CountersInv /\ SampleTypeOK /\ PushesOK /\ SampleOK /\ AccountsOK
      /\ None \notin [Ifindex -> Nat]
  BY ServeAssumption DEF SampleInv
<1>1. /\ UNCHANGED <<counterVars, pushed, overlapped>>
      /\ pc' = "select" /\ cursor' = None /\ cur' = Nothing /\ labels' = NoLabels
  BY DEF SampleEnd, Idle
<1>2. /\ cur \in [Ifindex -> Nat] /\ cur # None /\ (\A n \in Name : pushed[n] = 0)
      /\ \A i \in Ifindex : Total(rows, i) \in Nat /\ Last(i) = 0
  BY <1>0, Totals DEF SampleTypeOK, PushesOK, Last
<1>3. SampleTypeOK' /\ PushesOK' /\ CountersInv' /\ UplinkExact'
  <2>1. SampleTypeOK'
    BY <1>0, <1>1, <1>2, NamesOfInterfaces DEF SampleTypeOK, Nothing, NoLabels, counterVars
  <2>3. UplinkExact'
    BY <1>0, <1>1, <1>2, NamesOfInterfaces DEF UplinkExact
  <2> QED BY <1>0, <1>1, <1>2, <2>1, <2>3, ServeLeavesCounters DEF PushesOK
<1>4. \A i : ~Passed(i)'
  BY <1>1 DEF Passed
<1>5. \A i : Last(i)' = cur[i]
  BY <1>2 DEF Last
<1>6. SampleOK'
  BY <1>1, <1>2 DEF SampleOK, Nothing, counterVars
<1>7. UplinkGrows'
  BY <1>0, <1>1, <1>4, <1>5, NamesOfInterfaces DEF UplinkGrows, SampleOK, counterVars
<1>8. AccountsOK'
  <2> SUFFICES ASSUME ~overlapped, ~missed
               PROVE  /\ \A i \in Ifindex : iface[i] # None => Unpushed(i)'
                      /\ \A n \in Name : pushed[n] <= counted[n]
    BY <1>1 DEF AccountsOK, LabelsOK, counterVars
  <2>1. ASSUME NEW i \in Ifindex, iface[i] # None PROVE Unpushed(i)'
    <3>1. Unpushed(i) /\ iface[i] \in Name /\ counted \in [Name -> Nat]
      BY <1>0, <2>1, NamesOfInterfaces DEF AccountsOK, SampleTypeOK
    <3>2. counted[iface[i]] >= pushed[iface[i]] + Total(rows, i)
      BY <1>2, <3>1 DEF Unpushed
    <3> QED BY <1>1, <3>2 DEF Unpushed, counterVars
  <2> QED BY <1>0, <2>1 DEF AccountsOK
<1> QED BY <1>3, <1>6, <1>7, <1>8 DEF SampleInv

\* A later one ends, and is kept to be compared.
LEMMA EndKeepsSamples ==
    ASSUME SampleInv, SampleEnd, prev # None, pc' = "label",
           UNCHANGED <<prev, cur, cursor, steps, labels, base>>
    PROVE  SampleInv'
<1>0. CountersInv /\ SampleTypeOK /\ PushesOK /\ SampleOK /\ UplinkExact
  BY DEF SampleInv
<1>1. /\ UNCHANGED <<counterVars, pushed, overlapped>> /\ pc = "next" /\ After(cursor) = {}
  BY DEF SampleEnd
<1>2. SampleTypeOK' /\ PushesOK' /\ CountersInv' /\ UplinkExact'
  BY <1>0, <1>1, ServeLeavesCounters DEF SampleTypeOK, PushesOK, UplinkExact, counterVars
<1>3. \A i \in Ifindex : ~overlapped => Passed(i) \/ rows[i] = None
  BY <1>1, NoKeyLeft
<1>4. \A i : Passed(i)'
  BY DEF Passed
<1>5. SampleOK'
  BY <1>0, <1>1, <1>4 DEF SampleOK, counterVars
<1>6. UplinkGrows' /\ AccountsOK'
  BY <1>1, <1>2, <1>3, AccountsStand DEF AccountsOK, LabelsOK, counterVars
<1> QED BY <1>2, <1>5, <1>6 DEF SampleInv

\* What a row grew is a natural number, and no more than the sample has of it.
LEMMA GrowthType ==
    ASSUME SampleTypeOK, prev # None, NEW i \in Ifindex
    PROVE  /\ Growth(i) \in Nat /\ Growth(i) <= cur[i] /\ prev[i] \in Nat /\ cur[i] \in Nat
           /\ cur[i] >= prev[i] => Growth(i) = cur[i] - prev[i]
           /\ cur[i] < prev[i] => Growth(i) = cur[i]
<1>1. prev[i] \in Nat /\ cur[i] \in Nat
  BY DEF SampleTypeOK
<1> QED BY <1>1 DEF Growth

\* Its growth will have been counted on the interface that the ifindex has now.
LEMMA LabelKeepsSamples ==
    ASSUME SampleInv, Label
    PROVE  SampleInv'
<1>0. /\ CountersInv /\ SampleTypeOK /\ PushesOK /\ SampleOK /\ UplinkExact /\ AccountsOK
  BY DEF SampleInv
<1>1. /\ UNCHANGED <<counterVars, prev, cur, cursor, pushed, base, overlapped>>
      /\ pc = "label" /\ pc' = "push" /\ labels' = iface /\ prev # None
  BY <1>0 DEF Label, PushesOK
<1>2. \A i : Passed(i) /\ Passed(i)'
  BY <1>1 DEF Passed
<1>3. SampleTypeOK' /\ PushesOK' /\ CountersInv' /\ UplinkExact' /\ SampleOK'
  <2>1. CountersInv'
    BY <1>0, <1>1, ServeLeavesCounters
  <2>2. labels' \in [Ifindex -> Name \cup {None}]
    BY <1>0, <1>1 DEF CountersInv, CountersTypeOK, Name
  <2>3. SampleTypeOK' /\ UplinkExact'
    BY <1>0, <1>1, <2>2 DEF SampleTypeOK, UplinkExact, counterVars
  <2>4. PushesOK'
    BY <1>0, <1>1, NamesOfInterfaces DEF PushesOK, CountersInv, OneIfindexEach
  <2>5. SampleOK'
    BY <1>0, <1>1, <1>2 DEF SampleOK, counterVars
  <2> QED BY <2>1, <2>3, <2>4, <2>5
<1>4. /\ UplinkGrows'
      /\ ~overlapped /\ ~missed =>
            /\ \A i \in Ifindex : iface[i] # None => Unpushed(i)'
            /\ \A n \in Name : pushed[n] <= counted[n]
  BY <1>1, <1>2, <1>3, AccountsStand
<1>5. ASSUME ~overlapped, ~missed PROVE LabelsOK'
  <2> SUFFICES ASSUME NEW i \in Ifindex, iface[i] # None
               PROVE  pushed[iface[i]] + Growth(i) <= counted[iface[i]]
    BY <1>1 DEF LabelsOK, Growth, counterVars
  <2>1. Unpushed(i) /\ iface[i] \in Name /\ cur[i] <= Total(rows, i) /\ Total(rows, i) \in Nat
    BY <1>0, <1>5, NamesOfInterfaces, Totals DEF AccountsOK, SampleOK
  <2>2. counted[iface[i]] \in Nat /\ pushed[iface[i]] \in Nat
    BY <1>0, <2>1 DEF SampleTypeOK
  <2>3. /\ Growth(i) \in Nat /\ Growth(i) <= cur[i] /\ prev[i] \in Nat /\ cur[i] \in Nat
        /\ cur[i] >= prev[i] => Growth(i) = cur[i] - prev[i]
    BY <1>0, <1>1, GrowthType
  <2>4. Last(i) = prev[i] /\ Passed(i)
    BY <1>1, <1>2 DEF Last
  <2> QED BY <2>1, <2>2, <2>3, <2>4 DEF Unpushed
<1>6. AccountsOK'
  BY <1>1, <1>4, <1>5 DEF AccountsOK, counterVars
<1> QED BY <1>3, <1>4, <1>6 DEF SampleInv

\* A push adds to a name what the one row labelled with it grew.
LEMMA PushedByName ==
    ASSUME SampleInv, pc = "push", NEW n \in Name
    PROVE  /\ \A i \in Ifindex : labels[i] = n => PushedGrowth[n] = pushed[n] + Growth(i)
           /\ (\A i \in Ifindex : labels[i] # n) => PushedGrowth[n] = pushed[n]
<1>0. SampleTypeOK /\ PushesOK /\ prev # None /\ IsFiniteSet(Ifindex) /\ None \notin Name
  BY NamesOfInterfaces, CountersAssumption DEF SampleInv, PushesOK
<1> DEFINE f == [i \in Ifindex |-> Growth(i)]
           S == {i \in Ifindex : labels[i] = n}
<1>1. PushedGrowth[n] = pushed[n] + SumFunctionOnSet(f, S)
  BY DEF PushedGrowth
<1>2. (\A i \in Ifindex : f[i] = Growth(i) /\ f[i] \in Nat) /\ pushed[n] \in Nat
  BY <1>0, GrowthType DEF SampleTypeOK
<1> HIDE DEF f
<1>3. /\ SumFunctionOnSet(f, {}) = 0
      /\ \A T \in SUBSET Ifindex :
            \A x \in T : SumFunctionOnSet(f, T) = f[x] + SumFunctionOnSet(f, T \ {x})
  BY <1>0, <1>2, SumOfNats
<1>4. ASSUME NEW i \in Ifindex, labels[i] = n PROVE PushedGrowth[n] = pushed[n] + Growth(i)
  <2>1. S = {i}
    BY <1>0, <1>4 DEF PushesOK
  <2>2. {i} \ {i} = {} /\ i \in {i} /\ {i} \in SUBSET Ifindex
    OBVIOUS
  <2>3. SumFunctionOnSet(f, S) = f[i] + 0
    BY <1>3, <2>1, <2>2
  <2>4. f[i] + 0 = Growth(i)
    BY <1>2
  <2> QED BY <1>1, <2>3, <2>4
<1>5. ASSUME \A i \in Ifindex : labels[i] # n PROVE PushedGrowth[n] = pushed[n]
  <2>1. S = {}
    BY <1>5
  <2> QED BY <1>1, <1>2, <1>3, <2>1
<1> QED BY <1>4, <1>5

\* The growth is pushed, and the sample becomes the last one.
LEMMA PushKeepsSamples ==
    ASSUME SampleInv, Push
    PROVE  SampleInv'
<1>0. /\ CountersInv /\ SampleTypeOK /\ PushesOK /\ SampleOK /\ UplinkGrows /\ UplinkExact
      /\ AccountsOK /\ None \notin [Ifindex -> Nat]
  BY ServeAssumption DEF SampleInv
<1>1. /\ UNCHANGED <<counterVars, base, overlapped>> /\ pushed' = PushedGrowth /\ prev' = cur
      /\ pc = "push" /\ pc' = "select" /\ cursor' = None /\ cur' = Nothing /\ labels' = NoLabels
      /\ prev # None
  BY <1>0 DEF Push, Idle, PushesOK
<1>2. /\ cur \in [Ifindex -> Nat] /\ cur # None
      /\ \A i \in Ifindex : Total(rows, i) \in Nat
      /\ \A i \in Ifindex : Growth(i) \in Nat
  BY <1>0, <1>1, Totals, GrowthType DEF SampleTypeOK
<1>3. \A n \in Name : /\ \A i \in Ifindex : labels[i] = n => pushed'[n] = pushed[n] + Growth(i)
                      /\ (\A i \in Ifindex : labels[i] # n) => pushed'[n] = pushed[n]
  BY <1>1, PushedByName
<1>4. pushed' \in [Name -> Nat]
  <2>1. pushed' = [n \in Name |-> pushed'[n]]
    BY <1>1 DEF PushedGrowth
  <2>2. ASSUME NEW n \in Name PROVE pushed'[n] \in Nat
    <3>1. pushed[n] \in Nat
      BY <1>0 DEF SampleTypeOK
    <3> QED BY <1>2, <1>3, <3>1
  <2> QED BY ONLY <2>1, <2>2
<1>5. SampleTypeOK' /\ PushesOK' /\ CountersInv'
  <2>1. SampleTypeOK'
    BY <1>0, <1>1, <1>2, <1>4, NamesOfInterfaces DEF SampleTypeOK, Nothing, NoLabels, counterVars
  <2> QED BY <1>0, <1>1, <1>2, <2>1, ServeLeavesCounters DEF PushesOK
<1>6. (\A i : ~Passed(i)' /\ Last(i)' = cur[i]) /\ (\A i : Passed(i)) /\ \A i : Last(i) = prev[i]
  BY <1>1, <1>2 DEF Passed, Last
<1>7. SampleOK'
  BY <1>1, <1>2 DEF SampleOK, Nothing, counterVars
<1>8. UplinkGrows'
  BY <1>0, <1>1, <1>6, NamesOfInterfaces DEF UplinkGrows, SampleOK, counterVars
<1>9. UplinkExact'
  <2> SUFFICES ASSUME ~overlapped PROVE base + pushed'["uplink"] = cur[Uplink]
    BY <1>1 DEF UplinkExact
  <2>1. Uplink \in Ifindex /\ "uplink" \in Name /\ labels[Uplink] = "uplink"
    BY <1>0, <1>1, NamesOfInterfaces DEF PushesOK
  <2>2. pushed'["uplink"] = pushed["uplink"] + Growth(Uplink)
    BY <1>3, <2>1
  <2>3. prev[Uplink] <= cur[Uplink] /\ base + pushed["uplink"] = prev[Uplink]
    BY <1>0, <1>1, <1>6 DEF UplinkGrows, UplinkExact
  <2>4. prev[Uplink] \in Nat /\ cur[Uplink] \in Nat /\ Growth(Uplink) = cur[Uplink] - prev[Uplink]
    BY <1>0, <1>1, <2>1, <2>3, GrowthType
  <2>5. base \in Nat /\ pushed["uplink"] \in Nat
    BY <1>0, <2>1 DEF SampleTypeOK
  <2> QED BY <2>2, <2>3, <2>4, <2>5
<1>10. AccountsOK'
  <2> SUFFICES ASSUME ~overlapped, ~missed
               PROVE  /\ \A i \in Ifindex : iface[i] # None => Unpushed(i)'
                      /\ \A n \in Name : pushed'[n] <= counted[n]
    BY <1>1 DEF AccountsOK, LabelsOK, counterVars
  <2>1. /\ \A i \in Ifindex : iface[i] # None => Unpushed(i)
        /\ \A n \in Name : pushed[n] <= counted[n]
        /\ \A i \in Ifindex : labels[i] # None =>
                /\ pushed[labels[i]] + Growth(i) <= counted[labels[i]]
                /\ iface[i] # labels[i] => LabelStale(i)
    BY <1>0, <1>1 DEF AccountsOK, LabelsOK
  <2>2. \A n \in Name : pushed'[n] <= counted[n]
    <3> TAKE n \in Name
    <3>1. CASE \E i \in Ifindex : labels[i] = n
      BY <1>0, <1>3, <2>1, <3>1, NamesOfInterfaces
    <3>2. CASE \A i \in Ifindex : labels[i] # n
      BY <1>3, <2>1, <3>2
    <3> QED BY <3>1, <3>2
  <2>3. ASSUME NEW i \in Ifindex, iface[i] # None PROVE Unpushed(i)'
    <3> DEFINE n == iface[i]
    <3>1. /\ n \in Name /\ n # None /\ Unpushed(i) /\ cur[i] <= Total(rows, i) /\ Total(rows, i) \in Nat
          /\ Last(i) = prev[i] /\ Passed(i)
      BY <1>0, <1>2, <1>6, <2>1, <2>3, NamesOfInterfaces DEF SampleOK
    <3>2. /\ Growth(i) \in Nat /\ Growth(i) <= cur[i] /\ prev[i] \in Nat /\ cur[i] \in Nat
          /\ cur[i] >= prev[i] => Growth(i) = cur[i] - prev[i]
          /\ cur[i] < prev[i] => Growth(i) = cur[i]
      BY <1>0, <1>1, GrowthType
    <3>3. counted[n] \in Nat /\ pushed[n] \in Nat
      BY <1>0, <3>1 DEF SampleTypeOK
    <3>4. /\ Unpushed(i)' <=>
                \/ counted[n] >= pushed'[n] + Total(rows, i)
                \/ counted[n] + cur[i] >= pushed'[n] + Total(rows, i) /\ cur[i] <= Total(rows, i)
          /\ Unpushed(i) <=>
                \/ counted[n] >= pushed[n] + Total(rows, i)
                \/ /\ counted[n] + prev[i] >= pushed[n] + Total(rows, i)
                   /\ prev[i] <= Total(rows, i) /\ prev[i] <= cur[i]
      BY <1>1, <1>6, <3>1 DEF Unpushed, counterVars
    <3> HIDE DEF n
    <3>5. CASE labels[i] = n
      <4>1. pushed'[n] = pushed[n] + Growth(i)
        BY <1>3, <3>1, <3>5
      <4> QED BY <3>1, <3>2, <3>3, <3>4, <4>1
    <3>6. CASE labels[i] # n
      <4>1. pushed'[n] = pushed[n]
        <5>1. CASE \E j \in Ifindex : labels[j] = n
          <6>1. PICK j \in Ifindex : labels[j] = n
            BY <5>1
          <6>2. iface[j] # n
            BY <2>3, <3>6, <6>1, <1>0 DEF n, CountersInv, OneIfindexEach
          <6>3. cur[j] = 0
            BY <2>1, <3>1, <6>1, <6>2 DEF LabelStale, n
          <6>4. Growth(j) = 0
            BY <1>0, <1>1, <6>3, GrowthType
          <6> QED BY <1>3, <3>1, <3>3, <6>1, <6>4
        <5>2. CASE \A j \in Ifindex : labels[j] # n
          BY <1>3, <3>1, <5>2
        <5> QED BY <5>1, <5>2
      <4> QED BY <3>1, <3>2, <3>3, <3>4, <4>1
    <3> QED BY <3>5, <3>6
  <2> QED BY <2>2, <2>3
<1> QED BY <1>5, <1>7, <1>8, <1>9, <1>10 DEF SampleInv

\* Before the first packet and the first sample.
LEMMA InitSamples == Init => SampleInv
<1> SUFFICES ASSUME Init PROVE SampleInv
  OBVIOUS
<1>1. CountersInv
  BY InitCounters
<1>2. SampleTypeOK
  BY <1>1, NamesOfInterfaces DEF Init, CountersInit, SampleTypeOK, Nothing, NoLabels
<1>3. PushesOK /\ UplinkExact
  BY DEF Init, CountersInit, PushesOK, UplinkExact
<1>4. (\A i \in Ifindex : Total(rows, i) = 0 /\ cur[i] = 0) /\ (\A i : Last(i) = 0 /\ ~Passed(i))
  BY DEF Init, CountersInit, NoRows, Nothing, Total, Last, Passed
<1>5. SampleOK
  BY <1>4 DEF Init, SampleOK
<1>6. UplinkGrows
  BY <1>1, <1>4, NamesOfInterfaces DEF UplinkGrows
<1>7. AccountsOK
  <2>1. \A n \in Name : pushed[n] = 0 /\ counted[n] = 0
    BY DEF Init, CountersInit
  <2>2. \A i \in Ifindex : iface[i] # None => Unpushed(i)
    BY <1>1, <1>4, <2>1, NamesOfInterfaces DEF Unpushed
  <2> QED BY <2>1, <2>2 DEF Init, AccountsOK, LabelsOK
<1> QED BY <1>1, <1>2, <1>3, <1>5, <1>6, <1>7 DEF SampleInv

\* Every step of packets, endpoints and serve keeps the accounts.
LEMMA NextSamples ==
    ASSUME SampleInv, [Next]_vars
    PROVE  SampleInv'
<1>1. CASE Tick \/ SampleAborted \/ SampleFails
  BY <1>1, IdleKeepsSamples
<1>2. CASE SampleNext
  BY <1>2, NextKeepsSamples
<1>3. CASE SampleRead
  BY <1>3, ReadKeepsSamples
<1>4. CASE SampleEnd
  BY <1>4, FirstSampleKept, EndKeepsSamples DEF SampleEnd
<1>5. CASE Label
  BY <1>5, LabelKeepsSamples
<1>6. CASE Push
  BY <1>6, PushKeepsSamples
<1>7. CASE HostStep
  BY <1>7, PacketsKeepSamples, PlugKeepsSamples, UnplugKeepsSamples, SweepKeepsSamples
     DEF HostStep, Endpoints
<1>8. CASE UNCHANGED vars
  <2>1. CountersInv'
    BY NextCounters DEF SampleInv
  <2> QED BY <1>8, <2>1 DEF vars, counterVars, serveVars, SampleInv, SampleTypeOK, PushesOK, SampleOK,
        UplinkGrows, UplinkExact, AccountsOK, LabelsOK, Unpushed, LabelStale, Growth, Passed, Last
<1> QED BY <1>1, <1>2, <1>3, <1>4, <1>5, <1>6, <1>7, <1>8 DEF Next, ServeStep

\* The state of counters and samples that the pushed figures rest on, in every
\* behaviour (maps.h increment_metric, serve.go flushCounters).
THEOREM SampleInvariance == Spec => []SampleInv
BY InitSamples, NextSamples, PTL DEF Spec

\* No more is pushed under an interface's tag than was counted on it, for any number
\* of interfaces, CPUs, packets, samples that fail and ifindexes that change owner, as
\* long as no sweep overlapped a sample or was missed (serve.go flushCounters).
THEOREM NeverOverReported == Spec => []NothingOverReported
<1>1. SampleInv => NothingOverReported
  BY DEF SampleInv, AccountsOK, NothingOverReported
<1> QED BY <1>1, SampleInvariance, PTL

\* All that the uplink's row grew by from the first sample to the last is pushed, under
\* the same conditions but for missed sweeps (serve.go flushCounters).
THEOREM UplinkAllPushed == Spec => []UplinkExact
<1>1. SampleInv => UplinkExact
  BY DEF SampleInv
<1> QED BY <1>1, SampleInvariance, PTL

=============================================================================
