----------------------------- MODULE GwlbProofs -----------------------------
(***************************************************************************)
(* For any numbers of commands, CPUs, endpoints, ifindexes and flows, and  *)
(* any number of killed commands and failed cleanups: IInv of Gwlb.tla is  *)
(* inductive, and the isolation properties follow from it.                 *)
(***************************************************************************)
EXTENDS Gwlb, TLAPS

-----------------------------------------------------------------------------
(* Jobs.  The invariant reads four fields of them: Moves says what a step  *)
(* makes of these in p's, and that it leaves the others' alone.            *)

Moves(p, pc, v, i, inserted) ==
    /\ job' \in [Proc -> JobType]
    /\ \A q \in Proc \ {p} : job'[q] = job[q]
    /\ job'[p].pc = pc /\ job'[p].vpce = v /\ job'[p].idx = i
    /\ job'[p].inserted = inserted

\* Only its pc.
MovesTo(p, pc) == Moves(p, pc, job[p].vpce, job[p].idx, job[p].inserted)

\* A step that rewrites p's job alone moves it as the new record says.
LEMMA JobMoves ==
    ASSUME TypeOK, NEW p \in Proc, NEW j \in JobType, job' = [job EXCEPT ![p] = j]
    PROVE  Moves(p, j.pc, j.vpce, j.idx, j.inserted)
BY DEF TypeOK, Moves

\* Goto moves only the pc.
LEMMA GotoMoves ==
    ASSUME TypeOK, NEW p \in Proc, NEW pc \in PC, Goto(p, pc)
    PROVE  MovesTo(p, pc)
<1> DEFINE j == [job[p] EXCEPT !.pc = pc]
<1>1. job[p] \in JobType
  BY DEF TypeOK
<1>2. /\ j \in JobType
      /\ j.pc = pc /\ j.vpce = job[p].vpce /\ j.idx = job[p].idx /\ j.inserted = job[p].inserted
  BY <1>1 DEF JobType
<1>3. job' = [job EXCEPT ![p] = j]
  BY DEF TypeOK, Goto, Faulted
<1> QED BY <1>2, <1>3, JobMoves DEF MovesTo

\* Faulted moves only the pc, too: the invariant does not read faulty.
LEMMA FaultedMoves ==
    ASSUME TypeOK, NEW p \in Proc, NEW pc \in PC, Faulted(p, pc)
    PROVE  MovesTo(p, pc)
<1> DEFINE j == [job[p] EXCEPT !.pc = pc, !.faulty = TRUE]
<1>1. job[p] \in JobType
  BY DEF TypeOK
<1>2. /\ j \in JobType
      /\ j.pc = pc /\ j.vpce = job[p].vpce /\ j.idx = job[p].idx /\ j.inserted = job[p].inserted
  BY <1>1 DEF JobType
<1>3. job' = [job EXCEPT ![p] = j]
  BY DEF TypeOK, Goto, Faulted
<1> QED BY <1>2, <1>3, JobMoves DEF MovesTo

\* Making the netns moves only the pc, too: the invariant does not read createdNetns.
LEMMA CreatedMoves ==
    ASSUME TypeOK, NEW p \in Proc, job' = [job EXCEPT ![p].pc = "veth", ![p].createdNetns = TRUE]
    PROVE  MovesTo(p, "veth")
<1> DEFINE j == [job[p] EXCEPT !.pc = "veth", !.createdNetns = TRUE]
<1>1. job[p] \in JobType /\ "veth" \in PC
  BY DEF TypeOK, PC
<1>2. /\ j \in JobType
      /\ j.pc = "veth" /\ j.vpce = job[p].vpce /\ j.idx = job[p].idx /\ j.inserted = job[p].inserted
  BY <1>1 DEF JobType
<1>3. job' = [job EXCEPT ![p] = j]
  BY DEF TypeOK, Goto, Faulted
<1> QED BY <1>2, <1>3, JobMoves DEF MovesTo

\* That netns.Get failed moves only the pc as well: the invariant does not read getFailed.
LEMMA GetFailedMoves ==
    ASSUME TypeOK, NEW p \in Proc,
           job' = [job EXCEPT ![p].pc = "undo_entry", ![p].getFailed = TRUE]
    PROVE  MovesTo(p, "undo_entry")
<1> DEFINE j == [job[p] EXCEPT !.pc = "undo_entry", !.getFailed = TRUE]
<1>1. job[p] \in JobType /\ "undo_entry" \in PC
  BY DEF TypeOK, PC
<1>2. /\ j \in JobType
      /\ j.pc = "undo_entry" /\ j.vpce = job[p].vpce /\ j.idx = job[p].idx
      /\ j.inserted = job[p].inserted
  BY <1>1 DEF JobType
<1>3. job' = [job EXCEPT ![p] = j]
  BY DEF TypeOK
<1> QED BY <1>2, <1>3, JobMoves DEF MovesTo

\* Whoever is at some step holds the lock.
LEMMA HoldsLock ==
    ASSUME TypeOK, NEW p \in Proc, job[p].pc # "idle"
    PROVE  lock = p /\ job[p] \in JobType
BY DEF TypeOK, Idle

\* The jobs of the invocations that do not hold the lock need no looking at.
LEMMA OtherJobs ==
    ASSUME TypeOK', NEW p \in Proc, lock' \in {p, None}, JobOK(p)'
    PROVE  JobsOK'
<1> SUFFICES ASSUME NEW q \in Proc, q # p PROVE JobOK(q)'
  BY DEF JobsOK
<1>1. job'[q] = Idle
  BY NoneAssumption DEF TypeOK
<1> QED
  BY <1>1 DEF JobOK, Idle, VpcePC, IdxPC, VethPC, FreshPC, UndoPC, UnwirePC, InsertedPC, EncapPC,
     NoPinInTheWay

\* A step that changes no device, map or run, though perhaps netns and pins.
LEMMA ControlStep ==
    ASSUME IInv, NEW p \in Proc, lock = p, job[p].pc # "idle",
           NEW pc, NEW v, NEW i, NEW inserted, Moves(p, pc, v, i, inserted),
           JobOK(p)',
           job[p].pc \in WaitPC => grace = {},
           netns' \subseteq Vpce, pinned' \subseteq Pin, encap_pin' \subseteq Ifindex,
           UNCHANGED <<cmdVars, veth, attached, grace, vpce_to_ifindex, mapVars, run, dirty>>
    PROVE  IInv'
<1> USE DEF IInv, cmdVars, devVars, pinVars, mapVars
<1>1. TypeOK'
  BY DEF TypeOK, Moves
<1>2. JobsOK'
  BY <1>1, OtherJobs
<1>3. DevicesOK'
  BY NoneAssumption DEF DevicesOK
<1>4. RunsOK'
  BY DEF RunsOK, InFlight
<1>5. EntriesOK'
  BY DEF EntriesOK, Unused
<1>6. EntriesBelongToOwner' /\ ReplyCarriesOwnHeader'
  BY DEF EntriesBelongToOwner, ReplyCarriesOwnHeader, Mine
<1> QED BY <1>1, <1>2, <1>3, <1>4, <1>5, <1>6

\* JobOK across a step that leaves the devices and the entries alone, for the
\* steps of the code that ask nothing new of them.
LEMMA SameUntouched ==
    ASSUME UNCHANGED <<attached, run, dirty, mapVars>>, NEW i
    PROVE  Untouched(i)' = Untouched(i)
BY DEF Untouched, Unused, InFlight, mapVars

\* setup's own steps (setup.go RunSetup) change pins only.
LEMMA SetupSteps ==
    ASSUME IInv, NEW p \in Proc,
           SetupLoad(p) \/ SetupAttachDecap(p) \/ SetupLoadEncap(p) \/ SetupPinEncap(p)
    PROVE  IInv'
<1> USE DEF At, devVars, pinVars, cmdVars, SetupLoad, SetupAttachDecap, SetupLoadEncap,
            SetupPinEncap, AfterFailedAttach
<1>1. TypeOK /\ JobOK(p)
  BY DEF IInv, JobsOK
<1>2. lock = p /\ job[p] \in JobType
  BY <1>1, HoldsLock
<1>3. PICK pc \in {"attach_decap", "load_encap", "pin_encap", "list", "done", "failed"} :
        Goto(p, pc)
  OBVIOUS
<1>4. MovesTo(p, pc)
  BY <1>1, <1>3, GotoMoves DEF PC
<1>5. JobOK(p)'
  BY <1>1, <1>4 DEF JobOK, Moves, MovesTo, VpcePC, IdxPC, VethPC, FreshPC, UndoPC, UnwirePC,
     InsertedPC, EncapPC, NoPinInTheWay
<1>6. pinned' \subseteq Pin /\ netns' \subseteq Vpce /\ encap_pin' \subseteq Ifindex
  BY <1>1 DEF TypeOK, Pin
<1> QED
  BY <1>2, <1>4, <1>5, <1>6, ControlStep DEF WaitPC, MovesTo

\* A step of p's that changes only its pc, netns and pins.
LEMMA ControlMove ==
    ASSUME IInv, NEW p \in Proc, NEW pc \in PC, MovesTo(p, pc), job[p].pc # "idle",
           JobOK(p) => JobOK(p)',
           job[p].pc \in WaitPC => grace = {},
           netns' \subseteq Vpce,
           UNCHANGED <<cmdVars, veth, attached, grace, pinVars, vpce_to_ifindex, mapVars, run, dirty>>
    PROVE  IInv'
<1>1. TypeOK /\ JobOK(p)
  BY DEF IInv, JobsOK
<1>2. lock = p
  BY <1>1, HoldsLock
<1> QED
  BY <1>1, <1>2, ControlStep DEF MovesTo, TypeOK, pinVars

\* The steps of add and its rollback that change no device.
LEMMA AddCheckStep == ASSUME IInv, NEW p \in Proc, AddCheck(p) PROVE IInv'
<1>1. TypeOK /\ UNCHANGED <<cmdVars, veth, netns, attached, grace, pinVars, vpce_to_ifindex, mapVars, run, dirty>>
  BY DEF IInv, AddCheck, devVars
<1>2. PICK pc \in PC : Goto(p, pc) /\ pc \in {"netns", "failed"}
                       /\ (pc = "netns" => vpce_to_ifindex[job[p].vpce] = None)
  BY DEF AddCheck, PC
<1>3. MovesTo(p, pc)
  BY <1>1, <1>2, GotoMoves
<1>4. JobOK(p) => JobOK(p)'
  BY <1>1, <1>2, <1>3 DEF JobOK, Moves, MovesTo, AddCheck, At, VpcePC, IdxPC, VethPC, FreshPC,
     UndoPC, UnwirePC, InsertedPC, EncapPC, NoPinInTheWay
<1> QED
  BY <1>1, <1>2, <1>3, <1>4, ControlMove DEF TypeOK, AddCheck, At, WaitPC

\* Configuring the veth, the script included (add.go 197-295), shares nothing.
LEMMA AddConfigureStep == ASSUME IInv, NEW p \in Proc, AddConfigure(p) PROVE IInv'
<1>1. TypeOK /\ UNCHANGED <<cmdVars, veth, attached, grace, pinVars, vpce_to_ifindex, mapVars, run, dirty>>
  BY DEF IInv, AddConfigure, devVars
<1>2. PICK pc \in PC : MovesTo(p, pc) /\ pc \in {"insert", "undo_entry"}
  BY <1>1, GotoMoves DEF AddConfigure, PC
<1>3. \A i : Untouched(i)' = Untouched(i)
  BY <1>1, SameUntouched
<1>4. JobOK(p) => JobOK(p)'
  BY <1>1, <1>2, <1>3 DEF JobOK, Moves, MovesTo, AddConfigure, At, VpcePC, IdxPC, VethPC, FreshPC,
     UndoPC, UnwirePC, InsertedPC, EncapPC, NoPinInTheWay
<1>5. netns' \subseteq Vpce
  BY <1>1, HoldsLock DEF TypeOK, AddConfigure, devVars
<1> QED
  BY <1>1, <1>2, <1>4, <1>5, ControlMove DEF AddConfigure, At, WaitPC, GraceOver

\* The rollback's LinkDel returns: its grace period is over.
LEMMA UndoWaitStep == ASSUME IInv, NEW p \in Proc, UndoWait(p) PROVE IInv'
<1>1. TypeOK /\ UNCHANGED <<cmdVars, veth, attached, grace, pinVars, vpce_to_ifindex, mapVars, run, dirty>>
  BY DEF IInv, UndoWait, devVars
<1>2. PICK pc \in PC : MovesTo(p, pc) /\ pc \in {"undo_sweep"}
  BY <1>1, GotoMoves DEF UndoWait, PC
<1>3. \A i : Untouched(i)' = Untouched(i)
  BY <1>1, SameUntouched
<1>4. JobOK(p) => JobOK(p)'
  BY <1>1, <1>2, <1>3 DEF JobOK, Moves, MovesTo, UndoWait, At, VpcePC, IdxPC, VethPC, FreshPC,
     UndoPC, UnwirePC, InsertedPC, EncapPC, NoPinInTheWay
<1>5. netns' \subseteq Vpce
  BY <1>1, HoldsLock DEF TypeOK, UndoWait, devVars
<1> QED
  BY <1>1, <1>2, <1>4, <1>5, ControlMove DEF UndoWait, At, WaitPC, GraceOver

\* The rollback deletes at most a netns (add.go 131-135).
LEMMA UndoNetnsStep == ASSUME IInv, NEW p \in Proc, UndoNetns(p) PROVE IInv'
<1>1. TypeOK /\ UNCHANGED <<cmdVars, veth, attached, grace, pinVars, vpce_to_ifindex, mapVars, run, dirty>>
  BY DEF IInv, UndoNetns, devVars
<1>2. PICK pc \in PC : MovesTo(p, pc) /\ pc \in {"failed"}
  BY <1>1, GotoMoves, FaultedMoves DEF UndoNetns, PC
<1>3. \A i : Untouched(i)' = Untouched(i)
  BY <1>1, SameUntouched
<1>4. JobOK(p) => JobOK(p)'
  BY <1>1, <1>2, <1>3 DEF JobOK, Moves, MovesTo, UndoNetns, At, VpcePC, IdxPC, VethPC, FreshPC,
     UndoPC, UnwirePC, InsertedPC, EncapPC, NoPinInTheWay
<1>5. netns' \subseteq Vpce
  BY <1>1, HoldsLock DEF TypeOK, UndoNetns, devVars
<1> QED
  BY <1>1, <1>2, <1>4, <1>5, ControlMove DEF UndoNetns, At, WaitPC, GraceOver

\* remove's LinkDel returns: its grace period is over.
LEMMA RemoveWaitStep == ASSUME IInv, NEW p \in Proc, RemoveWait(p) PROVE IInv'
<1>1. TypeOK /\ UNCHANGED <<cmdVars, veth, attached, grace, pinVars, vpce_to_ifindex, mapVars, run, dirty>>
  BY DEF IInv, RemoveWait, devVars
<1>2. PICK pc \in PC : MovesTo(p, pc) /\ pc \in {"sweep"}
  BY <1>1, GotoMoves DEF RemoveWait, PC
<1>3. \A i : Untouched(i)' = Untouched(i)
  BY <1>1, SameUntouched
<1>4. JobOK(p) => JobOK(p)'
  BY <1>1, <1>2, <1>3 DEF JobOK, Moves, MovesTo, RemoveWait, At, VpcePC, IdxPC, VethPC, FreshPC,
     UndoPC, UnwirePC, InsertedPC, EncapPC, NoPinInTheWay
<1>5. netns' \subseteq Vpce
  BY <1>1, HoldsLock DEF TypeOK, RemoveWait, devVars
<1> QED
  BY <1>1, <1>2, <1>4, <1>5, ControlMove DEF RemoveWait, At, WaitPC, GraceOver

\* remove deletes at most a netns (remove.go 88-90).
LEMMA RemoveNetnsStep == ASSUME IInv, NEW p \in Proc, RemoveNetns(p) PROVE IInv'
<1>1. TypeOK /\ UNCHANGED <<cmdVars, veth, attached, grace, pinVars, vpce_to_ifindex, mapVars, run, dirty>>
  BY DEF IInv, RemoveNetns, devVars
<1>2. PICK pc \in PC : MovesTo(p, pc) /\ pc \in {"done", "next"}
  BY <1>1, GotoMoves, FaultedMoves DEF RemoveNetns, PC
<1>3. \A i : Untouched(i)' = Untouched(i)
  BY <1>1, SameUntouched
<1>4. JobOK(p) => JobOK(p)'
  BY <1>1, <1>2, <1>3 DEF JobOK, Moves, MovesTo, RemoveNetns, At, VpcePC, IdxPC, VethPC, FreshPC,
     UndoPC, UnwirePC, InsertedPC, EncapPC, NoPinInTheWay
<1>5. netns' \subseteq Vpce
  BY <1>1, HoldsLock DEF TypeOK, RemoveNetns, devVars
<1> QED
  BY <1>1, <1>2, <1>4, <1>5, ControlMove DEF RemoveNetns, At, WaitPC, GraceOver

\* add makes at most a netns, and deletes at most one (add.go 140-153, utils.go 202-216).
LEMMA AddNetnsStep == ASSUME IInv, NEW p \in Proc, AddNetns(p) PROVE IInv'
<1>1. TypeOK /\ UNCHANGED <<cmdVars, veth, attached, grace, pinVars, vpce_to_ifindex, mapVars, run, dirty>>
  BY DEF IInv, AddNetns, devVars
<1>2. PICK pc \in PC : MovesTo(p, pc) /\ pc \in {"veth", "undo_entry"}
  BY <1>1, GotoMoves, CreatedMoves, GetFailedMoves, FaultedMoves DEF AddNetns, PC
<1>3. \A i : Untouched(i)' = Untouched(i)
  BY <1>1, SameUntouched
<1>4. JobOK(p) => JobOK(p)'
  BY <1>1, <1>2, <1>3 DEF JobOK, Moves, MovesTo, AddNetns, At, VpcePC, IdxPC, VethPC, FreshPC,
     UndoPC, UnwirePC, InsertedPC, EncapPC, NoPinInTheWay
<1>5. netns' \subseteq Vpce
  <2>1. job[p].vpce \in Vpce
    BY <1>1, HoldsLock DEF IInv, JobsOK, JobOK, JobType, VpcePC, EncapPC, FreshPC, AddNetns, At
  <2> QED BY <1>1, <2>1 DEF TypeOK, AddNetns
<1> QED
  BY <1>1, <1>2, <1>4, <1>5, ControlMove DEF AddNetns, At, WaitPC, GraceOver

\* teardown lists the endpoints (teardown.go 37-40).
LEMMA TeardownListStep == ASSUME IInv, NEW p \in Proc, TeardownList(p) PROVE IInv'
<1>1. TypeOK /\ UNCHANGED <<cmdVars, veth, netns, attached, grace, pinVars, vpce_to_ifindex, mapVars, run, dirty>>
  BY DEF IInv, TeardownList, devVars
<1>2. job[p] \in JobType /\ "next" \in PC /\ Provisioned \in SUBSET Vpce
  BY <1>1 DEF TypeOK, PC, Provisioned
<1>3. PICK todo \in {Provisioned, {}}, faulty \in {job[p].faulty, TRUE} :
        job' = [job EXCEPT ![p] = [job[p] EXCEPT !.pc = "next", !.todo = todo, !.faulty = faulty]]
  <2>1. CASE job' = [job EXCEPT ![p].pc = "next", ![p].todo = Provisioned]
    <3>1. job' = [job EXCEPT ![p] = [job[p] EXCEPT !.pc = "next", !.todo = Provisioned,
                                                   !.faulty = job[p].faulty]]
      BY <1>1, <1>2, <2>1 DEF TypeOK, JobType
    <3> QED BY <3>1
  <2>2. CASE job' = [job EXCEPT ![p].pc = "next", ![p].todo = {}, ![p].faulty = TRUE]
    BY <1>1, <2>2 DEF TypeOK
  <2> QED BY <2>1, <2>2 DEF TeardownList, ProvisionedEndpoints
<1> DEFINE j == [job[p] EXCEPT !.pc = "next", !.todo = todo, !.faulty = faulty]
<1>4. /\ j \in JobType
      /\ j.pc = "next" /\ j.vpce = job[p].vpce /\ j.idx = job[p].idx /\ j.inserted = job[p].inserted
  BY <1>2 DEF JobType
<1>5. MovesTo(p, "next")
  BY <1>1, <1>3, <1>4, JobMoves DEF MovesTo
<1>6. JobOK(p) => JobOK(p)'
  BY <1>1, <1>5 DEF JobOK, Moves, MovesTo, TeardownList, At, VpcePC, IdxPC, VethPC, FreshPC, UndoPC,
     UnwirePC, InsertedPC, EncapPC, NoPinInTheWay
<1> QED
  BY <1>1, <1>2, <1>5, <1>6, ControlMove DEF TypeOK, TeardownList, At, WaitPC

\* teardown goes on to its next endpoint, or out of its loop (teardown.go 41-46).
LEMMA TeardownNextStep == ASSUME IInv, NEW p \in Proc, TeardownNext(p) PROVE IInv'
<1>1. TypeOK /\ UNCHANGED <<cmdVars, veth, netns, attached, grace, pinVars, vpce_to_ifindex, mapVars, run, dirty>>
  BY DEF IInv, TeardownNext, devVars
<1>2. CASE Goto(p, "detach_decap")
  <2>1. MovesTo(p, "detach_decap") /\ "detach_decap" \in PC
    BY <1>1, <1>2, GotoMoves DEF PC
  <2>2. JobOK(p) => JobOK(p)'
    BY <1>1, <2>1 DEF JobOK, Moves, MovesTo, TeardownNext, At, VpcePC, IdxPC, VethPC, FreshPC,
       UndoPC, UnwirePC, InsertedPC, EncapPC, NoPinInTheWay
  <2> QED
    BY <1>1, <2>1, <2>2, ControlMove DEF TypeOK, TeardownNext, At, WaitPC
<1>3. ASSUME NEW v \in job[p].todo,
             job' = [job EXCEPT ![p].pc = "remove_entry", ![p].vpce = v, ![p].idx = None,
                                ![p].todo = @ \ {v}]
      PROVE  IInv'
  <2> DEFINE j == [job[p] EXCEPT !.pc = "remove_entry", !.vpce = v, !.idx = None,
                                 !.todo = job[p].todo \ {v}]
  <2>1. job[p] \in JobType /\ lock = p /\ "remove_entry" \in PC
    BY <1>1, HoldsLock DEF PC, TeardownNext, At
  <2>2. v \in Vpce /\ v # None
    BY <2>1, NoneAssumption DEF JobType
  <2>3. job[p].todo \ {v} \in SUBSET Vpce
    BY <2>1 DEF JobType
  <2>4. /\ j \in JobType
        /\ j.pc = "remove_entry" /\ j.vpce = v /\ j.idx = None /\ j.inserted = job[p].inserted
    BY <2>1, <2>2, <2>3 DEF JobType
  <2>5. job' = [job EXCEPT ![p] = j]
    BY <1>1, <1>3 DEF TypeOK
  <2>6. Moves(p, "remove_entry", v, None, job[p].inserted)
    BY <1>1, <2>4, <2>5, JobMoves
  <2>7. ~job[p].inserted
    BY DEF IInv, JobsOK, JobOK, InsertedPC, EncapPC, NoPinInTheWay, UndoPC, TeardownNext, At
  <2>8. JobOK(p)'
    BY <2>2, <2>6, <2>7 DEF JobOK, Moves, VpcePC, IdxPC, VethPC, FreshPC, UndoPC, UnwirePC,
       InsertedPC, EncapPC, NoPinInTheWay
  <2> QED
    BY <1>1, <2>1, <2>6, <2>8, ControlStep DEF TypeOK, TeardownNext, At, WaitPC, pinVars
<1> QED
  BY <1>2, <1>3 DEF TeardownNext

\* teardown detaches decap (teardown.go 49-53): no new run of it can begin.
LEMMA TeardownDetachDecapStep == ASSUME IInv, NEW p \in Proc, TeardownDetachDecap(p) PROVE IInv'
<1>1. TypeOK /\ UNCHANGED <<cmdVars, veth, netns, attached, grace, encap_pin, vpce_to_ifindex, mapVars, run, dirty>>
  BY DEF IInv, TeardownDetachDecap, devVars
<1>2. MovesTo(p, "unpin") /\ lock = p
  BY <1>1, HoldsLock, GotoMoves, FaultedMoves DEF TeardownDetachDecap, PC, At
<1>3. JobOK(p)'
  BY <1>1, <1>2 DEF IInv, JobsOK, JobOK, Moves, MovesTo, TeardownDetachDecap, At, VpcePC, IdxPC,
     VethPC, FreshPC, UndoPC, UnwirePC, InsertedPC, EncapPC, NoPinInTheWay
<1>4. pinned' \subseteq Pin
  BY <1>1 DEF TypeOK, TeardownDetachDecap
<1> QED
  BY <1>1, <1>2, <1>3, <1>4, ControlStep DEF TypeOK, TeardownDetachDecap, At, WaitPC, MovesTo

-----------------------------------------------------------------------------
(* Taking and giving back the lock.                                        *)

\* A command gets the free lock, knowing nothing yet (utils.go 34-37).
LEMMA StartStep ==
    ASSUME IInv, NEW p \in Proc, NEW cmd \in Command, NEW v \in Vpce, NEW isolated \in BOOLEAN,
           Start(p, cmd, v, isolated)
    PROVE  IInv'
<1> USE DEF IInv, devVars, pinVars, mapVars, LockFree, Start
<1> DEFINE j == job'[p]
<1>1. j.pc \in {"load", "check", "remove_entry", "list"} /\ j.idx = None /\ ~j.inserted
      /\ (j.pc \in {"check", "remove_entry"} => j.vpce = v)
  BY DEF Command, TypeOK, Idle
<1>2. j \in JobType
  BY DEF Command, TypeOK, Idle, JobType, PC
<1>3. TypeOK'
  BY <1>2, NoneAssumption DEF TypeOK
<1>4. JobOK(p)'
  BY <1>1, NoneAssumption DEF JobOK, VpcePC, IdxPC, VethPC, FreshPC, UndoPC, UnwirePC, InsertedPC,
     EncapPC, NoPinInTheWay
<1>5. JobsOK'
  BY <1>3, <1>4, OtherJobs
<1>6. DevicesOK'
  BY DEF DevicesOK
<1>7. RunsOK' /\ EntriesOK'
  BY DEF RunsOK, InFlight, EntriesOK, Unused
<1>8. EntriesBelongToOwner' /\ ReplyCarriesOwnHeader'
  BY DEF EntriesBelongToOwner, ReplyCarriesOwnHeader, Mine
<1> QED BY <1>3, <1>5, <1>6, <1>7, <1>8

\* The lock is given back, or dropped by the kernel, when no grace period runs.
LEMMA ReleaseStep ==
    ASSUME IInv, NEW p \in Proc, Unlock(p) \/ Crash(p) PROVE IInv'
<1> USE DEF IInv, devVars, pinVars, mapVars, Release, Unlock, Crash
<1>1. lock = p /\ job[p].pc \notin WaitPC
  BY HoldsLock DEF WaitPC
<1>2. TypeOK'
  <2>1. Idle \in JobType
    BY DEF Idle, JobType, PC
  <2> QED BY <1>1, <2>1 DEF TypeOK
<1>3. JobOK(p)'
  <2>1. job'[p] = Idle
    BY DEF TypeOK
  <2> QED BY <2>1 DEF JobOK, Idle, VpcePC, IdxPC, VethPC, FreshPC, UndoPC, UnwirePC, InsertedPC, EncapPC, NoPinInTheWay
<1>4. JobsOK'
  BY <1>2, <1>3, OtherJobs
<1>5. DevicesOK'
  BY <1>1 DEF DevicesOK
<1>6. RunsOK' /\ EntriesOK'
  BY DEF RunsOK, InFlight, EntriesOK, Unused
<1>7. EntriesBelongToOwner' /\ ReplyCarriesOwnHeader'
  BY DEF EntriesBelongToOwner, ReplyCarriesOwnHeader, Mine
<1> QED BY <1>2, <1>4, <1>5, <1>6, <1>7

-----------------------------------------------------------------------------
(* Steps that create or change a device, or the endpoint's entry.          *)

\* What holds whenever p is at a step of a command.
LEMMA AtStep ==
    ASSUME IInv, NEW p \in Proc, job[p].pc # "idle"
    PROVE  /\ lock = p /\ job[p] \in JobType /\ JobOK(p) /\ TypeOK
           /\ job[p].pc \notin WaitPC => grace = {}
BY HoldsLock DEF IInv, JobsOK, DevicesOK

\* With no grace period running, runs in flight are on live veths of their own.
LEMMA LiveRuns ==
    ASSUME IInv, grace = {}, NEW c \in InFlight
    PROVE  /\ run[c].ifindex \in Ifindex /\ run[c].tuple \in Tuple /\ run[c].vpce \in Vpce
           /\ veth[run[c].ifindex] = run[c].vpce
BY NoneAssumption DEF IInv, TypeOK, RunType, RunsOK, InFlight

\* The new veth's ifindex is one nothing uses: any earlier owner's runs were waited for,
\* and its entries swept or left dirty.
LEMMA NewVethStep ==
    ASSUME IInv, NEW p \in Proc, lock = p, grace = {}, job[p].vpce \in Vpce,
           vpce_to_ifindex[job[p].vpce] = None,
           NEW i \in Ifindex, veth[i] = None, veth' = [veth EXCEPT ![i] = job[p].vpce],
           NEW pc \in {"configure", "undo_entry"}, NEW k \in {i, None},
           pc = "configure" <=> k = i,
           Moves(p, pc, job[p].vpce, k, FALSE),
           UNCHANGED <<cmdVars, netns, attached, grace, pinVars, vpce_to_ifindex, mapVars, run, dirty>>
    PROVE  IInv'
<1>1. TypeOK /\ job[p].vpce # None
  BY NoneAssumption DEF IInv
<1>2. TypeOK'
  BY <1>1 DEF TypeOK, Moves, cmdVars, pinVars, mapVars
<1>3. Untouched(i) /\ Untouched(i)'
  <2>1. i \notin attached
    BY DEF IInv, DevicesOK, TypeOK
  <2>2. \A c \in InFlight : run[c].ifindex # i
    BY LiveRuns, NoneAssumption
  <2>3. i \notin dirty => Unused(i)
    BY DEF IInv, EntriesOK
  <2>4. Untouched(i)
    BY <2>1, <2>2, <2>3 DEF Untouched
  <2> QED BY <2>4, SameUntouched
<1>4. JobOK(p)'
  <2>1. veth'[i] = job[p].vpce /\ i # None /\ job[p].vpce # None
    BY <1>1, NoneAssumption DEF TypeOK
  <2> QED
    BY <1>3, <2>1 DEF JobOK, Moves, VpcePC, IdxPC, VethPC, FreshPC, UndoPC, UnwirePC, InsertedPC,
       EncapPC, NoPinInTheWay
<1>5. JobsOK'
  BY <1>2, <1>4, OtherJobs DEF cmdVars
<1>6. DevicesOK'
  BY NoneAssumption DEF IInv, DevicesOK, TypeOK, cmdVars
<1>7. RunsOK'
  BY LiveRuns, NoneAssumption DEF IInv, RunsOK, InFlight, TypeOK
<1>8. EntriesOK'
  BY NoneAssumption DEF IInv, EntriesOK, Unused, mapVars, TypeOK
<1>9. EntriesBelongToOwner'
  BY <1>3 DEF IInv, EntriesBelongToOwner, Mine, Untouched, Unused, mapVars, TypeOK
<1>10. ReplyCarriesOwnHeader'
  BY DEF IInv, ReplyCarriesOwnHeader, Mine
<1> QED
  BY <1>2, <1>5, <1>6, <1>7, <1>8, <1>9, <1>10 DEF IInv

\* add makes a veth by its endpoint's name, if there is none (add.go 178-195).
LEMMA AddVethStep == ASSUME IInv, NEW p \in Proc, AddVeth(p) PROVE IInv'
<1>1. /\ TypeOK /\ lock = p /\ job[p] \in JobType /\ JobOK(p) /\ grace = {}
      /\ job[p].pc = "veth" /\ job[p].vpce \in Vpce /\ job[p].idx = None /\ ~job[p].inserted
      /\ vpce_to_ifindex[job[p].vpce] = None
      /\ UNCHANGED <<cmdVars, netns, attached, grace, pinVars, vpce_to_ifindex, mapVars, run, dirty>>
  BY AtStep DEF AddVeth, At, WaitPC, JobOK, JobType, VpcePC, FreshPC, InsertedPC, EncapPC,
     NoPinInTheWay, UndoPC
<1>2. CASE Goto(p, "undo_entry") /\ UNCHANGED veth
  <2>1. MovesTo(p, "undo_entry") /\ "undo_entry" \in PC
    BY <1>1, <1>2, GotoMoves DEF PC
  <2>2. JobOK(p)'
    BY <1>1, <1>2, <2>1 DEF JobOK, Moves, MovesTo, VpcePC, IdxPC, VethPC, FreshPC, UndoPC, UnwirePC,
       InsertedPC, EncapPC, NoPinInTheWay
  <2> QED
    BY <1>1, <1>2, <2>1, <2>2, ControlMove DEF TypeOK
<1>3. ASSUME NEW i \in Ifindex, job' = [job EXCEPT ![p].pc = "configure", ![p].idx = i]
      PROVE  Moves(p, "configure", job[p].vpce, i, FALSE)
  <2> DEFINE j == [job[p] EXCEPT !.pc = "configure", !.idx = i]
  <2>1. "configure" \in PC
    BY DEF PC
  <2>2. /\ j \in JobType
        /\ j.pc = "configure" /\ j.vpce = job[p].vpce /\ j.idx = i /\ j.inserted = FALSE
    BY <1>1, <2>1 DEF JobType
  <2>3. job' = [job EXCEPT ![p] = j]
    BY <1>1, <1>3 DEF TypeOK
  <2> QED BY <1>1, <2>2, <2>3, JobMoves
<1>4. ASSUME Faulted(p, "undo_entry") PROVE Moves(p, "undo_entry", job[p].vpce, None, FALSE)
  <2>1. "undo_entry" \in PC /\ job[p].inserted = FALSE
    BY <1>1 DEF PC, JobType
  <2> QED BY <1>1, <1>4, <2>1, FaultedMoves DEF MovesTo
<1>5. ASSUME NEW i \in Ifindex, veth[i] = None, veth' = [veth EXCEPT ![i] = job[p].vpce],
             Moves(p, "configure", job[p].vpce, i, FALSE)
      PROVE  IInv'
  BY <1>1, <1>5, NewVethStep
<1>6. ASSUME NEW i \in Ifindex, veth[i] = None, veth' = [veth EXCEPT ![i] = job[p].vpce],
             Faulted(p, "undo_entry")
      PROVE  IInv'
  BY <1>1, <1>4, <1>6, NewVethStep, NoneAssumption
<1> QED
  BY <1>2, <1>3, <1>5, <1>6 DEF AddVeth

\* A step that only rewrites the endpoint's own entry: nothing but JobOK and
\* what DevicesOK says of entries is at stake.
LEMMA EntryStep ==
    ASSUME IInv, NEW p \in Proc, lock = p, job[p].pc \notin WaitPC \cup {"idle"},
           NEW pc, NEW v \in Vpce, NEW i, NEW inserted, Moves(p, pc, v, i, inserted),
           NEW e \in Ifindex \cup {None}, vpce_to_ifindex' = [vpce_to_ifindex EXCEPT ![v] = e],
           e # None => veth[e] = v,
           JobOK(p)',
           UNCHANGED <<cmdVars, devVars, pinVars, mapVars, run, dirty>>
    PROVE  IInv'
<1> USE DEF IInv, cmdVars, devVars, pinVars, mapVars
<1>1. TypeOK'
  BY DEF TypeOK, Moves
<1>2. JobsOK'
  BY <1>1, OtherJobs
<1>3. DevicesOK'
  BY NoneAssumption DEF DevicesOK, TypeOK
<1>4. RunsOK' /\ EntriesOK'
  BY DEF RunsOK, InFlight, EntriesOK, Unused
<1>5. EntriesBelongToOwner' /\ ReplyCarriesOwnHeader'
  BY DEF EntriesBelongToOwner, ReplyCarriesOwnHeader, Mine
<1> QED BY <1>1, <1>2, <1>3, <1>4, <1>5

\* The entry added is for the veth just made (add.go 299-302).
LEMMA AddInsertStep == ASSUME IInv, NEW p \in Proc, AddInsert(p) PROVE IInv'
<1>1. /\ TypeOK /\ lock = p /\ job[p] \in JobType /\ JobOK(p) /\ grace = {}
      /\ job[p].pc = "insert" /\ job[p].vpce \in Vpce /\ job[p].idx \in Ifindex
      /\ veth[job[p].idx] = job[p].vpce
      /\ UNCHANGED <<cmdVars, devVars, pinVars, mapVars, run, dirty>>
  BY AtStep DEF AddInsert, At, WaitPC, JobOK, JobType, VpcePC, EncapPC, FreshPC, IdxPC, VethPC
<1>2. CASE Goto(p, "undo_entry") /\ UNCHANGED vpce_to_ifindex
  <2>1. MovesTo(p, "undo_entry") /\ "undo_entry" \in PC
    BY <1>1, <1>2, GotoMoves DEF PC
  <2>2. \A i : Untouched(i)' = Untouched(i)
    BY <1>1, SameUntouched DEF devVars
  <2>3. JobOK(p)'
    BY <1>1, <1>2, <2>1, <2>2 DEF JobOK, Moves, MovesTo, devVars, VpcePC, IdxPC, VethPC, FreshPC,
       UndoPC, UnwirePC, InsertedPC, EncapPC, NoPinInTheWay
  <2> QED
    BY <1>1, <1>2, <2>1, <2>3, ControlMove DEF TypeOK, devVars
<1>3. CASE /\ vpce_to_ifindex' = [vpce_to_ifindex EXCEPT ![job[p].vpce] = job[p].idx]
           /\ job' = [job EXCEPT ![p].pc = "clear_pin", ![p].inserted = TRUE]
  <2> DEFINE j == [job[p] EXCEPT !.pc = "clear_pin", !.inserted = TRUE]
  <2>1. "clear_pin" \in PC
    BY DEF PC
  <2>2. j \in JobType /\ j.pc = "clear_pin" /\ j.vpce = job[p].vpce /\ j.idx = job[p].idx /\ j.inserted = TRUE
    BY <1>1, <2>1 DEF JobType
  <2>3. job' = [job EXCEPT ![p] = j]
    BY <1>1, <1>3 DEF TypeOK
  <2>4. Moves(p, "clear_pin", job[p].vpce, job[p].idx, TRUE)
    BY <1>1, <2>2, <2>3, JobMoves
  <2>5. JobOK(p)'
    BY <1>1, <2>4, NoneAssumption DEF JobOK, Moves, devVars, VpcePC, IdxPC, VethPC, FreshPC, UndoPC,
       UnwirePC, InsertedPC, EncapPC, NoPinInTheWay
  <2> QED
    BY <1>1, <1>3, <2>4, <2>5, EntryStep DEF WaitPC
<1> QED
  BY <1>2, <1>3 DEF AddInsert

\* The rollback deletes the entry it made (add.go 114-118).
LEMMA UndoEntryStep == ASSUME IInv, NEW p \in Proc, UndoEntry(p) PROVE IInv'
<1>1. /\ TypeOK /\ lock = p /\ job[p] \in JobType /\ JobOK(p) /\ grace = {}
      /\ job[p].pc = "undo_entry" /\ job[p].vpce \in Vpce
      /\ UNCHANGED <<cmdVars, devVars, pinVars, mapVars, run, dirty>>
  BY AtStep DEF UndoEntry, At, WaitPC, JobOK, JobType, VpcePC, EncapPC
<1>2. PICK pc \in {"undo_veth", "undo_netns"} : MovesTo(p, pc) /\ (pc = "undo_veth" <=> job[p].idx # None)
  BY <1>1, GotoMoves DEF UndoEntry, PC
<1>3. vpce_to_ifindex' = [vpce_to_ifindex EXCEPT ![job[p].vpce] = None]
  <2>1. CASE job[p].inserted
    BY <2>1 DEF UndoEntry, EntryDeleted
  <2>2. CASE ~job[p].inserted
    BY <1>1, <2>2 DEF UndoEntry, JobOK, TypeOK
  <2> QED BY <2>1, <2>2
<1>4. \A i : Untouched(i)' = Untouched(i)
  BY <1>1, SameUntouched DEF devVars
<1>5. JobOK(p)'
  BY <1>1, <1>2, <1>3, <1>4, NoneAssumption DEF TypeOK, JobOK, Moves, MovesTo, devVars, VpcePC,
     IdxPC, VethPC, FreshPC, UndoPC, UnwirePC, InsertedPC, EncapPC, NoPinInTheWay
<1> QED
  BY <1>1, <1>2, <1>3, <1>5, EntryStep DEF MovesTo, WaitPC

\* remove deletes the entry, and finds the endpoint's own veth by it or by name
\* (remove.go 48-63).
LEMMA RemoveEntryStep == ASSUME IInv, NEW p \in Proc, RemoveEntry(p) PROVE IInv'
<1>1. /\ TypeOK /\ lock = p /\ job[p] \in JobType /\ JobOK(p) /\ grace = {}
      /\ job[p].pc = "remove_entry" /\ job[p].vpce \in Vpce /\ ~job[p].inserted
      /\ UNCHANGED <<cmdVars, devVars, pinVars, mapVars, run, dirty>>
  BY AtStep DEF RemoveEntry, At, WaitPC, JobOK, JobType, VpcePC, InsertedPC, EncapPC, UndoPC
<1>2. PICK i \in {None, RemovedIfindex(job[p].vpce)}, faulty \in {job[p].faulty, TRUE} :
        job' = [job EXCEPT ![p] = [job[p] EXCEPT !.idx = i, !.faulty = faulty,
                                      !.pc = IF i # None THEN "detach" ELSE "del_netns"]]
  <2>1. CASE job' = [job EXCEPT ![p].idx = None, ![p].pc = "del_netns", ![p].faulty = TRUE]
    BY <1>1, <2>1 DEF TypeOK
  <2>2. ASSUME NEW i, i = RemovedIfindex(job[p].vpce),
               job' = [job EXCEPT ![p].idx = i,
                                  ![p].pc = IF i # None THEN "detach" ELSE "del_netns"]
        PROVE  job' = [job EXCEPT ![p] = [job[p] EXCEPT !.idx = i, !.faulty = job[p].faulty,
                                      !.pc = IF i # None THEN "detach" ELSE "del_netns"]]
    BY <1>1, <2>2 DEF TypeOK, JobType
  <2> QED BY <2>1, <2>2 DEF RemoveEntry
<1> DEFINE pc == IF i # None THEN "detach" ELSE "del_netns"
           j == [job[p] EXCEPT !.idx = i, !.faulty = faulty, !.pc = pc]
<1>3. i \in Ifindex \cup {None} /\ (i # None => veth[i] = job[p].vpce)
  BY <1>1 DEF IInv, DevicesOK, RemovedIfindex, LinkByName, TypeOK
<1>4. pc \in PC /\ faulty \in BOOLEAN
  BY <1>1 DEF PC, JobType
<1> HIDE DEF pc
<1>5. j \in JobType /\ j.pc = pc /\ j.vpce = job[p].vpce /\ j.idx = i /\ j.inserted = FALSE
  BY <1>1, <1>3, <1>4 DEF JobType
<1>6. Moves(p, pc, job[p].vpce, i, FALSE)
  BY <1>1, <1>2, <1>5, JobMoves DEF pc
<1>7. JobOK(p)'
  BY <1>1, <1>3, <1>6, NoneAssumption
     DEF RemoveEntry, EntryDeleted, TypeOK, JobOK, Moves, devVars, pc,
         VpcePC, IdxPC, VethPC, FreshPC, UndoPC, UnwirePC, InsertedPC, EncapPC, NoPinInTheWay
<1> QED
  BY <1>1, <1>6, <1>7, EntryStep DEF RemoveEntry, EntryDeleted, WaitPC

\* A step that only attaches encap to a live veth, or detaches it.
LEMMA AttachmentStep ==
    ASSUME IInv, NEW p \in Proc, lock = p, job[p].pc \notin WaitPC \cup {"idle"},
           NEW pc, NEW v, NEW i, NEW inserted, Moves(p, pc, v, i, inserted),
           attached' \subseteq Ifindex, \A k \in attached' : veth[k] # None,
           encap_pin' \subseteq Ifindex, JobOK(p)',
           UNCHANGED <<cmdVars, veth, netns, grace, pinned, vpce_to_ifindex, mapVars, run, dirty>>
    PROVE  IInv'
<1> USE DEF IInv, cmdVars, mapVars
<1>1. TypeOK'
  BY DEF TypeOK, Moves
<1>2. JobsOK'
  BY <1>1, OtherJobs
<1>3. DevicesOK'
  BY NoneAssumption DEF DevicesOK, TypeOK
<1>4. RunsOK' /\ EntriesOK'
  BY DEF RunsOK, InFlight, EntriesOK, Unused
<1>5. EntriesBelongToOwner' /\ ReplyCarriesOwnHeader'
  BY DEF EntriesBelongToOwner, ReplyCarriesOwnHeader, Mine
<1> QED BY <1>1, <1>2, <1>3, <1>4, <1>5

\* A pin left by an earlier owner of the ifindex is cleared (encap.go 137).
LEMMA AddClearPinStep == ASSUME IInv, NEW p \in Proc, AddClearPin(p) PROVE IInv'
<1>1. /\ TypeOK /\ lock = p /\ job[p] \in JobType /\ JobOK(p) /\ grace = {}
      /\ job[p].pc = "clear_pin" /\ job[p].inserted
      /\ UNCHANGED <<cmdVars, devVars, pinned, vpce_to_ifindex, mapVars, run, dirty>>
  BY AtStep DEF AddClearPin, At, WaitPC, JobOK, EncapPC
<1>2. PICK pc \in {"attach", "undo_entry"} :
        MovesTo(p, pc) /\ (pc = "attach" => job[p].idx \notin encap_pin')
  BY <1>1, GotoMoves DEF AddClearPin, StalePinCleared, PC
<1>3. /\ attached' \subseteq Ifindex /\ encap_pin' \subseteq Ifindex
      /\ \A k \in attached' : veth[k] # None
  BY <1>1 DEF AddClearPin, StalePinCleared, IInv, TypeOK, DevicesOK, devVars
<1>4. JobOK(p)'
  BY <1>1, <1>2 DEF JobOK, Moves, MovesTo, devVars, VpcePC, IdxPC, VethPC, FreshPC, UndoPC,
     UnwirePC, InsertedPC, EncapPC, NoPinInTheWay
<1> QED
  BY <1>1, <1>2, <1>3, <1>4, AttachmentStep DEF MovesTo, WaitPC, devVars

\* encap is attached to a live veth (add.go 304).
LEMMA AddAttachStep == ASSUME IInv, NEW p \in Proc, AddAttach(p) PROVE IInv'
<1>1. /\ TypeOK /\ lock = p /\ job[p] \in JobType /\ JobOK(p) /\ grace = {}
      /\ job[p].pc = "attach" /\ job[p].vpce \in Vpce /\ job[p].idx \in Ifindex
      /\ veth[job[p].idx] = job[p].vpce /\ job[p].inserted /\ encap_pin \subseteq Ifindex
      /\ UNCHANGED <<cmdVars, veth, netns, grace, pinned, vpce_to_ifindex, mapVars, run, dirty>>
  BY AtStep DEF AddAttach, At, WaitPC, JobOK, JobType, VpcePC, EncapPC, IdxPC, VethPC, TypeOK
<1>2. PICK pc \in {"done", "undo_entry"} : MovesTo(p, pc)
  BY <1>1, GotoMoves DEF AddAttach, PC
<1>3. /\ attached' \subseteq Ifindex /\ encap_pin' \subseteq Ifindex
      /\ \A k \in attached' : veth[k] # None
  <2>1. attached \subseteq Ifindex /\ \A k \in attached : veth[k] # None
    BY DEF IInv, TypeOK, DevicesOK
  <2>2. encap_pin' \subseteq Ifindex
    BY <1>1 DEF AddAttach
  <2>3. attached' = attached \/ attached' = attached \cup {job[p].idx}
    BY DEF AddAttach
  <2> QED BY <1>1, <2>1, <2>2, <2>3, NoneAssumption
<1>4. JobOK(p)'
  BY <1>1, <1>2 DEF JobOK, Moves, MovesTo, VpcePC, IdxPC, VethPC, FreshPC, UndoPC, UnwirePC,
     InsertedPC, EncapPC, NoPinInTheWay
<1> QED
  BY <1>1, <1>2, <1>3, <1>4, AttachmentStep DEF MovesTo, WaitPC

\* encap is detached (remove.go 67).
LEMMA RemoveDetachStep == ASSUME IInv, NEW p \in Proc, RemoveDetach(p) PROVE IInv'
<1>1. /\ TypeOK /\ lock = p /\ job[p] \in JobType /\ JobOK(p) /\ grace = {}
      /\ job[p].pc = "detach" /\ ~job[p].inserted
      /\ UNCHANGED <<cmdVars, veth, netns, grace, pinned, vpce_to_ifindex, mapVars, run, dirty>>
  BY AtStep DEF RemoveDetach, At, WaitPC, JobOK, InsertedPC, EncapPC, NoPinInTheWay, UndoPC
<1>2. MovesTo(p, "del_veth")
  BY <1>1, GotoMoves, FaultedMoves DEF RemoveDetach, PC
<1>3. /\ attached' \subseteq attached /\ encap_pin' \subseteq encap_pin
  BY DEF RemoveDetach
<1>4. attached' \subseteq Ifindex /\ encap_pin' \subseteq Ifindex /\ \A k \in attached' : veth[k] # None
  BY <1>3 DEF IInv, TypeOK, DevicesOK
<1>5. JobOK(p)'
  BY <1>1, <1>2 DEF JobOK, Moves, MovesTo, VpcePC, IdxPC, VethPC, FreshPC, UndoPC, UnwirePC,
     InsertedPC, EncapPC, NoPinInTheWay
<1> QED
  BY <1>1, <1>2, <1>4, <1>5, AttachmentStep DEF MovesTo, WaitPC

-----------------------------------------------------------------------------
(* Deleting a veth, waiting out its grace period, sweeping its entries.    *)

\* The veth goes while runs may be on it: those runs are the ones waited for, and
\* the ifindex is dirty until a sweep, unless nothing ever used it.
LEMMA LinkDelStep ==
    ASSUME IInv, NEW p \in Proc, lock = p, job[p].pc \notin WaitPC \cup {"idle"},
           NEW pc \in WaitPC, NEW v \in Vpce, NEW i \in Ifindex, NEW inserted,
           Moves(p, pc, v, i, inserted),
           LinkDel(i), veth[i] = v, vpce_to_ifindex[v] = None,
           \/ dirty' = dirty \cup {i}
           \/ dirty' = dirty /\ Untouched(i),
           JobOK(p)',
           UNCHANGED <<cmdVars, netns, pinVars, vpce_to_ifindex, mapVars, run>>
    PROVE  IInv'
<1> USE DEF IInv, cmdVars, pinVars, mapVars, LinkDel
<1>1. TypeOK'
  BY DEF TypeOK, Moves, AwaitedRuns
<1>2. JobsOK'
  BY <1>1, OtherJobs
<1>3. DevicesOK'
  <2>1. \A w \in Vpce : vpce_to_ifindex[w] # i
    BY NoneAssumption DEF DevicesOK, TypeOK
  <2>2. lock' # None /\ job'[lock'].pc \in WaitPC
    BY NoneAssumption DEF Moves
  <2> QED BY <2>1, <2>2 DEF DevicesOK, TypeOK
<1>4. grace = {}
  BY DEF DevicesOK
<1>5. RunsOK'
  <2> SUFFICES ASSUME NEW c \in InFlight PROVE
          /\ run[c].ifindex # None /\ run[c].tuple # None /\ run[c].vpce # None
          /\ \/ veth'[run[c].ifindex] = run[c].vpce
             \/ veth'[run[c].ifindex] = None /\ c \in grace' /\ run[c].ifindex \in dirty'
          /\ run[c].st \in {"publish", "deliver"} => run[c].hdr = run[c].vpce
    BY DEF RunsOK, InFlight
  <2>1. c \in grace'
    BY DEF AwaitedRuns, InFlight
  <2>2. run[c].ifindex = i => i \in dirty'
    BY DEF Untouched
  <2>3. veth[run[c].ifindex] = run[c].vpce /\ run[c].ifindex \in Ifindex
    BY <1>4, LiveRuns
  <2> QED BY <2>1, <2>2, <2>3 DEF RunsOK, TypeOK
<1>6. EntriesOK'
  <2> SUFFICES ASSUME NEW k \in Ifindex \ dirty', veth'[k] = None PROVE Unused(k)
    BY DEF EntriesOK, Unused
  <2> QED BY DEF EntriesOK, Untouched, TypeOK
<1>7. EntriesBelongToOwner'
  <2>1. \A k \in Ifindex \ dirty' : veth'[k] # None => veth'[k] = veth[k] /\ k \notin dirty
    BY DEF TypeOK
  <2> QED BY <2>1 DEF EntriesBelongToOwner, Mine
<1>8. ReplyCarriesOwnHeader'
  BY DEF ReplyCarriesOwnHeader, Mine
<1> QED BY <1>1, <1>2, <1>3, <1>5, <1>6, <1>7, <1>8

\* The rollback deletes the veth, or fails to (add.go 119-125).
LEMMA UndoVethStep == ASSUME IInv, NEW p \in Proc, UndoVeth(p) PROVE IInv'
<1>1. /\ TypeOK /\ lock = p /\ job[p] \in JobType /\ JobOK(p) /\ grace = {}
      /\ job[p].pc = "undo_veth" /\ job[p].vpce \in Vpce /\ job[p].idx \in Ifindex
      /\ veth[job[p].idx] = job[p].vpce /\ vpce_to_ifindex[job[p].vpce] = None
      /\ ~job[p].inserted => Untouched(job[p].idx)
      /\ UNCHANGED <<cmdVars, netns, pinVars, vpce_to_ifindex, mapVars, run>>
  BY AtStep DEF UndoVeth, At, WaitPC, JobOK, JobType, VpcePC, EncapPC, UndoPC, IdxPC, VethPC
<1>2. CASE /\ LinkDel(job[p].idx) /\ Goto(p, "undo_wait")
           /\ dirty' = IF job[p].inserted THEN dirty \cup {job[p].idx} ELSE dirty
  <2>1. MovesTo(p, "undo_wait")
    BY <1>1, <1>2, GotoMoves DEF PC
  <2>2. JobOK(p)'
    BY <1>1, <1>2, <2>1 DEF JobOK, Moves, MovesTo, VpcePC, IdxPC, VethPC, FreshPC, UndoPC, UnwirePC,
       InsertedPC, EncapPC, NoPinInTheWay
  <2> QED
    BY <1>1, <1>2, <2>1, <2>2, LinkDelStep DEF MovesTo, WaitPC
<1>3. CASE Faulted(p, "undo_sweep") /\ UNCHANGED <<veth, attached, grace, dirty>>
  <2>1. MovesTo(p, "undo_sweep") /\ "undo_sweep" \in PC
    BY <1>1, <1>3, FaultedMoves DEF PC
  <2>2. JobOK(p)'
    BY <1>1, <1>3, <2>1 DEF JobOK, Moves, MovesTo, VpcePC, IdxPC, VethPC, FreshPC, UndoPC, UnwirePC,
       InsertedPC, EncapPC, NoPinInTheWay
  <2> QED
    BY <1>1, <1>3, <2>1, <2>2, ControlMove DEF WaitPC, TypeOK
<1> QED
  BY <1>2, <1>3 DEF UndoVeth

\* remove deletes the veth, or skips it (remove.go 75-79).
LEMMA RemoveVethStep == ASSUME IInv, NEW p \in Proc, RemoveVeth(p) PROVE IInv'
<1>1. /\ TypeOK /\ lock = p /\ job[p] \in JobType /\ JobOK(p) /\ grace = {}
      /\ job[p].pc = "del_veth" /\ job[p].vpce \in Vpce /\ job[p].idx \in Ifindex
      /\ veth[job[p].idx] = job[p].vpce /\ vpce_to_ifindex[job[p].vpce] = None
      /\ ~job[p].inserted
      /\ UNCHANGED <<cmdVars, netns, pinVars, vpce_to_ifindex, mapVars, run>>
  BY AtStep DEF RemoveVeth, At, WaitPC, JobOK, JobType, VpcePC, UnwirePC, IdxPC, VethPC, InsertedPC,
     EncapPC, NoPinInTheWay, UndoPC
<1>2. CASE /\ LinkDel(job[p].idx) /\ Goto(p, "wait")
           /\ dirty' = dirty \cup {job[p].idx}
  <2>1. MovesTo(p, "wait")
    BY <1>1, <1>2, GotoMoves DEF PC
  <2>2. JobOK(p)'
    BY <1>1, <1>2, <2>1 DEF JobOK, Moves, MovesTo, VpcePC, IdxPC, VethPC, FreshPC, UndoPC, UnwirePC,
       InsertedPC, EncapPC, NoPinInTheWay
  <2> QED
    BY <1>1, <1>2, <2>1, <2>2, LinkDelStep DEF MovesTo, WaitPC
<1>3. CASE /\ job' = [job EXCEPT ![p].pc = "sweep", ![p].faulty = @ \/ veth[job[p].idx] # None]
           /\ UNCHANGED <<veth, attached, grace, dirty>>
  <2>1. Faulted(p, "sweep") \/ Goto(p, "sweep")
    <3>1. veth[job[p].idx] # None
      BY <1>1, NoneAssumption
    <3>2. (job[p].faulty \/ veth[job[p].idx] # None) = TRUE
      BY <3>1
    <3> QED BY <1>1, <1>3, <3>2 DEF Faulted, TypeOK
  <2>2. MovesTo(p, "sweep") /\ "sweep" \in PC
    BY <1>1, <2>1, GotoMoves, FaultedMoves DEF PC
  <2>3. JobOK(p)'
    BY <1>1, <1>3, <2>2 DEF JobOK, Moves, MovesTo, VpcePC, IdxPC, VethPC, FreshPC, UndoPC, UnwirePC,
       InsertedPC, EncapPC, NoPinInTheWay
  <2> QED
    BY <1>1, <1>3, <2>2, <2>3, ControlMove DEF WaitPC, TypeOK
<1> QED
  BY <1>2, <1>3 DEF RemoveVeth

\* Sweeping only takes entries away, and makes an ifindex clean only when its
\* veth is gone, every run on it is over and nothing is left under it.
LEMMA SweepStep ==
    ASSUME IInv, NEW p \in Proc, lock = p, job[p].pc \notin WaitPC \cup {"idle"},
           NEW pc, NEW v, NEW i \in Ifindex, NEW inserted, Moves(p, pc, v, i, inserted),
           NEW failed, Sweep(i, failed), JobOK(p)',
           UNCHANGED <<cmdVars, devVars, pinVars, vpce_to_ifindex, run>>
    PROVE  IInv'
<1> USE DEF IInv, cmdVars, devVars, pinVars
<1>1. grace = {}
  BY DEF DevicesOK
<1>2. /\ \A k \in Key : flow_state'[k] \in {None, flow_state[k]} /\ frag_state'[k] \in {None, frag_state[k]}
      /\ \A k \in Ifindex : metrics'[k] \subseteq metrics[k]
      /\ flow_state' \in [Key -> Vpce \cup {None}] /\ frag_state' \in [Key -> Vpce \cup {None}]
      /\ metrics' \in [Ifindex -> SUBSET Vpce]
  BY DEF Sweep, WithoutIfindex, TypeOK
<1>3. \/ dirty' = dirty
      \/ /\ dirty' = dirty \ {i} /\ veth[i] = None /\ Unused(i)'
         /\ \A c \in InFlight : run[c].ifindex # i
  <2>1. CASE failed = {} /\ veth[i] = None
    <3>1. \A c \in InFlight : run[c].ifindex # i
      BY <1>1, <2>1, LiveRuns, NoneAssumption
    <3>2. dirty' = dirty \ {i} /\ flow_state' = WithoutIfindex(flow_state, i)
          /\ frag_state' = WithoutIfindex(frag_state, i) /\ metrics' = [metrics EXCEPT ![i] = {}]
      BY <2>1 DEF Sweep, SweptMaps
    <3>3. Unused(i)'
      BY <3>2 DEF Unused, WithoutIfindex, Key, TypeOK
    <3> QED BY <2>1, <3>1, <3>2, <3>3
  <2>2. CASE ~(failed = {} /\ veth[i] = None)
    BY <2>2 DEF Sweep
  <2> QED BY <2>1, <2>2
<1>4. TypeOK'
  BY <1>2, <1>3 DEF TypeOK, Moves
<1>5. JobsOK'
  BY <1>4, OtherJobs
<1>6. DevicesOK'
  BY <1>1 DEF DevicesOK
<1>7. RunsOK'
  BY <1>1 DEF RunsOK, InFlight
<1>8. \A k \in Ifindex : Unused(k) => Unused(k)'
  <2> SUFFICES ASSUME NEW k \in Ifindex, Unused(k) PROVE Unused(k)'
    OBVIOUS
  <2>1. \A t \in Tuple : <<k, t>> \in Key
    BY DEF Key
  <2> QED BY <1>2, <2>1 DEF Unused
<1>9. EntriesOK'
  BY <1>3, <1>8 DEF EntriesOK
<1>10. EntriesBelongToOwner'
  <2> SUFFICES ASSUME NEW k \in Ifindex \ dirty', veth[k] # None
               PROVE /\ \A t \in Tuple : /\ flow_state'[<<k, t>>] \in Mine(veth[k])
                                         /\ frag_state'[<<k, t>>] \in Mine(veth[k])
                     /\ metrics'[k] \subseteq {veth[k]}
    BY DEF EntriesBelongToOwner, Mine
  <2>1. k \notin dirty
    BY <1>3
  <2>2. \A t \in Tuple : <<k, t>> \in Key
    BY DEF Key
  <2> QED BY <1>2, <2>1, <2>2 DEF EntriesBelongToOwner, Mine
<1>11. ReplyCarriesOwnHeader'
  <2> SUFFICES ASSUME NEW c \in Cpu, run[c].st \in {"record", "send"}, run[c].ifindex \notin dirty'
               PROVE  run[c].hdr \in Mine(run[c].vpce)
    BY DEF ReplyCarriesOwnHeader, Mine
  <2>1. c \in InFlight
    BY DEF InFlight
  <2>2. run[c].ifindex \notin dirty
    BY <1>3, <2>1
  <2> QED BY <2>2 DEF ReplyCarriesOwnHeader
<1> QED BY <1>4, <1>5, <1>6, <1>7, <1>9, <1>10, <1>11

\* remove sweeps with no run left on the ifindex (remove.go 81).
LEMMA RemoveSweepStep == ASSUME IInv, NEW p \in Proc, RemoveSweep(p) PROVE IInv'
<1>1. /\ TypeOK /\ lock = p /\ job[p] \in JobType /\ JobOK(p) /\ grace = {}
      /\ job[p].pc = "sweep" /\ job[p].vpce \in Vpce /\ job[p].idx \in Ifindex /\ ~job[p].inserted
      /\ UNCHANGED <<cmdVars, devVars, pinVars, vpce_to_ifindex, run>>
  BY AtStep DEF RemoveSweep, At, WaitPC, JobOK, JobType, VpcePC, IdxPC, InsertedPC, EncapPC,
     NoPinInTheWay, UndoPC
<1>2. PICK failed \in Failures :
        /\ Sweep(job[p].idx, failed)
        /\ job' = [job EXCEPT ![p].pc = "del_netns", ![p].faulty = @ \/ failed # {}]
  BY DEF RemoveSweep
<1>3. MovesTo(p, "del_netns")
  <2> DEFINE j == [job[p] EXCEPT !.pc = "del_netns", !.faulty = job[p].faulty \/ failed # {}]
  <2>1. "del_netns" \in PC
    BY DEF PC
  <2>2. (job[p].faulty \/ failed # {}) \in BOOLEAN
    OBVIOUS
  <2>3. /\ j \in JobType
        /\ j.pc = "del_netns" /\ j.vpce = job[p].vpce /\ j.idx = job[p].idx /\ j.inserted = job[p].inserted
    BY <1>1, <2>1, <2>2 DEF JobType
  <2>4. job' = [job EXCEPT ![p] = j]
    BY <1>1, <1>2 DEF TypeOK
  <2> QED BY <1>1, <2>3, <2>4, JobMoves DEF MovesTo
<1>4. JobOK(p)'
  BY <1>1, <1>3 DEF JobOK, Moves, MovesTo, VpcePC, IdxPC, VethPC, FreshPC, UndoPC, UnwirePC,
     InsertedPC, EncapPC, NoPinInTheWay
<1> QED
  BY <1>1, <1>2, <1>3, <1>4, SweepStep DEF MovesTo, WaitPC

\* The rollback sweeps, if an entry was ever inserted (add.go 126-130).
LEMMA UndoSweepStep == ASSUME IInv, NEW p \in Proc, UndoSweep(p) PROVE IInv'
<1>1. /\ TypeOK /\ lock = p /\ job[p] \in JobType /\ JobOK(p) /\ grace = {}
      /\ job[p].pc = "undo_sweep" /\ job[p].vpce \in Vpce /\ job[p].idx \in Ifindex
      /\ UNCHANGED <<cmdVars, devVars, pinVars, vpce_to_ifindex, run>>
  BY AtStep DEF UndoSweep, At, WaitPC, JobOK, JobType, VpcePC, EncapPC, IdxPC, UndoPC
<1>2. ASSUME MovesTo(p, "undo_netns") PROVE JobOK(p)'
  BY <1>1, <1>2 DEF JobOK, Moves, MovesTo, VpcePC, IdxPC, VethPC, FreshPC, UndoPC, UnwirePC,
     InsertedPC, EncapPC, NoPinInTheWay
<1>3. CASE Goto(p, "undo_netns") /\ UNCHANGED <<mapVars, dirty>>
  <2>1. MovesTo(p, "undo_netns") /\ "undo_netns" \in PC
    BY <1>1, <1>3, GotoMoves DEF PC
  <2> QED
    BY <1>1, <1>2, <1>3, <2>1, ControlMove DEF WaitPC, TypeOK, devVars
<1>4. ASSUME NEW failed \in Failures, Sweep(job[p].idx, failed),
             job' = [job EXCEPT ![p].pc = "undo_netns", ![p].faulty = @ \/ failed # {}]
      PROVE  IInv'
  <2> DEFINE j == [job[p] EXCEPT !.pc = "undo_netns", !.faulty = job[p].faulty \/ failed # {}]
  <2>1. "undo_netns" \in PC
    BY DEF PC
  <2>2. (job[p].faulty \/ failed # {}) \in BOOLEAN
    OBVIOUS
  <2>3. /\ j \in JobType
        /\ j.pc = "undo_netns" /\ j.vpce = job[p].vpce /\ j.idx = job[p].idx /\ j.inserted = job[p].inserted
    BY <1>1, <2>1, <2>2 DEF JobType
  <2>4. job' = [job EXCEPT ![p] = j]
    BY <1>1, <1>4 DEF TypeOK
  <2>5. MovesTo(p, "undo_netns")
    BY <1>1, <2>3, <2>4, JobMoves DEF MovesTo
  <2> QED
    BY <1>1, <1>2, <1>4, <2>5, SweepStep DEF MovesTo, WaitPC
<1> QED
  BY <1>3, <1>4 DEF UndoSweep

\* The last step of teardown: nothing is pinned any more, so nothing is attached,
\* the maps are new, and the runs in flight are strays.
LEMMA TeardownUnpinStep == ASSUME IInv, NEW p \in Proc, TeardownUnpin(p) PROVE IInv'
<1>1. /\ TypeOK /\ lock = p /\ job[p] \in JobType /\ JobOK(p) /\ grace = {}
      /\ job[p].pc = "unpin" /\ ~job[p].inserted
      /\ UNCHANGED <<cmdVars, veth, netns, grace>>
  BY AtStep DEF TeardownUnpin, At, WaitPC, JobOK, InsertedPC, EncapPC, NoPinInTheWay, UndoPC
<1>2. PICK pc \in {"done", "failed"} : MovesTo(p, pc)
  BY <1>1, GotoMoves, FaultedMoves DEF TeardownUnpin, PC
<1>3. JobOK(p)'
  BY <1>1, <1>2 DEF JobOK, Moves, MovesTo, VpcePC, IdxPC, VethPC, FreshPC, UndoPC, UnwirePC,
     InsertedPC, EncapPC, NoPinInTheWay
<1>4. CASE UNCHANGED <<pinVars, attached, vpce_to_ifindex, mapVars, run, dirty>>
  <2>1. pc \in PC
    BY DEF PC
  <2> QED BY <1>1, <1>2, <1>3, <1>4, <2>1, ControlMove DEF WaitPC, TypeOK
<1>5. CASE /\ pinned' = {} /\ encap_pin' = {} /\ attached' = {}
           /\ vpce_to_ifindex' = [v \in Vpce |-> None]
           /\ flow_state' = NoEntries /\ frag_state' = NoEntries /\ metrics' = NoMetrics
           /\ run' = [c \in Cpu |-> IF c \in InFlight THEN [NoRun EXCEPT !.st = "stray"]
                                    ELSE run[c]]
           /\ dirty' = {}
  <2>1. \A c \in Cpu : run'[c] \in RunType /\ run'[c].st \in {"none", "stray"}
    <3>1. [NoRun EXCEPT !.st = "stray"] \in RunType /\ [NoRun EXCEPT !.st = "stray"].st = "stray"
      BY DEF NoRun, RunType, RunState
    <3> QED BY <1>1, <1>5, <3>1 DEF InFlight, TypeOK
  <2>2. TypeOK'
    BY <1>1, <1>2, <1>5, <2>1 DEF TypeOK, MovesTo, Moves, cmdVars, NoEntries, NoMetrics
  <2>3. JobsOK'
    BY <1>1, <1>3, <2>2, OtherJobs DEF cmdVars
  <2>4. DevicesOK'
    BY <1>1, <1>5 DEF DevicesOK
  <2>5. RunsOK' /\ ReplyCarriesOwnHeader'
    BY <2>1 DEF RunsOK, InFlight, ReplyCarriesOwnHeader
  <2>6. \A i \in Ifindex : Unused(i)'
    BY <1>5 DEF Unused, NoEntries, NoMetrics, Key
  <2>7. EntriesOK' /\ EntriesBelongToOwner'
    BY <2>6 DEF EntriesOK, EntriesBelongToOwner, Mine, Unused
  <2> QED BY <2>2, <2>3, <2>4, <2>5, <2>7 DEF IInv
<1> QED
  BY <1>4, <1>5 DEF TeardownUnpin

-----------------------------------------------------------------------------
(* XDP runs.                                                               *)

\* What run c is about to be, r: over; or a run of the endpoint that it was a run
\* of; or a new run, on the veth of an endpoint delivered to or attached.
RunMoves(c, r) ==
    /\ r \in RunType
    /\ run' = [run EXCEPT ![c] = r]
    /\ \/ r = NoRun /\ grace' = grace \ {c}
       \/ /\ grace' = grace
          /\ r.st \notin {"none", "stray"}
          /\ r.ifindex # None /\ r.tuple # None /\ r.vpce # None
          /\ \/ c \in InFlight /\ r.ifindex = run[c].ifindex /\ r.vpce = run[c].vpce
             \/ /\ veth[r.ifindex] = r.vpce
                /\ r.ifindex \in attached \/ vpce_to_ifindex[r.vpce] = r.ifindex
    /\ r.st \in {"publish", "deliver"} => r.hdr = r.vpce
    /\ r.st \in {"record", "send"} /\ r.ifindex \notin dirty => r.hdr \in Mine(r.vpce)

\* A write to a flow map: what run c puts under its own ifindex is its endpoint's,
\* and other entries at most go.
Writes(c, m, m2) ==
    /\ m2 \in [Key -> Vpce \cup {None}]
    /\ \A k \in Key : m2[k] \notin {None, m[k]} =>
          /\ c \in InFlight /\ k[1] = run[c].ifindex
          /\ k[1] \notin dirty => m2[k] = run[c].vpce

Counts(c) ==
    /\ metrics' \in [Ifindex -> SUBSET Vpce]
    /\ \A i \in Ifindex : metrics'[i] \subseteq metrics[i]
                          \cup {v \in {run[c].vpce} : c \in InFlight /\ i = run[c].ifindex}

\* Nothing can write under an ifindex in no use: the runs that could are gone, and
\* neither program starts one on it.
LEMMA UntouchedByRuns ==
    ASSUME IInv, NEW c \in Cpu, NEW r, RunMoves(c, r), xdpUnchanged,
           Writes(c, flow_state, flow_state'), Writes(c, frag_state, frag_state'), Counts(c),
           NEW i \in Ifindex, Untouched(i), \A v \in Vpce : vpce_to_ifindex[v] # i
    PROVE  Untouched(i)'
<1>1. attached' = attached /\ dirty' = dirty /\ i \notin attached
  BY DEF xdpUnchanged, Untouched
<1>2. \A d \in InFlight' : run'[d].ifindex # i
  <2> SUFFICES ASSUME NEW d \in InFlight' PROVE run'[d].ifindex # i
    OBVIOUS
  <2>1. CASE d # c
    BY <2>1 DEF InFlight, RunMoves, IInv, TypeOK, Untouched
  <2>2. CASE d = c
    <3>1. run'[c] = r /\ r.st \notin {"none", "stray"} /\ r.vpce \in Vpce \cup {None}
      BY <2>2 DEF InFlight, RunMoves, IInv, TypeOK, RunType
    <3>2. r # NoRun
      BY <3>1 DEF NoRun
    <3> QED BY <1>1, <2>2, <3>1, <3>2 DEF RunMoves, Untouched
  <2> QED BY <2>1, <2>2
<1>3. ASSUME i \notin dirty PROVE Unused(i)'
  <2>1. Unused(i) /\ ~(c \in InFlight /\ i = run[c].ifindex)
    BY <1>3 DEF Untouched
  <2>2. \A t \in Tuple : <<i, t>> \in Key /\ <<i, t>>[1] = i
    BY DEF Key
  <2>3. metrics'[i] = {}
    BY <2>1 DEF Unused, Counts
  <2> QED BY <2>1, <2>2, <2>3 DEF Unused, Writes
<1> QED BY <1>1, <1>2, <1>3 DEF Untouched

\* A step of an XDP run that moves and writes as above keeps the invariant.
LEMMA RunsStep ==
    ASSUME IInv, NEW c \in Cpu, NEW r, RunMoves(c, r), xdpUnchanged,
           Writes(c, flow_state, flow_state'), Writes(c, frag_state, frag_state'), Counts(c)
    PROVE  IInv'
<1> USE DEF IInv, xdpUnchanged, cmdVars, pinVars
<1>1. TypeOK'
  BY DEF TypeOK, RunMoves, Writes, Counts
<1>2. \A d \in Cpu \ {c} : run'[d] = run[d] /\ (d \in InFlight' <=> d \in InFlight) /\ (d \in grace' <=> d \in grace)
  BY DEF RunMoves, InFlight, TypeOK
<1>3. run'[c] = r /\ r \in RunType /\ (r = NoRun => r.st = "none")
  BY DEF RunMoves, TypeOK, NoRun
<1>4. JobsOK'
  <2> SUFFICES ASSUME NEW p \in Proc PROVE JobOK(p)'
    BY DEF JobsOK
  <2>1. JobOK(p) /\ job[p] \in JobType
    BY DEF JobsOK, TypeOK
  <2>2. ASSUME job[p].pc \in {"configure", "insert", "undo_veth", "undo_entry"},
               ~job[p].inserted, job[p].idx # None
        PROVE  Untouched(job[p].idx)'
    <3>1. /\ Untouched(job[p].idx) /\ job[p].idx \in Ifindex /\ job[p].vpce \in Vpce
          /\ veth[job[p].idx] = job[p].vpce /\ vpce_to_ifindex[job[p].vpce] = None
      BY <2>1, <2>2 DEF JobOK, JobType, VpcePC, EncapPC, FreshPC, UndoPC, VethPC
    <3>2. \A v \in Vpce : vpce_to_ifindex[v] # job[p].idx
      BY <3>1, NoneAssumption DEF DevicesOK
    <3> QED BY <3>1, <3>2, UntouchedByRuns
  <2> QED BY <2>1, <2>2 DEF JobOK, NoPinInTheWay
<1>5. DevicesOK'
  BY DEF DevicesOK, RunMoves
<1>6. RunsOK'
  <2> SUFFICES ASSUME NEW d \in InFlight' PROVE
          /\ run'[d].ifindex # None /\ run'[d].tuple # None /\ run'[d].vpce # None
          /\ \/ veth[run'[d].ifindex] = run'[d].vpce
             \/ veth[run'[d].ifindex] = None /\ d \in grace' /\ run'[d].ifindex \in dirty
          /\ run'[d].st \in {"publish", "deliver"} => run'[d].hdr = run'[d].vpce
    BY DEF RunsOK, InFlight
  <2>1. CASE d # c
    BY <1>2, <2>1 DEF RunsOK, InFlight
  <2>2. CASE d = c
    <3>1. r.st \notin {"none", "stray"}
      BY <1>3, <2>2 DEF InFlight
    <3>2. /\ grace' = grace /\ r.ifindex # None /\ r.tuple # None /\ r.vpce # None
          /\ \/ c \in InFlight /\ r.ifindex = run[c].ifindex /\ r.vpce = run[c].vpce
             \/ veth[r.ifindex] = r.vpce
          /\ r.st \in {"publish", "deliver"} => r.hdr = r.vpce
      BY <1>3, <3>1 DEF RunMoves
    <3> QED BY <1>3, <2>2, <3>2 DEF RunsOK
  <2> QED BY <2>1, <2>2
<1>7. \A i \in Ifindex \ dirty : c \in InFlight /\ i = run[c].ifindex => veth[i] = run[c].vpce /\ veth[i] # None
  BY DEF RunsOK
<1>8. EntriesOK'
  <2> SUFFICES ASSUME NEW i \in Ifindex \ dirty, veth[i] = None PROVE Unused(i)'
    BY DEF EntriesOK
  <2>1. Unused(i) /\ ~(c \in InFlight /\ i = run[c].ifindex)
    BY <1>7 DEF EntriesOK
  <2>2. \A t \in Tuple : <<i, t>> \in Key /\ <<i, t>>[1] = i
    BY DEF Key
  <2>3. metrics'[i] = {}
    BY <2>1 DEF Unused, Counts
  <2> QED BY <2>1, <2>2, <2>3 DEF Unused, Writes
<1>9. EntriesBelongToOwner'
  <2> SUFFICES ASSUME NEW i \in Ifindex \ dirty, veth[i] # None
               PROVE /\ \A t \in Tuple : /\ flow_state'[<<i, t>>] \in Mine(veth[i])
                                         /\ frag_state'[<<i, t>>] \in Mine(veth[i])
                     /\ metrics'[i] \subseteq {veth[i]}
    BY DEF EntriesBelongToOwner, Mine
  <2>1. /\ \A t \in Tuple : /\ flow_state[<<i, t>>] \in Mine(veth[i])
                            /\ frag_state[<<i, t>>] \in Mine(veth[i])
        /\ metrics[i] \subseteq {veth[i]}
    BY DEF EntriesBelongToOwner
  <2>2. \A t \in Tuple : <<i, t>> \in Key /\ <<i, t>>[1] = i
    BY DEF Key
  <2>3. metrics'[i] \subseteq {veth[i]}
    BY <1>7, <2>1 DEF Counts
  <2>4. ASSUME NEW m, NEW m2, Writes(c, m, m2), \A t \in Tuple : m[<<i, t>>] \in Mine(veth[i])
        PROVE  \A t \in Tuple : m2[<<i, t>>] \in Mine(veth[i])
    BY <1>7, <2>2, <2>4 DEF Writes, Mine
  <2> QED BY <2>1, <2>3, <2>4
<1>10. ReplyCarriesOwnHeader'
  <2> SUFFICES ASSUME NEW d \in Cpu, run'[d].st \in {"record", "send"}, run'[d].ifindex \notin dirty
               PROVE  run'[d].hdr \in Mine(run'[d].vpce)
    BY DEF ReplyCarriesOwnHeader, Mine
  <2>1. CASE d # c
    BY <1>2, <2>1 DEF ReplyCarriesOwnHeader
  <2>2. CASE d = c
    BY <1>3, <2>2 DEF RunMoves
  <2> QED BY <2>1, <2>2
<1> QED BY <1>1, <1>4, <1>5, <1>6, <1>8, <1>9, <1>10

\* A run that writes nothing, or writes one map, writes as RunsStep asks.
LEMMA NoWrite ==
    ASSUME TypeOK, NEW c \in Cpu
    PROVE  /\ UNCHANGED flow_state => Writes(c, flow_state, flow_state')
           /\ UNCHANGED frag_state => Writes(c, frag_state, frag_state')
           /\ UNCHANGED metrics => Counts(c)
BY DEF TypeOK, Writes, Counts

\* LruUpdate under the run's own key, with a header that is its endpoint's.
LEMMA LruWrite ==
    ASSUME NEW c \in InFlight, NEW m \in [Key -> Vpce \cup {None}],
           NEW h \in Vpce \cup {None}, NEW victim, NEW t \in Tuple, NEW i \in Ifindex,
           i = run[c].ifindex, i \notin dirty => h \in Mine(run[c].vpce)
    PROVE  Writes(c, m, LruUpdate(m, <<i, t>>, h, victim))
<1>1. LruUpdate(m, <<i, t>>, h, victim) \in [Key -> Vpce \cup {None}]
  BY DEF LruUpdate
<1>2. ASSUME NEW k \in Key, LruUpdate(m, <<i, t>>, h, victim)[k] \notin {None, m[k]}
      PROVE  k = <<i, t>> /\ LruUpdate(m, <<i, t>>, h, victim)[k] = h /\ h # None
  BY <1>2 DEF LruUpdate
<1> QED BY <1>1, <1>2 DEF Writes, Mine

\* Counting a packet of the run's endpoint under the run's ifindex.
LEMMA CountWrite ==
    ASSUME TypeOK, NEW c \in InFlight, run[c].ifindex \in Ifindex, run[c].vpce \in Vpce,
           Increment(run[c].ifindex, run[c].vpce)
    PROVE  Counts(c)
BY DEF TypeOK, Increment, Counts

\* What is known of a run that is in flight.
LEMMA RunAt ==
    ASSUME IInv, NEW c \in Cpu, run[c].st \notin {"none", "stray"}
    PROVE  /\ TypeOK /\ c \in InFlight /\ run[c] \in RunType
           /\ run[c].ifindex \in Ifindex /\ run[c].tuple \in Tuple /\ run[c].vpce \in Vpce
           /\ run[c].st \in {"publish", "deliver"} => run[c].hdr = run[c].vpce
           /\ run[c].ifindex \notin dirty => veth[run[c].ifindex] = run[c].vpce
BY DEF IInv, TypeOK, RunType, RunsOK, InFlight

\* Leaving a program, whatever was counted on the way.
LEMMA LeaveMoves ==
    ASSUME TypeOK, NEW c \in Cpu, Leave(c) PROVE RunMoves(c, NoRun)
BY DEF Leave, RunMoves, NoRun, RunType, RunState

\* Packets arriving.
LEMMA ReceiveStep == ASSUME IInv, NEW c \in Cpu, Receive(c) PROVE IInv'
<1> USE DEF IInv
<1>1. ASSUME NEW r \in RunType, run[c] = NoRun, run' = [run EXCEPT ![c] = r],
             UNCHANGED <<grace, mapVars>>, xdpUnchanged,
             r.st \notin {"none", "stray", "deliver", "record", "send"},
             r.ifindex # None, r.tuple # None, r.vpce # None, veth[r.ifindex] = r.vpce,
             r.ifindex \in attached \/ vpce_to_ifindex[r.vpce] = r.ifindex,
             r.st = "publish" => r.hdr = r.vpce
      PROVE  IInv'
  <2>1. RunMoves(c, r)
    BY <1>1 DEF RunMoves
  <2> QED BY <1>1, <2>1, NoWrite, RunsStep DEF mapVars
<1>2. ASSUME NEW v \in Vpce, NEW t \in Tuple, DecapReceive(c, v, t) PROVE IInv'
  <2> DEFINE r == [st |-> "publish", ifindex |-> vpce_to_ifindex[v],
                   tuple |-> t, vpce |-> v, hdr |-> v]
  <2>1. vpce_to_ifindex[v] \in Ifindex /\ veth[vpce_to_ifindex[v]] = v
    BY <1>2 DEF DecapReceive, DevicesOK, TypeOK
  <2>2. r \in RunType
    BY <2>1 DEF RunType, RunState
  <2> QED BY <1>1, <1>2, <2>1, <2>2, NoneAssumption DEF DecapReceive
<1>3. ASSUME NEW i \in Ifindex, NEW t \in Tuple, EncapReceive(c, i, t) PROVE IInv'
  <2> DEFINE r == [st |-> "lookup", ifindex |-> i, tuple |-> t, vpce |-> veth[i], hdr |-> None]
  <2>1. veth[i] \in Vpce
    BY <1>3 DEF EncapReceive, DevicesOK, TypeOK
  <2>2. r \in RunType
    BY <2>1 DEF RunType, RunState
  <2> QED BY <1>1, <1>3, <2>1, <2>2, NoneAssumption DEF EncapReceive
<1> QED BY <1>2, <1>3 DEF Receive

\* decap's steps: the header cached is the packet's own, and the count is under
\* the ifindex its endpoint had when it was looked up.
LEMMA DecapStep ==
    ASSUME IInv, NEW c \in Cpu, DecapPublish(c) \/ DecapSkipCache(c) \/ DecapDeliver(c)
    PROVE  IInv'
<1>1. CASE DecapPublish(c) \/ DecapSkipCache(c)
  <2> DEFINE r == [run[c] EXCEPT !.st = "deliver"]
  <2>1. /\ TypeOK /\ c \in InFlight /\ run[c] \in RunType
        /\ run[c].ifindex \in Ifindex /\ run[c].tuple \in Tuple /\ run[c].vpce \in Vpce
        /\ run[c].hdr = run[c].vpce
    BY <1>1, RunAt DEF DecapPublish, DecapSkipCache
  <2>2. r \in RunType /\ r.st = "deliver" /\ r.ifindex = run[c].ifindex /\ r.tuple = run[c].tuple
        /\ r.vpce = run[c].vpce /\ r.hdr = run[c].hdr
    BY <2>1 DEF RunType, RunState
  <2>3. run' = [run EXCEPT ![c] = r] /\ grace' = grace /\ xdpUnchanged
    BY <1>1, <2>1 DEF DecapPublish, DecapSkipCache, TypeOK
  <2>4. RunMoves(c, r)
    BY <2>1, <2>2, <2>3, NoneAssumption DEF RunMoves
  <2>5. Writes(c, flow_state, flow_state')
    <3>1. CASE DecapPublish(c)
      <4>1. PICK victim \in Key \cup {None} :
              flow_state' = LruUpdate(flow_state, <<run[c].ifindex, run[c].tuple>>, run[c].hdr, victim)
        BY <3>1 DEF DecapPublish
      <4>2. flow_state \in [Key -> Vpce \cup {None}]
        BY <2>1 DEF TypeOK
      <4> QED BY <2>1, <4>1, <4>2, LruWrite DEF Mine
    <3>2. CASE DecapSkipCache(c)
      BY <2>1, <3>2, NoWrite DEF DecapSkipCache, mapVars
    <3> QED BY <1>1, <3>1, <3>2
  <2>6. Writes(c, frag_state, frag_state') /\ Counts(c)
    BY <1>1, <2>1, NoWrite DEF DecapPublish, DecapSkipCache, mapVars
  <2> QED BY <2>3, <2>4, <2>5, <2>6, RunsStep
<1>2. CASE DecapDeliver(c)
  BY <1>2, RunAt, LeaveMoves, NoWrite, CountWrite, RunsStep DEF DecapDeliver
<1> QED BY <1>1, <1>2

\* encap's steps: a header found under a clean ifindex is its endpoint's.
LEMMA EncapStep ==
    ASSUME IInv, NEW c \in Cpu,
           \/ \E first \in BOOLEAN : EncapLookupFlow(c, first)
           \/ EncapLookupFrag(c) \/ EncapRecord(c) \/ EncapSend(c)
    PROVE  IInv'
<1>1. CASE EncapLookupFrag(c) \/ \E first \in BOOLEAN : EncapLookupFlow(c, first)
  <2> DEFINE k == <<run[c].ifindex, run[c].tuple>>
  <2>1. /\ TypeOK /\ c \in InFlight /\ run[c] \in RunType
        /\ run[c].ifindex \in Ifindex /\ run[c].tuple \in Tuple /\ run[c].vpce \in Vpce
        /\ run[c].ifindex \notin dirty => veth[run[c].ifindex] = run[c].vpce
        /\ UNCHANGED <<grace, mapVars>> /\ xdpUnchanged
    BY <1>1, RunAt DEF EncapLookupFrag, EncapLookupFlow
  <2>2. PICK h \in {flow_state[k], frag_state[k]}, st \in {"record", "send"} :
          run' = [run EXCEPT ![c] = [run[c] EXCEPT !.hdr = h, !.st = st]]
    <3>1. CASE EncapLookupFrag(c)
      BY <2>1, <3>1 DEF EncapLookupFrag, TypeOK
    <3>2. ASSUME NEW first \in BOOLEAN, EncapLookupFlow(c, first)
          PROVE  run' = [run EXCEPT ![c] = [run[c] EXCEPT !.hdr = flow_state[k],
                            !.st = IF first /\ flow_state[k] # None THEN "record" ELSE "send"]]
      BY <2>1, <3>2 DEF EncapLookupFlow, TypeOK
    <3> QED BY <1>1, <3>1, <3>2
  <2> DEFINE r == [run[c] EXCEPT !.hdr = h, !.st = st]
  <2>3. k \in Key /\ h \in Vpce \cup {None}
    BY <2>1 DEF Key, TypeOK
  <2>4. run[c].ifindex \notin dirty => h \in Mine(run[c].vpce)
    BY <2>1, NoneAssumption DEF IInv, EntriesBelongToOwner
  <2>5. r \in RunType /\ r.st = st /\ r.ifindex = run[c].ifindex /\ r.tuple = run[c].tuple
        /\ r.vpce = run[c].vpce /\ r.hdr = h
    BY <2>1, <2>3 DEF RunType, RunState
  <2>6. RunMoves(c, r)
    BY <2>1, <2>2, <2>4, <2>5, NoneAssumption DEF RunMoves
  <2> QED BY <2>1, <2>6, NoWrite, RunsStep DEF mapVars
<1>2. CASE EncapRecord(c)
  <2> DEFINE r == [run[c] EXCEPT !.st = "send"]
  <2>1. /\ TypeOK /\ c \in InFlight /\ run[c] \in RunType /\ run[c].st = "record"
        /\ run[c].ifindex \in Ifindex /\ run[c].tuple \in Tuple /\ run[c].vpce \in Vpce
        /\ run[c].hdr \in Vpce \cup {None}
        /\ run[c].ifindex \notin dirty => run[c].hdr \in Mine(run[c].vpce)
    BY <1>2, RunAt DEF EncapRecord, IInv, ReplyCarriesOwnHeader, RunType
  <2>2. r \in RunType /\ r.st = "send" /\ r.ifindex = run[c].ifindex /\ r.tuple = run[c].tuple
        /\ r.vpce = run[c].vpce /\ r.hdr = run[c].hdr
    BY <2>1 DEF RunType, RunState
  <2>3. run' = [run EXCEPT ![c] = r] /\ grace' = grace /\ xdpUnchanged
    BY <1>2, <2>1 DEF EncapRecord, TypeOK
  <2>4. RunMoves(c, r)
    BY <2>1, <2>2, <2>3, NoneAssumption DEF RunMoves
  <2>5. Writes(c, frag_state, frag_state')
    <3>1. PICK victim \in Key \cup {None} :
            frag_state' = LruUpdate(frag_state, <<run[c].ifindex, run[c].tuple>>, run[c].hdr, victim)
      BY <1>2 DEF EncapRecord
    <3>2. frag_state \in [Key -> Vpce \cup {None}]
      BY <2>1 DEF TypeOK
    <3> QED BY <2>1, <3>1, <3>2, LruWrite
  <2>6. Writes(c, flow_state, flow_state') /\ Counts(c)
    BY <1>2, <2>1, NoWrite DEF EncapRecord
  <2> QED BY <2>3, <2>4, <2>5, <2>6, RunsStep
<1>3. CASE EncapSend(c)
  BY <1>3, RunAt, LeaveMoves, NoWrite, CountWrite, RunsStep DEF EncapSend
<1> QED BY <1>1, <1>2, <1>3

\* A run on unpinned maps ends.
LEMMA StrayLeaveStep == ASSUME IInv, NEW c \in Cpu, StrayLeave(c) PROVE IInv'
BY LeaveMoves, NoWrite, RunsStep DEF StrayLeave, mapVars, IInv

-----------------------------------------------------------------------------
(* The invariant, and what follows from it.                                *)

\* A host before the first setup satisfies the invariant.
LEMMA InitIInv == Init => IInv
<1> SUFFICES ASSUME Init PROVE IInv
  OBVIOUS
<1> USE DEF Init
<1>1. TypeOK
  <2>1. Idle \in JobType
    BY DEF Idle, JobType, PC
  <2>2. NoRun \in RunType
    BY DEF NoRun, RunType, RunState
  <2> QED BY <2>1, <2>2 DEF TypeOK, NoEntries, NoMetrics
<1>2. JobsOK
  BY DEF JobsOK, JobOK, Idle, VpcePC, IdxPC, VethPC, FreshPC, UndoPC, UnwirePC, InsertedPC, EncapPC,
     NoPinInTheWay
<1>3. DevicesOK
  BY DEF DevicesOK
<1>4. RunsOK /\ ReplyCarriesOwnHeader
  BY DEF RunsOK, InFlight, NoRun, ReplyCarriesOwnHeader
<1>5. EntriesOK /\ EntriesBelongToOwner
  BY DEF EntriesOK, EntriesBelongToOwner, Unused, NoEntries, NoMetrics, Key, Mine
<1> QED BY <1>1, <1>2, <1>3, <1>4, <1>5 DEF IInv

\* Nothing happens.
LEMMA StutterIInv == ASSUME IInv, UNCHANGED vars PROVE IInv'
BY DEF vars, IInv, TypeOK, JobsOK, JobOK, NoPinInTheWay, Untouched, Unused, InFlight, DevicesOK, RunsOK,
       EntriesOK, EntriesBelongToOwner, ReplyCarriesOwnHeader, Mine

\* Every step of a command and of an XDP run keeps the invariant.
LEMMA NextIInv == IInv /\ [Next]_vars => IInv'
<1> SUFFICES ASSUME IInv, [Next]_vars PROVE IInv'
  OBVIOUS
<1>1. ASSUME NEW p \in Proc, Begin(p) PROVE IInv'
  BY <1>1, StartStep DEF Begin
<1>2. ASSUME NEW p \in Proc, JobStep(p) PROVE IInv'
  <2>1. CASE SetupLoad(p) \/ SetupAttachDecap(p) \/ SetupLoadEncap(p) \/ SetupPinEncap(p)
    BY <2>1, SetupSteps
  <2>2. CASE \/ AddCheck(p) \/ AddNetns(p) \/ AddVeth(p) \/ AddConfigure(p)
             \/ AddInsert(p) \/ AddClearPin(p) \/ AddAttach(p)
    BY <2>2, AddCheckStep, AddNetnsStep, AddVethStep, AddConfigureStep, AddInsertStep,
       AddClearPinStep, AddAttachStep
  <2>3. CASE UndoEntry(p) \/ UndoVeth(p) \/ UndoWait(p) \/ UndoSweep(p) \/ UndoNetns(p)
    BY <2>3, UndoEntryStep, UndoVethStep, UndoWaitStep, UndoSweepStep, UndoNetnsStep
  <2>4. CASE \/ RemoveEntry(p) \/ RemoveDetach(p) \/ RemoveVeth(p) \/ RemoveWait(p)
             \/ RemoveSweep(p) \/ RemoveNetns(p)
    BY <2>4, RemoveEntryStep, RemoveDetachStep, RemoveVethStep, RemoveWaitStep,
       RemoveSweepStep, RemoveNetnsStep
  <2>5. CASE TeardownList(p) \/ TeardownNext(p) \/ TeardownDetachDecap(p) \/ TeardownUnpin(p)
    BY <2>5, TeardownListStep, TeardownNextStep, TeardownDetachDecapStep, TeardownUnpinStep
  <2>6. CASE Unlock(p)
    BY <2>6, ReleaseStep
  <2> QED BY <1>2, <2>1, <2>2, <2>3, <2>4, <2>5, <2>6 DEF JobStep
<1>3. ASSUME NEW p \in Proc, Crash(p) PROVE IInv'
  BY <1>3, ReleaseStep
<1>4. ASSUME NEW c \in Cpu, Receive(c) PROVE IInv'
  BY <1>4, ReceiveStep
<1>5. ASSUME NEW c \in Cpu, RunStep(c) PROVE IInv'
  BY <1>5, DecapStep, EncapStep, StrayLeaveStep DEF RunStep
<1>6. CASE UNCHANGED vars
  BY <1>6, StutterIInv
<1> QED BY <1>1, <1>2, <1>3, <1>4, <1>5, <1>6 DEF Next

\* The invariant that keeps endpoints apart holds on every host: whatever the
\* commands do one after another, killed or not, and whatever XDP runs overlap.
THEOREM Invariance == Spec => []IInv
BY InitIInv, NextIInv, PTL DEF Spec

\* Types, and that only the holder of the flock is doing anything
\* (utils.go withStateLock).
THEOREM TypeCorrect == Spec => []TypeOK
<1>1. IInv => TypeOK
  BY DEF IInv
<1> QED BY Invariance, <1>1, PTL

\* No endpoint inherits another's map entries with its ifindex, unless a sweep was
\* missed (decap.go SweepEndpoint, called after LinkDel).
THEOREM Isolation == Spec => []EntriesBelongToOwner
<1>1. IInv => EntriesBelongToOwner
  BY DEF IInv
<1> QED BY Invariance, <1>1, PTL

\* decap never redirects a packet to the veth of another endpoint, though the
\* ifindex it looked up may have been deleted and given out again since.
THEOREM Delivery == Spec => []DeliveredToOwner
<1>1. IInv => DeliveredToOwner
  BY DEF IInv, RunsOK, InFlight, DeliveredToOwner, Mine
<1> QED BY Invariance, <1>1, PTL

\* When add attaches encap, Pin does not fail on a pin that a killed or failed command
\* left under the ifindex (encap.go Attach).
THEOREM StalePinsCleared == Spec => [](\A p \in Proc : NoPinInTheWay(p))
<1>1. IInv => \A p \in Proc : NoPinInTheWay(p)
  BY DEF IInv, JobsOK, JobOK
<1> QED BY Invariance, <1>1, PTL

\* encap never replays another endpoint's header, unless a sweep was missed.
THEOREM Replies == Spec => []ReplyCarriesOwnHeader
<1>1. IInv => ReplyCarriesOwnHeader
  BY DEF IInv
<1> QED BY Invariance, <1>1, PTL

-----------------------------------------------------------------------------
(* Commands keep to their own endpoint.                                    *)

\* The veth a command deletes, attaches or detaches is its endpoint's own: what
\* the other endpoints have is as before.
LEMMA OthersKeepVeth ==
    ASSUME NEW v, NEW w, v # w, NEW i \in Ifindex, TypeOK, w # None,
           vpce_to_ifindex'[w] = vpce_to_ifindex[w], w \in netns' <=> w \in netns,
           \A k \in Ifindex \ {i} : veth'[k] = veth[k] /\ (k \in attached' <=> k \in attached),
           veth[i] \in {None, v}, veth'[i] \in {None, v},
           attached \subseteq Ifindex, attached' \subseteq Ifindex
    PROVE  Provisioning(w)' = Provisioning(w)
<1>1. \A k \in Ifindex : veth'[k] = w <=> veth[k] = w
  OBVIOUS
<1>2. \A k \in Ifindex : k \in attached' /\ veth'[k] = w <=> k \in attached /\ veth[k] = w
  OBVIOUS
<1>3. {k \in Ifindex : veth[k] = w}' = {k \in Ifindex : veth[k] = w}
  BY <1>1
<1>4. {k \in attached : veth[k] = w}' = {k \in attached : veth[k] = w}
  BY <1>2
<1> QED BY <1>3, <1>4 DEF Provisioning

\* The same with every device as it was.
LEMMA OthersKeepDevices ==
    ASSUME NEW w, UNCHANGED <<veth, attached>>,
           vpce_to_ifindex'[w] = vpce_to_ifindex[w], w \in netns' <=> w \in netns
    PROVE  Provisioning(w)' = Provisioning(w)
BY DEF Provisioning

\* Short of the unpinning, a command's step changes only its own endpoint's provisioning.
LEMMA JobKeepsToItsOwn ==
    ASSUME IInv, NEW p \in Proc, JobStep(p), NEW w \in Vpce, job[p].vpce # w, job[p].pc # "unpin"
    PROVE  Provisioning(w)' = Provisioning(w)
<1>0. TypeOK /\ w # None
  BY NoneAssumption DEF IInv
<1>1. CASE \/ SetupLoad(p) \/ SetupAttachDecap(p) \/ SetupLoadEncap(p) \/ SetupPinEncap(p)
           \/ AddCheck(p) \/ AddConfigure(p) \/ AddClearPin(p) \/ UndoWait(p) \/ UndoSweep(p)
           \/ RemoveWait(p) \/ RemoveSweep(p)
           \/ TeardownList(p) \/ TeardownNext(p) \/ TeardownDetachDecap(p) \/ Unlock(p)
  BY <1>1, OthersKeepDevices
     DEF SetupLoad, SetupAttachDecap, SetupLoadEncap, SetupPinEncap, AddCheck, AddConfigure, AddClearPin,
         UndoWait, UndoSweep, RemoveWait, RemoveSweep, TeardownList, TeardownNext,
            TeardownDetachDecap, Unlock,
         Release, devVars
<1>2. CASE AddNetns(p) \/ UndoNetns(p) \/ RemoveNetns(p)
  BY <1>2, OthersKeepDevices DEF AddNetns, UndoNetns, RemoveNetns, CreatedNetns
<1>3. CASE AddInsert(p) \/ UndoEntry(p) \/ RemoveEntry(p)
  BY <1>0, <1>3, OthersKeepDevices DEF AddInsert, UndoEntry, RemoveEntry, EntryDeleted, devVars, TypeOK
<1>4. CASE AddVeth(p)
  <2>1. CASE UNCHANGED veth
    BY <1>4, <2>1, OthersKeepDevices DEF AddVeth
  <2>2. ASSUME NEW i \in Ifindex, veth[i] = None, veth' = [veth EXCEPT ![i] = job[p].vpce]
        PROVE  Provisioning(w)' = Provisioning(w)
    BY <1>0, <1>4, <2>2, OthersKeepVeth DEF AddVeth, TypeOK
  <2> QED BY <1>4, <2>1, <2>2 DEF AddVeth
<1>5. CASE AddAttach(p) \/ RemoveDetach(p) \/ UndoVeth(p) \/ RemoveVeth(p)
  <2>1. job[p].idx \in Ifindex /\ veth[job[p].idx] = job[p].vpce
    BY <1>5, AtStep DEF AddAttach, RemoveDetach, UndoVeth, RemoveVeth, At, JobOK, JobType, IdxPC,
       EncapPC, VethPC, UnwirePC
  <2>2. attached' \subseteq Ifindex /\ UNCHANGED <<vpce_to_ifindex, netns>>
    BY <1>0, <1>5, <2>1 DEF AddAttach, RemoveDetach, UndoVeth, RemoveVeth, LinkDel, TypeOK
  <2>3. /\ \A k \in Ifindex \ {job[p].idx} : veth'[k] = veth[k] /\ (k \in attached' <=> k \in attached)
        /\ veth'[job[p].idx] \in {None, job[p].vpce}
    BY <1>0, <1>5, <2>1 DEF AddAttach, RemoveDetach, UndoVeth, RemoveVeth, LinkDel, TypeOK
  <2> QED BY <1>0, <2>1, <2>2, <2>3, OthersKeepVeth DEF TypeOK
<1>6. CASE TeardownUnpin(p)
  BY <1>6 DEF TeardownUnpin, At
<1> QED BY <1>1, <1>2, <1>3, <1>4, <1>5, <1>6 DEF JobStep

\* However commands and XDP runs interleave, what one endpoint has changes only by
\* a command that works on it, or by teardown removing every pin.
THEOREM OwnEndpoint == Spec => OnlyOwnEndpointTouched
<1>1. ASSUME IInv, [Next]_vars, NEW w \in Vpce, Provisioning(w)' # Provisioning(w)
      PROVE  \E p \in Proc : job[p].vpce = w \/ job[p].pc = "unpin"
  <2>1. ASSUME NEW p \in Proc, Begin(p) \/ Crash(p) PROVE FALSE
    BY <1>1, <2>1, OthersKeepDevices DEF Begin, Crash, Start, Release, devVars
  <2>2. ASSUME NEW c \in Cpu, Receive(c) \/ RunStep(c) PROVE FALSE
    BY <1>1, <2>2, OthersKeepDevices
       DEF Receive, RunStep, DecapReceive, EncapReceive, DecapPublish, DecapSkipCache, DecapDeliver,
           EncapLookupFlow, EncapLookupFrag, EncapRecord, EncapSend, StrayLeave, xdpUnchanged
  <2>3. ~UNCHANGED vars
    BY <1>1, OthersKeepDevices DEF vars
  <2>4. PICK p \in Proc : JobStep(p)
    BY <1>1, <2>1, <2>2, <2>3 DEF Next
  <2> QED BY <1>1, <2>4, JobKeepsToItsOwn
<1>2. IInv /\ [Next]_vars =>
        [\A v \in Vpce : Provisioning(v)' # Provisioning(v) =>
            \E p \in Proc : job[p].vpce = v \/ job[p].pc = "unpin"]_vars
  BY <1>1
<1> QED BY Invariance, <1>2, PTL DEF Spec, OnlyOwnEndpointTouched
=============================================================================
