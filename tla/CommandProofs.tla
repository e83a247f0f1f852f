--------------------------- MODULE CommandProofs ----------------------------
(***************************************************************************)
(* What the commands promise (Gwlb.tla), for any numbers of commands,      *)
(* CPUs, endpoints, ifindexes and flows: one inductive invariant for each  *)
(* promise, relative to IInv.  Then what holds as long as no command is    *)
(* killed or fails to clean up (MaxFaults = 0), whatever fails while it is *)
(* being set up.                                                           *)
(***************************************************************************)
EXTENDS GwlbProofs

-----------------------------------------------------------------------------
(* The invariants.                                                         *)

\* No two veths are one endpoint's: they would have the same name.
VethUnique ==
    \A i, j \in Ifindex : veth[i] = veth[j] /\ veth[i] # None => i = j

\* The host's endpoints are as the running command found them.
AsFound ==
    /\ veth = found.veth /\ netns = found.netns
    /\ attached = found.attached /\ vpce_to_ifindex = found.endpoints

\* setup on a host that is set up does not get past attaching decap.
SetupOK(p) ==
    job[p].cmd = "setup" /\ "decap_link" \in found.pinned =>
        /\ job[p].pc \in {"load", "attach_decap", "failed"}
        /\ "decap_link" \in pinned
        /\ AsFound

\* Where an add can be.
AddPC == FreshPC \cup EncapPC \cup UndoPC \cup {"check", "undo_entry", "done", "failed"}

\* What an add knows of what it found, as far as it has got.
AddKnows(p) ==
    LET j == job[p] IN
    /\ j.pc \in AddPC
    /\ found.veth \in [Ifindex -> Vpce \cup {None}]
    /\ found.endpoints \in [Vpce -> Ifindex \cup {None}]
    /\ j.idx # None => found.veth[j.idx] = None /\ j.idx \notin found.attached
    /\ j.inserted => found.endpoints[j.vpce] = None
    /\ j.createdNetns => j.pc \notin {"check", "netns"} /\ j.vpce \notin found.netns
    /\ j.getFailed => /\ j.pc \in {"undo_entry", "undo_netns", "failed"}
                      /\ ~j.createdNetns /\ j.idx = None

\* What has changed since: what the add's flags say, and nothing else.  Of getFailed they
\* say that a netns by the endpoint's name is gone.
NetnsChanged(p) ==
    LET j == job[p] IN
    netns = (found.netns \ (IF j.getFailed THEN {j.vpce} ELSE {}))
            \cup IF j.createdNetns /\ j.pc # "failed" THEN {j.vpce} ELSE {}

VethChanged(p) ==
    LET j == job[p] IN
    veth = IF j.idx # None /\ j.pc \in VethPC \cup {"undo_entry", "done"}
           THEN [found.veth EXCEPT ![j.idx] = j.vpce] ELSE found.veth

EntryChanged(p) ==
    LET j == job[p] IN
    vpce_to_ifindex = IF j.inserted /\ j.pc \in EncapPC \cup {"undo_entry", "done"}
                      THEN [found.endpoints EXCEPT ![j.vpce] = j.idx] ELSE found.endpoints

\* encap may be attached at the beginning of the rollback: closing its program failed.
AttachedChanged(p) ==
    LET j == job[p] IN
    \/ attached = IF j.pc = "done" THEN found.attached \cup {j.idx} ELSE found.attached
    \/ /\ j.pc \in {"undo_entry", "undo_veth"} /\ j.idx # None
       /\ attached = found.attached \cup {j.idx}

\* While an add goes on, and is rolled back.
AddOK(p) ==
    job[p].cmd = "add" /\ ~job[p].faulty =>
        /\ AddKnows(p)
        /\ NetnsChanged(p) /\ VethChanged(p) /\ EntryChanged(p) /\ AttachedChanged(p)

\* Where a remove can be.
RemovePC == {"remove_entry", "detach", "del_veth", "wait", "sweep", "del_netns", "done"}

\* What a remove has taken away stays away.
RemoveOK(p) ==
    LET j == job[p] IN
    j.cmd = "remove" /\ ~j.faulty =>
        /\ j.pc \in RemovePC
        /\ j.vpce # None
        /\ j.pc # "remove_entry" => /\ vpce_to_ifindex[j.vpce] = None
                                    /\ \A i \in Ifindex : veth[i] = j.vpce => i = j.idx
        /\ j.idx # None =>
            /\ j.pc \in {"del_veth", "wait", "sweep", "del_netns", "done"} => j.idx \notin encap_pin
            /\ j.pc \in {"wait", "sweep", "del_netns", "done"} => veth[j.idx] = None
            /\ j.pc \in {"del_netns", "done"} => j.idx \notin dirty
        /\ j.pc = "done" => j.vpce \notin netns

PromisesOK ==
    /\ VethUnique
    /\ \A p \in Proc : SetupOK(p) /\ AddOK(p) /\ RemoveOK(p)

-----------------------------------------------------------------------------
(* What a step is to one invocation.                                       *)

\* A command's step that is not its last keeps the lock, and what the command found.
LEMMA StepKeepsLock ==
    ASSUME IInv, NEW p \in Proc, JobStep(p)
    PROVE  /\ lock = p /\ job[p].pc # "idle"
           /\ Unlock(p) \/ UNCHANGED cmdVars
<1>1. CASE \/ SetupLoad(p) \/ SetupAttachDecap(p) \/ SetupLoadEncap(p) \/ SetupPinEncap(p)
           \/ AddCheck(p) \/ AddNetns(p) \/ AddVeth(p) \/ AddConfigure(p) \/ AddInsert(p)
           \/ AddClearPin(p) \/ AddAttach(p)
  BY <1>1, HoldsLock
     DEF IInv, SetupLoad, SetupAttachDecap, SetupLoadEncap, SetupPinEncap, AddCheck, AddNetns, AddVeth,
         AddConfigure, AddInsert, AddClearPin, AddAttach, At
<1>2. CASE \/ UndoEntry(p) \/ UndoVeth(p) \/ UndoWait(p) \/ UndoSweep(p) \/ UndoNetns(p)
           \/ RemoveEntry(p) \/ RemoveDetach(p) \/ RemoveVeth(p) \/ RemoveWait(p) \/ RemoveSweep(p)
           \/ RemoveNetns(p)
  BY <1>2, HoldsLock
     DEF IInv, UndoEntry, UndoVeth, UndoWait, UndoSweep, UndoNetns, RemoveEntry, RemoveDetach, RemoveVeth,
         RemoveWait, RemoveSweep, RemoveNetns, At
<1>3. CASE TeardownList(p) \/ TeardownNext(p) \/ TeardownDetachDecap(p) \/ TeardownUnpin(p)
  BY <1>3, HoldsLock DEF IInv, TeardownList, TeardownNext, TeardownDetachDecap, TeardownUnpin, At
<1>4. CASE Unlock(p)
  BY <1>4, HoldsLock DEF IInv, Unlock
<1> QED BY <1>1, <1>2, <1>3, <1>4 DEF JobStep

\* XDP runs, and nothing, change neither jobs nor what belongs to the endpoints.
LEMMA RunKeepsHost ==
    ASSUME NEW c \in Cpu, Receive(c) \/ RunStep(c)
    PROVE  xdpUnchanged
BY DEF Receive, RunStep, DecapReceive, EncapReceive, DecapPublish, DecapSkipCache, DecapDeliver,
       EncapLookupFlow, EncapLookupFrag, EncapRecord, EncapSend, StrayLeave

\* An invocation takes a step of its own, begins, or ends up with nothing to do; or
\* the step is none of a command's.
LEMMA ByInvocation ==
    ASSUME IInv, [Next]_vars, NEW p \in Proc
    PROVE  \/ JobStep(p) /\ ~Unlock(p) /\ lock = p /\ UNCHANGED cmdVars
           \/ \E cmd \in Command, v \in Vpce, isolated \in BOOLEAN : Start(p, cmd, v, isolated)
           \/ job'[p] = Idle
           \/ xdpUnchanged
<1>0. IInv' /\ TypeOK /\ TypeOK'
  BY NextIInv DEF IInv
<1>1. ASSUME NEW q \in Proc, Begin(q) PROVE q = p \/ job'[p] = Idle
  BY <1>0, <1>1 DEF Begin, Start, TypeOK
<1>2. ASSUME NEW q \in Proc, Crash(q) PROVE job'[p] = Idle
  BY <1>0, <1>2, NoneAssumption DEF Crash, Release, TypeOK
<1>3. ASSUME NEW q \in Proc, JobStep(q)
      PROVE  job'[p] = Idle \/ (q = p /\ ~Unlock(p) /\ lock = p /\ UNCHANGED cmdVars)
  <2>1. CASE Unlock(q)
    BY <1>0, <2>1, NoneAssumption DEF Unlock, Release, TypeOK
  <2>2. CASE ~Unlock(q) /\ lock = q /\ UNCHANGED cmdVars
    BY <1>0, <2>2 DEF TypeOK, cmdVars
  <2> QED BY <1>3, <2>1, <2>2, StepKeepsLock
<1>4. CASE UNCHANGED vars
  BY <1>4 DEF vars, xdpUnchanged, cmdVars, pinVars
<1> QED BY <1>1, <1>2, <1>3, <1>4, RunKeepsHost DEF Next, Begin

\* It stays the same command, and a fault stays noted.
LEMMA SameCommand ==
    ASSUME IInv, NEW p \in Proc, JobStep(p), ~Unlock(p)
    PROVE  job'[p].cmd = job[p].cmd /\ (job[p].faulty => job'[p].faulty)
<1>0. job \in [Proc -> JobType]
  BY DEF IInv, TypeOK
<1> USE DEF Goto, Faulted, JobType
<1>1. CASE \/ SetupLoad(p) \/ SetupAttachDecap(p) \/ SetupLoadEncap(p) \/ SetupPinEncap(p)
           \/ AddCheck(p) \/ AddNetns(p) \/ AddVeth(p) \/ AddConfigure(p) \/ AddInsert(p)
           \/ AddClearPin(p) \/ AddAttach(p)
  BY <1>0, <1>1
     DEF SetupLoad, SetupAttachDecap, SetupLoadEncap, SetupPinEncap, AddCheck, AddNetns, AddVeth,
         AddConfigure, AddInsert, AddClearPin, AddAttach
<1>2. CASE \/ UndoEntry(p) \/ UndoVeth(p) \/ UndoWait(p) \/ UndoSweep(p) \/ UndoNetns(p)
           \/ RemoveEntry(p) \/ RemoveDetach(p) \/ RemoveVeth(p) \/ RemoveWait(p) \/ RemoveSweep(p)
           \/ RemoveNetns(p)
  BY <1>0, <1>2
     DEF UndoEntry, UndoVeth, UndoWait, UndoSweep, UndoNetns, RemoveEntry, RemoveDetach, RemoveVeth,
         RemoveWait, RemoveSweep, RemoveNetns
<1>3. CASE TeardownList(p) \/ TeardownNext(p)
  <2>1. CASE TeardownList(p)
    BY <1>0, <2>1 DEF TeardownList
  <2>2. ASSUME NEW v, job' = [job EXCEPT ![p].pc = "remove_entry", ![p].vpce = v, ![p].idx = None,
                                         ![p].todo = @ \ {v}]
        PROVE  job'[p].cmd = job[p].cmd /\ job'[p].faulty = job[p].faulty
    BY <1>0, <2>2
  <2>3. CASE Goto(p, "detach_decap")
    BY <1>0, <2>3
  <2> QED BY <1>3, <2>1, <2>2, <2>3 DEF TeardownNext
<1>4. CASE TeardownDetachDecap(p) \/ TeardownUnpin(p)
  BY <1>0, <1>4 DEF TeardownDetachDecap, TeardownUnpin
<1> QED BY <1>1, <1>2, <1>3, <1>4 DEF JobStep

-----------------------------------------------------------------------------
(* No two veths of one endpoint.                                           *)

\* Only a command changes veths; the kernel refuses a second one by the same name.
LEMMA UniqueStep ==
    ASSUME IInv, [Next]_vars, VethUnique
    PROVE  VethUnique'
<1>0. TypeOK
  BY DEF IInv
<1>1. CASE UNCHANGED veth
  BY <1>1 DEF VethUnique
<1>2. ASSUME NEW i \in Ifindex, veth' = [veth EXCEPT ![i] = None] PROVE VethUnique'
  BY <1>0, <1>2 DEF VethUnique, TypeOK
<1>3. ASSUME NEW p \in Proc, AddVeth(p) PROVE VethUnique'
  <2>1. ASSUME NEW i \in Ifindex, veth' = [veth EXCEPT ![i] = job[p].vpce],
               LinkByName(job[p].vpce) = None
        PROVE  VethUnique'
    <3>1. job[p].vpce \in Vpce
      BY <1>3, AtStep DEF AddVeth, At, JobOK, VpcePC, FreshPC, JobType
    <3>2. \A k \in Ifindex : veth[k] # job[p].vpce
      BY <2>1, NoneAssumption DEF LinkByName
    <3> QED BY <1>0, <2>1, <3>1, <3>2 DEF VethUnique, TypeOK
  <2> QED BY <1>1, <1>3, <2>1 DEF AddVeth
<1>4. ASSUME NEW p \in Proc, UndoVeth(p) \/ RemoveVeth(p) PROVE VethUnique'
  <2>1. job[p].idx \in Ifindex
    BY <1>4, AtStep DEF UndoVeth, RemoveVeth, At, JobOK, IdxPC, VethPC, UnwirePC, JobType
  <2> QED BY <1>1, <1>2, <1>4, <2>1 DEF UndoVeth, RemoveVeth, LinkDel
<1>5. ASSUME NEW p \in Proc, JobStep(p), ~AddVeth(p), ~UndoVeth(p), ~RemoveVeth(p)
      PROVE  UNCHANGED veth
  BY <1>5
     DEF JobStep, SetupLoad, SetupAttachDecap, SetupLoadEncap, SetupPinEncap, AddCheck, AddNetns,
         AddConfigure, AddInsert, AddClearPin, AddAttach, UndoEntry, UndoWait, UndoSweep, UndoNetns,
            RemoveEntry,
         RemoveDetach, RemoveWait, RemoveSweep, RemoveNetns, TeardownList, TeardownNext,
         TeardownDetachDecap, TeardownUnpin, Unlock, Release, devVars
<1>6. ASSUME NEW p \in Proc, Begin(p) \/ Crash(p) PROVE UNCHANGED veth
  BY <1>6 DEF Begin, Start, Crash, Release, devVars
<1>7. CASE UNCHANGED vars
  BY <1>1, <1>7 DEF vars
<1> QED BY <1>1, <1>3, <1>4, <1>5, <1>6, <1>7, RunKeepsHost DEF Next, xdpUnchanged

-----------------------------------------------------------------------------
(* setup.                                                                  *)

\* On a host that is set up, attaching decap is as far as setup gets.
LEMMA SetupOKStep ==
    ASSUME IInv, [Next]_vars, NEW p \in Proc, SetupOK(p)
    PROVE  SetupOK(p)'
<1>0. TypeOK /\ job[p] \in JobType
  BY DEF IInv, TypeOK
<1> USE DEF SetupOK, AsFound
<1>1. ASSUME NEW cmd \in Command, NEW v \in Vpce, NEW isolated \in BOOLEAN, Start(p, cmd, v, isolated)
      PROVE  SetupOK(p)'
  BY <1>0, <1>1 DEF Start, TypeOK, Idle, devVars, pinVars
<1>2. CASE job'[p] = Idle
  BY <1>2 DEF Idle
<1>3. CASE xdpUnchanged
  BY <1>3 DEF xdpUnchanged, cmdVars, pinVars
<1>4. CASE JobStep(p) /\ ~Unlock(p) /\ UNCHANGED cmdVars
  <2>1. CASE job[p].pc \in {"load", "attach_decap", "failed"}
    <3>1. SetupLoad(p) \/ SetupAttachDecap(p)
      BY <1>4, <2>1 DEF JobStep, SetupLoadEncap, SetupPinEncap, AddCheck, AddNetns, AddVeth,
         AddConfigure, AddInsert, AddClearPin, AddAttach, UndoEntry, UndoVeth, UndoWait, UndoSweep,
            UndoNetns,
         RemoveEntry, RemoveDetach, RemoveVeth, RemoveWait, RemoveSweep, RemoveNetns,
         TeardownList, TeardownNext, TeardownDetachDecap, TeardownUnpin, At
    <3>2. job'[p].cmd = job[p].cmd /\ job' = [job EXCEPT ![p].pc = job'[p].pc]
      BY <1>0, <1>4, <3>1, SameCommand DEF SetupLoad, SetupAttachDecap, Goto, TypeOK
    <3>3. CASE SetupLoad(p)
      BY <1>0, <1>4, <3>2, <3>3 DEF SetupLoad, Goto, devVars, cmdVars, TypeOK, JobType
    <3>4. CASE SetupAttachDecap(p)
      BY <1>0, <1>4, <3>2, <3>4
         DEF SetupAttachDecap, AfterFailedAttach, Goto, devVars, cmdVars, TypeOK, JobType
    <3> QED BY <3>1, <3>3, <3>4
  <2> QED BY <1>4, <2>1, SameCommand DEF cmdVars
<1> QED BY <1>1, <1>2, <1>3, <1>4, ByInvocation

-----------------------------------------------------------------------------
(* add.                                                                    *)

\* The steps of an add.
LEMMA AddSteps ==
    ASSUME NEW p \in Proc, JobStep(p), ~Unlock(p), job[p].pc \in AddPC
    PROVE  \/ AddCheck(p) \/ AddNetns(p) \/ AddVeth(p) \/ AddConfigure(p) \/ AddInsert(p)
           \/ AddClearPin(p) \/ AddAttach(p)
           \/ UndoEntry(p) \/ UndoVeth(p) \/ UndoWait(p) \/ UndoSweep(p) \/ UndoNetns(p)
BY DEF AddPC, FreshPC, EncapPC, UndoPC, JobStep, SetupLoad, SetupAttachDecap, SetupLoadEncap,
   SetupPinEncap,
       RemoveEntry, RemoveDetach, RemoveVeth, RemoveWait, RemoveSweep, RemoveNetns,
       TeardownList, TeardownNext, TeardownDetachDecap, TeardownUnpin, At

\* The fields of p's job that AddOK reads, but for the pc, are as before.
SameJob(p, pc) ==
    /\ job'[p].pc = pc /\ job'[p].vpce = job[p].vpce /\ job'[p].idx = job[p].idx
    /\ job'[p].inserted = job[p].inserted /\ job'[p].createdNetns = job[p].createdNetns
    /\ job'[p].getFailed = job[p].getFailed

\* Goto leaves them.
LEMMA GotoSame ==
    ASSUME TypeOK, NEW p \in Proc, NEW pc, Goto(p, pc)
    PROVE  SameJob(p, pc)
BY DEF TypeOK, JobType, Goto, SameJob

\* Making the endpoint.
LEMMA AddMakes ==
    ASSUME IInv, NEW p \in Proc, AddOK(p), job[p].cmd = "add", ~job[p].faulty, UNCHANGED cmdVars,
           \/ AddCheck(p) \/ AddNetns(p) \/ AddVeth(p) \/ AddConfigure(p) \/ AddInsert(p)
           \/ AddClearPin(p) \/ AddAttach(p)
    PROVE  AddOK(p)'
<1>0. /\ TypeOK /\ job[p] \in JobType /\ JobOK(p) /\ UNCHANGED found
      /\ AddKnows(p) /\ NetnsChanged(p) /\ VethChanged(p) /\ EntryChanged(p) /\ AttachedChanged(p)
  BY DEF IInv, TypeOK, JobsOK, AddOK, cmdVars
<1> DEFINE OK == /\ AddKnows(p)' /\ NetnsChanged(p)' /\ VethChanged(p)'
                 /\ EntryChanged(p)' /\ AttachedChanged(p)'
<1>00. OK => AddOK(p)'
  BY DEF AddOK
<1>1. ASSUME NEW pc, SameJob(p, pc),
             \/ job[p].pc = "check" /\ pc \in {"netns", "failed"}
             \/ job[p].pc = "netns" /\ pc \in {"veth", "undo_entry"}
             \/ job[p].pc = "veth" /\ pc = "undo_entry"
             \/ job[p].pc = "configure" /\ pc \in {"insert", "undo_entry"}
             \/ job[p].pc = "insert" /\ pc = "undo_entry"
             \/ job[p].pc = "clear_pin" /\ pc \in {"attach", "undo_entry"}
             \/ job[p].pc = "attach" /\ pc = "undo_entry"
      PROVE  /\ AddKnows(p)'
             /\ UNCHANGED netns => NetnsChanged(p)'
             /\ UNCHANGED veth => VethChanged(p)'
             /\ UNCHANGED vpce_to_ifindex => EntryChanged(p)'
             /\ UNCHANGED attached => AttachedChanged(p)'
  <2>0. /\ job[p].pc \in {"check", "netns", "veth"} => job[p].idx = None
        /\ job[p].inserted => job[p].pc \in EncapPC
        /\ job[p].pc \in EncapPC => job[p].inserted
        /\ job[p].pc # "failed" /\ pc \in AddPC
        /\ job[p].pc = "check" => ~job[p].createdNetns
    BY <1>0, <1>1 DEF JobOK, InsertedPC, UndoPC, EncapPC, AddKnows, AddPC, FreshPC
  <2>1. AddKnows(p)'
    BY <1>0, <1>1, <2>0 DEF AddKnows, SameJob
  <2>2. UNCHANGED netns => NetnsChanged(p)'
    BY <1>0, <1>1, <2>0 DEF NetnsChanged, SameJob
  <2>3. UNCHANGED veth => VethChanged(p)'
    BY <1>0, <1>1, <2>0 DEF VethChanged, SameJob, VethPC, EncapPC, UnwirePC
  <2>4. UNCHANGED vpce_to_ifindex => EntryChanged(p)'
    BY <1>0, <1>1, <2>0 DEF EntryChanged, SameJob, EncapPC
  <2>5. UNCHANGED attached => AttachedChanged(p)'
    BY <1>0, <1>1, <2>0 DEF AttachedChanged, SameJob
  <2> QED BY <2>1, <2>2, <2>3, <2>4, <2>5
<1>2. CASE AddCheck(p) \/ AddConfigure(p) \/ AddClearPin(p)
  BY <1>0, <1>00, <1>1, <1>2, GotoSame
     DEF AddCheck, AddConfigure, AddClearPin, At, devVars
<1>3. CASE AddNetns(p)
  <2>0. /\ job[p].pc = "netns" /\ job[p].idx = None /\ ~job[p].inserted /\ netns = found.netns
        /\ ~job[p].createdNetns /\ ~job[p].getFailed
        /\ UNCHANGED <<veth, attached, vpce_to_ifindex>>
    BY <1>0, <1>3 DEF AddNetns, At, JobOK, InsertedPC, UndoPC, EncapPC, AddKnows, NetnsChanged
  <2>1. CASE (Goto(p, "veth") \/ Goto(p, "undo_entry")) /\ UNCHANGED netns
    BY <1>0, <1>00, <1>1, <2>0, <2>1, GotoSame
  <2>2. ASSUME NEW pc \in {"veth", "undo_entry"}, NEW created \in BOOLEAN, NEW getFailed \in BOOLEAN,
               job'[p].pc = pc, job'[p].vpce = job[p].vpce, job'[p].idx = job[p].idx,
               job'[p].inserted = job[p].inserted, job'[p].createdNetns = created,
               job'[p].getFailed = getFailed,
               getFailed => pc = "undo_entry" /\ ~created,
               created => job[p].vpce \notin netns,
               netns' = IF getFailed THEN netns \ {job[p].vpce}
                        ELSE IF created THEN netns \cup {job[p].vpce} ELSE netns
        PROVE  OK
    <3>1. AddKnows(p)'
      BY <1>0, <2>0, <2>2 DEF AddKnows, AddPC, FreshPC
    <3>2. NetnsChanged(p)'
      BY <1>0, <2>0, <2>2 DEF NetnsChanged
    <3>3. VethChanged(p)' /\ EntryChanged(p)'
      BY <1>0, <2>0, <2>2 DEF VethChanged, EntryChanged
    <3>4. AttachedChanged(p)'
      BY <1>0, <2>0, <2>2 DEF AttachedChanged
    <3> QED BY <3>1, <3>2, <3>3, <3>4
  <2>3. CASE /\ job[p].vpce \notin netns /\ netns' = netns \cup {job[p].vpce}
             /\ job' = [job EXCEPT ![p].pc = "veth", ![p].createdNetns = TRUE]
    <3>1. /\ job'[p].pc = "veth" /\ job'[p].vpce = job[p].vpce /\ job'[p].idx = job[p].idx
          /\ job'[p].inserted = job[p].inserted /\ job'[p].createdNetns = TRUE
          /\ job'[p].getFailed = FALSE
      BY <1>0, <2>0, <2>3 DEF TypeOK, JobType
    <3> QED BY <1>00, <2>2, <2>3, <3>1
  <2>4. CASE /\ netns' = netns \ {job[p].vpce}
             /\ job' = [job EXCEPT ![p].pc = "undo_entry", ![p].getFailed = TRUE]
    <3>1. /\ job'[p].pc = "undo_entry" /\ job'[p].vpce = job[p].vpce /\ job'[p].idx = job[p].idx
          /\ job'[p].inserted = job[p].inserted /\ job'[p].createdNetns = FALSE
          /\ job'[p].getFailed = TRUE
      BY <1>0, <2>0, <2>4 DEF TypeOK, JobType
    <3> QED BY <1>00, <2>2, <2>4, <3>1
  <2>5. CASE Faulted(p, "undo_entry")
    BY <1>0, <2>5 DEF TypeOK, JobType, Faulted, AddOK
  <2> QED BY <1>3, <2>1, <2>3, <2>4, <2>5 DEF AddNetns
<1>4. CASE AddVeth(p)
  <2>0. /\ job[p].pc = "veth" /\ job[p].idx = None /\ ~job[p].inserted /\ ~job[p].getFailed
        /\ job[p].vpce \in Vpce /\ veth = found.veth /\ attached = found.attached
        /\ vpce_to_ifindex = found.endpoints
        /\ UNCHANGED <<netns, attached, vpce_to_ifindex>>
    <3>1. /\ job[p].pc = "veth" /\ job[p].idx = None /\ ~job[p].inserted /\ ~job[p].getFailed
          /\ job[p].vpce \in Vpce
      BY <1>0, <1>4 DEF AddVeth, At, JobOK, JobType, VpcePC, FreshPC, InsertedPC, UndoPC, EncapPC,
         AddKnows
    <3> QED BY <1>0, <1>4, <3>1 DEF AddVeth, VethChanged, EntryChanged, AttachedChanged
  <2>1. CASE Goto(p, "undo_entry") /\ UNCHANGED veth
    BY <1>0, <1>00, <1>1, <1>4, <2>0, <2>1, GotoSame
  <2>2. CASE Faulted(p, "undo_entry")
    BY <1>0, <2>2 DEF TypeOK, JobType, Faulted, AddOK
  <2>3. ASSUME NEW i \in Ifindex, veth[i] = None, veth' = [veth EXCEPT ![i] = job[p].vpce],
               job' = [job EXCEPT ![p].pc = "configure", ![p].idx = i]
        PROVE  AddOK(p)'
    <3>1. i \notin attached /\ i # None
      BY <2>3, NoneAssumption DEF IInv, DevicesOK
    <3>2. /\ job'[p].pc = "configure" /\ job'[p].idx = i /\ job'[p].vpce = job[p].vpce
          /\ job'[p].inserted = job[p].inserted /\ job'[p].createdNetns = job[p].createdNetns
          /\ job'[p].getFailed = job[p].getFailed
      BY <1>0, <2>3 DEF TypeOK, JobType
    <3>3. AddKnows(p)'
      BY <1>0, <2>0, <2>3, <3>1, <3>2 DEF AddKnows, AddPC, FreshPC
    <3>4. NetnsChanged(p)'
      BY <1>0, <2>0, <3>2 DEF NetnsChanged
    <3>5. VethChanged(p)'
      BY <1>0, <2>0, <2>3, <3>1, <3>2 DEF VethChanged, VethPC
    <3>6. EntryChanged(p)' /\ AttachedChanged(p)'
      BY <1>0, <2>0, <3>2 DEF EntryChanged, AttachedChanged
    <3> QED BY <1>00, <3>3, <3>4, <3>5, <3>6
  <2> QED BY <1>4, <2>1, <2>2, <2>3 DEF AddVeth
<1>5. CASE AddInsert(p)
  <2>0. /\ job[p].pc = "insert" /\ job[p].idx \in Ifindex /\ job[p].idx # None /\ job[p].vpce \in Vpce
        /\ ~job[p].inserted /\ ~job[p].getFailed /\ vpce_to_ifindex = found.endpoints
        /\ UNCHANGED <<veth, netns, attached>>
    <3>1. /\ job[p].pc = "insert" /\ job[p].idx \in Ifindex /\ job[p].vpce \in Vpce
          /\ ~job[p].inserted /\ ~job[p].getFailed /\ UNCHANGED <<veth, netns, attached>>
      BY <1>0, <1>5
         DEF AddInsert, At, JobOK, JobType, VpcePC, FreshPC, IdxPC, VethPC, InsertedPC, UndoPC, EncapPC,
             AddKnows, devVars
    <3> QED BY <1>0, <3>1, NoneAssumption DEF EntryChanged
  <2>1. CASE Goto(p, "undo_entry") /\ UNCHANGED vpce_to_ifindex
    BY <1>0, <1>00, <1>1, <2>0, <2>1, GotoSame
  <2>2. CASE /\ vpce_to_ifindex[job[p].vpce] = None
             /\ vpce_to_ifindex' = [vpce_to_ifindex EXCEPT ![job[p].vpce] = job[p].idx]
             /\ job' = [job EXCEPT ![p].pc = "clear_pin", ![p].inserted = TRUE]
    <3>1. /\ job'[p].pc = "clear_pin" /\ job'[p].idx = job[p].idx /\ job'[p].vpce = job[p].vpce
          /\ job'[p].inserted = TRUE /\ job'[p].createdNetns = job[p].createdNetns
          /\ job'[p].getFailed = job[p].getFailed
      BY <1>0, <2>2 DEF TypeOK, JobType
    <3>2. AddKnows(p)'
      BY <1>0, <2>0, <2>2, <3>1 DEF AddKnows, AddPC, EncapPC
    <3>3. NetnsChanged(p)' /\ AttachedChanged(p)'
      BY <1>0, <2>0, <3>1 DEF NetnsChanged, AttachedChanged
    <3>4. VethChanged(p)'
      BY <1>0, <2>0, <3>1 DEF VethChanged, VethPC, EncapPC
    <3>5. EntryChanged(p)'
      BY <1>0, <2>0, <2>2, <3>1 DEF EntryChanged, EncapPC
    <3> QED BY <1>00, <3>2, <3>3, <3>4, <3>5
  <2> QED BY <1>5, <2>1, <2>2 DEF AddInsert
<1>6. CASE AddAttach(p)
  <2>0. /\ job[p].pc = "attach" /\ job[p].idx # None /\ job[p].inserted /\ ~job[p].getFailed
        /\ attached = found.attached /\ UNCHANGED <<veth, netns, vpce_to_ifindex>>
    <3>1. /\ job[p].pc = "attach" /\ job[p].idx # None /\ job[p].inserted /\ ~job[p].getFailed
          /\ UNCHANGED <<veth, netns, vpce_to_ifindex>>
      BY <1>0, <1>6 DEF AddAttach, At, JobOK, EncapPC, AddKnows
    <3> QED BY <1>0, <3>1 DEF AttachedChanged
  <2>1. CASE Goto(p, "undo_entry") /\ UNCHANGED attached
    BY <1>0, <1>00, <1>1, <2>0, <2>1, GotoSame
  <2>2. ASSUME NEW pc \in {"done", "undo_entry"}, Goto(p, pc),
               attached' = attached \cup {job[p].idx}
        PROVE  AddOK(p)'
    <3>1. SameJob(p, pc)
      BY <1>0, <2>2, GotoSame
    <3>2. AddKnows(p)'
      BY <1>0, <2>0, <2>2, <3>1 DEF AddKnows, AddPC, SameJob
    <3>3. NetnsChanged(p)'
      BY <1>0, <2>0, <2>2, <3>1 DEF NetnsChanged, SameJob
    <3>4. VethChanged(p)'
      BY <1>0, <2>0, <2>2, <3>1 DEF VethChanged, VethPC, EncapPC, SameJob
    <3>5. EntryChanged(p)'
      BY <1>0, <2>0, <2>2, <3>1 DEF EntryChanged, EncapPC, SameJob
    <3>6. AttachedChanged(p)'
      BY <1>0, <2>0, <2>2, <3>1 DEF AttachedChanged, SameJob
    <3> QED BY <1>00, <3>2, <3>3, <3>4, <3>5, <3>6
  <2> QED BY <1>6, <2>1, <2>2 DEF AddAttach
<1> QED BY <1>2, <1>3, <1>4, <1>5, <1>6

\* Rolling it back.
LEMMA AddUndoes ==
    ASSUME IInv, NEW p \in Proc, AddOK(p), job[p].cmd = "add", ~job[p].faulty, UNCHANGED cmdVars,
           \/ UndoEntry(p) \/ UndoVeth(p) \/ UndoWait(p) \/ UndoSweep(p) \/ UndoNetns(p)
    PROVE  AddOK(p)'
<1>0. /\ TypeOK /\ job[p] \in JobType /\ JobOK(p) /\ UNCHANGED found
      /\ AddKnows(p) /\ NetnsChanged(p) /\ VethChanged(p) /\ EntryChanged(p) /\ AttachedChanged(p)
  BY DEF IInv, TypeOK, JobsOK, AddOK, cmdVars
<1>00. /\ AddKnows(p)' /\ NetnsChanged(p)' /\ VethChanged(p)' /\ EntryChanged(p)'
       /\ AttachedChanged(p)'
       => AddOK(p)'
  BY DEF AddOK
<1>000. job'[p].faulty => AddOK(p)'
  BY DEF AddOK
<1>1. CASE UndoEntry(p)
  <2>0. job[p].pc = "undo_entry" /\ job[p].vpce \in Vpce /\ UNCHANGED <<veth, netns, attached>>
    BY <1>0, <1>1 DEF UndoEntry, At, JobOK, JobType, VpcePC, devVars
  <2>1. vpce_to_ifindex' = found.endpoints
    <3>1. CASE job[p].inserted
      <4>1. /\ vpce_to_ifindex = [found.endpoints EXCEPT ![job[p].vpce] = job[p].idx]
            /\ found.endpoints[job[p].vpce] = None
            /\ found.endpoints \in [Vpce -> Ifindex \cup {None}]
        BY <1>0, <2>0, <3>1 DEF EntryChanged, AddKnows
      <4>2. vpce_to_ifindex' = [vpce_to_ifindex EXCEPT ![job[p].vpce] = None]
        BY <1>1, <3>1 DEF UndoEntry, EntryDeleted
      <4> QED BY <2>0, <4>1, <4>2
    <3>2. CASE ~job[p].inserted
      BY <1>0, <1>1, <3>2 DEF UndoEntry, EntryChanged
    <3> QED BY <3>1, <3>2
  <2>2. PICK pc \in {"undo_veth", "undo_netns"} :
          SameJob(p, pc) /\ (job[p].idx # None <=> pc = "undo_veth")
    BY <1>0, <1>1, GotoSame DEF UndoEntry
  <2>3. AddKnows(p)'
    BY <1>0, <2>0, <2>2 DEF AddKnows, AddPC, UndoPC, SameJob
  <2>4. NetnsChanged(p)'
    BY <1>0, <2>0, <2>2 DEF NetnsChanged, SameJob
  <2>5. VethChanged(p)'
    BY <1>0, <2>0, <2>2 DEF VethChanged, VethPC, EncapPC, UnwirePC, SameJob
  <2>6. EntryChanged(p)'
    BY <1>0, <2>1, <2>2 DEF EntryChanged, EncapPC, SameJob
  <2>7. AttachedChanged(p)'
    BY <1>0, <2>0, <2>2 DEF AttachedChanged, SameJob
  <2> QED BY <1>00, <2>3, <2>4, <2>5, <2>6, <2>7
<1>2. CASE UndoVeth(p)
  <2>0. /\ job[p].pc = "undo_veth" /\ job[p].idx \in Ifindex /\ job[p].idx # None
        /\ ~job[p].getFailed /\ UNCHANGED <<netns, vpce_to_ifindex>>
    BY <1>0, <1>2, NoneAssumption DEF UndoVeth, At, JobOK, JobType, IdxPC, VethPC, AddKnows
  <2>1. CASE LinkDel(job[p].idx) /\ Goto(p, "undo_wait")
    <3>1. SameJob(p, "undo_wait")
      BY <1>0, <2>1, GotoSame
    <3>2. veth' = found.veth
      <4>1. veth = [found.veth EXCEPT ![job[p].idx] = job[p].vpce]
        BY <1>0, <2>0 DEF VethChanged, VethPC
      <4> QED BY <1>0, <2>0, <2>1, <4>1 DEF LinkDel, AddKnows
    <3>3. attached' = found.attached
      <4>1. attached' = attached \ {job[p].idx} /\ job[p].idx \notin found.attached
        BY <1>0, <2>0, <2>1 DEF LinkDel, AddKnows
      <4> QED BY <1>0, <2>0, <4>1 DEF AttachedChanged
    <3>4. AddKnows(p)'
      BY <1>0, <2>0, <3>1 DEF AddKnows, AddPC, UndoPC, SameJob
    <3>5. NetnsChanged(p)' /\ EntryChanged(p)'
      BY <1>0, <2>0, <3>1 DEF NetnsChanged, EntryChanged, EncapPC, SameJob
    <3>6. VethChanged(p)' /\ AttachedChanged(p)'
      BY <1>0, <3>1, <3>2, <3>3
         DEF VethChanged, AttachedChanged, VethPC, EncapPC, UnwirePC, SameJob
    <3> QED BY <1>00, <3>4, <3>5, <3>6
  <2>2. CASE Faulted(p, "undo_sweep")
    BY <1>0, <1>000, <2>2 DEF TypeOK, JobType, Faulted
  <2> QED BY <1>2, <2>1, <2>2 DEF UndoVeth
<1>3. ASSUME NEW pc \in {"undo_sweep", "undo_netns"}, SameJob(p, pc),
             job[p].pc \in {"undo_wait", "undo_sweep"}, UNCHANGED devVars, UNCHANGED vpce_to_ifindex
      PROVE  AddOK(p)'
  <2>1. AddKnows(p)'
    BY <1>0, <1>3 DEF AddKnows, AddPC, UndoPC, SameJob
  <2>2. NetnsChanged(p)' /\ EntryChanged(p)'
    BY <1>0, <1>3 DEF NetnsChanged, EntryChanged, EncapPC, SameJob, devVars
  <2>3. VethChanged(p)' /\ AttachedChanged(p)'
    BY <1>0, <1>3 DEF VethChanged, AttachedChanged, VethPC, EncapPC, UnwirePC, SameJob, devVars
  <2> QED BY <1>00, <2>1, <2>2, <2>3
<1>4. CASE UndoWait(p)
  BY <1>0, <1>3, <1>4, GotoSame DEF UndoWait, At
<1>5. CASE UndoSweep(p)
  <2>1. CASE Goto(p, "undo_netns")
    BY <1>0, <1>3, <1>5, <2>1, GotoSame DEF UndoSweep, At
  <2>2. ASSUME NEW failed, job' = [job EXCEPT ![p].pc = "undo_netns", ![p].faulty = @ \/ failed # {}]
        PROVE  SameJob(p, "undo_netns")
    BY <1>0, <2>2 DEF TypeOK, JobType, SameJob
  <2> QED BY <1>3, <1>5, <2>1, <2>2 DEF UndoSweep, At
<1>6. CASE UndoNetns(p)
  <2>1. CASE netns' = netns \ CreatedNetns(p) /\ Goto(p, "failed")
    <3>1. SameJob(p, "failed") /\ job[p].pc = "undo_netns" /\ UNCHANGED <<veth, attached, vpce_to_ifindex>>
      BY <1>0, <1>6, <2>1, GotoSame DEF UndoNetns, At
    <3>2. AddKnows(p)'
      BY <1>0, <3>1 DEF AddKnows, AddPC, SameJob
    <3>3. NetnsChanged(p)'
      BY <1>0, <2>1, <3>1 DEF NetnsChanged, AddKnows, CreatedNetns, SameJob
    <3>4. EntryChanged(p)'
      BY <1>0, <3>1 DEF EntryChanged, EncapPC, SameJob
    <3>5. VethChanged(p)' /\ AttachedChanged(p)'
      BY <1>0, <3>1 DEF VethChanged, AttachedChanged, VethPC, EncapPC, UnwirePC, SameJob
    <3> QED BY <1>00, <3>2, <3>3, <3>4, <3>5
  <2>2. CASE Faulted(p, "failed")
    BY <1>0, <1>000, <2>2 DEF TypeOK, JobType, Faulted
  <2> QED BY <1>6, <2>1, <2>2 DEF UndoNetns
<1> QED BY <1>1, <1>2, <1>4, <1>5, <1>6

\* An add, whatever it has got to, knows what it has changed.
LEMMA AddOKStep ==
    ASSUME IInv, [Next]_vars, NEW p \in Proc, AddOK(p)
    PROVE  AddOK(p)'
<1>0. TypeOK /\ job[p] \in JobType
  BY DEF IInv, TypeOK
<1>1. ASSUME NEW cmd \in Command, NEW v \in Vpce, NEW isolated \in BOOLEAN, Start(p, cmd, v, isolated)
      PROVE  AddOK(p)'
  <2>1. /\ job'[p].cmd = cmd /\ (cmd = "add" => job'[p].pc = "check")
        /\ job'[p].idx = None /\ ~job'[p].inserted /\ ~job'[p].createdNetns /\ ~job'[p].getFailed
    BY <1>0, <1>1 DEF Start, TypeOK, Idle, Command
  <2>2. ASSUME cmd = "add" PROVE AddKnows(p)'
    BY <1>0, <1>1, <2>1, <2>2 DEF AddKnows, AddPC, Start, TypeOK
  <2>3. ASSUME cmd = "add" PROVE NetnsChanged(p)'
    BY <1>1, <2>1, <2>3 DEF NetnsChanged, Start, devVars
  <2>4. ASSUME cmd = "add" PROVE VethChanged(p)' /\ EntryChanged(p)' /\ AttachedChanged(p)'
    BY <1>1, <2>1, <2>4 DEF VethChanged, EntryChanged, AttachedChanged, Start, devVars
  <2> QED BY <2>1, <2>2, <2>3, <2>4 DEF AddOK
<1>2. CASE job'[p] = Idle
  BY <1>2 DEF Idle, AddOK
<1>3. CASE xdpUnchanged
  BY <1>3
     DEF xdpUnchanged, cmdVars, pinVars, AddOK, AddKnows, NetnsChanged, VethChanged, EntryChanged,
         AttachedChanged
<1>4. CASE JobStep(p) /\ ~Unlock(p) /\ UNCHANGED cmdVars
  <2>1. CASE job[p].cmd = "add" /\ ~job[p].faulty
    <3>1. job[p].pc \in AddPC
      BY <2>1 DEF AddOK, AddKnows
    <3> QED BY <1>4, <2>1, <3>1, AddSteps, AddMakes, AddUndoes
  <2> QED BY <1>0, <1>4, <2>1, SameCommand DEF AddOK, JobType
<1> QED BY <1>1, <1>2, <1>3, <1>4, ByInvocation

-----------------------------------------------------------------------------
(* remove.                                                                 *)

\* The steps of a remove.
LEMMA RemoveSteps ==
    ASSUME NEW p \in Proc, JobStep(p), ~Unlock(p), job[p].pc \in RemovePC
    PROVE  \/ RemoveEntry(p) \/ RemoveDetach(p) \/ RemoveVeth(p) \/ RemoveWait(p) \/ RemoveSweep(p)
           \/ RemoveNetns(p)
BY DEF RemovePC, JobStep, SetupLoad, SetupAttachDecap, SetupLoadEncap, SetupPinEncap, AddCheck,
   AddNetns,
       AddVeth, AddConfigure, AddInsert, AddClearPin, AddAttach, UndoEntry, UndoVeth, UndoWait, UndoSweep, UndoNetns,
       TeardownList, TeardownNext, TeardownDetachDecap, TeardownUnpin, At

\* The ifindex that remove works on is that of the endpoint's one veth, if it has one.
LEMMA RemovesTheVeth ==
    ASSUME IInv, VethUnique, NEW v \in Vpce
    PROVE  /\ RemovedIfindex(v) \in Ifindex \cup {None}
           /\ \A i \in Ifindex : veth[i] = v => i = RemovedIfindex(v)
<1>0. v # None /\ TypeOK
  BY NoneAssumption DEF IInv
<1>1. CASE vpce_to_ifindex[v] # None
  BY <1>0, <1>1 DEF RemovedIfindex, VethUnique, IInv, DevicesOK, TypeOK
<1>2. CASE vpce_to_ifindex[v] = None
  BY <1>0, <1>2 DEF RemovedIfindex, LinkByName, VethUnique
<1> QED BY <1>1, <1>2

\* What a remove knows, from its first step to its last (RunRemove).
LEMMA RemoveTakes ==
    ASSUME IInv, VethUnique, NEW p \in Proc, RemoveOK(p), job[p].cmd = "remove", ~job[p].faulty,
           UNCHANGED cmdVars,
           \/ RemoveEntry(p) \/ RemoveDetach(p) \/ RemoveVeth(p) \/ RemoveWait(p) \/ RemoveSweep(p)
           \/ RemoveNetns(p)
    PROVE  RemoveOK(p)'
<1>0. TypeOK /\ job[p] \in JobType /\ JobOK(p)
  BY DEF IInv, TypeOK, JobsOK
<1> USE DEF RemoveOK, RemovePC, At, Goto, Faulted, devVars, pinVars, TypeOK, JobType, JobOK
<1>1. CASE RemoveEntry(p)
  <2>1. job[p].vpce \in Vpce
    BY <1>0, <1>1 DEF RemoveEntry, VpcePC
  <2> DEFINE i == RemovedIfindex(job[p].vpce)
  <2>2. /\ job'[p].vpce = job[p].vpce /\ job'[p].idx = i
        /\ job'[p].pc = IF i # None THEN "detach" ELSE "del_netns"
    BY <1>0, <1>1 DEF RemoveEntry
  <2>3. vpce_to_ifindex'[job[p].vpce] = None /\ UNCHANGED veth
    BY <1>0, <1>1, <2>1 DEF RemoveEntry, EntryDeleted
  <2> QED BY <1>0, <2>1, <2>2, <2>3, RemovesTheVeth
<1>2. CASE RemoveDetach(p)
  BY <1>0, <1>2 DEF RemoveDetach
<1>3. CASE RemoveVeth(p)
  BY <1>0, <1>3 DEF RemoveVeth, LinkDel
<1>4. CASE RemoveWait(p)
  BY <1>0, <1>4 DEF RemoveWait
<1>5. CASE RemoveSweep(p)
  <2>1. job[p].pc = "sweep" /\ job[p].idx \in Ifindex /\ veth[job[p].idx] = None
    BY <1>0, <1>5 DEF RemoveSweep, IdxPC
  <2>2. PICK failed \in Failures : /\ Sweep(job[p].idx, failed)
                                   /\ job' = [job EXCEPT ![p].pc = "del_netns",
                                                         ![p].faulty = @ \/ failed # {}]
    BY <1>5 DEF RemoveSweep
  <2>3. /\ job'[p].pc = "del_netns" /\ job'[p].vpce = job[p].vpce /\ job'[p].idx = job[p].idx
        /\ job'[p].faulty <=> failed # {}
    BY <1>0, <2>2
  <2>4. failed = {} => job[p].idx \notin dirty'
    BY <2>1, <2>2 DEF Sweep
  <2> QED BY <1>0, <1>5, <2>1, <2>3, <2>4 DEF RemoveSweep
<1>6. CASE RemoveNetns(p)
  BY <1>0, <1>6 DEF RemoveNetns
<1> QED BY <1>1, <1>2, <1>3, <1>4, <1>5, <1>6

\* And across every step of anyone.
LEMMA RemoveOKStep ==
    ASSUME IInv, VethUnique, [Next]_vars, NEW p \in Proc, RemoveOK(p)
    PROVE  RemoveOK(p)'
<1>0. TypeOK /\ job[p] \in JobType
  BY DEF IInv, TypeOK
<1>1. ASSUME NEW cmd \in Command, NEW v \in Vpce, NEW isolated \in BOOLEAN, Start(p, cmd, v, isolated)
      PROVE  RemoveOK(p)'
  <2>1. /\ job'[p].cmd = cmd /\ job'[p].idx = None
        /\ cmd = "remove" => job'[p].pc = "remove_entry" /\ job'[p].vpce = v
    BY <1>0, <1>1 DEF Start, TypeOK, Idle, Command
  <2> QED BY <2>1, NoneAssumption DEF RemoveOK, RemovePC
<1>2. CASE job'[p] = Idle
  BY <1>2 DEF Idle, RemoveOK
<1>3. CASE xdpUnchanged
  BY <1>3 DEF xdpUnchanged, cmdVars, pinVars, RemoveOK
<1>4. CASE JobStep(p) /\ ~Unlock(p) /\ UNCHANGED cmdVars
  <2>1. CASE job[p].cmd = "remove" /\ ~job[p].faulty
    <3>1. job[p].pc \in RemovePC
      BY <2>1 DEF RemoveOK
    <3> QED BY <1>4, <2>1, <3>1, RemoveSteps, RemoveTakes
  <2> QED BY <1>0, <1>4, <2>1, SameCommand DEF RemoveOK, JobType
<1> QED BY <1>1, <1>2, <1>3, <1>4, ByInvocation

-----------------------------------------------------------------------------
(* What they promise.                                                      *)

LEMMA InitPromises == Init => PromisesOK
BY DEF Init, PromisesOK, VethUnique, SetupOK, AddOK, RemoveOK, Idle

\* Every step keeps what the commands have made sure of so far.
LEMMA NextPromises == IInv /\ PromisesOK /\ [Next]_vars => PromisesOK'
BY UniqueStep, SetupOKStep, AddOKStep, RemoveOKStep DEF PromisesOK

\* What a setup of a host that is set up, an add and a remove have changed so far, and
\* have not, at every step; a step of cleaning up that fails is the only exception.
THEOREM Promises == Spec => []PromisesOK
BY Invariance, InitPromises, NextPromises, PTL DEF Spec

\* A setup of a host that is set up fails and spares it (RunSetup).
THEOREM SetupSpares == Spec => []FailedSetupSparesHost
<1>1. PromisesOK => FailedSetupSparesHost
  BY DEF PromisesOK, SetupOK, AsFound, FailedSetupSparesHost
<1> QED BY Promises, <1>1, PTL

\* An add that fails, and none of whose cleanup steps does, leaves the host as it found
\* it (RunAdd's deferred rollback), but for a netns by the endpoint's name when netns.Get
\* failed in it (utils.go CreateNamedNetns).
THEOREM AddRestores == Spec => []FailedAddRestores
<1>1. PromisesOK => FailedAddRestores
  BY DEF PromisesOK, AddOK, AddKnows, NetnsChanged, VethChanged, EntryChanged, AttachedChanged,
         FailedAddRestores, VethPC, UnwirePC, EncapPC
<1> QED BY Promises, <1>1, PTL

\* A remove without a fault leaves nothing of its endpoint, though runs that found it
\* before are in flight to the end (RunRemove).
THEOREM RemoveLeavesNothing == Spec => []RemoveCompletes
<1>1. IInv /\ PromisesOK => RemoveCompletes
  <2> SUFFICES ASSUME IInv, PromisesOK, NEW p \in Proc,
                      job[p].cmd = "remove", job[p].pc = "done", ~job[p].faulty
               PROVE  /\ vpce_to_ifindex[job[p].vpce] = None
                      /\ job[p].vpce \notin netns
                      /\ \A i \in Ifindex : veth[i] # job[p].vpce
                      /\ job[p].idx # None => Unused(job[p].idx) /\ job[p].idx \notin encap_pin
    BY DEF RemoveCompletes
  <2>1. RemoveOK(p) /\ job[p].idx \in Ifindex \cup {None}
    BY DEF PromisesOK, IInv, TypeOK, JobType
  <2>2. job[p].idx # None => Unused(job[p].idx)
    BY <2>1 DEF RemoveOK, IInv, EntriesOK
  <2>3. \A i \in Ifindex : veth[i] # job[p].vpce
    <3>1. \A i \in Ifindex : veth[i] = job[p].vpce => i = job[p].idx
      BY <2>1 DEF RemoveOK
    <3>2. job[p].idx # None => veth[job[p].idx] = None
      BY <2>1 DEF RemoveOK
    <3>3. job[p].vpce # None
      BY <2>1 DEF RemoveOK
    <3> QED BY <3>1, <3>2, <3>3, NoneAssumption
  <2> QED BY <2>1, <2>2, <2>3 DEF RemoveOK
<1> QED BY Invariance, Promises, <1>1, PTL

-----------------------------------------------------------------------------
(* Without faults: the invariant.                                          *)

\* What is going on: the command that holds the lock.
Doing == IF lock = None THEN Idle ELSE job[lock]

\* Without faults, an ifindex awaits its sweep only while the command that will sweep
\* it runs.
Swept ==
    \A i \in dirty : /\ veth[i] = None /\ Doing.idx = i
                     /\ \/ Doing.pc \in {"wait", "sweep"}
                        \/ Doing.pc \in {"undo_wait", "undo_sweep"} /\ Doing.inserted

\* Without faults, an endpoint in the map is wired but for the one being added.
Wired ==
    \A v \in Provisioned : \/ vpce_to_ifindex[v] \in attached \cap encap_pin
                           \/ Doing.vpce = v /\ Doing.pc \in EncapPC \cup {"undo_entry"}

\* Without faults, a veth is in the map but for the one being made or deleted.
Listed ==
    \A i \in Ifindex : veth[i] # None =>
        \/ vpce_to_ifindex[veth[i]] = i
        \/ /\ Doing.idx = i
           /\ Doing.pc \in {"configure", "insert", "undo_entry", "undo_veth", "detach", "del_veth"}

\* Without faults, teardown, or setup's rollback, misses none of what is listed.
TornDown ==
    /\ Doing.cmd = "teardown" => Doing.pc \in {"list", "next", "detach_decap", "unpin"} \cup RemovePC
    /\ Doing.pc = "next" => Provisioned \subseteq Doing.todo
    /\ Doing.cmd # "remove" /\ Doing.pc \in RemovePC \ {"remove_entry", "done"} =>
        Provisioned \subseteq Doing.todo
    /\ Doing.cmd # "remove" /\ Doing.pc = "remove_entry" =>
        Provisioned \subseteq Doing.todo \cup {Doing.vpce}
    /\ Doing.pc \in {"detach_decap", "unpin"} => Provisioned = {}
    /\ Doing.cmd = "teardown" /\ Doing.pc = "done" =>
        Provisioned = {} /\ pinned = {} /\ encap_pin = {}

NoFaultsOK == Swept /\ Wired /\ Listed /\ TornDown

-----------------------------------------------------------------------------
(* Without faults: the steps.                                              *)

\* Nothing fails to clean up.
LEMMA NothingFaults ==
    ASSUME MaxFaults = 0, TypeOK
    PROVE  ~MayFault /\ Failures = {{}}
BY DEF MayFault, Failures, TypeOK

\* What the invariant reads, but for what is going on.
hostVars == <<dirty, veth, attached, encap_pin, pinned, vpce_to_ifindex>>

\* Between two steps of a command others do nothing; a command begins, and ends, with
\* no effect on the host.
LEMMA DoingStep ==
    ASSUME IInv, MaxFaults = 0, [Next]_vars
    PROVE  \/ UNCHANGED hostVars /\ Doing' = Doing
           \/ /\ UNCHANGED hostVars
              /\ Doing.pc \in {"idle", "done", "failed"}
              /\ \/ Doing' = Idle
                 \/ Doing'.pc \in {"load", "check", "list"}
                    /\ (Doing'.pc = "list" <=> Doing'.cmd = "teardown")
                 \/ Doing'.pc = "remove_entry" /\ Doing'.cmd = "remove"
           \/ \E p \in Proc : /\ JobStep(p) /\ ~Unlock(p) /\ UNCHANGED cmdVars
                               /\ Doing = job[p] /\ Doing' = job'[p]
<1>0. TypeOK /\ IInv' /\ TypeOK' /\ ~MayFault
  BY NextIInv, NothingFaults DEF IInv
<1>1. ASSUME NEW p \in Proc, Begin(p)
      PROVE  /\ UNCHANGED hostVars /\ Doing.pc = "idle"
             /\ \/ Doing'.pc \in {"load", "check", "list"}
                   /\ (Doing'.pc = "list" <=> Doing'.cmd = "teardown")
                \/ Doing'.pc = "remove_entry" /\ Doing'.cmd = "remove"
  <2>1. PICK cmd \in Command, v \in Vpce, isolated \in BOOLEAN : Start(p, cmd, v, isolated)
    BY <1>1 DEF Begin
  <2>2. UNCHANGED hostVars /\ Doing = Idle /\ Doing' = job'[p]
    BY <2>1, NoneAssumption DEF Start, LockFree, Doing, hostVars, devVars, pinVars
  <2>3. /\ job'[p].cmd = cmd
        /\ cmd = "setup" => job'[p].pc = "load"
        /\ cmd = "add" => job'[p].pc = "check"
        /\ cmd = "remove" => job'[p].pc = "remove_entry"
        /\ cmd = "teardown" => job'[p].pc = "list"
    BY <1>0, <2>1 DEF Start, TypeOK, Idle, Command
  <2> QED BY <2>2, <2>3 DEF Idle, Command
<1>2. ASSUME NEW p \in Proc, Unlock(p)
      PROVE  UNCHANGED hostVars /\ Doing.pc \in {"done", "failed"} /\ Doing' = Idle
  <2>1. lock = p
    BY <1>0, <1>2, HoldsLock DEF Unlock
  <2> QED BY <1>2, <2>1, NoneAssumption DEF Unlock, Release, Doing, hostVars, devVars, pinVars
<1>3. ASSUME NEW p \in Proc, JobStep(p), ~Unlock(p)
      PROVE  UNCHANGED cmdVars /\ Doing = job[p] /\ Doing' = job'[p]
  BY <1>0, <1>3, StepKeepsLock, NoneAssumption DEF Doing, cmdVars
<1>4. CASE xdpUnchanged
  BY <1>4 DEF xdpUnchanged, Doing, hostVars, cmdVars, pinVars
<1>5. CASE UNCHANGED vars
  BY <1>5 DEF vars, Doing, hostVars
<1>6. ASSUME NEW p \in Proc PROVE ~Crash(p)
  BY <1>0 DEF Crash
<1> QED BY <1>1, <1>2, <1>3, <1>4, <1>5, <1>6, RunKeepsHost DEF Next

\* The actions that delete a veth, wait for its runs, and sweep.
Unmakes(p) == UndoVeth(p) \/ UndoWait(p) \/ UndoSweep(p) \/ RemoveVeth(p) \/ RemoveWait(p) \/ RemoveSweep(p)

\* No other step makes an ifindex dirty, or begins at one that is.
LEMMA SweptStep ==
    ASSUME IInv, MaxFaults = 0, Swept, NEW p \in Proc, JobStep(p), ~Unlock(p), UNCHANGED cmdVars,
           Doing = job[p], Doing' = job'[p]
    PROVE  Swept'
<1>0. /\ TypeOK /\ ~MayFault /\ Failures = {{}} /\ job[p] \in JobType /\ JobOK(p)
      /\ job \in [Proc -> JobType]
  BY NothingFaults DEF IInv, TypeOK, JobsOK
<1> USE DEF Swept, At, Goto, Faulted, JobType
<1>1. CASE UndoVeth(p) \/ RemoveVeth(p)
  <2>1. /\ job[p].pc \in {"undo_veth", "del_veth"} /\ dirty = {} /\ job[p].idx \in Ifindex
        /\ veth \in [Ifindex -> Vpce \cup {None}] /\ veth[job[p].idx] # None
    BY <1>0, <1>1 DEF UndoVeth, RemoveVeth, JobOK, IdxPC, VethPC, UnwirePC, VpcePC, UndoPC, TypeOK
  <2>2. veth' = [veth EXCEPT ![job[p].idx] = None]
    BY <1>0, <1>1, <2>1 DEF UndoVeth, RemoveVeth, LinkDel
  <2>3. CASE UndoVeth(p)
    <3>1. /\ job' = [job EXCEPT ![p].pc = "undo_wait"]
          /\ dirty' = IF job[p].inserted THEN {job[p].idx} ELSE {}
      BY <1>0, <2>1, <2>3 DEF UndoVeth
    <3> QED BY <1>0, <2>1, <2>2, <3>1
  <2>4. CASE RemoveVeth(p)
    <3>1. job' = [job EXCEPT ![p].pc = "wait"] /\ dirty' = {job[p].idx}
      BY <1>0, <2>1, <2>4 DEF RemoveVeth
    <3> QED BY <1>0, <2>1, <2>2, <3>1
  <2> QED BY <1>1, <2>3, <2>4
<1>2. CASE UndoWait(p) \/ RemoveWait(p)
  BY <1>0, <1>2 DEF UndoWait, RemoveWait, devVars
<1>3. CASE UndoSweep(p) \/ RemoveSweep(p)
  <2>1. job[p].pc \in {"undo_sweep", "sweep"} /\ UNCHANGED veth
    BY <1>3 DEF UndoSweep, RemoveSweep, devVars
  <2>2. CASE Sweep(job[p].idx, {})
    BY <2>1, <2>2 DEF Sweep
  <2>3. CASE UNCHANGED dirty /\ ~job[p].inserted /\ job[p].pc = "undo_sweep"
    BY <2>3
  <2> QED BY <1>0, <1>3, <2>2, <2>3 DEF UndoSweep, RemoveSweep, SweepsToo
<1>4. CASE ~Unmakes(p)
  <2>1. dirty' \subseteq dirty /\ job[p].pc \notin {"undo_wait", "undo_sweep", "wait", "sweep"}
    BY <1>4
       DEF Unmakes, JobStep, SetupLoad, SetupAttachDecap, SetupLoadEncap, SetupPinEncap, AddCheck,
           AddNetns, AddVeth, AddConfigure, AddInsert, AddClearPin, AddAttach, UndoEntry, UndoNetns,
              RemoveEntry,
           RemoveDetach, RemoveNetns, TeardownList, TeardownNext, TeardownDetachDecap, TeardownUnpin
  <2> QED BY <2>1
<1> QED BY <1>1, <1>2, <1>3, <1>4 DEF Unmakes

\* Where an endpoint's entry points, if it has one, is where its veth is.
LEMMA EntryIsVeth ==
    ASSUME IInv, VethUnique, NEW v \in Vpce, NEW i \in Ifindex, veth[i] = v
    PROVE  /\ vpce_to_ifindex[v] \in {i, None}
           /\ \A w \in Vpce : vpce_to_ifindex[w] = i => w = v
BY NoneAssumption DEF IInv, TypeOK, DevicesOK, VethUnique

\* Wiring, and unwiring, an endpoint does not touch another's.
LEMMA WiredStep ==
    ASSUME IInv, VethUnique, MaxFaults = 0, Wired, NEW p \in Proc, JobStep(p), ~Unlock(p),
           UNCHANGED cmdVars, Doing = job[p], Doing' = job'[p]
    PROVE  Wired'
<1>0. /\ TypeOK /\ ~MayFault /\ job[p] \in JobType /\ JobOK(p) /\ job \in [Proc -> JobType]
      /\ vpce_to_ifindex \in [Vpce -> Ifindex \cup {None}]
  BY NothingFaults DEF IInv, TypeOK, JobsOK
<1> USE DEF Wired, At, Goto, Faulted, JobType, Provisioned
<1>1. CASE AddInsert(p)
  <2>1. job[p].pc = "insert" /\ job[p].vpce \in Vpce /\ UNCHANGED <<attached, encap_pin>>
    BY <1>0, <1>1 DEF AddInsert, JobOK, VpcePC, FreshPC, devVars, pinVars
  <2>2. job'[p].vpce = job[p].vpce /\ job'[p].pc \in EncapPC \cup {"undo_entry"}
    BY <1>0, <1>1 DEF AddInsert, EncapPC
  <2>3. \A v \in Vpce : v # job[p].vpce => vpce_to_ifindex'[v] = vpce_to_ifindex[v]
    BY <1>0, <1>1 DEF AddInsert
  <2> QED BY <2>1, <2>2, <2>3
<1>2. CASE AddClearPin(p) \/ AddAttach(p)
  <2>1. /\ job[p].pc \in EncapPC /\ job[p].vpce \in Vpce /\ job[p].idx \in Ifindex
        /\ veth[job[p].idx] = job[p].vpce /\ UNCHANGED vpce_to_ifindex
    BY <1>0, <1>2 DEF AddClearPin, AddAttach, JobOK, VpcePC, IdxPC, VethPC, EncapPC
  <2>2. \A v \in Provisioned : vpce_to_ifindex[v] = job[p].idx <=> v = job[p].vpce
    BY <2>1, EntryIsVeth
  <2>3. attached \subseteq attached' /\ encap_pin \ {job[p].idx} \subseteq encap_pin'
    BY <1>2 DEF AddClearPin, AddAttach, StalePinCleared, devVars
  <2>4. \/ job'[p].pc \in EncapPC \cup {"undo_entry"} /\ job'[p].vpce = job[p].vpce
        \/ job[p].idx \in attached' \cap encap_pin'
    BY <1>0, <1>2 DEF AddClearPin, AddAttach, EncapPC
  <2> QED BY <2>1, <2>2, <2>3, <2>4
<1>3. CASE UndoEntry(p) \/ RemoveEntry(p)
  <2>1. /\ job[p].pc \in {"undo_entry", "remove_entry"} /\ job[p].vpce \in Vpce
        /\ UNCHANGED <<attached, encap_pin>>
    BY <1>0, <1>3 DEF UndoEntry, RemoveEntry, JobOK, VpcePC, devVars, pinVars
  <2>2. vpce_to_ifindex' = [vpce_to_ifindex EXCEPT ![job[p].vpce] = None]
    <3>1. CASE UndoEntry(p) /\ ~job[p].inserted
      BY <1>0, <3>1 DEF UndoEntry, JobOK
    <3> QED BY <1>3, <3>1 DEF UndoEntry, RemoveEntry, EntryDeleted
  <2> QED BY <1>0, <2>1, <2>2
<1>4. CASE RemoveDetach(p) \/ UndoVeth(p) \/ RemoveVeth(p)
  <2>1. /\ job[p].pc \in {"detach", "undo_veth", "del_veth"} /\ job[p].vpce \in Vpce
        /\ job[p].idx \in Ifindex /\ veth[job[p].idx] = job[p].vpce
        /\ vpce_to_ifindex[job[p].vpce] = None /\ UNCHANGED vpce_to_ifindex
    BY <1>0, <1>4
       DEF RemoveDetach, UndoVeth, RemoveVeth, JobOK, VpcePC, IdxPC, VethPC, UnwirePC, UndoPC
  <2>2. attached \ {job[p].idx} \subseteq attached' /\ encap_pin \ {job[p].idx} \subseteq encap_pin'
    BY <1>4 DEF RemoveDetach, UndoVeth, RemoveVeth, LinkDel, pinVars
  <2>3. \A v \in Provisioned : vpce_to_ifindex[v] # job[p].idx
    BY <2>1, EntryIsVeth
  <2> QED BY <1>0, <2>1, <2>2, <2>3
<1>5. CASE TeardownUnpin(p)
  BY <1>0, <1>5 DEF TeardownUnpin, pinVars
<1>6. CASE ~(\/ AddInsert(p) \/ AddClearPin(p) \/ AddAttach(p) \/ UndoEntry(p) \/ RemoveEntry(p)
             \/ RemoveDetach(p) \/ UndoVeth(p) \/ RemoveVeth(p) \/ TeardownUnpin(p))
  <2>1. /\ UNCHANGED <<vpce_to_ifindex, attached, encap_pin>>
        /\ job[p].pc \notin EncapPC \cup {"undo_entry"}
    BY <1>6
       DEF JobStep, EncapPC, SetupLoad, SetupAttachDecap, SetupLoadEncap, SetupPinEncap, AddCheck, AddNetns,
           AddVeth, AddConfigure, UndoWait, UndoSweep, UndoNetns, RemoveWait, RemoveSweep, RemoveNetns,
           TeardownList, TeardownNext, TeardownDetachDecap, devVars, pinVars
  <2> QED BY <2>1
<1> QED BY <1>1, <1>2, <1>3, <1>4, <1>5, <1>6

\* A veth is made, and deleted, while its entry is not there.
LEMMA ListedStep ==
    ASSUME IInv, VethUnique, MaxFaults = 0, Listed, TornDown, NEW p \in Proc, JobStep(p), ~Unlock(p),
           UNCHANGED cmdVars, Doing = job[p], Doing' = job'[p]
    PROVE  Listed'
<1>0. /\ TypeOK /\ ~MayFault /\ job[p] \in JobType /\ JobOK(p) /\ job \in [Proc -> JobType]
      /\ vpce_to_ifindex \in [Vpce -> Ifindex \cup {None}] /\ veth \in [Ifindex -> Vpce \cup {None}]
  BY NothingFaults DEF IInv, TypeOK, JobsOK
<1> USE DEF Listed, At, Goto, Faulted, JobType
<1>1. CASE AddVeth(p)
  <2>1. job[p].pc = "veth" /\ job[p].vpce \in Vpce /\ UNCHANGED vpce_to_ifindex
    BY <1>0, <1>1 DEF AddVeth, JobOK, VpcePC, FreshPC
  <2>2. CASE UNCHANGED veth
    BY <2>1, <2>2
  <2>3. ASSUME NEW i \in Ifindex, veth' = [veth EXCEPT ![i] = job[p].vpce],
               job' = [job EXCEPT ![p].pc = "configure", ![p].idx = i]
        PROVE  Listed'
    <3>1. job'[p].pc = "configure" /\ job'[p].idx = i
      BY <1>0, <2>3
    <3> QED BY <1>0, <2>1, <2>3, <3>1
  <2> QED BY <1>0, <1>1, <2>2, <2>3 DEF AddVeth
<1>2. CASE AddConfigure(p) \/ RemoveDetach(p)
  <2>1. UNCHANGED <<veth, vpce_to_ifindex>> /\ job'[p].idx = job[p].idx
        /\ job'[p].pc \in {"insert", "undo_entry", "del_veth"}
    BY <1>0, <1>2 DEF AddConfigure, RemoveDetach, devVars
  <2> QED BY <2>1
<1>3. CASE AddInsert(p)
  <2>1. /\ job[p].pc = "insert" /\ job[p].vpce \in Vpce /\ job[p].idx \in Ifindex
        /\ veth[job[p].idx] = job[p].vpce /\ UNCHANGED veth
        /\ vpce_to_ifindex[job[p].vpce] = None
    BY <1>0, <1>3 DEF AddInsert, JobOK, VpcePC, FreshPC, IdxPC, VethPC, devVars
  <2>2. \A i \in Ifindex : veth[i] = job[p].vpce => i = job[p].idx
    BY <2>1, NoneAssumption DEF VethUnique
  <2>3. CASE vpce_to_ifindex' = [vpce_to_ifindex EXCEPT ![job[p].vpce] = job[p].idx]
    BY <1>0, <2>1, <2>2, <2>3
  <2>4. CASE UNCHANGED vpce_to_ifindex /\ job' = [job EXCEPT ![p].pc = "undo_entry"]
    BY <1>0, <2>1, <2>4
  <2> QED BY <1>3, <2>3, <2>4 DEF AddInsert
<1>4. CASE AddClearPin(p) \/ AddAttach(p)
  BY <1>0, <1>4 DEF AddClearPin, AddAttach, devVars
<1>5. CASE UndoEntry(p)
  <2>1. /\ job[p].pc = "undo_entry" /\ job[p].vpce \in Vpce /\ UNCHANGED veth
        /\ job[p].idx # None => veth[job[p].idx] = job[p].vpce
        /\ job[p].inserted => job[p].idx # None
    BY <1>0, <1>5 DEF UndoEntry, JobOK, VpcePC, devVars
  <2>2. /\ job'[p].idx = job[p].idx
        /\ job[p].idx # None => job'[p].pc = "undo_veth"
    BY <1>0, <1>5 DEF UndoEntry
  <2>3. CASE job[p].idx = None
    BY <1>5, <2>1, <2>3, NoneAssumption DEF UndoEntry
  <2>4. CASE job[p].idx # None
    <3>1. \A i \in Ifindex : veth[i] = job[p].vpce => i = job[p].idx
      BY <1>0, <2>1, <2>4, NoneAssumption DEF VethUnique
    <3>2. \A v \in Vpce : v # job[p].vpce => vpce_to_ifindex'[v] = vpce_to_ifindex[v]
      BY <1>0, <1>5 DEF UndoEntry, EntryDeleted
    <3> QED BY <1>0, <2>1, <2>2, <2>4, <3>1, <3>2
  <2> QED BY <2>3, <2>4
<1>6. CASE RemoveEntry(p)
  <2>1. job[p].pc = "remove_entry" /\ job[p].vpce \in Vpce /\ UNCHANGED veth
    BY <1>0, <1>6 DEF RemoveEntry, JobOK, VpcePC, devVars
  <2> DEFINE r == RemovedIfindex(job[p].vpce)
  <2>2. /\ r \in Ifindex \cup {None}
        /\ \A i \in Ifindex : veth[i] = job[p].vpce => i = r
    BY <2>1, RemovesTheVeth
  <2>3. job'[p].idx = r /\ (r # None => job'[p].pc = "detach")
    BY <1>0, <1>6 DEF RemoveEntry
  <2>4. \A v \in Vpce : v # job[p].vpce => vpce_to_ifindex'[v] = vpce_to_ifindex[v]
    BY <1>0, <1>6 DEF RemoveEntry, EntryDeleted
  <2>5. ASSUME NEW i \in Ifindex, veth[i] # None
        PROVE  \/ vpce_to_ifindex'[veth[i]] = i
               \/ job'[p].idx = i /\ job'[p].pc = "detach"
    <3>1. CASE veth[i] = job[p].vpce
      BY <2>2, <2>3, <2>5, <3>1, NoneAssumption
    <3>2. CASE veth[i] # job[p].vpce
      BY <1>0, <2>1, <2>4, <2>5, <3>2
    <3> QED BY <3>1, <3>2
  <2> QED BY <2>1, <2>5
<1>7. CASE UndoVeth(p) \/ RemoveVeth(p)
  <2>1. /\ job[p].pc \in {"undo_veth", "del_veth"} /\ job[p].idx \in Ifindex /\ veth[job[p].idx] # None
        /\ UNCHANGED vpce_to_ifindex
    BY <1>0, <1>7, NoneAssumption
       DEF UndoVeth, RemoveVeth, JobOK, VpcePC, IdxPC, VethPC, UnwirePC, UndoPC
  <2>2. veth' = [veth EXCEPT ![job[p].idx] = None]
    BY <1>0, <1>7, <2>1 DEF UndoVeth, RemoveVeth, LinkDel
  <2> QED BY <1>0, <2>1, <2>2
<1>8. CASE TeardownUnpin(p)
  <2>1. \A i \in Ifindex : veth[i] = None
    BY <1>0, <1>8, NoneAssumption DEF TeardownUnpin, TornDown, Provisioned
  <2> QED BY <1>8, <2>1 DEF TeardownUnpin
<1>9. CASE ~(\/ AddVeth(p) \/ AddConfigure(p) \/ AddInsert(p) \/ AddClearPin(p) \/ AddAttach(p)
             \/ UndoEntry(p) \/ RemoveEntry(p) \/ RemoveDetach(p) \/ UndoVeth(p) \/ RemoveVeth(p)
             \/ TeardownUnpin(p))
  <2>1. /\ UNCHANGED <<vpce_to_ifindex, veth>>
        /\ job[p].pc \notin {"configure", "insert", "undo_entry", "undo_veth", "detach", "del_veth"}
    BY <1>9
       DEF JobStep, SetupLoad, SetupAttachDecap, SetupLoadEncap, SetupPinEncap, AddCheck, AddNetns,
           UndoWait, UndoSweep, UndoNetns, RemoveWait, RemoveSweep, RemoveNetns,
           TeardownList, TeardownNext, TeardownDetachDecap, devVars
  <2> QED BY <2>1
<1> QED BY <1>1, <1>2, <1>3, <1>4, <1>5, <1>6, <1>7, <1>8, <1>9

\* Teardown goes through all it listed, and nothing is added meanwhile.
LEMMA TornDownStep ==
    ASSUME IInv, MaxFaults = 0, TornDown, NEW p \in Proc, JobStep(p), ~Unlock(p), UNCHANGED cmdVars,
           Doing = job[p], Doing' = job'[p]
    PROVE  TornDown'
<1>0. /\ TypeOK /\ ~MayFault /\ job[p] \in JobType /\ JobOK(p) /\ job \in [Proc -> JobType]
      /\ vpce_to_ifindex \in [Vpce -> Ifindex \cup {None}]
  BY NothingFaults DEF IInv, TypeOK, JobsOK
<1> USE DEF TornDown, RemovePC, At, Goto, Faulted, JobType
<1>1. job'[p].cmd = job[p].cmd
  BY SameCommand
<1>2. CASE \/ SetupLoad(p) \/ SetupAttachDecap(p) \/ SetupLoadEncap(p) \/ SetupPinEncap(p)
           \/ AddCheck(p) \/ AddNetns(p) \/ AddVeth(p) \/ AddConfigure(p) \/ AddInsert(p)
           \/ AddClearPin(p) \/ AddAttach(p)
           \/ UndoEntry(p) \/ UndoVeth(p) \/ UndoWait(p) \/ UndoSweep(p) \/ UndoNetns(p)
  <2>1. /\ job[p].pc \notin {"list", "next", "detach_decap", "unpin"} \cup RemovePC
        /\ job'[p].pc \notin {"next", "detach_decap", "unpin"} \cup (RemovePC \ {"done"})
    <3>1. CASE SetupLoad(p) \/ SetupAttachDecap(p) \/ SetupLoadEncap(p) \/ SetupPinEncap(p)
      BY <1>0, <3>1 DEF SetupLoad, SetupAttachDecap, SetupLoadEncap, SetupPinEncap, AfterFailedAttach
    <3>2. CASE \/ AddCheck(p) \/ AddNetns(p) \/ AddVeth(p) \/ AddConfigure(p) \/ AddInsert(p)
               \/ AddClearPin(p) \/ AddAttach(p)
      BY <1>0, <3>2 DEF AddCheck, AddNetns, AddVeth, AddConfigure, AddInsert, AddClearPin, AddAttach
    <3>3. CASE UndoEntry(p) \/ UndoVeth(p) \/ UndoWait(p) \/ UndoSweep(p) \/ UndoNetns(p)
      BY <1>0, <3>3 DEF UndoEntry, UndoVeth, UndoWait, UndoSweep, UndoNetns
    <3> QED BY <1>2, <3>1, <3>2, <3>3
  <2> QED BY <1>1, <2>1
<1>3. CASE RemoveEntry(p)
  <2>1. /\ job[p].pc = "remove_entry" /\ job[p].vpce \in Vpce
        /\ Provisioned' = Provisioned \ {job[p].vpce}
    BY <1>0, <1>3 DEF RemoveEntry, JobOK, VpcePC, EntryDeleted, Provisioned
  <2>2. job'[p].todo = job[p].todo /\ job'[p].pc \in {"detach", "del_netns"}
    BY <1>0, <1>3 DEF RemoveEntry
  <2> QED BY <1>1, <2>1, <2>2
<1>4. CASE RemoveDetach(p) \/ RemoveVeth(p) \/ RemoveWait(p) \/ RemoveSweep(p)
  <2>1. /\ job[p].pc \in RemovePC \ {"remove_entry", "done", "del_netns"}
        /\ job'[p].pc \in RemovePC \ {"remove_entry", "done"}
        /\ job'[p].todo = job[p].todo
    BY <1>0, <1>4 DEF RemoveDetach, RemoveVeth, RemoveWait, RemoveSweep
  <2>2. Provisioned' = Provisioned
    BY <1>4 DEF RemoveDetach, RemoveVeth, RemoveWait, RemoveSweep, Provisioned
  <2> QED BY <1>1, <2>1, <2>2
<1>5. CASE RemoveNetns(p)
  <2>1. /\ job[p].pc = "del_netns" /\ job'[p].todo = job[p].todo /\ Provisioned' = Provisioned
        /\ job'[p].pc = IF job[p].cmd = "remove" THEN "done" ELSE "next"
    BY <1>0, <1>5 DEF RemoveNetns, Provisioned
  <2> QED BY <1>1, <2>1
<1>6. CASE TeardownList(p)
  BY <1>0, <1>1, <1>6 DEF TeardownList, ProvisionedEndpoints, Provisioned
<1>7. CASE TeardownNext(p)
  <2>1. job[p].pc = "next" /\ Provisioned' = Provisioned
    BY <1>7 DEF TeardownNext, Provisioned
  <2>2. ASSUME NEW v \in job[p].todo,
               job' = [job EXCEPT ![p].pc = "remove_entry", ![p].vpce = v, ![p].idx = None,
                                  ![p].todo = @ \ {v}]
        PROVE  TornDown'
    <3>1. job'[p].pc = "remove_entry" /\ job'[p].vpce = v /\ job'[p].todo = job[p].todo \ {v}
      BY <1>0, <2>2
    <3> QED BY <1>1, <2>1, <3>1
  <2>3. CASE job[p].todo = {} /\ job' = [job EXCEPT ![p].pc = "detach_decap"]
    BY <1>0, <1>1, <2>1, <2>3
  <2> QED BY <1>7, <2>2, <2>3 DEF TeardownNext
<1>8. CASE TeardownDetachDecap(p)
  <2>1. job[p].pc = "detach_decap" /\ job'[p].pc = "unpin" /\ Provisioned' = Provisioned
    BY <1>0, <1>8 DEF TeardownDetachDecap, Provisioned
  <2> QED BY <1>1, <2>1
<1>9. CASE TeardownUnpin(p)
  <2>1. /\ job'[p].pc \in {"done", "failed"} /\ pinned' = {} /\ encap_pin' = {}
        /\ vpce_to_ifindex' = [v \in Vpce |-> None]
        /\ job[p].cmd = "teardown" => job'[p].pc = "done"
    BY <1>0, <1>9 DEF TeardownUnpin
  <2> QED BY <1>1, <2>1 DEF Provisioned
<1> QED BY <1>2, <1>3, <1>4, <1>5, <1>6, <1>7, <1>8, <1>9 DEF JobStep

-----------------------------------------------------------------------------
(* Without faults: what holds.                                             *)

\* A host before its first setup.
LEMMA InitNoFaults == Init => NoFaultsOK
BY DEF Init, NoFaultsOK, Swept, Wired, Listed, TornDown, Doing, Idle, Provisioned

\* Every step of a host on which nothing is killed keeps it.
LEMMA NextNoFaults ==
    ASSUME MaxFaults = 0, IInv, PromisesOK, NoFaultsOK, [Next]_vars
    PROVE  NoFaultsOK'
<1> USE DEF NoFaultsOK
<1>1. CASE UNCHANGED hostVars /\ Doing' = Doing
  BY <1>1 DEF hostVars, Swept, Wired, Listed, TornDown, Provisioned
<1>2. CASE /\ UNCHANGED hostVars
           /\ Doing.pc \in {"idle", "done", "failed"}
           /\ \/ Doing' = Idle
              \/ Doing'.pc \in {"load", "check", "list"}
                 /\ (Doing'.pc = "list" <=> Doing'.cmd = "teardown")
              \/ Doing'.pc = "remove_entry" /\ Doing'.cmd = "remove"
  <2>1. Swept' /\ Wired' /\ Listed'
    BY <1>2 DEF hostVars, Swept, Wired, Listed, Provisioned, EncapPC
  <2>2. TornDown'
    BY <1>2 DEF TornDown, RemovePC, Idle
  <2> QED BY <2>1, <2>2
<1>3. ASSUME NEW p \in Proc, JobStep(p), ~Unlock(p), UNCHANGED cmdVars, Doing = job[p], Doing' = job'[p]
      PROVE  NoFaultsOK'
  BY <1>3, SweptStep, WiredStep, ListedStep, TornDownStep DEF PromisesOK
<1> QED BY <1>1, <1>2, <1>3, DoingStep

\* Without faults every ifindex is swept, every endpoint whole, every veth listed.
THEOREM FaultFree == ASSUME MaxFaults = 0 PROVE Spec => []NoFaultsOK
BY Invariance, Promises, InitNoFaults, NextNoFaults, PTL DEF Spec

\* An endpoint never inherits anything, without exception (decap.go SweepEndpoint).
THEOREM NothingInherited == ASSUME MaxFaults = 0 PROVE Spec => []NoInheritance
<1>1. IInv /\ NoFaultsOK => NoInheritance
  BY DEF IInv, EntriesBelongToOwner, NoFaultsOK, Swept, NoInheritance
<1> QED BY Invariance, FaultFree, <1>1, PTL

\* Between commands no endpoint is half wired or half removed (RunAdd, RunRemove).
THEOREM AllWhole == ASSUME MaxFaults = 0 PROVE Spec => []EndpointsWhole
<1>1. IInv /\ NoFaultsOK => EndpointsWhole
  BY DEF IInv, DevicesOK, NoFaultsOK, Wired, Doing, Idle, EncapPC, EndpointsWhole, Provisioned
<1> QED BY Invariance, FaultFree, <1>1, PTL

\* teardown leaves nothing (RunTeardown).
THEOREM TeardownCleans == ASSUME MaxFaults = 0 PROVE Spec => []TeardownLeavesNothing
<1>1. ASSUME IInv, NoFaultsOK, NEW p \in Proc, job[p].cmd = "teardown", job[p].pc = "done"
      PROVE  /\ Provisioned = {} /\ attached = {} /\ pinned = {} /\ encap_pin = {}
             /\ \A i \in Ifindex : veth[i] = None /\ Unused(i)
  <2>1. TypeOK /\ lock = p /\ Doing = job[p]
    BY <1>1, HoldsLock, NoneAssumption DEF IInv, Doing
  <2>2. Provisioned = {} /\ pinned = {} /\ encap_pin = {} /\ dirty = {}
    BY <1>1, <2>1 DEF NoFaultsOK, TornDown, Swept
  <2>3. \A i \in Ifindex : veth[i] = None
    BY <1>1, <2>1, <2>2, NoneAssumption DEF NoFaultsOK, Listed, Provisioned, TypeOK
  <2>4. attached = {} /\ \A i \in Ifindex : Unused(i)
    BY <1>1, <2>1, <2>2, <2>3 DEF IInv, DevicesOK, EntriesOK, TypeOK
  <2> QED BY <2>2, <2>3, <2>4
<1>2. IInv /\ NoFaultsOK => TeardownLeavesNothing
  BY <1>1 DEF TeardownLeavesNothing
<1> QED BY Invariance, FaultFree, <1>2, PTL

=============================================================================
