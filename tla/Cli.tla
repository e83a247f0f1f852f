-------------------------------- MODULE Cli ---------------------------------
(***************************************************************************)
(* The gwlb-xdp commands that change state: setup, add, remove, teardown.  *)
(* One action per kernel call that changes what another process or an XDP  *)
(* run can see, in the order the code makes them; a command may be killed  *)
(* between any two.                                                        *)
(***************************************************************************)
EXTENDS Host

Goto(p, pc) == job' = [job EXCEPT ![p].pc = pc]

\* A cleanup step that could not do its work.  Most of their errors are joined and
\* reported; those of LinkByName and LinkByIndex are discarded.
Faulted(p, pc) == job' = [job EXCEPT ![p].pc = pc, ![p].faulty = TRUE]

At(p, pc) == job[p].pc = pc

MayFault == faults < MaxFaults

-----------------------------------------------------------------------------
(* withStateLock.                                                          *)

\* Mutant: the flock is not waited for.
LockIgnored == TRUE

LockFree == lock = None

\* A command gets the flock and begins.  isolated: add without --no-netns.
Start(p, cmd, v, isolated) ==
    /\ LockFree
    /\ job[p] = Idle
    /\ lock' = p
    /\ job' = [job EXCEPT ![p] =
                 [Idle EXCEPT !.cmd = cmd,
                              !.vpce = IF cmd \in {"add", "remove"} THEN v ELSE None,
                              !.isolated = cmd = "add" /\ isolated,
                              !.pc = CASE cmd = "setup" -> "load"
                                       [] cmd = "add" -> "check"
                                       [] cmd = "remove" -> "remove_entry"
                                       [] cmd = "teardown" -> "list"]]
    /\ found' = [netns |-> netns, veth |-> veth, attached |-> attached,
                 endpoints |-> vpce_to_ifindex, pinned |-> pinned]
    /\ UNCHANGED <<faults, devVars, pinVars, vpce_to_ifindex, mapVars, run, dirty>>

Release(p) ==
    /\ lock' = None
    /\ job' = [job EXCEPT ![p] = Idle]
    /\ found' = None
    /\ UNCHANGED <<devVars, pinVars, vpce_to_ifindex, mapVars, run, dirty>>

Unlock(p) ==
    /\ job[p].pc \in {"done", "failed"}
    /\ faults' = IF job[p].faulty THEN faults + 1 ELSE faults
    /\ Release(p)

\* Killed: the kernel drops the flock, and nothing is rolled back.  A LinkDel is
\* not interrupted while it waits out its grace period.
Crash(p) ==
    /\ MayFault
    /\ job[p].pc \notin {"idle", "done", "failed", "wait", "undo_wait"}
    /\ faults' = faults + 1
    /\ Release(p)

-----------------------------------------------------------------------------
(* What the commands share.                                                *)

\* Deleting the outer veth deletes its peer and detaches encap, and returns only
\* when every XDP run in progress has finished.
AwaitedRuns == {c \in Cpu : run[c].st # "none"}

LinkDel(i) ==
    /\ veth[i] # None
    /\ veth' = [veth EXCEPT ![i] = None]
    /\ attached' = attached \ {i}
    /\ grace' = AwaitedRuns

\* Mutants: the sweep does not wait for the runs in flight; it waits for a moment
\* with no run at all, whichever began when.
SweepAtOnce == TRUE
AllCpusQuiet == AwaitedRuns = {}

GraceOver == grace = {}

\* Mutant: frag_state is forgotten.
SweptWithoutFrags == {"flow_state", "metrics"}

\* The maps whose entries under an ifindex SweepEndpoint deletes.
SweptMaps == {"flow_state", "frag_state", "metrics"}

WithoutIfindex(m, i) == [k \in Key |-> IF k[1] = i THEN None ELSE m[k]]

\* SweepEndpoint(i), of which the maps in failed could not be read.
Sweep(i, failed) ==
    LET swept == SweptMaps \ failed IN
    /\ flow_state' = IF "flow_state" \in swept THEN WithoutIfindex(flow_state, i) ELSE flow_state
    /\ frag_state' = IF "frag_state" \in swept THEN WithoutIfindex(frag_state, i) ELSE frag_state
    /\ metrics' = IF "metrics" \in swept THEN [metrics EXCEPT ![i] = {}] ELSE metrics
    /\ dirty' = IF failed = {} /\ veth[i] = None THEN dirty \ {i} ELSE dirty

Failures == IF MayFault THEN {{}, {"flow_state"}, {"frag_state"}, {"metrics"}} ELSE {{}}

\* LinkByName on the outer end's name, which depends on the endpoint only.
LinkByName(v) == IF \E i \in Ifindex : veth[i] = v
                 THEN CHOOSE i \in Ifindex : veth[i] = v ELSE None

\* Mutant: the entry outlives the endpoint.
EntryKept(v) == vpce_to_ifindex

EntryDeleted(v) == [vpce_to_ifindex EXCEPT ![v] = None]

-----------------------------------------------------------------------------
(* setup.                                                                  *)

\* decap.Load pins the maps, or reuses them if they are pinned already; a load
\* that fails may have pinned them first.
SetupLoad(p) ==
    /\ At(p, "load")
    /\ \/ pinned' = pinned \cup {"maps"} /\ Goto(p, "attach_decap")
       \/ MayFail /\ pinned' \in {pinned, pinned \cup {"maps"}} /\ Goto(p, "failed")
    /\ UNCHANGED <<cmdVars, devVars, encap_pin, vpce_to_ifindex, mapVars, run, dirty>>

\* Mutant: the rollback is armed before decap is attached.
ArmedEarly == "list"

\* RunTeardown is deferred only after decap is attached.
AfterFailedAttach == "failed"

\* Attaching decap, and pinning the link, fails if decap is attached.
SetupAttachDecap(p) ==
    /\ At(p, "attach_decap")
    /\ \/ /\ "decap_link" \notin pinned
          /\ pinned' = pinned \cup {"decap_link"}
          /\ Goto(p, "load_encap")
       \/ /\ "decap_link" \in pinned \/ MayFail
          /\ Goto(p, AfterFailedAttach)
          /\ UNCHANGED pinned
    /\ UNCHANGED <<cmdVars, devVars, encap_pin, vpce_to_ifindex, mapVars, run, dirty>>

\* Loading and pinning encap; Pin fails on a path that exists.  A failure tears
\* everything down.
SetupLoadEncap(p) ==
    /\ At(p, "load_encap")
    /\ \/ Goto(p, "pin_encap")
       \/ MayFail /\ Goto(p, "list")
    /\ UNCHANGED <<cmdVars, devVars, pinVars, vpce_to_ifindex, mapVars, run, dirty>>

SetupPinEncap(p) ==
    /\ At(p, "pin_encap")
    /\ \/ /\ "encap_prog" \notin pinned
          /\ pinned' = pinned \cup {"encap_prog"}
          /\ Goto(p, "done")
       \/ /\ "encap_prog" \in pinned \/ MayFail
          /\ Goto(p, "list")
          /\ UNCHANGED pinned
    /\ UNCHANGED <<cmdVars, devVars, encap_pin, vpce_to_ifindex, mapVars, run, dirty>>

-----------------------------------------------------------------------------
(* add.                                                                    *)

\* Before anything is touched: setup has run, and the endpoint is new.
AddCheck(p) ==
    /\ At(p, "check")
    /\ IF {"decap_link", "maps"} \subseteq pinned /\ vpce_to_ifindex[job[p].vpce] = None
       THEN Goto(p, "netns")
       ELSE Goto(p, "failed")
    /\ UNCHANGED <<cmdVars, devVars, pinVars, vpce_to_ifindex, mapVars, run, dirty>>

\* CreateNamedNetns.  It fails with nothing changed where the name is taken, or what
\* it made is deleted again.  When netns.Get fails nothing was made, and it deletes
\* what has the name nevertheless.  Last, the netns was made, and neither leaving it
\* nor deleting it worked.
AddNetns(p) ==
    /\ At(p, "netns")
    /\ \/ ~job[p].isolated /\ Goto(p, "veth") /\ UNCHANGED netns
       \/ /\ job[p].isolated /\ job[p].vpce \notin netns
          /\ netns' = netns \cup {job[p].vpce}
          /\ job' = [job EXCEPT ![p].pc = "veth", ![p].createdNetns = TRUE]
       \/ /\ job[p].isolated
          /\ job[p].vpce \in netns \/ MayFail
          /\ Goto(p, "undo_entry")
          /\ UNCHANGED netns
       \/ /\ job[p].isolated /\ MayFail
          /\ netns' = netns \ {job[p].vpce}
          /\ job' = [job EXCEPT ![p].pc = "undo_entry", ![p].getFailed = TRUE]
       \/ /\ job[p].isolated /\ job[p].vpce \notin netns
          /\ MayFail /\ MayFault
          /\ netns' = netns \cup {job[p].vpce}
          /\ Faulted(p, "undo_entry")
    /\ UNCHANGED <<cmdVars, veth, attached, grace, pinVars, vpce_to_ifindex,
                   mapVars, run, dirty>>

\* The kernel picks any ifindex not in use, a deleted veth's included; a veth of
\* the same name makes LinkAdd fail.  Last, the veth was made, LinkByName failed to
\* tell its ifindex, and deleting it by name failed too, which nobody is told.
AddVeth(p) ==
    /\ At(p, "veth")
    /\ \/ /\ LinkByName(job[p].vpce) = None
          /\ \E i \in Ifindex :
               /\ veth[i] = None
               /\ veth' = [veth EXCEPT ![i] = job[p].vpce]
               /\ job' = [job EXCEPT ![p].pc = "configure", ![p].idx = i]
       \/ /\ LinkByName(job[p].vpce) # None \/ MayFail
          /\ Goto(p, "undo_entry")
          /\ UNCHANGED veth
       \/ /\ LinkByName(job[p].vpce) = None
          /\ MayFail /\ MayFault
          /\ \E i \in Ifindex :
               /\ veth[i] = None
               /\ veth' = [veth EXCEPT ![i] = job[p].vpce]
          /\ Faulted(p, "undo_entry")
    /\ UNCHANGED <<cmdVars, netns, attached, grace, pinVars, vpce_to_ifindex,
                   mapVars, run, dirty>>

\* Moving and raising the inner end, offloads, routes, --script, reading the MACs:
\* none of it shared; any of it, the script above all, may fail.
AddConfigure(p) ==
    /\ At(p, "configure")
    /\ Goto(p, "insert") \/ Goto(p, "undo_entry")
    /\ UNCHANGED <<cmdVars, devVars, pinVars, vpce_to_ifindex, mapVars, run, dirty>>

\* AddEndpoint: UpdateNoExist into a map of MaxEndpoints entries.
AddInsert(p) ==
    /\ At(p, "insert")
    /\ \/ /\ vpce_to_ifindex[job[p].vpce] = None
          /\ Cardinality(Provisioned) < MaxEndpoints
          /\ vpce_to_ifindex' = [vpce_to_ifindex EXCEPT ![job[p].vpce] = job[p].idx]
          /\ job' = [job EXCEPT ![p].pc = "clear_pin", ![p].inserted = TRUE]
       \/ /\ vpce_to_ifindex[job[p].vpce] # None \/ Cardinality(Provisioned) >= MaxEndpoints
          /\ Goto(p, "undo_entry")
          /\ UNCHANGED vpce_to_ifindex
    /\ UNCHANGED <<cmdVars, devVars, pinVars, mapVars, run, dirty>>

\* Mutant: the stale pin is left there.
StalePinKept(i) == encap_pin

StalePinCleared(i) == encap_pin \ {i}

\* encap.Attach, up to the attaching: the pinned program is loaded, and a pin that an
\* earlier owner of the ifindex left is cleared.
AddClearPin(p) ==
    /\ At(p, "clear_pin")
    /\ \/ /\ "encap_prog" \in pinned
          /\ encap_pin' = StalePinCleared(job[p].idx)
          /\ Goto(p, "attach")
       \/ /\ "encap_prog" \notin pinned
          /\ Goto(p, "undo_entry")
          /\ UNCHANGED encap_pin
       \/ /\ MayFail
          /\ Goto(p, "undo_entry")
          /\ encap_pin' \in {encap_pin, StalePinCleared(job[p].idx)}
    /\ UNCHANGED <<cmdVars, devVars, pinned, vpce_to_ifindex, mapVars, run, dirty>>

\* AttachXDP; Pin fails on a path that exists.  Last, all of it worked, and closing the
\* program's descriptor made an error of it.
AddAttach(p) ==
    /\ At(p, "attach")
    /\ \/ /\ job[p].idx \notin encap_pin
          /\ attached' = attached \cup {job[p].idx}
          /\ encap_pin' = encap_pin \cup {job[p].idx}
          /\ Goto(p, "done") \/ (MayFail /\ Goto(p, "undo_entry"))
       \/ /\ job[p].idx \in encap_pin \/ MayFail
          /\ Goto(p, "undo_entry")
          /\ UNCHANGED <<attached, encap_pin>>
    /\ UNCHANGED <<cmdVars, veth, netns, grace, pinned, vpce_to_ifindex,
                   mapVars, run, dirty>>

-----------------------------------------------------------------------------
(* add's rollback: only what this call created.                            *)

\* Mutants: the rollback does not sweep; it deletes the netns whoever made it.
NeverSweeps(p) == FALSE
AnyNetns(p) == {job[p].vpce}

SweepsToo(p) == job[p].inserted
CreatedNetns(p) == IF job[p].createdNetns THEN {job[p].vpce} ELSE {}

UndoEntry(p) ==
    /\ At(p, "undo_entry")
    /\ vpce_to_ifindex' = IF job[p].inserted
                          THEN EntryDeleted(job[p].vpce)
                          ELSE vpce_to_ifindex
    /\ Goto(p, IF job[p].idx # None THEN "undo_veth" ELSE "undo_netns")
    /\ UNCHANGED <<cmdVars, devVars, pinVars, mapVars, run, dirty>>

\* LinkByIndex failing leaves the veth, like LinkDel failing, but is not reported.
UndoVeth(p) ==
    /\ At(p, "undo_veth")
    /\ \/ /\ LinkDel(job[p].idx)
          /\ dirty' = IF job[p].inserted THEN dirty \cup {job[p].idx} ELSE dirty
          /\ Goto(p, "undo_wait")
       \/ /\ MayFault
          /\ Faulted(p, "undo_sweep")
          /\ UNCHANGED <<veth, attached, grace, dirty>>
    /\ UNCHANGED <<cmdVars, netns, pinVars, vpce_to_ifindex, mapVars, run>>

UndoWait(p) ==
    /\ At(p, "undo_wait")
    /\ GraceOver
    /\ Goto(p, "undo_sweep")
    /\ UNCHANGED <<cmdVars, devVars, pinVars, vpce_to_ifindex, mapVars, run, dirty>>

UndoSweep(p) ==
    /\ At(p, "undo_sweep")
    /\ \/ /\ SweepsToo(p)
          /\ \E failed \in Failures :
               /\ Sweep(job[p].idx, failed)
               /\ job' = [job EXCEPT ![p].pc = "undo_netns",
                                     ![p].faulty = @ \/ failed # {}]
       \/ ~SweepsToo(p) /\ Goto(p, "undo_netns") /\ UNCHANGED <<mapVars, dirty>>
    /\ UNCHANGED <<cmdVars, devVars, pinVars, vpce_to_ifindex, run>>

UndoNetns(p) ==
    /\ At(p, "undo_netns")
    /\ \/ netns' = netns \ CreatedNetns(p) /\ Goto(p, "failed")
       \/ CreatedNetns(p) # {} /\ MayFault /\ Faulted(p, "failed") /\ UNCHANGED netns
    /\ UNCHANGED <<cmdVars, veth, attached, grace, pinVars, vpce_to_ifindex,
                   mapVars, run, dirty>>

-----------------------------------------------------------------------------
(* remove, also one round of teardown's loop.                              *)

\* Mutant: no falling back to the name.
IfindexFromMap(v) == vpce_to_ifindex[v]

\* Without an entry (or without the map) the outer veth's name gives the ifindex.
RemovedIfindex(v) ==
    IF vpce_to_ifindex[v] # None THEN vpce_to_ifindex[v] ELSE LinkByName(v)

\* Last, there is no entry, and LinkByName fails for a veth that is there.
RemoveEntry(p) ==
    /\ At(p, "remove_entry")
    /\ vpce_to_ifindex' = EntryDeleted(job[p].vpce)
    /\ \/ LET i == RemovedIfindex(job[p].vpce) IN
          job' = [job EXCEPT ![p].idx = i,
                             ![p].pc = IF i # None THEN "detach" ELSE "del_netns"]
       \/ /\ vpce_to_ifindex[job[p].vpce] = None /\ LinkByName(job[p].vpce) # None
          /\ MayFault
          /\ job' = [job EXCEPT ![p].idx = None, ![p].pc = "del_netns", ![p].faulty = TRUE]
    /\ UNCHANGED <<cmdVars, devVars, pinVars, mapVars, run, dirty>>

\* encap.Detach: a missing pin means encap was never attached.
RemoveDetach(p) ==
    /\ At(p, "detach")
    /\ \/ /\ attached' = attached \ {job[p].idx}
          /\ encap_pin' = encap_pin \ {job[p].idx}
          /\ Goto(p, "del_veth")
       \/ /\ MayFault
          /\ Faulted(p, "del_veth")
          /\ UNCHANGED <<attached, encap_pin>>
    /\ UNCHANGED <<cmdVars, veth, netns, grace, pinned, vpce_to_ifindex,
                   mapVars, run, dirty>>

\* A link that LinkByIndex does not find is skipped; one that cannot be deleted is
\* reported.  Both go on to the sweep.
RemoveVeth(p) ==
    /\ At(p, "del_veth")
    /\ \/ /\ LinkDel(job[p].idx)
          /\ dirty' = dirty \cup {job[p].idx}
          /\ Goto(p, "wait")
       \/ /\ veth[job[p].idx] = None \/ MayFault
          /\ job' = [job EXCEPT ![p].pc = "sweep", ![p].faulty = @ \/ veth[job[p].idx] # None]
          /\ UNCHANGED <<veth, attached, grace, dirty>>
    /\ UNCHANGED <<cmdVars, netns, pinVars, vpce_to_ifindex, mapVars, run>>

RemoveWait(p) ==
    /\ At(p, "wait")
    /\ GraceOver
    /\ Goto(p, "sweep")
    /\ UNCHANGED <<cmdVars, devVars, pinVars, vpce_to_ifindex, mapVars, run, dirty>>

RemoveSweep(p) ==
    /\ At(p, "sweep")
    /\ \E failed \in Failures :
         /\ Sweep(job[p].idx, failed)
         /\ job' = [job EXCEPT ![p].pc = "del_netns", ![p].faulty = @ \/ failed # {}]
    /\ UNCHANGED <<cmdVars, devVars, pinVars, vpce_to_ifindex, run>>

\* Whatever netns has the endpoint's name; none is no error.
RemoveNetns(p) ==
    /\ At(p, "del_netns")
    /\ LET pc == IF job[p].cmd = "remove" THEN "done" ELSE "next" IN
       \/ netns' = netns \ {job[p].vpce} /\ Goto(p, pc)
       \/ MayFault /\ Faulted(p, pc) /\ UNCHANGED netns
    /\ UNCHANGED <<cmdVars, veth, attached, grace, pinVars, vpce_to_ifindex,
                   mapVars, run, dirty>>

-----------------------------------------------------------------------------
(* teardown, also setup's rollback.                                        *)

\* Mutant: the endpoints are not listed.
NoEndpoints == {}

ProvisionedEndpoints == Provisioned

\* A list that cannot be read is reported, and taken for an empty one.
TeardownList(p) ==
    /\ At(p, "list")
    /\ \/ job' = [job EXCEPT ![p].pc = "next", ![p].todo = ProvisionedEndpoints]
       \/ MayFault /\ job' = [job EXCEPT ![p].pc = "next", ![p].todo = {}, ![p].faulty = TRUE]
    /\ UNCHANGED <<cmdVars, devVars, pinVars, vpce_to_ifindex, mapVars, run, dirty>>

TeardownNext(p) ==
    /\ At(p, "next")
    /\ \/ \E v \in job[p].todo :
            job' = [job EXCEPT ![p].pc = "remove_entry", ![p].vpce = v, ![p].idx = None,
                               ![p].todo = @ \ {v}]
       \/ job[p].todo = {} /\ Goto(p, "detach_decap")
    /\ UNCHANGED <<cmdVars, devVars, pinVars, vpce_to_ifindex, mapVars, run, dirty>>

TeardownDetachDecap(p) ==
    /\ At(p, "detach_decap")
    /\ \/ pinned' = pinned \ {"decap_link"} /\ Goto(p, "unpin")
       \/ MayFault /\ Faulted(p, "unpin") /\ UNCHANGED pinned
    /\ UNCHANGED <<cmdVars, devVars, encap_pin, vpce_to_ifindex, mapVars, run, dirty>>

\* Removing the pin directory detaches what links were left and frees the maps;
\* runs in flight keep the old maps until they end.
TeardownUnpin(p) ==
    /\ At(p, "unpin")
    /\ \/ /\ pinned' = {} /\ encap_pin' = {} /\ attached' = {}
          /\ vpce_to_ifindex' = [v \in Vpce |-> None]
          /\ flow_state' = NoEntries /\ frag_state' = NoEntries /\ metrics' = NoMetrics
          /\ run' = [c \in Cpu |-> IF c \in InFlight THEN [NoRun EXCEPT !.st = "stray"]
                                   ELSE run[c]]
          /\ dirty' = {}
          /\ Goto(p, IF job[p].cmd = "setup" THEN "failed" ELSE "done")
       \/ /\ MayFault
          /\ Faulted(p, IF job[p].cmd = "setup" THEN "failed" ELSE "done")
          /\ UNCHANGED <<pinVars, attached, vpce_to_ifindex, mapVars, run, dirty>>
    /\ UNCHANGED <<cmdVars, veth, netns, grace>>

-----------------------------------------------------------------------------
Begin(p) ==
    \E cmd \in Command, v \in Vpce, isolated \in BOOLEAN : Start(p, cmd, v, isolated)

\* What a command does once it holds the lock.
JobStep(p) ==
    \/ SetupLoad(p) \/ SetupAttachDecap(p) \/ SetupLoadEncap(p) \/ SetupPinEncap(p)
    \/ AddCheck(p) \/ AddNetns(p) \/ AddVeth(p) \/ AddConfigure(p)
    \/ AddInsert(p) \/ AddClearPin(p) \/ AddAttach(p)
    \/ UndoEntry(p) \/ UndoVeth(p) \/ UndoWait(p) \/ UndoSweep(p) \/ UndoNetns(p)
    \/ RemoveEntry(p) \/ RemoveDetach(p) \/ RemoveVeth(p) \/ RemoveWait(p)
    \/ RemoveSweep(p) \/ RemoveNetns(p)
    \/ TeardownList(p) \/ TeardownNext(p) \/ TeardownDetachDecap(p) \/ TeardownUnpin(p)
    \/ Unlock(p)
=============================================================================
