---------------------------- MODULE FailedRemove ----------------------------
(***************************************************************************)
(* Gwlb with one failure more, which IInv does not survive: RemoveEndpoint *)
(* returns an error with the endpoint's entry still in vpce_to_ifindex     *)
(* (the pinned map cannot be opened, or the delete fails).  RunRemove, and *)
(* likewise RunAdd's rollback, goes on to delete the veth and to sweep.    *)
(***************************************************************************)
EXTENDS Gwlb

\* The VpceInfo that comes with the error is zero, so that the ifindex is looked up
\* by the outer end's name.
RemoveEntryFails(p) ==
    /\ At(p, "remove_entry")
    /\ MayFault
    /\ LET i == LinkByName(job[p].vpce) IN
       job' = [job EXCEPT ![p].idx = i, ![p].faulty = TRUE,
                          ![p].pc = IF i # None THEN "detach" ELSE "del_netns"]
    /\ UNCHANGED <<cmdVars, devVars, pinVars, vpce_to_ifindex, mapVars, run, dirty>>

\* The rollback has the ifindex from LinkAdd.
UndoEntryFails(p) ==
    /\ At(p, "undo_entry")
    /\ job[p].inserted
    /\ MayFault
    /\ Faulted(p, "undo_veth")
    /\ UNCHANGED <<cmdVars, devVars, pinVars, vpce_to_ifindex, mapVars, run, dirty>>

StaleEntryNext ==
    \/ Next
    \/ \E p \in Proc : RemoveEntryFails(p) \/ UndoEntryFails(p)

StaleEntrySpec == Init /\ [][StaleEntryNext]_vars
=============================================================================
