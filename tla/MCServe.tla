------------------------------ MODULE MCServe -------------------------------
(***************************************************************************)
(* Serve for TLC, on a host that has one endpoint when it starts.  The     *)
(* endpoints are alike, so it is always the same one.                      *)
(***************************************************************************)
EXTENDS Serve

MCInit ==
    /\ Init
    /\ {iface[i] : i \in Live} = {CHOOSE v \in Vpce : TRUE}

MCFairSpec == MCInit /\ [][Next]_vars /\ WF_vars(ServeStep)
=============================================================================
