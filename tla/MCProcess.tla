----------------------------- MODULE MCProcess ------------------------------
(***************************************************************************)
(* The parts of the Go process that share no state with one another, for   *)
(* TLC: one sweep of a map (Sweep), the threads that enter network         *)
(* namespaces (Netns), serve's goroutines (Daemon) and its datagrams       *)
(* (PackLines).  Each behaviour is of one of them, and the others rest at  *)
(* one initial state.                                                      *)
(*                                                                         *)
(* In Sweep one bucket has room for every entry of the map, five times     *)
(* what a batch has room for at first.                                     *)
(***************************************************************************)
EXTENDS Sweep, Netns, Daemon, PackLines, TLC

CONSTANTS m1, m2, o1, o2, o3, o4

VARIABLE part   \* which of the four this behaviour is of

vars == <<part, sweepVars, netnsVars, daemonVars, packVars>>

MCKey == {m1, m2, o1, o2, o3, o4}
MCMatching == {m1, m2}
MCHash == m1 :> 0 @@ o1 :> 2 @@ m2 :> 2 @@ o2 :> 2 @@ o3 :> 2 @@ o4 :> 2

Init ==
    /\ part \in {"sweep", "netns", "daemon", "pack"}
    /\ SweepInit /\ (part = "sweep" \/ map = {})
    /\ NetnsInit
    /\ part = "netns" \/ (named = "nobody" /\ thread = CHOOSE t \in Thread : TRUE)
    /\ DaemonInit
    /\ part = "daemon" \/ (~interval /\ ~decap /\ uplink = {})
    /\ PackInit /\ (part = "pack" \/ lines = <<>>)

InSweep == part = "sweep" /\ UNCHANGED <<part, netnsVars, daemonVars, packVars>>
InNetns == part = "netns" /\ UNCHANGED <<part, sweepVars, daemonVars, packVars>>
InDaemon == part = "daemon" /\ UNCHANGED <<part, sweepVars, netnsVars, packVars>>
InPack == part = "pack" /\ UNCHANGED <<part, sweepVars, netnsVars, daemonVars>>

Next ==
    \/ SweepNext /\ InSweep
    \/ NetnsNext /\ InNetns
    \/ DaemonNext /\ InDaemon
    \/ PackNext /\ InPack

\* FairSweepSpec and FairDaemonSpec have the reasons.
FairSpec ==
    /\ Init /\ [][Next]_vars
    /\ WF_vars(SweepStep /\ InSweep)
    /\ WF_vars(LoopStep /\ InDaemon)
    /\ SF_vars(Shutdown /\ InDaemon) /\ SF_vars(ServerErr /\ InDaemon)
    /\ WF_vars(ServerCloses /\ InDaemon) /\ WF_vars(Send /\ InDaemon)

-----------------------------------------------------------------------------
\* The inductive invariants of the sweep's walk, the netns switches and serve's
\* goroutines (maps.go sweepByIfindex, utils.go withLockedOSThread, serve.go RunServe).
ProcessInv == SweepInv /\ NetnsInv /\ DaemonInv
=============================================================================
