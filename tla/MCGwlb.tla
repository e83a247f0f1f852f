------------------------------- MODULE MCGwlb -------------------------------
(***************************************************************************)
(* Instances of Gwlb for TLC.  Commands, CPUs, endpoints, ifindexes and    *)
(* tuples are interchangeable in every action and every safety property.   *)
(***************************************************************************)
EXTENDS GwlbTunnels, TLC

Symmetry == Permutations(Proc) \cup Permutations(Cpu) \cup Permutations(Vpce)
            \cup Permutations(Ifindex) \cup Permutations(Tuple)
=============================================================================
