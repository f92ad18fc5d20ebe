------------------------------ MODULE MCProbes ------------------------------
(* Values of the CONSTANTS of Probes for TLC.                              *)
EXTENDS Probes, TLC

(* One thread of the target (process 10), one of process 20; a third tid,  *)
(* where there is one, is free.                                            *)
MC_InitTgid == [t \in Tid |-> CASE t = 1 -> 10 [] t = 2 -> 20 [] OTHER -> NoTgid]

(* The target's thread alone; the other tids are free.                     *)
MC_OneThread == [t \in Tid |-> IF t = 1 THEN 10 ELSE NoTgid]

(* No step depends on which CPU it happens on.                             *)
MC_Symmetry == Permutations(Cpu)
=============================================================================
