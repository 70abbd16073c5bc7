----------------------------- MODULE MCNetLink -----------------------------
(***************************************************************************)
(* Instances of NetLink for TLC: where each process runs, and how often    *)
(* its clients speak.                                                      *)
(***************************************************************************)
EXTENDS NetLink, TLC

CONSTANTS k1, k2, cpu1, cpu2

\* The first client shares a CPU with the loader, the second has its own.
MCCpuOf ==
  [p \in Procs |-> IF p = k2 THEN cpu2 ELSE cpu1]

\* Messages each client sends.
TwoOne == k1 :> 2 @@ k2 :> 1
Two == k1 :> 2
Three == k1 :> 3
=============================================================================
