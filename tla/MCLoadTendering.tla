-------------------------- MODULE MCLoadTendering --------------------------
(* Instances of LoadTendering for TLC.                                     *)
EXTENDS LoadTendering, TLC

\* An LTL load, and FTL loads that two or three carriers may be asked to take.
AllLoads == {[type |-> "LTL", carriers |-> 1], [type |-> "FTL", carriers |-> 2],
             [type |-> "FTL", carriers |-> 3]}

TwoCarriers == {[type |-> "FTL", carriers |-> 2]}

\* Threads are told apart by nothing but the mails on them.
Symmetry == Permutations(Threads)
=============================================================================
