----------------------------- MODULE MCRunQueue -----------------------------
(* Instances of RunQueue for TLC.                                          *)
EXTENDS RunQueue, TLC

\* Keys and workers are interchangeable, and so are the well-formed items.
Symmetry == Permutations(Keys) \cup Permutations(Workers)
              \cup Permutations(Items \ (Blank \cup Corrupt))
=============================================================================
