---------------------------- MODULE MCStateTable ----------------------------
(* Instances of StateTable for TLC.                                          *)
EXTENDS StateTable, TLC

\* Safety only: tasks are interchangeable, and so are organizations.
Symmetry == Permutations(Task) \cup Permutations(Org)
=============================================================================
