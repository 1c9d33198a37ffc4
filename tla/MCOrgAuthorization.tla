------------------------- MODULE MCOrgAuthorization -------------------------
(* Instances of OrgAuthorization for TLC.                                  *)
EXTENDS OrgAuthorization, TLC

\* Tasks are interchangeable; organizations too.  Used in safety runs only.
Symmetry == Permutations(Task) \cup Permutations(Org)
=============================================================================
