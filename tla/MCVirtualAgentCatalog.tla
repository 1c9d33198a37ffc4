----------------------- MODULE MCVirtualAgentCatalog -----------------------
(* The catalog on small instances; the seed file lists every agent there is *)
(* and marks one of them as the default.                                    *)
EXTENDS VirtualAgentCatalog, TLC

CONSTANT a1

SeedOfAll == [a \in Agent |-> IF a = a1 THEN "default" ELSE "plain"]

\* Terminals are interchangeable, and so are instances.
Symmetry == Permutations(Operator) \cup Permutations(Server)
=============================================================================
