------------------------- MODULE MCReleasePipeline -------------------------
(* Three releases: the first and the third change infra/, the second is an  *)
(* application change whose image never becomes healthy.                    *)
EXTENDS ReleasePipeline

Templates == [c \in Commit |-> IF c = 0 THEN 0 ELSE IF c < MaxRun THEN 1 ELSE 2]
SecondIsBroken == {c \in Run : c = 2}
AllAreBroken == Run
=============================================================================
