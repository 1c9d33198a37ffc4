------------------------- MODULE MCIntegrationOAuth -------------------------
(* Integration OAuth on one or two instances with a callback task each.     *)
EXTENDS IntegrationOAuth

CONSTANTS i1, c1

\* The first callback task runs in the first instance, any other elsewhere.
HostOf == [c \in Callback |-> IF c = c1 \/ Instance = {i1} THEN i1
                              ELSE CHOOSE i \in Instance \ {i1} : TRUE]
=============================================================================
