--------------------------- MODULE MCDataSources ----------------------------
(* One URL that everyone wants, and another that data sources move to.       *)
EXTENDS DataSources

CONSTANTS u1, u2

Asked == {m \in Request :
    \/ m.op = "create" /\ m.id = 1 /\ m.url = u1
    \/ m.op = "update" /\ <<m.id, m.url>> \in {<<1, u2>>, <<2, u1>>}
    \/ m.op = "delete" /\ m.id = 1 /\ m.url = u1
    \/ m.op \in {"get", "list"} /\ m.id = 2 /\ m.url = u2}
=============================================================================
