--------------------------- MODULE ConsentRegister ---------------------------
(***************************************************************************)
(* What customer-org authorization promises while Webex sends an org one   *)
(* delivery at a time, oldest first: the org's row is a register that each *)
(* consent change replaces as a whole or visibly tears, and a change is    *)
(* answered only while the row shows it.  A row shows a grant by a token   *)
(* issued at that change or later, and a revocation by having no token.    *)
(* A torn row claims nothing and is repaired by the next whole write.      *)
(***************************************************************************)
EXTENDS Naturals

CONSTANTS Org

VARIABLES
    consent,      \* the org's last change of consent: odd grants, even revokes
    due,          \* the changes neither answered nor abandoned
    abandoned,    \* the newest change was given up before it was answered
    serving,      \* the change at work, at most one
    token,        \* the change the org's token was issued in, 0 for no token
    torn,         \* a write of the row was cut half-way
    registered    \* data sources with the server's URL

vars == <<consent, due, abandoned, serving, token, torn, registered>>
rowVars == <<token, torn>>

Grant(n) == n % 2 = 1

Init ==
    /\ consent = [o \in Org |-> 0]
    /\ due = {}
    /\ abandoned = [o \in Org |-> FALSE]
    /\ serving = [o \in Org |-> {}]
    /\ token = [o \in Org |-> 0]
    /\ torn = [o \in Org |-> FALSE]
    /\ registered = [o \in Org |-> 0]

\* The row values that show change n of an org while change m is in force.
Showing(n, m) == IF Grant(n) THEN {k \in n .. m : Grant(k)} ELSE {0}
Shows(o, n) == ~torn[o] /\ token[o] \in Showing(n, consent[o])

Change(o) ==
    /\ consent' = [consent EXCEPT ![o] = @ + 1]
    /\ due' = due \cup {[org |-> o, epoch |-> consent[o] + 1]}
    /\ abandoned' = [abandoned EXCEPT ![o] = FALSE]
    /\ UNCHANGED <<serving, rowVars, registered>>

Abandon(d) ==
    /\ d \in due
    /\ due' = due \ {d}
    /\ abandoned' = [abandoned EXCEPT ![d.org] = @ \/ d.epoch = consent[d.org]]
    /\ UNCHANGED <<consent, serving, rowVars, registered>>

Serve(d) ==
    /\ d \in due
    /\ \A e \in due : e.org = d.org => d.epoch <= e.epoch
    /\ serving[d.org] = {}
    /\ serving' = [serving EXCEPT ![d.org] = {d.epoch}]
    /\ UNCHANGED <<consent, due, abandoned, rowVars, registered>>

\* The work ends without an answer: the change is due as before.
Leave(o) ==
    /\ serving[o] # {}
    /\ serving' = [serving EXCEPT ![o] = {}]
    /\ UNCHANGED <<consent, due, abandoned, rowVars, registered>>

Tear(o) ==
    /\ serving[o] # {}
    /\ torn' = [torn EXCEPT ![o] = TRUE]
    /\ token' = [token EXCEPT ![o] = 0]
    /\ UNCHANGED <<consent, due, abandoned, serving, registered>>

Write(o) == \E n \in serving[o] : \E k \in Showing(n, consent[o]) :
    /\ torn' = [torn EXCEPT ![o] = FALSE]
    /\ token' = [token EXCEPT ![o] = k]
    /\ UNCHANGED <<consent, due, abandoned, serving, registered>>

\* The URL is registered once, on the strength of the grant in force.
Register(o) == \E n \in serving[o] :
    /\ Grant(n) /\ Shows(o, n)
    /\ Grant(consent[o]) /\ token[o] = consent[o]
    /\ registered[o] = 0
    /\ registered' = [registered EXCEPT ![o] = 1]
    /\ UNCHANGED <<consent, due, abandoned, serving, rowVars>>

Answer(o) == \E n \in serving[o] :
    /\ Shows(o, n)
    /\ due' = due \ {[org |-> o, epoch |-> n]}
    /\ serving' = [serving EXCEPT ![o] = {}]
    /\ UNCHANGED <<consent, abandoned, rowVars, registered>>

Next ==
    \/ \E d \in due : Abandon(d) \/ Serve(d)
    \/ \E o \in Org : \/ Change(o) \/ Leave(o) \/ Tear(o) \/ Write(o)
                      \/ Register(o) \/ Answer(o)

Spec == Init /\ [][Next]_vars
=============================================================================
