---------------------------- MODULE SlidingWindow ----------------------------
(***************************************************************************)
(* What a webhook rate limiter promises: a client's request is let through *)
(* exactly when fewer than Limit of its requests were let through in the   *)
(* last Window seconds, counted over everything the process ever let       *)
(* through.  RateLimiter is shown to implement this.                       *)
(***************************************************************************)
EXTENDS Integers, FiniteSets

CONSTANTS Client, Limit, Window

VARIABLES now, admitted, answer

Recent(c) == {a \in admitted[c] : a.at >= now - Window}

Init ==
    /\ now = 0
    /\ admitted = [c \in Client |-> {}]
    /\ answer = "none"

Tick == now' = now + 1 /\ UNCHANGED <<admitted, answer>>

Admit(c) ==
    /\ Cardinality(Recent(c)) < Limit
    /\ \E a \in admitted'[c] \ admitted[c] :
         /\ a.at = now
         /\ admitted' = [admitted EXCEPT ![c] = @ \cup {a}]
    /\ answer' = "passed"
    /\ UNCHANGED now

Reject(c) ==
    /\ Cardinality(Recent(c)) >= Limit
    /\ answer' = "429"
    /\ UNCHANGED <<now, admitted>>

\* The process restarts and knows of no request.
Forget ==
    /\ admitted' = [c \in Client |-> {}]
    /\ UNCHANGED <<now, answer>>

Next == Tick \/ Forget \/ \E c \in Client : Admit(c) \/ Reject(c)

Spec == Init /\ [][Next]_<<now, admitted, answer>>
=============================================================================
