------------------------------ MODULE TokenCell ------------------------------
(***************************************************************************)
(* What the bootstrap, the OAuth callback and the webhook ensure promise   *)
(* together.  The integration's tokens are one cell, filled for good once  *)
(* it is.  A callback puts a grant whose code it has exchanged, which      *)
(* works once.  An instance, starting or refreshing, puts back the grant   *)
(* it found: the cell's, or the environment's when the cell was empty.     *)
(* Only with the cell full, and the webhooks registered, is an instance    *)
(* ready, or a callback with its own grant put a success.                  *)
(*                                                                         *)
(* It does not promise that what an instance found is still in the cell    *)
(* when it is put back: a re-authorization in between is overwritten.      *)
(***************************************************************************)
EXTENDS Naturals

CONSTANTS Instance, Callback, Event, Grant, EnvGrant, HasTarget

VARIABLES
    cell,         \* the grant in the cell, 0 while it has never been filled
    used,         \* grants whose code has been exchanged
    carried,      \* the grant an instance or a callback is about to put
    put,          \* callbacks that have put theirs
    hooked,       \* events with a webhook
    ready,        \* instances that report themselves ready
    succeeded     \* callbacks whose last answer is success

vars == <<cell, used, carried, put, hooked, ready, succeeded>>

Proc == Instance \cup Callback

Init ==
    /\ cell = 0
    /\ used = 1 .. EnvGrant
    /\ carried = [p \in Proc |-> {}]
    /\ put = {}
    /\ hooked = {}
    /\ ready = {}
    /\ succeeded = {}

Complete == cell # 0 /\ (HasTarget => hooked = Event)

\* An instance finds the grant it will put back.
Find(i) ==
    /\ carried[i] = {}
    /\ carried' = [carried EXCEPT ![i] = IF cell # 0 THEN {cell} ELSE {EnvGrant} \ {0}]
    /\ UNCHANGED <<cell, used, put, hooked, ready, succeeded>>

Ask(c) ==
    /\ put' = put \ {c}
    /\ succeeded' = succeeded \ {c}
    /\ UNCHANGED <<cell, used, carried, hooked, ready>>

Redeem(c) ==
    /\ carried[c] = {}
    /\ \E g \in Grant \ used :
         /\ used' = used \cup {g}
         /\ carried' = [carried EXCEPT ![c] = {g}]
    /\ UNCHANGED <<cell, put, hooked, ready, succeeded>>

\* A callback has nothing left to do when no webhooks are asked for.
Put(p) ==
    /\ \E g \in carried[p] : cell' = g
    /\ carried' = [carried EXCEPT ![p] = {}]
    /\ put' = put \cup ({p} \cap Callback)
    /\ succeeded' = IF HasTarget THEN succeeded ELSE succeeded \cup ({p} \cap Callback)
    /\ UNCHANGED <<used, hooked, ready>>

Hook(e) ==
    /\ cell # 0
    /\ hooked' = hooked \cup {e}
    /\ UNCHANGED <<cell, used, carried, put, ready, succeeded>>

Report(i) ==
    /\ Complete
    /\ ready' = ready \cup {i}
    /\ UNCHANGED <<cell, used, carried, put, hooked, succeeded>>

Succeed(c) ==
    /\ c \in put /\ Complete
    /\ succeeded' = succeeded \cup {c}
    /\ UNCHANGED <<cell, used, carried, put, hooked, ready>>

\* A refusal, an error or a stop: what was carried is lost, and no more.
Lose ==
    /\ carried' = [p \in Proc |-> carried'[p]]
    /\ \A p \in Proc : carried'[p] \in {{}, carried[p]}
    /\ ready' \subseteq ready
    /\ succeeded' \subseteq succeeded
    /\ UNCHANGED <<cell, used, put, hooked>>

Next ==
    \/ \E i \in Instance : Find(i) \/ Report(i)
    \/ \E c \in Callback : Ask(c) \/ Redeem(c) \/ Succeed(c)
    \/ \E p \in Proc : Put(p)
    \/ \E e \in Event : Hook(e)
    \/ Lose

Spec == Init /\ [][Next]_vars
=============================================================================
