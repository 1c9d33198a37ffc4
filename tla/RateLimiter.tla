----------------------------- MODULE RateLimiter -----------------------------
(***************************************************************************)
(* WebhookRateLimitMiddleware (middleware.py) of one server process.       *)
(*                                                                         *)
(* A request here is a POST /webhooks/webex: dispatch passes on any other  *)
(* before it looks at the hits.  It has no await between reading and       *)
(* appending them, so one request's check is one action.  now is           *)
(* time.time(), taken not to run backwards; a hit carries the number of    *)
(* its request, so that hits of the same instant stay distinct, as the     *)
(* entries of the Python list do.                                          *)
(***************************************************************************)
EXTENDS Integers, FiniteSets

CONSTANTS
    Client,         \* request.client.host
    Limit,          \* RATE_LIMIT_PER_MINUTE; 0 installs no middleware
    Window,         \* the 60 seconds of window_start
    MaxTime,        \* bound on the clock
    MaxRequests     \* bound on requests

ASSUME LimitAssumption == Limit \in Nat \ {0}
ASSUME WindowAssumption == Window \in Nat
ASSUME RequestBounds == MaxTime \in Nat /\ MaxRequests \in Nat

VARIABLES
    now,            \* time.time()
    hits,           \* self._hits
    requests,       \* requests so far
    answer,         \* what the last webhook request got: "passed" or "429"
    admitted        \* history: every webhook request this process let through

vars == <<now, hits, requests, answer, admitted>>

Hit == [id : Nat, at : Nat]

Init ==
    /\ now = 0
    /\ hits = [c \in Client |-> {}]
    /\ requests = 0
    /\ answer = "none"
    /\ admitted = [c \in Client |-> {}]

Tick ==
    /\ now < MaxTime
    /\ now' = now + 1
    /\ UNCHANGED <<hits, requests, answer, admitted>>

\* Fault form: the window leaves out the hit exactly Window seconds old.
KeptOpenEnded(c) == {h \in hits[c] : h.at > now - Window}

\* self._hits[client] = [t for t in self._hits[client] if t >= window_start]
Kept(c) == {h \in hits[c] : h.at >= now - Window}

\* Fault form: the start of the window is appended in place of now.
ThisRequestAtStart == [id |-> requests, at |-> now - Window]

ThisRequest == [id |-> requests, at |-> now]

Count == requests < MaxRequests /\ requests' = requests + 1

\* POST /webhooks/webex below the limit: recorded, and passed on.
Admit(c) ==
    /\ Count
    /\ Cardinality(Kept(c)) < Limit
    /\ hits' = [hits EXCEPT ![c] = Kept(c) \cup {ThisRequest}]
    /\ admitted' = [admitted EXCEPT ![c] = @ \cup {ThisRequest}]
    /\ answer' = "passed"
    /\ UNCHANGED now

\* Fault form: refused requests are recorded too.
RejectRecorded(c) ==
    /\ Count
    /\ Cardinality(Kept(c)) >= Limit
    /\ hits' = [hits EXCEPT ![c] = Kept(c) \cup {ThisRequest}]
    /\ answer' = "429"
    /\ UNCHANGED <<now, admitted>>

\* POST /webhooks/webex at the limit: 429, not recorded.
Reject(c) ==
    /\ Count
    /\ Cardinality(Kept(c)) >= Limit
    /\ hits' = [hits EXCEPT ![c] = Kept(c)]
    /\ answer' = "429"
    /\ UNCHANGED <<now, admitted>>

\* A new process starts with no hits; the history is of this process.
Restart ==
    /\ hits' = [c \in Client |-> {}]
    /\ admitted' = [c \in Client |-> {}]
    /\ UNCHANGED <<now, requests, answer>>

Next ==
    \/ Tick
    \/ \E c \in Client : Admit(c) \/ Reject(c)
    \/ Restart

Spec == Init /\ [][Next]_vars

-----------------------------------------------------------------------------
(* Properties.                                                             *)

\* Every variable has its type.
TypeOK ==
    /\ now \in Nat
    /\ hits \in [Client -> SUBSET Hit]
    /\ requests \in Nat
    /\ answer \in {"none", "passed", "429"}
    /\ admitted \in [Client -> SUBSET Hit]

\* The requests of S in the closed window that request a opens.
InWindowOf(a, S) == {b \in S : a.at <= b.at /\ b.at <= a.at + Window}
Limited(S) == \A a \in S : Cardinality(InWindowOf(a, S)) <= Limit

\* No 60 seconds, wherever they begin, see more than Limit webhook requests of
\* one client pass, though the pruned list never shows more than the last 60.
WindowBound == \A c \in Client : Limited(admitted[c])

\* Pruning loses nothing that matters: every decision is the one a limiter
\* that remembers all requests would make.
SW == INSTANCE SlidingWindow WITH
    Client <- Client, Limit <- Limit, Window <- Window,
    now <- now, admitted <- admitted, answer <- answer
ImplementsSlidingWindow == SW!Spec
=============================================================================
