-------------------------- MODULE IntegrationOAuth --------------------------
(***************************************************************************)
(* The integration's OAuth tokens: their bootstrap when an instance starts *)
(* (lifespan, bootstrap_integration), the OAuth callback that replaces     *)
(* them, the SDK's refresh of expired ones while an instance serves, the   *)
(* serviceApp webhooks, and GET /ready.                                    *)
(*                                                                         *)
(* A developer's n-th consent is grant n; a token is the grant it belongs  *)
(* to, 0 when there is none.  A Callback is a request task of one instance.*)
(* Each await on the table or on Webex is one step.                        *)
(***************************************************************************)
EXTENDS Naturals, FiniteSets

CONSTANTS
    Instance,       \* server instances
    Callback,       \* tasks that run handle_oauth_callback
    Host,           \* the instance each callback task runs in
    EnvGrant,       \* the grant of WEBEX_INTEGRATION_REFRESH_TOKEN, 0 if unset
    HasTarget,      \* WEBEX_WEBHOOK_TARGET_URL is set
    MaxGrants,      \* bound: consents
    MaxFaults       \* bound: outages, SDK errors, restarts and revocations

ASSUME ProcAssumption ==
    /\ IsFiniteSet(Instance) /\ IsFiniteSet(Callback)
    /\ Instance \cap Callback = {}
    /\ Host \in [Callback -> Instance]
ASSUME GrantAssumption == MaxGrants \in Nat /\ EnvGrant \in 0 .. MaxGrants
ASSUME BoundAssumption == MaxFaults \in Nat /\ HasTarget \in BOOLEAN

VARIABLES
    consents,           \* Webex: grants given so far
    redeemed,           \* Webex: grants whose authorization code was exchanged
    revoked,            \* Webex: grants withdrawn in the developer portal
    hooks,              \* Webex: registrations of each event for the target URL
    reachable,          \* DynamoDB answers
    stored,             \* table: the grant in INTEGRATION / CREDS
    pc,                 \* where each instance's startup and each callback is
    held,               \* the grant a process has in its hands; of an instance
                        \* that is up, the one its SDK has refreshed
    missing,            \* the events a process found without a webhook
    integration_ready,  \* app.state of each instance
    persistence_ready,  \* app.state of each instance
    answer,             \* each callback's last answer
    saved,              \* history: the callback stored its tokens
    authorized,         \* history: the grant the last callback to store one stored
    raced,              \* history: ... while an instance was about to store others
    faults

webexVars == <<consents, redeemed, revoked, hooks>>
readyVars == <<integration_ready, persistence_ready>>
callbackVars == <<answer, saved, authorized, raced>>
vars == <<consents, redeemed, revoked, hooks, reachable, stored, pc, held, missing,
          integration_ready, persistence_ready, answer, saved, authorized,
          raced, faults>>

Event == {"authorized", "deauthorized"}
Grant == 1 .. MaxGrants
Proc == Instance \cup Callback

Init ==
    /\ consents = EnvGrant
    /\ redeemed = 1 .. EnvGrant
    /\ revoked = {}
    /\ hooks = [e \in Event |-> 0]
    /\ reachable = TRUE
    /\ stored = 0
    /\ pc = [p \in Proc |-> IF p \in Instance THEN "down" ELSE "idle"]
    /\ held = [p \in Proc |-> 0]
    /\ missing = [p \in Proc |-> {}]
    /\ integration_ready = [i \in Instance |-> FALSE]
    /\ persistence_ready = [i \in Instance |-> FALSE]
    /\ answer = [c \in Callback |-> "none"]
    /\ saved = [c \in Callback |-> FALSE]
    /\ authorized = 0
    /\ raced = FALSE
    /\ faults = 0

Goto(p, label) == pc' = [pc EXCEPT ![p] = label]
Fault == faults < MaxFaults /\ faults' = faults + 1

\* A Webex call with the stored tokens is accepted.
Accepted == stored \notin revoked

\* What a process is about to put into the table, whatever becomes of it on the
\* way: a start without stored tokens is set on those of the environment.
Carried(p) ==
    CASE pc[p] = "refresh_env" -> {EnvGrant}
      [] pc[p] \in {"save", "persist"} -> {held[p]}
      [] pc[p] = "up" -> {held[p]} \ {0}
      [] OTHER -> {}

\* The flags of instance i are gone with its process.
Forget(i) ==
    /\ integration_ready' = [j \in Instance |-> j # i /\ integration_ready[j]]
    /\ persistence_ready' = [j \in Instance |-> j # i /\ persistence_ready[j]]

-----------------------------------------------------------------------------
(* Webex and DynamoDB.                                                     *)

\* A developer consents; Webex redirects the browser with a code.
Consent ==
    /\ consents < MaxGrants
    /\ consents' = consents + 1
    /\ UNCHANGED <<redeemed, revoked, hooks, reachable, stored, pc, held, missing,
                   readyVars, callbackVars, faults>>

Revoke(g) ==
    /\ g \in (1 .. consents) \ revoked
    /\ Fault
    /\ revoked' = revoked \cup {g}
    /\ UNCHANGED <<consents, redeemed, hooks, reachable, stored, pc, held, missing,
                   readyVars, callbackVars>>

Outage ==
    /\ reachable
    /\ Fault
    /\ reachable' = FALSE
    /\ UNCHANGED <<webexVars, stored, pc, held, missing, readyVars, callbackVars>>

Restore ==
    /\ ~reachable
    /\ reachable' = TRUE
    /\ UNCHANGED <<webexVars, stored, pc, held, missing, readyVars, callbackVars, faults>>

-----------------------------------------------------------------------------
(* ensure_service_app_webhooks_if_configured, from startup and callback.   *)

\* How a process ends in failure: an instance's startup raises, a callback
\* shows its failure page.
Fail(p) ==
    /\ Goto(p, IF p \in Instance THEN "down" ELSE "idle")
    /\ held' = [held EXCEPT ![p] = 0]
    /\ missing' = [missing EXCEPT ![p] = {}]
    /\ answer' = [c \in Callback |-> IF c = p THEN "failed" ELSE answer[c]]
    /\ Forget(p)
    /\ UNCHANGED <<saved, authorized, raced>>

\* Fault form: every event is created, whatever webhooks there are.
ListHooksIgnored(p) ==
    /\ pc[p] = "list"
    /\ Accepted
    /\ missing' = [missing EXCEPT ![p] = Event]
    /\ Goto(p, "create")
    /\ UNCHANGED <<webexVars, reachable, stored, held, readyVars, callbackVars, faults>>

\* List the webhooks there are.
ListHooks(p) ==
    /\ pc[p] = "list"
    /\ Accepted
    /\ missing' = [missing EXCEPT ![p] = {e \in Event : hooks[e] = 0}]
    /\ Goto(p, "create")
    /\ UNCHANGED <<webexVars, reachable, stored, held, readyVars, callbackVars, faults>>

\* Create one for each event that had none.
CreateHook(p, e) ==
    /\ pc[p] = "create"
    /\ Accepted
    /\ e \in missing[p]
    /\ hooks' = [hooks EXCEPT ![e] = @ + 1]
    /\ missing' = [missing EXCEPT ![p] = @ \ {e}]
    /\ UNCHANGED <<consents, redeemed, revoked, reachable, stored, pc, held,
                   readyVars, callbackVars, faults>>

\* Startup goes on to the table check; a callback answers 200.
HooksEnsured(p) ==
    /\ pc[p] = "create"
    /\ missing[p] = {}
    /\ Goto(p, IF p \in Instance THEN "check" ELSE "idle")
    /\ held' = [held EXCEPT ![p] = 0]
    /\ answer' = [c \in Callback |-> IF c = p THEN "ok" ELSE answer[c]]
    /\ UNCHANGED <<webexVars, reachable, stored, missing, readyVars, saved,
                   authorized, raced, faults>>

\* Fault form: startup logs the AuthenticationError and goes on.
HooksRefusedServes(p) ==
    /\ pc[p] \in {"list", "create"}
    /\ ~Accepted
    /\ IF p \in Instance
       THEN Goto(p, "check") /\ UNCHANGED <<held, missing, readyVars, callbackVars>>
       ELSE Fail(p)
    /\ UNCHANGED <<webexVars, reachable, stored, faults>>

\* Fault form: a callback has an outcome of its own for this failure.
HooksRefusedPartial(p) ==
    /\ pc[p] \in {"list", "create"}
    /\ ~Accepted
    /\ Goto(p, IF p \in Instance THEN "down" ELSE "idle")
    /\ held' = [held EXCEPT ![p] = 0]
    /\ missing' = [missing EXCEPT ![p] = {}]
    /\ answer' = [c \in Callback |-> IF c = p THEN "partial_failure" ELSE answer[c]]
    /\ Forget(p)
    /\ UNCHANGED <<webexVars, reachable, stored, saved, authorized, raced, faults>>

\* AuthenticationError: it ends the startup, and is a 502 to the callback.
HooksRefused(p) ==
    /\ pc[p] \in {"list", "create"}
    /\ ~Accepted
    /\ Fail(p)
    /\ UNCHANGED <<webexVars, reachable, stored, faults>>

\* Any other exception of an SDK call.
SdkError(p) ==
    /\ pc[p] \in {"refresh_stored", "refresh_env", "exchange", "list", "create"}
    /\ Fault
    /\ Fail(p)
    /\ UNCHANGED <<webexVars, reachable, stored>>

-----------------------------------------------------------------------------
(* lifespan and bootstrap_integration.                                     *)

\* Fault form: the environment first, then storage.
ReadCredsEnvFirst(i) ==
    /\ pc[i] = "down"
    /\ reachable
    /\ Goto(i, IF EnvGrant # 0 THEN "refresh_env"
               ELSE IF stored # 0 THEN "refresh_stored" ELSE "check")
    /\ UNCHANGED <<webexVars, reachable, stored, held, missing, readyVars,
                   callbackVars, faults>>

\* get_integration_tokens: storage first, then the environment.  The table not
\* answering ends the startup.
ReadCreds(i) ==
    /\ pc[i] = "down"
    /\ reachable
    /\ Goto(i, IF stored # 0 THEN "refresh_stored"
               ELSE IF EnvGrant # 0 THEN "refresh_env" ELSE "check")
    /\ UNCHANGED <<webexVars, reachable, stored, held, missing, readyVars,
                   callbackVars, faults>>

\* arefresh: Webex renews the grant; AuthenticationError leaves it not ready.
Refresh(i, g) ==
    /\ IF g \in revoked THEN Goto(i, "check") /\ UNCHANGED held
                        ELSE Goto(i, "save") /\ held' = [held EXCEPT ![i] = g]
    /\ UNCHANGED <<webexVars, reachable, stored, missing, readyVars, callbackVars, faults>>

RefreshStored(i) == pc[i] = "refresh_stored" /\ Refresh(i, stored)

RefreshEnv(i) == pc[i] = "refresh_env" /\ Refresh(i, EnvGrant)

\* Fault form: the renewed tokens are stored and the flag is not set.
SaveRefreshedUnready(i) ==
    /\ pc[i] = "save"
    /\ reachable
    /\ stored' = held[i]
    /\ Goto(i, IF HasTarget THEN "list" ELSE "check")
    /\ UNCHANGED <<webexVars, reachable, held, missing, readyVars, callbackVars, faults>>

\* arefresh ends with set_integration_tokens; the integration is ready.
SaveRefreshed(i) ==
    /\ pc[i] = "save"
    /\ reachable
    /\ stored' = held[i]
    /\ integration_ready' = [integration_ready EXCEPT ![i] = TRUE]
    /\ Goto(i, IF HasTarget THEN "list" ELSE "check")
    /\ UNCHANGED <<webexVars, reachable, held, missing, persistence_ready,
                   callbackVars, faults>>

\* check_table_reachable, the last step before the instance serves.
CheckTable(i) ==
    /\ pc[i] = "check"
    /\ persistence_ready' = [persistence_ready EXCEPT ![i] = reachable]
    /\ Goto(i, "up")
    /\ held' = [held EXCEPT ![i] = 0]
    /\ UNCHANGED <<webexVars, reachable, stored, missing, integration_ready,
                   callbackVars, faults>>

\* The instance stops or dies, with the callbacks it was running.
Stop(i) ==
    /\ pc[i] # "down"
    /\ Fault
    /\ pc' = [p \in Proc |-> IF p = i THEN "down"
                ELSE IF p \in Callback /\ Host[p] = i THEN "idle" ELSE pc[p]]
    /\ held' = [p \in Proc |-> IF pc'[p] \in {"down", "idle"} THEN 0 ELSE held[p]]
    /\ missing' = [p \in Proc |-> IF pc'[p] \in {"down", "idle"} THEN {} ELSE missing[p]]
    /\ Forget(i)
    /\ UNCHANGED <<webexVars, reachable, stored, callbackVars>>

-----------------------------------------------------------------------------
(* A Webex call of an instance that serves, with tokens that have expired. *)

otherVars == <<webexVars, reachable, pc, missing, readyVars, callbackVars, faults>>

\* The SDK reads the stored tokens and Webex renews their grant.
Renew(i) ==
    /\ pc[i] = "up" /\ held[i] = 0
    /\ reachable /\ stored # 0 /\ Accepted
    /\ held' = [held EXCEPT ![i] = stored]
    /\ UNCHANGED <<otherVars, stored>>

\* It stores them by set_integration_tokens, whatever is stored by now.
StoreRenewed(i) ==
    /\ pc[i] = "up" /\ held[i] # 0
    /\ reachable
    /\ stored' = held[i]
    /\ held' = [held EXCEPT ![i] = 0]
    /\ UNCHANGED otherVars

\* The table does not answer: the call that needed the tokens fails.
RenewalLost(i) ==
    /\ pc[i] = "up" /\ held[i] # 0
    /\ ~reachable
    /\ held' = [held EXCEPT ![i] = 0]
    /\ UNCHANGED <<otherVars, stored>>

-----------------------------------------------------------------------------
(* handle_oauth_callback.  A redirect without a code, or with an error or  *)
(* an empty state, is answered 400 and changes nothing.                    *)

Redirect(c, g) ==
    /\ pc[c] = "idle"
    /\ pc[Host[c]] = "up"
    /\ g \in (EnvGrant + 1) .. consents
    /\ Goto(c, "exchange")
    /\ held' = [held EXCEPT ![c] = g]
    /\ answer' = [answer EXCEPT ![c] = "none"]
    /\ saved' = [saved EXCEPT ![c] = FALSE]
    /\ UNCHANGED <<webexVars, reachable, stored, missing, readyVars, authorized, raced,
                   faults>>

\* aexchange_code: a code works once.
Exchange(c) ==
    /\ pc[c] = "exchange"
    /\ held[c] \notin redeemed
    /\ redeemed' = redeemed \cup {held[c]}
    /\ Goto(c, "persist")
    /\ UNCHANGED <<consents, revoked, hooks, reachable, stored, held, missing,
                   readyVars, callbackVars, faults>>

ExchangeRefused(c) ==
    /\ pc[c] = "exchange"
    /\ held[c] \in redeemed
    /\ Fail(c)
    /\ UNCHANGED <<webexVars, reachable, stored, faults>>

\* set_integration_tokens.
Persist(c) ==
    /\ pc[c] = "persist"
    /\ reachable
    /\ stored' = held[c]
    /\ saved' = [saved EXCEPT ![c] = TRUE]
    /\ authorized' = held[c]
    /\ raced' = \E i \in Instance : Carried(i) # {}
    /\ IF HasTarget
       THEN Goto(c, "list") /\ UNCHANGED <<held, answer>>
       ELSE /\ Goto(c, "idle")
            /\ held' = [held EXCEPT ![c] = 0]
            /\ answer' = [answer EXCEPT ![c] = "ok"]
    /\ UNCHANGED <<webexVars, reachable, missing, readyVars, faults>>

\* Fault form: a callback that cannot store its tokens goes on.
TableErrorIgnored(p) ==
    /\ pc[p] \in {"persist", "save"}
    /\ ~reachable
    /\ IF p \in Callback
       THEN Goto(p, "list") /\ UNCHANGED <<held, missing, readyVars, callbackVars>>
       ELSE Fail(p)
    /\ UNCHANGED <<webexVars, reachable, stored, faults>>

\* The table does not answer: a callback fails (502), a startup raises.
TableError(p) ==
    /\ pc[p] \in {"persist", "save"}
    /\ ~reachable
    /\ Fail(p)
    /\ UNCHANGED <<webexVars, reachable, stored, faults>>

-----------------------------------------------------------------------------

Ensure(p) ==
    \/ ListHooks(p) \/ HooksEnsured(p) \/ HooksRefused(p)
    \/ \E e \in Event : CreateHook(p, e)

Startup(i) ==
    \/ ReadCreds(i) \/ RefreshStored(i) \/ RefreshEnv(i) \/ SaveRefreshed(i)
    \/ CheckTable(i) \/ Ensure(i) \/ TableError(i)

Expiry(i) == Renew(i) \/ StoreRenewed(i) \/ RenewalLost(i)

Handle(c) ==
    Exchange(c) \/ ExchangeRefused(c) \/ Persist(c) \/ Ensure(c) \/ TableError(c)

Next ==
    \/ Consent \/ Outage \/ Restore
    \/ \E g \in Grant : Revoke(g)
    \/ \E i \in Instance : Startup(i) \/ Stop(i) \/ Expiry(i)
    \/ \E c \in Callback : Handle(c) \/ \E g \in Grant : Redirect(c, g)
    \/ \E p \in Proc : SdkError(p)

Spec == Init /\ [][Next]_vars

(* Fairness: the service scheduler starts what is down, running tasks go   *)
(* on (every await has a timeout), an outage ends.  Nobody has to consent, *)
(* to be redirected or to restart an instance that is up, and no token has *)
(* to expire.                                                              *)
Fairness ==
    /\ WF_vars(Restore)
    /\ \A i \in Instance : WF_vars(Startup(i))
    /\ \A c \in Callback : WF_vars(Handle(c))

FairSpec == Spec /\ Fairness

-----------------------------------------------------------------------------
(* Properties.                                                             *)

PC == {"down", "refresh_stored", "refresh_env", "save", "check", "up",
       "idle", "exchange", "persist", "list", "create"}

\* Every variable has its type.
TypeOK ==
    /\ consents \in 0 .. MaxGrants
    /\ redeemed \subseteq 0 .. MaxGrants
    /\ revoked \subseteq Grant
    /\ hooks \in [Event -> Nat]
    /\ reachable \in BOOLEAN
    /\ stored \in 0 .. MaxGrants
    /\ pc \in [Proc -> PC]
    /\ held \in [Proc -> 0 .. MaxGrants]
    /\ missing \in [Proc -> SUBSET Event]
    /\ integration_ready \in [Instance -> BOOLEAN]
    /\ persistence_ready \in [Instance -> BOOLEAN]
    /\ answer \in [Callback -> {"none", "ok", "failed"}]
    /\ saved \in [Callback -> BOOLEAN]
    /\ authorized \in 0 .. MaxGrants
    /\ raced \in BOOLEAN
    /\ faults \in 0 .. MaxFaults

\* What GET /ready answers 200 to.
Ready(i) == pc[i] = "up" /\ integration_ready[i] /\ persistence_ready[i]

Hooked == \A e \in Event : hooks[e] > 0

\* An instance that reports itself ready has integration tokens in storage and
\* both serviceApp webhooks registered, whoever registered them and whatever
\* was cut short between the two.
ReadyIsBacked == \A i \in Instance : Ready(i) => stored # 0 /\ (HasTarget => Hooked)

\* A callback that answers success has left tokens stored and both webhooks.
SuccessIsComplete ==
    \A c \in Callback : answer[c] = "ok" => saved[c] /\ stored # 0 /\ (HasTarget => Hooked)

\* The tokens of a re-authorization stay in the table through every restart, and
\* every refresh by a start or by an instance that serves, unless they were put
\* while an instance had older ones in its hands and was about to put those.
ReauthorizationStays == authorized # 0 /\ ~raced => stored = authorized

\* However many startups and callbacks ensure the webhooks at once, each event
\* is registered at most once for each of them.
HooksBounded ==
    \A e \in Event :
        hooks[e] + Cardinality({p \in Proc : pc[p] = "create" /\ e \in missing[p]})
            <= Cardinality(Proc)

Cell == INSTANCE TokenCell WITH
    cell <- stored, used <- redeemed,
    carried <- [p \in Proc |-> Carried(p)],
    put <- {c \in Callback : saved[c]},
    hooked <- {e \in Event : hooks[e] > 0},
    ready <- {i \in Instance : Ready(i)},
    succeeded <- {c \in Callback : answer[c] = "ok"}

\* However starts, refreshes and callbacks interleave, fail and are stopped, the
\* tokens are one cell that is never emptied: a code fills it once, an instance
\* puts back only what it found, and ready and success are told of a complete
\* integration.
ImplementsTokenCell == Cell!Spec

\* The one table check of instance i, before it served, met an outage: GET /ready
\* answers 503 until the instance is restarted.
Unready(i) == pc[i] = "up" /\ ~persistence_ready[i]

\* An instance that is down comes to serve, through outages, errors, restarts and
\* withdrawn grants.  If a grant in force is stored when it starts it comes to
\* serve and to answer 200 on /ready, unless that grant is withdrawn, or the
\* table was out at its one check.
StoredMakesReady ==
    \A i \in Instance :
        /\ pc[i] = "down" ~> pc[i] = "up"
        /\ (pc[i] = "down" /\ stored # 0 /\ Accepted)
               ~> (Ready(i) \/ Unready(i) \/ ~Accepted)
=============================================================================
