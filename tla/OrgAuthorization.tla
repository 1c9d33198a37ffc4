-------------------------- MODULE OrgAuthorization --------------------------
(***************************************************************************)
(* Customer-org authorization: POST /webhooks/webex, the token storage and *)
(* org profile it writes, and the data source it registers on the way.     *)
(*                                                                         *)
(* A Task is one in-flight run of webex_webhook (routes.py), on any        *)
(* instance.  Every await of that run is one step, so two deliveries for   *)
(* one org interleave between any two table writes.  An administrator's    *)
(* n-th change of consent is epoch n: odd epochs grant, even ones revoke.  *)
(* A stored token is the epoch it was issued in, 0 when there is no item.  *)
(***************************************************************************)
EXTENDS Naturals, FiniteSets

CONSTANTS
    Org,            \* customer organizations
    Task,           \* request tasks, over all instances
    MaxEpoch,       \* bound: consent changes of one org
    MaxFaults,      \* bound: storage, SDK and audit failures, and crashes
    AutoRegister,   \* WEBEX_AUTO_REGISTER_DATASOURCE and a usable URL
    Serial          \* Webex sends an org one delivery at a time, oldest first

ASSUME TaskAssumption == IsFiniteSet(Task)
ASSUME BoundAssumption == MaxEpoch \in Nat /\ MaxFaults \in Nat
ASSUME FlagAssumption == AutoRegister \in BOOLEAN /\ Serial \in BOOLEAN

VARIABLES
    epoch,          \* Webex: the org's last consent change
    outstanding,    \* Webex: deliveries not yet answered with a 2xx
    sources,        \* Webex: the org's data sources that have the server's URL
    creds,          \* table: ORG#o / CREDS, the epoch of the token, 0 if absent
    profile,        \* table: ORG#o / PROFILE, its authorization_state
    pc,             \* where each task is
    delivery,       \* what each task is handling
    token,          \* the token each task fetched
    faults,         \* failures so far
    settled,        \* history: the org's last finished write pair ran alone
    alone,          \* history: no other pair overlapped this task's pair
    lost            \* history: Webex gave up on the org's newest event

webexVars == <<epoch, outstanding, sources, lost>>
tableVars == <<creds, profile, settled, alone>>
taskVars  == <<pc, delivery, token>>
vars == <<epoch, outstanding, sources, creds, profile, pc, delivery, token,
          faults, settled, alone, lost>>

Delivery == [org : Org, epoch : 1 .. MaxEpoch]
NoDelivery == [org |-> "none", epoch |-> 0]

\* The event a delivery carries ("authorized" or "deauthorized").
Grants(d) == d.epoch % 2 = 1
Consented(o) == epoch[o] % 2 = 1

Busy(t) == pc[t] # "idle"
On(t, o) == Busy(t) /\ delivery[t].org = o

\* Between the CREDS write of a token-storage call and its PROFILE write.
Between(t) == pc[t] \in {"put_authorized", "put_deauthorized"}
PairOpen(t, o) == Between(t) /\ delivery[t].org = o
Stored(o) == creds[o] # 0
PairAgrees(o) == Stored(o) <=> profile[o] = "authorized"

Init ==
    /\ epoch = [o \in Org |-> 0]
    /\ outstanding = {}
    /\ sources = [o \in Org |-> 0]
    /\ creds = [o \in Org |-> 0]
    /\ profile = [o \in Org |-> "none"]
    /\ pc = [t \in Task |-> "idle"]
    /\ delivery = [t \in Task |-> NoDelivery]
    /\ token = [t \in Task |-> 0]
    /\ faults = 0
    /\ settled = [o \in Org |-> TRUE]
    /\ alone = [t \in Task |-> FALSE]
    /\ lost = [o \in Org |-> FALSE]

-----------------------------------------------------------------------------
(* Webex.                                                                  *)

\* A customer administrator grants or revokes consent in Control Hub.
ChangeConsent(o) ==
    /\ epoch[o] < MaxEpoch
    /\ epoch' = [epoch EXCEPT ![o] = @ + 1]
    /\ outstanding' = outstanding \cup {[org |-> o, epoch |-> epoch[o] + 1]}
    /\ lost' = [lost EXCEPT ![o] = FALSE]
    /\ UNCHANGED <<sources, tableVars, taskVars, faults>>

\* Webex stops retrying a delivery that was never answered with a 2xx.
GiveUp(d) ==
    /\ d \in outstanding
    /\ outstanding' = outstanding \ {d}
    /\ lost' = [lost EXCEPT ![d.org] = @ \/ d.epoch = epoch[d.org]]
    /\ UNCHANGED <<epoch, sources, tableVars, taskVars, faults>>

\* What Serial asks of Webex; without it deliveries repeat, overlap, overtake.
InTurn(d) ==
    /\ \A e \in outstanding : e.org = d.org => d.epoch <= e.epoch
    /\ \A u \in Task : ~On(u, d.org)

-----------------------------------------------------------------------------
(* webex_webhook.                                                          *)

Goto(t, label) == pc' = [pc EXCEPT ![t] = label]
Fault == faults < MaxFaults /\ faults' = faults + 1

\* The request enters the handler; the SDK dispatches on the event.
Receive(t, d) ==
    /\ pc[t] = "idle"
    /\ d \in outstanding
    /\ Serial => InTurn(d)
    /\ Goto(t, IF Grants(d) THEN "fetch" ELSE "delete_creds")
    /\ delivery' = [delivery EXCEPT ![t] = d]
    /\ token' = [token EXCEPT ![t] = 0]
    /\ UNCHANGED <<webexVars, tableVars, faults>>

\* The task ends with no 2xx: the delivery stays with Webex.
Unacknowledged(t) ==
    /\ Goto(t, "idle")
    /\ delivery' = [delivery EXCEPT ![t] = NoDelivery]
    /\ token' = [token EXCEPT ![t] = 0]
    /\ UNCHANGED webexVars

\* Fault form: the handler answers 200 although processing raised.
ServerErrorAnswersOk(t) ==
    /\ pc[t] \in {"fetch", "put_creds", "put_authorized", "delete_creds",
                  "put_deauthorized"}
    /\ Fault
    /\ Goto(t, "ack")
    /\ UNCHANGED <<webexVars, tableVars, delivery, token>>

\* Any exception but the two the handler names: 500, no audit record.
ServerError(t) ==
    /\ pc[t] \in {"fetch", "put_creds", "put_authorized", "delete_creds",
                  "put_deauthorized"}
    /\ Fault
    /\ Unacknowledged(t)
    /\ UNCHANGED tableVars

\* The SDK fetches the org's token with the integration's own.
FetchOrgToken(t) ==
    /\ pc[t] = "fetch"
    /\ Consented(delivery[t].org)
    /\ token' = [token EXCEPT ![t] = epoch[delivery[t].org]]
    /\ Goto(t, "put_creds")
    /\ UNCHANGED <<webexVars, tableVars, delivery, faults>>

\* Webex refuses the token of an org that has revoked its consent.
FetchRefused(t) ==
    /\ pc[t] = "fetch"
    /\ ~Consented(delivery[t].org)
    /\ \/ Goto(t, "audit_failure") /\ UNCHANGED <<webexVars, delivery, token>>
       \/ Unacknowledged(t)
    /\ UNCHANGED <<tableVars, faults>>

\* AuthenticationError: no usable integration token.
NotAuthenticated(t) ==
    /\ pc[t] = "fetch"
    /\ Fault
    /\ Goto(t, "audit_failure")
    /\ UNCHANGED <<webexVars, tableVars, delivery, token>>

\* Fault form: an authentication failure is answered with 200, not 503.
AuditFailureAnswersOk(t) ==
    /\ pc[t] = "audit_failure"
    /\ Goto(t, "ack")
    /\ UNCHANGED <<webexVars, tableVars, delivery, token, faults>>

\* _record_audit of the processing failure (its own failure is swallowed), 503.
AuditFailure(t) ==
    /\ pc[t] = "audit_failure"
    /\ Unacknowledged(t)
    /\ UNCHANGED <<tableVars, faults>>

\* History: the pair that task t begins, against the pairs already open.
OpenPair(t) ==
    LET o == delivery[t].org
    IN  /\ alone' = [u \in Task |->
                       IF u = t THEN \A v \in Task \ {t} : ~PairOpen(v, o)
                                ELSE alone[u] /\ ~PairOpen(u, o)]
        /\ settled' = [settled EXCEPT ![o] = FALSE]

\* set_service_app_tokens: put ORG#o / CREDS ...
PutCreds(t) ==
    /\ pc[t] = "put_creds"
    /\ creds' = [creds EXCEPT ![delivery[t].org] = token[t]]
    /\ OpenPair(t)
    /\ Goto(t, "put_authorized")
    /\ UNCHANGED <<webexVars, profile, delivery, token, faults>>

\* Fault form: a failed upsert_authorized is swallowed.
PutAuthorizedSwallows(t) ==
    /\ pc[t] = "put_authorized"
    /\ \/ profile' = [profile EXCEPT ![delivery[t].org] = "authorized"] /\ UNCHANGED faults
       \/ Fault /\ UNCHANGED profile
    /\ settled' = [settled EXCEPT ![delivery[t].org] = alone[t]]
    /\ Goto(t, IF AutoRegister THEN "check_url" ELSE "audit")
    /\ UNCHANGED <<webexVars, creds, alone, delivery, token>>

\* ... then upsert_authorized.
PutAuthorized(t) ==
    /\ pc[t] = "put_authorized"
    /\ profile' = [profile EXCEPT ![delivery[t].org] = "authorized"]
    /\ settled' = [settled EXCEPT ![delivery[t].org] = alone[t]]
    /\ Goto(t, IF AutoRegister THEN "check_url" ELSE "audit")
    /\ UNCHANGED <<webexVars, creds, alone, delivery, token, faults>>

\* delete_service_app_tokens: delete ORG#o / CREDS ...
DeleteCreds(t) ==
    /\ pc[t] = "delete_creds"
    /\ creds' = [creds EXCEPT ![delivery[t].org] = 0]
    /\ OpenPair(t)
    /\ Goto(t, "put_deauthorized")
    /\ UNCHANGED <<webexVars, profile, delivery, token, faults>>

\* Fault form: the profile is left as it was when the credentials go.
PutDeauthorizedForgets(t) ==
    /\ pc[t] = "put_deauthorized"
    /\ settled' = [settled EXCEPT ![delivery[t].org] = alone[t]]
    /\ Goto(t, "audit")
    /\ UNCHANGED <<webexVars, creds, profile, alone, delivery, token, faults>>

\* Fault form: the profile gets a state AuthorizationState does not have.
PutDeauthorizedMistypes(t) ==
    /\ pc[t] = "put_deauthorized"
    /\ profile' = [profile EXCEPT ![delivery[t].org] = "deleted"]
    /\ settled' = [settled EXCEPT ![delivery[t].org] = alone[t]]
    /\ Goto(t, "audit")
    /\ UNCHANGED <<webexVars, creds, alone, delivery, token, faults>>

\* ... then mark_deauthorized.
PutDeauthorized(t) ==
    /\ pc[t] = "put_deauthorized"
    /\ profile' = [profile EXCEPT ![delivery[t].org] = "deauthorized"]
    /\ settled' = [settled EXCEPT ![delivery[t].org] = alone[t]]
    /\ Goto(t, "audit")
    /\ UNCHANGED <<webexVars, creds, alone, delivery, token, faults>>

\* A data source call works with the stored token while Webex accepts it.
ClientUsable(o) == Consented(o) /\ creds[o] = epoch[o]

\* Fault form: the URL is registered without looking for it.
CheckUrlSkipped(t) ==
    /\ pc[t] = "check_url"
    /\ ClientUsable(delivery[t].org)
    /\ Goto(t, "create")
    /\ UNCHANGED <<webexVars, tableVars, delivery, token, faults>>

\* auto_register_for_org: url_exists, over the org's list.
CheckUrl(t) ==
    /\ pc[t] = "check_url"
    /\ ClientUsable(delivery[t].org)
    /\ Goto(t, IF sources[delivery[t].org] > 0 THEN "audit" ELSE "create")
    /\ UNCHANGED <<webexVars, tableVars, delivery, token, faults>>

\* create_data_source, with the duplicate check skipped.
CreateSource(t) ==
    /\ pc[t] = "create"
    /\ ClientUsable(delivery[t].org)
    /\ sources' = [sources EXCEPT ![delivery[t].org] = @ + 1]
    /\ Goto(t, "audit")
    /\ UNCHANGED <<epoch, outstanding, lost, tableVars, delivery, token, faults>>

\* register_datasource_for_org swallows every exception and returns.
RegisterFailed(t) ==
    /\ pc[t] \in {"check_url", "create"}
    /\ \/ ~ClientUsable(delivery[t].org) /\ UNCHANGED faults
       \/ Fault
    /\ Goto(t, "audit")
    /\ UNCHANGED <<webexVars, tableVars, delivery, token>>

\* _record_audit: written or failed, the handler goes on.
RecordAudit(t) ==
    /\ pc[t] = "audit"
    /\ Goto(t, "ack")
    /\ UNCHANGED <<webexVars, tableVars, delivery, token, faults>>

\* return {"status": "ok", ...}: Webex takes the delivery off its list.
Acknowledge(t) ==
    /\ pc[t] = "ack"
    /\ outstanding' = outstanding \ {delivery[t]}
    /\ Goto(t, "idle")
    /\ delivery' = [delivery EXCEPT ![t] = NoDelivery]
    /\ token' = [token EXCEPT ![t] = 0]
    /\ UNCHANGED <<epoch, sources, lost, tableVars, faults>>

\* The instance dies, or the answer does not reach Webex.
Crash(t) ==
    /\ Busy(t)
    /\ Fault
    /\ Unacknowledged(t)
    /\ UNCHANGED tableVars

-----------------------------------------------------------------------------

\* The steps a task takes by itself.
Step(t) ==
    \/ FetchOrgToken(t) \/ FetchRefused(t) \/ AuditFailure(t)
    \/ PutCreds(t) \/ PutAuthorized(t) \/ DeleteCreds(t) \/ PutDeauthorized(t)
    \/ CheckUrl(t) \/ CreateSource(t) \/ RegisterFailed(t)
    \/ RecordAudit(t) \/ Acknowledge(t)

Next ==
    \/ \E o \in Org : ChangeConsent(o)
    \/ \E d \in outstanding : GiveUp(d)
    \/ \E t \in Task, d \in outstanding : Receive(t, d)
    \/ \E t \in Task : Step(t) \/ ServerError(t) \/ NotAuthenticated(t) \/ Crash(t)

Spec == Init /\ [][Next]_vars

(* Fairness: a request that is running goes on running (asyncio and the    *)
(* SDK's timeouts), Webex retries what is due and drops what it superseded.*)
Fairness ==
    /\ \A t \in Task : WF_vars(Step(t))
    /\ \A d \in Delivery : WF_vars(\E t \in Task : Receive(t, d))
    /\ \A d \in Delivery : WF_vars(d.epoch < epoch[d.org] /\ GiveUp(d))

FairSpec == Spec /\ Fairness

-----------------------------------------------------------------------------
(* Properties.                                                             *)

PC == {"idle", "fetch", "put_creds", "put_authorized", "delete_creds",
       "put_deauthorized", "check_url", "create", "audit", "ack",
       "audit_failure"}

\* Every variable has its type.
TypeOK ==
    /\ epoch \in [Org -> 0 .. MaxEpoch]
    /\ outstanding \subseteq Delivery
    /\ sources \in [Org -> Nat]
    /\ creds \in [Org -> 0 .. MaxEpoch]
    /\ profile \in [Org -> {"none", "authorized", "deauthorized"}]
    /\ pc \in [Task -> PC]
    /\ delivery \in [Task -> Delivery \cup {NoDelivery}]
    /\ token \in [Task -> 0 .. MaxEpoch]
    /\ faults \in 0 .. MaxFaults
    /\ settled \in [Org -> BOOLEAN]
    /\ alone \in [Task -> BOOLEAN]
    /\ lost \in [Org -> BOOLEAN]

\* A set or delete of an org's tokens that no other one overlapped leaves CREDS
\* and PROFILE agreeing, whatever earlier overlaps, failures and crashes left.
SettledPairAgrees == \A o \in Org : settled[o] => PairAgrees(o)

\* The tasks that found no data source with the URL and are about to create one.
Creating(o) == {t \in Task : On(t, o) /\ pc[t] = "create"}

\* However many authorized deliveries overlap, the check before the create lets
\* through at most one create for each request running at once.
SourcesBounded ==
    \A o \in Org : sources[o] + Cardinality(Creating(o)) <= Cardinality(Task)

\* Duplicate and retried authorized deliveries register the URL once, as long
\* as Webex does not overlap an org's deliveries.
OneSourceWhenSerial == Serial => \A o \in Org : sources[o] <= 1

\* A task about to answer 200 has its event's effect in the table: an
\* authorized org has tokens and profile, a deauthorized one neither.
Applied(t) ==
    LET o == delivery[t].org
    IN  IF Grants(delivery[t])
        THEN Stored(o) /\ profile[o] = "authorized"
        ELSE ~Stored(o) /\ profile[o] = "deauthorized"
AcknowledgedIsApplied ==
    Serial => \A t \in Task :
                pc[t] \in {"check_url", "create", "audit", "ack"} => Applied(t)

Quiet(o) == (\A d \in outstanding : d.org # o) /\ (\A t \in Task : ~On(t, o))
InSync(o) ==
    /\ creds[o] = IF Consented(o) THEN epoch[o] ELSE 0
    /\ PairAgrees(o)

\* When an org's deliveries come in turn and its newest one was not abandoned,
\* the table ends up holding exactly the consent now in force, through
\* failures between the two writes, crashes and lost answers.
QuietIsInSync ==
    Serial => \A o \in Org : Quiet(o) /\ ~lost[o] => InSync(o)

\* The organization seen from outside: at most one delivery at work, and a row
\* that is torn while CREDS and PROFILE disagree.
Serving(o) == {delivery[t].epoch : t \in {u \in Task : On(u, o)}}
Register == INSTANCE ConsentRegister WITH
    Org <- Org, consent <- epoch, due <- outstanding, abandoned <- lost,
    registered <- sources,
    serving <- [o \in Org |-> Serving(o)],
    token <- [o \in Org |-> IF PairAgrees(o) THEN creds[o] ELSE 0],
    torn <- [o \in Org |-> ~PairAgrees(o)]

\* With an org's deliveries in turn, its table items behave as one register: an
\* event is answered only while the row shows it, failures and crashes leave a
\* whole row or one that is seen to be torn, and the URL is registered once.
ImplementsConsentRegister == Register!Spec

\* Retries do bring the table to the consent in force, for good, unless Webex
\* abandons the newest delivery.
Reconciles == \A o \in Org : <>[](lost[o] \/ (Quiet(o) /\ InSync(o)))

\* Revoked access stays revoked: once the deauthorization has been answered and
\* nothing is running, no token of the org is stored.
DeauthorizationRevokes ==
    \A o \in Org : Quiet(o) /\ ~lost[o] /\ ~Consented(o) => ~Stored(o)
=============================================================================
