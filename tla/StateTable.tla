----------------------------- MODULE StateTable -----------------------------
(***************************************************************************)
(* The one DynamoDB table as its readers see it, while webhook deliveries  *)
(* (OrgAuthorization) write it: the audit trail that routes.py appends and *)
(* audit_webhooks.py lists, and list_registered_orgs, a scan page by page. *)
(*                                                                         *)
(* An audit record is the epoch of the delivery it tells of (odd: authori- *)
(* zed, even: deauthorized), 0 for a processing failure, at a time of its  *)
(* own.  Partitions come in an order of DynamoDB's; the scan takes any.    *)
(***************************************************************************)
EXTENDS OrgAuthorization

CONSTANTS
    MaxRecords,     \* bound: audit records ever written
    Limit,          \* --limit of audit_webhooks.py
    Integration     \* the partition INTEGRATION, which has a CREDS item too

ASSUME RecordAssumption == MaxRecords \in Nat /\ Limit \in Nat \ {0}
ASSUME IntegrationAssumption == Integration \notin Org

VARIABLES
    now,            \* the time of the next record
    trail,          \* table: ORG#o / AUDIT#..., the records of each org
    missing,        \* history: the org's newest success record is not there
    left,           \* list_registered_orgs: partitions not scanned yet
    listed,         \* ... org_ids
    scanning,       \* ... "idle", "scanning" or "done"
    always,         \* history: orgs with tokens ever since the scan began
    ever            \* history: orgs with tokens at some time since

auditVars == <<now, trail, missing>>
scanVars == <<left, listed, scanning, always, ever>>
tVars == <<vars, auditVars, scanVars>>

Record == [at : 0 .. MaxRecords, of : 0 .. MaxEpoch]
Partition == Org \cup {Integration}

TInit ==
    /\ Init
    /\ now = 0
    /\ trail = [o \in Org |-> {}]
    /\ missing = [o \in Org |-> TRUE]
    /\ left = {} /\ listed = {} /\ scanning = "idle"
    /\ always = {} /\ ever = {}

-----------------------------------------------------------------------------
(* The audit trail.                                                        *)

Successes(records) == {r \in records : r.of # 0}

\* record_event: a put of an item of its own, 0 for a failure.
Write(o, e) ==
    /\ now < MaxRecords
    /\ now' = now + 1
    /\ trail' = [trail EXCEPT ![o] = @ \cup {[at |-> now, of |-> e]}]
    /\ missing' = [missing EXCEPT ![o] = @ /\ e = 0]

\* _record_audit swallows a failed write.
Swallow(o, e) ==
    /\ missing' = [missing EXCEPT ![o] = @ \/ e # 0]
    /\ UNCHANGED <<now, trail>>

Audit(o, e) == Write(o, e) \/ Swallow(o, e)

\* A delivery that was handled is recorded before its 200 ...
RecordSuccess(t) == RecordAudit(t) /\ Audit(delivery[t].org, delivery[t].epoch)

\* ... one that met an AuthenticationError before its 503 ...
RecordFailure(t) == AuditFailure(t) /\ Audit(delivery[t].org, 0)

\* ... and a payload that the SDK rejects before its 400.
RejectPayload(o) == UNCHANGED vars /\ Write(o, 0)

\* What the handler does besides; 500 leaves no record.
Unaudited(t) ==
    /\ \/ \E d \in outstanding : Receive(t, d)
       \/ FetchOrgToken(t) \/ FetchRefused(t)
       \/ PutCreds(t) \/ PutAuthorized(t) \/ DeleteCreds(t) \/ PutDeauthorized(t)
       \/ CheckUrl(t) \/ CreateSource(t) \/ RegisterFailed(t) \/ Acknowledge(t)
       \/ ServerError(t) \/ NotAuthenticated(t) \/ Crash(t)
    /\ UNCHANGED auditVars

Consent ==
    /\ (\E o \in Org : ChangeConsent(o)) \/ (\E d \in outstanding : GiveUp(d))
    /\ UNCHANGED auditVars

Handler(t) == RecordSuccess(t) \/ RecordFailure(t) \/ Unaudited(t)

\* expires_at: DynamoDB removes a record that is due, the oldest first.
Expire(o) == \E r \in trail[o] :
    /\ \A s \in trail[o] : r.at <= s.at
    /\ trail' = [trail EXCEPT ![o] = @ \ {r}]
    /\ missing' = [missing EXCEPT ![o] = @ \/ Successes(trail[o]) = {r}]
    /\ UNCHANGED <<vars, now>>

\* Fault form: the query runs oldest first.
ListedOldest(o) ==
    {r \in trail[o] : \E n \in 0 .. Limit - 1 :
        n = Cardinality({s \in trail[o] : s.at < r.at})}

\* list_events: the newest records first, up to the limit.
Listed(o) ==
    {r \in trail[o] : \E n \in 0 .. Limit - 1 :
        n = Cardinality({s \in trail[o] : s.at > r.at})}

-----------------------------------------------------------------------------
(* list_registered_orgs.                                                   *)

StartScan ==
    /\ scanning = "idle"
    /\ scanning' = "scanning"
    /\ left' = Partition
    /\ always' = {o \in Org : Stored(o)}
    /\ ever' = {o \in Org : Stored(o)}
    /\ UNCHANGED <<vars, auditVars, listed>>

\* The items of a page that have SK = CREDS and whose PK begins with ORG#.
Filtered(page) == {o \in page \cap Org : Stored(o)}

\* Fault form: an empty page is taken for the last one.
NextPageUntilEmpty == \E page \in SUBSET left \ {{}} :
    /\ scanning = "scanning"
    /\ listed' = listed \cup Filtered(page)
    /\ left' = left \ page
    /\ scanning' = IF left' = {} \/ Filtered(page) = {} THEN "done" ELSE "scanning"
    /\ UNCHANGED <<vars, auditVars, always, ever>>

\* One page: whole partitions here, since only one item of each can match.  A
\* page may hold no match and still not be the last.
NextPage == \E page \in SUBSET left \ {{}} :
    /\ scanning = "scanning"
    /\ listed' = listed \cup Filtered(page)
    /\ left' = left \ page
    /\ scanning' = IF left' = {} THEN "done" ELSE "scanning"
    /\ UNCHANGED <<vars, auditVars, always, ever>>

\* The histories after a step of the handler.
Watch ==
    /\ IF scanning # "scanning" THEN UNCHANGED <<always, ever>>
       ELSE /\ always' = {o \in always : Stored(o)'}
            /\ ever' = ever \cup {o \in Org : Stored(o)'}
    /\ UNCHANGED <<left, listed, scanning>>

-----------------------------------------------------------------------------

TNext ==
    \/ ((\E t \in Task : Handler(t)) \/ Consent) /\ Watch
    \/ UNCHANGED scanVars /\ \E o \in Org : RejectPayload(o) \/ Expire(o)
    \/ StartScan \/ NextPage

TSpec == TInit /\ [][TNext]_tVars

-----------------------------------------------------------------------------
(* Properties.                                                             *)

\* Every variable has its type.
TableTypeOK ==
    /\ now \in 0 .. MaxRecords
    /\ trail \in [Org -> SUBSET Record]
    /\ missing \in [Org -> BOOLEAN]
    /\ left \subseteq Partition
    /\ listed \subseteq Org
    /\ scanning \in {"idle", "scanning", "done"}
    /\ always \subseteq Org /\ ever \subseteq Org

\* What an operator reads of an org in the audit list, the newest success in
\* it, is what the table holds of the org, once its deliveries, sent in turn,
\* are all answered and unless the newest record was swallowed or has expired.
AuditTellsState == Serial => \A o \in Org :
    Quiet(o) /\ ~lost[o] /\ ~missing[o] =>
        \A r \in Successes(Listed(o)) :
            (\A s \in Successes(Listed(o)) : s.at <= r.at) =>
                (r.of % 2 = 1 <=> Stored(o)) /\ PairAgrees(o)

\* The scan lists every org that had tokens all the time it ran, and none that
\* had none at any time, whatever deliveries wrote between its pages.
ScanIsFair == scanning = "done" => always \subseteq listed /\ listed \subseteq ever
=============================================================================
