------------------------- MODULE StateTable_proofs -------------------------
(***************************************************************************)
(* Theorems of StateTable, for any organizations, tasks and bounds.  What  *)
(* the handler keeps is taken from OrgAuthorization_proofs: every step of  *)
(* the composition is one of its steps or leaves its variables alone.      *)
(***************************************************************************)
EXTENDS StateTable, OrgAuthorization_proofs

\* Every step of the table's readers and writers is the handler's, or none.
LEMMA Composes == [TNext]_tVars => [Next]_vars
BY DEF TNext, tVars, Handler, RecordSuccess, RecordFailure, Unaudited, Consent,
   RejectPayload, Expire, StartScan, NextPage, Next, Step

\* The composition is a behaviour of the handler.
LEMMA Projects == TSpec => Spec
BY Composes, PTL DEF TSpec, TInit, Spec

\* What Audit does to the trail of org o, and to no other.
LEMMA AuditTyped ==
    ASSUME TableTypeOK, NEW o \in Org, NEW e \in 0 .. MaxEpoch, Audit(o, e)
    PROVE  /\ now' \in 0 .. MaxRecords /\ trail' \in [Org -> SUBSET Record]
           /\ missing' \in [Org -> BOOLEAN]
<1> USE RecordAssumption
<1>1. CASE Write(o, e)
    <2>1. now' \in 0 .. MaxRecords /\ [at |-> now, of |-> e] \in Record
        BY <1>1 DEF Write, TableTypeOK, Record
    <2>2. trail' \in [Org -> SUBSET Record]
        BY <1>1, <2>1 DEF Write, TableTypeOK
    <2>3. missing' \in [Org -> BOOLEAN]
        BY <1>1 DEF Write, TableTypeOK
    <2>4. QED  BY <2>1, <2>2, <2>3
<1>2. CASE Swallow(o, e)
    BY <1>2 DEF Swallow, TableTypeOK
<1>3. QED  BY <1>1, <1>2 DEF Audit

\* What a step of the handler does to the scan's histories.
LEMMA WatchTyped ==
    ASSUME TableTypeOK, Watch
    PROVE  /\ left' \subseteq Partition /\ listed' \subseteq Org
           /\ scanning' \in {"idle", "scanning", "done"}
           /\ always' \subseteq Org /\ ever' \subseteq Org
BY DEF Watch, TableTypeOK

\* The table's variables keep their types.
LEMMA TableTypeKept == TypeInv /\ TableTypeOK /\ [TNext]_tVars => TableTypeOK'
<1> SUFFICES ASSUME TypeInv, TableTypeOK, [TNext]_tVars PROVE TableTypeOK'
    OBVIOUS
<1> USE RecordAssumption, BoundAssumption
<1>1. ASSUME NEW t \in Task, RecordSuccess(t) \/ RecordFailure(t), Watch
      PROVE  TableTypeOK'
    <2>1. delivery[t].org \in Org /\ delivery[t].epoch \in 0 .. MaxEpoch
        BY <1>1 DEF RecordSuccess, RecordFailure, RecordAudit, AuditFailure,
           TypeInv, Handling, Busy, Delivery
    <2>2. PICK e \in 0 .. MaxEpoch : Audit(delivery[t].org, e)
        BY <1>1, <2>1 DEF RecordSuccess, RecordFailure
    <2>3. /\ now' \in 0 .. MaxRecords /\ trail' \in [Org -> SUBSET Record]
          /\ missing' \in [Org -> BOOLEAN]
        BY <2>1, <2>2, AuditTyped
    <2>4. QED  BY <1>1, <2>3, WatchTyped DEF TableTypeOK
<1>2. ASSUME (\E t \in Task : Unaudited(t)) \/ Consent, Watch PROVE TableTypeOK'
    BY <1>2, WatchTyped DEF Unaudited, Consent, auditVars, TableTypeOK
<1>3. ASSUME NEW o \in Org, RejectPayload(o), UNCHANGED scanVars PROVE TableTypeOK'
    <2>1. Audit(o, 0)
        BY <1>3 DEF RejectPayload, Audit
    <2>2. /\ now' \in 0 .. MaxRecords /\ trail' \in [Org -> SUBSET Record]
          /\ missing' \in [Org -> BOOLEAN]
        BY <2>1, AuditTyped
    <2>3. QED  BY <1>3, <2>2 DEF scanVars, TableTypeOK
<1>4. ASSUME NEW o \in Org, Expire(o), UNCHANGED scanVars PROVE TableTypeOK'
    <2>1. trail' \in [Org -> SUBSET Record] /\ missing' \in [Org -> BOOLEAN]
        BY <1>4 DEF Expire, TableTypeOK
    <2>2. QED  BY <1>4, <2>1 DEF Expire, scanVars, TableTypeOK
<1>5. CASE StartScan
    BY <1>5 DEF StartScan, TableTypeOK, auditVars
<1>6. CASE NextPage
    BY <1>6 DEF NextPage, Filtered, TableTypeOK, auditVars
<1>7. CASE UNCHANGED tVars
    BY <1>7 DEF tVars, auditVars, scanVars, TableTypeOK
<1>8. QED  BY <1>1, <1>2, <1>3, <1>4, <1>5, <1>6, <1>7 DEF TNext, Handler

-----------------------------------------------------------------------------
(* The scan.  What it has listed is between the orgs that kept their tokens *)
(* and those that had any; what it has not yet come to may still change.    *)

ScanInv ==
    /\ scanning = "idle" => listed = {}
    /\ scanning = "scanning" =>
         /\ always \subseteq listed \cup left
         /\ listed \subseteq ever
         /\ \A o \in Org : (o \in always => Stored(o)) /\ (Stored(o) => o \in ever)
    /\ ScanIsFair

\* Every step keeps the scan between its two bounds.
LEMMA ScanStep == TableTypeOK /\ ScanInv /\ [TNext]_tVars => ScanInv'
<1> SUFFICES ASSUME TableTypeOK, ScanInv, [TNext]_tVars PROVE ScanInv'
    OBVIOUS
<1>1. CASE Watch
    BY <1>1 DEF Watch, ScanInv, ScanIsFair, TableTypeOK
<1>2. ASSUME UNCHANGED <<creds, scanVars>> PROVE ScanInv'
    BY <1>2 DEF scanVars, ScanInv, ScanIsFair, Stored
<1>3. CASE StartScan
    BY <1>3 DEF StartScan, ScanInv, ScanIsFair, TableTypeOK, Stored, vars, Partition
<1>4. CASE NextPage
    BY <1>4 DEF NextPage, Filtered, ScanInv, ScanIsFair, TableTypeOK, Stored, vars
<1>5. UNCHANGED vars => UNCHANGED creds
    BY DEF vars
<1>6. QED
    BY <1>1, <1>2, <1>3, <1>4, <1>5 DEF TNext, tVars, RejectPayload, Expire

-----------------------------------------------------------------------------
(* The audit trail, for deliveries in turn.  The newest success record is   *)
(* that of the newest delivery from the moment it is written, before the    *)
(* 200, until it expires.                                                   *)

\* The newest success record of o is there and tells of epoch e, or is missing.
NewestTells(o, e) == missing[o] \/ \E r \in Successes(trail[o]) :
    r.of = e /\ \A s \in Successes(trail[o]) : s.at <= r.at

Timed == \A o \in Org : /\ IsFiniteSet(trail[o])
                        /\ \A r, s \in trail[o] : r.at < now /\ (r.at = s.at => r = s)

AuditInv ==
    /\ \A t \in Task : pc[t] = "ack" => NewestTells(delivery[t].org, delivery[t].epoch)
    /\ \A o \in Org : ~lost[o] /\ Answered(o) => NewestTells(o, epoch[o])

\* Records stay apart in time, and the trail of an org finite.
LEMMA TimedStep == TypeInv /\ TableTypeOK /\ Timed /\ [TNext]_tVars => Timed'
<1> SUFFICES ASSUME TypeInv, TableTypeOK, Timed, [TNext]_tVars PROVE Timed'
    OBVIOUS
<1>1. ASSUME NEW o \in Org, NEW e, Write(o, e) PROVE Timed'
    <2>1. \A p \in Org : p # o => trail'[p] = trail[p]
        BY <1>1 DEF Write, TableTypeOK
    <2>2. trail'[o] = trail[o] \cup {[at |-> now, of |-> e]}
        BY <1>1 DEF Write, TableTypeOK
    <2>3. IsFiniteSet(trail'[o])
        <3>1. IsFiniteSet(trail[o])
            BY DEF Timed
        <3>2. IsFiniteSet(trail[o] \cup {[at |-> now, of |-> e]})
            BY <3>1, FS_AddElement, Zenon
        <3>3. QED  BY <2>2, <3>2
    <2>4. now' = now + 1 /\ now \in Nat /\ \A p \in Org : \A r \in trail[p] : r.at \in Nat
        BY <1>1, RecordAssumption DEF Write, TableTypeOK, Record
    <2>5. \A r, s \in trail'[o] : r.at < now' /\ (r.at = s.at => r = s)
        BY <2>2, <2>4 DEF Timed
    <2>6. \A p \in Org : p # o => \A r \in trail'[p] : r.at < now'
        BY <2>1, <2>4 DEF Timed
    <2>7. QED  BY <2>1, <2>3, <2>5, <2>6 DEF Timed
<1>2. ASSUME NEW o \in Org, Expire(o) PROVE Timed'
    <2>1. now' = now /\ \A p \in Org : trail'[p] \subseteq trail[p]
        BY <1>2 DEF Expire, TableTypeOK
    <2>2. QED  BY <2>1, FS_Subset DEF Timed
<1>3. ASSUME UNCHANGED <<now, trail>> PROVE Timed'
    BY <1>3 DEF Timed
<1>4. ASSUME NEW t \in Task, RecordSuccess(t) \/ RecordFailure(t) PROVE Timed'
    <2>1. delivery[t].org \in Org
        BY <1>4 DEF RecordSuccess, RecordFailure, RecordAudit, AuditFailure,
           TypeInv, Handling, Busy, Delivery
    <2>2. QED
        BY <1>1, <1>3, <1>4, <2>1 DEF RecordSuccess, RecordFailure, Audit, Swallow
<1>5. QED
    BY <1>1, <1>2, <1>3, <1>4 DEF TNext, tVars, auditVars, Handler, Unaudited,
       Consent, RejectPayload, StartScan, NextPage

\* A failure record takes no success record's place.
LEMMA FailureTells ==
    ASSUME TableTypeOK, NEW o \in Org, Audit(o, 0)
    PROVE  \A p \in Org : Successes(trail'[p]) = Successes(trail[p]) /\ missing'[p] = missing[p]
<1>1. CASE Write(o, 0)
    BY <1>1 DEF Write, TableTypeOK, Successes
<1>2. CASE Swallow(o, 0)
    BY <1>2 DEF Swallow, TableTypeOK, Successes
<1>3. QED  BY <1>1, <1>2 DEF Audit

\* A success record is the newest of its org, or is missing.
LEMMA SuccessTells ==
    ASSUME TableTypeOK, Timed, NEW o \in Org, NEW e \in 1 .. MaxEpoch, Audit(o, e)
    PROVE  /\ missing'[o] \/ \E r \in Successes(trail'[o]) :
                  r.of = e /\ \A s \in Successes(trail'[o]) : s.at <= r.at
           /\ \A p \in Org : p # o => trail'[p] = trail[p] /\ missing'[p] = missing[p]
<1>1. CASE Write(o, e)
    <2>1. \A p \in Org : p # o => trail'[p] = trail[p] /\ missing'[p] = missing[p]
        BY <1>1 DEF Write, TableTypeOK
    <2> DEFINE new == [at |-> now, of |-> e]
    <2>2. trail'[o] = trail[o] \cup {new} /\ new.at = now /\ new.of = e
        BY <1>1 DEF Write, TableTypeOK
    <2>3. new \in Successes(trail'[o])
        BY <2>2 DEF Successes
    <2>4. \A s \in trail'[o] : s.at <= now
        BY <2>2, RecordAssumption DEF Timed, TableTypeOK, Record
    <2>5. QED  BY <2>1, <2>2, <2>3, <2>4 DEF Successes
<1>2. CASE Swallow(o, e)
    <2>1. missing' = [missing EXCEPT ![o] = @ \/ e # 0] /\ trail' = trail
        BY <1>2 DEF Swallow
    <2>2. e # 0
        BY BoundAssumption
    <2>3. missing'[o] = (missing[o] \/ e # 0) /\ \A p \in Org : p # o => missing'[p] = missing[p]
        BY <2>1 DEF TableTypeOK
    <2>4. QED  BY <2>1, <2>2, <2>3
<1>3. QED  BY <1>1, <1>2 DEF Audit

\* A record that expires is the newest success only if it is the last one.
LEMMA ExpiryTells ==
    ASSUME TableTypeOK, Timed, NEW o \in Org, Expire(o), NEW p \in Org, NEW e,
           NewestTells(p, e)
    PROVE  missing'[p] \/ \E r \in Successes(trail'[p]) :
               r.of = e /\ \A s \in Successes(trail'[p]) : s.at <= r.at
<1>1. PICK x \in trail[o] :
          /\ \A s \in trail[o] : x.at <= s.at
          /\ trail' = [trail EXCEPT ![o] = @ \ {x}]
          /\ missing' = [missing EXCEPT ![o] = @ \/ Successes(trail[o]) = {x}]
    BY DEF Expire
<1>2. CASE p # o
    BY <1>1, <1>2 DEF TableTypeOK, NewestTells
<1>3. CASE p = o /\ ~missing'[o]
    <2>1. ~missing[o] /\ Successes(trail[o]) # {x} /\ trail'[o] = trail[o] \ {x}
        BY <1>1, <1>3 DEF TableTypeOK
    <2>2. PICK r \in Successes(trail[o]) :
              r.of = e /\ \A s \in Successes(trail[o]) : s.at <= r.at
        BY <1>3, <2>1 DEF NewestTells
    <2>3. ASSUME r = x PROVE FALSE
        <3>1. \A s \in Successes(trail[o]) : s = x
            <4> SUFFICES ASSUME NEW s \in Successes(trail[o]) PROVE s = x
                OBVIOUS
            <4>1. s \in trail[o] /\ x.at <= s.at /\ s.at <= x.at
                BY <1>1, <2>2, <2>3 DEF Successes
            <4>2. s.at \in Nat /\ x.at \in Nat
                BY <4>1, <1>1, RecordAssumption DEF TableTypeOK, Record
            <4>3. QED  BY <4>1, <4>2, <1>1 DEF Timed
        <3>2. QED  BY <2>1, <2>2, <2>3, <3>1
    <2>4. r \in Successes(trail'[o])
        BY <2>1, <2>2, <2>3 DEF Successes
    <2>5. QED  BY <1>3, <2>1, <2>2, <2>4 DEF Successes
<1>4. QED  BY <1>2, <1>3

\* Every step, of deliveries in turn, keeps what the newest record tells.
LEMMA AuditStep ==
    ASSUME Serial, TypeInv, SerialInv, TableTypeOK, Timed, AuditInv, [TNext]_tVars
    PROVE  AuditInv'
<1> USE BoundAssumption
<1>1. ASSUME NEW t \in Task, RecordSuccess(t) PROVE AuditInv'
    <2>1. /\ pc[t] = "audit" /\ pc' = [pc EXCEPT ![t] = "ack"]
          /\ UNCHANGED <<epoch, outstanding, lost, delivery>>
        BY <1>1 DEF RecordSuccess, RecordAudit, Goto, webexVars
    <2>2. delivery[t].org \in Org /\ delivery[t].epoch \in 1 .. MaxEpoch
        BY <2>1 DEF TypeInv, Handling, Busy, Delivery
    <2>3. /\ NewestTells(delivery[t].org, delivery[t].epoch)'
          /\ \A p \in Org : p # delivery[t].org =>
                 trail'[p] = trail[p] /\ missing'[p] = missing[p]
        BY <1>1, <2>1, <2>2, SuccessTells DEF RecordSuccess, NewestTells
    <2>4. ASSUME NEW u \in Task, pc'[u] = "ack"
          PROVE  NewestTells(delivery[u].org, delivery[u].epoch)'
        <3>1. CASE u = t
            BY <2>3, <3>1
        <3>2. CASE u # t
            <4>1. pc[u] = "ack" /\ delivery[u].org \in Org
                BY <2>1, <2>4, <3>2 DEF TypeInv, TypeOK, Handling, Busy, Delivery
            <4>2. delivery[u].org # delivery[t].org
                BY <2>1, <3>2, <4>1 DEF SerialInv, OneAtATime, On, Busy
            <4>3. QED  BY <2>1, <2>3, <4>1, <4>2 DEF AuditInv, NewestTells
        <3>3. QED  BY <3>1, <3>2
    <2>5. ASSUME NEW o \in Org, ~lost[o], Answered(o)
          PROVE  NewestTells(o, epoch[o])'
        <3>1. o # delivery[t].org
            BY <2>1, <2>5 DEF SerialInv, AnsweredInSync, Quiet, On, Busy
        <3>2. QED  BY <2>1, <2>3, <2>5, <3>1 DEF AuditInv, NewestTells
    <2>6. QED  BY <2>1, <2>4, <2>5 DEF AuditInv, Answered
<1>2. ASSUME NEW o \in Org, Audit(o, 0), UNCHANGED <<epoch, outstanding, lost>>,
             \A u \in Task : pc'[u] = "ack" => pc[u] = "ack" /\ delivery'[u] = delivery[u]
      PROVE  AuditInv'
    <2>1. \A p \in Org : Successes(trail'[p]) = Successes(trail[p]) /\ missing'[p] = missing[p]
        BY <1>2, FailureTells
    <2>2. \A u \in Task : pc[u] = "ack" => delivery[u].org \in Org
        BY DEF TypeInv, Handling, Busy, Delivery
    <2>3. QED  BY <1>2, <2>1, <2>2 DEF AuditInv, NewestTells, Answered
<1>3. ASSUME NEW t \in Task, RecordFailure(t) PROVE AuditInv'
    <2>1. delivery[t].org \in Org
        BY <1>3 DEF RecordFailure, AuditFailure, TypeInv, Handling, Busy, Delivery
    <2>2. UNCHANGED <<epoch, outstanding, lost>>
        BY <1>3 DEF RecordFailure, AuditFailure, Unacknowledged, webexVars
    <2>3. \A u \in Task : pc'[u] = "ack" => pc[u] = "ack" /\ delivery'[u] = delivery[u]
        BY <1>3 DEF RecordFailure, AuditFailure, Unacknowledged, Goto, TypeInv, TypeOK
    <2>4. QED  BY <1>2, <1>3, <2>1, <2>2, <2>3 DEF RecordFailure
<1>4. ASSUME NEW o \in Org, RejectPayload(o) PROVE AuditInv'
    BY <1>2, <1>4 DEF RejectPayload, Audit, vars
<1>5. ASSUME NEW o \in Org, Expire(o) PROVE AuditInv'
    <2>1. UNCHANGED <<epoch, outstanding, lost, pc, delivery>>
        BY <1>5 DEF Expire, vars
    <2>2. \A u \in Task : pc[u] = "ack" => delivery[u].org \in Org
        BY DEF TypeInv, Handling, Busy, Delivery
    <2>3. ASSUME NEW u \in Task, pc[u] = "ack"
          PROVE  NewestTells(delivery[u].org, delivery[u].epoch)'
        <3>1. NewestTells(delivery[u].org, delivery[u].epoch)
            BY <2>3 DEF AuditInv
        <3>2. PICK p \in Org : p = delivery[u].org
            BY <2>2, <2>3
        <3>3. PICK e : e = delivery[u].epoch
            OBVIOUS
        <3>4. missing'[p] \/ \E r \in Successes(trail'[p]) :
                  r.of = e /\ \A s \in Successes(trail'[p]) : s.at <= r.at
            BY <1>5, <3>1, <3>2, <3>3, ExpiryTells
        <3>5. QED  BY <2>1, <3>2, <3>3, <3>4 DEF NewestTells
    <2>4. ASSUME NEW p \in Org, ~lost[p], Answered(p)
          PROVE  NewestTells(p, epoch[p])'
        <3>1. NewestTells(p, epoch[p])
            BY <2>4 DEF AuditInv
        <3>2. PICK e : e = epoch[p]
            OBVIOUS
        <3>3. missing'[p] \/ \E r \in Successes(trail'[p]) :
                  r.of = e /\ \A s \in Successes(trail'[p]) : s.at <= r.at
            BY <1>5, <3>1, <3>2, ExpiryTells
        <3>4. QED  BY <2>1, <3>2, <3>3 DEF NewestTells
    <2>5. QED  BY <2>1, <2>3, <2>4 DEF AuditInv, Answered
<1>6. ASSUME NEW t \in Task, Acknowledge(t), UNCHANGED auditVars PROVE AuditInv'
    <2>1. /\ pc[t] = "ack" /\ pc' = [pc EXCEPT ![t] = "idle"]
          /\ outstanding' = outstanding \ {delivery[t]}
          /\ UNCHANGED <<epoch, lost, trail, missing>>
          /\ \A u \in Task : u # t => delivery'[u] = delivery[u]
        BY <1>6 DEF Acknowledge, Goto, auditVars, TypeInv, TypeOK
    <2>2. \A u \in Task : pc'[u] = "ack" => pc[u] = "ack" /\ delivery'[u] = delivery[u]
        BY <2>1 DEF TypeInv, TypeOK
    <2>3. ASSUME NEW o \in Org, ~lost[o], Answered(o)'
          PROVE  NewestTells(o, epoch[o])
        <3>1. CASE delivery[t].org = o /\ delivery[t].epoch = epoch[o]
            BY <2>1, <3>1 DEF AuditInv
        <3>2. CASE ~(delivery[t].org = o /\ delivery[t].epoch = epoch[o])
            BY <2>1, <2>3, <3>2 DEF AuditInv, Answered
        <3>3. QED  BY <3>1, <3>2
    <2>4. QED  BY <2>1, <2>2, <2>3 DEF AuditInv, NewestTells
<1>7. ASSUME Consent PROVE AuditInv'
    <2>1. UNCHANGED <<trail, missing, pc, delivery>>
        BY <1>7 DEF Consent, ChangeConsent, GiveUp, auditVars, taskVars
    <2>2. ASSUME NEW o \in Org, ~lost'[o], Answered(o)'
          PROVE  ~lost[o] /\ Answered(o) /\ epoch'[o] = epoch[o]
        <3>1. CASE \E p \in Org : ChangeConsent(p)
            <4>1. PICK p \in Org : ChangeConsent(p)  BY <3>1
            <4>2. p # o
                <5>1. /\ epoch'[p] = epoch[p] + 1
                      /\ [org |-> p, epoch |-> epoch[p] + 1] \in outstanding'
                    BY <4>1 DEF ChangeConsent, TypeInv, TypeOK
                <5>2. QED  BY <2>2, <5>1 DEF Answered
            <4>3. QED  BY <2>2, <4>1, <4>2 DEF ChangeConsent, Answered, TypeInv, TypeOK
        <3>2. CASE \E d \in outstanding : GiveUp(d)
            BY <2>2, <3>2 DEF GiveUp, Answered, TypeInv, TypeOK, Delivery
        <3>3. QED  BY <1>7, <3>1, <3>2 DEF Consent
    <2>3. QED  BY <2>1, <2>2 DEF AuditInv, NewestTells
<1>8. ASSUME UNCHANGED <<epoch, outstanding, lost, trail, missing>>,
             \A u \in Task : pc'[u] = "ack" => pc[u] = "ack" /\ delivery'[u] = delivery[u]
      PROVE  AuditInv'
    BY <1>8 DEF AuditInv, NewestTells, Answered
<1>9. ASSUME NEW t \in Task, Unaudited(t) PROVE AuditInv'
    <2>1. CASE Acknowledge(t)
        BY <1>6, <1>9, <2>1 DEF Unaudited
    <2>2. CASE ~Acknowledge(t)
        <3>1. UNCHANGED <<epoch, outstanding, lost, trail, missing>>
            BY <1>9, <2>2 DEF Unaudited, auditVars, Receive, FetchOrgToken,
               FetchRefused, PutCreds, PutAuthorized, DeleteCreds,
               PutDeauthorized, CheckUrl, CreateSource, RegisterFailed,
               ServerError, NotAuthenticated, Crash, Unacknowledged, webexVars
        <3>2. \A u \in Task : pc'[u] = "ack" => pc[u] = "ack" /\ delivery'[u] = delivery[u]
            BY <1>9, <2>2 DEF Unaudited, Receive, FetchOrgToken,
               FetchRefused, PutCreds, PutAuthorized, DeleteCreds,
               PutDeauthorized, CheckUrl, CreateSource, RegisterFailed,
               ServerError, NotAuthenticated, Crash, Unacknowledged, Goto,
               TypeInv, TypeOK
        <3>3. QED  BY <1>8, <3>1, <3>2
    <2>3. QED  BY <2>1, <2>2
<1>10. QED
    <2>1. UNCHANGED vars /\ UNCHANGED auditVars => AuditInv'
        BY <1>8 DEF vars, auditVars
    <2>2. QED
        BY <1>1, <1>3, <1>4, <1>5, <1>7, <1>9, <2>1
           DEF TNext, tVars, Handler, StartScan, NextPage

-----------------------------------------------------------------------------
(* What holds in every state.                                              *)

\* The types, with those of the handler's own variables.
LEMMA TableInvariant == TSpec => [](TypeInv /\ TableTypeOK)
<1>1. TInit => TableTypeOK
    BY RecordAssumption DEF TInit, TableTypeOK
<1>2. TSpec => []TypeInv
    BY Projects, TypeInvariant, PTL
<1>3. QED  BY <1>1, <1>2, TableTypeKept, PTL DEF TSpec

\* The types are kept whatever the table's writers and readers do.
THEOREM TableTyping == TSpec => []TableTypeOK
BY TableInvariant, PTL

\* A scan lists the orgs it should, however deliveries and its pages alternate.
THEOREM ScanFair == TSpec => []ScanIsFair
<1>1. TInit => ScanInv
    BY DEF TInit, ScanInv, ScanIsFair
<1>2. ScanInv => ScanIsFair
    BY DEF ScanInv
<1>3. QED  BY <1>1, <1>2, ScanStep, TableInvariant, PTL DEF TSpec

\* Records are apart in time in every state.
LEMMA TimedInvariant == TSpec => []Timed
<1>1. TInit => Timed
    BY FS_EmptySet DEF TInit, Timed
<1>2. QED  BY <1>1, TimedStep, TableInvariant, PTL DEF TSpec

\* For deliveries in turn the newest record is that of the newest delivery.
LEMMA AuditInvariant == TSpec => [](Serial => AuditInv)
<1>1. TInit => AuditInv
    BY DEF TInit, Init, AuditInv, NewestTells
<1>2. TypeInv /\ TableTypeOK /\ Timed /\ (Serial => SerialInv) /\ (Serial => AuditInv)
        /\ [TNext]_tVars => (Serial => AuditInv)'
    BY AuditStep
<1>3. TSpec => [](Serial => SerialInv)
    BY Projects, SerialInvariant, PTL
<1>4. QED  BY <1>1, <1>2, <1>3, TableInvariant, TimedInvariant, PTL DEF TSpec

\* The newest success of a trail is in its list when any success is.
LEMMA NewestIsListed ==
    ASSUME TableTypeOK, Timed, NEW o \in Org,
           NEW r \in Successes(Listed(o)), NEW n \in Successes(trail[o]),
           \A s \in Successes(trail[o]) : s.at <= n.at
    PROVE  n \in Successes(Listed(o))
<1> DEFINE Newer(x) == {s \in trail[o] : s.at > x.at}
<1>1. r \in trail[o] /\ n \in trail[o] /\ r.of # 0 /\ n.of # 0
    BY DEF Successes, Listed
<1>2. r.at <= n.at /\ \A s \in trail[o] : s.at \in Int
    BY <1>1, RecordAssumption DEF Successes, TableTypeOK, Record
<1>3. IsFiniteSet(trail[o])
    BY DEF Timed
<1>4. Newer(n) \subseteq Newer(r) /\ Newer(r) \subseteq trail[o]
    BY <1>1, <1>2
<1>5. Cardinality(Newer(n)) <= Cardinality(Newer(r))
    BY <1>3, <1>4, FS_Subset
<1>6. Cardinality(Newer(n)) \in Nat /\ Cardinality(Newer(r)) \in Nat
    BY <1>3, <1>4, FS_Subset, FS_CardinalityType
<1>7. Cardinality(Newer(r)) \in 0 .. Limit - 1
    BY DEF Successes, Listed
<1>8. Cardinality(Newer(n)) \in 0 .. Limit - 1
    BY <1>5, <1>6, <1>7, RecordAssumption
<1>9. QED  BY <1>1, <1>8 DEF Successes, Listed

\* The audit list tells what the table holds of an org at rest.
THEOREM AuditTells == TSpec => []AuditTellsState
<1>1. ASSUME TypeInv, TableTypeOK, Timed, Serial => SerialInv, Serial => AuditInv
      PROVE  AuditTellsState
    <2> SUFFICES ASSUME Serial, NEW o \in Org, Quiet(o), ~lost[o], ~missing[o],
                        NEW r \in Successes(Listed(o)),
                        \A s \in Successes(Listed(o)) : s.at <= r.at
                 PROVE  (r.of % 2 = 1 <=> Stored(o)) /\ PairAgrees(o)
        BY DEF AuditTellsState
    <2>1. Answered(o)
        BY DEF Answered, Quiet
    <2>2. InSync(o) /\ NewestTells(o, epoch[o])
        BY <1>1, <2>1 DEF SerialInv, AnsweredInSync, AuditInv
    <2>3. PICK n \in Successes(trail[o]) :
              n.of = epoch[o] /\ \A s \in Successes(trail[o]) : s.at <= n.at
        BY <2>2 DEF NewestTells
    <2>4. n \in Successes(Listed(o))
        BY <1>1, <2>3, NewestIsListed
    <2>5. r \in Successes(trail[o])
        BY DEF Successes, Listed
    <2>6. r.at \in Nat /\ n.at \in Nat /\ r.at <= n.at /\ n.at <= r.at
        BY <1>1, <2>3, <2>4, <2>5, RecordAssumption DEF Successes, TableTypeOK, Record
    <2>7. r = n
        BY <1>1, <2>3, <2>5, <2>6 DEF Timed, Successes
    <2>8. r.of = epoch[o] /\ r.of # 0
        BY <2>3, <2>5, <2>7 DEF Successes
    <2>9. QED  BY <2>2, <2>8 DEF InSync, Consented, Stored
<1>2. TSpec => [](Serial => SerialInv)
    BY Projects, SerialInvariant, PTL
<1>3. QED
    BY <1>1, <1>2, TableInvariant, TimedInvariant, AuditInvariant, PTL
=============================================================================
