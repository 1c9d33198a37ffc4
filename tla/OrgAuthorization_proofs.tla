----------------------- MODULE OrgAuthorization_proofs -----------------------
(***************************************************************************)
(* Theorems of OrgAuthorization, for any set of organizations, any finite  *)
(* set of request tasks and any bounds.                                    *)
(***************************************************************************)
EXTENDS OrgAuthorization, FiniteSetTheorems, TLAPS


\* A task that is handling something knows which delivery.
Handling == \A t \in Task : Busy(t) => delivery[t] \in Delivery

TypeInv == TypeOK /\ Handling

\* The types, with the deliveries of busy tasks, are inductive.
LEMMA TypeInvariant == Spec => []TypeInv
<1> USE BoundAssumption, FlagAssumption
<1>1. Init => TypeInv
  BY DEF Init, TypeInv, TypeOK, PC, Handling, Busy
<1>2. TypeInv /\ [Next]_vars => TypeInv'
  <2> SUFFICES ASSUME TypeInv, [Next]_vars PROVE TypeInv'
    OBVIOUS
  <2> USE DEF TypeInv, TypeOK, PC, Handling, Busy, Delivery, Goto, Fault, Unacknowledged, webexVars,
              tableVars, taskVars
  <2>1. ASSUME NEW o \in Org, ChangeConsent(o) PROVE TypeInv'
    BY <2>1 DEF ChangeConsent
  <2>2. ASSUME NEW d \in outstanding, GiveUp(d) PROVE TypeInv'
    BY <2>2 DEF GiveUp
  <2>3. ASSUME NEW t \in Task, NEW d \in outstanding, Receive(t, d) PROVE TypeInv'
    BY <2>3 DEF Receive
  <2>4. ASSUME NEW t \in Task, Step(t) PROVE TypeInv'
    <3>1. CASE FetchOrgToken(t)
      BY <3>1 DEF FetchOrgToken, Consented
    <3>2. CASE FetchRefused(t)
      BY <3>2 DEF FetchRefused
    <3>3. CASE AuditFailure(t)
      BY <3>3 DEF AuditFailure
    <3>4. CASE PutCreds(t)
      <4>1. delivery[t] \in Delivery /\ token[t] \in 0 .. MaxEpoch
        BY <3>4 DEF PutCreds
      <4>2. creds' \in [Org -> 0 .. MaxEpoch]
        BY <3>4, <4>1 DEF PutCreds
      <4>3. alone' \in [Task -> BOOLEAN] /\ settled' \in [Org -> BOOLEAN]
        BY <3>4, <4>1 DEF PutCreds, OpenPair
      <4>4. pc' \in [Task -> PC] /\ Handling'
        BY <3>4, <4>1 DEF PutCreds
      <4> QED BY <3>4, <4>2, <4>3, <4>4 DEF PutCreds
    <3>5. CASE PutAuthorized(t)
      BY <3>5 DEF PutAuthorized
    <3>6. CASE DeleteCreds(t)
      <4>1. delivery[t] \in Delivery
        BY <3>6 DEF DeleteCreds
      <4>2. creds' \in [Org -> 0 .. MaxEpoch]
        BY <3>6, <4>1 DEF DeleteCreds
      <4>3. alone' \in [Task -> BOOLEAN] /\ settled' \in [Org -> BOOLEAN]
        BY <3>6, <4>1 DEF DeleteCreds, OpenPair
      <4>4. pc' \in [Task -> PC] /\ Handling'
        BY <3>6, <4>1 DEF DeleteCreds
      <4> QED BY <3>6, <4>2, <4>3, <4>4 DEF DeleteCreds
    <3>7. CASE PutDeauthorized(t)
      BY <3>7 DEF PutDeauthorized
    <3>8. CASE CheckUrl(t)
      BY <3>8 DEF CheckUrl
    <3>9. CASE CreateSource(t)
      BY <3>9 DEF CreateSource
    <3>10. CASE RegisterFailed(t)
      BY <3>10 DEF RegisterFailed
    <3>11. CASE RecordAudit(t)
      BY <3>11 DEF RecordAudit
    <3>12. CASE Acknowledge(t)
      BY <3>12 DEF Acknowledge
    <3> QED BY <2>4, <3>1, <3>2, <3>3, <3>4, <3>5, <3>6, <3>7, <3>8, <3>9,
               <3>10, <3>11, <3>12 DEF Step
  <2>5. ASSUME NEW t \in Task, ServerError(t) PROVE TypeInv'
    BY <2>5 DEF ServerError
  <2>6. ASSUME NEW t \in Task, NotAuthenticated(t) PROVE TypeInv'
    BY <2>6 DEF NotAuthenticated
  <2>7. ASSUME NEW t \in Task, Crash(t) PROVE TypeInv'
    BY <2>7 DEF Crash
  <2>8. CASE UNCHANGED vars
    BY <2>8 DEF vars
  <2> QED BY <2>1, <2>2, <2>3, <2>4, <2>5, <2>6, <2>7, <2>8 DEF Next
<1> QED BY <1>1, <1>2, PTL DEF Spec

\* Every variable keeps its type, whatever the handlers, Webex and crashes do.
THEOREM TypeCorrect == Spec => []TypeOK
<1>1. TypeInv => TypeOK
  BY DEF TypeInv
<1> QED BY <1>1, TypeInvariant, PTL

-----------------------------------------------------------------------------
(* CREDS and PROFILE.  SettledPairAgrees is not inductive: it needs to know *)
(* what a task between its two writes has already stored, and that nothing  *)
(* else is between two writes when that task has run alone so far.          *)

TokenInHand == \A t \in Task : pc[t] = "put_creds" => token[t] # 0

ClosedWhenSettled ==
    \A o \in Org : settled[o] => \A t \in Task : ~PairOpen(t, o)

AloneIsHalfDone ==
    \A t \in Task : Between(t) /\ alone[t] =>
      /\ Stored(delivery[t].org) <=> pc[t] = "put_authorized"
      /\ \A u \in Task \ {t} : ~PairOpen(u, delivery[t].org)

PairInv == TokenInHand /\ SettledPairAgrees /\ ClosedWhenSettled /\ AloneIsHalfDone

\* A step that writes neither item and opens no pair preserves PairInv.
LEMMA PairFrame ==
    ASSUME TypeInv, TypeInv', PairInv, UNCHANGED tableVars,
           \A t \in Task : Between(t)' => pc'[t] = pc[t] /\ delivery'[t] = delivery[t],
           TokenInHand'
    PROVE  PairInv'
<1> USE DEF TypeInv, TypeOK, Handling, tableVars, Busy
<1>1. SettledPairAgrees'
  BY DEF PairInv, SettledPairAgrees, PairAgrees, Stored
<1>2. ClosedWhenSettled'
  BY DEF PairInv, ClosedWhenSettled, PairOpen, Between
<1>3. AloneIsHalfDone'
  BY DEF PairInv, AloneIsHalfDone, PairOpen, Between, Stored
<1> QED BY <1>1, <1>2, <1>3 DEF PairInv

\* The CREDS half of a pair: the org is unsettled, and the task is alone
\* exactly when no other pair of the org is open.
LEMMA PairOpens ==
    ASSUME TypeInv, TypeInv', PairInv, NEW t \in Task, Busy(t), ~Between(t),
           NEW half \in {"put_authorized", "put_deauthorized"}, Goto(t, half),
           NEW tok \in 0 .. MaxEpoch, tok # 0 <=> half = "put_authorized",
           creds' = [creds EXCEPT ![delivery[t].org] = tok],
           OpenPair(t), UNCHANGED <<profile, delivery, token>>
    PROVE  PairInv'
<1> USE DEF TypeInv, TypeOK, Handling
<1> DEFINE o == delivery[t].org
<1>1. o \in Org
  BY DEF Delivery
<1>2. settled' = [settled EXCEPT ![o] = FALSE]
  BY DEF OpenPair
<1>3. \A u \in Task : alone'[u] =>
        IF u = t THEN \A v \in Task \ {t} : ~PairOpen(v, o)
                 ELSE alone[u] /\ ~PairOpen(u, o)
  BY DEF OpenPair
<1>4. \A u \in Task : u # t => pc'[u] = pc[u]
  BY DEF Goto
<1>5. pc'[t] = half
  BY DEF Goto
<1>6. TokenInHand'
  BY <1>4, <1>5 DEF PairInv, TokenInHand
<1>7. \A p \in Org \ {o} : creds'[p] = creds[p] /\ settled'[p] = settled[p]
  BY <1>1, <1>2
<1>8. SettledPairAgrees'
  BY <1>1, <1>2, <1>7 DEF PairInv, SettledPairAgrees, PairAgrees, Stored
<1>9. ClosedWhenSettled'
  BY <1>1, <1>2, <1>4, <1>7 DEF PairInv, ClosedWhenSettled, PairOpen, Between
<1>10. ASSUME NEW u \in Task, Between(u)', alone'[u]
       PROVE  /\ Stored(delivery[u].org)' <=> pc'[u] = "put_authorized"
              /\ \A v \in Task \ {u} : ~PairOpen(v, delivery[u].org)'
  <2>1. CASE u = t
    <3>1. \A v \in Task \ {t} : ~PairOpen(v, o)
      BY <1>3, <1>10, <2>1
    <3>2. creds'[o] = tok
      BY <1>1
    <3> QED BY <1>4, <1>5, <2>1, <3>1, <3>2 DEF Stored, PairOpen, Between
  <2>2. CASE u # t
    <3>1. alone[u] /\ ~PairOpen(u, o)
      BY <1>3, <1>10, <2>2
    <3>2. Between(u) /\ delivery[u].org # o
      BY <1>4, <1>10, <2>2, <3>1 DEF Between, PairOpen
    <3>3. delivery[u].org \in Org
      BY <3>2 DEF Between, Busy, Delivery
    <3>4. creds'[delivery[u].org] = creds[delivery[u].org]
      BY <1>7, <3>2, <3>3
    <3> QED BY <1>4, <2>2, <3>1, <3>2, <3>4
            DEF PairInv, AloneIsHalfDone, Stored, PairOpen, Between
  <2> QED BY <2>1, <2>2
<1> QED BY <1>6, <1>8, <1>9, <1>10 DEF PairInv, AloneIsHalfDone, PairOpen

\* The PROFILE half of a pair: the org is settled exactly when the task is
\* alone, and then the pair agrees because of what the task stored.
LEMMA PairCloses ==
    ASSUME TypeInv, TypeInv', PairInv, NEW t \in Task, Between(t),
           NEW label \in PC, Goto(t, label), ~Between(t)', label # "put_creds",
           NEW state \in {"authorized", "deauthorized"},
           state = "authorized" <=> pc[t] = "put_authorized",
           profile' = [profile EXCEPT ![delivery[t].org] = state],
           settled' = [settled EXCEPT ![delivery[t].org] = alone[t]],
           UNCHANGED <<creds, alone, delivery, token>>
    PROVE  PairInv'
<1> USE DEF TypeInv, TypeOK, Handling
<1> DEFINE o == delivery[t].org
<1>1. o \in Org
  BY DEF Delivery, Between, Busy
<1>2. \A u \in Task : u # t => pc'[u] = pc[u]
  BY DEF Goto
<1>3. pc'[t] = label
  BY DEF Goto
<1>4. TokenInHand'
  BY <1>2, <1>3 DEF PairInv, TokenInHand
<1>5. SettledPairAgrees'
  <2> SUFFICES ASSUME NEW p \in Org, settled'[p] PROVE PairAgrees(p)'
    BY DEF SettledPairAgrees
  <2>1. CASE p = o
    <3>1. alone[t]
      BY <1>1, <2>1
    <3>2. Stored(o) <=> pc[t] = "put_authorized"
      BY <3>1 DEF PairInv, AloneIsHalfDone
    <3>3. profile'[o] = state
      BY <1>1
    <3> QED BY <2>1, <3>2, <3>3 DEF PairAgrees, Stored
  <2>2. CASE p # o
    BY <1>1, <2>2 DEF PairInv, SettledPairAgrees, PairAgrees, Stored
  <2> QED BY <2>1, <2>2
<1>6. ClosedWhenSettled'
  <2> SUFFICES ASSUME NEW p \in Org, settled'[p], NEW u \in Task
               PROVE  ~PairOpen(u, p)'
    BY DEF ClosedWhenSettled
  <2>1. CASE u = t
    BY <2>1 DEF PairOpen
  <2>2. CASE u # t /\ p = o
    <3>1. alone[t]
      BY <1>1, <2>2
    <3> QED BY <1>2, <2>2, <3>1 DEF PairInv, AloneIsHalfDone, PairOpen, Between
  <2>3. CASE u # t /\ p # o
    BY <1>1, <1>2, <2>3 DEF PairInv, ClosedWhenSettled, PairOpen, Between
  <2> QED BY <2>1, <2>2, <2>3
<1>7. AloneIsHalfDone'
  BY <1>2 DEF PairInv, AloneIsHalfDone, PairOpen, Between, Stored
<1> QED BY <1>4, <1>5, <1>6, <1>7 DEF PairInv

\* PairInv is inductive relative to the types.
LEMMA PairStep == TypeInv /\ TypeInv' /\ PairInv /\ [Next]_vars => PairInv'
<1> SUFFICES ASSUME TypeInv, TypeInv', PairInv, [Next]_vars PROVE PairInv'
  OBVIOUS
<1> USE DEF TypeInv, TypeOK, PC, Handling, Busy, Delivery, Goto, Unacknowledged
<1>1. ASSUME NEW o \in Org, ChangeConsent(o) PROVE PairInv'
  BY <1>1, PairFrame DEF ChangeConsent, taskVars, Between, PairInv, TokenInHand
<1>2. ASSUME NEW d \in outstanding, GiveUp(d) PROVE PairInv'
  BY <1>2, PairFrame DEF GiveUp, taskVars, Between, PairInv, TokenInHand
<1>3. ASSUME NEW t \in Task, NEW d \in outstanding, Receive(t, d) PROVE PairInv'
  BY <1>3, PairFrame DEF Receive, Between, PairInv, TokenInHand
<1>4. ASSUME NEW t \in Task, Step(t) PROVE PairInv'
  <2> USE DEF PairInv, TokenInHand, Between
  <2>1. CASE FetchOrgToken(t)
    <3>1. epoch[delivery[t].org] # 0
      BY <2>1 DEF FetchOrgToken, Consented
    <3>2. TokenInHand'
      BY <2>1, <3>1 DEF FetchOrgToken
    <3> QED BY <2>1, <3>2, PairFrame DEF FetchOrgToken
  <2>2. CASE FetchRefused(t)
    BY <2>2, PairFrame DEF FetchRefused
  <2>3. CASE AuditFailure(t)
    BY <2>3, PairFrame DEF AuditFailure
  <2>4. CASE PutCreds(t)
    <3>1. Busy(t) /\ ~Between(t) /\ token[t] \in 0 .. MaxEpoch /\ token[t] # 0
      BY <2>4 DEF PutCreds
    <3> QED BY <2>4, <3>1, PairOpens DEF PutCreds
  <2>5. CASE PutAuthorized(t)
    <3>1. Between(t) /\ ~Between(t)'
      BY <2>5 DEF PutAuthorized
    <3> DEFINE label == IF AutoRegister THEN "check_url" ELSE "audit"
    <3>2. label \in PC /\ label # "put_creds"
      OBVIOUS
    <3> QED BY <2>5, <3>1, <3>2, PairCloses DEF PutAuthorized
  <2>6. CASE DeleteCreds(t)
    <3>1. Busy(t) /\ ~Between(t) /\ 0 \in 0 .. MaxEpoch
      BY <2>6, BoundAssumption DEF DeleteCreds
    <3> QED BY <2>6, <3>1, PairOpens DEF DeleteCreds
  <2>7. CASE PutDeauthorized(t)
    <3>1. Between(t) /\ ~Between(t)'
      BY <2>7 DEF PutDeauthorized
    <3> QED BY <2>7, <3>1, PairCloses DEF PutDeauthorized
  <2>8. CASE CheckUrl(t)
    BY <2>8, PairFrame DEF CheckUrl
  <2>9. CASE CreateSource(t)
    BY <2>9, PairFrame DEF CreateSource
  <2>10. CASE RegisterFailed(t)
    BY <2>10, PairFrame DEF RegisterFailed
  <2>11. CASE RecordAudit(t)
    BY <2>11, PairFrame DEF RecordAudit
  <2>12. CASE Acknowledge(t)
    BY <2>12, PairFrame DEF Acknowledge
  <2> QED BY <1>4, <2>1, <2>2, <2>3, <2>4, <2>5, <2>6, <2>7, <2>8, <2>9,
             <2>10, <2>11, <2>12 DEF Step
<1>5. ASSUME NEW t \in Task, ServerError(t) PROVE PairInv'
  BY <1>5, PairFrame DEF ServerError, Between, PairInv, TokenInHand
<1>6. ASSUME NEW t \in Task, NotAuthenticated(t) PROVE PairInv'
  BY <1>6, PairFrame DEF NotAuthenticated, Between, PairInv, TokenInHand
<1>7. ASSUME NEW t \in Task, Crash(t) PROVE PairInv'
  BY <1>7, PairFrame DEF Crash, Between, PairInv, TokenInHand
<1>8. CASE UNCHANGED vars
  BY <1>8, PairFrame DEF vars, tableVars, Between, PairInv, TokenInHand
<1> QED BY <1>1, <1>2, <1>3, <1>4, <1>5, <1>6, <1>7, <1>8 DEF Next

\* Whatever overlaps, failures and crashes came before, a token-storage call
\* that nothing overlapped leaves CREDS and PROFILE agreeing.
THEOREM SettledPairs == Spec => []SettledPairAgrees
<1>1. Init => PairInv
  BY DEF Init, PairInv, TokenInHand, SettledPairAgrees, ClosedWhenSettled,
         AloneIsHalfDone, PairAgrees, Stored, PairOpen, Between
<1>2. TypeInv /\ TypeInv' /\ PairInv /\ [Next]_vars => PairInv'
  BY PairStep
<1>3. PairInv => SettledPairAgrees
  BY DEF PairInv
<1> QED BY <1>1, <1>2, <1>3, TypeInvariant, PTL DEF Spec

-----------------------------------------------------------------------------
(* Deliveries in turn.  When Webex sends an organization one delivery at a  *)
(* time, oldest first, the table converges to the consent in force.  The    *)
(* invariant follows the newest delivery from its emission to its answer.   *)

OneAtATime ==
    \A t, u \in Task : Busy(t) /\ On(u, delivery[t].org) => t = u

\* What the consent in force asks of CREDS.
Wanted(o) == IF Consented(o) THEN epoch[o] ELSE 0

AppliedStage == {"check_url", "create", "audit", "ack"}
StoredStage == AppliedStage \cup {"put_authorized", "put_deauthorized"}

\* A task is on the branch of its event, holds what the branch needs and, on
\* the newest delivery, has fetched or stored what is wanted.
TaskOk(t) ==
    LET o == delivery[t].org
    IN  /\ pc[t] \in {"fetch", "put_creds", "put_authorized", "check_url", "create"}
             => Grants(delivery[t])
        /\ pc[t] \in {"delete_creds", "put_deauthorized"} => ~Grants(delivery[t])
        /\ pc[t] = "put_creds" => token[t] # 0
        /\ pc[t] = "put_authorized" => Stored(o)
        /\ pc[t] = "put_deauthorized" => ~Stored(o)
        /\ pc[t] \in AppliedStage => Applied(t)
        /\ pc[t] = "create" => sources[o] = 0
        /\ delivery[t].epoch = epoch[o] =>
             /\ pc[t] = "put_creds" => token[t] = Wanted(o)
             /\ pc[t] \in StoredStage => creds[o] = Wanted(o)

\* No delivery is newer than the consent change it reports, and the one in
\* hand is the oldest its organization has outstanding.
InOrder ==
    /\ \A d \in outstanding : d.epoch <= epoch[d.org]
    /\ \A t \in Task : Busy(t) =>
         /\ delivery[t].epoch <= epoch[delivery[t].org]
         /\ \A d \in outstanding : d.org = delivery[t].org
                                     => delivery[t].epoch <= d.epoch

\* Once the newest delivery has been answered, nothing of the organization is
\* running and the table is in sync.
Answered(o) == \A d \in outstanding : d.org = o => d.epoch # epoch[o]
AnsweredInSync ==
    \A o \in Org : ~lost[o] /\ Answered(o) => InSync(o) /\ Quiet(o)

SerialInv ==
    /\ OneAtATime
    /\ \A t \in Task : TaskOk(t)
    /\ \A o \in Org : sources[o] <= 1
    /\ InOrder
    /\ AnsweredInSync

\* A step by which a busy task works on its own organization, and ends in a
\* state that is right for itself, disturbs nothing else.
LEMMA TaskWorks ==
    ASSUME TypeInv, TypeInv', SerialInv, NEW t \in Task, Busy(t), Busy(t)',
           \A u \in Task : u # t => pc'[u] = pc[u] /\ token'[u] = token[u],
           \A o \in Org : o # delivery[t].org =>
             /\ creds'[o] = creds[o]
             /\ profile'[o] = profile[o]
             /\ sources'[o] = sources[o],
           UNCHANGED <<epoch, outstanding, lost, delivery>>,
           TaskOk(t)', sources'[delivery[t].org] <= 1
    PROVE  SerialInv'
<1> USE DEF TypeInv, TypeOK, Handling, Delivery
<1>1. ASSUME NEW u \in Task PROVE Busy(u)' <=> Busy(u)
  BY DEF Busy
<1>2. OneAtATime'
  BY <1>1 DEF SerialInv, OneAtATime, On
<1>3. ASSUME NEW u \in Task, u # t PROVE TaskOk(u)'
  <2>1. TaskOk(u)
    BY DEF SerialInv
  <2>2. CASE pc[u] = "idle"
    BY <1>3, <2>2 DEF TaskOk, StoredStage, AppliedStage
  <2>3. CASE Busy(u)
    <3>1. delivery[u].org \in Org /\ delivery[u].org # delivery[t].org
      BY <1>3, <2>3 DEF SerialInv, OneAtATime, On
    <3> QED BY <1>3, <2>1, <3>1
            DEF TaskOk, Stored, Applied, Wanted, Consented, Grants
  <2> QED BY <2>2, <2>3 DEF Busy
<1>4. \A o \in Org : sources'[o] <= 1
  BY DEF SerialInv
<1>5. InOrder'
  BY <1>1 DEF SerialInv, InOrder
<1>6. AnsweredInSync'
  <2> SUFFICES ASSUME NEW o \in Org, ~lost[o], Answered(o)
               PROVE  InSync(o)' /\ Quiet(o)'
    BY DEF AnsweredInSync, Answered
  <2>1. InSync(o) /\ Quiet(o)
    BY DEF SerialInv, AnsweredInSync
  <2>2. o # delivery[t].org
    BY <2>1 DEF On, Quiet
  <2> QED BY <1>1, <2>1, <2>2 DEF InSync, Quiet, PairAgrees, Stored, Consented, On
<1> QED BY <1>2, <1>3, <1>4, <1>5, <1>6 DEF SerialInv

\* A task that ends without a 2xx leaves an organization nothing runs for.
LEMMA TaskLeaves ==
    ASSUME TypeInv, TypeInv', SerialInv, NEW t \in Task, Unacknowledged(t),
           UNCHANGED tableVars
    PROVE  SerialInv'
<1> USE DEF TypeInv, TypeOK, Handling, Unacknowledged, Goto, webexVars, tableVars
<1>1. ASSUME NEW u \in Task PROVE Busy(u)' => Busy(u) /\ u # t
  BY DEF Busy
<1>2. ASSUME NEW u \in Task, u # t
      PROVE  pc'[u] = pc[u] /\ delivery'[u] = delivery[u] /\ token'[u] = token[u]
  BY <1>2
<1>3. OneAtATime'
  BY <1>1, <1>2 DEF SerialInv, OneAtATime, On
<1>4. ASSUME NEW u \in Task PROVE TaskOk(u)'
  <2>1. CASE u = t
    BY <2>1 DEF TaskOk, StoredStage, AppliedStage
  <2>2. CASE u # t
    BY <1>2, <2>2 DEF SerialInv, TaskOk, Stored, Applied, Wanted, Consented
  <2> QED BY <2>1, <2>2
<1>5. \A o \in Org : sources'[o] <= 1
  BY DEF SerialInv
<1>6. InOrder'
  BY <1>1, <1>2 DEF SerialInv, InOrder
<1>7. AnsweredInSync'
  BY <1>1, <1>2 DEF SerialInv, AnsweredInSync, Answered, InSync, Quiet, PairAgrees,
                    Stored, Consented, On
<1> QED BY <1>3, <1>4, <1>5, <1>6, <1>7 DEF SerialInv

\* SerialInv is inductive, relative to the types, when deliveries come in turn.
LEMMA SerialStep ==
    ASSUME Serial, TypeInv, TypeInv', SerialInv, [Next]_vars PROVE SerialInv'
<1> USE DEF TypeInv, TypeOK, Handling, Delivery
<1>1. ASSUME NEW o \in Org, ChangeConsent(o) PROVE SerialInv'
  <2> USE DEF ChangeConsent, taskVars, tableVars
  <2>1. /\ UNCHANGED <<creds, profile, sources, pc, delivery, token>>
        /\ epoch'[o] = epoch[o] + 1
        /\ \A p \in Org : p # o => epoch'[p] = epoch[p] /\ lost'[p] = lost[p]
    BY <1>1
  <2>2. OneAtATime'
    BY <2>1 DEF SerialInv, OneAtATime, On, Busy
  <2>3. InOrder'
    BY <1>1, <2>1 DEF SerialInv, InOrder, Busy
  <2>4. ASSUME NEW t \in Task PROVE TaskOk(t)'
    <3>1. CASE Busy(t) /\ delivery[t].org = o
      <4>1. delivery[t].epoch <= epoch[o] /\ epoch[o] \in Nat /\ delivery[t].epoch \in Nat
        BY <3>1 DEF SerialInv, InOrder, Busy
      <4>2. delivery[t].epoch # epoch'[o]
        BY <2>1, <4>1
      <4> QED BY <2>1, <3>1, <4>2 DEF SerialInv, TaskOk, Stored, Applied
    <3>2. CASE Busy(t) /\ delivery[t].org # o
      <4>1. delivery[t].org \in Org
        BY <3>2
      <4> QED BY <2>1, <3>2, <4>1 DEF SerialInv, TaskOk, Stored, Applied,
                                      Wanted, Consented
    <3>3. CASE pc[t] = "idle"
      BY <2>1, <3>3 DEF TaskOk, StoredStage, AppliedStage
    <3> QED BY <3>1, <3>2, <3>3 DEF Busy
  <2>5. AnsweredInSync'
    <3> SUFFICES ASSUME NEW p \in Org, ~lost'[p], Answered(p)'
                 PROVE  InSync(p)' /\ Quiet(p)'
      BY DEF AnsweredInSync
    <3> DEFINE news == [org |-> o, epoch |-> epoch[o] + 1]
    <3>1. outstanding' = outstanding \cup {news}
      BY <1>1
    <3>2. p # o
      <4>1. news \in outstanding' /\ news.org = o /\ news.epoch = epoch'[o]
        BY <2>1, <3>1
      <4> QED BY <4>1 DEF Answered
    <3>3. Answered(p) /\ ~lost[p] /\ news.org # p
      BY <2>1, <3>1, <3>2 DEF Answered
    <3>4. InSync(p) /\ Quiet(p)
      BY <3>3 DEF SerialInv, AnsweredInSync
    <3>5. InSync(p)'
      BY <2>1, <3>2, <3>4 DEF InSync, PairAgrees, Stored, Consented
    <3>6. Quiet(p)'
      BY <2>1, <3>1, <3>3, <3>4 DEF Quiet, On, Busy
    <3> QED BY <3>5, <3>6
  <2> QED BY <2>1, <2>2, <2>3, <2>4, <2>5 DEF SerialInv
<1>2. ASSUME NEW d \in outstanding, GiveUp(d) PROVE SerialInv'
  <2> USE DEF GiveUp, taskVars, tableVars
  <2>1. /\ UNCHANGED <<epoch, creds, profile, sources, pc, delivery, token>>
        /\ outstanding' = outstanding \ {d}
        /\ \A o \in Org : ~lost'[o] => ~lost[o] /\ ~(d.org = o /\ d.epoch = epoch[o])
    BY <1>2
  <2>2. OneAtATime' /\ InOrder' /\ \A o \in Org : sources'[o] <= 1
    BY <2>1 DEF SerialInv, OneAtATime, InOrder, On, Busy
  <2>3. \A t \in Task : TaskOk(t)'
    BY <2>1 DEF SerialInv, TaskOk, Stored, Applied, Wanted, Consented
  <2>4. AnsweredInSync'
    BY <2>1 DEF SerialInv, AnsweredInSync, Answered, InSync, Quiet, PairAgrees,
                Stored, Consented, On, Busy
  <2> QED BY <2>2, <2>3, <2>4 DEF SerialInv
<1>3. ASSUME NEW t \in Task, NEW d \in outstanding, Receive(t, d) PROVE SerialInv'
  <2> USE DEF Receive, Goto, webexVars, tableVars
  <2>1. /\ UNCHANGED <<epoch, outstanding, lost, sources, creds, profile>>
        /\ delivery'[t] = d
        /\ pc'[t] = IF Grants(d) THEN "fetch" ELSE "delete_creds"
        /\ \A u \in Task : u # t =>
              pc'[u] = pc[u] /\ delivery'[u] = delivery[u] /\ token'[u] = token[u]
    BY <1>3
  <2>2. InTurn(d)
    BY <1>3
  <2>3. OneAtATime'
    BY <1>3, <2>1, <2>2 DEF SerialInv, OneAtATime, On, Busy, InTurn
  <2>4. ASSUME NEW u \in Task PROVE TaskOk(u)'
    <3>1. CASE u = t
      BY <2>1, <3>1 DEF TaskOk, StoredStage, AppliedStage, Grants
    <3>2. CASE u # t
      BY <2>1, <3>2 DEF SerialInv, TaskOk, Stored, Applied, Wanted, Consented
    <3> QED BY <3>1, <3>2
  <2>5. InOrder'
    BY <1>3, <2>1, <2>2 DEF SerialInv, InOrder, Busy, InTurn
  <2>6. AnsweredInSync'
    <3> SUFFICES ASSUME NEW o \in Org, ~lost[o], Answered(o)
                 PROVE  InSync(o)' /\ Quiet(o)'
      BY <2>1 DEF AnsweredInSync, Answered
    <3>1. InSync(o) /\ Quiet(o)
      BY DEF SerialInv, AnsweredInSync
    <3>2. d.org # o
      BY <3>1 DEF Quiet
    <3> QED BY <1>3, <2>1, <3>1, <3>2 DEF InSync, Quiet, PairAgrees, Stored,
                                         Consented, On, Busy
  <2> QED BY <2>1, <2>3, <2>4, <2>5, <2>6 DEF SerialInv
<1>4. ASSUME NEW t \in Task, Step(t) PROVE SerialInv'
  <2> USE DEF Goto, webexVars, tableVars
  <2>1. TaskOk(t) /\ \A o \in Org : sources[o] <= 1
    BY DEF SerialInv
  <2>2. CASE FetchOrgToken(t)
    <3>1. TaskOk(t)'
      BY <2>1, <2>2 DEF FetchOrgToken, TaskOk, StoredStage, AppliedStage,
                        Consented, Wanted
    <3> QED BY <2>1, <2>2, <3>1, TaskWorks DEF FetchOrgToken, Busy
  <2>3. CASE FetchRefused(t)
    <3>1. CASE Unacknowledged(t)
      BY <2>3, <3>1, TaskLeaves DEF FetchRefused
    <3>2. CASE Goto(t, "audit_failure") /\ UNCHANGED <<webexVars, delivery, token>>
      <4>1. TaskOk(t)'
        BY <3>2 DEF TaskOk, StoredStage, AppliedStage
      <4> QED BY <2>1, <2>3, <3>2, <4>1, TaskWorks DEF FetchRefused, Busy
    <3> QED BY <2>3, <3>1, <3>2 DEF FetchRefused
  <2>4. CASE AuditFailure(t)
    BY <2>4, TaskLeaves DEF AuditFailure
  <2>5. CASE PutCreds(t)
    <3>1. creds'[delivery[t].org] = token[t] /\ pc'[t] = "put_authorized"
      BY <2>5 DEF PutCreds, Busy
    <3>2. TaskOk(t)'
      BY <2>1, <2>5, <3>1 DEF PutCreds, TaskOk, StoredStage, AppliedStage, Stored,
                              Consented, Wanted
    <3> QED BY <2>1, <2>5, <3>2, TaskWorks DEF PutCreds, Busy
  <2>6. CASE PutAuthorized(t)
    <3>1. TaskOk(t)'
      BY <2>1, <2>6 DEF PutAuthorized, TaskOk, StoredStage, AppliedStage, Stored,
                        Applied, Consented, Wanted
    <3> QED BY <2>1, <2>6, <3>1, TaskWorks DEF PutAuthorized, Busy
  <2>7. CASE DeleteCreds(t)
    <3>1. creds'[delivery[t].org] = 0 /\ pc'[t] = "put_deauthorized"
      BY <2>7 DEF DeleteCreds, Busy
    <3>2. TaskOk(t)'
      BY <2>1, <2>7, <3>1 DEF DeleteCreds, TaskOk, StoredStage, AppliedStage, Stored,
                              Consented, Wanted, Grants
    <3> QED BY <2>1, <2>7, <3>2, TaskWorks DEF DeleteCreds, Busy
  <2>8. CASE PutDeauthorized(t)
    <3>1. TaskOk(t)'
      BY <2>1, <2>8 DEF PutDeauthorized, TaskOk, StoredStage, AppliedStage, Stored,
                        Applied, Consented, Wanted
    <3> QED BY <2>1, <2>8, <3>1, TaskWorks DEF PutDeauthorized, Busy
  <2>9. CASE CheckUrl(t)
    <3>1. delivery[t].org \in Org
      BY <2>9 DEF CheckUrl, Busy
    <3>2. \/ pc'[t] = "audit"
          \/ pc'[t] = "create" /\ sources[delivery[t].org] = 0
      BY <2>9, <3>1 DEF CheckUrl
    <3>3. TaskOk(t)'
      BY <2>1, <2>9, <3>2 DEF CheckUrl, TaskOk, StoredStage, AppliedStage, Stored,
                              Applied, Consented, Wanted
    <3> QED BY <2>1, <2>9, <3>1, <3>2, <3>3, TaskWorks DEF CheckUrl, Busy
  <2>10. CASE CreateSource(t)
    <3>1. sources'[delivery[t].org] = 1
      BY <2>1, <2>10 DEF CreateSource, TaskOk
    <3>2. TaskOk(t)'
      BY <2>1, <2>10 DEF CreateSource, TaskOk, StoredStage, AppliedStage, Stored,
                         Applied, Consented, Wanted
    <3> QED BY <2>1, <2>10, <3>1, <3>2, TaskWorks DEF CreateSource, Busy
  <2>11. CASE RegisterFailed(t)
    <3>1. TaskOk(t)'
      BY <2>1, <2>11 DEF RegisterFailed, TaskOk, StoredStage, AppliedStage, Stored,
                         Applied, Consented, Wanted
    <3> QED BY <2>1, <2>11, <3>1, TaskWorks DEF RegisterFailed, Busy
  <2>12. CASE RecordAudit(t)
    <3>1. TaskOk(t)'
      BY <2>1, <2>12 DEF RecordAudit, TaskOk, StoredStage, AppliedStage, Stored,
                         Applied, Consented, Wanted
    <3> QED BY <2>1, <2>12, <3>1, TaskWorks DEF RecordAudit, Busy
  <2>13. CASE Acknowledge(t)
    <3>1. /\ UNCHANGED <<epoch, lost, sources, creds, profile>>
          /\ outstanding' = outstanding \ {delivery[t]}
          /\ pc[t] = "ack" /\ pc'[t] = "idle" /\ delivery[t] \in Delivery
          /\ \A u \in Task : u # t => /\ pc'[u] = pc[u]
                                     /\ delivery'[u] = delivery[u]
                                     /\ token'[u] = token[u]
      BY <2>13 DEF Acknowledge, Busy
    <3>2. OneAtATime' /\ InOrder'
      <4>1. ASSUME NEW u \in Task, Busy(u)'
            PROVE  u # t /\ Busy(u) /\ delivery'[u] = delivery[u]
        BY <3>1, <4>1 DEF Busy
      <4>2. OneAtATime'
        BY <4>1 DEF SerialInv, OneAtATime, On
      <4>3. InOrder'
        BY <3>1, <4>1 DEF SerialInv, InOrder
      <4> QED BY <4>2, <4>3
    <3>3. ASSUME NEW u \in Task PROVE TaskOk(u)'
      <4>1. CASE u = t
        BY <3>1, <4>1 DEF TaskOk, StoredStage, AppliedStage
      <4>2. CASE u # t
        BY <3>1, <4>2 DEF SerialInv, TaskOk, Stored, Applied, Wanted, Consented
      <4> QED BY <4>1, <4>2
    <3>4. AnsweredInSync'
      <4> SUFFICES ASSUME NEW p \in Org, ~lost[p], Answered(p)'
                   PROVE  InSync(p)' /\ Quiet(p)'
        BY <3>1 DEF AnsweredInSync
      <4>1. CASE Answered(p)
        BY <3>1, <4>1 DEF SerialInv, AnsweredInSync, InSync, Quiet, PairAgrees,
                          Stored, Consented, On, Busy
      <4>2. CASE ~Answered(p)
        <5>1. PICK d \in outstanding : d.org = p /\ d.epoch = epoch[p]
          BY <4>2 DEF Answered
        <5>2. d = delivery[t]
          BY <3>1, <5>1 DEF Answered
        <5>3. InSync(p)'
          <6>1. Applied(t) /\ creds[p] = Wanted(p)
            BY <2>1, <3>1, <5>1, <5>2 DEF TaskOk, StoredStage, AppliedStage
          <6>2. PairAgrees(p)
            BY <5>1, <5>2, <6>1 DEF Applied, PairAgrees
          <6> QED BY <3>1, <6>1, <6>2 DEF InSync, Wanted, PairAgrees, Stored, Consented
        <5>4. \A e \in outstanding' : e.org # p
          <6> SUFFICES ASSUME NEW e \in outstanding, e # d, e.org = p PROVE FALSE
            BY <3>1, <5>2
          <6>1. d.epoch <= e.epoch /\ e.epoch <= epoch[p]
            BY <3>1, <5>1, <5>2 DEF SerialInv, InOrder, Busy
          <6>2. e.epoch \in Nat /\ d.epoch \in Nat /\ epoch[p] \in Nat
            BY BoundAssumption
          <6>3. e.epoch = d.epoch
            BY <5>1, <6>1, <6>2
          <6> QED BY <5>1, <6>3
        <5>5. ASSUME NEW u \in Task, On(u, p)' PROVE FALSE
          <6>1. u # t /\ On(u, p)
            BY <3>1, <5>5 DEF On, Busy
          <6> QED BY <3>1, <5>1, <5>2, <6>1 DEF SerialInv, OneAtATime, Busy
        <5> QED BY <5>3, <5>4, <5>5 DEF Quiet
      <4> QED BY <4>1, <4>2
    <3> QED BY <2>1, <3>1, <3>2, <3>3, <3>4 DEF SerialInv
  <2> QED BY <1>4, <2>2, <2>3, <2>4, <2>5, <2>6, <2>7, <2>8, <2>9, <2>10,
             <2>11, <2>12, <2>13 DEF Step
<1>5. ASSUME NEW t \in Task, ServerError(t) PROVE SerialInv'
  BY <1>5, TaskLeaves DEF ServerError
<1>6. ASSUME NEW t \in Task, NotAuthenticated(t) PROVE SerialInv'
  <2>1. TaskOk(t)'
    BY <1>6 DEF NotAuthenticated, Goto, TaskOk, StoredStage, AppliedStage
  <2> QED BY <1>6, <2>1, TaskWorks
          DEF NotAuthenticated, Goto, webexVars, tableVars, Busy, SerialInv
<1>7. ASSUME NEW t \in Task, Crash(t) PROVE SerialInv'
  BY <1>7, TaskLeaves DEF Crash
<1>8. CASE UNCHANGED vars
  BY <1>8 DEF vars, SerialInv, OneAtATime, TaskOk, InOrder, AnsweredInSync,
              Answered, InSync, Quiet, PairAgrees, Stored, Applied, Wanted,
              Consented, On, Busy
<1> QED BY <1>1, <1>2, <1>3, <1>4, <1>5, <1>6, <1>7, <1>8 DEF Next

\* Serial is a constant: either the invariant holds or nothing is claimed.
LEMMA SerialInvariant == Spec => [](Serial => SerialInv)
<1>1. Init => SerialInv
  BY DEF Init, SerialInv, OneAtATime, TaskOk, StoredStage, AppliedStage, InOrder,
         AnsweredInSync, InSync, Quiet, PairAgrees, Stored, Consented, On, Busy
<1>2. TypeInv /\ TypeInv' /\ (Serial => SerialInv) /\ [Next]_vars => (Serial => SerialInv)'
  BY SerialStep
<1> QED BY <1>1, <1>2, TypeInvariant, PTL DEF Spec

\* Duplicate and retried authorized deliveries register the URL once when they
\* do not overlap.
THEOREM OneSource == Spec => []OneSourceWhenSerial
<1>1. (Serial => SerialInv) => OneSourceWhenSerial
  BY DEF SerialInv, OneSourceWhenSerial
<1> QED BY <1>1, SerialInvariant, PTL

\* No 200 is sent for a delivery whose writes are not all in the table.
THEOREM AcknowledgedApplied == Spec => []AcknowledgedIsApplied
<1>1. (Serial => SerialInv) => AcknowledgedIsApplied
  BY DEF SerialInv, TaskOk, AppliedStage, AcknowledgedIsApplied
<1> QED BY <1>1, SerialInvariant, PTL

\* An organization whose deliveries came in turn and have all been dealt with
\* is in sync with the consent in force, whatever failed on the way.
THEOREM QuietInSync == Spec => []QuietIsInSync
<1>1. (Serial => SerialInv) => QuietIsInSync
  BY DEF SerialInv, AnsweredInSync, Answered, Quiet, QuietIsInSync
<1> QED BY <1>1, SerialInvariant, PTL

-----------------------------------------------------------------------------
(* The consent register.  An answer must find a token issued at the event's *)
(* own change or later, which SerialInv says of the newest event only.      *)

\* The token of change k shows the grant that task t was told of.
Granted(t, k) ==
    /\ k \in delivery[t].epoch .. epoch[delivery[t].org]
    /\ k % 2 = 1

FreshToken(t) ==
    /\ pc[t] = "put_creds" => Granted(t, token[t])
    /\ pc[t] \in AppliedStage \cup {"put_authorized"} /\ Grants(delivery[t])
         => Granted(t, creds[delivery[t].org])

FreshInv == \A t \in Task : FreshToken(t)

\* A task that stands still, on credentials nobody writes, stays fresh while
\* the consent moves on.
LEMMA FreshFrame ==
    ASSUME TypeInv, TypeInv', NEW t \in Task, FreshToken(t),
           pc'[t] = pc[t], token'[t] = token[t], delivery'[t] = delivery[t],
           Busy(t) => /\ creds'[delivery[t].org] = creds[delivery[t].org]
                      /\ epoch[delivery[t].org] <= epoch'[delivery[t].org]
    PROVE  FreshToken(t)'
<1> USE DEF FreshToken, AppliedStage
<1>1. CASE pc[t] = "idle"
  BY <1>1
<1>2. CASE Busy(t)
  <2>1. delivery[t].org \in Org /\ delivery[t].epoch \in Nat
    BY <1>2, BoundAssumption DEF TypeInv, Handling, Delivery
  <2> DEFINE o == delivery[t].org
  <2>2. {epoch[o], epoch'[o], token[t], creds[o]} \subseteq Nat
    BY <2>1, BoundAssumption DEF TypeInv, TypeOK
  <2>3. ASSUME NEW k \in Nat, Granted(t, k) PROVE Granted(t, k)'
    BY <1>2, <2>1, <2>2, <2>3 DEF Granted
  <2>4. Grants(delivery[t])' <=> Grants(delivery[t])
    BY DEF Grants
  <2>5. (delivery[t].org)' = delivery[t].org
    OBVIOUS
  <2> QED BY <1>2, <2>2, <2>3, <2>4, <2>5
<1> QED BY <1>1, <1>2 DEF Busy

\* The step of one busy task leaves the others fresh: nobody else works on its
\* organization.
LEMMA FreshOthers ==
    ASSUME TypeInv, TypeInv', SerialInv, FreshInv, NEW t \in Task, Busy(t),
           \A u \in Task : u # t => /\ pc'[u] = pc[u]
                                   /\ token'[u] = token[u]
                                   /\ delivery'[u] = delivery[u],
           \A o \in Org : o # delivery[t].org => creds'[o] = creds[o],
           UNCHANGED epoch, FreshToken(t)'
    PROVE  FreshInv'
<1> SUFFICES ASSUME NEW u \in Task, u # t PROVE FreshToken(u)'
  BY DEF FreshInv
<1>1. Busy(u) => delivery[u].org \in Org /\ delivery[u].org # delivery[t].org
  BY DEF SerialInv, OneAtATime, On, TypeInv, Handling, Delivery
<1>2. FreshToken(u)
  BY DEF FreshInv
<1>3. Busy(u) => epoch[delivery[u].org] <= epoch'[delivery[u].org]
  BY <1>1, BoundAssumption DEF TypeInv, TypeOK
<1> QED BY <1>1, <1>2, <1>3, FreshFrame

\* FreshInv is inductive, relative to SerialInv, when deliveries come in turn.
LEMMA FreshStep ==
    ASSUME Serial, TypeInv, TypeInv', SerialInv, FreshInv, [Next]_vars
    PROVE  FreshInv'
<1> USE DEF TypeInv, TypeOK, Handling, Delivery
<1>1. ASSUME NEW o \in Org, ChangeConsent(o) PROVE FreshInv'
  <2> SUFFICES ASSUME NEW t \in Task PROVE FreshToken(t)'
    BY DEF FreshInv
  <2>1. UNCHANGED <<creds, pc, delivery, token>>
    BY <1>1 DEF ChangeConsent, tableVars, taskVars
  <2>2. \A p \in Org : epoch[p] <= epoch'[p]
    BY <1>1, BoundAssumption DEF ChangeConsent
  <2>3. Busy(t) => delivery[t].org \in Org
    OBVIOUS
  <2> QED BY <2>1, <2>2, <2>3, FreshFrame DEF FreshInv
<1>2. ASSUME NEW d \in outstanding, GiveUp(d) PROVE FreshInv'
  BY <1>2 DEF GiveUp, tableVars, taskVars, FreshInv, FreshToken, Granted
<1>3. ASSUME NEW t \in Task, NEW d \in outstanding, Receive(t, d) PROVE FreshInv'
  <2>1. ASSUME NEW u \in Task, u # t PROVE FreshToken(u)'
    BY <1>3, <2>1 DEF Receive, Goto, webexVars, tableVars, FreshInv, FreshToken, Granted
  <2>2. FreshToken(t)'
    BY <1>3 DEF Receive, Goto, FreshToken, AppliedStage
  <2> QED BY <2>1, <2>2 DEF FreshInv
<1>4. ASSUME NEW t \in Task, Unacknowledged(t) \/ Acknowledge(t), UNCHANGED tableVars
      PROVE  FreshInv'
  <2>1. ASSUME NEW u \in Task, u # t PROVE FreshToken(u)'
    BY <1>4, <2>1 DEF Unacknowledged, Acknowledge, Goto, webexVars, tableVars,
                      FreshInv, FreshToken, Granted
  <2>2. FreshToken(t)'
    BY <1>4 DEF Unacknowledged, Acknowledge, Goto, FreshToken, AppliedStage
  <2> QED BY <2>1, <2>2 DEF FreshInv
<1>5. ASSUME NEW t \in Task, FetchOrgToken(t) PROVE FreshInv'
  <2>1. /\ delivery[t] \in Delivery /\ Busy(t)
        /\ token'[t] = epoch[delivery[t].org] /\ pc'[t] = "put_creds"
    BY <1>5 DEF FetchOrgToken, Goto, Busy
  <2>2. Granted(t, epoch[delivery[t].org])
    BY <1>5, <2>1, BoundAssumption
       DEF FetchOrgToken, Consented, Granted, SerialInv, InOrder
  <2>3. FreshToken(t)'
    BY <1>5, <2>1, <2>2 DEF FetchOrgToken, webexVars, FreshToken, AppliedStage, Granted
  <2> QED BY <1>5, <2>1, <2>3, FreshOthers DEF FetchOrgToken, Goto, webexVars, tableVars
<1>6. ASSUME NEW t \in Task, PutCreds(t) PROVE FreshInv'
  <2>1. /\ delivery[t] \in Delivery /\ Busy(t)
        /\ creds'[delivery[t].org] = token[t] /\ pc'[t] = "put_authorized"
    BY <1>6 DEF PutCreds, Goto, Busy
  <2>2. FreshToken(t)'
    BY <1>6, <2>1 DEF PutCreds, webexVars, FreshInv, FreshToken, AppliedStage, Granted
  <2> QED BY <1>6, <2>1, <2>2, FreshOthers DEF PutCreds, Goto, webexVars
<1>7. ASSUME NEW t \in Task, DeleteCreds(t) PROVE FreshInv'
  <2>1. FreshToken(t)'
    BY <1>7 DEF DeleteCreds, Goto, FreshToken, AppliedStage
  <2> QED BY <1>7, <2>1, FreshOthers DEF DeleteCreds, Goto, Busy, webexVars
<1>8. ASSUME NEW t \in Task, Busy(t), pc'[t] # "put_creds",
             \/ pc[t] \in AppliedStage \cup {"put_authorized"}
             \/ pc'[t] \notin AppliedStage \cup {"put_authorized"}
             \/ ~Grants(delivery[t]),
             \A u \in Task : u # t => pc'[u] = pc[u],
             UNCHANGED <<epoch, creds, delivery, token>>
      PROVE  FreshInv'
  <2>1. FreshToken(t)'
    BY <1>8 DEF FreshInv, FreshToken, Granted, Grants
  <2> QED BY <1>8, <2>1, FreshOthers
<1>9. ASSUME NEW t \in Task, Step(t) PROVE FreshInv'
  <2> USE DEF Goto, webexVars, tableVars, Busy, AppliedStage
  <2>1. CASE FetchRefused(t)
    <3>1. CASE Unacknowledged(t)
      BY <1>4, <2>1, <3>1 DEF FetchRefused
    <3>2. CASE Goto(t, "audit_failure") /\ UNCHANGED <<webexVars, delivery, token>>
      BY <1>8, <2>1, <3>2 DEF FetchRefused
    <3> QED BY <2>1, <3>1, <3>2 DEF FetchRefused
  <2>2. CASE AuditFailure(t) \/ Acknowledge(t)
    BY <1>4, <2>2 DEF AuditFailure, Acknowledge
  <2>3. CASE PutAuthorized(t)
    BY <1>8, <2>3 DEF PutAuthorized
  <2>4. CASE PutDeauthorized(t)
    <3>1. ~Grants(delivery[t])
      BY <2>4 DEF PutDeauthorized, SerialInv, TaskOk
    <3> QED BY <1>8, <2>4, <3>1 DEF PutDeauthorized
  <2>5. CASE CheckUrl(t) \/ CreateSource(t) \/ RegisterFailed(t) \/ RecordAudit(t)
    BY <1>8, <2>5 DEF CheckUrl, CreateSource, RegisterFailed, RecordAudit
  <2> QED BY <1>5, <1>6, <1>7, <1>9, <2>1, <2>2, <2>3, <2>4, <2>5 DEF Step
<1>10. ASSUME NEW t \in Task, ServerError(t) \/ Crash(t) PROVE FreshInv'
  BY <1>4, <1>10 DEF ServerError, Crash
<1>11. ASSUME NEW t \in Task, NotAuthenticated(t) PROVE FreshInv'
  BY <1>8, <1>11 DEF NotAuthenticated, Goto, webexVars, tableVars, Busy, AppliedStage
<1>12. CASE UNCHANGED vars
  BY <1>12 DEF vars, FreshInv, FreshToken, Granted
<1> QED BY <1>1, <1>2, <1>3, <1>9, <1>10, <1>11, <1>12 DEF Next

\* The register's variables, as the mapping gives them.
ServingMap == [o \in Org |-> Serving(o)]
TokenMap == [o \in Org |-> IF PairAgrees(o) THEN creds[o] ELSE 0]
TornMap == [o \in Org |-> ~PairAgrees(o)]

\* While no task begins or ends, what is being served stays.
LEMMA ServingKept ==
    ASSUME \A t \in Task : Busy(t)' <=> Busy(t), UNCHANGED delivery
    PROVE  ServingMap' = ServingMap
BY DEF ServingMap, Serving, On

\* A task that works serves its organization alone.
LEMMA ServingOne ==
    ASSUME TypeInv, SerialInv, NEW t \in Task, Busy(t)
    PROVE  ServingMap[delivery[t].org] = {delivery[t].epoch}
<1>1. delivery[t].org \in Org /\ On(t, delivery[t].org)
  BY DEF TypeInv, Handling, Delivery, On
<1>2. \A u \in Task : On(u, delivery[t].org) => u = t
  BY DEF SerialInv, OneAtATime
<1> QED BY <1>1, <1>2 DEF ServingMap, Serving

\* When it ends, nothing of its organization is served.
LEMMA ServingEnds ==
    ASSUME TypeInv, SerialInv, NEW t \in Task, Busy(t), ~Busy(t)',
           \A u \in Task : u # t => pc'[u] = pc[u] /\ delivery'[u] = delivery[u]
    PROVE  ServingMap' = [ServingMap EXCEPT ![delivery[t].org] = {}]
<1>1. ASSUME NEW o \in Org, o = delivery[t].org PROVE Serving(o)' = {}
  BY <1>1 DEF Serving, On, SerialInv, OneAtATime, Busy
<1>2. ASSUME NEW o \in Org, o # delivery[t].org PROVE Serving(o)' = Serving(o)
  BY <1>2 DEF Serving, On, Busy
<1> QED BY <1>1, <1>2 DEF ServingMap

\* The row is not touched while CREDS and PROFILE are not.
LEMMA RowKept ==
    ASSUME UNCHANGED <<creds, profile>>
    PROVE  UNCHANGED <<TokenMap, TornMap>>
BY DEF TokenMap, TornMap, PairAgrees, Stored

\* A write of either item either leaves the row whole, showing the change the
\* task handles, or leaves it torn.
LEMMA RowWritten ==
    ASSUME TypeInv, TypeInv', SerialInv, NEW t \in Task, Busy(t), Busy(t)',
           \A u \in Task : u # t => pc'[u] = pc[u],
           \A o \in Org : o # delivery[t].org =>
                creds'[o] = creds[o] /\ profile'[o] = profile[o],
           UNCHANGED <<epoch, outstanding, lost, sources, delivery>>,
           PairAgrees(delivery[t].org)' =>
             IF Grants(delivery[t]) THEN Granted(t, creds'[delivery[t].org])
                                    ELSE creds'[delivery[t].org] = 0
    PROVE  Register!Tear(delivery[t].org) \/ Register!Write(delivery[t].org)
<1> DEFINE o == delivery[t].org
           n == delivery[t].epoch
           k == IF PairAgrees(o)' THEN creds'[o] ELSE 0
<1>1. o \in Org
  BY DEF TypeInv, Handling, Delivery
<1>2. ServingMap' = ServingMap /\ n \in ServingMap[o]
  BY ServingKept, ServingOne DEF Busy
<1>3. TokenMap' = [TokenMap EXCEPT ![o] = k]
  BY <1>1 DEF TokenMap, PairAgrees, Stored
<1>4. TornMap' = [TornMap EXCEPT ![o] = ~PairAgrees(o)']
  BY <1>1 DEF TornMap, PairAgrees, Stored
<1>5. CASE PairAgrees(o)'
  <2>1. k \in Register!Showing(n, epoch[o])
    <3>1. CASE Grants(delivery[t])
      BY <1>5, <3>1 DEF Register!Showing, Register!Grant, Grants, Granted
    <3>2. CASE ~Grants(delivery[t])
      BY <1>5, <3>2 DEF Register!Showing, Register!Grant, Grants
    <3> QED BY <3>1, <3>2
  <2>2. TornMap' = [TornMap EXCEPT ![o] = FALSE]
    BY <1>4, <1>5
  <2>3. Register!Write(o)
    BY <1>2, <1>3, <2>1, <2>2 DEF Register!Write, ServingMap, TokenMap, TornMap
  <2> QED BY <2>3
<1>6. CASE ~PairAgrees(o)'
  <2>1. TornMap' = [TornMap EXCEPT ![o] = TRUE] /\ TokenMap' = [TokenMap EXCEPT ![o] = 0]
    BY <1>3, <1>4, <1>6
  <2>2. Register!Tear(o)
    BY <1>2, <2>1 DEF Register!Tear, ServingMap, TokenMap, TornMap
  <2> QED BY <2>2
<1> QED BY <1>5, <1>6

\* A task that ends with no 2xx leaves the register as it was.
LEMMA LeaveImplements ==
    ASSUME TypeInv, SerialInv, NEW t \in Task, Busy(t), Unacknowledged(t),
           UNCHANGED tableVars
    PROVE  Register!Leave(delivery[t].org)
<1> USE DEF Unacknowledged, Goto, webexVars, tableVars
<1>1. delivery[t].org \in Org
  BY DEF TypeInv, Handling, Delivery
<1>2. ServingMap' = [ServingMap EXCEPT ![delivery[t].org] = {}]
  BY ServingEnds DEF Busy, TypeInv, TypeOK
<1>3. ServingMap[delivery[t].org] # {}
  BY ServingOne
<1> QED BY <1>1, <1>2, <1>3, RowKept
        DEF Register!Leave, Register!rowVars, ServingMap, TokenMap, TornMap

\* A task that goes on without writing anything is not seen from outside.
LEMMA WorkImplements ==
    ASSUME \A t \in Task : Busy(t)' <=> Busy(t),
           UNCHANGED <<webexVars, creds, profile, delivery>>
    PROVE  UNCHANGED Register!vars
BY ServingKept, RowKept DEF Register!vars, webexVars, ServingMap, TokenMap, TornMap

\* Every write of a table item is a whole or a torn write of the register.
LEMMA WriteImplements ==
    ASSUME TypeInv, TypeInv', SerialInv, FreshInv, NEW t \in Task,
           PutCreds(t) \/ PutAuthorized(t) \/ DeleteCreds(t) \/ PutDeauthorized(t)
    PROVE  \E o \in Org : Register!Tear(o) \/ Register!Write(o)
<1> DEFINE o == delivery[t].org
<1>1. Busy(t) /\ o \in Org /\ TaskOk(t) /\ FreshToken(t)
  BY DEF PutCreds, PutAuthorized, DeleteCreds, PutDeauthorized, Busy,
         TypeInv, Handling, Delivery, SerialInv, FreshInv
<1>2. /\ Busy(t)' /\ \A u \in Task : u # t => pc'[u] = pc[u]
      /\ UNCHANGED <<epoch, outstanding, lost, sources, delivery>>
  BY DEF PutCreds, PutAuthorized, DeleteCreds, PutDeauthorized, Goto, Busy,
         webexVars, TypeInv, TypeOK
<1>3. \A p \in Org : p # o => creds'[p] = creds[p] /\ profile'[p] = profile[p]
  BY DEF PutCreds, PutAuthorized, DeleteCreds, PutDeauthorized, TypeInv, TypeOK
<1>4. IF Grants(delivery[t]) THEN Granted(t, creds'[o]) ELSE creds'[o] = 0
  <2>1. CASE PutCreds(t)
    <3>1. creds'[o] = token[t]
      BY <1>1, <2>1 DEF PutCreds, TypeInv, TypeOK
    <3> QED BY <1>1, <2>1, <3>1 DEF PutCreds, TaskOk, FreshToken
  <2>2. CASE PutAuthorized(t)
    <3>1. creds'[o] = creds[o]
      BY <2>2 DEF PutAuthorized
    <3> QED BY <1>1, <2>2, <3>1 DEF PutAuthorized, TaskOk, FreshToken
  <2>3. CASE DeleteCreds(t)
    BY <1>1, <2>3 DEF DeleteCreds, TaskOk, TypeInv, TypeOK
  <2>4. CASE PutDeauthorized(t)
    BY <1>1, <2>4 DEF PutDeauthorized, TaskOk, Stored
  <2> QED BY <2>1, <2>2, <2>3, <2>4
<1>5. Register!Tear(o) \/ Register!Write(o)
  BY <1>1, <1>2, <1>3, <1>4, RowWritten
<1> QED BY <1>1, <1>5 DEF Register!Tear, Register!Write

\* Each step is, from outside, one of the register's steps or none.
LEMMA RegisterStep ==
    ASSUME Serial, TypeInv, TypeInv', SerialInv, FreshInv, [Next]_vars
    PROVE  [Register!Next]_Register!vars
<1> USE DEF TypeInv, TypeOK, Handling, Delivery
<1>1. ASSUME NEW o \in Org, ChangeConsent(o) PROVE Register!Change(o)
  <2>1. UNCHANGED <<ServingMap, TokenMap, TornMap>>
    BY <1>1, ServingKept, RowKept DEF ChangeConsent, tableVars, taskVars, Busy
  <2> QED BY <1>1, <2>1 DEF ChangeConsent, Register!Change, Register!rowVars,
                            ServingMap, TokenMap, TornMap
<1>2. ASSUME NEW d \in outstanding, GiveUp(d) PROVE Register!Abandon(d)
  <2>1. UNCHANGED <<ServingMap, TokenMap, TornMap>>
    BY <1>2, ServingKept, RowKept DEF GiveUp, tableVars, taskVars, Busy
  <2> QED BY <1>2, <2>1 DEF GiveUp, Register!Abandon, Register!rowVars,
                            ServingMap, TokenMap, TornMap
<1>3. ASSUME NEW t \in Task, NEW d \in outstanding, Receive(t, d)
      PROVE  Register!Serve(d)
  <2>1. d.org \in Org /\ InTurn(d)
    BY <1>3 DEF Receive
  <2>2. ServingMap[d.org] = {}
    BY <2>1 DEF ServingMap, Serving, InTurn
  <2>3. /\ pc'[t] # "idle" /\ delivery'[t] = d
        /\ \A u \in Task : u # t => pc'[u] = pc[u] /\ delivery'[u] = delivery[u]
    BY <1>3 DEF Receive, Goto
  <2>4. ASSUME NEW o \in Org, o = d.org PROVE Serving(o)' = {d.epoch}
    BY <2>1, <2>3, <2>4 DEF Serving, On, Busy, InTurn
  <2>5. ASSUME NEW o \in Org, o # d.org PROVE Serving(o)' = Serving(o)
    BY <1>3, <2>3, <2>5 DEF Serving, On, Busy, Receive
  <2>6. ServingMap' = [ServingMap EXCEPT ![d.org] = {d.epoch}]
    BY <2>1, <2>4, <2>5 DEF ServingMap
  <2>7. UNCHANGED <<epoch, outstanding, lost, sources, TokenMap, TornMap>>
    BY <1>3, RowKept DEF Receive, webexVars, tableVars
  <2> QED BY <2>1, <2>2, <2>6, <2>7
          DEF InTurn, Register!Serve, Register!rowVars, ServingMap, TokenMap, TornMap
<1>4. ASSUME NEW t \in Task, Step(t)
      PROVE  \/ UNCHANGED Register!vars
             \/ \E o \in Org : \/ Register!Leave(o) \/ Register!Tear(o)
                               \/ Register!Write(o) \/ Register!Register(o)
                               \/ Register!Answer(o)
  <2> USE DEF Goto, webexVars
  <2>1. TaskOk(t) /\ FreshToken(t) /\ \A u \in Task : Busy(u) => delivery[u].org \in Org
    BY DEF SerialInv, FreshInv
  <2>2. CASE FetchOrgToken(t) \/ CheckUrl(t) \/ RegisterFailed(t) \/ RecordAudit(t)
    BY <2>2, WorkImplements DEF FetchOrgToken, CheckUrl, RegisterFailed, RecordAudit,
                                tableVars, Busy
  <2>3. CASE FetchRefused(t)
    <3>1. CASE Unacknowledged(t)
      BY <2>1, <2>3, <3>1, LeaveImplements DEF FetchRefused, Busy
    <3>2. CASE Goto(t, "audit_failure") /\ UNCHANGED <<webexVars, delivery, token>>
      BY <2>3, <3>2, WorkImplements DEF FetchRefused, tableVars, Busy
    <3> QED BY <2>3, <3>1, <3>2 DEF FetchRefused
  <2>4. CASE AuditFailure(t)
    BY <2>1, <2>4, LeaveImplements DEF AuditFailure, Busy
  <2>5. CASE PutCreds(t) \/ PutAuthorized(t) \/ DeleteCreds(t) \/ PutDeauthorized(t)
    BY <2>5, WriteImplements
  <2>6. ASSUME pc[t] \in {"create", "ack"}
        PROVE  /\ Busy(t) /\ delivery[t].org \in Org
               /\ delivery[t].epoch \in ServingMap[delivery[t].org]
               /\ Register!Shows(delivery[t].org, delivery[t].epoch)
    <3> DEFINE o == delivery[t].org
    <3>1. Busy(t) /\ o \in Org /\ delivery[t].epoch \in ServingMap[o]
      BY <2>1, <2>6, ServingOne DEF Busy
    <3>2. Applied(t) /\ PairAgrees(o)
      BY <2>1, <2>6 DEF TaskOk, AppliedStage, Applied, PairAgrees
    <3>3. TornMap[o] = FALSE /\ TokenMap[o] = creds[o]
      BY <3>1, <3>2 DEF TornMap, TokenMap
    <3>4. creds[o] \in Register!Showing(delivery[t].epoch, epoch[o])
      <4>1. CASE Grants(delivery[t])
        BY <2>1, <2>6, <4>1 DEF FreshToken, AppliedStage, Granted,
                               Register!Showing, Register!Grant, Grants
      <4>2. CASE ~Grants(delivery[t])
        BY <3>2, <4>2 DEF Applied, Stored, Register!Showing, Register!Grant, Grants
      <4> QED BY <4>1, <4>2
    <3> QED BY <3>1, <3>3, <3>4 DEF Register!Shows, TornMap, TokenMap
  <2>7. CASE CreateSource(t)
    <3> DEFINE o == delivery[t].org
    <3>1. /\ Grants(delivery[t]) /\ sources[o] = 0 /\ PairAgrees(o)
          /\ Consented(o) /\ creds[o] = epoch[o]
      BY <2>1, <2>7 DEF CreateSource, TaskOk, AppliedStage, Applied, PairAgrees,
                         ClientUsable
    <3>2. UNCHANGED <<ServingMap, TokenMap, TornMap>>
      BY <2>7, ServingKept, RowKept DEF CreateSource, tableVars, Busy
    <3>3. sources' = [sources EXCEPT ![o] = 1]
      BY <2>6, <2>7, <3>1 DEF CreateSource
    <3>4. Register!Register(o)
      BY <2>6, <2>7, <3>1, <3>2, <3>3
         DEF CreateSource, Register!Register, Register!Grant, Register!rowVars,
             Grants, Consented, ServingMap, TokenMap, TornMap
    <3> QED BY <2>6, <2>7, <3>4 DEF CreateSource
  <2>8. CASE Acknowledge(t)
    <3> DEFINE o == delivery[t].org
    <3>1. pc[t] = "ack" /\ Busy(t) /\ delivery[t] \in Delivery
      BY <2>8 DEF Acknowledge, Busy
    <3>2. ServingMap' = [ServingMap EXCEPT ![o] = {}]
      BY <2>8, <3>1, ServingEnds DEF Acknowledge, Busy
    <3>3. UNCHANGED <<epoch, lost, sources, TokenMap, TornMap>>
      BY <2>8, RowKept DEF Acknowledge, tableVars
    <3>4. outstanding' = outstanding \ {[org |-> o, epoch |-> delivery[t].epoch]}
      BY <2>8, <3>1 DEF Acknowledge
    <3>5. Register!Answer(o)
      BY <2>6, <3>1, <3>2, <3>3, <3>4
         DEF Register!Answer, Register!rowVars, ServingMap, TokenMap, TornMap
    <3> QED BY <2>6, <3>1, <3>5
  <2> QED BY <1>4, <2>1, <2>2, <2>3, <2>4, <2>5, <2>7, <2>8
          DEF Step, FetchRefused, AuditFailure, Busy
<1>5. ASSUME NEW t \in Task, ServerError(t) \/ Crash(t)
      PROVE  \E o \in Org : Register!Leave(o)
  BY <1>5, LeaveImplements DEF ServerError, Crash, Busy
<1>6. ASSUME NEW t \in Task, NotAuthenticated(t) PROVE UNCHANGED Register!vars
  BY <1>6, WorkImplements DEF NotAuthenticated, Goto, webexVars, tableVars, Busy
<1>7. CASE UNCHANGED vars
  BY <1>7, WorkImplements DEF vars, webexVars, Busy
<1> QED BY <1>1, <1>2, <1>3, <1>4, <1>5, <1>6, <1>7 DEF Next, Register!Next

\* With deliveries in turn, customer-org authorization implements the consent
\* register: whole writes or torn ones, and answers only for what the row shows.
THEOREM ConsentRefinement ==
    ASSUME Serial PROVE Spec => ImplementsConsentRegister
<1>1. Init => Register!Init
  <2> SUFFICES ASSUME Init PROVE Register!Init
    OBVIOUS
  <2>1. \A o \in Org : Serving(o) = {} /\ PairAgrees(o) /\ creds[o] = 0
    BY DEF Init, Serving, On, Busy, PairAgrees, Stored
  <2> QED BY <2>1 DEF Init, Register!Init
<1>2. (Serial => SerialInv) => SerialInv
  OBVIOUS
<1>3. Init => FreshInv
  BY DEF Init, FreshInv, FreshToken, AppliedStage
<1>4. TypeInv /\ TypeInv' /\ SerialInv /\ FreshInv /\ [Next]_vars => FreshInv'
  BY FreshStep
<1>5. TypeInv /\ TypeInv' /\ SerialInv /\ FreshInv /\ [Next]_vars
        => [Register!Next]_Register!vars
  BY RegisterStep
<1> QED BY <1>1, <1>2, <1>3, <1>4, <1>5, TypeInvariant, SerialInvariant, PTL
        DEF Spec, ImplementsConsentRegister, Register!Spec

-----------------------------------------------------------------------------
(* Overlapping registrations.                                              *)

LEMMA CreatingFinite ==
    ASSUME NEW o PROVE IsFiniteSet(Creating(o)) /\ Cardinality(Creating(o)) <= Cardinality(Task)
BY TaskAssumption, FS_Subset DEF Creating

\* A step by which no task reaches the create, and nothing is created.
LEMMA SourcesFrame ==
    ASSUME TypeInv, SourcesBounded, UNCHANGED sources,
           \A t \in Task : pc'[t] = "create" =>
                             pc[t] = "create" /\ delivery'[t] = delivery[t]
    PROVE  SourcesBounded'
<1> SUFFICES ASSUME NEW o \in Org
             PROVE  sources[o] + Cardinality(Creating(o)') <= Cardinality(Task)
  BY DEF SourcesBounded
<1>1. Creating(o)' \subseteq Creating(o)
  BY DEF Creating, On, Busy
<1>2. /\ IsFiniteSet(Creating(o)) /\ IsFiniteSet(Creating(o)')
      /\ Cardinality(Creating(o)') <= Cardinality(Creating(o))
  BY <1>1, CreatingFinite, FS_Subset
<1>3. /\ Cardinality(Creating(o)) \in Nat /\ Cardinality(Creating(o)') \in Nat
      /\ Cardinality(Task) \in Nat /\ sources[o] \in Nat
  BY <1>2, TaskAssumption, FS_CardinalityType DEF TypeInv, TypeOK
<1>4. sources[o] + Cardinality(Creating(o)) <= Cardinality(Task)
  BY DEF SourcesBounded
<1> QED BY <1>2, <1>3, <1>4

LEMMA SourcesStep ==
    ASSUME TypeInv, SourcesBounded, [Next]_vars PROVE SourcesBounded'
<1> USE DEF TypeInv, TypeOK, PC, Handling, Busy, Goto, Unacknowledged, webexVars
<1>1. ASSUME NEW o \in Org, ChangeConsent(o) PROVE SourcesBounded'
  BY <1>1, SourcesFrame DEF ChangeConsent, taskVars
<1>2. ASSUME NEW d \in outstanding, GiveUp(d) PROVE SourcesBounded'
  BY <1>2, SourcesFrame DEF GiveUp, taskVars
<1>3. ASSUME NEW t \in Task, NEW d \in outstanding, Receive(t, d) PROVE SourcesBounded'
  BY <1>3, SourcesFrame DEF Receive
<1>4. ASSUME NEW t \in Task, Step(t) PROVE SourcesBounded'
  <2>1. CASE FetchOrgToken(t)
    BY <2>1, SourcesFrame DEF FetchOrgToken
  <2>2. CASE FetchRefused(t)
    BY <2>2, SourcesFrame DEF FetchRefused
  <2>3. CASE AuditFailure(t)
    BY <2>3, SourcesFrame DEF AuditFailure
  <2>4. CASE PutCreds(t)
    BY <2>4, SourcesFrame DEF PutCreds
  <2>5. CASE PutAuthorized(t)
    BY <2>5, SourcesFrame DEF PutAuthorized
  <2>6. CASE DeleteCreds(t)
    BY <2>6, SourcesFrame DEF DeleteCreds
  <2>7. CASE PutDeauthorized(t)
    BY <2>7, SourcesFrame DEF PutDeauthorized
  <2>8. CASE CheckUrl(t)
    <3>1. delivery[t] \in Delivery /\ delivery[t].org \in Org
      BY <2>8 DEF CheckUrl, Delivery
    <3>2. CASE sources[delivery[t].org] > 0
      BY <2>8, <3>2, SourcesFrame DEF CheckUrl
    <3>3. CASE ~(sources[delivery[t].org] > 0)
      <4> SUFFICES ASSUME NEW o \in Org
                   PROVE  sources'[o] + Cardinality(Creating(o)') <= Cardinality(Task)
        BY DEF SourcesBounded
      <4>1. sources' = sources /\ sources[o] \in Nat
        BY <2>8 DEF CheckUrl
      <4>2. CASE o = delivery[t].org
        <5>1. Creating(o)' \subseteq Task
          BY DEF Creating
        <5>2. Cardinality(Creating(o)') <= Cardinality(Task)
          BY <5>1, TaskAssumption, FS_Subset
        <5>3. Cardinality(Creating(o)') \in Nat
          BY <5>1, TaskAssumption, FS_Subset, FS_CardinalityType
        <5>4. sources[o] = 0
          BY <3>3, <4>1, <4>2
        <5> QED BY <4>1, <5>2, <5>3, <5>4
      <4>3. CASE o # delivery[t].org
        <5>1. Creating(o)' = Creating(o)
          BY <2>8, <4>3 DEF CheckUrl, Creating, On
        <5> QED BY <4>1, <5>1 DEF SourcesBounded
      <4> QED BY <4>2, <4>3
    <3> QED BY <3>2, <3>3
  <2>9. CASE CreateSource(t)
    <3>1. delivery[t] \in Delivery /\ delivery[t].org \in Org
      BY <2>9 DEF CreateSource, Delivery
    <3> SUFFICES ASSUME NEW o \in Org
                 PROVE  sources'[o] + Cardinality(Creating(o)') <= Cardinality(Task)
      BY DEF SourcesBounded
    <3>2. sources[o] \in Nat /\ sources[o] + Cardinality(Creating(o)) <= Cardinality(Task)
      BY DEF SourcesBounded
    <3>3. CASE o = delivery[t].org
      <4>1. sources'[o] = sources[o] + 1
        BY <2>9, <3>3 DEF CreateSource
      <4>2. t \in Creating(o) /\ Creating(o)' = Creating(o) \ {t}
        BY <2>9, <3>3 DEF CreateSource, Creating, On
      <4>3. /\ Cardinality(Creating(o)') = Cardinality(Creating(o)) - 1
            /\ Cardinality(Creating(o)) \in Nat
        BY <4>2, CreatingFinite, FS_RemoveElement, FS_CardinalityType
      <4> QED BY <3>2, <4>1, <4>3
    <3>4. CASE o # delivery[t].org
      <4>1. Creating(o)' = Creating(o) /\ sources'[o] = sources[o]
        BY <2>9, <3>1, <3>4 DEF CreateSource, Creating, On
      <4> QED BY <3>2, <4>1
    <3> QED BY <3>3, <3>4
  <2>10. CASE RegisterFailed(t)
    BY <2>10, SourcesFrame DEF RegisterFailed
  <2>11. CASE RecordAudit(t)
    BY <2>11, SourcesFrame DEF RecordAudit
  <2>12. CASE Acknowledge(t)
    BY <2>12, SourcesFrame DEF Acknowledge
  <2> QED BY <1>4, <2>1, <2>2, <2>3, <2>4, <2>5, <2>6, <2>7, <2>8, <2>9,
             <2>10, <2>11, <2>12 DEF Step
<1>5. ASSUME NEW t \in Task, ServerError(t) PROVE SourcesBounded'
  BY <1>5, SourcesFrame DEF ServerError
<1>6. ASSUME NEW t \in Task, NotAuthenticated(t) PROVE SourcesBounded'
  BY <1>6, SourcesFrame DEF NotAuthenticated
<1>7. ASSUME NEW t \in Task, Crash(t) PROVE SourcesBounded'
  BY <1>7, SourcesFrame DEF Crash
<1>8. CASE UNCHANGED vars
  BY <1>8, SourcesFrame DEF vars
<1> QED BY <1>1, <1>2, <1>3, <1>4, <1>5, <1>6, <1>7, <1>8 DEF Next

\* Retries and overlapping deliveries can duplicate an org's data source, but
\* never beyond the number of requests in flight at once.
THEOREM SourcesAreBounded == Spec => []SourcesBounded
<1>1. Init => SourcesBounded
  <2> SUFFICES ASSUME Init, NEW o \in Org
               PROVE  sources[o] + Cardinality(Creating(o)) <= Cardinality(Task)
    BY DEF SourcesBounded
  <2>1. Creating(o) = {} /\ sources[o] = 0
    BY DEF Init, Creating, On, Busy
  <2>2. Cardinality(Creating(o)) = 0 /\ Cardinality(Task) \in Nat
    BY <2>1, TaskAssumption, FS_EmptySet, FS_CardinalityType
  <2> QED BY <2>1, <2>2
<1>2. TypeInv /\ SourcesBounded /\ [Next]_vars => SourcesBounded'
  BY SourcesStep
<1> QED BY <1>1, <1>2, TypeInvariant, PTL DEF Spec
=============================================================================
