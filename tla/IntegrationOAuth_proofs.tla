---------------------- MODULE IntegrationOAuth_proofs ----------------------
(***************************************************************************)
(* Theorems of IntegrationOAuth, for any finite sets of instances and      *)
(* callback tasks and any bounds.                                          *)
(***************************************************************************)
EXTENDS IntegrationOAuth, FiniteSetTheorems, TLAPS

\* The steps of the specification, one disjunct each.
AnyStep ==
    \/ Consent \/ Outage \/ Restore
    \/ \E g \in Grant : Revoke(g)
    \/ \E p \in Proc : \/ ListHooks(p) \/ HooksEnsured(p) \/ HooksRefused(p)
                       \/ SdkError(p) \/ TableError(p)
    \/ \E p \in Proc, e \in Event : CreateHook(p, e)
    \/ \E i \in Instance : \/ ReadCreds(i) \/ RefreshStored(i) \/ RefreshEnv(i)
                           \/ SaveRefreshed(i) \/ CheckTable(i) \/ Stop(i)
                           \/ Renew(i) \/ StoreRenewed(i) \/ RenewalLost(i)
    \/ \E c \in Callback : Exchange(c) \/ ExchangeRefused(c) \/ Persist(c)
    \/ \E c \in Callback, g \in Grant : Redirect(c, g)

LEMMA StepCases == Next => AnyStep
<1>1. ASSUME NEW i \in Instance, Startup(i)
      PROVE  AnyStep
  BY <1>1 DEF Startup, Ensure, AnyStep, Proc
<1>2. ASSUME NEW c \in Callback, Handle(c)
      PROVE  AnyStep
  BY <1>2 DEF Handle, Ensure, AnyStep, Proc
<1> QED
  BY <1>1, <1>2 DEF Next, Expiry, AnyStep

-----------------------------------------------------------------------------

\* Every variable keeps its type.
THEOREM TypeCorrect == Spec => []TypeOK
<1> USE GrantAssumption, BoundAssumption
<1>1. Init => TypeOK
  <2>1. Init => raced \in BOOLEAN
    BY DEF Init
  <2> QED
    BY <2>1 DEF Init, TypeOK, PC, Grant
<1>2. TypeOK /\ [Next]_vars => TypeOK'
  <2> SUFFICES ASSUME TypeOK, [Next]_vars PROVE TypeOK'
    OBVIOUS
  <2> USE DEF TypeOK, PC, Goto, Fault, Forget, webexVars, readyVars, callbackVars
  <2>0. Instance \subseteq Proc /\ Callback \subseteq Proc
    BY DEF Proc
  <2>1. CASE Consent \/ Outage \/ Restore
    <3>1. CASE Consent
      <4>1. consents' \in 0 .. MaxGrants
        BY <3>1 DEF Consent
      <4> QED
        BY <3>1, <4>1 DEF Consent
    <3>2. CASE Outage
      <4>1. faults' \in 0 .. MaxFaults
        BY <3>2 DEF Outage
      <4> QED
        BY <3>2, <4>1 DEF Outage
    <3>3. CASE Restore
      BY <3>3 DEF Restore
    <3> QED
      BY <2>1, <3>1, <3>2, <3>3
  <2>2. ASSUME NEW g \in Grant, Revoke(g) PROVE TypeOK'
    BY <2>2 DEF Revoke
  <2>3. ASSUME NEW p \in Proc, Fail(p), UNCHANGED <<webexVars, reachable, stored>>,
               faults' \in 0 .. MaxFaults
        PROVE  TypeOK'
    BY <2>3 DEF Fail
  <2>4. ASSUME NEW p \in Proc,
               ListHooks(p) \/ HooksEnsured(p) \/ HooksRefused(p) \/ SdkError(p) \/ TableError(p)
        PROVE  TypeOK'
    <3>1. CASE ListHooks(p)
      BY <3>1 DEF ListHooks
    <3>2. CASE HooksEnsured(p)
      BY <3>2 DEF HooksEnsured
    <3>3. CASE HooksRefused(p) \/ SdkError(p) \/ TableError(p)
      <4>1. faults' \in 0 .. MaxFaults
        BY <3>3 DEF HooksRefused, SdkError, TableError
      <4> QED
        BY <2>3, <3>3, <4>1 DEF HooksRefused, SdkError, TableError
    <3> QED
      BY <2>4, <3>1, <3>2, <3>3
  <2>5. ASSUME NEW p \in Proc, NEW e \in Event, CreateHook(p, e) PROVE TypeOK'
    BY <2>5 DEF CreateHook
  <2>6. ASSUME NEW i \in Instance,
               ReadCreds(i) \/ RefreshStored(i) \/ RefreshEnv(i) \/ SaveRefreshed(i) \/ CheckTable(i)
        PROVE  TypeOK'
    <3>1. CASE ReadCreds(i)
      BY <2>0, <3>1 DEF ReadCreds
    <3>2. CASE RefreshStored(i) \/ RefreshEnv(i)
      BY <2>0, <3>2 DEF RefreshStored, RefreshEnv, Refresh
    <3>3. CASE SaveRefreshed(i)
      <4>1. stored' \in 0 .. MaxGrants
        BY <2>0, <3>3 DEF SaveRefreshed
      <4> QED
        BY <2>0, <3>3, <4>1 DEF SaveRefreshed
    <3>4. CASE CheckTable(i)
      BY <2>0, <3>4 DEF CheckTable
    <3> QED
      BY <2>6, <3>1, <3>2, <3>3, <3>4
  <2>7. ASSUME NEW i \in Instance, Stop(i) PROVE TypeOK'
    <3>1. pc' \in [Proc -> PC]
      BY <2>7 DEF Stop
    <3>2. held' \in [Proc -> 0 .. MaxGrants] /\ missing' \in [Proc -> SUBSET Event]
      BY <2>7 DEF Stop
    <3> QED
      BY <2>7, <3>1, <3>2 DEF Stop
  <2>8. ASSUME NEW c \in Callback, Exchange(c) PROVE TypeOK'
    <3>1. redeemed' \subseteq 0 .. MaxGrants
      <4>1. held[c] \in 0 .. MaxGrants
        BY <2>0
      <4>2. redeemed' = redeemed \cup {held[c]}
        BY <2>8 DEF Exchange
      <4> QED
        BY <4>1, <4>2
    <3>2. pc' \in [Proc -> PC]
      BY <2>0, <2>8 DEF Exchange
    <3>3. UNCHANGED <<consents, revoked, hooks, reachable, stored, held, missing,
                      readyVars, callbackVars, faults>>
      BY <2>8 DEF Exchange
    <3> QED
      BY <3>1, <3>2, <3>3
  <2>9. ASSUME NEW c \in Callback, ExchangeRefused(c) \/ Persist(c) PROVE TypeOK'
    <3>1. CASE ExchangeRefused(c)
      BY <2>0, <2>3, <3>1 DEF ExchangeRefused
    <3>2. CASE Persist(c)
      BY <2>0, <3>2 DEF Persist
    <3> QED
      BY <2>9, <3>1, <3>2
  <2>10. ASSUME NEW c \in Callback, NEW g \in Grant, Redirect(c, g) PROVE TypeOK'
    BY <2>0, <2>10 DEF Redirect, Grant
  <2>11. ASSUME NEW i \in Instance, Renew(i) \/ StoreRenewed(i) \/ RenewalLost(i)
         PROVE  TypeOK'
    <3>1. held' \in [Proc -> 0 .. MaxGrants] /\ stored' \in 0 .. MaxGrants
      BY <2>0, <2>11 DEF Renew, StoreRenewed, RenewalLost
    <3> QED
      BY <2>11, <3>1 DEF Renew, StoreRenewed, RenewalLost, otherVars
  <2>12. CASE UNCHANGED vars
    BY <2>12 DEF vars
  <2> QED
    BY <2>1, <2>2, <2>4, <2>5, <2>6, <2>7, <2>8, <2>9, <2>10, <2>11, <2>12, StepCases
    DEF AnyStep
<1> QED
  BY <1>1, <1>2, PTL DEF Spec

-----------------------------------------------------------------------------

\* Tokens on their way to the table are tokens.
Carrying == \A p \in Proc : pc[p] \in {"exchange", "persist", "save"} => held[p] # 0

\* A startup's refresh has something to refresh, and its instance is not ready yet.
Refreshing ==
    \A i \in Instance :
        /\ pc[i] = "refresh_stored" => stored # 0
        /\ pc[i] = "refresh_env" => EnvGrant # 0
        /\ pc[i] \in {"down", "refresh_stored", "refresh_env"} => ~integration_ready[i]

\* What ensures the webhooks comes after the tokens are stored, and has still to
\* create the events that have no webhook.
Ensuring ==
    \A p \in Proc :
        /\ pc[p] \in {"list", "create"} => stored # 0
        /\ pc[p] = "create" => \A e \in Event : hooks[e] > 0 \/ e \in missing[p]

\* A callback ensures the webhooks only with its tokens saved.
Saved == \A c \in Callback : pc[c] \in {"list", "create"} => saved[c]

Complete == stored # 0 /\ (HasTarget => Hooked)
Started == \A i \in Instance : pc[i] \in {"check", "up"} /\ integration_ready[i] => Complete

ReadyInv == Carrying /\ Refreshing /\ Ensuring /\ Saved /\ Started /\ SuccessIsComplete

\* Stored tokens and registered webhooks stay, whatever is stored or registered.
LEMMA NothingLost ==
    ASSUME TypeOK, Carrying, [Next]_vars
    PROVE  /\ stored # 0 => stored' # 0
           /\ \A e \in Event : hooks[e] > 0 => hooks'[e] > 0
<1> USE DEF webexVars
<1>1. ASSUME NEW i \in Instance, SaveRefreshed(i)
      PROVE  stored' # 0 /\ hooks' = hooks
  BY <1>1 DEF SaveRefreshed, Carrying, Proc
<1>2. ASSUME NEW c \in Callback, Persist(c)
      PROVE  stored' # 0 /\ hooks' = hooks
  BY <1>2 DEF Persist, Carrying, Proc
<1>8. ASSUME NEW i \in Instance, Renew(i) \/ StoreRenewed(i) \/ RenewalLost(i)
      PROVE  (stored # 0 => stored' # 0) /\ hooks' = hooks
  BY <1>8 DEF Renew, StoreRenewed, RenewalLost, otherVars
<1>3. ASSUME NEW p \in Proc, NEW f \in Event, CreateHook(p, f)
      PROVE  stored' = stored /\ \A e \in Event : hooks[e] > 0 => hooks'[e] > 0
  BY <1>3 DEF CreateHook, TypeOK
<1>4. ASSUME NEW p \in Proc,
             ListHooks(p) \/ HooksEnsured(p) \/ HooksRefused(p) \/ SdkError(p) \/ TableError(p)
      PROVE  UNCHANGED <<stored, hooks>>
  BY <1>4 DEF ListHooks, HooksEnsured, HooksRefused, SdkError, TableError
<1>5. ASSUME NEW i \in Instance,
             ReadCreds(i) \/ RefreshStored(i) \/ RefreshEnv(i) \/ CheckTable(i) \/ Stop(i)
      PROVE  UNCHANGED <<stored, hooks>>
  BY <1>5 DEF ReadCreds, RefreshStored, RefreshEnv, Refresh, CheckTable, Stop
<1>6. ASSUME NEW c \in Callback, Exchange(c) \/ ExchangeRefused(c) \/ \E g \in Grant : Redirect(c, g)
      PROVE  UNCHANGED <<stored, hooks>>
  BY <1>6 DEF Exchange, ExchangeRefused, Redirect
<1>7. ASSUME Consent \/ Outage \/ Restore \/ (\E g \in Grant : Revoke(g)) \/ UNCHANGED vars
      PROVE  UNCHANGED <<stored, hooks>>
  BY <1>7 DEF Consent, Outage, Restore, Revoke, vars
<1> QED
  BY <1>1, <1>2, <1>3, <1>4, <1>5, <1>6, <1>7, <1>8, StepCases DEF AnyStep

\* What is stored and registered being kept, the invariant is kept for every
\* process that a step leaves where it was.
LEMMA ReadyFrame ==
    ASSUME ReadyInv,
           stored # 0 => stored' # 0,
           \A e \in Event : hooks[e] > 0 => hooks'[e] > 0,
           \A p \in Proc :
               \/ pc'[p] \in {"down", "idle"}
               \/ UNCHANGED <<pc[p], missing[p]>> /\ (held'[p] = held[p] \/ pc[p] = "up"),
           \A i \in Instance :
               ~integration_ready'[i] \/ UNCHANGED <<pc[i], integration_ready[i]>>,
           UNCHANGED saved,
           \A c \in Callback : answer'[c] # "ok" \/ answer'[c] = answer[c]
    PROVE  ReadyInv'
<1>1. Complete => Complete'
  BY DEF Complete, Hooked
<1>2. Instance \subseteq Proc /\ Callback \subseteq Proc
  BY DEF Proc
<1>3. Carrying' /\ Refreshing'
  BY <1>2 DEF ReadyInv, Carrying, Refreshing
<1>4. Ensuring' /\ Saved'
  BY <1>2 DEF ReadyInv, Ensuring, Saved
<1>5. Started'
  BY <1>1, <1>2 DEF ReadyInv, Started
<1>6. SuccessIsComplete'
  BY <1>1 DEF ReadyInv, SuccessIsComplete, Complete
<1> QED
  BY <1>3, <1>4, <1>5, <1>6 DEF ReadyInv

LEMMA ReadyInvariant == Spec => []ReadyInv
<1>1. Init => ReadyInv
  BY ProcAssumption
  DEF Init, ReadyInv, Carrying, Refreshing, Ensuring, Saved, Started, SuccessIsComplete, Proc
<1>2. TypeOK /\ ReadyInv /\ [Next]_vars => ReadyInv'
  <2> SUFFICES ASSUME TypeOK, ReadyInv, [Next]_vars PROVE ReadyInv'
    OBVIOUS
  <2> USE DEF Goto
  <2>0. /\ Instance \subseteq Proc /\ Callback \subseteq Proc /\ Instance \cap Callback = {}
        /\ pc \in [Proc -> PC] /\ held \in [Proc -> 0 .. MaxGrants]
        /\ missing \in [Proc -> SUBSET Event]
        /\ integration_ready \in [Instance -> BOOLEAN]
        /\ answer \in [Callback -> {"none", "ok", "failed"}]
        /\ saved \in [Callback -> BOOLEAN]
    BY ProcAssumption DEF TypeOK, Proc
  <2>a. /\ stored # 0 => stored' # 0
        /\ \A e \in Event : hooks[e] > 0 => hooks'[e] > 0
    BY NothingLost DEF ReadyInv
  <2>b. Complete => Complete'
    BY <2>a DEF Complete, Hooked
  <2>c. /\ Carrying /\ Refreshing /\ Ensuring /\ Saved /\ Started /\ SuccessIsComplete
    BY DEF ReadyInv
  <2>1. ASSUME Consent \/ Outage \/ Restore \/ (\E g \in Grant : Revoke(g)) \/ UNCHANGED vars
        PROVE  ReadyInv'
    <3>1. UNCHANGED <<pc, held, missing, integration_ready, saved, answer>>
      BY <2>1 DEF Consent, Outage, Restore, Revoke, vars, readyVars, callbackVars
    <3> QED
      BY <2>a, <3>1, ReadyFrame
  <2>2. ASSUME NEW p \in Proc, Fail(p) PROVE ReadyInv'
    <3>1. \A i \in Instance :
              ~integration_ready'[i] \/ UNCHANGED <<pc[i], integration_ready[i]>>
      BY <2>0, <2>2 DEF Fail, Forget
    <3> QED
      BY <2>0, <2>a, <2>2, <3>1, ReadyFrame DEF Fail
  <2>3. ASSUME NEW i \in Instance, Stop(i) PROVE ReadyInv'
    <3>1. ASSUME NEW p \in Proc
          PROVE  pc'[p] \in {"down", "idle"} \/ UNCHANGED <<pc[p], held[p], missing[p]>>
      BY <2>0, <2>3 DEF Stop
    <3>2. \A j \in Instance :
              ~integration_ready'[j] \/ UNCHANGED <<pc[j], integration_ready[j]>>
      BY <2>0, <2>3 DEF Stop, Forget
    <3> QED
      BY <2>a, <2>3, <3>1, <3>2, ReadyFrame DEF Stop, callbackVars
  <2>4. ASSUME NEW p \in Proc, ListHooks(p) PROVE ReadyInv'
    <3>1. UNCHANGED <<stored, hooks, held, integration_ready, saved, answer>>
      BY <2>4 DEF ListHooks, webexVars, readyVars, callbackVars
    <3>2. Ensuring'
      BY <2>0, <2>4, <2>c, <3>1 DEF ListHooks, Ensuring, TypeOK
    <3>3. Carrying' /\ Refreshing' /\ Saved' /\ Started'
      BY <2>0, <2>4, <2>b, <2>c, <3>1 DEF ListHooks, Carrying, Refreshing, Saved, Started
    <3>4. SuccessIsComplete'
      BY <2>b, <2>c, <3>1 DEF SuccessIsComplete, Complete
    <3> QED
      BY <3>2, <3>3, <3>4 DEF ReadyInv
  <2>5. ASSUME NEW p \in Proc, NEW e \in Event, CreateHook(p, e) PROVE ReadyInv'
    <3>1. UNCHANGED <<stored, pc, held, integration_ready, saved, answer>>
      BY <2>5 DEF CreateHook, readyVars, callbackVars
    <3>2. Ensuring'
      BY <2>0, <2>5, <2>a, <2>c, <3>1 DEF CreateHook, Ensuring, TypeOK
    <3>3. Carrying' /\ Refreshing' /\ Saved' /\ Started'
      BY <2>b, <2>c, <3>1 DEF Carrying, Refreshing, Saved, Started
    <3>4. SuccessIsComplete'
      BY <2>b, <2>c, <3>1 DEF SuccessIsComplete, Complete
    <3> QED
      BY <3>2, <3>3, <3>4 DEF ReadyInv
  <2>6. ASSUME NEW p \in Proc, HooksEnsured(p) PROVE ReadyInv'
    <3>1. UNCHANGED <<stored, hooks, missing, integration_ready, saved>>
      BY <2>6 DEF HooksEnsured, webexVars, readyVars
    <3>2. Complete
      BY <2>6, <2>c DEF HooksEnsured, Ensuring, Complete, Hooked
    <3>3. Carrying' /\ Refreshing' /\ Ensuring' /\ Saved'
      BY <2>0, <2>6, <2>c, <3>1 DEF HooksEnsured, Carrying, Refreshing, Ensuring, Saved
    <3>4. Started'
      BY <2>b, <3>2 DEF Started
    <3>5. p \in Callback => saved[p]
      BY <2>6, <2>c DEF HooksEnsured, Saved
    <3>6. SuccessIsComplete'
      BY <2>0, <2>6, <2>b, <2>c, <3>1, <3>2, <3>5 DEF HooksEnsured, SuccessIsComplete, Complete
    <3> QED
      BY <3>3, <3>4, <3>6 DEF ReadyInv
  <2>7. ASSUME NEW i \in Instance, ReadCreds(i) PROVE ReadyInv'
    <3>1. UNCHANGED <<stored, hooks, held, missing, integration_ready, saved, answer>>
      BY <2>7 DEF ReadCreds, webexVars, readyVars, callbackVars
    <3>2. Carrying' /\ Refreshing' /\ Ensuring' /\ Saved'
      BY <2>0, <2>7, <2>c, <3>1 DEF ReadCreds, Carrying, Refreshing, Ensuring, Saved
    <3>3. Started'
      BY <2>0, <2>7, <2>b, <2>c, <3>1 DEF ReadCreds, Refreshing, Started
    <3>4. SuccessIsComplete'
      BY <2>b, <2>c, <3>1 DEF SuccessIsComplete, Complete
    <3> QED
      BY <3>2, <3>3, <3>4 DEF ReadyInv
  <2>8. ASSUME NEW i \in Instance, RefreshStored(i) \/ RefreshEnv(i) PROVE ReadyInv'
    <3>1. UNCHANGED <<stored, hooks, missing, integration_ready, saved, answer>>
      BY <2>8 DEF RefreshStored, RefreshEnv, Refresh, webexVars, readyVars, callbackVars
    <3>2. ~integration_ready[i] /\ pc'[i] \in {"check", "save"}
      BY <2>0, <2>8, <2>c DEF RefreshStored, RefreshEnv, Refresh, Refreshing
    <3>3. Carrying'
      BY <2>0, <2>8, <2>c DEF RefreshStored, RefreshEnv, Refresh, Refreshing, Carrying
    <3>4. Refreshing' /\ Ensuring' /\ Saved'
      BY <2>0, <2>8, <2>c, <3>1
      DEF RefreshStored, RefreshEnv, Refresh, Refreshing, Ensuring, Saved
    <3>5. Started'
      BY <2>0, <2>8, <2>b, <2>c, <3>1, <3>2 DEF RefreshStored, RefreshEnv, Refresh, Started
    <3>6. SuccessIsComplete'
      BY <2>b, <2>c, <3>1 DEF SuccessIsComplete, Complete
    <3> QED
      BY <3>3, <3>4, <3>5, <3>6 DEF ReadyInv
  <2>9. ASSUME NEW i \in Instance, SaveRefreshed(i) PROVE ReadyInv'
    <3>1. UNCHANGED <<hooks, held, missing, saved, answer>>
      BY <2>9 DEF SaveRefreshed, webexVars, callbackVars
    <3>2. stored' # 0
      BY <2>0, <2>9, <2>c DEF SaveRefreshed, Carrying
    <3>3. Carrying' /\ Refreshing' /\ Ensuring' /\ Saved'
      BY <2>0, <2>9, <2>c, <3>1, <3>2 DEF SaveRefreshed, Carrying, Refreshing, Ensuring, Saved
    <3>4. pc'[i] = "check" => Complete'
      BY <2>0, <2>9, <3>2 DEF SaveRefreshed, Complete
    <3>5. Started'
      BY <2>0, <2>9, <2>b, <2>c, <3>4 DEF SaveRefreshed, Started
    <3>6. SuccessIsComplete'
      BY <2>b, <2>c, <3>1 DEF SuccessIsComplete, Complete
    <3> QED
      BY <3>3, <3>5, <3>6 DEF ReadyInv
  <2>10. ASSUME NEW i \in Instance, CheckTable(i) PROVE ReadyInv'
    <3>1. UNCHANGED <<stored, hooks, missing, integration_ready, saved, answer>>
      BY <2>10 DEF CheckTable, webexVars, callbackVars
    <3>2. Carrying' /\ Refreshing' /\ Ensuring' /\ Saved'
      BY <2>0, <2>10, <2>c, <3>1 DEF CheckTable, Carrying, Refreshing, Ensuring, Saved
    <3>3. Started'
      BY <2>0, <2>10, <2>b, <2>c, <3>1 DEF CheckTable, Started
    <3>4. SuccessIsComplete'
      BY <2>b, <2>c, <3>1 DEF SuccessIsComplete, Complete
    <3> QED
      BY <3>2, <3>3, <3>4 DEF ReadyInv
  <2>11. ASSUME NEW c \in Callback, Exchange(c) PROVE ReadyInv'
    <3>1. UNCHANGED <<stored, hooks, held, missing, integration_ready, saved, answer>>
      BY <2>11 DEF Exchange, readyVars, callbackVars
    <3>2. Carrying' /\ Refreshing' /\ Ensuring' /\ Saved'
      BY <2>0, <2>11, <2>c, <3>1 DEF Exchange, Carrying, Refreshing, Ensuring, Saved
    <3>3. Started' /\ SuccessIsComplete'
      BY <2>0, <2>11, <2>b, <2>c, <3>1 DEF Exchange, Started, SuccessIsComplete, Complete
    <3> QED
      BY <3>2, <3>3 DEF ReadyInv
  <2>12. ASSUME NEW c \in Callback, Persist(c) PROVE ReadyInv'
    <3>1. UNCHANGED <<hooks, missing, integration_ready>>
      BY <2>12 DEF Persist, webexVars, readyVars
    <3>2. stored' # 0 /\ saved'[c]
      BY <2>0, <2>12, <2>c DEF Persist, Carrying
    <3>3. Carrying' /\ Refreshing' /\ Ensuring'
      BY <2>0, <2>12, <2>c, <3>1, <3>2 DEF Persist, Carrying, Refreshing, Ensuring
    <3>4. Saved' /\ Started'
      BY <2>0, <2>12, <2>b, <2>c, <3>1 DEF Persist, Saved, Started
    <3>5. \A d \in Callback \ {c} : answer'[d] = answer[d] /\ saved'[d] = saved[d]
      BY <2>0, <2>12 DEF Persist
    <3>6. answer'[c] = "ok" => Complete'
      <4>1. CASE HasTarget
        BY <2>0, <2>12, <2>b, <2>c, <4>1 DEF Persist, SuccessIsComplete, Complete
      <4>2. CASE ~HasTarget
        BY <3>2, <4>2 DEF Complete
      <4> QED
        BY <4>1, <4>2
    <3>7. SuccessIsComplete'
      BY <2>b, <2>c, <3>2, <3>5, <3>6 DEF SuccessIsComplete, Complete
    <3> QED
      BY <3>3, <3>4, <3>7 DEF ReadyInv
  <2>13. ASSUME NEW c \in Callback, NEW g \in Grant, Redirect(c, g) PROVE ReadyInv'
    <3>1. UNCHANGED <<stored, hooks, missing, integration_ready>>
      BY <2>13 DEF Redirect, webexVars, readyVars
    <3>2. g # 0
      BY GrantAssumption DEF Grant
    <3>3. Carrying' /\ Refreshing' /\ Ensuring' /\ Saved'
      BY <2>0, <2>13, <2>c, <3>1, <3>2 DEF Redirect, Carrying, Refreshing, Ensuring, Saved
    <3>4. Started' /\ SuccessIsComplete'
      BY <2>0, <2>13, <2>b, <2>c, <3>1 DEF Redirect, Started, SuccessIsComplete, Complete
    <3> QED
      BY <3>3, <3>4 DEF ReadyInv
  <2>14. ASSUME NEW p \in Proc, HooksRefused(p) \/ SdkError(p) \/ TableError(p)
         PROVE  ReadyInv'
    BY <2>2, <2>14 DEF HooksRefused, SdkError, TableError
  <2>15. ASSUME NEW c \in Callback, ExchangeRefused(c) PROVE ReadyInv'
    BY <2>0, <2>2, <2>15 DEF ExchangeRefused
  <2>16. ASSUME NEW i \in Instance, Renew(i) \/ StoreRenewed(i) \/ RenewalLost(i)
         PROVE  ReadyInv'
    <3>1. /\ pc[i] = "up" /\ UNCHANGED <<pc, missing, integration_ready, saved, answer>>
          /\ \A p \in Proc : held'[p] = held[p] \/ p = i
      BY <2>0, <2>16
      DEF Renew, StoreRenewed, RenewalLost, otherVars, readyVars, callbackVars
    <3> QED
      BY <2>a, <3>1, ReadyFrame
  <2> QED
    BY <2>1, <2>3, <2>4, <2>5, <2>6, <2>7, <2>8, <2>9, <2>10, <2>11, <2>12, <2>13, <2>14,
       <2>15, <2>16, StepCases DEF AnyStep
<1> QED
  BY <1>1, <1>2, TypeCorrect, PTL DEF Spec

\* An instance that is ready has tokens stored and both webhooks registered
\* (lifespan sets the flag before it ensures the webhooks, serves after).
THEOREM ReadyBacked == Spec => []ReadyIsBacked
<1>1. ReadyInv => ReadyIsBacked
  BY DEF ReadyInv, Started, Complete, ReadyIsBacked, Ready
<1> QED
  BY <1>1, ReadyInvariant, PTL

\* A callback that shows success has stored its tokens and both webhooks exist.
THEOREM SuccessComplete == Spec => []SuccessIsComplete
<1>1. ReadyInv => SuccessIsComplete
  BY DEF ReadyInv
<1> QED
  BY <1>1, ReadyInvariant, PTL

-----------------------------------------------------------------------------
(* Duplicate webhooks.                                                     *)

\* The processes that found no webhook for event e and are about to create one.
Pending(e) == {p \in Proc : pc[p] = "create" /\ e \in missing[p]}

LEMMA PendingFinite ==
    ASSUME NEW e
    PROVE  /\ IsFiniteSet(Proc) /\ Cardinality(Proc) \in Nat
           /\ IsFiniteSet(Pending(e)) /\ Cardinality(Pending(e)) \in Nat
           /\ Cardinality(Pending(e)) <= Cardinality(Proc)
<1>1. IsFiniteSet(Proc)
  BY ProcAssumption, FS_Union DEF Proc
<1> QED
  BY <1>1, FS_Subset, FS_CardinalityType DEF Pending

\* A step that creates nothing and lets no process begin to create.
LEMMA PendingFrame ==
    ASSUME TypeOK, HooksBounded, UNCHANGED hooks,
           \A p \in Proc : pc'[p] = "create" =>
               pc[p] = "create" /\ missing'[p] \subseteq missing[p]
    PROVE  HooksBounded'
<1> SUFFICES ASSUME NEW e \in Event
             PROVE  hooks[e] + Cardinality(Pending(e)') <= Cardinality(Proc)
  BY DEF HooksBounded, Pending
<1>1. Pending(e)' \subseteq Pending(e)
  BY DEF Pending
<1>2. /\ Cardinality(Pending(e)') <= Cardinality(Pending(e))
      /\ Cardinality(Pending(e)') \in Nat
  BY <1>1, PendingFinite, FS_Subset, FS_CardinalityType
<1>3. hooks[e] \in Nat /\ hooks[e] + Cardinality(Pending(e)) <= Cardinality(Proc)
  BY DEF TypeOK, HooksBounded, Pending
<1> QED
  BY <1>2, <1>3, PendingFinite

\* aensure_service_app_webhooks, run by every startup and callback with nothing
\* that excludes the others, creates each event at most once for each of them.
THEOREM HooksAreBounded == Spec => []HooksBounded
<1>1. Init => HooksBounded
  <2> SUFFICES ASSUME Init, NEW e \in Event
               PROVE  hooks[e] + Cardinality(Pending(e)) <= Cardinality(Proc)
    BY DEF HooksBounded, Pending
  <2>1. Pending(e) = {} /\ hooks[e] = 0
    BY DEF Init, Pending
  <2> QED
    BY <2>1, FS_EmptySet, PendingFinite
<1>2. TypeOK /\ HooksBounded /\ [Next]_vars => HooksBounded'
  <2> SUFFICES ASSUME TypeOK, HooksBounded, [Next]_vars PROVE HooksBounded'
    OBVIOUS
  <2> USE DEF Goto
  <2>0. /\ pc \in [Proc -> PC] /\ missing \in [Proc -> SUBSET Event]
        /\ hooks \in [Event -> Nat]
        /\ Instance \subseteq Proc /\ Callback \subseteq Proc
        /\ Instance \cap Callback = {}
    BY ProcAssumption DEF TypeOK, Proc
  <2>1. ASSUME Consent \/ Outage \/ Restore PROVE HooksBounded'
    BY <2>1, PendingFrame DEF Consent, Outage, Restore, webexVars
  <2>2. ASSUME NEW g \in Grant, Revoke(g) PROVE HooksBounded'
    BY <2>2, PendingFrame DEF Revoke
  <2>3. ASSUME NEW p \in Proc, Fail(p), UNCHANGED hooks PROVE HooksBounded'
    <3>1. \A q \in Proc : pc'[q] = "create" =>
              pc[q] = "create" /\ missing'[q] \subseteq missing[q]
      BY <2>0, <2>3 DEF Fail
    <3> QED
      BY <2>3, <3>1, PendingFrame
  <2>4. ASSUME NEW p \in Proc, HooksRefused(p) \/ SdkError(p) \/ TableError(p)
        PROVE  HooksBounded'
    BY <2>3, <2>4 DEF HooksRefused, SdkError, TableError, webexVars
  <2>5. ASSUME NEW p \in Proc, HooksEnsured(p) PROVE HooksBounded'
    <3>1. \A q \in Proc : pc'[q] = "create" =>
              pc[q] = "create" /\ missing'[q] \subseteq missing[q]
      BY <2>0, <2>5 DEF HooksEnsured
    <3> QED
      BY <2>5, <3>1, PendingFrame DEF HooksEnsured, webexVars
  <2>6. ASSUME NEW p \in Proc, ListHooks(p) PROVE HooksBounded'
    <3> SUFFICES ASSUME NEW e \in Event
                 PROVE  hooks'[e] + Cardinality(Pending(e)') <= Cardinality(Proc)
      BY DEF HooksBounded, Pending
    <3>1. hooks' = hooks /\ hooks[e] \in Nat
      BY <2>0, <2>6 DEF ListHooks, webexVars
    <3>2. CASE hooks[e] = 0
      <4>1. Pending(e)' \subseteq Proc
        BY DEF Pending
      <4>2. /\ Cardinality(Pending(e)') <= Cardinality(Proc)
            /\ Cardinality(Pending(e)') \in Nat
        BY <4>1, PendingFinite, FS_Subset, FS_CardinalityType
      <4> QED
        BY <3>1, <3>2, <4>2
    <3>3. CASE hooks[e] # 0
      <4>1. Pending(e)' = Pending(e)
        BY <2>0, <2>6, <3>3 DEF ListHooks, Pending
      <4> QED
        BY <3>1, <4>1 DEF HooksBounded, Pending
    <3> QED
      BY <3>2, <3>3
  <2>7. ASSUME NEW p \in Proc, NEW f \in Event, CreateHook(p, f) PROVE HooksBounded'
    <3> SUFFICES ASSUME NEW e \in Event
                 PROVE  hooks'[e] + Cardinality(Pending(e)') <= Cardinality(Proc)
      BY DEF HooksBounded, Pending
    <3>1. hooks[e] \in Nat /\ hooks[e] + Cardinality(Pending(e)) <= Cardinality(Proc)
      BY <2>0 DEF HooksBounded, Pending
    <3>2. CASE e = f
      <4>1. hooks'[e] = hooks[e] + 1
        BY <2>0, <2>7, <3>2 DEF CreateHook
      <4>2. p \in Pending(e) /\ Pending(e)' = Pending(e) \ {p}
        BY <2>0, <2>7, <3>2 DEF CreateHook, Pending
      <4>3. Cardinality(Pending(e)') = Cardinality(Pending(e)) - 1
        BY <4>2, PendingFinite, FS_RemoveElement
      <4> QED
        BY <3>1, <4>1, <4>3, PendingFinite
    <3>3. CASE e # f
      <4>1. hooks'[e] = hooks[e] /\ Pending(e)' = Pending(e)
        BY <2>0, <2>7, <3>3 DEF CreateHook, Pending
      <4> QED
        BY <3>1, <4>1
    <3> QED
      BY <3>2, <3>3
  <2>8. ASSUME NEW i \in Instance,
               ReadCreds(i) \/ RefreshStored(i) \/ RefreshEnv(i) \/ SaveRefreshed(i)
                   \/ CheckTable(i) \/ Stop(i)
        PROVE  HooksBounded'
    <3>1. ASSUME ReadCreds(i) \/ SaveRefreshed(i) \/ CheckTable(i) PROVE HooksBounded'
      BY <2>0, <3>1, PendingFrame DEF ReadCreds, SaveRefreshed, CheckTable, webexVars
    <3>2. ASSUME RefreshStored(i) \/ RefreshEnv(i) PROVE HooksBounded'
      BY <2>0, <3>2, PendingFrame DEF RefreshStored, RefreshEnv, Refresh, webexVars
    <3>3. ASSUME Stop(i) PROVE HooksBounded'
      <4>1. \A q \in Proc : pc'[q] = "create" =>
                pc[q] = "create" /\ missing'[q] \subseteq missing[q]
        BY <2>0, <3>3 DEF Stop
      <4> QED
        BY <3>3, <4>1, PendingFrame DEF Stop, webexVars
    <3> QED
      BY <2>8, <3>1, <3>2, <3>3
  <2>13. ASSUME NEW i \in Instance, Renew(i) \/ StoreRenewed(i) \/ RenewalLost(i)
         PROVE  HooksBounded'
    BY <2>13, PendingFrame DEF Renew, StoreRenewed, RenewalLost, otherVars, webexVars
  <2>9. ASSUME NEW c \in Callback, Exchange(c) \/ Persist(c) PROVE HooksBounded'
    BY <2>0, <2>9, PendingFrame DEF Exchange, Persist, webexVars
  <2>10. ASSUME NEW c \in Callback, ExchangeRefused(c) PROVE HooksBounded'
    BY <2>0, <2>3, <2>10 DEF ExchangeRefused, webexVars
  <2>11. ASSUME NEW c \in Callback, NEW g \in Grant, Redirect(c, g) PROVE HooksBounded'
    BY <2>0, <2>11, PendingFrame DEF Redirect, webexVars
  <2>12. CASE UNCHANGED vars
    BY <2>12, PendingFrame DEF vars
  <2> QED
    BY <2>1, <2>2, <2>4, <2>5, <2>6, <2>7, <2>8, <2>9, <2>10, <2>11, <2>12, <2>13,
       StepCases DEF AnyStep
<1> QED
  BY <1>1, <1>2, TypeCorrect, PTL DEF Spec

-----------------------------------------------------------------------------

\* Of a re-authorization that was not raced, no instance, starting or serving, is
\* about to store anything else.
KeptInv == authorized # 0 /\ ~raced =>
    stored = authorized /\ \A i \in Instance : Carried(i) \subseteq {stored}

\* A step that stores nothing, and gives an instance nothing to put but what it
\* was to put before or the tokens that are stored.
LEMMA KeptFrame ==
    ASSUME KeptInv, UNCHANGED <<stored, authorized, raced>>,
           \A i \in Instance : Carried(i)' \in {{}, {stored}} \/ Carried(i)' = Carried(i)
    PROVE  KeptInv'
BY DEF KeptInv

\* A step of process p leaves what the others carry.
LEMMA OthersCarry ==
    ASSUME NEW p \in Proc, \A q \in Proc : q # p => pc'[q] = pc[q] /\ held'[q] = held[q]
    PROVE  \A q \in Proc : q # p => Carried(q)' = Carried(q)
BY DEF Carried

\* What a callback has stored outlives every restart (get_integration_tokens asks
\* the table first) and every refresh, unless an instance had read older tokens,
\* or the environment's, when it was stored.
THEOREM ReauthorizationKept == Spec => []ReauthorizationStays
<1>1. Init => KeptInv
  BY DEF Init, KeptInv
<1>2. TypeOK /\ Refreshing /\ KeptInv /\ [Next]_vars => KeptInv'
  <2> SUFFICES ASSUME TypeOK, Refreshing, KeptInv, [Next]_vars PROVE KeptInv'
    OBVIOUS
  <2> USE DEF Goto, callbackVars
  <2>0. /\ pc \in [Proc -> PC] /\ held \in [Proc -> 0 .. MaxGrants]
        /\ Instance \subseteq Proc /\ Callback \subseteq Proc
        /\ \A c \in Callback : c \notin Instance
    BY ProcAssumption DEF TypeOK, Proc
  <2>a. ASSUME NEW p \in Proc, UNCHANGED <<stored, authorized, raced>>,
               \A q \in Proc : q # p => pc'[q] = pc[q] /\ held'[q] = held[q],
               p \in Instance =>
                   Carried(p)' \in {{}, {stored}} \/ Carried(p)' = Carried(p)
        PROVE  KeptInv'
    BY <2>0, <2>a, OthersCarry, KeptFrame
  <2>1. ASSUME NEW p \in Proc, ListHooks(p) \/ HooksEnsured(p) PROVE KeptInv'
    <3>1. /\ UNCHANGED <<stored, authorized, raced>>
          /\ \A q \in Proc : q # p => pc'[q] = pc[q] /\ held'[q] = held[q]
      BY <2>0, <2>1 DEF ListHooks, HooksEnsured
    <3>2. p \in Instance => pc'[p] \in {"create", "check"}
      BY <2>0, <2>1 DEF ListHooks, HooksEnsured
    <3>3. p \in Instance => Carried(p)' = {}
      BY <3>2 DEF Carried
    <3> QED
      BY <2>a, <3>1, <3>3
  <2>2. ASSUME NEW p \in Proc, Fail(p), UNCHANGED stored PROVE KeptInv'
    <3>1. /\ UNCHANGED <<stored, authorized, raced>>
          /\ \A q \in Proc : q # p => pc'[q] = pc[q] /\ held'[q] = held[q]
          /\ p \in Instance => pc'[p] = "down"
      BY <2>0, <2>2 DEF Fail
    <3>2. p \in Instance => Carried(p)' = {}
      BY <3>1 DEF Carried
    <3> QED
      BY <2>a, <3>1, <3>2
  <2>3. ASSUME NEW p \in Proc, HooksRefused(p) \/ SdkError(p) \/ TableError(p) PROVE KeptInv'
    BY <2>2, <2>3 DEF HooksRefused, SdkError, TableError
  <2>4. ASSUME NEW i \in Instance, ReadCreds(i) PROVE KeptInv'
    <3>1. CASE stored # 0
      <4>1. /\ UNCHANGED <<stored, authorized, raced>>
            /\ \A q \in Proc : q # i => pc'[q] = pc[q] /\ held'[q] = held[q]
            /\ pc'[i] = "refresh_stored"
        BY <2>0, <2>4, <3>1 DEF ReadCreds
      <4>2. Carried(i)' = {}
        BY <4>1 DEF Carried
      <4> QED
        BY <2>0, <2>a, <4>1, <4>2
    <3>2. CASE stored = 0
      BY <2>4, <3>2 DEF ReadCreds, KeptInv
    <3> QED BY <3>1, <3>2
  <2>5. ASSUME NEW i \in Instance, RefreshStored(i) \/ RefreshEnv(i) PROVE KeptInv'
    <3>1. /\ UNCHANGED <<stored, authorized, raced>>
          /\ \A q \in Proc : q # i => pc'[q] = pc[q] /\ held'[q] = held[q]
      BY <2>0, <2>5 DEF RefreshStored, RefreshEnv, Refresh
    <3>2. \/ pc'[i] = "check"
          \/ pc'[i] = "save" /\ held'[i] = stored
          \/ pc[i] = "refresh_env" /\ pc'[i] = "save" /\ held'[i] = EnvGrant
      BY <2>0, <2>5 DEF RefreshStored, RefreshEnv, Refresh
    <3>3. Carried(i)' \in {{}, {stored}} \/ Carried(i)' = Carried(i)
      BY <3>1, <3>2 DEF Carried
    <3> QED
      BY <2>0, <2>a, <3>1, <3>3
  <2>6. ASSUME NEW i \in Instance, SaveRefreshed(i) \/ StoreRenewed(i) PROVE KeptInv'
    <3>1. /\ UNCHANGED <<authorized, raced>> /\ stored' = held[i]
          /\ \A q \in Proc : q # i => pc'[q] = pc[q] /\ held'[q] = held[q]
      BY <2>0, <2>6 DEF SaveRefreshed, StoreRenewed, otherVars
    <3>2. Carried(i) = {held[i]} /\ Carried(i)' = {}
      <4>1. CASE SaveRefreshed(i)
        <5>1. pc[i] = "save" /\ pc'[i] \in {"list", "check"}
          BY <2>0, <4>1 DEF SaveRefreshed
        <5> QED
          BY <5>1 DEF Carried
      <4>2. CASE StoreRenewed(i)
        <5>1. pc[i] = "up" /\ held[i] # 0 /\ pc'[i] = "up" /\ held'[i] = 0
          BY <2>0, <4>2 DEF StoreRenewed, otherVars
        <5> QED
          BY <5>1 DEF Carried
      <4> QED
        BY <2>6, <4>1, <4>2
    <3>3. \A j \in Instance : j # i => Carried(j)' = Carried(j)
      BY <2>0, <3>1, OthersCarry
    <3> QED
      BY <3>1, <3>2, <3>3 DEF KeptInv
  <2>7. ASSUME NEW i \in Instance, CheckTable(i) \/ Renew(i) \/ RenewalLost(i) PROVE KeptInv'
    <3>1. /\ UNCHANGED <<stored, authorized, raced>>
          /\ \A q \in Proc : q # i => pc'[q] = pc[q] /\ held'[q] = held[q]
      BY <2>0, <2>7 DEF CheckTable, Renew, RenewalLost, otherVars
    <3>2. pc'[i] = "up" /\ held'[i] \in {0, stored}
      BY <2>0, <2>7 DEF CheckTable, Renew, RenewalLost, otherVars
    <3>3. Carried(i)' \in {{}, {stored}}
      BY <3>2 DEF Carried
    <3> QED
      BY <2>0, <2>a, <3>1, <3>3
  <2>8. ASSUME NEW i \in Instance, Stop(i) PROVE KeptInv'
    <3>1. \A j \in Instance :
            pc'[j] \in {"down", "idle"} \/ (pc'[j] = pc[j] /\ held'[j] = held[j])
      BY <2>0, <2>8 DEF Stop
    <3>2. UNCHANGED <<stored, authorized, raced>>
      BY <2>8 DEF Stop
    <3>3. \A j \in Instance : Carried(j)' = {} \/ Carried(j)' = Carried(j)
      BY <3>1 DEF Carried
    <3> QED BY <3>2, <3>3, KeptFrame
  <2>9. ASSUME NEW c \in Callback, Exchange(c) \/ (\E g \in Grant : Redirect(c, g))
        PROVE  KeptInv'
    <3>1. /\ UNCHANGED <<stored, authorized, raced>>
          /\ \A q \in Proc : q # c => pc'[q] = pc[q] /\ held'[q] = held[q]
      BY <2>0, <2>9 DEF Exchange, Redirect
    <3> QED BY <2>0, <2>a, <3>1
  <2>10. ASSUME NEW c \in Callback, ExchangeRefused(c) PROVE KeptInv'
    BY <2>0, <2>2, <2>10 DEF ExchangeRefused
  <2>11. ASSUME NEW c \in Callback, Persist(c) PROVE KeptInv'
    <3>1. /\ stored' = held[c] /\ authorized' = held[c]
          /\ \A q \in Proc : q # c => pc'[q] = pc[q] /\ held'[q] = held[q]
      BY <2>0, <2>11 DEF Persist
    <3>2. raced' = \E i \in Instance : Carried(i) # {}
      BY <2>11 DEF Persist
    <3>3. \A i \in Instance : Carried(i)' = Carried(i)
      BY <2>0, <3>1, OthersCarry
    <3> QED BY <3>1, <3>2, <3>3 DEF KeptInv
  <2>12. CASE UNCHANGED <<stored, authorized, raced, pc, held>>
    BY <2>12 DEF KeptInv, Carried
  <2>13. (\E p \in Proc, e \in Event : CreateHook(p, e)) \/ Consent \/ Outage \/ Restore
           \/ (\E g \in Grant : Revoke(g)) \/ UNCHANGED vars
         => UNCHANGED <<stored, authorized, raced, pc, held>>
    BY DEF CreateHook, Consent, Outage, Restore, Revoke, vars
  <2> QED
    BY <2>1, <2>3, <2>4, <2>5, <2>6, <2>7, <2>8, <2>9, <2>10, <2>11, <2>12, <2>13,
       StepCases DEF AnyStep
<1>3. KeptInv => ReauthorizationStays
  BY DEF KeptInv, ReauthorizationStays
<1>4. ReadyInv => Refreshing
  BY DEF ReadyInv
<1> QED
  BY <1>1, <1>2, <1>3, <1>4, TypeCorrect, ReadyInvariant, PTL DEF Spec

-----------------------------------------------------------------------------
(* The token cell.  The mapped variables that are not variables, by name.  *)

CarriedMap == [p \in Proc |-> Carried(p)]
PutSet == {c \in Callback : saved[c]}
HookedSet == {e \in Event : hooks[e] > 0}
ReadySet == {i \in Instance : Ready(i)}
OkSet == {c \in Callback : answer[c] = "ok"}

\* What the invariant says of the cell.
LEMMA CompleteMapped == Complete <=> Cell!Complete
  BY DEF Complete, Hooked, Cell!Complete, HookedSet

\* A step of one process carries nothing for another.
LEMMA CarriedFrame ==
    ASSUME NEW p \in Proc, \A q \in Proc : q # p => pc'[q] = pc[q] /\ held'[q] = held[q]
    PROVE  CarriedMap' = [CarriedMap EXCEPT ![p] = Carried(p)']
<1>1. \A q \in Proc : q # p => Carried(q)' = Carried(q)
  BY DEF Carried
<1> QED
  BY <1>1 DEF CarriedMap

\* A step that changes no instance that serves, nor makes one serve.
LEMMA ReadyKept ==
    ASSUME \A i \in Instance :
               \/ pc[i] # "up" /\ pc'[i] # "up"
               \/ UNCHANGED <<pc[i], integration_ready[i], persistence_ready[i]>>
    PROVE  ReadySet' = ReadySet
<1>1. \A i \in Instance : Ready(i)' <=> Ready(i)
  BY DEF Ready
<1> QED
  BY <1>1 DEF ReadySet

\* A step that nobody sees of the cell.
LEMMA CellKept ==
    ASSUME UNCHANGED <<stored, redeemed, hooks, saved, answer>>,
           CarriedMap' = CarriedMap, ReadySet' = ReadySet
    PROVE  UNCHANGED Cell!vars
  BY DEF Cell!vars, CarriedMap, ReadySet

\* A process that fails loses what it carried.
LEMMA FailLoses ==
    ASSUME TypeOK, NEW p \in Proc, Fail(p), UNCHANGED <<webexVars, stored>>
    PROVE  Cell!Lose
<1>1. /\ pc'[p] \in {"down", "idle"}
      /\ \A q \in Proc : q # p => pc'[q] = pc[q] /\ held'[q] = held[q]
  BY DEF Fail, Goto, TypeOK
<1>2. Carried(p)' = {}
  BY <1>1 DEF Carried
<1>3. CarriedMap' = [CarriedMap EXCEPT ![p] = {}]
  BY <1>1, <1>2, CarriedFrame
<1>4. /\ CarriedMap' = [q \in Proc |-> CarriedMap'[q]]
      /\ \A q \in Proc : CarriedMap'[q] \in {{}, CarriedMap[q]}
  BY <1>3 DEF CarriedMap
<1>5. ReadySet' \subseteq ReadySet
  <2>1. \A i \in Instance : Ready(i)' => Ready(i)
    BY <1>1 DEF Fail, Forget, Ready, Proc
  <2> QED
    BY <2>1 DEF ReadySet
<1>6. OkSet' \subseteq OkSet
  BY DEF Fail, OkSet
<1> QED
  BY <1>4, <1>5, <1>6
  DEF Cell!Lose, Cell!Proc, Proc, CarriedMap, ReadySet, OkSet, Fail, webexVars

\* Every step of a start, a callback, Webex or the table is one of the cell.
LEMMA CellStep ==
    ASSUME TypeOK, ReadyInv, [Next]_vars
    PROVE  [Cell!Next]_(Cell!vars)
<1> USE DEF Goto, webexVars, readyVars, callbackVars
<1>0. /\ Instance \subseteq Proc /\ Callback \subseteq Proc /\ Instance \cap Callback = {}
      /\ pc \in [Proc -> PC] /\ held \in [Proc -> 0 .. MaxGrants]
      /\ missing \in [Proc -> SUBSET Event] /\ hooks \in [Event -> Nat]
      /\ integration_ready \in [Instance -> BOOLEAN]
      /\ persistence_ready \in [Instance -> BOOLEAN]
      /\ answer \in [Callback -> {"none", "ok", "failed"}]
      /\ saved \in [Callback -> BOOLEAN]
  BY ProcAssumption DEF TypeOK, Proc
<1>a. Carrying /\ Refreshing /\ Ensuring /\ Saved /\ Started
  BY DEF ReadyInv
<1>1. ASSUME Consent \/ Outage \/ Restore \/ (\E g \in Grant : Revoke(g)) \/ UNCHANGED vars
      PROVE  UNCHANGED Cell!vars
  <2>1. UNCHANGED <<stored, redeemed, hooks, saved, answer, pc, held, integration_ready,
                    persistence_ready>>
    BY <1>1 DEF Consent, Outage, Restore, Revoke, vars
  <2>2. CarriedMap' = CarriedMap
    BY <2>1 DEF CarriedMap, Carried
  <2> QED
    BY <2>1, <2>2, ReadyKept, CellKept
<1>2. ASSUME NEW p \in Proc, HooksRefused(p) \/ SdkError(p) \/ TableError(p)
      PROVE  Cell!Lose
  BY <1>2, FailLoses DEF HooksRefused, SdkError, TableError
<1>3. ASSUME NEW c \in Callback, ExchangeRefused(c)
      PROVE  Cell!Lose
  BY <1>0, <1>3, FailLoses DEF ExchangeRefused
<1>4. ASSUME NEW p \in Proc, ListHooks(p)
      PROVE  UNCHANGED Cell!vars
  <2>1. /\ UNCHANGED <<stored, redeemed, hooks, saved, answer, held, readyVars>>
        /\ pc[p] = "list" /\ pc' = [pc EXCEPT ![p] = "create"]
    BY <1>4 DEF ListHooks
  <2>2. CarriedMap' = CarriedMap
    BY <1>0, <2>1 DEF CarriedMap, Carried
  <2>3. ReadySet' = ReadySet
    BY <1>0, <2>1, ReadyKept
  <2> QED
    BY <2>1, <2>2, <2>3, CellKept
<1>5. ASSUME NEW p \in Proc, NEW e \in Event, CreateHook(p, e)
      PROVE  Cell!Hook(e)
  <2>1. /\ UNCHANGED <<stored, redeemed, saved, answer, pc, held, readyVars>>
        /\ stored # 0 /\ hooks' = [hooks EXCEPT ![e] = @ + 1]
    BY <1>5, <1>a DEF CreateHook, Ensuring
  <2>2. CarriedMap' = CarriedMap
    BY <2>1 DEF CarriedMap, Carried
  <2>3. ReadySet' = ReadySet
    BY <2>1, ReadyKept
  <2>4. HookedSet' = HookedSet \cup {e}
    BY <1>0, <2>1 DEF HookedSet
  <2> QED
    BY <2>1, <2>2, <2>3, <2>4 DEF Cell!Hook, CarriedMap, ReadySet, HookedSet
<1>6. ASSUME NEW p \in Proc, HooksEnsured(p)
      PROVE  UNCHANGED Cell!vars \/ (p \in Callback /\ Cell!Succeed(p))
  <2>1. /\ UNCHANGED <<stored, redeemed, hooks, saved, readyVars>>
        /\ pc[p] = "create" /\ missing[p] = {}
        /\ pc' = [pc EXCEPT ![p] = IF p \in Instance THEN "check" ELSE "idle"]
        /\ held' = [held EXCEPT ![p] = 0]
        /\ answer' = [c \in Callback |-> IF c = p THEN "ok" ELSE answer[c]]
    BY <1>6 DEF HooksEnsured
  <2>2. CarriedMap' = CarriedMap
    BY <1>0, <2>1 DEF CarriedMap, Carried
  <2>3. ReadySet' = ReadySet
    BY <1>0, <2>1, ReadyKept
  <2>4. CASE p \in Instance
    <3>1. answer' = answer
      BY <1>0, <2>1, <2>4
    <3> QED
      BY <2>1, <2>2, <2>3, <3>1, CellKept
  <2>5. CASE p \in Callback
    <3>1. OkSet' = OkSet \cup {p}
      BY <2>1, <2>5 DEF OkSet
    <3>2. p \in PutSet
      BY <1>a, <2>1, <2>5 DEF Saved, PutSet
    <3>3. Complete
      BY <1>a, <2>1 DEF Ensuring, Complete, Hooked
    <3>4. Cell!Complete
      BY <3>3, CompleteMapped
    <3> QED
      BY <2>1, <2>2, <2>3, <2>5, <3>1, <3>2, <3>4
      DEF Cell!Succeed, CarriedMap, ReadySet, OkSet, PutSet
  <2> QED
    BY <2>4, <2>5 DEF Proc
<1>7. ASSUME NEW i \in Instance, ReadCreds(i)
      PROVE  UNCHANGED Cell!vars \/ Cell!Find(i)
  <2>1. /\ UNCHANGED <<stored, redeemed, hooks, saved, answer, held>>
        /\ pc[i] = "down"
        /\ pc' = [pc EXCEPT ![i] = IF stored # 0 THEN "refresh_stored"
                                   ELSE IF EnvGrant # 0 THEN "refresh_env" ELSE "check"]
        /\ UNCHANGED readyVars
    BY <1>0, <1>7 DEF ReadCreds
  <2>2. ReadySet' = ReadySet
    BY <1>0, <2>1, ReadyKept
  <2>3. \A q \in Proc : q # i => pc'[q] = pc[q] /\ held'[q] = held[q]
    BY <1>0, <2>1
  <2>4. CarriedMap' = [CarriedMap EXCEPT ![i] = Carried(i)']
    BY <1>0, <2>3, CarriedFrame
  <2>5. CarriedMap[i] = {}
    BY <1>0, <2>1 DEF CarriedMap, Carried
  <2>6. CASE pc'[i] # "refresh_env"
    <3>1. Carried(i)' = {}
      BY <1>0, <2>1, <2>6 DEF Carried
    <3>2. CarriedMap' = CarriedMap
      BY <2>4, <2>5, <3>1 DEF CarriedMap
    <3> QED
      BY <2>1, <2>2, <3>2, CellKept
  <2>7. CASE pc'[i] = "refresh_env"
    <3>1. stored = 0 /\ EnvGrant # 0
      BY <1>0, <2>1, <2>7
    <3>2. Carried(i)' = {EnvGrant} \ {0}
      BY <2>7, <3>1 DEF Carried
    <3> QED
      BY <2>1, <2>2, <2>4, <2>5, <3>1, <3>2 DEF Cell!Find, CarriedMap, ReadySet
  <2> QED
    BY <2>6, <2>7
<1>8. ASSUME NEW i \in Instance, RefreshStored(i)
      PROVE  UNCHANGED Cell!vars \/ Cell!Find(i)
  <2>1. /\ UNCHANGED <<stored, redeemed, hooks, saved, answer, readyVars>>
        /\ pc[i] = "refresh_stored" /\ stored # 0
        /\ \/ pc' = [pc EXCEPT ![i] = "check"] /\ UNCHANGED held
           \/ pc' = [pc EXCEPT ![i] = "save"] /\ held' = [held EXCEPT ![i] = stored]
    BY <1>8, <1>a DEF RefreshStored, Refresh, Refreshing
  <2>2. ReadySet' = ReadySet
    BY <1>0, <2>1, ReadyKept
  <2>3. \A q \in Proc : q # i => pc'[q] = pc[q] /\ held'[q] = held[q]
    BY <1>0, <2>1
  <2>4. CarriedMap' = [CarriedMap EXCEPT ![i] = Carried(i)']
    BY <1>0, <2>3, CarriedFrame
  <2>5. CarriedMap[i] = {}
    BY <1>0, <2>1 DEF CarriedMap, Carried
  <2>6. CASE pc'[i] = "check"
    <3>1. CarriedMap' = CarriedMap
      BY <2>4, <2>5, <2>6 DEF CarriedMap, Carried
    <3> QED
      BY <2>1, <2>2, <3>1, CellKept
  <2>7. CASE pc'[i] = "save" /\ held'[i] = stored
    <3>1. Carried(i)' = {stored}
      BY <2>7 DEF Carried
    <3> QED
      BY <2>1, <2>2, <2>4, <2>5, <3>1 DEF Cell!Find, CarriedMap, ReadySet
  <2> QED
    BY <1>0, <2>1, <2>6, <2>7
<1>9. ASSUME NEW i \in Instance, RefreshEnv(i)
      PROVE  UNCHANGED Cell!vars \/ Cell!Lose
  <2>1. /\ UNCHANGED <<stored, redeemed, hooks, saved, answer, readyVars>>
        /\ pc[i] = "refresh_env"
        /\ \/ pc' = [pc EXCEPT ![i] = "check"] /\ UNCHANGED held
           \/ pc' = [pc EXCEPT ![i] = "save"] /\ held' = [held EXCEPT ![i] = EnvGrant]
    BY <1>9 DEF RefreshEnv, Refresh
  <2>2. ReadySet' = ReadySet
    BY <1>0, <2>1, ReadyKept
  <2>3. \A q \in Proc : q # i => pc'[q] = pc[q] /\ held'[q] = held[q]
    BY <1>0, <2>1
  <2>4. CarriedMap' = [CarriedMap EXCEPT ![i] = Carried(i)']
    BY <1>0, <2>3, CarriedFrame
  <2>5. CASE pc'[i] = "check"
    <3>1. Carried(i)' = {}
      BY <2>5 DEF Carried
    <3>2. /\ CarriedMap' = [p \in Proc |-> CarriedMap'[p]]
          /\ \A p \in Proc : CarriedMap'[p] \in {{}, CarriedMap[p]}
      BY <2>4, <3>1 DEF CarriedMap
    <3> QED
      BY <2>1, <2>2, <3>2 DEF Cell!Lose, Cell!Proc, Proc, CarriedMap, ReadySet
  <2>6. CASE pc'[i] = "save" /\ held'[i] = EnvGrant
    <3>1. Carried(i)' = Carried(i)
      BY <2>1, <2>6 DEF Carried
    <3>2. CarriedMap' = CarriedMap
      BY <2>4, <3>1 DEF CarriedMap
    <3> QED
      BY <2>1, <2>2, <3>2, CellKept
  <2> QED
    BY <1>0, <2>1, <2>5, <2>6
<1>10. ASSUME NEW i \in Instance, SaveRefreshed(i)
       PROVE  Cell!Put(i)
  <2>1. /\ UNCHANGED <<redeemed, hooks, saved, answer, held>>
        /\ pc[i] = "save" /\ stored' = held[i]
        /\ pc' = [pc EXCEPT ![i] = IF HasTarget THEN "list" ELSE "check"]
        /\ \A j \in Instance : j # i => UNCHANGED <<integration_ready[j], persistence_ready[j]>>
    BY <1>0, <1>10 DEF SaveRefreshed
  <2>2. ReadySet' = ReadySet
    BY <1>0, <2>1, ReadyKept
  <2>3. \A q \in Proc : q # i => pc'[q] = pc[q] /\ held'[q] = held[q]
    BY <1>0, <2>1
  <2>4. CarriedMap' = [CarriedMap EXCEPT ![i] = {}]
    <3>1. Carried(i)' = {}
      BY <1>0, <2>1 DEF Carried
    <3> QED
      BY <1>0, <2>3, <3>1, CarriedFrame
  <2>5. CarriedMap[i] = {held[i]}
    BY <1>0, <2>1 DEF CarriedMap, Carried
  <2>6. {i} \cap Callback = {}
    BY <1>0
  <2> QED
    BY <2>1, <2>2, <2>4, <2>5, <2>6 DEF Cell!Put, CarriedMap, ReadySet
<1>11. ASSUME NEW i \in Instance, CheckTable(i)
       PROVE  UNCHANGED Cell!vars \/ Cell!Report(i)
  <2>1. /\ UNCHANGED <<stored, redeemed, hooks, saved, answer, integration_ready>>
        /\ pc[i] = "check" /\ pc' = [pc EXCEPT ![i] = "up"]
        /\ held' = [held EXCEPT ![i] = 0]
        /\ persistence_ready' = [persistence_ready EXCEPT ![i] = reachable]
    BY <1>11 DEF CheckTable
  <2>2. CarriedMap' = CarriedMap
    BY <1>0, <2>1 DEF CarriedMap, Carried
  <2>3. /\ ~Ready(i)
        /\ \A j \in Instance : j # i => (Ready(j)' <=> Ready(j))
    BY <1>0, <2>1 DEF Ready
  <2>4. CASE Ready(i)'
    <3>1. integration_ready[i]
      BY <2>1, <2>4 DEF Ready
    <3>2. Cell!Complete
      BY <1>a, <2>1, <3>1, CompleteMapped DEF Started
    <3>3. ReadySet' = ReadySet \cup {i}
      BY <2>3, <2>4 DEF ReadySet
    <3> QED
      BY <2>1, <2>2, <3>2, <3>3 DEF Cell!Report, CarriedMap, ReadySet
  <2>5. CASE ~Ready(i)'
    <3>1. ReadySet' = ReadySet
      BY <2>3, <2>5 DEF ReadySet
    <3> QED
      BY <2>1, <2>2, <3>1, CellKept
  <2> QED
    BY <2>4, <2>5
<1>12. ASSUME NEW i \in Instance, Stop(i)
       PROVE  Cell!Lose
  <2>1. /\ UNCHANGED <<stored, redeemed, hooks, saved, answer>>
        /\ \A p \in Proc : \/ pc'[p] \in {"down", "idle"}
                           \/ pc'[p] = pc[p] /\ held'[p] = held[p]
    BY <1>0, <1>12 DEF Stop
  <2>2. \A p \in Proc : Carried(p)' \in {{}, Carried(p)}
    BY <2>1 DEF Carried
  <2>3. /\ CarriedMap' = [p \in Proc |-> CarriedMap'[p]]
        /\ \A p \in Proc : CarriedMap'[p] \in {{}, CarriedMap[p]}
    BY <2>2 DEF CarriedMap
  <2>4. ReadySet' \subseteq ReadySet
    <3>1. \A j \in Instance : Ready(j)' => Ready(j)
      BY <1>0, <1>12, <2>1 DEF Stop, Forget, Ready
    <3> QED
      BY <3>1 DEF ReadySet
  <2> QED
    BY <2>1, <2>3, <2>4 DEF Cell!Lose, Cell!Proc, Proc, CarriedMap, ReadySet
<1>13. ASSUME NEW c \in Callback, Exchange(c)
       PROVE  Cell!Redeem(c)
  <2>1. /\ UNCHANGED <<stored, hooks, saved, answer, held, readyVars>>
        /\ pc[c] = "exchange" /\ pc' = [pc EXCEPT ![c] = "persist"]
        /\ held[c] \notin redeemed /\ redeemed' = redeemed \cup {held[c]}
        /\ held[c] \in Grant
    <3>1. held[c] \in 0 .. MaxGrants /\ held[c] # 0
      BY <1>0, <1>13, <1>a DEF Exchange, Carrying
    <3>2. held[c] \in Grant
      BY <3>1 DEF Grant
    <3> QED
      BY <1>13, <3>2 DEF Exchange
  <2>2. ReadySet' = ReadySet
    BY <1>0, <2>1, ReadyKept
  <2>3. CarriedMap' = [CarriedMap EXCEPT ![c] = {held[c]}]
    <3>1. \A q \in Proc : q # c => pc'[q] = pc[q] /\ held'[q] = held[q]
      BY <1>0, <2>1
    <3>2. Carried(c)' = {held[c]}
      BY <1>0, <2>1 DEF Carried
    <3> QED
      BY <1>0, <3>1, <3>2, CarriedFrame
  <2>4. CarriedMap[c] = {}
    BY <1>0, <2>1 DEF CarriedMap, Carried
  <2> QED
    BY <2>1, <2>2, <2>3, <2>4 DEF Cell!Redeem, CarriedMap, ReadySet
<1>14. ASSUME NEW c \in Callback, Persist(c)
       PROVE  Cell!Put(c)
  <2>1. /\ UNCHANGED <<redeemed, hooks, readyVars>>
        /\ pc[c] = "persist" /\ stored' = held[c]
        /\ saved' = [saved EXCEPT ![c] = TRUE]
        /\ pc' = [pc EXCEPT ![c] = IF HasTarget THEN "list" ELSE "idle"]
        /\ \A q \in Proc : q # c => pc'[q] = pc[q] /\ held'[q] = held[q]
        /\ answer' = IF HasTarget THEN answer ELSE [answer EXCEPT ![c] = "ok"]
    BY <1>0, <1>14 DEF Persist
  <2>2. ReadySet' = ReadySet
    BY <1>0, <2>1, ReadyKept
  <2>3. CarriedMap' = [CarriedMap EXCEPT ![c] = {}]
    <3>1. Carried(c)' = {}
      BY <1>0, <2>1 DEF Carried
    <3> QED
      BY <1>0, <2>1, <3>1, CarriedFrame
  <2>4. CarriedMap[c] = {held[c]}
    BY <1>0, <2>1 DEF CarriedMap, Carried
  <2>5. PutSet' = PutSet \cup {c}
    BY <1>0, <2>1 DEF PutSet
  <2>6. OkSet' = IF HasTarget THEN OkSet ELSE OkSet \cup {c}
    BY <1>0, <2>1 DEF OkSet
  <2>7. {c} \cap Callback = {c}
    OBVIOUS
  <2> QED
    BY <2>1, <2>2, <2>3, <2>4, <2>5, <2>6, <2>7
    DEF Cell!Put, CarriedMap, ReadySet, PutSet, OkSet
<1>15. ASSUME NEW c \in Callback, NEW g \in Grant, Redirect(c, g)
       PROVE  Cell!Ask(c)
  <2>1. /\ UNCHANGED <<stored, redeemed, hooks, readyVars>>
        /\ pc[c] = "idle" /\ pc' = [pc EXCEPT ![c] = "exchange"]
        /\ \A q \in Proc : q # c => pc'[q] = pc[q] /\ held'[q] = held[q]
        /\ answer' = [answer EXCEPT ![c] = "none"]
        /\ saved' = [saved EXCEPT ![c] = FALSE]
    BY <1>0, <1>15 DEF Redirect
  <2>2. ReadySet' = ReadySet
    BY <1>0, <2>1, ReadyKept
  <2>3. CarriedMap' = CarriedMap
    BY <1>0, <2>1 DEF CarriedMap, Carried
  <2>4. PutSet' = PutSet \ {c} /\ OkSet' = OkSet \ {c}
    BY <1>0, <2>1 DEF PutSet, OkSet
  <2> QED
    BY <2>1, <2>2, <2>3, <2>4 DEF Cell!Ask, CarriedMap, ReadySet, PutSet, OkSet
<1>16. ASSUME NEW i \in Instance, Renew(i) \/ StoreRenewed(i) \/ RenewalLost(i)
       PROVE  Cell!Find(i) \/ Cell!Put(i) \/ Cell!Lose
  <2>1. /\ UNCHANGED <<redeemed, hooks, saved, answer, pc, readyVars>> /\ pc[i] = "up"
        /\ \A q \in Proc : q # i => pc'[q] = pc[q] /\ held'[q] = held[q]
    BY <1>0, <1>16 DEF Renew, StoreRenewed, RenewalLost, otherVars
  <2>2. ReadySet' = ReadySet
    BY <2>1, ReadyKept
  <2>3. CarriedMap' = [CarriedMap EXCEPT ![i] = Carried(i)']
    BY <1>0, <2>1, CarriedFrame
  <2>4. CarriedMap[i] = {held[i]} \ {0} /\ Carried(i)' = {held'[i]} \ {0}
    BY <1>0, <2>1 DEF CarriedMap, Carried
  <2>5. CASE Renew(i)
    <3>1. /\ stored # 0 /\ stored' = stored
          /\ CarriedMap[i] = {} /\ Carried(i)' = {stored}
      BY <1>0, <2>4, <2>5 DEF Renew
    <3> QED
      BY <2>1, <2>2, <2>3, <3>1 DEF Cell!Find, CarriedMap, ReadySet
  <2>6. CASE StoreRenewed(i)
    <3>1. stored' = held[i] /\ CarriedMap[i] = {held[i]} /\ Carried(i)' = {}
      BY <1>0, <2>4, <2>6 DEF StoreRenewed
    <3>2. {i} \cap Callback = {}
      BY <1>0
    <3> QED
      BY <2>1, <2>2, <2>3, <3>1, <3>2 DEF Cell!Put, CarriedMap, ReadySet
  <2>7. CASE RenewalLost(i)
    <3>1. stored' = stored /\ Carried(i)' = {}
      BY <1>0, <2>4, <2>7 DEF RenewalLost
    <3>2. /\ CarriedMap' = [p \in Proc |-> CarriedMap'[p]]
          /\ \A p \in Proc : CarriedMap'[p] \in {{}, CarriedMap[p]}
      BY <2>3, <3>1 DEF CarriedMap
    <3> QED
      BY <2>1, <2>2, <3>1, <3>2 DEF Cell!Lose, Cell!Proc, Proc, CarriedMap, ReadySet
  <2> QED
    BY <1>16, <2>5, <2>6, <2>7
<1> QED
  <2>1. CASE AnyStep
    BY <1>1, <1>2, <1>3, <1>4, <1>5, <1>6, <1>7, <1>8, <1>9, <1>10, <1>11, <1>12, <1>13,
       <1>14, <1>15, <1>16, <2>1 DEF AnyStep, Cell!Next, Cell!Proc, Proc
  <2>2. CASE UNCHANGED vars
    BY <1>1, <2>2
  <2> QED
    BY <2>1, <2>2, StepCases

\* ImplementsTokenCell: bootstrap, callback and webhook ensure, in any number and
\* any order, with every refusal, outage and stop, are one token cell.
THEOREM TokenCellRefinement == Spec => ImplementsTokenCell
<1>1. Init => Cell!Init
  <2> SUFFICES ASSUME Init
               PROVE  Cell!Init
    OBVIOUS
  <2>1. CarriedMap = [p \in Proc |-> {}]
    BY DEF Init, CarriedMap, Carried
  <2>2. PutSet = {} /\ HookedSet = {} /\ OkSet = {}
    BY DEF Init, PutSet, HookedSet, OkSet
  <2>3. ReadySet = {}
    BY DEF Init, ReadySet, Ready
  <2> QED
    BY <2>1, <2>2, <2>3
    DEF Init, Cell!Init, Cell!Proc, Proc, CarriedMap, PutSet, HookedSet, OkSet, ReadySet
<1> QED
  BY <1>1, CellStep, TypeCorrect, ReadyInvariant, PTL DEF Spec, ImplementsTokenCell, Cell!Spec
=============================================================================
