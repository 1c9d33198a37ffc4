------------------------- MODULE RateLimiter_proofs -------------------------
(***************************************************************************)
(* Theorems of RateLimiter, for any clients, limit, window and bounds.     *)
(***************************************************************************)
EXTENDS RateLimiter, FiniteSetTheorems, TLAPS

LEMMA TypeStep == TypeOK /\ [Next]_vars => TypeOK'
<1> SUFFICES ASSUME TypeOK, [Next]_vars PROVE TypeOK'
  OBVIOUS
<1> USE DEF TypeOK, Hit, Count, ThisRequest, Kept
<1>1. CASE Tick
  BY <1>1 DEF Tick
<1>2. ASSUME NEW c \in Client, Admit(c) PROVE TypeOK'
  BY <1>2 DEF Admit
<1>3. ASSUME NEW c \in Client, Reject(c) PROVE TypeOK'
  BY <1>3 DEF Reject
<1>4. CASE Restart
  BY <1>4 DEF Restart
<1>5. CASE UNCHANGED vars
  BY <1>5 DEF vars
<1> QED BY <1>1, <1>2, <1>3, <1>4, <1>5 DEF Next

\* Every variable keeps its type.
THEOREM TypeCorrect == Spec => []TypeOK
<1>1. Init => TypeOK
  BY DEF Init, TypeOK
<1> QED BY <1>1, TypeStep, PTL DEF Spec

-----------------------------------------------------------------------------
(* The list against the history.  What pruning removed is out of every      *)
(* window that is still to come; what is left is the part of the history    *)
(* the abstract limiter looks at.                                           *)

Remembered(c) ==
    /\ hits[c] \subseteq admitted[c]
    /\ \A a \in admitted[c] : /\ a.id < requests
                              /\ a.at <= now
                              /\ a.at >= now - Window => a \in hits[c]
    /\ IsFiniteSet(hits[c])

WindowInv == \A c \in Client : Remembered(c) /\ Limited(admitted[c])

\* The pruned list is exactly the recent part of the history.
LEMMA KeptIsRecent ==
    ASSUME NEW c \in Client, Remembered(c)
    PROVE  /\ Kept(c) = {a \in admitted[c] : a.at >= now - Window}
           /\ IsFiniteSet(Kept(c))
<1>1. Kept(c) = {a \in admitted[c] : a.at >= now - Window}
  BY DEF Remembered, Kept
<1>2. Kept(c) \subseteq hits[c]
  BY DEF Kept
<1> QED BY <1>1, <1>2, FS_Subset DEF Remembered

\* A window that a set of hits and one more hit fall into is not over the limit
\* when the set is below it.
LEMMA OneMore ==
    ASSUME NEW S, IsFiniteSet(S), Cardinality(S) < Limit, NEW x,
           NEW T, T \subseteq S \cup {x}
    PROVE  Cardinality(T) <= Limit
<1>1. /\ IsFiniteSet(S \cup {x})
      /\ Cardinality(S \cup {x}) <= Cardinality(S) + 1
      /\ Cardinality(S) \in Nat
  BY FS_AddElement, FS_CardinalityType
<1>2. /\ Cardinality(T) <= Cardinality(S \cup {x})
      /\ Cardinality(T) \in Nat /\ Cardinality(S \cup {x}) \in Nat
  BY <1>1, FS_Subset, FS_CardinalityType
<1> QED BY <1>1, <1>2, LimitAssumption

LEMMA WindowStep == TypeOK /\ WindowInv /\ [Next]_vars => WindowInv'
<1> SUFFICES ASSUME TypeOK, WindowInv, [Next]_vars, NEW c \in Client
             PROVE  Remembered(c)' /\ Limited(admitted[c])'
  BY DEF WindowInv
<1> USE WindowAssumption DEF TypeOK, Hit, ThisRequest
<1>1. Remembered(c) /\ Limited(admitted[c])
  BY DEF WindowInv
<1>2. CASE Tick
  BY <1>1, <1>2 DEF Tick, Remembered, Limited, InWindowOf
<1>3. ASSUME NEW d \in Client, Admit(d) PROVE Remembered(c)' /\ Limited(admitted[c])'
  <2>1. CASE c # d
    BY <1>1, <1>3, <2>1 DEF Admit, Count, Remembered, Limited, InWindowOf
  <2>2. CASE c = d
    <3>1. /\ hits'[c] = Kept(c) \cup {ThisRequest}
          /\ admitted'[c] = admitted[c] \cup {ThisRequest}
          /\ Cardinality(Kept(c)) < Limit
          /\ now' = now /\ requests' = requests + 1
      BY <1>3, <2>2 DEF Admit, Count
    <3>2. /\ Kept(c) = {a \in admitted[c] : a.at >= now - Window}
          /\ IsFiniteSet(Kept(c))
      BY <1>1, KeptIsRecent
    <3>3. Remembered(c)'
      <4>1. IsFiniteSet(hits'[c])
        <5> DEFINE kept == Kept(c)
        <5>1. IsFiniteSet(kept)
          BY <3>2
        <5> HIDE DEF kept
        <5>2. IsFiniteSet(kept \cup {ThisRequest})
          BY <5>1, FS_AddElement
        <5> QED BY <3>1, <5>2 DEF kept
      <4>2. hits'[c] \subseteq admitted'[c]
        BY <3>1, <3>2
      <4>3. ASSUME NEW a \in admitted'[c]
            PROVE  /\ a.id < requests' /\ a.at <= now'
                   /\ a.at >= now' - Window => a \in hits'[c]
        BY <1>1, <3>1, <3>2 DEF Remembered
      <4> QED BY <4>1, <4>2, <4>3 DEF Remembered
    <3>4. ASSUME NEW a \in admitted'[c]
          PROVE  Cardinality(InWindowOf(a, admitted'[c])) <= Limit
      <4>1. CASE a.at >= now - Window
        <5>1. InWindowOf(a, admitted'[c]) \subseteq Kept(c) \cup {ThisRequest}
          BY <3>1, <3>2, <4>1 DEF InWindowOf
        <5> QED BY <3>1, <3>2, <5>1, OneMore
      <4>2. CASE ~(a.at >= now - Window)
        <5>1. a \in admitted[c]
          BY <3>1, <4>2
        <5>2. InWindowOf(a, admitted'[c]) = InWindowOf(a, admitted[c])
          BY <3>1, <4>2, <5>1 DEF InWindowOf
        <5> QED BY <1>1, <5>1, <5>2 DEF Limited
      <4> QED BY <4>1, <4>2
    <3> QED BY <3>3, <3>4 DEF Limited
  <2> QED BY <2>1, <2>2
<1>4. ASSUME NEW d \in Client, Reject(d) PROVE Remembered(c)' /\ Limited(admitted[c])'
  <2>1. Limited(admitted[c])' /\ now' = now /\ requests' = requests + 1
    BY <1>1, <1>4 DEF Reject, Count, Limited, InWindowOf
  <2>2. CASE c # d
    BY <1>1, <1>4, <2>1, <2>2 DEF Reject, Remembered
  <2>3. CASE c = d
    <3>1. hits'[c] = Kept(c) /\ admitted' = admitted
      BY <1>4, <2>3 DEF Reject
    <3>2. /\ Kept(c) = {a \in admitted[c] : a.at >= now - Window}
          /\ IsFiniteSet(Kept(c))
      BY <1>1, KeptIsRecent
    <3> QED BY <1>1, <2>1, <3>1, <3>2 DEF Remembered
  <2> QED BY <2>2, <2>3
<1>5. CASE Restart
  BY <1>5, FS_EmptySet DEF Restart, Remembered, Limited
<1>6. CASE UNCHANGED vars
  BY <1>1, <1>6 DEF vars, Remembered, Limited, InWindowOf
<1> QED BY <1>2, <1>3, <1>4, <1>5, <1>6 DEF Next

LEMMA WindowInvariant == Spec => []WindowInv
<1>1. Init => WindowInv
  BY FS_EmptySet DEF Init, WindowInv, Remembered, Limited
<1> QED BY <1>1, WindowStep, TypeCorrect, PTL DEF Spec

\* In no closed window of Window seconds does one client pass more than Limit.
THEOREM WindowIsBounded == Spec => []WindowBound
<1>1. WindowInv => WindowBound
  BY DEF WindowInv, WindowBound
<1> QED BY <1>1, WindowInvariant, PTL

-----------------------------------------------------------------------------
(* Refinement.                                                             *)

\* Both specifications count with the same FiniteSets operator.
LEMMA SameCardinality == \A S : SW!Cardinality(S) = Cardinality(S)
  BY DEF SW!Cardinality, Cardinality

\* Each decision of the middleware is one the abstract limiter makes.
LEMMA StepRefines ==
    TypeOK /\ WindowInv /\ [Next]_vars => [SW!Next]_<<now, admitted, answer>>
<1> SUFFICES ASSUME TypeOK, WindowInv, [Next]_vars
             PROVE  SW!Next \/ UNCHANGED <<now, admitted, answer>>
  OBVIOUS
<1>1. \A c \in Client : Kept(c) = SW!Recent(c)
  BY KeptIsRecent DEF WindowInv, SW!Recent
<1>2. CASE Tick
  BY <1>2 DEF Tick, SW!Next, SW!Tick
<1>3. ASSUME NEW c \in Client, Admit(c) PROVE SW!Admit(c)
  <2>1. ThisRequest \notin admitted[c]
    BY DEF WindowInv, Remembered, ThisRequest, TypeOK
  <2>2. ThisRequest \in admitted'[c] /\ ThisRequest.at = now
    BY <1>3 DEF Admit, ThisRequest, TypeOK
  <2>3. /\ Cardinality(Kept(c)) < Limit
        /\ admitted' = [admitted EXCEPT ![c] = @ \cup {ThisRequest}]
        /\ answer' = "passed" /\ now' = now
    BY <1>3 DEF Admit
  <2>4. Cardinality(SW!Recent(c)) < Limit
    BY <1>1, <2>3
  <2> QED BY <2>1, <2>2, <2>3, <2>4, SameCardinality DEF SW!Admit
<1>4. ASSUME NEW c \in Client, Reject(c) PROVE SW!Reject(c)
  <2>1. /\ Cardinality(Kept(c)) >= Limit
        /\ answer' = "429" /\ now' = now /\ admitted' = admitted
    BY <1>4 DEF Reject
  <2>2. Cardinality(SW!Recent(c)) >= Limit
    BY <1>1, <2>1
  <2> QED BY <2>1, <2>2, SameCardinality DEF SW!Reject
<1>5. CASE Restart
  BY <1>5 DEF Restart, SW!Next, SW!Forget
<1>6. CASE UNCHANGED vars
  BY <1>6 DEF vars
<1> QED BY <1>2, <1>3, <1>4, <1>5, <1>6 DEF Next, SW!Next

\* The middleware, which keeps only a minute of requests, decides every request
\* as the limiter that remembers all of them.
THEOREM Refinement == Spec => ImplementsSlidingWindow
<1>1. Init => SW!Init
  BY DEF Init, SW!Init
<1> QED BY <1>1, StepRefines, TypeCorrect, WindowInvariant, PTL
        DEF Spec, ImplementsSlidingWindow, SW!Spec
=============================================================================
