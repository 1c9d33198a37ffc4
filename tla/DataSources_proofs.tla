------------------------- MODULE DataSources_proofs -------------------------
(* Proofs about the data source commands, for any number of them.            *)
EXTENDS DataSources, TLAPS

Creating(c) == cmd[c] # Idle /\ cmd[c].op = "create"
Running(c) == phase[c] \in {"list", "scan", "call"}

\* What each caller knows is one of its request.
Asked == \A c \in Caller :
    /\ phase[c] = "idle" <=> cmd[c] = Idle
    /\ phase[c] \in {"list", "scan"} => Creating(c)

\* The check has still to look at every data source that has kept the URL since a
\* list that told of it.
Unchecked == \A c \in Caller :
    /\ cmd[c] = Idle => stable[c] = {}
    /\ cmd[c] # Idle => stable[c] \subseteq With(cmd[c].url, source)
    /\ phase[c] = "scan" => stable[c] \subseteq scan[c]
    /\ phase[c] = "call" /\ Creating(c) => stable[c] = {}

\* The histories record what a running caller can have seen.
Recorded == \A c \in Caller :
    /\ cmd[c] # Idle /\ With(cmd[c].url, source) # {} => held[c]
    /\ phase[c] = "scan" /\ hits[c] # {} => held[c]
    /\ phase[c] = "scan" => \A i \in scan[c] :
           source[i] # Unborn /\ (source[i] = Gone => removed[c])

IInv == TypeOK /\ Asked /\ Unchecked /\ Recorded

-----------------------------------------------------------------------------

\* What a call of Webex may do to a data source.
LEMMA WebexMoves ==
    ASSUME TypeOK, NEW m \in Request, Webex(m)
    PROVE  /\ source' \in [Id -> Url \cup {Unborn, Gone}]
           /\ \A i \in Id : \/ source'[i] = source[i]
                            \/ source[i] = Unborn /\ source'[i] \in Url
                            \/ source[i] \in Url /\ source'[i] \in Url \cup {Gone}
BY UrlAssumption DEF TypeOK, Webex, Create, Update, Delete, Read, Live, Request

\* The first states.
LEMMA InitIInv == Init => IInv
BY BoundAssumption, IdleAssumption DEF Init, IInv, TypeOK, Asked, Unchecked,
   Recorded, Creating, Running, Request

\* A call of Webex and its witnesses keep the invariant for every caller that
\* is not the one whose call it is, and for that one once it has ended.
LEMMA CallKeeps ==
    ASSUME IInv, NEW c \in Caller, phase[c] = "call", Webex(cmd[c]), Witness,
           NEW p \in Outcome, To(c, p), faults' \in 0 .. MaxFaults,
           UNCHANGED <<cmd, scan, hits>>
    PROVE  IInv'
<1> USE UrlAssumption, IdleAssumption
<1>1. cmd[c] \in Request
    BY DEF IInv, TypeOK, Asked
<1>2. /\ source' \in [Id -> Url \cup {Unborn, Gone}]
      /\ \A i \in Id : \/ source'[i] = source[i]
                       \/ source[i] = Unborn /\ source'[i] \in Url
                       \/ source[i] \in Url /\ source'[i] \in Url \cup {Gone}
    BY <1>1, WebexMoves DEF IInv
<1>3. /\ phase' \in [Caller -> {"idle", "list", "scan", "call"} \cup Outcome]
      /\ \A d \in Caller : phase'[d] = IF d = c THEN p ELSE phase[d]
    BY DEF To, IInv, TypeOK
<1>4. TypeOK'
    <2>1. held' \in [Caller -> BOOLEAN] /\ removed' \in [Caller -> BOOLEAN]
        BY DEF Witness, IInv, TypeOK
    <2>2. stable' \in [Caller -> SUBSET Id]
        BY DEF Witness, IInv, TypeOK
    <2>3. QED
        BY <1>2, <1>3, <2>1, <2>2 DEF IInv, TypeOK
<1>5. Asked'
    BY <1>3 DEF IInv, Asked, Creating, Outcome
<1>6. Unchecked'
    <2>1. \A d \in Caller : /\ stable'[d] \subseteq stable[d]
                            /\ cmd[d] # Idle => stable'[d] \subseteq With(cmd[d].url, source')
        BY DEF Witness, IInv, TypeOK
    <2>2. QED
        BY <1>3, <2>1 DEF IInv, Unchecked, Creating, Outcome
<1>7. Recorded'
    <2> SUFFICES ASSUME NEW d \in Caller, cmd[d] # Idle
                 PROVE  /\ With(cmd[d].url, source') # {} => held'[d]
                        /\ phase'[d] = "scan" /\ hits[d] # {} => held'[d]
                        /\ phase'[d] = "scan" => \A i \in scan[d] :
                              source'[i] # Unborn /\ (source'[i] = Gone => removed'[d])
        BY <1>5, <1>4 DEF Recorded, Asked
    <2>1. phase'[d] = "scan" => phase[d] = "scan"
        BY <1>3 DEF Outcome
    <2>2. (held[d] => held'[d]) /\ (removed[d] => removed'[d])
          /\ (With(cmd[d].url, source') # {} => held'[d])
        BY <2>1 DEF Witness, IInv, TypeOK
    <2>3. ASSUME NEW i \in scan[d], phase[d] = "scan"
          PROVE  source'[i] # Unborn /\ (source'[i] = Gone => removed'[d])
        <3>1. i \in Id /\ source[i] # Unborn /\ (source[i] = Gone => removed[d])
            BY <2>3 DEF IInv, TypeOK, Recorded
        <3>2. source[i] \in Url /\ source'[i] = Gone => removed'[d]
            BY <3>1 DEF Witness, Live
        <3>3. QED
            BY <1>2, <2>2, <3>1, <3>2
    <2>4. QED
        BY <2>1, <2>2, <2>3 DEF IInv, Recorded
<1>8. QED
    BY <1>4, <1>5, <1>6, <1>7 DEF IInv

\* A step that ends a caller and changes nothing else keeps the invariant.
LEMMA EndKeeps ==
    ASSUME IInv, NEW c \in Caller, Running(c), NEW p \in Outcome, To(c, p),
           faults' \in 0 .. MaxFaults,
           UNCHANGED <<source, cmd, scan, hits, historyVars>>
    PROVE  IInv'
<1>1. /\ phase' \in [Caller -> {"idle", "list", "scan", "call"} \cup Outcome]
      /\ \A d \in Caller : phase'[d] = IF d = c THEN p ELSE phase[d]
    BY DEF To, IInv, TypeOK
<1>2. TypeOK'
    BY <1>1 DEF IInv, TypeOK, historyVars
<1>3. Asked'
    BY <1>1 DEF IInv, Asked, Creating, Running, Outcome
<1>4. Unchecked'
    BY <1>1 DEF IInv, Unchecked, Creating, Outcome, historyVars
<1>5. Recorded'
    BY <1>1 DEF IInv, Recorded, Running, Outcome, historyVars
<1>6. QED
    BY <1>2, <1>3, <1>4, <1>5 DEF IInv

\* Every step keeps the invariant.
LEMMA IInvKept == IInv /\ [Next]_vars => IInv'
<1> SUFFICES ASSUME IInv, [Next]_vars PROVE IInv'
    OBVIOUS
<1> USE UrlAssumption, IdleAssumption, BoundAssumption
<1>1. ASSUME NEW c \in Caller, NEW m \in Requests, Start(c, m) PROVE IInv'
    <2>1. m \in Request /\ m # Idle
        BY RequestAssumption
    <2>2. /\ phase[c] = "idle" /\ cmd[c] = Idle
          /\ \A d \in Caller : d # c =>
                 cmd'[d] = cmd[d] /\ phase'[d] = phase[d] /\ held'[d] = held[d]
                 /\ removed'[d] = removed[d]
          /\ cmd'[c] = m /\ phase'[c] = (IF m.op = "create" THEN "list" ELSE "call")
          /\ held'[c] = (With(m.url, source) # {})
          /\ UNCHANGED <<source, scan, hits, faults, stable>>
        BY <1>1 DEF Start, To, IInv, TypeOK, Asked
    <2>3. TypeOK'
        <3>1. cmd' \in [Caller -> Request \cup {Idle}]
            BY <1>1, <2>1 DEF Start, IInv, TypeOK
        <3>2. phase' \in [Caller -> {"idle", "list", "scan", "call"} \cup Outcome]
            BY <1>1 DEF Start, To, IInv, TypeOK
        <3>3. held' \in [Caller -> BOOLEAN] /\ removed' \in [Caller -> BOOLEAN]
            BY <1>1 DEF Start, IInv, TypeOK
        <3>4. /\ source' \in [Id -> Url \cup {Unborn, Gone}]
              /\ scan' \in [Caller -> SUBSET Id] /\ hits' \in [Caller -> SUBSET Id]
              /\ faults' \in 0 .. MaxFaults /\ stable' \in [Caller -> SUBSET Id]
            BY <2>2 DEF IInv, TypeOK
        <3>5. QED
            BY <3>1, <3>2, <3>3, <3>4 DEF TypeOK
    <2>4. Asked'
        BY <2>1, <2>2 DEF IInv, Asked, Creating
    <2>5. Unchecked'
        BY <2>1, <2>2 DEF IInv, Unchecked, Creating
    <2>6. Recorded'
        BY <2>1, <2>2 DEF IInv, Recorded, Running
    <2>7. QED
        BY <2>3, <2>4, <2>5, <2>6 DEF IInv
<1>2. ASSUME NEW c \in Caller, List(c) PROVE IInv'
    <2>0. PICK seen \in SUBSET Live(source) :
              LET own == seen \cap With(cmd[c].url, source) IN
              /\ scan' = [scan EXCEPT ![c] = seen]
              /\ \E shown \in SUBSET own : hits' = [hits EXCEPT ![c] = shown]
              /\ stable' = [stable EXCEPT ![c] = own]
              /\ To(c, IF seen = {} THEN "call" ELSE "scan")
        BY <1>2 DEF List
    <2>1. /\ phase[c] = "list" /\ Creating(c) /\ cmd[c] \in Request
          /\ \A d \in Caller : d # c =>
                 scan'[d] = scan[d] /\ phase'[d] = phase[d] /\ hits'[d] = hits[d]
                 /\ stable'[d] = stable[d]
          /\ scan'[c] = seen /\ stable'[c] = seen \cap With(cmd[c].url, source)
          /\ phase'[c] = (IF seen = {} THEN "call" ELSE "scan")
          /\ hits'[c] \subseteq With(cmd[c].url, source)
          /\ UNCHANGED <<source, cmd, faults, held, removed>>
        BY <1>2, <2>0 DEF List, To, IInv, TypeOK, Asked, Creating
    <2>3. TypeOK'
        <3>1. /\ scan' \in [Caller -> SUBSET Id] /\ hits' \in [Caller -> SUBSET Id]
              /\ stable' \in [Caller -> SUBSET Id]
            BY <2>0 DEF IInv, TypeOK, Live, With
        <3>2. phase' \in [Caller -> {"idle", "list", "scan", "call"} \cup Outcome]
            BY <2>0 DEF To, IInv, TypeOK
        <3>3. QED
            BY <2>1, <3>1, <3>2 DEF IInv, TypeOK
    <2>4. Asked'
        BY <2>1 DEF IInv, Asked, Creating
    <2>5. Unchecked'
        BY <2>1 DEF IInv, Unchecked, Creating
    <2>6. Recorded'
        <3>1. Running(c) /\ (With(cmd[c].url, source) # {} => held[c])
            BY <2>1 DEF IInv, Recorded, Running
        <3>2. \A i \in scan'[c] : source[i] # Unborn /\ source[i] # Gone
            BY <2>1 DEF Live
        <3>3. QED
            BY <2>1, <3>1, <3>2 DEF IInv, Recorded, Running
    <2>7. QED
        BY <2>3, <2>4, <2>5, <2>6 DEF IInv
<1>3. ASSUME NEW c \in Caller, Look(c) PROVE IInv'
    <2>1. PICK i \in scan[c] :
              /\ phase[c] = "scan" /\ source[i] # cmd[c].url
              /\ scan' = [scan EXCEPT ![c] = @ \ {i}]
              /\ To(c, IF scan[c] = {i} THEN "call" ELSE "scan")
              /\ UNCHANGED <<source, cmd, hits, faults, historyVars>>
        BY <1>3 DEF Look
    <2>2. /\ \A d \in Caller : d # c => scan'[d] = scan[d] /\ phase'[d] = phase[d]
          /\ scan'[c] = scan[c] \ {i}
          /\ phase'[c] = (IF scan[c] = {i} THEN "call" ELSE "scan")
          /\ UNCHANGED <<source, cmd, hits, faults, held, removed, stable>>
        BY <2>1 DEF To, IInv, TypeOK, historyVars
    <2>3. TypeOK'
        <3>1. scan' \in [Caller -> SUBSET Id]
            BY <2>1 DEF IInv, TypeOK
        <3>2. phase' \in [Caller -> {"idle", "list", "scan", "call"} \cup Outcome]
            BY <2>1 DEF To, IInv, TypeOK
        <3>3. QED
            BY <2>2, <3>1, <3>2 DEF IInv, TypeOK
    <2>4. Asked'
        BY <2>1, <2>2 DEF IInv, Asked, Creating
    <2>5. i \notin stable[c] /\ stable[c] \subseteq scan[c]
        BY <2>1 DEF IInv, Asked, Creating, Unchecked, With
    <2>6. Unchecked'
        BY <2>2, <2>5 DEF IInv, Unchecked, Creating
    <2>7. Recorded'
        BY <2>1, <2>2 DEF IInv, Recorded, Running
    <2>8. QED
        BY <2>3, <2>4, <2>6, <2>7 DEF IInv
<1>4. ASSUME NEW c \in Caller,
             Refuse(c) \/ ItemGone(c) \/ Missing(c) \/ Fail(c)
      PROVE  IInv'
    <2>1. PICK p \in Outcome : To(c, p)
        BY <1>4 DEF Refuse, ItemGone, Missing, Fail, Fault, Outcome
    <2>2. Running(c) /\ faults' \in 0 .. MaxFaults
          /\ UNCHANGED <<source, cmd, scan, hits, historyVars>>
        BY <1>4 DEF Refuse, ItemGone, Missing, Fail, Fault, Running, IInv, TypeOK
    <2>3. QED
        BY <2>1, <2>2, EndKeeps
<1>5. ASSUME NEW c \in Caller, Call(c) \/ AnswerLost(c) PROVE IInv'
    <2>1. PICK p \in Outcome : To(c, p)
        BY <1>5 DEF Call, AnswerLost, Fault, Outcome
    <2>2. /\ phase[c] = "call" /\ Webex(cmd[c]) /\ Witness
          /\ UNCHANGED <<cmd, scan, hits>> /\ faults' \in 0 .. MaxFaults
        BY <1>5 DEF Call, AnswerLost, Fault, IInv, TypeOK
    <2>3. QED
        BY <2>1, <2>2, CallKeeps
<1>6. CASE UNCHANGED vars
    BY <1>6 DEF vars, IInv, TypeOK, Asked, Unchecked, Recorded, Creating, Running
<1>7. QED
    BY <1>1, <1>2, <1>3, <1>4, <1>5, <1>6 DEF Next, Step

\* The invariant holds throughout.
LEMMA Invariance == Spec => []IInv
BY InitIInv, IInvKept, PTL DEF Spec

-----------------------------------------------------------------------------

\* Callers, data sources and histories are what they should be.
THEOREM Typing == Spec => []TypeOK
<1>1. IInv => TypeOK
    BY DEF IInv
<1>2. QED
    BY Invariance, <1>1, PTL

\* No create is sent past a data source that kept its URL since a list that told
\* its id or its URL (an item that shows neither is passed over, service.py:30).
THEOREM ChecksAll == Spec => []NoBlindDuplicate
<1>1. IInv => NoBlindDuplicate
    BY DEF IInv, Asked, Unchecked, Creating, NoBlindDuplicate
<1>2. QED
    BY Invariance, <1>1, PTL

\* Each step is, from outside, one of the registry's steps or none.
LEMMA StepsImplement == IInv /\ [Next]_vars => [Registry!Next]_Registry!vars
<1> SUFFICES ASSUME IInv, [Next]_vars PROVE [Registry!Next]_Registry!vars
    OBVIOUS
<1> USE UrlAssumption, IdleAssumption
<1> DEFINE out == [c \in Caller |-> Public(phase[c])]
<1>1. ASSUME NEW c \in Caller, NEW p, To(c, p)
      PROVE  [d \in Caller |-> Public(phase'[d])] = [out EXCEPT ![c] = Public(p)]
    BY <1>1 DEF To, IInv, TypeOK
<1>2. \A c \in Caller : out[c] = Public(phase[c])
    OBVIOUS
<1>3. ASSUME NEW c \in Caller, NEW m \in Requests, Start(c, m)
      PROVE  Registry!Begin(c, m)
    <2>1. m \in Request
        BY RequestAssumption
    <2>2. [d \in Caller |-> Public(phase'[d])] = [out EXCEPT ![c] = "running"]
        BY <1>1, <1>3 DEF Start, Public
    <2>3. phase[c] = "idle" /\ out[c] = "idle"
        BY <1>2, <1>3 DEF Start, Public
    <2>4. (With(m.url, source) # {}) = Registry!Registered(source, m.url)
        BY DEF With, Registry!Registered
    <2>5. QED
        BY <1>3, <2>2, <2>3, <2>4 DEF Start, Registry!Begin
<1>4. ASSUME NEW c \in Caller, List(c) \/ Look(c)
      PROVE  UNCHANGED Registry!vars
    <2>1. PICK p \in {"scan", "call"} : To(c, p)
        BY <1>4 DEF List, Look
    <2>2. Running(c) /\ UNCHANGED <<source, cmd, held, removed, faults>>
        BY <1>4 DEF List, Look, Running, historyVars
    <2>3. [d \in Caller |-> Public(phase'[d])] = out
        BY <2>1, <2>2 DEF To, IInv, TypeOK, Running, Public
    <2>4. QED
        BY <2>2, <2>3 DEF Registry!vars
<1>5. ASSUME NEW c \in Caller, NEW p \in Outcome, Running(c), To(c, p), UNCHANGED cmd
      PROVE  Registry!End(c, p)
    <2>1. [d \in Caller |-> Public(phase'[d])] = [out EXCEPT ![c] = p]
        BY <1>1, <1>5 DEF Public, Outcome
    <2>2. out[c] = "running"
        BY <1>2, <1>5 DEF Running, Public
    <2>3. QED
        BY <1>5, <2>1, <2>2 DEF Registry!End
<1>6. ASSUME NEW c \in Caller, Refuse(c) PROVE Registry!Refuse(c)
    <2>1. Registry!End(c, "duplicate")
        BY <1>5, <1>6 DEF Refuse, Running, Outcome
    <2>2. cmd[c].op = "create"
        BY <1>6 DEF Refuse, IInv, Asked, Creating
    <2>3. held[c]
        BY <1>6 DEF Refuse, IInv, Asked, Creating, TypeOK, Recorded, With
    <2>4. QED
        BY <1>6, <2>1, <2>2, <2>3 DEF Refuse, Registry!Refuse, historyVars
<1>7. ASSUME NEW c \in Caller, ItemGone(c) \/ Missing(c) PROVE Registry!Miss(c)
    <2>1. Registry!End(c, "error")
        BY <1>5, <1>7 DEF ItemGone, Missing, Running, Outcome
    <2>2. CASE ItemGone(c)
        BY <2>1, <2>2 DEF ItemGone, IInv, Asked, Creating, Recorded,
           Registry!Miss, historyVars
    <2>3. CASE Missing(c)
        BY <2>1, <2>3 DEF Missing, Live, Registry!Miss, Registry!Live, historyVars
    <2>4. QED
        BY <1>7, <2>2, <2>3
<1>8. ASSUME NEW m \in Request, Webex(m)
      PROVE  Registry!Done(m, source, source')
    BY <1>8 DEF Webex, Create, Update, Delete, Read, Live, Registry!Done,
       Registry!Creates, Registry!Changes, Registry!Reads, Registry!Live
<1>9. Witness => Registry!Seen
    BY DEF Witness, With, Live, Registry!Seen, Registry!Registered, Registry!Live
<1>10. ASSUME NEW c \in Caller, Call(c) PROVE Registry!Succeed(c)
    <2>1. Registry!End(c, "ok")
        BY <1>5, <1>10 DEF Call, Running, Outcome
    <2>2. cmd[c] \in Request
        BY <1>10 DEF Call, IInv, Asked, TypeOK
    <2>3. QED
        BY <1>8, <1>9, <1>10, <2>1, <2>2 DEF Call, Registry!Succeed
<1>11. ASSUME NEW c \in Caller, Fail(c) PROVE Registry!Fail(c)
    <2>1. Registry!End(c, "error")
        BY <1>5, <1>11 DEF Fail, Fault, Running, Outcome
    <2>2. Registry!Seen
        <3>1. UNCHANGED <<source, cmd, held, removed>>
            BY <1>11 DEF Fail, historyVars
        <3>2. \A d \in Caller : cmd[d] # Idle /\ Registry!Registered(source, cmd[d].url) => held[d]
            BY DEF IInv, Recorded, With, Registry!Registered
        <3>3. held \in [Caller -> BOOLEAN] /\ removed \in [Caller -> BOOLEAN]
            BY DEF IInv, TypeOK
        <3>4. held' = [d \in Caller |-> held[d]
                          \/ (cmd[d] # Idle /\ Registry!Registered(source', cmd[d].url))]
            BY <3>1, <3>2, <3>3
        <3>5. Registry!Live(source) \ Registry!Live(source') = {}
            BY <3>1
        <3>6. removed' = [d \in Caller |-> removed[d]
                             \/ Registry!Live(source) \ Registry!Live(source') # {}]
            BY <3>1, <3>3, <3>5
        <3>7. QED
            BY <3>4, <3>6 DEF Registry!Seen
    <2>3. QED
        BY <1>11, <2>1, <2>2 DEF Fail, Fault, Registry!Fail
<1>12. ASSUME NEW c \in Caller, AnswerLost(c) PROVE Registry!Fail(c)
    <2>1. Registry!End(c, "error")
        BY <1>5, <1>12 DEF AnswerLost, Fault, Running, Outcome
    <2>2. cmd[c] \in Request
        BY <1>12 DEF AnswerLost, IInv, Asked, TypeOK
    <2>3. QED
        BY <1>8, <1>9, <1>12, <2>1, <2>2 DEF AnswerLost, Fault, Registry!Fail
<1>13. CASE UNCHANGED vars
    BY <1>13 DEF vars, Registry!vars
<1>14. QED
    BY <1>3, <1>4, <1>6, <1>7, <1>10, <1>11, <1>12, <1>13, RequestAssumption
       DEF Next, Step, Registry!Next, Request

\* The commands implement the registry: every exit code tells the truth.
THEOREM Refinement == Spec => ImplementsRegistry
<1>1. Init => Registry!Init
    BY DEF Init, Registry!Init, Public
<1>2. QED
    BY <1>1, Invariance, StepsImplement, PTL DEF Spec, ImplementsRegistry, Registry!Spec
=============================================================================
