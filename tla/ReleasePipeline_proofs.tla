----------------------- MODULE ReleasePipeline_proofs -----------------------
(* Proofs about the release pipeline, for any number of runs and failures.   *)
EXTENDS ReleasePipeline, TLAPS

\* How far a place is along the pipeline; 0 for a run that takes no part.
Rank(p) == CASE p = "toInfra" -> 1 [] p = "Infra" -> 2
             [] p = "toBuild" -> 3 [] p = "Build" -> 4
             [] p = "toDeploy" -> 5 [] p \in {"Deploy", "Update", "Rollout"} -> 6
             [] p = "toVerify" -> 7 [] p \in {"Verify", "Rollback"} -> 8
             [] p \in {"succeeded", "rolledback"} -> 9
             [] OTHER -> 0

\* A run stays ahead of the later ones as long as it goes on.
Order == \A q, r \in Run :
    q < r /\ Rank(at[q]) \in 1 .. 8 => Rank(at[r]) < Rank(at[q])
Born == \A q, r \in Run : q < r /\ at[r] # "unborn" => at[q] # "unborn"

\* latest is the image of a run that came furthest: no older than the runs that
\* have built theirs, older than those that have not.
LatestCovers == \A r \in Run : Rank(at[r]) >= 5 => latest >= r
LatestBefore == \A r \in Run :
    at[r] = "unborn" \/ Rank(at[r]) \in 1 .. 4 => latest < r

\* The template in force covers the runs that are through Infra.
TemplateCovers == Clean =>
    /\ td = stack.td
    /\ \A r \in Run : Rank(at[r]) >= 3 => td >= Template[r]

Flow == Order /\ Born /\ LatestCovers /\ LatestBefore /\ TemplateCovers

\* Task x is good enough for the verification of run r.
Fits(x, r) == x # NoTask => x.img >= r /\ (Clean => x.td >= Template[r])

StartedFits == \A r \in Run :
    at[r] \in {"Rollout", "toVerify", "Verify"} => Fits(next, r)
RolledOutFits == \A r \in Run :
    at[r] = "Rollout" /\ ~rollout /\ next = NoTask => Fits(task, r)
DeployedFits == \A r \in Run : at[r] \in {"toVerify", "Verify"} => Fits(task, r)
SucceededFits == \A r \in Run :
    at[r] = "succeeded" => verified[r] # NoTask /\ Fits(verified[r], r)

\* Nothing started is older than what has served, nor newer than latest.
Newer == top <= latest
         /\ (next # NoTask => next.img >= top /\ next.img <= latest)

\* A service of no tasks has none, and its run is on the way to its rollout.
Down == desired = 0 =>
    /\ task = NoTask /\ next = NoTask
    /\ scaler \in Run
    /\ at[scaler] \in {"toBuild", "Build", "toDeploy", "Deploy", "Update",
                       "failed", "superseded"}

Service == StartedFits /\ RolledOutFits /\ DeployedFits /\ SucceededFits
           /\ Newer /\ Down

IInv == TypeOK /\ Flow /\ Service

-----------------------------------------------------------------------------

\* Places are what they are called: a run that arrives or enters is typed.
LEMMA PlacesTyped ==
    ASSUME TypeOK, NEW r \in Run, NEW p \in Place, Goto(r, p) \/ Arrive(r, p)
    PROVE  at' \in [Run -> Place] /\ at'[r] = p
BY DEF TypeOK, Goto, Arrive, Place, Gates, Ended

\* The variables keep their types.
LEMMA TypeKept == TypeOK /\ [Next]_vars => TypeOK'
<1> SUFFICES ASSUME TypeOK, [Next]_vars PROVE TypeOK'
    OBVIOUS
<1> USE BoundAssumption, CommitAssumption
<1>1. CASE \E r \in Run : Push(r)
    <2>1. PICK r \in Run : Push(r)  BY <1>1
    <2>2. at' \in [Run -> Place]
        BY <2>1, PlacesTyped DEF Push, Place, Gates
    <2>3. QED  BY <2>1, <2>2 DEF Push, TypeOK, serviceVars, historyVars
<1>2. CASE \E r \in Run : Enter(r)
    <2>1. PICK r \in Run : Enter(r)  BY <1>2
    <2>2. at' \in [Run -> Place]
        BY <2>1, PlacesTyped DEF Enter, FirstOf, Place, Gates
    <2>3. QED  BY <2>1, <2>2 DEF Enter, TypeOK, serviceVars, historyVars
<1>3. CASE \E r \in Run : InfraUnchanged(r)
    <2>1. PICK r \in Run : InfraUnchanged(r)  BY <1>3
    <2>2. at' \in [Run -> Place]
        BY <2>1, PlacesTyped DEF InfraUnchanged, Place, Gates
    <2>3. QED  BY <2>1, <2>2 DEF InfraUnchanged, TypeOK, serviceVars, historyVars
<1>4. CASE \E r \in Run : InfraDeploy(r)
    <2>1. PICK r \in Run : InfraDeploy(r)  BY <1>4
    <2>2. at' \in [Run -> Place]
        BY <2>1, PlacesTyped DEF InfraDeploy, Place, Gates
    <2>3. r \in Commit /\ Template[r] \in Nat  BY DEF Run, Commit
    <2>4. QED  BY <2>1, <2>2, <2>3 DEF InfraDeploy, TypeOK, Wanted
<1>5. CASE \E r \in Run : StageFails(r)
    <2>1. PICK r \in Run : StageFails(r)  BY <1>5
    <2>2. at' \in [Run -> Place]
        BY <2>1, PlacesTyped DEF StageFails, Place, Ended
    <2>3. QED
        BY <2>1, <2>2 DEF StageFails, TypeOK, Fault, serviceVars, historyVars
<1>6. CASE \E r \in Run : BuildImage(r)
    <2>1. PICK r \in Run : BuildImage(r)  BY <1>6
    <2>2. at' \in [Run -> Place]
        BY <2>1, PlacesTyped DEF BuildImage, Place, Gates
    <2>3. r \in Commit  BY DEF Run, Commit
    <2>4. QED
        BY <2>1, <2>2, <2>3 DEF BuildImage, TypeOK, serviceVars, historyVars
<1>7. CASE \E r \in Run : UpdateService(r)
    <2>1. PICK r \in Run : UpdateService(r)  BY <1>7
    <2>2. at' \in [Run -> Place]
        BY <2>1, PlacesTyped DEF UpdateService, Place
    <2>3. QED  BY <2>1, <2>2 DEF UpdateService, TypeOK, historyVars
<1>8. CASE \E r \in Run : Deployed(r)
    <2>1. PICK r \in Run : Deployed(r)  BY <1>8
    <2>2. at' \in [Run -> Place]
        BY <2>1, PlacesTyped DEF Deployed, Place, Gates
    <2>3. QED  BY <2>1, <2>2 DEF Deployed, TypeOK, serviceVars, historyVars
<1>9. CASE \E r \in Run : DeployTimesOut(r)
    <2>1. PICK r \in Run : DeployTimesOut(r)  BY <1>9
    <2>2. at' \in [Run -> Place]
        BY <2>1, PlacesTyped DEF DeployTimesOut, Place, Ended
    <2>3. QED  BY <2>1, <2>2 DEF DeployTimesOut, TypeOK, serviceVars, historyVars
<1>10. CASE \E r \in Run : VerifyPasses(r)
    <2>1. PICK r \in Run : VerifyPasses(r)  BY <1>10
    <2>2. at' \in [Run -> Place]
        BY <2>1, PlacesTyped DEF VerifyPasses, Place, Ended
    <2>3. QED  BY <2>1, <2>2 DEF VerifyPasses, TypeOK, serviceVars
<1>11. CASE \E r \in Run : VerifyFails(r)
    <2>1. PICK r \in Run : VerifyFails(r)  BY <1>11
    <2>2. at' \in [Run -> Place]
        BY <2>1, PlacesTyped DEF VerifyFails, Place
    <2>3. faults' \in 0 .. MaxFaults  BY <2>1 DEF VerifyFails, Fault, TypeOK
    <2>4. QED  BY <2>1, <2>2, <2>3 DEF VerifyFails, TypeOK, historyVars
<1>12. CASE \E r \in Run : RolledBack(r)
    <2>1. PICK r \in Run : RolledBack(r)  BY <1>12
    <2>2. at' \in [Run -> Place]
        BY <2>1, PlacesTyped DEF RolledBack, Place, Ended
    <2>3. QED  BY <2>1, <2>2 DEF RolledBack, TypeOK, serviceVars, historyVars
<1>13. CASE StartTask
    BY <1>13 DEF StartTask, TypeOK, historyVars, Task
<1>14. CASE TakeOver
    BY <1>14 DEF TakeOver, TypeOK, historyVars, Task
<1>15. CASE Replace
    BY <1>15 DEF Replace, TypeOK, historyVars
<1>16. CASE TaskDies
    BY <1>16 DEF TaskDies, TypeOK, historyVars, Fault
<1>17. CASE UNCHANGED vars
    BY <1>17 DEF vars, TypeOK
<1>18. CASE \E r \in Run : Capture(r)
    <2>1. PICK r \in Run : Capture(r)  BY <1>18
    <2>2. at' \in [Run -> Place]
        BY <2>1, PlacesTyped DEF Capture, Place
    <2>3. QED  BY <2>1, <2>2 DEF Capture, TypeOK, serviceVars, historyVars
<1>19. CASE \E r \in Run : InfraGoesBack(r)
    <2>1. PICK r \in Run : InfraGoesBack(r)  BY <1>19
    <2>2. at' \in [Run -> Place]
        BY <2>1, PlacesTyped DEF InfraGoesBack, Place, Ended
    <2>3. r \in Commit  BY DEF Run, Commit
    <2>4. QED  BY <2>1, <2>2, <2>3 DEF InfraGoesBack, TypeOK, Fault
<1>20. QED
    BY <1>1, <1>2, <1>3, <1>4, <1>5, <1>6, <1>7, <1>8, <1>9, <1>10, <1>11,
       <1>12, <1>13, <1>14, <1>15, <1>16, <1>17, <1>18, <1>19 DEF Next, Step, Ecs

-----------------------------------------------------------------------------

\* A rank is a small number.
LEMMA RankType == \A p : Rank(p) \in 0 .. 9
BY DEF Rank

\* A run that moves within its stage, ends, or is through keeps the order.
LEMMA GotoOrdered ==
    ASSUME TypeOK, Order, Born, NEW r \in Run, NEW p \in Place, Goto(r, p),
           at[r] # "unborn", p # "unborn",
           Rank(p) \in {Rank(at[r]), 0} \/ (Rank(p) = 9 /\ Rank(at[r]) = 8)
    PROVE  Order' /\ Born'
<1>1. \A q \in Run : at'[q] = IF q = r THEN p ELSE at[q]
    BY DEF Goto, TypeOK
<1>2. ASSUME NEW q \in Run, NEW s \in Run, q < s, Rank(at'[q]) \in 1 .. 8
      PROVE  Rank(at'[s]) < Rank(at'[q])
    <2>1. q # s /\ (at'[q] = at[q] \/ (q = r /\ at'[q] = p))
        BY <1>1, <1>2 DEF Run
    <2>2. Rank(at'[q]) = Rank(at[q])
        BY <2>1, <1>2
    <2>3. Rank(at[s]) < Rank(at[q])
        BY <2>2, <1>2 DEF Order
    <2>4. Rank(at'[s]) \in {Rank(at[s]), 0} \/ Rank(at[s]) = 8
        BY <1>1
    <2>5. Rank(at[s]) \in 0 .. 9 /\ Rank(at[q]) \in 1 .. 8
        BY <1>2, <2>2, RankType
    <2>6. Rank(at[s]) # 8
        BY <2>3, <2>5
    <2>7. QED
        BY <2>2, <2>3, <2>4, <2>5, <2>6
<1>3. Born'
    BY <1>1 DEF Born
<1>4. QED
    BY <1>2, <1>3 DEF Order

\* A run that comes to the next gate passes no one: it replaces who is there.
LEMMA ArriveOrdered ==
    ASSUME TypeOK, Order, Born, NEW r \in Run, NEW gate \in Gates,
           Arrive(r, gate), at[r] # "unborn",
           Rank(at[r]) \in 1 .. 8, Rank(gate) = Rank(at[r]) + 1
    PROVE  Order' /\ Born'
<1>1. \A q \in Run : at'[q] = IF q = r THEN gate
                              ELSE IF at[q] = gate THEN "superseded" ELSE at[q]
    BY DEF Arrive
<1>2. \A p \in Place : Rank(p) = Rank(gate) => p = gate
    BY DEF Rank, Gates, Place, Ended
<1>3. ASSUME NEW q \in Run, NEW s \in Run, q < s, Rank(at'[q]) \in 1 .. 8
      PROVE  Rank(at'[s]) < Rank(at'[q])
    <2>1. Rank("superseded") = 0
        BY DEF Rank
    <2>2. CASE q = r
        <3>1. s # r /\ (Rank(at'[s]) = Rank(at[s]) \/ Rank(at'[s]) = 0)
            BY <1>1, <1>3, <2>1, <2>2 DEF Run
        <3>2. Rank(at[s]) < Rank(at[r])
            BY <1>3, <2>2 DEF Order
        <3>3. Rank(at'[q]) = Rank(at[r]) + 1
            BY <1>1, <2>2
        <3>4. Rank(at[s]) \in 0 .. 9 /\ Rank(at[r]) \in 1 .. 8
            BY RankType
        <3>5. QED
            BY <3>1, <3>2, <3>3, <3>4
    <2>3. CASE q # r
        <3>1. at'[q] = at[q] /\ at[q] # gate
            BY <1>1, <1>3, <2>1, <2>3
        <3>2. Rank(at[s]) < Rank(at[q])
            BY <3>1, <1>3 DEF Order
        <3>3. Rank(at[q]) # Rank(gate)
            BY <3>1, <1>2 DEF TypeOK
        <3>4. CASE s = r
            <4>1. at'[s] = gate /\ Rank(at[q]) \in 1 .. 8
                BY <1>1, <1>3, <3>1, <3>4
            <4>2. Rank(gate) \in 2 .. 9 /\ Rank(at[s]) = Rank(gate) - 1
                BY <3>4
            <4>3. QED
                BY <3>1, <3>2, <3>3, <4>1, <4>2
        <3>5. CASE s # r
            BY <1>1, <2>1, <3>1, <3>2, <3>5, <1>3
        <3>6. QED
            BY <3>4, <3>5
    <2>4. QED
        BY <2>2, <2>3
<1>4. Born'
    BY <1>1 DEF Born, Gates
<1>5. QED
    BY <1>3, <1>4 DEF Order

\* A run enters the stage behind its gate when no one is in it.
LEMMA EnterOrdered ==
    ASSUME TypeOK, Order, Born, NEW r \in Run, NEW gate \in Gates,
           at[r] = gate, \A q \in Run : at[q] \notin StageOf(gate),
           Goto(r, FirstOf(gate))
    PROVE  Order' /\ Born'
<1> DEFINE p == FirstOf(gate)
<1>1. \A q \in Run : at'[q] = IF q = r THEN p ELSE at[q]
    BY DEF Goto, TypeOK
<1>2. Rank(p) = Rank(gate) + 1 /\ Rank(gate) \in 1 .. 7 /\ p # "unborn"
    BY DEF Rank, FirstOf, Gates
<1>3. \A x \in Place : Rank(x) = Rank(p) => x \in StageOf(gate)
    BY DEF Rank, FirstOf, StageOf, Gates, Place, Ended
<1>4. \A q \in Run : Rank(at[q]) # Rank(p)
    BY <1>3 DEF TypeOK
<1>5. ASSUME NEW q \in Run, NEW s \in Run, q < s, Rank(at'[q]) \in 1 .. 8
      PROVE  Rank(at'[s]) < Rank(at'[q])
    <2> HIDE DEF p
    <2>1. q # s
        BY <1>5 DEF Run
    <2>2. CASE q = r
        <3>1. Rank(at[s]) < Rank(at[r])
            BY <1>2, <1>5, <2>2 DEF Order
        <3>2. at'[s] = at[s] /\ Rank(at'[q]) = Rank(at[r]) + 1
            BY <1>1, <1>2, <2>1, <2>2
        <3>3. Rank(at[s]) \in 0 .. 9 /\ Rank(at[r]) \in 1 .. 7
            BY <1>2, RankType
        <3>4. QED
            BY <3>1, <3>2, <3>3
    <2>3. CASE q # r
        <3>1. at'[q] = at[q] /\ Rank(at[s]) < Rank(at[q])
            BY <1>1, <1>5, <2>3 DEF Order
        <3>2. Rank(at[q]) # Rank(p)
            BY <1>4
        <3>3. QED
            BY <1>1, <1>2, <1>5, <2>1, <2>3, <3>1, <3>2, RankType
    <2>4. QED
        BY <2>2, <2>3
<1>6. Born'
    BY <1>1, <1>2 DEF Born, Gates
<1>7. QED
    BY <1>5, <1>6 DEF Order

\* A new run is behind all the others.
LEMMA PushOrdered ==
    ASSUME TypeOK, Order, Born, NEW r \in Run, Push(r)
    PROVE  Order' /\ Born'
<1>1. /\ at[r] = "unborn"
      /\ \A q \in Run : q < r => at[q] # "unborn"
      /\ \A q \in Run : at'[q] = IF q = r THEN "toInfra"
                          ELSE IF at[q] = "toInfra" THEN "superseded" ELSE at[q]
    BY DEF Push, Arrive
<1>2. /\ Rank("unborn") = 0 /\ Rank("toInfra") = 1 /\ Rank("superseded") = 0
      /\ \A p \in Place : Rank(p) = 1 => p = "toInfra"
    BY DEF Rank, Place, Gates, Ended
<1>3. \A s \in Run : r < s => at[s] = "unborn"
    BY <1>1 DEF Born
<1>4. ASSUME NEW q \in Run, NEW s \in Run, q < s, Rank(at'[q]) \in 1 .. 8
      PROVE  Rank(at'[s]) < Rank(at'[q])
    <2>1. q # s
        BY <1>4 DEF Run
    <2>2. CASE q = r
        BY <1>1, <1>2, <1>3, <1>4, <2>1, <2>2
    <2>3. CASE q # r
        <3>1. at'[q] = at[q] /\ at[q] # "toInfra" /\ Rank(at[s]) < Rank(at[q])
            BY <1>1, <1>2, <1>4, <2>3 DEF Order
        <3>2. Rank(at[q]) # 1
            BY <3>1, <1>2 DEF TypeOK
        <3>3. CASE s = r
            <4>1. Rank(at'[s]) = 1 /\ Rank(at[q]) \in 1 .. 8
                BY <1>1, <1>2, <1>4, <3>1, <3>3
            <4>2. QED
                BY <3>1, <3>2, <4>1
        <3>4. CASE s # r
            BY <1>1, <1>2, <3>1, <1>4, <3>4
        <3>5. QED
            BY <3>3, <3>4
    <2>4. QED
        BY <2>2, <2>3
<1>5. Born'
    <2> SUFFICES ASSUME NEW q \in Run, NEW s \in Run, q < s, at'[s] # "unborn"
                 PROVE  at'[q] # "unborn"
        BY DEF Born
    <2>1. at[s] # "unborn" \/ s = r
        BY <1>1
    <2>2. at[q] # "unborn"
        BY <2>1, <1>1 DEF Born
    <2>3. QED
        BY <2>2, <1>1
<1>6. QED
    BY <1>4, <1>5 DEF Order

\* The moves that leave what latest covers: ending, coming in, staying on the
\* same side of Build.
Keeps(q) == \/ at'[q] = at[q]
            \/ Rank(at'[q]) = 0 /\ at'[q] # "unborn"
            \/ at[q] = "unborn" /\ Rank(at'[q]) \in 1 .. 4
            \/ Rank(at[q]) \in 1 .. 4 /\ Rank(at'[q]) \in 1 .. 4
            \/ Rank(at[q]) \in 5 .. 9 /\ Rank(at'[q]) \in 5 .. 9

\* A step of such moves that pushes no image keeps what latest covers.
LEMMA LatestKept ==
    ASSUME TypeOK, LatestCovers, LatestBefore, latest' = latest,
           \A q \in Run : Keeps(q)
    PROVE  LatestCovers' /\ LatestBefore'
<1>1. ASSUME NEW q \in Run, Rank(at'[q]) >= 5 PROVE latest >= q
    <2>1. Rank(at[q]) >= 5
        BY <1>1, RankType DEF Keeps
    <2>2. QED
        BY <2>1 DEF LatestCovers
<1>2. ASSUME NEW q \in Run, at'[q] = "unborn" \/ Rank(at'[q]) \in 1 .. 4
      PROVE  latest < q
    <2>1. Rank("unborn") = 0
        BY DEF Rank
    <2>2. at[q] = "unborn" \/ Rank(at[q]) \in 1 .. 4
        BY <1>2, <2>1, RankType DEF Keeps
    <2>3. QED
        BY <2>2 DEF LatestBefore
<1>3. QED
    BY <1>1, <1>2 DEF LatestCovers, LatestBefore

\* No failed verification is ever forgotten.
LEMMA CleanBefore ==
    ASSUME TypeOK, [Next]_vars, Clean'
    PROVE  Clean
<1>1. ASSUME NEW r \in Run, at[r] \in {"Rollback", "rolledback"}
      PROVE  at'[r] \in {"Rollback", "rolledback"}
    <2>1. ASSUME NEW q \in Run,
                 Push(q) \/ Step(q) \/ InfraGoesBack(q) \/ StageFails(q)
          PROVE  at'[r] \in {"Rollback", "rolledback"}
        BY <1>1, <2>1 DEF TypeOK, Push, Step, StageFails, Enter, Gates, FirstOf,
           InfraUnchanged, InfraDeploy, InfraGoesBack, BuildImage, Capture,
           UpdateService, Deployed, DeployTimesOut, VerifyPasses, VerifyFails,
           RolledBack, Goto, Arrive
    <2>2. QED
        BY <1>1, <2>1 DEF Next, Ecs, StartTask, TakeOver, Replace, TaskDies, vars
<1>2. QED
    BY <1>1 DEF Clean

\* The template in force still covers when it stays and no run passes Infra.
LEMMA TemplateKept ==
    ASSUME TypeOK, [Next]_vars, TemplateCovers, td' = td, stack' = stack,
           \A q \in Run : Rank(at'[q]) >= 3 => Rank(at[q]) >= 3
    PROVE  TemplateCovers'
BY CleanBefore DEF TemplateCovers

\* Runs that move within a stage or end keep the flow.
LEMMA GotoFlows ==
    ASSUME TypeOK, [Next]_vars, Flow, NEW r \in Run, NEW p \in Place, Goto(r, p),
           at[r] # "unborn", p # "unborn", latest' = latest,
           Rank(p) \in {Rank(at[r]), 0} \/ (Rank(p) = 9 /\ Rank(at[r]) = 8),
           (td' = td /\ stack' = stack) \/ ~Clean'
    PROVE  Flow'
<1>1. Order' /\ Born'
    BY GotoOrdered DEF Flow
<1>2. \A q \in Run : at'[q] = IF q = r THEN p ELSE at[q]
    BY DEF Goto, TypeOK
<1>3. Rank(at[r]) \in 0 .. 9
    BY RankType
<1>4. \A q \in Run : Keeps(q)
    BY <1>2, <1>3 DEF Keeps
<1>5. LatestCovers' /\ LatestBefore'
    BY <1>4, LatestKept DEF Flow
<1>6. \A q \in Run : Rank(at'[q]) >= 3 => Rank(at[q]) >= 3
    BY <1>2, <1>3
<1>7. TemplateCovers'
    <2>1. CASE ~Clean'
        BY <2>1 DEF TemplateCovers
    <2>2. CASE td' = td /\ stack' = stack
        BY <2>2, <1>6, TemplateKept DEF Flow
    <2>3. QED
        BY <2>1, <2>2
<1>8. QED
    BY <1>1, <1>5, <1>7 DEF Flow

\* A run that comes to a gate without having built keeps all but the template.
LEMMA ArriveFlows ==
    ASSUME TypeOK, Flow, NEW r \in Run, NEW gate \in Gates, Arrive(r, gate),
           at[r] # "unborn", latest' = latest, Rank(at[r]) \in {2, 6},
           Rank(gate) = Rank(at[r]) + 1
    PROVE  /\ Order' /\ Born' /\ LatestCovers' /\ LatestBefore'
           /\ \A q \in Run : q # r => (Rank(at'[q]) >= 3 => Rank(at[q]) >= 3)
<1>1. Order' /\ Born'
    BY ArriveOrdered DEF Flow
<1>2. \A q \in Run : at'[q] = IF q = r THEN gate
                              ELSE IF at[q] = gate THEN "superseded" ELSE at[q]
    BY DEF Arrive
<1>3. Rank("superseded") = 0
    BY DEF Rank
<1>4. \A q \in Run : Keeps(q)
    BY <1>2, <1>3 DEF Keeps
<1>5. LatestCovers' /\ LatestBefore'
    BY <1>4, LatestKept DEF Flow
<1>6. QED
    BY <1>1, <1>2, <1>3, <1>5

\* Every step keeps the runs in order and what latest and the template cover.
LEMMA FlowKept == TypeOK /\ Flow /\ [Next]_vars => Flow'
<1> SUFFICES ASSUME TypeOK, Flow, [Next]_vars PROVE Flow'
    OBVIOUS
<1> USE BoundAssumption, CommitAssumption
<1>0. /\ Rank("unborn") = 0 /\ Rank("toInfra") = 1 /\ Rank("Infra") = 2
      /\ Rank("toBuild") = 3 /\ Rank("Build") = 4 /\ Rank("toDeploy") = 5
      /\ Rank("Deploy") = 6 /\ Rank("Update") = 6
      /\ Rank("Rollout") = 6 /\ Rank("toVerify") = 7
      /\ Rank("Verify") = 8 /\ Rank("Rollback") = 8 /\ Rank("succeeded") = 9
      /\ Rank("rolledback") = 9 /\ Rank("failed") = 0 /\ Rank("superseded") = 0
    BY DEF Rank
<1>1. CASE \E r \in Run : Push(r)
    <2>1. PICK r \in Run : Push(r)  BY <1>1
    <2>2. Order' /\ Born'
        BY <2>1, PushOrdered DEF Flow
    <2>3. \A q \in Run : Keeps(q)
        BY <2>1, <1>0 DEF Push, Arrive, Keeps
    <2>4. LatestCovers' /\ LatestBefore'
        BY <2>1, <2>3, LatestKept DEF Flow, Push
    <2>5. \A q \in Run : Rank(at'[q]) >= 3 => Rank(at[q]) >= 3
        BY <2>1, <1>0 DEF Push, Arrive
    <2>6. TemplateCovers'
        BY <2>1, <2>5, TemplateKept DEF Flow, Push, serviceVars
    <2>7. QED  BY <2>2, <2>4, <2>6 DEF Flow
<1>2. CASE \E r \in Run : Enter(r)
    <2>1. PICK r \in Run, gate \in Gates :
              /\ at[r] = gate /\ \A q \in Run : at[q] \notin StageOf(gate)
              /\ Goto(r, FirstOf(gate))
              /\ latest' = latest /\ td' = td /\ stack' = stack
        BY <1>2 DEF Enter, serviceVars
    <2>2. Order' /\ Born'
        BY <2>1, EnterOrdered DEF Flow
    <2>3. \A q \in Run : at'[q] = IF q = r THEN FirstOf(gate) ELSE at[q]
        BY <2>1 DEF Goto, TypeOK
    <2>4. <<Rank(gate), Rank(FirstOf(gate))>> \in {<<1, 2>>, <<3, 4>>, <<5, 6>>, <<7, 8>>}
        BY <1>0 DEF Gates, FirstOf
    <2>5. \A q \in Run : Keeps(q)
        BY <2>1, <2>3, <2>4 DEF Keeps
    <2>6. LatestCovers' /\ LatestBefore'
        BY <2>1, <2>5, LatestKept DEF Flow
    <2>7. \A q \in Run : Rank(at'[q]) >= 3 => Rank(at[q]) >= 3
        BY <2>1, <2>3, <2>4
    <2>8. TemplateCovers'
        BY <2>1, <2>7, TemplateKept DEF Flow
    <2>9. QED  BY <2>2, <2>6, <2>8 DEF Flow
<1>3. CASE \E r \in Run : InfraUnchanged(r)
    <2>1. PICK r \in Run : InfraUnchanged(r)  BY <1>3
    <2>2. /\ Order' /\ Born' /\ LatestCovers' /\ LatestBefore'
          /\ \A q \in Run : q # r => (Rank(at'[q]) >= 3 => Rank(at[q]) >= 3)
        BY <2>1, <1>0, ArriveFlows DEF InfraUnchanged, Gates
    <2>3. ASSUME Clean'
          PROVE  td' = stack'.td /\ \A q \in Run : Rank(at'[q]) >= 3 => td' >= Template[q]
        <3>1. Clean
            BY <2>3, CleanBefore
        <3>2. stack.td = Template[r]
            BY <2>1, <3>1 DEF Clean, InfraUnchanged, RunsCdk, Wanted
        <3>3. td = stack.td /\ td' = td /\ stack' = stack
            BY <2>1, <3>1 DEF Flow, TemplateCovers, InfraUnchanged, serviceVars
        <3>4. r \in Commit /\ Template[r] \in Nat
            BY DEF Run, Commit
        <3>5. QED
            BY <3>1, <3>2, <3>3, <3>4, <2>2 DEF Flow, TemplateCovers
    <2>4. QED  BY <2>2, <2>3 DEF Flow, TemplateCovers
<1>4. CASE \E r \in Run : InfraDeploy(r)
    <2>1. PICK r \in Run : InfraDeploy(r)  BY <1>4
    <2>2. /\ Order' /\ Born' /\ LatestCovers' /\ LatestBefore'
          /\ \A q \in Run : q # r => (Rank(at'[q]) >= 3 => Rank(at[q]) >= 3)
        BY <2>1, <1>0, ArriveFlows DEF InfraDeploy, Gates
    <2>3. td' = Template[r] /\ stack'.td = Template[r]
        BY <2>1 DEF InfraDeploy, Wanted
    <2>4. ASSUME NEW q \in Run, Rank(at'[q]) >= 3
          PROVE  Template[r] >= Template[q]
        <3>1. q \in Commit /\ r \in Commit /\ Template[q] \in Nat /\ Template[r] \in Nat
            BY DEF Run, Commit
        <3>2. CASE q <= r
            BY <3>1, <3>2, HistoryAssumption
        <3>3. CASE r < q
            <4>1. Rank(at[q]) < 2
                BY <2>1, <3>3, <1>0 DEF InfraDeploy, Flow, Order
            <4>2. Rank(at[q]) >= 3
                BY <2>2, <2>4, <3>3 DEF Run
            <4>3. QED
                BY <4>1, <4>2, RankType
        <3>4. QED
            BY <3>2, <3>3 DEF Run
    <2>5. QED  BY <2>2, <2>3, <2>4 DEF Flow, TemplateCovers
<1>5. CASE \E r \in Run : StageFails(r)
    <2>1. PICK r \in Run : StageFails(r)  BY <1>5
    <2>2. QED
        BY <2>1, <1>0, GotoFlows DEF StageFails, Place, Ended, serviceVars
<1>6. CASE \E r \in Run : BuildImage(r)
    <2>1. PICK r \in Run : BuildImage(r)  BY <1>6
    <2>2. Order' /\ Born'
        BY <2>1, <1>0, ArriveOrdered DEF BuildImage, Gates, Flow
    <2>3. \A q \in Run : q # r => at'[q] \in {at[q], "superseded"}
        BY <2>1 DEF BuildImage, Arrive
    <2>4. at[r] = "Build" /\ at'[r] = "toDeploy" /\ latest' = r
        BY <2>1 DEF BuildImage, Arrive
    <2>5. \A q \in Run : Rank(at'[q]) >= 5 => r >= q
        <3>1. ASSUME NEW q \in Run, Rank(at'[q]) >= 5, r < q PROVE FALSE
            <4>1. Rank(at[q]) >= 5
                BY <3>1, <2>3, <1>0 DEF Run
            <4>2. Rank(at[q]) < 4
                BY <3>1, <2>4, <1>0 DEF Flow, Order
            <4>3. QED
                BY <4>1, <4>2, RankType
        <3>2. QED
            BY <3>1 DEF Run
    <2>6. ASSUME NEW q \in Run, at'[q] = "unborn" \/ Rank(at'[q]) \in 1 .. 4
          PROVE  r < q
        <3>1. q # r
            BY <2>4, <2>6, <1>0
        <3>2. at[q] = "unborn" \/ Rank(at[q]) \in 1 .. 4
            BY <3>1, <2>3, <2>6, <1>0
        <3>3. ASSUME q < r PROVE FALSE
            <4>1. at[q] # "unborn"
                BY <3>3, <2>4 DEF Flow, Born
            <4>2. Rank(at[q]) \in 1 .. 8 /\ Rank(at[q]) <= 4
                BY <4>1, <3>2
            <4>3. 4 < Rank(at[q])
                BY <4>2, <3>3, <2>4, <1>0 DEF Flow, Order
            <4>4. QED
                BY <4>2, <4>3
        <3>4. QED
            BY <3>1, <3>3 DEF Run
    <2>7. \A q \in Run : Rank(at'[q]) >= 3 => Rank(at[q]) >= 3
        BY <2>3, <2>4, <1>0
    <2>8. TemplateCovers'
        BY <2>1, <2>7, TemplateKept DEF Flow, BuildImage, serviceVars
    <2>9. QED
        BY <2>2, <2>4, <2>5, <2>6, <2>8 DEF Flow, LatestCovers, LatestBefore
<1>7. CASE \E r \in Run : UpdateService(r)
    <2>1. PICK r \in Run : UpdateService(r)  BY <1>7
    <2>2. QED  BY <2>1, <1>0, GotoFlows DEF UpdateService, Place
<1>8. CASE \E r \in Run : Deployed(r)
    <2>1. PICK r \in Run : Deployed(r)  BY <1>8
    <2>2. /\ Order' /\ Born' /\ LatestCovers' /\ LatestBefore'
          /\ \A q \in Run : q # r => (Rank(at'[q]) >= 3 => Rank(at[q]) >= 3)
        BY <2>1, <1>0, ArriveFlows DEF Deployed, Gates
    <2>3. TemplateCovers'
        BY <2>1, <2>2, <1>0, TemplateKept DEF Flow, Deployed, serviceVars
    <2>4. QED  BY <2>2, <2>3 DEF Flow
<1>9. CASE \E r \in Run : DeployTimesOut(r)
    <2>1. PICK r \in Run : DeployTimesOut(r)  BY <1>9
    <2>2. QED
        BY <2>1, <1>0, GotoFlows DEF DeployTimesOut, Place, Ended, serviceVars
<1>10. CASE \E r \in Run : VerifyPasses(r)
    <2>1. PICK r \in Run : VerifyPasses(r)  BY <1>10
    <2>2. QED
        BY <2>1, <1>0, GotoFlows DEF VerifyPasses, Place, Ended, serviceVars
<1>11. CASE \E r \in Run : VerifyFails(r)
    <2>1. PICK r \in Run : VerifyFails(r)  BY <1>11
    <2>2. ~Clean'
        BY <2>1 DEF VerifyFails, Goto, TypeOK, Clean
    <2>3. QED
        BY <2>1, <2>2, <1>0, GotoFlows DEF VerifyFails, Place
<1>12. CASE \E r \in Run : RolledBack(r)
    <2>1. PICK r \in Run : RolledBack(r)  BY <1>12
    <2>2. QED
        BY <2>1, <1>0, GotoFlows DEF RolledBack, Place, Ended, serviceVars
<1>13. CASE Ecs \/ TaskDies \/ UNCHANGED vars
    <2>1. at' = at /\ td' = td /\ stack' = stack /\ latest' = latest
        BY <1>13 DEF Ecs, StartTask, TakeOver, Replace, TaskDies, vars
    <2>2. QED
        BY <2>1 DEF Flow, Order, Born, LatestCovers, LatestBefore,
           TemplateCovers, Clean
<1>14. CASE \E r \in Run : Capture(r)
    <2>1. PICK r \in Run : Capture(r)  BY <1>14
    <2>2. QED  BY <2>1, <1>0, GotoFlows DEF Capture, Place, serviceVars
<1>15. CASE \E r \in Run : InfraGoesBack(r)
    <2>1. PICK r \in Run : InfraGoesBack(r)  BY <1>15
    <2>2. td' = stack.td /\ stack' = stack
        BY <2>1 DEF InfraGoesBack
    <2>3. Clean' => td' = td
        BY <2>2, CleanBefore DEF Flow, TemplateCovers
    <2>4. QED
        BY <2>1, <2>2, <2>3, <1>0, GotoFlows DEF InfraGoesBack, Place, Ended
<1>16. QED
    BY <1>1, <1>2, <1>3, <1>4, <1>5, <1>6, <1>7, <1>8, <1>9, <1>10, <1>11,
       <1>12, <1>13, <1>14, <1>15 DEF Next, Step

-----------------------------------------------------------------------------

OnTheWay == {"toBuild", "Build", "toDeploy", "Deploy", "Update", "failed",
             "superseded"}

\* Steps that leave the service alone and begin no rollout and no verification.
LEMMA QuietServes ==
    ASSUME TypeOK, [Next]_vars, Service, latest' \in Commit, latest' >= latest,
           UNCHANGED <<desired, rollout, next, task, top, verified, scaler>>,
           \A q \in Run :
               /\ at'[q] = "Rollout" => at[q] = "Rollout"
               /\ at'[q] \in {"toVerify", "Verify"} => at[q] \in {"toVerify", "Verify"}
               /\ at'[q] = "succeeded" => at[q] = "succeeded"
               /\ at[q] \in OnTheWay => at'[q] \in OnTheWay
    PROVE  Service'
<1>1. Clean' => Clean
    BY CleanBefore
<1>2. StartedFits' /\ RolledOutFits' /\ DeployedFits'
    BY <1>1 DEF Service, StartedFits, RolledOutFits, DeployedFits, Fits
<1>3. SucceededFits'
    BY <1>1 DEF Service, SucceededFits, Fits
<1>4. Newer'
    BY BoundAssumption DEF Service, Newer, TypeOK, Commit, Task
<1>5. Down'
    BY DEF Service, Down, OnTheWay
<1>6. QED
    BY <1>2, <1>3, <1>4, <1>5 DEF Service

\* Every step keeps the tasks fit for the runs that rely on them.
LEMMA ServiceKept == TypeOK /\ Flow /\ Service /\ [Next]_vars => Service'
<1> SUFFICES ASSUME TypeOK, Flow, Service, [Next]_vars PROVE Service'
    OBVIOUS
<1> USE BoundAssumption, CommitAssumption, TaskAssumption
<1>0. Clean' => Clean
    BY CleanBefore
<1>1. ASSUME NEW r \in Run,
             Push(r) \/ Enter(r) \/ InfraUnchanged(r) \/ StageFails(r)
             \/ Capture(r) \/ DeployTimesOut(r) \/ RolledBack(r)
      PROVE  Service'
    <2>1. /\ latest' = latest
          /\ UNCHANGED <<desired, rollout, next, task, top, verified, scaler>>
        BY <1>1 DEF Push, Enter, InfraUnchanged, StageFails, Capture,
           DeployTimesOut, RolledBack, serviceVars, historyVars
    <2>2. \A q \in Run :
              /\ at'[q] = "Rollout" => at[q] = "Rollout"
              /\ at'[q] \in {"toVerify", "Verify"} => at[q] \in {"toVerify", "Verify"}
              /\ at'[q] = "succeeded" => at[q] = "succeeded"
              /\ at[q] \in OnTheWay => at'[q] \in OnTheWay
        BY <1>1 DEF TypeOK, Push, Enter, Gates, FirstOf, InfraUnchanged,
           StageFails, Capture, DeployTimesOut, RolledBack, Goto, Arrive, OnTheWay
    <2>3. latest' \in Commit /\ latest' >= latest
        BY <2>1 DEF TypeOK, Commit
    <2>4. QED  BY <2>1, <2>2, <2>3, QuietServes
<1>2. ASSUME NEW r \in Run, BuildImage(r) PROVE Service'
    <2>1. UNCHANGED <<desired, rollout, next, task, top, verified, scaler>>
        BY <1>2 DEF BuildImage, serviceVars, historyVars
    <2>2. \A q \in Run :
              /\ at'[q] = "Rollout" => at[q] = "Rollout"
              /\ at'[q] \in {"toVerify", "Verify"} => at[q] \in {"toVerify", "Verify"}
              /\ at'[q] = "succeeded" => at[q] = "succeeded"
              /\ at[q] \in OnTheWay => at'[q] \in OnTheWay
        BY <1>2 DEF BuildImage, Arrive, OnTheWay
    <2>3. Rank(at[r]) \in 1 .. 4
        BY <1>2 DEF BuildImage, Rank
    <2>4. latest' = r /\ latest < r
        BY <1>2, <2>3 DEF BuildImage, Flow, LatestBefore
    <2>5. QED  BY <2>1, <2>2, <2>4, QuietServes DEF TypeOK, Commit, Run
<1>3. ASSUME NEW r \in Run, InfraDeploy(r) \/ InfraGoesBack(r) PROVE Service'
    <2>1. /\ task' = NoTask /\ next' = NoTask
          /\ scaler' = r /\ at'[r] \in {"toBuild", "failed"}
          /\ UNCHANGED <<verified, top, latest>>
          /\ \A q \in Run : at'[q] = "succeeded" => at[q] = "succeeded"
        BY <1>3 DEF InfraDeploy, InfraGoesBack, Arrive, Goto, TypeOK
    <2>2. StartedFits' /\ RolledOutFits' /\ DeployedFits'
        BY <2>1 DEF StartedFits, RolledOutFits, DeployedFits, Fits
    <2>3. SucceededFits'
        BY <2>1, <1>0 DEF Service, SucceededFits, Fits
    <2>4. Newer' /\ Down'
        BY <2>1 DEF Service, Newer, Down
    <2>5. QED  BY <2>2, <2>3, <2>4 DEF Service
<1>4. ASSUME NEW r \in Run, UpdateService(r) \/ VerifyFails(r)
      PROVE  Service'
    <2>1. /\ next' = NoTask /\ rollout' = TRUE /\ desired' \in {1, desired}
          /\ UNCHANGED <<task, verified, top, latest, scaler>>
        BY <1>4 DEF UpdateService, VerifyFails, historyVars
    <2>2. /\ at[r] \in {"Update", "Verify"} /\ (at[r] = "Update" => desired' = 1)
          /\ at'[r] \in {"Rollout", "Rollback"}
          /\ \A q \in Run : q # r => at'[q] = at[q]
        BY <1>4 DEF UpdateService, VerifyFails, Goto, TypeOK
    <2>3. StartedFits' /\ RolledOutFits'
        BY <2>1 DEF StartedFits, RolledOutFits, Fits
    <2>4. DeployedFits'
        BY <2>1, <2>2, <1>0 DEF Service, DeployedFits, Fits
    <2>5. SucceededFits'
        BY <2>1, <2>2, <1>0 DEF Service, SucceededFits, Fits
    <2>6. Newer'
        BY <2>1 DEF Service, Newer
    <2>7. Down'
        BY <2>1, <2>2 DEF Service, Down
    <2>8. QED  BY <2>3, <2>4, <2>5, <2>6, <2>7 DEF Service
<1>5. ASSUME NEW r \in Run, Deployed(r) PROVE Service'
    <2>1. UNCHANGED <<desired, rollout, next, task, top, latest, verified, scaler>>
        BY <1>5 DEF Deployed, serviceVars, historyVars
    <2>2. /\ at[r] = "Rollout" /\ at'[r] = "toVerify" /\ Stable
          /\ \A q \in Run : q # r => at'[q] \in {at[q], "superseded"}
        BY <1>5 DEF Deployed, Arrive
    <2>3. Fits(task, r)
        <3>1. CASE desired = 0
            BY <3>1 DEF Service, Down, Fits
        <3>2. CASE desired = 1
            BY <3>2, <2>2 DEF Service, RolledOutFits, Stable, Fits
        <3>3. QED  BY <3>1, <3>2 DEF TypeOK
    <2>4. StartedFits'
        BY <2>1, <2>2, <1>0 DEF Service, StartedFits, Fits
    <2>5. RolledOutFits'
        BY <2>1, <2>2, <1>0 DEF Service, RolledOutFits, Fits
    <2>6. DeployedFits'
        BY <2>1, <2>2, <2>3, <1>0 DEF Service, DeployedFits, Fits
    <2>7. SucceededFits'
        BY <2>1, <2>2, <1>0 DEF Service, SucceededFits, Fits
    <2>8. Newer' /\ Down'
        BY <2>1, <2>2 DEF Service, Newer, Down
    <2>9. QED  BY <2>4, <2>5, <2>6, <2>7, <2>8 DEF Service
<1>6. ASSUME NEW r \in Run, VerifyPasses(r) PROVE Service'
    <2>1. /\ UNCHANGED <<desired, rollout, next, task, top, latest, scaler>>
          /\ at[r] = "Verify" /\ at'[r] = "succeeded" /\ task # NoTask
          /\ \A q \in Run : q # r => at'[q] = at[q] /\ verified'[q] = verified[q]
          /\ verified'[r] = task
        BY <1>6 DEF VerifyPasses, serviceVars, Goto, TypeOK
    <2>2. Fits(task, r)
        BY <2>1 DEF Service, DeployedFits
    <2>3. StartedFits' /\ RolledOutFits' /\ DeployedFits'
        BY <2>1, <1>0 DEF Service, StartedFits, RolledOutFits, DeployedFits, Fits
    <2>4. SucceededFits'
        BY <2>1, <2>2, <1>0 DEF Service, SucceededFits, Fits
    <2>5. Newer' /\ Down'
        BY <2>1 DEF Service, Newer, Down
    <2>6. QED  BY <2>3, <2>4, <2>5 DEF Service
<1>7. CASE StartTask
    <2>1. /\ next' = [img |-> latest, td |-> td] /\ desired' = 1
          /\ UNCHANGED <<at, task, top, latest, verified, scaler>>
        BY <1>7 DEF StartTask, historyVars
    <2>2. next' \in Task /\ next' # NoTask /\ next'.img = latest /\ next'.td = td
        BY <2>1 DEF TypeOK, Task
    <2>3. StartedFits'
        <3>1. ASSUME NEW q \in Run, at[q] \in {"Rollout", "toVerify", "Verify"}
              PROVE  latest >= q /\ (Clean => td >= Template[q])
            <4>1. Rank(at[q]) >= 5
                BY <3>1 DEF Rank
            <4>2. QED  BY <4>1, RankType DEF Flow, LatestCovers, TemplateCovers
        <3>2. QED  BY <2>1, <2>2, <3>1, <1>0 DEF StartedFits, Fits
    <2>4. RolledOutFits' /\ DeployedFits'
        BY <2>1, <2>2, <1>0 DEF Service, RolledOutFits, DeployedFits, Fits
    <2>5. SucceededFits'
        BY <2>1, <1>0 DEF Service, SucceededFits, Fits
    <2>6. Newer' /\ Down'
        BY <2>1, <2>2 DEF Service, Newer, Down, TypeOK, Commit
    <2>7. QED  BY <2>3, <2>4, <2>5, <2>6 DEF Service
<1>8. CASE TakeOver
    <2>1. /\ next # NoTask /\ task' = next /\ next' = NoTask
          /\ top' = IF next.img > top THEN next.img ELSE top
          /\ UNCHANGED <<at, desired, latest, verified, scaler>>
        BY <1>8 DEF TakeOver, historyVars
    <2>2. StartedFits'
        BY <2>1 DEF StartedFits, Fits
    <2>3. RolledOutFits' /\ DeployedFits'
        BY <2>1, <1>0 DEF Service, StartedFits, RolledOutFits, DeployedFits, Fits
    <2>4. SucceededFits'
        BY <2>1, <1>0 DEF Service, SucceededFits, Fits
    <2>5. Newer' /\ Down'
        BY <2>1 DEF Service, Newer, Down
    <2>6. QED  BY <2>2, <2>3, <2>4, <2>5 DEF Service
<1>9. CASE Replace
    <2>1. /\ next # NoTask /\ next' = NoTask /\ rollout' = TRUE
          /\ UNCHANGED <<at, desired, task, top, latest, verified, scaler>>
        BY <1>9 DEF Replace, historyVars
    <2>2. StartedFits' /\ RolledOutFits'
        BY <2>1 DEF StartedFits, RolledOutFits, Fits
    <2>3. DeployedFits' /\ SucceededFits'
        BY <2>1, <1>0 DEF Service, DeployedFits, SucceededFits, Fits
    <2>4. Newer' /\ Down'
        BY <2>1 DEF Service, Newer, Down
    <2>5. QED  BY <2>2, <2>3, <2>4 DEF Service
<1>10. CASE TaskDies
    <2>1. /\ task # NoTask /\ task' = NoTask
          /\ UNCHANGED <<at, desired, next, top, latest, verified, scaler>>
        BY <1>10 DEF TaskDies, historyVars
    <2>2. StartedFits'
        BY <2>1, <1>0 DEF Service, StartedFits, Fits
    <2>3. RolledOutFits' /\ DeployedFits'
        BY <2>1 DEF RolledOutFits, DeployedFits, Fits
    <2>4. SucceededFits'
        BY <2>1, <1>0 DEF Service, SucceededFits, Fits
    <2>5. Newer' /\ Down'
        BY <2>1 DEF Service, Newer, Down
    <2>6. QED  BY <2>2, <2>3, <2>4, <2>5 DEF Service
<1>11. CASE UNCHANGED vars
    BY <1>11 DEF vars, Service, StartedFits, RolledOutFits, DeployedFits,
       SucceededFits, Newer, Down, Fits, Clean
<1>12. QED
    BY <1>1, <1>2, <1>3, <1>4, <1>5, <1>6, <1>7, <1>8, <1>9, <1>10, <1>11
       DEF Next, Step, Ecs

\* The first state: no run yet, and the service as "deploy.sh all" left it.
LEMMA InitIInv == Init => IInv
<1> SUFFICES ASSUME Init PROVE IInv
    OBVIOUS
<1> USE BoundAssumption, CommitAssumption, TaskAssumption
<1>1. 0 \in Commit /\ Template[0] \in Nat /\ task \in Task /\ task # NoTask
    BY DEF Init, Commit, Task
<1>2. Rank("unborn") = 0
    BY DEF Rank
<1>3. TypeOK
    <2>1. at \in [Run -> Place] /\ meta \in [Run -> Nat]
        BY DEF Init, Place
    <2>2. verified \in [Run -> Task \cup {NoTask}]
        BY DEF Init
    <2>3. stack \in [count : {0, 1}, td : Nat]
        BY <1>1 DEF Init
    <2>4. td \in Nat /\ desired \in {0, 1} /\ faults \in 0 .. MaxFaults
        BY <1>1 DEF Init
    <2>5. rollout \in BOOLEAN
        BY DEF Init
    <2>6. next \in Task \cup {NoTask} /\ task \in Task \cup {NoTask}
        BY <1>1 DEF Init
    <2>7. latest \in Commit /\ scaler \in Commit /\ top \in Commit
        BY <1>1 DEF Init
    <2>8. QED
        BY <2>1, <2>2, <2>3, <2>4, <2>5, <2>6, <2>7 DEF TypeOK
<1>4. Flow
    BY <1>1, <1>2 DEF Init, Flow, Order, Born, LatestCovers, LatestBefore,
       TemplateCovers, Run
<1>5. Service
    BY <1>1 DEF Init, Service, StartedFits, RolledOutFits, DeployedFits,
       SucceededFits, Newer, Down, Fits
<1>6. QED
    BY <1>3, <1>4, <1>5 DEF IInv

\* The invariant holds throughout.
LEMMA Invariance == Spec => []IInv
<1>1. IInv /\ [Next]_vars => IInv'
    BY TypeKept, FlowKept, ServiceKept DEF IInv
<1>2. QED
    BY InitIInv, <1>1, PTL DEF Spec

-----------------------------------------------------------------------------

\* The pipeline's runs, the service and the registry are what they should be.
THEOREM Typing == Spec => []TypeOK
<1>1. IInv => TypeOK
    BY DEF IInv
<1>2. QED
    BY Invariance, <1>1, PTL

\* A green run has seen its own commit, or a later one, answer /health.
THEOREM VerifiedImage == Spec => []VerifiesItself
<1>1. IInv => VerifiesItself
    BY DEF IInv, Service, SucceededFits, Fits, VerifiesItself
<1>2. QED
    BY Invariance, <1>1, PTL

\* ... and, with no rollback anywhere, under its own template or a later one.
THEOREM VerifiedTemplate == Spec => []VerifiesTemplate
<1>1. IInv => VerifiesTemplate
    BY DEF IInv, Service, SucceededFits, Fits, VerifiesTemplate
<1>2. QED
    BY Invariance, <1>1, PTL

\* Zero tasks in production are the doing of a run that has not rolled out.
THEOREM Downtime == Spec => []DownUntilDeploy
<1>1. IInv => DownUntilDeploy
    BY DEF IInv, Service, Down, DownUntilDeploy
<1>2. QED
    BY Invariance, <1>1, PTL

\* Production's image never gets older, whatever is rolled back.
THEOREM Forward == Spec => NeverGoesBack
<1>1. IInv /\ [Next]_vars => [task' # task /\ task' # NoTask => task'.img >= top]_vars
    <2> SUFFICES ASSUME IInv, [Next]_vars, task' # task, task' # NoTask
                 PROVE  task'.img >= top
        OBVIOUS
    <2>1. TakeOver
        BY DEF Next, Step, Ecs, vars, serviceVars, Push, Enter, InfraUnchanged,
           InfraDeploy, InfraGoesBack, StageFails, BuildImage, Capture,
           UpdateService, Deployed, DeployTimesOut, StartTask, Replace, TaskDies, VerifyPasses,
           VerifyFails, RolledBack
    <2>2. QED
        BY <2>1 DEF TakeOver, IInv, Service, Newer
<1>2. QED
    BY Invariance, <1>1, PTL DEF Spec, NeverGoesBack

-----------------------------------------------------------------------------
(* The pipeline keeps the promise of ReleaseLine.                          *)

\* The runs that are green, as the abstract specification sees them.
Green == {r \in Run : at[r] = "succeeded"}

\* The moves between places that turn no run green and take no green one back.
LEMMA GreenKept ==
    ASSUME \A q \in Run : at'[q] = "succeeded" <=> at[q] = "succeeded"
    PROVE  Green' = Green
BY DEF Green

\* A run that goes, or comes to a gate, away from the end turns none green.
LEMMA GreenFrame ==
    ASSUME TypeOK, NEW r \in Run, NEW p \in Place \ {"succeeded"},
           at[r] # "succeeded",
           Goto(r, p) \/ (p \in Gates /\ Arrive(r, p))
    PROVE  Green' = Green
<1>1. \A q \in Run : at'[q] = "succeeded" <=> at[q] = "succeeded"
    BY DEF Goto, Arrive, TypeOK, Gates
<1>2. QED
    BY <1>1, GreenKept

\* A step that changes none of the five is a stutter.
LEMMA Stutters ==
    ASSUME Green' = Green, UNCHANGED <<latest, next, task, top>>
    PROVE  UNCHANGED Line!vars
BY DEF Line!vars, Green, Image

\* A step that can only take the trial or the service away stops them.
LEMMA Stops ==
    ASSUME Green' = Green, UNCHANGED <<latest, top>>,
           next' \in {next, NoTask}, task' \in {task, NoTask}
    PROVE  Line!Stop
BY DEF Line!Stop, Green, Image

\* Moves along the pipeline that the abstract specification does not see.
LEMMA MovesStutter ==
    ASSUME TypeOK, NEW r \in Run,
           Push(r) \/ Enter(r) \/ InfraUnchanged(r) \/ StageFails(r)
           \/ Capture(r) \/ Deployed(r) \/ DeployTimesOut(r) \/ RolledBack(r)
    PROVE  UNCHANGED Line!vars
<1>1. UNCHANGED <<latest, next, task, top>>
    BY DEF Push, Enter, InfraUnchanged, StageFails, Capture, Deployed,
       DeployTimesOut, RolledBack, serviceVars
<1>2. Green' = Green
    BY GreenFrame DEF Push, Enter, FirstOf, InfraUnchanged, StageFails, Capture,
       Deployed, DeployTimesOut, RolledBack, Gates, Place, Ended
<1>3. QED
    BY <1>1, <1>2, Stutters

\* The image that is pushed is of a later commit than the one tagged latest.
LEMMA BuildPublishes ==
    ASSUME TypeOK, Flow, NEW r \in Run, BuildImage(r)
    PROVE  Line!Publish(r)
<1>1. latest < r
    BY DEF BuildImage, Rank, Flow, LatestBefore
<1>2. r > latest
    BY <1>1 DEF TypeOK, Commit, Run
<1>3. Green' = Green
    BY GreenFrame DEF BuildImage, Gates, Place
<1>4. QED
    BY <1>2, <1>3 DEF BuildImage, Line!Publish, Green, Image, serviceVars

\* A run that verifies turns green after every earlier green run: those that
\* are behind it are not through, and what serves is its own or a later image.
LEMMA VerifySucceeds ==
    ASSUME TypeOK, Flow, Service, NEW r \in Run, VerifyPasses(r)
    PROVE  Line!Succeed(r)
<1>1. at[r] = "Verify" /\ task # NoTask
    BY DEF VerifyPasses
<1>2. task.img >= r
    BY <1>1 DEF Service, DeployedFits, Fits
<1>3. \E k \in Image(task) : k >= r
    BY <1>1, <1>2 DEF Image
<1>4. ASSUME NEW q \in Green PROVE q < r
    <2>1. q \in Run /\ at[q] = "succeeded"
        BY DEF Green
    <2>2. Rank(at[q]) = 9 /\ Rank(at[r]) = 8
        BY <1>1, <2>1 DEF Rank
    <2>3. ~ (r < q)
        BY <2>1, <2>2 DEF Flow, Order
    <2>4. q # r
        BY <1>1, <2>1
    <2>5. QED
        BY <2>1, <2>3, <2>4 DEF Run
<1>5. Green' = Green \cup {r}
    BY DEF VerifyPasses, Goto, TypeOK, Green
<1>6. UNCHANGED <<latest, next, task, top>>
    BY DEF VerifyPasses, serviceVars
<1>7. QED
    BY <1>3, <1>4, <1>5, <1>6 DEF Line!Succeed, Green, Image

\* What takes over is no older than anything that has served.
LEMMA TakeOverServes ==
    ASSUME TypeOK, Service, TakeOver
    PROVE  Line!Serve
<1>1. next \in Task /\ next # NoTask /\ next.img \notin Broken
    BY DEF TakeOver, TypeOK
<1>2. next.img >= top
    BY <1>1 DEF Service, Newer
<1>3. task' = next /\ next' = NoTask /\ top' = next.img
    BY <1>1, <1>2 DEF TakeOver, TypeOK, Task, Commit
<1>4. Image(next) = {next.img} /\ Image(next)' = {} /\ Image(task)' = {next.img}
    BY <1>1, <1>3 DEF Image
<1>5. UNCHANGED <<latest, at>>
    BY DEF TakeOver
<1>6. QED
    BY <1>1, <1>2, <1>3, <1>4, <1>5 DEF Line!Serve

\* What is tried is what was published last.
LEMMA StartTries ==
    ASSUME TypeOK, StartTask
    PROVE  Line!Try
<1>1. next' = [img |-> latest, td |-> td]
    BY DEF StartTask
<1>2. next' \in Task /\ next'.img = latest
    BY <1>1 DEF TypeOK, Task
<1>3. Image(next)' = {latest}
    BY <1>2, TaskAssumption DEF Image
<1>4. QED
    BY <1>3 DEF StartTask, Line!Try

\* Every step of the pipeline is one of the abstract specification's.
LEMMA LineStep ==
    ASSUME TypeOK, Flow, Service, [Next]_vars
    PROVE  [Line!Next]_(Line!vars)
<1>1. ASSUME NEW r \in Run,
             Push(r) \/ Step(r) \/ InfraGoesBack(r) \/ StageFails(r)
      PROVE  [Line!Next]_(Line!vars)
    <2>1. CASE \/ Push(r) \/ Enter(r) \/ InfraUnchanged(r) \/ StageFails(r)
               \/ Capture(r) \/ Deployed(r) \/ DeployTimesOut(r) \/ RolledBack(r)
        BY <2>1, MovesStutter
    <2>2. CASE BuildImage(r)
        BY <2>2, BuildPublishes DEF Line!Next
    <2>3. CASE VerifyPasses(r)
        BY <2>3, VerifySucceeds DEF Line!Next
    <2>4. CASE InfraDeploy(r) \/ InfraGoesBack(r)
        <3>1. Green' = Green
            BY <2>4, GreenFrame DEF InfraDeploy, InfraGoesBack, Gates, Place, Ended
        <3>2. QED
            BY <2>4, <3>1, Stops DEF InfraDeploy, InfraGoesBack, Line!Next
    <2>5. CASE UpdateService(r)
        <3>1. Green' = Green
            BY <2>5, GreenFrame DEF UpdateService, Place
        <3>2. QED
            BY <2>5, <3>1, Stops DEF UpdateService, Line!Next
    <2>6. CASE VerifyFails(r)
        <3>1. Green' = Green
            BY <2>6, GreenFrame DEF VerifyFails, Place
        <3>2. QED
            BY <2>6, <3>1, Stops DEF VerifyFails, Line!Next
    <2>7. QED
        BY <1>1, <2>1, <2>2, <2>3, <2>4, <2>5, <2>6 DEF Step
<1>2. CASE StartTask
    BY <1>2, StartTries DEF Line!Next
<1>3. CASE TakeOver
    BY <1>3, TakeOverServes DEF Line!Next
<1>4. CASE Replace \/ TaskDies
    <2>1. at' = at /\ UNCHANGED <<latest, top>>
        BY <1>4 DEF Replace, TaskDies
    <2>2. next' \in {next, NoTask} /\ task' \in {task, NoTask}
        BY <1>4 DEF Replace, TaskDies
    <2>3. QED
        BY <2>1, <2>2, Stops DEF Green, Line!Next
<1>5. CASE UNCHANGED vars
    BY <1>5, Stutters DEF vars, Green
<1>6. QED
    BY <1>1, <1>2, <1>3, <1>4, <1>5 DEF Next, Ecs

\* Releases are published, served and turn green in the order of their commits,
\* for any number of runs that overlap, fail, are superseded or roll back.
THEOREM ReleaseLineRefinement == Spec => ImplementsReleaseLine
<1>1. Init => Line!Init
    <2> SUFFICES ASSUME Init PROVE Line!Init
        OBVIOUS
    <2>1. task # NoTask /\ task.img = 0 /\ next = NoTask
        BY TaskAssumption, BoundAssumption, CommitAssumption
           DEF Init, Task, Commit
    <2>2. Image(next) = {} /\ Image(task) = {0}
        BY <2>1 DEF Image
    <2>3. QED
        BY <2>2 DEF Init, Line!Init
<1>2. IInv /\ [Next]_vars => [Line!Next]_(Line!vars)
    BY LineStep DEF IInv
<1>3. QED
    BY Invariance, <1>1, <1>2, PTL DEF Spec, ImplementsReleaseLine, Line!Spec
=============================================================================
