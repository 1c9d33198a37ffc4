--------------------- MODULE VirtualAgentCatalog_proofs ---------------------
(***************************************************************************)
(* Proofs about the virtual agent catalog, for any number of agents,       *)
(* instances and operators and any seed file.                              *)
(***************************************************************************)
EXTENDS VirtualAgentCatalog, FiniteSetTheorems, TLAPS

\* The agents of a catalog can be counted.
LEMMA PresentFinite ==
    ASSUME NEW c
    PROVE  IsFiniteSet(Present(c)) /\ Cardinality(Present(c)) \in Nat
<1>1. Present(c) \subseteq Agent
  BY DEF Present
<1> QED
  BY <1>1, AgentAssumption, FS_Subset, FS_CardinalityType

\* A command, whichever it is, reads the catalog and starts to write another.
LEMMA EditIsCommand ==
    ASSUME agents \in Catalog, NEW o \in Operator, Edit(o)
    PROVE  \E c \in Catalog : Command(o, c)
<1>1. PICK a \in Agent : Add(o, a) \/ Rename(o, a) \/ SetDefault(o, a) \/ Remove(o, a)
  BY DEF Edit
<1>2. WithDefault(agents, a) \in Catalog
  BY DEF WithDefault, Catalog
<1>3. [agents EXCEPT ![a] = "plain"] \in Catalog
  BY DEF Catalog
<1>4. [agents EXCEPT ![a] = "absent"] \in Catalog
  BY DEF Catalog
<1> QED
  BY <1>1, <1>2, <1>3, <1>4 DEF Add, Rename, SetDefault, Remove

\* The steps of the specification, with the commands taken together.
AnyStep ==
    \/ \E w \in Writer : QueryExisting(w) \/ PutMeta(w) \/ Interrupt(w)
    \/ \E w \in Writer, a \in Agent : DeleteAgent(w, a) \/ PutAgent(w, a)
    \/ \E o \in Operator, c \in Catalog : Command(o, c)
    \/ \E s \in Server : EnsureSeeded(s) \/ LoadCatalog(s) \/ ListAgents(s) \/ Stop(s)
    \/ \E s \in Server : \E c \in reads[s] : StoreCatalog(s, c)

LEMMA StepCases ==
    ASSUME agents \in Catalog, Next
    PROVE  AnyStep
<1>1. ASSUME NEW o \in Operator, Edit(o)
      PROVE  AnyStep
  BY <1>1, EditIsCommand DEF AnyStep
<1>2. ASSUME NEW w \in Writer, Write(w) \/ Interrupt(w)
      PROVE  AnyStep
  BY <1>2 DEF AnyStep, Write
<1>3. ASSUME NEW s \in Server, Start(s) \/ Discover(s) \/ Stop(s)
      PROVE  AnyStep
  BY <1>3 DEF AnyStep, Start, Discover
<1> QED
  BY <1>1, <1>2, <1>3 DEF Next

-----------------------------------------------------------------------------

\* Every variable keeps its type.
THEOREM TypeCorrect == Spec => []TypeOK
<1>1. Init => TypeOK
  <2> SUFFICES ASSUME Init PROVE TypeOK
    OBVIOUS
  <2>1. Empty \in Catalog
    BY DEF Empty, Catalog
  <2>2. commands \in 0 .. MaxCommands /\ faults \in 0 .. MaxFaults
    BY BoundAssumption DEF Init
  <2> QED
    BY <2>1, <2>2 DEF Init, TypeOK
<1>2. TypeOK /\ [Next]_vars => TypeOK'
  <2> SUFFICES ASSUME TypeOK, [Next]_vars PROVE TypeOK'
    OBVIOUS
  <2> USE DEF TypeOK, Goto
  <2>0. Empty \in Catalog /\ Seed \in Catalog
    BY SeedAssumption DEF Empty, Catalog
  <2>1. ASSUME NEW w \in Writer, QueryExisting(w) PROVE TypeOK'
    <3>1. Present(agents) \subseteq Agent /\ Present(plan[w]) \subseteq Agent
      BY DEF Present
    <3>2. alone' \in [Writer -> BOOLEAN]
      BY <2>1 DEF QueryExisting
    <3>3. pc' \in [Writer -> {"idle", "down", "query", "write", "list", "up"}]
      BY <2>1 DEF QueryExisting
    <3> QED
      BY <2>1, <3>1, <3>2, <3>3 DEF QueryExisting, tableVars, serverVars
  <2>2. ASSUME NEW w \in Writer, PutMeta(w) PROVE TypeOK'
    BY <2>0, <2>2, PresentFinite DEF PutMeta, serverVars
  <2>3. ASSUME NEW w \in Writer, Interrupt(w) PROVE TypeOK'
    <3>1. faults' \in 0 .. MaxFaults
      BY <2>3, BoundAssumption DEF Interrupt
    <3> QED
      BY <2>0, <2>3, <3>1 DEF Interrupt, tableVars, serverVars, historyVars
  <2>4. ASSUME NEW w \in Writer, NEW a \in Agent, DeleteAgent(w, a) PROVE TypeOK'
    <3>1. agents' \in Catalog
      BY <2>4 DEF DeleteAgent, Catalog
    <3> QED
      BY <2>4, <3>1 DEF DeleteAgent, serverVars, historyVars
  <2>5. ASSUME NEW w \in Writer, NEW a \in Agent, PutAgent(w, a) PROVE TypeOK'
    <3>1. agents' \in Catalog
      BY <2>5 DEF PutAgent, Catalog
    <3> QED
      BY <2>5, <3>1 DEF PutAgent, serverVars, historyVars
  <2>6. ASSUME NEW o \in Operator, NEW c \in Catalog, Command(o, c) PROVE TypeOK'
    <3>1. commands' \in 0 .. MaxCommands
      BY <2>6, BoundAssumption DEF Command
    <3>2. o \in Writer
      BY DEF Writer
    <3> QED
      BY <2>6, <3>1, <3>2 DEF Command, Begin, tableVars, serverVars, historyVars
  <2>7. ASSUME NEW s \in Server,
               EnsureSeeded(s) \/ LoadCatalog(s) \/ ListAgents(s) \/ Stop(s)
        PROVE  TypeOK'
    <3>1. s \in Writer
      BY DEF Writer
    <3>2. CASE EnsureSeeded(s)
      BY <2>0, <3>1, <3>2 DEF EnsureSeeded, Begin, tableVars, serverVars, historyVars
    <3>3. CASE LoadCatalog(s)
      BY <3>1, <3>3 DEF LoadCatalog, tableVars, writeVars, historyVars
    <3>4. CASE ListAgents(s)
      BY <3>4 DEF ListAgents, tableVars, writeVars, historyVars
    <3>5. CASE Stop(s)
      BY <2>0, <3>1, <3>5 DEF Stop, tableVars, writeVars, historyVars
    <3> QED
      BY <2>7, <3>2, <3>3, <3>4, <3>5
  <2>8. ASSUME NEW s \in Server, NEW c \in reads[s], StoreCatalog(s, c) PROVE TypeOK'
    <3>1. c \in Catalog
      OBVIOUS
    <3> QED
      BY <2>8, <3>1 DEF StoreCatalog, tableVars, writeVars, historyVars
  <2>9. CASE UNCHANGED vars
    BY <2>9 DEF vars
  <2> QED
    BY <2>1, <2>2, <2>3, <2>4, <2>5, <2>6, <2>7, <2>8, <2>9, StepCases DEF AnyStep
<1> QED
  BY <1>1, <1>2, PTL DEF Spec

-----------------------------------------------------------------------------

\* Every catalog an instance has read, stored or not, is valid.
ServeInv == ServedIsValid /\ \A s \in Server : \A c \in reads[s] : Valid(c)

LEMMA ServeInvariant == Spec => []ServeInv
<1>1. Init => ServeInv
  BY WriterAssumption DEF Init, ServeInv, ServedIsValid, Writer
<1>2. TypeOK /\ ServeInv /\ [Next]_vars => ServeInv'
  <2> SUFFICES ASSUME TypeOK, ServeInv, [Next]_vars PROVE ServeInv'
    OBVIOUS
  <2> USE DEF ServeInv, ServedIsValid, Goto
  <2>0. /\ pc \in [Writer -> {"idle", "down", "query", "write", "list", "up"}]
        /\ cache \in [Server -> Catalog] /\ reads \in [Server -> SUBSET Catalog]
        /\ Server \subseteq Writer
    BY DEF TypeOK, Writer
  <2>1. ASSUME NEW w \in Writer, QueryExisting(w) \/ PutMeta(w) \/ Interrupt(w)
        PROVE  ServeInv'
    BY <2>0, <2>1 DEF QueryExisting, PutMeta, Interrupt, serverVars
  <2>2. ASSUME NEW w \in Writer, NEW a \in Agent, DeleteAgent(w, a) \/ PutAgent(w, a)
        PROVE  ServeInv'
    BY <2>2 DEF DeleteAgent, PutAgent, serverVars
  <2>3. ASSUME NEW o \in Operator, NEW c \in Catalog, Command(o, c) PROVE ServeInv'
    BY <2>0, <2>3 DEF Command, Begin, serverVars
  <2>4. ASSUME NEW s \in Server, EnsureSeeded(s) PROVE ServeInv'
    BY <2>0, <2>4 DEF EnsureSeeded, Begin, serverVars
  <2>5. ASSUME NEW s \in Server, LoadCatalog(s) PROVE ServeInv'
    <3>1. \A z \in Server : pc'[z] = "up" => Valid(cache'[z])
      BY <2>0, <2>5 DEF LoadCatalog
    <3> QED
      BY <2>5, <3>1 DEF LoadCatalog
  <2>6. ASSUME NEW s \in Server, ListAgents(s) PROVE ServeInv'
    BY <2>0, <2>6 DEF ListAgents
  <2>7. ASSUME NEW s \in Server, Stop(s) PROVE ServeInv'
    BY <2>0, <2>7 DEF Stop
  <2>8. ASSUME NEW s \in Server, NEW c \in reads[s], StoreCatalog(s, c) PROVE ServeInv'
    BY <2>0, <2>8 DEF StoreCatalog
  <2>9. CASE UNCHANGED vars
    BY <2>9 DEF vars
  <2>10. agents \in Catalog
    BY DEF TypeOK
  <2> QED
    BY <2>1, <2>2, <2>3, <2>4, <2>5, <2>6, <2>7, <2>8, <2>9, <2>10, StepCases DEF AnyStep
<1> QED
  BY <1>1, <1>2, TypeCorrect, PTL DEF Spec

\* An instance that serves has a valid catalog (LoadCatalog, refresh_catalog).
THEOREM ServedCatalogs == Spec => []ServedIsValid
<1>1. ServeInv => ServedIsValid
  BY DEF ServeInv
<1> QED
  BY <1>1, ServeInvariant, PTL

-----------------------------------------------------------------------------

\* What a writer has left to do: it writes a valid catalog, and puts nothing
\* before it has deleted everything it found.
WriteInv ==
    \A w \in Writer :
        /\ pc[w] \in {"query", "write"} => Valid(plan[w])
        /\ Writing(w) => /\ puts[w] \subseteq Present(plan[w])
                         /\ dels[w] # {} => puts[w] = Present(plan[w])

LEMMA WriteInvariant == Spec => []WriteInv
<1>1. Init => WriteInv
  BY DEF Init, WriteInv, Writing
<1>2. TypeOK /\ WriteInv /\ [Next]_vars => WriteInv'
  <2> SUFFICES ASSUME TypeOK, WriteInv, [Next]_vars PROVE WriteInv'
    OBVIOUS
  <2> USE DEF WriteInv, Writing, Goto
  <2>0. /\ pc \in [Writer -> {"idle", "down", "query", "write", "list", "up"}]
        /\ plan \in [Writer -> Catalog]
        /\ dels \in [Writer -> SUBSET Agent] /\ puts \in [Writer -> SUBSET Agent]
        /\ Server \subseteq Writer /\ Operator \subseteq Writer
    BY DEF TypeOK, Writer
  <2>1. ASSUME NEW w \in Writer, QueryExisting(w) PROVE WriteInv'
    BY <2>0, <2>1 DEF QueryExisting
  <2>2. ASSUME NEW w \in Writer, PutMeta(w) PROVE WriteInv'
    BY <2>0, <2>2 DEF PutMeta
  <2>3. ASSUME NEW w \in Writer, Interrupt(w) PROVE WriteInv'
    BY <2>0, <2>3 DEF Interrupt
  <2>4. ASSUME NEW w \in Writer, NEW a \in Agent, DeleteAgent(w, a) PROVE WriteInv'
    BY <2>0, <2>4 DEF DeleteAgent
  <2>5. ASSUME NEW w \in Writer, NEW a \in Agent, PutAgent(w, a) PROVE WriteInv'
    BY <2>0, <2>5 DEF PutAgent
  <2>6. ASSUME NEW o \in Operator, NEW c \in Catalog, Command(o, c) PROVE WriteInv'
    BY <2>0, <2>6 DEF Command, Begin
  <2>7. ASSUME NEW s \in Server,
               EnsureSeeded(s) \/ LoadCatalog(s) \/ ListAgents(s) \/ Stop(s)
        PROVE  WriteInv'
    <3>1. CASE EnsureSeeded(s)
      BY <2>0, <3>1 DEF EnsureSeeded, Begin
    <3>2. CASE LoadCatalog(s)
      BY <2>0, <3>2 DEF LoadCatalog, writeVars
    <3>3. CASE ListAgents(s) \/ Stop(s)
      BY <2>0, <3>3 DEF ListAgents, Stop, writeVars
    <3> QED
      BY <2>7, <3>1, <3>2, <3>3
  <2>8. ASSUME NEW s \in Server, NEW c \in reads[s], StoreCatalog(s, c) PROVE WriteInv'
    BY <2>8 DEF StoreCatalog, writeVars
  <2>9. CASE UNCHANGED vars
    BY <2>9 DEF vars
  <2>10. agents \in Catalog
    BY DEF TypeOK
  <2> QED
    BY <2>1, <2>2, <2>3, <2>4, <2>5, <2>6, <2>7, <2>8, <2>9, <2>10, StepCases DEF AnyStep
<1> QED
  BY <1>1, <1>2, TypeCorrect, PTL DEF Spec

-----------------------------------------------------------------------------

\* What the table holds of item a while w alone is writing: items it has yet
\* to delete apart, exactly the entries it has put.
Written(w, a) ==
    \/ a \in dels[w]
    \/ agents[a] = IF a \in Present(plan[w]) \ puts[w] THEN plan[w][a] ELSE "absent"

Exclusive == \A v, w \in Writer : Writing(v) /\ Writing(w) /\ alone[w] => v = w
SettledRests == settled => \A w \in Writer : ~Writing(w)
SoloProgress == \A w \in Writer : Writing(w) /\ alone[w] => \A a \in Agent : Written(w, a)

SettledInv == Exclusive /\ SettledRests /\ SoloProgress /\ SettledIsExact

\* While nobody writes, nothing SettledInv depends on changes.
LEMMA SettledFrame ==
    ASSUME TypeOK, SettledInv, UNCHANGED <<tableVars, settled>>,
           \A w \in Writer : Writing(w)' =>
                Writing(w) /\ UNCHANGED <<alone[w], plan[w], dels[w], puts[w]>>
    PROVE  SettledInv'
<1>1. Exclusive' /\ SettledRests' /\ SettledIsExact'
  BY DEF SettledInv, Exclusive, SettledRests, SettledIsExact, tableVars, Valid,
         Present, Defaults, Empty
<1>2. SoloProgress'
  BY DEF SettledInv, SoloProgress, Written, tableVars, Present
<1> QED
  BY <1>1, <1>2 DEF SettledInv

\* A writer that has been alone and has nothing left to do has written its plan.
LEMMA SoloDone ==
    ASSUME TypeOK, SettledInv, NEW w \in Writer, PutMeta(w), alone[w]
    PROVE  agents = plan[w]
<1>1. agents \in Catalog /\ plan[w] \in Catalog
  BY DEF TypeOK
<1>2. ASSUME NEW a \in Agent PROVE agents[a] = plan[w][a]
  <2>1. Written(w, a)
    BY DEF SettledInv, SoloProgress, PutMeta
  <2> QED
    BY <1>1, <2>1 DEF Written, PutMeta, Present
<1> QED
  BY <1>1, <1>2 DEF Catalog

LEMMA SettledInvariant == Spec => []SettledInv
<1>1. Init => SettledInv
  BY WriterAssumption
  DEF Init, SettledInv, Exclusive, SettledRests, SoloProgress, SettledIsExact, Writing, Writer
<1>2. TypeOK /\ WriteInv /\ SettledInv /\ [Next]_vars => SettledInv'
  <2> SUFFICES ASSUME TypeOK, WriteInv, SettledInv, [Next]_vars PROVE SettledInv'
    OBVIOUS
  <2>0. /\ pc \in [Writer -> {"idle", "down", "query", "write", "list", "up"}]
        /\ agents \in Catalog /\ plan \in [Writer -> Catalog]
        /\ dels \in [Writer -> SUBSET Agent] /\ puts \in [Writer -> SUBSET Agent]
        /\ alone \in [Writer -> BOOLEAN] /\ settled \in BOOLEAN
        /\ Server \subseteq Writer /\ Operator \subseteq Writer
    BY DEF TypeOK, Writer
  <2>1. ASSUME NEW w \in Writer, QueryExisting(w) PROVE SettledInv'
    <3>1. Exclusive'
      BY <2>0, <2>1 DEF SettledInv, Exclusive, QueryExisting, Writing, Goto
    <3>2. SettledRests' /\ SettledIsExact'
      BY <2>1 DEF QueryExisting, SettledRests, SettledIsExact
    <3>3. ASSUME NEW v \in Writer, Writing(v)', alone'[v] PROVE v = w
      BY <2>0, <2>1, <3>3 DEF QueryExisting, Writing, Goto
    <3>4. ASSUME NEW a \in Agent PROVE Written(w, a)'
      BY <2>0, <2>1 DEF Written, QueryExisting, Present, Catalog, tableVars
    <3> QED
      BY <3>1, <3>2, <3>3, <3>4 DEF SettledInv, SoloProgress
  <2>2. ASSUME NEW w \in Writer, PutMeta(w) PROVE SettledInv'
    <3>1. Exclusive' /\ SettledRests'
      BY <2>0, <2>2 DEF SettledInv, Exclusive, SettledRests, PutMeta, Writing, Goto
    <3>2. SoloProgress'
      <4> SUFFICES ASSUME NEW v \in Writer, Writing(v)', alone'[v], NEW a \in Agent
                   PROVE  Written(v, a)'
        BY DEF SoloProgress
      <4>1. v # w /\ Writing(v) /\ alone[v]
        BY <2>0, <2>2 DEF PutMeta, Writing, Goto
      <4>2. Written(v, a)
        BY <4>1 DEF SettledInv, SoloProgress
      <4>3. UNCHANGED <<agents, dels, puts>> /\ plan'[v] = plan[v]
        BY <2>0, <2>2, <4>1 DEF PutMeta
      <4> QED
        BY <4>2, <4>3 DEF Written, Present
    <3>3. SettledIsExact'
      <4> SUFFICES ASSUME alone[w]
                   PROVE  Valid(agents) /\ meta' = Cardinality(Present(agents))
        BY <2>0, <2>2 DEF SettledIsExact, PutMeta, Valid, Present, Defaults, Empty
      <4>1. agents = plan[w]
        BY <2>2, SoloDone
      <4>2. Valid(plan[w])
        BY <2>2 DEF PutMeta, WriteInv, Writing
      <4> QED
        BY <2>2, <4>1, <4>2 DEF PutMeta
    <3> QED
      BY <3>1, <3>2, <3>3 DEF SettledInv
  <2>3. ASSUME NEW w \in Writer, Interrupt(w) PROVE SettledInv'
    <3>1. UNCHANGED <<tableVars, settled>>
      BY <2>3 DEF Interrupt, historyVars
    <3>2. ASSUME NEW v \in Writer, Writing(v)'
          PROVE  Writing(v) /\ UNCHANGED <<alone[v], plan[v], dels[v], puts[v]>>
      BY <2>0, <2>3, <3>2 DEF Interrupt, historyVars, Writing, Goto
    <3> QED
      BY <3>1, <3>2, SettledFrame
  <2>4. ASSUME NEW w \in Writer, NEW a \in Agent, DeleteAgent(w, a) \/ PutAgent(w, a)
        PROVE  SettledInv'
    <3>1. Writing(w) /\ UNCHANGED <<pc, alone, settled, plan, meta>>
      BY <2>4 DEF DeleteAgent, PutAgent, historyVars
    <3>2. Exclusive' /\ SettledRests' /\ SettledIsExact'
      BY <3>1 DEF SettledInv, Exclusive, SettledRests, SettledIsExact, Writing
    <3>3. ASSUME NEW v \in Writer, Writing(v)', alone'[v], NEW b \in Agent
          PROVE  Written(v, b)'
      <4>1. v = w
        BY <3>1, <3>3 DEF SettledInv, Exclusive, Writing
      <4>2. Written(w, b)
        BY <3>1, <3>3, <4>1 DEF SettledInv, SoloProgress, Writing
      <4>3. CASE DeleteAgent(w, a)
        <5>1. puts[w] = Present(plan[w])
          BY <4>3 DEF DeleteAgent, WriteInv
        <5> QED
          BY <2>0, <4>1, <4>2, <4>3, <5>1 DEF DeleteAgent, Written, Catalog, Present
      <4>4. CASE PutAgent(w, a)
        <5>1. a \in Present(plan[w])
          BY <4>4 DEF PutAgent, WriteInv
        <5> QED
          BY <2>0, <4>1, <4>2, <4>4, <5>1 DEF PutAgent, Written, Catalog, Present
      <4> QED
        BY <2>4, <4>3, <4>4
    <3> QED
      BY <3>2, <3>3 DEF SettledInv, SoloProgress
  <2>5. ASSUME NEW o \in Operator, NEW c \in Catalog, Command(o, c) PROVE SettledInv'
    <3>1. UNCHANGED <<tableVars, settled>>
      BY <2>5 DEF Command, historyVars
    <3>2. ASSUME NEW v \in Writer, Writing(v)'
          PROVE  Writing(v) /\ UNCHANGED <<alone[v], plan[v], dels[v], puts[v]>>
      BY <2>0, <2>5, <3>2 DEF Command, Begin, historyVars, Writing, Goto
    <3> QED
      BY <3>1, <3>2, SettledFrame
  <2>6. ASSUME NEW s \in Server,
               EnsureSeeded(s) \/ LoadCatalog(s) \/ ListAgents(s) \/ Stop(s)
        PROVE  SettledInv'
    <3>1. UNCHANGED <<tableVars, settled>>
      BY <2>6 DEF EnsureSeeded, LoadCatalog, ListAgents, Stop, historyVars
    <3>2. ASSUME NEW v \in Writer, Writing(v)'
          PROVE  Writing(v) /\ UNCHANGED <<alone[v], plan[v], dels[v], puts[v]>>
      <4>1. CASE EnsureSeeded(s)
        BY <2>0, <4>1, <3>2 DEF EnsureSeeded, Begin, historyVars, Writing, Goto
      <4>2. CASE LoadCatalog(s) \/ ListAgents(s) \/ Stop(s)
        BY <2>0, <4>2, <3>2 DEF LoadCatalog, ListAgents, Stop, writeVars, historyVars, Writing, Goto
      <4> QED
        BY <2>6, <4>1, <4>2
    <3> QED
      BY <3>1, <3>2, SettledFrame
  <2>7. ASSUME NEW s \in Server, NEW c \in reads[s], StoreCatalog(s, c) PROVE SettledInv'
    BY <2>7, SettledFrame DEF StoreCatalog, writeVars, historyVars, Writing
  <2>8. CASE UNCHANGED vars
    BY <2>8, SettledFrame DEF vars, tableVars, Writing
  <2> QED
    BY <2>0, <2>1, <2>2, <2>3, <2>4, <2>5, <2>6, <2>7, <2>8, StepCases DEF AnyStep
<1> QED
  BY <1>1, <1>2, TypeCorrect, WriteInvariant, PTL DEF Spec

\* A write alone leaves what it set out to write, counted (_write_entries).
THEOREM SettledExact == Spec => []SettledIsExact
<1>1. SettledInv => SettledIsExact
  BY DEF SettledInv
<1> QED
  BY <1>1, SettledInvariant, PTL

-----------------------------------------------------------------------------

\* A writer that has put nothing yet, so that what it writes is still to come.
AllToPut == \E w \in Writer : Writing(w) /\ puts[w] = Present(plan[w])
Untouched == meta = 0 /\ \A w \in Writer : ~Writing(w)

EmptyInv == faults = 0 => agents # Empty \/ AllToPut \/ Untouched

\* A step that writes no item and begins, ends and cuts no write.
LEMMA EmptyFrame ==
    ASSUME EmptyInv, UNCHANGED <<agents, meta, faults, puts>>,
           \A w \in Writer : (Writing(w)' <=> Writing(w)) /\ (Writing(w) => plan'[w] = plan[w])
    PROVE  EmptyInv'
BY DEF EmptyInv, AllToPut, Untouched, Present, Empty

\* Overlapping writes that all finish never leave the catalog empty
\* (_write_entries, which deletes every item before it puts any).
THEOREM NotLeftEmpty == Spec => []NeverLeftEmpty
<1>1. Init => EmptyInv
  BY WriterAssumption DEF Init, EmptyInv, Untouched, Writing, Writer
<1>2. TypeOK /\ WriteInv /\ EmptyInv /\ [Next]_vars => EmptyInv'
  <2> SUFFICES ASSUME TypeOK, WriteInv, EmptyInv, [Next]_vars PROVE EmptyInv'
    OBVIOUS
  <2>0. /\ pc \in [Writer -> {"idle", "down", "query", "write", "list", "up"}]
        /\ agents \in Catalog /\ plan \in [Writer -> Catalog] /\ faults \in Nat
        /\ dels \in [Writer -> SUBSET Agent] /\ puts \in [Writer -> SUBSET Agent]
        /\ Server \subseteq Writer /\ Operator \subseteq Writer
    BY BoundAssumption DEF TypeOK, Writer
  <2>1. ASSUME NEW w \in Writer, QueryExisting(w) PROVE EmptyInv'
    <3>1. Writing(w)' /\ puts'[w] = Present(plan[w]) /\ plan' = plan
      BY <2>0, <2>1 DEF QueryExisting, Writing, Goto
    <3> QED
      BY <3>1 DEF EmptyInv, AllToPut, Present
  <2>2. ASSUME NEW w \in Writer, PutMeta(w) PROVE EmptyInv'
    <3>1. puts[w] = {} /\ Present(plan[w]) # {} /\ Writing(w)
      BY <2>2 DEF PutMeta, WriteInv, Valid, Writing
    <3>2. ASSUME NEW v \in Writer, Writing(v), puts[v] = Present(plan[v]) PROVE AllToPut'
      <4>1. v # w
        BY <3>1, <3>2
      <4>2. Writing(v)' /\ plan'[v] = plan[v] /\ puts' = puts
        BY <2>0, <2>2, <3>2, <4>1 DEF PutMeta, Writing, Goto
      <4> QED
        BY <3>2, <4>2 DEF AllToPut, Present
    <3>3. faults' = faults /\ agents' = agents
      BY <2>2 DEF PutMeta
    <3> QED
      BY <3>1, <3>2, <3>3 DEF EmptyInv, AllToPut, Untouched, Empty
  <2>3. ASSUME NEW w \in Writer, Interrupt(w) PROVE EmptyInv'
    BY <2>0, <2>3 DEF Interrupt, EmptyInv
  <2>4. ASSUME NEW w \in Writer, NEW a \in Agent, DeleteAgent(w, a) PROVE EmptyInv'
    <3>1. Writing(w)' /\ puts' = puts /\ plan' = plan
      BY <2>4 DEF DeleteAgent, Writing
    <3>2. puts[w] = Present(plan[w])
      BY <2>4 DEF DeleteAgent, WriteInv
    <3> QED
      BY <3>1, <3>2 DEF EmptyInv, AllToPut, Present
  <2>5. ASSUME NEW w \in Writer, NEW a \in Agent, PutAgent(w, a) PROVE EmptyInv'
    <3>1. a \in Present(plan[w])
      BY <2>5 DEF PutAgent, WriteInv
    <3>2. agents'[a] # "absent"
      BY <2>0, <2>5, <3>1 DEF PutAgent, Present, Catalog
    <3> QED
      BY <3>2 DEF EmptyInv, Empty
  <2>6. ASSUME NEW o \in Operator, NEW c \in Catalog, Command(o, c) PROVE EmptyInv'
    <3>1. UNCHANGED <<agents, meta, faults, puts>>
      BY <2>6 DEF Command, tableVars
    <3>2. ASSUME NEW v \in Writer
          PROVE  (Writing(v)' <=> Writing(v)) /\ (Writing(v) => plan'[v] = plan[v])
      BY <2>0, <2>6 DEF Command, Begin, Writing, Goto
    <3> QED
      BY <3>1, <3>2, EmptyFrame
  <2>7. ASSUME NEW s \in Server,
               EnsureSeeded(s) \/ LoadCatalog(s) \/ ListAgents(s) \/ Stop(s)
        PROVE  EmptyInv'
    <3>1. UNCHANGED <<agents, meta, faults, puts>>
      BY <2>7 DEF EnsureSeeded, LoadCatalog, ListAgents, Stop, tableVars, writeVars
    <3>2. ASSUME NEW v \in Writer
          PROVE  (Writing(v)' <=> Writing(v)) /\ (Writing(v) => plan'[v] = plan[v])
      <4>1. CASE EnsureSeeded(s)
        BY <2>0, <4>1 DEF EnsureSeeded, Begin, Writing, Goto
      <4>2. CASE LoadCatalog(s) \/ ListAgents(s) \/ Stop(s)
        BY <2>0, <4>2 DEF LoadCatalog, ListAgents, Stop, writeVars, Writing, Goto
      <4> QED
        BY <2>7, <4>1, <4>2
    <3> QED
      BY <3>1, <3>2, EmptyFrame
  <2>8. ASSUME NEW s \in Server, NEW c \in reads[s], StoreCatalog(s, c) PROVE EmptyInv'
    BY <2>8, EmptyFrame DEF StoreCatalog, tableVars, writeVars, Writing
  <2>9. CASE UNCHANGED vars
    BY <2>9, EmptyFrame DEF vars, Writing
  <2> QED
    BY <2>0, <2>1, <2>2, <2>3, <2>4, <2>5, <2>6, <2>7, <2>8, <2>9, StepCases DEF AnyStep
<1>3. EmptyInv => NeverLeftEmpty
  BY DEF EmptyInv, NeverLeftEmpty, Quiet, AllToPut, Untouched, Writing
<1> QED
  BY <1>1, <1>2, <1>3, TypeCorrect, WriteInvariant, PTL DEF Spec

-----------------------------------------------------------------------------

\* An agent as the seed has it, or one that some seeding has still to put.
Seeded(a) == agents[a] = Seed[a] \/ \E w \in Writer : Writing(w) /\ a \in puts[w]

OnlySeeding == \A w \in Writer : pc[w] \in {"query", "write"} => plan[w] = Seed
NothingElse == \A a \in Agent : Seed[a] = "absent" => agents[a] = "absent"

SeedInv ==
    commands = 0 =>
        /\ OnlySeeding
        /\ NothingElse
        /\ faults = 0 => Untouched \/ \A a \in Agent : Seeded(a)

\* A step that writes no item and begins, ends and cuts no write.
LEMMA SeedFrame ==
    ASSUME SeedInv, UNCHANGED <<agents, meta, faults, commands, puts>>,
           \A w \in Writer :
                /\ Writing(w)' <=> Writing(w)
                /\ pc'[w] \in {"query", "write"} =>
                      \/ plan'[w] = Seed
                      \/ pc[w] \in {"query", "write"} /\ plan'[w] = plan[w]
    PROVE  SeedInv'
BY DEF SeedInv, OnlySeeding, NothingElse, Seeded, Untouched

\* Instances that seed together, all of them to the end, leave exactly the seed
\* catalog (ensure_seeded).
THEOREM SeedingAgrees == Spec => []SeedersAgree
<1>1. Init => SeedInv
  BY WriterAssumption
  DEF Init, SeedInv, OnlySeeding, NothingElse, Untouched, Writing, Writer, Empty
<1>2. TypeOK /\ WriteInv /\ SeedInv /\ [Next]_vars => SeedInv'
  <2> SUFFICES ASSUME TypeOK, WriteInv, SeedInv, [Next]_vars PROVE SeedInv'
    OBVIOUS
  <2>0. /\ pc \in [Writer -> {"idle", "down", "query", "write", "list", "up"}]
        /\ agents \in Catalog /\ plan \in [Writer -> Catalog] /\ Seed \in Catalog
        /\ faults \in Nat /\ commands \in Nat
        /\ dels \in [Writer -> SUBSET Agent] /\ puts \in [Writer -> SUBSET Agent]
        /\ Server \subseteq Writer /\ Operator \subseteq Writer
    BY BoundAssumption, SeedAssumption DEF TypeOK, Writer
  <2>1. ASSUME NEW w \in Writer, QueryExisting(w) PROVE SeedInv'
    <3> SUFFICES ASSUME commands = 0
                 PROVE  /\ OnlySeeding' /\ NothingElse'
                        /\ faults = 0 => \A a \in Agent : Seeded(a)'
      BY <2>1 DEF SeedInv, QueryExisting
    <3>1. OnlySeeding' /\ NothingElse'
      BY <2>0, <2>1 DEF SeedInv, OnlySeeding, NothingElse, QueryExisting, tableVars, Goto
    <3>2. Writing(w)' /\ puts'[w] = Present(Seed)
      BY <2>0, <2>1 DEF SeedInv, OnlySeeding, QueryExisting, Writing, Goto
    <3>3. ASSUME NEW a \in Agent PROVE Seeded(a)'
      <4>1. CASE Seed[a] = "absent"
        BY <2>1, <4>1 DEF SeedInv, NothingElse, Seeded, QueryExisting, tableVars
      <4>2. CASE Seed[a] # "absent"
        BY <3>2, <4>2 DEF Seeded, Present
      <4> QED
        BY <4>1, <4>2
    <3> QED
      BY <3>1, <3>3
  <2>2. ASSUME NEW w \in Writer, PutMeta(w) PROVE SeedInv'
    <3> SUFFICES ASSUME commands = 0
                 PROVE  /\ OnlySeeding' /\ NothingElse'
                        /\ faults = 0 => \A a \in Agent : Seeded(a)'
      BY <2>2 DEF SeedInv, PutMeta
    <3>1. OnlySeeding' /\ NothingElse'
      BY <2>0, <2>2 DEF SeedInv, OnlySeeding, NothingElse, PutMeta, Goto
    <3>2. ASSUME faults = 0, NEW a \in Agent PROVE Seeded(a)'
      <4>1. Seeded(a)
        BY <2>2, <3>2 DEF SeedInv, Untouched, PutMeta
      <4>2. ASSUME NEW v \in Writer, Writing(v), a \in puts[v]
            PROVE  Writing(v)' /\ a \in puts'[v]
        BY <2>0, <2>2, <4>2 DEF PutMeta, Writing, Goto
      <4> QED
        BY <2>2, <4>1, <4>2 DEF Seeded, PutMeta
    <3> QED
      BY <3>1, <3>2
  <2>3. ASSUME NEW w \in Writer, Interrupt(w) PROVE SeedInv'
    <3>1. faults' # 0 /\ UNCHANGED <<agents, commands>>
      BY <2>0, <2>3 DEF Interrupt, tableVars
    <3>2. commands = 0 => OnlySeeding'
      BY <2>0, <2>3 DEF SeedInv, OnlySeeding, Interrupt, Goto
    <3> QED
      BY <3>1, <3>2 DEF SeedInv, NothingElse
  <2>4. ASSUME NEW w \in Writer, NEW a \in Agent, DeleteAgent(w, a) PROVE SeedInv'
    <3> SUFFICES ASSUME commands = 0
                 PROVE  /\ OnlySeeding' /\ NothingElse'
                        /\ faults = 0 => \A b \in Agent : Seeded(b)'
      BY <2>4 DEF SeedInv, DeleteAgent
    <3>1. OnlySeeding' /\ NothingElse'
      BY <2>0, <2>4 DEF SeedInv, OnlySeeding, NothingElse, DeleteAgent, Catalog
    <3>2. puts[w] = Present(Seed) /\ Writing(w)' /\ puts' = puts
      BY <2>4 DEF DeleteAgent, WriteInv, SeedInv, OnlySeeding, Writing
    <3>3. ASSUME faults = 0, NEW b \in Agent PROVE Seeded(b)'
      <4>1. CASE b \in puts[w]
        BY <3>2, <4>1 DEF Seeded
      <4>2. CASE b \notin puts[w]
        BY <3>1, <3>2, <4>2 DEF Seeded, NothingElse, Present
      <4> QED
        BY <4>1, <4>2
    <3> QED
      BY <3>1, <3>3
  <2>5. ASSUME NEW w \in Writer, NEW a \in Agent, PutAgent(w, a) PROVE SeedInv'
    <3> SUFFICES ASSUME commands = 0
                 PROVE  /\ OnlySeeding' /\ NothingElse'
                        /\ faults = 0 => \A b \in Agent : Seeded(b)'
      BY <2>5 DEF SeedInv, PutAgent
    <3>1. plan[w] = Seed /\ OnlySeeding'
      BY <2>5 DEF PutAgent, SeedInv, OnlySeeding, Writing
    <3>2. agents' = [agents EXCEPT ![a] = Seed[a]]
      BY <2>5, <3>1 DEF PutAgent
    <3>3. NothingElse'
      BY <2>0, <3>2 DEF SeedInv, NothingElse, Catalog
    <3>4. ASSUME faults = 0, NEW b \in Agent PROVE Seeded(b)'
      <4>1. CASE b = a
        BY <2>0, <3>2, <4>1 DEF Seeded, Catalog
      <4>2. CASE b # a
        <5>1. Seeded(b)
          BY <2>5, <3>4 DEF SeedInv, Untouched, PutAgent
        <5>2. agents'[b] = agents[b]
          BY <2>0, <3>2, <4>2 DEF Catalog
        <5>3. ASSUME NEW v \in Writer, Writing(v), b \in puts[v]
              PROVE  Writing(v)' /\ b \in puts'[v]
          BY <2>0, <2>5, <4>2, <5>3 DEF PutAgent, Writing
        <5> QED
          BY <5>1, <5>2, <5>3 DEF Seeded
      <4> QED
        BY <4>1, <4>2
    <3> QED
      BY <3>1, <3>3, <3>4
  <2>6. ASSUME NEW o \in Operator, NEW c \in Catalog, Command(o, c) PROVE SeedInv'
    BY <2>0, <2>6 DEF Command, SeedInv
  <2>7. ASSUME NEW s \in Server,
               EnsureSeeded(s) \/ LoadCatalog(s) \/ ListAgents(s) \/ Stop(s)
        PROVE  SeedInv'
    <3>1. UNCHANGED <<agents, meta, faults, commands, puts>>
      BY <2>7 DEF EnsureSeeded, LoadCatalog, ListAgents, Stop, tableVars, writeVars
    <3>2. ASSUME NEW v \in Writer
          PROVE  /\ Writing(v)' <=> Writing(v)
                 /\ pc'[v] \in {"query", "write"} =>
                      \/ plan'[v] = Seed
                      \/ pc[v] \in {"query", "write"} /\ plan'[v] = plan[v]
      <4>1. CASE EnsureSeeded(s)
        BY <2>0, <4>1 DEF EnsureSeeded, Begin, Writing, Goto
      <4>2. CASE LoadCatalog(s) \/ ListAgents(s) \/ Stop(s)
        BY <2>0, <4>2 DEF LoadCatalog, ListAgents, Stop, writeVars, Writing, Goto
      <4> QED
        BY <2>7, <4>1, <4>2
    <3> QED
      BY <3>1, <3>2, SeedFrame
  <2>8. ASSUME NEW s \in Server, NEW c \in reads[s], StoreCatalog(s, c) PROVE SeedInv'
    BY <2>8, SeedFrame DEF StoreCatalog, tableVars, writeVars, Writing
  <2>9. CASE UNCHANGED vars
    BY <2>9, SeedFrame DEF vars, Writing
  <2> QED
    BY <2>0, <2>1, <2>2, <2>3, <2>4, <2>5, <2>6, <2>7, <2>8, <2>9, StepCases DEF AnyStep
<1>3. TypeOK /\ SeedInv => SeedersAgree
  <2> SUFFICES ASSUME TypeOK, SeedInv, Quiet, faults = 0, commands = 0, meta # 0
               PROVE  agents = Seed
    BY DEF SeedersAgree
  <2>1. \A a \in Agent : agents[a] = Seed[a]
    BY DEF SeedInv, Untouched, Seeded, Quiet, Writing
  <2> QED
    BY <2>1, SeedAssumption DEF TypeOK, Catalog
<1> QED
  BY <1>1, <1>2, <1>3, TypeCorrect, WriteInvariant, PTL DEF Spec

-----------------------------------------------------------------------------

\* A catalog emptied by a cut write stays empty and marked as seeded: no start
\* seeds it (ensure_seeded) and no command gets past its read (list_agents).
THEOREM WedgeIsFinal == Spec => WedgedStays
<1>1. TypeOK /\ [Next]_vars => (Wedged => Wedged')
  <2> SUFFICES ASSUME TypeOK, Wedged, [Next]_vars PROVE Wedged'
    OBVIOUS
  <2> USE DEF Wedged, Quiet, Goto
  <2>0. /\ pc \in [Writer -> {"idle", "down", "query", "write", "list", "up"}]
        /\ Server \subseteq Writer /\ Operator \subseteq Writer
        /\ ~Valid(agents)
    BY DEF TypeOK, Writer, Valid, Present, Empty
  <2>1. ASSUME NEW w \in Writer, QueryExisting(w) \/ PutMeta(w) \/ Interrupt(w)
        PROVE  Wedged'
    BY <2>0, <2>1 DEF QueryExisting, PutMeta, Interrupt, Writing, tableVars
  <2>2. ASSUME NEW w \in Writer, NEW a \in Agent, DeleteAgent(w, a) \/ PutAgent(w, a)
        PROVE  Wedged'
    BY <2>2 DEF DeleteAgent, PutAgent, Writing
  <2>3. ASSUME NEW o \in Operator, NEW c \in Catalog, Command(o, c) PROVE Wedged'
    BY <2>0, <2>3 DEF Command
  <2>4. ASSUME NEW s \in Server, EnsureSeeded(s) \/ LoadCatalog(s) PROVE Wedged'
    BY <2>0, <2>4 DEF EnsureSeeded, LoadCatalog, tableVars
  <2>5. ASSUME NEW s \in Server, ListAgents(s) \/ Stop(s) PROVE Wedged'
    BY <2>0, <2>5 DEF ListAgents, Stop, tableVars
  <2>6. ASSUME NEW s \in Server, NEW c \in reads[s], StoreCatalog(s, c) PROVE Wedged'
    BY <2>6 DEF StoreCatalog, tableVars
  <2>7. CASE UNCHANGED vars
    BY <2>7 DEF vars
  <2> QED
    BY <2>1, <2>2, <2>3, <2>4, <2>5, <2>6, <2>7, StepCases DEF AnyStep, TypeOK
<1> QED
  BY <1>1, TypeCorrect, PTL DEF Spec, WedgedStays

-----------------------------------------------------------------------------
(* The catalog register.  A rewrite is some deletes, puts and a META item;  *)
(* from outside it is one write, or none.                                   *)

\* Who is not serving shows nothing, and who is not writing means nothing.
RestInv ==
    /\ \A s \in Server : pc[s] # "up" => cache[s] = Empty /\ reads[s] = {}
    /\ \A w \in Writer : pc[w] \notin {"query", "write"} => plan[w] = Empty

LEMMA RestInvariant == Spec => []RestInv
<1>1. Init => RestInv
  BY WriterAssumption DEF Init, RestInv, Writer
<1>2. TypeOK /\ RestInv /\ [Next]_vars => RestInv'
  <2> SUFFICES ASSUME TypeOK, RestInv, [Next]_vars PROVE RestInv'
    OBVIOUS
  <2> USE DEF RestInv, Goto
  <2>0. /\ pc \in [Writer -> {"idle", "down", "query", "write", "list", "up"}]
        /\ plan \in [Writer -> Catalog] /\ cache \in [Server -> Catalog]
        /\ reads \in [Server -> SUBSET Catalog]
        /\ Server \subseteq Writer /\ Operator \subseteq Writer
        /\ agents \in Catalog
    BY DEF TypeOK, Writer
  <2>1. ASSUME NEW w \in Writer, QueryExisting(w) \/ PutMeta(w) \/ Interrupt(w)
        PROVE  RestInv'
    BY <2>0, <2>1 DEF QueryExisting, PutMeta, Interrupt, serverVars, Writing
  <2>2. ASSUME NEW w \in Writer, NEW a \in Agent, DeleteAgent(w, a) \/ PutAgent(w, a)
        PROVE  RestInv'
    BY <2>2 DEF DeleteAgent, PutAgent, serverVars
  <2>3. ASSUME NEW o \in Operator, NEW c \in Catalog, Command(o, c) PROVE RestInv'
    BY <2>0, <2>3 DEF Command, Begin, serverVars
  <2>4. ASSUME NEW s \in Server, EnsureSeeded(s) PROVE RestInv'
    BY <2>0, <2>4 DEF EnsureSeeded, Begin, serverVars
  <2>5. ASSUME NEW s \in Server, LoadCatalog(s) \/ ListAgents(s) \/ Stop(s)
        PROVE  RestInv'
    BY <2>0, <2>5 DEF LoadCatalog, ListAgents, Stop, writeVars
  <2>6. ASSUME NEW s \in Server, NEW c \in reads[s], StoreCatalog(s, c) PROVE RestInv'
    BY <2>0, <2>6 DEF StoreCatalog, writeVars
  <2>7. CASE UNCHANGED vars
    BY <2>7 DEF vars
  <2> QED
    BY <2>0, <2>1, <2>2, <2>3, <2>4, <2>5, <2>6, <2>7, StepCases DEF AnyStep
<1> QED
  BY <1>1, <1>2, TypeCorrect, PTL DEF Spec

\* The register's variables, as the mapping gives them.
Values == {c \in Catalog : Valid(c)}
Content == IF settled THEN agents ELSE Empty
Planned == {w \in Writer : pc[w] = "query"}
Begun == {w \in Writer : Writing(w)}
Solo == {w \in Writer : Writing(w) /\ alone[w]}

\* A command writes the catalog it read with at most one agent more or less.
LEMMA EditIsNear ==
    ASSUME agents \in Catalog, NEW o \in Operator, Edit(o)
    PROVE  \E c \in Catalog : Command(o, c) /\ Register!Near(agents, c)
<1>1. PICK a \in Agent : Add(o, a) \/ Rename(o, a) \/ SetDefault(o, a) \/ Remove(o, a)
  BY DEF Edit
<1>2. ASSUME NEW c \in Catalog,
             \A b \in Agent \ {a} : (agents[b] = "absent") = (c[b] = "absent")
      PROVE  Register!Near(agents, c)
  BY <1>2 DEF Register!Near
<1>3. ASSUME NEW v \in {"plain", "absent"}
      PROVE  /\ [agents EXCEPT ![a] = v] \in Catalog
             /\ Register!Near(agents, [agents EXCEPT ![a] = v])
  <2> DEFINE c == [agents EXCEPT ![a] = v]
  <2>1. c \in Catalog
    BY DEF Catalog
  <2>2. \A b \in Agent \ {a} : c[b] = agents[b]
    BY DEF Catalog
  <2> HIDE DEF c
  <2>3. Register!Near(agents, c)
    BY <1>2, <2>1, <2>2
  <2> QED
    BY <2>1, <2>3 DEF c
<1>4. WithDefault(agents, a) \in Catalog /\ Register!Near(agents, WithDefault(agents, a))
  <2>1. WithDefault(agents, a) \in Catalog
    BY DEF WithDefault, Catalog
  <2>2. \A b \in Agent \ {a} :
            (agents[b] = "absent") = (WithDefault(agents, a)[b] = "absent")
    BY DEF WithDefault
  <2> QED
    BY <1>2, <2>1, <2>2
<1>5. Register!Near(agents, agents)
  BY <1>2
<1> QED
  BY <1>1, <1>3, <1>4, <1>5 DEF Add, Rename, SetDefault, Remove

\* A step that only touches items while a write is on, or labels the register
\* does not see.
LEMMA UnseenStep ==
    ASSUME UNCHANGED <<settled, meta, plan, cache, reads>>,
           settled => agents' = agents,
           \A w \in Writer : /\ pc[w] = "query" <=> pc'[w] = "query"
                             /\ Writing(w)' <=> Writing(w)
                             /\ Writing(w) => alone'[w] = alone[w]
    PROVE  UNCHANGED Register!vars
<1>1. Content' = Content
  BY DEF Content, Empty
<1>2. Planned' = Planned /\ Begun' = Begun /\ Solo' = Solo
  BY DEF Planned, Begun, Solo
<1> QED
  BY <1>1, <1>2 DEF Register!vars, Content, Planned, Begun, Solo, Empty

\* A writer that begins to mean something.
LEMMA PlanImplements ==
    ASSUME TypeOK, RestInv, NEW w \in Writer, NEW c \in Catalog,
           pc[w] \notin {"query", "write"}, Begin(w, c),
           UNCHANGED <<tableVars, serverVars, historyVars>>
    PROVE  Register!Plan(w, {c})
<1> USE DEF tableVars, serverVars, historyVars, Begin, Goto
<1>1. w \notin Planned \cup Begun
  BY DEF Planned, Begun, Writing
<1>2. Planned' = Planned \cup {w} /\ Begun' = Begun /\ Solo' = Solo
  BY DEF Planned, Begun, Solo, Writing, TypeOK
<1>3. Content' = Content /\ plan' = [plan EXCEPT ![w] = c]
  BY DEF Content, Empty
<1> QED
  BY <1>1, <1>2, <1>3
  DEF Register!Plan, Register!registerVars, Register!serverVars,
      Planned, Begun, Solo, Content

\* Each step is, from outside, one of the register's steps or none.
LEMMA RegisterStep ==
    ASSUME TypeOK, ServeInv, WriteInv, SettledInv, RestInv, [Next]_vars
    PROVE  [Register!Next]_Register!vars
<1>0. /\ pc \in [Writer -> {"idle", "down", "query", "write", "list", "up"}]
      /\ agents \in Catalog /\ plan \in [Writer -> Catalog]
      /\ alone \in [Writer -> BOOLEAN] /\ settled \in BOOLEAN
      /\ cache \in [Server -> Catalog] /\ reads \in [Server -> SUBSET Catalog]
      /\ Server \subseteq Writer /\ Operator \subseteq Writer
      /\ meta \in Nat
  BY DEF TypeOK, Writer
<1>1. ASSUME NEW w \in Writer, QueryExisting(w) PROVE Register!Open(w)
  <2>1. /\ pc[w] = "query" /\ pc' = [pc EXCEPT ![w] = "write"] /\ settled' = FALSE
        /\ alone' = [u \in Writer |-> IF u = w THEN \A v \in Writer \ {w} : ~Writing(v)
                                               ELSE alone[u] /\ ~Writing(u)]
    BY <1>1 DEF QueryExisting, Goto
  <2>2. Planned' = Planned \ {w} /\ Begun' = Begun \cup {w}
    BY <1>0, <2>1 DEF Planned, Begun, Writing
  <2>3. Solo' = IF Begun = {} THEN {w} ELSE {}
    <3>1. ASSUME NEW u \in Writer, u # w PROVE u \notin Solo'
      BY <1>0, <2>1, <3>1 DEF Solo, Writing
    <3>2. w \in Solo' <=> Begun = {}
      BY <1>0, <2>1 DEF Solo, Begun, Writing
    <3>3. Solo' \subseteq Writer
      BY DEF Solo
    <3> QED
      BY <3>1, <3>2, <3>3
  <2>4. Content' = Empty /\ w \in Planned
    BY <2>1 DEF Content, Planned, Empty
  <2>5. Empty = Register!Nothing
    BY DEF Empty, Register!Nothing
  <2> QED
    BY <1>1, <2>1, <2>2, <2>3, <2>4, <2>5
    DEF QueryExisting, tableVars, serverVars, Register!Open, Register!serverVars,
        Planned, Begun, Solo, Content
<1>2. ASSUME NEW w \in Writer, pc[w] \in {"query", "write"}, ~Writing(w)',
             pc'[w] # "query",
             \A u \in Writer : u # w => pc'[u] = pc[u],
             plan' = [plan EXCEPT ![w] = Empty],
             UNCHANGED <<alone, serverVars>>
      PROVE  /\ Register!End(w) /\ Planned' = Planned \ {w}
             /\ w \in Planned \cup Begun
             /\ w \in Begun => Planned' = Planned
  <2>1. Planned' = Planned \ {w} /\ Begun' = Begun \ {w} /\ Solo' = Solo \ {w}
    BY <1>2 DEF Planned, Begun, Solo, Writing
  <2>2. w \in Planned \cup Begun /\ (w \in Begun => w \notin Planned)
    BY <1>2 DEF Planned, Begun, Writing
  <2>3. plan' = [plan EXCEPT ![w] = Register!Nothing]
    BY <1>2 DEF Empty, Register!Nothing
  <2> QED
    BY <1>2, <2>1, <2>2, <2>3
    DEF Register!End, Register!serverVars, serverVars, Begun, Solo, Planned
<1>3. ASSUME NEW w \in Writer, PutMeta(w) PROVE Register!Finish(w)
  <2>1. /\ Writing(w) /\ meta' = Cardinality(Present(plan[w]))
        /\ settled' = alone[w] /\ agents' = agents
    BY <1>3 DEF PutMeta
  <2>2. Register!End(w) /\ Planned' = Planned /\ w \in Begun
    <3>1. w \in Begun
      BY <2>1 DEF Begun
    <3>2. pc'[w] \in {"list", "idle"} /\ \A u \in Writer : u # w => pc'[u] = pc[u]
      BY <1>0, <1>3 DEF PutMeta, Goto
    <3>3. Register!End(w) /\ (w \in Begun => Planned' = Planned)
      BY <1>2, <1>3, <2>1, <3>2 DEF PutMeta, Writing
    <3> QED
      BY <3>1, <3>3
  <2>3. meta' # 0
    <3>1. Present(plan[w]) # {}
      BY <2>1 DEF WriteInv, Writing, Valid
    <3> QED
      BY <2>1, <3>1, PresentFinite, FS_EmptySet
  <2>4. w \in Solo <=> alone[w]
    BY <2>1 DEF Solo
  <2>5. Content' = IF w \in Solo THEN plan[w] ELSE Empty
    <3>1. CASE alone[w]
      BY <1>3, <2>1, <2>4, <3>1, SoloDone DEF Content
    <3>2. CASE ~alone[w]
      BY <2>1, <2>4, <3>2 DEF Content, Empty
    <3> QED
      BY <3>1, <3>2
  <2>6. Empty = Register!Nothing
    BY DEF Empty, Register!Nothing
  <2>7. settled' = (w \in Solo)
    BY <1>0, <2>1, <2>4
  <2> QED
    BY <2>2, <2>3, <2>5, <2>6, <2>7 DEF Register!Finish, Planned, Begun, Solo, Content
<1>4. ASSUME NEW w \in Writer, Interrupt(w)
      PROVE  Register!Cut(w) \/ UNCHANGED Register!vars
  <2>1. /\ pc'[w] \in {"down", "idle"} /\ \A u \in Writer : u # w => pc'[u] = pc[u]
        /\ plan' = [plan EXCEPT ![w] = Empty]
        /\ UNCHANGED <<agents, meta, settled, alone, cache, reads>>
    BY <1>0, <1>4 DEF Interrupt, Goto, tableVars, serverVars, historyVars
  <2>2. CASE pc[w] \in {"query", "write"}
    <3>1. Register!End(w) /\ Planned' = Planned \ {w} /\ w \in Planned \cup Begun
      BY <1>2, <2>1, <2>2 DEF Writing, serverVars
    <3>2. Content' = Content
      BY <2>1 DEF Content, Empty
    <3> QED
      BY <2>1, <3>1, <3>2
      DEF Register!Cut, Register!registerVars, Planned, Begun, Content
  <2>3. CASE pc[w] = "list"
    <3>1. plan' = plan
      BY <1>0, <2>1, <2>3 DEF RestInv
    <3> QED
      BY <2>1, <2>3, <3>1, UnseenStep DEF Writing
  <2> QED
    BY <1>4, <2>2, <2>3 DEF Interrupt
<1>5. ASSUME NEW w \in Writer, NEW a \in Agent, DeleteAgent(w, a) \/ PutAgent(w, a)
      PROVE  UNCHANGED Register!vars
  <2>1. Writing(w) /\ UNCHANGED <<pc, plan, alone, settled, meta, cache, reads>>
    BY <1>5 DEF DeleteAgent, PutAgent, serverVars, historyVars
  <2>2. ~settled
    BY <2>1 DEF SettledInv, SettledRests
  <2> QED
    BY <2>1, <2>2, UnseenStep DEF Writing
<1>6. ASSUME NEW o \in Operator, Edit(o) PROVE Register!Command(o)
  <2>1. PICK c \in Catalog : Command(o, c) /\ Register!Near(agents, c)
    BY <1>0, <1>6, EditIsNear
  <2>2. agents \in Values /\ c \in Values
    BY <1>0, <2>1 DEF Command, Begin, Values
  <2>3. Register!Readable(agents)
    BY <2>2 DEF Register!Readable, Values
  <2> DEFINE C == {d \in Values : \E b \in Values : Register!Readable(b) /\ Register!Near(b, d)}
  <2>4. c \in C
    BY <2>1, <2>2, <2>3
  <2>5. /\ pc[o] = "idle" /\ o \in Writer /\ Begin(o, c)
        /\ UNCHANGED <<tableVars, serverVars, historyVars>>
    BY <1>0, <2>1 DEF Command
  <2> HIDE DEF C
  <2>6. Register!Plan(o, {c})
    BY <2>5, PlanImplements
  <2>7. Register!Plan(o, C)
    BY <2>4, <2>6 DEF Register!Plan
  <2> QED
    BY <2>7 DEF Register!Command, Register!Plan, C, Values
<1>7. ASSUME NEW s \in Server, EnsureSeeded(s)
      PROVE  Register!SeedOnce(s) \/ UNCHANGED Register!vars
  <2>1. /\ pc[s] = "down" /\ s \in Writer
        /\ UNCHANGED <<tableVars, serverVars, historyVars>>
    BY <1>0, <1>7 DEF EnsureSeeded
  <2>2. CASE meta = 0 /\ SeedFile
    <3>1. Begin(s, Seed) /\ Seed \in Catalog
      BY <1>7, <2>2, SeedAssumption DEF EnsureSeeded
    <3>2. Register!Plan(s, {Seed})
      BY <2>1, <3>1, PlanImplements
    <3> QED
      BY <2>2, <3>2 DEF Register!SeedOnce
  <2>3. CASE ~(meta = 0 /\ SeedFile)
    <3>1. plan' = plan /\ pc'[s] = "list" /\ \A u \in Writer : u # s => pc'[u] = pc[u]
      BY <1>0, <1>7, <2>3 DEF EnsureSeeded, Goto
    <3> QED
      BY <2>1, <3>1, UnseenStep DEF Writing, tableVars, serverVars, historyVars
  <2> QED
    BY <2>2, <2>3
<1>8. ASSUME NEW s \in Server, LoadCatalog(s)
      PROVE  Register!Start(s) \/ UNCHANGED Register!vars
  <2>1. /\ pc[s] = "list" /\ s \in Writer
        /\ pc'[s] \in {"up", "down"} /\ \A u \in Writer : u # s => pc'[u] = pc[u]
        /\ UNCHANGED <<agents, meta, plan, settled, alone, reads>>
    BY <1>0, <1>8 DEF LoadCatalog, Goto, tableVars, writeVars, historyVars
  <2>2. CASE Valid(agents)
    <3>1. cache' = [cache EXCEPT ![s] = agents] /\ agents \in Values
      BY <1>0, <1>8, <2>2 DEF LoadCatalog, Values
    <3>2. cache[s] = Register!Nothing
      BY <2>1 DEF RestInv, Empty, Register!Nothing
    <3>3. Register!Readable(agents)
      BY <3>1 DEF Register!Readable, Values
    <3>4. Planned' = Planned /\ Begun' = Begun /\ Solo' = Solo /\ Content' = Content
      BY <2>1 DEF Planned, Begun, Solo, Content, Writing, Empty
    <3> QED
      BY <2>1, <3>1, <3>2, <3>3, <3>4
      DEF Register!Start, Register!registerVars, Register!writerVars,
          Planned, Begun, Solo, Content, Values
  <2>3. CASE ~Valid(agents)
    <3>1. cache' = cache
      BY <1>8, <2>3 DEF LoadCatalog
    <3> QED
      BY <2>1, <3>1, UnseenStep DEF Writing
  <2> QED
    BY <2>2, <2>3
<1>9. ASSUME NEW s \in Server, ListAgents(s) PROVE Register!Read(s)
  <2>1. /\ UNCHANGED <<agents, meta, pc, plan, settled, alone, cache>>
        /\ reads' = [reads EXCEPT ![s] = @ \cup {agents}] /\ agents \in Values
    BY <1>0, <1>9 DEF ListAgents, tableVars, writeVars, historyVars, Values
  <2>2. cache[s] # Register!Nothing
    <3>1. Valid(cache[s])
      BY <1>9 DEF ListAgents, ServeInv, ServedIsValid
    <3> QED
      BY <3>1 DEF Valid, Present, Register!Nothing
  <2>3. Register!Readable(agents)
    BY <2>1 DEF Register!Readable, Values
  <2>4. Planned' = Planned /\ Begun' = Begun /\ Solo' = Solo /\ Content' = Content
    BY <2>1 DEF Planned, Begun, Solo, Content, Writing, Empty
  <2> QED
    BY <2>1, <2>2, <2>3, <2>4
    DEF Register!Read, Register!registerVars, Register!writerVars,
        Planned, Begun, Solo, Content, Values
<1>10. ASSUME NEW s \in Server, NEW c \in reads[s], StoreCatalog(s, c)
       PROVE  Register!Store(s)
  <2>1. UNCHANGED <<agents, meta, pc, plan, settled, alone>>
    BY <1>10 DEF StoreCatalog, tableVars, writeVars, historyVars
  <2>2. Planned' = Planned /\ Begun' = Begun /\ Solo' = Solo /\ Content' = Content
    BY <2>1 DEF Planned, Begun, Solo, Content, Writing, Empty
  <2> QED
    BY <1>10, <2>1, <2>2
    DEF StoreCatalog, Register!Store, Register!registerVars, Register!writerVars,
        Planned, Begun, Solo, Content
<1>11. ASSUME NEW s \in Server, Stop(s) PROVE Register!Stop(s)
  <2>1. /\ s \in Writer /\ pc[s] = "up" /\ pc'[s] = "down"
        /\ \A u \in Writer : u # s => pc'[u] = pc[u]
        /\ UNCHANGED <<agents, meta, plan, settled, alone>>
        /\ cache' = [cache EXCEPT ![s] = Empty] /\ reads' = [reads EXCEPT ![s] = {}]
    BY <1>0, <1>11 DEF Stop, Goto, tableVars, writeVars, historyVars
  <2>2. Planned' = Planned /\ Begun' = Begun /\ Solo' = Solo /\ Content' = Content
    BY <2>1 DEF Planned, Begun, Solo, Content, Writing, Empty
  <2>3. Empty = Register!Nothing
    BY DEF Empty, Register!Nothing
  <2> QED
    BY <2>1, <2>2, <2>3
    DEF Register!Stop, Register!registerVars, Register!writerVars,
        Planned, Begun, Solo, Content
<1>12. CASE UNCHANGED vars
  BY <1>12, UnseenStep DEF vars, Writing
<1>13. ASSUME NEW w \in Writer, Write(w) \/ Interrupt(w)
       PROVE  \/ Register!Open(w) \/ Register!Finish(w) \/ Register!Cut(w)
              \/ UNCHANGED Register!vars
  BY <1>1, <1>3, <1>4, <1>5, <1>13 DEF Write
<1>14. ASSUME NEW s \in Server, Start(s) \/ Discover(s) \/ Stop(s)
       PROVE  \/ Register!SeedOnce(s) \/ Register!Start(s) \/ Register!Read(s)
              \/ Register!Store(s) \/ Register!Stop(s) \/ UNCHANGED Register!vars
  BY <1>7, <1>8, <1>9, <1>10, <1>11, <1>14 DEF Start, Discover
<1> QED
  BY <1>6, <1>12, <1>13, <1>14 DEF Next, Register!Next, Writer

\* The catalog in the table implements the register: a rewrite that runs alone
\* is one write, cuts and overlaps spoil the content only until the next such
\* write, and instances serve valid catalogs, the written one while there is one.
THEOREM CatalogRefinement == Spec => ImplementsCatalogRegister
<1>1. Init => Register!Init
  <2> SUFFICES ASSUME Init PROVE Register!Init
    OBVIOUS
  <2>1. Planned = {} /\ Begun = {} /\ Solo = {} /\ Content = Empty /\ meta = 0
    BY WriterAssumption DEF Init, Planned, Begun, Solo, Content, Writing, Writer
  <2>2. Empty = Register!Nothing
    BY DEF Empty, Register!Nothing
  <2> QED
    BY <2>1, <2>2 DEF Init, Register!Init, Planned, Begun, Solo, Content, Writer
<1>2. TypeOK /\ ServeInv /\ WriteInv /\ SettledInv /\ RestInv /\ [Next]_vars
        => [Register!Next]_Register!vars
  BY RegisterStep
<1> QED
  BY <1>1, <1>2, TypeCorrect, ServeInvariant, WriteInvariant, SettledInvariant,
     RestInvariant, PTL DEF Spec, ImplementsCatalogRegister, Register!Spec
=============================================================================
