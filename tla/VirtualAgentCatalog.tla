------------------------ MODULE VirtualAgentCatalog ------------------------
(***************************************************************************)
(* The virtual agent catalog in DynamoDB: DynamoDBCatalogRepository, the   *)
(* operator CLI that edits it, and the server instances that seed it,      *)
(* load it at startup and read it again on every ListVirtualAgents.        *)
(*                                                                         *)
(* A catalog maps each agent id to "absent", "plain" or "default"; names   *)
(* are left out.  replace_all is a query, a delete per item found, a put   *)
(* per entry and the META item, each its own step, in any order of items.  *)
(***************************************************************************)
EXTENDS Naturals, FiniteSets

CONSTANTS
    Agent,          \* virtual agent ids
    Server,         \* server instances
    Operator,       \* terminals an operator runs the CLI from
    Seed,           \* the catalog of config/virtual_agents.json
    SeedFile,       \* that file is there and valid
    MaxCommands,    \* bound: CLI commands that write
    MaxFaults,      \* bound: writes cut short
    MaxReads        \* bound: ListVirtualAgents calls at once in an instance

Catalog == [Agent -> {"absent", "plain", "default"}]
Present(c) == {a \in Agent : c[a] # "absent"}
Defaults(c) == {a \in Agent : c[a] = "default"}
Empty == [a \in Agent |-> "absent"]
Writer == Server \cup Operator

\* validate_catalog_entries; ids are unique as keys of the table.
Valid(c) ==
    /\ Present(c) # {}
    /\ \A a, b \in Defaults(c) : a = b

ASSUME AgentAssumption == IsFiniteSet(Agent)
ASSUME WriterAssumption == Server \cap Operator = {}
ASSUME SeedAssumption == Seed \in Catalog /\ Valid(Seed) /\ SeedFile \in BOOLEAN
ASSUME BoundAssumption == {MaxCommands, MaxFaults, MaxReads} \subseteq Nat

VARIABLES
    agents,         \* table: the CATALOG / AGENT#... items
    meta,           \* table: entry_count of CATALOG / META, 0 if absent
    pc,             \* where each writer is
    plan,           \* the entries each writer writes
    dels,           \* the items it has still to delete
    puts,           \* the entries it has still to put
    cache,          \* an instance's _virtual_agent_catalog
    reads,          \* query results an instance has not stored yet
    commands,       \* CLI commands so far
    faults,         \* writes cut short so far
    settled,        \* history: the last write to finish ran alone
    alone           \* history: no other write overlapped this writer's

tableVars == <<agents, meta>>
writeVars == <<plan, dels, puts>>
serverVars == <<cache, reads>>
historyVars == <<settled, alone>>
vars == <<agents, meta, pc, plan, dels, puts, cache, reads, commands, faults,
          settled, alone>>

Init ==
    /\ agents = Empty
    /\ meta = 0
    /\ pc = [w \in Writer |-> IF w \in Server THEN "down" ELSE "idle"]
    /\ plan = [w \in Writer |-> Empty]
    /\ dels = [w \in Writer |-> {}]
    /\ puts = [w \in Writer |-> {}]
    /\ cache = [s \in Server |-> Empty]
    /\ reads = [s \in Server |-> {}]
    /\ commands = 0
    /\ faults = 0
    /\ settled = TRUE
    /\ alone = [w \in Writer |-> FALSE]

Goto(w, label) == pc' = [pc EXCEPT ![w] = label]
Writing(w) == pc[w] = "write"

-----------------------------------------------------------------------------
(* _write_entries.                                                         *)

\* validate_catalog_entries has passed: the write of catalog c starts.
Begin(w, c) ==
    /\ Valid(c)
    /\ plan' = [plan EXCEPT ![w] = c]
    /\ Goto(w, "query")

\* Fault form: entries are put over the items there are, none is deleted.
QueryExistingSkipped(w) ==
    /\ pc[w] = "query"
    /\ puts' = [puts EXCEPT ![w] = Present(plan[w])]
    /\ Goto(w, "write")
    /\ settled' = FALSE
    /\ alone' = [u \in Writer |-> IF u = w THEN \A v \in Writer \ {w} : ~Writing(v)
                                           ELSE alone[u] /\ ~Writing(u)]
    /\ UNCHANGED <<tableVars, plan, dels, serverVars, commands, faults>>

\* Query the items there are; each will be deleted, each entry then put.
QueryExisting(w) ==
    /\ pc[w] = "query"
    /\ dels' = [dels EXCEPT ![w] = Present(agents)]
    /\ puts' = [puts EXCEPT ![w] = Present(plan[w])]
    /\ Goto(w, "write")
    /\ settled' = FALSE
    /\ alone' = [u \in Writer |-> IF u = w THEN \A v \in Writer \ {w} : ~Writing(v)
                                           ELSE alone[u] /\ ~Writing(u)]
    /\ UNCHANGED <<tableVars, plan, serverVars, commands, faults>>

DeleteAgent(w, a) ==
    /\ Writing(w)
    /\ a \in dels[w]
    /\ agents' = [agents EXCEPT ![a] = "absent"]
    /\ dels' = [dels EXCEPT ![w] = @ \ {a}]
    /\ UNCHANGED <<meta, pc, plan, puts, serverVars, commands, faults, historyVars>>

\* Fault form: the entries are put before the old items are all deleted.
PutAgentEarly(w, a) ==
    /\ Writing(w)
    /\ a \in puts[w]
    /\ agents' = [agents EXCEPT ![a] = plan[w][a]]
    /\ puts' = [puts EXCEPT ![w] = @ \ {a}]
    /\ UNCHANGED <<meta, pc, plan, dels, serverVars, commands, faults, historyVars>>

PutAgent(w, a) ==
    /\ Writing(w)
    /\ dels[w] = {}
    /\ a \in puts[w]
    /\ agents' = [agents EXCEPT ![a] = plan[w][a]]
    /\ puts' = [puts EXCEPT ![w] = @ \ {a}]
    /\ UNCHANGED <<meta, pc, plan, dels, serverVars, commands, faults, historyVars>>

\* The META item last; an instance goes on to load the catalog.
PutMeta(w) ==
    /\ Writing(w)
    /\ dels[w] = {} /\ puts[w] = {}
    /\ meta' = Cardinality(Present(plan[w]))
    /\ Goto(w, IF w \in Server THEN "list" ELSE "idle")
    /\ plan' = [plan EXCEPT ![w] = Empty]
    /\ settled' = alone[w]
    /\ UNCHANGED <<agents, dels, puts, serverVars, commands, faults, alone>>

\* A table call raises or the process dies: nothing undoes what was written.
Interrupt(w) ==
    /\ pc[w] \in {"query", "write", "list"}
    /\ faults < MaxFaults
    /\ faults' = faults + 1
    /\ Goto(w, IF w \in Server THEN "down" ELSE "idle")
    /\ plan' = [plan EXCEPT ![w] = Empty]
    /\ dels' = [dels EXCEPT ![w] = {}]
    /\ puts' = [puts EXCEPT ![w] = {}]
    /\ UNCHANGED <<tableVars, serverVars, commands, historyVars>>

-----------------------------------------------------------------------------
(* manage_virtual_agents.py.  A command reads the catalog, which raises    *)
(* unless it is valid, and writes it back edited.  A command that is       *)
(* refused, and list, change nothing.                                      *)

\* Fault form: clearing a default leaves the flag without a value.
WithDefaultUnset(c, a) ==
    [b \in Agent |-> IF b = a THEN "default"
                     ELSE IF c[b] = "default" THEN "unset" ELSE c[b]]

\* The catalog c with agent a as its only default.
WithDefault(c, a) ==
    [b \in Agent |-> IF b = a THEN "default"
                     ELSE IF c[b] = "default" THEN "plain" ELSE c[b]]

Command(o, c) ==
    /\ pc[o] = "idle"
    /\ commands < MaxCommands
    /\ commands' = commands + 1
    /\ Valid(agents)
    /\ Begin(o, c)
    /\ UNCHANGED <<tableVars, dels, puts, serverVars, faults, historyVars>>

Add(o, a) ==
    /\ a \notin Present(agents)
    /\ \/ Command(o, [agents EXCEPT ![a] = "plain"])
       \/ Command(o, WithDefault(agents, a))

\* update: a new name, every item rewritten as it was.
Rename(o, a) == a \in Present(agents) /\ Command(o, agents)

\* set-default, and update --default.
SetDefault(o, a) == a \in Present(agents) /\ Command(o, WithDefault(agents, a))

\* Removing the only agent is refused: the empty catalog is not valid.
Remove(o, a) ==
    a \in Present(agents) /\ Command(o, [agents EXCEPT ![a] = "absent"])

-----------------------------------------------------------------------------
(* A server instance.                                                      *)

\* Fault form: an instance seeds when it finds no agents, not when no META.
EnsureSeededIfEmpty(s) ==
    /\ pc[s] = "down"
    /\ IF Present(agents) = {} /\ SeedFile
       THEN Begin(s, Seed)
       ELSE Goto(s, "list") /\ UNCHANGED plan
    /\ UNCHANGED <<tableVars, dels, puts, serverVars, commands, faults, historyVars>>

\* ensure_seeded: nothing once META is there, a warning without a seed file.
EnsureSeeded(s) ==
    /\ pc[s] = "down"
    /\ IF meta = 0 /\ SeedFile
       THEN Begin(s, Seed)
       ELSE Goto(s, "list") /\ UNCHANGED plan
    /\ UNCHANGED <<tableVars, dels, puts, serverVars, commands, faults, historyVars>>

\* create_media_server: list_agents raises on an invalid catalog, which ends
\* the startup; otherwise the instance serves.
LoadCatalog(s) ==
    /\ pc[s] = "list"
    /\ IF Valid(agents)
       THEN Goto(s, "up") /\ cache' = [cache EXCEPT ![s] = agents]
       ELSE Goto(s, "down") /\ UNCHANGED cache
    /\ UNCHANGED <<tableVars, writeVars, reads, commands, faults, historyVars>>

\* Fault form: refresh_catalog takes what the query returns as it is.
ListAgentsUnchecked(s) ==
    /\ pc[s] = "up"
    /\ Cardinality(reads[s]) < MaxReads
    /\ reads' = [reads EXCEPT ![s] = @ \cup {agents}]
    /\ UNCHANGED <<tableVars, pc, writeVars, cache, commands, faults, historyVars>>

\* ListVirtualAgents awaits refresh_catalog, whose list_agents must not raise.
ListAgents(s) ==
    /\ pc[s] = "up"
    /\ Cardinality(reads[s]) < MaxReads
    /\ Valid(agents)
    /\ reads' = [reads EXCEPT ![s] = @ \cup {agents}]
    /\ UNCHANGED <<tableVars, pc, writeVars, cache, commands, faults, historyVars>>

\* refresh_catalog stores the result and the answer lists it: the calls of an
\* instance finish in any order.
StoreCatalog(s, c) ==
    /\ c \in reads[s]
    /\ cache' = [cache EXCEPT ![s] = c]
    /\ reads' = [reads EXCEPT ![s] = @ \ {c}]
    /\ UNCHANGED <<tableVars, pc, writeVars, commands, faults, historyVars>>

\* The instance is stopped or replaced.
Stop(s) ==
    /\ pc[s] = "up"
    /\ Goto(s, "down")
    /\ cache' = [cache EXCEPT ![s] = Empty]
    /\ reads' = [reads EXCEPT ![s] = {}]
    /\ UNCHANGED <<tableVars, writeVars, commands, faults, historyVars>>

-----------------------------------------------------------------------------

Write(w) ==
    \/ QueryExisting(w)
    \/ \E a \in Agent : DeleteAgent(w, a) \/ PutAgent(w, a)
    \/ PutMeta(w)

Edit(o) == \E a \in Agent :
    Add(o, a) \/ Rename(o, a) \/ SetDefault(o, a) \/ Remove(o, a)

Start(s) == EnsureSeeded(s) \/ LoadCatalog(s)

Discover(s) == ListAgents(s) \/ \E c \in reads[s] : StoreCatalog(s, c)

Next ==
    \/ \E w \in Writer : Write(w) \/ Interrupt(w)
    \/ \E o \in Operator : Edit(o)
    \/ \E s \in Server : Start(s) \/ Discover(s) \/ Stop(s)

Spec == Init /\ [][Next]_vars

(* Fairness: a write that is running goes on, an instance that is down is  *)
(* started again by the service scheduler, an operator keeps editing.      *)
Fairness ==
    /\ \A w \in Writer : WF_vars(Write(w))
    /\ \A s \in Server : WF_vars(Start(s))
    /\ \A o \in Operator : WF_vars(Edit(o))

FairSpec == Spec /\ Fairness

-----------------------------------------------------------------------------
(* Properties.                                                             *)

\* Every variable has its type.
TypeOK ==
    /\ agents \in Catalog
    /\ meta \in Nat
    /\ pc \in [Writer -> {"idle", "down", "query", "write", "list", "up"}]
    /\ plan \in [Writer -> Catalog]
    /\ dels \in [Writer -> SUBSET Agent]
    /\ puts \in [Writer -> SUBSET Agent]
    /\ cache \in [Server -> Catalog]
    /\ reads \in [Server -> SUBSET Catalog]
    /\ commands \in 0 .. MaxCommands
    /\ faults \in 0 .. MaxFaults
    /\ settled \in BOOLEAN
    /\ alone \in [Writer -> BOOLEAN]

\* Whatever half-written or mixed state overlapping writes leave in the table,
\* an instance serves only catalogs with an agent and at most one default.
ServedIsValid == \A s \in Server : pc[s] = "up" => Valid(cache[s])

\* A write that no other one overlapped leaves a valid catalog that META counts,
\* even when it was planned from a catalog that has changed since or when an
\* earlier write was cut short.
SettledIsExact ==
    settled => \/ agents = Empty /\ meta = 0
               \/ Valid(agents) /\ meta = Cardinality(Present(agents))

Quiet == \A w \in Writer : pc[w] \notin {"query", "write"}

\* However many writes overlap, if none was cut short they do not end with an
\* empty catalog: whoever deletes last still has all its entries to put.
NeverLeftEmpty == Quiet /\ faults = 0 /\ meta # 0 => agents # Empty

\* Instances that seed at the same time end with exactly the seed catalog.
SeedersAgree ==
    Quiet /\ faults = 0 /\ commands = 0 /\ meta # 0 => agents = Seed

\* The catalog seen from outside: its content is known once a write has run
\* alone to its end, until the next one begins.
Register == INSTANCE CatalogRegister WITH
    Agent <- Agent, Server <- Server, Operator <- Operator, Seed <- Seed,
    Value <- {c \in Catalog : Valid(c)},
    whole <- settled,
    content <- IF settled THEN agents ELSE Empty,
    seeded <- meta # 0,
    planned <- {w \in Writer : pc[w] = "query"},
    writing <- {w \in Writer : Writing(w)},
    solo <- {w \in Writer : Writing(w) /\ alone[w]},
    intent <- plan, shown <- cache, answers <- reads

\* The deletes, puts and META item of a rewrite that runs alone are one write
\* of the catalog that was meant; whatever cuts and overlaps leave behind, it
\* repairs, and until then instances serve valid catalogs only.
ImplementsCatalogRegister == Register!Spec

\* With nobody else writing, an instance recovers from any cut in its seeding
\* and ends up serving the seed, again after every restart.  It takes a single
\* instance: see WedgedStays.
SeedingCompletes == \A s \in Server : []<>(pc[s] = "up" /\ cache[s] = Seed)

\* A write cut between its deletes and its puts has emptied the catalog for
\* good: META keeps every start from seeding it, and a command reads it first.
Wedged == Quiet /\ meta # 0 /\ agents = Empty
WedgedStays == [][Wedged => Wedged']_vars
=============================================================================
