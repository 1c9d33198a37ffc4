---------------------------- MODULE DataSources -----------------------------
(***************************************************************************)
(* The data sources of one organization: manage_datasources.py, run by any *)
(* number of operators, and the server's registration after a serviceApp   *)
(* webhook, through service.py, call by call against Webex.                *)
(*                                                                         *)
(* A caller is one command or one registration; a registration is a create *)
(* of the server's own URL, and its outcome what it logs (it never raises).*)
(* Payloads are reduced to their URL; schemas are read as lists are.       *)
(***************************************************************************)
EXTENDS Naturals

CONSTANTS
    Caller,      \* bound: commands and registrations
    MaxId,       \* bound: data sources, ids given out in order
    Initial,     \* bound: those there at first
    Url,         \* endpoint URLs
    Requests,    \* bound: what callers ask for
    Unborn,      \* an id not given out yet
    Gone,        \* a deleted data source
    Idle,        \* a caller without a request
    MaxFaults    \* bound: failed calls

Id == 1 .. MaxId
Request == [op : {"create", "update", "delete", "get", "list"}, id : Id, url : Url]

ASSUME BoundAssumption == MaxId \in Nat /\ Initial \in 0 .. MaxId /\ MaxFaults \in Nat
ASSUME RequestAssumption == Requests \subseteq Request
ASSUME UrlAssumption == Unborn \notin Url /\ Gone \notin Url /\ Unborn # Gone
ASSUME IdleAssumption == Idle \notin Request

VARIABLES
    source,   \* Webex: the URL of each data source, Unborn, or Gone
    cmd,      \* a caller's arguments
    phase,    \* where it is: "idle", "list", "scan", "call" or its outcome
    scan,     \* url_exists: listed items still to be looked at
    hits,     \* url_exists: those that the list itself shows to have the URL
    faults,   \* failed calls
    held,     \* history: the caller's URL was registered while it ran
    removed,  \* history: a data source was deleted while it ran
    stable    \* history: data sources with its URL ever since a list that told
              \* the caller their id or their URL

callerVars == <<cmd, phase, scan, hits>>
historyVars == <<held, removed, stable>>
vars == <<source, cmd, phase, scan, hits, faults, held, removed, stable>>

Live(s) == {i \in Id : s[i] \in Url}
With(u, s) == {i \in Id : s[i] = u}

Init ==
    /\ source \in [Id -> Url \cup {Unborn}]
    /\ \A i \in Id : source[i] = Unborn <=> i > Initial
    /\ cmd = [c \in Caller |-> Idle]
    /\ phase = [c \in Caller |-> "idle"]
    /\ scan = [c \in Caller |-> {}]
    /\ hits = [c \in Caller |-> {}]
    /\ faults = 0
    /\ held = [c \in Caller |-> FALSE]
    /\ removed = [c \in Caller |-> FALSE]
    /\ stable = [c \in Caller |-> {}]

-----------------------------------------------------------------------------

To(c, p) == phase' = [phase EXCEPT ![c] = p]

\* The histories after a call that may have changed the data sources.
Witness ==
    /\ held' = [c \in Caller |-> held[c] \/ (cmd[c] # Idle /\ With(cmd[c].url, source') # {})]
    /\ removed' = [c \in Caller |-> removed[c] \/ Live(source) \ Live(source') # {}]
    /\ stable' = [c \in Caller |->
                     IF cmd[c] = Idle THEN {} ELSE stable[c] \cap With(cmd[c].url, source')]

\* A command starts and bootstraps its tokens; only a create lists first.
Start(c, m) ==
    /\ phase[c] = "idle"
    /\ source[m.id] # Unborn \/ m.op \in {"create", "list"}
    /\ cmd' = [cmd EXCEPT ![c] = m]
    /\ To(c, IF m.op = "create" THEN "list" ELSE "call")
    /\ held' = [held EXCEPT ![c] = With(m.url, source) # {}]
    /\ removed' = [removed EXCEPT ![c] = FALSE]
    /\ UNCHANGED <<source, scan, hits, faults, stable>>

\* url_exists: alist().  An item's URL and its id are undeclared fields of the
\* list: each may be there or not.  An item with neither is passed over.
List(c) ==
    /\ phase[c] = "list"
    /\ \E seen \in SUBSET Live(source) :
         LET own == seen \cap With(cmd[c].url, source) IN
         /\ scan' = [scan EXCEPT ![c] = seen]
         /\ \E shown \in SUBSET own : hits' = [hits EXCEPT ![c] = shown]
         /\ stable' = [stable EXCEPT ![c] = own]
         /\ To(c, IF seen = {} THEN "call" ELSE "scan")
    /\ UNCHANGED <<source, cmd, faults, held, removed>>

\* Fault form: the first item with another URL ends the check.
LookOnce(c) == \E i \in scan[c] :
    /\ phase[c] = "scan"
    /\ i \notin hits[c] /\ source[i] \in Url \ {cmd[c].url}
    /\ scan' = [scan EXCEPT ![c] = @ \ {i}]
    /\ To(c, "call")
    /\ UNCHANGED <<source, cmd, hits, faults, historyVars>>

\* url_exists: an item's URL is another one, by its own aget().
Look(c) == \E i \in scan[c] :
    /\ phase[c] = "scan"
    /\ i \notin hits[c] /\ source[i] \in Url \ {cmd[c].url}
    /\ scan' = [scan EXCEPT ![c] = @ \ {i}]
    /\ To(c, IF scan[c] = {i} THEN "call" ELSE "scan")
    /\ UNCHANGED <<source, cmd, hits, faults, historyVars>>

\* url_exists: an item has the URL, by the list or by its aget().
Refuse(c) == \E i \in scan[c] :
    /\ phase[c] = "scan"
    /\ i \in hits[c] \/ source[i] = cmd[c].url
    /\ To(c, "duplicate")
    /\ UNCHANGED <<source, cmd, scan, hits, faults, historyVars>>

\* Fault form: an item deleted meanwhile is never found and never given up.
ItemGoneWaits(c) == \E i \in scan[c] :
    /\ phase[c] = "scan"
    /\ i \notin hits[c] /\ source[i] = Gone
    /\ UNCHANGED vars

\* url_exists: an item is deleted meanwhile; aget() raises NotFoundError.
ItemGone(c) == \E i \in scan[c] :
    /\ phase[c] = "scan"
    /\ i \notin hits[c] /\ source[i] = Gone
    /\ To(c, "error")
    /\ UNCHANGED <<source, cmd, scan, hits, faults, historyVars>>

\* acreate(), with no check by Webex: the next id.
Create(m) == \E i \in Id :
    /\ m.op = "create"
    /\ source[i] = Unborn /\ \A j \in Id : j < i => source[j] # Unborn
    /\ source' = [source EXCEPT ![i] = m.url]

\* Fault form: an update that names no URL clears it.
UpdateCleared(m) ==
    /\ m.op = "update" /\ m.id \in Live(source)
    /\ source' = [source EXCEPT ![m.id] = "none"]

\* aupdate(): no duplicate check; without --url the URL stays as it was.
Update(m) ==
    /\ m.op = "update" /\ m.id \in Live(source)
    /\ source' = [source EXCEPT ![m.id] = m.url]

Delete(m) ==
    /\ m.op = "delete" /\ m.id \in Live(source)
    /\ source' = [source EXCEPT ![m.id] = Gone]

Read(m) ==
    /\ m.op = "list" \/ (m.op = "get" /\ m.id \in Live(source))
    /\ UNCHANGED source

Webex(m) == Create(m) \/ Update(m) \/ Delete(m) \/ Read(m)

\* The command's own call, and exit code 0.
Call(c) ==
    /\ phase[c] = "call"
    /\ Webex(cmd[c])
    /\ Witness
    /\ To(c, "ok")
    /\ UNCHANGED <<cmd, scan, hits, faults>>

\* Fault form: a missing data source is reported as success.
MissingIsFine(c) ==
    /\ phase[c] = "call"
    /\ cmd[c].op \in {"update", "delete", "get"} /\ cmd[c].id \notin Live(source)
    /\ To(c, "ok")
    /\ UNCHANGED <<source, cmd, scan, hits, faults, historyVars>>

\* NotFoundError: exit code 1.
Missing(c) ==
    /\ phase[c] = "call"
    /\ cmd[c].op \in {"update", "delete", "get"} /\ cmd[c].id \notin Live(source)
    /\ To(c, "error")
    /\ UNCHANGED <<source, cmd, scan, hits, faults, historyVars>>

Fault(c) == faults < MaxFaults /\ faults' = faults + 1 /\ To(c, "error")

\* A token call, the list, an item or the command's own call fails.
Fail(c) ==
    /\ phase[c] \in {"list", "scan", "call"}
    /\ Fault(c)
    /\ UNCHANGED <<source, cmd, scan, hits, historyVars>>

\* ... or only its answer is lost; nothing is tried again.
AnswerLost(c) ==
    /\ phase[c] = "call"
    /\ Fault(c)
    /\ Webex(cmd[c])
    /\ Witness
    /\ UNCHANGED <<cmd, scan, hits>>

Step(c) == List(c) \/ Look(c) \/ Refuse(c) \/ ItemGone(c) \/ Call(c) \/ Missing(c)

Next == \E c \in Caller :
    \/ \E m \in Requests : Start(c, m)
    \/ Step(c)
    \/ Fail(c) \/ AnswerLost(c)

Spec == Init /\ [][Next]_vars

(* Fairness: asyncio.run drives each command, the event loop the server.   *)
FairSpec == Spec /\ \A c \in Caller : WF_vars(Step(c))

-----------------------------------------------------------------------------
(* Properties.                                                             *)

Outcome == {"ok", "duplicate", "error"}

\* Every variable has its type.
TypeOK ==
    /\ source \in [Id -> Url \cup {Unborn, Gone}]
    /\ cmd \in [Caller -> Request \cup {Idle}]
    /\ phase \in [Caller -> {"idle", "list", "scan", "call"} \cup Outcome]
    /\ scan \in [Caller -> SUBSET Id]
    /\ hits \in [Caller -> SUBSET Id]
    /\ faults \in 0 .. MaxFaults
    /\ held \in [Caller -> BOOLEAN]
    /\ removed \in [Caller -> BOOLEAN]
    /\ stable \in [Caller -> SUBSET Id]

\* A create is sent only if none of the data sources whose id or URL was in the
\* list of url_exists has had the caller's URL all the time since, whatever others
\* changed under the item by item check: what can be duplicated is a URL that was
\* registered or moved meanwhile, or whose item the list told nothing of.
NoBlindDuplicate == \A c \in Caller :
    phase[c] = "call" /\ cmd[c].op = "create" => stable[c] = {}

\* A caller seen from outside: its calls are one step.
Public(p) == IF p \in {"list", "scan", "call"} THEN "running" ELSE p
Registry == INSTANCE DataSourceRegistry WITH
    Caller <- Caller, Id <- Id, Url <- Url, Unborn <- Unborn, Gone <- Gone,
    Idle <- Idle, MaxFaults <- MaxFaults,
    source <- source, cmd <- cmd, held <- held, removed <- removed,
    faults <- faults,
    outcome <- [c \in Caller |-> Public(phase[c])]

\* Every exit code of a command that starts tells the truth (argparse ends a
\* malformed one, with 2 as well): 0 is one whole change, 2 a URL that really was
\* registered, 1 a failed call, a missing data source, or one deleted under
\* the duplicate check.
ImplementsRegistry == Registry!Spec

\* Every command and every registration comes to an end.
CommandsFinish == \A c \in Caller : phase[c] # "idle" ~> phase[c] \in Outcome
=============================================================================
