------------------------- MODULE DataSourceRegistry -------------------------
(***************************************************************************)
(* What an organization's data source commands promise: each takes effect  *)
(* in one step and reports it, or has none.  A create is refused as a      *)
(* duplicate only if its URL was registered while it ran.  A command fails *)
(* only if a call failed, if its data source is not there, or, creating,   *)
(* if some data source was deleted while it ran.                           *)
(*                                                                         *)
(* It does not promise that URLs are unique.  DataSources implements this. *)
(***************************************************************************)
EXTENDS Naturals

CONSTANTS Caller, Id, Url, Unborn, Gone, Idle, MaxFaults

VARIABLES
    source,   \* Webex: the URL of each data source, Unborn, or Gone
    cmd,      \* what each caller asked for
    outcome,  \* "idle", "running", "ok", "duplicate" or "error"
    held,     \* the caller's URL was registered at some time while it ran
    removed,  \* a data source was deleted while it ran
    faults    \* failed calls

vars == <<source, cmd, outcome, held, removed, faults>>

Live(s) == {i \in Id : s[i] \in Url}
Registered(s, u) == \E i \in Id : s[i] = u

Init ==
    /\ source \in [Id -> Url \cup {Unborn, Gone}]
    /\ cmd = [c \in Caller |-> Idle]
    /\ outcome = [c \in Caller |-> "idle"]
    /\ held = [c \in Caller |-> FALSE]
    /\ removed = [c \in Caller |-> FALSE]
    /\ faults = 0

\* The outcomes that the data sources s and t admit for request m between them.
Creates(m, s, t) == m.op = "create" /\ \E i \in Id :
    s[i] = Unborn /\ t = [s EXCEPT ![i] = m.url]
Changes(m, s, t) ==
    \/ m.op = "update" /\ m.id \in Live(s) /\ t = [s EXCEPT ![m.id] = m.url]
    \/ m.op = "delete" /\ m.id \in Live(s) /\ t = [s EXCEPT ![m.id] = Gone]
Reads(m, s, t) == t = s /\ (m.op = "list" \/ (m.op = "get" /\ m.id \in Live(s)))
Done(m, s, t) == Creates(m, s, t) \/ Changes(m, s, t) \/ Reads(m, s, t)

\* Everyone sees every change.
Seen ==
    /\ held' = [c \in Caller |-> held[c] \/ (cmd[c] # Idle /\ Registered(source', cmd[c].url))]
    /\ removed' = [c \in Caller |-> removed[c] \/ (Live(source) \ Live(source')) # {}]

Begin(c, m) ==
    /\ outcome[c] = "idle"
    /\ cmd' = [cmd EXCEPT ![c] = m]
    /\ outcome' = [outcome EXCEPT ![c] = "running"]
    /\ held' = [held EXCEPT ![c] = Registered(source, m.url)]
    /\ removed' = [removed EXCEPT ![c] = FALSE]
    /\ UNCHANGED <<source, faults>>

End(c, result) ==
    /\ outcome[c] = "running"
    /\ outcome' = [outcome EXCEPT ![c] = result]
    /\ UNCHANGED cmd

Succeed(c) ==
    End(c, "ok") /\ Done(cmd[c], source, source') /\ Seen /\ UNCHANGED faults

Refuse(c) ==
    /\ End(c, "duplicate")
    /\ cmd[c].op = "create" /\ held[c]
    /\ UNCHANGED <<source, held, removed, faults>>

Miss(c) ==
    /\ End(c, "error")
    /\ \/ cmd[c].op = "create" /\ removed[c]
       \/ cmd[c].op \in {"get", "update", "delete"} /\ cmd[c].id \notin Live(source)
    /\ UNCHANGED <<source, held, removed, faults>>

\* A call fails, with its effect or without.
Fail(c) ==
    /\ End(c, "error")
    /\ faults < MaxFaults /\ faults' = faults + 1
    /\ source' = source \/ Done(cmd[c], source, source')
    /\ Seen

Next == \E c \in Caller :
    \/ \E m \in [op : {"create", "update", "delete", "get", "list"},
                 id : Id, url : Url] : Begin(c, m)
    \/ Succeed(c) \/ Refuse(c) \/ Miss(c) \/ Fail(c)

Spec == Init /\ [][Next]_vars
=============================================================================
