----------------------------- MODULE ReleaseLine -----------------------------
(***************************************************************************)
(* What the release pipeline promises: releases are published in the order *)
(* of their commits, production is given what is published last when it is *)
(* tried, never an image older than one it has served nor one that does    *)
(* not answer, and runs turn green in the order of their commits, each     *)
(* while its own release or a later one serves.                            *)
(*                                                                         *)
(* It does not promise that production serves: it may stop at any time.    *)
(***************************************************************************)
EXTENDS Naturals

CONSTANTS
    Run,          \* releases, numbered as their commits
    Broken        \* those whose image never answers

VARIABLES
    published,    \* the image that tasks are started from
    trial,        \* the image being tried, if any
    serving,      \* the image in service, if any
    newest,       \* the newest image that has been in service
    green         \* the runs that have succeeded

vars == <<published, trial, serving, newest, green>>

Init ==
    /\ published = 0
    /\ trial = {}
    /\ serving = {0}
    /\ newest = 0
    /\ green = {}

Publish(r) ==
    /\ r > published
    /\ published' = r
    /\ UNCHANGED <<trial, serving, newest, green>>

Try ==
    /\ trial' = {published}
    /\ UNCHANGED <<published, serving, newest, green>>

Serve ==
    /\ \E k \in trial \ Broken : k >= newest /\ serving' = {k} /\ newest' = k
    /\ trial' = {}
    /\ UNCHANGED <<published, green>>

\* A trial fails or is given up, a task dies, the service is scaled down.
Stop ==
    /\ trial' \in {{}, trial} /\ serving' \in {{}, serving}
    /\ UNCHANGED <<published, newest, green>>

Succeed(r) ==
    /\ \E k \in serving : k >= r
    /\ \A q \in green : q < r
    /\ green' = green \cup {r}
    /\ UNCHANGED <<published, trial, serving, newest>>

Next == Try \/ Serve \/ Stop \/ \E r \in Run : Publish(r) \/ Succeed(r)

Spec == Init /\ [][Next]_vars
=============================================================================
