--------------------------- MODULE CatalogRegister ---------------------------
(***************************************************************************)
(* What the virtual agent catalog promises: a register of valid catalogs.  *)
(* A write that runs alone to its end replaces the content, at once and    *)
(* exactly, by what its writer meant when it began.  A write cut short or  *)
(* overlapped by another spoils the content until the next one that runs   *)
(* alone.  Readers get the content, or of a spoiled one some valid catalog *)
(* or nothing; instances write only the seed, and only while nothing has   *)
(* been written; a command starts from a valid catalog and adds or removes *)
(* at most one agent.                                                      *)
(*                                                                         *)
(* It does not promise that a command's write still finds the catalog the  *)
(* command read, nor that an instance stores its answers in order.         *)
(***************************************************************************)
CONSTANTS
    Agent,          \* virtual agent ids
    Server,         \* instances
    Operator,       \* terminals
    Value,          \* the catalogs an instance may serve
    Seed            \* the catalog of the seed file

VARIABLES
    whole,          \* the last write to finish ran alone and none began since
    content,        \* then, what it wrote
    seeded,         \* some write has finished
    planned,        \* writers that know what to write
    writing,        \* writers that have begun to
    solo,           \* the writer that has been alone since it began
    intent,         \* what each writer writes
    shown,          \* the catalog an instance serves
    answers         \* catalogs an instance has read and not stored yet

vars == <<whole, content, seeded, planned, writing, solo, intent, shown, answers>>
registerVars == <<whole, content, seeded>>
writerVars == <<planned, writing, solo, intent>>
serverVars == <<shown, answers>>

Nothing == [a \in Agent |-> "absent"]

Init ==
    /\ whole = TRUE /\ content = Nothing /\ seeded = FALSE
    /\ planned = {} /\ writing = {} /\ solo = {}
    /\ intent = [w \in Server \cup Operator |-> Nothing]
    /\ shown = [s \in Server |-> Nothing]
    /\ answers = [s \in Server |-> {}]

\* What a reader may find: while whole, only the content.
Readable(c) == c \in Value /\ (whole => c = content)

\* The catalogs c and d differ in the presence of at most one agent.
Near(c, d) == \E a \in Agent : \A b \in Agent \ {a} :
    (c[b] = "absent") = (d[b] = "absent")

Plan(w, choices) ==
    /\ w \notin planned \cup writing
    /\ planned' = planned \cup {w}
    /\ UNCHANGED <<registerVars, writing, solo, serverVars>>
    /\ \E c \in choices : intent' = [intent EXCEPT ![w] = c]

SeedOnce(s) == ~seeded /\ Plan(s, {Seed})

Command(o) == Plan(o, {d \in Value : \E c \in Value : Readable(c) /\ Near(c, d)})

Open(w) ==
    /\ w \in planned
    /\ planned' = planned \ {w}
    /\ writing' = writing \cup {w}
    /\ solo' = IF writing = {} THEN {w} ELSE {}
    /\ whole' = FALSE /\ content' = Nothing
    /\ UNCHANGED <<seeded, intent, serverVars>>

End(w) ==
    /\ writing' = writing \ {w} /\ solo' = solo \ {w}
    /\ intent' = [intent EXCEPT ![w] = Nothing]
    /\ UNCHANGED serverVars

Finish(w) ==
    /\ w \in writing
    /\ End(w)
    /\ whole' = (w \in solo)
    /\ content' = IF w \in solo THEN intent[w] ELSE Nothing
    /\ seeded' = TRUE
    /\ UNCHANGED planned

Cut(w) ==
    /\ w \in planned \cup writing
    /\ End(w)
    /\ planned' = planned \ {w}
    /\ UNCHANGED registerVars

Start(s) ==
    /\ shown[s] = Nothing
    /\ UNCHANGED <<registerVars, writerVars, answers>>
    /\ \E c \in Value : Readable(c) /\ shown' = [shown EXCEPT ![s] = c]

Read(s) ==
    /\ shown[s] # Nothing
    /\ UNCHANGED <<registerVars, writerVars, shown>>
    /\ \E c \in Value : Readable(c) /\ answers' = [answers EXCEPT ![s] = @ \cup {c}]

Store(s) ==
    /\ UNCHANGED <<registerVars, writerVars>>
    /\ \E c \in answers[s] :
         /\ shown' = [shown EXCEPT ![s] = c]
         /\ answers' = [answers EXCEPT ![s] = @ \ {c}]

Stop(s) ==
    /\ shown' = [shown EXCEPT ![s] = Nothing]
    /\ answers' = [answers EXCEPT ![s] = {}]
    /\ UNCHANGED <<registerVars, writerVars>>

Next ==
    \/ \E w \in Server \cup Operator : Open(w) \/ Finish(w) \/ Cut(w)
    \/ \E o \in Operator : Command(o)
    \/ \E s \in Server : SeedOnce(s) \/ Start(s) \/ Read(s) \/ Store(s) \/ Stop(s)

Spec == Init /\ [][Next]_vars
=============================================================================
