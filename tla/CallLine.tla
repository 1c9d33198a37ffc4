------------------------------ MODULE CallLine ------------------------------
(***************************************************************************)
(* What the media server promises a call: one line, which one stream holds *)
(* at a time.  Only the stream that holds the line may take the call's     *)
(* session, answer in it or give it up; a stream lets go of the line in    *)
(* the step that ends it, however it ends.  A stream nobody cuts is closed *)
(* to its caller after it has ended and every answer has been delivered;   *)
(* of one that is cut no answer is promised.                               *)
(*                                                                         *)
(* A session may outlive its stream: the next holder of the line takes it. *)
(***************************************************************************)
EXTENDS Naturals

CONSTANTS Stream, Call, Nobody

VARIABLES
    stage,        \* a stream has not begun, is live, or is over
    out,          \* what the caller sees of it: open, closing, done
    waiting,      \* answers given and not delivered yet
    cut,          \* streams ended by the SDK or by the caller
    line,         \* the stream that holds a call's line
    session       \* the stream that a call's session is bound to

vars == <<stage, out, waiting, cut, line, session>>

Init ==
    /\ stage = [s \in Stream |-> "idle"]
    /\ out = [s \in Stream |-> "open"]
    /\ waiting = [s \in Stream |-> 0]
    /\ cut = {}
    /\ line = [c \in Call |-> Nobody]
    /\ session = [c \in Call |-> Nobody]

InSession(s) == stage[s] = "live" /\ \E c \in Call : line[c] = s /\ session[c] = s

Open(s) ==
    /\ stage[s] = "idle"
    /\ stage' = [stage EXCEPT ![s] = "live"]
    /\ UNCHANGED <<out, waiting, cut, line, session>>

\* The line is taken, and with it, at a session's start, the session.
Take(s, c) ==
    /\ stage[s] = "live" /\ out[s] = "open"
    /\ line[c] \in {Nobody, s}
    /\ line' = [line EXCEPT ![c] = s]
    /\ UNCHANGED <<stage, out, waiting, cut>>
    /\ session' \in {session, [session EXCEPT ![c] = s]}

Answer(s) ==
    /\ InSession(s) /\ out[s] = "open" /\ s \notin cut
    /\ waiting' = [waiting EXCEPT ![s] = @ + 1]
    /\ UNCHANGED <<stage, out, cut, line, session>>

Deliver(s) ==
    /\ out[s] = "open" /\ waiting[s] > 0
    /\ waiting' = [waiting EXCEPT ![s] = @ - 1]
    /\ UNCHANGED <<stage, out, cut, line, session>>

\* The stream is over: it holds no line any more, and may have given up the
\* session of one it held.
End(s) ==
    /\ stage[s] = "live"
    /\ stage' = [stage EXCEPT ![s] = "over"]
    /\ line' = [c \in Call |-> IF line[c] = s THEN Nobody ELSE line[c]]
    /\ UNCHANGED <<out, waiting, cut>>
    /\ \/ UNCHANGED session
       \/ \E c \in Call : line[c] = s /\ session' = [session EXCEPT ![c] = Nobody]

Cut(s) ==
    /\ cut' = cut \cup {s}
    /\ waiting' = [waiting EXCEPT ![s] = 0]
    /\ UNCHANGED <<stage, line, session>>

\* The SDK ends the turn that the stream serves.
EndTurn(s) == InSession(s) /\ Cut(s) /\ UNCHANGED out

Leave(s) ==
    /\ stage[s] # "idle" /\ out[s] = "open"
    /\ out' = [out EXCEPT ![s] = "closing"]
    /\ Cut(s)

Drained(s) ==
    /\ out[s] = "open"
    /\ s \in cut \/ (stage[s] = "over" /\ waiting[s] = 0)
    /\ out' = [out EXCEPT ![s] = "closing"]
    /\ UNCHANGED <<stage, waiting, cut, line, session>>

Close(s) ==
    /\ out[s] = "closing" /\ stage[s] = "over"
    /\ out' = [out EXCEPT ![s] = "done"]
    /\ UNCHANGED <<stage, waiting, cut, line, session>>

Next == \E s \in Stream :
    \/ Open(s) \/ Answer(s) \/ Deliver(s) \/ End(s) \/ EndTurn(s) \/ Leave(s)
    \/ Drained(s) \/ Close(s)
    \/ \E c \in Call : Take(s, c)

Spec == Init /\ [][Next]_vars
=============================================================================
