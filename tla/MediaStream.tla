---------------------------- MODULE MediaStream ----------------------------
(***************************************************************************)
(* The bidirectional media stream of a call: ProcessCallerInput and the    *)
(* session handlers.  A stream is two coroutines, the reader task that     *)
(* handles the caller's requests and the responder (the generator gRPC     *)
(* iterates), which share a queue.  A call's streams follow each other,    *)
(* one per turn, but a next one may open before the last one is closed.    *)
(*                                                                         *)
(* The SDK's conversation store is in memory, so a call to it does not     *)
(* suspend; what suspends is reading a request, verifying a token, and     *)
(* handling an event.  After responder has cancelled the reader, the       *)
(* reader's next step is the cancellation, wherever it waits.              *)
(***************************************************************************)
EXTENDS Naturals, Sequences, FiniteSets

CONSTANTS
    Stream,         \* calls of ProcessCallerInput
    Conversation,   \* conversation ids
    Nobody,         \* no stream, or no conversation yet
    MaxQueue        \* bound: responses and end markers waiting in a queue

ASSUME NobodyAssumption == Nobody \notin Stream \cup Conversation
ASSUME QueueAssumption == MaxQueue \in Nat

VARIABLES
    reader,         \* where request_reader of a stream waits
    responder,      \* the generator: taking responses, closing, done
    queue,          \* response_queue, the end marker is None in the code
    conversation,   \* conversation_id of a stream
    turn,           \* the stream's turn, and whether it is still active
    holder,         \* store: the stream registered for a conversation
    bound,          \* store: the stream whose turn a session is bound to
    cut             \* history: streams ended by the SDK or by the caller

vars == <<reader, responder, queue, conversation, turn, holder, bound, cut>>
storeVars == <<holder, bound>>

\* Where the reader handles an event of the caller.
Handling == {"starting", "input", "ending"}
Alive == {"verifying", "reading", "failing"} \cup Handling

Init ==
    /\ reader = [s \in Stream |-> "new"]
    /\ responder = [s \in Stream |-> "open"]
    /\ queue = [s \in Stream |-> << >>]
    /\ conversation = [s \in Stream |-> Nobody]
    /\ turn = [s \in Stream |-> "none"]
    /\ holder = [c \in Conversation |-> Nobody]
    /\ bound = [c \in Conversation |-> Nobody]
    /\ cut = {}

\* The reader waits where it does for something that has come.
At(s, label) == reader[s] = label /\ responder[s] = "open"
Goto(s, label) == reader' = [reader EXCEPT ![s] = label]
Put(s, item) == queue' = [queue EXCEPT ![s] = Append(@, item)]

\* The finally of request_reader, however it is left: the stream is no longer
\* registered, and the responder is told to end.
\* Fault form: the end marker is forgotten.
FinishSilent(s) ==
    /\ Goto(s, "done")
    /\ holder' = [c \in Conversation |-> IF holder[c] = s THEN Nobody ELSE holder[c]]
    /\ UNCHANGED queue
Finish(s) ==
    /\ Goto(s, "done")
    /\ holder' = [c \in Conversation |-> IF holder[c] = s THEN Nobody ELSE holder[c]]
    /\ Put(s, "end")

-----------------------------------------------------------------------------
(* The reader.                                                             *)

\* gRPC calls ProcessCallerInput and iterates it.
Open(s) ==
    /\ At(s, "new")
    /\ Goto(s, "verifying")
    /\ UNCHANGED <<responder, queue, conversation, turn, storeVars, cut>>

Verified(s) ==
    /\ At(s, "verifying")
    /\ Goto(s, "reading")
    /\ UNCHANGED <<responder, queue, conversation, turn, storeVars, cut>>

AuthFails(s) ==
    /\ At(s, "verifying")
    /\ Finish(s)
    /\ UNCHANGED <<responder, conversation, turn, bound, cut>>

\* A request of conversation c has been read, and the stream is registered for it.
Register(s, c) ==
    /\ At(s, "reading")
    /\ conversation[s] \in {Nobody, c}
    /\ conversation' = [conversation EXCEPT ![s] = c]
    /\ holder[c] \in {Nobody, s}
    /\ holder' = [holder EXCEPT ![c] = s]

\* DuplicateTurnStreamError: another stream is registered.
Refused(s, c) ==
    /\ At(s, "reading")
    /\ conversation[s] \in {Nobody, c}
    /\ conversation' = [conversation EXCEPT ![s] = c]
    /\ holder[c] \notin {Nobody, s}
    /\ Finish(s)
    /\ UNCHANGED <<responder, turn, bound, cut>>

\* SESSION_START: the session is created or found, and bound to a new turn.
\* Fault forms: no stream is registered before; the turn's stream is stored the
\* wrong way round.
StartUnregistered(s, c) ==
    /\ At(s, "reading")
    /\ conversation[s] \in {Nobody, c}
    /\ conversation' = [conversation EXCEPT ![s] = c]
    /\ bound' = [bound EXCEPT ![c] = s]
    /\ turn' = [turn EXCEPT ![s] = "active"]
    /\ Goto(s, "starting")
    /\ UNCHANGED <<responder, queue, holder, cut>>
StartSwapped(s, c) ==
    /\ Register(s, c)
    /\ bound' = [bound EXCEPT ![c] = c]
    /\ turn' = [turn EXCEPT ![s] = "active"]
    /\ Goto(s, "starting")
    /\ UNCHANGED <<responder, queue, cut>>
Start(s, c) ==
    /\ Register(s, c)
    /\ bound' = [bound EXCEPT ![c] = s]
    /\ turn' = [turn EXCEPT ![s] = "active"]
    /\ Goto(s, "starting")
    /\ UNCHANGED <<responder, queue, cut>>

\* Audio, or DTMF digits, in a turn.
Input(s, c) ==
    /\ Register(s, c)
    /\ turn[s] # "none"
    /\ Goto(s, "input")
    /\ UNCHANGED <<responder, queue, turn, bound, cut>>

\* NO_INPUT, or input before a SESSION_START of the stream.
Other(s, c) ==
    /\ Register(s, c)
    /\ UNCHANGED <<reader, responder, queue, turn, bound, cut>>

\* SESSION_END.
HangUp(s, c) ==
    /\ Register(s, c)
    /\ Goto(s, "ending")
    /\ UNCHANGED <<responder, queue, turn, bound, cut>>

\* A handler has returned: on_session_start, or that of an input.
Handled(s) ==
    /\ At(s, "starting") \/ At(s, "input")
    /\ Goto(s, "reading")
    /\ UNCHANGED <<responder, queue, conversation, turn, storeVars, cut>>

\* on_audio_input plays the audio back.
Echo(s) ==
    /\ At(s, "input")
    /\ turn[s] = "active"
    /\ Len(queue[s]) < MaxQueue
    /\ Put(s, "response")
    /\ Goto(s, "reading")
    /\ UNCHANGED <<responder, conversation, turn, storeVars, cut>>

\* on_session_end has returned, the session is released, the reader returns.
Release(s) ==
    /\ At(s, "ending")
    /\ bound' = [bound EXCEPT ![conversation[s]] = Nobody]
    /\ Finish(s)
    /\ UNCHANGED <<responder, conversation, turn, cut>>

\* The caller half-closes the stream.
RequestsEnd(s) ==
    /\ At(s, "reading")
    /\ Finish(s)
    /\ UNCHANGED <<responder, conversation, turn, bound, cut>>

\* Anything else raises: in a turn, the SDK's error handler is called.
Fails(s) ==
    /\ responder[s] = "open"
    /\ reader[s] \in Handling \cup {"reading"}
    /\ IF turn[s] # "none"
       THEN Goto(s, "failing") /\ UNCHANGED <<queue, holder>>
       ELSE Finish(s)
    /\ UNCHANGED <<responder, conversation, turn, bound, cut>>

\* The error handler returns or raises.
ErrorHandled(s) ==
    /\ At(s, "failing")
    /\ Finish(s)
    /\ UNCHANGED <<responder, conversation, turn, bound, cut>>

\* CancelledError where the reader waits.
\* Fault form: the cleanup is left out.
CancelledLeaves(s) ==
    /\ responder[s] = "closing"
    /\ reader[s] \in Alive
    /\ Goto(s, "done")
    /\ UNCHANGED <<responder, queue, conversation, turn, storeVars, cut>>
Cancelled(s) ==
    /\ responder[s] = "closing"
    /\ reader[s] \in Alive
    /\ Finish(s)
    /\ UNCHANGED <<responder, conversation, turn, bound, cut>>

-----------------------------------------------------------------------------
(* The SDK ends a turn (TurnContext.end_turn, an idle timer, the longest   *)
(* session): close_stream puts the end marker.                             *)
EndTurn(s) ==
    /\ turn[s] = "active"
    /\ reader[s] \in Alive
    /\ Len(queue[s]) < MaxQueue
    /\ turn' = [turn EXCEPT ![s] = "ended"]
    /\ cut' = cut \cup {s}
    /\ Put(s, "end")
    /\ UNCHANGED <<reader, responder, conversation, storeVars>>

\* The caller drops the stream: gRPC closes the generator.
CallerLeaves(s) ==
    /\ reader[s] # "new"
    /\ responder[s] = "open"
    /\ responder' = [responder EXCEPT ![s] = "closing"]
    /\ cut' = cut \cup {s}
    /\ UNCHANGED <<reader, queue, conversation, turn, storeVars>>

-----------------------------------------------------------------------------
(* The responder.                                                          *)

Deliver(s) ==
    /\ responder[s] = "open"
    /\ queue[s] # << >> /\ Head(queue[s]) = "response"
    /\ queue' = [queue EXCEPT ![s] = Tail(@)]
    /\ UNCHANGED <<reader, responder, conversation, turn, storeVars, cut>>

\* The end marker: the loop is left and the reader cancelled.
\* Fault form: the end of the reader ends the loop.
SeeEndEarly(s) ==
    /\ responder[s] = "open"
    /\ reader[s] = "done" \/ (queue[s] # << >> /\ Head(queue[s]) = "end")
    /\ queue' = [queue EXCEPT ![s] = SelectSeq(@, LAMBDA x : x # "end")]
    /\ responder' = [responder EXCEPT ![s] = "closing"]
    /\ UNCHANGED <<reader, conversation, turn, storeVars, cut>>
SeeEnd(s) ==
    /\ responder[s] = "open"
    /\ queue[s] # << >> /\ Head(queue[s]) = "end"
    /\ queue' = [queue EXCEPT ![s] = Tail(@)]
    /\ responder' = [responder EXCEPT ![s] = "closing"]
    /\ UNCHANGED <<reader, conversation, turn, storeVars, cut>>

\* The cancelled reader is awaited.
Close(s) ==
    /\ responder[s] = "closing"
    /\ reader[s] = "done"
    /\ responder' = [responder EXCEPT ![s] = "done"]
    /\ UNCHANGED <<reader, queue, conversation, turn, storeVars, cut>>

-----------------------------------------------------------------------------
Request(s, c) ==
    Refused(s, c) \/ Start(s, c) \/ Input(s, c) \/ Other(s, c) \/ HangUp(s, c)

\* What the server does once it has something to do.
Proceed(s) ==
    \/ Verified(s) \/ AuthFails(s) \/ Handled(s) \/ Echo(s) \/ Release(s)
    \/ ErrorHandled(s) \/ Cancelled(s)
    \/ Deliver(s) \/ SeeEnd(s) \/ Close(s)

Next ==
    \E s \in Stream :
        \/ Open(s) \/ RequestsEnd(s) \/ Fails(s) \/ EndTurn(s) \/ CallerLeaves(s)
        \/ \E c \in Conversation : Request(s, c)
        \/ Proceed(s)

Spec == Init /\ [][Next]_vars

\* Each coroutine goes on: a handler returns, a response is sent.  The caller
\* has to do nothing, and no turn has to end.
FairSpec ==
    /\ Spec
    /\ \A s \in Stream :
        /\ WF_vars(Verified(s) \/ Handled(s) \/ Echo(s) \/ Release(s))
        /\ WF_vars(ErrorHandled(s) \/ Cancelled(s))
        /\ WF_vars(Deliver(s) \/ SeeEnd(s) \/ Close(s))

-----------------------------------------------------------------------------
(* Properties.                                                             *)

\* Every variable has its type.
TypeOK ==
    /\ reader \in [Stream -> Alive \cup {"new", "done"}]
    /\ responder \in [Stream -> {"open", "closing", "done"}]
    /\ queue \in [Stream -> Seq({"response", "end"})]
    /\ conversation \in [Stream -> Conversation \cup {Nobody}]
    /\ turn \in [Stream -> {"none", "active", "ended"}]
    /\ holder \in [Conversation -> Stream \cup {Nobody}]
    /\ bound \in [Conversation -> Stream \cup {Nobody}]
    /\ cut \in SUBSET Stream

\* A stream that handles the caller's input, or reads on after its start, is the
\* one the session is bound to: a late stream, a next one that is early and an
\* end of session never take a session from under the stream that serves it.
TurnIsBound ==
    \A s \in Stream :
        turn[s] # "none" /\ reader[s] \in Alive
            => conversation[s] \in Conversation /\ bound[conversation[s]] = s

\* A registration belongs to a stream whose reader runs, so that the next stream
\* of a call is refused only while another one serves it, however that one ends.
HolderIsLive ==
    \A c \in Conversation :
        holder[c] # Nobody => reader[holder[c]] \in Alive /\ conversation[holder[c]] = c

\* A stream that neither the SDK nor the caller ended has delivered every
\* response that was put.
AnswersDelivered ==
    \A s \in Stream : responder[s] = "done" /\ s \notin cut => queue[s] = << >>

\* A stream as its caller sees it.  A cut stream owes no answers.
Stage(s) == CASE reader[s] = "new" -> "idle" [] reader[s] = "done" -> "over"
              [] OTHER -> "live"
Unsent(s) == Cardinality({i \in 1 .. Len(queue[s]) : queue[s][i] = "response"})
Line == INSTANCE CallLine WITH
    Call <- Conversation, line <- holder, session <- bound, out <- responder,
    stage <- [s \in Stream |-> Stage(s)],
    waiting <- [s \in Stream |-> IF s \in cut THEN 0 ELSE Unsent(s)]

\* Between them the reader's awaits, its finally, the queue and the responder
\* make a call one line: served, answered and given up by the stream that holds
\* it, and free again the moment that stream is over, however it ends.
ImplementsCallLine == Line!Spec

\* A stream that is over on either side is closed on both, and frees its call.
StreamEnds ==
    \A s \in Stream :
        (reader[s] = "done" \/ s \in cut)
            ~> (reader[s] = "done" /\ responder[s] = "done"
                    /\ \A c \in Conversation : holder[c] # s)
=============================================================================
