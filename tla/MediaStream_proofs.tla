------------------------- MODULE MediaStream_proofs -------------------------
(***************************************************************************)
(* Theorems about MediaStream, for any streams and any conversations.      *)
(***************************************************************************)
EXTENDS MediaStream, FiniteSetTheorems, TLAPS

-----------------------------------------------------------------------------
(* Types.                                                                  *)

\* What Finish does to the variables it changes.
LEMMA FinishType ==
    ASSUME TypeOK, NEW s \in Stream, Finish(s)
    PROVE  /\ reader' \in [Stream -> Alive \cup {"new", "done"}]
           /\ queue' \in [Stream -> Seq({"response", "end"})]
           /\ holder' \in [Conversation -> Stream \cup {Nobody}]
  BY DEF TypeOK, Finish, Goto, Put

\* What registering a stream does to the variables it changes.
LEMMA RegisterType ==
    ASSUME TypeOK, NEW s \in Stream, NEW c \in Conversation, Register(s, c)
    PROVE  /\ conversation' \in [Stream -> Conversation \cup {Nobody}]
           /\ holder' \in [Conversation -> Stream \cup {Nobody}]
  BY DEF TypeOK, Register

\* Every step keeps the types.
LEMMA TypeStep ==
    ASSUME TypeOK, [Next]_vars
    PROVE  TypeOK'
<1> USE DEF vars, storeVars
<1>1. CASE UNCHANGED vars
  BY <1>1 DEF TypeOK
<1>2. ASSUME NEW s \in Stream, NEW c \in Conversation, Request(s, c)
      PROVE  TypeOK'
  <2>1. CASE Refused(s, c)
    BY <2>1, FinishType DEF Refused, TypeOK
  <2>2. CASE Start(s, c)
    BY <2>2, RegisterType DEF Start, Goto, TypeOK, Alive, Handling
  <2>3. CASE Input(s, c)
    BY <2>3, RegisterType DEF Input, Goto, TypeOK, Alive, Handling
  <2>4. CASE Other(s, c)
    BY <2>4, RegisterType DEF Other, TypeOK
  <2>5. CASE HangUp(s, c)
    BY <2>5, RegisterType DEF HangUp, Goto, TypeOK, Alive, Handling
  <2> QED
    BY <1>2, <2>1, <2>2, <2>3, <2>4, <2>5 DEF Request
<1>3. ASSUME NEW s \in Stream, Proceed(s)
      PROVE  TypeOK'
  <2>1. CASE Verified(s) \/ Handled(s)
    BY <2>1 DEF Verified, Handled, Goto, TypeOK, Alive
  <2>2. CASE AuthFails(s) \/ ErrorHandled(s) \/ Cancelled(s)
    BY <2>2, FinishType DEF AuthFails, ErrorHandled, Cancelled, TypeOK
  <2>3. CASE Echo(s)
    BY <2>3 DEF Echo, Goto, Put, TypeOK, Alive
  <2>4. CASE Release(s)
    BY <2>4, FinishType DEF Release, TypeOK
  <2>5. CASE Deliver(s) \/ SeeEnd(s)
    <3>1. Tail(queue[s]) \in Seq({"response", "end"})
      BY <2>5 DEF Deliver, SeeEnd, TypeOK
    <3>2. queue' = [queue EXCEPT ![s] = Tail(@)]
      BY <2>5 DEF Deliver, SeeEnd
    <3>3. queue' \in [Stream -> Seq({"response", "end"})]
      BY <3>1, <3>2 DEF TypeOK
    <3> QED
      BY <2>5, <3>3 DEF Deliver, SeeEnd, TypeOK
  <2>6. CASE Close(s)
    BY <2>6 DEF Close, TypeOK
  <2> QED
    BY <1>3, <2>1, <2>2, <2>3, <2>4, <2>5, <2>6 DEF Proceed
<1>4. ASSUME NEW s \in Stream,
             Open(s) \/ RequestsEnd(s) \/ Fails(s) \/ EndTurn(s) \/ CallerLeaves(s)
      PROVE  TypeOK'
  <2>1. CASE Open(s)
    BY <2>1 DEF Open, Goto, TypeOK, Alive
  <2>2. CASE RequestsEnd(s)
    BY <2>2, FinishType DEF RequestsEnd, TypeOK
  <2>3. CASE Fails(s)
    BY <2>3, FinishType DEF Fails, Goto, TypeOK, Alive
  <2>4. CASE EndTurn(s)
    BY <2>4 DEF EndTurn, Put, TypeOK
  <2>5. CASE CallerLeaves(s)
    BY <2>5 DEF CallerLeaves, TypeOK
  <2> QED
    BY <1>4, <2>1, <2>2, <2>3, <2>4, <2>5
<1> QED
  BY <1>1, <1>2, <1>3, <1>4 DEF Next

\* Type correctness of the media streams.
THEOREM TypeCorrect == Spec => []TypeOK
<1>1. Init => TypeOK
  BY DEF Init, TypeOK
<1> QED
  BY <1>1, TypeStep, PTL DEF Spec

-----------------------------------------------------------------------------
(* Registrations and sessions.                                             *)

\* A stream that handles an event is registered, and so is one with a turn; the
\* registration is what keeps another stream from the session.
Serving(s) == reader[s] \in Handling \/ (turn[s] # "none" /\ reader[s] \in Alive)
Serves(s) ==
    /\ Serving(s) => conversation[s] \in Conversation /\ holder[conversation[s]] = s
    /\ turn[s] # "none" /\ reader[s] \in Alive => bound[conversation[s]] = s
    /\ reader[s] = "new" => turn[s] = "none"
ServiceInv == \A s \in Stream : Serves(s)

\* An ended stream holds no registration, and no other stream's is disturbed.
LEMMA FinishFrees ==
    ASSUME TypeOK, NEW s \in Stream, Finish(s)
    PROVE  /\ reader'[s] = "done"
           /\ \A c \in Conversation : holder[c] = s => holder'[c] = Nobody
           /\ \A c \in Conversation : holder[c] # s => holder'[c] = holder[c]
           /\ \A t \in Stream : t # s => reader'[t] = reader[t]
  BY NobodyAssumption DEF TypeOK, Finish, Goto

\* Registrations belong to running readers, step by step.
LEMMA LiveStep ==
    ASSUME TypeOK, HolderIsLive, [Next]_vars
    PROVE  HolderIsLive'
<1> USE DEF HolderIsLive, storeVars, Alive, Handling
<1>1. CASE UNCHANGED vars
  BY <1>1 DEF vars
<1>2. ASSUME NEW s \in Stream, Finish(s),
             \A t \in Stream : t # s => conversation'[t] = conversation[t]
      PROVE  HolderIsLive'
  <2> SUFFICES ASSUME NEW d \in Conversation, holder'[d] # Nobody
               PROVE  reader'[holder'[d]] \in Alive /\ conversation'[holder'[d]] = d
    OBVIOUS
  <2>1. holder[d] # s /\ holder'[d] = holder[d] /\ holder[d] \in Stream
    BY <1>2, FinishFrees DEF TypeOK
  <2> QED
    BY <1>2, <2>1, FinishFrees
<1>3. ASSUME NEW s \in Stream, UNCHANGED <<holder, conversation>>,
             \A t \in Stream : reader[t] \in Alive => reader'[t] \in Alive
      PROVE  HolderIsLive'
  BY <1>3 DEF TypeOK
<1>4. ASSUME NEW s \in Stream, NEW c \in Conversation, Register(s, c),
             reader'[s] \in Alive, \A t \in Stream : t # s => reader'[t] = reader[t]
      PROVE  HolderIsLive'
  <2> SUFFICES ASSUME NEW d \in Conversation, holder'[d] # Nobody
               PROVE  reader'[holder'[d]] \in Alive /\ conversation'[holder'[d]] = d
    OBVIOUS
  <2>1. CASE d = c
    BY <1>4, <2>1 DEF Register, TypeOK
  <2>2. CASE d # c
    <3>1. holder'[d] = holder[d] /\ holder[d] \in Stream
      BY <1>4, <2>2 DEF Register, TypeOK
    <3>2. holder[d] # s
      BY <1>4, <2>2, <3>1, NobodyAssumption DEF Register
    <3> QED
      BY <1>4, <3>1, <3>2 DEF Register, TypeOK
  <2> QED
    BY <2>1, <2>2
<1>5. ASSUME NEW s \in Stream, NEW c \in Conversation, Request(s, c)
      PROVE  HolderIsLive'
  <2>1. CASE Refused(s, c)
    BY <1>2, <2>1 DEF Refused, TypeOK
  <2>2. CASE Start(s, c) \/ Input(s, c) \/ Other(s, c) \/ HangUp(s, c)
    <3>1. Register(s, c)
      BY <2>2 DEF Start, Input, Other, HangUp
    <3>2. reader'[s] \in Alive /\ \A t \in Stream : t # s => reader'[t] = reader[t]
      BY <2>2, <3>1 DEF Start, Input, Other, HangUp, Register, At, Goto, TypeOK
    <3> QED
      BY <1>4, <3>1, <3>2
  <2> QED
    BY <1>5, <2>1, <2>2 DEF Request
<1>6. ASSUME NEW s \in Stream, Proceed(s)
      PROVE  HolderIsLive'
  <2>1. CASE Verified(s) \/ Handled(s) \/ Echo(s)
    <3>1. UNCHANGED <<holder, conversation>>
      BY <2>1 DEF Verified, Handled, Echo
    <3>2. \A t \in Stream : reader[t] \in Alive => reader'[t] \in Alive
      BY <2>1 DEF Verified, Handled, Echo, Goto, TypeOK
    <3> QED
      BY <1>3, <3>1, <3>2
  <2>2. CASE AuthFails(s) \/ ErrorHandled(s) \/ Cancelled(s) \/ Release(s)
    BY <1>2, <2>2 DEF AuthFails, ErrorHandled, Cancelled, Release
  <2>3. CASE Deliver(s) \/ SeeEnd(s) \/ Close(s)
    BY <1>3, <2>3 DEF Deliver, SeeEnd, Close
  <2> QED
    BY <1>6, <2>1, <2>2, <2>3 DEF Proceed
<1>7. ASSUME NEW s \in Stream,
             Open(s) \/ RequestsEnd(s) \/ Fails(s) \/ EndTurn(s) \/ CallerLeaves(s)
      PROVE  HolderIsLive'
  <2>1. CASE Open(s) \/ EndTurn(s) \/ CallerLeaves(s)
    <3>1. UNCHANGED <<holder, conversation>>
      BY <2>1 DEF Open, EndTurn, CallerLeaves
    <3>2. \A t \in Stream : reader[t] \in Alive => reader'[t] \in Alive
      BY <2>1 DEF Open, EndTurn, CallerLeaves, Goto, TypeOK
    <3> QED
      BY <1>3, <3>1, <3>2
  <2>2. CASE RequestsEnd(s)
    BY <1>2, <2>2 DEF RequestsEnd
  <2>3. CASE Fails(s)
    <3>1. CASE turn[s] = "none"
      BY <1>2, <2>3, <3>1 DEF Fails
    <3>2. CASE turn[s] # "none"
      <4>1. \A t \in Stream : reader[t] \in Alive => reader'[t] \in Alive
        BY <2>3, <3>2 DEF Fails, Goto, TypeOK
      <4> QED
        BY <1>3, <2>3, <3>2, <4>1 DEF Fails
    <3> QED
      BY <3>1, <3>2
  <2> QED
    BY <1>7, <2>1, <2>2, <2>3
<1> QED
  BY <1>1, <1>5, <1>6, <1>7 DEF Next

\* HolderIsLive: a call is never blocked by a stream that has ended.
THEOREM EndedStreamsAreFree == Spec => []HolderIsLive
<1>1. Init => HolderIsLive
  BY NobodyAssumption DEF Init, HolderIsLive
<1> QED
  BY <1>1, LiveStep, TypeCorrect, PTL DEF Spec

\* A step of stream s leaves every other stream as it is, with its registrations
\* and the sessions of those.
Apart(s) ==
    \A t \in Stream :
        t # s =>
            /\ reader'[t] = reader[t]
            /\ turn'[t] = turn[t]
            /\ conversation'[t] = conversation[t]
            /\ \A c \in Conversation :
                holder[c] = t => holder'[c] = t /\ bound'[c] = bound[c]

\* Then only the stream that steps has to be looked at.
LEMMA OwnStep ==
    ASSUME ServiceInv, NEW s \in Stream, Apart(s), Serves(s)'
    PROVE  ServiceInv'
<1> SUFFICES ASSUME NEW t \in Stream, t # s
             PROVE  Serves(t)'
  BY DEF ServiceInv
<1>1. Serves(t)
  BY DEF ServiceInv
<1>2. /\ reader'[t] = reader[t] /\ turn'[t] = turn[t]
      /\ conversation'[t] = conversation[t]
      /\ \A c \in Conversation : holder[c] = t => holder'[c] = t /\ bound'[c] = bound[c]
  BY DEF Apart
<1>3. Serving(t)' <=> Serving(t)
  BY <1>2 DEF Serving, Alive, Handling
<1>4. Serving(t) => /\ conversation'[t] \in Conversation
                    /\ holder'[conversation'[t]] = t
                    /\ bound'[conversation'[t]] = bound[conversation[t]]
  BY <1>1, <1>2 DEF Serves
<1>5. turn[t] # "none" /\ reader[t] \in Alive => Serving(t)
  BY DEF Serving
<1> QED
  BY <1>1, <1>2, <1>3, <1>4, <1>5 DEF Serves, Alive, Handling

\* A stream that ends leaves the others alone.
LEMMA FinishServes ==
    ASSUME TypeOK, ServiceInv, NEW s \in Stream, Finish(s), UNCHANGED <<turn, bound>>,
           \A t \in Stream : t # s => conversation'[t] = conversation[t]
    PROVE  ServiceInv'
<1>1. Apart(s)
  BY FinishFrees DEF Apart
<1>2. reader'[s] = "done"
  BY FinishFrees
<1>3. Serves(s)'
  BY <1>2 DEF Serves, Serving, Alive, Handling
<1> QED
  BY <1>1, <1>3, OwnStep

\* So does one that registers, the store refusing what another one holds.
LEMMA RegisterApart ==
    ASSUME TypeOK, NEW s \in Stream, NEW c \in Conversation, Register(s, c),
           \A t \in Stream : t # s => reader'[t] = reader[t] /\ turn'[t] = turn[t],
           \A d \in Conversation : d # c => bound'[d] = bound[d]
    PROVE  Apart(s) /\ conversation'[s] = c /\ holder'[c] = s
<1>1. conversation'[s] = c /\ holder'[c] = s
  BY DEF Register, TypeOK
<1>2. \A t \in Stream : t # s => conversation'[t] = conversation[t]
  BY DEF Register, TypeOK
<1>3. ASSUME NEW t \in Stream, t # s, NEW d \in Conversation, holder[d] = t
      PROVE  holder'[d] = t /\ bound'[d] = bound[d]
  <2>1. d # c
    BY <1>3, NobodyAssumption DEF Register
  <2> QED
    BY <1>3, <2>1 DEF Register, TypeOK
<1> QED
  BY <1>1, <1>2, <1>3 DEF Apart

\* Requests keep the streams apart.
LEMMA RequestStep ==
    ASSUME TypeOK, ServiceInv, NEW s \in Stream, NEW c \in Conversation, Request(s, c)
    PROVE  ServiceInv'
<1>1. CASE Refused(s, c)
  BY <1>1, FinishServes DEF Refused, TypeOK
<1>2. CASE Start(s, c)
  <2>1. /\ Register(s, c) /\ reader'[s] = "starting" /\ turn'[s] = "active"
        /\ \A t \in Stream : t # s => reader'[t] = reader[t] /\ turn'[t] = turn[t]
        /\ \A d \in Conversation : d # c => bound'[d] = bound[d]
        /\ bound'[c] = s
    BY <1>2 DEF Start, Goto, TypeOK
  <2>2. Apart(s) /\ conversation'[s] = c /\ holder'[c] = s
    BY <2>1, RegisterApart
  <2>3. Serves(s)'
    BY <2>1, <2>2 DEF Serves
  <2> QED
    BY <2>2, <2>3, OwnStep
<1>3. CASE Input(s, c) \/ Other(s, c) \/ HangUp(s, c)
  <2>1. /\ Register(s, c) /\ UNCHANGED <<turn, bound>> /\ reader[s] = "reading"
        /\ \A t \in Stream : t # s => reader'[t] = reader[t]
    BY <1>3 DEF Input, Other, HangUp, Register, At, Goto, TypeOK
  <2>2. reader'[s] \in {"reading", "input", "ending"}
    BY <1>3, <2>1 DEF Input, Other, HangUp, Goto, TypeOK
  <2>3. Apart(s) /\ conversation'[s] = c /\ holder'[c] = s
    BY <2>1, RegisterApart
  <2>4. turn[s] # "none" => bound[c] = s
    <3>1. turn[s] # "none" => conversation[s] \in Conversation /\ bound[conversation[s]] = s
      BY <2>1 DEF ServiceInv, Serves, Serving, Alive
    <3>2. conversation[s] \in {Nobody, c}
      BY <2>1 DEF Register
    <3> QED
      BY <3>1, <3>2, NobodyAssumption
  <2>5. Serves(s)'
    BY <2>1, <2>2, <2>3, <2>4 DEF Serves
  <2> QED
    BY <2>3, <2>5, OwnStep
<1> QED
  BY <1>1, <1>2, <1>3 DEF Request

\* A step of s alone that keeps its registration, its session and whether it
\* serves the call.
LEMMA QuietStep ==
    ASSUME TypeOK, ServiceInv, NEW s \in Stream, UNCHANGED <<conversation, holder, bound>>,
           \A t \in Stream : t # s => reader'[t] = reader[t] /\ turn'[t] = turn[t],
           reader'[s] # "new" \/ UNCHANGED <<reader, turn>>,
           Serving(s)' => Serving(s),
           turn'[s] # "none" => turn[s] # "none",
           reader'[s] \in Alive /\ turn'[s] # "none" => reader[s] \in Alive
    PROVE  ServiceInv'
<1>1. Apart(s)
  BY DEF Apart
<1>2. Serves(s)
  BY DEF ServiceInv
<1>3. Serves(s)'
  BY <1>2 DEF Serves, Serving
<1> QED
  BY <1>1, <1>3, OwnStep

\* What the server does keeps the streams apart.
LEMMA ProceedStep ==
    ASSUME TypeOK, ServiceInv, NEW s \in Stream, Proceed(s)
    PROVE  ServiceInv'
<1> USE DEF storeVars
<1>1. CASE Verified(s) \/ Handled(s) \/ Echo(s)
  <2>1. /\ UNCHANGED <<conversation, turn, holder, bound>> /\ reader[s] \in Alive
        /\ reader'[s] = "reading"
        /\ \A t \in Stream : t # s => reader'[t] = reader[t]
    BY <1>1 DEF Verified, Handled, Echo, At, Goto, TypeOK, Alive, Handling
  <2> QED
    BY <2>1, QuietStep DEF Serving, Alive, Handling
<1>2. CASE AuthFails(s) \/ ErrorHandled(s) \/ Cancelled(s)
  BY <1>2, FinishServes DEF AuthFails, ErrorHandled, Cancelled
<1>3. CASE Release(s)
  <2>1. conversation[s] \in Conversation /\ holder[conversation[s]] = s
    BY <1>3 DEF Release, At, ServiceInv, Serves, Serving, Handling
  <2>2. \A d \in Conversation : holder[d] # s => bound'[d] = bound[d]
    BY <1>3, <2>1 DEF Release, TypeOK
  <2>3. Finish(s) /\ UNCHANGED <<turn, conversation>>
    BY <1>3 DEF Release
  <2>4. Apart(s)
    BY <2>2, <2>3, FinishFrees DEF Apart
  <2>5. reader'[s] = "done"
    BY <2>3, FinishFrees
  <2>6. Serves(s)'
    BY <2>5 DEF Serves, Serving, Alive, Handling
  <2> QED
    BY <2>4, <2>6, OwnStep
<1>4. CASE Deliver(s) \/ SeeEnd(s) \/ Close(s)
  BY <1>4 DEF Deliver, SeeEnd, Close, ServiceInv, Serves, Serving
<1> QED
  BY <1>1, <1>2, <1>3, <1>4 DEF Proceed

\* Every step keeps each call to the stream that serves it.
LEMMA ServiceStep ==
    ASSUME TypeOK, ServiceInv, [Next]_vars
    PROVE  ServiceInv'
<1> USE DEF storeVars
<1>1. CASE UNCHANGED vars
  BY <1>1 DEF vars, ServiceInv, Serves, Serving
<1>2. ASSUME NEW s \in Stream, Open(s)
      PROVE  ServiceInv'
  <2>1. /\ UNCHANGED <<conversation, turn, holder, bound>> /\ reader[s] = "new"
        /\ reader'[s] = "verifying"
        /\ \A t \in Stream : t # s => reader'[t] = reader[t]
    BY <1>2 DEF Open, At, Goto, TypeOK
  <2>2. turn[s] = "none"
    BY <2>1 DEF ServiceInv, Serves
  <2> QED
    BY <2>1, <2>2, QuietStep DEF Serving, Alive, Handling
<1>3. ASSUME NEW s \in Stream, RequestsEnd(s)
      PROVE  ServiceInv'
  BY <1>3, FinishServes DEF RequestsEnd
<1>4. ASSUME NEW s \in Stream, Fails(s)
      PROVE  ServiceInv'
  <2>1. CASE turn[s] = "none"
    BY <1>4, <2>1, FinishServes DEF Fails
  <2>2. CASE turn[s] # "none"
    <3>1. /\ UNCHANGED <<conversation, turn, holder, bound>> /\ reader[s] \in Alive
          /\ reader'[s] = "failing"
          /\ \A t \in Stream : t # s => reader'[t] = reader[t]
      BY <1>4, <2>2 DEF Fails, Goto, TypeOK, Alive
    <3> QED
      BY <2>2, <3>1, QuietStep DEF Serving, Alive, Handling
  <2> QED
    BY <2>1, <2>2
<1>5. ASSUME NEW s \in Stream, EndTurn(s)
      PROVE  ServiceInv'
  <2>1. /\ UNCHANGED <<conversation, reader, holder, bound>>
        /\ turn[s] = "active" /\ reader[s] \in Alive
        /\ \A t \in Stream : t # s => turn'[t] = turn[t]
    BY <1>5 DEF EndTurn, TypeOK
  <2>2. reader'[s] # "new"
    BY <2>1 DEF Alive, Handling
  <2> QED
    BY <2>1, <2>2, QuietStep DEF Serving
<1>6. ASSUME NEW s \in Stream, CallerLeaves(s)
      PROVE  ServiceInv'
  BY <1>6 DEF CallerLeaves, ServiceInv, Serves, Serving
<1> QED
  BY <1>1, <1>2, <1>3, <1>4, <1>5, <1>6, RequestStep, ProceedStep DEF Next

\* TurnIsBound: a session is never taken from under the stream that serves it.
THEOREM SessionsStayBound == Spec => []TurnIsBound
<1>1. Init => ServiceInv
  BY DEF Init, ServiceInv, Serves, Serving, Alive, Handling
<1>2. ServiceInv => TurnIsBound
  BY DEF ServiceInv, Serves, Serving, TurnIsBound
<1> QED
  BY <1>1, <1>2, ServiceStep, TypeCorrect, PTL DEF Spec

-----------------------------------------------------------------------------
(* The queue of a stream nobody cut.  The reader puts the only end marker, *)
(* as its last act, so the responder cannot see it before the responses.   *)

Waiting(s) == \A i \in 1 .. Len(queue[s]) : queue[s][i] = "response"
Ending(s) ==
    /\ queue[s] # << >>
    /\ \A i \in 1 .. Len(queue[s]) : queue[s][i] = "end" <=> i = Len(queue[s])
Orderly(s) ==
    \/ reader[s] # "done" /\ responder[s] = "open" /\ Waiting(s)
    \/ reader[s] = "done" /\ responder[s] = "open" /\ Ending(s)
    \/ reader[s] = "done" /\ responder[s] # "open" /\ queue[s] = << >>
QueueInv == \A s \in Stream : s \notin cut => Orderly(s)

\* A step of stream s leaves the queue and both coroutines of any other alone.
LEMMA OwnQueue ==
    ASSUME QueueInv, NEW s \in Stream,
           \A t \in Stream : t # s => /\ reader'[t] = reader[t]
                                     /\ responder'[t] = responder[t]
                                     /\ queue'[t] = queue[t],
           cut \subseteq cut', s \notin cut' => Orderly(s)'
    PROVE  QueueInv'
<1> SUFFICES ASSUME NEW t \in Stream, t \notin cut', t # s
             PROVE  Orderly(t)'
  BY DEF QueueInv
<1>1. Orderly(t)
  BY DEF QueueInv
<1> QED
  BY <1>1 DEF Orderly, Waiting, Ending

\* The reader ends: what waits is followed by the end marker.
LEMMA FinishQueue ==
    ASSUME TypeOK, QueueInv, NEW s \in Stream, Finish(s), UNCHANGED <<responder, cut>>,
           s \in cut \/ (responder[s] = "open" /\ reader[s] # "done")
    PROVE  QueueInv'
<1>1. /\ \A t \in Stream : t # s => reader'[t] = reader[t] /\ queue'[t] = queue[t]
      /\ reader'[s] = "done" /\ queue'[s] = Append(queue[s], "end")
      /\ queue[s] \in Seq({"response", "end"})
  BY DEF TypeOK, Finish, Goto, Put
<1>2. ASSUME s \notin cut
      PROVE  Orderly(s)'
  <2>1. Waiting(s) /\ responder'[s] = "open"
    BY <1>2 DEF QueueInv, Orderly
  <2>2. Ending(s)'
    BY <1>1, <2>1 DEF Waiting, Ending
  <2> QED
    BY <1>1, <2>1, <2>2 DEF Orderly
<1> QED
  BY <1>1, <1>2, OwnQueue

\* The reader moves and puts nothing.
LEMMA ReaderQueue ==
    ASSUME TypeOK, QueueInv, NEW s \in Stream, UNCHANGED <<responder, queue, cut>>,
           \A t \in Stream : t # s => reader'[t] = reader[t],
           reader[s] # "done", reader'[s] # "done"
    PROVE  QueueInv'
  BY DEF QueueInv, Orderly, Waiting, Ending

\* What the server does keeps the queues in order.
LEMMA ProceedQueue ==
    ASSUME TypeOK, QueueInv, NEW s \in Stream, Proceed(s)
    PROVE  QueueInv'
<1> USE DEF storeVars
<1>0. s \notin cut => Orderly(s)
  BY DEF QueueInv
<1>1. CASE Verified(s) \/ Handled(s)
  <2>1. /\ UNCHANGED <<responder, queue, cut>>
        /\ \A t \in Stream : t # s => reader'[t] = reader[t]
        /\ reader[s] # "done" /\ reader'[s] # "done"
    BY <1>1 DEF Verified, Handled, At, Goto, TypeOK
  <2> QED
    BY <2>1, ReaderQueue
<1>2. CASE AuthFails(s) \/ ErrorHandled(s) \/ Release(s)
  BY <1>2, FinishQueue DEF AuthFails, ErrorHandled, Release, At
<1>3. CASE Echo(s)
  <2>1. /\ UNCHANGED <<responder, cut>>
        /\ \A t \in Stream : t # s => reader'[t] = reader[t] /\ queue'[t] = queue[t]
        /\ reader[s] # "done" /\ reader'[s] # "done" /\ responder[s] = "open"
        /\ queue'[s] = Append(queue[s], "response")
        /\ queue[s] \in Seq({"response", "end"})
    BY <1>3 DEF Echo, At, Goto, Put, TypeOK
  <2>2. s \notin cut => Waiting(s)
    BY <1>0, <2>1 DEF Orderly
  <2>3. s \notin cut => Waiting(s)'
    BY <2>1, <2>2 DEF Waiting
  <2> QED
    BY <2>1, <2>3, OwnQueue DEF Orderly
<1>4. CASE Cancelled(s)
  BY <1>0, <1>4, FinishQueue DEF Cancelled, Orderly, Alive, Handling
<1>5. CASE Deliver(s) \/ SeeEnd(s)
  <2>1. /\ UNCHANGED <<reader, cut>> /\ responder[s] = "open"
        /\ queue[s] \in Seq({"response", "end"}) /\ queue[s] # << >>
        /\ queue'[s] = Tail(queue[s])
        /\ \A t \in Stream : t # s => responder'[t] = responder[t] /\ queue'[t] = queue[t]
    BY <1>5 DEF Deliver, SeeEnd, TypeOK
  <2>2. ASSUME s \notin cut, Deliver(s)
        PROVE  Orderly(s)'
    <3>1. responder'[s] = "open" /\ queue[s][1] = "response"
      BY <2>1, <2>2 DEF Deliver
    <3>2. /\ Len(queue'[s]) = Len(queue[s]) - 1
          /\ \A i \in 1 .. Len(queue'[s]) : queue'[s][i] = queue[s][i + 1]
      BY <2>1
    <3>3. CASE reader[s] # "done"
      <4>1. Waiting(s)
        BY <1>0, <2>1, <2>2, <3>3 DEF Orderly
      <4>2. Waiting(s)'
        <5> SUFFICES ASSUME NEW i \in 1 .. Len(queue'[s])
                     PROVE  queue'[s][i] = "response"
          BY DEF Waiting
        <5>1. i + 1 \in 1 .. Len(queue[s]) /\ queue'[s][i] = queue[s][i + 1]
          BY <2>1, <3>2
        <5> QED
          BY <4>1, <5>1 DEF Waiting
      <4> QED
        BY <2>1, <3>1, <3>3, <4>2 DEF Orderly
    <3>4. CASE reader[s] = "done"
      <4>1. Ending(s)
        BY <1>0, <2>1, <2>2, <3>4 DEF Orderly
      <4>2. Len(queue[s]) > 1
        <5>1. Len(queue[s]) \in Nat /\ Len(queue[s]) > 0
          BY <2>1
        <5>2. 1 \in 1 .. Len(queue[s])
          BY <5>1
        <5> QED
          BY <3>1, <4>1, <5>1, <5>2 DEF Ending
      <4>3. Ending(s)'
        <5>1. queue'[s] # << >>
          <6> DEFINE m == Len(queue[s])
                     n == Len(queue'[s])
          <6>1. m \in Nat /\ m > 1 /\ n = m - 1
            BY <2>1, <3>2, <4>2
          <6> HIDE DEF m, n
          <6>2. n # 0
            BY <6>1
          <6> USE DEF n
          <6>3. Len(<< >>) = 0
            OBVIOUS
          <6> QED
            BY <6>2, <6>3
        <5>2. ASSUME NEW i \in 1 .. Len(queue'[s])
              PROVE  queue'[s][i] = "end" <=> i = Len(queue'[s])
          <6>1. i + 1 \in 1 .. Len(queue[s]) /\ queue'[s][i] = queue[s][i + 1]
            BY <2>1, <3>2
          <6>2. i + 1 = Len(queue[s]) <=> i = Len(queue'[s])
            BY <2>1, <3>2
          <6> QED
            BY <4>1, <6>1, <6>2 DEF Ending
        <5> QED
          BY <5>1, <5>2 DEF Ending
      <4> QED
        BY <2>1, <3>1, <3>4, <4>3 DEF Orderly
    <3> QED
      BY <3>3, <3>4
  <2>3. ASSUME s \notin cut, SeeEnd(s)
        PROVE  Orderly(s)'
    <3>1. responder'[s] = "closing" /\ queue[s][1] = "end"
      BY <2>1, <2>3 DEF SeeEnd, TypeOK
    <3>2. reader[s] = "done" /\ Ending(s)
      BY <1>0, <2>1, <2>3, <3>1 DEF Orderly, Waiting
    <3>3. Len(queue[s]) = 1
      <4>1. Len(queue[s]) \in Nat /\ Len(queue[s]) > 0
        BY <2>1
      <4>2. 1 \in 1 .. Len(queue[s])
        BY <4>1
      <4> QED
        BY <3>1, <3>2, <4>2 DEF Ending
    <3>4. queue'[s] = << >>
      <4>1. queue'[s] \in Seq({"response", "end"}) /\ Len(queue'[s]) = 0
        BY <2>1, <3>3
      <4> QED
        BY <4>1
    <3> QED
      BY <2>1, <3>1, <3>2, <3>4 DEF Orderly
  <2> QED
    BY <1>5, <2>1, <2>2, <2>3, OwnQueue
<1>6. CASE Close(s)
  <2>1. /\ UNCHANGED <<reader, queue, cut>> /\ responder[s] # "open"
        /\ responder'[s] # "open" /\ reader[s] = "done"
        /\ \A t \in Stream : t # s => responder'[t] = responder[t]
    BY <1>6 DEF Close, TypeOK
  <2>2. s \notin cut => Orderly(s)'
    BY <1>0, <2>1 DEF Orderly
  <2> QED
    BY <2>1, <2>2, OwnQueue
<1> QED
  BY <1>1, <1>2, <1>3, <1>4, <1>5, <1>6 DEF Proceed

\* Every step keeps the queues in order.
LEMMA QueueStep ==
    ASSUME TypeOK, QueueInv, [Next]_vars
    PROVE  QueueInv'
<1> USE DEF storeVars
<1>1. CASE UNCHANGED vars
  BY <1>1 DEF vars, QueueInv, Orderly, Waiting, Ending
<1>2. ASSUME NEW s \in Stream, NEW c \in Conversation, Request(s, c)
      PROVE  QueueInv'
  <2>1. CASE Refused(s, c)
    BY <2>1, FinishQueue DEF Refused, At
  <2>2. CASE Start(s, c) \/ Input(s, c) \/ Other(s, c) \/ HangUp(s, c)
    <3>1. reader[s] = "reading" /\ UNCHANGED <<responder, queue, cut>>
      BY <2>2 DEF Start, Input, Other, HangUp, Register, At
    <3>2. /\ \A t \in Stream : t # s => reader'[t] = reader[t]
          /\ reader'[s] # "done"
      BY <2>2, <3>1 DEF Start, Input, Other, HangUp, Goto, TypeOK
    <3> QED
      BY <3>1, <3>2, ReaderQueue
  <2> QED
    BY <1>2, <2>1, <2>2 DEF Request
<1>3. ASSUME NEW s \in Stream, Open(s)
      PROVE  QueueInv'
  <2>1. /\ UNCHANGED <<responder, queue, cut>>
        /\ \A t \in Stream : t # s => reader'[t] = reader[t]
        /\ reader[s] # "done" /\ reader'[s] # "done"
    BY <1>3 DEF Open, At, Goto, TypeOK
  <2> QED
    BY <2>1, ReaderQueue
<1>4. ASSUME NEW s \in Stream, RequestsEnd(s)
      PROVE  QueueInv'
  BY <1>4, FinishQueue DEF RequestsEnd, At
<1>5. ASSUME NEW s \in Stream, Fails(s)
      PROVE  QueueInv'
  <2>1. reader[s] # "done" /\ responder[s] = "open" /\ UNCHANGED <<responder, cut>>
    BY <1>5 DEF Fails, Handling
  <2>2. CASE turn[s] = "none"
    BY <1>5, <2>1, <2>2, FinishQueue DEF Fails
  <2>3. CASE turn[s] # "none"
    <3>1. /\ UNCHANGED queue /\ reader'[s] # "done"
          /\ \A t \in Stream : t # s => reader'[t] = reader[t]
      BY <1>5, <2>3 DEF Fails, Goto, TypeOK
    <3> QED
      BY <2>1, <3>1, ReaderQueue
  <2> QED
    BY <2>2, <2>3
<1>6. ASSUME NEW s \in Stream, EndTurn(s) \/ CallerLeaves(s)
      PROVE  QueueInv'
  <2>1. /\ UNCHANGED reader /\ cut' = cut \cup {s}
        /\ \A t \in Stream : t # s => responder'[t] = responder[t] /\ queue'[t] = queue[t]
    BY <1>6 DEF EndTurn, CallerLeaves, Put, TypeOK
  <2> QED
    BY <2>1, OwnQueue
<1> QED
  BY <1>1, <1>2, <1>3, <1>4, <1>5, <1>6, ProceedQueue DEF Next

\* AnswersDelivered: a stream that ends by itself leaves no response behind.
THEOREM AnswersAreDelivered == Spec => []AnswersDelivered
<1>1. Init => QueueInv
  BY DEF Init, QueueInv, Orderly, Waiting
<1>2. QueueInv => AnswersDelivered
  BY DEF QueueInv, Orderly, AnswersDelivered
<1> QED
  BY <1>1, <1>2, QueueStep, TypeCorrect, PTL DEF Spec

-----------------------------------------------------------------------------
(* The line of a call.  Stages and Owing are the mapped variables.         *)

Stages == [s \in Stream |-> Stage(s)]
Owing == [s \in Stream |-> IF s \in cut THEN 0 ELSE Unsent(s)]

\* What a queue with its responses first owes.
LEMMA Owed ==
    \A q \in Seq({"response", "end"}) : \A n \in 0 .. Len(q) :
        (\A i \in 1 .. Len(q) : q[i] = "response" <=> i <= n)
            => Cardinality({i \in 1 .. Len(q) : q[i] = "response"}) = n
<1> SUFFICES ASSUME NEW q \in Seq({"response", "end"}), NEW n \in 0 .. Len(q),
                    \A i \in 1 .. Len(q) : q[i] = "response" <=> i <= n
             PROVE  Cardinality({i \in 1 .. Len(q) : q[i] = "response"}) = n
  OBVIOUS
<1>1. {i \in 1 .. Len(q) : q[i] = "response"} = 1 .. n
  OBVIOUS
<1>2. Cardinality(1 .. n) = n
  <2>1. n \in Int /\ 1 \in Int
    OBVIOUS
  <2>2. Cardinality(1 .. n) = IF 1 > n THEN 0 ELSE n - 1 + 1
    BY <2>1, FS_Interval
  <2> QED
    BY <2>2
<1> QED
  BY <1>1, <1>2

\* A stream that nobody has cut owes what its queue holds up to the end marker.
OwingKnown == \A s \in Stream : s \notin cut =>
    Owing[s] = IF responder[s] # "open" THEN 0
               ELSE IF reader[s] = "done" THEN Len(queue[s]) - 1
               ELSE Len(queue[s])
LEMMA OwedSoFar == TypeOK /\ QueueInv => OwingKnown
<1> SUFFICES ASSUME TypeOK, QueueInv, NEW s \in Stream, s \notin cut
             PROVE  Owing[s] = IF responder[s] # "open" THEN 0
                               ELSE IF reader[s] = "done" THEN Len(queue[s]) - 1
                               ELSE Len(queue[s])
  BY DEF OwingKnown
<1>1. Owing[s] = Cardinality({i \in 1 .. Len(queue[s]) : queue[s][i] = "response"})
  BY DEF Owing, Unsent
<1>2. queue[s] \in Seq({"response", "end"}) /\ Len(queue[s]) \in Nat
  BY DEF TypeOK
<1>3. Orderly(s)
  BY DEF QueueInv
<1>4. CASE reader[s] # "done" /\ responder[s] = "open" /\ Waiting(s)
  BY <1>1, <1>2, <1>4, Owed DEF Waiting
<1>5. CASE reader[s] = "done" /\ responder[s] = "open" /\ Ending(s)
  <2>1. Len(queue[s]) > 0
    BY <1>2, <1>5 DEF Ending
  <2>2. Len(queue[s]) - 1 \in 0 .. Len(queue[s])
    BY <1>2, <2>1
  <2>3. \A i \in 1 .. Len(queue[s]) :
            queue[s][i] = "response" <=> i <= Len(queue[s]) - 1
    <3> SUFFICES ASSUME NEW i \in 1 .. Len(queue[s])
                 PROVE  queue[s][i] = "response" <=> i <= Len(queue[s]) - 1
      OBVIOUS
    <3>1. queue[s][i] \in {"response", "end"}
      BY <1>2
    <3>2. queue[s][i] = "end" <=> i = Len(queue[s])
      BY <1>5 DEF Ending
    <3> QED
      BY <1>2, <3>1, <3>2
  <2>4. Cardinality({i \in 1 .. Len(queue[s]) : queue[s][i] = "response"})
            = Len(queue[s]) - 1
    BY <1>2, <2>2, <2>3, Owed
  <2> QED
    BY <1>1, <1>5, <2>4
<1>6. CASE reader[s] = "done" /\ responder[s] # "open" /\ queue[s] = << >>
  <2>1. Len(queue[s]) = 0
    BY <1>6
  <2>2. Cardinality({i \in 1 .. Len(queue[s]) : queue[s][i] = "response"}) = 0
    BY <1>2, <2>1, Owed
  <2> QED
    BY <1>1, <1>6, <2>2
<1> QED
  BY <1>3, <1>4, <1>5, <1>6 DEF Orderly

\* A step of one stream changes the stage of no other one.
LEMMA StagesFrame ==
    ASSUME NEW s \in Stream, \A t \in Stream : t # s => reader'[t] = reader[t]
    PROVE  Stages' = [Stages EXCEPT ![s] = Stage(s)']
  BY DEF Stages, Stage

\* Nor what it owes.
LEMMA OwingFrame ==
    ASSUME NEW s \in Stream,
           \A t \in Stream :
               t # s => queue'[t] = queue[t] /\ (t \in cut' <=> t \in cut)
    PROVE  Owing' = [Owing EXCEPT ![s] = Owing[s]']
<1>1. \A t \in Stream : t # s => Unsent(t)' = Unsent(t)
  BY DEF Unsent
<1>2. \A t \in Stream : t # s => Owing[t]' = Owing[t]
  BY <1>1 DEF Owing
<1> QED
  BY <1>2 DEF Owing

\* And does so after a step.
LEMMA OwedNext == (TypeOK /\ QueueInv)' => OwingKnown'
  BY OwedSoFar, PTL

\* A step that nobody outside sees.
LEMMA LineKept ==
    ASSUME Stages' = Stages, Owing' = Owing, UNCHANGED <<responder, cut, holder, bound>>
    PROVE  UNCHANGED Line!vars
  BY DEF Line!vars, Stages, Owing

\* The finally of the reader ends the stream and frees its line.
LEMMA FinishEnds ==
    ASSUME TypeOK, NEW s \in Stream, Finish(s), reader[s] \in Alive,
           UNCHANGED <<responder, cut>>,
           \/ UNCHANGED bound
           \/ \E c \in Conversation : holder[c] = s /\ bound' = [bound EXCEPT ![c] = Nobody]
    PROVE  Line!End(s)
<1>1. Stages' = [Stages EXCEPT ![s] = "over"] /\ Stages[s] = "live"
  <2>1. reader'[s] = "done" /\ \A t \in Stream : t # s => reader'[t] = reader[t]
    BY FinishFrees
  <2>2. Stage(s)' = "over"
    BY <2>1 DEF Stage
  <2>3. Stage(s) = "live"
    BY DEF Stage, Alive, Handling
  <2> QED
    BY <2>1, <2>2, <2>3, StagesFrame DEF Stages
<1>2. Owing' = Owing
  <2>1. /\ queue'[s] = Append(queue[s], "end")
        /\ \A t \in Stream : t # s => queue'[t] = queue[t]
        /\ queue[s] \in Seq({"response", "end"})
    BY DEF Finish, Put, TypeOK
  <2>2. {i \in 1 .. Len(queue'[s]) : queue'[s][i] = "response"}
          = {i \in 1 .. Len(queue[s]) : queue[s][i] = "response"}
    BY <2>1
  <2>3. \A t \in Stream : Unsent(t)' = Unsent(t)
    BY <2>1, <2>2 DEF Unsent
  <2> QED
    BY <2>3 DEF Owing
<1>3. holder' = [c \in Conversation |-> IF holder[c] = s THEN Nobody ELSE holder[c]]
  BY DEF Finish
<1> QED
  BY <1>1, <1>2, <1>3 DEF Line!End, Stages, Owing

\* A request registers its stream.
LEMMA RegisterTakes ==
    ASSUME TypeOK, NEW s \in Stream, NEW c \in Conversation, Register(s, c),
           reader'[s] \in Alive, \A t \in Stream : t # s => reader'[t] = reader[t],
           UNCHANGED <<responder, queue, cut>>,
           bound' \in {bound, [bound EXCEPT ![c] = s]}
    PROVE  Line!Take(s, c)
<1>1. Stages[s] = "live" /\ responder[s] = "open"
  BY DEF Register, At, Stages, Stage
<1>2. Stages' = Stages
  BY DEF Register, At, Stages, Stage, Alive, Handling
<1>3. Owing' = Owing
  BY DEF Owing, Unsent
<1>4. holder[c] \in {Nobody, s} /\ holder' = [holder EXCEPT ![c] = s]
  BY DEF Register
<1> QED
  BY <1>1, <1>2, <1>3, <1>4 DEF Line!Take, Stages, Owing

\* A stream whose turn is active holds its line and the session.
LEMMA ServesInSession ==
    ASSUME TypeOK, ServiceInv, NEW s \in Stream, turn[s] # "none", reader[s] \in Alive
    PROVE  Line!InSession(s)
<1>1. /\ conversation[s] \in Conversation
      /\ holder[conversation[s]] = s /\ bound[conversation[s]] = s
  BY DEF ServiceInv, Serves, Serving
<1>2. Stages[s] = "live"
  BY DEF Stages, Stage, Alive, Handling
<1> QED
  BY <1>1, <1>2 DEF Line!InSession, Stages

\* Every request is a step of the line.
LEMMA RequestOnLine ==
    ASSUME TypeOK, NEW s \in Stream, NEW c \in Conversation, Request(s, c)
    PROVE  Line!End(s) \/ Line!Take(s, c)
<1>1. CASE Refused(s, c)
  BY <1>1, FinishEnds DEF Refused, At, Alive
<1>2. CASE Start(s, c)
  <2>1. /\ Register(s, c) /\ reader'[s] \in Alive
        /\ \A t \in Stream : t # s => reader'[t] = reader[t]
    BY <1>2 DEF Start, Goto, TypeOK, Alive, Handling
  <2> QED
    BY <1>2, <2>1, RegisterTakes DEF Start
<1>3. CASE Input(s, c) \/ Other(s, c) \/ HangUp(s, c)
  <2>1. Register(s, c) /\ reader[s] = "reading" /\ UNCHANGED <<responder, queue, bound, cut>>
    BY <1>3 DEF Input, Other, HangUp, Register, At
  <2>2. reader'[s] \in Alive /\ \A t \in Stream : t # s => reader'[t] = reader[t]
    BY <1>3, <2>1 DEF Input, Other, HangUp, Goto, TypeOK, Alive, Handling
  <2> QED
    BY <2>1, <2>2, RegisterTakes
<1> QED
  BY <1>1, <1>2, <1>3 DEF Request

\* So is what the server does.
LEMMA ProceedOnLine ==
    ASSUME TypeOK, ServiceInv, QueueInv, (TypeOK /\ QueueInv)', NEW s \in Stream, Proceed(s)
    PROVE  \/ UNCHANGED Line!vars
           \/ Line!Answer(s) \/ Line!Deliver(s) \/ Line!End(s)
           \/ Line!Drained(s) \/ Line!Close(s)
<1> USE DEF storeVars
<1>0. OwingKnown /\ OwingKnown'
  BY OwedSoFar, OwedNext
<1>1. CASE Verified(s) \/ Handled(s)
  <2>1. /\ UNCHANGED <<responder, queue, holder, bound, cut>>
        /\ reader' = [reader EXCEPT ![s] = "reading"]
        /\ reader[s] \in {"verifying", "starting", "input"}
    BY <1>1 DEF Verified, Handled, At, Goto
  <2>2. Stages' = Stages
    BY <2>1 DEF TypeOK, Stages, Stage
  <2>3. Owing' = Owing
    BY <2>1 DEF Owing, Unsent
  <2> QED
    BY <2>1, <2>2, <2>3, LineKept
<1>2. CASE AuthFails(s) \/ ErrorHandled(s) \/ Cancelled(s)
  BY <1>2, FinishEnds DEF AuthFails, ErrorHandled, Cancelled, At, Alive
<1>3. CASE Release(s)
  <2>1. conversation[s] \in Conversation /\ holder[conversation[s]] = s
    BY <1>3 DEF Release, At, ServiceInv, Serves, Serving, Handling
  <2>2. Finish(s) /\ reader[s] \in Alive /\ UNCHANGED <<responder, cut>>
    BY <1>3 DEF Release, At, Alive, Handling
  <2>3. bound' = [bound EXCEPT ![conversation[s]] = Nobody]
    BY <1>3 DEF Release
  <2> QED
    BY <2>1, <2>2, <2>3, FinishEnds
<1>4. CASE Echo(s)
  <2>1. /\ UNCHANGED <<responder, cut, holder, bound>>
        /\ responder[s] = "open" /\ reader[s] = "input" /\ turn[s] = "active"
        /\ reader' = [reader EXCEPT ![s] = "reading"]
        /\ queue' = [queue EXCEPT ![s] = Append(@, "response")]
    BY <1>4 DEF Echo, At, Goto, Put
  <2>2. Stages' = Stages
    BY <2>1 DEF Stages, Stage, TypeOK
  <2>3. \A t \in Stream : t # s => queue'[t] = queue[t] /\ (t \in cut' <=> t \in cut)
    BY <2>1 DEF TypeOK
  <2>4. Owing' = [Owing EXCEPT ![s] = Owing[s]']
    BY <2>3, OwingFrame
  <2>5. CASE s \in cut
    <3>1. Owing[s]' = Owing[s]
      BY <2>1, <2>5 DEF Owing
    <3>2. Owing' = Owing
      BY <2>4, <3>1 DEF Owing
    <3> QED
      BY <2>1, <2>2, <3>2, LineKept
  <2>6. CASE s \notin cut
    <3>1. Len(queue'[s]) = Len(queue[s]) + 1 /\ reader'[s] = "reading"
      BY <2>1 DEF TypeOK
    <3>2. Owing[s] = Len(queue[s]) /\ Owing[s]' = Len(queue'[s])
      BY <1>0, <2>1, <2>6, <3>1 DEF OwingKnown
    <3>3. Owing' = [Owing EXCEPT ![s] = @ + 1]
      BY <2>4, <3>1, <3>2
    <3>4. Line!InSession(s)
      BY <2>1, ServesInSession DEF Alive, Handling
    <3> QED
      BY <2>1, <2>2, <2>6, <3>3, <3>4 DEF Line!Answer, Stages, Owing
  <2> QED
    BY <2>5, <2>6
<1>5. CASE Deliver(s)
  <2>1. /\ UNCHANGED <<reader, responder, cut, holder, bound>>
        /\ responder[s] = "open" /\ queue[s] # << >> /\ Head(queue[s]) = "response"
        /\ queue' = [queue EXCEPT ![s] = Tail(@)]
        /\ queue[s] \in Seq({"response", "end"})
    BY <1>5 DEF Deliver, TypeOK
  <2>2. Stages' = Stages
    BY <2>1 DEF Stages, Stage
  <2>3. \A t \in Stream : t # s => queue'[t] = queue[t] /\ (t \in cut' <=> t \in cut)
    BY <2>1 DEF TypeOK
  <2>4. Owing' = [Owing EXCEPT ![s] = Owing[s]']
    BY <2>3, OwingFrame
  <2>5. CASE s \in cut
    <3>1. Owing[s]' = Owing[s]
      BY <2>1, <2>5 DEF Owing
    <3>2. Owing' = Owing
      BY <2>4, <3>1 DEF Owing
    <3> QED
      BY <2>1, <2>2, <3>2, LineKept
  <2>6. CASE s \notin cut
    <3>1. queue'[s] = Tail(queue[s])
      BY <2>1 DEF TypeOK
    <3>2. Len(queue[s]) \in Nat \ {0} /\ Len(queue'[s]) = Len(queue[s]) - 1
      <4>1. Len(queue[s]) \in Nat /\ Len(queue[s]) # 0
        BY <2>1
      <4>2. Len(Tail(queue[s])) = Len(queue[s]) - 1
        BY <2>1, <4>1
      <4> QED
        BY <3>1, <4>1, <4>2
    <3>3. Owing[s]' = Owing[s] - 1
      BY <1>0, <2>1, <2>6, <3>2 DEF OwingKnown
    <3>4. reader[s] = "done" => Len(queue[s]) > 1
      <4> SUFFICES ASSUME reader[s] = "done"
                   PROVE  Len(queue[s]) # 1
        <5>1. \A n \in Nat \ {0} : n # 1 => n > 1
          OBVIOUS
        <5> QED
          BY <3>2, <5>1
      <4>1. Ending(s)
        BY <2>1, <2>6 DEF QueueInv, Orderly
      <4>2. queue[s][1] = "response" /\ 1 \in 1 .. Len(queue[s])
        BY <2>1, <3>2
      <4>3. queue[s][1] = "end" <=> 1 = Len(queue[s])
        BY <4>1, <4>2 DEF Ending
      <4> QED
        BY <4>2, <4>3
    <3>5. Owing[s] > 0
      BY <1>0, <2>1, <2>6, <3>2, <3>4 DEF OwingKnown
    <3>6. Owing' = [Owing EXCEPT ![s] = @ - 1]
      BY <2>4, <3>3
    <3> QED
      BY <2>1, <2>2, <3>5, <3>6 DEF Line!Deliver, Stages, Owing
  <2> QED
    BY <2>5, <2>6
<1>6. CASE SeeEnd(s)
  <2>1. /\ UNCHANGED <<reader, cut, holder, bound>>
        /\ responder[s] = "open" /\ queue[s] # << >> /\ Head(queue[s]) = "end"
        /\ queue' = [queue EXCEPT ![s] = Tail(@)]
        /\ responder' = [responder EXCEPT ![s] = "closing"]
        /\ queue[s] \in Seq({"response", "end"})
    BY <1>6 DEF SeeEnd, TypeOK
  <2>2. Stages' = Stages
    BY <2>1 DEF Stages, Stage
  <2>3. \A t \in Stream : t # s => queue'[t] = queue[t] /\ (t \in cut' <=> t \in cut)
    BY <2>1 DEF TypeOK
  <2>4. Owing' = [Owing EXCEPT ![s] = Owing[s]']
    BY <2>3, OwingFrame
  <2>5. CASE s \in cut
    <3>1. Owing[s]' = Owing[s]
      BY <2>1, <2>5 DEF Owing
    <3>2. Owing' = Owing
      BY <2>4, <3>1 DEF Owing
    <3> QED
      BY <2>1, <2>2, <2>5, <3>2 DEF Line!Drained, Stages, Owing
  <2>6. CASE s \notin cut
    <3>1. Len(queue[s]) \in Nat /\ 1 \in 1 .. Len(queue[s]) /\ queue[s][1] = "end"
      BY <2>1
    <3>2. reader[s] = "done" /\ Ending(s)
      BY <2>1, <2>6, <3>1 DEF QueueInv, Orderly, Waiting
    <3>3. Len(queue[s]) = 1
      BY <3>1, <3>2 DEF Ending
    <3>4. Owing[s] = 0
      <4>1. Owing[s] = Len(queue[s]) - 1
        BY <1>0, <2>1, <2>6, <3>2 DEF OwingKnown
      <4> QED
        BY <3>3, <4>1
    <3>5. responder'[s] # "open"
      BY <2>1 DEF TypeOK
    <3>6. Owing[s]' = 0
      BY <1>0, <2>1, <2>6, <3>5 DEF OwingKnown
    <3>7. Owing' = Owing
      BY <2>4, <3>4, <3>6 DEF Owing
    <3>8. Stages[s] = "over"
      BY <3>2 DEF Stages, Stage
    <3> QED
      BY <2>1, <2>2, <3>4, <3>7, <3>8 DEF Line!Drained, Stages, Owing
  <2> QED
    BY <2>5, <2>6
<1>7. CASE Close(s)
  <2>1. Stages' = Stages /\ Owing' = Owing
    BY <1>7 DEF Close, Stages, Stage, Owing, Unsent
  <2>2. Stages[s] = "over"
    BY <1>7 DEF Close, Stages, Stage
  <2> QED
    BY <1>7, <2>1, <2>2 DEF Close, Line!Close, Stages, Owing
<1> QED
  BY <1>1, <1>2, <1>3, <1>4, <1>5, <1>6, <1>7 DEF Proceed

\* And what the caller and the SDK do.
LEMMA OutsideOnLine ==
    ASSUME TypeOK, ServiceInv, NEW s \in Stream,
           Open(s) \/ RequestsEnd(s) \/ Fails(s) \/ EndTurn(s) \/ CallerLeaves(s)
    PROVE  \/ UNCHANGED Line!vars
           \/ Line!Open(s) \/ Line!End(s) \/ Line!EndTurn(s) \/ Line!Leave(s)
<1> USE DEF storeVars
<1>1. CASE Open(s)
  <2>1. Stages' = [Stages EXCEPT ![s] = "live"] /\ Stages[s] = "idle" /\ Owing' = Owing
    BY <1>1 DEF Open, At, Goto, TypeOK, Stages, Stage, Owing, Unsent
  <2> QED
    BY <1>1, <2>1 DEF Open, Line!Open, Stages, Owing
<1>2. CASE RequestsEnd(s)
  BY <1>2, FinishEnds DEF RequestsEnd, At, Alive
<1>3. CASE Fails(s)
  <2>1. reader[s] \in Alive /\ UNCHANGED <<responder, bound, cut, conversation>>
    BY <1>3 DEF Fails, Alive
  <2>2. CASE turn[s] = "none"
    BY <1>3, <2>1, <2>2, FinishEnds DEF Fails
  <2>3. CASE turn[s] # "none"
    <3>1. reader' = [reader EXCEPT ![s] = "failing"] /\ UNCHANGED <<queue, holder>>
      BY <1>3, <2>3 DEF Fails, Goto
    <3>2. Stages' = Stages /\ Owing' = Owing
      BY <2>1, <3>1 DEF TypeOK, Stages, Stage, Owing, Unsent, Alive, Handling
    <3> QED
      BY <2>1, <3>1, <3>2, LineKept
  <2> QED
    BY <2>2, <2>3
<1>4. ASSUME UNCHANGED <<reader, holder, bound>>, cut' = cut \cup {s},
             \A t \in Stream : t # s => queue'[t] = queue[t]
      PROVE  Line!Cut(s)
  <2>1. Stages' = Stages
    BY <1>4 DEF Stages, Stage
  <2>2. \A t \in Stream : t # s => queue'[t] = queue[t] /\ (t \in cut' <=> t \in cut)
    BY <1>4
  <2>3. Owing' = [Owing EXCEPT ![s] = Owing[s]']
    BY <2>2, OwingFrame
  <2>4. Owing[s]' = 0
    BY <1>4 DEF Owing
  <2> QED
    BY <1>4, <2>1, <2>3, <2>4 DEF Line!Cut, Stages, Owing
<1>5. CASE EndTurn(s)
  <2>1. Line!Cut(s)
    BY <1>4, <1>5 DEF EndTurn, Put, TypeOK
  <2>2. Line!InSession(s)
    BY <1>5, ServesInSession DEF EndTurn
  <2> QED
    BY <1>5, <2>1, <2>2 DEF EndTurn, Line!EndTurn
<1>6. CASE CallerLeaves(s)
  <2>1. Line!Cut(s)
    BY <1>4, <1>6 DEF CallerLeaves
  <2>2. Stages[s] # "idle"
    BY <1>6 DEF CallerLeaves, Stages, Stage
  <2> QED
    BY <1>6, <2>1, <2>2 DEF CallerLeaves, Line!Leave, Stages, Owing
<1> QED
  BY <1>1, <1>2, <1>3, <1>5, <1>6

\* ImplementsCallLine: every step of the coroutines, of the caller and of the
\* SDK is one of the line, or nobody outside sees it.
THEOREM CallLineRefinement == Spec => ImplementsCallLine
<1>1. Init => Line!Init
  <2> SUFFICES ASSUME Init
               PROVE  Line!Init
    OBVIOUS
  <2>1. Stages = [s \in Stream |-> "idle"]
    BY DEF Init, Stages, Stage
  <2>2. Owing = [s \in Stream |-> 0]
    <3>1. TypeOK /\ QueueInv
      BY DEF Init, TypeOK, QueueInv, Orderly, Waiting
    <3>2. OwingKnown
      BY <3>1, OwedSoFar
    <3>3. \A s \in Stream : Owing[s] = Len(<< >>)
      BY <3>2 DEF Init, OwingKnown
    <3> QED
      BY <3>3 DEF Owing
  <2> QED
    BY <2>1, <2>2 DEF Init, Line!Init, Stages, Owing
<1>2. TypeOK /\ ServiceInv /\ QueueInv /\ (TypeOK /\ QueueInv)' /\ [Next]_vars
        => [Line!Next]_(Line!vars)
  <2> SUFFICES ASSUME TypeOK, ServiceInv, QueueInv, (TypeOK /\ QueueInv)', [Next]_vars
               PROVE  [Line!Next]_(Line!vars)
    OBVIOUS
  <2>1. CASE UNCHANGED vars
    <3>1. Stages' = Stages /\ Owing' = Owing
      BY <2>1 DEF vars, Stages, Stage, Owing, Unsent
    <3> QED
      BY <2>1, <3>1, LineKept DEF vars
  <2>2. ASSUME NEW s \in Stream, NEW c \in Conversation, Request(s, c)
        PROVE  Line!Next
    BY <2>2, RequestOnLine DEF Line!Next
  <2>3. ASSUME NEW s \in Stream, Proceed(s)
        PROVE  [Line!Next]_(Line!vars)
    BY <2>3, ProceedOnLine DEF Line!Next
  <2>4. ASSUME NEW s \in Stream,
               Open(s) \/ RequestsEnd(s) \/ Fails(s) \/ EndTurn(s) \/ CallerLeaves(s)
        PROVE  [Line!Next]_(Line!vars)
    BY <2>4, OutsideOnLine DEF Line!Next
  <2> QED
    BY <2>1, <2>2, <2>3, <2>4 DEF Next
<1>3. Init => TypeOK /\ ServiceInv /\ QueueInv
  BY DEF Init, TypeOK, ServiceInv, Serves, Serving, Alive, Handling, QueueInv, Orderly, Waiting
<1> QED
  BY <1>1, <1>2, <1>3, TypeStep, ServiceStep, QueueStep, PTL
  DEF Spec, ImplementsCallLine, Line!Spec
=============================================================================
