----------------------------- MODULE McpClient ------------------------------
(***************************************************************************)
(* The connection to one external tool server: connect, disconnect,        *)
(* sendRequest, sendNotification, handleStdout and handleResponse of       *)
(* McpClientService, and the tool calls of McpService, which are made only *)
(* when getConnectionState says "connected".                               *)
(*                                                                         *)
(* connections.get(name) is looked up again at every step: after an await  *)
(* of connect it may be another connection than the one connect made, and  *)
(* what a process writes is handed to the entry of its name.  A request is *)
(* kept in the connection it was sent on, with its timer.                  *)
(*                                                                         *)
(* The tool server is external: it answers what it has received in any     *)
(* order, or not, and what it had to say may arrive after it was killed.   *)
(***************************************************************************)
EXTENDS Integers, FiniteSets

CONSTANTS
  Conns,      \* McpConnection objects, with their processes
  Connects,   \* calls of connect
  ToolCalls,  \* calls of callTool
  NoConn      \* no entry in connections

Flows == Connects \cup ToolCalls

VARIABLES
  entry,      \* connections.get(name)
  state,      \* connection -> its state; "none" before it is made
  process,    \* connection -> "none", "running", "killed" (SIGTERM sent), "closed"
  requestId,  \* connection -> the last id it has given out
  pending,    \* pendingRequests: requests [conn, id, flow] with a waiting promise
  received,   \* requests the processes have yet to answer
  pc,         \* flow -> what it waits for
  own,        \* call of connect -> the connection it made
  answer      \* flow -> its last answered request, and the one the answer was for

vars == <<entry, state, process, requestId, pending, received, pc, own, answer>>

NoRequest == [conn |-> NoConn, id |-> 0, flow |-> "none"]

Init ==
  /\ entry = NoConn
  /\ state = [c \in Conns |-> "none"]
  /\ process = [c \in Conns |-> "none"]
  /\ requestId = [c \in Conns |-> 0]
  /\ pending = {}
  /\ received = {}
  /\ pc = [f \in Flows |-> "idle"]
  /\ own = [f \in Connects |-> NoConn]
  /\ answer = [f \in Flows |-> [asked |-> NoRequest, got |-> NoRequest]]

-----------------------------------------------------------------------------
\* An id, a place in pendingRequests, and a line on the stdin of the process.
NextIdRepeats(c) == 1
NextId(c) == requestId[c] + 1

SendRequest(f, c, label) ==
  LET r == [conn |-> c, id |-> NextId(c), flow |-> f] IN
  /\ requestId' = [requestId EXCEPT ![c] = NextId(c)]
  /\ pending' = {q \in pending : q.conn # c \/ q.id # r.id} \cup {r}
  /\ received' = received \cup {r}
  /\ pc' = [pc EXCEPT ![f] = label]

\* The promise f awaits is rejected; connect has a catch clause.
Rejected(f) ==
  /\ pc' = [pc EXCEPT ![f] = "failed"]
  /\ state' = IF f \in Connects THEN [state EXCEPT ![own[f]] = "error"] ELSE state

Connect(f) ==
  /\ pc[f] = "idle"
  /\ IF entry # NoConn
     THEN /\ pc' = [pc EXCEPT ![f] = "done"]       \* already connected, says the log
          /\ UNCHANGED <<entry, state, process, requestId, pending, received, own>>
     ELSE \E c \in Conns :
            /\ state[c] = "none"
            /\ entry' = c
            /\ state' = [state EXCEPT ![c] = "connecting"]
            /\ process' = [process EXCEPT ![c] = "running"]
            /\ own' = [own EXCEPT ![f] = c]
            /\ SendRequest(f, c, "initialize")
  /\ UNCHANGED answer

\* The write of the notification is done, or fails: the rest of connect.
NotificationWritten(f) ==
  /\ pc[f] = "notify"
  /\ IF entry = NoConn
     THEN /\ Rejected(f)                           \* listTools finds no server
          /\ UNCHANGED <<requestId, pending, received>>
     ELSE /\ state' = [state EXCEPT ![own[f]] = "connected"]
          /\ SendRequest(f, entry, "list")
  /\ UNCHANGED <<entry, process, own, answer>>

NotificationFails(f) ==
  /\ pc[f] = "notify"
  /\ Rejected(f)
  /\ UNCHANGED <<entry, process, requestId, pending, received, own, answer>>

DisconnectSparing ==
  /\ entry # NoConn
  /\ entry' = NoConn
  /\ UNCHANGED <<process, state, requestId, pending, received, pc, own, answer>>

Disconnect ==
  /\ entry # NoConn
  /\ entry' = NoConn
  /\ process' = [process EXCEPT ![entry] = IF @ = "running" THEN "killed" ELSE @]
  /\ UNCHANGED <<state, requestId, pending, received, pc, own, answer>>

CallTool(f) ==
  /\ pc[f] = "idle"
  /\ entry # NoConn
  /\ state[entry] = "connected"
  /\ SendRequest(f, entry, "call")
  /\ UNCHANGED <<entry, state, process, own, answer>>

-----------------------------------------------------------------------------
\* What the caller of request q does with its answer, the rest of the event.
Resolved(f) ==
  /\ pc' = [pc EXCEPT ![f] = IF pc[f] = "initialize" THEN "notify" ELSE "done"]
  /\ UNCHANGED state

\* The request is no longer pending.
Answered(q) == pending \ {q}

\* Process r.conn answers r: the entry, whichever it is, looks r.id up.
Stdout(r) ==
  /\ r \in received
  /\ process[r.conn] \in {"running", "killed"}
  /\ received' = received \ {r}
  /\ LET known == {q \in pending : q.conn = entry /\ q.id = r.id} IN
     IF known = {}
     THEN UNCHANGED <<state, pending, pc, answer>>
     ELSE \E q \in known :
            /\ pending' = Answered(q)
            /\ answer' = [answer EXCEPT ![q.flow] = [asked |-> q, got |-> r]]
            /\ Resolved(q.flow) \/ Rejected(q.flow)   \* result, or error
  /\ UNCHANGED <<entry, process, requestId, own>>

\* Which pending requests the 30 second timer of q finds.
FoundByName(q) == q.conn = entry
FoundByTimer(q) == TRUE

\* The write callback reports an error, or the timer goes off.
RequestFails(q) ==
  /\ q \in pending
  /\ FoundByTimer(q)
  /\ pending' = pending \ {q}
  /\ Rejected(q.flow)
  /\ UNCHANGED <<entry, process, requestId, received, own, answer>>

ProcessCloses(c) ==
  /\ process[c] \in {"running", "killed"}
  /\ process' = [process EXCEPT ![c] = "closed"]
  /\ state' = [state EXCEPT ![c] = "disconnected"]
  /\ received' = {r \in received : r.conn # c}
  /\ UNCHANGED <<entry, requestId, pending, pc, own, answer>>

\* The process could not be started, or not be killed.
ProcessFails(c) ==
  /\ process[c] \in {"running", "killed"}
  /\ state[c] # "error"
  /\ state' = [state EXCEPT ![c] = "error"]
  /\ UNCHANGED <<entry, process, requestId, pending, received, pc, own, answer>>

Settle(f) ==
  \/ f \in Connects /\ (NotificationWritten(f) \/ NotificationFails(f))
  \/ \E q \in pending : q.flow = f /\ RequestFails(q)

Next ==
  \/ \E f \in Connects : Connect(f)
  \/ \E f \in ToolCalls : CallTool(f)
  \/ Disconnect
  \/ \E f \in Flows : Settle(f)
  \/ \E r \in received : Stdout(r)
  \/ \E c \in Conns : ProcessCloses(c) \/ ProcessFails(c)

Spec == Init /\ [][Next]_vars

\* Writes come back and timers go off; the server need not answer.
Fairness == \A f \in Flows : WF_vars(Settle(f))

FairSpec == Spec /\ Fairness

-----------------------------------------------------------------------------
RequestRecords == [conn : Conns, id : Nat, flow : Flows]

\* The variables have their types, and a flow waits for at most one request.
TypeOK ==
  /\ entry \in Conns \cup {NoConn}
  /\ state \in [Conns -> {"none", "connecting", "connected", "disconnected", "error"}]
  /\ process \in [Conns -> {"none", "running", "killed", "closed"}]
  /\ requestId \in [Conns -> Nat]
  /\ pending \subseteq RequestRecords
  /\ received \subseteq RequestRecords
  /\ pc \in [Flows -> {"idle", "initialize", "notify", "list", "call", "done", "failed"}]
  /\ own \in [Connects -> Conns \cup {NoConn}]
  /\ \A q, r \in pending : q.flow = r.flow => q = r

\* A process that has not been told to stop is the one connections knows: whatever
\* connects, failures and disconnects overlap, none is left running behind.
OneProcess ==
  \A c \in Conns : process[c] = "running" => entry = c

\* An answer that comes from the process a request was sent to is the answer to that
\* request. (An answer of a killed predecessor may be taken for one of its successor:
\* both count their requests from 1.)
AnswersMatch ==
  \A f \in Flows :
    answer[f].asked.conn = answer[f].got.conn => answer[f].asked = answer[f].got

\* What a caller would want, and a late answer of a killed process breaks.
AnswersAreOwn ==
  \A f \in Flows : answer[f].asked = answer[f].got

\* Every tool call that was sent, and every connect, ends.
EveryRequestEnds ==
  \A f \in Flows : pc[f] # "idle" ~> pc[f] \in {"done", "failed"}
=============================================================================
