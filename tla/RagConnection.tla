---------------------------- MODULE RagConnection ----------------------------
(***************************************************************************)
(* The WebSocket of one room to the RAG server: connect, its 10 second     *)
(* timeout, the close handler, scheduleReconnect and disconnect of         *)
(* RagClientService.                                                       *)
(*                                                                         *)
(* connections.get(roomId) names the socket that opened last.  A socket is *)
(* put there by its open event and not before, and the handlers of every   *)
(* socket act on the entry of the room, whichever socket that is by then.  *)
(*                                                                         *)
(* The ws library and the network are external: a socket being connected   *)
(* opens or breaks; an open one may break or be ended by the server; a     *)
(* closing handshake of ours ends with code 1000, or with 1006 when the    *)
(* server does not answer it.                                              *)
(***************************************************************************)
EXTENDS Integers, FiniteSets

CONSTANTS
  Sockets,               \* WebSocket objects; a closed one is used again
  MaxReconnectAttempts,  \* MAX_RECONNECT_ATTEMPTS
  NoSocket               \* no entry in connections

ASSUME SocketsAssumption == NoSocket \notin Sockets
ASSUME AttemptsAssumption == MaxReconnectAttempts \in Nat

VARIABLES
  connection,        \* connections.get(roomId).ws, or NoSocket
  sock,              \* socket -> its state
  reconnectTimer,    \* reconnectTimers.has(roomId): "none" or "pending"
  reconnectAttempts, \* reconnectAttemptCounts.get(roomId) || 0
  wanted             \* history: "yes" after a caller's connect, "no" after disconnect

vars == <<connection, sock, reconnectTimer, reconnectAttempts, wanted>>

\* connecting  the handshake is under way
\* open        readyState OPEN
\* closing     we called close(1000)
\* broken      handshake refused, timed out, or connection lost
\* ended       the server sent a close frame with code 1000
\* closed      the close event has been handled, or the socket is new
States == {"connecting", "open", "closing", "broken", "ended", "closed"}

Init ==
  /\ connection = NoSocket
  /\ sock = [s \in Sockets |-> "closed"]
  /\ reconnectTimer = "none"
  /\ reconnectAttempts = 0
  /\ wanted = "no"

IsConnected == connection # NoSocket /\ sock[connection] = "open"

Unused(s) == sock[s] = "closed" /\ s # connection

\* connect(roomId): skipped when the entry's socket is open, otherwise a new
\* socket. Nothing records that a handshake is under way.
Connect(s) ==
  IF IsConnected THEN UNCHANGED sock
  ELSE sock' = [sock EXCEPT ![s] = "connecting"]

\* A caller: startBot, the LLM service, the agent router. The bound on callers
\* leaves sockets for the reconnect timer.
SpareSockets == 3

CallConnect(s) ==
  /\ Unused(s)
  /\ Cardinality({r \in Sockets : Unused(r)}) >= SpareSockets
  /\ Connect(s)
  /\ wanted' = "yes"
  /\ UNCHANGED <<connection, reconnectTimer, reconnectAttempts>>

\* The open event installs the socket over any entry there is. A pending
\* reconnect timer stays pending.
Open(s) ==
  /\ sock[s] = "connecting"
  /\ sock' = [sock EXCEPT ![s] = "open"]
  /\ connection' = s
  /\ reconnectAttempts' = 0
  /\ UNCHANGED <<reconnectTimer, wanted>>

\* The handshake is refused, or the 10 second timeout closes the socket.
HandshakeFails(s) ==
  /\ sock[s] = "connecting"
  /\ sock' = [sock EXCEPT ![s] = "broken"]
  /\ UNCHANGED <<connection, reconnectTimer, reconnectAttempts, wanted>>

\* The network, or the server, takes an open connection down.
ConnectionLost(s) ==
  /\ sock[s] = "open"
  /\ sock' \in {[sock EXCEPT ![s] = "broken"], [sock EXCEPT ![s] = "ended"]}
  /\ UNCHANGED <<connection, reconnectTimer, reconnectAttempts, wanted>>

\* scheduleReconnect(roomId): one timer at a time, at most
\* MaxReconnectAttempts without an open in between, then the entry goes.
GiveUpKeepingEntry ==
  /\ reconnectAttempts' = 0
  /\ UNCHANGED <<connection, reconnectTimer>>
GiveUp ==
  /\ connection' = NoSocket
  /\ reconnectAttempts' = 0
  /\ UNCHANGED reconnectTimer

AttemptsUncounted == reconnectAttempts
AttemptsOneMore == reconnectAttempts + 2
Attempts == reconnectAttempts + 1

ScheduleReconnect ==
  IF reconnectTimer = "pending"
  THEN UNCHANGED <<connection, reconnectTimer, reconnectAttempts>>
  ELSE IF reconnectAttempts >= MaxReconnectAttempts
       THEN GiveUp
       ELSE /\ reconnectTimer' = "pending"
            /\ reconnectAttempts' = Attempts
            /\ UNCHANGED connection

\* The close event of s, with the code the state of s allows. Code 1000
\* deletes the entry of the room, any other code schedules a reconnect.
CloseEvent(s) ==
  /\ sock' = [sock EXCEPT ![s] = "closed"]
  /\ \/ /\ sock[s] \in {"broken", "closing"}
        /\ ScheduleReconnect
     \/ /\ sock[s] \in {"ended", "closing"}
        /\ connection' = NoSocket
        /\ UNCHANGED <<reconnectTimer, reconnectAttempts>>
  /\ UNCHANGED wanted

\* The reconnect timer forgets itself and connects.
ReconnectFires(s) ==
  /\ reconnectTimer = "pending"
  /\ Unused(s)
  /\ reconnectTimer' = "none"
  /\ Connect(s)
  /\ UNCHANGED <<connection, reconnectAttempts, wanted>>

\* disconnect(roomId): the timer and the counter go; with an entry its socket
\* is closed with code 1000 and the entry goes at once. A handshake under way
\* is not touched.
Disconnect ==
  /\ reconnectTimer' = "none"
  /\ reconnectAttempts' = 0
  /\ connection' = NoSocket
  /\ sock' = [s \in Sockets |->
                IF s = connection /\ sock[s] = "open" THEN "closing" ELSE sock[s]]
  /\ wanted' = "no"

SocketStep(s) ==
  \/ Open(s)
  \/ HandshakeFails(s)
  \/ CloseEvent(s)

Reconnect == \E s \in Sockets : ReconnectFires(s)

Next ==
  \/ \E s \in Sockets : CallConnect(s) \/ SocketStep(s) \/ ConnectionLost(s)
  \/ Reconnect
  \/ Disconnect

Spec == Init /\ [][Next]_vars

\* Handshakes and closing handshakes end (the 10 second timeout, the close
\* timeout of ws) and the reconnect timer fires.
Fairness == WF_vars(Reconnect) /\ \A s \in Sockets : WF_vars(SocketStep(s))

FairSpec == Spec /\ Fairness

-----------------------------------------------------------------------------
\* Every variable has its shape; the attempts counted never exceed the limit.
TypeOK ==
  /\ connection \in Sockets \cup {NoSocket}
  /\ sock \in [Sockets -> States]
  /\ reconnectTimer \in {"none", "pending"}
  /\ reconnectAttempts \in 0..MaxReconnectAttempts
  /\ wanted \in {"yes", "no"}

\* A room whose entry names a dead socket has a recovery under way: a timer, a
\* handshake, or a close event still to come. scheduleReconnect otherwise
\* removes the entry, so nobody waits on a connection that nobody repairs.
RecoveryPending ==
  connection # NoSocket /\ sock[connection] = "closed" =>
    \/ reconnectTimer = "pending"
    \/ \E s \in Sockets : sock[s] \in {"connecting", "broken", "ended", "closing"}

\* A dead entry is replaced by an open socket, or removed after the last
\* attempt.
DeadEntryResolved ==
  (connection # NoSocket /\ sock[connection] = "closed")
    ~> (connection = NoSocket \/ sock[connection] = "open")

\* "Manage the WebSocket per roomId" (rag-client.service.ts:48), "already
\* connected" (74): a room has one open connection.
OneSocketPerRoom ==
  \A r, s \in Sockets : sock[r] = "open" /\ sock[s] = "open" => r = s

\* "On a normal close delete the connection info" (rag-client.service.ts:139):
\* the entry of an open connection goes only when that connection does.
OpenEntryKept ==
  [][connection # NoSocket /\ sock[connection] = "open" /\ connection' = NoSocket
       => sock'[connection] # "open"]_vars

\* "reconnect wait cancelled" (rag-client.service.ts:494): after disconnect the
\* room has no connection until somebody asks for one.
DisconnectIsFinal == connection # NoSocket => wanted = "yes"
=============================================================================
