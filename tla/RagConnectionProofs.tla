------------------------- MODULE RagConnectionProofs -------------------------
(***************************************************************************)
(* Theorems about RagConnection, for any number of sockets and any limit   *)
(* on the reconnect attempts.                                              *)
(***************************************************************************)
EXTENDS RagConnection, TLAPS

LEMMA TypeStep == TypeOK /\ [Next]_vars => TypeOK'
<1> SUFFICES ASSUME TypeOK, [Next]_vars PROVE TypeOK'
  OBVIOUS
<1> USE AttemptsAssumption DEF TypeOK, States
<1>1. ASSUME NEW s \in Sockets, CallConnect(s) PROVE TypeOK'
  BY <1>1 DEF CallConnect, Connect
<1>2. ASSUME NEW s \in Sockets, SocketStep(s) PROVE TypeOK'
  <2>1. CASE Open(s) BY <2>1 DEF Open
  <2>2. CASE HandshakeFails(s) BY <2>2 DEF HandshakeFails
  <2>3. CASE CloseEvent(s)
    <3>1. CASE ScheduleReconnect
      BY <2>3, <3>1 DEF CloseEvent, ScheduleReconnect, GiveUp, Attempts
    <3>2. CASE connection' = NoSocket /\ UNCHANGED <<reconnectTimer, reconnectAttempts>>
      BY <2>3, <3>2 DEF CloseEvent
    <3> QED BY <2>3, <3>1, <3>2 DEF CloseEvent
  <2> QED BY <1>2, <2>1, <2>2, <2>3 DEF SocketStep
<1>3. ASSUME NEW s \in Sockets, ConnectionLost(s) PROVE TypeOK'
  BY <1>3 DEF ConnectionLost
<1>4. ASSUME NEW s \in Sockets, ReconnectFires(s) PROVE TypeOK'
  BY <1>4 DEF ReconnectFires, Connect
<1>5. CASE Disconnect BY <1>5 DEF Disconnect
<1>6. CASE UNCHANGED vars BY <1>6 DEF vars
<1> QED BY <1>1, <1>2, <1>3, <1>4, <1>5, <1>6 DEF Next, Reconnect

\* Every reachable state is well formed; in particular scheduleReconnect never
\* counts past MAX_RECONNECT_ATTEMPTS.
THEOREM TypeCorrect == Spec => []TypeOK
<1>1. Init => TypeOK BY AttemptsAssumption DEF Init, TypeOK, States
<1> QED BY <1>1, TypeStep, PTL DEF Spec

-----------------------------------------------------------------------------
(* Recovery.                                                              *)

\* A handler that closes a socket leaves a timer behind, or no entry.
LEMMA CloseRecovers ==
  ASSUME TypeOK, NEW s \in Sockets, CloseEvent(s)
  PROVE  reconnectTimer' = "pending" \/ connection' = NoSocket
<1>1. CASE ScheduleReconnect
  BY <1>1 DEF ScheduleReconnect, GiveUp, TypeOK
<1>2. CASE connection' = NoSocket BY <1>2
<1> QED BY <1>1, <1>2 DEF CloseEvent

LEMMA RecoveryStep == TypeOK /\ RecoveryPending /\ [Next]_vars => RecoveryPending'
<1> SUFFICES ASSUME TypeOK, RecoveryPending, [Next]_vars PROVE RecoveryPending'
  OBVIOUS
<1> USE SocketsAssumption DEF TypeOK, States, RecoveryPending
<1>1. ASSUME NEW s \in Sockets, CallConnect(s) PROVE RecoveryPending'
  BY <1>1 DEF CallConnect, Connect, Unused
<1>2. ASSUME NEW s \in Sockets, Open(s) PROVE RecoveryPending'
  BY <1>2 DEF Open
<1>3. ASSUME NEW s \in Sockets, HandshakeFails(s) PROVE RecoveryPending'
  BY <1>3 DEF HandshakeFails
<1>4. ASSUME NEW s \in Sockets, CloseEvent(s) PROVE RecoveryPending'
  BY <1>4, CloseRecovers
<1>5. ASSUME NEW s \in Sockets, ConnectionLost(s) PROVE RecoveryPending'
  BY <1>5 DEF ConnectionLost
<1>6. ASSUME NEW s \in Sockets, ReconnectFires(s) PROVE RecoveryPending'
  <2>1. CASE IsConnected
    BY <1>6, <2>1 DEF ReconnectFires, Connect, IsConnected
  <2>2. CASE ~IsConnected
    BY <1>6, <2>2 DEF ReconnectFires, Connect, Unused
  <2> QED BY <2>1, <2>2
<1>7. CASE Disconnect BY <1>7 DEF Disconnect
<1>8. CASE UNCHANGED vars BY <1>8 DEF vars
<1> QED
  BY <1>1, <1>2, <1>3, <1>4, <1>5, <1>6, <1>7, <1>8 DEF Next, SocketStep, Reconnect

\* A room whose entry is dead always has a reconnect timer, a handshake or a
\* close event ahead of it, whatever calls and sockets overlap.
THEOREM RecoveryNeverForgotten == Spec => []RecoveryPending
<1>1. Init => RecoveryPending BY DEF Init, RecoveryPending
<1> QED BY <1>1, TypeCorrect, RecoveryStep, PTL DEF Spec
=============================================================================
