------------------------- MODULE BotLifecycleProofs -------------------------
(***************************************************************************)
(* Theorems about BotLifecycle, for any number of calls and participants.  *)
(***************************************************************************)
EXTENDS BotLifecycle, TLAPS

-----------------------------------------------------------------------------
(* Type correctness, action by action.                                     *)

\* The awaits inside stopBot, common to the three kinds of flow.
LEMMA FlowType ==
  ASSUME TypeOK, NEW f \in Flows, FlowStep(f)
  PROVE  TypeOK'
<1>1. CASE RagDisconnected(f)
  BY <1>1 DEF RagDisconnected, Goto, TypeOK, Labels, server, shutdown
<1>2. CASE RoomDisconnected(f)
  <2>1. AfterStopBot(f) \in Labels \ {"ragOff", "roomOff"}
    BY DEF AfterStopBot, Labels
  <2>2. victim[f] \in Starts
    BY <1>2 DEF RoomDisconnected, TypeOK
  <2> QED
    BY <1>2, <2>1, <2>2 DEF RoomDisconnected, ActiveAfterStop, Goto, TypeOK, shutdown
<1> QED BY <1>1, <1>2 DEF FlowStep

\* The rest of a start.
LEMMA StartType ==
  ASSUME TypeOK, NEW f \in Starts, StartStep(f)
  PROVE  TypeOK'
<1>0. f \in Flows BY DEF Flows
<1>1. CASE ListBotIdentities(f)
  BY <1>0, <1>1 DEF ListBotIdentities, Goto, TypeOK, Labels, server, shutdown
<1>2. ASSUME NEW b \in Starts, RemoveParticipant(f, b) PROVE TypeOK'
  BY <1>0, <1>2 DEF RemoveParticipant, Drop, Goto, TypeOK, Labels, shutdown
<1>3. CASE StartBot(f)
  BY <1>0, <1>3 DEF StartBot, Goto, TypeOK, Labels, server, shutdown
<1>4. CASE Connected(f)
  BY <1>0, <1>4 DEF Connected, Present, Goto, TypeOK, Labels, shutdown
<1>5. CASE ConnectFailed(f)
  BY <1>0, <1>5 DEF ConnectFailed, Goto, TypeOK, Labels, server, shutdown
<1>6. CASE TrackPublished(f)
  BY <1>0, <1>6 DEF TrackPublished, Goto, TypeOK, Labels, server, shutdown
<1>7. CASE PublishFailed(f)
  BY <1>0, <1>7 DEF PublishFailed, Goto, TypeOK, Labels, server, shutdown
<1> QED BY <1>1, <1>2, <1>3, <1>4, <1>5, <1>6, <1>7 DEF StartStep

\* The rest of a shutdown.
LEMMA CleanupType ==
  ASSUME TypeOK, NEW f \in Cleanups, CleanupStep(f)
  PROVE  TypeOK'
<1>0. f \in Flows BY DEF Flows
<1>1. CASE DeleteRoom(f)
  BY <1>0, <1>1 DEF DeleteRoom, Drop, Goto, TypeOK, Labels, server, shutdown
<1>2. CASE CleanupRoomInDatabase(f)
  BY <1>0, <1>2 DEF CleanupRoomInDatabase, Goto, TypeOK, Labels, server, shutdown
<1> QED BY <1>1, <1>2 DEF CleanupStep

\* What bot b hears from its room.
LEMMA EventsType ==
  ASSUME TypeOK, NEW b \in Starts, RoomEvents(b)
  PROVE  TypeOK'
<1>1. CASE Disconnected(b)
  BY <1>1 DEF Disconnected, TypeOK
<1>2. ASSUME NEW p \in Humans \cup Starts, ParticipantConnected(b, p) PROVE TypeOK'
  BY <1>2 DEF ParticipantConnected, CancelShutdown, TypeOK, server, shutdown
<1>3. ASSUME NEW p \in Humans \cup Starts, ParticipantDisconnected(b, p) PROVE TypeOK'
  BY <1>3 DEF ParticipantDisconnected, ArmShutdown, TypeOK, server, shutdown
<1> QED BY <1>1, <1>2, <1>3 DEF RoomEvents

\* The shutdown timer of context c.
LEMMA TimerType ==
  ASSUME TypeOK, NEW c \in Starts, NEW t \in TimerIds, ShutdownTimeout(c, t)
  PROVE  TypeOK'
<1>1. CASE active = NoBot
  BY <1>1 DEF ShutdownTimeout, TypeOK, server, shutdown
<1>2. CASE active # NoBot
  <2>1. pc' \in [Flows -> Labels] /\ victim' \in [Flows -> Starts \cup {NoBot}]
    BY <1>2 DEF ShutdownTimeout, StopBot, Goto, TypeOK, Labels
  <2>2. \A f \in Flows : pc'[f] \in {"ragOff", "roomOff"} => victim'[f] \in Starts
    BY <1>2 DEF ShutdownTimeout, StopBot, Goto, TypeOK
  <2>3. shutdownTimeout' \in [Starts -> TimerIds \cup {NoTimer}]
    BY <1>2 DEF ShutdownTimeout, TypeOK
  <2>4. timers' \in [Starts -> SUBSET TimerIds]
    BY <1>2 DEF ShutdownTimeout, TypeOK
  <2> QED BY <2>1, <2>2, <2>3, <2>4 DEF ShutdownTimeout, TypeOK, server
<1> QED BY <1>1, <1>2

\* Callers, participants and the server.
LEMMA EnvironmentType ==
  ASSUME TypeOK, Environment
  PROVE  TypeOK'
<1>1. ASSUME NEW f \in Starts, StartBotForRoom(f) PROVE TypeOK'
  <2>1. f \in Flows BY DEF Flows
  <2> QED BY <1>1, <2>1 DEF StartBotForRoom, StopBot, Goto, TypeOK, Labels, server, shutdown
<1>2. ASSUME NEW f \in Stops, StopBotForRoom(f) PROVE TypeOK'
  <2>1. f \in Flows BY DEF Flows
  <2> QED BY <1>2, <2>1 DEF StopBotForRoom, StopBot, Goto, TypeOK, Labels, server, shutdown
<1>3. ASSUME NEW h \in Humans, Join(h) \/ Leave(h) PROVE TypeOK'
  BY <1>3 DEF Join, Leave, TypeOK, shutdown
<1>4. ASSUME NEW b \in Starts, ServerDrops(b) PROVE TypeOK'
  BY <1>4 DEF ServerDrops, Drop, TypeOK, shutdown
<1> QED BY <1>1, <1>2, <1>3, <1>4 DEF Environment

LEMMA TypeStep == TypeOK /\ [Next]_vars => TypeOK'
<1> SUFFICES ASSUME TypeOK, [Next]_vars PROVE TypeOK'
  OBVIOUS
<1>1. CASE Environment BY <1>1, EnvironmentType
<1>2. ASSUME NEW f \in Flows, FlowStep(f) PROVE TypeOK'
  BY <1>2, FlowType
<1>3. ASSUME NEW f \in Starts, StartStep(f) PROVE TypeOK'
  BY <1>3, StartType
<1>4. ASSUME NEW f \in Cleanups, CleanupStep(f) PROVE TypeOK'
  BY <1>4, CleanupType
<1>5. ASSUME NEW b \in Starts, RoomEvents(b) PROVE TypeOK'
  BY <1>5, EventsType
<1>6. ASSUME NEW b \in Starts, TimerFires(b) PROVE TypeOK'
  BY <1>6, TimerType DEF TimerFires
<1>7. CASE UNCHANGED vars BY <1>7 DEF vars, TypeOK
<1> QED BY <1>1, <1>2, <1>3, <1>4, <1>5, <1>6, <1>7 DEF Next

\* Every reachable state is well formed, and a flow inside stopBot has captured
\* the context of a bot.
THEOREM TypeCorrect == Spec => []TypeOK
<1>1. Init => TypeOK
  BY FlowsAssumption DEF Init, TypeOK, Labels, NoTimer
<1> QED BY <1>1, TypeStep, PTL DEF Spec

-----------------------------------------------------------------------------
(* No zombie context.  The property is inductive together with TypeOK:     *)
(* every step that takes a bot out of the room either queues its           *)
(* Disconnected event or removes the entry.                                *)

LEMMA ZombieStep == TypeOK /\ NoZombieContext /\ [Next]_vars => NoZombieContext'
<1> SUFFICES ASSUME TypeOK, NoZombieContext, [Next]_vars PROVE NoZombieContext'
  OBVIOUS
<1> USE DEF NoZombieContext
<1>1. CASE Environment
  BY <1>1 DEF Environment, StartBotForRoom, StopBotForRoom, Join, Leave, ServerDrops,
              Drop, TypeOK, server
<1>2. ASSUME NEW f \in Flows, FlowStep(f) PROVE NoZombieContext'
  BY <1>2 DEF FlowStep, RagDisconnected, RoomDisconnected, ActiveAfterStop, server
<1>3. ASSUME NEW f \in Starts, StartStep(f) PROVE NoZombieContext'
  <2>1. CASE Connected(f) BY <2>1 DEF Connected, TypeOK
  <2>2. CASE TrackPublished(f) BY <2>2 DEF TrackPublished, server
  <2>3. ASSUME NEW b \in Starts, RemoveParticipant(f, b) PROVE NoZombieContext'
    BY <2>3 DEF RemoveParticipant, Drop, TypeOK
  <2> QED
    BY <1>3, <2>1, <2>2, <2>3
    DEF StartStep, ListBotIdentities, StartBot, ConnectFailed, PublishFailed, server
<1>4. ASSUME NEW f \in Cleanups, CleanupStep(f) PROVE NoZombieContext'
  BY <1>4 DEF CleanupStep, DeleteRoom, CleanupRoomInDatabase, Drop, TypeOK, server
<1>5. ASSUME NEW b \in Starts, RoomEvents(b) PROVE NoZombieContext'
  <2>1. CASE Disconnected(b) BY <2>1 DEF Disconnected
  <2>2. ASSUME NEW p \in Humans \cup Starts,
               ParticipantConnected(b, p) \/ ParticipantDisconnected(b, p)
        PROVE  NoZombieContext'
    BY <2>2 DEF ParticipantConnected, ParticipantDisconnected, server
  <2> QED BY <1>5, <2>1, <2>2 DEF RoomEvents
<1>6. ASSUME NEW b \in Starts, TimerFires(b) PROVE NoZombieContext'
  <2>1. active' = active /\ UNCHANGED server
    BY <1>6 DEF TimerFires, ShutdownTimeout
  <2> QED BY <2>1 DEF server
<1>7. CASE UNCHANGED vars BY <1>7 DEF vars
<1> QED BY <1>1, <1>2, <1>3, <1>4, <1>5, <1>6, <1>7 DEF Next

\* activeRooms never keeps the context of a bot that has left for good, however
\* many starts, stops, drops and shutdowns overlap.
THEOREM NoZombies == Spec => []NoZombieContext
<1>1. Init => NoZombieContext BY DEF Init, NoZombieContext
<1> QED BY <1>1, TypeCorrect, ZombieStep, PTL DEF Spec

-----------------------------------------------------------------------------
(* One generation: a room whose bot is started once.                       *)

OneGeneration == \A a, b \in Starts : a = b

\* The only timer a context can have pending is the one its field names, so
\* clearing that one clears them all; a context that is current, or has a
\* timer, is that of a start that has completed.
TimerTracked ==
  /\ \A b \in Starts : timers[b] \subseteq {shutdownTimeout[b]}
  /\ \A b \in Starts : active = b \/ timers[b] # {} => pc[b] = "up"

ShutdownInv == TypeOK /\ TimerTracked /\ ReturnCancelsShutdown

LEMMA ShutdownStep ==
  ASSUME OneGeneration
  PROVE  ShutdownInv /\ [Next]_vars => ShutdownInv'
<1> SUFFICES ASSUME ShutdownInv, [Next]_vars
             PROVE  TimerTracked' /\ ReturnCancelsShutdown'
  BY TypeStep DEF ShutdownInv
<1> TypeOK /\ TimerTracked /\ ReturnCancelsShutdown
  BY DEF ShutdownInv
<1> USE FlowsAssumption, TimersAssumption
    DEF TimerTracked, ReturnCancelsShutdown, NoHumans, TypeOK, Flows
<1>1. CASE Environment
  <2>1. UNCHANGED <<active, seen, shutdownTimeout, timers>>
    BY <1>1 DEF Environment, StartBotForRoom, StopBotForRoom, Join, Leave, ServerDrops, shutdown
  <2>2. ASSUME NEW b \in Starts, pc[b] = "up" PROVE pc'[b] = "up"
    <3>1. ASSUME NEW f \in Starts, StartBotForRoom(f) PROVE pc'[b] = "up"
      BY <2>2, <3>1 DEF StartBotForRoom, StopBot, Goto
    <3>2. ASSUME NEW f \in Stops, StopBotForRoom(f) PROVE pc'[b] = "up"
      BY <2>2, <3>2 DEF StopBotForRoom, StopBot, Goto
    <3> QED BY Zenon, <1>1, <2>2, <3>1, <3>2 DEF Environment, Join, Leave, ServerDrops
  <2> QED BY <2>1, <2>2
<1>2. ASSUME NEW f \in Flows, FlowStep(f)
      PROVE  TimerTracked' /\ ReturnCancelsShutdown'
  BY <1>2 DEF FlowStep, RagDisconnected, RoomDisconnected, ActiveAfterStop, Goto, shutdown
<1>3. ASSUME NEW f \in Starts, StartStep(f)
      PROVE  TimerTracked' /\ ReturnCancelsShutdown'
  <2>1. pc[f] # "up" /\ timers[f] = {}
    BY <1>3 DEF StartStep, ListBotIdentities, RemoveParticipant, StartBot, Connected,
                ConnectFailed, TrackPublished, PublishFailed
  <2>2. UNCHANGED shutdown /\ (active' = active \/ (active' = f /\ pc'[f] = "up"))
    BY <1>3 DEF StartStep, ListBotIdentities, RemoveParticipant, StartBot, Connected,
                ConnectFailed, TrackPublished, PublishFailed, Goto
  <2> QED BY <2>1, <2>2, OneGeneration DEF OneGeneration, shutdown
<1>4. ASSUME NEW f \in Cleanups, CleanupStep(f)
      PROVE  TimerTracked' /\ ReturnCancelsShutdown'
  BY <1>4 DEF CleanupStep, DeleteRoom, CleanupRoomInDatabase, Goto, shutdown
<1>5. ASSUME NEW b \in Starts, Disconnected(b)
      PROVE  TimerTracked' /\ ReturnCancelsShutdown'
  BY <1>5 DEF Disconnected
<1>6. ASSUME NEW b \in Starts, NEW p \in Humans \cup Starts, ParticipantConnected(b, p)
      PROVE  TimerTracked' /\ ReturnCancelsShutdown'
  <2>1. CASE UNCHANGED shutdown /\ p \notin Humans
    BY <1>6, <2>1 DEF ParticipantConnected, shutdown
  <2>2. CASE active = NoBot /\ UNCHANGED shutdown
    BY <1>6, <2>2 DEF ParticipantConnected, shutdown
  <2>3. CASE active # NoBot /\ CancelShutdown
    <3>1. active = b BY <2>3, OneGeneration DEF OneGeneration
    <3>2. timers'[b] = {}
      BY <2>3, <3>1 DEF CancelShutdown
    <3> QED
      BY <1>6, <3>1, <3>2, OneGeneration DEF OneGeneration, ParticipantConnected
  <2> QED BY <1>6, <2>1, <2>2, <2>3 DEF ParticipantConnected, CancelShutdown
<1>7. ASSUME NEW b \in Starts, NEW p \in Humans \cup Starts, ParticipantDisconnected(b, p)
      PROVE  TimerTracked' /\ ReturnCancelsShutdown'
  <2>1. active = NoBot \/ active = b BY OneGeneration DEF OneGeneration
  <2>2. CASE UNCHANGED shutdown
    BY <1>7, <2>2 DEF ParticipantDisconnected, shutdown
  <2>3. CASE active = b /\ NoHumans(seen[b] \ {p}) /\ shutdownTimeout[b] = NoTimer /\ ArmShutdown
    <3>1. timers[b] = {} BY <2>3 DEF TimerIds, NoTimer
    <3>2. NoHumans(seen'[b]) BY <1>7, <2>3 DEF ParticipantDisconnected
    <3>3. timers'[b] = {shutdownTimeout'[b]} BY <2>3, <3>1 DEF ArmShutdown
    <3> QED BY <1>7, <2>3, <3>2, <3>3, OneGeneration DEF OneGeneration, ParticipantDisconnected
  <2> QED BY <1>7, <2>1, <2>2, <2>3 DEF ParticipantDisconnected
<1>8. ASSUME NEW c \in Starts, NEW t \in TimerIds, ShutdownTimeout(c, t)
      PROVE  TimerTracked' /\ ReturnCancelsShutdown'
  <2>1. timers'[c] = {} BY <1>8 DEF ShutdownTimeout
  <2>2. pc[c] = "up" BY <1>8 DEF ShutdownTimeout
  <2>3. pc'[c] = "up" BY <1>8, <2>2 DEF ShutdownTimeout, StopBot, Goto
  <2> QED BY <1>8, <2>1, <2>3, OneGeneration DEF OneGeneration, ShutdownTimeout
<1>9. CASE UNCHANGED vars BY <1>9 DEF vars
<1> QED
  BY <1>1, <1>2, <1>3, <1>4, <1>5, <1>6, <1>7, <1>8, <1>9 DEF Next, RoomEvents, TimerFires

LEMMA ShutdownInvariant == ASSUME OneGeneration PROVE Spec => []ShutdownInv
<1>1. Init => ShutdownInv
  BY FlowsAssumption DEF Init, ShutdownInv, TypeOK, Labels, NoTimer, TimerTracked, ReturnCancelsShutdown
<1>2. ShutdownInv /\ [Next]_vars => ShutdownInv' BY ShutdownStep
<1> QED BY <1>1, <1>2, PTL DEF Spec

\* In a room whose bot is started once, a participant who comes back has
\* cancelled the pending shutdown.
THEOREM ReturnCancels == ASSUME OneGeneration PROVE Spec => []ReturnCancelsShutdown
BY ShutdownInvariant, PTL DEF ShutdownInv

-----------------------------------------------------------------------------
(* One bot per room, when starts do not overlap and removals succeed.  By  *)
(* the time a start connects, removeBots has emptied the room; nobody else *)
(* is on the way in.                                                       *)

InFlight(f) == pc[f] \notin {"idle", "up", "done", "failed"}

OneInFlight == \A f, g \in Starts : InFlight(f) /\ InFlight(g) => f = g

RoomEmptied ==
  \A f, b \in Starts :
    /\ pc[f] = "remove" /\ conn[b] = "joined" => b \in toRemove[f]
    /\ pc[f] \in {"token", "connect"} => conn[b] # "joined"

SerialInv == TypeOK /\ OneInFlight /\ RoomEmptied /\ OneBotPerRoom

\* A step that lets no bot in, and leaves every start where it is or ends it.
LEMMA QuietStep ==
  ASSUME SerialInv,
         \A b \in Starts : conn'[b] = "joined" => conn[b] = "joined",
         \A f \in Starts : pc'[f] = pc[f] \/ pc'[f] \in {"up", "done", "failed"},
         UNCHANGED toRemove
  PROVE  (OneInFlight /\ RoomEmptied /\ OneBotPerRoom)'
BY DEF SerialInv, OneInFlight, InFlight, RoomEmptied, OneBotPerRoom

\* The steps of start f; the other starts are not in flight.
LEMMA SerialStartStep ==
  ASSUME SerialInv, NEW f \in Starts, StartStep(f), RemovalSucceeds
  PROVE  (OneInFlight /\ RoomEmptied /\ OneBotPerRoom)'
<1> USE DEF SerialInv, TypeOK, Flows, Goto
<1>0. \A g \in Starts : g # f => ~InFlight(g)
  BY DEF OneInFlight, InFlight, StartStep, ListBotIdentities, RemoveParticipant, StartBot,
         Connected, ConnectFailed, TrackPublished, PublishFailed
<1>1. CASE ListBotIdentities(f)
  <2>1. toRemove'[f] = {b \in Starts : conn[b] = "joined"} /\ conn' = conn
    BY <1>1 DEF ListBotIdentities, RemovalSucceeds, server
  <2>2. pc' = [pc EXCEPT ![f] = IF toRemove'[f] = {} THEN "token" ELSE "remove"]
    BY <1>1 DEF ListBotIdentities
  <2> QED BY <1>0, <2>1, <2>2 DEF OneInFlight, InFlight, RoomEmptied, OneBotPerRoom
<1>2. ASSUME NEW b \in Starts, RemoveParticipant(f, b)
      PROVE  (OneInFlight /\ RoomEmptied /\ OneBotPerRoom)'
  <2>1. /\ \A a \in Starts : conn[a] = "joined" => a \in toRemove[f]
        /\ toRemove'[f] = toRemove[f] \ {b}
        /\ \A a \in Starts : conn'[a] = "joined" => conn[a] = "joined"
    BY <1>2 DEF RemoveParticipant, RoomEmptied, Drop
  <2>2. conn'[b] = "gone"
    BY <1>2, <2>1 DEF RemoveParticipant, RemovalSucceeds
  <2>3. pc' = [pc EXCEPT ![f] = IF toRemove'[f] = {} THEN "token" ELSE "remove"]
    <3>1. b \in toRemove[f] BY <1>2 DEF RemoveParticipant
    <3>2. toRemove[f] = {b} <=> toRemove'[f] = {} BY <2>1, <3>1
    <3> QED BY <1>2, <3>2 DEF RemoveParticipant
  <2> QED BY <1>0, <2>1, <2>2, <2>3 DEF OneInFlight, InFlight, RoomEmptied, OneBotPerRoom
<1>3. CASE StartBot(f)
  BY <1>0, <1>3 DEF StartBot, server, OneInFlight, InFlight, RoomEmptied, OneBotPerRoom
<1>4. CASE Connected(f)
  BY <1>0, <1>4 DEF Connected, OneInFlight, InFlight, RoomEmptied, OneBotPerRoom
<1>5. CASE ConnectFailed(f) \/ TrackPublished(f) \/ PublishFailed(f)
  BY <1>5, QuietStep DEF ConnectFailed, TrackPublished, PublishFailed, server
<1> QED BY <1>1, <1>2, <1>3, <1>4, <1>5 DEF StartStep

LEMMA SerialStep == SerialInv /\ [SerialNext]_vars => SerialInv'
<1> SUFFICES ASSUME SerialInv, [SerialNext]_vars
             PROVE  (OneInFlight /\ RoomEmptied /\ OneBotPerRoom)'
  BY TypeStep DEF SerialInv, SerialNext
<1> DEFINE Kept == (OneInFlight /\ RoomEmptied /\ OneBotPerRoom)'
<1> TypeOK BY DEF SerialInv
<1> USE FlowsAssumption DEF TypeOK, Flows, Goto
<1>1. ASSUME NEW f \in Starts, StartBotForRoom(f), SerialStarts PROVE Kept
  <2>0. pc[f] = "idle" /\ pc'[f] # "idle"
    BY <1>1 DEF StartBotForRoom, StopBot
  <2>1. BetweenStarts
    BY <1>1, <2>0 DEF SerialStarts
  <2> QED
    BY <1>1, <2>1 DEF BetweenStarts, StartBotForRoom, StopBot, server, SerialInv, OneInFlight,
                      InFlight, RoomEmptied, OneBotPerRoom
<1>2. ASSUME NEW f \in Stops, StopBotForRoom(f) PROVE Kept
  BY <1>2, QuietStep DEF StopBotForRoom, StopBot, server
<1>3. ASSUME NEW h \in Humans, Join(h) \/ Leave(h) PROVE Kept
  BY <1>3, QuietStep DEF Join, Leave
<1>4. ASSUME NEW b \in Starts, ServerDrops(b) PROVE Kept
  BY <1>4, QuietStep DEF ServerDrops, Drop
<1>5. ASSUME NEW f \in Flows, FlowStep(f) PROVE Kept
  <2>1. pc[f] \in {"ragOff", "roomOff"} /\ pc' = [pc EXCEPT ![f] = pc'[f]]
    BY <1>5 DEF FlowStep, RagDisconnected, RoomDisconnected
  <2>2. /\ \A b \in Starts : conn'[b] = "joined" => conn[b] = "joined"
        /\ UNCHANGED toRemove
        /\ f \in Starts => pc'[f] \in {"roomOff", "list"}
    BY <1>5 DEF FlowStep, RagDisconnected, RoomDisconnected, AfterStopBot, server
  <2>3. CASE f \notin Starts
    BY <2>1, <2>2, <2>3, QuietStep
  <2>4. CASE f \in Starts
    BY <2>1, <2>2, <2>4 DEF SerialInv, OneInFlight, InFlight, RoomEmptied, OneBotPerRoom
  <2> QED BY <2>3, <2>4
<1>6. ASSUME NEW f \in Starts, StartStep(f), RemovalSucceeds PROVE Kept
  BY <1>6, SerialStartStep
<1>7. ASSUME NEW f \in Cleanups, CleanupStep(f) PROVE Kept
  BY <1>7, QuietStep DEF CleanupStep, DeleteRoom, CleanupRoomInDatabase, Drop, server
<1>8. ASSUME NEW b \in Starts, RoomEvents(b) PROVE Kept
  BY <1>8, QuietStep
  DEF RoomEvents, Disconnected, ParticipantConnected, ParticipantDisconnected, server
<1>9. ASSUME NEW c \in Starts, NEW t \in TimerIds, ShutdownTimeout(c, t) PROVE Kept
  <2>1. \A f \in Starts : pc'[f] = pc[f] BY <1>9 DEF ShutdownTimeout, StopBot
  <2>2. UNCHANGED <<conn, toRemove>> BY <1>9 DEF ShutdownTimeout, server
  <2> QED BY <2>1, <2>2, QuietStep
<1>10. CASE UNCHANGED vars BY <1>10, QuietStep DEF vars
<1>11. CASE SerialNext
  BY <1>1, <1>2, <1>3, <1>4, <1>5, <1>6, <1>7, <1>8, <1>9, <1>11
  DEF SerialNext, Next, Environment, TimerFires
<1> QED BY <1>10, <1>11

\* When calls of startBotForRoom do not overlap and removeBots gets through,
\* a room never has two bots, whatever stops, drops, failures and shutdowns
\* happen in between.
THEOREM SerialStartsAreSafe == SerialSpec => []OneBotPerRoom
<1>1. Init => SerialInv
  BY FlowsAssumption
  DEF Init, SerialInv, TypeOK, Labels, NoTimer, Flows, OneInFlight, InFlight, RoomEmptied, OneBotPerRoom
<1>2. SerialInv => OneBotPerRoom BY DEF SerialInv
<1> QED BY <1>1, <1>2, SerialStep, PTL DEF SerialSpec

-----------------------------------------------------------------------------
(* Any number of generations that follow one another and leave no timer    *)
(* behind.  The bot that hears the room is then the one whose context is   *)
(* current, and the only timer pending is the one that context remembers.  *)

\* Who gets past the test of startBot finds no context until it installs its own.
NoContextMeanwhile ==
  \A f \in Starts : pc[f] \in {"connect", "publish"} => active = NoBot

\* The bot in the room is the one that is joining, or the current one, or one
\* that activeRooms has lost.
HearsAlone ==
  \A a, b \in Starts :
    /\ active = a /\ conn[b] = "joined" => a = b
    /\ pc[a] = "publish" /\ conn[b] = "joined" => a = b

TimerOfCurrent ==
  \A b \in Starts :
    /\ timers[b] \subseteq {shutdownTimeout[b]}
    /\ timers[b] # {} => active = b

Tidy == NoContextMeanwhile /\ HearsAlone /\ TimerOfCurrent /\ ReturnCancelsShutdown

TidyInv == SerialInv /\ Tidy

\* A step that changes neither who is current nor the timers, lets no bot in and
\* moves no start towards its context.
LEMMA TidyQuiet ==
  ASSUME Tidy, UNCHANGED <<active, shutdownTimeout, timers, seen>>,
         \A b \in Starts : conn'[b] = "joined" => conn[b] = "joined",
         \A f \in Starts : pc'[f] \in {"connect", "publish"} => pc'[f] = pc[f]
  PROVE  Tidy'
BY DEF Tidy, NoContextMeanwhile, HearsAlone, TimerOfCurrent, ReturnCancelsShutdown, NoHumans

\* The entry is removed, and no timer of its context is left.
LEMMA TidyForgets ==
  ASSUME Tidy, NoTimerLeft, active' = NoBot, TypeOK, UNCHANGED shutdownTimeout,
         \A b \in Starts : timers'[b] \subseteq timers[b],
         \A b \in Starts : conn'[b] = "joined" => conn[b] = "joined",
         \A f \in Starts : pc'[f] \in {"connect", "publish"} => pc'[f] = pc[f]
  PROVE  Tidy'
<1>1. \A b \in Starts : timers'[b] = {}
  BY FlowsAssumption DEF Tidy, TimerOfCurrent, NoTimerLeft, TypeOK
<1>2. \A b \in Starts : active' # b
  BY FlowsAssumption
<1> QED BY <1>1, <1>2 DEF Tidy, NoContextMeanwhile, HearsAlone, TimerOfCurrent, ReturnCancelsShutdown

\* The steps of start f.
LEMMA TidyStarts ==
  ASSUME TidyInv, NEW f \in Starts, StartStep(f)
  PROVE  Tidy'
<1> SerialInv /\ Tidy /\ TypeOK BY DEF TidyInv, SerialInv
<1> USE FlowsAssumption DEF TypeOK, Flows, Goto
<1>1. CASE ListBotIdentities(f)
  BY <1>1, TidyQuiet DEF ListBotIdentities, server, shutdown
<1>2. ASSUME NEW b \in Starts, RemoveParticipant(f, b) PROVE Tidy'
  BY <1>2, TidyQuiet DEF RemoveParticipant, Drop, shutdown
<1>3. CASE StartBot(f)
  BY <1>3 DEF StartBot, server, shutdown, Tidy, NoContextMeanwhile, HearsAlone,
              TimerOfCurrent, ReturnCancelsShutdown
<1>4. CASE Connected(f)
  <2>1. active = NoBot /\ \A b \in Starts : timers[b] = {} /\ conn[b] # "joined"
    BY <1>4 DEF Connected, Tidy, NoContextMeanwhile, TimerOfCurrent, SerialInv, RoomEmptied
  <2>2. \A a \in Starts : pc[a] = "publish" => a = f
    BY <1>4 DEF Connected, SerialInv, OneInFlight, InFlight
  <2> QED
    BY <1>4, <2>1, <2>2 DEF Connected, shutdown, Tidy, NoContextMeanwhile, HearsAlone,
                            TimerOfCurrent, ReturnCancelsShutdown
<1>5. CASE ConnectFailed(f) \/ PublishFailed(f)
  BY <1>5, TidyQuiet DEF ConnectFailed, PublishFailed, server, shutdown
<1>6. CASE TrackPublished(f)
  <2>1. active = NoBot /\ \A b \in Starts : timers[b] = {}
    BY <1>6 DEF TrackPublished, Tidy, NoContextMeanwhile, TimerOfCurrent
  <2>2. \A a \in Starts : pc[a] \in {"connect", "publish"} => a = f
    BY <1>6 DEF TrackPublished, SerialInv, OneInFlight, InFlight
  <2> QED
    BY <1>6, <2>1, <2>2 DEF TrackPublished, server, shutdown, Tidy, NoContextMeanwhile,
                            HearsAlone, TimerOfCurrent, ReturnCancelsShutdown
<1> QED BY <1>1, <1>2, <1>3, <1>4, <1>5, <1>6 DEF StartStep

\* What the bot in the room hears of the others.
LEMMA TidyEvents ==
  ASSUME TidyInv, NEW b \in Starts, NEW p \in Humans \cup Starts,
         ParticipantConnected(b, p) \/ ParticipantDisconnected(b, p)
  PROVE  Tidy'
<1> Tidy /\ TypeOK BY DEF TidyInv, SerialInv
<1> USE FlowsAssumption DEF TypeOK
<1>0. /\ conn[b] = "joined"
      /\ UNCHANGED <<active, pc, conn>>
      /\ \A a \in Starts : a # b => seen'[a] = seen[a]
  BY DEF ParticipantConnected, ParticipantDisconnected, server
<1>1. active = NoBot \/ active = b
  BY <1>0 DEF Tidy, HearsAlone
<1>2. NoContextMeanwhile' /\ HearsAlone'
  BY <1>0 DEF Tidy, NoContextMeanwhile, HearsAlone
<1>3. CASE ParticipantConnected(b, p) /\ active = b /\ CancelShutdown
  <2>1. timers'[b] = {} /\ \A a \in Starts : a # b => timers'[a] = {}
    BY <1>3 DEF CancelShutdown, Tidy, TimerOfCurrent
  <2> QED BY <1>2, <2>1 DEF Tidy, TimerOfCurrent, ReturnCancelsShutdown
<1>4. CASE ParticipantConnected(b, p) /\ UNCHANGED shutdown /\ (active = NoBot \/ p \notin Humans)
  <2>1. active = b => NoHumans(seen'[b]) = NoHumans(seen[b])
    BY <1>4 DEF ParticipantConnected, NoHumans
  <2> QED
    BY <1>0, <1>1, <1>2, <1>4, <2>1 DEF shutdown, Tidy, TimerOfCurrent, ReturnCancelsShutdown
<1>5. CASE ParticipantDisconnected(b, p) /\ UNCHANGED shutdown
  <2>1. NoHumans(seen[b]) => NoHumans(seen'[b])
    BY <1>5 DEF ParticipantDisconnected, NoHumans
  <2> QED
    BY <1>0, <1>1, <1>2, <1>5, <2>1 DEF shutdown, Tidy, TimerOfCurrent, ReturnCancelsShutdown
<1>6. CASE /\ ParticipantDisconnected(b, p)
           /\ active = b /\ NoHumans(seen[b] \ {p}) /\ shutdownTimeout[b] = NoTimer
           /\ ArmShutdown
  <2>1. timers[b] = {}
    BY <1>6 DEF Tidy, TimerOfCurrent, TimerIds, NoTimer
  <2>2. NoHumans(seen'[b]) BY <1>6 DEF ParticipantDisconnected
  <2>3. timers'[b] = {shutdownTimeout'[b]} /\ \A a \in Starts : a # b => timers'[a] = {}
    BY <1>6, <2>1 DEF ArmShutdown, Tidy, TimerOfCurrent
  <2> QED BY <1>0, <1>2, <1>6, <2>2, <2>3 DEF Tidy, TimerOfCurrent, ReturnCancelsShutdown
<1> QED
  BY <1>1, <1>3, <1>4, <1>5, <1>6
  DEF ParticipantConnected, ParticipantDisconnected, CancelShutdown

\* The timer that fires is that of the current context, and was its only one.
LEMMA TidyTimer ==
  ASSUME TidyInv, NEW c \in Starts, NEW t \in TimerIds, ShutdownTimeout(c, t)
  PROVE  Tidy' /\ active = c
<1> Tidy /\ TypeOK BY DEF TidyInv, SerialInv
<1> USE FlowsAssumption DEF TypeOK
<1>1. active = c /\ \A a \in Starts : timers'[a] = {}
  BY DEF ShutdownTimeout, Tidy, TimerOfCurrent
<1>2. /\ UNCHANGED <<active, conn, seen>>
      /\ \A f \in Starts : pc'[f] = pc[f]
  BY DEF ShutdownTimeout, StopBot, Goto, server, Flows
<1> QED
  BY <1>1, <1>2 DEF Tidy, NoContextMeanwhile, HearsAlone, TimerOfCurrent, ReturnCancelsShutdown

LEMMA TidyStep == TidyInv /\ [SerialNext /\ NoTimerLeft]_vars => TidyInv'
<1> SUFFICES ASSUME TidyInv, [SerialNext /\ NoTimerLeft]_vars PROVE Tidy'
  BY SerialStep DEF TidyInv
<1> SerialInv /\ Tidy /\ TypeOK BY DEF TidyInv, SerialInv
<1> USE FlowsAssumption DEF TypeOK, Flows, Goto
<1>1. CASE Environment
  <2>1. ASSUME NEW f \in Starts, StartBotForRoom(f) PROVE Tidy'
    BY <2>1, TidyQuiet DEF StartBotForRoom, StopBot, server, shutdown
  <2>2. ASSUME NEW f \in Stops, StopBotForRoom(f) PROVE Tidy'
    BY <2>2, TidyQuiet DEF StopBotForRoom, StopBot, server, shutdown
  <2>3. ASSUME NEW h \in Humans, Join(h) \/ Leave(h) PROVE Tidy'
    BY <2>3, TidyQuiet DEF Join, Leave, shutdown
  <2>4. ASSUME NEW b \in Starts, ServerDrops(b) PROVE Tidy'
    BY <2>4, TidyQuiet DEF ServerDrops, Drop, shutdown
  <2> QED BY <1>1, <2>1, <2>2, <2>3, <2>4 DEF Environment
<1>2. ASSUME NEW f \in Flows, FlowStep(f), NoTimerLeft PROVE Tidy'
  <2>1. CASE RagDisconnected(f)
    BY <2>1, TidyQuiet DEF RagDisconnected, server, shutdown
  <2>2. CASE RoomDisconnected(f)
    <3>1. /\ active' = NoBot /\ UNCHANGED shutdown
          /\ \A b \in Starts : conn'[b] = "joined" => conn[b] = "joined"
      BY <2>2 DEF RoomDisconnected, ActiveAfterStop
    <3>2. \A g \in Starts : pc'[g] \in {"connect", "publish"} => pc'[g] = pc[g]
      BY <2>2 DEF RoomDisconnected, AfterStopBot
    <3> QED BY <1>2, <3>1, <3>2, TidyForgets DEF shutdown
  <2> QED BY <1>2, <2>1, <2>2 DEF FlowStep
<1>3. ASSUME NEW f \in Starts, StartStep(f) PROVE Tidy'
  BY <1>3, TidyStarts
<1>4. ASSUME NEW f \in Cleanups, CleanupStep(f) PROVE Tidy'
  BY <1>4, TidyQuiet DEF CleanupStep, DeleteRoom, CleanupRoomInDatabase, Drop, server, shutdown
<1>5. ASSUME NEW b \in Starts, Disconnected(b), NoTimerLeft PROVE Tidy'
  BY <1>5, TidyForgets DEF Disconnected
<1>6. ASSUME NEW b \in Starts, NEW p \in Humans \cup Starts,
             ParticipantConnected(b, p) \/ ParticipantDisconnected(b, p)
      PROVE  Tidy'
  BY <1>6, TidyEvents
<1>7. ASSUME NEW c \in Starts, NEW t \in TimerIds, ShutdownTimeout(c, t) PROVE Tidy'
  BY <1>7, TidyTimer
<1>8. CASE UNCHANGED vars
  BY <1>8, TidyQuiet DEF vars
<1> QED
  BY <1>1, <1>2, <1>3, <1>4, <1>5, <1>6, <1>7, <1>8
  DEF SerialNext, Next, RoomEvents, TimerFires

\* A cleanup begins only in the callback of a shutdown timer.
LEMMA CleanupBegins ==
  ASSUME TypeOK, Next, NEW f \in Cleanups, pc[f] = "idle", pc'[f] # "idle"
  PROVE  \E c \in Starts : \E t \in TimerIds : ShutdownTimeout(c, t)
<1> USE FlowsAssumption DEF TypeOK, Flows
<1>1. ~Environment
  <2>1. ASSUME NEW g \in Starts, StartBotForRoom(g) PROVE FALSE
    BY <2>1 DEF StartBotForRoom, StopBot, Goto
  <2>2. ASSUME NEW g \in Stops, StopBotForRoom(g) PROVE FALSE
    BY <2>2 DEF StopBotForRoom, StopBot, Goto
  <2>3. ASSUME NEW h \in Humans, Join(h) \/ Leave(h) PROVE FALSE
    BY <2>3 DEF Join, Leave
  <2>4. ASSUME NEW b \in Starts, ServerDrops(b) PROVE FALSE
    BY <2>4 DEF ServerDrops
  <2> QED BY <2>1, <2>2, <2>3, <2>4 DEF Environment
<1>2. ASSUME NEW g \in Flows, FlowStep(g) PROVE FALSE
  BY <1>2 DEF FlowStep, RagDisconnected, RoomDisconnected, Goto
<1>3. ASSUME NEW g \in Starts, StartStep(g) PROVE FALSE
  BY <1>3 DEF StartStep, ListBotIdentities, RemoveParticipant, StartBot, Connected,
              ConnectFailed, TrackPublished, PublishFailed, Goto
<1>4. ASSUME NEW g \in Cleanups, CleanupStep(g) PROVE FALSE
  BY <1>4 DEF CleanupStep, DeleteRoom, CleanupRoomInDatabase, Goto
<1>5. ASSUME NEW b \in Starts, RoomEvents(b) PROVE FALSE
  BY <1>5 DEF RoomEvents, Disconnected, ParticipantConnected, ParticipantDisconnected
<1> QED BY <1>1, <1>2, <1>3, <1>4, <1>5 DEF Next, TimerFires

LEMMA SparedStep ==
  ASSUME TidyInv, [SerialNext /\ NoTimerLeft]_vars, NEW f \in Cleanups,
         pc[f] = "idle", pc'[f] # "idle"
  PROVE  seen[victim'[f]] \cap humans = {}
<1> TypeOK BY DEF TidyInv, SerialInv
<1>1. Next BY DEF SerialNext, vars
<1>2. PICK c \in Starts : \E t \in TimerIds : ShutdownTimeout(c, t) BY <1>1, CleanupBegins
<1>3. PICK t \in TimerIds : ShutdownTimeout(c, t) BY <1>2
<1>4. active = c BY <1>3, TidyTimer
<1>5. NoHumans(seen[c]) /\ victim'[f] = active
  BY <1>3, FlowsAssumption DEF ShutdownTimeout, StopBot, Goto, TypeOK, Flows
<1> QED BY <1>4, <1>5 DEF NoHumans, TypeOK

\* Were the shutdown timer cleared with its context, then over any number of bots
\* that follow one another a returning participant cancels the shutdown, and no
\* shutdown ends a meeting: the timer that stopBot leaves behind is all there is to
\* the finding that ShutdownSparesCompany is violated.
THEOREM TidyShutdownSparesCompany ==
  TidySpec => []ReturnCancelsShutdown /\ ShutdownSparesCompany
<1>1. Init => TidyInv
  BY FlowsAssumption
  DEF Init, TidyInv, Tidy, NoContextMeanwhile, HearsAlone, TimerOfCurrent, ReturnCancelsShutdown,
      SerialInv, TypeOK, Labels, NoTimer, Flows, OneInFlight, InFlight, RoomEmptied, OneBotPerRoom
<1>2. TidyInv => ReturnCancelsShutdown BY DEF TidyInv, Tidy
<1>3. TidyInv /\ [SerialNext /\ NoTimerLeft]_vars =>
        [\A f \in Cleanups :
           pc[f] = "idle" /\ pc'[f] # "idle" => seen[victim'[f]] \cap humans = {}]_vars
  BY SparedStep
<1> QED BY <1>1, <1>2, <1>3, TidyStep, PTL DEF TidySpec, ShutdownSparesCompany
=============================================================================
