---------------------------- MODULE BotLifecycle ----------------------------
(***************************************************************************)
(* The life of the voice bot of one room: LivekitService.startBotForRoom,  *)
(* stopBotForRoom and removeBots, VoiceBotService.startBot, stopBot,       *)
(* stopBotWithCleanup and cleanupRoom, and the room handlers that arm and  *)
(* cancel the 30 second shutdown timer.                                    *)
(*                                                                         *)
(* All of them are async functions of one node process.  The code between  *)
(* two awaits is one action; between the actions anything else may run.    *)
(* Every start call f owns one LiveKit Room object and, if it gets that    *)
(* far, one RoomContext; both are named f.  activeRooms holds at most one  *)
(* context per room and is read again, by room id, after every await.      *)
(*                                                                         *)
(* The LiveKit server is external: it keeps the participants, delivers     *)
(* joins and departures to each connected bot in its own time, and may     *)
(* drop a bot at any moment.                                               *)
(***************************************************************************)
EXTENDS Integers, FiniteSets

CONSTANTS
  Starts,     \* calls of startBotForRoom, and the bots they create
  Stops,      \* calls of stopBotForRoom
  Cleanups,   \* calls of stopBotWithCleanup
  Humans,     \* human participants
  MaxTimers,  \* bound on shutdown timers one context has pending
  NoBot       \* no entry in activeRooms

Flows == Starts \cup Stops \cup Cleanups

ASSUME FlowsAssumption ==
  /\ Starts \cap Stops = {}
  /\ Starts \cap Cleanups = {}
  /\ Stops \cap Cleanups = {}
  /\ Starts \cap Humans = {}
  /\ NoBot \notin Starts
ASSUME TimersAssumption == MaxTimers \in Nat \ {0}

TimerIds == 1..MaxTimers
NoTimer == 0

VARIABLES
  active,    \* activeRooms.get(roomId): the bot whose context it is, or NoBot
  pc,        \* flow -> the await it is suspended at
  victim,    \* flow -> the bot whose context its stopBot captured
  toRemove,  \* start -> bots removeBots has listed and not yet removed
  conn,      \* bot -> "none", "joined" or "gone", as the server sees it
  lost,      \* bots whose Disconnected event is still to be delivered
  humans,    \* humans in the LiveKit room
  seen,      \* bot -> its room.remoteParticipants, humans and other bots
  shutdownTimeout, \* bot -> context.shutdownTimeout, or NoTimer
  timers,    \* bot -> shutdown timers node will still fire for its context
  roomData   \* "kept" or "deleted": the Room, RoomReport and File rows

vars == <<active, pc, victim, toRemove, conn, lost, humans, seen,
          shutdownTimeout, timers, roomData>>

server == <<conn, lost, humans>>
shutdown == <<shutdownTimeout, timers>>

Goto(f, label) == pc' = [pc EXCEPT ![f] = label]

\* Everybody in the LiveKit room.
Present == humans \cup {b \in Starts : conn[b] = "joined"}

Init ==
  /\ active = NoBot
  /\ pc = [f \in Flows |-> "idle"]
  /\ victim = [f \in Flows |-> NoBot]
  /\ toRemove = [f \in Starts |-> {}]
  /\ conn = [b \in Starts |-> "none"]
  /\ lost = {}
  /\ humans = {}
  /\ seen = [b \in Starts |-> {}]
  /\ shutdownTimeout = [b \in Starts |-> NoTimer]
  /\ timers = [b \in Starts |-> {}]
  /\ roomData = "kept"

-----------------------------------------------------------------------------
(* stopBot(roomId), shared by the three kinds of flow.                     *)

\* Up to its first await: capture the context and ask the RAG client to
\* disconnect; without a context there is nothing to stop.
StopBot(f, otherwise) ==
  IF active # NoBot
  THEN /\ Goto(f, "ragOff")
       /\ victim' = [victim EXCEPT ![f] = active]
  ELSE /\ Goto(f, otherwise)
       /\ UNCHANGED victim

\* ragClient.disconnect has settled (its error is caught): disconnect the room.
RagDisconnected(f) ==
  /\ pc[f] = "ragOff"
  /\ Goto(f, "roomOff")
  /\ UNCHANGED <<active, victim, toRemove, server, seen, shutdown, roomData>>

\* Where a flow goes on after stopBot.
AfterStopBot(f) ==
  IF f \in Starts THEN "list" ELSE IF f \in Stops THEN "done" ELSE "deleteRoom"

\* room.disconnect() has resolved: the victim is out and its listeners are
\* removed, and activeRooms.delete(roomId) removes whatever the entry is now.
\* The victim's shutdown timer is left pending.
ActiveAfterStopKept == active
ActiveAfterStop == NoBot

RoomDisconnected(f) ==
  /\ pc[f] = "roomOff"
  /\ conn' = [conn EXCEPT ![victim[f]] = "gone"]
  /\ lost' = lost \ {victim[f]}
  /\ active' = ActiveAfterStop
  /\ Goto(f, AfterStopBot(f))
  /\ UNCHANGED <<victim, toRemove, humans, seen, shutdown, roomData>>

-----------------------------------------------------------------------------
(* startBotForRoom(roomId): POST voice-bot, or the auto-start of create.   *)

StartBotForRoom(f) ==
  /\ pc[f] = "idle"
  /\ StopBot(f, "list")
  /\ UNCHANGED <<active, toRemove, server, seen, shutdown, roomData>>

\* removeBots: the list is a snapshot, and empty when the request fails.
ListBotIdentities(f) ==
  /\ pc[f] = "list"
  /\ \E bots \in {{}, {b \in Starts : conn[b] = "joined"}} :
       /\ toRemove' = [toRemove EXCEPT ![f] = bots]
       /\ Goto(f, IF bots = {} THEN "token" ELSE "remove")
  /\ UNCHANGED <<active, victim, server, seen, shutdown, roomData>>

\* Out of the room, with the Disconnected event on its way.
Drop(bots) ==
  /\ conn' = [b \in Starts |-> IF b \in bots THEN "gone" ELSE conn[b]]
  /\ lost' = lost \cup {b \in bots : conn[b] = "joined"}

RemoveParticipant(f, b) ==
  /\ pc[f] = "remove"
  /\ b \in toRemove[f]
  /\ \/ Drop({b})
     \/ UNCHANGED <<conn, lost>>   \* the request failed, the error is logged
  /\ toRemove' = [toRemove EXCEPT ![f] = @ \ {b}]
  /\ Goto(f, IF toRemove[f] = {b} THEN "token" ELSE "remove")
  /\ UNCHANGED <<active, victim, humans, seen, shutdown, roomData>>

\* The token is signed; startBot checks for a context before room.connect.
StartBot(f) ==
  /\ pc[f] = "token"
  /\ Goto(f, IF active # NoBot THEN "done" ELSE "connect")
  /\ UNCHANGED <<active, victim, toRemove, server, seen, shutdown, roomData>>

\* room.connect(): the handlers are already registered.
Connected(f) ==
  /\ pc[f] = "connect"
  /\ conn' = [conn EXCEPT ![f] = "joined"]
  /\ seen' = [seen EXCEPT ![f] = Present \ {f}]
  /\ Goto(f, "publish")
  /\ UNCHANGED <<active, victim, toRemove, lost, humans, shutdown, roomData>>

ConnectFailed(f) ==
  /\ pc[f] = "connect"
  /\ Goto(f, "failed")
  /\ UNCHANGED <<active, victim, toRemove, server, seen, shutdown, roomData>>

\* publishTrack() resolved on a connection the process does not know to be
\* gone: the context is created and installed, whatever entry there is.
TrackPublished(f) ==
  /\ pc[f] = "publish"
  /\ conn[f] = "joined" \/ f \in lost
  /\ active' = f
  /\ Goto(f, "up")
  /\ UNCHANGED <<victim, toRemove, server, seen, shutdown, roomData>>

\* publishTrack() rejected: the error is rethrown, the room stays connected.
PublishFailed(f) ==
  /\ pc[f] = "publish"
  /\ Goto(f, "failed")
  /\ UNCHANGED <<active, victim, toRemove, server, seen, shutdown, roomData>>

-----------------------------------------------------------------------------
(* stopBotForRoom(roomId): DELETE voice-bot.                               *)

StopBotForRoom(f) ==
  /\ pc[f] = "idle"
  /\ StopBot(f, "done")
  /\ UNCHANGED <<active, toRemove, server, seen, shutdown, roomData>>

-----------------------------------------------------------------------------
(* stopBotWithCleanup(roomId), after its stopBot.                          *)

\* deleteRoom removes every participant, or fails and is logged.
DeleteRoom(f) ==
  /\ pc[f] = "deleteRoom"
  /\ \/ Drop({b \in Starts : conn[b] = "joined"}) /\ humans' = {}
     \/ UNCHANGED server
  /\ Goto(f, "cleanDb")
  /\ UNCHANGED <<active, victim, toRemove, seen, shutdown, roomData>>

CleanupRoomInDatabase(f) ==
  /\ pc[f] = "cleanDb"
  /\ roomData' \in {roomData, "deleted"}
  /\ Goto(f, "done")
  /\ UNCHANGED <<active, victim, toRemove, server, seen, shutdown>>

-----------------------------------------------------------------------------
(* Room events.  The handlers of bot b look the context up by room id.     *)

\* RoomEvent.Disconnected -> cleanupRoom(roomId), with clearTimeout of the
\* current context's shutdown timer.
Disconnected(b) ==
  /\ b \in lost
  /\ lost' = lost \ {b}
  /\ active' = NoBot
  /\ timers' = IF active = NoBot THEN timers
               ELSE [timers EXCEPT ![active] = @ \ {shutdownTimeout[active]}]
  /\ UNCHANGED <<pc, victim, toRemove, conn, humans, seen, shutdownTimeout, roomData>>

\* A human's arrival cancels the pending shutdown of the current context; that of
\* an ai-bot does nothing here.
CancelShutdown ==
  IF active # NoBot
  THEN /\ timers' = [timers EXCEPT ![active] = @ \ {shutdownTimeout[active]}]
       /\ shutdownTimeout' = [shutdownTimeout EXCEPT ![active] = NoTimer]
  ELSE UNCHANGED shutdown

ParticipantConnected(b, p) ==
  /\ conn[b] = "joined"
  /\ p \in Present \ (seen[b] \cup {b})
  /\ seen' = [seen EXCEPT ![b] = @ \cup {p}]
  /\ IF p \in Humans THEN CancelShutdown ELSE UNCHANGED shutdown
  /\ UNCHANGED <<active, pc, victim, toRemove, server, roomData>>

\* humanCount === 0, of the people the room object knows.
NoHumans(view) == view \cap Humans = {}

ArmShutdown ==
  \E t \in TimerIds \ timers[active] :
    /\ timers' = [timers EXCEPT ![active] = @ \cup {t}]
    /\ shutdownTimeout' = [shutdownTimeout EXCEPT ![active] = t]

\* A departure, be it of a human or of another bot, after which the room object knows
\* no human arms the 30 second timer of the current context, unless one is set.
ParticipantDisconnected(b, p) ==
  /\ conn[b] = "joined"
  /\ p \in seen[b] \ Present
  /\ seen' = [seen EXCEPT ![b] = @ \ {p}]
  /\ IF NoHumans(seen[b] \ {p}) /\ active # NoBot
     THEN IF shutdownTimeout[active] = NoTimer THEN ArmShutdown
          ELSE UNCHANGED shutdown
     ELSE UNCHANGED shutdown
  /\ UNCHANGED <<active, pc, victim, toRemove, server, roomData>>

\* The timer armed for context c fires. It counts the people c's room object
\* knows, and acts on the context that is current now.
ShutdownTimeout(c, t) ==
  /\ t \in timers[c]
  /\ timers' = [timers EXCEPT ![c] = @ \ {t}]
  /\ \/ /\ active = NoBot
        /\ UNCHANGED <<pc, victim, shutdownTimeout>>
     \/ /\ active # NoBot
        /\ NoHumans(seen[c])
        /\ \E f \in Cleanups : pc[f] = "idle" /\ StopBot(f, "deleteRoom")
        /\ UNCHANGED shutdownTimeout
     \/ /\ active # NoBot
        /\ ~NoHumans(seen[c])
        /\ shutdownTimeout' = [shutdownTimeout EXCEPT ![active] = NoTimer]
        /\ UNCHANGED <<pc, victim>>
  /\ UNCHANGED <<active, toRemove, server, seen, roomData>>

-----------------------------------------------------------------------------
(* The LiveKit server and its users.                                       *)

Join(h) ==
  /\ h \notin humans
  /\ humans' = humans \cup {h}
  /\ UNCHANGED <<active, pc, victim, toRemove, conn, lost, seen, shutdown, roomData>>

Leave(h) ==
  /\ h \in humans
  /\ humans' = humans \ {h}
  /\ UNCHANGED <<active, pc, victim, toRemove, conn, lost, seen, shutdown, roomData>>

\* A network failure, a duplicate identity, a restart of the server.
ServerDrops(b) ==
  /\ conn[b] = "joined"
  /\ Drop({b})
  /\ UNCHANGED <<active, pc, victim, toRemove, humans, seen, shutdown, roomData>>

-----------------------------------------------------------------------------
FlowStep(f) == RagDisconnected(f) \/ RoomDisconnected(f)

StartStep(f) ==
  \/ ListBotIdentities(f)
  \/ \E b \in Starts : RemoveParticipant(f, b)
  \/ StartBot(f)
  \/ Connected(f) \/ ConnectFailed(f)
  \/ TrackPublished(f) \/ PublishFailed(f)

CleanupStep(f) == DeleteRoom(f) \/ CleanupRoomInDatabase(f)

RoomEvents(b) ==
  \/ Disconnected(b)
  \/ \E p \in Humans \cup Starts :
       ParticipantConnected(b, p) \/ ParticipantDisconnected(b, p)

TimerFires(c) == \E t \in TimerIds : ShutdownTimeout(c, t)

Environment ==
  \/ \E f \in Starts : StartBotForRoom(f)
  \/ \E f \in Stops : StopBotForRoom(f)
  \/ \E h \in Humans : Join(h) \/ Leave(h)
  \/ \E b \in Starts : ServerDrops(b)

Next ==
  \/ Environment
  \/ \E f \in Flows : FlowStep(f)
  \/ \E f \in Starts : StartStep(f)
  \/ \E f \in Cleanups : CleanupStep(f)
  \/ \E b \in Starts : RoomEvents(b) \/ TimerFires(b)

Spec == Init /\ [][Next]_vars

\* Pending awaits settle, events are delivered and timers fire; nobody is
\* obliged to call the server, to join or to leave.
Fairness ==
  /\ \A f \in Flows : WF_vars(FlowStep(f))
  /\ \A f \in Starts : WF_vars(StartStep(f))
  /\ \A f \in Cleanups : WF_vars(CleanupStep(f))
  /\ \A b \in Starts : WF_vars(RoomEvents(b)) /\ WF_vars(TimerFires(b))

FairSpec == Spec /\ Fairness

\* The behaviours in which nothing goes wrong around a start: calls of
\* startBotForRoom do not overlap, and the requests of removeBots succeed.
BetweenStarts == \A f \in Starts : pc[f] \in {"idle", "up", "done", "failed"}

SerialStarts ==
  \A f \in Starts : pc[f] = "idle" /\ pc'[f] # "idle" => BetweenStarts

RemovalSucceeds ==
  \A f \in Starts :
    /\ pc[f] = "list" /\ pc'[f] # "list" =>
         toRemove'[f] = {b \in Starts : conn[b] = "joined"}
    /\ pc[f] = "remove" => \A b \in toRemove[f] \ toRemove'[f] : conn'[b] = "gone"

SerialNext == Next /\ SerialStarts /\ RemovalSucceeds

SerialSpec == Init /\ [][SerialNext]_vars

\* And as it would be if stopBot cleared the shutdown timer of its context, as
\* cleanupRoom does: a context that is given up has no timer pending.
NoTimerLeft == \A b \in Starts : active = b /\ active' # b => timers'[b] = {}

TidySpec == Init /\ [][SerialNext /\ NoTimerLeft]_vars

-----------------------------------------------------------------------------
Labels == {"idle", "ragOff", "roomOff", "list", "remove", "token", "connect",
           "publish", "up", "deleteRoom", "cleanDb", "done", "failed"}

\* Every variable has its shape, and a flow inside stopBot has captured a
\* context (the "if (context)" of stopBot).
TypeOK ==
  /\ active \in Starts \cup {NoBot}
  /\ pc \in [Flows -> Labels]
  /\ victim \in [Flows -> Starts \cup {NoBot}]
  /\ \A f \in Flows : pc[f] \in {"ragOff", "roomOff"} => victim[f] \in Starts
  /\ toRemove \in [Starts -> SUBSET Starts]
  /\ conn \in [Starts -> {"none", "joined", "gone"}]
  /\ lost \subseteq Starts
  /\ humans \subseteq Humans
  /\ seen \in [Starts -> SUBSET (Humans \cup Starts)]
  /\ shutdownTimeout \in [Starts -> TimerIds \cup {NoTimer}]
  /\ timers \in [Starts -> SUBSET TimerIds]
  /\ roomData \in {"kept", "deleted"}

\* activeRooms never keeps the context of a bot that has left: the bot it names
\* is in the room, or its Disconnected event, which removes the entry, is on
\* its way. Otherwise isActive would answer true for ever.
NoZombieContext ==
  active # NoBot => conn[active] = "joined" \/ active \in lost

\* A participant who comes back has cancelled the shutdown: the current bot has
\* no timer pending once it sees somebody.
ReturnCancelsShutdown ==
  \A b \in Starts : active = b /\ timers[b] # {} => NoHumans(seen[b])

\* "If there is still nobody when the timeout runs, terminate"
\* (voice-bot.service.ts:514): the timer never stops a bot while a human is in
\* the room whom that bot sees.
ShutdownSparesCompany ==
  [][\A f \in Cleanups :
       pc[f] = "idle" /\ pc'[f] # "idle" => seen[victim'[f]] \cap humans = {}]_vars

\* A room never has two bots at once: startBotForRoom cleans up the bots there
\* are, and startBot refuses a room that has one ("Bot already active in
\* room", voice-bot.service.ts:355).
OneBotPerRoom ==
  \A a, b \in Starts : conn[a] = "joined" /\ conn[b] = "joined" => a = b

\* Once the last participant has been seen to leave, the bot leaves the room,
\* unless it sees somebody come back.
DepartureLeadsToShutdown ==
  \A b \in Starts :
    (active = b /\ NoHumans(seen[b]) /\ shutdownTimeout[b] # NoTimer)
      ~> (active # b \/ ~NoHumans(seen[b]))

\* "Leaves by itself after 30 seconds when no human participant is there"
\* (livekit.service.ts:442).
EmptyRoomIsLeft ==
  (active # NoBot /\ humans = {}) ~> (active = NoBot \/ humans # {})
=============================================================================
