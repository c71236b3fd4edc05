---------------------------- MODULE RoomCheckers ----------------------------
(***************************************************************************)
(* The intervals of the voice bot in one room over several generations of  *)
(* its context: the four checkers that startBot starts, and the proactive  *)
(* analysis, which addScreenContext starts and clearScreenContext stops,   *)
(* with the standby mode that clears some of them.                         *)
(*                                                                         *)
(* A checker looks the context up by room id and clears its own interval   *)
(* when there is none.  The proactive analysis belongs to its context      *)
(* object.  How a context comes and goes is the matter of BotLifecycle;    *)
(* here it comes when startBot has set it, and goes when stopBot or a      *)
(* Disconnected event deletes the entry of the room, whoever set it.       *)
(* After stopBot the event of that room may or may not be delivered.       *)
(***************************************************************************)
EXTENDS Integers

CONSTANTS
  Contexts,     \* RoomContext objects of the room, one per startBot
  MaxCaptures,  \* MAX_SCREEN_CAPTURES
  MaxPending,   \* bound on timeouts, and on analyses, of one context under way
  NoContext     \* no entry in activeRooms

Checkers == {"armed", "silent", "topic", "stats"}

VARIABLES
  entry,                    \* activeRooms.get(roomId)
  room,                     \* context -> "none", "joined", or "left" once Disconnected
  intervals,                \* <<checker, context>>: intervals node fires
  statsUpdateInterval,      \* contexts that hold the handle of their statistics checker
  standbyMode,              \* contexts in standby
  enabled,                  \* contexts with proactiveAnalysis.enabled
  analysisTimer,            \* contexts that hold the handle of their analysis interval
  analysisIntervals,        \* context -> how many analysis intervals node fires
  firstRuns,                \* context -> how many 3 second timeouts are pending
  analysing,                \* context -> how many analyses await the model
  captures,                 \* context -> length of screenContextHistory
  screenUnderstandingMode   \* contexts in that mode

proactive == <<enabled, analysisTimer, analysisIntervals, firstRuns>>
screen == <<captures, screenUnderstandingMode>>
vars == <<entry, room, intervals, statsUpdateInterval, standbyMode, proactive, analysing, screen>>

Init ==
  /\ entry = NoContext
  /\ room = [c \in Contexts |-> "none"]
  /\ intervals = {}
  /\ statsUpdateInterval = {}
  /\ standbyMode = {}
  /\ enabled = {}
  /\ analysisTimer = {}
  /\ analysisIntervals = [c \in Contexts |-> 0]
  /\ firstRuns = [c \in Contexts |-> 0]
  /\ analysing = [c \in Contexts |-> 0]
  /\ captures = [c \in Contexts |-> 0]
  /\ screenUnderstandingMode = {}

-----------------------------------------------------------------------------
\* The end of startBot: the entry is set and the checkers are started.
ContextMade(c) ==
  /\ room[c] = "none"
  /\ room' = [room EXCEPT ![c] = "joined"]
  /\ entry' = c
  /\ intervals' = intervals \cup (Checkers \X {c})
  /\ statsUpdateInterval' = statsUpdateInterval \cup {c}
  /\ UNCHANGED <<standbyMode, proactive, analysing, screen>>

\* The end of stopBot.
EntryDeleted ==
  /\ entry # NoContext
  /\ entry' = NoContext
  /\ UNCHANGED <<room, intervals, statsUpdateInterval, standbyMode, proactive, analysing, screen>>

\* Three listeners: cleanupRoom, and the cleanups of two checkers.
ClearedWithRoom == {"silent", "topic"}

Disconnected(c) ==
  /\ room[c] = "joined"
  /\ room' = [room EXCEPT ![c] = "left"]
  /\ entry' = NoContext
  /\ intervals' = intervals \ (ClearedWithRoom \X {c})
  /\ UNCHANGED <<statsUpdateInterval, standbyMode, proactive, analysing, screen>>

\* A tick without a context. With one it works on the current context, not its own.
CheckerStops(k, c) ==
  /\ entry = NoContext
  /\ <<k, c>> \in intervals
  /\ intervals' = intervals \ {<<k, c>>}
  /\ UNCHANGED <<entry, room, statsUpdateInterval, standbyMode, proactive, analysing, screen>>

ForgetAnalysisTimer(c) ==
  /\ analysisTimer' = analysisTimer \ {c}
  /\ UNCHANGED analysisIntervals

\* clearInterval (or clearTimeout, which is the same) on the handle that c holds.
ClearAnalysisTimer(c) ==
  /\ analysisIntervals' =
       IF c \in analysisTimer THEN [analysisIntervals EXCEPT ![c] = @ - 1] ELSE analysisIntervals
  /\ analysisTimer' = analysisTimer \ {c}

StandbyIntervals(c) ==
  IF c \in statsUpdateInterval THEN intervals \ {<<"stats", c>>} ELSE intervals

EnterStandbyMode(c) ==
  /\ entry = c
  /\ c \notin standbyMode
  /\ standbyMode' = standbyMode \cup {c}
  /\ intervals' = StandbyIntervals(c)
  /\ statsUpdateInterval' = statsUpdateInterval \ {c}
  /\ ClearAnalysisTimer(c)
  /\ UNCHANGED <<entry, room, enabled, firstRuns, analysing, screen>>

-----------------------------------------------------------------------------
\* startProactiveAnalysis, unless it runs already.
StartProactiveAnalysis(c) ==
  IF c \in enabled
  THEN UNCHANGED proactive
  ELSE /\ enabled' = enabled \cup {c}
       /\ analysisTimer' = analysisTimer \cup {c}
       /\ analysisIntervals' = [analysisIntervals EXCEPT ![c] = @ + 1]
       /\ firstRuns[c] < MaxPending
       /\ firstRuns' = [firstRuns EXCEPT ![c] = @ + 1]

CapturesAfter(n) == (IF n >= MaxCaptures THEN n - 1 ELSE n) + 1

AddScreenContext(c) ==
  /\ entry = c
  /\ captures' = [captures EXCEPT ![c] = CapturesAfter(@)]
  /\ screenUnderstandingMode' = screenUnderstandingMode \cup {c}
  /\ StartProactiveAnalysis(c)
  /\ UNCHANGED <<entry, room, intervals, statsUpdateInterval, standbyMode, analysing>>

StopProactiveAnalysis(c) ==
  IF c \in enabled
  THEN enabled' = enabled \ {c} /\ ClearAnalysisTimer(c)
  ELSE UNCHANGED <<enabled, analysisTimer, analysisIntervals>>

StopWithScreen(c) == StopProactiveAnalysis(c)

ClearScreenContext(c) ==
  /\ entry = c
  /\ StopWithScreen(c)
  /\ captures' = [captures EXCEPT ![c] = 0]
  /\ screenUnderstandingMode' = screenUnderstandingMode \ {c}
  /\ UNCHANGED <<entry, room, intervals, statsUpdateInterval, standbyMode, firstRuns, analysing>>

\* runProactiveAnalysis up to its await; what is on the screen and in the conversation
\* may or may not have changed.
RunProactiveAnalysis(c) ==
  \/ UNCHANGED analysing
  \/ /\ c \in enabled /\ c \in screenUnderstandingMode
     /\ analysing[c] < MaxPending
     /\ analysing' = [analysing EXCEPT ![c] = @ + 1]

AnalysisTick(c) ==
  /\ analysisIntervals[c] > 0
  /\ RunProactiveAnalysis(c)
  /\ UNCHANGED <<entry, room, intervals, statsUpdateInterval, standbyMode, proactive, screen>>

FirstRun(c) ==
  /\ firstRuns[c] > 0
  /\ firstRuns' = [firstRuns EXCEPT ![c] = @ - 1]
  /\ RunProactiveAnalysis(c)
  /\ UNCHANGED <<entry, room, intervals, statsUpdateInterval, standbyMode, enabled,
                 analysisTimer, analysisIntervals, screen>>

\* The insights are sent, or there are none, or the model failed.
AnalysisEnds(c) ==
  /\ analysing[c] > 0
  /\ analysing' = [analysing EXCEPT ![c] = @ - 1]
  /\ UNCHANGED <<entry, room, intervals, statsUpdateInterval, standbyMode, proactive, screen>>

Next ==
  \/ EntryDeleted
  \/ \E c \in Contexts :
       \/ ContextMade(c) \/ Disconnected(c) \/ EnterStandbyMode(c)
       \/ AddScreenContext(c) \/ ClearScreenContext(c)
       \/ AnalysisTick(c) \/ FirstRun(c) \/ AnalysisEnds(c)
       \/ \E k \in Checkers : CheckerStops(k, c)

Spec == Init /\ [][Next]_vars

-----------------------------------------------------------------------------
\* Every variable has its shape; the captures kept respect their limit.
TypeOK ==
  /\ entry \in Contexts \cup {NoContext}
  /\ room \in [Contexts -> {"none", "joined", "left"}]
  /\ intervals \subseteq Checkers \X Contexts
  /\ statsUpdateInterval \subseteq Contexts
  /\ standbyMode \subseteq Contexts
  /\ enabled \subseteq Contexts
  /\ analysisTimer \subseteq Contexts
  /\ analysisIntervals \in [Contexts -> Nat]
  /\ firstRuns \in [Contexts -> Nat]
  /\ analysing \in [Contexts -> Nat]
  /\ captures \in [Contexts -> 0..MaxCaptures]
  /\ screenUnderstandingMode \subseteq Contexts

\* Through any order of restarts, captures, resets and standby:
\* a context fires at most one analysis interval, the one whose handle it holds, so that
\* none is lost that nobody could clear;
\* the analysis is on only for a context that collects captures and has some;
\* the checkers of silence and of topics do not outlive the room they were started in,
\* even when a successor keeps the entry of the room alive;
\* and a context in standby has no statistics checker of its own.
IntervalsUnderControl ==
  /\ \A c \in Contexts : analysisIntervals[c] = IF c \in analysisTimer THEN 1 ELSE 0
  /\ \A c \in enabled : c \in screenUnderstandingMode /\ captures[c] > 0
  /\ \A c \in Contexts, k \in {"silent", "topic"} : <<k, c>> \in intervals => room[c] = "joined"
  /\ \A c \in standbyMode : <<"stats", c>> \notin intervals

\* One checker of each kind in a room. Not so: a restart before the next tick leaves
\* the armed timeout and the statistics checker of the old context running.
OneCheckerPerRoom ==
  \A k \in Checkers, b, c \in Contexts :
    <<k, b>> \in intervals /\ <<k, c>> \in intervals => b = c
=============================================================================
