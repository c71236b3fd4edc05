------------------------------ MODULE TimerTool ------------------------------
(***************************************************************************)
(* The meeting timer of src/mcp/tools/timer.tool.ts.                       *)
(*                                                                         *)
(* timerStore maps a room to its timer, timerIntervals maps it to the      *)
(* handle of the setInterval that counts it down.  The two maps, and the   *)
(* set of intervals node really has scheduled, are separate pieces of      *)
(* state that startTimer, pauseTimer, resumeTimer, extendTimer, stopTimer  *)
(* and the callback itself each update in their own way.  Every function   *)
(* is synchronous, so each is one action.                                  *)
(*                                                                         *)
(* timerStore is held field by field: timerState[r] = "none" says the room *)
(* has no entry.  startedAt and endTime are only reported, never read, and *)
(* are left out.                                                           *)
(***************************************************************************)
EXTENDS Integers

CONSTANTS
  Rooms,             \* room ids
  Intervals,         \* handles setInterval may return
  SecondsPerMinute,  \* 60 in the code
  MinuteChoices,     \* the "minutes" a start or extend command may carry
  WarningChoices,    \* the "warningMinutes" a start command may carry
  MaxMinutes,        \* bound on targetMinutes, which extendTimer grows
  NoInterval         \* no entry in timerIntervals

\* Whole minutes, at least one. The spoken commands carry them; the client's message is not
\* validated (handleTimerCommand), and other durations are outside of what is shown here.
ASSUME SecondsAssumption == SecondsPerMinute \in Nat \ {0}
ASSUME ChoicesAssumption ==
  /\ MinuteChoices \subseteq Nat \ {0}
  /\ WarningChoices \subseteq Nat \ {0}
ASSUME NullAssumption == NoInterval \notin Intervals

VARIABLES
  timerState,        \* room -> "none" or its timer's state
  targetMinutes,     \* room -> minutes asked for so far
  warningMinutes,    \* room -> minutes before the end the warning is due
  remainingSeconds,  \* room -> seconds left
  timerIntervals,    \* room -> the registered handle, or NoInterval
  scheduled,         \* room -> intervals node fires for it (not yet cleared)
  warned,            \* rooms told 'warning' since their timer was started
  finished,          \* rooms told 'ended', the countdown not revived since
  headroom           \* rooms whose timer was started above its threshold

timerStore == <<timerState, targetMinutes, warningMinutes, remainingSeconds>>
heard == <<warned, finished, headroom>>
vars == <<timerStore, timerIntervals, scheduled, heard>>

Exists(r) == timerState[r] # "none"

\* The states in which the interval callback goes on counting.
Counting(r) == timerState[r] \in {"running", "warning"}

-----------------------------------------------------------------------------
\* Math.max(1, Math.floor(minutes * 0.15)): both command handlers of the voice
\* bot warn 15% before the end when the command names no warning.
DefaultWarning(minutes) ==
  LET fifteenPercent == (minutes * 15) \div 100
  IN  IF fifteenPercent < 1 THEN 1 ELSE fifteenPercent

WarningsFor(minutes) == WarningChoices \cup {DefaultWarning(minutes)}

\* clearInterval on the registered handle, if there is one.
ScheduledAfterStop(r) == scheduled[r] \ {timerIntervals[r]}

StopTimerInterval(r) ==
  /\ scheduled' = [scheduled EXCEPT ![r] = ScheduledAfterStop(r)]
  /\ timerIntervals' = [timerIntervals EXCEPT ![r] = NoInterval]

\* setInterval, whose handle replaces the registered one; "kept" is what is
\* still scheduled when it is called.
SetInterval(r, kept) ==
  \E i \in Intervals \ kept :
    /\ scheduled' = [scheduled EXCEPT ![r] = kept \cup {i}]
    /\ timerIntervals' = [timerIntervals EXCEPT ![r] = i]

-----------------------------------------------------------------------------
Init ==
  /\ timerState = [r \in Rooms |-> "none"]
  /\ targetMinutes = [r \in Rooms |-> 0]
  /\ warningMinutes = [r \in Rooms |-> 0]
  /\ remainingSeconds = [r \in Rooms |-> 0]
  /\ timerIntervals = [r \in Rooms |-> NoInterval]
  /\ scheduled = [r \in Rooms |-> {}]
  /\ warned = {} /\ finished = {} /\ headroom = {}

StartTimer(r, target, warning) ==
  /\ target <= MaxMinutes
  /\ timerState' = [timerState EXCEPT ![r] = "running"]
  /\ targetMinutes' = [targetMinutes EXCEPT ![r] = target]
  /\ warningMinutes' = [warningMinutes EXCEPT ![r] = warning]
  /\ remainingSeconds' = [remainingSeconds EXCEPT ![r] = target * SecondsPerMinute]
  /\ SetInterval(r, ScheduledAfterStop(r))
  /\ warned' = warned \ {r}
  /\ finished' = finished \ {r}
  /\ headroom' = IF target > warning THEN headroom \cup {r} ELSE headroom \ {r}

\* Any timer can be paused, an ended one included.
PauseRoundingDown(r) ==
  /\ Exists(r)
  /\ StopTimerInterval(r)
  /\ timerState' = [timerState EXCEPT ![r] = "paused"]
  /\ remainingSeconds' = [remainingSeconds EXCEPT ![r] = @ - (@ % SecondsPerMinute)]
  /\ UNCHANGED <<targetMinutes, warningMinutes, heard>>
PauseTimer(r) ==
  /\ Exists(r)
  /\ StopTimerInterval(r)
  /\ timerState' = [timerState EXCEPT ![r] = "paused"]
  /\ UNCHANGED <<targetMinutes, warningMinutes, remainingSeconds, heard>>

\* The new interval is registered without clearing an old one.
ResumeTimer(r) ==
  /\ timerState[r] = "paused"
  /\ timerState' = [timerState EXCEPT ![r] = "running"]
  /\ SetInterval(r, scheduled[r])
  /\ finished' = finished \ {r}
  /\ UNCHANGED <<targetMinutes, warningMinutes, remainingSeconds, warned, headroom>>

Revived(r) == timerState[r] \in {"ended", "warning"}

NeedsNoInterval(r) == FALSE
NeedsInterval(r) == Revived(r) /\ timerIntervals[r] = NoInterval

ExtendTimer(r, minutes) ==
  /\ Exists(r)
  /\ targetMinutes[r] + minutes <= MaxMinutes
  /\ remainingSeconds' = [remainingSeconds EXCEPT ![r] = @ + minutes * SecondsPerMinute]
  /\ targetMinutes' = [targetMinutes EXCEPT ![r] = @ + minutes]
  /\ timerState' = [timerState EXCEPT ![r] = IF Revived(r) THEN "running" ELSE @]
  /\ IF NeedsInterval(r)
     THEN SetInterval(r, scheduled[r])
     ELSE UNCHANGED <<scheduled, timerIntervals>>
  /\ finished' = finished \ {r}
  /\ UNCHANGED <<warningMinutes, warned, headroom>>

StopTimer(r) ==
  /\ StopTimerInterval(r)
  /\ timerState' = [timerState EXCEPT ![r] = "none"]
  /\ targetMinutes' = [targetMinutes EXCEPT ![r] = 0]
  /\ warningMinutes' = [warningMinutes EXCEPT ![r] = 0]
  /\ remainingSeconds' = [remainingSeconds EXCEPT ![r] = 0]
  /\ warned' = warned \ {r}
  /\ finished' = finished \ {r}
  /\ headroom' = headroom \ {r}

\* The setInterval callback (the same text in startTimer, resumeTimer and
\* extendTimer), run by the scheduled interval i.
SecondsLeftWhenRunning(r) ==
  remainingSeconds[r] - (IF timerState[r] = "running" THEN 1 ELSE 0)
SecondsLeft(r) == remainingSeconds[r] - 1

Warns(r) ==
  /\ SecondsLeft(r) = warningMinutes[r] * SecondsPerMinute
  /\ timerState[r] = "running"

EndsOnZeroOnly(r) == SecondsLeft(r) = 0
Ends(r) == SecondsLeft(r) <= 0

Tick(r, i) ==
  /\ i \in scheduled[r]
  /\ IF Counting(r)
     THEN /\ remainingSeconds' = [remainingSeconds EXCEPT
               ![r] = IF Ends(r) THEN 0 ELSE SecondsLeft(r)]
          /\ timerState' = [timerState EXCEPT
               ![r] = IF Ends(r) THEN "ended" ELSE IF Warns(r) THEN "warning" ELSE @]
          /\ IF Ends(r)
             THEN StopTimerInterval(r)
             ELSE UNCHANGED <<scheduled, timerIntervals>>
          /\ warned' = IF Warns(r) THEN warned \cup {r} ELSE warned
          /\ finished' = IF Ends(r) THEN finished \cup {r} ELSE finished
     ELSE /\ StopTimerInterval(r)
          /\ UNCHANGED <<timerState, remainingSeconds, warned, finished>>
  /\ UNCHANGED <<targetMinutes, warningMinutes, headroom>>

\* handleTimerCommand, for the message of a client. The spoken commands make the same
\* calls, with the default warning; a status query changes nothing.
Command(r) ==
  \/ \E target \in MinuteChoices : \E warning \in WarningsFor(target) :
       StartTimer(r, target, warning)
  \/ \E minutes \in MinuteChoices : ExtendTimer(r, minutes)
  \/ PauseTimer(r)
  \/ ResumeTimer(r)
  \/ StopTimer(r)

TickSome(r) == \E i \in Intervals : Tick(r, i)

Next == \E r \in Rooms : Command(r) \/ TickSome(r)

Spec == Init /\ [][Next]_vars

\* node keeps firing a scheduled interval.
Fairness == \A r \in Rooms : WF_vars(TickSome(r))

FairSpec == Spec /\ Fairness

-----------------------------------------------------------------------------
\* Every variable has its shape; remainingSeconds never goes below zero.
TypeOK ==
  /\ timerState \in [Rooms -> {"none", "running", "paused", "warning", "ended"}]
  /\ targetMinutes \in [Rooms -> Nat]
  /\ warningMinutes \in [Rooms -> Nat]
  /\ remainingSeconds \in [Rooms -> Nat]
  /\ timerIntervals \in [Rooms -> Intervals \cup {NoInterval}]
  /\ scheduled \in [Rooms -> SUBSET Intervals]
  /\ warned \subseteq Rooms /\ finished \subseteq Rooms /\ headroom \subseteq Rooms

\* A room never has two countdowns running: whatever node has scheduled for it
\* is the one interval timerIntervals can still clear (startTimer, resumeTimer
\* and extendTimer each schedule one, in different ways).
SingleCountdown ==
  \A r \in Rooms : scheduled[r] = {timerIntervals[r]} \ {NoInterval}

\* The countdown runs exactly while the timer is running or warning: a timer
\* that should count is never left without an interval, and none keeps firing
\* for a timer that was paused, ended or stopped.
CountdownMatchesState ==
  \A r \in Rooms : Counting(r) <=> timerIntervals[r] # NoInterval

\* A timer started above its warning threshold never reaches its end without
\* the 'warning' notification, however often it is paused, resumed or extended.
WarnedBeforeEnd ==
  \A r \in headroom : timerState[r] = "ended" => r \in warned

\* What the voice bot tells the participants when it starts a timer: "I will
\* alert you N minutes before" (voice-bot.service.ts:2958), for every timer.
PromisedWarning ==
  \A r \in Rooms : timerState[r] = "ended" => r \in warned

\* Once 'ended' has been announced no interval is left that could announce it
\* again: only a start, an extension or a resume sets one.
EndedIsFinal == \A r \in finished : scheduled[r] = {}

\* What the participants see of a state of the timer.
Shown(state) ==
  IF state \in {"running", "warning"} THEN "going"
  ELSE IF state = "paused" THEN "held"
  ELSE IF state = "ended" THEN "over" ELSE "off"

Mode == [r \in Rooms |-> Shown(timerState[r])]

Promise ==
  INSTANCE MeetingTimer
  WITH left <- remainingSeconds, mode <- Mode, told <- warned, due <- headroom

\* The two maps and the intervals implement the timer the participants are promised: seconds
\* go by one at a time and only while the timer is going, a pause loses none, a timer that
\* is over goes on only by a command, and never is over without the warning it owes.
KeepsPromise == Promise!Spec

\* A counting timer stops counting (it ends, or is paused or stopped), unless
\* the participants go on giving timer commands for ever.
CountdownTerminates ==
  \A r \in Rooms :
    []<><<Command(r)>>_vars \/ (Counting(r) ~> ~Counting(r))
=============================================================================
