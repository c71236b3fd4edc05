--------------------------- MODULE TimerToolProofs ---------------------------
(***************************************************************************)
(* The safety properties of TimerTool, for any rooms, any handles, any     *)
(* length of a minute and any choice of durations.                         *)
(***************************************************************************)
EXTENDS TimerTool, TLAPS

Threshold(r) == warningMinutes[r] * SecondsPerMinute

\* A timer that still owes its warning is above the threshold, in a state from
\* which the callback will see the threshold go by.
OwedWarning ==
  \A r \in Rooms :
    Exists(r) =>
      /\ warningMinutes[r] > 0
      /\ r \in headroom \ warned =>
           /\ remainingSeconds[r] > Threshold(r)
           /\ timerState[r] \in {"running", "paused"}

\* An announced end leaves the timer in a state that does not count.
FinishedIsIdle == \A r \in finished : ~Counting(r)

IInv ==
  /\ TypeOK
  /\ SingleCountdown
  /\ CountdownMatchesState
  /\ OwedWarning
  /\ FinishedIsIdle

-----------------------------------------------------------------------------
LEMMA ProductIsNat ==
  ASSUME NEW a \in Nat
  PROVE  a * SecondsPerMinute \in Nat
BY SecondsAssumption

LEMMA ProductIsPositive ==
  ASSUME NEW a \in Nat, a > 0
  PROVE  a * SecondsPerMinute > 0
BY SecondsAssumption

LEMMA ProductGrows ==
  ASSUME NEW a \in Nat, NEW b \in Nat, a > b
  PROVE  a * SecondsPerMinute > b * SecondsPerMinute
BY SecondsAssumption

\* The warning of a start command is a positive number of minutes, given or
\* defaulted.
LEMMA WarningsArePositive ==
  ASSUME NEW minutes \in Nat, NEW w \in WarningsFor(minutes)
  PROVE  w \in Nat /\ w > 0
BY ChoicesAssumption DEF WarningsFor, DefaultWarning

\* What setInterval leaves behind when nothing else is scheduled.
LEMMA FreshInterval ==
  ASSUME NEW r \in Rooms, SetInterval(r, {})
  PROVE  \E i \in Intervals :
           /\ i # NoInterval
           /\ scheduled' = [scheduled EXCEPT ![r] = {i}]
           /\ timerIntervals' = [timerIntervals EXCEPT ![r] = i]
BY NullAssumption DEF SetInterval

\* What stopTimerInterval leaves behind when at most the registered interval
\* is scheduled.
LEMMA ClearedInterval ==
  ASSUME NEW r \in Rooms, SingleCountdown, StopTimerInterval(r)
  PROVE  /\ scheduled' = [scheduled EXCEPT ![r] = {}]
         /\ timerIntervals' = [timerIntervals EXCEPT ![r] = NoInterval]
BY DEF StopTimerInterval, ScheduledAfterStop, SingleCountdown

LEMMA InitIInv == Init => IInv
BY NullAssumption
   DEF Init, IInv, TypeOK, SingleCountdown, CountdownMatchesState,
       OwedWarning, FinishedIsIdle, Counting, Exists

-----------------------------------------------------------------------------
LEMMA StartPreserves ==
  ASSUME IInv, NEW r \in Rooms, NEW target \in MinuteChoices,
         NEW warning \in WarningsFor(target), StartTimer(r, target, warning)
  PROVE  IInv'
<1> USE DEF IInv
<1>1. target \in Nat /\ warning \in Nat /\ warning > 0
  BY ChoicesAssumption, WarningsArePositive
<1>2. target * SecondsPerMinute \in Nat
  BY <1>1, ProductIsNat
<1>3. ScheduledAfterStop(r) = {}
  BY DEF ScheduledAfterStop, SingleCountdown
<1>4. PICK i \in Intervals :
        /\ i # NoInterval
        /\ scheduled' = [scheduled EXCEPT ![r] = {i}]
        /\ timerIntervals' = [timerIntervals EXCEPT ![r] = i]
  BY <1>3, FreshInterval DEF StartTimer
<1>5. TypeOK'
  BY <1>1, <1>2, <1>4 DEF TypeOK, StartTimer
<1>6. SingleCountdown' /\ CountdownMatchesState'
  BY <1>4 DEF SingleCountdown, CountdownMatchesState, Counting, TypeOK, StartTimer
<1>7. target > warning
        => target * SecondsPerMinute > warning * SecondsPerMinute
  BY <1>1, ProductGrows
<1>8. OwedWarning'
  BY <1>1, <1>7 DEF OwedWarning, Threshold, Exists, TypeOK, StartTimer
<1>9. FinishedIsIdle'
  BY DEF FinishedIsIdle, Counting, TypeOK, StartTimer
<1> QED
  BY <1>5, <1>6, <1>8, <1>9

LEMMA PausePreserves ==
  ASSUME IInv, NEW r \in Rooms, PauseTimer(r)
  PROVE  IInv'
<1> USE DEF IInv
<1>1. /\ scheduled' = [scheduled EXCEPT ![r] = {}]
      /\ timerIntervals' = [timerIntervals EXCEPT ![r] = NoInterval]
  BY ClearedInterval DEF PauseTimer
<1>2. TypeOK'
  BY <1>1 DEF TypeOK, PauseTimer, heard
<1>3. SingleCountdown' /\ CountdownMatchesState'
  BY <1>1 DEF SingleCountdown, CountdownMatchesState, Counting, TypeOK, PauseTimer
<1>4. OwedWarning' /\ FinishedIsIdle'
  BY DEF OwedWarning, FinishedIsIdle, Threshold, Counting, Exists, TypeOK,
         PauseTimer, heard
<1> QED
  BY <1>2, <1>3, <1>4

LEMMA StopPreserves ==
  ASSUME IInv, NEW r \in Rooms, StopTimer(r)
  PROVE  IInv'
<1> USE DEF IInv
<1>1. /\ scheduled' = [scheduled EXCEPT ![r] = {}]
      /\ timerIntervals' = [timerIntervals EXCEPT ![r] = NoInterval]
  BY ClearedInterval DEF StopTimer
<1>2. TypeOK'
  BY <1>1 DEF TypeOK, StopTimer
<1>3. SingleCountdown' /\ CountdownMatchesState'
  BY <1>1 DEF SingleCountdown, CountdownMatchesState, Counting, TypeOK, StopTimer
<1>4. OwedWarning' /\ FinishedIsIdle'
  BY DEF OwedWarning, FinishedIsIdle, Threshold, Counting, Exists, TypeOK, StopTimer
<1> QED
  BY <1>2, <1>3, <1>4

LEMMA ResumePreserves ==
  ASSUME IInv, NEW r \in Rooms, ResumeTimer(r)
  PROVE  IInv'
<1> USE DEF IInv
<1>1. scheduled[r] = {}
  BY DEF CountdownMatchesState, SingleCountdown, Counting, ResumeTimer
<1>2. PICK i \in Intervals :
        /\ i # NoInterval
        /\ scheduled' = [scheduled EXCEPT ![r] = {i}]
        /\ timerIntervals' = [timerIntervals EXCEPT ![r] = i]
  BY <1>1, FreshInterval DEF ResumeTimer
<1>3. TypeOK'
  BY <1>2 DEF TypeOK, ResumeTimer
<1>4. SingleCountdown' /\ CountdownMatchesState'
  BY <1>2 DEF SingleCountdown, CountdownMatchesState, Counting, TypeOK, ResumeTimer
<1>5. OwedWarning' /\ FinishedIsIdle'
  BY DEF OwedWarning, FinishedIsIdle, Threshold, Counting, Exists, TypeOK, ResumeTimer
<1> QED
  BY <1>3, <1>4, <1>5

LEMMA ExtendPreserves ==
  ASSUME IInv, NEW r \in Rooms, NEW minutes \in MinuteChoices,
         ExtendTimer(r, minutes)
  PROVE  IInv'
<1> USE DEF IInv
<1>1. minutes \in Nat /\ minutes * SecondsPerMinute \in Nat
  BY ChoicesAssumption, ProductIsNat
<1>2. OwedWarning'
  <2>1. Threshold(r)' = Threshold(r) /\ Threshold(r) \in Nat
    BY ProductIsNat DEF Threshold, ExtendTimer, TypeOK
  <2>2. remainingSeconds'[r] >= remainingSeconds[r]
    BY <1>1 DEF ExtendTimer, TypeOK
  <2>3. remainingSeconds[r] \in Nat /\ remainingSeconds'[r] \in Nat
    BY <1>1 DEF ExtendTimer, TypeOK
  <2>4. remainingSeconds[r] > Threshold(r) => remainingSeconds'[r] > Threshold(r)'
    BY <2>1, <2>2, <2>3
  <2>5. ASSUME NEW q \in Rooms, q # r
        PROVE  /\ timerState'[q] = timerState[q]
               /\ remainingSeconds'[q] = remainingSeconds[q]
    BY <2>5 DEF ExtendTimer, TypeOK
  <2> QED
    BY <2>4, <2>5 DEF OwedWarning, Threshold, Exists, ExtendTimer, Revived, TypeOK
<1>3. FinishedIsIdle'
  BY DEF FinishedIsIdle, Counting, ExtendTimer, TypeOK
<1>4. CASE NeedsInterval(r)
  <2>1. scheduled[r] = {}
    BY <1>4 DEF NeedsInterval, SingleCountdown
  <2>2. PICK i \in Intervals :
          /\ i # NoInterval
          /\ scheduled' = [scheduled EXCEPT ![r] = {i}]
          /\ timerIntervals' = [timerIntervals EXCEPT ![r] = i]
    BY <1>4, <2>1, FreshInterval DEF ExtendTimer
  <2>3. TypeOK'
    BY <1>1, <2>2 DEF TypeOK, ExtendTimer
  <2>4. SingleCountdown' /\ CountdownMatchesState'
    BY <1>4, <2>2 DEF SingleCountdown, CountdownMatchesState, Counting,
                      NeedsInterval, Revived, TypeOK, ExtendTimer
  <2> QED
    BY <1>2, <1>3, <2>3, <2>4
<1>5. CASE ~NeedsInterval(r)
  <2>1. UNCHANGED <<scheduled, timerIntervals>>
    BY <1>5 DEF ExtendTimer
  <2>2. TypeOK'
    BY <1>1, <2>1 DEF TypeOK, ExtendTimer
  <2>3. SingleCountdown' /\ CountdownMatchesState'
    BY <1>5, <2>1 DEF SingleCountdown, CountdownMatchesState, Counting,
                      NeedsInterval, Revived, TypeOK, ExtendTimer
  <2> QED
    BY <1>2, <1>3, <2>2, <2>3
<1> QED
  BY <1>4, <1>5

\* The callback: the interval that fires is the registered one, so the timer
\* counts, and the branch for a timer that does not is never taken.
LEMMA TickPreserves ==
  ASSUME IInv, NEW r \in Rooms, NEW i \in Intervals, Tick(r, i)
  PROVE  IInv'
<1> USE DEF IInv
<1>1. timerIntervals[r] # NoInterval /\ Counting(r)
  BY DEF Tick, SingleCountdown, CountdownMatchesState
<1>2. /\ IF Ends(r)
         THEN /\ scheduled' = [scheduled EXCEPT ![r] = {}]
              /\ timerIntervals' = [timerIntervals EXCEPT ![r] = NoInterval]
         ELSE UNCHANGED <<scheduled, timerIntervals>>
  BY <1>1, ClearedInterval DEF Tick
<1>3. /\ remainingSeconds[r] \in Nat
      /\ ~Ends(r) => SecondsLeft(r) \in Nat
  BY DEF Ends, SecondsLeft, TypeOK
<1>4. TypeOK'
  BY <1>1, <1>2, <1>3 DEF TypeOK, Tick
<1>5. SingleCountdown' /\ CountdownMatchesState'
  BY <1>1, <1>2 DEF SingleCountdown, CountdownMatchesState, Counting, TypeOK, Tick
<1>6. OwedWarning'
  <2>1. Threshold(r) \in Nat /\ Threshold(r) > 0
    BY <1>1, ProductIsNat, ProductIsPositive
       DEF Threshold, OwedWarning, Counting, Exists, TypeOK
  <2>2. ASSUME r \in headroom' \ warned'
        PROVE  /\ remainingSeconds'[r] > Threshold(r)
               /\ timerState'[r] = "running"
    <3>1. r \in headroom \ warned /\ ~Warns(r)
      BY <1>1, <2>2 DEF Tick
    <3>2. remainingSeconds[r] > Threshold(r) /\ timerState[r] = "running"
      BY <1>1, <3>1 DEF OwedWarning, Counting, Exists
    <3>3. SecondsLeft(r) # Threshold(r)
      BY <3>1, <3>2 DEF Warns, Threshold
    <3>4. SecondsLeft(r) > Threshold(r) /\ ~Ends(r)
      BY <1>3, <2>1, <3>2, <3>3 DEF SecondsLeft, Ends
    <3> QED
      BY <1>1, <3>1, <3>2, <3>4 DEF Tick, TypeOK
  <2>3. warningMinutes' = warningMinutes /\ warningMinutes[r] > 0
    BY <1>1 DEF Tick, OwedWarning, Counting, Exists
  <2>4. ASSUME NEW q \in Rooms, q # r
        PROVE  /\ timerState'[q] = timerState[q]
               /\ remainingSeconds'[q] = remainingSeconds[q]
               /\ q \in headroom' \ warned' => q \in headroom \ warned
    BY <1>1, <2>4 DEF Tick, TypeOK
  <2> QED
    BY <2>2, <2>3, <2>4 DEF OwedWarning, Threshold, Exists
<1>7. FinishedIsIdle'
  BY <1>1 DEF FinishedIsIdle, Counting, Tick, TypeOK
<1> QED
  BY <1>4, <1>5, <1>6, <1>7

-----------------------------------------------------------------------------
LEMMA StepPreserves == IInv /\ [Next]_vars => IInv'
<1>1. ASSUME IInv, NEW r \in Rooms, Command(r)
      PROVE  IInv'
  BY <1>1, StartPreserves, PausePreserves, ResumePreserves, ExtendPreserves,
     StopPreserves DEF Command
<1>2. ASSUME IInv, NEW r \in Rooms, TickSome(r)
      PROVE  IInv'
  BY <1>2, TickPreserves DEF TickSome
<1>3. ASSUME IInv, UNCHANGED vars
      PROVE  IInv'
  BY <1>3 DEF vars, timerStore, heard, IInv, TypeOK, SingleCountdown,
     CountdownMatchesState, OwedWarning, FinishedIsIdle, Threshold, Counting, Exists
<1> QED
  BY <1>1, <1>2, <1>3 DEF Next

LEMMA Inductive == Spec => []IInv
BY InitIInv, StepPreserves, PTL DEF Spec

\* The maps timerStore and timerIntervals keep their shape, and
\* remainingSeconds stays a natural number.
THEOREM TypeCorrect == Spec => []TypeOK
<1>1. IInv => TypeOK
  BY DEF IInv
<1> QED
  BY <1>1, Inductive, PTL

\* At most one interval counts a room's timer down, the registered one.
THEOREM OneCountdownPerRoom == Spec => []SingleCountdown
<1>1. IInv => SingleCountdown
  BY DEF IInv
<1> QED
  BY <1>1, Inductive, PTL

\* A room has an interval exactly while its timer is running or warning.
THEOREM CountdownFollowsState == Spec => []CountdownMatchesState
<1>1. IInv => CountdownMatchesState
  BY DEF IInv
<1> QED
  BY <1>1, Inductive, PTL

\* A timer started above its warning threshold is announced before it ends.
THEOREM WarningPrecedesEnd == Spec => []WarnedBeforeEnd
<1>1. IInv => WarnedBeforeEnd
  BY DEF IInv, TypeOK, OwedWarning, Exists, WarnedBeforeEnd
<1> QED
  BY <1>1, Inductive, PTL

\* After the end is announced nothing is scheduled that could announce it again.
THEOREM EndIsFinal == Spec => []EndedIsFinal
<1>1. IInv => EndedIsFinal
  BY DEF IInv, TypeOK, FinishedIsIdle, CountdownMatchesState, SingleCountdown,
         EndedIsFinal
<1> QED
  BY <1>1, Inductive, PTL

-----------------------------------------------------------------------------
(* TimerTool implements MeetingTimer.                                      *)

LEMMA ModeIsShown ==
  ASSUME NEW r \in Rooms
  PROVE  Mode[r] = Shown(timerState[r])
BY DEF Mode

\* A new state of one timer changes what is seen of that timer only.
LEMMA ModeFollows ==
  ASSUME TypeOK, NEW r \in Rooms, NEW state,
         timerState' = [timerState EXCEPT ![r] = state]
  PROVE  Mode' = [Mode EXCEPT ![r] = Shown(state)]
BY DEF Mode, TypeOK

LEMMA InitIsPromised == Init => Promise!Init
BY DEF Init, Promise!Init, Mode, Shown

LEMMA StartIsPromised ==
  ASSUME IInv, NEW r \in Rooms, NEW target \in MinuteChoices,
         NEW warning \in WarningsFor(target), StartTimer(r, target, warning)
  PROVE  Promise!Begin(r)
<1>1. target \in Nat /\ target > 0
  BY ChoicesAssumption
<1>2. target * SecondsPerMinute > 0
  BY <1>1, ProductIsPositive
<1>3. Mode' = [Mode EXCEPT ![r] = "going"]
  BY ModeFollows DEF StartTimer, IInv, Shown
<1> QED
  BY <1>2, <1>3 DEF Promise!Begin, Promise!OnlyLeftOf, StartTimer, IInv, TypeOK

LEMMA PauseIsPromised ==
  ASSUME IInv, NEW r \in Rooms, PauseTimer(r)
  PROVE  Promise!Hold(r)
<1>1. Mode' = [Mode EXCEPT ![r] = "held"]
  BY ModeFollows DEF PauseTimer, IInv, Shown
<1>2. Mode[r] # "off"
  BY ModeIsShown DEF PauseTimer, Exists, Shown, IInv, TypeOK
<1> QED
  BY <1>1, <1>2 DEF Promise!Hold, PauseTimer, heard

LEMMA ResumeIsPromised ==
  ASSUME IInv, NEW r \in Rooms, ResumeTimer(r)
  PROVE  Promise!Continue(r)
<1>1. Mode' = [Mode EXCEPT ![r] = "going"]
  BY ModeFollows DEF ResumeTimer, IInv, Shown
<1>2. Mode[r] = "held"
  BY ModeIsShown DEF ResumeTimer, Shown
<1> QED
  BY <1>1, <1>2 DEF Promise!Continue, ResumeTimer

LEMMA ExtendIsPromised ==
  ASSUME IInv, NEW r \in Rooms, NEW minutes \in MinuteChoices, ExtendTimer(r, minutes)
  PROVE  Promise!Add(r)
<1>1. minutes \in Nat /\ minutes > 0
  BY ChoicesAssumption
<1>2. minutes * SecondsPerMinute \in Nat /\ minutes * SecondsPerMinute > 0
  BY <1>1, ProductIsNat, ProductIsPositive
<1>3. Mode[r] # "off"
  BY ModeIsShown DEF ExtendTimer, Exists, Shown, IInv, TypeOK
<1>4. Mode' = [Mode EXCEPT ![r] = Shown(IF Revived(r) THEN "running" ELSE timerState[r])]
  BY ModeFollows DEF ExtendTimer, IInv
<1>5. Mode' = [Mode EXCEPT ![r] = IF @ = "over" THEN "going" ELSE @]
  BY <1>4, ModeIsShown DEF Revived, Shown, IInv, TypeOK, Mode
<1>6. /\ remainingSeconds'[r] > remainingSeconds[r]
      /\ remainingSeconds' = [remainingSeconds EXCEPT ![r] = remainingSeconds'[r]]
  BY <1>2 DEF ExtendTimer, IInv, TypeOK
<1> QED
  BY <1>3, <1>5, <1>6 DEF Promise!Add, Promise!OnlyLeftOf, ExtendTimer

LEMMA StopIsPromised ==
  ASSUME IInv, NEW r \in Rooms, StopTimer(r)
  PROVE  Promise!Cancel(r)
<1>1. timerState' = [timerState EXCEPT ![r] = "none"] /\ TypeOK
  BY DEF StopTimer, IInv
<1>2. Mode' = [Mode EXCEPT ![r] = Shown("none")]
  BY <1>1, ModeFollows
<1> QED
  BY <1>2 DEF Promise!Cancel, StopTimer, Shown

\* The end comes after the warning because a timer that owes one is above its threshold.
LEMMA TickIsPromised ==
  ASSUME IInv, NEW r \in Rooms, NEW i \in Intervals, Tick(r, i)
  PROVE  Promise!Second(r)
<1> USE DEF IInv
<1>1. Counting(r) /\ Mode[r] = "going"
  BY ModeIsShown DEF Tick, SingleCountdown, CountdownMatchesState, Shown, Counting
<1>2. remainingSeconds[r] \in Nat /\ (Ends(r) <=> ~(remainingSeconds[r] > 1))
  BY DEF Ends, SecondsLeft, TypeOK
<1>3. Threshold(r) \in Nat /\ Threshold(r) > 0
  BY <1>1, ProductIsNat, ProductIsPositive
     DEF Threshold, OwedWarning, Counting, Exists, TypeOK
<1>4. Warns(r) => ~Ends(r)
  BY <1>3 DEF Warns, Ends, Threshold, TypeOK, SecondsLeft
<1>5. Ends(r) /\ r \in headroom => r \in warned
  BY <1>1, <1>2, <1>3 DEF OwedWarning, Exists, Counting
<1>6. remainingSeconds' =
        [remainingSeconds EXCEPT ![r] = IF @ > 1 THEN @ - 1 ELSE 0]
  BY <1>1, <1>2 DEF Tick, SecondsLeft, TypeOK
<1>7. Mode' = [Mode EXCEPT ![r] = IF remainingSeconds[r] > 1 THEN @ ELSE "over"]
  <2>1. Mode' = [Mode EXCEPT ![r] = Shown(IF Ends(r) THEN "ended"
                                          ELSE IF Warns(r) THEN "warning" ELSE timerState[r])]
    BY <1>1, ModeFollows DEF Tick
  <2> QED
    BY <1>1, <1>2, <2>1 DEF Shown, Counting, Mode
<1>8. IF remainingSeconds[r] > 1
      THEN warned' \in {warned, warned \cup {r}}
      ELSE warned' = warned /\ (r \in headroom => r \in warned)
  BY <1>1, <1>2, <1>4, <1>5 DEF Tick
<1> QED
  BY <1>1, <1>6, <1>7, <1>8 DEF Promise!Second, Tick

LEMMA StepIsPromised == IInv /\ [Next]_vars => [Promise!Next]_(Promise!promise)
<1>1. ASSUME IInv, NEW r \in Rooms, Command(r)
      PROVE  Promise!Next
  BY <1>1, StartIsPromised, PauseIsPromised, ResumeIsPromised, ExtendIsPromised,
     StopIsPromised DEF Command, Promise!Next
<1>2. ASSUME IInv, NEW r \in Rooms, TickSome(r)
      PROVE  Promise!Next
  BY <1>2, TickIsPromised DEF TickSome, Promise!Next
<1>3. ASSUME UNCHANGED vars
      PROVE  UNCHANGED Promise!promise
  BY <1>3 DEF vars, timerStore, heard, Promise!promise, Mode
<1> QED
  BY <1>1, <1>2, <1>3 DEF Next

\* The functions of timer.tool.ts and their interval callbacks implement the timer that the
\* participants are promised.
THEOREM Implementation == Spec => KeepsPromise
BY InitIsPromised, StepIsPromised, Inductive, PTL DEF Spec, KeepsPromise, Promise!Spec
=============================================================================
