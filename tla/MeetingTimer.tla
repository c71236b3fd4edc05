---------------------------- MODULE MeetingTimer -----------------------------
(***************************************************************************)
(* What the meeting timer promises the participants of a room, without     *)
(* intervals, handles and states of a map: seconds that go by one at a     *)
(* time while the timer is going, and a warning before it is over.         *)
(* TimerTool implements it.                                                *)
(***************************************************************************)
EXTENDS Naturals

CONSTANT Rooms

VARIABLES
  left,  \* room -> seconds left
  mode,  \* room -> "off", "going", "held" or "over"
  told,  \* rooms that have been warned since the timer began
  due    \* rooms that are owed a warning before the end

promise == <<left, mode, told, due>>

Init ==
  /\ left = [r \in Rooms |-> 0]
  /\ mode = [r \in Rooms |-> "off"]
  /\ told = {}
  /\ due = {}

\* left'[r] is the choice of the participants; nothing else changes.
OnlyLeftOf(r) == left' = [left EXCEPT ![r] = left'[r]]

Begin(r) ==
  /\ mode' = [mode EXCEPT ![r] = "going"]
  /\ left'[r] > 0
  /\ OnlyLeftOf(r)
  /\ told' = told \ {r}
  /\ due' \in {due \cup {r}, due \ {r}}

Hold(r) ==
  /\ mode[r] # "off"
  /\ mode' = [mode EXCEPT ![r] = "held"]
  /\ UNCHANGED <<left, told, due>>

Continue(r) ==
  /\ mode[r] = "held"
  /\ mode' = [mode EXCEPT ![r] = "going"]
  /\ UNCHANGED <<left, told, due>>

Add(r) ==
  /\ mode[r] # "off"
  /\ left'[r] > left[r]
  /\ OnlyLeftOf(r)
  /\ mode' = [mode EXCEPT ![r] = IF @ = "over" THEN "going" ELSE @]
  /\ UNCHANGED <<told, due>>

Cancel(r) ==
  /\ mode' = [mode EXCEPT ![r] = "off"]
  /\ left' = [left EXCEPT ![r] = 0]
  /\ told' = told \ {r}
  /\ due' = due \ {r}

\* A second goes by.  A warning comes before the last one, and the timer is not over before
\* it was given.
Second(r) ==
  /\ mode[r] = "going"
  /\ left' = [left EXCEPT ![r] = IF @ > 1 THEN @ - 1 ELSE 0]
  /\ mode' = [mode EXCEPT ![r] = IF left[r] > 1 THEN @ ELSE "over"]
  /\ IF left[r] > 1
     THEN told' \in {told, told \cup {r}}
     ELSE UNCHANGED told /\ (r \in due => r \in told)
  /\ UNCHANGED due

Next ==
  \E r \in Rooms :
    Begin(r) \/ Hold(r) \/ Continue(r) \/ Add(r) \/ Cancel(r) \/ Second(r)

Spec == Init /\ [][Next]_promise
=============================================================================
