--------------------------- MODULE RagReportProofs ---------------------------
(***************************************************************************)
(* Theorems about RagReport, for any number of calls.                      *)
(***************************************************************************)
EXTENDS RagReport, TLAPS

\* EntryIsAlive and WaitingCallHasTimer are not inductive: the POST may return after
\* somebody else has taken the entry away. What survives every such deletion
\* is that a timer is cleared only by the step that settles its promise.
TimerSettles ==
  \A c \in Calls :
    /\ InProgress(c) /\ promise[c] = "unsettled" => c \in timers
    /\ pc[c] = "waiting" => promise[c] = "unsettled"

IInv == TypeOK /\ EntryIsAlive /\ TimerSettles

LEMMA TypeStep == TypeOK /\ [Next]_vars => TypeOK'
<1> SUFFICES ASSUME TypeOK, [Next]_vars PROVE TypeOK'
  OBVIOUS
<1> USE DEF TypeOK, Links, network
<1>1. ASSUME NEW c \in Calls, RequestReport(c) PROVE TypeOK'
  BY <1>1 DEF RequestReport, Refused, Return
<1>2. ASSUME NEW c \in Calls, PostAccepted(c) PROVE TypeOK'
  BY <1>2 DEF PostAccepted
<1>3. ASSUME NEW c \in Calls, PostReturned(c) PROVE TypeOK'
  BY <1>3 DEF PostReturned, Return
<1>4. ASSUME NEW c \in Calls, PostFailed(c) PROVE TypeOK'
  BY <1>4 DEF PostFailed, Return, DropEntry
<1>5. ASSUME NEW c \in Calls, MeetingReport(c) PROVE TypeOK'
  BY <1>5 DEF MeetingReport, Resolve, Return
<1>6. ASSUME NEW c \in Calls, ReportTimeout(c) PROVE TypeOK'
  BY <1>6 DEF ReportTimeout, Reject, Return
<1>7. CASE Disconnect BY <1>7 DEF Disconnect, Reject, Return
<1>8. CASE ConnectionChanges BY <1>8 DEF ConnectionChanges
<1>9. CASE UNCHANGED vars BY <1>9 DEF vars
<1> QED BY <1>1, <1>2, <1>3, <1>4, <1>5, <1>6, <1>7, <1>8, <1>9 DEF Next, CallStep

LEMMA AliveStep ==
  ASSUME CallsAssumption
  PROVE  IInv /\ [Next]_vars => IInv'
<1> SUFFICES ASSUME IInv, [Next]_vars PROVE EntryIsAlive' /\ TimerSettles'
  BY TypeStep DEF IInv
<1> USE DEF CallsAssumption, IInv, TypeOK, Links, network, EntryIsAlive, TimerSettles, InProgress
<1>1. ASSUME NEW c \in Calls, RequestReport(c) PROVE EntryIsAlive' /\ TimerSettles'
  BY <1>1 DEF RequestReport, Refused, Return
<1>2. ASSUME NEW c \in Calls, PostAccepted(c) PROVE EntryIsAlive' /\ TimerSettles'
  BY <1>2 DEF PostAccepted
<1>3. ASSUME NEW c \in Calls, PostReturned(c) PROVE EntryIsAlive' /\ TimerSettles'
  BY <1>3 DEF PostReturned, Return
<1>4. ASSUME NEW c \in Calls, PostFailed(c) PROVE EntryIsAlive' /\ TimerSettles'
  BY <1>4 DEF PostFailed, Return, DropEntry
<1>5. ASSUME NEW c \in Calls, MeetingReport(c) PROVE EntryIsAlive' /\ TimerSettles'
  BY <1>5 DEF MeetingReport, Resolve, Return
<1>6. ASSUME NEW c \in Calls, ReportTimeout(c) PROVE EntryIsAlive' /\ TimerSettles'
  BY <1>6 DEF ReportTimeout, Reject, Return
<1>7. CASE Disconnect BY <1>7 DEF Disconnect, Reject, Return
<1>8. CASE ConnectionChanges BY <1>8 DEF ConnectionChanges
<1>9. CASE UNCHANGED vars BY <1>9 DEF vars
<1> QED BY <1>1, <1>2, <1>3, <1>4, <1>5, <1>6, <1>7, <1>8, <1>9 DEF Next, CallStep

LEMMA Invariance ==
  ASSUME CallsAssumption
  PROVE  Spec => []IInv
<1>1. Init => IInv
  BY DEF Init, IInv, TypeOK, Links, EntryIsAlive, TimerSettles, InProgress
<1> QED BY <1>1, AliveStep, PTL DEF Spec

\* Every reachable state is well formed, and every finished call has answered.
THEOREM TypeCorrect ==
  ASSUME CallsAssumption
  PROVE  Spec => []TypeOK
BY Invariance, PTL DEF IInv

\* No finished call leaves the room refusing further reports.
THEOREM EntryNeverStale ==
  ASSUME CallsAssumption
  PROVE  Spec => []EntryIsAlive
BY Invariance, PTL DEF IInv

\* Whoever deletes whose entry, a call that waits has a timer to settle it.
THEOREM WaitersAreTimed ==
  ASSUME CallsAssumption
  PROVE  Spec => []WaitingCallHasTimer
<1>1. IInv => WaitingCallHasTimer BY DEF IInv, TimerSettles, WaitingCallHasTimer, InProgress
<1> QED BY <1>1, Invariance, PTL
=============================================================================
