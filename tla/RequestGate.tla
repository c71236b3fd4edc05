----------------------------- MODULE RequestGate -----------------------------
(***************************************************************************)
(* The isProcessing / lastRequestTime gate in front of the Bedrock models: *)
(* LlmService.sendMessage, VisionService.analyzeScreenForQuality and       *)
(* analyzeScreenShare.  The three are the same code; one service object    *)
(* has one gate for all rooms.                                             *)
(*                                                                         *)
(* A request polls isProcessing every 100 ms, then sleeps out the rest of  *)
(* the minimum interval, then sets isProcessing.  A real-time search of    *)
(* the LLM service sets it without looking.  A throttled call backs off    *)
(* and tries again inside the gate.                                        *)
(***************************************************************************)
EXTENDS Integers, FiniteSets

CONSTANTS
  Requests,    \* requests that queue at the gate
  Direct,      \* real-time searches, which do not
  Interval,    \* MIN_REQUEST_INTERVAL, in ticks
  MaxRetries   \* MAX_RETRIES

All == Requests \cup Direct

VARIABLES
  isProcessing,  \* "yes" or "no"
  age,           \* ticks since lastRequestTime, at most Interval
  pc,            \* request -> where it is
  sleep,         \* request -> ticks its cooldown sleep has left
  tries          \* request -> retryCount of its model call

vars == <<isProcessing, age, pc, sleep, tries>>

Init ==
  /\ isProcessing = "no"
  /\ age = Interval
  /\ pc = [r \in All |-> "idle"]
  /\ sleep = [r \in All |-> 0]
  /\ tries = [r \in All |-> 0]

Inside(r) == pc[r] \in {"calling", "backoff"}

\* isProcessing = true; lastRequestTime = Date.now(); call the model.
Enter(r) ==
  /\ isProcessing' = "yes"
  /\ age' = 0
  /\ pc' = [pc EXCEPT ![r] = "calling"]
  /\ UNCHANGED <<sleep, tries>>

\* The loop test, and behind it the cooldown.
Arrive(r) ==
  /\ pc[r] \in {"idle", "polling"}
  /\ IF isProcessing = "yes"
     THEN /\ pc[r] = "idle"
          /\ pc' = [pc EXCEPT ![r] = "polling"]
          /\ UNCHANGED <<isProcessing, age, sleep, tries>>
     ELSE IF age < Interval
     THEN /\ pc' = [pc EXCEPT ![r] = "sleeping"]
          /\ sleep' = [sleep EXCEPT ![r] = Interval - age]
          /\ UNCHANGED <<isProcessing, age, tries>>
     ELSE Enter(r)

\* The cooldown is over; isProcessing is not looked at again.
WakeUp(r) ==
  /\ pc[r] = "sleeping"
  /\ sleep[r] = 0
  /\ Enter(r)

\* A real-time search.
ArriveDirect(r) == pc[r] = "idle" /\ Enter(r)

\* The model answered or failed: the finally clause opens the gate.
GateStaysClosed == isProcessing
GateOpened == "no"

Return(r) ==
  /\ pc[r] = "calling"
  /\ pc' = [pc EXCEPT ![r] = "done"]
  /\ isProcessing' = GateOpened
  /\ UNCHANGED <<age, sleep, tries>>

\* Throttled: back off and retry, MaxRetries times; then it is an error.
RetryLimit == MaxRetries

Throttled(r) ==
  /\ pc[r] = "calling"
  /\ tries[r] < RetryLimit
  /\ pc' = [pc EXCEPT ![r] = "backoff"]
  /\ tries' = [tries EXCEPT ![r] = @ + 1]
  /\ UNCHANGED <<isProcessing, age, sleep>>

BackoffOver(r) ==
  /\ pc[r] = "backoff"
  /\ pc' = [pc EXCEPT ![r] = "calling"]
  /\ UNCHANGED <<isProcessing, age, sleep, tries>>

\* Time passes, as long as no sleeper is due.
Tick ==
  /\ \A r \in All : pc[r] = "sleeping" => sleep[r] > 0
  /\ age < Interval \/ \E r \in All : sleep[r] > 0
  /\ age' = IF age < Interval THEN age + 1 ELSE age
  /\ sleep' = [r \in All |-> IF sleep[r] > 0 THEN sleep[r] - 1 ELSE 0]
  /\ UNCHANGED <<isProcessing, pc, tries>>

ModelCall(r) == Return(r) \/ Throttled(r) \/ BackoffOver(r)

Next ==
  \/ \E r \in Requests : Arrive(r) \/ WakeUp(r)
  \/ \E r \in Direct : ArriveDirect(r)
  \/ \E r \in All : ModelCall(r)
  \/ Tick

Spec == Init /\ [][Next]_vars

\* Sleeps end, polls are repeated, model calls return, time passes.
Fairness ==
  /\ WF_vars(Tick)
  /\ \A r \in All : WF_vars(ModelCall(r))
  /\ \A r \in Requests :
       WF_vars(WakeUp(r)) /\ WF_vars(pc[r] = "polling" /\ Arrive(r))

FairSpec == Spec /\ Fairness

-----------------------------------------------------------------------------
\* Every variable has its shape; no call is retried past MAX_RETRIES.
TypeOK ==
  /\ isProcessing \in {"yes", "no"}
  /\ age \in 0..Interval
  /\ pc \in [All -> {"idle", "polling", "sleeping", "calling", "backoff", "done"}]
  /\ sleep \in [All -> 0..Interval]
  /\ tries \in [All -> 0..MaxRetries]

\* Every request that is let in or kept waiting finishes in the end.
EveryRequestReturns ==
  \A r \in All : pc[r] # "idle" ~> pc[r] = "done"

\* "Prevent concurrent requests" (llm.service.ts:206, vision.service.ts:77 and
\* 128): one request at a time.
OneRequestAtATime == \A r, s \in All : Inside(r) /\ Inside(s) => r = s

\* "2 second interval" (vision.service.ts:50): requests start at least
\* MIN_REQUEST_INTERVAL apart.
MinimumInterval ==
  [][(\E r \in All : ~Inside(r) /\ pc'[r] = "calling") => age = Interval]_vars
=============================================================================
