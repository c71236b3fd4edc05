------------------------------ MODULE RagReport ------------------------------
(***************************************************************************)
(* Interim reports of one room: RagClientService.requestReport, the        *)
(* meeting_report branch of handleMessage, and what disconnect does to a   *)
(* waiting request.                                                        *)
(*                                                                         *)
(* A call registers a promise under the room id, POSTs, and awaits the     *)
(* promise only after the POST has returned.  The entry, the 60 second     *)
(* timer and the catch clause all delete by room id, whosever entry it is. *)
(* Settling a promise that is being awaited runs the caller's continuation *)
(* before anything else, so it is one step with the settling.              *)
(***************************************************************************)
EXTENDS Integers, FiniteSets

CONSTANTS
  Calls,    \* calls of requestReport
  NoCall    \* no entry in pendingReportRequests

\* What the theorems assume of the constants.
CallsAssumption == NoCall \notin Calls

VARIABLES
  pendingReport,  \* pendingReportRequests.get(roomId): whose promise, or NoCall
  timers,         \* calls whose 60 second timer is running
  pc,             \* call -> "idle", "posting", "waiting" or "done"
  promise,        \* call -> "none", "unsettled", "resolved" or "rejected"
  answer,         \* call -> what it returned
  jobs,           \* calls whose report the RAG server is still to send
  accepted,       \* calls whose POST the RAG server has taken
  connection,     \* connections.get(roomId): "absent", "down" or "open"
  unhandled       \* calls whose promise was rejected while nobody awaited it

vars == <<pendingReport, timers, pc, promise, answer, jobs, accepted, connection, unhandled>>

network == <<jobs, accepted, connection>>

Links == {"absent", "down", "open"}

InProgress(c) == pc[c] \in {"posting", "waiting"}

Init ==
  /\ pendingReport = NoCall
  /\ timers = {}
  /\ pc = [c \in Calls |-> "idle"]
  /\ promise = [c \in Calls |-> "none"]
  /\ answer = [c \in Calls |-> "none"]
  /\ jobs = {}
  /\ accepted = {}
  /\ connection = "absent"
  /\ unhandled = {}

Return(c, what) ==
  /\ pc' = [pc EXCEPT ![c] = "done"]
  /\ answer' = [answer EXCEPT ![c] = what]

\* requestReport up to its first await.
Refused == connection # "open" \/ pendingReport # NoCall

RequestReport(c) ==
  /\ pc[c] = "idle"
  /\ IF Refused
     THEN /\ Return(c, IF connection # "open" THEN "offline" ELSE "busy")
          /\ UNCHANGED <<pendingReport, timers, promise>>
     ELSE /\ pendingReport' = c
          /\ timers' = timers \cup {c}
          /\ pc' = [pc EXCEPT ![c] = "posting"]
          /\ promise' = [promise EXCEPT ![c] = "unsettled"]
          /\ UNCHANGED answer
  /\ UNCHANGED <<network, unhandled>>

\* The RAG server queues the job before its response is back.
PostAccepted(c) ==
  /\ pc[c] = "posting"
  /\ c \notin accepted
  /\ accepted' = accepted \cup {c}
  /\ jobs' = jobs \cup {c}
  /\ UNCHANGED <<pendingReport, timers, pc, promise, answer, connection, unhandled>>

\* The response is back: await the promise, which may be settled already. A
\* rejection goes to the catch clause.
PostReturned(c) ==
  /\ pc[c] = "posting"
  /\ c \in accepted
  /\ IF promise[c] = "unsettled"
     THEN /\ pc' = [pc EXCEPT ![c] = "waiting"]
          /\ UNCHANGED answer
     ELSE Return(c, IF promise[c] = "resolved" THEN "report" ELSE "failed")
  /\ pendingReport' = IF promise[c] = "rejected" THEN NoCall ELSE pendingReport
  /\ UNCHANGED <<timers, promise, network, unhandled>>

\* The POST failed: the catch clause drops the entry; the timer runs on.
DropNothing == pendingReport
DropEntry == NoCall

PostFailed(c) ==
  /\ pc[c] = "posting"
  /\ Return(c, "failed")
  /\ pendingReport' = DropEntry
  /\ UNCHANGED <<timers, promise, network, unhandled>>

\* pending.resolve(report) of call c.
Resolve(c) ==
  /\ promise' = [promise EXCEPT ![c] = "resolved"]
  /\ IF pc[c] = "waiting" THEN Return(c, "report") ELSE UNCHANGED <<pc, answer>>
  /\ UNCHANGED unhandled

\* reject(error) of call c, which nobody hears while the POST is in flight. A
\* promise settles once.
RejectUnheard(c) == UNCHANGED <<promise, pc, answer, unhandled>>
Reject(c) ==
  IF promise[c] # "unsettled" THEN UNCHANGED <<promise, pc, answer, unhandled>>
  ELSE /\ promise' = [promise EXCEPT ![c] = "rejected"]
       /\ IF pc[c] = "waiting"
          THEN Return(c, "failed") /\ UNCHANGED unhandled
          ELSE /\ unhandled' = IF pc[c] = "posting" THEN unhandled \cup {c} ELSE unhandled
               /\ UNCHANGED <<pc, answer>>

\* A meeting_report message resolves the request that is pending now.
MeetingReport(j) ==
  /\ j \in jobs
  /\ jobs' = jobs \ {j}
  /\ IF connection # "absent" /\ pendingReport # NoCall
     THEN /\ timers' = timers \ {pendingReport}
          /\ pendingReport' = NoCall
          /\ Resolve(pendingReport)
     ELSE UNCHANGED <<timers, pendingReport, promise, pc, answer, unhandled>>
  /\ UNCHANGED <<accepted, connection>>

ReportTimeout(c) ==
  /\ c \in timers
  /\ timers' = timers \ {c}
  /\ pendingReport' = NoCall
  /\ Reject(c)
  /\ UNCHANGED network

\* disconnect(roomId) rejects the pending request, if the room has an entry.
Disconnect ==
  /\ connection' = "absent"
  /\ IF connection # "absent" /\ pendingReport # NoCall
     THEN /\ timers' = timers \ {pendingReport}
          /\ pendingReport' = NoCall
          /\ Reject(pendingReport)
     ELSE UNCHANGED <<timers, pendingReport, promise, pc, answer, unhandled>>
  /\ UNCHANGED <<jobs, accepted>>

\* The connection comes and goes (RagConnection).
ConnectionChanges ==
  /\ connection' \in Links \ {connection}
  /\ UNCHANGED <<pendingReport, timers, pc, promise, answer, jobs, accepted, unhandled>>

CallStep(c) ==
  \/ PostAccepted(c) \/ PostReturned(c) \/ PostFailed(c)

Next ==
  \/ \E c \in Calls : RequestReport(c) \/ CallStep(c) \/ MeetingReport(c) \/ ReportTimeout(c)
  \/ Disconnect
  \/ ConnectionChanges

Spec == Init /\ [][Next]_vars

\* The POST returns or fails, and timers fire; the RAG server need not answer.
Fairness == \A c \in Calls : WF_vars(CallStep(c)) /\ WF_vars(ReportTimeout(c))

FairSpec == Spec /\ Fairness

-----------------------------------------------------------------------------
\* Every variable has its shape, and a call that is done has an answer.
TypeOK ==
  /\ pendingReport \in Calls \cup {NoCall}
  /\ timers \subseteq Calls
  /\ pc \in [Calls -> {"idle", "posting", "waiting", "done"}]
  /\ promise \in [Calls -> {"none", "unsettled", "resolved", "rejected"}]
  /\ answer \in [Calls -> {"none", "offline", "busy", "report", "failed"}]
  /\ jobs \subseteq Calls
  /\ accepted \subseteq Calls
  /\ connection \in Links
  /\ unhandled \subseteq Calls
  /\ \A c \in Calls : pc[c] = "done" <=> answer[c] # "none"

\* The entry that makes requestReport answer "already in progress" belongs to a
\* call that is in progress, unsettled, and has its timer running: no finished
\* call leaves the room refusing reports for ever.
EntryIsAlive ==
  pendingReport # NoCall =>
    /\ InProgress(pendingReport)
    /\ promise[pendingReport] = "unsettled"
    /\ pendingReport \in timers

\* A call that awaits its promise can rely on its own timer to settle it, even
\* when somebody else has taken its entry out of the map.
WaitingCallHasTimer == \A c \in Calls : pc[c] = "waiting" => c \in timers

\* Every call returns.
EveryCallReturns == \A c \in Calls : InProgress(c) ~> pc[c] = "done"

\* "Refuse when a request is already waiting" (rag-client.service.ts:683).
OneReportAtATime == \A c, d \in Calls : InProgress(c) /\ InProgress(d) => c = d

\* "Timeout or HTTP request failure" (rag-client.service.ts:729) end in the
\* catch clause: no rejection of the promise goes unheard.
FailuresAreCaught == unhandled = {}
=============================================================================
