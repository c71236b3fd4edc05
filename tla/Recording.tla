----------------------------- MODULE Recording ------------------------------
(***************************************************************************)
(* The recording of one room: startRecording and stopRecording of          *)
(* RecordingService, cut at the call of the LiveKit egress service, and    *)
(* the egresses that run there.  That service is external: a call of it    *)
(* may fail, a failed call may have had its effect, and an egress ends by  *)
(* itself when its room is closed, of which the server is not told.        *)
(***************************************************************************)

CONSTANTS
  Starts,   \* calls of startRecording, and the egresses they start
  Stops,    \* calls of stopRecording
  NoEgress  \* no entry in activeRecordings

ASSUME CallsAssumption == Starts \cap Stops = {} /\ NoEgress \notin Starts

VARIABLES
  activeRecording,  \* activeRecordings.get(roomId).egressId
  egresses,         \* the egresses that run
  call,             \* call -> "idle", "egress" (it waits for the service) or "over"
  captured,         \* call of stopRecording -> the egress it stops
  raced,            \* two calls have waited for the service at the same time
  failed            \* a call of the service has failed

vars == <<activeRecording, egresses, call, captured, raced, failed>>

Calls == Starts \cup Stops

Init ==
  /\ activeRecording = NoEgress
  /\ egresses = {}
  /\ call = [f \in Calls |-> "idle"]
  /\ captured = [f \in Stops |-> NoEgress]
  /\ raced = FALSE
  /\ failed = FALSE

-----------------------------------------------------------------------------
Over(f) == call' = [call EXCEPT ![f] = "over"]

AskService(f) ==
  /\ call' = [call EXCEPT ![f] = "egress"]
  /\ raced' = (raced \/ \E g \in Calls : call[g] = "egress")

NeverRecorded == FALSE
AlreadyRecorded == activeRecording # NoEgress

StartRecording(f) ==
  /\ call[f] = "idle"
  /\ \/ AlreadyRecorded /\ Over(f) /\ UNCHANGED raced
     \/ ~AlreadyRecorded /\ AskService(f)
  /\ UNCHANGED <<activeRecording, egresses, captured, failed>>

EgressStarted(f) ==
  /\ call[f] = "egress"
  /\ egresses' = egresses \cup {f}
  /\ activeRecording' = f
  /\ Over(f)
  /\ UNCHANGED <<captured, raced, failed>>

EgressStartFails(f) ==
  /\ call[f] = "egress"
  /\ egresses' \in {egresses, egresses \cup {f}}
  /\ failed' = TRUE
  /\ Over(f)
  /\ UNCHANGED <<activeRecording, captured, raced>>

NeverMissing == FALSE
NoActiveRecording == activeRecording = NoEgress

StopRecording(f) ==
  /\ call[f] = "idle"
  /\ \/ /\ NoActiveRecording
        /\ Over(f)
        /\ UNCHANGED <<captured, raced>>
     \/ /\ ~NoActiveRecording
        /\ captured' = [captured EXCEPT ![f] = activeRecording]
        /\ AskService(f)
  /\ UNCHANGED <<activeRecording, egresses, failed>>

EgressStopped(f) ==
  /\ call[f] = "egress"
  /\ egresses' = egresses \ {captured[f]}
  /\ activeRecording' = NoEgress
  /\ Over(f)
  /\ UNCHANGED <<captured, raced, failed>>

\* The catch clause deletes the entry as well.
EgressStopFails(f) ==
  /\ call[f] = "egress"
  /\ egresses' \in {egresses, egresses \ {captured[f]}}
  /\ activeRecording' = NoEgress
  /\ failed' = TRUE
  /\ Over(f)
  /\ UNCHANGED <<captured, raced>>

EgressEnds(f) ==
  /\ f \in egresses
  /\ egresses' = egresses \ {f}
  /\ UNCHANGED <<activeRecording, call, captured, raced, failed>>

Next ==
  \/ \E f \in Starts : \/ StartRecording(f) \/ EgressStarted(f)
                       \/ EgressStartFails(f) \/ EgressEnds(f)
  \/ \E f \in Stops : StopRecording(f) \/ EgressStopped(f) \/ EgressStopFails(f)

Spec == Init /\ [][Next]_vars

-----------------------------------------------------------------------------
\* Every variable has its shape, and a stop that waits knows what it stops.
TypeOK ==
  /\ activeRecording \in Starts \cup {NoEgress}
  /\ egresses \subseteq Starts
  /\ call \in [Calls -> {"idle", "egress", "over"}]
  /\ captured \in [Stops -> Starts \cup {NoEgress}]
  /\ \A f \in Stops : call[f] = "egress" => captured[f] \in Starts
  /\ raced \in BOOLEAN
  /\ failed \in BOOLEAN

\* As long as no two calls overlap and none fails, an egress that runs is the one
\* activeRecordings names: it is the only one, and stopRecording can stop it.
RecordingIsTracked == ~raced /\ ~failed => egresses \subseteq {activeRecording}

\* "is already being recorded" (recording.service.ts:99): a room is recorded once.
OneRecording == \A e, f \in egresses : e = f
=============================================================================
