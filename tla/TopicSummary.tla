---------------------------- MODULE TopicSummary ----------------------------
(***************************************************************************)
(* The topic summaries for hosts: every thirty seconds, while the host     *)
(* mode is on, startTopicSummaryChecker requests an interim report, skips  *)
(* it when it is the one it saw last, asks the model for its topic, and    *)
(* sends that to the hosts.  Ticks do not wait for each other, and the     *)
(* hosts change while they wait.                                           *)
(***************************************************************************)
EXTENDS FiniteSets

CONSTANTS
  Participants,
  Ticks,        \* ticks of the interval that find the host mode on
  Reports,      \* contents of reports
  NoReport      \* lastReportHash is empty; a tick has no report

VARIABLES
  hostOnlyMode,
  hostIdentities,
  lastReportHash,
  pc,              \* tick -> "idle", "report", "topic", "done"
  report,          \* tick -> the report its topic is extracted from
  received         \* participant -> the topics received

vars == <<hostOnlyMode, hostIdentities, lastReportHash, pc, report, received>>

Init ==
  /\ hostOnlyMode = TRUE
  /\ hostIdentities = {}
  /\ lastReportHash = NoReport
  /\ pc = [t \in Ticks |-> "idle"]
  /\ report = [t \in Ticks |-> NoReport]
  /\ received = [p \in Participants |-> {}]

-----------------------------------------------------------------------------
\* HOST_MODE_ENABLE, HOST_ADD (which leaves the mode alone) and HOST_REMOVE; RoomHosts has
\* the handlers.
HostsChange(host) ==
  /\ \/ /\ hostOnlyMode' \in BOOLEAN
        /\ hostIdentities' = hostIdentities \cup {host}
     \/ /\ hostIdentities' = hostIdentities \ {host}
        /\ UNCHANGED hostOnlyMode
  /\ UNCHANGED <<lastReportHash, pc, report, received>>

HasHosts == hostOnlyMode /\ hostIdentities # {}

Tick(t) ==
  /\ pc[t] = "idle"
  /\ HasHosts
  /\ pc' = [pc EXCEPT ![t] = "report"]
  /\ UNCHANGED <<hostOnlyMode, hostIdentities, lastReportHash, report, received>>

\* The hash is the first hundred characters of the report; it is kept before the model is
\* asked.
NewReport(t, r) ==
  /\ pc[t] = "report"
  /\ r # lastReportHash
  /\ lastReportHash' = r
  /\ report' = [report EXCEPT ![t] = r]
  /\ pc' = [pc EXCEPT ![t] = "topic"]
  /\ UNCHANGED <<hostOnlyMode, hostIdentities, received>>

\* No report, the same report, no topic in the answer of the model, or an error.
Ends(t) ==
  /\ pc[t] \in {"report", "topic"}
  /\ pc' = [pc EXCEPT ![t] = "done"]
  /\ UNCHANGED <<hostOnlyMode, hostIdentities, lastReportHash, report, received>>

\* LiveKit sends what has no destination to everybody in the room.
PublishData(destinations, topic) ==
  received' = [p \in Participants |->
                 received[p] \cup IF destinations = {} \/ p \in destinations THEN {topic} ELSE {}]

\* sendTopicSummary tests the mode and the hosts again.
MaySendAnyway == TRUE
MaySend == HasHosts

SendTopicSummary(t) ==
  /\ pc[t] = "topic"
  /\ pc' = [pc EXCEPT ![t] = "done"]
  /\ IF MaySend THEN PublishData(hostIdentities, report[t]) ELSE UNCHANGED received
  /\ UNCHANGED <<hostOnlyMode, hostIdentities, lastReportHash, report>>

Next ==
  \/ \E p \in Participants : HostsChange(p)
  \/ \E t \in Ticks :
       Tick(t) \/ Ends(t) \/ SendTopicSummary(t) \/ \E r \in Reports : NewReport(t, r)

Spec == Init /\ [][Next]_vars

-----------------------------------------------------------------------------
\* Every variable has its shape.
TypeOK ==
  /\ hostOnlyMode \in BOOLEAN
  /\ hostIdentities \subseteq Participants
  /\ pc \in [Ticks -> {"idle", "report", "topic", "done"}]
  /\ lastReportHash \in Reports \cup {NoReport}

\* A topic reaches only those who are hosts when it is sent, with the host mode on, whoever
\* was host when the tick began; without hosts nobody receives it.
SummariesGoToHosts ==
  [][\A p \in Participants : received'[p] # received[p] => hostOnlyMode /\ p \in hostIdentities]_vars

\* Every report seen is summarised for the hosts unless they are all gone.  It does not
\* hold: the hash is kept before the model answers, and a failure is not tried again.
SeenIsSummarised ==
  (\A t \in Ticks : pc[t] = "done") /\ HasHosts /\ lastReportHash # NoReport =>
    \E p \in Participants : lastReportHash \in received[p]
=============================================================================
