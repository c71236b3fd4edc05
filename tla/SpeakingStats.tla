--------------------------- MODULE SpeakingStats ----------------------------
(***************************************************************************)
(* The speaking statistics of one room: updateParticipantSpeakingStats,    *)
(* their removal when a participant leaves, and the interval of            *)
(* startSpeakingStatsChecker, which sends them to the hosts and alerts     *)
(* them when one participant dominates.                                    *)
(*                                                                         *)
(* The callback is asynchronous, and is cut at its two publishData, so a   *)
(* tick that takes longer than the interval overlaps the next one.         *)
(***************************************************************************)
EXTENDS Integers, FiniteSetsExt

CONSTANTS
  People,       \* identities of participants
  Ticks,        \* ticks of the interval
  MaxDuration   \* bound on the speaking time of a participant

VARIABLES
  hosted,                    \* hostOnlyMode, and somebody in hostIdentities
  participantSpeakingStats,  \* person -> speakingDurationMs; 0: not in the Map
  phase,                     \* tick -> "idle", "stats", "dominance" or "over"
  ratio,                     \* tick -> the first speakingRatio it computed, in percent
  dominantAlertSent,
  dominanceAlerts,           \* alerts since a tick last found the ratio below 50%
  overlapped                 \* a tick began before the last one was over

vars == <<hosted, participantSpeakingStats, phase, ratio, dominantAlertSent, dominanceAlerts,
          overlapped>>

Init ==
  /\ hosted = FALSE
  /\ participantSpeakingStats = [p \in People |-> 0]
  /\ phase = [t \in Ticks |-> "idle"]
  /\ ratio = [t \in Ticks |-> 0]
  /\ dominantAlertSent = FALSE
  /\ dominanceAlerts = 0
  /\ overlapped = FALSE

-----------------------------------------------------------------------------
UpdateParticipantSpeakingStats(p) ==
  /\ participantSpeakingStats[p] < MaxDuration
  /\ participantSpeakingStats' = [participantSpeakingStats EXCEPT ![p] = @ + 1]
  /\ UNCHANGED <<hosted, phase, ratio, dominantAlertSent, dominanceAlerts, overlapped>>

\* Who leaves takes their statistics along; dominantAlertSent stays.
ParticipantDisconnected(p) ==
  /\ participantSpeakingStats[p] > 0
  /\ participantSpeakingStats' = [participantSpeakingStats EXCEPT ![p] = 0]
  /\ UNCHANGED <<hosted, phase, ratio, dominantAlertSent, dominanceAlerts, overlapped>>

HaveSpoken == {p \in People : participantSpeakingStats[p] > 0}

\* Math.round(ratio * 100), of the participant who spoke longest.
TopRatio ==
  LET total == MapThenSumSet(LAMBDA p : participantSpeakingStats[p], People)
      top == Max({participantSpeakingStats[p] : p \in HaveSpoken})
  IN (200 * top + total) \div (2 * total)

TickOver(t) ==
  /\ phase' = [phase EXCEPT ![t] = "over"]
  /\ ratio' = [ratio EXCEPT ![t] = 0]

\* A single speaker is reported, and neither dominates nor ends a dominance: ratio 0
\* here stands for fewer than two.
StatsTick(t) ==
  /\ phase[t] = "idle"
  /\ overlapped' = (overlapped \/ \E u \in Ticks : phase[u] \in {"stats", "dominance"})
  /\ IF hosted /\ HaveSpoken # {}
     THEN /\ phase' = [phase EXCEPT ![t] = "stats"]
          /\ ratio' = [ratio EXCEPT ![t] = IF Cardinality(HaveSpoken) >= 2 THEN TopRatio ELSE 0]
     ELSE TickOver(t)
  /\ UNCHANGED <<hosted, participantSpeakingStats, dominantAlertSent, dominanceAlerts>>

DominantAgain(t) == ratio[t] >= 60
Dominant(t) == ratio[t] >= 60 /\ ~dominantAlertSent

Below50(t) == ratio[t] > 0 /\ ratio[t] < 50

Reset(t) == Below50(t)

StatsSent(t) ==
  /\ phase[t] = "stats"
  /\ \/ /\ Dominant(t)
        /\ phase' = [phase EXCEPT ![t] = "dominance"]
        /\ UNCHANGED <<ratio, dominantAlertSent, dominanceAlerts>>
     \/ /\ ~Dominant(t)
        /\ dominantAlertSent' = (dominantAlertSent /\ ~Reset(t))
        /\ dominanceAlerts' = IF Below50(t) THEN 0 ELSE dominanceAlerts
        /\ TickOver(t)
  /\ UNCHANGED <<hosted, participantSpeakingStats, overlapped>>

DominanceSent(t) ==
  /\ phase[t] = "dominance"
  /\ dominantAlertSent' = TRUE
  /\ dominanceAlerts' = dominanceAlerts + 1
  /\ TickOver(t)
  /\ UNCHANGED <<hosted, participantSpeakingStats, overlapped>>

\* The catch clause.
StatsFail(t) ==
  /\ phase[t] \in {"stats", "dominance"}
  /\ TickOver(t)
  /\ UNCHANGED <<hosted, participantSpeakingStats, dominantAlertSent, dominanceAlerts, overlapped>>

HostsChange ==
  /\ hosted' = ~hosted
  /\ UNCHANGED <<participantSpeakingStats, phase, ratio, dominantAlertSent, dominanceAlerts,
                 overlapped>>

Next ==
  \/ \E p \in People : UpdateParticipantSpeakingStats(p) \/ ParticipantDisconnected(p)
  \/ \E t \in Ticks : StatsTick(t) \/ StatsSent(t) \/ DominanceSent(t) \/ StatsFail(t)
  \/ HostsChange

Spec == Init /\ [][Next]_vars

-----------------------------------------------------------------------------
\* Every variable has its shape, and the flag says whether an alert was sent since the
\* ratio was last below 50%.
TypeOK ==
  /\ hosted \in BOOLEAN
  /\ participantSpeakingStats \in [People -> 0..MaxDuration]
  /\ phase \in [Ticks -> {"idle", "stats", "dominance", "over"}]
  /\ ratio \in [Ticks -> 0..100]
  /\ dominantAlertSent = (dominanceAlerts > 0)
  /\ overlapped \in BOOLEAN

\* The hosts are told of one dominance at most once: between two alerts a tick has found
\* the first speaker below 50%, unless a tick took longer than the interval.
DominanceToldOnce == ~overlapped => dominanceAlerts <= 1
=============================================================================
