----------------------------- MODULE MCSessions ------------------------------
(***************************************************************************)
(* Parts of a meeting that share no state, for TLC: the recording of the   *)
(* room, the metadata of an uploaded recording, the perplexity mode, the   *)
(* alerts and statistics for the hosts, and the checkers of the room.      *)
(* "part" is chosen in the initial state; the other parts stay in theirs.  *)
(***************************************************************************)
EXTENDS Recording

CONSTANTS Updates, NoChapters, People, Reported, MaxConfusion, NoState,
          Ticks, NoOne, Speakers, StatsTicks, MaxDuration,
          Contexts, MaxCaptures, MaxPending, NoContext

VARIABLES
  part,
  upload, stored, update, brings, draft, blind, after,
  perplexityModeActive, hasSession, participants, highEntropy, recentPropagation, last,
  hosted, present, silence, spoken, alreadyAlerted, phase, visited, now, target, published,
  told, overlapped,
  statsHosted, participantSpeakingStats, statsPhase, ratio, dominantAlertSent,
  dominanceAlerts, statsOverlapped,
  entry, room, intervals, statsUpdateInterval, standbyMode, enabled, analysisTimer,
  analysisIntervals, firstRuns, analysing, captures, screenUnderstandingMode

metaVars == <<upload, stored, update, brings, draft, blind, after>>
perplexityVars ==
  <<perplexityModeActive, hasSession, participants, highEntropy, recentPropagation, last>>
silenceVars ==
  <<hosted, present, silence, spoken, alreadyAlerted, phase, visited, now, target, published,
    told, overlapped>>
statsVars ==
  <<statsHosted, participantSpeakingStats, statsPhase, ratio, dominantAlertSent,
    dominanceAlerts, statsOverlapped>>
checkerVars ==
  <<entry, room, intervals, statsUpdateInterval, standbyMode, enabled, analysisTimer,
    analysisIntervals, firstRuns, analysing, captures, screenUnderstandingMode>>

Meta == INSTANCE RecordingMetadata
Perplexity == INSTANCE PerplexityMode
Silence == INSTANCE SilenceAlerts
Stats == INSTANCE SpeakingStats WITH
  People <- Speakers, Ticks <- StatsTicks,
  hosted <- statsHosted, phase <- statsPhase, overlapped <- statsOverlapped
Checkers == INSTANCE RoomCheckers

SessionsInit ==
  /\ part \in {"recording", "metadata", "perplexity", "silence", "stats", "checkers"}
  /\ Init /\ Meta!Init /\ Perplexity!Init /\ Silence!Init /\ Stats!Init /\ Checkers!Init

SessionsNext ==
  \/ /\ part = "recording"
     /\ Next
     /\ UNCHANGED <<part, metaVars, perplexityVars, silenceVars, statsVars, checkerVars>>
  \/ /\ part = "metadata"
     /\ Meta!Next
     /\ UNCHANGED <<part, vars, perplexityVars, silenceVars, statsVars, checkerVars>>
  \/ /\ part = "perplexity"
     /\ Perplexity!Next
     /\ UNCHANGED <<part, vars, metaVars, silenceVars, statsVars, checkerVars>>
  \/ /\ part = "silence"
     /\ Silence!Next
     /\ UNCHANGED <<part, vars, metaVars, perplexityVars, statsVars, checkerVars>>
  \/ /\ part = "stats"
     /\ Stats!Next
     /\ UNCHANGED <<part, vars, metaVars, perplexityVars, silenceVars, checkerVars>>
  \/ /\ part = "checkers"
     /\ Checkers!Next
     /\ UNCHANGED <<part, vars, metaVars, perplexityVars, silenceVars, statsVars>>

SessionsSpec ==
  /\ SessionsInit
  /\ [][SessionsNext]_<<part, vars, metaVars, perplexityVars, silenceVars, statsVars, checkerVars>>

-----------------------------------------------------------------------------
\* The types of every part.
TypesOK ==
  /\ TypeOK
  /\ Meta!TypeOK
  /\ Perplexity!TypeOK
  /\ Silence!TypeOK
  /\ Stats!TypeOK
  /\ Checkers!TypeOK


\* Entropy, possible states and observed state of a participant agree.
CellsAreConsistent == Perplexity!CellsAreConsistent

\* An action of the perplexity mode is addressed to somebody, and a summary is asked for
\* at a high entropy.
ActionsAreJustified == Perplexity!ActionsAreJustified

\* The hosts are told of one silence, and of one dominance, at most once.
AlertsToldOnce == Silence!SilenceToldOnce /\ Stats!DominanceToldOnce

\* The intervals of a room stay under control over restarts and standby.
IntervalsUnderControl == Checkers!IntervalsUnderControl
=============================================================================
