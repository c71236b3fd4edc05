-------------------------- MODULE ProactiveInsights --------------------------
(***************************************************************************)
(* The proactive analysis of shared screens: runProactiveAnalysis of the   *)
(* VoiceBotService and ProactiveAnalysisService, one instance of which     *)
(* serves every room, with one cooldown per type of insight.  When the     *)
(* analysis is due is the matter of RoomCheckers.                          *)
(***************************************************************************)
EXTENDS Integers, Sequences, FiniteSets, SequencesExt

CONSTANTS
  Rooms,
  Types,        \* types of insights
  Minute,       \* cooldownMs, in ticks
  MaxAnalyses,  \* bound: analyses of a room under way
  MaxInsights,  \* maxInsightsPerAnalysis
  MaxReturned   \* bound: insights of enough confidence the model returns

VARIABLES
  enabled,    \* rooms with proactiveAnalysis.enabled and screenUnderstandingMode
  stale,      \* rooms whose screen and conversation have the hashes of the last analysis
  analysing,  \* room -> analyses waiting for the model
  cooldowns,  \* insightCooldowns: type -> ticks since the entry, Minute when it is over
              \* or there is none
  sent,       \* the insights the last step sent, and the room they went to
  lately,     \* history: type -> ticks since it was sent to any room, up to Minute
  cleared     \* history: types sent within the minute, before the last clearCooldowns

vars == <<enabled, stale, analysing, cooldowns, sent, lately, cleared>>

Nothing == [to |-> {}, insights |-> <<>>]
Over == [t \in Types |-> Minute]

Init ==
  /\ enabled = {}
  /\ stale = {}
  /\ analysing = [r \in Rooms |-> 0]
  /\ cooldowns = Over
  /\ sent = Nothing
  /\ lately = Over
  /\ cleared = {}

\* startProactiveAnalysis forgets the hashes.
Start(r) ==
  /\ r \notin enabled
  /\ enabled' = enabled \cup {r}
  /\ stale' = stale \ {r}
  /\ sent' = Nothing
  /\ UNCHANGED <<analysing, cooldowns, lately, cleared>>

\* stopProactiveAnalysis clears the cooldowns of all rooms.
Stop(r) ==
  /\ r \in enabled
  /\ enabled' = enabled \ {r}
  /\ cooldowns' = Over
  /\ cleared' = {t \in Types : lately[t] < Minute}
  /\ sent' = Nothing
  /\ UNCHANGED <<stale, analysing, lately>>

\* A capture or a turn of the conversation arrives.
ContentChanges(r) ==
  /\ r \in stale
  /\ stale' = stale \ {r}
  /\ sent' = Nothing
  /\ UNCHANGED <<enabled, analysing, cooldowns, lately, cleared>>

Later(ages) == [t \in Types |-> IF ages[t] = Minute THEN Minute ELSE ages[t] + 1]

Tick ==
  /\ cooldowns' = Later(cooldowns)
  /\ lately' = Later(lately)
  /\ cleared' = {t \in cleared : lately'[t] < Minute}
  /\ sent' = Nothing
  /\ UNCHANGED <<enabled, stale, analysing>>

\* runProactiveAnalysis up to the call of the model: the hashes are kept before it.
RunProactiveAnalysis(r) ==
  /\ r \in enabled
  /\ r \notin stale
  /\ analysing[r] < MaxAnalyses
  /\ stale' = stale \cup {r}
  /\ analysing' = [analysing EXCEPT ![r] = @ + 1]
  /\ sent' = Nothing
  /\ UNCHANGED <<enabled, cooldowns, lately, cleared>>

-----------------------------------------------------------------------------
\* The types of the insights that are confident enough; the others are skipped.
Answers == UNION {[1..n -> Types] : n \in 0..MaxReturned}

\* One turn of the loop; the cooldown of a type starts when an insight of it passes.
PassesOnce(passed, type) ==
  /\ Len(passed) < MaxInsights
  /\ cooldowns[type] = Minute
Passes(passed, type) ==
  /\ Len(passed) < MaxInsights
  /\ cooldowns[type] = Minute
  /\ type \notin ToSet(passed)

FilterInsights(insights) ==
  FoldLeft(LAMBDA passed, i : IF Passes(passed, i) THEN Append(passed, i) ELSE passed,
           <<>>, insights)

Renewed(ages, types) == [t \in Types |-> IF t \in types THEN 0 ELSE ages[t]]

\* The model answers; a failure, or an answer that is no JSON array, is an empty answer.
\* Whether the analysis is still enabled is not tested again.
AnalysisEnds(r, answer) ==
  LET filtered == FilterInsights(answer)
  IN  /\ analysing[r] > 0
      /\ analysing' = [analysing EXCEPT ![r] = @ - 1]
      /\ cooldowns' = Renewed(cooldowns, ToSet(filtered))
      /\ lately' = Renewed(lately, ToSet(filtered))
      /\ cleared' = cleared \ ToSet(filtered)
      /\ sent' = IF filtered = <<>> THEN Nothing ELSE [to |-> {r}, insights |-> filtered]
      /\ UNCHANGED <<enabled, stale>>

Next ==
  \/ Tick
  \/ \E r \in Rooms :
       \/ Start(r) \/ Stop(r) \/ ContentChanges(r) \/ RunProactiveAnalysis(r)
       \/ \E answer \in Answers : AnalysisEnds(r, answer)

Spec == Init /\ [][Next]_vars

-----------------------------------------------------------------------------
\* Every variable has its shape; ages stop at the cooldown.
TypeOK ==
  /\ enabled \cup stale \subseteq Rooms
  /\ analysing \in [Rooms -> 0..MaxAnalyses]
  /\ cooldowns \in [Types -> 0..Minute]
  /\ lately \in [Types -> 0..Minute]
  /\ cleared \subseteq Types

\* However the analyses of the rooms overlap, an insight of a type is sent again within
\* cooldownMs of any insight of that type only if some room stopped sharing in between, and
\* never twice by one analysis.
InsightsAreSpaced ==
  [][LET news == sent'.insights
     IN  analysing' # analysing =>
           /\ \A t \in ToSet(news) : lately[t] = Minute \/ t \in cleared
           /\ IsInjective(news)]_vars

\* "cooldown of insights of the same type (60 seconds)" (proactive.interface.ts:49), without
\* the exception.  It does not hold: stopProactiveAnalysis of one room clears the cooldowns
\* that the others still need (voice-bot.service.ts:5057).
SameTypeIsSpaced ==
  [][analysing' # analysing => \A t \in ToSet(sent'.insights) : lately[t] = Minute]_vars

\* Insights reach only a room that shares its screen.  It does not hold: an analysis under
\* way when the sharing ends still sends what it finds.
InsightsOnlyWhileSharing == sent.to \subseteq enabled
=============================================================================
