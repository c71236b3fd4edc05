--------------------------- MODULE PerplexityMode ---------------------------
(***************************************************************************)
(* The perplexity mode of one room: PerplexityService (sessions, state     *)
(* updates, entropy reports, transcripts, tryPropagate), the collapse and  *)
(* the constraints of WFCEngineService, and the room handlers that start,  *)
(* feed and end a session.                                                 *)
(*                                                                         *)
(* Every message is handled without an await up to the propagation, so it  *)
(* is one action.  What the bot makes of a generated action (a model call, *)
(* then speech) is in ResponseFlow.  Entropies are counted in sixths.      *)
(* Times are flags: a thing is recent until its interval has passed.       *)
(*                                                                         *)
(* lastTriggered is kept in the constraints, which all rooms share, with   *)
(* cooldowns of 45 seconds to three minutes.  So at any propagation of     *)
(* this room any of them may be cooling, and the first that holds and is   *)
(* not may be any that holds.                                              *)
(***************************************************************************)
EXTENDS Integers, FiniteSetsExt, Sequences

CONSTANTS
  People,        \* identities of participants
  Reported,      \* the cognitive states that messages carry
  MaxConfusion,  \* bound on confusionCount
  NoState        \* observedState = null

States == {"absorbing", "thinking", "confused", "contributing", "understood", "disengaged"}
Confidences == {"high", "mid", "low"}   \* from 0.7, from 0.5, below

VARIABLES
  perplexityModeActive,
  hasSession,            \* sessions.has(roomId)
  participants,          \* session.participants: person -> cell
  highEntropy,           \* sessionEntropy > 0.7
  recentPropagation,     \* less than 500 ms since lastPropagation
  last                   \* the last message, and the constraint and targets it led to

vars == <<perplexityModeActive, hasSession, participants, highEntropy, recentPropagation, last>>

Nothing(message) == [message |-> message, constraint |-> "none", targets |-> {}]

-----------------------------------------------------------------------------
(* Cells.                                                                  *)

NewCell == [possible |-> States, observed |-> NoState, entropy |-> 6, confusionCount |-> 0,
            textInferred |-> FALSE, old |-> FALSE]

CompatibleWith ==
  [confused     |-> {"thinking", "absorbing"},
   absorbing    |-> {"thinking", "confused", "understood"},
   thinking     |-> {"confused", "absorbing", "contributing", "understood"},
   contributing |-> {"thinking", "understood"},
   understood   |-> {"absorbing", "contributing"},
   disengaged   |-> {"confused", "absorbing"}]

Narrowed(cell, s) == {t \in cell.possible : t = s \/ s \in CompatibleWith[t]}

Certain(cell, s) == [cell EXCEPT !.observed = s, !.possible = {s}, !.entropy = 0]

LikelyUnobserved(cell, s) ==
  LET left == Narrowed(cell, s) IN
  [cell EXCEPT !.possible = left,
               !.entropy = IF Cardinality(left) = 1 THEN 0 ELSE Cardinality(left)]

Likely(cell, s) ==
  LET left == Narrowed(cell, s) IN
  [cell EXCEPT !.possible = left,
               !.observed = IF Cardinality(left) = 1 THEN CHOOSE t \in left : TRUE ELSE @,
               !.entropy = IF Cardinality(left) = 1 THEN 0 ELSE Cardinality(left)]

Doubtful(cell, s) ==
  [cell EXCEPT !.possible = @ \cup {s}, !.entropy = Cardinality(cell.possible \cup {s})]

Observe(cell, s, confidence) ==
  CASE confidence = "high" -> Certain(cell, s)
    [] confidence = "mid" -> Likely(cell, s)
    [] confidence = "low" -> Doubtful(cell, s)

ConfusionAfter(cell, s) ==
  CASE s = "confused" -> cell.confusionCount + 1
    [] s \in {"understood", "contributing"} /\ cell.confusionCount > 0 -> cell.confusionCount - 1
    [] OTHER -> cell.confusionCount

CollapseState(cell, s, confidence) ==
  [Observe(cell, s, confidence) EXCEPT !.confusionCount = ConfusionAfter(cell, s), !.old = FALSE]

\* The bound of the model.
Countable(p, s) == s = "confused" => participants[p].confusionCount < MaxConfusion

-----------------------------------------------------------------------------
(* Constraints, over the cells of a session and its stored entropy.        *)

Known == DOMAIN participants

Observed(cells, S) == {p \in DOMAIN cells : cells[p].observed \in S}

\* calculateSessionEntropy(cells) > 0.7; that is above 0.66, so "high". A session
\* without cells has entropy 0.
IsHigh(cells) ==
  LET n == Cardinality(DOMAIN cells)
      sum == MapThenSumSet(LAMBDA p : cells[p].entropy, DOMAIN cells)
  IN 10 * sum > 42 * n

\* updateSessionEntropy.
Updated(cells) == IsHigh(cells)

Constraints ==
  {"confusion_intervention", "single_confusion_assist", "peer_teaching_opportunity",
   "high_entropy_summary", "disengagement_boost", "all_understood_advance"}

CanTeachNobody(cells) ==
  Cardinality(DOMAIN cells) >= 2 /\ Observed(cells, {"understood", "contributing"}) # {}
CanTeach(cells) ==
  /\ Cardinality(DOMAIN cells) >= 2
  /\ Observed(cells, {"understood", "contributing"}) # {}
  /\ Observed(cells, {"confused"}) # {}

Condition(c, cells, high) ==
  LET n == Cardinality(DOMAIN cells)
      confused == Observed(cells, {"confused"})
  IN CASE c = "confusion_intervention" -> n > 0 /\ 10 * Cardinality(confused) >= 4 * n
       [] c = "single_confusion_assist" -> \E p \in DOMAIN cells : cells[p].confusionCount >= 3
       [] c = "peer_teaching_opportunity" -> CanTeach(cells)
       [] c = "high_entropy_summary" -> high
       [] c = "disengagement_boost" -> \E p \in Observed(cells, {"disengaged"}) : cells[p].old
       [] c = "all_understood_advance" -> n > 0 /\ Observed(cells, {"understood"}) = DOMAIN cells

\* buildAction and getAffectedParticipants. The teacher is the first who understands;
\* the order of a Map is that of the joins, so it may be anyone.
Targets(c, cells) ==
  CASE c \in {"confusion_intervention", "single_confusion_assist"} -> {Observed(cells, {"confused"})}
    [] c = "peer_teaching_opportunity" ->
         {{t} \cup Observed(cells, {"confused"}) : t \in Observed(cells, {"understood", "contributing"})}
    [] c = "disengagement_boost" -> {Observed(cells, {"disengaged"})}
    [] OTHER -> {DOMAIN cells}

\* tryPropagate: at most every 500 ms, and at most one constraint.
TryPropagate(message, cells, high) ==
  /\ recentPropagation' = TRUE
  /\ \/ last' = Nothing(message)
     \/ /\ ~recentPropagation
        /\ \E c \in Constraints :
             /\ Condition(c, cells, high)
             /\ \E T \in Targets(c, cells) :
                  last' = [message |-> message, constraint |-> c, targets |-> T]

-----------------------------------------------------------------------------
Init ==
  /\ perplexityModeActive = FALSE
  /\ hasSession = FALSE
  /\ participants = <<>>
  /\ highEntropy = FALSE
  /\ recentPropagation = FALSE
  /\ last = Nothing("none")

\* A cell for everybody in the room, the sender included.
PerplexityStart(present) ==
  /\ ~perplexityModeActive
  /\ perplexityModeActive' = TRUE
  /\ hasSession' = TRUE
  /\ participants' = [p \in present |-> NewCell]
  /\ highEntropy' = TRUE
  /\ recentPropagation' = FALSE
  /\ last' = Nothing("PERPLEXITY_START")

PerplexityEnd ==
  /\ perplexityModeActive
  /\ perplexityModeActive' = FALSE
  /\ hasSession' = FALSE
  /\ participants' = <<>>
  /\ highEntropy' = FALSE
  /\ recentPropagation' = FALSE
  /\ last' = Nothing("PERPLEXITY_END")

\* A state of one participant, or none; the stored entropy stays what it was.
StateUpdate(p, s, confidence) ==
  /\ perplexityModeActive
  /\ p \in Known
  /\ s # NoState => Countable(p, s)
  /\ LET cells == IF s = NoState THEN participants
                  ELSE [participants EXCEPT ![p] = CollapseState(@, s, confidence)]
     IN /\ participants' = cells
        /\ TryPropagate("STATE_UPDATE", cells, highEntropy)
  /\ UNCHANGED <<perplexityModeActive, hasSession, highEntropy>>

\* What a text told of a participant is protected from reports for five seconds; a state
\* update in that time replaces it, and is protected in its place.
Protected(cell) == cell.textInferred

\* A report carries a state for some of the participants, with one confidence here.
EntropyReport(states, confidence) ==
  /\ perplexityModeActive
  /\ \A p \in DOMAIN states : p \in Known => Countable(p, states[p])
  /\ LET cells == [p \in Known |->
                     IF p \in DOMAIN states /\ ~Protected(participants[p])
                     THEN CollapseState(participants[p], states[p], confidence)
                     ELSE participants[p]]
     IN /\ participants' = cells
        /\ highEntropy' = Updated(cells)
        /\ TryPropagate("ENTROPY_REPORT", cells, Updated(cells))
  /\ UNCHANGED <<perplexityModeActive, hasSession>>

\* inferStateFromTranscript knows four of the states.
Inferable == {"confused", "understood", "thinking", "contributing"}

TextCell(cell, s) == [CollapseState(cell, s, "high") EXCEPT !.textInferred = TRUE]

Transcript(p, s) ==
  /\ perplexityModeActive
  /\ p \in Known => Countable(p, s)
  /\ LET cells == [q \in Known |-> IF q = p THEN TextCell(participants[q], s) ELSE participants[q]]
     IN /\ participants' = cells
        /\ highEntropy' = Updated(cells)
        /\ TryPropagate("TRANSCRIPT", cells, Updated(cells))
  /\ UNCHANGED <<perplexityModeActive, hasSession>>

-----------------------------------------------------------------------------
(* Time, and a restart.                                                   *)

IntervalOver ==
  /\ recentPropagation
  /\ recentPropagation' = FALSE
  /\ last' = Nothing("none")
  /\ UNCHANGED <<perplexityModeActive, hasSession, participants, highEntropy>>

Ages(p) ==
  /\ p \in Known
  /\ \/ /\ participants[p].textInferred          \* 5 s after the text
        /\ participants' = [participants EXCEPT ![p].textInferred = FALSE]
     \/ /\ participants[p].observed = "disengaged"   \* 30 s after the last update
        /\ ~participants[p].textInferred
        /\ ~participants[p].old
        /\ participants' = [participants EXCEPT ![p].old = TRUE]
  /\ last' = Nothing("none")
  /\ UNCHANGED <<perplexityModeActive, hasSession, highEntropy, recentPropagation>>

\* A new context of the room; the session of the old one is not ended.
BotRestarts ==
  /\ perplexityModeActive
  /\ perplexityModeActive' = FALSE
  /\ last' = Nothing("none")
  /\ UNCHANGED <<hasSession, participants, highEntropy, recentPropagation>>

Next ==
  \/ \E present \in SUBSET People \ {{}} : PerplexityStart(present)
  \/ PerplexityEnd
  \/ \E p \in People, s \in Reported, confidence \in Confidences : StateUpdate(p, s, confidence)
  \/ \E p \in People : StateUpdate(p, NoState, "high")
  \/ \E S \in SUBSET People : \E states \in [S -> Reported], confidence \in Confidences :
       EntropyReport(states, confidence)
  \/ \E p \in People, s \in Reported \cap Inferable : Transcript(p, s)
  \/ IntervalOver \/ BotRestarts
  \/ \E p \in People : Ages(p)

Spec == Init /\ [][Next]_vars

-----------------------------------------------------------------------------
Cells == [possible : SUBSET States, observed : States \cup {NoState}, entropy : 0..6,
          confusionCount : 0..MaxConfusion, textInferred : BOOLEAN, old : BOOLEAN]

\* The variables have their types, and perplexityModeActive has a session behind it.
TypeOK ==
  /\ perplexityModeActive \in BOOLEAN
  /\ hasSession \in BOOLEAN
  /\ Known \subseteq People /\ \A p \in Known : participants[p] \in Cells
  /\ recentPropagation \in BOOLEAN
  /\ highEntropy \in BOOLEAN
  /\ last.constraint \in Constraints \cup {"none"}
  /\ perplexityModeActive => hasSession

\* Whatever mixture of certain, likely and doubtful observations made a cell, its entropy
\* is its number of possible states, except that it is 0 when a single one is left, which
\* is then the one observed. (Contradicting observations may leave a cell with none.)
CellsAreConsistent ==
  \A p \in Known :
    LET cell == participants[p] IN
    \/ cell.entropy = Cardinality(cell.possible)
    \/ cell.entropy = 0 /\ cell.possible = {cell.observed}

\* An action has its reason. Except for the help of one participant it is addressed to
\* somebody of the session: an intervention and a boost have targets, teaching has a
\* teacher and a learner. And a report or a transcript asks for a summary only while the
\* entropy of the cells, as they are now, is above 0.7. (A state update asks for it on the
\* strength of the entropy stored before.)
ActionsAreJustified ==
  /\ last.constraint \notin {"none", "single_confusion_assist"} =>
       /\ last.targets # {}
       /\ last.targets \subseteq Known
       /\ last.constraint = "peer_teaching_opportunity" => Cardinality(last.targets) >= 2
  /\ last.constraint = "high_entropy_summary" /\ last.message # "STATE_UPDATE" =>
       IsHigh(participants)
=============================================================================
