----------------------------- MODULE RoomBoards ------------------------------
(***************************************************************************)
(* The boards of a meeting: the DataReceived handler of the                *)
(* VoiceBotService for the idea mode, the flowchart board and the design   *)
(* board, and the flowchart board opened by voice.  The clients send their *)
(* messages on their own, so starts, ends and contexts of several clients  *)
(* arrive in any order.  Times are kept as what the handler asks of them:  *)
(* "unset" (0), "recent" (inside the debounce or grace period) or "past".  *)
(***************************************************************************)
CONSTANTS
  Users,
  Nobody

VARIABLES
  ideaModeActive, lastIdeaModeChange,
  flowchartModeActive, flowchartInitiator, flowchartOpenTime,
  flowchartContext,   \* the nodes of the board, as last sent: "none", "empty" or "nodes"
  designModeActive, designModeOpenTime,
  pendingDiagramExplanation,
  explaining          \* calls of explainGeneratedDiagrams have been made

idea == <<ideaModeActive, lastIdeaModeChange>>
flowchart == <<flowchartModeActive, flowchartInitiator, flowchartOpenTime, flowchartContext>>
design == <<designModeActive, designModeOpenTime, pendingDiagramExplanation, explaining>>
vars == <<idea, flowchart, design>>

Init ==
  /\ ideaModeActive = FALSE
  /\ lastIdeaModeChange = "unset"
  /\ flowchartModeActive = FALSE
  /\ flowchartInitiator = Nobody
  /\ flowchartOpenTime = "unset"
  /\ flowchartContext = "none"
  /\ designModeActive = FALSE
  /\ designModeOpenTime = "unset"
  /\ pendingDiagramExplanation = FALSE
  /\ explaining = FALSE

-----------------------------------------------------------------------------
\* IDEA_MODE_START and IDEA_MODE_END: a change within 500 ms of the last one is ignored.
IdeaMode(active) ==
  /\ ideaModeActive # active
  /\ lastIdeaModeChange # "recent"
  /\ ideaModeActive' = active
  /\ lastIdeaModeChange' = "recent"
  /\ UNCHANGED <<flowchart, design>>

FlowchartStart(user) ==
  /\ ~flowchartModeActive
  /\ flowchartModeActive' = TRUE
  /\ flowchartInitiator' = user
  /\ flowchartOpenTime' = "recent"
  /\ UNCHANGED <<idea, design, flowchartContext>>

\* "Aura, open the design board": opens the board also when it is open.
FlowchartIntent(user) ==
  /\ flowchartModeActive' = TRUE
  /\ flowchartInitiator' = user
  /\ flowchartOpenTime' = "recent"
  /\ UNCHANGED <<idea, design, flowchartContext>>

\* An end within a second of the start is taken for one of an earlier board.
FlowchartEndKeepingTime ==
  /\ flowchartModeActive
  /\ flowchartOpenTime # "recent"
  /\ flowchartModeActive' = FALSE
  /\ flowchartInitiator' = Nobody
  /\ UNCHANGED <<idea, design, flowchartContext, flowchartOpenTime>>
FlowchartEnd ==
  /\ flowchartModeActive
  /\ flowchartOpenTime # "recent"
  /\ flowchartModeActive' = FALSE
  /\ flowchartInitiator' = Nobody
  /\ flowchartOpenTime' = "unset"
  /\ UNCHANGED <<idea, design, flowchartContext>>

\* The state of a client's board; nodes on it turn the mode on.
FlowchartContext(nodes) ==
  /\ flowchartContext' = nodes
  /\ flowchartModeActive' = (flowchartModeActive \/ nodes = "nodes")
  /\ UNCHANGED <<idea, design, flowchartInitiator, flowchartOpenTime>>

DesignBoardStart ==
  /\ ~designModeActive
  /\ designModeActive' = TRUE
  /\ designModeOpenTime' = "recent"
  /\ UNCHANGED <<idea, flowchart, pendingDiagramExplanation, explaining>>

DesignBoardEndKeepingExplanation ==
  /\ designModeActive
  /\ designModeOpenTime # "recent"
  /\ designModeActive' = FALSE
  /\ designModeOpenTime' = "unset"
  /\ UNCHANGED <<idea, flowchart, explaining, pendingDiagramExplanation>>
DesignBoardEnd ==
  /\ designModeActive
  /\ designModeOpenTime # "recent"
  /\ designModeActive' = FALSE
  /\ designModeOpenTime' = "unset"
  /\ pendingDiagramExplanation' = FALSE
  /\ UNCHANGED <<idea, flowchart, explaining>>

DesignBoardDiagramsGenerated ==
  /\ designModeActive
  /\ pendingDiagramExplanation' = TRUE
  /\ explaining' = TRUE
  /\ UNCHANGED <<idea, flowchart, designModeActive, designModeOpenTime>>

\* Half a second, or a second, has passed.
IdeaDebounceOver ==
  /\ lastIdeaModeChange = "recent"
  /\ lastIdeaModeChange' = "past"
  /\ UNCHANGED <<ideaModeActive, flowchart, design>>

FlowchartGraceOver ==
  /\ flowchartOpenTime = "recent"
  /\ flowchartOpenTime' = "past"
  /\ UNCHANGED <<idea, design, flowchartModeActive, flowchartInitiator, flowchartContext>>

DesignGraceOver ==
  /\ designModeOpenTime = "recent"
  /\ designModeOpenTime' = "past"
  /\ UNCHANGED <<idea, flowchart, designModeActive, pendingDiagramExplanation, explaining>>

Next ==
  \/ \E active \in BOOLEAN : IdeaMode(active)
  \/ \E user \in Users : FlowchartStart(user) \/ FlowchartIntent(user)
  \/ FlowchartEnd
  \/ \E nodes \in {"empty", "nodes"} : FlowchartContext(nodes)
  \/ DesignBoardStart \/ DesignBoardEnd \/ DesignBoardDiagramsGenerated
  \/ IdeaDebounceOver \/ FlowchartGraceOver \/ DesignGraceOver

Spec == Init /\ [][Next]_vars

-----------------------------------------------------------------------------
Times == {"unset", "recent", "past"}

\* The modes are switches, the times what the handler asks of them.
TypeOK ==
  /\ {ideaModeActive, flowchartModeActive, designModeActive} \subseteq BOOLEAN
  /\ {lastIdeaModeChange, flowchartOpenTime, designModeOpenTime} \subseteq Times
  /\ flowchartInitiator \in Users \cup {Nobody}
  /\ flowchartContext \in {"none", "empty", "nodes"}

\* What belongs to an open board goes with it: an initiator and an opening time are those of
\* an open flowchart board, and a diagram waiting for questions is on an open design board.
\* A board closed at "past" but left with its time would refuse the end of the next one.
NothingOfClosedBoards ==
  /\ flowchartInitiator # Nobody \/ flowchartOpenTime # "unset" => flowchartModeActive
  /\ flowchartInitiator # Nobody => flowchartOpenTime # "unset"
  /\ pendingDiagramExplanation \/ designModeOpenTime # "unset" => designModeActive

\* "The mode is turned on when the flowchart is open" (voice-bot.service.ts:816): a mode
\* that is on has been opened by somebody.  A context message that arrives after the end
\* turns it on again, so it does not hold.
OpenedBySomebody == flowchartModeActive => flowchartInitiator # Nobody
=============================================================================
