----------------------------- MODULE MCMeeting ------------------------------
(***************************************************************************)
(* Parts of the voice bot and of the services it calls that share no       *)
(* state, for TLC: its own life in a room, what a track of audio becomes,  *)
(* the hosts, the boards, the topic summaries, the timeline, the history   *)
(* of the conversation, opinions, insights, the study mode, the intent of  *)
(* an utterance and the layout of a flowchart.  "part" is chosen in the    *)
(* initial state; the other parts stay in theirs.                          *)
(***************************************************************************)
EXTENDS BotLifecycle, Sequences

CONSTANTS
  MaxFrames, PreBufferFrames, SilenceThreshold, MinVoiceFrames, MinLength, MaxLength,
  Participants, Nobody,
  Ticks, Reports, NoReport,
  MaxUtterances, MaxMeetings,
  MaxHistory, MaxTurns, Queries,
  Rooms, Evidence, Cooldown,
  Types, Minute, MaxAnalyses, MaxInsights, MaxReturned,
  Learners, Calls, MaxQuizzes, MaxSessions, MaxAnswers,
  MaxTokens,
  Ids, Dangling, MaxEdges

VARIABLES
  part,
  frame, isCalibrating, isRecording, voiceCount, silenceCount, preBuffer, audioBuffer, bot,
  shouldInterrupt, floor, cooling, handed, loudRun,
  present, hostOnlyMode, hostIdentities, wakeWordEnabled, speakingEnabled, greetingDone,
  isContinuedMeeting, greetings, queries, told, missed,
  ideaModeActive, lastIdeaModeChange, flowchartModeActive, flowchartInitiator,
  flowchartOpenTime, flowchartContext, designModeActive, designModeOpenTime,
  pendingDiagramExplanation, explaining,
  summaryMode, summaryHosts, lastReportHash, tick, report, topicsReceived,
  meeting, buffer, added, cleared, entriesExpired, refining, spokenIn, given, timeline,
  conversationHistory, turns, turnsExpired, query, untrimmed,
  opinionsEnabled, valid, recent, opinionTold, forgotten,
  enabled, stale, analysing, cooldowns, sent, lately, clearedTypes,
  current, session, call,
  tokens, intent,
  rawNodes, edges, laidOut

voiceVars ==
  <<frame, isCalibrating, isRecording, voiceCount, silenceCount, preBuffer, audioBuffer, bot,
    shouldInterrupt, floor, cooling, handed, loudRun>>
hostVars ==
  <<present, hostOnlyMode, hostIdentities, wakeWordEnabled, speakingEnabled, greetingDone,
    isContinuedMeeting, greetings, queries, told, missed>>
boardVars ==
  <<ideaModeActive, lastIdeaModeChange, flowchartModeActive, flowchartInitiator,
    flowchartOpenTime, flowchartContext, designModeActive, designModeOpenTime,
    pendingDiagramExplanation, explaining>>
topicVars == <<summaryMode, summaryHosts, lastReportHash, tick, report, topicsReceived>>
timelineVars ==
  <<meeting, buffer, added, cleared, entriesExpired, refining, spokenIn, given, timeline>>
historyVars == <<conversationHistory, turns, turnsExpired, query, untrimmed>>
opinionVars == <<opinionsEnabled, valid, recent, opinionTold, forgotten>>
insightVars == <<enabled, stale, analysing, cooldowns, sent, lately, clearedTypes>>
studyVars == <<current, session, call>>
intentVars == <<tokens, intent>>
layoutVars == <<rawNodes, edges, laidOut>>

Voice == INSTANCE VoiceActivity
Hosts == INSTANCE RoomHosts
Boards == INSTANCE RoomBoards WITH Users <- Participants
Topics == INSTANCE TopicSummary WITH
  hostOnlyMode <- summaryMode, hostIdentities <- summaryHosts, pc <- tick,
  received <- topicsReceived
Refined == INSTANCE Timeline WITH expired <- entriesExpired, state <- refining
History == INSTANCE ConversationHistory WITH MaxLength <- MaxHistory, expired <- turnsExpired
Opinion == INSTANCE Opinions WITH enabled <- opinionsEnabled, told <- opinionTold
Insights == INSTANCE ProactiveInsights WITH cleared <- clearedTypes
Study == INSTANCE StudyMode WITH People <- Learners
Intents == INSTANCE IntentClassifier
Layout == INSTANCE FlowchartLayout

\* The parts with many initial states have them only when they are explored.
MeetingInit ==
  /\ part \in {"bot", "voice", "hosts", "boards", "topics", "timeline", "history",
              "opinions", "insights", "study", "intents", "layout"}
  /\ Init
  /\ Voice!Init /\ (part # "voice" => ~floor)
  /\ Hosts!Init /\ (part # "hosts" => present = {})
  /\ Boards!Init /\ Topics!Init /\ Refined!Init /\ History!Init
  /\ Opinion!Init /\ Insights!Init /\ Study!Init
  /\ IF part = "intents"
     THEN Intents!Init
     ELSE tokens = <<>> /\ intent = Intents!Unclassified
  /\ IF part = "layout"
     THEN Layout!Init
     ELSE rawNodes = <<>> /\ edges = <<>> /\ laidOut = FALSE

MeetingNext ==
  \/ /\ part = "bot"
     /\ Next
     /\ UNCHANGED <<part, voiceVars, hostVars, boardVars, topicVars, timelineVars,
                    historyVars, opinionVars, insightVars, studyVars, intentVars,
                    layoutVars>>
  \/ /\ part = "voice"
     /\ Voice!Next
     /\ UNCHANGED <<part, vars, hostVars, boardVars, topicVars, timelineVars, historyVars,
                    opinionVars, insightVars, studyVars, intentVars, layoutVars>>
  \/ /\ part = "hosts"
     /\ Hosts!Next
     /\ UNCHANGED <<part, vars, voiceVars, boardVars, topicVars, timelineVars, historyVars,
                    opinionVars, insightVars, studyVars, intentVars, layoutVars>>
  \/ /\ part = "boards"
     /\ Boards!Next
     /\ UNCHANGED <<part, vars, voiceVars, hostVars, topicVars, timelineVars, historyVars,
                    opinionVars, insightVars, studyVars, intentVars, layoutVars>>
  \/ /\ part = "topics"
     /\ Topics!Next
     /\ UNCHANGED <<part, vars, voiceVars, hostVars, boardVars, timelineVars, historyVars,
                    opinionVars, insightVars, studyVars, intentVars, layoutVars>>
  \/ /\ part = "timeline"
     /\ Refined!Next
     /\ UNCHANGED <<part, vars, voiceVars, hostVars, boardVars, topicVars, historyVars,
                    opinionVars, insightVars, studyVars, intentVars, layoutVars>>
  \/ /\ part = "history"
     /\ History!Next
     /\ UNCHANGED <<part, vars, voiceVars, hostVars, boardVars, topicVars, timelineVars,
                    opinionVars, insightVars, studyVars, intentVars, layoutVars>>
  \/ /\ part = "opinions"
     /\ Opinion!Next
     /\ UNCHANGED <<part, vars, voiceVars, hostVars, boardVars, topicVars, timelineVars,
                    historyVars, insightVars, studyVars, intentVars, layoutVars>>
  \/ /\ part = "insights"
     /\ Insights!Next
     /\ UNCHANGED <<part, vars, voiceVars, hostVars, boardVars, topicVars, timelineVars,
                    historyVars, opinionVars, studyVars, intentVars, layoutVars>>
  \/ /\ part = "study"
     /\ Study!Next
     /\ UNCHANGED <<part, vars, voiceVars, hostVars, boardVars, topicVars, timelineVars,
                    historyVars, opinionVars, insightVars, intentVars, layoutVars>>
  \/ /\ part = "intents"
     /\ Intents!Next
     /\ UNCHANGED <<part, vars, voiceVars, hostVars, boardVars, topicVars, timelineVars,
                    historyVars, opinionVars, insightVars, studyVars, layoutVars>>
  \/ /\ part = "layout"
     /\ Layout!Next
     /\ UNCHANGED <<part, vars, voiceVars, hostVars, boardVars, topicVars, timelineVars,
                    historyVars, opinionVars, insightVars, studyVars, intentVars>>

MeetingSpec ==
  /\ MeetingInit
  /\ [][MeetingNext]_<<part, vars, voiceVars, hostVars, boardVars, topicVars, timelineVars,
                       historyVars, opinionVars, insightVars, studyVars, intentVars, layoutVars>>

-----------------------------------------------------------------------------
\* The types of every part.
TypesOK ==
  /\ TypeOK /\ Voice!TypeOK /\ Hosts!TypeOK /\ Boards!TypeOK /\ Topics!TypeOK
  /\ Refined!TypeOK /\ History!TypeOK /\ Opinion!TypeOK /\ Insights!TypeOK
  /\ Study!TypeOK /\ Intents!TypeOK /\ Layout!TypeOK

\* No frame of audio is part of two utterances, and utterances follow each other.
UtterancesDoNotOverlap == Voice!UtterancesDoNotOverlap

\* The modes of the room and what depends on them agree: the RAG server is told who is no
\* longer a host, nothing of a closed board is kept, and topic summaries reach only those
\* who are hosts when they are sent.
RoomModesAgree ==
  /\ []Hosts!ToldHostsAreHosts
  /\ []Boards!NothingOfClosedBoards
  /\ Topics!SummariesGoToHosts

\* The bot remembers the recent past, unbroken and in order: the history of the conversation
\* over the queries of hosts, and the context of the timeline over overlapping refinements.
MemoryIsRecent == History!HistoryIsRecentPast /\ Refined!RecentContextIsKept

\* What the bot says unasked keeps its distance: the same opinion in a room, unless the
\* history of that room was cleared, and the same type of insight, unless some room stopped
\* sharing its screen.
RemarksAreSpaced == Opinion!OpinionsAreSpaced /\ Insights!InsightsAreSpaced

\* Study mode exceeds its limit only by calls that overlap, and scores add up.
StudyIsFair == Study!QuizLimitHoldsButForOverlap /\ Study!ScoresAreAccountedFor

\* Only what begins within the first four words of an utterance calls the bot, and a wake
\* word that does always calls it.
WakeWordLeads == Intents!WakeWordLeads

\* The columns of a flowchart are distances from its start.
DepthIsDistance == Layout!DepthIsDistance
=============================================================================
