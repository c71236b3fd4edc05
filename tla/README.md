# Verification of the live meeting server

TLA+ models of the stateful parts of this NestJS server (the AURA live server),
the TLC configurations that check them on small instances, and TLAPS proofs of
what matters most for instances of every size. `PROJECT.json` lists components,
runs, mutants, the map from definitions to source lines, findings, hazards and
theorems. Source paths below are relative to the repository.

## The system

The server joins LiveKit meeting rooms with a voice bot. The bot hears the
participants, recognises speech, decides whether it is addressed, asks a model,
speaks the answer and sends panels over the data channel; it also runs meeting
timers, forwards every statement to a retrieval (RAG) service over a WebSocket,
and offers modes (ideas, flow charts, quizzes, perplexity). Everything runs in one
node process: code between two `await`s is atomic, and *every* `await` is a place
where another request, room event, timer or socket event may run. That is the
hard part of this code, and the models are cut exactly at those places.

| Part | Source | State | Operations | What is hard |
|---|---|---|---|---|
| Bot lifecycle | `src/livekit/livekit.service.ts`, `voice-bot.service.ts` | `activeRooms`, `shutdownTimeout`, the LiveKit room | start, stop, stop with cleanup, room events, 30 s shutdown timer | entries looked up by room id after awaits, overlapping starts, late events of old bots |
| Response flow | `src/livekit/voice-bot.service.ts` | `isPublishing`, `currentRequestId`, `botState`, `shouldInterrupt`, `aiMuted` | utterances, speech, barge-in, mute, timer announcements | several answers in flight, flags read before an await and written after it |
| Meeting timer | `src/mcp/tools/timer.tool.ts` | `timerStore`, `timerIntervals`, scheduled intervals | start, pause, resume, extend, stop, interval callback | two maps and the real intervals updated in five different ways |
| RAG connection | `src/rag/rag-client.service.ts` | `connections`, sockets, reconnect timers | connect, handshake timeout, close, reconnect, disconnect | close events of replaced sockets, attempts running out |
| RAG reports | same | `pendingReportRequests` | `requestReport`, report message, timeout, disconnect | one entry per room, POST and WebSocket answer race |
| RAG questions | same | `pendingRequests`, `pendingRequestsWithSources` | two kinds of question, answers, timeouts | keyed by text, replaced contexts |
| RAG statements | same | `statementBuffer`, retries, flushes | send, buffer, flush, age, clear | concurrent flushes, retries and live statements |
| Model gates | `src/llm/llm.service.ts`, `src/vision/vision.service.ts` | `isProcessing`, `lastRequestTime` | queue, sleep, call, back off | check, sleep, then set |
| Voice detection | `voice-bot.service.ts` `handleAudioTrack` | frame buffers, voice and silence counters | one loop body per audio frame | overlapping buffers, limits, barge-in |
| Hosts, boards, topics | `voice-bot.service.ts` data handlers | host set, toggles, board modes, `lastReportHash` | messages of the clients, topic checker | messages of several clients in any order, people who leave |
| Panels, agent | `voice-bot.service.ts`, `src/agent` | none but the request | model, RAG and search calls, `publishData` | one of several steps fails |
| Statistics, checkers | `voice-bot.service.ts` | speaking statistics, intervals | silence, statistics, topic, proactive checkers | overlapping ticks, checkers outliving a context |
| Vision | `voice-bot.service.ts`, `src/vision` | `isVisionMode`, pending request | capture request and response | no answer, answers twice |
| Perplexity, study, recording | `src/perplexity`, `src/study`, `src/recording` | sessions, cells, quizzes, `activeRecordings`, stored metadata | see the modules | tests before and counts after model calls, read-modify-write of stored objects |
| Tool servers | `src/mcp/client` | `connections`, processes, pending requests | connect, request, answer, exit, disconnect | late answers, replaced connections |
| Timeline, history, opinions, insights | `src/livekit/timeline.service.ts`, `src/agent/evidence`, `src/agent/proactive`, `voice-bot.service.ts` | buffers, cooldowns | refine, append, trim, offer | overlapping model calls, cooldowns shared by rooms |
| Intents, flowchart layout | `src/intent`, `voice-bot.service.ts` | none | `classify`, `parseCDRToFlowchart` | order of tables and patterns, cyclic and dangling edges |

`PROJECT.json` also lists the parts without state of their own (intent tables,
prompts, search, map, calendar, controllers, generated code) and why they are left
out.

## Modules

| Module | Models |
|---|---|
| `BotLifecycle`, `MCBotLifecycle`, `BotLifecycleProofs` | the bot of a room; `MCRagClient` and `MCMeeting` check it too |
| `ResponseFlow`, `MCResponseFlow` | every handler through which the bot of a room speaks |
| `ResponseFlowTypes`, `ResponseFlowTurns`, `ResponseFlowProofs` | its proofs: types, turns, and the inductive invariant put together |
| `TimerTool`, `TimerToolProofs` | the meeting timer |
| `MeetingTimer` | what the timer promises the participants; `TimerTool` implements it |
| `RagConnection`, `MCRagConnection`, `RagConnectionProofs` | the socket of a room to the RAG service |
| `RagReport`, `RagReportProofs` | interim report requests |
| `RagQuestions`, `RagStatements` | questions to the RAG service; the statement buffer |
| `RequestGate` | the gate in front of the models |
| `McpClient` | the connection to a tool server |
| `PanelRequests`, `AgentRouter` | a request of a panel; an utterance that the agent answers |
| `Recording`, `RecordingProofs`, `RecordingMetadata` | the recording of a room; the stored description and chapters of one |
| `PerplexityMode` | sessions, cells, collapse, constraints, propagation |
| `SilenceAlerts`, `SpeakingStats`, `RoomCheckers` | the interval callbacks of a room and the intervals themselves |
| `VoiceActivity` | audio frames, utterances, barge-in |
| `RoomHosts`, `RoomBoards`, `TopicSummary` | hosts and toggles; idea, flowchart and design boards; topics for the hosts |
| `Timeline`, `ConversationHistory` | what the bot remembers of a meeting |
| `Opinions`, `ProactiveInsights` | what the bot says unasked |
| `StudyMode` | quizzes, answers, follow-ups, scores |
| `IntentClassifier`, `FlowchartLayout` | two pure algorithms over all bounded inputs |
| `MCRagClient`, `MCServices`, `MCSessions`, `MCMeeting` | modules that share no state, each group in one configuration |

A call of an asynchronous method is a *flow*. `pc[f]` names the await at which flow
`f` is suspended, and an action runs a flow from one await to the next, with
everything the code does in between, early returns and catch clauses included.
What a timer, an interval or an event listener does is an action too. Variables
keep the names of the fields they stand for; what a variable means is said beside
its declaration, and variables that no code has (`finished`, `forced`,
`stranded`, `wanted`, `dropped`, ...) are histories that the properties read and no
guard does.

### BotLifecycle

`active` is the entry of `activeRooms` for one room: the name of the bot whose
context it is. A start *is* the bot it creates, so that two generations of the bot
can be told apart, which the code cannot do: it looks everything up by room id. The
awaits are `ragOff` and `roomOff` (inside `stopBot`), `list` and `remove`
(`removeBots`), `token`, `connect` and `publish` (`startBot`), `deleteRoom` and
`cleanDb` (`cleanupRoom`). `conn` and `humans` are what the LiveKit server knows,
`seen[b]` what the room object of bot `b` knows: all remote participants, other bots
included, which the code counts as well. Events carry the one to the other and may be
late. `timers[b]` are the timers node will fire, `shutdownTimeout[b]` the
one handle the context remembers. Every awaited call may fail.

### ResponseFlow

A flow is a call of `handleAudioTrack` after voice detection (and through it of
`processAndRespond`, `processWithAgent`, `checkAndOfferOpinion`), the timer
callback, `greetOnJoin`, `handlePerplexityMessage`, `explainGeneratedDiagrams` or
`handleVisionCaptureResponse`. `job[f]` is the branch of its handler. What a
participant said and which modes are on choose the branch; both are data here, so a
flow may take every branch that the modelled flags allow. `speakAndPublish` and
`publishAudio` are the awaits `muted`, `card`, `synth`, `tell`, `play` and `hush`
with the flags tested and set between them. The thinking phrase that
`processAndRespond` starts and awaits only later is a flow of its own, named by
`thinkingTask[f]`. `Fail` is split after the catch clauses, because they restore
different things. A perplexity transcript that arrives while the bot speaks is
handled to its end beside the speech (job `transcript`). Request ids (`Date.now()`, or the last id plus one) are taken
to be different.

### TimerTool

`timerStore` is four functions on rooms, `timerIntervals` the registered handles,
`scheduled` what node really fires: the three are updated in five ways by
start, pause, resume, extend and stop. A minute has `SecondsPerMinute` seconds.
Durations are whole minutes, at least one (`ChoicesAssumption`), as the spoken commands
carry them. `handleTimerCommand` does not validate the message of a client; what other
numbers do to a timer is outside of what is shown.

### RagConnection, RagReport, RagQuestions, RagStatements

Four views of one client, which meet in the state of the connection: each of the
last three has the connection as far as it looks at it (`absent`, `down`, `open`, or
the context object with its two maps), changing whenever the first may change it.
`RagConnection` has the sockets with their handshakes, timeouts and close events,
which are delivered to listeners that look the room up again; the reconnect timer
and its counter. `RagReport` has the one entry per room, the POST, the report that
comes over the socket, and the 60 second timer. `RagQuestions` has the two maps
keyed by question text, per context object. `RagStatements` has the buffer with its
size and age limits, one flush per open, the retries of failing sends and the order
in which the server receives statements.

### RequestGate

`sendMessage` of the language model service and `analyzeScreenShare`,
`analyzeScreenForQuality` of the vision service wait for `isProcessing` by polling,
then sleep until `MIN_REQUEST_INTERVAL` has passed, then set it. `age` is the time
since `lastRequestTime` in ticks. Real-time searches do not queue but set and
clear the same flag. Calls are retried up to `MAX_RETRIES` times.

### McpClient, PanelRequests, AgentRouter

`connections.get(name)` is looked up at every step of `McpClient`, so a connect that
resumes may find another connection than its own, and output of a killed process
is handed to whoever holds the name. A panel request and an agent utterance are
followed through their awaits, each of which may fail into its own catch clause;
`content`, `result` and `response` say what the thing being sent rests on.

### Recording, RecordingMetadata

Calls are cut at the egress service and at the object store. A failing call may
have had its effect, and an egress ends by itself without telling the server. An update
of the chapters reads the stored metadata, replaces the chapters and writes it all back;
a read that fails looks like metadata that is not there. `after[f]` are the updates that
ended after update `f` was reported as saved: only they may replace its chapters.

### PerplexityMode, StudyMode

A perplexity message is handled without an await up to the propagation and is one
action; entropies are counted in sixths. Constraints keep `lastTriggered` for all
rooms together, so in one room any of them may be cooling. A study call keeps the
context object it fetched before its model call: `session[g]` is the g-th object,
`current` the one the map holds.

### SilenceAlerts, SpeakingStats, RoomCheckers, TopicSummary

The callbacks are asynchronous and are cut at `publishData` and at model calls, so a
slow tick overlaps the next one. `RoomCheckers` has the intervals over several
generations of the context, with standby mode and the proactive analysis. A participant
who leaves takes their statistics along (`ParticipantDisconnected`).

### VoiceActivity, RoomHosts, RoomBoards

One action per audio frame, whose loudness is its class against the adaptive
thresholds of the moment, and one per data message. `loudRun` counts the loud frames in a
row while the bot speaks. `told` is what the RAG server was last told of a participant's
role; the posts are not awaited, so each may fail or be overtaken, which `missed`
remembers.

### Timeline, ConversationHistory, Opinions, ProactiveInsights

Utterances and turns are numbered as they come; `expired` separates those past the
age limit. Which evidence matches a conversation best is data: any valid one may, in any
room. What is modelled is the one map of records for all rooms with its cooldown, its
cleaning and the history that is cleared room by room; and for insights the one cooldown
per type, shared by all rooms, which the end of any screen share clears. The histories
`told` and `lately` measure the real distance of two remarks, whatever the maps say.

### IntentClassifier, FlowchartLayout

The initial states are all inputs within the bounds. `classify` works on classes of words
(wake word, spelled like one, opening, ...) as far as it decides whether the bot is
called; `WakeWordLeads` bounds where any of its three comparisons may find the call, and
says that a leading wake word is never missed. The breadth-first search that gives a node its column is compared with the definition of distance in a graph.

## Runs

| Run | Instance | Shows |
|---|---|---|
| `rag_client` | four sockets and three attempts; two report calls; two questions of one text over two contexts; three statements, a buffer of two, two opens; one bot, a stop, a cleanup, two humans | recovery is always under way, every call and question ends, no statement vanishes; the last departure that the bot sees leads to its shutdown |
| `services` | one room, minutes of three seconds, durations up to five minutes, two interval handles; three queued requests and a direct one; two tool server connections, two connects, a tool call; one panel request of any kind; one agent utterance | the timer keeps in step with its state, warns before its end, terminates and implements `MeetingTimer`; no tool server is forgotten; answers rest on what was found; everything that was asked ends |
| `response` | two flows of any kind, one participant, one capture | who holds `isPublishing` and the SPEAKING state |
| `response_live` | the same without the settings that only remove behaviour, with a capture pending at the start or not | captures take turns; `isPublishing` is cleared again without the 60 second reset |
| `sessions` | three starts and two stops of a recording; three chapter updates; two participants in perplexity mode; two ticks over two silent people; three ticks over three speakers; two contexts of checkers | an egress is never orphaned by sequential calls, saved chapters give way only to later updates, entropies and actions agree with the cells, hosts are told once, intervals stay bounded over restarts |
| `meeting` | two starts, a cleanup, one human, one timer; six frames; two participants, hosts and board users; two topic ticks; three utterances over two meetings; seven turns over a limit of three; two rooms sharing two pieces of evidence and three insight types; a quiz limit of one and two overlapping calls; utterances of five words; charts of three nodes, a dangling id and three edges | `activeRooms` never keeps a bot that is gone for good, utterances do not overlap, memory is the recent past, roles and boards agree with what was told, remarks are spaced, scores add up, the two algorithms meet their definitions |
| `stale_shutdown`, `two_bots`, `rag_late_close`, `speaking_stuck`, `vision_retry`, `barge_in` | as small as the counterexample allows | the findings below |

*Why the bounds are enough to be interesting.* Two flows are what every
interleaving hazard of this code needs: one that has read a flag and one that
changes it. Two starts give an old and a new bot, and a start stops what it finds, so that no
separate stop is needed beside them; two timers give one that is remembered and one that
is forgotten; four sockets a connection, its replacement and a late
closer of each; three statements over a buffer of two make it overflow while a
flush is running; three requests at the gate give two that sleep out the same
interval behind a third; six frames hold an utterance that reaches its limit of four and the
start of the next; seven turns fill and trim the history twice; five words are one more
than `classify` looks at for a wake word; cooldowns of two ticks have a moment within and
one at the end, and two rooms are one that needs a record and one that may disturb it;
speeches of one and two units reach every side of the dominance thresholds; three nodes and three edges have cycles,
joins and unreachable parts. The theorems below do not depend on any of these bounds.
Constants whose comment says *bound* are the only bounds that the code does not
have. Flows are interchangeable, so `response` uses
symmetry, and so are the sockets of `rag_late_close`; runs with liveness do not.

*Merged configurations.* `MCRagClient`, `MCServices`, `MCSessions` and `MCMeeting` explore
modules that share no variable: `part` chooses one in the initial state and the others
stay in theirs. Where one of their properties has several conjuncts, each speaks of
the part that carries it; each has a mutant of its own in `PROJECT.json`, but for the
types and the endings of panel and agent requests.

*Deadlock* is checked where the system never comes to rest (events of the
environment remain possible) and not in the runs whose finitely many calls simply
come to an end.

*Fairness.* Weak fairness of what node and the network guarantee: a pending await
settles (every outgoing call has a timeout or fails), a scheduled timer or interval
fires, a delivered event reaches its listener. Nothing is assumed of people, of the
RAG server's answers or of the order of events, and the 60 second reset of
`isPublishing`, which happens only if audio frames arrive, is not relied upon.

## What is proved

TLAPS checks the following for every value of the constants, under the named
assumptions of the modules: the sets of calls are disjoint and do not contain the
null values (`FlowsAssumption`, `NullAssumption`, `SocketsAssumption`,
`IdsAssumption`, `UsersAssumption`), durations and limits are natural numbers
(`SecondsAssumption`, `ChoicesAssumption`, `TimersAssumption`,
`AttemptsAssumption`). `RagReport` has its assumption as a hypothesis of the
theorems, `CallsAssumption`.

- **TimerToolProofs**: types, `SingleCountdown`, `CountdownMatchesState`,
  `WarnedBeforeEnd`, `EndedIsFinal`. The first two are inductive together. The
  warning needs more: the threshold test is an equality, so what must be carried
  along is that a timer which had headroom and has not warned is still strictly
  above its threshold (`OwedWarning`); that the second countdown does not exist is
  what keeps a tick from stepping over it. `FinishedIsIdle` carries the last one.
  `Implementation`: `TimerTool` implements `MeetingTimer`, in which there are no
  intervals or handles. The mapping shows a participant the timer as off, going, held or
  over (`Shown`); each action of `TimerTool` is one action of `MeetingTimer`. The step for
  a tick is where the invariant is used: an interval that fires belongs to a timer that
  counts, and the last second comes only after the warning that was due.
- **BotLifecycleProofs**: types and `NoZombieContext` for any interleaving of any
  number of calls. `ReturnCancelsShutdown` under `OneGeneration` (one start): the
  strengthening `TimerTracked` says that every timer that will fire is the remembered
  one. `SerialStartsAreSafe`: under `SerialSpec`, in which starts do not overlap and
  removals succeed, there is one bot; `OneInFlight` and `RoomEmptied` carry the argument
  that the room is empty of bots from the end of `removeBots` to the join. This is the
  exact complement of the finding `two_bots`. `TidyShutdownSparesCompany` is that of
  `stale_shutdown`: under `TidySpec`, in which moreover no step leaves a shutdown timer
  of a stopped bot behind (`NoTimerLeft`), over any number of generations, the shutdown
  never stops a bot while a human is in the room that the bot has heard of. `Tidy` says
  that no other bot is in the room beside the one with the context, that the only timer
  pending is the one this context remembers, and that a return has cancelled it.
- **RagConnectionProofs**: types with the limit on attempts, and `RecoveryPending`,
  which is inductive: each way to lose a recovery is also a way to start one or to
  remove the entry.
- **RagReportProofs**: types, `EntryIsAlive`, `WaitingCallHasTimer`. Needed is
  `TimerSettles`: a timer runs exactly as long as its promise is unsettled, whoever
  owns the entry of the map.
- **RecordingProofs**: types and `RecordingIsTracked`: without overlapping or failing
  calls, an egress that runs is the one `activeRecordings` names. The strengthening
  `Undisturbed` adds what the one call that waits for the egress service knows.
- **ResponseFlowTypes, ResponseFlowTurns, ResponseFlowProofs**: types,
  `PublishingHasOwner`, `AnswersTakeTurns`, `SpeakingHasSpeaker`,
  `CapturesTakeTurns`. The invariant adds `Shape` (which branches can wait at which
  await), `AnswerHolds` (a flow that answers holds `isPublishing` unless somebody
  forced it) and `CaptureLocks` (a flow that analyses a capture holds the lock).

Each proof has a lemma per conjunct with a step per action. TLC checked every
invariant before it was proved.

*Only model-checked:* all liveness properties (outside the prover's reach, with the
fairness they need), and the modules without a proof module. `FlowchartLayout` and
`IntentClassifier` are checked for all inputs within the bounds; what their recursive
definitions compute for every input would need induction over data, which the prover
cannot do.

## Findings

1. `stale_shutdown`: `stopBot` leaves the shutdown timer of its context pending.
   When it fires it counts the participants of the old room object, and stops the
   *current* bot and deletes the room, although somebody is there.
2. `two_bots`: `startBot` tests `activeRooms` before two awaits and sets it after
   them; two overlapping starts both join.
3. `rag_late_close`: the close listener of an old socket deletes the entry of the
   new, open one.
4. `speaking_stuck`: a failing speech in the timer callback, an opinion, a diagram
   explanation or an abandoned thinking phrase leaves `botState` at SPEAKING; the
   bot then ignores questions until another handler happens to speak.
5. `vision_retry`: the ten second limit on a capture request is tested where an
   utterance arrives only when no request is pending, so it never helps.
6. `barge_in`: while the bot speaks the loop over the frames continues before the line
   that counts voice frames, and a barge-in needs that count: a participant who begins to
   talk during the speech cannot interrupt it, only one whose utterance it cut into.

The modules state more properties that comments of the code suggest and that TLC
refutes. They are in no run, because they repeat one of the mechanisms above, are a
matter of wording, or may be meant as they are:

| Property | Module | Why it fails |
|---|---|---|
| `PromisedWarning` | `TimerTool` | a timer no longer than its warning time never equals the threshold |
| `EmptyRoomIsLeft` | `BotLifecycle` | only a departure seen by the bot arms the shutdown |
| `OneSocketPerRoom` | `RagConnection` | a second `connect` during the handshake |
| `DisconnectIsFinal` | `RagConnection` | a handshake under way is not cancelled |
| `OneReportAtATime` | `RagReport` | the entry can be deleted by another call |
| `FailuresAreCaught` | `RagReport` | the timer rejects while the POST is still awaited |
| `DisconnectRejectsAll` | `RagQuestions` | the map of questions with sources is not rejected |
| `StatementOrder`, `SentOnce` | `RagStatements` | flushes, live statements and retries run side by side |
| `TranscriptComplete` | `RagStatements` | the buffer that is also the transcript is emptied by a flush |
| `OneRequestAtATime`, `MinimumInterval` | `RequestGate` | `isProcessing` is tested, then there is a sleep, then it is set: two requests are let in together |
| `OneRecording` | `Recording` | two overlapping starts, or a start whose failure had its effect |
| `AnswersAreOwn` | `McpClient` | a late answer of a killed process carries a number its successor uses again |
| `OneCheckerPerRoom` | `RoomCheckers` | a restart before the next tick keeps the old checkers |
| `NeverToldTwice` | `SilenceAlerts` | a person is marked after the await, and ticks overlap |
| `AudioInOrder` | `VoiceActivity` | the first voice frame is already in `audioBuffer` when the pre-buffer is put behind it |
| `OpenedBySomebody` | `RoomBoards` | a context message that arrives after the end reopens the flowchart |
| `MeetingIsPreferred` | `PanelRequests` | when the history questions fail, so does the quiz made from the meeting |
| `PlacesAreDistinct` | `FlowchartLayout` | branches that meet again, and unreachable nodes |
| `QuizLimitHolds` | `StudyMode` | tested before the model call, counted after it |
| `AnswererIsCredited` | `StudyMode` | the points of a follow-up go to the participant who was added last |
| `SameTypeIsSpaced` | `ProactiveInsights` | the end of one room's screen share clears the cooldowns of all |
| `InsightsOnlyWhileSharing` | `ProactiveInsights` | an analysis under way still sends |
| `DescriptionSurvives` | `RecordingMetadata` | metadata that cannot be read counts as none and is written anew |
| `ContextIsOfThisMeeting`, `TimelineInOrder` | `Timeline` | refinements overlap each other and the end of a meeting |
| `HistoryIsLimited` | `ConversationHistory` | a host's query appends without trimming |
| `SeenIsSummarised` | `TopicSummary` | the hash is kept before the model answers |

Observations without a property:

- a mute that arrives during speech synthesis is undone, because `speakAndPublish`
  clears the interruption flag after the await (voice-bot.service.ts:3487);
- a thinking phrase that fails while the model call is still awaited is an unhandled
  rejection (3225-3237);
- the comment on the silence alert says three minutes (5169), the threshold is one
  (5124); the one on dominance says below 60%, the reset is below 50%;
- `stopBot` and `cleanupRoom` do not clear the proactive analysis interval, only
  standby does (3836); cooldowns of insights and constraints are shared by all rooms;
- an intent corrected by the model can make the bot respond although the hosts turned
  the wake word off (3032-3056);
- an opinion counts as offered before it is spoken, and the best match, when on
  cooldown, silences the second best;
- the posts of roles to the RAG server are not ordered, and a host who comes back is
  not reported as one;
- a state inferred from a text is protected from entropy reports for five seconds, but a
  STATE_UPDATE of a client replaces it at once;
- `dominantAlertSent` stays set when the dominant speaker leaves, so the next one goes
  unnoticed until their share has fallen;
- "timer, extend by 10 minutes" meets the pattern of a start first, and starts a new timer;
- a silence alert that fails to be published is an unhandled rejection of its tick.

## What is not modelled

- Text: prompts, wording, word lists, the descriptions of diagrams and past meetings.
  Models that depend on text work on the classes of words the code tells apart.
- Services without state between calls (search, map, calendar, translation, synthesis,
  recognition, upload, authentication): they return or fail, and their callers' models have
  both. The diagram tools have a five-minute cache that nothing else reads.
- Generated gRPC code, and single requests to the LiveKit server or the object store
  (creating and listing rooms, listing and deleting recordings).
- The demonstration call `injectMockStatements`, which bypasses the limit of the buffer.
- Composition of parts that share no state in the code: their interleavings are
  independent, and the merged configurations do not multiply them.
