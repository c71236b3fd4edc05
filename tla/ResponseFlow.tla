---------------------------- MODULE ResponseFlow ----------------------------
(***************************************************************************)
(* How the voice bot of one room answers: VoiceBotService.handleAudioTrack *)
(* (the part after voice detection), processAndRespond, processWithAgent,  *)
(* checkAndOfferOpinion, speakAndPublish, publishAudio, and the other      *)
(* handlers that speak: the timer callback, greetOnJoin,                   *)
(* handlePerplexityMessage, explainGeneratedDiagrams and                   *)
(* handleVisionCaptureResponse.                                            *)
(*                                                                         *)
(* Every call of one of them is a flow.  The flows share the flags of the  *)
(* RoomContext, and each is cut at its awaits: pc says what a flow waits   *)
(* for, job which branch of its handler it is in.  What a participant said *)
(* and which modes are on decide the branch; both are data here, so a flow *)
(* may take every branch that the modelled flags allow.                    *)
(*                                                                         *)
(* Request ids are Date.now() or the last id plus one; they are taken to   *)
(* be different, and the id of a flow is the flow itself.                  *)
(***************************************************************************)
EXTENDS Integers

CONSTANTS
  Flows,       \* calls of the handlers
  Users,       \* participants
  CaptureIds,  \* request ids processVisionIntent may draw
  NoId,        \* the initial currentRequestId, 0
  NoUser       \* activeUserId = null

ASSUME IdsAssumption ==
  /\ Flows \cap CaptureIds = {}
  /\ NoId \notin Flows \cup CaptureIds
ASSUME UsersAssumption == NoUser \notin Users

Ids == Flows \cup CaptureIds \cup {NoId}

VARIABLES
  isPublishing,      \* with publishingStartTime, which is set along with it
  currentRequestId,
  botState,
  activeUserId,
  shouldInterrupt,
  cooling,           \* less than 3 s since lastResponseTime
  aiMuted,
  standbyMode,
  hasActiveScreenShare,
  isVisionMode,
  pendingVisionRequest,  \* its requestId, or NoId
  overdue,           \* that request was sent more than 10 s ago
  processingLock,
  pc,                \* flow -> what it waits for
  job,               \* flow -> the branch it is in
  requestId,         \* flow -> its requestId
  userId,            \* flow -> the participant it answers
  thinkingTask,      \* flow -> the flow that says its thinking phrase, or itself
  forced,            \* isPublishing was cleared while another flow answered
  stranded           \* a failure has left botState at SPEAKING

gate == <<isPublishing, currentRequestId, forced>>
mood == <<botState, activeUserId, cooling, stranded>>
vision == <<isVisionMode, pendingVisionRequest, overdue, processingLock>>
settings == <<aiMuted, standbyMode, hasActiveScreenShare>>
flow == <<pc, job>>
identity == <<requestId, userId, thinkingTask>>
vars == <<gate, mood, vision, settings, shouldInterrupt, flow, identity>>

-----------------------------------------------------------------------------
Awaits == {"stt", "session", "lock", "work", "llm", "llmDone", "delay",
           "muted", "card", "synth", "tell", "play", "hush"}
Active(f) == pc[f] \in Awaits

\* The stages of speakAndPublish, and of the synthesis and playing in greetOnJoin.
Speech == {"muted", "card", "synth", "tell", "play", "hush"}

\* Branches of processAndRespond behind its isPublishing test. The first set is
\* under the general catch clause; the others have a try of their own.
PlainJobs == {"idea", "panel", "redirect", "stop", "askCapture", "board", "correct",
              "ready", "search", "answer", "timerError", "calendarError", "agentError"}
CalendarJobs == {"calendarNotice", "calendar", "calendarPanel"}
AgentJobs == {"agent", "agentAnswer"}
OpinionJobs == {"opinion", "evidence"}
AnswerJobs == PlainJobs \cup CalendarJobs \cup AgentJobs \cup OpinionJobs
                \cup {"timer", "interject"}
CaptureJobs == {"captureNotice", "capture", "captureError"}

\* The flows that have set isPublishing and have yet to clear it.
Answering(f) == Active(f) /\ job[f] \in AnswerJobs
Capturing(f) == Active(f) /\ job[f] \in CaptureJobs
Holding(f) == Active(f) /\ job[f] \in AnswerJobs \cup CaptureJobs \cup {"perplexity", "diagrams"}

Jobs == AnswerJobs \cup CaptureJobs
          \cup {"none", "hear", "announcement", "greeting", "message", "transcript",
                "perplexity", "response", "diagrams", "phrase"}

\* botState after the last words of a job, and what else the code sets there.
Arms == {"panel", "redirect", "board", "calendar", "calendarError", "timer", "timerError",
         "ready", "announcement", "interject", "diagrams", "phrase"}
ForgetsUser == {"stop", "answer", "agentAnswer", "agentError"}
Cools == {"panel", "redirect", "stop", "board", "calendar", "timer", "ready", "answer",
          "agentAnswer", "opinion", "greeting", "interject", "diagrams"} \cup CaptureJobs

-----------------------------------------------------------------------------
Init ==
  /\ isPublishing = FALSE
  /\ currentRequestId = NoId
  /\ botState = "SLEEP"
  /\ activeUserId = NoUser
  /\ shouldInterrupt = FALSE
  /\ cooling = FALSE
  /\ aiMuted = FALSE
  /\ standbyMode = FALSE
  /\ hasActiveScreenShare = FALSE
  /\ isVisionMode = FALSE
  /\ pendingVisionRequest = NoId
  /\ overdue = FALSE
  /\ processingLock = FALSE
  /\ pc = [f \in Flows |-> "idle"]
  /\ job = [f \in Flows |-> "none"]
  /\ requestId = [f \in Flows |-> NoId]
  /\ userId = [f \in Flows |-> NoUser]
  /\ thinkingTask = [f \in Flows |-> f]
  /\ forced = FALSE
  /\ stranded = FALSE

Go(f, label, j) ==
  /\ pc' = [pc EXCEPT ![f] = label]
  /\ job' = [job EXCEPT ![f] = j]

\* isPublishing = true, under a new currentRequestId.
Publish(f, id) ==
  /\ isPublishing' = TRUE
  /\ currentRequestId' = id
  /\ requestId' = [requestId EXCEPT ![f] = id]
  /\ UNCHANGED forced

\* isPublishing = false, by someone who does not look at currentRequestId.
ForceOpen(who) ==
  /\ isPublishing' = FALSE
  /\ forced' = (forced \/ \E g \in Flows \ who : Answering(g))
  /\ UNCHANGED currentRequestId

\* The finally clause of f's handler: processAndRespond clears isPublishing only
\* for the current request, the others always; two handlers never set it.
OwnRequestNever(f) == FALSE
OwnRequest(f) == currentRequestId = requestId[f]

Finally(f) ==
  \/ /\ job[f] \in AnswerJobs \ {"interject"}
     /\ isPublishing' = IF OwnRequest(f) THEN FALSE ELSE isPublishing
     /\ UNCHANGED <<currentRequestId, forced>>
  \/ /\ job[f] \in CaptureJobs \cup {"interject", "message", "transcript", "perplexity", "diagrams"}
     /\ ForceOpen({f})
  \/ /\ job[f] \in {"announcement", "greeting", "phrase"}
     /\ UNCHANGED gate

\* A flow that is over; that it was an announcement or the greeting still matters.
Over(f) == Go(f, "done", IF job[f] \in {"announcement", "greeting"} THEN job[f] ELSE "none")

End(f) == Over(f) /\ Finally(f)

\* Call speakAndPublish: silence under AI_MUTE, a text card with speaking off.
Speak(f, j) ==
  \E stage \in IF aiMuted THEN {"muted"} ELSE {"card", "synth"} : Go(f, stage, j)

\* resetVisionState and the rest of the capture's finally clause.
CaptureOver ==
  /\ isVisionMode' = FALSE
  /\ pendingVisionRequest' = NoId
  /\ overdue' = FALSE
  /\ processingLock' = FALSE

-----------------------------------------------------------------------------
(* What happens after speakAndPublish has returned.                        *)

\* More work, and more words after it.
SpokenNotice(f) ==
  /\ job[f] \in {"calendarNotice", "captureNotice"}
  /\ Go(f, "work", IF job[f] = "calendarNotice" THEN "calendar" ELSE "capture")
  /\ UNCHANGED <<gate, mood, vision>>

\* The answer is out; its data message is still to be sent. (There is none when
\* no slot was free, or the opinion has no evidence: SpokenLast.)
SpokenBeforePanel(f) ==
  /\ job[f] \in {"calendar", "opinion"}
  /\ botState' = IF job[f] = "calendar" THEN "ARMED" ELSE "SLEEP"
  /\ cooling' = TRUE
  /\ Go(f, "work", IF job[f] = "calendar" THEN "calendarPanel" ELSE "evidence")
  /\ UNCHANGED <<gate, activeUserId, stranded, vision>>

MoodStaysSpeaking(f) == botState
MoodAfter(f) == IF job[f] \in Arms THEN "ARMED" ELSE "SLEEP"

SpokenLast(f) ==
  /\ job[f] \notin {"calendarNotice", "captureNotice"}
  /\ botState' = MoodAfter(f)
  /\ activeUserId' = IF job[f] \in ForgetsUser THEN NoUser ELSE activeUserId
  /\ cooling' = (cooling \/ job[f] \in Cools)
  /\ IF job[f] \in CaptureJobs THEN CaptureOver ELSE UNCHANGED vision
  /\ End(f)
  /\ UNCHANGED stranded

Spoken(f) == SpokenNotice(f) \/ SpokenBeforePanel(f) \/ SpokenLast(f)

-----------------------------------------------------------------------------
(* What happens when an await of the handler throws.                       *)

\* The catch clause of processAndRespond.
FailPlain(f) ==
  /\ job[f] \in PlainJobs
  /\ botState' = "SLEEP"
  /\ activeUserId' = NoUser
  /\ End(f)
  /\ UNCHANGED <<cooling, stranded, vision>>

\* The branches that apologise.
FailApologising(f) ==
  /\ \/ /\ job[f] \in CalendarJobs
        /\ Speak(f, "calendarError")
        /\ UNCHANGED botState
     \/ /\ job[f] = "timer"
        /\ Speak(f, "timerError")
        /\ UNCHANGED botState
     \/ /\ job[f] \in AgentJobs
        /\ Speak(f, "agentError")
        /\ botState' = "SPEAKING"
     \/ /\ job[f] \in {"captureNotice", "capture"}
        /\ Speak(f, "captureError")
        /\ UNCHANGED botState
  /\ UNCHANGED <<gate, activeUserId, cooling, stranded, vision>>

\* The catch clauses that leave botState alone.
FailQuietly(f) ==
  /\ job[f] \in OpinionJobs \cup {"announcement", "diagrams", "message", "transcript"}
  /\ stranded' = (stranded \/ pc[f] \in Speech \/ job[f] = "diagrams")
  /\ End(f)
  /\ UNCHANGED <<botState, activeUserId, cooling, vision>>

\* The finally clauses that do what they do after success.
FailFinally(f) ==
  /\ job[f] \in {"interject", "perplexity", "captureError", "greeting"}
  /\ botState' = MoodAfter(f)
  /\ cooling' = (cooling \/ job[f] \in Cools \ {"greeting"})
  /\ IF job[f] = "captureError" THEN CaptureOver ELSE UNCHANGED vision
  /\ End(f)
  /\ UNCHANGED <<activeUserId, stranded>>

\* The thinking phrase throws in the flow that awaits it, if one still does. Before
\* the model has answered nobody awaits it yet and the rejection is unhandled; a
\* runtime that ends the process for that leaves nothing to model.
FailPhrase(f) ==
  /\ job[f] = "phrase"
  /\ stranded' = (stranded \/ ~\E g \in Flows \ {f} : thinkingTask[g] = f /\ pc[g] \in {"llm", "llmDone"})
  /\ Go(f, "failed", "phrase")
  /\ UNCHANGED <<gate, botState, activeUserId, cooling, vision>>

Fail(f) ==
  FailPlain(f) \/ FailApologising(f) \/ FailQuietly(f) \/ FailFinally(f) \/ FailPhrase(f)

-----------------------------------------------------------------------------
(* processAndRespond.                                                      *)

\* Voice detection has cut an utterance. Frames are thrown away while
\* isPublishing is set, and a bot in standby does not listen.
Heard(f, u) ==
  /\ pc[f] = "idle"
  /\ ~isPublishing
  /\ ~standbyMode
  /\ Go(f, "stt", "hear")
  /\ userId' = [userId EXCEPT ![f] = u]
  /\ UNCHANGED <<gate, mood, vision, settings, shouldInterrupt, requestId, thinkingTask>>

\* Ask the model, and say a thinking phrase after 700 ms unless hostOnlyMode is on
\* (or all flows of the instance are in use).
StartLlm(f) ==
  \/ Go(f, "llm", "search") /\ UNCHANGED thinkingTask
  \/ \E p \in Flows \ {f} :
       /\ pc[p] = "idle"
       /\ pc' = [pc EXCEPT ![f] = "llm", ![p] = "delay"]
       /\ job' = [job EXCEPT ![f] = "search", ![p] = "phrase"]
       /\ thinkingTask' = [thinkingTask EXCEPT ![f] = p]

AnswerQuestion(f) ==
  \/ Go(f, "work", "agent") /\ UNCHANGED thinkingTask
  \/ Go(f, "work", "search") /\ UNCHANGED thinkingTask
  \/ StartLlm(f)

\* From the wake word on: sections 5 to 7 of the handler.
Respond(f) ==
  \/ /\ Over(f)
     /\ UNCHANGED <<mood, thinkingTask>>
  \/ /\ botState = "SLEEP"
     /\ Go(f, "work", "opinion")
     /\ UNCHANGED <<mood, thinkingTask>>
  \/ /\ botState = "SLEEP"
     /\ botState' = "SPEAKING"
     /\ activeUserId' = userId[f]
     /\ Speak(f, "ready")
     /\ UNCHANGED <<cooling, stranded, thinkingTask>>
  \/ /\ botState = "SLEEP"
     /\ botState' = "ARMED"
     /\ activeUserId' = userId[f]
     /\ AnswerQuestion(f)
     /\ UNCHANGED <<cooling, stranded>>
  \/ /\ botState = "ARMED"
     /\ activeUserId \in {NoUser, userId[f]}
     /\ AnswerQuestion(f)
     /\ UNCHANGED mood

\* processVisionIntent: isVisionMode has just been seen to be off, so its branch
\* for an earlier request that is still pending is never taken.
AskCapture(f) ==
  /\ hasActiveScreenShare
  /\ \E c \in CaptureIds :
       /\ \A g \in Flows : requestId[g] # c
       /\ pendingVisionRequest' = c
  /\ isVisionMode' = TRUE
  /\ overdue' = FALSE
  /\ Go(f, "work", "askCapture")
  /\ UNCHANGED <<mood, processingLock, thinkingTask>>

\* The branches ahead of the wake word: modes, stop words, intents.
Branch(f) ==
  \/ /\ \E j \in {"idea", "board", "timer", "correct"} : Go(f, "work", j)
     /\ UNCHANGED <<mood, vision, thinkingTask>>
  \/ /\ \/ Go(f, "work", "panel")
        \/ Speak(f, "redirect")
        \/ botState # "SLEEP" /\ Speak(f, "stop")
        \/ Speak(f, "calendarNotice")
     /\ botState' = "SPEAKING"
     /\ UNCHANGED <<activeUserId, cooling, stranded, vision, thinkingTask>>
  \/ AskCapture(f)
  \/ Respond(f) /\ UNCHANGED vision

\* Past the three tests: the request becomes the current one.
Admit(f) ==
  /\ Branch(f)
  /\ currentRequestId' = f
  /\ requestId' = [requestId EXCEPT ![f] = f]
  /\ isPublishing' = (pc'[f] # "done")
  /\ UNCHANGED forced

NeverPublishing == FALSE
AlreadyPublishing == isPublishing

Consider(f) ==
  /\ \/ /\ AlreadyPublishing
        /\ Over(f)
        /\ UNCHANGED <<gate, mood, vision, requestId, thinkingTask>>
     \/ /\ ~AlreadyPublishing
        /\ isVisionMode
        /\ Go(f, "deaf", "hear")
        /\ UNCHANGED <<gate, mood, vision, requestId, thinkingTask>>
     \/ /\ ~AlreadyPublishing
        /\ ~isVisionMode
        /\ cooling
        /\ Over(f)
        /\ UNCHANGED <<gate, mood, vision, requestId, thinkingTask>>
     \/ /\ ~AlreadyPublishing
        /\ ~isVisionMode
        /\ ~cooling
        /\ Admit(f)
  /\ UNCHANGED <<settings, shouldInterrupt, userId>>

\* Recognition failed or heard nothing, or perplexity mode takes the text first.
Unrecognised(f) ==
  /\ pc[f] = "stt"
  /\ Over(f) \/ Go(f, "session", "hear")
  /\ UNCHANGED <<gate, mood, vision, settings, shouldInterrupt, identity>>

Recognised(f) == pc[f] = "stt" /\ Consider(f)

\* The perplexity session has an intervention to make.
Interject(f) ==
  /\ pc[f] = "session"
  /\ job[f] = "hear"
  /\ ~isPublishing
  /\ botState # "SPEAKING"
  /\ Publish(f, f)
  /\ botState' = "SPEAKING"
  /\ Speak(f, "interject")
  /\ UNCHANGED <<activeUserId, cooling, stranded, vision, settings, shouldInterrupt,
                 userId, thinkingTask>>

\* It has none, or the bot is busy.
NoIntervention(f) == pc[f] = "session" /\ job[f] = "hear" /\ Consider(f)

SessionFails(f) ==
  /\ pc[f] = "session"
  /\ job[f] = "hear"
  /\ Over(f)
  /\ UNCHANGED <<gate, mood, vision, settings, shouldInterrupt, identity>>

-----------------------------------------------------------------------------
(* Awaits that end well, in the order of the branches.                     *)

\* The last await of a branch that has nothing more to say.
WorkEnds(f) ==
  /\ pc[f] = "work"
  /\ \/ job[f] \in {"idea", "askCapture", "calendarPanel", "opinion", "evidence"}
     \/ job[f] = "agent" /\ ~OwnRequest(f)
  /\ End(f)
  /\ UNCHANGED <<mood, vision, settings, shouldInterrupt, identity>>

Corrected(f) ==
  /\ pc[f] = "work"
  /\ job[f] = "correct"
  /\ Respond(f)
  /\ isPublishing' = IF pc'[f] = "done" /\ OwnRequest(f) THEN FALSE ELSE isPublishing
  /\ UNCHANGED <<currentRequestId, forced, vision, settings, shouldInterrupt,
                 requestId, userId>>

\* What was awaited is there, and is spoken.
WorkSpoken(f) ==
  /\ pc[f] = "work"
  /\ \/ /\ job[f] \in {"panel", "calendar", "capture", "diagrams"}
        /\ UNCHANGED <<botState, shouldInterrupt>>
     \/ /\ job[f] \in {"board", "timer", "opinion"}
        /\ botState' = "SPEAKING"
        /\ UNCHANGED shouldInterrupt
     \/ /\ job[f] \in {"agentAnswer", "answer"}
        /\ botState' = "SPEAKING"
        /\ shouldInterrupt' = FALSE
  /\ Speak(f, job[f])
  /\ UNCHANGED <<gate, activeUserId, cooling, stranded, vision, settings, identity>>

\* An answer that is still wanted: its search results are sent, or it is spoken.
Deliver(f, j) ==
  \/ /\ Go(f, "work", j)
     /\ UNCHANGED <<botState, shouldInterrupt>>
  \/ /\ Speak(f, j)
     /\ botState' = "SPEAKING"
     /\ shouldInterrupt' = FALSE

AgentAnswers(f) ==
  /\ pc[f] = "work"
  /\ job[f] = "agent"
  /\ OwnRequest(f)
  /\ Deliver(f, "agentAnswer")
  /\ UNCHANGED <<gate, activeUserId, cooling, stranded, vision, settings, identity>>

SearchPlanned(f) ==
  /\ pc[f] = "work"
  /\ job[f] = "search"
  /\ StartLlm(f)
  /\ UNCHANGED <<gate, mood, vision, settings, shouldInterrupt, requestId, userId>>

\* thinkingTask wakes up: it speaks only if the model has not answered yet.
PhraseDue(f, p) ==
  /\ pc[p] = "delay"
  /\ thinkingTask[f] = p
  /\ IF pc[f] = "llm" /\ OwnRequest(f)
     THEN /\ botState' = "SPEAKING"
          /\ requestId' = [requestId EXCEPT ![p] = requestId[f]]
          /\ Speak(p, "phrase")
     ELSE /\ Over(p)
          /\ UNCHANGED <<botState, requestId>>
  /\ UNCHANGED <<gate, activeUserId, cooling, stranded, vision, settings,
                 shouldInterrupt, userId, thinkingTask>>

LlmAnswers(f) ==
  /\ pc[f] = "llm"
  /\ Go(f, "llmDone", job[f])
  /\ UNCHANGED <<gate, mood, vision, settings, shouldInterrupt, identity>>

PhraseOver(f) == thinkingTask[f] = f \/ pc[thinkingTask[f]] = "done"

SearchAnswers(f) ==
  /\ pc[f] = "llmDone"
  /\ PhraseOver(f)
  /\ \/ /\ OwnRequest(f)
        /\ Deliver(f, "answer")
        /\ UNCHANGED gate
     \/ /\ ~OwnRequest(f)
        /\ End(f)
        /\ UNCHANGED <<botState, shouldInterrupt>>
  /\ UNCHANGED <<activeUserId, cooling, stranded, vision, settings, identity>>

-----------------------------------------------------------------------------
(* speakAndPublish and publishAudio.                                       *)

\* Another request has become current since f asked for its words.
Superseded(f) == currentRequestId \notin {requestId[f], NoId}

Synthesised(f) ==
  /\ pc[f] = "synth"
  /\ IF job[f] = "greeting"
     THEN Go(f, "play", job[f]) /\ UNCHANGED shouldInterrupt
     ELSE ~Superseded(f) /\ Go(f, "tell", job[f]) /\ shouldInterrupt' = FALSE
  /\ UNCHANGED <<gate, mood, vision, settings, identity>>

Told(f) ==
  /\ pc[f] = "tell"
  /\ Go(f, "play", job[f])
  /\ UNCHANGED <<gate, mood, vision, settings, shouldInterrupt, identity>>

\* The last frame is sent, or a frame finds shouldInterrupt and clears it.
Played(f) ==
  /\ pc[f] = "play"
  /\ shouldInterrupt' = FALSE
  /\ IF job[f] = "greeting"
     THEN SpokenLast(f)
     ELSE Go(f, "hush", job[f]) /\ UNCHANGED <<gate, mood, vision>>
  /\ UNCHANGED <<settings, identity>>

\* Nothing was to be played, or it has been played. The greeting returns from
\* synth when its audio is empty, the other words when they are superseded.
SpeechReturns(f) ==
  /\ \/ pc[f] \in {"muted", "card", "hush"}
     \/ pc[f] = "synth" /\ (job[f] = "greeting" \/ Superseded(f))
  /\ Spoken(f)
  /\ UNCHANGED <<settings, shouldInterrupt, identity>>

AwaitFails(f) ==
  /\ \/ pc[f] \in {"work", "llm", "card", "synth", "tell", "hush"}
     \/ pc[f] = "session" /\ job[f] \in {"message", "transcript"}
     \/ pc[f] = "llmDone" /\ pc[thinkingTask[f]] = "failed"
  /\ Fail(f)
  /\ UNCHANGED <<settings, shouldInterrupt, identity>>

-----------------------------------------------------------------------------
(* The other handlers that speak.                                          *)

\* The timer callback sends its alert, takes the next request id, and speaks;
\* it does not set isPublishing.
TimerAlert(f) ==
  /\ pc[f] = "idle"
  /\ Go(f, "work", "announcement")
  /\ UNCHANGED <<gate, mood, vision, settings, shouldInterrupt, identity>>

TimerAlertSent(f) ==
  /\ pc[f] = "work"
  /\ job[f] = "announcement"
  /\ IF aiMuted
     THEN /\ Over(f)
          /\ UNCHANGED <<currentRequestId, requestId, botState>>
     ELSE /\ currentRequestId' = f
          /\ requestId' = [requestId EXCEPT ![f] = f]
          /\ botState' = "SPEAKING"
          /\ Speak(f, "announcement")
  /\ UNCHANGED <<isPublishing, forced, activeUserId, cooling, stranded, vision, settings,
                 shouldInterrupt, userId, thinkingTask>>

\* greetOnJoin, once per context.
GreetOnJoin(f) ==
  /\ pc[f] = "idle"
  /\ \A g \in Flows : job[g] # "greeting"
  /\ ~aiMuted
  /\ botState' = "SPEAKING"
  /\ Go(f, "synth", "greeting")
  /\ UNCHANGED <<gate, activeUserId, cooling, stranded, vision, settings, shouldInterrupt,
                 identity>>

\* handlePerplexityMessage: the only test of the flags is ahead of the awaits. While the
\* bot speaks or publishes a TRANSCRIPT is still handled, but not answered.
PerplexityMessage(f) ==
  /\ pc[f] = "idle"
  /\ Go(f, "session",
        IF isPublishing \/ botState = "SPEAKING" THEN "transcript" ELSE "message")
  /\ UNCHANGED <<gate, mood, vision, settings, shouldInterrupt, identity>>

MessageHandled(f) ==
  /\ \/ job[f] = "message" /\ pc[f] \in {"session", "work"} /\ Over(f)
     \/ job[f] = "message" /\ pc[f] = "session" /\ Go(f, "work", "message")
     \/ job[f] = "transcript" /\ pc[f] = "session" /\ Over(f)
  /\ UNCHANGED <<gate, mood, vision, settings, shouldInterrupt, identity>>

MessageAnswered(f) ==
  /\ pc[f] = "work"
  /\ job[f] = "message"
  /\ Publish(f, f)
  /\ botState' = "SPEAKING"
  /\ Speak(f, "perplexity")
  /\ UNCHANGED <<activeUserId, cooling, stranded, vision, settings, shouldInterrupt,
                 userId, thinkingTask>>

ExplainGeneratedDiagrams(f) ==
  /\ pc[f] = "idle"
  /\ ~isPublishing
  /\ Publish(f, f)
  /\ botState' = "SPEAKING"
  /\ Go(f, "work", "diagrams") \/ Speak(f, "diagrams")
  /\ UNCHANGED <<activeUserId, cooling, stranded, vision, settings, shouldInterrupt,
                 userId, thinkingTask>>

\* handleVisionCaptureResponse, with the lock: an image that fails validation is
\* only apologised for; hostOnlyMode skips the first words.
BeginCapture(f, id) ==
  /\ processingLock' = TRUE
  /\ Publish(f, id)
  /\ \/ Speak(f, "captureError") /\ UNCHANGED botState
     \/ Speak(f, "captureNotice") /\ botState' = "SPEAKING"
     \/ Go(f, "work", "capture") /\ botState' = "SPEAKING"
  /\ UNCHANGED <<activeUserId, cooling, stranded, isVisionMode, pendingVisionRequest,
                 overdue, settings, shouldInterrupt, userId, thinkingTask>>

NeverLocked == FALSE
Locked == processingLock

\* A response to the pending request arrives, over the data channel or HTTP.
CaptureResponse(f) ==
  /\ pc[f] = "idle"
  /\ pendingVisionRequest # NoId
  /\ IF Locked
     THEN /\ Go(f, "lock", "response")
          /\ requestId' = [requestId EXCEPT ![f] = pendingVisionRequest]
          /\ UNCHANGED <<gate, mood, vision, settings, shouldInterrupt, userId, thinkingTask>>
     ELSE BeginCapture(f, pendingVisionRequest)

LockFreed(f) ==
  /\ pc[f] = "lock"
  /\ ~Locked
  /\ BeginCapture(f, requestId[f])

\* Two seconds later the lock is still held: resetVisionState, and give up.
LockTimeout(f) ==
  /\ pc[f] = "lock"
  /\ Locked
  /\ botState' = "SLEEP"
  /\ isVisionMode' = FALSE
  /\ pendingVisionRequest' = NoId
  /\ overdue' = FALSE
  /\ Over(f)
  /\ UNCHANGED <<gate, activeUserId, cooling, stranded, processingLock, settings,
                 shouldInterrupt, identity>>

-----------------------------------------------------------------------------
(* Participants, data messages and timers.                                 *)

AiMute(muted) ==
  /\ aiMuted' = muted
  /\ shouldInterrupt' = (shouldInterrupt \/ muted)
  /\ UNCHANGED <<gate, mood, vision, standbyMode, hasActiveScreenShare, flow, identity>>

\* Only the active user, if there is one, may interrupt the bot.
BargeIn(u) ==
  /\ isPublishing
  /\ botState = "SPEAKING"
  /\ activeUserId \in {NoUser, u}
  /\ shouldInterrupt' = TRUE
  /\ UNCHANGED <<gate, mood, vision, settings, flow, identity>>

\* A frame finds that isPublishing has been set for 60 seconds.
PublishingTimeout ==
  /\ isPublishing
  /\ ForceOpen({})
  /\ UNCHANGED <<mood, vision, settings, shouldInterrupt, flow, identity>>

ArmedTimeout ==
  /\ botState = "ARMED"
  /\ botState' = "SLEEP"
  /\ activeUserId' = NoUser
  /\ UNCHANGED <<gate, cooling, stranded, vision, settings, shouldInterrupt, flow, identity>>

EnterStandbyMode ==
  /\ ~standbyMode
  /\ standbyMode' = TRUE
  /\ botState' = "SLEEP"
  /\ UNCHANGED <<gate, activeUserId, cooling, stranded, vision, aiMuted,
                 hasActiveScreenShare, shouldInterrupt, flow, identity>>

ScreenShareStarts ==
  /\ hasActiveScreenShare' = TRUE
  /\ UNCHANGED <<gate, mood, vision, aiMuted, standbyMode, shouldInterrupt, flow, identity>>

\* The pending request is kept.
ScreenShareEnds ==
  /\ hasActiveScreenShare' = FALSE
  /\ isVisionMode' = FALSE
  /\ UNCHANGED <<gate, mood, pendingVisionRequest, overdue, processingLock, aiMuted,
                 standbyMode, shouldInterrupt, flow, identity>>

\* Three seconds after an answer; ten seconds after a capture request.
CooldownOver ==
  /\ cooling
  /\ cooling' = FALSE
  /\ UNCHANGED <<gate, botState, activeUserId, stranded, vision, settings,
                 shouldInterrupt, flow, identity>>

CaptureOverdue ==
  /\ pendingVisionRequest # NoId
  /\ overdue' = TRUE
  /\ UNCHANGED <<gate, mood, isVisionMode, pendingVisionRequest, processingLock, settings,
                 shouldInterrupt, flow, identity>>

-----------------------------------------------------------------------------
Start(f) ==
  \/ \E u \in Users : Heard(f, u)
  \/ TimerAlert(f) \/ GreetOnJoin(f) \/ PerplexityMessage(f)
  \/ ExplainGeneratedDiagrams(f) \/ CaptureResponse(f)

\* What the awaits of f lead to.
Settle(f) ==
  \/ Unrecognised(f) \/ Recognised(f)
  \/ Interject(f) \/ NoIntervention(f) \/ SessionFails(f)
  \/ WorkEnds(f) \/ Corrected(f) \/ WorkSpoken(f)
  \/ AgentAnswers(f) \/ SearchPlanned(f)
  \/ \E g \in Flows : PhraseDue(g, f)
  \/ LlmAnswers(f) \/ SearchAnswers(f)
  \/ Synthesised(f) \/ Told(f) \/ Played(f) \/ SpeechReturns(f) \/ AwaitFails(f)
  \/ TimerAlertSent(f) \/ MessageHandled(f) \/ MessageAnswered(f)
  \/ LockFreed(f) \/ LockTimeout(f)

Environment ==
  \/ \E muted \in BOOLEAN : AiMute(muted)
  \/ \E u \in Users : BargeIn(u)
  \/ PublishingTimeout \/ ArmedTimeout \/ EnterStandbyMode
  \/ ScreenShareStarts \/ ScreenShareEnds
  \/ CooldownOver \/ CaptureOverdue

Next == Environment \/ \E f \in Flows : Start(f) \/ Settle(f)

Spec == Init /\ [][Next]_vars

\* Every await settles. Nobody has to speak or to send anything, and the 60 second
\* reset, which needs somebody's audio frames, is not relied upon.
FairSpec == Spec /\ \A f \in Flows : WF_vars(Settle(f))

-----------------------------------------------------------------------------
Labels == Awaits \cup {"idle", "done", "deaf", "failed"}

Types ==
  /\ currentRequestId \in Ids
  /\ botState \in {"SLEEP", "ARMED", "SPEAKING"}
  /\ activeUserId \in Users \cup {NoUser}
  /\ pendingVisionRequest \in CaptureIds \cup {NoId}
  /\ pc \in [Flows -> Labels]
  /\ job \in [Flows -> Jobs]
  /\ requestId \in [Flows -> Ids]
  /\ userId \in [Flows -> Users \cup {NoUser}]
  /\ thinkingTask \in [Flows -> Flows]

Flags ==
  /\ isPublishing \in BOOLEAN
  /\ shouldInterrupt \in BOOLEAN
  /\ cooling \in BOOLEAN
  /\ aiMuted \in BOOLEAN
  /\ standbyMode \in BOOLEAN
  /\ hasActiveScreenShare \in BOOLEAN
  /\ isVisionMode \in BOOLEAN
  /\ overdue \in BOOLEAN
  /\ processingLock \in BOOLEAN
  /\ forced \in BOOLEAN
  /\ stranded \in BOOLEAN

\* The bot is in vision mode only while a capture request is pending.
VisionAwaits == isVisionMode => pendingVisionRequest # NoId

\* Every variable has its shape, and vision mode its request.
TypeOK == Types /\ Flags /\ VisionAwaits

\* Which jobs a flow can have where it stands, and that a capture lock, and
\* isPublishing when nobody forces it, are held by the one flow that needs them:
\* what the properties below rest on.
Shape ==
  \A f \in Flows :
    /\ pc[f] = "idle" => job[f] = "none"
    /\ pc[f] \in {"stt", "deaf"} => job[f] = "hear"
    /\ pc[f] = "session" => job[f] \in {"hear", "message", "transcript"}
    /\ pc[f] = "lock" => job[f] = "response"
    /\ pc[f] \in {"llm", "llmDone"} => job[f] = "search"
    /\ pc[f] \in {"delay", "failed"} => job[f] = "phrase"
    /\ pc[f] = "done" => job[f] \in {"none", "announcement", "greeting"}
    /\ pc[f] = "work" =>
         job[f] \in {"idea", "panel", "askCapture", "board", "correct", "search", "answer",
                    "calendar", "calendarPanel", "agent", "agentAnswer", "opinion",
                    "evidence", "timer", "announcement", "message", "capture", "diagrams"}
    /\ pc[f] \in Speech =>
         job[f] \notin {"none", "hear", "message", "transcript", "response", "idea", "askCapture",
                       "correct", "search", "agent", "calendarPanel", "evidence"}

AnswerHolds ==
  \A f, g \in Flows : Answering(f) /\ Answering(g) /\ ~forced => f = g /\ isPublishing

CaptureLocks ==
  \A f, g \in Flows : Capturing(f) /\ Capturing(g) => f = g /\ processingLock

\* isPublishing, which makes the bot deaf, is never left set by accident: the flow
\* whose request is current is still going to clear it, unless a timer announcement
\* has taken the request id without taking isPublishing.
PublishingHasOwner ==
  isPublishing =>
    \E f \in Flows : /\ requestId[f] = currentRequestId
                     /\ Holding(f) \/ job[f] = "announcement"

\* Two utterances are never answered at the same time, unless isPublishing was
\* cleared under a running answer by one of the handlers that do not look whose it
\* is (perplexity messages, diagrams, captures, the 60 second reset).
AnswersTakeTurns ==
  \A f, g \in Flows : Answering(f) /\ Answering(g) => f = g \/ forced

\* Where botState is SPEAKING, or will be reset when an await ends.
Speaks(f) ==
  \/ pc[f] \in Speech
  \/ pc[f] = "work" /\ job[f] \in {"panel", "calendar", "capture", "diagrams"}
  \/ pc[f] \in {"llm", "llmDone"} /\ pc[thinkingTask[f]] = "failed"

\* The bot is in the SPEAKING state, in which it ignores questions, only while a
\* flow speaks that will take it out again, unless the speech of a timer
\* announcement, an opinion, a diagram explanation or an abandoned thinking phrase
\* failed.
SpeakingHasSpeaker ==
  botState = "SPEAKING" => stranded \/ \E f \in Flows : Speaks(f)

\* Two capture responses (the data channel and HTTP may both deliver one) are never
\* analysed at the same time.
CapturesTakeTurns ==
  \A f, g \in Flows : Capturing(f) /\ Capturing(g) => f = g

\* isPublishing is cleared again, or its request id is taken by an announcement,
\* without the help of the 60 second reset.
PublishingEnds ==
  isPublishing ~>
    (~isPublishing \/ \E f \in Flows : requestId[f] = currentRequestId /\ job[f] = "announcement")

\* "Back to SLEEP safely on an error" (voice-bot.service.ts:3337), "back to SLEEP
\* after offering an opinion" (4778): the bot does not stay in SPEAKING.
SpeakingEnds == botState = "SPEAKING" ~> botState # "SPEAKING"

\* "Reset and start again after 10 seconds without a response"
\* (voice-bot.service.ts:4206): an overdue capture does not turn utterances away.
OverdueCaptureGivesWay ==
  [][\A f \in Flows : pc[f] # "deaf" /\ pc'[f] = "deaf" => ~overdue]_vars
=============================================================================
