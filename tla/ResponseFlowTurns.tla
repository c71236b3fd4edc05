------------------------- MODULE ResponseFlowTurns --------------------------
(***************************************************************************)
(* ResponseFlow: who holds isPublishing, and that answers take turns, for  *)
(* every number of flows, participants and capture requests.  Laid out as  *)
(* ResponseFlowTypes.                                                      *)
(***************************************************************************)
EXTENDS ResponseFlow, TLAPS

\* What processAndRespond does to the flows once it has the floor: f stops or goes
\* on as an answer, and at most one idle flow becomes its thinking phrase.
Proceeds(f) ==
  /\ pc'[f] = "done" \/ (pc'[f] \in Awaits /\ job'[f] \in AnswerJobs)
  /\ job'[f] # "announcement"
  /\ \A g \in Flows \ {f} :
       \/ pc'[g] = pc[g] /\ job'[g] = job[g]
       \/ pc[g] = "idle" /\ pc'[g] = "delay" /\ job'[g] = "phrase"

\* Sections 5 to 7 of processAndRespond do what Proceeds says.
LEMMA RespondProceeds ==
  ASSUME Types, NEW f \in Flows, job[f] \in {"hear", "correct"}, Respond(f)
  PROVE  Proceeds(f)
  <1> USE DEF Types, Proceeds, Awaits, AnswerJobs, PlainJobs, CalendarJobs, AgentJobs,
      OpinionJobs
  <1>1. ASSUME StartLlm(f) PROVE Proceeds(f)
    BY <1>1 DEF StartLlm, Go
  <1>2. ASSUME AnswerQuestion(f) PROVE Proceeds(f)
    BY <1>1, <1>2 DEF AnswerQuestion, Go
  <1>3. ASSUME Over(f) PROVE Proceeds(f)
    BY <1>3 DEF Over, Go
  <1>4. ASSUME Go(f, "work", "opinion") \/ Speak(f, "ready") PROVE Proceeds(f)
    BY <1>4 DEF Speak, Go
  <1> QED BY <1>2, <1>3, <1>4 DEF Respond

\* So do the branches ahead of them.
LEMMA BranchProceeds ==
  ASSUME Types, NEW f \in Flows, job[f] = "hear", Branch(f)
  PROVE  Proceeds(f)
  <1> USE DEF Types, Proceeds, Awaits, AnswerJobs, PlainJobs, CalendarJobs, AgentJobs,
      OpinionJobs
  <1>1. ASSUME NEW j \in {"idea", "board", "timer", "correct", "panel", "askCapture"},
         Go(f, "work", j)
        PROVE  Proceeds(f)
    BY <1>1 DEF Go
  <1>2. ASSUME NEW j \in {"redirect", "stop", "calendarNotice"}, Speak(f, j)
        PROVE  Proceeds(f)
    BY <1>2 DEF Speak, Go
  <1> QED BY <1>1, <1>2, RespondProceeds DEF Branch, AskCapture

\* Participants and timers move no flow, and only the 60 second reset touches the gate.
LEMMA EnvironmentFrame ==
  ASSUME Environment
  PROVE  /\ UNCHANGED <<flow, identity, processingLock, stranded>>
         /\ UNCHANGED gate \/ PublishingTimeout
         /\ botState' = "SPEAKING" => botState = "SPEAKING"
  BY DEF Environment, AiMute, BargeIn, PublishingTimeout, ArmedTimeout,
      EnterStandbyMode,
      ScreenShareStarts, ScreenShareEnds, CooldownOver, CaptureOverdue, mood, vision

-----------------------------------------------------------------------------
(* PublishingHasOwner.                                                     *)

\* The end of a handler, with its finally clause keeps PublishingHasOwner.
LEMMA EndPublishingHasOwner ==
  ASSUME Types, Shape, PublishingHasOwner, NEW f \in Flows, Active(f), End(f),
         UNCHANGED requestId
  PROVE  PublishingHasOwner'
  <1>1. CASE isPublishing' = (IF OwnRequest(f) THEN FALSE ELSE isPublishing) /\ UNCHANGED currentRequestId
    BY <1>1 DEF End, Over, Go, OwnRequest, PublishingHasOwner, Holding, Active, Types
  <1>2. CASE ForceOpen({f})
    BY <1>2 DEF PublishingHasOwner, ForceOpen
  <1>3. CASE job[f] \in {"announcement", "greeting", "phrase"} /\ UNCHANGED gate
    BY <1>3 DEF End, Over, Go, PublishingHasOwner, gate, Holding, Active, Types,
        AnswerJobs, PlainJobs, CalendarJobs, AgentJobs, OpinionJobs, CaptureJobs
  <1> QED BY <1>1, <1>2, <1>3 DEF End, Finally

\* What processAndRespond does after recognition keeps PublishingHasOwner.
LEMMA ConsiderPublishingHasOwner ==
  ASSUME Types, Shape, PublishingHasOwner, NEW f \in Flows, job[f] = "hear", Consider(f)
  PROVE  PublishingHasOwner'
  <1>1. ASSUME UNCHANGED <<gate, requestId>>, Over(f) \/ Go(f, "deaf", "hear")
        PROVE  PublishingHasOwner'
    BY <1>1 DEF Over, Go, gate, PublishingHasOwner, Holding, Types, AnswerJobs,
        PlainJobs, CalendarJobs, AgentJobs, OpinionJobs, CaptureJobs, Active
  <1>2. ASSUME Admit(f) PROVE PublishingHasOwner'
    <2>1. Proceeds(f)
      BY <1>2, BranchProceeds DEF Admit
    <2>2. isPublishing' => Holding(f)'
      BY <1>2, <2>1 DEF Admit, Proceeds, Holding, Active
    <2> QED BY <1>2, <2>2 DEF Admit, PublishingHasOwner, Types
  <1> QED BY <1>1, <1>2 DEF Consider

\* A corrected text keeps PublishingHasOwner.
LEMMA CorrectedPublishingHasOwner ==
  ASSUME Types, Shape, PublishingHasOwner, NEW f \in Flows, Corrected(f)
  PROVE  PublishingHasOwner'
  <1>1. Proceeds(f)
    BY RespondProceeds DEF Corrected
  <1>2. CASE ~isPublishing'
    BY <1>2 DEF PublishingHasOwner
  <1>3. CASE isPublishing'
    <2>1. isPublishing /\ UNCHANGED <<currentRequestId, requestId>>
      BY <1>3 DEF Corrected
    <2>2. PICK g \in Flows : requestId[g] = currentRequestId /\ (Holding(g) \/ job[g] = "announcement")
      BY <2>1 DEF PublishingHasOwner
    <2>3. (Holding(g) \/ job[g] = "announcement")'
      BY <1>1, <1>3, <2>1, <2>2 DEF Corrected, OwnRequest, Proceeds, Holding, Active,
          Shape, Awaits
    <2> QED BY <2>1, <2>2, <2>3 DEF PublishingHasOwner
  <1> QED BY <1>2, <1>3

\* The return of speakAndPublish keeps PublishingHasOwner.
LEMMA SpokenPublishingHasOwner ==
  ASSUME Types, Shape, PublishingHasOwner, NEW f \in Flows, Active(f), Spoken(f),
         UNCHANGED identity
  PROVE  PublishingHasOwner'
  <1> USE DEF Types, PublishingHasOwner, Holding, Active, Awaits, AnswerJobs,
      PlainJobs, CalendarJobs, AgentJobs, OpinionJobs, CaptureJobs
  <1>1. CASE SpokenNotice(f)
    BY <1>1 DEF SpokenNotice, Go, gate, identity
  <1>2. CASE SpokenBeforePanel(f)
    BY <1>2 DEF SpokenBeforePanel, Go, gate, identity
  <1>3. CASE SpokenLast(f)
    BY <1>3, EndPublishingHasOwner DEF SpokenLast, identity
  <1> QED BY <1>1, <1>2, <1>3 DEF Spoken

\* Each catch clause keeps PublishingHasOwner.
LEMMA FailPublishingHasOwner ==
  ASSUME Types, Shape, PublishingHasOwner, NEW f \in Flows, Active(f), Fail(f),
         UNCHANGED identity
  PROVE  PublishingHasOwner'
  <1> USE DEF Types, PublishingHasOwner, Holding, Active, Awaits, AnswerJobs,
      PlainJobs, CalendarJobs, AgentJobs, OpinionJobs, CaptureJobs
  <1>1. CASE End(f)
    BY <1>1, EndPublishingHasOwner DEF identity
  <1>2. CASE FailApologising(f)
    BY <1>2 DEF FailApologising, Speak, Go, gate, identity
  <1>3. CASE FailPhrase(f)
    BY <1>3 DEF FailPhrase, Go, gate, identity
  <1> QED BY <1>1, <1>2, <1>3 DEF Fail, FailPlain, FailQuietly, FailFinally

\* The answer of the model keeps PublishingHasOwner.
LEMMA SearchAnswersPublishingHasOwner ==
  ASSUME Types, Shape, PublishingHasOwner, NEW f \in Flows, SearchAnswers(f)
  PROVE  PublishingHasOwner'
  <1>0. Active(f) /\ job[f] = "search"
    BY DEF SearchAnswers, Active, Awaits, Shape
  <1>1. CASE Deliver(f, "answer") /\ UNCHANGED gate
    BY <1>0, <1>1 DEF SearchAnswers, Deliver, Speak, Go, gate, identity, Types,
        PublishingHasOwner, Holding, Active, Awaits, AnswerJobs, PlainJobs
  <1>2. CASE End(f)
    BY <1>0, <1>2, EndPublishingHasOwner DEF SearchAnswers, identity
  <1> QED BY <1>1, <1>2 DEF SearchAnswers

\* A capture response with the lock keeps PublishingHasOwner.
LEMMA BeginCapturePublishingHasOwner ==
  ASSUME Types, NEW f \in Flows, NEW id \in Ids, BeginCapture(f, id)
  PROVE  PublishingHasOwner'
  <1>1. Holding(f)'
    BY DEF BeginCapture, Speak, Go, Types, Holding, Active, Awaits, CaptureJobs
  <1> QED BY <1>1 DEF BeginCapture, Publish, Types, PublishingHasOwner

\* The end of the playing keeps PublishingHasOwner.
LEMMA PlayedPublishingHasOwner ==
  ASSUME Types, Shape, PublishingHasOwner, NEW f \in Flows, Played(f)
  PROVE  PublishingHasOwner'
  <1>1. CASE job[f] = "greeting"
    <2>1. Active(f) /\ SpokenLast(f)
      BY <1>1 DEF Played, Active, Awaits
    <2> QED BY <2>1, EndPublishingHasOwner DEF Played, SpokenLast, identity
  <1>2. CASE job[f] # "greeting"
    <2>1. \A g \in Flows : (Holding(g) => Holding(g)') /\ job'[g] = job[g]
      BY <1>2 DEF Played, Go, Holding, Active, Awaits, Types
    <2> QED BY <1>2, <2>1 DEF Played, gate, identity, PublishingHasOwner
  <1> QED BY <1>1, <1>2

\* A capture response keeps PublishingHasOwner.
LEMMA CaptureResponsePublishingHasOwner ==
  ASSUME Types, Shape, PublishingHasOwner, NEW f \in Flows, CaptureResponse(f)
  PROVE  PublishingHasOwner'
  <1>1. CASE Locked
    <2>1. \A g \in Flows : Holding(g) \/ job[g] = "announcement" => g # f
      BY DEF CaptureResponse, Holding, Active, Awaits, Shape
    <2>2. \A g \in Flows \ {f} : /\ pc'[g] = pc[g] /\ job'[g] = job[g]
                                 /\ requestId'[g] = requestId[g]
      BY <1>1 DEF CaptureResponse, Go, Types
    <2>3. \A g \in Flows \ {f} : Holding(g) => Holding(g)'
      BY <2>2 DEF Holding, Active
    <2> QED BY <1>1, <2>1, <2>2, <2>3 DEF CaptureResponse, gate, PublishingHasOwner
  <1>2. CASE ~Locked
    BY <1>2, BeginCapturePublishingHasOwner DEF CaptureResponse, Ids, Types
  <1> QED BY <1>1, <1>2

\* What participants and timers do keeps PublishingHasOwner.
LEMMA PublishingHasOwnerEnvironment ==
  ASSUME PublishingHasOwner, Environment
  PROVE  PublishingHasOwner'
  <1>1. \A f \in Flows : Holding(f)' <=> Holding(f)
    BY EnvironmentFrame DEF flow, Holding, Active
  <1>2. CASE UNCHANGED gate
    BY <1>1, <1>2, EnvironmentFrame DEF gate, flow, identity, PublishingHasOwner
  <1>3. CASE PublishingTimeout
    BY <1>3 DEF PublishingTimeout, ForceOpen, PublishingHasOwner
  <1> QED BY <1>2, <1>3, EnvironmentFrame

\* The start of every kind of flow keeps PublishingHasOwner.
LEMMA PublishingHasOwnerStarts ==
  ASSUME Types, Shape, PublishingHasOwner, NEW f \in Flows,
        (\E u \in Users : Heard(f, u)) \/ TimerAlert(f) \/ GreetOnJoin(f)
         \/ PerplexityMessage(f) \/ ExplainGeneratedDiagrams(f)
         \/ CaptureResponse(f)
  PROVE  PublishingHasOwner'
  <1> USE DEF Types, Shape, PublishingHasOwner, Holding, Active, Awaits, Speech,
      CaptureJobs, AnswerJobs, PlainJobs, CalendarJobs, AgentJobs, OpinionJobs, gate,
      mood, vision, settings, flow, identity
  <1>1. ASSUME NEW u \in Users, Heard(f, u) PROVE PublishingHasOwner'
    BY <1>1 DEF Heard, Go
  <1>2. ASSUME TimerAlert(f) PROVE PublishingHasOwner'
    BY <1>2 DEF TimerAlert, Go
  <1>3. ASSUME GreetOnJoin(f) PROVE PublishingHasOwner'
    BY <1>3 DEF GreetOnJoin, Go
  <1>4. ASSUME PerplexityMessage(f) PROVE PublishingHasOwner'
    BY <1>4 DEF PerplexityMessage, Go
  <1>5. ASSUME ExplainGeneratedDiagrams(f) PROVE PublishingHasOwner'
    BY <1>5 DEF ExplainGeneratedDiagrams, Publish, Speak, Go
  <1>6. ASSUME CaptureResponse(f) PROVE PublishingHasOwner'
    BY <1>6, CaptureResponsePublishingHasOwner
  <1> QED BY <1>1, <1>2, <1>3, <1>4, <1>5, <1>6

\* An utterance, up to its branch, keeps PublishingHasOwner.
LEMMA PublishingHasOwnerUtterances ==
  ASSUME Types, Shape, PublishingHasOwner, NEW f \in Flows,
        Unrecognised(f) \/ Recognised(f) \/ Interject(f) \/ NoIntervention(f)
         \/ SessionFails(f)
  PROVE  PublishingHasOwner'
  <1> USE DEF Types, Shape, PublishingHasOwner, Holding, Active, Awaits, Speech,
      CaptureJobs, AnswerJobs, PlainJobs, CalendarJobs, AgentJobs, OpinionJobs, gate,
      mood, vision, settings, flow, identity
  <1>1. ASSUME Unrecognised(f) PROVE PublishingHasOwner'
    BY <1>1 DEF Unrecognised, Over, Go
  <1>2. ASSUME Interject(f) PROVE PublishingHasOwner'
    BY <1>2 DEF Interject, Publish, Speak, Go
  <1>3. ASSUME SessionFails(f) PROVE PublishingHasOwner'
    BY <1>3 DEF SessionFails, Over, Go
  <1>4. ASSUME Recognised(f) PROVE PublishingHasOwner'
    BY <1>4, ConsiderPublishingHasOwner DEF Recognised
  <1>5. ASSUME NoIntervention(f) PROVE PublishingHasOwner'
    BY <1>5, ConsiderPublishingHasOwner DEF NoIntervention
  <1> QED BY <1>1, <1>2, <1>3, <1>4, <1>5

\* The end of an await of a branch keeps PublishingHasOwner.
LEMMA PublishingHasOwnerWorks ==
  ASSUME Types, Shape, PublishingHasOwner, NEW f \in Flows,
        WorkEnds(f) \/ Corrected(f) \/ WorkSpoken(f) \/ AgentAnswers(f)
         \/ SearchPlanned(f)
  PROVE  PublishingHasOwner'
  <1> USE DEF Types, Shape, PublishingHasOwner, Holding, Active, Awaits, Speech,
      CaptureJobs, AnswerJobs, PlainJobs, CalendarJobs, AgentJobs, OpinionJobs, gate,
      mood, vision, settings, flow, identity
  <1>1. ASSUME WorkSpoken(f) PROVE PublishingHasOwner'
    BY <1>1 DEF WorkSpoken, Speak, Go
  <1>2. ASSUME AgentAnswers(f) PROVE PublishingHasOwner'
    BY <1>2 DEF AgentAnswers, Deliver, OwnRequest, Speak, Go
  <1>3. ASSUME SearchPlanned(f) PROVE PublishingHasOwner'
    BY <1>3 DEF SearchPlanned, StartLlm, Go
  <1>4. ASSUME WorkEnds(f) PROVE PublishingHasOwner'
    <2>1. Active(f)
      BY <1>4 DEF WorkEnds, Active, Awaits
    <2> QED BY <1>4, <2>1, EndPublishingHasOwner DEF WorkEnds
  <1>5. ASSUME Corrected(f) PROVE PublishingHasOwner'
    BY <1>5, CorrectedPublishingHasOwner
  <1> QED BY <1>1, <1>2, <1>3, <1>4, <1>5

\* A model call and its thinking phrase keeps PublishingHasOwner.
LEMMA PublishingHasOwnerSearches ==
  ASSUME Types, Shape, PublishingHasOwner, NEW f \in Flows,
        (\E g \in Flows : PhraseDue(g, f)) \/ LlmAnswers(f) \/ SearchAnswers(f)
  PROVE  PublishingHasOwner'
  <1> USE DEF Types, Shape, PublishingHasOwner, Holding, Active, Awaits, Speech,
      CaptureJobs, AnswerJobs, PlainJobs, CalendarJobs, AgentJobs, OpinionJobs, gate,
      mood, vision, settings, flow, identity
  <1>1. ASSUME NEW g \in Flows, PhraseDue(g, f) PROVE PublishingHasOwner'
    BY <1>1 DEF PhraseDue, OwnRequest, Over, Speak, Go
  <1>2. ASSUME LlmAnswers(f) PROVE PublishingHasOwner'
    BY <1>2 DEF LlmAnswers, Go
  <1>3. ASSUME SearchAnswers(f) PROVE PublishingHasOwner'
    BY <1>3, SearchAnswersPublishingHasOwner
  <1> QED BY <1>1, <1>2, <1>3

\* Speech, and a failing await, keeps PublishingHasOwner.
LEMMA PublishingHasOwnerSpeeches ==
  ASSUME Types, Shape, PublishingHasOwner, NEW f \in Flows,
        Synthesised(f) \/ Told(f) \/ Played(f) \/ SpeechReturns(f)
         \/ AwaitFails(f)
  PROVE  PublishingHasOwner'
  <1> USE DEF Types, Shape, PublishingHasOwner, Holding, Active, Awaits, Speech,
      CaptureJobs, AnswerJobs, PlainJobs, CalendarJobs, AgentJobs, OpinionJobs, gate,
      mood, vision, settings, flow, identity
  <1>1. ASSUME Synthesised(f) PROVE PublishingHasOwner'
    BY <1>1 DEF Synthesised, Superseded, Go
  <1>2. ASSUME Told(f) PROVE PublishingHasOwner'
    BY <1>2 DEF Told, Go
  <1>3. ASSUME Played(f) PROVE PublishingHasOwner'
    BY <1>3, PlayedPublishingHasOwner
  <1>4. ASSUME SpeechReturns(f) PROVE PublishingHasOwner'
    <2>1. Active(f)
      BY <1>4 DEF SpeechReturns, Active, Awaits
    <2> QED BY <1>4, <2>1, SpokenPublishingHasOwner DEF SpeechReturns
  <1>5. ASSUME AwaitFails(f) PROVE PublishingHasOwner'
    <2>1. Active(f)
      BY <1>5 DEF AwaitFails, Active, Awaits
    <2> QED BY <1>5, <2>1, FailPublishingHasOwner DEF AwaitFails
  <1> QED BY <1>1, <1>2, <1>3, <1>4, <1>5

\* An await of another handler keeps PublishingHasOwner.
LEMMA PublishingHasOwnerOthers ==
  ASSUME Types, Shape, PublishingHasOwner, NEW f \in Flows,
        TimerAlertSent(f) \/ MessageHandled(f) \/ MessageAnswered(f)
         \/ LockFreed(f) \/ LockTimeout(f)
  PROVE  PublishingHasOwner'
  <1> USE DEF Types, Shape, PublishingHasOwner, Holding, Active, Awaits, Speech,
      CaptureJobs, AnswerJobs, PlainJobs, CalendarJobs, AgentJobs, OpinionJobs, gate,
      mood, vision, settings, flow, identity
  <1>1. ASSUME TimerAlertSent(f) PROVE PublishingHasOwner'
    BY <1>1 DEF TimerAlertSent, Over, Speak, Go
  <1>2. ASSUME MessageHandled(f) PROVE PublishingHasOwner'
    BY <1>2 DEF MessageHandled, Over, Go
  <1>3. ASSUME MessageAnswered(f) PROVE PublishingHasOwner'
    BY <1>3 DEF MessageAnswered, Publish, Speak, Go
  <1>4. ASSUME LockTimeout(f) PROVE PublishingHasOwner'
    BY <1>4 DEF LockTimeout, Over, Locked, Go
  <1>5. ASSUME LockFreed(f) PROVE PublishingHasOwner'
    BY <1>5, BeginCapturePublishingHasOwner DEF LockFreed, Ids
  <1> QED BY <1>1, <1>2, <1>3, <1>4, <1>5

\* Every step keeps PublishingHasOwner.
LEMMA PublishingHasOwnerStep ==
  ASSUME Types, Shape, PublishingHasOwner, [Next]_vars
  PROVE  PublishingHasOwner'
  <1>1. CASE UNCHANGED vars
    BY <1>1 DEF vars, Types, Shape, PublishingHasOwner, Holding, Active, Awaits,
      Speech, CaptureJobs, AnswerJobs, PlainJobs, CalendarJobs, AgentJobs,
      OpinionJobs, gate, mood, vision, settings, flow, identity
  <1>2. CASE Next
    BY <1>2, PublishingHasOwnerEnvironment, PublishingHasOwnerStarts,
        PublishingHasOwnerUtterances,
       PublishingHasOwnerWorks, PublishingHasOwnerSearches, PublishingHasOwnerSpeeches, PublishingHasOwnerOthers
       DEF Next, Start, Settle
  <1> QED BY <1>1, <1>2

-----------------------------------------------------------------------------
(* AnswerHolds.                                                            *)

\* The branches of the other handlers.
LEMMA OtherJobs ==
  \A j \in CaptureJobs \cup {"none", "hear", "announcement", "greeting", "message",
                            "transcript", "perplexity", "response", "diagrams", "phrase"} :
     j \notin AnswerJobs
  BY DEF CaptureJobs, AnswerJobs, PlainJobs, CalendarJobs, AgentJobs, OpinionJobs

\* A flow that moves is the only one whose answering changes.
LEMMA GoAnswering ==
  ASSUME Types, NEW f \in Flows, NEW label, NEW j, Go(f, label, j)
  PROVE  /\ \A g \in Flows \ {f} : Answering(g)' <=> Answering(g)
         /\ Answering(f)' <=> label \in Awaits /\ j \in AnswerJobs
  BY DEF Go, Types, Answering, Active

\* A flow keeps AnswerHolds when it moves without beginning to answer.
LEMMA GoAnswerHolds ==
  ASSUME Types, AnswerHolds, NEW f \in Flows, NEW label, NEW j, Go(f, label, j),
         label \in Awaits /\ j \in AnswerJobs => Answering(f),
         isPublishing => isPublishing', UNCHANGED forced
  PROVE  AnswerHolds'
  <1>1. \A g \in Flows : Answering(g)' => Answering(g)
    BY GoAnswering
  <1> QED BY <1>1 DEF AnswerHolds

LEMMA SpeakAnswerHolds ==
  ASSUME Types, AnswerHolds, NEW f \in Flows, NEW j, Speak(f, j),
         j \in AnswerJobs => Answering(f),
         isPublishing => isPublishing', UNCHANGED forced
  PROVE  AnswerHolds'
  <1>1. PICK label : Go(f, label, j)
    BY DEF Speak
  <1> QED BY <1>1, GoAnswerHolds

LEMMA OverAnswerHolds ==
  ASSUME Types, AnswerHolds, NEW f \in Flows, Over(f), UNCHANGED <<isPublishing, forced>>
  PROVE  AnswerHolds'
  <1>1. "done" \notin Awaits
    BY DEF Awaits
  <1>2. PICK j : Go(f, "done", j)
    BY DEF Over
  <1> QED BY <1>1, <1>2, GoAnswerHolds

\* The end of a handler, with its finally clause keeps AnswerHolds.
LEMMA EndAnswerHolds ==
  ASSUME Types, Shape, AnswerHolds, NEW f \in Flows, Active(f), End(f),
         UNCHANGED requestId
  PROVE  AnswerHolds'
  <1>0. \A g \in Flows : Answering(g)' <=> Answering(g) /\ g # f
    BY DEF End, Over, Go, Answering, Active, Types, Awaits, AnswerJobs, PlainJobs,
        CalendarJobs, AgentJobs, OpinionJobs
  <1>1. CASE job[f] \in AnswerJobs \ {"interject"} /\ UNCHANGED forced
    BY <1>0, <1>1 DEF AnswerHolds, Answering
  <1>2. CASE ForceOpen({f})
    BY <1>0, <1>2 DEF AnswerHolds, ForceOpen
  <1>3. CASE UNCHANGED gate
    BY <1>0, <1>3 DEF AnswerHolds, gate
  <1> QED BY <1>1, <1>2, <1>3 DEF End, Finally

\* What processAndRespond does after recognition keeps AnswerHolds.
LEMMA ConsiderAnswerHolds ==
  ASSUME Types, Shape, AnswerHolds, NEW f \in Flows, job[f] = "hear", Consider(f)
  PROVE  AnswerHolds'
  <1>1. ASSUME UNCHANGED gate, Over(f) \/ Go(f, "deaf", "hear") PROVE AnswerHolds'
    BY <1>1, OtherJobs, GoAnswerHolds, OverAnswerHolds DEF gate
  <1>2. ASSUME Admit(f), ~isPublishing PROVE AnswerHolds'
    <2>1. Proceeds(f)
      BY <1>2, BranchProceeds DEF Admit
    <2>2. \A g \in Flows \ {f} : Answering(g)' => Answering(g)
      BY <2>1, OtherJobs DEF Proceeds, Answering, Active
    <2>3. Answering(f)' => isPublishing'
      BY <1>2 DEF Admit, Answering, Active, Awaits
    <2> QED BY <1>2, <2>2, <2>3 DEF Admit, AnswerHolds
  <1> QED BY <1>1, <1>2 DEF Consider, AlreadyPublishing

\* The return of speakAndPublish keeps AnswerHolds.
LEMMA SpokenAnswerHolds ==
  ASSUME Types, Shape, AnswerHolds, NEW f \in Flows, Active(f), Spoken(f),
         UNCHANGED identity
  PROVE  AnswerHolds'
  <1> USE DEF Types, AnswerHolds, Answering, Active, AnswerJobs, PlainJobs,
      CalendarJobs, AgentJobs, OpinionJobs
  <1>1. CASE SpokenNotice(f)
    BY <1>1 DEF SpokenNotice, Go, gate
  <1>2. CASE SpokenBeforePanel(f)
    BY <1>2 DEF SpokenBeforePanel, Go, gate
  <1>3. CASE SpokenLast(f)
    BY <1>3, EndAnswerHolds DEF SpokenLast, identity
  <1> QED BY <1>1, <1>2, <1>3 DEF Spoken

\* Each catch clause keeps AnswerHolds.
LEMMA FailAnswerHolds ==
  ASSUME Types, Shape, AnswerHolds, NEW f \in Flows, Active(f), Fail(f),
         UNCHANGED identity
  PROVE  AnswerHolds'
  <1>1. CASE End(f)
    BY <1>1, EndAnswerHolds DEF identity
  <1>2. CASE FailApologising(f)
    BY <1>2, OtherJobs, SpeakAnswerHolds
       DEF FailApologising, gate, Answering, CaptureJobs, AnswerJobs
  <1>3. CASE FailPhrase(f)
    BY <1>3, OtherJobs, GoAnswerHolds DEF FailPhrase, gate
  <1> QED BY <1>1, <1>2, <1>3 DEF Fail, FailPlain, FailQuietly, FailFinally

\* The answer of the model keeps AnswerHolds.
LEMMA SearchAnswersAnswerHolds ==
  ASSUME Types, Shape, AnswerHolds, NEW f \in Flows, SearchAnswers(f)
  PROVE  AnswerHolds'
  <1>0. Active(f) /\ job[f] = "search"
    BY DEF SearchAnswers, Active, Awaits, Shape
  <1>1. CASE Deliver(f, "answer") /\ UNCHANGED gate
    BY <1>0, <1>1, GoAnswerHolds, SpeakAnswerHolds
       DEF Deliver, gate, Answering, AnswerJobs, PlainJobs
  <1>2. CASE End(f)
    BY <1>0, <1>2, EndAnswerHolds DEF SearchAnswers, identity
  <1> QED BY <1>1, <1>2 DEF SearchAnswers

\* A corrected text keeps AnswerHolds.
LEMMA CorrectedAnswerHolds ==
  ASSUME Types, AnswerHolds, NEW f \in Flows, Corrected(f)
  PROVE  AnswerHolds'
  <1>1. Proceeds(f)
    BY RespondProceeds DEF Corrected
  <1>2. Answering(f)
    BY DEF Corrected, Answering, Active, Awaits, AnswerJobs, PlainJobs
  <1>3. \A g \in Flows : Answering(g)' => Answering(g)
    BY <1>1, <1>2 DEF Proceeds, Answering, Active, Awaits, AnswerJobs, PlainJobs,
        CalendarJobs, AgentJobs, OpinionJobs
  <1>4. UNCHANGED forced
    BY DEF Corrected
  <1>5. CASE pc'[f] = "done"
    <2>1. ~Answering(f)'
      BY <1>5 DEF Answering, Active, Awaits
    <2> QED BY <1>2, <1>3, <1>4, <2>1 DEF AnswerHolds
  <1>6. CASE pc'[f] # "done"
    <2>1. UNCHANGED isPublishing
      BY <1>6 DEF Corrected
    <2> QED BY <1>3, <1>4, <2>1 DEF AnswerHolds
  <1> QED BY <1>5, <1>6

\* The beginning of the work on a capture keeps AnswerHolds.
LEMMA BeginCaptureAnswerHolds ==
  ASSUME Types, AnswerHolds, NEW f \in Flows, NEW id, BeginCapture(f, id)
  PROVE  AnswerHolds'
  <1>1. \E label \in Awaits, j \in CaptureJobs : Go(f, label, j)
    BY DEF BeginCapture, Speak, Awaits, CaptureJobs
  <1>2. isPublishing' /\ UNCHANGED forced
    BY DEF BeginCapture, Publish
  <1> QED BY <1>1, <1>2, OtherJobs, GoAnswerHolds

\* An interjection keeps AnswerHolds.
LEMMA InterjectAnswerHolds ==
  ASSUME Types, AnswerHolds, NEW f \in Flows, Interject(f)
  PROVE  AnswerHolds'
  <1>1. PICK label : Go(f, label, "interject")
    BY DEF Interject, Speak
  <1>2. ~isPublishing /\ isPublishing' /\ UNCHANGED forced
    BY DEF Interject, Publish
  <1>3. \A g \in Flows \ {f} : Answering(g)' => Answering(g)
    BY <1>1, GoAnswering
  <1> QED BY <1>2, <1>3 DEF AnswerHolds

\* The answer of the agent keeps AnswerHolds.
LEMMA AgentAnswersAnswerHolds ==
  ASSUME Types, AnswerHolds, NEW f \in Flows, AgentAnswers(f)
  PROVE  AnswerHolds'
  <1>1. PICK label : Go(f, label, "agentAnswer")
    BY DEF AgentAnswers, Deliver, Speak
  <1>2. Answering(f) /\ UNCHANGED <<isPublishing, forced>>
    BY DEF AgentAnswers, gate, Answering, Active, Awaits, AnswerJobs, AgentJobs
  <1> QED BY <1>1, <1>2, GoAnswerHolds

\* What participants and timers do keeps AnswerHolds.
LEMMA AnswerHoldsEnvironment ==
  ASSUME AnswerHolds, Environment
  PROVE  AnswerHolds'
  <1>1. \A f \in Flows : Answering(f)' <=> Answering(f)
    BY EnvironmentFrame DEF flow, Answering, Active
  <1>2. CASE UNCHANGED gate
    BY <1>1, <1>2 DEF gate, AnswerHolds
  <1>3. CASE PublishingTimeout
    <2>1. forced' \/ \A f \in Flows : ~Answering(f)
      BY <1>3 DEF PublishingTimeout, ForceOpen
    <2> QED BY <1>1, <2>1, <1>3 DEF PublishingTimeout, ForceOpen, AnswerHolds
  <1> QED BY <1>2, <1>3, EnvironmentFrame

\* The start of every kind of flow keeps AnswerHolds.
LEMMA AnswerHoldsStarts ==
  ASSUME Types, Shape, AnswerHolds, NEW f \in Flows,
        (\E u \in Users : Heard(f, u)) \/ TimerAlert(f) \/ GreetOnJoin(f)
         \/ PerplexityMessage(f) \/ ExplainGeneratedDiagrams(f)
         \/ CaptureResponse(f)
  PROVE  AnswerHolds'
  <1> USE OtherJobs, GoAnswerHolds, SpeakAnswerHolds, OverAnswerHolds DEF gate
  <1>1. ASSUME NEW u \in Users, Heard(f, u) PROVE AnswerHolds'
    BY <1>1 DEF Heard
  <1>2. ASSUME TimerAlert(f) PROVE AnswerHolds'
    BY <1>2 DEF TimerAlert
  <1>3. ASSUME GreetOnJoin(f) PROVE AnswerHolds'
    BY <1>3 DEF GreetOnJoin
  <1>4. ASSUME PerplexityMessage(f) PROVE AnswerHolds'
    <2>1. PICK j \in {"message", "transcript"} : Go(f, "session", j)
      BY <1>4 DEF PerplexityMessage
    <2>2. j \notin AnswerJobs
      BY <2>1
    <2> QED BY <1>4, <2>1, <2>2 DEF PerplexityMessage
  <1>5. ASSUME ExplainGeneratedDiagrams(f) PROVE AnswerHolds'
    BY <1>5 DEF ExplainGeneratedDiagrams, Publish
  <1>6. ASSUME CaptureResponse(f) PROVE AnswerHolds'
    <2>1. CASE Locked
      BY <1>6, <2>1 DEF CaptureResponse
    <2>2. CASE ~Locked
      BY <1>6, <2>2, BeginCaptureAnswerHolds DEF CaptureResponse
    <2> QED BY <2>1, <2>2
  <1> QED BY <1>1, <1>2, <1>3, <1>4, <1>5, <1>6

\* An utterance, up to its branch, keeps AnswerHolds.
LEMMA AnswerHoldsUtterances ==
  ASSUME Types, Shape, AnswerHolds, NEW f \in Flows,
        Unrecognised(f) \/ Recognised(f) \/ Interject(f) \/ NoIntervention(f)
         \/ SessionFails(f)
  PROVE  AnswerHolds'
  <1> USE OtherJobs, GoAnswerHolds, SpeakAnswerHolds, OverAnswerHolds DEF gate
  <1>1. ASSUME Unrecognised(f) PROVE AnswerHolds'
    BY <1>1 DEF Unrecognised
  <1>2. ASSUME Interject(f) PROVE AnswerHolds'
    BY <1>2, InterjectAnswerHolds
  <1>3. ASSUME SessionFails(f) PROVE AnswerHolds'
    BY <1>3 DEF SessionFails
  <1>4. ASSUME Recognised(f) PROVE AnswerHolds'
    BY <1>4, ConsiderAnswerHolds DEF Recognised, Shape
  <1>5. ASSUME NoIntervention(f) PROVE AnswerHolds'
    BY <1>5, ConsiderAnswerHolds DEF NoIntervention
  <1> QED BY <1>1, <1>2, <1>3, <1>4, <1>5

\* The end of an await of a branch keeps AnswerHolds.
LEMMA AnswerHoldsWorks ==
  ASSUME Types, Shape, AnswerHolds, NEW f \in Flows,
        WorkEnds(f) \/ Corrected(f) \/ WorkSpoken(f) \/ AgentAnswers(f)
         \/ SearchPlanned(f)
  PROVE  AnswerHolds'
  <1> USE OtherJobs, GoAnswerHolds, SpeakAnswerHolds, OverAnswerHolds DEF gate
  <1>1. ASSUME WorkSpoken(f) PROVE AnswerHolds'
    BY <1>1 DEF WorkSpoken, Answering, Active, Awaits
  <1>2. ASSUME AgentAnswers(f) PROVE AnswerHolds'
    BY <1>2, AgentAnswersAnswerHolds
  <1>3. ASSUME SearchPlanned(f) PROVE AnswerHolds'
    <2>1. \A g \in Flows : Answering(g)' => Answering(g)
      BY <1>3 DEF SearchPlanned, StartLlm, Go, Types, Answering, Active, Awaits
    <2> QED BY <1>3, <2>1 DEF SearchPlanned, AnswerHolds
  <1>4. ASSUME WorkEnds(f) PROVE AnswerHolds'
    <2>1. Active(f)
      BY <1>4 DEF WorkEnds, Active, Awaits
    <2> QED BY <1>4, <2>1, EndAnswerHolds DEF WorkEnds, identity
  <1>5. ASSUME Corrected(f) PROVE AnswerHolds'
    BY <1>5, CorrectedAnswerHolds
  <1> QED BY <1>1, <1>2, <1>3, <1>4, <1>5

\* A model call and its thinking phrase keeps AnswerHolds.
LEMMA AnswerHoldsSearches ==
  ASSUME Types, Shape, AnswerHolds, NEW f \in Flows,
        (\E g \in Flows : PhraseDue(g, f)) \/ LlmAnswers(f) \/ SearchAnswers(f)
  PROVE  AnswerHolds'
  <1> USE OtherJobs, GoAnswerHolds, SpeakAnswerHolds, OverAnswerHolds DEF gate
  <1>1. ASSUME NEW g \in Flows, PhraseDue(g, f) PROVE AnswerHolds'
    BY <1>1 DEF PhraseDue
  <1>2. ASSUME LlmAnswers(f) PROVE AnswerHolds'
    BY <1>2 DEF LlmAnswers, Answering, Active, Awaits
  <1>3. ASSUME SearchAnswers(f) PROVE AnswerHolds'
    BY <1>3, SearchAnswersAnswerHolds
  <1> QED BY <1>1, <1>2, <1>3

\* Speech, and a failing await, keeps AnswerHolds.
LEMMA AnswerHoldsSpeeches ==
  ASSUME Types, Shape, AnswerHolds, NEW f \in Flows,
        Synthesised(f) \/ Told(f) \/ Played(f) \/ SpeechReturns(f)
         \/ AwaitFails(f)
  PROVE  AnswerHolds'
  <1> USE OtherJobs, GoAnswerHolds, SpeakAnswerHolds, OverAnswerHolds DEF gate
  <1>1. ASSUME Synthesised(f) PROVE AnswerHolds'
    BY <1>1 DEF Synthesised, Answering, Active, Awaits
  <1>2. ASSUME Told(f) PROVE AnswerHolds'
    BY <1>2 DEF Told, Answering, Active, Awaits
  <1>3. ASSUME Played(f) PROVE AnswerHolds'
    <2>1. CASE job[f] = "greeting"
      <3>1. Active(f) /\ SpokenLast(f)
        BY <1>3, <2>1 DEF Played, Active, Awaits
      <3> QED BY <1>3, <3>1, EndAnswerHolds DEF Played, SpokenLast, identity
    <2>2. CASE job[f] # "greeting"
      <3>1. Go(f, "hush", job[f]) /\ Active(f) /\ UNCHANGED <<isPublishing, forced>>
        BY <1>3, <2>2 DEF Played, Active, Awaits
      <3> QED BY <3>1 DEF Answering
    <2> QED BY <2>1, <2>2
  <1>4. ASSUME SpeechReturns(f) PROVE AnswerHolds'
    <2>1. Active(f)
      BY <1>4 DEF SpeechReturns, Active, Awaits
    <2> QED BY <1>4, <2>1, SpokenAnswerHolds DEF SpeechReturns, identity
  <1>5. ASSUME AwaitFails(f) PROVE AnswerHolds'
    <2>1. Active(f)
      BY <1>5 DEF AwaitFails, Active, Awaits
    <2> QED BY <1>5, <2>1, FailAnswerHolds DEF AwaitFails, identity
  <1> QED BY <1>1, <1>2, <1>3, <1>4, <1>5

\* An await of another handler keeps AnswerHolds.
LEMMA AnswerHoldsOthers ==
  ASSUME Types, Shape, AnswerHolds, NEW f \in Flows,
        TimerAlertSent(f) \/ MessageHandled(f) \/ MessageAnswered(f)
         \/ LockFreed(f) \/ LockTimeout(f)
  PROVE  AnswerHolds'
  <1> USE OtherJobs, GoAnswerHolds, SpeakAnswerHolds, OverAnswerHolds DEF gate
  <1>1. ASSUME TimerAlertSent(f) PROVE AnswerHolds'
    BY <1>1 DEF TimerAlertSent
  <1>2. ASSUME MessageHandled(f) PROVE AnswerHolds'
    BY <1>2 DEF MessageHandled
  <1>3. ASSUME MessageAnswered(f) PROVE AnswerHolds'
    BY <1>3 DEF MessageAnswered, Publish
  <1>4. ASSUME LockFreed(f) PROVE AnswerHolds'
    BY <1>4, BeginCaptureAnswerHolds DEF LockFreed
  <1>5. ASSUME LockTimeout(f) PROVE AnswerHolds'
    BY <1>5 DEF LockTimeout
  <1> QED BY <1>1, <1>2, <1>3, <1>4, <1>5

\* Every step keeps AnswerHolds.
LEMMA AnswerHoldsStep ==
  ASSUME Types, Shape, AnswerHolds, [Next]_vars
  PROVE  AnswerHolds'
  <1>1. CASE UNCHANGED vars
    BY <1>1 DEF vars, Types, Shape, AnswerHolds, Answering, Active, Awaits, Speech,
      AnswerJobs, PlainJobs, CalendarJobs, AgentJobs, OpinionJobs, gate, mood, vision,
      settings, flow, identity
  <1>2. CASE Next
    BY <1>2, AnswerHoldsEnvironment, AnswerHoldsStarts, AnswerHoldsUtterances,
       AnswerHoldsWorks, AnswerHoldsSearches, AnswerHoldsSpeeches, AnswerHoldsOthers
       DEF Next, Start, Settle
  <1> QED BY <1>1, <1>2

=============================================================================
