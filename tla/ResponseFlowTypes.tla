------------------------- MODULE ResponseFlowTypes -------------------------
(***************************************************************************)
(* The types of ResponseFlow, and which jobs a flow has where it stands,   *)
(* are preserved by every step, for every number of flows, participants    *)
(* and capture requests.  For each conjunct, the lemmas about operators    *)
(* that several actions share come first, then lemmas with one step per    *)
(* action.                                                                 *)
(***************************************************************************)
EXTENDS ResponseFlow, TLAPS

\* The conjuncts of the inductive invariant hold initially.
LEMMA InitHolds ==
  Init => /\ Types /\ Flags /\ VisionAwaits /\ Shape /\ AnswerHolds /\ CaptureLocks
          /\ PublishingHasOwner /\ SpeakingHasSpeaker
  <1> SUFFICES ASSUME Init
               PROVE  /\ Types /\ Flags /\ VisionAwaits /\ Shape /\ AnswerHolds
                      /\ CaptureLocks /\ PublishingHasOwner /\ SpeakingHasSpeaker
    OBVIOUS
  <1> USE DEF Init
  <1>1. Types
    BY DEF Types, Ids, Labels, Jobs
  <1>2. Flags
    BY Zenon DEF Flags
  <1>3. VisionAwaits /\ Shape /\ PublishingHasOwner /\ SpeakingHasSpeaker
    BY DEF VisionAwaits, Shape, Speech, PublishingHasOwner, SpeakingHasSpeaker
  <1>4. AnswerHolds /\ CaptureLocks
    BY DEF AnswerHolds, CaptureLocks, Answering, Capturing, Active, Awaits
  <1> QED BY <1>1, <1>2, <1>3, <1>4

BegunWork == {"idea", "board", "timer", "correct", "panel", "askCapture", "opinion",
              "agent", "search"}
BegunSpeech == {"redirect", "stop", "calendarNotice", "ready"}

\* How processAndRespond leaves its three tests.
Moves(f) ==
  \/ Over(f)
  \/ Go(f, "deaf", "hear")
  \/ StartLlm(f)
  \/ \E j \in BegunWork :
       Go(f, "work", j)
  \/ \E j \in BegunSpeech : Speak(f, j)

\* Sections 5 to 7 of processAndRespond leave as Moves says.
LEMMA RespondMoves ==
  ASSUME NEW f \in Flows, Respond(f)
  PROVE  Moves(f)
  BY DEF Respond, AnswerQuestion, Moves, BegunWork, BegunSpeech

\* So does the whole of processAndRespond after recognition.
LEMMA ConsiderMoves ==
  ASSUME NEW f \in Flows, Consider(f)
  PROVE  Moves(f)
  <1>1. ASSUME Branch(f) PROVE Moves(f)
    BY <1>1, RespondMoves DEF Branch, AskCapture, Moves, BegunWork, BegunSpeech
  <1> QED BY <1>1 DEF Consider, Admit, Moves

-----------------------------------------------------------------------------
(* Shape.                                                                  *)

\* The end of a flow keeps Shape.
LEMMA OverShape ==
  ASSUME Types, Shape, NEW f \in Flows, Over(f)
  PROVE  Shape'
  BY DEF Over, Go, Types, Shape, Speech

\* Each way to leave the tests of processAndRespond keeps Shape.
LEMMA MovesShape ==
  ASSUME Types, Shape, NEW f \in Flows, Moves(f)
  PROVE  Shape'
  <1> USE DEF Types, Shape, Speech, BegunWork, BegunSpeech
  <1>1. ASSUME Go(f, "deaf", "hear") PROVE Shape'
    BY <1>1 DEF Go
  <1>2. ASSUME StartLlm(f) PROVE Shape'
    BY <1>2 DEF StartLlm, Go
  <1>3. ASSUME NEW j \in BegunWork, Go(f, "work", j)
        PROVE  Shape'
    BY <1>3 DEF Go
  <1>4. ASSUME NEW j \in BegunSpeech, Speak(f, j)
        PROVE  Shape'
    BY <1>4 DEF Speak, Go
  <1> QED BY <1>1, <1>2, <1>3, <1>4, OverShape DEF Moves

\* The return of speakAndPublish keeps Shape.
LEMMA SpokenShape ==
  ASSUME Types, Shape, NEW f \in Flows, Spoken(f)
  PROVE  Shape'
  <1> USE DEF Types, Shape, Speech, CaptureJobs, OpinionJobs
  <1>1. ASSUME SpokenNotice(f) PROVE Shape'
    BY <1>1 DEF SpokenNotice, Go
  <1>2. ASSUME SpokenBeforePanel(f) PROVE Shape'
    BY <1>2 DEF SpokenBeforePanel, Go
  <1>3. ASSUME SpokenLast(f) PROVE Shape'
    BY <1>3, OverShape DEF SpokenLast, End
  <1> QED BY <1>1, <1>2, <1>3 DEF Spoken

\* Each catch clause keeps Shape.
LEMMA FailShape ==
  ASSUME Types, Shape, NEW f \in Flows, Fail(f)
  PROVE  Shape'
  <1> USE DEF Types, Shape, Speech, CaptureJobs, OpinionJobs
  <1>1. ASSUME Over(f) PROVE Shape'
    BY <1>1, OverShape
  <1>2. ASSUME FailApologising(f) PROVE Shape'
    BY <1>2 DEF FailApologising, Speak, Go
  <1>3. ASSUME FailPhrase(f) PROVE Shape'
    BY <1>3 DEF FailPhrase, Go
  <1> QED BY <1>1, <1>2, <1>3 DEF Fail, FailPlain, FailQuietly, FailFinally, End

\* The answer of the model keeps Shape.
LEMMA SearchAnswersShape ==
  ASSUME Types, Shape, NEW f \in Flows, SearchAnswers(f)
  PROVE  Shape'
  <1> USE DEF Types, Shape, Speech, CaptureJobs, OpinionJobs
  <1>1. ASSUME Deliver(f, "answer") PROVE Shape'
    BY <1>1 DEF Deliver, Speak, Go
  <1> QED BY <1>1, OverShape DEF SearchAnswers, End

\* The end of the playing keeps Shape.
LEMMA PlayedShape ==
  ASSUME Types, Shape, NEW f \in Flows, Played(f)
  PROVE  Shape'
  <1> USE DEF Types, Shape, Speech, CaptureJobs, OpinionJobs
  <1>1. CASE job[f] = "greeting"
    BY <1>1, OverShape DEF Played, SpokenLast, End
  <1>2. CASE job[f] # "greeting"
    BY <1>2 DEF Played, Go
  <1> QED BY <1>1, <1>2

\* What participants and timers do keeps Shape.
LEMMA ShapeEnvironment ==
  ASSUME Types, Shape, Environment
  PROVE  Shape'
  BY SMTT(30) DEF Environment, AiMute, BargeIn, PublishingTimeout, ForceOpen,
      ArmedTimeout, EnterStandbyMode, ScreenShareStarts, ScreenShareEnds,
      CooldownOver, CaptureOverdue, Types, Shape, Speech, gate, mood, vision,
      settings, flow, identity

\* The start of every kind of flow keeps Shape.
LEMMA ShapeStarts ==
  ASSUME Types, Shape, NEW f \in Flows,
        (\E u \in Users : Heard(f, u)) \/ TimerAlert(f) \/ GreetOnJoin(f)
         \/ PerplexityMessage(f) \/ ExplainGeneratedDiagrams(f)
         \/ CaptureResponse(f)
  PROVE  Shape'
  BY SMTT(30) DEF Heard, Go, TimerAlert, GreetOnJoin, PerplexityMessage,
      ExplainGeneratedDiagrams, Publish, Speak, CaptureResponse, BeginCapture, Locked,
      Types, Shape, Speech, gate, mood, vision, settings, flow, identity

\* An utterance, up to its branch, keeps Shape.
LEMMA ShapeUtterances ==
  ASSUME Types, Shape, NEW f \in Flows,
        Unrecognised(f) \/ Recognised(f) \/ Interject(f) \/ NoIntervention(f)
         \/ SessionFails(f)
  PROVE  Shape'
  <1> USE DEF Types, Shape, Speech, gate, mood, vision, settings, flow, identity
  <1>1. ASSUME Unrecognised(f) \/ Interject(f) \/ SessionFails(f)
        PROVE  Shape'
    BY SMTT(30), <1>1 DEF Unrecognised, Over, Go, Interject, Publish, Speak,
      SessionFails
  <1>2. ASSUME Recognised(f) PROVE Shape'
    BY <1>2, ConsiderMoves, MovesShape DEF Recognised
  <1>3. ASSUME NoIntervention(f) PROVE Shape'
    BY <1>3, ConsiderMoves, MovesShape DEF NoIntervention
  <1> QED BY <1>1, <1>2, <1>3

\* The end of an await of a branch keeps Shape.
LEMMA ShapeWorks ==
  ASSUME Types, Shape, NEW f \in Flows,
        WorkEnds(f) \/ Corrected(f) \/ WorkSpoken(f) \/ AgentAnswers(f)
         \/ SearchPlanned(f)
  PROVE  Shape'
  <1> USE DEF Types, Shape, Speech, gate, mood, vision, settings, flow, identity
  <1>1. ASSUME WorkSpoken(f) \/ AgentAnswers(f) \/ SearchPlanned(f)
        PROVE  Shape'
    <2>1. CASE WorkSpoken(f)
      BY SMTT(30), <2>1 DEF WorkSpoken, Speak, Go
    <2>2. CASE AgentAnswers(f)
      BY SMTT(30), <2>2 DEF AgentAnswers, Deliver, Speak, Go
    <2>3. CASE SearchPlanned(f)
      BY SMTT(30), <2>3 DEF SearchPlanned, StartLlm, Go
    <2> QED BY <1>1, <2>1, <2>2, <2>3
  <1>2. ASSUME WorkEnds(f) PROVE Shape'
    BY <1>2, OverShape DEF WorkEnds, End
  <1>3. ASSUME Corrected(f) PROVE Shape'
    BY <1>3, RespondMoves, MovesShape DEF Corrected
  <1> QED BY <1>1, <1>2, <1>3

\* A model call and its thinking phrase keeps Shape.
LEMMA ShapeSearches ==
  ASSUME Types, Shape, NEW f \in Flows,
        (\E g \in Flows : PhraseDue(g, f)) \/ LlmAnswers(f) \/ SearchAnswers(f)
  PROVE  Shape'
  <1> USE DEF Types, Shape, Speech, gate, mood, vision, settings, flow, identity
  <1>1. ASSUME (\E g \in Flows : PhraseDue(g, f)) \/ LlmAnswers(f)
        PROVE  Shape'
    BY SMTT(30), <1>1 DEF PhraseDue, OwnRequest, Over, Speak, Go, LlmAnswers
  <1>2. ASSUME SearchAnswers(f) PROVE Shape'
    BY <1>2, SearchAnswersShape
  <1> QED BY <1>1, <1>2

\* Speech, and a failing await, keeps Shape.
LEMMA ShapeSpeeches ==
  ASSUME Types, Shape, NEW f \in Flows,
        Synthesised(f) \/ Told(f) \/ Played(f) \/ SpeechReturns(f)
         \/ AwaitFails(f)
  PROVE  Shape'
  <1> USE DEF Types, Shape, Speech, gate, mood, vision, settings, flow, identity
  <1>1. ASSUME Synthesised(f) \/ Told(f)
        PROVE  Shape'
    BY SMTT(30), <1>1 DEF Synthesised, Superseded, Go, Told
  <1>2. ASSUME Played(f) PROVE Shape'
    BY <1>2, PlayedShape
  <1>3. ASSUME SpeechReturns(f) PROVE Shape'
    BY <1>3, SpokenShape DEF SpeechReturns
  <1>4. ASSUME AwaitFails(f) PROVE Shape'
    BY <1>4, FailShape DEF AwaitFails
  <1> QED BY <1>1, <1>2, <1>3, <1>4

\* An await of another handler keeps Shape.
LEMMA ShapeOthers ==
  ASSUME Types, Shape, NEW f \in Flows,
        TimerAlertSent(f) \/ MessageHandled(f) \/ MessageAnswered(f)
         \/ LockFreed(f) \/ LockTimeout(f)
  PROVE  Shape'
  BY SMTT(30) DEF TimerAlertSent, Over, Speak, Go, MessageHandled, MessageAnswered,
      Publish, LockFreed, BeginCapture, Locked, LockTimeout, Types, Shape, Speech,
      gate, mood, vision, settings, flow, identity

\* Every step keeps Shape.
LEMMA ShapeStep ==
  ASSUME Types, Shape, [Next]_vars
  PROVE  Shape'
  <1>1. CASE UNCHANGED vars
    BY <1>1 DEF vars, Types, Shape, Speech, gate, mood, vision, settings, flow,
      identity
  <1>2. CASE Next
    BY <1>2, ShapeEnvironment, ShapeStarts, ShapeUtterances,
       ShapeWorks, ShapeSearches, ShapeSpeeches, ShapeOthers
       DEF Next, Start, Settle
  <1> QED BY <1>1, <1>2

-----------------------------------------------------------------------------
(* Types.                                                                  *)

\* Each way to leave the tests of processAndRespond keeps the types.
LEMMA MovesTypes ==
  ASSUME Types, NEW f \in Flows, Moves(f)
  PROVE  pc' \in [Flows -> Labels] /\ job' \in [Flows -> Jobs]
  <1> USE DEF Types, Labels, Awaits, Jobs, AnswerJobs, PlainJobs, CalendarJobs,
      AgentJobs,
      OpinionJobs, BegunWork, BegunSpeech
  <1>1. ASSUME Go(f, "deaf", "hear") \/ Over(f)
        PROVE  pc' \in [Flows -> Labels] /\ job' \in [Flows -> Jobs]
    BY <1>1 DEF Over, Go
  <1>2. ASSUME StartLlm(f) PROVE pc' \in [Flows -> Labels] /\ job' \in [Flows -> Jobs]
    BY <1>2 DEF StartLlm, Go
  <1>3. ASSUME NEW j \in BegunWork, Go(f, "work", j)
        PROVE  pc' \in [Flows -> Labels] /\ job' \in [Flows -> Jobs]
    BY <1>3 DEF Go
  <1>4. ASSUME NEW j \in BegunSpeech, Speak(f, j)
        PROVE  pc' \in [Flows -> Labels] /\ job' \in [Flows -> Jobs]
    BY <1>4 DEF Speak, Go
  <1> QED BY <1>1, <1>2, <1>3, <1>4 DEF Moves

\* The part of processAndRespond from the wake word on keeps the types.
LEMMA RespondTypes ==
  ASSUME Types, NEW f \in Flows, Respond(f)
  PROVE  /\ botState' \in {"SLEEP", "ARMED", "SPEAKING"}
         /\ activeUserId' \in Users \cup {NoUser}
         /\ thinkingTask' \in [Flows -> Flows]
  <1>1. ASSUME AnswerQuestion(f) PROVE thinkingTask' \in [Flows -> Flows]
    BY <1>1 DEF AnswerQuestion, StartLlm, Types
  <1> QED BY <1>1 DEF Respond, mood, Types

\* Each branch of processAndRespond keeps the types.
LEMMA BranchTypes ==
  ASSUME Types, NEW f \in Flows, Branch(f)
  PROVE  /\ botState' \in {"SLEEP", "ARMED", "SPEAKING"}
         /\ activeUserId' \in Users \cup {NoUser}
         /\ thinkingTask' \in [Flows -> Flows] /\ pendingVisionRequest' \in CaptureIds \cup {NoId}
  BY RespondTypes DEF Branch, AskCapture, mood, vision, Types

\* What processAndRespond does after recognition keeps the types.
LEMMA ConsiderTypes ==
  ASSUME Types, NEW f \in Flows, Consider(f)
  PROVE  Types'
  <1>1. pc' \in [Flows -> Labels] /\ job' \in [Flows -> Jobs]
    BY ConsiderMoves, MovesTypes
  <1>2. CASE Admit(f)
    <2>1. currentRequestId' \in Ids /\ requestId' \in [Flows -> Ids]
      BY <1>2 DEF Admit, Ids, Types
    <2> QED BY <1>1, <1>2, <2>1, BranchTypes DEF Admit, Consider, Types
  <1> QED BY <1>1, <1>2 DEF Consider, gate, mood, vision, Types

\* The end of a handler, with its finally clause keeps the types.
LEMMA EndTypes ==
  ASSUME Types, NEW f \in Flows, End(f)
  PROVE  pc' \in [Flows -> Labels] /\ job' \in [Flows -> Jobs] /\ currentRequestId' = currentRequestId
  BY DEF End, Over, Go, Finally, ForceOpen, gate, Types, Labels, Jobs

\* The return of speakAndPublish keeps the types.
LEMMA SpokenTypes ==
  ASSUME Types, NEW f \in Flows, Spoken(f), UNCHANGED identity
  PROVE  Types'
  <1>1. CASE SpokenNotice(f)
    BY <1>1 DEF SpokenNotice, Go, gate, mood, vision, identity, Types, Labels, Awaits,
        Jobs, AnswerJobs, CalendarJobs, CaptureJobs
  <1>2. CASE SpokenBeforePanel(f)
    BY <1>2 DEF SpokenBeforePanel, Go, gate, vision, identity, Types, Labels, Awaits,
        Jobs, AnswerJobs, CalendarJobs, OpinionJobs
  <1>3. CASE SpokenLast(f)
    BY <1>3, EndTypes DEF SpokenLast, MoodAfter, CaptureOver, vision, identity, Types
  <1> QED BY <1>1, <1>2, <1>3 DEF Spoken

\* Each catch clause keeps the types.
LEMMA FailTypes ==
  ASSUME Types, NEW f \in Flows, Fail(f), UNCHANGED identity
  PROVE  Types'
  <1>1. CASE FailPlain(f)
    BY <1>1, EndTypes DEF FailPlain, vision, identity, Types
  <1>2. CASE FailApologising(f)
    BY <1>2 DEF FailApologising, Speak, Go, gate, vision, identity, Types, Labels,
        Awaits, Jobs, AnswerJobs, PlainJobs, CaptureJobs
  <1>3. CASE FailQuietly(f)
    BY <1>3, EndTypes DEF FailQuietly, vision, identity, Types
  <1>4. CASE FailFinally(f)
    BY <1>4, EndTypes DEF FailFinally, MoodAfter, CaptureOver, vision, identity, Types
  <1>5. CASE FailPhrase(f)
    BY <1>5 DEF FailPhrase, Go, gate, vision, identity, Types, Labels, Jobs
  <1> QED BY <1>1, <1>2, <1>3, <1>4, <1>5 DEF Fail

\* The answer of the model keeps the types.
LEMMA SearchAnswersTypes ==
  ASSUME Types, NEW f \in Flows, SearchAnswers(f)
  PROVE  Types'
  <1>1. CASE Deliver(f, "answer") /\ UNCHANGED gate
    BY <1>1 DEF SearchAnswers, Deliver, Speak, Go, gate, vision, identity, Types,
        Labels, Awaits, Jobs, AnswerJobs, PlainJobs
  <1>2. CASE End(f) /\ UNCHANGED botState
    BY <1>2, EndTypes DEF SearchAnswers, vision, identity, Types
  <1> QED BY <1>1, <1>2 DEF SearchAnswers

\* What participants and timers do keeps the types.
LEMMA TypesEnvironment ==
  ASSUME Types, Environment
  PROVE  Types'
  BY SMTT(30) DEF Environment, AiMute, BargeIn, PublishingTimeout, ForceOpen,
      ArmedTimeout, EnterStandbyMode, ScreenShareStarts, ScreenShareEnds,
      CooldownOver, CaptureOverdue, Types, Ids, Labels, Awaits, Jobs, CaptureJobs,
      AnswerJobs, PlainJobs, CalendarJobs, AgentJobs, OpinionJobs, gate, mood, vision,
      settings, flow, identity

\* The start of every kind of flow keeps the types.
LEMMA TypesStarts ==
  ASSUME Types, NEW f \in Flows,
        (\E u \in Users : Heard(f, u)) \/ TimerAlert(f) \/ GreetOnJoin(f)
         \/ PerplexityMessage(f) \/ ExplainGeneratedDiagrams(f)
         \/ CaptureResponse(f)
  PROVE  Types'
  BY SMTT(30) DEF Heard, Go, TimerAlert, GreetOnJoin, PerplexityMessage,
      ExplainGeneratedDiagrams, Publish, Speak, CaptureResponse, BeginCapture, Locked,
      Types, Ids, Labels, Awaits, Jobs, CaptureJobs, AnswerJobs, PlainJobs,
      CalendarJobs, AgentJobs, OpinionJobs, gate, mood, vision, settings, flow,
      identity

\* An utterance, up to its branch, keeps the types.
LEMMA TypesUtterances ==
  ASSUME Types, NEW f \in Flows,
        Unrecognised(f) \/ Recognised(f) \/ Interject(f) \/ NoIntervention(f)
         \/ SessionFails(f)
  PROVE  Types'
  <1> USE DEF Types, Ids, Labels, Awaits, Jobs, CaptureJobs, AnswerJobs, PlainJobs,
      CalendarJobs, AgentJobs, OpinionJobs, gate, mood, vision, settings, flow,
      identity
  <1>1. ASSUME Unrecognised(f) \/ Interject(f) \/ SessionFails(f)
        PROVE  Types'
    BY SMTT(30), <1>1 DEF Unrecognised, Over, Go, Interject, Publish, Speak,
      SessionFails
  <1>2. ASSUME Recognised(f) PROVE Types'
    BY <1>2, ConsiderTypes DEF Recognised
  <1>3. ASSUME NoIntervention(f) PROVE Types'
    BY <1>3, ConsiderTypes DEF NoIntervention
  <1> QED BY <1>1, <1>2, <1>3

\* The end of an await of a branch keeps the types.
LEMMA TypesWorks ==
  ASSUME Types, NEW f \in Flows,
        WorkEnds(f) \/ Corrected(f) \/ WorkSpoken(f) \/ AgentAnswers(f)
         \/ SearchPlanned(f)
  PROVE  Types'
  <1> USE DEF Types, Ids, Labels, Awaits, Jobs, CaptureJobs, AnswerJobs, PlainJobs,
      CalendarJobs, AgentJobs, OpinionJobs, gate, mood, vision, settings, flow,
      identity
  <1>1. ASSUME WorkSpoken(f) \/ AgentAnswers(f) \/ SearchPlanned(f)
        PROVE  Types'
    BY SMTT(30), <1>1 DEF WorkSpoken, Speak, Go, AgentAnswers, Deliver, OwnRequest,
      SearchPlanned, StartLlm
  <1>2. ASSUME WorkEnds(f) PROVE Types'
    BY <1>2, EndTypes DEF WorkEnds
  <1>3. ASSUME Corrected(f) PROVE Types'
    BY <1>3, RespondTypes, RespondMoves, MovesTypes DEF Corrected
  <1> QED BY <1>1, <1>2, <1>3

\* A model call and its thinking phrase keeps the types.
LEMMA TypesSearches ==
  ASSUME Types, NEW f \in Flows,
        (\E g \in Flows : PhraseDue(g, f)) \/ LlmAnswers(f) \/ SearchAnswers(f)
  PROVE  Types'
  <1> USE DEF Types, Ids, Labels, Awaits, Jobs, CaptureJobs, AnswerJobs, PlainJobs,
      CalendarJobs, AgentJobs, OpinionJobs, gate, mood, vision, settings, flow,
      identity
  <1>1. ASSUME (\E g \in Flows : PhraseDue(g, f)) \/ LlmAnswers(f)
        PROVE  Types'
    BY SMTT(30), <1>1 DEF PhraseDue, OwnRequest, Over, Speak, Go, LlmAnswers
  <1>2. ASSUME SearchAnswers(f) PROVE Types'
    BY <1>2, SearchAnswersTypes
  <1> QED BY <1>1, <1>2

\* Speech, and a failing await, keeps the types.
LEMMA TypesSpeeches ==
  ASSUME Types, NEW f \in Flows,
        Synthesised(f) \/ Told(f) \/ Played(f) \/ SpeechReturns(f)
         \/ AwaitFails(f)
  PROVE  Types'
  <1> USE DEF Types, Ids, Labels, Awaits, Jobs, CaptureJobs, AnswerJobs, PlainJobs,
      CalendarJobs, AgentJobs, OpinionJobs, gate, mood, vision, settings, flow,
      identity
  <1>1. ASSUME Synthesised(f) \/ Told(f)
        PROVE  Types'
    BY SMTT(30), <1>1 DEF Synthesised, Superseded, Go, Told
  <1>2. ASSUME Played(f) PROVE Types'
    <2>1. CASE job[f] = "greeting"
      BY <1>2, <2>1, SpokenTypes DEF Played, Spoken
    <2>2. CASE job[f] # "greeting"
      BY <1>2, <2>2 DEF Played, Go
    <2> QED BY <2>1, <2>2
  <1>3. ASSUME SpeechReturns(f) PROVE Types'
    BY <1>3, SpokenTypes DEF SpeechReturns
  <1>4. ASSUME AwaitFails(f) PROVE Types'
    BY <1>4, FailTypes DEF AwaitFails
  <1> QED BY <1>1, <1>2, <1>3, <1>4

\* An await of another handler keeps the types.
LEMMA TypesOthers ==
  ASSUME Types, NEW f \in Flows,
        TimerAlertSent(f) \/ MessageHandled(f) \/ MessageAnswered(f)
         \/ LockFreed(f) \/ LockTimeout(f)
  PROVE  Types'
  BY SMTT(30) DEF TimerAlertSent, Over, Speak, Go, MessageHandled, MessageAnswered,
      Publish, LockFreed, BeginCapture, Locked, LockTimeout, Types, Ids, Labels,
      Awaits, Jobs, CaptureJobs, AnswerJobs, PlainJobs, CalendarJobs, AgentJobs,
      OpinionJobs, gate, mood, vision, settings, flow, identity

\* Every step keeps the types.
LEMMA TypesStep ==
  ASSUME Types, [Next]_vars
  PROVE  Types'
  <1>1. CASE UNCHANGED vars
    BY <1>1 DEF vars, Types, Ids, Labels, Awaits, Jobs, CaptureJobs, AnswerJobs,
      PlainJobs, CalendarJobs, AgentJobs, OpinionJobs, gate, mood, vision, settings,
      flow, identity
  <1>2. CASE Next
    BY <1>2, TypesEnvironment, TypesStarts, TypesUtterances,
       TypesWorks, TypesSearches, TypesSpeeches, TypesOthers
       DEF Next, Start, Settle
  <1> QED BY <1>1, <1>2

-----------------------------------------------------------------------------
(* Flags: the Boolean variables.                                           *)

\* The end of a handler, with its finally clause keeps the Boolean types.
LEMMA EndFlags ==
  ASSUME Flags, NEW f \in Flows, End(f)
  PROVE  isPublishing' \in BOOLEAN /\ forced' \in BOOLEAN
  <1>1. CASE UNCHANGED gate
    BY <1>1, Zenon DEF gate, Flags
  <1>2. CASE isPublishing' = (IF OwnRequest(f) THEN FALSE ELSE isPublishing) /\ UNCHANGED <<currentRequestId, forced>>
    BY <1>2, Zenon DEF Flags
  <1>3. CASE ForceOpen({f})
    BY <1>3, Zenon DEF ForceOpen, Flags
  <1> QED BY <1>1, <1>2, <1>3 DEF End, Finally

\* The part of processAndRespond from the wake word on keeps the Boolean types.
LEMMA RespondFlags ==
  ASSUME Flags, NEW f \in Flows, Respond(f)
  PROVE  cooling' \in BOOLEAN /\ stranded' \in BOOLEAN
  BY DEF Respond, mood, Flags

\* Each branch of processAndRespond keeps the Boolean types.
LEMMA BranchFlags ==
  ASSUME Flags, NEW f \in Flows, Branch(f)
  PROVE  /\ cooling' \in BOOLEAN /\ stranded' \in BOOLEAN
         /\ isVisionMode' \in BOOLEAN /\ overdue' \in BOOLEAN /\ processingLock' \in BOOLEAN
  <1>1. ASSUME UNCHANGED vision
        PROVE  isVisionMode' \in BOOLEAN /\ overdue' \in BOOLEAN /\ processingLock' \in BOOLEAN
    BY <1>1 DEF vision, Flags
  <1>2. ASSUME AskCapture(f)
        PROVE  isVisionMode' \in BOOLEAN /\ overdue' \in BOOLEAN /\ processingLock' \in BOOLEAN
    BY <1>2, Zenon DEF AskCapture, Flags
  <1>3. cooling' \in BOOLEAN /\ stranded' \in BOOLEAN
    BY RespondFlags DEF Branch, AskCapture, mood, Flags
  <1> QED BY <1>1, <1>2, <1>3 DEF Branch

\* What processAndRespond does after recognition keeps the Boolean types.
LEMMA ConsiderFlags ==
  ASSUME Flags, NEW f \in Flows, Consider(f)
  PROVE  Flags'
  <1>1. ASSUME UNCHANGED <<gate, mood, vision>> PROVE Flags'
    BY <1>1 DEF Consider, gate, mood, vision, settings, Flags
  <1>2. ASSUME Admit(f) PROVE Flags'
    <2>1. isPublishing' \in BOOLEAN /\ forced' \in BOOLEAN
      BY <1>2, Zenon DEF Admit, Flags
    <2>2. Branch(f)
      BY <1>2 DEF Admit
    <2> QED BY <2>1, <2>2, BranchFlags DEF Consider, settings, Flags
  <1> QED BY <1>1, <1>2 DEF Consider

\* A corrected text keeps the Boolean types.
LEMMA CorrectedFlags ==
  ASSUME Flags, NEW f \in Flows, Corrected(f)
  PROVE  Flags'
  <1>1. isPublishing' \in BOOLEAN
    BY Zenon DEF Corrected, Flags
  <1> QED BY <1>1, RespondFlags DEF Corrected, vision, settings, Flags

\* The end of the last words keeps the Boolean types.
LEMMA SpokenLastFlags ==
  ASSUME Flags, NEW f \in Flows, SpokenLast(f)
  PROVE  /\ isPublishing' \in BOOLEAN /\ forced' \in BOOLEAN
         /\ cooling' \in BOOLEAN /\ stranded' \in BOOLEAN
         /\ isVisionMode' \in BOOLEAN /\ overdue' \in BOOLEAN /\ processingLock' \in BOOLEAN
  <1>1. isPublishing' \in BOOLEAN /\ forced' \in BOOLEAN
    BY EndFlags DEF SpokenLast
  <1>2. cooling' \in BOOLEAN /\ stranded' \in BOOLEAN
    BY Zenon DEF SpokenLast, Flags
  <1>3. isVisionMode' \in BOOLEAN /\ overdue' \in BOOLEAN /\ processingLock' \in BOOLEAN
    <2>1. CASE CaptureOver
      BY <2>1, Zenon DEF CaptureOver
    <2>2. CASE UNCHANGED vision
      BY <2>2 DEF vision, Flags
    <2> QED BY <2>1, <2>2 DEF SpokenLast
  <1> QED BY <1>1, <1>2, <1>3

\* The return of speakAndPublish keeps the Boolean types.
LEMMA SpokenFlags ==
  ASSUME Flags, NEW f \in Flows, Spoken(f)
  PROVE  /\ isPublishing' \in BOOLEAN /\ forced' \in BOOLEAN
         /\ cooling' \in BOOLEAN /\ stranded' \in BOOLEAN
         /\ isVisionMode' \in BOOLEAN /\ overdue' \in BOOLEAN /\ processingLock' \in BOOLEAN
  <1>1. CASE SpokenNotice(f)
    BY <1>1 DEF SpokenNotice, gate, mood, vision, Flags
  <1>2. CASE SpokenBeforePanel(f)
    <2>1. cooling' \in BOOLEAN
      BY <1>2, Zenon DEF SpokenBeforePanel
    <2> QED BY <1>2, <2>1 DEF SpokenBeforePanel, gate, vision, Flags
  <1> QED BY <1>1, <1>2, SpokenLastFlags DEF Spoken

\* Each catch clause keeps the Boolean types.
LEMMA FailFlags ==
  ASSUME Flags, NEW f \in Flows, Fail(f)
  PROVE  /\ isPublishing' \in BOOLEAN /\ forced' \in BOOLEAN
         /\ cooling' \in BOOLEAN /\ stranded' \in BOOLEAN
         /\ isVisionMode' \in BOOLEAN /\ overdue' \in BOOLEAN /\ processingLock' \in BOOLEAN
  <1>1. CASE FailPlain(f)
    BY <1>1, EndFlags DEF FailPlain, vision, Flags
  <1>2. CASE FailApologising(f)
    BY <1>2 DEF FailApologising, gate, vision, Flags
  <1>3. CASE FailQuietly(f)
    <2>1. stranded' \in BOOLEAN
      BY <1>3, Zenon DEF FailQuietly, Flags
    <2> QED BY <1>3, <2>1, EndFlags DEF FailQuietly, vision, Flags
  <1>4. CASE FailFinally(f)
    <2>1. cooling' \in BOOLEAN
      BY <1>4, Zenon DEF FailFinally, Flags
    <2>2. isVisionMode' \in BOOLEAN /\ overdue' \in BOOLEAN /\ processingLock' \in BOOLEAN
      <3>1. CASE CaptureOver
        BY <3>1, Zenon DEF CaptureOver
      <3>2. CASE UNCHANGED vision
        BY <3>2 DEF vision, Flags
      <3> QED BY <1>4, <3>1, <3>2 DEF FailFinally
    <2> QED BY <1>4, <2>1, <2>2, EndFlags DEF FailFinally, Flags
  <1>5. CASE FailPhrase(f)
    <2>1. stranded' \in BOOLEAN
      BY <1>5, Zenon DEF FailPhrase, Flags
    <2> QED BY <1>5, <2>1 DEF FailPhrase, gate, vision, Flags
  <1> QED BY <1>1, <1>2, <1>3, <1>4, <1>5 DEF Fail

\* The answer of the model keeps the Boolean types.
LEMMA SearchAnswersFlags ==
  ASSUME Flags, NEW f \in Flows, SearchAnswers(f)
  PROVE  Flags'
  <1>1. shouldInterrupt' \in BOOLEAN
    BY Zenon DEF SearchAnswers, Deliver, Flags
  <1>2. isPublishing' \in BOOLEAN /\ forced' \in BOOLEAN
    BY EndFlags DEF SearchAnswers, gate, Flags
  <1> QED BY <1>1, <1>2 DEF SearchAnswers, vision, settings, Flags

\* The end of the playing keeps the Boolean types.
LEMMA PlayedFlags ==
  ASSUME Flags, NEW f \in Flows, Played(f)
  PROVE  Flags'
  <1>1. shouldInterrupt' \in BOOLEAN
    BY Zenon DEF Played
  <1> QED BY <1>1, SpokenLastFlags DEF Played, gate, mood, vision, settings, Flags

\* A capture response with the lock keeps the Boolean types.
LEMMA BeginCaptureFlags ==
  ASSUME Flags, NEW f \in Flows, NEW id, BeginCapture(f, id)
  PROVE  Flags'
  <1>1. isPublishing' \in BOOLEAN /\ processingLock' \in BOOLEAN
    BY Zenon DEF BeginCapture, Publish
  <1> QED BY <1>1 DEF BeginCapture, Publish, settings, Flags

\* What participants and timers do keeps the Boolean types.
LEMMA FlagsEnvironment ==
  ASSUME Flags, Environment
  PROVE  Flags'
  <1> USE DEF Flags, gate, mood, vision, settings, flow, identity
  <1>1. ASSUME (\E m \in BOOLEAN : AiMute(m)) PROVE Flags'
    BY <1>1 DEF AiMute
  <1>2. ASSUME (\E u \in Users : BargeIn(u)) PROVE Flags'
    BY <1>2 DEF BargeIn
  <1>3. ASSUME PublishingTimeout PROVE Flags'
    BY <1>3 DEF PublishingTimeout, ForceOpen
  <1>4. ASSUME ArmedTimeout PROVE Flags'
    BY <1>4 DEF ArmedTimeout
  <1>5. ASSUME EnterStandbyMode PROVE Flags'
    BY <1>5 DEF EnterStandbyMode
  <1>6. ASSUME ScreenShareStarts PROVE Flags'
    BY <1>6 DEF ScreenShareStarts
  <1>7. ASSUME ScreenShareEnds PROVE Flags'
    BY <1>7 DEF ScreenShareEnds
  <1>8. ASSUME CooldownOver PROVE Flags'
    BY <1>8 DEF CooldownOver
  <1>9. ASSUME CaptureOverdue PROVE Flags'
    BY <1>9 DEF CaptureOverdue
  <1> QED BY <1>1, <1>2, <1>3, <1>4, <1>5, <1>6, <1>7, <1>8, <1>9 DEF Environment

\* The start of every kind of flow keeps the Boolean types.
LEMMA FlagsStarts ==
  ASSUME Flags, NEW f \in Flows,
        (\E u \in Users : Heard(f, u)) \/ TimerAlert(f) \/ GreetOnJoin(f)
         \/ PerplexityMessage(f) \/ ExplainGeneratedDiagrams(f)
         \/ CaptureResponse(f)
  PROVE  Flags'
  <1> USE DEF Flags, gate, mood, vision, settings, flow, identity
  <1>1. ASSUME NEW u \in Users, Heard(f, u) PROVE Flags'
    BY <1>1 DEF Heard, Go
  <1>2. ASSUME TimerAlert(f) PROVE Flags'
    BY <1>2 DEF TimerAlert, Go
  <1>3. ASSUME GreetOnJoin(f) PROVE Flags'
    BY <1>3 DEF GreetOnJoin, Go
  <1>4. ASSUME PerplexityMessage(f) PROVE Flags'
    BY <1>4 DEF PerplexityMessage, Go
  <1>5. ASSUME ExplainGeneratedDiagrams(f) PROVE Flags'
    BY <1>5 DEF ExplainGeneratedDiagrams, Publish, Speak, Go
  <1>6. ASSUME CaptureResponse(f) PROVE Flags'
    BY <1>6, BeginCaptureFlags DEF CaptureResponse
  <1> QED BY <1>1, <1>2, <1>3, <1>4, <1>5, <1>6

\* An utterance, up to its branch, keeps the Boolean types.
LEMMA FlagsUtterances ==
  ASSUME Flags, NEW f \in Flows,
        Unrecognised(f) \/ Recognised(f) \/ Interject(f) \/ NoIntervention(f)
         \/ SessionFails(f)
  PROVE  Flags'
  <1> USE DEF Flags, gate, mood, vision, settings, flow, identity
  <1>1. ASSUME Unrecognised(f) PROVE Flags'
    BY <1>1 DEF Unrecognised, Over, Go
  <1>2. ASSUME Interject(f) PROVE Flags'
    BY <1>2 DEF Interject, Publish, Speak, Go
  <1>3. ASSUME SessionFails(f) PROVE Flags'
    BY <1>3 DEF SessionFails, Over, Go
  <1>4. ASSUME Recognised(f) PROVE Flags'
    BY <1>4, ConsiderFlags DEF Recognised
  <1>5. ASSUME NoIntervention(f) PROVE Flags'
    BY <1>5, ConsiderFlags DEF NoIntervention
  <1> QED BY <1>1, <1>2, <1>3, <1>4, <1>5

\* The end of an await of a branch keeps the Boolean types.
LEMMA FlagsWorks ==
  ASSUME Flags, NEW f \in Flows,
        WorkEnds(f) \/ Corrected(f) \/ WorkSpoken(f) \/ AgentAnswers(f)
         \/ SearchPlanned(f)
  PROVE  Flags'
  <1> USE DEF Flags, gate, mood, vision, settings, flow, identity
  <1>1. ASSUME WorkSpoken(f) PROVE Flags'
    BY <1>1 DEF WorkSpoken, Speak, Go
  <1>2. ASSUME AgentAnswers(f) PROVE Flags'
    BY <1>2 DEF AgentAnswers, Deliver, OwnRequest, Speak, Go
  <1>3. ASSUME SearchPlanned(f) PROVE Flags'
    BY <1>3 DEF SearchPlanned, StartLlm, Go
  <1>4. ASSUME WorkEnds(f) PROVE Flags'
    BY <1>4, EndFlags DEF WorkEnds
  <1>5. ASSUME Corrected(f) PROVE Flags'
    BY <1>5, CorrectedFlags
  <1> QED BY <1>1, <1>2, <1>3, <1>4, <1>5

\* A model call and its thinking phrase keeps the Boolean types.
LEMMA FlagsSearches ==
  ASSUME Flags, NEW f \in Flows,
        (\E g \in Flows : PhraseDue(g, f)) \/ LlmAnswers(f) \/ SearchAnswers(f)
  PROVE  Flags'
  <1> USE DEF Flags, gate, mood, vision, settings, flow, identity
  <1>1. ASSUME NEW g \in Flows, PhraseDue(g, f) PROVE Flags'
    BY <1>1 DEF PhraseDue, OwnRequest, Over, Speak, Go
  <1>2. ASSUME LlmAnswers(f) PROVE Flags'
    BY <1>2 DEF LlmAnswers, Go
  <1>3. ASSUME SearchAnswers(f) PROVE Flags'
    BY <1>3, SearchAnswersFlags
  <1> QED BY <1>1, <1>2, <1>3

\* Speech, and a failing await, keeps the Boolean types.
LEMMA FlagsSpeeches ==
  ASSUME Flags, NEW f \in Flows,
        Synthesised(f) \/ Told(f) \/ Played(f) \/ SpeechReturns(f)
         \/ AwaitFails(f)
  PROVE  Flags'
  <1> USE DEF Flags, gate, mood, vision, settings, flow, identity
  <1>1. ASSUME Synthesised(f) PROVE Flags'
    BY <1>1 DEF Synthesised, Superseded, Go
  <1>2. ASSUME Told(f) PROVE Flags'
    BY <1>2 DEF Told, Go
  <1>3. ASSUME Played(f) PROVE Flags'
    BY <1>3, PlayedFlags
  <1>4. ASSUME SpeechReturns(f) PROVE Flags'
    BY <1>4, SpokenFlags DEF SpeechReturns
  <1>5. ASSUME AwaitFails(f) PROVE Flags'
    BY <1>5, FailFlags DEF AwaitFails
  <1> QED BY <1>1, <1>2, <1>3, <1>4, <1>5

\* An await of another handler keeps the Boolean types.
LEMMA FlagsOthers ==
  ASSUME Flags, NEW f \in Flows,
        TimerAlertSent(f) \/ MessageHandled(f) \/ MessageAnswered(f)
         \/ LockFreed(f) \/ LockTimeout(f)
  PROVE  Flags'
  <1> USE DEF Flags, gate, mood, vision, settings, flow, identity
  <1>1. ASSUME TimerAlertSent(f) PROVE Flags'
    BY <1>1 DEF TimerAlertSent, Over, Speak, Go
  <1>2. ASSUME MessageHandled(f) PROVE Flags'
    BY <1>2 DEF MessageHandled, Over, Go
  <1>3. ASSUME MessageAnswered(f) PROVE Flags'
    BY <1>3 DEF MessageAnswered, Publish, Speak, Go
  <1>4. ASSUME LockTimeout(f) PROVE Flags'
    BY <1>4 DEF LockTimeout, Over, Locked, Go
  <1>5. ASSUME LockFreed(f) PROVE Flags'
    BY <1>5, BeginCaptureFlags DEF LockFreed
  <1> QED BY <1>1, <1>2, <1>3, <1>4, <1>5

\* Every step keeps the Boolean types.
LEMMA FlagsStep ==
  ASSUME Flags, [Next]_vars
  PROVE  Flags'
  <1>1. CASE UNCHANGED vars
    BY <1>1 DEF vars, Flags, gate, mood, vision, settings, flow, identity
  <1>2. CASE Next
    BY <1>2, FlagsEnvironment, FlagsStarts, FlagsUtterances,
       FlagsWorks, FlagsSearches, FlagsSpeeches, FlagsOthers
       DEF Next, Start, Settle
  <1> QED BY <1>1, <1>2

-----------------------------------------------------------------------------
(* VisionAwaits.                                                           *)

\* What processAndRespond does after recognition keeps VisionAwaits.
LEMMA ConsiderVisionAwaits ==
  ASSUME VisionAwaits, NEW f \in Flows, Consider(f)
  PROVE  VisionAwaits'
  <1>1. ASSUME UNCHANGED vision PROVE VisionAwaits'
    BY <1>1 DEF vision, VisionAwaits
  <1>2. ASSUME AskCapture(f) PROVE VisionAwaits'
    BY <1>2, IdsAssumption DEF AskCapture, VisionAwaits
  <1> QED BY <1>1, <1>2 DEF Consider, Admit, Branch

\* What participants and timers do keeps VisionAwaits.
LEMMA VisionAwaitsEnvironment ==
  ASSUME Types, VisionAwaits, Environment
  PROVE  VisionAwaits'
  <1> USE DEF VisionAwaits, gate, mood, vision, settings, flow, identity
  <1>1. ASSUME (\E m \in BOOLEAN : AiMute(m)) PROVE VisionAwaits'
    BY <1>1 DEF AiMute
  <1>2. ASSUME (\E u \in Users : BargeIn(u)) PROVE VisionAwaits'
    BY <1>2 DEF BargeIn
  <1>3. ASSUME PublishingTimeout PROVE VisionAwaits'
    BY <1>3 DEF PublishingTimeout, ForceOpen
  <1>4. ASSUME ArmedTimeout PROVE VisionAwaits'
    BY <1>4 DEF ArmedTimeout
  <1>5. ASSUME EnterStandbyMode PROVE VisionAwaits'
    BY <1>5 DEF EnterStandbyMode
  <1>6. ASSUME ScreenShareStarts PROVE VisionAwaits'
    BY <1>6 DEF ScreenShareStarts
  <1>7. ASSUME ScreenShareEnds PROVE VisionAwaits'
    BY <1>7 DEF ScreenShareEnds
  <1>8. ASSUME CooldownOver PROVE VisionAwaits'
    BY <1>8 DEF CooldownOver
  <1>9. ASSUME CaptureOverdue PROVE VisionAwaits'
    BY <1>9 DEF CaptureOverdue
  <1> QED BY <1>1, <1>2, <1>3, <1>4, <1>5, <1>6, <1>7, <1>8, <1>9 DEF Environment

\* The start of every kind of flow keeps VisionAwaits.
LEMMA VisionAwaitsStarts ==
  ASSUME Types, VisionAwaits, NEW f \in Flows,
        (\E u \in Users : Heard(f, u)) \/ TimerAlert(f) \/ GreetOnJoin(f)
         \/ PerplexityMessage(f) \/ ExplainGeneratedDiagrams(f)
         \/ CaptureResponse(f)
  PROVE  VisionAwaits'
  <1> USE DEF VisionAwaits, gate, mood, vision, settings, flow, identity
  <1>1. ASSUME NEW u \in Users, Heard(f, u) PROVE VisionAwaits'
    BY <1>1 DEF Heard, Go
  <1>2. ASSUME TimerAlert(f) PROVE VisionAwaits'
    BY <1>2 DEF TimerAlert, Go
  <1>3. ASSUME GreetOnJoin(f) PROVE VisionAwaits'
    BY <1>3 DEF GreetOnJoin, Go
  <1>4. ASSUME PerplexityMessage(f) PROVE VisionAwaits'
    BY <1>4 DEF PerplexityMessage, Go
  <1>5. ASSUME ExplainGeneratedDiagrams(f) PROVE VisionAwaits'
    BY <1>5 DEF ExplainGeneratedDiagrams, Publish, Speak, Go
  <1>6. ASSUME CaptureResponse(f) PROVE VisionAwaits'
    BY <1>6 DEF CaptureResponse, BeginCapture, Publish, Locked, Speak, Go
  <1> QED BY <1>1, <1>2, <1>3, <1>4, <1>5, <1>6

\* An utterance, up to its branch, keeps VisionAwaits.
LEMMA VisionAwaitsUtterances ==
  ASSUME Types, VisionAwaits, NEW f \in Flows,
        Unrecognised(f) \/ Recognised(f) \/ Interject(f) \/ NoIntervention(f)
         \/ SessionFails(f)
  PROVE  VisionAwaits'
  <1> USE DEF VisionAwaits, gate, mood, vision, settings, flow, identity
  <1>1. ASSUME Unrecognised(f) PROVE VisionAwaits'
    BY <1>1 DEF Unrecognised, Over, Go
  <1>2. ASSUME Interject(f) PROVE VisionAwaits'
    BY <1>2 DEF Interject, Publish, Speak, Go
  <1>3. ASSUME SessionFails(f) PROVE VisionAwaits'
    BY <1>3 DEF SessionFails, Over, Go
  <1>4. ASSUME Recognised(f) PROVE VisionAwaits'
    BY <1>4, ConsiderVisionAwaits DEF Recognised
  <1>5. ASSUME NoIntervention(f) PROVE VisionAwaits'
    BY <1>5, ConsiderVisionAwaits DEF NoIntervention
  <1> QED BY <1>1, <1>2, <1>3, <1>4, <1>5

\* The end of an await of a branch keeps VisionAwaits.
LEMMA VisionAwaitsWorks ==
  ASSUME Types, VisionAwaits, NEW f \in Flows,
        WorkEnds(f) \/ Corrected(f) \/ WorkSpoken(f) \/ AgentAnswers(f)
         \/ SearchPlanned(f)
  PROVE  VisionAwaits'
  <1> USE DEF VisionAwaits, gate, mood, vision, settings, flow, identity
  <1>1. ASSUME WorkEnds(f) PROVE VisionAwaits'
    BY <1>1 DEF WorkEnds, End, Over, Go, Finally, ForceOpen, OwnRequest
  <1>2. ASSUME Corrected(f) PROVE VisionAwaits'
    BY <1>2 DEF Corrected, OwnRequest, Respond, AnswerQuestion, StartLlm, Over, Speak,
      Go
  <1>3. ASSUME WorkSpoken(f) PROVE VisionAwaits'
    BY <1>3 DEF WorkSpoken, Speak, Go
  <1>4. ASSUME AgentAnswers(f) PROVE VisionAwaits'
    BY <1>4 DEF AgentAnswers, Deliver, OwnRequest, Speak, Go
  <1>5. ASSUME SearchPlanned(f) PROVE VisionAwaits'
    BY <1>5 DEF SearchPlanned, StartLlm, Go
  <1> QED BY <1>1, <1>2, <1>3, <1>4, <1>5

\* A model call and its thinking phrase keeps VisionAwaits.
LEMMA VisionAwaitsSearches ==
  ASSUME Types, VisionAwaits, NEW f \in Flows,
        (\E g \in Flows : PhraseDue(g, f)) \/ LlmAnswers(f) \/ SearchAnswers(f)
  PROVE  VisionAwaits'
  <1> USE DEF VisionAwaits, gate, mood, vision, settings, flow, identity
  <1>1. ASSUME NEW g \in Flows, PhraseDue(g, f) PROVE VisionAwaits'
    BY <1>1 DEF PhraseDue, OwnRequest, Over, Speak, Go
  <1>2. ASSUME LlmAnswers(f) PROVE VisionAwaits'
    BY <1>2 DEF LlmAnswers, Go
  <1>3. ASSUME SearchAnswers(f) PROVE VisionAwaits'
    BY <1>3 DEF SearchAnswers, Deliver, PhraseOver, Speak, End, Over, Go, Finally,
      ForceOpen, OwnRequest
  <1> QED BY <1>1, <1>2, <1>3

\* Speech, and a failing await, keeps VisionAwaits.
LEMMA VisionAwaitsSpeeches ==
  ASSUME Types, VisionAwaits, NEW f \in Flows,
        Synthesised(f) \/ Told(f) \/ Played(f) \/ SpeechReturns(f)
         \/ AwaitFails(f)
  PROVE  VisionAwaits'
  <1> USE DEF VisionAwaits, gate, mood, vision, settings, flow, identity
  <1>1. ASSUME Synthesised(f) PROVE VisionAwaits'
    BY <1>1 DEF Synthesised, Superseded, Go
  <1>2. ASSUME Told(f) PROVE VisionAwaits'
    BY <1>2 DEF Told, Go
  <1>3. ASSUME Played(f) PROVE VisionAwaits'
    BY <1>3 DEF Played, SpokenLast, MoodAfter, CaptureOver, End, Over, Go, Finally,
      ForceOpen, OwnRequest
  <1>4. ASSUME SpeechReturns(f) PROVE VisionAwaits'
    BY <1>4 DEF SpeechReturns, Spoken, SpokenNotice, SpokenBeforePanel, SpokenLast,
      MoodAfter, CaptureOver, Superseded, End, Over, Go, Finally, ForceOpen,
      OwnRequest
  <1>5. ASSUME AwaitFails(f) PROVE VisionAwaits'
    BY <1>5 DEF AwaitFails, Fail, FailPlain, FailApologising, FailQuietly,
      FailFinally, FailPhrase, MoodAfter, CaptureOver, Speak, End, Over, Go, Finally,
      ForceOpen, OwnRequest
  <1> QED BY <1>1, <1>2, <1>3, <1>4, <1>5

\* An await of another handler keeps VisionAwaits.
LEMMA VisionAwaitsOthers ==
  ASSUME Types, VisionAwaits, NEW f \in Flows,
        TimerAlertSent(f) \/ MessageHandled(f) \/ MessageAnswered(f)
         \/ LockFreed(f) \/ LockTimeout(f)
  PROVE  VisionAwaits'
  <1> USE DEF VisionAwaits, gate, mood, vision, settings, flow, identity
  <1>1. ASSUME TimerAlertSent(f) PROVE VisionAwaits'
    BY <1>1 DEF TimerAlertSent, Over, Speak, Go
  <1>2. ASSUME MessageHandled(f) PROVE VisionAwaits'
    BY <1>2 DEF MessageHandled, Over, Go
  <1>3. ASSUME MessageAnswered(f) PROVE VisionAwaits'
    BY <1>3 DEF MessageAnswered, Publish, Speak, Go
  <1>4. ASSUME LockFreed(f) PROVE VisionAwaits'
    BY <1>4 DEF LockFreed, BeginCapture, Publish, Locked, Speak, Go
  <1>5. ASSUME LockTimeout(f) PROVE VisionAwaits'
    BY <1>5 DEF LockTimeout, Over, Locked, Go
  <1> QED BY <1>1, <1>2, <1>3, <1>4, <1>5

\* Every step keeps VisionAwaits.
LEMMA VisionAwaitsStep ==
  ASSUME Types, VisionAwaits, [Next]_vars
  PROVE  VisionAwaits'
  <1>1. CASE UNCHANGED vars
    BY <1>1 DEF vars, VisionAwaits, gate, mood, vision, settings, flow, identity
  <1>2. CASE Next
    BY <1>2, VisionAwaitsEnvironment, VisionAwaitsStarts, VisionAwaitsUtterances,
       VisionAwaitsWorks, VisionAwaitsSearches, VisionAwaitsSpeeches, VisionAwaitsOthers
       DEF Next, Start, Settle
  <1> QED BY <1>1, <1>2

=============================================================================
