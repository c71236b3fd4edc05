------------------------- MODULE ResponseFlowProofs -------------------------
(***************************************************************************)
(* The safety invariants of ResponseFlow, for every number of flows,       *)
(* participants and capture requests: the remaining conjuncts of the       *)
(* inductive invariant, and the theorems.                                  *)
(***************************************************************************)
EXTENDS ResponseFlowTypes, ResponseFlowTurns

-----------------------------------------------------------------------------
(* SpeakingHasSpeaker.                                                     *)

\* What processAndRespond does after recognition keeps SpeakingHasSpeaker.
LEMMA ConsiderSpeakingHasSpeaker ==
  ASSUME Types, SpeakingHasSpeaker, NEW f \in Flows, pc[f] \in {"stt", "session"},
         job[f] = "hear", Consider(f)
  PROVE  SpeakingHasSpeaker'
  <1>1. UNCHANGED stranded
    BY DEF Consider, Admit, Branch, Respond, AskCapture, mood
  <1>2. (botState' = "SPEAKING" /\ botState # "SPEAKING") => Speaks(f)'
    <2>1. ASSUME \/ Go(f, "work", "panel")
                 \/ \E j \in {"redirect", "stop", "calendarNotice", "ready"} : Speak(f, j)
          PROVE  Speaks(f)'
      BY <2>1 DEF Speak, Go, Speaks, Speech, Types
    <2> QED BY <2>1 DEF Consider, Admit, Branch, Respond, AskCapture, mood
  <1>3. \A g \in Flows \ {f} : (pc'[g] = pc[g] /\ job'[g] = job[g]) \/ pc[g] = "idle"
    <2>1. ASSUME Go(f, "deaf", "hear") \/ Over(f)
          PROVE  \A g \in Flows \ {f} : pc'[g] = pc[g] /\ job'[g] = job[g]
      BY <2>1 DEF Over, Go, Types
    <2> QED BY <2>1, BranchProceeds DEF Consider, Admit, Proceeds
  <1>4. \A g \in Flows \ {f} : /\ thinkingTask'[g] = thinkingTask[g]
                               /\ thinkingTask[g] \in Flows
    BY DEF Consider, Admit, Branch, Respond, AnswerQuestion, StartLlm, AskCapture, Types
  <1>5. \A g \in Flows : Speaks(g) => Speaks(g)'
    <2> SUFFICES ASSUME NEW g \in Flows, Speaks(g) PROVE Speaks(g)'
      OBVIOUS
    <2>1. g # f /\ pc[g] # "idle"
      BY DEF Speaks, Speech
    <2>2. /\ pc'[g] = pc[g] /\ job'[g] = job[g]
          /\ thinkingTask'[g] = thinkingTask[g] /\ thinkingTask[g] \in Flows
      BY <1>3, <1>4, <2>1
    <2>3. pc[thinkingTask[g]] = "failed" => pc'[thinkingTask[g]] = "failed"
      BY <1>3, <2>2
    <2> QED BY <2>2, <2>3 DEF Speaks
  <1> QED BY <1>1, <1>2, <1>5 DEF SpeakingHasSpeaker

\* Each catch clause keeps SpeakingHasSpeaker.
LEMMA FailSpeakingHasSpeaker ==
  ASSUME Types, Shape, SpeakingHasSpeaker, NEW f \in Flows,
         pc[f] \notin {"done", "idle", "failed"}, Fail(f), UNCHANGED identity
  PROVE  SpeakingHasSpeaker'
  <1> USE DEF Types, SpeakingHasSpeaker, Speech
  <1>1. ASSUME FailPlain(f) PROVE SpeakingHasSpeaker'
    BY <1>1 DEF FailPlain
  <1>2. ASSUME FailApologising(f) PROVE SpeakingHasSpeaker'
    <2>1. pc'[f] \in Speech
      BY <1>2 DEF FailApologising, Speak, Go
    <2> QED BY <2>1 DEF Speaks
  <1>3. ASSUME FailQuietly(f) PROVE SpeakingHasSpeaker'
    <2>1. CASE stranded'
      BY <2>1
    <2>2. CASE ~stranded'
      <3>1. ~stranded /\ ~Speaks(f)
        BY <1>3, <2>2 DEF FailQuietly, Speaks, Shape, OpinionJobs
      <3>2. \A g \in Flows : Speaks(g) => Speaks(g)'
        BY <1>3, <3>1 DEF FailQuietly, End, Over, Go, Speaks, identity
      <3> QED BY <1>3, <3>1, <3>2 DEF FailQuietly
    <2> QED BY <2>1, <2>2
  <1>4. ASSUME FailFinally(f) PROVE SpeakingHasSpeaker'
    BY <1>4 DEF FailFinally, MoodAfter
  <1>5. ASSUME FailPhrase(f) PROVE SpeakingHasSpeaker'
    <2>1. CASE stranded'
      BY <2>1
    <2>2. CASE ~stranded'
      <3>1. PICK g \in Flows \ {f} : thinkingTask[g] = f /\ pc[g] \in {"llm", "llmDone"}
        BY <1>5, <2>2 DEF FailPhrase
      <3>2. Speaks(g)'
        BY <1>5, <3>1 DEF FailPhrase, Go, Speaks, identity
      <3> QED BY <3>2
    <2> QED BY <2>1, <2>2
  <1> QED BY <1>1, <1>2, <1>3, <1>4, <1>5 DEF Fail

\* The answer of the model keeps SpeakingHasSpeaker.
LEMMA SearchAnswersSpeakingHasSpeaker ==
  ASSUME Types, Shape, SpeakingHasSpeaker, NEW f \in Flows, SearchAnswers(f)
  PROVE  SpeakingHasSpeaker'
  <1>1. ~Speaks(f)
    BY DEF SearchAnswers, PhraseOver, Speaks, Speech
  <1>2. CASE Speak(f, "answer")
    BY <1>2 DEF Speak, Go, Types, SpeakingHasSpeaker, Speaks, Speech
  <1>3. CASE (Go(f, "work", "answer") \/ End(f)) /\ UNCHANGED botState
    <2>1. \A g \in Flows : Speaks(g) => Speaks(g)'
      BY <1>1, <1>3 DEF SearchAnswers, End, Over, Go, Types, Speaks, identity
    <2> QED BY <1>3, <2>1 DEF SearchAnswers, SpeakingHasSpeaker
  <1> QED BY <1>2, <1>3 DEF SearchAnswers, Deliver

\* What participants and timers do keeps SpeakingHasSpeaker.
LEMMA SpeakingHasSpeakerEnvironment ==
  ASSUME SpeakingHasSpeaker, Environment
  PROVE  SpeakingHasSpeaker'
  <1>1. \A f \in Flows : Speaks(f)' <=> Speaks(f)
    BY EnvironmentFrame DEF flow, identity, Speaks
  <1> QED BY <1>1, EnvironmentFrame DEF SpeakingHasSpeaker

\* The start of every kind of flow keeps SpeakingHasSpeaker.
LEMMA SpeakingHasSpeakerStarts ==
  ASSUME Types, Shape, SpeakingHasSpeaker, NEW f \in Flows,
        (\E u \in Users : Heard(f, u)) \/ TimerAlert(f) \/ GreetOnJoin(f)
         \/ PerplexityMessage(f) \/ ExplainGeneratedDiagrams(f)
         \/ CaptureResponse(f)
  PROVE  SpeakingHasSpeaker'
  <1> USE DEF Types, Shape, SpeakingHasSpeaker, Speaks, Speech, Awaits, CaptureJobs,
      AnswerJobs, PlainJobs, CalendarJobs, AgentJobs, OpinionJobs, gate, mood, vision,
      settings, flow, identity
  <1>1. ASSUME NEW u \in Users, Heard(f, u) PROVE SpeakingHasSpeaker'
    BY <1>1 DEF Heard, Go
  <1>2. ASSUME TimerAlert(f) PROVE SpeakingHasSpeaker'
    BY <1>2 DEF TimerAlert, Go
  <1>3. ASSUME GreetOnJoin(f) PROVE SpeakingHasSpeaker'
    BY <1>3 DEF GreetOnJoin, Go
  <1>4. ASSUME PerplexityMessage(f) PROVE SpeakingHasSpeaker'
    BY <1>4 DEF PerplexityMessage, Go
  <1>5. ASSUME ExplainGeneratedDiagrams(f) PROVE SpeakingHasSpeaker'
    BY <1>5 DEF ExplainGeneratedDiagrams, Publish, Speak, Go
  <1>6. ASSUME CaptureResponse(f) PROVE SpeakingHasSpeaker'
    BY <1>6 DEF CaptureResponse, BeginCapture, Publish, Locked, Speak, Go
  <1> QED BY <1>1, <1>2, <1>3, <1>4, <1>5, <1>6

\* An utterance, up to its branch, keeps SpeakingHasSpeaker.
LEMMA SpeakingHasSpeakerUtterances ==
  ASSUME Types, Shape, SpeakingHasSpeaker, NEW f \in Flows,
        Unrecognised(f) \/ Recognised(f) \/ Interject(f) \/ NoIntervention(f)
         \/ SessionFails(f)
  PROVE  SpeakingHasSpeaker'
  <1> USE DEF Types, Shape, SpeakingHasSpeaker, Speaks, Speech, Awaits, CaptureJobs,
      AnswerJobs, PlainJobs, CalendarJobs, AgentJobs, OpinionJobs, gate, mood, vision,
      settings, flow, identity
  <1>1. ASSUME Unrecognised(f) PROVE SpeakingHasSpeaker'
    BY <1>1 DEF Unrecognised, Over, Go
  <1>2. ASSUME Interject(f) PROVE SpeakingHasSpeaker'
    BY <1>2 DEF Interject, Publish, Speak, Go
  <1>3. ASSUME SessionFails(f) PROVE SpeakingHasSpeaker'
    BY <1>3 DEF SessionFails, Over, Go
  <1>4. ASSUME Recognised(f) PROVE SpeakingHasSpeaker'
    BY <1>4, ConsiderSpeakingHasSpeaker DEF Recognised
  <1>5. ASSUME NoIntervention(f) PROVE SpeakingHasSpeaker'
    BY <1>5, ConsiderSpeakingHasSpeaker DEF NoIntervention
  <1> QED BY <1>1, <1>2, <1>3, <1>4, <1>5

\* The end of an await of a branch keeps SpeakingHasSpeaker.
LEMMA SpeakingHasSpeakerWorks ==
  ASSUME Types, Shape, SpeakingHasSpeaker, NEW f \in Flows,
        WorkEnds(f) \/ Corrected(f) \/ WorkSpoken(f) \/ AgentAnswers(f)
         \/ SearchPlanned(f)
  PROVE  SpeakingHasSpeaker'
  <1> USE DEF Types, Shape, SpeakingHasSpeaker, Speaks, Speech, Awaits, CaptureJobs,
      AnswerJobs, PlainJobs, CalendarJobs, AgentJobs, OpinionJobs, gate, mood, vision,
      settings, flow, identity
  <1>1. ASSUME WorkEnds(f) PROVE SpeakingHasSpeaker'
    BY <1>1 DEF WorkEnds, End, Over, Go, Finally, ForceOpen, OwnRequest
  <1>2. ASSUME Corrected(f) PROVE SpeakingHasSpeaker'
    BY <1>2 DEF Corrected, OwnRequest, Respond, AnswerQuestion, StartLlm, Over, Speak,
      Go
  <1>3. ASSUME WorkSpoken(f) PROVE SpeakingHasSpeaker'
    BY <1>3 DEF WorkSpoken, Speak, Go
  <1>4. ASSUME AgentAnswers(f) PROVE SpeakingHasSpeaker'
    BY <1>4 DEF AgentAnswers, Deliver, OwnRequest, Speak, Go
  <1>5. ASSUME SearchPlanned(f) PROVE SpeakingHasSpeaker'
    BY <1>5 DEF SearchPlanned, StartLlm, Go
  <1> QED BY <1>1, <1>2, <1>3, <1>4, <1>5

\* A model call and its thinking phrase keeps SpeakingHasSpeaker.
LEMMA SpeakingHasSpeakerSearches ==
  ASSUME Types, Shape, SpeakingHasSpeaker, NEW f \in Flows,
        (\E g \in Flows : PhraseDue(g, f)) \/ LlmAnswers(f) \/ SearchAnswers(f)
  PROVE  SpeakingHasSpeaker'
  <1> USE DEF Types, Shape, SpeakingHasSpeaker, Speaks, Speech, Awaits, CaptureJobs,
      AnswerJobs, PlainJobs, CalendarJobs, AgentJobs, OpinionJobs, gate, mood, vision,
      settings, flow, identity
  <1>1. ASSUME NEW g \in Flows, PhraseDue(g, f) PROVE SpeakingHasSpeaker'
    BY <1>1 DEF PhraseDue, OwnRequest, Over, Speak, Go
  <1>2. ASSUME LlmAnswers(f) PROVE SpeakingHasSpeaker'
    BY <1>2 DEF LlmAnswers, Go
  <1>3. ASSUME SearchAnswers(f) PROVE SpeakingHasSpeaker'
    BY <1>3, SearchAnswersSpeakingHasSpeaker
  <1> QED BY <1>1, <1>2, <1>3

\* Speech, and a failing await, keeps SpeakingHasSpeaker.
LEMMA SpeakingHasSpeakerSpeeches ==
  ASSUME Types, Shape, SpeakingHasSpeaker, NEW f \in Flows,
        Synthesised(f) \/ Told(f) \/ Played(f) \/ SpeechReturns(f)
         \/ AwaitFails(f)
  PROVE  SpeakingHasSpeaker'
  <1> USE DEF Types, Shape, SpeakingHasSpeaker, Speaks, Speech, Awaits, CaptureJobs,
      AnswerJobs, PlainJobs, CalendarJobs, AgentJobs, OpinionJobs, gate, mood, vision,
      settings, flow, identity
  <1>1. ASSUME Synthesised(f) PROVE SpeakingHasSpeaker'
    BY <1>1 DEF Synthesised, Superseded, Go
  <1>2. ASSUME Told(f) PROVE SpeakingHasSpeaker'
    BY <1>2 DEF Told, Go
  <1>3. ASSUME Played(f) PROVE SpeakingHasSpeaker'
    BY <1>3 DEF Played, SpokenLast, MoodAfter, CaptureOver, End, Over, Go, Finally,
      ForceOpen, OwnRequest
  <1>4. ASSUME SpeechReturns(f) PROVE SpeakingHasSpeaker'
    BY <1>4 DEF SpeechReturns, Spoken, SpokenNotice, SpokenBeforePanel, SpokenLast,
      MoodAfter, CaptureOver, Superseded, End, Over, Go, Finally, ForceOpen,
      OwnRequest
  <1>5. ASSUME AwaitFails(f) PROVE SpeakingHasSpeaker'
    BY <1>5, FailSpeakingHasSpeaker DEF AwaitFails
  <1> QED BY <1>1, <1>2, <1>3, <1>4, <1>5

\* An await of another handler keeps SpeakingHasSpeaker.
LEMMA SpeakingHasSpeakerOthers ==
  ASSUME Types, Shape, SpeakingHasSpeaker, NEW f \in Flows,
        TimerAlertSent(f) \/ MessageHandled(f) \/ MessageAnswered(f)
         \/ LockFreed(f) \/ LockTimeout(f)
  PROVE  SpeakingHasSpeaker'
  <1> USE DEF Types, Shape, SpeakingHasSpeaker, Speaks, Speech, Awaits, CaptureJobs,
      AnswerJobs, PlainJobs, CalendarJobs, AgentJobs, OpinionJobs, gate, mood, vision,
      settings, flow, identity
  <1>1. ASSUME TimerAlertSent(f) PROVE SpeakingHasSpeaker'
    BY <1>1 DEF TimerAlertSent, Over, Speak, Go
  <1>2. ASSUME MessageHandled(f) PROVE SpeakingHasSpeaker'
    BY <1>2 DEF MessageHandled, Over, Go
  <1>3. ASSUME MessageAnswered(f) PROVE SpeakingHasSpeaker'
    BY <1>3 DEF MessageAnswered, Publish, Speak, Go
  <1>4. ASSUME LockFreed(f) PROVE SpeakingHasSpeaker'
    BY <1>4 DEF LockFreed, BeginCapture, Publish, Locked, Speak, Go
  <1>5. ASSUME LockTimeout(f) PROVE SpeakingHasSpeaker'
    BY <1>5 DEF LockTimeout, Over, Locked, Go
  <1> QED BY <1>1, <1>2, <1>3, <1>4, <1>5

\* Every step keeps SpeakingHasSpeaker.
LEMMA SpeakingHasSpeakerStep ==
  ASSUME Types, Shape, SpeakingHasSpeaker, [Next]_vars
  PROVE  SpeakingHasSpeaker'
  <1>1. CASE UNCHANGED vars
    BY <1>1 DEF vars, Types, Shape, SpeakingHasSpeaker, Speaks, Speech, Awaits,
      CaptureJobs, AnswerJobs, PlainJobs, CalendarJobs, AgentJobs, OpinionJobs, gate,
      mood, vision, settings, flow, identity
  <1>2. CASE Next
    BY <1>2, SpeakingHasSpeakerEnvironment, SpeakingHasSpeakerStarts,
        SpeakingHasSpeakerUtterances,
       SpeakingHasSpeakerWorks, SpeakingHasSpeakerSearches, SpeakingHasSpeakerSpeeches, SpeakingHasSpeakerOthers
       DEF Next, Start, Settle
  <1> QED BY <1>1, <1>2

-----------------------------------------------------------------------------
(* CaptureLocks.                                                           *)

\* A flow that moves without beginning to work on a capture keeps CaptureLocks.
LEMMA GoCaptureLocks ==
  ASSUME Types, CaptureLocks, NEW f \in Flows, NEW label, NEW j, Go(f, label, j),
         label \in Awaits /\ j \in CaptureJobs => Capturing(f),
         UNCHANGED processingLock
  PROVE  CaptureLocks'
  <1>1. \A g \in Flows : Capturing(g)' => Capturing(g)
    BY DEF Go, Types, Capturing, Active
  <1> QED BY <1>1 DEF CaptureLocks

LEMMA SpeakCaptureLocks ==
  ASSUME Types, CaptureLocks, NEW f \in Flows, NEW j, Speak(f, j),
         j \in CaptureJobs => Capturing(f), UNCHANGED processingLock
  PROVE  CaptureLocks'
  <1>1. PICK label : Go(f, label, j)
    BY DEF Speak
  <1> QED BY <1>1, GoCaptureLocks

LEMMA OverCaptureLocks ==
  ASSUME Types, CaptureLocks, NEW f \in Flows, Over(f), UNCHANGED processingLock
  PROVE  CaptureLocks'
  <1>1. "done" \notin Awaits
    BY DEF Awaits
  <1>2. PICK j : Go(f, "done", j)
    BY DEF Over
  <1> QED BY <1>1, <1>2, GoCaptureLocks

LEMMA StartLlmCaptureLocks ==
  ASSUME Types, CaptureLocks, NEW f \in Flows, StartLlm(f), UNCHANGED processingLock
  PROVE  CaptureLocks'
  <1>1. CASE Go(f, "llm", "search")
    BY <1>1, GoCaptureLocks DEF CaptureJobs
  <1>2. ASSUME NEW p \in Flows \ {f},
               pc' = [pc EXCEPT ![f] = "llm", ![p] = "delay"],
               job' = [job EXCEPT ![f] = "search", ![p] = "phrase"]
        PROVE  CaptureLocks'
    <2>1. job'[f] = "search" /\ job'[p] = "phrase"
      BY <1>2 DEF Types
    <2>2. ~Capturing(f)' /\ ~Capturing(p)'
      BY <2>1 DEF Capturing, CaptureJobs
    <2>3. \A g \in Flows \ {f, p} : Capturing(g)' => Capturing(g)
      BY <1>2 DEF Types, Capturing, Active
    <2> QED BY <2>2, <2>3 DEF CaptureLocks
  <1> QED BY <1>1, <1>2 DEF StartLlm

\* The work on a capture begins with the lock.
LEMMA BeginCaptureLocks ==
  ASSUME Types, CaptureLocks, NEW f \in Flows, NEW id, ~processingLock, BeginCapture(f, id)
  PROVE  CaptureLocks'
  <1>1. \A g \in Flows : ~Capturing(g)
    BY DEF CaptureLocks
  <1>2. PICK label, j : Go(f, label, j)
    BY DEF BeginCapture, Speak
  <1>3. \A g \in Flows \ {f} : Capturing(g)' => Capturing(g)
    BY <1>2 DEF Go, Types, Capturing, Active
  <1> QED BY <1>1, <1>3 DEF BeginCapture, CaptureLocks

\* What processAndRespond does after recognition keeps CaptureLocks.
LEMMA ConsiderCaptureLocks ==
  ASSUME Types, CaptureLocks, NEW f \in Flows, job[f] = "hear", Consider(f)
  PROVE  CaptureLocks'
  <1>1. UNCHANGED processingLock
    BY DEF Consider, Admit, Branch, AskCapture, vision
  <1>2. \A g \in Flows : Capturing(g)' => Capturing(g)
    <2>1. ASSUME Go(f, "deaf", "hear") \/ Over(f)
          PROVE  \A g \in Flows : Capturing(g)' => Capturing(g)
      BY <2>1 DEF Over, Go, Capturing, Active, Awaits, CaptureJobs, Types
    <2>2. ASSUME Proceeds(f)
          PROVE  \A g \in Flows : Capturing(g)' => Capturing(g)
      BY <2>2 DEF Proceeds, Capturing, Active, Awaits, CaptureJobs, AnswerJobs,
          PlainJobs,
          CalendarJobs, AgentJobs, OpinionJobs
    <2> QED BY <2>1, <2>2, BranchProceeds DEF Consider, Admit
  <1> QED BY <1>1, <1>2 DEF CaptureLocks

\* The end of a handler, with its finally clause keeps CaptureLocks.
LEMMA EndCaptureLocks ==
  ASSUME Types, Shape, CaptureLocks, NEW f \in Flows, Active(f), End(f),
         IF job[f] \in CaptureJobs THEN CaptureOver ELSE UNCHANGED vision
  PROVE  CaptureLocks'
  <1>0. \A g \in Flows : Capturing(g)' <=> Capturing(g) /\ g # f
    BY DEF End, Over, Go, Capturing, Active, Types, Awaits, CaptureJobs
  <1> QED BY <1>0 DEF CaptureLocks, CaptureOver, vision, Capturing

\* The return of speakAndPublish keeps CaptureLocks.
LEMMA SpokenCaptureLocks ==
  ASSUME Types, Shape, CaptureLocks, NEW f \in Flows, Active(f), Spoken(f)
  PROVE  CaptureLocks'
  <1> USE DEF Types, CaptureLocks, Capturing, Active, CaptureJobs
  <1>1. CASE SpokenNotice(f)
    BY <1>1 DEF SpokenNotice, Go, vision
  <1>2. CASE SpokenBeforePanel(f)
    BY <1>2 DEF SpokenBeforePanel, Go, vision
  <1>3. CASE SpokenLast(f)
    BY <1>3, EndCaptureLocks DEF SpokenLast
  <1> QED BY <1>1, <1>2, <1>3 DEF Spoken

\* Each catch clause keeps CaptureLocks.
LEMMA FailCaptureLocks ==
  ASSUME Types, Shape, CaptureLocks, NEW f \in Flows, Active(f), Fail(f)
  PROVE  CaptureLocks'
  <1>1. ASSUME FailPlain(f) \/ FailQuietly(f) \/ FailFinally(f) PROVE CaptureLocks'
    <2>1. End(f)
      BY <1>1 DEF FailPlain, FailQuietly, FailFinally
    <2>2. IF job[f] \in CaptureJobs THEN CaptureOver ELSE UNCHANGED vision
      BY <1>1 DEF FailPlain, FailQuietly, FailFinally, CaptureJobs, PlainJobs,
          OpinionJobs
    <2> QED BY <2>1, <2>2, EndCaptureLocks
  <1>2. CASE FailApologising(f)
    BY <1>2, SpeakCaptureLocks DEF FailApologising, vision, Capturing, CaptureJobs
  <1>3. CASE FailPhrase(f)
    BY <1>3, GoCaptureLocks DEF FailPhrase, vision, CaptureJobs
  <1> QED BY <1>1, <1>2, <1>3 DEF Fail

\* The answer of the model keeps CaptureLocks.
LEMMA SearchAnswersCaptureLocks ==
  ASSUME Types, Shape, CaptureLocks, NEW f \in Flows, SearchAnswers(f)
  PROVE  CaptureLocks'
  <1>0. Active(f) /\ job[f] = "search"
    BY DEF SearchAnswers, Active, Awaits, Shape
  <1>1. CASE Deliver(f, "answer")
    BY <1>1, GoCaptureLocks, SpeakCaptureLocks DEF SearchAnswers, Deliver, vision, CaptureJobs
  <1>2. CASE End(f)
    BY <1>0, <1>2, EndCaptureLocks DEF SearchAnswers, CaptureJobs
  <1> QED BY <1>1, <1>2 DEF SearchAnswers

\* A corrected text keeps CaptureLocks.
LEMMA CorrectedCaptureLocks ==
  ASSUME Types, CaptureLocks, NEW f \in Flows, Corrected(f)
  PROVE  CaptureLocks'
  <1>1. Proceeds(f)
    BY RespondProceeds DEF Corrected
  <1>2. \A g \in Flows : Capturing(g)' => Capturing(g)
    BY <1>1 DEF Proceeds, Capturing, Active, Awaits, CaptureJobs, AnswerJobs, PlainJobs,
        CalendarJobs, AgentJobs, OpinionJobs
  <1> QED BY <1>2 DEF Corrected, vision, CaptureLocks

\* What participants and timers do keeps CaptureLocks.
LEMMA CaptureLocksEnvironment ==
  ASSUME CaptureLocks, Environment
  PROVE  CaptureLocks'
  BY EnvironmentFrame DEF flow, CaptureLocks, Capturing, Active

\* The start of every kind of flow keeps CaptureLocks.
LEMMA CaptureLocksStarts ==
  ASSUME Types, Shape, CaptureLocks, NEW f \in Flows,
        (\E u \in Users : Heard(f, u)) \/ TimerAlert(f) \/ GreetOnJoin(f)
         \/ PerplexityMessage(f) \/ ExplainGeneratedDiagrams(f)
         \/ CaptureResponse(f)
  PROVE  CaptureLocks'
  <1> USE GoCaptureLocks, SpeakCaptureLocks, OverCaptureLocks DEF CaptureJobs, vision
  <1>1. ASSUME NEW u \in Users, Heard(f, u) PROVE CaptureLocks'
    BY <1>1 DEF Heard
  <1>2. ASSUME TimerAlert(f) PROVE CaptureLocks'
    BY <1>2 DEF TimerAlert
  <1>3. ASSUME GreetOnJoin(f) PROVE CaptureLocks'
    BY <1>3 DEF GreetOnJoin
  <1>4. ASSUME PerplexityMessage(f) PROVE CaptureLocks'
    BY <1>4 DEF PerplexityMessage
  <1>5. ASSUME ExplainGeneratedDiagrams(f) PROVE CaptureLocks'
    BY <1>5 DEF ExplainGeneratedDiagrams
  <1>6. ASSUME CaptureResponse(f) PROVE CaptureLocks'
    <2>1. CASE Locked
      BY <1>6, <2>1 DEF CaptureResponse
    <2>2. CASE ~Locked
      BY <1>6, <2>2, BeginCaptureLocks DEF CaptureResponse, Locked
    <2> QED BY <2>1, <2>2
  <1> QED BY <1>1, <1>2, <1>3, <1>4, <1>5, <1>6

\* An utterance, up to its branch, keeps CaptureLocks.
LEMMA CaptureLocksUtterances ==
  ASSUME Types, Shape, CaptureLocks, NEW f \in Flows,
        Unrecognised(f) \/ Recognised(f) \/ Interject(f) \/ NoIntervention(f)
         \/ SessionFails(f)
  PROVE  CaptureLocks'
  <1> USE GoCaptureLocks, SpeakCaptureLocks, OverCaptureLocks DEF CaptureJobs, vision
  <1>1. ASSUME Unrecognised(f) PROVE CaptureLocks'
    BY <1>1 DEF Unrecognised
  <1>2. ASSUME Interject(f) PROVE CaptureLocks'
    BY <1>2 DEF Interject
  <1>3. ASSUME SessionFails(f) PROVE CaptureLocks'
    BY <1>3 DEF SessionFails
  <1>4. ASSUME Recognised(f) PROVE CaptureLocks'
    BY <1>4, ConsiderCaptureLocks DEF Recognised, Shape
  <1>5. ASSUME NoIntervention(f) PROVE CaptureLocks'
    BY <1>5, ConsiderCaptureLocks DEF NoIntervention
  <1> QED BY <1>1, <1>2, <1>3, <1>4, <1>5

\* The end of an await of a branch keeps CaptureLocks.
LEMMA CaptureLocksWorks ==
  ASSUME Types, Shape, CaptureLocks, NEW f \in Flows,
        WorkEnds(f) \/ Corrected(f) \/ WorkSpoken(f) \/ AgentAnswers(f)
         \/ SearchPlanned(f)
  PROVE  CaptureLocks'
  <1> USE GoCaptureLocks, SpeakCaptureLocks, OverCaptureLocks DEF CaptureJobs, vision
  <1>1. ASSUME WorkEnds(f) PROVE CaptureLocks'
    BY <1>1 DEF WorkEnds, End
  <1>2. ASSUME WorkSpoken(f) PROVE CaptureLocks'
    BY <1>2 DEF WorkSpoken, Capturing, Active, Awaits
  <1>3. ASSUME AgentAnswers(f) PROVE CaptureLocks'
    BY <1>3 DEF AgentAnswers, Deliver
  <1>4. ASSUME SearchPlanned(f) PROVE CaptureLocks'
    BY <1>4, StartLlmCaptureLocks DEF SearchPlanned
  <1>5. ASSUME Corrected(f) PROVE CaptureLocks'
    BY <1>5, CorrectedCaptureLocks
  <1> QED BY <1>1, <1>2, <1>3, <1>4, <1>5

\* A model call and its thinking phrase keeps CaptureLocks.
LEMMA CaptureLocksSearches ==
  ASSUME Types, Shape, CaptureLocks, NEW f \in Flows,
        (\E g \in Flows : PhraseDue(g, f)) \/ LlmAnswers(f) \/ SearchAnswers(f)
  PROVE  CaptureLocks'
  <1> USE GoCaptureLocks, SpeakCaptureLocks, OverCaptureLocks DEF CaptureJobs, vision
  <1>1. ASSUME NEW g \in Flows, PhraseDue(g, f) PROVE CaptureLocks'
    BY <1>1 DEF PhraseDue
  <1>2. ASSUME LlmAnswers(f) PROVE CaptureLocks'
    BY <1>2 DEF LlmAnswers, Capturing, Active, Awaits
  <1>3. ASSUME SearchAnswers(f) PROVE CaptureLocks'
    BY <1>3, SearchAnswersCaptureLocks
  <1> QED BY <1>1, <1>2, <1>3

\* Speech, and a failing await, keeps CaptureLocks.
LEMMA CaptureLocksSpeeches ==
  ASSUME Types, Shape, CaptureLocks, NEW f \in Flows,
        Synthesised(f) \/ Told(f) \/ Played(f) \/ SpeechReturns(f)
         \/ AwaitFails(f)
  PROVE  CaptureLocks'
  <1> USE GoCaptureLocks, SpeakCaptureLocks, OverCaptureLocks DEF CaptureJobs, vision
  <1>1. ASSUME Synthesised(f) PROVE CaptureLocks'
    BY <1>1 DEF Synthesised, Capturing, Active, Awaits
  <1>2. ASSUME Told(f) PROVE CaptureLocks'
    BY <1>2 DEF Told, Capturing, Active, Awaits
  <1>3. ASSUME Played(f) PROVE CaptureLocks'
    <2>1. CASE job[f] = "greeting"
      <3>1. Active(f) /\ SpokenLast(f)
        BY <1>3, <2>1 DEF Played, Active, Awaits
      <3> QED BY <1>3, <3>1, EndCaptureLocks DEF Played, SpokenLast
    <2>2. CASE job[f] # "greeting"
      <3>1. Go(f, "hush", job[f]) /\ Active(f) /\ UNCHANGED processingLock
        BY <1>3, <2>2 DEF Played, Active, Awaits
      <3> QED BY <3>1 DEF Capturing
    <2> QED BY <2>1, <2>2
  <1>4. ASSUME SpeechReturns(f) PROVE CaptureLocks'
    <2>1. Active(f)
      BY <1>4 DEF SpeechReturns, Active, Awaits
    <2> QED BY <1>4, <2>1, SpokenCaptureLocks DEF SpeechReturns
  <1>5. ASSUME AwaitFails(f) PROVE CaptureLocks'
    <2>1. Active(f)
      BY <1>5 DEF AwaitFails, Active, Awaits
    <2> QED BY <1>5, <2>1, FailCaptureLocks DEF AwaitFails
  <1> QED BY <1>1, <1>2, <1>3, <1>4, <1>5

\* An await of another handler keeps CaptureLocks.
LEMMA CaptureLocksOthers ==
  ASSUME Types, Shape, CaptureLocks, NEW f \in Flows,
        TimerAlertSent(f) \/ MessageHandled(f) \/ MessageAnswered(f)
         \/ LockFreed(f) \/ LockTimeout(f)
  PROVE  CaptureLocks'
  <1> USE GoCaptureLocks, SpeakCaptureLocks, OverCaptureLocks DEF CaptureJobs, vision
  <1>1. ASSUME TimerAlertSent(f) PROVE CaptureLocks'
    BY <1>1 DEF TimerAlertSent
  <1>2. ASSUME MessageHandled(f) PROVE CaptureLocks'
    BY <1>2 DEF MessageHandled
  <1>3. ASSUME MessageAnswered(f) PROVE CaptureLocks'
    BY <1>3 DEF MessageAnswered
  <1>4. ASSUME LockFreed(f) PROVE CaptureLocks'
    BY <1>4, BeginCaptureLocks DEF LockFreed, Locked
  <1>5. ASSUME LockTimeout(f) PROVE CaptureLocks'
    BY <1>5 DEF LockTimeout
  <1> QED BY <1>1, <1>2, <1>3, <1>4, <1>5

\* Every step keeps CaptureLocks.
LEMMA CaptureLocksStep ==
  ASSUME Types, Shape, CaptureLocks, [Next]_vars
  PROVE  CaptureLocks'
  <1>1. CASE UNCHANGED vars
    BY <1>1 DEF vars, Types, Shape, CaptureLocks, Capturing, Active, Awaits, Speech,
      CaptureJobs, gate, mood, vision, settings, flow, identity
  <1>2. CASE Next
    BY <1>2, CaptureLocksEnvironment, CaptureLocksStarts, CaptureLocksUtterances,
       CaptureLocksWorks, CaptureLocksSearches, CaptureLocksSpeeches, CaptureLocksOthers
       DEF Next, Start, Settle
  <1> QED BY <1>1, <1>2

-----------------------------------------------------------------------------
IInv ==
  /\ Types /\ Flags /\ VisionAwaits /\ Shape /\ AnswerHolds /\ CaptureLocks
  /\ PublishingHasOwner /\ SpeakingHasSpeaker

\* The conjunction of the above is an inductive invariant of the response flow.
THEOREM InductiveInvariant == Spec => []IInv
  <1>1. Init => IInv
    BY InitHolds DEF IInv
  <1>2. IInv /\ [Next]_vars => IInv'
    BY TypesStep, FlagsStep, VisionAwaitsStep, ShapeStep, AnswerHoldsStep,
        CaptureLocksStep,
       PublishingHasOwnerStep, SpeakingHasSpeakerStep DEF IInv
  <1> QED BY <1>1, <1>2, PTL DEF Spec

\* Every variable has its type, and vision mode its pending request.
THEOREM TypeCorrect == Spec => []TypeOK
  <1>1. IInv => TypeOK
    BY DEF IInv, TypeOK
  <1> QED BY <1>1, InductiveInvariant, PTL

\* However many handlers run, isPublishing is never left set by accident: the
\* current request belongs to a flow that will clear it, or to an announcement.
THEOREM OwnedPublishing == Spec => []PublishingHasOwner
  <1>1. IInv => PublishingHasOwner
    BY DEF IInv
  <1> QED BY <1>1, InductiveInvariant, PTL

\* Two utterances are never answered at the same time unless a handler that does not
\* look at currentRequestId has cleared isPublishing under an answer.
THEOREM OneAnswerAtATime == Spec => []AnswersTakeTurns
  <1>1. IInv => AnswersTakeTurns
    BY DEF IInv, AnswerHolds, AnswersTakeTurns
  <1> QED BY <1>1, InductiveInvariant, PTL

\* processingLock keeps two capture responses apart.
THEOREM OneCaptureAtATime == Spec => []CapturesTakeTurns
  <1>1. IInv => CapturesTakeTurns
    BY DEF IInv, CaptureLocks, CapturesTakeTurns
  <1> QED BY <1>1, InductiveInvariant, PTL

\* botState is SPEAKING only while a flow speaks that will reset it, or after a
\* failure in one of the four places that do not reset it.
THEOREM SpeakingIsReset == Spec => []SpeakingHasSpeaker
  <1>1. IInv => SpeakingHasSpeaker
    BY DEF IInv
  <1> QED BY <1>1, InductiveInvariant, PTL
=============================================================================
