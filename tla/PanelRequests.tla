---------------------------- MODULE PanelRequests ----------------------------
(***************************************************************************)
(* The requests of the panels: a client asks over the data channel for an  *)
(* explanation of a PDF passage, the diagram of a sketch, a quiz, the      *)
(* evaluation of an answer, a flowchart, an analysis or skeleton code.     *)
(* The handlers of the VoiceBotService are started and not awaited; this   *)
(* module follows one request through its awaits: the calls of the         *)
(* language model and the RAG server, then publishData, on a room that may *)
(* be left at any time.                                                    *)
(***************************************************************************)
EXTENDS Naturals, Sequences

VARIABLES
  kind,       \* the request
  pc,         \* "idle", "work", "publish", "apologise", "done" or "unhandled"
  online,     \* the bot is still in the room
  failures,   \* publishData calls that were rejected
  content,    \* what the handler is about to send
  delivered,  \* what the clients got
  qa,         \* quiz: the questions from the Q&A history: "none" (no history), "running",
              \* "ok", "empty" or "failed"
  rag,        \* quiz: those from the meeting: "off", "asking", "running", "ok" or "null"
  domain,     \* analysis: the domain model: "running", "ok", "bare" (no entities), "failed"
  flow        \* flowchart, analysis: "running", "ok" or "failed"

quiz == <<qa, rag>>
analysis == <<domain, flow>>
vars == <<kind, pc, online, failures, content, delivered, quiz, analysis>>

\* The requests whose handler catches what goes wrong and sends an error instead, and the
\* ones whose model call returns a result in any case.
Apologetic == {"pdf", "transform", "quiz", "evaluate"}
Kinds == Apologetic \cup {"flowchart", "analysis", "skeleton"}

Init ==
  /\ kind \in Kinds
  /\ pc = "idle"
  /\ online = TRUE
  /\ failures = 0
  /\ content = {}
  /\ delivered = <<>>
  /\ qa = "none"
  /\ rag = "off"
  /\ domain = "running"
  /\ flow = "running"

Prepare(what) == pc' = "publish" /\ content' = what

\* What the catch clause sends: for an evaluation the comparison with the solution.
Apology == IF kind = "evaluate" THEN {"verdict", "comparison"} ELSE {"error"}
Fail == pc' = "apologise" /\ content' = Apology

-----------------------------------------------------------------------------
\* The message arrives; a quiz starts two tasks of its own, one when there is a history of
\* questions and answers, the other when the RAG server is connected.
Receive(history, connected) ==
  /\ pc = "idle"
  /\ pc' = "work"
  /\ qa' = IF kind = "quiz" /\ history THEN "running" ELSE "none"
  /\ rag' = IF kind = "quiz" /\ connected THEN "asking" ELSE "off"
  /\ UNCHANGED <<kind, online, failures, content, delivered, analysis>>

\* sendMessagePure or analyzeScreenShare returns or throws.  An answer that is not the JSON
\* that was asked for is replaced by a default.
HandlePdfOrBoard ==
  /\ kind \in {"pdf", "transform"}
  /\ pc = "work"
  /\ Prepare({"result"}) \/ Fail
  /\ UNCHANGED <<kind, online, failures, delivered, quiz, analysis>>

\* The model's verdict counts; without JSON in the answer the answer is wrong, with broken
\* JSON or no answer at all it is compared with the solution.
HandleQuizEvaluate ==
  /\ kind = "evaluate"
  /\ pc = "work"
  /\ Fail \/ \E by \in {"model", "default", "comparison"} : Prepare({"verdict", by})
  /\ UNCHANGED <<kind, online, failures, delivered, quiz, analysis>>

GenerateSkeletonCode ==
  /\ kind = "skeleton"
  /\ pc = "work"
  /\ Prepare({"result"}) \/ Prepare({"error"})
  /\ UNCHANGED <<kind, online, failures, delivered, quiz, analysis>>

-----------------------------------------------------------------------------
(* A quiz: two tasks in parallel.                                          *)

Quizzing == kind = "quiz" /\ pc = "work"

QaSettles ==
  /\ Quizzing
  /\ qa = "running"
  /\ qa' \in {"ok", "empty", "failed"}
  /\ UNCHANGED <<kind, pc, online, failures, content, delivered, rag, analysis>>

\* The RAG server answers: sources to make questions of, or nothing of use.
RagAnswers ==
  /\ Quizzing
  /\ rag = "asking"
  /\ rag' \in {"running", "null"}
  /\ UNCHANGED <<kind, pc, online, failures, content, delivered, qa, analysis>>

\* The questions are made, or that fails, which is caught.
RagSettles ==
  /\ Quizzing
  /\ rag = "running"
  /\ rag' \in {"ok", "null"}
  /\ UNCHANGED <<kind, pc, online, failures, content, delivered, qa, analysis>>

\* Promise.race: ten seconds are over.
RagTimeout ==
  /\ Quizzing
  /\ rag \in {"asking", "running"}
  /\ rag' = "null"
  /\ UNCHANGED <<kind, pc, online, failures, content, delivered, qa, analysis>>

\* Promise.all rejects with the first rejection, and is there when both results are: the
\* questions of the meeting are preferred.
BothSettled == qa # "running" /\ rag \notin {"asking", "running"}

ChosenByHistory ==
  IF qa = "ok" THEN {"history"} ELSE IF rag = "ok" THEN {"meeting"} ELSE {}

Chosen ==
  IF rag = "ok" THEN {"meeting"} ELSE IF qa = "ok" THEN {"history"} ELSE {}

HandleQuizGenerate ==
  /\ Quizzing
  /\ \/ qa = "failed" /\ Fail
     \/ BothSettled /\ qa # "failed" /\ (IF Chosen = {} THEN Fail ELSE Prepare(Chosen))
  /\ UNCHANGED <<kind, online, failures, delivered, quiz, analysis>>

-----------------------------------------------------------------------------
(* A flowchart, alone or with the domain model and its ER diagram.         *)

\* parseCDRToFlowchart catches its errors.
ParseCDRToFlowchart ==
  /\ kind \in {"flowchart", "analysis"}
  /\ pc = "work"
  /\ flow = "running"
  /\ flow' \in {"ok", "failed"}
  /\ UNCHANGED <<kind, pc, online, failures, content, delivered, quiz, domain>>

ExtractDomainModel ==
  /\ kind = "analysis"
  /\ pc = "work"
  /\ domain = "running"
  /\ domain' \in {"ok", "bare", "failed"}
  /\ UNCHANGED <<kind, pc, online, failures, content, delivered, quiz, flow>>

\* generateERDiagram: an ER diagram needs entities.
ErDiagram == IF domain = "ok" THEN {"erDiagram"} ELSE {}

HandleCDRRequest ==
  /\ pc = "work"
  /\ \/ /\ kind = "flowchart" /\ flow # "running"
        /\ Prepare(IF flow = "ok" THEN {"flowchart"} ELSE {"error"})
     \/ /\ kind = "analysis" /\ flow # "running" /\ domain # "running"
        /\ Prepare((IF domain \in {"ok", "bare"} THEN {"domainModel"} ELSE {})
                   \cup (IF flow = "ok" THEN {"flowchart"} ELSE {}) \cup ErDiagram)
  /\ UNCHANGED <<kind, online, failures, delivered, quiz, analysis>>

-----------------------------------------------------------------------------
(* publishData: for the result, and in the catch clause for the error.     *)

Deliver ==
  /\ delivered' = Append(delivered, content)
  /\ pc' = "done"
  /\ UNCHANGED failures

\* Who apologises when the result cannot be sent.
AfterFailure == IF kind \in Apologetic THEN "apologise" ELSE "unhandled"

PublishFails ==
  /\ failures' = failures + 1
  /\ pc' = AfterFailure
  /\ UNCHANGED delivered

Publish ==
  /\ pc = "publish"
  /\ (online /\ Deliver) \/ PublishFails
  /\ content' = IF pc' = "apologise" THEN Apology ELSE content
  /\ UNCHANGED <<kind, online, quiz, analysis>>

\* Only the handler of PDF questions guards the error message.
ApologyFails ==
  /\ failures' = failures + 1
  /\ pc' = IF kind = "pdf" THEN "done" ELSE "unhandled"
  /\ UNCHANGED delivered

ApologiseAgain ==
  /\ pc = "apologise"
  /\ \/ /\ online
        /\ delivered' = Append(delivered, content)
        /\ pc' = "publish"
        /\ UNCHANGED failures
     \/ ApologyFails
  /\ UNCHANGED <<kind, online, content, quiz, analysis>>
Apologise ==
  /\ pc = "apologise"
  /\ (online /\ Deliver) \/ ApologyFails
  /\ UNCHANGED <<kind, online, content, quiz, analysis>>

\* The bot leaves the room; the handler keeps its context.
Leave ==
  /\ online
  /\ online' = FALSE
  /\ UNCHANGED <<kind, pc, failures, content, delivered, quiz, analysis>>

Work ==
  \/ HandlePdfOrBoard \/ HandleQuizEvaluate \/ GenerateSkeletonCode
  \/ QaSettles \/ RagAnswers \/ RagSettles \/ RagTimeout \/ HandleQuizGenerate
  \/ ParseCDRToFlowchart \/ ExtractDomainModel \/ HandleCDRRequest
  \/ Publish \/ Apologise

Next ==
  \/ \E history, connected \in BOOLEAN : Receive(history, connected)
  \/ Work
  \/ Leave

\* The calls of the language model, the RAG server and LiveKit return or throw.
Fairness == WF_vars(Work)

Spec == Init /\ [][Next]_vars /\ Fairness

-----------------------------------------------------------------------------
Parts == {"result", "error", "verdict", "model", "default", "comparison", "meeting", "history",
          "domainModel", "flowchart", "erDiagram"}

\* A request is at one of its awaits.
TypeOK ==
  /\ pc \in {"idle", "work", "publish", "apologise", "done", "unhandled"}
  /\ content \subseteq Parts
  /\ qa \in {"none", "running", "ok", "empty", "failed"}
  /\ rag \in {"off", "asking", "running", "ok", "null"}

\* A client never gets two answers to one request, and gets none only when publishData
\* failed: a handler does not end without having tried to answer.
AnsweredOnce ==
  /\ Len(delivered) <= 1
  /\ pc \in {"done", "unhandled"} => Len(delivered) = 1 \/ failures > 0

\* A quiz from the history of questions means that the meeting yielded none, and an ER
\* diagram never comes without the domain model it was drawn from.
AnswersAreGrounded ==
  \A i \in DOMAIN delivered :
    /\ "history" \in delivered[i] => rag # "ok"
    /\ "erDiagram" \in delivered[i] => "domainModel" \in delivered[i]

\* "Choose: RAG first, the Q&A history when there is none" (voice-bot.service.ts:1674):
\* questions made from the meeting are used.  When those of the history fail, an error is
\* sent all the same, so it does not hold.
MeetingIsPreferred ==
  \A i \in DOMAIN delivered :
    kind = "quiz" /\ rag = "ok" /\ failures = 0 => delivered[i] = {"meeting"}

\* Every request that was received ends.
EveryRequestSettles == (pc = "work") ~> (pc \in {"done", "unhandled"})
=============================================================================
