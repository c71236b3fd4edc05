------------------------------ MODULE StudyMode ------------------------------
(***************************************************************************)
(* StudyModeService for one room.  studyContexts maps the room to a        *)
(* context; a call that waits for the language model keeps the context it  *)
(* fetched, so a session that was ended, replaced or cleaned up meanwhile  *)
(* still receives the late result.  Sessions are numbered; session[g] is   *)
(* the g-th context object.  Points are counted in tens.                   *)
(***************************************************************************)
EXTENDS Integers, Sequences, FiniteSets, SequencesExt

CONSTANTS
  People,       \* participants
  Calls,        \* calls that may be waiting for the model at a time
  MaxQuizzes,   \* MAX_QUIZZES_PER_SESSION
  MaxSessions,  \* bound: sessions of the room
  MaxAnswers    \* bound: answers in a session

VARIABLES
  current,  \* the session studyContexts holds for the room, 0 for none
  session,  \* the context objects
  call      \* what each call waits for

vars == <<current, session, call>>

NoCall == [op |-> "none", of |-> 0, by |-> {}]

NewStanding == [score |-> 0, correct |-> 0, total |-> 0, streak |-> 0]

\* surprises, told and earned are history: the surprise quizzes among the quizzes, the points
\* reported to the participant and the points earned by answers to follow-up questions.
NewSession ==
  [isActive |-> TRUE, participants |-> <<>>, standing |-> [p \in People |-> NewStanding],
   currentQuiz |-> FALSE, quizCount |-> 0, recent |-> FALSE, followUpPending |-> FALSE,
   surprises |-> 0, told |-> [p \in People |-> 0], earned |-> [p \in People |-> 0]]

Init ==
  /\ current = 0
  /\ session = <<>>
  /\ call = [c \in Calls |-> NoCall]

Exists == current # 0
Ctx == session[current]
IsActive == Exists /\ Ctx.isActive

-----------------------------------------------------------------------------
StartStudyMode ==
  /\ Len(session) < MaxSessions
  /\ session' = Append(session, NewSession)
  /\ current' = Len(session) + 1
  /\ UNCHANGED call

EndStudyMode ==
  /\ Exists
  /\ session' = [session EXCEPT ![current].isActive = FALSE]
  /\ UNCHANGED <<current, call>>

Cleanup ==
  /\ current' = 0
  /\ UNCHANGED <<session, call>>

AddParticipant(p) ==
  /\ Exists
  /\ ~Contains(Ctx.participants, p)
  /\ session' = [session EXCEPT ![current].participants = Append(@, p)]
  /\ UNCHANGED <<current, call>>

-----------------------------------------------------------------------------
\* MIN_QUIZ_INTERVAL_MS has passed since lastQuizTime.
IntervalPasses(g) ==
  /\ session[g].recent
  /\ session' = [session EXCEPT ![g].recent = FALSE]
  /\ UNCHANGED <<current, call>>

Wait(c, op, by) ==
  /\ call[c] = NoCall
  /\ call' = [call EXCEPT ![c] = [op |-> op, of |-> current, by |-> by]]
  /\ UNCHANGED <<current, session>>

\* generateQuizFromConversation up to the await: the limits are tested here.
MayAskLate == IsActive /\ ~Ctx.recent /\ Ctx.quizCount <= MaxQuizzes
MayAsk == IsActive /\ ~Ctx.recent /\ Ctx.quizCount < MaxQuizzes

GenerateQuizFromConversation(c) == MayAsk /\ Wait(c, "quiz", {})

\* generateSurpriseQuiz tests neither limit.
GenerateSurpriseQuiz(c) == IsActive /\ Wait(c, "surprise", {})

GenerateFollowUpQuestion(c) == IsActive /\ Wait(c, "follow_up", {})

\* p answers the follow-up question; the service is not told who does.
EvaluateFollowUpAnswer(c, p) == Exists /\ Wait(c, "evaluate", {p})

\* The model's answer has no JSON, does not parse, or the call fails.
NoAnswer(c) ==
  /\ call[c] # NoCall
  /\ call' = [call EXCEPT ![c] = NoCall]
  /\ UNCHANGED <<current, session>>

Answered(c, op) ==
  /\ call[c].op = op
  /\ call' = [call EXCEPT ![c] = NoCall]
  /\ UNCHANGED current

AddQuiz(s, surprise) ==
  [s EXCEPT !.currentQuiz = TRUE, !.recent = TRUE, !.quizCount = @ + 1,
            !.surprises = @ + surprise]

QuizGenerated(c) ==
  /\ Answered(c, "quiz")
  /\ session' = [session EXCEPT ![call[c].of] = AddQuiz(@, 0)]

SurpriseGenerated(c) ==
  /\ Answered(c, "surprise")
  /\ session[call[c].of].surprises < 1    \* bound
  /\ session' = [session EXCEPT ![call[c].of] = AddQuiz(@, 1)]

FollowUpGenerated(c) ==
  /\ Answered(c, "follow_up")
  /\ \/ session' = [session EXCEPT ![call[c].of].followUpPending = TRUE]
     \/ UNCHANGED session                  \* shouldAsk is false

\* The points go to the participant who was added last.
Credit(s, points) ==
  IF points = 0 \/ s.participants = <<>>
  THEN s
  ELSE [s EXCEPT !.standing[Last(s.participants)].score = @ + points,
                 !.earned[Last(s.participants)] = @ + points]

FollowUpEvaluated(c) ==
  /\ Answered(c, "evaluate")
  /\ \A p \in People : session[call[c].of].earned[p] < 3    \* bound
  /\ \E points \in {0, 3} :
       session' = [session EXCEPT ![call[c].of] =
                     [Credit(@, points) EXCEPT !.followUpPending = FALSE]]

-----------------------------------------------------------------------------
\* processAnswer: the quiz is worth 100 points, a streak of three or more a bonus of 50
\* points for every answer from the third; here in units of ten.
Bonus(streak) == IF streak >= 3 THEN 5 * (streak - 2) ELSE 0

AfterAnswerUnbroken(s, isCorrect) ==
  IF isCorrect
  THEN [score |-> s.score + 10 + Bonus(s.streak), correct |-> s.correct + 1,
        total |-> s.total + 1, streak |-> s.streak + 1]
  ELSE [s EXCEPT !.total = @ + 1, !.streak = 0]
AfterAnswer(s, isCorrect) ==
  IF isCorrect
  THEN [score |-> s.score + 10 + Bonus(s.streak + 1), correct |-> s.correct + 1,
        total |-> s.total + 1, streak |-> s.streak + 1]
  ELSE [s EXCEPT !.total = @ + 1, !.streak = 0]

\* The points of the result are computed from the streak after the update.
Reported(s, isCorrect) ==
  IF isCorrect THEN 10 + Bonus(AfterAnswer(s, TRUE).streak) ELSE 0

ProcessAnswer(p, isCorrect) ==
  /\ Exists
  /\ Ctx.currentQuiz
  /\ Contains(Ctx.participants, p)
  /\ Ctx.standing[p].total < MaxAnswers
  /\ session' = [session EXCEPT
       ![current].standing[p] = AfterAnswer(@, isCorrect),
       ![current].told[p] = @ + Reported(Ctx.standing[p], isCorrect)]
  /\ UNCHANGED <<current, call>>

Next ==
  \/ StartStudyMode \/ EndStudyMode \/ Cleanup
  \/ \E g \in DOMAIN session : IntervalPasses(g)
  \/ \E p \in People : AddParticipant(p) \/ \E ok \in BOOLEAN : ProcessAnswer(p, ok)
  \/ \E c \in Calls :
       \/ GenerateQuizFromConversation(c) \/ QuizGenerated(c)
       \/ GenerateSurpriseQuiz(c) \/ SurpriseGenerated(c)
       \/ GenerateFollowUpQuestion(c) \/ FollowUpGenerated(c)
       \/ FollowUpEvaluated(c) \/ NoAnswer(c)
       \/ \E p \in People : EvaluateFollowUpAnswer(c, p)

Spec == Init /\ [][Next]_vars

-----------------------------------------------------------------------------
\* Every variable has its shape.
TypeOK ==
  /\ current \in 0..Len(session)
  /\ \A c \in Calls : call[c].of \in 0..Len(session)

\* The limit on the quizzes of a session is tested before the model is asked and the quiz is
\* counted after: it is exceeded by the calls that were waiting together, and by no more.
QuizLimitHoldsButForOverlap ==
  \A g \in DOMAIN session :
    session[g].quizCount - session[g].surprises <= MaxQuizzes + Cardinality(Calls) - 1

\* The limit itself, as the comment on MAX_QUIZZES_PER_SESSION has it.  It does not hold.
QuizLimitHolds == \A g \in DOMAIN session : session[g].quizCount <= MaxQuizzes

\* The score of a participant is what they were told they won, and what their follow-up
\* answers earned.
ScoresAreAccountedFor ==
  \A g \in DOMAIN session : \A p \in People :
    LET s == session[g].standing[p]
    IN  s.score = session[g].told[p] + session[g].earned[p]

\* Points for a follow-up answer go to the one who answered, as the comment in
\* evaluateFollowUpAnswer has it.  It does not hold.
AnswererIsCredited ==
  [][\A c \in Calls : \A p \in call[c].by : call'[c] = NoCall =>
       \A q \in People \ {p} :
         session'[call[c].of].earned[q] = session[call[c].of].earned[q]]_vars
=============================================================================
