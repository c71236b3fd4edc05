----------------------------- MODULE MCRagClient -----------------------------
(***************************************************************************)
(* The bot of a room and its RagClientService for TLC: the life of the     *)
(* only bot, the connection of the room, its report requests, its          *)
(* questions and its statements.  Each part's module lets the connection   *)
(* come and go in every way, so the parts are explored one after the       *)
(* other: "part" is chosen in the initial state, and the others stay in    *)
(* theirs, where nothing of them is enabled that fairness speaks of.       *)
(***************************************************************************)
EXTENDS RagConnection, Sequences, TLC

CONSTANTS
  Calls, NoCall,
  Questions, Texts, Contexts, NoContext, NoQuestion,
  N, BufferMax, MaxRetry, SendResults, MaxOpens,
  Bots, BotStops, BotCleanups, Humans, MaxTimers, NoBot

VARIABLES
  part,
  pendingReport, reportTimers, pc, promise, answer, jobs, accepted, reportLink, unhandled,
  current, link, pending, status, sentOn, kind, text, timers, wire,
  said, buffer, old, flushes, retries, received, statementLink, opens, dropped,
  active, botFlow, victim, toRemove, conn, lost, humans, seen, shutdownTimeout, shutdowns,
  roomData

reportVars == <<pendingReport, reportTimers, pc, promise, answer, jobs, accepted,
                reportLink, unhandled>>
questionVars == <<current, link, pending, status, sentOn, kind, text, timers, wire>>
statementVars == <<said, buffer, old, flushes, retries, received, statementLink, opens,
                   dropped>>
botVars == <<active, botFlow, victim, toRemove, conn, lost, humans, seen, shutdownTimeout,
             shutdowns, roomData>>

Report == INSTANCE RagReport WITH timers <- reportTimers, connection <- reportLink
Question == INSTANCE RagQuestions
Statement == INSTANCE RagStatements WITH link <- statementLink
Bot == INSTANCE BotLifecycle WITH
  Starts <- Bots, Stops <- BotStops, Cleanups <- BotCleanups, pc <- botFlow,
  timers <- shutdowns

ASSUME Report!CallsAssumption

ClientInit ==
  /\ part \in {"connection", "reports", "questions", "statements", "bot"}
  /\ Init
  /\ Report!Init
  /\ Question!Init
  /\ part # "questions" => kind = [q \in Questions |-> "plain"]
  /\ Statement!Init
  /\ Bot!Init

ClientNext ==
  \/ /\ part = "connection"
     /\ Next
     /\ UNCHANGED <<part, reportVars, questionVars, statementVars, botVars>>
  \/ /\ part = "reports"
     /\ Report!Next
     /\ UNCHANGED <<part, vars, questionVars, statementVars, botVars>>
  \/ /\ part = "questions"
     /\ Question!Next
     /\ UNCHANGED <<part, vars, reportVars, statementVars, botVars>>
  \/ /\ part = "statements"
     /\ Statement!Next
     /\ UNCHANGED <<part, vars, reportVars, questionVars, botVars>>
  \/ /\ part = "bot"
     /\ Bot!Next
     /\ UNCHANGED <<part, vars, reportVars, questionVars, statementVars>>

ClientSpec ==
  /\ ClientInit
  /\ [][ClientNext]_<<part, vars, reportVars, questionVars, statementVars, botVars>>
  /\ Fairness
  /\ Report!Fairness
  /\ Question!Fairness
  /\ Statement!Fairness
  /\ Bot!Fairness

-----------------------------------------------------------------------------
\* The types of every part.
TypesOK == TypeOK /\ Report!TypeOK /\ Question!TypeOK /\ Statement!TypeOK /\ Bot!TypeOK

\* What is registered is alive: the entry of pendingReportRequests belongs to a call that is
\* in progress, and a registered question waits under its own context, kind and text.
RegisteredWaits == Report!EntryIsAlive /\ Question!RegisteredWaits

\* Every call of requestReport returns, and every question gets an answer or an error.
EveryCallReturns == Report!EveryCallReturns /\ Question!EveryQuestionSettles

\* No statement is lost without a warning.
NothingVanishes == Statement!NothingVanishes

\* Over a lasting connection every statement that is not dropped arrives.
EventuallyReceived == Statement!EventuallyReceived

\* Once the last participant has been seen to leave, the bot leaves the room, unless it sees
\* somebody come back.
DepartureLeadsToShutdown == Bot!DepartureLeadsToShutdown
=============================================================================
