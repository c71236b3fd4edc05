----------------------------- MODULE AgentRouter -----------------------------
(***************************************************************************)
(* AgentRouterService as processWithAgent of the VoiceBotService drives    *)
(* it, for one utterance: decide, executeTool, generateResponse.  Every    *)
(* call to the model, to the search and to the RAG server may fail; each   *)
(* step has its own fallback, so that a response is always produced.       *)
(***************************************************************************)
EXTENDS Integers, Sequences

VARIABLES
  pc,         \* how far the utterance is
  refers,     \* a pattern of matchPatternForTool finds a reference to what was said
  connected,  \* ragClient.isConnected
  tool,       \* decision.tool
  result,     \* toolResult.result: what it is, "" when it is empty
  sources,    \* toolResult.meetingSources is not empty
  places,     \* toolResult.searchResults is not empty
  response,   \* what the response rests on
  current,    \* context.currentRequestId is the utterance's
  said        \* what was published, or given to speakAndPublish

vars == <<pc, refers, connected, tool, result, sources, places, response, current, said>>

\* AGENT_TOOLS, and a name the model made up.
Tools == {"search_web", "search_local", "query_meeting", "direct_response", "ask_clarification"}
Named == Tools \cup {"unknown"}

Init ==
  /\ pc = "idle"
  /\ refers = FALSE
  /\ connected \in BOOLEAN
  /\ tool = "none"
  /\ result = ""
  /\ sources = FALSE
  /\ places = FALSE
  /\ response = "none"
  /\ current = TRUE
  /\ said = <<>>

-----------------------------------------------------------------------------
\* processWithAgent, once shouldUseAgentMode has chosen it.
ProcessWithAgent(reference) ==
  /\ pc = "idle"
  /\ pc' = "decide"
  /\ refers' = reference
  /\ UNCHANGED <<connected, tool, result, sources, places, response, current, said>>

\* A reference is routed without the model; the model names a tool; without an answer, or
\* without a tool in it, the choice is direct_response.
Choices == IF refers THEN {"query_meeting"} ELSE Named

Decide ==
  /\ pc = "decide"
  /\ tool' \in Choices
  /\ pc' = IF tool' = "query_meeting" /\ ~connected THEN "connect" ELSE "execute"
  /\ UNCHANGED <<refers, connected, result, sources, places, response, current, said>>

\* executeMeetingQuery connects when there is no connection, and looks again.
Connect ==
  /\ pc = "connect"
  /\ connected' \in BOOLEAN
  /\ pc' = "execute"
  /\ UNCHANGED <<refers, tool, result, sources, places, response, current, said>>

ConnectionLost ==
  /\ connected
  /\ connected' = FALSE
  /\ UNCHANGED <<pc, refers, tool, result, sources, places, response, current, said>>

Executed(r, withPlaces, withSources) ==
  /\ result' = r
  /\ places' = withPlaces
  /\ sources' = withSources
  /\ pc' = "generate"
  /\ UNCHANGED <<refers, connected, tool, response, current, said>>

\* executeWebSearch and executeLocalSearch: results, none, or an error.
Search ==
  /\ tool \in {"search_web", "search_local"}
  /\ Executed("results", TRUE, FALSE) \/ Executed("excuse", FALSE, FALSE)

\* executeMeetingQuery: an answer, which may be empty, with or without sources; an error; or
\* no connection.
MeetingQuery ==
  /\ tool = "query_meeting"
  /\ \/ connected /\ \E with \in BOOLEAN, r \in {"answer", ""} : Executed(r, FALSE, with)
     \/ Executed("excuse", FALSE, FALSE)

\* generateClarificationResponse
Clarify == tool = "ask_clarification" /\ Executed("question back", FALSE, FALSE)

NoTool == tool \in {"direct_response", "unknown"} /\ Executed("", FALSE, FALSE)

ExecuteTool == pc = "execute" /\ (Search \/ MeetingQuery \/ Clarify \/ NoTool)

-----------------------------------------------------------------------------
\* generateResponse, in the order of its tests.
BasisOfAnyMeeting ==
  CASE tool = "ask_clarification" -> "question back"
    [] tool = "direct_response" \/ result = "" -> "history"
    [] tool = "query_meeting" -> "citation"
    [] OTHER -> result
Basis ==
  CASE tool = "ask_clarification" -> "question back"
    [] tool = "direct_response" \/ result = "" -> "history"
    [] tool = "query_meeting" /\ sources -> "citation"
    [] OTHER -> result

\* callLlmPure answers with an apology when the model fails; the question back needs no model.
GenerateResponse ==
  /\ pc = "generate"
  /\ response' \in {Basis} \cup (IF Basis = "question back" THEN {} ELSE {"apology"})
  /\ pc' = "respond"
  /\ UNCHANGED <<refers, connected, tool, result, sources, places, current, said>>

\* Another utterance takes over.
Superseded ==
  /\ current
  /\ pc \notin {"idle", "done"}
  /\ current' = FALSE
  /\ UNCHANGED <<pc, refers, connected, tool, result, sources, places, response, said>>

\* The search results are published before the response is spoken; a failure to publish them
\* ends in an apology.
Respond ==
  /\ pc = "respond"
  /\ \/ ~current /\ pc' = "done" /\ UNCHANGED said
     \/ current /\ ~places /\ pc' = "speak" /\ UNCHANGED said
     \/ current /\ places /\ pc' = "speak" /\ said' = Append(said, "places")
     \/ current /\ places /\ pc' = "apologise" /\ UNCHANGED said
  /\ UNCHANGED <<refers, connected, tool, result, sources, places, response, current>>

\* What speakAndPublish makes of it (speech, a card, or nothing) is in ResponseFlow; when it
\* fails, the apology is next.
Speak ==
  /\ pc = "speak"
  /\ pc' \in {"done", "apologise"}
  /\ said' = Append(said, response)
  /\ UNCHANGED <<refers, connected, tool, result, sources, places, response, current>>

Apologise ==
  /\ pc = "apologise"
  /\ pc' = "done"
  /\ said' = Append(said, "apology")
  /\ UNCHANGED <<refers, connected, tool, result, sources, places, response, current>>

Work ==
  Decide \/ Connect \/ ExecuteTool \/ GenerateResponse \/ Respond \/ Speak \/ Apologise

Next ==
  \/ \E reference \in BOOLEAN : ProcessWithAgent(reference)
  \/ Work
  \/ ConnectionLost
  \/ Superseded

\* Every call to a model or a server returns or fails.
Fairness == WF_vars(Work)

Spec == Init /\ [][Next]_vars /\ Fairness

-----------------------------------------------------------------------------
\* Every variable has its shape.
TypeOK ==
  /\ pc \in {"idle", "decide", "connect", "execute", "generate", "respond", "speak", "apologise",
            "done"}
  /\ tool \in Named \cup {"none"}
  /\ Len(said) <= 3

\* Whatever fails on the way, a spoken response rests on what the tool found: what the
\* meeting said is cited only with sources, results are spoken of only when the search found
\* some or made its excuse, and a reference to what was said never leads to a search.
ResponsesAreGrounded ==
  \A i \in DOMAIN said :
    /\ said[i] = "citation" => sources /\ tool = "query_meeting"
    /\ said[i] \in {"results", "places"} => places
    /\ refers => said[i] \notin {"results", "places", "question back"}

\* Every utterance is answered unless another one has taken over.
EveryUtteranceAnswered ==
  (pc = "decide") ~> (pc = "done" /\ (said = <<>> => ~current))
=============================================================================
