----------------------------- MODULE MCServices ------------------------------
(***************************************************************************)
(* Parts of the server that share no state, for TLC, those with liveness:  *)
(* the meeting timer, the gate in front of the models, the connection to a *)
(* tool server, the requests of a panel and the agent.  "part" is chosen   *)
(* in the initial state; the other parts stay in theirs, where nothing of  *)
(* them is enabled that fairness speaks of.                                *)
(***************************************************************************)
EXTENDS TimerTool

CONSTANTS Requests, Direct, Interval, MaxRetries,
          Conns, Connects, ToolCalls, NoConn

VARIABLES
  part,
  isProcessing, age, pc, sleep, tries,
  connection, state, process, requestId, pending, received, flow, own, answer,
  kind, panel, online, failures, content, delivered, qa, rag, domain, chart,
  agent, refers, connected, tool, result, sources, places, response, current, said

gateVars == <<isProcessing, age, pc, sleep, tries>>
mcpVars == <<connection, state, process, requestId, pending, received, flow, own, answer>>
panelVars == <<kind, panel, online, failures, content, delivered, qa, rag, domain, chart>>
agentVars ==
  <<agent, refers, connected, tool, result, sources, places, response, current, said>>

Gate == INSTANCE RequestGate
Mcp == INSTANCE McpClient WITH entry <- connection, pc <- flow
Panel == INSTANCE PanelRequests WITH pc <- panel, flow <- chart
Agent == INSTANCE AgentRouter WITH pc <- agent

ServicesInit ==
  /\ part \in {"timer", "gate", "mcp", "panel", "agent"}
  /\ Init /\ Gate!Init /\ Mcp!Init
  /\ Panel!Init /\ (part # "panel" => kind = "pdf")
  /\ Agent!Init /\ (part # "agent" => connected)

ServicesNext ==
  \/ /\ part = "timer"
     /\ Next
     /\ UNCHANGED <<part, gateVars, mcpVars, panelVars, agentVars>>
  \/ /\ part = "gate"
     /\ Gate!Next
     /\ UNCHANGED <<part, vars, mcpVars, panelVars, agentVars>>
  \/ /\ part = "mcp"
     /\ Mcp!Next
     /\ UNCHANGED <<part, vars, gateVars, panelVars, agentVars>>
  \/ /\ part = "panel"
     /\ Panel!Next
     /\ UNCHANGED <<part, vars, gateVars, mcpVars, agentVars>>
  \/ /\ part = "agent"
     /\ Agent!Next
     /\ UNCHANGED <<part, vars, gateVars, mcpVars, panelVars>>

ServicesSpec ==
  /\ ServicesInit
  /\ [][ServicesNext]_<<part, vars, gateVars, mcpVars, panelVars, agentVars>>
  /\ Fairness
  /\ Gate!Fairness
  /\ Mcp!Fairness
  /\ Panel!Fairness
  /\ Agent!Fairness

-----------------------------------------------------------------------------
\* The types of every part.
TypesOK ==
  TypeOK /\ Gate!TypeOK /\ Mcp!TypeOK /\ Panel!TypeOK /\ Agent!TypeOK

\* No tool server is left running that connections does not know, and an answer from the
\* process that was asked is the answer to what was asked.
ToolServersAreTracked == Mcp!OneProcess /\ Mcp!AnswersMatch

\* A panel gets one answer to a request, and what it gets, like what the agent says, rests on
\* what was found.
AnswersAreGrounded ==
  Panel!AnsweredOnce /\ Panel!AnswersAreGrounded /\ Agent!ResponsesAreGrounded

\* Every request ends: one at the gate, a connect or a call of a tool, a request of a panel,
\* and an utterance the agent handles.
EveryRequestEnds ==
  /\ Gate!EveryRequestReturns
  /\ Mcp!EveryRequestEnds
  /\ Panel!EveryRequestSettles
  /\ Agent!EveryUtteranceAnswered
=============================================================================
