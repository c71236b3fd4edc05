--------------------------- MODULE MCResponseFlow ---------------------------
(***************************************************************************)
(* ResponseFlow for TLC.  In the liveness checks the switches that         *)
(* participants and the standby decision turn stay as they are, captures   *)
(* are not overdue, and an earlier utterance, no longer one of the flows,  *)
(* may have asked for one: so both flows can be responses to it.           *)
(***************************************************************************)
EXTENDS ResponseFlow, TLC

\* The calls of the handlers are alike.
FlowSymmetry == Permutations(Flows)

NothingPending == Init

CapturePending ==
  /\ isVisionMode = TRUE
  /\ pendingVisionRequest \in CaptureIds
  /\ isPublishing = FALSE
  /\ currentRequestId = NoId
  /\ botState = "SLEEP"
  /\ activeUserId = NoUser
  /\ shouldInterrupt = FALSE
  /\ cooling = FALSE
  /\ aiMuted = FALSE
  /\ standbyMode = FALSE
  /\ hasActiveScreenShare = TRUE
  /\ overdue = FALSE
  /\ processingLock = FALSE
  /\ pc = [f \in Flows |-> "idle"]
  /\ job = [f \in Flows |-> "none"]
  /\ requestId = [f \in Flows |-> NoId]
  /\ userId = [f \in Flows |-> NoUser]
  /\ thinkingTask = [f \in Flows |-> f]
  /\ forced = FALSE
  /\ stranded = FALSE

MCEnvironment ==
  \/ AiMute(FALSE)
  \/ \E u \in Users : BargeIn(u)
  \/ PublishingTimeout \/ ArmedTimeout \/ CooldownOver

MCNext == MCEnvironment \/ \E f \in Flows : Start(f) \/ Settle(f)

MCFairSpec ==
  /\ NothingPending \/ CapturePending
  /\ [][MCNext]_vars
  /\ \A f \in Flows : WF_vars(Settle(f))
=============================================================================
