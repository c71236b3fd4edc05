------------------------------- MODULE Opinions -------------------------------
(***************************************************************************)
(* The opinions the bot offers unasked: EvidenceRepository holds the       *)
(* evidence, OpinionService offers the best match with a conversation      *)
(* unless it was offered in the room within the cooldown.  One instance    *)
(* with one map of records serves every room.  Which evidence matches best *)
(* and reaches the threshold is data and left open.  Time advances in      *)
(* parts of a cooldown.                                                    *)
(***************************************************************************)
EXTENDS Integers

CONSTANTS
  Rooms,
  Evidence,  \* ids of evidence
  Cooldown   \* OPINION_COOLDOWN_MS, in ticks

VARIABLES
  enabled,   \* config.enabled
  valid,     \* the evidence that is active, recent enough and of enough participants
  recent,    \* recentOpinions: room -> evidence -> ticks since the record, or NoRecord
  told,      \* history: room -> evidence -> ticks since it was offered, up to Cooldown
  forgotten  \* history: what was offered and then forgotten with its room's history

vars == <<enabled, valid, recent, told, forgotten>>

NoRecord == -1
NothingRecorded == [e \in Evidence |-> NoRecord]

Init ==
  /\ enabled = TRUE
  /\ valid = Evidence
  /\ recent = [r \in Rooms |-> NothingRecorded]
  /\ told = [r \in Rooms |-> [e \in Evidence |-> Cooldown]]
  /\ forgotten = {}

-----------------------------------------------------------------------------
IsOnCooldown(r, e) == recent[r][e] # NoRecord /\ recent[r][e] < Cooldown

\* registerOpinion drops the records of all rooms that are older than two cooldowns.
Expired(elapsed) == elapsed > 2 * Cooldown
RegisterOpinionForgetful(r, e) ==
  recent' = [q \in Rooms |-> [f \in Evidence |->
    IF q = r /\ f = e THEN 0 ELSE IF Expired(recent[q][f]) THEN recent[q][f] ELSE NoRecord]]
RegisterOpinion(r, e) ==
  recent' = [q \in Rooms |-> [f \in Evidence |->
    IF q = r /\ f = e THEN 0 ELSE IF Expired(recent[q][f]) THEN NoRecord ELSE recent[q][f]]]

\* analyzeAndRespond, when the conversation of room r matches e best: it decides and
\* registers without an await.  What is said then is a flow of ResponseFlow; the record
\* stays if that fails.
OfferOpinion(r, e) ==
  /\ enabled
  /\ e \in valid
  /\ ~IsOnCooldown(r, e)
  /\ RegisterOpinion(r, e)
  /\ told' = [told EXCEPT ![r][e] = 0]
  /\ forgotten' = forgotten \ {<<r, e>>}
  /\ UNCHANGED <<enabled, valid>>

ClearRoomHistory(r) ==
  /\ recent' = [recent EXCEPT ![r] = NothingRecorded]
  /\ forgotten' = forgotten \cup {<<r, e>> : e \in {f \in Evidence : told[r][f] < Cooldown}}
  /\ UNCHANGED <<enabled, valid, told>>

SetEnabled(on) ==
  /\ enabled' = on
  /\ UNCHANGED <<valid, recent, told, forgotten>>

\* deactivate, or the evidence becomes too old.
Withdraw(e) ==
  /\ valid' = valid \ {e}
  /\ UNCHANGED <<enabled, recent, told, forgotten>>

Add(e) ==
  /\ valid' = valid \cup {e}
  /\ UNCHANGED <<enabled, recent, told, forgotten>>

\* Records count no further than where they expire.
Tick ==
  /\ recent' = [r \in Rooms |-> [e \in Evidence |->
       IF recent[r][e] = NoRecord \/ Expired(recent[r][e]) THEN recent[r][e]
       ELSE recent[r][e] + 1]]
  /\ told' = [r \in Rooms |-> [e \in Evidence |->
       IF told[r][e] = Cooldown THEN Cooldown ELSE told[r][e] + 1]]
  /\ forgotten' = {p \in forgotten : told'[p[1]][p[2]] < Cooldown}
  /\ UNCHANGED <<enabled, valid>>

Next ==
  \/ \E r \in Rooms, e \in Evidence : OfferOpinion(r, e)
  \/ \E r \in Rooms : ClearRoomHistory(r)
  \/ \E on \in BOOLEAN : SetEnabled(on)
  \/ \E e \in Evidence : Withdraw(e) \/ Add(e)
  \/ Tick

Spec == Init /\ [][Next]_vars

-----------------------------------------------------------------------------
\* Every variable has its shape; no record is older than where it expires.
TypeOK ==
  /\ valid \subseteq Evidence
  /\ recent \in [Rooms -> [Evidence -> NoRecord..2 * Cooldown + 1]]
  /\ told \in [Rooms -> [Evidence -> 0..Cooldown]]
  /\ forgotten \subseteq Rooms \X Evidence

\* The same evidence is offered twice in a room within the cooldown of five minutes
\* (OPINION_COOLDOWN_MS) only if the history of that very room was cleared in between:
\* whatever is offered, cleaned up or cleared for another room, or withdrawn and added
\* again, does not shorten the distance.
OpinionsAreSpaced ==
  [][\A r \in Rooms, e \in Evidence :
       OfferOpinion(r, e) => told[r][e] = Cooldown \/ <<r, e>> \in forgotten]_vars
=============================================================================
