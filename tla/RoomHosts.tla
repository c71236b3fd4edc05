------------------------------ MODULE RoomHosts ------------------------------
(***************************************************************************)
(* Hosts of a meeting: the DataReceived handler of the VoiceBotService for *)
(* HOST_MODE_ENABLE, HOST_ADD, HOST_REMOVE, the hosts' toggles and queries *)
(* and CLIENT_READY, with what participants coming and going make the bot  *)
(* tell the RAG server about roles.  No handler awaits anything: the posts *)
(* to the RAG server and the processing of a query are left to themselves. *)
(***************************************************************************)
EXTENDS Integers

CONSTANT Participants

VARIABLES
  present,          \* room.remoteParticipants, without bots
  hostOnlyMode, hostIdentities, wakeWordEnabled, speakingEnabled,
  greetingDone, isContinuedMeeting,
  greetings,        \* calls of greetOnJoin
  queries,          \* participants whose HOST_AI_QUERY is being processed
  told,             \* participant -> the role the RAG server ends up with: "host",
                    \* "participant" or "left"
  missed            \* participants whose last role it does not end up with

toggles == <<wakeWordEnabled, speakingEnabled>>
greeting == <<greetingDone, isContinuedMeeting, greetings>>
server == <<told, missed>>
vars == <<present, hostOnlyMode, hostIdentities, toggles, greeting, queries, server>>

Init ==
  /\ present \in SUBSET Participants
  /\ hostOnlyMode = TRUE
  /\ hostIdentities = {}
  /\ wakeWordEnabled = FALSE
  /\ speakingEnabled = FALSE
  /\ greetingDone = FALSE
  /\ isContinuedMeeting = FALSE
  /\ greetings = 0
  /\ queries = {}
  /\ told = [p \in Participants |-> "left"]
  /\ missed = {}

\* participantJoined and participantLeft for the participants of roles, not awaited: each
\* post may fail, which is only logged, or reach the server before an earlier one, whose
\* role then stands.
Post(roles) ==
  \E arrived \in SUBSET DOMAIN roles :
    /\ told' = [p \in Participants |-> IF p \in arrived THEN roles[p] ELSE told[p]]
    /\ missed' = (missed \cup DOMAIN roles) \ arrived

-----------------------------------------------------------------------------
(* Messages of the clients; sender is the participant.                     *)

\* The greeting is spoken once, for the first client that is ready.
ClientReady(sender, continued) ==
  /\ sender \in present
  /\ ~greetingDone
  /\ greetingDone' = TRUE
  /\ isContinuedMeeting' = continued
  /\ greetings' = greetings + 1
  /\ UNCHANGED <<present, hostOnlyMode, hostIdentities, toggles, queries, server>>

\* The sender, or the host the message names, becomes a host, also when the mode is being
\* turned off; turned on, it tells the RAG server the role of everybody.
HostModeEnable(sender, host, enabled) ==
  /\ sender \in present
  /\ hostOnlyMode' = enabled
  /\ hostIdentities' = hostIdentities \cup {host}
  /\ IF enabled
     THEN Post([p \in {host} \cup (present \ hostIdentities') |->
                  IF p = host THEN "host" ELSE "participant"])
     ELSE UNCHANGED server
  /\ UNCHANGED <<present, toggles, greeting, queries>>

HostAdd(sender, host) ==
  /\ sender \in present
  /\ hostIdentities' = hostIdentities \cup {host}
  /\ Post([p \in {host} |-> "host"])
  /\ UNCHANGED <<present, hostOnlyMode, toggles, greeting, queries>>

HostRemoveQuietly(sender, host) ==
  /\ sender \in present
  /\ hostIdentities' = hostIdentities \ {host}
  /\ UNCHANGED <<present, hostOnlyMode, toggles, greeting, queries, server>>
HostRemove(sender, host) ==
  /\ sender \in present
  /\ hostIdentities' = hostIdentities \ {host}
  /\ Post([p \in {host} |-> "participant"])
  /\ UNCHANGED <<present, hostOnlyMode, toggles, greeting, queries>>

WakeWordToggle(sender, enabled) ==
  /\ sender \in present \cap hostIdentities
  /\ wakeWordEnabled' = enabled
  /\ UNCHANGED <<present, hostOnlyMode, hostIdentities, speakingEnabled, greeting, queries, server>>

SpeakingToggle(sender, enabled) ==
  /\ sender \in present \cap hostIdentities
  /\ speakingEnabled' = enabled
  /\ UNCHANGED <<present, hostOnlyMode, hostIdentities, wakeWordEnabled, greeting, queries, server>>

\* processHostQuery is started and not awaited.
HostAiQuery(sender) ==
  /\ hostOnlyMode
  /\ sender \in present \cap hostIdentities
  /\ queries' = queries \cup {sender}
  /\ UNCHANGED <<present, hostOnlyMode, hostIdentities, toggles, greeting, server>>

\* sendTextCardToHost: the answer goes to the hosts there are by then, if any.
HostQueryAnswered(sender) ==
  /\ sender \in queries
  /\ queries' = queries \ {sender}
  /\ UNCHANGED <<present, hostOnlyMode, hostIdentities, toggles, greeting, server>>

-----------------------------------------------------------------------------
(* Participants coming and going.  A host stays a host while away, and the *)
(* RAG server is not told when one comes back.                             *)

ParticipantConnected(p) ==
  /\ p \notin present
  /\ present' = present \cup {p}
  /\ IF hostOnlyMode /\ p \notin hostIdentities
     THEN Post([q \in {p} |-> "participant"])
     ELSE UNCHANGED server
  /\ UNCHANGED <<hostOnlyMode, hostIdentities, toggles, greeting, queries>>

ParticipantDisconnected(p) ==
  /\ p \in present
  /\ present' = present \ {p}
  /\ IF hostOnlyMode THEN Post([q \in {p} |-> "left"]) ELSE UNCHANGED server
  /\ UNCHANGED <<hostOnlyMode, hostIdentities, toggles, greeting, queries>>

Next ==
  \E p \in Participants :
    \/ \E b \in BOOLEAN : ClientReady(p, b) \/ WakeWordToggle(p, b) \/ SpeakingToggle(p, b)
    \/ \E q \in Participants : HostAdd(p, q) \/ HostRemove(p, q)
    \/ \E q \in Participants, b \in BOOLEAN : HostModeEnable(p, q, b)
    \/ HostAiQuery(p) \/ HostQueryAnswered(p)
    \/ ParticipantConnected(p) \/ ParticipantDisconnected(p)

Spec == Init /\ [][Next]_vars

-----------------------------------------------------------------------------
\* The bot greets at most once, and every role is a role.
TypeOK ==
  /\ present \subseteq Participants /\ hostIdentities \subseteq Participants
  /\ queries \subseteq Participants
  /\ greetings = IF greetingDone THEN 1 ELSE 0
  /\ told \in [Participants -> {"host", "participant", "left"}]
  /\ missed \subseteq Participants

\* Somebody the RAG server takes for a host is one, whatever roles come and go, unless the
\* last post about them failed or was overtaken: whoever takes the role away says so
\* (HOST_REMOVE).
ToldHostsAreHosts ==
  \A p \in Participants \ missed : told[p] = "host" => p \in hostIdentities
=============================================================================
