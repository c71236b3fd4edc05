--------------------------- MODULE SilenceAlerts ----------------------------
(***************************************************************************)
(* The alerts about silent participants that the voice bot of one room     *)
(* sends to the hosts: the interval of startSilentParticipantChecker and   *)
(* sendSilentParticipantAlert.                                             *)
(*                                                                         *)
(* The callback is asynchronous, and is cut at its publishData, so a tick  *)
(* that takes longer than the interval overlaps the next one.  A           *)
(* participant has been silent for SILENT_THRESHOLD_MS, or not: how long   *)
(* exactly does not matter.                                                *)
(***************************************************************************)
EXTENDS Integers, FiniteSets

CONSTANTS
  People,  \* participants that are not hosts
  Ticks,   \* ticks of the interval
  NoOne

VARIABLES
  hosted,          \* hostOnlyMode, and somebody in hostIdentities
  present,         \* room.remoteParticipants
  silence,         \* person -> "unseen", "recent" or "silent"
  spoken,          \* lastSttTimeByUser
  alreadyAlerted,
  phase,           \* tick -> "idle", "alert" (it sends one) or "over"
  visited,         \* tick -> participants its loop is done with
  now,             \* tick -> whose last words were long ago when it began
  target,          \* tick -> whom its alert is about
  published,       \* ticks whose alert had hosts to go to
  told,            \* person -> alerts about the present silence
  overlapped       \* a tick began before the last one was over

loop == <<phase, visited, now, target, published>>
vars == <<hosted, present, silence, spoken, alreadyAlerted, loop, told, overlapped>>

Init ==
  /\ hosted = FALSE
  /\ present = {}
  /\ silence = [p \in People |-> "unseen"]
  /\ spoken = {}
  /\ alreadyAlerted = {}
  /\ phase = [t \in Ticks |-> "idle"]
  /\ visited = [t \in Ticks |-> {}]
  /\ now = [t \in Ticks |-> {}]
  /\ target = [t \in Ticks |-> NoOne]
  /\ published = {}
  /\ told = [p \in People |-> 0]
  /\ overlapped = FALSE

-----------------------------------------------------------------------------
TickOver(t) ==
  /\ phase' = [phase EXCEPT ![t] = "over"]
  /\ visited' = [visited EXCEPT ![t] = {}]
  /\ now' = [now EXCEPT ![t] = {}]
  /\ target' = [target EXCEPT ![t] = NoOne]
  /\ published' = published \ {t}

\* Who is in the room is looked up again at every turn of the loop.
Left(t) == present \ visited[t]

\* The visit of a participant who is not due: the first one records the time of
\* joining; one who has spoken lately may be alerted about again.
Visit(V, alerted, long) ==
  /\ silence' = [p \in People |->
                   IF p \in V /\ silence[p] = "unseen" THEN "recent" ELSE silence[p]]
  /\ alreadyAlerted' = alerted \ {p \in V : p \in spoken /\ p \notin long}

\* The loop goes on: to the next one who is due, or to its end. The order is that of
\* the joins, so anyone may be next. sendSilentParticipantAlert looks for hosts again,
\* and returns if there are none.
Loop(t, alerted, long) ==
  LET due == (Left(t) \cap long) \ alerted IN
  \/ /\ due = {}
     /\ Visit(Left(t), alerted, long)
     /\ TickOver(t)
  \/ \E p \in due, V \in SUBSET (Left(t) \ due) :
       /\ Visit(V, alerted, long)
       /\ phase' = [phase EXCEPT ![t] = "alert"]
       /\ visited' = [visited EXCEPT ![t] = @ \cup V \cup {p}]
       /\ now' = [now EXCEPT ![t] = long]
       /\ target' = [target EXCEPT ![t] = p]
       /\ published' = IF hosted THEN published \cup {t} ELSE published \ {t}

LongSilent == {p \in People : silence[p] = "silent"}

SilenceTick(t) ==
  /\ phase[t] = "idle"
  /\ overlapped' = (overlapped \/ \E u \in Ticks : phase[u] = "alert")
  /\ IF hosted
     THEN Loop(t, alreadyAlerted, LongSilent)
     ELSE TickOver(t) /\ UNCHANGED <<silence, alreadyAlerted>>
  /\ UNCHANGED <<hosted, present, spoken, told>>

MarkedNever(t) == alreadyAlerted
Marked(t) == alreadyAlerted \cup {target[t]}

\* publishData is done: the participant is marked and the loop goes on.
AlertSent(t) ==
  /\ phase[t] = "alert"
  /\ told' = IF t \in published /\ target[t] \in now[t]
             THEN [told EXCEPT ![target[t]] = @ + 1] ELSE told
  /\ Loop(t, Marked(t), now[t])
  /\ UNCHANGED <<hosted, present, spoken, overlapped>>

\* Nobody catches the error, and the tick ends there. The rejection is unhandled; a runtime
\* that ends the process for that leaves nothing to model.
AlertFails(t) ==
  /\ phase[t] = "alert"
  /\ TickOver(t)
  /\ UNCHANGED <<hosted, present, silence, spoken, alreadyAlerted, told, overlapped>>

-----------------------------------------------------------------------------
(* People and time.                                                        *)

HostsChange ==
  /\ hosted' = ~hosted
  /\ UNCHANGED <<present, silence, spoken, alreadyAlerted, loop, told, overlapped>>

\* Who comes back is a new participant of the Map.
ComesOrGoes(p) ==
  /\ present' = IF p \in present THEN present \ {p} ELSE present \cup {p}
  /\ visited' = [t \in Ticks |-> visited[t] \ {p}]
  /\ UNCHANGED <<hosted, silence, spoken, alreadyAlerted, phase, now, target, published, told,
                 overlapped>>

Speaks(p) ==
  /\ p \in present
  /\ silence' = [silence EXCEPT ![p] = "recent"]
  /\ spoken' = spoken \cup {p}
  /\ now' = [t \in Ticks |-> now[t] \ {p}]
  /\ told' = [told EXCEPT ![p] = 0]
  /\ UNCHANGED <<hosted, present, alreadyAlerted, phase, visited, target, published, overlapped>>

FallsSilent(p) ==
  /\ silence[p] = "recent"
  /\ silence' = [silence EXCEPT ![p] = "silent"]
  /\ UNCHANGED <<hosted, present, spoken, alreadyAlerted, loop, told, overlapped>>

Next ==
  \/ \E t \in Ticks : SilenceTick(t) \/ AlertSent(t) \/ AlertFails(t)
  \/ HostsChange
  \/ \E p \in People : ComesOrGoes(p) \/ Speaks(p) \/ FallsSilent(p)

Spec == Init /\ [][Next]_vars

-----------------------------------------------------------------------------
\* Every variable has its shape; a tick that waits has somebody to report, and nobody is
\* reported who was not in the room before, or did not speak.
TypeOK ==
  /\ hosted \in BOOLEAN
  /\ present \subseteq People
  /\ silence \in [People -> {"unseen", "recent", "silent"}]
  /\ spoken \subseteq People
  /\ alreadyAlerted \subseteq People
  /\ \A p \in alreadyAlerted : silence[p] # "unseen"
  /\ phase \in [Ticks -> {"idle", "alert", "over"}]
  /\ visited \in [Ticks -> SUBSET People]
  /\ now \in [Ticks -> SUBSET People]
  /\ target \in [Ticks -> People \cup {NoOne}]
  /\ \A t \in Ticks : phase[t] = "alert" => target[t] \in People
  /\ published \subseteq Ticks
  /\ told \in [People -> 0..Cardinality(Ticks)]
  /\ overlapped \in BOOLEAN

\* The hosts are told of one silence at most once, through failing messages, people and
\* hosts who come and go, and people who speak while the alert is on its way, unless a
\* tick took longer than the interval.
SilenceToldOnce == ~overlapped => \A p \in People : told[p] <= 1

\* What the comment "아직 알리지 않은 경우" (not told yet) promises without conditions.
NeverToldTwice == \A p \in People : told[p] <= 1
=============================================================================
