------------------------------ MODULE Timeline ------------------------------
(***************************************************************************)
(* TimelineService for one room: sendTranscript refines an utterance with  *)
(* the model, given what was said in the last minute, and publishes it.    *)
(* Its calls overlap: voice-bot does not await it.  Utterances and entries *)
(* of the buffer are numbered in the order they are spoken and added; the  *)
(* entries up to "expired" are older than a minute.                        *)
(***************************************************************************)
EXTENDS Integers, Sequences

CONSTANTS
  MaxUtterances,  \* bound: utterances of more than three characters
  MaxMeetings     \* bound: meetings held in the room

Utterances == 1..MaxUtterances

VARIABLES
  meeting,   \* the meeting under way
  buffer,    \* contextBuffers: entries, with the meeting they were spoken in
  added,     \* entries ever added
  cleared,   \* history: entries added before the buffer was last cleared
  expired,   \* the entries up to this one are older than a minute
  state,     \* "new", "refining", "done"
  spokenIn,  \* the meeting an utterance was spoken in
  given,     \* validContext: what an utterance is refined with
  timeline   \* the utterances published, in order

vars == <<meeting, buffer, added, cleared, expired, state, spokenIn, given, timeline>>

Init ==
  /\ meeting = 1
  /\ buffer = <<>>
  /\ added = 0
  /\ cleared = 0
  /\ expired = 0
  /\ state = [u \in Utterances |-> "new"]
  /\ spokenIn = [u \in Utterances |-> 0]
  /\ given = [u \in Utterances |-> <<>>]
  /\ timeline = <<>>

-----------------------------------------------------------------------------
IsValid(entry) == entry.number > expired
CleanExpiredContext(entries) == SelectSeq(entries, IsValid)

\* sendTranscript up to the call of the model.
SendTranscript(u) ==
  LET validContext == CleanExpiredContext(buffer)
  IN  /\ state[u] = "new"
      /\ \A v \in 1..(u - 1) : state[v] # "new"
      /\ state' = [state EXCEPT ![u] = "refining"]
      /\ spokenIn' = [spokenIn EXCEPT ![u] = meeting]
      /\ buffer' = validContext
      /\ given' = [given EXCEPT ![u] = validContext]
      /\ UNCHANGED <<meeting, added, cleared, expired, timeline>>

\* addToContext reads the buffer of the room again, which clearBuffer may have removed.
Entry(u) == [number |-> added + 1, of |-> spokenIn[u]]
AddToValidContext(u) == Append(given[u], Entry(u))
AddToContext(u) == Append(buffer, Entry(u))

\* The refined text, or the text itself when the model fails or returns no JSON, is added
\* and published; a failure to publish is logged.
Refined(u) ==
  /\ state[u] = "refining"
  /\ state' = [state EXCEPT ![u] = "done"]
  /\ buffer' = AddToContext(u)
  /\ added' = added + 1
  /\ timeline' \in {timeline, Append(timeline, u)}
  /\ UNCHANGED <<meeting, cleared, expired, spokenIn, given>>

\* stopBot or cleanupRoom, and the next meeting in the room.
ClearBuffer ==
  /\ meeting < MaxMeetings
  /\ meeting' = meeting + 1
  /\ buffer' = <<>>
  /\ cleared' = added
  /\ UNCHANGED <<added, expired, state, spokenIn, given, timeline>>

Expire(n) ==
  /\ n > expired
  /\ expired' = n
  /\ UNCHANGED <<meeting, buffer, added, cleared, state, spokenIn, given, timeline>>

Next ==
  \/ ClearBuffer
  \/ \E n \in 1..added : Expire(n)
  \/ \E u \in Utterances : SendTranscript(u) \/ Refined(u)

Spec == Init /\ [][Next]_vars

-----------------------------------------------------------------------------
\* Every variable has its shape.
TypeOK ==
  /\ meeting \in 1..MaxMeetings
  /\ expired \in 0..added
  /\ cleared \in 0..added
  /\ state \in [Utterances -> {"new", "refining", "done"}]

\* However the calls of the model overlap, no utterance of the last minute is lost from the
\* buffer, the buffer is in order, and nothing comes back that was cleared.
RecentContextIsKept ==
  /\ \A n \in 1..added :
       n > expired /\ n > cleared => \E i \in DOMAIN buffer : buffer[i].number = n
  /\ \A i \in DOMAIN buffer :
       /\ buffer[i].number > cleared
       /\ i > 1 => buffer[i - 1].number < buffer[i].number

\* What is kept was spoken in the meeting under way.  It does not hold: an utterance still
\* being refined when the buffer is cleared starts the next buffer.
ContextIsOfThisMeeting == \A i \in DOMAIN buffer : buffer[i].of = meeting

\* The timeline shows utterances in the order they were spoken.  It does not hold: the
\* calls of the model return in any order.
TimelineInOrder == \A i, j \in DOMAIN timeline : i < j => timeline[i] < timeline[j]
=============================================================================
