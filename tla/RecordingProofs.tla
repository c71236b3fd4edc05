-------------------------- MODULE RecordingProofs ---------------------------
(***************************************************************************)
(* Proofs about Recording, for any number of calls.                        *)
(***************************************************************************)
EXTENDS Recording, TLAPS

\* As long as no two calls overlap and none fails: at most one call waits for the
\* service; a start that waits found no entry, a stop that waits stops what the entry
\* names; and what runs is what the entry names.
Undisturbed ==
  /\ \A f, g \in Calls : call[f] = "egress" /\ call[g] = "egress" => f = g
  /\ \A f \in Starts : call[f] = "egress" => activeRecording = NoEgress
  /\ \A f \in Stops : call[f] = "egress" => captured[f] = activeRecording
  /\ egresses \subseteq {activeRecording}

\* The invariant that is inductive.
IInv == TypeOK /\ (~raced /\ ~failed => Undisturbed)

\* Every step keeps the types; a stop that begins to wait has found an entry.
LEMMA TypeStep == TypeOK /\ [Next]_vars => TypeOK'
<1> SUFFICES ASSUME TypeOK, [Next]_vars PROVE TypeOK'
  OBVIOUS
<1> USE CallsAssumption DEF TypeOK, Calls
<1>1. ASSUME NEW f \in Starts, StartRecording(f) PROVE TypeOK'
  <2>1. raced' \in BOOLEAN
    BY <1>1 DEF StartRecording, AskService
  <2>2. QED
    BY <1>1, <2>1 DEF StartRecording, AskService, Over
<1>2. ASSUME NEW f \in Starts, EgressStarted(f) PROVE TypeOK'
  BY <1>2 DEF EgressStarted, Over
<1>3. ASSUME NEW f \in Starts, EgressStartFails(f) PROVE TypeOK'
  BY <1>3 DEF EgressStartFails, Over
<1>4. ASSUME NEW f \in Starts, EgressEnds(f) PROVE TypeOK'
  BY <1>4 DEF EgressEnds
<1>5. ASSUME NEW f \in Stops, StopRecording(f) PROVE TypeOK'
  <2>1. raced' \in BOOLEAN
    BY <1>5 DEF StopRecording, AskService
  <2>2. CASE NoActiveRecording /\ Over(f) /\ UNCHANGED captured
    BY <1>5, <2>1, <2>2 DEF StopRecording, Over
  <2>3. CASE ~NoActiveRecording /\ captured' = [captured EXCEPT ![f] = activeRecording]
             /\ AskService(f)
    BY <1>5, <2>1, <2>3 DEF StopRecording, NoActiveRecording, AskService
  <2>4. QED
    BY <1>5, <2>2, <2>3 DEF StopRecording
<1>6. ASSUME NEW f \in Stops, EgressStopped(f) PROVE TypeOK'
  BY <1>6 DEF EgressStopped, Over
<1>7. ASSUME NEW f \in Stops, EgressStopFails(f) PROVE TypeOK'
  BY <1>7 DEF EgressStopFails, Over
<1>8. CASE UNCHANGED vars
  BY <1>8 DEF vars
<1>9. QED
  BY <1>1, <1>2, <1>3, <1>4, <1>5, <1>6, <1>7, <1>8 DEF Next

\* Every step keeps the inductive invariant.
LEMMA InvariantStep == IInv /\ [Next]_vars => IInv'
<1> SUFFICES ASSUME IInv, [Next]_vars PROVE IInv'
  OBVIOUS
<1>0. TypeOK'
  BY TypeStep DEF IInv
<1> SUFFICES ASSUME ~raced', ~failed' PROVE Undisturbed'
  BY <1>0 DEF IInv
<1> USE CallsAssumption DEF TypeOK, Calls, Undisturbed, IInv
\* A start that is refused, or the first to wait.
<1>1. ASSUME NEW f \in Starts, StartRecording(f) PROVE Undisturbed'
  BY <1>1 DEF StartRecording, AlreadyRecorded, AskService, Over
\* The egress that was waited for is the only one: the entry was empty.
<1>2. ASSUME NEW f \in Starts, EgressStarted(f) PROVE Undisturbed'
  BY <1>2 DEF EgressStarted, Over
<1>3. ASSUME NEW f \in Starts, EgressStartFails(f) PROVE Undisturbed'
  BY <1>3 DEF EgressStartFails
<1>4. ASSUME NEW f \in Starts, EgressEnds(f) PROVE Undisturbed'
  BY <1>4 DEF EgressEnds
<1>5. ASSUME NEW f \in Stops, StopRecording(f) PROVE Undisturbed'
  <2>1. CASE NoActiveRecording /\ Over(f) /\ UNCHANGED <<captured, raced>>
    BY <1>5, <2>1 DEF StopRecording, Over
  <2>2. CASE ~NoActiveRecording /\ captured' = [captured EXCEPT ![f] = activeRecording]
             /\ AskService(f)
    <3>1. \A g \in Calls : call[g] # "egress"
      BY <2>2 DEF AskService
    <3>2. \A g \in Calls : call'[g] = "egress" => g = f
      BY <2>2, <3>1 DEF AskService
    <3>3. captured'[f] = activeRecording
      BY <2>2
    <3>4. \A g \in Starts : call'[g] # "egress"
      BY <3>2
    <3>5. UNCHANGED <<activeRecording, egresses>>
      BY <1>5 DEF StopRecording
    <3>6. ~raced /\ ~failed
      BY <1>5, <2>2 DEF StopRecording, AskService
    <3>7. \A g \in Stops : call'[g] = "egress" => captured'[g] = activeRecording'
      BY <3>2, <3>3, <3>5
    <3>8. egresses' \subseteq {activeRecording'}
      BY <3>5, <3>6
    <3> QED BY <3>2, <3>4, <3>7, <3>8
  <2> QED BY <1>5, <2>1, <2>2 DEF StopRecording
\* What is stopped is what the entry names, so nothing runs any more.
<1>6. ASSUME NEW f \in Stops, EgressStopped(f) PROVE Undisturbed'
  BY <1>6 DEF EgressStopped, Over
<1>7. ASSUME NEW f \in Stops, EgressStopFails(f) PROVE Undisturbed'
  BY <1>7 DEF EgressStopFails
<1>8. CASE UNCHANGED vars
  BY <1>8 DEF vars
<1>9. QED
  BY <1>1, <1>2, <1>3, <1>4, <1>5, <1>6, <1>7, <1>8 DEF Next

\* The inductive invariant holds for ever.
LEMMA Invariant == Spec => []IInv
<1>1. Init => IInv
  BY CallsAssumption DEF Init, IInv, TypeOK, Calls, Undisturbed
<1>2. QED
  BY <1>1, InvariantStep, PTL DEF Spec

\* The types hold for any number of calls; in particular a stopRecording that waits for
\* the egress service knows which egress it stops.
THEOREM TypeCorrect == Spec => []TypeOK
<1>1. IInv => TypeOK
  BY DEF IInv
<1>2. QED
  BY <1>1, Invariant, PTL

\* For any number of calls of startRecording and stopRecording: an egress that runs is
\* the one activeRecordings names, as long as no two calls overlap and none fails.
THEOREM TrackedRecording == Spec => []RecordingIsTracked
<1>1. IInv => RecordingIsTracked
  BY DEF IInv, Undisturbed, RecordingIsTracked
<1>2. QED
  BY <1>1, Invariant, PTL
=============================================================================
