---------------------------- MODULE RagQuestions ----------------------------
(***************************************************************************)
(* Questions to the RAG server in one room: sendQuestion,                  *)
(* sendQuestionWithSources, the answer branch of handleMessage, the 30     *)
(* second timers and what disconnect does to waiting questions.            *)
(*                                                                         *)
(* A question is registered in the context of the connection it was sent   *)
(* on, under its text.  An answer carries the text only and is looked up   *)
(* in the context that is current when it arrives, first among the         *)
(* questions with sources.  A timer deletes by text from its own context.  *)
(***************************************************************************)
EXTENDS Integers, FiniteSets

CONSTANTS
  Questions,   \* calls of sendQuestion and sendQuestionWithSources
  Texts,       \* question texts
  Contexts,    \* sockets, each with the ConnectionContext its open creates
  NoContext, NoQuestion

Kinds == {"plain", "sources"}

VARIABLES
  current,   \* connections.get(roomId), or NoContext
  link,      \* context -> "new", "open", "closing" or "closed": its socket
  pending,   \* context -> kind -> text -> the question registered there
  status,    \* question -> "new", "waiting" or how its promise settled
  sentOn,    \* question -> the context it was sent on
  kind, text,
  timers,    \* questions whose 30 second timer is running
  wire       \* questions the RAG server is still to answer

vars == <<current, link, pending, status, sentOn, kind, text, timers, wire>>
asked == <<sentOn, kind, text>>

Init ==
  /\ current = NoContext
  /\ link = [x \in Contexts |-> "new"]
  /\ pending = [x \in Contexts |-> [k \in Kinds |-> [t \in Texts |-> NoQuestion]]]
  /\ status = [q \in Questions |-> "new"]
  /\ sentOn = [q \in Questions |-> NoContext]
  /\ kind \in [Questions -> Kinds]
  /\ text \in [Questions -> Texts]
  /\ timers = {}
  /\ wire = {}

IsConnected == current # NoContext /\ link[current] = "open"

Settle(q, how) ==
  status' = [status EXCEPT ![q] = IF @ = "waiting" THEN how ELSE @]

\* sendQuestion / sendQuestionWithSources: register, start the timer, send.
Ask(q) ==
  /\ status[q] = "new"
  /\ IF IsConnected
     THEN /\ status' = [status EXCEPT ![q] = "waiting"]
          /\ sentOn' = [sentOn EXCEPT ![q] = current]
          /\ pending' = [pending EXCEPT ![current][kind[q]][text[q]] = q]
          /\ timers' = timers \cup {q}
          /\ wire' = wire \cup {q}
     ELSE /\ status' = [status EXCEPT ![q] = "refused"]
          /\ UNCHANGED <<sentOn, pending, timers, wire>>
  /\ UNCHANGED <<current, link, kind, text>>

\* Who an answer to text t is for: a question with sources first.
Lookup(t) ==
  IF pending[current]["sources"][t] # NoQuestion
  THEN pending[current]["sources"][t]
  ELSE pending[current]["plain"][t]

UnregisterLater(x, q) == pending
Unregister(x, q) == [pending EXCEPT ![x][kind[q]][text[q]] = NoQuestion]

\* The answer to question q arrives on the socket q was sent on, which may be
\* closing already; it is looked up in whatever context is current by then.
Answer(q) ==
  /\ q \in wire
  /\ wire' = wire \ {q}
  /\ IF current = NoContext
     THEN UNCHANGED <<pending, status, timers>>
     ELSE LET r == Lookup(text[q]) IN
          IF r = NoQuestion THEN UNCHANGED <<pending, status, timers>>
          ELSE /\ timers' = timers \ {r}
               /\ pending' = Unregister(current, r)
               /\ Settle(r, "answered")
  /\ UNCHANGED <<current, link, asked>>

\* The timer of q deletes whatever is registered under its text.
Timeout(q) ==
  /\ q \in timers
  /\ timers' = timers \ {q}
  /\ pending' = Unregister(sentOn[q], q)
  /\ Settle(q, "timedOut")
  /\ UNCHANGED <<current, link, asked, wire>>

\* A socket opens: a context with nothing pending replaces the current one.
Open(x) ==
  /\ link[x] = "new"
  /\ link' = [link EXCEPT ![x] = "open"]
  /\ current' = x
  /\ UNCHANGED <<pending, status, asked, timers, wire>>

\* The socket of x is no longer open; its close event is still to come.
LinkDown(x) ==
  /\ link[x] = "open"
  /\ link' = [link EXCEPT ![x] = "closing"]
  /\ UNCHANGED <<current, pending, status, asked, timers, wire>>

\* The close event of x, or of a socket that never opened: the answers it would
\* have carried are lost. The room's entry, whichever context it holds by now,
\* stays for the reconnect, or goes (code 1000, or the attempts are used up).
Closed(x) ==
  /\ link[x] \in {"new", "closing"}
  /\ link' = [link EXCEPT ![x] = "closed"]
  /\ wire' = {q \in wire : sentOn[q] # x}
  /\ current' \in {current, NoContext}
  /\ UNCHANGED <<pending, status, asked, timers>>

\* disconnect(roomId): the registered plain questions are rejected, those with
\* sources are left to their timers.
Registered(x, k) == {pending[x][k][t] : t \in Texts} \ {NoQuestion}

RejectQuietly(q) == status[q]
RejectedStatus(q) == IF status[q] = "waiting" THEN "rejected" ELSE status[q]

Disconnect ==
  /\ current # NoContext
  /\ LET rejected == Registered(current, "plain") IN
       /\ timers' = timers \ rejected
       /\ status' = [q \in Questions |->
                       IF q \in rejected THEN RejectedStatus(q) ELSE status[q]]
  /\ pending' = [pending EXCEPT ![current]["plain"] = [t \in Texts |-> NoQuestion]]
  /\ link' = [link EXCEPT ![current] = IF @ = "open" THEN "closing" ELSE @]
  /\ current' = NoContext
  /\ UNCHANGED <<asked, wire>>

Next ==
  \/ \E q \in Questions : Ask(q) \/ Answer(q) \/ Timeout(q)
  \/ \E x \in Contexts : Open(x) \/ LinkDown(x) \/ Closed(x)
  \/ Disconnect

Spec == Init /\ [][Next]_vars

\* Timers fire; the server need not answer.
Fairness == \A q \in Questions : WF_vars(Timeout(q))

FairSpec == Spec /\ Fairness

-----------------------------------------------------------------------------
Settled == {"answered", "timedOut", "rejected", "refused"}

\* Every variable has its shape, and whatever was sent was sent on a context.
TypeOK ==
  /\ current \in Contexts \cup {NoContext}
  /\ link \in [Contexts -> {"new", "open", "closing", "closed"}]
  /\ pending \in [Contexts -> [Kinds -> [Texts -> Questions \cup {NoQuestion}]]]
  /\ status \in [Questions -> {"new", "waiting"} \cup Settled]
  /\ sentOn \in [Questions -> Contexts \cup {NoContext}]
  /\ timers \subseteq Questions
  /\ wire \subseteq Questions
  /\ \A q \in Questions : status[q] \notin {"new", "refused"} => sentOn[q] \in Contexts

\* What is registered is a question that still waits, under its own context,
\* kind and text, with its timer running: an answer never goes to a promise
\* that has settled while another question waits for it.
RegisteredWaits ==
  \A x \in Contexts, k \in Kinds, t \in Texts :
    LET q == pending[x][k][t] IN
      q # NoQuestion =>
        status[q] = "waiting" /\ q \in timers /\ sentOn[q] = x /\ kind[q] = k /\ text[q] = t

\* Every question gets an answer or an error.
EveryQuestionSettles ==
  \A q \in Questions : status[q] = "waiting" ~> status[q] \in Settled

\* "Reject all waiting requests" (rag-client.service.ts:498): after disconnect
\* no question of that connection waits.
DisconnectRejectsAll ==
  [][Disconnect =>
       \A q \in Questions : sentOn[q] = current => status'[q] # "waiting"]_vars
=============================================================================
