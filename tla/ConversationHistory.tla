------------------------- MODULE ConversationHistory -------------------------
(***************************************************************************)
(* context.conversationHistory: updateConversationHistory, which expires   *)
(* and trims it, and processHostQuery, which appends to it after its       *)
(* awaits and does neither.  Turns are numbered in the order they are      *)
(* stored; the turns up to "expired" are older than five minutes.          *)
(***************************************************************************)
EXTENDS Integers, Sequences, FiniteSets, FiniteSetsExt

CONSTANTS
  MaxLength,  \* twice MAX_CONVERSATION_TURNS
  MaxTurns,   \* bound: turns ever stored
  Queries     \* queries of hosts

VARIABLES
  conversationHistory,  \* the numbers of the turns kept
  turns,                \* turns ever stored
  expired,              \* the turns up to this one are too old
  query,                \* what a host's query waits for
  untrimmed             \* history: turns appended by hosts since the last trimming

vars == <<conversationHistory, turns, expired, query, untrimmed>>

Init ==
  /\ conversationHistory = <<>>
  /\ turns = 0
  /\ expired = 0
  /\ query = [q \in Queries |-> "none"]
  /\ untrimmed = 0

-----------------------------------------------------------------------------
\* cleanForHistory drops the wake word, and what is only a filler; what is left counts from
\* three characters on.  Both the utterance and the response may be dropped.
Meaningful == {0, 1, 2}

Fresh(s) == SelectSeq(s, LAMBDA t : t > expired)
Added(n) == [i \in 1..n |-> turns + i]
TrimmedFront(s) == SubSeq(s, 1, Min({Len(s), MaxLength}))
Trimmed(s) == SubSeq(s, Max({1, Len(s) - MaxLength + 1}), Len(s))

UpdateConversationHistory(n) ==
  /\ turns + n <= MaxTurns
  /\ conversationHistory' = Trimmed(Fresh(conversationHistory) \o Added(n))
  /\ turns' = turns + n
  /\ untrimmed' = 0
  /\ UNCHANGED <<expired, query>>

\* processHostQuery waits for the RAG server, then, without an answer, for the model.
HostQuery(q) ==
  /\ query[q] = "none"
  /\ query' = [query EXCEPT ![q] = "rag"]
  /\ UNCHANGED <<conversationHistory, turns, expired, untrimmed>>

NoRagAnswer(q) ==
  /\ query[q] = "rag"
  /\ query' = [query EXCEPT ![q] = "llm"]
  /\ UNCHANGED <<conversationHistory, turns, expired, untrimmed>>

HostAnswered(q) ==
  /\ query[q] \in {"rag", "llm"}
  /\ turns < MaxTurns
  /\ query' = [query EXCEPT ![q] = "done"]
  /\ conversationHistory' = Append(conversationHistory, turns + 1)
  /\ turns' = turns + 1
  /\ untrimmed' = untrimmed + 1
  /\ UNCHANGED expired

HostQueryFails(q) ==
  /\ query[q] \in {"rag", "llm"}
  /\ query' = [query EXCEPT ![q] = "done"]
  /\ UNCHANGED <<conversationHistory, turns, expired, untrimmed>>

\* Five minutes after turn t.
Expire(t) ==
  /\ t > expired
  /\ expired' = t
  /\ UNCHANGED <<conversationHistory, turns, query, untrimmed>>

Next ==
  \/ \E n \in Meaningful : UpdateConversationHistory(n)
  \/ \E q \in Queries : HostQuery(q) \/ NoRagAnswer(q) \/ HostAnswered(q) \/ HostQueryFails(q)
  \/ \E t \in 1..turns : Expire(t)

Spec == Init /\ [][Next]_vars

-----------------------------------------------------------------------------
\* Every variable has its shape.
TypeOK ==
  /\ turns \in 0..MaxTurns
  /\ expired \in 0..turns

\* The history is always an unbroken stretch of the conversation up to its last turn, in
\* order; it exceeds its limit only by what hosts asked since it was trimmed last.
HistoryIsRecentPast ==
  /\ \A i \in DOMAIN conversationHistory :
       conversationHistory[i] = turns - Len(conversationHistory) + i
  /\ Len(conversationHistory) <= MaxLength + untrimmed

\* The limit itself, as the comment in updateConversationHistory has it.  It does not hold.
HistoryIsLimited == Len(conversationHistory) <= MaxLength
=============================================================================
