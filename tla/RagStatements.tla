---------------------------- MODULE RagStatements ----------------------------
(***************************************************************************)
(* The statements of one room on their way to the RAG server:              *)
(* sendStatement with its retries, addToStatementBuffer,                   *)
(* flushStatementBuffer, and the deletions of the buffer.                  *)
(*                                                                         *)
(* The buffer serves two purposes: it keeps what could not be sent, and it *)
(* is the transcript the diagram tools read.  Every statement goes into    *)
(* it, sent or not.  When a socket opens, the buffer is emptied and every  *)
(* statement of it that is young enough is passed to sendStatement again,  *)
(* one every 100 ms, while live statements keep coming.                    *)
(***************************************************************************)
EXTENDS Integers, Sequences, SequencesExt, FiniteSets

CONSTANTS
  N,           \* statements 1..N, in the order they are made
  BufferMax,   \* STATEMENT_BUFFER_MAX_SIZE
  MaxRetry,    \* MAX_STATEMENT_RETRY
  SendResults, \* what ws.send may do on an open socket: "sent", "thrown"
  MaxOpens     \* bound on the connections made

Statements == 1..N

VARIABLES
  said,      \* how many statements have been made
  buffer,    \* statementBuffers.get(roomId)
  old,       \* how many of them, from the front, are over a minute old
  flushes,   \* flush in progress (one per open) -> what it has still to send
  retries,   \* <<statement, retryCount>> of the retry timers running
  received,  \* the statements in the order the RAG server got them
  link,      \* "absent" (no entry), "open" or "down"
  opens,     \* connections made
  dropped    \* history: statements dropped for age, overflow, disconnect or retries

vars == <<said, buffer, old, flushes, retries, received, link, opens, dropped>>

Init ==
  /\ said = 0
  /\ buffer = <<>>
  /\ old = 0
  /\ flushes = [o \in 1..MaxOpens |-> <<>>]
  /\ retries = {}
  /\ received = <<>>
  /\ link = "absent"
  /\ opens = 0
  /\ dropped = {}

\* addToStatementBuffer: at the limit the oldest goes.
IsFull(b) == Len(b) >= BufferMax

AddToStatementBuffer(b, s) == Append(IF IsFull(b) THEN Tail(b) ELSE b, s)

\* What age and overflow do to the buffer when s is added to b.
Buffered(b, aged, s) ==
  /\ buffer' = AddToStatementBuffer(b, s)
  /\ old' = IF IsFull(b) /\ aged > 0 THEN aged - 1 ELSE aged

Overflow(b) == IF IsFull(b) THEN {Head(b)} ELSE {}

\* ws.send of s after n retries. A send that throws is retried MaxRetry times,
\* then given up; "lost" is what the caller's step drops besides.
RetriesAfterNone(s, n) == {}
RetriesAfter(s, n) == IF n < MaxRetry THEN {<<s, n + 1>>} ELSE {}

Transmit(s, n, others, lost) ==
  \/ /\ "sent" \in SendResults
     /\ received' = Append(received, s)
     /\ retries' = others
     /\ dropped' = dropped \cup lost
  \/ /\ "thrown" \in SendResults
     /\ retries' = others \cup RetriesAfter(s, n)
     /\ dropped' = dropped \cup lost \cup (IF n < MaxRetry THEN {} ELSE {s})
     /\ UNCHANGED received

\* sendStatement(s) with retryCount 0, on buffer b: always buffered, sent when
\* connected.
SendStatementBufferingLess(b, aged, s, lost) ==
  IF link' = "open"
  THEN buffer' = b /\ old' = aged /\ Transmit(s, 0, retries, lost)
  ELSE /\ Buffered(b, aged, s)
       /\ dropped' = dropped \cup lost \cup Overflow(b)
       /\ UNCHANGED <<received, retries>>
SendStatement(b, aged, s, lost) ==
  /\ Buffered(b, aged, s)
  /\ IF link' = "open"
     THEN Transmit(s, 0, retries, lost \cup Overflow(b))
     ELSE /\ dropped' = dropped \cup lost \cup Overflow(b)
          /\ UNCHANGED <<received, retries>>

\* A participant's statement, from processAndRespond.
Say ==
  /\ said < N
  /\ said' = said + 1
  /\ UNCHANGED <<link, opens, flushes>>
  /\ SendStatement(buffer, old, said + 1, {})

\* A retry does not buffer again, and ends silently when not connected.
Retry(s, n) ==
  /\ <<s, n>> \in retries
  /\ IF link = "open"
     THEN Transmit(s, n, retries \ {<<s, n>>}, {})
     ELSE /\ retries' = retries \ {<<s, n>>}
          /\ UNCHANGED <<received, dropped>>
  /\ UNCHANGED <<said, buffer, old, flushes, link, opens>>

\* The open event: flushStatementBuffer drops what is too old, empties the
\* buffer, and sends the first statement before it first awaits.
Young == SubSeq(buffer, old + 1, Len(buffer))
Expired == ToSet(SubSeq(buffer, 1, old))

Open ==
  /\ opens < MaxOpens
  /\ opens' = opens + 1
  /\ link' = "open"
  /\ IF Young = <<>>
     THEN /\ buffer' = <<>>
          /\ old' = 0
          /\ dropped' = dropped \cup Expired
          /\ UNCHANGED <<flushes, received, retries>>
     ELSE /\ flushes' = [flushes EXCEPT ![opens + 1] = Tail(Young)]
          /\ SendStatement(<<>>, 0, Head(Young), Expired)
  /\ UNCHANGED said

\* 100 ms later, the next statement of the flush, connected or not.
FlushNext(f) ==
  /\ flushes[f] # <<>>
  /\ flushes' = [flushes EXCEPT ![f] = Tail(@)]
  /\ UNCHANGED <<said, link, opens>>
  /\ SendStatement(buffer, old, Head(flushes[f]), {})

LinkDown ==
  /\ link = "open"
  /\ link' \in {"down", "absent"}
  /\ UNCHANGED <<said, buffer, old, flushes, retries, received, opens, dropped>>

\* statementBuffers.delete(roomId). A flush in progress is not stopped.
DropBuffer ==
  /\ buffer' = <<>>
  /\ old' = 0
  /\ dropped' = dropped \cup ToSet(buffer)
  /\ UNCHANGED <<said, flushes, retries, received, opens>>

\* disconnect(roomId) returns early when the room has no entry.
Disconnect ==
  /\ link # "absent"
  /\ link' = "absent"
  /\ DropBuffer

ClearBuffer ==
  /\ DropBuffer
  /\ UNCHANGED link

\* A minute passes for the oldest young statement of the buffer.
GrowOld ==
  /\ old < Len(buffer)
  /\ old' = old + 1
  /\ UNCHANGED <<said, buffer, flushes, retries, received, link, opens, dropped>>

RetrySome == \E r \in retries : Retry(r[1], r[2])
Flush == \E f \in 1..MaxOpens : FlushNext(f)

Next ==
  \/ Say
  \/ Open
  \/ Flush
  \/ RetrySome
  \/ LinkDown
  \/ Disconnect
  \/ ClearBuffer
  \/ GrowOld

Spec == Init /\ [][Next]_vars

\* Timers fire; nobody is obliged to speak, and the network to nothing.
Fairness == WF_vars(Flush) /\ WF_vars(RetrySome)

FairSpec == Spec /\ Fairness

-----------------------------------------------------------------------------
InFlight == UNION {ToSet(flushes[f]) : f \in 1..MaxOpens}

\* Every variable has its shape; the buffer respects its limit.
TypeOK ==
  /\ said \in 0..N
  /\ buffer \in Seq(Statements) /\ Len(buffer) <= BufferMax
  /\ old \in 0..Len(buffer)
  /\ \A f \in 1..MaxOpens : flushes[f] \in Seq(Statements)
  /\ retries \subseteq Statements \X (1..MaxRetry)
  /\ received \in Seq(Statements)
  /\ link \in {"absent", "down", "open"}
  /\ opens \in 0..MaxOpens
  /\ dropped \subseteq Statements

\* No statement vanishes without a trace: what has been said is in the buffer,
\* in a flush or a retry, at the server, or was dropped with a warning.
NothingVanishes ==
  1..said \subseteq ToSet(buffer) \cup InFlight \cup ToSet(received) \cup dropped
                    \cup {r[1] : r \in retries}

\* When the connection comes up and stays, whatever was said reaches the server,
\* unless it was dropped.
EventuallyReceived ==
  <>[](link = "open") =>
    \A s \in Statements : (s <= said) ~> (s \in ToSet(received) \cup dropped)

\* "Sent sequentially (order guaranteed)" (rag-client.service.ts:380): a
\* statement does not reach the server before an earlier one that reaches it.
StatementOrder ==
  \A j \in 1..Len(received) :
    \A s \in ToSet(received) : s < received[j] => \E i \in 1..j : received[i] = s

\* "Statement buffer: temporary storage of statements while not connected"
\* (rag-client.service.ts:58): what the server has is not sent again.
SentOnce ==
  \A i, j \in 1..Len(received) : received[i] = received[j] => i = j

\* "Always the latest data, since the local buffer is written also when the
\* WebSocket sends" (rag-client.service.ts:833): the transcript has every
\* statement that was not dropped.
TranscriptComplete == 1..said \subseteq ToSet(buffer) \cup dropped
=============================================================================
