-------------------------- MODULE TCPClient_proofs ---------------------------
(***************************************************************************)
(* What each handler of TCPClient does to the queue and its writer,        *)
(* whatever the messages and whoever else is part of the system.           *)
(***************************************************************************)
EXTENDS TCPClient, SequenceTheorems, TLAPS

-----------------------------------------------------------------------------
(* Sequences.                                                              *)

\* The head of the second of two sequences moves to the end of the first.
LEMMA MoveHead ==
  ASSUME NEW S, NEW a \in Seq(S), NEW b \in Seq(S), b # <<>>
  PROVE  /\ Append(a, Head(b)) \in Seq(S)
         /\ Tail(b) \in Seq(S)
         /\ Append(a, Head(b)) \o Tail(b) = a \o b
<1>1. Head(b) \in S /\ Tail(b) \in Seq(S)
  BY HeadTailProperties
<1>2. Append(a, Head(b)) \in Seq(S)
  BY <1>1
<1>3. Len(Append(a, Head(b)) \o Tail(b)) = Len(a \o b)
  BY <1>1, <1>2, ConcatProperties, HeadTailProperties
<1>4. \A i \in 1..Len(a \o b) : (Append(a, Head(b)) \o Tail(b))[i] = (a \o b)[i]
  BY <1>1, <1>2, ConcatProperties, HeadTailProperties
<1>5. QED
  BY <1>1, <1>2, <1>3, <1>4, SeqEqual, ConcatProperties

\* The head of a concatenation is taken from its first part.
LEMMA TakeHead ==
  ASSUME NEW S, NEW a \in Seq(S), NEW b \in Seq(S), a # <<>>
  PROVE  /\ a \o b # <<>>
         /\ Head(a) = Head(a \o b)
         /\ Tail(a) \o b = Tail(a \o b)
<1>1. a \o b # <<>> /\ a \o b \in Seq(S)
  BY ConcatEqualIffEmpty, ConcatProperties
<1>2. Head(a) = Head(a \o b)
  BY <1>1, ConcatProperties
<1>3. Tail(a) \in Seq(S) /\ Tail(a \o b) \in Seq(S)
  BY <1>1, HeadTailProperties
<1>4. Len(Tail(a) \o b) = Len(Tail(a \o b))
  BY <1>1, <1>3, ConcatProperties, HeadTailProperties
<1>5. \A i \in 1..Len(Tail(a \o b)) : (Tail(a) \o b)[i] = Tail(a \o b)[i]
  BY <1>1, <1>3, ConcatProperties, HeadTailProperties
<1>6. QED
  BY <1>1, <1>2, <1>3, <1>4, <1>5, SeqEqual, ConcatProperties

-----------------------------------------------------------------------------
(* The queue.                                                              *)

\* The number of handlers that drive the queue is an invariant only together
\* with the types: a write takes the head of the queue.
QueueOK(Msg) == TCPClientTypeOK(Msg) /\ OneWriterPerQueue

\* The unsent messages are messages.
LEMMA UnsentType ==
  ASSUME NEW Msg, QueueOK(Msg)
  PROVE  Unsent \in Seq(Msg)
<1>1. CASE sent > 0
  <2>1. m_message_queue # <<>>
    BY <1>1 DEF QueueOK, TCPClientTypeOK, OneWriterPerQueue
  <2>2. QED
    BY <1>1, <2>1, HeadTailProperties DEF QueueOK, TCPClientTypeOK, Unsent
<1>2. CASE ~(sent > 0)
  BY <1>2 DEF QueueOK, TCPClientTypeOK, Unsent
<1>3. QED
  BY <1>1, <1>2

\* The queue is empty when the client starts.
LEMMA InitQueue ==
  ASSUME NEW Msg, NetworkInit, TCPClientInit
  PROVE  QueueOK(Msg) /\ Unsent = <<>>
<1> USE DEF NetworkInit, TCPClientInit
<1>1. <<>> \in Seq(Msg)
  BY EmptySeq
<1>2. TCPClientTypeOK(Msg)
  BY <1>1 DEF TCPClientTypeOK, LinkStates, SockStates
<1>3. OneWriterPerQueue
  BY DEF OneWriterPerQueue
<1>4. QED
  BY <1>2, <1>3 DEF QueueOK, Unsent

\* Appending ms to the queue as write_message does keeps one writer at most, and
\* one if the queue is not empty; ms comes after all that is unsent.
LEMMA WriteMessagesKeepsWriter ==
  ASSUME NEW Msg, QueueOK(Msg), NEW ms \in Seq(Msg),
         cSock = "open", WriteMessages(ms), UNCHANGED <<sending, sent>>
  PROVE  /\ m_message_queue' \in Seq(Msg)
         /\ posted' \in Nat
         /\ OneWriterPerQueue'
         /\ Unsent' = Unsent \o ms
<1> USE DEF QueueOK
<1>1. m_message_queue' \in Seq(Msg)
  BY ConcatProperties DEF WriteMessages, TCPClientTypeOK
<1>2. posted' \in Nat
  BY DEF WriteMessages, TCPClientTypeOK
<1>3. CASE ms = <<>>
  <2>1. m_message_queue' = m_message_queue /\ posted' = posted
    BY <1>3, ConcatEmptySeq DEF WriteMessages, TCPClientTypeOK
  <2>2. Unsent' = Unsent /\ Unsent \o ms = Unsent
    BY <1>3, <2>1, UnsentType, ConcatEmptySeq DEF Unsent
  <2>3. QED
    BY <1>1, <1>2, <2>1, <2>2 DEF OneWriterPerQueue, TCPClientTypeOK
<1>4. CASE ms # <<>> /\ m_message_queue = <<>>
  <2>1. m_message_queue' = ms /\ m_message_queue' # <<>>
    BY <1>4, ConcatEmptySeq DEF WriteMessages, TCPClientTypeOK
  <2>2. posted' = 1 /\ sending' = 0 /\ sent' = 0 /\ sent = 0
    BY <1>4 DEF WriteMessages, OneWriterPerQueue, TCPClientTypeOK
  <2>3. Unsent' = ms /\ Unsent \o ms = ms
    BY <1>4, <2>1, <2>2, ConcatEmptySeq DEF Unsent
  <2>4. QED
    BY <1>1, <1>2, <2>1, <2>2, <2>3 DEF OneWriterPerQueue
<1>5. CASE ms # <<>> /\ m_message_queue # <<>>
  <2>1. m_message_queue' = m_message_queue \o ms /\ m_message_queue' # <<>>
    BY <1>5, ConcatEqualIffEmpty DEF WriteMessages, TCPClientTypeOK
  <2>2. posted' = posted
    BY <1>5 DEF WriteMessages
  <2>3. OneWriterPerQueue'
    BY <1>1, <1>2, <1>5, <2>1, <2>2 DEF OneWriterPerQueue, TCPClientTypeOK
  <2>4. Tail(m_message_queue \o ms) = Tail(m_message_queue) \o ms
    BY <1>5, TakeHead DEF TCPClientTypeOK
  <2>5. Unsent' = Unsent \o ms
    BY <2>1, <2>4 DEF Unsent
  <2>6. QED
    BY <1>1, <1>2, <2>3, <2>5
<1>6. QED
  BY <1>3, <1>4, <1>5

\* Connecting touches neither the queue nor its writer.
LEMMA ConnectKeepsQueue ==
  ASSUME NEW Msg, QueueOK(Msg), ConnectSucceeds \/ ConnectFails
  PROVE  QueueOK(Msg)' /\ Unsent' = Unsent
  BY DEF QueueOK, ConnectSucceeds, ConnectFails, TCPClientTypeOK,
         OneWriterPerQueue, LinkStates, SockStates, networkVars, Unsent

\* The handlers of TCPClient that call nothing outside: the handler of a write
\* that has been sent hands the queue on to the next write, and only an error
\* leaves it without one, on a socket that is then closed.
LEMMA StepKeepsQueue ==
  ASSUME NEW Msg, QueueOK(Msg), TCPClientStep
  PROVE  QueueOK(Msg)' /\ Unsent' = Unsent /\ UNCHANGED networkVars
<1> USE DEF QueueOK, TCPClientTypeOK, OneWriterPerQueue, LinkStates, SockStates,
            networkVars, Unsent
<1>1. CASE ClientReadHeader
  BY <1>1 DEF ClientReadHeader
<1>2. CASE ClientReadError
  BY <1>2 DEF ClientReadError
<1>3. CASE DoWrite
  <2>1. posted = 1 /\ sending = 0 /\ sent = 0
    BY <1>3 DEF DoWrite
  <2>2. posted' = 0 /\ sending' = 1 /\ sent' = 0
    BY <1>3, <2>1 DEF DoWrite
  <2>3. QED
    BY <1>3, <2>1, <2>2 DEF DoWrite
<1>4. CASE WriteDone
  <2>1. m_message_queue # <<>> /\ posted = 0 /\ sending = 0 /\ sent = 1
    BY <1>4 DEF WriteDone
  <2>2. m_message_queue' \in Seq(Msg)
    BY <1>4, <2>1, HeadTailProperties DEF WriteDone
  <2>3. posted' = 0 /\ sent' = 0 /\ sending' = IF m_message_queue' # <<>> THEN 1 ELSE 0
    BY <1>4, <2>1 DEF WriteDone
  <2>4. Unsent' = Unsent
    BY <1>4, <2>1, <2>3 DEF WriteDone
  <2>5. QED
    BY <1>4, <2>2, <2>3, <2>4 DEF WriteDone
<1>5. CASE WriteError
  BY <1>5 DEF WriteError
<1>6. CASE CloseSocket
  BY <1>6 DEF CloseSocket
<1>7. QED
  BY <1>1, <1>2, <1>3, <1>4, <1>5, <1>6 DEF TCPClientStep

\* The body handler adds what its callback writes to the queue; if nothing was
\* there it posts the one write that is to send it all.
LEMMA ReadBodyKeepsQueue ==
  ASSUME NEW Msg, QueueOK(Msg), NEW ms \in Seq(Msg), NEW closing \in BOOLEAN,
         ClientReadBody(ms, closing)
  PROVE  QueueOK(Msg)' /\ Unsent' = Unsent \o ms
<1>1. /\ m_message_queue' \in Seq(Msg)
      /\ posted' \in Nat
      /\ OneWriterPerQueue'
      /\ Unsent' = Unsent \o ms
  BY WriteMessagesKeepsWriter DEF ClientReadBody
<1>2. s2c' \in Seq(Msg)
  BY HeadTailProperties DEF QueueOK, TCPClientTypeOK, ClientReadBody, ClientDataAvailable
<1>3. link' \in LinkStates /\ cSock' \in SockStates /\ closePosted' \in BOOLEAN
  BY DEF QueueOK, TCPClientTypeOK, ClientReadBody, LinkStates, SockStates
<1>4. /\ c2s' \in Seq(Msg) /\ cRead' \in {"none", "header", "body"}
      /\ sending' \in Nat /\ sent' \in Nat
  BY DEF QueueOK, TCPClientTypeOK, ClientReadBody
<1>5. QED
  BY <1>1, <1>2, <1>3, <1>4 DEF QueueOK, TCPClientTypeOK

\* The kernel sends the oldest unsent message, which is there because a write is
\* under way.
LEMMA TransmitKeepsQueue ==
  ASSUME NEW Msg, QueueOK(Msg), ClientTransmit
  PROVE  /\ QueueOK(Msg)'
         /\ Unsent # <<>>
         /\ Head(Unsent) = Head(m_message_queue)
         /\ Unsent' = Tail(Unsent)
         /\ c2s' = IF link = "up" THEN Append(c2s, Head(Unsent)) ELSE c2s
<1> USE DEF QueueOK, TCPClientTypeOK, ClientTransmit
<1>1. m_message_queue # <<>> /\ posted = 0 /\ sending = 1 /\ sent = 0
  BY DEF OneWriterPerQueue
<1>2. Head(m_message_queue) \in Msg
  BY <1>1, HeadTailProperties
<1>3. c2s' \in Seq(Msg)
  BY <1>2
<1>4. posted' = 0 /\ sending' = 0 /\ sent' = 1
  BY <1>1
<1>5. OneWriterPerQueue'
  BY <1>1, <1>4 DEF OneWriterPerQueue
<1>6. Unsent = m_message_queue /\ Unsent' = Tail(m_message_queue)
  BY <1>1, <1>4 DEF Unsent
<1>7. QED
  BY <1>1, <1>3, <1>4, <1>5, <1>6

\* Nothing outside TCPClient touches its queue.
LEMMA OthersKeepQueue ==
  ASSUME NEW Msg, QueueOK(Msg), UNCHANGED clientVars,
         link' \in LinkStates, c2s' \in Seq(Msg), s2c' \in Seq(Msg)
  PROVE  QueueOK(Msg)' /\ Unsent' = Unsent
  BY DEF QueueOK, TCPClientTypeOK, OneWriterPerQueue, clientVars, Unsent
=============================================================================
