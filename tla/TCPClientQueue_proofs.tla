------------------------ MODULE TCPClientQueue_proofs ------------------------
(***************************************************************************)
(* Proofs about TCPClientQueue: for every bound and every callback, one    *)
(* write at most is posted or under way, one is whenever a message waits   *)
(* on a connection that works, and messages are delivered in the order in  *)
(* which they were accepted.                                               *)
(***************************************************************************)
EXTENDS TCPClientQueue, TCPClient_proofs, SequenceTheorems, TLAPS

\* While the connection works, what has been accepted is what has been delivered
\* and what is still to be sent, in this order.
Accounted == ConnectionWorks => accepted = delivered \o Unsent

\* The inductive invariant: the types need the writer, which says that a write
\* under way has a message at the front to send.
QueueInv ==
  /\ QueueOK(Msg)
  /\ TypeOK
  /\ reads <= MaxReads
  /\ cSock = "open" => link # "none"
  /\ Accounted

-----------------------------------------------------------------------------
\* The messages a callback writes are messages: their numbers are within the
\* bound on writes.
LEMMA FreshType ==
  ASSUME NEW n \in 0..2, accepted \in Seq(Msg), Len(accepted) + n <= MaxWrites
  PROVE  Fresh(n) \in Seq(Msg)
<1>1. Len(accepted) \in Nat
  OBVIOUS
<1>2. \A i \in 1..n : Len(accepted) + i \in Msg
  BY <1>1, BoundsAssumption DEF Msg
<1>3. Fresh(n) \in [1..n -> Msg]
  BY <1>2 DEF Fresh
<1>4. n \in Nat
  OBVIOUS
<1>5. QED
  BY <1>3, <1>4, SeqDef

\* The invariant holds when the client starts.
LEMMA QueueInit == Init => QueueInv
<1> SUFFICES ASSUME Init PROVE QueueInv
  OBVIOUS
<1>1. QueueOK(Msg) /\ Unsent = <<>>
  BY InitQueue DEF Init
<1>2. TypeOK /\ reads <= MaxReads
  BY <1>1, EmptySeq, BoundsAssumption DEF Init, TypeOK, QueueOK
<1>3. Accounted
  <2>1. <<>> \o <<>> = <<>>
    BY EmptySeq, ConcatEmptySeq
  <2>2. QED
    BY <1>1, <2>1 DEF Init, Accounted
<1>4. cSock # "open"
  BY DEF Init, TCPClientInit
<1>5. QED
  BY <1>1, <1>2, <1>3, <1>4 DEF QueueInv

\* What is not about the queue is kept by a step that leaves the histories alone
\* and does not bring a connection back.
LEMMA NoHistory ==
  ASSUME QueueInv, QueueOK(Msg)', UNCHANGED <<accepted, delivered, reads>>,
         Unsent' = Unsent, ConnectionWorks' => ConnectionWorks,
         cSock' = "open" => link' # "none"
  PROVE  QueueInv'
  BY DEF QueueInv, QueueOK, TypeOK, Accounted

\* Connecting touches neither the queue nor its writer.
LEMMA ConnectKeepsInv == QueueInv /\ Connect => QueueInv'
<1> SUFFICES ASSUME QueueInv, Connect PROVE QueueInv'
  OBVIOUS
<1>1. QueueOK(Msg)' /\ Unsent' = Unsent
  BY ConnectKeepsQueue DEF Connect, QueueInv
<1>2. /\ ConnectionWorks' => ConnectionWorks
      /\ cSock' = "open" => link' # "none"
      /\ UNCHANGED <<accepted, delivered, reads>>
  BY DEF Connect, ConnectSucceeds, ConnectFails, ConnectionWorks, networkVars
<1>3. QED
  BY <1>1, <1>2, NoHistory

\* A handler that does not read a body writes nothing and connects nothing.
LEMMA HandlerKeepsInv == QueueInv /\ Handler => QueueInv'
<1> SUFFICES ASSUME QueueInv, Handler PROVE QueueInv'
  OBVIOUS
<1>1. QueueOK(Msg)' /\ Unsent' = Unsent /\ UNCHANGED networkVars
  BY StepKeepsQueue DEF Handler, QueueInv
<1>2. cSock' \in {cSock, "closed"}
  BY DEF Handler, TCPClientStep, ClientReadHeader, ClientReadError, DoWrite, WriteDone,
         WriteError, CloseSocket
<1>3. /\ ConnectionWorks' => ConnectionWorks
      /\ cSock' = "open" => link' # "none"
      /\ UNCHANGED <<accepted, delivered, reads>>
  BY <1>1, <1>2 DEF Handler, ConnectionWorks, networkVars, QueueInv
<1>4. QED
  BY <1>1, <1>3, NoHistory

\* What a callback writes is accepted and unsent at once.
LEMMA CallbackKeepsInv == QueueInv /\ Callback => QueueInv'
<1> SUFFICES ASSUME QueueInv,
                    NEW n \in 0..2, NEW closing \in BOOLEAN,
                    Len(accepted) + n <= MaxWrites,
                    ClientReadBody(Fresh(n), closing),
                    accepted' = accepted \o Fresh(n),
                    UNCHANGED <<delivered, reads>>
             PROVE  QueueInv'
  BY DEF Callback
<1>1. Fresh(n) \in Seq(Msg)
  BY FreshType DEF QueueInv, TypeOK
<1>2. QueueOK(Msg)' /\ Unsent' = Unsent \o Fresh(n)
  BY <1>1, ReadBodyKeepsQueue DEF QueueInv
<1>3. accepted' \in Seq(Msg)
  BY <1>1, ConcatProperties DEF QueueInv, TypeOK
<1>4. /\ cSock = "open" /\ cSock' \in {"open", "shutdown"}
      /\ link # "none"
      /\ link' # "none"
      /\ ConnectionWorks' => ConnectionWorks
  BY DEF ClientReadBody, QueueInv, ConnectionWorks
<1>5. Accounted'
  <2>1. delivered \in Seq(Msg) /\ Unsent \in Seq(Msg)
    BY UnsentType DEF QueueInv, TypeOK
  <2>2. (delivered \o Unsent) \o Fresh(n) = delivered \o (Unsent \o Fresh(n))
    BY <1>1, <2>1, ConcatAssociative
  <2>3. ConnectionWorks => accepted = delivered \o Unsent
    BY DEF QueueInv, Accounted
  <2>4. QED
    BY <1>2, <1>4, <2>2, <2>3 DEF Accounted
<1>6. QED
  BY <1>2, <1>3, <1>4, <1>5 DEF QueueInv, QueueOK, TypeOK

\* What is sent is the oldest unsent message, delivered next.
LEMMA TransmitKeepsInv == QueueInv /\ Transmit => QueueInv'
<1> SUFFICES ASSUME QueueInv, Transmit PROVE QueueInv'
  OBVIOUS
<1>1. /\ QueueOK(Msg)'
      /\ Unsent # <<>> /\ Head(Unsent) = Head(m_message_queue)
      /\ Unsent' = Tail(Unsent)
  BY TransmitKeepsQueue DEF Transmit, QueueInv
<1>2. Unsent \in Seq(Msg) /\ delivered \in Seq(Msg)
  BY UnsentType DEF QueueInv, TypeOK
<1>3. Append(delivered, Head(Unsent)) \in Seq(Msg)
  BY <1>1, <1>2, MoveHead
<1>4. cSock = "open" /\ UNCHANGED <<cSock, link>>
  BY DEF Transmit, ClientTransmit
<1>5. Accounted'
  <2>1. SUFFICES ASSUME ConnectionWorks PROVE accepted' = delivered' \o Unsent'
    BY <1>4 DEF Accounted, ConnectionWorks
  <2>2. link = "up"
    BY <1>4, <2>1 DEF ConnectionWorks, QueueInv
  <2>3. accepted' = accepted /\ delivered' = Append(delivered, Head(Unsent))
    BY <1>1, <2>2 DEF Transmit
  <2>4. delivered' \o Unsent' = delivered \o Unsent
    BY <1>1, <1>2, <2>3, MoveHead
  <2>5. QED
    BY <2>1, <2>3, <2>4 DEF QueueInv, Accounted
<1>6. QED
  BY <1>1, <1>2, <1>3, <1>4, <1>5 DEF QueueInv, QueueOK, TypeOK, Transmit

\* The server and the network do not touch the queue.
LEMMA EnvironmentKeepsInv ==
  QueueInv /\ (ServerSends \/ ServerReads \/ ServerDies \/ NetworkBreaks) => QueueInv'
<1> SUFFICES ASSUME QueueInv, ServerSends \/ ServerReads \/ ServerDies \/ NetworkBreaks
             PROVE  QueueInv'
  OBVIOUS
<1> USE DEF QueueInv
<1>1. link \in LinkStates /\ c2s \in Seq(Msg) /\ s2c \in Seq(Msg) /\ reads \in Nat
  BY DEF QueueOK, TCPClientTypeOK, TypeOK
<1>2. UNCHANGED clientVars
  BY DEF ServerSends, ServerReads, ServerDies, NetworkBreaks
<1>3. /\ link' \in LinkStates /\ c2s' \in Seq(Msg) /\ s2c' \in Seq(Msg)
      /\ reads' \in Nat /\ reads' <= MaxReads
      /\ link' = link \/ (link = "up" /\ link' \in {"serverDead", "lost"})
  <2>1. CASE ServerSends
    <3>1. reads + 1 \in Msg /\ reads + 1 <= MaxReads
      BY <1>1, <2>1, BoundsAssumption DEF ServerSends, Msg
    <3>2. QED
      BY <1>1, <2>1, <3>1 DEF ServerSends
  <2>2. CASE ServerReads
    BY <1>1, <2>2, HeadTailProperties DEF ServerReads
  <2>3. CASE ServerDies
    BY <1>1, <2>3 DEF ServerDies, LinkStates
  <2>4. CASE NetworkBreaks
    BY <1>1, <2>4, EmptySeq DEF NetworkBreaks, ConnectionLost, LinkStates
  <2>5. QED
    BY <2>1, <2>2, <2>3, <2>4
<1>4. QueueOK(Msg)' /\ Unsent' = Unsent
  BY <1>2, <1>3, OthersKeepQueue
<1>5. UNCHANGED <<accepted, delivered>>
  BY DEF ServerSends, ServerReads, ServerDies, NetworkBreaks
<1>6. /\ ConnectionWorks' => ConnectionWorks
      /\ cSock' = "open" => link' # "none"
  BY <1>2, <1>3 DEF clientVars, ConnectionWorks
<1>7. QED
  BY <1>3, <1>4, <1>5, <1>6 DEF QueueOK, TypeOK, Accounted

\* A step that changes nothing keeps the invariant.
LEMMA StutterKeepsInv == QueueInv /\ UNCHANGED vars => QueueInv'
  BY DEF QueueInv, QueueOK, TypeOK, TCPClientTypeOK, OneWriterPerQueue, Accounted,
         ConnectionWorks, Unsent, vars, networkVars, clientVars

\* The inductive invariant of the client's queue.
THEOREM QueueInvariant == Spec => []QueueInv
<1>1. Init => QueueInv
  BY QueueInit
<1>2. QueueInv /\ [Next]_vars => QueueInv'
  BY ConnectKeepsInv, HandlerKeepsInv, CallbackKeepsInv, TransmitKeepsInv,
     EnvironmentKeepsInv, StutterKeepsInv DEF Next, Returned, Waiting
<1>3. QED
  BY <1>1, <1>2, PTL DEF Spec

\* The variables of TCPClient and its histories have their types, for every bound
\* on what is written and read.
THEOREM TypeCorrect == Spec => []TypeOK
<1>1. QueueInv => TypeOK
  BY DEF QueueInv
<1>2. QED
  BY <1>1, QueueInvariant, PTL

\* write_message and do_write never have two writes of the queue posted or under
\* way, and never leave a message waiting without one unless the socket is closed.
THEOREM OneWriter == Spec => []OneWriterPerQueue
<1>1. QueueInv => OneWriterPerQueue
  BY DEF QueueInv, QueueOK
<1>2. QED
  BY <1>1, QueueInvariant, PTL

-----------------------------------------------------------------------------
(* TCPClientQueue implements the safety part of FifoDelivery.              *)

\* A callback's messages are accepted; without any, and for the end of the
\* connection, nothing but `open` changes.
LEMMA CallbackAccepts ==
  QueueInv /\ Callback => [Fifo!Next]_(Fifo!vars)
<1> SUFFICES ASSUME QueueInv,
                    NEW n \in 0..2, NEW closing \in BOOLEAN,
                    Len(accepted) + n <= MaxWrites,
                    ClientReadBody(Fresh(n), closing),
                    accepted' = accepted \o Fresh(n),
                    UNCHANGED <<delivered, reads>>
             PROVE  [Fifo!Next]_(Fifo!vars)
  BY DEF Callback
<1>1. Fresh(n) \in Seq(Msg) /\ Fresh(n) \in [1..n -> Msg]
  <2>1. Fresh(n) \in Seq(Msg)
    BY FreshType DEF QueueInv, TypeOK
  <2>2. Len(Fresh(n)) = n
    BY DEF Fresh
  <2>3. QED
    BY <2>1, <2>2, LenProperties
<1>2. ConnectionWorks \in BOOLEAN /\ ConnectionWorks' \in {ConnectionWorks, FALSE}
  BY DEF ClientReadBody, ConnectionWorks
<1>3. CASE n = 0
  <2>1. accepted' = accepted
    BY <1>1, <1>3, ConcatEmptySeq DEF QueueInv, TypeOK, Fresh
  <2>2. QED
    BY <1>2, <2>1 DEF Fifo!Next, Fifo!End, Fifo!vars
<1>4. CASE n # 0
  <2>1. n \in 1..2
    BY <1>4
  <2>2. Fifo!Accept
    BY <1>1, <1>2, <2>1 DEF Fifo!Accept
  <2>3. QED
    BY <2>2 DEF Fifo!Next
<1>5. QED
  BY <1>3, <1>4

\* The message sent is the first of those accepted and not delivered.
LEMMA TransmitDelivers ==
  QueueInv /\ Transmit => [Fifo!Next]_(Fifo!vars)
<1> SUFFICES ASSUME QueueInv, Transmit PROVE [Fifo!Next]_(Fifo!vars)
  OBVIOUS
<1>1. Unsent # <<>> /\ Head(Unsent) = Head(m_message_queue)
  BY TransmitKeepsQueue DEF Transmit, QueueInv
<1>2. Unsent \in Seq(Msg) /\ delivered \in Seq(Msg)
  BY UnsentType DEF QueueInv, TypeOK
<1>3. UNCHANGED <<cSock, link, accepted>> /\ cSock = "open"
  BY DEF Transmit, ClientTransmit
<1>4. CASE link = "up"
  <2>1. ConnectionWorks /\ UNCHANGED ConnectionWorks
    BY <1>3, <1>4 DEF ConnectionWorks
  <2>2. accepted = delivered \o Unsent
    BY <2>1 DEF QueueInv, Accounted
  <2>3. Len(Unsent) \in Nat \ {0} /\ Len(delivered) \in Nat
    BY <1>1, <1>2, EmptySeq
  <2>4. /\ Len(delivered) < Len(accepted)
        /\ accepted[Len(delivered) + 1] = Head(Unsent)
    BY <1>2, <2>2, <2>3, ConcatProperties
  <2>5. delivered' = Append(delivered, accepted[Len(delivered) + 1])
    BY <1>1, <1>4, <2>4 DEF Transmit
  <2>6. QED
    BY <1>3, <2>1, <2>4, <2>5 DEF Fifo!Next, Fifo!Deliver
<1>5. CASE link # "up"
  BY <1>3, <1>5 DEF Transmit, ConnectionWorks, Fifo!vars
<1>6. QED
  BY <1>4, <1>5

\* Nothing else accepts or delivers, and a connection does not come back.
LEMMA OthersEndOrStutter ==
  /\ QueueInv
  /\ Connect \/ Handler \/ ServerSends \/ ServerReads \/ ServerDies \/ NetworkBreaks
  => [Fifo!Next]_(Fifo!vars)
<1> SUFFICES ASSUME QueueInv,
                    \/ Connect \/ Handler
                    \/ ServerSends \/ ServerReads \/ ServerDies \/ NetworkBreaks
             PROVE  [Fifo!Next]_(Fifo!vars)
  OBVIOUS
<1>1. UNCHANGED <<accepted, delivered>>
  BY DEF Connect, Handler, ServerSends, ServerReads, ServerDies, NetworkBreaks
<1>2. ConnectionWorks \in BOOLEAN /\ ConnectionWorks' \in {ConnectionWorks, FALSE}
  <2>1. CASE Connect
    BY <2>1 DEF Connect, ConnectSucceeds, ConnectFails, ConnectionWorks, networkVars
  <2>2. CASE Handler
    <3>1. UNCHANGED networkVars
      BY <2>2, StepKeepsQueue DEF Handler, QueueInv
    <3>2. cSock' \in {cSock, "closed"}
      BY <2>2 DEF Handler, TCPClientStep, ClientReadHeader, ClientReadError, DoWrite,
                  WriteDone, WriteError, CloseSocket
    <3>3. QED
      BY <3>1, <3>2 DEF networkVars, ConnectionWorks
  <2>3. CASE ServerSends \/ ServerReads \/ ServerDies \/ NetworkBreaks
    BY <2>3 DEF ServerSends, ServerReads, ServerDies, NetworkBreaks, ConnectionLost,
                clientVars, ConnectionWorks
  <2>4. QED
    BY <2>1, <2>2, <2>3
<1>3. QED
  BY <1>1, <1>2 DEF Fifo!Next, Fifo!End, Fifo!vars

\* Every behaviour of the client's queue is one of FifoDelivery: messages are
\* delivered in the order of write_message, each at most once, for every number of
\* messages (the safety part of DeliversInOrder).
THEOREM DeliversInOrderSafely == Spec => Fifo!Init /\ [][Fifo!Next]_(Fifo!vars)
<1>1. Init => Fifo!Init
  BY DEF Init, TCPClientInit, NetworkInit, Fifo!Init, ConnectionWorks
<1>2. QueueInv /\ [Next]_vars => [Fifo!Next]_(Fifo!vars)
  <2>1. QueueInv /\ UNCHANGED vars => [Fifo!Next]_(Fifo!vars)
    BY DEF vars, clientVars, networkVars, Fifo!vars, ConnectionWorks
  <2>2. QED
    BY <2>1, CallbackAccepts, TransmitDelivers, OthersEndOrStutter
       DEF Next, Returned, Waiting
<1>3. QED
  BY <1>1, <1>2, QueueInvariant, PTL DEF Spec
=============================================================================
