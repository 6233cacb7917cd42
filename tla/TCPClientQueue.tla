--------------------------- MODULE TCPClientQueue ---------------------------
(***************************************************************************)
(* TCPClient with any message callback and any server: the callback writes *)
(* up to two messages and may close the connection, the server sends what  *)
(* it likes and may die, the network may break.  Messages are numbered in  *)
(* the order of write_message; accepted and delivered are history.         *)
(***************************************************************************)
EXTENDS TCPClient

CONSTANTS
  MaxWrites,   \* bound: messages the callback writes in all
  MaxReads     \* bound: messages the server sends in all

ASSUME BoundsAssumption == MaxWrites \in Nat /\ MaxReads \in Nat

VARIABLES
  accepted,    \* every message given to write_message
  delivered,   \* every message whose bytes reached the network
  reads        \* messages the server has sent

vars == <<networkVars, clientVars, accepted, delivered, reads>>

Msg == 1..(MaxWrites + MaxReads)

Init ==
  /\ NetworkInit
  /\ TCPClientInit
  /\ accepted = <<>>
  /\ delivered = <<>>
  /\ reads = 0

Fresh(n) == [i \in 1..n |-> Len(accepted) + i]

Connect == (ConnectSucceeds \/ ConnectFails) /\ UNCHANGED <<accepted, delivered, reads>>

Handler == TCPClientStep /\ UNCHANGED <<accepted, delivered, reads>>

\* The callback: it writes n messages, then closes the connection or not.
Callback ==
  \E n \in 0..2, closing \in BOOLEAN :
    /\ Len(accepted) + n <= MaxWrites
    /\ ClientReadBody(Fresh(n), closing)
    /\ accepted' = accepted \o Fresh(n)
    /\ UNCHANGED <<delivered, reads>>

Transmit ==
  /\ ClientTransmit
  /\ delivered' = IF link = "up" THEN Append(delivered, Head(m_message_queue))
                                 ELSE delivered
  /\ UNCHANGED <<accepted, reads>>

ServerSends ==
  /\ link = "up"
  /\ reads < MaxReads
  /\ s2c' = Append(s2c, reads + 1)
  /\ reads' = reads + 1
  /\ UNCHANGED <<link, c2s, clientVars, accepted, delivered>>

ServerReads ==
  /\ c2s # <<>>
  /\ c2s' = Tail(c2s)
  /\ UNCHANGED <<link, s2c, clientVars, accepted, delivered, reads>>

ServerDies ==
  /\ link = "up"
  /\ link' = "serverDead"
  /\ UNCHANGED <<c2s, s2c, clientVars, accepted, delivered, reads>>

NetworkBreaks == ConnectionLost /\ UNCHANGED <<clientVars, accepted, delivered, reads>>

\* io_context.run() has returned and the server has read what reached it.
Returned == RunReturned /\ c2s = <<>> /\ UNCHANGED vars

\* Nothing more comes from the server: the client waits for it.
Waiting ==
  /\ cRead = "header" /\ reads = MaxReads /\ s2c = <<>> /\ c2s = <<>>
  /\ UNCHANGED vars

\* The callback may write nothing more: the bound on writes stops the model.
Next ==
  \/ Connect
  \/ Handler
  \/ Callback
  \/ Transmit
  \/ ServerSends
  \/ ServerReads
  \/ ServerDies
  \/ NetworkBreaks
  \/ Returned
  \/ Waiting

\* The client's thread runs a ready handler, and the kernel sends what it has.
Spec ==
  /\ Init
  /\ [][Next]_vars
  /\ WF_vars(Connect)
  /\ WF_vars(Handler)
  /\ WF_vars(Callback)
  /\ WF_vars(Transmit)

-----------------------------------------------------------------------------
\* The variables of TCPClient and its histories have their types.
TypeOK ==
  /\ TCPClientTypeOK(Msg)
  /\ accepted \in Seq(Msg)
  /\ delivered \in Seq(Msg)
  /\ reads \in Nat

\* Neither end has given up the connection, and it has not broken.
ConnectionWorks == cSock \in {"connecting", "open"} /\ link \in {"none", "up"}

\* Messages reach the network in the order write_message accepted them, each
\* once, and all of them as long as the connection works (write_message,
\* do_write).
Fifo == INSTANCE FifoDelivery WITH open <- ConnectionWorks

DeliversInOrder == Fifo!Spec

\* Once the connection has ended, io_context.run() returns, whatever was queued,
\* posted or under way: the constructor of HESealClient does not hang.
RunReturnsAfterEnd ==
  (link \notin {"none", "up"} \/ cSock = "failed") ~> RunReturned
=============================================================================
