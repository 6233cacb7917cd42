----------------------------- MODULE TCPClient ------------------------------
(***************************************************************************)
(* src/tcp/tcp_client.hpp: the client's end of the connection.  One thread *)
(* runs every handler (io_context.run() in the constructor of              *)
(* HESealClient), so each action below is one handler, run to its end;     *)
(* what interleaves is the order in which the handlers become ready.       *)
(*                                                                         *)
(* The asynchronous writes are counted, not named: each one sends the      *)
(* message at the front of m_message_queue at the time it is started.      *)
(***************************************************************************)
EXTENDS Integers, Network

VARIABLES
  cSock,            \* m_socket
  cRead,            \* the read under way: none, header or body
  m_message_queue,  \* messages accepted by write_message, oldest first
  posted,           \* do_write handlers posted and not yet run
  sending,          \* asynchronous writes with bytes left to send
  sent,             \* asynchronous writes whose handler has yet to run
  closePosted       \* the handler posted by close() has yet to run

clientVars ==
  <<cSock, cRead, m_message_queue, posted, sending, sent, closePosted>>

SockStates == {"connecting", "open", "shutdown", "closed", "failed"}

TCPClientInit ==
  /\ cSock = "connecting"
  /\ cRead = "none"
  /\ m_message_queue = <<>>
  /\ posted = 0
  /\ sending = 0
  /\ sent = 0
  /\ closePosted = FALSE

\* io_context.run() returns: no handler is ready, posted or awaited.
RunReturned ==
  /\ cSock # "connecting"
  /\ cRead = "none"
  /\ posted + sending + sent = 0
  /\ ~closePosted

-----------------------------------------------------------------------------
(* Connecting.                                                             *)

\* do_connect, without an error: the first header read is started.
ConnectSucceeds ==
  /\ cSock = "connecting"
  /\ link = "none"
  /\ link' = "up"
  /\ cSock' = "open"
  /\ cRead' = "header"
  /\ UNCHANGED <<c2s, s2c, m_message_queue, posted, sending, sent, closePosted>>

\* do_connect, with an error: it is only logged.
ConnectFails ==
  /\ cSock = "connecting"
  /\ cSock' = "failed"
  /\ UNCHANGED <<networkVars, cRead, m_message_queue, posted, sending, sent, closePosted>>

-----------------------------------------------------------------------------
(* Reading.                                                                *)

\* do_read_header, header received: do_read_body is started.
ClientReadHeader ==
  /\ cRead = "header"
  /\ cSock = "open"
  /\ ClientDataAvailable
  /\ cRead' = "body"
  /\ UNCHANGED <<networkVars, cSock, m_message_queue, posted, sending, sent, closePosted>>
\* Faulty variant: do_write is posted whether or not a write is in progress.
WriteMessagesPostsAlways(ms) ==
  /\ m_message_queue' = m_message_queue \o ms
  /\ posted' = IF ms # <<>> THEN posted + 1 ELSE posted

\* write_message for each message of ms: the test is on the queue before the
\* message is placed, so at most the first one posts do_write.
WriteMessages(ms) ==
  /\ m_message_queue' = m_message_queue \o ms
  /\ posted' = IF m_message_queue = <<>> /\ ms # <<>> THEN posted + 1 ELSE posted

\* do_read_body, body received: the message callback runs and writes ms, after
\* which, if `closing`, it calls close(); the next header read is started even
\* on a socket that has just been shut down.
ClientReadBody(ms, closing) ==
  /\ cRead = "body"
  /\ cSock = "open"
  /\ ClientDataAvailable
  /\ cRead' = "header"
  /\ s2c' = Tail(s2c)
  /\ WriteMessages(ms)
  /\ IF closing
       THEN /\ cSock' = "shutdown"
            /\ closePosted' = TRUE
            /\ link' = IF link = "up" THEN "clientShut" ELSE link
       ELSE UNCHANGED <<cSock, closePosted, link>>
  /\ UNCHANGED <<c2s, sending, sent>>
\* Faulty variant: the read is tried again instead of the socket being closed.
ClientReadErrorRetries ==
  /\ cRead \in {"header", "body"}
  /\ cSock # "open" \/ ClientEof
  /\ cRead' = "header"
  /\ UNCHANGED <<networkVars, cSock, m_message_queue, posted, sending, sent, closePosted>>

\* do_read_header or do_read_body, with an error: the socket is closed.
ClientReadError ==
  /\ cRead \in {"header", "body"}
  /\ cSock # "open" \/ ClientEof
  /\ cRead' = "none"
  /\ cSock' = "closed"
  /\ UNCHANGED <<networkVars, m_message_queue, posted, sending, sent, closePosted>>

-----------------------------------------------------------------------------
(* Writing.                                                                *)
\* Faulty variant: the handler runs without having been posted.
DoWriteUnposted ==
  /\ m_message_queue # <<>>
  /\ posted' = posted - 1
  /\ sending' = sending + 1
  /\ UNCHANGED <<networkVars, cSock, cRead, m_message_queue, sent, closePosted>>

\* The posted handler: do_write starts the asynchronous write of the front.
DoWrite ==
  /\ posted > 0
  /\ posted' = posted - 1
  /\ sending' = sending + 1
  /\ UNCHANGED <<networkVars, cSock, cRead, m_message_queue, sent, closePosted>>

\* The bytes of an asynchronous write leave the socket; on a connection that has
\* broken without the client having noticed, they go nowhere.
ClientTransmit ==
  /\ sending > 0
  /\ cSock = "open"
  /\ c2s' = IF link = "up" THEN Append(c2s, Head(m_message_queue)) ELSE c2s
  /\ sending' = sending - 1
  /\ sent' = sent + 1
  /\ UNCHANGED <<link, s2c, cSock, cRead, m_message_queue, posted, closePosted>>
\* Faulty variant: the messages behind the front are not written.
WriteDoneStops ==
  /\ sent > 0
  /\ m_message_queue' = Tail(m_message_queue)
  /\ sent' = sent - 1
  /\ UNCHANGED <<networkVars, cSock, cRead, posted, sending, closePosted>>

\* do_write's handler, without an error: the front is popped and the next
\* message, if any, is started at once.
WriteDone ==
  /\ sent > 0
  /\ m_message_queue' = Tail(m_message_queue)
  /\ sent' = sent - 1
  /\ sending' = IF Tail(m_message_queue) # <<>> THEN sending + 1 ELSE sending
  /\ UNCHANGED <<networkVars, cSock, cRead, posted, closePosted>>

\* do_write's handler, with an error: the socket is closed, the front stays.
WriteError ==
  /\ sending > 0
  /\ cSock # "open" \/ link # "up"
  /\ cSock' = "closed"
  /\ sending' = sending - 1
  /\ UNCHANGED <<networkVars, cRead, m_message_queue, posted, sent, closePosted>>

\* The handler posted by close().
CloseSocket ==
  /\ closePosted
  /\ closePosted' = FALSE
  /\ cSock' = "closed"
  /\ UNCHANGED <<networkVars, cRead, m_message_queue, posted, sending, sent>>

\* The client's handlers that call nothing outside TCPClient.
TCPClientStep ==
  \/ ClientReadHeader
  \/ ClientReadError
  \/ DoWrite
  \/ WriteDone
  \/ WriteError
  \/ CloseSocket

-----------------------------------------------------------------------------
\* The messages accepted and not yet sent, oldest first: the front stays in the
\* queue until the handler of its write has run.
Unsent == IF sent > 0 THEN Tail(m_message_queue) ELSE m_message_queue

TCPClientTypeOK(Msg) ==
  /\ link \in LinkStates
  /\ c2s \in Seq(Msg)
  /\ s2c \in Seq(Msg)
  /\ cSock \in SockStates
  /\ cRead \in {"none", "header", "body"}
  /\ m_message_queue \in Seq(Msg)
  /\ posted \in Nat
  /\ sending \in Nat
  /\ sent \in Nat
  /\ closePosted \in BOOLEAN

\* As long as the connection works, a message waits in the queue exactly when
\* one do_write is posted or one asynchronous write is under way.  With none the
\* messages would stay there for ever; with two, two writes of the same front
\* would run at once and mix their bytes (write_message, do_write).
OneWriterPerQueue ==
  /\ posted + sending + sent <= 1
  /\ m_message_queue = <<>> => posted + sending + sent = 0
  /\ m_message_queue # <<>> /\ posted + sending + sent = 0 => cSock = "closed"
=============================================================================
