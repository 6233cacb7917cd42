----------------------------- MODULE TCPSession -----------------------------
(***************************************************************************)
(* src/tcp/tcp_session.hpp: the server's end of the connection.  Its read  *)
(* handlers run on the io thread of HESealExecutable; do_write is called   *)
(* by that thread and by the thread in HESealExecutable::call.  There is   *)
(* no queue: each do_write starts an asynchronous write of its own, on the *)
(* buffer of the message it is given, which it does not keep.              *)
(***************************************************************************)
EXTENDS Integers, Network

CONSTANT
  Immediate   \* types of message small enough for the socket's buffer to take
              \* whole when the write is started (boost::asio's first attempt)

VARIABLES
  sRead,      \* the read under way: none, header or body
  sWrites     \* messages of asynchronous writes with bytes left to send

sessionVars == <<sRead, sWrites>>

TCPSessionInit == sRead = "none" /\ sWrites = <<>>

\* start(): the first header read.
Start == sRead' = "header"

\* do_read_header, header received.
ServerReadHeader ==
  /\ sRead = "header"
  /\ ServerDataAvailable
  /\ sRead' = "body"
  /\ UNCHANGED <<networkVars, sWrites>>

\* do_read_body, body received: the callback's effect is the caller's; the next
\* header read is started when the callback has returned.
ServerReadBody ==
  /\ sRead = "body"
  /\ ServerDataAvailable
  /\ c2s' = Tail(c2s)
\* Faulty variant: an error while a body is read is ignored.
ReadThrowsInHeader == sRead = "header" /\ ServerEof

\* do_read_header or do_read_body, with an error: an exception leaves the
\* handler, and with it io_context.run().
ReadThrows ==
  /\ sRead \in {"header", "body"}
  /\ ServerEof
\* Faulty variant: no write is finished when it is started.
do_writeDeferred(m) == sWrites' = Append(sWrites, m) /\ UNCHANGED s2c

\* do_write starts an asynchronous write of m.
do_write(m) ==
  IF m.type \in Immediate /\ sWrites = <<>>
    THEN /\ s2c' = IF link = "up" THEN Append(s2c, m) ELSE s2c
         /\ UNCHANGED sWrites
    ELSE /\ sWrites' = Append(sWrites, m)
         /\ UNCHANGED s2c

\* The bytes of the oldest write leave the socket; its handler does nothing.
ServerTransmit ==
  /\ sWrites # <<>>
  /\ sWrites' = Tail(sWrites)
  /\ s2c' = IF link = "up" THEN Append(s2c, Head(sWrites)) ELSE s2c
  /\ UNCHANGED <<link, c2s, sRead>>

-----------------------------------------------------------------------------
TCPSessionTypeOK(Msg) ==
  /\ sRead \in {"none", "header", "body"}
  /\ sWrites \in Seq(Msg)
=============================================================================
