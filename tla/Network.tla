------------------------------ MODULE Network -------------------------------
(***************************************************************************)
(* The TCP connection between the client and the server: not code of this  *)
(* repository, modelled from how boost::asio uses it here.  Bytes arrive   *)
(* in order; a message is in c2s or s2c once all its bytes have left the   *)
(* sender's asynchronous write, and until its receiver has read its body.  *)
(***************************************************************************)
EXTENDS Sequences

VARIABLES
  link,   \* state of the connection
  c2s,    \* messages on their way from the client to the server
  s2c     \* messages on their way from the server to the client

networkVars == <<link, c2s, s2c>>

\* none: not established; up; clientShut: the client has shut it down;
\* serverDead: the server process has ended; lost: broken in between.
LinkStates == {"none", "up", "clientShut", "serverDead", "lost"}

NetworkInit == link = "none" /\ c2s = <<>> /\ s2c = <<>>

\* The connection breaks: both ends get errors, the data under way is gone.
ConnectionLost ==
  /\ link = "up"
  /\ link' = "lost"
  /\ c2s' = <<>>
  /\ s2c' = <<>>

\* What a read of each end finds: the whole of a message, or end of file.
ServerDataAvailable == c2s # <<>>
ServerEof == c2s = <<>> /\ link \in {"clientShut", "lost"}
ClientDataAvailable == s2c # <<>>
ClientEof == s2c = <<>> /\ link \in {"serverDead", "lost"}
=============================================================================
