---------------------------- MODULE HESealClient ----------------------------
(***************************************************************************)
(* src/seal/he_seal_client.cpp: what the client does with each message.    *)
(* The message callback of TCPClient is handle_message, so an action here  *)
(* is a TCPClient handler with the callback in it.                         *)
(***************************************************************************)
EXTENDS Messages, TCPClient

VARIABLES
  context,     \* set_seal_context() has run: there are keys to decrypt with
  m_results,   \* the decrypted results
  m_is_done

heClientVars == <<context, m_results, m_is_done>>

HESealClientInit ==
  /\ context = FALSE
  /\ m_results = <<>>
  /\ m_is_done = FALSE
\* Faulty variant: every activation request is answered with Relu.
ActivateWithRelu(fn, cipher) == [cipher EXCEPT !.fn = "relu"]

\* The value of a cipher after decryption, the activation and encryption.
Activate(fn, cipher) == [cipher EXCEPT !.fn = fn]

ActivateAll(fn, ciphers) ==
  [i \in DOMAIN ciphers |-> Activate(fn, ciphers[i])]

\* handle_message: the messages written in answer to m.
Answer(m) ==
  CASE m.type = "encryption_parameters" ->
         <<Message("public_key", <<>>), Message("eval_key", <<>>)>>
    [] m.type = "parameter_size" ->
         <<Message("execute", Units("input", 0, 1, m.number))>>
    [] m.type = "relu_request" ->
         <<Message("relu_result", ActivateAll("relu", m.payload))>>
    [] m.type = "relu6_request" ->
         <<Message("relu_result", ActivateAll("relu6", m.payload))>>
    [] m.type = "max_request" ->
         <<Message("max_result", ActivateAll("max", m.payload))>>
    [] OTHER -> <<>>
\* Faulty variant: the encryption context is not set from the parameters.
HandleMessageWithoutContext ==
  LET m == Head(s2c) IN
  /\ ClientReadBody(Answer(m), m.type = "result")
  /\ UNCHANGED context
  /\ m_is_done' = (m_is_done \/ m.type = "result")
  /\ m_results' = IF m.type = "result" THEN m_results \o m.payload ELSE m_results

\* handle_message(message), called by do_read_body.
HandleMessage ==
  LET m == Head(s2c) IN
  /\ ClientReadBody(Answer(m), m.type = "result")
  /\ context' = (context \/ m.type = "encryption_parameters")
  /\ m_is_done' = (m_is_done \/ m.type = "result")
  /\ m_results' = IF m.type = "result" THEN m_results \o m.payload ELSE m_results

\* The handlers of the client's io thread.
ClientThread ==
  \/ HandleMessage
  \/ TCPClientStep /\ UNCHANGED heClientVars

-----------------------------------------------------------------------------
HESealClientTypeOK ==
  /\ TCPClientTypeOK(Messages)
  /\ context \in BOOLEAN
  /\ m_results \in Payloads
  /\ m_is_done \in BOOLEAN
=============================================================================
