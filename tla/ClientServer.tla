---------------------------- MODULE ClientServer ----------------------------
(***************************************************************************)
(* One server process and one client process: HESealExecutable and         *)
(* HESealClient over one connection.  Four activities interleave: the      *)
(* server's main thread, its io thread, the client's one thread, and the   *)
(* two directions of the network.                                          *)
(***************************************************************************)
EXTENDS HESealClient, HESealExecutable

CONSTANT
  Faults   \* what may go wrong outside the two programs: "refused", a client
           \* started before the server listens; "lost", a broken connection

ASSUME FaultsAssumption == Faults \subseteq {"refused", "lost"}

vars == <<networkVars, clientVars, heClientVars, serverVars>>

Init ==
  /\ NetworkInit
  /\ TCPClientInit
  /\ HESealClientInit
  /\ HESealExecutableInit

-----------------------------------------------------------------------------
(* The acceptor listens from start_server() on.                            *)

Connect ==
  /\ pc # "construct"
  /\ ConnectSucceeds
  /\ UNCHANGED <<heClientVars, serverVars>>

Refused ==
  /\ "refused" \in Faults
  /\ pc = "construct"
  /\ ConnectFails
  /\ UNCHANGED <<heClientVars, serverVars>>

\* The user starts the client again after a refused connection.
RerunClient ==
  /\ cSock = "failed"
  /\ cSock' = "connecting"
  /\ UNCHANGED <<networkVars, cRead, m_message_queue, posted, sending, sent, closePosted,
                 heClientVars, serverVars>>

Lost ==
  /\ "lost" \in Faults
  /\ ConnectionLost
  /\ UNCHANGED <<clientVars, heClientVars, serverVars>>

Client == ClientThread /\ UNCHANGED serverVars

ClientSends == ClientTransmit /\ UNCHANGED <<heClientVars, serverVars>>

Main == MainThread /\ UNCHANGED <<clientVars, heClientVars>>

Wakeup == SpuriousWakeup /\ UNCHANGED <<clientVars, heClientVars>>

Io == IoThread /\ UNCHANGED <<clientVars, heClientVars>>

ServerSends == SessionTransmit /\ UNCHANGED <<clientVars, heClientVars>>

\* Both processes have ended, the only way the two together stop.
Ended ==
  /\ ~serverUp
  /\ RunReturned
  /\ UNCHANGED vars

Next ==
  \/ Connect
  \/ Refused
  \/ RerunClient
  \/ Lost
  \/ Client
  \/ ClientSends
  \/ Main
  \/ Wakeup
  \/ Io
  \/ ServerSends
  \/ Ended

\* Each thread that can take a step takes one, the kernel sends what it holds,
\* and a client that asks a listening server is connected.  Nothing forces a
\* fault, a spurious wakeup, or the user to try again.
Fairness ==
  /\ WF_vars(Connect)
  /\ WF_vars(Client)
  /\ WF_vars(ClientSends)
  /\ WF_vars(Main)
  /\ WF_vars(Io)
  /\ WF_vars(ServerSends)

Spec == Init /\ [][Next]_vars /\ Fairness

-----------------------------------------------------------------------------
(* Properties.                                                             *)

\* The variables of the four components have their types.
TypeOK == HESealClientTypeOK /\ HESealExecutableTypeOK

\* Messages the client has yet to handle, and those the server has yet to
\* handle, oldest first, from the moment they are given to be written.
ToClient == s2c \o sWrites
ToServer == c2s \o Unsent

\* Each end writes only when it has heard all the other had to say.  TCPSession
\* has no queue, so this is what keeps two asynchronous writes of the main and
\* the io thread from running at once and mixing their bytes on the socket
\* (TCPSession::do_write, called from handle_message, call() and its loops).
HalfDuplex == Len(ToClient) <= 1 /\ (ToClient # <<>> => ToServer = <<>>)

\* do_write does not keep the message it writes: a write still under way reads a
\* message that lives, that is the request the main thread waits for in the same
\* turn of its loop, or m_result_message; those of the constructor and of
\* handle_message are dead by the time their caller returns.
WriteBuffersLive ==
  \A i \in DOMAIN sWrites :
    \/ pc = "answer" /\ sWrites[i] = Request
    \/ sWrites[i].type = "result"

\* The main thread clears and reads m_relu_ciphertexts and m_max_ciphertexts
\* without their mutex: whenever it is about to, no answer is on its way whose
\* handler could touch them at the same time (handle_server_relu_op, MaxPool).
UnlockedAccessIsAlone ==
  pc \in {"operations", "set"} =>
    \A i \in DOMAIN ToServer : ToServer[i].type \notin {"relu_result", "max_result"}

\* A done flag means the answer to the request under way, and to all before it
\* in the same operation, is in place: relu_done and max_done are set by
\* handle_message, tested and reset by the loops.
DoneMeansAnswered ==
  \A s \in Slots :
    m_done[s] => /\ pc = "answer" /\ s = Slot
                 /\ m_ciphertexts[s] = Units(Current.kind, op, 1, Last)

\* When the loop over the requests has ended, every answer is in place: the loop
\* has waited for each of them ("Wait until max is done").
AllAnswersBeforeSet == pc = "set" => m_ciphertexts[Slot] = Output(op)

\* Every operation evaluated so far, by the server or with the client's help in
\* any number of requests, has the tensor it should: no element lost, repeated,
\* out of order or given another activation (set_elements).
OutputsCorrect == \A k \in DOMAIN outputs : outputs[k] = Output(k)

\* Evaluation begins with both keys and all the client's inputs in place:
\* public_key, eval_key and execute come in this order (handle_message), and
\* the main thread reads them only after its wait (call).
EvaluatesWithKeysAndInputs ==
  pc \in {"operations", "request", "answer", "set"} =>
    public_key /\ relin_keys /\ m_client_inputs = Inputs

\* Whatever the client is asked to encrypt or decrypt reaches it after the
\* encryption parameters (set_seal_context before every other message).
ClientCanDecrypt ==
  \A i \in DOMAIN ToClient :
    (ToClient[i].type # "encryption_parameters" \/ i > 1) => context

\* What the client reports as its result is the value of the function, and it is
\* there as soon as is_done() says so (HESealClient::handle_message).
ResultCorrect == m_results = (IF m_is_done THEN FinalOutput ELSE <<>>)

\* The server does not end before its client: nothing it does by itself stops
\* an inference that is under way.
ServerEndsLast == link # "serverDead"

\* The server's caller has read the output by the time the process ends because
\* the client, having its result, has closed the connection.
OutputReadBeforeEnd ==
  m_is_done /\ ~serverUp => pc \in {"outputRead", "joining"}

\* Client and server together do one inference and nothing else, and finish it.
Inference == INSTANCE SecureInference WITH
  stage <- IF m_is_done THEN "delivered"
           ELSE IF m_client_inputs_received THEN "running"
           ELSE IF relin_keys THEN "keyed" ELSE "setup",
  evaluated <- outputs,
  delivered <- m_results

ImplementsInference == Inference!LiveSpec

\* Whatever fails, what they have done is the beginning of that inference.
SafeInference == Inference!Spec

\* No end waits for ever on a connection that has ended, however it ended: the
\* read that TCPSession and TCPClient always have under way fails, which ends
\* the server process, main thread included, and the client's run().
NeitherOutlivesConnection ==
  link \in {"clientShut", "serverDead", "lost"} ~> (~serverUp /\ RunReturned)
=============================================================================
