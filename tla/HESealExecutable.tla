-------------------------- MODULE HESealExecutable --------------------------
(***************************************************************************)
(* src/seal/he_seal_executable.cpp with NGRAPH_ENABLE_CLIENT set.  Two     *)
(* threads: the one that constructs the executable and runs call(), here   *)
(* the main thread, and the io thread, which runs the handlers of the      *)
(* acceptor and of TCPSession.                                             *)
(*                                                                         *)
(* The main thread waits on condition variables whose flags are only read  *)
(* and written under their mutex: a critical section of the io thread, and *)
(* the main thread's test of the flag with what follows it up to the       *)
(* release of the mutex, are one step each.  A test that fails puts the    *)
(* main thread in `waiting`; notify_all takes it out, and it tests again.  *)
(*                                                                         *)
(* m_relu_ciphertexts and m_relu_done are m_ciphertexts["relu"] and        *)
(* m_done["relu"]; m_max_ciphertexts and m_max_done those of "max".        *)
(***************************************************************************)
EXTENDS Messages, TCPSession

CONSTANT
  MaxDoneInit   \* the values m_max_done can start with: the constructor does
                \* not initialise it, so all of BOOLEAN for the code as it is

ASSUME MaxDoneAssumption == MaxDoneInit \subseteq BOOLEAN

\* The constructor and handle_message return right after they start to write
\* these, and the message dies: the code relies on their few bytes being taken at
\* once.  What a write of freed memory would send is not modelled.
ASSUME ImmediateAssumption ==
  {"encryption_parameters", "parameter_size"} \subseteq Immediate

VARIABLES
  pc,                         \* where the main thread is
  op,                         \* the wrapped node it is at
  first,                      \* first unit of the request under way
  waiting,                    \* condition variable it is blocked on, or none
  ioPc,                       \* what the io thread is in the middle of
  serverUp,                   \* the server process is running
  m_session_started,
  m_client_inputs,
  m_client_inputs_received,
  public_key, relin_keys,     \* set in the backend by the client's messages
  m_ciphertexts,
  m_done,
  outputs                     \* tensors of the operations evaluated so far

mainVars == <<pc, op, first, waiting, outputs>>
keyVars == <<public_key, relin_keys>>
inputVars == <<m_session_started, m_client_inputs, m_client_inputs_received>>
answerVars == <<m_ciphertexts, m_done>>
serverVars ==
  <<sessionVars, mainVars, ioPc, serverUp, inputVars, keyVars, answerVars>>

Slots == {"relu", "max"}
Conditions == {"none", "session", "inputs"} \cup Slots

HESealExecutableInit ==
  /\ TCPSessionInit
  /\ pc = "construct"
  /\ op = 1
  /\ first = 1
  /\ waiting = "none"
  /\ ioPc = "accepting"
  /\ serverUp = TRUE
  /\ m_session_started = FALSE
  /\ m_client_inputs = <<>>
  /\ m_client_inputs_received = FALSE
  /\ public_key = FALSE
  /\ relin_keys = FALSE
  /\ m_ciphertexts = [s \in Slots |-> <<>>]
  /\ \E b \in MaxDoneInit : m_done = [s \in Slots |-> s = "max" /\ b]
  /\ outputs = <<>>

\* cond.wait(lock, flag): go on to `next`, or block on cond.
WaitFor(cond, flag, next) ==
  /\ waiting = "none"
  /\ IF flag THEN pc' = next /\ UNCHANGED waiting
             ELSE waiting' = cond /\ UNCHANGED pc
\* Faulty variant: nobody is notified.
NotifyNobody(cond) == UNCHANGED waiting

\* cond.notify_all().
NotifyAll(cond) == waiting' = IF waiting = cond THEN "none" ELSE waiting

\* std::terminate: an exception leaves a thread or an OpenMP region.
Terminate ==
  /\ serverUp' = FALSE
  /\ link' = IF link = "up" THEN "serverDead" ELSE link
  /\ sRead' = "none"
  /\ sWrites' = <<>>
  /\ UNCHANGED <<c2s, s2c, mainVars, ioPc, inputVars, keyVars, answerVars>>

-----------------------------------------------------------------------------
(* The main thread: the constructor.                                       *)

StartServer ==
  /\ pc = "construct"
  /\ pc' = "session"
  /\ UNCHANGED <<networkVars, sessionVars, op, first, waiting, outputs, ioPc, serverUp,
                 inputVars, keyVars, answerVars>>

WaitForSession ==
  /\ pc = "session"
  /\ WaitFor("session", m_session_started, "parameters")
  /\ UNCHANGED <<networkVars, sessionVars, op, first, outputs, ioPc, serverUp,
                 inputVars, keyVars, answerVars>>

\* The constructor ends here, and with it the life of parms_message.
SendEncryptionParameters ==
  /\ pc = "parameters"
  /\ do_write(Message("encryption_parameters", <<>>))
  /\ pc' = "inputs"
  /\ UNCHANGED <<link, c2s, sRead, op, first, waiting, outputs, ioPc, serverUp,
                 inputVars, keyVars, answerVars>>

-----------------------------------------------------------------------------
(* The main thread: call().                                                *)
\* Faulty variant: the wait tests the flag of the session.
WaitForSessionAgain ==
  /\ pc = "inputs"
  /\ WaitFor("inputs", m_session_started, "operations")
  /\ UNCHANGED <<networkVars, sessionVars, op, first, outputs, ioPc, serverUp,
                 inputVars, keyVars, answerVars>>

WaitForClientInputs ==
  /\ pc = "inputs"
  /\ WaitFor("inputs", m_client_inputs_received, "operations")
  /\ UNCHANGED <<networkVars, sessionVars, op, first, outputs, ioPc, serverUp,
                 inputVars, keyVars, answerVars>>

Current == Program[op]
Slot == IF Current.kind = "max" THEN "max" ELSE "relu"

\* relu_end_idx: the last unit of the batch that starts at first.
BatchEnd ==
  IF first + MaxReluMessageCnt - 1 > Current.units THEN Current.units
                                                   ELSE first + MaxReluMessageCnt - 1

\* The last unit of the request under way; one of maximize_list is one window.
Last == IF Current.kind = "max" THEN first ELSE BatchEnd

\* handle_server_relu_op throws in its parallel region on a known zero.
ReluOfZero == Current.kind # "max" /\ Current.zeros \cap (first..Last) # {}

Request ==
  Message(CASE Current.kind = "relu" -> "relu_request"
            [] Current.kind = "relu6" -> "relu6_request"
            [] Current.kind = "max" -> "max_request",
          Units("arg", op, first, Last))

\* generate_calls on an operation that needs no client.
EvaluateLocally ==
  /\ pc = "operations"
  /\ op <= Len(Program)
  /\ Current.kind = "local"
  /\ outputs' = Append(outputs, Output(op))
  /\ op' = op + 1
  /\ UNCHANGED <<networkVars, sessionVars, pc, first, waiting, ioPc, serverUp,
                 inputVars, keyVars, answerVars>>
\* Faulty variant: units are counted from 0.
BeginRequestsAtZero ==
  /\ pc = "operations"
  /\ op <= Len(Program)
  /\ Current.kind # "local"
  /\ m_ciphertexts' = [m_ciphertexts EXCEPT ![Slot] = <<>>]
  /\ first' = 0
  /\ pc' = "request"
  /\ UNCHANGED <<networkVars, sessionVars, op, waiting, outputs, ioPc, serverUp,
                 inputVars, keyVars, m_done>>

\* handle_server_relu_op and the MaxPool case, up to their loops.
BeginRequests ==
  /\ pc = "operations"
  /\ op <= Len(Program)
  /\ Current.kind # "local"
  /\ m_ciphertexts' = [m_ciphertexts EXCEPT ![Slot] = <<>>]
  /\ first' = 1
  /\ pc' = "request"
  /\ UNCHANGED <<networkVars, sessionVars, op, waiting, outputs, ioPc, serverUp,
                 inputVars, keyVars, m_done>>

\* One turn of the loop, up to the wait.
SendRequest ==
  /\ pc = "request"
  /\ ~ReluOfZero
  /\ do_write(Request)
  /\ pc' = "answer"
  /\ UNCHANGED <<link, c2s, sRead, op, first, waiting, outputs, ioPc, serverUp,
                 inputVars, keyVars, answerVars>>

ReluThrows ==
  /\ pc = "request"
  /\ ReluOfZero
  /\ Terminate
\* Faulty variant: the flag is not reset for the next request.
WaitForAnswerOnce ==
  /\ pc = "answer"
  /\ WaitFor(Slot, m_done[Slot], IF Last = Current.units THEN "set" ELSE "request")
  /\ first' = IF m_done[Slot] /\ Last # Current.units THEN Last + 1 ELSE first
  /\ UNCHANGED <<networkVars, sessionVars, op, outputs, ioPc, serverUp,
                 inputVars, keyVars, answerVars>>

\* The wait, the reset of the flag and the end of the turn.
WaitForAnswer ==
  /\ pc = "answer"
  /\ WaitFor(Slot, m_done[Slot], IF Last = Current.units THEN "set" ELSE "request")
  /\ m_done' = [m_done EXCEPT ![Slot] = FALSE]
  /\ first' = IF m_done[Slot] /\ Last # Current.units THEN Last + 1 ELSE first
  /\ UNCHANGED <<networkVars, sessionVars, op, outputs, ioPc, serverUp,
                 inputVars, keyVars, m_ciphertexts>>

\* set_elements, which throws on a wrong number of elements: the exception
\* leaves call().
SetElements ==
  /\ pc = "set"
  /\ IF Len(m_ciphertexts[Slot]) = Current.units
       THEN /\ outputs' = Append(outputs, m_ciphertexts[Slot])
            /\ op' = op + 1
            /\ pc' = "operations"
       ELSE pc' = "threw" /\ UNCHANGED <<outputs, op>>
  /\ UNCHANGED <<networkVars, sessionVars, first, waiting, ioPc, serverUp,
                 inputVars, keyVars, answerVars>>
\* Faulty variant: the output of the first operation is sent.
SendFirstOutput ==
  /\ pc = "operations"
  /\ op > Len(Program)
  /\ do_write(Message("result", IF outputs = <<>> THEN m_client_inputs ELSE outputs[1]))
  /\ pc' = "returned"
  /\ UNCHANGED <<link, c2s, sRead, op, first, waiting, outputs, ioPc, serverUp,
                 inputVars, keyVars, answerVars>>

\* The end of call(): the argument of op::Result is sent, not copied.
SendResult ==
  /\ pc = "operations"
  /\ op > Len(Program)
  /\ do_write(Message("result", IF outputs = <<>> THEN m_client_inputs
                                                  ELSE outputs[Len(outputs)]))
  /\ pc' = "returned"
  /\ UNCHANGED <<link, c2s, sRead, op, first, waiting, outputs, ioPc, serverUp,
                 inputVars, keyVars, answerVars>>

\* The caller reads the output tensor (HESealCipherTensor::read).
ReadOutput ==
  /\ pc = "returned"
  /\ pc' = "outputRead"
  /\ UNCHANGED <<networkVars, sessionVars, op, first, waiting, outputs, ioPc, serverUp,
                 inputVars, keyVars, answerVars>>

\* ~HESealExecutable: m_thread.join() waits for the io thread.
Destroy ==
  /\ pc = "outputRead"
  /\ pc' = "joining"
  /\ UNCHANGED <<networkVars, sessionVars, op, first, waiting, outputs, ioPc, serverUp,
                 inputVars, keyVars, answerVars>>

MainThread ==
  /\ serverUp
  /\ \/ StartServer
     \/ WaitForSession
     \/ SendEncryptionParameters
     \/ WaitForClientInputs
     \/ EvaluateLocally
     \/ BeginRequests
     \/ SendRequest
     \/ ReluThrows
     \/ WaitForAnswer
     \/ SetElements
     \/ SendResult
     \/ ReadOutput
     \/ Destroy

\* A condition variable may wake its waiter without a notification.
SpuriousWakeup ==
  /\ serverUp
  /\ waiting # "none"
  /\ waiting' = "none"
  /\ UNCHANGED <<networkVars, sessionVars, pc, op, first, outputs, ioPc, serverUp,
                 inputVars, keyVars, answerVars>>

-----------------------------------------------------------------------------
(* The io thread: the acceptor's handler.                                  *)

\* m_session is made and started, before the lock is taken.
Accept ==
  /\ ioPc = "accepting"
  /\ pc # "construct"
  /\ link # "none"
  /\ Start
  /\ ioPc' = "accepted"
  /\ UNCHANGED <<networkVars, sWrites, mainVars, serverUp, inputVars, keyVars, answerVars>>

NotifySession ==
  /\ ioPc = "accepted"
  /\ ioPc' = "idle"
  /\ m_session_started' = TRUE
  /\ NotifyAll("session")
  /\ UNCHANGED <<networkVars, sessionVars, pc, op, first, outputs, serverUp,
                 m_client_inputs, m_client_inputs_received, keyVars, answerVars>>

-----------------------------------------------------------------------------
(* The io thread: the session's handlers, and handle_message in them.      *)

ReadHeader ==
  /\ ioPc = "idle"
  /\ ServerReadHeader
  /\ UNCHANGED <<mainVars, ioPc, serverUp, inputVars, keyVars, answerVars>>

HandlePublicKey ==
  /\ ioPc = "idle"
  /\ ServerReadBody
  /\ Head(c2s).type = "public_key"
  /\ public_key' = TRUE
  /\ Start
  /\ UNCHANGED <<link, s2c, sWrites, mainVars, ioPc, serverUp, inputVars, relin_keys,
                 answerVars>>

HandleEvalKey ==
  /\ ioPc = "idle"
  /\ ServerReadBody
  /\ Head(c2s).type = "eval_key"
  /\ relin_keys' = TRUE
  /\ do_write(ParameterSizeMessage)
  /\ Start
  /\ UNCHANGED <<link, mainVars, ioPc, serverUp, inputVars, public_key, answerVars>>
\* Faulty variant: one element too few is expected.
CallbackThrowsOffByOne(m) ==
  /\ m.type = "execute"
  /\ Len(m.payload) # ParameterSize - 1 \/ m_client_inputs # <<>>

\* handle_message throws on an execute message of another size, or a second one.
CallbackThrows(m) ==
  /\ m.type = "execute"
  /\ Len(m.payload) # ParameterSize \/ m_client_inputs # <<>>

\* m_client_inputs is filled before the lock is taken; no read is under way
\* until the callback has returned.
HandleExecute ==
  /\ ioPc = "idle"
  /\ ServerReadBody
  /\ Head(c2s).type = "execute"
  /\ ~CallbackThrows(Head(c2s))
  /\ m_client_inputs' = Head(c2s).payload
  /\ sRead' = "none"
  /\ ioPc' = "inputs"
  /\ UNCHANGED <<link, s2c, sWrites, mainVars, serverUp, m_session_started,
                 m_client_inputs_received, keyVars, answerVars>>

NotifyInputs ==
  /\ ioPc = "inputs"
  /\ ioPc' = "idle"
  /\ m_client_inputs_received' = TRUE
  /\ NotifyAll("inputs")
  /\ Start
  /\ UNCHANGED <<networkVars, sWrites, pc, op, first, outputs, serverUp,
                 m_session_started, m_client_inputs, keyVars, answerVars>>
\* Faulty variant: an answer replaces those before it.
HandleAnswerReplaces(slot) ==
  /\ ioPc = "idle"
  /\ ServerReadBody
  /\ Head(c2s).type = (IF slot = "max" THEN "max_result" ELSE "relu_result")
  /\ m_ciphertexts' = [m_ciphertexts EXCEPT ![slot] = Head(c2s).payload]
  /\ m_done' = [m_done EXCEPT ![slot] = TRUE]
  /\ NotifyAll(slot)
  /\ Start
  /\ UNCHANGED <<link, s2c, sWrites, pc, op, first, outputs, ioPc, serverUp,
                 inputVars, keyVars>>

\* relu_result and max_result: the answer is added and its flag set under the
\* mutex of its slot.
HandleAnswer(slot) ==
  /\ ioPc = "idle"
  /\ ServerReadBody
  /\ Head(c2s).type = (IF slot = "max" THEN "max_result" ELSE "relu_result")
  /\ m_ciphertexts' = [m_ciphertexts EXCEPT ![slot] = @ \o Head(c2s).payload]
  /\ m_done' = [m_done EXCEPT ![slot] = TRUE]
  /\ NotifyAll(slot)
  /\ Start
  /\ UNCHANGED <<link, s2c, sWrites, pc, op, first, outputs, ioPc, serverUp,
                 inputVars, keyVars>>

\* An error of a read, and an unexpected execute, end the process.
IoThrows ==
  /\ ioPc = "idle"
  /\ ReadThrows \/ (sRead = "body" /\ ServerDataAvailable /\ CallbackThrows(Head(c2s)))
  /\ Terminate

IoThread ==
  /\ serverUp
  /\ \/ Accept
     \/ NotifySession
     \/ ReadHeader
     \/ HandlePublicKey
     \/ HandleEvalKey
     \/ HandleExecute
     \/ NotifyInputs
     \/ \E slot \in Slots : HandleAnswer(slot)
     \/ IoThrows

\* The kernel sends what is left of the session's writes.
SessionTransmit ==
  /\ serverUp
  /\ ServerTransmit
  /\ UNCHANGED <<mainVars, ioPc, serverUp, inputVars, keyVars, answerVars>>

-----------------------------------------------------------------------------
MainStates ==
  {"construct", "session", "parameters", "inputs", "operations", "request",
   "answer", "set", "returned", "outputRead", "joining", "threw"}

HESealExecutableTypeOK ==
  /\ TCPSessionTypeOK(Messages)
  /\ pc \in MainStates
  /\ op \in Nat \ {0}
  /\ first \in Nat \ {0}
  /\ waiting \in Conditions
  /\ ioPc \in {"accepting", "accepted", "idle", "inputs"}
  /\ serverUp \in BOOLEAN
  /\ m_session_started \in BOOLEAN
  /\ m_client_inputs \in Payloads
  /\ m_client_inputs_received \in BOOLEAN
  /\ public_key \in BOOLEAN
  /\ relin_keys \in BOOLEAN
  /\ m_ciphertexts \in [Slots -> Payloads]
  /\ m_done \in [Slots -> BOOLEAN]
  /\ outputs \in Seq(Payloads)
=============================================================================
