------------------------ MODULE ClientServer_proofs -------------------------
(***************************************************************************)
(* Proofs about ClientServer, for every program, size of the parameter,    *)
(* size of a relu request, fault and set of immediate messages: the        *)
(* exchange between server and client keeps its order, every tensor it     *)
(* computes is the right one, and its steps are those of SecureInference.  *)
(* The one assumption is that the flags start FALSE, which the constructor *)
(* does not see to for m_max_done.                                         *)
(***************************************************************************)
EXTENDS ClientServerChannels_proofs

-----------------------------------------------------------------------------
(* The inductive invariant.                                                *)

Setting == {"construct", "session", "parameters"}
Requesting == {"request", "answer", "set"}
Finished == {"returned", "outputRead", "joining"}

\* Where the main thread is in the program.
Place ==
  /\ op <= Len(Program) + 1
  /\ pc # "threw"
  /\ pc \in Setting \cup {"inputs"} => op = 1
  /\ pc \in Requesting => op <= Len(Program) /\ Current.kind # "local"
  /\ pc \in {"request", "answer"} => first <= Current.units
  /\ pc \in Finished => op = Len(Program) + 1

\* The answers to the requests before the one under way are in place, and a flag
\* that is set means the answer to that one is too.
Answered ==
  /\ pc = "request" => m_ciphertexts[Slot] = Units(Current.kind, op, 1, first - 1)
  /\ pc = "answer" =>
       m_ciphertexts[Slot] =
         Units(Current.kind, op, 1, IF m_done[Slot] THEN Last ELSE first - 1)
  /\ pc = "set" => m_ciphertexts[Slot] = Output(op)
  /\ \A s \in Slots : m_done[s] => pc = "answer" /\ s = Slot

Evaluated == Len(outputs) = op - 1 /\ OutputsCorrect

\* What the main thread has waited for has happened.
Awaited ==
  /\ pc \notin {"construct", "session"} => m_session_started
  /\ m_session_started => ioPc \in {"idle", "inputs"}
  /\ ioPc # "accepting" => link # "none"
  /\ ioPc = "inputs" => pc = "inputs" /\ ~m_client_inputs_received
  /\ pc \in Setting =>
       ~public_key /\ ~relin_keys /\ m_client_inputs = <<>> /\ ~m_client_inputs_received
  /\ pc \notin Setting \cup {"inputs"} => m_client_inputs_received
  /\ m_client_inputs_received =>
       public_key /\ relin_keys /\ m_client_inputs = Inputs /\ context

\* A connection that has ended.
Ends ==
  /\ link = "lost" => c2s = <<>> /\ s2c = <<>>
  /\ link = "clientShut" => m_is_done
  /\ link = "serverDead" => ~serverUp

\* The exchange between a server that is up and its client: one message at a
\* time, or the two keys, and an answer to each.
Silent == ToClient = <<>> /\ ToServer = <<>>
Asked(m) == ToClient = <<m>> /\ ToServer = <<>>
Replied(ms) == ToClient = <<>> /\ ToServer = ms
Gone == ToClient = <<>> /\ link = "lost"

\* What the client is told, and what it makes of the result; and that it is told
\* nothing, and says nothing, while the server computes.
Told ==
  /\ ToClient # <<>> =>
       /\ Len(ToClient) = 1
       /\ ToServer = <<>>
       /\ ~m_is_done
       /\ Head(ToClient).type # "encryption_parameters" => context
       /\ Head(ToClient).type = "result" =>
            /\ Head(ToClient).payload = FinalOutput
            /\ m_client_inputs_received
            /\ Len(outputs) = Len(Program)
  /\ m_is_done =>
       /\ m_client_inputs_received
       /\ Len(outputs) = Len(Program)
       /\ serverUp => pc \in Finished
  /\ ResultCorrect
  /\ pc \in {"operations", "set"} => Silent

Have(pk, rk, in) == public_key = pk /\ relin_keys = rk /\ m_client_inputs = in

Parameters == Message("encryption_parameters", <<>>)
PublicKey == Message("public_key", <<>>)
EvalKey == Message("eval_key", <<>>)
Execute == Message("execute", Inputs)
Reply == Message(IF Slot = "max" THEN "max_result" ELSE "relu_result",
                 Units(Current.kind, op, first, Last))
Result == Message("result", FinalOutput)

Handshake ==
  \/ Asked(Parameters) /\ Have(FALSE, FALSE, <<>>)
  \/ Replied(<<PublicKey, EvalKey>>) /\ Have(FALSE, FALSE, <<>>) /\ context
  \/ Replied(<<EvalKey>>) /\ Have(TRUE, FALSE, <<>>) /\ context
  \/ Asked(ParameterSizeMessage) /\ Have(TRUE, TRUE, <<>>) /\ context
  \/ Replied(<<Execute>>) /\ Have(TRUE, TRUE, <<>>) /\ context
  \/ Gone /\ m_client_inputs = <<>>

Exchange ==
  /\ pc \in Setting \cup {"operations", "request", "set"} => Silent
  /\ pc = "inputs" =>
       \/ Handshake /\ ioPc = "idle" /\ ~m_client_inputs_received
       \/ /\ Silent /\ Have(TRUE, TRUE, Inputs) /\ context
          /\ ioPc = (IF m_client_inputs_received THEN "idle" ELSE "inputs")
  /\ pc = "answer" =>
       \/ (Asked(Request) \/ Replied(<<Reply>>) \/ Gone) /\ ~m_done[Slot]
       \/ Silent /\ m_done[Slot]
  /\ pc \in Finished => Silent \/ Asked(Result)

Inv ==
  /\ TypeOK
  /\ QueueOK(Messages)
  /\ Place
  /\ Answered
  /\ Evaluated
  /\ Awaited
  /\ Ends
  /\ Told
  /\ serverUp => Exchange

-----------------------------------------------------------------------------
(* The messages of the protocol.                                           *)

\* The client's activation makes the units of an argument those of the result.
LEMMA ActivateUnits ==
  ASSUME NEW fn \in OpKinds, NEW k \in Nat, NEW i \in Nat \ {0}, NEW j \in Nat, i <= j + 1
  PROVE  ActivateAll(fn, Units("arg", k, i, j)) = Units(fn, k, i, j)
  BY DEF ActivateAll, Activate, Units

\* The operation the main thread is at.
LEMMA CurrentType ==
  ASSUME HESealExecutableTypeOK, op <= Len(Program)
  PROVE  /\ Current.kind \in OpKinds
         /\ Current.units \in Nat \ {0}
         /\ Slot \in Slots
         /\ Output(op) \in Payloads
         /\ Len(Output(op)) = Current.units
  BY NodeType, OutputType DEF HESealExecutableTypeOK, Current, Slot, Slots

\* A request asks for one unit at least, and for none beyond the last.
LEMMA LastType ==
  ASSUME HESealExecutableTypeOK, op <= Len(Program), first <= Current.units
  PROVE  /\ Last \in Nat \ {0}
         /\ first <= Last
         /\ Last <= Current.units
  BY CurrentType, MaxReluAssumption DEF HESealExecutableTypeOK, Last, BatchEnd

\* The messages of the handshake, and the result.
LEMMA HandshakeMessages ==
  /\ Parameters \in Messages /\ PublicKey \in Messages /\ EvalKey \in Messages
  /\ ParameterSizeMessage \in Messages /\ Execute \in Messages /\ Result \in Messages
<1>1. <<>> \in Payloads
  BY EmptySeq DEF Payloads
<1>2. QED
  BY <1>1, InputsType, FinalOutputType, ParameterSizeAssumption
     DEF Parameters, PublicKey, EvalKey, ParameterSizeMessage, Execute, Result, Message,
         Messages, MessageTypes

\* What the client answers in the handshake: after the result, nothing.
LEMMA HandshakeAnswers ==
  /\ Answer(Parameters) = <<PublicKey, EvalKey>>
  /\ Answer(ParameterSizeMessage) = <<Execute>>
  /\ Answer(Result) = <<>>
  BY DEF Answer, Parameters, PublicKey, EvalKey, ParameterSizeMessage, Execute, Result,
         Message, Inputs

\* A request and its answer.
LEMMA RequestAnswer ==
  ASSUME HESealExecutableTypeOK, op <= Len(Program), first <= Current.units,
         Current.kind # "local"
  PROVE  /\ Request \in Messages
         /\ Reply \in Messages
         /\ Request.type \in {"relu_request", "relu6_request", "max_request"}
         /\ Answer(Request) = <<Reply>>
<1> DEFINE args == Units("arg", op, first, Last)
           units == Units(Current.kind, op, first, Last)
<1>1. /\ Current.kind \in {"relu", "relu6", "max"}
      /\ Last \in Nat /\ first \in Nat \ {0} /\ first <= Last + 1 /\ op \in Nat
  BY CurrentType, LastType DEF OpKinds, HESealExecutableTypeOK
<1>2. args \in Payloads /\ units \in Payloads
  BY <1>1, UnitsType DEF OpKinds
<1>3. ActivateAll(Current.kind, args) = units
  BY <1>1, ActivateUnits DEF OpKinds
<1>4. Request.payload = args
  BY DEF Request, Message
<1>5. Reply = Message(IF Current.kind = "max" THEN "max_result" ELSE "relu_result", units)
  BY <1>1 DEF Reply, Slot
<1> HIDE DEF args, units
<1>6. Request = Message(IF Current.kind = "relu" THEN "relu_request"
                        ELSE IF Current.kind = "relu6" THEN "relu6_request"
                        ELSE "max_request", args)
  BY <1>1 DEF Request, args
<1>7. Answer(Request) = <<Reply>>
  <2>1. CASE Current.kind = "relu"
    BY <1>3, <1>5, <1>6, <2>1 DEF Answer, Message
  <2>2. CASE Current.kind = "relu6"
    BY <1>3, <1>5, <1>6, <2>2 DEF Answer, Message
  <2>3. CASE Current.kind = "max"
    BY <1>3, <1>5, <1>6, <2>3 DEF Answer, Message
  <2>4. QED
    BY <1>1, <2>1, <2>2, <2>3
<1>8. QED
  BY <1>2, <1>5, <1>6, <1>7 DEF Message, Messages, MessageTypes

-----------------------------------------------------------------------------
(* The client's steps, and the network's.                                  *)

\* What a step of the client or of the network keeps, as it does not touch the
\* server.
LEMMA ServerUntouched ==
  ASSUME Inv, UNCHANGED serverVars, ChannelsOK', HESealClientTypeOK',
         context => context', link # "none" => link' # "none"
  PROVE  TypeOK' /\ QueueOK(Messages)' /\ Place' /\ Answered' /\ Evaluated' /\ Awaited'
<1> USE DEF serverVars, sessionVars, mainVars, inputVars, keyVars, answerVars
<1>1. TypeOK' /\ QueueOK(Messages)'
  BY DEF Inv, TypeOK, HESealExecutableTypeOK, TCPSessionTypeOK, ChannelsOK
<1>2. Place'
  BY DEF Inv, Place, Current
<1>3. Answered'
  BY DEF Inv, Answered, Current, Slot, Last, BatchEnd
<1>4. Evaluated'
  BY DEF Inv, Evaluated, OutputsCorrect
<1>5. Awaited'
  BY DEF Inv, Awaited
<1>6. QED
  BY <1>1, <1>2, <1>3, <1>4, <1>5

\* The invariant holds of the two directions.
LEMMA InvChannels == Inv => ChannelsOK /\ HESealClientTypeOK /\ HESealExecutableTypeOK
  BY DEF Inv, TypeOK, ChannelsOK, HESealExecutableTypeOK

\* The messages of the exchange depend on the main thread alone.
LEMMA SameMessages ==
  ASSUME UNCHANGED <<op, first>>
  PROVE  Request' = Request /\ Reply' = Reply /\ Slot' = Slot /\ Current' = Current
  BY DEF Request, Reply, Slot, Current, Last, BatchEnd

\* A step that moves no message between the ends and does not end the connection.
LEMMA NothingMoves ==
  ASSUME Inv, UNCHANGED <<heClientVars, serverVars>>, ChannelsOK',
         ToClient' = ToClient, ToServer' = ToServer,
         \/ UNCHANGED networkVars
         \/ link' = "up" /\ link # "lost"
  PROVE  Inv'
<1> USE DEF serverVars, sessionVars, mainVars, inputVars, keyVars, answerVars, heClientVars,
            networkVars
<1>1. HESealClientTypeOK'
  BY DEF Inv, TypeOK, HESealClientTypeOK, ChannelsOK, QueueOK
<1>2. TypeOK' /\ QueueOK(Messages)' /\ Place' /\ Answered' /\ Evaluated' /\ Awaited'
  BY <1>1, ServerUntouched
<1>3. Ends'
  BY DEF Inv, Ends
<1>4. Told'
  BY DEF Inv, Told, ResultCorrect, Silent
<1>5. (serverUp => Exchange)'
  BY SameMessages
     DEF Inv, Exchange, Handshake, Silent, Asked, Replied, Gone, Have
<1>6. QED
  BY <1>2, <1>3, <1>4, <1>5 DEF Inv

\* A connection that comes up finds nothing on its way.
LEMMA ConnectKeepsInv == Inv /\ (Connect \/ Refused \/ RerunClient) => Inv'
<1> SUFFICES ASSUME Inv, Connect \/ Refused \/ RerunClient PROVE Inv'
  OBVIOUS
<1>1. QueueOK(Messages)' /\ Unsent' = Unsent
  <2>1. CASE Connect \/ Refused
    BY <2>1, ConnectKeepsQueue DEF Connect, Refused, Inv
  <2>2. CASE RerunClient
    BY <2>2 DEF RerunClient, Inv, QueueOK, TCPClientTypeOK, OneWriterPerQueue, SockStates,
                networkVars, Unsent
  <2>3. QED
    BY <2>1, <2>2
<1>2. /\ UNCHANGED <<c2s, s2c, heClientVars, serverVars>>
      /\ UNCHANGED networkVars \/ (link' = "up" /\ link # "lost")
  BY DEF Connect, Refused, RerunClient, ConnectSucceeds, ConnectFails, networkVars
<1>3. ToClient' = ToClient /\ ToServer' = ToServer
  BY <1>1, <1>2 DEF ToClient, ToServer, serverVars, sessionVars
<1>4. ChannelsOK'
  BY <1>1, <1>2, InvChannels DEF ChannelsOK, TCPSessionTypeOK, serverVars, sessionVars
<1>5. QED
  BY <1>2, <1>3, <1>4, NothingMoves

\* The client's handlers other than the callback.
LEMMA HandlerKeepsInv ==
  Inv /\ TCPClientStep /\ UNCHANGED <<heClientVars, serverVars>> => Inv'
<1> SUFFICES ASSUME Inv, TCPClientStep, UNCHANGED <<heClientVars, serverVars>> PROVE Inv'
  OBVIOUS
<1>1. QueueOK(Messages)' /\ Unsent' = Unsent /\ UNCHANGED networkVars
  BY StepKeepsQueue DEF Inv
<1>2. ToClient' = ToClient /\ ToServer' = ToServer
  BY <1>1 DEF ToClient, ToServer, serverVars, sessionVars, networkVars
<1>3. ChannelsOK'
  BY <1>1, InvChannels DEF ChannelsOK, TCPSessionTypeOK, serverVars, sessionVars
<1>4. QED
  BY <1>1, <1>2, <1>3, NothingMoves

\* A connection that breaks: what was under way is gone, and nobody will answer
\* it.
LEMMA LostKeepsInv == Inv /\ Lost => Inv'
<1> SUFFICES ASSUME Inv, Lost PROVE Inv'
  OBVIOUS
<1> USE DEF serverVars, sessionVars, mainVars, inputVars, keyVars, answerVars, heClientVars
<1>1. /\ ConnectionLost
      /\ UNCHANGED <<clientVars, heClientVars, serverVars>>
      /\ link' = "lost" /\ c2s' = <<>> /\ s2c' = <<>>
  BY DEF Lost, ConnectionLost
<1>2. /\ ChannelsOK'
      /\ ToServer = <<>> => ToServer' = <<>>
      /\ ToClient = <<>> => ToClient' = <<>>
      /\ Len(ToClient) = 1 => ToClient' \in {<<>>, ToClient}
  BY <1>1, InvChannels, LostTakes
<1>3. HESealClientTypeOK'
  BY <1>1, <1>2 DEF Inv, TypeOK, HESealClientTypeOK, ChannelsOK, QueueOK
<1>4. TypeOK' /\ QueueOK(Messages)' /\ Place' /\ Answered' /\ Evaluated' /\ Awaited'
  BY <1>1, <1>2, <1>3, ServerUntouched
<1>5. Ends'
  BY <1>1 DEF Ends
<1>6. Told'
  <2>1. ToClient' # <<>> => ToClient' = ToClient /\ ToClient # <<>>
    BY <1>2 DEF Inv, Told
  <2>2. QED
    BY <1>1, <1>2, <2>1 DEF Inv, Told, ResultCorrect, Silent
<1>7. (serverUp => Exchange)'
  <2>1. ToClient # <<>> => ToServer = <<>> /\ ToClient' \in {<<>>, ToClient}
    BY <1>2 DEF Inv, Told
  <2>2. /\ Request' = Request /\ Reply' = Reply /\ Slot' = Slot
    BY <1>1, SameMessages
  <2>3. QED
    BY <1>1, <1>2, <2>1, <2>2
       DEF Inv, Exchange, Handshake, Silent, Asked, Replied, Gone, Have
<1>8. QED
  BY <1>4, <1>5, <1>6, <1>7 DEF Inv

\* The kernel sends what the client has written, or drops it with a connection
\* that is lost.
LEMMA ClientSendsKeepsInv == Inv /\ ClientSends => Inv'
<1> SUFFICES ASSUME Inv, ClientSends PROVE Inv'
  OBVIOUS
<1> USE DEF serverVars, sessionVars, mainVars, inputVars, keyVars, answerVars, heClientVars
<1>1. /\ ClientTransmit
      /\ UNCHANGED <<link, s2c, heClientVars, serverVars>>
      /\ link # "up" => c2s' = c2s
  BY DEF ClientSends, ClientTransmit
<1>2. /\ ChannelsOK'
      /\ ToServer # <<>>
      /\ ToClient' = ToClient
      /\ link = "up" => ToServer' = ToServer
  BY <1>1, InvChannels, ClientTransmitMoves
<1>3. CASE link = "up"
  BY <1>1, <1>2, <1>3, NothingMoves
<1>4. CASE link # "up"
  <2>1. HESealClientTypeOK'
    BY <1>1, <1>2 DEF Inv, TypeOK, HESealClientTypeOK, ChannelsOK, QueueOK
  <2>2. TypeOK' /\ QueueOK(Messages)' /\ Place' /\ Answered' /\ Evaluated' /\ Awaited'
    BY <1>1, <1>2, <2>1, ServerUntouched
  <2>3. ToClient = <<>> /\ ToClient' = <<>>
    BY <1>2 DEF Inv, Told
  <2>4. Ends' /\ Told'
    BY <1>1, <1>2, <1>4, <2>3 DEF Inv, Ends, Told, ResultCorrect, Silent
  <2>5. ASSUME serverUp PROVE Exchange'
    <3>1. pc \in {"inputs", "answer"}
      BY <1>2, <2>5 DEF Inv, TypeOK, HESealExecutableTypeOK, MainStates, Place, Exchange,
                        Silent, Asked, Setting, Finished
    <3>2. link = "lost"
      BY <1>4, <2>5, <3>1 DEF Inv, Awaited, Ends, Told, Finished, QueueOK, TCPClientTypeOK,
                              LinkStates
    <3>3. /\ pc = "inputs" => m_client_inputs = <<>> /\ ioPc = "idle" /\ ~m_client_inputs_received
          /\ pc = "answer" => ~m_done[Slot]
      BY <1>2, <2>5 DEF Inv, Exchange, Handshake, Silent, Asked, Have
    <3>4. Gone' /\ Slot' = Slot
      BY <1>1, <2>3, <3>2, SameMessages DEF Gone
    <3>5. QED
      BY <1>1, <3>1, <3>3, <3>4 DEF Exchange, Handshake, Setting, Finished
  <2>6. QED
    BY <1>1, <2>2, <2>4, <2>5 DEF Inv
<1>5. QED
  BY <1>3, <1>4

\* The client answers a message with messages.
LEMMA AnswerType ==
  ASSUME NEW m \in Messages
  PROVE  Answer(m) \in Seq(Messages)
<1>1. /\ m.type \in MessageTypes /\ m.payload \in Payloads /\ m.number \in Nat
  BY DEF Messages
<1>2. ASSUME NEW fn \in OpKinds PROVE ActivateAll(fn, m.payload) \in Payloads
  <2>1. m.payload \in [1..Len(m.payload) -> Ciphers] /\ Len(m.payload) \in Nat
    BY <1>1, LenProperties DEF Payloads
  <2>2. ASSUME NEW c \in Ciphers PROVE [c EXCEPT !.fn = fn] \in Ciphers
    BY DEF Ciphers
  <2>3. ActivateAll(fn, m.payload) \in [1..Len(m.payload) -> Ciphers]
    BY <2>1, <2>2 DEF ActivateAll, Activate
  <2>4. QED
    BY <2>1, <2>3, SeqDef DEF Payloads
<1>3. Units("input", 0, 1, m.number) \in Payloads
  <2>1. /\ "input" \in {"input", "arg"} \cup OpKinds /\ 0 \in Nat /\ 1 \in Nat \ {0}
        /\ 1 <= m.number + 1
    BY <1>1
  <2>2. QED
    BY <1>1, <2>1, UnitsType
<1>4. <<>> \in Payloads /\ <<>> \in Seq(Messages)
  BY EmptySeq DEF Payloads
<1>5. ASSUME NEW t \in MessageTypes, NEW p \in Payloads PROVE Message(t, p) \in Messages
  BY DEF Message, Messages
<1>6. {"relu", "relu6", "max"} \subseteq OpKinds
  BY DEF OpKinds
<1>7. {"public_key", "eval_key", "execute", "relu_result", "max_result"} \subseteq MessageTypes
  BY DEF MessageTypes
<1>8. CASE m.type = "encryption_parameters"
  <2>1. Answer(m) = <<Message("public_key", <<>>), Message("eval_key", <<>>)>>
    BY <1>8 DEF Answer
  <2>2. QED
    BY <1>4, <1>5, <1>7, <2>1
<1>9. CASE m.type = "parameter_size"
  <2>1. Answer(m) = <<Message("execute", Units("input", 0, 1, m.number))>>
    BY <1>9 DEF Answer
  <2>2. QED
    BY <1>3, <1>5, <1>7, <2>1
<1>10. CASE m.type = "relu_request"
  <2>1. Answer(m) = <<Message("relu_result", ActivateAll("relu", m.payload))>>
    BY <1>10 DEF Answer
  <2>2. QED
    BY <1>2, <1>5, <1>6, <1>7, <2>1
<1>11. CASE m.type = "relu6_request"
  <2>1. Answer(m) = <<Message("relu_result", ActivateAll("relu6", m.payload))>>
    BY <1>11 DEF Answer
  <2>2. QED
    BY <1>2, <1>5, <1>6, <1>7, <2>1
<1>12. CASE m.type = "max_request"
  <2>1. Answer(m) = <<Message("max_result", ActivateAll("max", m.payload))>>
    BY <1>12 DEF Answer
  <2>2. QED
    BY <1>2, <1>5, <1>6, <1>7, <2>1
<1>13. CASE m.type \notin {"encryption_parameters", "parameter_size", "relu_request",
                           "relu6_request", "max_request"}
  BY <1>4, <1>13 DEF Answer
<1>14. QED
  BY <1>8, <1>9, <1>10, <1>11, <1>12, <1>13

\* The message callback: what the server asked for is answered, and the result
\* ends the exchange.
LEMMA HandleMessageKeepsInv == Inv /\ HandleMessage /\ UNCHANGED serverVars => Inv'
<1> SUFFICES ASSUME Inv, HandleMessage, UNCHANGED serverVars PROVE Inv'
  OBVIOUS
<1> USE DEF serverVars, sessionVars, mainVars, inputVars, keyVars, answerVars
<1> DEFINE m == Head(s2c)
<1>1. s2c # <<>> /\ ChannelsOK
  BY InvChannels DEF HandleMessage, ClientReadBody, ClientDataAvailable
<1>2. m \in Messages
  BY <1>1, ChannelTypes, HeadTailProperties
<1>3. /\ ClientReadBody(Answer(m), m.type = "result")
      /\ context' = (context \/ m.type = "encryption_parameters")
      /\ m_is_done' = (m_is_done \/ m.type = "result")
      /\ m_results' = IF m.type = "result" THEN m_results \o m.payload ELSE m_results
  BY DEF HandleMessage
<1> HIDE DEF m
<1>4. Answer(m) \in Seq(Messages) /\ (m.type = "result") \in BOOLEAN
  BY <1>2, AnswerType
<1>5. /\ ChannelsOK'
      /\ ToClient # <<>>
      /\ m = Head(ToClient)
      /\ ToClient' = Tail(ToClient)
      /\ ToServer = <<>> => ToServer' = Answer(m)
  BY <1>1, <1>3, <1>4, ClientReadTakes DEF m
<1>6. /\ ToServer = <<>> /\ ~m_is_done /\ Len(ToClient) = 1
      /\ m.type # "encryption_parameters" => context
      /\ m.type = "result" => /\ m.payload = FinalOutput
                              /\ m_client_inputs_received
                              /\ Len(outputs) = Len(Program)
  BY <1>5 DEF Inv, Told
<1>7. ToClient = <<m>> /\ ToClient' = <<>>
  <2>1. ToClient \in Seq(Messages)
    BY <1>1, ChannelTypes
  <2>2. QED
    BY <1>5, <1>6, <2>1, OneMessage
<1>8. link' = IF m.type = "result" /\ link = "up" THEN "clientShut" ELSE link
  BY <1>3 DEF ClientReadBody
<1>9. link # "lost" /\ link # "clientShut"
  BY <1>1, <1>6 DEF Inv, Ends
<1>10. m_results = <<>>
  BY <1>6 DEF Inv, Told, ResultCorrect, Silent
<1>11. m_results' = IF m.type = "result" THEN FinalOutput ELSE <<>>
  <2>1. <<>> \o FinalOutput = FinalOutput
    BY FinalOutputType, ConcatEmptySeq DEF Payloads
  <2>2. QED
    BY <1>3, <1>6, <1>10, <2>1
<1>12. HESealClientTypeOK'
  <2>1. m_results' \in Payloads
    BY <1>11, FinalOutputType, EmptySeq DEF Payloads
  <2>2. QED
    BY <1>3, <1>5, <2>1 DEF HESealClientTypeOK, ChannelsOK, QueueOK, Inv, TypeOK
<1>13. TypeOK' /\ QueueOK(Messages)' /\ Place' /\ Answered' /\ Evaluated' /\ Awaited'
  BY <1>3, <1>5, <1>8, <1>12, ServerUntouched
<1>14. Ends'
  BY <1>3, <1>8, <1>9 DEF Inv, Ends
<1>15. ASSUME serverUp, m.type = "result" PROVE pc \in Finished
  <2>1. m # Parameters /\ m # ParameterSizeMessage
    BY <1>15 DEF Parameters, ParameterSizeMessage, Message
  <2>2. pc # "inputs"
    BY <1>7, <1>15, <2>1 DEF Inv, Exchange, Handshake, Silent, Asked, Replied, Gone
  <2>3. pc # "answer"
    <3>1. pc = "answer" => Request.type # "result"
      BY InvChannels, RequestAnswer DEF Inv, Place, Requesting
    <3>2. pc = "answer" => m = Request
      BY <1>7, <1>15 DEF Inv, Exchange, Silent, Asked, Replied, Gone
    <3>3. QED
      BY <1>15, <3>1, <3>2
  <2>4. QED
    BY <1>7, <1>15, <2>2, <2>3 DEF Inv, TypeOK, HESealExecutableTypeOK, MainStates, Place,
                                   Exchange, Silent, Setting, Finished
<1>16. Told'
  BY <1>3, <1>6, <1>7, <1>11, <1>15 DEF Inv, Told, ResultCorrect, Silent
<1>17. ASSUME serverUp PROVE Exchange'
  <2>1. Request' = Request /\ Reply' = Reply /\ Slot' = Slot
    BY SameMessages
  <2>2. ToServer' = Answer(m)
    BY <1>5, <1>6
  <2>3. CASE pc = "inputs"
    <3>1. Handshake /\ ioPc = "idle" /\ ~m_client_inputs_received
      BY <1>7, <1>17, <2>3 DEF Inv, Exchange, Silent
    <3>2. CASE m = Parameters /\ Have(FALSE, FALSE, <<>>)
      <4>1. Replied(<<PublicKey, EvalKey>>)' /\ Have(FALSE, FALSE, <<>>)'
        BY <1>7, <2>2, <3>2, HandshakeAnswers DEF Replied, Have
      <4>2. context'
        BY <1>3, <3>2 DEF Parameters, Message
      <4>3. QED
        BY <2>3, <3>1, <4>1, <4>2 DEF Exchange, Handshake, Setting, Finished
    <3>3. CASE m = ParameterSizeMessage /\ Have(TRUE, TRUE, <<>>) /\ context
      <4>1. Replied(<<Execute>>)' /\ Have(TRUE, TRUE, <<>>)' /\ context'
        BY <1>3, <1>7, <2>2, <3>3, HandshakeAnswers DEF Replied, Have
      <4>2. QED
        BY <2>3, <3>1, <4>1 DEF Exchange, Handshake, Setting, Finished
    <3>4. QED
      BY <1>7, <3>1, <3>2, <3>3 DEF Handshake, Asked, Replied, Gone
  <2>4. CASE pc = "answer"
    <3>1. m = Request /\ ~m_done[Slot]
      BY <1>7, <1>17, <2>4 DEF Inv, Exchange, Silent, Asked, Replied, Gone
    <3>2. Answer(Request) = <<Reply>>
      BY <2>4, InvChannels, RequestAnswer DEF Inv, Place, Requesting
    <3>3. QED
      BY <1>7, <2>1, <2>2, <2>4, <3>1, <3>2 DEF Exchange, Replied, Setting, Finished
  <2>5. CASE pc \in Finished
    <3>1. m = Result
      BY <1>7, <1>17, <2>5 DEF Inv, Exchange, Silent, Asked
    <3>2. QED
      BY <1>7, <2>2, <2>5, <3>1, HandshakeAnswers DEF Exchange, Silent, Setting, Finished
  <2>6. pc \in {"inputs", "answer"} \cup Finished
    BY <1>7, <1>17 DEF Inv, TypeOK, HESealExecutableTypeOK, MainStates, Place, Exchange,
                       Silent, Setting, Finished
  <2>7. QED
    BY <2>3, <2>4, <2>5, <2>6
<1>18. QED
  BY <1>13, <1>14, <1>16, <1>17 DEF Inv

-----------------------------------------------------------------------------
(* The server's main thread.                                               *)

\* What a step of the server that moves no message keeps.
LEMMA ClientUntouched ==
  ASSUME Inv, UNCHANGED <<networkVars, sessionVars, clientVars, heClientVars, serverUp>>
  PROVE  /\ ChannelsOK' /\ HESealClientTypeOK' /\ QueueOK(Messages)'
         /\ ToClient' = ToClient /\ ToServer' = ToServer
         /\ Ends'
<1>1. ChannelsOK' /\ ToClient' = ToClient /\ ToServer' = ToServer
  BY InvChannels, SameChannels
<1>2. HESealClientTypeOK'
  BY <1>1 DEF Inv, TypeOK, HESealClientTypeOK, ChannelsOK, QueueOK, heClientVars
<1>3. Ends'
  BY DEF Inv, Ends, networkVars, heClientVars
<1>4. QED
  BY <1>1, <1>2, <1>3 DEF ChannelsOK

\* Nor is the client done, or written to, before the server has sent its result.
LEMMA StillAtWork ==
  ASSUME Inv, serverUp, pc \notin Finished
  PROVE  ~m_is_done
  BY DEF Inv, Told

\* The waits that are over, and the steps that only move the main thread on.
LEMMA MainMovesOn ==
  ASSUME Inv, serverUp,
         \/ StartServer
         \/ WaitForSession
         \/ WaitForClientInputs
         \/ ReadOutput
         \/ Destroy
         \/ SpuriousWakeup,
         UNCHANGED <<clientVars, heClientVars>>
  PROVE  Inv'
<1> USE DEF inputVars, keyVars, answerVars, sessionVars
<1>1. /\ UNCHANGED <<networkVars, sessionVars, op, first, outputs, ioPc, serverUp,
                     inputVars, keyVars, answerVars>>
      /\ \/ pc' = pc
         \/ pc = "construct" /\ pc' = "session"
         \/ pc = "session" /\ m_session_started /\ pc' = "parameters"
         \/ pc = "inputs" /\ m_client_inputs_received /\ pc' = "operations"
         \/ pc = "returned" /\ pc' = "outputRead"
         \/ pc = "outputRead" /\ pc' = "joining"
      /\ waiting' \in {waiting, "none", "session", "inputs"}
  BY DEF StartServer, WaitForSession, WaitForClientInputs, ReadOutput, Destroy,
         SpuriousWakeup, WaitFor
<1>2. /\ ChannelsOK' /\ HESealClientTypeOK' /\ QueueOK(Messages)'
      /\ ToClient' = ToClient /\ ToServer' = ToServer
      /\ Ends'
  BY <1>1, ClientUntouched
<1>3. TypeOK'
  BY <1>1, <1>2 DEF Inv, TypeOK, HESealExecutableTypeOK, TCPSessionTypeOK, MainStates,
                    Conditions, ChannelsOK
<1>4. Place'
  BY <1>1 DEF Inv, Place, Current, Setting, Requesting, Finished
<1>5. Answered'
  BY <1>1 DEF Inv, Answered, Current, Slot, Last, BatchEnd
<1>6. Evaluated'
  BY <1>1 DEF Inv, Evaluated, OutputsCorrect
<1>7. Awaited'
  BY <1>1 DEF Inv, Awaited, Setting, heClientVars, networkVars
<1>8. Told'
  <2>1. pc' \in {"operations", "set"} => Silent
    BY <1>1 DEF Inv, Told, Exchange, Handshake
  <2>2. QED
    BY <1>1, <1>2, <2>1 DEF Inv, Told, ResultCorrect, Silent, Finished, heClientVars
<1>9. Exchange'
  <2>1. Request' = Request /\ Reply' = Reply /\ Slot' = Slot
    BY <1>1, SameMessages
  <2>2. QED
    BY <1>1, <1>2, <2>1
       DEF Inv, Exchange, Handshake, Silent, Asked, Replied, Gone, Have, Setting, Finished,
           heClientVars, networkVars
<1>10. QED
  BY <1>2, <1>3, <1>4, <1>5, <1>6, <1>7, <1>8, <1>9 DEF Inv

\* One more output.
LEMMA OneMoreOutput ==
  ASSUME HESealExecutableTypeOK, Evaluated, op <= Len(Program),
         outputs' = Append(outputs, Output(op)), op' = op + 1
  PROVE  outputs' \in Seq(Payloads) /\ op' \in Nat \ {0} /\ Evaluated'
<1>1. outputs \in Seq(Payloads) /\ op \in Nat \ {0} /\ Output(op) \in Payloads
  BY CurrentType DEF HESealExecutableTypeOK
<1>2. /\ outputs' \in Seq(Payloads)
      /\ Len(outputs') = Len(outputs) + 1
      /\ \A k \in 1..Len(outputs) : outputs'[k] = outputs[k]
      /\ outputs'[Len(outputs) + 1] = Output(op)
  BY <1>1, AppendProperties
<1>3. Len(outputs) = op - 1 /\ \A k \in 1..Len(outputs) : outputs[k] = Output(k)
  BY <1>1, LenProperties DEF Evaluated, OutputsCorrect
<1>4. ASSUME NEW k \in 1..Len(outputs') PROVE outputs'[k] = Output(k)
  <2>1. CASE k <= Len(outputs)
    BY <1>1, <1>2, <1>3, <1>4, <2>1
  <2>2. CASE ~(k <= Len(outputs))
    <3>1. k = Len(outputs) + 1 /\ k = op
      BY <1>1, <1>2, <1>3, <1>4, <2>2, LenProperties
    <3>2. QED
      BY <1>2, <3>1
  <2>3. QED
    BY <2>1, <2>2
<1>5. \A k \in DOMAIN outputs' : outputs'[k] = Output(k)
  BY <1>2, <1>4, LenProperties
<1>6. (\A k \in DOMAIN outputs : outputs[k] = Output(k))'
  BY <1>5 DEF Output
<1>7. QED
  BY <1>1, <1>2, <1>3, <1>6 DEF Evaluated, OutputsCorrect

\* An operation done, by the server itself or with the answers of the client.
LEMMA OperationDone ==
  ASSUME Inv, serverUp, pc \in {"operations", "set"}, pc' = "operations",
         op <= Len(Program), outputs' = Append(outputs, Output(op)), op' = op + 1,
         UNCHANGED <<networkVars, sessionVars, clientVars, heClientVars, first, waiting, ioPc,
                     serverUp, inputVars, keyVars, answerVars>>
  PROVE  Inv'
<1> USE DEF inputVars, keyVars, answerVars, sessionVars
<1>1. /\ ChannelsOK' /\ HESealClientTypeOK' /\ QueueOK(Messages)'
      /\ ToClient' = ToClient /\ ToServer' = ToServer
      /\ Ends'
  BY ClientUntouched
<1>2. outputs' \in Seq(Payloads) /\ op' \in Nat \ {0} /\ Evaluated'
  BY InvChannels, OneMoreOutput DEF Inv
<1>3. TypeOK'
  BY <1>1, <1>2 DEF Inv, TypeOK, HESealExecutableTypeOK, TCPSessionTypeOK, MainStates,
                    ChannelsOK
<1>4. Place'
  <2>1. op \in Nat /\ Len(Program) \in Nat
    BY ProgramAssumption, LenProperties DEF Inv, TypeOK, HESealExecutableTypeOK
  <2>2. QED
    BY <2>1 DEF Inv, Place, Setting, Requesting, Finished
<1>5. Answered'
  BY DEF Inv, Answered
<1>6. Awaited'
  BY DEF Inv, Awaited, Setting, heClientVars, networkVars
<1>7. Silent /\ ~m_is_done
  BY StillAtWork DEF Inv, Exchange, Finished
<1>8. Told'
  BY <1>1, <1>7 DEF Inv, Told, ResultCorrect, Silent, heClientVars
<1>9. Exchange'
  BY <1>1, <1>7 DEF Exchange, Silent, Setting, Finished
<1>10. QED
  BY <1>1, <1>2, <1>3, <1>4, <1>5, <1>6, <1>8, <1>9 DEF Inv

\* An operation the server computes by itself.
LEMMA EvaluateLocallyKeepsInv ==
  ASSUME Inv, serverUp, EvaluateLocally, UNCHANGED <<clientVars, heClientVars>>
  PROVE  Inv'
  BY OperationDone DEF EvaluateLocally

\* The loop over the requests starts with no answer.
LEMMA BeginRequestsKeepsInv ==
  ASSUME Inv, serverUp, BeginRequests, UNCHANGED <<clientVars, heClientVars>>
  PROVE  Inv'
<1> USE DEF inputVars, keyVars, sessionVars, BeginRequests
<1>1. /\ ChannelsOK' /\ HESealClientTypeOK' /\ QueueOK(Messages)'
      /\ ToClient' = ToClient /\ ToServer' = ToServer
      /\ Ends'
  BY ClientUntouched
<1>2. /\ Current.kind \in OpKinds /\ Current.units \in Nat \ {0} /\ Slot \in Slots
      /\ op \in Nat
  BY InvChannels, CurrentType DEF HESealExecutableTypeOK
<1>3. /\ m_ciphertexts' \in [Slots -> Payloads]
      /\ m_ciphertexts'[Slot] = <<>>
  BY <1>2, EmptySeq DEF Inv, TypeOK, HESealExecutableTypeOK, Payloads
<1>4. TypeOK'
  BY <1>1, <1>3 DEF Inv, TypeOK, HESealExecutableTypeOK, TCPSessionTypeOK, MainStates,
                    ChannelsOK
<1>5. Current' = Current /\ Slot' = Slot
  BY DEF Current, Slot
<1>6. Place'
  BY <1>2, <1>5 DEF Inv, Place, Setting, Requesting, Finished
<1>7. Answered'
  <2>1. Units(Current.kind, op, 1, 0) = <<>>
    BY <1>2, UnitsEmpty
  <2>2. first' - 1 = 0
    OBVIOUS
  <2>3. m_ciphertexts'[Slot'] = Units(Current'.kind, op', 1, first' - 1)
    BY <1>3, <1>5, <2>1, <2>2
  <2>4. QED
    BY <2>3 DEF Inv, Answered
<1>8. Evaluated'
  BY DEF Inv, Evaluated, OutputsCorrect
<1>9. Awaited'
  BY DEF Inv, Awaited, Setting, heClientVars, networkVars
<1>10. Silent /\ ~m_is_done
  BY StillAtWork DEF Inv, Exchange, Finished
<1>11. Told' /\ Exchange'
  BY <1>1, <1>10 DEF Inv, Told, ResultCorrect, Exchange, Silent, Setting, Finished, heClientVars
<1>12. QED
  BY <1>1, <1>4, <1>6, <1>7, <1>8, <1>9, <1>11 DEF Inv

\* The wait for an answer: its turn ends with all the answers so far in place.
LEMMA WaitForAnswerKeepsInv ==
  ASSUME Inv, serverUp, WaitForAnswer, UNCHANGED <<clientVars, heClientVars>>
  PROVE  Inv'
<1> USE DEF inputVars, keyVars, sessionVars, WaitForAnswer
<1>1. /\ ChannelsOK' /\ HESealClientTypeOK' /\ QueueOK(Messages)'
      /\ ToClient' = ToClient /\ ToServer' = ToServer
      /\ Ends'
  BY ClientUntouched
<1>2. /\ op <= Len(Program) /\ Current.kind # "local" /\ first <= Current.units
      /\ op \in Nat \ {0} /\ first \in Nat \ {0}
      /\ m_done \in [Slots -> BOOLEAN]
      /\ HESealExecutableTypeOK
  BY InvChannels DEF Inv, Place, Requesting, HESealExecutableTypeOK
<1>3. /\ Last \in Nat \ {0} /\ first <= Last /\ Last <= Current.units
      /\ Current.units \in Nat \ {0} /\ Slot \in Slots
  BY <1>2, CurrentType, LastType
<1>4. Current' = Current /\ Slot' = Slot
  BY DEF Current, Slot
<1>5. /\ m_done' \in [Slots -> BOOLEAN]
      /\ \A s \in Slots : ~m_done'[s]
  BY <1>2 DEF Inv, Answered
<1>6. /\ m_done[Slot] => pc' = (IF Last = Current.units THEN "set" ELSE "request")
      /\ ~m_done[Slot] => pc' = "answer"
      /\ waiting' \in {waiting, Slot}
      /\ first' = IF m_done[Slot] /\ Last # Current.units THEN Last + 1 ELSE first
  BY DEF WaitFor
<1>7. first' \in Nat \ {0} /\ (pc' # "set" => first' <= Current.units)
  BY <1>2, <1>3, <1>6
<1>8. TypeOK'
  BY <1>1, <1>3, <1>5, <1>6, <1>7
     DEF Inv, TypeOK, HESealExecutableTypeOK, TCPSessionTypeOK, MainStates, Conditions, ChannelsOK
<1>9. Place'
  BY <1>2, <1>4, <1>6, <1>7 DEF Inv, Place, Setting, Requesting, Finished
<1>10. Answered'
  <2>1. m_ciphertexts'[Slot'] = m_ciphertexts[Slot]
    BY <1>4
  <2>2. CASE m_done[Slot] /\ Last = Current.units
    <3>1. m_ciphertexts[Slot] = Output(op)
      BY <2>2 DEF Inv, Answered, Output, Current
    <3>2. pc' = "set" /\ op' = op
      BY <1>6, <2>2
    <3>3. QED
      BY <1>5, <2>1, <3>1, <3>2 DEF Answered, Output
  <2>3. CASE m_done[Slot] /\ Last # Current.units
    <3>1. m_ciphertexts[Slot] = Units(Current.kind, op, 1, Last)
      BY <2>3 DEF Inv, Answered
    <3>2. pc' = "request" /\ op' = op /\ first' - 1 = Last
      BY <1>3, <1>6, <2>3
    <3>3. QED
      BY <1>4, <1>5, <2>1, <3>1, <3>2 DEF Answered
  <2>4. CASE ~m_done[Slot]
    <3>1. m_ciphertexts[Slot] = Units(Current.kind, op, 1, first - 1)
      BY <2>4 DEF Inv, Answered
    <3>2. pc' = "answer" /\ op' = op /\ first' = first
      BY <1>6, <2>4
    <3>3. ~m_done'[Slot']
      BY <1>3, <1>4, <1>5
    <3>4. QED
      BY <1>4, <1>5, <2>1, <3>1, <3>2, <3>3 DEF Answered
  <2>5. QED
    BY <2>2, <2>3, <2>4
<1>11. Evaluated'
  BY DEF Inv, Evaluated, OutputsCorrect
<1>12. Awaited'
  BY <1>6 DEF Inv, Awaited, Setting, heClientVars, networkVars
<1>13. Told'
  <2>1. ~m_is_done
    BY StillAtWork DEF Finished
  <2>2. pc' \in {"operations", "set"} => Silent
    BY <1>6 DEF Inv, Exchange
  <2>3. QED
    BY <1>1, <2>1, <2>2 DEF Inv, Told, ResultCorrect, Silent, heClientVars
<1>14. Exchange'
  <2>1. CASE m_done[Slot]
    <3>1. Silent'
      BY <1>1, <2>1 DEF Inv, Exchange, Silent
    <3>2. QED
      BY <1>6, <2>1, <3>1 DEF Exchange, Setting, Finished
  <2>2. CASE ~m_done[Slot]
    <3>1. Request' = Request /\ Reply' = Reply
      BY <1>6, <2>2, SameMessages
    <3>2. (Asked(Request) \/ Replied(<<Reply>>) \/ Gone)'
      BY <1>1, <2>2, <3>1 DEF Inv, Exchange, Asked, Replied, Gone, networkVars
    <3>3. pc' = "answer" /\ ~m_done'[Slot']
      BY <1>3, <1>4, <1>5, <1>6, <2>2
    <3>4. QED
      BY <3>2, <3>3 DEF Exchange, Setting, Finished
  <2>3. QED
    BY <2>1, <2>2
<1>15. QED
  BY <1>1, <1>8, <1>9, <1>10, <1>11, <1>12, <1>13, <1>14 DEF Inv

\* set_elements finds as many answers as elements.
LEMMA SetElementsKeepsInv ==
  ASSUME Inv, serverUp, SetElements, UNCHANGED <<clientVars, heClientVars>>
  PROVE  Inv'
<1>1. op <= Len(Program) /\ m_ciphertexts[Slot] = Output(op)
  BY DEF SetElements, Inv, Place, Requesting, Answered
<1>2. Len(m_ciphertexts[Slot]) = Current.units
  BY <1>1, InvChannels, CurrentType
<1>3. /\ pc' = "operations" /\ outputs' = Append(outputs, Output(op)) /\ op' = op + 1
      /\ UNCHANGED <<networkVars, sessionVars, first, waiting, ioPc, serverUp,
                     inputVars, keyVars, answerVars>>
  BY <1>1, <1>2 DEF SetElements
<1>4. QED
  BY <1>1, <1>3, OperationDone DEF SetElements

\* What the main thread writes, when nothing is on its way: it is all the client
\* has to hear, or the connection is lost.
LEMMA MainWrites ==
  ASSUME Inv, serverUp, Silent, NEW m \in Messages, do_write(m),
         pc \notin {"construct", "session"} \cup Finished,
         UNCHANGED <<link, c2s, sRead, clientVars, heClientVars, ioPc, serverUp>>
  PROVE  /\ ChannelsOK' /\ HESealClientTypeOK' /\ QueueOK(Messages)'
         /\ ToClient' = <<m>> \/ (ToClient' = <<>> /\ link = "lost")
         /\ ToServer' = <<>>
         /\ Ends'
         /\ ~m_is_done /\ ~m_is_done'
<1>1. ~m_is_done /\ ~m_is_done'
  BY StillAtWork DEF heClientVars
<1>2. ChannelsOK /\ c2s' \in Seq(Messages) /\ sRead' \in {"none", "header", "body"}
  BY InvChannels, ChannelTypes DEF ChannelsOK, TCPSessionTypeOK
<1>3. /\ ChannelsOK'
      /\ Unsent' = Unsent
      /\ s2c' = s2c \/ link = "up"
      /\ ToClient' = <<m>> \/ (ToClient' = <<>> /\ link # "up")
  BY <1>2, DoWriteAdds DEF Silent
<1>4. link \in {"up", "lost"}
  BY <1>1 DEF Inv, Awaited, Ends, QueueOK, TCPClientTypeOK, LinkStates
<1>5. ToServer' = <<>>
  BY <1>3 DEF Silent, ToServer
<1>6. HESealClientTypeOK'
  BY <1>3 DEF Inv, TypeOK, HESealClientTypeOK, ChannelsOK, QueueOK, heClientVars
<1>7. Ends'
  BY <1>3 DEF Inv, Ends, heClientVars
<1>8. QED
  BY <1>1, <1>3, <1>4, <1>5, <1>6, <1>7 DEF ChannelsOK

\* The constructor tells the client the encryption parameters.
LEMMA SendEncryptionParametersKeepsInv ==
  ASSUME Inv, serverUp, SendEncryptionParameters, UNCHANGED <<clientVars, heClientVars>>
  PROVE  Inv'
<1> USE DEF inputVars, keyVars, answerVars
<1>0. /\ pc = "parameters" /\ pc' = "inputs"
      /\ UNCHANGED <<link, c2s, sRead, op, first, waiting, outputs, ioPc, serverUp,
                     inputVars, keyVars, answerVars>>
  BY DEF SendEncryptionParameters
<1> USE <1>0
<1>1. Silent
  BY DEF Inv, Exchange, Setting
<1>2. do_write(Parameters) /\ Parameters \in Messages
  BY HandshakeMessages DEF SendEncryptionParameters, Parameters
<1>3. /\ ChannelsOK' /\ HESealClientTypeOK' /\ QueueOK(Messages)'
      /\ ToClient' = <<Parameters>> \/ (ToClient' = <<>> /\ link = "lost")
      /\ ToServer' = <<>>
      /\ Ends'
      /\ ~m_is_done /\ ~m_is_done'
  BY <1>1, <1>2, MainWrites DEF Finished
<1>4. TypeOK'
  BY <1>3 DEF Inv, TypeOK, HESealExecutableTypeOK, MainStates, ChannelsOK
<1>5. Place'
  BY DEF Inv, Place, Current, Setting, Requesting, Finished
<1>6. Answered'
  BY DEF Inv, Answered
<1>7. Evaluated'
  BY DEF Inv, Evaluated, OutputsCorrect
<1>8. Awaited'
  BY DEF Inv, Awaited, Setting, heClientVars
<1>9. Told'
  <2>1. Parameters.type = "encryption_parameters"
    BY DEF Parameters, Message
  <2>2. <<Parameters>> # <<>> /\ Head(<<Parameters>>) = Parameters /\ Len(<<Parameters>>) = 1
    OBVIOUS
  <2>3. QED
    BY <1>3, <2>1, <2>2 DEF Inv, Told, ResultCorrect, Silent, heClientVars
<1>10. Exchange'
  BY <1>3 DEF Inv, Awaited, Exchange, Handshake, Asked, Silent, Gone, Have, Setting, Finished
<1>11. QED
  BY <1>3, <1>4, <1>5, <1>6, <1>7, <1>8, <1>9, <1>10 DEF Inv

\* A request for the next units of the operation under way.
LEMMA SendRequestKeepsInv ==
  ASSUME Inv, serverUp, SendRequest, UNCHANGED <<clientVars, heClientVars>>
  PROVE  Inv'
<1> USE DEF inputVars, keyVars, answerVars, SendRequest
<1>1. Silent
  BY DEF Inv, Exchange
<1>2. /\ Request \in Messages
      /\ Request.type \in {"relu_request", "relu6_request", "max_request"}
      /\ Slot \in Slots
  BY InvChannels, RequestAnswer, CurrentType DEF Inv, Place, Requesting
<1>3. /\ ChannelsOK' /\ HESealClientTypeOK' /\ QueueOK(Messages)'
      /\ ToClient' = <<Request>> \/ (ToClient' = <<>> /\ link = "lost")
      /\ ToServer' = <<>>
      /\ Ends'
      /\ ~m_is_done /\ ~m_is_done'
  BY <1>1, <1>2, MainWrites DEF Finished
<1>4. Request' = Request /\ Reply' = Reply /\ Slot' = Slot /\ Current' = Current
  BY SameMessages
<1>5. ~m_done[Slot]
  BY <1>2 DEF Inv, Answered
<1>6. TypeOK'
  BY <1>3 DEF Inv, TypeOK, HESealExecutableTypeOK, MainStates, ChannelsOK
<1>7. Place'
  BY <1>4 DEF Inv, Place, Setting, Requesting, Finished
<1>8. Answered'
  BY <1>4, <1>5 DEF Inv, Answered
<1>9. Evaluated'
  BY DEF Inv, Evaluated, OutputsCorrect
<1>10. Awaited'
  BY DEF Inv, Awaited, Setting, heClientVars
<1>11. Told'
  <2>1. <<Request>> # <<>> /\ Head(<<Request>>) = Request /\ Len(<<Request>>) = 1
    OBVIOUS
  <2>2. context'
    BY DEF Inv, Awaited, Setting, heClientVars
  <2>3. ToClient' # <<>> => ToClient' = <<Request>> /\ ToServer' = <<>>
    BY <1>3
  <2>4. QED
    BY <1>2, <1>3, <2>1, <2>2, <2>3 DEF Inv, Told, ResultCorrect, Silent, heClientVars
<1>12. Exchange'
  BY <1>3, <1>4, <1>5 DEF Exchange, Asked, Silent, Gone, Setting, Finished
<1>13. QED
  BY <1>3, <1>6, <1>7, <1>8, <1>9, <1>10, <1>11, <1>12 DEF Inv

\* What is sent in the end is the value of the function.
LEMMA SendResultSends ==
  ASSUME Inv, SendResult
  PROVE  do_write(Result) /\ Result \in Messages
<1> USE DEF SendResult
<1>1. /\ outputs \in Seq(Payloads) /\ op \in Nat \ {0} /\ Len(Program) \in Nat
      /\ op = Len(Program) + 1 /\ Len(outputs) = Len(Program)
  <2>1. outputs \in Seq(Payloads) /\ op \in Nat \ {0} /\ Len(Program) \in Nat
    BY ProgramAssumption, LenProperties DEF Inv, TypeOK, HESealExecutableTypeOK
  <2>2. op = Len(Program) + 1
    BY <2>1 DEF Inv, Place
  <2>3. QED
    BY <2>1, <2>2 DEF Inv, Evaluated
<1>2. (IF outputs = <<>> THEN m_client_inputs ELSE outputs[Len(outputs)]) = FinalOutput
  <2>1. CASE outputs = <<>>
    <3>1. Program = <<>>
      BY <1>1, <2>1, ProgramAssumption, EmptySeq
    <3>2. m_client_inputs = Inputs
      BY DEF Inv, Awaited, Setting
    <3>3. QED
      BY <2>1, <3>1, <3>2 DEF FinalOutput
  <2>2. CASE outputs # <<>>
    <3>1. Len(outputs) \in DOMAIN outputs /\ Program # <<>>
      BY <1>1, <2>2, EmptySeq, LenProperties
    <3>2. outputs[Len(outputs)] = Output(Len(outputs))
      BY <3>1 DEF Inv, Evaluated, OutputsCorrect
    <3>3. QED
      BY <1>1, <2>2, <3>1, <3>2 DEF FinalOutput
  <2>3. QED
    BY <2>1, <2>2
<1>3. QED
  BY <1>2, HandshakeMessages DEF Result

LEMMA SendResultKeepsInv ==
  ASSUME Inv, serverUp, SendResult, UNCHANGED <<clientVars, heClientVars>>
  PROVE  Inv'
<1> USE DEF inputVars, keyVars, answerVars, SendResult
<1>1. Silent
  BY DEF Inv, Exchange
<1>2. /\ outputs \in Seq(Payloads) /\ op \in Nat \ {0} /\ Len(Program) \in Nat
      /\ op = Len(Program) + 1 /\ Len(outputs) = Len(Program)
  <2>1. outputs \in Seq(Payloads) /\ op \in Nat \ {0} /\ Len(Program) \in Nat
    BY ProgramAssumption, LenProperties DEF Inv, TypeOK, HESealExecutableTypeOK
  <2>2. op = Len(Program) + 1
    BY <2>1 DEF Inv, Place
  <2>3. QED
    BY <2>1, <2>2 DEF Inv, Evaluated
<1>4. do_write(Result) /\ Result \in Messages
  BY SendResultSends
<1>5. /\ ChannelsOK' /\ HESealClientTypeOK' /\ QueueOK(Messages)'
      /\ ToClient' = <<Result>> \/ (ToClient' = <<>> /\ link = "lost")
      /\ ToServer' = <<>>
      /\ Ends'
      /\ ~m_is_done /\ ~m_is_done'
  BY <1>1, <1>4, MainWrites DEF Finished
<1>6. TypeOK'
  BY <1>5 DEF Inv, TypeOK, HESealExecutableTypeOK, MainStates, ChannelsOK
<1>7. Place'
  BY <1>2 DEF Inv, Place, Setting, Requesting, Finished
<1>8. Answered'
  BY DEF Inv, Answered
<1>9. Evaluated'
  BY DEF Inv, Evaluated, OutputsCorrect
<1>10. Awaited'
  BY DEF Inv, Awaited, Setting, heClientVars
<1>11. Told'
  <2>1. <<Result>> # <<>> /\ Head(<<Result>>) = Result /\ Len(<<Result>>) = 1
    OBVIOUS
  <2>2. context' /\ m_client_inputs_received'
    BY DEF Inv, Awaited, Setting, heClientVars
  <2>3. Result.payload = FinalOutput
    BY DEF Result, Message
  <2>4. ToClient' # <<>> => ToClient' = <<Result>> /\ ToServer' = <<>>
    BY <1>5
  <2>5. QED
    BY <1>2, <1>5, <2>1, <2>2, <2>3, <2>4 DEF Inv, Told, ResultCorrect, Silent, heClientVars
<1>12. Exchange'
  BY <1>5 DEF Exchange, Asked, Silent, Setting, Finished
<1>13. QED
  BY <1>5, <1>6, <1>7, <1>8, <1>9, <1>10, <1>11, <1>12 DEF Inv

\* A server that terminates takes its writes with it.
LEMMA TerminateKeepsInv ==
  ASSUME Inv, Terminate, UNCHANGED <<clientVars, heClientVars>>
  PROVE  Inv'
<1> USE DEF inputVars, keyVars, answerVars, mainVars, Terminate
<1>1. /\ c2s \in Seq(Messages) /\ s2c \in Seq(Messages) /\ sWrites \in Seq(Messages)
      /\ <<>> \in Seq(Messages)
  BY InvChannels, ChannelTypes, EmptySeq
<1>2. /\ link' \in LinkStates /\ (link # "none" => link' # "none")
      /\ link' = "lost" => link = "lost"
      /\ link' = "clientShut" => link = "clientShut"
  BY DEF Inv, QueueOK, TCPClientTypeOK, LinkStates
<1>3. QueueOK(Messages)' /\ Unsent' = Unsent
  BY <1>1, <1>2, OthersKeepQueue DEF Inv
<1>4. ToServer' = ToServer /\ ToClient' = s2c
  BY <1>1, <1>3, ConcatEmptySeq DEF ToServer, ToClient
<1>5. ToClient' # <<>> => ToClient' = ToClient /\ ToClient # <<>>
  <2>1. ASSUME s2c # <<>> PROVE ToClient # <<>> /\ ToClient = s2c
    <3>1. ToClient # <<>>
      BY <1>1, <2>1, ConcatEqualIffEmpty DEF ToClient
    <3>2. Len(s2c) + Len(sWrites) = 1
      BY <1>1, <3>1, ConcatProperties DEF Inv, Told, ToClient
    <3>3. Len(s2c) \in Nat /\ Len(sWrites) \in Nat /\ Len(s2c) # 0
      BY <1>1, <2>1, EmptySeq, LenProperties
    <3>4. \A a, b \in Nat : a + b = 1 /\ a # 0 => b = 0
      OBVIOUS
    <3>5. Len(sWrites) = 0
      BY <3>2, <3>3, <3>4
    <3>6. sWrites = <<>>
      BY <1>1, <3>5, EmptySeq
    <3>7. QED
      BY <1>1, <3>1, <3>6, ConcatEmptySeq DEF ToClient
  <2>2. QED
    BY <1>4, <2>1
<1>6. TypeOK'
  BY <1>1, <1>3 DEF Inv, TypeOK, HESealClientTypeOK, HESealExecutableTypeOK,
                    TCPSessionTypeOK, QueueOK, heClientVars
<1>7. Place'
  BY DEF Inv, Place, Current
<1>8. Answered'
  BY DEF Inv, Answered, Current, Slot, Last, BatchEnd
<1>9. Evaluated'
  BY DEF Inv, Evaluated, OutputsCorrect
<1>10. Awaited'
  BY <1>2 DEF Inv, Awaited, heClientVars
<1>11. Ends'
  BY <1>2 DEF Inv, Ends, heClientVars
<1>12. Told'
  BY <1>4, <1>5 DEF Inv, Told, ResultCorrect, Silent, heClientVars
<1>13. QED
  BY <1>3, <1>6, <1>7, <1>8, <1>9, <1>10, <1>11, <1>12 DEF Inv

\* The main thread.
LEMMA MainKeepsInv == Inv /\ Main => Inv'
<1> SUFFICES ASSUME Inv, serverUp, MainThread, UNCHANGED <<clientVars, heClientVars>> PROVE Inv'
  BY DEF Main, MainThread
<1>1. CASE StartServer \/ WaitForSession \/ WaitForClientInputs \/ ReadOutput \/ Destroy
  BY <1>1, MainMovesOn
<1>2. CASE SendEncryptionParameters
  BY <1>2, SendEncryptionParametersKeepsInv
<1>3. CASE EvaluateLocally
  BY <1>3, EvaluateLocallyKeepsInv
<1>4. CASE BeginRequests
  BY <1>4, BeginRequestsKeepsInv
<1>5. CASE SendRequest
  BY <1>5, SendRequestKeepsInv
<1>6. CASE ReluThrows
  BY <1>6, TerminateKeepsInv DEF ReluThrows
<1>7. CASE WaitForAnswer
  BY <1>7, WaitForAnswerKeepsInv
<1>8. CASE SetElements
  BY <1>8, SetElementsKeepsInv
<1>9. CASE SendResult
  BY <1>9, SendResultKeepsInv
<1>10. QED
  BY <1>1, <1>2, <1>3, <1>4, <1>5, <1>6, <1>7, <1>8, <1>9 DEF MainThread

-----------------------------------------------------------------------------
(* The server's io thread, and what the kernel sends for it.               *)

\* A step of the io thread between the main thread's waits and the messages of
\* the client.
LEMMA IoMovesOn ==
  ASSUME Inv, serverUp, Accept \/ NotifySession \/ ReadHeader \/ NotifyInputs,
         UNCHANGED <<clientVars, heClientVars>>
  PROVE  Inv'
<1> USE DEF inputVars, keyVars, answerVars, mainVars, sessionVars
<1>1. /\ UNCHANGED <<networkVars, sWrites, pc, op, first, outputs, serverUp,
                     m_client_inputs, keyVars, answerVars>>
      /\ sRead' \in {"none", "header", "body"}
      /\ waiting' \in {waiting, "none"}
      /\ \/ /\ ioPc = "accepting" /\ link # "none" /\ ioPc' = "accepted"
            /\ UNCHANGED <<m_session_started, m_client_inputs_received>>
         \/ /\ ioPc = "accepted" /\ ioPc' = "idle" /\ m_session_started'
            /\ m_session_started' \in BOOLEAN
            /\ UNCHANGED m_client_inputs_received
         \/ UNCHANGED <<ioPc, m_session_started, m_client_inputs_received>>
         \/ /\ ioPc = "inputs" /\ ioPc' = "idle" /\ m_client_inputs_received'
            /\ m_client_inputs_received' \in BOOLEAN
            /\ UNCHANGED m_session_started
  <2>1. CASE Accept
    BY <2>1 DEF Accept, Start
  <2>2. CASE NotifySession
    BY <2>2 DEF NotifySession, NotifyAll, Inv, TypeOK, HESealExecutableTypeOK, TCPSessionTypeOK
  <2>3. CASE ReadHeader
    BY <2>3 DEF ReadHeader, ServerReadHeader
  <2>4. CASE NotifyInputs
    BY <2>4 DEF NotifyInputs, NotifyAll, Start
  <2>5. QED
    BY <2>1, <2>2, <2>3, <2>4
<1>2. ChannelsOK' /\ ToClient' = ToClient /\ ToServer' = ToServer
  <2>1. QueueOK(Messages)' /\ Unsent' = Unsent
    BY <1>1, OthersKeepQueue DEF Inv, QueueOK, TCPClientTypeOK, networkVars
  <2>2. QED
    BY <1>1, <2>1, InvChannels
       DEF ChannelsOK, TCPSessionTypeOK, networkVars, ToClient, ToServer
<1>3. TypeOK'
  BY <1>1, <1>2 DEF Inv, TypeOK, HESealClientTypeOK, HESealExecutableTypeOK,
                    TCPSessionTypeOK, Conditions, ChannelsOK, QueueOK, heClientVars
<1>4. Place'
  BY <1>1 DEF Inv, Place, Current
<1>5. Answered'
  BY <1>1 DEF Inv, Answered, Current, Slot, Last, BatchEnd
<1>6. Evaluated'
  BY <1>1 DEF Inv, Evaluated, OutputsCorrect
<1>7. ioPc = "inputs" => /\ pc = "inputs" /\ Silent /\ Have(TRUE, TRUE, Inputs) /\ context
                         /\ ~m_client_inputs_received
  BY DEF Inv, Awaited, Exchange
<1>8. Awaited'
  BY <1>1, <1>7 DEF Inv, Awaited, Have, Setting, heClientVars, networkVars
<1>9. Ends'
  BY <1>1 DEF Inv, Ends, heClientVars, networkVars
<1>10. Told'
  BY <1>1, <1>2 DEF Inv, Told, ResultCorrect, Silent, heClientVars
<1>11. Exchange'
  <2>1. Request' = Request /\ Reply' = Reply /\ Slot' = Slot
    BY <1>1, SameMessages
  <2>2. CASE ioPc = "inputs" /\ ioPc' = "idle"
    <3>1. (Silent /\ Have(TRUE, TRUE, Inputs) /\ context)' /\ m_client_inputs_received'
      BY <1>1, <1>2, <1>7, <2>2 DEF Silent, Have, heClientVars
    <3>2. QED
      BY <1>1, <1>7, <2>2, <3>1 DEF Exchange, Setting, Finished
  <2>3. CASE ioPc' = ioPc /\ UNCHANGED m_client_inputs_received
    BY <1>1, <1>2, <2>1, <2>3
       DEF Inv, Exchange, Handshake, Silent, Asked, Replied, Gone, Have, Setting, Finished,
           heClientVars, networkVars
  <2>4. CASE ioPc \in {"accepting", "accepted"}
    <3>1. pc \in {"construct", "session"}
      BY <2>4 DEF Inv, Awaited
    <3>2. QED
      BY <1>1, <1>2, <3>1 DEF Inv, Exchange, Silent, Setting, Finished
  <2>5. QED
    BY <1>1, <2>2, <2>3, <2>4
<1>12. QED
  BY <1>2, <1>3, <1>4, <1>5, <1>6, <1>8, <1>9, <1>10, <1>11 DEF Inv, ChannelsOK

\* What the server can read is what the exchange is at.
LEMMA ServerCanHear ==
  ASSUME Inv, serverUp, ServerDataAvailable
  PROVE  /\ link = "up" /\ ~m_is_done
         /\ ToClient = <<>>
         /\ Head(c2s) = Head(ToServer)
         /\ \/ /\ pc = "inputs" /\ ioPc = "idle" /\ ~m_client_inputs_received /\ context
               /\ \/ ToServer = <<PublicKey, EvalKey>> /\ Have(FALSE, FALSE, <<>>)
                  \/ ToServer = <<EvalKey>> /\ Have(TRUE, FALSE, <<>>)
                  \/ ToServer = <<Execute>> /\ Have(TRUE, TRUE, <<>>)
            \/ pc = "answer" /\ ToServer = <<Reply>> /\ ~m_done[Slot]
<1>1. ToServer # <<>> /\ Head(c2s) = Head(ToServer) /\ c2s # <<>>
  BY InvChannels, ChannelTypes, TakeHead DEF ServerDataAvailable, ToServer
<1>2. pc \in {"inputs", "answer"}
  BY <1>1 DEF Inv, TypeOK, HESealExecutableTypeOK, MainStates, Place, Exchange,
              Silent, Asked, Setting, Finished
<1>3. link = "up" /\ ~m_is_done
  <2>1. ~m_is_done
    BY <1>2, StillAtWork DEF Finished
  <2>2. QED
    BY <1>1, <1>2, <2>1 DEF Inv, Awaited, Ends, QueueOK, TCPClientTypeOK, LinkStates
<1>4. CASE pc = "inputs"
  BY <1>1, <1>3, <1>4 DEF Inv, Exchange, Handshake, Silent, Asked, Replied, Gone
<1>5. CASE pc = "answer"
  BY <1>1, <1>3, <1>5 DEF Inv, Exchange, Silent, Asked, Replied, Gone
<1>6. QED
  BY <1>1, <1>2, <1>3, <1>4, <1>5

\* And so when a handler reads it.
LEMMA ServerHears ==
  ASSUME Inv, serverUp, ServerReadBody
  PROVE  /\ link = "up" /\ ~m_is_done
         /\ ToClient = <<>>
         /\ Head(c2s) = Head(ToServer)
         /\ \/ /\ pc = "inputs" /\ ioPc = "idle" /\ ~m_client_inputs_received /\ context
               /\ \/ ToServer = <<PublicKey, EvalKey>> /\ Have(FALSE, FALSE, <<>>)
                  \/ ToServer = <<EvalKey>> /\ Have(TRUE, FALSE, <<>>)
                  \/ ToServer = <<Execute>> /\ Have(TRUE, TRUE, <<>>)
            \/ pc = "answer" /\ ToServer = <<Reply>> /\ ~m_done[Slot]
  BY ServerCanHear DEF ServerReadBody

\* The types of the client's messages tell its handlers apart.
LEMMA ClientMessageTypes ==
  /\ PublicKey.type = "public_key" /\ EvalKey.type = "eval_key" /\ Execute.type = "execute"
  /\ Reply.type = (IF Slot = "max" THEN "max_result" ELSE "relu_result")
  /\ Execute.payload = Inputs /\ Reply.payload = Units(Current.kind, op, first, Last)
  /\ Head(<<PublicKey, EvalKey>>) = PublicKey /\ Tail(<<PublicKey, EvalKey>>) = <<EvalKey>>
  /\ Head(<<EvalKey>>) = EvalKey /\ Tail(<<EvalKey>>) = <<>>
  /\ Head(<<Execute>>) = Execute /\ Tail(<<Execute>>) = <<>>
  /\ Head(<<Reply>>) = Reply /\ Tail(<<Reply>>) = <<>>
<1>1. /\ PublicKey.type = "public_key" /\ EvalKey.type = "eval_key" /\ Execute.type = "execute"
      /\ Reply.type = (IF Slot = "max" THEN "max_result" ELSE "relu_result")
      /\ Execute.payload = Inputs /\ Reply.payload = Units(Current.kind, op, first, Last)
  BY DEF PublicKey, EvalKey, Execute, Reply, Message
<1>2. \A a, b : /\ Head(<<a, b>>) = a /\ Tail(<<a, b>>) = <<b>>
                /\ Head(<<a>>) = a /\ Tail(<<a>>) = <<>>
  OBVIOUS
<1>3. QED
  BY <1>1, <1>2

\* A handler of the session leaves alone what the main thread alone changes.
LEMMA MainUntouched ==
  ASSUME Inv, UNCHANGED <<pc, op, first, outputs>>
  PROVE  /\ Place' /\ Evaluated'
         /\ UNCHANGED answerVars => Answered'
         /\ Request' = Request /\ Reply' = Reply /\ Slot' = Slot /\ Current' = Current
<1>1. Place' /\ Evaluated'
  BY DEF Inv, Place, Current, Evaluated, OutputsCorrect
<1>2. UNCHANGED answerVars => Answered'
  BY DEF Inv, Answered, Current, Slot, Last, BatchEnd, answerVars
<1>3. QED
  BY <1>1, <1>2, SameMessages

\* The public key is followed by the evaluation key.
LEMMA HandlePublicKeyKeepsInv ==
  ASSUME Inv, serverUp, HandlePublicKey, UNCHANGED <<clientVars, heClientVars>>
  PROVE  Inv'
<1> USE DEF inputVars, answerVars, mainVars, HandlePublicKey
<1>1. /\ pc = "inputs" /\ ioPc = "idle" /\ ~m_client_inputs_received /\ context
      /\ ToServer = <<PublicKey, EvalKey>> /\ ToClient = <<>> /\ Have(FALSE, FALSE, <<>>)
      /\ link = "up" /\ ~m_is_done
  BY ServerHears, ClientMessageTypes
<1>2. ChannelsOK' /\ ToServer' = <<EvalKey>> /\ ToClient' = <<>>
  BY <1>1, InvChannels, ServerReads, ClientMessageTypes DEF Start
<1>3. TypeOK'
  BY <1>2 DEF Inv, TypeOK, HESealClientTypeOK, HESealExecutableTypeOK, ChannelsOK, QueueOK,
              heClientVars
<1>4. Place' /\ Evaluated' /\ Answered'
  BY MainUntouched
<1>5. Awaited'
  BY <1>1 DEF Inv, Awaited, Setting, heClientVars
<1>6. Ends' /\ Told'
  BY <1>1, <1>2 DEF Inv, Ends, Told, ResultCorrect, Silent, heClientVars
<1>7. Exchange'
  <2>1. Replied(<<EvalKey>>)' /\ Have(TRUE, FALSE, <<>>)' /\ context'
    BY <1>1, <1>2 DEF Replied, Have, heClientVars
  <2>2. QED
    BY <1>1, <2>1 DEF Exchange, Handshake, Setting, Finished
<1>8. QED
  BY <1>2, <1>3, <1>4, <1>5, <1>6, <1>7 DEF Inv, ChannelsOK

\* The evaluation key is answered with the size of the parameter.
LEMMA HandleEvalKeyKeepsInv ==
  ASSUME Inv, serverUp, HandleEvalKey, UNCHANGED <<clientVars, heClientVars>>
  PROVE  Inv'
<1> USE DEF inputVars, answerVars, mainVars, HandleEvalKey
<1>1. /\ pc = "inputs" /\ ioPc = "idle" /\ ~m_client_inputs_received /\ context
      /\ ToServer = <<EvalKey>> /\ ToClient = <<>> /\ Have(TRUE, FALSE, <<>>)
      /\ link = "up" /\ ~m_is_done
  BY ServerHears, ClientMessageTypes
<1>2. c2s' \in Seq(Messages) /\ c2s' \o Unsent = <<>>
  BY <1>1, InvChannels, ServerReadTakes, ClientMessageTypes
<1>3. ChannelsOK' /\ Unsent' = Unsent /\ ToClient' = <<ParameterSizeMessage>>
  BY <1>1, <1>2, InvChannels, DoWriteAdds, HandshakeMessages DEF Start
<1>4. ToServer' = <<>>
  BY <1>2, <1>3 DEF ToServer
<1>5. TypeOK'
  BY <1>3 DEF Inv, TypeOK, HESealClientTypeOK, HESealExecutableTypeOK, ChannelsOK, QueueOK,
              heClientVars
<1>6. Place' /\ Evaluated' /\ Answered'
  BY MainUntouched
<1>7. Awaited'
  BY <1>1 DEF Inv, Awaited, Setting, heClientVars
<1>8. Ends' /\ Told'
  <2>1. /\ \A m : <<m>> # <<>> /\ Head(<<m>>) = m /\ Len(<<m>>) = 1
        /\ ParameterSizeMessage.type = "parameter_size"
    BY DEF ParameterSizeMessage
  <2>2. QED
    BY <1>1, <1>3, <1>4, <2>1 DEF Inv, Ends, Told, ResultCorrect, Silent, heClientVars
<1>9. Exchange'
  <2>1. Asked(ParameterSizeMessage)' /\ Have(TRUE, TRUE, <<>>)' /\ context'
    BY <1>1, <1>3, <1>4 DEF Asked, Have, heClientVars
  <2>2. QED
    BY <1>1, <2>1 DEF Exchange, Handshake, Setting, Finished
<1>10. QED
  BY <1>3, <1>5, <1>6, <1>7, <1>8, <1>9 DEF Inv, ChannelsOK

\* The inputs are as many as expected, and come once.
LEMMA HandleExecuteKeepsInv ==
  ASSUME Inv, serverUp, HandleExecute, UNCHANGED <<clientVars, heClientVars>>
  PROVE  Inv'
<1> USE DEF keyVars, answerVars, mainVars, HandleExecute
<1>1. /\ pc = "inputs" /\ ioPc = "idle" /\ ~m_client_inputs_received /\ context
      /\ ToServer = <<Execute>> /\ ToClient = <<>> /\ Have(TRUE, TRUE, <<>>)
      /\ link = "up" /\ ~m_is_done
      /\ Head(c2s) = Execute
  BY ServerHears, ClientMessageTypes
<1>2. ChannelsOK' /\ ToServer' = <<>> /\ ToClient' = <<>>
  BY <1>1, InvChannels, ServerReads, ClientMessageTypes
<1>3. m_client_inputs' = Inputs /\ Inputs \in Payloads
  BY <1>1, ClientMessageTypes, InputsType
<1>4. TypeOK'
  BY <1>2, <1>3 DEF Inv, TypeOK, HESealClientTypeOK, HESealExecutableTypeOK, ChannelsOK,
                    QueueOK, heClientVars
<1>5. Place' /\ Evaluated' /\ Answered'
  BY MainUntouched
<1>6. Awaited'
  BY <1>1 DEF Inv, Awaited, Setting, heClientVars
<1>7. Ends' /\ Told'
  BY <1>1, <1>2 DEF Inv, Ends, Told, ResultCorrect, Silent, heClientVars
<1>8. Exchange'
  <2>1. Silent' /\ Have(TRUE, TRUE, Inputs)' /\ context'
    BY <1>1, <1>2, <1>3 DEF Silent, Have, heClientVars
  <2>2. QED
    BY <1>1, <2>1 DEF Exchange, Setting, Finished
<1>9. QED
  BY <1>2, <1>4, <1>5, <1>6, <1>7, <1>8 DEF Inv, ChannelsOK

\* The answer completes those before it up to the last unit asked for.
LEMMA HandleAnswerKeepsInv ==
  ASSUME Inv, serverUp, NEW s \in Slots, HandleAnswer(s), UNCHANGED <<clientVars, heClientVars>>
  PROVE  Inv'
<1> USE DEF keyVars, inputVars, HandleAnswer
<1>1. /\ pc = "answer" /\ ToServer = <<Reply>> /\ ToClient = <<>> /\ ~m_done[Slot]
      /\ link = "up" /\ ~m_is_done
      /\ Head(c2s) = Reply
  BY ServerHears, ClientMessageTypes
<1>2. /\ op <= Len(Program) /\ Current.kind # "local" /\ first <= Current.units
      /\ HESealExecutableTypeOK
  BY <1>1, InvChannels DEF Inv, Place, Requesting
<1>3. /\ Slot \in Slots /\ Last \in Nat /\ first <= Last + 1
      /\ op \in Nat /\ first \in Nat \ {0} /\ Current.kind \in {"input", "arg"} \cup OpKinds
      /\ Reply \in Messages
  BY <1>2, CurrentType, LastType, RequestAnswer DEF HESealExecutableTypeOK
<1>4. s = Slot
  BY <1>1, <1>3, ClientMessageTypes DEF Slots
<1>5. ChannelsOK' /\ ToServer' = <<>> /\ ToClient' = <<>>
  BY <1>1, InvChannels, ServerReads, ClientMessageTypes DEF Start
<1>6. /\ m_ciphertexts[Slot] = Units(Current.kind, op, 1, first - 1)
      /\ m_ciphertexts \in [Slots -> Payloads] /\ m_done \in [Slots -> BOOLEAN]
  BY <1>1, <1>2 DEF Inv, Answered, HESealExecutableTypeOK
<1>7. m_ciphertexts'[Slot] = Units(Current.kind, op, 1, Last)
  <2>1. m_ciphertexts'[Slot] = m_ciphertexts[Slot] \o Reply.payload
    BY <1>1, <1>3, <1>4, <1>6
  <2>2. Reply.payload = Units(Current.kind, op, first, Last)
    BY ClientMessageTypes
  <2>3. Units(Current.kind, op, 1, first - 1) \o Units(Current.kind, op, first, Last)
          = Units(Current.kind, op, 1, Last)
    BY <1>3, UnitsConcat
  <2>4. QED
    BY <1>6, <2>1, <2>2, <2>3
<1>8. m_ciphertexts' \in [Slots -> Payloads]
  <2>1. Reply.payload \in Payloads /\ m_ciphertexts[s] \in Payloads
    BY <1>3, <1>6 DEF Messages
  <2>2. m_ciphertexts[s] \o Reply.payload \in Payloads
    BY <2>1, ConcatProperties DEF Payloads
  <2>3. QED
    BY <1>1, <1>6, <2>2
<1>9. /\ m_done' \in [Slots -> BOOLEAN] /\ m_done'[Slot]
      /\ \A t \in Slots : m_done'[t] => t = Slot
  BY <1>1, <1>3, <1>4, <1>6 DEF Inv, Answered
<1>10. TypeOK'
  BY <1>5, <1>8, <1>9 DEF Inv, TypeOK, HESealClientTypeOK, HESealExecutableTypeOK, ChannelsOK,
                          QueueOK, NotifyAll, Conditions, heClientVars
<1>11. Place' /\ Evaluated' /\ Slot' = Slot /\ Current' = Current /\ Last' = Last
  BY MainUntouched DEF Last, BatchEnd
<1>12. Answered'
  <2>1. pc' = "answer" /\ op' = op /\ m_done'[Slot']
    BY <1>1, <1>9, <1>11
  <2>2. m_ciphertexts'[Slot'] = Units(Current'.kind, op', 1, Last')
    BY <1>7, <1>11, <2>1
  <2>3. \A t \in Slots : m_done'[t] => t = Slot'
    BY <1>9, <1>11
  <2>4. QED
    BY <2>1, <2>2, <2>3 DEF Answered
<1>13. Awaited'
  BY <1>1 DEF Inv, Awaited, Setting, heClientVars
<1>14. Ends' /\ Told'
  BY <1>1, <1>5 DEF Inv, Ends, Told, ResultCorrect, Silent, heClientVars
<1>15. Exchange'
  <2>1. Silent' /\ pc' = "answer" /\ m_done'[Slot']
    BY <1>1, <1>5, <1>9, <1>11 DEF Silent
  <2>2. QED
    BY <2>1 DEF Exchange, Setting, Finished
<1>16. QED
  BY <1>5, <1>10, <1>11, <1>12, <1>13, <1>14, <1>15 DEF Inv, ChannelsOK

\* The io thread.
LEMMA IoKeepsInv == Inv /\ Io => Inv'
<1> SUFFICES ASSUME Inv, serverUp, IoThread, UNCHANGED <<clientVars, heClientVars>> PROVE Inv'
  BY DEF Io, IoThread
<1>1. CASE Accept \/ NotifySession \/ ReadHeader \/ NotifyInputs
  BY <1>1, IoMovesOn
<1>2. CASE HandlePublicKey
  BY <1>2, HandlePublicKeyKeepsInv
<1>3. CASE HandleEvalKey
  BY <1>3, HandleEvalKeyKeepsInv
<1>4. CASE HandleExecute
  BY <1>4, HandleExecuteKeepsInv
<1>5. CASE \E slot \in Slots : HandleAnswer(slot)
  BY <1>5, HandleAnswerKeepsInv
<1>6. CASE IoThrows
  BY <1>6, TerminateKeepsInv DEF IoThrows
<1>7. QED
  BY <1>1, <1>2, <1>3, <1>4, <1>5, <1>6 DEF IoThread

\* The kernel sends what the server has written, or drops it with a connection that
\* is lost.
LEMMA ServerSendsKeepsInv == Inv /\ ServerSends => Inv'
<1> SUFFICES ASSUME Inv, serverUp, ServerTransmit, UNCHANGED <<clientVars, heClientVars>>,
                    UNCHANGED <<mainVars, ioPc, serverUp, inputVars, keyVars, answerVars>>
             PROVE  Inv'
  BY DEF ServerSends, SessionTransmit
<1> USE DEF mainVars, inputVars, keyVars
<1>1. /\ ChannelsOK'
      /\ ToClient # <<>>
      /\ ToServer' = ToServer
      /\ link = "up" => ToClient' = ToClient
      /\ link # "up" /\ Len(ToClient) = 1 => ToClient' = <<>>
  BY InvChannels, ServerTransmitMoves
<1>2. Len(ToClient) = 1 /\ ToServer = <<>> /\ ~m_is_done
  BY <1>1 DEF Inv, Told
<1>3. /\ UNCHANGED <<link, c2s, sRead>>
      /\ link # "up" => s2c' = s2c
  BY DEF ServerTransmit
<1>4. link = "up" \/ (link = "lost" /\ ToClient' = <<>>)
  <2>1. pc \notin {"construct", "session"}
    BY <1>1 DEF Inv, Exchange, Silent, Setting
  <2>2. QED
    BY <1>1, <1>2, <2>1 DEF Inv, Awaited, Ends, QueueOK, TCPClientTypeOK, LinkStates
<1>5. TypeOK'
  BY <1>1 DEF Inv, TypeOK, HESealClientTypeOK, HESealExecutableTypeOK, ChannelsOK, QueueOK,
              heClientVars, answerVars
<1>6. /\ Place' /\ Evaluated' /\ Answered'
      /\ Request' = Request /\ Reply' = Reply /\ Slot' = Slot
  BY MainUntouched
<1>7. Awaited'
  BY <1>3 DEF Inv, Awaited, heClientVars
<1>8. Ends'
  BY <1>3, <1>4 DEF Inv, Ends, heClientVars
<1>9. Told'
  BY <1>1, <1>2, <1>4 DEF Inv, Told, ResultCorrect, Silent, heClientVars
<1>10. Exchange'
  BY <1>1, <1>2, <1>3, <1>4, <1>6
     DEF Inv, Exchange, Handshake, Silent, Asked, Replied, Gone, Have, heClientVars, answerVars
<1>11. QED
  BY <1>1, <1>5, <1>6, <1>7, <1>8, <1>9, <1>10 DEF Inv, ChannelsOK

-----------------------------------------------------------------------------
(* The theorems.                                                           *)

\* The invariant holds when both start, provided no flag is set.
LEMMA InitInv ==
  ASSUME MaxDoneInit \subseteq {FALSE}
  PROVE  Init => Inv
<1> SUFFICES ASSUME Init PROVE Inv
  OBVIOUS
<1> USE DEF HESealExecutableInit, TCPSessionInit, HESealClientInit
<1>1. QueueOK(Messages) /\ Unsent = <<>> /\ link = "none" /\ c2s = <<>> /\ s2c = <<>>
  BY InitQueue DEF Init, NetworkInit
<1>2. <<>> \o <<>> = <<>>
  BY EmptySeq, ConcatEmptySeq
<1>3. Silent
  BY <1>1, <1>2 DEF Init, Silent, ToClient, ToServer
<1>4. \A s \in Slots : m_done[s] = FALSE
  BY DEF Init
<1>5. m_done \in [Slots -> BOOLEAN]
  BY DEF Init
<1>6. <<>> \in Payloads /\ <<>> \in Seq(Messages) /\ <<>> \in Seq(Payloads)
  BY EmptySeq DEF Payloads
<1>7. m_ciphertexts \in [Slots -> Payloads]
  BY <1>6 DEF Init
<1>8. TypeOK
  <2>1. HESealClientTypeOK
    BY <1>1, <1>6 DEF Init, HESealClientTypeOK, QueueOK
  <2>2. HESealExecutableTypeOK
    <3>1. /\ pc = "construct" /\ op = 1 /\ first = 1 /\ waiting = "none" /\ ioPc = "accepting"
          /\ sRead = "none" /\ sWrites = <<>> /\ serverUp = TRUE
          /\ m_session_started = FALSE /\ m_client_inputs_received = FALSE
          /\ public_key = FALSE /\ relin_keys = FALSE
          /\ m_client_inputs = <<>> /\ outputs = <<>>
      BY DEF Init
    <3>2. TCPSessionTypeOK(Messages)
      BY <1>6, <3>1 DEF TCPSessionTypeOK
    <3>3. /\ pc \in MainStates /\ op \in Nat \ {0} /\ first \in Nat \ {0} /\ waiting \in Conditions
      BY <3>1 DEF MainStates, Conditions
    <3>4. /\ ioPc \in {"accepting", "accepted", "idle", "inputs"}
          /\ serverUp \in BOOLEAN
          /\ m_session_started \in BOOLEAN
          /\ m_client_inputs_received \in BOOLEAN
          /\ public_key \in BOOLEAN
          /\ relin_keys \in BOOLEAN
      BY <3>1
    <3>5. QED
      BY <1>5, <1>6, <1>7, <3>1, <3>2, <3>3, <3>4 DEF HESealExecutableTypeOK
  <2>3. QED
    BY <2>1, <2>2 DEF TypeOK
<1>9. Place
  <2>1. Len(Program) \in Nat
    BY ProgramAssumption, LenProperties
  <2>2. QED
    BY <2>1 DEF Init, Place, Setting, Requesting, Finished
<1>10. Answered
  BY <1>4 DEF Init, Answered
<1>11. Evaluated
  BY EmptySeq DEF Init, Evaluated, OutputsCorrect
<1>12. Awaited /\ Ends
  BY <1>1 DEF Init, Awaited, Ends, Setting
<1>13. Told
  BY <1>3 DEF Init, Told, ResultCorrect, Silent
<1>14. Exchange
  BY <1>3 DEF Init, Exchange, Setting, Finished
<1>15. QED
  BY <1>1, <1>8, <1>9, <1>10, <1>11, <1>12, <1>13, <1>14 DEF Inv

\* Every step keeps the invariant.
LEMMA NextKeepsInv == Inv /\ [Next]_vars => Inv'
<1> SUFFICES ASSUME Inv, [Next]_vars PROVE Inv'
  OBVIOUS
<1>1. CASE Connect \/ Refused \/ RerunClient
  BY <1>1, ConnectKeepsInv
<1>2. CASE Lost
  BY <1>2, LostKeepsInv
<1>3. CASE Client
  BY <1>3, HandleMessageKeepsInv, HandlerKeepsInv DEF Client, ClientThread
<1>4. CASE ClientSends
  BY <1>4, ClientSendsKeepsInv
<1>5. CASE Main
  BY <1>5, MainKeepsInv
<1>6. CASE Wakeup
  BY <1>6, MainMovesOn DEF Wakeup, SpuriousWakeup
<1>7. CASE Io
  BY <1>7, IoKeepsInv
<1>8. CASE ServerSends
  BY <1>8, ServerSendsKeepsInv
<1>9. CASE UNCHANGED vars
  <2>1. ChannelsOK' /\ ToClient' = ToClient /\ ToServer' = ToServer
    BY <1>9, InvChannels, SameChannels DEF vars, serverVars
  <2>2. QED
    BY <1>9, <2>1, NothingMoves DEF vars
<1>10. QED
  BY <1>1, <1>2, <1>3, <1>4, <1>5, <1>6, <1>7, <1>8, <1>9 DEF Next, Ended

\* The inductive invariant holds of every behaviour.
THEOREM InvariantHolds ==
  ASSUME MaxDoneInit \subseteq {FALSE}
  PROVE  Spec => []Inv
<1>1. Init => Inv
  BY InitInv
<1>2. Inv /\ [Next]_vars => Inv'
  BY NextKeepsInv
<1>3. QED
  BY <1>1, <1>2, PTL DEF Spec

\* The variables of server, client and connection have their types.
THEOREM TypeCorrect ==
  ASSUME MaxDoneInit \subseteq {FALSE}
  PROVE  Spec => []TypeOK
<1>1. Inv => TypeOK
  BY DEF Inv
<1>2. QED
  BY <1>1, InvariantHolds, PTL

\* Each end writes only when it has heard all the other had to say
\* (TCPSession::do_write has no queue).
THEOREM OneSideWrites ==
  ASSUME MaxDoneInit \subseteq {FALSE}
  PROVE  Spec => []HalfDuplex
<1>1. ASSUME Inv PROVE HalfDuplex
  <2>1. ToClient = <<>> => Len(ToClient) = 0
    BY EmptySeq
  <2>2. QED
    BY <1>1, <2>1 DEF Inv, Told, HalfDuplex
<1>2. QED
  BY <1>1, InvariantHolds, PTL

\* No answer is on its way while the main thread clears or reads the answers
\* without their mutex (handle_server_relu_op, the MaxPool case).
THEOREM MainAccessIsAlone ==
  ASSUME MaxDoneInit \subseteq {FALSE}
  PROVE  Spec => []UnlockedAccessIsAlone
<1>1. Inv => UnlockedAccessIsAlone
  BY EmptySeq DEF Inv, Told, Silent, UnlockedAccessIsAlone
<1>2. QED
  BY <1>1, InvariantHolds, PTL

\* A done flag means that the answer to the request under way is in place, and
\* with it all before it (handle_message, the waits of the loops).
THEOREM FlagsMeanAnswers ==
  ASSUME MaxDoneInit \subseteq {FALSE}
  PROVE  Spec => []DoneMeansAnswered
<1>1. Inv => DoneMeansAnswered
  BY DEF Inv, Answered, DoneMeansAnswered
<1>2. QED
  BY <1>1, InvariantHolds, PTL

\* Evaluation begins with both keys and all the inputs in place (call).
THEOREM KeysAndInputsFirst ==
  ASSUME MaxDoneInit \subseteq {FALSE}
  PROVE  Spec => []EvaluatesWithKeysAndInputs
<1>1. Inv => EvaluatesWithKeysAndInputs
  BY DEF Inv, Awaited, Setting, EvaluatesWithKeysAndInputs
<1>2. QED
  BY <1>1, InvariantHolds, PTL

\* With the flags starting FALSE the loops end with every answer in place: it is
\* the missing initialisation of m_max_done alone that lets them end early.
THEOREM LoopsEndWithAllAnswers ==
  ASSUME MaxDoneInit \subseteq {FALSE}
  PROVE  Spec => []AllAnswersBeforeSet
<1>1. Inv => AllAnswersBeforeSet
  BY DEF Inv, Answered, AllAnswersBeforeSet
<1>2. QED
  BY <1>1, InvariantHolds, PTL

\* The client is asked for nothing before it has its encryption context
\* (set_seal_context).
THEOREM ContextBeforeRequests ==
  ASSUME MaxDoneInit \subseteq {FALSE}
  PROVE  Spec => []ClientCanDecrypt
<1>1. ASSUME Inv PROVE ClientCanDecrypt
  <2>1. ToClient \in Seq(Messages)
    BY <1>1, InvChannels, ChannelTypes
  <2>2. ASSUME NEW i \in DOMAIN ToClient,
               ToClient[i].type # "encryption_parameters" \/ i > 1
        PROVE  context
    <3>1. ToClient # <<>>
      BY <2>1, <2>2, EmptySeq
    <3>2. Len(ToClient) = 1 /\ (Head(ToClient).type # "encryption_parameters" => context)
      BY <1>1, <3>1 DEF Inv, Told
    <3>3. i = 1 /\ Head(ToClient) = ToClient[i]
      BY <2>1, <2>2, <3>1, <3>2, HeadTailProperties, LenProperties
    <3>4. QED
      BY <2>2, <3>2, <3>3
  <2>3. QED
    BY <2>2 DEF ClientCanDecrypt
<1>2. QED
  BY <1>1, InvariantHolds, PTL

\* Every tensor the server computes, by itself or in any number of requests to
\* the client, is the one it should be (generate_calls, set_elements).
THEOREM TensorsCorrect ==
  ASSUME MaxDoneInit \subseteq {FALSE}
  PROVE  Spec => []OutputsCorrect
<1>1. Inv => OutputsCorrect
  BY DEF Inv, Evaluated
<1>2. QED
  BY <1>1, InvariantHolds, PTL

\* The client's results are the value of the function, once it is done.
THEOREM ClientGetsResult ==
  ASSUME MaxDoneInit \subseteq {FALSE}
  PROVE  Spec => []ResultCorrect
<1>1. Inv => ResultCorrect
  BY DEF Inv, Told
<1>2. QED
  BY <1>1, InvariantHolds, PTL

-----------------------------------------------------------------------------
(* Writes under way, and the server's end: two more inductive invariants,   *)
(* each on top of Inv.                                                     *)

\* A write that the socket has not taken whole belongs to a server that runs, and
\* carries none of the messages that die at once.
PendingWrites ==
  \A i \in DOMAIN sWrites :
    serverUp /\ sWrites[i].type \notin {"encryption_parameters", "parameter_size"}

\* do_write, of a message that the server could wait to send.
LEMMA DoWriteKeepsPending ==
  ASSUME Inv, PendingWrites, serverUp, UNCHANGED serverUp, NEW m \in Messages, do_write(m),
         m.type \in Immediate => ToClient = <<>>,
         m.type \in {"encryption_parameters", "parameter_size"} => ToClient = <<>>
  PROVE  PendingWrites'
<1>1. sWrites \in Seq(Messages) /\ (ToClient = <<>> => sWrites = <<>>)
  BY InvChannels, ChannelTypes, ConcatEqualIffEmpty DEF ToClient
<1>2. CASE sWrites' = sWrites
  BY <1>2 DEF PendingWrites
<1>3. CASE sWrites' # sWrites
  <2>1. sWrites' = Append(sWrites, m) /\ m.type \notin {"encryption_parameters", "parameter_size"}
    BY <1>1, <1>3, ImmediateAssumption DEF do_write
  <2>2. QED
    BY <1>1, <2>1, AppendProperties DEF PendingWrites
<1>4. QED
  BY <1>2, <1>3

\* The main thread writes when nothing is on its way; so does the io thread.
LEMMA NextKeepsPending == Inv /\ PendingWrites /\ [Next]_vars => PendingWrites'
<1> SUFFICES ASSUME Inv, PendingWrites, [Next]_vars PROVE PendingWrites'
  OBVIOUS
<1> USE DEF networkVars, clientVars, heClientVars, serverVars, sessionVars, mainVars, inputVars,
            keyVars, answerVars
<1>0. CASE UNCHANGED <<sWrites, serverUp>>
  BY <1>0 DEF PendingWrites
<1>1. CASE Connect \/ Refused \/ RerunClient \/ Lost \/ Client \/ ClientSends \/ Wakeup \/ Ended
           \/ UNCHANGED vars
  BY <1>0, <1>1 DEF Connect, Refused, RerunClient, Lost, ConnectionLost, Client, ClientSends,
                    Wakeup, SpuriousWakeup, Ended, vars
<1>2. CASE ServerSends
  <2>1. sWrites' = Tail(sWrites) /\ sWrites # <<>> /\ serverUp' = serverUp
    BY <1>2 DEF ServerSends, SessionTransmit, ServerTransmit
  <2>2. sWrites \in Seq(Messages)
    BY InvChannels, ChannelTypes
  <2>3. QED
    BY <2>1, <2>2, HeadTailProperties DEF PendingWrites
<1>3. ASSUME Terminate PROVE PendingWrites'
  BY <1>3, EmptySeq DEF Terminate, PendingWrites
<1>4. CASE Main
  <2>0. serverUp /\ MainThread
    BY <1>4 DEF Main, MainThread
  <2>1. CASE SendEncryptionParameters
    <3>1. ToClient = <<>>
      BY <2>0, <2>1 DEF SendEncryptionParameters, Inv, Exchange, Setting, Silent
    <3>2. do_write(Parameters) /\ serverUp' = serverUp
      BY <2>1 DEF SendEncryptionParameters, Parameters
    <3>3. QED
      BY <2>0, <3>1, <3>2, DoWriteKeepsPending, HandshakeMessages
  <2>2. CASE SendRequest
    <3>1. /\ ToClient = <<>>
          /\ op <= Len(Program) /\ first <= Current.units /\ Current.kind # "local"
      BY <2>0, <2>2 DEF SendRequest, Inv, Exchange, Setting, Silent, Place, Requesting
    <3>2. Request \in Messages
      BY <3>1, InvChannels, RequestAnswer
    <3>3. do_write(Request) /\ serverUp' = serverUp
      BY <2>2 DEF SendRequest
    <3>4. QED
      BY <2>0, <3>1, <3>2, <3>3, DoWriteKeepsPending
  <2>3. CASE SendResult
    <3>1. ToClient = <<>>
      BY <2>0, <2>3 DEF SendResult, Inv, Exchange, Setting, Silent
    <3>2. do_write(Result) /\ Result \in Messages /\ serverUp' = serverUp
      BY <2>3, SendResultSends DEF SendResult
    <3>3. QED
      BY <2>0, <3>1, <3>2, DoWriteKeepsPending DEF Result, Message
  <2>4. CASE ReluThrows
    BY <1>3, <2>4 DEF ReluThrows
  <2>5. CASE \/ StartServer \/ WaitForSession \/ WaitForClientInputs \/ EvaluateLocally
             \/ BeginRequests \/ WaitForAnswer \/ SetElements \/ ReadOutput \/ Destroy
    BY <1>0, <2>5 DEF StartServer, WaitForSession, WaitForClientInputs, EvaluateLocally,
                      BeginRequests, WaitForAnswer, SetElements, ReadOutput, Destroy
  <2>6. QED
    BY <2>0, <2>1, <2>2, <2>3, <2>4, <2>5 DEF MainThread
<1>5. CASE Io
  <2>0. serverUp /\ IoThread
    BY <1>5 DEF Io, IoThread
  <2>1. CASE HandleEvalKey
    <3>1. ToClient = <<>> /\ do_write(ParameterSizeMessage) /\ serverUp' = serverUp
      BY <2>0, <2>1, ServerHears DEF HandleEvalKey
    <3>2. QED
      BY <2>0, <3>1, DoWriteKeepsPending, HandshakeMessages
  <2>2. CASE IoThrows
    BY <1>3, <2>2 DEF IoThrows
  <2>3. CASE \/ Accept \/ NotifySession \/ ReadHeader \/ HandlePublicKey \/ HandleExecute
             \/ NotifyInputs \/ \E slot \in Slots : HandleAnswer(slot)
    BY <1>0, <2>3 DEF Accept, NotifySession, ReadHeader, ServerReadHeader, HandlePublicKey,
                      HandleExecute, NotifyInputs, HandleAnswer
  <2>4. QED
    BY <2>0, <2>1, <2>2, <2>3 DEF IoThread
<1>6. QED
  BY <1>1, <1>2, <1>4, <1>5 DEF Next

\* A write still under way has a live buffer: it is the request whose answer the
\* main thread waits for, or the result, a member (do_write keeps no message).
THEOREM BuffersLive ==
  ASSUME MaxDoneInit \subseteq {FALSE}
  PROVE  Spec => []WriteBuffersLive
<1>1. Init => PendingWrites
  BY EmptySeq DEF Init, HESealExecutableInit, TCPSessionInit, PendingWrites
<1>2. ASSUME Inv, PendingWrites PROVE WriteBuffersLive
  <2> SUFFICES ASSUME NEW i \in DOMAIN sWrites
               PROVE  (pc = "answer" /\ sWrites[i] = Request) \/ sWrites[i].type = "result"
    BY DEF WriteBuffersLive
  <2>1. /\ s2c \in Seq(Messages) /\ sWrites \in Seq(Messages) /\ sWrites # <<>>
        /\ serverUp /\ sWrites[i].type \notin {"encryption_parameters", "parameter_size"}
    BY <1>2, InvChannels, ChannelTypes, EmptySeq DEF PendingWrites
  <2>2. ToClient # <<>> /\ Len(ToClient) = 1
    BY <1>2, <2>1, ConcatEqualIffEmpty DEF ToClient, Inv, Told
  <2>3. Len(s2c) + Len(sWrites) = 1
    BY <2>1, <2>2, ConcatProperties DEF ToClient
  <2>4. s2c = <<>> /\ i = 1
    <3>1. Len(s2c) \in Nat /\ Len(sWrites) \in Nat /\ Len(sWrites) # 0 /\ i \in 1..Len(sWrites)
      BY <2>1, LenProperties, EmptySeq
    <3>2. Len(s2c) = 0 /\ Len(sWrites) = 1
      <4>1. \A a, b \in Nat : a + b = 1 /\ b # 0 => a = 0 /\ b = 1
        OBVIOUS
      <4>2. QED
        BY <2>3, <3>1, <4>1
    <3>3. QED
      BY <2>1, <3>1, <3>2, EmptySeq
  <2>5. ToClient = sWrites
    BY <2>1, <2>4, ConcatEmptySeq DEF ToClient
  <2>6. \/ ToClient = <<Parameters>> \/ ToClient = <<ParameterSizeMessage>>
        \/ pc = "answer" /\ ToClient = <<Request>>
        \/ ToClient = <<Result>>
    BY <1>2, <2>1, <2>2 DEF Inv, Exchange, Handshake, Silent, Asked, Replied, Gone, Setting,
         Finished, TypeOK, HESealExecutableTypeOK, MainStates, Place
  <2>7. /\ Parameters.type = "encryption_parameters" /\ Result.type = "result"
        /\ ParameterSizeMessage.type = "parameter_size"
    BY DEF Parameters, ParameterSizeMessage, Result, Message
  <2>8. QED
    BY <2>1, <2>4, <2>5, <2>6, <2>7
<1>3. Inv /\ PendingWrites /\ [Next]_vars => PendingWrites'
  BY NextKeepsPending
<1>4. Spec => []Inv
  BY InvariantHolds
<1>5. QED
  BY <1>1, <1>2, <1>3, <1>4, PTL DEF Spec

\* handle_server_relu_op meets no known zero.
NoKnownZeros ==
  \A k \in DOMAIN Program :
    Program[k].kind # "max" => Program[k].zeros \cap (1..Program[k].units) = {}

\* The relu does not throw then.
LEMMA NoReluThrows ==
  ASSUME Inv, NoKnownZeros, pc = "request"
  PROVE  ~ReluOfZero
<1>1. op <= Len(Program) /\ first <= Current.units
  BY DEF Inv, Place, Requesting
<1>2. Last \in Nat /\ Last <= Current.units /\ Current.units \in Nat /\ first \in Nat \ {0}
  BY <1>1, InvChannels, LastType, CurrentType DEF HESealExecutableTypeOK
<1>3. op \in DOMAIN Program
  BY <1>1, ProgramAssumption, LenProperties DEF Inv, TypeOK, HESealExecutableTypeOK
<1>4. first..Last \subseteq 1..Current.units
  BY <1>2
<1>5. QED
  BY <1>3, <1>4 DEF NoKnownZeros, ReluOfZero, Current

\* Nor does handle_message: the one execute message has the size it should and
\* finds no inputs.
LEMMA NoCallbackThrows ==
  ASSUME Inv, serverUp, ServerDataAvailable
  PROVE  ~CallbackThrows(Head(c2s))
<1>1. Len(Inputs) = ParameterSize
  BY InputsType
<1>2. QED
  BY <1>1, ServerCanHear, ClientMessageTypes DEF CallbackThrows, Have

\* Whatever happens to the connection, the server process does not end while it
\* works: when nothing known to be zero is activated no handler and no parallel
\* region throws but on a connection that has ended (do_read_header, do_read_body).
THEOREM ServerOutlivesConnection ==
  ASSUME MaxDoneInit \subseteq {FALSE}, NoKnownZeros
  PROVE  Spec => []ServerEndsLast
<1>1. Init => ServerEndsLast
  BY DEF Init, NetworkInit, ServerEndsLast
<1>2. ASSUME Inv, ServerEndsLast, [Next]_vars PROVE ServerEndsLast'
  <2> USE DEF networkVars, clientVars, heClientVars, serverVars, sessionVars, ServerEndsLast
  <2>1. CASE link' = link \/ link' \in {"up", "lost", "clientShut"}
    BY <1>2, <2>1
  <2>2. CASE Connect \/ Refused \/ RerunClient \/ Lost \/ ClientSends \/ Wakeup \/ ServerSends
             \/ Ended \/ UNCHANGED vars
    BY <2>1, <2>2 DEF Connect, ConnectSucceeds, Refused, ConnectFails, RerunClient, Lost,
         ConnectionLost, ClientSends, ClientTransmit, Wakeup, SpuriousWakeup, ServerSends,
         SessionTransmit, ServerTransmit, Ended, vars
  <2>3. CASE Client
    BY <2>1, <2>3 DEF Client, ClientThread, HandleMessage, ClientReadBody, TCPClientStep,
         ClientReadHeader, ClientReadError, DoWrite, WriteDone, WriteError, CloseSocket
  <2>4. CASE Main
    <3>1. CASE ReluThrows
      BY <1>2, <3>1, NoReluThrows DEF ReluThrows
    <3>2. CASE MainThread /\ ~ReluThrows
      BY <2>1, <3>2
         DEF MainThread, StartServer, WaitForSession, SendEncryptionParameters,
             WaitForClientInputs, EvaluateLocally, BeginRequests, SendRequest,
             WaitForAnswer, SetElements, SendResult, ReadOutput, Destroy
    <3>3. QED
      BY <2>4, <3>1, <3>2 DEF Main
  <2>5. CASE Io
    <3>1. serverUp /\ IoThread
      BY <2>5 DEF Io, IoThread
    <3>2. CASE IoThrows
      <4>1. link \in {"clientShut", "lost"}
        BY <1>2, <3>1, <3>2, NoCallbackThrows DEF IoThrows, ReadThrows, ServerEof
      <4>2. QED
        BY <2>1, <3>2, <4>1 DEF IoThrows, Terminate
    <3>3. CASE IoThread /\ ~IoThrows
      BY <2>1, <3>3 DEF IoThread, Accept, NotifySession, ReadHeader, ServerReadHeader,
           HandlePublicKey, HandleEvalKey, HandleExecute, NotifyInputs, HandleAnswer
    <3>4. QED
      BY <3>1, <3>2, <3>3
  <2>6. QED
    BY <1>2, <2>2, <2>3, <2>4, <2>5 DEF Next
<1>3. Spec => []Inv
  BY InvariantHolds
<1>4. QED
  BY <1>1, <1>2, <1>3, PTL DEF Spec

-----------------------------------------------------------------------------
(* Client and server implement SecureInference.                            *)

inferenceState == <<m_is_done, m_client_inputs_received, relin_keys, outputs, m_results>>

\* Both speak of the same tensors.
LEMMA SameTensors == Inference!FinalOutput = FinalOutput /\ \A k : Inference!Output(k) = Output(k)
<1>1. \A k : Inference!Output(k) = Output(k)
  BY DEF Inference!Output, Inference!Units, Output, Units
<1>2. Inference!Inputs = Inputs
  BY DEF Inference!Inputs, Inference!Units, Inputs, Units
<1>3. QED
  BY <1>1, <1>2 DEF Inference!FinalOutput, FinalOutput

\* What the inference does not see.
LEMMA InferenceStutters ==
  ASSUME UNCHANGED inferenceState
  PROVE  UNCHANGED Inference!vars
  BY DEF inferenceState, Inference!vars

\* The client's callback delivers the result, or does what the inference does not see.
LEMMA CallbackDelivers ==
  ASSUME Inv, HandleMessage, UNCHANGED serverVars
  PROVE  Inference!Deliver \/ UNCHANGED Inference!vars
<1> USE DEF serverVars, mainVars, inputVars, keyVars
<1>1. s2c # <<>>
  BY DEF HandleMessage, ClientReadBody, ClientDataAvailable
<1>2. ToClient # <<>> /\ Head(s2c) = Head(ToClient)
  BY <1>1, InvChannels, ChannelTypes, TakeHead DEF ToClient
<1>3. /\ ~m_is_done /\ m_results = <<>>
      /\ Head(s2c).type = "result" => /\ Head(s2c).payload = FinalOutput
                                      /\ m_client_inputs_received
                                      /\ Len(outputs) = Len(Program)
  BY <1>2 DEF Inv, Told, ResultCorrect
<1>4. CASE Head(s2c).type = "result"
  <2>1. <<>> \o FinalOutput = FinalOutput
    BY FinalOutputType, ConcatEmptySeq DEF Payloads
  <2>2. m_is_done' /\ m_results' = FinalOutput /\ outputs' = outputs
    BY <1>3, <1>4, <2>1 DEF HandleMessage
  <2>3. QED
    BY <1>3, <1>4, <2>2, SameTensors DEF Inference!Deliver
<1>5. CASE Head(s2c).type # "result"
  <2>1. m_is_done' = (m_is_done \/ FALSE) /\ m_results' = m_results
    BY <1>5 DEF HandleMessage
  <2>2. m_is_done' = m_is_done
    BY <2>1, InvChannels DEF HESealClientTypeOK
  <2>3. QED
    BY <2>1, <2>2, InferenceStutters DEF inferenceState
<1>6. QED
  BY <1>4, <1>5

\* The main thread evaluates the operations in order.
LEMMA MainEvaluates ==
  ASSUME Inv, Main
  PROVE  Inference!Evaluate \/ UNCHANGED Inference!vars
<1> USE DEF inputVars, keyVars, mainVars, heClientVars
<1>0. serverUp /\ MainThread /\ UNCHANGED heClientVars
  BY DEF Main, MainThread
<1>1. ASSUME pc \in {"operations", "set"}, op <= Len(Program),
             outputs' = Append(outputs, Output(op)),
             UNCHANGED <<inputVars, keyVars>>
      PROVE  Inference!Evaluate
  <2>1. ~m_is_done /\ m_client_inputs_received
    BY <1>0, <1>1, StillAtWork DEF Finished, Inv, Awaited, Setting
  <2>2. /\ Len(outputs) + 1 = op /\ Len(outputs) < Len(Program)
    <3>1. op \in Nat \ {0} /\ Len(Program) \in Nat /\ Len(outputs) = op - 1
      BY ProgramAssumption, LenProperties
         DEF Inv, TypeOK, HESealExecutableTypeOK, Evaluated
    <3>2. QED
      BY <1>1, <3>1
  <2>3. UNCHANGED <<m_is_done, m_results, m_client_inputs_received, relin_keys>>
    BY <1>0, <1>1
  <2>4. QED
    BY <1>1, <2>1, <2>2, <2>3, SameTensors DEF Inference!Evaluate
<1>2. CASE EvaluateLocally
  BY <1>1, <1>2 DEF EvaluateLocally
<1>3. CASE SetElements
  <2>1. op <= Len(Program) /\ m_ciphertexts[Slot] = Output(op)
    BY <1>3 DEF SetElements, Inv, Place, Requesting, Answered
  <2>2. Len(m_ciphertexts[Slot]) = Current.units
    BY <2>1, InvChannels, CurrentType
  <2>3. QED
    BY <1>1, <1>3, <2>1, <2>2 DEF SetElements
<1>4. CASE \/ StartServer \/ WaitForSession \/ SendEncryptionParameters
           \/ WaitForClientInputs \/ BeginRequests \/ SendRequest \/ ReluThrows
           \/ WaitForAnswer \/ SendResult \/ ReadOutput \/ Destroy
  <2>1. UNCHANGED inferenceState
    BY <1>0, <1>4
       DEF inferenceState, StartServer, WaitForSession, SendEncryptionParameters,
           WaitForClientInputs, BeginRequests, SendRequest, ReluThrows, Terminate,
           WaitForAnswer, SendResult, ReadOutput, Destroy
  <2>2. QED
    BY <2>1, InferenceStutters
<1>5. QED
  BY <1>0, <1>2, <1>3, <1>4 DEF MainThread

\* The io thread takes the keys, then the inputs.
LEMMA IoTakesKeysAndInputs ==
  ASSUME Inv, Io
  PROVE  Inference!ExchangeKeys \/ Inference!SubmitInputs \/ UNCHANGED Inference!vars
<1> USE DEF inputVars, keyVars, mainVars, heClientVars
<1>0. serverUp /\ IoThread /\ UNCHANGED heClientVars
  BY DEF Io, IoThread
<1>1. CASE HandleEvalKey
  <2>1. ~m_is_done /\ ~m_client_inputs_received /\ ~relin_keys
    BY <1>0, <1>1, ServerHears, ClientMessageTypes DEF HandleEvalKey, Have
  <2>2. relin_keys' /\ UNCHANGED <<outputs, m_results, m_is_done, m_client_inputs_received>>
    BY <1>0, <1>1 DEF HandleEvalKey
  <2>3. QED
    BY <2>1, <2>2 DEF Inference!ExchangeKeys
<1>2. CASE NotifyInputs
  <2>1. ~m_client_inputs_received /\ relin_keys /\ ~m_is_done
    <3>1. pc = "inputs" /\ ~m_client_inputs_received
      BY <1>2 DEF NotifyInputs, Inv, Awaited
    <3>2. relin_keys
      BY <1>0, <1>2, <3>1 DEF NotifyInputs, Inv, Exchange, Have
    <3>3. QED
      BY <1>0, <3>1, <3>2, StillAtWork DEF Finished
  <2>2. m_client_inputs_received' /\ UNCHANGED <<outputs, m_results, m_is_done, relin_keys>>
    BY <1>0, <1>2 DEF NotifyInputs
  <2>3. QED
    BY <2>1, <2>2 DEF Inference!SubmitInputs
<1>3. CASE \/ Accept \/ NotifySession \/ ReadHeader \/ HandlePublicKey \/ HandleExecute
           \/ (\E slot \in Slots : HandleAnswer(slot)) \/ IoThrows
  <2>1. UNCHANGED inferenceState
    BY <1>0, <1>3
       DEF inferenceState, Accept, NotifySession, ReadHeader, HandlePublicKey,
           HandleExecute, HandleAnswer, IoThrows, Terminate
  <2>2. QED
    BY <2>1, InferenceStutters
<1>4. QED
  BY <1>0, <1>1, <1>2, <1>3 DEF IoThread

\* Whatever fails, client and server do the steps of one inference, in order,
\* and nothing else (the handlers and call(), all together).
THEOREM OneInference ==
  ASSUME MaxDoneInit \subseteq {FALSE}
  PROVE  Spec => SafeInference
<1>1. Init => Inference!Init
  BY EmptySeq DEF Init, HESealClientInit, HESealExecutableInit, Inference!Init
<1>2. Inv /\ [Next]_vars => [Inference!Next]_(Inference!vars)
  <2> SUFFICES ASSUME Inv, [Next]_vars PROVE Inference!Next \/ UNCHANGED Inference!vars
    OBVIOUS
  <2>1. CASE \/ Connect \/ Refused \/ RerunClient \/ Lost \/ ClientSends \/ Wakeup
             \/ ServerSends \/ Ended \/ UNCHANGED vars
    <3>1. UNCHANGED inferenceState
      BY <2>1 DEF inferenceState, Connect, Refused, RerunClient, Lost, ClientSends, Wakeup,
                  SpuriousWakeup, ServerSends, SessionTransmit, Ended, vars, heClientVars,
                  serverVars, mainVars, inputVars, keyVars
    <3>2. QED
      BY <3>1, InferenceStutters
  <2>2. CASE Client
    <3>1. CASE HandleMessage
      BY <2>2, <3>1, CallbackDelivers DEF Client, Inference!Next
    <3>2. CASE TCPClientStep /\ UNCHANGED heClientVars
      <4>1. UNCHANGED inferenceState
        BY <2>2, <3>2 DEF Client, inferenceState, heClientVars, serverVars, mainVars,
                          inputVars, keyVars
      <4>2. QED
        BY <4>1, InferenceStutters
    <3>3. QED
      BY <2>2, <3>1, <3>2 DEF Client, ClientThread
  <2>3. CASE Main
    BY <2>3, MainEvaluates DEF Inference!Next
  <2>4. CASE Io
    BY <2>4, IoTakesKeysAndInputs DEF Inference!Next
  <2>5. QED
    BY <2>1, <2>2, <2>3, <2>4 DEF Next
<1>3. Spec => []Inv
  BY InvariantHolds
<1>4. QED
  BY <1>1, <1>2, <1>3, PTL DEF Spec, SafeInference, Inference!Spec
=============================================================================
