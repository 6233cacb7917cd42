-------------------- MODULE ClientServerChannels_proofs ---------------------
(***************************************************************************)
(* What crosses the connection: the tensors that payloads stand for, and   *)
(* what each step of ClientServer does to the two directions, to what has  *)
(* been written and not yet been read.                                     *)
(***************************************************************************)
EXTENDS ClientServer, TCPClient_proofs, SequenceTheorems, TLAPS

-----------------------------------------------------------------------------
(* Payloads: the facts about Units on which the correctness of the outputs  *)
(* rests.                                                                  *)

\* The units of a range are a payload, of the length of the range.
LEMMA UnitsType ==
  ASSUME NEW fn \in {"input", "arg"} \cup OpKinds, NEW k \in Nat,
         NEW i \in Nat \ {0}, NEW j \in Nat, i <= j + 1
  PROVE  /\ Units(fn, k, i, j) \in Payloads
         /\ Len(Units(fn, k, i, j)) = j - i + 1
<1>1. j - i + 1 \in Nat
  OBVIOUS
<1>2. \A n \in 1..(j - i + 1) : [fn |-> fn, op |-> k, unit |-> i + n - 1] \in Ciphers
  BY DEF Ciphers
<1>3. Units(fn, k, i, j) \in [1..(j - i + 1) -> Ciphers]
  BY <1>2 DEF Units
<1>4. Units(fn, k, i, j) \in Payloads
  BY <1>1, <1>3, SeqDef DEF Payloads
<1>5. QED
  BY <1>1, <1>3, <1>4, LenProperties DEF Payloads, Units

\* No units.
LEMMA UnitsEmpty ==
  ASSUME NEW fn \in {"input", "arg"} \cup OpKinds, NEW k \in Nat
  PROVE  Units(fn, k, 1, 0) = <<>>
  BY UnitsType, EmptySeq DEF Payloads

\* The units of two ranges, one after the other, are those of the whole.
LEMMA UnitsConcat ==
  ASSUME NEW fn \in {"input", "arg"} \cup OpKinds, NEW k \in Nat,
         NEW i \in Nat \ {0}, NEW j \in Nat, i <= j + 1
  PROVE  Units(fn, k, 1, i - 1) \o Units(fn, k, i, j) = Units(fn, k, 1, j)
<1> DEFINE a == Units(fn, k, 1, i - 1)
           b == Units(fn, k, i, j)
           c == Units(fn, k, 1, j)
<1>0. i \in Int /\ i >= 1 /\ i - 1 \in Nat /\ 1 \in Nat \ {0}
  OBVIOUS
<1>1. a \in Payloads /\ Len(a) = i - 1
  <2>1. 1 <= (i - 1) + 1
    BY <1>0
  <2>2. a \in Payloads /\ Len(a) = (i - 1) - 1 + 1
    BY <1>0, <2>1, UnitsType
  <2>3. QED
    BY <1>0, <2>2
<1>2. b \in Payloads /\ Len(b) = j - i + 1
  BY UnitsType
<1>3. c \in Payloads /\ Len(c) = j
  <2>1. c \in Payloads /\ Len(c) = j - 1 + 1
    BY <1>0, UnitsType, 1 <= j + 1
  <2>2. QED
    BY <2>1
<1>4. a \o b \in Payloads /\ Len(a \o b) = Len(c)
  <2> HIDE DEF a, b, c
  <2>1. a \o b \in Payloads /\ Len(a \o b) = Len(a) + Len(b)
    BY <1>1, <1>2, ConcatProperties DEF Payloads
  <2>2. QED
    BY <1>0, <1>1, <1>2, <1>3, <2>1
<1>5. ASSUME NEW n \in 1..Len(c) PROVE (a \o b)[n] = c[n]
  <2>1. n \in Int /\ 1 <= n /\ n <= j
    BY <1>3, <1>5
  <2>2. c[n] = [fn |-> fn, op |-> k, unit |-> n]
    BY <2>1 DEF Units
  <2>3. (a \o b)[n] = IF n <= Len(a) THEN a[n] ELSE b[n - Len(a)]
    <3> HIDE DEF a, b, c
    <3>1. n \in 1..(Len(a) + Len(b))
      BY <1>0, <1>1, <1>2, <2>1
    <3>2. QED
      BY <1>1, <1>2, <3>1, ConcatProperties DEF Payloads
  <2>4. CASE n <= i - 1
    <3>1. a[n] = [fn |-> fn, op |-> k, unit |-> n]
      BY <1>0, <2>1, <2>4 DEF Units
    <3>2. QED
      BY <1>1, <2>2, <2>3, <2>4, <3>1
  <2>5. CASE ~(n <= i - 1)
    <3>1. n - (i - 1) \in 1..(j - i + 1) /\ i + (n - (i - 1)) - 1 = n
      BY <1>0, <2>1, <2>5
    <3>2. b[n - (i - 1)] = [fn |-> fn, op |-> k, unit |-> n]
      BY <3>1 DEF Units
    <3>3. QED
      BY <1>1, <2>2, <2>3, <2>5, <3>2
  <2>6. QED
    BY <2>4, <2>5
<1>6. QED
  <2> HIDE DEF a, b, c
  <2>1. a \o b = c
    BY <1>3, <1>4, <1>5, SeqEqual DEF Payloads
  <2>2. QED
    BY <2>1 DEF a, b, c

-----------------------------------------------------------------------------
(* The program.                                                            *)

\* The inputs are a payload, one ciphertext for each element of the parameter.
LEMMA InputsType == Inputs \in Payloads /\ Len(Inputs) = ParameterSize
<1>1. ParameterSize \in Nat /\ 1 <= ParameterSize + 1
  BY ParameterSizeAssumption
<1>2. Inputs \in Payloads /\ Len(Inputs) = ParameterSize - 1 + 1
  BY <1>1, UnitsType DEF Inputs
<1>3. QED
  BY <1>1, <1>2

\* The nodes of the program.
LEMMA NodeType ==
  ASSUME NEW k \in Nat \ {0}, k <= Len(Program)
  PROVE  Program[k].kind \in OpKinds /\ Program[k].units \in Nat \ {0}
<1>1. Program[k] \in OpType
  BY ProgramAssumption
<1>2. QED
  BY <1>1 DEF OpType

\* The output of an operation is a payload, with the elements it should have.
LEMMA OutputType ==
  ASSUME NEW k \in Nat \ {0}, k <= Len(Program)
  PROVE  Output(k) \in Payloads /\ Len(Output(k)) = Program[k].units
<1> DEFINE fn == Program[k].kind
           n == Program[k].units
<1>1. fn \in OpKinds /\ n \in Nat \ {0}
  BY NodeType
<1> HIDE DEF fn, n
<1>2. Units(fn, k, 1, n) \in Payloads /\ Len(Units(fn, k, 1, n)) = n - 1 + 1
  <2>1. fn \in {"input", "arg"} \cup OpKinds /\ k \in Nat /\ 1 \in Nat \ {0} /\ n \in Nat
        /\ 1 <= n + 1
    BY <1>1
  <2>2. QED
    BY <2>1, UnitsType
<1>3. QED
  BY <1>1, <1>2 DEF Output, fn, n

\* The value of the function is a payload.
LEMMA FinalOutputType == FinalOutput \in Payloads
<1>1. CASE Program = <<>>
  BY <1>1, InputsType DEF FinalOutput
<1>2. CASE Program # <<>>
  <2>1. Len(Program) \in Nat \ {0}
    BY <1>2, ProgramAssumption, EmptySeq, LenProperties
  <2>2. QED
    BY <1>2, <2>1, OutputType DEF FinalOutput
<1>3. QED
  BY <1>1, <1>2

-----------------------------------------------------------------------------
(* Directions.                                                             *)

\* The types, and the queue of the client with its writer.
ChannelsOK == QueueOK(Messages) /\ TCPSessionTypeOK(Messages)

\* What is on its way are messages.
LEMMA ChannelTypes ==
  ASSUME ChannelsOK
  PROVE  /\ c2s \in Seq(Messages) /\ Unsent \in Seq(Messages) /\ ToServer \in Seq(Messages)
         /\ s2c \in Seq(Messages) /\ sWrites \in Seq(Messages) /\ ToClient \in Seq(Messages)
<1>1. c2s \in Seq(Messages) /\ s2c \in Seq(Messages) /\ sWrites \in Seq(Messages)
  BY DEF ChannelsOK, QueueOK, TCPClientTypeOK, TCPSessionTypeOK
<1>2. Unsent \in Seq(Messages)
  BY UnsentType DEF ChannelsOK
<1>3. QED
  BY <1>1, <1>2, ConcatProperties DEF ToServer, ToClient

\* A sequence of length one.
LEMMA OneMessage ==
  ASSUME NEW s \in Seq(Messages), Len(s) = 1
  PROVE  s = <<Head(s)>> /\ Tail(s) = <<>>
<1>1. s # <<>> /\ Head(s) \in Messages /\ Tail(s) \in Seq(Messages) /\ Len(Tail(s)) = 0
  BY EmptySeq, HeadTailProperties
<1>2. Tail(s) = <<>>
  BY <1>1, EmptySeq
<1>3. /\ Append(<<>>, Head(s)) \o Tail(s) = <<>> \o s
      /\ <<Head(s)>> \in Seq(Messages) /\ Append(<<>>, Head(s)) = <<Head(s)>>
  BY <1>1, EmptySeq, MoveHead
<1>4. <<Head(s)>> \o <<>> = <<Head(s)>> /\ <<>> \o s = s
  BY <1>3, ConcatEmptySeq
<1>5. QED
  BY <1>2, <1>3, <1>4

\* Nothing changes for a step that touches no end of the connection.
LEMMA SameChannels ==
  ASSUME ChannelsOK, UNCHANGED <<networkVars, sessionVars, clientVars>>
  PROVE  ChannelsOK' /\ ToClient' = ToClient /\ ToServer' = ToServer
<1>1. QueueOK(Messages)' /\ Unsent' = Unsent
  BY OthersKeepQueue DEF ChannelsOK, QueueOK, TCPClientTypeOK, networkVars
<1>2. QED
  BY <1>1 DEF ChannelsOK, TCPSessionTypeOK, networkVars, sessionVars, ToClient, ToServer

\* do_write, when the client has heard all: the message is on its way, unless
\* the connection has ended.
LEMMA DoWriteAdds ==
  ASSUME ChannelsOK, NEW m \in Messages, ToClient = <<>>, do_write(m),
         UNCHANGED <<link, clientVars>>, c2s' \in Seq(Messages),
         sRead' \in {"none", "header", "body"}
  PROVE  /\ ChannelsOK'
         /\ Unsent' = Unsent
         /\ s2c' = s2c \/ link = "up"
         /\ ToClient' = <<m>> \/ (ToClient' = <<>> /\ link # "up")
<1>1. s2c = <<>> /\ sWrites = <<>>
  BY ChannelTypes, ConcatEqualIffEmpty DEF ToClient
<1>2. Append(<<>>, m) = <<m>> /\ <<m>> \in Seq(Messages)
  OBVIOUS
<1>3. \/ s2c' = <<m>> /\ link = "up" /\ sWrites' = <<>>
      \/ s2c' = <<>> /\ link # "up" /\ sWrites' = <<>>
      \/ s2c' = <<>> /\ sWrites' = <<m>>
  BY <1>1, <1>2 DEF do_write
<1>4. s2c' \in Seq(Messages) /\ sWrites' \in Seq(Messages)
  BY <1>2, <1>3, EmptySeq
<1>5. QueueOK(Messages)' /\ Unsent' = Unsent
  BY <1>4, OthersKeepQueue DEF ChannelsOK, QueueOK, TCPClientTypeOK
<1>6. <<m>> \o <<>> = <<m>> /\ <<>> \o <<m>> = <<m>>
  BY <1>2, ConcatEmptySeq
<1>7. <<>> \o <<>> = <<>>
  BY EmptySeq, ConcatEmptySeq
<1>8. ToClient' = <<m>> \/ (ToClient' = <<>> /\ link # "up")
  BY <1>3, <1>6, <1>7 DEF ToClient
<1>9. QED
  BY <1>1, <1>3, <1>4, <1>5, <1>8 DEF ChannelsOK, TCPSessionTypeOK

\* The kernel sends the oldest write: the client can read it, or it is gone
\* with the connection.
LEMMA ServerTransmitMoves ==
  ASSUME ChannelsOK, ServerTransmit, UNCHANGED clientVars
  PROVE  /\ ChannelsOK'
         /\ ToClient # <<>>
         /\ ToServer' = ToServer
         /\ link = "up" => ToClient' = ToClient
         /\ link # "up" /\ Len(ToClient) = 1 => ToClient' = <<>>
<1>0. s2c \in Seq(Messages) /\ sWrites \in Seq(Messages)
  BY ChannelTypes
<1>1. sWrites # <<>>
  BY DEF ServerTransmit
<1>2. ToClient # <<>>
  BY <1>0, <1>1, ConcatEqualIffEmpty DEF ToClient
<1>3. Head(sWrites) \in Messages /\ Tail(sWrites) \in Seq(Messages)
  BY <1>0, <1>1, HeadTailProperties
<1>4. s2c' \in Seq(Messages) /\ sWrites' \in Seq(Messages)
  BY <1>0, <1>3 DEF ServerTransmit
<1>5. QueueOK(Messages)' /\ Unsent' = Unsent
  BY <1>4, OthersKeepQueue DEF ChannelsOK, QueueOK, TCPClientTypeOK, ServerTransmit
<1>6. ASSUME link = "up" PROVE ToClient' = ToClient
  <2>1. Append(s2c, Head(sWrites)) \o Tail(sWrites) = s2c \o sWrites
    BY <1>0, <1>1, MoveHead
  <2>2. QED
    BY <1>6, <2>1 DEF ServerTransmit, ToClient
<1>7. ASSUME link # "up", Len(ToClient) = 1 PROVE ToClient' = <<>>
  <2>1. Len(s2c) + Len(sWrites) = 1
    BY <1>0, <1>7, ConcatProperties DEF ToClient
  <2>2. Len(s2c) \in Nat /\ Len(sWrites) \in Nat /\ Len(sWrites) # 0
    BY <1>0, <1>1, LenProperties, EmptySeq
  <2>3. Len(s2c) = 0 /\ Len(Tail(sWrites)) = 0
    <3>1. Len(s2c) = 0 /\ Len(sWrites) = 1
      <4>1. \A a, b \in Nat : a + b = 1 /\ b # 0 => a = 0 /\ b = 1
        OBVIOUS
      <4>2. QED
        BY <2>1, <2>2, <4>1
    <3>2. Len(Tail(sWrites)) = Len(sWrites) - 1
      BY <1>0, <1>1, HeadTailProperties
    <3>3. QED
      BY <3>1, <3>2
  <2>4. s2c = <<>> /\ Tail(sWrites) = <<>>
    BY <1>0, <1>3, <2>3, EmptySeq
  <2>5. <<>> \o <<>> = <<>>
    BY EmptySeq, ConcatEmptySeq
  <2>6. QED
    BY <1>7, <2>4, <2>5 DEF ServerTransmit, ToClient
<1>8. QED
  BY <1>2, <1>4, <1>5, <1>6, <1>7
     DEF ChannelsOK, TCPSessionTypeOK, ServerTransmit, ToServer

\* The server reads the oldest message the client has written.
LEMMA ServerReadTakes ==
  ASSUME ChannelsOK, ServerReadBody
  PROVE  /\ ToServer # <<>>
         /\ Head(c2s) = Head(ToServer)
         /\ c2s' \in Seq(Messages)
         /\ c2s' \o Unsent = Tail(ToServer)
         /\ c2s # <<>>
  BY ChannelTypes, TakeHead, HeadTailProperties
     DEF ServerReadBody, ServerDataAvailable, ToServer

\* The same with what the handler leaves alone: the connection, the client and
\* what has been written to it.
LEMMA ServerReads ==
  ASSUME ChannelsOK, ServerReadBody, UNCHANGED <<link, s2c, sWrites, clientVars>>,
         sRead' \in {"none", "header", "body"}
  PROVE  /\ ChannelsOK'
         /\ ToServer # <<>>
         /\ Head(c2s) = Head(ToServer)
         /\ ToServer' = Tail(ToServer)
         /\ ToClient' = ToClient
<1>1. QueueOK(Messages)' /\ Unsent' = Unsent
  BY ServerReadTakes, OthersKeepQueue DEF ChannelsOK, QueueOK, TCPClientTypeOK
<1>2. QED
  BY <1>1, ServerReadTakes DEF ChannelsOK, TCPSessionTypeOK, ToServer, ToClient

\* The kernel sends the client's oldest unsent message.
LEMMA ClientTransmitMoves ==
  ASSUME ChannelsOK, ClientTransmit, UNCHANGED sessionVars
  PROVE  /\ ChannelsOK'
         /\ ToServer # <<>>
         /\ ToClient' = ToClient
         /\ link = "up" => ToServer' = ToServer
<1> USE ChannelTypes
<1>1. /\ QueueOK(Messages)' /\ Unsent # <<>> /\ Unsent' = Tail(Unsent)
      /\ c2s' = IF link = "up" THEN Append(c2s, Head(Unsent)) ELSE c2s
  BY TransmitKeepsQueue DEF ChannelsOK
<1>2. ToServer # <<>>
  BY <1>1, ConcatEqualIffEmpty DEF ToServer
<1>3. link = "up" => ToServer' = ToServer
  BY <1>1, MoveHead DEF ToServer
<1>4. QED
  BY <1>1, <1>2, <1>3
     DEF ChannelsOK, TCPSessionTypeOK, sessionVars, ClientTransmit, ToClient

\* The client reads the oldest message written to it; its answer comes after
\* what it has written before.
LEMMA ClientReadTakes ==
  ASSUME ChannelsOK, NEW ms \in Seq(Messages), NEW closing \in BOOLEAN,
         ClientReadBody(ms, closing), UNCHANGED sessionVars
  PROVE  /\ ChannelsOK'
         /\ ToClient # <<>>
         /\ Head(s2c) = Head(ToClient)
         /\ ToClient' = Tail(ToClient)
         /\ ToServer = <<>> => ToServer' = ms
<1> USE ChannelTypes
<1>1. QueueOK(Messages)' /\ Unsent' = Unsent \o ms
  BY ReadBodyKeepsQueue DEF ChannelsOK
<1>2. s2c # <<>> /\ s2c' = Tail(s2c) /\ c2s' = c2s
  BY DEF ClientReadBody, ClientDataAvailable
<1>3. ToClient # <<>> /\ Head(s2c) = Head(ToClient) /\ ToClient' = Tail(ToClient)
  BY <1>2, TakeHead DEF ToClient, sessionVars
<1>4. ASSUME ToServer = <<>> PROVE ToServer' = ms
  <2>1. c2s = <<>> /\ Unsent = <<>>
    BY <1>4, ConcatEqualIffEmpty DEF ToServer
  <2>2. <<>> \o (<<>> \o ms) = ms
    BY ConcatEmptySeq
  <2>3. QED
    BY <1>1, <1>2, <2>1, <2>2 DEF ToServer
<1>5. QED
  BY <1>1, <1>3, <1>4 DEF ChannelsOK, TCPSessionTypeOK, sessionVars

\* A connection that breaks takes with it what has left the two ends.
LEMMA LostTakes ==
  ASSUME ChannelsOK, ConnectionLost, UNCHANGED <<sessionVars, clientVars>>
  PROVE  /\ ChannelsOK'
         /\ ToServer = <<>> => ToServer' = <<>>
         /\ ToClient = <<>> => ToClient' = <<>>
         /\ Len(ToClient) = 1 => ToClient' \in {<<>>, ToClient}
<1> USE ChannelTypes
<1>1. c2s' = <<>> /\ s2c' = <<>> /\ link' \in LinkStates /\ sWrites' = sWrites
  BY DEF ConnectionLost, LinkStates, sessionVars
<1>2. QueueOK(Messages)' /\ Unsent' = Unsent
  BY <1>1, EmptySeq, OthersKeepQueue DEF ChannelsOK
<1>3. ToServer' = Unsent /\ ToClient' = sWrites
  BY <1>1, <1>2, ConcatEmptySeq DEF ToServer, ToClient
<1>4. /\ ToServer = <<>> => Unsent = <<>>
      /\ ToClient = <<>> => sWrites = <<>>
  BY ConcatEqualIffEmpty DEF ToServer, ToClient
<1>5. ASSUME Len(ToClient) = 1 PROVE sWrites \in {<<>>, ToClient}
  <2>1. Len(s2c) + Len(sWrites) = 1
    BY <1>5, ConcatProperties DEF ToClient
  <2>2. Len(s2c) = 0 \/ Len(sWrites) = 0
    BY <2>1, LenProperties
  <2>3. s2c = <<>> \/ sWrites = <<>>
    BY <2>2, EmptySeq
  <2>4. QED
    BY <2>3, ConcatEmptySeq DEF ToClient
<1>6. QED
  BY <1>2, <1>3, <1>4, <1>5 DEF ChannelsOK, TCPSessionTypeOK, sessionVars
=============================================================================
