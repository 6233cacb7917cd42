--------------------------- MODULE GraphExecution ---------------------------
(***************************************************************************)
(* HESealExecutable::call() (src/seal/he_seal_executable.cpp), again and   *)
(* again on the tensors of its caller, who writes and reads them in        *)
(* between; or, with a client, on the inputs that the client has sent.     *)
(*                                                                         *)
(* Tensors have one element, a pointer into a heap: tensors share          *)
(* ciphertexts, operations match levels in place, and the ciphertexts of   *)
(* the caller stay at the level a call has left them.                      *)
(***************************************************************************)
EXTENDS Elements, DataflowGraphs, FiniteSets

CONSTANTS
  Graphs,       \* functions that are compiled, their parameters first
  Numbers,      \* that the caller writes
  Addresses,    \* of the heap: as many as are ever in use, and more
  KnownDefects  \* whether the caller meets what the code is wrong on

ASSUME GraphsAssumption ==
  \A g \in Graphs :
    /\ WellFormed(g)
    /\ \A i \in Of(g, "parameter") : i <= Cardinality(Of(g, "parameter"))
\* One address for each input, result and node of a call, and one more.
ASSUME AddressesAssumption ==
  /\ Addresses \subseteq Nat
  /\ \A g \in Graphs : 1..(Cardinality(Of(g, "parameter")) + Len(g) + 1) \subseteq Addresses
\* write() throws at what cannot be encoded.
ASSUME NumbersAssumption ==
  Numbers \subseteq Int /\ \A v \in Numbers : Encode(Plain(<<v>>, FALSE)) # Thrown

VARIABLES
  function,    \* what was compiled
  nodes,       \* m_wrapped_nodes
  config,      \* m_encrypt_data, m_encrypt_model, m_enable_client
  heap,        \* elements by address
  inputs,      \* tensors of the caller, or m_client_inputs: [cipher, at]
  outputs,     \* tensors of the caller, one for each result
  written,     \* the number last written to each input
  at,          \* where call() is: "idle", "parameters", "nodes" or "end"
  next,        \* the node it is at
  tensorMap,   \* the tensors it knows, by the node that made them
  message,     \* the numbers of the last result message, <<>> if there is none
  used,        \* inputs that a call has used since they were written
  failed       \* "no", "threw", "client": what cannot be sent to the client, or
               \* "defect": operands are met that the code is wrong on

configVars == <<function, nodes, config>>
callerVars == <<inputs, outputs, written>>
callVars == <<at, next, tensorMap, message, used>>
vars == <<configVars, heap, callerVars, callVars, failed>>

Parameters == Of(function, "parameter")
Results == 1..Cardinality(Of(function, "result"))
Node == nodes[next]

\* Which result a node is, in the order of get_results().
ResultIndex(node) ==
  Cardinality({n \in DOMAIN nodes : nodes[n].op = "result" /\ nodes[n].id <= node.id})

\* The tensors of results in tensor_map: the loop counts every output twice.
Mapped(j) == j % 2 = 1

-----------------------------------------------------------------------------
(* The heap.                                                               *)

Pointers(ins, outs, map) ==
  {ins[i].at : i \in DOMAIN ins} \cup {outs[j].at : j \in DOMAIN outs}
    \cup {map[k].at : k \in DOMAIN map}

\* make_shared: an address that no pointer has.
New == CHOOSE a \in Addresses :
         /\ a \notin Pointers(inputs, outputs, tensorMap)
         /\ \A b \in Addresses : b < a => b \in Pointers(inputs, outputs, tensorMap)

\* The heap becomes h, without what the last pointer to is gone.
Keep(h) ==
  heap' = [a \in Addresses |->
             IF a \in Pointers(inputs', outputs', tensorMap') THEN h[a] ELSE EmptyPlain]

\* read(): <<number>>, <<>> if it throws.
Read(tensor) == ValuesOf(heap[tensor.at])

Write1(x, v) ==
  IF x.cipher THEN Cipher(Encrypt(x.e, Plain(<<v>>, FALSE))) ELSE PlainOf(Plain(<<v>>, FALSE))

-----------------------------------------------------------------------------
(* The client, which does not pack: NGRAPH_COMPLEX_PACK is not set.         *)

\* It encodes the numbers of a batch, zeros like others, each in a slot of its own,
EncodeBatch(values) ==
  IF Len(values) <= Slots /\ \A k \in DOMAIN values : Fits(values[k], Scale, Top)
  THEN Data(Top, Scale, Padded([k \in DOMAIN values |-> <<values[k], 0>>]))
  ELSE Thrown

\* and decodes as many, whatever the server takes the packing to be.
ClientDecodes(data) == [k \in 1..BatchSize |-> data.slots[k][1]]

\* handle_message(execute): an input is wrapped, as what is not known to be zero, and
\* always marked packed.
ClientInput(v) ==
  Cipher([zero |-> FALSE, packed |-> TRUE, data |-> EncodeBatch([k \in 1..BatchSize |-> v])])

\* The mark of packing apart, there is no packing in what a call meets.
Unmarked(x) == IF x.cipher THEN [x EXCEPT !.e.packed = FALSE] ELSE x

-----------------------------------------------------------------------------
(* The caller.                                                             *)

\* A zero flag that is set stays set when another number is encrypted.
RewritesZero(x, v) == x.cipher /\ x.e.zero /\ v # 0

\* Outputs that only move an input are its ciphertexts.
SharedByOutput(i) == \E j \in DOMAIN outputs : outputs[j].at = inputs[i].at

Writable(i, v) ==
  KnownDefects \/ ~(RewritesZero(heap[inputs[i].at], v) \/ SharedByOutput(i))

\* HESealCipherTensor::write, HEPlainTensor::write
Write(i, v) ==
  /\ at = "idle" /\ failed = "no" /\ ~config.enableClient
  /\ Writable(i, v)
  /\ written' = [written EXCEPT ![i] = v]
  /\ heap' = [heap EXCEPT ![inputs[i].at] = Write1(@, v)]
  /\ used' = used \ {i}
  /\ UNCHANGED <<configVars, inputs, outputs, at, next, tensorMap, message, failed>>

-----------------------------------------------------------------------------
(* call().                                                                 *)

\* With a client, the inputs have been received and are there still.
Call ==
  /\ at = "idle" /\ failed = "no"
  /\ at' = "parameters"
  /\ UNCHANGED <<configVars, heap, callerVars, next, tensorMap, message, used, failed>>

\* tensor_map.insert({tv, tensor}), and of a new tensor with element x.
Inserted(id, tensor) == [k \in DOMAIN tensorMap \cup {id} |-> IF k = id THEN tensor ELSE tensorMap[k]]

\* With m_encrypt_data a parameter is a new ciphertext, of what a plain input holds.
EncryptsInputs == config.encryptData /\ ~config.enableClient

Fail(why) ==
  /\ failed' = why
  /\ UNCHANGED <<configVars, heap, callerVars, callVars>>

MapParameter(i) ==
  /\ at = "parameters" /\ failed = "no"
  /\ i \in Parameters \ DOMAIN tensorMap
  /\ LET x == heap[inputs[i].at]
         c == Encrypt(NewCipher, x.e)
     IN  IF EncryptsInputs /\ c = Thrown THEN Fail("threw")
         ELSE /\ UNCHANGED <<configVars, callerVars, at, next, message, used, failed>>
              /\ IF EncryptsInputs
                 THEN /\ tensorMap' = Inserted(i, [cipher |-> TRUE, at |-> New])
                      /\ Keep([heap EXCEPT ![New] = Cipher(c)])
                 ELSE /\ tensorMap' = Inserted(i, inputs[i])
                      /\ UNCHANGED heap

GoToFirst(positions) ==
  \E n \in positions : next' = n /\ \A m \in positions : n <= m

\* Every input of the caller is mapped: the first node is next.
Begin ==
  /\ at = "parameters" /\ failed = "no"
  /\ Parameters \subseteq DOMAIN tensorMap
  /\ at' = "nodes"
  /\ GoToFirst(DOMAIN nodes)
  /\ UNCHANGED <<configVars, heap, callerVars, tensorMap, message, used, failed>>

\* tensor_map.at of an argument.
HasArgs == Node.op = "parameter" \/ Args(Node) \subseteq DOMAIN tensorMap
Arg(n) == tensorMap[Node.args[n]]
Element(n) == heap[Arg(n).at]

\* A constant, encrypted with m_encrypt_model.
ConstantOf(number) ==
  LET c == Plain(<<number>>, FALSE)
  IN  IF config.encryptModel THEN Result(EmptyPlain, EmptyPlain, Encrypt(NewCipher, c))
      ELSE PlainResult(EmptyPlain, EmptyPlain, c)

\* handle_server_relu_op: the client decodes, applies f and encrypts anew, and its
\* answer is a new element.  What the client throws counts as thrown here.
Answer(values) == Assigned(NewCipher, EncodeBatch(values))
AskClient(x, f(_)) ==
  Result(x, x,
         IF x.e.data = NoData THEN Thrown
         ELSE Answer([k \in 1..BatchSize |-> f(ClientDecodes(x.e.data)[k])]))

\* A relu of the client: it is not sent known zeros, and has no bound but 6.
ByClient ==
  config.enableClient /\ Node.op \in {"relu", "bounded_relu"} /\ HasArgs /\ Element(1).cipher
NotForClient == Element(1).e.zero \/ (Node.op = "bounded_relu" /\ Node.number # 6)

\* generate_calls for a node that computes: <<arg0, arg1, out>>.
Kernel ==
  CASE Node.op = "constant" -> ConstantOf(Node.number)
    [] Node.op = "add" -> AddOf(Element(1), Element(2))
    [] Node.op = "multiply" -> MultiplyOf(Element(1), Element(2))
    [] Node.op = "minimum" -> MinimumOf(Element(1), Element(2))
    [] Node.op = "relu" ->
         IF ByClient THEN AskClient(Element(1), Relu) ELSE ReluOf(Element(1))
    [] Node.op = "bounded_relu" ->
         IF ByClient THEN AskClient(Element(1), LAMBDA z : BoundedRelu(z, Node.number))
         ELSE BoundedReluOf(Element(1), Node.number)

\* The arguments as the kernel leaves them.
ArgsAfterInPlace(r) ==
  [a \in Addresses |->
     IF \E n \in DOMAIN Node.args : Arg(n).at = a /\ r[n].cipher THEN r[3] ELSE heap[a]]
ArgsAfter(r) ==
  [a \in Addresses |->
     IF \E n \in DOMAIN Node.args : Arg(n).at = a
     THEN r[CHOOSE n \in DOMAIN Node.args : Arg(n).at = a] ELSE heap[a]]

\* On to the next node, with the obsolete tensors erased.
FreedAll(map) == [k \in DOMAIN map \ Args(Node) |-> map[k]]
Freed(map) == [k \in DOMAIN map \ Node.free |-> map[k]]
Advance(map) ==
  /\ tensorMap' = Freed(map)
  /\ LET rest == {n \in DOMAIN nodes : n > next}
     IN  IF rest = {} THEN at' = "end" /\ UNCHANGED next
         ELSE GoToFirst(rest) /\ UNCHANGED at
  /\ UNCHANGED <<configVars, inputs, written, message, used, failed>>

Running == at = "nodes" /\ failed = "no"

SkipParameter ==
  /\ Running /\ Node.op = "parameter"
  /\ Advance(tensorMap)
  /\ UNCHANGED <<heap, outputs>>

\* What a client sent is marked packed, and what is made of it by sums of ciphers and
\* by products with numbers; products of ciphers, sums with numbers, the client's
\* answers and encrypted constants are not, and no sum takes both.
MarkedDifferently(x, y) ==
  x.cipher /\ y.cipher /\ ~x.e.zero /\ ~y.e.zero /\ x.e.packed # y.e.packed

\* Operands on which the code is known to be wrong.
DefectiveArgs ==
  \/ Node.op = "add" /\ MarkedDifferently(Element(1), Element(2))
  \/ /\ Node.op \in {"add", "multiply", "minimum"}
     /\ Defective(Node.op, Unmarked(Element(1)), Unmarked(Element(2)))

\* The minimum of a cipher takes over its ciphertexts, like a movement.
TakesOver == Node.op = "reshape" \/ (Node.op = "minimum" /\ HasArgs /\ Element(1).cipher)

Compute ==
  /\ Running /\ ~TakesOver
  /\ Node.op \in {"constant", "add", "multiply", "minimum", "relu", "bounded_relu"}
  /\ IF ~HasArgs THEN Fail("threw")
     ELSE IF ~KnownDefects /\ DefectiveArgs THEN Fail("defect")
     ELSE IF ByClient /\ NotForClient THEN Fail("client")
     ELSE IF Kernel = Thrown THEN Fail("threw")
     ELSE /\ Advance(Inserted(Node.id, [cipher |-> Kernel[3].cipher, at |-> New]))
          /\ UNCHANGED outputs
          /\ Keep([ArgsAfter(Kernel) EXCEPT ![New] = Kernel[3]])

\* A movement gives its result the ciphertext of the argument, or a copy of the
\* plaintext.
Reshape ==
  /\ Running /\ TakesOver
  /\ IF ~HasArgs THEN Fail("threw")
     ELSE IF ~KnownDefects /\ DefectiveArgs THEN Fail("defect")
     ELSE LET out == IF Arg(1).cipher THEN Arg(1) ELSE [cipher |-> FALSE, at |-> New]
          IN  /\ Advance(Inserted(Node.id, out))
              /\ UNCHANGED outputs
              /\ Keep([heap EXCEPT ![out.at] = Element(1)])

\* result_seal into the caller's tensor out: <<arg, arg, what out points to then>>.
ResultOf(out) ==
  LET x == Element(1)
  IN  CASE x.cipher = out.cipher     -> <<x, x, x>>
        [] x.cipher /\ ~out.cipher  -> PlainResult(x, x, Decrypt(x.e))
        [] ~x.cipher /\ out.cipher  -> Result(x, x, Encrypt(heap[out.at].e, x.e))

EncryptsOverZero(out) ==
  ~Element(1).cipher /\ RewritesZero(heap[out.at], Element(1).e.values[1])

\* A result that is not mapped goes to a new tensor of the kind of its argument, and
\* nowhere.
ResultTensor(j) == IF Mapped(j) THEN outputs[j] ELSE Arg(1)

\* With a client the argument is what is sent, and must be a ciphertext.
Result1 ==
  /\ Running /\ Node.op = "result"
  /\ IF ~HasArgs THEN Fail("threw")
     ELSE LET j == ResultIndex(Node)
              out == ResultTensor(j)
          IN  IF config.enableClient /\ ~Arg(1).cipher THEN Fail("client")
              ELSE IF ~KnownDefects /\ EncryptsOverZero(out) THEN Fail("defect")
              ELSE IF ResultOf(out) = Thrown THEN Fail("threw")
              ELSE
              /\ Advance(tensorMap)
              /\ IF ~Mapped(j) THEN UNCHANGED outputs /\ Keep(heap)
                 ELSE IF Arg(1).cipher /\ out.cipher
                 THEN outputs' = [outputs EXCEPT ![j] = Arg(1)] /\ Keep(heap)
                 ELSE UNCHANGED outputs /\ Keep([heap EXCEPT ![out.at] = ResultOf(out)[3]])

\* call() returns, and tensor_map with its pointers is gone.  With a client the
\* ciphertext of the result's argument, which is its own now, is sent, unless it is a
\* known zero; and the client decodes it.
Sent == heap[outputs[1].at].e
NotSent == Sent.zero \/ Sent.data = NoData

Return ==
  /\ at = "end" /\ failed = "no"
  /\ IF config.enableClient /\ NotSent THEN Fail("client")
     ELSE /\ message' = IF config.enableClient THEN ClientDecodes(Sent.data) ELSE message
          /\ at' = "idle"
          /\ next' = 1
          /\ tensorMap' = <<>>
          /\ used' = Parameters
          /\ UNCHANGED <<configVars, callerVars, failed>>
          /\ Keep(heap)

\* call() has thrown, and the process with it.
Finished == failed # "no" /\ UNCHANGED vars

-----------------------------------------------------------------------------
Configs == [encryptData: BOOLEAN, encryptModel: BOOLEAN, enableClient: BOOLEAN]

Init ==
  /\ function \in Graphs
  /\ nodes = Compiled(function)
  /\ KnownDefects \/ (FreesSoundly(nodes) /\ BoundsNotNegative(nodes))
  /\ config \in Configs
  /\ written \in [Parameters -> Numbers]
  /\ \E ciphers \in [Parameters -> BOOLEAN], outCipher \in BOOLEAN :
       \* with a client all are ciphers (what it has encrypted its caller's plain output
       \* could not be decrypted from here), and its one input and its result are alone
       /\ config.enableClient =>
            /\ outCipher /\ \A i \in Parameters : ciphers[i]
            /\ Cardinality(Parameters) = 1 /\ Results = {1}
       \* only plain inputs can be encrypted by call()
       /\ EncryptsInputs => \A i \in Parameters : ~ciphers[i]
       /\ inputs = [i \in Parameters |-> [cipher |-> ciphers[i], at |-> i]]
       /\ outputs = [j \in Results |-> [cipher |-> outCipher, at |-> Cardinality(Parameters) + j]]
  /\ heap = [a \in Addresses |->
               IF a \in Parameters
               THEN IF config.enableClient THEN ClientInput(written[a])
                    ELSE Write1(Empty(inputs[a].cipher), written[a])
               ELSE IF a \in {outputs[j].at : j \in Results} THEN Empty(outputs[1].cipher)
               ELSE EmptyPlain]
  /\ at = "idle"
  /\ next = 1
  /\ tensorMap = <<>>
  /\ message = <<>>
  /\ used = {}
  /\ failed = "no"

Next ==
  \/ \E i \in Parameters, v \in Numbers : Write(i, v)
  \/ Call
  \/ \E i \in Parameters : MapParameter(i)
  \/ Begin \/ SkipParameter \/ Compute \/ Reshape \/ Result1
  \/ Return
  \/ Finished

Spec == Init /\ [][Next]_vars

-----------------------------------------------------------------------------
(* Properties.                                                             *)

\* No lookup in tensor_map fails: what a node that is still to run reads is there
\* once it has been made, though the lists of what to erase are from before a
\* fusion has changed the graph.
ArgumentsInMap ==
  at = "nodes" =>
    \A n \in DOMAIN nodes : n >= next =>
      \A k \in Args(nodes[n]) :
        k \in Parameters \/ (\E m \in DOMAIN nodes : m < next /\ nodes[m].id = k)
          => k \in DOMAIN tensorMap

\* A call fails only for the levels that calls before it have taken of the same
\* ciphertexts; with m_encrypt_data every call has its own.
FreshCallsSucceed == failed = "threw" => used # {} /\ ~EncryptsInputs

\* The client is sent the function of the inputs it has sent, by every call that
\* evaluates them again.
MessageRight ==
  message # <<>> =>
    message = <<Meaning(function, written)[CHOOSE k \in Of(function, "result") : TRUE]>>

\* The executable and the tensors do what their caller expects: an input reads as it
\* was last written whatever calls have done to its ciphertexts, and a call gives
\* the function of the inputs to every output it has mapped.
MappedResults == {j \in Results : Mapped(j)}
Due ==
  IF at = "nodes"
  THEN {j \in MappedResults :
          \E n \in DOMAIN nodes :
            n >= next /\ nodes[n].op = "result" /\ ResultIndex(nodes[n]) = j}
  ELSE IF at = "parameters" THEN MappedResults ELSE {}
Calls == INSTANCE FunctionCalls WITH
           inputs <- [i \in Parameters |-> Read(inputs[i])[1]],
           outputs <- [j \in MappedResults |-> Read(outputs[j])],
           due <- Due
ImplementsFunctionCalls == Calls!Spec
=============================================================================
