# A TLA+ model of he-transformer

he-transformer is an nGraph backend that evaluates a neural network on
homomorphically encrypted data (SEAL, CKKS). With `NGRAPH_ENABLE_CLIENT` set it
is two programs: a server that holds the network, and a client that holds the
data and the secret key. The server computes linear layers by itself and asks
the client, by messages, for each layer it cannot compute: relu, bounded relu
and max pooling. Two parts of the code are hard. One is that dialogue. The
other is the bookkeeping of ciphertexts: each has a level, a scale, a zero flag
and a packing flag, operations change the levels of their arguments in place,
and tensors share ciphertexts. Both are modelled; the numbers are small integers,
without the noise and the precision of CKKS.

All source paths are relative to `src/src` unless they begin with `src/`.

## 1. Inventory

| component | source | state | operations |
|---|---|---|---|
| TCPClient | `tcp/tcp_client.hpp` | socket, read under way, `m_message_queue`, posted handlers, writes under way | `do_connect`, `do_read_header`, `do_read_body`, `write_message`, `do_write`, `close` |
| TCPSession | `tcp/tcp_session.hpp` | read under way, writes under way | `start`, `do_read_header`, `do_read_body`, `do_write` |
| TCPMessage | `tcp/tcp_message.hpp` | type, count, size, buffer | constructors, moves, header and body codec |
| HESealClient | `seal/he_seal_client.cpp` | context and keys, `m_results`, `m_is_done` | `handle_message`, `handle_relu_request`, `close_connection` |
| HESealExecutable | `seal/he_seal_executable.cpp` | session, five condition variables with a flag each, `m_client_inputs`, answer vectors, wrapped nodes | constructor, `start_server`, `accept_connection`, `handle_message`, `call`, `generate_calls`, `handle_server_relu_op`, destructor |
| tensors | `he_tensor.cpp`, `he_plain_tensor.cpp`, `seal/he_seal_cipher_tensor.cpp` | elements, batch size, shape | `write`, `read`, `set_elements`, `check_io_bounds` |
| HESealBackend | `seal/he_seal_backend.cpp` | SEAL context, keys, scale | `encrypt`, `decrypt`, `encode`, `decode`, `set_public_key`, `set_relin_keys` |
| chain index and scale | `seal/seal_util.cpp` | level and scale of each ciphertext | `match_modulus_and_scale_inplace`, `match_to_smallest_chain_index`, `encode`, `add_plain_inplace`, `multiply_plain_inplace` |
| scalar kernels | `seal/kernel/{add,subtract,multiply,negate,relu,bounded_relu,minimum}_seal.*` | zero flag, packing flag of a ciphertext | one operation per pair of cipher and plain |
| index kernels | the other files of `seal/kernel` | none | pure loops over coordinates |
| encryption parameters | `seal/he_seal_encryption_parameters.hpp` | degree, moduli, scale | parsing and defaults |
| HEFusion | `pass/he_fusion.cpp` | graph | the minimum of a relu and a constant becomes `BoundedRelu` |
| NodeWrapper | `node_wrapper.cpp` | operation type of a node | constructor |
| complex packing | `seal/client_util.hpp` | none | real to complex vectors and back |
| bindings, examples, build | `src/python`, `src/examples`, `src/cmake` | none | |

How they interact. The thread that constructs `HESealExecutable` and runs
`call()` (the main thread) and the thread that runs `m_io_context` (the io
thread) share the session, the input tensor, the answer vectors and their
flags; each flag is guarded by a mutex and waited for on a condition variable.
The io thread calls `handle_message` from `TCPSession::do_read_body`. On the
other side one thread runs every handler of `TCPClient`, and from
`do_read_body` `HESealClient::handle_message`, which queues its answers with
`write_message`. The two sides share nothing but the connection.

What makes each part correct:

* **TCPClient**: one asynchronous write of the queue at a time, and one whenever
  a message waits; messages delivered once and in order; `io_context.run()`
  returns once the connection has ended.
* **TCPSession**: no two writes overlap (there is no queue), and the buffer of a
  write outlives it.
* **HESealExecutable**: evaluation starts with both keys and all inputs; a wait
  passes only on the answer it waits for; the answers of all batches end up in
  the order of the elements; the unlocked accesses to the answer vectors never
  meet the io thread.
* **HESealClient**: never decrypts without a context; reports the value of the
  function and nothing else as its result.
* **both**: an inference that has begun is finished, or, if the connection
  breaks, neither end waits for ever.
* **chain index**: all ciphertexts of a message at one level and one scale.
* **scalar kernels**: the zero flag says whether the value is zero; a result's
  level and packing follow from its arguments'.
* **index kernels**: each equals its mathematical definition on every shape.
* **tensors**: `read` after `write` gives what was written, batched or not.
* **call()**: finds the tensors of every node, and gives the function of its
  inputs each time it is called, whatever it does to their ciphertexts.

The hazards are listed one by one, with their lines, in `PROJECT.json`; those
that no property covers say why.

## 2. What is modelled now

| module | what | code |
|---|---|---|
| `Messages` | message types and records, ciphertexts as what they stand for, the program as a sequence of operations | `tcp_message.hpp`, `node_wrapper.cpp` |
| `Network` | the connection, two directions in order, its ends and failures | external (boost::asio) |
| `TCPClient` | every handler of the client's socket | `tcp_client.hpp` |
| `TCPSession` | every handler of the server's socket | `tcp_session.hpp` |
| `HESealClient` | `handle_message` inside TCPClient's body handler | `he_seal_client.cpp` |
| `HESealExecutable` | main thread and io thread | `he_seal_executable.cpp`, `set_elements` |
| `ClientServer` | the composition, with faults; the properties | |
| `SecureInference` | abstract: keys, inputs, each operation once and in order, delivery | |
| `TCPClientQueue` | TCPClient alone under any callback and any server | |
| `FifoDelivery` | abstract: what TCPClient promises | |
| `TCPClient_proofs` | what each handler does to the queue and its writer | |
| `TCPClientQueue_proofs` | the theorems about TCPClientQueue | |
| `ClientServerChannels_proofs` | what each step does to the two directions, and facts about the tensors payloads stand for | |
| `ClientServer_proofs` | the theorems about ClientServer | |
| `MCClientServer` | programs for TLC | |
| `Ciphertexts` | a ciphertext's data (level, scale, values), zero and packing flags; encode, encrypt, matching of levels, arithmetic with one number | `he_seal_backend.cpp`, `seal_util.cpp`, `client_util.hpp` |
| `ScalarKernels` | each `scalar_*_seal`, for each pair of cipher and plain | `kernel/{add,subtract,multiply,negate,relu,bounded_relu,minimum}_seal` |
| `Elements` | elements, cipher or plain; which kernel `generate_calls` chooses, lazy rescaling, `read` | `he_seal_executable.cpp`, tensors |
| `ScalarPrograms`, `MCScalarPrograms` | any program of scalar operations on one place of the tensors | |
| `Elements_proofs` | what each operation on elements keeps of its arguments, what it computes, at which level and scale, and when it does not throw | |
| `ScalarPrograms_proofs` | the theorems about programs: arguments are kept, results are right, a level is paid for each multiplication, and nothing throws before the levels run out | |
| `LevelMatching`, `MCLevelMatching` | `match_to_smallest_chain_index`, its parallel loop with a thread for each element | `seal_util.cpp` |
| `LevelMatching_proofs` | the theorems about it | |
| `Coordinates` | the walks of nGraph's `CoordinateTransform` | external |
| `TensorKernels` | each index kernel, with its index arithmetic, on a heap of elements | `kernel/` |
| `TensorPrograms`, `MCTensorPrograms` | any program of tensor operations, next to what nGraph says they mean | `generate_calls` |
| `DataflowGraphs` | graphs, liveness, and what HEFusion makes of them | `he_fusion.cpp`, the constructor |
| `GraphExecution`, `MCGraphExecution` | `call()` again and again, with the caller's reads and writes | `call`, tensors |
| `FunctionCalls` | abstract: what a caller expects of calls and tensors | |
| `GraphExecution_proofs` | the theorems about `tensor_map`, the result sent to a client, the refinement of `FunctionCalls`, and calls that do not throw | |

State and code. Variables carry the names of the members they stand for
(`m_message_queue`, `m_client_inputs_received`, `m_is_done`); `cSock`/`cRead`
and `sRead`/`sWrites` stand for asio operations under way, `pc` and `ioPc` for
the place each server thread has reached, `waiting` for the condition variable
the main thread is blocked on. `m_ciphertexts` and `m_done` are functions on
`{"relu", "max"}`: `m_relu_ciphertexts`, `m_max_done` and so on.

Steps. A handler run to its end is one action: that is how asio's single
threads run them. Where the other server thread can come in between, the code is
cut: `accept_connection`'s handler starts the session before it takes the lock
(`Accept`, `NotifySession`), `handle_message(execute)` fills `m_client_inputs`
before it takes the lock (`HandleExecute`, `NotifyInputs`). A wait is: test of
the flag under the mutex; block; test again after a notification or a spurious
wakeup. Test, reset and release of the mutex are one step because every access
to the flag is under that mutex. The two places where the code touches shared
state outside a mutex (`m_relu_ciphertexts` and `m_max_ciphertexts` in the main
thread) are what `UnlockedAccessIsAlone` is about: it shows that in the states in
which the main thread is at them no answer is under way, so taking them as one
step hides nothing.

Data. A ciphertext is a record `[fn, op, unit]`: "the value of `fn`, of operation
`op` of the program, at element `unit`". That is what tells a lost, repeated or
misplaced element, or a wrong activation, from the right one. `Program` is the
list of the graph's nodes: `relu`, `relu6` (BoundedRelu), `max` (MaxPool) and
`local`, everything the server computes by itself. For `max` a unit is a window
of `maximize_list` and stands for all ciphertexts of its request.
`MaxReluMessageCnt` is `max_relu_message_cnt`, 10000 in the code.

Writes. `boost::asio::async_write` tries to send at once; a message that the
socket's buffer takes whole is on its way when the call returns. `Immediate` is
the set of message types for which that happens; for others the write stays in
`sWrites` until `ServerTransmit`. `parms_message` and `parameter_message` die as
soon as `do_write` has returned, so the code is right only if they are immediate
(`ImmediateAssumption`); what a write of freed memory would send is not
modelled. `WriteBuffersLive` checks that every write left pending has a live
buffer.

Ciphertexts. In the modules on the bookkeeping a ciphertext is the record
`[zero, packed, data]`, where `data` is a level, a scale in bits and the values
in its slots. `ModulusBits` are the sizes of the primes. These are a little less than
powers of two, so that SEAL refuses a scale that is larger than all that is left,
and takes one that is equal (`Bits`, `OutOfBounds`); it also refuses an operation on
two levels or scales,
and `Thrown` is what an operation makes then. A kernel makes of its arguments the
triple of the arguments as it leaves them and its result. In `TensorPrograms` and
`GraphExecution` elements are addresses in a heap, as they are shared pointers
in the code: movements copy the address, kernels change what is there.

Meanings. `ScalarPrograms` and `TensorPrograms` keep next to each tensor the
numbers it stands for, computed from the definition of nGraph's operation and
nothing of the code; every state is a check of the kernels against that
reference, on elements that have gone through other kernels before.
`GraphExecution` is related to `FunctionCalls` by a refinement mapping: an input
is what a read of it gives, and an output what a read of it gives, at every
moment; `due` is computed from the results `call()` has still to come to.

call(). One action is one node of the graph: nothing else runs on the tensors.
Tensors have one element there, so what `tensor_map` names is an address and
whether it is a ciphertext. `nodes` is `m_wrapped_nodes` after HEFusion, with the
lists of what each frees, which nGraph's Liveness has made before it. With a
client, `inputs` are `m_client_inputs`, which are never replaced: each further
call evaluates them again, at the levels the last one left. They are the
ciphertexts the client has encrypted (`he_seal_client.cpp:107-127`, `EncodeBatch`): a
zero is encrypted like other numbers and is no known zero, and `handle_message` marks
all of them packed, whatever the client did (`he_seal_executable.cpp:272`,
`ClientInput`). The client of the model does not pack, that is, `NGRAPH_COMPLEX_PACK`
is not set in either process. It has one input and one result, as the code demands. The
relus of ciphertexts are the client's then: it decrypts, applies the function and
encrypts anew, at the highest level (`AskClient`). The result goes to the caller's
tensor and is sent, and the client decodes it for itself, by no mark of the server
(`ClientDecodes`). The caller's output is a ciphertext then: the client has keys of its
own, and what it has encrypted cannot be decrypted into a plain output of the server.
The messages that carry all this are in `ClientServer`; what the code refuses to send
stops the model with `failed = "client"`: at a relu a known zero or a bound that is not 6
(`NotForClient`), at the end a result that is not a ciphertext, or a known zero
(`NotSent`, the check in `save_elements`).

Known defects. Where the code is wrong on an operand, the model is wrong too,
and every value made of it would be. `KnownDefects = FALSE` leaves exactly those
operands out, so that the runs say what holds elsewhere; each is a named
predicate with the reason. With `KnownDefects = TRUE` the runs are violated. They are:

* a known zero plus, or minus, a zero in the clear: the zero flag of a result
  without data is cleared (`add_seal.cpp:53`);
* two plaintexts of which the first is one number and the other a batch, and the
  other way round: the result has the size of the first (`add_seal.cpp:106`);
* a ciphertext minus one at another level (`subtract_seal.cpp:36`);
* packed ciphertexts in a sum with a number in the clear (`seal_util.cpp:240` adds to
  the real parts only), in products but for those with one number, in differences and
  negations; and a sum of packed known zeros (`he_seal_backend.cpp:205` gives half of
  the values); and, in a sum, a packed ciphertext with one that is not packed, neither
  of them a known zero. Such a pair comes from a product of a packed ciphertext with a
  zero: `multiply_seal.cpp:68,80` makes a known zero of the result and leaves its
  packing flag cleared, what is made of that zero is not packed, and a later sum with a
  packed ciphertext throws (`add_seal.cpp:34`). The proof of `NoEarlyFailures` found it;
* with a client, sums of ciphertexts that are marked differently (`MarkedDifferently`),
  which throw (`add_seal.cpp:34`). The inputs are marked packed, and sums of ciphertexts
  and products with numbers keep the mark; products of ciphertexts, sums with numbers but 0,
  the client's answers to a relu, and encrypted constants are not marked. So x + 2x
  with an encrypted model, x + (x + c) or x + relu(x) end the server in the first call;
  the model stops with `failed = "defect"`. Nothing else depends on the mark when the
  client does not pack and the batch is one;
* the minimum of ciphertexts, which is the first (`he_seal_executable.cpp:1168-1184`);
* averages that count the padding (`avg_pool_seal.hpp:127`), windows that share
  the element a sum is made in (`avg_pool_seal.hpp:132`), and any further use of a
  tensor that has been averaged;
* writing another number over a known zero, by the caller or by a plain result
  (`he_seal_backend.cpp:192` never resets the flag);
* writing to an input whose ciphertext is an output's too (`result_seal.hpp:36`
  copies the pointer);
* graphs where a node frees a tensor that the fused relu reads after it
  (HEFusion runs after Liveness, `he_seal_executable.cpp:106-107`);
* graphs where a relu is fused with a bound below zero: HEFusion does not ask for the
  sign of the bound (`he_fusion.cpp:63-75`), and the bounded relu of a number that is not
  above it is zero (`bounded_relu_seal.hpp:34`), where the minimum is the bound.
  The proof of `CallsImplemented` found it: `CompiledMeans` is false without
  `BoundsNotNegative`.

Exceptions. One that leaves a handler of the io thread, or an OpenMP region, is
`std::terminate`: `serverUp` becomes FALSE, the connection dies. One that leaves
`call()` (`set_elements`) takes the main thread to `threw`.

## 3. Runs

| run | instance | what it shows |
|---|---|---|
| `queue` | 4 messages written, 3 read, callback writes 0 to 2 and may close | OneWriterPerQueue, DeliversInOrder (implements `FifoDelivery`), RunReturnsAfterEnd |
| `inference` | five operations of all four kinds, 5, 2, 3, 4 and 1 units, batches of 2, no faults | every protocol property, and that the system implements `SecureInference`, liveness included |
| `faults` | relu of 5 and max of 2, a refused connection and one lost at any moment | the safety of the answers under faults, SafeInference (what was done is the beginning of one inference), NeitherOutlivesConnection |
| `server_throws` | max of 2, then a relu6 of 3 with a known zero in its second batch | the client ends when the server dies in the middle of a layer |
| `max_done_uninitialised` | max of 2, `m_max_done` starting with either value | finding 1 |
| `output_read` | relu of 5 and max of 2 | finding 2 |
| `scalars` | all programs of three scalar operations on thirteen pairs of inputs: batches of two and single numbers, packed or not, known zeros; primes of 60, 30 and 30 bits | ResultsRight, LevelsPayForMultiplications (rescaled once for each multiplication), NoEarlyFailure, ArgumentsKept |
| `levels` | four elements, each at any of the levels, zero or not; every interleaving of their threads | AllMatched, NoThreadThrows, NeverBelowSmallest, EveryThreadEnds |
| `tensors` | all programs of two operations on matrices, images with filters, and batches; four primes | TensorsRight, RescaledOnce, NoFailure |
| `calls` | eleven graphs, every configuration of encrypted model, encrypted data and client; numbers 0, 2, -1; two slots | ArgumentsInMap, FreshCallsSucceed, MessageRight, and that the system implements `FunctionCalls` |
| `skipped_element` | three elements, any levels | finding 3 |
| `average_overwrites` | AvgPool twice on an image of 2 by 2 | finding 4 |

Bounds. The dialogue is half duplex (`HalfDuplex` is an invariant), so the state
space grows with the length of the program, not exponentially, and a longer
program repeats the same states with other indices. Five units in batches of two
give a full first batch, a full middle one and a short last one; four give a last
batch that is full (the two cases of `relu_end_idx`). Each kind of operation
comes before and after another. `ParameterSize = 2` tells the order of the inputs. For
the client's queue four writes let two callbacks overlap with writes under way
in every state of the socket.

A defect of the bookkeeping needs an operation that leaves a wrong level, scale
or flag, and another that meets it; three operations on two inputs, or two on
tensors, have every pair, and a third operand that shares a ciphertext with one
of them. Three primes make programs of three multiplications fail, which
`NoEarlyFailure` distinguishes from those that fail too early. The shapes are the
smallest with both axes different (2 by 3), two channels, padding on one side,
strides and dilation on one axis, so that an axis or a side taken for another
shows. The numbers are such that a known zero, both signs and both sides of the
bound of BoundedRelu occur. `calls` is finite without a bound on the calls:
levels run out, or nothing new happens. Its graphs are: a sum that is multiplied
with its argument, one that lowers its input with every call, a fused minimum
whose lists are stale, two results, a movement only, a bounded relu that the client
can do, a minimum that is not fused, a fused minimum with the bound first (and one
that the client cannot do), a product with zero, which is not sent, and two that are left
out without the known defects: one whose fused node would read what is freed, and one
with a negative bound. Two of the graphs add what a client's inputs lead to: the sum of x
and 2x is of the same mark when the model is not encrypted, and stops as a known defect
when it is. With a second slot a mark that is taken for packing would show in
what is encoded. Twelve addresses are more than are ever in use at once.

Deadlock is checked in every run. The stops the code has are named: both
processes ended (`Ended`), `io_context.run()` returned (`Returned`), a client
waiting for a silent server (`Waiting`, in `TCPClientQueue` only, where the bound
on the server's messages makes it silent), a program at its end or one that
has thrown (`Finished`, `Terminated`).

Fairness. Weak fairness on each thread (`Client`, `Main`, `Io`): the operating
system runs a thread that can run. Weak fairness on each direction of sending:
the kernel sends what it holds while the receiver reads, and both ends always
have a read under way. Weak fairness of `Connect`: a listening server is reached.
None on faults, spurious wakeups or the user's second attempt.
`SecureInference` is live under weak fairness of its next step, and that is
checked only without faults: with a lost connection nothing promises a result.
In `levels` each thread is weakly fair: OpenMP gives every iteration to a thread
that runs. The programs and `calls` are sequential and state no fairness.

Findings.

1. `m_max_done` is not initialised (`he_seal_executable.cpp:85-94`), while
   `m_relu_done` is. With memory that is not zero, the first MaxPool may go
   on without the answer to its first request. All other runs take
   `MaxDoneInit = {FALSE}`: they say what holds when the memory happens to be
   zero.
2. `src/examples/README.md:27` says the server decrypts the output as well; the
   client's close may end the server process before it does.
3. `match_to_smallest_chain_index` leaves out the element whose position equals
   the smallest level (`seal_util.cpp:389` compares with `.second`, where `.first`
   is the position): it stays at its level, and the check below is not made for it.
   The run `levels` and the theorems assume that this element needs no matching.
4. `avg_pool_seal` says it computes `output[O] := output[O] + arg[I]`, and sums
   into the argument's own ciphertext (`avg_pool_seal.hpp:132`): the tensor changes
   for every other node that reads it.

## 4. Proofs

Every theorem is of the form `Spec => ...`, for every value of the constants; two, that
certain steps do not throw, are of the form `Spec /\ []H => ...`, where `H` says that
the numbers met are in the range of the encoder.
The assumptions are those the modules state (`ProgramAssumption` and the other
named ASSUMEs, which TLC evaluates on every instance) and those that a theorem
names, each of which some run's constants satisfy:

* ClientServer: `MaxDoneInit \subseteq {FALSE}`, that the flag the constructor
  forgets starts FALSE. Without it the theorems are false; that is finding 1.
  `ServerOutlivesConnection` also has `NoKnownZeros`, without which the run
  `server_throws` ends the server.
* LevelMatching: `Unshared`, `OnlyMatched` (finding 3).
* ScalarPrograms, for the results: `~KnownDefects`, `EqualPrimes`, `WholeBatches`.
* GraphExecution: `KnownDefects = FALSE`, and for all but `tensor_map`
  `EqualPrimes` and `BatchSize = 1`, as the tensors of this module have one element.
  With a client `KnownDefects = FALSE` also leaves out sums of ciphertexts that are
  marked differently (section 2); the theorems cover every other graph of a client, with
  zeros and the marks as they are.
* What does not throw. `NumbersFit` (`ScalarPrograms_proofs`) and `CallNumbersFit`
  (`GraphExecution_proofs`) are assumed of every state: SEAL's encoder throws on a
  number too large for the modulus at a level (`Fits`), and how large the numbers of a
  program or of a graph become depends on its inputs, not on what this code does. They
  say that what is in the clear can be encoded at the levels of the ciphertexts there
  are, and that what is encrypted can be encrypted again; they say nothing of levels
  left, scales, sizes, packing or `tensor_map`. They are no empty hypotheses: TLC finds
  them true in every state of the instances `scalars` and `calls`.
  `FreshCallsSucceedThm` also has `EnoughLevels`, a level for each multiplication of a
  graph. A level for each on a path would not be enough: a ciphertext is lowered in
  place to the level of what it is added to, and is read again by nodes that are not on
  that path.

| module | theorem | statement |
|---|---|---|
| `TCPClientQueue_proofs` | `TypeCorrect`, `OneWriter` | `TypeOK`, `OneWriterPerQueue` for every number of messages and every callback |
| | `DeliversInOrderSafely` | the safety part of `DeliversInOrder`: every step is one of `FifoDelivery` or a stutter |
| `ClientServer_proofs` | `TypeCorrect` | `TypeOK` |
| | `OneSideWrites` | `HalfDuplex` |
| | `MainAccessIsAlone` | `UnlockedAccessIsAlone` |
| | `FlagsMeanAnswers` | `DoneMeansAnswered` |
| | `LoopsEndWithAllAnswers` | `AllAnswersBeforeSet` |
| | `KeysAndInputsFirst` | `EvaluatesWithKeysAndInputs` |
| | `ContextBeforeRequests` | `ClientCanDecrypt` |
| | `TensorsCorrect` | `OutputsCorrect` |
| | `ClientGetsResult` | `ResultCorrect` |
| | `BuffersLive` | `WriteBuffersLive` |
| | `ServerOutlivesConnection` | `ServerEndsLast`, for programs without known zeros, whatever fails |
| | `OneInference` | `SafeInference`, the safety part of the refinement of `SecureInference`, whatever fails |
| `LevelMatching_proofs` | `MatchedThm`, `NoThrowThm`, `NeverBelowThm` | `AllMatched`, `NoThreadThrows`, `NeverBelowSmallest`, for every number of elements and levels |
| `ScalarPrograms_proofs` | `ArgumentsKeptThm` | `ArgumentsKept`, for every ring size and modulus, any inputs and programs, the known defects included |
| | `ProgramsRight` | `ResultsRight`, for every modulus of equal primes, ring and batch size, and every program |
| | `ProgramsPay` | `LevelsPayForMultiplications`, under the same assumptions |
| | `NoEarlyFailures` | `NoEarlyFailure`, under the same assumptions and `NumbersFit` |
| `GraphExecution_proofs` | `ArgumentsInMapThm` | `ArgumentsInMap`, for every set of well-formed graphs, any numbers and any calls |
| | `MessageRightThm` | `MessageRight`, for every set of well-formed graphs, any modulus of equal primes, numbers and calls |
| | `CallsImplemented` | `ImplementsFunctionCalls`: every step is one of `FunctionCalls` or a stutter, under the same assumptions |
| | `FreshCallsSucceedThm` | `FreshCallsSucceed`, under the same assumptions, `EnoughLevels` and `CallNumbersFit` |

*The client's queue.* `OneWriterPerQueue` is inductive only together with the
types (`QueueOK`): the handler of a finished write takes the head of the queue,
which exists because a write under way has a message there. `TCPClient_proofs`
proves for each handler that it keeps `QueueOK`, whatever the messages are, and
what it does to `Unsent`, the messages accepted and not yet sent. From this
TCPClientQueue needs one more conjunct for its refinement, `Accounted`: while the
connection works, accepted is delivered followed by unsent.

*The dialogue.* None of ClientServer's properties is inductive by itself: a
handler is right only because of what the other end can have sent. The
invariant `Inv` of `ClientServer_proofs` therefore says, for each place of the
server's main thread, what is on its way in the two directions (`Exchange`,
with the stages of the key exchange in `Handshake`): nothing, one message to the
client, or its answer. The other conjuncts say where the main thread is in the
program (`Place`), how far the answers have come (`Answered`), that the tensors
so far are right (`Evaluated`), what has been waited for (`Awaited`), how a
connection ends (`Ends`), what the client knows (`Told`), and that a write left
pending is of no message that is sent at once (`PendingWrites`). Only `Exchange`
stops when the server's process does; `Told` keeps what the client may rely on
after that. `PendingWrites` with `ImmediateAssumption` gives `BuffersLive`:
the messages that are destroyed early are the immediate ones.
`ServerOutlivesConnection` needs that no step of the server throws: `Exchange`
says that each handler meets the message it expects, and `NoKnownZeros` that
`handle_server_relu_op` meets no ciphertext it refuses (`he_seal_executable.cpp:1651`).

The proof goes by three layers. `ClientServerChannels_proofs` reduces each step
to its effect on `ToClient` and `ToServer`, two sequences that span the sender's
queue or writes and the network, so that nothing above it depends on where in
between a message is. It also shows that the answers to consecutive
requests make up the whole (`UnitsConcat`), which is all there is to the
arithmetic of the batches, whatever their size. `ClientServer_proofs` then has
one lemma per handler, with one step per conjunct it could disturb.

*Matching levels.* The theorems assume what the code does not ensure: that no two
elements share a ciphertext (`Unshared`) and that the skipped element needs no
matching (`OnlyMatched`). Without the second finding 3 applies; without the first two
threads that have both seen the same level each drop a prime, and the check
after the loop throws. `MatchingInv` says for each thread where its ciphertext is:
above the smallest level before a drop, not below it anywhere, at it when the
thread is done or checks. It is the absence of sharing that makes a thread's part
of the invariant independent of the steps of the others.

*Arguments.* A kernel may match the levels of its two arguments in place, and other
nodes of the graph read these arguments again. `ArgumentsKeptThm` says that they
still decrypt to what they did, and that no level rises, even on the operands on
which the operation's own result is wrong. The invariant, `TInv`, is what a kernel
needs of its operands: an element that has data has a level of the modulus and a
number in every slot. Data without slots is told from it, and what throws from both,
by its shape (`HasDataIsSome`, `DataIsSome`). `MatchKeeps` carries the argument:
a rescaling or a switch of modulus keeps the slots. Then there is one lemma per
kernel, one per operation, and `OperationKeeps` for the sequence of elements.
Programs begin with values that can be encoded (`EncodableAssumption`).

*Results of programs.* `ProgramsRight` is about elements only, and they must be
known much better than by what they read as: the invariant, `RInv`, says of every element
that it is `Sound` for its meaning. A ciphertext that is not a known zero holds in each
slot exactly the number, or the two packed numbers, of the meaning (`Holds`), is at
the scale `Scale` and not below the level that its multiplications leave (`Paid`);
a known zero means zeros only; a plaintext has the values, or one value for
all places. The scale is what makes this inductive: an operation that
forgot a rescaling would still give the right numbers, and the next one
would throw or add numbers of two scales.

Two assumptions are the code's environment. `EqualPrimes` says that all primes but
the lowest have the scale's size, so that a rescaling gives back the scale: that holds for
`default_ckks_parameters`, for every `small_mods_*bit` configuration and for every
configuration under `src/test/model`; with other primes the scales of two
ciphertexts of different histories drift apart, and the code promises nothing.
`WholeBatches` says that a tensor's elements have the size of the batch or are single
numbers, and that batches fit the slots unpacked: a packed known zero decrypts to as many
zeros as there are slots (`he_seal_backend.cpp:205`), half of what it may stand for.

The proof has one lemma for each SEAL operation (`AddHolds`, `MultiplyHolds`,
`RescaleHolds`), each kernel (`AddCCSound`), and each choice of `generate_calls`
(`AddOfSound`), and `OperationSound` for the sequence. An operation that throws gives no
element, and `Next` stops there. `TotalBits`, how many bits a level has, is defined by
recursion; `TotalBitsSums` shows that the definition has a solution by the least
number that would have none (`LeastNumber`, a minimum of the library's well-founded
order).

*What does not throw in programs.* `NoEarlyFailures` says that an operation throws only
when a product has no level left to be rescaled to. Given `RInv`, two things remain to
be shown: that every exception of a kernel has a cause that `Sound` excludes, and that
what is encoded has room. For the first the operands' scales are equal once their levels
are, for each of them is at `Scale` (sums throw on scales that differ), their levels
match because the lower one is reached by dropping primes, and their packing agrees,
which `AddsPacked` has to say (see the known defects). For the second one conjunct is
added to the invariant, `ShortPlains`: what is in the clear has no more values than
slots. There is one lemma for each kernel (`AddCCSome` and the like, under "What does
not throw" in `Elements_proofs`), and `NextFails` for the sequence.

*tensor_map.* `ArgumentsInMapThm` assumes `KnownDefects = FALSE`, which means for
it only that the free lists are sound for the fused graph (`FreesSoundly`); the run
without it loses arguments. `MapInv` adds that `next` is a node and that the nodes
are those of the compiled function. The argument of a step: the next node is
the least after the present one, so what has been produced is what had been before
and the present node's tensor. That one has just been inserted, unless the
node is a parameter, which was there from the start, or a result, which no node
reads; `ResultsUnread` and `NamesKept` show that compilation keeps this though it
gives fused nodes new names.

*Calls.* `CallsImplemented` is about what a caller sees: the numbers its tensors read
as. `FunctionCalls` says when they may change, and the code could break that in
three ways: by a wrong number, by a change of what an input's ciphertext holds, and by a
write to an address that another tensor shares. The invariant, `RightInv`, excludes all three.

* `StateInv`: the types of the state, with `MapInv`.
* `HeapInv`: every input holds the number last written, and every tensor in
  `tensor_map` the number of its node (`Stands`). What a tensor holds is what `Sound`
  says of it in the proofs about elements, so that the lemmas there about
  each operation apply: an element that a kernel has matched or rescaled is another
  element for the same number (`Same`), and pointers to it notice nothing.
* `FixedAlone`, in `HeapInv`: `result_seal` writes into the caller's tensor in place,
  unless both are ciphertexts, when the tensor takes over the pointer. The outputs of the first kind
  (`Fixed`) keep their own address, and nothing else points to it. That
  an output is of the first kind in one call and of the second in the next would break
  this. It cannot be: whether a node's tensor is a ciphertext is the same in
  every call. `Ciphers` is the least set of nodes that the rule of
  `he_seal_executable.cpp:577-614` makes ciphertexts, and `MapStands` says that
  the tensors follow it.
* `GivenRight` and `MessageInv`: what has been given, to an output or to the
  client, is the function of the inputs.
* `Real`: the second half of every slot of a ciphertext is empty. The client decodes by
  its own setting and the server reads by the mark, and only then both find one number.
  The lemmas about elements assume that nothing packed meets a number in the clear,
  which the inputs of a client do; the lemmas named `...Unmarks` carry them over: with a
  batch of one, an operation does to marked elements what it does to the same elements
  without their marks (`Unmarked`), and `MarkedSound` turns what is sound
  without the mark into what is sound with it. Sums are the exception, for they compare the
  marks.
* `Holding`, in `OutputsHeld`: what an output points to is of its kind, so that the
  result of a client has a ciphertext to send (`DecodedValue`: the client decodes it to
  the number it stands for).

The lemmas on the way are of four kinds. On graphs: `Meaning` is
defined by recursion over the nodes, and is shown to be a solution of its equation
(`LeastNumber` again); `CompiledMeans` says that after fusion every node still stands
for the number it stood for, which is where the bound must not be negative. On
addresses: `NewFresh` counts pointers, at most one for each input, result and node, and with
`AddressesAssumption` there is always one more. On elements: each operation on sound elements
is sound (`KernelRight`), and makes of elements marked packed what it makes of the same
elements unmarked, but for the mark. On steps: one lemma per action, with one step per conjunct,
that also says what the step shows to the caller: nothing (`Silent`), a write (`Writes`), the
beginning of a call (`Begins`), or one due output given its number (`Giving`).
`StepsImplement` maps these four to the actions of `FunctionCalls`.

*Calls that do not throw.* `FreshCallsSucceedThm` is about calls on inputs that were all
written since a call last used them, or that are encrypted anew (`Fresh`). A call throws
when an argument is not in `tensor_map`, a kernel throws, or `result_seal` cannot
encrypt what it has for the caller's tensor. On top of `RightInv` the invariant,
`CallInv`, has `ShortInv`, `FreshInv` and `LevelInv`. `FreshInv` says that an input
which has been written, or sent by the client, and not been used has all its levels. `LevelInv` says that
between two nodes each ciphertext in `tensor_map` has lost at most `Spent` levels, the
number of multiplications done so far. This bound is the same for all tensors, so
matching levels in place keeps it: it lowers a ciphertext only to where another is. A
node's multiplication adds one to it (`NodeDone`), and `EnoughLevels` bounds it.
`KernelSucceeds` has one case per operation of a graph, and `ArgumentsFound` excludes
the first cause.

Model-checked only:

* liveness (`RunReturnsAfterEnd`, `NeitherOutlivesConnection`, `EveryThreadEnds`,
  and the liveness of both refinements), which is beyond the prover;
* `TensorsRight`, `RescaledOnce` and `NoFailure`: kernels and meanings are folds over
  coordinates that are computed, and need inductions over data with an
  operator as a parameter, which the provers cannot instantiate (inductions over one
  set of numbers, like that of `TotalBitsSums`, are possible).

## 5. Plan

1. *Core protocol*, *ciphertexts and scalar kernels*, *level matching*, *index
   kernels* and *call()* are done: the modules of section 2.
2. Proofs are done for every safety property of the protocol, of the client's queue, of
   level matching, of programs of scalar operations and of `call()`. The
   next are lemmas about the index kernels that need no induction, such as that
   `TensorPrograms` never changes what a tensor that is only read holds.
3. `TCPMessage`: the sizes of the header and its codec, and what a message whose
   ciphertexts are at different levels loses.

## 6. Not modelled

* The bytes of messages (`tcp_message.hpp` encodes a header of 12 bytes and
  checks lengths) and of ciphertexts, and the parsing of encryption parameters.
* SEAL's arithmetic: noise, the precision of results, sums beyond the modulus,
  and the refusal of transparent ciphertexts; the word-level number theory of `encode`
  and `multiply_plain`. A number below 1e-5 in magnitude counts as a zero in the
  code; here only 0 does.
* The order of the iterations of OpenMP loops in the kernels, which write
  disjoint elements unless these share a ciphertext; `LevelMatching` has the order
  where the code relies on it least. Its data race on a shared ciphertext is
  not given an outcome.
* Movements and sums of batched tensors: `generate_calls` gives Concat, Reverse,
  Slice and Sum the shape of the whole batch, and they read past the elements the
  tensor has. What they read is undefined, and the actions exclude it.
* Bounds of tensor reads and writes (`check_io_bounds`), and NodeWrapper's table of
  names. The check in `save_elements` for known zeros is in `GraphExecution` (`NotSent`);
  `SendResult` of `ClientServer` leaves it out: known
  zeros are known there only where a relu meets them.
* A client that packs (`NGRAPH_COMPLEX_PACK`) in `GraphExecution`, whose tensors have
  one element and a batch of one.
* `TCPClient::close` calls `shutdown()` without an error code (`tcp_client.hpp:45-49`),
  which throws when the connection is lost already and the socket is not connected any
  more. `CloseSocket` always succeeds; in the code the exception would leave
  `io_context.run()` and the constructor of `HESealClient`, and its caller would have no
  client to ask for the results, although they have arrived.
* Every second output of a function is left out of `tensor_map`
  (`he_seal_executable.cpp:541`): the model has it so, and the refinement speaks
  of the others only.
* A second client, calls from two threads, and the request and answer of Minimum,
  whose sending code is unreachable (`he_seal_executable.cpp:1184`).
* What follows the relu of a known zero with a client, which ends the server
  (`he_seal_executable.cpp:1651`), but in the run `server_throws`: `calls` stops there.
* Logging, performance counters, the python bindings, build and docker files,
  which keep no state.
