------------------------------ MODULE Messages ------------------------------
(***************************************************************************)
(* The messages the HE server and its client exchange                      *)
(* (src/tcp/tcp_message.hpp) and the computation they exchange them for.   *)
(*                                                                         *)
(* A ciphertext is abstracted to what it stands for: `fn` names the        *)
(* function it is a result of, `op` the operation of the graph and `unit`  *)
(* its place in that operation's tensor.  A message is its type and the    *)
(* ciphertexts it carries; parameter_size carries a number instead.        *)
(***************************************************************************)
EXTENDS Integers, Sequences

CONSTANTS
  Program,            \* the wrapped nodes of the function, in order (see OpType)
  ParameterSize,      \* number of ciphertexts of the one input parameter
  MaxReluMessageCnt   \* max_relu_message_cnt: ciphertexts in one relu request

\* "local" stands for every operation the server computes by itself.
OpKinds == {"relu", "relu6", "max", "local"}

\* units: elements of the output tensor of the operation (for max: windows of
\* maximize_list).  zeros: the elements of the argument that are known zeros,
\* that is for which SealCiphertextWrapper::is_zero() holds.
OpType == [kind: OpKinds, units: Nat \ {0}, zeros: SUBSET Nat]

ASSUME ProgramAssumption == Program \in Seq(OpType)
ASSUME ParameterSizeAssumption == ParameterSize \in Nat \ {0}
ASSUME MaxReluAssumption == MaxReluMessageCnt \in Nat \ {0}

Ciphers == [fn: {"input", "arg"} \cup OpKinds, op: Nat, unit: Nat]

\* The types that travel between the two ends, and `none`, which no end sends.
MessageTypes ==
  {"encryption_parameters", "public_key", "eval_key", "parameter_size",
   "execute", "relu_request", "relu6_request", "max_request",
   "relu_result", "max_result", "result"}

Payloads == Seq(Ciphers)

Messages == [type: MessageTypes, payload: Payloads, number: Nat]

Message(t, p) == [type |-> t, payload |-> p, number |-> 0]

ParameterSizeMessage == [type |-> "parameter_size", payload |-> <<>>, number |-> ParameterSize]

-----------------------------------------------------------------------------
(* What the computation means.                                             *)

\* `fn` of operation k on the units first..last of its argument, in order.
Units(fn, k, first, last) ==
  [i \in 1..(last - first + 1) |-> [fn |-> fn, op |-> k, unit |-> first + i - 1]]

Inputs == Units("input", 0, 1, ParameterSize)

\* The output tensor of operation k.
Output(k) == Units(Program[k].kind, k, 1, Program[k].units)

\* What the function returns: the tensor that is the argument of op::Result.
FinalOutput == IF Program = <<>> THEN Inputs ELSE Output(Len(Program))
=============================================================================
