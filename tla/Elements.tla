------------------------------ MODULE Elements ------------------------------
(***************************************************************************)
(* Elements of tensors, and the scalar kernels on them: the overload of a  *)
(* kernel is chosen by which arguments are cipher and which plain.         *)
(* A kernel makes of arg0, arg1 and the element out points to the three    *)
(* <<arg0, arg1, out>> it leaves, or Thrown.                               *)
(***************************************************************************)
EXTENDS ScalarKernels

CONSTANT BatchSize   \* values in one element of a batched tensor

ASSUME BatchAssumption == BatchSize \in 1..(2 * Slots)

Larger(m, n) == IF m > n THEN m ELSE n

PlainOf(p) == [cipher |-> FALSE, e |-> p]
Cipher(c) == [cipher |-> TRUE, e |-> c]

\* create_empty_ciphertext(), HEPlaintext(): what the result of x and y goes to.
EmptyCipher == Cipher(NewCipher)
EmptyPlain == PlainOf(Plain(<<>>, FALSE))
Empty(cipher) == IF cipher THEN EmptyCipher ELSE EmptyPlain

\* The values of an element, as read() gives them, <<>> if it throws: a single
\* plain value stands for the whole batch.
ValuesOf(x) ==
  LET p == IF x.cipher THEN Decrypt(x.e) ELSE x.e
  IN  IF p = Thrown THEN <<>>
      ELSE IF ~x.cipher /\ IsSingle(p) THEN [i \in 1..BatchSize |-> p.values[1]]
      ELSE IF Len(p.values) < BatchSize THEN <<>>
      ELSE SubSeq(p.values, 1, BatchSize)

Result(x, y, c) == IF c = Thrown THEN Thrown ELSE <<x, y, Cipher(c)>>
PlainResult(x, y, p) == IF p = Thrown THEN Thrown ELSE <<x, y, PlainOf(p)>>
CipherResults(r) ==
  IF r = Thrown THEN Thrown ELSE <<Cipher(r[1]), Cipher(r[2]), Cipher(r[3])>>

\* scalar_add_seal
ScalarAdd(x, y, out) ==
  CASE x.cipher /\ y.cipher   -> CipherResults(AddCC(x.e, y.e, out.e))
    [] x.cipher /\ ~y.cipher  -> Result(x, y, AddCP(x.e, y.e, out.e))
    [] ~x.cipher /\ y.cipher  -> Result(x, y, AddPC(x.e, y.e, out.e))
    [] ~x.cipher /\ ~y.cipher -> PlainResult(x, y, AddPP(x.e, y.e))

\* scalar_subtract_seal
ScalarSubtract(x, y, out) ==
  CASE x.cipher /\ y.cipher   -> Result(x, y, SubCC(x.e, y.e, out.e))
    [] x.cipher /\ ~y.cipher  -> Result(x, y, SubCP(x.e, y.e, out.e))
    [] ~x.cipher /\ y.cipher  -> Result(x, y, SubPC(x.e, y.e, out.e))
    [] ~x.cipher /\ ~y.cipher -> PlainResult(x, y, SubPP(x.e, y.e))

\* scalar_multiply_seal
ScalarMultiply(x, y, out) ==
  CASE x.cipher /\ y.cipher   -> CipherResults(MultiplyCC(x.e, y.e, out.e))
    [] x.cipher /\ ~y.cipher  -> Result(x, y, MultiplyCP(x.e, y.e, out.e))
    [] ~x.cipher /\ y.cipher  -> Result(x, y, MultiplyPC(x.e, y.e, out.e))
    [] ~x.cipher /\ ~y.cipher -> PlainResult(x, y, MultiplyPP(x.e, y.e))

\* lazy_rescaling on one element, which the executable does to every element of a
\* product with a plaintext.
LazyRescalingOfZeros(c) == Assigned(c, RescaleToNext(c.data))
LazyRescaling(c) == IF c.zero THEN c ELSE Assigned(c, RescaleToNext(c.data))

-----------------------------------------------------------------------------
(* What generate_calls makes of a node's arguments, at one place, without   *)
(* a client.                                                               *)

Out(x, y) == Empty(x.cipher \/ y.cipher)

\* case OP_TYPEID::Add
AddOf(x, y) == ScalarAdd(x, y, Out(x, y))

\* case OP_TYPEID::Subtract
SubtractOf(x, y) == ScalarSubtract(x, y, Out(x, y))

\* case OP_TYPEID::Multiply: the product of a cipher and a plain is rescaled here,
\* that of two ciphers already has been.
MultiplyOfNeverRescaling(x, y) == ScalarMultiply(x, y, Out(x, y))
MultiplyOf(x, y) ==
  LET r == ScalarMultiply(x, y, Out(x, y))
  IN  IF r = Thrown \/ x.cipher = y.cipher THEN r
      ELSE Result(x, y, LazyRescaling(r[3].e))

\* case OP_TYPEID::Negative
NegateOf(x) ==
  IF x.cipher THEN Result(x, x, NegateC(x.e, NewCipher)) ELSE PlainResult(x, x, NegateP(x.e))

\* case OP_TYPEID::Relu
ReluOf(x) ==
  IF x.cipher THEN Result(x, x, ReluC(x.e, NewCipher)) ELSE PlainResult(x, x, ReluP(x.e))

\* case OP_TYPEID::BoundedRelu
BoundedReluOf(x, alpha) ==
  IF x.cipher THEN Result(x, x, BoundedReluC(x.e, NewCipher, alpha))
  ELSE PlainResult(x, x, BoundedReluP(x.e, alpha))

\* case OP_TYPEID::Minimum: of ciphers it takes the first for the result.
MinimumOf(x, y) ==
  IF ~x.cipher /\ ~y.cipher THEN PlainResult(x, y, MinimumPP(x.e, y.e))
  ELSE IF x.cipher THEN <<x, y, x>> ELSE Thrown

-----------------------------------------------------------------------------
(* What the operations are known to be wrong on.                           *)

KnownZero(x) == x.cipher /\ x.e.zero
PlainZero(x) == ~x.cipher /\ x.e.values = <<0>>
Shorter(x, y) == ~x.cipher /\ ~y.cipher /\ Len(x.e.values) < Len(y.e.values)
DifferentLevels(x, y) ==
  /\ x.cipher /\ y.cipher
  /\ ~x.e.zero /\ ~y.e.zero
  /\ x.e.data.level # y.e.data.level

Packed(x) == x.cipher /\ x.e.packed
\* Data is added to data that is packed alike only.  A product with zero has lost
\* its packing, and what becomes of it can meet what is packed again.
AddsPacked(x, y) ==
  /\ x.cipher /\ y.cipher
  /\ ~(x.e.zero /\ y.e.zero)
  /\ x.e.zero \/ y.e.zero \/ x.e.packed = y.e.packed
Many(x) == ~x.cipher /\ ~IsSingle(x.e)

\* Operands on which an operation of the code is wrong; a run with KnownDefects
\* shows each.
Defective(op, x, y) ==
  \* a zero flag is cleared on an element without data
  \/ op \in {"add", "subtract"} /\ \/ KnownZero(x) /\ PlainZero(y)
                                   \/ PlainZero(x) /\ KnownZero(y)
  \* the plain result gets too few values, or values from past the end
  \/ op \in {"add", "subtract", "multiply", "minimum"} /\ (Shorter(x, y) \/ Shorter(y, x))
  \* levels are not matched
  \/ op = "subtract" /\ DifferentLevels(x, y)
  \* the minimum of ciphers is the first
  \/ op = "minimum" /\ (x.cipher \/ y.cipher)
  \* only a sum of ciphers with data and a product with one number know packing
  \/ op = "add" /\ (Packed(x) \/ Packed(y)) /\ ~AddsPacked(x, y)
  \/ op = "multiply" /\ \/ Packed(x) /\ (y.cipher \/ Many(y))
                        \/ Packed(y) /\ (x.cipher \/ Many(x))
  \/ op \in {"subtract", "negate"} /\ (Packed(x) \/ Packed(y))
=============================================================================
