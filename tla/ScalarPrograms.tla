-------------------------- MODULE ScalarPrograms --------------------------
(***************************************************************************)
(* Straight-line programs of scalar operations, as                         *)
(* HESealExecutable::generate_calls (src/seal/he_seal_executable.cpp) runs *)
(* them on the elements at one place of each tensor: it chooses the kernel *)
(* by which arguments are cipher and which plain, and rescales after a     *)
(* multiplication by a plaintext (lazy_rescaling).                         *)
(*                                                                         *)
(* Tensors are never written again, but matching levels changes arguments  *)
(* in place.  What the program means is kept next to it, in `meaning`.     *)
(***************************************************************************)
EXTENDS Elements

CONSTANTS
  Starts,        \* what programs begin with: pairs of StartType
  Ops,           \* the operations programs consist of
  MaxElements,   \* bound on the elements of a program, the two inputs included
  KnownDefects   \* whether an operation meets the operands it is wrong on

ASSUME OpsAssumption ==
  Ops \subseteq {"add", "subtract", "multiply", "negate", "relu", "bounded_relu",
                 "minimum"}
\* One number, for the whole batch, or one for each place of it.
StartType == [values: Seq(Int), cipher: BOOLEAN, packed: BOOLEAN]
ASSUME StartsAssumption == Starts \subseteq StartType \X StartType
\* Writes of other values throw.
ASSUME EncodableAssumption ==
  \A s \in Starts : \A n \in {1, 2} : Encode(Plain(s[n].values, s[n].packed)) # Thrown

VARIABLES
  elements,   \* of the tensors so far: [cipher, e]
  meaning,    \* the batch of numbers each stands for
  levels,     \* levels each has paid for so far
  failed      \* the levels a failed operation needed, or -1

vars == <<elements, meaning, levels, failed>>

-----------------------------------------------------------------------------
(* Programs.                                                               *)

Alpha == 6
EachPairOf(f(_, _), s, t) == [i \in 1..BatchSize |-> f(s[i], t[i])]
EachOf(f(_), s) == [i \in 1..BatchSize |-> f(s[i])]

StartElement(s) ==
  IF s.cipher THEN Cipher(Encrypt(NewCipher, Plain(s.values, s.packed)))
  ELSE PlainOf(Plain(s.values, FALSE))
StartMeaning(s) == IF Len(s.values) = 1 THEN [i \in 1..BatchSize |-> s.values[1]] ELSE s.values

Init ==
  /\ \E s \in Starts :
       /\ elements = <<StartElement(s[1]), StartElement(s[2])>>
       /\ meaning = <<StartMeaning(s[1]), StartMeaning(s[2])>>
  /\ levels = <<0, 0>>
  /\ failed = -1

\* An operation on elements i and j with result r, that means v and has paid for
\* n levels.  Matching the levels of i and j costs each what the other has paid.
Step(op, i, j, r, v, n) ==
  /\ op \in Ops
  /\ failed = -1 /\ Len(elements) < MaxElements
  /\ KnownDefects \/ ~Defective(op, elements[i], elements[j])
  /\ IF r = Thrown
     THEN failed' = n /\ UNCHANGED <<elements, meaning, levels>>
     ELSE LET matched == r[1] # elements[i] \/ r[2] # elements[j]
              paid == Larger(levels[i], levels[j])
              old == IF matched THEN [levels EXCEPT ![i] = paid, ![j] = paid] ELSE levels
          IN  /\ elements' = Append([elements EXCEPT ![i] = r[1], ![j] = r[2]], r[3])
              /\ meaning' = Append(meaning, v)
              /\ levels' = Append(old, n)
              /\ UNCHANGED failed

Add(i, j) ==
  Step("add", i, j, AddOf(elements[i], elements[j]),
       EachPairOf(LAMBDA x, y : x + y, meaning[i], meaning[j]), Larger(levels[i], levels[j]))

Subtract(i, j) ==
  Step("subtract", i, j, SubtractOf(elements[i], elements[j]),
       EachPairOf(LAMBDA x, y : x - y, meaning[i], meaning[j]), Larger(levels[i], levels[j]))

Multiply(i, j) ==
  Step("multiply", i, j, MultiplyOf(elements[i], elements[j]),
       EachPairOf(LAMBDA x, y : x * y, meaning[i], meaning[j]), Larger(levels[i], levels[j]) + 1)

Minimum(i, j) ==
  Step("minimum", i, j, MinimumOf(elements[i], elements[j]),
       EachPairOf(LAMBDA x, y : IF x < y THEN x ELSE y, meaning[i], meaning[j]),
       Larger(levels[i], levels[j]))

Negate(i) ==
  Step("negate", i, i, NegateOf(elements[i]), EachOf(LAMBDA x : -x, meaning[i]), levels[i])

ReluStep(i) ==
  Step("relu", i, i, ReluOf(elements[i]), EachOf(Relu, meaning[i]), 0)

BoundedReluStep(i) ==
  Step("bounded_relu", i, i, BoundedReluOf(elements[i], Alpha),
       EachOf(LAMBDA x : IF Relu(x) < Alpha THEN Relu(x) ELSE Alpha, meaning[i]), 0)

\* The program is at its end, or call() has thrown.
Finished == (failed # -1 \/ Len(elements) = MaxElements) /\ UNCHANGED vars

Next ==
  \/ \E i, j \in DOMAIN elements : Add(i, j) \/ Subtract(i, j) \/ Multiply(i, j) \/ Minimum(i, j)
  \/ \E i \in DOMAIN elements : Negate(i) \/ ReluStep(i) \/ BoundedReluStep(i)
  \/ Finished

Spec == Init /\ [][Next]_vars

-----------------------------------------------------------------------------
(* Properties.                                                             *)

\* Every element decrypts and decodes to what the program means there: whatever
\* mixture of cipher and plain, known zeros, levels and batches it is made of.
ResultsRight == \A i \in DOMAIN elements : ValuesOf(elements[i]) = meaning[i]

\* Between two operations every ciphertext is at the scale it was encrypted with,
\* and no lower than the multiplications on the way to it account for: the
\* rescalings, eager and lazy, are neither forgotten nor done twice.
LevelsPayForMultiplications ==
  \A i \in DOMAIN elements :
    (elements[i].cipher /\ ~elements[i].e.zero) =>
      /\ elements[i].e.data.scale = Scale
      /\ elements[i].e.data.level >= Top - levels[i]

\* No operation fails before the levels of the modulus are used up.
NoEarlyFailure == failed > Top \/ failed = -1

\* An operation keeps what its arguments stand for, and never raises a level:
\* arguments are matched in place, and other nodes of the graph use them again.
ArgumentsKept ==
  [][\A i \in DOMAIN elements :
       /\ ValuesOf(elements'[i]) = ValuesOf(elements[i])
       /\ elements[i].cipher => elements'[i].e.data.level <= elements[i].e.data.level]_vars
=============================================================================
