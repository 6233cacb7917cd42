------------------------- MODULE MCScalarPrograms -------------------------
(***************************************************************************)
(* Instances of ScalarPrograms for TLC.                                    *)
(***************************************************************************)
EXTENDS ScalarPrograms

\* The last prime is the scale.  The first is larger than that: where all primes
\* have one size, as in the default parameters, the lowest level encodes only zero.
ThreePrimes == <<60, 30, 30>>

Clear(values) == [values |-> values, cipher |-> FALSE, packed |-> FALSE]
Secret(values) == [values |-> values, cipher |-> TRUE, packed |-> FALSE]
Packable(values) == [values |-> values, cipher |-> TRUE, packed |-> TRUE]

\* Batches and single numbers, known zeros and zeros of a batch, encrypted and in
\* the clear; numbers on both sides of what activations cut.
MixedStarts ==
  {<<Secret(<<0>>), Secret(<<2, -1>>)>>, <<Secret(<<2, -1>>), Secret(<<3>>)>>,
   <<Secret(<<7, -1>>), Clear(<<-1>>)>>, <<Secret(<<2, -1>>), Clear(<<0, 2>>)>>,
   <<Secret(<<0>>), Clear(<<-1, 8>>)>>, <<Secret(<<3>>), Clear(<<0>>)>>,
   <<Clear(<<-1, 8>>), Clear(<<2, 3>>)>>, <<Clear(<<4>>), Clear(<<0, 2>>)>>}

\* Two numbers packed into one slot; a product with zero, which is not packed.
PackedStarts ==
  {<<Packable(<<7, -1>>), Packable(<<2>>)>>, <<Packable(<<7, -1>>), Clear(<<4>>)>>,
   <<Packable(<<0>>), Packable(<<2, -1>>)>>, <<Packable(<<2>>), Clear(<<-1>>)>>,
   <<Packable(<<2>>), Clear(<<0>>)>>}

AllStarts == MixedStarts \cup PackedStarts

AllOps ==
  {"add", "subtract", "multiply", "negate", "relu", "bounded_relu", "minimum"}

=============================================================================
