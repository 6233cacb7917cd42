-------------------------- MODULE MCTensorPrograms --------------------------
(***************************************************************************)
(* Instances of TensorPrograms for TLC.                                    *)
(***************************************************************************)
EXTENDS TensorPrograms

FourPrimes == <<60, 30, 30, 30>>

Tensor(cipher, batched, shape, values) ==
  [cipher |-> cipher, batched |-> batched, shape |-> shape, values |-> values]
Secret(shape, values) == Tensor(TRUE, FALSE, shape, values)
Clear(shape, values) == Tensor(FALSE, FALSE, shape, values)
SecretBatch(shape, values) == Tensor(TRUE, TRUE, shape, values)

\* A matrix with a known zero, next to one of each kind.
Matrices ==
  {<<Secret(<<2, 2>>, <<1, 0, -2, 3>>), Clear(<<2, 2>>, <<2, 0, -1, 1>>)>>,
   <<Secret(<<2, 2>>, <<1, 0, -2, 3>>), Secret(<<2, 2>>, <<0, 2, -1, 1>>)>>,
   <<Clear(<<2>>, <<3, -1>>), Secret(<<2, 2>>, <<0, 1, 0, 2>>)>>,
   <<Secret(<<2, 3>>, <<0, 1, 2, 3, 4, 5>>), Secret(<<>>, <<7>>)>>,
   <<Clear(<<2, 3>>, <<0, 1, 2, 3, 4, 5>>), Clear(<<>>, <<0>>)>>}

MatrixNodes ==
  {[op |-> "add"], [op |-> "multiply"],
   [op |-> "broadcast", shape |-> <<2, 2>>, axes |-> {1}],
   [op |-> "broadcast", shape |-> <<2, 3>>, axes |-> {2}],
   [op |-> "concat", axis |-> 1], [op |-> "concat", axis |-> 2],
   [op |-> "reshape", order |-> <<2, 1>>, shape |-> <<2, 2>>],
   [op |-> "reshape", order |-> <<2, 1>>, shape |-> <<3, 2>>],
   [op |-> "reshape", order |-> <<1, 2>>, shape |-> <<3, 2>>],
   [op |-> "reverse", axes |-> {1}], [op |-> "reverse", axes |-> {1, 2}],
   [op |-> "slice", lower |-> <<0, 1>>, upper |-> <<2, 2>>, strides |-> <<1, 1>>],
   [op |-> "slice", lower |-> <<1, 0>>, upper |-> <<2, 3>>, strides |-> <<1, 2>>],
   [op |-> "sum", axes |-> {1}], [op |-> "sum", axes |-> {1, 2}],
   [op |-> "pad", mode |-> "constant", below |-> <<1, 0>>, above |-> <<0, 1>>],
   [op |-> "pad", mode |-> "edge", below |-> <<1, 0>>, above |-> <<0, 2>>],
   [op |-> "pad", mode |-> "reflect", below |-> <<2, 0>>, above |-> <<0, 3>>],
   [op |-> "dot", count |-> 1], [op |-> "dot", count |-> 2],
   [op |-> "constant", shape |-> <<2>>, data |-> <<0, 5>>, cipher |-> FALSE],
   [op |-> "constant", shape |-> <<>>, data |-> <<0>>, cipher |-> TRUE],
   [op |-> "result", cipher |-> TRUE], [op |-> "result", cipher |-> FALSE]}

\* Images of two channels and of one, with filters to them.
Images ==
  {<<Secret(<<1, 2, 2, 2>>, <<1, 0, 2, 3, 4, 0, -1, 5>>),
     Clear(<<1, 2, 1, 2>>, <<2, 0, 3, -1>>)>>,
   <<Secret(<<1, 1, 3, 2>>, <<1, 0, 2, 3, -1, 5>>),
     Secret(<<2, 1, 2, 1>>, <<1, 2, -1, 0>>)>>,
   <<Clear(<<1, 1, 3, 2>>, <<1, 0, 2, 3, 4, 0>>),
     Secret(<<1, 1, 2, 1>>, <<1, 2>>)>>,
   <<Clear(<<1, 1, 3, 2>>, <<1, 0, 2, 3, 4, 0>>),
     Clear(<<1, 1, 1, 2>>, <<3, -1>>)>>}

Convolve(strides, dilation, below, above, dataDilation) ==
  [op |-> "convolution", strides |-> strides, dilation |-> dilation, below |-> below,
   above |-> above, dataDilation |-> dataDilation]
Pool(op, window, strides, below, above, includePadding) ==
  [op |-> op, window |-> window, strides |-> strides, below |-> below, above |-> above,
   includePadding |-> includePadding]

ImageNodes ==
  {Convolve(<<1, 1>>, <<1, 1>>, <<0, 0>>, <<0, 0>>, <<1, 1>>),
   Convolve(<<1, 2>>, <<2, 1>>, <<1, 0>>, <<1, 1>>, <<1, 1>>),
   Convolve(<<1, 1>>, <<1, 1>>, <<0, 1>>, <<0, 0>>, <<2, 2>>),
   Pool("avg_pool", <<2, 1>>, <<1, 1>>, <<0, 0>>, <<0, 0>>, FALSE),
   Pool("avg_pool", <<2, 2>>, <<1, 1>>, <<0, 0>>, <<1, 1>>, FALSE),
   Pool("avg_pool", <<2, 2>>, <<2, 2>>, <<1, 1>>, <<1, 0>>, FALSE),
   Pool("avg_pool", <<1, 2>>, <<1, 2>>, <<0, 0>>, <<0, 0>>, TRUE),
   Pool("max_pool", <<2, 2>>, <<1, 1>>, <<0, 0>>, <<0, 0>>, FALSE),
   Pool("max_pool", <<2, 2>>, <<2, 1>>, <<1, 0>>, <<0, 1>>, FALSE),
   [op |-> "batch_norm", scale |-> <<2>>, bias |-> <<1>>],
   [op |-> "batch_norm", scale |-> <<2, -1>>, bias |-> <<1, 3>>],
   [op |-> "add"], [op |-> "reverse", axes |-> {3}], [op |-> "result", cipher |-> TRUE]}

\* Batches of two: an image or a row each, and weights.
Batches ==
  {<<SecretBatch(<<2, 1, 2, 2>>, <<1, 0, 2, 3, -1, 5, 2, 0>>),
     Clear(<<1, 1, 2, 1>>, <<2, -1>>)>>,
   <<SecretBatch(<<2, 2>>, <<1, 0, -2, 3>>), Clear(<<2>>, <<2, 0>>)>>,
   <<SecretBatch(<<2, 2>>, <<1, 0, -2, 3>>), Clear(<<2, 1>>, <<2, 3>>)>>,
   <<SecretBatch(<<2, 2>>, <<1, 0, -2, 3>>), Secret(<<2>>, <<0, -1>>)>>,
   <<Tensor(FALSE, TRUE, <<2, 2>>, <<1, 0, -2, 3>>), Secret(<<2, 2>>, <<2, 3, 1, -1>>)>>}

BatchNodes ==
  {Convolve(<<1, 1>>, <<1, 1>>, <<1, 0>>, <<0, 0>>, <<1, 1>>),
   Pool("avg_pool", <<2, 1>>, <<1, 1>>, <<0, 0>>, <<0, 0>>, FALSE),
   Pool("max_pool", <<1, 2>>, <<1, 1>>, <<0, 0>>, <<0, 0>>, FALSE),
   [op |-> "batch_norm", scale |-> <<2>>, bias |-> <<1>>],
   [op |-> "add"], [op |-> "multiply"],
   [op |-> "broadcast", shape |-> <<2, 2>>, axes |-> {1}],
   [op |-> "broadcast", shape |-> <<2, 3, 2>>, axes |-> {2}],
   [op |-> "reshape", order |-> <<1, 2, 3, 4>>, shape |-> <<2, 4>>],
   [op |-> "reshape", order |-> <<1, 2>>, shape |-> <<2, 1, 2, 1>>],
   [op |-> "pad", mode |-> "constant", below |-> <<0, 1>>, above |-> <<0, 1>>],
   [op |-> "pad", mode |-> "edge", below |-> <<0, 1>>, above |-> <<0, 0>>],
   [op |-> "dot", count |-> 1],
   [op |-> "constant", shape |-> <<>>, data |-> <<0>>, cipher |-> FALSE],
   [op |-> "constant", shape |-> <<2>>, data |-> <<4, 0>>, cipher |-> TRUE],
   [op |-> "result", cipher |-> TRUE], [op |-> "result", cipher |-> FALSE]}

AllStarts == Matrices \cup Images \cup Batches
AllNodes ==
  [batched \in BOOLEAN |-> IF batched THEN BatchNodes ELSE MatrixNodes \cup ImageNodes]

\* An image to average.
OneImage ==
  {<<Secret(<<1, 1, 2, 2>>, <<1, 2, 3, 4>>), Secret(<<1, 1, 2, 2>>, <<1, 1, 2, 2>>)>>}
AveragesTwice ==
  [batched \in {FALSE} |->
     {Pool("avg_pool", <<2, 2>>, <<1, 1>>, <<0, 0>>, <<0, 0>>, FALSE), [op |-> "add"]}]
=============================================================================
