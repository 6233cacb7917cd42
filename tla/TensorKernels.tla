--------------------------- MODULE TensorKernels ---------------------------
(***************************************************************************)
(* The kernels of src/seal/kernel that work on whole tensors.              *)
(*                                                                         *)
(* The elements of a tensor are shared pointers to ciphertexts, or         *)
(* plaintexts: here addresses in a heap of elements.  (A plaintext is      *)
(* copied, not shared, but nothing changes one in place.)  A kernel that   *)
(* only moves elements gives the sequence of them; one that computes gives *)
(* [heap, out], or Thrown.                                                 *)
(*                                                                         *)
(* The loops over output coordinates, which OpenMP runs in parallel, are   *)
(* in order here.                                                          *)
(***************************************************************************)
EXTENDS Elements, Coordinates
LOCAL INSTANCE SequencesExt

\* 1.0 in the fixed-point numbers of averages.
Unit == 12

\* Where a pointer read from beyond the end of a vector points to.
Outside == 0
At(arg, index) == IF index \in 0..(Len(arg) - 1) THEN arg[index + 1] ELSE Outside

Step(heap, out) == [heap |-> heap, out |-> out]

\* A new element.
New(h, x) == Step(Append(h, x), Len(h) + 1)

\* The fold of f over s, until f throws.
FoldUntilThrown(f(_, _), base, s) ==
  FoldLeft(LAMBDA st, x : IF st = Thrown THEN Thrown ELSE f(st, x), base, s)

\* Make something of every x in s: out is the sequence of what f points to.
Each(f(_, _), h, s) ==
  FoldUntilThrown(LAMBDA st, x :
                    Then(f(st.heap, x), LAMBDA r : Step(r.heap, Append(st.out, r.out))),
                  Step(h, <<>>), s)

-----------------------------------------------------------------------------
(* Scalar kernels on the heap.                                             *)

\* The sum of a ciphertext and a known zero is a new ciphertext: out is pointed to
\* it.  Any other result is written to where out points.
IsCopied(x, y) ==
  \/ x.cipher /\ y.cipher /\ x.e.zero # y.e.zero
  \/ x.cipher /\ ~x.e.zero /\ ~y.cipher /\ y.e.values = <<0>>

AddAt(h, x, y, out) ==
  Then(ScalarAdd(h[x], h[y], h[out]),
       LAMBDA r : IF IsCopied(h[x], h[y])
                  THEN New([h EXCEPT ![x] = r[1], ![y] = r[2]], r[3])
                  ELSE Step([h EXCEPT ![x] = r[1], ![y] = r[2], ![out] = r[3]], out))

MultiplyAt(h, x, y, out) ==
  Then(ScalarMultiply(h[x], h[y], h[out]),
       LAMBDA r : Step([h EXCEPT ![x] = r[1], ![y] = r[2], ![out] = r[3]], out))

\* With a plaintext that is no element of a tensor.
MultiplyByAt(h, x, p, out) ==
  Then(ScalarMultiply(h[x], PlainOf(p), h[out]),
       LAMBDA r : Step([h EXCEPT ![x] = r[1], ![out] = r[3]], out))

\* A product, with its factors matched in place,
ProductAt(h, x, y) ==
  LET new == New(h, Empty(h[x].cipher \/ h[y].cipher))
  IN  MultiplyAt(new.heap, x, y, new.out)

\* or copies of them.
ProductOfCopies(h, x, y) ==
  Then(ScalarMultiply(h[x], h[y], Empty(h[x].cipher \/ h[y].cipher)), LAMBDA r : New(h, r[3]))

\* The sum of the products of the pairs; nothing if there are none.
SumOfProducts(product(_, _, _), h, pairs) ==
  FoldUntilThrown(LAMBDA st, p :
                    Then(product(st.heap, p[1], p[2]),
                         LAMBDA prod : IF st.out = Outside THEN prod
                                       ELSE AddAt(prod.heap, st.out, prod.out, st.out)),
                  Step(h, Outside), pairs)

EncryptedZero == Cipher(Encrypt(NewCipher, Plain(<<0>>, FALSE)))
PlainZeroElement == PlainOf(Plain(<<0>>, FALSE))

-----------------------------------------------------------------------------
(* Kernels that move elements.                                             *)

\* The elements of arg in a region of it.
Taken(arg, t) == LET walk == Walk(t) IN [n \in DOMAIN walk |-> At(arg, SourceIndex(t, walk[n]))]

\* A result for every coordinate of out_shape, in order.
Outputs(outShape, f(_)) == [n \in 1..Size(outShape) |-> f(CoordAt(outShape, n - 1))]

Broadcast(arg, inShape, outShape, axes) ==
  Outputs(outShape, LAMBDA c : At(arg, IndexOf(inShape, Reduce(c, axes))))

\* The part of the output that the i-th input fills.
Chunk(inShapes, outShape, axis, i) ==
  LET before == Plus([j \in 1..(i - 1) |-> inShapes[j][axis]])
  IN  Region(outShape, [All(outShape, 0) EXCEPT ![axis] = before],
             [outShape EXCEPT ![axis] = before + inShapes[i][axis]],
             All(outShape, 1), InOrder(outShape), All(outShape, 0), All(outShape, 1))

ConcatC(args, inShapes, outShape, axis) ==
  LET index(i, m) == SourceIndex(Chunk(inShapes, outShape, axis, i),
                                 CoordAt(inShapes[i], m))
  IN  [n \in 1..Size(outShape) |->
         LET p == CHOOSE p \in (1..Len(args)) \X (0..(Size(outShape) - 1)) :
                    p[2] < Size(inShapes[p[1]]) /\ index(p[1], p[2]) = n - 1
         IN  At(args[p[1]], p[2])]
ConcatP(args, inShapes, outShape, axis) == ConcatC(args, inShapes, outShape, axis)

ReshapeC(arg, inShape, order) ==
  Taken(arg, Region(inShape, All(inShape, 0), inShape, All(inShape, 1), order,
                    All(inShape, 0), All(inShape, 1)))
ReshapeP(arg, inShape, order) == ReshapeC(arg, inShape, order)

ReverseC(arg, argShape, outShape, axes) ==
  Outputs(outShape, LAMBDA c :
    At(arg, IndexOf(argShape, [i \in DOMAIN c |-> IF i \in axes THEN argShape[i] - c[i] - 1
                                                  ELSE c[i]])))
ReverseP(arg, argShape, outShape, axes) == ReverseC(arg, argShape, outShape, axes)

SliceC(arg, argShape, lower, upper, strides) ==
  Taken(arg, Region(argShape, lower, upper, strides, InOrder(argShape),
                    All(argShape, 0), All(argShape, 1)))
SliceP(arg, argShape, lower, upper, strides) == SliceC(arg, argShape, lower, upper, strides)

\* REFLECT: off one edge and the other until the position is inside.
RECURSIVE Reflected(_, _, _)
Reflected(pos, below, size) ==
  IF pos < below THEN Reflected(2 * below - pos, below, size)
  ELSE IF pos >= below + size THEN Reflected(2 * (below + size - 1) - pos, below, size)
  ELSE pos

Clamped(pos, below, size) ==
  IF pos < below THEN below ELSE IF pos >= below + size THEN below + size - 1 ELSE pos

\* pad_seal(S, S, S)
Pad(arg, padding, argShape, outShape, below, mode) ==
  LET t == Region(argShape, All(argShape, 0), outShape, All(argShape, 1), InOrder(argShape),
                  below, All(argShape, 1))
      inside(c, f(_, _, _)) == [i \in DOMAIN c |-> f(c[i], below[i], argShape[i])]
  IN  [n \in 1..Size(outShape) |->
         LET c == CoordAt(outShape, n - 1)
         IN  CASE mode = "constant" ->
                    IF HasSource(t, c) THEN At(arg, SourceIndex(t, c)) ELSE padding
               [] mode = "edge" -> At(arg, SourceIndex(t, inside(c, Clamped)))
               [] mode = "reflect" -> At(arg, SourceIndex(t, inside(c, Reflected)))]

\* The padding element must be a scalar; of ciphertexts and a plain one, a zero,
\* that a new ciphertext takes the place of.
PadSame(h, arg0, arg1, argShape, outShape, below, mode) ==
  IF Len(arg1) # 1 THEN Thrown
  ELSE Step(h, Pad(arg0, arg1[1], argShape, outShape, below, mode))
PadCP(h, arg0, arg1, argShape, outShape, below, mode) ==
  IF Len(arg1) # 1 THEN Thrown
  ELSE IF h[arg1[1]] # PlainZeroElement THEN Thrown
  ELSE LET new == New(h, Cipher(ZeroOut(NewCipher)))
       IN  PadSame(new.heap, arg0, <<new.out>>, argShape, outShape, below, mode)

-----------------------------------------------------------------------------
(* Kernels on elements at one place.                                       *)

\* add_seal, multiply_seal, ... on vectors.
Pointwise2(kernel(_, _, _), h, arg0, arg1, count) ==
  Each(LAMBDA g, n :
         LET cipher == g[arg0[n]].cipher \/ g[arg1[n]].cipher
             new == New(g, Empty(cipher))
         IN  Then(kernel(g[arg0[n]], g[arg1[n]], Empty(cipher)),
                  LAMBDA r : Step([new.heap EXCEPT ![arg0[n]] = r[1], ![arg1[n]] = r[2],
                                                   ![new.out] = r[3]], new.out)),
       h, [n \in 1..count |-> n])

\* constant_seal: plain, or encrypted.
ConstantP(h, data) == Each(LAMBDA g, v : New(g, PlainOf(Plain(<<v>>, FALSE))), h, data)
ConstantC(h, data) ==
  Each(LAMBDA g, v : Then(Encrypt(NewCipher, Plain(<<v>>, FALSE)), LAMBDA c : New(g, Cipher(c))),
       h, data)

\* result_seal: the caller's tensor gets the elements, encrypted or decrypted if it
\* is of the other kind.
ResultCC(h, arg) == Step(h, arg)
ResultPP(h, arg) == Step(h, arg)
ResultPC(h, arg) ==
  Each(LAMBDA g, a : Then(Encrypt(NewCipher, g[a].e), LAMBDA c : New(g, Cipher(c))), h, arg)
ResultCP(h, arg) ==
  Each(LAMBDA g, a : Then(Decrypt(g[a].e), LAMBDA p : New(g, PlainOf(p))), h, arg)

\* batch_norm_inference_seal; gamma, beta, mean and variance of a channel only
\* determine its scale and bias.
BatchNormInference(h, input, shape, scale, bias, batch) ==
  LET vector(v) == Plain([i \in 1..batch |-> v], FALSE)
  IN  Each(LAMBDA g, n :
             LET channel == CoordAt(shape, n - 1)[2] + 1
             IN  Then(MultiplyCP(g[input[n]].e, vector(scale[channel]), NewCipher),
                      LAMBDA prod : Then(AddCP(prod, vector(bias[channel]), prod),
                                         LAMBDA c : New(g, Cipher(c)))),
           h, [n \in 1..Size(shape) |-> n])

-----------------------------------------------------------------------------
(* Sums.                                                                   *)

\* Every input is added to the output its coordinate reduces to, from a zero.
SumInto(h, zero, arg, inShape, outShape, axes) ==
  LET zeros == Each(LAMBDA g, n : New(g, zero), h, [n \in 1..Size(outShape) |-> n])
      add(st, n) ==
        LET o == IndexOf(outShape, Reduce(CoordAt(inShape, n - 1), axes)) + 1
        IN  IF At(arg, n - 1) = Outside THEN Thrown
            ELSE Then(AddAt(st.heap, At(arg, n - 1), st.out[o], st.out[o]),
                      LAMBDA r : Step(r.heap, [st.out EXCEPT ![o] = r.out]))
  IN  FoldUntilThrown(add, zeros, [n \in 1..Size(inShape) |-> n])

SumC(h, arg, inShape, outShape, axes) == SumInto(h, EncryptedZero, arg, inShape, outShape, axes)
SumP(h, arg, inShape, outShape, axes) == SumInto(h, PlainZeroElement, arg, inShape, outShape, axes)

-----------------------------------------------------------------------------
(* Pooling.  A window is of one batch index and one channel.               *)

\* The region of the input under the window of output coordinate c.
Window(argShape, c, window, strides, below) ==
  LET start == [i \in DOMAIN c |-> IF i <= 2 THEN c[i] ELSE strides[i-2] * c[i]]
  IN  Region(argShape, start,
             [i \in DOMAIN c |-> start[i] + (IF i <= 2 THEN 1 ELSE window[i-2])],
             All(argShape, 1), InOrder(argShape),
             [i \in DOMAIN c |-> IF i <= 2 THEN 0 ELSE below[i-2]], All(argShape, 1))

InBounds(t) == SelectSeq(Walk(t), LAMBDA c : HasSource(t, c))
IndicesOf(t, walk) == [n \in DOMAIN walk |-> SourceIndex(t, walk[n])]

\* max_pool_seal(arg_shape, ...): for each output the inputs to maximize over.
MaximizeList(argShape, outShape, window, strides, below) ==
  Outputs(outShape, LAMBDA c :
    LET t == Window(argShape, c, window, strides, below) IN IndicesOf(t, InBounds(t)))

\* The element-wise maximum of plaintexts of one size.
MaximumOf(plains) ==
  FoldLeft(LAMBDA v, p : IF v = <<>> THEN p.values ELSE [i \in DOMAIN v |-> Larger(v[i], p.values[i])],
           <<>>, plains)

MaxPool(plainAt(_, _), result(_), h, arg, argShape, outShape, window, strides, below) ==
  Each(LAMBDA g, list :
         LET plains == [n \in DOMAIN list |-> plainAt(g, At(arg, list[n]))]
         IN  IF \E m, n \in DOMAIN list :
                  Thrown \in {plains[m], plains[n]} \/ Len(plains[m].values) # Len(plains[n].values)
             THEN Thrown
             ELSE Then(result(Plain(MaximumOf(plains), FALSE)), LAMBDA x : New(g, x)),
       h, MaximizeList(argShape, outShape, window, strides, below))

MaxPoolP(h, arg, argShape, outShape, window, strides, below) ==
  MaxPool(LAMBDA g, a : g[a].e, PlainOf, h, arg, argShape, outShape, window, strides, below)

\* Without a client the server decrypts, and encrypts the maximum.
MaxPoolC(h, arg, argShape, outShape, window, strides, below) ==
  MaxPool(LAMBDA g, a : Decrypt(g[a].e),
          LAMBDA p : Then(Encrypt(NewCipher, p), Cipher),
          h, arg, argShape, outShape, window, strides, below)

\* The elements to average over at c, with the padding or without.
Averaged(arg, argShape, c, window, strides, below, includePadding) ==
  LET t == Window(argShape, c, window, strides, below)
      indices == IndicesOf(t, IF includePadding THEN Walk(t) ELSE InBounds(t))
  IN  [n \in DOMAIN indices |-> At(arg, indices[n])]

\* 1.f / n_elements
Reciprocal(n) == Plain(<<Unit \div n>>, FALSE)

\* sum is the pointer to the first of the elements: the others are added to it, and
\* it is scaled, in place.
AvgPoolOfCopy(h, arg, argShape, outShape, window, strides, below, includePadding) ==
  Each(LAMBDA g, c :
         LET elements == Averaged(arg, argShape, c, window, strides, below, includePadding)
         IN  IF elements = <<>> \/ Outside \in {elements[n] : n \in DOMAIN elements} THEN Thrown
             ELSE LET copy == New(g, g[elements[1]])
                  IN  Then(FoldUntilThrown(LAMBDA st, a : AddAt(st.heap, st.out, a, st.out),
                                           copy, Tail(elements)),
                           LAMBDA s : MultiplyByAt(s.heap, s.out, Reciprocal(Len(elements)), s.out)),
       h, Outputs(outShape, LAMBDA c : c))
AvgPoolC(h, arg, argShape, outShape, window, strides, below, includePadding) ==
  Each(LAMBDA g, c :
         LET elements == Averaged(arg, argShape, c, window, strides, below, includePadding)
         IN  IF elements = <<>> \/ Outside \in {elements[n] : n \in DOMAIN elements} THEN Thrown
             ELSE Then(FoldUntilThrown(LAMBDA st, a : AddAt(st.heap, st.out, a, st.out),
                                       Step(g, elements[1]), Tail(elements)),
                       LAMBDA s : MultiplyByAt(s.heap, s.out, Reciprocal(Len(elements)), s.out)),
       h, Outputs(outShape, LAMBDA c : c))

\* Of plaintexts sum is a copy of the first.
AvgPoolP(h, arg, argShape, outShape, window, strides, below, includePadding) ==
  AvgPoolOfCopy(h, arg, argShape, outShape, window, strides, below, includePadding)

-----------------------------------------------------------------------------
(* Convolution.  Batch and channel axes are as at every call: batch 1 and  *)
(* channel 2 of data and output, output channel 1 and input channel 2 of   *)
(* the filters, which are not rotated.                                     *)

\* The part of the input under the filter at output coordinate c,
InputBatch(s0, s1, c, p) ==
  LET start == [i \in DOMAIN s0 |-> CASE i = 1 -> c[1] [] i = 2 -> 0
                                      [] OTHER -> p.strides[i-2] * c[i]]
  IN  Region(s0, start,
             [i \in DOMAIN s0 |-> CASE i = 1 -> c[1] + 1 [] i = 2 -> s0[2]
                                    [] OTHER -> start[i] + (s1[i] - 1) * p.dilation[i-2] + 1],
             [i \in DOMAIN s0 |-> IF i <= 2 THEN 1 ELSE p.dilation[i-2]], InOrder(s0),
             [i \in DOMAIN s0 |-> IF i <= 2 THEN 0 ELSE p.below[i-2]],
             [i \in DOMAIN s0 |-> IF i <= 2 THEN 1 ELSE p.dataDilation[i-2]])

\* and the filters of its output channel.
Filter(s0, s1, c) ==
  Region(s1, [All(s1, 0) EXCEPT ![1] = c[2]],
         [i \in DOMAIN s1 |-> CASE i = 1 -> c[2] + 1 [] i = 2 -> s0[2] [] OTHER -> s1[i]],
         All(s1, 1), InOrder(s1), All(s1, 0), All(s1, 1))

\* The elements to multiply: the two regions are walked together, to the end of the
\* shorter.
PairsAtFilterWaiting(arg0, arg1, s0, s1, c, p) ==
  LET input == InputBatch(s0, s1, c, p)
      filter == Filter(s0, s1, c)
      filters == Walk(filter)
      sourced == InBounds(input)
  IN  [n \in DOMAIN sourced |-> <<At(arg0, SourceIndex(input, sourced[n])),
                                  At(arg1, SourceIndex(filter, filters[n]))>>]
PairsAt(arg0, arg1, s0, s1, c, p) ==
  LET input == InputBatch(s0, s1, c, p)
      filter == Filter(s0, s1, c)
      inputs == Walk(input)
      filters == Walk(filter)
      both == {n \in DOMAIN inputs : n \in DOMAIN filters}
      sourced == SelectSeq([n \in both |-> n], LAMBDA n : HasSource(input, inputs[n]))
  IN  [n \in DOMAIN sourced |-> <<At(arg0, SourceIndex(input, inputs[sourced[n]])),
                                  At(arg1, SourceIndex(filter, filters[sourced[n]]))>>]

ConvolutionWith(product(_, _, _), zero, h, arg0, arg1, s0, s1, outShape, p) ==
  Each(LAMBDA g, c :
         Then(SumOfProducts(product, g, PairsAt(arg0, arg1, s0, s1, c, p)),
              LAMBDA s : IF s.out = Outside THEN New(s.heap, zero) ELSE s),
       h, Outputs(outShape, LAMBDA c : c))

ConvolutionCC(h, arg0, arg1, s0, s1, outShape, p) ==
  ConvolutionWith(ProductAt, EncryptedZero, h, arg0, arg1, s0, s1, outShape, p)
ConvolutionCP(h, arg0, arg1, s0, s1, outShape, p) ==
  ConvolutionWith(ProductAt, EncryptedZero, h, arg0, arg1, s0, s1, outShape, p)
ConvolutionPC(h, arg0, arg1, s0, s1, outShape, p) ==
  ConvolutionWith(ProductAt, EncryptedZero, h, arg0, arg1, s0, s1, outShape, p)
ConvolutionPP(h, arg0, arg1, s0, s1, outShape, p) ==
  ConvolutionWith(ProductAt, PlainZeroElement, h, arg0, arg1, s0, s1, outShape, p)

-----------------------------------------------------------------------------
(* Dot product: over the last axes of arg0 and the first of arg1.          *)

\* The sum of no products is an element that was never written to.
DotWith(product(_, _, _), empty, h, arg0, arg1, s0, s1, count) ==
  LET left == SubSeq(s0, 1, Len(s0) - count)
      dotted == SubSeq(s1, 1, count)
      right == SubSeq(s1, count + 1, Len(s1))
      pairs(c) ==
        LET c0 == SubSeq(c, 1, Len(left))
            c1 == SubSeq(c, Len(left) + 1, Len(c))
        IN  Outputs(dotted, LAMBDA d : <<At(arg0, IndexOf(s0, c0 \o d)),
                                         At(arg1, IndexOf(s1, d \o c1))>>)
  IN  Each(LAMBDA g, c :
             Then(SumOfProducts(product, g, pairs(c)),
                  LAMBDA s : IF s.out = Outside THEN New(s.heap, empty) ELSE s),
           h, Outputs(left \o right, LAMBDA c : c))

\* Of two ciphers copies are multiplied, of a cipher and a plaintext the elements.
DotCC(h, arg0, arg1, s0, s1, count) ==
  DotWith(ProductOfCopies, EmptyCipher, h, arg0, arg1, s0, s1, count)
DotPC(h, arg0, arg1, s0, s1, count) ==
  DotWith(ProductAt, EmptyCipher, h, arg0, arg1, s0, s1, count)
DotCP(h, arg0, arg1, s0, s1, count) ==
  DotWith(ProductAt, EmptyCipher, h, arg0, arg1, s0, s1, count)
DotPP(h, arg0, arg1, s0, s1, count) ==
  DotWith(ProductAt, EmptyPlain, h, arg0, arg1, s0, s1, count)
=============================================================================
