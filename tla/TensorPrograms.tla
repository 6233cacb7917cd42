--------------------------- MODULE TensorPrograms ---------------------------
(***************************************************************************)
(* Straight-line programs of tensor operations, as                         *)
(* HESealExecutable::generate_calls (src/seal/he_seal_executable.cpp) runs *)
(* them: it chooses the kernel by which arguments are cipher and which     *)
(* plain, the shapes it is given, batched or not, and whether the result   *)
(* is rescaled.  What each tensor means is kept next to it, in `meanings`. *)
(*                                                                         *)
(* Movements of elements copy pointers, so tensors share ciphertexts, and  *)
(* kernels change ciphertexts in place.                                    *)
(***************************************************************************)
EXTENDS TensorKernels
LOCAL INSTANCE FiniteSetsExt

CONSTANTS
  Starts,       \* inputs of programs: pairs of [shape, cipher, batched, values]
  Nodes,        \* operations programs consist of, with their attributes: for
                \* each value of m_batch_data
  MaxTensors,   \* bound on the tensors of a program, the inputs included
  KnownDefects  \* whether an operation meets the operands it is wrong on

VARIABLES
  batchData, \* m_batch_data
  heap,      \* the elements of all tensors, by address
  tensors,   \* [cipher, batched, shape, at, of], of: the operation that made it
  meanings,  \* the number each stands for at every coordinate
  consumed,  \* tensors whose elements an operation has used up
  failed     \* whether an operation threw

vars == <<batchData, heap, tensors, meanings, consumed, failed>>

\* HETensor::batch_shape
BatchShape(shape) == IF shape = <<>> THEN shape ELSE [shape EXCEPT ![1] = 1]

\* The shape of the elements of a tensor, and get_batched_element_count.
BatchedShape(t) == IF t.batched THEN BatchShape(t.shape) ELSE t.shape
ElementCount(t) == Size(BatchedShape(t))

\* arg_shapes and out_shape.
ShapeOf(shape) == IF batchData THEN BatchShape(shape) ELSE shape

\* A tensor's number at a coordinate.
NumberAt(t, h, c) ==
  LET element == IF t.batched THEN [c EXCEPT ![1] = 0] ELSE c
      values == ValuesOf(h[t.at[IndexOf(BatchedShape(t), element) + 1]])
      place == IF t.batched THEN c[1] + 1 ELSE 1
  IN  IF place \in DOMAIN values THEN values[place] ELSE -1000

-----------------------------------------------------------------------------
(* Running a node.                                                         *)

\* lazy_rescaling
LazilyRescaled(r) ==
  FoldUntilThrown(LAMBDA st, a :
                    Then(LazyRescaling(st.heap[a].e),
                         LAMBDA c : Step([st.heap EXCEPT ![a].e = c], r.out)),
                  r, r.out)
RescaledByAlways(cipher0, cipher1, r) ==
  IF r = Thrown \/ ~(cipher0 \/ cipher1) THEN r ELSE LazilyRescaled(r)
RescaledBy(cipher0, cipher1, r) ==
  IF r = Thrown \/ cipher0 = cipher1 THEN r ELSE LazilyRescaled(r)

AddNode(h, x, y, out) == Pointwise2(ScalarAdd, h, x.at, y.at, ElementCount(out))
MultiplyNode(h, x, y, out) ==
  RescaledBy(x.cipher, y.cipher, Pointwise2(ScalarMultiply, h, x.at, y.at, ElementCount(out)))

BroadcastNode(h, x, out, p) ==
  Step(h, Broadcast(x.at, ShapeOf(x.shape), ShapeOf(out.shape), p.axes))

ConcatNode(h, x, y, out, p) ==
  IF x.cipher # y.cipher THEN Thrown
  ELSE Step(h, LET args == <<x.at, y.at>>
                   shapes == <<x.shape, y.shape>>
               IN  IF x.cipher THEN ConcatC(args, shapes, out.shape, p.axis)
                   ELSE ConcatP(args, shapes, out.shape, p.axis))

ReshapeNode(h, x, p) ==
  Step(h, IF x.cipher THEN ReshapeC(x.at, BatchedShape(x), p.order)
          ELSE ReshapeP(x.at, BatchedShape(x), p.order))

ReverseNode(h, x, out, p) ==
  Step(h, IF x.cipher THEN ReverseC(x.at, x.shape, out.shape, p.axes)
          ELSE ReverseP(x.at, x.shape, out.shape, p.axes))

SliceNode(h, x, p) ==
  Step(h, IF x.cipher THEN SliceC(x.at, x.shape, p.lower, p.upper, p.strides)
          ELSE SliceP(x.at, x.shape, p.lower, p.upper, p.strides))

SumNode(h, x, out, p) ==
  IF x.cipher THEN SumC(h, x.at, x.shape, out.shape, p.axes)
  ELSE SumP(h, x.at, x.shape, out.shape, p.axes)

PadNode(h, x, y, out, p) ==
  LET s0 == ShapeOf(x.shape)
      so == ShapeOf(out.shape)
  IN  CASE x.cipher /\ y.cipher   -> PadSame(h, x.at, y.at, s0, so, p.below, p.mode)
        [] x.cipher /\ ~y.cipher  -> PadCP(h, x.at, y.at, s0, so, p.below, p.mode)
        [] ~x.cipher /\ ~y.cipher ->
             PadSame(h, x.at, y.at, s0, BatchedShape(out), p.below, p.mode)
        [] ~x.cipher /\ y.cipher  -> Thrown

AvgPoolNode(h, x, out, p) ==
  IF x.cipher
  THEN Then(AvgPoolC(h, x.at, ShapeOf(x.shape), ShapeOf(out.shape), p.window, p.strides,
                     p.below, p.includePadding), LazilyRescaled)
  ELSE AvgPoolP(h, x.at, ShapeOf(x.shape), ShapeOf(out.shape), p.window, p.strides, p.below,
                p.includePadding)

MaxPoolNode(h, x, out, p) ==
  IF x.cipher
  THEN MaxPoolC(h, x.at, x.shape, BatchedShape(out), p.window, p.strides, p.below)
  ELSE MaxPoolP(h, x.at, x.shape, BatchedShape(out), p.window, p.strides, p.below)

ConvolutionNode(h, x, y, out, p) ==
  LET s0 == ShapeOf(x.shape)
      so == ShapeOf(out.shape)
  IN  RescaledBy(x.cipher, y.cipher,
        CASE x.cipher /\ y.cipher   -> ConvolutionCC(h, x.at, y.at, s0, y.shape, so, p)
          [] x.cipher /\ ~y.cipher  -> ConvolutionCP(h, x.at, y.at, s0, y.shape, so, p)
          [] ~x.cipher /\ y.cipher  -> ConvolutionPC(h, x.at, y.at, s0, y.shape, so, p)
          [] ~x.cipher /\ ~y.cipher -> ConvolutionPP(h, x.at, y.at, s0, y.shape, so, p))

DotNode(h, x, y, p) ==
  LET s0 == ShapeOf(x.shape)
  IN  RescaledBy(x.cipher, y.cipher,
        CASE x.cipher /\ y.cipher   -> DotCC(h, x.at, y.at, s0, y.shape, p.count)
          [] x.cipher /\ ~y.cipher  -> DotCP(h, x.at, y.at, s0, y.shape, p.count)
          [] ~x.cipher /\ y.cipher  -> DotPC(h, x.at, y.at, s0, y.shape, p.count)
          [] ~x.cipher /\ ~y.cipher -> DotPP(h, x.at, y.at, s0, y.shape, p.count))

\* Constants are cipher when the model is encrypted.
ConstantNode(h, p) == IF p.cipher THEN ConstantC(h, p.data) ELSE ConstantP(h, p.data)

BatchNormNode(h, x, p) ==
  IF ~x.cipher THEN Thrown
  ELSE BatchNormInference(h, x.at, ShapeOf(x.shape), p.scale, p.bias,
                          IF batchData THEN x.shape[1] ELSE 1)

ResultNode(h, x, p) ==
  CASE x.cipher /\ p.cipher   -> ResultCC(h, x.at)
    [] x.cipher /\ ~p.cipher  -> ResultCP(h, x.at)
    [] ~x.cipher /\ p.cipher  -> ResultPC(h, x.at)
    [] ~x.cipher /\ ~p.cipher -> ResultPP(h, x.at)

-----------------------------------------------------------------------------
(* What nGraph says of an operation (external): the shape of its result,   *)
(* and the number at each coordinate.  In averages 1 is counted as Unit.   *)

Numbers(shape, f(_)) == [c \in Coords(shape) |-> f(c)]

\* The size of an axis that a window moves over.
Places(size, window, stride) == (size - window) \div stride + 1
Extent(size, dilation) == (size - 1) * dilation + 1

PooledShape(s, p) ==
  [i \in DOMAIN s |->
     IF i <= 2 THEN s[i]
     ELSE Places(s[i] + p.below[i-2] + p.above[i-2], p.window[i-2], p.strides[i-2])]

ConvolvedShape(s, f, p) ==
  [i \in DOMAIN s |->
     CASE i = 1 -> s[1] [] i = 2 -> f[1]
       [] OTHER -> Places(Extent(s[i], p.dataDilation[i-2]) + p.below[i-2] + p.above[i-2],
                          Extent(f[i], p.dilation[i-2]), p.strides[i-2])]

Transposed(shape, order) == [i \in DOMAIN shape |-> shape[order[i]]]

\* Where padded position d of n comes from.
Clamp(d, n) == IF d < 0 THEN 0 ELSE IF d >= n THEN n - 1 ELSE d
Mirror(d, n) == LET m == d % (2 * (n - 1)) IN IF m < n THEN m ELSE 2 * (n - 1) - m

Padded0(v, shape, element, below, mode, c) ==
  LET d == [i \in DOMAIN c |-> c[i] - below[i]]
  IN  CASE mode = "constant" -> IF d \in Coords(shape) THEN v[d] ELSE element
        [] mode = "edge"     -> v[[i \in DOMAIN d |-> Clamp(d[i], shape[i])]]
        [] mode = "reflect"  -> v[[i \in DOMAIN d |-> Mirror(d[i], shape[i])]]

\* The coordinates of the input that the window at c covers.
Covered(shape, c, p) ==
  {d \in Coords(shape) :
     /\ d[1] = c[1] /\ d[2] = c[2]
     /\ \A i \in 3..Len(shape) :
          d[i] + p.below[i-2] - p.strides[i-2] * c[i] \in 0..(p.window[i-2] - 1)}
WindowSize(shape, c, p) ==
  IF p.includePadding THEN Times(p.window) ELSE Cardinality(Covered(shape, c, p))

Convolved(v, w, s, f, c, p) ==
  LET above(k) ==
        [i \in DOMAIN s |->
           CASE i = 1 -> c[1] [] i = 2 -> k[2]
             [] OTHER -> p.strides[i-2] * c[i] + p.dilation[i-2] * k[i] - p.below[i-2]]
      dilated(d) == [i \in DOMAIN s |-> IF i <= 2 THEN d[i] ELSE d[i] * p.dataDilation[i-2]]
      term(k) ==
        LET from == {d \in Coords(s) : dilated(d) = above(k)}
        IN  w[k] * MapThenSumSet(LAMBDA d : v[d], from)
  IN  MapThenSumSet(term, {k \in Coords(f) : k[1] = c[2]})

-----------------------------------------------------------------------------
(* Operands on which the code is wrong or undefined.                       *)

Shared(t) == \E m, n \in DOMAIN t.at : m # n /\ t.at[m] = t.at[n]
Sharing(x) ==
  {i \in DOMAIN tensors :
     \E m \in DOMAIN tensors[i].at, n \in DOMAIN x.at : tensors[i].at[m] = x.at[n]}

\* Two windows from one element, as where both begin in the padding.
FirstsMeet(x, p) ==
  LET under(c) == LET t == Window(x.shape, c, p.window, p.strides, p.below)
                  IN  IndicesOf(t, InBounds(t))
      outputs == Coords(PooledShape(x.shape, p))
  IN  \E c, d \in outputs : c # d /\ \E n \in DOMAIN under(d) : under(d)[n] = under(c)[1]

\* A sum of a known zero and a zero in the clear clears the zero flag only.
ZerosMeet(x, y) ==
  \E m \in DOMAIN x.at, n \in DOMAIN y.at :
    LET a == heap[x.at[m]]
        b == heap[y.at[n]]
    IN  m = n /\ (a.cipher # b.cipher) /\ IF a.cipher THEN a.e.zero /\ b = PlainZeroElement
                                          ELSE b.e.zero /\ a = PlainZeroElement

DefectivePool(x, p) ==
  \* the padding is averaged by indexing with its coordinates
  \/ p.includePadding /\ \E i \in DOMAIN p.below : p.below[i] + p.above[i] > 0
  \* sums are made in the argument's own elements
  \/ x.cipher /\ (Shared(x) \/ FirstsMeet(x, p))

\* Movements and sums are given the shape of all the batch, and batched tensors
\* have no elements there.
Unbatched(x) == ~x.batched \/ x.shape[1] = 1

\* Under batching an operation on tensors that are not batched makes a result for
\* the first of the batch only: enough to be read next to one that is batched.
Whole(i) == \A n \in DOMAIN tensors[i].at :
              heap[tensors[i].at[n]] \notin {EmptyPlain, EmptyCipher}
Uniform(i) ==
  \A c, d \in Coords(tensors[i].shape) : Tail(c) = Tail(d) => meanings[i][c] = meanings[i][d]
BatchesAgree(i, j) ==
  IF tensors[i].batched = tensors[j].batched THEN Whole(i) /\ Whole(j)
  ELSE IF tensors[i].batched THEN Uniform(j) ELSE Uniform(i)

-----------------------------------------------------------------------------
(* Programs.                                                               *)

StartTensor(h, s) ==
  LET element(n) ==
        LET c == CoordAt(IF s.batched THEN BatchShape(s.shape) ELSE s.shape, n - 1)
            value(b) == s.values[IndexOf(s.shape, [c EXCEPT ![1] = b - 1]) + 1]
        IN  Plain(IF s.batched THEN [b \in 1..s.shape[1] |-> value(b)] ELSE <<s.values[n]>>, FALSE)
      count == Size(IF s.batched THEN BatchShape(s.shape) ELSE s.shape)
  IN  Each(LAMBDA g, n :
             New(g, IF s.cipher THEN Cipher(Encrypt(NewCipher, element(n))) ELSE PlainOf(element(n))),
           h, [n \in 1..count |-> n])

Started(s, at) == [cipher |-> s.cipher, batched |-> s.batched, shape |-> s.shape, at |-> at, of |-> "start"]
StartNumbers(s) == Numbers(s.shape, LAMBDA c : s.values[IndexOf(s.shape, c) + 1])

Init ==
  /\ \E s \in Starts :
       LET first == StartTensor(<<>>, s[1])
           second == StartTensor(first.heap, s[2])
       IN  /\ heap = second.heap
           /\ tensors = <<Started(s[1], first.out), Started(s[2], second.out)>>
           /\ meanings = <<StartNumbers(s[1]), StartNumbers(s[2])>>
           /\ batchData = (s[1].batched \/ s[2].batched)
  /\ consumed = {}
  /\ failed = FALSE

\* call(): the result is plain if all arguments are, batched if one is.
OutOf(op, args, shape) ==
  [cipher |-> \E i \in args : tensors[i].cipher, batched |-> \E i \in args : tensors[i].batched,
   shape |-> shape, at |-> <<>>, of |-> op]

\* The elements of the result that the kernel does not write stay as created.
Stored(r, out) ==
  LET rest == Each(LAMBDA g, n : New(g, Empty(out.cipher)), r.heap,
                   [n \in 1..(ElementCount(out) - Len(r.out)) |-> n])
  IN  Step(rest.heap, r.out \o rest.out)

\* A node with result r, that means v; it uses up the tensors `spent`.
Run(args, r, out, v, spent) ==
  /\ ~failed /\ Len(tensors) < MaxTensors
  /\ \A i \in args : i \notin consumed /\ tensors[i].of # "result"
  /\ UNCHANGED batchData
  /\ IF r = Thrown
     THEN failed' = TRUE /\ UNCHANGED <<heap, tensors, meanings, consumed>>
     ELSE LET stored == Stored(r, out)
          IN  /\ heap' = stored.heap
              /\ tensors' = Append(tensors, [out EXCEPT !.at = stored.out])
              /\ meanings' = Append(meanings, v)
              /\ consumed' = consumed \cup spent
              /\ UNCHANGED failed

\* A window must fit.
Fitting(shape) == \A axis \in DOMAIN shape : shape[axis] > 0

\* A batch norm leaves its result at the square of the scale: only movements and
\* the end of the program follow it.
Rescaled(i) == tensors[i].of # "batch_norm"
Ready(i) == Rescaled(i) /\ Whole(i)

Add(i, j) ==
  LET x == tensors[i]
      y == tensors[j]
      out == OutOf("add", {i, j}, x.shape)
  IN  /\ [op |-> "add"] \in Nodes[batchData]
      /\ x.shape = y.shape
      /\ Rescaled(i) /\ Rescaled(j) /\ BatchesAgree(i, j)
      /\ KnownDefects \/ ~ZerosMeet(x, y)
      /\ Run({i, j}, AddNode(heap, x, y, out), out,
             Numbers(x.shape, LAMBDA c : meanings[i][c] + meanings[j][c]), {})

Multiply(i, j) ==
  LET x == tensors[i]
      y == tensors[j]
      out == OutOf("multiply", {i, j}, x.shape)
  IN  /\ [op |-> "multiply"] \in Nodes[batchData]
      /\ x.shape = y.shape
      /\ Rescaled(i) /\ Rescaled(j) /\ BatchesAgree(i, j)
      /\ Run({i, j}, MultiplyNode(heap, x, y, out), out,
             Numbers(x.shape, LAMBDA c : meanings[i][c] * meanings[j][c]), {})

BroadcastTo(i, p) ==
  LET x == tensors[i]
      out == OutOf("broadcast", {i}, p.shape)
  IN  /\ p.op = "broadcast"
      /\ Reduce(p.shape, p.axes) = x.shape
      /\ Ready(i) /\ (x.batched => 1 \notin p.axes)
      /\ Run({i}, BroadcastNode(heap, x, out, p), out,
             Numbers(p.shape, LAMBDA c : meanings[i][Reduce(c, p.axes)]), {})

Concat(i, j, p) ==
  LET x == tensors[i]
      y == tensors[j]
      n == x.shape[p.axis]
      shape == [x.shape EXCEPT ![p.axis] = n + y.shape[p.axis]]
      out == OutOf("concat", {i, j}, shape)
  IN  /\ p.op = "concat"
      /\ p.axis \in DOMAIN x.shape /\ Len(y.shape) = Len(x.shape)
      /\ [x.shape EXCEPT ![p.axis] = 0] = [y.shape EXCEPT ![p.axis] = 0]
      /\ Ready(i) /\ Ready(j) /\ Unbatched(x) /\ Unbatched(y)
      /\ x.cipher = y.cipher
      /\ Run({i, j}, ConcatNode(heap, x, y, out, p), out,
             Numbers(shape, LAMBDA c : IF c[p.axis] < n THEN meanings[i][c]
                                       ELSE meanings[j][[c EXCEPT ![p.axis] = @ - n]]), {})

Reshape(i, p) ==
  LET x == tensors[i]
      out == OutOf("reshape", {i}, p.shape)
      moved == Transposed(x.shape, p.order)
      from(c) == [axis \in DOMAIN x.shape |->
                    CoordAt(moved, IndexOf(p.shape, c))[CHOOSE k \in DOMAIN p.order : p.order[k] = axis]]
  IN  /\ p.op = "reshape"
      /\ Len(p.order) = Len(x.shape) /\ Size(p.shape) = Size(x.shape)
      /\ Ready(i)
      /\ x.batched => p.order[1] = 1 /\ p.shape # <<>> /\ p.shape[1] = x.shape[1]
      /\ Run({i}, ReshapeNode(heap, x, p), out, Numbers(p.shape, LAMBDA c : meanings[i][from(c)]), {})

Reverse(i, p) ==
  LET x == tensors[i]
      out == OutOf("reverse", {i}, x.shape)
  IN  /\ p.op = "reverse"
      /\ p.axes \subseteq DOMAIN x.shape
      /\ Ready(i) /\ Unbatched(x)
      /\ Run({i}, ReverseNode(heap, x, out, p), out,
             Numbers(x.shape, LAMBDA c :
               meanings[i][[axis \in DOMAIN c |-> IF axis \in p.axes THEN x.shape[axis] - 1 - c[axis]
                                                  ELSE c[axis]]]), {})

Slice(i, p) ==
  LET x == tensors[i]
      shape == [axis \in DOMAIN x.shape |-> CeilDiv(p.upper[axis] - p.lower[axis], p.strides[axis])]
      out == OutOf("slice", {i}, shape)
  IN  /\ p.op = "slice"
      /\ Len(p.lower) = Len(x.shape)
      /\ \A axis \in DOMAIN x.shape : p.upper[axis] <= x.shape[axis]
      /\ Ready(i) /\ Unbatched(x)
      /\ Run({i}, SliceNode(heap, x, p), out,
             Numbers(shape, LAMBDA c :
               meanings[i][[axis \in DOMAIN c |-> p.lower[axis] + p.strides[axis] * c[axis]]]), {})

Sum(i, p) ==
  LET x == tensors[i]
      shape == Reduce(x.shape, p.axes)
      out == OutOf("sum", {i}, shape)
  IN  /\ p.op = "sum"
      /\ p.axes \subseteq DOMAIN x.shape
      /\ Ready(i) /\ Unbatched(x)
      /\ Run({i}, SumNode(heap, x, out, p), out,
             Numbers(shape, LAMBDA c :
               MapThenSumSet(LAMBDA d : meanings[i][d], {d \in Coords(x.shape) : Reduce(d, p.axes) = c})), {})

\* The padding element: a ciphertext, or zero in the clear.
Pads(x, y, w) ==
  y.shape = <<>> /\ (x.cipher /\ ~y.cipher => w[<<>>] = 0) /\ (y.cipher => x.cipher)

Padding(i, j, p) ==
  LET x == tensors[i]
      y == tensors[j]
      shape == [axis \in DOMAIN x.shape |-> p.below[axis] + x.shape[axis] + p.above[axis]]
      out == OutOf("pad", {i, j}, shape)
  IN  /\ p.op = "pad"
      /\ Len(p.below) = Len(x.shape)
      /\ p.mode = "reflect" => \A axis \in DOMAIN x.shape : x.shape[axis] > 1
                                 \/ p.below[axis] + p.above[axis] = 0
      /\ Ready(i) /\ Rescaled(j) /\ Pads(x, y, meanings[j])
      /\ batchData => p.below[1] + p.above[1] = 0
      /\ Run({i, j}, PadNode(heap, x, y, out, p), out,
             Numbers(shape, LAMBDA c :
               Padded0(meanings[i], x.shape, meanings[j][<<>>], p.below, p.mode, c)), {})

AvgPool(i, p) ==
  LET x == tensors[i]
      shape == PooledShape(x.shape, p)
      out == OutOf("avg_pool", {i}, shape)
      average(c) ==
        (Unit \div WindowSize(x.shape, c, p))
          * MapThenSumSet(LAMBDA d : meanings[i][d], Covered(x.shape, c, p))
  IN  /\ p.op = "avg_pool"
      /\ Len(x.shape) = Len(p.window) + 2 /\ Fitting(shape)
      /\ Ready(i)
      /\ KnownDefects \/ ~DefectivePool(x, p)
      /\ Run({i}, AvgPoolNode(heap, x, out, p), out, Numbers(shape, average),
             IF x.cipher /\ ~KnownDefects THEN Sharing(x) ELSE {})

MaxPooling(i, p) ==
  LET x == tensors[i]
      shape == PooledShape(x.shape, p)
      out == OutOf("max_pool", {i}, shape)
      maximum(c) ==
        LET covered == {meanings[i][d] : d \in Covered(x.shape, c, p)}
        IN  CHOOSE m \in covered : \A n \in covered : n <= m
  IN  /\ p.op = "max_pool"
      /\ Len(x.shape) = Len(p.window) + 2 /\ Fitting(shape)
      /\ Ready(i)
      /\ Run({i}, MaxPoolNode(heap, x, out, p), out, Numbers(shape, maximum), {})

Convolution(i, j, p) ==
  LET x == tensors[i]
      y == tensors[j]
      shape == ConvolvedShape(x.shape, y.shape, p)
      out == OutOf("convolution", {i, j}, shape)
  IN  /\ p.op = "convolution"
      /\ Len(x.shape) = Len(p.strides) + 2 /\ Len(y.shape) = Len(x.shape)
      /\ x.shape[2] = y.shape[2] /\ Fitting(shape)
      /\ Ready(i) /\ Ready(j) /\ ~y.batched
      /\ Run({i, j}, ConvolutionNode(heap, x, y, out, p), out,
             Numbers(shape, LAMBDA c : Convolved(meanings[i], meanings[j], x.shape, y.shape, c, p)), {})

Dot(i, j, p) ==
  LET x == tensors[i]
      y == tensors[j]
      k == Len(x.shape) - p.count
      left == SubSeq(x.shape, 1, k)
      dotted == SubSeq(x.shape, k + 1, Len(x.shape))
      shape == left \o SubSeq(y.shape, p.count + 1, Len(y.shape))
      out == OutOf("dot", {i, j}, shape)
      product(c) ==
        MapThenSumSet(LAMBDA d : meanings[i][SubSeq(c, 1, k) \o d] *
                                 meanings[j][d \o SubSeq(c, k + 1, Len(c))], Coords(dotted))
  IN  /\ p.op = "dot"
      /\ k >= 0 /\ Len(y.shape) >= p.count
      /\ dotted = SubSeq(y.shape, 1, p.count)
      /\ Ready(i) /\ Ready(j) /\ ~y.batched /\ (batchData => k > 0)
      /\ Run({i, j}, DotNode(heap, x, y, p), out, Numbers(shape, product), {})

Constant(p) ==
  LET out == [OutOf("constant", {}, p.shape) EXCEPT !.cipher = p.cipher]
  IN  /\ p.op = "constant"
      /\ Run({}, ConstantNode(heap, p), out,
             Numbers(p.shape, LAMBDA c : p.data[IndexOf(p.shape, c) + 1]), {})

BatchNorm(i, p) ==
  LET x == tensors[i]
      out == OutOf("batch_norm", {i}, x.shape)
  IN  /\ p.op = "batch_norm"
      /\ x.cipher /\ Len(x.shape) > 1 /\ x.shape[2] = Len(p.scale)
      /\ Ready(i)
      /\ Run({i}, BatchNormNode(heap, x, p), out,
             Numbers(x.shape, LAMBDA c : p.scale[c[2] + 1] * meanings[i][c] + p.bias[c[2] + 1]), {})

Results(i, p) ==
  LET x == tensors[i]
      out == [OutOf("result", {i}, x.shape) EXCEPT !.cipher = p.cipher]
  IN  /\ p.op = "result"
      /\ Whole(i)
      /\ Run({i}, ResultNode(heap, x, p), out, meanings[i], {})

\* The program is at its end, or call() has thrown.
Finished == (failed \/ Len(tensors) = MaxTensors) /\ UNCHANGED vars

\* What operations can be given: nothing once the program is at its end.
Operands == IF failed \/ Len(tensors) = MaxTensors THEN {} ELSE DOMAIN tensors

Next ==
  \/ \E i, j \in Operands : Add(i, j) \/ Multiply(i, j)
  \/ \E i, j \in Operands, p \in Nodes[batchData] :
       Concat(i, j, p) \/ Padding(i, j, p) \/ Convolution(i, j, p) \/ Dot(i, j, p)
  \/ \E i \in Operands, p \in Nodes[batchData] :
       \/ BroadcastTo(i, p) \/ Reshape(i, p) \/ Reverse(i, p) \/ Slice(i, p) \/ Sum(i, p)
       \/ AvgPool(i, p) \/ MaxPooling(i, p) \/ BatchNorm(i, p) \/ Results(i, p)
  \/ \E p \in Nodes[batchData] : Constant(p)
  \/ Finished

Spec == Init /\ [][Next]_vars

-----------------------------------------------------------------------------
(* Properties.                                                             *)

\* The coordinates a tensor has to have numbers for: under batching, of one that
\* is not batched only the first of the batch is ever read.
Meant(t) == {c \in Coords(t.shape) : ~batchData \/ t.batched \/ c = <<>> \/ c[1] = 0}

\* Every tensor holds the numbers that nGraph defines for it at every coordinate,
\* and keeps holding them while later operations run: operations move pointers to
\* ciphertexts, share them and match their levels in place.
TensorsRight ==
  \A i \in DOMAIN tensors \ consumed :
    \A c \in Meant(tensors[i]) : NumberAt(tensors[i], heap, c) = meanings[i][c]

\* Every ciphertext that an operation can still be given has been rescaled as often
\* as it has been multiplied, though tensors share it.
RescaledOnce ==
  \A i \in DOMAIN tensors \ consumed :
    tensors[i].of \notin {"batch_norm", "result"} =>
      \A n \in DOMAIN tensors[i].at :
        LET x == heap[tensors[i].at[n]]
        IN  x.cipher /\ ~x.e.zero /\ x.e.data # NoData => x.e.data.scale = Scale

\* No operation throws: the levels suffice for the program.
NoFailure == ~failed
=============================================================================
