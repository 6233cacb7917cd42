---------------------------- MODULE Coordinates ----------------------------
(***************************************************************************)
(* Shapes, coordinates and nGraph's CoordinateTransform, from how the      *)
(* kernels of src/seal/kernel use them.                                    *)
(*                                                                         *)
(* A shape is a sequence of sizes and a coordinate a sequence of positions *)
(* from 0; axes count from 1.  The coordinates of a shape are walked in    *)
(* row-major order: the n-th of them, n from 0, has index n.               *)
(***************************************************************************)
EXTENDS Integers, Sequences
LOCAL INSTANCE SequencesExt

Times(s) == FoldLeft(LAMBDA x, y : x * y, 1, s)
Plus(s) == FoldLeft(LAMBDA x, y : x + y, 0, s)

Size(shape) == Times(shape)
Stride(shape, axis) == Times(SubSeq(shape, axis + 1, Len(shape)))

CoordAt(shape, n) == [axis \in DOMAIN shape |-> (n \div Stride(shape, axis)) % shape[axis]]
IndexOf(shape, c) == Plus([axis \in DOMAIN shape |-> c[axis] * Stride(shape, axis)])

Coords(shape) == {CoordAt(shape, n) : n \in 0..(Size(shape) - 1)}

\* ngraph::reduce: without the positions of these axes.
Reduce(c, axes) ==
  LET kept == SelectSeq([axis \in DOMAIN c |-> axis], LAMBDA axis : axis \notin axes)
  IN  [i \in DOMAIN kept |-> c[kept[i]]]

All(shape, n) == [axis \in DOMAIN shape |-> n]
InOrder(shape) == [axis \in DOMAIN shape |-> axis]

CeilDiv(x, y) == (x + y - 1) \div y

\* The part of a source from start to end, by strides, its axes in this order, the
\* source padded below and dilated.
Region(source, start, end, strides, order, below, dilation) ==
  [source |-> source, start |-> start, strides |-> strides, order |-> order,
   below |-> below, dilation |-> dilation,
   target |-> [i \in DOMAIN source |->
                 CeilDiv(end[order[i]] - start[order[i]], strides[order[i]])]]

\* The position of c on one axis of the padded and dilated source, from the first
\* that is not padding.
Depadded(t, c, i) ==
  LET axis == t.order[i]
  IN  c[i] * t.strides[axis] + t.start[axis] - t.below[i]

\* Whether c is neither in the padding nor between two dilated positions.
HasSource(t, c) ==
  \A i \in DOMAIN c :
    LET d == Depadded(t, c, i)
    IN  /\ d >= 0
        /\ d < (t.source[t.order[i]] - 1) * t.dilation[i] + 1
        /\ d % t.dilation[i] = 0

SourceIndex(t, c) ==
  Plus([i \in DOMAIN c |->
          (Depadded(t, c, i) \div t.dilation[i]) * Stride(t.source, t.order[i])])

\* The coordinates of the region's own shape, in order.
Walk(t) == [n \in 1..Size(t.target) |-> CoordAt(t.target, n - 1)]
=============================================================================
