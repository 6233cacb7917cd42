--------------------------- MODULE ScalarKernels ---------------------------
(***************************************************************************)
(* The scalar kernels of src/seal/kernel: one operation on two elements of *)
(* tensors.  `out` is the element the kernel writes to; the caller gives   *)
(* an empty ciphertext.  A kernel that may change its arguments returns    *)
(* <<arg0, arg1, out>>, the others out; Thrown if an exception leaves it.  *)
(***************************************************************************)
EXTENDS Ciphertexts

\* What f makes of x, unless computing x threw.
Then(x, f(_)) == IF x = Thrown THEN Thrown ELSE f(x)

\* The constant vector of the other's length for a single value.
MapPlain(f(_), p) == [p EXCEPT !.values = [i \in DOMAIN p.values |-> f(p.values[i])]]

\* std::transform over the values of both, one of which may be a single value.
\* out_vals has the size of arg0: of a longer arg1 only the first value stays in
\* out (the others are written past its end).
ZipPlain(f(_, _), p, q) ==
  IF ~(IsSingle(p) \/ IsSingle(q) \/ Len(p.values) = Len(q.values)) THEN Thrown
  ELSE Plain([i \in DOMAIN p.values |-> f(p.values[i], q.values[IF IsSingle(q) THEN 1 ELSE i])],
             FALSE)

ZeroOut(out) == [out EXCEPT !.zero = TRUE]
NonZeroOut(out) == [out EXCEPT !.zero = FALSE]

-----------------------------------------------------------------------------
(* Negation.                                                               *)

NegateC(a, out) == IF a.zero THEN ZeroOut(out) ELSE Assigned(out, EvalNegate(a.data))

NegateP(p) == [MapPlain(LAMBDA x : -x, p) EXCEPT !.packed = FALSE]

-----------------------------------------------------------------------------
(* Addition.                                                               *)

AddMatchedCrossed(a, b, m, out) ==
  Then(EvalAdd(m[1], m[2]),
       LAMBDA d : <<[a EXCEPT !.data = m[2]], [b EXCEPT !.data = m[1]],
                    [zero |-> FALSE, packed |-> b.packed, data |-> d]>>)
AddMatched(a, b, m, out) ==
  Then(EvalAdd(m[1], m[2]),
       LAMBDA d : <<[a EXCEPT !.data = m[1]], [b EXCEPT !.data = m[2]],
                    [zero |-> FALSE, packed |-> b.packed, data |-> d]>>)

AddCCUnmatched(a, b, out) ==
  IF a.zero /\ b.zero THEN <<a, b, ZeroOut(out)>>
  ELSE IF a.zero THEN <<a, b, b>>
  ELSE IF b.zero THEN <<a, b, a>>
  ELSE IF a.packed # b.packed THEN Thrown
  ELSE AddMatched(a, b, <<a.data, b.data>>, out)
AddCCZeroOfFirst(a, b, out) ==
  IF a.zero THEN <<a, b, ZeroOut(out)>>
  ELSE IF b.zero THEN <<a, b, a>>
  ELSE IF a.packed # b.packed THEN Thrown
  ELSE Then(MatchModulusAndScale(a.data, b.data), LAMBDA m : AddMatched(a, b, m, out))
AddCC(a, b, out) ==
  IF a.zero /\ b.zero THEN <<a, b, ZeroOut(out)>>
  ELSE IF a.zero THEN <<a, b, b>>
  ELSE IF b.zero THEN <<a, b, a>>
  ELSE IF a.packed # b.packed THEN Thrown
  ELSE Then(MatchModulusAndScale(a.data, b.data), LAMBDA m : AddMatched(a, b, m, out))

AddCP(a, p, out) ==
  IF a.zero THEN Then(Encrypt(out, p), NonZeroOut)
  ELSE IF p.values = <<0>> THEN a
  ELSE IF IsSingle(p) THEN Assigned(out, AddPlain(a.data, p.values[1]))
  ELSE IF a.data = NoData THEN Thrown
  ELSE Then(EncodeAt(p, a.data.level, a.data.scale),
            LAMBDA e : [Assigned(out, EvalAdd(a.data, e)) EXCEPT !.packed = a.packed])

AddPC(p, a, out) == AddCP(a, p, out)

AddPP(p, q) == ZipPlain(LAMBDA x, y : x + y, p, q)

-----------------------------------------------------------------------------
(* Subtraction.                                                            *)

SubCC(a, b, out) ==
  IF a.zero /\ b.zero THEN ZeroOut(out)
  ELSE IF a.zero THEN Then(Assigned(out, EvalNegate(b.data)), NonZeroOut)
  ELSE IF b.zero THEN a
  ELSE Then(Assigned(out, EvalSub(a.data, b.data)), NonZeroOut)

SubCP(a, p, out) ==
  IF a.zero THEN Then(Encrypt(out, [NegateP(p) EXCEPT !.packed = a.packed]), NonZeroOut)
  ELSE IF a.data = NoData THEN Thrown
  ELSE Then(EncodeAt(p, a.data.level, a.data.scale),
            LAMBDA e : NonZeroOut(Assigned(out, EvalSub(a.data, e))))

SubPC(p, a, out) ==
  IF a.zero THEN Then(Encrypt(out, p), NonZeroOut)
  ELSE Then(NegateC(a, NewCipher), LAMBDA tmp : AddPC(p, tmp, out))

\* Every value of arg0 against the value of arg1 at its place: of an arg1 with
\* fewer values the code reads past its end.
SubPP(p, q) ==
  Plain([i \in DOMAIN p.values |->
           p.values[i] - (IF i \in DOMAIN q.values THEN q.values[i] ELSE 0)], FALSE)

-----------------------------------------------------------------------------
(* Multiplication.  exit(1), at the lowest level, counts as an exception.  *)

MultiplyMatched(a, b, m, out) ==
  IF m[1].level = 0 \/ m[2].level = 0 THEN Thrown
  ELSE Then(EvalMultiply(m[1], m[2]),
            LAMBDA d : <<[a EXCEPT !.data = m[1]], [b EXCEPT !.data = m[2]],
                         [NonZeroOut(out) EXCEPT !.data = RescaleToNext(d)]>>)

MultiplyCC(a, b, out) ==
  IF a.zero \/ b.zero THEN <<a, b, ZeroOut(out)>>
  ELSE Then(MatchModulusAndScale(a.data, b.data), LAMBDA m : MultiplyMatched(a, b, m, out))

\* Several values: encoded as they are packed; when multiply_plain throws, the
\* exception is logged only, and out has become a copy of arg0.
MultiplyMany(a, p, out) ==
  IF a.data = NoData THEN Thrown
  ELSE IF a.data.level = 0 THEN Thrown
  ELSE Then(EncodeAt(p, a.data.level, a.data.scale),
            LAMBDA e : [out EXCEPT !.data = IF EvalMultiply(a.data, e) = Thrown THEN a.data
                                            ELSE EvalMultiply(a.data, e)])

\* Values below 1e-5 are taken for zero: here, zero.
MultiplyCP(a, p, out) ==
  IF a.zero \/ \A i \in DOMAIN p.values : p.values[i] = 0 THEN ZeroOut(out)
  ELSE Then(IF IsSingle(p) THEN Assigned(out, MultiplyPlain(a.data, p.values[1]))
            ELSE MultiplyMany(a, p, out),
            LAMBDA c : NonZeroOut([c EXCEPT !.packed = a.packed]))

MultiplyPC(p, a, out) == MultiplyCP(a, p, out)

MultiplyPP(p, q) == ZipPlain(LAMBDA x, y : x * y, p, q)

-----------------------------------------------------------------------------
(* The activations and the minimum.                                        *)

Relu(x) == IF x > 0 THEN x ELSE 0
BoundedRelu(x, alpha) == IF x > alpha THEN alpha ELSE IF x > 0 THEN x ELSE 0

ReluP(p) == [MapPlain(Relu, p) EXCEPT !.packed = FALSE]
BoundedReluP(p, alpha) == [MapPlain(LAMBDA x : BoundedRelu(x, alpha), p) EXCEPT !.packed = FALSE]

\* Without a client the server decrypts, applies and encrypts.
ReluC(a, out) == Then(Decrypt(a), LAMBDA p : Encrypt(out, MapPlain(Relu, p)))
BoundedReluC(a, out, alpha) ==
  Then(Decrypt(a), LAMBDA p : Encrypt(out, MapPlain(LAMBDA x : BoundedRelu(x, alpha), p)))

MinimumPP(p, q) ==
  IF Len(p.values) # Len(q.values) THEN Thrown
  ELSE Plain([i \in DOMAIN p.values |->
                IF p.values[i] < q.values[i] THEN p.values[i] ELSE q.values[i]], FALSE)
=============================================================================
