---------------------------- MODULE Ciphertexts ----------------------------
(***************************************************************************)
(* Plaintexts, ciphertexts and what the backend does with them             *)
(* (src/seal/he_seal_backend.cpp, src/seal/seal_util.cpp), over an         *)
(* abstraction of SEAL's CKKS scheme.                                      *)
(*                                                                         *)
(* A ciphertext's data is what matters of it to the backend: its level     *)
(* (chain index), the bits of its scale and the complex number in each     *)
(* slot.  Numbers are integers, exact: precision and noise are left out.   *)
(* Primes are a little below a power of two, which is their size in bits;  *)
(* scales within the tolerance of within_rescale_tolerance, a factor of    *)
(* 1.02, have the same bits.                                               *)
(***************************************************************************)
EXTENDS Integers, Sequences

CONSTANTS
  Slots,        \* poly_modulus_degree / 2
  ModulusBits   \* the coefficient modulus: bits of its primes

ASSUME SlotsAssumption == Slots \in Nat \ {0}
ASSUME ModulusAssumption ==
  /\ ModulusBits \in Seq(Nat \ {0})
  /\ ModulusBits # <<>>

Top == Len(ModulusBits) - 1
Levels == 0..Top

\* total_coeff_modulus_bit_count at each level: level l has the first l+1 primes.
TotalBits[l \in Levels] ==
  IF l = 0 THEN ModulusBits[1] ELSE TotalBits[l-1] + ModulusBits[l+1]

\* m_scale: the last prime.
Scale == ModulusBits[Len(ModulusBits)]

\* The result of code that throws.
Thrown == [thrown |-> TRUE]

\* HEPlaintext
Plain(values, packed) == [values |-> values, packed |-> packed]
IsSingle(p) == Len(p.values) = 1

Data(level, scale, slots) == [level |-> level, scale |-> scale, slots |-> slots]
NoData == Data(0, 0, <<>>)

\* SealCiphertextWrapper()
NewCipher == [zero |-> FALSE, packed |-> FALSE, data |-> NoData]

\* out->ciphertext() = d, or the exception that computing d threw.
Assigned(out, d) == IF d = Thrown THEN Thrown ELSE [out EXCEPT !.data = d]

-----------------------------------------------------------------------------
(* Encoding.                                                               *)

Abs(x) == IF x < 0 THEN -x ELSE x

\* The bits of x > 0, a power of two counted like what is a little below it.
Bits(x) == CHOOSE k \in 0..x : x <= 2^k /\ \A l \in 0..(k-1) : 2^l < x

\* static_cast<int>(log2(scale)) >= total_coeff_modulus_bit_count(): a product of
\* primes is one bit longer than its logarithm.
OutOfBounds(scale, level) == scale > TotalBits[level]

\* Whether x can be encoded at this scale: the scaled value, with its sign, is
\* below the modulus.  (Of zero the code takes log2(0), which passes.)
Fits(x, scale, level) ==
  /\ ~OutOfBounds(scale, level)
  /\ x = 0 \/ scale + Bits(Abs(x)) + 1 < TotalBits[level]

\* real_vec_to_complex_vec: (a,b,c) => (a+bi, c+0i)
PairsOf(values) ==
  [i \in 1..((Len(values) + 1) \div 2) |->
     <<values[2*i - 1], IF 2*i <= Len(values) THEN values[2*i] ELSE 0>>]

\* complex_vec_to_real_vec: (a+bi, c+di) => (a,b,c,d)
RealsOf(slots) ==
  [i \in 1..(2 * Len(slots)) |-> slots[(i+1) \div 2][IF i % 2 = 1 THEN 1 ELSE 2]]

\* The slots a plaintext is encoded into, before SEAL pads them: one value fills
\* all of them.
SlotsOf(p) ==
  IF IsSingle(p) THEN [i \in 1..Slots |-> <<p.values[1], IF p.packed THEN p.values[1] ELSE 0>>]
  ELSE IF p.packed THEN PairsOf(p.values)
  ELSE [i \in 1..Len(p.values) |-> <<p.values[i], 0>>]

Padded(slots) == [i \in 1..Slots |-> IF i <= Len(slots) THEN slots[i] ELSE <<0, 0>>]

\* HESealBackend::encode(destination, plaintext, parms_id, scale)
EncodeAt(p, level, scale) ==
  LET slots == SlotsOf(p)
  IN  IF /\ Len(slots) <= Slots
         /\ \A i \in DOMAIN p.values : Fits(p.values[i], scale, level)
      THEN Data(level, scale, Padded(slots))
      ELSE Thrown

\* HESealBackend::encode(destination, plaintext): at the first level.
Encode(p) == EncodeAt(p, Top, Scale)

\* HESealBackend::decode(output, SealPlaintextWrapper)
Decode(data, packed) ==
  Plain(IF packed THEN RealsOf(data.slots) ELSE [i \in 1..Slots |-> data.slots[i][1]], packed)

\* HESealBackend::encrypt.  "No need to encrypt zero": a single zero sets the flag
\* and leaves the data; any other value leaves the flag.
Encrypt(out, p) ==
  IF Encode(p) = Thrown THEN Thrown
  ELSE IF IsSingle(p) /\ p.values[1] = 0 THEN [out EXCEPT !.zero = TRUE, !.packed = p.packed]
  ELSE [Assigned(out, Encode(p)) EXCEPT !.packed = p.packed]

\* HESealBackend::decrypt.  A known zero gives as many zeros as there are slots,
\* packed or not.
Decrypt(c) ==
  IF c.zero THEN Plain([i \in 1..Slots |-> 0], c.packed)
  ELSE IF c.data = NoData THEN Thrown
  ELSE Decode(c.data, c.packed)

-----------------------------------------------------------------------------
(* seal::Evaluator, as the kernels use it: every operation on data checks   *)
(* that there is some, and that levels and scales agree.                   *)

ComplexSum(x, y) == <<x[1] + y[1], x[2] + y[2]>>
ComplexProduct(x, y) == <<x[1]*y[1] - x[2]*y[2], x[1]*y[2] + x[2]*y[1]>>

Slotwise(Op(_, _), x, y) == [i \in 1..Slots |-> Op(x[i], y[i])]

EvalNegate(x) ==
  IF x = NoData THEN Thrown
  ELSE [x EXCEPT !.slots = [i \in 1..Slots |-> <<-x.slots[i][1], -x.slots[i][2]>>]]

EvalAdd(x, y) ==
  IF NoData \in {x, y} \/ x.level # y.level \/ x.scale # y.scale THEN Thrown
  ELSE [x EXCEPT !.slots = Slotwise(ComplexSum, x.slots, y.slots)]

EvalSub(x, y) == IF y = NoData THEN Thrown ELSE EvalAdd(x, EvalNegate(y))

\* The scales multiply, and the new one must not exceed the modulus.
EvalMultiply(x, y) ==
  IF \/ NoData \in {x, y}
     \/ x.level # y.level
     \/ OutOfBounds(x.scale + y.scale, x.level)
  THEN Thrown
  ELSE Data(x.level, x.scale + y.scale, Slotwise(ComplexProduct, x.slots, y.slots))

\* rescale_to: divide by the primes above the level.
RescaleTo(x, level) ==
  Data(level, x.scale - (TotalBits[x.level] - TotalBits[level]), x.slots)

RescaleToNext(x) == IF x = NoData \/ x.level = 0 THEN Thrown ELSE RescaleTo(x, x.level - 1)

\* mod_switch_to: drop them; the scale must not exceed what is left.
ModSwitchTo(x, level) ==
  IF OutOfBounds(x.scale, level) THEN Thrown ELSE [x EXCEPT !.level = level]

-----------------------------------------------------------------------------
(* seal_util.                                                              *)

WithinRescaleTolerance(x, y) == x.scale = y.scale

\* match_modulus_and_scale_inplace on x, the one of the higher level.  match_scale
\* checks that the scales have come to agree.
LoweredTo(x, y) ==
  LET d == IF WithinRescaleTolerance(x, y) THEN ModSwitchTo(x, y.level)
           ELSE RescaleTo(x, y.level)
  IN  IF d = Thrown THEN Thrown ELSE IF ~WithinRescaleTolerance(d, y) THEN Thrown ELSE d

\* match_modulus_and_scale_inplace(x, y): the two, or Thrown.  Data of one level
\* is left alone, whatever its scales.  Without data there is no level to ask for.
MatchModulusAndScale(x, y) ==
  IF NoData \in {x, y} THEN Thrown
  ELSE LET lx == IF x.level > y.level THEN LoweredTo(x, y) ELSE x
           ly == IF x.level < y.level THEN LoweredTo(y, x) ELSE y
       IN  IF Thrown \in {lx, ly} THEN Thrown ELSE <<lx, ly>>

\* encode(value, ...), add_plain_inplace: a real number is added to every slot.
AddPlain(x, value) ==
  IF x = NoData THEN Thrown
  ELSE IF ~Fits(value, x.scale, x.level) THEN Thrown
  ELSE [x EXCEPT !.slots = [i \in 1..Slots |-> ComplexSum(x.slots[i], <<value, 0>>)]]

\* multiply_plain_inplace: by a real number encoded at the scale of x.
MultiplyPlain(x, value) ==
  IF x = NoData THEN Thrown
  ELSE IF ~Fits(value, x.scale, x.level) \/ OutOfBounds(2 * x.scale, x.level) THEN Thrown
  ELSE Data(x.level, 2 * x.scale,
            [i \in 1..Slots |-> ComplexProduct(x.slots[i], <<value, 0>>)])
=============================================================================
