--------------------------- MODULE Elements_proofs ---------------------------
(***************************************************************************)
(* The operations on elements leave what their arguments stand for,        *)
(* whatever the operands, and compute what they mean and do not throw      *)
(* while levels are left, where the code is not known to be wrong.         *)
(***************************************************************************)
EXTENDS Elements, SequenceTheorems, NaturalsInduction, WellFoundedInduction, TLAPS

-----------------------------------------------------------------------------
(* Types: what is known of data, ciphertexts and elements.                 *)

HasData(d) ==
  /\ d = Data(d.level, d.scale, d.slots)
  /\ d.level \in Levels
  /\ DOMAIN d.slots = 1..Slots
IsData(d) == d = NoData \/ HasData(d)

IsCipher(c) ==
  /\ c = [zero |-> c.zero, packed |-> c.packed, data |-> c.data]
  /\ IsData(c.data)

IsElement(x) ==
  /\ x = [cipher |-> x.cipher, e |-> x.e]
  /\ x.cipher \in BOOLEAN
  /\ x.cipher => IsCipher(x.e)

\* z stands for what x does, no higher than x.
Kept(x, z) ==
  /\ z.cipher = x.cipher
  /\ ValuesOf(z) = ValuesOf(x)
  /\ x.cipher => z.e.data.level <= x.e.data.level

\* An operation on x and y with result r leaves both.
Keeps(x, y, r) ==
  r # Thrown =>
    /\ IsElement(r[1]) /\ Kept(x, r[1])
    /\ IsElement(r[2]) /\ Kept(y, r[2])
    /\ IsElement(r[3])

LEMMA LevelsInt == Levels \subseteq Int /\ Top \in Levels /\ 0 \in Levels
BY ModulusAssumption DEF Levels, Top

LEMMA HasDataIsSome == ASSUME NEW d, HasData(d) PROVE d # NoData
<1>1. 1 \in DOMAIN d.slots
  BY SlotsAssumption DEF HasData
<1>2. NoData.slots = <<>>
  BY DEF NoData, Data
<1>3. QED BY <1>1, <1>2

LEMMA DataHas ==
  ASSUME NEW level \in Levels, NEW scale, NEW slots, DOMAIN slots = 1..Slots
  PROVE  /\ HasData(Data(level, scale, slots))
         /\ Data(level, scale, slots).level = level
         /\ Data(level, scale, slots).scale = scale
         /\ Data(level, scale, slots).slots = slots
BY DEF HasData, Data

LEMMA DataLevel == ASSUME NEW d, IsData(d) PROVE d.level \in Int
<1>1. CASE d = NoData
  BY <1>1 DEF NoData, Data
<1>2. CASE HasData(d)
  BY <1>2, LevelsInt DEF HasData
<1>3. QED BY <1>1, <1>2 DEF IsData

LEMMA NewIsCipher == IsCipher(NewCipher)
BY DEF IsCipher, NewCipher, IsData

LEMMA CipherElement ==
  ASSUME NEW c, IsCipher(c)
  PROVE  IsElement(Cipher(c)) /\ Cipher(c).cipher /\ Cipher(c).e = c
BY DEF IsElement, Cipher

LEMMA PlainElement ==
  ASSUME NEW p PROVE IsElement(PlainOf(p)) /\ PlainOf(p).cipher = FALSE /\ PlainOf(p).e = p
BY DEF IsElement, PlainOf

LEMMA KeptItself == ASSUME NEW x, IsElement(x) PROVE Kept(x, x)
<1>1. x.cipher => x.e.data.level \in Int
  BY DataLevel DEF IsElement, IsCipher
<1>2. QED BY <1>1 DEF Kept

-----------------------------------------------------------------------------
(* Encoding, and SEAL's evaluator.                                         *)

LEMMA EncodeAtHas ==
  ASSUME NEW p, NEW level \in Levels, NEW scale, EncodeAt(p, level, scale) # Thrown
  PROVE  /\ HasData(EncodeAt(p, level, scale))
         /\ EncodeAt(p, level, scale).level = level
         /\ EncodeAt(p, level, scale).scale = scale
<1>1. EncodeAt(p, level, scale) = Data(level, scale, Padded(SlotsOf(p)))
  BY DEF EncodeAt
<1>2. DOMAIN Padded(SlotsOf(p)) = 1..Slots
  BY DEF Padded
<1>3. QED BY <1>1, <1>2, DataHas

LEMMA EncodedCipher ==
  ASSUME NEW out, IsCipher(out), NEW p, Encode(p) # Thrown
  PROVE  IsCipher(Encrypt(out, p))
<1>1. HasData(Encode(p))
  BY EncodeAtHas, LevelsInt DEF Encode
<1>2. CASE Encrypt(out, p) = [out EXCEPT !.zero = TRUE, !.packed = p.packed]
  BY <1>2 DEF IsCipher
<1>3. CASE Encrypt(out, p) = [Assigned(out, Encode(p)) EXCEPT !.packed = p.packed]
  BY <1>1, <1>3 DEF IsCipher, IsData, Assigned
<1>4. QED BY <1>2, <1>3 DEF Encrypt

LEMMA EncryptCipher ==
  ASSUME NEW out, IsCipher(out), NEW p, Encrypt(out, p) # Thrown
  PROVE  IsCipher(Encrypt(out, p))
<1>1. Encode(p) # Thrown
  BY DEF Encrypt
<1>2. QED BY <1>1, EncodedCipher

LEMMA AssignedCipher ==
  ASSUME NEW out, IsCipher(out), NEW d, d # Thrown => IsData(d), Assigned(out, d) # Thrown
  PROVE  IsCipher(Assigned(out, d))
<1>1. d # Thrown
  BY DEF Assigned
<1>2. Assigned(out, d) = [out EXCEPT !.data = d]
  BY <1>1 DEF Assigned
<1>3. IsData(d)
  BY <1>1
<1>4. IsCipher([out EXCEPT !.data = d])
  BY <1>3 DEF IsCipher
<1>5. QED BY <1>2, <1>4

LEMMA ZeroCipher ==
  ASSUME NEW c, IsCipher(c), NEW z PROVE IsCipher([c EXCEPT !.zero = z])
BY DEF IsCipher

LEMMA PackedCipher ==
  ASSUME NEW c, IsCipher(c), NEW p PROVE IsCipher([c EXCEPT !.packed = p])
BY DEF IsCipher

LEMMA DataCipher ==
  ASSUME NEW c, IsCipher(c), NEW d, IsData(d) PROVE IsCipher([c EXCEPT !.data = d])
BY DEF IsCipher

LEMMA NonZeroCipher ==
  ASSUME NEW c, IsCipher(c) PROVE IsCipher(NonZeroOut(c)) /\ IsCipher(ZeroOut(c))
<1>1. \A z : IsCipher([c EXCEPT !.zero = z])
  BY ZeroCipher
<1>2. QED BY <1>1, Zenon DEF NonZeroOut, ZeroOut

LEMMA EvalNegateHas ==
  ASSUME NEW x, IsData(x), EvalNegate(x) # Thrown
  PROVE  HasData(EvalNegate(x)) /\ EvalNegate(x).level = x.level /\ EvalNegate(x).scale = x.scale
<1>1. HasData(x)
  BY DEF EvalNegate, IsData
<1>2. x # NoData
  BY DEF EvalNegate
<1> DEFINE slots == [i \in 1..Slots |-> <<-x.slots[i][1], -x.slots[i][2]>>]
<1>3. EvalNegate(x) = Data(x.level, x.scale, slots)
  BY <1>1, <1>2 DEF EvalNegate, HasData, Data
<1>4. QED BY <1>1, <1>3, DataHas DEF HasData

LEMMA EvalAddHas ==
  ASSUME NEW x, IsData(x), NEW y, EvalAdd(x, y) # Thrown
  PROVE  HasData(EvalAdd(x, y))
<1>1. HasData(x) /\ x # NoData
  BY DEF EvalAdd, IsData
<1> DEFINE slots == [i \in 1..Slots |-> ComplexSum(x.slots[i], y.slots[i])]
<1>2. EvalAdd(x, y) = Data(x.level, x.scale, slots)
  BY <1>1 DEF EvalAdd, Slotwise, HasData, Data
<1>3. QED BY <1>1, <1>2, DataHas DEF HasData

LEMMA DataIsSome == ASSUME NEW level, NEW scale, NEW slots PROVE Data(level, scale, slots) # Thrown
<1>1. "level" \in DOMAIN Data(level, scale, slots)
  BY DEF Data
<1>2. DOMAIN Thrown = {"thrown"}
  BY DEF Thrown
<1>3. QED BY <1>1, <1>2

\* Data with data of its level and scale.
LEMMA EvalAddSome ==
  ASSUME NEW x, HasData(x), NEW y, y # NoData, y.level = x.level, y.scale = x.scale
  PROVE  EvalAdd(x, y) # Thrown
<1>1. x # NoData
  BY HasDataIsSome
<1> DEFINE slots == [i \in 1..Slots |-> ComplexSum(x.slots[i], y.slots[i])]
<1>2. EvalAdd(x, y) = [x EXCEPT !.slots = slots]
  BY <1>1 DEF EvalAdd, Slotwise
<1> HIDE DEF slots
<1>3. [x EXCEPT !.slots = slots] = Data(x.level, x.scale, slots)
  BY DEF HasData, Data
<1>4. QED BY <1>2, <1>3, DataIsSome

LEMMA EvalSubHas ==
  ASSUME NEW x, IsData(x), NEW y, EvalSub(x, y) # Thrown
  PROVE  HasData(EvalSub(x, y))
BY EvalAddHas DEF EvalSub

LEMMA EvalMultiplyHas ==
  ASSUME NEW x, IsData(x), NEW y, EvalMultiply(x, y) # Thrown
  PROVE  HasData(EvalMultiply(x, y)) /\ EvalMultiply(x, y).level = x.level
<1>1. HasData(x)
  BY DEF EvalMultiply, IsData
<1> DEFINE slots == [i \in 1..Slots |-> ComplexProduct(x.slots[i], y.slots[i])]
<1>2. EvalMultiply(x, y) = Data(x.level, x.scale + y.scale, slots)
  BY DEF EvalMultiply, Slotwise
<1>3. QED BY <1>1, <1>2, DataHas DEF HasData

LEMMA RescaleToNextHas ==
  ASSUME NEW x, HasData(x), x.level # 0
  PROVE  HasData(RescaleToNext(x))
<1>1. HasData(x) /\ x # NoData /\ x.level # 0
  BY HasDataIsSome
<1>2. x.level - 1 \in Levels
  BY <1>1, ModulusAssumption DEF HasData, Levels, Top
<1> DEFINE scale == x.scale - (TotalBits[x.level] - TotalBits[x.level - 1])
<1>3. RescaleToNext(x) = Data(x.level - 1, scale, x.slots)
  BY <1>1, Zenon DEF RescaleToNext, RescaleTo
<1>4. DOMAIN x.slots = 1..Slots
  BY DEF HasData
<1> HIDE DEF scale
<1>5. QED BY <1>2, <1>3, <1>4, DataHas

LEMMA AddPlainHas ==
  ASSUME NEW x, IsData(x), NEW value, AddPlain(x, value) # Thrown
  PROVE  HasData(AddPlain(x, value))
<1>1. HasData(x)
  BY DEF AddPlain, IsData
<1> DEFINE slots == [i \in 1..Slots |-> ComplexSum(x.slots[i], <<value, 0>>)]
<1>2. AddPlain(x, value) = Data(x.level, x.scale, slots)
  BY <1>1 DEF AddPlain, HasData, Data
<1>3. QED BY <1>1, <1>2, DataHas DEF HasData

LEMMA MultiplyPlainHas ==
  ASSUME NEW x, IsData(x), NEW value, MultiplyPlain(x, value) # Thrown
  PROVE  HasData(MultiplyPlain(x, value))
<1>1. HasData(x)
  BY DEF MultiplyPlain, IsData
<1> DEFINE slots == [i \in 1..Slots |-> ComplexProduct(x.slots[i], <<value, 0>>)]
<1>2. MultiplyPlain(x, value) = Data(x.level, 2 * x.scale, slots)
  BY DEF MultiplyPlain
<1>3. QED BY <1>1, <1>2, DataHas DEF HasData

LEMMA EvalSubSome ==
  ASSUME NEW x, HasData(x), NEW y, HasData(y), y.level = x.level, y.scale = x.scale
  PROVE  EvalSub(x, y) # Thrown
<1> DEFINE slots == [i \in 1..Slots |-> <<-y.slots[i][1], -y.slots[i][2]>>]
<1>1. y # NoData
  BY HasDataIsSome
<1>2. EvalNegate(y) = Data(y.level, y.scale, slots)
  BY <1>1 DEF EvalNegate, HasData, Data
<1> HIDE DEF slots
<1>3. EvalNegate(y) # Thrown
  BY <1>2, DataIsSome
<1>4. HasData(EvalNegate(y)) /\ EvalNegate(y).level = x.level /\ EvalNegate(y).scale = x.scale
  BY <1>3, EvalNegateHas DEF IsData
<1>5. EvalAdd(x, EvalNegate(y)) # Thrown
  BY <1>4, HasDataIsSome, EvalAddSome
<1>6. QED BY <1>1, <1>5 DEF EvalSub

-----------------------------------------------------------------------------
(* Matching.                                                               *)

\* What is lowered keeps its slots.
LEMMA LoweredToKeeps ==
  ASSUME NEW x, HasData(x), NEW y, HasData(y), LoweredTo(x, y) # Thrown
  PROVE  /\ HasData(LoweredTo(x, y))
         /\ LoweredTo(x, y).slots = x.slots
         /\ LoweredTo(x, y).level = y.level
<1>1. y.level \in Levels /\ DOMAIN x.slots = 1..Slots
  BY DEF HasData
<1>2. CASE LoweredTo(x, y) = ModSwitchTo(x, y.level) /\ ModSwitchTo(x, y.level) # Thrown
  <2>1. ModSwitchTo(x, y.level) = Data(y.level, x.scale, x.slots)
    BY <1>2 DEF ModSwitchTo, HasData, Data
  <2>2. QED BY <1>1, <1>2, <2>1, DataHas
<1>3. CASE LoweredTo(x, y) = RescaleTo(x, y.level)
  BY <1>1, <1>3, DataHas DEF RescaleTo
<1>4. QED BY <1>2, <1>3 DEF LoweredTo

\* Matching keeps the slots of both, and raises no level.
LEMMA MatchKeeps ==
  ASSUME NEW x, IsData(x), NEW y, IsData(y), MatchModulusAndScale(x, y) # Thrown
  PROVE  LET m == MatchModulusAndScale(x, y)
         IN  /\ m = <<m[1], m[2]>>
             /\ HasData(x) /\ HasData(m[1]) /\ m[1].slots = x.slots /\ m[1].level <= x.level
             /\ HasData(y) /\ HasData(m[2]) /\ m[2].slots = y.slots /\ m[2].level <= y.level
<1> DEFINE lx == IF x.level > y.level THEN LoweredTo(x, y) ELSE x
           ly == IF x.level < y.level THEN LoweredTo(y, x) ELSE y
<1>1. HasData(x) /\ HasData(y)
  BY DEF MatchModulusAndScale, IsData
<1>2. /\ MatchModulusAndScale(x, y) = <<lx, ly>>
      /\ lx # Thrown /\ ly # Thrown
  BY DEF MatchModulusAndScale
<1>3. x.level \in Int /\ y.level \in Int
  BY DataLevel
<1>4. HasData(lx) /\ lx.slots = x.slots /\ lx.level <= x.level
  BY <1>1, <1>2, <1>3, LoweredToKeeps
<1>5. HasData(ly) /\ ly.slots = y.slots /\ ly.level <= y.level
  BY <1>1, <1>2, <1>3, LoweredToKeeps
<1> HIDE DEF lx, ly
<1>6. QED BY <1>1, <1>2, <1>4, <1>5

\* A ciphertext whose data has been matched stands for what it did.
LEMMA MatchedKept ==
  ASSUME NEW a, IsCipher(a), HasData(a.data),
         NEW d, HasData(d), d.slots = a.data.slots, d.level <= a.data.level
  PROVE  LET z == Cipher([a EXCEPT !.data = d])
         IN  IsElement(z) /\ Kept(Cipher(a), z)
<1> DEFINE c == [a EXCEPT !.data = d]
<1>1. c.zero = a.zero /\ c.packed = a.packed /\ c.data = d /\ IsCipher(c)
  BY DEF IsCipher, IsData
<1>2. d # NoData /\ a.data # NoData
  BY HasDataIsSome
<1>3. Decode(d, a.packed) = Decode(a.data, a.packed)
  BY DEF Decode
<1>4. Decrypt(c) = Decrypt(a)
  BY <1>1, <1>2, <1>3 DEF Decrypt
<1>5. Cipher(c).e = c /\ Cipher(a).e = a /\ Cipher(c).cipher = TRUE /\ Cipher(a).cipher = TRUE
  BY DEF Cipher
<1>6. ValuesOf(Cipher(c)) = ValuesOf(Cipher(a))
  BY <1>4, <1>5 DEF ValuesOf
<1> HIDE DEF c
<1>7. Kept(Cipher(a), Cipher(c)) /\ IsElement(Cipher(c))
  BY <1>1, <1>5, <1>6, CipherElement DEF Kept
<1>8. QED BY <1>7 DEF c

-----------------------------------------------------------------------------
(* The kernels on ciphertexts: what a kernel gives, and what it leaves of   *)
(* ciphertexts it was given.                                               *)

\* A kernel on ciphertexts a and b with result r leaves both.
KeepsCiphers(a, b, r) ==
  r # Thrown =>
    /\ IsElement(Cipher(r[1])) /\ Kept(Cipher(a), Cipher(r[1]))
    /\ IsElement(Cipher(r[2])) /\ Kept(Cipher(b), Cipher(r[2]))
    /\ IsCipher(r[3])

LEMMA LeavesCiphers ==
  ASSUME NEW a, IsCipher(a), NEW b, IsCipher(b), NEW c, IsCipher(c)
  PROVE  KeepsCiphers(a, b, <<a, b, c>>)
BY CipherElement, KeptItself DEF KeepsCiphers

LEMMA AddCCKeeps ==
  ASSUME NEW a, IsCipher(a), NEW b, IsCipher(b), NEW out, IsCipher(out)
  PROVE  KeepsCiphers(a, b, AddCC(a, b, out))
<1> DEFINE m == MatchModulusAndScale(a.data, b.data)
           d == EvalAdd(m[1], m[2])
           z == [zero |-> FALSE, packed |-> b.packed, data |-> d]
<1>1. CASE a.zero \/ b.zero
  <2>1. AddCC(a, b, out) \in {<<a, b, ZeroOut(out)>>, <<a, b, b>>, <<a, b, a>>}
    BY <1>1 DEF AddCC
  <2>2. QED BY <2>1, LeavesCiphers, NonZeroCipher
<1>2. CASE AddCC(a, b, out) = Thrown
  BY <1>2 DEF KeepsCiphers
<1>3. CASE ~a.zero /\ ~b.zero /\ AddCC(a, b, out) # Thrown
  <2>1. AddCC(a, b, out) = AddMatched(a, b, m, out) /\ m # Thrown
    BY <1>3 DEF AddCC, Then
  <2>2. AddCC(a, b, out) = <<[a EXCEPT !.data = m[1]], [b EXCEPT !.data = m[2]], z>> /\ d # Thrown
    BY <1>3, <2>1 DEF AddMatched, Then
  <2>3. /\ HasData(a.data) /\ HasData(m[1]) /\ m[1].slots = a.data.slots /\ m[1].level <= a.data.level
        /\ HasData(b.data) /\ HasData(m[2]) /\ m[2].slots = b.data.slots /\ m[2].level <= b.data.level
    BY <2>1, MatchKeeps DEF IsCipher
  <2>4. HasData(d)
    BY <2>2, <2>3, EvalAddHas DEF IsData
  <2>5. IsCipher(z)
    BY <2>4 DEF IsCipher, IsData
  <2> HIDE DEF m, d, z
  <2>6. /\ IsElement(Cipher([a EXCEPT !.data = m[1]])) /\ Kept(Cipher(a), Cipher([a EXCEPT !.data = m[1]]))
        /\ IsElement(Cipher([b EXCEPT !.data = m[2]])) /\ Kept(Cipher(b), Cipher([b EXCEPT !.data = m[2]]))
    BY <2>3, MatchedKept
  <2>7. QED BY <2>2, <2>5, <2>6 DEF KeepsCiphers
<1>4. QED BY <1>1, <1>2, <1>3

LEMMA MultiplyCCKeeps ==
  ASSUME NEW a, IsCipher(a), NEW b, IsCipher(b), NEW out, IsCipher(out)
  PROVE  KeepsCiphers(a, b, MultiplyCC(a, b, out))
<1> DEFINE m == MatchModulusAndScale(a.data, b.data)
           d == EvalMultiply(m[1], m[2])
           z == [NonZeroOut(out) EXCEPT !.data = RescaleToNext(d)]
<1>1. CASE a.zero \/ b.zero
  <2>1. MultiplyCC(a, b, out) = <<a, b, ZeroOut(out)>>
    BY <1>1 DEF MultiplyCC
  <2>2. QED BY <2>1, LeavesCiphers, NonZeroCipher
<1>2. CASE MultiplyCC(a, b, out) = Thrown
  BY <1>2 DEF KeepsCiphers
<1>3. CASE ~a.zero /\ ~b.zero /\ MultiplyCC(a, b, out) # Thrown
  <2>1. MultiplyCC(a, b, out) = MultiplyMatched(a, b, m, out) /\ m # Thrown
    BY <1>3 DEF MultiplyCC, Then
  <2>2. /\ MultiplyCC(a, b, out) = <<[a EXCEPT !.data = m[1]], [b EXCEPT !.data = m[2]], z>>
        /\ d # Thrown /\ m[1].level # 0
    BY <1>3, <2>1 DEF MultiplyMatched, Then
  <2>3. /\ HasData(a.data) /\ HasData(m[1]) /\ m[1].slots = a.data.slots /\ m[1].level <= a.data.level
        /\ HasData(b.data) /\ HasData(m[2]) /\ m[2].slots = b.data.slots /\ m[2].level <= b.data.level
    BY <2>1, MatchKeeps DEF IsCipher
  <2>4. HasData(RescaleToNext(d))
    <3>1. HasData(d) /\ d.level = m[1].level
      BY <2>2, <2>3, EvalMultiplyHas DEF IsData
    <3> HIDE DEF d
    <3>2. QED BY <2>2, <3>1, RescaleToNextHas
  <2>5. IsCipher(z)
    <3>1. IsCipher(NonZeroOut(out))
      BY NonZeroCipher
    <3> HIDE DEF d
    <3>2. QED BY <2>4, <3>1 DEF IsCipher, IsData
  <2> HIDE DEF m, d, z
  <2>6. /\ IsElement(Cipher([a EXCEPT !.data = m[1]])) /\ Kept(Cipher(a), Cipher([a EXCEPT !.data = m[1]]))
        /\ IsElement(Cipher([b EXCEPT !.data = m[2]])) /\ Kept(Cipher(b), Cipher([b EXCEPT !.data = m[2]]))
    BY <2>3, MatchedKept
  <2>7. QED BY <2>2, <2>5, <2>6 DEF KeepsCiphers
<1>4. QED BY <1>1, <1>2, <1>3

LEMMA NegateCCipher ==
  ASSUME NEW a, IsCipher(a), NEW out, IsCipher(out), NegateC(a, out) # Thrown
  PROVE  IsCipher(NegateC(a, out))
<1>1. IsData(a.data)
  BY DEF IsCipher
<1>2. EvalNegate(a.data) # Thrown => IsData(EvalNegate(a.data))
  BY <1>1, EvalNegateHas DEF IsData
<1>3. CASE a.zero
  BY <1>3, NonZeroCipher DEF NegateC
<1>4. CASE ~a.zero
  BY <1>2, <1>4, AssignedCipher DEF NegateC
<1>5. QED BY <1>3, <1>4

LEMMA AddCPCipher ==
  ASSUME NEW a, IsCipher(a), NEW p, NEW out, IsCipher(out), AddCP(a, p, out) # Thrown
  PROVE  IsCipher(AddCP(a, p, out))
<1> DEFINE e == EncodeAt(p, a.data.level, a.data.scale)
           c == Assigned(out, EvalAdd(a.data, e))
<1>1. IsData(a.data)
  BY DEF IsCipher
<1>2. CASE a.zero
  <2>1. Encrypt(out, p) # Thrown /\ AddCP(a, p, out) = NonZeroOut(Encrypt(out, p))
    BY <1>2 DEF AddCP, Then
  <2>2. QED BY <2>1, EncryptCipher, NonZeroCipher
<1>3. CASE AddCP(a, p, out) = a
  BY <1>3
<1>4. CASE AddCP(a, p, out) = Assigned(out, AddPlain(a.data, p.values[1]))
  <2>1. AddPlain(a.data, p.values[1]) # Thrown => IsData(AddPlain(a.data, p.values[1]))
    BY <1>1, AddPlainHas DEF IsData
  <2>2. QED BY <1>4, <2>1, AssignedCipher
<1>5. CASE /\ a.data # NoData /\ e # Thrown
           /\ AddCP(a, p, out) = [c EXCEPT !.packed = a.packed]
  <2>1. HasData(a.data)
    BY <1>1, <1>5 DEF IsData
  <2>2. HasData(e) /\ e.level = a.data.level /\ e.scale = a.data.scale
    BY <1>5, <2>1, EncodeAtHas DEF HasData
  <2>3. e # NoData
    BY <2>2, HasDataIsSome
  <2> HIDE DEF e
  <2>4. EvalAdd(a.data, e) # Thrown
    BY <2>1, <2>2, <2>3, EvalAddSome
  <2>5. IsData(EvalAdd(a.data, e))
    BY <1>1, <2>4, EvalAddHas DEF IsData
  <2>6. c = [out EXCEPT !.data = EvalAdd(a.data, e)]
    BY <2>4 DEF Assigned
  <2>7. IsCipher(c)
    BY <2>5, <2>6, DataCipher
  <2> HIDE DEF c
  <2>8. IsCipher([c EXCEPT !.packed = a.packed])
    BY <2>7, PackedCipher
  <2>9. QED BY <1>5, <2>8, Zenon
<1>6. CASE ~a.zero /\ p.values # <<0>> /\ ~IsSingle(p)
  <2>1. a.data # NoData
    BY <1>6 DEF AddCP
  <2>2. AddCP(a, p, out) = Then(e, LAMBDA y : [Assigned(out, EvalAdd(a.data, y)) EXCEPT !.packed = a.packed])
    BY <1>6, <2>1, Zenon DEF AddCP
  <2>3. e # Thrown /\ AddCP(a, p, out) = [c EXCEPT !.packed = a.packed]
    BY <2>2, Zenon DEF Then
  <2>4. QED BY <1>5, <2>1, <2>3
<1>7. QED
  BY <1>2, <1>3, <1>4, <1>6 DEF AddCP

LEMMA SubCCCipher ==
  ASSUME NEW a, IsCipher(a), NEW b, IsCipher(b), NEW out, IsCipher(out), SubCC(a, b, out) # Thrown
  PROVE  IsCipher(SubCC(a, b, out))
<1>1. IsData(a.data) /\ IsData(b.data)
  BY DEF IsCipher
<1>2. CASE SubCC(a, b, out) \in {ZeroOut(out), a}
  BY <1>2, NonZeroCipher
<1>3. ASSUME NEW d, d # Thrown => IsData(d), SubCC(a, b, out) = Then(Assigned(out, d), NonZeroOut)
      PROVE  IsCipher(SubCC(a, b, out))
  <2>1. Assigned(out, d) # Thrown /\ SubCC(a, b, out) = NonZeroOut(Assigned(out, d))
    BY <1>3 DEF Then
  <2>2. QED BY <1>3, <2>1, AssignedCipher, NonZeroCipher
<1>4. EvalNegate(b.data) # Thrown => IsData(EvalNegate(b.data))
  BY <1>1, EvalNegateHas DEF IsData
<1>5. EvalSub(a.data, b.data) # Thrown => IsData(EvalSub(a.data, b.data))
  BY <1>1, EvalSubHas DEF IsData
<1>6. QED
  BY <1>2, <1>3, <1>4, <1>5 DEF SubCC

LEMMA SubCPCipher ==
  ASSUME NEW a, IsCipher(a), NEW p, NEW out, IsCipher(out), SubCP(a, p, out) # Thrown
  PROVE  IsCipher(SubCP(a, p, out))
<1> DEFINE q == [NegateP(p) EXCEPT !.packed = a.packed]
           e == EncodeAt(p, a.data.level, a.data.scale)
<1>1. CASE a.zero
  <2>1. Encrypt(out, q) # Thrown /\ SubCP(a, p, out) = NonZeroOut(Encrypt(out, q))
    BY <1>1 DEF SubCP, Then
  <2> HIDE DEF q
  <2>2. QED BY <2>1, EncryptCipher, NonZeroCipher
<1>2. CASE ~a.zero
  <2>1. /\ a.data # NoData /\ e # Thrown
        /\ SubCP(a, p, out) = NonZeroOut(Assigned(out, EvalSub(a.data, e)))
    BY <1>2 DEF SubCP, Then
  <2>2. HasData(a.data)
    BY <2>1 DEF IsCipher, IsData
  <2>3. HasData(e) /\ e.level = a.data.level /\ e.scale = a.data.scale
    BY <2>1, <2>2, EncodeAtHas DEF HasData
  <2>4. EvalSub(a.data, e) # Thrown
    BY <2>2, <2>3, EvalSubSome
  <2>5. IsData(EvalSub(a.data, e))
    BY <2>2, <2>4, EvalSubHas DEF IsData
  <2>6. Assigned(out, EvalSub(a.data, e)) = [out EXCEPT !.data = EvalSub(a.data, e)]
    BY <2>4 DEF Assigned
  <2> HIDE DEF e
  <2>7. QED BY <2>1, <2>5, <2>6, DataCipher, NonZeroCipher
<1>3. QED BY <1>1, <1>2

LEMMA SubPCCipher ==
  ASSUME NEW p, NEW a, IsCipher(a), NEW out, IsCipher(out), SubPC(p, a, out) # Thrown
  PROVE  IsCipher(SubPC(p, a, out))
<1>1. CASE a.zero
  <2>1. Encrypt(out, p) # Thrown /\ SubPC(p, a, out) = NonZeroOut(Encrypt(out, p))
    BY <1>1 DEF SubPC, Then
  <2>2. QED BY <2>1, EncryptCipher, NonZeroCipher
<1>2. CASE ~a.zero
  <2> DEFINE tmp == NegateC(a, NewCipher)
  <2>1. tmp # Thrown /\ SubPC(p, a, out) = AddPC(p, tmp, out)
    BY <1>2 DEF SubPC, Then
  <2>2. IsCipher(tmp)
    BY <2>1, NegateCCipher, NewIsCipher
  <2> HIDE DEF tmp
  <2>3. QED BY <2>1, <2>2, AddCPCipher DEF AddPC
<1>3. QED BY <1>1, <1>2

LEMMA MultiplyManyCipher ==
  ASSUME NEW a, IsCipher(a), NEW p, NEW out, IsCipher(out), MultiplyMany(a, p, out) # Thrown
  PROVE  IsCipher(MultiplyMany(a, p, out))
<1> DEFINE e == EncodeAt(p, a.data.level, a.data.scale)
           d == IF EvalMultiply(a.data, e) = Thrown THEN a.data ELSE EvalMultiply(a.data, e)
<1>1. MultiplyMany(a, p, out) = [out EXCEPT !.data = d]
  BY DEF MultiplyMany, Then
<1>2. IsData(d)
  BY EvalMultiplyHas DEF IsCipher, IsData
<1> HIDE DEF d
<1>3. QED BY <1>1, <1>2, DataCipher

LEMMA MultiplyCPCipher ==
  ASSUME NEW a, IsCipher(a), NEW p, NEW out, IsCipher(out), MultiplyCP(a, p, out) # Thrown
  PROVE  IsCipher(MultiplyCP(a, p, out))
<1> DEFINE c == IF IsSingle(p) THEN Assigned(out, MultiplyPlain(a.data, p.values[1]))
                ELSE MultiplyMany(a, p, out)
<1>1. CASE MultiplyCP(a, p, out) = ZeroOut(out)
  BY <1>1, NonZeroCipher
<1>2. CASE c # Thrown /\ MultiplyCP(a, p, out) = NonZeroOut([c EXCEPT !.packed = a.packed])
  <2>1. MultiplyPlain(a.data, p.values[1]) # Thrown => IsData(MultiplyPlain(a.data, p.values[1]))
    BY MultiplyPlainHas DEF IsCipher, IsData
  <2>2. IsCipher(c)
    BY <1>2, <2>1, AssignedCipher, MultiplyManyCipher
  <2> HIDE DEF c
  <2>3. IsCipher([c EXCEPT !.packed = a.packed])
    BY <2>2, PackedCipher
  <2>4. QED BY <1>2, <2>3, NonZeroCipher
<1>3. QED
  BY <1>1, <1>2 DEF MultiplyCP, Then

LEMMA ReluCipher ==
  ASSUME NEW a, NEW out, IsCipher(out), NEW alpha
  PROVE  /\ ReluC(a, out) # Thrown => IsCipher(ReluC(a, out))
         /\ BoundedReluC(a, out, alpha) # Thrown => IsCipher(BoundedReluC(a, out, alpha))
<1> DEFINE p == Decrypt(a)
           q == MapPlain(Relu, p)
           r == MapPlain(LAMBDA x : BoundedRelu(x, alpha), p)
<1>1. ReluC(a, out) # Thrown => ReluC(a, out) = Encrypt(out, q)
  BY DEF ReluC, Then
<1>2. BoundedReluC(a, out, alpha) # Thrown => BoundedReluC(a, out, alpha) = Encrypt(out, r)
  BY DEF BoundedReluC, Then
<1> HIDE DEF q, r
<1>3. QED BY <1>1, <1>2, EncryptCipher

-----------------------------------------------------------------------------
(* Operations on elements.                                                 *)

LEMMA ResultKeeps ==
  ASSUME NEW x, IsElement(x), NEW y, IsElement(y), NEW c, c # Thrown => IsCipher(c)
  PROVE  Keeps(x, y, Result(x, y, c))
<1>1. CASE c = Thrown
  BY <1>1 DEF Result, Keeps
<1>2. CASE c # Thrown
  BY <1>2, KeptItself, CipherElement DEF Result, Keeps
<1>3. QED BY <1>1, <1>2

LEMMA PlainResultKeeps ==
  ASSUME NEW x, IsElement(x), NEW y, IsElement(y), NEW p
  PROVE  Keeps(x, y, PlainResult(x, y, p))
<1>1. CASE p = Thrown
  BY <1>1 DEF PlainResult, Keeps
<1>2. CASE p # Thrown
  BY <1>2, KeptItself, PlainElement DEF PlainResult, Keeps
<1>3. QED BY <1>1, <1>2

LEMMA CipherResultsKeep ==
  ASSUME NEW x, IsElement(x), x.cipher, NEW y, IsElement(y), y.cipher,
         NEW r, KeepsCiphers(x.e, y.e, r)
  PROVE  Keeps(x, y, CipherResults(r))
<1>1. x = Cipher(x.e) /\ y = Cipher(y.e)
  <2>1. x.cipher = TRUE /\ y.cipher = TRUE
    BY DEF IsElement
  <2>2. QED BY <2>1 DEF IsElement, Cipher
<1>2. CASE r = Thrown
  BY <1>2 DEF CipherResults, Keeps
<1>3. CASE r # Thrown
  BY <1>1, <1>3, CipherElement DEF CipherResults, Keeps, KeepsCiphers
<1>4. QED BY <1>2, <1>3

LEMMA CipherOf == ASSUME NEW x, IsElement(x), x.cipher PROVE IsCipher(x.e)
BY DEF IsElement

LEMMA OutCipher == ASSUME NEW x, NEW y, x.cipher \/ y.cipher PROVE IsCipher(Out(x, y).e)
BY NewIsCipher, CipherElement DEF Out, Empty, EmptyCipher

LEMMA AddKeeps ==
  ASSUME NEW x, IsElement(x), NEW y, IsElement(y) PROVE Keeps(x, y, AddOf(x, y))
<1> DEFINE out == Out(x, y).e
<1>1. x.cipher \in BOOLEAN /\ y.cipher \in BOOLEAN
  BY DEF IsElement
<1>2. CASE x.cipher /\ y.cipher
  <2>1. AddOf(x, y) = CipherResults(AddCC(x.e, y.e, out))
    BY <1>2 DEF AddOf, ScalarAdd
  <2>2. QED BY <1>2, <2>1, CipherOf, OutCipher, AddCCKeeps, CipherResultsKeep
<1>3. CASE x.cipher /\ ~y.cipher
  <2>1. AddOf(x, y) = Result(x, y, AddCP(x.e, y.e, out))
    BY <1>3 DEF AddOf, ScalarAdd
  <2>2. QED BY <1>3, <2>1, CipherOf, OutCipher, AddCPCipher, ResultKeeps
<1>4. CASE ~x.cipher /\ y.cipher
  <2>1. AddOf(x, y) = Result(x, y, AddCP(y.e, x.e, out))
    BY <1>4 DEF AddOf, ScalarAdd, AddPC
  <2>2. QED BY <1>4, <2>1, CipherOf, OutCipher, AddCPCipher, ResultKeeps
<1>5. CASE ~x.cipher /\ ~y.cipher
  <2>1. AddOf(x, y) = PlainResult(x, y, AddPP(x.e, y.e))
    BY <1>5 DEF AddOf, ScalarAdd
  <2>2. QED BY <2>1, PlainResultKeeps
<1>6. QED BY <1>1, <1>2, <1>3, <1>4, <1>5

LEMMA SubtractKeeps ==
  ASSUME NEW x, IsElement(x), NEW y, IsElement(y) PROVE Keeps(x, y, SubtractOf(x, y))
<1> DEFINE out == Out(x, y).e
<1>1. x.cipher \in BOOLEAN /\ y.cipher \in BOOLEAN
  BY DEF IsElement
<1>2. CASE x.cipher /\ y.cipher
  <2>1. SubtractOf(x, y) = Result(x, y, SubCC(x.e, y.e, out))
    BY <1>2 DEF SubtractOf, ScalarSubtract
  <2>2. QED BY <1>2, <2>1, CipherOf, OutCipher, SubCCCipher, ResultKeeps
<1>3. CASE x.cipher /\ ~y.cipher
  <2>1. SubtractOf(x, y) = Result(x, y, SubCP(x.e, y.e, out))
    BY <1>3 DEF SubtractOf, ScalarSubtract
  <2>2. QED BY <1>3, <2>1, CipherOf, OutCipher, SubCPCipher, ResultKeeps
<1>4. CASE ~x.cipher /\ y.cipher
  <2>1. SubtractOf(x, y) = Result(x, y, SubPC(x.e, y.e, out))
    BY <1>4 DEF SubtractOf, ScalarSubtract
  <2>2. QED BY <1>4, <2>1, CipherOf, OutCipher, SubPCCipher, ResultKeeps
<1>5. CASE ~x.cipher /\ ~y.cipher
  <2>1. SubtractOf(x, y) = PlainResult(x, y, SubPP(x.e, y.e))
    BY <1>5 DEF SubtractOf, ScalarSubtract
  <2>2. QED BY <2>1, PlainResultKeeps
<1>6. QED BY <1>1, <1>2, <1>3, <1>4, <1>5

LEMMA LazyRescalingCipher ==
  ASSUME NEW c, IsCipher(c), LazyRescaling(c) # Thrown PROVE IsCipher(LazyRescaling(c))
<1>1. CASE c.zero
  BY <1>1 DEF LazyRescaling
<1>2. CASE ~c.zero
  <2>1. LazyRescaling(c) = Assigned(c, RescaleToNext(c.data)) /\ RescaleToNext(c.data) # Thrown
    BY <1>2 DEF LazyRescaling, Assigned
  <2>2. HasData(c.data) /\ c.data.level # 0
    BY <2>1 DEF RescaleToNext, IsCipher, IsData
  <2>3. IsData(RescaleToNext(c.data))
    BY <2>2, RescaleToNextHas DEF IsData
  <2>4. QED BY <2>1, <2>3, AssignedCipher
<1>3. QED BY <1>1, <1>2

LEMMA MultiplyKeeps ==
  ASSUME NEW x, IsElement(x), NEW y, IsElement(y) PROVE Keeps(x, y, MultiplyOf(x, y))
<1> DEFINE out == Out(x, y).e
<1>1. x.cipher \in BOOLEAN /\ y.cipher \in BOOLEAN
  BY DEF IsElement
<1>2. CASE x.cipher /\ y.cipher
  <2>1. MultiplyOf(x, y) = CipherResults(MultiplyCC(x.e, y.e, out))
    BY <1>1, <1>2 DEF MultiplyOf, ScalarMultiply
  <2>2. QED BY <1>2, <2>1, CipherOf, OutCipher, MultiplyCCKeeps, CipherResultsKeep
<1>3. ASSUME NEW c, c # Thrown => IsCipher(c), x.cipher # y.cipher,
             ScalarMultiply(x, y, Out(x, y)) = Result(x, y, c)
      PROVE  Keeps(x, y, MultiplyOf(x, y))
  <2>1. CASE c = Thrown
    BY <1>3, <2>1 DEF MultiplyOf, Result, Keeps
  <2>2. CASE MultiplyOf(x, y) = Thrown
    BY <2>2 DEF Keeps
  <2>3. CASE c # Thrown /\ MultiplyOf(x, y) # Thrown
    <3>1. ScalarMultiply(x, y, Out(x, y)) = <<x, y, Cipher(c)>>
      BY <1>3, <2>3 DEF Result
    <3>2. MultiplyOf(x, y) \in {ScalarMultiply(x, y, Out(x, y)),
                                Result(x, y, LazyRescaling(ScalarMultiply(x, y, Out(x, y))[3].e))}
      BY DEF MultiplyOf
    <3>3. ScalarMultiply(x, y, Out(x, y))[3].e = c
      BY <3>1, CipherElement, <1>3, <2>3
    <3>4. QED BY <1>3, <2>3, <3>2, <3>3, LazyRescalingCipher, ResultKeeps
  <2>4. QED BY <2>1, <2>2, <2>3
<1>4. CASE x.cipher /\ ~y.cipher
  <2>1. ScalarMultiply(x, y, Out(x, y)) = Result(x, y, MultiplyCP(x.e, y.e, out))
    BY <1>4 DEF ScalarMultiply
  <2>2. QED BY <1>1, <1>3, <1>4, <2>1, CipherOf, OutCipher, MultiplyCPCipher
<1>5. CASE ~x.cipher /\ y.cipher
  <2>1. ScalarMultiply(x, y, Out(x, y)) = Result(x, y, MultiplyCP(y.e, x.e, out))
    BY <1>5 DEF ScalarMultiply, MultiplyPC
  <2>2. QED BY <1>1, <1>3, <1>5, <2>1, CipherOf, OutCipher, MultiplyCPCipher
<1>6. CASE ~x.cipher /\ ~y.cipher
  <2>1. MultiplyOf(x, y) = PlainResult(x, y, MultiplyPP(x.e, y.e))
    BY <1>1, <1>6 DEF MultiplyOf, ScalarMultiply
  <2>2. QED BY <2>1, PlainResultKeeps
<1>7. QED BY <1>1, <1>2, <1>4, <1>5, <1>6

LEMMA UnaryKeeps ==
  ASSUME NEW x, IsElement(x), NEW alpha
  PROVE  /\ Keeps(x, x, NegateOf(x))
         /\ Keeps(x, x, ReluOf(x))
         /\ Keeps(x, x, BoundedReluOf(x, alpha))
<1>1. CASE x.cipher
  <2>1. IsCipher(x.e) /\ IsCipher(NewCipher)
    BY <1>1, CipherOf, NewIsCipher
  <2>2. Keeps(x, x, NegateOf(x))
    BY <1>1, <2>1, NegateCCipher, ResultKeeps DEF NegateOf
  <2>3. Keeps(x, x, ReluOf(x))
    BY <1>1, <2>1, ReluCipher, ResultKeeps DEF ReluOf
  <2>4. Keeps(x, x, BoundedReluOf(x, alpha))
    BY <1>1, <2>1, ReluCipher, ResultKeeps DEF BoundedReluOf
  <2>5. QED BY <2>2, <2>3, <2>4
<1>2. CASE ~x.cipher
  BY <1>2, PlainResultKeeps DEF NegateOf, ReluOf, BoundedReluOf
<1>3. QED BY <1>1, <1>2

LEMMA MinimumKeeps ==
  ASSUME NEW x, IsElement(x), NEW y, IsElement(y) PROVE Keeps(x, y, MinimumOf(x, y))
<1>1. CASE MinimumOf(x, y) = PlainResult(x, y, MinimumPP(x.e, y.e))
  BY <1>1, PlainResultKeeps
<1>2. CASE MinimumOf(x, y) = <<x, y, x>>
  BY <1>2, KeptItself DEF Keeps
<1>3. CASE MinimumOf(x, y) = Thrown
  BY <1>3 DEF Keeps
<1>4. QED BY <1>1, <1>2, <1>3 DEF MinimumOf

-----------------------------------------------------------------------------
(* The bits of the modulus.  TotalBits is defined by recursion; that it is   *)
(* the sum it says rests on the least number of a set.                     *)

LEMMA LeastNumber ==
  ASSUME NEW T \in SUBSET Nat, T # {}
  PROVE  \E n \in T : \A m \in T : n <= m
<1> DEFINE R == {ss \in Nat \X Nat : ss[1] < ss[2]}
<1>1. OpToRel(<, Nat) = R
  BY Zenon DEF OpToRel
<1>2. IsWellFoundedOn(R, Nat)
  BY <1>1, NatLessThanWellFounded, Zenon
<1>3. \A m, n \in Nat : <<m, n>> \in R <=> m < n
  OBVIOUS
<1> HIDE DEF R
<1>4. PICK n \in T : \A m \in T : ~(<<m, n>> \in R)
  BY <1>2, WFMin
<1>5. ASSUME NEW m \in T PROVE n <= m
  <2>1. m \in Nat /\ n \in Nat
    OBVIOUS
  <2>2. ~(m < n)
    BY <1>3, <1>4, <2>1
  <2>3. QED BY <2>1, <2>2
<1>6. QED BY <1>5

\* f sums the bits of the first primes.
SumsUpTo(f, n) ==
  f = [l \in 0..n |-> IF l = 0 THEN ModulusBits[1] ELSE f[l-1] + ModulusBits[l+1]]

LEMMA SumsExist == ASSUME NEW n \in Nat PROVE \E f : SumsUpTo(f, n)
<1> DEFINE T == {m \in Nat : ~ \E f : SumsUpTo(f, m)}
<1>1. SUFFICES ASSUME T # {} PROVE FALSE
  OBVIOUS
<1>2. PICK m \in T : \A k \in T : m <= k
  <2>1. T \in SUBSET Nat
    OBVIOUS
  <2> HIDE DEF T
  <2>2. QED BY <1>1, <2>1, LeastNumber
<1>3. CASE m = 0
  <2>1. SumsUpTo([l \in 0..0 |-> ModulusBits[1]], 0)
    BY DEF SumsUpTo
  <2>2. QED BY <1>3, <2>1
<1>4. CASE m # 0
  <2>1. m - 1 \in Nat /\ m - 1 \notin T
    BY <1>2, <1>4
  <2>2. PICK f : SumsUpTo(f, m - 1)
    BY <2>1
  <2> DEFINE g == [l \in 0..m |-> IF l = m THEN f[m-1] + ModulusBits[m+1] ELSE f[l]]
  <2>3. \A l \in 0..m : g[l] = IF l = 0 THEN ModulusBits[1] ELSE g[l-1] + ModulusBits[l+1]
    <3> TAKE l \in 0..m
    <3>1. CASE l = m
      BY <1>4, <2>1, <3>1
    <3>2. CASE l # m
      <4>1. l \in 0..(m-1) /\ (l # 0 => l - 1 \in 0..m /\ l - 1 # m)
        BY <2>1, <3>2
      <4>2. f[l] = IF l = 0 THEN ModulusBits[1] ELSE f[l-1] + ModulusBits[l+1]
        BY <2>2, <4>1 DEF SumsUpTo
      <4>3. QED BY <3>2, <4>1, <4>2
    <3>3. QED BY <3>1, <3>2
  <2>4. g = [l \in 0..m |-> g[l]]
    OBVIOUS
  <2> HIDE DEF g
  <2>5. SumsUpTo(g, m)
    BY <2>3, <2>4 DEF SumsUpTo
  <2>6. QED BY <2>5
<1>5. QED BY <1>3, <1>4

LEMMA TotalBitsSums ==
  /\ TotalBits[0] = ModulusBits[1]
  /\ \A l \in 1..Top : TotalBits[l] = TotalBits[l-1] + ModulusBits[l+1]
<1>1. Top \in Nat
  BY ModulusAssumption DEF Top
<1>2. PICK f : SumsUpTo(f, Top)
  BY <1>1, SumsExist
<1>3. \E g : g = [l \in Levels |-> IF l = 0 THEN ModulusBits[1] ELSE g[l-1] + ModulusBits[l+1]]
  BY <1>2 DEF SumsUpTo, Levels
<1>4. SumsUpTo(TotalBits, Top)
  BY <1>3, Zenon DEF TotalBits, SumsUpTo, Levels
<1>5. QED BY <1>1, <1>4 DEF SumsUpTo

-----------------------------------------------------------------------------
(* The parameters.                                                         *)

\* All primes but the lowest have one size, that of the scale, and the lowest is not
\* smaller: a rescaling brings the square of the scale back to the scale.  So it is
\* for the default parameters and every configuration of the tests.
EqualPrimes ==
  /\ ModulusBits[1] >= Scale
  /\ \A l \in 2..Len(ModulusBits) : ModulusBits[l] = Scale

LEMMA ScaleType == Scale \in Nat \ {0} /\ Top \in Nat /\ ModulusBits[1] \in Nat \ {0}
BY ModulusAssumption DEF Scale, Top

\* What a rescaling takes from a scale; the square of the scale above the lowest level.
LEMMA OnePrime ==
  ASSUME EqualPrimes, NEW l \in Levels, l # 0
  PROVE  /\ TotalBits[l] \in Int /\ TotalBits[l-1] \in Int
         /\ TotalBits[l] - TotalBits[l-1] = Scale
         /\ 2 * Scale <= TotalBits[l]
<1> DEFINE T == {k \in Nat : k <= Top /\ ~(TotalBits[k] \in Int /\ TotalBits[k] >= Scale)}
<1>1. Top \in Nat /\ Scale \in Nat \ {0} /\ Len(ModulusBits) = Top + 1
  BY ScaleType, ModulusAssumption, LenProperties DEF Top
<1>2. T = {}
  <2> SUFFICES ASSUME T # {} PROVE FALSE
    OBVIOUS
  <2>1. PICK k \in T : \A h \in T : k <= h
    <3>1. T \in SUBSET Nat
      OBVIOUS
    <3> HIDE DEF T
    <3>2. QED BY <3>1, LeastNumber
  <2>2. k # 0
    BY <1>1, ScaleType, TotalBitsSums DEF EqualPrimes
  <2>3. k - 1 \in Nat /\ k - 1 \notin T /\ k - 1 <= Top
    BY <1>1, <2>1, <2>2
  <2>4. TotalBits[k-1] \in Int /\ TotalBits[k-1] >= Scale
    BY <2>3
  <2>5. TotalBits[k] = TotalBits[k-1] + Scale
    <3>1. k \in 1..Top /\ k + 1 \in 2..Len(ModulusBits)
      BY <1>1, <2>1, <2>2
    <3>2. QED BY <3>1, TotalBitsSums DEF EqualPrimes
  <2>6. QED BY <1>1, <2>1, <2>4, <2>5
<1>3. l \in 1..Top /\ l + 1 \in 2..Len(ModulusBits) /\ l \in Nat /\ l - 1 \in Nat /\ l - 1 <= Top
  BY <1>1 DEF Levels
<1>4. TotalBits[l-1] \in Int /\ TotalBits[l-1] >= Scale
  BY <1>2, <1>3
<1>5. TotalBits[l] = TotalBits[l-1] + Scale
  BY <1>3, TotalBitsSums DEF EqualPrimes
<1>6. QED BY <1>1, <1>4, <1>5

-----------------------------------------------------------------------------
(* What elements stand for.                                                *)

Places == 1..BatchSize
IsBatch(m) == m \in [Places -> Int]

\* The number at a place of the batch: the slots are pairs, and a packed one holds two.
Number(slots, packed, k) ==
  IF packed THEN slots[(k + 1) \div 2][IF k % 2 = 1 THEN 1 ELSE 2] ELSE slots[k][1]

\* The slots of data hold the batch m.  Without packing the imaginary parts stay
\* zero: a product would bring them back.
ArePairs(slots) == slots \in [1..Slots -> Int \X Int]
Holds(d, packed, m) ==
  /\ HasData(d)
  /\ ArePairs(d.slots)
  /\ \A k \in Places : Number(d.slots, packed, k) = m[k]
  /\ ~packed => \A i \in 1..Slots : d.slots[i][2] = 0

\* Data that has lost at most n levels, at the scale it was encrypted with.
Paid(d, n) == d.scale = Scale /\ d.level >= Top - n

CipherSound(c, m, n) ==
  /\ IsCipher(c) /\ c.zero \in BOOLEAN /\ c.packed \in BOOLEAN
  /\ c.zero => \A k \in Places : m[k] = 0
  /\ ~c.zero => Holds(c.data, c.packed, m) /\ Paid(c.data, n)

\* Values in the clear that stand for the batch m: one for all of it, or one each.
ValueAt(p, k) == p.values[IF IsSingle(p) THEN 1 ELSE k]
Means(p, m) ==
  /\ p.values \in Seq(Int)
  /\ IsSingle(p) \/ Len(p.values) >= BatchSize
  /\ \A k \in Places : ValueAt(p, k) = m[k]
PlainSound(p, m) == p = Plain(p.values, FALSE) /\ Means(p, m)

\* An element that stands for m and has paid for n levels.
Sound(x, m, n) ==
  /\ IsElement(x) /\ IsBatch(m) /\ n \in Nat
  /\ x.cipher => CipherSound(x.e, m, n)
  /\ ~x.cipher => PlainSound(x.e, m)

\* Batches fit the slots unpacked: a known zero decrypts to as many zeros as there
\* are slots even when it is packed.
BatchesFit == BatchSize <= Slots

LEMMA SizesType == BatchSize \in Nat \ {0} /\ Slots \in Nat \ {0}
BY BatchAssumption, SlotsAssumption

LEMMA PairParts ==
  ASSUME NEW slots, ArePairs(slots)
  PROVE  /\ DOMAIN slots = 1..Slots /\ Len(slots) = Slots
         /\ \A i \in 1..Slots : slots[i][1] \in Int /\ slots[i][2] \in Int
BY SizesType DEF ArePairs

\* Where packing puts the number at a place.
LEMMA Halves ==
  ASSUME NEW k \in Nat \ {0}
  PROVE  /\ (k + 1) \div 2 \in Nat \ {0}
         /\ k % 2 = 1 => 2 * ((k + 1) \div 2) - 1 = k
         /\ k % 2 # 1 => 2 * ((k + 1) \div 2) = k
         /\ \A n \in Nat : k <= n => (k + 1) \div 2 <= (n + 1) \div 2
OBVIOUS

-----------------------------------------------------------------------------
(* Encoding and decoding.                                                  *)

\* The batch is in the slots that values are encoded into.
LEMMA SlotsHold ==
  ASSUME NEW p, p.packed \in BOOLEAN, NEW m, Means(p, m), Len(SlotsOf(p)) <= Slots
  PROVE  LET slots == Padded(SlotsOf(p))
         IN  /\ DOMAIN slots = 1..Slots /\ ArePairs(slots)
             /\ BatchesFit => \A k \in Places : Number(slots, p.packed, k) = m[k]
             /\ ~p.packed => \A i \in 1..Slots : slots[i][2] = 0
<1> DEFINE slots == Padded(SlotsOf(p))
<1>1. p.values \in Seq(Int) /\ Len(p.values) \in Nat /\ DOMAIN p.values = 1..Len(p.values)
  BY LenProperties DEF Means
<1>2. BatchSize \in Nat \ {0} /\ Slots \in Nat \ {0} /\ Places = 1..BatchSize
  BY SizesType DEF Places
<1>3. slots = [i \in 1..Slots |-> slots[i]]
  BY DEF Padded
<1>4. CASE IsSingle(p)
  <2> DEFINE v == p.values[1]
             pair == <<v, IF p.packed THEN v ELSE 0>>
  <2>1. v \in Int
    BY <1>1, <1>4 DEF IsSingle
  <2>2. SlotsOf(p) = [i \in 1..Slots |-> pair] /\ Len(SlotsOf(p)) = Slots
    BY <1>2, <1>4 DEF SlotsOf
  <2>3. DOMAIN slots = 1..Slots /\ \A i \in 1..Slots : slots[i] = pair
    BY <1>2, <2>2 DEF Padded
  <2>4. pair[1] = v /\ pair[2] = (IF p.packed THEN v ELSE 0)
    OBVIOUS
  <2> HIDE DEF slots, pair
  <2>5. ASSUME NEW k \in Places, BatchesFit PROVE Number(slots, p.packed, k) = m[k]
    <3>1. m[k] = v
      BY <1>4 DEF Means, ValueAt
    <3>2. k \in Nat \ {0} /\ k <= Slots
      BY <1>2, <2>5 DEF BatchesFit
    <3>3. k \in 1..Slots /\ (k + 1) \div 2 \in 1..Slots
      BY <1>2, <3>2
    <3>4. QED BY <2>3, <2>4, <3>1, <3>3 DEF Number
  <2>6. \A i \in 1..Slots : slots[i] \in Int \X Int
    <3>1. pair \in Int \X Int
      BY <2>1 DEF pair
    <3>2. QED BY <2>3, <3>1
  <2>7. QED BY <1>3, <2>3, <2>4, <2>5, <2>6 DEF ArePairs, slots
<1>5. CASE ~IsSingle(p) /\ ~p.packed
  <2>1. SlotsOf(p) = [i \in 1..Len(p.values) |-> <<p.values[i], 0>>] /\ Len(SlotsOf(p)) = Len(p.values)
    BY <1>1, <1>5 DEF SlotsOf
  <2>2. /\ DOMAIN slots = 1..Slots
        /\ \A i \in 1..Slots : slots[i] = IF i <= Len(p.values) THEN <<p.values[i], 0>> ELSE <<0, 0>>
    BY <1>1, <1>2, <2>1 DEF Padded
  <2> HIDE DEF slots
  <2>3. ASSUME NEW i \in 1..Slots PROVE slots[i] \in Int \X Int /\ slots[i][2] = 0
    BY <1>1, <2>2
  <2>4. ASSUME NEW k \in Places PROVE Number(slots, p.packed, k) = m[k]
    <3>1. m[k] = p.values[k] /\ k <= Len(p.values)
      BY <1>1, <1>2, <1>5 DEF Means, ValueAt
    <3>2. k \in 1..Slots
      BY <1>1, <1>2, <2>1, <3>1
    <3>3. slots[k] = <<p.values[k], 0>>
      BY <2>2, <3>1, <3>2
    <3>4. QED BY <1>5, <3>1, <3>3 DEF Number
  <2>5. QED BY <1>3, <2>2, <2>3, <2>4 DEF ArePairs, slots
<1>6. CASE ~IsSingle(p) /\ p.packed
  <2> DEFINE n == Len(p.values)
             half == (n + 1) \div 2
             pair(i) == <<p.values[2*i - 1], IF 2*i <= n THEN p.values[2*i] ELSE 0>>
  <2>1. half \in Nat /\ 2 * half <= n + 1
    <3>1. \A a \in Nat : (a + 1) \div 2 \in Nat /\ 2 * ((a + 1) \div 2) <= a + 1
      OBVIOUS
    <3>2. QED BY <1>1, <3>1
  <2>2. SlotsOf(p) = [i \in 1..half |-> pair(i)] /\ Len(SlotsOf(p)) = half
    BY <1>1, <1>6, <2>1 DEF SlotsOf, PairsOf
  <2>3. /\ DOMAIN slots = 1..Slots
        /\ \A i \in 1..Slots : slots[i] = IF i <= half THEN pair(i) ELSE <<0, 0>>
    BY <1>2, <2>1, <2>2 DEF Padded
  <2> HIDE DEF slots, half
  <2>4. ASSUME NEW i \in 1..Slots PROVE slots[i] \in Int \X Int
    <3>1. i <= half => 2*i - 1 \in 1..n
      BY <1>1, <2>1
    <3>2. 2*i <= n => 2*i \in 1..n
      BY <1>1
    <3>3. QED BY <1>1, <2>3, <3>1, <3>2
  <2>5. ASSUME NEW k \in Places PROVE Number(slots, p.packed, k) = m[k]
    <3> DEFINE h == (k + 1) \div 2
    <3>1. m[k] = p.values[k] /\ k <= n /\ k \in Nat \ {0}
      BY <1>1, <1>2, <1>6 DEF Means, ValueAt
    <3>2. /\ h \in Nat \ {0} /\ h <= half
          /\ k % 2 = 1 => 2 * h - 1 = k
          /\ k % 2 # 1 => 2 * h = k
      BY <1>1, <3>1, Halves DEF half
    <3> HIDE DEF h
    <3>3. h \in 1..Slots
      BY <1>2, <2>1, <2>2, <3>2
    <3>4. slots[h] = pair(h)
      BY <2>3, <3>2, <3>3
    <3>5. CASE k % 2 = 1
      <4>1. Number(slots, p.packed, k) = slots[h][1]
        BY <1>6, <3>5 DEF Number, h
      <4>2. pair(h)[1] = p.values[k]
        BY <3>2, <3>5
      <4>3. QED BY <3>1, <3>4, <4>1, <4>2
    <3>6. CASE k % 2 # 1
      <4>1. Number(slots, p.packed, k) = slots[h][2]
        BY <1>6, <3>6 DEF Number, h
      <4>2. pair(h)[2] = p.values[k]
        BY <3>1, <3>2, <3>6
      <4>3. QED BY <3>1, <3>4, <4>1, <4>2
    <3>7. QED BY <3>5, <3>6
  <2>6. QED BY <1>3, <1>6, <2>3, <2>4, <2>5 DEF ArePairs, slots
<1>7. QED BY <1>4, <1>5, <1>6

\* The code of an encoded batch.
LEMMA EncodeHolds ==
  ASSUME BatchesFit, NEW p, p.packed \in BOOLEAN, NEW m, Means(p, m), NEW level \in Levels, NEW scale,
         EncodeAt(p, level, scale) # Thrown
  PROVE  /\ Holds(EncodeAt(p, level, scale), p.packed, m)
         /\ EncodeAt(p, level, scale).level = level
         /\ EncodeAt(p, level, scale).scale = scale
<1> DEFINE slots == Padded(SlotsOf(p))
<1>1. EncodeAt(p, level, scale) = Data(level, scale, slots) /\ Len(SlotsOf(p)) <= Slots
  BY DEF EncodeAt
<1>2. /\ DOMAIN slots = 1..Slots /\ ArePairs(slots)
      /\ \A k \in Places : Number(slots, p.packed, k) = m[k]
      /\ ~p.packed => \A i \in 1..Slots : slots[i][2] = 0
  BY <1>1, SlotsHold
<1> HIDE DEF slots
<1>3. /\ HasData(Data(level, scale, slots)) /\ Data(level, scale, slots).level = level
      /\ Data(level, scale, slots).scale = scale /\ Data(level, scale, slots).slots = slots
  BY <1>2, DataHas
<1>4. QED BY <1>1, <1>2, <1>3 DEF Holds

LEMMA EncryptSound ==
  ASSUME BatchesFit, NEW p, p.packed \in BOOLEAN, NEW m, Means(p, m), NEW n \in Nat,
         Encrypt(NewCipher, p) # Thrown
  PROVE  /\ CipherSound(Encrypt(NewCipher, p), m, n)
         /\ Encrypt(NewCipher, p).packed = p.packed
         /\ Encrypt(NewCipher, p).zero <=> IsSingle(p) /\ p.values[1] = 0
<1>1. Encode(p) # Thrown
  BY DEF Encrypt
<1>2. IsCipher(Encrypt(NewCipher, p))
  BY EncryptCipher, NewIsCipher
<1>3. CASE IsSingle(p) /\ p.values[1] = 0
  <2>1. Encrypt(NewCipher, p) = [zero |-> TRUE, packed |-> p.packed, data |-> NoData]
    BY <1>1, <1>3 DEF Encrypt, NewCipher
  <2>2. \A k \in Places : m[k] = 0
    BY <1>3 DEF Means, ValueAt
  <2>3. QED BY <1>2, <1>3, <2>1, <2>2 DEF CipherSound
<1>4. CASE ~(IsSingle(p) /\ p.values[1] = 0)
  <2> DEFINE d == Encode(p)
  <2>1. Holds(d, p.packed, m) /\ d.level = Top /\ d.scale = Scale
    BY <1>1, LevelsInt, EncodeHolds DEF Encode
  <2> HIDE DEF d
  <2>2. Encrypt(NewCipher, p) = [zero |-> FALSE, packed |-> p.packed, data |-> d]
    BY <1>1, <1>4 DEF Encrypt, Assigned, NewCipher, d
  <2>3. Paid(d, n)
    BY <2>1, ScaleType DEF Paid
  <2>4. QED BY <1>2, <1>4, <2>1, <2>2, <2>3 DEF CipherSound
<1>5. QED BY <1>3, <1>4

\* Decryption gives back at least a batch.
LEMMA DecryptMeans ==
  ASSUME BatchesFit, NEW c, NEW m, NEW n, IsBatch(m), CipherSound(c, m, n)
  PROVE  /\ Decrypt(c) # Thrown
         /\ Decrypt(c) = Plain(Decrypt(c).values, c.packed)
         /\ Means(Decrypt(c), m)
         /\ Len(Decrypt(c).values) >= BatchSize
<1> DEFINE slots == c.data.slots
           v == IF c.zero THEN [i \in 1..Slots |-> 0]
                ELSE IF c.packed THEN RealsOf(slots) ELSE [i \in 1..Slots |-> slots[i][1]]
<1>1. BatchSize \in Nat \ {0} /\ Slots \in Nat \ {0} /\ Places = 1..BatchSize /\ BatchSize <= Slots
  BY SizesType DEF Places, BatchesFit
<1>2. c.zero \in BOOLEAN /\ c.packed \in BOOLEAN
  BY DEF CipherSound
<1>3. Decrypt(c) = Plain(v, c.packed)
  <2>1. CASE c.zero
    BY <2>1 DEF Decrypt
  <2>2. CASE ~c.zero
    <3>1. c.data # NoData
      BY <2>2, HasDataIsSome DEF CipherSound, Holds
    <3>2. QED BY <2>2, <3>1 DEF Decrypt, Decode
  <2>3. QED BY <2>1, <2>2
<1>4. v \in Seq(Int) /\ Len(v) >= BatchSize /\ Len(v) \in Nat /\ \A k \in Places : v[k] = m[k]
  <2>1. CASE c.zero
    BY <1>1, <2>1 DEF CipherSound
  <2>2. CASE ~c.zero /\ c.packed
    <3>1. /\ ArePairs(slots) /\ DOMAIN slots = 1..Slots
          /\ \A k \in Places : Number(slots, c.packed, k) = m[k]
      BY <2>2 DEF CipherSound, Holds, HasData
    <3> HIDE DEF slots
    <3>2. /\ Len(slots) = Slots
          /\ \A i \in 1..Slots : slots[i][1] \in Int /\ slots[i][2] \in Int
      BY <3>1, PairParts
    <3>3. v = [i \in 1..(2 * Slots) |-> slots[(i+1) \div 2][IF i % 2 = 1 THEN 1 ELSE 2]]
      BY <2>2, <3>2 DEF RealsOf
    <3>4. \A i \in 1..(2 * Slots) : (i + 1) \div 2 \in 1..Slots
      BY <1>1
    <3>5. \A i \in 1..(2 * Slots) : v[i] \in Int
      BY <3>2, <3>3, <3>4
    <3>6. \A k \in Places : k \in 1..(2 * Slots) /\ v[k] = Number(slots, c.packed, k)
      BY <1>1, <2>2, <3>3 DEF Number
    <3> HIDE DEF v
    <3>7. v \in [1..(2 * Slots) -> Int] /\ 2 * Slots \in Nat
      BY <1>1, <3>3, <3>5
    <3>8. v \in Seq(Int) /\ Len(v) = 2 * Slots
      BY <3>7
    <3>9. QED BY <1>1, <3>1, <3>6, <3>8
  <2>3. CASE ~c.zero /\ ~c.packed
    <3>1. ArePairs(slots) /\ \A k \in Places : Number(slots, c.packed, k) = m[k]
      BY <2>3 DEF CipherSound, Holds
    <3> HIDE DEF slots
    <3>2. v = [i \in 1..Slots |-> slots[i][1]]
      BY <2>3
    <3>3. \A i \in 1..Slots : slots[i][1] \in Int
      BY <3>1, PairParts
    <3>4. \A k \in Places : v[k] = m[k]
      BY <1>1, <2>3, <3>1, <3>2 DEF Number
    <3> HIDE DEF v
    <3>5. v \in [1..Slots -> Int] /\ Slots \in Nat
      BY <1>1, <3>2, <3>3
    <3>6. v \in Seq(Int) /\ Len(v) = Slots
      BY <3>5
    <3>7. QED BY <1>1, <3>4, <3>6
  <2>4. QED BY <1>2, <2>1, <2>2, <2>3
<1> HIDE DEF v
<1>5. Plain(v, c.packed).values = v /\ Plain(v, c.packed) # Thrown
  <2>1. "values" \in DOMAIN Plain(v, c.packed) /\ DOMAIN Thrown = {"thrown"}
    BY DEF Plain, Thrown
  <2>2. QED BY <2>1 DEF Plain
<1>6. Means(Plain(v, c.packed), m)
  <2>1. ASSUME NEW k \in Places PROVE ValueAt(Plain(v, c.packed), k) = m[k]
    <3>1. Len(v) = 1 => k = 1
      BY <1>1, <1>4
    <3>2. QED BY <1>4, <1>5, <3>1 DEF ValueAt, IsSingle
  <2>2. QED BY <1>4, <1>5, <2>1 DEF Means
<1>7. QED BY <1>3, <1>4, <1>5, <1>6

\* What an element that stands for a batch gives when it is read.
LEMMA SoundValues ==
  ASSUME BatchesFit, NEW x, NEW m, NEW n, Sound(x, m, n)
  PROVE  ValuesOf(x) = m
<1> DEFINE p == IF x.cipher THEN Decrypt(x.e) ELSE x.e
<1>1. /\ BatchSize \in Nat \ {0} /\ Places = 1..BatchSize /\ x.cipher \in BOOLEAN
      /\ m = [k \in 1..BatchSize |-> m[k]]
  BY SizesType DEF Places, Sound, IsBatch, IsElement
<1>2. Means(p, m) /\ p # Thrown /\ (x.cipher => Len(p.values) >= BatchSize)
  <2>1. CASE x.cipher
    BY <2>1, DecryptMeans DEF Sound
  <2>2. CASE ~x.cipher
    <3>1. Means(p, m) /\ p = Plain(p.values, FALSE)
      BY <2>2 DEF Sound, PlainSound
    <3>2. p # Thrown
      <4>1. "values" \in DOMAIN p /\ DOMAIN Thrown = {"thrown"}
        BY <3>1 DEF Plain, Thrown
      <4>2. QED BY <4>1
    <3>3. QED BY <2>2, <3>1, <3>2
  <2>3. QED BY <2>1, <2>2
<1>3. ValuesOf(x) = IF ~x.cipher /\ IsSingle(p) THEN [i \in 1..BatchSize |-> p.values[1]]
                    ELSE IF Len(p.values) < BatchSize THEN <<>>
                    ELSE SubSeq(p.values, 1, BatchSize)
  BY <1>2 DEF ValuesOf
<1> HIDE DEF p
<1>4. CASE ~x.cipher /\ IsSingle(p)
  BY <1>1, <1>2, <1>3, <1>4 DEF Means, ValueAt
<1>5. CASE x.cipher \/ ~IsSingle(p)
  <2>1. Len(p.values) >= BatchSize /\ p.values \in Seq(Int) /\ Len(p.values) \in Nat
    BY <1>2, <1>5, LenProperties DEF Means
  <2>2. ValuesOf(x) = SubSeq(p.values, 1, BatchSize)
    BY <1>1, <1>3, <1>5, <2>1
  <2>3. SubSeq(p.values, 1, BatchSize) = [k \in 1..BatchSize |-> p.values[k]]
    BY <1>1, <2>1
  <2>4. ASSUME NEW k \in 1..BatchSize PROVE p.values[k] = m[k]
    <3>1. IsSingle(p) => k = 1
      BY <1>1, <2>1 DEF IsSingle
    <3>2. QED BY <1>1, <1>2, <3>1 DEF Means, ValueAt
  <2>5. QED BY <1>1, <2>2, <2>3, <2>4
<1>6. QED BY <1>1, <1>4, <1>5

-----------------------------------------------------------------------------
(* SEAL's evaluator on slots that hold batches.                            *)

\* The slots that the places of a batch are in.
LEMMA PlaceSlots ==
  ASSUME BatchesFit, NEW k \in Places
  PROVE  k \in 1..Slots /\ (k + 1) \div 2 \in 1..Slots
<1>1. k \in Nat \ {0} /\ k <= Slots
  BY SizesType DEF Places, BatchesFit
<1>2. QED BY <1>1, SizesType

LEMMA DataHolds ==
  ASSUME NEW slots, ArePairs(slots), NEW packed \in BOOLEAN, NEW m,
         \A k \in Places : Number(slots, packed, k) = m[k],
         ~packed => \A i \in 1..Slots : slots[i][2] = 0,
         NEW level \in Levels, NEW scale
  PROVE  /\ Holds(Data(level, scale, slots), packed, m)
         /\ Data(level, scale, slots).level = level
         /\ Data(level, scale, slots).scale = scale
BY PairParts, DataHas DEF Holds

\* Other data with the same slots.
LEMMA SlotsHeld ==
  ASSUME NEW d, NEW packed \in BOOLEAN, NEW m, Holds(d, packed, m), NEW e, HasData(e), e.slots = d.slots
  PROVE  Holds(e, packed, m)
BY DEF Holds

LEMMA NegateHolds ==
  ASSUME BatchesFit, NEW x, NEW packed \in BOOLEAN, NEW m, Holds(x, packed, m),
         NEW v, \A k \in Places : v[k] = -m[k]
  PROVE  /\ Holds(EvalNegate(x), packed, v)
         /\ EvalNegate(x).level = x.level /\ EvalNegate(x).scale = x.scale
<1> DEFINE f == [i \in 1..Slots |-> -x.slots[i][1]]
           g == [i \in 1..Slots |-> -x.slots[i][2]]
           slots == [i \in 1..Slots |-> <<-x.slots[i][1], -x.slots[i][2]>>]
<1>1. HasData(x) /\ x # NoData
  BY HasDataIsSome DEF Holds
<1>2. EvalNegate(x) = Data(x.level, x.scale, slots)
  BY <1>1 DEF EvalNegate, HasData, Data
<1>3. \A i \in 1..Slots : x.slots[i][1] \in Int /\ x.slots[i][2] \in Int
  BY PairParts DEF Holds
<1>4. ArePairs(slots)
  BY <1>3 DEF ArePairs
<1>5. \A i \in 1..Slots : slots[i][1] = -x.slots[i][1] /\ slots[i][2] = -x.slots[i][2]
  OBVIOUS
<1> HIDE DEF slots
<1>6. ASSUME NEW k \in Places PROVE Number(slots, packed, k) = v[k]
  <2>1. Number(slots, packed, k) = -Number(x.slots, packed, k)
    BY <1>5, PlaceSlots DEF Number
  <2>2. QED BY <2>1 DEF Holds
<1>7. ~packed => \A i \in 1..Slots : slots[i][2] = 0
  BY <1>5 DEF Holds
<1>8. QED BY <1>1, <1>2, <1>4, <1>6, <1>7, DataHolds DEF HasData

LEMMA AddHolds ==
  ASSUME BatchesFit, NEW x, NEW y, NEW packed \in BOOLEAN, NEW m, Holds(x, packed, m),
         NEW n, Holds(y, packed, n), NEW v, \A k \in Places : v[k] = m[k] + n[k],
         EvalAdd(x, y) # Thrown
  PROVE  /\ Holds(EvalAdd(x, y), packed, v)
         /\ EvalAdd(x, y).level = x.level /\ EvalAdd(x, y).scale = x.scale
<1> DEFINE slots == Slotwise(ComplexSum, x.slots, y.slots)
<1>1. HasData(x)
  BY DEF Holds
<1>2. EvalAdd(x, y) = Data(x.level, x.scale, slots)
  BY <1>1 DEF EvalAdd, HasData, Data
<1>3. \A i \in 1..Slots : /\ x.slots[i][1] \in Int /\ x.slots[i][2] \in Int
                          /\ y.slots[i][1] \in Int /\ y.slots[i][2] \in Int
  BY PairParts DEF Holds
<1>4. slots = [i \in 1..Slots |-> <<x.slots[i][1] + y.slots[i][1], x.slots[i][2] + y.slots[i][2]>>]
  BY DEF Slotwise, ComplexSum
<1> HIDE DEF slots
<1>5. ArePairs(slots)
  BY <1>3, <1>4 DEF ArePairs
<1>6. \A i \in 1..Slots : /\ slots[i][1] = x.slots[i][1] + y.slots[i][1]
                          /\ slots[i][2] = x.slots[i][2] + y.slots[i][2]
  BY <1>4
<1>7. ASSUME NEW k \in Places PROVE Number(slots, packed, k) = v[k]
  <2>1. Number(slots, packed, k) = Number(x.slots, packed, k) + Number(y.slots, packed, k)
    BY <1>6, PlaceSlots DEF Number
  <2>2. QED BY <2>1 DEF Holds
<1>8. ~packed => \A i \in 1..Slots : slots[i][2] = 0
  BY <1>6 DEF Holds
<1>9. QED BY <1>1, <1>2, <1>5, <1>7, <1>8, DataHolds DEF HasData

LEMMA SubHolds ==
  ASSUME BatchesFit, NEW x, NEW y, NEW packed \in BOOLEAN, NEW m, Holds(x, packed, m),
         NEW n, Holds(y, packed, n), IsBatch(m), IsBatch(n),
         NEW v, \A k \in Places : v[k] = m[k] - n[k],
         EvalSub(x, y) # Thrown
  PROVE  /\ Holds(EvalSub(x, y), packed, v)
         /\ EvalSub(x, y).level = x.level /\ EvalSub(x, y).scale = x.scale
<1> DEFINE w == [k \in Places |-> -n[k]]
<1>1. EvalSub(x, y) = EvalAdd(x, EvalNegate(y))
  BY DEF EvalSub
<1>2. \A k \in Places : w[k] = -n[k] /\ v[k] = m[k] + w[k]
  BY DEF IsBatch
<1> HIDE DEF w
<1>3. Holds(EvalNegate(y), packed, w)
  BY <1>2, NegateHolds
<1>4. QED BY <1>1, <1>2, <1>3, AddHolds

\* Products of slots are those of the numbers where imaginary parts are zero.
LEMMA MultiplyHolds ==
  ASSUME BatchesFit, NEW x, NEW y, NEW packed \in BOOLEAN, ~packed, NEW m, Holds(x, packed, m),
         NEW n, Holds(y, packed, n),
         NEW v, \A k \in Places : v[k] = m[k] * n[k], EvalMultiply(x, y) # Thrown
  PROVE  /\ Holds(EvalMultiply(x, y), packed, v)
         /\ EvalMultiply(x, y).level = x.level /\ EvalMultiply(x, y).scale = x.scale + y.scale
<1> DEFINE slots == Slotwise(ComplexProduct, x.slots, y.slots)
<1>1. HasData(x)
  BY DEF Holds
<1>2. EvalMultiply(x, y) = Data(x.level, x.scale + y.scale, slots)
  BY DEF EvalMultiply
<1>3. \A i \in 1..Slots : /\ x.slots[i][1] \in Int /\ x.slots[i][2] = 0
                          /\ y.slots[i][1] \in Int /\ y.slots[i][2] = 0
  BY PairParts DEF Holds
<1>4. slots = [i \in 1..Slots |->
                 <<x.slots[i][1] * y.slots[i][1] - x.slots[i][2] * y.slots[i][2],
                   x.slots[i][1] * y.slots[i][2] + x.slots[i][2] * y.slots[i][1]>>]
  BY DEF Slotwise, ComplexProduct
<1> HIDE DEF slots
<1>5. \A a, b \in Int : a * b - 0 * 0 = a * b /\ a * 0 + 0 * b = 0 /\ a * b \in Int
  OBVIOUS
<1>6. ASSUME NEW i \in 1..Slots
      PROVE  /\ slots[i][1] = x.slots[i][1] * y.slots[i][1] /\ slots[i][2] = 0
             /\ slots[i] \in Int \X Int
  <2>1. slots[i] = <<x.slots[i][1] * y.slots[i][1] - 0 * 0,
                     x.slots[i][1] * 0 + 0 * y.slots[i][1]>>
    BY <1>3, <1>4
  <2>2. slots[i] = <<x.slots[i][1] * y.slots[i][1], 0>> /\ x.slots[i][1] * y.slots[i][1] \in Int
    BY <1>3, <1>5, <2>1
  <2>3. QED BY <2>2
<1>7. ArePairs(slots)
  BY <1>4, <1>6 DEF ArePairs
<1>8. ASSUME NEW k \in Places PROVE Number(slots, packed, k) = v[k]
  BY <1>6, PlaceSlots DEF Number, Holds
<1>9. QED BY <1>1, <1>2, <1>6, <1>7, <1>8, DataHolds DEF HasData

LEMMA AddPlainHolds ==
  ASSUME BatchesFit, NEW x, NEW packed \in BOOLEAN, ~packed, NEW m, Holds(x, packed, m), NEW a \in Int,
         NEW v, \A k \in Places : v[k] = m[k] + a, AddPlain(x, a) # Thrown
  PROVE  /\ Holds(AddPlain(x, a), packed, v)
         /\ AddPlain(x, a).level = x.level /\ AddPlain(x, a).scale = x.scale
<1> DEFINE slots == [i \in 1..Slots |-> ComplexSum(x.slots[i], <<a, 0>>)]
<1>1. HasData(x)
  BY DEF Holds
<1>2. AddPlain(x, a) = Data(x.level, x.scale, slots)
  BY <1>1 DEF AddPlain, HasData, Data
<1>3. \A i \in 1..Slots : x.slots[i][1] \in Int /\ x.slots[i][2] = 0
  BY PairParts DEF Holds
<1>4. slots = [i \in 1..Slots |-> <<x.slots[i][1] + a, 0>>]
  BY <1>3 DEF ComplexSum
<1> HIDE DEF slots
<1>5. ArePairs(slots)
  BY <1>3, <1>4 DEF ArePairs
<1>6. \A i \in 1..Slots : slots[i][1] = x.slots[i][1] + a /\ slots[i][2] = 0
  BY <1>4
<1>7. ASSUME NEW k \in Places PROVE Number(slots, packed, k) = v[k]
  BY <1>6, PlaceSlots DEF Number, Holds
<1>8. QED BY <1>1, <1>2, <1>5, <1>6, <1>7, DataHolds DEF HasData

\* A real number multiplies both parts of a slot.
LEMMA MultiplyPlainHolds ==
  ASSUME BatchesFit, NEW x, NEW packed \in BOOLEAN, NEW m, Holds(x, packed, m), NEW a \in Int,
         NEW v, \A k \in Places : v[k] = m[k] * a, MultiplyPlain(x, a) # Thrown
  PROVE  /\ Holds(MultiplyPlain(x, a), packed, v)
         /\ MultiplyPlain(x, a).level = x.level /\ MultiplyPlain(x, a).scale = 2 * x.scale
<1> DEFINE slots == [i \in 1..Slots |-> ComplexProduct(x.slots[i], <<a, 0>>)]
<1>1. HasData(x)
  BY DEF Holds
<1>2. MultiplyPlain(x, a) = Data(x.level, 2 * x.scale, slots)
  BY DEF MultiplyPlain
<1>3. \A i \in 1..Slots : x.slots[i][1] \in Int /\ x.slots[i][2] \in Int
  BY PairParts DEF Holds
<1>4. slots = [i \in 1..Slots |-> <<x.slots[i][1] * a - x.slots[i][2] * 0,
                                    x.slots[i][1] * 0 + x.slots[i][2] * a>>]
  BY DEF ComplexProduct
<1> HIDE DEF slots
<1>5. \A b, c \in Int : b * a - c * 0 = b * a /\ b * 0 + c * a = c * a /\ b * a \in Int
  OBVIOUS
<1>6. ASSUME NEW i \in 1..Slots
      PROVE  /\ slots[i][1] = x.slots[i][1] * a /\ slots[i][2] = x.slots[i][2] * a
             /\ slots[i] \in Int \X Int
  <2>1. slots[i] = <<x.slots[i][1] * a - x.slots[i][2] * 0, x.slots[i][1] * 0 + x.slots[i][2] * a>>
    BY <1>4
  <2>2. /\ slots[i] = <<x.slots[i][1] * a, x.slots[i][2] * a>>
        /\ x.slots[i][1] * a \in Int /\ x.slots[i][2] * a \in Int
    BY <1>3, <1>5, <2>1
  <2>3. QED BY <2>2
<1>7. ArePairs(slots)
  BY <1>4, <1>6 DEF ArePairs
<1>8. ASSUME NEW k \in Places PROVE Number(slots, packed, k) = v[k]
  <2>1. Number(slots, packed, k) = Number(x.slots, packed, k) * a
    BY <1>6, PlaceSlots DEF Number
  <2>2. QED BY <2>1 DEF Holds
<1>9. ~packed => \A i \in 1..Slots : slots[i][2] = 0
  <2>1. 0 * a = 0
    OBVIOUS
  <2>2. QED BY <1>6, <2>1 DEF Holds
<1>10. QED BY <1>1, <1>2, <1>7, <1>8, <1>9, DataHolds DEF HasData

-----------------------------------------------------------------------------
(* Levels and scales.                                                      *)

LEMMA LargerType ==
  ASSUME NEW a \in Nat, NEW b \in Nat
  PROVE  Larger(a, b) \in Nat /\ Larger(a, b) >= a /\ Larger(a, b) >= b
BY DEF Larger

LEMMA PaidMore ==
  ASSUME NEW d, HasData(d), NEW a \in Nat, NEW b \in Nat, a <= b, Paid(d, a)
  PROVE  Paid(d, b)
BY LevelsInt, ScaleType DEF Paid, HasData, Levels

LEMMA LoweredToPaid ==
  ASSUME NEW x, HasData(x), NEW y, HasData(y), x.scale = y.scale, LoweredTo(x, y) # Thrown
  PROVE  LoweredTo(x, y).scale = x.scale /\ LoweredTo(x, y).level = y.level
<1>1. LoweredTo(x, y) = ModSwitchTo(x, y.level) /\ ModSwitchTo(x, y.level) # Thrown
  BY DEF LoweredTo, WithinRescaleTolerance
<1>2. ModSwitchTo(x, y.level) = [x EXCEPT !.level = y.level]
  BY <1>1 DEF ModSwitchTo
<1>3. [x EXCEPT !.level = y.level] = Data(y.level, x.scale, x.slots)
  BY DEF HasData, Data
<1>4. QED BY <1>1, <1>2, <1>3 DEF Data

\* Of two that have paid, both have paid after matching what either had.
LEMMA MatchPaid ==
  ASSUME NEW x, HasData(x), NEW a \in Nat, Paid(x, a), NEW y, HasData(y), NEW b \in Nat, Paid(y, b),
         MatchModulusAndScale(x, y) # Thrown
  PROVE  LET m == MatchModulusAndScale(x, y)
         IN  /\ m = <<m[1], m[2]>>
             /\ HasData(m[1]) /\ m[1].slots = x.slots /\ Paid(m[1], Larger(a, b))
             /\ HasData(m[2]) /\ m[2].slots = y.slots /\ Paid(m[2], Larger(a, b))
             /\ m[1].level = m[2].level
<1> DEFINE m == MatchModulusAndScale(x, y)
           lx == IF x.level > y.level THEN LoweredTo(x, y) ELSE x
           ly == IF x.level < y.level THEN LoweredTo(y, x) ELSE y
<1>1. x.level \in Int /\ y.level \in Int /\ x.scale = Scale /\ y.scale = Scale /\ Top \in Nat
  BY ScaleType, DataLevel DEF IsData, Paid
<1>2. m = <<lx, ly>> /\ lx # Thrown /\ ly # Thrown
  BY DEF MatchModulusAndScale
<1>3. HasData(lx) /\ HasData(ly) /\ lx.slots = x.slots /\ ly.slots = y.slots
  BY <1>2, LoweredToKeeps
<1>4. lx.scale = Scale /\ lx.level = (IF x.level > y.level THEN y.level ELSE x.level)
  BY <1>1, <1>2, LoweredToPaid
<1>5. ly.scale = Scale /\ ly.level = (IF x.level < y.level THEN x.level ELSE y.level)
  BY <1>1, <1>2, LoweredToPaid
<1> HIDE DEF lx, ly, m
<1>6. x.level >= Top - a /\ y.level >= Top - b /\ Larger(a, b) \in Nat /\ Larger(a, b) >= a /\ Larger(a, b) >= b
  BY LargerType DEF Paid
<1>7. lx.level >= Top - Larger(a, b) /\ ly.level >= Top - Larger(a, b) /\ lx.level = ly.level
  BY <1>1, <1>4, <1>5, <1>6
<1>8. Paid(lx, Larger(a, b)) /\ Paid(ly, Larger(a, b))
  BY <1>4, <1>5, <1>7 DEF Paid
<1>9. m[1] = lx /\ m[2] = ly
  BY <1>2
<1>10. QED BY <1>2, <1>3, <1>7, <1>8, <1>9 DEF m

\* A rescaling costs one level and brings the square of the scale back to the scale.
LEMMA RescaleHolds ==
  ASSUME EqualPrimes, NEW d, NEW packed \in BOOLEAN, NEW m, Holds(d, packed, m),
         d.scale = 2 * Scale, NEW n \in Nat, d.level >= Top - n, d.level # 0
  PROVE  Holds(RescaleToNext(d), packed, m) /\ Paid(RescaleToNext(d), n + 1)
<1>1. HasData(d) /\ d # NoData /\ d.level \in Levels /\ d.level \in Int
  BY LevelsInt, HasDataIsSome DEF Holds, HasData
<1>2. HasData(RescaleToNext(d))
  BY <1>1, RescaleToNextHas
<1> DEFINE s == d.scale - (TotalBits[d.level] - TotalBits[d.level - 1])
<1>3. RescaleToNext(d) = Data(d.level - 1, s, d.slots)
  BY <1>1, Zenon DEF RescaleToNext, RescaleTo
<1>4. s = Scale
  BY <1>1, OnePrime, ScaleType
<1> HIDE DEF s
<1>5. /\ RescaleToNext(d).slots = d.slots /\ RescaleToNext(d).level = d.level - 1
      /\ RescaleToNext(d).scale = Scale
  BY <1>3, <1>4 DEF Data
<1>6. Paid(RescaleToNext(d), n + 1)
  BY <1>1, <1>5, ScaleType DEF Paid
<1>7. QED BY <1>2, <1>5, <1>6, SlotsHeld

-----------------------------------------------------------------------------
(* The kernels on ciphertexts.                                             *)

\* A new ciphertext with this data.
LEMMA NewCipherData ==
  ASSUME NEW d, NEW packed \in BOOLEAN, NEW m, Holds(d, packed, m), NEW n, Paid(d, n)
  PROVE  CipherSound([zero |-> FALSE, packed |-> packed, data |-> d], m, n)
<1> DEFINE c == [zero |-> FALSE, packed |-> packed, data |-> d]
<1>1. c.data = d /\ c.packed = packed /\ c.zero = FALSE
  OBVIOUS
<1>2. c = [zero |-> c.zero, packed |-> c.packed, data |-> c.data]
  OBVIOUS
<1> HIDE DEF c
<1>3. IsCipher(c)
  BY <1>1, <1>2 DEF IsCipher, IsData, Holds
<1>4. CipherSound(c, m, n)
  BY <1>1, <1>3 DEF CipherSound
<1>5. QED BY <1>4 DEF c

LEMMA NewZero ==
  ASSUME NEW m, \A k \in Places : m[k] = 0, NEW n
  PROVE  CipherSound(ZeroOut(NewCipher), m, n) /\ ZeroOut(NewCipher).packed = FALSE
<1> DEFINE c == ZeroOut(NewCipher)
<1>1. c.zero = TRUE /\ c.packed = FALSE
  BY DEF ZeroOut, NewCipher
<1>2. IsCipher(c)
  BY NewIsCipher, NonZeroCipher
<1> HIDE DEF c
<1>3. CipherSound(c, m, n)
  BY <1>1, <1>2 DEF CipherSound
<1>4. QED BY <1>1, <1>3 DEF c

LEMMA SoundMore ==
  ASSUME NEW c, NEW m, NEW a \in Nat, CipherSound(c, m, a), NEW b \in Nat, a <= b
  PROVE  CipherSound(c, m, b)
BY PaidMore DEF CipherSound, Holds

\* The same batch.
LEMMA SoundSame ==
  ASSUME NEW c, NEW m, NEW n, CipherSound(c, m, n), NEW v, \A k \in Places : v[k] = m[k]
  PROVE  CipherSound(c, v, n)
BY DEF CipherSound, Holds

\* A ciphertext whose data has been matched.
LEMMA MatchedSound ==
  ASSUME NEW c, NEW m, NEW n, CipherSound(c, m, n), ~c.zero,
         NEW d, HasData(d), d.slots = c.data.slots, NEW l, Paid(d, l)
  PROVE  CipherSound([c EXCEPT !.data = d], m, l)
<1> DEFINE e == [c EXCEPT !.data = d]
<1>1. e.zero = c.zero /\ e.packed = c.packed /\ e.data = d
  BY DEF CipherSound, IsCipher
<1>2. IsCipher(e)
  BY DataCipher DEF CipherSound, IsData
<1>3. Holds(d, c.packed, m) /\ c.packed \in BOOLEAN
  BY SlotsHeld DEF CipherSound
<1> HIDE DEF e
<1>4. CipherSound(e, m, l)
  BY <1>1, <1>2, <1>3 DEF CipherSound
<1>5. QED BY <1>4 DEF e

\* What a kernel on two ciphertexts leaves of them, and its result.
SoundResults(r, m, n, v, l, result) ==
  CipherSound(r[1], m, l) /\ CipherSound(r[2], n, l) /\ CipherSound(r[3], v, result)

LEMMA AddCCSound ==
  ASSUME BatchesFit, NEW a, NEW m, NEW p \in Nat, CipherSound(a, m, p), IsBatch(m),
         NEW b, NEW n, NEW q \in Nat, CipherSound(b, n, q), IsBatch(n),
         NEW v, \A k \in Places : v[k] = m[k] + n[k], AddCC(a, b, NewCipher) # Thrown
  PROVE  SoundResults(AddCC(a, b, NewCipher), m, n, v, Larger(p, q), Larger(p, q))
<1> DEFINE l == Larger(p, q)
           r == AddCC(a, b, NewCipher)
<1>1. l \in Nat /\ l >= p /\ l >= q /\ CipherSound(a, m, l) /\ CipherSound(b, n, l)
  BY LargerType, SoundMore
<1>2. \A k \in Places : m[k] \in Int /\ n[k] \in Int
  BY DEF IsBatch
<1>3. CASE a.zero /\ b.zero
  <2>1. r = <<a, b, ZeroOut(NewCipher)>>
    BY <1>3 DEF AddCC
  <2>2. \A k \in Places : v[k] = 0
    BY <1>3 DEF CipherSound
  <2>3. CipherSound(ZeroOut(NewCipher), v, l)
    BY <2>2, NewZero
  <2>4. QED BY <1>1, <2>1, <2>3 DEF SoundResults
<1>4. CASE a.zero /\ ~b.zero
  <2>1. r = <<a, b, b>>
    BY <1>4 DEF AddCC
  <2>2. \A k \in Places : v[k] = n[k]
    BY <1>2, <1>4 DEF CipherSound
  <2>3. QED BY <1>1, <2>1, <2>2, SoundSame DEF SoundResults
<1>5. CASE ~a.zero /\ b.zero
  <2>1. r = <<a, b, a>>
    BY <1>5 DEF AddCC
  <2>2. \A k \in Places : v[k] = m[k]
    BY <1>2, <1>5 DEF CipherSound
  <2>3. QED BY <1>1, <2>1, <2>2, SoundSame DEF SoundResults
<1>6. CASE ~a.zero /\ ~b.zero
  <2> DEFINE t == MatchModulusAndScale(a.data, b.data)
             d == EvalAdd(t[1], t[2])
  <2>1. a.packed = b.packed /\ t # Thrown /\ r = AddMatched(a, b, t, NewCipher)
    BY <1>6 DEF AddCC, Then
  <2>2. /\ r = <<[a EXCEPT !.data = t[1]], [b EXCEPT !.data = t[2]],
                 [zero |-> FALSE, packed |-> b.packed, data |-> d]>>
        /\ d # Thrown
    BY <2>1 DEF AddMatched, Then
  <2>3. /\ Holds(a.data, b.packed, m) /\ Paid(a.data, p) /\ HasData(a.data)
        /\ Holds(b.data, b.packed, n) /\ Paid(b.data, q) /\ HasData(b.data) /\ b.packed \in BOOLEAN
    BY <1>6, <2>1 DEF CipherSound, Holds
  <2>4. /\ HasData(t[1]) /\ t[1].slots = a.data.slots /\ Paid(t[1], l)
        /\ HasData(t[2]) /\ t[2].slots = b.data.slots /\ Paid(t[2], l)
    BY <2>1, <2>3, MatchPaid
  <2> HIDE DEF t, l
  <2>5. Holds(t[1], b.packed, m) /\ Holds(t[2], b.packed, n)
    BY <2>3, <2>4, SlotsHeld
  <2>6. Holds(d, b.packed, v) /\ Paid(d, l)
    BY <2>2, <2>3, <2>4, <2>5, AddHolds DEF Paid
  <2> HIDE DEF d
  <2>7. CipherSound([zero |-> FALSE, packed |-> b.packed, data |-> d], v, l)
    BY <2>3, <2>6, NewCipherData
  <2>8. CipherSound([a EXCEPT !.data = t[1]], m, l) /\ CipherSound([b EXCEPT !.data = t[2]], n, l)
    BY <1>6, <2>4, MatchedSound
  <2>9. QED BY <2>2, <2>7, <2>8 DEF SoundResults, l
<1>7. QED BY <1>3, <1>4, <1>5, <1>6

\* Products of known zeros are zero.
LEMMA ZeroTimes == \A a \in Int : 0 * a = 0 /\ a * 0 = 0
OBVIOUS

LEMMA MultiplyCCSound ==
  ASSUME BatchesFit, EqualPrimes,
         NEW a, NEW m, NEW p \in Nat, CipherSound(a, m, p), IsBatch(m), ~a.packed,
         NEW b, NEW n, NEW q \in Nat, CipherSound(b, n, q), IsBatch(n), ~b.packed,
         NEW v, \A k \in Places : v[k] = m[k] * n[k], MultiplyCC(a, b, NewCipher) # Thrown
  PROVE  SoundResults(MultiplyCC(a, b, NewCipher), m, n, v, Larger(p, q), Larger(p, q) + 1)
<1> DEFINE l == Larger(p, q)
           r == MultiplyCC(a, b, NewCipher)
<1>1. l \in Nat /\ l >= p /\ l >= q /\ CipherSound(a, m, l) /\ CipherSound(b, n, l)
  BY LargerType, SoundMore
<1>2. \A k \in Places : m[k] \in Int /\ n[k] \in Int
  BY DEF IsBatch
<1>3. CASE a.zero \/ b.zero
  <2>1. r = <<a, b, ZeroOut(NewCipher)>>
    BY <1>3 DEF MultiplyCC
  <2>2. \A k \in Places : v[k] = 0
    BY <1>2, <1>3, ZeroTimes DEF CipherSound
  <2>3. CipherSound(ZeroOut(NewCipher), v, l + 1)
    BY <2>2, NewZero
  <2>4. QED BY <1>1, <2>1, <2>3 DEF SoundResults
<1>4. CASE ~a.zero /\ ~b.zero
  <2> DEFINE t == MatchModulusAndScale(a.data, b.data)
             d == EvalMultiply(t[1], t[2])
             c == [NonZeroOut(NewCipher) EXCEPT !.data = RescaleToNext(d)]
  <2>1. t # Thrown /\ r = MultiplyMatched(a, b, t, NewCipher)
    BY <1>4 DEF MultiplyCC, Then
  <2>2. /\ r = <<[a EXCEPT !.data = t[1]], [b EXCEPT !.data = t[2]], c>>
        /\ d # Thrown /\ t[1].level # 0
    BY <2>1 DEF MultiplyMatched, Then
  <2> DEFINE packed == a.packed
  <2>3. packed \in BOOLEAN /\ ~packed /\ b.packed = packed
    BY DEF CipherSound
  <2>4. /\ Holds(a.data, packed, m) /\ Paid(a.data, p) /\ HasData(a.data)
        /\ Holds(b.data, packed, n) /\ Paid(b.data, q) /\ HasData(b.data)
    BY <1>4, <2>3 DEF CipherSound, Holds
  <2>5. /\ HasData(t[1]) /\ t[1].slots = a.data.slots /\ Paid(t[1], l)
        /\ HasData(t[2]) /\ t[2].slots = b.data.slots /\ Paid(t[2], l)
    BY <2>1, <2>4, MatchPaid
  <2> HIDE DEF t, l, packed, c
  <2>6. Holds(t[1], packed, m) /\ Holds(t[2], packed, n)
    BY <2>3, <2>4, <2>5, SlotsHeld
  <2>7. Holds(d, packed, v) /\ d.level = t[1].level /\ d.scale = t[1].scale + t[2].scale
    BY <2>2, <2>3, <2>6, MultiplyHolds
  <2> HIDE DEF d
  <2>8. d.scale = 2 * Scale /\ d.level >= Top - l
    BY <2>5, <2>7, ScaleType DEF Paid
  <2>9. Holds(RescaleToNext(d), packed, v) /\ Paid(RescaleToNext(d), l + 1)
    BY <1>1, <2>2, <2>3, <2>7, <2>8, RescaleHolds
  <2>10. c.zero = FALSE /\ c.packed = FALSE /\ c.data = RescaleToNext(d) /\ IsCipher(c)
    <3>1. IsCipher(NonZeroOut(NewCipher))
      BY NewIsCipher, NonZeroCipher
    <3>2. IsCipher(c)
      BY <2>9, <3>1, DataCipher DEF c, Holds, IsData
    <3>3. QED BY <3>2 DEF c, NonZeroOut, NewCipher
  <2>11. c.packed = packed
    BY <2>3, <2>10
  <2>12. CipherSound(c, v, l + 1)
    BY <2>3, <2>9, <2>10, <2>11 DEF CipherSound
  <2>13. CipherSound([a EXCEPT !.data = t[1]], m, l) /\ CipherSound([b EXCEPT !.data = t[2]], n, l)
    BY <1>4, <2>5, MatchedSound
  <2>14. QED BY <2>2, <2>12, <2>13 DEF SoundResults, l
<1>5. QED BY <1>3, <1>4

\* Data in an empty ciphertext.
LEMMA FreshSound ==
  ASSUME NEW packed \in BOOLEAN, ~packed, NEW d, NEW m, Holds(d, packed, m), NEW n, Paid(d, n)
  PROVE  LET c == Assigned(NewCipher, d)
         IN  /\ c # Thrown /\ c.zero = FALSE /\ c.packed = FALSE /\ c.data = d
             /\ CipherSound(c, m, n) /\ CipherSound(NonZeroOut(c), m, n)
             /\ NonZeroOut(c).zero = FALSE /\ NonZeroOut(c).packed = FALSE /\ NonZeroOut(c).data = d
<1> DEFINE c == Assigned(NewCipher, d)
           e == NonZeroOut(c)
<1>1. HasData(d) /\ d # Thrown
  BY DataIsSome DEF Holds, HasData
<1>2. c = [NewCipher EXCEPT !.data = d]
  BY <1>1 DEF Assigned
<1>3. IsCipher(c)
  BY <1>1, <1>2, DataCipher, NewIsCipher DEF IsData
<1>4. c.zero = FALSE /\ c.packed = FALSE /\ c.data = d
  BY <1>2 DEF NewCipher
<1>5. c # Thrown
  <2>1. "data" \in DOMAIN c /\ DOMAIN Thrown = {"thrown"}
    BY <1>3 DEF IsCipher, Thrown
  <2>2. QED BY <2>1
<1>6. e = [c EXCEPT !.zero = FALSE] /\ IsCipher(e)
  BY <1>3, NonZeroCipher DEF NonZeroOut
<1> HIDE DEF c
<1>7. e.zero = FALSE /\ e.packed = FALSE /\ e.data = d
  BY <1>3, <1>4, <1>6 DEF IsCipher
<1> HIDE DEF e
<1>8. c.packed = packed /\ e.packed = packed
  BY <1>4, <1>7
<1>9. CipherSound(c, m, n) /\ CipherSound(e, m, n)
  BY <1>3, <1>4, <1>6, <1>7, <1>8 DEF CipherSound
<1>10. QED BY <1>4, <1>5, <1>7, <1>9 DEF c, e

\* What is not a known zero stays the same when its flag is cleared.
LEMMA NonZeroSame ==
  ASSUME NEW c, NEW m, NEW n, CipherSound(c, m, n), ~c.zero
  PROVE  CipherSound(NonZeroOut(c), m, n) /\ NonZeroOut(c).packed = c.packed
<1> DEFINE e == NonZeroOut(c)
<1>1. c.zero = FALSE
  BY DEF CipherSound
<1>2. e.zero = c.zero /\ e.packed = c.packed /\ e.data = c.data
  BY <1>1 DEF CipherSound, IsCipher, NonZeroOut
<1>3. IsCipher(e)
  BY NonZeroCipher DEF CipherSound
<1> HIDE DEF e
<1>4. CipherSound(e, m, n)
  BY <1>2, <1>3 DEF CipherSound
<1>5. QED BY <1>2, <1>4 DEF e

LEMMA NegateCSound ==
  ASSUME BatchesFit, NEW a, NEW m, NEW n, CipherSound(a, m, n), IsBatch(m), ~a.packed,
         NEW v, \A k \in Places : v[k] = -m[k], NegateC(a, NewCipher) # Thrown
  PROVE  LET c == NegateC(a, NewCipher)
         IN  CipherSound(c, v, n) /\ ~c.packed /\ (c.zero <=> a.zero)
<1>1. CASE a.zero
  <2>1. \A k \in Places : v[k] = 0
    BY <1>1 DEF CipherSound
  <2>2. NegateC(a, NewCipher) = ZeroOut(NewCipher)
    BY <1>1 DEF NegateC
  <2>3. ZeroOut(NewCipher).zero = TRUE
    BY DEF ZeroOut, NewCipher
  <2>4. QED BY <1>1, <2>1, <2>2, <2>3, NewZero
<1>2. CASE ~a.zero
  <2> DEFINE packed == a.packed
             d == EvalNegate(a.data)
  <2>1. packed \in BOOLEAN /\ ~packed /\ Holds(a.data, packed, m) /\ Paid(a.data, n)
    BY <1>2 DEF CipherSound
  <2> HIDE DEF packed
  <2>2. Holds(d, packed, v) /\ Paid(d, n)
    BY <2>1, NegateHolds DEF Paid
  <2>3. NegateC(a, NewCipher) = Assigned(NewCipher, d)
    BY <1>2 DEF NegateC
  <2> HIDE DEF d
  <2>4. QED BY <1>2, <2>1, <2>2, <2>3, FreshSound
<1>3. QED BY <1>1, <1>2

LEMMA SubCCSound ==
  ASSUME BatchesFit, NEW a, NEW m, NEW p \in Nat, CipherSound(a, m, p), IsBatch(m), ~a.packed,
         NEW b, NEW n, NEW q \in Nat, CipherSound(b, n, q), IsBatch(n), ~b.packed,
         NEW v, \A k \in Places : v[k] = m[k] - n[k], SubCC(a, b, NewCipher) # Thrown
  PROVE  CipherSound(SubCC(a, b, NewCipher), v, Larger(p, q))
<1> DEFINE l == Larger(p, q)
           r == SubCC(a, b, NewCipher)
           packed == a.packed
<1>1. l \in Nat /\ l >= p /\ l >= q /\ CipherSound(a, m, l) /\ CipherSound(b, n, l)
  BY LargerType, SoundMore
<1>2. \A k \in Places : m[k] \in Int /\ n[k] \in Int
  BY DEF IsBatch
<1>3. packed \in BOOLEAN /\ ~packed /\ b.packed = packed
  BY DEF CipherSound
<1>4. CASE a.zero /\ b.zero
  <2>1. r = ZeroOut(NewCipher)
    BY <1>4 DEF SubCC
  <2>2. \A k \in Places : v[k] = 0
    BY <1>4 DEF CipherSound
  <2>3. CipherSound(ZeroOut(NewCipher), v, l)
    BY <2>2, NewZero
  <2>4. QED BY <2>1, <2>3
<1>5. CASE a.zero /\ ~b.zero
  <2> DEFINE d == EvalNegate(b.data)
  <2>1. r = NonZeroOut(Assigned(NewCipher, d))
    BY <1>5 DEF SubCC, Then
  <2>2. Holds(b.data, packed, n) /\ Paid(b.data, l)
    BY <1>1, <1>3, <1>5 DEF CipherSound
  <2>3. \A k \in Places : v[k] = -n[k]
    BY <1>2, <1>5 DEF CipherSound
  <2> HIDE DEF packed, l
  <2>4. Holds(d, packed, v) /\ Paid(d, l)
    BY <1>3, <2>2, <2>3, NegateHolds DEF Paid
  <2> HIDE DEF d, r
  <2>5. CipherSound(r, v, l)
    BY <1>3, <2>1, <2>4, FreshSound
  <2>6. QED BY <2>5 DEF l, r
<1>6. CASE ~a.zero /\ b.zero
  <2>1. r = a
    BY <1>6 DEF SubCC
  <2>2. \A k \in Places : v[k] = m[k]
    BY <1>2, <1>6 DEF CipherSound
  <2>3. QED BY <1>1, <2>1, <2>2, SoundSame
<1>7. CASE ~a.zero /\ ~b.zero
  <2> DEFINE d == EvalSub(a.data, b.data)
  <2>1. d # Thrown /\ r = NonZeroOut(Assigned(NewCipher, d))
    BY <1>7 DEF SubCC, Then, Assigned
  <2>2. Holds(a.data, packed, m) /\ Holds(b.data, packed, n) /\ Paid(a.data, l)
    BY <1>1, <1>3, <1>7 DEF CipherSound
  <2> HIDE DEF packed, l
  <2>3. Holds(d, packed, v) /\ Paid(d, l)
    BY <1>3, <2>1, <2>2, SubHolds DEF Paid
  <2> HIDE DEF d, r
  <2>4. CipherSound(r, v, l)
    BY <1>3, <2>1, <2>3, FreshSound
  <2>5. QED BY <2>4 DEF l, r
<1>8. QED BY <1>4, <1>5, <1>6, <1>7

-----------------------------------------------------------------------------
(* The kernels on a ciphertext and values in the clear.                    *)

\* The test of the code for a plaintext that is zero, and that of encrypt.
LEMMA SingleZero ==
  ASSUME NEW p, p.values \in Seq(Int)
  PROVE  p.values = << 0 >> <=> IsSingle(p) /\ p.values[1] = 0
<1>1. p.values = << 0 >> => IsSingle(p) /\ p.values[1] = 0
  BY DEF IsSingle
<1>2. ASSUME IsSingle(p), p.values[1] = 0 PROVE p.values = << 0 >>
  <2>1. DOMAIN p.values = 1..1 /\ DOMAIN << 0 >> = 1..1
    BY <1>2 DEF IsSingle
  <2>2. QED BY <1>2, <2>1
<1>3. QED BY <1>1, <1>2

\* The value that is at a place of the batch is one of the values.
LEMMA PlaceIndex ==
  ASSUME NEW p, NEW m, Means(p, m), NEW k \in Places
  PROVE  (IF IsSingle(p) THEN 1 ELSE k) \in DOMAIN p.values
<1>1. Len(p.values) \in Nat /\ DOMAIN p.values = 1..Len(p.values)
  BY LenProperties DEF Means
<1>2. k \in Int /\ 1 <= k /\ k <= BatchSize /\ BatchSize \in Int
  BY SizesType DEF Places
<1>3. CASE IsSingle(p)
  BY <1>1, <1>3 DEF IsSingle
<1>4. CASE ~IsSingle(p)
  BY <1>1, <1>2, <1>4 DEF Means
<1>5. QED BY <1>3, <1>4

\* Values made of values, one of each.
LEMMA MappedMeans ==
  ASSUME NEW p, NEW m, Means(p, m), NEW q, q.values \in [DOMAIN p.values -> Int],
         NEW v, \A k \in Places : v[k] = q.values[IF IsSingle(p) THEN 1 ELSE k]
  PROVE  Means(q, v) /\ Len(q.values) = Len(p.values)
<1>1. p.values \in Seq(Int) /\ Len(p.values) \in Nat /\ DOMAIN p.values = 1..Len(p.values)
  BY LenProperties DEF Means
<1>2. q.values \in Seq(Int) /\ Len(q.values) = Len(p.values)
  BY <1>1
<1>4. ASSUME NEW k \in Places PROVE ValueAt(q, k) = v[k]
  <2> DEFINE i == IF IsSingle(p) THEN 1 ELSE k
  <2>1. i \in DOMAIN p.values
    BY PlaceIndex
  <2>2. ValueAt(q, k) = q.values[i]
    BY <1>2 DEF ValueAt, IsSingle
  <2>3. QED BY <2>1, <2>2
<1>5. QED BY <1>2, <1>4 DEF Means, IsSingle

LEMMA NegatePMeans ==
  ASSUME NEW p, NEW m, p = Plain(p.values, p.packed), Means(p, m), NEW v, \A k \in Places : v[k] = -m[k]
  PROVE  /\ PlainSound(NegateP(p), v)
         /\ Len(NegateP(p).values) = Len(p.values)
         /\ p.values # << 0 >> => NegateP(p).values # << 0 >>
<1> DEFINE g == [i \in DOMAIN p.values |-> -p.values[i]]
           q == NegateP(p)
<1>1. MapPlain(LAMBDA x : -x, p) = Plain(g, p.packed)
  BY DEF MapPlain, Plain
<1>2. q = [Plain(g, p.packed) EXCEPT !.packed = FALSE]
  BY <1>1, Zenon DEF NegateP
<1>3. p.values \in Seq(Int) /\ DOMAIN p.values = 1..Len(p.values) /\ Len(p.values) \in Nat
  BY LenProperties DEF Means
<1>4. g \in [DOMAIN p.values -> Int] /\ \A i \in DOMAIN p.values : g[i] = -p.values[i]
  BY <1>3
<1> HIDE DEF g
<1>5. q = Plain(g, FALSE)
  BY <1>2 DEF Plain
<1> HIDE DEF q
<1>6. q.values = g /\ q = Plain(q.values, FALSE)
  BY <1>5 DEF Plain
<1>7. \A k \in Places : v[k] = g[IF IsSingle(p) THEN 1 ELSE k]
  BY <1>4, PlaceIndex DEF Means, ValueAt
<1>8. Means(q, v) /\ Len(q.values) = Len(p.values)
  <2>1. q.values = g
    BY <1>6
  <2>2. QED BY <1>4, <1>7, <2>1, MappedMeans
<1>9. ASSUME q.values = << 0 >> PROVE p.values = << 0 >>
  <2>1. Len(p.values) = 1 /\ g[1] = 0
    BY <1>6, <1>8, <1>9
  <2>2. p.values[1] = 0
    BY <1>3, <1>4, <2>1
  <2>3. QED BY <1>3, <2>1, <2>2, SingleZero DEF IsSingle
<1>10. QED BY <1>6, <1>8, <1>9 DEF q, PlainSound

LEMMA MeansSame ==
  ASSUME NEW p, NEW m, Means(p, m), NEW v, \A k \in Places : v[k] = m[k]
  PROVE  Means(p, v)
BY DEF Means

\* Packing that is written again.
LEMMA PackedSame ==
  ASSUME NEW c, NEW m, NEW n, CipherSound(c, m, n), NEW packed, packed = c.packed
  PROVE  LET e == [c EXCEPT !.packed = packed]
         IN  CipherSound(e, m, n) /\ e.zero = c.zero /\ e.packed = c.packed /\ e.data = c.data
<1> DEFINE e == [c EXCEPT !.packed = packed]
<1>1. e.zero = c.zero /\ e.packed = c.packed /\ e.data = c.data
  BY DEF CipherSound, IsCipher
<1>2. IsCipher(e)
  BY PackedCipher DEF CipherSound
<1> HIDE DEF e
<1>3. CipherSound(e, m, n)
  BY <1>1, <1>2 DEF CipherSound
<1>4. QED BY <1>1, <1>3 DEF e

\* Encryption of what is not a single zero, with its flag cleared.
LEMMA EncryptNonZero ==
  ASSUME BatchesFit, NEW p, p.packed \in BOOLEAN, NEW m, Means(p, m), NEW n \in Nat,
         p.values # << 0 >>, Encrypt(NewCipher, p) # Thrown
  PROVE  LET c == NonZeroOut(Encrypt(NewCipher, p))
         IN  CipherSound(c, m, n) /\ c.packed = p.packed
<1> DEFINE c == Encrypt(NewCipher, p)
<1>1. CipherSound(c, m, n) /\ c.packed = p.packed /\ (c.zero <=> IsSingle(p) /\ p.values[1] = 0)
  BY EncryptSound
<1>2. ~c.zero
  BY <1>1, SingleZero DEF Means
<1> HIDE DEF c
<1>3. CipherSound(NonZeroOut(c), m, n) /\ NonZeroOut(c).packed = c.packed
  BY <1>1, <1>2, NonZeroSame
<1>4. QED BY <1>1, <1>3 DEF c

LEMMA AddCPSound ==
  ASSUME BatchesFit, NEW a, NEW m, NEW n \in Nat, CipherSound(a, m, n), IsBatch(m), ~a.packed,
         NEW p, NEW w, PlainSound(p, w), IsBatch(w), ~(a.zero /\ p.values = << 0 >>),
         NEW v, \A k \in Places : v[k] = m[k] + w[k], AddCP(a, p, NewCipher) # Thrown
  PROVE  CipherSound(AddCP(a, p, NewCipher), v, n)
<1>1. Means(p, w) /\ p.values \in Seq(Int) /\ p.packed \in BOOLEAN /\ ~p.packed
  <2>1. Plain(p.values, FALSE).packed = FALSE
    BY DEF Plain
  <2>2. QED BY <2>1 DEF PlainSound, Means
<1>2. \A k \in Places : m[k] \in Int /\ w[k] \in Int
  BY DEF IsBatch
<1>3. CASE a.zero
  <2>1. AddCP(a, p, NewCipher) = NonZeroOut(Encrypt(NewCipher, p)) /\ Encrypt(NewCipher, p) # Thrown
    BY <1>3 DEF AddCP, Then
  <2>2. \A k \in Places : v[k] = w[k]
    BY <1>2, <1>3 DEF CipherSound
  <2>3. Means(p, v)
    BY <1>1, <2>2, MeansSame
  <2>4. QED BY <1>1, <1>3, <2>1, <2>3, EncryptNonZero
<1>4. CASE ~a.zero /\ p.values = << 0 >>
  <2>1. AddCP(a, p, NewCipher) = a
    BY <1>4 DEF AddCP
  <2>2. IsSingle(p) /\ p.values[1] = 0
    BY <1>1, <1>4, SingleZero
  <2>3. \A k \in Places : v[k] = m[k]
    BY <1>1, <1>2, <2>2 DEF Means, ValueAt
  <2>4. QED BY <2>1, <2>3, SoundSame
<1> DEFINE packed == a.packed
<1>5. packed \in BOOLEAN /\ ~packed /\ (~a.zero => Holds(a.data, packed, m) /\ Paid(a.data, n))
  BY DEF CipherSound
<1>6. CASE ~a.zero /\ p.values # << 0 >> /\ IsSingle(p)
  <2> DEFINE x == p.values[1]
             d == AddPlain(a.data, x)
  <2>1. AddCP(a, p, NewCipher) = Assigned(NewCipher, d) /\ d # Thrown
    BY <1>6 DEF AddCP, Assigned
  <2>2. x \in Int /\ \A k \in Places : v[k] = m[k] + x
    BY <1>1, <1>6 DEF Means, ValueAt, IsSingle
  <2> HIDE DEF packed, x
  <2>3. Holds(d, packed, v) /\ d.level = a.data.level /\ d.scale = a.data.scale
    BY <1>5, <1>6, <2>1, <2>2, AddPlainHolds
  <2> HIDE DEF d
  <2>4. Paid(d, n)
    BY <1>5, <1>6, <2>3 DEF Paid
  <2>5. QED BY <1>5, <2>1, <2>3, <2>4, FreshSound
<1>7. CASE ~a.zero /\ p.values # << 0 >> /\ ~IsSingle(p)
  <2> DEFINE e == EncodeAt(p, a.data.level, a.data.scale)
             d == EvalAdd(a.data, e)
             c == Assigned(NewCipher, d)
  <2>1. AddCP(a, p, NewCipher) = [c EXCEPT !.packed = packed] /\ e # Thrown
    BY <1>7 DEF AddCP, Then
  <2>2. HasData(a.data) /\ a.data.level \in Levels
    BY <1>5, <1>7 DEF Holds, HasData
  <2>3. p.packed = packed
    BY <1>1, <1>5
  <2>4. Holds(e, p.packed, w) /\ e.level = a.data.level /\ e.scale = a.data.scale
    BY <1>1, <2>1, <2>2, EncodeHolds
  <2> HIDE DEF e, packed
  <2>5. d # Thrown
    BY <2>2, <2>4, EvalAddSome, HasDataIsSome DEF Holds
  <2>6. Holds(d, packed, v) /\ Paid(d, n)
    BY <1>5, <1>7, <2>3, <2>4, <2>5, AddHolds DEF Paid
  <2> HIDE DEF d
  <2>7. CipherSound(c, v, n) /\ c.packed = packed
    BY <1>5, <2>6, FreshSound
  <2> HIDE DEF c
  <2>8. QED BY <2>1, <2>7, PackedSame
<1>8. QED BY <1>3, <1>4, <1>6, <1>7

\* Values in the clear as an element has them.
LEMMA PlainParts ==
  ASSUME NEW p, NEW w, PlainSound(p, w)
  PROVE  /\ Means(p, w) /\ p.values \in Seq(Int) /\ p.packed \in BOOLEAN /\ ~p.packed
         /\ p = Plain(p.values, p.packed)
<1>1. Plain(p.values, FALSE).packed = FALSE
  BY DEF Plain
<1>2. p.packed = FALSE /\ p = Plain(p.values, FALSE)
  BY <1>1 DEF PlainSound
<1>3. QED BY <1>2 DEF PlainSound, Means

LEMMA SubCPSound ==
  ASSUME BatchesFit, NEW a, NEW m, NEW n \in Nat, CipherSound(a, m, n), IsBatch(m), ~a.packed,
         NEW p, NEW w, PlainSound(p, w), IsBatch(w), ~(a.zero /\ p.values = << 0 >>),
         NEW v, \A k \in Places : v[k] = m[k] - w[k], SubCP(a, p, NewCipher) # Thrown
  PROVE  CipherSound(SubCP(a, p, NewCipher), v, n)
<1>1. Means(p, w) /\ p.values \in Seq(Int) /\ p.packed \in BOOLEAN /\ ~p.packed
  BY PlainParts
<1>2. \A k \in Places : m[k] \in Int /\ w[k] \in Int
  BY DEF IsBatch
<1> DEFINE packed == a.packed
<1>3. packed \in BOOLEAN /\ ~packed /\ (~a.zero => Holds(a.data, packed, m) /\ Paid(a.data, n))
  BY DEF CipherSound
<1>4. CASE a.zero
  <2> DEFINE e == [NegateP(p) EXCEPT !.packed = packed]
  <2>1. SubCP(a, p, NewCipher) = NonZeroOut(Encrypt(NewCipher, e)) /\ Encrypt(NewCipher, e) # Thrown
    BY <1>4 DEF SubCP, Then
  <2>2. \A k \in Places : v[k] = -w[k]
    BY <1>2, <1>4 DEF CipherSound
  <2> HIDE DEF packed
  <2>3. p = Plain(p.values, p.packed)
    BY PlainParts
  <2>4. Means(e, v) /\ e.packed = packed /\ e.values # << 0 >>
    <3> DEFINE q == NegateP(p)
    <3>1. PlainSound(q, v) /\ q.values # << 0 >>
      BY <1>1, <1>4, <2>2, <2>3, NegatePMeans
    <3> HIDE DEF q
    <3>2. q = Plain(q.values, FALSE) /\ Means(q, v)
      BY <3>1 DEF PlainSound
    <3>3. e = Plain(q.values, packed)
      BY <3>2 DEF Plain, q
    <3> HIDE DEF e
    <3>4. e.packed = packed /\ e.values = q.values
      BY <3>3 DEF Plain
    <3>5. QED BY <3>1, <3>2, <3>4 DEF Means, ValueAt, IsSingle
  <2> HIDE DEF e
  <2>5. QED BY <1>3, <2>1, <2>4, EncryptNonZero
<1>5. CASE ~a.zero
  <2> DEFINE e == EncodeAt(p, a.data.level, a.data.scale)
             d == EvalSub(a.data, e)
             c == Assigned(NewCipher, d)
  <2>1. SubCP(a, p, NewCipher) = NonZeroOut(c) /\ e # Thrown
    BY <1>5 DEF SubCP, Then
  <2>2. HasData(a.data) /\ a.data.level \in Levels
    BY <1>3, <1>5 DEF Holds, HasData
  <2>3. p.packed = packed
    BY <1>1, <1>3
  <2>4. Holds(e, p.packed, w) /\ e.level = a.data.level /\ e.scale = a.data.scale
    BY <1>1, <2>1, <2>2, EncodeHolds
  <2> HIDE DEF e, packed
  <2>5. d # Thrown
    BY <2>2, <2>4, EvalSubSome DEF Holds
  <2>6. Holds(d, packed, v) /\ d.level = a.data.level /\ d.scale = a.data.scale
    BY <1>3, <1>5, <2>3, <2>4, <2>5, SubHolds
  <2> HIDE DEF d
  <2>7. Paid(d, n)
    BY <1>3, <1>5, <2>6 DEF Paid
  <2>8. QED BY <1>3, <2>1, <2>6, <2>7, FreshSound
<1>6. QED BY <1>4, <1>5

LEMMA SubPCSound ==
  ASSUME BatchesFit, NEW a, NEW m, NEW n \in Nat, CipherSound(a, m, n), IsBatch(m), ~a.packed,
         NEW p, NEW w, PlainSound(p, w), IsBatch(w), ~(a.zero /\ p.values = << 0 >>),
         NEW v, \A k \in Places : v[k] = w[k] - m[k], SubPC(p, a, NewCipher) # Thrown
  PROVE  CipherSound(SubPC(p, a, NewCipher), v, n)
<1>1. Means(p, w) /\ p.values \in Seq(Int) /\ p.packed \in BOOLEAN /\ ~p.packed
  BY PlainParts
<1>2. \A k \in Places : m[k] \in Int /\ w[k] \in Int
  BY DEF IsBatch
<1>3. CASE a.zero
  <2>1. SubPC(p, a, NewCipher) = NonZeroOut(Encrypt(NewCipher, p)) /\ Encrypt(NewCipher, p) # Thrown
    BY <1>3 DEF SubPC, Then
  <2>2. \A k \in Places : v[k] = w[k]
    BY <1>2, <1>3 DEF CipherSound
  <2>3. Means(p, v)
    BY <1>1, <2>2, MeansSame
  <2>4. QED BY <1>1, <1>3, <2>1, <2>3, EncryptNonZero
<1>4. CASE ~a.zero
  <2> DEFINE tmp == NegateC(a, NewCipher)
             u == [k \in Places |-> -m[k]]
  <2>1. SubPC(p, a, NewCipher) = AddCP(tmp, p, NewCipher) /\ tmp # Thrown
    BY <1>4 DEF SubPC, AddPC, Then
  <2>2. IsBatch(u) /\ \A k \in Places : u[k] = -m[k] /\ v[k] = u[k] + w[k]
    BY <1>2 DEF IsBatch
  <2> HIDE DEF u
  <2>3. CipherSound(tmp, u, n) /\ ~tmp.packed /\ ~tmp.zero
    BY <1>4, <2>1, <2>2, NegateCSound
  <2> HIDE DEF tmp
  <2>4. AddCP(tmp, p, NewCipher) # Thrown
    BY <2>1
  <2>5. CipherSound(AddCP(tmp, p, NewCipher), v, n)
    BY <2>2, <2>3, <2>4, AddCPSound
  <2>6. QED BY <2>1, <2>5
<1>5. QED BY <1>3, <1>4

\* A product with values is at the square of the scale until it is rescaled.
Unscaled(c, v, n) ==
  /\ IsCipher(c) /\ c.zero \in BOOLEAN /\ c.packed \in BOOLEAN
  /\ c.zero => \A k \in Places : v[k] = 0
  /\ ~c.zero => Holds(c.data, c.packed, v) /\ c.data.scale = 2 * Scale /\ c.data.level >= Top - n

LEMMA LazyRescalingSound ==
  ASSUME EqualPrimes, NEW c, NEW v, NEW n \in Nat, Unscaled(c, v, n), LazyRescaling(c) # Thrown
  PROVE  CipherSound(LazyRescaling(c), v, n + 1)
<1>1. CASE c.zero
  BY <1>1 DEF LazyRescaling, Unscaled, CipherSound
<1>2. CASE ~c.zero
  <2> DEFINE packed == c.packed
             d == RescaleToNext(c.data)
             e == [c EXCEPT !.data = d]
  <2>1. LazyRescaling(c) = e /\ d # Thrown
    BY <1>2 DEF LazyRescaling, Assigned
  <2>2. /\ IsCipher(c) /\ packed \in BOOLEAN /\ Holds(c.data, packed, v)
        /\ c.data.scale = 2 * Scale /\ c.data.level >= Top - n
    BY <1>2 DEF Unscaled
  <2>3. c.data.level # 0
    BY <2>1 DEF RescaleToNext
  <2> HIDE DEF packed
  <2>4. Holds(d, packed, v) /\ Paid(d, n + 1)
    BY <2>2, <2>3, RescaleHolds
  <2> HIDE DEF d
  <2>5. e.zero = c.zero /\ e.packed = c.packed /\ e.data = d
    BY <2>2 DEF IsCipher
  <2>6. IsCipher(e)
    BY <2>2, <2>4, DataCipher DEF IsData, Holds
  <2> HIDE DEF e
  <2>7. c.zero \in BOOLEAN /\ c.packed = packed
    BY DEF Unscaled, packed
  <2>8. CipherSound(e, v, n + 1)
    BY <1>2, <2>2, <2>4, <2>5, <2>6, <2>7 DEF CipherSound
  <2>9. QED BY <2>1, <2>8
<1>3. QED BY <1>1, <1>2

\* Above the lowest level there is room for the square of the scale.
LEMMA EvalMultiplySome ==
  ASSUME EqualPrimes, NEW x, HasData(x), x.scale = Scale, x.level # 0,
         NEW y, HasData(y), y.scale = Scale, y.level = x.level
  PROVE  EvalMultiply(x, y) # Thrown
<1>1. x # NoData /\ y # NoData
  BY HasDataIsSome
<1>2. ~OutOfBounds(x.scale + y.scale, x.level)
  <2>1. x.level \in Levels /\ Scale \in Nat
    BY ScaleType DEF HasData
  <2>2. TotalBits[x.level] \in Int /\ 2 * Scale <= TotalBits[x.level]
    BY <2>1, OnePrime
  <2>3. QED BY <2>1, <2>2 DEF OutOfBounds
<1>3. EvalMultiply(x, y) = Data(x.level, x.scale + y.scale, Slotwise(ComplexProduct, x.slots, y.slots))
  BY <1>1, <1>2 DEF EvalMultiply
<1>4. QED BY <1>3, DataIsSome

LEMMA UnscaledProduct ==
  ASSUME NEW d, NEW packed \in BOOLEAN, NEW v, Holds(d, packed, v), d.scale = 2 * Scale,
         NEW n, d.level >= Top - n, NEW c, c = [NewCipher EXCEPT !.data = d]
  PROVE  Unscaled(NonZeroOut([c EXCEPT !.packed = packed]), v, n)
<1> DEFINE f == [c EXCEPT !.packed = packed]
           e == NonZeroOut(f)
<1>1. IsCipher(c) /\ c.data = d
  <2>1. IsCipher(c)
    BY NewIsCipher, DataCipher DEF IsData, Holds
  <2>2. QED BY <2>1 DEF NewCipher
<1>2. IsCipher(f) /\ f.packed = packed /\ f.data = d
  <2>1. IsCipher(f)
    BY <1>1, PackedCipher
  <2>2. QED BY <1>1, <2>1 DEF IsCipher
<1> HIDE DEF f
<1>3. IsCipher(e) /\ ~e.zero /\ e.zero \in BOOLEAN /\ e.packed = packed /\ e.data = d
  <2>1. IsCipher(e)
    BY <1>2, NonZeroCipher
  <2>2. QED BY <1>2, <2>1 DEF IsCipher, NonZeroOut
<1> HIDE DEF e
<1>4. Unscaled(e, v, n)
  BY <1>3 DEF Unscaled
<1>5. QED BY <1>4 DEF e, f

LEMMA MultiplyCPSound ==
  ASSUME BatchesFit, EqualPrimes,
         NEW a, NEW m, NEW n \in Nat, CipherSound(a, m, n), IsBatch(m),
         NEW p, NEW w, PlainSound(p, w), IsBatch(w), a.packed => IsSingle(p),
         NEW v, \A k \in Places : v[k] = m[k] * w[k], MultiplyCP(a, p, NewCipher) # Thrown
  PROVE  Unscaled(MultiplyCP(a, p, NewCipher), v, n)
<1> DEFINE zeros == \A i \in DOMAIN p.values : p.values[i] = 0
           packed == a.packed
<1>1. Means(p, w) /\ p.values \in Seq(Int) /\ p.packed \in BOOLEAN /\ ~p.packed
  BY PlainParts
<1>2. \A k \in Places : m[k] \in Int /\ w[k] \in Int
  BY DEF IsBatch
<1>3. CASE a.zero \/ zeros
  <2>1. MultiplyCP(a, p, NewCipher) = ZeroOut(NewCipher)
    BY <1>3 DEF MultiplyCP
  <2>2. ASSUME NEW k \in Places PROVE v[k] = 0
    <3>1. m[k] = 0 \/ w[k] = 0
      BY <1>1, <1>3, PlaceIndex DEF CipherSound, Means, ValueAt
    <3>2. v[k] = m[k] * w[k] /\ m[k] \in Int /\ w[k] \in Int
      BY <1>2
    <3>3. QED BY <3>1, <3>2, ZeroTimes
  <2>3. CipherSound(ZeroOut(NewCipher), v, n)
    BY <2>2, NewZero
  <2>4. ZeroOut(NewCipher).zero = TRUE
    BY DEF ZeroOut, NewCipher
  <2>5. QED BY <2>1, <2>3, <2>4 DEF CipherSound, Unscaled
<1>4. CASE ~a.zero /\ ~zeros /\ IsSingle(p)
  <2> DEFINE x == p.values[1]
             d == MultiplyPlain(a.data, x)
             c == [NewCipher EXCEPT !.data = d]
  <2>1. d # Thrown /\ MultiplyCP(a, p, NewCipher) = NonZeroOut([c EXCEPT !.packed = packed])
    BY <1>4 DEF MultiplyCP, Then, Assigned
  <2>2. packed \in BOOLEAN /\ Holds(a.data, packed, m) /\ Paid(a.data, n)
    BY <1>4 DEF CipherSound
  <2>3. x \in Int /\ \A k \in Places : v[k] = m[k] * x
    BY <1>1, <1>4 DEF Means, ValueAt, IsSingle
  <2> HIDE DEF packed, x
  <2>4. Holds(d, packed, v) /\ d.level = a.data.level /\ d.scale = 2 * a.data.scale
    BY <2>1, <2>2, <2>3, MultiplyPlainHolds
  <2> HIDE DEF d
  <2>5. d.scale = 2 * Scale /\ d.level >= Top - n
    BY <2>2, <2>4 DEF Paid
  <2>6. c = [NewCipher EXCEPT !.data = d]
    OBVIOUS
  <2> HIDE DEF c
  <2>7. Unscaled(NonZeroOut([c EXCEPT !.packed = packed]), v, n)
    BY <2>2, <2>4, <2>5, <2>6, UnscaledProduct
  <2>8. QED BY <2>1, <2>7
<1>5. CASE ~a.zero /\ ~zeros /\ ~IsSingle(p)
  <2> DEFINE e == EncodeAt(p, a.data.level, a.data.scale)
             d == EvalMultiply(a.data, e)
             c == [NewCipher EXCEPT !.data = d]
  <2>1. packed \in BOOLEAN /\ ~packed /\ Holds(a.data, packed, m) /\ Paid(a.data, n) /\ HasData(a.data)
    BY <1>5 DEF CipherSound, Holds
  <2>3. MultiplyMany(a, p, NewCipher) # Thrown
    BY <1>5 DEF MultiplyCP, Then
  <2>4. /\ e # Thrown /\ a.data.level # 0
        /\ MultiplyMany(a, p, NewCipher) = [NewCipher EXCEPT !.data = IF d = Thrown THEN a.data ELSE d]
    BY <2>3 DEF MultiplyMany, Then
  <2>5. Holds(e, p.packed, w) /\ e.level = a.data.level /\ e.scale = a.data.scale
    BY <1>1, <2>1, <2>4, EncodeHolds DEF HasData
  <2>6. p.packed = packed
    BY <1>1, <2>1
  <2>7. MultiplyCP(a, p, NewCipher) = NonZeroOut([MultiplyMany(a, p, NewCipher) EXCEPT !.packed = packed])
    BY <1>5, <2>3 DEF MultiplyCP, Then
  <2> HIDE DEF e, packed
  <2>8. d # Thrown
    BY <2>1, <2>4, <2>5, EvalMultiplySome DEF Paid, Holds
  <2>9. Holds(d, packed, v) /\ d.level = a.data.level /\ d.scale = a.data.scale + e.scale
    BY <2>1, <2>5, <2>6, <2>8, MultiplyHolds
  <2> HIDE DEF d
  <2>10. d.scale = 2 * Scale /\ d.level >= Top - n
    BY <2>1, <2>5, <2>9, ScaleType DEF Paid
  <2>11. MultiplyMany(a, p, NewCipher) = c
    BY <2>4, <2>8
  <2> HIDE DEF c
  <2>12. MultiplyCP(a, p, NewCipher) = NonZeroOut([c EXCEPT !.packed = packed])
    BY <2>7, <2>11
  <2>13. c = [NewCipher EXCEPT !.data = d]
    BY DEF c
  <2>14. Unscaled(NonZeroOut([c EXCEPT !.packed = packed]), v, n)
    BY <2>1, <2>9, <2>10, <2>13, UnscaledProduct
  <2>15. QED BY <2>12, <2>14
<1>6. QED BY <1>3, <1>4, <1>5

-----------------------------------------------------------------------------
(* The kernels on values in the clear.                                     *)

\* A result in the clear.
Clear(g) == Plain(g, FALSE)

\* One value for each value of p, or one for all of them.
LEMMA PlainResultSound ==
  ASSUME NEW p, NEW m, Means(p, m), NEW g \in [DOMAIN p.values -> Int],
         NEW v, \A k \in Places : v[k] = g[IF IsSingle(p) THEN 1 ELSE k]
  PROVE  PlainSound(Clear(g), v)
<1> DEFINE r == Clear(g)
<1>1. r.values = g /\ r = Plain(r.values, FALSE)
  BY DEF Plain, Clear
<1> HIDE DEF r
<1>2. r.values = g
  BY <1>1
<1>3. Means(r, v)
  BY <1>2, MappedMeans
<1>4. PlainSound(r, v)
  BY <1>1, <1>3 DEF PlainSound
<1>5. QED BY <1>4 DEF r

\* As many values on either side: each place takes both from one index.
LEMMA PairedValues ==
  ASSUME NEW p, NEW m, Means(p, m), NEW q, NEW n, Means(q, n), Len(p.values) = Len(q.values)
  PROVE  /\ IsSingle(p) <=> IsSingle(q)
         /\ DOMAIN p.values = DOMAIN q.values
         /\ \A i \in DOMAIN p.values : /\ IsSingle(q) => i = 1
                                       /\ p.values[i] \in Int /\ q.values[i] \in Int
         /\ \A k \in Places :
              LET i == IF IsSingle(p) THEN 1 ELSE k
              IN  i \in DOMAIN p.values /\ p.values[i] = m[k] /\ q.values[i] = n[k]
<1>1. /\ p.values \in Seq(Int) /\ Len(p.values) \in Nat /\ DOMAIN p.values = 1..Len(p.values)
      /\ q.values \in Seq(Int) /\ DOMAIN q.values = 1..Len(q.values)
  BY LenProperties DEF Means
<1>2. ASSUME NEW k \in Places
      PROVE  LET i == IF IsSingle(p) THEN 1 ELSE k
             IN  i \in DOMAIN p.values /\ p.values[i] = m[k] /\ q.values[i] = n[k]
  BY PlaceIndex DEF Means, ValueAt, IsSingle
<1>3. (IsSingle(p) <=> IsSingle(q)) /\ DOMAIN p.values = DOMAIN q.values
  BY <1>1 DEF IsSingle
<1>4. ASSUME NEW i \in DOMAIN p.values
      PROVE  (IsSingle(q) => i = 1) /\ p.values[i] \in Int /\ q.values[i] \in Int
  BY <1>1 DEF IsSingle
<1>5. QED BY <1>2, <1>3, <1>4

LEMMA AddPPSound ==
  ASSUME NEW p, NEW m, Means(p, m), NEW q, NEW n, Means(q, n), Len(p.values) = Len(q.values),
         NEW v, \A k \in Places : v[k] = m[k] + n[k]
  PROVE  PlainSound(AddPP(p, q), v)
<1> DEFINE g == [i \in DOMAIN p.values |-> p.values[i] + q.values[IF IsSingle(q) THEN 1 ELSE i]]
<1>1. AddPP(p, q) = Clear(g)
  BY DEF AddPP, ZipPlain, Clear
<1>2. g \in [DOMAIN p.values -> Int] /\ \A i \in DOMAIN p.values : g[i] = p.values[i] + q.values[i]
  BY PairedValues
<1> HIDE DEF g
<1>3. \A k \in Places : v[k] = g[IF IsSingle(p) THEN 1 ELSE k]
  BY <1>2, PairedValues
<1>4. QED BY <1>1, <1>2, <1>3, PlainResultSound

LEMMA MultiplyPPSound ==
  ASSUME NEW p, NEW m, Means(p, m), NEW q, NEW n, Means(q, n), Len(p.values) = Len(q.values),
         NEW v, \A k \in Places : v[k] = m[k] * n[k]
  PROVE  PlainSound(MultiplyPP(p, q), v)
<1> DEFINE g == [i \in DOMAIN p.values |-> p.values[i] * q.values[IF IsSingle(q) THEN 1 ELSE i]]
<1>1. MultiplyPP(p, q) = Clear(g)
  BY DEF MultiplyPP, ZipPlain, Clear
<1>2. \A i \in DOMAIN p.values : g[i] = p.values[i] * q.values[i] /\ g[i] \in Int
  <2>1. \A a, b \in Int : a * b \in Int
    OBVIOUS
  <2>2. QED BY <2>1, PairedValues
<1>3. g = [i \in DOMAIN p.values |-> g[i]]
  OBVIOUS
<1> HIDE DEF g
<1>4. g \in [DOMAIN p.values -> Int]
  BY <1>2, <1>3
<1>5. \A k \in Places : v[k] = g[IF IsSingle(p) THEN 1 ELSE k]
  BY <1>2, PairedValues
<1>6. QED BY <1>1, <1>4, <1>5, PlainResultSound

LEMMA SubPPSound ==
  ASSUME NEW p, NEW m, Means(p, m), NEW q, NEW n, Means(q, n), Len(p.values) = Len(q.values),
         NEW v, \A k \in Places : v[k] = m[k] - n[k]
  PROVE  PlainSound(SubPP(p, q), v)
<1> DEFINE g == [i \in DOMAIN p.values |-> p.values[i] - (IF i \in DOMAIN q.values THEN q.values[i] ELSE 0)]
<1>1. SubPP(p, q) = Clear(g)
  BY DEF SubPP, Clear
<1>2. g \in [DOMAIN p.values -> Int] /\ \A i \in DOMAIN p.values : g[i] = p.values[i] - q.values[i]
  BY PairedValues
<1> HIDE DEF g
<1>3. \A k \in Places : v[k] = g[IF IsSingle(p) THEN 1 ELSE k]
  BY <1>2, PairedValues
<1>4. QED BY <1>1, <1>2, <1>3, PlainResultSound

LEMMA MinimumPPSound ==
  ASSUME NEW p, NEW m, Means(p, m), NEW q, NEW n, Means(q, n), Len(p.values) = Len(q.values),
         NEW v, \A k \in Places : v[k] = IF m[k] < n[k] THEN m[k] ELSE n[k]
  PROVE  PlainSound(MinimumPP(p, q), v)
<1> DEFINE g == [i \in DOMAIN p.values |-> IF p.values[i] < q.values[i] THEN p.values[i] ELSE q.values[i]]
<1>1. MinimumPP(p, q) = Clear(g)
  BY DEF MinimumPP, Clear
<1>2. /\ g \in [DOMAIN p.values -> Int]
      /\ \A i \in DOMAIN p.values : g[i] = IF p.values[i] < q.values[i] THEN p.values[i] ELSE q.values[i]
  BY PairedValues
<1> HIDE DEF g
<1>3. \A k \in Places : v[k] = g[IF IsSingle(p) THEN 1 ELSE k]
  BY <1>2, PairedValues
<1>4. QED BY <1>1, <1>2, <1>3, PlainResultSound

-----------------------------------------------------------------------------
(* The activations.                                                        *)

\* Without a client: decrypted, applied, encrypted at the first level.
LEMMA ActivationSound ==
  ASSUME BatchesFit, NEW a, NEW m, NEW n, CipherSound(a, m, n), IsBatch(m),
         NEW g \in [DOMAIN Decrypt(a).values -> Int],
         NEW v, \A k \in Places : v[k] = g[IF IsSingle(Decrypt(a)) THEN 1 ELSE k],
         NEW q, q.values = g, q.packed = Decrypt(a).packed, Encrypt(NewCipher, q) # Thrown
  PROVE  CipherSound(Encrypt(NewCipher, q), v, 0)
<1> DEFINE p == Decrypt(a)
<1>1. Means(p, m) /\ p = Plain(p.values, a.packed) /\ a.packed \in BOOLEAN
  BY DecryptMeans DEF CipherSound
<1> HIDE DEF p
<1>2. p.packed = a.packed
  BY <1>1 DEF Plain
<1>3. Means(q, v)
  BY <1>1, MappedMeans DEF p
<1>4. q.packed \in BOOLEAN /\ 0 \in Nat
  BY <1>1, <1>2 DEF p
<1>5. QED BY <1>3, <1>4, EncryptSound

\* What a function of integers makes of values, each of them.
EachValue(f, p) == [i \in DOMAIN p.values |-> f[p.values[i]]]
ReluFunction == [x \in Int |-> Relu(x)]
BoundedFunction(alpha) == [x \in Int |-> BoundedRelu(x, alpha)]

LEMMA EachValueMeans ==
  ASSUME NEW p, NEW m, Means(p, m), NEW f \in [Int -> Int], NEW v, \A k \in Places : v[k] = f[m[k]]
  PROVE  /\ EachValue(f, p) \in [DOMAIN p.values -> Int]
         /\ \A k \in Places : v[k] = EachValue(f, p)[IF IsSingle(p) THEN 1 ELSE k]
<1> DEFINE g == EachValue(f, p)
<1>1. \A i \in DOMAIN p.values : p.values[i] \in Int
  BY DEF Means
<1>2. g \in [DOMAIN p.values -> Int] /\ \A i \in DOMAIN p.values : g[i] = f[p.values[i]]
  BY <1>1 DEF EachValue
<1> HIDE DEF g
<1>3. ASSUME NEW k \in Places PROVE v[k] = g[IF IsSingle(p) THEN 1 ELSE k]
  <2> DEFINE i == IF IsSingle(p) THEN 1 ELSE k
  <2>1. i \in DOMAIN p.values /\ p.values[i] = m[k]
    BY PlaceIndex DEF Means, ValueAt
  <2> HIDE DEF i
  <2>2. v[k] = g[i]
    BY <1>2, <2>1
  <2>3. QED BY <2>2 DEF i
<1>4. QED BY <1>2, <1>3 DEF g

LEMMA MapRelu ==
  ASSUME NEW p, p = Plain(p.values, p.packed), p.values \in Seq(Int)
  PROVE  /\ MapPlain(Relu, p) = Plain(EachValue(ReluFunction, p), p.packed)
         /\ ReluP(p) = Clear(EachValue(ReluFunction, p))
<1> DEFINE g == [i \in DOMAIN p.values |-> Relu(p.values[i])]
<1>1. \A i \in DOMAIN p.values : p.values[i] \in Int
  OBVIOUS
<1>2. EachValue(ReluFunction, p) = g
  BY <1>1 DEF EachValue, ReluFunction
<1>3. MapPlain(Relu, p) = [p EXCEPT !.values = g]
  BY DEF MapPlain
<1> HIDE DEF g
<1>4. MapPlain(Relu, p) = Plain(g, p.packed)
  BY <1>3 DEF Plain
<1>5. ReluP(p) = [Plain(g, p.packed) EXCEPT !.packed = FALSE]
  BY <1>4, Zenon DEF ReluP
<1>6. QED BY <1>2, <1>4, <1>5 DEF Clear, Plain

LEMMA MapBoundedRelu ==
  ASSUME NEW alpha, NEW p, p = Plain(p.values, p.packed), p.values \in Seq(Int)
  PROVE  /\ MapPlain(LAMBDA x : BoundedRelu(x, alpha), p)
              = Plain(EachValue(BoundedFunction(alpha), p), p.packed)
         /\ BoundedReluP(p, alpha) = Clear(EachValue(BoundedFunction(alpha), p))
<1> DEFINE g == [i \in DOMAIN p.values |-> BoundedRelu(p.values[i], alpha)]
<1>1. \A i \in DOMAIN p.values : p.values[i] \in Int
  OBVIOUS
<1>2. EachValue(BoundedFunction(alpha), p) = g
  BY <1>1 DEF EachValue, BoundedFunction
<1>3. MapPlain(LAMBDA x : BoundedRelu(x, alpha), p) = [p EXCEPT !.values = g]
  BY DEF MapPlain
<1> HIDE DEF g
<1>4. MapPlain(LAMBDA x : BoundedRelu(x, alpha), p) = Plain(g, p.packed)
  BY <1>3 DEF Plain
<1>5. BoundedReluP(p, alpha) = [Plain(g, p.packed) EXCEPT !.packed = FALSE]
  BY <1>4, Zenon DEF BoundedReluP
<1>6. QED BY <1>2, <1>4, <1>5 DEF Clear, Plain

LEMMA EachValueEncrypted ==
  ASSUME BatchesFit, NEW a, NEW m, NEW n, CipherSound(a, m, n), IsBatch(m),
         NEW f \in [Int -> Int], NEW v, \A k \in Places : v[k] = f[m[k]],
         NEW q, q = Plain(EachValue(f, Decrypt(a)), Decrypt(a).packed), Encrypt(NewCipher, q) # Thrown
  PROVE  CipherSound(Encrypt(NewCipher, q), v, 0)
<1> DEFINE p == Decrypt(a)
           g == EachValue(f, p)
<1>1. Means(p, m)
  BY DecryptMeans
<1>2. q.values = g /\ q.packed = p.packed
  BY DEF Plain
<1> HIDE DEF p
<1>3. g \in [DOMAIN p.values -> Int] /\ \A k \in Places : v[k] = g[IF IsSingle(p) THEN 1 ELSE k]
  BY <1>1, EachValueMeans
<1> HIDE DEF g
<1>4. QED BY <1>2, <1>3, ActivationSound DEF p

LEMMA FunctionTypes ==
  ASSUME NEW alpha \in Nat
  PROVE  /\ ReluFunction \in [Int -> Int]
         /\ \A x \in Int : ReluFunction[x] = Relu(x)
         /\ BoundedFunction(alpha) \in [Int -> Int]
         /\ \A x \in Int : BoundedFunction(alpha)[x] = IF Relu(x) < alpha THEN Relu(x) ELSE alpha
BY DEF ReluFunction, BoundedFunction, Relu, BoundedRelu

-----------------------------------------------------------------------------
(* The operations on elements.                                             *)

\* The elements r an operation leaves of arguments that stand for m and n and have
\* paid for l levels, and a result that stands for v and has paid for k.
OpSound(r, m, n, v, l, k) == Sound(r[1], m, l) /\ Sound(r[2], n, l) /\ Sound(r[3], v, k)

LEMMA SoundLonger ==
  ASSUME NEW x, NEW m, NEW p \in Nat, Sound(x, m, p), NEW l \in Nat, p <= l
  PROVE  Sound(x, m, l)
BY SoundMore DEF Sound

LEMMA CipherGives ==
  ASSUME NEW c, NEW v, NEW k \in Nat, CipherSound(c, v, k), IsBatch(v)
  PROVE  Sound(Cipher(c), v, k)
BY CipherElement DEF Sound, CipherSound

LEMMA PlainGives ==
  ASSUME NEW p, NEW v, NEW k \in Nat, PlainSound(p, v), IsBatch(v)
  PROVE  Sound(PlainOf(p), v, k) /\ p # Thrown
<1>1. p # Thrown
  <2>1. "values" \in DOMAIN p /\ DOMAIN Thrown = {"thrown"}
    BY DEF PlainSound, Plain, Thrown
  <2>2. QED BY <2>1
<1>2. QED BY <1>1, PlainElement DEF Sound

LEMMA ResultSound ==
  ASSUME NEW x, NEW m, NEW l \in Nat, Sound(x, m, l), NEW y, NEW n, Sound(y, n, l),
         NEW c, c # Thrown, NEW v, NEW k \in Nat, CipherSound(c, v, k), IsBatch(v)
  PROVE  OpSound(Result(x, y, c), m, n, v, l, k)
<1>1. Result(x, y, c) = <<x, y, Cipher(c)>>
  BY DEF Result
<1>2. QED BY <1>1, CipherGives DEF OpSound

LEMMA PlainResultOpSound ==
  ASSUME NEW x, NEW m, NEW l \in Nat, Sound(x, m, l), NEW y, NEW n, Sound(y, n, l),
         NEW p, NEW v, NEW k \in Nat, PlainSound(p, v), IsBatch(v)
  PROVE  OpSound(PlainResult(x, y, p), m, n, v, l, k)
<1>1. Sound(PlainOf(p), v, k) /\ p # Thrown
  BY PlainGives
<1>2. PlainResult(x, y, p) = <<x, y, PlainOf(p)>>
  BY <1>1 DEF PlainResult
<1>3. QED BY <1>1, <1>2 DEF OpSound

LEMMA CipherResultsSound ==
  ASSUME NEW r, r # Thrown, NEW m, IsBatch(m), NEW n, IsBatch(n), NEW v, IsBatch(v),
         NEW l \in Nat, NEW k \in Nat, SoundResults(r, m, n, v, l, k)
  PROVE  OpSound(CipherResults(r), m, n, v, l, k)
<1>1. CipherResults(r) = <<Cipher(r[1]), Cipher(r[2]), Cipher(r[3])>>
  BY DEF CipherResults
<1>2. QED BY <1>1, CipherGives DEF OpSound, SoundResults

LEMMA OutIsNew == ASSUME NEW x, NEW y, x.cipher \/ y.cipher PROVE Out(x, y).e = NewCipher
BY CipherElement, NewIsCipher DEF Out, Empty, EmptyCipher

\* The two arguments, paid for what either has paid.
LEMMA BothPaid ==
  ASSUME NEW x, NEW m, NEW p \in Nat, Sound(x, m, p), NEW y, NEW n, NEW q \in Nat, Sound(y, n, q)
  PROVE  /\ Larger(p, q) \in Nat /\ Larger(p, q) + 1 \in Nat
         /\ Sound(x, m, Larger(p, q)) /\ Sound(y, n, Larger(p, q))
         /\ IsBatch(m) /\ IsBatch(n) /\ x.cipher \in BOOLEAN /\ y.cipher \in BOOLEAN
         /\ x.cipher => CipherSound(x.e, m, p) /\ CipherSound(x.e, m, Larger(p, q))
         /\ ~x.cipher => PlainSound(x.e, m) /\ Means(x.e, m)
         /\ y.cipher => CipherSound(y.e, n, q) /\ CipherSound(y.e, n, Larger(p, q))
         /\ ~y.cipher => PlainSound(y.e, n) /\ Means(y.e, n)
<1>1. Larger(p, q) \in Nat /\ p <= Larger(p, q) /\ q <= Larger(p, q)
  BY LargerType
<1>2. Sound(x, m, Larger(p, q)) /\ Sound(y, n, Larger(p, q))
  BY <1>1, SoundLonger
<1>3. \A z, w, h : Sound(z, w, h) =>
        /\ IsBatch(w) /\ z.cipher \in BOOLEAN
        /\ z.cipher => CipherSound(z.e, w, h)
        /\ ~z.cipher => PlainSound(z.e, w) /\ Means(z.e, w)
  BY DEF Sound, IsElement, PlainSound
<1>4. QED BY <1>1, <1>2, <1>3

LEMMA SameLength ==
  ASSUME NEW x, NEW m, NEW y, NEW n, Means(x.e, m), Means(y.e, n), ~x.cipher, ~y.cipher,
         ~Shorter(x, y), ~Shorter(y, x)
  PROVE  Len(x.e.values) = Len(y.e.values)
<1>1. Len(x.e.values) \in Nat /\ Len(y.e.values) \in Nat
  BY LenProperties DEF Means
<1>2. QED BY <1>1 DEF Shorter

LEMMA AddOfSound ==
  ASSUME BatchesFit, NEW x, NEW m, NEW p \in Nat, Sound(x, m, p),
         NEW y, NEW n, NEW q \in Nat, Sound(y, n, q), ~Defective("add", x, y),
         NEW v, IsBatch(v), \A k \in Places : v[k] = m[k] + n[k], AddOf(x, y) # Thrown
  PROVE  OpSound(AddOf(x, y), m, n, v, Larger(p, q), Larger(p, q))
<1> DEFINE l == Larger(p, q)
<1>1. l \in Nat /\ Sound(x, m, l) /\ Sound(y, n, l) /\ IsBatch(m) /\ IsBatch(n)
  BY BothPaid
<1>2. x.cipher \in BOOLEAN /\ y.cipher \in BOOLEAN
  BY BothPaid
<1>3. CASE x.cipher /\ y.cipher
  <2> DEFINE r == AddCC(x.e, y.e, NewCipher)
  <2>1. AddOf(x, y) = CipherResults(r) /\ r # Thrown
    BY <1>3, OutIsNew DEF AddOf, ScalarAdd, CipherResults
  <2>2. SoundResults(r, m, n, v, l, l)
    BY <1>1, <1>3, <2>1, BothPaid, AddCCSound
  <2> HIDE DEF r, l
  <2>3. OpSound(AddOf(x, y), m, n, v, l, l)
    BY <1>1, <2>1, <2>2, CipherResultsSound
  <2>4. QED BY <2>3 DEF l
<1>4. CASE x.cipher /\ ~y.cipher
  <2> DEFINE c == AddCP(x.e, y.e, NewCipher)
  <2>1. AddOf(x, y) = Result(x, y, c) /\ c # Thrown
    BY <1>4, OutIsNew DEF AddOf, ScalarAdd, Result
  <2>2. ~x.e.packed /\ ~(x.e.zero /\ y.e.values = << 0 >>)
    BY <1>4 DEF Defective, KnownZero, PlainZero, Packed, AddsPacked
  <2>3. CipherSound(x.e, m, l) /\ PlainSound(y.e, n)
    BY <1>4, BothPaid
  <2> HIDE DEF l
  <2>4. CipherSound(c, v, l)
    BY <1>1, <2>1, <2>2, <2>3, AddCPSound
  <2> HIDE DEF c
  <2>5. OpSound(AddOf(x, y), m, n, v, l, l)
    BY <1>1, <2>1, <2>4, ResultSound
  <2>6. QED BY <2>5 DEF l
<1>5. CASE ~x.cipher /\ y.cipher
  <2> DEFINE c == AddCP(y.e, x.e, NewCipher)
  <2>1. AddOf(x, y) = Result(x, y, c) /\ c # Thrown
    BY <1>5, OutIsNew DEF AddOf, ScalarAdd, AddPC, Result
  <2>2. ~y.e.packed /\ ~(y.e.zero /\ x.e.values = << 0 >>)
    BY <1>5 DEF Defective, KnownZero, PlainZero, Packed, AddsPacked
  <2>3. CipherSound(y.e, n, l) /\ PlainSound(x.e, m)
    BY <1>5, BothPaid
  <2>4. \A k \in Places : v[k] = n[k] + m[k]
    BY <1>1 DEF IsBatch
  <2> HIDE DEF l
  <2>5. CipherSound(c, v, l)
    BY <1>1, <2>1, <2>2, <2>3, <2>4, AddCPSound
  <2> HIDE DEF c
  <2>6. OpSound(AddOf(x, y), m, n, v, l, l)
    BY <1>1, <2>1, <2>5, ResultSound
  <2>7. QED BY <2>6 DEF l
<1>6. CASE ~x.cipher /\ ~y.cipher
  <2>1. AddOf(x, y) = PlainResult(x, y, AddPP(x.e, y.e))
    BY <1>6 DEF AddOf, ScalarAdd
  <2>2. Means(x.e, m) /\ Means(y.e, n)
    BY <1>6, BothPaid
  <2>3. Len(x.e.values) = Len(y.e.values)
    BY <1>6, <2>2, SameLength DEF Defective
  <2>4. PlainSound(AddPP(x.e, y.e), v)
    BY <2>2, <2>3, AddPPSound
  <2> HIDE DEF l
  <2>5. OpSound(AddOf(x, y), m, n, v, l, l)
    BY <1>1, <2>1, <2>4, PlainResultOpSound
  <2>6. QED BY <2>5 DEF l
<1>7. QED BY <1>2, <1>3, <1>4, <1>5, <1>6

LEMMA SubtractOfSound ==
  ASSUME BatchesFit, NEW x, NEW m, NEW p \in Nat, Sound(x, m, p),
         NEW y, NEW n, NEW q \in Nat, Sound(y, n, q), ~Defective("subtract", x, y),
         NEW v, IsBatch(v), \A k \in Places : v[k] = m[k] - n[k], SubtractOf(x, y) # Thrown
  PROVE  OpSound(SubtractOf(x, y), m, n, v, Larger(p, q), Larger(p, q))
<1> DEFINE l == Larger(p, q)
<1>1. l \in Nat /\ Sound(x, m, l) /\ Sound(y, n, l) /\ IsBatch(m) /\ IsBatch(n)
  BY BothPaid
<1>2. x.cipher \in BOOLEAN /\ y.cipher \in BOOLEAN
  BY BothPaid
<1>3. (x.cipher => ~x.e.packed) /\ (y.cipher => ~y.e.packed)
  BY DEF Defective, Packed
<1>4. CASE x.cipher /\ y.cipher
  <2> DEFINE c == SubCC(x.e, y.e, NewCipher)
  <2>1. SubtractOf(x, y) = Result(x, y, c) /\ c # Thrown
    BY <1>4, OutIsNew DEF SubtractOf, ScalarSubtract, Result
  <2>2. CipherSound(c, v, l)
    <3>1. CipherSound(x.e, m, p) /\ CipherSound(y.e, n, q) /\ ~x.e.packed /\ ~y.e.packed
      BY <1>3, <1>4, BothPaid
    <3>2. QED BY <1>1, <2>1, <3>1, SubCCSound
  <2> HIDE DEF c, l
  <2>3. OpSound(SubtractOf(x, y), m, n, v, l, l)
    BY <1>1, <2>1, <2>2, ResultSound
  <2>4. QED BY <2>3 DEF l
<1>5. CASE x.cipher /\ ~y.cipher
  <2> DEFINE c == SubCP(x.e, y.e, NewCipher)
  <2>1. SubtractOf(x, y) = Result(x, y, c) /\ c # Thrown
    BY <1>5, OutIsNew DEF SubtractOf, ScalarSubtract, Result
  <2>2. ~(x.e.zero /\ y.e.values = << 0 >>)
    BY <1>5 DEF Defective, KnownZero, PlainZero
  <2>3. CipherSound(x.e, m, l) /\ PlainSound(y.e, n)
    BY <1>5, BothPaid
  <2> HIDE DEF l
  <2>4. CipherSound(c, v, l)
    BY <1>1, <1>3, <1>5, <2>1, <2>2, <2>3, SubCPSound
  <2> HIDE DEF c
  <2>5. OpSound(SubtractOf(x, y), m, n, v, l, l)
    BY <1>1, <2>1, <2>4, ResultSound
  <2>6. QED BY <2>5 DEF l
<1>6. CASE ~x.cipher /\ y.cipher
  <2> DEFINE c == SubPC(x.e, y.e, NewCipher)
  <2>1. SubtractOf(x, y) = Result(x, y, c) /\ c # Thrown
    BY <1>6, OutIsNew DEF SubtractOf, ScalarSubtract, Result
  <2>2. ~(y.e.zero /\ x.e.values = << 0 >>)
    BY <1>6 DEF Defective, KnownZero, PlainZero
  <2>3. CipherSound(y.e, n, l) /\ PlainSound(x.e, m)
    BY <1>6, BothPaid
  <2> HIDE DEF l
  <2>4. CipherSound(c, v, l)
    BY <1>1, <1>3, <1>6, <2>1, <2>2, <2>3, SubPCSound
  <2> HIDE DEF c
  <2>5. OpSound(SubtractOf(x, y), m, n, v, l, l)
    BY <1>1, <2>1, <2>4, ResultSound
  <2>6. QED BY <2>5 DEF l
<1>7. CASE ~x.cipher /\ ~y.cipher
  <2>1. SubtractOf(x, y) = PlainResult(x, y, SubPP(x.e, y.e))
    BY <1>7 DEF SubtractOf, ScalarSubtract
  <2>2. Means(x.e, m) /\ Means(y.e, n)
    BY <1>7, BothPaid
  <2>3. Len(x.e.values) = Len(y.e.values)
    BY <1>7, <2>2, SameLength DEF Defective
  <2>4. PlainSound(SubPP(x.e, y.e), v)
    BY <2>2, <2>3, SubPPSound
  <2> HIDE DEF l
  <2>5. OpSound(SubtractOf(x, y), m, n, v, l, l)
    BY <1>1, <2>1, <2>4, PlainResultOpSound
  <2>6. QED BY <2>5 DEF l
<1>8. QED BY <1>2, <1>4, <1>5, <1>6, <1>7

\* A product of a ciphertext and values, rescaled.
LEMMA RescaledSound ==
  ASSUME EqualPrimes, NEW x, NEW m, NEW l \in Nat, Sound(x, m, l), NEW y, NEW n, Sound(y, n, l),
         x.cipher # y.cipher, NEW c, NEW v, IsBatch(v), c # Thrown => Unscaled(c, v, l),
         ScalarMultiply(x, y, Out(x, y)) = Result(x, y, c), MultiplyOf(x, y) # Thrown
  PROVE  OpSound(MultiplyOf(x, y), m, n, v, l, l + 1)
<1> DEFINE e == LazyRescaling(c)
<1>1. c # Thrown
  BY DEF MultiplyOf, Result
<1>2. ScalarMultiply(x, y, Out(x, y)) = <<x, y, Cipher(c)>> /\ Unscaled(c, v, l)
  BY <1>1 DEF Result
<1>3. Cipher(c).e = c
  BY <1>2, CipherElement DEF Unscaled
<1>4. ScalarMultiply(x, y, Out(x, y)) # Thrown
  BY DEF MultiplyOf
<1>5. MultiplyOf(x, y) = Result(x, y, e)
  BY <1>2, <1>3, <1>4 DEF MultiplyOf
<1>6. e # Thrown
  BY <1>5 DEF Result
<1>7. CipherSound(e, v, l + 1)
  BY <1>2, <1>6, LazyRescalingSound
<1> HIDE DEF e
<1>8. OpSound(Result(x, y, e), m, n, v, l, l + 1)
  BY <1>6, <1>7, ResultSound
<1>9. QED BY <1>5, <1>8

LEMMA MultiplyOfSound ==
  ASSUME BatchesFit, EqualPrimes, NEW x, NEW m, NEW p \in Nat, Sound(x, m, p),
         NEW y, NEW n, NEW q \in Nat, Sound(y, n, q), ~Defective("multiply", x, y),
         NEW v, IsBatch(v), \A k \in Places : v[k] = m[k] * n[k], MultiplyOf(x, y) # Thrown
  PROVE  OpSound(MultiplyOf(x, y), m, n, v, Larger(p, q), Larger(p, q) + 1)
<1> DEFINE l == Larger(p, q)
<1>1. l \in Nat /\ l + 1 \in Nat /\ Sound(x, m, l) /\ Sound(y, n, l) /\ IsBatch(m) /\ IsBatch(n)
  BY BothPaid
<1>2. x.cipher \in BOOLEAN /\ y.cipher \in BOOLEAN
  BY BothPaid
<1>3. CASE x.cipher /\ y.cipher
  <2> DEFINE r == MultiplyCC(x.e, y.e, NewCipher)
  <2>1. MultiplyOf(x, y) = CipherResults(r) /\ r # Thrown
    BY <1>2, <1>3, OutIsNew DEF MultiplyOf, ScalarMultiply, CipherResults
  <2>2. ~x.e.packed /\ ~y.e.packed
    BY <1>3 DEF Defective, Packed
  <2>3. SoundResults(r, m, n, v, l, l + 1)
    BY <1>1, <1>3, <2>1, <2>2, BothPaid, MultiplyCCSound
  <2> HIDE DEF r, l
  <2>4. OpSound(MultiplyOf(x, y), m, n, v, l, l + 1)
    BY <1>1, <2>1, <2>3, CipherResultsSound
  <2>5. QED BY <2>4 DEF l
<1>4. CASE x.cipher /\ ~y.cipher
  <2> DEFINE c == MultiplyCP(x.e, y.e, NewCipher)
  <2>1. ScalarMultiply(x, y, Out(x, y)) = Result(x, y, c)
    BY <1>4, OutIsNew DEF ScalarMultiply
  <2>2. x.e.packed => IsSingle(y.e)
    BY <1>4 DEF Defective, Packed, Many
  <2>3. CipherSound(x.e, m, l) /\ PlainSound(y.e, n)
    BY <1>4, BothPaid
  <2> HIDE DEF l
  <2>4. c # Thrown => Unscaled(c, v, l)
    BY <1>1, <2>2, <2>3, MultiplyCPSound
  <2> HIDE DEF c
  <2>5. x.cipher # y.cipher
    BY <1>4
  <2>6. OpSound(MultiplyOf(x, y), m, n, v, l, l + 1)
    BY <1>1, <2>1, <2>4, <2>5, RescaledSound
  <2>7. QED BY <2>6 DEF l
<1>5. CASE ~x.cipher /\ y.cipher
  <2> DEFINE c == MultiplyCP(y.e, x.e, NewCipher)
  <2>1. ScalarMultiply(x, y, Out(x, y)) = Result(x, y, c)
    BY <1>5, OutIsNew DEF ScalarMultiply, MultiplyPC
  <2>2. y.e.packed => IsSingle(x.e)
    BY <1>5 DEF Defective, Packed, Many
  <2>3. CipherSound(y.e, n, l) /\ PlainSound(x.e, m)
    BY <1>5, BothPaid
  <2>4. \A k \in Places : v[k] = n[k] * m[k]
    <3>1. \A a, b \in Int : a * b = b * a
      OBVIOUS
    <3>2. QED BY <1>1, <3>1 DEF IsBatch
  <2> HIDE DEF l
  <2>5. c # Thrown => Unscaled(c, v, l)
    BY <1>1, <2>2, <2>3, <2>4, MultiplyCPSound
  <2> HIDE DEF c
  <2>6. x.cipher # y.cipher
    BY <1>5
  <2>7. OpSound(MultiplyOf(x, y), m, n, v, l, l + 1)
    BY <1>1, <2>1, <2>5, <2>6, RescaledSound
  <2>8. QED BY <2>7 DEF l
<1>6. CASE ~x.cipher /\ ~y.cipher
  <2>1. MultiplyOf(x, y) = PlainResult(x, y, MultiplyPP(x.e, y.e))
    BY <1>2, <1>6 DEF MultiplyOf, ScalarMultiply
  <2>2. Means(x.e, m) /\ Means(y.e, n)
    BY <1>6, BothPaid
  <2>3. Len(x.e.values) = Len(y.e.values)
    BY <1>6, <2>2, SameLength DEF Defective
  <2>4. PlainSound(MultiplyPP(x.e, y.e), v)
    BY <2>2, <2>3, MultiplyPPSound
  <2> HIDE DEF l
  <2>5. OpSound(MultiplyOf(x, y), m, n, v, l, l + 1)
    BY <1>1, <2>1, <2>4, PlainResultOpSound
  <2>6. QED BY <2>5 DEF l
<1>7. QED BY <1>2, <1>3, <1>4, <1>5, <1>6

LEMMA MinimumOfSound ==
  ASSUME NEW x, NEW m, NEW p \in Nat, Sound(x, m, p),
         NEW y, NEW n, NEW q \in Nat, Sound(y, n, q), ~Defective("minimum", x, y),
         NEW v, IsBatch(v), \A k \in Places : v[k] = IF m[k] < n[k] THEN m[k] ELSE n[k]
  PROVE  OpSound(MinimumOf(x, y), m, n, v, Larger(p, q), Larger(p, q))
<1> DEFINE l == Larger(p, q)
<1>1. l \in Nat /\ Sound(x, m, l) /\ Sound(y, n, l)
  BY BothPaid
<1>2. ~x.cipher /\ ~y.cipher /\ ~Shorter(x, y) /\ ~Shorter(y, x)
  BY DEF Defective
<1>3. MinimumOf(x, y) = PlainResult(x, y, MinimumPP(x.e, y.e))
  BY <1>2 DEF MinimumOf
<1>4. Means(x.e, m) /\ Means(y.e, n)
  BY <1>2, BothPaid
<1>5. PlainSound(MinimumPP(x.e, y.e), v)
  <2>1. Len(x.e.values) = Len(y.e.values)
    BY <1>2, <1>4, SameLength
  <2>2. QED BY <1>4, <2>1, MinimumPPSound
<1> HIDE DEF l
<1>6. OpSound(MinimumOf(x, y), m, n, v, l, l)
  BY <1>1, <1>3, <1>5, PlainResultOpSound
<1>7. QED BY <1>6 DEF l

LEMMA NegateOfSound ==
  ASSUME BatchesFit, NEW x, NEW m, NEW p \in Nat, Sound(x, m, p), ~Defective("negate", x, x),
         NEW v, IsBatch(v), \A k \in Places : v[k] = -m[k], NegateOf(x) # Thrown
  PROVE  OpSound(NegateOf(x), m, m, v, p, p)
<1>1. x.cipher \in BOOLEAN /\ IsBatch(m)
  BY DEF Sound, IsElement
<1>2. CASE x.cipher
  <2> DEFINE c == NegateC(x.e, NewCipher)
  <2>1. NegateOf(x) = Result(x, x, c) /\ c # Thrown
    BY <1>2 DEF NegateOf, Result
  <2>2. CipherSound(x.e, m, p) /\ ~x.e.packed
    BY <1>2 DEF Sound, Defective, Packed
  <2>3. CipherSound(c, v, p)
    BY <1>1, <2>1, <2>2, NegateCSound
  <2> HIDE DEF c
  <2>4. QED BY <2>1, <2>3, ResultSound
<1>3. CASE ~x.cipher
  <2>1. NegateOf(x) = PlainResult(x, x, NegateP(x.e))
    BY <1>3 DEF NegateOf
  <2>2. PlainSound(x.e, m)
    BY <1>3 DEF Sound
  <2>3. Means(x.e, m) /\ x.e = Plain(x.e.values, x.e.packed)
    BY <2>2, PlainParts
  <2>4. PlainSound(NegateP(x.e), v)
    BY <2>3, NegatePMeans
  <2>5. QED BY <2>1, <2>4, PlainResultOpSound
<1>4. QED BY <1>1, <1>2, <1>3

LEMMA ReluOfSound ==
  ASSUME BatchesFit, NEW x, NEW m, NEW p \in Nat, Sound(x, m, p),
         NEW v, IsBatch(v), \A k \in Places : v[k] = Relu(m[k]), ReluOf(x) # Thrown
  PROVE  OpSound(ReluOf(x), m, m, v, p, 0)
<1> DEFINE f == ReluFunction
<1>1. x.cipher \in BOOLEAN /\ IsBatch(m) /\ \A k \in Places : m[k] \in Int
  BY DEF Sound, IsElement, IsBatch
<1>2. f \in [Int -> Int] /\ \A k \in Places : v[k] = f[m[k]]
  BY <1>1, FunctionTypes, 0 \in Nat
<1>3. CASE x.cipher
  <2> DEFINE t == Decrypt(x.e)
             s == MapPlain(Relu, t)
             c == Encrypt(NewCipher, s)
  <2>1. CipherSound(x.e, m, p)
    BY <1>3 DEF Sound
  <2>2. t # Thrown /\ t = Plain(t.values, x.e.packed) /\ Means(t, m)
    BY <1>1, <2>1, DecryptMeans
  <2>3. ReluOf(x) = Result(x, x, c)
    BY <1>3, <2>2 DEF ReluOf, ReluC, Then
  <2>4. c # Thrown
    BY <2>3 DEF Result
  <2>5. s = Plain(EachValue(f, t), t.packed)
    <3> HIDE DEF t
    <3>1. t = Plain(t.values, t.packed) /\ t.values \in Seq(Int)
      BY <2>2 DEF Plain, Means
    <3>2. QED BY <3>1, MapRelu
  <2> HIDE DEF s, f
  <2>6. CipherSound(c, v, 0)
    BY <1>1, <1>2, <2>1, <2>4, <2>5, EachValueEncrypted
  <2> HIDE DEF c
  <2>7. OpSound(Result(x, x, c), m, m, v, p, 0)
    BY <2>4, <2>6, ResultSound
  <2>8. QED BY <2>3, <2>7
<1>4. CASE ~x.cipher
  <2>1. ReluOf(x) = PlainResult(x, x, ReluP(x.e))
    BY <1>4 DEF ReluOf
  <2>2. PlainSound(x.e, m)
    BY <1>4 DEF Sound
  <2>3. Means(x.e, m) /\ x.e.values \in Seq(Int) /\ x.e = Plain(x.e.values, x.e.packed)
    BY <2>2, PlainParts
  <2>4. ReluP(x.e) = Clear(EachValue(f, x.e))
    BY <2>3, MapRelu
  <2> HIDE DEF f
  <2> DEFINE g == EachValue(f, x.e)
  <2>5. PlainSound(Clear(g), v)
    <3>1. Means(x.e, m)
      BY <2>3
    <3>2. /\ g \in [DOMAIN x.e.values -> Int]
          /\ \A k \in Places : v[k] = g[IF IsSingle(x.e) THEN 1 ELSE k]
      BY <1>2, <3>1, EachValueMeans
    <3> HIDE DEF g
    <3>3. QED BY <3>1, <3>2, PlainResultSound
  <2>6. PlainSound(ReluP(x.e), v)
    BY <2>4, <2>5
  <2>7. OpSound(PlainResult(x, x, ReluP(x.e)), m, m, v, p, 0)
    BY <2>6, PlainResultOpSound
  <2>8. QED BY <2>1, <2>7
<1>5. QED BY <1>1, <1>3, <1>4

LEMMA BoundedReluOfSound ==
  ASSUME BatchesFit, NEW alpha \in Nat, NEW x, NEW m, NEW p \in Nat, Sound(x, m, p),
         NEW v, IsBatch(v), \A k \in Places : v[k] = IF Relu(m[k]) < alpha THEN Relu(m[k]) ELSE alpha,
         BoundedReluOf(x, alpha) # Thrown
  PROVE  OpSound(BoundedReluOf(x, alpha), m, m, v, p, 0)
<1> DEFINE f == BoundedFunction(alpha)
<1>1. x.cipher \in BOOLEAN /\ IsBatch(m) /\ \A k \in Places : m[k] \in Int
  BY DEF Sound, IsElement, IsBatch
<1>2. f \in [Int -> Int] /\ \A k \in Places : v[k] = f[m[k]]
  BY <1>1, FunctionTypes
<1>3. CASE x.cipher
  <2> DEFINE t == Decrypt(x.e)
             s == MapPlain(LAMBDA z : BoundedRelu(z, alpha), t)
             c == Encrypt(NewCipher, s)
  <2>1. CipherSound(x.e, m, p)
    BY <1>3 DEF Sound
  <2>2. t # Thrown /\ t = Plain(t.values, x.e.packed) /\ Means(t, m)
    BY <1>1, <2>1, DecryptMeans
  <2>3. BoundedReluOf(x, alpha) = Result(x, x, c)
    BY <1>3, <2>2 DEF BoundedReluOf, BoundedReluC, Then
  <2>4. c # Thrown
    BY <2>3 DEF Result
  <2>5. s = Plain(EachValue(f, t), t.packed)
    <3> HIDE DEF t
    <3>1. t = Plain(t.values, t.packed) /\ t.values \in Seq(Int)
      BY <2>2 DEF Plain, Means
    <3>2. QED BY <3>1, MapBoundedRelu
  <2> HIDE DEF s, f
  <2>6. CipherSound(c, v, 0)
    BY <1>1, <1>2, <2>1, <2>4, <2>5, EachValueEncrypted
  <2> HIDE DEF c
  <2>7. OpSound(Result(x, x, c), m, m, v, p, 0)
    BY <2>4, <2>6, ResultSound
  <2>8. QED BY <2>3, <2>7
<1>4. CASE ~x.cipher
  <2>1. BoundedReluOf(x, alpha) = PlainResult(x, x, BoundedReluP(x.e, alpha))
    BY <1>4 DEF BoundedReluOf
  <2>2. PlainSound(x.e, m)
    BY <1>4 DEF Sound
  <2>3. Means(x.e, m) /\ x.e.values \in Seq(Int) /\ x.e = Plain(x.e.values, x.e.packed)
    BY <2>2, PlainParts
  <2>4. BoundedReluP(x.e, alpha) = Clear(EachValue(f, x.e))
    BY <2>3, MapBoundedRelu
  <2> HIDE DEF f
  <2> DEFINE g == EachValue(f, x.e)
  <2>5. PlainSound(Clear(g), v)
    <3>1. Means(x.e, m)
      BY <2>3
    <3>2. /\ g \in [DOMAIN x.e.values -> Int]
          /\ \A k \in Places : v[k] = g[IF IsSingle(x.e) THEN 1 ELSE k]
      BY <1>2, <3>1, EachValueMeans
    <3> HIDE DEF g
    <3>3. QED BY <3>1, <3>2, PlainResultSound
  <2>6. PlainSound(BoundedReluP(x.e, alpha), v)
    BY <2>4, <2>5
  <2>7. OpSound(PlainResult(x, x, BoundedReluP(x.e, alpha)), m, m, v, p, 0)
    BY <2>6, PlainResultOpSound
  <2>8. QED BY <2>1, <2>7
<1>5. QED BY <1>1, <1>3, <1>4
-----------------------------------------------------------------------------
(* What does not throw: what is at the scale of the parameters, with levels  *)
(* left and numbers the modulus has room for.                                *)

\* Every level has room for the scale, and all but the last for its square.
LEMMA ModulusRoom ==
  ASSUME EqualPrimes, NEW l \in Levels
  PROVE  ~OutOfBounds(Scale, l) /\ (l # 0 => ~OutOfBounds(2 * Scale, l))
<1>1. CASE l = 0
  BY <1>1, ScaleType, TotalBitsSums DEF EqualPrimes, OutOfBounds
<1>2. CASE l # 0
  BY <1>2, OnePrime, ScaleType DEF OutOfBounds
<1>3. QED BY <1>1, <1>2

\* A ciphertext, a tuple, plain values: none is what a failed operation gives.
LEMMA CipherIsSome == ASSUME NEW c, IsCipher(c) PROVE c # Thrown
<1>1. "zero" \in DOMAIN c
  BY DEF IsCipher
<1>2. DOMAIN Thrown = {"thrown"}
  BY DEF Thrown
<1>3. QED BY <1>1, <1>2

LEMMA ExceptIsSome ==
  ASSUME NEW c, "zero" \in DOMAIN c, NEW v
  PROVE  [c EXCEPT !.packed = v] # Thrown /\ NonZeroOut(c) # Thrown
<1>1. DOMAIN [c EXCEPT !.packed = v] = DOMAIN c /\ DOMAIN NonZeroOut(c) = DOMAIN c
  BY DEF NonZeroOut
<1>2. DOMAIN Thrown = {"thrown"}
  BY DEF Thrown
<1>3. QED BY <1>1, <1>2

LEMMA TripleIsSome == ASSUME NEW x, NEW y, NEW z PROVE <<x, y, z>> # Thrown
<1>1. DOMAIN <<x, y, z>> = 1..3 /\ DOMAIN Thrown = {"thrown"}
  BY DEF Thrown
<1>2. 1 \in 1..3 /\ 2 \in 1..3 /\ 1 # 2
  OBVIOUS
<1>3. QED BY <1>1, <1>2

\* Each of the values can be encoded at a level.
FitsAt(p, l) == \A i \in DOMAIN p.values : Fits(p.values[i], Scale, l)

\* Values that fit, no more of them than the slots hold.
LEMMA EncodeSome ==
  ASSUME NEW p, p.values \in Seq(Int), p.packed \in BOOLEAN,
         Len(p.values) <= Slots \/ (p.packed /\ Len(p.values) <= 2 * Slots),
         NEW l \in Levels, FitsAt(p, l)
  PROVE  EncodeAt(p, l, Scale) # Thrown
<1> DEFINE n == Len(p.values)
<1>1. n \in Nat /\ Slots \in Nat \ {0}
  BY SizesType, LenProperties
<1>2. Len(SlotsOf(p)) <= Slots
  <2>1. CASE IsSingle(p)
    <3> DEFINE pair == <<p.values[1], IF p.packed THEN p.values[1] ELSE 0>>
    <3>1. SlotsOf(p) = [i \in 1..Slots |-> pair]
      BY <2>1 DEF SlotsOf
    <3> HIDE DEF pair
    <3>2. QED BY <1>1, <3>1
  <2>2. CASE ~IsSingle(p) /\ ~p.packed
    <3>1. SlotsOf(p) = [i \in 1..n |-> <<p.values[i], 0>>]
      BY <2>2 DEF SlotsOf
    <3> HIDE DEF n
    <3>2. Len(SlotsOf(p)) = n
      BY <1>1, <3>1
    <3>3. QED BY <2>2, <3>2 DEF n
  <2>3. CASE ~IsSingle(p) /\ p.packed
    <3> DEFINE half == (n + 1) \div 2
    <3>1. half \in Nat /\ half <= Slots
      <4>1. \A k, s \in Nat : k <= s \/ k <= 2 * s => (k + 1) \div 2 \in Nat /\ (k + 1) \div 2 <= s
        OBVIOUS
      <4> HIDE DEF n
      <4>2. n <= Slots \/ n <= 2 * Slots
        BY DEF n
      <4>3. QED BY <1>1, <4>1, <4>2
    <3>2. SlotsOf(p) = [i \in 1..half |->
                          <<p.values[2*i - 1], IF 2*i <= n THEN p.values[2*i] ELSE 0>>]
      BY <2>3 DEF SlotsOf, PairsOf
    <3> HIDE DEF half, n
    <3>3. QED BY <3>1, <3>2
  <2>4. QED BY <2>1, <2>2, <2>3
<1>3. EncodeAt(p, l, Scale) = Data(l, Scale, Padded(SlotsOf(p)))
  BY <1>2 DEF EncodeAt, FitsAt
<1>4. QED BY <1>3, DataIsSome

LEMMA EncryptSome ==
  ASSUME NEW out, IsCipher(out), NEW p, p.values \in Seq(Int), p.packed \in BOOLEAN,
         Len(p.values) <= Slots \/ (p.packed /\ Len(p.values) <= 2 * Slots), FitsAt(p, Top)
  PROVE  IsCipher(Encrypt(out, p)) /\ Encrypt(out, p) # Thrown
<1>1. Encode(p) # Thrown
  BY LevelsInt, EncodeSome DEF Encode
<1>2. QED BY <1>1, EncodedCipher, CipherIsSome

\* Nor does storing a result.
LEMMA AssignedSome ==
  ASSUME NEW d, d # Thrown
  PROVE  /\ Assigned(NewCipher, d) # Thrown
         /\ Assigned(NewCipher, d) = [zero |-> FALSE, packed |-> FALSE, data |-> d]
         /\ "zero" \in DOMAIN Assigned(NewCipher, d)
<1>1. Assigned(NewCipher, d) = [zero |-> FALSE, packed |-> FALSE, data |-> d]
  BY DEF Assigned, NewCipher
<1>2. "zero" \in DOMAIN Assigned(NewCipher, d) /\ DOMAIN Thrown = {"thrown"}
  BY <1>1 DEF Thrown
<1>3. QED BY <1>1, <1>2

LEMMA EvalNegateSome == ASSUME NEW x, HasData(x) PROVE EvalNegate(x) # Thrown
<1> DEFINE slots == [i \in 1..Slots |-> <<-x.slots[i][1], -x.slots[i][2]>>]
<1>1. x # NoData
  BY HasDataIsSome
<1>2. EvalNegate(x) = [x EXCEPT !.slots = slots]
  BY <1>1 DEF EvalNegate
<1> HIDE DEF slots
<1>3. [x EXCEPT !.slots = slots] = Data(x.level, x.scale, slots)
  BY DEF HasData, Data
<1>4. QED BY <1>2, <1>3, DataIsSome

\* Data that has paid is at the scale, at a level of the modulus.
LEMMA PaidData ==
  ASSUME NEW c, NEW m, NEW n \in Nat, CipherSound(c, m, n), ~c.zero
  PROVE  /\ HasData(c.data) /\ c.data # NoData
         /\ c.data.scale = Scale /\ c.data.level \in Levels /\ c.data.level \in Nat
         /\ n < Top => c.data.level # 0
<1>1. HasData(c.data) /\ Paid(c.data, n)
  BY DEF CipherSound, Holds
<1>2. c.data.level \in Levels /\ c.data.level \in Nat /\ Top \in Nat
  BY <1>1, ScaleType DEF HasData, Levels
<1>3. QED BY <1>1, <1>2, HasDataIsSome DEF Paid

\* Matching levels does not throw.
LEMMA LoweredSome ==
  ASSUME EqualPrimes, NEW x, HasData(x), x.scale = Scale, NEW y, HasData(y), y.scale = Scale
  PROVE  LoweredTo(x, y) # Thrown
<1> DEFINE d == ModSwitchTo(x, y.level)
<1>1. ~OutOfBounds(x.scale, y.level)
  BY ModulusRoom DEF HasData
<1>2. d = [x EXCEPT !.level = y.level]
  BY <1>1 DEF ModSwitchTo
<1>3. [x EXCEPT !.level = y.level] = Data(y.level, x.scale, x.slots)
  BY DEF HasData, Data
<1>4. d # Thrown /\ d.scale = Scale
  BY <1>2, <1>3, DataIsSome DEF Data
<1> HIDE DEF d
<1>5. LoweredTo(x, y) = d
  BY <1>4 DEF LoweredTo, WithinRescaleTolerance, d
<1>6. QED BY <1>4, <1>5

LEMMA MatchSome ==
  ASSUME EqualPrimes, NEW x, HasData(x), x.scale = Scale, NEW y, HasData(y), y.scale = Scale
  PROVE  MatchModulusAndScale(x, y) # Thrown
<1> DEFINE lx == IF x.level > y.level THEN LoweredTo(x, y) ELSE x
           ly == IF x.level < y.level THEN LoweredTo(y, x) ELSE y
<1>1. x # NoData /\ y # NoData
  BY HasDataIsSome
<1>2. x # Thrown /\ y # Thrown
  BY DataIsSome DEF HasData
<1>3. lx # Thrown /\ ly # Thrown
  BY <1>2, LoweredSome
<1>4. MatchModulusAndScale(x, y) = <<lx, ly>>
  BY <1>1, <1>3 DEF MatchModulusAndScale
<1> HIDE DEF lx, ly
<1>5. DOMAIN <<lx, ly>> = 1..2 /\ DOMAIN Thrown = {"thrown"} /\ 1 \in 1..2 /\ 2 \in 1..2 /\ 1 # 2
  BY DEF Thrown
<1>6. <<lx, ly>> # Thrown
  BY <1>5
<1>7. QED BY <1>4, <1>6
-----------------------------------------------------------------------------
(* Operations on ciphertexts that do not throw.                              *)

\* A sum throws only where one term is packed and the other is not.
LEMMA AddCCSome ==
  ASSUME EqualPrimes, NEW a, NEW m, NEW p \in Nat, CipherSound(a, m, p),
         NEW b, NEW n, NEW q \in Nat, CipherSound(b, n, q),
         a.zero \/ b.zero \/ a.packed = b.packed
  PROVE  AddCC(a, b, NewCipher) # Thrown
<1> DEFINE r == AddCC(a, b, NewCipher)
<1>1. CASE a.zero \/ b.zero
  <2>1. r \in {<<a, b, ZeroOut(NewCipher)>>, <<a, b, b>>, <<a, b, a>>}
    BY <1>1 DEF AddCC
  <2>2. QED BY <2>1, TripleIsSome
<1>2. CASE ~a.zero /\ ~b.zero
  <2> DEFINE t == MatchModulusAndScale(a.data, b.data)
             d == EvalAdd(t[1], t[2])
  <2>1. /\ HasData(a.data) /\ a.data.scale = Scale /\ Paid(a.data, p)
        /\ HasData(b.data) /\ b.data.scale = Scale /\ Paid(b.data, q)
    BY <1>2, PaidData DEF CipherSound
  <2>2. t # Thrown
    BY <2>1, MatchSome
  <2>3. r = AddMatched(a, b, t, NewCipher)
    BY <1>2, <2>2 DEF AddCC, Then
  <2>4. HasData(t[1]) /\ HasData(t[2]) /\ t[1].level = t[2].level /\ t[1].scale = t[2].scale
    BY <2>1, <2>2, MatchPaid DEF Paid
  <2> HIDE DEF t
  <2>5. d # Thrown
    BY <2>4, HasDataIsSome, EvalAddSome
  <2>6. r = <<[a EXCEPT !.data = t[1]], [b EXCEPT !.data = t[2]],
              [zero |-> FALSE, packed |-> b.packed, data |-> d]>>
    BY <2>3, <2>5 DEF AddMatched, Then
  <2> HIDE DEF r, d
  <2>7. r # Thrown
    BY <2>6, TripleIsSome
  <2>8. QED BY <2>7 DEF r
<1>3. QED BY <1>1, <1>2

\* A product of two ciphertexts throws only where no level is left to rescale to.
LEMMA MultiplyCCSome ==
  ASSUME EqualPrimes, NEW a, NEW m, NEW p \in Nat, CipherSound(a, m, p),
         NEW b, NEW n, NEW q \in Nat, CipherSound(b, n, q), Larger(p, q) < Top
  PROVE  MultiplyCC(a, b, NewCipher) # Thrown
<1> DEFINE r == MultiplyCC(a, b, NewCipher)
<1>1. CASE a.zero \/ b.zero
  <2>1. r = <<a, b, ZeroOut(NewCipher)>>
    BY <1>1 DEF MultiplyCC
  <2>2. QED BY <2>1, TripleIsSome
<1>2. CASE ~a.zero /\ ~b.zero
  <2> DEFINE t == MatchModulusAndScale(a.data, b.data)
             d == EvalMultiply(t[1], t[2])
  <2>1. /\ HasData(a.data) /\ a.data.scale = Scale /\ Paid(a.data, p)
        /\ HasData(b.data) /\ b.data.scale = Scale /\ Paid(b.data, q)
    BY <1>2, PaidData DEF CipherSound
  <2>2. t # Thrown
    BY <2>1, MatchSome
  <2>3. r = MultiplyMatched(a, b, t, NewCipher)
    BY <1>2, <2>2 DEF MultiplyCC, Then
  <2>4. /\ HasData(t[1]) /\ HasData(t[2]) /\ t[1].level = t[2].level
        /\ Paid(t[1], Larger(p, q)) /\ Paid(t[2], Larger(p, q))
    BY <2>1, <2>2, MatchPaid
  <2> HIDE DEF t
  <2>5. t[1].scale = Scale /\ t[2].scale = Scale /\ t[1].level # 0 /\ t[2].level # 0
    <3>1. Larger(p, q) \in Nat /\ Top \in Nat
      BY LargerType, ScaleType
    <3>2. t[1].level >= Top - Larger(p, q)
      BY <2>4 DEF Paid
    <3>3. QED BY <2>4, <3>1, <3>2 DEF Paid
  <2>6. d # Thrown
    BY <2>4, <2>5, EvalMultiplySome
  <2>7. r = <<[a EXCEPT !.data = t[1]], [b EXCEPT !.data = t[2]],
              [NonZeroOut(NewCipher) EXCEPT !.data = RescaleToNext(d)]>>
    BY <2>3, <2>5, <2>6 DEF MultiplyMatched, Then
  <2> HIDE DEF r, d
  <2>8. r # Thrown
    BY <2>7, TripleIsSome
  <2>9. QED BY <2>8 DEF r
<1>3. QED BY <1>1, <1>2

LEMMA NonZeroSome == ASSUME NEW c, IsCipher(c) PROVE NonZeroOut(c) # Thrown
BY NonZeroCipher, CipherIsSome

\* Encoded where data is.
LEMMA EncodedSome ==
  ASSUME NEW d, HasData(d), d.scale = Scale,
         NEW p, p.values \in Seq(Int), p.packed \in BOOLEAN, Len(p.values) <= Slots, FitsAt(p, d.level)
  PROVE  LET e == EncodeAt(p, d.level, d.scale)
         IN  e # Thrown /\ HasData(e) /\ e # NoData /\ e.level = d.level /\ e.scale = Scale
<1> DEFINE e == EncodeAt(p, d.level, Scale)
<1>1. d.level \in Levels
  BY DEF HasData
<1>2. e # Thrown
  BY <1>1, EncodeSome
<1>3. HasData(e) /\ e.level = d.level /\ e.scale = Scale
  BY <1>1, <1>2, EncodeAtHas
<1> HIDE DEF e
<1>4. e # NoData
  BY <1>3, HasDataIsSome
<1>5. QED BY <1>2, <1>3, <1>4 DEF e

LEMMA ClearParts ==
  ASSUME NEW p, NEW m, PlainSound(p, m)
  PROVE  p.values \in Seq(Int) /\ p.packed = FALSE /\ p.packed \in BOOLEAN
<1>1. Plain(p.values, FALSE).packed = FALSE
  BY DEF Plain
<1>2. QED BY <1>1 DEF PlainSound, Means

LEMMA AddCPSome ==
  ASSUME NEW a, NEW m, NEW n \in Nat, CipherSound(a, m, n),
         NEW p, NEW w, PlainSound(p, w), Len(p.values) <= Slots,
         FitsAt(p, Top), ~a.zero => FitsAt(p, a.data.level)
  PROVE  AddCP(a, p, NewCipher) # Thrown
<1>1. p.values \in Seq(Int) /\ p.packed \in BOOLEAN
  BY ClearParts
<1>2. CASE a.zero
  <2>1. IsCipher(Encrypt(NewCipher, p)) /\ Encrypt(NewCipher, p) # Thrown
    BY <1>1, NewIsCipher, EncryptSome
  <2>2. AddCP(a, p, NewCipher) = NonZeroOut(Encrypt(NewCipher, p))
    BY <1>2, <2>1 DEF AddCP, Then
  <2>3. QED BY <2>1, <2>2, NonZeroSome
<1>3. CASE ~a.zero /\ p.values = << 0 >>
  <2>1. AddCP(a, p, NewCipher) = a
    BY <1>3 DEF AddCP
  <2>2. QED BY <2>1, CipherIsSome DEF CipherSound
<1> DEFINE d == a.data
<1>4. ~a.zero => HasData(d) /\ d # NoData /\ d.scale = Scale /\ FitsAt(p, d.level)
  BY PaidData
<1>5. CASE ~a.zero /\ p.values # << 0 >> /\ IsSingle(p)
  <2> DEFINE s == [i \in 1..Slots |-> ComplexSum(d.slots[i], <<p.values[1], 0>>)]
             e == AddPlain(d, p.values[1])
  <2>1. Fits(p.values[1], Scale, d.level)
    BY <1>1, <1>4, <1>5 DEF FitsAt, IsSingle
  <2>2. e = [d EXCEPT !.slots = s]
    BY <1>4, <1>5, <2>1 DEF AddPlain
  <2> HIDE DEF s, d
  <2>3. [d EXCEPT !.slots = s] = Data(d.level, d.scale, s)
    BY <1>4, <1>5 DEF HasData, Data
  <2>4. e # Thrown
    BY <2>2, <2>3, DataIsSome
  <2>5. AddCP(a, p, NewCipher) = Assigned(NewCipher, e)
    BY <1>5 DEF AddCP, d
  <2> HIDE DEF e
  <2>6. QED BY <2>4, <2>5, AssignedSome
<1>6. CASE ~a.zero /\ p.values # << 0 >> /\ ~IsSingle(p)
  <2> DEFINE e == EncodeAt(p, d.level, d.scale)
             s == EvalAdd(d, e)
             c == Assigned(NewCipher, s)
  <2>1. e # Thrown /\ e # NoData /\ e.level = d.level /\ e.scale = d.scale
    BY <1>1, <1>4, <1>6, EncodedSome
  <2>2. s # Thrown
    BY <1>4, <1>6, <2>1, EvalAddSome
  <2>3. AddCP(a, p, NewCipher) = [c EXCEPT !.packed = a.packed]
    BY <1>4, <1>6, <2>1 DEF AddCP, Then
  <2>4. "zero" \in DOMAIN c
    BY <2>2, AssignedSome
  <2> HIDE DEF c
  <2>5. QED BY <2>3, <2>4, ExceptIsSome
<1>7. QED BY <1>2, <1>3, <1>5, <1>6

\* The rest of the kernels of ciphertexts with numbers.
LEMMA NegateCSome ==
  ASSUME NEW a, NEW m, NEW n \in Nat, CipherSound(a, m, n)
  PROVE  NegateC(a, NewCipher) # Thrown
<1>1. CASE a.zero
  BY <1>1, NewIsCipher, NonZeroCipher, CipherIsSome DEF NegateC
<1>2. CASE ~a.zero
  <2>1. EvalNegate(a.data) # Thrown
    BY <1>2, PaidData, EvalNegateSome
  <2>2. NegateC(a, NewCipher) = Assigned(NewCipher, EvalNegate(a.data))
    BY <1>2 DEF NegateC
  <2>3. QED BY <2>1, <2>2, AssignedSome
<1>3. QED BY <1>1, <1>2

\* New data, and the zero flag cleared.
LEMMA NonZeroAssignedSome ==
  ASSUME NEW d, d # Thrown
  PROVE  Then(Assigned(NewCipher, d), NonZeroOut) # Thrown
<1> DEFINE c == Assigned(NewCipher, d)
<1>1. c # Thrown /\ "zero" \in DOMAIN c
  BY AssignedSome
<1>2. Then(c, NonZeroOut) = NonZeroOut(c)
  BY <1>1 DEF Then
<1> HIDE DEF c
<1>3. NonZeroOut(c) # Thrown
  BY <1>1, ExceptIsSome
<1>4. QED BY <1>2, <1>3 DEF c

\* A difference of ciphertexts throws only where their levels differ.
LEMMA SubCCSome ==
  ASSUME NEW a, NEW m, NEW p \in Nat, CipherSound(a, m, p),
         NEW b, NEW n, NEW q \in Nat, CipherSound(b, n, q),
         a.zero \/ b.zero \/ a.data.level = b.data.level
  PROVE  SubCC(a, b, NewCipher) # Thrown
<1>1. CASE a.zero /\ b.zero
  BY <1>1, NewIsCipher, NonZeroCipher, CipherIsSome DEF SubCC
<1>2. CASE a.zero /\ ~b.zero
  <2>1. EvalNegate(b.data) # Thrown
    BY <1>2, PaidData, EvalNegateSome
  <2>2. SubCC(a, b, NewCipher) = Then(Assigned(NewCipher, EvalNegate(b.data)), NonZeroOut)
    BY <1>2, Zenon DEF SubCC
  <2>3. QED BY <2>1, <2>2, NonZeroAssignedSome
<1>3. CASE ~a.zero /\ b.zero
  BY <1>3, CipherIsSome DEF SubCC, CipherSound
<1>4. CASE ~a.zero /\ ~b.zero
  <2>1. EvalSub(a.data, b.data) # Thrown
    BY <1>4, PaidData, EvalSubSome
  <2>2. SubCC(a, b, NewCipher) = Then(Assigned(NewCipher, EvalSub(a.data, b.data)), NonZeroOut)
    BY <1>4, Zenon DEF SubCC
  <2>3. QED BY <2>1, <2>2, NonZeroAssignedSome
<1>5. QED BY <1>1, <1>2, <1>3, <1>4

\* The opposite of values that fit fits.
Opposite(p, packed) == [NegateP(p) EXCEPT !.packed = packed]
LEMMA NegatedFits ==
  ASSUME NEW p, p.values \in Seq(Int), p = Plain(p.values, p.packed), NEW l, FitsAt(p, l), NEW packed
  PROVE  /\ FitsAt(Opposite(p, packed), l) /\ Opposite(p, packed).values \in Seq(Int)
         /\ Opposite(p, packed).packed = packed
         /\ Len(Opposite(p, packed).values) = Len(p.values)
<1> DEFINE g == [i \in DOMAIN p.values |-> -p.values[i]]
<1>1. NegateP(p) = Plain(g, FALSE)
  <2>1. MapPlain(LAMBDA x : -x, p) = [p EXCEPT !.values = g]
    BY DEF MapPlain
  <2> HIDE DEF g
  <2>2. [p EXCEPT !.values = g] = Plain(g, p.packed)
    BY DEF Plain
  <2>3. NegateP(p) = [Plain(g, p.packed) EXCEPT !.packed = FALSE]
    BY <2>1, <2>2, Zenon DEF NegateP
  <2>4. QED BY <2>3 DEF Plain
<1>2. Opposite(p, packed).values = g /\ Opposite(p, packed).packed = packed
  <2> HIDE DEF g
  <2>1. [Plain(g, FALSE) EXCEPT !.packed = packed] = Plain(g, packed)
    BY DEF Plain
  <2>2. Opposite(p, packed) = Plain(g, packed)
    BY <1>1, <2>1, Zenon DEF Opposite
  <2>3. QED BY <2>2 DEF Plain
<1>3. DOMAIN p.values = 1..Len(p.values) /\ Len(p.values) \in Nat
  BY LenProperties
<1>4. \A i \in DOMAIN p.values : p.values[i] \in Int /\ g[i] = -p.values[i]
  OBVIOUS
<1>5. g \in Seq(Int) /\ Len(g) = Len(p.values)
  BY <1>3, <1>4
<1>6. ASSUME NEW i \in DOMAIN p.values PROVE Fits(g[i], Scale, l)
  <2>1. Fits(p.values[i], Scale, l)
    BY DEF FitsAt
  <2>2. Abs(-p.values[i]) = Abs(p.values[i]) /\ (p.values[i] = 0 => -p.values[i] = 0)
    BY <1>4 DEF Abs
  <2>3. Fits(-p.values[i], Scale, l)
    BY <2>1, <2>2, Zenon DEF Fits
  <2>4. QED BY <1>4, <2>3
<1>7. DOMAIN g = DOMAIN p.values
  OBVIOUS
<1> HIDE DEF g
<1>8. QED BY <1>2, <1>5, <1>6, <1>7 DEF FitsAt

LEMMA SubCPSome ==
  ASSUME NEW a, NEW m, NEW n \in Nat, CipherSound(a, m, n),
         NEW p, NEW w, PlainSound(p, w), Len(p.values) <= Slots,
         FitsAt(p, Top), ~a.zero => FitsAt(p, a.data.level)
  PROVE  SubCP(a, p, NewCipher) # Thrown
<1>1. p.values \in Seq(Int) /\ p.packed = FALSE /\ p.packed \in BOOLEAN /\ p = Plain(p.values, p.packed)
  BY ClearParts DEF PlainSound
<1>2. CASE a.zero
  <2> DEFINE q == Opposite(p, a.packed)
  <2>1. /\ FitsAt(q, Top) /\ q.values \in Seq(Int) /\ q.packed = a.packed
        /\ Len(q.values) = Len(p.values)
    BY <1>1, NegatedFits
  <2> HIDE DEF q
  <2>2. IsCipher(Encrypt(NewCipher, q)) /\ Encrypt(NewCipher, q) # Thrown
    BY <2>1, NewIsCipher, EncryptSome DEF CipherSound
  <2>3. SubCP(a, p, NewCipher) = NonZeroOut(Encrypt(NewCipher, q))
    BY <1>2, <2>2 DEF SubCP, Then, q, Opposite
  <2>4. QED BY <2>2, <2>3, NonZeroSome
<1>3. CASE ~a.zero
  <2> DEFINE d == a.data
             e == EncodeAt(p, d.level, d.scale)
             s == EvalSub(d, e)
  <2>1. HasData(d) /\ d # NoData /\ d.scale = Scale /\ FitsAt(p, d.level)
    BY <1>3, PaidData
  <2>2. e # Thrown /\ HasData(e) /\ e.level = d.level /\ e.scale = d.scale
    BY <1>1, <2>1, EncodedSome
  <2>3. s # Thrown
    BY <2>1, <2>2, EvalSubSome
  <2>4. SubCP(a, p, NewCipher) = NonZeroOut(Assigned(NewCipher, s))
    BY <1>3, <2>1, <2>2 DEF SubCP, Then
  <2>5. Then(Assigned(NewCipher, s), NonZeroOut) # Thrown /\ Assigned(NewCipher, s) # Thrown
    BY <2>3, AssignedSome, NonZeroAssignedSome
  <2> HIDE DEF s
  <2>6. Then(Assigned(NewCipher, s), NonZeroOut) = NonZeroOut(Assigned(NewCipher, s))
    BY <2>5 DEF Then
  <2>7. QED BY <2>4, <2>5, <2>6
<1>4. QED BY <1>2, <1>3 DEF CipherSound

LEMMA SubPCSome ==
  ASSUME BatchesFit, NEW a, NEW m, NEW n \in Nat, CipherSound(a, m, n), IsBatch(m), ~a.packed,
         NEW p, NEW w, PlainSound(p, w), Len(p.values) <= Slots,
         FitsAt(p, Top), ~a.zero => FitsAt(p, a.data.level)
  PROVE  SubPC(p, a, NewCipher) # Thrown
<1>1. p.values \in Seq(Int) /\ p.packed \in BOOLEAN
  BY ClearParts
<1>2. CASE a.zero
  <2>1. IsCipher(Encrypt(NewCipher, p)) /\ Encrypt(NewCipher, p) # Thrown
    BY <1>1, NewIsCipher, EncryptSome
  <2>2. SubPC(p, a, NewCipher) = NonZeroOut(Encrypt(NewCipher, p))
    BY <1>2, <2>1 DEF SubPC, Then
  <2>3. QED BY <2>1, <2>2, NonZeroSome
<1>3. CASE ~a.zero
  <2> DEFINE c == NegateC(a, NewCipher)
             d == EvalNegate(a.data)
             v == [k \in Places |-> -m[k]]
  <2>1. c # Thrown
    BY NegateCSome
  <2>2. \A k \in Places : v[k] = -m[k]
    BY DEF IsBatch
  <2>3. CipherSound(c, v, n)
    <3> HIDE DEF c, v
    <3>1. NegateC(a, NewCipher) # Thrown
      BY <2>1 DEF c
    <3>2. CipherSound(NegateC(a, NewCipher), v, n)
      BY <2>2, <3>1, NegateCSound
    <3>3. QED BY <3>2 DEF c
  <2>4. c = Assigned(NewCipher, d) /\ d # Thrown
    BY <1>3, PaidData, EvalNegateSome DEF NegateC
  <2>5. d.level = a.data.level
    BY <1>3, <2>4, PaidData, EvalNegateHas DEF IsData
  <2> HIDE DEF d
  <2>6. c.data = d /\ ~c.zero
    <3>1. c = [zero |-> FALSE, packed |-> FALSE, data |-> d]
      BY <2>4, AssignedSome
    <3>2. QED BY <3>1
  <2>7. SubPC(p, a, NewCipher) = AddCP(c, p, NewCipher)
    BY <1>3, <2>1 DEF SubPC, Then, AddPC
  <2> HIDE DEF c, v
  <2>8. FitsAt(p, c.data.level)
    BY <1>3, <2>5, <2>6
  <2>9. QED BY <2>3, <2>7, <2>8, AddCPSome
<1>4. QED BY <1>2, <1>3 DEF CipherSound

\* A product with values throws only where no level is left to rescale to.
LEMMA MultiplyCPSome ==
  ASSUME EqualPrimes, NEW a, NEW m, NEW n \in Nat, CipherSound(a, m, n), n < Top,
         NEW p, NEW w, PlainSound(p, w), Len(p.values) <= Slots,
         ~a.zero => FitsAt(p, a.data.level)
  PROVE  MultiplyCP(a, p, NewCipher) # Thrown
<1>1. p.values \in Seq(Int) /\ p.packed \in BOOLEAN /\ p = Plain(p.values, p.packed)
  BY ClearParts DEF PlainSound
<1> DEFINE d == a.data
           zeros == \A i \in DOMAIN p.values : p.values[i] = 0
           many == MultiplyMany(a, p, NewCipher)
           one == Assigned(NewCipher, MultiplyPlain(d, p.values[1]))
           c == IF IsSingle(p) THEN one ELSE many
<1>2. CASE a.zero \/ zeros
  BY <1>2, NewIsCipher, NonZeroCipher, CipherIsSome DEF MultiplyCP
<1>3. CASE ~a.zero /\ ~zeros
  <2>1. /\ HasData(d) /\ d # NoData /\ d.scale = Scale /\ FitsAt(p, d.level)
        /\ d.level \in Levels /\ d.level # 0
    BY <1>3, PaidData
  <2>2. ~OutOfBounds(2 * d.scale, d.level)
    BY <2>1, ModulusRoom
  <2>3. IsSingle(p) => "zero" \in DOMAIN one /\ one # Thrown
    <3>1. SUFFICES ASSUME IsSingle(p) PROVE "zero" \in DOMAIN one /\ one # Thrown
      OBVIOUS
    <3>2. Fits(p.values[1], d.scale, d.level)
      BY <1>1, <2>1, <3>1 DEF FitsAt, IsSingle
    <3> DEFINE s == [i \in 1..Slots |-> ComplexProduct(d.slots[i], <<p.values[1], 0>>)]
    <3>3. MultiplyPlain(d, p.values[1]) = Data(d.level, 2 * d.scale, s)
      BY <2>1, <2>2, <3>2 DEF MultiplyPlain
    <3> HIDE DEF s
    <3>4. MultiplyPlain(d, p.values[1]) # Thrown
      BY <3>3, DataIsSome
    <3>5. QED BY <3>4, AssignedSome
  <2>4. ~IsSingle(p) => "zero" \in DOMAIN many /\ many # Thrown
    <3>1. SUFFICES ASSUME ~IsSingle(p) PROVE "zero" \in DOMAIN many /\ many # Thrown
      OBVIOUS
    <3> DEFINE e == EncodeAt(p, d.level, d.scale)
    <3>2. e # Thrown
      BY <1>1, <2>1, EncodedSome
    <3> DEFINE s == IF EvalMultiply(d, e) = Thrown THEN d ELSE EvalMultiply(d, e)
    <3>3. many = [NewCipher EXCEPT !.data = s]
      BY <2>1, <3>2 DEF MultiplyMany, Then
    <3> HIDE DEF s, many
    <3>4. "zero" \in DOMAIN many /\ DOMAIN Thrown = {"thrown"}
      BY <3>3 DEF NewCipher, Thrown
    <3>5. QED BY <3>4
  <2>5. c # Thrown /\ "zero" \in DOMAIN c
    BY <2>3, <2>4
  <2> HIDE DEF one, many
  <2>6. MultiplyCP(a, p, NewCipher) = NonZeroOut([c EXCEPT !.packed = a.packed])
    BY <1>3, <2>5 DEF MultiplyCP, Then, one, many
  <2> HIDE DEF c
  <2>7. "zero" \in DOMAIN [c EXCEPT !.packed = a.packed]
    BY <2>5
  <2>8. QED BY <2>6, <2>7, ExceptIsSome
<1>4. QED BY <1>2, <1>3 DEF CipherSound

\* Rescaling throws only where no level is left.
LEMMA LazyRescalingSome ==
  ASSUME NEW c, NEW v, NEW n \in Nat, Unscaled(c, v, n), n < Top
  PROVE  LazyRescaling(c) # Thrown
<1>1. CASE c.zero
  BY <1>1, CipherIsSome DEF LazyRescaling, Unscaled
<1>2. CASE ~c.zero
  <2> DEFINE d == c.data
  <2>1. HasData(d) /\ d.level >= Top - n
    BY <1>2 DEF Unscaled, Holds
  <2>2. d # NoData /\ d.level # 0
    BY <2>1, ScaleType, HasDataIsSome
  <2>3. HasData(RescaleToNext(d))
    BY <2>1, <2>2, RescaleToNextHas
  <2> DEFINE e == RescaleToNext(d)
  <2>4. e # Thrown
    BY <2>3, DataIsSome DEF HasData
  <2>5. LazyRescaling(c) = [c EXCEPT !.data = e]
    BY <1>2, <2>4 DEF LazyRescaling, Assigned
  <2>6. IsCipher([c EXCEPT !.data = e])
    BY <2>3, DataCipher DEF Unscaled, IsData
  <2>7. QED BY <2>5, <2>6, CipherIsSome
<1>3. QED BY <1>1, <1>2

\* How many values a ciphertext decrypts to.
LEMMA DecryptLength ==
  ASSUME NEW c, NEW m, NEW n, CipherSound(c, m, n)
  PROVE  Len(Decrypt(c).values) <= Slots \/ (c.packed /\ Len(Decrypt(c).values) <= 2 * Slots)
<1>1. Slots \in Nat \ {0}
  BY SizesType
<1>2. \A v : Plain(v, c.packed).values = v
  BY DEF Plain
<1>3. CASE c.zero
  <2> DEFINE v == [i \in 1..Slots |-> 0]
  <2>1. Decrypt(c) = Plain(v, c.packed)
    BY <1>3 DEF Decrypt
  <2>2. Len(v) = Slots
    BY <1>1
  <2> HIDE DEF v
  <2>3. QED BY <1>1, <1>2, <2>1, <2>2
<1>4. CASE ~c.zero
  <2> DEFINE slots == c.data.slots
             v == IF c.packed THEN RealsOf(slots) ELSE [i \in 1..Slots |-> slots[i][1]]
  <2>1. c.data # NoData /\ ArePairs(slots)
    BY <1>4, HasDataIsSome DEF CipherSound, Holds
  <2>2. Decrypt(c) = Plain(v, c.packed)
    BY <1>4, <2>1 DEF Decrypt, Decode
  <2>3. Len(slots) = Slots
    BY <2>1, PairParts
  <2>4. CASE c.packed
    <3> HIDE DEF slots
    <3>1. v = [i \in 1..(2 * Slots) |-> slots[(i+1) \div 2][IF i % 2 = 1 THEN 1 ELSE 2]]
      BY <2>3, <2>4 DEF RealsOf
    <3> HIDE DEF v
    <3>2. Len(v) = 2 * Slots
      BY <1>1, <3>1
    <3>3. Decrypt(c).values = v
      BY <1>2, <2>2
    <3>4. Len(Decrypt(c).values) <= 2 * Slots
      BY <1>1, <3>2, <3>3
    <3>5. QED BY <2>4, <3>4
  <2>5. CASE ~c.packed
    <3> HIDE DEF slots
    <3>1. v = [i \in 1..Slots |-> slots[i][1]]
      BY <2>5
    <3> HIDE DEF v
    <3>2. Len(v) = Slots
      BY <1>1, <3>1
    <3>3. QED BY <1>1, <1>2, <2>2, <3>2
  <2>6. QED BY <2>4, <2>5
<1>5. QED BY <1>3, <1>4

\* A function that gives zero, its argument or a number that fits.
KeepsFitting(f) == \A z \in Int : f[z] = 0 \/ f[z] = z \/ Fits(f[z], Scale, Top)

LEMMA EachValueFits ==
  ASSUME EqualPrimes, NEW p, p.values \in Seq(Int), FitsAt(p, Top), NEW f \in [Int -> Int], KeepsFitting(f),
         NEW packed
  PROVE  LET q == Plain(EachValue(f, p), packed)
         IN  /\ q.values \in Seq(Int) /\ Len(q.values) = Len(p.values)
             /\ q.packed = packed /\ FitsAt(q, Top)
<1> DEFINE g == EachValue(f, p)
           q == Plain(g, packed)
<1>1. \A i \in DOMAIN p.values : p.values[i] \in Int
  OBVIOUS
<1>2. DOMAIN g = DOMAIN p.values /\ \A i \in DOMAIN g : g[i] = f[p.values[i]] /\ g[i] \in Int
  BY <1>1 DEF EachValue
<1>3. DOMAIN p.values = 1..Len(p.values) /\ Len(p.values) \in Nat
  BY LenProperties
<1>4. g = [i \in 1..Len(p.values) |-> g[i]]
  BY <1>2, <1>3 DEF EachValue
<1>5. q.values = g /\ q.packed = packed
  BY DEF Plain
<1> HIDE DEF g
<1>6. g \in Seq(Int) /\ Len(g) = Len(p.values)
  <2> DEFINE n == Len(p.values)
  <2>1. n \in Nat /\ g \in [1..n -> Int]
    BY <1>2, <1>3, <1>4
  <2> HIDE DEF n
  <2>2. g \in Seq(Int) /\ Len(g) = n
    BY <2>1
  <2>3. QED BY <2>2 DEF n
<1>7. Fits(0, Scale, Top)
  BY LevelsInt, ModulusRoom DEF Fits
<1>8. ASSUME NEW i \in DOMAIN g PROVE Fits(g[i], Scale, Top)
  <2>1. Fits(p.values[i], Scale, Top) /\ p.values[i] \in Int
    BY <1>1, <1>2 DEF FitsAt
  <2>2. g[i] = 0 \/ g[i] = p.values[i] \/ Fits(g[i], Scale, Top)
    BY <1>2, <2>1 DEF KeepsFitting
  <2>3. QED BY <1>7, <2>1, <2>2
<1>9. QED BY <1>5, <1>6, <1>8 DEF FitsAt, g

\* What an activation encrypts.
LEMMA ActivationSome ==
  ASSUME BatchesFit, EqualPrimes, NEW a, NEW m, NEW n, CipherSound(a, m, n), IsBatch(m),
         FitsAt(Decrypt(a), Top), NEW f \in [Int -> Int], KeepsFitting(f)
  PROVE  Encrypt(NewCipher, Plain(EachValue(f, Decrypt(a)), Decrypt(a).packed)) # Thrown
<1> DEFINE p == Decrypt(a)
           q == Plain(EachValue(f, p), p.packed)
<1>1. p = Plain(p.values, a.packed) /\ p.values \in Seq(Int) /\ a.packed \in BOOLEAN
  BY DecryptMeans DEF CipherSound, Means
<1>2. p.packed = a.packed
  BY <1>1 DEF Plain
<1>3. Len(p.values) <= Slots \/ (a.packed /\ Len(p.values) <= 2 * Slots)
  BY DecryptLength
<1> HIDE DEF p
<1>4. FitsAt(p, Top)
  BY DEF p
<1>5. q.values \in Seq(Int) /\ Len(q.values) = Len(p.values) /\ q.packed = a.packed /\ FitsAt(q, Top)
  BY <1>1, <1>2, <1>4, EachValueFits
<1> HIDE DEF q
<1>6. Encrypt(NewCipher, q) # Thrown
  BY <1>1, <1>3, <1>5, NewIsCipher, EncryptSome
<1>7. QED BY <1>6 DEF q, p

LEMMA FunctionsFit ==
  ASSUME NEW alpha \in Nat
  PROVE  KeepsFitting(ReluFunction) /\ (Fits(alpha, Scale, Top) => KeepsFitting(BoundedFunction(alpha)))
<1>1. \A z \in Int : ReluFunction[z] = 0 \/ ReluFunction[z] = z
  BY DEF ReluFunction, Relu
<1>2. \A z \in Int : BoundedFunction(alpha)[z] \in {0, z, alpha}
  BY DEF BoundedFunction, BoundedRelu
<1>3. QED BY <1>1, <1>2 DEF KeepsFitting
-----------------------------------------------------------------------------
(* Operations on elements that do not throw.                                 *)

LEMMA PlainIsSome == ASSUME NEW g, NEW packed PROVE Plain(g, packed) # Thrown
<1>1. "values" \in DOMAIN Plain(g, packed) /\ DOMAIN Thrown = {"thrown"}
  BY DEF Plain, Thrown
<1>2. QED BY <1>1

\* Operations on as many values on either side.
LEMMA PairedSome ==
  ASSUME NEW p, NEW q, Len(p.values) = Len(q.values)
  PROVE  AddPP(p, q) # Thrown /\ MultiplyPP(p, q) # Thrown /\ MinimumPP(p, q) # Thrown
BY PlainIsSome DEF AddPP, MultiplyPP, MinimumPP, ZipPlain

LEMMA ResultsSome ==
  ASSUME NEW x, NEW y, NEW c, c # Thrown
  PROVE  Result(x, y, c) # Thrown /\ PlainResult(x, y, c) # Thrown /\ CipherResults(c) # Thrown
BY TripleIsSome DEF Result, PlainResult, CipherResults

\* The values of x, if they are in the clear, can be encoded where y is.
FitsWith(x, y) ==
  ~x.cipher /\ y.cipher =>
    /\ Len(x.e.values) <= Slots
    /\ FitsAt(x.e, Top)
    /\ ~y.e.zero => FitsAt(x.e, y.e.data.level)

\* An addition that is not known to be wrong on its operands does not throw.
LEMMA AddOfSome ==
  ASSUME EqualPrimes, NEW x, NEW m, NEW p \in Nat, Sound(x, m, p),
         NEW y, NEW n, NEW q \in Nat, Sound(y, n, q), ~Defective("add", x, y),
         FitsWith(x, y), FitsWith(y, x)
  PROVE  AddOf(x, y) # Thrown
<1>1. x.cipher \in BOOLEAN /\ y.cipher \in BOOLEAN
  BY BothPaid
<1>2. CASE x.cipher /\ y.cipher
  <2>1. AddOf(x, y) = CipherResults(AddCC(x.e, y.e, NewCipher))
    BY <1>2, OutIsNew DEF AddOf, ScalarAdd
  <2>2. CipherSound(x.e, m, p) /\ CipherSound(y.e, n, q)
    BY <1>2, BothPaid
  <2>3. x.e.zero \/ y.e.zero \/ x.e.packed = y.e.packed
    <3>1. CASE Packed(x) \/ Packed(y)
      BY <3>1 DEF Defective, AddsPacked
    <3>2. CASE ~Packed(x) /\ ~Packed(y)
      BY <1>2, <2>2, <3>2 DEF Packed, CipherSound
    <3>3. QED BY <3>1, <3>2
  <2>4. AddCC(x.e, y.e, NewCipher) # Thrown
    BY <2>2, <2>3, AddCCSome
  <2>5. QED BY <2>1, <2>4, ResultsSome
<1>3. CASE x.cipher /\ ~y.cipher
  <2>1. AddOf(x, y) = Result(x, y, AddCP(x.e, y.e, NewCipher))
    BY <1>3, OutIsNew DEF AddOf, ScalarAdd
  <2>2. CipherSound(x.e, m, p) /\ PlainSound(y.e, n)
    BY <1>3, BothPaid
  <2>3. AddCP(x.e, y.e, NewCipher) # Thrown
    BY <1>3, <2>2, AddCPSome DEF FitsWith
  <2>4. QED BY <2>1, <2>3, ResultsSome
<1>4. CASE ~x.cipher /\ y.cipher
  <2>1. AddOf(x, y) = Result(x, y, AddCP(y.e, x.e, NewCipher))
    BY <1>4, OutIsNew DEF AddOf, ScalarAdd, AddPC
  <2>2. CipherSound(y.e, n, q) /\ PlainSound(x.e, m)
    BY <1>4, BothPaid
  <2>3. AddCP(y.e, x.e, NewCipher) # Thrown
    BY <1>4, <2>2, AddCPSome DEF FitsWith
  <2>4. QED BY <2>1, <2>3, ResultsSome
<1>5. CASE ~x.cipher /\ ~y.cipher
  <2>1. AddOf(x, y) = PlainResult(x, y, AddPP(x.e, y.e))
    BY <1>5 DEF AddOf, ScalarAdd
  <2>2. Means(x.e, m) /\ Means(y.e, n)
    BY <1>5, BothPaid
  <2>3. Len(x.e.values) = Len(y.e.values)
    BY <1>5, <2>2, SameLength DEF Defective
  <2>4. QED BY <2>1, <2>3, PairedSome, ResultsSome
<1>6. QED BY <1>1, <1>2, <1>3, <1>4, <1>5

LEMMA SubtractOfSome ==
  ASSUME BatchesFit, EqualPrimes, NEW x, NEW m, NEW p \in Nat, Sound(x, m, p),
         NEW y, NEW n, NEW q \in Nat, Sound(y, n, q), ~Defective("subtract", x, y),
         FitsWith(x, y), FitsWith(y, x)
  PROVE  SubtractOf(x, y) # Thrown
<1>1. x.cipher \in BOOLEAN /\ y.cipher \in BOOLEAN /\ IsBatch(m) /\ IsBatch(n)
  BY BothPaid
<1>2. CASE x.cipher /\ y.cipher
  <2>1. SubtractOf(x, y) = Result(x, y, SubCC(x.e, y.e, NewCipher))
    BY <1>2, OutIsNew DEF SubtractOf, ScalarSubtract
  <2>2. CipherSound(x.e, m, p) /\ CipherSound(y.e, n, q)
    BY <1>2, BothPaid
  <2>3. x.e.zero \/ y.e.zero \/ x.e.data.level = y.e.data.level
    BY <1>2 DEF Defective, DifferentLevels
  <2>4. SubCC(x.e, y.e, NewCipher) # Thrown
    BY <2>2, <2>3, SubCCSome
  <2>5. QED BY <2>1, <2>4, ResultsSome
<1>3. CASE x.cipher /\ ~y.cipher
  <2>1. SubtractOf(x, y) = Result(x, y, SubCP(x.e, y.e, NewCipher))
    BY <1>3, OutIsNew DEF SubtractOf, ScalarSubtract
  <2>2. CipherSound(x.e, m, p) /\ PlainSound(y.e, n)
    BY <1>3, BothPaid
  <2>3. SubCP(x.e, y.e, NewCipher) # Thrown
    BY <1>3, <2>2, SubCPSome DEF FitsWith
  <2>4. QED BY <2>1, <2>3, ResultsSome
<1>4. CASE ~x.cipher /\ y.cipher
  <2>1. SubtractOf(x, y) = Result(x, y, SubPC(x.e, y.e, NewCipher))
    BY <1>4, OutIsNew DEF SubtractOf, ScalarSubtract
  <2>2. CipherSound(y.e, n, q) /\ PlainSound(x.e, m) /\ ~y.e.packed
    BY <1>4, BothPaid DEF Defective, Packed
  <2>3. SubPC(x.e, y.e, NewCipher) # Thrown
    BY <1>1, <1>4, <2>2, SubPCSome DEF FitsWith
  <2>4. QED BY <2>1, <2>3, ResultsSome
<1>5. CASE ~x.cipher /\ ~y.cipher
  <2>1. SubtractOf(x, y) = PlainResult(x, y, SubPP(x.e, y.e))
    BY <1>5 DEF SubtractOf, ScalarSubtract
  <2>2. SubPP(x.e, y.e) # Thrown
    BY PlainIsSome DEF SubPP
  <2>3. QED BY <2>1, <2>2, ResultsSome
<1>6. QED BY <1>1, <1>2, <1>3, <1>4, <1>5

\* A product of a ciphertext and values, and its rescaling.
LEMMA RescaledSome ==
  ASSUME NEW x, NEW y, x.cipher # y.cipher, NEW c, c # Thrown, NEW v, NEW l \in Nat, Unscaled(c, v, l), l < Top,
         ScalarMultiply(x, y, Out(x, y)) = Result(x, y, c)
  PROVE  MultiplyOf(x, y) # Thrown
<1>1. ScalarMultiply(x, y, Out(x, y)) = <<x, y, Cipher(c)>>
  BY DEF Result
<1>2. Cipher(c).e = c
  BY CipherElement DEF Unscaled
<1>3. ScalarMultiply(x, y, Out(x, y)) # Thrown
  BY <1>1, TripleIsSome
<1>4. MultiplyOf(x, y) = Result(x, y, LazyRescaling(c))
  BY <1>1, <1>2, <1>3 DEF MultiplyOf
<1>5. LazyRescaling(c) # Thrown
  BY LazyRescalingSome
<1>6. QED BY <1>4, <1>5, ResultsSome

\* A multiplication does not, while a level is left.
LEMMA MultiplyOfSome ==
  ASSUME BatchesFit, EqualPrimes, NEW x, NEW m, NEW p \in Nat, Sound(x, m, p),
         NEW y, NEW n, NEW q \in Nat, Sound(y, n, q), ~Defective("multiply", x, y),
         FitsWith(x, y), FitsWith(y, x), Larger(p, q) < Top
  PROVE  MultiplyOf(x, y) # Thrown
<1> DEFINE l == Larger(p, q)
           v == [k \in Places |-> m[k] * n[k]]
<1>1. /\ x.cipher \in BOOLEAN /\ y.cipher \in BOOLEAN /\ IsBatch(m) /\ IsBatch(n)
      /\ l \in Nat
  BY BothPaid
<1>2. \A k \in Places : v[k] = m[k] * n[k] /\ v[k] = n[k] * m[k]
  <2>1. \A a, b \in Int : a * b = b * a
    OBVIOUS
  <2>2. \A k \in Places : m[k] \in Int /\ n[k] \in Int
    BY <1>1 DEF IsBatch
  <2>3. QED BY <2>1, <2>2
<1> HIDE DEF v
<1>3. CASE x.cipher /\ y.cipher
  <2>1. MultiplyOf(x, y) = CipherResults(MultiplyCC(x.e, y.e, NewCipher))
    BY <1>3, OutIsNew DEF MultiplyOf, ScalarMultiply
  <2>2. CipherSound(x.e, m, p) /\ CipherSound(y.e, n, q)
    BY <1>3, BothPaid
  <2>3. MultiplyCC(x.e, y.e, NewCipher) # Thrown
    BY <2>2, MultiplyCCSome
  <2>4. QED BY <2>1, <2>3, ResultsSome
<1>4. CASE x.cipher /\ ~y.cipher
  <2> DEFINE c == MultiplyCP(x.e, y.e, NewCipher)
  <2>1. ScalarMultiply(x, y, Out(x, y)) = Result(x, y, c)
    BY <1>4, OutIsNew DEF ScalarMultiply
  <2>2. x.e.packed => IsSingle(y.e)
    BY <1>4 DEF Defective, Packed, Many
  <2>3. CipherSound(x.e, m, l) /\ PlainSound(y.e, n)
    BY <1>4, BothPaid
  <2> HIDE DEF l
  <2>4. l < Top
    BY DEF l
  <2>5. c # Thrown
    BY <1>1, <1>4, <2>3, <2>4, MultiplyCPSome DEF FitsWith
  <2>6. Unscaled(c, v, l)
    BY <1>1, <1>2, <2>2, <2>3, <2>5, MultiplyCPSound
  <2> HIDE DEF c
  <2>7. x.cipher # y.cipher
    BY <1>4
  <2>8. QED BY <1>1, <2>1, <2>4, <2>5, <2>6, <2>7, RescaledSome
<1>5. CASE ~x.cipher /\ y.cipher
  <2> DEFINE c == MultiplyCP(y.e, x.e, NewCipher)
  <2>1. ScalarMultiply(x, y, Out(x, y)) = Result(x, y, c)
    BY <1>5, OutIsNew DEF ScalarMultiply, MultiplyPC
  <2>2. y.e.packed => IsSingle(x.e)
    BY <1>5 DEF Defective, Packed, Many
  <2>3. CipherSound(y.e, n, l) /\ PlainSound(x.e, m)
    BY <1>5, BothPaid
  <2> HIDE DEF l
  <2>4. l < Top
    BY DEF l
  <2>5. c # Thrown
    BY <1>1, <1>5, <2>3, <2>4, MultiplyCPSome DEF FitsWith
  <2>6. Unscaled(c, v, l)
    BY <1>1, <1>2, <2>2, <2>3, <2>5, MultiplyCPSound
  <2> HIDE DEF c
  <2>7. x.cipher # y.cipher
    BY <1>5
  <2>8. QED BY <1>1, <2>1, <2>4, <2>5, <2>6, <2>7, RescaledSome
<1>6. CASE ~x.cipher /\ ~y.cipher
  <2>1. MultiplyOf(x, y) = PlainResult(x, y, MultiplyPP(x.e, y.e))
    BY <1>1, <1>6 DEF MultiplyOf, ScalarMultiply
  <2>2. Means(x.e, m) /\ Means(y.e, n)
    BY <1>6, BothPaid
  <2>3. Len(x.e.values) = Len(y.e.values)
    BY <1>6, <2>2, SameLength DEF Defective
  <2>4. QED BY <2>1, <2>3, PairedSome, ResultsSome
<1>7. QED BY <1>1, <1>3, <1>4, <1>5, <1>6

\* A minimum is taken of as many values on either side.
LEMMA MinimumOfSome ==
  ASSUME NEW x, NEW m, NEW p \in Nat, Sound(x, m, p),
         NEW y, NEW n, NEW q \in Nat, Sound(y, n, q), ~Defective("minimum", x, y)
  PROVE  MinimumOf(x, y) # Thrown
<1>1. ~x.cipher /\ ~y.cipher /\ ~Shorter(x, y) /\ ~Shorter(y, x)
  BY DEF Defective
<1>2. MinimumOf(x, y) = PlainResult(x, y, MinimumPP(x.e, y.e))
  BY <1>1 DEF MinimumOf
<1>3. Means(x.e, m) /\ Means(y.e, n)
  BY <1>1, BothPaid
<1>4. Len(x.e.values) = Len(y.e.values)
  BY <1>1, <1>3, SameLength
<1>5. QED BY <1>2, <1>4, PairedSome, ResultsSome

\* A negation never throws.
LEMMA NegateOfSome ==
  ASSUME NEW x, NEW m, NEW p \in Nat, Sound(x, m, p)
  PROVE  NegateOf(x) # Thrown
<1>1. CASE x.cipher
  <2>1. NegateC(x.e, NewCipher) # Thrown
    BY <1>1, NegateCSome DEF Sound
  <2>2. QED BY <1>1, <2>1, ResultsSome DEF NegateOf
<1>2. CASE ~x.cipher
  <2>1. PlainSound(x.e, m)
    BY <1>2 DEF Sound
  <2>2. Means(x.e, m) /\ x.e = Plain(x.e.values, x.e.packed)
    BY <2>1, PlainParts
  <2> DEFINE v == [k \in Places |-> -m[k]]
  <2>3. \A k \in Places : v[k] = -m[k]
    OBVIOUS
  <2> HIDE DEF v
  <2>4. PlainSound(NegateP(x.e), v)
    BY <2>2, <2>3, NegatePMeans
  <2>5. NegateP(x.e) # Thrown
    BY <2>4, PlainIsSome DEF PlainSound
  <2>6. QED BY <1>2, <2>5, ResultsSome DEF NegateOf
<1>3. QED BY <1>1, <1>2 DEF Sound, IsElement

\* What a ciphertext decrypts to can be encoded again.
Reencodes(x) == x.cipher => FitsAt(Decrypt(x.e), Top)

LEMMA ReluOfSome ==
  ASSUME BatchesFit, EqualPrimes, NEW x, NEW m, NEW p \in Nat, Sound(x, m, p), Reencodes(x)
  PROVE  ReluOf(x) # Thrown
<1> DEFINE f == ReluFunction
<1>1. x.cipher \in BOOLEAN /\ IsBatch(m)
  BY DEF Sound, IsElement
<1>2. f \in [Int -> Int] /\ KeepsFitting(f)
  <2>1. 0 \in Nat
    OBVIOUS
  <2>2. QED BY <2>1, FunctionTypes, FunctionsFit
<1>3. CASE x.cipher
  <2> DEFINE t == Decrypt(x.e)
  <2>1. CipherSound(x.e, m, p)
    BY <1>3 DEF Sound
  <2>2. t # Thrown /\ t = Plain(t.values, x.e.packed) /\ Means(t, m)
    BY <1>1, <2>1, DecryptMeans
  <2>3. ReluOf(x) = Result(x, x, Encrypt(NewCipher, MapPlain(Relu, t)))
    BY <1>3, <2>2 DEF ReluOf, ReluC, Then
  <2>4. MapPlain(Relu, t) = Plain(EachValue(f, t), t.packed)
    <3> HIDE DEF t
    <3>1. t = Plain(t.values, t.packed) /\ t.values \in Seq(Int)
      BY <2>2 DEF Plain, Means
    <3>2. QED BY <3>1, MapRelu
  <2> HIDE DEF f
  <2>5. Encrypt(NewCipher, Plain(EachValue(f, t), t.packed)) # Thrown
    BY <1>1, <1>2, <1>3, <2>1, ActivationSome DEF Reencodes
  <2>6. QED BY <2>3, <2>4, <2>5, ResultsSome
<1>4. CASE ~x.cipher
  <2>1. ReluOf(x) = PlainResult(x, x, ReluP(x.e))
    BY <1>4 DEF ReluOf
  <2>2. x.e.values \in Seq(Int) /\ x.e = Plain(x.e.values, x.e.packed)
    BY <1>4, PlainParts DEF Sound
  <2>3. ReluP(x.e) # Thrown
    BY <2>2, MapRelu, PlainIsSome DEF Clear
  <2>4. QED BY <2>1, <2>3, ResultsSome
<1>5. QED BY <1>1, <1>3, <1>4

LEMMA BoundedReluOfSome ==
  ASSUME BatchesFit, EqualPrimes, NEW alpha \in Nat, Fits(alpha, Scale, Top),
         NEW x, NEW m, NEW p \in Nat, Sound(x, m, p), Reencodes(x)
  PROVE  BoundedReluOf(x, alpha) # Thrown
<1> DEFINE f == BoundedFunction(alpha)
<1>1. x.cipher \in BOOLEAN /\ IsBatch(m)
  BY DEF Sound, IsElement
<1>2. f \in [Int -> Int] /\ KeepsFitting(f)
  BY FunctionTypes, FunctionsFit
<1>3. CASE x.cipher
  <2> DEFINE t == Decrypt(x.e)
             s == MapPlain(LAMBDA z : BoundedRelu(z, alpha), t)
  <2>1. CipherSound(x.e, m, p)
    BY <1>3 DEF Sound
  <2>2. t # Thrown /\ t = Plain(t.values, x.e.packed) /\ Means(t, m)
    BY <1>1, <2>1, DecryptMeans
  <2>3. BoundedReluOf(x, alpha) = Result(x, x, Encrypt(NewCipher, s))
    BY <1>3, <2>2 DEF BoundedReluOf, BoundedReluC, Then
  <2>4. s = Plain(EachValue(f, t), t.packed)
    <3> HIDE DEF t
    <3>1. t = Plain(t.values, t.packed) /\ t.values \in Seq(Int)
      BY <2>2 DEF Plain, Means
    <3>2. QED BY <3>1, MapBoundedRelu
  <2> HIDE DEF f, s
  <2>5. Encrypt(NewCipher, Plain(EachValue(f, t), t.packed)) # Thrown
    BY <1>1, <1>2, <1>3, <2>1, ActivationSome DEF Reencodes
  <2>6. QED BY <2>3, <2>4, <2>5, ResultsSome
<1>4. CASE ~x.cipher
  <2>1. BoundedReluOf(x, alpha) = PlainResult(x, x, BoundedReluP(x.e, alpha))
    BY <1>4 DEF BoundedReluOf
  <2>2. x.e.values \in Seq(Int) /\ x.e = Plain(x.e.values, x.e.packed)
    BY <1>4, PlainParts DEF Sound
  <2>3. BoundedReluP(x.e, alpha) # Thrown
    BY <2>2, MapBoundedRelu, PlainIsSome DEF Clear
  <2>4. QED BY <2>1, <2>3, ResultsSome
<1>5. QED BY <1>1, <1>3, <1>4

-----------------------------------------------------------------------------
(* What results are made of.                                               *)

\* What is in the clear fits the slots.
Short(x) == ~x.cipher => Len(x.e.values) <= Slots

\* The shapes of what operations give.
Shaped(x, y, r) ==
  \/ r = Thrown
  \/ \E c : r = <<x, y, Cipher(c)>>
  \/ \E a, b, c : r = <<Cipher(a), Cipher(b), Cipher(c)>>
  \/ \E p : r = <<x, y, PlainOf(p)>> /\ ~x.cipher /\ Len(p.values) = Len(x.e.values)
  \/ r = <<x, y, x>>

LEMMA ResultsShaped ==
  ASSUME NEW x, NEW y, NEW c
  PROVE  /\ Shaped(x, y, Result(x, y, c))
         /\ Shaped(x, y, CipherResults(c))
         /\ ~x.cipher /\ (c # Thrown => Len(c.values) = Len(x.e.values)) => Shaped(x, y, PlainResult(x, y, c))
BY DEF Shaped, Result, CipherResults, PlainResult

\* Sequences with one domain have one length.
LEMMA SameDomain ==
  ASSUME NEW f, NEW s \in Seq(Int), DOMAIN f = DOMAIN s PROVE Len(f) = Len(s)
<1>1. Len(s) \in Nat /\ DOMAIN s = 1..Len(s)
  OBVIOUS
<1>2. QED BY <1>1

LEMMA PlainLengths ==
  ASSUME NEW p, p.values \in Seq(Int), p = Plain(p.values, p.packed), NEW q, NEW alpha
  PROVE  /\ AddPP(p, q) # Thrown => Len(AddPP(p, q).values) = Len(p.values)
         /\ SubPP(p, q) # Thrown => Len(SubPP(p, q).values) = Len(p.values)
         /\ MultiplyPP(p, q) # Thrown => Len(MultiplyPP(p, q).values) = Len(p.values)
         /\ MinimumPP(p, q) # Thrown => Len(MinimumPP(p, q).values) = Len(p.values)
         /\ Len(ReluP(p).values) = Len(p.values)
         /\ Len(BoundedReluP(p, alpha).values) = Len(p.values)
         /\ Len(NegateP(p).values) = Len(p.values)
<1>1. \A g : Plain(g, FALSE).values = g
  BY DEF Plain
<1>2. AddPP(p, q) # Thrown => Len(AddPP(p, q).values) = Len(p.values)
  BY <1>1, SameDomain DEF AddPP, ZipPlain
<1>3. SubPP(p, q) # Thrown => Len(SubPP(p, q).values) = Len(p.values)
  BY <1>1, SameDomain DEF SubPP
<1>4. MultiplyPP(p, q) # Thrown => Len(MultiplyPP(p, q).values) = Len(p.values)
  BY <1>1, SameDomain DEF MultiplyPP, ZipPlain
<1>5. MinimumPP(p, q) # Thrown => Len(MinimumPP(p, q).values) = Len(p.values)
  BY <1>1, SameDomain DEF MinimumPP
<1>6. Len(ReluP(p).values) = Len(p.values) /\ Len(BoundedReluP(p, alpha).values) = Len(p.values)
  <2> DEFINE f == EachValue(ReluFunction, p)
             h == EachValue(BoundedFunction(alpha), p)
  <2>1. DOMAIN f = DOMAIN p.values /\ DOMAIN h = DOMAIN p.values
    BY DEF EachValue
  <2>2. ReluP(p) = Clear(f) /\ BoundedReluP(p, alpha) = Clear(h)
    BY MapRelu, MapBoundedRelu
  <2> HIDE DEF f, h
  <2>3. QED BY <1>1, <2>1, <2>2, SameDomain DEF Clear
<1>7. Len(NegateP(p).values) = Len(p.values)
  <2> DEFINE g == [i \in DOMAIN p.values |-> -p.values[i]]
  <2>1. NegateP(p).values = g
    BY DEF NegateP, MapPlain, Plain
  <2>2. QED BY <2>1, SameDomain
<1>8. QED BY <1>2, <1>3, <1>4, <1>5, <1>6, <1>7

LEMMA OperationsShaped ==
  ASSUME NEW x, NEW m, NEW p \in Nat, Sound(x, m, p), NEW y, NEW n, NEW q \in Nat, Sound(y, n, q),
         NEW alpha
  PROVE  /\ Shaped(x, y, AddOf(x, y)) /\ Shaped(x, y, SubtractOf(x, y))
         /\ Shaped(x, y, MultiplyOf(x, y)) /\ Shaped(x, y, MinimumOf(x, y))
         /\ Shaped(x, x, NegateOf(x)) /\ Shaped(x, x, ReluOf(x)) /\ Shaped(x, x, BoundedReluOf(x, alpha))
<1>1. x.cipher \in BOOLEAN /\ y.cipher \in BOOLEAN
  BY BothPaid
<1>2. ~x.cipher => x.e.values \in Seq(Int) /\ x.e = Plain(x.e.values, x.e.packed)
  BY PlainParts DEF Sound
<1> DEFINE Right(c) == c # Thrown => Len(c.values) = Len(x.e.values)
<1>3. ~x.cipher => /\ Right(AddPP(x.e, y.e)) /\ Right(SubPP(x.e, y.e))
                   /\ Right(MultiplyPP(x.e, y.e)) /\ Right(MinimumPP(x.e, y.e))
                   /\ Right(NegateP(x.e)) /\ Right(ReluP(x.e)) /\ Right(BoundedReluP(x.e, alpha))
  BY <1>2, PlainLengths
<1>4. \A c : ~x.cipher /\ Right(c)
         => Shaped(x, y, PlainResult(x, y, c)) /\ Shaped(x, x, PlainResult(x, x, c))
  BY ResultsShaped
<1> HIDE DEF Right
<1>5. Shaped(x, y, AddOf(x, y))
  BY <1>1, <1>3, <1>4, ResultsShaped DEF AddOf, ScalarAdd
<1>6. Shaped(x, y, SubtractOf(x, y))
  BY <1>1, <1>3, <1>4, ResultsShaped DEF SubtractOf, ScalarSubtract
<1>7. Shaped(x, y, ScalarMultiply(x, y, Out(x, y)))
  BY <1>1, <1>3, <1>4, ResultsShaped DEF ScalarMultiply
<1>8. Shaped(x, y, MultiplyOf(x, y))
  BY <1>7, ResultsShaped DEF MultiplyOf
<1>9. Shaped(x, y, MinimumOf(x, y))
  <2>1. Shaped(x, y, <<x, y, x>>) /\ Shaped(x, y, Thrown)
    BY DEF Shaped
  <2>2. QED BY <1>3, <1>4, <2>1 DEF MinimumOf
<1>10. Shaped(x, x, NegateOf(x)) /\ Shaped(x, x, ReluOf(x)) /\ Shaped(x, x, BoundedReluOf(x, alpha))
  BY <1>3, <1>4, ResultsShaped DEF NegateOf, ReluOf, BoundedReluOf
<1>11. QED BY <1>5, <1>6, <1>8, <1>9, <1>10

LEMMA ShapedShort ==
  ASSUME NEW x, NEW y, NEW r, Shaped(x, y, r), r # Thrown, Short(x), Short(y)
  PROVE  Short(r[1]) /\ Short(r[2]) /\ Short(r[3])
<1>1. \A c : Short(Cipher(c))
  BY DEF Short, Cipher
<1>2. \A p : Len(p.values) = Len(x.e.values) /\ ~x.cipher => Short(PlainOf(p))
  BY DEF Short, PlainOf
<1>3. QED BY <1>1, <1>2 DEF Shaped
=============================================================================
