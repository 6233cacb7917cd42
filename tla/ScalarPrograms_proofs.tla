------------------------ MODULE ScalarPrograms_proofs ------------------------
(***************************************************************************)
(* Programs of scalar operations leave what their elements stand for,      *)
(* compute what they mean, pay one level for each multiplication, and do   *)
(* not throw while levels are left.                                        *)
(***************************************************************************)
EXTENDS ScalarPrograms, Elements_proofs

\* Batches have the size of the tensors', and fit the slots.
WholeBatches ==
  /\ BatchesFit
  /\ \A s \in Starts : \A n \in {1, 2} : Len(s[n].values) \in {1, BatchSize}

-----------------------------------------------------------------------------
(* Programs.                                                               *)

\* The elements are a sequence of elements.
Typed(s) == \E S : s \in Seq(S) /\ \A x \in S : IsElement(x)
TInv == Typed(elements)

LEMMA TypedElement ==
  ASSUME NEW s, Typed(s), NEW i \in DOMAIN s PROVE IsElement(s[i])
<1>1. PICK S : s \in Seq(S) /\ \A x \in S : IsElement(x)
  BY DEF Typed
<1>2. s[i] \in S
  BY <1>1
<1>3. QED BY <1>1, <1>2

\* What an operation on i and j makes of all elements.
LEMMA OperationKeeps ==
  ASSUME NEW s, Typed(s), NEW i \in DOMAIN s, NEW j \in DOMAIN s,
         NEW r, r # Thrown, Keeps(s[i], s[j], r),
         NEW t, t = Append([s EXCEPT ![i] = r[1], ![j] = r[2]], r[3])
  PROVE  Typed(t) /\ \A k \in DOMAIN s : Kept(s[k], t[k])
<1> DEFINE u == [s EXCEPT ![i] = r[1], ![j] = r[2]]
<1>1. PICK S : s \in Seq(S) /\ \A x \in S : IsElement(x)
  BY DEF Typed
<1> DEFINE R == S \cup {r[1], r[2], r[3]}
<1>2. /\ IsElement(r[1]) /\ Kept(s[i], r[1])
      /\ IsElement(r[2]) /\ Kept(s[j], r[2])
      /\ IsElement(r[3])
  BY DEF Keeps
<1>3. u \in Seq(R) /\ Len(u) = Len(s) /\ DOMAIN s = 1..Len(s)
  BY <1>1
<1>4. t \in Seq(R) /\ \A k \in 1..Len(s) : t[k] = u[k]
  <2>1. r[3] \in R
    OBVIOUS
  <2> HIDE DEF u, R
  <2>2. Append(u, r[3]) \in Seq(R) /\ \A k \in 1..Len(u) : Append(u, r[3])[k] = u[k]
    BY <1>3, <2>1, AppendProperties
  <2>3. QED BY <1>3, <2>2 DEF u
<1>5. Typed(t)
  <2>1. \A x \in R : IsElement(x)
    BY <1>1, <1>2
  <2> HIDE DEF R
  <2>2. QED BY <1>4, <2>1 DEF Typed
<1>6. ASSUME NEW k \in DOMAIN s PROVE Kept(s[k], t[k])
  <2>1. t[k] = u[k]
    BY <1>3, <1>4
  <2>2. CASE k = j
    BY <1>2, <2>1, <2>2
  <2>3. CASE k # j /\ k = i
    BY <1>2, <2>1, <2>3
  <2>4. CASE k # j /\ k # i
    BY <2>1, <2>4, TypedElement, KeptItself
  <2>5. QED BY <2>2, <2>3, <2>4
<1>7. QED BY <1>5, <1>6

LEMMA StartIsElement ==
  ASSUME NEW s, Encode(Plain(s.values, s.packed)) # Thrown PROVE IsElement(StartElement(s))
BY EncodedCipher, NewIsCipher, CipherElement, PlainElement DEF StartElement

LEMMA InitTyped == Init => TInv
<1> SUFFICES ASSUME NEW s \in Starts, elements = <<StartElement(s[1]), StartElement(s[2])>>
             PROVE  TInv
  BY DEF Init
<1>1. IsElement(StartElement(s[1])) /\ IsElement(StartElement(s[2]))
  BY EncodableAssumption, StartIsElement
<1> DEFINE S == {StartElement(s[1]), StartElement(s[2])}
<1>2. elements \in Seq(S)
  OBVIOUS
<1>3. \A x \in S : IsElement(x)
  BY <1>1
<1> HIDE DEF S
<1>4. QED BY <1>2, <1>3 DEF TInv, Typed

\* Whatever a step is, it leaves the elements or is an operation on two of them.
LEMMA NextKeeps ==
  TInv /\ [Next]_vars => TInv' /\ \A k \in DOMAIN elements : Kept(elements[k], elements'[k])
<1> SUFFICES ASSUME TInv, [Next]_vars
             PROVE  TInv' /\ \A k \in DOMAIN elements : Kept(elements[k], elements'[k])
  OBVIOUS
<1>1. CASE elements' = elements
  BY <1>1, TypedElement, KeptItself DEF TInv
<1>2. ASSUME NEW i \in DOMAIN elements, NEW j \in DOMAIN elements,
             NEW r, Keeps(elements[i], elements[j], r),
             \/ elements' = elements
             \/ r # Thrown /\ elements' = Append([elements EXCEPT ![i] = r[1], ![j] = r[2]], r[3])
      PROVE  TInv' /\ \A k \in DOMAIN elements : Kept(elements[k], elements'[k])
  BY <1>1, <1>2, OperationKeeps DEF TInv
<1>3. ASSUME NEW i \in DOMAIN elements, NEW j \in DOMAIN elements,
             Add(i, j) \/ Subtract(i, j) \/ Multiply(i, j) \/ Minimum(i, j)
      PROVE  TInv' /\ \A k \in DOMAIN elements : Kept(elements[k], elements'[k])
  <2>1. IsElement(elements[i]) /\ IsElement(elements[j])
    BY TypedElement DEF TInv
  <2>2. CASE Add(i, j)
    BY <1>2, <2>1, <2>2, AddKeeps DEF Add, Step
  <2>3. CASE Subtract(i, j)
    BY <1>2, <2>1, <2>3, SubtractKeeps DEF Subtract, Step
  <2>4. CASE Multiply(i, j)
    BY <1>2, <2>1, <2>4, MultiplyKeeps DEF Multiply, Step
  <2>5. CASE Minimum(i, j)
    BY <1>2, <2>1, <2>5, MinimumKeeps DEF Minimum, Step
  <2>6. QED BY <1>3, <2>2, <2>3, <2>4, <2>5
<1>4. ASSUME NEW i \in DOMAIN elements, Negate(i) \/ ReluStep(i) \/ BoundedReluStep(i)
      PROVE  TInv' /\ \A k \in DOMAIN elements : Kept(elements[k], elements'[k])
  <2>1. IsElement(elements[i])
    BY TypedElement DEF TInv
  <2>2. CASE Negate(i)
    BY <1>2, <2>1, <2>2, UnaryKeeps DEF Negate, Step
  <2>3. CASE ReluStep(i)
    BY <1>2, <2>1, <2>3, UnaryKeeps DEF ReluStep, Step
  <2>4. CASE BoundedReluStep(i)
    BY <1>2, <2>1, <2>4, UnaryKeeps DEF BoundedReluStep, Step
  <2>5. QED BY <1>4, <2>2, <2>3, <2>4
<1>5. QED BY <1>1, <1>3, <1>4 DEF Next, Finished, vars

\* Whatever the operands of a program, those included on which the result of an
\* operation is wrong, no operation changes what its arguments decrypt and decode
\* to or raises their level: matching in place (match_modulus_and_scale_inplace)
\* is safe for the nodes that use them again.
THEOREM ArgumentsKeptThm == Spec => ArgumentsKept
<1>1. Init => TInv
  BY InitTyped
<1>2. TInv /\ [Next]_vars => TInv'
  BY NextKeeps
<1>3. TInv /\ [Next]_vars =>
        [\A i \in DOMAIN elements :
           /\ ValuesOf(elements'[i]) = ValuesOf(elements[i])
           /\ elements[i].cipher => elements'[i].e.data.level <= elements[i].e.data.level]_vars
  BY NextKeeps DEF Kept
<1>4. QED BY <1>1, <1>2, <1>3, PTL DEF Spec, ArgumentsKept

-----------------------------------------------------------------------------
(* Programs.                                                               *)

\* Elements s that stand for ms and have paid for ls levels.
Program(s, ms, ls) ==
  /\ Typed(s)
  /\ ms \in Seq([Places -> Int]) /\ Len(ms) = Len(s)
  /\ ls \in Seq(Nat) /\ Len(ls) = Len(s)
  /\ \A i \in DOMAIN s : Sound(s[i], ms[i], ls[i])

RInv == Program(elements, meaning, levels)

LEMMA ProgramParts ==
  ASSUME NEW s, NEW ms, NEW ls, Program(s, ms, ls)
  PROVE  /\ Len(s) \in Nat /\ DOMAIN s = 1..Len(s) /\ DOMAIN ms = 1..Len(s) /\ DOMAIN ls = 1..Len(s)
         /\ \A i \in DOMAIN s : /\ IsElement(s[i]) /\ IsBatch(ms[i]) /\ ls[i] \in Nat
                                /\ Sound(s[i], ms[i], ls[i])
<1>1. PICK S : s \in Seq(S)
  BY DEF Program, Typed
<1>2. Len(s) \in Nat /\ DOMAIN s = 1..Len(s) /\ DOMAIN ms = 1..Len(s) /\ DOMAIN ls = 1..Len(s)
  BY <1>1 DEF Program
<1>3. QED BY <1>2 DEF Program, Sound

LEMMA AppendedLevel ==
  ASSUME NEW f \in Seq(Nat), NEW k \in Nat
  PROVE  /\ Append(f, k) \in Seq(Nat) /\ Len(Append(f, k)) = Len(f) + 1
         /\ Append(f, k)[Len(f) + 1] = k /\ \A h \in 1..Len(f) : Append(f, k)[h] = f[h]
BY AppendProperties

\* What an operation on i and j makes of the elements, and of the levels of the old ones.
AfterOperation(s, i, j, r) == Append([s EXCEPT ![i] = r[1], ![j] = r[2]], r[3])
PaidLevels(s, ls, i, j, r) ==
  LET paid == Larger(ls[i], ls[j])
  IN  IF r[1] # s[i] \/ r[2] # s[j] THEN [ls EXCEPT ![i] = paid, ![j] = paid] ELSE ls

\* What it makes of a program.
LEMMA OperationSound ==
  ASSUME NEW s, NEW ms, NEW ls, Program(s, ms, ls), NEW i \in DOMAIN s, NEW j \in DOMAIN s,
         NEW r, r # Thrown, Keeps(s[i], s[j], r),
         NEW v, IsBatch(v), NEW k \in Nat, OpSound(r, ms[i], ms[j], v, Larger(ls[i], ls[j]), k)
  PROVE  Program(AfterOperation(s, i, j, r), Append(ms, v), Append(PaidLevels(s, ls, i, j, r), k))
<1> DEFINE u == [s EXCEPT ![i] = r[1], ![j] = r[2]]
           l == Larger(ls[i], ls[j])
           N == Len(s)
           mt == Append(ms, v)
           t == AfterOperation(s, i, j, r)
           old == PaidLevels(s, ls, i, j, r)
           lt == Append(old, k)
<1>1. /\ N \in Nat /\ DOMAIN s = 1..N /\ DOMAIN ms = 1..N /\ DOMAIN ls = 1..N
      /\ i \in 1..N /\ j \in 1..N
      /\ \A h \in DOMAIN s : IsElement(s[h]) /\ ls[h] \in Nat /\ Sound(s[h], ms[h], ls[h])
  BY ProgramParts
<1>2. l \in Nat /\ t = Append(u, r[3]) /\ old = (IF r[1] # s[i] \/ r[2] # s[j]
                                             THEN [ls EXCEPT ![i] = l, ![j] = l] ELSE ls)
  BY <1>1, LargerType DEF AfterOperation, PaidLevels
<1> HIDE DEF t, old
<1>3. Typed(t)
  BY <1>2, OperationKeeps DEF Program
<1>4. DOMAIN u = 1..N /\ Len(u) = N /\ \E R : u \in Seq(R) /\ r[3] \in R
  <2>1. PICK S : s \in Seq(S)
    BY DEF Program, Typed
  <2> DEFINE R == S \cup {r[1], r[2], r[3]}
  <2>2. u \in Seq(R) /\ r[3] \in R /\ Len(u) = Len(s)
    BY <1>1, <2>1
  <2> HIDE DEF R
  <2>3. QED BY <1>1, <2>2
<1>5. /\ Len(t) = N + 1 /\ DOMAIN t = 1..(N + 1)
      /\ t[N + 1] = r[3] /\ \A h \in 1..N : t[h] = u[h]
  <2>1. PICK R : u \in Seq(R) /\ r[3] \in R
    BY <1>4
  <2>2. Len(u) = N /\ t = Append(u, r[3])
    BY <1>2, <1>4
  <2> HIDE DEF u
  <2>3. /\ Len(t) = Len(u) + 1 /\ t \in Seq(R)
        /\ t[Len(u) + 1] = r[3] /\ \A h \in 1..Len(u) : t[h] = u[h]
    BY <2>1, <2>2, AppendProperties
  <2>4. QED BY <1>1, <2>2, <2>3
<1>6. /\ mt \in Seq([Places -> Int]) /\ Len(mt) = N + 1
      /\ mt[N + 1] = v /\ \A h \in 1..N : mt[h] = ms[h]
  <2>1. ms \in Seq([Places -> Int]) /\ v \in [Places -> Int] /\ Len(ms) = N
    BY DEF Program, IsBatch
  <2>2. /\ mt \in Seq([Places -> Int]) /\ Len(mt) = Len(ms) + 1
        /\ mt[Len(ms) + 1] = v /\ \A h \in 1..Len(ms) : mt[h] = ms[h]
    BY <2>1, AppendProperties
  <2>3. QED BY <2>1, <2>2
<1>7. old \in Seq(Nat) /\ Len(old) = N
  BY <1>1, <1>2 DEF Program
<1>8. /\ lt \in Seq(Nat) /\ Len(lt) = N + 1
      /\ lt[N + 1] = k /\ \A h \in 1..N : lt[h] = old[h]
  <2>1. old \in Seq(Nat)
    BY <1>7
  <2>2. /\ lt \in Seq(Nat) /\ Len(lt) = Len(old) + 1
        /\ lt[Len(old) + 1] = k /\ \A h \in 1..Len(old) : lt[h] = old[h]
    BY <2>1, AppendedLevel, Zenon
  <2> HIDE DEF lt
  <2>3. QED BY <1>7, <2>2
<1>9. Sound(r[1], ms[i], l) /\ Sound(r[2], ms[j], l) /\ Sound(r[3], v, k)
  BY DEF OpSound
<1> HIDE DEF mt, lt, l
<1>10. ASSUME NEW h \in 1..N PROVE Sound(u[h], ms[h], old[h])
  <2>1. CASE r[1] # s[i] \/ r[2] # s[j]
    <3>1. old = [ls EXCEPT ![i] = l, ![j] = l]
      BY <1>2, <2>1
    <3>2. CASE h = j
      BY <1>1, <1>9, <3>1, <3>2
    <3>3. CASE h # j /\ h = i
      BY <1>1, <1>9, <3>1, <3>3
    <3>4. CASE h # j /\ h # i
      BY <1>1, <3>1, <3>4
    <3>5. QED BY <3>2, <3>3, <3>4
  <2>2. CASE r[1] = s[i] /\ r[2] = s[j]
    <3>1. old = ls /\ u[h] = s[h]
      BY <1>1, <1>2, <2>2
    <3>2. QED BY <1>1, <3>1
  <2>3. QED BY <2>1, <2>2
<1> HIDE DEF u
<1>11. ASSUME NEW h \in DOMAIN t PROVE Sound(t[h], mt[h], lt[h])
  <2>1. CASE h = N + 1
    BY <1>5, <1>6, <1>8, <1>9, <2>1
  <2>2. CASE h # N + 1
    <3>1. h \in 1..N
      BY <1>1, <1>5, <2>2
    <3>2. QED BY <1>5, <1>6, <1>8, <1>10, <3>1
  <2>3. QED BY <2>1, <2>2
<1>12. Program(t, mt, lt)
  BY <1>3, <1>5, <1>6, <1>8, <1>11 DEF Program
<1>13. QED BY <1>12 DEF mt, lt, t, old

\* What a program begins with.
LEMMA StartSound ==
  ASSUME WholeBatches, NEW s \in StartType, Len(s.values) \in {1, BatchSize},
         Encode(Plain(s.values, s.packed)) # Thrown
  PROVE  Sound(StartElement(s), StartMeaning(s), 0)
<1> DEFINE m == StartMeaning(s)
           p == Plain(s.values, s.packed)
<1>1. s.values \in Seq(Int) /\ s.cipher \in BOOLEAN /\ s.packed \in BOOLEAN
  BY DEF StartType
<1>2. BatchSize \in Nat \ {0} /\ Places = 1..BatchSize
  BY SizesType DEF Places
<1>3. IsBatch(m) /\ \A k \in Places : m[k] = s.values[IF Len(s.values) = 1 THEN 1 ELSE k]
  <2>1. CASE Len(s.values) = 1
    BY <1>1, <1>2, <2>1 DEF IsBatch, StartMeaning
  <2>2. CASE Len(s.values) # 1
    <3>1. m = s.values /\ Len(s.values) = BatchSize
      BY <2>2 DEF StartMeaning
    <3>2. s.values \in [1..BatchSize -> Int]
      BY <1>1, <3>1
    <3>3. QED BY <1>2, <2>2, <3>1, <3>2 DEF IsBatch
  <2>3. QED BY <2>1, <2>2
<1> HIDE DEF m
<1>4. \A q : q.values = s.values => Means(q, m)
  BY <1>1, <1>2, <1>3 DEF Means, ValueAt, IsSingle
<1>5. CASE s.cipher
  <2>1. p.values = s.values /\ p.packed = s.packed /\ Encode(p) # Thrown
    BY DEF Plain
  <2> HIDE DEF p
  <2>2. Means(p, m) /\ p.packed \in BOOLEAN /\ 0 \in Nat
    BY <1>1, <1>4, <2>1
  <2> DEFINE c == Encrypt(NewCipher, p)
  <2>3. c # Thrown
    <3>1. IsCipher(c)
      BY <2>1, EncodedCipher, NewIsCipher
    <3>2. "data" \in DOMAIN c /\ DOMAIN Thrown = {"thrown"}
      BY <3>1 DEF IsCipher, Thrown
    <3>3. QED BY <3>2
  <2>4. CipherSound(c, m, 0)
    BY <2>2, <2>3, EncryptSound DEF WholeBatches
  <2>5. StartElement(s) = Cipher(c)
    BY <1>5 DEF StartElement, p
  <2> HIDE DEF c
  <2>6. Sound(Cipher(c), m, 0)
    BY <1>3, <2>4, CipherGives
  <2>7. QED BY <2>5, <2>6 DEF m
<1>6. CASE ~s.cipher
  <2> DEFINE q == Clear(s.values)
  <2>1. StartElement(s) = PlainOf(q)
    BY <1>6 DEF StartElement, Clear
  <2>2. q.values = s.values /\ q = Plain(q.values, FALSE)
    BY DEF Clear, Plain
  <2> HIDE DEF q
  <2>3. PlainSound(q, m)
    BY <1>4, <2>2 DEF PlainSound
  <2>4. Sound(PlainOf(q), m, 0)
    BY <1>3, <2>3, PlainGives
  <2>5. QED BY <2>1, <2>4 DEF m
<1>7. QED BY <1>1, <1>5, <1>6

LEMMA InitSound == ASSUME WholeBatches PROVE Init => RInv
<1> SUFFICES ASSUME Init PROVE RInv
  OBVIOUS
<1>1. PICK s \in Starts : /\ elements = <<StartElement(s[1]), StartElement(s[2])>>
                          /\ meaning = <<StartMeaning(s[1]), StartMeaning(s[2])>>
  BY DEF Init
<1>2. levels = <<0, 0>>
  BY DEF Init
<1>3. s[1] \in StartType /\ s[2] \in StartType
  BY StartsAssumption
<1>4. Sound(StartElement(s[1]), StartMeaning(s[1]), 0) /\ Sound(StartElement(s[2]), StartMeaning(s[2]), 0)
  BY <1>3, EncodableAssumption, StartSound DEF WholeBatches
<1>5. StartMeaning(s[1]) \in [Places -> Int] /\ StartMeaning(s[2]) \in [Places -> Int]
  BY <1>4 DEF Sound, IsBatch
<1>6. TInv
  BY InitTyped
<1>7. /\ meaning \in Seq([Places -> Int]) /\ Len(meaning) = 2
      /\ levels \in Seq(Nat) /\ Len(levels) = 2 /\ Len(elements) = 2 /\ DOMAIN elements = 1..2
  BY <1>1, <1>2, <1>5
<1>8. \A i \in DOMAIN elements : Sound(elements[i], meaning[i], levels[i])
  BY <1>1, <1>2, <1>4, <1>7
<1>9. QED BY <1>6, <1>7, <1>8 DEF RInv, Program, TInv

LEMMA Products == \A a, b \in Int : a * b \in Int
OBVIOUS

\* Every operation leaves a program that is right: the inductive invariant.
LEMMA NextSound ==
  ASSUME WholeBatches, EqualPrimes, ~KnownDefects
  PROVE  RInv /\ [Next]_vars => RInv'
<1> SUFFICES ASSUME RInv, [Next]_vars PROVE RInv'
  OBVIOUS
<1> BatchesFit
  BY DEF WholeBatches
<1>1. CASE elements' = elements /\ meaning' = meaning /\ levels' = levels
  BY <1>1 DEF RInv
<1>2. ASSUME NEW op, NEW i \in DOMAIN elements, NEW j \in DOMAIN elements,
             NEW r, Keeps(elements[i], elements[j], r),
             NEW v, IsBatch(v), NEW k \in Nat,
             ~Defective(op, elements[i], elements[j]) /\ r # Thrown
               => OpSound(r, meaning[i], meaning[j], v, Larger(levels[i], levels[j]), k),
             Step(op, i, j, r, v, k)
      PROVE  RInv'
  <2>1. CASE r = Thrown
    BY <1>1, <1>2, <2>1 DEF Step
  <2>2. CASE r # Thrown
    <3> DEFINE t == AfterOperation(elements, i, j, r)
               lt == PaidLevels(elements, levels, i, j, r)
    <3>1. elements' = t /\ meaning' = Append(meaning, v) /\ levels' = Append(lt, k)
      BY <1>2, <2>2 DEF Step, AfterOperation, PaidLevels
    <3>2. OpSound(r, meaning[i], meaning[j], v, Larger(levels[i], levels[j]), k)
      BY <1>2, <2>2 DEF Step
    <3>3. Program(elements, meaning, levels)
      BY DEF RInv
    <3>4. Program(t, Append(meaning, v), Append(lt, k))
      BY <1>2, <2>2, <3>2, <3>3, OperationSound
    <3>5. QED BY <3>1, <3>4 DEF RInv
  <2>3. QED BY <2>1, <2>2
<1>3. ASSUME NEW i \in DOMAIN elements, NEW j \in DOMAIN elements,
             Add(i, j) \/ Subtract(i, j) \/ Multiply(i, j) \/ Minimum(i, j)
      PROVE  RInv'
  <2> DEFINE l == Larger(levels[i], levels[j])
  <2>1. /\ IsElement(elements[i]) /\ levels[i] \in Nat /\ Sound(elements[i], meaning[i], levels[i])
        /\ IsElement(elements[j]) /\ levels[j] \in Nat /\ Sound(elements[j], meaning[j], levels[j])
        /\ \A k \in Places : meaning[i][k] \in Int /\ meaning[j][k] \in Int
    BY ProgramParts DEF RInv, IsBatch
  <2>2. l \in Nat /\ l + 1 \in Nat
    <3>1. l \in Nat
      BY <2>1, LargerType, Zenon
    <3> HIDE DEF l
    <3>2. QED BY <3>1
  <2>3. CASE Add(i, j)
    <3> DEFINE r == AddOf(elements[i], elements[j])
               v == [k \in Places |-> meaning[i][k] + meaning[j][k]]
    <3>1. EachPairOf(LAMBDA a, b : a + b, meaning[i], meaning[j]) = v
      BY DEF EachPairOf, Places
    <3>2. Step("add", i, j, r, v, l)
      BY <2>3, <3>1, Zenon DEF Add
    <3>3. IsBatch(v) /\ \A k \in Places : v[k] = meaning[i][k] + meaning[j][k]
      BY <2>1 DEF IsBatch
    <3>4. Keeps(elements[i], elements[j], r)
      BY <2>1, AddKeeps
    <3> HIDE DEF v
    <3>5. ~Defective("add", elements[i], elements[j]) /\ r # Thrown
            => OpSound(r, meaning[i], meaning[j], v, l, l)
      BY <2>1, <3>3, AddOfSound
    <3> HIDE DEF r
    <3>6. QED BY <1>2, <2>2, <3>2, <3>3, <3>4, <3>5
  <2>4. CASE Subtract(i, j)
    <3> DEFINE r == SubtractOf(elements[i], elements[j])
               v == [k \in Places |-> meaning[i][k] - meaning[j][k]]
    <3>1. EachPairOf(LAMBDA a, b : a - b, meaning[i], meaning[j]) = v
      BY DEF EachPairOf, Places
    <3>2. Step("subtract", i, j, r, v, l)
      BY <2>4, <3>1, Zenon DEF Subtract
    <3>3. IsBatch(v) /\ \A k \in Places : v[k] = meaning[i][k] - meaning[j][k]
      BY <2>1 DEF IsBatch
    <3>4. Keeps(elements[i], elements[j], r)
      BY <2>1, SubtractKeeps
    <3> HIDE DEF v
    <3>5. ~Defective("subtract", elements[i], elements[j]) /\ r # Thrown
            => OpSound(r, meaning[i], meaning[j], v, l, l)
      BY <2>1, <3>3, SubtractOfSound
    <3> HIDE DEF r
    <3>6. QED BY <1>2, <2>2, <3>2, <3>3, <3>4, <3>5
  <2>5. CASE Multiply(i, j)
    <3> DEFINE r == MultiplyOf(elements[i], elements[j])
               v == [k \in Places |-> meaning[i][k] * meaning[j][k]]
    <3>1. EachPairOf(LAMBDA a, b : a * b, meaning[i], meaning[j]) = v
      BY DEF EachPairOf, Places
    <3>2. Step("multiply", i, j, r, v, l + 1)
      BY <2>5, <3>1, Zenon DEF Multiply
    <3>3. IsBatch(v) /\ \A k \in Places : v[k] = meaning[i][k] * meaning[j][k]
      BY <2>1, Products DEF IsBatch
    <3>4. Keeps(elements[i], elements[j], r)
      BY <2>1, MultiplyKeeps
    <3> HIDE DEF v
    <3>5. ~Defective("multiply", elements[i], elements[j]) /\ r # Thrown
            => OpSound(r, meaning[i], meaning[j], v, l, l + 1)
      BY <2>1, <3>3, MultiplyOfSound
    <3> HIDE DEF r
    <3>6. QED BY <1>2, <2>2, <3>2, <3>3, <3>4, <3>5
  <2>6. CASE Minimum(i, j)
    <3> DEFINE r == MinimumOf(elements[i], elements[j])
               v == [k \in Places |-> IF meaning[i][k] < meaning[j][k] THEN meaning[i][k] ELSE meaning[j][k]]
    <3>1. EachPairOf(LAMBDA a, b : IF a < b THEN a ELSE b, meaning[i], meaning[j]) = v
      BY DEF EachPairOf, Places
    <3>2. Step("minimum", i, j, r, v, l)
      BY <2>6, <3>1, Zenon DEF Minimum
    <3>3. IsBatch(v) /\ \A k \in Places : v[k] = IF meaning[i][k] < meaning[j][k] THEN meaning[i][k] ELSE meaning[j][k]
      BY <2>1 DEF IsBatch
    <3>4. Keeps(elements[i], elements[j], r)
      BY <2>1, MinimumKeeps
    <3> HIDE DEF v
    <3>5. ~Defective("minimum", elements[i], elements[j]) /\ r # Thrown
            => OpSound(r, meaning[i], meaning[j], v, l, l)
      BY <2>1, <3>3, MinimumOfSound
    <3> HIDE DEF r
    <3>6. QED BY <1>2, <2>2, <3>2, <3>3, <3>4, <3>5
  <2>7. QED BY <1>3, <2>3, <2>4, <2>5, <2>6
<1>4. ASSUME NEW i \in DOMAIN elements, Negate(i) \/ ReluStep(i) \/ BoundedReluStep(i)
      PROVE  RInv'
  <2>1. /\ IsElement(elements[i]) /\ levels[i] \in Nat /\ Sound(elements[i], meaning[i], levels[i])
        /\ \A k \in Places : meaning[i][k] \in Int
    BY ProgramParts DEF RInv, IsBatch
  <2>2. Larger(levels[i], levels[i]) = levels[i] /\ levels[i] \in Nat /\ 0 \in Nat
    BY <2>1 DEF Larger
  <2>3. CASE Negate(i)
    <3> DEFINE r == NegateOf(elements[i])
               v == [k \in Places |-> -meaning[i][k]]
    <3>1. EachOf(LAMBDA x : -x, meaning[i]) = v
      BY DEF EachOf, Places
    <3>2. Step("negate", i, i, r, v, levels[i])
      BY <2>3, <3>1, Zenon DEF Negate
    <3>3. IsBatch(v) /\ \A k \in Places : v[k] = -meaning[i][k]
      BY <2>1 DEF IsBatch, Relu, Alpha
    <3>4. Keeps(elements[i], elements[i], r)
      BY <2>1, UnaryKeeps
    <3> HIDE DEF v
    <3>5. ~Defective("negate", elements[i], elements[i]) /\ r # Thrown
            => OpSound(r, meaning[i], meaning[i], v, levels[i], levels[i])
      BY <2>1, <3>3, NegateOfSound
    <3> HIDE DEF r
    <3>6. QED BY <1>2, <2>2, <3>2, <3>3, <3>4, <3>5
  <2>4. CASE ReluStep(i)
    <3> DEFINE r == ReluOf(elements[i])
               v == [k \in Places |-> Relu(meaning[i][k])]
    <3>1. EachOf(Relu, meaning[i]) = v
      BY DEF EachOf, Places
    <3>2. Step("relu", i, i, r, v, 0)
      BY <2>4, <3>1, Zenon DEF ReluStep
    <3>3. IsBatch(v) /\ \A k \in Places : v[k] = Relu(meaning[i][k])
      BY <2>1 DEF IsBatch, Relu, Alpha
    <3>4. Keeps(elements[i], elements[i], r)
      BY <2>1, UnaryKeeps
    <3> HIDE DEF v
    <3>5. ~Defective("relu", elements[i], elements[i]) /\ r # Thrown
            => OpSound(r, meaning[i], meaning[i], v, levels[i], 0)
      BY <2>1, <3>3, ReluOfSound
    <3> HIDE DEF r
    <3>6. QED BY <1>2, <2>2, <3>2, <3>3, <3>4, <3>5
  <2>5. CASE BoundedReluStep(i)
    <3> DEFINE r == BoundedReluOf(elements[i], Alpha)
               v == [k \in Places |-> IF Relu(meaning[i][k]) < Alpha THEN Relu(meaning[i][k]) ELSE Alpha]
    <3>1. EachOf(LAMBDA x : IF Relu(x) < Alpha THEN Relu(x) ELSE Alpha, meaning[i]) = v
      BY DEF EachOf, Places
    <3>2. Step("bounded_relu", i, i, r, v, 0)
      BY <2>5, <3>1, Zenon DEF BoundedReluStep
    <3>3. IsBatch(v) /\ \A k \in Places : v[k] = IF Relu(meaning[i][k]) < Alpha THEN Relu(meaning[i][k]) ELSE Alpha
      BY <2>1 DEF IsBatch, Relu, Alpha
    <3>4. Keeps(elements[i], elements[i], r)
      BY <2>1, UnaryKeeps
    <3> HIDE DEF v
    <3>5. Alpha \in Nat
      BY DEF Alpha
    <3>6. ~Defective("bounded_relu", elements[i], elements[i]) /\ r # Thrown
            => OpSound(r, meaning[i], meaning[i], v, levels[i], 0)
      BY <2>1, <3>3, <3>5, BoundedReluOfSound
    <3> HIDE DEF r
    <3>7. QED BY <1>2, <2>2, <3>2, <3>3, <3>4, <3>6
  <2>6. QED BY <1>4, <2>3, <2>4, <2>5
<1>5. QED BY <1>1, <1>3, <1>4 DEF Next, Finished, vars

LEMMA RInvAlways == ASSUME WholeBatches, EqualPrimes, ~KnownDefects PROVE Spec => []RInv
<1>1. Init => RInv
  BY InitSound
<1>2. RInv /\ [Next]_vars => RInv'
  BY NextSound
<1>3. QED BY <1>1, <1>2, PTL DEF Spec

\* Whatever operations a program is made of, on whatever mixture of ciphertexts, known
\* zeros, packed ciphertexts and values, at whatever levels, its elements decrypt and
\* decode to what it means, as long as no operation meets operands that the code is
\* known to be wrong on: the kernels of src/seal/kernel and the choices of
\* generate_calls are right together.
THEOREM ProgramsRight ==
  ASSUME WholeBatches, EqualPrimes, ~KnownDefects
  PROVE  Spec => []ResultsRight
<1>1. RInv => ResultsRight
  <2>1. ASSUME RInv, NEW i \in DOMAIN elements PROVE ValuesOf(elements[i]) = meaning[i]
    BY <2>1, ProgramParts, SoundValues DEF RInv, WholeBatches
  <2>2. QED BY <2>1 DEF ResultsRight
<1>2. QED BY <1>1, RInvAlways, PTL

\* In every program every ciphertext is at the scale it was encrypted with between two
\* operations, and has lost no more levels than the multiplications on the way to
\* it and to what it was matched with: no rescaling is forgotten or done twice.
THEOREM ProgramsPay ==
  ASSUME WholeBatches, EqualPrimes, ~KnownDefects
  PROVE  Spec => []LevelsPayForMultiplications
<1>1. RInv => LevelsPayForMultiplications
  <2>1. ASSUME RInv, NEW i \in DOMAIN elements, elements[i].cipher, ~elements[i].e.zero
        PROVE  elements[i].e.data.scale = Scale /\ elements[i].e.data.level >= Top - levels[i]
    BY <2>1, ProgramParts DEF RInv, Sound, CipherSound, Paid
  <2>2. QED BY <2>1 DEF LevelsPayForMultiplications
<1>2. QED BY <1>1, RInvAlways, PTL
-----------------------------------------------------------------------------
(* Failures.                                                               *)

\* The levels numbers are encoded at: that of a new ciphertext, and those of the
\* ciphertexts there are.
LevelsInUse ==
  {Top} \cup {l \in Levels : \E i \in DOMAIN elements :
                               /\ elements[i].cipher /\ ~elements[i].e.zero
                               /\ elements[i].e.data.level = l}

\* The numbers of the program are in the range of the encoder: what is in the clear
\* can be encoded wherever there is a ciphertext to join it with, and what is
\* encrypted, in all its slots, anew.  It says nothing of levels that are left, of
\* scales, sizes or packing.
NumbersFit ==
  /\ Fits(Alpha, Scale, Top)
  /\ \A i \in DOMAIN elements :
       /\ elements[i].cipher => FitsAt(Decrypt(elements[i].e), Top)
       /\ ~elements[i].cipher => \A l \in LevelsInUse : FitsAt(elements[i].e, l)

\* What is in the clear fits the slots.
ShortPlains == \A i \in DOMAIN elements : Short(elements[i])

\* What programs start with is short.
LEMMA StartsShort == ASSUME WholeBatches PROVE Init => ShortPlains
<1> SUFFICES ASSUME NEW s \in Starts, elements = <<StartElement(s[1]), StartElement(s[2])>>
             PROVE  ShortPlains
  BY DEF Init
<1>1. ASSUME NEW n \in {1, 2} PROVE Short(StartElement(s[n]))
  <2>1. Len(s[n].values) <= Slots
    <3>1. Len(s[n].values) \in {1, BatchSize} /\ BatchSize <= Slots
      BY DEF WholeBatches, BatchesFit
    <3>2. \A l : l \in {1, BatchSize} /\ BatchSize <= Slots => l <= Slots
      BY SizesType
    <3>3. QED BY <3>1, <3>2
  <2>2. CASE s[n].cipher
    BY <2>2 DEF Short, StartElement, Cipher
  <2>3. CASE ~s[n].cipher
    BY <2>1, <2>3 DEF Short, StartElement, PlainOf, Plain
  <2>4. QED BY <2>2, <2>3
<1>2. DOMAIN elements = 1..2
  OBVIOUS
<1>3. QED BY <1>1, <1>2 DEF ShortPlains

LEMMA OperationShort ==
  ASSUME RInv, ShortPlains, NEW i \in DOMAIN elements, NEW j \in DOMAIN elements,
         NEW r, r # Thrown, Shaped(elements[i], elements[j], r),
         elements' = Append([elements EXCEPT ![i] = r[1], ![j] = r[2]], r[3])
  PROVE  ShortPlains'
<1>1. Short(r[1]) /\ Short(r[2]) /\ Short(r[3])
  BY ShapedShort DEF ShortPlains
<1> DEFINE u == [elements EXCEPT ![i] = r[1], ![j] = r[2]]
<1>2. PICK S : elements \in Seq(S)
  BY DEF RInv, Program, Typed
<1> DEFINE R == S \cup {r[1], r[2], r[3]}
<1>3. u \in Seq(R) /\ r[3] \in R
  BY <1>2
<1>4. \A k \in DOMAIN u : Short(u[k])
  BY <1>1 DEF ShortPlains
<1> HIDE DEF u, R
<1>5. \A k \in DOMAIN Append(u, r[3]) : (k \in DOMAIN u /\ Append(u, r[3])[k] = u[k]) \/ Append(u, r[3])[k] = r[3]
  BY <1>3, AppendProperties
<1>6. \A k \in DOMAIN Append(u, r[3]) : Short(Append(u, r[3])[k])
  BY <1>1, <1>4, <1>5
<1>7. elements' = Append(u, r[3])
  BY DEF u
<1>8. QED BY <1>6, <1>7 DEF ShortPlains

\* The numbers of two elements fit where they are joined.
LEMMA NumbersFitTogether ==
  ASSUME RInv, ShortPlains, NumbersFit, NEW i \in DOMAIN elements, NEW j \in DOMAIN elements
  PROVE  FitsWith(elements[i], elements[j]) /\ Reencodes(elements[i])
<1>1. Reencodes(elements[i])
  BY DEF NumbersFit, Reencodes
<1>2. ASSUME ~elements[i].cipher, elements[j].cipher
      PROVE  /\ Len(elements[i].e.values) <= Slots
             /\ FitsAt(elements[i].e, Top)
             /\ ~elements[j].e.zero => FitsAt(elements[i].e, elements[j].e.data.level)
  <2>1. \A l \in LevelsInUse : FitsAt(elements[i].e, l)
    BY <1>2 DEF NumbersFit
  <2>2. ~elements[j].e.zero => elements[j].e.data.level \in Levels
    BY <1>2, ProgramParts, PaidData DEF RInv, Sound
  <2>3. QED BY <1>2, <2>1, <2>2 DEF ShortPlains, Short, LevelsInUse
<1>3. QED BY <1>1, <1>2 DEF FitsWith

\* An operation fails only when its product needs a level more than there are.
LEMMA NextFails ==
  ASSUME WholeBatches, EqualPrimes, ~KnownDefects
  PROVE  RInv /\ ShortPlains /\ NumbersFit /\ NoEarlyFailure /\ [Next]_vars
           => ShortPlains' /\ NoEarlyFailure'
<1> SUFFICES ASSUME RInv, ShortPlains, NumbersFit, NoEarlyFailure, [Next]_vars
             PROVE  ShortPlains' /\ NoEarlyFailure'
  OBVIOUS
<1> BatchesFit
  BY DEF WholeBatches
<1>1. CASE elements' = elements /\ failed' = failed
  BY <1>1 DEF ShortPlains, NoEarlyFailure
<1>2. ASSUME NEW op, NEW i \in DOMAIN elements, NEW j \in DOMAIN elements,
             NEW r, Shaped(elements[i], elements[j], r), NEW v, NEW k \in Nat,
             ~Defective(op, elements[i], elements[j]) /\ k <= Top => r # Thrown,
             Step(op, i, j, r, v, k)
      PROVE  ShortPlains' /\ NoEarlyFailure'
  <2>1. CASE r = Thrown
    <3>1. elements' = elements /\ failed' = k /\ ~(k <= Top)
      BY <1>2, <2>1 DEF Step
    <3>2. Top \in Int
      BY LevelsInt
    <3>3. QED BY <3>1, <3>2 DEF ShortPlains, NoEarlyFailure
  <2>2. CASE r # Thrown
    <3>1. /\ elements' = Append([elements EXCEPT ![i] = r[1], ![j] = r[2]], r[3])
          /\ failed' = failed
      BY <1>2, <2>2 DEF Step
    <3>2. QED BY <1>2, <2>2, <3>1, OperationShort DEF NoEarlyFailure
  <2>3. QED BY <2>1, <2>2
<1>3. ASSUME NEW i \in DOMAIN elements, NEW j \in DOMAIN elements,
             Add(i, j) \/ Subtract(i, j) \/ Multiply(i, j) \/ Minimum(i, j)
      PROVE  ShortPlains' /\ NoEarlyFailure'
  <2> DEFINE x == elements[i]
             y == elements[j]
             l == Larger(levels[i], levels[j])
  <2>1. /\ levels[i] \in Nat /\ Sound(x, meaning[i], levels[i])
        /\ levels[j] \in Nat /\ Sound(y, meaning[j], levels[j])
    BY ProgramParts DEF RInv
  <2>2. l \in Nat /\ l + 1 \in Nat /\ (l + 1 <= Top => l < Top)
    <3>1. l \in Nat /\ Top \in Int
      BY <2>1, LargerType, LevelsInt, Zenon
    <3> HIDE DEF l
    <3>2. QED BY <3>1
  <2>3. FitsWith(x, y) /\ FitsWith(y, x)
    BY NumbersFitTogether
  <2>4. CASE Add(i, j)
    <3>1. Shaped(x, y, AddOf(x, y))
      BY <2>1, OperationsShaped
    <3>2. ~Defective("add", x, y) => AddOf(x, y) # Thrown
      BY <2>1, <2>3, AddOfSome
    <3>3. \E v : Step("add", i, j, AddOf(x, y), v, l)
      BY <2>4, Zenon DEF Add
    <3>4. QED BY <1>2, <2>2, <3>1, <3>2, <3>3
  <2>5. CASE Subtract(i, j)
    <3>1. Shaped(x, y, SubtractOf(x, y))
      BY <2>1, OperationsShaped
    <3>2. ~Defective("subtract", x, y) => SubtractOf(x, y) # Thrown
      BY <2>1, <2>3, SubtractOfSome
    <3>3. \E v : Step("subtract", i, j, SubtractOf(x, y), v, l)
      BY <2>5, Zenon DEF Subtract
    <3>4. QED BY <1>2, <2>2, <3>1, <3>2, <3>3
  <2>6. CASE Multiply(i, j)
    <3>1. Shaped(x, y, MultiplyOf(x, y))
      BY <2>1, OperationsShaped
    <3>2. ~Defective("multiply", x, y) /\ l < Top => MultiplyOf(x, y) # Thrown
      BY <2>1, <2>3, MultiplyOfSome
    <3>3. \E v : Step("multiply", i, j, MultiplyOf(x, y), v, l + 1)
      BY <2>6, Zenon DEF Multiply
    <3>4. QED BY <1>2, <2>2, <3>1, <3>2, <3>3
  <2>7. CASE Minimum(i, j)
    <3>1. Shaped(x, y, MinimumOf(x, y))
      BY <2>1, OperationsShaped
    <3>2. ~Defective("minimum", x, y) => MinimumOf(x, y) # Thrown
      BY <2>1, MinimumOfSome
    <3>3. \E v : Step("minimum", i, j, MinimumOf(x, y), v, l)
      BY <2>7, Zenon DEF Minimum
    <3>4. QED BY <1>2, <2>2, <3>1, <3>2, <3>3
  <2>8. QED BY <1>3, <2>4, <2>5, <2>6, <2>7
<1>4. ASSUME NEW i \in DOMAIN elements, Negate(i) \/ ReluStep(i) \/ BoundedReluStep(i)
      PROVE  ShortPlains' /\ NoEarlyFailure'
  <2> DEFINE x == elements[i]
  <2>1. levels[i] \in Nat /\ Sound(x, meaning[i], levels[i]) /\ Reencodes(x)
    BY ProgramParts, NumbersFitTogether DEF RInv
  <2>2. Alpha \in Nat /\ Fits(Alpha, Scale, Top)
    BY DEF Alpha, NumbersFit
  <2>3. /\ Shaped(x, x, NegateOf(x)) /\ Shaped(x, x, ReluOf(x))
        /\ Shaped(x, x, BoundedReluOf(x, Alpha))
    BY <2>1, OperationsShaped
  <2>4. NegateOf(x) # Thrown /\ ReluOf(x) # Thrown /\ BoundedReluOf(x, Alpha) # Thrown
    BY <2>1, <2>2, NegateOfSome, ReluOfSome, BoundedReluOfSome
  <2>5. CASE Negate(i)
    <3>1. \E v : Step("negate", i, i, NegateOf(x), v, levels[i])
      BY <2>5, Zenon DEF Negate
    <3>2. QED BY <1>2, <2>1, <2>3, <2>4, <3>1
  <2>6. CASE ReluStep(i)
    <3>1. \E v : Step("relu", i, i, ReluOf(x), v, 0)
      BY <2>6, Zenon DEF ReluStep
    <3>2. QED BY <1>2, <2>3, <2>4, <3>1
  <2>7. CASE BoundedReluStep(i)
    <3>1. \E v : Step("bounded_relu", i, i, BoundedReluOf(x, Alpha), v, 0)
      BY <2>7, Zenon DEF BoundedReluStep
    <3>2. QED BY <1>2, <2>3, <2>4, <3>1
  <2>8. QED BY <1>4, <2>5, <2>6, <2>7
<1>5. QED BY <1>1, <1>3, <1>4 DEF Next, Finished, vars

\* In a program whose numbers the encoder can represent, no operation throws while there
\* are levels left: not for data at different levels, of different scales, known to be
\* zero or with one number in place of a batch. The only failure there is is a product
\* that needs a level more than the modulus has (multiply_seal.cpp, rescaling).
THEOREM NoEarlyFailures ==
  ASSUME WholeBatches, EqualPrimes, ~KnownDefects
  PROVE  Spec /\ []NumbersFit => []NoEarlyFailure
<1> DEFINE FInv == ShortPlains /\ NoEarlyFailure
<1>1. Init => FInv
  BY StartsShort DEF Init, NoEarlyFailure
<1>2. RInv /\ NumbersFit /\ FInv /\ [Next]_vars => FInv'
  BY NextFails
<1>3. FInv => NoEarlyFailure
  OBVIOUS
<1> HIDE DEF FInv
<1>4. Spec => []RInv
  BY RInvAlways
<1>5. QED BY <1>1, <1>2, <1>3, <1>4, PTL DEF Spec
=============================================================================
