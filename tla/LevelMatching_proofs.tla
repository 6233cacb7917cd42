------------------------ MODULE LevelMatching_proofs ------------------------
(***************************************************************************)
(* The loop of match_to_smallest_chain_index is right for every number of  *)
(* elements and every coefficient modulus, when no two elements point to   *)
(* one ciphertext and the element it skips is at the lowest level.         *)
(*                                                                         *)
(* A thread only lowers its own ciphertext then, so what it has seen of    *)
(* its level stays true: that is MatchingInv.                              *)
(***************************************************************************)
EXTENDS LevelMatching, TLAPS

Unshared == \A p \in Pointers : \A i, j \in Indices : p[i] = p[j] => i = j

Labels == {"compare", "switch", "drop", "check", "done", "threw"}

TypeOK ==
  /\ ciphers \in [Indices -> Indices]
  /\ ciphertexts \in [Indices -> [zero : BOOLEAN, packed : BOOLEAN,
                                  data : [level : Int, scale : {Scale}, slots : {<<>>}]]]
  /\ smallest \in Indices \X Int
  /\ pc \in [Indices -> Labels]

\* What thread i knows of its ciphertext at each label.
ThreadInv(i) ==
  /\ pc[i] # "threw"
  /\ pc[i] \in {"switch", "drop", "check"} => i \in NonZero
  /\ i \in NonZero => LevelOf(i) >= smallest[2]
  /\ pc[i] = "drop" => LevelOf(i) > smallest[2]
  /\ i \in NonZero /\ (Skipped(i) \/ pc[i] \in {"check", "done"}) => LevelOf(i) = smallest[2]

MatchingInv ==
  /\ TypeOK
  /\ smallest[2] >= 0
  /\ \A i, j \in Indices : ciphers[i] = ciphers[j] => i = j
  /\ \A i \in Indices : ThreadInv(i)

LEMMA LevelsAreNumbers == \A x \in Levels : x \in Int /\ x >= 0
<1>1. Len(ModulusBits) \in Nat
  BY ModulusAssumption, SMT
<1>2. QED BY <1>1, SMT DEF Levels, Top

-----------------------------------------------------------------------------
(* The initial states: the level is the smallest, and with OnlyMatched the *)
(* skipped element has it.                                                 *)

LEMMA InitTypes == Init => TypeOK
<1> SUFFICES ASSUME Init PROVE TypeOK OBVIOUS
<1>1. ciphers \in [Indices -> Indices]
  BY PointersAssumption DEF Init
<1>2. PICK level \in [Indices -> Levels], zero \in [Indices -> BOOLEAN] :
        /\ ciphertexts = [a \in Indices |-> [zero |-> zero[a], packed |-> FALSE,
                                             data |-> Data(level[a], Scale, <<>>)]]
        /\ smallest \in Indices \X Levels
  BY Zenon DEF Init
<1>3. \A a \in Indices : level[a] \in Int /\ zero[a] \in BOOLEAN
  <2>1. \A a \in Indices : level[a] \in Levels /\ zero[a] \in BOOLEAN
    OBVIOUS
  <2>2. QED BY <2>1, LevelsAreNumbers
<1>4. ciphertexts \in [Indices -> [zero : BOOLEAN, packed : BOOLEAN,
                                   data : [level : Int, scale : {Scale}, slots : {<<>>}]]]
  BY <1>2, <1>3, SMT DEF Data
<1>5. smallest \in Indices \X Int
  <2>1. /\ smallest[1] \in Indices /\ smallest[2] \in Levels
        /\ smallest = <<smallest[1], smallest[2]>>
    BY <1>2, SMT
  <2>2. QED BY <2>1, LevelsAreNumbers
<1>6. pc \in [Indices -> Labels]
  BY SMT DEF Init, Labels
<1>7. QED BY <1>1, <1>4, <1>5, <1>6 DEF TypeOK

LEMMA InitMatching ==
  ASSUME Unshared, OnlyMatched, Init PROVE MatchingInv
<1>1. TypeOK
  BY InitTypes
<1>2. PICK level \in [Indices -> Levels], zero \in [Indices -> BOOLEAN] :
        /\ ciphertexts = [a \in Indices |-> [zero |-> zero[a], packed |-> FALSE,
                                             data |-> Data(level[a], Scale, <<>>)]]
        /\ smallest \in Indices \X Levels
        /\ IsSmallestChainIndex(smallest, [i \in Indices |-> level[ciphers[i]]], NonZero)
  BY Zenon DEF Init
<1>3. \A i \in Indices : LevelOf(i) = level[ciphers[i]]
  BY <1>1, <1>2, SMT DEF LevelOf, Data, TypeOK
<1>4. NonZero \subseteq Indices
  BY DEF NonZero
<1>5. \A i \in NonZero : smallest[2] <= LevelOf(i)
  <2>1. \A i \in NonZero : smallest[2] <= [k \in Indices |-> level[ciphers[k]]][i]
    BY <1>2, Zenon DEF IsSmallestChainIndex
  <2>2. QED BY <1>3, <1>4, <2>1, Zenon
<1>6. smallest[2] \in Int /\ smallest[2] >= 0
  <2>1. /\ smallest[1] \in Indices /\ smallest[2] \in Levels
        /\ smallest = <<smallest[1], smallest[2]>>
    BY <1>2, SMT
  <2>2. QED BY <2>1, LevelsAreNumbers
<1>7. \A i \in Indices : LevelOf(i) \in Int
  BY <1>1, SMT DEF TypeOK, LevelOf
<1>8. ASSUME NEW i \in Indices PROVE ThreadInv(i)
  <2>1. pc[i] = "compare"
    BY SMT DEF Init
  <2>2. i \in NonZero /\ Skipped(i) => LevelOf(i) = smallest[2]
    BY OnlyMatched, Zenon DEF Init
  <2>3. i \in NonZero => LevelOf(i) >= smallest[2]
    BY <1>5, <1>6, <1>7, SMT
  <2>4. QED BY <2>1, <2>2, <2>3, Zenon DEF ThreadInv
<1>9. \A i, j \in Indices : ciphers[i] = ciphers[j] => i = j
  BY DEF Init, Unshared
<1>10. QED BY <1>1, <1>6, <1>8, <1>9, SMT DEF MatchingInv

-----------------------------------------------------------------------------
(* The steps.  Those that do not write to a ciphertext only move a thread. *)

LEMMA MoveMatching ==
  ASSUME MatchingInv, NEW i \in Indices, NEW label \in Labels,
         Goto(i, label), UNCHANGED <<ciphers, ciphertexts, smallest>>,
         label # "threw",
         label \in {"switch", "drop", "check"} => i \in NonZero,
         label = "drop" => LevelOf(i) > smallest[2],
         i \in NonZero /\ label \in {"check", "done"} => LevelOf(i) = smallest[2]
  PROVE  MatchingInv'
<1>1. TypeOK'
  BY SMT DEF MatchingInv, TypeOK, Goto
<1>2. pc'[i] = label /\ \A j \in Indices : j # i => pc'[j] = pc[j]
  BY SMT DEF MatchingInv, TypeOK, Goto
<1>3. NonZero' = NonZero
  BY DEF NonZero
<1>4. \A j : LevelOf(j)' = LevelOf(j)
  BY DEF LevelOf
<1>5. \A j \in Indices : ThreadInv(j)
  BY DEF MatchingInv
<1>6. ASSUME NEW j \in Indices PROVE ThreadInv(j)'
  <2>1. CASE j # i
    BY <2>1, <1>2, <1>3, <1>4, <1>5, Zenon DEF ThreadInv, Skipped
  <2>2. CASE j = i
    BY <2>2, <1>2, <1>3, <1>4, <1>5, Zenon DEF ThreadInv, Skipped
  <2>3. QED BY <2>1, <2>2
<1>7. QED BY <1>1, <1>6, Zenon DEF MatchingInv

LEMMA CompareMatching == ASSUME MatchingInv, NEW i \in Indices, Compare(i) PROVE MatchingInv'
<1>1. ThreadInv(i)
  BY DEF MatchingInv
<1>2. CASE i \notin NonZero
  <2>1. Goto(i, "done")
    BY <1>2 DEF Compare
  <2>2. QED BY <1>2, <2>1, MoveMatching DEF Compare, Labels
<1>3. CASE i \in NonZero /\ Skipped(i)
  <2>1. Goto(i, "done")
    BY <1>3 DEF Compare
  <2>2. LevelOf(i) = smallest[2]
    BY <1>1, <1>3 DEF ThreadInv
  <2>3. QED BY <2>1, <2>2, MoveMatching DEF Compare, Labels
<1>4. CASE i \in NonZero /\ ~Skipped(i) /\ LevelOf(i) = smallest[2]
  <2>1. Goto(i, "check")
    BY <1>4 DEF Compare
  <2>2. QED BY <1>4, <2>1, MoveMatching DEF Compare, Labels
<1>5. CASE i \in NonZero /\ ~Skipped(i) /\ LevelOf(i) # smallest[2]
  <2>1. Goto(i, "switch")
    BY <1>5 DEF Compare
  <2>2. QED BY <1>5, <2>1, MoveMatching DEF Compare, Labels
<1>6. QED BY <1>2, <1>3, <1>4, <1>5

LEMMA SwitchMatching == ASSUME MatchingInv, NEW i \in Indices, Switch(i) PROVE MatchingInv'
<1>1. i \in NonZero /\ LevelOf(i) >= smallest[2]
  BY Zenon DEF MatchingInv, ThreadInv, Switch
<1>2. CASE LevelOf(i) = smallest[2]
  <2>1. Goto(i, "check")
    BY <1>2 DEF Switch
  <2>2. QED BY <1>1, <1>2, <2>1, MoveMatching DEF Switch, Labels
<1>3. CASE LevelOf(i) # smallest[2]
  <2>1. Goto(i, "drop")
    BY <1>3 DEF Switch
  <2>2. LevelOf(i) \in Int /\ smallest[2] \in Int
    BY SMT DEF MatchingInv, TypeOK, LevelOf
  <2>3. LevelOf(i) > smallest[2]
    BY <1>1, <1>3, <2>2, SMT
  <2>4. QED BY <1>1, <2>1, <2>3, MoveMatching DEF Switch, Labels
<1>4. QED BY <1>2, <1>3

LEMMA CheckMatching == ASSUME MatchingInv, NEW i \in Indices, Check(i) PROVE MatchingInv'
<1>1. LevelOf(i) = smallest[2] /\ i \in NonZero
  BY Zenon DEF MatchingInv, ThreadInv, Check
<1>2. Goto(i, "done")
  BY <1>1 DEF Check
<1>3. QED BY <1>1, <1>2, MoveMatching DEF Check, Labels

\* A thread lowers its own ciphertext, which no other element points to.
LEMMA DropMatching == ASSUME MatchingInv, NEW i \in Indices, Drop(i) PROVE MatchingInv'
<1>1. ThreadInv(i) /\ pc[i] = "drop" /\ i \in NonZero /\ LevelOf(i) > smallest[2]
  BY Zenon DEF MatchingInv, ThreadInv, Drop
<1>2. LevelOf(i) \in Int /\ smallest[2] \in Int /\ smallest[2] >= 0
  BY SMT DEF MatchingInv, TypeOK, LevelOf
<1>3. LevelOf(i) # 0
  BY <1>1, <1>2, SMT
<1>4. /\ ciphertexts' = [ciphertexts EXCEPT ![ciphers[i]].data.level = @ - 1]
      /\ Goto(i, "switch")
      /\ UNCHANGED <<ciphers, smallest>>
  BY <1>3, Zenon DEF Drop
<1>5. ciphers[i] \in Indices /\ \A j \in Indices : ciphers[j] \in Indices
  BY SMT DEF MatchingInv, TypeOK
<1>6. \A j \in Indices : j # i => ciphers[j] # ciphers[i]
  BY DEF MatchingInv
<1>7. ciphertexts' \in [Indices -> [zero : BOOLEAN, packed : BOOLEAN,
                                   data : [level : Int, scale : {Scale}, slots : {<<>>}]]]
  <2> DEFINE lowered == [ciphertexts[ciphers[i]] EXCEPT !.data.level = @ - 1]
  <2>1. ciphertexts[ciphers[i]] \in [zero : BOOLEAN, packed : BOOLEAN,
                                    data : [level : Int, scale : {Scale}, slots : {<<>>}]]
    BY <1>5, SMT DEF MatchingInv, TypeOK
  <2>2. lowered \in [zero : BOOLEAN, packed : BOOLEAN,
                     data : [level : Int, scale : {Scale}, slots : {<<>>}]]
    BY <2>1, SMT
  <2>3. ciphertexts' = [ciphertexts EXCEPT ![ciphers[i]] = lowered]
    BY <1>4, SMT
  <2> HIDE DEF lowered
  <2>4. QED BY <1>5, <2>2, <2>3, SMT DEF MatchingInv, TypeOK
<1>8. TypeOK'
  <2>1. pc' \in [Indices -> Labels]
    BY <1>4, SMT DEF MatchingInv, TypeOK, Goto, Labels
  <2>2. ciphers' \in [Indices -> Indices] /\ smallest' \in Indices \X Int
    BY <1>4, SMT DEF MatchingInv, TypeOK
  <2>3. QED BY <1>7, <2>1, <2>2 DEF TypeOK
<1>9. LevelOf(i)' = LevelOf(i) - 1
  BY <1>4, <1>5, SMT DEF MatchingInv, TypeOK, LevelOf
<1>10. \A j \in Indices : j # i => LevelOf(j)' = LevelOf(j)
  BY <1>4, <1>5, <1>6, SMT DEF MatchingInv, TypeOK, LevelOf
<1>11. NonZero' = NonZero
  <2>1. \A a \in Indices : ciphertexts'[a].zero = ciphertexts[a].zero
    BY <1>4, <1>5, SMT DEF MatchingInv, TypeOK
  <2>2. QED BY <1>4, <1>5, <2>1, Zenon DEF NonZero
<1>12. pc'[i] = "switch" /\ \A j \in Indices : j # i => pc'[j] = pc[j]
  BY <1>4, SMT DEF MatchingInv, TypeOK, Goto
<1>13. ASSUME NEW j \in Indices PROVE ThreadInv(j)'
  <2>1. ThreadInv(j)
    BY DEF MatchingInv
  <2>2. CASE j # i
    BY <1>4, <1>10, <1>11, <1>12, <2>1, <2>2, Zenon DEF ThreadInv, Skipped
  <2>3. CASE j = i
    <3>1. ~Skipped(i)
      BY <1>1, <1>2, SMT DEF ThreadInv
    <3>2. LevelOf(i)' >= smallest'[2]
      BY <1>1, <1>2, <1>4, <1>9, SMT
    <3>3. QED BY <1>1, <1>4, <1>11, <1>12, <2>3, <3>1, <3>2, Zenon DEF ThreadInv, Skipped
  <2>4. QED BY <2>2, <2>3
<1>14. QED BY <1>2, <1>4, <1>8, <1>13, Zenon DEF MatchingInv

LEMMA NextMatching == MatchingInv /\ [Next]_vars => MatchingInv'
<1> SUFFICES ASSUME MatchingInv, [Next]_vars PROVE MatchingInv' OBVIOUS
<1>1. CASE \E i \in Indices : Thread(i)
  BY <1>1, CompareMatching, SwitchMatching, DropMatching, CheckMatching DEF Thread
<1>2. CASE UNCHANGED vars
  <2>1. NonZero' = NonZero /\ \A i : LevelOf(i)' = LevelOf(i)
    BY <1>2 DEF vars, NonZero, LevelOf
  <2>2. TypeOK'
    BY <1>2 DEF vars, MatchingInv, TypeOK
  <2>3. \A i \in Indices : ThreadInv(i)'
    BY <1>2, <2>1, Zenon DEF vars, MatchingInv, ThreadInv, Skipped
  <2>4. QED BY <1>2, <2>2, <2>3, Zenon DEF vars, MatchingInv
<1>3. QED BY <1>1, <1>2 DEF Next

-----------------------------------------------------------------------------
\* match_to_smallest_chain_index leaves every element that is no known zero at one
\* level, the lowest there was, when no pointers are shared and the element that it
\* skips by mistake is there already.
THEOREM MatchedThm ==
  ASSUME Unshared, OnlyMatched PROVE Spec => []AllMatched
<1>1. Init => MatchingInv
  BY InitMatching
<1>2. MatchingInv /\ [Next]_vars => MatchingInv'
  BY NextMatching
<1>3. MatchingInv => AllMatched
  BY DEF MatchingInv, ThreadInv, AllMatched, NonZero
<1>4. QED BY <1>1, <1>2, <1>3, PTL DEF Spec

\* Neither the assertion after the match nor SEAL's at the end of the chain fails,
\* and so the parallel region is not left by an exception.
THEOREM NoThrowThm ==
  ASSUME Unshared, OnlyMatched PROVE Spec => []NoThreadThrows
<1>1. Init => MatchingInv
  BY InitMatching
<1>2. MatchingInv /\ [Next]_vars => MatchingInv'
  BY NextMatching
<1>3. MatchingInv => NoThreadThrows
  BY DEF MatchingInv, ThreadInv, NoThreadThrows
<1>4. QED BY <1>1, <1>2, <1>3, PTL DEF Spec

\* No level is lost on the way: a level dropped is a multiplication less.
THEOREM NeverBelowThm ==
  ASSUME Unshared, OnlyMatched PROVE Spec => []NeverBelowSmallest
<1>1. Init => MatchingInv
  BY InitMatching
<1>2. MatchingInv /\ [Next]_vars => MatchingInv'
  BY NextMatching
<1>3. MatchingInv => NeverBelowSmallest
  BY DEF MatchingInv, ThreadInv, NeverBelowSmallest, NonZero
<1>4. QED BY <1>1, <1>2, <1>3, PTL DEF Spec
=============================================================================
