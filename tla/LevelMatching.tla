--------------------------- MODULE LevelMatching ---------------------------
(***************************************************************************)
(* match_to_smallest_chain_index (src/seal/seal_util.cpp): the elements of *)
(* a tensor are brought to the lowest level among them, before they go     *)
(* into one message.  The loop over the elements is an OpenMP parallel for,*)
(* here one thread per element.  Elements are shared pointers, and two of  *)
(* them may point to one ciphertext: broadcast and reshape copy pointers.  *)
(*                                                                         *)
(* Two threads on one ciphertext are a data race; of its outcomes this     *)
(* module has those in which each drop of one prime takes effect as a      *)
(* whole.                                                                  *)
(***************************************************************************)
EXTENDS Ciphertexts

CONSTANTS
  Elements,     \* num_elements
  Pointers,     \* what the elements can point to: functions on 0..Elements-1
  OnlyMatched   \* leave out the tensors whose element the loop skips is too high

ASSUME ElementsAssumption == Elements \in Nat \ {0}
Indices == 0..(Elements - 1)
ASSUME PointersAssumption == Pointers \subseteq [Indices -> Indices]

VARIABLES
  ciphers,     \* address of each element
  ciphertexts, \* at each address
  smallest,    \* smallest_chain_ind: (position, level)
  pc           \* of each thread

vars == <<ciphers, ciphertexts, smallest, pc>>

NonZero == {i \in Indices : ~ciphertexts[ciphers[i]].zero}
LevelOf(i) == ciphertexts[ciphers[i]].data.level

\* get_smallest_chain_index: the first position of the lowest level, and the level.
IsHighest(s, levels, positions) ==
  /\ s \in positions \X {levels[i] : i \in positions}
  /\ s[2] = levels[s[1]]
  /\ \A j \in positions : levels[j] <= s[2] /\ (levels[j] = s[2] => s[1] <= j)
IsSmallestChainIndex(s, levels, positions) ==
  /\ s \in positions \X {levels[i] : i \in positions}
  /\ s[2] = levels[s[1]]
  /\ \A j \in positions : s[2] <= levels[j] /\ (levels[j] = s[2] => s[1] <= j)

\* The element at the position that equals the lowest level is skipped.
Skipped(i) == i = smallest[2]

Init ==
  /\ ciphers \in Pointers
  /\ \E level \in [Indices -> Levels], zero \in [Indices -> BOOLEAN] :
       /\ ciphertexts = [a \in Indices |-> [zero |-> zero[a], packed |-> FALSE,
                                            data |-> Data(level[a], Scale, <<>>)]]
       /\ NonZero # {}
       /\ smallest \in Indices \X Levels
       /\ IsSmallestChainIndex(smallest, [i \in Indices |-> level[ciphers[i]]], NonZero)
  /\ OnlyMatched => \A i \in NonZero : Skipped(i) => LevelOf(i) = smallest[2]
  /\ pc = [i \in Indices |-> "compare"]

Goto(i, label) == pc' = [pc EXCEPT ![i] = label]

\* Zeros and the skipped element are left alone, and so is one of the right level.
CompareWithPosition(i) ==
  /\ pc[i] = "compare"
  /\ Goto(i, IF i \notin NonZero \/ Skipped(i) \/ LevelOf(i) = smallest[1] THEN "done"
             ELSE IF LevelOf(i) = smallest[2] THEN "check" ELSE "switch")
  /\ UNCHANGED <<ciphers, ciphertexts, smallest>>
CompareDropping(i) ==
  /\ pc[i] = "compare"
  /\ Goto(i, IF i \notin NonZero \/ Skipped(i) THEN "done" ELSE "drop")
  /\ UNCHANGED <<ciphers, ciphertexts, smallest>>
Compare(i) ==
  /\ pc[i] = "compare"
  /\ Goto(i, IF i \notin NonZero \/ Skipped(i) THEN "done"
             ELSE IF LevelOf(i) = smallest[2] THEN "check" ELSE "switch")
  /\ UNCHANGED <<ciphers, ciphertexts, smallest>>

\* Evaluator::mod_switch_to_inplace compares the levels,
SwitchWaiting(i) ==
  /\ pc[i] = "switch"
  /\ LevelOf(i) = smallest[2]
  /\ Goto(i, "check")
  /\ UNCHANGED <<ciphers, ciphertexts, smallest>>
Switch(i) ==
  /\ pc[i] = "switch"
  /\ Goto(i, IF LevelOf(i) = smallest[2] THEN "check" ELSE "drop")
  /\ UNCHANGED <<ciphers, ciphertexts, smallest>>

\* drops one prime, and compares again; at the end of the chain it throws.
Drop(i) ==
  /\ pc[i] = "drop"
  /\ IF LevelOf(i) = 0
     THEN Goto(i, "threw") /\ UNCHANGED ciphertexts
     ELSE /\ ciphertexts' = [ciphertexts EXCEPT ![ciphers[i]].data.level = @ - 1]
          /\ Goto(i, "switch")
  /\ UNCHANGED <<ciphers, smallest>>

\* NGRAPH_CHECK: chain_ind matches the smallest.
Check(i) ==
  /\ pc[i] = "check"
  /\ Goto(i, IF LevelOf(i) = smallest[2] THEN "done" ELSE "threw")
  /\ UNCHANGED <<ciphers, ciphertexts, smallest>>

\* An exception that leaves a parallel region ends the process, and all threads.
Thread(i) ==
  /\ \A j \in Indices : pc[j] # "threw"
  /\ Compare(i) \/ Switch(i) \/ Drop(i) \/ Check(i)

\* The end of the parallel region, or of the process.
Terminated ==
  \/ \E i \in Indices : pc[i] = "threw"
  \/ \A i \in Indices : pc[i] = "done"

Next ==
  \/ \E i \in Indices : Thread(i)
  \/ Terminated /\ UNCHANGED vars

Spec == Init /\ [][Next]_vars /\ \A i \in Indices : WF_vars(Thread(i))

-----------------------------------------------------------------------------
\* Every element of a message is at one level, the lowest there was, once the loop
\* has ended: the client's reads of the message and its result depend on it.
AllMatched ==
  (\A i \in Indices : pc[i] = "done") => \A i \in NonZero : LevelOf(i) = smallest[2]

\* The assertion after each match, and SEAL's, hold: no thread throws.
NoThreadThrows == \A i \in Indices : pc[i] # "threw"

\* No level is dropped that need not be: at every moment no element is below the
\* lowest level the loop was given.
NeverBelowSmallest == \A i \in NonZero : LevelOf(i) >= smallest[2]

\* Every thread ends: the number of primes bounds its loop, whatever the other
\* threads do.
EveryThreadEnds == <>(Terminated)
=============================================================================
