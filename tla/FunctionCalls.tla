---------------------------- MODULE FunctionCalls ----------------------------
(***************************************************************************)
(* What a caller expects of an executable and of its tensors: calls        *)
(* evaluate the function on what was last written to the inputs, into the  *)
(* outputs, and nothing else changes either.                               *)
(***************************************************************************)
EXTENDS DataflowGraphs, FiniteSets

CONSTANT Numbers   \* that are written

VARIABLES
  function,
  inputs,    \* what a read of each input gives
  outputs,   \* what a read of each output gives: <<number>>, <<>> if nothing
  due        \* outputs that the call under way has still to give

callsVars == <<function, inputs, outputs, due>>

\* The node of the j-th result.
ResultNode(g, j) ==
  CHOOSE k \in Of(g, "result") : Cardinality({i \in Of(g, "result") : i <= k}) = j

Init ==
  /\ inputs \in [Of(function, "parameter") -> Numbers]
  /\ due = {}

Write ==
  /\ due = {}
  /\ inputs' \in [Of(function, "parameter") -> Numbers]
  /\ UNCHANGED <<function, outputs, due>>

Call ==
  /\ due = {}
  /\ due' = DOMAIN outputs
  /\ UNCHANGED <<function, inputs, outputs>>

Give(j) ==
  /\ due' = due \ {j}
  /\ outputs' = [outputs EXCEPT ![j] = <<Meaning(function, inputs)[ResultNode(function, j)]>>]
  /\ UNCHANGED <<function, inputs>>

Next == Write \/ Call \/ \E j \in due : Give(j)

Spec == Init /\ [][Next]_callsVars
=============================================================================
