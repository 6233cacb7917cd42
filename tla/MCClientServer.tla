--------------------------- MODULE MCClientServer ---------------------------
(***************************************************************************)
(* Instances of ClientServer for TLC.                                      *)
(***************************************************************************)
EXTENDS ClientServer

Node(kind, units, zeros) == [kind |-> kind, units |-> units, zeros |-> zeros]

\* Every kind of operation; with MaxReluMessageCnt = 2 the first needs three
\* requests, the last of them short, and the last operation two full ones.
MixedProgram ==
  <<Node("relu", 5, {}), Node("local", 2, {}), Node("max", 3, {}), Node("relu6", 4, {}),
    Node("local", 1, {})>>

\* As MixedProgram, shorter.
ShortProgram == <<Node("relu", 5, {}), Node("max", 2, {})>>

\* A known zero in the second request of the last operation.
ProgramWithZero == <<Node("max", 2, {1}), Node("relu6", 3, {3})>>

\* Two windows of one MaxPool.
MaxPoolProgram == <<Node("max", 2, {})>>

=============================================================================
