-------------------------- MODULE MCGraphExecution --------------------------
(***************************************************************************)
(* Instances of GraphExecution for TLC.                                    *)
(***************************************************************************)
EXTENDS GraphExecution

FourPrimes == <<60, 30, 30, 30>>

N(op, args) == [op |-> op, args |-> args, number |-> 0]
Const(number) == [op |-> "constant", args |-> <<>>, number |-> number]
Param == N("parameter", <<>>)

\* (x + y) * x: x is matched to the level of nothing else.
SumTimes ==
  <<Param, Param, N("add", <<1, 2>>), N("multiply", <<3, 1>>), N("result", <<4>>)>>

\* x + 2x: every call lowers the ciphertext of x.
Lowering ==
  <<Param, Const(2), N("multiply", <<1, 2>>), N("add", <<1, 3>>), N("reshape", <<4>>),
    N("result", <<5>>)>>

\* min(relu(3x), 5) + y, where the minimum is fused, and its lists are stale.
Fusing ==
  <<Param, Param, Const(3), Const(5), N("multiply", <<1, 3>>), N("relu", <<5>>),
    N("minimum", <<6, 4>>), N("add", <<7, 2>>), N("result", <<8>>)>>

\* Two results, of which one reads what the other does, and a relu.
TwoResults ==
  <<Param, Param, N("multiply", <<1, 2>>), N("relu", <<3>>), N("result", <<4>>),
    N("add", <<3, 4>>), N("result", <<6>>)>>

\* A movement only: the output is the input's ciphertext.
Moving == <<Param, N("reshape", <<1>>), N("result", <<2>>)>>

\* The relu's argument is read, and freed, before the fused node that reads it.
FreedBeforeFused ==
  <<Param, Const(3), N("multiply", <<1, 2>>), N("relu", <<3>>), N("add", <<3, 1>>),
    N("minimum", <<4, 2>>), N("add", <<6, 5>>), N("result", <<7>>)>>

\* min(relu(2x), 6) * x: a relu that the client can do.
Bounded ==
  <<Param, Const(2), Const(6), N("multiply", <<1, 2>>), N("relu", <<4>>),
    N("minimum", <<5, 3>>), N("multiply", <<6, 1>>), N("result", <<7>>)>>

\* min(relu(x), -1), which the bounded relu is not.
NegativeBound ==
  <<Param, Const(-1), N("relu", <<1>>), N("minimum", <<3, 2>>), N("result", <<4>>)>>

\* relu(min(x, y)): a minimum that is not fused.
Minima ==
  <<Param, Param, N("minimum", <<1, 2>>), N("relu", <<3>>), N("result", <<4>>)>>

\* min(1, relu(x)), the bound first, and not one that the client can do.
BoundFirst ==
  <<Param, Const(1), N("relu", <<1>>), N("minimum", <<2, 3>>), N("result", <<4>>)>>

\* 0 * x, a known zero that is not sent to a client.
ZeroWeight == <<Param, Const(0), N("multiply", <<1, 2>>), N("result", <<3>>)>>

AllGraphs ==
  {SumTimes, Lowering, Fusing, TwoResults, Moving, FreedBeforeFused, Bounded, NegativeBound,
   Minima, BoundFirst, ZeroWeight}
TwelveAddresses == 1..12
AllNumbers == {0, 2, -1}
=============================================================================
