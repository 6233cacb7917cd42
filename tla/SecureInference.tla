--------------------------- MODULE SecureInference ---------------------------
(***************************************************************************)
(* What the server and the client promise together: the inference the      *)
(* client asked for.  The keys reach the server, then the inputs, then     *)
(* every operation of the program is evaluated once and in order, whoever  *)
(* computes it, and the client is given the value of the last one.         *)
(***************************************************************************)
EXTENDS Messages

VARIABLES
  stage,       \* setup, keyed, running or delivered
  evaluated,   \* the output tensors of the operations evaluated so far
  delivered    \* what the client has been given

vars == <<stage, evaluated, delivered>>

Init == stage = "setup" /\ evaluated = <<>> /\ delivered = <<>>

ExchangeKeys ==
  /\ stage = "setup"
  /\ stage' = "keyed"
  /\ UNCHANGED <<evaluated, delivered>>

SubmitInputs ==
  /\ stage = "keyed"
  /\ stage' = "running"
  /\ UNCHANGED <<evaluated, delivered>>

Evaluate ==
  /\ stage = "running"
  /\ Len(evaluated) < Len(Program)
  /\ evaluated' = Append(evaluated, Output(Len(evaluated) + 1))
  /\ UNCHANGED <<stage, delivered>>

Deliver ==
  /\ stage = "running"
  /\ Len(evaluated) = Len(Program)
  /\ stage' = "delivered"
  /\ delivered' = FinalOutput
  /\ UNCHANGED evaluated

Next == ExchangeKeys \/ SubmitInputs \/ Evaluate \/ Deliver

Spec == Init /\ [][Next]_vars

\* With nothing failing, an inference that has begun is finished.
LiveSpec == Spec /\ WF_vars(Next)
=============================================================================
