---------------------------- MODULE FifoDelivery ----------------------------
(***************************************************************************)
(* What TCPClient promises its user: messages are delivered in the order   *)
(* in which write_message accepted them, each at most once, and all of     *)
(* them unless the connection ends first.                                  *)
(***************************************************************************)
EXTENDS Naturals, Sequences

CONSTANT Msg

VARIABLES
  accepted,   \* every message given to write_message, oldest first
  delivered,  \* every message handed to the network
  open        \* the connection works

vars == <<accepted, delivered, open>>

IsPrefixOf(s, t) == Len(s) <= Len(t) /\ s = SubSeq(t, 1, Len(s))

Init == accepted = <<>> /\ delivered = <<>> /\ open = TRUE

Accept ==
  /\ \E n \in 1..2 : \E ms \in [1..n -> Msg] : accepted' = accepted \o ms
  /\ UNCHANGED delivered
  /\ open' \in {open, FALSE}

Deliver ==
  /\ open = TRUE
  /\ Len(delivered) < Len(accepted)
  /\ delivered' = Append(delivered, accepted[Len(delivered) + 1])
  /\ UNCHANGED <<accepted, open>>

End ==
  /\ open = TRUE
  /\ open' = FALSE
  /\ UNCHANGED <<accepted, delivered>>

Next == Accept \/ Deliver \/ End

Spec == Init /\ [][Next]_vars /\ WF_vars(Deliver)
=============================================================================
