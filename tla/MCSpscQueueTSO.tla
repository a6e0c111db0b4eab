--------------------------- MODULE MCSpscQueueTSO ---------------------------
(* Instances of SpscQueueTSO for TLC.  A message is one int, as the test   *)
(* programs send it.                                                       *)
EXTENDS SpscQueueTSO

CONSTANTS w1, zero, a, b

MCWords    == {w1}
MCValues   == {zero, a, b}
MCMessages == {[w \in MCWords |-> v] : v \in {a, b}}

=============================================================================
