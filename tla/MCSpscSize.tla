----------------------------- MODULE MCSpscSize -----------------------------
(* Instances of SpscSize for TLC; what the messages say does not matter. *)
EXTENDS SpscSize

CONSTANTS w1, zero, a

MCWords    == {w1}
MCMessages == {[w \in MCWords |-> a]}

=============================================================================
