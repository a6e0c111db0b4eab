----------------------------- MODULE MCSpscQueue -----------------------------
(***************************************************************************)
(* Instances of SpscQueue for TLC.  All words of a message are equal, so a *)
(* line that mixes two messages, or a message and the zeros of a new file, *)
(* is told from each of them.                                              *)
(***************************************************************************)
EXTENDS SpscQueue

CONSTANTS w1, w2, zero, a, b

MCWords    == {w1, w2}
MCValues   == {zero, a, b}
MCMessages == {[w \in MCWords |-> v] : v \in {a, b}}

=============================================================================
