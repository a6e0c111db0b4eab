------------------------------ MODULE SpscFifo ------------------------------
(***************************************************************************)
(* What the shared memory queue promises to its two users: a bounded FIFO. *)
(*                                                                         *)
(* The state is the history of the queue.  `sent' is the sequence of the   *)
(* messages the producer has offered; `fate' says, for each of them in the *)
(* same order, how it left the queue: read by the consumer (the message    *)
(* the consumer saw) or removed unread by clear() (Dropped).  The queue's  *)
(* content is the part of `sent' that `fate' does not cover yet.           *)
(*                                                                         *)
(* A ring of Capacity lines holds Capacity - 1 messages: the code keeps    *)
(* one line free to tell a full ring from an empty one.                    *)
(***************************************************************************)
EXTENDS Integers, Sequences

CONSTANTS Capacity,   \* lines in the ring
          Messages,   \* what a producer may offer
          Dropped     \* the fate of a message that clear() removed

VARIABLES sent, fate

fifoVars == <<sent, fate>>

InFlight == Len(sent) - Len(fate)

Init ==
    /\ sent = <<>>
    /\ fate = <<>>

Offer ==
    /\ InFlight < Capacity - 1
    /\ \E m \in Messages : sent' = Append(sent, m)
    /\ UNCHANGED fate

\* The oldest message leaves the queue, seen by the consumer as it was sent.
Take ==
    /\ InFlight > 0
    /\ fate' = Append(fate, sent[Len(fate) + 1])
    /\ UNCHANGED sent

\* The oldest message leaves the queue unread.
Drop ==
    /\ InFlight > 0
    /\ fate' = Append(fate, Dropped)
    /\ UNCHANGED sent

Next == Offer \/ Take \/ Drop

Spec == Init /\ [][Next]_fifoVars
=============================================================================
