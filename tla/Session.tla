------------------------------- MODULE Session -------------------------------
(***************************************************************************)
(* What a session of the two test programs promises: in every run the sink *)
(* reads as many messages as the source offers, none before it is offered; *)
(* the sink ends a run when it has read them all, the source when the sink *)
(* has, and neither is ever more than that ahead of the other.             *)
(***************************************************************************)
EXTENDS Integers

CONSTANTS Runs,          \* runs of a session
          Repetitions    \* messages of a run

VARIABLES sourceRun, sinkRun,   \* runs each program has completed
          offered, read         \* messages of the current run

sessionVars == <<sourceRun, sinkRun, offered, read>>

Init == sourceRun = 0 /\ sinkRun = 0 /\ offered = 0 /\ read = 0

Offer ==
    /\ sourceRun = sinkRun /\ sourceRun < Runs
    /\ offered < Repetitions
    /\ offered' = offered + 1
    /\ UNCHANGED <<sourceRun, sinkRun, read>>

Read ==
    /\ sourceRun = sinkRun
    /\ read < offered
    /\ read' = read + 1
    /\ UNCHANGED <<sourceRun, sinkRun, offered>>

SinkEnds ==
    /\ sourceRun = sinkRun
    /\ read = Repetitions
    /\ sinkRun' = sinkRun + 1
    /\ read' = 0
    /\ UNCHANGED <<sourceRun, offered>>

SourceEnds ==
    /\ sourceRun < sinkRun
    /\ sourceRun' = sourceRun + 1
    /\ offered' = 0
    /\ UNCHANGED <<sinkRun, read>>

\* The session is cut short and another one begins.
StartOver ==
    /\ sourceRun' = 0 /\ sinkRun' = 0 /\ offered' = 0 /\ read' = 0

Next == Offer \/ Read \/ SinkEnds \/ SourceEnds \/ StartOver

Spec == Init /\ [][Next]_sessionVars
=============================================================================
