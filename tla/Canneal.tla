------------------------------- MODULE Canneal -------------------------------
(***************************************************************************)
(* canneal (apps/parsec/canneal): threads improve the placement of a       *)
(* netlist by swapping pairs of elements, and meet at a barrier after each *)
(* temperature step.  They run a fixed number of steps, or until one of    *)
(* them finds the design converged.                                        *)
(*                                                                         *)
(* Whether a swap lowers the cost is a free choice: other threads move the *)
(* elements between the reads.  The swap itself is in the netlist class,   *)
(* which is not part of this repository, and is left out.                  *)
(***************************************************************************)
EXTENDS Integers

CONSTANTS CnThreads,
          CnMoves,     \* _moves_per_thread_temp
          CnSteps      \* values of _number_temp_steps; -1: until convergence

VARIABLES
  cnSteps,     \* _number_temp_steps
  cnGoing,     \* _keep_going_global_flag
  cnpc,        \* thread: "check", "moves", "barrier", "ended"
  cnDone,      \* temp_steps_completed
  cnGood, cnBad,   \* accepted moves of the step
  cnLeft,      \* moves left in the step
  cnRec        \* main: the recording is on

cnvars == <<cnSteps, cnGoing, cnpc, cnDone, cnGood, cnBad, cnLeft, cnRec>>

Init ==
  /\ cnSteps \in CnSteps /\ cnGoing = TRUE
  /\ cnpc = [t \in CnThreads |-> "check"] /\ cnDone = [t \in CnThreads |-> 0]
  /\ cnGood = [t \in CnThreads |-> 0] /\ cnBad = [t \in CnThreads |-> -1]
  /\ cnLeft = [t \in CnThreads |-> 0]
  /\ cnRec = TRUE

KeepGoing(t) ==
  IF cnSteps = -1 THEN cnGoing /\ cnGood[t] > cnBad[t] ELSE cnDone[t] < cnSteps

\* Run: the head of the loop.  A thread that finds convergence says so to the
\* others, which may already have gone on.
Check(t) ==
  /\ cnpc[t] = "check"
  /\ IF KeepGoing(t)
     THEN /\ cnpc' = [cnpc EXCEPT ![t] = "moves"]
          /\ cnGood' = [cnGood EXCEPT ![t] = 0] /\ cnBad' = [cnBad EXCEPT ![t] = 0]
          /\ cnLeft' = [cnLeft EXCEPT ![t] = CnMoves] /\ UNCHANGED cnGoing
     ELSE /\ cnpc' = [cnpc EXCEPT ![t] = "ended"]
          /\ cnGoing' = (cnGoing /\ cnSteps # -1)
          /\ UNCHANGED <<cnGood, cnBad, cnLeft>>
  /\ UNCHANGED <<cnSteps, cnDone, cnRec>>

\* process_temperature_step: a swap is good, bad but accepted, or rejected.
Move(t) ==
  /\ cnpc[t] = "moves" /\ cnLeft[t] > 0
  /\ cnLeft' = [cnLeft EXCEPT ![t] = @ - 1]
  /\ \/ cnGood' = [cnGood EXCEPT ![t] = @ + 1] /\ UNCHANGED cnBad
     \/ cnBad' = [cnBad EXCEPT ![t] = @ + 1] /\ UNCHANGED cnGood
     \/ UNCHANGED <<cnGood, cnBad>>
  /\ UNCHANGED <<cnSteps, cnGoing, cnpc, cnDone, cnRec>>

StepDone(t) ==
  /\ cnpc[t] = "moves" /\ cnLeft[t] = 0
  /\ cnpc' = [cnpc EXCEPT ![t] = "barrier"]
  /\ cnDone' = [cnDone EXCEPT ![t] = IF cnSteps = -1 THEN 0 ELSE @ + 1]
  /\ UNCHANGED <<cnSteps, cnGoing, cnGood, cnBad, cnLeft, cnRec>>

\* pthread_barrier_wait: all threads, also those that have ended, are counted.
Barrier ==
  /\ \A t \in CnThreads : cnpc[t] = "barrier"
  /\ cnpc' = [t \in CnThreads |-> "check"]
  /\ UNCHANGED <<cnSteps, cnGoing, cnDone, cnGood, cnBad, cnLeft, cnRec>>

\* main joins the threads and ends the recording.
Finish ==
  /\ cnRec /\ \A t \in CnThreads : cnpc[t] = "ended"
  /\ cnRec' = FALSE
  /\ UNCHANGED <<cnSteps, cnGoing, cnpc, cnDone, cnGood, cnBad, cnLeft>>

ThreadStep(t) == Check(t) \/ Move(t) \/ StepDone(t)

Next == Barrier \/ Finish \/ \E t \in CnThreads : ThreadStep(t)

\* The weakest fairness: as long as some thread can go on, one does.
Spec == Init /\ [][Next]_cnvars /\ WF_cnvars(Next)

----------------------------------------------------------------------------
(* With a fixed number of steps no thread works on another temperature than *)
(* the others.                                                              *)
StepsTogether ==
  cnSteps # -1 =>
    \A t, u \in CnThreads :
      /\ cnDone[t] <= cnSteps
      /\ cnpc[t] = "moves" /\ cnpc[u] \in {"moves", "ended"} => cnDone[t] = cnDone[u]

\* A thread waits at the barrier that another one has left for good.
LeftAtBarrier == \E t, u \in CnThreads : cnpc[t] = "barrier" /\ cnpc[u] = "ended"

\* What has to end once it has started, and the recording with it: a run with a fixed number
\* of steps, and one that goes on until convergence when a thread has seen that, unless this
\* thread left others behind at the barrier.
Started == cnSteps # -1 \/ ~cnGoing
Ended == ~cnRec \/ (cnSteps = -1 /\ LeftAtBarrier)

=============================================================================
