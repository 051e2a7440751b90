------------------------------ MODULE Swaptions ------------------------------
(***************************************************************************)
(* swaptions (apps/parsec/swaptions/HJM_Securities.cpp): threads price     *)
(* independent swaptions; each computes from its number which ones are     *)
(* its own.  The pricing is a library routine (external); that it depends  *)
(* only on the swaption, whose seed is fixed, is why each has one price.   *)
(***************************************************************************)
EXTENDS Integers

CONSTANTS SwMaxThreads,   \* bounds of the command line: -nt
          SwMaxSwaptions  \* -ns

VARIABLES
  swN, swThreads,   \* nSwaptions, nThreads
  swNext,           \* next swaption of each thread
  swPriced,         \* how often each swaption was priced
  swMain            \* "parse", "run", "over"

swvars == <<swN, swThreads, swNext, swPriced, swMain>>

Tids == 0..(SwMaxThreads - 1)

Init ==
  /\ swN \in 0..SwMaxSwaptions /\ swThreads \in 0..(SwMaxThreads + 1)
  /\ swNext = [t \in Tids |-> 0] /\ swPriced = [i \in 0..(SwMaxSwaptions - 1) |-> 0]
  /\ swMain = "parse"

Chunk == swN \div swThreads
Extra == swN % swThreads

\* worker: the first swaption of a thread ...
Beg(t) ==
  IF t < Extra THEN t * (Chunk + 1) ELSE Extra * (Chunk + 1) + (t - Extra) * Chunk

\* ... and the one after its last.
End(t) ==
  IF t = swThreads - 1 THEN swN
  ELSE IF t < Extra THEN (t + 1) * (Chunk + 1)
  ELSE Extra * (Chunk + 1) + (t - Extra + 1) * Chunk

\* main: a command line with fewer swaptions than threads, or with no threads
\* or too many, is refused; else the recording starts and the threads run.
Start ==
  /\ swMain = "parse"
  /\ IF swN < swThreads \/ swThreads < 1 \/ swThreads > SwMaxThreads
     THEN swMain' = "over" /\ UNCHANGED swNext
     ELSE /\ swMain' = "run"
          /\ swNext' = [t \in Tids |-> IF t < swThreads THEN Beg(t) ELSE 0]
  /\ UNCHANGED <<swN, swThreads, swPriced>>

Price(t) ==
  /\ swMain = "run" /\ t < swThreads /\ swNext[t] < End(t)
  /\ swPriced' = [swPriced EXCEPT ![swNext[t]] = @ + 1]
  /\ swNext' = [swNext EXCEPT ![t] = @ + 1]
  /\ UNCHANGED <<swN, swThreads, swMain>>

\* The threads are joined, the prices printed, and the recording ends.
Join ==
  /\ swMain = "run" /\ \A t \in Tids : t < swThreads => swNext[t] >= End(t)
  /\ swMain' = "over"
  /\ UNCHANGED <<swN, swThreads, swNext, swPriced>>

Next == Start \/ Join \/ \E t \in Tids : Price(t)

Spec == Init /\ [][Next]_swvars

(* However the number of swaptions divides, no two threads price the same   *)
(* one, and when the prices are printed each has been computed.             *)
PricedOnce ==
  \A i \in DOMAIN swPriced :
    /\ swPriced[i] <= 1
    /\ swMain = "over" /\ swThreads \in 1..SwMaxThreads /\ i < swN /\ swN >= swThreads =>
         swPriced[i] = 1

=============================================================================
