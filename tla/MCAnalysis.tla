----------------------------- MODULE MCAnalysis -----------------------------
(***************************************************************************)
(* The analysis scripts, each on its own: job says which one a behaviour   *)
(* runs, the variables of the others keep their initial values.            *)
(***************************************************************************)
EXTENDS Integers, Sequences

CONSTANTS Cpus, Threads, Idle, MaxSwitches, MaxLost,   \* SchedParse
          Mutexes, MaxEvents,                          \* LockParse, with Threads
          Cores, MaxEntries, MaxTs, Unit,              \* RateParse
          Events, MaxScripts,                          \* AnalysisDb
          MaxPolls, MaxStep,                           \* InstructedParse, with Cpus
          NumProcesses, MaxInvocations                 \* MetricsPool

VARIABLES
  job,
  on, named, stays, since, time, lost, seen, pids, open, out, warned, ended,
  clock, phase, await, held, cut, hold, last, times, waits, locks, lockedSince, sums, error,
  entry, prev, rate, totalRate, global, perf, totals, rows, inv, ticks, weight,
  script, step, count, ldb, perfRows, node, dump, sched, index, invRows, todo, searches, raised,
  polls, counter, at, logRows, ranges, kept, parsed,
  pool, total, chunks, worker, results, progress, metrics

Sched == INSTANCE SchedParse
Lock == INSTANCE LockParse
Rate == INSTANCE RateParse
Db == INSTANCE AnalysisDb
Instructed == INSTANCE InstructedParse
Pool == INSTANCE MetricsPool

schedVars == <<on, named, stays, since, time, lost, seen, pids, open, out, warned, ended>>
lockVars == <<clock, phase, await, held, cut, hold, last, times, waits, locks, lockedSince, sums,
              error>>
rateVars == <<entry, prev, rate, totalRate, global, perf, totals, rows, inv, ticks, weight>>
dbVars == <<script, step, count, ldb, perfRows, node, dump, sched, index, invRows, todo,
            searches, raised>>
instructedVars == <<polls, counter, at, logRows, ranges, kept, parsed>>
poolVars == <<pool, total, chunks, worker, results, progress, metrics>>
vars == <<job, schedVars, lockVars, rateVars, dbVars, instructedVars, poolVars>>

Init ==
  /\ job \in {"sched", "lock", "rate", "db", "instructed", "pool"}
  /\ Sched!Init /\ Lock!Init /\ Rate!Init /\ Db!Init /\ Instructed!Init /\ Pool!Init

RunSched ==
  /\ job = "sched" /\ Sched!Next
  /\ UNCHANGED <<job, lockVars, rateVars, dbVars, instructedVars, poolVars>>

RunLock ==
  /\ job = "lock" /\ Lock!Next
  /\ UNCHANGED <<job, schedVars, rateVars, dbVars, instructedVars, poolVars>>

RunRate ==
  /\ job = "rate" /\ Rate!Next
  /\ UNCHANGED <<job, schedVars, lockVars, dbVars, instructedVars, poolVars>>

RunDb ==
  /\ job = "db" /\ Db!Next
  /\ UNCHANGED <<job, schedVars, lockVars, rateVars, instructedVars, poolVars>>

RunInstructed ==
  /\ job = "instructed" /\ Instructed!Next
  /\ UNCHANGED <<job, schedVars, lockVars, rateVars, dbVars, poolVars>>

\* A step A of the pool.
PoolDoes(A) ==
  job = "pool" /\ A /\ UNCHANGED <<job, schedVars, lockVars, rateVars, dbVars, instructedVars>>

RunPool == PoolDoes(Pool!Next)

Next == RunSched \/ RunLock \/ RunRate \/ RunDb \/ RunInstructed \/ RunPool

Spec ==
  /\ Init /\ [][Next]_vars
  /\ WF_vars(PoolDoes(Pool!MainStep))
  /\ \A i \in 1..NumProcesses : WF_vars(PoolDoes(Pool!WorkerStep(i)))

----------------------------------------------------------------------------
(* parse_sched.py: the intervals of a thread never overlap, also when       *)
(* records were lost; without lost records every interval is a real stay of *)
(* the thread on that core and, once the thread is known, no stay is        *)
(* missed.                                                                  *)
IntervalsTrue == Sched!IntervalsDisjoint /\ Sched!IntervalsReal /\ Sched!StaysFound

(* parse_ldb.py, analyze_thread.py: wait times are those of the program,    *)
(* lock times never exceed them, hold times are exact in any nesting, and   *)
(* the integrity checks reject only threads cut by an edge of the           *)
(* recording.                                                               *)
LockTimesTrue ==
  /\ Lock!WaitTimesExact /\ Lock!LockTimesBounded
  /\ Lock!HoldTimesExact /\ Lock!ErrorsOnlyAtTheEdges

(* compute_per_core_performance.py, parse_hrp.py,                           *)
(* compute_invocation_metrics.py: the running total is the sum of the       *)
(* newest rates and tiles the time, no increment of a counter is lost but   *)
(* those between equal time stamps in parse_hrp.py, and an invocation is    *)
(* given what its thread's cores did meanwhile and every overlapping total. *)
RatesTrue ==
  /\ Rate!TotalIsSum /\ Rate!TotalsTile /\ Rate!IncrementsKept
  /\ Rate!TicksCover /\ Rate!OverlapExact

(* search_func.py, parse_sched.py, compute_invocation_metrics.py: however   *)
(* often scripts are run and interrupted, no two invocations share an id, a *)
(* search that ended has found every sample and the intervals are stored at *)
(* most once; the metrics saved by the pool are those of all invocations,   *)
(* each once, whatever the order its processes end in.                      *)
StoredOnce ==
  /\ Db!InvocationIdsUnique /\ Db!SearchesComplete /\ Db!SchedulingOnce
  /\ Pool!ChunksPartition /\ Pool!SavedComplete

(* parse_hrp_instructed_*.py: up to the first poll that was lost as a       *)
(* whole, every range is one turn of the measured loop; its differences are *)
(* exactly what the CPUs with a row at both ends advanced by; and the       *)
(* filter drops at most one loop at either end.                             *)
LoopsMeasured ==
  /\ Instructed!RangesAreLoops /\ Instructed!DiffsExact /\ Instructed!FilterDropsEnds

(* compute_invocation_metrics.py: the script ends unless a process fails.   *)
PoolEnds == job = "pool" => Pool!PoolEnds

=============================================================================
