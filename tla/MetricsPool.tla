----------------------------- MODULE MetricsPool -----------------------------
(***************************************************************************)
(* ldb_analysis/compute_invocation_metrics.py: the invocations are split   *)
(* into one chunk per process; the main process sleeps until the progress  *)
(* the others report adds up to all of them, then collects the results in  *)
(* the order the processes end and saves them.  A process may fail at any  *)
(* point of its chunk (the executor's future then holds an exception).     *)
(***************************************************************************)
EXTENDS Integers, Sequences, FiniteSets, FiniteSetsExt, SequencesExt

CONSTANTS NumProcesses,   \* num_processes
          MaxInvocations  \* bound: invocations

VARIABLES
  pool,      \* state of the main process
  total,     \* total_invocations
  chunks,    \* chunk of each process
  worker,    \* state of each process
  results,   \* results of each process
  progress,  \* progress dictionary
  metrics    \* invocation_metrics

vars == <<pool, total, chunks, worker, results, progress, metrics>>
Procs == 1..NumProcesses

Init ==
  /\ pool = "start" /\ total = 0
  /\ chunks = [i \in Procs |-> << >>] /\ worker = [i \in Procs |-> "off"]
  /\ results = [i \in Procs |-> << >>] /\ progress = [i \in Procs |-> 0]
  /\ metrics = << >>

\* Where the chunk of process i starts: base + (i < remainder) items each.
ChunkStart(n, i) == (n \div NumProcesses) * (i - 1) + Min({i - 1, n % NumProcesses})

ChunkEnd(n, i) == ChunkStart(n, i + 1)

\* No invocations: nothing is computed.
Submit(n) ==
  /\ pool = "start" /\ total' = n
  /\ IF n = 0 THEN pool' = "return" /\ UNCHANGED <<chunks, worker>>
     ELSE /\ pool' = "report"
          /\ chunks' = [i \in Procs |-> [k \in 1..(ChunkEnd(n, i) - ChunkStart(n, i)) |->
                                           ChunkStart(n, i) + k]]
          /\ worker' = [i \in Procs |-> "run"]
  /\ UNCHANGED <<results, progress, metrics>>

Process(i) ==
  /\ worker[i] = "run" /\ Len(results[i]) < Len(chunks[i])
  /\ results' = [results EXCEPT ![i] = Append(@, chunks[i][Len(@) + 1])]
  /\ UNCHANGED <<pool, total, chunks, worker, progress, metrics>>

\* Fault variant of ReportChunk: the number of results so far is not counted.
ReportChunkNone(i) ==
  /\ worker[i] = "run" /\ Len(results[i]) = Len(chunks[i])
  /\ worker' = [worker EXCEPT ![i] = "report"]
  /\ UNCHANGED <<pool, total, chunks, results, progress, metrics>>

ReportChunk(i) ==
  /\ worker[i] = "run" /\ Len(results[i]) = Len(chunks[i])
  /\ progress' = [progress EXCEPT ![i] = Len(chunks[i])]
  /\ worker' = [worker EXCEPT ![i] = "report"]
  /\ UNCHANGED <<pool, total, chunks, results, metrics>>

ReturnChunk(i) ==
  /\ worker[i] = "report"
  /\ worker' = [worker EXCEPT ![i] = "done"]
  /\ UNCHANGED <<pool, total, chunks, results, progress, metrics>>

WorkerFails(i) ==
  /\ worker[i] \in {"run", "report"}
  /\ worker' = [worker EXCEPT ![i] = "failed"]
  /\ UNCHANGED <<pool, total, chunks, results, progress, metrics>>

Processed == MapThenSumSet(LAMBDA i : progress[i], Procs)

\* The loop goes on, for ever if a process failed before it reported.
SleepAgain == pool = "report" /\ Processed < total /\ UNCHANGED vars

WaitProgress ==
  /\ pool = "report" /\ Processed >= total
  /\ pool' = "collect"
  /\ UNCHANGED <<total, chunks, worker, results, progress, metrics>>

\* as_completed: the result of any finished process, or its exception.
CollectResult(i) ==
  /\ pool = "collect" /\ worker[i] = "done"
  /\ worker' = [worker EXCEPT ![i] = "collected"]
  /\ metrics' = metrics \o results[i]
  /\ UNCHANGED <<pool, total, chunks, results, progress>>

CollectException(i) ==
  /\ pool = "collect" /\ worker[i] = "failed"
  /\ pool' = "raised"
  /\ UNCHANGED <<total, chunks, worker, results, progress, metrics>>

Save ==
  /\ pool = "collect" /\ \A i \in Procs : worker[i] = "collected"
  /\ pool' = "saved"
  /\ UNCHANGED <<total, chunks, worker, results, progress, metrics>>

Failed == \E i \in Procs : worker[i] = "failed"

Ended == pool \in {"return", "raised", "saved"} /\ UNCHANGED vars

WorkerStep(i) == Process(i) \/ ReportChunk(i) \/ ReturnChunk(i)
MainStep ==
  \/ \E n \in 0..MaxInvocations : Submit(n)
  \/ WaitProgress \/ Save
  \/ \E i \in Procs : CollectResult(i) \/ CollectException(i)

Next == MainStep \/ SleepAgain \/ Ended \/ \E i \in Procs : WorkerStep(i) \/ WorkerFails(i)

Spec == Init /\ [][Next]_vars /\ WF_vars(MainStep) /\ \A i \in Procs : WF_vars(WorkerStep(i))

----------------------------------------------------------------------------
(* The chunks are the invocations, each in one chunk, in order, and no      *)
(* process has more than one invocation more than another.                  *)
ChunksPartition ==
  pool # "start" /\ total > 0 =>
    /\ FlattenSeq(chunks) = [k \in 1..total |-> k]
    /\ \A i, j \in Procs : Len(chunks[i]) - Len(chunks[j]) \in {-1, 0, 1}

(* What is saved are the results of all invocations, each once, whatever    *)
(* the order in which the processes end: nothing is saved after a failure.  *)
SavedComplete ==
  pool = "saved" => Len(metrics) = total /\ ToSet(metrics) = 1..total

(* The script comes to its end unless a process fails.                      *)
PoolEnds == <>(pool \in {"return", "raised", "saved"} \/ Failed)

=============================================================================
