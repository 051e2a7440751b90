--------------------------- MODULE InstructedParse ---------------------------
(***************************************************************************)
(* parse_hrp_instructed_profile.py and its variants _by_step and _outlier: *)
(* a program brackets each turn of a loop with two polls; the parser pairs *)
(* the sorted timestamps of the log two by two, takes for each pair the    *)
(* difference of every CPU that has a row at both, and the last variant    *)
(* leaves out the loops outside the central 95% of a counter.              *)
(*                                                                         *)
(* Recording is external: a poll writes one row per CPU, all with its      *)
(* timestamp; a poll can be lost as a whole (a strict poll that timed out) *)
(* or miss the row of a CPU (a full ring buffer).                          *)
(***************************************************************************)
EXTENDS Integers, Sequences, FiniteSets, FiniteSetsExt, SequencesExt

CONSTANTS Cpus,       \* CPUs of the log, numbers
          MaxPolls,   \* bound: polls of the program, at most 40
          MaxStep     \* bound: advance of a counter between two polls

VARIABLES
  polls,     \* polls so far, the timestamp of the last one
  counter,   \* counter of each CPU
  at,        \* history: counter of each CPU at each poll
  logRows,   \* the log: set of [cpu, ts, v]
  ranges,    \* what the parser returned: sequence of [start, end, diff]
  kept,      \* the ranges the outlier filter keeps
  parsed

vars == <<polls, counter, at, logRows, ranges, kept, parsed>>

Init ==
  /\ polls = 0 /\ counter = [c \in Cpus |-> 0] /\ at = << >>
  /\ logRows = {} /\ ranges = << >> /\ kept = {} /\ parsed = FALSE

\* The counters advance, each CPU's in proportion to its number, and the program
\* polls; written are the CPUs whose row reaches the log.
Poll(step, written) ==
  /\ ~parsed /\ polls < MaxPolls
  /\ polls' = polls + 1
  /\ counter' = [c \in Cpus |-> counter[c] + step * c]
  /\ at' = Append(at, counter')
  /\ logRows' = logRows \cup {[cpu |-> c, ts |-> polls', v |-> counter'[c]] : c \in written}
  /\ UNCHANGED <<ranges, kept, parsed>>

RowsAt(t) == {r \in logRows : r.ts = t}

\* The distinct timestamps in ascending order; a poll's timestamp is its number.
Timestamps == SelectSeq([k \in 1..polls |-> k], LAMBDA t : RowsAt(t) # {})

\* get_all_time_ranges: an odd last timestamp is dropped.
TimeRanges ==
  LET ts == Timestamps IN [k \in 1..(Len(ts) \div 2) |-> <<ts[2 * k - 1], ts[2 * k]>>]

\* Fault variant of Merged: a CPU without a row at the start counts from 0.
MergedLeft(t, u) ==
  {<<r.cpu, r.v - (IF \E q \in RowsAt(t) : q.cpu = r.cpu
                   THEN (CHOOSE q \in RowsAt(t) : q.cpu = r.cpu).v ELSE 0)>> : r \in RowsAt(u)}

\* The inner join on cpu_id: a CPU with one row of the two is left out.
Merged(t, u) ==
  {<<p[2].cpu, p[2].v - p[1].v>> : p \in {q \in RowsAt(t) \X RowsAt(u) : q[1].cpu = q[2].cpu}}

\* calc_data_in_range, summed over all CPUs (--cpu_id -1).
CalcDataInRange(t, u) ==
  [start |-> t, end |-> u, diff |-> MapThenSumSet(LAMBDA m : m[2], Merged(t, u))]

\* Between the 2.5 and the 97.5 percentile.  With at most 40 values these lie
\* strictly between the two smallest and the two largest values: the smallest
\* value is outside unless it occurs twice, and so is the largest.  A column
\* of one value is not filtered.
Inside(x, all) ==
  LET Times(y) == Cardinality({r \in all : r.diff = y})
      values == {r.diff : r \in all}
  IN  \/ Cardinality(values) = 1
      \/ /\ x = Min(values) => Times(x) > 1
         /\ x = Max(values) => Times(x) > 1

FilterOutliers(all) == {r \in all : Inside(r.diff, all)}

\* Fewer than two timestamps make no range.
Parse ==
  /\ ~parsed /\ polls > 0 /\ parsed' = TRUE
  /\ ranges' = [k \in DOMAIN TimeRanges |-> CalcDataInRange(TimeRanges[k][1], TimeRanges[k][2])]
  /\ kept' = FilterOutliers(ToSet(ranges'))
  /\ UNCHANGED <<polls, counter, at, logRows>>

Finished == parsed /\ UNCHANGED vars

Next ==
  \/ \E step \in 0..MaxStep, written \in {{}, Cpus \ {Max(Cpus)}, Cpus} : Poll(step, written)
  \/ Parse \/ Finished

Spec == Init /\ [][Next]_vars

----------------------------------------------------------------------------
Present(k) == \E r \in logRows : r.ts = k

(* As long as no poll was lost as a whole before it, every range is one     *)
(* turn of the loop, from its first poll to its second, and no turn with    *)
(* both polls in the log is left out.  After a lost poll the ranges are     *)
(* what lies between the turns.                                             *)
RangesAreLoops ==
  parsed =>
    /\ \A k \in DOMAIN ranges : (\A t \in 1..(2 * k) : Present(t)) =>
         ranges[k].start = 2 * k - 1 /\ ranges[k].end = 2 * k
    /\ \A k \in 1..(polls \div 2) : (\A t \in 1..(2 * k) : Present(t)) => k <= Len(ranges)
    /\ \A k \in 1..(Len(ranges) - 1) : ranges[k].end < ranges[k + 1].start

(* A range counts exactly what the CPUs with a row at both ends advanced by *)
(* between them: a missing row never makes a difference to zero, and never  *)
(* shifts the CPUs against each other.                                      *)
DiffsExact ==
  \A k \in DOMAIN ranges :
    LET t == ranges[k].start
        u == ranges[k].end
        both == {c \in Cpus : \E p \in RowsAt(t), q \in RowsAt(u) : p.cpu = c /\ q.cpu = c}
    IN  ranges[k].diff = MapThenSumSet(LAMBDA c : at[u][c] - at[t][c], both)

(* The filter drops at most one loop at either end, and only the one that   *)
(* is alone there; loops that agree are all kept.                           *)
FilterDropsEnds ==
  parsed =>
    LET all == ToSet(ranges)
    IN  /\ Cardinality(all \ kept) <= 2
        /\ \A r, q \in all : r # q /\ r.diff = q.diff => r \in kept

=============================================================================
