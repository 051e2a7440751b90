------------------------------ MODULE RateParse ------------------------------
(***************************************************************************)
(* From the counters of the log to rates and to the metrics of a function  *)
(* call.  Two parsers read the same log: ldb_analysis/                     *)
(* compute_per_core_performance.py merges the CPUs by time in one pass and *)
(* writes the total bandwidth over time; parse_hrp.py takes differences of *)
(* the rows of each CPU.  ldb_analysis/compute_invocation_metrics.py       *)
(* attributes to an invocation the entries of the cores its thread was on. *)
(*                                                                         *)
(* The log is external: entries in the order of (timestamp, CPU), where a  *)
(* CPU may have two entries of the same time.  A counter advances by Unit  *)
(* or not at all; Unit is a multiple of every time difference, so that     *)
(* rates are integers.                                                     *)
(***************************************************************************)
EXTENDS Integers, Sequences, FiniteSets, FiniteSetsExt, SequencesExt

CONSTANTS Cores,       \* CPU ids, numbers
          MaxEntries,  \* bound: entries of the log
          MaxTs,       \* bound: last timestamp
          Unit         \* counter increment

VARIABLES
  entry,      \* the log read so far: sequence of [cpu, ts, v]
  prev,       \* last_state of each CPU, as a set of at most one entry
  rate,       \* per_core_memory_bandwidth
  totalRate,  \* total_memory_bandwidth
  global,     \* last_global_timestamp, -1 for None
  perf,       \* perf_data_per_core: sequence of [cpu, ts, rate, delta]
  totals,     \* total_memory_bandwidth.bin: sequence of [start, end, rate]
  rows,       \* performance_events of parse_hrp: set of [cpu, ts, diff, delta]
  inv,        \* the invocation and the stays of its thread, as a set
  ticks,      \* inv_performance_ticks: entries attributed to it
  weight      \* total_weight of the total bandwidth over it

vars == <<entry, prev, rate, totalRate, global, perf, totals, rows, inv, ticks, weight>>

OfCpu(c) == SelectSeq(entry, LAMBDA e : e.cpu = c)

Init ==
  /\ entry = << >>
  /\ prev = [c \in Cores |-> {}] /\ rate = [c \in Cores |-> 0]
  /\ totalRate = 0 /\ global = -1 /\ perf = << >> /\ totals = << >>
  /\ rows = {} /\ inv = {} /\ ticks = << >> /\ weight = 0

----------------------------------------------------------------------------
\* The first entry of a CPU only sets its state.
MergeFirst(e) ==
  /\ prev' = [prev EXCEPT ![e.cpu] = {e}]
  /\ rate' = [rate EXCEPT ![e.cpu] = 0]
  /\ UNCHANGED <<totalRate, global, perf, totals>>

\* Fault variant of MergeTie: an entry without time difference becomes the state.
MergeTieKeeps(e) ==
  /\ prev' = [prev EXCEPT ![e.cpu] = {e}]
  /\ UNCHANGED <<rate, totalRate, global, perf, totals>>

\* An entry of the same time as the one before is skipped.
MergeTie(e) == UNCHANGED <<prev, rate, totalRate, global, perf, totals>>

TotalRate(c, new) == totalRate - rate[c] + new

\* The interval since the last entry of any CPU, if time has passed.
WriteTotal(ts, new) ==
  IF global # -1 /\ ts > global
  THEN Append(totals, [start |-> global, end |-> ts, rate |-> new]) ELSE totals

MergeRate(e, p) ==
  LET delta == e.ts - p.ts
      new == (e.v - p.v) \div delta
  IN  /\ perf' = Append(perf, [cpu |-> e.cpu, ts |-> e.ts, rate |-> new, delta |-> delta])
      /\ totalRate' = TotalRate(e.cpu, new)
      /\ rate' = [rate EXCEPT ![e.cpu] = new]
      /\ totals' = WriteTotal(e.ts, totalRate')
      /\ global' = e.ts
      /\ prev' = [prev EXCEPT ![e.cpu] = {e}]

Merge(e) ==
  \/ prev[e.cpu] = {} /\ MergeFirst(e)
  \/ \E p \in prev[e.cpu] : e.ts <= p.ts /\ MergeTie(e)
  \/ \E p \in prev[e.cpu] : e.ts > p.ts /\ MergeRate(e, p)

\* parse_hrp: the difference to the row before of the CPU, rows without time
\* difference left out.
Shift(e) ==
  LET mine == OfCpu(e.cpu)
  IN  IF mine # << >> /\ e.ts > Last(mine).ts
      THEN rows \cup {[cpu |-> e.cpu, ts |-> e.ts, diff |-> e.v - Last(mine).v,
                       delta |-> e.ts - Last(mine).ts]}
      ELSE rows

Read(c, ts, v) ==
  LET e == [cpu |-> c, ts |-> ts, v |-> v]
      mine == OfCpu(c)
  IN  /\ inv = {} /\ Len(entry) < MaxEntries
      /\ entry # << >> => ts > Last(entry).ts \/ (ts = Last(entry).ts /\ c >= Last(entry).cpu)
      /\ v \in IF mine = << >> THEN {0} ELSE {Last(mine).v, Last(mine).v + Unit}
      /\ entry' = Append(entry, e)
      /\ Merge(e)
      /\ rows' = Shift(e)
      /\ UNCHANGED <<inv, ticks, weight>>

----------------------------------------------------------------------------
(* An invocation of a thread that stayed on core a from its start to m and  *)
(* on core b from m to its end.                                             *)
Stays(i) == <<[core |-> i.a, start |-> i.start, end |-> i.m],
              [core |-> i.b, start |-> i.m, end |-> i.end]>>

\* compute_metrics_for_invocation: for each stay, every entry of its core within
\* the invocation.
AllTicks(i) ==
  LET OnCore(s) == SelectSeq(perf, LAMBDA e : e.cpu = s.core /\ e.ts >= i.start /\ e.ts <= i.end)
  IN  OnCore(Stays(i)[1]) \o OnCore(Stays(i)[2])

Overlap(t, i) == Max({0, Min({t.end, i.end}) - Max({t.start, i.start})})

\* The intervals from the first that ends at or after the start of the
\* invocation to the last that starts at or before its end, found by bisection.
TotalWeight(i) ==
  LET idxStart == Cardinality({k \in DOMAIN totals : totals[k].end < i.start}) + 1
      idxEnd == Cardinality({k \in DOMAIN totals : totals[k].start <= i.end})
  IN  MapThenSumSet(LAMBDA k : Overlap(totals[k], i), idxStart..idxEnd)

Attribute(i) ==
  /\ inv = {} /\ perf # << >>
  /\ inv' = {i}
  /\ ticks' = AllTicks(i)
  /\ weight' = TotalWeight(i)
  /\ UNCHANGED <<entry, prev, rate, totalRate, global, perf, totals, rows>>

Finished == (inv # {} \/ Len(entry) = MaxEntries) /\ UNCHANGED vars

Next ==
  \/ \E c \in Cores, ts \in 0..MaxTs, v \in {Unit * k : k \in 0..MaxEntries} : Read(c, ts, v)
  \/ \E a, b \in Cores, s, m, e \in 0..MaxTs :
       s <= m /\ m <= e /\ Attribute([a |-> a, b |-> b, start |-> s, m |-> m, end |-> e])
  \/ Finished

Spec == Init /\ [][Next]_vars

----------------------------------------------------------------------------
(* The running total is the sum of the newest rates of the CPUs, although   *)
(* it is only ever corrected by differences.                                *)
TotalIsSum == totalRate = MapThenSumSet(LAMBDA c : rate[c], Cores)

(* The intervals of total_memory_bandwidth.bin cover the time from the      *)
(* first rate to the last one without gap, overlap or empty interval.       *)
TotalsTile ==
  /\ \A k \in DOMAIN totals : totals[k].start < totals[k].end
  /\ \A k \in 1..(Len(totals) - 1) : totals[k].end = totals[k + 1].start
  /\ perf # << >> =>
       /\ global = Last(perf).ts
       /\ totals # << >> => totals[1].start = perf[1].ts /\ Last(totals).end = global

(* Rates times durations add up to what each counter really advanced by,    *)
(* from its first entry to the last one that counted: the one-pass parser   *)
(* loses no increment.  parse_hrp.py loses exactly the increments between   *)
(* two entries of the same time.                                            *)
IncrementsKept ==
  \A c \in Cores :
    LET mine == OfCpu(c)
        mineP == {k \in DOMAIN perf : perf[k].cpu = c}
        tied == {k \in 2..Len(mine) : mine[k].ts = mine[k - 1].ts}
    IN  mine # << >> =>
          /\ \E p \in prev[c] :
               MapThenSumSet(LAMBDA k : perf[k].rate * perf[k].delta, mineP) = p.v - mine[1].v
          /\ MapThenSumSet(LAMBDA r : r.diff, {r \in rows : r.cpu = c})
               = Last(mine).v - mine[1].v
                 - MapThenSumSet(LAMBDA k : mine[k].v - mine[k - 1].v, tied)

(* Whatever is attributed to an invocation lies within it, on a core its    *)
(* thread used, and nothing the thread saw on its core is left out.  A core *)
(* the thread came back to counts twice.                                    *)
TicksCover ==
  \A i \in inv :
    LET all == ToSet(ticks)
        seen(s) == {e \in ToSet(perf) : e.cpu = s.core /\ s.start <= e.ts /\ e.ts <= s.end}
    IN  /\ \A e \in all : e.cpu \in {i.a, i.b} /\ i.start <= e.ts /\ e.ts <= i.end
        /\ seen(Stays(i)[1]) \cup seen(Stays(i)[2]) \subseteq all
        /\ Len(ticks) = (IF i.a = i.b THEN 2 ELSE 1) * Cardinality(all)

(* The bisection finds every interval of the total bandwidth that overlaps  *)
(* the invocation: the weights add up to the part of the invocation that    *)
(* lies within the recorded time.                                           *)
OverlapExact ==
  \A i \in inv :
    weight = IF totals = << >> THEN 0
             ELSE Max({0, Min({Last(totals).end, i.end}) - Max({totals[1].start, i.start})})

=============================================================================
