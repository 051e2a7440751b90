----------------------------- MODULE SchedParse -----------------------------
(***************************************************************************)
(* parsing/parse_sched.py: the sched_switch records of all CPUs, in the    *)
(* order of time, become one scheduling interval [thread, core, start,     *)
(* end] per stay of a thread of the program on a core.                     *)
(*                                                                         *)
(* The recorded machine is external: CPUs switch between threads, perf may *)
(* lose records or start late, and a thread may get the program's name, or *)
(* lose it, only while it runs.  A record is a line of sched_dumped.txt    *)
(* that matches line_pattern; lines that do not match are skipped and left *)
(* out.                                                                    *)
(***************************************************************************)
EXTENDS Integers, FiniteSets

CONSTANTS Cpus, Threads, Idle,
          MaxSwitches,  \* bound: records of a trace
          MaxLost       \* bound: records perf loses

VARIABLES
  on,        \* machine: CPU -> thread
  named,     \* machine: threads with the name of the program
  stays,     \* machine: intervals that ended, as they really were
  since,     \* machine: thread -> time it got its core
  time,      \* timestamp of the last switch
  lost,      \* records lost so far
  seen,      \* timestamp_ns of the last record read
  pids,      \* executable_pids
  open,      \* thread -> current_interval: the empty set, or {[core, start]}
  out,       \* intervals
  warned,    \* warning_lines is not empty
  ended      \* the file is read

machine == <<on, named, stays, since, time, lost>>
parser == <<seen, pids, open, out, warned, ended>>
vars == <<on, named, stays, since, time, lost, seen, pids, open, out, warned, ended>>

Interval(t, c, s, e) == [thread |-> t, core |-> c, start |-> s, end |-> e]

Init ==
  /\ on = [c \in Cpus |-> Idle] /\ named = {} /\ stays = {}
  /\ since = [t \in Threads |-> 0] /\ time = 0 /\ lost = 0
  /\ seen = 0 /\ pids = {} /\ open = [t \in Threads |-> {}] /\ out = {}
  /\ warned = FALSE /\ ended = FALSE

\* A thread takes or drops the program's name.
Rename(t) ==
  /\ ~ended /\ time < MaxSwitches
  /\ t \notin named => t \notin pids   \* bound: a name is taken once
  /\ named' = IF t \in named THEN named \ {t} ELSE named \cup {t}
  /\ UNCHANGED <<on, stays, since, time, lost, parser>>

\* CPU c goes from its thread to n.
Machine(c, n) ==
  /\ n # on[c] /\ (n = Idle \/ \A d \in Cpus : on[d] # n)
  /\ on' = [on EXCEPT ![c] = n]
  /\ stays' = IF on[c] = Idle THEN stays
              ELSE stays \cup {Interval(on[c], c, since[on[c]], time')}
  /\ since' = IF n = Idle THEN since ELSE [since EXCEPT ![n] = time']
  /\ UNCHANGED named

\* The current interval of the thread that leaves is closed.
ScheduledOut(known, t) ==
  IF t \in known /\ open[t] # {}
  THEN [o |-> [open EXCEPT ![t] = {}],
        i |-> {Interval(t, v.core, v.start, time') : v \in open[t]}]
  ELSE [o |-> open, i |-> {}]

\* Fault variant of ScheduledIn: it starts with the record before.
ScheduledInEarly(known, o, t, c) ==
  IF t \in known /\ o[t] = {}
  THEN [o EXCEPT ![t] = {[core |-> c, start |-> time]}]
  ELSE o

\* An interval starts for the thread that comes, unless it has one already.
ScheduledIn(known, o, t, c) ==
  IF t \in known /\ o[t] = {}
  THEN [o EXCEPT ![t] = {[core |-> c, start |-> time']}]
  ELSE o

\* A sched_switch record is read.
Record(c, n) ==
  LET known == pids \cup ({on[c], n} \cap named)
      left == ScheduledOut(known, on[c])
  IN  /\ seen' = time' /\ pids' = known
      /\ out' = out \cup left.i
      /\ open' = ScheduledIn(known, left.o, n, c)
      /\ warned' = (warned \/ (n \in known /\ left.o[n] # {}))

Switch(c, n) ==
  /\ ~ended /\ time < MaxSwitches
  /\ time' = time + 1
  /\ Machine(c, n) /\ Record(c, n)
  /\ UNCHANGED <<lost, ended>>

\* The record is lost, or skipped: the names in it are separated by spaces, so a
\* name with a space has no pid in its first token.
SwitchLost(c, n) ==
  /\ ~ended /\ time < MaxSwitches /\ lost < MaxLost
  /\ time' = time + 1 /\ lost' = lost + 1
  /\ Machine(c, n) /\ seen' \in {seen, time'}
  /\ UNCHANGED <<pids, open, out, warned, ended>>

\* Intervals that are open at the end of the file end with its last record.
EndOfFile ==
  /\ ~ended /\ ended' = TRUE
  /\ out' = out \cup UNION {{Interval(t, v.core, v.start, seen) : v \in open[t]} : t \in Threads}
  /\ open' = [t \in Threads |-> {}]
  /\ UNCHANGED <<machine, seen, pids, warned>>

Finished == ended /\ UNCHANGED vars

Next ==
  \/ \E t \in Threads : Rename(t)
  \/ \E c \in Cpus, n \in Threads \cup {Idle} : Switch(c, n) \/ SwitchLost(c, n)
  \/ EndOfFile
  \/ Finished

Spec == Init /\ [][Next]_vars

----------------------------------------------------------------------------
(* The intervals of a thread never overlap, whatever was lost: an interval  *)
(* is closed before the next one of the thread starts.                      *)
IntervalsDisjoint ==
  \A i, j \in out : i.thread = j.thread /\ i # j => i.end <= j.start \/ j.end <= i.start

(* Without lost records every interval is a stay of the thread on that core *)
(* as it really was, cut at the end of the trace if it was running then,    *)
(* and no warning is printed.                                               *)
IntervalsReal ==
  lost = 0 =>
    /\ ~warned
    /\ \A i \in out :
         \/ i \in stays
         \/ ended /\ i.end = time /\ on[i.core] = i.thread /\ i.start = since[i.thread]

(* Without lost records the stays the parser misses are those before the    *)
(* first one it finds of the thread, while the thread did not have the name *)
(* of the program: once the thread is known, none is missed.                *)
StaysFound ==
  lost = 0 => \A s \in stays : s \in out \/ s.thread \notin pids
                               \/ \A i \in out : i.thread = s.thread => s.end <= i.start

=============================================================================
