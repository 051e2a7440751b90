------------------------------ MODULE LockParse ------------------------------
(***************************************************************************)
(* Mutex events of an LDB recording and the two scripts that turn them     *)
(* into times: parsing/parse_ldb.py, which keeps one timestamp per thread  *)
(* (last_mutex_ts), and the lock analysis of parsing/analyze_thread.py,    *)
(* which keeps one per mutex and checks the events.                        *)
(*                                                                         *)
(* The recorded program is external: threads wait for, lock and unlock     *)
(* mutexes, in any nesting, and the recording may start and stop at any    *)
(* time.  Time advances by one with every event.                           *)
(***************************************************************************)
EXTENDS Integers, FiniteSets

CONSTANTS Threads, Mutexes,
          MaxEvents   \* bound: mutex events of the program

VARIABLES
  clock,    \* events so far
  phase,    \* recording: "off", "on", "ended"
  await,    \* program: thread -> mutex it waits for, as a set, with the time
  held,     \* program: set of [thread, mutex, since, alone]
  cut,      \* program: threads that used a mutex when the recording began
  hold,     \* program: thread -> [all, any]: lock time since the recording began
  last,     \* parse_ldb: last_mutex_ts, as a set of [thread, ts]
  times,    \* parse_ldb: wait and lock times reported, each with the real one
  waits,    \* analyze_thread: wait_start_times_per_mutex of each thread
  locks,    \* analyze_thread: lock_start_times_per_mutex of each thread
  lockedSince,  \* analyze_thread: lock_start_time, -1 for None
  sums,     \* analyze_thread: thread -> [all, any]: lock_intervals_per_mutex, lock_intervals
  error     \* threads whose analysis ended in an integrity check

program == <<await, held, cut, hold>>
ldb == <<last, times>>
analysis == <<waits, locks, lockedSince, sums, error>>
vars == <<clock, phase, await, held, cut, hold, last, times, waits, locks, lockedSince, sums,
          error>>

HeldBy(t) == {h \in held : h.thread = t}
Users == {x.thread : x \in await \cup held}

Init ==
  /\ clock = 0 /\ phase = "off"
  /\ await = {} /\ held = {} /\ cut = {} /\ hold = [t \in Threads |-> [all |-> 0, any |-> 0]]
  /\ last = {} /\ times = {}
  /\ waits = {} /\ locks = {} /\ lockedSince = [t \in Threads |-> -1]
  /\ sums = [t \in Threads |-> [all |-> 0, any |-> 0]] /\ error = {}

----------------------------------------------------------------------------
(* parse_ldb_data                                                           *)

LastOf(t) == {l \in last : l.thread = t}

LdbWait(t) ==
  /\ last' = (last \ LastOf(t)) \cup {[thread |-> t, ts |-> clock]}
  /\ UNCHANGED times

LdbLock(t, real) ==
  /\ last' = {IF l.thread = t THEN [l EXCEPT !.ts = clock] ELSE l : l \in last}
  /\ times' = times \cup {[kind |-> "wait", got |-> clock - l.ts, real |-> real,
                           alone |-> TRUE] : l \in LastOf(t)}

LdbUnlock(t, real, alone) ==
  /\ last' = last \ LastOf(t)
  /\ times' = times \cup {[kind |-> "lock", got |-> clock - l.ts, real |-> real,
                           alone |-> alone] : l \in LastOf(t)}

----------------------------------------------------------------------------
(* The lock analysis of analyze_thread                                      *)

Of(S, t, m) == {x \in S : x.thread = t /\ x.mutex = m}
Fail(t) == error' = error \cup {t} /\ UNCHANGED <<waits, locks, lockedSince, sums>>

AnalyzeWait(t, m) ==
  IF t \in error THEN UNCHANGED analysis
  ELSE IF Of(waits, t, m) # {} THEN Fail(t)
  ELSE /\ waits' = waits \cup {[thread |-> t, mutex |-> m, ts |-> clock]}
       /\ UNCHANGED <<locks, lockedSince, sums, error>>

\* Fault variant of AnalyzeLock: the start of the outer lock is overwritten.
AnalyzeLockRestarts(t, m) ==
  IF t \in error THEN UNCHANGED analysis
  ELSE IF Of(waits, t, m) = {} \/ Of(locks, t, m) # {} THEN Fail(t)
  ELSE /\ waits' = waits \ Of(waits, t, m)
       /\ lockedSince' = [lockedSince EXCEPT ![t] = clock]
       /\ locks' = locks \cup {[thread |-> t, mutex |-> m, ts |-> clock]}
       /\ UNCHANGED <<sums, error>>

AnalyzeLock(t, m) ==
  IF t \in error THEN UNCHANGED analysis
  ELSE IF Of(waits, t, m) = {} \/ Of(locks, t, m) # {} THEN Fail(t)
  ELSE /\ waits' = waits \ Of(waits, t, m)
       /\ lockedSince' = [lockedSince EXCEPT ![t] = IF \E l \in locks : l.thread = t THEN @ ELSE clock]
       /\ locks' = locks \cup {[thread |-> t, mutex |-> m, ts |-> clock]}
       /\ UNCHANGED <<sums, error>>

AnalyzeUnlock(t, m) ==
  LET rest == locks \ Of(locks, t, m)
      free == \A l \in rest : l.thread # t
  IN  IF t \in error THEN UNCHANGED analysis
      ELSE IF Of(locks, t, m) = {} THEN Fail(t)
      ELSE /\ locks' = rest
           /\ sums' = [sums EXCEPT ![t] =
                 [all |-> @.all + (clock - (CHOOSE l \in Of(locks, t, m) : TRUE).ts),
                  any |-> IF free THEN @.any + (clock - lockedSince[t]) ELSE @.any]]
           /\ lockedSince' = [lockedSince EXCEPT ![t] = IF free THEN -1 ELSE @]
           /\ UNCHANGED <<waits, error>>

\* At the end of the events, waits and locks that are open are errors.
AnalyzeEnd == error' = error \cup {x.thread : x \in waits \cup locks}

----------------------------------------------------------------------------
(* The program                                                              *)

\* The clock moves, and the time the threads hold their mutexes with it.
Advance ==
  /\ clock < MaxEvents /\ phase # "ended" /\ clock' = clock + 1
  /\ hold' = IF phase = "off" THEN hold
             ELSE [t \in Threads |->
                     [all |-> hold[t].all + Cardinality(HeldBy(t)),
                      any |-> hold[t].any + (IF HeldBy(t) = {} THEN 0 ELSE 1)]]

NoLongerAlone(t) == {IF h.thread = t THEN [h EXCEPT !.alone = FALSE] ELSE h : h \in held}

Wait(t, m) ==
  /\ Advance
  /\ \A w \in await : w.thread # t
  /\ Of(held, t, m) = {}
  /\ await' = await \cup {[thread |-> t, mutex |-> m, ts |-> clock]}
  /\ held' = NoLongerAlone(t)
  /\ IF phase = "on" THEN LdbWait(t) /\ AnalyzeWait(t, m) ELSE UNCHANGED <<ldb, analysis>>
  /\ UNCHANGED <<phase, cut>>

Lock(t, m) ==
  /\ Advance
  /\ \A h \in held : h.mutex # m
  /\ \E w \in Of(await, t, m) :
       /\ await' = await \ {w}
       /\ held' = NoLongerAlone(t) \cup {[thread |-> t, mutex |-> m, ts |-> clock, alone |-> TRUE]}
       /\ IF phase = "on" THEN LdbLock(t, clock - w.ts) /\ AnalyzeLock(t, m)
          ELSE UNCHANGED <<ldb, analysis>>
  /\ UNCHANGED <<phase, cut>>

Unlock(t, m) ==
  /\ Advance
  /\ \A w \in await : w.thread # t
  /\ \E h \in Of(held, t, m) :
       /\ held' = NoLongerAlone(t) \ {[h EXCEPT !.alone = FALSE]}
       /\ IF phase = "on" THEN LdbUnlock(t, clock - h.ts, h.alone) /\ AnalyzeUnlock(t, m)
          ELSE UNCHANGED <<ldb, analysis>>
  /\ UNCHANGED <<phase, await, cut>>

Record ==
  /\ phase = "off" /\ phase' = "on" /\ cut' = Users
  /\ UNCHANGED <<clock, await, held, hold, ldb, analysis>>

EndOfEvents ==
  /\ phase = "on" /\ phase' = "ended"
  /\ AnalyzeEnd
  /\ UNCHANGED <<clock, program, ldb, waits, locks, lockedSince, sums>>

Finished == phase = "ended" /\ UNCHANGED vars

Next ==
  \/ \E t \in Threads, m \in Mutexes : Wait(t, m) \/ Lock(t, m) \/ Unlock(t, m)
  \/ Record \/ EndOfEvents \/ Finished

Spec == Init /\ [][Next]_vars

----------------------------------------------------------------------------
(* A reported wait time is the time the thread waited, in any nesting and   *)
(* wherever the recording starts.                                           *)
WaitTimesExact == \A x \in times : x.kind = "wait" => x.got = x.real

(* A reported lock time is never longer than the mutex was held, and exact  *)
(* when the thread used no other mutex meanwhile: with one timestamp per    *)
(* thread, other uses of mutexes can shorten it or leave it out, never      *)
(* stretch it.                                                              *)
LockTimesBounded ==
  \A x \in times : x.kind = "lock" => x.got <= x.real /\ (x.alone => x.got = x.real)

(* A finished analysis without error has the exact hold times of a thread   *)
(* that used no mutex when the recording began: the sum over the mutexes,   *)
(* and the time with at least one mutex held, also when locks are nested or *)
(* handed over.                                                             *)
HoldTimesExact ==
  phase = "ended" => \A t \in Threads \ (error \cup cut) : sums[t] = hold[t]

(* The integrity checks reject only threads cut by an edge of the           *)
(* recording, and every thread that uses a mutex when it ends, unless its   *)
(* use began before the recording as well.                                  *)
ErrorsOnlyAtTheEdges ==
  /\ phase # "ended" => error \subseteq cut
  /\ phase = "ended" => error \subseteq cut \cup Users /\ Users \subseteq error \cup cut

=============================================================================
