----------------------------- MODULE StrictPoll -----------------------------
(***************************************************************************)
(* smp_poll_pmus and hrperf_poller_func of src/src/hrperf.c when built     *)
(* with HRP_STRICT_POLLING_SYNC: the CPUs meet at a barrier of three       *)
(* atomics, ready_cpus, start_flag and done_cpus, before they read their   *)
(* counters, and both sides give up waiting after a time.                  *)
(*                                                                         *)
(* smp_call_function_many is external and called with wait = 0: it waits   *)
(* until each CPU has picked up the previous request, queues the new one   *)
(* and returns; a CPU runs its handlers one after the other.  All rounds   *)
(* pass the same poller_data, as hrperf_poller_thread does, so a handler   *)
(* reads the time stamp of the round that is current when it samples.      *)
(* With Timeouts a wait may end by its timeout at any moment before its    *)
(* condition holds; without, no wait is ever that long.  The entries a     *)
(* buffer accepts are kept as a sequence; RingBuffer covers a full one.    *)
(***************************************************************************)
EXTENDS Integers, Sequences, FiniteSets

CONSTANTS
  PollBuilds,          \* the builds and machines considered: a set of records
  MaxRounds        \* bound: rounds of polling

\* What the module assumes of its constants.
PollAssumption ==
  /\ MaxRounds \in Nat
  /\ \A b \in PollBuilds :
       /\ IsFiniteSet(b.cpus) /\ b.cpus # {}
       /\ b.own \in BOOLEAN /\ b.locks \in BOOLEAN
       /\ b.timeouts \in BOOLEAN /\ b.allocFails \in BOOLEAN

VARIABLES
  pollBuild, \* the one that runs, which never changes
  ppc,      \* where smp_poll_pmus is
  pollLock,     \* whether instructed_profile_lock is held
  kts,      \* poller_data->kts, the number of the round
  ready_cpus, start_flag, done_cpus,
  queued,   \* CPUs with a request not picked up yet
  hpc,      \* where the handler of each CPU is
  sampled,  \* the time stamp in each handler's entry
  polledAt,  \* per CPU: the time stamps enqueued
  own,      \* the time stamps enqueued for the poller's own CPU
  arrived   \* history: CPUs whose handler began in this round

syncVars == <<ready_cpus, start_flag, done_cpus>>
handlerVars == <<queued, hpc, sampled, polledAt>>
pollVars == <<pollBuild, ppc, pollLock, kts, syncVars, handlerVars, own, arrived>>

PollCpus == pollBuild.cpus             \* the CPUs in the polling mask
PollPollerCore == pollBuild.own        \* HRP_POLL_POLLER_CORE
UseLock == pollBuild.locks             \* CONCURRENT_INSTRUCTED_PROFILE, and instructed mode
Timeouts == pollBuild.timeouts         \* whether a wait may take as long as its timeout
AllocMayFail == pollBuild.allocFails   \* whether alloc_cpumask_var may fail

N_POLLING_CPUS == Cardinality(PollCpus) + (IF PollPollerCore THEN 1 ELSE 0)

PollInit ==
  /\ pollBuild \in PollBuilds
  /\ ppc = "idle" /\ pollLock = FALSE /\ kts = 0
  /\ ready_cpus = 0 /\ start_flag = 0 /\ done_cpus = 0
  /\ queued = {} /\ arrived = {}
  /\ hpc = [c \in PollCpus |-> "none"]
  /\ sampled = [c \in PollCpus |-> 0]
  /\ polledAt = [c \in PollCpus |-> << >>] /\ own = << >>

-----------------------------------------------------------------------------
(* mutex_lock, the time stamp, and the first of the three resets.          *)
RoundBegin ==
  /\ ppc = "idle" /\ kts < MaxRounds
  /\ ~pollLock
  /\ pollLock' = UseLock
  /\ kts' = kts + 1
  /\ ready_cpus' = 0
  /\ arrived' = {}
  /\ ppc' = "resetStart"
  /\ UNCHANGED <<pollBuild, start_flag, done_cpus, handlerVars, own>>

ResetStart ==
  /\ ppc = "resetStart"
  /\ start_flag' = 0
  /\ ppc' = "resetDone"
  /\ UNCHANGED <<pollBuild, pollLock, kts, ready_cpus, done_cpus, handlerVars, own, arrived>>

ResetDone ==
  /\ ppc = "resetDone"
  /\ done_cpus' = 0
  /\ ppc' = "send"
  /\ UNCHANGED <<pollBuild, pollLock, kts, ready_cpus, start_flag, handlerVars, own, arrived>>

(* alloc_cpumask_var fails: return, with the mutex still held.             *)
AllocFails ==
  /\ AllocMayFail
  /\ ppc = "send"
  /\ ppc' = "idle"
  /\ UNCHANGED <<pollBuild, pollLock, kts, syncVars, handlerVars, own, arrived>>

(* smp_call_function_many; the poller's own CPU counts as ready.           *)
Send ==
  /\ ppc = "send"
  /\ queued = {}
  /\ queued' = PollCpus
  /\ ready_cpus' = IF PollPollerCore THEN ready_cpus + 1 ELSE ready_cpus
  /\ ppc' = "ready"
  /\ UNCHANGED <<pollBuild, pollLock, kts, start_flag, done_cpus, hpc, sampled, polledAt, own,
                 arrived>>

(* All are ready: start_flag is set.                                       *)
SetStart ==
  /\ ppc = "ready"
  /\ ready_cpus >= N_POLLING_CPUS
  /\ start_flag' = 1
  /\ ppc' = IF PollPollerCore THEN "own" ELSE "done"
  /\ UNCHANGED <<pollBuild, pollLock, kts, ready_cpus, done_cpus, handlerVars, own, arrived>>

(* The wait for ready_cpus times out: return, with the mutex still held.   *)
ReadyTimeout ==
  /\ Timeouts
  /\ ppc = "ready" /\ ready_cpus < N_POLLING_CPUS
  /\ ppc' = "idle"
  /\ UNCHANGED <<pollBuild, pollLock, kts, syncVars, handlerVars, own, arrived>>

(* hrperf_poller_func called directly: it counts as ready once more and    *)
(* finds start_flag set.                                                   *)
OwnPoll ==
  /\ ppc = "own"
  /\ ready_cpus' = ready_cpus + 1
  /\ done_cpus' = done_cpus + 1
  /\ own' = Append(own, kts)
  /\ ppc' = "done"
  /\ UNCHANGED <<pollBuild, pollLock, kts, start_flag, handlerVars, arrived>>

(* Fault variant of PollReturn: it does not wait for done_cpus.            *)
PollReturnEarly ==
  /\ ppc = "done"
  /\ pollLock' = FALSE
  /\ ppc' = "idle"
  /\ UNCHANGED <<pollBuild, kts, syncVars, handlerVars, own, arrived>>

(* The wait for done_cpus ends, by its count or by its timeout, and the    *)
(* mutex is released.                                                      *)
PollReturn ==
  /\ ppc = "done"
  /\ Timeouts \/ done_cpus >= N_POLLING_CPUS
  /\ pollLock' = FALSE
  /\ ppc' = "idle"
  /\ UNCHANGED <<pollBuild, kts, syncVars, handlerVars, own, arrived>>

-----------------------------------------------------------------------------
(* hrperf_poller_func on CPU c.                                            *)
HandlerStart(c) ==
  /\ c \in queued /\ hpc[c] = "none"
  /\ queued' = queued \ {c}
  /\ ready_cpus' = ready_cpus + 1
  /\ arrived' = arrived \cup {c}
  /\ hpc' = [hpc EXCEPT ![c] = "spin"]
  /\ UNCHANGED <<pollBuild, ppc, pollLock, kts, start_flag, done_cpus, sampled, polledAt, own>>

(* start_flag stays unset for too long: leave without an entry.            *)
HandlerTimeout(c) ==
  /\ Timeouts
  /\ hpc[c] = "spin" /\ start_flag = 0
  /\ done_cpus' = done_cpus + 1
  /\ hpc' = [hpc EXCEPT ![c] = "none"]
  /\ UNCHANGED <<pollBuild, ppc, pollLock, kts, ready_cpus, start_flag, queued, sampled, polledAt,
                 own, arrived>>

HandlerGo(c) ==
  /\ hpc[c] = "spin" /\ start_flag = 1
  /\ hpc' = [hpc EXCEPT ![c] = "sample"]
  /\ UNCHANGED <<pollBuild, ppc, pollLock, kts, syncVars, queued, sampled, polledAt, own, arrived>>

(* The time stamp and the counters are read into the entry.                *)
HandlerSample(c) ==
  /\ hpc[c] = "sample"
  /\ sampled' = [sampled EXCEPT ![c] = kts]
  /\ hpc' = [hpc EXCEPT ![c] = "count"]
  /\ UNCHANGED <<pollBuild, ppc, pollLock, kts, syncVars, queued, polledAt, own, arrived>>

(* atomic_inc(&done_cpus), before the entry is enqueued.                   *)
HandlerDone(c) ==
  /\ hpc[c] = "count"
  /\ done_cpus' = done_cpus + 1
  /\ hpc' = [hpc EXCEPT ![c] = "enqueue"]
  /\ UNCHANGED <<pollBuild, ppc, pollLock, kts, ready_cpus, start_flag, queued, sampled, polledAt,
                 own, arrived>>

HandlerEnqueue(c) ==
  /\ hpc[c] = "enqueue"
  /\ polledAt' = [polledAt EXCEPT ![c] = Append(@, sampled[c])]
  /\ hpc' = [hpc EXCEPT ![c] = "none"]
  /\ UNCHANGED <<pollBuild, ppc, pollLock, kts, syncVars, queued, sampled, own, arrived>>

-----------------------------------------------------------------------------
PollStep ==
  \/ RoundBegin \/ ResetStart \/ ResetDone \/ Send
  \/ SetStart \/ ReadyTimeout \/ OwnPoll \/ PollReturn
Handler(c) ==
  \/ HandlerStart(c) \/ HandlerTimeout(c) \/ HandlerGo(c)
  \/ HandlerSample(c) \/ HandlerDone(c) \/ HandlerEnqueue(c)
PollNext == PollStep \/ AllocFails \/ \E c \in PollCpus : Handler(c)

PollSpec == PollInit /\ [][PollNext]_pollVars

\* A step of the poller or of a handler; no allocation fails.
PollProceed == PollStep \/ \E c \in PollCpus : Handler(c)

(* The poller runs on, interrupts are taken and, with Timeouts, time       *)
(* passes, so that a wait that cannot end by its condition ends by its     *)
(* timeout.  No allocation has to fail.                                    *)
PollFairSpec ==
  /\ PollSpec /\ WF_pollVars(PollStep)
  /\ \A c \in UNION {b.cpus : b \in PollBuilds} : WF_pollVars(c \in PollCpus /\ Handler(c))

-----------------------------------------------------------------------------
(* The barrier: while no wait times out, no CPU reads its counters in a    *)
(* round before every polling CPU has arrived in it.                       *)
Barrier ==
  \A c \in PollCpus : hpc[c] \in {"sample", "count"} => arrived = PollCpus

(* While no wait times out, every CPU records every round exactly once and *)
(* in order, though a round returns before the last entries are enqueued.  *)
OneEntryPerRound ==
  \A c \in PollCpus :
    LET inFlight == IF hpc[c] = "enqueue" THEN 1 ELSE 0 IN
    /\ \A k \in DOMAIN polledAt[c] : polledAt[c][k] = k
    /\ hpc[c] = "enqueue" => sampled[c] = Len(polledAt[c]) + 1
    /\ ppc = "idle" => Len(polledAt[c]) + inFlight = kts

(* Whatever times out, the time stamps of a CPU never go backwards.        *)
StampsMonotone ==
  \A c \in PollCpus : \A j, k \in DOMAIN polledAt[c] : j < k => polledAt[c][j] <= polledAt[c][k]

(* hrperf.c, strict polling: without timeouts no CPU samples before all     *)
(* have arrived, and if no allocation fails either each records every round *)
(* once, though the rounds overlap; whatever times out or fails, the time   *)
(* stamps of a CPU never go backwards.                                      *)
RoundsSynchronous ==
  /\ ~Timeouts => Barrier
  /\ ~Timeouts /\ ~AllocMayFail => OneEntryPerRound
  /\ StampsMonotone

\* All rounds are over and no CPU stays in its handler, with interrupts off.
RoundsOver == kts = MaxRounds /\ ppc = "idle" /\ \A c \in PollCpus : hpc[c] = "none"

(* Polling goes on, whatever timed out before.                             *)
PollingGoesOn == <>(kts = MaxRounds /\ ppc = "idle")

(* The poll of a poll-and-log operation leaves every CPU's entry in its    *)
(* buffer, for the log that follows to find.                               *)
PolledEntriesReady ==
  ppc = "idle" => \A c \in PollCpus : Len(polledAt[c]) = kts

=============================================================================
