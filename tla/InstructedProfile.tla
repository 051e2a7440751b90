------------------------- MODULE InstructedProfile -------------------------
(***************************************************************************)
(* Instructed mode of the hiresperf kernel module (src/src/hrperf.c): user *)
(* threads ask for single polls and logs by ioctl.  Each call initialises  *)
(* the work item of the CPU it runs on, queues it to the workqueue of the  *)
(* poller's CPU and waits for it (enqueue_instructed_profile_op).  The     *)
(* workers of that queue run smp_poll_pmus and log_for_all_cpus, under a   *)
(* mutex when CONCURRENT_INSTRUCTED_PROFILE is set.                        *)
(*                                                                         *)
(* The workqueue is external; modelled from its interface: queueing a      *)
(* pending item does nothing, an item runs on one worker at a time for one *)
(* function, another worker starts only while the busy ones sleep (on the  *)
(* mutex, or in kernel_write), and flush_work waits until the item is      *)
(* neither pending nor running.  INIT_WORK of an item on the list leaves   *)
(* it linked there for good, so that workers find it again and again.      *)
(*                                                                         *)
(* Buffers do not wrap here (RingBuffer covers that): a buffer is the      *)
(* sequence of all entries it accepted and the number of those released.   *)
(* The entry of a poll is the poll's number, its time stamp.               *)
(***************************************************************************)
EXTENDS Integers, Sequences, FiniteSets

CONSTANTS
  Cpus,         \* hrp_selected_cpus that are polled, as numbers
  Callers,      \* user threads
  CpuOf,        \* the CPU each of them runs on
  Concurrent,   \* CONCURRENT_INSTRUCTED_PROFILE
  Workers,      \* worker threads of the pool
  Capacity,     \* entries a buffer holds
  MaxCalls      \* bound: ioctl calls

\* What the module assumes of its constants.
ProfileAssumption ==
  /\ Cpus \subseteq Nat /\ DOMAIN CpuOf = Callers
  /\ Capacity \in Nat \ {0} /\ MaxCalls \in Nat /\ Concurrent \in BOOLEAN
  /\ IsFiniteSet(Callers) /\ "none" \notin Workers

VARIABLES
  cpc, cop,      \* where each caller is, and the operation it asks for
  func, pending, \* work->func and its pending bit, for each work item
  worklist,      \* the pool's list of work items
  relinked,      \* items re-initialised while on the list
  wpc, item, wfunc,  \* where each worker is, the item and function it runs
  left,          \* per worker: CPUs whose handler of its poll has not run
  stamp,         \* per worker: the time stamp of its poll
  todo, upto,    \* per worker: CPUs still to log, and log_and_clear's tail
  lock,          \* the holder of instructed_profile_lock, or "none"
  clock,         \* number of the last poll
  entries, head, \* per CPU: entries accepted, and how many are released
  file,          \* records of the log file: <<cpu, stamp>>
  dropped,       \* history: entries a full buffer refused
  polled,        \* history: stamp of the last poll run for each item
  begun, finished, returned  \* history: per operation, how many calls began it,
                             \* workers finished it, and calls returned from it

callVars == <<cpc, cop, begun, returned>>
queueVars == <<func, pending, worklist, relinked>>
workVars == <<wpc, item, wfunc, left, stamp, todo, upto>>
dataVars == <<clock, entries, head, file, dropped>>
profileVars == <<callVars, queueVars, workVars, dataVars, lock, polled, finished>>

Ops == {"poll", "log", "poll_and_log"}
Items == {CpuOf[c] : c \in Callers}
ItemOf(c) == CpuOf[c]
Nobody == "none"
NoItem == -1

ProfileInit ==
  /\ cpc = [c \in Callers |-> "idle"] /\ cop = [c \in Callers |-> "poll"]
  /\ func = [w \in Items |-> "poll"] /\ pending = [w \in Items |-> FALSE]
  /\ worklist = << >> /\ relinked = {}
  /\ wpc = [i \in Workers |-> "idle"]
  /\ item = [i \in Workers |-> NoItem] /\ wfunc = [i \in Workers |-> "poll"]
  /\ left = [i \in Workers |-> {}] /\ stamp = [i \in Workers |-> 0]
  /\ todo = [i \in Workers |-> {}] /\ upto = [i \in Workers |-> 0]
  /\ lock = Nobody /\ clock = 0
  /\ entries = [c \in Cpus |-> << >>] /\ head = [c \in Cpus |-> 0]
  /\ file = << >> /\ dropped = {}
  /\ polled = [w \in Items |-> 0]
  /\ begun = [o \in Ops |-> 0] /\ finished = [o \in Ops |-> 0]
  /\ returned = [o \in Ops |-> 0]

OnList(w) == \E k \in DOMAIN worklist : worklist[k] = w
Running(w) == \E i \in Workers : wpc[i] # "idle" /\ item[i] = w
CallsBegun == begun["poll"] + begun["log"] + begun["poll_and_log"]

-----------------------------------------------------------------------------
(* enqueue_instructed_profile_op up to INIT_WORK, which clears the pending *)
(* bit and re-initialises the list entry whatever state the item is in.    *)
CallInit(c, op) ==
  LET w == ItemOf(c) IN
  /\ cpc[c] = "idle" /\ CallsBegun < MaxCalls
  /\ cpc' = [cpc EXCEPT ![c] = "queue"]
  /\ cop' = [cop EXCEPT ![c] = op]
  /\ begun' = [begun EXCEPT ![op] = @ + 1]
  /\ func' = [func EXCEPT ![w] = op]
  /\ pending' = [pending EXCEPT ![w] = FALSE]
  /\ relinked' = IF OnList(w) THEN relinked \cup {w} ELSE relinked
  /\ UNCHANGED <<returned, worklist, workVars, dataVars, lock, polled, finished>>

(* queue_work_on                                                           *)
CallQueue(c) ==
  LET w == ItemOf(c) IN
  /\ cpc[c] = "queue"
  /\ cpc' = [cpc EXCEPT ![c] = "flush"]
  /\ pending' = [pending EXCEPT ![w] = TRUE]
  /\ worklist' = IF pending[w] \/ OnList(w) THEN worklist ELSE Append(worklist, w)
  /\ UNCHANGED <<cop, begun, returned, func, relinked, workVars, dataVars, lock,
                 polled, finished>>

(* Fault variant of CallReturn: it waits for the item to be taken only.    *)
CallReturnEarly(c) ==
  LET w == ItemOf(c) IN
  /\ cpc[c] = "flush"
  /\ ~pending[w]
  /\ cpc' = [cpc EXCEPT ![c] = "idle"]
  /\ returned' = [returned EXCEPT ![cop[c]] = @ + 1]
  /\ UNCHANGED <<cop, begun, queueVars, workVars, dataVars, lock, polled, finished>>

(* flush_work returns, and the ioctl with it.                              *)
CallReturn(c) ==
  LET w == ItemOf(c) IN
  /\ cpc[c] = "flush"
  /\ ~pending[w] /\ ~Running(w)
  /\ cpc' = [cpc EXCEPT ![c] = "idle"]
  /\ returned' = [returned EXCEPT ![cop[c]] = @ + 1]
  /\ UNCHANGED <<cop, begun, queueVars, workVars, dataVars, lock, polled, finished>>

-----------------------------------------------------------------------------
Asleep(i) ==
  \/ wpc[i] = "write"
  \/ wpc[i] \in {"poll", "log"} /\ Concurrent /\ lock \notin {Nobody, i}

(* A worker takes the first item, unless another runs it already.          *)
Take(i) ==
  /\ wpc[i] = "idle" /\ worklist # << >>
  /\ \A j \in Workers : wpc[j] = "idle" \/ Asleep(j)
  /\ LET w == Head(worklist) IN
     /\ \A j \in Workers : ~(wpc[j] # "idle" /\ item[j] = w /\ wfunc[j] = func[w])
     /\ item' = [item EXCEPT ![i] = w]
     /\ wfunc' = [wfunc EXCEPT ![i] = func[w]]
     /\ wpc' = [wpc EXCEPT ![i] = IF func[w] = "log" THEN "log" ELSE "poll"]
     /\ pending' = [pending EXCEPT ![w] = FALSE]
     /\ worklist' = IF w \in relinked THEN worklist ELSE Tail(worklist)
  /\ UNCHANGED <<callVars, func, relinked, left, stamp, todo, upto, dataVars, lock,
                 polled, finished>>

Acquire(i) == IF Concurrent THEN lock = Nobody /\ lock' = i ELSE UNCHANGED lock
(* Fault variant of Release: the lock is kept.                             *)
ReleaseForgotten == UNCHANGED lock

Release == IF Concurrent THEN lock' = Nobody ELSE UNCHANGED lock

(* The worker is through with its item.                                    *)
Finish(i) ==
  /\ wpc' = [wpc EXCEPT ![i] = "idle"]
  /\ finished' = [finished EXCEPT ![wfunc[i]] = @ + 1]

(* smp_poll_pmus: mutex_lock, the time stamp, the interrupts.              *)
PollBegin(i) ==
  /\ wpc[i] = "poll"
  /\ Acquire(i)
  /\ clock' = clock + 1
  /\ stamp' = [stamp EXCEPT ![i] = clock']
  /\ polled' = [polled EXCEPT ![item[i]] = clock']
  /\ left' = [left EXCEPT ![i] = Cpus]
  /\ wpc' = [wpc EXCEPT ![i] = "wait"]
  /\ UNCHANGED <<callVars, queueVars, item, wfunc, todo, upto, entries, head, file,
                 dropped, finished>>

(* hrperf_poller_func on CPU c for the poll of worker i.                   *)
PollerFunc(i, c) ==
  /\ c \in left[i]
  /\ left' = [left EXCEPT ![i] = @ \ {c}]
  /\ IF Len(entries[c]) - head[c] < Capacity
     THEN /\ entries' = [entries EXCEPT ![c] = Append(@, stamp[i])]
          /\ UNCHANGED dropped
     ELSE /\ dropped' = dropped \cup {<<c, stamp[i]>>}
          /\ UNCHANGED entries
  /\ UNCHANGED <<callVars, queueVars, wpc, item, wfunc, stamp, todo, upto, clock, head,
                 file, lock, polled, finished>>

(* Fault variant of PollEnd: the handlers are not waited for.              *)
PollEndEarly(i) ==
  /\ wpc[i] = "wait"
  /\ Release
  /\ IF wfunc[i] = "poll"
     THEN Finish(i)
     ELSE wpc' = [wpc EXCEPT ![i] = "log"] /\ UNCHANGED finished
  /\ UNCHANGED <<callVars, queueVars, item, wfunc, left, stamp, todo, upto, dataVars, polled>>

(* All handlers are done: mutex_unlock, and instructed_poll_and_log goes   *)
(* on to the log.                                                          *)
PollEnd(i) ==
  /\ wpc[i] = "wait" /\ left[i] = {}
  /\ Release
  /\ IF wfunc[i] = "poll"
     THEN Finish(i)
     ELSE wpc' = [wpc EXCEPT ![i] = "log"] /\ UNCHANGED finished
  /\ UNCHANGED <<callVars, queueVars, item, wfunc, left, stamp, todo, upto, dataVars, polled>>

(* log_for_all_cpus: mutex_lock.                                           *)
LogBegin(i) ==
  /\ wpc[i] = "log"
  /\ Acquire(i)
  /\ todo' = [todo EXCEPT ![i] = Cpus]
  /\ wpc' = [wpc EXCEPT ![i] = "snapshot"]
  /\ UNCHANGED <<callVars, queueVars, item, wfunc, left, stamp, upto, dataVars, polled, finished>>

\* for_each_cpu goes through the CPUs in increasing order.
NextCpu(i, c) == c \in todo[i] /\ \A d \in todo[i] : c <= d

(* log_and_clear: the snapshot of the buffer of the next CPU.              *)
LogSnapshot(i) ==
  /\ wpc[i] = "snapshot"
  /\ \E c \in Cpus :
       /\ NextCpu(i, c)
       /\ IF head[c] = Len(entries[c])
          THEN todo' = [todo EXCEPT ![i] = @ \ {c}] /\ UNCHANGED <<wpc, upto>>
          ELSE /\ upto' = [upto EXCEPT ![i] = Len(entries[c])]
               /\ wpc' = [wpc EXCEPT ![i] = "write"]
               /\ UNCHANGED todo
  /\ UNCHANGED <<callVars, queueVars, item, wfunc, left, stamp, dataVars, lock, polled, finished>>

(* kernel_write of the range, during which the worker may sleep.           *)
LogWrite(i) ==
  /\ wpc[i] = "write"
  /\ \E c \in Cpus :
       /\ NextCpu(i, c)
       /\ LET range == SubSeq(entries[c], head[c] + 1, upto[i])
          IN file' = file \o [k \in 1 .. Len(range) |-> <<c, range[k]>>]
  /\ wpc' = [wpc EXCEPT ![i] = "release"]
  /\ UNCHANGED <<callVars, queueVars, item, wfunc, left, stamp, todo, upto, clock, entries,
                 head, dropped, lock, polled, finished>>

(* The store of head.                                                      *)
LogRelease(i) ==
  /\ wpc[i] = "release"
  /\ \E c \in Cpus :
       /\ NextCpu(i, c)
       /\ head' = [head EXCEPT ![c] = upto[i]]
       /\ todo' = [todo EXCEPT ![i] = @ \ {c}]
  /\ wpc' = [wpc EXCEPT ![i] = "snapshot"]
  /\ UNCHANGED <<callVars, queueVars, item, wfunc, left, stamp, upto, clock, entries, file,
                 dropped, lock, polled, finished>>

(* mutex_unlock, and the item is done.                                     *)
LogEnd(i) ==
  /\ wpc[i] = "snapshot" /\ todo[i] = {}
  /\ Release
  /\ Finish(i)
  /\ UNCHANGED <<callVars, queueVars, item, wfunc, left, stamp, todo, upto, dataVars, polled>>

-----------------------------------------------------------------------------
Call(c) == (\E op \in Ops : CallInit(c, op)) \/ CallQueue(c) \/ CallReturn(c)
Work(i) ==
  \/ Take(i) \/ PollBegin(i) \/ PollEnd(i)
  \/ LogBegin(i) \/ LogSnapshot(i) \/ LogWrite(i) \/ LogRelease(i) \/ LogEnd(i)
Handlers == \E i \in Workers, c \in Cpus : PollerFunc(i, c)
ProfileNext == (\E c \in Callers : Call(c)) \/ (\E i \in Workers : Work(i)) \/ Handlers

ProfileSpec == ProfileInit /\ [][ProfileNext]_profileVars

\* A step of a call that began, of a worker or of an interrupt handler.
ProfileProceed ==
  (\E c \in Callers : CallQueue(c) \/ CallReturn(c)) \/ (\E i \in Workers : Work(i)) \/ Handlers

(* The scheduler runs the callers and the workers and interrupts are       *)
(* taken.  Weak fairness is enough for the mutex: calls are finite in      *)
(* number, so its holders are.                                             *)
ProfileFairSpec ==
  /\ ProfileSpec
  /\ \A c \in Callers : WF_profileVars(CallQueue(c) \/ CallReturn(c))
  /\ \A i \in Workers : WF_profileVars(Work(i))
  /\ WF_profileVars(Handlers)

-----------------------------------------------------------------------------
(* A call does its operation exactly once: a call that has returned had it *)
(* done, and no operation is done that was not asked for.                  *)
ExactlyOnce ==
  \A o \in Ops : returned[o] <= finished[o] /\ finished[o] <= begun[o]

(* However the workers interleave, the file holds for each CPU exactly a   *)
(* first part of the entries its buffer accepted, all those released       *)
(* included, each once and in the order of the polls.                      *)
LoggedOnce ==
  \A c \in Cpus :
    /\ \A j, k \in DOMAIN entries[c] : j < k => entries[c][j] < entries[c][k]
    /\ \A j, k \in DOMAIN file :
         j < k /\ file[j][1] = c /\ file[k][1] = c => file[j][2] < file[k][2]
    /\ \E n \in head[c] .. Len(entries[c]) :
         /\ \A j \in 1 .. n : \E k \in DOMAIN file : file[k] = <<c, entries[c][j]>>
         /\ \A k \in DOMAIN file :
              file[k][1] = c => \E j \in 1 .. n : file[k][2] = entries[c][j]

(* When a poll-and-log call returns, the entries of its own poll are in    *)
(* the file (or were refused by a full buffer), although the mutex is free *)
(* between its poll and its log.                                           *)
ReturnMeansLogged ==
  [][\A c \in Callers :
       CallReturn(c) /\ cop[c] = "poll_and_log" =>
         \A d \in Cpus : LET r == <<d, polled[ItemOf(c)]>>
                         IN r \in dropped \/ \E k \in DOMAIN file : file[k] = r]_profileVars

(* hrperf.c, instructed mode: a call that has returned has had its          *)
(* operation done exactly once, and the file holds every released entry     *)
(* once, with several workers on the same buffers.                          *)
OperationsOnce == ExactlyOnce /\ LoggedOnce

\* Calls are finite in number, so if every call returns this holds again and again.
NobodyCalls == \A c \in Callers : cpc[c] = "idle"

=============================================================================
