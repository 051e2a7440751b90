------------------------------ MODULE Monitor ------------------------------
(***************************************************************************)
(* Polling mode of the hiresperf kernel module (src/src/hrperf.c): the     *)
(* poller thread, which interrupts every selected CPU to read its          *)
(* counters, the logger thread, which moves the per-CPU buffers to the log *)
(* file, the START and PAUSE ioctls of the clients, and the unloading of   *)
(* the module.  The parts run concurrently; `hrperf_running' is a plain    *)
(* bool that nothing protects, and the threads pause by marking themselves *)
(* interruptible and calling schedule.                                     *)
(*                                                                         *)
(* A buffer is the EntryQueue that RingBuffer is shown to implement, so a  *)
(* log_and_clear is one step; writes to the file do not fail here.  The    *)
(* entry of a poll is the number of its round, which stands for the time   *)
(* stamp all CPUs share.  usleep_range sleeps again when woken early, so   *)
(* only its end is modelled.                                               *)
(***************************************************************************)
EXTENDS Integers, Sequences, FiniteSets

CONSTANTS
  Cpus,            \* hrp_selected_cpus, as numbers
  PollerCpu,       \* HRP_PMC_POLLER_CPU
  PollPollerCore,  \* HRP_POLL_POLLER_CORE
  Capacity,        \* entries a per-CPU buffer holds
  Clients,         \* user threads that hold the device open
  MaxRounds,       \* bound: rounds of polling
  MaxIoctls,       \* bound: ioctl calls that find something to do
  AvoidWindow      \* whether wake-ups stay out of the threads' window between
                   \* a test and set_current_state (an assumption, not code)

ASSUME CpusAssumption == Cpus \subseteq Nat /\ PollerCpu \in Nat
ASSUME CapacityAssumption == Capacity \in Nat \ {0}
ASSUME BoundsAssumption == MaxRounds \in Nat /\ MaxIoctls \in Nat
ASSUME FlagsAssumption == PollPollerCore \in BOOLEAN /\ AvoidWindow \in BOOLEAN

VARIABLES
  running,      \* hrperf_running
  pc,           \* where the poller and the logger thread are
  tstate,       \* their task state
  should_stop,  \* their KTHREAD_SHOULD_STOP flag
  ipi,          \* CPUs that have not run hrperf_poller_func of this round yet
  round,        \* the round of polling, and its time stamp
  buf,          \* per_cpu_buffer
  todo,         \* CPUs log_for_all_cpus has still to visit
  file,         \* records of the log file: <<cpu, round>>
  cpc,          \* where each client is in hrperf_ioctl
  ioctls,       \* ioctls so far
  xpc,          \* where the unloading of the module is
  dropped,      \* history: entries a full buffer refused
  extra         \* history: rounds begun, less wake-ups of the poller, since PAUSE

threadVars == <<pc, tstate, should_stop>>
dataVars == <<ipi, round, buf, todo, file, dropped>>
clientVars == <<cpc, ioctls>>
vars == <<running, pc, tstate, should_stop, ipi, round, buf, todo, file,
          cpc, ioctls, xpc, dropped, extra>>

Queue(c) == INSTANCE EntryQueue WITH
  LossyLog <- FALSE, queue <- buf[c], log <- file, offered <- round

Threads == {"poller", "logger"}
PolledCpus == IF PollPollerCore THEN Cpus ELSE Cpus \ {PollerCpu}

Goto(t, from, to) == pc[t] = from /\ pc' = [pc EXCEPT ![t] = to]

(* wake_up_process(t)                                                      *)
Wake(t) == tstate' = [tstate EXCEPT ![t] = "running"]

Init ==
  /\ running = FALSE
  /\ pc = [t \in Threads |-> "loop"]
  /\ tstate = [t \in Threads |-> "running"]
  /\ should_stop = [t \in Threads |-> FALSE]
  /\ ipi = {} /\ round = 0
  /\ buf = [c \in Cpus |-> << >>]
  /\ todo = {} /\ file = << >>
  /\ cpc = [c \in Clients |-> "idle"] /\ ioctls = 0
  /\ xpc = "loaded"
  /\ dropped = {} /\ extra = 0

-----------------------------------------------------------------------------
(* What the two thread functions share.                                    *)

(* while (!kthread_should_stop())                                          *)
LoopTest(t) ==
  /\ IF should_stop[t] THEN Goto(t, "loop", "exited") ELSE Goto(t, "loop", "test")
  /\ UNCHANGED <<running, tstate, should_stop, dataVars, clientVars, xpc, extra>>

(* What a thread does once it may run: the poller polls without looking at *)
(* its flags again, the logger tests kthread_should_stop once more.        *)
Awake(t) == IF t = "poller" THEN "poll" ELSE "retest"

(* Fault variant of RunningTest: hrperf_running is not tested.             *)
RunningTestSkipped(t) ==
  /\ Goto(t, "test", Awake(t))
  /\ UNCHANGED <<running, tstate, should_stop, dataVars, clientVars, xpc, extra>>

(* if (!hrperf_running)                                                    *)
RunningTest(t) ==
  /\ IF running THEN Goto(t, "test", Awake(t)) ELSE Goto(t, "test", "mark")
  /\ UNCHANGED <<running, tstate, should_stop, dataVars, clientVars, xpc, extra>>

(* set_current_state(TASK_INTERRUPTIBLE)                                   *)
MarkInterruptible(t) ==
  /\ Goto(t, "mark", "schedule")
  /\ tstate' = [tstate EXCEPT ![t] = "interruptible"]
  /\ UNCHANGED <<running, should_stop, dataVars, clientVars, xpc, extra>>

(* schedule() returns at once if a wake-up came after the mark, and when   *)
(* one comes otherwise.                                                    *)
Scheduled(t) ==
  /\ tstate[t] = "running"
  /\ Goto(t, "schedule", Awake(t))
  /\ UNCHANGED <<running, tstate, should_stop, dataVars, clientVars, xpc, extra>>

-----------------------------------------------------------------------------
(* smp_poll_pmus: the time stamp, and an interrupt to every selected CPU   *)
(* but the one the poller runs on.                                         *)
PollSend ==
  /\ round < MaxRounds
  /\ Goto("poller", "poll", "wait")
  /\ round' = round + 1
  /\ ipi' = Cpus \ {PollerCpu}
  /\ extra' = IF running THEN extra ELSE extra + 1
  /\ UNCHANGED <<running, tstate, should_stop, buf, todo, file, dropped, clientVars, xpc>>

(* enqueue on CPU c: a full buffer refuses the entry.                      *)
EnqueueOn(c) ==
  /\ buf' = [buf EXCEPT ![c] = Queue(c)!Offer(@, round)]
  /\ dropped' = IF Len(buf[c]) < Capacity THEN dropped ELSE dropped \cup {<<c, round>>}

(* hrperf_poller_func in the interrupt handler of CPU c.                   *)
PollerFunc(c) ==
  /\ c \in ipi
  /\ ipi' = ipi \ {c}
  /\ EnqueueOn(c)
  /\ UNCHANGED <<running, threadVars, round, todo, file, clientVars, xpc, extra>>

(* Fault variant of PollDone: smp_call_function_many with wait = 0.        *)
PollDoneEarly ==
  /\ Goto("poller", "wait", "usleep")
  /\ IF PollPollerCore /\ PollerCpu \in Cpus
     THEN EnqueueOn(PollerCpu)
     ELSE UNCHANGED <<buf, dropped>>
  /\ UNCHANGED <<running, tstate, should_stop, ipi, round, todo, file, clientVars, xpc, extra>>

(* smp_call_function_many waits for all handlers; then the poller reads    *)
(* its own CPU's counters when configured to.                              *)
PollDone ==
  /\ ipi = {}
  /\ Goto("poller", "wait", "usleep")
  /\ IF PollPollerCore /\ PollerCpu \in Cpus
     THEN EnqueueOn(PollerCpu)
     ELSE UNCHANGED <<buf, dropped>>
  /\ UNCHANGED <<running, tstate, should_stop, ipi, round, todo, file, clientVars, xpc, extra>>

PollerUsleep ==
  /\ Goto("poller", "usleep", "loop")
  /\ UNCHANGED <<running, tstate, should_stop, dataVars, clientVars, xpc, extra>>

-----------------------------------------------------------------------------
(* The logger's second test of kthread_should_stop.                        *)
LoggerRetest ==
  /\ Goto("logger", "retest", IF should_stop["logger"] THEN "exited" ELSE "usleep")
  /\ UNCHANGED <<running, tstate, should_stop, dataVars, clientVars, xpc, extra>>

LoggerUsleep ==
  /\ Goto("logger", "usleep", "log")
  /\ todo' = Cpus
  /\ UNCHANGED <<running, tstate, should_stop, ipi, round, buf, file, dropped,
                 clientVars, xpc, extra>>

(* log_and_clear for the next CPU of log_for_all_cpus: what the buffer     *)
(* held when the call began moves to the file, or nothing.                 *)
LogAndClear ==
  /\ pc["logger"] = "log"
  /\ \E c \in todo :
       /\ \A d \in todo : c <= d
       /\ todo' = todo \ {c}
       /\ \/ buf[c] = << >> /\ UNCHANGED <<buf, file>>
          \/ \E n \in 1 .. Len(buf[c]) :
               /\ buf' = [buf EXCEPT ![c] = SubSeq(@, n + 1, Len(@))]
               /\ file' = file \o [k \in 1 .. n |-> <<c, buf[c][k]>>]
  /\ UNCHANGED <<running, threadVars, ipi, round, dropped, clientVars, xpc, extra>>

LogDone ==
  /\ todo = {}
  /\ Goto("logger", "log", "loop")
  /\ UNCHANGED <<running, tstate, should_stop, dataVars, clientVars, xpc, extra>>

-----------------------------------------------------------------------------
(* The window in which a wake-up is lost: the thread has tested a flag on  *)
(* its way to schedule and has not yet marked itself.                      *)
OutsideWindow(t) ==
  AvoidWindow => pc[t] # "mark" /\ (running \/ pc[t] # "test")

(* hrperf_ioctl, HRP_PMC_IOC_START.  A client that finds hrperf_running    *)
(* set does nothing.                                                       *)
StartTest(c) ==
  /\ xpc = "loaded" /\ cpc[c] = "idle" /\ ioctls < MaxIoctls
  /\ ~running
  /\ cpc' = [cpc EXCEPT ![c] = "start"]
  /\ ioctls' = ioctls + 1
  /\ UNCHANGED <<running, threadVars, dataVars, xpc, extra>>

StartSet(c) ==
  /\ cpc[c] = "start"
  /\ \A t \in Threads : OutsideWindow(t)
  /\ running' = TRUE
  /\ cpc' = [cpc EXCEPT ![c] = "wakePoller"]
  /\ UNCHANGED <<threadVars, dataVars, ioctls, xpc, extra>>

(* Fault variant of StartWakePoller: the poller is not woken.              *)
StartWakePollerSkipped(c) ==
  /\ cpc[c] = "wakePoller"
  /\ cpc' = [cpc EXCEPT ![c] = "wakeLogger"]
  /\ UNCHANGED <<running, threadVars, dataVars, ioctls, xpc, extra>>

StartWakePoller(c) ==
  /\ cpc[c] = "wakePoller"
  /\ Wake("poller")
  /\ cpc' = [cpc EXCEPT ![c] = "wakeLogger"]
  /\ extra' = extra - 1
  /\ UNCHANGED <<running, pc, should_stop, dataVars, ioctls, xpc>>

(* Fault variant of StartWakeLogger: the logger is not woken.              *)
StartWakeLoggerSkipped(c) ==
  /\ cpc[c] = "wakeLogger"
  /\ cpc' = [cpc EXCEPT ![c] = "idle"]
  /\ UNCHANGED <<running, threadVars, dataVars, ioctls, xpc, extra>>

StartWakeLogger(c) ==
  /\ cpc[c] = "wakeLogger"
  /\ Wake("logger")
  /\ cpc' = [cpc EXCEPT ![c] = "idle"]
  /\ UNCHANGED <<running, pc, should_stop, dataVars, ioctls, xpc, extra>>

(* hrperf_ioctl, HRP_PMC_IOC_PAUSE                                         *)
PauseTest(c) ==
  /\ xpc = "loaded" /\ cpc[c] = "idle" /\ ioctls < MaxIoctls
  /\ running
  /\ cpc' = [cpc EXCEPT ![c] = "pause"]
  /\ ioctls' = ioctls + 1
  /\ UNCHANGED <<running, threadVars, dataVars, xpc, extra>>

PauseClear(c) ==
  /\ cpc[c] = "pause"
  /\ running' = FALSE
  /\ cpc' = [cpc EXCEPT ![c] = "idle"]
  /\ extra' = 0
  /\ UNCHANGED <<threadVars, dataVars, ioctls, xpc>>

-----------------------------------------------------------------------------
(* Fault variant of KthreadStop: the flag is set and nobody woken.         *)
KthreadStopNoWake(t, from, to) ==
  /\ xpc = from
  /\ OutsideWindow(t)
  /\ should_stop' = [should_stop EXCEPT ![t] = TRUE]
  /\ xpc' = to
  /\ UNCHANGED <<running, pc, tstate, dataVars, clientVars>>

(* cleanup, which cannot start while a client has the device open          *)
(* (fops.owner): kthread_stop of the logger, then of the poller, each      *)
(* setting the flag, waking the thread and waiting for its exit.           *)
KthreadStop(t, from, to) ==
  /\ xpc = from
  /\ OutsideWindow(t)
  /\ should_stop' = [should_stop EXCEPT ![t] = TRUE]
  /\ Wake(t)
  /\ xpc' = to
  /\ UNCHANGED <<running, pc, dataVars, clientVars>>

StopLogger ==
  /\ \A c \in Clients : cpc[c] = "idle"
  /\ KthreadStop("logger", "loaded", "stopLogger")
  /\ UNCHANGED extra

StopPoller ==
  /\ pc["logger"] = "exited"
  /\ KthreadStop("poller", "stopLogger", "stopPoller")
  /\ extra' = extra - 1

(* Fault variant of FreeBuffers: it does not wait for the poller to exit.  *)
FreeBuffersEarly ==
  /\ xpc = "stopPoller"
  /\ buf' = [c \in Cpus |-> << >>]
  /\ xpc' = "unloaded"
  /\ UNCHANGED <<running, threadVars, ipi, round, todo, file, dropped, clientVars, extra>>

(* deinit_ring_buffer for every selected CPU, and the log file is closed.  *)
FreeBuffers ==
  /\ xpc = "stopPoller" /\ pc["poller"] = "exited"
  /\ buf' = [c \in Cpus |-> << >>]
  /\ xpc' = "unloaded"
  /\ UNCHANGED <<running, threadVars, ipi, round, todo, file, dropped, clientVars, extra>>

-----------------------------------------------------------------------------
Shared(t) == LoopTest(t) \/ RunningTest(t) \/ MarkInterruptible(t) \/ Scheduled(t)
Poller == Shared("poller") \/ PollSend \/ PollDone \/ PollerUsleep
Logger == Shared("logger") \/ LoggerRetest \/ LoggerUsleep \/ LogAndClear \/ LogDone
IpiHandlers == \E c \in Cpus : PollerFunc(c)
Call(c) ==
  \/ StartTest(c) \/ StartSet(c) \/ StartWakePoller(c) \/ StartWakeLogger(c)
  \/ PauseTest(c) \/ PauseClear(c)
Unload == StopLogger \/ StopPoller \/ FreeBuffers

Next == Poller \/ Logger \/ IpiHandlers \/ (\E c \in Clients : Call(c)) \/ Unload

(* The scheduler runs every runnable kernel thread, interrupts are taken,  *)
(* and an ioctl or an rmmod that has begun is carried through; nobody need *)
(* begin one.                                                              *)
Fairness ==
  /\ WF_vars(Poller) /\ WF_vars(Logger) /\ WF_vars(IpiHandlers)
  /\ \A c \in Clients :
       WF_vars(cpc[c] # "idle" /\ Call(c))
  /\ WF_vars(StopPoller \/ FreeBuffers)

Spec == Init /\ [][Next]_vars
FairSpec == Spec /\ Fairness

-----------------------------------------------------------------------------
(* The rounds of CPU c in the file, in its buffer, and refused, and whether *)
(* the entry of the round under way is still to come.                      *)
Recorded(c) == {file[k][2] : k \in {j \in DOMAIN file : file[j][1] = c}}
Waiting(c) == {buf[c][k] : k \in DOMAIN buf[c]}
Refused(c) == {d[2] : d \in {e \in dropped : e[1] = c}}
Due(c) == c \in ipi \/ (c = PollerCpu /\ pc["poller"] = "wait")

(* Every polled CPU has exactly one entry for every round, in the file,    *)
(* then in its buffer, in the order of the rounds, unless its buffer was   *)
(* full or its handler is still to run: no round overtakes another, though *)
(* the CPUs, the poller and the logger proceed independently.              *)
RoundsAccounted ==
  xpc # "unloaded" =>
    /\ \A j, k \in DOMAIN file : j < k /\ file[j][1] = file[k][1] => file[j][2] < file[k][2]
    /\ \A c \in Cpus :
         /\ \A j, k \in DOMAIN buf[c] : j < k => buf[c][j] < buf[c][k]
         /\ \A r \in Recorded(c), q \in Waiting(c) : r < q
    /\ \A c \in PolledCpus :
         /\ Recorded(c) \cup Waiting(c) \cup Refused(c) = 1 .. (IF Due(c) THEN round - 1 ELSE round)
         /\ Refused(c) \cap (Recorded(c) \cup Waiting(c)) = {}

(* PAUSE stops the polling: after it the poller finishes at most the round *)
(* it was about to begin, and begins one more only for each wake-up that   *)
(* reaches it while paused (a late START, or kthread_stop), because it     *)
(* does not test hrperf_running again after schedule.                      *)
PauseStops == ~running => extra <= 1

(* The buffers are freed and the file closed only when no thread and no    *)
(* interrupt handler can touch them, in whatever state the unloading found *)
(* the threads.                                                            *)
TeardownSafe ==
  xpc = "unloaded" =>
    /\ ipi = {} /\ todo = {}
    /\ \A t \in Threads : pc[t] = "exited"

(* A START that no PAUSE follows makes the poller poll on and on.          *)
StartResumes == <>[](running /\ xpc = "loaded") => <>(round = MaxRounds)

(* While monitoring runs, the logger moves every entry to the file.        *)
EverythingLogged ==
  <>[](running /\ xpc = "loaded") => <>[](\A c \in Cpus : buf[c] = << >>)

(* An rmmod comes to its end (or polling to the bound of the model).       *)
UnloadTerminates == xpc # "loaded" ~> xpc = "unloaded" \/ round = MaxRounds

=============================================================================
