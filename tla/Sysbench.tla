------------------------------ MODULE Sysbench ------------------------------
(***************************************************************************)
(* sysbench (apps/sysbench/src/sysbench.c) as a monitored workload: the    *)
(* main thread creates workers, which meet at a barrier and run events     *)
(* until an event limit, a time limit or an error stops them.  With a rate *)
(* an event generator feeds them through a ring; an idle worker sleeps on  *)
(* a condition variable.  Optional threads report statistics.              *)
(*                                                                         *)
(* The test itself (cpu or another) is what execute_event returns.  Time   *)
(* is one bit: whether the limit has passed.  Barriers, rings and counters *)
(* are libraries (external).                                               *)
(***************************************************************************)
EXTENDS Integers, FiniteSets

CONSTANTS SbWorkers,
          SbOptions,   \* records [rate, limit, timed, warmup, forced, reports]
          RingCap,     \* MAX_QUEUE_LEN
          GenMax,      \* bound: events generated
          CountMax     \* bound: the counters of events stop here

VARIABLES
  opt,         \* options of the run
  sbMain,      \* main: "idle", "barrier", "warmup", "reports", "join", "over"
  recording,   \* between hrperf_start and hrperf_pause
  wpc,         \* where each worker is
  rc,          \* result of its last event
  repReady,    \* report and checkpoint threads wait at report_barrier or run
  sbError,     \* sb_globals.error
  nevents,     \* sb_globals.nevents
  maxEvents,   \* sb_globals.max_events
  conc,        \* sb_globals.concurrency
  expired,     \* the time limit has passed
  ring,        \* events in queue_ring
  gen,         \* eventgen thread: "none", "init", "barrier", "loop", "sleep", "signal", "ended"
  generated,
  ran,         \* events executed and not yet part of a cumulative report
  reported     \* events in cumulative reports, and whether the last was printed

sbvars == <<opt, sbMain, recording, wpc, rc, repReady, sbError, nevents, maxEvents, conc, expired,
            ring, gen, generated, ran, reported>>
runVars == <<opt, recording>>

Init ==
  /\ opt = [rate |-> FALSE, limit |-> 0, timed |-> FALSE, warmup |-> FALSE, forced |-> FALSE,
            reports |-> FALSE]
  /\ sbMain = "idle" /\ recording = FALSE
  /\ wpc = [w \in SbWorkers |-> "none"] /\ rc = [w \in SbWorkers |-> 0]
  /\ repReady = FALSE /\ sbError = FALSE /\ nevents = 0 /\ maxEvents = 0 /\ conc = 0
  /\ expired = FALSE /\ ring = 0 /\ gen = "none" /\ generated = 0 /\ ran = 0
  /\ reported = [events |-> 0, final |-> FALSE]

Capped(n) == IF n > CountMax THEN CountMax ELSE n

Live == sbMain \notin {"idle", "over"}

----------------------------------------------------------------------------
\* run_test up to the worker barrier.  The test or a thread may fail to start;
\* once the recording is on it is not ended then.
RunTest(o) ==
  /\ sbMain = "idle" /\ opt' = o
  /\ \/ /\ sbMain' = "over" /\ recording' \in BOOLEAN
        /\ UNCHANGED <<wpc, gen, maxEvents>>
     \/ /\ sbMain' = "barrier" /\ recording' = TRUE
        /\ wpc' = [w \in SbWorkers |-> "init"]
        /\ gen' = IF o.rate THEN "init" ELSE "none"
        /\ maxEvents' = IF o.warmup THEN 0 ELSE o.limit
  /\ UNCHANGED <<rc, repReady, sbError, nevents, conc, expired, ring, generated, ran, reported>>

\* worker_thread until it waits at the barrier.
WorkerInit(w) ==
  /\ Live /\ wpc[w] = "init"
  /\ \/ wpc' = [wpc EXCEPT ![w] = "barrier"] /\ UNCHANGED sbError
     \/ wpc' = [wpc EXCEPT ![w] = "failed"] /\ sbError' = TRUE
  /\ UNCHANGED <<runVars, sbMain, rc, repReady, nevents, maxEvents, conc, expired, ring, gen,
                 generated, ran, reported>>

GenInit ==
  /\ Live /\ gen = "init" /\ gen' = "barrier"
  /\ UNCHANGED <<runVars, sbMain, wpc, rc, repReady, sbError, nevents, maxEvents, conc, expired,
                 ring, generated, ran, reported>>

ReportThreadInit ==
  /\ Live /\ opt.reports /\ ~repReady /\ repReady' = TRUE
  /\ UNCHANGED <<runVars, sbMain, wpc, rc, sbError, nevents, maxEvents, conc, expired, ring, gen,
                 generated, ran, reported>>

\* threads_started_callback
StartedCallback == ~sbError

\* worker_barrier: everybody goes on, or gives up if a worker has failed.
WorkersStart ==
  /\ sbMain = "barrier" /\ gen \in {"none", "barrier"}
  /\ \A w \in SbWorkers : wpc[w] \in {"barrier", "failed"}
  /\ IF StartedCallback
     THEN /\ sbMain' = IF opt.warmup THEN "warmup" ELSE "reports"
          /\ wpc' = [w \in SbWorkers |-> IF wpc[w] = "failed" THEN "failed" ELSE "more"]
          /\ gen' = IF gen = "none" THEN "none" ELSE "loop"
     ELSE /\ sbMain' = "over" /\ UNCHANGED <<wpc, gen>>
  /\ UNCHANGED <<runVars, rc, repReady, sbError, nevents, maxEvents, conc, expired, ring, generated,
                 ran, reported>>

\* sigalrm_thread_init_timeout_handler
InitTimeout ==
  /\ sbMain = "barrier" /\ sbMain' = "over"
  /\ UNCHANGED <<runVars, wpc, rc, repReady, sbError, nevents, maxEvents, conc, expired, ring, gen,
                 generated, ran, reported>>

LimitReached == maxEvents > 0 /\ nevents >= maxEvents

\* sb_more_events: error, time limit, event limit.
MoreEvents(w) ==
  /\ Live /\ wpc[w] = "more"
  /\ LET stop == sbError \/ (opt.timed /\ expired)
     IN  /\ nevents' = IF ~stop /\ maxEvents > 0 THEN nevents + 1 ELSE nevents
         /\ wpc' = [wpc EXCEPT ![w] = IF stop \/ LimitReached THEN "left"
                                      ELSE IF opt.rate THEN "dequeue" ELSE "go"]
  /\ UNCHANGED <<runVars, sbMain, rc, repReady, sbError, maxEvents, conc, expired, ring, gen,
                 generated, ran, reported>>

\* ... then an event is taken from the ring.  If there is none and an error was
\* raised meanwhile, the loop ends without an event and its pointer is used.
Dequeue(w) ==
  /\ Live /\ wpc[w] = "dequeue"
  /\ \/ /\ ring > 0 /\ ring' = ring - 1 /\ conc' = conc + 1
        /\ wpc' = [wpc EXCEPT ![w] = "go"] /\ UNCHANGED sbMain
     \/ /\ ring = 0 /\ sbError /\ sbMain' = "over" /\ UNCHANGED <<ring, conc>>
        /\ wpc' = [wpc EXCEPT ![w] = "crashed"]
     \/ /\ ring = 0 /\ ~sbError
        /\ wpc' = [wpc EXCEPT ![w] = "towait"] /\ UNCHANGED <<sbMain, ring, conc>>
  /\ UNCHANGED <<runVars, rc, repReady, sbError, nevents, maxEvents, expired, gen, generated, ran,
                 reported>>

\* pthread_cond_wait begins; what was signalled before is lost.
Doze(w) ==
  /\ Live /\ wpc[w] = "towait" /\ wpc' = [wpc EXCEPT ![w] = "dozing"]
  /\ UNCHANGED <<runVars, sbMain, rc, repReady, sbError, nevents, maxEvents, conc, expired, ring,
                 gen, generated, ran, reported>>

Recheck(w) ==
  /\ Live /\ wpc[w] = "woken"
  /\ wpc' = [wpc EXCEPT ![w] = IF sbError \/ (opt.timed /\ expired) THEN "left" ELSE "dequeue"]
  /\ UNCHANGED <<runVars, sbMain, rc, repReady, sbError, nevents, maxEvents, conc, expired, ring,
                 gen, generated, ran, reported>>

\* thread_run: sb_more_events is asked before the result of the last event is
\* looked at.
NextEvent(w) ==
  /\ Live /\ wpc[w] = "go"
  /\ wpc' = [wpc EXCEPT ![w] = IF rc[w] = 0 THEN "exec" ELSE "left"]
  /\ UNCHANGED <<runVars, sbMain, rc, repReady, sbError, nevents, maxEvents, conc, expired, ring,
                 gen, generated, ran, reported>>

EventStop(r) == IF opt.rate THEN conc - 1 ELSE conc

ExecuteEvent(w) ==
  /\ Live /\ wpc[w] = "exec"
  /\ \E r \in {0, 1} : rc' = [rc EXCEPT ![w] = r] /\ conc' = EventStop(r)
  /\ ran' = Capped(ran + 1) /\ wpc' = [wpc EXCEPT ![w] = "more"]
  /\ UNCHANGED <<runVars, sbMain, repReady, sbError, nevents, maxEvents, expired, ring, gen,
                 generated, reported>>

\* worker_thread returns.
WorkerEnds(w) ==
  /\ Live /\ wpc[w] = "left" /\ wpc' = [wpc EXCEPT ![w] = "ended"]
  /\ sbError' = (sbError \/ rc[w] # 0)
  /\ UNCHANGED <<runVars, sbMain, rc, repReady, nevents, maxEvents, conc, expired, ring, gen,
                 generated, ran, reported>>

----------------------------------------------------------------------------
WakeAll == [w \in SbWorkers |-> IF wpc[w] = "dozing" THEN "woken" ELSE wpc[w]]

\* eventgen_thread_proc: ends at the time limit and wakes the waiting workers,
\* or sleeps until the next event is due.
Generate ==
  /\ Live /\ gen = "loop"
  /\ \/ opt.timed /\ expired /\ gen' = "ended" /\ wpc' = WakeAll
     \/ ~(opt.timed /\ expired) /\ generated < GenMax /\ gen' = "sleep" /\ UNCHANGED wpc
  /\ UNCHANGED <<runVars, sbMain, rc, repReady, sbError, nevents, maxEvents, conc, expired, ring,
                 generated, ran, reported>>

\* The event is enqueued; a full ring is an error.
Enqueue ==
  /\ Live /\ gen = "sleep"
  /\ \/ /\ ring = RingCap /\ sbError' = TRUE /\ gen' = "ended" /\ wpc' = WakeAll
        /\ UNCHANGED <<ring, generated>>
     \/ /\ ring < RingCap /\ ring' = ring + 1 /\ generated' = generated + 1 /\ gen' = "signal"
        /\ UNCHANGED <<sbError, wpc>>
  /\ UNCHANGED <<runVars, sbMain, rc, repReady, nevents, maxEvents, conc, expired, ran, reported>>

\* pthread_cond_signal wakes one of the sleeping workers, if there is one.
GenSignal ==
  /\ Live /\ gen = "signal" /\ gen' = "loop"
  /\ \/ \E w \in SbWorkers : wpc[w] = "dozing" /\ wpc' = [wpc EXCEPT ![w] = "woken"]
     \/ (\A w \in SbWorkers : wpc[w] # "dozing") /\ UNCHANGED wpc
  /\ UNCHANGED <<runVars, sbMain, rc, repReady, sbError, nevents, maxEvents, conc, expired, ring,
                 generated, ran, reported>>

TimePasses ==
  /\ Live /\ sbMain # "barrier" /\ opt.timed /\ ~expired /\ expired' = TRUE
  /\ UNCHANGED <<runVars, sbMain, wpc, rc, repReady, sbError, nevents, maxEvents, conc, ring, gen,
                 generated, ran, reported>>

\* The warmup is over: the limit is set, the statistics so far are dropped.
WarmupEnds ==
  /\ sbMain = "warmup" /\ sbMain' = "reports"
  /\ maxEvents' = opt.limit /\ ran' = 0
  /\ UNCHANGED <<runVars, wpc, rc, repReady, sbError, nevents, conc, expired, ring, gen, generated,
                 reported>>

\* report_barrier
ReportsStart ==
  /\ sbMain = "reports" /\ (opt.reports => repReady) /\ sbMain' = "join"
  /\ UNCHANGED <<runVars, wpc, rc, repReady, sbError, nevents, maxEvents, conc, expired, ring, gen,
                 generated, ran, reported>>

\* checkpoints_thread_proc: a cumulative report, which starts the counters anew.
CheckpointReport ==
  /\ sbMain = "join" /\ opt.reports /\ ran > 0
  /\ reported' = [reported EXCEPT !.events = Capped(@ + ran)] /\ ran' = 0
  /\ UNCHANGED <<runVars, sbMain, wpc, rc, repReady, sbError, nevents, maxEvents, conc, expired,
                 ring, gen, generated>>

\* Fault variant of JoinWorkers: the recording is ended by the first worker.
JoinWorkersFirst ==
  /\ sbMain = "join" /\ \E w \in SbWorkers : wpc[w] = "ended"
  /\ sbMain' = IF \A w \in SbWorkers : wpc[w] = "ended" THEN "over" ELSE "join"
  /\ recording' = FALSE
  /\ UNCHANGED <<opt, wpc, rc, repReady, sbError, nevents, maxEvents, conc, expired, ring, gen,
                 generated, ran, reported>>

\* All workers are joined: the recording ends, the other threads are cancelled,
\* the final report is printed unless there was an error or cleanup fails.
JoinWorkers ==
  /\ sbMain = "join" /\ \A w \in SbWorkers : wpc[w] \in {"ended", "failed"}
  /\ sbMain' = "over" /\ recording' = FALSE
  /\ gen' = IF gen = "none" THEN "none" ELSE "ended"
  /\ \/ ~sbError /\ ran' = 0
        /\ reported' = [events |-> Capped(reported.events + ran), final |-> TRUE]
     \/ UNCHANGED <<ran, reported>>
  /\ UNCHANGED <<opt, wpc, rc, repReady, sbError, nevents, maxEvents, conc, expired, ring, generated>>

\* sigalrm_forced_shutdown_handler
ForcedShutdown ==
  /\ sbMain \in {"warmup", "reports", "join"} /\ opt.forced /\ expired
  /\ sbMain' = "over"
  /\ reported' = [events |-> Capped(reported.events + ran), final |-> TRUE] /\ ran' = 0
  /\ UNCHANGED <<runVars, wpc, rc, repReady, sbError, nevents, maxEvents, conc, expired, ring, gen,
                 generated>>

----------------------------------------------------------------------------
WorkerStep(w) ==
  \/ WorkerInit(w) \/ MoreEvents(w) \/ Dequeue(w) \/ Doze(w) \/ Recheck(w) \/ NextEvent(w)
  \/ ExecuteEvent(w) \/ WorkerEnds(w)

MainStep == WorkersStart \/ WarmupEnds \/ ReportsStart \/ JoinWorkers

GenStep == GenInit \/ Generate \/ Enqueue \/ GenSignal

Next ==
  \/ \E o \in SbOptions : RunTest(o)
  \/ MainStep \/ InitTimeout \/ ReportThreadInit \/ CheckpointReport \/ ForcedShutdown
  \/ TimePasses \/ GenStep
  \/ \E w \in SbWorkers : WorkerStep(w)

Proceed ==
  GenStep \/ ReportThreadInit \/ ForcedShutdown \/ \E w \in SbWorkers : WorkerStep(w)

\* Time passes, the main thread runs and, as long as some other thread can go on, one does.
Spec ==
  /\ Init /\ [][Next]_sbvars
  /\ WF_sbvars(Proceed) /\ WF_sbvars(MainStep) /\ WF_sbvars(TimePasses)

----------------------------------------------------------------------------
Executing == {w \in SbWorkers : wpc[w] = "exec"}

(* Every event that counts is inside the recording: no worker still runs an *)
(* event when hrperf_pause is called.                                       *)
EventsRecorded == Live /\ Executing # {} => recording

(* Without a warmup no more events are executed than --events allows,       *)
(* however the workers share the counter.                                   *)
EventLimitKept ==
  opt.limit > 0 /\ ~opt.warmup =>
    ran + reported.events + Cardinality(Executing) <= opt.limit

(* In rate mode the concurrency in the reports is the number of workers     *)
(* that hold an event; a worker whose event failed takes one more from the  *)
(* ring, and never gives it back.                                           *)
ConcurrencyCounts ==
  LET holders == {w \in SbWorkers : wpc[w] \in {"go", "exec"}}
      failed == {w \in SbWorkers : rc[w] # 0 /\ wpc[w] \in {"left", "ended"}}
  IN  opt.rate => /\ Cardinality(holders) <= conc
                  /\ conc <= Cardinality(holders) + Cardinality(failed)

(* A worker that failed to start stops the run before any event: no event   *)
(* is counted, no report is printed.                                        *)
FailedStartRunsNothing ==
  (\E w \in SbWorkers : wpc[w] = "failed") =>
    ran = 0 /\ Executing = {} /\ ~reported.final

\* The event generator is gone, and a worker waits for it.
NeverWoken == gen = "ended" /\ \E w \in SbWorkers : wpc[w] = "dozing"

\* What has to end once it has started: a run with an event limit or a time limit, unless a
\* worker in rate mode goes to sleep after the event generator has woken the waiting workers
\* for the last time.
Started == Live /\ (opt.limit > 0 \/ opt.timed)
Ended == ~Live \/ NeverWoken

=============================================================================
