----------------------------- MODULE BpfMonitor -----------------------------
(***************************************************************************)
(* The BPF monitor of network calls (src/src/io): probes at the start and  *)
(* the end of each call of any thread put an event into a BPF ring buffer; *)
(* a polling thread moves the events into a memory-mapped log through      *)
(* hrp_bpf_event_callback; hrp_bpf_stop ends it, frees everything and cuts *)
(* the log to log_offset.                                                  *)
(*                                                                         *)
(* The ring buffer is external: records are reserved in order, a reserve   *)
(* fails when there is no room, and the consumer stops at the first record *)
(* that has not been submitted.  hrp_bpf_start keeps the new thread's id   *)
(* in a local that shadows the global hrp_bpf_polling_thread, so the       *)
(* pthread_join of hrp_bpf_stop gets an id nobody set: it waits for        *)
(* nothing, or crashes.                                                    *)
(***************************************************************************)
EXTENDS Integers, Sequences, FiniteSets, Functions

CONSTANTS NetThreads,   \* threads that make network calls
          MaxNetCalls,  \* bound: calls of each
          RingSize,  \* events the ring buffer holds
          LogSize    \* events the log file holds

\* What the module assumes of its constants.
BpfAssumption ==
  /\ MaxNetCalls \in Nat /\ RingSize \in Nat \ {0} /\ LogSize \in Nat

VARIABLES
  main,      \* the thread that starts and stops the monitor
  poller,    \* the polling thread
  bpfRunning,   \* the flag of the polling loop
  links,     \* probes attached: subset of {"start", "end"}
  ring,      \* records: [ev, submitted]
  at,        \* caller -> where it is in its call
  made,      \* caller -> calls made
  log,       \* events copied to the log
  offset,    \* log_offset, in events
  size,      \* size of the log file, in events
  freed,     \* ring buffer and log are gone
  ringDropped,   \* history: events that found the ring full
  refused,   \* history: events that found the log full
  bpfFault      \* "none", "join", or "freed" for a use of freed memory

netVars == <<at, made>>
bpfLost == <<ringDropped, refused>>
bpfVars == <<main, poller, bpfRunning, links, ring, at, made, log, offset, size, freed,
          ringDropped, refused, bpfFault>>

Kinds == {"start", "end"}
Events == [by : NetThreads, n : 1..MaxNetCalls, kind : Kinds]
Event(c, k) == [by |-> c, n |-> made[c], kind |-> k]

BpfInit ==
  /\ main = "start" /\ poller = "none" /\ bpfRunning = TRUE
  /\ links = {} /\ ring = << >>
  /\ at = [c \in NetThreads |-> "idle"] /\ made = [c \in NetThreads |-> 0]
  /\ log = << >> /\ offset = 0 /\ size = 0
  /\ freed = FALSE /\ ringDropped = {} /\ refused = {} /\ bpfFault = "none"

----------------------------------------------------------------------------
(* hrp_bpf_start and hrp_bpf_stop.                                          *)

\* hrp_bpf_init_log_and_programs: the file gets its full size and is mapped,
\* the offset is 0; then the thread is created.
BpfStart ==
  /\ main = "start" /\ main' = "started"
  /\ size' = LogSize /\ offset' = 0 /\ poller' = "attach"
  /\ UNCHANGED <<bpfRunning, links, ring, netVars, log, freed, bpfLost, bpfFault>>

\* The file cannot be opened, sized or mapped, or the object not loaded; in the
\* last case the log is cleaned up again, which cuts the file to nothing.
BpfStartFails ==
  /\ main = "start" /\ main' = "failed"
  /\ size' \in {size, LogSize, 0}
  /\ UNCHANGED <<poller, bpfRunning, links, ring, netVars, log, offset, freed, bpfLost, bpfFault>>

Stop ==
  /\ main = "started" /\ main' = "join" /\ bpfRunning' = FALSE
  /\ UNCHANGED <<poller, links, ring, netVars, log, offset, size, freed, bpfLost, bpfFault>>

\* pthread_join of a thread id that was never set.
Join ==
  /\ main = "join"
  /\ \/ main' = "free" /\ UNCHANGED bpfFault
     \/ bpfFault' = "join" /\ UNCHANGED main
  /\ UNCHANGED <<poller, bpfRunning, links, ring, netVars, log, offset, size, freed, bpfLost>>

\* Ring buffer, links and object are freed, the log is unmapped.
FreeAll ==
  /\ main = "free" /\ main' = "truncate"
  /\ freed' = TRUE /\ links' = {}
  /\ UNCHANGED <<poller, bpfRunning, ring, netVars, log, offset, size, bpfLost, bpfFault>>

\* hrp_bpf_log_cleanup cuts, or extends, the file to log_offset.
Truncate ==
  /\ main = "truncate" /\ main' = "stopped"
  /\ size' = offset
  /\ UNCHANGED <<poller, bpfRunning, links, ring, netVars, log, offset, freed, bpfLost, bpfFault>>

Main == BpfStart \/ Stop \/ Join \/ FreeAll \/ Truncate

----------------------------------------------------------------------------
(* hrp_bpf_attach_and_poll.                                                 *)

\* The probes are attached one by one, the one at the start of a call first.
Attach(k) ==
  /\ poller = "attach" /\ ~freed
  /\ k = "end" => "start" \in links
  /\ k \notin links /\ links' = links \cup {k}
  /\ UNCHANGED <<main, poller, bpfRunning, ring, netVars, log, offset, size, freed, bpfLost, bpfFault>>

\* ring_buffer__new, which may fail and end the thread.
NewRing(made_it) ==
  /\ poller = "attach" /\ ~freed /\ links = Kinds
  /\ poller' = IF made_it THEN "test" ELSE "failed"
  /\ UNCHANGED <<main, bpfRunning, links, ring, netVars, log, offset, size, freed, bpfLost, bpfFault>>

PollTest ==
  /\ poller = "test"
  /\ poller' = IF bpfRunning THEN "poll" ELSE "ended"
  /\ UNCHANGED <<main, bpfRunning, links, ring, netVars, log, offset, size, freed, bpfLost, bpfFault>>

\* hrp_bpf_event_callback: the offset moves on also when the log is full.
Callback(e) ==
  /\ offset' = offset + 1
  /\ log' = IF offset < LogSize THEN Append(log, e) ELSE log
  /\ refused' = IF offset < LogSize THEN refused ELSE refused \cup {e}

\* Fault variant of Consume: a record is taken before it is submitted.
ConsumeUnsubmitted ==
  /\ poller = "poll" /\ ~freed /\ ring # << >>
  /\ Callback(Head(ring).ev) /\ ring' = Tail(ring)
  /\ UNCHANGED <<main, poller, bpfRunning, links, netVars, size, freed, ringDropped, bpfFault>>

\* ring_buffer__poll hands submitted records to the callback, oldest first.
Consume ==
  /\ poller = "poll" /\ ~freed /\ ring # << >> /\ Head(ring).submitted
  /\ Callback(Head(ring).ev) /\ ring' = Tail(ring)
  /\ UNCHANGED <<main, poller, bpfRunning, links, netVars, size, freed, ringDropped, bpfFault>>

\* It returns at an empty ring or a record that is not submitted yet.
RingPollEnd ==
  /\ poller = "poll" /\ ~freed
  /\ ring # << >> => ~Head(ring).submitted
  /\ poller' = "test"
  /\ UNCHANGED <<main, bpfRunning, links, ring, netVars, log, offset, size, freed, bpfLost, bpfFault>>

\* The thread goes on after hrp_bpf_stop has freed what it uses.
UseFreed ==
  /\ freed /\ poller \in {"attach", "poll"}
  /\ bpfFault' = "freed"
  /\ UNCHANGED <<main, poller, bpfRunning, links, ring, netVars, log, offset, size, freed, bpfLost>>

Polling == (\E k \in Kinds : Attach(k)) \/ NewRing(TRUE) \/ PollTest \/ Consume \/ RingPollEnd

----------------------------------------------------------------------------
(* The probes of the callers.                                               *)

\* bpf_ringbuf_reserve of a probe that is attached; the event is lost if there
\* is no room.
Reserve(c, k) ==
  LET e == Event(c, k)'
      room == Len(ring) < RingSize
  IN  IF k \notin links
      THEN UNCHANGED <<ring, ringDropped>>
      ELSE /\ ring' = IF room THEN Append(ring, [ev |-> e, submitted |-> FALSE]) ELSE ring
           /\ ringDropped' = IF room THEN ringDropped ELSE ringDropped \cup {e}

CallBegins(c) ==
  /\ at[c] = "idle" /\ made[c] < MaxNetCalls
  /\ made' = [made EXCEPT ![c] = @ + 1]
  /\ Reserve(c, "start")
  /\ at' = [at EXCEPT ![c] = "start"]
  /\ UNCHANGED <<main, poller, bpfRunning, links, log, offset, size, freed, refused, bpfFault>>

CallEnds(c) ==
  /\ at[c] = "call"
  /\ UNCHANGED made
  /\ Reserve(c, "end")
  /\ at' = [at EXCEPT ![c] = "end"]
  /\ UNCHANGED <<main, poller, bpfRunning, links, log, offset, size, freed, refused, bpfFault>>

\* bpf_ringbuf_submit, if the probe has a record.
Submit(c) ==
  /\ at[c] \in Kinds
  /\ ring' = [i \in DOMAIN ring |->
                IF ring[i].ev.by = c THEN [ring[i] EXCEPT !.submitted = TRUE] ELSE ring[i]]
  /\ at' = [at EXCEPT ![c] = IF at[c] = "start" THEN "call" ELSE "idle"]
  /\ UNCHANGED <<main, poller, bpfRunning, links, made, log, offset, size, freed, bpfLost, bpfFault>>

Caller(c) == CallBegins(c) \/ Submit(c) \/ CallEnds(c)

BpfFinished ==
  /\ \/ bpfFault # "none"
     \/ main \in {"failed", "stopped"} /\ poller \in {"none", "failed", "ended"}
        /\ \A c \in NetThreads : made[c] = MaxNetCalls /\ at[c] = "idle"
  /\ UNCHANGED bpfVars

BpfNext ==
  \/ bpfFault = "none" /\ (\/ Main \/ BpfStartFails \/ Polling \/ NewRing(FALSE) \/ UseFreed
                        \/ \E c \in NetThreads : Caller(c))
  \/ BpfFinished

\* Threads in the kernel finish their probes, and the polling thread runs.
BpfFairness ==
  /\ WF_bpfVars(bpfFault = "none" /\ Polling)
  /\ \A c \in NetThreads : WF_bpfVars(bpfFault = "none" /\ Submit(c))

BpfSpec == BpfInit /\ [][BpfNext]_bpfVars /\ BpfFairness

----------------------------------------------------------------------------
(* Properties.                                                              *)

\* Position of an event in the order of a caller.
Order(e) == 2 * e.n + (IF e.kind = "end" THEN 1 ELSE 0)

(* The log has the events of each caller in the order they happened, the    *)
(* start of a call before its end, each at most once, and only events whose *)
(* record was complete, although probes on several CPUs and the polling     *)
(* thread overlap.                                                          *)
LogInCallOrder ==
  /\ \A i, j \in DOMAIN log :
       i < j /\ log[i].by = log[j].by => Order(log[i]) < Order(log[j])
  /\ \A i \in DOMAIN log : ~(at[log[i].by] = log[i].kind /\ made[log[i].by] = log[i].n)

(* No event vanishes silently: an event is in at most one of the log, the   *)
(* ring, those a full ring dropped and those a full log refused, and        *)
(* log_offset counts exactly the events handed to the callback.             *)
EventsAccounted ==
  LET waiting == {r.ev : r \in Range(ring)}
  IN  /\ offset = Len(log) + Cardinality(refused)
      /\ refused # {} => Len(log) = LogSize
      /\ waiting \cap Range(log) = {}
      /\ ringDropped \cap (Range(log) \cup waiting) = {}
      /\ refused \cap (Range(log) \cup waiting) = {}

(* A file cut by hrp_bpf_stop holds exactly the events of the log, and      *)
(* one unused record for every event that found the log full: log_offset    *)
(* moves on past the end of the file, and the cut makes the file longer.    *)
FileHoldsTheLog ==
  main = "stopped" => size = Len(log) + Cardinality(refused)

(* Freed memory is used only because the polling thread outlives            *)
(* hrp_bpf_stop: never before it, and never by the probes.                  *)
FreedOnlyAfterStop ==
  bpfFault = "freed" => ~bpfRunning /\ main \in {"truncate", "stopped"} /\ poller # "ended"

(* io/log.c, hrp_bpf_api.c: the log has the events of each caller in order  *)
(* and complete, an event is logged, in the ring, dropped or refused and    *)
(* never lost otherwise, the file is cut to what log_offset counts, and     *)
(* freed memory is used only by the thread that outlives hrp_bpf_stop.      *)
EventsInLog == LogInCallOrder /\ EventsAccounted /\ FileHoldsTheLog /\ FreedOnlyAfterStop

\* No complete record is left in the ring buffer, or its consumer was stopped or never began.
\* Calls are finite in number, so if every record is consumed this holds again and again.
Drained == (\A r \in Range(ring) : ~r.submitted) \/ ~bpfRunning \/ poller = "failed"

=============================================================================
