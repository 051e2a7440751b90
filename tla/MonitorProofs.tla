--------------------------- MODULE MonitorProofs ---------------------------
(***************************************************************************)
(* Proofs about Monitor, for every set of CPUs and clients and without the *)
(* bounds that TLC needs: every polled CPU has exactly one entry for every *)
(* round, unloading frees the buffers only when nobody uses them, and      *)
(* PAUSE stops the polling.                                                *)
(***************************************************************************)
EXTENDS Monitor, TLAPS

(* What the proofs need of the types.                                      *)
ThreadTypes ==
  /\ pc \in [Threads -> {"loop", "test", "mark", "schedule", "poll", "wait",
                         "usleep", "retest", "log", "exited"}]
  /\ tstate \in [Threads -> {"running", "interruptible"}]
  /\ extra \in Int

-----------------------------------------------------------------------------
(* Handlers are outstanding only while the poller waits for them, CPUs are *)
(* to be logged only while the logger logs, and kthread_stop leaves each   *)
(* thread behind for good before the next step of cleanup.                 *)
TeardownInv ==
  /\ ThreadTypes
  /\ pc["poller"] # "wait" => ipi = {}
  /\ pc["logger"] # "log" => todo = {}
  /\ xpc \in {"loaded", "stopLogger", "stopPoller", "unloaded"}
  /\ xpc \in {"stopPoller", "unloaded"} => pc["logger"] = "exited"
  /\ xpc = "unloaded" => pc["poller"] = "exited"

(* Rounds the poller begins without being woken, if monitoring is paused.  *)
Pending ==
  IF pc["poller"] = "poll" \/ (pc["poller"] = "schedule" /\ tstate["poller"] = "running")
  THEN 1 ELSE 0

(* PauseStops is not inductive: a poller on its way to a round has not yet *)
(* been counted.                                                           *)
PauseInv ==
  /\ ThreadTypes
  /\ ~running => extra + Pending <= 1

-----------------------------------------------------------------------------
(* Both invariants hold initially.                                         *)
LEMMA InitHolds == Init => TeardownInv /\ PauseInv
<1> SUFFICES ASSUME Init PROVE TeardownInv /\ PauseInv
  OBVIOUS
<1>1. /\ pc = [t \in Threads |-> "loop"] /\ tstate = [t \in Threads |-> "running"]
      /\ running = FALSE /\ extra = 0 /\ ipi = {} /\ todo = {} /\ xpc = "loaded"
  BY Zenon DEF Init
<1>2. ThreadTypes
  BY <1>1 DEF ThreadTypes, Threads
<1>3. Pending = 0
  BY <1>1 DEF Pending, Threads
<1> QED
  BY <1>1, <1>2, <1>3 DEF TeardownInv, PauseInv, Threads

(* Every step of hrperf.c keeps the invariant behind TeardownSafe.         *)
LEMMA TeardownStep == TeardownInv /\ [Next]_vars => TeardownInv'
<1> SUFFICES ASSUME TeardownInv, [Next]_vars PROVE TeardownInv'
  OBVIOUS
<1> USE DEF TeardownInv, ThreadTypes, Threads, Goto, Wake
<1>1. ASSUME NEW t \in Threads, Shared(t) PROVE TeardownInv'
  <2>1. CASE LoopTest(t)
    BY <2>1 DEF LoopTest, dataVars, clientVars
  <2>2. CASE RunningTest(t)
    BY <2>2 DEF RunningTest, Awake, dataVars, clientVars
  <2>3. CASE MarkInterruptible(t)
    BY <2>3 DEF MarkInterruptible, dataVars, clientVars
  <2>4. CASE Scheduled(t)
    BY <2>4 DEF Scheduled, Awake, dataVars, clientVars
  <2> QED BY <1>1, <2>1, <2>2, <2>3, <2>4 DEF Shared
<1>2. CASE PollSend
  BY <1>2 DEF PollSend, clientVars
<1>3. CASE PollDone
  BY <1>3 DEF PollDone, clientVars
<1>4. CASE PollerUsleep
  BY <1>4 DEF PollerUsleep, dataVars, clientVars
<1>5. CASE LoggerRetest
  BY <1>5 DEF LoggerRetest, dataVars, clientVars
<1>6. CASE LoggerUsleep
  BY <1>6 DEF LoggerUsleep, clientVars
<1>7. CASE LogAndClear
  BY <1>7 DEF LogAndClear, threadVars, clientVars
<1>8. CASE LogDone
  BY <1>8 DEF LogDone, dataVars, clientVars
<1>9. CASE IpiHandlers
  BY <1>9 DEF IpiHandlers, PollerFunc, threadVars, clientVars
<1>10. ASSUME NEW c \in Clients, Call(c) PROVE TeardownInv'
  <2>1. CASE StartTest(c)
    BY <2>1 DEF StartTest, threadVars, dataVars
  <2>2. CASE StartSet(c)
    BY <2>2 DEF StartSet, threadVars, dataVars
  <2>3. CASE StartWakePoller(c)
    BY <2>3 DEF StartWakePoller, threadVars, dataVars
  <2>4. CASE StartWakeLogger(c)
    BY <2>4 DEF StartWakeLogger, threadVars, dataVars
  <2>5. CASE PauseTest(c)
    BY <2>5 DEF PauseTest, threadVars, dataVars
  <2>6. CASE PauseClear(c)
    BY <2>6 DEF PauseClear, threadVars, dataVars
  <2> QED BY <1>10, <2>1, <2>2, <2>3, <2>4, <2>5, <2>6 DEF Call
<1>11. CASE Unload
  BY <1>11 DEF Unload, StopLogger, StopPoller, FreeBuffers, KthreadStop, threadVars,
               dataVars, clientVars
<1>12. CASE UNCHANGED vars
  BY <1>12 DEF vars
<1> QED
  BY <1>1, <1>2, <1>3, <1>4, <1>5, <1>6, <1>7, <1>8, <1>9, <1>10, <1>11, <1>12
  DEF Next, Poller, Logger

(* Every step keeps the bound on the rounds begun since PAUSE.             *)
LEMMA PauseStep == PauseInv /\ [Next]_vars => PauseInv'
<1> SUFFICES ASSUME PauseInv, [Next]_vars PROVE PauseInv'
  OBVIOUS
<1> USE DEF PauseInv, ThreadTypes, Pending, Threads, Goto, Wake
<1>1. ASSUME NEW t \in Threads, Shared(t) PROVE PauseInv'
  <2>1. CASE LoopTest(t)
    BY <2>1 DEF LoopTest, dataVars, clientVars
  <2>2. CASE RunningTest(t)
    BY <2>2 DEF RunningTest, Awake, dataVars, clientVars
  <2>3. CASE MarkInterruptible(t)
    BY <2>3 DEF MarkInterruptible, dataVars, clientVars
  <2>4. CASE Scheduled(t)
    BY <2>4 DEF Scheduled, Awake, dataVars, clientVars
  <2> QED BY <1>1, <2>1, <2>2, <2>3, <2>4 DEF Shared
<1>2. CASE PollSend
  BY <1>2 DEF PollSend, clientVars
<1>3. CASE PollDone
  BY <1>3 DEF PollDone, clientVars
<1>4. CASE PollerUsleep
  BY <1>4 DEF PollerUsleep, dataVars, clientVars
<1>5. CASE LoggerRetest
  BY <1>5 DEF LoggerRetest, dataVars, clientVars
<1>6. CASE LoggerUsleep
  BY <1>6 DEF LoggerUsleep, clientVars
<1>7. CASE LogAndClear
  BY <1>7 DEF LogAndClear, threadVars, clientVars
<1>8. CASE LogDone
  BY <1>8 DEF LogDone, dataVars, clientVars
<1>9. CASE IpiHandlers
  BY <1>9 DEF IpiHandlers, PollerFunc, threadVars, clientVars
<1>10. ASSUME NEW c \in Clients, Call(c) PROVE PauseInv'
  <2>1. CASE StartTest(c)
    BY <2>1 DEF StartTest, threadVars, dataVars
  <2>2. CASE StartSet(c)
    BY <2>2 DEF StartSet, threadVars, dataVars
  <2>3. CASE StartWakePoller(c)
    BY <2>3 DEF StartWakePoller, threadVars, dataVars
  <2>4. CASE StartWakeLogger(c)
    BY <2>4 DEF StartWakeLogger, threadVars, dataVars
  <2>5. CASE PauseTest(c)
    BY <2>5 DEF PauseTest, threadVars, dataVars
  <2>6. CASE PauseClear(c)
    BY <2>6 DEF PauseClear, threadVars, dataVars
  <2> QED BY <1>10, <2>1, <2>2, <2>3, <2>4, <2>5, <2>6 DEF Call
<1>11. CASE Unload
  BY <1>11 DEF Unload, StopLogger, StopPoller, FreeBuffers, KthreadStop, threadVars,
               dataVars, clientVars
<1>12. CASE UNCHANGED vars
  BY <1>12 DEF vars
<1> QED
  BY <1>1, <1>2, <1>3, <1>4, <1>5, <1>6, <1>7, <1>8, <1>9, <1>10, <1>11, <1>12
  DEF Next, Poller, Logger

-----------------------------------------------------------------------------
(* cleanup frees the buffers and closes the file only when no thread and   *)
(* no interrupt handler can touch them, however many CPUs and clients      *)
(* there are and in whatever state rmmod found the threads.                *)
THEOREM TeardownCorrect == Spec => []TeardownSafe
<1>1. TeardownInv => TeardownSafe
  BY DEF TeardownInv, TeardownSafe, ThreadTypes, Threads
<1> QED
  BY <1>1, InitHolds, TeardownStep, PTL DEF Spec

(* After PAUSE the poller begins at most one round more than it is woken   *)
(* up, however START, PAUSE, the timer and rmmod interleave.               *)
THEOREM PauseCorrect == Spec => []PauseStops
<1>1. PauseInv => PauseStops
  BY DEF PauseInv, PauseStops, Pending, ThreadTypes
<1> QED
  BY <1>1, InitHolds, PauseStep, PTL DEF Spec

-----------------------------------------------------------------------------
(* The types of the data, without the bound on rounds.                     *)
DataTypes ==
  /\ round \in Nat
  /\ buf \in [Cpus -> Seq(Nat)] /\ file \in Seq(Cpus \X Nat)
  /\ ipi \subseteq Cpus \ {PollerCpu} /\ todo \subseteq Cpus
  /\ dropped \subseteq Cpus \X Nat

(* RoundsAccounted is inductive once it is known that handlers run only    *)
(* while the poller waits for them, in a round that has begun.             *)
AccountInv ==
  /\ TeardownInv /\ DataTypes /\ RoundsAccounted
  /\ pc["poller"] = "wait" => round >= 1

(* Of the entries of CPU c, all but the one still to come are accounted    *)
(* for, up to round n.                                                     *)
Accounted(c, n) ==
  /\ Recorded(c) \cup Waiting(c) \cup Refused(c) = 1 .. n
  /\ Refused(c) \cap (Recorded(c) \cup Waiting(c)) = {}

InOrder(c) ==
  /\ \A j, k \in DOMAIN buf[c] : j < k => buf[c][j] < buf[c][k]
  /\ \A r \in Recorded(c), q \in Waiting(c) : r < q

FileInOrder ==
  \A j, k \in DOMAIN file : j < k /\ file[j][1] = file[k][1] => file[j][2] < file[k][2]

(* RoundsAccounted, said CPU by CPU: a CPU whose handler is due lacks the  *)
(* round under way.                                                        *)
LEMMA AccountedSplit ==
  RoundsAccounted <=>
    (xpc # "unloaded" =>
       /\ FileInOrder /\ \A c \in Cpus : InOrder(c)
       /\ \A c \in PolledCpus : Accounted(c, IF Due(c) THEN round - 1 ELSE round))
BY DEF RoundsAccounted, FileInOrder, InOrder, Accounted

(* An entry enqueued joins those of the buffer.                            *)
LEMMA AppendRange ==
  ASSUME NEW s \in Seq(Nat), NEW n \in Nat
  PROVE  {Append(s, n)[k] : k \in DOMAIN Append(s, n)} = {s[k] : k \in DOMAIN s} \cup {n}
<1>1. /\ DOMAIN Append(s, n) = 1 .. (Len(s) + 1) /\ DOMAIN s = 1 .. Len(s) /\ Len(s) \in Nat
      /\ Append(s, n)[Len(s) + 1] = n /\ \A k \in 1 .. Len(s) : Append(s, n)[k] = s[k]
  OBVIOUS
<1>2. 1 .. (Len(s) + 1) = (1 .. Len(s)) \cup {Len(s) + 1}
  BY <1>1
<1> QED BY <1>1, <1>2, ZenonT(30)

(* An enqueue puts the round that was due into the buffer or among those   *)
(* refused, behind all earlier ones.                                       *)
LEMMA EnqueueKeeps ==
  ASSUME DataTypes, round >= 1, NEW c \in Cpus, EnqueueOn(c), UNCHANGED <<file, round>>,
         InOrder(c), Accounted(c, round - 1)
  PROVE  InOrder(c)' /\ Accounted(c, round)'
<1>1. /\ buf[c] \in Seq(Nat) /\ round \in Nat /\ Capacity \in Nat
      /\ buf' = [buf EXCEPT ![c] = IF Len(buf[c]) < Capacity THEN Append(buf[c], round) ELSE buf[c]]
      /\ dropped' = IF Len(buf[c]) < Capacity THEN dropped ELSE dropped \cup {<<c, round>>}
  BY CapacityAssumption DEF DataTypes, EnqueueOn, Queue!Offer
<1>2. Recorded(c)' = Recorded(c)
  BY DEF Recorded
<1>3. \A r \in Recorded(c) \cup Waiting(c) \cup Refused(c) : r \in Nat /\ r < round
  BY <1>1 DEF Accounted
<1>4. CASE Len(buf[c]) < Capacity
  <2>1. buf'[c] = Append(buf[c], round) /\ dropped' = dropped
    BY <1>1, <1>4 DEF DataTypes
  <2>2. Waiting(c)' = Waiting(c) \cup {round}
    <3>1. Waiting(c)' = {buf'[c][k] : k \in DOMAIN buf'[c]}
      BY DEF Waiting
    <3>2. {Append(buf[c], round)[k] : k \in DOMAIN Append(buf[c], round)} = Waiting(c) \cup {round}
      BY <1>1, AppendRange, Zenon DEF Waiting
    <3> QED BY <2>1, <3>1, <3>2, Zenon
  <2>3. Refused(c)' = Refused(c)
    BY <2>1 DEF Refused
  <2>4. InOrder(c)'
    <3>1. \A r \in Recorded(c)', q \in Waiting(c)' : r < q
      BY <1>2, <1>3, <2>2 DEF InOrder
    <3>2. \A j, k \in DOMAIN buf'[c] : j < k => buf'[c][j] < buf'[c][k]
      <4>1. \A j \in 1 .. Len(buf[c]) : buf[c][j] < round
        BY <1>1, <1>3 DEF Waiting
      <4> QED BY <1>1, <2>1, <4>1 DEF InOrder
    <3> QED BY <3>1, <3>2 DEF InOrder
  <2>5. Accounted(c, round)'
    BY <1>1, <1>2, <1>3, <2>2, <2>3 DEF Accounted
  <2> QED BY <2>4, <2>5
<1>5. CASE ~(Len(buf[c]) < Capacity)
  <2>1. buf'[c] = buf[c] /\ dropped' = dropped \cup {<<c, round>>}
    BY <1>1, <1>5 DEF DataTypes
  <2>2. Waiting(c)' = Waiting(c)
    BY <2>1 DEF Waiting
  <2>3. Refused(c)' = Refused(c) \cup {round}
    <3>1. {e \in dropped' : e[1] = c} = {e \in dropped : e[1] = c} \cup {<<c, round>>}
      BY <2>1
    <3>2. <<c, round>>[2] = round
      OBVIOUS
    <3> QED BY <3>1, <3>2, Zenon DEF Refused
  <2>4. InOrder(c)'
    BY <1>2, <2>1, <2>2 DEF InOrder
  <2>5. Accounted(c, round)'
    BY <1>1, <1>2, <1>3, <2>2, <2>3 DEF Accounted
  <2> QED BY <2>4, <2>5
<1> QED BY <1>4, <1>5

(* A buffer that an operation does not touch keeps its place in the account. *)
LEMMA Untouched ==
  ASSUME NEW c \in Cpus, NEW n, buf'[c] = buf[c], Recorded(c)' = Recorded(c),
         Refused(c)' = Refused(c), InOrder(c)
  PROVE  InOrder(c)' /\ (Accounted(c, n) => Accounted(c, n)')
<1>1. Waiting(c)' = Waiting(c)
  BY DEF Waiting
<1> QED BY <1>1 DEF InOrder, Accounted

(* enqueue on one CPU changes nothing of another.                          *)
LEMMA EnqueueElsewhere ==
  ASSUME DataTypes, NEW c \in Cpus, NEW d \in Cpus, c # d, EnqueueOn(c), UNCHANGED <<file, round>>
  PROVE  buf'[d] = buf[d] /\ Recorded(d)' = Recorded(d) /\ Refused(d)' = Refused(d)
<1>1. buf'[d] = buf[d]
  BY DEF DataTypes, EnqueueOn
<1>2. Recorded(d)' = Recorded(d)
  BY DEF Recorded
<1>3. {e \in dropped' : e[1] = d} = {e \in dropped : e[1] = d}
  BY DEF EnqueueOn
<1> QED BY <1>1, <1>2, <1>3 DEF Refused

(* enqueue keeps buffers sequences of rounds, and refuses rounds of its    *)
(* CPU.                                                                    *)
LEMMA EnqueueTypes ==
  ASSUME DataTypes, NEW c \in Cpus, EnqueueOn(c)
  PROVE  buf' \in [Cpus -> Seq(Nat)] /\ dropped' \subseteq Cpus \X Nat
BY DEF DataTypes, EnqueueOn, Queue!Offer

(* What concatenation holds, and what is left of a sequence without its    *)
(* first n elements.                                                       *)
LEMMA ConcatFacts ==
  ASSUME NEW S, NEW f \in Seq(S), NEW g \in Seq(S)
  PROVE  /\ f \o g \in Seq(S) /\ DOMAIN (f \o g) = 1 .. (Len(f) + Len(g))
         /\ \A k \in 1 .. Len(f) : (f \o g)[k] = f[k]
         /\ \A k \in 1 .. Len(g) : (f \o g)[Len(f) + k] = g[k]
<1>1. f \o g \in Seq(S) /\ Len(f \o g) = Len(f) + Len(g)
  OBVIOUS
<1>2. \A k \in 1 .. Len(f) : (f \o g)[k] = f[k]
  OBVIOUS
<1>3. \A k \in 1 .. Len(g) : (f \o g)[Len(f) + k] = g[k]
  OBVIOUS
<1> QED BY <1>1, <1>2, <1>3

(* What log_and_clear leaves in a buffer are its entries from n + 1 on.    *)
LEMMA DropFacts ==
  ASSUME NEW b \in Seq(Nat), NEW n \in 1 .. Len(b)
  PROVE  /\ SubSeq(b, n + 1, Len(b)) \in Seq(Nat)
         /\ DOMAIN SubSeq(b, n + 1, Len(b)) = 1 .. (Len(b) - n)
         /\ \A k \in 1 .. (Len(b) - n) : SubSeq(b, n + 1, Len(b))[k] = b[k + n]
<1>1. SubSeq(b, n + 1, Len(b)) \in Seq(Nat)
  OBVIOUS
<1>2. Len(SubSeq(b, n + 1, Len(b))) = Len(b) - n
  OBVIOUS
<1>3. ASSUME NEW k \in 1 .. (Len(b) - n) PROVE SubSeq(b, n + 1, Len(b))[k] = b[k + n]
  OBVIOUS
<1> QED BY <1>1, <1>2, <1>3

(* log_and_clear moves the oldest n entries of a buffer behind everything  *)
(* the file holds of that CPU, and loses none.                             *)
LEMMA MoveKeeps ==
  ASSUME FileInOrder, \A d \in Cpus : InOrder(d),
         NEW c \in Cpus, NEW L \in Nat, NEW M \in Nat, NEW n \in 1 .. M,
         DOMAIN file = 1 .. L, DOMAIN file' = 1 .. (L + n),
         DOMAIN buf[c] = 1 .. M, DOMAIN buf'[c] = 1 .. (M - n),
         \A k \in 1 .. L : file'[k] = file[k],
         \A k \in 1 .. n : file'[L + k] = <<c, buf[c][k]>>,
         \A k \in 1 .. (M - n) : buf'[c][k] = buf[c][k + n],
         \A d \in Cpus : d # c => buf'[d] = buf[d]
  PROVE  /\ FileInOrder' /\ \A d \in Cpus : InOrder(d)'
         /\ \A d \in Cpus : (Recorded(d) \cup Waiting(d))' = Recorded(d) \cup Waiting(d)
<1>1. n \in Nat /\ n >= 1 /\ n <= M
  OBVIOUS
<1>2. \A j, k \in 1 .. M : j < k => buf[c][j] < buf[c][k]
  BY DEF InOrder
<1>3. \A k \in 1 .. L, m \in 1 .. M : file[k][1] = c => file[k][2] < buf[c][m]
  <2> SUFFICES ASSUME NEW k \in 1 .. L, NEW m \in 1 .. M, file[k][1] = c
               PROVE  file[k][2] < buf[c][m]
    OBVIOUS
  <2>1. file[k][2] \in Recorded(c)
    BY DEF Recorded
  <2>2. buf[c][m] \in Waiting(c)
    BY Zenon DEF Waiting
  <2> QED BY <2>1, <2>2 DEF InOrder
<1>4. FileInOrder'
  <2> SUFFICES ASSUME NEW j \in 1 .. (L + n), NEW k \in 1 .. (L + n), j < k,
                      file'[j][1] = file'[k][1]
               PROVE  file'[j][2] < file'[k][2]
    BY DEF FileInOrder
  <2>1. CASE k <= L
    BY <1>1, <2>1, SMTT(30) DEF FileInOrder
  <2>2. CASE j <= L /\ k > L
    <3>1. k - L \in 1 .. n /\ k = L + (k - L) /\ j \in 1 .. L /\ k - L \in 1 .. M
      BY <1>1, <2>2
    <3>2. file'[k] = <<c, buf[c][k - L]>> /\ file'[j] = file[j]
      BY <3>1, Zenon
    <3> QED BY <1>3, <3>1, <3>2
  <2>3. CASE j > L
    <3>1. /\ k - L \in 1 .. n /\ k = L + (k - L) /\ k - L \in 1 .. M
          /\ j - L \in 1 .. n /\ j = L + (j - L) /\ j - L \in 1 .. M /\ j - L < k - L
      BY <1>1, <2>3, SMTT(30)
    <3>2. file'[k] = <<c, buf[c][k - L]>> /\ file'[j] = <<c, buf[c][j - L]>>
      BY <3>1, Zenon
    <3> QED BY <1>2, <3>1, <3>2
  <2> QED BY <1>1, <2>1, <2>2, <2>3
<1>5. Recorded(c)' = Recorded(c) \cup {buf[c][k] : k \in 1 .. n}
  <2>1. ASSUME NEW r \in Recorded(c)' PROVE r \in Recorded(c) \cup {buf[c][k] : k \in 1 .. n}
    <3>1. PICK k \in 1 .. (L + n) : file'[k][1] = c /\ r = file'[k][2]
      BY DEF Recorded
    <3>2. CASE k <= L
      BY <1>1, <3>1, <3>2, SMTT(30) DEF Recorded
    <3>3. CASE k > L
      <4>1. k - L \in 1 .. n /\ k = L + (k - L)
        BY <1>1, <3>3
      <4>2. file'[k] = <<c, buf[c][k - L]>>
        BY <4>1, Zenon
      <4> QED BY <3>1, <4>1, <4>2
    <3> QED BY <1>1, <3>2, <3>3
  <2>2. ASSUME NEW r \in Recorded(c) PROVE r \in Recorded(c)'
    <3>1. PICK k \in 1 .. L : file[k][1] = c /\ r = file[k][2]
      BY DEF Recorded
    <3>2. k \in 1 .. (L + n) /\ file'[k] = file[k]
      BY <1>1
    <3>3. k \in DOMAIN file' /\ file'[k][1] = c /\ r = file'[k][2]
      BY <3>1, <3>2
    <3> QED BY <3>3, Zenon DEF Recorded
  <2>3. ASSUME NEW k \in 1 .. n PROVE buf[c][k] \in Recorded(c)'
    <3>1. L + k \in 1 .. (L + n) /\ file'[L + k] = <<c, buf[c][k]>>
      BY <1>1
    <3>2. L + k \in DOMAIN file' /\ file'[L + k][1] = c /\ buf[c][k] = file'[L + k][2]
      BY <3>1
    <3> QED BY <3>2, Zenon DEF Recorded
  <2> QED BY <2>1, <2>2, <2>3
<1>6. Waiting(c)' = {buf[c][k] : k \in (n + 1) .. M}
  <2>1. ASSUME NEW k \in (n + 1) .. M PROVE buf[c][k] \in Waiting(c)'
    <3>1. k - n \in 1 .. (M - n) /\ (k - n) + n = k
      BY <1>1
    <3>2. k - n \in DOMAIN buf'[c] /\ buf'[c][k - n] = buf[c][k]
      BY <3>1
    <3> QED BY <3>2, Zenon DEF Waiting
  <2>2. ASSUME NEW q \in Waiting(c)' PROVE q \in {buf[c][k] : k \in (n + 1) .. M}
    <3>1. PICK k \in 1 .. (M - n) : q = buf'[c][k]
      BY Zenon DEF Waiting
    <3>2. k + n \in (n + 1) .. M /\ q = buf[c][k + n]
      BY <1>1, <3>1
    <3> QED BY <3>2, Zenon
  <2> QED BY <2>1, <2>2, Zenon
<1>7. Waiting(c) = {buf[c][k] : k \in 1 .. M}
  BY <1>1 DEF Waiting
<1>8. Recorded(c)' \cup Waiting(c)' = Recorded(c) \cup Waiting(c)
  <2>1. 1 .. M = (1 .. n) \cup ((n + 1) .. M)
    BY <1>1
  <2> QED BY <1>5, <1>6, <1>7, <2>1
<1>9. InOrder(c)'
  <2>1. \A j, k \in DOMAIN buf'[c] : j < k => buf'[c][j] < buf'[c][k]
    <3> SUFFICES ASSUME NEW j \in 1 .. (M - n), NEW k \in 1 .. (M - n), j < k
                 PROVE  buf'[c][j] < buf'[c][k]
      OBVIOUS
    <3>1. j + n \in 1 .. M /\ k + n \in 1 .. M /\ j + n < k + n
      BY <1>1
    <3> QED BY <1>2, <3>1, Zenon
  <2>2. \A r \in Recorded(c), m \in 1 .. M : r < buf[c][m]
    BY <1>3 DEF Recorded
  <2>3. \A r \in Recorded(c)', q \in Waiting(c)' : r < q
    BY <1>1, <1>2, <1>5, <1>6, <2>2
  <2> QED BY <2>1, <2>3 DEF InOrder
<1>10. ASSUME NEW d \in Cpus, d # c
       PROVE  InOrder(d)' /\ Recorded(d)' = Recorded(d) /\ Waiting(d)' = Waiting(d)
  <2>1. {j \in DOMAIN file' : file'[j][1] = d} = {j \in DOMAIN file : file[j][1] = d}
    <3>1. ASSUME NEW j \in 1 .. (L + n), file'[j][1] = d PROVE j \in 1 .. L
      <4>1. CASE j > L
        <5>1. j - L \in 1 .. n /\ j = L + (j - L)
          BY <1>1, <4>1
        <5>2. file'[j] = <<c, buf[c][j - L]>>
          BY <5>1, Zenon
        <5> QED BY <1>10, <3>1, <5>2
      <4> QED BY <1>1, <4>1
    <3> QED BY <1>1, <3>1
  <2>2. \A j \in {i \in DOMAIN file : file[i][1] = d} : file'[j] = file[j]
    OBVIOUS
  <2>3. Recorded(d)' = Recorded(d)
    BY <2>1, <2>2 DEF Recorded
  <2>4. Waiting(d)' = Waiting(d)
    BY <1>10 DEF Waiting
  <2> QED BY <1>10, <2>3, <2>4 DEF InOrder
<1> QED BY <1>4, <1>8, <1>9, <1>10

-----------------------------------------------------------------------------
(* Before the first round there is nothing to account for.                 *)
LEMMA AccountInit == Init => AccountInv
<1> SUFFICES ASSUME Init PROVE AccountInv
  OBVIOUS
<1>1. /\ pc = [t \in Threads |-> "loop"] /\ ipi = {} /\ todo = {} /\ xpc = "loaded" /\ round = 0
      /\ buf = [c \in Cpus |-> << >>] /\ file = << >> /\ dropped = {}
  BY Zenon DEF Init
<1>2. DataTypes
  BY <1>1 DEF DataTypes
<1>3. FileInOrder /\ \A c \in Cpus : Recorded(c) = {} /\ Waiting(c) = {} /\ Refused(c) = {}
  BY <1>1 DEF FileInOrder, Recorded, Waiting, Refused
<1>4. \A c \in Cpus : ~Due(c) /\ InOrder(c)
  BY <1>1, <1>3 DEF Due, InOrder, Threads
<1>5. \A c \in PolledCpus : Accounted(c, IF Due(c) THEN round - 1 ELSE round)
  BY <1>1, <1>3, <1>4 DEF Accounted, PolledCpus
<1>6. RoundsAccounted
  BY <1>3, <1>4, <1>5, AccountedSplit
<1> QED BY <1>1, <1>2, <1>6, InitHolds DEF AccountInv, Threads

(* Steps that touch neither the data nor the poller's wait.                *)
LEMMA AccountAside ==
  ASSUME AccountInv, TeardownInv',
         UNCHANGED <<ipi, round, buf, file, dropped>>, todo' \subseteq Cpus,
         (pc["poller"] = "wait")' <=> pc["poller"] = "wait",
         xpc' # "unloaded" => xpc # "unloaded"
  PROVE  AccountInv'
<1>1. /\ DataTypes' /\ round' = round /\ ipi' = ipi
      /\ \A c \in Cpus : buf'[c] = buf[c]
      /\ \A c \in Cpus : Recorded(c)' = Recorded(c)
      /\ \A c \in Cpus : Waiting(c)' = Waiting(c) /\ Refused(c)' = Refused(c)
  BY DEF AccountInv, DataTypes, Recorded, Refused, Waiting
<1>2. FileInOrder' <=> FileInOrder
  BY DEF FileInOrder
<1>3. \A c \in Cpus : (InOrder(c)' <=> InOrder(c)) /\ (Due(c)' <=> Due(c))
  BY <1>1 DEF InOrder, Due
<1>4. \A c \in Cpus : Accounted(c, round)' <=> Accounted(c, round)
  BY <1>1 DEF Accounted
<1>5. \A c \in Cpus : Accounted(c, round - 1)' <=> Accounted(c, round - 1)
  BY <1>1 DEF Accounted
<1>6. RoundsAccounted'
  <2> SUFFICES ASSUME xpc' # "unloaded"
               PROVE  /\ FileInOrder' /\ \A c \in Cpus : InOrder(c)'
                      /\ \A c \in PolledCpus : Accounted(c, IF Due(c) THEN round - 1 ELSE round)'
    BY DEF RoundsAccounted, FileInOrder, InOrder, Accounted
  <2>1. /\ FileInOrder /\ \A c \in Cpus : InOrder(c)
        /\ \A c \in PolledCpus : Accounted(c, IF Due(c) THEN round - 1 ELSE round)
    BY AccountedSplit DEF AccountInv
  <2>2. ASSUME NEW c \in PolledCpus
        PROVE  Accounted(c, IF Due(c) THEN round - 1 ELSE round)'
    <3>1. c \in Cpus
      BY DEF PolledCpus
    <3>2. CASE Due(c)
      BY <1>3, <1>5, <2>1, <3>1, <3>2
    <3>3. CASE ~Due(c)
      BY <1>3, <1>4, <2>1, <3>1, <3>3
    <3> QED BY <3>2, <3>3
  <2> QED BY <1>2, <1>3, <2>1, <2>2
<1> QED BY <1>1, <1>6 DEF AccountInv

(* A new round is due on every CPU that is polled.                         *)
LEMMA AccountSend == ASSUME AccountInv, TeardownInv', PollSend PROVE AccountInv'
<1>1. /\ pc["poller"] = "poll" /\ pc'["poller"] = "wait" /\ round' = round + 1 /\ ipi = {}
      /\ ipi' = Cpus \ {PollerCpu} /\ xpc # "unloaded"
      /\ UNCHANGED <<buf, file, dropped, todo, xpc>>
  BY DEF AccountInv, TeardownInv, ThreadTypes, PollSend, Goto, Threads
<1>2. DataTypes' /\ (pc["poller"] = "wait" => round >= 1)'
  BY <1>1 DEF AccountInv, DataTypes
<1>3. \A c \in Cpus :
        Recorded(c)' = Recorded(c) /\ Waiting(c)' = Waiting(c) /\ Refused(c)' = Refused(c)
  BY <1>1 DEF Recorded, Waiting, Refused
<1>4. /\ FileInOrder /\ \A c \in Cpus : InOrder(c)
      /\ \A c \in PolledCpus : Accounted(c, IF Due(c) THEN round - 1 ELSE round)
  BY <1>1, AccountedSplit DEF AccountInv
<1>5. \A c \in Cpus : ~Due(c) /\ Due(c)'
  BY <1>1 DEF Due
<1>6. FileInOrder' /\ \A c \in Cpus : InOrder(c)'
  BY <1>1, <1>3, <1>4 DEF FileInOrder, InOrder
<1>7. ASSUME NEW c \in PolledCpus PROVE Accounted(c, IF Due(c) THEN round - 1 ELSE round)'
  <2>1. c \in Cpus /\ Accounted(c, round)
    BY <1>4, <1>5 DEF PolledCpus
  <2>2. (round - 1)' = round
    BY <1>1 DEF AccountInv, DataTypes
  <2>3. Accounted(c, round - 1)'
    BY <1>3, <2>1, <2>2 DEF Accounted
  <2> QED BY <1>5, <2>1, <2>3
<1>8. RoundsAccounted'
  BY <1>6, <1>7 DEF RoundsAccounted, FileInOrder, InOrder, Accounted
<1> QED BY <1>2, <1>8 DEF AccountInv

(* The entry that was due on CPU c arrives, and no other.                  *)
LEMMA AccountEnqueue ==
  ASSUME AccountInv, TeardownInv', pc["poller"] = "wait",
         NEW c \in PolledCpus, EnqueueOn(c), Due(c), ~Due(c)',
         \A d \in Cpus \ {c} : Due(d)' <=> Due(d),
         UNCHANGED <<round, todo, file, xpc>>, ipi' \subseteq ipi
  PROVE  AccountInv'
<1>1. /\ c \in Cpus /\ xpc # "unloaded" /\ DataTypes /\ round \in Nat /\ round >= 1
  BY DEF AccountInv, TeardownInv, PolledCpus, DataTypes
<1>2. /\ FileInOrder /\ \A d \in Cpus : InOrder(d)
      /\ \A d \in PolledCpus : Accounted(d, IF Due(d) THEN round - 1 ELSE round)
  BY <1>1, AccountedSplit DEF AccountInv
<1>3. InOrder(c)' /\ Accounted(c, round)'
  BY <1>1, <1>2, EnqueueKeeps
<1>4. DataTypes'
  BY <1>1, EnqueueTypes DEF DataTypes
<1>5. FileInOrder'
  BY <1>2, SMTT(30) DEF FileInOrder
<1>6. ASSUME NEW d \in Cpus, d # c
      PROVE  InOrder(d)' /\ \A n : Accounted(d, n) => Accounted(d, n)'
  <2>1. buf'[d] = buf[d] /\ Recorded(d)' = Recorded(d) /\ Refused(d)' = Refused(d)
    BY <1>1, <1>6, EnqueueElsewhere
  <2> QED BY <1>2, <2>1, Untouched
<1>7. ASSUME NEW d \in PolledCpus PROVE Accounted(d, IF Due(d) THEN round - 1 ELSE round)'
  <2>1. CASE d = c
    BY <1>3, <2>1
  <2>2. CASE d # c
    <3>1. d \in Cpus /\ (Due(d)' <=> Due(d)) /\ (round' = round)
      BY <2>2 DEF PolledCpus
    <3>2. CASE Due(d)
      <4>1. Accounted(d, round - 1)
        BY <1>2, <3>2
      <4>2. Accounted(d, round - 1)'
        BY <1>6, <2>2, <3>1, <4>1 DEF Accounted
      <4> QED BY <3>1, <3>2, <4>2
    <3>3. CASE ~Due(d)
      <4>1. Accounted(d, round)
        BY <1>2, <3>3
      <4>2. Accounted(d, round)'
        BY <1>6, <2>2, <3>1, <4>1, SMTT(30) DEF Accounted
      <4> QED BY <3>1, <3>3, <4>2
    <3> QED BY <3>2, <3>3
  <2> QED BY <2>1, <2>2
<1>8. RoundsAccounted'
  BY <1>3, <1>5, <1>6, <1>7 DEF RoundsAccounted, FileInOrder, InOrder, Accounted
<1> QED BY <1>1, <1>4, <1>8 DEF AccountInv

(* An interrupt handler of smp_poll_pmus enters its round, or a full       *)
(* buffer refuses it.                                                      *)
LEMMA AccountHandler == ASSUME AccountInv, TeardownInv', IpiHandlers PROVE AccountInv'
<1>1. PICK c \in Cpus : PollerFunc(c)
  BY DEF IpiHandlers
<1>2. /\ c \in ipi /\ ipi' = ipi \ {c} /\ EnqueueOn(c) /\ c # PollerCpu /\ ipi # {}
      /\ UNCHANGED <<pc, round, todo, file, xpc>>
  BY <1>1 DEF PollerFunc, threadVars, AccountInv, DataTypes
<1>3. pc["poller"] = "wait" /\ c \in PolledCpus
  BY <1>2 DEF AccountInv, TeardownInv, PolledCpus
<1>4. Due(c) /\ ~Due(c)' /\ \A d \in Cpus \ {c} : Due(d)' <=> Due(d)
  BY <1>2 DEF Due
<1> QED BY <1>2, <1>3, <1>4, AccountEnqueue

(* The poller's wait ends when no handler is outstanding, and its own      *)
(* CPU's entry, if it is to have one, comes with it.                       *)
LEMMA AccountDone == ASSUME AccountInv, TeardownInv', PollDone PROVE AccountInv'
<1>1. /\ ipi = {} /\ ipi' = {} /\ pc["poller"] = "wait" /\ pc'["poller"] # "wait"
      /\ UNCHANGED <<round, todo, file, xpc>>
  BY DEF PollDone, Goto, AccountInv, TeardownInv, ThreadTypes, Threads
<1>2. CASE PollPollerCore /\ PollerCpu \in Cpus
  <2>1. EnqueueOn(PollerCpu) /\ PollerCpu \in PolledCpus
    BY <1>2 DEF PollDone, PolledCpus
  <2>2. Due(PollerCpu) /\ ~Due(PollerCpu)' /\ \A d \in Cpus \ {PollerCpu} : Due(d)' <=> Due(d)
    BY <1>1 DEF Due
  <2> QED BY <1>1, <2>1, <2>2, AccountEnqueue
<1>3. CASE ~(PollPollerCore /\ PollerCpu \in Cpus)
  <2>1. UNCHANGED <<buf, dropped>> /\ PollerCpu \notin PolledCpus
    BY <1>3 DEF PollDone, PolledCpus
  <2>2. DataTypes' /\ xpc # "unloaded"
    BY <1>1, <2>1 DEF AccountInv, DataTypes, TeardownInv
  <2>3. /\ FileInOrder /\ \A c \in Cpus : InOrder(c)
        /\ \A c \in PolledCpus : Accounted(c, IF Due(c) THEN round - 1 ELSE round)
    BY <2>2, AccountedSplit DEF AccountInv
  <2>4. \A c \in Cpus :
        Recorded(c)' = Recorded(c) /\ Waiting(c)' = Waiting(c) /\ Refused(c)' = Refused(c)
    BY <1>1, <2>1 DEF Recorded, Waiting, Refused
  <2>5. FileInOrder' /\ \A c \in Cpus : InOrder(c)'
    BY <1>1, <2>1, <2>3, <2>4 DEF FileInOrder, InOrder
  <2>6. ASSUME NEW c \in PolledCpus PROVE Accounted(c, IF Due(c) THEN round - 1 ELSE round)'
    <3>1. c \in Cpus /\ ~Due(c) /\ ~Due(c)'
      BY <1>1, <2>1 DEF Due, PolledCpus
    <3>2. Accounted(c, round)
      BY <2>3, <3>1
    <3>3. Accounted(c, round)'
      BY <1>1, <2>4, <3>1, <3>2 DEF Accounted
    <3> QED BY <3>1, <3>3
  <2>7. RoundsAccounted'
    BY <2>5, <2>6 DEF RoundsAccounted, FileInOrder, InOrder, Accounted
  <2> QED BY <1>1, <2>2, <2>7 DEF AccountInv
<1> QED BY <1>2, <1>3

(* log_and_clear moves the oldest entries of a buffer to the file.         *)
LEMMA AccountLog == ASSUME AccountInv, TeardownInv', LogAndClear PROVE AccountInv'
<1>1. /\ pc["logger"] = "log" /\ xpc # "unloaded"
      /\ UNCHANGED <<pc, ipi, round, dropped, xpc>>
  BY DEF LogAndClear, threadVars, AccountInv, TeardownInv
<1>2. PICK c \in todo :
        /\ todo' = todo \ {c}
        /\ \/ buf[c] = << >> /\ UNCHANGED <<buf, file>>
           \/ \E n \in 1 .. Len(buf[c]) :
                /\ buf' = [buf EXCEPT ![c] = SubSeq(@, n + 1, Len(@))]
                /\ file' = file \o [k \in 1 .. n |-> <<c, buf[c][k]>>]
  BY Zenon DEF LogAndClear
<1>3. c \in Cpus /\ todo' \subseteq Cpus /\ DataTypes
  BY <1>2 DEF AccountInv, DataTypes
<1>4. /\ FileInOrder /\ \A d \in Cpus : InOrder(d)
      /\ \A d \in PolledCpus : Accounted(d, IF Due(d) THEN round - 1 ELSE round)
  BY <1>1, AccountedSplit DEF AccountInv
<1>5. CASE UNCHANGED <<buf, file>>
  BY <1>1, <1>3, <1>5, AccountAside
<1>6. ASSUME NEW n \in 1 .. Len(buf[c]),
             buf' = [buf EXCEPT ![c] = SubSeq(@, n + 1, Len(@))],
             file' = file \o [k \in 1 .. n |-> <<c, buf[c][k]>>]
      PROVE  AccountInv'
  <2>1. /\ buf[c] \in Seq(Nat) /\ file \in Seq(Cpus \X Nat)
        /\ buf'[c] = SubSeq(buf[c], n + 1, Len(buf[c]))
        /\ \A d \in Cpus : d # c => buf'[d] = buf[d]
    BY <1>3, <1>6 DEF DataTypes
  <2>2. /\ file' \in Seq(Cpus \X Nat) /\ DOMAIN file' = 1 .. (Len(file) + n)
        /\ \A k \in 1 .. Len(file) : file'[k] = file[k]
        /\ \A k \in 1 .. n : file'[Len(file) + k] = <<c, buf[c][k]>>
        /\ buf'[c] \in Seq(Nat) /\ DOMAIN buf'[c] = 1 .. (Len(buf[c]) - n)
        /\ \A k \in 1 .. (Len(buf[c]) - n) : buf'[c][k] = buf[c][k + n]
    <3> DEFINE g == [k \in 1 .. n |-> <<c, buf[c][k]>>]
    <3>1. \A k \in 1 .. n : buf[c][k] \in Nat
      BY <1>6, <2>1
    <3>2. /\ g \in Seq(Cpus \X Nat) /\ Len(g) = n
          /\ \A k \in 1 .. n : g[k] = <<c, buf[c][k]>>
      BY <1>3, <1>6, <3>1
    <3>3. file' = file \o g
      BY <1>6
    <3> HIDE DEF g
    <3>4. /\ file' \in Seq(Cpus \X Nat) /\ DOMAIN file' = 1 .. (Len(file) + n)
          /\ \A k \in 1 .. Len(file) : file'[k] = file[k]
          /\ \A k \in 1 .. n : file'[Len(file) + k] = <<c, buf[c][k]>>
      <4> DEFINE S == Cpus \X Nat
      <4>1. file \in Seq(S) /\ g \in Seq(S)
        BY <2>1, <3>2
      <4> HIDE DEF S
      <4>2. /\ file \o g \in Seq(S) /\ DOMAIN (file \o g) = 1 .. (Len(file) + Len(g))
            /\ \A k \in 1 .. Len(file) : (file \o g)[k] = file[k]
            /\ \A k \in 1 .. Len(g) : (file \o g)[Len(file) + k] = g[k]
        BY <4>1, ConcatFacts
      <4> QED BY <3>2, <3>3, <4>2, Zenon DEF S
    <3>5. /\ buf'[c] \in Seq(Nat) /\ DOMAIN buf'[c] = 1 .. (Len(buf[c]) - n)
          /\ \A k \in 1 .. (Len(buf[c]) - n) : buf'[c][k] = buf[c][k + n]
      BY <2>1, DropFacts, ZenonT(30)
    <3> QED BY <3>4, <3>5, Zenon
  <2>3. /\ Len(file) \in Nat /\ Len(buf[c]) \in Nat
        /\ DOMAIN file = 1 .. Len(file) /\ DOMAIN buf[c] = 1 .. Len(buf[c])
    BY <2>1
  <2>4. /\ FileInOrder' /\ \A d \in Cpus : InOrder(d)'
        /\ \A d \in Cpus : (Recorded(d) \cup Waiting(d))' = Recorded(d) \cup Waiting(d)
    <3> DEFINE L == Len(file)
               M == Len(buf[c])
    <3>1. /\ L \in Nat /\ M \in Nat /\ n \in 1 .. M
          /\ DOMAIN file = 1 .. L /\ DOMAIN file' = 1 .. (L + n)
          /\ DOMAIN buf[c] = 1 .. M /\ DOMAIN buf'[c] = 1 .. (M - n)
          /\ \A k \in 1 .. L : file'[k] = file[k]
          /\ \A k \in 1 .. n : file'[L + k] = <<c, buf[c][k]>>
          /\ \A k \in 1 .. (M - n) : buf'[c][k] = buf[c][k + n]
      BY <2>2, <2>3, Zenon
    <3> HIDE DEF L, M
    <3> QED BY <1>3, <1>4, <2>1, <3>1, MoveKeeps, ZenonT(30)
  <2>5. DataTypes'
    <3>1. buf' \in [Cpus -> Seq(Nat)]
      BY <1>3, <1>6, <2>1, <2>2 DEF DataTypes
    <3> QED BY <1>1, <1>3, <2>2, <3>1, Zenon DEF DataTypes
  <2>6. \A d \in Cpus : Refused(d)' = Refused(d) /\ (Due(d)' <=> Due(d))
    BY <1>1 DEF Refused, Due
  <2>7. ASSUME NEW d \in PolledCpus PROVE Accounted(d, IF Due(d) THEN round - 1 ELSE round)'
    <3>1. d \in Cpus
      BY DEF PolledCpus
    <3>2. ASSUME NEW m, Accounted(d, m) PROVE Accounted(d, m)'
      BY <2>4, <2>6, <3>1, <3>2 DEF Accounted
    <3>3. CASE Due(d)
      <4>1. Accounted(d, round - 1)
        BY <1>4, <3>3
      <4>2. Accounted(d, round - 1)'
        BY <1>1, <3>2, <4>1 DEF Accounted
      <4> QED BY <2>6, <3>1, <3>3, <4>2
    <3>4. CASE ~Due(d)
      <4>1. Accounted(d, round)
        BY <1>4, <3>4
      <4>2. Accounted(d, round)'
        BY <1>1, <3>2, <4>1, Zenon DEF Accounted
      <4> QED BY <2>6, <3>1, <3>4, <4>2
    <3> QED BY <3>3, <3>4
  <2>8. RoundsAccounted'
    BY <2>4, <2>7 DEF RoundsAccounted, FileInOrder, InOrder, Accounted
  <2> QED BY <1>1, <2>5, <2>8 DEF AccountInv
<1> QED BY <1>2, <1>5, <1>6, Zenon

(* Every step of the threads, handlers, ioctls and cleanup keeps the       *)
(* account.                                                                *)
LEMMA AccountStep == AccountInv /\ [Next]_vars => AccountInv'
<1> SUFFICES ASSUME AccountInv, [Next]_vars PROVE AccountInv'
  OBVIOUS
<1> USE DEF Goto, Wake, Threads
<1>1. TeardownInv /\ TeardownInv' /\ ThreadTypes
  BY TeardownStep DEF AccountInv, TeardownInv
<1>2. todo \subseteq Cpus
  BY DEF AccountInv, DataTypes
<1>3. ASSUME NEW t \in Threads, Shared(t) PROVE AccountInv'
  <2>1. UNCHANGED <<ipi, round, buf, file, dropped, todo, xpc>>
    BY <1>3 DEF Shared, LoopTest, RunningTest, MarkInterruptible, Scheduled, dataVars
  <2>2. (pc["poller"] = "wait")' <=> pc["poller"] = "wait"
    BY <1>1, <1>3 DEF Shared, LoopTest, RunningTest, MarkInterruptible, Scheduled, Awake,
                      ThreadTypes
  <2> QED BY <1>1, <1>2, <2>1, <2>2, AccountAside
<1>4. CASE PollSend
  BY <1>1, <1>4, AccountSend
<1>5. CASE PollDone
  BY <1>1, <1>5, AccountDone
<1>6. CASE PollerUsleep \/ LoggerRetest \/ LogDone
  <2>1. UNCHANGED <<ipi, round, buf, file, dropped, todo, xpc>>
    BY <1>6 DEF PollerUsleep, LoggerRetest, LogDone, dataVars
  <2>2. (pc["poller"] = "wait")' <=> pc["poller"] = "wait"
    BY <1>1, <1>6 DEF PollerUsleep, LoggerRetest, LogDone, ThreadTypes
  <2> QED BY <1>1, <1>2, <2>1, <2>2, AccountAside
<1>7. CASE LoggerUsleep
  <2>1. UNCHANGED <<ipi, round, buf, file, dropped, xpc>> /\ todo' = Cpus
    BY <1>7 DEF LoggerUsleep
  <2>2. (pc["poller"] = "wait")' <=> pc["poller"] = "wait"
    BY <1>1, <1>7 DEF LoggerUsleep, ThreadTypes
  <2> QED BY <1>1, <2>1, <2>2, AccountAside
<1>8. CASE LogAndClear
  BY <1>1, <1>8, AccountLog
<1>9. CASE IpiHandlers
  BY <1>1, <1>9, AccountHandler
<1>10. ASSUME NEW c \in Clients, Call(c) PROVE AccountInv'
  <2>1. UNCHANGED <<ipi, round, buf, file, dropped, todo, xpc, pc>>
    BY <1>10 DEF Call, StartTest, StartSet, StartWakePoller, StartWakeLogger, PauseTest,
                 PauseClear, threadVars, dataVars
  <2> QED BY <1>1, <1>2, <2>1, AccountAside, SMTT(30)
<1>11. CASE StopLogger \/ StopPoller
  <2>1. UNCHANGED <<ipi, round, buf, file, dropped, todo, pc>> /\ xpc # "unloaded"
    BY <1>11, SMTT(30) DEF StopLogger, StopPoller, KthreadStop, dataVars
  <2> QED BY <1>1, <1>2, <2>1, AccountAside
<1>12. CASE FreeBuffers
  BY <1>1, <1>12 DEF FreeBuffers, AccountInv, DataTypes, RoundsAccounted, threadVars
<1>13. CASE UNCHANGED vars
  BY <1>1, <1>2, <1>13, AccountAside DEF vars
<1> QED
  BY <1>3, <1>4, <1>5, <1>6, <1>7, <1>8, <1>9, <1>10, <1>11, <1>12, <1>13
  DEF Next, Poller, Logger, Unload

(* For any set of CPUs and any buffer capacity, every polled CPU has       *)
(* exactly one entry for every round, in the file, then in its buffer, in  *)
(* the order of the rounds, unless its buffer was full or its handler has  *)
(* yet to run: smp_poll_pmus, the handlers and log_and_clear together lose *)
(* and repeat nothing.                                                     *)
THEOREM RoundsCorrect == Spec => []RoundsAccounted
<1>1. AccountInv => RoundsAccounted
  BY DEF AccountInv
<1> QED BY <1>1, AccountInit, AccountStep, PTL DEF Spec

=============================================================================
