--------------------------- MODULE RuntimeProofs ---------------------------
(***************************************************************************)
(* Proofs about two parts of the running profiler: the barrier by which    *)
(* strictly synchronous polling keeps the CPUs in step (StrictPoll), and   *)
(* the path of network events from the BPF probes through the ring buffer  *)
(* to the mapped log file (BpfMonitor).  For each, an inductive invariant, *)
(* one lemma for its initial states, one for its steps, and the property   *)
(* that the runs of MCDriver check.                                        *)
(***************************************************************************)
EXTENDS StrictPoll, BpfMonitor, FiniteSetTheorems, TLAPS

PollTypes ==
  /\ pollBuild \in PollBuilds
  /\ ppc \in {"idle", "resetStart", "resetDone", "send", "ready", "own", "done"}
  /\ kts \in Nat /\ ready_cpus \in Nat /\ done_cpus \in Nat /\ start_flag \in {0, 1}
  /\ queued \subseteq PollCpus /\ arrived \subseteq PollCpus
  /\ hpc \in [PollCpus -> {"none", "spin", "sample", "count", "enqueue"}]
  /\ sampled \in [PollCpus -> Nat] /\ polledAt \in [PollCpus -> Seq(Nat)]

(* Time stamps are those of rounds that have begun, and entries are older  *)
(* than what the handler has read since.                                   *)
StampsInv ==
  \A c \in PollCpus :
    /\ sampled[c] <= kts
    /\ \A k \in DOMAIN polledAt[c] : polledAt[c][k] <= sampled[c]

(* CPU c is not between its arrival in a round and its count of done.      *)
Away(c) == hpc[c] \in {"none", "enqueue"}
Through == {c \in arrived : Away(c)}
Asked == ppc \in {"ready", "own", "done"}
One(b) == IF b THEN 1 ELSE 0

(* The barrier without timeouts: the counters count the CPUs that have     *)
(* arrived and those that are through, and between rounds all are away.    *)
BarrierInv ==
  /\ ~Asked => queued = {} /\ \A c \in PollCpus : Away(c)
  /\ ppc \in {"resetStart", "resetDone", "send"} => ready_cpus = 0 /\ arrived = {}
  /\ ppc \in {"resetDone", "send", "ready"} => start_flag = 0
  /\ ppc = "send" => done_cpus = 0
  /\ Asked => queued \cup arrived = PollCpus /\ \A c \in queued : c \notin arrived /\ Away(c)
  /\ ppc = "ready" => /\ ready_cpus = Cardinality(arrived) + One(PollPollerCore)
                      /\ \A c \in arrived : hpc[c] = "spin"
  /\ ppc \in {"own", "done"} => arrived = PollCpus
  /\ ppc = "own" => PollPollerCore
  /\ Asked => done_cpus = Cardinality(Through) + One(PollPollerCore /\ ppc = "done")

(* The rounds CPU c still owes an entry for.                               *)
Owes(c) == One(ppc \in {"resetStart", "resetDone", "send"} \/ c \in queued \/ ~Away(c))

EntryInv(c) ==
  /\ \A k \in DOMAIN polledAt[c] : polledAt[c][k] = k
  /\ hpc[c] = "count" => sampled[c] = kts
  /\ hpc[c] = "enqueue" => sampled[c] = Len(polledAt[c]) + 1
  /\ Len(polledAt[c]) + One(hpc[c] = "enqueue") + Owes(c) = kts

EntriesInv == \A c \in PollCpus : EntryInv(c)

PollInv ==
  /\ PollTypes /\ StampsInv /\ StampsMonotone
  /\ ~Timeouts => BarrierInv
  /\ ~Timeouts /\ ~AllocMayFail => EntriesInv

(* The variables of strict polling keep their types.                       *)
LEMMA PollTypesStep == PollTypes /\ [PollNext]_pollVars => PollTypes'
<1> SUFFICES ASSUME PollTypes, [PollNext]_pollVars PROVE PollTypes'
  OBVIOUS
<1> USE DEF PollTypes, PollCpus
<1>1. CASE RoundBegin
  BY <1>1 DEF RoundBegin, handlerVars, syncVars
<1>2. CASE ResetStart
  BY <1>2, Zenon DEF ResetStart, handlerVars, syncVars
<1>3. CASE ResetDone
  BY <1>3, Zenon DEF ResetDone, handlerVars, syncVars
<1>4. CASE AllocFails
  BY <1>4, Zenon DEF AllocFails, handlerVars, syncVars
<1>5. CASE Send
  BY <1>5 DEF Send, handlerVars, syncVars
<1>6. CASE SetStart
  BY <1>6, Zenon DEF SetStart, handlerVars, syncVars
<1>7. CASE ReadyTimeout
  BY <1>7, Zenon DEF ReadyTimeout, handlerVars, syncVars
<1>8. CASE OwnPoll
  BY <1>8 DEF OwnPoll, handlerVars, syncVars
<1>9. CASE PollReturn
  BY <1>9, Zenon DEF PollReturn, handlerVars, syncVars
<1>10. ASSUME NEW c \in PollCpus, Handler(c) PROVE PollTypes'
  <2>1. CASE HandlerStart(c)
    BY <2>1 DEF HandlerStart, handlerVars, syncVars
  <2>2. CASE HandlerTimeout(c)
    BY <2>2 DEF HandlerTimeout, handlerVars, syncVars
  <2>3. CASE HandlerGo(c)
    BY <2>3, Zenon DEF HandlerGo, handlerVars, syncVars
  <2>4. CASE HandlerSample(c)
    BY <2>4, Zenon DEF HandlerSample, handlerVars, syncVars
  <2>5. CASE HandlerDone(c)
    BY <2>5 DEF HandlerDone, handlerVars, syncVars
  <2>6. CASE HandlerEnqueue(c)
    BY <2>6 DEF HandlerEnqueue, handlerVars, syncVars
  <2> QED BY <1>10, <2>1, <2>2, <2>3, <2>4, <2>5, <2>6, Zenon DEF Handler
<1>11. CASE UNCHANGED pollVars
  BY <1>11, Zenon DEF pollVars, handlerVars, syncVars
<1> QED
  BY <1>1, <1>2, <1>3, <1>4, <1>5, <1>6, <1>7, <1>8, <1>9, <1>10, <1>11
  DEF PollNext, PollStep

(* A handler records what it read last, and reads the time of the current  *)
(* round.                                                                  *)
LEMMA StampsStep ==
  PollTypes /\ StampsInv /\ StampsMonotone /\ [PollNext]_pollVars => StampsInv' /\ StampsMonotone'
<1> SUFFICES ASSUME PollTypes, StampsInv, StampsMonotone, [PollNext]_pollVars
             PROVE  StampsInv' /\ StampsMonotone'
  OBVIOUS
<1> USE DEF PollTypes, StampsInv, StampsMonotone, PollCpus
<1>1. CASE RoundBegin
  BY <1>1 DEF RoundBegin, handlerVars, syncVars
<1>2. CASE ResetStart
  BY <1>2, Zenon DEF ResetStart, handlerVars, syncVars
<1>3. CASE ResetDone
  BY <1>3, Zenon DEF ResetDone, handlerVars, syncVars
<1>4. CASE AllocFails
  BY <1>4, Zenon DEF AllocFails, handlerVars, syncVars
<1>5. CASE Send
  BY <1>5, Zenon DEF Send, handlerVars, syncVars
<1>6. CASE SetStart
  BY <1>6, Zenon DEF SetStart, handlerVars, syncVars
<1>7. CASE ReadyTimeout
  BY <1>7, Zenon DEF ReadyTimeout, handlerVars, syncVars
<1>8. CASE OwnPoll
  BY <1>8, Zenon DEF OwnPoll, handlerVars, syncVars
<1>9. CASE PollReturn
  BY <1>9, Zenon DEF PollReturn, handlerVars, syncVars
<1>10. ASSUME NEW c \in PollCpus, Handler(c) PROVE StampsInv' /\ StampsMonotone'
  <2>1. CASE HandlerStart(c)
    BY <2>1, Zenon DEF HandlerStart, handlerVars, syncVars
  <2>2. CASE HandlerTimeout(c)
    BY <2>2, Zenon DEF HandlerTimeout, handlerVars, syncVars
  <2>3. CASE HandlerGo(c)
    BY <2>3, Zenon DEF HandlerGo, handlerVars, syncVars
  <2>4. CASE HandlerSample(c)
    BY <2>4 DEF HandlerSample, handlerVars, syncVars
  <2>5. CASE HandlerDone(c)
    BY <2>5, Zenon DEF HandlerDone, handlerVars, syncVars
  <2>6. CASE HandlerEnqueue(c)
    BY <2>6, SMTT(30) DEF HandlerEnqueue, handlerVars, syncVars
  <2> QED BY <1>10, <2>1, <2>2, <2>3, <2>4, <2>5, <2>6, Zenon DEF Handler
<1>11. CASE UNCHANGED pollVars
  BY <1>11, Zenon DEF pollVars, handlerVars, syncVars
<1> QED
  BY <1>1, <1>2, <1>3, <1>4, <1>5, <1>6, <1>7, <1>8, <1>9, <1>10, <1>11
  DEF PollNext, PollStep

(* Without timeouts, both sides of the barrier keep ready_cpus and         *)
(* done_cpus in step with the CPUs.                                        *)
LEMMA BarrierStep ==
  ASSUME PollAssumption, PollTypes, ~Timeouts, BarrierInv, [PollNext]_pollVars
  PROVE  BarrierInv'
<1> USE DEF PollCpus, PollPollerCore, Timeouts, Asked, Away, One
<1>1. IsFiniteSet(PollCpus) /\ IsFiniteSet(arrived) /\ IsFiniteSet(Through)
  <2>1. IsFiniteSet(PollCpus)
    BY Zenon DEF PollAssumption, PollTypes
  <2>2. arrived \in SUBSET PollCpus /\ Through \in SUBSET PollCpus
    BY Zenon DEF PollTypes, Through
  <2> QED BY <2>1, <2>2, FS_Subset, Zenon
<1>2. Cardinality(PollCpus) \in Nat /\ Cardinality(arrived) \in Nat /\ Cardinality(Through) \in Nat
  BY <1>1, FS_CardinalityType, Zenon
<1>3. CASE RoundBegin
  BY <1>3, Zenon DEF RoundBegin, handlerVars, PollTypes, BarrierInv
<1>4. CASE ResetStart
  BY <1>4, Zenon DEF ResetStart, handlerVars, PollTypes, BarrierInv
<1>5. CASE ResetDone
  BY <1>5, Zenon DEF ResetDone, handlerVars, PollTypes, BarrierInv
<1>6. CASE AllocFails
  BY <1>6, Zenon DEF AllocFails, handlerVars, syncVars, PollTypes, BarrierInv
<1>7. CASE Send
  <2>1. /\ arrived = {} /\ ready_cpus = 0 /\ done_cpus = 0 /\ start_flag = 0 /\ ppc' = "ready"
        /\ queued' = PollCpus /\ ready_cpus' = One(PollPollerCore)
        /\ \A c \in PollCpus : Away(c)
        /\ UNCHANGED <<pollBuild, arrived, hpc, start_flag, done_cpus>>
    BY <1>7 DEF Send, BarrierInv
  <2>2. Through' = {} /\ Cardinality({}) = 0
    BY <2>1, FS_EmptySet, Zenon DEF Through
  <2> QED BY <2>1, <2>2 DEF BarrierInv
<1>8. CASE SetStart
  <2>1. /\ ppc = "ready" /\ Cardinality(arrived) >= Cardinality(PollCpus) /\ ppc' \in {"own", "done"}
        /\ PollPollerCore <=> ppc' = "own"
        /\ UNCHANGED <<pollBuild, queued, arrived, hpc, done_cpus>>
    BY <1>2, <1>8 DEF SetStart, N_POLLING_CPUS, BarrierInv, handlerVars
  <2>2. arrived = PollCpus
    <3>1. arrived \in SUBSET PollCpus
      BY Zenon DEF PollTypes
    <3>2. Cardinality(arrived) <= Cardinality(PollCpus)
      BY <1>1, <3>1, FS_Subset, Zenon
    <3>3. Cardinality(PollCpus) = Cardinality(arrived)
      BY <1>2, <2>1, <3>2
    <3> QED BY <1>1, <3>1, <3>3, FS_Subset, Zenon
  <2>3. Through' = Through
    BY <2>1, Zenon DEF Through
  <2> QED BY <2>1, <2>2, <2>3, Zenon DEF BarrierInv
<1>9. CASE ReadyTimeout
  BY <1>9, Zenon DEF ReadyTimeout
<1>10. CASE OwnPoll
  <2>1. Through' = Through
    BY <1>10, Zenon DEF OwnPoll, Through, handlerVars
  <2> QED BY <1>2, <1>10, <2>1 DEF OwnPoll, BarrierInv, handlerVars, PollTypes
<1>11. CASE PollReturn
  <2>1. Cardinality(Through) >= Cardinality(PollCpus)
    BY <1>2, <1>11 DEF PollReturn, N_POLLING_CPUS, BarrierInv
  <2>2. Through = PollCpus
    <3>1. Through \in SUBSET PollCpus
      BY Zenon DEF PollTypes, Through
    <3>2. Cardinality(Through) <= Cardinality(PollCpus)
      BY <1>1, <3>1, FS_Subset, Zenon
    <3>3. Cardinality(PollCpus) = Cardinality(Through)
      BY <1>2, <2>1, <3>2
    <3> QED BY <1>1, <3>1, <3>3, FS_Subset, Zenon
  <2>3. queued = {} /\ \A c \in PollCpus : Away(c)
    BY <1>11, <2>2, Zenon DEF PollReturn, BarrierInv, Through
  <2> QED BY <1>11, <2>3, Zenon DEF PollReturn, BarrierInv, handlerVars
<1>12. ASSUME NEW c \in PollCpus, Handler(c) PROVE BarrierInv'
  <2>1. CASE HandlerStart(c)
    <3>1. /\ c \in queued /\ ppc = "ready" /\ c \notin arrived /\ hpc[c] = "none"
          /\ arrived' = arrived \cup {c} /\ queued' = queued \ {c}
          /\ hpc' = [hpc EXCEPT ![c] = "spin"] /\ ready_cpus' = ready_cpus + 1
          /\ UNCHANGED <<pollBuild, ppc, done_cpus, start_flag>>
      BY <2>1, Zenon DEF HandlerStart, BarrierInv, PollTypes
    <3>2. Cardinality(arrived') = Cardinality(arrived) + 1
      BY <1>1, <3>1, FS_AddElement, Zenon
    <3>3. Through' = Through
      BY <3>1, Zenon DEF Through, PollTypes
    <3> QED BY <1>2, <3>1, <3>2, <3>3 DEF BarrierInv, PollTypes
  <2>2. CASE HandlerTimeout(c)
    BY <2>2, Zenon DEF HandlerTimeout
  <2>3. CASE HandlerGo(c)
    <3>1. Through' = Through
      BY <2>3, Zenon DEF HandlerGo, Through, PollTypes
    <3> QED BY <2>3, <3>1 DEF HandlerGo, BarrierInv, syncVars, PollTypes
  <2>4. CASE HandlerSample(c)
    <3>1. Through' = Through
      BY <2>4, Zenon DEF HandlerSample, Through, PollTypes
    <3> QED BY <2>4, <3>1, Zenon DEF HandlerSample, BarrierInv, syncVars, PollTypes
  <2>5. CASE HandlerDone(c)
    <3>1. /\ hpc[c] = "count" /\ ppc \in {"own", "done"} /\ c \in arrived /\ c \notin Through
          /\ hpc' = [hpc EXCEPT ![c] = "enqueue"] /\ done_cpus' = done_cpus + 1
          /\ UNCHANGED <<pollBuild, ppc, ready_cpus, start_flag, queued, arrived>>
      BY <2>5, Zenon DEF HandlerDone, BarrierInv, Through, PollTypes
    <3>2. Through' = Through \cup {c}
      BY <3>1, Zenon DEF Through, PollTypes
    <3>3. Cardinality(Through') = Cardinality(Through) + 1
      BY <1>1, <3>1, <3>2, FS_AddElement, Zenon
    <3> QED BY <1>2, <3>1, <3>3 DEF BarrierInv, PollTypes
  <2>6. CASE HandlerEnqueue(c)
    <3>1. Through' = Through
      BY <2>6, Zenon DEF HandlerEnqueue, Through, PollTypes
    <3> QED BY <2>6, <3>1, Zenon DEF HandlerEnqueue, BarrierInv, syncVars, PollTypes
  <2> QED BY <1>12, <2>1, <2>2, <2>3, <2>4, <2>5, <2>6, Zenon DEF Handler
<1>13. CASE UNCHANGED pollVars
  BY <1>13, Zenon DEF pollVars, handlerVars, syncVars, BarrierInv, Through
<1> QED
  BY <1>3, <1>4, <1>5, <1>6, <1>7, <1>8, <1>9, <1>10, <1>11, <1>12, <1>13
  DEF PollNext, PollStep

(* A step that changes nothing of CPU d, nor what it owes.                 *)
LEMMA EntryFrame ==
  ASSUME NEW d, EntryInv(d), hpc'[d] = hpc[d], sampled'[d] = sampled[d], polledAt'[d] = polledAt[d],
         kts' = kts, Owes(d)' = Owes(d)
  PROVE  EntryInv(d)'
BY Zenon DEF EntryInv, One

(* Without timeouts and failures, what a CPU has recorded and what it owes *)
(* add up to the rounds begun.                                             *)
LEMMA EntriesStep ==
  ASSUME PollTypes, ~Timeouts, ~AllocMayFail, BarrierInv, EntriesInv, [PollNext]_pollVars
  PROVE  EntriesInv'
<1>1. PollCpus' = PollCpus
  BY Zenon DEF PollNext, PollStep, Handler, RoundBegin, ResetStart, ResetDone, AllocFails, Send, SetStart,
         ReadyTimeout, OwnPoll, PollReturn, HandlerStart, HandlerTimeout, HandlerGo,
         HandlerSample, HandlerDone, HandlerEnqueue, pollVars, PollCpus
<1> SUFFICES ASSUME NEW d \in PollCpus PROVE EntryInv(d)'
  BY <1>1, Zenon DEF EntriesInv
<1>2. /\ polledAt[d] \in Seq(Nat) /\ EntryInv(d) /\ Len(polledAt[d]) \in Nat /\ kts \in Nat
      /\ d \in DOMAIN hpc /\ d \in DOMAIN polledAt /\ d \in DOMAIN sampled
  BY DEF EntriesInv, PollTypes
<1>3. CASE RoundBegin
  <2>1. /\ ppc = "idle" /\ ppc' = "resetStart" /\ kts' = kts + 1
        /\ UNCHANGED <<hpc, sampled, polledAt>> /\ queued = {} /\ Away(d)
    BY <1>3, Zenon DEF RoundBegin, BarrierInv, Asked, handlerVars
  <2>2. Owes(d) = 0 /\ Owes(d)' = 1 /\ hpc[d] # "count"
    BY <2>1, Zenon DEF Owes, One, Away
  <2> QED BY <1>2, <2>1, <2>2 DEF EntryInv, One
<1>4. CASE ResetStart \/ ResetDone
  <2>1. /\ UNCHANGED <<hpc, sampled, polledAt, kts, queued>>
        /\ {ppc, ppc'} \subseteq {"resetStart", "resetDone", "send"}
    BY <1>4, Zenon DEF ResetStart, ResetDone, handlerVars
  <2>2. Owes(d)' = Owes(d)
    BY <2>1, Zenon DEF Owes, One
  <2> QED BY <1>2, <2>1, <2>2, EntryFrame, Zenon
<1>5. CASE AllocFails
  BY <1>5, Zenon DEF AllocFails
<1>6. CASE Send
  <2>1. /\ UNCHANGED <<hpc, sampled, polledAt, kts>> /\ ppc = "send" /\ queued' = PollCpus
    BY <1>6, Zenon DEF Send
  <2>2. Owes(d) = 1 /\ Owes(d)' = 1
    BY <2>1, Zenon DEF Owes, One
  <2> QED BY <1>2, <2>1, <2>2, EntryFrame, Zenon
<1>7. CASE SetStart \/ OwnPoll \/ PollReturn
  <2>1. /\ UNCHANGED <<hpc, sampled, polledAt, kts, queued>>
        /\ {ppc, ppc'} \cap {"resetStart", "resetDone", "send"} = {}
    BY <1>7, Zenon DEF SetStart, OwnPoll, PollReturn, handlerVars
  <2>2. Owes(d)' = Owes(d)
    BY <2>1, Zenon DEF Owes, One, Away
  <2> QED BY <1>2, <2>1, <2>2, EntryFrame, Zenon
<1>8. CASE ReadyTimeout
  BY <1>8, Zenon DEF ReadyTimeout
<1>9. ASSUME NEW c \in PollCpus, Handler(c), c # d PROVE EntryInv(d)'
  <2>1. /\ hpc'[d] = hpc[d] /\ sampled'[d] = sampled[d] /\ polledAt'[d] = polledAt[d]
        /\ UNCHANGED <<kts, ppc>> /\ (d \in queued' <=> d \in queued)
    BY <1>2, <1>9, Zenon DEF Handler, HandlerStart, HandlerTimeout, HandlerGo, HandlerSample, HandlerDone,
                      HandlerEnqueue
  <2>2. Owes(d)' = Owes(d)
    BY <2>1, Zenon DEF Owes, One, Away
  <2> QED BY <1>2, <2>1, <2>2, EntryFrame, Zenon
<1>10. ASSUME Handler(d) PROVE EntryInv(d)'
  <2>1. CASE HandlerStart(d)
    <3>1. /\ d \in queued /\ hpc[d] = "none" /\ hpc'[d] = "spin" /\ UNCHANGED <<kts, polledAt>>
      BY <1>2, <2>1, Zenon DEF HandlerStart
    <3>2. Owes(d) = 1 /\ Owes(d)' = 1
      BY <3>1, Zenon DEF Owes, One, Away
    <3> QED BY <1>2, <3>1, <3>2, Zenon DEF EntryInv, One
  <2>2. CASE HandlerTimeout(d)
    BY <2>2, Zenon DEF HandlerTimeout
  <2>3. CASE HandlerGo(d)
    <3>1. /\ hpc[d] = "spin" /\ hpc'[d] = "sample" /\ UNCHANGED <<kts, polledAt>>
      BY <1>2, <2>3, Zenon DEF HandlerGo
    <3>2. Owes(d) = 1 /\ Owes(d)' = 1
      BY <3>1, Zenon DEF Owes, One, Away
    <3> QED BY <1>2, <3>1, <3>2, Zenon DEF EntryInv, One
  <2>4. CASE HandlerSample(d)
    <3>1. /\ hpc[d] = "sample" /\ hpc'[d] = "count" /\ sampled'[d] = kts
          /\ UNCHANGED <<kts, polledAt>>
      BY <1>2, <2>4, Zenon DEF HandlerSample
    <3>2. Owes(d) = 1 /\ Owes(d)' = 1
      BY <3>1, Zenon DEF Owes, One, Away
    <3> QED BY <1>2, <3>1, <3>2, Zenon DEF EntryInv, One
  <2>5. CASE HandlerDone(d)
    <3>1. /\ hpc[d] = "count" /\ hpc'[d] = "enqueue" /\ sampled'[d] = kts /\ d \notin queued
          /\ ppc \notin {"resetStart", "resetDone", "send"}
          /\ UNCHANGED <<kts, polledAt, queued, ppc>>
      BY <1>2, <2>5, Zenon DEF HandlerDone, EntryInv, BarrierInv, Asked, Away
    <3>2. Owes(d) = 1 /\ Owes(d)' = 0
      BY <3>1, Zenon DEF Owes, One, Away
    <3> QED BY <1>2, <3>1, <3>2 DEF EntryInv, One
  <2>6. CASE HandlerEnqueue(d)
    <3>1. /\ hpc[d] = "enqueue" /\ hpc'[d] = "none" /\ polledAt'[d] = Append(polledAt[d], sampled[d])
          /\ UNCHANGED <<kts, queued, ppc>>
      BY <1>2, <2>6, Zenon DEF HandlerEnqueue
    <3>2. Owes(d)' = Owes(d) /\ Owes(d) \in Nat
      BY <3>1, Zenon DEF Owes, One, Away
    <3>3. sampled[d] = Len(polledAt[d]) + 1 /\ \A k \in DOMAIN polledAt[d] : polledAt[d][k] = k
      BY <1>2, <3>1, Zenon DEF EntryInv
    <3>4. /\ Len(polledAt'[d]) = Len(polledAt[d]) + 1
          /\ \A k \in DOMAIN polledAt'[d] : polledAt'[d][k] = k
      BY <1>2, <3>1, <3>3
    <3> QED BY <1>2, <3>1, <3>2, <3>4 DEF EntryInv, One
  <2> QED BY <1>10, <2>1, <2>2, <2>3, <2>4, <2>5, <2>6, Zenon DEF Handler
<1>11. CASE UNCHANGED pollVars
  <2>1. UNCHANGED <<hpc, sampled, polledAt, kts, queued, ppc>>
    BY <1>11, Zenon DEF pollVars, handlerVars
  <2>2. Owes(d)' = Owes(d)
    BY <2>1, Zenon DEF Owes, One, Away
  <2> QED BY <1>2, <2>1, <2>2, EntryFrame, Zenon
<1> QED
  BY <1>3, <1>4, <1>5, <1>6, <1>7, <1>8, <1>9, <1>10, <1>11
  DEF PollNext, PollStep

(* Before the first round every CPU is away and nothing is recorded.       *)
LEMMA PollInitHolds == PollInit => PollInv
<1> SUFFICES ASSUME PollInit PROVE PollInv
  OBVIOUS
<1>1. PollTypes
  BY DEF PollInit, PollTypes, PollCpus
<1>2. StampsInv /\ StampsMonotone
  BY DEF PollInit, StampsInv, StampsMonotone
<1>3. BarrierInv
  BY Zenon DEF PollInit, BarrierInv, Asked, Away
<1>4. EntriesInv
  BY DEF PollInit, EntriesInv, EntryInv, Owes, Away, One
<1> QED BY <1>1, <1>2, <1>3, <1>4, Zenon DEF PollInv

(* Every step of the poller and of a handler keeps the invariant.          *)
LEMMA PollInvStep == PollAssumption /\ PollInv /\ [PollNext]_pollVars => PollInv'
<1> SUFFICES ASSUME PollAssumption, PollInv, [PollNext]_pollVars PROVE PollInv'
  OBVIOUS
<1>1. (Timeouts' <=> Timeouts) /\ (AllocMayFail' <=> AllocMayFail)
  BY Zenon DEF PollNext, PollStep, Handler, RoundBegin, ResetStart, ResetDone, AllocFails, Send, SetStart,
         ReadyTimeout, OwnPoll, PollReturn, HandlerStart, HandlerTimeout, HandlerGo,
         HandlerSample, HandlerDone, HandlerEnqueue, pollVars, Timeouts, AllocMayFail
<1>2. PollTypes /\ PollTypes' /\ StampsInv' /\ StampsMonotone'
  BY PollTypesStep, StampsStep, Zenon DEF PollInv
<1>3. ~Timeouts => BarrierInv /\ BarrierInv'
  BY <1>2, BarrierStep, Zenon DEF PollInv
<1>4. ~Timeouts /\ ~AllocMayFail => EntriesInv'
  BY <1>2, <1>3, EntriesStep, Zenon DEF PollInv
<1> QED BY <1>1, <1>2, <1>3, <1>4, Zenon DEF PollInv

(* The invariant gives the property.                                       *)
LEMMA PollInvImplies == PollInv => RoundsSynchronous
<1> SUFFICES ASSUME PollInv PROVE RoundsSynchronous
  OBVIOUS
<1>1. ~Timeouts => Barrier
  BY SMTT(30) DEF PollInv, BarrierInv, Barrier, Asked, Away, PollTypes
<1>2. ASSUME ~Timeouts, ~AllocMayFail PROVE OneEntryPerRound
  <2>1. BarrierInv /\ EntriesInv
    BY <1>2, Zenon DEF PollInv
  <2> SUFFICES ASSUME NEW c \in PollCpus
               PROVE  /\ \A k \in DOMAIN polledAt[c] : polledAt[c][k] = k
                      /\ hpc[c] = "enqueue" => sampled[c] = Len(polledAt[c]) + 1
                      /\ ppc = "idle" => Len(polledAt[c]) + One(hpc[c] = "enqueue") = kts
    BY Zenon DEF OneEntryPerRound, One
  <2>2. EntryInv(c) /\ Len(polledAt[c]) \in Nat /\ One(hpc[c] = "enqueue") \in Nat
    BY <2>1 DEF EntriesInv, PollInv, PollTypes, One
  <2>3. ppc = "idle" => Owes(c) = 0
    BY <2>1, Zenon DEF BarrierInv, Asked, Owes, One
  <2> QED BY <2>2, <2>3 DEF EntryInv
<1> QED BY <1>1, <1>2, Zenon DEF PollInv, RoundsSynchronous

(* For any set of CPUs, in any of the builds: without timeouts no CPU      *)
(* samples before all have arrived, and if no allocation fails each        *)
(* records every round exactly once; whatever times out or fails, the time *)
(* stamps of a CPU never go backwards (smp_poll_pmus, hrperf_poller_func). *)
THEOREM PollCorrect == ASSUME PollAssumption PROVE PollSpec => []RoundsSynchronous
<1>1. PollInv /\ [PollNext]_pollVars => PollInv'
  BY PollInvStep, Zenon
<1> QED BY <1>1, PollInitHolds, PollInvImplies, PTL DEF PollSpec

-----------------------------------------------------------------------------
AnyEvents == [by : NetThreads, n : Nat, kind : Kinds]

BpfTypes ==
  /\ at \in [NetThreads -> {"idle", "start", "call", "end"}] /\ made \in [NetThreads -> Nat]
  /\ links \subseteq Kinds
  /\ ring \in Seq([ev : AnyEvents, submitted : BOOLEAN]) /\ log \in Seq(AnyEvents)
  /\ offset \in Nat
  /\ ringDropped \subseteq AnyEvents /\ refused \subseteq AnyEvents /\ IsFiniteSet(refused)

(* hrp_bpf_start and hrp_bpf_stop against the polling thread.              *)
StopInv ==
  /\ main = "start" => offset = 0 /\ poller = "none"
  /\ freed <=> main \in {"truncate", "stopped"}
  /\ main \in {"join", "free", "truncate", "stopped"} => ~bpfRunning
  /\ main = "stopped" => size = offset
  /\ FreedOnlyAfterStop

(* The last event of caller c that has happened, and whether e is it and   *)
(* its record not yet submitted.                                           *)
Reached(c) == 2 * made[c] + (IF at[c] \in {"idle", "end"} THEN 1 ELSE 0)
Happened(e) == Order(e) <= Reached(e.by)
Open(e) == at[e.by] = e.kind /\ made[e.by] = e.n

(* Order in the ring, in the log, and of the log before the ring; records  *)
(* are submitted unless their probe is still running.                      *)
OrderInv ==
  /\ \A i \in DOMAIN ring :
       Happened(ring[i].ev) /\ (ring[i].submitted <=> ~Open(ring[i].ev))
  /\ \A i \in DOMAIN log : Happened(log[i]) /\ ~Open(log[i])
  /\ \A e \in ringDropped \cup refused : Happened(e)
  /\ \A i, j \in DOMAIN ring :
       i < j /\ ring[i].ev.by = ring[j].ev.by => Order(ring[i].ev) < Order(ring[j].ev)
  /\ \A i, j \in DOMAIN log : i < j /\ log[i].by = log[j].by => Order(log[i]) < Order(log[j])
  /\ \A i \in DOMAIN log, j \in DOMAIN ring :
       log[i].by = ring[j].ev.by => Order(log[i]) < Order(ring[j].ev)

LostInv ==
  /\ \A i \in DOMAIN log : log[i] \notin ringDropped /\ log[i] \notin refused
  /\ \A i \in DOMAIN ring : ring[i].ev \notin ringDropped /\ ring[i].ev \notin refused

CountInv ==
  /\ offset = Len(log) + Cardinality(refused) /\ Len(log) <= LogSize
  /\ refused # {} => Len(log) = LogSize

BpfInv == BpfTypes /\ StopInv /\ OrderInv /\ LostInv /\ CountInv

-----------------------------------------------------------------------------
(* Before hrp_bpf_start nothing has happened.                              *)
LEMMA BpfInitHolds == ASSUME BpfAssumption PROVE BpfInit => BpfInv
<1> SUFFICES ASSUME BpfInit PROVE BpfInv
  OBVIOUS
<1>1. Cardinality({}) = 0 /\ IsFiniteSet({})
  BY FS_EmptySet, Zenon
<1>2. BpfTypes
  BY <1>1 DEF BpfInit, BpfTypes
<1>3. StopInv
  BY Zenon DEF BpfInit, StopInv, FreedOnlyAfterStop
<1>4. OrderInv /\ LostInv
  BY DEF BpfInit, OrderInv, LostInv
<1>5. CountInv
  BY <1>1 DEF BpfInit, CountInv, BpfAssumption
<1> QED BY <1>2, <1>3, <1>4, <1>5, Zenon DEF BpfInv

(* Every step keeps the order of stopping.                                 *)
LEMMA StopStep == StopInv /\ [BpfNext]_bpfVars => StopInv'
<1> SUFFICES ASSUME StopInv, [BpfNext]_bpfVars PROVE StopInv'
  OBVIOUS
<1> USE DEF StopInv, FreedOnlyAfterStop
<1>1. CASE BpfStart
  BY <1>1, Zenon DEF BpfStart
<1>2. CASE BpfStartFails
  BY <1>2, Zenon DEF BpfStartFails
<1>3. CASE Stop
  BY <1>3, Zenon DEF Stop
<1>4. CASE bpfFault = "none" /\ Join
  BY <1>4, Zenon DEF Join
<1>5. CASE FreeAll
  BY <1>5, Zenon DEF FreeAll
<1>6. CASE bpfFault = "none" /\ Truncate
  BY <1>6, Zenon DEF Truncate
<1>7. CASE bpfFault = "none" /\ (Polling \/ NewRing(FALSE))
  <2>1. CASE \E k \in Kinds : Attach(k)
    BY <2>1 DEF Attach
  <2>2. CASE NewRing(TRUE) \/ NewRing(FALSE)
    BY <2>2 DEF NewRing
  <2>3. CASE PollTest
    BY <1>7, <2>3, Zenon DEF PollTest
  <2>4. CASE Consume
    <3>1. /\ poller = "poll" /\ ~freed /\ UNCHANGED <<main, poller, bpfRunning, size, freed, bpfFault>>
      BY <2>4, Zenon DEF Consume
    <3>2. main \notin {"start", "stopped"}
      BY <3>1, Zenon
    <3> QED BY <3>1, <3>2, Zenon
  <2>5. CASE RingPollEnd
    BY <2>5, Zenon DEF RingPollEnd
  <2> QED BY <1>7, <2>1, <2>2, <2>3, <2>4, <2>5, Zenon DEF Polling
<1>8. CASE UseFreed
  BY <1>8, Zenon DEF UseFreed
<1>9. ASSUME NEW c \in NetThreads, Caller(c) PROVE StopInv'
  BY <1>9 DEF Caller, CallBegins, CallEnds, Submit
<1>10. CASE BpfFinished \/ UNCHANGED bpfVars
  BY <1>10 DEF BpfFinished, bpfVars
<1> QED BY <1>1, <1>2, <1>3, <1>4, <1>5, <1>6, <1>7, <1>8, <1>9, <1>10, Zenon DEF BpfNext, Main

-----------------------------------------------------------------------------
(* Whatever is in the ring, in the log or lost is an event.                *)
LEMMA EventTypes ==
  ASSUME BpfTypes
  PROVE  /\ \A i \in DOMAIN ring : ring[i].ev \in AnyEvents /\ ring[i].submitted \in BOOLEAN
         /\ \A i \in DOMAIN log : log[i] \in AnyEvents
         /\ \A x \in ringDropped \cup refused : x \in AnyEvents
<1> DEFINE R == [ev : AnyEvents, submitted : BOOLEAN]
<1>1. \A r \in R : r.ev \in AnyEvents /\ r.submitted \in BOOLEAN
  OBVIOUS
<1>2. ring \in Seq(R) /\ log \in Seq(AnyEvents)
  BY Zenon DEF BpfTypes
<1> HIDE DEF R
<1>3. \A i \in DOMAIN ring : ring[i] \in R
  BY <1>2
<1>4. \A i \in DOMAIN log : log[i] \in AnyEvents
  BY <1>2
<1>5. \A x \in ringDropped \cup refused : x \in AnyEvents
  BY Zenon DEF BpfTypes
<1> QED BY <1>1, <1>3, <1>4, <1>5, Zenon

(* Steps that touch no event.                                              *)
LEMMA EventsAside ==
  ASSUME BpfTypes, OrderInv, LostInv, CountInv, links' \subseteq Kinds, offset' = offset,
         UNCHANGED <<at, made, ring, log, bpfLost>>
  PROVE  BpfTypes' /\ OrderInv' /\ LostInv' /\ CountInv'
<1>1. /\ UNCHANGED <<at, made, ring, log, ringDropped, refused, offset>>
  BY Zenon DEF bpfLost
<1>2. \A e : (Happened(e)' <=> Happened(e)) /\ (Open(e)' <=> Open(e))
  BY <1>1, Zenon DEF Happened, Reached, Open
<1>3. BpfTypes'
  BY <1>1, Zenon DEF BpfTypes
<1>4. OrderInv'
  BY <1>1, <1>2, Zenon DEF OrderInv
<1> QED BY <1>1, <1>3, <1>4, Zenon DEF LostInv, CountInv

(* A probe's event comes after all events of its caller so far.            *)
LEMMA EventKeeps ==
  ASSUME BpfTypes, OrderInv, LostInv, NEW c \in NetThreads, NEW e \in AnyEvents, e.by = c,
         at[c] \notin Kinds, Order(e) = Reached(c)', Reached(c)' > Reached(c), Open(e)',
         \A d \in NetThreads : d # c => at'[d] = at[d] /\ made'[d] = made[d],
         UNCHANGED <<log, refused>>,
         \/ UNCHANGED <<ring, ringDropped>>
         \/ ring' = Append(ring, [ev |-> e, submitted |-> FALSE]) /\ ringDropped' = ringDropped
         \/ ring' = ring /\ ringDropped' = ringDropped \cup {e}
  PROVE  OrderInv' /\ LostInv'
<1>1. ASSUME NEW x \in AnyEvents, Happened(x)
      PROVE  Happened(x)' /\ (Open(x)' <=> Open(x)) /\ x # e /\ (x.by = c => Order(x) < Order(e))
  <2>1. CASE x.by = c
    <3>1. Order(x) <= Reached(c) /\ Order(x) \in Nat /\ Reached(c) \in Nat /\ Order(e) \in Nat
      BY <1>1, <2>1, SMTT(30) DEF Happened, AnyEvents, Order, Reached, BpfTypes
    <3>2. Order(x) < Order(e) /\ Happened(x)' /\ x # e
      BY <2>1, <3>1 DEF Happened
    <3>3. ~Open(x)
      BY <2>1, Zenon DEF Open, AnyEvents
    <3>4. ~Open(x)'
      <4>1. SUFFICES ASSUME Open(x)' PROVE FALSE
        OBVIOUS
      <4>2. x.kind = e.kind /\ x.n = e.n
        BY <2>1, <4>1 DEF Open
      <4> QED BY <3>2, <3>1, <4>2 DEF Order
    <3> QED BY <3>2, <3>3, <3>4
  <2>2. CASE x.by # c
    BY <1>1, <2>2, Zenon DEF Happened, Reached, Open, AnyEvents
  <2> QED BY <2>1, <2>2, Zenon
<1>2. Happened(e)'
  BY DEF Happened, AnyEvents, Order
<1>3. /\ \A i \in DOMAIN ring : ring[i].ev \in AnyEvents /\ ring[i].submitted \in BOOLEAN
      /\ \A i \in DOMAIN log : log[i] \in AnyEvents
      /\ \A x \in ringDropped \cup refused : x \in AnyEvents
  BY EventTypes, Zenon
<1>4. CASE UNCHANGED <<ring, ringDropped>>
  <2>1. /\ \A i \in DOMAIN ring :
             Happened(ring[i].ev)' /\ (ring[i].submitted <=> ~Open(ring[i].ev)')
        /\ \A i \in DOMAIN log : Happened(log[i])' /\ ~Open(log[i])'
        /\ \A x \in ringDropped \cup refused : Happened(x)'
    BY <1>1, <1>3, <1>4, Zenon DEF OrderInv
  <2> QED BY <1>4, <2>1 DEF OrderInv, LostInv
<1>5. CASE ring' = Append(ring, [ev |-> e, submitted |-> FALSE]) /\ ringDropped' = ringDropped
  <2> DEFINE L == Len(ring)
  <2>1. /\ L \in Nat /\ DOMAIN ring = 1 .. L /\ DOMAIN ring' = 1 .. (L + 1)
        /\ \A i \in 1 .. L : ring'[i] = ring[i]
        /\ ring'[L + 1].ev = e /\ ring'[L + 1].submitted = FALSE
    BY <1>5 DEF BpfTypes
  <2> HIDE DEF L
  <2>2. ASSUME NEW i \in DOMAIN ring'
        PROVE  (i \in DOMAIN ring /\ ring'[i] = ring[i]) \/ (i = L + 1 /\ i \notin DOMAIN ring)
    BY <2>1, SMTT(30)
  <2>3. \A i \in DOMAIN ring' :
           Happened(ring[i].ev)' /\ (ring'[i].submitted <=> ~Open(ring[i].ev)')
    BY <1>1, <1>2, <1>3, <2>1, <2>2, SMTT(30) DEF OrderInv
  <2>4. \A i \in DOMAIN log : Happened(log[i])' /\ ~Open(log[i])'
    BY <1>1, <1>3 DEF OrderInv
  <2>5. \A x \in ringDropped \cup refused : Happened(x)'
    BY <1>1, <1>3, Zenon DEF OrderInv
  <2>6. ASSUME NEW i \in DOMAIN ring', NEW j \in DOMAIN ring', i < j,
               ring'[i].ev.by = ring'[j].ev.by
        PROVE  Order(ring'[i].ev) < Order(ring'[j].ev)
    <3>1. i \in DOMAIN ring /\ ring'[i] = ring[i]
      BY <2>1, <2>6, SMTT(30)
    <3>2. CASE j \in DOMAIN ring
      BY <2>1, <2>2, <2>6, <3>1, <3>2, SMTT(30) DEF OrderInv
    <3>3. CASE j = L + 1
      BY <1>1, <1>3, <2>1, <2>6, <3>1, <3>3, SMTT(30) DEF OrderInv
    <3> QED BY <2>2, <3>2, <3>3, Zenon
  <2>7. ASSUME NEW i \in DOMAIN log, NEW j \in DOMAIN ring', log[i].by = ring'[j].ev.by
        PROVE  Order(log[i]) < Order(ring'[j].ev)
    BY <1>1, <1>3, <2>1, <2>2, <2>7, SMTT(30) DEF OrderInv
  <2>8. OrderInv'
    BY <1>5, <2>3, <2>4, <2>5, <2>6, <2>7, SMTT(30) DEF OrderInv
  <2>9. \A i \in DOMAIN ring' : ring'[i].ev \notin ringDropped /\ ring'[i].ev \notin refused
    BY <1>1, <1>3, <2>1, <2>2, SMTT(30) DEF OrderInv, LostInv
  <2> QED BY <1>5, <2>8, <2>9, Zenon DEF LostInv
<1>6. CASE ring' = ring /\ ringDropped' = ringDropped \cup {e}
  BY <1>1, <1>2, <1>3, <1>6 DEF OrderInv, LostInv
<1> QED BY <1>4, <1>5, <1>6, Zenon

(* bpf_ringbuf_submit closes the records of its caller, and no other.      *)
LEMMA SubmitKeeps ==
  ASSUME BpfTypes, OrderInv, LostInv, NEW c \in NetThreads, Submit(c)
  PROVE  BpfTypes' /\ OrderInv' /\ LostInv'
<1>1. /\ at[c] \in Kinds /\ UNCHANGED <<made, log, ringDropped, refused, links, offset>>
      /\ at' = [at EXCEPT ![c] = IF at[c] = "start" THEN "call" ELSE "idle"]
      /\ \A d \in NetThreads : d # c => at'[d] = at[d]
      /\ at'[c] \notin Kinds
  BY Zenon DEF Submit, bpfLost, BpfTypes, Kinds
<1>2. /\ ring' \in Seq([ev : AnyEvents, submitted : BOOLEAN]) /\ DOMAIN ring' = DOMAIN ring
      /\ \A i \in DOMAIN ring : /\ ring'[i].ev = ring[i].ev
                                /\ ring[i].ev.by = c => ring'[i].submitted = TRUE
                                /\ ring[i].ev.by # c => ring'[i] = ring[i]
  <2> DEFINE R == [ev : AnyEvents, submitted : BOOLEAN]
  <2>1. \A r \in R : /\ [r EXCEPT !.submitted = TRUE] \in R
                     /\ [r EXCEPT !.submitted = TRUE].ev = r.ev
                     /\ [r EXCEPT !.submitted = TRUE].submitted = TRUE
    BY Zenon
  <2>2. ring \in Seq(R)
    BY Zenon DEF BpfTypes
  <2> HIDE DEF R
  <2>3. Len(ring) \in Nat /\ DOMAIN ring = 1 .. Len(ring) /\ \A i \in DOMAIN ring : ring[i] \in R
    BY <2>2
  <2>4. ring' = [i \in 1 .. Len(ring) |->
                   IF ring[i].ev.by = c THEN [ring[i] EXCEPT !.submitted = TRUE] ELSE ring[i]]
    BY <2>3, Zenon DEF Submit
  <2>5. \A i \in 1 .. Len(ring) : ring'[i] \in R
    BY <2>1, <2>3, <2>4, Zenon
  <2>6. ring' \in Seq(R) /\ DOMAIN ring' = DOMAIN ring
    BY <2>3, <2>4, <2>5
  <2>7. ASSUME NEW i \in DOMAIN ring
        PROVE  /\ ring'[i].ev = ring[i].ev
               /\ ring[i].ev.by = c => ring'[i].submitted = TRUE
               /\ ring[i].ev.by # c => ring'[i] = ring[i]
    BY <2>1, <2>3, <2>4, SMTT(30)
  <2> QED BY <2>6, <2>7, Zenon DEF R
<1>3. BpfTypes'
  BY <1>1, <1>2 DEF BpfTypes
<1>4. ASSUME NEW x \in AnyEvents
      PROVE  /\ Happened(x)' <=> Happened(x)
             /\ Open(x)' <=> Open(x) /\ x.by # c
  <2>1. Reached(x.by)' = Reached(x.by)
    BY <1>1, Zenon DEF Reached, BpfTypes, AnyEvents, Kinds
  <2> QED BY <1>1, <2>1, Zenon DEF Happened, Open, AnyEvents
<1>5. /\ \A i \in DOMAIN ring : ring[i].ev \in AnyEvents /\ ring[i].submitted \in BOOLEAN
      /\ \A i \in DOMAIN log : log[i] \in AnyEvents
      /\ \A x \in ringDropped \cup refused : x \in AnyEvents
  BY EventTypes, Zenon
<1>6. \A i \in DOMAIN ring' : Happened(ring[i].ev)' /\ (ring'[i].submitted <=> ~Open(ring[i].ev)')
  BY <1>2, <1>4, <1>5 DEF OrderInv
<1>7. /\ \A i \in DOMAIN log' : Happened(log[i])' /\ ~Open(log[i])'
      /\ \A x \in ringDropped \cup refused : Happened(x)'
  <2>1. \A i \in DOMAIN log : Happened(log[i])' /\ ~Open(log[i])'
    BY <1>1, <1>4, <1>5, Zenon DEF OrderInv
  <2>2. \A x \in ringDropped \cup refused : Happened(x)'
    BY <1>4, <1>5, SMTT(30) DEF OrderInv
  <2> QED BY <1>1, <2>1, <2>2, Zenon
<1>8. OrderInv'
  BY <1>1, <1>2, <1>6, <1>7 DEF OrderInv
<1> QED BY <1>1, <1>2, <1>3, <1>8, Zenon DEF LostInv

(* ring_buffer__poll moves the oldest record behind everything logged, or  *)
(* among those refused.                                                    *)
LEMMA ConsumeKeeps ==
  ASSUME BpfAssumption, BpfTypes, OrderInv, LostInv, CountInv, Consume
  PROVE  BpfTypes' /\ OrderInv' /\ LostInv' /\ CountInv'
<1> DEFINE e == ring[1].ev
           L == Len(ring)
           M == Len(log)
<1>1. /\ L \in Nat /\ L >= 1 /\ DOMAIN ring = 1 .. L /\ Head(ring) = ring[1]
      /\ ring' = Tail(ring) /\ ring' \in Seq([ev : AnyEvents, submitted : BOOLEAN])
      /\ DOMAIN ring' = 1 .. (L - 1) /\ \A i \in 1 .. (L - 1) : ring'[i] = ring[i + 1]
  BY DEF Consume, BpfTypes
<1>2. /\ ring[1].submitted /\ Callback(e) /\ e \in AnyEvents
      /\ UNCHANGED <<at, made, links, ringDropped>>
  BY <1>1, EventTypes DEF Consume, netVars
<1>3. M \in Nat /\ DOMAIN log = 1 .. M /\ offset \in Nat /\ LogSize \in Nat
  BY DEF BpfTypes, BpfAssumption
<1>4. /\ \A i \in DOMAIN ring : ring[i].ev \in AnyEvents /\ ring[i].submitted \in BOOLEAN
      /\ \A i \in DOMAIN log : log[i] \in AnyEvents
      /\ \A x \in ringDropped \cup refused : x \in AnyEvents
  BY EventTypes, Zenon
<1>5. /\ Happened(e) /\ ~Open(e) /\ e \notin ringDropped /\ e \notin refused
      /\ \A i \in 2 .. L : e.by = ring[i].ev.by => Order(e) < Order(ring[i].ev)
      /\ \A i \in DOMAIN log : log[i].by = e.by => Order(log[i]) < Order(e)
  BY <1>1, <1>2, SMTT(30) DEF OrderInv, LostInv
<1>6. \A x \in AnyEvents : Order(x) \in Int
  BY DEF AnyEvents, Order
<1>7. /\ \A i \in 2 .. L : e # ring[i].ev
      /\ \A i \in DOMAIN log : log[i] # e
  BY <1>1, <1>2, <1>4, <1>5, <1>6, SMTT(30)
<1> HIDE DEF e, L, M
<1>8. \A x : (Happened(x)' <=> Happened(x)) /\ (Open(x)' <=> Open(x))
  BY <1>2, Zenon DEF Happened, Reached, Open
<1>9. \A i \in DOMAIN ring' : i + 1 \in DOMAIN ring /\ ring'[i] = ring[i + 1] /\ i + 1 \in 2 .. L
  BY <1>1
<1>10. /\ \A i \in DOMAIN ring' :
            /\ Happened(ring[i].ev)' /\ (ring'[i].submitted <=> ~Open(ring[i].ev)')
            /\ ring'[i].ev \notin ringDropped /\ ring'[i].ev \notin refused /\ ring'[i].ev # e
       /\ \A i, j \in DOMAIN ring' :
            i < j /\ ring'[i].ev.by = ring'[j].ev.by => Order(ring'[i].ev) < Order(ring'[j].ev)
       /\ \A i \in DOMAIN log, j \in DOMAIN ring' :
            log[i].by = ring'[j].ev.by => Order(log[i]) < Order(ring'[j].ev)
       /\ \A j \in DOMAIN ring' : e.by = ring'[j].ev.by => Order(e) < Order(ring'[j].ev)
  <2>1. \A i \in DOMAIN ring' :
            /\ Happened(ring[i].ev)' /\ (ring'[i].submitted <=> ~Open(ring[i].ev)')
            /\ ring'[i].ev \notin ringDropped /\ ring'[i].ev \notin refused /\ ring'[i].ev # e
    BY <1>5, <1>7, <1>8, <1>9 DEF OrderInv, LostInv
  <2>2. ASSUME NEW i \in DOMAIN ring', NEW j \in DOMAIN ring', i < j,
               ring'[i].ev.by = ring'[j].ev.by
        PROVE  Order(ring'[i].ev) < Order(ring'[j].ev)
    <3>1. i + 1 < j + 1
      BY <1>1, <2>2
    <3> QED BY <1>9, <2>2, <3>1 DEF OrderInv
  <2>3. \A i \in DOMAIN log, j \in DOMAIN ring' :
            log[i].by = ring'[j].ev.by => Order(log[i]) < Order(ring'[j].ev)
    BY <1>9 DEF OrderInv
  <2>4. \A j \in DOMAIN ring' : e.by = ring'[j].ev.by => Order(e) < Order(ring'[j].ev)
    BY <1>5, <1>9, Zenon
  <2> QED BY <2>1, <2>2, <2>3, <2>4, Zenon
<1>11. CASE offset < LogSize
  <2>1. log' = Append(log, e) /\ refused' = refused /\ offset' = offset + 1
    BY <1>2, <1>11, SMTT(30) DEF Callback
  <2>2. /\ log' \in Seq(AnyEvents) /\ DOMAIN log' = 1 .. (M + 1) /\ log'[M + 1] = e /\ Len(log') = M + 1
        /\ \A i \in 1 .. M : log'[i] = log[i]
    BY <1>2, <2>1 DEF BpfTypes, M
  <2>3. \A i \in DOMAIN log' : (i \in DOMAIN log /\ log'[i] = log[i]) \/ (i = M + 1 /\ log'[i] = e)
    BY <1>3, <2>2
  <2>4. BpfTypes'
    BY <1>1, <1>2, <1>3, <2>1, <2>2, SMTT(30) DEF BpfTypes
  <2>5. \A i \in DOMAIN log' :
          Happened(log[i])' /\ ~Open(log[i])' /\ log'[i] \notin ringDropped /\ log'[i] \notin refused
    BY <1>5, <1>8, <2>3 DEF OrderInv, LostInv
  <2>6. ASSUME NEW i \in DOMAIN log', NEW j \in DOMAIN log', i < j, log'[i].by = log'[j].by
        PROVE  Order(log'[i]) < Order(log'[j])
    <3>1. i \in DOMAIN log /\ log'[i] = log[i]
      BY <1>3, <2>2, <2>6
    <3>2. CASE j \in DOMAIN log /\ log'[j] = log[j]
      BY <2>6, <3>1, <3>2, Zenon DEF OrderInv
    <3>3. CASE log'[j] = e
      BY <1>5, <2>6, <3>1, <3>3, SMTT(30)
    <3> QED BY <2>3, <3>2, <3>3, Zenon
  <2>7. \A i \in DOMAIN log', j \in DOMAIN ring' :
            log'[i].by = ring'[j].ev.by => Order(log'[i]) < Order(ring'[j].ev)
    BY <1>10, <2>3, SMTT(30)
  <2>8. \A x \in ringDropped \cup refused : Happened(x)'
    BY <1>8, SMTT(30) DEF OrderInv
  <2>9. OrderInv'
    BY <1>2, <1>10, <2>1, <2>5, <2>6, <2>7, <2>8, SMTT(30) DEF OrderInv
  <2>10. LostInv'
    BY <1>2, <1>10, <2>1, <2>5, Zenon DEF LostInv
  <2>11. CountInv'
    <3>1. Cardinality(refused) \in Nat
      BY FS_CardinalityType, Zenon DEF BpfTypes
    <3>2. Len(log') = Len(log) + 1 /\ Len(log) \in Nat
      BY <1>3, <2>2, Zenon DEF M
    <3> QED BY <1>3, <1>11, <2>1, <3>1, <3>2 DEF CountInv
  <2> QED BY <2>4, <2>9, <2>10, <2>11
<1>12. CASE ~(offset < LogSize)
  <2>1. log' = log /\ refused' = refused \cup {e} /\ offset' = offset + 1
    BY <1>2, <1>12, Zenon DEF Callback
  <2>2. /\ IsFiniteSet(refused') /\ Cardinality(refused') = Cardinality(refused) + 1
        /\ Cardinality(refused) \in Nat
    BY <1>5, <2>1, FS_AddElement, FS_CardinalityType, Zenon DEF BpfTypes
  <2>3. BpfTypes'
    BY <1>1, <1>2, <1>3, <2>1, <2>2, SMTT(30) DEF BpfTypes
  <2>4. OrderInv'
    <3>1. /\ \A i \in DOMAIN log : Happened(log[i])' /\ ~Open(log[i])'
          /\ \A x \in ringDropped \cup refused \cup {e} : Happened(x)'
      BY <1>5, <1>8, <2>1, Zenon DEF OrderInv
    <3>2. \A i \in DOMAIN log' : Happened(log[i])' /\ ~Open(log[i])'
      BY <2>1, <3>1, Zenon
    <3>3. \A x \in (ringDropped \cup refused)' : Happened(x)'
      BY <1>2, <2>1, <3>1
    <3>4. \A i, j \in DOMAIN log' :
            i < j /\ log'[i].by = log'[j].by => Order(log'[i]) < Order(log'[j])
      BY <2>1, Zenon DEF OrderInv
    <3>5. \A i \in DOMAIN log', j \in DOMAIN ring' :
            log'[i].by = ring'[j].ev.by => Order(log'[i]) < Order(ring'[j].ev)
      BY <1>10, <2>1, Zenon
    <3> QED BY <1>10, <3>2, <3>3, <3>4, <3>5, Zenon DEF OrderInv, Order
  <2>5. LostInv'
    BY <1>2, <1>7, <1>10, <2>1, Zenon DEF LostInv
  <2>6. CountInv'
    <3>1. refused = {} => Cardinality(refused) = 0
      BY FS_EmptySet, Zenon
    <3>2. Len(log) \in Nat
      BY <1>3, Zenon DEF M
    <3> QED BY <1>3, <1>12, <2>1, <2>2, <3>1, <3>2 DEF CountInv
  <2> QED BY <2>3, <2>4, <2>5, <2>6, Zenon
<1> QED BY <1>11, <1>12, Zenon

(* bpf_ringbuf_reserve at the start or the end of a call.                  *)
LEMMA ReserveKeeps ==
  ASSUME BpfTypes, OrderInv, LostInv, NEW c \in NetThreads, NEW k \in Kinds,
         \/ k = "start" /\ at[c] = "idle" /\ made' = [made EXCEPT ![c] = @ + 1]
         \/ k = "end" /\ at[c] = "call" /\ made' = made,
         at' = [at EXCEPT ![c] = k], Reserve(c, k), UNCHANGED <<links, log, offset, refused>>
  PROVE  BpfTypes' /\ OrderInv' /\ LostInv'
<1>1. /\ at' \in [NetThreads -> {"idle", "start", "call", "end"}] /\ made' \in [NetThreads -> Nat]
      /\ \A d \in NetThreads : d # c => at'[d] = at[d] /\ made'[d] = made[d]
      /\ at'[c] = k /\ made[c] \in Nat /\ at[c] \notin Kinds
      /\ made'[c] = IF k = "start" THEN made[c] + 1 ELSE made[c]
  BY DEF BpfTypes, Kinds
<1>2. PICK e \in AnyEvents : e = [by |-> c, n |-> made'[c], kind |-> k]
  BY <1>1, Zenon DEF AnyEvents
<1>3. e.by = c /\ e.n = made'[c] /\ e.kind = k
  BY <1>2, Zenon
<1>4. \/ UNCHANGED <<ring, ringDropped>>
      \/ ring' = Append(ring, [ev |-> e, submitted |-> FALSE]) /\ ringDropped' = ringDropped
      \/ ring' = ring /\ ringDropped' = ringDropped \cup {e}
  BY <1>2, Zenon DEF Reserve, Event
<1>5. Order(e) = Reached(c)' /\ Reached(c)' > Reached(c)
  BY <1>1, <1>3 DEF Order, Reached, Kinds
<1>6. Open(e)'
  BY <1>1, <1>3, Zenon DEF Open
<1>7. BpfTypes'
  <2>1. ASSUME ring' = Append(ring, [ev |-> e, submitted |-> FALSE])
        PROVE  ring' \in Seq([ev : AnyEvents, submitted : BOOLEAN])
    BY <2>1 DEF BpfTypes
  <2> QED BY <1>1, <1>4, <2>1, Zenon DEF BpfTypes
<1>8. OrderInv' /\ LostInv'
  BY <1>1, <1>3, <1>4, <1>5, <1>6, EventKeeps, Zenon
<1> QED BY <1>7, <1>8, Zenon

(* Every step of a probe, the polling thread and the caller of the API     *)
(* keeps the invariant.                                                    *)
LEMMA BpfStep ==
  ASSUME BpfAssumption PROVE BpfInv /\ [BpfNext]_bpfVars => BpfInv'
<1> SUFFICES ASSUME BpfInv, [BpfNext]_bpfVars PROVE BpfInv'
  OBVIOUS
<1>1. StopInv' /\ StopInv /\ BpfTypes /\ OrderInv /\ LostInv /\ CountInv
  BY StopStep, Zenon DEF BpfInv
<1>2. links \subseteq Kinds
  BY <1>1, Zenon DEF BpfTypes
<1>3. CASE Main \/ BpfStartFails
  <2>1. /\ UNCHANGED <<at, made, ring, log, bpfLost>> /\ offset' = offset
        /\ links' = links \/ links' = {}
    BY <1>1, <1>3, Zenon DEF Main, BpfStart, BpfStartFails, Stop, Join, FreeAll, Truncate, netVars, StopInv
  <2> QED BY <1>1, <1>2, <2>1, EventsAside, Zenon DEF BpfInv
<1>4. CASE (\E k \in Kinds : Attach(k)) \/ NewRing(TRUE) \/ NewRing(FALSE) \/ PollTest \/ RingPollEnd
           \/ UseFreed
  <2>1. /\ UNCHANGED <<at, made, ring, log, bpfLost, offset>> /\ links' \subseteq Kinds
    BY <1>2, <1>4, Zenon DEF Attach, NewRing, PollTest, RingPollEnd, UseFreed, netVars
  <2> QED BY <1>1, <2>1, EventsAside, Zenon DEF BpfInv
<1>5. CASE Consume
  BY <1>1, <1>5, ConsumeKeeps, Zenon DEF BpfInv
<1>6. ASSUME NEW c \in NetThreads, Caller(c) PROVE BpfInv'
  <2>1. UNCHANGED <<log, offset, refused>>
    BY <1>6, Zenon DEF Caller, CallBegins, CallEnds, Submit, bpfLost
  <2>2. CountInv'
    BY <1>1, <2>1, Zenon DEF CountInv
  <2>3. BpfTypes' /\ OrderInv' /\ LostInv'
    <3>1. CASE CallBegins(c)
      BY <1>1, <3>1, ReserveKeeps, Zenon DEF CallBegins, Kinds
    <3>2. CASE CallEnds(c)
      BY <1>1, <3>2, ReserveKeeps, Zenon DEF CallEnds, Kinds
    <3> QED BY <1>1, <1>6, <3>1, <3>2, SubmitKeeps, Zenon DEF Caller
  <2> QED BY <1>1, <2>2, <2>3, Zenon DEF BpfInv
<1>7. CASE BpfFinished \/ UNCHANGED bpfVars
  BY <1>1, <1>2, <1>7, EventsAside, Zenon DEF BpfFinished, bpfVars, bpfLost, BpfInv
<1> QED BY <1>3, <1>4, <1>5, <1>6, <1>7, Zenon DEF BpfNext, Polling

(* The invariant gives the property.                                       *)
LEMMA BpfInvImplies == BpfInv => EventsInLog
<1> SUFFICES ASSUME BpfInv PROVE EventsInLog
  OBVIOUS
<1>1. /\ \A i \in DOMAIN ring : ring[i].ev \in AnyEvents /\ ring[i].submitted \in BOOLEAN
      /\ \A i \in DOMAIN log : log[i] \in AnyEvents
      /\ \A x \in ringDropped \cup refused : x \in AnyEvents
  BY EventTypes, Zenon DEF BpfInv
<1>2. LogInCallOrder
  BY Zenon DEF BpfInv, OrderInv, LogInCallOrder, Open
<1>3. EventsAccounted
  <2>1. \A x \in AnyEvents : Order(x) \in Int
    BY DEF AnyEvents, Order
  <2>2. \A i \in DOMAIN log, j \in DOMAIN ring : log[i] # ring[j].ev
    BY <1>1, <2>1 DEF BpfInv, OrderInv
  <2>3. \A r \in Range(ring) : \E j \in DOMAIN ring : r = ring[j]
    BY Zenon DEF Range
  <2>4. \A x \in Range(log) : \E i \in DOMAIN log : x = log[i]
    BY Zenon DEF Range
  <2>5. {r.ev : r \in Range(ring)} \cap Range(log) = {}
    BY <2>2, <2>3, <2>4
  <2>6. ringDropped \cap (Range(log) \cup {r.ev : r \in Range(ring)}) = {}
    BY <2>3, <2>4 DEF BpfInv, LostInv
  <2>7. refused \cap (Range(log) \cup {r.ev : r \in Range(ring)}) = {}
    BY <2>3, <2>4 DEF BpfInv, LostInv
  <2> QED BY <2>5, <2>6, <2>7, Zenon DEF BpfInv, CountInv, EventsAccounted
<1>4. FileHoldsTheLog /\ FreedOnlyAfterStop
  BY Zenon DEF BpfInv, StopInv, CountInv, FileHoldsTheLog
<1> QED BY <1>2, <1>3, <1>4, Zenon DEF EventsInLog

(* For any number of threads and calls and any size of the ring buffer and *)
(* of the log: the log has each caller's events in order and complete, no  *)
(* event vanishes uncounted, and freed memory is used only by the thread   *)
(* that outlives hrp_bpf_stop (io/log.c, io/hrp_bpf_api.c).                *)
THEOREM BpfCorrect == ASSUME BpfAssumption PROVE BpfSpec => []EventsInLog
<1>1. BpfInit => BpfInv
  BY BpfInitHolds, Zenon
<1>2. BpfInv /\ [BpfNext]_bpfVars => BpfInv'
  BY BpfStep, Zenon
<1> QED BY <1>1, <1>2, BpfInvImplies, PTL DEF BpfSpec

=============================================================================
