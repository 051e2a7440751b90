------------------------------ MODULE MCApps -------------------------------
(***************************************************************************)
(* The programs that are measured, each on its own: job says which one a   *)
(* behaviour runs, the variables of the others keep their initial values.  *)
(***************************************************************************)
EXTENDS Integers, Sequences

CONSTANTS Contents, CoarseMax, FineMax, NThreads, PerQueue, AnchorBatch, Batch, \* DedupPipeline
          QDepth, PoolSize,                                              \* FerretPipeline
          Nproc, ChunkSize, Kmin, Kmax, CenterSize, Iter, SP,            \* StreamCluster
          SbWorkers, RingCap, GenMax, CountMax,                          \* Sysbench
          LcProcs, LcPerServer, LcWork,                                  \* LuceneBench
          CnThreads, CnMoves,                                            \* Canneal
          SwMaxThreads, SwMaxSwaptions                                   \* Swaptions

\* Directories for ferret: leaves that are images, cannot be opened or are gone, and nested ones.
Leaf(x) == [kind |-> x, sub |-> << >>]
Dir(s) == [kind |-> "dir", sub |-> s]
image == Leaf("image")
Trees ==
  {<< >>,
   <<image, Dir(<<image, Leaf("gone"), image>>), image>>,
   <<Leaf("locked"), Dir(<<image>>), image, Leaf("gone"), image>>}

\* Points on a line for streamcluster, and the one permutation its generator draws.
Streams == {<<0, 32, 96>>, <<0, 64, 64, 128>>, <<0, 32, 64, 128, 32>>}
Shuffle(n) == {[i \in 0..(n - 1) |-> (i + 1) % n]}

\* Command lines of sysbench: event limit, warmup, time limit, rate mode, forced shutdown.
Options(rate, limit, timed, warmup, forced, reports) ==
  [rate |-> rate, limit |-> limit, timed |-> timed, warmup |-> warmup, forced |-> forced,
   reports |-> reports]
SbOptions ==
  {Options(FALSE, 2, FALSE, FALSE, FALSE, TRUE), Options(FALSE, 2, FALSE, TRUE, FALSE, FALSE),
   Options(FALSE, 0, TRUE, FALSE, FALSE, FALSE), Options(TRUE, 0, TRUE, FALSE, TRUE, FALSE),
   Options(TRUE, 2, TRUE, FALSE, FALSE, TRUE)}

\* Term files of the Lucene server and its client.
LcFiles == {<<"good", "good">>, <<"good", "nonumber", "badnumber">>, <<"good", "empty">>}

\* canneal until convergence, and for two temperatures.
CnSteps == {-1, 2}

VARIABLES
  job,
  input, encoding, frag, que, terms, pc, recv, send, dups, cache, zipped, flushed, reorder,
  tree, next, perAnchor, file,
  phase, monitored, dirTree, path, frames, loaded, qs, signals, held, gone, lines, outEnded,
  scRun, src, nread, centers, pts, isC, k, kfinal, open, ci, costs, total, feas, hizs, ctab,
  lows, glLow, switches, glCost, glClose, tpc, loc, printed,
  opt, sbMain, recording, wpc, rc, repReady, sbError, nevents, maxEvents, conc, expired, ring,
  gen, generated, ran, reported,
  lcFile, lcProc, lcIndexed, lcRec, lcMain, lcDialed, lcpc, lcAsleep, lcReady, lcStart, lcUnit,
  lcConn, lcReq, lcResp, lcResult,
  cnSteps, cnGoing, cnpc, cnDone, cnGood, cnBad, cnLeft, cnRec,
  swN, swThreads, swNext, swPriced, swMain

Dedup == INSTANCE DedupPipeline
Ferret == INSTANCE FerretPipeline
Stream == INSTANCE StreamCluster
Sys == INSTANCE Sysbench
Lucene == INSTANCE LuceneBench
Can == INSTANCE Canneal
Swap == INSTANCE Swaptions

dedupVars == <<input, encoding, frag, que, terms, pc, recv, send, dups, cache, zipped, flushed,
               reorder, tree, next, perAnchor, file>>
ferretVars == <<phase, monitored, dirTree, path, frames, loaded, qs, signals, held, gone, lines,
                outEnded>>
streamVars == <<scRun, src, nread, centers, pts, isC, k, kfinal, open, ci, costs, total, feas,
                hizs, ctab, lows, glLow, switches, glCost, glClose, tpc, loc, printed>>
sysVars == <<opt, sbMain, recording, wpc, rc, repReady, sbError, nevents, maxEvents, conc,
             expired, ring, gen, generated, ran, reported>>
luceneVars == <<lcFile, lcProc, lcIndexed, lcRec, lcMain, lcDialed, lcpc, lcAsleep, lcReady,
                lcStart, lcUnit, lcConn, lcReq, lcResp, lcResult>>
canVars == <<cnSteps, cnGoing, cnpc, cnDone, cnGood, cnBad, cnLeft, cnRec>>
swapVars == <<swN, swThreads, swNext, swPriced, swMain>>
vars == <<job, dedupVars, ferretVars, streamVars, sysVars, luceneVars, canVars, swapVars>>

\* The inputs of a program that is not run do not matter: they are fixed.
Init ==
  /\ job \in {"dedup", "ferret", "stream", "sysbench", "lucene", "canneal", "swaptions"}
  /\ Dedup!Init
  /\ Ferret!Init
  /\ Stream!Init
  /\ Sys!Init
  /\ Lucene!Init /\ (job # "lucene" => lcFile = <<"good", "good">>)
  /\ Can!Init /\ (job # "canneal" => cnSteps = -1)
  /\ Swap!Init /\ (job # "swaptions" => swN = 0 /\ swThreads = 0)

DedupDoes(A) ==
  job = "dedup" /\ A /\ UNCHANGED <<job, ferretVars, streamVars, sysVars, luceneVars, canVars,
                                    swapVars>>

RunDedup == DedupDoes(Dedup!Next)

FerretDoes(A) ==
  job = "ferret" /\ A /\ UNCHANGED <<job, dedupVars, streamVars, sysVars, luceneVars, canVars,
                                     swapVars>>

RunFerret == FerretDoes(Ferret!Next)

StreamDoes(A) ==
  job = "stream" /\ A /\ UNCHANGED <<job, dedupVars, ferretVars, sysVars, luceneVars, canVars,
                                     swapVars>>

RunStream == StreamDoes(Stream!Next)

SysDoes(A) ==
  job = "sysbench" /\ A /\ UNCHANGED <<job, dedupVars, ferretVars, streamVars, luceneVars,
                                       canVars, swapVars>>

RunSys == SysDoes(Sys!Next)

LuceneDoes(A) ==
  job = "lucene" /\ A /\ UNCHANGED <<job, dedupVars, ferretVars, streamVars, sysVars, canVars,
                                     swapVars>>

RunLucene == LuceneDoes(Lucene!Next)

CanDoes(A) ==
  job = "canneal" /\ A /\ UNCHANGED <<job, dedupVars, ferretVars, streamVars, sysVars,
                                      luceneVars, swapVars>>

RunCan == CanDoes(Can!Next)

RunSwap ==
  job = "swaptions" /\ Swap!Next /\ UNCHANGED <<job, dedupVars, ferretVars, streamVars, sysVars,
                                                luceneVars, canVars>>

Next ==
  \/ RunDedup \/ RunFerret \/ RunStream \/ RunSys \/ RunLucene \/ RunCan
  \/ RunSwap

\* Fairness of the programs; job never changes, so that of a disjunction is that of each.
Spec ==
  /\ Init /\ [][Next]_vars
  /\ WF_vars(\/ DedupDoes(Dedup!Proceed)
             \/ FerretDoes(Ferret!Proceed)
             \/ StreamDoes(Stream!Next)
             \/ SysDoes(Sys!Proceed)
             \/ LuceneDoes(Lucene!Proceed)
             \/ CanDoes(Can!Next))
  /\ WF_vars(SysDoes(Sys!MainStep)) /\ WF_vars(SysDoes(Sys!TimePasses))

----------------------------------------------------------------------------
(* encoder.c, ferret-pthreads.c, HJM_Securities.cpp: a pipeline of threads  *)
(* gives the result of the serial program.  dedup writes its chunks in      *)
(* order, the data of a content before the references to it, and leaves no  *)
(* chunk behind; ferret reads exactly the images its walk can reach and     *)
(* writes one line for each; each swaption is priced by one thread.         *)
SerialResults ==
  /\ Dedup!WritesSerialOutput /\ Dedup!NothingLeftBehind
  /\ Ferret!WalkReadsImages /\ Ferret!LineForEachImage
  /\ Swap!PricedOnce

(* streamcluster.cpp, annealer_thread.cpp: threads meet at the same call of *)
(* a barrier.  The shared variables on which they branch are the same for   *)
(* all of them whenever they look, and with a fixed number of steps all     *)
(* work on one temperature.                                                 *)
BarriersShared == Stream!SameBarrier /\ Can!StepsTogether

(* streamcluster.cpp: between the rounds of pgain k is the number of        *)
(* centers, every point has a center at the cost of its distance, and the   *)
(* cost each thread keeps by subtracting the gains it is told is that of    *)
(* the solution; merging the points of a chunk loses no weight.             *)
ClusteringExact == Stream!CentersConsistent /\ Stream!CostIsExact /\ Stream!WeightsKept

(* sysbench.c: every event that counts is inside the recording, without a   *)
(* warmup no more events run than --events allows, the concurrency it       *)
(* reports counts the workers with an event, and a worker that fails to     *)
(* start stops the run before any event.                                    *)
EventsCounted ==
  /\ Sys!EventsRecorded /\ Sys!EventLimitKept /\ Sys!ConcurrencyCounts
  /\ Sys!FailedStartRunsNothing

(* lucene-server.cc, lcclient.cc: no server serves before all indexes are   *)
(* built and no request is sent before all threads are ready, the term of a *)
(* request is one of the server's, a response is taken for the request it   *)
(* answers, and nothing changes the samples once they are reported.         *)
RequestsMeasured ==
  /\ Lucene!ServersStartTogether /\ Lucene!NoEarlyRequest /\ Lucene!TermIndexValid
  /\ Lucene!ResponsesMatch /\ Lucene!ReportStable

(* Every program that runs comes to its end: its threads never all wait for *)
(* each other, for the queues of dedup and ferret, the barriers of          *)
(* streamcluster and canneal, the workers of sysbench and the client of the *)
(* Lucene server, but for the exceptions named in the modules.              *)
ProgramsEnd ==
  (\/ job = "dedup" /\ Dedup!Started
   \/ job = "ferret" /\ Ferret!Started
   \/ job = "stream" /\ Stream!Started
   \/ job = "sysbench" /\ Sys!Started
   \/ job = "lucene" /\ Lucene!Started
   \/ job = "canneal" /\ Can!Started)
  ~>
  (\/ job = "dedup" /\ Dedup!Ended
   \/ job = "ferret" /\ Ferret!Ended
   \/ job = "stream" /\ Stream!Ended
   \/ job = "sysbench" /\ Sys!Ended
   \/ job = "lucene" /\ Lucene!Ended
   \/ job = "canneal" /\ Can!Ended)

=============================================================================
