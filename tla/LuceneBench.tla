----------------------------- MODULE LuceneBench -----------------------------
(***************************************************************************)
(* The search benchmark: server processes (apps/lucene-server/lucene-      *)
(* server.cc) that start together through a network barrier and answer     *)
(* queries, and the load generator (lcclient.cc; lcclient/uniform.cc is    *)
(* the same program, which ends the recording when it is done) with one    *)
(* sender and one receiver thread for each connection.                     *)
(*                                                                         *)
(* Process 0 coordinates the barrier.  A request is its index, which the   *)
(* server sends back; a TCP connection is a queue in each direction.       *)
(* Waiting threads are the set lcAsleep: a condition variable wakes some   *)
(* of them.                                                                *)
(***************************************************************************)
EXTENDS Integers, Sequences, FiniteSets

CONSTANTS LcProcs,      \* numProcesses
          LcPerServer,  \* client threads per server
          LcWork,       \* requests each thread generates
          LcFiles       \* term files: sequences of kinds of lines

Procs == 0..(LcProcs - 1)
T == LcProcs * LcPerServer
LcThreads == 0..(T - 1)
LcUnits == 0..(LcWork - 1)
Main == T   \* the client's main thread, where it waits with the others

VARIABLES
  lcFile,      \* frequent_terms.csv
  lcProc,      \* server: "load", "listen", "wait", "serve", "dead"
  lcIndexed,   \* the server has built its index
  lcRec,       \* the recording is on
  lcMain,      \* client: "dial", "launch", "wait", "join", "over"
  lcDialed,    \* connections made
  lcpc,        \* client thread: "none", "work", "wait", "send", "closing", "closed"
  lcAsleep,    \* threads inside cv.wait
  lcReady,     \* ready_count
  lcStart,     \* start_flag
  lcUnit,      \* w: "new", "late", "sent", "done"; "stray" if answered unasked
  lcConn,      \* connection: "none", "open", "cut" by the server, "shut" by the client
  lcReq, lcResp,
  lcResult     \* what the client reports

lcvars == <<lcFile, lcProc, lcIndexed, lcRec, lcMain, lcDialed, lcpc, lcAsleep, lcReady, lcStart,
            lcUnit, lcConn, lcReq, lcResp, lcResult>>
lcServer == <<lcFile, lcProc, lcIndexed, lcRec>>
lcSync == <<lcAsleep, lcReady, lcStart>>
lcNet == <<lcConn, lcReq, lcResp>>

Init ==
  /\ lcFile \in LcFiles
  /\ lcProc = [p \in Procs |-> "load"] /\ lcIndexed = [p \in Procs |-> FALSE] /\ lcRec = FALSE
  /\ lcMain = "dial" /\ lcDialed = 0 /\ lcpc = [t \in LcThreads |-> "none"]
  /\ lcAsleep = {} /\ lcReady = 0 /\ lcStart = FALSE
  /\ lcUnit = [t \in LcThreads |-> [i \in LcUnits |-> "new"]]
  /\ lcConn = [t \in LcThreads |-> "none"]
  /\ lcReq = [t \in LcThreads |-> << >>] /\ lcResp = [t \in LcThreads |-> << >>]
  /\ lcResult = [offered |-> 0, resps |-> 0]

\* ReadFreqTerms of the server: a term for each line that has one.
ServerTerms(f) == SelectSeq(f, LAMBDA line : line # "empty")

\* ReadFreqTerms of the client: one entry for each line.
ClientTerms(f) == f

\* PopulateIndex may give up; the server goes on without an index.
\* Process 0 then listens for the others, which connect to it or die.
Load(p) ==
  /\ lcProc[p] = "load"
  /\ \E built \in BOOLEAN : lcIndexed' = [lcIndexed EXCEPT ![p] = built]
  /\ lcProc' = [lcProc EXCEPT ![p] = IF p = 0 THEN "listen"
                                     ELSE IF lcProc[0] = "listen" THEN "wait" ELSE "dead"]
  /\ UNCHANGED <<lcFile, lcRec, lcMain, lcDialed, lcpc, lcSync, lcUnit, lcNet, lcResult>>

AllConnected == Cardinality({p \in Procs : lcProc[p] = "wait"}) = LcProcs - 1

\* runCoordinator has accepted everybody and sends "start"; main starts the
\* recording and serves.
CoordinatorStarts ==
  /\ lcProc[0] = "listen" /\ AllConnected
  /\ lcProc' = [lcProc EXCEPT ![0] = "serve"] /\ lcRec' = TRUE
  /\ UNCHANGED <<lcFile, lcIndexed, lcMain, lcDialed, lcpc, lcSync, lcUnit, lcNet, lcResult>>

\* runParticipant receives "start".
ParticipantStarts(p) ==
  /\ lcProc[p] = "wait" /\ lcProc[0] \in {"serve", "dead"}
  /\ lcProc' = [lcProc EXCEPT ![p] = "serve"] /\ lcRec' = TRUE
  /\ UNCHANGED <<lcFile, lcIndexed, lcMain, lcDialed, lcpc, lcSync, lcUnit, lcNet, lcResult>>

ServerOf(t) == t \div LcPerServer

\* luceneWorker for a connection: without an index the searcher cannot be made
\* and the exception ends the process with all its connections.
ServerDies(p) ==
  /\ lcProc[p] = "serve" /\ ~lcIndexed[p]
  /\ \E t \in LcThreads : ServerOf(t) = p /\ lcConn[t] = "open"
  /\ lcProc' = [lcProc EXCEPT ![p] = "dead"]
  /\ lcConn' = [t \in LcThreads |-> IF ServerOf(t) = p /\ lcConn[t] = "open" THEN "cut" ELSE lcConn[t]]
  /\ UNCHANGED <<lcFile, lcIndexed, lcRec, lcMain, lcDialed, lcpc, lcSync, lcUnit, lcReq, lcResp,
                 lcResult>>

\* ... else it reads a request, searches and answers.
Serve(t) ==
  /\ lcProc[ServerOf(t)] = "serve" /\ lcIndexed[ServerOf(t)]
  /\ lcConn[t] = "open" /\ lcReq[t] # << >>
  /\ lcReq' = [lcReq EXCEPT ![t] = Tail(@)]
  /\ lcResp' = [lcResp EXCEPT ![t] = Append(@, Head(lcReq[t]))]
  /\ UNCHANGED <<lcServer, lcMain, lcDialed, lcpc, lcSync, lcUnit, lcConn, lcResult>>

----------------------------------------------------------------------------
\* RunExperiment connects to the servers in turn; one that does not listen
\* ends the client.
Dial ==
  /\ lcMain = "dial" /\ lcDialed < T
  /\ IF lcProc[ServerOf(lcDialed)] = "serve"
     THEN /\ lcDialed' = lcDialed + 1 /\ lcConn' = [lcConn EXCEPT ![lcDialed] = "open"]
          /\ UNCHANGED lcMain
     ELSE lcMain' = "over" /\ UNCHANGED <<lcDialed, lcConn>>
  /\ UNCHANGED <<lcServer, lcpc, lcSync, lcUnit, lcReq, lcResp, lcResult>>

Launch ==
  /\ lcMain = "dial" /\ lcDialed = T
  /\ lcMain' = "launch" /\ lcpc' = [t \in LcThreads |-> "work"]
  /\ UNCHANGED <<lcServer, lcDialed, lcSync, lcUnit, lcNet, lcResult>>

\* cv.notify_one: one of the threads that wait, whichever.
NotifyOne(next) ==
  \/ lcAsleep = {} /\ next = {}
  \/ \E x \in lcAsleep : next = lcAsleep \ {x}

\* ClientWorker has generated its work; with the lock it counts itself, the
\* last one notifies, and waits for the start.
WorkerReady(t) ==
  /\ lcpc[t] = "work" /\ lcpc' = [lcpc EXCEPT ![t] = "wait"]
  /\ lcReady' = lcReady + 1
  /\ \E left \in SUBSET lcAsleep :
       /\ IF lcReady + 1 = T THEN NotifyOne(left) ELSE left = lcAsleep
       /\ lcAsleep' = left \union {t}
  /\ UNCHANGED <<lcServer, lcMain, lcDialed, lcStart, lcUnit, lcNet, lcResult>>

\* The main thread waits until all are ready, then starts them.
MainChecks ==
  /\ lcMain = "launch" \/ (lcMain = "wait" /\ Main \notin lcAsleep)
  /\ IF lcReady = T
     THEN lcStart' = TRUE /\ lcAsleep' = {} /\ lcMain' = "join"
     ELSE lcAsleep' = lcAsleep \union {Main} /\ lcMain' = "wait" /\ UNCHANGED lcStart
  /\ UNCHANGED <<lcServer, lcDialed, lcpc, lcReady, lcUnit, lcNet, lcResult>>

WorkerAwake(t) ==
  /\ lcpc[t] = "wait" /\ t \notin lcAsleep
  /\ IF lcStart THEN lcpc' = [lcpc EXCEPT ![t] = "send"] /\ UNCHANGED lcAsleep
                ELSE lcAsleep' = lcAsleep \union {t} /\ UNCHANGED lcpc
  /\ UNCHANGED <<lcServer, lcMain, lcDialed, lcReady, lcStart, lcUnit, lcNet, lcResult>>

\* The next request is dropped if it is late, or sent with its index; when the
\* server is gone the thread stops sending.
Send(t) ==
  /\ lcpc[t] = "send"
  /\ LET new == {i \in LcUnits : lcUnit[t][i] = "new"}
         i == CHOOSE j \in new : \A k \in new : j <= k
     IN  \/ /\ new # {} /\ lcUnit' = [lcUnit EXCEPT ![t][i] = "late"]
            /\ UNCHANGED <<lcpc, lcReq>>
         \/ /\ new # {} /\ lcUnit' = [lcUnit EXCEPT ![t][i] = "sent"]
            /\ lcReq' = [lcReq EXCEPT ![t] = Append(@, i * T + t)] /\ UNCHANGED lcpc
         \/ /\ new = {} \/ lcConn[t] = "cut"
            /\ lcpc' = [lcpc EXCEPT ![t] = "closing"] /\ UNCHANGED <<lcUnit, lcReq>>
  /\ UNCHANGED <<lcServer, lcMain, lcDialed, lcSync, lcConn, lcResp, lcResult>>

\* A millisecond later the connection is shut, whatever is still to come.
Shutdown(t) ==
  /\ lcpc[t] = "closing" /\ lcConn[t] # "shut"
  /\ lcConn' = [lcConn EXCEPT ![t] = "shut"]
  /\ UNCHANGED <<lcServer, lcMain, lcDialed, lcpc, lcSync, lcUnit, lcReq, lcResp, lcResult>>

SlotOf(index, t) == (index - t) \div T

\* The receiver thread: a response marks the request of its index.  It ends
\* with the connection; what had arrived may still be read.
Receive(t) ==
  /\ lcpc[t] \in {"work", "wait", "send", "closing"} /\ lcResp[t] # << >>
  /\ lcResp' = [lcResp EXCEPT ![t] = Tail(@)]
  /\ LET i == SlotOf(Head(lcResp[t]), t)
     IN  lcUnit' = IF i \in LcUnits
                   THEN [lcUnit EXCEPT ![t][i] = IF @ = "sent" THEN "done" ELSE "stray"]
                   ELSE lcUnit
  /\ UNCHANGED <<lcServer, lcMain, lcDialed, lcpc, lcSync, lcConn, lcReq, lcResult>>

JoinReceiver(t) ==
  /\ lcpc[t] = "closing" /\ lcConn[t] = "shut"
  /\ lcpc' = [lcpc EXCEPT ![t] = "closed"]
  /\ UNCHANGED <<lcServer, lcMain, lcDialed, lcSync, lcUnit, lcNet, lcResult>>

Done == {u \in LcThreads \X LcUnits : lcUnit[u[1]][u[2]] = "done"}

\* Fault variant of AllJoined: threads that are still closing are not awaited.
AllJoinedEarly == \A t \in LcThreads : lcpc[t] \in {"closing", "closed"}

AllJoined == \A t \in LcThreads : lcpc[t] = "closed"

\* The samples are counted and printed, and the recording ends (uniform.cc).
Report ==
  /\ lcMain = "join" /\ AllJoined
  /\ lcMain' = "over" /\ lcRec' = FALSE
  /\ lcResult' = [offered |-> T * LcWork, resps |-> Cardinality(Done)]
  /\ UNCHANGED <<lcFile, lcProc, lcIndexed, lcDialed, lcpc, lcSync, lcUnit, lcNet>>

----------------------------------------------------------------------------
ServerStep ==
  \/ CoordinatorStarts
  \/ \E p \in Procs : Load(p) \/ ParticipantStarts(p) \/ ServerDies(p)
  \/ \E t \in LcThreads : Serve(t)

MainStep == Dial \/ Launch \/ MainChecks \/ Report

ThreadStep(t) ==
  WorkerReady(t) \/ WorkerAwake(t) \/ Send(t) \/ Shutdown(t) \/ JoinReceiver(t)

Proceed == MainStep \/ \E t \in LcThreads : ThreadStep(t)

Next == Proceed \/ ServerStep \/ \E t \in LcThreads : Receive(t)

\* The weakest fairness: as long as some thread of the client can go on, one does.
Spec == Init /\ [][Next]_lcvars /\ WF_lcvars(Proceed)

----------------------------------------------------------------------------
(* The term index in a request names a term of the server, for every term   *)
(* file without empty lines: both sides read the same lines.                *)
TermIndexValid ==
  (\A i \in DOMAIN lcFile : lcFile[i] # "empty") =>
    Len(ClientTerms(lcFile)) = Len(ServerTerms(lcFile))

(* No server serves, and the recording does not start, before every process *)
(* has built its index and reached the barrier.                             *)
ServersStartTogether ==
  lcRec \/ (\E p \in Procs : lcProc[p] = "serve") => \A q \in Procs : lcProc[q] # "load"

(* No request is sent before all threads of the client are ready.           *)
NoEarlyRequest ==
  (\E t \in LcThreads : \E i \in LcUnits : lcUnit[t][i] # "new") =>
    lcReady = T /\ lcStart

(* A response is taken for the request it answers: the index a thread sends *)
(* leads back to its own slot.                                              *)
ResponsesMatch == \A t \in LcThreads : \A i \in LcUnits : lcUnit[t][i] # "stray"

(* The report counts every response that was received: no receiver thread   *)
(* changes the samples any more.                                            *)
ReportStable == lcMain = "over" /\ lcResult.offered > 0 => lcResult.resps = Cardinality(Done)

\* All threads are ready, and the notification went to one of them.
NotifiedWrongThread == lcReady = T /\ Main \in lcAsleep

\* What has to end once it has started: a client whose threads run, unless the notification
\* that all are ready wakes one of them instead of the main thread.
Started == lcMain = "launch"
Ended == lcMain = "over" \/ NotifiedWrongThread

=============================================================================
