------------------------------ MODULE McClient ------------------------------
(***************************************************************************)
(* The memcached load generator (apps/memcached-1.6.19/mcclient.cc): a     *)
(* leader and agents on other machines, which get their parameters from    *)
(* the leader, start the load together, and send it their results.         *)
(*                                                                         *)
(* Each agent has two connections to the leader: mcUp and mcDown are the   *)
(* two directions of the first, mcAgg the second.  A message is what it is *)
(* for.  The result of a load is the number of its answered requests.      *)
(***************************************************************************)
EXTENDS Integers, Sequences, FiniteSets, FiniteSetsExt

CONSTANTS McAgents,    \* names of the agents
          McThreads,   \* worker threads of each process
          McKeys,      \* values of max_key_idx
          McTypes      \* workloads: 1 SET, 2 GET, 3 USR, 4 VAR

Leader == "leader"
McProcs == McAgents \union {Leader}
Msg(kind, n) == [kind |-> kind, n |-> n]

VARIABLES
  mcOpt,     \* [wtype, keys]
  mcAt,      \* where each process is
  mcConns, mcAggs,   \* the leader's conns and agg_conns_
  mcUp, mcDown, mcAgg,
  mcReady,   \* worker threads that are ready
  mcStored,  \* keys in memcached
  mcAsked,   \* a request of the last process that sent its load: {} or {[key, kind, label]}
  mcDone,    \* answered requests of each process
  mcRead,    \* what the leader and the agents have read, and expected
  mcOut      \* what the leader prints

mcvars == <<mcOpt, mcAt, mcConns, mcAggs, mcUp, mcDown, mcAgg, mcReady, mcStored, mcAsked, mcDone,
            mcRead, mcOut>>
mcNet == <<mcUp, mcDown, mcAgg>>
mcTable == <<mcConns, mcAggs>>
mcLoad == <<mcReady, mcStored, mcAsked, mcDone>>

ClientInit ==
  /\ mcOpt \in [wtype : McTypes, keys : McKeys]
  /\ mcAt = [p \in McProcs |-> "begin"]
  /\ mcConns = << >> /\ mcAggs = << >>
  /\ mcUp = [a \in McAgents |-> << >>] /\ mcDown = [a \in McAgents |-> << >>]
  /\ mcAgg = [a \in McAgents |-> << >>]
  /\ mcReady = [p \in McProcs |-> 0] /\ mcStored = {} /\ mcAsked = {}
  /\ mcDone = [p \in McProcs |-> 0] /\ mcRead = {} /\ mcOut = [rps |-> 0, samples |-> 0]

Go(p, pc) == mcAt' = [mcAt EXCEPT ![p] = pc]

----------------------------------------------------------------------------
\* ClientHandler, NetBarrier(npeers): the leader listens for its agents.
Listen ==
  /\ mcAt[Leader] = "begin" /\ Go(Leader, "accept")
  /\ UNCHANGED <<mcOpt, mcTable, mcNet, mcLoad, mcRead, mcOut>>

\* NetBarrier(leader): an agent dials; without a leader its reads and writes
\* fail, and it exits at the first barrier.
AgentDial(a) ==
  /\ mcAt[a] = "begin"
  /\ Go(a, IF mcAt[Leader] = "begin" THEN "refused" ELSE "params")
  /\ UNCHANGED <<mcOpt, mcTable, mcNet, mcLoad, mcRead, mcOut>>

\* The leader accepts an agent and sends the parameters ...
AcceptAgent(a) ==
  /\ mcAt[Leader] = "accept" /\ Len(mcConns) = Len(mcAggs)
  /\ mcAt[a] = "params" /\ a \notin {mcConns[i] : i \in DOMAIN mcConns}
  /\ mcConns' = Append(mcConns, a)
  /\ mcDown' = [mcDown EXCEPT ![a] = Append(@, Msg("params", 0))]
  /\ UNCHANGED <<mcOpt, mcAt, mcAggs, mcUp, mcAgg, mcLoad, mcRead, mcOut>>

\* ... which the agent reads before it dials the second port.
AgentParams(a) ==
  /\ mcAt[a] = "params" /\ mcDown[a] # << >>
  /\ mcRead' = mcRead \union {<<Head(mcDown[a]).kind, "params">>}
  /\ mcDown' = [mcDown EXCEPT ![a] = Tail(@)]
  /\ Go(a, "work")
  /\ UNCHANGED <<mcOpt, mcTable, mcUp, mcAgg, mcLoad, mcOut>>

AcceptAgg(a) ==
  /\ mcAt[Leader] = "accept" /\ Len(mcAggs) < Len(mcConns)
  /\ mcAt[a] \notin {"begin", "refused", "params"} /\ a \notin {mcAggs[i] : i \in DOMAIN mcAggs}
  /\ mcAggs' = Append(mcAggs, a)
  /\ UNCHANGED <<mcOpt, mcAt, mcConns, mcNet, mcLoad, mcRead, mcOut>>

\* PrePopulateMemcached: the keys one of its threads sets.
StoredBy(t) == {k \in 0..(mcOpt.keys - 1) : k % McThreads = t}

\* A leader that is to send GETs stores every key first.
Populate ==
  /\ mcAt[Leader] = "accept" /\ Len(mcAggs) = Cardinality(McAgents)
  /\ mcStored' = IF mcOpt.wtype = 2 THEN UNION {StoredBy(t) : t \in 0..(McThreads - 1)} ELSE {}
  /\ Go(Leader, "work")
  /\ UNCHANGED <<mcOpt, mcTable, mcNet, mcReady, mcAsked, mcDone, mcRead, mcOut>>

----------------------------------------------------------------------------
Request(keys, kind, label) == [key : keys, kind : {kind}, label : {label}]

\* Hot and cold keys of USR and VAR.
KeySplit(tenths) ==
  LET hot == (tenths * mcOpt.keys) \div 10
      cold == ((10 - tenths) * mcOpt.keys) \div 10
  IN  (0..(hot - 1)) \union (hot..(hot + cold - 1))

\* GenerateWork: what a process may ask, and the req_type it notes.
Generated ==
  LET all == 0..(mcOpt.keys - 1)
  IN  CASE mcOpt.wtype = 1 -> Request(all, "SET", 1)
        [] mcOpt.wtype = 2 -> Request(all, "GET", 0)
        [] mcOpt.wtype = 3 -> Request(KeySplit(8), "GET", 0) \union Request(KeySplit(8), "SET", 1)
        [] mcOpt.wtype = 4 -> Request(KeySplit(9), "GET", 1) \union Request(KeySplit(9), "SET", 0)

\* A worker thread has generated its work: starter->Done().
WorkerReady(p) ==
  /\ mcAt[p] = "work" /\ mcReady[p] < McThreads
  /\ mcReady' = [mcReady EXCEPT ![p] = @ + 1]
  /\ UNCHANGED <<mcOpt, mcAt, mcTable, mcNet, mcStored, mcAsked, mcDone, mcRead, mcOut>>

\* Barrier of an agent: it writes a byte and waits for one.
AgentBarrier(a, from, to) ==
  /\ mcAt[a] = from /\ Go(a, to)
  /\ mcUp' = [mcUp EXCEPT ![a] = Append(@, Msg("byte", 0))]
  /\ UNCHANGED <<mcOpt, mcTable, mcDown, mcAgg, mcLoad, mcRead, mcOut>>

AgentReleased(a, from, to) ==
  /\ mcAt[a] = from /\ mcDown[a] # << >> /\ Go(a, to)
  /\ mcRead' = mcRead \union {<<Head(mcDown[a]).kind, "byte">>}
  /\ mcDown' = [mcDown EXCEPT ![a] = Tail(@)]
  /\ UNCHANGED <<mcOpt, mcTable, mcUp, mcAgg, mcLoad, mcOut>>

\* Fault variant of Answered: only the first connection gets an answer.
AnsweredFirst == {mcConns[1]}

AnsweredAgents == {mcConns[i] : i \in DOMAIN mcConns}

\* Barrier of the leader: a byte from each agent, then a byte to each.
LeaderBarrier(from, to) ==
  /\ mcAt[Leader] = from /\ Go(Leader, to)
  /\ \A a \in McAgents : mcUp[a] # << >>
  /\ mcRead' = mcRead \union {<<Head(mcUp[a]).kind, "byte">> : a \in McAgents}
  /\ mcUp' = [a \in McAgents |-> Tail(mcUp[a])]
  /\ mcDown' = [a \in McAgents |->
                 IF a \in AnsweredAgents THEN Append(mcDown[a], Msg("byte", 0)) ELSE mcDown[a]]
  /\ UNCHANGED <<mcOpt, mcTable, mcAgg, mcLoad, mcOut>>

\* Fault variant of StartExperiment: the workers are not waited for.
StartExperimentEarly(p) ==
  IF p = Leader THEN LeaderBarrier("work", "load") ELSE AgentBarrier(p, "work", "start")

\* RunExperiment: StartExperiment when all its threads are ready.
StartExperiment(p) ==
  /\ mcReady[p] = McThreads
  /\ IF p = Leader THEN LeaderBarrier("work", "load") ELSE AgentBarrier(p, "work", "start")

AgentStarts(a) == AgentReleased(a, "start", "load")

\* The workers send their load and are joined; some requests are answered.
RunLoad(p) ==
  /\ mcAt[p] = "load" /\ Go(p, "end")
  /\ \E r \in Generated, n \in {0, 1} :
       mcAsked' = {r} /\ mcDone' = [mcDone EXCEPT ![p] = n]
  /\ UNCHANGED <<mcOpt, mcTable, mcNet, mcReady, mcStored, mcRead, mcOut>>

\* EndExperiment of an agent: the totals, the samples, and the barrier.
AgentEnds(a) ==
  /\ mcAt[a] = "end" /\ Go(a, "sent")
  /\ mcUp' = [mcUp EXCEPT ![a] = Append(@, Msg("csr", mcDone[a]))]
  /\ mcAgg' = [mcAgg EXCEPT ![a] = Append(@, Msg("samples", mcDone[a]))]
  /\ UNCHANGED <<mcOpt, mcTable, mcDown, mcLoad, mcRead, mcOut>>

Totals(up) == mcDone[Leader] + MapThenSumSet(LAMBDA i : up[mcConns[i]].n, DOMAIN mcConns)

\* The leader adds up the totals of its agents ...
LeaderTotals ==
  /\ mcAt[Leader] = "end" /\ Go(Leader, "gather")
  /\ \A a \in McAgents : mcUp[a] # << >>
  /\ LET up == [a \in McAgents |-> Head(mcUp[a])]
     IN  /\ mcRead' = mcRead \union {<<up[a].kind, "csr">> : a \in McAgents}
         /\ mcOut' = [mcOut EXCEPT !.rps = Totals(up)]
  /\ mcUp' = [a \in McAgents |-> Tail(mcUp[a])]
  /\ UNCHANGED <<mcOpt, mcTable, mcDown, mcAgg, mcLoad>>

\* ... gathers their samples (GatherSamples) ...
LeaderGathers ==
  /\ mcAt[Leader] = "gather" /\ Go(Leader, "sent")
  /\ \A i \in DOMAIN mcAggs : mcAgg[mcAggs[i]] # << >>
  /\ mcRead' = mcRead \union {<<Head(mcAgg[a]).kind, "samples">> : a \in McAgents}
  /\ mcAgg' = [a \in McAgents |-> Tail(mcAgg[a])]
  /\ mcOut' = [mcOut EXCEPT !.samples =
                 mcDone[Leader] + MapThenSumSet(LAMBDA i : Head(mcAgg[mcAggs[i]]).n, DOMAIN mcAggs)]
  /\ UNCHANGED <<mcOpt, mcTable, mcUp, mcDown, mcLoad>>

\* ... and meets them at a barrier before it prints.
EndBarrier(p) ==
  IF p = Leader THEN LeaderBarrier("sent", "over") ELSE AgentBarrier(p, "sent", "leave")

AgentLeaves(a) == AgentReleased(a, "leave", "over")

\* An agent may be killed; the leader never sees the end of a stream.
AgentDies(a) ==
  /\ mcAt[a] \notin {"begin", "over", "dead"} /\ Go(a, "dead")
  /\ UNCHANGED <<mcOpt, mcTable, mcNet, mcLoad, mcRead, mcOut>>

----------------------------------------------------------------------------
LeaderStep ==
  \/ Listen \/ Populate \/ LeaderTotals \/ LeaderGathers
  \/ \E a \in McAgents : AcceptAgent(a) \/ AcceptAgg(a)

AgentStep(a) ==
  AgentDial(a) \/ AgentParams(a) \/ AgentStarts(a) \/ AgentEnds(a) \/ AgentLeaves(a)

ProcStep(p) == WorkerReady(p) \/ StartExperiment(p) \/ RunLoad(p) \/ EndBarrier(p)

ClientProceed ==
  LeaderStep \/ (\E a \in McAgents : AgentStep(a)) \/ \E p \in McProcs : ProcStep(p)

ClientNext == ClientProceed \/ \E a \in McAgents : AgentDies(a)

\* The weakest fairness: as long as some process can go on, one does; none has to die.
ClientSpec == ClientInit /\ [][ClientNext]_mcvars /\ WF_mcvars(ClientProceed)

----------------------------------------------------------------------------
Began == {p \in McProcs : mcAt[p] \in {"load", "end", "gather", "sent", "leave"}}

(* No process sends its load before all worker threads of all processes are *)
(* ready (StartExperiment).                                                 *)
LoadStartsTogether == Began # {} => \A p \in McProcs : mcReady[p] = McThreads

(* In a GET workload no process, on whichever machine, asks for a key that  *)
(* the leader has not stored before.                                        *)
GetsHit ==
  mcOpt.wtype = 2 => \A r \in mcAsked : r.key \in mcStored

(* The label in latency.dist says what was sent, except in a VAR workload.  *)
LabelsTrue ==
  mcOpt.wtype # 4 => \A r \in mcAsked : r.kind = "GET" <=> r.label = 0

(* Each read from a connection gets the message it is for: parameters,      *)
(* totals and barrier bytes share one stream and never get out of step.     *)
ReadsInStep == \A r \in mcRead : r[1] = r[2]

(* What the leader prints counts every process exactly once, in its totals  *)
(* and in its samples.                                                      *)
TotalsComplete ==
  mcAt[Leader] = "over" =>
    LET all == MapThenSumSet(LAMBDA p : mcDone[p], McProcs)
    IN  mcOut = [rps |-> all, samples |-> all]

(* mcclient.cc: no process sends its load before all worker threads of all  *)
(* processes are ready, a GET workload asks only for keys stored before,    *)
(* labels say what was sent except in a VAR workload, each read gets the    *)
(* message it is for, and the totals count every process once.              *)
LoadMeasured ==
  LoadStartsTogether /\ GetsHit /\ LabelsTrue /\ ReadsInStep /\ TotalsComplete

\* The experiment has to end, unless an agent was started too early or was killed.
Ended == mcAt[Leader] = "over" \/ \E a \in McAgents : mcAt[a] \in {"refused", "dead"}

=============================================================================
