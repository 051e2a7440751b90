--------------------------- MODULE StreamCluster ---------------------------
(***************************************************************************)
(* The streamcluster workload (apps/parsec/streamcluster/streamcluster.cpp)*)
(* reads points chunk by chunk, clusters each chunk with a team of threads *)
(* that share static variables and one barrier, keeps the weighted centers *)
(* and clusters those at the end.                                          *)
(*                                                                         *)
(* The work of a thread between two barriers is one step; a barrier is     *)
(* named by its line.  Points lie on a line; coordinates and costs are     *)
(* fixed-point numbers, 32 the distance of neighbours.  The random choices *)
(* are free.                                                               *)
(***************************************************************************)
EXTENDS Integers, Sequences, FiniteSets, FiniteSetsExt, Functions, SequencesExt

CONSTANTS Nproc, ChunkSize, Kmin, Kmax,
          CenterSize,  \* clustersize
          Iter,        \* calls of pgain per round
          SP,          \* chances of pspeedy
          Streams,     \* inputs: sequences of coordinates
          Shuffle(_)   \* orders of 0..n-1 the generator may produce

VARIABLES
  scRun,     \* streamCluster: "start", "read", "search", "final", "done", "exit"
  src,       \* PStream: [data, file, eof]
  nread,     \* IDoffset
  centers,   \* centers: sequence of [pos, weight, id]
  pts,       \* points, 0..num-1 -> [pos, weight, cost, assign]
  isC,       \* is_center
  k,         \* static k of pkmedian
  kfinal,
  open, ci, costs, total,      \* static open, i, costs and totalcost of pspeedy
  feas, hizs,                  \* static feasible and hizs of pkmedian
  ctab, lows, glLow, switches, \* center_table, work_mem, gl_lower, switch_membership
  glCost, glClose,             \* static variables of pgain
  tpc,       \* where each thread is
  loc,       \* its local variables
  printed    \* weights that outcenterIDs prints

streamVars == <<scRun, src, nread, centers, printed>>
speedyVars == <<open, ci, costs, total>>
gainVars == <<ctab, lows, glLow, switches, glCost, glClose>>
scvars == <<streamVars, pts, isC, k, kfinal, speedyVars, feas, hizs, gainVars, tpc, loc>>

Team == 0..(Nproc - 1)
Num == Cardinality(DOMAIN pts)
\* A block of bsize points per thread, the rest for the last one.
Block(t) == LET bsize == Num \div Nproc
            IN  (bsize * t)..(IF t = Nproc - 1 THEN Num - 1 ELSE bsize * (t + 1) - 1)
Total(f, S) == FoldFunctionOnSet(+, 0, f, S)
Dist(i, j) == (pts[i].pos - pts[j].pos) * (pts[i].pos - pts[j].pos)
CostTo(i, x) == Dist(i, x) * pts[i].weight

Zeros == [i \in 0..(ChunkSize + CenterSize) |-> 0]
NoLocals == [z |-> 0, hiz |-> 0, loz |-> 0, cost |-> 0, change |-> 0, tries |-> -1,
             stage |-> "chances", mode |-> "rough", it |-> 0, close |-> 0, opening |-> 0]

Init ==
  /\ scRun = "start" /\ src = [data |-> << >>, file |-> FALSE, eof |-> FALSE]
  /\ nread = 0 /\ centers = << >> /\ printed = << >>
  /\ pts = << >> /\ isC = {} /\ k = 0 /\ kfinal = 0
  /\ open = FALSE /\ ci = 0 /\ costs = [t \in Team |-> 0] /\ total = 0
  /\ feas = << >> /\ hizs = [t \in Team |-> 0]
  /\ ctab = Zeros /\ lows = [t \in Team |-> Zeros] /\ glLow = Zeros /\ switches = {}
  /\ glCost = 0 /\ glClose = 0
  /\ tpc = [t \in Team |-> "idle"] /\ loc = [t \in Team |-> NoLocals]

----------------------------------------------------------------------------
\* localSearch creates the threads.
LocalSearch(points) ==
  /\ pts' = points /\ isC' = {}
  /\ tpc' = [t \in Team |-> "B1040"] /\ loc' = [t \in Team |-> NoLocals]
  /\ UNCHANGED <<k, kfinal, speedyVars, feas, hizs, gainVars>>

OpenStream(data, isFile) ==
  /\ scRun = "start" /\ scRun' = "read"
  /\ src' = [data |-> data, file |-> isFile, eof |-> FALSE]
  /\ UNCHANGED <<nread, centers, printed, pts, isC, k, kfinal, speedyVars, feas, hizs, gainVars,
                 tpc, loc>>

\* A chunk is read.  A file is known to be at its end only after a short read.
ReadChunk ==
  LET n == Min({ChunkSize, Len(src.data)})
      rest == SubSeq(src.data, n + 1, Len(src.data))
  IN  /\ scRun = "read" /\ scRun' = "search"
      /\ src' = [src EXCEPT !.data = rest,
                            !.eof = IF src.file THEN n < ChunkSize ELSE rest = << >>]
      /\ LocalSearch([i \in 0..(n - 1) |->
                        [pos |-> src.data[i + 1], weight |-> 1, cost |-> 0, assign |-> 0]])
      /\ UNCHANGED <<nread, centers, printed>>

\* contcenters: the members of a cluster are merged into its center, in order.
Merge(ps, i) ==
  LET a == ps[i].assign
      w == ps[a].weight + ps[i].weight
  IN  IF a = i THEN ps
      ELSE [ps EXCEPT ![a].pos = (@ * ps[a].weight + ps[i].pos * ps[i].weight) \div w,
                      ![a].weight = w]
ContCenters == FoldLeft(Merge, pts, [i \in 1..Num |-> i - 1])
Medians == {pts[i].assign : i \in DOMAIN pts}

\* copycenters: the medians become centers.
CopyCenters ==
  LET ids == SelectSeq([i \in 1..Num |-> i - 1], LAMBDA i : i \in Medians)
  IN  centers \o [j \in 1..Len(ids) |-> [pos |-> ContCenters[ids[j]].pos,
                                         weight |-> ContCenters[ids[j]].weight,
                                         id |-> ids[j] + nread]]

Joined == \A t \in Team : tpc[t] = "returned"

\* After the search of a chunk.
ChunkDone ==
  /\ scRun = "search" /\ Joined
  /\ \/ /\ kfinal + Len(centers) > CenterSize
        /\ scRun' = "exit" /\ UNCHANGED <<nread, centers>>
     \/ /\ kfinal + Len(centers) <= CenterSize
        /\ centers' = CopyCenters /\ nread' = nread + Num
        /\ scRun' = IF src.eof THEN "final" ELSE "read"
  /\ tpc' = [t \in Team |-> "idle"]
  /\ UNCHANGED <<src, printed, pts, isC, k, kfinal, speedyVars, feas, hizs, gainVars, loc>>

\* hrperf_pause, then the centers are clustered.
ClusterCenters ==
  /\ scRun = "final" /\ \A t \in Team : tpc[t] = "idle"
  /\ LocalSearch([i \in 0..(Len(centers) - 1) |->
                    [pos |-> centers[i + 1].pos, weight |-> centers[i + 1].weight,
                     cost |-> 0, assign |-> 0]])
  /\ UNCHANGED streamVars

\* contcenters and outcenterIDs
PrintCenters ==
  /\ scRun = "final" /\ Joined /\ scRun' = "done"
  /\ printed' = LET ids == SelectSeq([i \in 1..Num |-> i - 1], LAMBDA i : i \in Medians)
                IN  [j \in 1..Len(ids) |-> ContCenters[ids[j]].weight]
  /\ UNCHANGED <<src, nread, centers, pts, isC, k, kfinal, speedyVars, feas, hizs, gainVars,
                 tpc, loc>>

----------------------------------------------------------------------------
AfterBarrier ==
  [B1040 |-> "hizs", B1051 |-> "sum", B575 |-> "assign", B607 |-> "centers", B628 |-> "B629",
   B629 |-> "centers", B656 |-> "close", B660 |-> "next", B674 |-> "mycost", B683 |-> "total",
   B696 |-> "decide", B1111 |-> "rough", B912 |-> "round", B931 |-> "B705", B705 |-> "gain0",
   B740 |-> "count", B757 |-> "accum", B770 |-> "offset", B785 |-> "lower", B822 |-> "low",
   B851 |-> "sumup", B863 |-> "apply", B898 |-> "gained", B939 |-> "round", B1152 |-> "rough"]

AtBarrier(t) == tpc[t] \in DOMAIN AfterBarrier

\* pthread_barrier_wait returns in all threads once all have called it.
Barrier ==
  /\ \A t \in Team : AtBarrier(t)
  /\ tpc' = [t \in Team |-> AfterBarrier[tpc[t]]]
  /\ UNCHANGED <<streamVars, pts, isC, k, kfinal, speedyVars, feas, hizs, gainVars, loc>>

GoTo(t, where) == tpc' = [tpc EXCEPT ![t] = where]
Set(t, locals) == loc' = [loc EXCEPT ![t] = locals]

\* pkmedian, to its first pspeedy, or the return when there are few points.
Hizs(t) ==
  /\ tpc[t] = "hizs" /\ GoTo(t, "B1051")
  /\ hizs' = [hizs EXCEPT ![t] = Total([i \in DOMAIN pts |-> CostTo(i, 0)], Block(t))]
  /\ UNCHANGED <<streamVars, pts, isC, k, kfinal, speedyVars, feas, gainVars, loc>>

Shuffled(order) == [i \in DOMAIN pts |-> pts[order[i]]]

AllFacilities(t) ==
  [i \in DOMAIN pts |-> IF i \in Block(t) THEN [pts[i] EXCEPT !.assign = i, !.cost = 0] ELSE pts[i]]

SumHizs(t) ==
  LET hiz == Total(hizs, Team)
  IN  /\ tpc[t] = "sum"
      /\ \/ /\ Num <= Kmax
            /\ pts' = AllFacilities(t)
            /\ kfinal' = IF t = 0 THEN k ELSE kfinal
            /\ GoTo(t, "returned") /\ UNCHANGED loc
         \/ /\ Num > Kmax
            /\ IF t = 0 THEN \E order \in Shuffle(Num) : pts' = Shuffled(order) ELSE UNCHANGED pts
            /\ Set(t, [loc[t] EXCEPT !.hiz = hiz, !.z = hiz \div 2])
            /\ GoTo(t, "B575") /\ UNCHANGED kfinal
      /\ UNCHANGED <<streamVars, isC, k, speedyVars, feas, hizs, gainVars>>

\* pspeedy: all points go to point 0.
Assign(t) ==
  /\ tpc[t] = "assign" /\ GoTo(t, "B607")
  /\ pts' = [i \in DOMAIN pts |-> IF i \in Block(t)
                                  THEN [pts[i] EXCEPT !.cost = CostTo(i, 0), !.assign = 0] ELSE pts[i]]
  /\ k' = IF t = 0 THEN 1 ELSE k
  /\ UNCHANGED <<streamVars, isC, kfinal, speedyVars, feas, hizs, gainVars, loc>>

\* Points of the block that are nearer to the new center c.
Claim(t, c) ==
  [i \in DOMAIN pts |-> IF i \in Block(t) /\ CostTo(i, c) < pts[i].cost
                        THEN [pts[i] EXCEPT !.cost = CostTo(i, c), !.assign = c] ELSE pts[i]]

\* A worker waits until a center is opened, then reads i.
WaitOpen(t) ==
  /\ t # 0 /\ tpc[t] = "centers" /\ open /\ GoTo(t, "claim")
  /\ UNCHANGED <<streamVars, pts, isC, k, kfinal, speedyVars, feas, hizs, gainVars, loc>>

WorkerClaim(t) ==
  /\ t # 0 /\ tpc[t] = "claim"
  /\ IF ci >= Num THEN GoTo(t, "B674") /\ UNCHANGED pts
     ELSE GoTo(t, "B628") /\ pts' = Claim(t, ci)
  /\ UNCHANGED <<streamVars, isC, k, kfinal, speedyVars, feas, hizs, gainVars, loc>>

\* The master's loop over i; the random number lies between 0 and 1, so a point
\* that costs more than z is opened for certain, one that costs nothing never is.
MasterLoop ==
  LET i == IF tpc[0] = "centers" THEN 1 ELSE ci
  IN  /\ tpc[0] \in {"centers", "loop"}
      /\ \/ /\ i < Num /\ pts[i].cost > 0
            /\ k' = k + 1 /\ open' = TRUE /\ ci' = i /\ GoTo(0, "claim")
         \/ /\ i < Num /\ pts[i].cost <= loc[0].z
            /\ ci' = i + 1 /\ GoTo(0, "loop") /\ UNCHANGED <<k, open>>
         \/ /\ i >= Num
            /\ ci' = i /\ open' = TRUE /\ GoTo(0, "B674") /\ UNCHANGED k
      /\ UNCHANGED <<streamVars, pts, isC, kfinal, costs, total, feas, hizs, gainVars, loc>>

MasterClaim ==
  /\ tpc[0] = "claim" /\ GoTo(0, "B656") /\ pts' = Claim(0, ci)
  /\ UNCHANGED <<streamVars, isC, k, kfinal, speedyVars, feas, hizs, gainVars, loc>>

\* Fault variant of MasterClose: the second barrier is left out.
MasterCloseEarly ==
  /\ tpc[0] = "close" /\ open' = FALSE /\ ci' = ci + 1 /\ GoTo(0, "loop")
  /\ UNCHANGED <<streamVars, pts, isC, k, kfinal, costs, total, feas, hizs, gainVars, loc>>

MasterClose ==
  /\ \/ tpc[0] = "close" /\ open' = FALSE /\ GoTo(0, "B660") /\ UNCHANGED ci
     \/ tpc[0] = "next" /\ ci' = ci + 1 /\ GoTo(0, "loop") /\ UNCHANGED open
  /\ UNCHANGED <<streamVars, pts, isC, k, kfinal, costs, total, feas, hizs, gainVars, loc>>

MyCost(t) ==
  /\ tpc[t] = "mycost" /\ GoTo(t, "B683") /\ open' = FALSE
  /\ costs' = [costs EXCEPT ![t] = Total([i \in DOMAIN pts |-> pts[i].cost], Block(t))]
  /\ UNCHANGED <<streamVars, pts, isC, k, kfinal, ci, total, feas, hizs, gainVars, loc>>

TotalCost(t) ==
  /\ tpc[t] = "total" /\ GoTo(t, "B696")
  /\ total' = IF t = 0 THEN loc[t].z * k + Total(costs, Team) ELSE total
  /\ UNCHANGED <<streamVars, pts, isC, k, kfinal, open, ci, costs, feas, hizs, gainVars, loc>>

\* pkmedian after a pspeedy: again, again with cheaper facilities, or go on.
Decide(t) ==
  LET n == loc[t].tries + 1
      again == k < Kmin /\ loc[t].stage = "chances" /\ n < SP
      lower == k < Kmin /\ ~again
      z == IF lower /\ n >= SP THEN (loc[t].z + loc[t].loz) \div 2 ELSE loc[t].z
  IN  /\ tpc[t] = "decide"
      /\ Set(t, [loc[t] EXCEPT !.cost = total, !.tries = IF lower /\ n >= SP THEN 0 ELSE n,
                               !.stage = IF lower THEN "cheaper" ELSE @, !.z = z,
                               !.hiz = IF lower /\ n >= SP THEN loc[t].z ELSE @])
      /\ GoTo(t, IF k < Kmin THEN "B575" ELSE "B1111")
      /\ IF t = 0 /\ lower THEN \E order \in Shuffle(Num) : pts' = Shuffled(order) ELSE UNCHANGED pts
      /\ IF t = 0 /\ k >= Kmin THEN isC' = isC \cup Medians /\ feas' = [i \in 0..(Num - 1) |-> i]
         ELSE UNCHANGED <<isC, feas>>
      /\ UNCHANGED <<streamVars, k, kfinal, speedyVars, hizs, gainVars>>

----------------------------------------------------------------------------
\* pkmedian: a rough pFL; pFL itself begins a round unless there was too little
\* improvement, and returns to pkmedian otherwise.
Rough(t) ==
  /\ tpc[t] = "rough" /\ GoTo(t, "B912")
  /\ Set(t, [loc[t] EXCEPT !.mode = "rough", !.change = loc[t].cost])
  /\ UNCHANGED <<streamVars, pts, isC, k, kfinal, speedyVars, feas, hizs, gainVars>>

Improving(l) == l.cost > 0 /\ l.change * (IF l.mode = "rough" THEN 10 ELSE 1000) > l.cost

Round(t) ==
  /\ tpc[t] = "round"
  /\ \/ /\ Improving(loc[t])
        /\ IF t = 0 THEN \E order \in Shuffle(Num) : feas' = [i \in DOMAIN feas |-> feas[order[i]]]
           ELSE UNCHANGED feas
        /\ Set(t, [loc[t] EXCEPT !.change = 0, !.it = 0]) /\ GoTo(t, "B931")
     \/ /\ ~Improving(loc[t]) /\ GoTo(t, "search") /\ UNCHANGED <<feas, loc>>
  /\ UNCHANGED <<streamVars, pts, isC, k, kfinal, speedyVars, hizs, gainVars>>

\* pkmedian after a pFL: a finer one, the result, or another facility cost.
Good == (10 * k <= 11 * Kmax /\ 10 * k >= 9 * Kmin) \/ (k <= Kmax + 2 /\ k >= Kmin - 2)

Search(t) ==
  LET l == loc[t]
      new == IF k > Kmax THEN [l EXCEPT !.loz = l.z, !.z = (l.hiz + l.z) \div 2,
                                        !.cost = @ + ((l.hiz + l.z) \div 2 - l.z) * k]
             ELSE IF k < Kmin THEN [l EXCEPT !.hiz = l.z, !.z = (l.z + l.loz) \div 2,
                                             !.cost = @ + ((l.z + l.loz) \div 2 - l.z) * k]
             ELSE l
      stop == (k <= Kmax /\ k >= Kmin) \/ 1000 * new.loz >= 999 * new.hiz
  IN  /\ tpc[t] = "search"
      /\ \/ /\ l.mode = "rough" /\ Good
            /\ Set(t, [l EXCEPT !.mode = "fine", !.change = l.cost]) /\ GoTo(t, "B912")
            /\ UNCHANGED kfinal
         \/ /\ ~(l.mode = "rough" /\ Good)
            /\ Set(t, new) /\ GoTo(t, IF stop THEN "returned" ELSE "B1152")
            /\ kfinal' = IF stop /\ t = 0 THEN k ELSE kfinal
      /\ UNCHANGED <<streamVars, pts, isC, k, speedyVars, feas, hizs, gainVars>>

----------------------------------------------------------------------------
\* pgain for the point x = feasible[i % numfeasible]
X(t) == feas[loc[t].it % Num]

Gain0(t) ==
  /\ tpc[t] = "gain0" /\ GoTo(t, "B740")
  /\ glCost' = IF t = 0 THEN 0 ELSE glCost
  /\ glClose' = IF t = 0 THEN 0 ELSE glClose
  /\ UNCHANGED <<streamVars, pts, isC, k, kfinal, speedyVars, feas, hizs, ctab, lows, glLow,
                 switches, loc>>

\* center_table within the block; the first word of the thread's memory counts.
Count(t) ==
  /\ tpc[t] = "count" /\ GoTo(t, "B757")
  /\ ctab' = [i \in DOMAIN ctab |-> IF i \in Block(t) \cap isC
                                    THEN Cardinality({j \in Block(t) \cap isC : j < i}) ELSE ctab[i]]
  /\ lows' = [lows EXCEPT ![t][0] = Cardinality(Block(t) \cap isC)]
  /\ UNCHANGED <<streamVars, pts, isC, k, kfinal, speedyVars, feas, hizs, glLow, switches, glCost,
                 glClose, loc>>

Accum(t) ==
  /\ tpc[t] = "accum" /\ GoTo(t, "B770")
  /\ lows' = IF t # 0 THEN lows
             ELSE [p \in Team |-> [lows[p] EXCEPT ![0] = Total([q \in Team |-> lows[q][0]], 0..(p - 1))]]
  /\ UNCHANGED <<streamVars, pts, isC, k, kfinal, speedyVars, feas, hizs, ctab, glLow, switches,
                 glCost, glClose, loc>>

Offset(t) ==
  /\ tpc[t] = "offset" /\ GoTo(t, "B785")
  /\ ctab' = [i \in DOMAIN ctab |-> IF i \in Block(t) \cap isC THEN ctab[i] + lows[t][0] ELSE ctab[i]]
  /\ switches' = switches \ Block(t)
  /\ lows' = [lows EXCEPT ![t] = Zeros]
  /\ glLow' = IF t = 0 THEN Zeros ELSE glLow
  /\ UNCHANGED <<streamVars, pts, isC, k, kfinal, speedyVars, feas, hizs, glCost, glClose, loc>>

Lower(t) ==
  LET x == X(t)
      sw == {i \in Block(t) : CostTo(i, x) < pts[i].cost}
      stay(c) == {i \in Block(t) \ sw : ctab[pts[i].assign] = c}
  IN  /\ tpc[t] = "lower" /\ GoTo(t, "B822")
      /\ switches' = switches \cup sw
      /\ lows' = [lows EXCEPT ![t] = [c \in DOMAIN Zeros |->
                    Total([i \in DOMAIN pts |-> pts[i].cost - CostTo(i, x)], stay(c))]]
      /\ Set(t, [loc[t] EXCEPT !.opening =
                   Total([i \in DOMAIN pts |-> CostTo(i, x) - pts[i].cost], sw)])
      /\ UNCHANGED <<streamVars, pts, isC, k, kfinal, speedyVars, feas, hizs, ctab, glLow, glCost,
                     glClose>>

Low(t) ==
  LET low(i) == loc[t].z + Total([p \in Team |-> lows[p][ctab[i]]], Team)
      closing == {i \in Block(t) \cap isC : low(i) > 0}
      slot(c) == {i \in Block(t) \cap isC : ctab[i] = c}
  IN  /\ tpc[t] = "low" /\ GoTo(t, "B851")
      /\ glLow' = [c \in DOMAIN Zeros |-> IF slot(c) = {} THEN glLow[c]
                                          ELSE low(CHOOSE i \in slot(c) : TRUE)]
      /\ Set(t, [loc[t] EXCEPT !.close = Cardinality(closing),
                               !.opening = @ - Total([i \in DOMAIN pts |-> low(i)], closing)])
      /\ UNCHANGED <<streamVars, pts, isC, k, kfinal, speedyVars, feas, hizs, ctab, lows, switches,
                     glCost, glClose>>

\* Fault variant of SumUp: the cost of the new facility is forgotten.
SumUpFree(t) ==
  /\ tpc[t] = "sumup" /\ GoTo(t, "B863")
  /\ glCost' = IF t = 0 THEN Total([p \in Team |-> loc[p].opening], Team) ELSE glCost
  /\ glClose' = IF t = 0 THEN glClose + Total([p \in Team |-> loc[p].close], Team) ELSE glClose
  /\ UNCHANGED <<streamVars, pts, isC, k, kfinal, speedyVars, feas, hizs, ctab, lows, glLow,
                 switches, loc>>

SumUp(t) ==
  /\ tpc[t] = "sumup" /\ GoTo(t, "B863")
  /\ glCost' = IF t = 0 THEN loc[t].z + Total([p \in Team |-> loc[p].opening], Team) ELSE glCost
  /\ glClose' = IF t = 0 THEN glClose + Total([p \in Team |-> loc[p].close], Team) ELSE glClose
  /\ UNCHANGED <<streamVars, pts, isC, k, kfinal, speedyVars, feas, hizs, ctab, lows, glLow,
                 switches, loc>>

NewCount(t) == k + 1 - glClose

Apply(t) ==
  LET x == X(t)
      closes(i) == glLow[ctab[i]] > 0
      moves == {i \in Block(t) : i \in switches \/ closes(pts[i].assign)}
  IN  /\ tpc[t] = "apply" /\ GoTo(t, "B898")
      /\ \/ /\ glCost < 0
            /\ pts' = [i \in DOMAIN pts |-> IF i \in moves
                         THEN [pts[i] EXCEPT !.cost = CostTo(i, x), !.assign = x] ELSE pts[i]]
            /\ isC' = (isC \ {i \in Block(t) : closes(i)}) \cup ({x} \cap Block(t))
            /\ k' = IF t = 0 THEN NewCount(t) ELSE k
            /\ UNCHANGED glCost
         \/ /\ glCost >= 0
            /\ glCost' = IF t = 0 THEN 0 ELSE glCost
            /\ UNCHANGED <<pts, isC, k>>
      /\ UNCHANGED <<streamVars, kfinal, speedyVars, feas, hizs, ctab, lows, glLow, switches, glClose,
                     loc>>

\* pgain returns; pFL calls it again or ends its round.
Gained(t) ==
  LET l == [loc[t] EXCEPT !.change = @ - glCost, !.it = @ + 1]
  IN  /\ tpc[t] = "gained"
      /\ IF l.it < Iter THEN Set(t, l) /\ GoTo(t, "B705")
         ELSE Set(t, [l EXCEPT !.cost = @ - l.change]) /\ GoTo(t, "B939")
      /\ UNCHANGED <<streamVars, pts, isC, k, kfinal, speedyVars, feas, hizs, gainVars>>

----------------------------------------------------------------------------
ThreadStep(t) ==
  \/ Hizs(t) \/ SumHizs(t) \/ Assign(t) \/ WaitOpen(t) \/ WorkerClaim(t)
  \/ MyCost(t) \/ TotalCost(t) \/ Decide(t) \/ Rough(t) \/ Round(t) \/ Search(t)
  \/ Gain0(t) \/ Count(t) \/ Accum(t) \/ Offset(t) \/ Lower(t) \/ Low(t) \/ SumUp(t)
  \/ Apply(t) \/ Gained(t)

Master == MasterLoop \/ MasterClaim \/ MasterClose

Next ==
  \/ \E data \in Streams, isFile \in BOOLEAN : OpenStream(data, isFile)
  \/ ReadChunk \/ ChunkDone \/ ClusterCenters \/ PrintCenters
  \/ Barrier \/ Master \/ \E t \in Team : ThreadStep(t)

\* Some thread that can go on does.
Spec == Init /\ [][Next]_scvars /\ WF_scvars(Next)

----------------------------------------------------------------------------
(* Threads never wait at different calls of the barrier: the shared k,      *)
(* open and i on which they branch are the same for all of them whenever    *)
(* they look, so no thread takes part in a round that another has left.     *)
(* (Workers and master call it at different lines while they open a center.)*)
SameBarrier ==
  \A t, u \in Team : AtBarrier(t) /\ AtBarrier(u) =>
    tpc[t] = tpc[u] \/ {tpc[t], tpc[u]} \in {{"B628", "B656"}, {"B629", "B660"}}

(* Between rounds of pgain the number k that decides about the search is    *)
(* the number of centers, and every point is assigned to a center, at the   *)
(* cost of its distance.                                                    *)
CentersConsistent ==
  (\A t \in Team : tpc[t] = "B705") =>
    /\ k = Cardinality(isC)
    /\ \A i \in DOMAIN pts : pts[i].assign \in isC /\ pts[i].cost = CostTo(i, pts[i].assign)

(* The cost each thread keeps by subtracting the gains it is told is the    *)
(* cost of the solution: z for each center and the cost of each point.      *)
CostIsExact ==
  \A t \in Team : (\A u \in Team : tpc[u] = "B939") =>
    loc[t].cost = loc[t].z * k + Total([i \in DOMAIN pts |-> pts[i].cost], DOMAIN pts)

(* Merging loses no point: the weights of the centers kept so far sum up to *)
(* the number of points read, and so do the weights that are printed.       *)
WeightsKept ==
  /\ scRun \in {"read", "final"} => Total([i \in DOMAIN centers |-> centers[i].weight], DOMAIN centers) = nread
  /\ scRun = "done" => Total(printed, DOMAIN printed) = nread

\* What has to end once it has started, each search: the threads never all wait, for the
\* barrier or for a center to be opened, and the search for a facility cost that gives
\* between Kmin and Kmax centers gives up at some point.
Started == scRun = "search"
Ended == Joined

=============================================================================
