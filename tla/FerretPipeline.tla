--------------------------- MODULE FerretPipeline ---------------------------
(***************************************************************************)
(* The ferret workload (apps/parsec/ferret/ferret-pthreads.c): one thread  *)
(* walks a directory of query images, four pools of threads segment,       *)
(* extract, index and rank them, one thread prints the results.  Stages    *)
(* are joined by bounded queues, each closed once all its producers have   *)
(* signalled (queue.c, external).                                          *)
(*                                                                         *)
(* A directory is a sequence of entries [kind, sub]: an "image", "gone"    *)
(* (stat fails), a "locked" directory that opendir refuses, or a "dir"     *)
(* with entries sub.  An image is known by its path, a sequence of         *)
(* positions.                                                              *)
(***************************************************************************)
EXTENDS Integers, Sequences, FiniteSets

CONSTANTS Trees,      \* directories to choose from
          QDepth,     \* DEPTH
          PoolSize    \* NTHREAD_SEG = ... = NTHREAD_RANK

VARIABLES
  phase,    \* main: "init", "open", "run", "joined", "failed"
  monitored,\* hrperf_start was called, hrperf_pause was not
  dirTree,  \* the query directory
  path,     \* path: the name that is put together
  frames,   \* calls of dir_helper: entries to read, length of their prefix
  loaded,   \* images read by file_helper, in order
  qs,       \* queues 1..5: q_load_seg ... q_rank_out
  signals,  \* calls of queue_signal_terminate on each
  held,     \* item each pool thread works on, << >> or <<item>>
  gone,     \* pool threads that have returned
  lines,    \* images the output has a line for
  outEnded  \* t_out has returned

fvars == <<phase, monitored, dirTree, path, frames, loaded, qs, signals, held, gone, lines,
           outEnded>>
loadVars == <<dirTree, path, frames, loaded>>
poolVars == <<held, gone, lines, outEnded>>

PoolStages == 1..4
Slots == PoolStages \X (1..PoolSize)

\* Fault variant of Signallers: every queue waits for a whole pool.
SignallersPool(k) == PoolSize

\* Number of signals a queue is initialised to wait for.
Signallers(k) == IF k = 1 THEN 1 ELSE PoolSize

Init ==
  /\ phase = "init" /\ monitored = FALSE
  /\ dirTree = << >> /\ path = << >> /\ frames = << >> /\ loaded = << >>
  /\ qs = [k \in 1..5 |-> << >>] /\ signals = [k \in 1..5 |-> 0]
  /\ held = [w \in Slots |-> << >>] /\ gone = {} /\ lines = << >> /\ outEnded = FALSE

----------------------------------------------------------------------------
\* main: monitoring begins, the database is opened.  On an error main returns.
OpenDatabase ==
  /\ phase = "init" /\ monitored' = TRUE
  /\ phase' \in {"open", "failed"}
  /\ UNCHANGED <<loadVars, qs, signals, poolVars>>

\* main: the pools are created, t_load begins with its argument.
CreatePools(tree) ==
  /\ phase = "open" /\ phase' = "run"
  /\ dirTree' = tree /\ frames' = <<[todo |-> tree, at |-> 1, prefix |-> 0]>>
  /\ UNCHANGED <<monitored, path, loaded, qs, signals, poolVars>>

\* main: all threads are joined, the database is closed, monitoring ends.
JoinPools ==
  /\ phase = "run" /\ outEnded /\ gone = Slots /\ signals[1] = 1
  /\ \/ phase' = "joined" /\ monitored' = FALSE
     \/ phase' = "failed" /\ UNCHANGED monitored
  /\ UNCHANGED <<loadVars, qs, signals, poolVars>>

----------------------------------------------------------------------------
Enq(k, item) == Len(qs[k]) < QDepth /\ qs' = [qs EXCEPT ![k] = Append(@, item)]
Exhausted(k) == qs[k] = << >> /\ signals[k] = Signallers(k)

Top == frames[Len(frames)]
Entry == Top.todo[Top.at]
EntryPath == Append(path, Top.at)
Advance == [frames EXCEPT ![Len(frames)].at = @ + 1]

\* file_helper: the image goes to q_load_seg; scan_dir then removes its name.
LoadImage ==
  /\ phase = "run" /\ frames # << >> /\ Top.at <= Len(Top.todo) /\ Entry.kind = "image"
  /\ Enq(1, EntryPath)
  /\ loaded' = Append(loaded, EntryPath)
  /\ path' = SubSeq(path, 1, Top.prefix) /\ frames' = Advance
  /\ UNCHANGED <<phase, monitored, dirTree, signals, poolVars>>

\* scan_dir on a directory: dir_helper reads it, or fails and is ignored.
EnterDirectory ==
  /\ phase = "run" /\ frames # << >> /\ Top.at <= Len(Top.todo)
  /\ \/ /\ Entry.kind = "locked"
        /\ path' = SubSeq(path, 1, Top.prefix) /\ frames' = Advance
     \/ /\ Entry.kind = "dir"
        /\ path' = EntryPath
        /\ frames' = Append(Advance, [todo |-> Entry.sub, at |-> 1, prefix |-> Top.prefix + 1])
  /\ UNCHANGED <<phase, monitored, dirTree, loaded, qs, signals, poolVars>>

\* scan_dir of the directory above removes what was appended.
Leave(rest) ==
  path' = IF rest = << >> THEN path ELSE SubSeq(path, 1, rest[Len(rest)].prefix)

\* dir_helper returns: at the end of the directory, or when stat fails for an
\* entry, which gives up the rest of this directory only.
LeaveDirectory ==
  /\ phase = "run" /\ frames # << >>
  /\ Top.at > Len(Top.todo) \/ (Top.at <= Len(Top.todo) /\ Entry.kind = "gone")
  /\ frames' = SubSeq(frames, 1, Len(frames) - 1)
  /\ Leave(frames')
  /\ UNCHANGED <<phase, monitored, dirTree, loaded, qs, signals, poolVars>>

\* t_load ends.
LoadEnds ==
  /\ phase = "run" /\ frames = << >> /\ signals[1] = 0
  /\ signals' = [signals EXCEPT ![1] = 1]
  /\ UNCHANGED <<phase, monitored, loadVars, qs, poolVars>>

\* Fault variant of MayReturn: a thread returns when its queue is empty.
MayReturnEarly(k) == qs[k] = << >> /\ signals[k] > 0

\* dequeue returns -1.
MayReturn(k) == Exhausted(k)

\* t_seg, t_extract, t_vec and t_rank: take an item, pass its result on, and
\* signal the next queue once there are no more.
PoolStep(k, t) ==
  /\ phase = "run" /\ <<k, t>> \notin gone
  /\ \/ /\ held[<<k, t>>] = << >> /\ qs[k] # << >>
        /\ held' = [held EXCEPT ![<<k, t>>] = <<Head(qs[k])>>]
        /\ qs' = [qs EXCEPT ![k] = Tail(@)]
        /\ UNCHANGED <<gone, signals>>
     \/ /\ held[<<k, t>>] # << >> /\ Enq(k + 1, held[<<k, t>>][1])
        /\ held' = [held EXCEPT ![<<k, t>>] = << >>]
        /\ UNCHANGED <<gone, signals>>
     \/ /\ held[<<k, t>>] = << >> /\ MayReturn(k)
        /\ gone' = gone \cup {<<k, t>>}
        /\ signals' = [signals EXCEPT ![k + 1] = @ + 1]
        /\ UNCHANGED <<qs, held>>
  /\ UNCHANGED <<phase, monitored, loadVars, lines, outEnded>>

\* t_out: a line for each result; at the end the two counters must agree.
OutStep ==
  /\ phase = "run" /\ ~outEnded
  /\ \/ /\ qs[5] # << >> /\ lines' = Append(lines, Head(qs[5]))
        /\ qs' = [qs EXCEPT ![5] = Tail(@)] /\ UNCHANGED outEnded
     \/ Exhausted(5) /\ outEnded' = TRUE /\ UNCHANGED <<qs, lines>>
  /\ UNCHANGED <<phase, monitored, loadVars, signals, held, gone>>

LoadStep == LoadImage \/ EnterDirectory \/ LeaveDirectory \/ LoadEnds

Proceed == JoinPools \/ LoadStep \/ OutStep \/ \E w \in Slots : PoolStep(w[1], w[2])

Next == Proceed \/ OpenDatabase \/ \E tree \in Trees : CreatePools(tree)

\* The weakest fairness: as long as some thread can go on, one does.
Spec == Init /\ [][Next]_fvars /\ WF_fvars(Proceed)

----------------------------------------------------------------------------
\* Images of a directory (of two levels at most) that no failing entry hides.
Reachable(tree) ==
  LET visible(dir) == {i \in 1..Len(dir) : \A j \in 1..i : dir[j].kind # "gone"}
      images(dir) == {i \in visible(dir) : dir[i].kind = "image"}
      subs == {i \in visible(tree) : tree[i].kind = "dir"}
  IN  {<<i>> : i \in images(tree)}
        \cup UNION {{<<i, j>> : j \in images(tree[i].sub)} : i \in subs}

(* Each name handed to the pipeline is the path of a real image, also after *)
(* a subdirectory was left early; when the walk is over, exactly the images *)
(* were loaded that no failing entry of their own directory comes before.   *)
WalkReadsImages ==
  /\ \A i \in DOMAIN loaded : loaded[i] \in Reachable(dirTree)
  /\ signals[1] = 1 => Reachable(dirTree) = {loaded[i] : i \in DOMAIN loaded}

(* When t_out ends, each image has its line in the output and no image has  *)
(* two: the assertion on cnt_enqueue and cnt_dequeue holds, though the      *)
(* threads of a pool end one by one while others still work.                *)
LineForEachImage ==
  outEnded => /\ Len(lines) = Len(loaded)
              /\ {lines[i] : i \in DOMAIN lines} = {loaded[i] : i \in DOMAIN loaded}

\* What has to end once it has started: queues of a limited depth never make all stages wait
\* for each other, so that main gets to join the pools.
Started == phase = "run"
Ended == phase \in {"joined", "failed"}

=============================================================================
