----------------------------- MODULE AnalysisDb -----------------------------
(***************************************************************************)
(* The scripts that fill analysis.duckdb (parsing/), run one at a time, in *)
(* any order and any number of times, each of which may be interrupted     *)
(* between two statements.  A statement is atomic and durable, and the     *)
(* file can be open in one script only.  Tables are followed for one       *)
(* recording and one function.                                             *)
(*                                                                         *)
(* parse_hrp.py computes the bandwidth column as a product with            *)
(* 64.0.alias(...): a float has no such attribute, so the script raises    *)
(* before it opens the database unless it is run for a counter combination *)
(* without offcore counters, which has no bandwidth column.  Then          *)
(* compute_invocation_metrics.py raises when it selects that column, and   *)
(* the statements after it are never reached.                              *)
(***************************************************************************)
EXTENDS Integers, Sequences, FiniteSets, FiniteSetsExt

CONSTANTS Events,       \* stack samples of the function in the recording
          MaxScripts    \* bound: scripts run

VARIABLES
  script,     \* the script that runs, "none" between scripts
  step,       \* statements it has executed
  count,      \* scripts started
  ldb,        \* ldb_events: -1 absent, else times the recording was inserted
  perfRows,   \* performance_events: -1 absent, else times its rows were inserted
  node,       \* node_memory_bandwidth has rows
  dump,       \* sched_dumped.txt exists
  sched,      \* threads_scheduling: -1 absent, else times its rows were inserted
  index,      \* an index named idx_thread_id exists, on either table
  invRows,    \* <f>_invocations: sequence of [id, ev]
  todo,       \* search_func: rows fetched and not inserted yet, and the next id
  searches,   \* history: searches that inserted all samples, and the others
  raised      \* history: scripts that ended with an exception

tables == <<ldb, perfRows, node, dump, sched, index, invRows>>
vars == <<script, step, count, tables, todo, searches, raised>>

Scripts == {"parse_ldb", "parse_hrp", "parse_hrp_combination", "parse_sched",
            "search_func", "compute_invocation_metrics"}

Init ==
  /\ script = "none" /\ step = 0 /\ count = 0
  /\ ldb = -1 /\ perfRows = -1 /\ node = FALSE
  /\ dump = FALSE /\ sched = -1 /\ index = FALSE /\ invRows = << >>
  /\ todo = [rows |-> {}, id |-> 0, all |-> TRUE]
  /\ searches = [done |-> 0, partial |-> 0] /\ raised = {}

Begin(s) ==
  /\ script = "none" /\ count < MaxScripts
  /\ script' = s /\ step' = 0 /\ count' = count + 1
  /\ UNCHANGED <<tables, todo, searches, raised>>

At(s, k) == script = s /\ step = k
End == script' = "none" /\ step' = 0 /\ UNCHANGED count
GoOn == step' = step + 1 /\ UNCHANGED <<script, count>>
Raise == End /\ raised' = raised \cup {script}

----------------------------------------------------------------------------
\* CREATE TABLE IF NOT EXISTS
Created(t) == IF t = -1 THEN 0 ELSE t

\* parse_ldb.py: all events in one INSERT, whatever the table has.
ParseLdbCreates ==
  /\ At("parse_ldb", 0) /\ GoOn
  /\ ldb' = Created(ldb)
  /\ UNCHANGED <<perfRows, node, dump, sched, index, invRows, todo, searches, raised>>

ParseLdbInserts ==
  /\ At("parse_ldb", 1) /\ End
  /\ ldb' = ldb + 1
  /\ UNCHANGED <<perfRows, node, dump, sched, index, invRows, todo, searches, raised>>

\* parse_hrp.py with a bandwidth column.
ParseHrpRaises ==
  /\ At("parse_hrp", 0) /\ Raise
  /\ UNCHANGED <<tables, todo, searches>>

\* parse_hrp.py for a counter combination: both tables are created, rows with
\* ids from 1 are inserted into the first one only.
ParseHrpCreates ==
  /\ At("parse_hrp_combination", 0) /\ GoOn
  /\ perfRows' = Created(perfRows)
  /\ UNCHANGED <<ldb, node, dump, sched, index, invRows, todo, searches, raised>>

ParseHrpInserts ==
  /\ At("parse_hrp_combination", 1) /\ End
  /\ perfRows' = perfRows + 1
  /\ UNCHANGED <<ldb, node, dump, sched, index, invRows, todo, searches, raised>>

\* parse_sched.py: nothing is done if the dump of an earlier run is there.
\* A perf that fails leaves its dump, as an interruption does.
ParseSchedDumps ==
  /\ At("parse_sched", 0)
  /\ IF dump THEN End /\ UNCHANGED dump ELSE GoOn /\ dump' = TRUE
  /\ UNCHANGED <<ldb, perfRows, node, sched, index, invRows, todo, searches, raised>>

\* The table must not exist, not even without rows.
ParseSchedCreates ==
  /\ At("parse_sched", 1)
  /\ IF sched # -1 THEN End /\ UNCHANGED sched ELSE GoOn /\ sched' = 0
  /\ UNCHANGED <<ldb, perfRows, node, dump, index, invRows, todo, searches, raised>>

ParseSchedInserts ==
  /\ At("parse_sched", 2) /\ GoOn
  /\ sched' = sched + 1
  /\ UNCHANGED <<ldb, perfRows, node, dump, index, invRows, todo, searches, raised>>

\* search_func.py makes an index of the same name on ldb_events; index names
\* are unique in the database, so CREATE INDEX raises after a search.
ParseSchedIndexes ==
  /\ At("parse_sched", 3)
  /\ IF index THEN Raise ELSE End /\ UNCHANGED raised
  /\ index' = TRUE
  /\ UNCHANGED <<ldb, perfRows, node, dump, sched, invRows, todo, searches>>

\* The user removes the dump, as the script asks.
RemoveDump ==
  /\ script = "none" /\ dump /\ dump' = FALSE
  /\ UNCHANGED <<script, step, count, ldb, perfRows, node, sched, index, invRows, todo, searches, raised>>

\* search_func.py, and search_func_id.py alike: CREATE INDEX IF NOT EXISTS, which
\* raises without ldb_events.
SearchIndexes ==
  /\ At("search_func", 0)
  /\ IF ldb = -1 THEN Raise /\ UNCHANGED index
     ELSE GoOn /\ index' = TRUE /\ UNCHANGED raised
  /\ UNCHANGED <<ldb, perfRows, node, dump, sched, invRows, todo, searches>>

\* MAX(id) + 1, or 1.
NextId == Max({invRows[k].id : k \in DOMAIN invRows} \cup {0}) + 1

\* The samples of the function, twice if the recording was inserted twice; with
\* a sampling ratio below 1, any of them.
SearchFetch ==
  LET found == Events \X (1..ldb)
  IN  /\ At("search_func", 1) /\ GoOn
      /\ \E rows \in SUBSET found :
           todo' = [rows |-> rows, id |-> NextId, all |-> found # {} /\ rows = found]
      /\ UNCHANGED <<tables, searches, raised>>

\* One INSERT per row.
SearchInsert(r) ==
  /\ At("search_func", 2) /\ r \in todo.rows
  /\ invRows' = Append(invRows, [id |-> todo.id, ev |-> r[1]])
  /\ todo' = [todo EXCEPT !.rows = @ \ {r}, !.id = @ + 1]
  /\ UNCHANGED <<script, step, count, ldb, perfRows, node, dump, sched, index, searches, raised>>

Searched(full) == searches' = IF full THEN [searches EXCEPT !.done = @ + 1]
                                      ELSE [searches EXCEPT !.partial = @ + 1]

\* Fault variant of SearchEnd: the last row is not waited for.
SearchEndEarly ==
  /\ At("search_func", 2) /\ Cardinality(todo.rows) <= 1 /\ End
  /\ Searched(todo.all)
  /\ todo' = [todo EXCEPT !.rows = {}]
  /\ UNCHANGED <<tables, raised>>

SearchEnd ==
  /\ At("search_func", 2) /\ todo.rows = {} /\ End
  /\ Searched(todo.all)
  /\ UNCHANGED <<tables, todo, raised>>

\* compute_invocation_metrics.py: the tables must exist; the join with
\* performance_events names columns the table does not have.
ComputeMetrics ==
  /\ At("compute_invocation_metrics", 0)
  /\ IF perfRows = -1 \/ sched = -1 \/ searches.done + searches.partial = 0
     THEN End /\ UNCHANGED raised ELSE Raise
  /\ UNCHANGED <<tables, todo, searches>>

\* The script is interrupted.
Interrupt ==
  /\ script # "none" /\ End
  /\ IF At("search_func", 2) THEN Searched(FALSE) ELSE UNCHANGED searches
  /\ todo' = [todo EXCEPT !.rows = {}]
  /\ UNCHANGED <<tables, raised>>

Finished == script = "none" /\ count = MaxScripts /\ UNCHANGED vars

Next ==
  \/ \E s \in Scripts : Begin(s)
  \/ ParseLdbCreates \/ ParseLdbInserts \/ ParseHrpRaises \/ ParseHrpCreates \/ ParseHrpInserts
  \/ ParseSchedDumps \/ ParseSchedCreates \/ ParseSchedInserts \/ ParseSchedIndexes \/ RemoveDump
  \/ SearchIndexes \/ SearchFetch \/ (\E r \in todo.rows : SearchInsert(r)) \/ SearchEnd
  \/ ComputeMetrics \/ Interrupt \/ Finished

Spec == Init /\ [][Next]_vars

----------------------------------------------------------------------------
(* An invocation is identified by its id: no two rows share one, also after *)
(* repeated, sampled and interrupted searches.                              *)
InvocationIdsUnique == \A j, k \in DOMAIN invRows : invRows[j].id = invRows[k].id => j = k

(* A search without sampling that came to its end inserted every sample     *)
(* that was in the recording's table; rows of a sample beyond those come    *)
(* from the other searches or from a recording parsed twice.                *)
SearchesComplete ==
  \A e \in Events :
    LET n == Cardinality({k \in DOMAIN invRows : invRows[k].ev = e})
    IN  script # "search_func" =>
          n >= searches.done /\ (searches.partial = 0 /\ ldb <= 1 => n = searches.done)

(* The scheduling intervals are in the database at most once, however often *)
(* parse_sched.py is run or interrupted, and a run that ended with an       *)
(* exception has stored them; an interrupted run can leave the table empty  *)
(* for good.                                                                *)
SchedulingOnce == sched <= 1 /\ ("parse_sched" \in raised => sched = 1)

=============================================================================
