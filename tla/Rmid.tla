-------------------------------- MODULE Rmid --------------------------------
(***************************************************************************)
(* The RMID manager behind Intel's memory bandwidth monitoring (MBM), as   *)
(* built with HRP_USE_RDT: mbm_init gives each online core a resource      *)
(* monitoring id, the ioctl HRP_PMC_IOC_RDT_SET_RMID_ON_CORE retags a      *)
(* core, the poll handler reads the counters of the id the table holds for *)
(* its core, and mbm_deinit takes the ids back.  A core's tag lives twice: *)
(* in the core's PQR_ASSOC register (pqr) and in rmid_table; the ioctl     *)
(* writes the two in separate steps and without the manager's lock.        *)
(***************************************************************************)
EXTENDS Integers, FiniteSets

CONSTANTS NCores,       \* number of possible cores, at most MAX_CORES
          MAX_CORES,    \* slots of rmid_table and of core_to_rmid_map
          RmidSpace,    \* ids the MSR fields can hold: PQR_ASSOC_RMID_MASK + 1
          DefaultMax,   \* DEFAULT_MAX_RMID
          RawMax,       \* the highest ids CPUID may report
          UserRmids,    \* the ids a client may ask for
          Clients,      \* threads that may be inside the ioctl
          MaxLoads      \* bound: how often the module is loaded

\* What the module assumes of its constants.
RmidAssumption ==
  /\ NCores \in Nat \ {0} /\ MAX_CORES \in Nat /\ NCores <= MAX_CORES
  /\ RmidSpace \in Nat /\ NCores < RmidSpace
  /\ DefaultMax \in 1..(RmidSpace - 1)
  /\ RawMax \subseteq Nat /\ UserRmids \subseteq Nat

Cores == 0..(NCores - 1)
Slots == 0..(MAX_CORES - 1)
RMID0 == 0
None == -1              \* a NULL rmid_info, or no core

VARIABLES
  online,       \* the online cores
  loads,        \* loads so far
  loaded,       \* the module is loaded and mbm_init has succeeded
  max_rmid,     \* g_mbm_mgr.max_rmid
  table,        \* rmid_table: slot -> [rmid, core, in_use]
  haveTable,    \* rmid_table # NULL
  map,          \* core_to_rmid_map
  num,          \* num_cores
  pqr,          \* the RMID field of each core's PQR_ASSOC register
  call,         \* client -> its ioctl: [at, core, rmid]
  raced,        \* cores on which two ioctls have overlapped
  userSet,      \* some ioctl has retagged a core since the load
  crashedOn     \* the core whose lookup was dereferenced while NULL, or None

rmidVars == <<online, loads, loaded, max_rmid, table, haveTable, map, num, pqr,
          call, raced, userSet, crashedOn>>
mgr == <<loaded, max_rmid, table, haveTable, map, num>>

Entry == [rmid : Nat, core : Cores, in_use : BOOLEAN]
ZeroTable == [s \in Slots |-> [rmid |-> 0, core |-> 0, in_use |-> FALSE]]
NoCall == [at |-> "idle", core |-> 0, rmid |-> 0]

RmidInit ==
  /\ online \in SUBSET Cores \ {{}}
  /\ loads = 0 /\ loaded = FALSE /\ haveTable = FALSE
  /\ max_rmid = 0 /\ num = 0
  /\ table = ZeroTable /\ map = [c \in Cores |-> 0]
  /\ pqr = [c \in Cores |-> 1]         \* another user has tagged the cores
  /\ call = [t \in Clients |-> NoCall]
  /\ raced = {} /\ userSet = FALSE /\ crashedOn = None

----------------------------------------------------------------------------
(* Lookups. *)

\* mbm_get_rmid_info_for_core: the slot of a core's entry, or NULL.
mbm_get_rmid_info_for_core(core) ==
  IF table[map[core]].in_use /\ table[map[core]].core = core
  THEN map[core] ELSE None

\* mbm_rmid_get_for_core: the id of a core, found by a scan of the table.
mbm_rmid_get_for_core(core) ==
  LET hits == {i \in 0..(num - 1) : table[i].in_use /\ table[i].core = core}
  IN  IF hits = {} THEN RMID0
      ELSE table[CHOOSE i \in hits : \A j \in hits : i <= j].rmid

\* mbm_set_rmid: the register keeps the id's low bits only.
mbm_set_rmid(rmid) == rmid % RmidSpace

\* mbm_read_event: the event selector masks the id in the same way.
EventSelect(rmid) == rmid % RmidSpace

----------------------------------------------------------------------------
(* Loading and unloading. *)

\* mbm_init_cap: an id limit the fields cannot hold is replaced.
CapMaxRmid(raw) ==
  IF raw = 0 \/ raw > RmidSpace - 1 THEN DefaultMax ELSE raw

\* mbm_rmid_clear_assoc: every online core goes back to RMID 0.
Cleared == [c \in Cores |-> IF c \in online THEN RMID0 ELSE pqr[c]]

\* The position of a core in for_each_online_cpu.
Rank(c) == Cardinality({d \in online : d < c})

\* The cores the loop of mbm_rmid_allocate_all_cores reaches before it finds
\* num_cores > max_rmid.
Managed(limit) == {c \in online : Rank(c) <= limit}

\* The table mbm_rmid_allocate_all_cores leaves: slot k holds the k-th online
\* core, tagged with the core's number plus one.
AllocTable(limit) ==
  [s \in Slots |->
     IF \E c \in Managed(limit) : Rank(c) = s
     THEN LET core == CHOOSE c \in Managed(limit) : Rank(c) = s
          IN  [rmid |-> core + 1, core |-> core, in_use |-> TRUE]
     ELSE [rmid |-> 0, core |-> 0, in_use |-> FALSE]]

\* The map it leaves: cores without an entry point at the last slot.
AllocMap(limit) ==
  [c \in Cores |-> IF c \in Managed(limit) THEN Rank(c) ELSE MAX_CORES - 1]

\* mbm_init on a machine with MBM and the allocation of the table succeeding.
Load ==
  /\ ~loaded /\ loads < MaxLoads /\ crashedOn = None
  /\ \E raw \in RawMax :
       LET limit == CapMaxRmid(raw) IN
       /\ max_rmid' = limit
       /\ table' = AllocTable(limit)
       /\ map' = AllocMap(limit)
       /\ num' = Cardinality(Managed(limit))
       /\ pqr' = [c \in Cores |-> IF c \in Managed(limit)
                                  THEN mbm_set_rmid(table'[Rank(c)].rmid) ELSE Cleared[c]]
  /\ loaded' = TRUE /\ haveTable' = TRUE /\ loads' = loads + 1
  /\ raced' = {} /\ userSet' = FALSE
  /\ UNCHANGED <<online, call, crashedOn>>

\* mbm_rmid_init without memory for the table: mbm_init ignores the error and
\* the module loads with a zeroed manager and no table.
LoadNoTable ==
  /\ ~loaded /\ loads < MaxLoads /\ crashedOn = None
  /\ \E raw \in RawMax : max_rmid' = CapMaxRmid(raw)
  /\ table' = ZeroTable /\ map' = [c \in Cores |-> 0] /\ num' = 0
  /\ loaded' = TRUE /\ haveTable' = FALSE /\ loads' = loads + 1
  /\ raced' = {} /\ userSet' = FALSE
  /\ UNCHANGED <<online, pqr, call, crashedOn>>

\* mbm_rmid_deallocate_all: the cores of the entries in use go back to RMID 0.
Released ==
  [c \in Cores |->
     IF \E i \in 0..(num - 1) : table[i].in_use /\ table[i].core = c
     THEN mbm_set_rmid(RMID0) ELSE pqr[c]]

\* mbm_deinit.  The module is not unloaded while a client holds the device.
Unload ==
  /\ loaded /\ crashedOn = None /\ \A t \in Clients : call[t].at = "idle"
  /\ pqr' = Released
  /\ table' = ZeroTable /\ haveTable' = FALSE /\ num' = 0
  /\ loaded' = FALSE
  /\ UNCHANGED <<online, loads, max_rmid, map, call, raced, userSet, crashedOn>>

----------------------------------------------------------------------------
(* The ioctl and the poll handler. *)

\* mbm_set_rmid_for_core, first half: the cross call writes the register.
SetTag(t, core, rmid) ==
  /\ loaded /\ crashedOn = None /\ call[t].at = "idle" /\ core \in online
  /\ pqr' = [pqr EXCEPT ![core] = mbm_set_rmid(rmid)]
  /\ call' = [call EXCEPT ![t] = [at |-> "tagged", core |-> core, rmid |-> rmid]]
  /\ raced' = IF \E u \in Clients \ {t} : call[u].at = "tagged" /\ call[u].core = core
              THEN raced \cup {core} ELSE raced
  /\ userSet' = TRUE
  /\ UNCHANGED <<online, loads, mgr, crashedOn>>

\* Fault variant of SetEntry: the entry is marked in use but keeps its old id.
SetEntryKeepsId(t) ==
  /\ call[t].at = "tagged" /\ crashedOn = None
  /\ call' = [call EXCEPT ![t] = NoCall]
  /\ LET slot == IF haveTable THEN mbm_get_rmid_info_for_core(call[t].core)
                 ELSE None IN
     IF slot = None
     THEN crashedOn' = call[t].core /\ UNCHANGED table
     ELSE table' = [table EXCEPT ![slot].in_use = TRUE] /\ UNCHANGED crashedOn
  /\ UNCHANGED <<online, loads, loaded, max_rmid, haveTable, map, num, pqr,
                 raced, userSet>>

\* mbm_set_rmid_for_core, second half: the entry is looked up and written.  The
\* lookup's result is not tested, so a core without an entry is a NULL
\* dereference.
SetEntry(t) ==
  /\ call[t].at = "tagged" /\ crashedOn = None
  /\ call' = [call EXCEPT ![t] = NoCall]
  /\ LET slot == IF haveTable THEN mbm_get_rmid_info_for_core(call[t].core)
                 ELSE None IN
     IF slot = None
     THEN crashedOn' = call[t].core /\ UNCHANGED table
     ELSE /\ table' = [table EXCEPT ![slot].rmid = call[t].rmid,
                                    ![slot].in_use = TRUE]
          /\ UNCHANGED crashedOn
  /\ UNCHANGED <<online, loads, loaded, max_rmid, haveTable, map, num, pqr,
                 raced, userSet>>

\* The id whose counters the RDT part of hrperf_poller_func reads on a core;
\* without an entry the record's fields stay unset.
PolledRmid(core) ==
  LET slot == mbm_get_rmid_info_for_core(core)
  IN  IF slot = None THEN None ELSE EventSelect(table[slot].rmid)

\* The handler runs on a core.  What it reads goes to the core's ring buffer and
\* changes nothing here; with no table the lookup itself faults.
PollCore(core) ==
  /\ loaded /\ crashedOn = None /\ core \in online
  /\ crashedOn' = IF haveTable THEN None ELSE core
  /\ UNCHANGED <<online, loads, mgr, pqr, call, raced, userSet>>

\* A dereference of NULL stops the machine.
Halted == crashedOn # None /\ UNCHANGED rmidVars

\* The bound on loads is reached and the module is out.
RmidFinished == ~loaded /\ loads = MaxLoads /\ UNCHANGED rmidVars

RmidNext ==
  \/ Load \/ LoadNoTable \/ Unload
  \/ \E t \in Clients, c \in Cores, r \in UserRmids : SetTag(t, c, r)
  \/ \E t \in Clients : SetEntry(t)
  \/ \E c \in Cores : PollCore(c)
  \/ Halted \/ RmidFinished

RmidSpec == RmidInit /\ [][RmidNext]_rmidVars

----------------------------------------------------------------------------
(* Properties. *)

\* No ioctl on the core is half done and no two of them have overlapped.
Settled(core) ==
  core \notin raced /\ \A t \in Clients : call[t].at = "tagged" => call[t].core # core

\* A poll reads the counters of the id its core is really tagged with, whatever
\* ids (wider than the field too) were set before, unless an ioctl on the core
\* is half done or two of them have overlapped (hrperf.c's handler against
\* mbm_set_rmid_for_core, which writes the register and the table apart).
ReadsOwnRmid ==
  loaded /\ haveTable =>
    \A c \in online : Settled(c) /\ PolledRmid(c) # None => PolledRmid(c) = pqr[c]

\* Until a client retags a core, the cores with an entry hold distinct ids,
\* none of them the reserved one (mbm_rmid_allocate_all_cores,
\* "Assign unique RMID to each online core").
UniqueAfterLoad ==
  loaded /\ haveTable /\ ~userSet =>
    \A c, d \in Managed(max_rmid) :
      /\ pqr[c] # RMID0
      /\ c # d => pqr[c] # pqr[d]

\* The index map and the scan of the table name the same id for every core:
\* mbm_get_rmid_info_for_core and mbm_rmid_get_for_core agree.
LookupsAgree ==
  loaded /\ haveTable =>
    \A c \in Cores :
      LET slot == mbm_get_rmid_info_for_core(c) IN
      mbm_rmid_get_for_core(c) = IF slot = None THEN RMID0 ELSE table[slot].rmid

\* Whenever the module can be unloaded, that puts every online core back at
\* RMID 0, however the ioctl has retagged the cores (mbm_rmid_deallocate_all),
\* unless the module runs without a table.
UnloadRestores ==
  loaded /\ haveTable /\ crashedOn = None /\ (\A t \in Clients : call[t].at = "idle") =>
    \A c \in online : Released[c] = RMID0

\* A NULL entry is only dereferenced for a core the manager never gave an id to,
\* or when the table could not be allocated (mbm_set_rmid_for_core).
FaultOnlyUnmanaged ==
  crashedOn # None => ~haveTable \/ crashedOn \notin Managed(max_rmid)

\* All of the above: what the manager in rmid.c and mbm.c owes the rest of the
\* module.
RmidsTrue ==
  /\ ReadsOwnRmid /\ UniqueAfterLoad /\ LookupsAgree
  /\ FaultOnlyUnmanaged /\ UnloadRestores

=============================================================================
