----------------------------- MODULE RmidProofs -----------------------------
(***************************************************************************)
(* Proofs about Rmid, for every number of cores, every set of online       *)
(* cores, every id limit and any number of clients and loads: the table of *)
(* mbm_rmid_allocate_all_cores and the cores' registers stay in step.      *)
(***************************************************************************)
EXTENDS Rmid, FiniteSetTheorems, TLAPS

(* The types, without the bound on loads.                                  *)
Types ==
  /\ online \subseteq Cores
  /\ loaded \in BOOLEAN /\ haveTable \in BOOLEAN
  /\ max_rmid \in Nat
  /\ table \in [Slots -> Entry]
  /\ pqr \in [Cores -> Nat]
  /\ call \in [Clients -> [at : {"idle", "tagged"}, core : Cores, rmid : Nat]]
  /\ crashedOn \in Cores \cup {None}

(* The table's slots in use are those of the managed cores, one each, in   *)
(* the order of for_each_online_cpu; only the ids in them ever change.     *)
TableShape ==
  /\ num = Cardinality(Managed(max_rmid))
  /\ \A c \in Cores :
       map[c] = IF c \in Managed(max_rmid) THEN Rank(c) ELSE MAX_CORES - 1
  /\ \A s \in Slots : table[s].in_use => \E c \in Managed(max_rmid) : Rank(c) = s
  /\ \A c \in Managed(max_rmid) : table[Rank(c)].in_use /\ table[Rank(c)].core = c

(* What holds of the ids while the module is loaded with a table.          *)
TagsInStep ==
  \* a managed core that is settled is tagged as its entry says
  /\ \A c \in Managed(max_rmid) :
       Settled(c) => pqr[c] = table[Rank(c)].rmid % RmidSpace
  \* a half done ioctl has left its id in the register, unless overtaken
  /\ \A t \in Clients :
       call[t].at = "tagged" /\ call[t].core \notin raced =>
         pqr[call[t].core] = call[t].rmid % RmidSpace
  \* before the first ioctl the ids are those of the load
  /\ ~userSet => \A c \in Managed(max_rmid) : pqr[c] = c + 1
  \* a core without an entry is tagged only by an ioctl that is about to fault
  /\ crashedOn = None =>
       \A c \in online \ Managed(max_rmid) :
         pqr[c] = 0 \/ \E t \in Clients : call[t].at = "tagged" /\ call[t].core = c
  /\ crashedOn \notin Managed(max_rmid)

RmidInv ==
  /\ Types
  /\ ~loaded => crashedOn = None /\ \A t \in Clients : call[t].at = "idle"
  /\ loaded /\ haveTable => TableShape /\ TagsInStep

-----------------------------------------------------------------------------
(* for_each_online_cpu: ranks are positions, within the table, and no two  *)
(* online cores share one.                                                 *)
LEMMA RankFacts ==
  ASSUME RmidAssumption, online \subseteq Cores
  PROVE  /\ \A c \in online : Rank(c) \in Slots
         /\ \A c, d \in online : Rank(c) = Rank(d) => c = d
         /\ \A c, d \in online : d < c => Rank(d) <= Rank(c)
<1> DEFINE Below(c) == {d \in online : d < c}
<1>1. \A x \in online : x \in Int
  BY DEF RmidAssumption, Cores
<1>2. IsFiniteSet(online) /\ Cardinality(online) \in Nat /\ Cardinality(online) <= NCores
  <2>1. IsFiniteSet(Cores) /\ Cardinality(Cores) = NCores
    BY FS_Interval DEF RmidAssumption, Cores
  <2> QED BY <2>1, FS_Subset, FS_CardinalityType
<1>3. ASSUME NEW c \in online
      PROVE  /\ IsFiniteSet(Below(c)) /\ Rank(c) \in Nat
             /\ Cardinality(Below(c) \cup {c}) = Rank(c) + 1
  <2>1. Below(c) \in SUBSET online /\ Rank(c) = Cardinality(Below(c))
    BY DEF Rank
  <2>2. c \notin Below(c)
    BY <1>1
  <2> HIDE DEF Below
  <2>3. IsFiniteSet(Below(c))
    BY <1>2, <2>1, FS_Subset
  <2> QED BY <2>1, <2>2, <2>3, FS_CardinalityType, FS_AddElement
<1> HIDE DEF Below
<1>4. \A c \in online : Rank(c) \in Nat
  BY <1>3
<1>5. ASSUME NEW c \in online PROVE Rank(c) < NCores
  <2>1. Below(c) \cup {c} \in SUBSET online
    BY DEF Below
  <2>2. Cardinality(Below(c) \cup {c}) <= Cardinality(online)
    BY <1>2, <2>1, FS_Subset
  <2> QED BY <1>2, <1>3, <2>2 DEF RmidAssumption
<1>6. ASSUME NEW c \in online, NEW d \in online, d < c PROVE Rank(d) < Rank(c)
  <2>1. Below(d) \cup {d} \in SUBSET Below(c) /\ Rank(c) = Cardinality(Below(c))
    BY <1>1, <1>6 DEF Below, Rank
  <2>2. Cardinality(Below(d) \cup {d}) <= Cardinality(Below(c))
    BY <1>3, <2>1, FS_Subset
  <2>3. Cardinality(Below(d) \cup {d}) = Rank(d) + 1
    BY <1>3
  <2>4. Rank(c) \in Nat /\ Rank(d) \in Nat
    BY <1>4
  <2> QED BY <2>1, <2>2, <2>3, <2>4
<1>7. \A c \in online : Rank(c) \in Slots
  BY <1>4, <1>5 DEF RmidAssumption, Slots
<1>8. ASSUME NEW c \in online, NEW d \in online, Rank(c) = Rank(d) PROVE c = d
  <2>1. c < d \/ d < c \/ c = d
    BY <1>1
  <2> QED BY <1>4, <1>6, <1>8, <2>1
<1>9. ASSUME NEW c \in online, NEW d \in online, d < c PROVE Rank(d) <= Rank(c)
  BY <1>4, <1>6, <1>9
<1> QED BY <1>7, <1>8, <1>9

(* The cores the allocation reached fill the table's first slots.          *)
LEMMA ManagedFacts ==
  ASSUME RmidAssumption, online \subseteq Cores, NEW limit \in Nat
  PROVE  /\ Managed(limit) \subseteq online
         /\ \A c \in Managed(limit) : Rank(c) \in 0..(Cardinality(Managed(limit)) - 1)
         /\ Cardinality(Managed(limit)) \in 0..MAX_CORES
<1>1. /\ \A c \in online : c \in Int /\ Rank(c) \in Nat
      /\ \A c, d \in online : d < c => Rank(d) <= Rank(c)
  <2>1. \A c \in online : c \in Int
    BY DEF RmidAssumption, Cores
  <2>2. \A x \in Slots : x \in Nat
    BY DEF RmidAssumption, Slots
  <2> QED BY <2>1, <2>2, RankFacts
<1>2. Managed(limit) \subseteq online
  BY DEF Managed
<1>3. IsFiniteSet(Managed(limit)) /\ Cardinality(Managed(limit)) <= NCores
  <2>1. IsFiniteSet(Cores) /\ Cardinality(Cores) = NCores
    BY FS_Interval DEF RmidAssumption, Cores
  <2> QED BY <1>2, <2>1, FS_Subset
<1>4. Cardinality(Managed(limit)) \in Nat
  BY <1>3, FS_CardinalityType
<1>5. ASSUME NEW c \in Managed(limit) PROVE Rank(c) < Cardinality(Managed(limit))
  <2> DEFINE Below == {d \in online : d < c}
  <2>1. Rank(c) = Cardinality(Below)
    BY DEF Rank
  <2>2. c \notin Below
    BY <1>1, <1>2
  <2>3. ASSUME NEW d \in online, d < c PROVE d \in Managed(limit)
    <3>1. Rank(d) \in Nat /\ Rank(c) \in Nat /\ Rank(d) <= Rank(c)
      BY <1>1, <1>2, <2>3
    <3>2. Rank(c) <= limit
      BY DEF Managed
    <3> QED BY <3>1, <3>2 DEF Managed
  <2>4. Below \cup {c} \in SUBSET Managed(limit) /\ Below \in SUBSET Managed(limit)
    BY <2>3
  <2> HIDE DEF Below
  <2>5. IsFiniteSet(Below) /\ Cardinality(Below) \in Nat
    BY <1>3, <2>4, FS_Subset, FS_CardinalityType
  <2>6. Cardinality(Below \cup {c}) = Cardinality(Below) + 1
    BY <2>2, <2>5, FS_AddElement
  <2>7. Cardinality(Below \cup {c}) <= Cardinality(Managed(limit))
    BY <1>3, <2>4, FS_Subset
  <2> QED BY <1>4, <2>1, <2>5, <2>6, <2>7
<1>6. \A c \in Managed(limit) : Rank(c) \in Nat
  BY <1>1, <1>2
<1> QED BY <1>2, <1>3, <1>4, <1>5, <1>6 DEF RmidAssumption

(* mbm_get_rmid_info_for_core finds the entries of the managed cores and   *)
(* of no others.                                                           *)
LEMMA LookupFacts ==
  ASSUME RmidAssumption, Types, TableShape, NEW c \in Cores
  PROVE  mbm_get_rmid_info_for_core(c) =
           IF c \in Managed(max_rmid) THEN Rank(c) ELSE None
<1>1. CASE c \in Managed(max_rmid)
  BY <1>1 DEF TableShape, mbm_get_rmid_info_for_core
<1>2. CASE c \notin Managed(max_rmid)
  <2>1. map[c] = MAX_CORES - 1 /\ MAX_CORES - 1 \in Slots
    BY <1>2 DEF TableShape, RmidAssumption, Slots
  <2>2. table[map[c]].in_use => table[map[c]].core # c
    BY <1>2, <2>1 DEF TableShape
  <2> QED BY <1>2, <2>2 DEF mbm_get_rmid_info_for_core
<1> QED BY <1>1, <1>2

(* The fields of the MSRs hold any id up to the number of cores.           *)
LEMMA ModFacts ==
  ASSUME RmidAssumption
  PROVE  /\ \A x \in Nat : x % RmidSpace \in Nat
         /\ \A x \in 0..NCores : x % RmidSpace = x
BY SMTT(30) DEF RmidAssumption

(* The table mbm_rmid_allocate_all_cores leaves.                           *)
LEMMA AllocFacts ==
  ASSUME RmidAssumption, online \subseteq Cores, NEW limit \in Nat
  PROVE  /\ AllocTable(limit) \in [Slots -> Entry]
         /\ \A c \in Managed(limit) :
              /\ AllocTable(limit)[Rank(c)].rmid = c + 1
              /\ AllocTable(limit)[Rank(c)].core = c
              /\ AllocTable(limit)[Rank(c)].in_use
         /\ \A s \in Slots :
              AllocTable(limit)[s].in_use => \E c \in Managed(limit) : Rank(c) = s
<1> DEFINE Filled(c) == [rmid |-> c + 1, core |-> c, in_use |-> TRUE]
           Free == [rmid |-> 0, core |-> 0, in_use |-> FALSE]
<1>1. /\ Managed(limit) \subseteq online
      /\ \A c \in online : Rank(c) \in Slots
      /\ \A c, d \in Managed(limit) : Rank(c) = Rank(d) => c = d
  BY RankFacts, ManagedFacts
<1>2. Free \in Entry /\ \A c \in Cores : Filled(c) \in Entry
  BY DEF Entry, RmidAssumption, Cores
<1>3. ASSUME NEW c \in Managed(limit)
      PROVE  AllocTable(limit)[Rank(c)] = Filled(c)
  <2>1. (CHOOSE d \in Managed(limit) : Rank(d) = Rank(c)) = c
    BY <1>1
  <2> QED BY <1>1, <2>1 DEF AllocTable
<1>4. ASSUME NEW s \in Slots, ~ \E c \in Managed(limit) : Rank(c) = s
      PROVE  AllocTable(limit)[s] = Free
  BY <1>4 DEF AllocTable
<1>5. AllocTable(limit) = [s \in Slots |-> AllocTable(limit)[s]]
  BY DEF AllocTable
<1>6. \A s \in Slots : AllocTable(limit)[s] \in Entry
  BY <1>1, <1>2, <1>3, <1>4
<1> QED
  <2>1. AllocTable(limit) \in [Slots -> Entry]
    BY <1>5, <1>6
  <2>2. \A s \in Slots :
          AllocTable(limit)[s].in_use => \E c \in Managed(limit) : Rank(c) = s
    BY <1>4
  <2>3. ASSUME NEW c \in Managed(limit)
        PROVE  /\ AllocTable(limit)[Rank(c)].rmid = c + 1
               /\ AllocTable(limit)[Rank(c)].core = c
               /\ AllocTable(limit)[Rank(c)].in_use
    <3>1. AllocTable(limit)[Rank(c)] = Filled(c)
      BY <1>3
    <3>2. Filled(c).rmid = c + 1 /\ Filled(c).core = c /\ Filled(c).in_use
      BY Zenon
    <3> QED BY <3>1, <3>2
  <2> QED BY <2>1, <2>2, <2>3

-----------------------------------------------------------------------------
(* The invariant gives every property of the manager.                      *)
LEMMA InvImplies == ASSUME RmidAssumption, RmidInv PROVE RmidsTrue
<1> DEFINE M == Managed(max_rmid)
<1>1. Types /\ online \subseteq Cores /\ max_rmid \in Nat
  BY DEF RmidInv, Types
<1>2. /\ M \subseteq online
      /\ num = Cardinality(M) => \A c \in M : Rank(c) \in 0..(num - 1)
  BY <1>1, RankFacts, ManagedFacts
<1>3. FaultOnlyUnmanaged
  BY DEF RmidInv, TagsInStep, FaultOnlyUnmanaged, None
<1>4. CASE ~(loaded /\ haveTable)
  BY <1>3, <1>4 DEF RmidsTrue, ReadsOwnRmid, UniqueAfterLoad, LookupsAgree, UnloadRestores
<1>5. CASE loaded /\ haveTable
  <2>1. TableShape /\ TagsInStep
    BY <1>5 DEF RmidInv
  <2>2. \A c \in Cores : mbm_get_rmid_info_for_core(c) = IF c \in M THEN Rank(c) ELSE None
    BY <1>1, <2>1, LookupFacts
  <2>3. ReadsOwnRmid
    <3> SUFFICES ASSUME NEW c \in online, Settled(c), PolledRmid(c) # None
                 PROVE  PolledRmid(c) = pqr[c]
      BY DEF ReadsOwnRmid
    <3>1. c \in M
      BY <1>1, <2>2 DEF PolledRmid
    <3>2. PolledRmid(c) = table[Rank(c)].rmid % RmidSpace
      BY <1>1, <2>2, <3>1 DEF PolledRmid, EventSelect
    <3> QED BY <2>1, <3>1, <3>2 DEF TagsInStep
  <2>4. UniqueAfterLoad
    <3>1. \A c \in M : c \in Nat
      <4>1. \A c \in Cores : c \in Nat
        BY DEF Cores, RmidAssumption
      <4> HIDE DEF M
      <4> QED BY <1>1, <1>2, <4>1
    <3>2. ~userSet => \A c \in M : pqr[c] = c + 1
      BY <2>1 DEF TagsInStep
    <3> QED BY <3>1, <3>2 DEF UniqueAfterLoad, RMID0
  <2>5. ASSUME NEW c \in Cores
        PROVE  LET hits == {i \in 0..(num - 1) : table[i].in_use /\ table[i].core = c}
               IN  hits = IF c \in M THEN {Rank(c)} ELSE {}
    <3>1. \A i \in 0..(num - 1) : i \in Slots
      BY <1>1, <2>1, ManagedFacts DEF TableShape, Slots, RmidAssumption
    <3>2. \A i \in 0..(num - 1) :
            table[i].in_use /\ table[i].core = c => c \in M /\ i = Rank(c)
      BY <2>1, <3>1 DEF TableShape
    <3>3. c \in M => /\ Rank(c) \in 0..(num - 1)
                     /\ table[Rank(c)].in_use /\ table[Rank(c)].core = c
      BY <1>2, <2>1 DEF TableShape
    <3> QED BY <3>2, <3>3
  <2>6. ASSUME NEW c \in Cores
        PROVE  mbm_rmid_get_for_core(c) = IF c \in M THEN table[Rank(c)].rmid ELSE RMID0
    <3>1. CASE c \in M
      <4>1. (CHOOSE i \in {Rank(c)} : \A j \in {Rank(c)} : i <= j) = Rank(c)
        <5>1. Rank(c) \in Int
          BY <1>1, <1>2, <3>1, RankFacts DEF Slots
        <5> QED BY <5>1
      <4> QED BY <2>5, <3>1, <4>1 DEF mbm_rmid_get_for_core
    <3>2. CASE c \notin M
      BY <2>5, <3>2 DEF mbm_rmid_get_for_core
    <3> QED BY <3>1, <3>2
  <2>7. LookupsAgree
    <3>1. \A c \in M : Rank(c) # None
      BY <1>1, <1>2, RankFacts DEF Slots, None
    <3> QED BY <2>2, <2>6, <3>1 DEF LookupsAgree
  <2>8. UnloadRestores
    <3> SUFFICES ASSUME crashedOn = None, \A t \in Clients : call[t].at = "idle",
                        NEW c \in online
                 PROVE  Released[c] = RMID0
      BY DEF UnloadRestores
    <3>1. CASE c \in M
      <4>1. \E i \in 0..(num - 1) : table[i].in_use /\ table[i].core = c
        BY <1>2, <2>1, <3>1 DEF TableShape
      <4>2. mbm_set_rmid(RMID0) = RMID0
        BY ModFacts DEF mbm_set_rmid, RMID0, RmidAssumption
      <4> QED BY <1>1, <4>1, <4>2 DEF Released
    <3>2. CASE c \notin M
      <4>1. pqr[c] = 0
        BY <2>1, <3>2 DEF TagsInStep
      <4>2. ~ \E i \in 0..(num - 1) : table[i].in_use /\ table[i].core = c
        BY <1>1, <2>5, <3>2
      <4> QED BY <1>1, <4>1, <4>2 DEF Released, RMID0
    <3> QED BY <3>1, <3>2
  <2> QED BY <1>3, <2>3, <2>4, <2>7, <2>8 DEF RmidsTrue
<1> QED BY <1>4, <1>5

-----------------------------------------------------------------------------
(* The invariant holds before the first load.                              *)
LEMMA InvInit == ASSUME RmidAssumption, RmidInit PROVE RmidInv
<1>1. /\ ZeroTable \in [Slots -> Entry] /\ NoCall \in [at : {"idle", "tagged"}, core : Cores, rmid : Nat]
  BY DEF ZeroTable, NoCall, Entry, Cores, RmidAssumption
<1>2. Types
  BY <1>1 DEF RmidInit, Types
<1>3. \A t \in Clients : call[t].at = "idle"
  BY DEF RmidInit, NoCall
<1> QED BY <1>2, <1>3 DEF RmidInit, RmidInv

(* mbm_init with a table.                                                  *)
LEMMA InvLoad == ASSUME RmidAssumption, RmidInv, Load PROVE RmidInv'
<1>1. PICK raw \in RawMax :
        /\ max_rmid' = CapMaxRmid(raw)
        /\ table' = AllocTable(CapMaxRmid(raw))
        /\ map' = AllocMap(CapMaxRmid(raw))
        /\ num' = Cardinality(Managed(CapMaxRmid(raw)))
        /\ pqr' = [c \in Cores |-> IF c \in Managed(CapMaxRmid(raw))
                                   THEN mbm_set_rmid(table'[Rank(c)].rmid) ELSE Cleared[c]]
  BY DEF Load
<1> DEFINE limit == CapMaxRmid(raw)
           M == Managed(limit)
<1>2. limit \in Nat
  BY DEF CapMaxRmid, RmidAssumption
<1>3. Types /\ online \subseteq Cores /\ online' = online /\ call' = call
      /\ crashedOn = None /\ crashedOn' = None /\ loaded' = TRUE /\ haveTable' = TRUE
      /\ raced' = {} /\ userSet' = FALSE /\ \A t \in Clients : call[t].at = "idle"
  BY DEF RmidInv, Types, Load
<1> HIDE DEF limit
<1>4. /\ max_rmid' = limit /\ table' = AllocTable(limit) /\ map' = AllocMap(limit)
      /\ num' = Cardinality(M)
      /\ pqr' = [c \in Cores |-> IF c \in M THEN mbm_set_rmid(table'[Rank(c)].rmid) ELSE Cleared[c]]
  BY <1>1 DEF limit
<1>5. /\ M \subseteq online
      /\ AllocTable(limit) \in [Slots -> Entry]
      /\ \A c \in M : /\ AllocTable(limit)[Rank(c)].rmid = c + 1
                      /\ AllocTable(limit)[Rank(c)].core = c
                      /\ AllocTable(limit)[Rank(c)].in_use
      /\ \A s \in Slots : AllocTable(limit)[s].in_use => \E c \in M : Rank(c) = s
  BY <1>2, <1>3, AllocFacts, ManagedFacts
<1>6. \A c \in M : pqr'[c] = c + 1
  <2>1. \A c \in M : c \in Cores /\ c + 1 \in 0..NCores
    <3>1. \A c \in Cores : c + 1 \in 0..NCores
      BY DEF Cores, RmidAssumption
    <3> HIDE DEF M
    <3> QED BY <1>3, <1>5, <3>1
  <2>2. \A c \in M : pqr'[c] = mbm_set_rmid(c + 1)
    BY <1>4, <1>5, <2>1
  <2> QED BY <2>1, <2>2, ModFacts DEF mbm_set_rmid
<1>7. \A c \in Cores \ M : pqr'[c] = IF c \in online THEN 0 ELSE pqr[c]
  BY <1>4 DEF Cleared, RMID0
<1>8. pqr' \in [Cores -> Nat]
  <2>1. \A c \in Cores : pqr'[c] \in Nat
    BY <1>3, <1>5, <1>6, <1>7 DEF Types, Cores
  <2> QED BY <1>4, <2>1
<1>9. (\A c : Rank(c)' = Rank(c)) /\ Managed(max_rmid)' = M
  BY <1>3, <1>4 DEF Rank, Managed
<1>10. Types'
  BY <1>2, <1>3, <1>4, <1>5, <1>8 DEF Types
<1>11. TableShape'
  <2>1. \A c \in Cores : map'[c] = IF c \in M THEN Rank(c) ELSE MAX_CORES - 1
    BY <1>4 DEF AllocMap
  <2>2. \A s \in Slots : table'[s].in_use => \E c \in M : Rank(c) = s
    BY <1>4, <1>5
  <2>3. \A c \in M : table'[Rank(c)].in_use /\ table'[Rank(c)].core = c
    BY <1>4, <1>5
  <2> HIDE DEF M
  <2> QED BY <1>4, <1>9, <2>1, <2>2, <2>3 DEF TableShape
<1>12. TagsInStep'
  <2>1. \A c \in M : pqr'[c] = table'[Rank(c)].rmid % RmidSpace
    BY <1>3, <1>4, <1>5 DEF mbm_set_rmid
  <2>2. \A t \in Clients : call'[t].at # "tagged"
    BY <1>3
  <2>3. \A c \in online \ M : pqr'[c] = 0
    BY <1>3, <1>7
  <2>4. None \notin M
    BY <1>3, <1>5 DEF None, Cores
  <2> QED BY <1>3, <1>6, <1>9, <2>1, <2>2, <2>3, <2>4 DEF TagsInStep
<1> QED BY <1>3, <1>10, <1>11, <1>12 DEF RmidInv

(* A load without memory for the table, unloading, and a poll.             *)
LEMMA InvLifecycle ==
  ASSUME RmidAssumption, RmidInv, LoadNoTable \/ Unload \/ \E c \in Cores : PollCore(c)
  PROVE  RmidInv'
<1>1. ZeroTable \in [Slots -> Entry]
  BY DEF ZeroTable, Entry, Cores, RmidAssumption
<1>2. CASE LoadNoTable
  <2>1. \A raw \in RawMax : CapMaxRmid(raw) \in Nat
    BY DEF CapMaxRmid, RmidAssumption
  <2>2. Types'
    BY <1>1, <1>2, <2>1 DEF LoadNoTable, RmidInv, Types
  <2> QED BY <1>2, <2>2 DEF LoadNoTable, RmidInv
<1>3. CASE Unload
  <2>1. Released \in [Cores -> Nat]
    BY ModFacts DEF Released, mbm_set_rmid, RMID0, RmidInv, Types
  <2>2. Types'
    BY <1>1, <1>3, <2>1 DEF Unload, RmidInv, Types
  <2> QED BY <1>3, <2>2 DEF Unload, RmidInv
<1>4. ASSUME NEW c \in Cores, PollCore(c) PROVE RmidInv'
  <2>1. Types'
    BY <1>4 DEF PollCore, mgr, RmidInv, Types
  <2>2. CASE ~haveTable
    BY <1>4, <2>1, <2>2 DEF PollCore, mgr, RmidInv
  <2>3. CASE haveTable
    <3>1. UNCHANGED <<online, loaded, max_rmid, table, haveTable, map, num, pqr, call,
                      raced, userSet, crashedOn>>
      BY <1>4, <2>3 DEF PollCore, mgr
    <3>2. TableShape' = TableShape /\ TagsInStep' = TagsInStep
      BY <3>1 DEF TableShape, TagsInStep, Managed, Rank, Settled
    <3> QED BY <2>1, <3>1, <3>2 DEF RmidInv
  <2> QED BY <2>2, <2>3
<1> QED BY <1>2, <1>3, <1>4

(* The first half of mbm_set_rmid_for_core.                                *)
LEMMA InvSetTag ==
  ASSUME RmidAssumption, RmidInv,
         NEW t \in Clients, NEW c \in Cores, NEW r \in UserRmids, SetTag(t, c, r)
  PROVE  RmidInv'
<1>1. /\ loaded /\ loaded' = loaded /\ haveTable' = haveTable /\ max_rmid' = max_rmid
      /\ table' = table /\ map' = map /\ num' = num /\ online' = online
      /\ crashedOn' = crashedOn /\ userSet' = TRUE
      /\ call[t].at = "idle" /\ c \in online
      /\ call' = [call EXCEPT ![t] = [at |-> "tagged", core |-> c, rmid |-> r]]
      /\ pqr' = [pqr EXCEPT ![c] = r % RmidSpace]
  BY DEF SetTag, mgr, mbm_set_rmid
<1>2. /\ raced \subseteq raced'
      /\ (\E u \in Clients \ {t} : call[u].at = "tagged" /\ call[u].core = c) => c \in raced'
  BY DEF SetTag
<1>3. Types /\ r \in Nat /\ r % RmidSpace \in Nat
  BY ModFacts DEF RmidInv, RmidAssumption
<1>4. Types'
  BY <1>1, <1>3 DEF Types
<1>5. (\A d : Rank(d)' = Rank(d)) /\ Managed(max_rmid)' = Managed(max_rmid)
  BY <1>1 DEF Rank, Managed
<1>6. /\ call'[t].at = "tagged" /\ call'[t].core = c /\ call'[t].rmid = r
      /\ \A u \in Clients \ {t} : call'[u] = call[u]
      /\ pqr'[c] = r % RmidSpace
      /\ \A d \in Cores \ {c} : pqr'[d] = pqr[d]
  BY <1>1, <1>3 DEF Types
<1>7. CASE haveTable
  <2>1. TableShape /\ TagsInStep
    BY <1>1, <1>7 DEF RmidInv
  <2>2. TableShape'
    BY <1>1, <1>5, <2>1 DEF TableShape
  <2>3. Managed(max_rmid) \subseteq Cores /\ online \subseteq Cores
    BY <1>3, SMTT(30) DEF Managed, Types
  <2>4. ASSUME NEW d \in Managed(max_rmid), Settled(d)'
        PROVE  pqr'[d] = table'[Rank(d)].rmid % RmidSpace
    <3>1. d # c
      BY <1>6, <2>4 DEF Settled
    <3>2. Settled(d)
      BY <1>1, <1>2, <1>6, <2>4 DEF Settled
    <3> QED BY <1>1, <1>6, <2>1, <2>3, <3>1, <3>2 DEF TagsInStep
  <2>5. ASSUME NEW u \in Clients, call'[u].at = "tagged", call'[u].core \notin raced'
        PROVE  pqr'[call'[u].core] = call'[u].rmid % RmidSpace
    <3>1. CASE u = t
      BY <1>6, <3>1
    <3>2. CASE u # t
      <4>1. call'[u] = call[u] /\ call[u].core \in Cores
        BY <1>3, <1>6, <3>2 DEF Types
      <4>2. call[u].core # c
        BY <1>2, <2>5, <3>2, <4>1
      <4> QED BY <1>2, <1>6, <2>1, <2>5, <4>1, <4>2 DEF TagsInStep
    <3> QED BY <3>1, <3>2
  <2>6. ASSUME crashedOn = None, NEW d \in online \ Managed(max_rmid)
        PROVE  pqr'[d] = 0 \/ \E u \in Clients : call'[u].at = "tagged" /\ call'[u].core = d
    <3>1. CASE d = c
      BY <1>6, <3>1
    <3>2. CASE d # c
      <4>1. pqr'[d] = pqr[d]
        BY <1>6, <2>3, <3>2
      <4>2. pqr[d] = 0 \/ \E u \in Clients : call[u].at = "tagged" /\ call[u].core = d
        BY <2>1, <2>6 DEF TagsInStep
      <4>3. \A u \in Clients : call[u].at = "tagged" => call'[u] = call[u]
        BY <1>1, <1>6
      <4> QED BY <4>1, <4>2, <4>3
    <3> QED BY <3>1, <3>2
  <2>7. crashedOn' \notin Managed(max_rmid)
    BY <1>1, <2>1, SMTT(30) DEF TagsInStep
  <2>8. TagsInStep'
    BY <1>1, <1>5, <2>4, <2>5, <2>6, <2>7, SMTT(30) DEF TagsInStep
  <2> QED BY <1>1, <1>4, <2>2, <2>8 DEF RmidInv
<1> QED BY <1>1, <1>4, <1>7 DEF RmidInv

(* The second half of mbm_set_rmid_for_core.                               *)
LEMMA InvSetEntry ==
  ASSUME RmidAssumption, RmidInv, NEW t \in Clients, SetEntry(t)
  PROVE  RmidInv'
<1> DEFINE c == call[t].core
           M == Managed(max_rmid)
<1>1. /\ call[t].at = "tagged" /\ crashedOn = None
      /\ online' = online /\ loaded' = loaded /\ haveTable' = haveTable
      /\ max_rmid' = max_rmid /\ map' = map /\ num' = num /\ pqr' = pqr
      /\ raced' = raced /\ userSet' = userSet
      /\ call' = [call EXCEPT ![t] = NoCall]
  BY DEF SetEntry
<1>2. Types /\ loaded /\ c \in Cores /\ call[t].rmid \in Nat
  BY <1>1 DEF RmidInv, Types
<1>3. NoCall \in [at : {"idle", "tagged"}, core : Cores, rmid : Nat] /\ NoCall.at = "idle"
  BY DEF NoCall, Cores, RmidAssumption
<1>4. /\ \A u \in Clients \ {t} : call'[u] = call[u]
      /\ call'[t].at = "idle"
      /\ call' \in [Clients -> [at : {"idle", "tagged"}, core : Cores, rmid : Nat]]
  BY <1>1, <1>2, <1>3 DEF Types
<1>5. (\A d : Rank(d)' = Rank(d)) /\ Managed(max_rmid)' = M
  BY <1>1 DEF Rank, Managed
<1>6. CASE ~haveTable
  <2>1. crashedOn' = c /\ table' = table
    BY <1>6 DEF SetEntry
  <2>2. Types'
    BY <1>1, <1>2, <1>4, <2>1 DEF Types
  <2> QED BY <1>1, <1>2, <1>6, <2>2 DEF RmidInv
<1>7. CASE haveTable
  <2>1. TableShape /\ TagsInStep
    BY <1>2, <1>7 DEF RmidInv
  <2>2. mbm_get_rmid_info_for_core(c) = IF c \in M THEN Rank(c) ELSE None
    BY <1>2, <2>1, LookupFacts
  <2>3. /\ M \subseteq online /\ online \subseteq Cores
        /\ \A d \in M : Rank(d) \in Slots /\ Rank(d) # None
        /\ \A d, e \in M : Rank(d) = Rank(e) => d = e
    <3>1. \A x \in Slots : x # None
      BY DEF Slots, None
    <3> QED BY <1>2, <3>1, RankFacts DEF Managed, Types
  <2>4. ASSUME NEW u \in Clients, call'[u].at = "tagged"
        PROVE  u # t /\ call'[u] = call[u]
    BY <1>4, <2>4
  <2>5. ASSUME NEW u \in Clients, call'[u].at = "tagged", call'[u].core \notin raced'
        PROVE  pqr'[call'[u].core] = call'[u].rmid % RmidSpace
    BY <1>1, <2>1, <2>4, <2>5 DEF TagsInStep
  <2>6. ASSUME NEW d \in M, d # c, Settled(d)' PROVE pqr[d] = table[Rank(d)].rmid % RmidSpace
    <3>1. Settled(d)
      BY <1>1, <1>4, <2>6 DEF Settled
    <3> QED BY <2>1, <3>1 DEF TagsInStep
  <2>7. CASE c \notin M
    <3>1. crashedOn' = c /\ table' = table
      BY <1>7, <2>2, <2>7 DEF SetEntry
    <3>2. Types'
      BY <1>1, <1>2, <1>4, <3>1 DEF Types
    <3>3. TableShape'
      BY <1>1, <1>5, <2>1, <3>1 DEF TableShape
    <3>4. crashedOn' # None
      BY <1>2, <3>1 DEF Cores, None
    <3>5. \A d \in M : Settled(d)' => pqr'[d] = table'[Rank(d)].rmid % RmidSpace
      BY <1>1, <2>6, <2>7, <3>1
    <3>6. ~userSet' => \A d \in M : pqr'[d] = d + 1
      BY <1>1, <2>1 DEF TagsInStep
    <3> HIDE DEF M, c
    <3>7. TagsInStep'
      BY <1>5, <2>5, <2>7, <3>1, <3>4, <3>5, <3>6 DEF TagsInStep
    <3> QED BY <1>1, <1>2, <3>2, <3>3, <3>7 DEF RmidInv
  <2>8. CASE c \in M
    <3>1. /\ table' = [table EXCEPT ![Rank(c)].rmid = call[t].rmid, ![Rank(c)].in_use = TRUE]
          /\ crashedOn' = crashedOn
      BY <1>7, <2>2, <2>3, <2>8 DEF SetEntry
    <3>2. table' \in [Slots -> Entry]
      BY <1>2, <2>3, <2>8, <3>1 DEF Types, Entry
    <3>3. Types'
      BY <1>1, <1>2, <1>4, <3>1, <3>2 DEF Types
    <3>4. /\ table'[Rank(c)].rmid = call[t].rmid /\ table'[Rank(c)].in_use
          /\ table'[Rank(c)].core = table[Rank(c)].core
          /\ \A s \in Slots : s # Rank(c) => table'[s] = table[s]
      BY <1>2, <2>3, <2>8, <3>1 DEF Types, Entry
    <3>5. TableShape'
      <4>1. \A s \in Slots : table'[s].in_use => \E d \in M : Rank(d) = s
        BY <2>1, <2>8, <3>4 DEF TableShape
      <4>2. \A d \in M : table'[Rank(d)].in_use /\ table'[Rank(d)].core = d
        BY <2>1, <2>3, <3>4 DEF TableShape
      <4>3. num = Cardinality(M) /\ \A d \in Cores : map[d] = IF d \in M THEN Rank(d) ELSE MAX_CORES - 1
        BY <2>1 DEF TableShape
      <4> HIDE DEF M
      <4> QED BY <1>1, <1>5, <4>1, <4>2, <4>3 DEF TableShape
    <3>6. ASSUME NEW d \in M, Settled(d)'
          PROVE  pqr'[d] = table'[Rank(d)].rmid % RmidSpace
      <4>1. CASE d = c
        <5>1. c \notin raced
          BY <1>1, <3>6, <4>1 DEF Settled
        <5>2. pqr[c] = call[t].rmid % RmidSpace
          BY <1>1, <2>1, <5>1, SMTT(30) DEF TagsInStep
        <5> QED BY <1>1, <3>4, <4>1, <5>2
      <4>2. CASE d # c
        <5>1. table'[Rank(d)] = table[Rank(d)]
          BY <2>3, <2>8, <3>4, <4>2
        <5> QED BY <1>1, <2>6, <3>6, <4>2, <5>1
      <4> QED BY <4>1, <4>2, SMTT(30)
    <3>7. ASSUME NEW d \in online \ M
          PROVE  pqr'[d] = 0 \/ \E u \in Clients : call'[u].at = "tagged" /\ call'[u].core = d
      <4>1. pqr[d] = 0 \/ \E u \in Clients : call[u].at = "tagged" /\ call[u].core = d
        BY <1>1, <2>1 DEF TagsInStep
      <4>2. \A u \in Clients : call[u].core = d => call'[u] = call[u]
        BY <1>4, <2>8
      <4> QED BY <1>1, <4>1, <4>2
    <3>8. ~userSet' => \A d \in M : pqr'[d] = d + 1
      BY <1>1, <2>1 DEF TagsInStep
    <3>9. crashedOn' \notin M
      BY <2>1, <3>1, SMTT(30) DEF TagsInStep
    <3> HIDE DEF M, c
    <3>10. TagsInStep'
      BY <1>1, <1>5, <2>5, <3>6, <3>7, <3>8, <3>9 DEF TagsInStep
    <3> QED BY <1>1, <1>2, <3>3, <3>5, <3>10 DEF RmidInv
  <2> QED BY <2>7, <2>8
<1> QED BY <1>6, <1>7

-----------------------------------------------------------------------------
(* The RMID manager of rmid.c and mbm.c is right on every machine: whatever *)
(* cores are online, however many ids CPUID reports, and however clients'   *)
(* ioctls interleave with polls, loads and unloads.                         *)
THEOREM RmidsCorrect == ASSUME RmidAssumption PROVE RmidSpec => []RmidsTrue
<1>1. RmidInit => RmidInv
  BY InvInit
<1>2. RmidInv /\ [RmidNext]_rmidVars => RmidInv'
  <2> SUFFICES ASSUME RmidInv, [RmidNext]_rmidVars PROVE RmidInv'
    OBVIOUS
  <2>1. CASE UNCHANGED rmidVars
    <3>1. TableShape' = TableShape /\ TagsInStep' = TagsInStep /\ Types' = Types
      BY <2>1 DEF rmidVars, TableShape, TagsInStep, Managed, Rank, Settled, Types
    <3> QED BY <2>1, <3>1 DEF rmidVars, RmidInv
  <2>2. CASE Load
    BY <2>2, InvLoad
  <2>3. CASE LoadNoTable \/ Unload \/ \E c \in Cores : PollCore(c)
    BY <2>3, InvLifecycle
  <2>4. ASSUME NEW t \in Clients, NEW c \in Cores, NEW r \in UserRmids, SetTag(t, c, r)
        PROVE  RmidInv'
    BY <2>4, InvSetTag
  <2>5. ASSUME NEW t \in Clients, SetEntry(t) PROVE RmidInv'
    BY <2>5, InvSetEntry
  <2> QED BY <2>1, <2>2, <2>3, <2>4, <2>5 DEF RmidNext, Halted, RmidFinished
<1>3. RmidInv => RmidsTrue
  BY InvImplies
<1> QED BY <1>1, <1>2, <1>3, PTL DEF RmidSpec

=============================================================================
