----------------------------- MODULE UncorePmu -----------------------------
(***************************************************************************)
(* The uncore PMUs of the memory controllers (IMC), as built with          *)
(* HRP_LOG_IMC: discovery reads the tables of the PCI devices twice, once  *)
(* to count the boxes and once to copy them; init_g_uncore_pmus maps the   *)
(* registers of each box and programs it; every poll on one core freezes   *)
(* all boxes, adds up their counters and unfreezes them; unloading unmaps. *)
(*                                                                         *)
(* Only the list of the IMC box type of socket 0 is kept, which is the one *)
(* the code uses.  A read of a table entry may fail or find it empty, in   *)
(* either pass; a mapping or an allocation may fail.                       *)
(***************************************************************************)
EXTENDS Integers, Sequences, FiniteSets

CONSTANTS MaxUnits,      \* max_units of a discovery table
          MaxTables,     \* bound: matching DVSEC capabilities
          MAX_IMC_PMUS,  \* slots of g_uncore_pmus.imcs
          MaxFailures,   \* bound: failing mappings and allocations of boxes
          MaxTicks       \* bound: memory accesses the hardware counts

\* What the module assumes of its constants.
UncoreAssumption ==
  /\ MaxUnits \in Nat \ {0} /\ MaxTables \in Nat \ {0}
  /\ MAX_IMC_PMUS \in Nat \ {0}
  /\ MaxFailures \in Nat /\ MaxTicks \in Nat

\* What a table entry holds: a box reached through memory with a usable or an
\* excessive number of registers, or a box reached otherwise.
Boxes == {"mmio", "toomany", "msr"}
Readings == Boxes \cup {"fails", "empty"}
Pos == 0..(MaxUnits - 1)

\* The registers of a box: unit control, control and value of the two counters
\* in use (EVENT_READ, EVENT_WRITE), control and value of the fixed counter.
Regs == {"unit", "ctl0", "ctl1", "val0", "val1", "fctl", "fval"}
NULL == {}                            \* a PMU has at least its unit control
Accesses == {1, 2}                    \* EVENT_READ + 1, EVENT_WRITE + 1
NoAccess == [k \in Accesses |-> 0]

VARIABLES
  stage,      \* where the life of the PMUs is
  unit,       \* the table entry, box, PMU or channel that is next
  tables,     \* tables processed
  counts,     \* counts[IMC] of the table in progress
  pmus,       \* entries allocated for the list, 0 for a NULL pointer
  list,       \* the first list->count entries
  imcs,       \* g_uncore_pmus.imcs: position -> its registers, or NULL
  num_imcs,
  maps,       \* register mappings in existence
  skipped,    \* history: positions that became no PMU
  failed,     \* history: positions where something could not be allocated
  ok,         \* init_g_uncore_pmus has returned 0
  unitctl,    \* hardware: "off", "frozen" or "counting"
  count,      \* hardware: position -> its accesses, by kind
  total,      \* total_reads and total_writes of the sample
  imcFault       \* "none", "null" or "array"

discVars == <<tables, counts, pmus, list>>
boxVars == <<imcs, num_imcs, maps, skipped, failed>>
hwVars == <<unitctl, count>>
imcVars == <<stage, unit, tables, counts, pmus, list, imcs, num_imcs, maps,
          skipped, failed, ok, unitctl, count, total, imcFault>>

ImcInit ==
  /\ stage = "count" /\ unit = 0
  /\ tables = 0 /\ counts = 0 /\ pmus = 0 /\ list = << >>
  /\ imcs = [p \in Pos |-> NULL] /\ num_imcs = 0 /\ maps = {}
  /\ skipped = {} /\ failed = {} /\ ok = FALSE
  /\ unitctl = [p \in Pos |-> "off"] /\ count = [p \in Pos |-> NoAccess]
  /\ total = NoAccess /\ imcFault = "none"

----------------------------------------------------------------------------
(* Addresses.  A counter's control is 4 bytes, its value read as 8.         *)

register_step(width) ==
  IF width <= 8 THEN 1 ELSE IF width <= 16 THEN 2
  ELSE IF width <= 32 THEN 4 ELSE IF width <= 64 THEN 8 ELSE 0

get_box_ctl_addr_with_counter(box, c) == box.base + box.ctrl_offset + c * 4

get_box_ctr_addr(box, c) == box.base + box.ctr_offset + c * register_step(box.width)

----------------------------------------------------------------------------
(* process_socket_discovery_table.                                          *)

\* First pass: count the boxes.
CountUnit(r) ==
  /\ stage = "count"
  /\ counts' = IF r \in Boxes THEN counts + 1 ELSE counts
  /\ unit' = unit + 1
  /\ stage' = IF unit + 1 = MaxUnits THEN "alloc" ELSE stage
  /\ UNCHANGED <<tables, pmus, list, boxVars, ok, hwVars, total, imcFault>>

\* A list that has boxes is allocated, over what an earlier table left there;
\* list->count is cleared after the test for failure.
AllocList(done) ==
  /\ stage = "alloc"
  /\ counts = 0 => done
  /\ pmus' = IF counts = 0 THEN pmus ELSE IF done THEN counts ELSE 0
  /\ list' = IF counts > 0 /\ done THEN << >> ELSE list
  /\ stage' = IF done THEN "fill" ELSE "next"
  /\ unit' = 0
  /\ UNCHANGED <<tables, counts, boxVars, ok, hwVars, total, imcFault>>

\* Fault variant of FillUnit: the entry is copied without looking at counts.
FillUnitUnchecked(r) ==
  /\ stage = "fill"
  /\ list' = IF r \in Boxes /\ pmus > 0 THEN Append(list, r) ELSE list
  /\ unit' = unit + 1
  /\ stage' = IF unit + 1 = MaxUnits THEN "next" ELSE stage
  /\ UNCHANGED <<tables, counts, pmus, boxVars, ok, hwVars, total, imcFault>>

\* Second pass: the entry is read again and copied if there is room.
FillUnit(r) ==
  /\ stage = "fill"
  /\ list' = IF r \in Boxes /\ pmus > 0 /\ Len(list) < counts
             THEN Append(list, r) ELSE list
  /\ unit' = unit + 1
  /\ stage' = IF unit + 1 = MaxUnits THEN "next" ELSE stage
  /\ UNCHANGED <<tables, counts, pmus, boxVars, ok, hwVars, total, imcFault>>

\* pcm_process_dvsec goes on to the next matching capability, or is done.
NextTable(more) ==
  /\ stage = "next"
  /\ more => tables + 1 < MaxTables
  /\ tables' = tables + 1
  /\ counts' = 0 /\ unit' = 0
  /\ stage' = IF more THEN "count" ELSE "init"
  /\ UNCHANGED <<pmus, list, boxVars, ok, hwVars, total, imcFault>>

Discover ==
  \/ \E r \in Readings : CountUnit(r) \/ FillUnit(r)
  \/ \E b \in BOOLEAN : AllocList(b) \/ NextTable(b)

----------------------------------------------------------------------------
(* init_g_uncore_pmus: the loop over the boxes, then program_counters.      *)

Box == stage = "init" /\ unit < Len(list)

\* A list whose entries were freed or never allocated.
InitNoList ==
  /\ Box /\ pmus = 0
  /\ imcFault' = "null"
  /\ UNCHANGED <<stage, unit, discVars, boxVars, ok, hwVars, total>>

\* A box that is not reached through memory is passed over.
InitSkip ==
  /\ Box /\ pmus > 0 /\ list[unit + 1] = "msr"
  /\ skipped' = skipped \cup {unit} /\ unit' = unit + 1
  /\ UNCHANGED <<stage, discVars, imcs, num_imcs, maps, failed, ok, hwVars, total, imcFault>>

\* Too many registers: -EINVAL at once, and nothing is programmed.
InitTooMany ==
  /\ Box /\ pmus > 0 /\ list[unit + 1] = "toomany"
  /\ stage' = "ready" /\ unit' = 0
  /\ UNCHANGED <<discVars, boxVars, ok, hwVars, total, imcFault>>

\* The registers of the box are mapped one by one.  `missing' could not be
\* made; `kept' of them are mapped all the same (make_register does not undo
\* the mapping if the register object cannot be allocated).  Without its unit
\* control the box is passed over; without memory for the PMU the registers
\* are forgotten and the slot stays NULL, but counted.
InitBox(missing, kept, nomem) ==
  /\ Box /\ pmus > 0 /\ list[unit + 1] = "mmio"
  /\ kept \subseteq missing
  /\ LET noUnit == "unit" \in missing
         made == IF noUnit THEN {} ELSE Regs \ missing
     IN  /\ noUnit => missing = {"unit"} /\ ~nomem
         /\ maps' = maps \cup ({unit} \X (made \cup kept))
         /\ skipped' = IF noUnit THEN skipped \cup {unit} ELSE skipped
         /\ num_imcs' = IF noUnit THEN num_imcs ELSE num_imcs + 1
         /\ failed' = IF missing # {} \/ nomem THEN failed \cup {unit} ELSE failed
         /\ imcFault' = IF ~noUnit /\ unit >= MAX_IMC_PMUS THEN "array" ELSE imcFault
         /\ imcs' = IF noUnit \/ nomem THEN imcs ELSE [imcs EXCEPT ![unit] = made]
  /\ unit' = unit + 1
  /\ UNCHANGED <<stage, discVars, ok, hwVars, total>>

InitEnd ==
  /\ stage = "init" /\ unit = Len(list)
  /\ stage' = "program" /\ unit' = 0
  /\ UNCHANGED <<discVars, boxVars, ok, hwVars, total, imcFault>>

\* program_imc: freeze and reset, fixed counter, the counters, unfreeze.  A
\* missing fixed counter ends it and leaves this box frozen; uncore_pmu_is_valid
\* looks into the PMU before anything has tested that there is one.
ProgramImc ==
  /\ stage = "program" /\ unit < num_imcs
  /\ IF imcs[unit] = NULL
     THEN imcFault' = "null" /\ UNCHANGED <<stage, unit, unitctl, count>>
     ELSE /\ UNCHANGED imcFault
          /\ IF "fctl" \notin imcs[unit]
             THEN /\ unitctl' = [unitctl EXCEPT ![unit] = "frozen"]
                  /\ stage' = "ready" /\ unit' = 0 /\ UNCHANGED count
             ELSE /\ unitctl' = [unitctl EXCEPT ![unit] = "counting"]
                  /\ count' = [count EXCEPT ![unit] = NoAccess]
                  /\ unit' = unit + 1 /\ UNCHANGED stage
  /\ UNCHANGED <<discVars, boxVars, ok, total>>

ProgramEnd ==
  /\ stage = "program" /\ unit = num_imcs
  /\ ok' = TRUE /\ stage' = "ready" /\ unit' = 0
  /\ UNCHANGED <<discVars, boxVars, hwVars, total, imcFault>>

Failures == {{}} \cup {{r} : r \in Regs}
InitStep ==
  \/ InitNoList \/ InitSkip \/ InitTooMany \/ InitEnd \/ ProgramImc \/ ProgramEnd
  \/ \E missing \in Failures, leak \in BOOLEAN, nomem \in BOOLEAN :
       /\ Cardinality(failed) < MaxFailures \/ (missing = {} /\ ~nomem)
       /\ InitBox(missing, IF leak THEN missing ELSE {}, nomem)

----------------------------------------------------------------------------
(* The sample of a poll: freeze_all_counters, get_imc_reads,                *)
(* get_imc_writes, unfreeze_all_counters.                                   *)

\* The hardware counts an access on a box that is not frozen.
Tick(p, k) ==
  /\ unitctl[p] = "counting" /\ stage \notin {"program", "destroy", "gone"}
  /\ count[p][1] + count[p][2] < MaxTicks
  /\ count' = [count EXCEPT ![p][k] = @ + 1]
  /\ UNCHANGED <<stage, unit, discVars, boxVars, ok, unitctl, total, imcFault>>

\* hrp_pmc_init ignores the result of init_g_uncore_pmus, so polls follow in
\* any case.
SampleBegin ==
  /\ stage = "ready"
  /\ stage' = "freeze" /\ unit' = 0 /\ total' = NoAccess
  /\ UNCHANGED <<discVars, boxVars, ok, hwVars, imcFault>>

\* One round of a loop of the sample over the PMUs, and its end.
SetUnitCtl(from, value) ==
  /\ stage = from /\ unit < num_imcs
  /\ IF imcs[unit] = NULL
     THEN imcFault' = "null" /\ UNCHANGED <<unit, unitctl>>
     ELSE /\ unitctl' = [unitctl EXCEPT ![unit] = value]
          /\ unit' = unit + 1 /\ UNCHANGED imcFault
  /\ UNCHANGED <<stage, discVars, boxVars, ok, count, total>>

LoopEnd(from, to) ==
  /\ stage = from /\ unit = num_imcs
  /\ stage' = to /\ unit' = 0
  /\ UNCHANGED <<discVars, boxVars, ok, hwVars, total, imcFault>>

\* Fault variant of FreezeCounters: the units go on counting.
FreezeCountersNot == SetUnitCtl("freeze", "counting")

FreezeCounters == SetUnitCtl("freeze", "frozen")

UnfreezeCounters == SetUnitCtl("unfreeze", "counting")

\* get_mc_counter: a missing PMU or register counts as 0.
McCounter(channel, k) ==
  IF (IF k = 1 THEN "val0" ELSE "val1") \in imcs[channel] THEN count[channel][k] ELSE 0

ReadCounter(from, k) ==
  /\ stage = from /\ unit < num_imcs
  /\ total' = [total EXCEPT ![k] = @ + McCounter(unit, k)]
  /\ unit' = unit + 1
  /\ UNCHANGED <<stage, discVars, boxVars, ok, hwVars, imcFault>>

Sample ==
  \/ SampleBegin \/ FreezeCounters \/ LoopEnd("freeze", "reads")
  \/ ReadCounter("reads", 1) \/ LoopEnd("reads", "writes")
  \/ ReadCounter("writes", 2) \/ LoopEnd("writes", "unfreeze")
  \/ UnfreezeCounters \/ LoopEnd("unfreeze", "ready")

----------------------------------------------------------------------------
(* destroy_g_uncore_pmus.                                                   *)

DestroyBegin ==
  /\ stage = "ready" /\ stage' = "destroy" /\ unit' = 0
  /\ UNCHANGED <<discVars, boxVars, ok, hwVars, total, imcFault>>

\* A PMU in its slot loses its registers and their mappings.
DestroyImc ==
  /\ stage = "destroy" /\ unit < num_imcs
  /\ maps' = maps \ ({unit} \X imcs[unit])
  /\ imcs' = [imcs EXCEPT ![unit] = NULL] /\ unit' = unit + 1
  /\ UNCHANGED <<stage, discVars, num_imcs, skipped, failed, ok, hwVars, total, imcFault>>

DestroyEnd ==
  /\ stage = "destroy" /\ unit = num_imcs
  /\ stage' = "gone" /\ num_imcs' = 0 /\ unit' = 0
  /\ pmus' = 0 /\ list' = << >>
  /\ UNCHANGED <<tables, counts, imcs, maps, skipped, failed, ok, hwVars, total, imcFault>>

ImcFinished == (imcFault # "none" \/ stage = "gone") /\ UNCHANGED imcVars

ImcNext ==
  \/ imcFault = "none" /\ (\/ Discover \/ InitStep \/ Sample
                        \/ \E p \in Pos, k \in Accesses : Tick(p, k)
                        \/ DestroyBegin \/ DestroyImc \/ DestroyEnd)
  \/ ImcFinished

ImcSpec == ImcInit /\ [][ImcNext]_imcVars

----------------------------------------------------------------------------
(* Properties.                                                              *)

(* The second pass of discovery never copies more boxes than the first one  *)
(* made room for, whatever the two passes read.  The list is longer than    *)
(* its memory only where a second table found the list of a first one and   *)
(* could not allocate its own: list->count then still has the old value.    *)
ListInBounds ==
  Len(list) > pmus => pmus = 0 /\ tables >= 1 /\ MaxTables > 1

(* The boxes that are programmed have registers of their own for each       *)
(* counter: for every width the code has a 64-bit register for, neither the *)
(* counters nor the controls overlap.                                       *)
RegistersDisjoint ==
  stage = "program" => \A width \in 33..64, c, d \in 0..3 : c < d =>
    LET box == [base |-> 0, ctrl_offset |-> 64, ctr_offset |-> 8, width |-> width]
    IN  /\ get_box_ctr_addr(box, c) + 8 <= get_box_ctr_addr(box, d)
        /\ get_box_ctl_addr_with_counter(box, c) + 4 <= get_box_ctl_addr_with_counter(box, d)

(* init and polls look into a PMU that is not there only if some box before *)
(* the end of the list was passed over or could not be set up (a hole that  *)
(* num_imcs does not know of), or the list lost its memory; the array       *)
(* overflows only with more boxes than slots.                               *)
NullOnlyAtHole ==
  /\ imcFault = "null" => pmus = 0 \/ skipped \cup failed # {}
  /\ imcFault = "array" => Len(list) > MAX_IMC_PMUS

(* v is the sum of counter k over the channels: partial sums lead up to it. *)
SumOfChannels(v, k) ==
  \E sum \in [0..num_imcs -> 0..v] :
    /\ sum[0] = 0 /\ sum[num_imcs] = v
    /\ \A p \in 0..(num_imcs - 1) : sum[p + 1] = sum[p] + McCounter(p, k)

(* What a poll records is one instant: when the totals are complete, they   *)
(* are the sum of what the counters still hold, though the hardware counts  *)
(* at every moment it may.                                                  *)
SampleIsSnapshot ==
  stage = "unfreeze" /\ unit = 0 => \A k \in Accesses : SumOfChannels(total[k], k)

(* Between polls of a module whose PMUs were all programmed, every one of   *)
(* them counts: no poll leaves a memory controller frozen.                  *)
CountingBetweenPolls ==
  stage = "ready" /\ ok => \A p \in 0..(num_imcs - 1) : unitctl[p] = "counting"

(* After destroy_g_uncore_pmus no register of a box stays mapped, but for   *)
(* boxes whose own set-up failed and boxes that lie behind a hole.          *)
UnmappedAtEnd ==
  stage = "gone" =>
    \A m \in maps : m[1] \in failed \/ \E q \in skipped : q < m[1]

(* uncore_pmu_discovery.c, uncore_pmu.c: whatever its two passes read,      *)
(* discovery stays within the memory it counted, the registers of the boxes *)
(* do not overlap, a missing PMU is met only at a hole, and destruction     *)
(* unmaps all registers but those of a hole and behind it.                  *)
PmusInBounds == ListInBounds /\ RegistersDisjoint /\ NullOnlyAtHole /\ UnmappedAtEnd

(* uncore_pmu.h: the totals of a poll are those of one instant, although    *)
(* the hardware counts whenever it may, and no poll leaves a memory         *)
(* controller frozen.                                                       *)
PollsAreSnapshots == SampleIsSnapshot /\ CountingBetweenPolls

=============================================================================
