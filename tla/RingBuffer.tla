----------------------------- MODULE RingBuffer -----------------------------
(***************************************************************************)
(* One per-CPU ring buffer of hiresperf (src/src/buffer.c) with its two    *)
(* users: the producer, `enqueue', run by hrperf_poller_func on the CPU    *)
(* that owns the buffer, and the consumer, `log_and_clear' of              *)
(* src/src/log.c, run by the logger, which appends the buffered entries to *)
(* the log file.  The two run concurrently and share nothing but `head',   *)
(* `tail' and the slots; head is stored by the consumer only and tail by   *)
(* the producer only.                                                      *)
(*                                                                         *)
(* An entry (HrperfLogEntry) is the ordinal of the enqueue call that       *)
(* offered it, so 1, 2, 3 ... is the order of the polls.  A slot that      *)
(* holds no entry, or one copied only in part, is Torn; a record written   *)
(* only in part to the file is a Fragment.                                 *)
(*                                                                         *)
(* Loads and stores are interleaved: the release store of tail and the     *)
(* acquire load of it, the release store of head and the control           *)
(* dependency from the load of head to the store into the slot rule out    *)
(* the reorderings that could be seen.                                     *)
(***************************************************************************)
EXTENDS Integers, Sequences, FiniteSets

CONSTANTS
  BufferSize,   \* HRP_PMC_BUFFER_SIZE
  MaxOffered,   \* bound: the number of enqueue calls of a behaviour
  WriteFaults   \* whether kernel_write may fail or fall short

ASSUME BufferSizeAssumption == BufferSize \in Nat /\ BufferSize >= 2
ASSUME MaxOfferedAssumption == MaxOffered \in Nat
ASSUME WriteFaultsAssumption == WriteFaults \in BOOLEAN

VARIABLES
  buffer,    \* rb->buffer
  head,      \* rb->head: the oldest entry not yet released
  tail,      \* rb->tail: the slot the next entry goes to
  offered,   \* how many entries enqueue has been called with
  ppc,       \* where the producer is in enqueue
  lpc,       \* where the consumer is in log_and_clear
  ltail,     \* log_and_clear's local tail
  cur,       \* the next slot kernel_write copies
  file,      \* the records of the log file
  accepted,  \* history: the entries whose slot was published
  lost       \* history: the entries a failing kernel_write did not write

pvars == <<offered, ppc>>
lvars == <<lpc, ltail, cur>>
vars == <<buffer, head, tail, offered, ppc, lpc, ltail, cur, file, accepted, lost>>

Torn == -1
Fragment == 0
Slots == 0 .. BufferSize - 1

(* Fault variant of Succ: the index does not wrap around.                  *)
SuccUnwrapped(i) == i + 1

Succ(i) == (i + 1) % BufferSize

-----------------------------------------------------------------------------
(* init_ring_buffer, and neither side inside a call.  The slots are zeroed *)
(* (__GFP_ZERO) and hold no entry.                                         *)
Init ==
  /\ buffer = [i \in Slots |-> Torn]
  /\ head = 0 /\ tail = 0
  /\ offered = 0 /\ ppc = "idle"
  /\ lpc = "idle" /\ ltail = 0 /\ cur = 0
  /\ file = << >>
  /\ accepted = {} /\ lost = {}

(* Fault variant of IsFull: one slot too early.                            *)
IsFullEarly == Succ(Succ(tail)) = head

(* is_full *)
IsFull == Succ(tail) = head

(* enqueue, up to the test of head: a full buffer loses the new entry.     *)
EnqueueDrop ==
  /\ ppc = "idle" /\ offered < MaxOffered
  /\ IsFull
  /\ offered' = offered + 1
  /\ UNCHANGED <<ppc, buffer, head, tail, lvars, file, accepted, lost>>

(* enqueue past the test, in the middle of the copy into the slot.         *)
EnqueueCopy ==
  /\ ppc = "idle" /\ offered < MaxOffered
  /\ ~IsFull
  /\ offered' = offered + 1
  /\ buffer' = [buffer EXCEPT ![tail] = Torn]
  /\ ppc' = "copy"
  /\ UNCHANGED <<head, tail, lvars, file, accepted, lost>>

(* The copy into rb->buffer[rb->tail] is complete.                         *)
EnqueueCopied ==
  /\ ppc = "copy"
  /\ buffer' = [buffer EXCEPT ![tail] = offered]
  /\ ppc' = "publish"
  /\ UNCHANGED <<offered, head, tail, lvars, file, accepted, lost>>

(* smp_store_release(&rb->tail, next_tail)                                 *)
EnqueuePublish ==
  /\ ppc = "publish"
  /\ tail' = Succ(tail)
  /\ accepted' = accepted \cup {offered}
  /\ ppc' = "idle"
  /\ UNCHANGED <<offered, buffer, head, lvars, file, lost>>

-----------------------------------------------------------------------------
(* Fault variant of LogSnapshot: a range that wraps counts as empty.       *)
LogSnapshotContiguous ==
  /\ lpc = "idle"
  /\ head < tail
  /\ ltail' = tail
  /\ cur' = head
  /\ lpc' = "first"
  /\ UNCHANGED <<pvars, buffer, head, tail, file, accepted, lost>>

(* log_and_clear: the snapshot of head and tail.  An empty buffer returns  *)
(* at once and changes nothing.                                            *)
LogSnapshot ==
  /\ lpc = "idle"
  /\ head # tail
  /\ ltail' = tail
  /\ cur' = head
  /\ lpc' = "first"
  /\ UNCHANGED <<pvars, buffer, head, tail, file, accepted, lost>>

(* The slot after the last one of the kernel_write in progress: the data   *)
(* is contiguous, or runs to the end of the array and wraps around.        *)
SegmentEnd == IF lpc = "first" /\ head >= ltail THEN BufferSize ELSE ltail

Writing == lpc \in {"first", "second"}

(* kernel_write copies one more entry to the file.                         *)
WriteEntry ==
  /\ Writing /\ cur < SegmentEnd
  /\ file' = Append(file, buffer[cur])
  /\ cur' = cur + 1
  /\ UNCHANGED <<pvars, lpc, ltail, buffer, head, tail, accepted, lost>>

(* Fault variant of WriteFail: a short write is repeated from its start.   *)
WriteFailRepeats ==
  /\ WriteFaults
  /\ lpc = "first" /\ cur < SegmentEnd
  /\ cur' = head
  /\ UNCHANGED <<pvars, lpc, ltail, buffer, head, tail, file, accepted, lost>>

(* kernel_write returns an error or a short count: what is left of its     *)
(* range is not written, and a record may be cut in two.  The code prints  *)
(* the error and goes on.                                                  *)
WriteFail ==
  /\ WriteFaults
  /\ Writing /\ cur < SegmentEnd
  /\ file' \in {file, Append(file, Fragment)}
  /\ lost' = lost \cup {buffer[i] : i \in cur .. SegmentEnd - 1}
  /\ cur' = SegmentEnd
  /\ UNCHANGED <<pvars, lpc, ltail, buffer, head, tail, accepted>>

(* The first kernel_write of a wrapped range is followed by a second one   *)
(* from slot 0 when there is something there.                              *)
WriteSecond ==
  /\ lpc = "first" /\ cur = SegmentEnd
  /\ head >= ltail /\ ltail > 0
  /\ cur' = 0
  /\ lpc' = "second"
  /\ UNCHANGED <<pvars, ltail, buffer, head, tail, file, accepted, lost>>

(* Fault variant of LogRelease: head moves to the tail of now, past        *)
(* entries never written.                                                  *)
LogReleaseAtTail ==
  /\ Writing /\ cur = SegmentEnd
  /\ lpc = "second" \/ head < ltail \/ ltail = 0
  /\ head' = tail /\ cur' = tail
  /\ lpc' = "idle"
  /\ UNCHANGED <<pvars, ltail, buffer, tail, file, accepted, lost>>

(* smp_store_release(&rb->head, tail), with the tail of the snapshot.      *)
LogRelease ==
  /\ Writing /\ cur = SegmentEnd
  /\ lpc = "second" \/ head < ltail \/ ltail = 0
  /\ head' = ltail
  /\ cur' = ltail
  /\ lpc' = "idle"
  /\ UNCHANGED <<pvars, ltail, buffer, tail, file, accepted, lost>>

-----------------------------------------------------------------------------
Producer == EnqueueDrop \/ EnqueueCopy \/ EnqueueCopied \/ EnqueuePublish
Consumer == LogSnapshot \/ WriteEntry \/ WriteFail \/ WriteSecond \/ LogRelease
Next == Producer \/ Consumer

Spec == Init /\ [][Next]_vars

(* The logger runs log_and_clear again and again while monitoring runs.    *)
FairSpec == Spec /\ WF_vars(Consumer)

-----------------------------------------------------------------------------
(* How far slot i is behind head, and how many slots of the range the      *)
(* consumer is done with.                                                  *)
Dist(i) == IF i >= head THEN i - head ELSE i - head + BufferSize
Done ==
  CASE lpc = "idle" -> 0
    [] lpc = "first" -> cur - head
    [] lpc = "second" -> BufferSize - head + cur

(* The published slots not released yet, and those kernel_write has still  *)
(* to deal with.                                                           *)
Live == {i \in Slots : Dist(i) < Dist(tail)}
Unwritten == {i \in Live : Dist(i) >= Done}

Logged == {file[k] : k \in DOMAIN file} \ {Fragment}

(* The variables keep their types: enqueue and log_and_clear never move    *)
(* head, tail or the copied range outside the array.                       *)
TypeOK ==
  /\ buffer \in [Slots -> Nat \cup {Torn}]
  /\ head \in Slots /\ tail \in Slots /\ ltail \in Slots
  /\ cur \in 0 .. BufferSize
  /\ offered \in Nat
  /\ ppc \in {"idle", "copy", "publish"}
  /\ lpc \in {"idle", "first", "second"}
  /\ file \in Seq(Nat \cup {Torn})
  /\ accepted \subseteq Nat /\ lost \subseteq Nat \cup {Torn}

(* The log file never holds an entry twice, nor two entries in another     *)
(* order than that of the polls, and every complete record is an entry     *)
(* that enqueue published: log_and_clear never reads a slot enqueue is     *)
(* copying into, whichever way the buffer wraps.                           *)
LogInOrder ==
  /\ \A j, k \in DOMAIN file :
       j < k /\ file[j] # Fragment /\ file[k] # Fragment => file[j] < file[k]
  /\ Logged \subseteq accepted

(* No published entry is overwritten or skipped: each one is in exactly    *)
(* one of the file, the slots kernel_write has not dealt with, and the     *)
(* losses of a failed kernel_write, since head only moves to the tail of   *)
(* the snapshot that was written.                                          *)
Conservation ==
  LET waiting == {buffer[i] : i \in Unwritten}
  IN /\ accepted = Logged \cup waiting \cup lost
     /\ Logged \cap waiting = {}
     /\ Logged \cap lost = {}
     /\ waiting \cap lost = {}

(* A kernel_write that fails is the only way to lose a published entry.    *)
EveryEntryWritten ==
  \A e \in 1 .. MaxOffered : e \in accepted ~> e \in Logged \cup lost

(* log_and_clear is atomic to its users: the buffer implements a queue     *)
(* of BufferSize - 1 entries, one slot always being empty, from which each *)
(* call moves a run of oldest entries to the log at its final store of     *)
(* head, and every entry the queue accepts is flushed in the end.          *)
Queue == INSTANCE EntryQueue WITH
  Capacity <- BufferSize - 1,
  LossyLog <- WriteFaults,
  queue <- [k \in 1 .. Dist(tail) |-> buffer[(head + k - 1) % BufferSize]],
  log <- SelectSeq(file, LAMBDA e : e # Fragment /\ e \notin {buffer[i] : i \in Live}),
  offered <- IF ppc = "idle" THEN offered ELSE offered - 1
AtomicQueue == Queue!Spec

=============================================================================
