----------------------------- MODULE EntryQueue -----------------------------
(***************************************************************************)
(* What one per-CPU buffer promises its users, without slots, indices or   *)
(* steps inside a call: a bounded queue that refuses the newest entry when *)
(* it is full, and whose oldest entries move to the log in one step, in    *)
(* order.  A lossy log may keep only some of the entries a flush moves.    *)
(* RingBuffer implements it; Monitor uses it as its buffers.               *)
(***************************************************************************)
EXTENDS Integers, Sequences

CONSTANTS
  Capacity,   \* how many entries the queue holds at most
  LossyLog    \* whether a flush may lose entries

VARIABLES
  queue,      \* the entries accepted and not yet flushed, oldest first
  log,        \* the entries in the log, oldest first
  offered     \* how many entries have been offered

vars == <<queue, log, offered>>

Init == queue = << >> /\ log = << >> /\ offered = 0

(* What the queue holds after e is offered to q.                           *)
Offer(q, e) == IF Len(q) < Capacity THEN Append(q, e) ELSE q

Enqueue ==
  /\ offered' = offered + 1
  /\ queue' = Offer(queue, offered')
  /\ log' = log

(* The elements of q at the positions in K, in their order.                *)
Pick(q, K) ==
  LET position == [k \in 1 .. Len(q) |-> IF k \in K THEN q[k] ELSE 0]
  IN SelectSeq(position, LAMBDA e : e # 0)

Flush ==
  /\ queue # << >>
  /\ \E n \in 1 .. Len(queue) :
       /\ queue' = SubSeq(queue, n + 1, Len(queue))
       /\ \E K \in IF LossyLog THEN SUBSET (1 .. n) ELSE {1 .. n} :
            log' = log \o Pick(queue, K)
  /\ offered' = offered

Next == Enqueue \/ Flush

Spec == Init /\ [][Next]_vars /\ WF_vars(Flush)

=============================================================================
