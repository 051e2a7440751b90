---------------------------- MODULE DedupPipeline ----------------------------
(***************************************************************************)
(* The dedup workload (apps/parsec/dedup/encoder.c): Fragment splits the   *)
(* input into coarse chunks; pools of FragmentRefine, Deduplicate and      *)
(* Compress threads pass batches of fine chunks on through queues; Reorder *)
(* writes them to the file in the order of the input.  A chunk whose       *)
(* content was seen before skips Compress, and can overtake the chunk it   *)
(* refers to.                                                              *)
(*                                                                         *)
(* Where an anchor splits the data is the input: a sequence of coarse      *)
(* chunks, each a sequence of contents.  The queues (queue.c) are external.*)
(* They are large enough for the input here: no producer waits for room.   *)
(***************************************************************************)
EXTENDS Integers, Sequences, FiniteSets, FiniteSetsExt, SequencesExt

CONSTANTS Contents,    \* contents of a fine chunk
          CoarseMax,   \* bound: coarse chunks of the input
          FineMax,     \* bound: fine chunks of a coarse one
          NThreads,    \* conf->nthreads
          PerQueue,    \* MAX_THREADS_PER_QUEUE
          AnchorBatch, \* ANCHOR_DATA_PER_INSERT
          Batch        \* ITEM_PER_INSERT, ITEM_PER_FETCH and MAX_PER_FETCH

VARIABLES
  input,      \* the input
  encoding,   \* Encode has created the threads
  frag,       \* Fragment: [next, buf, qid, pc]
  que,        \* queues of each stage
  terms,      \* how many producers have called queue_terminate
  pc,         \* threads of each stage: "run", "drain", "done"
  recv, send, \* their buffers
  dups,       \* send_buf_reorder of the Deduplicate threads
  cache,      \* hash table: content -> chunk, as a set of chunks
  zipped,     \* chunks in state CHUNK_STATE_COMPRESSED or FLUSHED
  flushed,    \* chunks in state CHUNK_STATE_FLUSHED
  reorder,    \* Reorder: [recv, qid, pc]
  tree,       \* chunks that wait for their turn
  next,       \* sequence number to be written next
  perAnchor,  \* chunks_per_anchor
  file        \* output: sequence of [kind, content]

vars == <<input, encoding, frag, que, terms, pc, recv, send, dups, cache, zipped, flushed,
          reorder, tree, next, perAnchor, file>>
stageVars == <<pc, recv, send, dups>>
reorderVars == <<reorder, tree, next, perAnchor, file, flushed>>

Pools == {"refine", "deduplicate", "compress"}
Queues == Pools \cup {"reorder"}
Workers == 0..(NThreads - 1)
Qid(t) == t \div PerQueue
NQueues == (NThreads \div PerQueue) + (IF NThreads % PerQueue # 0 THEN 1 ELSE 0)
ThreadsPerQueue(q) == Cardinality({t \in Workers : Qid(t) = q})
Producers(s, q) == IF s = "refine" THEN 1 ELSE ThreadsPerQueue(q)
NextStage == [refine |-> "deduplicate", deduplicate |-> "compress", compress |-> "reorder"]

Init ==
  /\ input = << >> /\ encoding = FALSE
  /\ frag = [next |-> 1, buf |-> << >>, qid |-> 0, pc |-> "run"]
  /\ que = [s \in Queues |-> [q \in 0..(NQueues - 1) |-> << >>]]
  /\ terms = [s \in Queues |-> [q \in 0..(NQueues - 1) |-> 0]]
  /\ pc = [s \in Pools |-> [t \in Workers |-> "run"]]
  /\ recv = [s \in Pools |-> [t \in Workers |-> << >>]]
  /\ send = [s \in Pools |-> [t \in Workers |-> << >>]]
  /\ dups = [t \in Workers |-> << >>]
  /\ cache = {} /\ zipped = {} /\ flushed = {}
  /\ reorder = [recv |-> << >>, write |-> << >>, qid |-> 0, pc |-> "run"]
  /\ tree = {} /\ next = <<0, 0>> /\ perAnchor = [k \in 0..CoarseMax |-> 0]
  /\ file = << >>

Encode(i) ==
  /\ ~encoding /\ encoding' = TRUE /\ input' = i
  /\ UNCHANGED <<frag, que, terms, stageVars, cache, zipped, reorderVars>>

Enqueue(s, q, buf) == [que EXCEPT ![s][q] = @ \o buf]
Closed(s, q) == terms[s][q] = Producers(s, q)

----------------------------------------------------------------------------
\* The next coarse chunk goes to the send buffer, a full buffer to the next queue.
Fragment ==
  LET buf == Append(frag.buf, [l1 |-> frag.next - 1, parts |-> input[frag.next]])
      full == Len(buf) = AnchorBatch
  IN  /\ encoding /\ frag.pc = "run" /\ frag.next <= Len(input)
      /\ frag' = [frag EXCEPT !.next = @ + 1, !.buf = IF full THEN << >> ELSE buf,
                              !.qid = IF full THEN (@ + 1) % NQueues ELSE @]
      /\ que' = IF full THEN Enqueue("refine", frag.qid, buf) ELSE que
      /\ UNCHANGED <<input, encoding, terms, stageVars, cache, zipped, reorderVars>>

\* End of the input: the buffer is drained and all queues are closed.
FragmentEnd ==
  /\ encoding /\ frag.pc = "run" /\ frag.next > Len(input)
  /\ frag' = [frag EXCEPT !.buf = << >>, !.pc = "done"]
  /\ que' = Enqueue("refine", frag.qid, frag.buf)
  /\ terms' = [terms EXCEPT !["refine"] = [q \in 0..(NQueues - 1) |-> @[q] + 1]]
  /\ UNCHANGED <<input, encoding, stageVars, cache, zipped, reorderVars>>

\* queue_dequeue: up to Batch items, or the end of the queue.
Fetch(s, t) ==
  LET q == que[s][Qid(t)]
      n == Min({Batch, Len(q)})
  IN  /\ encoding /\ pc[s][t] = "run" /\ recv[s][t] = << >>
      /\ \/ /\ q # << >>
            /\ recv' = [recv EXCEPT ![s][t] = SubSeq(q, 1, n)]
            /\ que' = [que EXCEPT ![s][Qid(t)] = SubSeq(q, n + 1, Len(q))]
            /\ UNCHANGED pc
         \/ /\ q = << >> /\ Closed(s, Qid(t))
            /\ pc' = [pc EXCEPT ![s][t] = "drain"]
            /\ UNCHANGED <<recv, que>>
      /\ UNCHANGED <<input, encoding, frag, terms, send, dups, cache, zipped, reorderVars>>

\* An item is appended to the send buffer; a full buffer is enqueued.
Send(s, t, item) ==
  LET buf == Append(send[s][t], item)
  IN  IF Len(buf) = Batch
      THEN /\ que' = Enqueue(NextStage[s], Qid(t), buf)
           /\ send' = [send EXCEPT ![s][t] = << >>]
      ELSE send' = [send EXCEPT ![s][t] = buf] /\ UNCHANGED que

SendDup(t, item) ==
  LET buf == Append(dups[t], item)
  IN  IF Len(buf) = Batch
      THEN /\ que' = Enqueue("reorder", Qid(t), buf)
           /\ dups' = [dups EXCEPT ![t] = << >>]
      ELSE dups' = [dups EXCEPT ![t] = buf] /\ UNCHANGED que

\* FragmentRefine: one fine chunk is split off the coarse chunk.
Refine(t) ==
  LET coarse == Head(recv["refine"][t])
      l2 == IF "l2" \in DOMAIN coarse THEN coarse.l2 ELSE 0
      isLast == Len(coarse.parts) = 1
      rest == [l1 |-> coarse.l1, l2 |-> l2 + 1, parts |-> Tail(coarse.parts)]
  IN  /\ pc["refine"][t] = "run" /\ recv["refine"][t] # << >>
      /\ Send("refine", t, [l1 |-> coarse.l1, l2 |-> l2, last |-> isLast,
                            content |-> Head(coarse.parts)])
      /\ recv' = [recv EXCEPT !["refine"][t] = (IF isLast THEN << >> ELSE <<rest>>) \o Tail(@)]
      /\ UNCHANGED <<input, encoding, frag, terms, pc, dups, cache, zipped, reorderVars>>

\* hashtable_search
Known(c) == {e \in cache : e.content = c.content}

\* Deduplicate: sub_Deduplicate under the lock of the bucket, then a new chunk
\* goes to Compress and a duplicate to Reorder.
Deduplicate(t) ==
  LET c == Head(recv["deduplicate"][t])
      known == Known(c)
  IN  /\ pc["deduplicate"][t] = "run" /\ recv["deduplicate"][t] # << >>
      /\ \/ /\ known = {}
            /\ cache' = cache \cup {c}
            /\ Send("deduplicate", t, [c |-> c, ref |-> c]) /\ UNCHANGED dups
         \/ \E e \in known :
              SendDup(t, [c |-> c, ref |-> e]) /\ UNCHANGED <<cache, send>>
      /\ recv' = [recv EXCEPT !["deduplicate"][t] = Tail(@)]
      /\ UNCHANGED <<input, encoding, frag, terms, pc, zipped, reorderVars>>

\* Compress: sub_Compress under the chunk's lock.
Compress(t) ==
  LET item == Head(recv["compress"][t])
  IN  /\ pc["compress"][t] = "run" /\ recv["compress"][t] # << >>
      /\ zipped' = zipped \cup {item.c}
      /\ Send("compress", t, item)
      /\ recv' = [recv EXCEPT !["compress"][t] = Tail(@)]
      /\ UNCHANGED <<input, encoding, frag, terms, pc, dups, cache, reorderVars>>

\* Left over items are enqueued, then the queue of the next stage is closed.
\* Deduplicate closes the queue of Compress only: Compress closes that of Reorder.
Drain(s, t) ==
  LET left == IF s = "deduplicate" THEN dups[t] ELSE << >>
      sent == Enqueue(NextStage[s], Qid(t), send[s][t])
  IN  /\ pc[s][t] = "drain"
      /\ que' = [sent EXCEPT !["reorder"][Qid(t)] = @ \o left]
      /\ send' = [send EXCEPT ![s][t] = << >>]
      /\ dups' = IF s = "deduplicate" THEN [dups EXCEPT ![t] = << >>] ELSE dups
      /\ terms' = [terms EXCEPT ![NextStage[s]][Qid(t)] = @ + 1]
      /\ pc' = [pc EXCEPT ![s][t] = "done"]
      /\ UNCHANGED <<input, encoding, frag, recv, cache, zipped, reorderVars>>

----------------------------------------------------------------------------
\* Queues are tried in turn: one that is empty and not closed is waited for.
ReorderFetch ==
  LET q == reorder.qid
      items == que["reorder"][q]
      n == Min({Batch, Len(items)})
  IN  /\ encoding /\ reorder.pc = "run" /\ reorder.recv = << >> /\ reorder.write = << >>
      /\ \/ /\ items # << >>
            /\ reorder' = [reorder EXCEPT !.recv = SubSeq(items, 1, n), !.qid = (q + 1) % NQueues]
            /\ que' = [que EXCEPT !["reorder"][q] = SubSeq(items, n + 1, Len(items))]
         \/ /\ items = << >> /\ Closed("reorder", q)
            /\ \E k \in 0..(NQueues - 1) : que["reorder"][k] # << >> \/ ~Closed("reorder", k)
            /\ reorder' = [reorder EXCEPT !.qid = (q + 1) % NQueues] /\ UNCHANGED que
      /\ UNCHANGED <<input, encoding, frag, terms, stageVars, cache, zipped, tree, next,
                     perAnchor, file, flushed>>

Seq2(c) == <<c.l1, c.l2>>

\* A received chunk is written if it is next, or kept for later.
ReorderTake ==
  LET item == Head(reorder.recv)
      c == item.c
      isNext == Seq2(c) = next
  IN  /\ reorder.recv # << >> /\ reorder.write = << >>
      /\ perAnchor' = IF c.last THEN [perAnchor EXCEPT ![c.l1] = c.l2 + 1] ELSE perAnchor
      /\ reorder' = [reorder EXCEPT !.recv = Tail(@), !.write = IF isNext THEN <<item>> ELSE << >>]
      /\ tree' = IF isNext THEN tree ELSE tree \cup {item}
      /\ UNCHANGED <<input, encoding, frag, que, terms, stageVars, cache, zipped, next, file,
                     flushed>>

\* write_chunk_to_file waits until the data of the chunk referred to is there.
Ready(item) == item.ref \in zipped

\* The data if no chunk of this content was written before, else the SHA1 sum.
Entry(item) ==
  [kind |-> IF item.ref \in flushed THEN "sha1" ELSE "data", content |-> item.c.content]

Following(n) == IF perAnchor[n[1]] # 0 /\ n[2] + 1 = perAnchor[n[1]]
                THEN <<n[1] + 1, 0>> ELSE <<n[1], n[2] + 1>>

\* One chunk is written; the tree may have the one that is next then.
ReorderWrite ==
  LET item == reorder.write[1]
      then == {i \in tree : Seq2(i.c) = Following(next)}
  IN  /\ reorder.write # << >> /\ Ready(item)
      /\ file' = Append(file, Entry(item))
      /\ flushed' = flushed \cup {item.ref}
      /\ next' = Following(next)
      /\ tree' = tree \ then
      /\ reorder' = [reorder EXCEPT !.write = IF then = {} THEN << >>
                                              ELSE <<CHOOSE i \in then : TRUE>>]
      /\ UNCHANGED <<input, encoding, frag, que, terms, stageVars, cache, zipped, perAnchor>>

\* All queues are closed and empty.  Chunks left in the tree would have to be
\* next one after the other, else the program exits.
ReorderEnd ==
  /\ encoding /\ reorder.pc = "run" /\ reorder.recv = << >> /\ reorder.write = << >>
  /\ \A k \in 0..(NQueues - 1) : que["reorder"][k] = << >> /\ Closed("reorder", k)
  /\ reorder' = [reorder EXCEPT !.pc = IF tree = {} THEN "done" ELSE "mismatch"]
  /\ UNCHANGED <<input, encoding, frag, que, terms, stageVars, cache, zipped, tree, next,
                 perAnchor, file, flushed>>

Joined ==
  /\ reorder.pc # "run" /\ frag.pc = "done"
  /\ \A s \in Pools, t \in Workers : pc[s][t] = "done"

----------------------------------------------------------------------------
\* Inputs of the model: coarse chunks of at least one fine chunk.  Contents
\* are only compared, so the first one of all is fixed.
Inputs ==
  {i \in BoundedSeq(UNION {[1..n -> Contents] : n \in 1..FineMax}, CoarseMax) :
     i # << >> => i[1][1] = CHOOSE c \in Contents : TRUE}

Stage(t) ==
  \/ \E s \in Pools : Fetch(s, t) \/ Drain(s, t)
  \/ Refine(t) \/ Deduplicate(t) \/ Compress(t)

ReorderStep == ReorderFetch \/ ReorderTake \/ ReorderWrite \/ ReorderEnd

Proceed == Fragment \/ FragmentEnd \/ ReorderStep \/ \E t \in Workers : Stage(t)

Next == Proceed \/ \E i \in Inputs : Encode(i)

\* The weakest fairness: as long as some thread can go on, one does.
Spec == Init /\ [][Next]_vars /\ WF_vars(Proceed)

----------------------------------------------------------------------------
\* SerialIntegratedPipeline, for the same chunks: one by one, the data of a content when it is
\* met for the first time and its SHA1 sum from then on.
SerialOutput ==
  LET all == FlattenSeq(input)
  IN  [k \in 1..Len(all) |->
        [kind |-> IF \E j \in 1..(k - 1) : all[j] = all[k] THEN "sha1" ELSE "data",
         content |-> all[k]]]

(* Whatever the threads do, the file is what the serial version of the      *)
(* program writes: chunks in the order of the input, the data of a content  *)
(* before every reference to it.                                            *)
WritesSerialOutput ==
  encoding /\ input # << >> => IsPrefix(file, SerialOutput)

(* A chunk is written only when the data it stands for is compressed, and   *)
(* when everything is done no chunk was left behind in a buffer or in the   *)
(* tree.                                                                    *)
NothingLeftBehind ==
  /\ \A i \in DOMAIN file : \E c \in zipped : c.content = file[i].content
  /\ Joined => reorder.pc = "done" /\ Len(file) = Len(FlattenSeq(input))

\* What has to end once it has started: Encode's threads; none waits for ever for items, for
\* a chunk to be compressed or for a queue to be closed.
Started == encoding
Ended == Joined

=============================================================================
