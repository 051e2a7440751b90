-------------------------- MODULE RingBufferProofs --------------------------
(***************************************************************************)
(* Machine-checked proofs that the per-CPU buffer of RingBuffer is type    *)
(* correct and that its log file is in order and complete, for every       *)
(* buffer size and any number of entries, with or without failing writes.  *)
(***************************************************************************)
EXTENDS RingBuffer, TLAPS

(* What both sides know of the indices: the consumer works on a range that *)
(* starts at head and ends at or before tail, and the producer, once past  *)
(* its test, has a slot of its own.                                        *)
IndexInv ==
  /\ lpc = "idle" => cur = head
  /\ lpc # "idle" => head # ltail /\ Dist(ltail) <= Dist(tail)
  /\ lpc = "first" => cur >= head /\ cur <= SegmentEnd
  /\ lpc = "second" => ltail > 0 /\ ltail < head /\ cur <= ltail
  /\ ppc # "idle" => Dist(tail) < BufferSize - 1
  /\ ppc = "publish" => buffer[tail] = offered

(* Entries are numbered upwards: what is published precedes the entry      *)
(* being copied, and the live slots hold published entries in their order. *)
OrderInv ==
  /\ \A e \in accepted : 0 < e /\ e <= offered
  /\ ppc # "idle" => 0 < offered /\ offered \notin accepted
  /\ \A i \in Live : buffer[i] \in accepted
  /\ \A i, j \in Live : Dist(i) < Dist(j) => buffer[i] < buffer[j]

(* Whatever kernel_write has dealt with precedes what it has not.          *)
FrontierInv ==
  /\ \A k \in DOMAIN file : file[k] = Fragment \/ file[k] \in accepted
  /\ lost \subseteq accepted
  /\ \A i \in Unwritten : \A k \in DOMAIN file : file[k] < buffer[i]
  /\ \A i \in Unwritten : \A e \in lost : e < buffer[i]

IInv == TypeOK /\ IndexInv /\ OrderInv /\ FrontierInv /\ LogInOrder /\ Conservation

-----------------------------------------------------------------------------
(* The modulo of enqueue is a wrap-around on the slots.                    *)
LEMMA SuccWraps ==
  ASSUME NEW i \in Slots
  PROVE  Succ(i) = IF i + 1 = BufferSize THEN 0 ELSE i + 1
BY BufferSizeAssumption DEF Succ, Slots

(* The type invariant holds in every reachable state of the buffer.        *)
THEOREM TypeCorrect == Spec => []TypeOK
<1> USE BufferSizeAssumption, MaxOfferedAssumption DEF Slots, Torn, Fragment
<1>1. Init => TypeOK
  BY DEF Init, TypeOK
<1>2. TypeOK /\ [Next]_vars => TypeOK'
  <2> SUFFICES ASSUME TypeOK, [Next]_vars PROVE TypeOK'
    OBVIOUS
  <2> USE DEF TypeOK, pvars, lvars
  <2>1. CASE EnqueueDrop
    BY <2>1 DEF EnqueueDrop
  <2>2. CASE EnqueueCopy
    BY <2>2 DEF EnqueueCopy
  <2>3. CASE EnqueueCopied
    BY <2>3 DEF EnqueueCopied
  <2>4. CASE EnqueuePublish
    BY <2>4, SuccWraps DEF EnqueuePublish
  <2>5. CASE LogSnapshot
    BY <2>5 DEF LogSnapshot
  <2>6. CASE WriteEntry
    BY <2>6 DEF WriteEntry, Writing, SegmentEnd
  <2>7. CASE WriteFail
    <3>1. SegmentEnd \in 0 .. BufferSize
      BY DEF SegmentEnd
    <3>2. file' \in Seq(Nat \cup {Torn})
      <4>1. Append(file, Fragment) \in Seq(Nat \cup {Torn})
        OBVIOUS
      <4> QED
        BY <2>7, <4>1, SMTT(30) DEF WriteFail
    <3>3. {buffer[i] : i \in cur .. SegmentEnd - 1} \subseteq Nat \cup {Torn}
      BY <3>1
    <3> QED
      BY <2>7, <3>1, <3>2, <3>3 DEF WriteFail
  <2>8. CASE WriteSecond
    BY <2>8 DEF WriteSecond
  <2>9. CASE LogRelease
    BY <2>9 DEF LogRelease
  <2>10. CASE UNCHANGED vars
    BY <2>10 DEF vars
  <2> QED
    BY <2>1, <2>2, <2>3, <2>4, <2>5, <2>6, <2>7, <2>8, <2>9, <2>10
    DEF Next, Producer, Consumer
<1> QED
  BY <1>1, <1>2, PTL DEF Spec

-----------------------------------------------------------------------------
(* The producer's steps leave the published slots alone: the slot at tail  *)
(* is not one of them.                                                     *)
LEMMA TailNotLive ==
  ASSUME TypeOK
  PROVE  tail \notin Live
BY BufferSizeAssumption DEF TypeOK, Live, Dist, Slots

(* The distance between two indices is smaller than the buffer.            *)
LEMMA DistType ==
  ASSUME TypeOK
  PROVE  \A i \in Slots : Dist(i) \in Nat /\ Dist(i) < BufferSize
BY BufferSizeAssumption DEF Dist, TypeOK, Slots

(* The consumer never passes the tail of its snapshot, nor that tail the   *)
(* one of now.                                                             *)
LEMMA DoneBounds ==
  ASSUME TypeOK, IndexInv
  PROVE  /\ Done \in Nat /\ Done <= Dist(tail)
         /\ lpc # "idle" => Done <= Dist(ltail)
<1> USE BufferSizeAssumption
<1>1. Dist(tail) \in Nat /\ Dist(ltail) \in Nat
  BY DistType DEF TypeOK
<1>2. CASE lpc = "idle"
  BY <1>1, <1>2 DEF Done
<1>3. CASE lpc = "first"
  <2>1. Done = cur - head
    BY <1>3 DEF Done
  <2>2. cur - head \in Nat /\ cur - head <= Dist(ltail)
    BY <1>3 DEF IndexInv, Dist, TypeOK, Slots, SegmentEnd
  <2> QED
    BY <1>1, <1>3, <2>1, <2>2 DEF IndexInv
<1>4. CASE lpc = "second"
  <2>1. Done = BufferSize - head + cur
    BY <1>4 DEF Done
  <2>2. BufferSize - head + cur \in Nat /\ BufferSize - head + cur <= Dist(ltail)
    BY <1>4 DEF IndexInv, Dist, TypeOK, Slots
  <2> QED
    BY <1>1, <1>4, <2>1, <2>2 DEF IndexInv
<1> QED
  BY <1>2, <1>3, <1>4 DEF TypeOK

(* A step that changes neither the file nor the published slots nor how    *)
(* far kernel_write has come keeps what is said of them.                   *)
LEMMA Frame ==
  ASSUME IInv,
         UNCHANGED <<file, accepted, lost>>,
         Unwritten' = Unwritten,
         \A i \in Unwritten : buffer'[i] = buffer[i]
  PROVE  FrontierInv' /\ LogInOrder' /\ Conservation'
<1>1. Logged' = Logged
  BY DEF Logged
<1>2. {buffer'[i] : i \in Unwritten'} = {buffer[i] : i \in Unwritten}
  OBVIOUS
<1> QED
  BY <1>1, <1>2 DEF IInv, FrontierInv, LogInOrder, Conservation

(* enqueue finds the buffer full.                                          *)
LEMMA DropKeepsIInv == IInv /\ EnqueueDrop => IInv'
<1> SUFFICES ASSUME IInv, EnqueueDrop PROVE IInv'
  OBVIOUS
<1> USE DEF IInv
<1>1. /\ UNCHANGED <<buffer, head, tail, ppc, lpc, ltail, cur, file, accepted, lost>>
      /\ offered' = offered + 1 /\ ppc = "idle"
  BY DEF EnqueueDrop, lvars
<1>2. TypeOK'
  BY <1>1 DEF TypeOK, Slots
<1>3. Live' = Live /\ Unwritten' = Unwritten
  BY <1>1 DEF Live, Unwritten, Dist, Done
<1>4. IndexInv'
  BY <1>1 DEF IndexInv, Dist, SegmentEnd
<1>5. OrderInv'
  BY <1>1, <1>3 DEF OrderInv, TypeOK, Dist
<1> QED
  BY <1>1, <1>2, <1>3, <1>4, <1>5, Frame

(* enqueue begins the copy into the slot at tail.                          *)
LEMMA CopyKeepsIInv == IInv /\ EnqueueCopy => IInv'
<1> SUFFICES ASSUME IInv, EnqueueCopy PROVE IInv'
  OBVIOUS
<1> USE BufferSizeAssumption DEF IInv
<1>1. /\ UNCHANGED <<head, tail, lpc, ltail, cur, file, accepted, lost>>
      /\ offered' = offered + 1 /\ ppc' = "copy"
      /\ buffer' = [buffer EXCEPT ![tail] = Torn]
      /\ Succ(tail) # head
  BY DEF EnqueueCopy, lvars, IsFull
<1>2. TypeOK'
  BY <1>1 DEF TypeOK, Slots
<1>3. Live' = Live /\ Unwritten' = Unwritten /\ Unwritten \subseteq Live
  BY <1>1 DEF Live, Unwritten, Dist, Done
<1>4. \A i \in Live : buffer'[i] = buffer[i]
  BY <1>1, TailNotLive DEF TypeOK, Live
<1>5. IndexInv'
  BY <1>1, SuccWraps DEF IndexInv, Dist, SegmentEnd, TypeOK, Slots
<1>6. OrderInv'
  BY <1>1, <1>3, <1>4 DEF OrderInv, TypeOK, Dist
<1> QED
  BY <1>1, <1>2, <1>3, <1>4, <1>5, <1>6, Frame

(* The copy is complete.                                                   *)
LEMMA CopiedKeepsIInv == IInv /\ EnqueueCopied => IInv'
<1> SUFFICES ASSUME IInv, EnqueueCopied PROVE IInv'
  OBVIOUS
<1> USE BufferSizeAssumption DEF IInv
<1>1. /\ UNCHANGED <<head, tail, lpc, ltail, cur, file, accepted, lost, offered>>
      /\ ppc = "copy" /\ ppc' = "publish"
      /\ buffer' = [buffer EXCEPT ![tail] = offered]
  BY DEF EnqueueCopied, lvars
<1>2. TypeOK'
  BY <1>1 DEF TypeOK, Slots
<1>3. Live' = Live /\ Unwritten' = Unwritten /\ Unwritten \subseteq Live
  BY <1>1 DEF Live, Unwritten, Dist, Done
<1>4. \A i \in Live : buffer'[i] = buffer[i]
  BY <1>1, TailNotLive DEF TypeOK, Live
<1>5. IndexInv'
  BY <1>1 DEF IndexInv, Dist, SegmentEnd, TypeOK, Slots
<1>6. OrderInv'
  BY <1>1, <1>3, <1>4 DEF OrderInv, TypeOK, Dist
<1> QED
  BY <1>1, <1>2, <1>3, <1>4, <1>5, <1>6, Frame

(* Publishing makes the slot at tail the newest live one, and its entry is *)
(* larger than every other.                                                *)
LEMMA PublishKeepsIInv == IInv /\ EnqueuePublish => IInv'
<1> SUFFICES ASSUME IInv, EnqueuePublish PROVE IInv'
  OBVIOUS
<1> USE BufferSizeAssumption DEF IInv
<1>1. /\ UNCHANGED <<buffer, head, lpc, ltail, cur, file, lost, offered>>
      /\ ppc = "publish" /\ ppc' = "idle"
      /\ tail' = Succ(tail) /\ accepted' = accepted \cup {offered}
  BY DEF EnqueuePublish, lvars
<1>2. /\ buffer[tail] = offered /\ 0 < offered /\ offered \notin accepted
      /\ Dist(tail) < BufferSize - 1
  BY <1>1 DEF IndexInv, OrderInv
<1>0. \A e \in accepted : e \in Nat /\ 0 < e /\ e < offered
  BY <1>2 DEF OrderInv, TypeOK
<1>3. TypeOK'
  BY <1>1, SuccWraps DEF TypeOK, Slots
<1>4. Dist(tail)' = Dist(tail) + 1
  BY <1>1, <1>2, SuccWraps DEF Dist, TypeOK, Slots
<1>5. \A i \in Slots : Dist(i)' = Dist(i) /\ (Dist(i) = Dist(tail) => i = tail)
  BY <1>1 DEF Dist, TypeOK, Slots
<1>6. \A i \in Slots : Dist(i) \in Nat
  BY DistType
<1>7. Live' = Live \cup {tail}
  BY <1>4, <1>5, <1>6 DEF Live, TypeOK
<1>8. Done' = Done /\ Done \in Nat /\ Done <= Dist(tail)
  BY <1>1, DoneBounds DEF Done
<1>9. Unwritten' = Unwritten \cup {tail}
  BY <1>5, <1>6, <1>7, <1>8 DEF Unwritten, Live, TypeOK
<1>10. IndexInv'
  BY <1>1, <1>4, <1>5 DEF IndexInv, SegmentEnd, TypeOK, Dist, Slots
<1>11. OrderInv'
  <2>1. \A i \in Live : buffer[i] \in accepted /\ buffer[i] < offered /\ Dist(i) < Dist(tail)
    BY <1>0 DEF OrderInv, Live
  <2>2. \A i, j \in Live' : Dist(i)' < Dist(j)' => buffer'[i] < buffer'[j]
    BY <1>1, <1>2, <1>5, <1>6, <1>7, <2>1 DEF OrderInv, Live, TypeOK
  <2> QED
    BY <1>1, <1>2, <1>7, <2>1, <2>2 DEF OrderInv, TypeOK
<1>12. Logged' = Logged
  BY <1>1 DEF Logged
<1>13. \A k \in DOMAIN file : file[k] < offered
  BY <1>0, <1>2 DEF FrontierInv, Fragment
<1>14. \A e \in lost : e < offered
  BY <1>0 DEF FrontierInv
<1>15. FrontierInv'
  BY <1>1, <1>2, <1>9, <1>13, <1>14 DEF FrontierInv
<1>16. LogInOrder'
  BY <1>1, <1>12 DEF LogInOrder
<1>17. Conservation'
  <2>1. {buffer'[i] : i \in Unwritten'} = {buffer[i] : i \in Unwritten} \cup {offered}
    BY <1>1, <1>2, <1>9
  <2>2. offered \notin Logged /\ offered \notin lost
    BY <1>2 DEF LogInOrder, FrontierInv
  <2> QED
    BY <1>1, <1>12, <2>1, <2>2 DEF Conservation
<1> QED
  BY <1>3, <1>10, <1>11, <1>15, <1>16, <1>17

(* The logger reads the indices.                                           *)
LEMMA SnapshotKeepsIInv == IInv /\ LogSnapshot => IInv'
<1> SUFFICES ASSUME IInv, LogSnapshot PROVE IInv'
  OBVIOUS
<1> USE BufferSizeAssumption DEF IInv
<1>1. /\ UNCHANGED <<buffer, head, tail, offered, ppc, file, accepted, lost>>
      /\ lpc = "idle" /\ lpc' = "first" /\ head # tail /\ ltail' = tail /\ cur' = head
  BY DEF LogSnapshot, pvars
<1>2. TypeOK'
  BY <1>1 DEF TypeOK, Slots
<1>3. Done' = Done
  BY <1>1 DEF Done, TypeOK, Slots
<1>4. Live' = Live /\ Unwritten' = Unwritten
  BY <1>1, <1>3 DEF Live, Unwritten, Dist
<1>5. IndexInv'
  BY <1>1 DEF IndexInv, Dist, SegmentEnd, TypeOK, Slots
<1>6. OrderInv'
  BY <1>1, <1>4 DEF OrderInv, Dist
<1> QED
  BY <1>1, <1>2, <1>4, <1>5, <1>6, Frame

(* The kernel_write of the part after the wrap begins.                     *)
LEMMA SecondKeepsIInv == IInv /\ WriteSecond => IInv'
<1> SUFFICES ASSUME IInv, WriteSecond PROVE IInv'
  OBVIOUS
<1> USE BufferSizeAssumption DEF IInv
<1>1. /\ UNCHANGED <<buffer, head, tail, ltail, offered, ppc, file, accepted, lost>>
      /\ lpc = "first" /\ lpc' = "second" /\ cur = BufferSize /\ cur' = 0
      /\ head >= ltail /\ ltail > 0
  BY DEF WriteSecond, SegmentEnd, pvars
<1>2. TypeOK'
  BY <1>1 DEF TypeOK, Slots
<1>3. Done' = Done
  BY <1>1 DEF Done, TypeOK, Slots
<1>4. Live' = Live /\ Unwritten' = Unwritten
  BY <1>1, <1>3 DEF Live, Unwritten, Dist
<1>5. IndexInv'
  BY <1>1 DEF IndexInv, Dist, SegmentEnd, TypeOK, Slots
<1>6. OrderInv'
  BY <1>1, <1>4 DEF OrderInv, Dist
<1> QED
  BY <1>1, <1>2, <1>4, <1>5, <1>6, Frame

(* The store of head releases exactly the slots kernel_write dealt with.   *)
LEMMA ReleaseKeepsIInv == IInv /\ LogRelease => IInv'
<1> SUFFICES ASSUME IInv, LogRelease PROVE IInv'
  OBVIOUS
<1> USE BufferSizeAssumption DEF IInv
<1>1. /\ UNCHANGED <<buffer, tail, ltail, offered, ppc, file, accepted, lost>>
      /\ Writing /\ cur = SegmentEnd /\ lpc' = "idle"
      /\ head' = ltail /\ cur' = ltail
      /\ lpc = "second" \/ head < ltail \/ ltail = 0
  BY DEF LogRelease, pvars
<1>2. TypeOK'
  BY <1>1 DEF TypeOK, Slots
<1>3. Done = Dist(ltail)
  <2>1. CASE lpc = "first"
    BY <1>1, <2>1 DEF Done, IndexInv, SegmentEnd, Dist, TypeOK, Slots
  <2>2. CASE lpc = "second"
    BY <1>1, <2>2 DEF Done, IndexInv, SegmentEnd, Dist, TypeOK, Slots
  <2> QED
    BY <1>1, <2>1, <2>2 DEF Writing
<1>4. \A i \in Slots : Dist(i)' = IF Dist(i) >= Dist(ltail)
                                  THEN Dist(i) - Dist(ltail)
                                  ELSE Dist(i) - Dist(ltail) + BufferSize
  BY <1>1 DEF Dist, TypeOK, Slots
<1>5. Dist(ltail) <= Dist(tail)
  BY <1>1 DEF IndexInv, Writing
<1>6. \A i \in Slots : Dist(i) \in Nat /\ Dist(i) < BufferSize
  BY DistType
<1>7. tail \in Slots /\ ltail \in Slots
  BY DEF TypeOK
<1>8. Live' = Unwritten
  BY <1>1, <1>3, <1>4, <1>5, <1>6, <1>7 DEF Live, Unwritten
<1>9. Unwritten' = Unwritten
  <2>1. \A i \in Slots : Dist(i)' \in Nat
    BY <1>1, <1>2 DEF Dist, TypeOK, Slots
  <2>2. Done' = 0
    BY <1>1 DEF Done
  <2>3. Unwritten' = Live'
    BY <2>1, <2>2 DEF Unwritten, Live
  <2> QED
    BY <1>8, <2>3
<1>10. IndexInv'
  BY <1>1, <1>4, <1>5, <1>6, <1>7 DEF IndexInv
<1>11. OrderInv'
  <2>1. \A i, j \in Live' : Dist(i)' < Dist(j)' => buffer'[i] < buffer'[j]
    BY <1>1, <1>3, <1>4, <1>6, <1>7, <1>8 DEF OrderInv, Unwritten, Live
  <2> QED
    BY <1>1, <1>8, <2>1 DEF OrderInv, Unwritten
<1> QED
  BY <1>1, <1>2, <1>9, <1>10, <1>11, Frame

(* The entry being copied to the file is the oldest one not dealt with.    *)
LEMMA WriteKeepsIInv == IInv /\ WriteEntry => IInv'
<1> SUFFICES ASSUME IInv, WriteEntry PROVE IInv'
  OBVIOUS
<1> USE BufferSizeAssumption DEF IInv
<1>1. /\ UNCHANGED <<buffer, head, tail, ltail, lpc, offered, ppc, accepted, lost>>
      /\ Writing /\ cur < SegmentEnd /\ cur' = cur + 1
      /\ file' = Append(file, buffer[cur])
  BY DEF WriteEntry, pvars
<1>2. cur \in Slots /\ cur + 1 <= BufferSize /\ SegmentEnd' = SegmentEnd
  BY <1>1 DEF SegmentEnd, TypeOK, Slots
<1>3. TypeOK'
  BY <1>1, <1>2 DEF TypeOK, Slots
<1>4. \A i \in Slots : Dist(i)' = Dist(i) /\ Dist(i) \in Nat /\ (Dist(i) = Dist(cur) => i = cur)
  BY <1>1, <1>2, DistType DEF Dist, TypeOK, Slots
<1>5. Dist(cur) = Done /\ Done' = Done + 1 /\ Done < Dist(ltail)
  <2>1. CASE lpc = "first"
    <3>1. Done = cur - head /\ Done' = (cur + 1) - head
      BY <1>1, <2>1 DEF Done
    <3>2. Dist(cur) = cur - head /\ cur - head < Dist(ltail)
      BY <1>1, <1>2, <2>1 DEF IndexInv, SegmentEnd, Dist, TypeOK, Slots
    <3> QED
      BY <1>2, <3>1, <3>2 DEF TypeOK, Slots
  <2>2. CASE lpc = "second"
    <3>1. Done = BufferSize - head + cur /\ Done' = BufferSize - head + (cur + 1)
      BY <1>1, <2>2 DEF Done
    <3>2. Dist(cur) = BufferSize - head + cur /\ BufferSize - head + cur < Dist(ltail)
      BY <1>1, <1>2, <2>2 DEF IndexInv, SegmentEnd, Dist, TypeOK, Slots
    <3> QED
      BY <1>2, <3>1, <3>2 DEF TypeOK, Slots
  <2> QED
    BY <1>1, <2>1, <2>2 DEF Writing
<1>6. Dist(ltail) <= Dist(tail) /\ tail \in Slots /\ ltail \in Slots
  BY <1>1 DEF IndexInv, Writing, TypeOK
<1>7. cur \in Unwritten
  BY <1>2, <1>4, <1>5, <1>6 DEF Unwritten, Live
<1>8. Live' = Live
  BY <1>1 DEF Live, Dist
<1>9. Unwritten' = Unwritten \ {cur}
  BY <1>2, <1>4, <1>5, <1>8 DEF Unwritten, Live
<1>10. \A i \in Unwritten' : buffer[cur] < buffer[i]
  BY <1>2, <1>4, <1>5, <1>7, <1>9 DEF OrderInv, Unwritten, Live
<1>11. buffer[cur] \in accepted /\ buffer[cur] \in Nat /\ 0 < buffer[cur]
  BY <1>7 DEF OrderInv, Unwritten, TypeOK
<1>12. /\ DOMAIN file = 1 .. Len(file) /\ Len(file) \in Nat
       /\ DOMAIN file' = 1 .. Len(file) + 1
       /\ \A k \in DOMAIN file : file'[k] = file[k]
       /\ file'[Len(file) + 1] = buffer[cur]
  BY <1>1, <1>11 DEF TypeOK
<1>13. Logged' = Logged \cup {buffer[cur]}
  BY <1>11, <1>12 DEF Logged, Fragment
<1>14. IndexInv'
  <2>1. Dist(tail)' = Dist(tail) /\ Dist(ltail)' = Dist(ltail)
    BY <1>1 DEF Dist
  <2>2. lpc' = "second" => cur' <= ltail'
    BY <1>1, <1>2 DEF SegmentEnd, TypeOK, Slots
  <2>3. lpc' = "first" => cur' >= head' /\ cur' <= SegmentEnd'
    BY <1>1, <1>2 DEF IndexInv, SegmentEnd, TypeOK, Slots
  <2> QED
    BY <1>1, <2>1, <2>2, <2>3 DEF IndexInv, Writing
<1>15. OrderInv'
  BY <1>1, <1>4, <1>8 DEF OrderInv, Live
<1>16. FrontierInv'
  <2>1. \A i \in Unwritten' : \A k \in DOMAIN file' : file'[k] < buffer[i]
    BY <1>9, <1>10, <1>12 DEF FrontierInv
  <2> QED
    BY <1>1, <1>9, <1>11, <1>12, <2>1 DEF FrontierInv
<1>17. LogInOrder'
  <2>1. \A k \in DOMAIN file : file[k] < buffer[cur]
    BY <1>7 DEF FrontierInv
  <2>2. \A j, k \in DOMAIN file' :
          j < k /\ file'[j] # Fragment /\ file'[k] # Fragment => file'[j] < file'[k]
    BY <1>12, <2>1 DEF LogInOrder
  <2> QED
    BY <1>1, <1>11, <1>13, <2>2 DEF LogInOrder
<1>18. Conservation'
  <2>1. {buffer[i] : i \in Unwritten'} = {buffer[i] : i \in Unwritten} \ {buffer[cur]}
    BY <1>7, <1>9, <1>10, <1>11
  <2> QED
    BY <1>1, <1>7, <1>13, <2>1, ZenonT(40) DEF Conservation
<1> QED
  BY <1>3, <1>14, <1>15, <1>16, <1>17, <1>18

(* What a failing kernel_write leaves out is a run of oldest entries, so   *)
(* the order of the rest is kept.                                          *)
LEMMA FailKeepsIInv == IInv /\ WriteFail => IInv'
<1> DEFINE seg == cur .. SegmentEnd - 1
<1> SUFFICES ASSUME IInv, WriteFail PROVE IInv'
  OBVIOUS
<1> USE BufferSizeAssumption DEF IInv
<1>1. /\ UNCHANGED <<buffer, head, tail, ltail, lpc, offered, ppc, accepted>>
      /\ Writing /\ cur < SegmentEnd /\ cur' = SegmentEnd
      /\ file' = file \/ file' = Append(file, Fragment)
      /\ lost' = lost \cup {buffer[i] : i \in seg}
  BY DEF WriteFail, pvars
<1>2. cur \in Slots /\ SegmentEnd \in 1 .. BufferSize /\ SegmentEnd' = SegmentEnd
  BY <1>1 DEF SegmentEnd, TypeOK, Slots
<1>3. \A i \in Slots : Dist(i)' = Dist(i) /\ Dist(i) \in Nat
  BY <1>1, DistType DEF Dist
<1>4. /\ seg \subseteq Slots /\ Done \in Nat /\ Done' \in Nat /\ Done' <= Dist(ltail)
      /\ \A i \in Slots : i \in seg <=> Dist(i) >= Done /\ Dist(i) < Done'
  <2>0. seg \subseteq Slots
    BY <1>2 DEF Slots
  <2>1. CASE lpc = "first"
    <3>1. Done = cur - head /\ Done' = SegmentEnd - head
      BY <1>1, <2>1 DEF Done
    <3>2. cur >= head /\ SegmentEnd - head <= Dist(ltail)
      BY <1>1, <1>2, <2>1 DEF IndexInv, SegmentEnd, Dist, TypeOK, Slots
    <3>3. \A i \in Slots : i \in seg <=> Dist(i) >= cur - head /\ Dist(i) < SegmentEnd - head
      BY <1>2, <3>2 DEF Dist, TypeOK, Slots
    <3> QED
      BY <1>1, <1>2, <2>0, <3>1, <3>2, <3>3 DEF TypeOK, Slots
  <2>2. CASE lpc = "second"
    <3>1. Done = BufferSize - head + cur /\ Done' = BufferSize - head + SegmentEnd
      BY <1>1, <2>2 DEF Done
    <3>2. SegmentEnd = ltail /\ ltail < head /\ BufferSize - head + ltail <= Dist(ltail)
      BY <1>1, <1>2, <2>2 DEF IndexInv, SegmentEnd, Dist, TypeOK, Slots
    <3>3. \A i \in Slots : i \in seg <=> /\ Dist(i) >= BufferSize - head + cur
                                         /\ Dist(i) < BufferSize - head + SegmentEnd
      BY <1>2, <3>2 DEF Dist, TypeOK, Slots
    <3> QED
      BY <1>1, <1>2, <2>0, <3>1, <3>2, <3>3 DEF TypeOK, Slots
  <2> QED
    BY <1>1, <2>1, <2>2 DEF Writing
<1> HIDE DEF seg
<1>5. Dist(ltail) <= Dist(tail) /\ tail \in Slots /\ ltail \in Slots
  BY <1>1 DEF IndexInv, Writing, TypeOK
<1>6. Live' = Live /\ seg \subseteq Live
  BY <1>1, <1>3, <1>4, <1>5 DEF Live, Dist
<1>7. seg \subseteq Unwritten /\ Unwritten' = Unwritten \ seg
  <2>1. \A i \in Live : Dist(i)' = Dist(i) /\ Dist(i) \in Nat /\ i \in Slots
    BY <1>3 DEF Live
  <2>2. seg \subseteq Unwritten
    BY <1>4, <1>6 DEF Unwritten
  <2>3. \A i \in Live : Dist(i)' >= Done' <=> Dist(i) >= Done /\ i \notin seg
    <3>1. Done <= Done'
      BY <1>1, <1>2 DEF Done, Writing, TypeOK, Slots
    <3> QED
      BY <1>4, <2>1, <3>1
  <2> QED
    BY <1>6, <2>1, <2>2, <2>3 DEF Unwritten
<1>8. \A i \in Unwritten' : \A k \in seg : buffer[k] < buffer[i]
  <2> SUFFICES ASSUME NEW i \in Unwritten', NEW k \in seg PROVE buffer[k] < buffer[i]
    OBVIOUS
  <2>1. i \in Live /\ k \in Live /\ i \in Slots /\ k \in Slots /\ Dist(i) >= Done /\ i \notin seg
    BY <1>6, <1>7 DEF Live, Unwritten
  <2>2. Dist(k) < Dist(i)
    BY <1>3, <1>4, <2>1
  <2> QED
    BY <2>1, <2>2 DEF OrderInv
<1>9. \A k \in seg : buffer[k] \in accepted /\ buffer[k] \in Nat /\ 0 < buffer[k]
  BY <1>6 DEF OrderInv, TypeOK
<1>10. \A i \in Unwritten : buffer[i] \in Nat /\ 0 < buffer[i]
  BY DEF Unwritten, OrderInv, TypeOK
<1>11. /\ DOMAIN file \subseteq DOMAIN file'
       /\ \A k \in DOMAIN file : file'[k] = file[k]
       /\ \A k \in DOMAIN file' : k \in DOMAIN file \/ file'[k] = Fragment
       /\ file' \in Seq(Nat \cup {Torn})
  <2>1. CASE file' = file
    BY <2>1 DEF TypeOK
  <2>2. CASE file' = Append(file, Fragment)
    <3>1. /\ DOMAIN file = 1 .. Len(file) /\ DOMAIN file' = 1 .. Len(file) + 1
          /\ Len(file) \in Nat /\ file' \in Seq(Nat \cup {Torn})
          /\ \A k \in DOMAIN file : file'[k] = file[k]
          /\ file'[Len(file) + 1] = Fragment
      BY <2>2 DEF TypeOK, Fragment
    <3> QED
      BY <3>1
  <2> QED
    BY <1>1, <2>1, <2>2
<1>12. Logged' = Logged
  BY <1>11 DEF Logged
<1>13. TypeOK'
  <2>1. lost' \subseteq Nat \cup {Torn} /\ cur' \in 0 .. BufferSize
    <3>1. {buffer[i] : i \in seg} \subseteq Nat
      BY <1>9
    <3>2. SegmentEnd \in 0 .. BufferSize
      BY <1>2
    <3> QED
      BY <1>1, <3>1, <3>2 DEF TypeOK
  <2> QED
    BY <1>1, <1>11, <2>1 DEF TypeOK, Slots
<1>14. IndexInv'
  <2>1. Dist(tail)' = Dist(tail) /\ Dist(ltail)' = Dist(ltail)
    BY <1>1 DEF Dist
  <2>2. lpc' = "second" => cur' <= ltail'
    BY <1>1, <1>2 DEF SegmentEnd, TypeOK, Slots
  <2>3. lpc' = "first" => cur' >= head' /\ cur' <= SegmentEnd'
    BY <1>1, <1>2 DEF IndexInv, TypeOK, Slots
  <2> QED
    BY <1>1, <2>1, <2>2, <2>3 DEF IndexInv, Writing
<1>15. OrderInv'
  BY <1>1, <1>3, <1>6 DEF OrderInv, Live
<1>16. FrontierInv'
  <2>1. \A i \in Unwritten' : \A k \in DOMAIN file' : file'[k] < buffer[i]
    BY <1>7, <1>10, <1>11 DEF FrontierInv, Fragment
  <2>2. \A i \in Unwritten' : \A e \in lost' : e < buffer[i]
    BY <1>1, <1>7, <1>8 DEF FrontierInv
  <2>3. lost' \subseteq accepted'
    BY <1>1, <1>9 DEF FrontierInv
  <2> QED
    BY <1>1, <1>11, <2>1, <2>2, <2>3 DEF FrontierInv
<1>17. LogInOrder'
  BY <1>1, <1>11, <1>12 DEF LogInOrder
<1>18. Conservation'
  <2> DEFINE waiting == {buffer[i] : i \in Unwritten}
             failed == {buffer[i] : i \in seg}
  <2>1. {buffer[i] : i \in Unwritten'} = waiting \ failed /\ failed \subseteq waiting
    <3>1. \A i \in Unwritten' : \A k \in seg : buffer[i] # buffer[k]
      BY <1>7, <1>8, <1>9, <1>10
    <3> QED
      BY <1>7, <3>1
  <2> QED
    BY <1>1, <1>12, <2>1, ZenonT(60) DEF Conservation
<1> QED
  BY <1>13, <1>14, <1>15, <1>16, <1>17, <1>18

-----------------------------------------------------------------------------
(* The invariant holds in every reachable state.                           *)
LEMMA IInvHolds == Spec => []IInv
<1>1. Init => IInv
  <2> SUFFICES ASSUME Init PROVE IInv
    OBVIOUS
  <2> USE BufferSizeAssumption DEF Init, Slots, Torn, Fragment
  <2>1. TypeOK
    BY DEF TypeOK
  <2>2. Live = {} /\ Unwritten = {} /\ Logged = {}
    BY DEF Live, Unwritten, Logged, Dist
  <2> QED
    BY <2>1, <2>2 DEF IInv, IndexInv, OrderInv, FrontierInv, LogInOrder, Conservation
<1>2. IInv /\ [Next]_vars => IInv'
  <2>1. IInv /\ UNCHANGED vars => IInv'
    <3> SUFFICES ASSUME IInv, UNCHANGED vars PROVE IInv'
      OBVIOUS
    <3>1. TypeOK'
      BY DEF vars, IInv, TypeOK
    <3>2. Live' = Live /\ Unwritten' = Unwritten
      BY DEF vars, Live, Unwritten, Dist, Done
    <3>3. IndexInv' /\ OrderInv'
      BY <3>2 DEF vars, IInv, IndexInv, OrderInv, Dist, SegmentEnd
    <3> QED
      BY <3>1, <3>2, <3>3, Frame DEF IInv, vars
  <2> QED
    BY <2>1, DropKeepsIInv, CopyKeepsIInv, CopiedKeepsIInv, PublishKeepsIInv,
       SnapshotKeepsIInv, WriteKeepsIInv, FailKeepsIInv, SecondKeepsIInv, ReleaseKeepsIInv
    DEF Next, Producer, Consumer
<1> QED
  BY <1>1, <1>2, PTL DEF Spec

(* Whatever the buffer size, the log file never shows an entry twice, out  *)
(* of the order of the polls, or read while enqueue was copying it.        *)
THEOREM LogCorrect == Spec => []LogInOrder
<1>1. IInv => LogInOrder
  BY DEF IInv
<1> QED
  BY <1>1, IInvHolds, PTL

(* Whatever the buffer size, log_and_clear and enqueue neither overwrite   *)
(* nor skip a published entry: each is in the file, in a slot still to be  *)
(* written, or lost by a failing kernel_write, and only in one of them.    *)
THEOREM NothingLost == Spec => []Conservation
<1>1. IInv => Conservation
  BY DEF IInv
<1> QED
  BY <1>1, IInvHolds, PTL

=============================================================================
