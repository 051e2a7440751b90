--------------------------- MODULE ProfileProofs ---------------------------
(***************************************************************************)
(* Proofs about InstructedProfile, for any number of callers, workers and  *)
(* CPUs, when every caller has an item of its own: each operation a caller *)
(* asks for is done exactly once, and it is done when the call returns.    *)
(* The invariant follows an item from the work list through the worker     *)
(* that takes it to the buffers and the log file.                          *)
(***************************************************************************)
EXTENDS InstructedProfile, FiniteSetTheorems, TLAPS

Phases == {"idle", "poll", "wait", "log", "snapshot", "write", "release"}
Sections == {"wait", "snapshot", "write", "release"}

\* CONCURRENT_INSTRUCTED_PROFILE is set and no two callers share a CPU.
OwnItems ==
  /\ Concurrent
  /\ \A c, d \in Callers : ItemOf(c) = ItemOf(d) => c = d

CallTypes ==
  /\ cpc \in [Callers -> {"idle", "queue", "flush"}] /\ cop \in [Callers -> Ops]
  /\ begun \in [Ops -> Nat] /\ finished \in [Ops -> Nat] /\ returned \in [Ops -> Nat]

ListTypes ==
  /\ func \in [Items -> Ops] /\ pending \in [Items -> BOOLEAN]
  /\ worklist \in Seq(Items) /\ relinked = {}

PhaseTypes ==
  /\ wpc \in [Workers -> Phases] /\ wfunc \in [Workers -> Ops]
  /\ item \in [Workers -> Items \cup {NoItem}] /\ lock \in Workers \cup {Nobody}

RoundTypes ==
  /\ left \in [Workers -> SUBSET Cpus] /\ stamp \in [Workers -> Nat]
  /\ todo \in [Workers -> SUBSET Cpus] /\ upto \in [Workers -> Nat]

BufferTypes ==
  /\ entries \in [Cpus -> Seq(Nat)] /\ head \in [Cpus -> Nat]

FileTypes ==
  /\ clock \in Nat /\ polled \in [Items -> Nat] /\ file \in Seq(Cpus \X Nat)

ProfileTypes ==
  CallTypes /\ ListTypes /\ PhaseTypes /\ RoundTypes /\ BufferTypes /\ FileTypes

Runs(i, w) == wpc[i] # "idle" /\ item[i] = w

(* The item of caller c is on the list, or on a worker, or on neither.     *)
ItemInv(c) ==
  LET w == ItemOf(c) IN
  /\ pending[w] <=> OnList(w)
  /\ OnList(w) => cpc[c] = "flush" /\ ~Running(w)
  /\ Running(w) => cpc[c] = "flush"
  /\ cpc[c] # "idle" => func[w] = cop[c]
  /\ \A i \in Workers : Runs(i, w) => wfunc[i] = cop[c]

QueueInv ==
  /\ \A j, k \in DOMAIN worklist : worklist[j] = worklist[k] => j = k
  /\ \A i \in Workers : wpc[i] # "idle" => item[i] \in Items
  /\ \A i, j \in Workers : \A w \in Items : Runs(i, w) /\ Runs(j, w) => i = j
  /\ \A c \in Callers : ItemInv(c)

Served(c) ==
  /\ cpc[c] = "flush"
  /\ ~OnList(ItemOf(c)) /\ ~Running(ItemOf(c))

CallingFor(o) == {c \in Callers : cpc[c] # "idle" /\ cop[c] = o}
ServedFor(o) == {c \in Callers : Served(c) /\ cop[c] = o}
CountOf(o) ==
  /\ begun[o] = returned[o] + Cardinality(CallingFor(o))
  /\ finished[o] = returned[o] + Cardinality(ServedFor(o))
CallCounts == \A o \in Ops : CountOf(o)

(* The lock is held through a poll and through a log.                      *)
SectionInv(i) ==
  /\ lock = i <=> wpc[i] \in Sections
  /\ wpc[i] # "wait" => left[i] = {}
  /\ wpc[i] = "wait" => stamp[i] = clock /\ polled[item[i]] = clock
  /\ wpc[i] \in {"write", "release"} =>
       \E c \in Cpus : NextCpu(i, c) /\ upto[i] = Len(entries[c])
LockInv == \A i \in Workers : SectionInv(i)

Releasing(c) == \E i \in Workers : wpc[i] = "release" /\ NextCpu(i, c)
Written(c) == IF Releasing(c) THEN Len(entries[c]) ELSE head[c]

BufferInv(c) ==
  /\ \A j, k \in DOMAIN entries[c] : j < k => entries[c][j] < entries[c][k]
  /\ \A k \in DOMAIN entries[c] : entries[c][k] <= clock
  /\ \A i \in Workers : c \in left[i] =>
       \A k \in DOMAIN entries[c] : entries[c][k] < stamp[i]
  /\ head[c] <= Len(entries[c])

(* The records of CPU c in the log F are the first n entries of E, in      *)
(* order.                                                                  *)
FileHolds(F, c, E, n) ==
  /\ \A j, k \in DOMAIN F : j < k /\ F[j][1] = c /\ F[k][1] = c => F[j][2] < F[k][2]
  /\ \A j \in 1 .. n : \E k \in DOMAIN F : F[k] = <<c, E[j]>>
  /\ \A k \in DOMAIN F : F[k][1] = c => \E j \in 1 .. n : F[k][2] = E[j]

LogInv(c) == FileHolds(file, c, entries[c], Written(c))

Kept(d, t) == <<d, t>> \in dropped \/ \E k \in DOMAIN entries[d] : entries[d][k] = t
Saved(d, t) == <<d, t>> \in dropped \/ \E k \in DOMAIN file : file[k] = <<d, t>>

PolledInv(i) ==
  wpc[i] # "idle" /\ wfunc[i] = "poll_and_log" =>
    \A d \in Cpus :
      /\ wpc[i] = "wait" /\ d \notin left[i] => Kept(d, polled[item[i]])
      /\ wpc[i] = "log" => Kept(d, polled[item[i]])
      /\ wpc[i] \in {"snapshot", "write", "release"} =>
           IF d \in todo[i] THEN Kept(d, polled[item[i]]) ELSE Saved(d, polled[item[i]])

ServedInv(c) ==
  Served(c) /\ cop[c] = "poll_and_log" => \A d \in Cpus : Saved(d, polled[ItemOf(c)])

ProfileInv ==
  /\ ProfileTypes /\ QueueInv /\ CallCounts /\ LockInv
  /\ \A c \in Cpus : BufferInv(c) /\ LogInv(c)
  /\ \A i \in Workers : PolledInv(i)
  /\ \A c \in Callers : ServedInv(c)

-----------------------------------------------------------------------------
(* for_each_cpu comes to one CPU at a time.                                *)
LEMMA NextCpuUnique ==
  ASSUME ProfileAssumption, RoundTypes, NEW i \in Workers, NEW c, NEW d,
         NextCpu(i, c), NextCpu(i, d)
  PROVE  c = d /\ c \in Cpus
<1>1. c \in Nat /\ d \in Nat /\ c \in Cpus
  BY Zenon DEF ProfileAssumption, RoundTypes, NextCpu
<1>2. c <= d /\ d <= c
  BY Zenon DEF NextCpu
<1> QED BY <1>1, <1>2

(* Taking the first of a list without repetitions removes just that one.   *)
LEMMA TailFacts ==
  ASSUME NEW S, NEW L \in Seq(S), L # << >>,
         \A j, k \in DOMAIN L : L[j] = L[k] => j = k
  PROVE  /\ Head(L) \in S /\ Tail(L) \in Seq(S)
         /\ \E k \in DOMAIN L : L[k] = Head(L)
         /\ \A j, k \in DOMAIN Tail(L) : Tail(L)[j] = Tail(L)[k] => j = k
         /\ \A v : (\E k \in DOMAIN Tail(L) : Tail(L)[k] = v)
                  <=> (\E k \in DOMAIN L : L[k] = v) /\ v # Head(L)
<1>1. Len(L) \in Nat \ {0} /\ DOMAIN L = 1 .. Len(L) /\ Head(L) = L[1]
  OBVIOUS
<1>2. Tail(L) \in Seq(S) /\ Len(Tail(L)) = Len(L) - 1
  OBVIOUS
<1>3. \A k \in 1 .. Len(L) - 1 : Tail(L)[k] = L[k + 1]
  OBVIOUS
<1>4. DOMAIN Tail(L) = 1 .. Len(L) - 1
  BY <1>2
<1>5. \A j, k \in DOMAIN Tail(L) : Tail(L)[j] = Tail(L)[k] => j = k
  BY <1>1, <1>3, <1>4
<1>6. ASSUME NEW v, NEW k \in DOMAIN Tail(L), Tail(L)[k] = v
      PROVE  (\E l \in DOMAIN L : L[l] = v) /\ v # Head(L)
  <2>1. k + 1 \in DOMAIN L /\ L[k + 1] = v /\ 1 \in DOMAIN L /\ k + 1 # 1
    BY <1>1, <1>3, <1>4, <1>6
  <2> QED BY <2>1, <1>1, Zenon
<1>7. ASSUME NEW v, NEW k \in DOMAIN L, L[k] = v, v # Head(L)
      PROVE  \E l \in DOMAIN Tail(L) : Tail(L)[l] = v
  <2>1. k - 1 \in DOMAIN Tail(L) /\ Tail(L)[k - 1] = v
    BY <1>1, <1>3, <1>4, <1>7
  <2> QED BY <2>1, Zenon
<1> QED BY <1>1, <1>2, <1>5, <1>6, <1>7

(* Appending to a list adds one element at its end.                        *)
LEMMA AppendFacts ==
  ASSUME NEW S, NEW L \in Seq(S), NEW w \in S
  PROVE  /\ Append(L, w) \in Seq(S) /\ Len(Append(L, w)) = Len(L) + 1
         /\ DOMAIN Append(L, w) = DOMAIN L \cup {Len(L) + 1}
         /\ \A k \in DOMAIN L : Append(L, w)[k] = L[k] /\ k < Len(L) + 1
         /\ Append(L, w)[Len(L) + 1] = w
         /\ \A v : (\E k \in DOMAIN Append(L, w) : Append(L, w)[k] = v)
                  <=> (\E k \in DOMAIN L : L[k] = v) \/ v = w
<1>1. /\ Append(L, w) \in Seq(S) /\ Len(Append(L, w)) = Len(L) + 1
      /\ DOMAIN L = 1 .. Len(L) /\ Len(L) \in Nat
      /\ \A k \in 1 .. Len(L) : Append(L, w)[k] = L[k]
      /\ Append(L, w)[Len(L) + 1] = w
  OBVIOUS
<1>2. DOMAIN Append(L, w) = DOMAIN L \cup {Len(L) + 1}
  BY <1>1
<1>3. \A k \in DOMAIN L : Append(L, w)[k] = L[k] /\ k < Len(L) + 1
  BY <1>1
<1> QED BY <1>1, <1>2, <1>3, Zenon

(* The elements of a concatenation, by index.                              *)
LEMMA ConcatIndex ==
  ASSUME NEW S, NEW F \in Seq(S), NEW M \in Seq(S)
  PROVE  /\ F \o M \in Seq(S)
         /\ Len(F) \in Nat /\ Len(M) \in Nat /\ DOMAIN F = 1 .. Len(F)
         /\ DOMAIN (F \o M) = 1 .. Len(F) + Len(M)
         /\ \A k \in 1 .. Len(F) : (F \o M)[k] = F[k]
         /\ \A k \in 1 .. Len(M) : (F \o M)[Len(F) + k] = M[k]
  OBVIOUS

(* The range kernel_write is given, by index.                              *)
LEMMA RangeFacts ==
  ASSUME NEW E \in Seq(Nat), NEW h \in Nat, h <= Len(E), NEW R, R = SubSeq(E, h + 1, Len(E))
  PROVE  /\ Len(E) - h \in Nat /\ R \in Seq(Nat) /\ Len(R) = Len(E) - h
         /\ \A k \in 1 .. Len(E) - h : R[k] = E[h + k] /\ R[k] \in Nat
<1>1. Len(E) - h \in Nat /\ R \in Seq(Nat) /\ Len(R) = Len(E) - h
  OBVIOUS
<1>2. \A k \in 1 .. Len(E) - h : R[k] = E[h + k]
  OBVIOUS
<1>3. \A k \in 1 .. Len(E) - h : R[k] \in Nat
  BY <1>1
<1> QED BY <1>1, <1>2, <1>3, Zenon

(* An index behind the first f records of the file is one of the range     *)
(* written.                                                                *)
LEMMA Shifted ==
  ASSUME NEW f \in Nat, NEW e \in Nat, NEW h \in Nat, h <= e,
         NEW k \in 1 .. f + (e - h), k \notin 1 .. f
  PROVE  k - f \in 1 .. (e - h) /\ f + (k - f) = k /\ h + (k - f) \in h + 1 .. e
  OBVIOUS

(* kernel_write of the entries from h on completes the records of c.       *)
LEMMA WriteOwn ==
  ASSUME NEW F, NEW G, NEW c, NEW E, NEW f \in Nat, NEW e \in Nat, NEW h \in Nat, h <= e,
         DOMAIN F = 1 .. f, DOMAIN G = 1 .. f + (e - h), DOMAIN E = 1 .. e,
         \A k \in 1 .. f : G[k] = F[k],
         \A k \in 1 .. (e - h) : G[f + k] = <<c, E[h + k]>>,
         \A j, k \in 1 .. e : j < k => E[j] < E[k],
         FileHolds(F, c, E, h)
  PROVE  FileHolds(G, c, E, e)
<1>1. ASSUME NEW k \in DOMAIN G, k \notin 1 .. f
      PROVE  h + (k - f) \in h + 1 .. e /\ G[k] = <<c, E[h + (k - f)]>>
  <2>1. k - f \in 1 .. (e - h) /\ f + (k - f) = k /\ h + (k - f) \in h + 1 .. e
    BY <1>1, Shifted, Zenon
  <2> QED BY <2>1, Zenon
<1>2. \A k \in 1 .. f : F[k][1] = c => \E j \in 1 .. h : F[k][2] = E[j]
  BY Zenon DEF FileHolds
<1>3. \A k \in 1 .. f : k \in DOMAIN G
  OBVIOUS
<1>4. ASSUME NEW j \in DOMAIN G, NEW k \in DOMAIN G, j < k, G[j][1] = c, G[k][1] = c
      PROVE  G[j][2] < G[k][2]
  <2>1. CASE j \in 1 .. f /\ k \in 1 .. f
    <3>1. G[j] = F[j] /\ G[k] = F[k]
      BY <2>1, Zenon
    <3>2. F[j][2] < F[k][2]
      BY <3>1, <2>1, <1>4, Zenon DEF FileHolds
    <3> QED BY <3>1, <3>2, Zenon
  <2>2. CASE j \in 1 .. f /\ k \notin 1 .. f
    <3>1. PICK p \in 1 .. h : G[j][2] = E[p]
      BY <2>2, <1>2, <1>4, Zenon
    <3>2. PICK q \in h + 1 .. e : G[k] = <<c, E[q]>>
      BY <2>2, <1>1, Zenon
    <3>3. p \in 1 .. e /\ q \in 1 .. e /\ p < q
      OBVIOUS
    <3> QED BY <3>1, <3>2, <3>3
  <2>3. CASE j \notin 1 .. f
    <3> DEFINE p == h + (j - f)
               q == h + (k - f)
    <3>1. p \in 1 .. e /\ G[j] = <<c, E[p]>>
      BY <2>3, <1>1
    <3>2. k \notin 1 .. f
      BY <2>3, <1>4
    <3>3. q \in 1 .. e /\ G[k] = <<c, E[q]>>
      BY <3>2, <1>1
    <3>4. p < q
      BY <1>4
    <3> HIDE DEF p, q
    <3> QED BY <3>1, <3>3, <3>4
  <2> QED BY <2>1, <2>2, <2>3, Zenon
<1>5. ASSUME NEW j \in 1 .. e PROVE \E k \in DOMAIN G : G[k] = <<c, E[j]>>
  <2>1. CASE j \in 1 .. h
    <3>1. PICK k \in 1 .. f : F[k] = <<c, E[j]>>
      BY <2>1, Zenon DEF FileHolds
    <3> QED BY <3>1, <1>3, Zenon
  <2>2. CASE j \notin 1 .. h
    <3>1. j - h \in 1 .. (e - h) /\ h + (j - h) = j /\ f + (j - h) \in DOMAIN G
      BY <2>2
    <3>2. G[f + (j - h)] = <<c, E[j]>>
      BY <3>1, Zenon
    <3> QED BY <3>1, <3>2, Zenon
  <2> QED BY <2>1, <2>2, Zenon
<1>6. ASSUME NEW k \in DOMAIN G, G[k][1] = c PROVE \E j \in 1 .. e : G[k][2] = E[j]
  <2>1. CASE k \in 1 .. f
    <3>1. PICK j \in 1 .. h : F[k][2] = E[j]
      BY <2>1, <1>6, <1>2, Zenon
    <3>2. j \in 1 .. e /\ G[k][2] = E[j]
      BY <3>1, <2>1
    <3> QED BY <3>2, Zenon
  <2>2. CASE k \notin 1 .. f
    <3> DEFINE q == h + (k - f)
    <3>1. q \in 1 .. e /\ G[k][2] = E[q]
      BY <2>2, <1>1
    <3> HIDE DEF q
    <3> QED BY <3>1, Zenon
  <2> QED BY <2>1, <2>2, Zenon
<1> QED BY <1>4, <1>5, <1>6, Zenon DEF FileHolds

(* It adds no record of another CPU.                                       *)
LEMMA WriteOther ==
  ASSUME NEW F, NEW G, NEW c, NEW E, NEW n, NEW f \in Nat, NEW m \in Nat,
         DOMAIN F = 1 .. f, DOMAIN G = 1 .. f + m,
         \A k \in 1 .. f : G[k] = F[k],
         \A k \in 1 .. m : G[f + k][1] # c,
         FileHolds(F, c, E, n)
  PROVE  FileHolds(G, c, E, n)
<1>1. ASSUME NEW k \in DOMAIN G, G[k][1] = c PROVE k \in DOMAIN F /\ G[k] = F[k]
  <2>1. k \notin 1 .. f => k - f \in 1 .. m /\ f + (k - f) = k
    OBVIOUS
  <2> QED BY <2>1, <1>1, Zenon
<1>2. \A k \in DOMAIN F : k \in DOMAIN G /\ G[k] = F[k]
  OBVIOUS
<1>3. \A j, k \in DOMAIN G : j < k /\ G[j][1] = c /\ G[k][1] = c => G[j][2] < G[k][2]
  BY <1>1, Zenon DEF FileHolds
<1>4. \A j \in 1 .. n : \E k \in DOMAIN G : G[k] = <<c, E[j]>>
  BY <1>2, Zenon DEF FileHolds
<1>5. \A k \in DOMAIN G : G[k][1] = c => \E j \in 1 .. n : G[k][2] = E[j]
  BY <1>1 DEF FileHolds
<1> QED BY <1>3, <1>4, <1>5, Zenon DEF FileHolds

(* An entry appended to the buffer leaves the records as they are.         *)
LEMMA GrowKeeps ==
  ASSUME NEW F, NEW c, NEW E \in Seq(Nat), NEW x \in Nat, NEW n \in 0 .. Len(E),
         FileHolds(F, c, E, n)
  PROVE  FileHolds(F, c, Append(E, x), n)
<1>1. \A j \in 1 .. n : Append(E, x)[j] = E[j]
  BY AppendFacts
<1> QED BY <1>1, ZenonT(30) DEF FileHolds

-----------------------------------------------------------------------------
(* The steps of a caller, of a worker and of an interrupt handler.         *)
LEMMA StepCases ==
  ASSUME ProfileNext
  PROVE  \/ \E c \in Callers, op \in Ops : CallInit(c, op)
         \/ \E c \in Callers : CallQueue(c) \/ CallReturn(c)
         \/ \E i \in Workers : Take(i) \/ PollBegin(i) \/ PollEnd(i)
         \/ \E i \in Workers : LogBegin(i) \/ LogSnapshot(i) \/ LogWrite(i)
                                \/ LogRelease(i) \/ LogEnd(i)
         \/ \E i \in Workers, c \in Cpus : PollerFunc(i, c)
  BY Zenon DEF ProfileNext, Call, Work, Handlers

(* What kernel_write adds to the file.                                     *)
LEMMA WriteFacts ==
  ASSUME ProfileAssumption, ProfileTypes, LockInv, \A d \in Cpus : BufferInv(d),
         NEW i \in Workers, LogWrite(i)
  PROVE  \E c \in Cpus :
         LET m == Len(entries[c]) - head[c] IN
            /\ NextCpu(i, c) /\ upto[i] = Len(entries[c]) /\ m \in Nat
            /\ file' \in Seq(Cpus \X Nat) /\ Len(file) \in Nat
            /\ DOMAIN file = 1 .. Len(file) /\ DOMAIN file' = 1 .. Len(file) + m
            /\ \A k \in 1 .. Len(file) : file'[k] = file[k]
            /\ \A k \in 1 .. m : file'[Len(file) + k] = <<c, entries[c][head[c] + k]>>
<1>0. PICK c \in Cpus :
        /\ NextCpu(i, c)
        /\ LET range == SubSeq(entries[c], head[c] + 1, upto[i])
           IN file' = file \o [k \in 1 .. Len(range) |-> <<c, range[k]>>]
  BY Zenon DEF LogWrite
<1> DEFINE m == Len(entries[c]) - head[c]
           range == SubSeq(entries[c], head[c] + 1, upto[i])
           new == [k \in 1 .. Len(range) |-> <<c, range[k]>>]
           S == Cpus \X Nat
<1>1. upto[i] = Len(entries[c])
  <2>1. PICK d \in Cpus : NextCpu(i, d) /\ upto[i] = Len(entries[d])
    BY Zenon DEF LogWrite, LockInv, SectionInv
  <2> QED BY <1>0, <2>1, NextCpuUnique, Zenon DEF ProfileTypes
<1>2. file' = file \o new
  BY <1>0, Zenon
<1>3. entries[c] \in Seq(Nat) /\ head[c] \in Nat /\ head[c] <= Len(entries[c]) /\ file \in Seq(S)
  BY Zenon DEF ProfileTypes, BufferTypes, FileTypes, BufferInv
<1>4. /\ m \in Nat /\ range \in Seq(Nat) /\ Len(range) = m
      /\ \A k \in 1 .. m : range[k] = entries[c][head[c] + k] /\ range[k] \in Nat
  BY <1>1, <1>3, RangeFacts, Zenon
<1> HIDE DEF range
<1>5. new \in Seq(S) /\ Len(new) = m /\ \A k \in 1 .. m : new[k] = <<c, entries[c][head[c] + k]>>
  BY <1>4
<1> HIDE DEF new, S, m
<1>6. /\ file' \in Seq(S) /\ Len(file) \in Nat
      /\ DOMAIN file = 1 .. Len(file) /\ DOMAIN file' = 1 .. Len(file) + m
      /\ \A k \in 1 .. Len(file) : file'[k] = file[k]
      /\ \A k \in 1 .. m : file'[Len(file) + k] = new[k]
  BY <1>2, <1>3, <1>5, ConcatIndex, SMT
<1>7. \A k \in 1 .. m : file'[Len(file) + k] = <<c, entries[c][head[c] + k]>>
  BY <1>5, <1>6, Zenon
<1> QED BY <1>0, <1>1, <1>4, <1>6, <1>7, Zenon DEF m, S

(* The variables of instructed mode keep their types.                      *)
LEMMA ProfileTypesStep ==
  ASSUME ProfileAssumption, OwnItems, ProfileTypes, QueueInv, LockInv,
         \A c \in Cpus : BufferInv(c), [ProfileNext]_profileVars
  PROVE  ProfileTypes'
<1> USE DEF callVars, queueVars, workVars, dataVars
<1>0. /\ CallTypes /\ ListTypes /\ PhaseTypes /\ RoundTypes /\ BufferTypes /\ FileTypes
      /\ Items' = Items /\ \A c \in Callers : ItemOf(c) \in Items
  BY Zenon DEF ProfileTypes, ItemOf, Items
<1>1. ASSUME UNCHANGED <<cpc, cop, begun, finished, returned>> PROVE CallTypes'
  BY <1>1, <1>0, Zenon DEF CallTypes
<1>2. ASSUME UNCHANGED <<func, pending, worklist, relinked>> PROVE ListTypes'
  BY <1>2, <1>0, Zenon DEF ListTypes
<1>3. ASSUME UNCHANGED <<wpc, wfunc, item, lock>> PROVE PhaseTypes'
  BY <1>3, <1>0, Zenon DEF PhaseTypes
<1>4. ASSUME UNCHANGED <<left, stamp, todo, upto>> PROVE RoundTypes'
  BY <1>4, <1>0, Zenon DEF RoundTypes
<1>5. ASSUME UNCHANGED <<entries, head>> PROVE BufferTypes'
  BY <1>5, <1>0, Zenon DEF BufferTypes
<1>6. ASSUME UNCHANGED <<clock, polled, file>> PROVE FileTypes'
  BY <1>6, <1>0, Zenon DEF FileTypes
<1>7. ASSUME NEW c \in Callers, NEW op \in Ops, CallInit(c, op) PROVE ProfileTypes'
  <2>1. CallTypes'
    BY <1>0, <1>7 DEF CallInit, CallTypes
  <2>2. ListTypes'
    <3>1. ~OnList(ItemOf(c)) /\ relinked' = {}
      BY <1>7, <1>0, Zenon DEF CallInit, QueueInv, ItemInv, ListTypes
    <3> QED BY <3>1, <1>0, <1>7, Zenon DEF CallInit, ListTypes
  <2>3. PhaseTypes'
    BY <1>7, <1>3, Zenon DEF CallInit
  <2>4. RoundTypes'
    BY <1>7, <1>4, Zenon DEF CallInit
  <2>5. BufferTypes'
    BY <1>7, <1>5, Zenon DEF CallInit
  <2>6. FileTypes'
    BY <1>7, <1>6, Zenon DEF CallInit
  <2> QED BY <2>1, <2>2, <2>3, <2>4, <2>5, <2>6, Zenon DEF ProfileTypes
<1>8. ASSUME NEW c \in Callers, CallQueue(c) PROVE ProfileTypes'
  <2>1. CallTypes'
    BY <1>0, <1>8, Zenon DEF CallQueue, CallTypes
  <2>2. ListTypes'
    <3>1. worklist' \in Seq(Items)
      BY <1>0, <1>8, AppendFacts, Zenon DEF CallQueue, ListTypes
    <3> QED BY <3>1, <1>0, <1>8, Zenon DEF CallQueue, ListTypes
  <2>3. PhaseTypes'
    BY <1>8, <1>3, Zenon DEF CallQueue
  <2>4. RoundTypes'
    BY <1>8, <1>4, Zenon DEF CallQueue
  <2>5. BufferTypes'
    BY <1>8, <1>5, Zenon DEF CallQueue
  <2>6. FileTypes'
    BY <1>8, <1>6, Zenon DEF CallQueue
  <2> QED BY <2>1, <2>2, <2>3, <2>4, <2>5, <2>6, Zenon DEF ProfileTypes
<1>9. ASSUME NEW c \in Callers, CallReturn(c) PROVE ProfileTypes'
  <2>1. CallTypes'
    BY <1>0, <1>9 DEF CallReturn, CallTypes
  <2>2. ListTypes'
    BY <1>9, <1>2, Zenon DEF CallReturn
  <2>3. PhaseTypes'
    BY <1>9, <1>3, Zenon DEF CallReturn
  <2>4. RoundTypes'
    BY <1>9, <1>4, Zenon DEF CallReturn
  <2>5. BufferTypes'
    BY <1>9, <1>5, Zenon DEF CallReturn
  <2>6. FileTypes'
    BY <1>9, <1>6, Zenon DEF CallReturn
  <2> QED BY <2>1, <2>2, <2>3, <2>4, <2>5, <2>6, Zenon DEF ProfileTypes
<1>10. ASSUME NEW i \in Workers, Take(i) PROVE ProfileTypes'
  <2>0. Head(worklist) \in Items /\ Tail(worklist) \in Seq(Items)
    BY <1>10, <1>0, TailFacts, Zenon DEF Take, ListTypes, QueueInv
  <2>1. CallTypes'
    BY <1>10, <1>1, Zenon DEF Take
  <2>2. ListTypes'
    <3>1. worklist' \in Seq(Items)
      BY <2>0, <1>10, <1>0, Zenon DEF Take, ListTypes
    <3> QED BY <3>1, <2>0, <1>0, <1>10, Zenon DEF Take, ListTypes
  <2>3. PhaseTypes'
    BY <2>0, <1>10, <1>0, Zenon DEF Take, PhaseTypes, Phases, ListTypes
  <2>4. RoundTypes'
    BY <1>10, <1>4, Zenon DEF Take
  <2>5. BufferTypes'
    BY <1>10, <1>5, Zenon DEF Take
  <2>6. FileTypes'
    BY <1>10, <1>6, Zenon DEF Take
  <2> QED BY <2>1, <2>2, <2>3, <2>4, <2>5, <2>6, Zenon DEF ProfileTypes
<1>11. ASSUME NEW i \in Workers, PollBegin(i) PROVE ProfileTypes'
  <2>1. CallTypes'
    BY <1>11, <1>1, Zenon DEF PollBegin, Acquire
  <2>2. ListTypes'
    BY <1>11, <1>2, Zenon DEF PollBegin, Acquire
  <2>3. PhaseTypes'
    BY <1>0, <1>11, Zenon DEF PollBegin, Acquire, PhaseTypes, Phases
  <2>4. RoundTypes'
    BY <1>0, <1>11 DEF PollBegin, RoundTypes, FileTypes
  <2>5. BufferTypes'
    BY <1>11, <1>5, Zenon DEF PollBegin, Acquire
  <2>6. FileTypes'
    <3>1. item[i] \in Items
      BY <1>11, Zenon DEF PollBegin, QueueInv
    <3> QED BY <3>1, <1>0, <1>11 DEF PollBegin, FileTypes
  <2> QED BY <2>1, <2>2, <2>3, <2>4, <2>5, <2>6, Zenon DEF ProfileTypes
<1>12. ASSUME NEW i \in Workers, PollEnd(i) PROVE ProfileTypes'
  <2>1. CallTypes'
    BY <1>0, <1>12 DEF PollEnd, Finish, CallTypes, PhaseTypes
  <2>2. ListTypes'
    BY <1>12, <1>2, Zenon DEF PollEnd, Finish, Release
  <2>3. PhaseTypes'
    BY <1>0, <1>12, Zenon DEF PollEnd, Finish, Release, PhaseTypes, Phases
  <2>4. RoundTypes'
    BY <1>12, <1>4, Zenon DEF PollEnd, Finish, Release
  <2>5. BufferTypes'
    BY <1>12, <1>5, Zenon DEF PollEnd, Finish, Release
  <2>6. FileTypes'
    BY <1>12, <1>6, Zenon DEF PollEnd, Finish, Release
  <2> QED BY <2>1, <2>2, <2>3, <2>4, <2>5, <2>6, Zenon DEF ProfileTypes
<1>13. ASSUME NEW i \in Workers, LogBegin(i) PROVE ProfileTypes'
  <2>1. CallTypes'
    BY <1>13, <1>1, Zenon DEF LogBegin, Acquire
  <2>2. ListTypes'
    BY <1>13, <1>2, Zenon DEF LogBegin, Acquire
  <2>3. PhaseTypes'
    BY <1>0, <1>13, Zenon DEF LogBegin, Acquire, PhaseTypes, Phases
  <2>4. RoundTypes'
    BY <1>0, <1>13, Zenon DEF LogBegin, Acquire, RoundTypes
  <2>5. BufferTypes'
    BY <1>13, <1>5, Zenon DEF LogBegin, Acquire
  <2>6. FileTypes'
    BY <1>13, <1>6, Zenon DEF LogBegin, Acquire
  <2> QED BY <2>1, <2>2, <2>3, <2>4, <2>5, <2>6, Zenon DEF ProfileTypes
<1>14. ASSUME NEW i \in Workers, LogSnapshot(i) PROVE ProfileTypes'
  <2>1. CallTypes'
    BY <1>14, <1>1, Zenon DEF LogSnapshot
  <2>2. ListTypes'
    BY <1>14, <1>2, Zenon DEF LogSnapshot
  <2>3. PhaseTypes'
    BY <1>0, <1>14, Zenon DEF LogSnapshot, PhaseTypes, Phases
  <2>4. RoundTypes'
    <3>1. \A c \in Cpus : Len(entries[c]) \in Nat
      BY <1>0 DEF BufferTypes
    <3> QED BY <3>1, <1>0, <1>14, Zenon DEF LogSnapshot, RoundTypes
  <2>5. BufferTypes'
    BY <1>14, <1>5, Zenon DEF LogSnapshot
  <2>6. FileTypes'
    BY <1>14, <1>6, Zenon DEF LogSnapshot
  <2> QED BY <2>1, <2>2, <2>3, <2>4, <2>5, <2>6, Zenon DEF ProfileTypes
<1>15. ASSUME NEW i \in Workers, LogWrite(i) PROVE ProfileTypes'
  <2>1. CallTypes'
    BY <1>15, <1>1, Zenon DEF LogWrite
  <2>2. ListTypes'
    BY <1>15, <1>2, Zenon DEF LogWrite
  <2>3. PhaseTypes'
    BY <1>0, <1>15, Zenon DEF LogWrite, PhaseTypes, Phases
  <2>4. RoundTypes'
    BY <1>15, <1>4, Zenon DEF LogWrite
  <2>5. BufferTypes'
    BY <1>15, <1>5, Zenon DEF LogWrite
  <2>6. FileTypes'
    <3>1. file' \in Seq(Cpus \X Nat)
      BY <1>15, WriteFacts, Zenon
    <3> QED BY <3>1, <1>0, <1>15, Zenon DEF LogWrite, FileTypes
  <2> QED BY <2>1, <2>2, <2>3, <2>4, <2>5, <2>6, Zenon DEF ProfileTypes
<1>16. ASSUME NEW i \in Workers, LogRelease(i) PROVE ProfileTypes'
  <2>1. CallTypes'
    BY <1>16, <1>1, Zenon DEF LogRelease
  <2>2. ListTypes'
    BY <1>16, <1>2, Zenon DEF LogRelease
  <2>3. PhaseTypes'
    BY <1>0, <1>16, Zenon DEF LogRelease, PhaseTypes, Phases
  <2>4. RoundTypes'
    BY <1>0, <1>16, Zenon DEF LogRelease, RoundTypes
  <2>5. BufferTypes'
    BY <1>0, <1>16, Zenon DEF LogRelease, BufferTypes, RoundTypes
  <2>6. FileTypes'
    BY <1>16, <1>6, Zenon DEF LogRelease
  <2> QED BY <2>1, <2>2, <2>3, <2>4, <2>5, <2>6, Zenon DEF ProfileTypes
<1>17. ASSUME NEW i \in Workers, LogEnd(i) PROVE ProfileTypes'
  <2>1. CallTypes'
    BY <1>0, <1>17 DEF LogEnd, Finish, CallTypes, PhaseTypes
  <2>2. ListTypes'
    BY <1>17, <1>2, Zenon DEF LogEnd, Finish, Release
  <2>3. PhaseTypes'
    BY <1>0, <1>17, Zenon DEF LogEnd, Finish, Release, PhaseTypes, Phases
  <2>4. RoundTypes'
    BY <1>17, <1>4, Zenon DEF LogEnd, Finish, Release
  <2>5. BufferTypes'
    BY <1>17, <1>5, Zenon DEF LogEnd, Finish, Release
  <2>6. FileTypes'
    BY <1>17, <1>6, Zenon DEF LogEnd, Finish, Release
  <2> QED BY <2>1, <2>2, <2>3, <2>4, <2>5, <2>6, Zenon DEF ProfileTypes
<1>18. ASSUME NEW i \in Workers, NEW c \in Cpus, PollerFunc(i, c) PROVE ProfileTypes'
  <2>1. CallTypes'
    BY <1>18, <1>1, Zenon DEF PollerFunc
  <2>2. ListTypes'
    BY <1>18, <1>2, Zenon DEF PollerFunc
  <2>3. PhaseTypes'
    BY <1>18, <1>3, Zenon DEF PollerFunc
  <2>4. RoundTypes'
    BY <1>0, <1>18, Zenon DEF PollerFunc, RoundTypes
  <2>5. BufferTypes'
    <3>1. Append(entries[c], stamp[i]) \in Seq(Nat)
      BY <1>0 DEF BufferTypes, RoundTypes
    <3> QED BY <3>1, <1>0, <1>18, Zenon DEF PollerFunc, BufferTypes
  <2>6. FileTypes'
    BY <1>18, <1>6, Zenon DEF PollerFunc
  <2> QED BY <2>1, <2>2, <2>3, <2>4, <2>5, <2>6, Zenon DEF ProfileTypes
<1>19. ASSUME UNCHANGED profileVars PROVE ProfileTypes'
  BY <1>19, <1>1, <1>2, <1>3, <1>4, <1>5, <1>6, Zenon DEF profileVars, ProfileTypes
<1> QED BY <1>7, <1>8, <1>9, <1>10, <1>11, <1>12, <1>13, <1>14, <1>15, <1>16, <1>17, <1>18, <1>19,
          StepCases, Zenon

(* A step of a worker or handler that leaves the list alone: the items in  *)
(* work stay so, or one is done.                                           *)
LEMMA QueueFrame ==
  ASSUME QueueInv, UNCHANGED <<callVars, queueVars, item, wfunc>>,
         \A j \in Workers : wpc'[j] # "idle" => wpc[j] # "idle"
  PROVE  QueueInv'
<1> USE DEF callVars, queueVars
<1>1. \A j \in Workers : \A w : Runs(j, w)' => Runs(j, w)
  BY Zenon DEF Runs
<1>2. \A w : (OnList(w)' <=> OnList(w)) /\ (Running(w)' => Running(w))
  BY Zenon DEF OnList, Running
<1>3. ASSUME NEW c \in Callers PROVE ItemInv(c)'
  <2>1. ItemInv(c) /\ ItemOf(c)' = ItemOf(c)
    BY Zenon DEF QueueInv, ItemOf
  <2> QED BY <2>1, <1>1, <1>2, Zenon DEF ItemInv
<1>4. \A i, j \in Workers : \A w \in Items : Runs(i, w)' /\ Runs(j, w)' => i = j
  BY <1>1, Zenon DEF QueueInv
<1>5. /\ \A j, k \in DOMAIN worklist' : worklist'[j] = worklist'[k] => j = k
      /\ \A i \in Workers : wpc'[i] # "idle" => item'[i] \in Items
  BY Zenon DEF QueueInv
<1>6. Items' = Items
  BY Zenon DEF Items
<1> QED BY <1>3, <1>4, <1>5, <1>6, Zenon DEF QueueInv

(* queue_work puts an item on the list that was not on it.                 *)
LEMMA OnListAppend ==
  ASSUME NEW w \in Items, worklist \in Seq(Items), worklist' = Append(worklist, w), ~OnList(w),
         \A j, k \in DOMAIN worklist : worklist[j] = worklist[k] => j = k
  PROVE  /\ \A v : OnList(v)' <=> OnList(v) \/ v = w
         /\ \A j, k \in DOMAIN worklist' : worklist'[j] = worklist'[k] => j = k
<1>1. \A v : (\E k \in DOMAIN Append(worklist, w) : Append(worklist, w)[k] = v)
           <=> (\E k \in DOMAIN worklist : worklist[k] = v) \/ v = w
  BY AppendFacts
<1>2. \A j, k \in DOMAIN worklist' : worklist'[j] = worklist'[k] => j = k
  BY AppendFacts DEF OnList
<1> QED BY <1>1, <1>2, Zenon DEF OnList

(* Whatever callers and workers do, an item is on the list at most once,   *)
(* runs on one worker at a time, and with the function its caller asked    *)
(* for.                                                                    *)
LEMMA QueueStep ==
  ASSUME ProfileAssumption, OwnItems, ProfileTypes, QueueInv, LockInv, [ProfileNext]_profileVars
  PROVE  QueueInv'
<1> USE DEF callVars, queueVars, workVars, dataVars
<1>0. /\ Items' = Items /\ \A c \in Callers : ItemOf(c) \in Items
      /\ CallTypes /\ ListTypes /\ PhaseTypes
  BY Zenon DEF ItemOf, Items, ProfileTypes
<1>1. ASSUME NEW c \in Callers, NEW op \in Ops, CallInit(c, op) PROVE QueueInv'
  <2>1. /\ UNCHANGED <<worklist, wpc, item, wfunc>> /\ cpc[c] = "idle"
        /\ cpc'[c] = "queue" /\ \A d \in Callers : d # c => cpc'[d] = cpc[d] /\ cop'[d] = cop[d]
        /\ \A v \in Items : v # ItemOf(c) => func'[v] = func[v] /\ pending'[v] = pending[v]
        /\ pending'[ItemOf(c)] = FALSE /\ func'[ItemOf(c)] = cop'[c]
    BY <1>0, <1>1, Zenon DEF CallInit, CallTypes, ListTypes
  <2>2. \A w : (OnList(w)' <=> OnList(w)) /\ (Running(w)' <=> Running(w))
    BY <2>1, Zenon DEF OnList, Running
  <2>3. \A j \in Workers : \A w : Runs(j, w)' <=> Runs(j, w)
    BY <2>1, Zenon DEF Runs
  <2>4. ~OnList(ItemOf(c)) /\ ~Running(ItemOf(c))
    BY <2>1, Zenon DEF QueueInv, ItemInv
  <2>5. \A j \in Workers : ~Runs(j, ItemOf(c))
    BY <2>4, Zenon DEF Runs, Running
  <2>6. ASSUME NEW d \in Callers PROVE ItemInv(d)'
    <3>1. CASE d = c
      BY <3>1, <2>1, <2>2, <2>3, <2>4, <2>5, Zenon DEF ItemInv, ItemOf
    <3>2. CASE d # c
      <4>1. ItemOf(d) # ItemOf(c) /\ ItemInv(d) /\ ItemOf(d)' = ItemOf(d)
        BY <3>2, Zenon DEF OwnItems, QueueInv, ItemOf
      <4> QED BY <4>1, <3>2, <1>0, <2>1, <2>2, <2>3, Zenon DEF ItemInv
    <3> QED BY <3>1, <3>2, Zenon
  <2> QED BY <2>1, <2>3, <2>6, <1>0, Zenon DEF QueueInv
<1>2. ASSUME NEW c \in Callers, CallQueue(c) PROVE QueueInv'
  <2> DEFINE w == ItemOf(c)
  <2>1. ~pending[w] /\ ~OnList(w) /\ ~Running(w)
    BY <1>2, Zenon DEF CallQueue, QueueInv, ItemInv
  <2>2. /\ UNCHANGED <<cop, func, wpc, item, wfunc>> /\ worklist' = Append(worklist, w)
        /\ cpc'[c] = "flush" /\ \A d \in Callers : d # c => cpc'[d] = cpc[d]
        /\ \A v \in Items : v # w => pending'[v] = pending[v]
        /\ pending'[w] = TRUE
    BY <1>0, <1>2, <2>1, Zenon DEF CallQueue, CallTypes, ListTypes
  <2>3. /\ \A v : OnList(v)' <=> OnList(v) \/ v = w
        /\ \A j, k \in DOMAIN worklist' : worklist'[j] = worklist'[k] => j = k
    BY <1>0, <2>1, <2>2, OnListAppend, Zenon DEF ListTypes, QueueInv
  <2>4. \A j \in Workers : \A v : Runs(j, v)' <=> Runs(j, v)
    BY <2>2, Zenon DEF Runs
  <2>5. \A v : Running(v)' <=> Running(v)
    BY <2>2, Zenon DEF Running
  <2>6. ASSUME NEW d \in Callers PROVE ItemInv(d)'
    <3>1. CASE d = c
      <4>1. ItemInv(c) /\ cpc[c] = "queue"
        BY <1>2, Zenon DEF CallQueue, QueueInv
      <4> QED BY <4>1, <3>1, <2>1, <2>2, <2>3, <2>4, <2>5, Zenon DEF ItemInv, ItemOf
    <3>2. CASE d # c
      <4>1. ItemOf(d) # w /\ ItemInv(d) /\ ItemOf(d)' = ItemOf(d) /\ ItemOf(d) \in Items
        BY <3>2, <1>0, Zenon DEF OwnItems, QueueInv, ItemOf
      <4> QED BY <4>1, <3>2, <2>2, <2>3, <2>4, <2>5, Zenon DEF ItemInv
    <3> QED BY <3>1, <3>2, Zenon
  <2> QED BY <2>2, <2>3, <2>4, <2>6, <1>0, Zenon DEF QueueInv
<1>3. ASSUME NEW c \in Callers, CallReturn(c) PROVE QueueInv'
  <2>1. /\ UNCHANGED <<cop, queueVars, wpc, item, wfunc>>
        /\ cpc'[c] = "idle" /\ \A d \in Callers : d # c => cpc'[d] = cpc[d]
        /\ ~OnList(ItemOf(c)) /\ ~Running(ItemOf(c))
    BY <1>0, <1>3, Zenon DEF CallReturn, CallTypes, QueueInv, ItemInv
  <2>2. \A w : (OnList(w)' <=> OnList(w)) /\ (Running(w)' <=> Running(w))
    BY <2>1, Zenon DEF OnList, Running
  <2>3. \A j \in Workers : \A w : Runs(j, w)' <=> Runs(j, w)
    BY <2>1, Zenon DEF Runs
  <2>4. ASSUME NEW d \in Callers PROVE ItemInv(d)'
    <3>1. ItemInv(d) /\ ItemOf(d)' = ItemOf(d)
      BY Zenon DEF QueueInv, ItemOf
    <3> QED BY <3>1, <2>1, <2>2, <2>3, Zenon DEF ItemInv
  <2> QED BY <2>1, <2>3, <2>4, <1>0, Zenon DEF QueueInv
<1>4. ASSUME NEW i \in Workers, Take(i) PROVE QueueInv'
  <2> DEFINE w == Head(worklist)
  <2>1. /\ w \in Items /\ OnList(w)
        /\ \A v : OnList(v)' <=> OnList(v) /\ v # w
        /\ \A j, k \in DOMAIN worklist' : worklist'[j] = worklist'[k] => j = k
    <3>1. worklist' = Tail(worklist) /\ worklist # << >>
      BY <1>0, <1>4, Zenon DEF Take, ListTypes
    <3>2. /\ w \in Items /\ \E k \in DOMAIN worklist : worklist[k] = w
          /\ \A j, k \in DOMAIN Tail(worklist) : Tail(worklist)[j] = Tail(worklist)[k] => j = k
          /\ \A v : (\E k \in DOMAIN Tail(worklist) : Tail(worklist)[k] = v)
                   <=> (\E k \in DOMAIN worklist : worklist[k] = v) /\ v # w
      BY <3>1, <1>0, TailFacts, Zenon DEF ListTypes, QueueInv
    <3> QED BY <3>1, <3>2, Zenon DEF OnList
  <2>2. /\ wpc[i] = "idle" /\ wpc'[i] # "idle" /\ item'[i] = w /\ wfunc'[i] = func[w]
        /\ \A j \in Workers : j # i => /\ wpc'[j] = wpc[j] /\ item'[j] = item[j]
                                      /\ wfunc'[j] = wfunc[j]
        /\ pending'[w] = FALSE /\ \A v \in Items : v # w => pending'[v] = pending[v]
        /\ UNCHANGED <<cpc, cop, func>>
    BY <1>0, <1>4, <2>1, Zenon DEF Take, PhaseTypes, ListTypes
  <2> HIDE DEF w
  <2>3. /\ \A v : Runs(i, v)' <=> v = w
        /\ \A j \in Workers : j # i => \A v : Runs(j, v)' <=> Runs(j, v)
    BY <2>2, Zenon DEF Runs
  <2>4. \A v : Running(v)' <=> Running(v) \/ v = w
    BY <2>2, Zenon DEF Running
  <2>5. PICK c \in Callers : w = ItemOf(c)
    BY <2>1, Zenon DEF Items, ItemOf
  <2>6. ItemInv(c) /\ ~Running(w) /\ cpc[c] = "flush" /\ func[w] = cop[c]
    BY <2>1, <2>5, Zenon DEF QueueInv, ItemInv
  <2>7. \A j \in Workers : ~Runs(j, w)
    BY <2>6, Zenon DEF Runs, Running
  <2>8. ASSUME NEW d \in Callers PROVE ItemInv(d)'
    <3>1. CASE d = c
      BY <3>1, <2>1, <2>2, <2>3, <2>4, <2>5, <2>6, <2>7, Zenon DEF ItemInv, ItemOf
    <3>2. CASE d # c
      <4>1. ItemOf(d) # w /\ ItemInv(d) /\ ItemOf(d)' = ItemOf(d) /\ ItemOf(d) \in Items
        BY <3>2, <2>5, <1>0, Zenon DEF OwnItems, QueueInv, ItemOf
      <4> QED BY <4>1, <2>1, <2>2, <2>3, <2>4 DEF ItemInv
    <3> QED BY <3>1, <3>2, Zenon
  <2>9. \A j, k \in Workers : \A v \in Items : Runs(j, v)' /\ Runs(k, v)' => j = k
    BY <2>3, <2>7 DEF QueueInv
  <2>10. \A j \in Workers : wpc'[j] # "idle" => item'[j] \in Items
    BY <2>1, <2>2, Zenon DEF QueueInv
  <2> QED BY <2>1, <2>8, <2>9, <2>10, <1>0, Zenon DEF QueueInv
<1>5. ASSUME NEW i \in Workers, NEW p, wpc' = [wpc EXCEPT ![i] = p], wpc[i] # "idle",
             UNCHANGED <<callVars, queueVars, item, wfunc>>
      PROVE  QueueInv'
  BY <1>0, <1>5, QueueFrame, Zenon DEF PhaseTypes
<1>6. ASSUME UNCHANGED <<callVars, queueVars, wpc, item, wfunc>> PROVE QueueInv'
  BY <1>6, QueueFrame, Zenon
<1>7. ASSUME NEW i \in Workers, PollBegin(i) \/ PollEnd(i) \/ LogBegin(i) PROVE QueueInv'
  BY <1>7, <1>5, Zenon DEF PollBegin, PollEnd, Finish, LogBegin
<1>8. ASSUME NEW i \in Workers, LogSnapshot(i) PROVE QueueInv'
  BY <1>8, <1>5, <1>6, Zenon DEF LogSnapshot
<1>9. ASSUME NEW i \in Workers, LogWrite(i) \/ LogRelease(i) \/ LogEnd(i) PROVE QueueInv'
  BY <1>9, <1>5, Zenon DEF LogWrite, LogRelease, LogEnd, Finish
<1>10. ASSUME NEW i \in Workers, NEW c \in Cpus, PollerFunc(i, c) PROVE QueueInv'
  BY <1>10, <1>6, Zenon DEF PollerFunc
<1>11. ASSUME UNCHANGED profileVars PROVE QueueInv'
  BY <1>11, <1>6, Zenon DEF profileVars
<1> QED BY <1>1, <1>2, <1>3, <1>4, <1>7, <1>8, <1>9, <1>10, <1>11, StepCases, Zenon

(* Which callers have been served: CallReturn takes one away, the end of a *)
(* worker's item adds one, and nothing else changes them.                  *)
LEMMA ServedInit ==
  ASSUME ProfileAssumption, OwnItems, ProfileTypes, QueueInv,
         NEW c \in Callers, NEW op \in Ops, CallInit(c, op)
  PROVE  \A d \in Callers : Served(d)' <=> Served(d)
<1>1. /\ UNCHANGED <<worklist, wpc, item>> /\ cpc[c] = "idle" /\ cpc'[c] = "queue"
      /\ \A d \in Callers : d # c => cpc'[d] = cpc[d]
  BY Zenon DEF CallInit, ProfileTypes, CallTypes, workVars
<1>2. \A w : (OnList(w)' <=> OnList(w)) /\ (Running(w)' <=> Running(w))
  BY <1>1, Zenon DEF OnList, Running
<1>3. \A d \in Callers : ItemOf(d)' = ItemOf(d)
  BY Zenon DEF ItemOf
<1> QED BY <1>1, <1>2, <1>3, Zenon DEF Served

(* queue_work serves nobody.                                               *)
LEMMA ServedQueue ==
  ASSUME ProfileAssumption, OwnItems, ProfileTypes, QueueInv, NEW c \in Callers, CallQueue(c)
  PROVE  \A d \in Callers : Served(d)' <=> Served(d)
<1> DEFINE w == ItemOf(c)
<1>1. /\ UNCHANGED <<wpc, item>> /\ cpc[c] = "queue"
      /\ \A d \in Callers : d # c => cpc'[d] = cpc[d]
  BY Zenon DEF CallQueue, ProfileTypes, CallTypes, workVars
<1>2. ~pending[w] /\ ~OnList(w)
  BY <1>1, Zenon DEF QueueInv, ItemInv
<1>3. worklist' = Append(worklist, w) /\ w \in Items
  BY <1>2, Zenon DEF CallQueue, Items, ItemOf
<1>4. \A v : OnList(v)' <=> OnList(v) \/ v = w
  BY <1>2, <1>3, OnListAppend, Zenon DEF ProfileTypes, ListTypes, QueueInv
<1>5. \A v : Running(v)' <=> Running(v)
  BY <1>1, Zenon DEF Running
<1>6. ASSUME NEW d \in Callers PROVE Served(d)' <=> Served(d)
  <2>1. ItemOf(d)' = ItemOf(d) /\ (d # c => ItemOf(d) # w)
    BY Zenon DEF ItemOf, OwnItems
  <2> QED BY <2>1, <1>1, <1>4, <1>5, Zenon DEF Served
<1> QED BY <1>6, Zenon

(* A call that returns is served no longer, and no other changes.          *)
LEMMA ServedReturn ==
  ASSUME ProfileAssumption, OwnItems, ProfileTypes, QueueInv, NEW c \in Callers, CallReturn(c)
  PROVE  \A d \in Callers : Served(d)' <=> Served(d) /\ d # c
<1>1. /\ UNCHANGED <<worklist, wpc, item>> /\ cpc'[c] = "idle"
      /\ \A d \in Callers : d # c => cpc'[d] = cpc[d]
  BY Zenon DEF CallReturn, ProfileTypes, CallTypes, workVars, queueVars
<1>2. \A w : (OnList(w)' <=> OnList(w)) /\ (Running(w)' <=> Running(w))
  BY <1>1, Zenon DEF OnList, Running
<1>3. \A d \in Callers : ItemOf(d)' = ItemOf(d)
  BY Zenon DEF ItemOf
<1> QED BY <1>1, <1>2, <1>3, Zenon DEF Served

(* CallReturn(c) finds its item neither on the list nor on a worker.       *)
LEMMA ReturnServed ==
  ASSUME QueueInv, NEW c \in Callers, CallReturn(c)
  PROVE  Served(c)
  BY Zenon DEF QueueInv, ItemInv, CallReturn, Served

(* A worker takes the first item off the list.                             *)
LEMMA TakeFacts ==
  ASSUME ProfileTypes, QueueInv, NEW i \in Workers, Take(i)
  PROVE  LET w == Head(worklist) IN
         /\ w \in Items /\ OnList(w) /\ worklist' = Tail(worklist)
         /\ \A v : OnList(v)' <=> OnList(v) /\ v # w
         /\ \A j, k \in DOMAIN worklist' : worklist'[j] = worklist'[k] => j = k
<1>1. worklist' = Tail(worklist) /\ worklist # << >> /\ worklist \in Seq(Items)
  BY Zenon DEF Take, ProfileTypes, ListTypes
<1> DEFINE w == Head(worklist)
<1>2. /\ w \in Items /\ \E k \in DOMAIN worklist : worklist[k] = w
      /\ \A j, k \in DOMAIN Tail(worklist) : Tail(worklist)[j] = Tail(worklist)[k] => j = k
      /\ \A v : (\E k \in DOMAIN Tail(worklist) : Tail(worklist)[k] = v)
                <=> (\E k \in DOMAIN worklist : worklist[k] = v) /\ v # w
  BY <1>1, TailFacts, Zenon DEF QueueInv
<1> QED BY <1>1, <1>2, Zenon DEF OnList

(* Taking an item serves nobody yet.                                       *)
LEMMA ServedTake ==
  ASSUME ProfileAssumption, OwnItems, ProfileTypes, QueueInv, NEW i \in Workers, Take(i)
  PROVE  \A d \in Callers : Served(d)' <=> Served(d)
<1> DEFINE w == Head(worklist)
<1>1. OnList(w) /\ \A v : OnList(v)' <=> OnList(v) /\ v # w
  BY TakeFacts, Zenon
<1>2. /\ wpc[i] = "idle" /\ wpc'[i] # "idle" /\ item'[i] = w /\ cpc' = cpc
      /\ \A j \in Workers : j # i => wpc'[j] = wpc[j] /\ item'[j] = item[j]
  BY Zenon DEF Take, ProfileTypes, PhaseTypes, callVars
<1> HIDE DEF w
<1>3. \A v : Running(v)' <=> Running(v) \/ v = w
  BY <1>2, Zenon DEF Running
<1>4. \A d \in Callers : ItemOf(d)' = ItemOf(d)
  BY Zenon DEF ItemOf
<1> QED BY <1>1, <1>2, <1>3, <1>4, Zenon DEF Served

(* A worker within its function serves nobody.                             *)
LEMMA ServedSame ==
  ASSUME UNCHANGED <<callVars, queueVars, item>>,
         \A j \in Workers : wpc'[j] = "idle" <=> wpc[j] = "idle"
  PROVE  \A d \in Callers : Served(d)' <=> Served(d)
<1>1. UNCHANGED <<cpc, worklist, item>>
  BY Zenon DEF callVars, queueVars
<1>2. \A w : (OnList(w)' <=> OnList(w)) /\ (Running(w)' <=> Running(w))
  BY <1>1, Zenon DEF OnList, Running
<1>3. \A d \in Callers : ItemOf(d)' = ItemOf(d)
  BY Zenon DEF ItemOf
<1> QED BY <1>1, <1>2, <1>3, Zenon DEF Served

(* A worker that is through with its item serves the caller who asked.     *)
LEMMA ServedFinish ==
  ASSUME ProfileAssumption, OwnItems, ProfileTypes, QueueInv, NEW i \in Workers,
         wpc[i] # "idle", wpc' = [wpc EXCEPT ![i] = "idle"],
         UNCHANGED <<callVars, queueVars, item>>
  PROVE  \E c \in Callers :
           /\ ItemOf(c) = item[i] /\ cpc[c] = "flush" /\ cop[c] = wfunc[i] /\ ~Served(c)
           /\ \A d \in Callers : Served(d)' <=> Served(d) \/ d = c
<1>1. UNCHANGED <<cpc, worklist, item>>
  BY Zenon DEF callVars, queueVars
<1>2. item[i] \in Items
  BY Zenon DEF QueueInv
<1>3. PICK c \in Callers : ItemOf(c) = item[i]
  BY <1>2, Zenon DEF Items, ItemOf
<1>4. Running(ItemOf(c)) /\ Runs(i, ItemOf(c))
  BY <1>3, Zenon DEF Running, Runs
<1>5. cpc[c] = "flush" /\ cop[c] = wfunc[i] /\ ~OnList(ItemOf(c)) /\ ~Served(c)
  BY <1>4, Zenon DEF QueueInv, ItemInv, Served
<1>6. wpc'[i] = "idle" /\ \A j \in Workers : j # i => wpc'[j] = wpc[j]
  BY Zenon DEF ProfileTypes, PhaseTypes
<1>7. \A j \in Workers : Runs(j, item[i]) => j = i
  BY <1>2, <1>3, <1>4, Zenon DEF QueueInv
<1>8. \A v : Running(v)' <=> Running(v) /\ v # item[i]
  BY <1>1, <1>6, <1>7, Zenon DEF Running, Runs
<1>9. \A v : OnList(v)' <=> OnList(v)
  BY <1>1, Zenon DEF OnList
<1>10. \A d \in Callers : ItemOf(d)' = ItemOf(d) /\ (ItemOf(d) = item[i] => d = c)
  BY <1>3, Zenon DEF ItemOf, OwnItems
<1>11. \A d \in Callers : Served(d)' <=> Served(d) \/ d = c
  BY <1>1, <1>3, <1>5, <1>8, <1>9, <1>10, Zenon DEF Served
<1> QED BY <1>3, <1>5, <1>11, Zenon

(* A step that serves nobody and counts nothing keeps the counts.          *)
LEMMA CountsSame ==
  ASSUME CallCounts, UNCHANGED <<begun, finished, returned, cpc, cop>>,
         \A d \in Callers : Served(d)' <=> Served(d)
  PROVE  CallCounts'
<1>1. \A o \in Ops : CallingFor(o)' = CallingFor(o) /\ ServedFor(o)' = ServedFor(o)
  BY Zenon DEF CallingFor, ServedFor
<1> QED BY <1>1, Zenon DEF CallCounts, CountOf

(* A set with one more element.                                            *)
LEMMA AddOne ==
  ASSUME NEW S, IsFiniteSet(S), NEW T, NEW x, x \notin S, T = S \cup {x}
  PROVE  Cardinality(T) = Cardinality(S) + 1 /\ Cardinality(S) \in Nat
  BY FS_AddElement, FS_CardinalityType, Zenon

(* A set with one element less.                                            *)
LEMMA DropOne ==
  ASSUME NEW S, IsFiniteSet(S), NEW T, NEW x, x \in S, T = S \ {x}
  PROVE  Cardinality(T) = Cardinality(S) - 1 /\ Cardinality(S) \in Nat
  BY FS_RemoveElement, FS_CardinalityType, Zenon

(* Every step keeps the counts: an operation is finished when its caller   *)
(* becomes served, and returned when it is no longer.                      *)
LEMMA CountsStep ==
  ASSUME ProfileAssumption, OwnItems, ProfileTypes, QueueInv, LockInv, CallCounts,
         [ProfileNext]_profileVars
  PROVE  CallCounts'
<1>0. /\ \A o : IsFiniteSet(CallingFor(o)) /\ IsFiniteSet(ServedFor(o))
      /\ CallTypes /\ PhaseTypes
  <2>1. \A o : CallingFor(o) \subseteq Callers /\ ServedFor(o) \subseteq Callers
    BY Zenon DEF CallingFor, ServedFor
  <2> QED BY <2>1, FS_Subset, Zenon DEF ProfileAssumption, ProfileTypes
<1>1. ASSUME NEW c \in Callers, NEW op \in Ops, CallInit(c, op) PROVE CallCounts'
  <2>1. /\ cpc[c] = "idle" /\ cpc'[c] = "queue" /\ cop'[c] = op
        /\ \A d \in Callers : d # c => cpc'[d] = cpc[d] /\ cop'[d] = cop[d]
        /\ UNCHANGED <<returned, finished>> /\ begun'[op] = begun[op] + 1
        /\ \A o \in Ops : o # op => begun'[o] = begun[o]
    BY <1>0, <1>1, Zenon DEF CallInit, CallTypes
  <2>2. \A d \in Callers : Served(d)' <=> Served(d)
    BY <1>1, ServedInit, Zenon
  <2>3. /\ c \notin CallingFor(op) /\ CallingFor(op)' = CallingFor(op) \cup {c}
        /\ \A o \in Ops : o # op => CallingFor(o)' = CallingFor(o)
    BY <2>1, Zenon DEF CallingFor
  <2>4. ~Served(c)
    BY <2>1, Zenon DEF Served
  <2>5. \A o \in Ops : ServedFor(o)' = ServedFor(o)
    BY <2>1, <2>2, <2>4, Zenon DEF ServedFor
  <2>6. /\ Cardinality(CallingFor(op)') = Cardinality(CallingFor(op)) + 1
        /\ Cardinality(CallingFor(op)) \in Nat
    BY <1>0, <2>3, AddOne, Zenon
  <2>9. ASSUME NEW o \in Ops PROVE CountOf(o)'
    <3>1. CountOf(o) /\ begun[o] \in Nat /\ finished[o] \in Nat /\ returned[o] \in Nat
      BY <1>0, Zenon DEF CallCounts, CallTypes
    <3>2. CASE o = op
      BY <3>1, <3>2, <2>1, <2>3, <2>5, <2>6 DEF CountOf
    <3>3. CASE o # op
      BY <3>1, <3>3, <2>1, <2>3, <2>5, <2>6, Zenon DEF CountOf
    <3> QED BY <3>2, <3>3, Zenon
  <2> QED BY <2>9, Zenon DEF CallCounts
<1>2. ASSUME NEW c \in Callers, CallQueue(c) PROVE CallCounts'
  <2>1. /\ cpc[c] = "queue" /\ cpc'[c] = "flush" /\ \A d \in Callers : d # c => cpc'[d] = cpc[d]
        /\ UNCHANGED <<cop, begun, returned, finished>>
    BY <1>0, <1>2, Zenon DEF CallQueue, CallTypes
  <2>2. \A d \in Callers : Served(d)' <=> Served(d)
    BY <1>2, ServedQueue, Zenon
  <2>3. \A o \in Ops : CallingFor(o)' = CallingFor(o) /\ ServedFor(o)' = ServedFor(o)
    BY <2>1, <2>2, Zenon DEF CallingFor, ServedFor
  <2> QED BY <2>1, <2>3, Zenon DEF CallCounts, CountOf
<1>3. ASSUME NEW c \in Callers, CallReturn(c) PROVE CallCounts'
  <2>0. PICK op : op = cop[c]
    OBVIOUS
  <2>1. /\ cpc[c] = "flush" /\ cpc'[c] = "idle" /\ \A d \in Callers : d # c => cpc'[d] = cpc[d]
        /\ UNCHANGED <<cop, begun, finished>> /\ op \in Ops /\ returned'[op] = returned[op] + 1
        /\ \A o \in Ops : o # op => returned'[o] = returned[o]
    BY <1>0, <1>3, <2>0, Zenon DEF CallReturn, CallTypes
  <2>2. Served(c) /\ \A d \in Callers : Served(d)' <=> Served(d) /\ d # c
    BY <1>3, ServedReturn, ReturnServed, Zenon
  <2>3. /\ c \in CallingFor(op) /\ CallingFor(op)' = CallingFor(op) \ {c}
        /\ \A o \in Ops : o # op => CallingFor(o)' = CallingFor(o)
    BY <2>0, <2>1, Zenon DEF CallingFor
  <2>4. /\ c \in ServedFor(op) /\ ServedFor(op)' = ServedFor(op) \ {c}
        /\ \A o \in Ops : o # op => ServedFor(o)' = ServedFor(o)
    BY <2>0, <2>1, <2>2, Zenon DEF ServedFor
  <2>5. /\ Cardinality(CallingFor(op)') = Cardinality(CallingFor(op)) - 1
        /\ Cardinality(CallingFor(op)) \in Nat
    BY <1>0, <2>3, DropOne, Zenon
  <2>6. /\ Cardinality(ServedFor(op)') = Cardinality(ServedFor(op)) - 1
        /\ Cardinality(ServedFor(op)) \in Nat
    BY <1>0, <2>4, DropOne, Zenon
  <2>9. ASSUME NEW o \in Ops PROVE CountOf(o)'
    <3>1. CountOf(o) /\ begun[o] \in Nat /\ finished[o] \in Nat /\ returned[o] \in Nat
      BY <1>0, Zenon DEF CallCounts, CallTypes
    <3>2. CASE o = op
      <4>1. /\ begun'[o] = begun[o] /\ returned'[o] = returned[o] + 1 /\ finished'[o] = finished[o]
            /\ Cardinality(CallingFor(o)') = Cardinality(CallingFor(o)) - 1
            /\ Cardinality(ServedFor(o)') = Cardinality(ServedFor(o)) - 1
            /\ Cardinality(CallingFor(o)) \in Nat /\ Cardinality(ServedFor(o)) \in Nat
        BY <3>2, <2>1, <2>5, <2>6, Zenon
      <4> QED BY <3>1, <4>1 DEF CountOf
    <3>3. CASE o # op
      BY <3>1, <3>3, <2>1, <2>3, <2>4, <2>5, <2>6, Zenon DEF CountOf
    <3> QED BY <3>2, <3>3, Zenon
  <2> QED BY <2>9, Zenon DEF CallCounts
<1>4. ASSUME NEW i \in Workers, Take(i) PROVE CallCounts'
  <2>1. UNCHANGED <<begun, finished, returned, cpc, cop>>
    BY <1>4, Zenon DEF Take, callVars
  <2> QED BY <2>1, <1>4, ServedTake, CountsSame, Zenon
<1>5. ASSUME NEW i \in Workers, NEW p, p # "idle", wpc[i] # "idle",
             wpc' = [wpc EXCEPT ![i] = p], UNCHANGED <<callVars, queueVars, item, finished>>
      PROVE  CallCounts'
  <2>1. \A j \in Workers : wpc'[j] = "idle" <=> wpc[j] = "idle"
    BY <1>0, <1>5, Zenon DEF PhaseTypes
  <2>2. UNCHANGED <<callVars, queueVars, item>> /\ UNCHANGED <<begun, finished, returned, cpc, cop>>
    BY <1>5, Zenon DEF callVars
  <2> QED BY <2>1, <2>2, ServedSame, CountsSame, Zenon
<1>6. ASSUME UNCHANGED <<callVars, queueVars, item, finished, wpc>> PROVE CallCounts'
  <2>1. \A j \in Workers : wpc'[j] = "idle" <=> wpc[j] = "idle"
    BY <1>6, Zenon
  <2>2. UNCHANGED <<callVars, queueVars, item>> /\ UNCHANGED <<begun, finished, returned, cpc, cop>>
    BY <1>6, Zenon DEF callVars
  <2> QED BY <2>1, <2>2, ServedSame, CountsSame, Zenon
<1>7. ASSUME NEW i \in Workers, wpc[i] # "idle", Finish(i), UNCHANGED <<callVars, queueVars, item>>
      PROVE  CallCounts'
  <2>1. PICK c \in Callers :
          /\ ItemOf(c) = item[i] /\ cpc[c] = "flush" /\ cop[c] = wfunc[i] /\ ~Served(c)
          /\ \A d \in Callers : Served(d)' <=> Served(d) \/ d = c
    BY <1>7, ServedFinish, Zenon DEF Finish
  <2>0. PICK op : op = wfunc[i]
    OBVIOUS
  <2>2. /\ UNCHANGED <<begun, returned, cpc, cop>> /\ op \in Ops
        /\ finished'[op] = finished[op] + 1
        /\ \A o \in Ops : o # op => finished'[o] = finished[o]
    BY <1>0, <1>7, <2>0, Zenon DEF Finish, callVars, CallTypes, PhaseTypes
  <2>3. \A o \in Ops : CallingFor(o)' = CallingFor(o)
    BY <2>2, Zenon DEF CallingFor
  <2>4. /\ c \notin ServedFor(op) /\ ServedFor(op)' = ServedFor(op) \cup {c}
        /\ \A o \in Ops : o # op => ServedFor(o)' = ServedFor(o)
    <3>1. c \notin ServedFor(op)
      BY <2>0, <2>1, Zenon DEF ServedFor
    <3>2. \A o \in Ops : \A d \in Callers :
            d \in ServedFor(o)' <=> d \in ServedFor(o) \/ (o = op /\ d = c)
      BY <2>0, <2>1, <2>2, Zenon DEF ServedFor
    <3>3. \A o \in Ops : ServedFor(o) \subseteq Callers /\ ServedFor(o)' \subseteq Callers
      BY Zenon DEF ServedFor
    <3>4. ServedFor(op)' = ServedFor(op) \cup {c}
      BY <3>2, <3>3, <2>2, Zenon
    <3>5. ASSUME NEW o \in Ops, o # op PROVE ServedFor(o)' = ServedFor(o)
      BY <3>2, <3>3, <3>5, SMTT(30)
    <3> QED BY <3>1, <3>4, <3>5, Zenon
  <2>5. /\ Cardinality(ServedFor(op)') = Cardinality(ServedFor(op)) + 1
        /\ Cardinality(ServedFor(op)) \in Nat
    BY <1>0, <2>4, AddOne, Zenon
  <2>9. ASSUME NEW o \in Ops PROVE CountOf(o)'
    <3>1. CountOf(o) /\ begun[o] \in Nat /\ finished[o] \in Nat /\ returned[o] \in Nat
      BY <1>0, Zenon DEF CallCounts, CallTypes
    <3>2. CASE o = op
      <4>1. /\ begun'[o] = begun[o] /\ returned'[o] = returned[o] /\ finished'[o] = finished[o] + 1
            /\ Cardinality(CallingFor(o)') = Cardinality(CallingFor(o))
            /\ Cardinality(ServedFor(o)') = Cardinality(ServedFor(o)) + 1
            /\ Cardinality(ServedFor(o)) \in Nat
        BY <3>2, <2>2, <2>3, <2>5, Zenon
      <4> QED BY <3>1, <4>1 DEF CountOf
    <3>3. CASE o # op
      BY <3>1, <3>3, <2>2, <2>3, <2>4, <2>5, Zenon DEF CountOf
    <3> QED BY <3>2, <3>3, Zenon
  <2> QED BY <2>9, Zenon DEF CallCounts
<1>8. ASSUME NEW i \in Workers, PollBegin(i) \/ LogBegin(i) \/ LogWrite(i) \/ LogRelease(i)
      PROVE  CallCounts'
  BY <1>8, <1>5, Zenon DEF PollBegin, LogBegin, LogWrite, LogRelease
<1>9. ASSUME NEW i \in Workers, PollEnd(i) PROVE CallCounts'
  BY <1>9, <1>5, <1>7, Zenon DEF PollEnd
<1>10. ASSUME NEW i \in Workers, LogEnd(i) PROVE CallCounts'
  BY <1>10, <1>7, Zenon DEF LogEnd
<1>11. ASSUME NEW i \in Workers, LogSnapshot(i) PROVE CallCounts'
  BY <1>11, <1>5, <1>6, Zenon DEF LogSnapshot
<1>12. ASSUME NEW i \in Workers, NEW c \in Cpus, PollerFunc(i, c) PROVE CallCounts'
  BY <1>12, <1>6, Zenon DEF PollerFunc
<1>13. ASSUME UNCHANGED profileVars PROVE CallCounts'
  BY <1>13, <1>6, Zenon DEF profileVars, workVars
<1> QED BY <1>1, <1>2, <1>3, <1>4, <1>8, <1>9, <1>10, <1>11, <1>12, <1>13, StepCases, Zenon

-----------------------------------------------------------------------------
Local(j) == /\ wpc'[j] = wpc[j] /\ item'[j] = item[j] /\ wfunc'[j] = wfunc[j]
            /\ left'[j] = left[j] /\ stamp'[j] = stamp[j]
            /\ todo'[j] = todo[j] /\ upto'[j] = upto[j]

(* A step of worker i, or of a handler it waits for, leaves what the other *)
(* workers hold alone.                                                     *)
LEMMA OthersLocal ==
  ASSUME ProfileTypes, NEW i \in Workers,
         \/ Take(i) \/ PollBegin(i) \/ PollEnd(i) \/ LogBegin(i) \/ LogSnapshot(i)
         \/ LogWrite(i) \/ LogRelease(i) \/ LogEnd(i) \/ \E c \in Cpus : PollerFunc(i, c)
  PROVE  \A j \in Workers : j # i => Local(j)
<1> USE DEF Local, ProfileTypes, PhaseTypes, RoundTypes
<1>1. CASE Take(i)
  BY <1>1, Zenon DEF Take
<1>2. CASE PollBegin(i)
  BY <1>2, Zenon DEF PollBegin
<1>3. CASE PollEnd(i)
  BY <1>3, Zenon DEF PollEnd, Finish
<1>4. CASE LogBegin(i)
  BY <1>4, Zenon DEF LogBegin
<1>5. CASE LogSnapshot(i)
  BY <1>5, Zenon DEF LogSnapshot
<1>6. CASE LogWrite(i)
  BY <1>6, Zenon DEF LogWrite
<1>7. CASE LogRelease(i)
  BY <1>7, Zenon DEF LogRelease
<1>8. CASE LogEnd(i)
  BY <1>8, Zenon DEF LogEnd, Finish
<1>9. CASE \E c \in Cpus : PollerFunc(i, c)
  BY <1>9, Zenon DEF PollerFunc
<1> QED BY <1>1, <1>2, <1>3, <1>4, <1>5, <1>6, <1>7, <1>8, <1>9, Zenon

(* The CPU a log comes to next depends on its own set only.                *)
LEMMA NextLocal ==
  ASSUME NEW j, todo'[j] = todo[j]
  PROVE  \A c : NextCpu(j, c)' <=> NextCpu(j, c)
  BY Zenon DEF NextCpu

(* Worker j keeps its place when others leave the lock, the clock and the  *)
(* buffers alone.                                                          *)
LEMMA SectionKept ==
  ASSUME NEW j \in Workers, SectionInv(j), Local(j), UNCHANGED <<lock, clock, polled, entries>>
  PROVE  SectionInv(j)'
<1>1. \A c : NextCpu(j, c)' <=> NextCpu(j, c)
  BY NextLocal, Zenon DEF Local
<1> QED BY <1>1, Zenon DEF SectionInv, Local

(* Worker j keeps its place when others work, if it does not have the      *)
(* mutex.                                                                  *)
LEMMA SectionOutside ==
  ASSUME NEW j \in Workers, SectionInv(j), Local(j), lock # j, lock' # j
  PROVE  SectionInv(j)'
<1>1. wpc[j] \notin Sections
  BY Zenon DEF SectionInv
<1>2. wpc'[j] \notin Sections /\ wpc'[j] # "wait" /\ wpc'[j] \notin {"write", "release"} /\ left'[j] = {}
  BY <1>1, Zenon DEF Local, Sections, SectionInv
<1> QED BY <1>2, Zenon DEF SectionInv

(* Every step keeps the workers in polls and logs to the holder of the     *)
(* mutex.                                                                  *)
LEMMA LockStep ==
  ASSUME ProfileAssumption, OwnItems, ProfileTypes, QueueInv, LockInv, [ProfileNext]_profileVars
  PROVE  LockInv'
<1> USE DEF dataVars
<1>0. /\ PhaseTypes /\ RoundTypes /\ \A j \in Workers : SectionInv(j) /\ j # Nobody
      /\ Concurrent = TRUE
  BY Zenon DEF ProfileTypes, LockInv, OwnItems, ProfileAssumption, Nobody
<1>1. ASSUME UNCHANGED <<workVars, dataVars, lock, polled>> PROVE LockInv'
  <2>1. \A j \in Workers : Local(j)
    BY <1>1, Zenon DEF Local, workVars
  <2>2. UNCHANGED <<lock, clock, polled, entries>>
    BY <1>1, Zenon
  <2> QED BY <1>0, <2>1, <2>2, SectionKept, Zenon DEF LockInv
<1>2. ASSUME NEW i \in Workers, Take(i) PROVE LockInv'
  <2>1. \A j \in Workers : j # i => SectionInv(j)'
    <3>1. UNCHANGED <<lock, clock, polled, entries>>
      BY <1>2, Zenon DEF Take
    <3> QED BY <1>0, <1>2, <3>1, OthersLocal, SectionKept, Zenon
  <2>2. wpc'[i] \in {"poll", "log"} /\ wpc[i] = "idle" /\ left'[i] = left[i] /\ lock' = lock
    BY <1>0, <1>2, Zenon DEF Take, PhaseTypes
  <2>3. SectionInv(i)'
    BY <1>0, <2>2, Zenon DEF SectionInv, Sections
  <2> QED BY <2>1, <2>3, Zenon DEF LockInv
<1>3. ASSUME NEW i \in Workers, PollBegin(i) PROVE LockInv'
  <2>1. lock = Nobody /\ lock' = i
    BY <1>0, <1>3, Zenon DEF PollBegin, Acquire
  <2>2. \A j \in Workers : j # i => SectionInv(j)'
    BY <1>0, <1>3, <2>1, OthersLocal, SectionOutside, Zenon
  <2>3. wpc'[i] = "wait" /\ stamp'[i] = clock' /\ item'[i] = item[i] /\ polled'[item[i]] = clock'
    <3>1. item[i] \in Items
      BY <1>3, Zenon DEF PollBegin, QueueInv
    <3> QED BY <1>0, <1>3, <3>1, Zenon DEF PollBegin, PhaseTypes, RoundTypes, ProfileTypes, FileTypes
  <2>4. SectionInv(i)'
    BY <2>1, <2>3, Zenon DEF SectionInv, Sections
  <2> QED BY <2>2, <2>4, Zenon DEF LockInv
<1>4. ASSUME NEW i \in Workers, PollEnd(i) PROVE LockInv'
  <2>1. lock = i /\ lock' = Nobody
    BY <1>0, <1>4, Zenon DEF PollEnd, Release, SectionInv, Sections
  <2>2. \A j \in Workers : j # i => SectionInv(j)'
    BY <1>0, <1>4, <2>1, OthersLocal, SectionOutside, Zenon
  <2>3. wpc'[i] \in {"idle", "log"} /\ left'[i] = {}
    BY <1>0, <1>4, Zenon DEF PollEnd, Finish, PhaseTypes
  <2>4. SectionInv(i)'
    BY <1>0, <2>1, <2>3, Zenon DEF SectionInv, Sections
  <2> QED BY <2>2, <2>4, Zenon DEF LockInv
<1>5. ASSUME NEW i \in Workers, LogBegin(i) PROVE LockInv'
  <2>1. lock = Nobody /\ lock' = i
    BY <1>0, <1>5, Zenon DEF LogBegin, Acquire
  <2>2. \A j \in Workers : j # i => SectionInv(j)'
    BY <1>0, <1>5, <2>1, OthersLocal, SectionOutside, Zenon
  <2>3. wpc'[i] = "snapshot" /\ left'[i] = {}
    BY <1>0, <1>5, Zenon DEF LogBegin, PhaseTypes, SectionInv
  <2>4. SectionInv(i)'
    BY <2>1, <2>3, Zenon DEF SectionInv, Sections
  <2> QED BY <2>2, <2>4, Zenon DEF LockInv
<1>6. ASSUME NEW i \in Workers, LogSnapshot(i) PROVE LockInv'
  <2>1. lock = i /\ UNCHANGED <<lock, clock, polled, entries, left>> /\ left[i] = {}
    BY <1>0, <1>6, Zenon DEF LogSnapshot, SectionInv, Sections
  <2>2. \A j \in Workers : j # i => SectionInv(j)'
    BY <1>0, <1>6, <2>1, OthersLocal, SectionKept, Zenon
  <2>3. \/ wpc'[i] = "snapshot"
        \/ /\ wpc'[i] = "write"
           /\ \E c \in Cpus : NextCpu(i, c)' /\ upto'[i] = Len(entries[c])
    <3>1. PICK c \in Cpus :
            /\ NextCpu(i, c)
            /\ \/ UNCHANGED wpc
               \/ /\ upto' = [upto EXCEPT ![i] = Len(entries[c])]
                  /\ wpc' = [wpc EXCEPT ![i] = "write"]
                  /\ UNCHANGED todo
      BY <1>6, Zenon DEF LogSnapshot
    <3>2. CASE UNCHANGED wpc
      BY <1>6, <3>2, Zenon DEF LogSnapshot
    <3>3. CASE /\ upto' = [upto EXCEPT ![i] = Len(entries[c])]
               /\ wpc' = [wpc EXCEPT ![i] = "write"] /\ UNCHANGED todo
      <4>1. NextCpu(i, c)'
        BY <3>1, <3>3, NextLocal, Zenon
      <4>2. upto'[i] = Len(entries[c]) /\ wpc'[i] = "write"
        BY <1>0, <3>3, Zenon DEF RoundTypes, PhaseTypes
      <4> QED BY <4>1, <4>2, Zenon
    <3> QED BY <3>1, <3>2, <3>3, Zenon
  <2>4. SectionInv(i)'
    BY <2>1, <2>3, Zenon DEF SectionInv, Sections
  <2> QED BY <2>2, <2>4, Zenon DEF LockInv
<1>7. ASSUME NEW i \in Workers, LogWrite(i) PROVE LockInv'
  <2>1. /\ lock = i /\ UNCHANGED <<lock, clock, polled, entries, left, todo, upto>> /\ left[i] = {}
        /\ wpc'[i] = "release" /\ \E c \in Cpus : NextCpu(i, c) /\ upto[i] = Len(entries[c])
    BY <1>0, <1>7, Zenon DEF LogWrite, SectionInv, Sections, PhaseTypes
  <2>2. \A j \in Workers : j # i => SectionInv(j)'
    BY <1>0, <1>7, <2>1, OthersLocal, SectionKept, Zenon
  <2>3. \A c : NextCpu(i, c)' <=> NextCpu(i, c)
    BY <2>1, NextLocal, Zenon
  <2>4. SectionInv(i)'
    BY <2>1, <2>3, Zenon DEF SectionInv, Sections
  <2> QED BY <2>2, <2>4, Zenon DEF LockInv
<1>8. ASSUME NEW i \in Workers, LogRelease(i) PROVE LockInv'
  <2>1. /\ lock = i /\ UNCHANGED <<lock, clock, polled, entries, left>> /\ left[i] = {}
        /\ wpc'[i] = "snapshot"
    BY <1>0, <1>8, Zenon DEF LogRelease, SectionInv, Sections, PhaseTypes
  <2>2. \A j \in Workers : j # i => SectionInv(j)'
    BY <1>0, <1>8, <2>1, OthersLocal, SectionKept, Zenon
  <2>3. SectionInv(i)'
    BY <2>1, Zenon DEF SectionInv, Sections
  <2> QED BY <2>2, <2>3, Zenon DEF LockInv
<1>9. ASSUME NEW i \in Workers, LogEnd(i) PROVE LockInv'
  <2>1. lock = i /\ lock' = Nobody /\ left'[i] = {} /\ wpc'[i] = "idle"
    BY <1>0, <1>9, Zenon DEF LogEnd, Release, Finish, SectionInv, Sections, PhaseTypes
  <2>2. \A j \in Workers : j # i => SectionInv(j)'
    BY <1>0, <1>9, <2>1, OthersLocal, SectionOutside, Zenon
  <2>3. SectionInv(i)'
    BY <1>0, <2>1, Zenon DEF SectionInv, Sections
  <2> QED BY <2>2, <2>3, Zenon DEF LockInv
<1>10. ASSUME NEW i \in Workers, NEW c \in Cpus, PollerFunc(i, c) PROVE LockInv'
  <2>1. /\ wpc[i] = "wait" /\ lock = i /\ UNCHANGED <<lock, wpc, stamp, clock, polled, item>>
    BY <1>0, <1>10, Zenon DEF PollerFunc, SectionInv, Sections
  <2>2. \A j \in Workers : j # i => SectionInv(j)'
    BY <1>0, <1>10, <2>1, OthersLocal, SectionOutside, Zenon
  <2>3. SectionInv(i)'
    BY <1>0, <2>1, Zenon DEF SectionInv, Sections
  <2> QED BY <2>2, <2>3, Zenon DEF LockInv
<1>11. ASSUME NEW c \in Callers, NEW op \in Ops, CallInit(c, op) PROVE LockInv'
  BY <1>11, <1>1, Zenon DEF CallInit
<1>12. ASSUME NEW c \in Callers, CallQueue(c) \/ CallReturn(c) PROVE LockInv'
  BY <1>12, <1>1, Zenon DEF CallQueue, CallReturn
<1>13. ASSUME UNCHANGED profileVars PROVE LockInv'
  BY <1>13, <1>1, Zenon DEF profileVars
<1> QED BY <1>2, <1>3, <1>4, <1>5, <1>6, <1>7, <1>8, <1>9, <1>10, <1>11, <1>12, <1>13,
           StepCases, Zenon

-----------------------------------------------------------------------------
(* A step that changes nothing of the buffer of c, and starts no round.    *)
LEMMA BufferKept ==
  ASSUME NEW c \in Cpus, BufferInv(c), UNCHANGED <<clock, stamp>>,
         entries'[c] = entries[c], head'[c] = head[c],
         \A j \in Workers : left'[j] \subseteq left[j]
  PROVE  BufferInv(c)'
  BY Zenon DEF BufferInv

(* A later time stamp at the end keeps a buffer increasing.                *)
LEMMA AppendIncreasing ==
  ASSUME NEW E \in Seq(Nat), NEW t \in Nat,
         \A j, k \in DOMAIN E : j < k => E[j] < E[k], \A k \in DOMAIN E : E[k] < t
  PROVE  /\ \A j, k \in DOMAIN Append(E, t) : j < k => Append(E, t)[j] < Append(E, t)[k]
         /\ \A k \in DOMAIN Append(E, t) : Append(E, t)[k] <= t
<1> DEFINE G == Append(E, t)
           n == Len(E) + 1
<1>1. /\ DOMAIN G = DOMAIN E \cup {n} /\ G[n] = t
      /\ \A k \in DOMAIN E : G[k] = E[k] /\ k < n
  BY AppendFacts
<1>2. n \in Nat /\ \A k \in DOMAIN E : k \in Nat /\ E[k] \in Nat
  OBVIOUS
<1> HIDE DEF G, n
<1>3. ASSUME NEW j \in DOMAIN G, NEW k \in DOMAIN G, j < k PROVE G[j] < G[k]
  <2>1. j \in DOMAIN E
    BY <1>1, <1>2, <1>3
  <2> QED BY <2>1, <1>1, <1>3, Zenon
<1>4. \A k \in DOMAIN G : G[k] <= t
  BY <1>1, <1>2
<1> QED BY <1>3, <1>4, Zenon DEF G

(* Every step keeps the entries of a buffer increasing, and older than a   *)
(* poll still to reach it.                                                 *)
LEMMA BufferStep ==
  ASSUME ProfileAssumption, OwnItems, ProfileTypes, QueueInv, LockInv,
         NEW c \in Cpus, BufferInv(c), [ProfileNext]_profileVars
  PROVE  BufferInv(c)'
<1> USE DEF dataVars
<1>0. PhaseTypes /\ RoundTypes /\ BufferTypes /\ FileTypes /\ \A j \in Workers : SectionInv(j)
  BY Zenon DEF ProfileTypes, LockInv
<1>1. ASSUME UNCHANGED <<dataVars, stamp, left>> PROVE BufferInv(c)'
  BY <1>1, BufferKept, Zenon DEF dataVars
<1>2. ASSUME NEW i \in Workers, PollBegin(i) PROVE BufferInv(c)'
  <2>1. UNCHANGED <<entries, head>> /\ clock' = clock + 1 /\ clock \in Nat
    BY <1>0, <1>2, Zenon DEF PollBegin, FileTypes
  <2>2. \A k \in DOMAIN entries[c] : entries[c][k] \in Nat
    BY <1>0 DEF BufferTypes
  <2>3. ASSUME NEW j \in Workers, c \in left'[j] PROVE stamp'[j] = clock'
    <3>1. CASE j = i
      BY <3>1, <1>0, <1>2, Zenon DEF PollBegin, RoundTypes
    <3>2. CASE j # i
      <4>1. lock = Nobody /\ left'[j] = left[j]
        BY <3>2, <1>0, <1>2, Zenon DEF PollBegin, RoundTypes, Acquire, OwnItems
      <4>2. wpc[j] # "wait"
        BY <4>1, <1>0, Zenon DEF SectionInv, Sections, ProfileAssumption, Nobody
      <4> QED BY <4>1, <4>2, <2>3, <1>0, Zenon DEF SectionInv
    <3> QED BY <3>1, <3>2, Zenon
  <2> QED BY <2>1, <2>2, <2>3 DEF BufferInv
<1>3. ASSUME NEW i \in Workers, LogRelease(i) PROVE BufferInv(c)'
  <2>1. PICK d \in Cpus : NextCpu(i, d) /\ head' = [head EXCEPT ![d] = upto[i]]
    BY <1>3, Zenon DEF LogRelease
  <2>2. PICK e \in Cpus : NextCpu(i, e) /\ upto[i] = Len(entries[e])
    BY <1>0, <1>3, Zenon DEF LogRelease, SectionInv
  <2>3. upto[i] = Len(entries[d])
    BY <1>0, <2>1, <2>2, NextCpuUnique, Zenon
  <2>4. UNCHANGED <<clock, stamp, entries, left>>
    BY <1>3, Zenon DEF LogRelease
  <2>5. head'[c] = head[c] \/ head'[c] = Len(entries[c])
    BY <1>0, <2>1, <2>3, Zenon DEF BufferTypes
  <2>6. head'[c] <= Len(entries[c])
    BY <1>0, <2>5 DEF BufferInv, BufferTypes
  <2> QED BY <2>4, <2>6, Zenon DEF BufferInv
<1>4. ASSUME NEW i \in Workers, NEW d \in Cpus, PollerFunc(i, d) PROVE BufferInv(c)'
  <2>1. /\ d \in left[i] /\ UNCHANGED <<clock, stamp, head>>
        /\ left' = [left EXCEPT ![i] = @ \ {d}]
        /\ entries' = [entries EXCEPT ![d] = Append(@, stamp[i])] \/ entries' = entries
    BY <1>4, Zenon DEF PollerFunc
  <2>2. \A j \in Workers : left'[j] \subseteq left[j]
    BY <1>0, <2>1, Zenon DEF RoundTypes
  <2>3. CASE entries'[c] = entries[c]
    BY <2>1, <2>2, <2>3, BufferKept, Zenon
  <2>4. CASE entries'[c] # entries[c]
    <3>1. c = d /\ entries'[c] = Append(entries[c], stamp[i])
      BY <1>0, <2>1, <2>4, Zenon DEF BufferTypes
    <3>2. wpc[i] = "wait" /\ lock = i /\ stamp[i] = clock
      BY <1>0, <2>1, Zenon DEF SectionInv, Sections
    <3>3. ASSUME NEW j \in Workers PROVE c \notin left'[j]
      <4>1. CASE j = i
        BY <4>1, <1>0, <2>1, <3>1, Zenon DEF RoundTypes
      <4>2. CASE j # i
        <5>1. wpc[j] # "wait"
          BY <4>2, <3>2, <1>0, Zenon DEF SectionInv, Sections
        <5> QED BY <5>1, <4>2, <2>2, <1>0, Zenon DEF SectionInv
      <4> QED BY <4>1, <4>2, Zenon
    <3>4. \A k \in DOMAIN entries[c] : entries[c][k] < stamp[i]
      BY <2>1, <3>1, Zenon DEF BufferInv
    <3> DEFINE E == entries[c]
               t == stamp[i]
    <3>5. E \in Seq(Nat) /\ t \in Nat
      BY <1>0, Zenon DEF BufferTypes, RoundTypes
    <3>6. \A j, k \in DOMAIN E : j < k => E[j] < E[k]
      BY Zenon DEF BufferInv
    <3> HIDE DEF E, t
    <3>7. /\ \A j, k \in DOMAIN Append(E, t) : j < k => Append(E, t)[j] < Append(E, t)[k]
          /\ \A k \in DOMAIN Append(E, t) : Append(E, t)[k] <= t
      BY <3>4, <3>5, <3>6, AppendIncreasing, Zenon DEF E, t
    <3>8. head'[c] <= Len(Append(E, t))
      <4>1. head'[c] <= Len(E) /\ head'[c] \in Nat
        BY <1>0, <2>1, Zenon DEF BufferInv, BufferTypes, E
      <4> QED BY <4>1, <3>5
    <3>9. entries'[c] = Append(E, t) /\ clock' = t
      BY <2>1, <3>1, <3>2, Zenon DEF E, t
    <3> QED BY <3>3, <3>7, <3>8, <3>9, Zenon DEF BufferInv
  <2> QED BY <2>3, <2>4, Zenon
<1>5. ASSUME NEW i \in Workers, LogWrite(i) PROVE BufferInv(c)'
  <2>1. UNCHANGED <<clock, stamp, entries, head, left>>
    BY <1>5, Zenon DEF LogWrite
  <2> QED BY <2>1, BufferKept, Zenon
<1>6. ASSUME NEW i \in Workers, Take(i) \/ PollEnd(i) \/ LogBegin(i) \/ LogSnapshot(i) \/ LogEnd(i)
      PROVE  BufferInv(c)'
  BY <1>6, <1>1, Zenon DEF Take, PollEnd, LogBegin, LogSnapshot, LogEnd
<1>7. ASSUME NEW d \in Callers, NEW op \in Ops, CallInit(d, op) PROVE BufferInv(c)'
  BY <1>7, <1>1, Zenon DEF CallInit, workVars
<1>8. ASSUME NEW d \in Callers, CallQueue(d) \/ CallReturn(d) PROVE BufferInv(c)'
  BY <1>8, <1>1, Zenon DEF CallQueue, CallReturn, workVars
<1>9. ASSUME UNCHANGED profileVars PROVE BufferInv(c)'
  BY <1>9, <1>1, Zenon DEF profileVars, workVars
<1> QED BY <1>2, <1>3, <1>4, <1>5, <1>6, <1>7, <1>8, <1>9, StepCases, Zenon

-----------------------------------------------------------------------------
(* Nobody stands between a write and its release while another worker has  *)
(* the lock.                                                               *)
LEMMA NoneReleasing ==
  ASSUME ProfileAssumption, LockInv, NEW i \in Workers \cup {Nobody}, lock = i,
         i \in Workers => wpc[i] # "release"
  PROVE  \A c : ~Releasing(c)
  BY Zenon DEF Releasing, LockInv, SectionInv, Sections, ProfileAssumption, Nobody

(* A step that releases nothing and changes no buffer leaves what is in    *)
(* the file.                                                               *)
LEMMA WrittenSame ==
  ASSUME NEW c, \A j \in Workers : (wpc'[j] = "release" <=> wpc[j] = "release")
                                /\ (wpc[j] = "release" => todo'[j] = todo[j]),
         head'[c] = head[c], entries'[c] = entries[c]
  PROVE  Written(c)' = Written(c)
<1>1. Releasing(c)' <=> Releasing(c)
  BY Zenon DEF Releasing, NextCpu
<1> QED BY <1>1, Zenon DEF Written

(* Every step keeps the records of a CPU in the file equal to the first    *)
(* entries of its buffer.                                                  *)
LEMMA LogStep ==
  ASSUME ProfileAssumption, OwnItems, ProfileTypes, QueueInv, LockInv, LockInv',
         \A d \in Cpus : BufferInv(d),
         NEW c \in Cpus, LogInv(c), [ProfileNext]_profileVars
  PROVE  LogInv(c)'
<1> USE DEF dataVars
<1>0. /\ PhaseTypes /\ RoundTypes /\ BufferTypes /\ \A j \in Workers : SectionInv(j)
      /\ Concurrent = TRUE /\ entries[c] \in Seq(Nat) /\ head[c] \in 0 .. Len(entries[c])
  BY DEF ProfileTypes, LockInv, OwnItems, BufferTypes, BufferInv
<1>1. ASSUME UNCHANGED <<entries, head, file>>,
             \A j \in Workers : (wpc'[j] = "release" <=> wpc[j] = "release")
                              /\ (wpc[j] = "release" => todo'[j] = todo[j])
      PROVE  LogInv(c)'
  BY <1>1, WrittenSame, Zenon DEF LogInv
<1>2. ASSUME NEW i \in Workers,
             Take(i) \/ PollBegin(i) \/ PollEnd(i) \/ LogBegin(i) \/ LogSnapshot(i) \/ LogEnd(i)
      PROVE  LogInv(c)'
  <2>1. UNCHANGED <<entries, head, file>>
    BY <1>2, Zenon DEF Take, PollBegin, PollEnd, LogBegin, LogSnapshot, LogEnd
  <2>2. wpc[i] # "release"
    BY <1>2, Zenon DEF Take, PollBegin, PollEnd, LogBegin, LogSnapshot, LogEnd
  <2>3. wpc'[i] # "release"
    BY <1>0, <1>2, Zenon DEF Take, PollBegin, PollEnd, LogBegin, LogSnapshot, LogEnd, Finish, PhaseTypes
  <2>4. \A j \in Workers : j # i => wpc'[j] = wpc[j] /\ todo'[j] = todo[j]
    BY <1>2, OthersLocal, Zenon DEF Local
  <2>5. \A j \in Workers : (wpc'[j] = "release" <=> wpc[j] = "release")
                         /\ (wpc[j] = "release" => todo'[j] = todo[j])
    BY <2>2, <2>3, <2>4, Zenon
  <2> QED BY <2>1, <2>5, <1>1, Zenon
<1>3. ASSUME NEW i \in Workers, LogWrite(i) PROVE LogInv(c)'
  <2>1. lock = i /\ wpc[i] = "write" /\ wpc'[i] = "release" /\ UNCHANGED <<entries, head, todo, lock>>
    BY <1>0, <1>3, Zenon DEF LogWrite, SectionInv, Sections, PhaseTypes
  <2>2. ~Releasing(c) /\ Written(c) = head[c]
    BY <2>1, NoneReleasing, Zenon DEF Written
  <2>3. PICK d \in Cpus :
         LET m == Len(entries[d]) - head[d] IN
            /\ NextCpu(i, d) /\ upto[i] = Len(entries[d]) /\ m \in Nat
            /\ file' \in Seq(Cpus \X Nat) /\ Len(file) \in Nat
            /\ DOMAIN file = 1 .. Len(file) /\ DOMAIN file' = 1 .. Len(file) + m
            /\ \A k \in 1 .. Len(file) : file'[k] = file[k]
            /\ \A k \in 1 .. m : file'[Len(file) + k] = <<d, entries[d][head[d] + k]>>
    BY <1>3, WriteFacts, Zenon
  <2> DEFINE m == Len(entries[d]) - head[d]
             f == Len(file)
             e == Len(entries[d])
  <2>4. \A b : NextCpu(i, b)' <=> NextCpu(i, b)
    BY <2>1, NextLocal, Zenon
  <2>5. CASE c = d
    <3>1. Written(c)' = e
      BY <2>1, <2>3, <2>4, <2>5, Zenon DEF Written, Releasing
    <3>2. FileHolds(file', c, entries[c], e)
      <4> DEFINE E == entries[c]
                 h == head[c]
      <4>1. /\ e \in Nat /\ h \in Nat /\ h <= e /\ DOMAIN E = 1 .. e /\ f \in Nat
            /\ DOMAIN file' = 1 .. f + (e - h) /\ DOMAIN file = 1 .. f
        BY <1>0, <2>3, <2>5
      <4>2. /\ \A k \in 1 .. f : file'[k] = file[k]
            /\ \A k \in 1 .. (e - h) : file'[f + k] = <<c, E[h + k]>>
        BY <2>3, <2>5, Zenon
      <4>3. \A j, k \in 1 .. e : j < k => E[j] < E[k]
        BY <4>1, Zenon DEF BufferInv
      <4>4. FileHolds(file, c, E, h)
        BY <2>2, Zenon DEF LogInv
      <4> HIDE DEF E, h, e, f
      <4>5. FileHolds(file', c, E, e)
        BY <4>1, <4>2, <4>3, <4>4, WriteOwn, Zenon
      <4> QED BY <4>5, Zenon DEF E
    <3> QED BY <2>1, <3>1, <3>2, Zenon DEF LogInv
  <2>6. CASE c # d
    <3>1. ~Releasing(c)'
      <4>1. ASSUME NEW j \in Workers, wpc'[j] = "release", NextCpu(j, c)' PROVE FALSE
        <5>1. j = i
          BY <4>1, <2>1, Zenon DEF LockInv, SectionInv, Sections
        <5>2. NextCpu(i, c)
          BY <4>1, <5>1, <2>4, Zenon
        <5> QED BY <5>2, <2>3, <2>6, <1>0, NextCpuUnique, Zenon
      <4> QED BY <4>1, Zenon DEF Releasing
    <3>2. Written(c)' = Written(c)
      BY <2>1, <2>2, <3>1, Zenon DEF Written
    <3>3. \A k \in 1 .. m : file'[f + k][1] # c
      BY <2>3, <2>6
    <3>4. FileHolds(file', c, entries[c], Written(c))
      <4>1. /\ m \in Nat /\ f \in Nat /\ DOMAIN file' = 1 .. f + m /\ DOMAIN file = 1 .. f
            /\ \A k \in 1 .. f : file'[k] = file[k]
        BY <2>3, Zenon
      <4>2. FileHolds(file, c, entries[c], Written(c))
        BY Zenon DEF LogInv
      <4> HIDE DEF m, f
      <4> QED BY <3>3, <4>1, <4>2, WriteOther, Zenon
    <3> QED BY <2>1, <3>2, <3>4, Zenon DEF LogInv
  <2> QED BY <2>5, <2>6, Zenon
<1>4. ASSUME NEW i \in Workers, LogRelease(i) PROVE LogInv(c)'
  <2>1. lock = i /\ wpc[i] = "release" /\ wpc'[i] = "snapshot" /\ UNCHANGED <<entries, file, lock>>
    BY <1>0, <1>4, Zenon DEF LogRelease, SectionInv, Sections, PhaseTypes
  <2>2. PICK d \in Cpus : NextCpu(i, d) /\ head' = [head EXCEPT ![d] = upto[i]]
    BY <1>4, Zenon DEF LogRelease
  <2>3. PICK e \in Cpus : NextCpu(i, e) /\ upto[i] = Len(entries[e])
    BY <1>0, <2>1, Zenon DEF SectionInv
  <2>4. upto[i] = Len(entries[d])
    BY <1>0, <2>2, <2>3, NextCpuUnique, Zenon
  <2>5. ~Releasing(c)'
    <3>1. \A j \in Workers : wpc'[j] # "release"
      BY <2>1, Zenon DEF LockInv, SectionInv, Sections
    <3> QED BY <3>1, Zenon DEF Releasing
  <2>6. Written(c)' = Written(c)
    <3>1. CASE c = d
      <4>1. Releasing(c) /\ head'[c] = Len(entries[c])
        BY <1>0, <2>1, <2>2, <2>4, <3>1, Zenon DEF Releasing, BufferTypes
      <4> QED BY <4>1, <2>5, Zenon DEF Written
    <3>2. CASE c # d
      <4>1. ~Releasing(c)
        <5>1. ASSUME NEW j \in Workers, wpc[j] = "release", NextCpu(j, c) PROVE FALSE
          <6>1. j = i
            BY <5>1, <2>1, <1>0, Zenon DEF SectionInv, Sections
          <6> QED BY <5>1, <6>1, <2>2, <3>2, <1>0, NextCpuUnique, Zenon
        <5> QED BY <5>1, Zenon DEF Releasing
      <4>2. head'[c] = head[c]
        BY <1>0, <2>2, <3>2, Zenon DEF BufferTypes
      <4> QED BY <4>1, <4>2, <2>5, Zenon DEF Written
    <3> QED BY <3>1, <3>2, Zenon
  <2> QED BY <2>1, <2>6, Zenon DEF LogInv
<1>5. ASSUME NEW i \in Workers, NEW d \in Cpus, PollerFunc(i, d) PROVE LogInv(c)'
  <2>1. /\ UNCHANGED <<wpc, todo, head, file>> /\ d \in left[i]
        /\ entries' = [entries EXCEPT ![d] = Append(@, stamp[i])] \/ entries' = entries
    BY <1>5, Zenon DEF PollerFunc
  <2>2. CASE entries'[c] = entries[c]
    BY <2>1, <2>2, WrittenSame, Zenon DEF LogInv
  <2>3. CASE entries'[c] # entries[c]
    <3>1. entries'[c] = Append(entries[c], stamp[i])
      BY <1>0, <2>1, <2>3, Zenon DEF BufferTypes
    <3>2. wpc[i] = "wait" /\ lock = i
      BY <1>0, <2>1, Zenon DEF SectionInv, Sections
    <3>3. ~Releasing(c)
      BY <3>2, NoneReleasing, Zenon
    <3>4. ~Releasing(c)'
      BY <3>3, <2>1, Zenon DEF Releasing, NextCpu
    <3>5. Written(c) = head[c] /\ Written(c)' = head[c]
      BY <2>1, <3>3, <3>4, Zenon DEF Written
    <3>6. FileHolds(file, c, entries[c], head[c])
      BY <3>5, Zenon DEF LogInv
    <3>7. FileHolds(file, c, Append(entries[c], stamp[i]), head[c])
      <4>1. stamp[i] \in Nat
        BY <1>0, Zenon DEF RoundTypes
      <4> QED BY <1>0, <3>6, <4>1, GrowKeeps, Zenon
    <3> QED BY <2>1, <3>1, <3>5, <3>7, Zenon DEF LogInv
  <2> QED BY <2>2, <2>3, Zenon
<1>6. ASSUME NEW d \in Callers, NEW op \in Ops, CallInit(d, op) PROVE LogInv(c)'
  BY <1>6, <1>1, Zenon DEF CallInit, workVars
<1>7. ASSUME NEW d \in Callers, CallQueue(d) \/ CallReturn(d) PROVE LogInv(c)'
  BY <1>7, <1>1, Zenon DEF CallQueue, CallReturn, workVars
<1>8. ASSUME UNCHANGED profileVars PROVE LogInv(c)'
  BY <1>8, <1>1, Zenon DEF profileVars, workVars
<1> QED BY <1>2, <1>3, <1>4, <1>5, <1>6, <1>7, <1>8, StepCases, Zenon

-----------------------------------------------------------------------------
(* Nothing accepted, refused or written is ever taken back.                *)
LEMMA NothingLost ==
  ASSUME ProfileAssumption, OwnItems, ProfileTypes, LockInv, \A d \in Cpus : BufferInv(d),
         [ProfileNext]_profileVars
  PROVE  \A d \in Cpus : \A t : (Kept(d, t) => Kept(d, t)') /\ (Saved(d, t) => Saved(d, t)')
<1> USE DEF dataVars
<1>1. ASSUME UNCHANGED <<entries, file, dropped>>
      PROVE  \A d \in Cpus : \A t : (Kept(d, t) => Kept(d, t)') /\ (Saved(d, t) => Saved(d, t)')
  BY <1>1, Zenon DEF Kept, Saved
<1>2. ASSUME NEW i \in Workers, LogWrite(i)
      PROVE  \A d \in Cpus : \A t : (Kept(d, t) => Kept(d, t)') /\ (Saved(d, t) => Saved(d, t)')
  <2>1. UNCHANGED <<entries, dropped>>
    BY <1>2, Zenon DEF LogWrite
  <2>2. \A k \in DOMAIN file : k \in DOMAIN file' /\ file'[k] = file[k]
    <3>1. PICK m \in Nat :
            /\ Len(file) \in Nat /\ DOMAIN file = 1 .. Len(file)
            /\ DOMAIN file' = 1 .. Len(file) + m
            /\ \A k \in 1 .. Len(file) : file'[k] = file[k]
      BY <1>2, WriteFacts, Zenon
    <3> QED BY <3>1
  <2> QED BY <2>1, <2>2, Zenon DEF Kept, Saved
<1>3. ASSUME NEW i \in Workers, NEW c \in Cpus, PollerFunc(i, c)
      PROVE  \A d \in Cpus : \A t : (Kept(d, t) => Kept(d, t)') /\ (Saved(d, t) => Saved(d, t)')
  <2>1. dropped \subseteq dropped' /\ file' = file
    BY <1>3, Zenon DEF PollerFunc
  <2>2. ASSUME NEW d \in Cpus, NEW k \in DOMAIN entries[d]
        PROVE  k \in DOMAIN entries'[d] /\ entries'[d][k] = entries[d][k]
    <3>1. entries[d] \in Seq(Nat) /\ stamp[i] \in Nat
      BY Zenon DEF ProfileTypes, BufferTypes, RoundTypes
    <3>2. entries'[d] = entries[d] \/ entries'[d] = Append(entries[d], stamp[i])
      BY <1>3, Zenon DEF PollerFunc, ProfileTypes, BufferTypes
    <3> QED BY <3>1, <3>2, AppendFacts
  <2> QED BY <2>1, <2>2, Zenon DEF Kept, Saved
<1>4. ASSUME NEW i \in Workers,
             Take(i) \/ PollBegin(i) \/ PollEnd(i) \/ LogBegin(i) \/ LogSnapshot(i)
             \/ LogRelease(i) \/ LogEnd(i)
      PROVE  UNCHANGED <<entries, file, dropped>>
  BY <1>4, Zenon DEF Take, PollBegin, PollEnd, LogBegin, LogSnapshot, LogRelease, LogEnd
<1>5. ASSUME NEW d \in Callers, NEW op \in Ops, CallInit(d, op) PROVE UNCHANGED <<entries, file, dropped>>
  BY <1>5, Zenon DEF CallInit
<1>6. ASSUME NEW d \in Callers, CallQueue(d) \/ CallReturn(d) PROVE UNCHANGED <<entries, file, dropped>>
  BY <1>6, Zenon DEF CallQueue, CallReturn
<1>7. ASSUME UNCHANGED profileVars PROVE UNCHANGED <<entries, file, dropped>>
  BY <1>7, Zenon DEF profileVars
<1> QED BY <1>1, <1>2, <1>3, <1>4, <1>5, <1>6, <1>7, StepCases, Zenon

(* Once all of a buffer is written, what it accepted is in the file.       *)
LEMMA KeptIsSaved ==
  ASSUME ProfileTypes, NEW d \in Cpus, LogInv(d), Written(d) = Len(entries[d]), NEW t, Kept(d, t)
  PROVE  Saved(d, t)
<1>1. entries[d] \in Seq(Nat) /\ DOMAIN entries[d] = 1 .. Len(entries[d])
  BY DEF ProfileTypes, BufferTypes
<1>2. \A j \in 1 .. Len(entries[d]) : \E k \in DOMAIN file : file[k] = <<d, entries[d][j]>>
  BY Zenon DEF LogInv, FileHolds
<1> QED BY <1>1, <1>2, Zenon DEF Kept, Saved

(* What a poll-and-log knows of its own entries survives the steps of      *)
(* others, which neither take an entry away nor cut the file.              *)
LEMMA PolledKept ==
  ASSUME NEW j \in Workers, PolledInv(j), Local(j), wpc[j] # "idle" => polled'[item[j]] = polled[item[j]],
         \A d \in Cpus : \A t : (Kept(d, t) => Kept(d, t)') /\ (Saved(d, t) => Saved(d, t)')
  PROVE  PolledInv(j)'
<1>1. CASE wpc[j] = "idle"
  BY <1>1, Zenon DEF PolledInv, Local
<1>2. CASE wpc[j] # "idle"
  <2>0. PICK t : t = polled[item[j]]
    OBVIOUS
  <2>1. polled'[item'[j]] = t
    BY <1>2, <2>0, Zenon DEF Local
  <2>2. \A d \in Cpus : (Kept(d, t) => Kept(d, t)') /\ (Saved(d, t) => Saved(d, t)')
    BY Zenon
  <2>3. wpc[j] # "idle" /\ wfunc[j] = "poll_and_log" =>
          \A d \in Cpus :
            /\ wpc[j] = "wait" /\ d \notin left[j] => Kept(d, t)
            /\ wpc[j] = "log" => Kept(d, t)
            /\ wpc[j] \in {"snapshot", "write", "release"} =>
                 IF d \in todo[j] THEN Kept(d, t) ELSE Saved(d, t)
    BY <2>0, Zenon DEF PolledInv
  <2> QED BY <2>1, <2>2, <2>3, Zenon DEF PolledInv, Local
<1> QED BY <1>1, <1>2, Zenon

(* Every step keeps the entries of a poll-and-log in the buffers, and in   *)
(* the file once its log is past them.                                     *)
LEMMA PolledStep ==
  ASSUME ProfileAssumption, OwnItems, ProfileTypes, QueueInv, LockInv,
         \A d \in Cpus : BufferInv(d) /\ LogInv(d), \A i \in Workers : PolledInv(i),
         [ProfileNext]_profileVars
  PROVE  \A i \in Workers : PolledInv(i)'
<1> USE DEF dataVars
<1>0. /\ PhaseTypes /\ RoundTypes /\ BufferTypes /\ \A j \in Workers : SectionInv(j)
      /\ \A d \in Cpus : \A t : (Kept(d, t) => Kept(d, t)') /\ (Saved(d, t) => Saved(d, t)')
  BY NothingLost, Zenon DEF ProfileTypes, LockInv
<1>1. ASSUME UNCHANGED <<workVars, polled>> PROVE \A i \in Workers : PolledInv(i)'
  <2>1. \A j \in Workers : Local(j)
    BY <1>1, Zenon DEF Local, workVars
  <2> QED BY <1>0, <1>1, <2>1, PolledKept, Zenon
<1>2. ASSUME NEW i \in Workers, NEW j \in Workers, j # i,
             \/ Take(i) \/ PollEnd(i) \/ LogBegin(i) \/ LogSnapshot(i)
             \/ LogWrite(i) \/ LogRelease(i) \/ LogEnd(i) \/ \E c \in Cpus : PollerFunc(i, c)
      PROVE  PolledInv(j)'
  <2>1. Local(j)
    BY <1>2, OthersLocal, Zenon
  <2>2. polled' = polled
    BY <1>2, Zenon DEF Take, PollEnd, LogBegin, LogSnapshot, LogWrite, LogRelease, LogEnd, PollerFunc
  <2> QED BY <1>0, <2>1, <2>2, PolledKept, Zenon
<1>3. ASSUME NEW i \in Workers, Take(i) PROVE \A j \in Workers : PolledInv(j)'
  <2>1. wpc'[i] = "poll" \/ wfunc'[i] = "log"
    BY <1>0, <1>3, Zenon DEF Take, PhaseTypes
  <2>2. PolledInv(i)'
    BY <2>1, Zenon DEF PolledInv
  <2> QED BY <1>2, <1>3, <2>2, Zenon
<1>4. ASSUME NEW i \in Workers, PollBegin(i) PROVE \A j \in Workers : PolledInv(j)'
  <2>1. wpc[i] = "poll" /\ wpc'[i] = "wait" /\ left'[i] = Cpus /\ item[i] \in Items
    BY <1>0, <1>4, Zenon DEF PollBegin, PhaseTypes, RoundTypes, QueueInv
  <2>2. PolledInv(i)'
    BY <2>1, Zenon DEF PolledInv
  <2>3. ASSUME NEW j \in Workers, j # i PROVE PolledInv(j)'
    <3>1. wpc[j] # "idle" => item[j] # item[i]
      BY <2>1, <2>3, Zenon DEF QueueInv, Runs
    <3>2. wpc[j] # "idle" => item[j] \in Items
      BY Zenon DEF QueueInv
    <3>3. wpc[j] # "idle" => polled'[item[j]] = polled[item[j]]
      BY <1>4, <3>1, <3>2, Zenon DEF PollBegin, ProfileTypes, FileTypes
    <3> QED BY <1>0, <1>4, <2>3, <3>3, OthersLocal, PolledKept, Zenon
  <2> QED BY <2>2, <2>3, Zenon
<1>5. ASSUME NEW i \in Workers, PollEnd(i) PROVE \A j \in Workers : PolledInv(j)'
  <2>1. /\ wpc[i] = "wait" /\ left[i] = {} /\ wpc'[i] \in {"idle", "log"}
        /\ UNCHANGED <<item, wfunc, polled>>
    BY <1>0, <1>5, Zenon DEF PollEnd, Finish, PhaseTypes
  <2>2. wfunc[i] = "poll_and_log" => \A d \in Cpus : Kept(d, polled[item[i]])'
    BY <1>0, <2>1, Zenon DEF PolledInv
  <2>3. PolledInv(i)'
    BY <2>1, <2>2, Zenon DEF PolledInv
  <2> QED BY <1>2, <1>5, <2>3, Zenon
<1>6. ASSUME NEW i \in Workers, LogBegin(i) PROVE \A j \in Workers : PolledInv(j)'
  <2>1. /\ wpc[i] = "log" /\ todo'[i] = Cpus /\ wpc'[i] = "snapshot"
        /\ UNCHANGED <<item, wfunc, polled>>
    BY <1>0, <1>6, Zenon DEF LogBegin, PhaseTypes, RoundTypes
  <2>2. wfunc[i] = "poll_and_log" => \A d \in Cpus : Kept(d, polled[item[i]])'
    BY <1>0, <2>1, Zenon DEF PolledInv
  <2>3. PolledInv(i)'
    BY <2>1, <2>2, Zenon DEF PolledInv
  <2> QED BY <1>2, <1>6, <2>3, Zenon
<1>7. ASSUME NEW i \in Workers, LogEnd(i) PROVE \A j \in Workers : PolledInv(j)'
  <2>1. wpc'[i] = "idle"
    BY <1>0, <1>7, Zenon DEF LogEnd, Finish, PhaseTypes
  <2>2. PolledInv(i)'
    BY <2>1, Zenon DEF PolledInv
  <2> QED BY <1>2, <1>7, <2>2, Zenon
<1>8. ASSUME NEW i \in Workers, NEW c \in Cpus, todo'[i] = todo[i] \ {c}, wpc'[i] = "snapshot",
             wpc[i] \in {"snapshot", "release"}, Written(c) = Len(entries[c]),
             UNCHANGED <<item, wfunc, polled>>
      PROVE  PolledInv(i)'
  <2>0. PICK t : t = polled[item[i]]
    OBVIOUS
  <2>1. polled'[item'[i]] = t /\ wfunc' = wfunc
    BY <1>8, <2>0, Zenon
  <2>2. ASSUME wfunc[i] = "poll_and_log", NEW d \in Cpus
        PROVE  IF d \in todo[i] THEN Kept(d, t) ELSE Saved(d, t)
    BY <1>8, <2>0, <2>2, Zenon DEF PolledInv
  <2>3. ASSUME wfunc[i] = "poll_and_log", NEW d \in Cpus
        PROVE  IF d \in todo'[i] THEN Kept(d, t)' ELSE Saved(d, t)'
    <3>1. CASE d = c
      <4>1. Saved(d, t)
        BY <1>8, <2>2, <2>3, <3>1, KeptIsSaved, Zenon
      <4> QED BY <4>1, <3>1, <1>8, <1>0, Zenon
    <3>2. CASE d # c
      <4>1. d \in todo'[i] <=> d \in todo[i]
        BY <3>2, <1>8, Zenon
      <4> QED BY <4>1, <2>2, <2>3, <1>0, Zenon
    <3> QED BY <3>1, <3>2, Zenon
  <2> QED BY <1>8, <2>1, <2>3, Zenon DEF PolledInv
<1>9. ASSUME NEW i \in Workers, NEW p \in {"write", "release"}, wpc'[i] = p,
             todo'[i] = todo[i], wpc[i] \in {"snapshot", "write"}, UNCHANGED <<item, wfunc, polled>>
      PROVE  PolledInv(i)'
  <2>0. PICK t : t = polled[item[i]]
    OBVIOUS
  <2>1. polled'[item'[i]] = t /\ wfunc' = wfunc
    BY <1>9, <2>0, Zenon
  <2>2. ASSUME wfunc[i] = "poll_and_log", NEW d \in Cpus
        PROVE  IF d \in todo[i] THEN Kept(d, t) ELSE Saved(d, t)
    BY <1>9, <2>0, <2>2, Zenon DEF PolledInv
  <2>3. ASSUME wfunc[i] = "poll_and_log", NEW d \in Cpus
        PROVE  IF d \in todo'[i] THEN Kept(d, t)' ELSE Saved(d, t)'
    BY <1>0, <1>9, <2>2, <2>3, Zenon
  <2> QED BY <1>9, <2>1, <2>3, Zenon DEF PolledInv
<1>10. ASSUME NEW i \in Workers, LogSnapshot(i) PROVE \A j \in Workers : PolledInv(j)'
  <2>1. wpc[i] = "snapshot" /\ UNCHANGED <<item, wfunc, polled>> /\ lock = i
    BY <1>0, <1>10, Zenon DEF LogSnapshot, SectionInv, Sections
  <2>2. PICK c \in Cpus :
          \/ head[c] = Len(entries[c]) /\ todo' = [todo EXCEPT ![i] = @ \ {c}] /\ UNCHANGED wpc
          \/ wpc' = [wpc EXCEPT ![i] = "write"] /\ UNCHANGED todo
    BY <1>10, Zenon DEF LogSnapshot
  <2>3. CASE head[c] = Len(entries[c]) /\ todo' = [todo EXCEPT ![i] = @ \ {c}] /\ UNCHANGED wpc
    <3>1. Written(c) = Len(entries[c])
      BY <2>1, <2>3, NoneReleasing, Zenon DEF Written
    <3>2. todo'[i] = todo[i] \ {c} /\ wpc'[i] = "snapshot"
      BY <1>0, <2>1, <2>3, Zenon DEF RoundTypes
    <3> QED BY <1>2, <1>8, <1>10, <2>1, <3>1, <3>2, Zenon
  <2>4. CASE wpc' = [wpc EXCEPT ![i] = "write"] /\ UNCHANGED todo
    <3>1. wpc'[i] = "write" /\ todo'[i] = todo[i]
      BY <1>0, <2>4, Zenon DEF PhaseTypes
    <3> QED BY <1>2, <1>9, <1>10, <2>1, <3>1, Zenon
  <2> QED BY <2>2, <2>3, <2>4, Zenon
<1>11. ASSUME NEW i \in Workers, LogWrite(i) PROVE \A j \in Workers : PolledInv(j)'
  <2>1. /\ wpc[i] = "write" /\ wpc'[i] = "release" /\ todo'[i] = todo[i]
        /\ UNCHANGED <<item, wfunc, polled>>
    BY <1>0, <1>11, Zenon DEF LogWrite, PhaseTypes
  <2> QED BY <1>2, <1>9, <1>11, <2>1, Zenon
<1>12. ASSUME NEW i \in Workers, LogRelease(i) PROVE \A j \in Workers : PolledInv(j)'
  <2>1. PICK c \in Cpus : NextCpu(i, c) /\ todo' = [todo EXCEPT ![i] = @ \ {c}]
    BY <1>12, Zenon DEF LogRelease
  <2>2. /\ wpc[i] = "release" /\ wpc'[i] = "snapshot" /\ todo'[i] = todo[i] \ {c}
        /\ UNCHANGED <<item, wfunc, polled>>
    BY <1>0, <1>12, <2>1, Zenon DEF LogRelease, PhaseTypes, RoundTypes
  <2>3. Written(c) = Len(entries[c])
    BY <2>1, <2>2, Zenon DEF Written, Releasing
  <2> QED BY <1>2, <1>8, <1>12, <2>2, <2>3, Zenon
<1>13. ASSUME NEW i \in Workers, NEW c \in Cpus, PollerFunc(i, c) PROVE \A j \in Workers : PolledInv(j)'
  <2>0. PICK t : t = polled[item[i]]
    OBVIOUS
  <2>1. /\ wpc[i] = "wait" /\ wpc'[i] = "wait" /\ left'[i] = left[i] \ {c} /\ t = stamp[i]
        /\ UNCHANGED <<item, wfunc, polled>>
    BY <1>0, <1>13, <2>0, Zenon DEF PollerFunc, RoundTypes, SectionInv
  <2>2. Kept(c, t)'
    <3>1. CASE dropped' = dropped \cup {<<c, stamp[i]>>}
      BY <2>1, <3>1, Zenon DEF Kept
    <3>2. CASE entries' = [entries EXCEPT ![c] = Append(@, stamp[i])]
      <4>1. entries'[c] = Append(entries[c], stamp[i]) /\ entries[c] \in Seq(Nat) /\ stamp[i] \in Nat
        BY <3>2, <1>0, Zenon DEF BufferTypes, RoundTypes
      <4>2. \E k \in DOMAIN entries'[c] : entries'[c][k] = stamp[i]
        BY <4>1, AppendFacts
      <4> QED BY <4>2, <2>1, Zenon DEF Kept
    <3> QED BY <1>13, <3>1, <3>2, Zenon DEF PollerFunc
  <2>3. PolledInv(i)'
    <3>1. ASSUME wfunc[i] = "poll_and_log", NEW d \in Cpus, d \notin left'[i] PROVE Kept(d, t)'
      <4>1. CASE d = c
        BY <4>1, <2>1, <2>2, Zenon
      <4>2. CASE d # c
        BY <4>2, <3>1, <2>0, <2>1, <1>0, Zenon DEF PolledInv
      <4> QED BY <4>1, <4>2, Zenon
    <3> QED BY <2>0, <2>1, <3>1, Zenon DEF PolledInv
  <2> QED BY <1>2, <1>13, <2>3, Zenon
<1>14. ASSUME NEW d \in Callers, NEW op \in Ops, CallInit(d, op) PROVE \A j \in Workers : PolledInv(j)'
  BY <1>14, <1>1, Zenon DEF CallInit
<1>15. ASSUME NEW d \in Callers, CallQueue(d) \/ CallReturn(d) PROVE \A j \in Workers : PolledInv(j)'
  BY <1>15, <1>1, Zenon DEF CallQueue, CallReturn
<1>16. ASSUME UNCHANGED profileVars PROVE \A j \in Workers : PolledInv(j)'
  BY <1>16, <1>1, Zenon DEF profileVars
<1> QED BY <1>3, <1>4, <1>5, <1>6, <1>7, <1>10, <1>11, <1>12, <1>13, <1>14, <1>15, <1>16,
           StepCases, Zenon

(* What a served caller asked for stays in the file.                       *)
LEMMA ServedStep ==
  ASSUME ProfileAssumption, OwnItems, ProfileTypes, QueueInv, LockInv,
         \A d \in Cpus : BufferInv(d), \A i \in Workers : PolledInv(i),
         \A c \in Callers : ServedInv(c), [ProfileNext]_profileVars
  PROVE  \A c \in Callers : ServedInv(c)'
<1> USE DEF dataVars
<1>0. \A d \in Cpus : \A t : Saved(d, t) => Saved(d, t)'
  BY NothingLost, Zenon
<1>1. ASSUME NEW c \in Callers, Served(c), cop'[c] = cop[c],
             polled'[ItemOf(c)] = polled[ItemOf(c)]
      PROVE  ServedInv(c)'
  <2>1. PICK t : t = polled[ItemOf(c)]
    OBVIOUS
  <2>2. cop[c] = "poll_and_log" => \A d \in Cpus : Saved(d, t)
    BY <1>1, <2>1, Zenon DEF ServedInv
  <2>3. cop[c] = "poll_and_log" => \A d \in Cpus : Saved(d, t)'
    BY <1>0, <2>2, Zenon
  <2>4. polled'[ItemOf(c)'] = t
    BY <1>1, <2>1, Zenon DEF ItemOf
  <2> QED BY <1>1, <2>3, <2>4, Zenon DEF ServedInv
<1>2. ASSUME UNCHANGED <<cop, polled>>, \A d \in Callers : Served(d)' => Served(d)
      PROVE  \A c \in Callers : ServedInv(c)'
  <2>1. ASSUME NEW c \in Callers PROVE ServedInv(c)'
    <3>1. CASE Served(c)
      BY <3>1, <1>1, <1>2, Zenon
    <3>2. CASE ~Served(c)
      BY <3>2, <1>2, Zenon DEF ServedInv
    <3> QED BY <3>1, <3>2, Zenon
  <2> QED BY <2>1, Zenon
<1>3. ASSUME NEW c \in Callers, NEW op \in Ops, CallInit(c, op) PROVE \A d \in Callers : ServedInv(d)'
  <2>1. /\ polled' = polled /\ cpc[c] = "idle"
        /\ \A d \in Callers : d # c => cop'[d] = cop[d]
    BY <1>3, Zenon DEF CallInit, ProfileTypes, CallTypes
  <2>2. \A d \in Callers : Served(d)' => Served(d)
    BY <1>3, ServedInit, Zenon
  <2>3. ASSUME NEW d \in Callers PROVE ServedInv(d)'
    <3>1. CASE Served(d)
      <4>1. d # c
        BY <2>1, <3>1, Zenon DEF Served
      <4> QED BY <2>1, <3>1, <4>1, <1>1, Zenon
    <3>2. CASE ~Served(d)
      BY <3>2, <2>2, Zenon DEF ServedInv
    <3> QED BY <3>1, <3>2, Zenon
  <2> QED BY <2>3, Zenon
<1>4. ASSUME NEW c \in Callers, CallQueue(c) PROVE \A d \in Callers : ServedInv(d)'
  <2>1. UNCHANGED <<cop, polled>>
    BY <1>4, Zenon DEF CallQueue
  <2> QED BY <2>1, <1>2, <1>4, ServedQueue, Zenon
<1>5. ASSUME NEW c \in Callers, CallReturn(c) PROVE \A d \in Callers : ServedInv(d)'
  <2>1. UNCHANGED <<cop, polled>>
    BY <1>5, Zenon DEF CallReturn
  <2> QED BY <2>1, <1>2, <1>5, ServedReturn, Zenon
<1>6. ASSUME NEW i \in Workers, Take(i) PROVE \A d \in Callers : ServedInv(d)'
  <2>1. UNCHANGED <<cop, polled>>
    BY <1>6, Zenon DEF Take, callVars
  <2> QED BY <2>1, <1>2, <1>6, ServedTake, Zenon
<1>7. ASSUME NEW i \in Workers, NEW p, p # "idle", wpc[i] # "idle",
             wpc' = [wpc EXCEPT ![i] = p], UNCHANGED <<callVars, queueVars, item>>
      PROVE  \A d \in Callers : Served(d)' <=> Served(d)
  <2>1. \A j \in Workers : wpc'[j] = "idle" <=> wpc[j] = "idle"
    BY <1>7, Zenon DEF ProfileTypes, PhaseTypes
  <2> QED BY <1>7, <2>1, ServedSame, Zenon
<1>8. ASSUME UNCHANGED <<callVars, queueVars, item, wpc, polled>>
      PROVE  \A d \in Callers : ServedInv(d)'
  <2>1. UNCHANGED <<callVars, queueVars, item>> /\ UNCHANGED <<cop, polled>>
    BY <1>8, Zenon DEF callVars
  <2>2. \A j \in Workers : wpc'[j] = "idle" <=> wpc[j] = "idle"
    BY <1>8, Zenon
  <2> QED BY <2>1, <2>2, <1>2, ServedSame, Zenon
<1>9. ASSUME NEW i \in Workers, PollBegin(i) PROVE \A d \in Callers : ServedInv(d)'
  <2>1. /\ UNCHANGED cop /\ wpc[i] = "poll" /\ item[i] \in Items
        /\ \A w \in Items : w # item[i] => polled'[w] = polled[w]
    BY <1>9, Zenon DEF PollBegin, callVars, QueueInv, ProfileTypes, FileTypes
  <2>2. \A d \in Callers : Served(d)' <=> Served(d)
    BY <1>7, <1>9, Zenon DEF PollBegin
  <2>3. ASSUME NEW d \in Callers PROVE ServedInv(d)'
    <3>1. CASE Served(d)
      <4>1. ItemOf(d) # item[i] /\ ItemOf(d) \in Items
        BY <2>1, <3>1, Zenon DEF Served, Running, Items, ItemOf
      <4> QED BY <2>1, <3>1, <4>1, <1>1, Zenon
    <3>2. CASE ~Served(d)
      BY <3>2, <2>2, Zenon DEF ServedInv
    <3> QED BY <3>1, <3>2, Zenon
  <2> QED BY <2>3, Zenon
<1>10. ASSUME NEW i \in Workers, LogBegin(i) \/ LogWrite(i) \/ LogRelease(i)
       PROVE  \A d \in Callers : ServedInv(d)'
  <2>1. UNCHANGED <<cop, polled>>
    BY <1>10, Zenon DEF LogBegin, LogWrite, LogRelease, callVars
  <2>2. \A d \in Callers : Served(d)' <=> Served(d)
    BY <1>7, <1>10, Zenon DEF LogBegin, LogWrite, LogRelease
  <2> QED BY <2>1, <2>2, <1>2, Zenon
<1>11. ASSUME NEW i \in Workers, wpc[i] # "idle", wpc' = [wpc EXCEPT ![i] = "idle"],
              UNCHANGED <<callVars, queueVars, item, polled>>,
              wfunc[i] = "poll_and_log" => \A d \in Cpus : Saved(d, polled[item[i]])'
       PROVE  \A d \in Callers : ServedInv(d)'
  <2>1. UNCHANGED <<cop, polled>> /\ UNCHANGED <<callVars, queueVars, item>>
    BY <1>11, Zenon DEF callVars
  <2>2. PICK c \in Callers :
          /\ ItemOf(c) = item[i] /\ cpc[c] = "flush" /\ cop[c] = wfunc[i] /\ ~Served(c)
          /\ \A d \in Callers : Served(d)' <=> Served(d) \/ d = c
    BY <1>11, <2>1, ServedFinish, Zenon
  <2>3. ASSUME NEW d \in Callers PROVE ServedInv(d)'
    <3>1. CASE Served(d)
      BY <3>1, <1>1, <2>1, Zenon
    <3>2. CASE d = c
      <4>1. cop[c] = "poll_and_log" => \A e \in Cpus : Saved(e, polled[ItemOf(c)])'
        BY <1>11, <2>1, <2>2, Zenon DEF Saved, ItemOf
      <4> QED BY <4>1, <3>2, <2>1, Zenon DEF ServedInv
    <3>3. CASE ~Served(d) /\ d # c
      BY <3>3, <2>2, Zenon DEF ServedInv
    <3> QED BY <3>1, <3>2, <3>3, Zenon
  <2> QED BY <2>3, Zenon
<1>12. ASSUME NEW i \in Workers, PollEnd(i) PROVE \A d \in Callers : ServedInv(d)'
  <2>1. CASE wfunc[i] = "poll"
    <3>1. wfunc[i] # "poll_and_log"
      BY <2>1, Zenon
    <3> QED BY <1>11, <1>12, <2>1, <3>1, Zenon DEF PollEnd, Finish
  <2>2. CASE wfunc[i] # "poll"
    <3>1. UNCHANGED <<cop, polled>> /\ \A d \in Callers : Served(d)' <=> Served(d)
      BY <1>7, <1>12, <2>2, Zenon DEF PollEnd, callVars
    <3> QED BY <3>1, <1>2, Zenon
  <2> QED BY <2>1, <2>2, Zenon
<1>13. ASSUME NEW i \in Workers, LogEnd(i) PROVE \A d \in Callers : ServedInv(d)'
  <2>1. /\ wpc[i] = "snapshot" /\ todo[i] = {} /\ wpc' = [wpc EXCEPT ![i] = "idle"]
        /\ UNCHANGED <<callVars, queueVars, item, polled, file, dropped>>
    BY <1>13, Zenon DEF LogEnd, Finish
  <2>2. wfunc[i] = "poll_and_log" => \A d \in Cpus : Saved(d, polled[item[i]])
    BY <2>1, Zenon DEF PolledInv
  <2>3. wfunc[i] = "poll_and_log" => \A d \in Cpus : Saved(d, polled[item[i]])'
    BY <2>1, <2>2, Zenon DEF Saved
  <2>4. wpc[i] # "idle" /\ UNCHANGED <<callVars, queueVars, item, polled>>
    BY <2>1, Zenon
  <2> QED BY <1>11, <2>1, <2>3, <2>4, Zenon
<1>14. ASSUME NEW i \in Workers, LogSnapshot(i) PROVE \A d \in Callers : ServedInv(d)'
  <2>1. wpc[i] = "snapshot" /\ UNCHANGED <<callVars, queueVars, item, polled>>
    BY <1>14, Zenon DEF LogSnapshot
  <2>2. UNCHANGED wpc \/ wpc' = [wpc EXCEPT ![i] = "write"]
    BY <1>14, Zenon DEF LogSnapshot
  <2>3. CASE UNCHANGED wpc
    BY <2>1, <2>3, <1>8, Zenon
  <2>4. CASE wpc' = [wpc EXCEPT ![i] = "write"]
    <3>1. UNCHANGED <<cop, polled>>
      BY <2>1, Zenon DEF callVars
    <3>2. wpc[i] # "idle" /\ UNCHANGED <<callVars, queueVars, item>> /\ "write" # "idle"
      BY <2>1, Zenon
    <3> QED BY <2>4, <3>1, <3>2, <1>2, <1>7, Zenon
  <2> QED BY <2>2, <2>3, <2>4, Zenon
<1>15. ASSUME NEW i \in Workers, NEW c \in Cpus, PollerFunc(i, c) PROVE \A d \in Callers : ServedInv(d)'
  BY <1>15, <1>8, Zenon DEF PollerFunc
<1>16. ASSUME UNCHANGED profileVars PROVE \A d \in Callers : ServedInv(d)'
  BY <1>16, <1>8, Zenon DEF profileVars, workVars
<1> QED BY <1>3, <1>4, <1>5, <1>6, <1>9, <1>10, <1>12, <1>13, <1>14, <1>15, <1>16, StepCases, Zenon

-----------------------------------------------------------------------------
(* Before the first call nothing is queued, polled or written.             *)
LEMMA ProfileInitHolds == ASSUME ProfileAssumption, ProfileInit PROVE ProfileInv
<1>1. ProfileTypes
  BY DEF ProfileInit, ProfileTypes, CallTypes, ListTypes, PhaseTypes, RoundTypes, BufferTypes,
         FileTypes, Phases, Ops
<1>2. (\A w : ~OnList(w) /\ ~Running(w)) /\ \A j, w : j \in Workers => ~Runs(j, w)
  BY DEF ProfileInit, OnList, Running, Runs
<1>3. QueueInv
  <2>1. \A c \in Callers : ItemInv(c)
    BY <1>2, Zenon DEF ProfileInit, ItemInv, ItemOf, Items
  <2>2. \A j, k \in DOMAIN worklist : worklist[j] = worklist[k] => j = k
    <3>1. DOMAIN worklist = {}
      BY DEF ProfileInit
    <3> QED BY <3>1, Zenon
  <2>3. \A i \in Workers : wpc[i] = "idle"
    BY Zenon DEF ProfileInit
  <2> QED BY <1>2, <2>1, <2>2, <2>3, Zenon DEF QueueInv
<1>4. CallCounts
  <2>1. \A o \in Ops : CallingFor(o) = {} /\ ServedFor(o) = {}
    BY Zenon DEF ProfileInit, CallingFor, ServedFor, Served
  <2>2. Cardinality({}) = 0
    BY FS_EmptySet, Zenon
  <2>3. \A o \in Ops : begun[o] = 0 /\ finished[o] = 0 /\ returned[o] = 0
    BY Zenon DEF ProfileInit
  <2>4. ASSUME NEW o \in Ops PROVE CountOf(o)
    <3>1. /\ begun[o] = 0 /\ finished[o] = 0 /\ returned[o] = 0
          /\ Cardinality(CallingFor(o)) = 0 /\ Cardinality(ServedFor(o)) = 0
      BY <2>1, <2>2, <2>3, Zenon
    <3> QED BY <3>1 DEF CountOf
  <2> QED BY <2>4, Zenon DEF CallCounts
<1>5. LockInv
  BY Zenon DEF ProfileInit, LockInv, SectionInv, Sections, ProfileAssumption, Nobody
<1>6. ASSUME NEW c \in Cpus PROVE BufferInv(c) /\ LogInv(c)
  <2>1. entries[c] = << >> /\ head[c] = 0 /\ file = << >> /\ Written(c) = 0
    BY Zenon DEF ProfileInit, Written, Releasing
  <2>2. BufferInv(c)
    BY <2>1 DEF BufferInv
  <2>3. LogInv(c)
    BY <2>1 DEF LogInv, FileHolds
  <2> QED BY <2>2, <2>3, Zenon
<1>7. \A i \in Workers : PolledInv(i)
  BY Zenon DEF ProfileInit, PolledInv
<1>8. \A c \in Callers : ServedInv(c)
  BY Zenon DEF ProfileInit, ServedInv, Served
<1> QED BY <1>1, <1>3, <1>4, <1>5, <1>6, <1>7, <1>8, Zenon DEF ProfileInv

(* Every step keeps the invariant.                                         *)
LEMMA ProfileInvStep ==
  ASSUME ProfileAssumption, OwnItems, ProfileInv, [ProfileNext]_profileVars PROVE ProfileInv'
<1>1. /\ ProfileTypes /\ QueueInv /\ CallCounts /\ LockInv /\ \A c \in Cpus : BufferInv(c) /\ LogInv(c)
      /\ (\A i \in Workers : PolledInv(i)) /\ \A c \in Callers : ServedInv(c)
  BY Zenon DEF ProfileInv
<1>2. ProfileTypes'
  BY <1>1, ProfileTypesStep, Zenon
<1>3. QueueInv'
  BY <1>1, QueueStep, Zenon
<1>4. CallCounts'
  BY <1>1, CountsStep, Zenon
<1>5. LockInv'
  BY <1>1, LockStep, Zenon
<1>6. \A c \in Cpus : BufferInv(c)'
  BY <1>1, BufferStep, Zenon
<1>7. \A c \in Cpus : LogInv(c)'
  BY <1>1, <1>5, LogStep, Zenon
<1>8. \A i \in Workers : PolledInv(i)'
  BY <1>1, PolledStep, Zenon
<1>9. \A c \in Callers : ServedInv(c)'
  BY <1>1, ServedStep, Zenon
<1> QED BY <1>2, <1>3, <1>4, <1>5, <1>6, <1>7, <1>8, <1>9, Zenon DEF ProfileInv

(* The invariant gives the property.                                       *)
LEMMA ProfileInvImplies == ASSUME ProfileAssumption, ProfileInv PROVE OperationsOnce
<1>1. ExactlyOnce
  <2>1. ASSUME NEW o \in Ops PROVE returned[o] <= finished[o] /\ finished[o] <= begun[o]
    <3>1. ServedFor(o) \subseteq CallingFor(o) /\ CallingFor(o) \subseteq Callers
      BY Zenon DEF ServedFor, CallingFor, Served
    <3>2. IsFiniteSet(CallingFor(o))
      BY <3>1, FS_Subset, Zenon DEF ProfileAssumption
    <3>3. /\ Cardinality(ServedFor(o)) <= Cardinality(CallingFor(o))
          /\ Cardinality(CallingFor(o)) \in Nat /\ Cardinality(ServedFor(o)) \in Nat
      BY <3>1, <3>2, FS_Subset, FS_CardinalityType, Zenon
    <3>4. /\ begun[o] = returned[o] + Cardinality(CallingFor(o))
          /\ finished[o] = returned[o] + Cardinality(ServedFor(o))
          /\ returned[o] \in Nat
      BY Zenon DEF ProfileInv, CallCounts, CountOf, ProfileTypes, CallTypes
    <3> QED BY <3>3, <3>4
  <2> QED BY <2>1, Zenon DEF ExactlyOnce
<1>2. LoggedOnce
  <2>1. ASSUME NEW c \in Cpus
        PROVE  /\ \A j, k \in DOMAIN entries[c] : j < k => entries[c][j] < entries[c][k]
               /\ \A j, k \in DOMAIN file :
                    j < k /\ file[j][1] = c /\ file[k][1] = c => file[j][2] < file[k][2]
               /\ \E n \in head[c] .. Len(entries[c]) :
                    /\ \A j \in 1 .. n : \E k \in DOMAIN file : file[k] = <<c, entries[c][j]>>
                    /\ \A k \in DOMAIN file :
                         file[k][1] = c => \E j \in 1 .. n : file[k][2] = entries[c][j]
    <3>1. BufferInv(c) /\ LogInv(c)
      BY Zenon DEF ProfileInv
    <3>2. Written(c) \in head[c] .. Len(entries[c])
      BY <3>1 DEF ProfileInv, ProfileTypes, BufferTypes, BufferInv, Written
    <3> QED BY <3>1, <3>2, Zenon DEF BufferInv, LogInv, FileHolds
  <2> QED BY <2>1, Zenon DEF LoggedOnce
<1> QED BY <1>1, <1>2, Zenon DEF OperationsOnce

(* hrperf.c, enqueue_instructed_profile_op and the functions it queues:    *)
(* with the mutex and one caller per CPU, a call that returned has had its *)
(* operation done exactly once, and the log file holds each released entry *)
(* once and in order, for any number of callers, workers and CPUs.         *)
THEOREM ProfileCorrect == ASSUME ProfileAssumption, OwnItems PROVE ProfileSpec => []OperationsOnce
<1>1. ProfileInit => ProfileInv
  BY ProfileInitHolds, Zenon
<1>2. ProfileInv /\ [ProfileNext]_profileVars => ProfileInv'
  BY ProfileInvStep, Zenon
<1>3. ProfileInv => OperationsOnce
  BY ProfileInvImplies, Zenon
<1> QED BY <1>1, <1>2, <1>3, PTL DEF ProfileSpec

(* instructed_poll_and_log gives up the mutex between its two halves; when *)
(* its call returns, its own entries are in the file all the same.         *)
THEOREM ReturnsLogged == ASSUME ProfileAssumption, OwnItems PROVE ProfileSpec => ReturnMeansLogged
<1>1. ProfileInit => ProfileInv
  BY ProfileInitHolds, Zenon
<1>2. ProfileInv /\ [ProfileNext]_profileVars => ProfileInv'
  BY ProfileInvStep, Zenon
<1> DEFINE Returned ==
      \A c \in Callers :
        CallReturn(c) /\ cop[c] = "poll_and_log" =>
          \A d \in Cpus : LET r == <<d, polled[ItemOf(c)]>>
                          IN r \in dropped \/ \E k \in DOMAIN file : file[k] = r
<1>3. ProfileInv => Returned
  <2> SUFFICES ASSUME ProfileInv, NEW c \in Callers, CallReturn(c), cop[c] = "poll_and_log",
                      NEW d \in Cpus
               PROVE  Saved(d, polled[ItemOf(c)])
    BY Zenon DEF Saved
  <2>1. Served(c)
    BY ReturnServed, Zenon DEF ProfileInv
  <2> QED BY <2>1, Zenon DEF ProfileInv, ServedInv
<1>4. ProfileInv /\ [ProfileNext]_profileVars => [Returned]_profileVars
  BY <1>3, Zenon
<1> QED BY <1>1, <1>2, <1>4, PTL DEF ProfileSpec, ReturnMeansLogged

=============================================================================
