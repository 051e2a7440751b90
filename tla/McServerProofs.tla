--------------------------- MODULE McServerProofs ---------------------------
(***************************************************************************)
(* Proofs about two parts of the memcached server: its connections         *)
(* (McListen), for any number of descriptors and clients and any           *)
(* idle_timeout, and the restart that keeps the cache (McRestart), for any *)
(* clocks, expiry times and number of restarts.                            *)
(***************************************************************************)
EXTENDS McListen, McRestart, FiniteSetTheorems, TLAPS

(* Connections.  curr_conns counts the descriptors in one of the states    *)
(* between conn_new and conn_close.                                        *)
States == {"free", "queued", "open", "busy", "closing", "closed"}
Opened == {f \in Fds : liConn[f] \in {"open", "busy", "closing"}}

ConnInv ==
  /\ liConn \in [Fds -> States]
  /\ IsFiniteSet(Opened) /\ liCount = Cardinality(Opened)

(* A step that leaves liConn alone, or moves a descriptor between states   *)
(* on the same side of opened, keeps the count.                            *)
LEMMA SameCount ==
  ASSUME ConnInv, liCount' = liCount, liConn' \in [Fds -> States], Opened' = Opened
  PROVE  ConnInv'
BY DEF ConnInv

(* Each thread's step keeps curr_conns right.                              *)
LEMMA ConnStep == ASSUME ConnInv, [ListenNext]_livars PROVE ConnInv'
<1> USE DEF States
<1>1. liConn \in [Fds -> States] /\ IsFiniteSet(Opened) /\ liCount = Cardinality(Opened)
  BY DEF ConnInv
<1>2. CASE UNCHANGED liConn /\ UNCHANGED liCount
  BY <1>1, <1>2, SameCount DEF Opened
<1>3. CASE Accept
  <2>1. liCount' = liCount
    BY <1>3 DEF Accept
  <2>2. CASE UNCHANGED liConn
    BY <1>2, <2>1, <2>2
  <2>3. ASSUME NEW f \in Fds, NewFd(f), Set(f, "queued") PROVE ConnInv'
    <3>1. liConn[f] \in {"free", "closed"}
      BY <2>3 DEF NewFd, Unopened
    <3>2. liConn' \in [Fds -> States] /\ Opened' = Opened
      BY <1>1, <2>3, <3>1 DEF Set, Opened
    <3> QED BY <2>1, <3>2, SameCount
  <2> QED BY <1>3, <2>2, <2>3 DEF Accept
<1>4. ASSUME NEW f \in Fds, ConnNew(f) PROVE ConnInv'
  <2>1. /\ liConn' \in [Fds -> States] /\ liCount' = liCount + 1
        /\ f \notin Opened /\ Opened' = Opened \cup {f}
    BY <1>1, <1>4 DEF ConnNew, Set, Opened
  <2> QED BY <1>1, <2>1, FS_AddElement DEF ConnInv
<1>5. ASSUME NEW f \in Fds, ConnClose(f) PROVE ConnInv'
  <2>1. /\ liConn' \in [Fds -> States] /\ liCount' = liCount - 1
        /\ f \in Opened /\ Opened' = Opened \ {f}
    BY <1>1, <1>5 DEF ConnClose, Set, Opened
  <2> QED BY <1>1, <2>1, FS_RemoveElement DEF ConnInv
<1>6. ASSUME NEW f \in Fds, Command(f) \/ Serve(f) \/ ConnCloseIdle(f) PROVE ConnInv'
  <2>1. liCount' = liCount
    BY <1>6 DEF Command, Serve, ConnCloseIdle
  <2>2. CASE UNCHANGED liConn
    BY <1>2, <2>1, <2>2
  <2>3. ASSUME NEW s \in {"open", "busy", "closing"}, Set(f, s), liConn[f] \in {"open", "busy"}
        PROVE  ConnInv'
    <3>1. liConn' \in [Fds -> States] /\ Opened' = Opened
      BY <1>1, <2>3 DEF Set, Opened
    <3> QED BY <2>1, <3>1, SameCount
  <2> QED BY <1>6, <2>2, <2>3 DEF Command, Serve, ConnCloseIdle, StillIdle
<1>7. CASE StopAccepting \/ MaxconnsHandler \/ ScanOne \/ Clock \/ Connect
  BY <1>2, <1>7 DEF StopAccepting, MaxconnsHandler, ScanOne, Clock, Connect
<1>8. ASSUME NEW f \in Fds, Disconnect(f) PROVE ConnInv'
  BY <1>2, <1>8 DEF Disconnect
<1>9. CASE UNCHANGED livars
  BY <1>2, <1>9 DEF livars
<1> QED BY <1>3, <1>4, <1>5, <1>6, <1>7, <1>8, <1>9 DEF ListenNext, MainStep, WorkerStep

(* A connection starts to close only in Serve, whose client has left, and  *)
(* in ConnCloseIdle, which has looked at its age again.                    *)
LEMMA KickStep ==
  ASSUME ConnInv, [ListenNext]_livars,
         NEW g \in Fds, liConn[g] # "closing", liConn'[g] = "closing"
  PROVE  liGone[g] \/ liAge[g] > LiIdle
<1>1. liConn \in [Fds -> States]
  BY DEF ConnInv
<1>2. liConn' # liConn
  OBVIOUS
<1>3. CASE Accept
  <2>1. PICK f \in Fds : Set(f, "queued")
    BY <1>2, <1>3 DEF Accept
  <2> QED BY <1>1, <2>1 DEF Set
<1>4. ASSUME NEW f \in Fds, ConnNew(f) \/ ConnClose(f) \/ Command(f)
      PROVE  FALSE
  BY <1>1, <1>4 DEF ConnNew, ConnClose, Command, Set
<1>5. ASSUME NEW f \in Fds, Serve(f)
      PROVE  liGone[g]
  BY <1>1, <1>5 DEF Serve, Set
<1>6. ASSUME NEW f \in Fds, ConnCloseIdle(f)
      PROVE  liAge[g] > LiIdle
  BY <1>1, <1>2, <1>6 DEF ConnCloseIdle, StillIdle, Set
<1>7. ASSUME NEW f \in Fds
      PROVE  ~(StopAccepting \/ MaxconnsHandler \/ ScanOne \/ Clock \/ Connect
               \/ Disconnect(f) \/ UNCHANGED livars)
  BY <1>2 DEF StopAccepting, MaxconnsHandler, ScanOne, Clock, Connect, Disconnect, livars
<1> QED BY <1>3, <1>4, <1>5, <1>6, <1>7 DEF ListenNext, MainStep, WorkerStep

(* It holds when the server starts.                                        *)
LEMMA ConnInit == ASSUME ListenInit PROVE ConnInv
<1>1. Opened = {} /\ liConn \in [Fds -> States] /\ liCount = 0
  BY DEF ListenInit, Opened, States
<1> QED BY <1>1, FS_EmptySet DEF ConnInv

-----------------------------------------------------------------------------
(* memcached.c, conn_close, conn_close_idle: curr_conns counts exactly the *)
(* open connections, however late a notification of the timeout thread     *)
(* reaches its worker, and only connections that are silent for longer     *)
(* than idle_timeout, or whose client has left, are closed.                *)
THEOREM ConnectionsCorrect == ListenSpec => ConnectionsKept
<1>1. ListenInit => ConnInv
  BY ConnInit
<1>2. ConnInv /\ [ListenNext]_livars => ConnInv'
  BY ConnStep
<1>3. ConnInv => ConnsCounted
  BY DEF ConnInv, ConnsCounted, Opened
<1>4. ConnInv /\ [ListenNext]_livars =>
        [\A f \in Fds : liConn[f] # "closing" /\ liConn'[f] = "closing" =>
           liGone[f] \/ liAge[f] > LiIdle]_livars
  BY KickStep
<1> QED BY <1>1, <1>2, <1>3, <1>4, PTL DEF ListenSpec, ConnectionsKept, OnlySilentKicked

-----------------------------------------------------------------------------
(* How far the monotonic clock is ahead of the wall clock within a second. *)
Phase == rtMono - (rtWall - RtStart)

(* The error of the process's time base: process_started and               *)
(* monotonic_start name the same moment if it is 0.                        *)
Base == rtStarted - rtMonoStart - RtStart

(* An item's expiry time on the wall clock, as the process computes it,    *)
(* against the one its client meant.                                       *)
Error(i) == rtStarted + i.exp - i.due

(* The base drifts by at most one second in either direction per restart.  *)
ClockInv ==
  /\ rtWall \in Nat /\ rtMono \in Int /\ rtStarted \in Int /\ rtMonoStart \in Int
  /\ rtCur \in Int /\ rtRestarts \in Nat
  /\ Phase \in 0..1
  /\ Base \in -(1 + rtRestarts)..rtRestarts
  /\ rtUp \in {"up", "down"}
  /\ rtUp = "up" => rtMono - rtMonoStart - rtCur \in 0..Phase
  /\ rtCur >= RtOffset /\ rtStarted <= rtWall /\ rtStarted >= 0 /\ rtWall >= RtStart

(* A stored item never expires, expires at once, or is off by no more than *)
(* the base has moved since it was stored.                                 *)
ItemInv ==
  \A i \in rtItem :
    /\ i.exp \in Nat /\ i.due \in Nat
    /\ \/ i.exp = 0 /\ i.due = 0
       \/ i.exp = 1 /\ i.due > 0 /\ i.due <= rtStarted
       \/ i.exp > 0 /\ i.due > 0 /\ Error(i) - Base \in -rtRestarts..(rtRestarts + 1)

(* What the memory file holds for the next process.                        *)
MetaInv ==
  /\ rtCas \in Nat /\ rtTop \in Nat /\ rtTop <= rtCas
  /\ rtUp = "up" => rtMeta = {}
  /\ \A m \in rtMeta :
       /\ m.cur = rtCur /\ m.started = rtStarted /\ m.cas = rtCas + 1
       /\ m.stop \in Nat /\ m.stop <= rtWall
       /\ m.started + m.cur - m.stop - Base \in 0..1

RestartInv == ClockInv /\ ItemInv /\ MetaInv

-----------------------------------------------------------------------------
(* The invariant gives the three properties of a warm restart.             *)
LEMMA RestartImplies == ASSUME RestartAssumption, RestartInv PROVE RestartKeepsTime
<1> USE DEF RestartInv, ClockInv, Phase, Base, RestartAssumption
<1>1. ClockKept
  BY DEF ClockKept, Slack
<1>2. ASSUME NEW i \in rtItem, rtUp = "up"
      PROVE  IF i.due = 0 THEN ~Expired(i)
             ELSE /\ Expired(i) => rtWall >= i.due - Slack
                  /\ ~Expired(i) => rtWall <= i.due + Slack + 1
  <2>1. i.exp \in Nat /\ i.due \in Nat
    BY DEF ItemInv
  <2>2. CASE i.exp = 0 /\ i.due = 0
    BY <2>2 DEF Expired
  <2>3. CASE i.exp = 1 /\ i.due > 0 /\ i.due <= rtStarted
    BY <2>1, <2>3 DEF Expired, Slack
  <2>4. CASE i.exp > 0 /\ i.due > 0 /\ Error(i) - Base \in -rtRestarts..(rtRestarts + 1)
    BY <1>2, <2>1, <2>4 DEF Expired, Slack, Error
  <2> QED BY <2>2, <2>3, <2>4 DEF ItemInv
<1>3. ExpiryKept
  BY <1>2 DEF ExpiryKept
<1>4. CasGoesOn
  BY DEF CasGoesOn, MetaInv
<1> QED BY <1>1, <1>3, <1>4 DEF RestartKeepsTime

(* It holds at the first start.                                            *)
LEMMA RestartInvInit == ASSUME RestartAssumption, RestartInit PROVE RestartInv
BY DEF RestartInit, RestartAssumption, RestartInv, ClockInv, ItemInv, MetaInv, Phase, Base

(* Time passes, whether or not a process runs.                             *)
LEMMA RestartClock ==
  ASSUME RestartAssumption, RestartInv, Tick \/ ClockHandler PROVE RestartInv'
<1> USE DEF RestartInv, ClockInv, Phase, Base, RestartAssumption
<1>1. CASE Tick
  <2>1. /\ \/ rtMono = rtWall - RtStart /\ rtMono' = rtMono + 1 /\ rtWall' = rtWall
           \/ rtMono # rtWall - RtStart /\ rtWall' = rtWall + 1 /\ rtMono' = rtMono
        /\ rtUp = "up" => rtCur = rtMono - rtMonoStart
        /\ UNCHANGED <<rtUp, rtStarted, rtMonoStart, rtCur, rtCas, rtItem, rtMeta, rtRestarts, rtTop>>
    BY <1>1 DEF Tick
  <2>2. ClockInv'
    BY <2>1
  <2>3. ItemInv' /\ MetaInv'
    BY <2>1, <2>2 DEF ItemInv, MetaInv, Error
  <2> QED BY <2>2, <2>3, Zenon
<1>2. CASE ClockHandler
  <2>1. ClockInv'
    BY <1>2 DEF ClockHandler
  <2>2. ItemInv' /\ MetaInv'
    BY <1>2 DEF ClockHandler, ItemInv, MetaInv, Error
  <2> QED BY <2>1, <2>2, Zenon
<1> QED BY <1>1, <1>2

(* A client stores an item: realtime makes its expiry time relative.       *)
LEMMA RestartStore ==
  ASSUME RestartAssumption, RestartInv, NEW e \in RtExpiries, Store(e) PROVE RestartInv'
<1> USE DEF RestartInv, ClockInv, Phase, Base, RestartAssumption
<1> DEFINE due == IF e = 0 THEN 0 ELSE IF e <= RtMaxDelta THEN rtWall + e ELSE e
           item == [exp |-> Realtime(e), cas |-> rtCas + 1, due |-> due]
<1>1. /\ rtUp = "up" /\ rtItem' = {item} /\ rtCas' = rtCas + 1 /\ rtTop' = rtCas + 1
      /\ UNCHANGED <<rtWall, rtMono, rtUp, rtStarted, rtMonoStart, rtCur, rtMeta, rtRestarts>>
  BY DEF Store
<1>2. ClockInv'
  BY <1>1
<1>3. MetaInv'
  BY <1>1 DEF MetaInv
<1>4. ItemInv'
  <2>1. item.exp = Realtime(e) /\ item.due = due /\ e \in Nat
    OBVIOUS
  <2>2. Base' = Base /\ \A i : Error(i)' = rtStarted + i.exp - i.due
    BY <1>1 DEF Error
  <2>3. /\ Realtime(e) \in Nat /\ due \in Nat
        /\ \/ Realtime(e) = 0 /\ due = 0
           \/ Realtime(e) = 1 /\ due > 0 /\ due <= rtStarted
           \/ /\ Realtime(e) > 0 /\ due > 0
              /\ rtStarted + Realtime(e) - due - Base \in -rtRestarts..(rtRestarts + 1)
    BY <1>1, <2>1 DEF Realtime
  <2>4. \A i \in rtItem' : i.exp = Realtime(e) /\ i.due = due
    BY <1>1
  <2>5. rtStarted' = rtStarted /\ rtRestarts' = rtRestarts
    BY <1>1
  <2> HIDE DEF due, item, Base
  <2> QED BY <2>2, <2>3, <2>4, <2>5 DEF ItemInv
<1> QED BY <1>2, <1>3, <1>4, Zenon

(* A process ends, and the next one starts with the cache or without it.   *)
LEMMA RestartAgain ==
  ASSUME RestartAssumption, RestartInv, StartServer \/ \E g \in BOOLEAN : Stop(g) PROVE RestartInv'
<1> USE DEF RestartInv, ClockInv, Phase, Base, RestartAssumption
<1>1. ASSUME NEW g \in BOOLEAN, Stop(g) PROVE RestartInv'
  <2>1. /\ rtUp = "up" /\ rtUp' = "down" /\ rtMeta' \subseteq {MetaSave}
        /\ UNCHANGED <<rtWall, rtMono, rtStarted, rtMonoStart, rtCur, rtCas, rtItem, rtRestarts, rtTop>>
    BY <1>1 DEF Stop
  <2>2. ClockInv' /\ ItemInv'
    BY <2>1 DEF ItemInv, Error
  <2>3. /\ MetaSave.cur = rtCur /\ MetaSave.started = rtStarted
        /\ MetaSave.cas = rtCas + 1 /\ MetaSave.stop = rtWall
    BY DEF MetaSave
  <2>4. MetaInv'
    BY <2>1, <2>3 DEF MetaInv
  <2> QED BY <2>2, <2>4, Zenon
<1>2. ASSUME StartServer, NEW m \in rtMeta, Reuse(m), Resume(m), rtCas' = m.cas,
             rtRestarts' = rtRestarts + 1, rtItem' = rtItem, rtTop' = rtTop
      PROVE  RestartInv'
  <2>1. /\ rtUp = "down" /\ rtUp' = "up" /\ rtMeta' = {} /\ rtWall' = rtWall /\ rtMono' = rtMono
        /\ rtCur' = rtMono - rtMonoStart'
    BY <1>2 DEF StartServer
  <2>2. /\ m.cur = rtCur /\ m.started = rtStarted /\ m.cas = rtCas + 1
        /\ m.stop \in Nat /\ m.stop <= rtWall
        /\ rtStarted + rtCur - m.stop - Base \in 0..1
    BY DEF MetaInv
  <2>3. rtStarted' = rtStarted /\ rtMonoStart' = rtMono - (rtCur + (rtWall - m.stop))
    BY <1>2, <2>2 DEF Resume
  <2>4. ClockInv' /\ Base' - Base \in -1..1
    BY <1>2, <2>1, <2>2, <2>3
  <2>5. ItemInv'
    <3> HIDE DEF Base
    <3>1. Base \in Int /\ Base' \in Int
      BY <2>1, <2>3, <2>2 DEF Base
    <3>2. \A i : Error(i)' = Error(i)
      BY <2>3 DEF Error
    <3>3. ASSUME NEW i \in rtItem, Error(i) - Base \in -rtRestarts..(rtRestarts + 1),
                 i.exp \in Nat, i.due \in Nat
          PROVE  Error(i) - Base' \in -(rtRestarts')..(rtRestarts' + 1)
      <4>1. Error(i) \in Int
        BY <3>3 DEF Error
      <4>2. Base' - Base \in -1..1
        BY <2>4, Zenon
      <4>3. rtRestarts \in Nat /\ rtRestarts' = rtRestarts + 1
        BY <1>2
      <4>4. \A e, b, d \in Int, r \in Nat :
              e - b \in -r..(r + 1) /\ d - b \in -1..1 => e - d \in -(r + 1)..(r + 2)
        OBVIOUS
      <4>5. Error(i) - Base' \in -(rtRestarts + 1)..(rtRestarts + 2)
        BY <3>1, <3>3, <4>1, <4>2, <4>3, <4>4, Zenon
      <4>6. rtRestarts' + 1 = rtRestarts + 2
        BY <4>3
      <4> QED BY <4>3, <4>5, <4>6
    <3> QED BY <1>2, <2>3, <3>2, <3>3 DEF ItemInv
  <2>6. MetaInv'
    BY <1>2, <2>1, <2>2 DEF MetaInv
  <2> QED BY <2>4, <2>5, <2>6, Zenon
<1>3. ASSUME StartServer, rtStarted' = rtWall - RtOffset, rtMonoStart' = rtMono - RtOffset,
             rtCas' = 0, rtItem' = {}, rtRestarts' = 0, rtTop' = 0
      PROVE  RestartInv'
  <2>1. /\ rtUp' = "up" /\ rtMeta' = {} /\ rtWall' = rtWall /\ rtMono' = rtMono
        /\ rtCur' = rtMono - rtMonoStart' /\ rtWall >= RtStart
    BY <1>3 DEF StartServer
  <2> QED BY <1>3, <2>1 DEF ItemInv, MetaInv
<1> QED BY <1>1, <1>2, <1>3 DEF StartServer

(* Every step of the server keeps the invariant.                           *)
LEMMA RestartStep == ASSUME RestartAssumption, RestartInv, [RestartNext]_rtvars PROVE RestartInv'
<1>1. CASE Reclaim
  BY <1>1 DEF Reclaim, RestartInv, ClockInv, ItemInv, MetaInv, Phase, Base
<1>2. CASE UNCHANGED rtvars
  BY <1>2 DEF rtvars, RestartInv, ClockInv, ItemInv, MetaInv, Phase, Base, Error
<1> QED BY <1>1, <1>2, RestartClock, RestartStore, RestartAgain DEF RestartNext

-----------------------------------------------------------------------------
(* memcached.c, warm restart: the server's time follows the wall clock,    *)
(* items expire when their client said, and CAS identifiers go on, over    *)
(* any number of restarts and whatever the clients store.                  *)
THEOREM RestartCorrect == ASSUME RestartAssumption PROVE RestartSpec => []RestartKeepsTime
<1>1. RestartInit => RestartInv
  BY RestartInvInit
<1>2. RestartInv /\ [RestartNext]_rtvars => RestartInv'
  BY RestartStep
<1>3. RestartInv => RestartKeepsTime
  BY RestartImplies
<1> QED BY <1>1, <1>2, <1>3, PTL DEF RestartSpec

=============================================================================
