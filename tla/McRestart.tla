------------------------------ MODULE McRestart ------------------------------
(***************************************************************************)
(* A memcached server whose cache outlives the process                     *)
(* (apps/memcached-1.6.19/memcached.c): on a graceful stop it saves, next  *)
(* to the memory file, its clock, its CAS counter and the settings the     *)
(* memory depends on; the next process reuses the cache if they fit.       *)
(*                                                                         *)
(* Expiry times are kept relative to process_started, and the relative     *)
(* clock is counted from the monotonic clock, so both have to be carried   *)
(* over.  The two system clocks count whole seconds and tick out of phase; *)
(* clock_handler copies one of them a little later.  The file itself is    *)
(* restart.c's (external): it is written by a graceful stop only, and read *)
(* once.  One item stands for the cache; which settings must agree is one  *)
(* flag.                                                                   *)
(***************************************************************************)
EXTENDS Integers

CONSTANTS RtStart,     \* wall clock at the first start
          RtSeconds,   \* bound: seconds the run lasts
          RtMaxDelta,  \* REALTIME_MAXDELTA: larger expiry times are dates
          RtOffset,    \* ITEM_UPDATE_INTERVAL + 2
          RtExpiries,  \* expiry times clients send
          RtRestarts,  \* bound: restarts that keep the cache
          RtMaxCas     \* bound of the CAS counter

\* What the module assumes of its constants.
RestartAssumption ==
  /\ RtStart \in Nat /\ RtOffset \in Nat \ {0} /\ RtOffset <= RtStart
  /\ RtMaxDelta \in Nat /\ RtExpiries \subseteq Nat
  /\ RtSeconds \in Nat /\ RtRestarts \in Nat /\ RtMaxCas \in Nat

VARIABLES
  rtWall, rtMono,  \* the system clocks
  rtUp,            \* "up", "down"
  rtStarted,       \* process_started
  rtMonoStart,     \* monotonic_start
  rtCur,           \* current_time
  rtCas,           \* the last CAS identifier
  rtItem,          \* {} or the item: exp (relative), due (wall clock; 0: never), cas
  rtMeta,          \* {} or the saved metadata
  rtSame,          \* the settings are those of the previous process
  rtRestarts,      \* restarts that kept the cache
  rtTop            \* highest CAS identifier any item of this cache has had

rtvars == <<rtWall, rtMono, rtUp, rtStarted, rtMonoStart, rtCur, rtCas, rtItem, rtMeta, rtSame,
            rtRestarts, rtTop>>

RestartInit ==
  /\ rtWall = RtStart /\ rtMono \in {0, 1} /\ rtUp = "up"
  /\ rtStarted = RtStart - RtOffset /\ rtMonoStart = rtMono - RtOffset /\ rtCur = RtOffset
  /\ rtCas = 0 /\ rtItem = {} /\ rtMeta = {} /\ rtSame = TRUE /\ rtRestarts = 0 /\ rtTop = 0

\* A second ends on one of the clocks, in turn; clock_handler runs before the
\* next second.
Tick ==
  /\ rtWall < RtStart + RtSeconds
  /\ rtUp = "up" => rtCur = rtMono - rtMonoStart
  /\ IF rtMono = rtWall - RtStart
     THEN rtMono' = rtMono + 1 /\ UNCHANGED rtWall
     ELSE rtWall' = rtWall + 1 /\ UNCHANGED rtMono
  /\ UNCHANGED <<rtUp, rtStarted, rtMonoStart, rtCur, rtCas, rtItem, rtMeta, rtSame, rtRestarts, rtTop>>

ClockHandler ==
  /\ rtUp = "up" /\ rtCur # rtMono - rtMonoStart
  /\ rtCur' = rtMono - rtMonoStart
  /\ UNCHANGED <<rtWall, rtMono, rtUp, rtStarted, rtMonoStart, rtCas, rtItem, rtMeta, rtSame,
                 rtRestarts, rtTop>>

\* realtime: a date is made relative; one in the past becomes the first
\* second of the process, since 0 means never.
Realtime(e) ==
  IF e = 0 THEN 0
  ELSE IF e <= RtMaxDelta THEN e + rtCur
  ELSE IF e <= rtStarted THEN 1 ELSE e - rtStarted

\* A client stores an item; e is a delta or a date.
Store(e) ==
  /\ rtUp = "up" /\ rtItem = {} /\ rtCas < RtMaxCas
  /\ rtCas' = rtCas + 1 /\ rtTop' = rtCas + 1
  /\ rtItem' = {[exp |-> Realtime(e), cas |-> rtCas + 1,
                 due |-> IF e = 0 THEN 0 ELSE IF e <= RtMaxDelta THEN rtWall + e ELSE e]}
  /\ UNCHANGED <<rtWall, rtMono, rtUp, rtStarted, rtMonoStart, rtCur, rtMeta, rtSame, rtRestarts>>

Expired(i) == i.exp # 0 /\ i.exp <= rtCur

\* _mc_meta_save_cb: it takes one identifier itself.
MetaSave == [cur |-> rtCur, stop |-> rtWall, started |-> rtStarted, cas |-> rtCas + 1]

\* The process ends: gracefully, or without saving anything.
Stop(graceful) ==
  /\ rtUp = "up" /\ rtUp' = "down"
  /\ rtMeta' = IF graceful THEN {MetaSave} ELSE {}
  /\ rtSame' \in BOOLEAN
  /\ UNCHANGED <<rtWall, rtMono, rtStarted, rtMonoStart, rtCur, rtCas, rtItem, rtRestarts, rtTop>>

\* _mc_meta_load_cb: every line is there and agrees, and time has passed.
Reuse(m) == rtSame /\ rtWall - m.stop > 0

\* Fault variant of Resume: the time the server was down does not count.
ResumeAtStop(m) == rtStarted' = m.started /\ rtMonoStart' = rtMono - m.cur

\* main: the relative clock goes on from where the last process left it.
Resume(m) == rtStarted' = m.started /\ rtMonoStart' = rtMono - (m.cur + (rtWall - m.stop))

StartServer ==
  /\ rtUp = "down" /\ rtUp' = "up" /\ rtMeta' = {} /\ rtRestarts < RtRestarts
  /\ \/ /\ \E m \in rtMeta : Reuse(m) /\ Resume(m) /\ rtCas' = m.cas
        /\ rtRestarts' = rtRestarts + 1 /\ UNCHANGED <<rtItem, rtTop>>
     \/ /\ \A m \in rtMeta : ~Reuse(m)
        /\ rtStarted' = rtWall - RtOffset /\ rtMonoStart' = rtMono - RtOffset
        /\ rtCas' = 0 /\ rtItem' = {} /\ rtRestarts' = 0 /\ rtTop' = 0
  /\ rtCur' = rtMono - rtMonoStart'
  /\ UNCHANGED <<rtWall, rtMono, rtSame>>

\* The expired item is reclaimed.
Reclaim ==
  /\ rtUp = "up" /\ \E i \in rtItem : Expired(i)
  /\ rtItem' = {}
  /\ UNCHANGED <<rtWall, rtMono, rtUp, rtStarted, rtMonoStart, rtCur, rtCas, rtMeta, rtSame,
                 rtRestarts, rtTop>>

RestartNext ==
  \/ Tick \/ ClockHandler \/ StartServer \/ Reclaim
  \/ \E e \in RtExpiries : Store(e)
  \/ \E g \in BOOLEAN : Stop(g)

RestartSpec == RestartInit /\ [][RestartNext]_rtvars

----------------------------------------------------------------------------
\* Seconds the clocks of the server and of the clients may be apart: one for
\* the ticks, and one more for each restart, whose saved times are truncated.
Slack == 1 + rtRestarts

(* The server's idea of the time stays with the wall clock across restarts, *)
(* however long it was down: at most a second per restart is lost or        *)
(* gained.                                                                  *)
ClockKept ==
  rtUp = "up" /\ rtCur = rtMono - rtMonoStart =>
    rtStarted + rtCur - rtWall \in -Slack..Slack

(* Items expire when their client said, in this process or a later one: an  *)
(* item is not expired before it is due and not served long after.          *)
ExpiryKept ==
  \A i \in rtItem : rtUp = "up" =>
    IF i.due = 0 THEN ~Expired(i)
    ELSE /\ Expired(i) => rtWall >= i.due - Slack
         /\ ~Expired(i) => rtWall <= i.due + Slack + 1

(* A process that reuses the cache never gives an item an identifier that   *)
(* one of the cache has had, so no old cas of a client can succeed.         *)
CasGoesOn == rtUp = "up" => rtCas >= rtTop

(* memcached.c, warm restart: the server's time stays with the wall clock   *)
(* across restarts, items expire when their client said, in this process or *)
(* a later one, and no identifier of the cache is given out again.          *)
RestartKeepsTime == ClockKept /\ ExpiryKept /\ CasGoesOn

=============================================================================
